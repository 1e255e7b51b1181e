----------------------------- MODULE CallLemmas -----------------------------
(***************************************************************************)
(* What the operators on a call record return and what they leave alone:   *)
(* the type of the record, and the relation Routine, which every operator  *)
(* keeps that has nothing to do with master and slave roles, with the      *)
(* start of H.245, or with forwarding.                                     *)
(***************************************************************************)
EXTENDS OOChannels, ListLemmas

(* The messages the proofs keep track of: those that decide roles, those    *)
(* that set up or forward a call, and an empty capability set.              *)
RoleType == {"MSD", "MSDAck", "MSDReject"}
Tracked(m) ==
  \/ m.type \in RoleType
  \/ m.type \in {"Setup", "CallProceeding", "Alerting", "Connect", "CallForwarded"}
  \/ m.type = "TCS" /\ ~m.caps

(* What of a tracked message is in t, and what is before it, is so in s.    *)
Within(t, s) ==
  /\ \A i \in DOMAIN t : Tracked(t[i]) => \E k \in DOMAIN s : s[k] = t[i]
  /\ \A i, j \in DOMAIN t :
       i < j /\ Tracked(t[j]) => \E k, l \in DOMAIN s : k < l /\ s[k] = t[i] /\ s[l] = t[j]

LEMMA WithinReflexive == ASSUME NEW s PROVE Within(s, s)
  BY DEF Within

LEMMA WithinTransitive ==
  ASSUME NEW r, NEW s, NEW t, Within(t, s), Within(s, r)
  PROVE  Within(t, r)
<1>1. ASSUME NEW i \in DOMAIN t, Tracked(t[i])
      PROVE  \E k \in DOMAIN r : r[k] = t[i]
  <2>1. PICK k \in DOMAIN s : s[k] = t[i]
    BY <1>1 DEF Within
  <2> QED
    BY <1>1, <2>1 DEF Within
<1>2. ASSUME NEW i \in DOMAIN t, NEW j \in DOMAIN t, i < j, Tracked(t[j])
      PROVE  \E k, l \in DOMAIN r : k < l /\ r[k] = t[i] /\ r[l] = t[j]
  <2>1. PICK k \in DOMAIN s, l \in DOMAIN s : k < l /\ s[k] = t[i] /\ s[l] = t[j]
    BY <1>2 DEF Within
  <2>2. Tracked(s[l])
    BY <1>2, <2>1
  <2>3. \E x, y \in DOMAIN r : x < y /\ r[x] = s[k] /\ r[y] = s[l]
    BY <2>1, <2>2 DEF Within
  <2> QED
    BY <2>1, <2>3
<1> QED
  BY <1>1, <1>2 DEF Within

LEMMA AppendWithin ==
  ASSUME NEW S, NEW s \in Seq(S), NEW m \in S, ~Tracked(m)
  PROVE  Within(Append(s, m), s)
<1>1. /\ Append(s, m) \in Seq(S) /\ Len(Append(s, m)) = Len(s) + 1
      /\ \A i \in 1 .. Len(s) : Append(s, m)[i] = s[i]
      /\ Append(s, m)[Len(s) + 1] = m
  BY AppendProperties
<1>2. DOMAIN Append(s, m) = 1 .. Len(s) + 1 /\ DOMAIN s = 1 .. Len(s) /\ Len(s) \in Nat
  BY <1>1
<1>3. \A i \in DOMAIN Append(s, m) :
        i \in DOMAIN s \/ i = Len(s) + 1
  BY <1>2
<1> QED
  BY <1>1, <1>2, <1>3 DEF Within

(* What is left when messages in the middle are dropped.                    *)
LEMMA DropWithin ==
  ASSUME NEW S, NEW a \in Seq(S), NEW b \in Seq(S), NEW c \in Seq(S)
  PROVE  Within(a \o c, a \o (b \o c))
<1> DEFINE t == a \o c
           s == a \o (b \o c)
           at(i) == IF i <= Len(a) THEN i ELSE i + Len(b)
<1>1. Len(a) \in Nat /\ Len(b) \in Nat /\ Len(c) \in Nat
  OBVIOUS
<1>2. /\ t \in Seq(S) /\ Len(t) = Len(a) + Len(c)
      /\ \A i \in 1 .. Len(a) + Len(c) : t[i] = IF i <= Len(a) THEN a[i] ELSE c[i - Len(a)]
  BY ConcatProperties
<1>3. /\ b \o c \in Seq(S) /\ Len(b \o c) = Len(b) + Len(c)
      /\ \A i \in 1 .. Len(b) + Len(c) :
           (b \o c)[i] = IF i <= Len(b) THEN b[i] ELSE c[i - Len(b)]
  BY ConcatProperties
<1> DEFINE bc == b \o c
<1> HIDE DEF bc
<1>4. /\ bc \in Seq(S) /\ Len(bc) = Len(b) + Len(c)
      /\ \A i \in 1 .. Len(b) + Len(c) : bc[i] = IF i <= Len(b) THEN b[i] ELSE c[i - Len(b)]
  BY <1>3 DEF bc
<1>5. /\ a \o bc \in Seq(S) /\ Len(a \o bc) = Len(a) + Len(bc)
      /\ \A i \in 1 .. Len(a) + Len(bc) :
           (a \o bc)[i] = IF i <= Len(a) THEN a[i] ELSE bc[i - Len(a)]
  <2>1. bc \in Seq(S)
    BY <1>4
  <2> HIDE DEF s, t, at
  <2> QED
    BY <2>1, ConcatProperties
<1>6. /\ s \in Seq(S) /\ Len(s) = Len(a) + (Len(b) + Len(c))
      /\ \A i \in 1 .. Len(a) + (Len(b) + Len(c)) :
           s[i] = IF i <= Len(a) THEN a[i] ELSE bc[i - Len(a)]
  BY <1>4, <1>5 DEF bc
<1> HIDE DEF s, t
<1>7. DOMAIN t = 1 .. Len(a) + Len(c) /\ DOMAIN s = 1 .. Len(a) + (Len(b) + Len(c))
  BY <1>2, <1>6
<1>8. ASSUME NEW i \in DOMAIN t
      PROVE  at(i) \in DOMAIN s /\ s[at(i)] = t[i]
  <2>1. CASE i <= Len(a)
    BY SMTT(30), <2>1, <1>1, <1>2, <1>6, <1>7
  <2>2. CASE i > Len(a)
    <3> DEFINE n == i + Len(b) - Len(a)
    <3>1. /\ i \in 1 .. Len(a) + Len(c) /\ i + Len(b) \in 1 .. Len(a) + (Len(b) + Len(c))
          /\ n \in 1 .. Len(b) + Len(c) /\ ~(n <= Len(b)) /\ n - Len(b) = i - Len(a)
          /\ ~(i + Len(b) <= Len(a)) /\ ~(i <= Len(a))
      BY <2>2, <1>1, <1>7
    <3>2. s[i + Len(b)] = bc[n]
      <4> DEFINE j == i + Len(b)
      <4>1. j \in 1 .. Len(a) + (Len(b) + Len(c)) /\ ~(j <= Len(a)) /\ n = j - Len(a)
        BY <3>1, <1>1
      <4> HIDE DEF j, n
      <4>2. s[j] = bc[n]
        BY <4>1, <1>6
      <4> QED
        BY <4>2 DEF j
    <3> HIDE DEF n
    <3>3. bc[n] = c[n - Len(b)]
      BY <3>1, <1>4
    <3>4. t[i] = c[i - Len(a)]
      BY <3>1, <1>1, <1>2
    <3> QED
      BY <2>2, <3>1, <3>2, <3>3, <3>4, <1>1, <1>7
  <2> QED
    BY <2>1, <2>2, <1>1, <1>7
<1>9. ASSUME NEW i \in DOMAIN t, NEW j \in DOMAIN t, i < j
      PROVE  at(i) < at(j)
  BY <1>1, <1>7, <1>9
<1>10. Within(t, s)
  <2> HIDE DEF at
  <2> QED
    BY <1>8, <1>9 DEF Within
<1> QED
  BY <1>10 DEF s, t

(* What becomes of what is on its way when a message is queued, replaces    *)
(* the queue, or is taken from it, and when the other end reads one.        *)
LEMMA QueueAppends ==
  ASSUME NEW S, NEW net \in Seq(S), NEW out \in Seq(S), NEW m \in S
  PROVE  net \o Append(out, m) = Append(net \o out, m)
<1>1. << m >> \in Seq(S) /\ net \o out \in Seq(S)
  OBVIOUS
<1>2. Append(out, m) = out \o << m >> /\ Append(net \o out, m) = (net \o out) \o << m >>
  BY <1>1, AppendIsConcat
<1> QED
  BY <1>1, <1>2, ConcatAssociative

LEMMA QueueEmptied ==
  ASSUME NEW S, NEW net \in Seq(S), NEW out \in Seq(S)
  PROVE  Within(net \o << >>, net \o out)
<1>1. << >> \in Seq(S)
  OBVIOUS
<1>2. out \o << >> = out
  BY ConcatEmptySeq
<1> QED
  BY <1>1, <1>2, DropWithin

LEMMA QueueReplaced ==
  ASSUME NEW S, NEW net \in Seq(S), NEW out \in Seq(S), NEW m \in S, ~Tracked(m)
  PROVE  Within(net \o << m >>, net \o out)
<1>1. << >> \in Seq(S) /\ Append(<< >>, m) = << m >> /\ net \o << >> = net
  BY ConcatEmptySeq
<1>2. Within(Append(net, m), net)
  BY AppendWithin
<1>3. net \o << m >> = Append(net, m)
  BY AppendIsConcat
<1>4. Within(net, net \o out)
  BY <1>1, QueueEmptied
<1> QED
  BY <1>2, <1>3, <1>4, WithinTransitive

LEMMA HeadOfQueue ==
  ASSUME NEW S, NEW s \in Seq(S), s # << >>
  PROVE  /\ Head(s) \in S /\ Tail(s) \in Seq(S) /\ << Head(s) >> \in Seq(S)
         /\ s = << Head(s) >> \o Tail(s)
<1>1. /\ Head(s) \in S /\ Tail(s) \in Seq(S) /\ Len(Tail(s)) = Len(s) - 1
      /\ \A i \in 1 .. Len(Tail(s)) : Tail(s)[i] = s[i + 1]
  BY HeadTailProperties
<1> DEFINE h == << Head(s) >>
           r == Tail(s)
<1>2. h \in Seq(S) /\ Len(h) = 1 /\ h[1] = Head(s) /\ Head(s) = s[1]
  BY <1>1
<1> HIDE DEF h, r
<1>3. /\ h \o r \in Seq(S) /\ Len(h \o r) = Len(h) + Len(r)
      /\ \A i \in 1 .. Len(h) + Len(r) : (h \o r)[i] = IF i <= Len(h) THEN h[i] ELSE r[i - Len(h)]
  <2>1. h \in Seq(S) /\ r \in Seq(S)
    BY <1>1, <1>2 DEF r
  <2> QED
    BY <2>1, ConcatProperties
<1>4. Len(s) \in Nat /\ Len(h) + Len(r) = Len(s)
  BY <1>1, <1>2 DEF r
<1>5. \A i \in 1 .. Len(s) : (h \o r)[i] = s[i]
  <2> TAKE i \in 1 .. Len(s)
  <2>1. CASE i = 1
    BY <1>2, <1>3, <1>4, <2>1
  <2>2. CASE i # 1
    <3>1. i - 1 \in 1 .. Len(r) /\ i - 1 + 1 = i /\ ~(i <= 1)
      BY <2>2, <1>2, <1>4
    <3>2. r[i - 1] = s[i]
      BY <3>1, <1>1 DEF r
    <3> QED
      BY <3>1, <3>2, <1>2, <1>3, <1>4
  <2> QED
    BY <2>1, <2>2
<1>6. h \o r = s
  BY <1>3, <1>4, <1>5, SeqEqual
<1> QED
  BY <1>1, <1>2, <1>6 DEF h, r

LEMMA QueueServed ==
  ASSUME NEW S, NEW net \in Seq(S), NEW out \in Seq(S), out # << >>
  PROVE  /\ Within(net \o Tail(out), net \o out)
         /\ Append(net, Head(out)) \o Tail(out) = net \o out
<1>1. /\ Head(out) \in S /\ Tail(out) \in Seq(S) /\ << Head(out) >> \in Seq(S)
      /\ out = << Head(out) >> \o Tail(out)
  BY HeadOfQueue
<1>2. Within(net \o Tail(out), net \o out)
  BY <1>1, DropWithin
<1>3. Append(net, Head(out)) = net \o << Head(out) >>
  BY <1>1, AppendIsConcat
<1> QED
  BY <1>1, <1>2, <1>3, ConcatAssociative

LEMMA QueueRead ==
  ASSUME NEW S, NEW net \in Seq(S), NEW out \in Seq(S), net # << >>
  PROVE  /\ Within(Tail(net) \o out, net \o out)
         /\ Tail(net) \o out \in Seq(S)
         /\ net \o out = << Head(net) >> \o (Tail(net) \o out)
<1>1. /\ Head(net) \in S /\ Tail(net) \in Seq(S) /\ << Head(net) >> \in Seq(S)
      /\ net = << Head(net) >> \o Tail(net)
  BY HeadOfQueue
<1>2. net \o out = << Head(net) >> \o (Tail(net) \o out)
  BY <1>1, ConcatAssociative
<1>3. Tail(net) \o out \in Seq(S) /\ << >> \in Seq(S)
  BY <1>1, ConcatProperties
<1>4. Within(<< >> \o (Tail(net) \o out), << >> \o (<< Head(net) >> \o (Tail(net) \o out)))
  BY <1>1, <1>3, DropWithin
<1>5. /\ << >> \o (Tail(net) \o out) = Tail(net) \o out
      /\ << >> \o (<< Head(net) >> \o (Tail(net) \o out)) = << Head(net) >> \o (Tail(net) \o out)
  BY <1>1, <1>3, ConcatEmptySeq, ConcatProperties
<1> QED
  BY <1>2, <1>3, <1>4, <1>5
-----------------------------------------------------------------------------
(* The same with new messages: what of a tracked message is in t, and what  *)
(* is before it, is so in s, or the message is one of M; and of two         *)
(* messages about roles the first is in s.                                  *)
Adds(t, s, M) ==
  /\ \A i \in DOMAIN t : Tracked(t[i]) => t[i] \in M \/ \E k \in DOMAIN s : s[k] = t[i]
  /\ \A i, j \in DOMAIN t :
       i < j /\ Tracked(t[j])
         => t[j] \in M \/ \E k, l \in DOMAIN s : k < l /\ s[k] = t[i] /\ s[l] = t[j]
  /\ \A i, j \in DOMAIN t :
       i < j /\ t[i].type \in RoleType /\ t[j].type \in RoleType
         => \E k \in DOMAIN s : s[k] = t[i]

NoRole(M) == \A m \in M : m.type \notin RoleType

LEMMA NoneAboutRoles == NoRole({})
  BY DEF NoRole

LEMMA WithinAdds ==
  ASSUME NEW s, NEW t, NEW M, Within(t, s)
  PROVE  Adds(t, s, M)
<1>1. \A i, j \in DOMAIN t :
        i < j /\ t[i].type \in RoleType /\ t[j].type \in RoleType
          => \E k \in DOMAIN s : s[k] = t[i]
  BY DEF Within, Tracked
<1> QED
  BY <1>1 DEF Within, Adds

LEMMA AddsLess ==
  ASSUME NEW s, NEW t, NEW M, NEW N, Adds(t, s, M), \A m \in M : Tracked(m) => m \in N
  PROVE  Adds(t, s, N)
  BY DEF Adds

LEMMA AddsTransitive ==
  ASSUME NEW r, NEW s, NEW t, NEW M, NEW N, NEW L, Adds(t, s, N), Adds(s, r, M),
         M \subseteq L, N \subseteq L, NoRole(M) \/ NoRole(N)
  PROVE  Adds(t, r, L)
<1>1. ASSUME NEW i \in DOMAIN t, Tracked(t[i]), t[i] \notin L
      PROVE  \E k \in DOMAIN r : r[k] = t[i]
  <2>1. PICK k \in DOMAIN s : s[k] = t[i]
    BY <1>1 DEF Adds
  <2> QED
    BY <1>1, <2>1 DEF Adds
<1>2. ASSUME NEW i \in DOMAIN t, NEW j \in DOMAIN t, i < j, Tracked(t[j]), t[j] \notin L
      PROVE  \E k, l \in DOMAIN r : k < l /\ r[k] = t[i] /\ r[l] = t[j]
  <2>1. PICK k \in DOMAIN s, l \in DOMAIN s : k < l /\ s[k] = t[i] /\ s[l] = t[j]
    BY <1>2 DEF Adds
  <2>2. Tracked(s[l]) /\ s[l] \notin M
    BY <1>2, <2>1
  <2>3. \E x, y \in DOMAIN r : x < y /\ r[x] = s[k] /\ r[y] = s[l]
    BY <2>1, <2>2 DEF Adds
  <2> QED
    BY <2>1, <2>3
<1>3. ASSUME NEW i \in DOMAIN t, NEW j \in DOMAIN t, i < j,
             t[i].type \in RoleType, t[j].type \in RoleType
      PROVE  \E k \in DOMAIN r : r[k] = t[i]
  <2>0. Tracked(t[i]) /\ Tracked(t[j])
    BY <1>3 DEF Tracked
  <2>1. CASE NoRole(M)
    <3>1. PICK k \in DOMAIN s : s[k] = t[i]
      BY <1>3 DEF Adds
    <3>2. s[k] \notin M /\ Tracked(s[k])
      BY <1>3, <2>0, <2>1, <3>1 DEF NoRole
    <3>3. \E x \in DOMAIN r : r[x] = s[k]
      BY <3>2 DEF Adds
    <3> QED
      BY <3>1, <3>3
  <2>2. CASE NoRole(N)
    <3>1. t[j] \notin N
      BY <1>3, <2>2 DEF NoRole
    <3>2. PICK k \in DOMAIN s, l \in DOMAIN s : k < l /\ s[k] = t[i] /\ s[l] = t[j]
      BY <1>3, <2>0, <3>1 DEF Adds
    <3>3. \E x \in DOMAIN r : r[x] = s[k]
      BY <1>3, <3>2 DEF Adds
    <3> QED
      BY <3>2, <3>3
  <2> QED
    BY <2>1, <2>2
<1> QED
  BY <1>1, <1>2, <1>3 DEF Adds

LEMMA AppendAdds ==
  ASSUME NEW S, NEW s \in Seq(S), NEW m \in S
  PROVE  Adds(Append(s, m), s, {m})
<1>1. /\ Append(s, m) \in Seq(S) /\ Len(Append(s, m)) = Len(s) + 1
      /\ \A i \in 1 .. Len(s) : Append(s, m)[i] = s[i]
      /\ Append(s, m)[Len(s) + 1] = m
  BY AppendProperties
<1>2. DOMAIN Append(s, m) = 1 .. Len(s) + 1 /\ DOMAIN s = 1 .. Len(s) /\ Len(s) \in Nat
  BY <1>1
<1>3. \A i \in DOMAIN Append(s, m) :
        i \in DOMAIN s \/ i = Len(s) + 1
  BY <1>2
<1> QED
  BY <1>1, <1>2, <1>3 DEF Adds

LEMMA QueueAdds ==
  ASSUME NEW S, NEW net \in Seq(S), NEW out \in Seq(S), NEW m \in S
  PROVE  /\ Adds(net \o Append(out, m), net \o out, {m})
         /\ Adds(net \o << m >>, net \o out, {m})
<1>1. net \o out \in Seq(S)
  OBVIOUS
<1>2. Adds(net \o Append(out, m), net \o out, {m})
  <2> DEFINE s == net \o out
  <2>1. net \o Append(out, m) = Append(s, m) /\ s \in Seq(S)
    BY <1>1, QueueAppends
  <2> HIDE DEF s
  <2>2. Adds(Append(s, m), s, {m})
    BY <2>1, AppendAdds
  <2> QED
    BY <2>1, <2>2 DEF s
<1>3. net \o << >> = net
  BY ConcatEmptySeq
<1>4. Within(net, net \o out)
  BY <1>3, QueueEmptied
<1>5. net \o << m >> = Append(net, m)
  BY AppendIsConcat
<1>6. Adds(net \o << m >>, net, {m})
  BY <1>5, AppendAdds
<1>7. Adds(net \o << m >>, net \o out, {m})
  <2> DEFINE N == {}
  <2>1. Adds(net, net \o out, N) /\ NoRole(N) /\ N \subseteq {m}
    BY <1>4, WithinAdds DEF NoRole
  <2> HIDE DEF N
  <2> QED
    BY <1>6, <2>1, AddsTransitive
<1> QED
  BY <1>2, <1>7
-----------------------------------------------------------------------------
(* The calls                                                                *)

(* What an end has written or queued and the other end has not read.        *)
Sent225(c) == c.h225Net \o c.h225Out
Sent245(c) == c.h245Net \o c.h245Out

(* Where messages of M go: those about roles are tunnelled or not.          *)
To225(c, M) == {m \in M : m.type \in RoleType => Has(c, "TUNNELING")}
To245(c, M) == {m \in M : ~Has(c, "TUNNELING")}

(* A call with something of a separate H.245 connection.                    *)
Linked(c) ==
  \/ c.h245Sock # "none" \/ c.h245listener \/ c.remoteH245Port
  \/ \E t \in c.timers : t.type = "H245CONNECT"

(* d is a call that c may become with no tracked message sent but M.        *)
Moves(c, d, M) ==
  /\ d \in Call
  /\ d.callState >= c.callState
  /\ Has(d, "TUNNELING") <=> Has(c, "TUNNELING")
  /\ Linked(d) => Linked(c) \/ ~Has(c, "TUNNELING")
  /\ d.pCallFwdData = c.pCallFwdData
  /\ d.forwarded => c.forwarded \/ c.pCallFwdData = "byRemote"
  /\ d.h245SessionState = "PAUSED" => c.h245SessionState = "PAUSED"
  /\ Adds(Sent225(d), Sent225(c), To225(c, M))
  /\ Adds(Sent245(d), Sent245(c), To245(c, M))

(* The same without a step in the roles and without a new connection.       *)
Sends(c, d, M) ==
  /\ Moves(c, d, M)
  /\ d.masterSlaveState = c.masterSlaveState
  /\ d.statusDeterminationNumber = c.statusDeterminationNumber
  /\ Linked(d) => Linked(c)

Routine(c, d) == Sends(c, d, {})

LEMMA StateValues ==
  /\ CallState \subseteq Nat
  /\ \A s \in CallState : s <= CLEARED
  /\ CLEAR \in CallState /\ CLEARED \in CallState /\ PAUSED \in CallState
  /\ CLEAR_RELEASERECVD \in CallState /\ CLEAR_RELEASESENT \in CallState
  /\ CLEAR < CLEAR_RELEASERECVD /\ CLEAR_RELEASERECVD < CLEAR_RELEASESENT
  /\ CLEAR_RELEASESENT < CLEARED
  BY DEF CallState, CREATED, CLEAR, CLEARED, PAUSED, CLEAR_RELEASERECVD, CLEAR_RELEASESENT

LEMMA MovesTransitive ==
  ASSUME NEW b \in Call, NEW c, NEW d, NEW M, NEW N, NEW L, Moves(b, c, M), Moves(c, d, N),
         M \subseteq L, N \subseteq L, NoRole(M) \/ NoRole(N)
  PROVE  Moves(b, d, L)
<1>1. c \in Call /\ d \in Call
  BY DEF Moves
<1>2. b.callState \in Nat /\ c.callState \in Nat /\ d.callState \in Nat
  BY <1>1, StateValues DEF Call
<1>3. d.callState >= b.callState
  BY <1>2 DEF Moves
<1>4. /\ To225(b, M) \subseteq To225(b, L) /\ To245(b, M) \subseteq To245(b, L)
      /\ To225(c, N) \subseteq To225(b, L) /\ To245(c, N) \subseteq To245(b, L)
  BY DEF To225, To245, Moves
<1>5. \/ NoRole(To225(b, M)) /\ NoRole(To245(b, M))
      \/ NoRole(To225(c, N)) /\ NoRole(To245(c, N))
  BY DEF NoRole, To225, To245
<1>6. Adds(Sent225(d), Sent225(b), To225(b, L)) /\ Adds(Sent245(d), Sent245(b), To245(b, L))
  BY <1>4, <1>5, AddsTransitive DEF Moves
<1> QED
  BY <1>1, <1>3, <1>6 DEF Moves

LEMMA MovesMore ==
  ASSUME NEW c, NEW d, NEW M, NEW N, Moves(c, d, M), \A m \in M : Tracked(m) => m \in N
  PROVE  Moves(c, d, N)
<1>1. /\ \A m \in To225(c, M) : Tracked(m) => m \in To225(c, N)
      /\ \A m \in To245(c, M) : Tracked(m) => m \in To245(c, N)
  BY DEF To225, To245
<1>2. Adds(Sent225(d), Sent225(c), To225(c, N)) /\ Adds(Sent245(d), Sent245(c), To245(c, N))
  BY <1>1, AddsLess DEF Moves
<1> QED
  BY <1>2 DEF Moves

LEMMA SendsTransitive ==
  ASSUME NEW b \in Call, NEW c, NEW d, NEW M, NEW N, NEW L, Sends(b, c, M), Sends(c, d, N),
         M \subseteq L, N \subseteq L, NoRole(M) \/ NoRole(N)
  PROVE  Sends(b, d, L)
<1>1. Moves(b, d, L)
  BY MovesTransitive DEF Sends
<1> QED
  BY <1>1 DEF Sends

LEMMA SendsMore ==
  ASSUME NEW c, NEW d, NEW M, NEW N, Sends(c, d, M), \A m \in M : Tracked(m) => m \in N
  PROVE  Sends(c, d, N)
<1>1. Moves(c, d, N)
  BY MovesMore DEF Sends
<1> QED
  BY <1>1 DEF Sends

LEMMA RoutineType ==
  ASSUME NEW c, NEW d, Routine(c, d)
  PROVE  d \in Call
  BY DEF Routine, Sends, Moves

LEMMA RoutineTransitive ==
  ASSUME NEW b \in Call, NEW c, NEW d, Routine(b, c), Routine(c, d)
  PROVE  Routine(b, d)
<1> DEFINE M == {}
<1>1. Sends(b, c, M) /\ Sends(c, d, M) /\ NoRole(M)
  BY NoneAboutRoles DEF Routine
<1> HIDE DEF M
<1>2. Sends(b, d, M)
  BY <1>1, SendsTransitive
<1> QED
  BY <1>2 DEF Routine, M

(* The easy case: other timers, channels or counters.                       *)
Aside(c, d) ==
  /\ d.masterSlaveState = c.masterSlaveState
  /\ d.statusDeterminationNumber = c.statusDeterminationNumber
  /\ d.flags = c.flags /\ d.pCallFwdData = c.pCallFwdData
  /\ d.forwarded => c.forwarded \/ c.pCallFwdData = "byRemote"
  /\ d.remoteH245Port = c.remoteH245Port
  /\ d.h245listener => c.h245listener
  /\ d.h245Sock # "none" => c.h245Sock # "none"
  /\ \A t \in d.timers : t.type = "H245CONNECT" => t \in c.timers
  /\ d.h245SessionState = "PAUSED" => c.h245SessionState = "PAUSED"

LEMMA AsideSends ==
  ASSUME NEW c \in Call, NEW d \in Call, NEW M, Aside(c, d), d.callState >= c.callState,
         Adds(Sent225(d), Sent225(c), To225(c, M)), Adds(Sent245(d), Sent245(c), To245(c, M))
  PROVE  Sends(c, d, M)
<1>1. Linked(d) => Linked(c)
  BY DEF Linked, Aside
<1>2. Has(d, "TUNNELING") <=> Has(c, "TUNNELING")
  BY DEF Has, Aside
<1>3. Moves(c, d, M)
  BY <1>1, <1>2 DEF Moves, Aside
<1> QED
  BY <1>1, <1>3 DEF Sends, Aside

SameFlows(c, d) ==
  /\ d.h225Net = c.h225Net /\ d.h225Out = c.h225Out
  /\ d.h245Net = c.h245Net /\ d.h245Out = c.h245Out

LEMMA SameFlowsAdd ==
  ASSUME NEW c, NEW d, NEW M, NEW N, SameFlows(c, d)
  PROVE  Adds(Sent225(d), Sent225(c), M) /\ Adds(Sent245(d), Sent245(c), N)
<1>1. Sent225(d) = Sent225(c) /\ Sent245(d) = Sent245(c)
  BY DEF Sent225, Sent245, SameFlows
<1> QED
  BY <1>1, WithinReflexive, WithinAdds

LEMMA AsideRoutine ==
  ASSUME NEW c \in Call, NEW d \in Call, Aside(c, d), SameFlows(c, d),
         d.callState >= c.callState
  PROVE  Routine(c, d)
  BY SameFlowsAdd, AsideSends DEF Routine

LEMMA RoutineReflexive ==
  ASSUME NEW c \in Call
  PROVE  Routine(c, c)
<1>1. c.callState \in Nat
  BY StateValues DEF Call
<1>2. Aside(c, c) /\ SameFlows(c, c)
  BY DEF Aside, SameFlows
<1> QED
  BY <1>1, <1>2, AsideRoutine

LEMMA MarkClearRoutine ==
  ASSUME NEW c \in Call
  PROVE  /\ Routine(c, MarkClear(c))
         /\ MarkClear(c).h245SessionState = c.h245SessionState
<1>1. CLEAR \in CallState /\ "OTHER" \in EndReason
  BY StateValues DEF EndReason
<1>2. MarkClear(c) \in Call
  BY ZenonT(40), <1>1 DEF MarkClear, Call
<1>3. c.callState \in Nat /\ CLEAR \in Nat
  BY StateValues DEF Call
<1>4. MarkClear(c).callState >= c.callState
  BY <1>3 DEF MarkClear, Call
<1> QED
  <2>1. /\ Aside(c, MarkClear(c)) /\ SameFlows(c, MarkClear(c))
        /\ MarkClear(c).h245SessionState = c.h245SessionState
    BY DEF Aside, SameFlows, MarkClear, Call
  <2> QED
    BY <1>2, <1>4, <2>1, AsideRoutine

LEMMA TimerRoutine ==
  ASSUME NEW c \in Call, NEW t \in TimerType, NEW n \in Nat
  PROVE  /\ t # "H245CONNECT" => Routine(c, StartTimer(c, t, n))
         /\ StartTimer(c, t, n) \in Call
         /\ Routine(c, StopTimer(c, t, n))
<1>1. TimerOf(t, n) \in Timer /\ TimerOf(t, n).type = t
  BY DEF TimerOf, Timer
<1>2. StartTimer(c, t, n) \in Call /\ StopTimer(c, t, n) \in Call
  <2>1. StartTimer(c, t, n) \in Call
    BY <1>1 DEF StartTimer, Call
  <2>2. StopTimer(c, t, n) \in Call
    BY DEF StopTimer, Call
  <2> QED
    BY <2>1, <2>2
<1>3. c.callState \in Nat
  BY StateValues DEF Call
<1>4. Routine(c, StopTimer(c, t, n))
  <2>1. /\ Aside(c, StopTimer(c, t, n)) /\ SameFlows(c, StopTimer(c, t, n))
        /\ StopTimer(c, t, n).callState = c.callState
    BY DEF Aside, SameFlows, StopTimer, Call
  <2> QED
    BY <1>2, <1>3, <2>1, AsideRoutine
<1>5. ASSUME t # "H245CONNECT"
      PROVE  Routine(c, StartTimer(c, t, n))
  <2>1. /\ Aside(c, StartTimer(c, t, n)) /\ SameFlows(c, StartTimer(c, t, n))
        /\ StartTimer(c, t, n).callState = c.callState
    BY <1>1, <1>5 DEF Aside, SameFlows, StartTimer, Call
  <2> QED
    BY <1>2, <1>3, <2>1, AsideRoutine
<1> QED
  BY <1>2, <1>4, <1>5
-----------------------------------------------------------------------------
(* The list of logical channels                                             *)

LEMMA ChansRoutine ==
  ASSUME NEW c \in Call, NEW chans \in Seq(LogicalChan)
  PROVE  Routine(c, [c EXCEPT !.logicalChans = chans])
<1> DEFINE d == [c EXCEPT !.logicalChans = chans]
<1>1. d \in Call /\ d.callState = c.callState /\ c.callState \in Nat
  BY StateValues DEF Call
<1>2. Aside(c, d) /\ SameFlows(c, d)
  BY DEF Aside, SameFlows, Call
<1> HIDE DEF d
<1>3. Routine(c, d)
  BY <1>1, <1>2, AsideRoutine
<1> QED
  BY <1>3 DEF d

LEMMA CountersRoutine ==
  ASSUME NEW c \in Call
  PROVE  /\ \A n \in Nat : Routine(c, [c EXCEPT !.nextSessionID = n])
         /\ Routine(c, NextChanNo(c))
<1>1. ASSUME NEW n \in Nat
      PROVE  Routine(c, [c EXCEPT !.nextSessionID = n])
  <2> DEFINE d == [c EXCEPT !.nextSessionID = n]
  <2>1. d \in Call /\ d.callState = c.callState /\ c.callState \in Nat
    BY StateValues DEF Call
  <2>2. Aside(c, d) /\ SameFlows(c, d)
    BY DEF Aside, SameFlows, Call
  <2> HIDE DEF d
  <2>3. Routine(c, d)
    BY <2>1, <2>2, AsideRoutine
  <2> QED
    BY <2>3 DEF d
<1>2. Routine(c, NextChanNo(c))
  <2>1. c.logicalChanNoCur \in Nat /\ ChanNoBase \in Nat /\ ChanNoMax \in Nat
    BY ConstantsAssumption DEF Call
  <2>2. (IF c.logicalChanNoCur + 1 > ChanNoMax THEN ChanNoBase ELSE c.logicalChanNoCur + 1) \in Nat
    BY <2>1
  <2>3. NextChanNo(c) \in Call /\ NextChanNo(c).callState = c.callState /\ c.callState \in Nat
    <3>1. NextChanNo(c) \in Call
      BY <2>2 DEF NextChanNo, Call
    <3>2. NextChanNo(c).callState = c.callState /\ c.callState \in Nat
      BY StateValues DEF NextChanNo, Call
    <3> QED
      BY <3>1, <3>2
  <2>4. Aside(c, NextChanNo(c)) /\ SameFlows(c, NextChanNo(c))
    BY DEF Aside, SameFlows, NextChanNo, Call
  <2> QED
    BY <2>3, <2>4, AsideRoutine
<1> QED
  BY <1>1, <1>2

(* A search through the list finds a position or nothing.                   *)
LEMMA FindChanRange ==
  ASSUME NEW chans \in Seq(LogicalChan), NEW n
  PROVE  /\ FindChan(chans, n) \in 0 .. Len(chans)
         /\ FindChan(chans, n) # 0 => chans[FindChan(chans, n)].channelNo = n
<1> DEFINE I == {i \in 1 .. Len(chans) : chans[i].channelNo = n}
<1>1. FindChan(chans, n) = IF I # {} THEN Min(I) ELSE 0
  BY Zenon DEF FindChan, SelectInSeq
<1>2. I # {} => Min(I) \in I
  <2> Len(chans) \in Nat /\ I \in SUBSET (1 .. Len(chans))
    OBVIOUS
  <2> HIDE DEF I
  <2> QED
    BY LeastIndex
<1>3. Len(chans) \in Nat
  OBVIOUS
<1> QED
  BY <1>1, <1>2, <1>3

LEMMA SessionType ==
  ASSUME NEW c \in Call, NEW cap \in Cap, NEW dir
  PROVE  GenerateSession(c, cap, dir) \in Nat
<1>1. c.nextSessionID \in Nat
  BY DEF Call
<1> QED
  BY <1>1 DEF GenerateSession, DefaultSession

LEMMA UseSessionRoutine ==
  ASSUME NEW c \in Call, NEW session \in Nat
  PROVE  Routine(c, UseSession(c, session))
<1>1. c.nextSessionID + 1 \in Nat
  BY DEF Call
<1> QED
  BY <1>1, CountersRoutine, RoutineReflexive DEF UseSession

LEMMA AddChanRoutine ==
  ASSUME NEW c \in Call, NEW n \in Nat, NEW session \in Nat, NEW dir \in {"transmit", "receive"},
         NEW cap \in Cap, NEW st \in {"IDLE", "PROPOSED", "ESTABLISHED"}
  PROVE  /\ Routine(c, AddChanIn(c, n, session, dir, cap, st))
         /\ Routine(c, AddChan(c, n, dir, cap, st))
<1>1. ASSUME NEW d \in Call, NEW s \in Nat
      PROVE  Routine(d, AddChanIn(d, n, s, dir, cap, st))
  <2>1. [channelNo |-> n, session |-> s, dir |-> dir, cap |-> cap, state |-> st,
         started |-> FALSE] \in LogicalChan
    BY DEF LogicalChan
  <2>2. d.logicalChans \in Seq(LogicalChan)
    BY DEF Call
  <2>3. Append(d.logicalChans, [channelNo |-> n, session |-> s, dir |-> dir, cap |-> cap,
                                state |-> st, started |-> FALSE]) \in Seq(LogicalChan)
    BY <2>1, <2>2, AppendProperties
  <2> QED
    BY <2>3, ChansRoutine DEF AddChanIn
<1>2. GenerateSession(c, cap, dir) \in Nat
  BY SessionType
<1>3. Routine(c, UseSession(c, GenerateSession(c, cap, dir)))
  BY <1>2, UseSessionRoutine
<1>4. Routine(c, AddChan(c, n, dir, cap, st))
  <2>1. UseSession(c, GenerateSession(c, cap, dir)) \in Call
    BY <1>3, RoutineType
  <2> QED
    BY <1>1, <1>2, <1>3, <2>1, RoutineTransitive DEF AddChan
<1> QED
  BY <1>1, <1>4

LEMMA EntryChanged ==
  ASSUME NEW S, NEW s \in Seq(S), NEW i, NEW v, i \in 1 .. Len(s) => v \in S
  PROVE  [s EXCEPT ![i] = v] \in Seq(S)
<1>1. CASE i \in 1 .. Len(s)
  BY <1>1
<1>2. CASE i \notin 1 .. Len(s)
  <2>1. [s EXCEPT ![i] = v] = s
    BY <1>2
  <2> QED
    BY <2>1
<1> QED
  BY <1>1, <1>2

LEMMA EntryRoutine ==
  ASSUME NEW c \in Call, NEW i, NEW st \in {"IDLE", "PROPOSED", "ESTABLISHED"}
  PROVE  /\ Routine(c, SetChanState(c, i, st))
         /\ Routine(c, StartChan(c, i))
<1> DEFINE s == c.logicalChans
           a == [s[i] EXCEPT !.state = st]
           b == [s[i] EXCEPT !.started = TRUE]
<1>1. s \in Seq(LogicalChan)
  BY DEF Call
<1>2. i \in 1 .. Len(s) => s[i] \in LogicalChan
  BY <1>1
<1>3. i \in 1 .. Len(s) => a \in LogicalChan /\ b \in LogicalChan
  BY <1>2 DEF LogicalChan
<1>4. [s EXCEPT ![i] = a] \in Seq(LogicalChan) /\ [s EXCEPT ![i] = b] \in Seq(LogicalChan)
  <2> HIDE DEF a, b, s
  <2> QED
    BY <1>1, <1>3, EntryChanged
<1>5. /\ Routine(c, [c EXCEPT !.logicalChans = [s EXCEPT ![i] = a]])
      /\ Routine(c, [c EXCEPT !.logicalChans = [s EXCEPT ![i] = b]])
  BY <1>4, ChansRoutine
<1>6. /\ SetChanState(c, i, st) = [c EXCEPT !.logicalChans = [s EXCEPT ![i] = a]]
      /\ StartChan(c, i) = [c EXCEPT !.logicalChans = [s EXCEPT ![i] = b]]
  BY Zenon DEF SetChanState, StartChan
<1> QED
  BY <1>5, <1>6

LEMMA ClearChanRoutine ==
  ASSUME NEW c \in Call, NEW n
  PROVE  Routine(c, ClearChan(c, n)) /\ Routine(c, ClearAllChans(c))
<1>1. c.logicalChans \in Seq(LogicalChan) /\ << >> \in Seq(LogicalChan)
  BY DEF Call
<1>2. FindChan(c.logicalChans, n) \in 0 .. Len(c.logicalChans)
  BY <1>1, FindChanRange
<1>3. FindChan(c.logicalChans, n) # 0
        => RemoveAt(c.logicalChans, FindChan(c.logicalChans, n)) \in Seq(LogicalChan)
  BY <1>1, <1>2, RemoveAtType
<1>4. Routine(c, ClearChan(c, n))
  BY <1>3, ChansRoutine, RoutineReflexive DEF ClearChan
<1> QED
  BY <1>1, <1>4, ChansRoutine DEF ClearAllChans
-----------------------------------------------------------------------------
(* Sending                                                                  *)

LEMMA MessageFields ==
  ASSUME NEW m \in Message
  PROVE  /\ m.type \in ChanMsg \cup {"OLC"} => m.chan \in Nat
         /\ m.type \in {"TCS", "TCSReject"} => m.seq \in SeqNumber
         /\ m.type = "TCS" => m.caps \in BOOLEAN
         /\ m.type = "MSD" => m.terminalType \in Nat /\ m.number \in DetNumber
         /\ m.type = "MSDAck" => m.decision \in {"master", "slave"}
         /\ m.type = "OLC" => m.cap \in Cap /\ m.session \in Nat
         /\ m.type = "Setup" => m.tunneling \in BOOLEAN /\ m.fastPresent \in BOOLEAN
                                /\ m.fast \in Seq(FastOLC)
         /\ m.type \in {"CallProceeding", "Alerting", "Connect"} =>
              m.tunneling \in BOOLEAN /\ m.h245 \in BOOLEAN /\ m.fast \in Seq(FastOLC)
  BY DEF Message, Plain, ChanMsg

LEMMA StateRoutine ==
  ASSUME NEW c \in Call, NEW st \in CallState, st >= c.callState
  PROVE  Routine(c, [c EXCEPT !.callState = st])
<1> DEFINE d == [c EXCEPT !.callState = st]
<1>1. d \in Call /\ d.callState = st
  BY DEF Call
<1>2. Aside(c, d) /\ SameFlows(c, d)
  BY DEF Aside, SameFlows, Call
<1> HIDE DEF d
<1>3. Routine(c, d)
  BY <1>1, <1>2, AsideRoutine
<1> QED
  BY <1>3 DEF d

LEMMA SessionRoutine ==
  ASSUME NEW c \in Call, NEW s \in SessionState, s # "PAUSED"
  PROVE  Routine(c, [c EXCEPT !.h245SessionState = s])
<1> DEFINE d == [c EXCEPT !.h245SessionState = s]
<1>1. d \in Call /\ d.callState = c.callState /\ c.callState \in Nat
  BY StateValues DEF Call
<1>2. Aside(c, d) /\ SameFlows(c, d)
  BY DEF Aside, SameFlows, Call
<1> HIDE DEF d
<1>3. Routine(c, d)
  BY <1>1, <1>2, AsideRoutine
<1> QED
  BY <1>3 DEF d

LEMMA CloseRoutine ==
  ASSUME NEW c \in Call
  PROVE  /\ Routine(c, CloseH245(c)) /\ Routine(c, CloseH225(c))
         /\ CloseH245(c).callState = c.callState /\ CloseH225(c).callState = c.callState
<1>1. /\ c.callState \in Nat /\ Closed(c.h245Sock) \in Socket /\ Closed(c.h225Sock) \in Socket
      /\ Closed(c.h245Sock) # "none" => c.h245Sock # "none"
  BY StateValues DEF Call, Closed, Socket
<1>2. /\ c.h225Net \in Seq(Message) /\ c.h225Out \in Seq(Message)
      /\ c.h245Net \in Seq(Message) /\ c.h245Out \in Seq(Message)
      /\ << >> \in Seq(Message)
  BY DEF Call
<1>3. /\ Within(c.h225Net \o << >>, Sent225(c)) /\ Within(c.h245Net \o << >>, Sent245(c))
      /\ Within(Sent225(c), Sent225(c)) /\ Within(Sent245(c), Sent245(c))
  BY <1>2, QueueEmptied, WithinReflexive DEF Sent225, Sent245
<1>4. Routine(c, CloseH245(c)) /\ CloseH245(c).callState = c.callState
  <2> DEFINE d == CloseH245(c)
  <2>1. "CLOSED" \in SessionState
    BY DEF SessionState
  <2>2. d \in Call /\ d.callState = c.callState
    BY <1>1, <1>2, <2>1 DEF CloseH245, Call
  <2>3. Aside(c, d)
    BY <1>1 DEF Aside, CloseH245, Call
  <2>4. Sent225(d) = Sent225(c) /\ Sent245(d) = c.h245Net \o << >>
    BY DEF Sent225, Sent245, CloseH245, Call
  <2> HIDE DEF d
  <2>5. Routine(c, d)
    BY <1>1, <1>3, <2>2, <2>3, <2>4, AsideSends, WithinAdds DEF Routine
  <2> QED
    BY <2>2, <2>5 DEF d
<1>5. Routine(c, CloseH225(c)) /\ CloseH225(c).callState = c.callState
  <2> DEFINE d == CloseH225(c)
  <2>2. d \in Call /\ d.callState = c.callState
    BY <1>1, <1>2 DEF CloseH225, Call
  <2>3. Aside(c, d)
    BY <1>1 DEF Aside, CloseH225, Call
  <2>4. Sent245(d) = Sent245(c) /\ Sent225(d) = c.h225Net \o << >>
    BY DEF Sent225, Sent245, CloseH225, Call
  <2> HIDE DEF d
  <2>5. Routine(c, d)
    BY <1>1, <1>3, <2>2, <2>3, <2>4, AsideSends, WithinAdds DEF Routine
  <2> QED
    BY <2>2, <2>5 DEF d
<1> QED
  BY <1>4, <1>5

LEMMA OnSendReleaseCompleteRoutine ==
  ASSUME NEW c \in Call, c.callState # CLEARED
  PROVE  Routine(c, OnSendReleaseComplete(c))
<1> DEFINE st == IF c.callState = CLEAR_RELEASERECVD THEN CLEARED ELSE CLEAR_RELEASESENT
           c1 == [c EXCEPT !.callState = st]
           c2 == IF st = CLEAR_RELEASESENT /\ c.h245SessionState = "IDLE"
                 THEN StartTimer(c1, "SESSION", 0) ELSE c1
           c3 == IF c.h245SessionState = "CLOSED" THEN [c2 EXCEPT !.callState = CLEARED] ELSE c2
<1>1. st \in CallState /\ st >= c.callState /\ c.callState \in CallState
  <2>1. c.callState \in CallState
    BY DEF Call
  <2> QED
    BY <2>1 DEF CallState, CREATED, CLEARED, CLEAR_RELEASESENT, CLEAR_RELEASERECVD
<1> HIDE DEF st
<1>2. Routine(c, c1)
  BY <1>1, StateRoutine
<1>3. c1 \in Call
  BY <1>2, RoutineType
<1> HIDE DEF c1
<1>4. Routine(c1, c2)
  BY <1>3, TimerRoutine, RoutineReflexive DEF TimerType
<1>5. c2 \in Call /\ Routine(c, c2)
  BY <1>2, <1>4, RoutineType, RoutineTransitive
<1> HIDE DEF c2
<1>6. CLEARED \in CallState /\ CLEARED >= c2.callState
  BY <1>5, StateValues DEF Call
<1>7. Routine(c2, c3)
  BY <1>5, <1>6, StateRoutine, RoutineReflexive
<1>8. Routine(c, c3)
  BY <1>5, <1>7, RoutineTransitive
<1> QED
  BY <1>8 DEF OnSendReleaseComplete, c3, c2, c1, st

LEMMA OnSendMsgRoutine ==
  ASSUME NEW c \in Call, NEW m \in Message, c.callState # CLEARED
  PROVE  Routine(c, OnSendMsg(c, m))
<1>1. Routine(c, OnSendEndSession(c))
  <2>1. Routine(c, [c EXCEPT !.h245SessionState = "ENDSENT"])
    BY SessionRoutine DEF SessionState
  <2> DEFINE d == [c EXCEPT !.h245SessionState = "ENDSENT"]
  <2>2. d \in Call
    BY <2>1, RoutineType
  <2> HIDE DEF d
  <2>3. Routine(d, StartTimer(d, "SESSION", 0))
    BY <2>2, TimerRoutine DEF TimerType
  <2>4. Routine(c, StartTimer(d, "SESSION", 0))
    BY <2>1, <2>3, RoutineTransitive DEF d
  <2> QED
    BY <2>4, CloseRoutine DEF OnSendEndSession, d
<1>2. Routine(c, OnSendTCS(c))
  <2> DEFINE d == IF Has(c, "TUNNELING") /\ c.h245SessionState \in {"IDLE", "PAUSED"}
                  THEN [c EXCEPT !.h245SessionState = "ACTIVE"] ELSE c
  <2>1. Routine(c, d)
    BY SessionRoutine, RoutineReflexive DEF SessionState
  <2>2. d \in Call
    BY <2>1, RoutineType
  <2> HIDE DEF d
  <2>3. Routine(d, StartTimer(d, "TCS", 0))
    BY <2>2, TimerRoutine DEF TimerType
  <2> QED
    BY <2>1, <2>3, RoutineTransitive DEF OnSendTCS, d
<1>3. \A t \in TimerType \ {"H245CONNECT"} : \A n \in Nat : Routine(c, StartTimer(c, t, n))
  BY TimerRoutine
<1>4. m.type \in {"OLC", "CLC", "RCC"} => m.chan \in Nat
  BY MessageFields DEF ChanMsg
<1>5. Routine(c, OnSendReleaseComplete(c)) /\ Routine(c, c)
  BY OnSendReleaseCompleteRoutine, RoutineReflexive
<1> QED
  BY <1>1, <1>2, <1>3, <1>4, <1>5 DEF OnSendMsg, TimerType

LEMMA OutSends ==
  ASSUME NEW c \in Call, NEW q \in Seq(Message), NEW M
  PROVE  /\ Adds(c.h225Net \o q, Sent225(c), To225(c, M)) => Sends(c, [c EXCEPT !.h225Out = q], M)
         /\ Adds(c.h245Net \o q, Sent245(c), To245(c, M)) => Sends(c, [c EXCEPT !.h245Out = q], M)
<1>0. c.callState \in Nat
  BY StateValues DEF Call
<1>1. ASSUME Adds(c.h225Net \o q, Sent225(c), To225(c, M))
      PROVE  Sends(c, [c EXCEPT !.h225Out = q], M)
  <2> DEFINE d == [c EXCEPT !.h225Out = q]
  <2>1. d \in Call /\ d.callState = c.callState
    BY DEF Call
  <2>2. Aside(c, d)
    BY DEF Aside, Call
  <2>3. Sent225(d) = c.h225Net \o q /\ Sent245(d) = Sent245(c)
    BY DEF Sent225, Sent245, Call
  <2>4. Adds(Sent245(c), Sent245(c), To245(c, M))
    BY WithinReflexive, WithinAdds
  <2> HIDE DEF d
  <2>6. /\ Adds(Sent225(d), Sent225(c), To225(c, M)) /\ Adds(Sent245(d), Sent245(c), To245(c, M))
        /\ d.callState >= c.callState
    BY <1>0, <1>1, <2>1, <2>3, <2>4
  <2>5. Sends(c, d, M)
    BY <2>1, <2>2, <2>6, AsideSends
  <2> QED
    BY <2>5 DEF d
<1>2. ASSUME Adds(c.h245Net \o q, Sent245(c), To245(c, M))
      PROVE  Sends(c, [c EXCEPT !.h245Out = q], M)
  <2> DEFINE d == [c EXCEPT !.h245Out = q]
  <2>1. d \in Call /\ d.callState = c.callState
    BY DEF Call
  <2>2. Aside(c, d)
    BY DEF Aside, Call
  <2>3. Sent245(d) = c.h245Net \o q /\ Sent225(d) = Sent225(c)
    BY DEF Sent225, Sent245, Call
  <2>4. Adds(Sent225(c), Sent225(c), To225(c, M))
    BY WithinReflexive, WithinAdds
  <2> HIDE DEF d
  <2>6. /\ Adds(Sent245(d), Sent245(c), To245(c, M)) /\ Adds(Sent225(d), Sent225(c), To225(c, M))
        /\ d.callState >= c.callState
    BY <1>0, <1>2, <2>1, <2>3, <2>4
  <2>5. Sends(c, d, M)
    BY <2>1, <2>2, <2>6, AsideSends
  <2> QED
    BY <2>5 DEF d
<1> QED
  BY <1>1, <1>2

LEMMA SendMsgQ931Routine ==
  ASSUME NEW c \in Call, NEW w \in World
  PROVE  Routine(c, SendMsgQ931(w, c))
<1>1. CASE c.callState = CLEARED \/ c.h225Out = << >>
  BY <1>1, RoutineReflexive DEF SendMsgQ931
<1>2. CASE ~(c.callState = CLEARED \/ c.h225Out = << >>)
  <2> DEFINE m  == Head(c.h225Out)
             c1 == [c EXCEPT !.h225Out = Tail(@)]
             c2 == [c1 EXCEPT !.h225Net = Append(@, m)]
  <2>1. c.h225Net \in Seq(Message) /\ c.h225Out \in Seq(Message) /\ c.callState \in Nat
    BY StateValues DEF Call
  <2>2. m \in Message /\ Tail(c.h225Out) \in Seq(Message)
    BY <1>2, <2>1, HeadOfQueue
  <2>3. Append(c.h225Net, m) \in Seq(Message)
    BY <2>1, <2>2, AppendProperties
  <2>4. /\ Within(c.h225Net \o Tail(c.h225Out), Sent225(c))
        /\ Append(c.h225Net, m) \o Tail(c.h225Out) = Sent225(c)
    BY <1>2, <2>1, QueueServed DEF Sent225
  <2>5. Routine(c, c1)
    BY <2>2, <2>4, OutSends, WithinAdds DEF Routine
  <2>6. Routine(c, c2) /\ c2.callState = c.callState
    <3>1. c2 \in Call /\ c2.callState = c.callState
      BY <2>2, <2>3 DEF Call
    <3>2. Aside(c, c2)
      BY DEF Aside, Call
    <3>3. Sent225(c2) = Sent225(c) /\ Sent245(c2) = Sent245(c)
      BY <2>4 DEF Sent225, Sent245, Call
    <3> HIDE DEF c1, c2, m
    <3>4. Routine(c, c2)
      BY <2>1, <3>1, <3>2, <3>3, AsideSends, WithinReflexive, WithinAdds DEF Routine
    <3> QED
      BY <3>1, <3>4
  <2>7. c1 \in Call /\ c2 \in Call
    BY <2>5, <2>6, RoutineType
  <2>8. SendMsgQ931(w, c) = IF w.okH225 THEN OnSendMsg(c2, m) ELSE MarkClear(c1)
    BY <1>2 DEF SendMsgQ931
  <2> HIDE DEF c1, c2, m
  <2>9. Routine(c2, OnSendMsg(c2, m)) /\ Routine(c1, MarkClear(c1))
    BY <1>2, <2>2, <2>6, <2>7, OnSendMsgRoutine, MarkClearRoutine
  <2> QED
    BY <2>5, <2>6, <2>8, <2>9, RoutineTransitive
<1> QED
  BY <1>1, <1>2

LEMMA SendMsgH245Routine ==
  ASSUME NEW c \in Call, NEW w \in World
  PROVE  Routine(c, SendMsgH245(w, c))
<1>1. CASE c.callState = CLEARED \/ c.h245Out = << >>
  BY <1>1, RoutineReflexive DEF SendMsgH245
<1>2. CASE ~(c.callState = CLEARED \/ c.h245Out = << >>)
  <2> DEFINE m  == Head(c.h245Out)
             c1 == [c EXCEPT !.h245Out = Tail(@)]
             c2 == [c1 EXCEPT !.h245Net = Append(@, m)]
  <2>1. c.h245Net \in Seq(Message) /\ c.h245Out \in Seq(Message) /\ c.callState \in Nat
    BY StateValues DEF Call
  <2>2. m \in Message /\ Tail(c.h245Out) \in Seq(Message)
    BY <1>2, <2>1, HeadOfQueue
  <2>3. Append(c.h245Net, m) \in Seq(Message)
    BY <2>1, <2>2, AppendProperties
  <2>4. /\ Within(c.h245Net \o Tail(c.h245Out), Sent245(c))
        /\ Append(c.h245Net, m) \o Tail(c.h245Out) = Sent245(c)
    BY <1>2, <2>1, QueueServed DEF Sent245
  <2>5. Routine(c, c1)
    BY <2>2, <2>4, OutSends, WithinAdds DEF Routine
  <2>6. Routine(c, c2) /\ c2.callState = c.callState
    <3>1. c2 \in Call /\ c2.callState = c.callState
      BY <2>2, <2>3 DEF Call
    <3>2. Aside(c, c2)
      BY DEF Aside, Call
    <3>3. Sent225(c2) = Sent225(c) /\ Sent245(c2) = Sent245(c)
      BY <2>4 DEF Sent225, Sent245, Call
    <3> HIDE DEF c1, c2, m
    <3>4. Routine(c, c2)
      BY <2>1, <3>1, <3>2, <3>3, AsideSends, WithinReflexive, WithinAdds DEF Routine
    <3> QED
      BY <3>1, <3>4
  <2>7. c1 \in Call /\ c2 \in Call
    BY <2>5, <2>6, RoutineType
  <2>8. w.ok \in BOOLEAN
    BY DEF World
  <2>9. SendMsgH245(w, c) \in {c1, OnSendMsg(c2, m), MarkClear(c1)}
    BY <1>2, <2>8 DEF SendMsgH245
  <2> HIDE DEF c1, c2, m
  <2>10. Routine(c2, OnSendMsg(c2, m)) /\ Routine(c1, MarkClear(c1))
    BY <1>2, <2>2, <2>6, <2>7, OnSendMsgRoutine, MarkClearRoutine
  <2> QED
    BY <2>5, <2>6, <2>9, <2>10, RoutineTransitive
<1> QED
  BY <1>1, <1>2

LEMMA SendH225Sends ==
  ASSUME NEW c \in Call, NEW m \in Message, m.type \in RoleType => Has(c, "TUNNELING")
  PROVE  Sends(c, SendH225(c, m), {m})
<1>1. c.h225Net \in Seq(Message) /\ c.h225Out \in Seq(Message)
  BY DEF Call
<1>2. /\ Adds(c.h225Net \o Append(c.h225Out, m), Sent225(c), {m})
      /\ Adds(c.h225Net \o << m >>, Sent225(c), {m})
  BY <1>1, QueueAdds DEF Sent225
<1>3. To225(c, {m}) = {m}
  BY DEF To225
<1>4. Append(c.h225Out, m) \in Seq(Message) /\ << m >> \in Seq(Message)
  BY <1>1, AppendProperties
<1>5. /\ Sends(c, [c EXCEPT !.h225Out = Append(c.h225Out, m)], {m})
      /\ Sends(c, [c EXCEPT !.h225Out = << m >>], {m})
  BY <1>2, <1>3, <1>4, OutSends
<1> QED
  BY <1>5 DEF SendH225

LEMMA SendH245Sends ==
  ASSUME NEW c \in Call, NEW w \in World, NEW m \in Message
  PROVE  Sends(c, SendH245(w, c, m), {m})
<1>1. CASE Has(c, "TUNNELING")
  BY <1>1, SendH225Sends DEF SendH245
<1>2. CASE ~Has(c, "TUNNELING")
  <2>1. c.h245Net \in Seq(Message) /\ c.h245Out \in Seq(Message)
    BY DEF Call
  <2>2. /\ Adds(c.h245Net \o Append(c.h245Out, m), Sent245(c), {m})
        /\ Adds(c.h245Net \o << m >>, Sent245(c), {m})
    BY <2>1, QueueAdds DEF Sent245
  <2>3. To245(c, {m}) = {m}
    BY <1>2 DEF To245
  <2>4. Append(c.h245Out, m) \in Seq(Message) /\ << m >> \in Seq(Message)
    BY <2>1, AppendProperties
  <2> DEFINE c1 == [c EXCEPT !.h245Out = << m >>]
  <2>5. Sends(c, [c EXCEPT !.h245Out = Append(c.h245Out, m)], {m}) /\ Sends(c, c1, {m})
    BY <2>2, <2>3, <2>4, OutSends
  <2>6. SendH245(w, c, m) \in {[c EXCEPT !.h245Out = Append(c.h245Out, m)], SendMsgH245(w, c1)}
    BY <1>2 DEF SendH245
  <2>7. c1 \in Call
    BY <2>5 DEF Sends, Moves
  <2> HIDE DEF c1
  <2>8. Sends(c1, SendMsgH245(w, c1), {})
    BY <2>7, SendMsgH245Routine DEF Routine
  <2>9. Sends(c, SendMsgH245(w, c1), {m})
    BY <2>5, <2>8, SendsTransitive, NoneAboutRoles
  <2> QED
    BY <2>5, <2>6, <2>9
<1> QED
  BY <1>1, <1>2

(* A message that is not tracked.                                           *)
LEMMA SendRoutine ==
  ASSUME NEW c \in Call, NEW m \in Message, ~Tracked(m)
  PROVE  /\ Routine(c, SendH225(c, m))
         /\ \A w \in World : Routine(c, SendH245(w, c, m))
<1>1. m.type \notin RoleType
  BY DEF Tracked
<1>2. Sends(c, SendH225(c, m), {m})
  BY <1>1, SendH225Sends
<1>3. \A w \in World : Sends(c, SendH245(w, c, m), {m})
  BY SendH245Sends
<1> QED
  BY <1>2, <1>3, SendsMore DEF Routine

LEMMA UntrackedMessages ==
  /\ \A t \in Plain \ {"MSDReject", "CallForwarded"} : Msg(t) \in Message /\ ~Tracked(Msg(t))
  /\ \A t \in ChanMsg : \A n \in Nat : ChanMsgOf(t, n) \in Message /\ ~Tracked(ChanMsgOf(t, n))
  BY DEF Msg, ChanMsgOf, Message, Plain, ChanMsg, Tracked, RoleType

LEMMA CleanCallRoutine ==
  ASSUME NEW c \in Call
  PROVE  Routine(c, CleanCall(c))
<1> DEFINE a == ClearAllChans(c)
           b == CloseH245(a)
           c1 == CloseH225(b)
           v == c.pCallFwdData = "byRemote"
           d == [c1 EXCEPT !.h245listener = FALSE, !.timers = {}, !.cleaned = TRUE,
                           !.forwarded = v]
<1>1. Routine(c, a)
  BY ClearChanRoutine
<1>2. a \in Call
  BY <1>1, RoutineType
<1>3. a.pCallFwdData = c.pCallFwdData
  BY <1>1 DEF Routine, Sends, Moves
<1> HIDE DEF a
<1>4. Routine(a, b)
  BY <1>2, CloseRoutine
<1>5. b \in Call /\ b.pCallFwdData = a.pCallFwdData
  BY <1>4 DEF Routine, Sends, Moves
<1> HIDE DEF b
<1>6. Routine(b, c1)
  BY <1>5, CloseRoutine
<1>7. c1 \in Call /\ c1.pCallFwdData = b.pCallFwdData /\ c1.callState \in Nat
  BY <1>6, StateValues DEF Routine, Sends, Moves, Call
<1> HIDE DEF c1
<1>14. v \in BOOLEAN /\ (v => c1.pCallFwdData = "byRemote")
  BY <1>3, <1>5, <1>7
<1>10. CleanCall(c) = d
  BY DEF CleanCall, d, c1, b, a
<1> HIDE DEF v
<1>8. d \in Call /\ d.callState = c1.callState
  <2>1. d \in Call
    BY ZenonT(60), <1>7, <1>14 DEF Call
  <2>2. d.callState = c1.callState
    BY <1>7 DEF Call
  <2> QED
    BY <2>1, <2>2
<1>9. Aside(c1, d) /\ SameFlows(c1, d)
  BY <1>7, <1>14 DEF Aside, SameFlows, Call
<1> HIDE DEF d
<1>11. Routine(c1, d)
  BY <1>7, <1>8, <1>9, AsideRoutine
<1>12. Routine(c, c1)
  BY <1>1, <1>2, <1>4, <1>5, <1>6, RoutineTransitive
<1> QED
  BY <1>10, <1>11, <1>12, RoutineTransitive

LEMMA BuiltRoutine ==
  ASSUME NEW c \in Call
  PROVE  /\ Routine(c, [c EXCEPT !.endSessionBuilt = TRUE])
         /\ Routine(c, [c EXCEPT !.releaseBuilt = TRUE])
<1>0. c.callState \in Nat
  BY StateValues DEF Call
<1>1. Routine(c, [c EXCEPT !.endSessionBuilt = TRUE])
  <2> DEFINE d == [c EXCEPT !.endSessionBuilt = TRUE]
  <2>1. d \in Call /\ d.callState = c.callState
    BY DEF Call
  <2>2. Aside(c, d) /\ SameFlows(c, d)
    BY DEF Aside, SameFlows, Call
  <2> HIDE DEF d
  <2>3. Routine(c, d)
    BY <1>0, <2>1, <2>2, AsideRoutine
  <2> QED
    BY <2>3 DEF d
<1>2. Routine(c, [c EXCEPT !.releaseBuilt = TRUE])
  <2> DEFINE d == [c EXCEPT !.releaseBuilt = TRUE]
  <2>1. d \in Call /\ d.callState = c.callState
    BY DEF Call
  <2>2. Aside(c, d) /\ SameFlows(c, d)
    BY DEF Aside, SameFlows, Call
  <2> HIDE DEF d
  <2>3. Routine(c, d)
    BY <1>0, <2>1, <2>2, AsideRoutine
  <2> QED
    BY <2>3 DEF d
<1> QED
  BY <1>1, <1>2

LEMMA EndCallRoutine ==
  ASSUME NEW c \in Call, NEW w \in World
  PROVE  Routine(c, EndCall(w, c))
<1>1. CASE c.callState = CLEARED
  BY <1>1, CleanCallRoutine DEF EndCall
<1>2. CASE c.callState # CLEARED
  <2> DEFINE c1 == ClearAllChans(c)
             s1 == SendH245(w, c1, Msg("EndSession"))
             c2 == IF ~c1.endSessionBuilt /\ c1.h245SessionState \in {"ACTIVE", "ENDRECVD"}
                   THEN [s1 EXCEPT !.endSessionBuilt = TRUE] ELSE c1
             s2 == SendH225(c2, Msg("ReleaseComplete"))
             c3 == IF c2.h225Sock # "open" THEN [c2 EXCEPT !.callState = CLEARED]
                   ELSE IF ~c2.releaseBuilt /\ c2.callState \in {CLEAR, CLEAR_RELEASERECVD}
                   THEN [s2 EXCEPT !.releaseBuilt = TRUE] ELSE c2
  <2>1. Routine(c, c1)
    BY ClearChanRoutine
  <2>2. c1 \in Call
    BY <2>1, RoutineType
  <2> HIDE DEF c1
  <2>3. Routine(c1, s1)
    BY <2>2, SendRoutine, UntrackedMessages DEF Plain
  <2>4. s1 \in Call
    BY <2>3, RoutineType
  <2> HIDE DEF s1
  <2>5. Routine(c1, c2)
    BY <2>2, <2>3, <2>4, BuiltRoutine, RoutineTransitive, RoutineReflexive
  <2>6. c2 \in Call
    BY <2>5, RoutineType
  <2> HIDE DEF c2
  <2>7. Routine(c2, s2)
    BY <2>6, SendRoutine, UntrackedMessages DEF Plain
  <2>8. s2 \in Call
    BY <2>7, RoutineType
  <2> HIDE DEF s2
  <2>9. Routine(c2, [s2 EXCEPT !.releaseBuilt = TRUE])
    BY <2>6, <2>7, <2>8, BuiltRoutine, RoutineTransitive
  <2>10. Routine(c2, [c2 EXCEPT !.callState = CLEARED])
    BY <2>6, StateRoutine, StateValues DEF Call
  <2>11. Routine(c2, c3)
    BY <2>6, <2>9, <2>10, RoutineReflexive
  <2>12. EndCall(w, c) = c3
    BY <1>2 DEF EndCall, c3, s2, c2, s1, c1
  <2> HIDE DEF c3
  <2> QED
    BY <2>1, <2>2, <2>5, <2>6, <2>11, <2>12, RoutineTransitive
<1> QED
  BY <1>1, <1>2
-----------------------------------------------------------------------------
(* H.245                                                                    *)

LEMMA CapStateRoutine ==
  ASSUME NEW c \in Call, NEW l \in LocalTermCapState, NEW r \in RemoteTermCapState,
         NEW n \in SeqNumber
  PROVE  /\ Routine(c, [c EXCEPT !.localTermCapSeqNo = n, !.localTermCapState = l])
         /\ Routine(c, [c EXCEPT !.localTermCapState = l])
         /\ Routine(c, [c EXCEPT !.remoteTermCapState = r])
         /\ Routine(c, [c EXCEPT !.remoteTermCapSeqNo = n])
<1>0. c.callState \in Nat
  BY StateValues DEF Call
<1>1. Routine(c, [c EXCEPT !.localTermCapSeqNo = n, !.localTermCapState = l])
  <2> DEFINE d == [c EXCEPT !.localTermCapSeqNo = n, !.localTermCapState = l]
  <2>1. d \in Call /\ d.callState = c.callState
    BY DEF Call
  <2>2. Aside(c, d) /\ SameFlows(c, d)
    BY DEF Aside, SameFlows, Call
  <2> HIDE DEF d
  <2>3. Routine(c, d)
    BY <1>0, <2>1, <2>2, AsideRoutine
  <2> QED
    BY <2>3 DEF d
<1>2. Routine(c, [c EXCEPT !.localTermCapState = l])
  <2> DEFINE d == [c EXCEPT !.localTermCapState = l]
  <2>1. d \in Call /\ d.callState = c.callState
    BY DEF Call
  <2>2. Aside(c, d) /\ SameFlows(c, d)
    BY DEF Aside, SameFlows, Call
  <2> HIDE DEF d
  <2>3. Routine(c, d)
    BY <1>0, <2>1, <2>2, AsideRoutine
  <2> QED
    BY <2>3 DEF d
<1>3. Routine(c, [c EXCEPT !.remoteTermCapState = r])
  <2> DEFINE d == [c EXCEPT !.remoteTermCapState = r]
  <2>1. d \in Call /\ d.callState = c.callState
    BY DEF Call
  <2>2. Aside(c, d) /\ SameFlows(c, d)
    BY DEF Aside, SameFlows, Call
  <2> HIDE DEF d
  <2>3. Routine(c, d)
    BY <1>0, <2>1, <2>2, AsideRoutine
  <2> QED
    BY <2>3 DEF d
<1>4. Routine(c, [c EXCEPT !.remoteTermCapSeqNo = n])
  <2> DEFINE d == [c EXCEPT !.remoteTermCapSeqNo = n]
  <2>1. d \in Call /\ d.callState = c.callState
    BY DEF Call
  <2>2. Aside(c, d) /\ SameFlows(c, d)
    BY DEF Aside, SameFlows, Call
  <2> HIDE DEF d
  <2>3. Routine(c, d)
    BY <1>0, <2>1, <2>2, AsideRoutine
  <2> QED
    BY <2>3 DEF d
<1> QED
  BY <1>1, <1>2, <1>3, <1>4

LEMMA SendTermCapRoutine ==
  ASSUME NEW c \in Call, NEW w \in World
  PROVE  Routine(c, SendTermCap(w, c))
<1>1. CASE c.localTermCapState = "SetSent"
  BY <1>1, RoutineReflexive DEF SendTermCap
<1>2. CASE c.localTermCapState # "SetSent"
  <2> DEFINE n == (c.localTermCapSeqNo + 1) % TCSSeqMod
             c1 == [c EXCEPT !.localTermCapSeqNo = n, !.localTermCapState = "SetSent"]
             m == [type |-> "TCS", seq |-> n, caps |-> TRUE]
  <2>1. n \in SeqNumber
    BY SMTT(30), ConstantsAssumption DEF Call, SeqNumber
  <2>2. m \in Message /\ ~Tracked(m)
    BY <2>1 DEF Message, Tracked, RoleType
  <2>3. Routine(c, c1)
    BY <2>1, CapStateRoutine DEF LocalTermCapState, RemoteTermCapState
  <2>4. c1 \in Call
    BY <2>3, RoutineType
  <2>5. SendTermCap(w, c) = SendH245(w, c1, m)
    BY <1>2 DEF SendTermCap
  <2> HIDE DEF c1, m
  <2> QED
    BY <2>2, <2>3, <2>4, <2>5, SendRoutine, RoutineTransitive
<1> QED
  BY <1>1, <1>2

(* The two kinds of step in the roles: e says a number, or takes a role.    *)
NumberMsg(e, n) == [type |-> "MSD", terminalType |-> TermType[e], number |-> n]
RoleMsg(role)   == [type |-> "MSDAck", decision |-> IF role = "Master" THEN "slave" ELSE "master"]

Starts(e, c, d) ==
  /\ Moves(c, d, {NumberMsg(e, d.statusDeterminationNumber)})
  /\ d.masterSlaveState = "DetermineSent"

TakesRole(c, d, role) ==
  /\ Moves(c, d, {RoleMsg(role)})
  /\ d.masterSlaveState = role
  /\ d.statusDeterminationNumber = c.statusDeterminationNumber

LEMMA StartsAround ==
  ASSUME NEW e, NEW b \in Call, NEW c, NEW d, NEW role
  PROVE  /\ Starts(e, b, c) /\ Routine(c, d) => Starts(e, b, d)
         /\ Routine(b, c) /\ Starts(e, c, d) => Starts(e, b, d)
         /\ TakesRole(b, c, role) /\ Routine(c, d) => TakesRole(b, d, role)
         /\ Routine(b, c) /\ TakesRole(c, d, role) => TakesRole(b, d, role)
<1>1. ASSUME Routine(c, d)
      PROVE  /\ Moves(c, d, {}) /\ d.masterSlaveState = c.masterSlaveState
             /\ d.statusDeterminationNumber = c.statusDeterminationNumber
  BY <1>1 DEF Routine, Sends
<1>2. ASSUME Routine(b, c)
      PROVE  /\ Moves(b, c, {}) /\ c.masterSlaveState = b.masterSlaveState
             /\ c.statusDeterminationNumber = b.statusDeterminationNumber
  BY <1>2 DEF Routine, Sends
<1>3. ASSUME NEW M
      PROVE  /\ Moves(b, c, M) /\ Moves(c, d, {}) => Moves(b, d, M)
             /\ Moves(b, c, {}) /\ Moves(c, d, M) => Moves(b, d, M)
  BY MovesTransitive, NoneAboutRoles
<1>4. ASSUME Starts(e, b, c), Routine(c, d)
      PROVE  Starts(e, b, d)
  BY <1>1, <1>3, <1>4 DEF Starts
<1>5. ASSUME Routine(b, c), Starts(e, c, d)
      PROVE  Starts(e, b, d)
  BY <1>2, <1>3, <1>5 DEF Starts
<1>6. ASSUME TakesRole(b, c, role), Routine(c, d)
      PROVE  TakesRole(b, d, role)
  BY <1>1, <1>3, <1>6 DEF TakesRole
<1>7. ASSUME Routine(b, c), TakesRole(c, d, role)
      PROVE  TakesRole(b, d, role)
  BY <1>2, <1>3, <1>7 DEF TakesRole
<1> QED
  BY <1>4, <1>5, <1>6, <1>7

(* A change of the role or the number alone.                                *)
LEMMA RoleMoves ==
  ASSUME NEW c \in Call, NEW d, NEW s \in MasterSlaveState, NEW n \in DetNumber, NEW M,
         Moves(c, d, M)
  PROVE  /\ Moves(c, [d EXCEPT !.masterSlaveState = s], M)
         /\ Moves(c, [d EXCEPT !.statusDeterminationNumber = n, !.masterSlaveState = s], M)
<1>1. d \in Call
  BY DEF Moves
<1>2. ASSUME NEW x \in Call, x.callState = d.callState, x.flags = d.flags,
             x.pCallFwdData = d.pCallFwdData, x.forwarded = d.forwarded,
             x.h245SessionState = d.h245SessionState, SameFlows(d, x),
             x.h245Sock = d.h245Sock, x.h245listener = d.h245listener,
             x.remoteH245Port = d.remoteH245Port, x.timers = d.timers
      PROVE  Moves(c, x, M)
  <2>1. Sent225(x) = Sent225(d) /\ Sent245(x) = Sent245(d)
    BY <1>2 DEF Sent225, Sent245, SameFlows
  <2>2. Linked(x) <=> Linked(d)
    BY <1>2 DEF Linked
  <2>3. Has(x, "TUNNELING") <=> Has(d, "TUNNELING")
    BY <1>2 DEF Has
  <2> QED
    BY <1>2, <2>1, <2>2, <2>3 DEF Moves
<1>3. Moves(c, [d EXCEPT !.masterSlaveState = s], M)
  <2> DEFINE x == [d EXCEPT !.masterSlaveState = s]
  <2>1. x \in Call
    BY <1>1 DEF Call
  <2>2. /\ x.callState = d.callState /\ x.flags = d.flags
        /\ x.pCallFwdData = d.pCallFwdData /\ x.forwarded = d.forwarded
        /\ x.h245SessionState = d.h245SessionState /\ SameFlows(d, x)
        /\ x.h245Sock = d.h245Sock /\ x.h245listener = d.h245listener
        /\ x.remoteH245Port = d.remoteH245Port /\ x.timers = d.timers
    BY <1>1 DEF SameFlows, Call
  <2> HIDE DEF x
  <2>3. Moves(c, x, M)
    BY <1>2, <2>1, <2>2
  <2> QED
    BY <2>3 DEF x
<1>4. Moves(c, [d EXCEPT !.statusDeterminationNumber = n, !.masterSlaveState = s], M)
  <2> DEFINE x == [d EXCEPT !.statusDeterminationNumber = n, !.masterSlaveState = s]
  <2>1. x \in Call
    BY <1>1 DEF Call
  <2>2. /\ x.callState = d.callState /\ x.flags = d.flags
        /\ x.pCallFwdData = d.pCallFwdData /\ x.forwarded = d.forwarded
        /\ x.h245SessionState = d.h245SessionState /\ SameFlows(d, x)
        /\ x.h245Sock = d.h245Sock /\ x.h245listener = d.h245listener
        /\ x.remoteH245Port = d.remoteH245Port /\ x.timers = d.timers
    BY <1>1 DEF SameFlows, Call
  <2> HIDE DEF x
  <2>3. Moves(c, x, M)
    BY <1>2, <2>1, <2>2
  <2> QED
    BY <2>3 DEF x
<1> QED
  BY <1>3, <1>4

LEMMA SendMSDStarts ==
  ASSUME NEW e \in Endpoint, NEW w \in World, NEW c \in Call
  PROVE  /\ c.masterSlaveState = "Idle" => Starts(e, c, SendMSD(e, w, c))
         /\ c.masterSlaveState # "Idle" => SendMSD(e, w, c) = c
<1>1. ASSUME c.masterSlaveState = "Idle"
      PROVE  Starts(e, c, SendMSD(e, w, c))
  <2> DEFINE m == [type |-> "MSD", terminalType |-> TermType[e], number |-> w.num]
             c1 == [c EXCEPT !.statusDeterminationNumber = w.num,
                             !.masterSlaveState = "DetermineSent"]
             d == SendH245(w, c1, m)
  <2>1. w.num \in DetNumber /\ TermType[e] \in Nat
    BY ConstantsAssumption DEF World
  <2>2. m \in Message
    BY <2>1 DEF Message
  <2>3. Moves(c, c, {})
    BY RoutineReflexive DEF Routine, Sends
  <2>4. Moves(c, c1, {})
    BY <2>1, <2>3, RoleMoves DEF MasterSlaveState
  <2>5. c1 \in Call /\ c1.statusDeterminationNumber = w.num
        /\ c1.masterSlaveState = "DetermineSent"
    BY <2>1, <2>4 DEF Moves, Call
  <2>6. SendMSD(e, w, c) = d
    BY <1>1 DEF SendMSD
  <2> HIDE DEF c1
  <2>7. Sends(c1, d, {m})
    BY <2>2, <2>5, SendH245Sends
  <2>8. /\ d.statusDeterminationNumber = w.num /\ d.masterSlaveState = "DetermineSent"
        /\ Moves(c, d, {m})
    BY <2>4, <2>5, <2>7, MovesTransitive, NoneAboutRoles DEF Sends
  <2> QED
    BY <2>6, <2>8 DEF Starts, NumberMsg
<1>2. ASSUME c.masterSlaveState # "Idle"
      PROVE  SendMSD(e, w, c) = c
  BY <1>2 DEF SendMSD
<1> QED
  BY <1>1, <1>2

LEMMA BecomeTakesRole ==
  ASSUME NEW w \in World, NEW c \in Call
  PROVE  /\ TakesRole(c, BecomeMaster(w, c), "Master")
         /\ TakesRole(c, BecomeSlave(w, c), "Slave")
<1> DEFINE m == [type |-> "MSDAck", decision |-> "slave"]
           s == [type |-> "MSDAck", decision |-> "master"]
<1>1. m \in Message /\ s \in Message
  BY DEF Message
<1>2. m = RoleMsg("Master") /\ s = RoleMsg("Slave")
  BY DEF RoleMsg
<1>3. ASSUME NEW x \in Message, NEW r \in MasterSlaveState
      PROVE  LET d == [SendH245(w, c, x) EXCEPT !.masterSlaveState = r]
             IN  /\ Moves(c, d, {x}) /\ d.masterSlaveState = r
                 /\ d.statusDeterminationNumber = c.statusDeterminationNumber
  <2> DEFINE b == SendH245(w, c, x)
             d == [b EXCEPT !.masterSlaveState = r]
  <2>1. Sends(c, b, {x})
    BY SendH245Sends
  <2>2. b \in Call /\ Moves(c, b, {x})
        /\ b.statusDeterminationNumber = c.statusDeterminationNumber
    BY <2>1 DEF Sends, Moves
  <2> HIDE DEF b
  <2>3. c.statusDeterminationNumber \in DetNumber
    BY DEF Call
  <2>4. Moves(c, d, {x})
    BY <2>2, <2>3, RoleMoves
  <2>5. d.masterSlaveState = r /\ d.statusDeterminationNumber = c.statusDeterminationNumber
    BY <2>2 DEF Call
  <2> QED
    BY <2>4, <2>5 DEF b
<1>4. "Master" \in MasterSlaveState /\ "Slave" \in MasterSlaveState
  BY DEF MasterSlaveState
<1> HIDE DEF m, s
<1>5. TakesRole(c, BecomeMaster(w, c), "Master")
  BY <1>1, <1>2, <1>3, <1>4 DEF TakesRole, BecomeMaster, m
<1>6. TakesRole(c, BecomeSlave(w, c), "Slave")
  BY <1>1, <1>2, <1>3, <1>4 DEF TakesRole, BecomeSlave, s
<1> QED
  BY <1>5, <1>6

(* The connection for H.245, at an end that has something of it already.    *)
LEMMA OpenRoutine ==
  ASSUME NEW b \in Call, NEW c, Routine(b, c), Linked(b)
  PROVE  /\ Routine(b, [c EXCEPT !.h245Sock = "open", !.h245SessionState = "ACTIVE"])
         /\ Routine(b, StartTimer(c, "H245CONNECT", 0))
<1>1. c \in Call /\ Moves(b, c, {})
  BY DEF Routine, Sends, Moves
<1>2. ASSUME NEW x \in Call, x.callState = c.callState, x.flags = c.flags,
             x.pCallFwdData = c.pCallFwdData, x.forwarded = c.forwarded,
             x.h245SessionState = "PAUSED" => c.h245SessionState = "PAUSED", SameFlows(c, x),
             x.masterSlaveState = c.masterSlaveState,
             x.statusDeterminationNumber = c.statusDeterminationNumber
      PROVE  Routine(b, x)
  <2>1. Sent225(x) = Sent225(c) /\ Sent245(x) = Sent245(c)
    BY <1>2 DEF Sent225, Sent245, SameFlows
  <2>2. Has(x, "TUNNELING") <=> Has(c, "TUNNELING")
    BY <1>2 DEF Has
  <2>3. Moves(b, x, {})
    BY <1>1, <1>2, <2>1, <2>2 DEF Moves
  <2>4. /\ x.masterSlaveState = b.masterSlaveState
        /\ x.statusDeterminationNumber = b.statusDeterminationNumber
    BY <1>2 DEF Routine, Sends
  <2> QED
    BY <2>3, <2>4 DEF Routine, Sends
<1>3. Routine(b, [c EXCEPT !.h245Sock = "open", !.h245SessionState = "ACTIVE"])
  <2> DEFINE x == [c EXCEPT !.h245Sock = "open", !.h245SessionState = "ACTIVE"]
  <2>1. "open" \in Socket /\ "ACTIVE" \in SessionState
    BY DEF Socket, SessionState
  <2>2. x \in Call
    BY <1>1, <2>1 DEF Call
  <2>3. /\ x.callState = c.callState /\ x.flags = c.flags
        /\ x.pCallFwdData = c.pCallFwdData /\ x.forwarded = c.forwarded
        /\ x.h245SessionState = "ACTIVE" /\ SameFlows(c, x)
        /\ x.masterSlaveState = c.masterSlaveState
        /\ x.statusDeterminationNumber = c.statusDeterminationNumber
    BY <1>1 DEF SameFlows, Call
  <2> HIDE DEF x
  <2>4. Routine(b, x)
    BY <1>2, <2>2, <2>3
  <2> QED
    BY <2>4 DEF x
<1>4. Routine(b, StartTimer(c, "H245CONNECT", 0))
  <2> DEFINE x == StartTimer(c, "H245CONNECT", 0)
  <2>2. x \in Call
    BY <1>1, TimerRoutine DEF TimerType
  <2>3. /\ x.callState = c.callState /\ x.flags = c.flags
        /\ x.pCallFwdData = c.pCallFwdData /\ x.forwarded = c.forwarded
        /\ x.h245SessionState = c.h245SessionState /\ SameFlows(c, x)
        /\ x.masterSlaveState = c.masterSlaveState
        /\ x.statusDeterminationNumber = c.statusDeterminationNumber
    BY <1>1 DEF SameFlows, StartTimer, Call
  <2> HIDE DEF x
  <2>4. Routine(b, x)
    BY <1>2, <2>2, <2>3
  <2> QED
    BY <2>4 DEF x
<1> QED
  BY <1>3, <1>4

(* e does no more than say a number, which it does only when it is idle.    *)
MayStart(e, c, d) == Routine(c, d) \/ (c.masterSlaveState = "Idle" /\ Starts(e, c, d))

LEMMA MayStartType ==
  ASSUME NEW e, NEW c, NEW d, MayStart(e, c, d)
  PROVE  d \in Call
  BY DEF MayStart, Routine, Sends, Starts, Moves

LEMMA MayStartAround ==
  ASSUME NEW e, NEW b \in Call, NEW c, NEW d
  PROVE  /\ MayStart(e, b, c) /\ Routine(c, d) => MayStart(e, b, d)
         /\ Routine(b, c) /\ MayStart(e, c, d) => MayStart(e, b, d)
<1>1. Routine(b, c) => c.masterSlaveState = b.masterSlaveState
  BY DEF Routine, Sends
<1>2. MayStart(e, b, c) /\ Routine(c, d) => MayStart(e, b, d)
  BY StartsAround, RoutineTransitive DEF MayStart
<1>3. Routine(b, c) /\ MayStart(e, c, d) => MayStart(e, b, d)
  BY <1>1, StartsAround, RoutineTransitive DEF MayStart
<1> QED
  BY <1>2, <1>3

LEMMA StartUpMayStart ==
  ASSUME NEW e \in Endpoint, NEW w \in World, NEW b \in Call, NEW c, Routine(b, c)
  PROVE  MayStart(e, b, SendMSD(e, w, SendTermCap(w, c)))
<1> DEFINE d == SendTermCap(w, c)
<1>1. c \in Call
  BY RoutineType
<1>2. Routine(b, d)
  BY <1>1, SendTermCapRoutine, RoutineTransitive
<1>3. d \in Call
  BY <1>2, RoutineType
<1> HIDE DEF d
<1>4. MayStart(e, d, SendMSD(e, w, d))
  BY <1>3, SendMSDStarts, RoutineReflexive DEF MayStart
<1>5. MayStart(e, b, SendMSD(e, w, d))
  BY <1>2, <1>4, MayStartAround
<1> QED
  BY <1>5 DEF d

LEMMA ConnectionMayStart ==
  ASSUME NEW e \in Endpoint, NEW w \in World, NEW b \in Call, NEW c, Routine(b, c), Linked(b)
  PROVE  /\ MayStart(e, b, CreateH245Connection(e, w, c))
         /\ MayStart(e, b, AcceptH245Connection(e, w, c))
<1>1. c \in Call
  BY RoutineType
<1>2. /\ Routine(b, [c EXCEPT !.h245Sock = "open", !.h245SessionState = "ACTIVE"])
      /\ Routine(b, StartTimer(c, "H245CONNECT", 0))
  BY OpenRoutine
<1>3. Routine(b, MarkClear(c))
  BY <1>1, MarkClearRoutine, RoutineTransitive
<1>4. MayStart(e, b, AcceptH245Connection(e, w, c))
  BY <1>2, StartUpMayStart DEF AcceptH245Connection
<1>5. CreateH245Connection(e, w, c)
        \in {AcceptH245Connection(e, w, c), MarkClear(c), StartTimer(c, "H245CONNECT", 0)}
  BY DEF CreateH245Connection, AcceptH245Connection
<1> QED
  BY <1>2, <1>3, <1>4, <1>5 DEF MayStart
-----------------------------------------------------------------------------
(* Opening channels                                                         *)

LEMMA ChoiceRange ==
  ASSUME NEW e \in Endpoint, NEW c \in Call, NEW t, Choice(e, c, t) # 0
  PROVE  Order(e, c)[Choice(e, c, t)] \in Cap
<1> DEFINE s == Order(e, c)
           I == {i \in 1 .. Len(s) : MediaOf[s[i]] = t /\ Contains(JointTx[e], s[i])}
<1>1. s \in Seq(Cap)
  BY ConstantsAssumption DEF Order
<1>2. Choice(e, c, t) = IF I # {} THEN Min(I) ELSE 0
  BY Zenon DEF Choice, SelectInSeq
<1>3. Len(s) \in Nat /\ I \in SUBSET (1 .. Len(s))
  BY <1>1
<1>4. I # {} => Min(I) \in I
  <2> HIDE DEF I
  <2> QED
    BY <1>3, LeastIndex
<1>5. Choice(e, c, t) \in 1 .. Len(s)
  <2> HIDE DEF I
  <2> QED
    BY <1>2, <1>3, <1>4
<1> HIDE DEF s, I
<1> QED
  BY <1>1, <1>5 DEF s

LEMMA OpenChannelRoutine ==
  ASSUME NEW w \in World, NEW c \in Call, NEW cap \in Cap
  PROVE  Routine(c, OpenChannel(w, c, cap))
<1> DEFINE n == c.logicalChanNoCur
           s == GenerateSession(c, cap, "transmit")
           m == [type |-> "OLC", chan |-> n, cap |-> cap, session |-> s]
           c1 == NextChanNo(c)
           c2 == AddChan(c1, n, "transmit", cap, "PROPOSED")
<1>1. n \in Nat /\ s \in Nat
  BY SessionType DEF Call
<1>2. m \in Message /\ ~Tracked(m)
  BY <1>1 DEF Message, Tracked, RoleType
<1>3. Routine(c, c1)
  BY CountersRoutine
<1>4. c1 \in Call
  BY <1>3, RoutineType
<1>5. OpenChannel(w, c, cap) = SendH245(w, c2, m)
  BY DEF OpenChannel
<1> HIDE DEF n, s, c1, m
<1>6. Routine(c1, c2)
  BY <1>1, <1>4, AddChanRoutine
<1>7. c2 \in Call
  BY <1>6, RoutineType
<1> HIDE DEF c2
<1>8. Routine(c2, SendH245(w, c2, m))
  BY <1>2, <1>7, SendRoutine
<1> QED
  BY <1>3, <1>4, <1>5, <1>6, <1>8, RoutineTransitive

LEMMA OpenIfNoneRoutine ==
  ASSUME NEW e \in Endpoint, NEW w \in World, NEW c \in Call
  PROVE  Routine(c, OpenIfNone(e, w, c))
<1>1. ASSUME NEW d \in Call, NEW t
      PROVE  Routine(d, OpenMedia(e, w, d, t))
  <2>1. Choice(e, d, t) # 0 => Order(e, d)[Choice(e, d, t)] \in Cap
    BY ChoiceRange
  <2> QED
    BY <2>1, MarkClearRoutine, OpenChannelRoutine DEF OpenMedia
<1>2. Routine(c, OpenMedia(e, w, OpenMedia(e, w, c, "audio"), "video"))
  <2>1. OpenMedia(e, w, c, "audio") \in Call
    BY <1>1, RoutineType
  <2> QED
    BY <1>1, <2>1, RoutineTransitive
<1>3. OpenLogicalChannels(e, w, c)
        \in {OpenMedia(e, w, c, "audio"), OpenMedia(e, w, OpenMedia(e, w, c, "audio"), "video"),
             MarkClear(c), c}
  BY DEF OpenLogicalChannels
<1>4. Routine(c, OpenLogicalChannels(e, w, c))
  BY <1>1, <1>2, <1>3, MarkClearRoutine, RoutineReflexive
<1> QED
  BY <1>4, RoutineReflexive DEF OpenIfNone
-----------------------------------------------------------------------------
(* The handlers                                                             *)

LEMMA HandleTCSRoutine ==
  ASSUME NEW e \in Endpoint, NEW w \in World, NEW c \in Call, NEW m \in Message,
         m.type = "TCS", m.caps
  PROVE  Routine(c, HandleTCS(e, w, c, m))
<1>1. m.seq \in SeqNumber
  BY MessageFields
<1>2. ASSUME NEW d \in Call
      PROVE  Routine(d, AcceptTCS(e, w, d, m))
  <2> DEFINE d1 == [d EXCEPT !.remoteTermCapSeqNo = m.seq]
             s1 == SendH245(w, d1, Msg("TCSAck"))
             d2 == [s1 EXCEPT !.remoteTermCapState = "AckSent"]
             d3 == IF d2.localTermCapState = "Idle" THEN SendTermCap(w, d2) ELSE d2
             d4 == IF CapsExchanged(d3) /\ RoleDecided(d3) THEN OpenIfNone(e, w, d3) ELSE d3
  <2>1. Routine(d, d1)
    BY <1>1, CapStateRoutine DEF LocalTermCapState, RemoteTermCapState
  <2>2. d1 \in Call
    BY <2>1, RoutineType
  <2>3. AcceptTCS(e, w, d, m) = d4
    BY DEF AcceptTCS
  <2> HIDE DEF d1
  <2>4. Routine(d1, s1)
    BY <2>2, SendRoutine, UntrackedMessages DEF Plain
  <2>5. s1 \in Call
    BY <2>4, RoutineType
  <2> HIDE DEF s1
  <2>6. "AckSent" \in RemoteTermCapState /\ "Idle" \in LocalTermCapState
    BY DEF LocalTermCapState, RemoteTermCapState
  <2>7. Routine(s1, d2)
    BY <1>1, <2>5, <2>6, CapStateRoutine
  <2>8. d2 \in Call
    BY <2>7, RoutineType
  <2> HIDE DEF d2
  <2>9. Routine(d2, d3)
    BY <2>8, SendTermCapRoutine, RoutineReflexive
  <2>10. d3 \in Call
    BY <2>9, RoutineType
  <2> HIDE DEF d3
  <2>11. Routine(d3, d4)
    BY <2>10, OpenIfNoneRoutine, RoutineReflexive
  <2> HIDE DEF d4
  <2>12. Routine(d, d2)
    BY <2>1, <2>2, <2>4, <2>5, <2>7, RoutineTransitive
  <2> QED
    BY <2>3, <2>8, <2>9, <2>11, <2>12, RoutineTransitive
<1>3. ASSUME NEW d \in Call
      PROVE  Routine(d, RejectTCS(w, d, m))
  <2> DEFINE x == [type |-> "TCSReject", seq |-> m.seq]
             s1 == SendH245(w, d, x)
             d1 == [s1 EXCEPT !.remoteTermCapState = "Idle"]
             d2 == IF d1.localTermCapState = "Idle" THEN SendTermCap(w, d1) ELSE d1
  <2>1. x \in Message /\ ~Tracked(x)
    BY <1>1 DEF Message, Tracked, RoleType
  <2>2. RejectTCS(w, d, m) = d2
    BY DEF RejectTCS
  <2> HIDE DEF x
  <2>3. Routine(d, s1)
    BY <2>1, SendRoutine
  <2>4. s1 \in Call
    BY <2>3, RoutineType
  <2> HIDE DEF s1
  <2>5. "Idle" \in RemoteTermCapState /\ "Idle" \in LocalTermCapState
    BY DEF LocalTermCapState, RemoteTermCapState
  <2>6. Routine(s1, d1)
    BY <1>1, <2>4, <2>5, CapStateRoutine
  <2>7. d1 \in Call
    BY <2>6, RoutineType
  <2> HIDE DEF d1
  <2>8. Routine(d1, d2)
    BY <2>7, SendTermCapRoutine, RoutineReflexive
  <2> QED
    BY <2>2, <2>3, <2>4, <2>6, <2>7, <2>8, RoutineTransitive
<1> DEFINE c1 == IF c.h245SessionState = "IDLE" THEN [c EXCEPT !.h245SessionState = "ACTIVE"] ELSE c
<1>4. Routine(c, c1)
  BY SessionRoutine, RoutineReflexive DEF SessionState
<1>5. c1 \in Call
  BY <1>4, RoutineType
<1>6. HandleTCS(e, w, c, m) \in {RejectTCS(w, c1, m), AcceptTCS(e, w, c1, m)}
  BY DEF HandleTCS
<1> HIDE DEF c1
<1> QED
  BY <1>2, <1>3, <1>4, <1>5, <1>6, RoutineTransitive

LEMMA HandleTCSAckRoutine ==
  ASSUME NEW e \in Endpoint, NEW w \in World, NEW c \in Call
  PROVE  Routine(c, HandleTCSAck(e, w, c))
<1> DEFINE c0 == StopTimer(c, "TCS", 0)
           c1 == [c0 EXCEPT !.localTermCapState = "AckRecvd"]
           c2 == IF CapsExchanged(c1) /\ RoleDecided(c1) THEN OpenIfNone(e, w, c1) ELSE c1
<1>1. Routine(c, c0)
  BY TimerRoutine DEF TimerType
<1>2. c0 \in Call
  BY <1>1, RoutineType
<1>3. HandleTCSAck(e, w, c) = c2
  BY DEF HandleTCSAck
<1> HIDE DEF c0
<1>4. /\ "AckRecvd" \in LocalTermCapState /\ "Idle" \in RemoteTermCapState
      /\ c0.localTermCapSeqNo \in SeqNumber
  BY <1>2 DEF LocalTermCapState, RemoteTermCapState, Call
<1>5. Routine(c0, c1)
  BY <1>2, <1>4, CapStateRoutine
<1>6. c1 \in Call
  BY <1>5, RoutineType
<1> HIDE DEF c1
<1>7. Routine(c1, c2)
  BY <1>6, OpenIfNoneRoutine, RoutineReflexive
<1> QED
  BY <1>1, <1>2, <1>3, <1>5, <1>6, <1>7, RoutineTransitive

LEMMA StopThenClear ==
  ASSUME NEW c \in Call, NEW t \in TimerType, NEW n \in Nat
  PROVE  Routine(c, MarkClear(StopTimer(c, t, n)))
<1>1. Routine(c, StopTimer(c, t, n))
  BY TimerRoutine
<1>2. StopTimer(c, t, n) \in Call
  BY <1>1, RoutineType
<1> QED
  BY <1>1, <1>2, MarkClearRoutine, RoutineTransitive

LEMMA SendCLCRoutine ==
  ASSUME NEW w \in World, NEW c \in Call, NEW n \in Nat
  PROVE  Routine(c, SendCLC(w, c, n))
<1> DEFINE s == SendH245(w, c, ChanMsgOf("CLC", n))
<1>1. Routine(c, s)
  BY SendRoutine, UntrackedMessages DEF ChanMsg
<1>2. s \in Call
  BY <1>1, RoutineType
<1> HIDE DEF s
<1>3. Routine(s, ClearChan(s, n))
  BY <1>2, ClearChanRoutine
<1> QED
  BY <1>1, <1>3, RoutineTransitive DEF SendCLC, s

LEMMA HandleOLCRoutine ==
  ASSUME NEW e \in Endpoint, NEW w \in World, NEW c \in Call, NEW m \in Message, m.type = "OLC"
  PROVE  Routine(c, HandleOLC(e, w, c, m))
<1>1. m.chan \in Nat /\ m.cap \in Cap /\ m.session \in Nat
  BY MessageFields
<1>2. ASSUME m.cap \notin CanRx[e]
      PROVE  Routine(c, HandleOLC(e, w, c, m))
  BY <1>1, <1>2, SendRoutine, UntrackedMessages DEF HandleOLC, ChanMsg
<1>3. ASSUME m.cap \in CanRx[e]
      PROVE  Routine(c, HandleOLC(e, w, c, m))
  <2> DEFINE s  == IF m.session = 0 THEN GenerateSession(c, m.cap, "receive") ELSE m.session
             c0 == IF m.session = 0 THEN UseSession(c, s) ELSE c
             a  == AddChanIn(c0, m.chan, s, "receive", m.cap, "IDLE")
             c1 == SendH245(w, a, ChanMsgOf("OLCAck", m.chan))
             i  == Len(c1.logicalChans)
             c2 == StartChan(c1, i)
  <2>1. HandleOLC(e, w, c, m) = SetChanState(c2, i, "ESTABLISHED")
    BY <1>3 DEF HandleOLC
  <2>2. s \in Nat
    BY <1>1, SessionType
  <2> HIDE DEF s
  <2>3. Routine(c, c0)
    BY <2>2, UseSessionRoutine, RoutineReflexive
  <2>4. c0 \in Call
    BY <2>3, RoutineType
  <2> HIDE DEF c0
  <2>5. Routine(c0, a)
    BY <1>1, <2>2, <2>4, AddChanRoutine
  <2>6. a \in Call
    BY <2>5, RoutineType
  <2> HIDE DEF a
  <2>7. Routine(a, c1)
    BY <1>1, <2>6, SendRoutine, UntrackedMessages DEF ChanMsg
  <2>8. c1 \in Call
    BY <2>7, RoutineType
  <2> HIDE DEF c1, i
  <2>9. Routine(c1, c2)
    BY <2>8, EntryRoutine
  <2>10. c2 \in Call
    BY <2>9, RoutineType
  <2> HIDE DEF c2
  <2>11. Routine(c2, SetChanState(c2, i, "ESTABLISHED"))
    BY <2>10, EntryRoutine
  <2>12. Routine(c, c1)
    BY <2>3, <2>4, <2>5, <2>6, <2>7, RoutineTransitive
  <2> QED
    BY <2>1, <2>8, <2>9, <2>11, <2>12, RoutineTransitive
<1> QED
  BY <1>2, <1>3

LEMMA HandleOLCAckRoutine ==
  ASSUME NEW c \in Call, NEW m \in Message, m.type = "OLCAck"
  PROVE  Routine(c, HandleOLCAck(c, m))
<1>1. m.chan \in Nat
  BY MessageFields DEF ChanMsg
<1> DEFINE c0 == StopTimer(c, "OLC", m.chan)
           i  == FindChan(c0.logicalChans, m.chan)
           c1 == StartChan(c0, i)
<1>2. Routine(c, c0)
  BY <1>1, TimerRoutine DEF TimerType
<1>3. c0 \in Call
  BY <1>2, RoutineType
<1>4. HandleOLCAck(c, m) \in {c0, SetChanState(c1, i, "ESTABLISHED")}
  BY DEF HandleOLCAck
<1> HIDE DEF c0, i
<1>5. Routine(c0, c1)
  BY <1>3, EntryRoutine
<1>6. c1 \in Call
  BY <1>5, RoutineType
<1> HIDE DEF c1
<1>7. Routine(c1, SetChanState(c1, i, "ESTABLISHED"))
  BY <1>6, EntryRoutine
<1> QED
  BY <1>2, <1>3, <1>4, <1>5, <1>6, <1>7, RoutineTransitive

LEMMA HandleCLCRoutine ==
  ASSUME NEW w \in World, NEW c \in Call, NEW m \in Message
  PROVE  /\ m.type = "CLC" => Routine(c, HandleCLC(w, c, m))
         /\ m.type = "RCC" => Routine(c, HandleRCC(w, c, m))
         /\ m.type \in {"RCCAck", "RCCReject"} => Routine(c, HandleRCCAnswer(c, m))
<1>1. m.type \in {"CLC", "RCC", "RCCAck", "RCCReject"} => m.chan \in Nat
  BY MessageFields DEF ChanMsg
<1>2. ASSUME m.type = "CLC"
      PROVE  Routine(c, HandleCLC(w, c, m))
  <2> DEFINE c1 == ClearChan(c, m.chan)
  <2>1. Routine(c, c1)
    BY ClearChanRoutine
  <2>2. c1 \in Call
    BY <2>1, RoutineType
  <2> HIDE DEF c1
  <2>3. Routine(c1, SendH245(w, c1, ChanMsgOf("CLCAck", m.chan)))
    BY <1>1, <1>2, <2>2, SendRoutine, UntrackedMessages DEF ChanMsg
  <2> QED
    BY <2>1, <2>3, RoutineTransitive DEF HandleCLC, c1
<1>3. ASSUME m.type = "RCC"
      PROVE  Routine(c, HandleRCC(w, c, m))
  <2> DEFINE c1 == SendH245(w, c, ChanMsgOf("RCCAck", m.chan))
  <2>1. Routine(c, c1)
    BY <1>1, <1>3, SendRoutine, UntrackedMessages DEF ChanMsg
  <2>2. c1 \in Call
    BY <2>1, RoutineType
  <2>3. HandleRCC(w, c, m) \in {c, SendCLC(w, c1, m.chan)}
    BY DEF HandleRCC
  <2> HIDE DEF c1
  <2>4. Routine(c1, SendCLC(w, c1, m.chan))
    BY <1>1, <1>3, <2>2, SendCLCRoutine
  <2> QED
    BY <2>1, <2>3, <2>4, RoutineTransitive, RoutineReflexive
<1>4. ASSUME m.type \in {"RCCAck", "RCCReject"}
      PROVE  Routine(c, HandleRCCAnswer(c, m))
  <2> DEFINE c1 == StopTimer(c, "RCC", m.chan)
  <2>1. Routine(c, c1)
    BY <1>1, <1>4, TimerRoutine DEF TimerType
  <2>2. c1 \in Call
    BY <2>1, RoutineType
  <2> HIDE DEF c1
  <2>3. Routine(c1, ClearChan(c1, m.chan))
    BY <2>2, ClearChanRoutine
  <2> QED
    BY <2>1, <2>3, RoutineTransitive DEF HandleRCCAnswer, c1
<1> QED
  BY <1>2, <1>3, <1>4

LEMMA HandleEndSessionRoutine ==
  ASSUME NEW w \in World, NEW c \in Call
  PROVE  Routine(c, HandleEndSession(w, c))
<1>1. Routine(c, CloseH245(StopTimer(c, "SESSION", 0)))
  <2>1. Routine(c, StopTimer(c, "SESSION", 0))
    BY TimerRoutine DEF TimerType
  <2>2. StopTimer(c, "SESSION", 0) \in Call
    BY <2>1, RoutineType
  <2> QED
    BY <2>1, <2>2, CloseRoutine, RoutineTransitive
<1>2. Routine(c, SendH245(w, ClearAllChans([c EXCEPT !.h245SessionState = "ENDRECVD"]),
                          Msg("EndSession")))
  <2> DEFINE c1 == [c EXCEPT !.h245SessionState = "ENDRECVD"]
             c2 == ClearAllChans(c1)
  <2>1. Routine(c, c1)
    BY SessionRoutine DEF SessionState
  <2>2. c1 \in Call
    BY <2>1, RoutineType
  <2> HIDE DEF c1
  <2>3. Routine(c1, c2)
    BY <2>2, ClearChanRoutine
  <2>4. c2 \in Call
    BY <2>3, RoutineType
  <2> HIDE DEF c2
  <2>5. Routine(c2, SendH245(w, c2, Msg("EndSession")))
    BY <2>4, SendRoutine, UntrackedMessages DEF Plain
  <2>6. Routine(c, SendH245(w, c2, Msg("EndSession")))
    BY <2>1, <2>2, <2>3, <2>4, <2>5, RoutineTransitive
  <2> QED
    BY <2>6 DEF c2, c1
<1> QED
  BY <1>1, <1>2 DEF HandleEndSession
-----------------------------------------------------------------------------
(* Master slave determination                                               *)

(* What an end of terminal type TermType[e] and number mine makes of the    *)
(* other end's terminal type and number.                                    *)
Verdict(e, mine, theirType, theirs) ==
  LET diff == (theirs - mine) % NumMod
      half == NumMod \div 2
  IN  CASE theirType < TermType[e] -> "Master"
        [] theirType > TermType[e] -> "Slave"
        [] theirType = TermType[e] /\ diff \in {0, half} -> "none"
        [] theirType = TermType[e] /\ 0 < diff /\ diff < half -> "Master"
        [] theirType = TermType[e] /\ half < diff -> "Slave"

OtherRole(role) == IF role = "Master" THEN "Slave" ELSE "Master"

(* x - y and y - x, counted round.                                          *)
LEMMA Differences ==
  ASSUME NEW x \in DetNumber, NEW y \in DetNumber
  PROVE  \/ (x - y) % NumMod = 0 /\ (y - x) % NumMod = 0
         \/ /\ (x - y) % NumMod \in 1 .. NumMod - 1
            /\ (y - x) % NumMod = NumMod - ((x - y) % NumMod)
<1>1. NumMod \in Nat /\ NumMod > 0 /\ x \in 0 .. NumMod - 1 /\ y \in 0 .. NumMod - 1
  BY ConstantsAssumption DEF DetNumber
<1>2. \A k \in 0 .. NumMod - 1 : k % NumMod = k
  BY <1>1
<1>3. \A k \in 1 .. NumMod - 1 : (- k) % NumMod = NumMod - k
  BY <1>1
<1>4. CASE x = y
  <2>1. x - y = 0 /\ y - x = 0 /\ 0 % NumMod = 0
    BY <1>1, <1>4
  <2> QED
    BY <2>1
<1>5. CASE x > y
  <2> DEFINE k == x - y
  <2>1. k \in 1 .. NumMod - 1 /\ y - x = - k
    BY <1>1, <1>5
  <2>2. k % NumMod = k /\ (- k) % NumMod = NumMod - k
    <3> HIDE DEF k
    <3>1. k \in 0 .. NumMod - 1 /\ k \in 1 .. NumMod - 1
      BY <1>1, <2>1
    <3> QED
      BY <1>2, <1>3, <3>1
  <2> QED
    BY <2>1, <2>2
<1>6. CASE x < y
  <2> DEFINE k == y - x
  <2>1. k \in 1 .. NumMod - 1 /\ x - y = - k
    BY <1>1, <1>6
  <2>2. k % NumMod = k /\ (- k) % NumMod = NumMod - k
    <3> HIDE DEF k
    <3>1. k \in 0 .. NumMod - 1 /\ k \in 1 .. NumMod - 1
      BY <1>1, <2>1
    <3> QED
      BY <1>2, <1>3, <3>1
  <2>3. NumMod - k \in 1 .. NumMod - 1 /\ NumMod - (NumMod - k) = k
    BY <1>1, <2>1
  <2> QED
    BY <2>1, <2>2, <2>3
<1> QED
  BY <1>1, <1>4, <1>5, <1>6

LEMMA VerdictCases ==
  ASSUME NEW e \in Endpoint, NEW x \in DetNumber, NEW y \in DetNumber, NEW t \in Nat
  PROVE  /\ t < TermType[e] => Verdict(e, x, t, y) = "Master"
         /\ t > TermType[e] => Verdict(e, x, t, y) = "Slave"
         /\ t = TermType[e] =>
              Verdict(e, x, t, y) =
                LET diff == (y - x) % NumMod
                    half == NumMod \div 2
                IN  IF diff = 0 \/ diff = half THEN "none"
                    ELSE IF diff < half THEN "Master" ELSE "Slave"
<1> DEFINE diff == (y - x) % NumMod
           half == NumMod \div 2
<1>1. /\ TermType[e] \in Nat /\ NumMod \in Nat /\ NumMod > 0
      /\ diff \in 0 .. NumMod - 1 /\ half \in Nat
  BY ConstantsAssumption DEF DetNumber
<1> HIDE DEF diff, half
<1>2. Verdict(e, x, t, y) =
        CASE t < TermType[e] -> "Master"
          [] t > TermType[e] -> "Slave"
          [] t = TermType[e] /\ diff \in {0, half} -> "none"
          [] t = TermType[e] /\ 0 < diff /\ diff < half -> "Master"
          [] t = TermType[e] /\ half < diff -> "Slave"
  BY DEF Verdict, diff, half
<1>3. t < TermType[e] => Verdict(e, x, t, y) = "Master"
  BY <1>1, <1>2
<1>4. t > TermType[e] => Verdict(e, x, t, y) = "Slave"
  BY <1>1, <1>2
<1>5. t = TermType[e] => Verdict(e, x, t, y) =
        IF diff = 0 \/ diff = half THEN "none" ELSE IF diff < half THEN "Master" ELSE "Slave"
  BY <1>1, <1>2
<1> QED
  BY <1>3, <1>4, <1>5 DEF diff, half

LEMMA VerdictsOpposite ==
  ASSUME NEW e \in Endpoint, NEW p \in Endpoint, NEW x \in DetNumber, NEW y \in DetNumber
  PROVE  /\ Verdict(e, x, TermType[p], y) \in {"Master", "Slave", "none"}
         /\ Verdict(e, x, TermType[p], y) = "none" => Verdict(p, y, TermType[e], x) = "none"
         /\ Verdict(e, x, TermType[p], y) # "none" =>
              Verdict(p, y, TermType[e], x) = OtherRole(Verdict(e, x, TermType[p], y))
<1> DEFINE a == (y - x) % NumMod
           b == (x - y) % NumMod
           half == NumMod \div 2
<1>1. TermType[e] \in Nat /\ TermType[p] \in Nat
  BY ConstantsAssumption
<1>2. NumMod \in Nat /\ NumMod > 0 /\ half \in Nat /\ half + half = NumMod
  BY ConstantsAssumption
<1>3. (a = 0 /\ b = 0) \/ (a \in 1 .. NumMod - 1 /\ b = NumMod - a)
  BY Differences
<1>4. /\ TermType[p] < TermType[e] => Verdict(e, x, TermType[p], y) = "Master"
      /\ TermType[p] > TermType[e] => Verdict(e, x, TermType[p], y) = "Slave"
      /\ TermType[p] = TermType[e] => Verdict(e, x, TermType[p], y) =
           IF a = 0 \/ a = half THEN "none" ELSE IF a < half THEN "Master" ELSE "Slave"
      /\ TermType[e] < TermType[p] => Verdict(p, y, TermType[e], x) = "Master"
      /\ TermType[e] > TermType[p] => Verdict(p, y, TermType[e], x) = "Slave"
      /\ TermType[e] = TermType[p] => Verdict(p, y, TermType[e], x) =
           IF b = 0 \/ b = half THEN "none" ELSE IF b < half THEN "Master" ELSE "Slave"
  BY <1>1, VerdictCases
<1> HIDE DEF a, b, half
<1>5. CASE TermType[p] # TermType[e]
  BY <1>1, <1>4, <1>5 DEF OtherRole
<1>6. CASE TermType[p] = TermType[e]
  <2>1. (a = 0 \/ a = half) <=> (b = 0 \/ b = half)
    BY <1>2, <1>3
  <2>2. ~(a = 0 \/ a = half) => (a < half <=> ~(b < half))
    BY <1>2, <1>3
  <2> QED
    BY <1>4, <1>6, <2>1, <2>2 DEF OtherRole
<1> QED
  BY <1>5, <1>6

(* The number c compares with the one it reads.                             *)
Ours(w, c) == IF c.masterSlaveState = "DetermineSent" THEN c.statusDeterminationNumber ELSE w.num

LEMMA HandleMSDVerdict ==
  ASSUME NEW e \in Endpoint, NEW w \in World, NEW c \in Call, NEW m \in Message, m.type = "MSD"
  PROVE  LET v == Verdict(e, Ours(w, c), m.terminalType, m.number)
             d == HandleMSD(e, w, c, m)
         IN  /\ v \in {"Master", "Slave"} => TakesRole(c, d, v)
             /\ v = "none" => Sends(c, d, {Msg("MSDReject")})
             /\ v \in {"Master", "Slave", "none"}
<1> DEFINE diff == (m.number - Ours(w, c)) % NumMod
           half == NumMod \div 2
           d == HandleMSD(e, w, c, m)
           v == Verdict(e, Ours(w, c), m.terminalType, m.number)
<1>1. m.terminalType \in Nat /\ m.number \in DetNumber /\ Ours(w, c) \in DetNumber
  BY MessageFields DEF Ours, Call, World
<1>2. /\ TermType[e] \in Nat /\ NumMod \in Nat /\ NumMod > 0
      /\ diff \in 0 .. NumMod - 1 /\ half \in Nat
  BY <1>1, ConstantsAssumption DEF DetNumber
<1>3. /\ m.terminalType < TermType[e] => v = "Master"
      /\ m.terminalType > TermType[e] => v = "Slave"
      /\ m.terminalType = TermType[e] =>
           v = IF diff = 0 \/ diff = half THEN "none" ELSE IF diff < half THEN "Master" ELSE "Slave"
  BY <1>1, VerdictCases
<1>4. d = CASE m.terminalType < TermType[e] -> BecomeMaster(w, c)
            [] m.terminalType > TermType[e] -> BecomeSlave(w, c)
            [] m.terminalType = TermType[e] /\ diff \in {0, half} -> SendH245(w, c, Msg("MSDReject"))
            [] m.terminalType = TermType[e] /\ 0 < diff /\ diff < half -> BecomeMaster(w, c)
            [] m.terminalType = TermType[e] /\ half < diff -> BecomeSlave(w, c)
  BY DEF HandleMSD, Ours
<1> HIDE DEF d, v, diff, half
<1>5. \/ v = "Master" /\ d = BecomeMaster(w, c)
      \/ v = "Slave" /\ d = BecomeSlave(w, c)
      \/ v = "none" /\ d = SendH245(w, c, Msg("MSDReject"))
  <2>1. CASE m.terminalType < TermType[e]
    <3>1. d = BecomeMaster(w, c)
      BY <1>1, <1>2, <1>4, <2>1
    <3> QED
      BY <1>1, <1>2, <1>3, <2>1, <3>1
  <2>2. CASE m.terminalType > TermType[e]
    <3>1. d = BecomeSlave(w, c)
      BY <1>1, <1>2, <1>4, <2>2
    <3> QED
      BY <1>1, <1>2, <1>3, <2>2, <3>1
  <2>3. CASE m.terminalType = TermType[e]
    <3>1. d = IF diff = 0 \/ diff = half THEN SendH245(w, c, Msg("MSDReject"))
                ELSE IF diff < half THEN BecomeMaster(w, c) ELSE BecomeSlave(w, c)
      BY <1>1, <1>2, <1>4, <2>3
    <3> QED
      BY <1>1, <1>2, <1>3, <2>3, <3>1
  <2> QED
    BY <1>1, <1>2, <2>1, <2>2, <2>3
<1>6. Msg("MSDReject") \in Message
  BY DEF Msg, Message, Plain
<1>7. Sends(c, SendH245(w, c, Msg("MSDReject")), {Msg("MSDReject")})
  BY <1>6, SendH245Sends
<1> QED
  BY <1>5, <1>7, BecomeTakesRole DEF d, v

LEMMA HandleMSDAckRole ==
  ASSUME NEW e \in Endpoint, NEW w \in World, NEW c \in Call, NEW m \in Message,
         m.type = "MSDAck"
  PROVE  LET d == HandleMSDAck(e, w, c, m)
         IN  IF c.masterSlaveState # "DetermineSent" THEN Routine(c, d)
             ELSE TakesRole(c, d, IF m.decision = "master" THEN "Master" ELSE "Slave")
<1> DEFINE c0 == StopTimer(c, "MSD", 0)
           c1 == IF c0.masterSlaveState # "DetermineSent" THEN c0
                 ELSE IF m.decision = "master" THEN BecomeMaster(w, c0) ELSE BecomeSlave(w, c0)
           d  == IF CapsExchanged(c1) THEN OpenIfNone(e, w, c1) ELSE c1
           role == IF m.decision = "master" THEN "Master" ELSE "Slave"
<1>1. Routine(c, c0)
  BY TimerRoutine DEF TimerType
<1>2. c0 \in Call /\ c0.masterSlaveState = c.masterSlaveState
  BY <1>1 DEF Routine, Sends, Moves
<1>3. HandleMSDAck(e, w, c, m) = d
  BY DEF HandleMSDAck
<1> HIDE DEF c0
<1>4. ASSUME c.masterSlaveState # "DetermineSent"
      PROVE  Routine(c, c1)
  BY <1>1, <1>2, <1>4
<1>5. ASSUME c.masterSlaveState = "DetermineSent"
      PROVE  TakesRole(c, c1, role)
  <2>1. TakesRole(c0, c1, role)
    BY <1>2, <1>5, BecomeTakesRole
  <2> HIDE DEF c1
  <2> QED
    BY <1>1, <2>1, StartsAround
<1>6. c1 \in Call
  BY <1>4, <1>5 DEF Routine, Sends, TakesRole, Moves
<1> HIDE DEF c1
<1>7. Routine(c1, d)
  BY <1>6, OpenIfNoneRoutine, RoutineReflexive
<1> HIDE DEF d
<1>8. CASE c.masterSlaveState # "DetermineSent"
  BY <1>3, <1>4, <1>7, <1>8, RoutineTransitive
<1>9. CASE c.masterSlaveState = "DetermineSent"
  BY <1>3, <1>5, <1>7, <1>9, StartsAround
<1> QED
  BY <1>8, <1>9

LEMMA AttemptsRoutine ==
  ASSUME NEW c \in Call
  PROVE  /\ Routine(c, [c EXCEPT !.msdRetries = @ + 1])
         /\ Routine(c, [c EXCEPT !.h245ConnectionAttempts = @ + 1])
<1>0. c.callState \in Nat /\ c.msdRetries \in Nat /\ c.h245ConnectionAttempts \in Nat
  BY StateValues DEF Call
<1>1. ASSUME NEW n \in Nat
      PROVE  Routine(c, [c EXCEPT !.msdRetries = n])
  <2> DEFINE d == [c EXCEPT !.msdRetries = n]
  <2>1. d \in Call /\ d.callState = c.callState
    BY DEF Call
  <2>2. Aside(c, d) /\ SameFlows(c, d)
    BY DEF Aside, SameFlows, Call
  <2> HIDE DEF d
  <2>3. Routine(c, d)
    BY <1>0, <2>1, <2>2, AsideRoutine
  <2> QED
    BY <2>3 DEF d
<1>2. ASSUME NEW n \in Nat
      PROVE  Routine(c, [c EXCEPT !.h245ConnectionAttempts = n])
  <2> DEFINE d == [c EXCEPT !.h245ConnectionAttempts = n]
  <2>1. d \in Call /\ d.callState = c.callState
    BY DEF Call
  <2>2. Aside(c, d) /\ SameFlows(c, d)
    BY DEF Aside, SameFlows, Call
  <2> HIDE DEF d
  <2>3. Routine(c, d)
    BY <1>0, <2>1, <2>2, AsideRoutine
  <2> QED
    BY <2>3 DEF d
<1> QED
  BY <1>0, <1>1, <1>2

(* After a rejection an end is idle for a moment, and says a new number.    *)
Idled(c, x) ==
  /\ Moves(c, x, {})
  /\ x.masterSlaveState = "Idle"
  /\ x.statusDeterminationNumber = c.statusDeterminationNumber

LEMMA HandleMSDRejectRestarts ==
  ASSUME NEW e \in Endpoint, NEW w \in World, NEW c \in Call
  PROVE  \/ Routine(c, HandleMSDReject(e, w, c))
         \/ \E x \in Call : Idled(c, x) /\ Starts(e, x, HandleMSDReject(e, w, c))
<1> DEFINE c0 == StopTimer(c, "MSD", 0)
           c1 == [c0 EXCEPT !.msdRetries = @ + 1]
           x  == [c1 EXCEPT !.masterSlaveState = "Idle"]
<1>1. Routine(c, c0)
  BY TimerRoutine DEF TimerType
<1>2. c0 \in Call
  BY <1>1, RoutineType
<1>3. HandleMSDReject(e, w, c) \in {SendMSD(e, w, x), MarkClear(c0)}
  BY DEF HandleMSDReject
<1> HIDE DEF c0
<1>4. Routine(c0, c1)
  BY <1>2, AttemptsRoutine
<1>5. Routine(c, c1)
  BY <1>1, <1>4, RoutineTransitive
<1>6. c1 \in Call /\ Moves(c, c1, {})
      /\ c1.statusDeterminationNumber = c.statusDeterminationNumber
  BY <1>5 DEF Routine, Sends, Moves
<1> HIDE DEF c1
<1>7. c1.statusDeterminationNumber \in DetNumber /\ "Idle" \in MasterSlaveState
  BY <1>6 DEF Call, MasterSlaveState
<1>8. Moves(c, x, {})
  BY <1>6, <1>7, RoleMoves
<1>9. /\ x.masterSlaveState = "Idle"
      /\ x.statusDeterminationNumber = c.statusDeterminationNumber
  BY <1>6 DEF Call
<1>10. x \in Call
  BY <1>8 DEF Moves
<1> HIDE DEF x
<1>11. Idled(c, x) /\ Starts(e, x, SendMSD(e, w, x))
  BY <1>8, <1>9, <1>10, SendMSDStarts DEF Idled
<1>12. Routine(c, MarkClear(c0))
  BY <1>1, <1>2, MarkClearRoutine, RoutineTransitive
<1> QED
  BY <1>3, <1>10, <1>11, <1>12

(* Every other H.245 message.                                               *)
LEMMA HandleH245Routine ==
  ASSUME NEW e \in Endpoint, NEW w \in World, NEW c \in Call, NEW m \in Message,
         m.type \notin RoleType, m.type = "TCS" => m.caps
  PROVE  Routine(c, HandleH245Message(e, w, c, m))
<1>1. /\ m.type = "TCS" => Routine(c, HandleTCS(e, w, c, m))
      /\ m.type = "OLC" => Routine(c, HandleOLC(e, w, c, m))
      /\ m.type = "CLC" => Routine(c, HandleCLC(w, c, m))
      /\ m.type = "RCC" => Routine(c, HandleRCC(w, c, m))
      /\ m.type \in {"RCCAck", "RCCReject"} => Routine(c, HandleRCCAnswer(c, m))
      /\ m.type = "OLCAck" => Routine(c, HandleOLCAck(c, m))
      /\ Routine(c, HandleTCSAck(e, w, c))
      /\ Routine(c, HandleEndSession(w, c))
      /\ Routine(c, c)
  BY HandleTCSRoutine, HandleOLCRoutine, HandleCLCRoutine, HandleOLCAckRoutine,
     HandleTCSAckRoutine, HandleEndSessionRoutine, RoutineReflexive
<1>2. m.type \in {"OLCReject", "CLCAck"} => m.chan \in Nat
  BY MessageFields DEF ChanMsg
<1>3. m.type = "OLCReject" => Routine(c, HandleOLCReject(c, m))
  BY <1>2, StopThenClear DEF HandleOLCReject, TimerType
<1>4. m.type = "CLCAck" => Routine(c, StopTimer(c, "CLC", m.chan))
  BY <1>2, TimerRoutine DEF TimerType
<1>5. Routine(c, HandleTCSReject(c, m))
  BY StopThenClear, RoutineReflexive DEF HandleTCSReject, TimerType
<1>6. HandleH245Message(e, w, c, m) =
        CASE m.type = "TCS"        -> HandleTCS(e, w, c, m)
          [] m.type = "OLC"        -> HandleOLC(e, w, c, m)
          [] m.type = "CLC"        -> HandleCLC(w, c, m)
          [] m.type = "RCC"        -> HandleRCC(w, c, m)
          [] m.type = "TCSAck"     -> HandleTCSAck(e, w, c)
          [] m.type = "TCSReject"  -> HandleTCSReject(c, m)
          [] m.type = "OLCAck"     -> HandleOLCAck(c, m)
          [] m.type = "OLCReject"  -> HandleOLCReject(c, m)
          [] m.type = "CLCAck"     -> StopTimer(c, "CLC", m.chan)
          [] m.type \in {"RCCAck", "RCCReject"} -> HandleRCCAnswer(c, m)
          [] m.type = "EndSession" -> HandleEndSession(w, c)
          [] OTHER                 -> c
  BY DEF HandleH245Message, RoleType
<1> QED
  BY <1>1, <1>3, <1>4, <1>5, <1>6

LEMMA HandleH245Role ==
  ASSUME NEW e \in Endpoint, NEW w \in World, NEW c \in Call, NEW m \in Message
  PROVE  /\ m.type = "MSD" => HandleH245Message(e, w, c, m) = HandleMSD(e, w, c, m)
         /\ m.type = "MSDAck" => HandleH245Message(e, w, c, m) = HandleMSDAck(e, w, c, m)
         /\ m.type = "MSDReject" => HandleH245Message(e, w, c, m) = HandleMSDReject(e, w, c)
  BY DEF HandleH245Message
-----------------------------------------------------------------------------
(* Timers, and connections that end                                         *)

LEMMA FireTimerMayStart ==
  ASSUME NEW e \in Endpoint, NEW w \in World, NEW c \in Call, NEW t \in Timer, t \in c.timers
  PROVE  /\ t.type # "H245CONNECT" => Routine(c, FireTimer(e, w, c, t))
         /\ t.type = "H245CONNECT" => MayStart(e, c, FireTimer(e, w, c, t)) /\ Linked(c)
<1> DEFINE c0 == StopTimer(c, t.type, t.chan)
<1>1. t.type \in TimerType /\ t.chan \in Nat
  BY DEF Timer
<1>2. Routine(c, c0)
  BY <1>1, TimerRoutine
<1>3. c0 \in Call
  BY <1>2, RoutineType
<1>4. FireTimer(e, w, c, t) =
        CASE t.type = "MSD" -> MarkClear(SendH245(w, c0, Msg("MSDRelease")))
          [] t.type = "TCS" -> MarkClear(SendH245(w, c0, Msg("TCSRelease")))
          [] t.type = "OLC" ->
               MarkClear(IF FindChan(c0.logicalChans, t.chan) = 0 THEN c0
                         ELSE SendCLC(w, c0, t.chan))
          [] t.type = "CLC" -> MarkClear(ClearChan(c0, t.chan))
          [] t.type = "RCC" ->
               MarkClear(ClearChan(SendH245(w, c0, ChanMsgOf("RCCRelease", t.chan)), t.chan))
          [] t.type = "SESSION" -> SessionExpired(c0)
          [] t.type = "CALLESTB" -> MarkClear(c0)
          [] t.type = "H245CONNECT" ->
               CreateH245Connection(e, w, [c0 EXCEPT !.h245ConnectionAttempts = @ + 1])
  BY DEF FireTimer
<1> HIDE DEF c0
<1>5. ASSUME NEW x, Routine(c0, x)
      PROVE  Routine(c, MarkClear(x))
  <2>1. x \in Call
    BY <1>5, RoutineType
  <2> QED
    BY <1>2, <1>3, <1>5, <2>1, MarkClearRoutine, RoutineTransitive
<1>6. /\ Routine(c0, SendH245(w, c0, Msg("MSDRelease")))
      /\ Routine(c0, SendH245(w, c0, Msg("TCSRelease")))
      /\ Routine(c0, SendCLC(w, c0, t.chan))
      /\ Routine(c0, ClearChan(c0, t.chan))
      /\ Routine(c0, c0)
  BY <1>1, <1>3, SendRoutine, UntrackedMessages, SendCLCRoutine, ClearChanRoutine,
     RoutineReflexive DEF Plain
<1>7. Routine(c0, ClearChan(SendH245(w, c0, ChanMsgOf("RCCRelease", t.chan)), t.chan))
  <2> DEFINE s == SendH245(w, c0, ChanMsgOf("RCCRelease", t.chan))
  <2>1. Routine(c0, s)
    BY <1>1, <1>3, SendRoutine, UntrackedMessages DEF ChanMsg
  <2>2. s \in Call
    BY <2>1, RoutineType
  <2> HIDE DEF s
  <2>3. Routine(c0, ClearChan(s, t.chan))
    BY <1>3, <2>1, <2>2, ClearChanRoutine, RoutineTransitive
  <2> QED
    BY <2>3 DEF s
<1>8. Routine(c, SessionExpired(c0))
  <2> DEFINE c1 == IF c0.h245SessionState \notin {"IDLE", "CLOSED", "PAUSED"} THEN CloseH245(c0) ELSE c0
  <2>1. Routine(c0, c1)
    BY <1>3, CloseRoutine, RoutineReflexive
  <2>2. c1 \in Call
    BY <2>1, RoutineType
  <2>3. SessionExpired(c0) \in {c1, [c1 EXCEPT !.callState = CLEARED]}
    BY DEF SessionExpired
  <2> HIDE DEF c1
  <2>4. CLEARED \in CallState /\ CLEARED >= c1.callState
    BY <2>2, StateValues DEF Call
  <2>5. Routine(c1, [c1 EXCEPT !.callState = CLEARED])
    BY <2>2, <2>4, StateRoutine
  <2>6. Routine(c, c1)
    BY <1>2, <2>1, RoutineTransitive
  <2> QED
    BY <2>3, <2>5, <2>6, RoutineTransitive
<1>9. ASSUME t.type # "H245CONNECT"
      PROVE  Routine(c, FireTimer(e, w, c, t))
  BY <1>1, <1>4, <1>5, <1>6, <1>7, <1>8, <1>9 DEF TimerType
<1>10. ASSUME t.type = "H245CONNECT"
       PROVE  MayStart(e, c, FireTimer(e, w, c, t)) /\ Linked(c)
  <2> DEFINE c1 == [c0 EXCEPT !.h245ConnectionAttempts = @ + 1]
  <2>1. Linked(c)
    BY <1>10 DEF Linked
  <2>2. FireTimer(e, w, c, t) = CreateH245Connection(e, w, c1)
    BY <1>4, <1>10
  <2>3. Routine(c0, c1)
    BY <1>3, AttemptsRoutine
  <2> HIDE DEF c1
  <2>4. Routine(c, c1)
    BY <1>2, <2>3, RoutineTransitive
  <2> QED
    BY <2>1, <2>2, <2>4, ConnectionMayStart
<1> QED
  BY <1>9, <1>10

LEMMA FailsRoutine ==
  ASSUME NEW c \in Call
  PROVE  /\ Routine(c, ReceiveH225Fails(c))
         /\ c.h245SessionState # "PAUSED" => Routine(c, ReceiveH245Fails(c))
<1>1. Routine(c, MarkClear(c)) /\ Routine(c, CloseH245(c)) /\ Routine(c, CloseH225(c))
  BY MarkClearRoutine, CloseRoutine
<1> DEFINE c1 == MarkClear(c)
           c2 == CloseH225(c1)
           b1 == CloseH245(c)
<1>2. c1 \in Call /\ b1 \in Call
  BY <1>1, RoutineType
<1>3. ReceiveH225Fails(c) \in {CloseH225(c), [c2 EXCEPT !.callState = CLEARED]}
  BY DEF ReceiveH225Fails
<1>4. c.h245SessionState # "PAUSED" => ReceiveH245Fails(c) = MarkClear(b1)
  BY DEF ReceiveH245Fails
<1> HIDE DEF c1, b1
<1>5. Routine(b1, MarkClear(b1)) /\ Routine(c1, c2)
  BY <1>2, MarkClearRoutine, CloseRoutine
<1>6. c2 \in Call
  BY <1>5, RoutineType
<1> HIDE DEF c2
<1>7. CLEARED \in CallState /\ CLEARED >= c2.callState
  BY <1>6, StateValues DEF Call
<1>8. Routine(c2, [c2 EXCEPT !.callState = CLEARED])
  BY <1>6, <1>7, StateRoutine
<1>9. Routine(c, [c2 EXCEPT !.callState = CLEARED])
  BY <1>1, <1>2, <1>5, <1>6, <1>8, RoutineTransitive DEF c1
<1> QED
  BY <1>1, <1>3, <1>4, <1>5, <1>9, RoutineTransitive DEF b1
-----------------------------------------------------------------------------
(* Fast start                                                               *)

LEMMA FastStateRoutine ==
  ASSUME NEW c \in Call, NEW s \in Seq(FastOLC), NEW f \in SUBSET CallFlag,
         "TUNNELING" \in f <=> Has(c, "TUNNELING")
  PROVE  /\ Routine(c, [c EXCEPT !.pFastStartRes = s])
         /\ Routine(c, [c EXCEPT !.remoteFastStartOLCs = s])
         /\ Routine(c, [c EXCEPT !.flags = f])
<1>0. c.callState \in Nat
  BY StateValues DEF Call
<1>1. Routine(c, [c EXCEPT !.pFastStartRes = s])
  <2> DEFINE d == [c EXCEPT !.pFastStartRes = s]
  <2>1. d \in Call /\ d.callState = c.callState
    BY DEF Call
  <2>2. Aside(c, d) /\ SameFlows(c, d)
    BY DEF Aside, SameFlows, Call
  <2> HIDE DEF d
  <2>3. Routine(c, d)
    BY <1>0, <2>1, <2>2, AsideRoutine
  <2> QED
    BY <2>3 DEF d
<1>2. Routine(c, [c EXCEPT !.remoteFastStartOLCs = s])
  <2> DEFINE d == [c EXCEPT !.remoteFastStartOLCs = s]
  <2>1. d \in Call /\ d.callState = c.callState
    BY DEF Call
  <2>2. Aside(c, d) /\ SameFlows(c, d)
    BY DEF Aside, SameFlows, Call
  <2> HIDE DEF d
  <2>3. Routine(c, d)
    BY <1>0, <2>1, <2>2, AsideRoutine
  <2> QED
    BY <2>3 DEF d
<1>3. Routine(c, [c EXCEPT !.flags = f])
  <2> DEFINE d == [c EXCEPT !.flags = f]
  <2>1. d \in Call /\ d.callState = c.callState /\ d.flags = f
    BY DEF Call
  <2>2. /\ d.masterSlaveState = c.masterSlaveState
        /\ d.statusDeterminationNumber = c.statusDeterminationNumber
        /\ d.pCallFwdData = c.pCallFwdData /\ d.forwarded = c.forwarded
        /\ d.h245SessionState = c.h245SessionState /\ SameFlows(c, d)
        /\ d.h245Sock = c.h245Sock /\ d.h245listener = c.h245listener
        /\ d.remoteH245Port = c.remoteH245Port /\ d.timers = c.timers
    BY DEF SameFlows, Call
  <2> HIDE DEF d
  <2>3. Linked(d) <=> Linked(c)
    BY <2>2 DEF Linked
  <2>4. Has(d, "TUNNELING") <=> Has(c, "TUNNELING")
    BY <2>1 DEF Has
  <2>5. Moves(c, d, {})
    <3>1. /\ Adds(Sent225(d), Sent225(c), To225(c, {}))
          /\ Adds(Sent245(d), Sent245(c), To245(c, {}))
      BY <2>2, SameFlowsAdd
    <3> QED
      BY <1>0, <2>1, <2>2, <2>3, <2>4, <3>1 DEF Moves
  <2>6. Routine(c, d)
    BY <2>2, <2>3, <2>5 DEF Routine, Sends
  <2> QED
    BY <2>6 DEF d
<1> QED
  BY <1>1, <1>2, <1>3

Proposal == [cap : Cap, dir : {"receive", "transmit"}]

LEMMA BuildRoutine ==
  ASSUME NEW c \in Call, NEW p \in Proposal
  PROVE  Routine(c, BuildFastStartOLC(c, p)) /\ SameFlows(c, BuildFastStartOLC(c, p))
<1> DEFINE n  == c.logicalChanNoCur
           c0 == NextChanNo(c)
           c1 == AddChan(c0, n, p.dir, p.cap, "PROPOSED")
           i  == Len(c1.logicalChans)
<1>1. n \in Nat /\ p.dir \in {"transmit", "receive"} /\ p.cap \in Cap
  BY DEF Call, Proposal
<1>2. Routine(c, c0) /\ SameFlows(c, c0)
  BY CountersRoutine DEF SameFlows, NextChanNo, Call
<1>3. c0 \in Call
  BY <1>2, RoutineType
<1>4. BuildFastStartOLC(c, p) \in {c1, StartChan(c1, i)}
  BY DEF BuildFastStartOLC
<1> HIDE DEF n, c0
<1>5. Routine(c0, c1) /\ SameFlows(c0, c1)
  <2> DEFINE s == GenerateSession(c0, p.cap, p.dir)
             b == UseSession(c0, s)
  <2>1. s \in Nat
    BY <1>1, <1>3, SessionType
  <2> HIDE DEF s
  <2>2. b \in Call
    BY <1>3, <2>1, UseSessionRoutine, RoutineType
  <2>3. SameFlows(c0, b)
    BY <1>3 DEF SameFlows, UseSession, Call
  <2> HIDE DEF b
  <2>4. SameFlows(b, AddChanIn(b, n, s, p.dir, p.cap, "PROPOSED"))
    BY <2>2 DEF SameFlows, AddChanIn, Call
  <2>5. c1 = AddChanIn(b, n, s, p.dir, p.cap, "PROPOSED")
    BY DEF AddChan, s, b
  <2>6. Routine(c0, c1)
    BY <1>1, <1>3, AddChanRoutine
  <2> QED
    BY <2>3, <2>4, <2>5, <2>6 DEF SameFlows
<1>6. c1 \in Call
  BY <1>5, RoutineType
<1> HIDE DEF c1, i
<1>7. Routine(c1, StartChan(c1, i)) /\ SameFlows(c1, StartChan(c1, i))
  <2>1. SameFlows(c1, StartChan(c1, i))
    BY <1>6 DEF SameFlows, StartChan, Call
  <2> QED
    BY <1>6, <2>1, EntryRoutine
<1>8. Routine(c, c1) /\ SameFlows(c, c1)
  BY <1>2, <1>3, <1>5, RoutineTransitive DEF SameFlows
<1>9. Routine(c, StartChan(c1, i)) /\ SameFlows(c, StartChan(c1, i))
  BY <1>6, <1>7, <1>8, RoutineTransitive DEF SameFlows
<1> QED
  BY <1>4, <1>8, <1>9

BuildStep(k, c, p)  == BuildFastStartOLC(c, p)
BuildKept(k, c, d)  == Routine(c, d) /\ SameFlows(c, d)
Building            == INSTANCE FoldLemmas WITH Step <- BuildStep, Kept <- BuildKept

LEMMA BuildAllRoutine ==
  ASSUME NEW c \in Call, NEW ps \in Seq(Proposal)
  PROVE  LET d == FoldLeft(BuildFastStartOLC, c, ps)
         IN  Routine(c, d) /\ SameFlows(c, d)
<1>1. BuildKept(0, c, c)
  BY RoutineReflexive DEF BuildKept, SameFlows
<1>2. ASSUME NEW x, NEW y \in Proposal, BuildKept(0, c, x)
      PROVE  BuildKept(0, c, BuildStep(0, x, y))
  <2>1. x \in Call
    BY <1>2, RoutineType DEF BuildKept
  <2>2. Routine(x, BuildFastStartOLC(x, y)) /\ SameFlows(x, BuildFastStartOLC(x, y))
    BY <2>1, BuildRoutine
  <2>3. Routine(c, BuildFastStartOLC(x, y))
    BY <1>2, <2>2, RoutineTransitive DEF BuildKept
  <2> QED
    BY <1>2, <2>2, <2>3 DEF BuildKept, BuildStep, SameFlows
<1>3. BuildKept(0, c, Building!Fold(0, c, ps))
  BY <1>1, <1>2, Building!FoldKeeps
<1>4. Building!Fold(0, c, ps) = FoldLeft(BuildFastStartOLC, c, ps)
  BY Zenon DEF Building!Fold, Building!MapThenFoldSet, Building!Max,
     BuildStep, FoldLeft, MapThenFoldSet, Max
<1> QED
  BY <1>3, <1>4 DEF BuildKept

ProposeStep(e, ps, cap) == ps \o Proposed(e, cap)
ProposeKept(e, c, ps)   == ps \in Seq(Proposal)
Proposing               == INSTANCE FoldLemmas WITH Step <- ProposeStep, Kept <- ProposeKept

LEMMA ProposalsType ==
  ASSUME NEW e \in Endpoint
  PROVE  Proposals(e) \in Seq(Proposal)
<1> DEFINE s == CapPrefs[e]
           base == << >>
<1>1. s \in Seq(Cap)
  BY ConstantsAssumption
<1>2. ProposeKept(e, 0, base)
  BY DEF ProposeKept
<1>3. ASSUME NEW x, NEW y \in Cap, ProposeKept(e, 0, x)
      PROVE  ProposeKept(e, 0, ProposeStep(e, x, y))
  <2> DEFINE a == IF y \in CanRx[e] THEN << [cap |-> y, dir |-> "receive"] >> ELSE << >>
             b == IF y \in CanTx[e] THEN << [cap |-> y, dir |-> "transmit"] >> ELSE << >>
  <2>1. a \in Seq(Proposal) /\ b \in Seq(Proposal)
    <3>1. [cap |-> y, dir |-> "receive"] \in Proposal /\ [cap |-> y, dir |-> "transmit"] \in Proposal
      BY DEF Proposal
    <3>2. \A p \in Proposal : << p >> \in Seq(Proposal)
      OBVIOUS
    <3>3. << >> \in Seq(Proposal)
      OBVIOUS
    <3> QED
      BY <3>1, <3>2, <3>3
  <2>2. Proposed(e, y) = a \o b
    BY DEF Proposed
  <2> HIDE DEF a, b
  <2>3. a \o b \in Seq(Proposal)
    BY <2>1, ConcatProperties
  <2> QED
    BY <1>3, <2>2, <2>3, ConcatProperties DEF ProposeKept, ProposeStep
<1>4. Proposals(e) = Proposing!Fold(e, base, s)
  BY Zenon DEF Proposals, ProposeStep, Proposing!Fold, Proposing!MapThenFoldSet,
     Proposing!Max, FoldLeft, MapThenFoldSet, Max
<1> HIDE DEF s, base
<1>5. ProposeKept(e, 0, Proposing!Fold(e, base, s))
  BY <1>1, <1>2, <1>3, Proposing!FoldKeeps
<1> QED
  BY <1>4, <1>5 DEF ProposeKept

(* A call that has not begun.                                               *)
Fresh(c) ==
  /\ c \in Call /\ c.masterSlaveState = "Idle" /\ ~Linked(c)
  /\ c.pCallFwdData = "none" /\ ~c.forwarded /\ c.h245SessionState # "PAUSED"

LEMMA NewCallFresh ==
  ASSUME NEW out \in BOOLEAN, NEW ep \in SUBSET EpFlag, NEW f \in SUBSET CallFlag
  PROVE  LET c == NewCall(out, ep)
             d == [NewCall(out, ep) EXCEPT !.flags = f]
         IN  /\ Fresh(c) /\ Sent225(c) = << >> /\ Sent245(c) = << >>
             /\ Fresh(d) /\ d.h225Out = << >> /\ d.h225Net = << >> /\ Sent245(d) = << >>
<1> DEFINE c == NewCall(out, ep)
           d == [NewCall(out, ep) EXCEPT !.flags = f]
<1>1. /\ CREATED \in CallState /\ ChanNoBase \in Nat /\ FirstFreeSession \in Nat
      /\ 0 \in DetNumber /\ 0 \in SeqNumber /\ 0 \in Nat
  BY ConstantsAssumption
     DEF CallState, CREATED, CLEARED, FirstFreeSession, DetNumber, SeqNumber
<1>2. /\ "IDLE" \in SessionState /\ "Idle" \in MasterSlaveState /\ "Idle" \in LocalTermCapState
      /\ "Idle" \in RemoteTermCapState /\ "open" \in Socket /\ "none" \in Socket
      /\ "UNKNOWN" \in EndReason /\ "none" \in FwdData
      /\ ep \cap {"TUNNELING", "FASTSTART"} \in SUBSET CallFlag
  BY DEF SessionState, MasterSlaveState, LocalTermCapState, RemoteTermCapState, Socket,
         EndReason, FwdData, CallFlag
<1>3. << >> \in Seq(LogicalChan) /\ << >> \in Seq(Message) /\ << >> \in Seq(FastOLC)
      /\ << >> \o << >> = << >>
  OBVIOUS
<1>4. c \in Call
  BY <1>1, <1>2, <1>3 DEF NewCall, Call
<1>5. /\ c.masterSlaveState = "Idle" /\ c.h245Sock = "none" /\ c.h245listener = FALSE
      /\ c.remoteH245Port = FALSE /\ c.timers = {} /\ c.pCallFwdData = "none"
      /\ c.forwarded = FALSE /\ c.h245SessionState = "IDLE"
      /\ c.h225Net = << >> /\ c.h225Out = << >> /\ c.h245Net = << >> /\ c.h245Out = << >>
  BY DEF NewCall
<1> HIDE DEF c
<1>6. Fresh(c) /\ Sent225(c) = << >> /\ Sent245(c) = << >>
  BY <1>3, <1>4, <1>5 DEF Fresh, Linked, Sent225, Sent245
<1> DEFINE x == [c EXCEPT !.flags = f]
<1>7. x \in Call
  BY <1>4 DEF Call
<1>8. /\ x.masterSlaveState = "Idle" /\ x.h245Sock = "none" /\ x.h245listener = FALSE
      /\ x.remoteH245Port = FALSE /\ x.timers = {} /\ x.pCallFwdData = "none"
      /\ x.forwarded = FALSE /\ x.h245SessionState = "IDLE"
      /\ x.h225Net = << >> /\ x.h225Out = << >> /\ x.h245Net = << >> /\ x.h245Out = << >>
  BY <1>4, <1>5 DEF Call
<1> HIDE DEF x
<1>9. Fresh(x) /\ x.h225Out = << >> /\ x.h225Net = << >> /\ Sent245(x) = << >>
  BY <1>3, <1>7, <1>8 DEF Fresh, Linked, Sent245
<1> QED
  BY <1>6, <1>9 DEF c, x

LEMMA FastElementsType ==
  ASSUME NEW chans \in Seq(LogicalChan)
  PROVE  FastElements(chans) \in Seq(FastOLC)
<1>1. Len(chans) \in Nat /\ DOMAIN chans = 1 .. Len(chans)
  OBVIOUS
<1>2. \A i \in 1 .. Len(chans) : FastElement(chans[i]) \in FastOLC
  <2> TAKE i \in 1 .. Len(chans)
  <2>1. chans[i] \in LogicalChan
    OBVIOUS
  <2> QED
    BY <2>1 DEF FastElement, FastOLC, LogicalChan
<1>3. FastElements(chans) = [i \in 1 .. Len(chans) |-> FastElement(chans[i])]
  BY <1>1 DEF FastElements
<1>4. FastElements(chans) \in [1 .. Len(chans) -> FastOLC]
  BY <1>2, <1>3
<1> QED
  BY <1>1, <1>4, SeqDef

(* The caller's call when Setup is queued: nothing else has been.           *)
LEMMA MakeCallFresh ==
  ASSUME NEW e \in Endpoint, NEW ep \in SUBSET EpFlag,
         NEW opts \in SUBSET {"TUNNELING", "FASTSTART"}
  PROVE  LET c == MakeCall(e, ep, opts)
         IN  /\ Fresh(c) /\ Sent245(c) = << >>
             /\ \E m \in Message : m.type = "Setup" /\ Sent225(c) = << m >>
<1> DEFINE c0 == [NewCall(TRUE, ep) EXCEPT !.flags = opts]
           offers == "FASTSTART" \in c0.epFlags
           c1 == IF offers THEN FoldLeft(BuildFastStartOLC, c0, Proposals(e)) ELSE c0
           fast == IF offers THEN FastElements(c1.logicalChans) ELSE << >>
           tunnels == Has(c0, "TUNNELING") \/ Has(c0, "FASTSTART")
           m == [type |-> "Setup", tunneling |-> tunnels, fastPresent |-> offers, fast |-> fast]
           c2 == SendH225(c1, m)
<1>1. opts \in SUBSET CallFlag
  BY DEF CallFlag
<1>2. /\ Fresh(c0) /\ c0.h225Out = << >> /\ c0.h225Net = << >> /\ Sent245(c0) = << >>
  BY <1>1, NewCallFresh
<1>3. c0 \in Call
  BY <1>2 DEF Fresh
<1>4. MakeCall(e, ep, opts) = c2
  BY DEF MakeCall, MakeCallHelper
<1>5. offers \in BOOLEAN /\ tunnels \in BOOLEAN
  OBVIOUS
<1> HIDE DEF c0, offers, tunnels
<1>6. Routine(c0, c1) /\ SameFlows(c0, c1)
  <2>1. Routine(c0, c0) /\ SameFlows(c0, c0)
    BY <1>3, RoutineReflexive DEF SameFlows
  <2>2. Proposals(e) \in Seq(Proposal)
    BY ProposalsType
  <2>3. LET d == FoldLeft(BuildFastStartOLC, c0, Proposals(e))
        IN  Routine(c0, d) /\ SameFlows(c0, d)
    BY <1>3, <2>2, BuildAllRoutine
  <2>4. CASE offers
    BY <2>3, <2>4
  <2>5. CASE ~offers
    BY <2>1, <2>5
  <2> QED
    BY <2>4, <2>5
<1>7. c1 \in Call
  BY <1>6, RoutineType
<1> HIDE DEF c1
<1>8. fast \in Seq(FastOLC)
  <2>1. c1.logicalChans \in Seq(LogicalChan)
    BY <1>7 DEF Call
  <2>2. FastElements(c1.logicalChans) \in Seq(FastOLC) /\ << >> \in Seq(FastOLC)
    BY <2>1, FastElementsType
  <2> QED
    BY <2>2
<1> HIDE DEF fast
<1>9. m \in Message /\ m.type = "Setup"
  BY <1>5, <1>8 DEF Message
<1> HIDE DEF m
<1>10. m.type \notin RoleType
  BY <1>9 DEF RoleType
<1>11. Sends(c1, c2, {m})
  BY <1>7, <1>9, <1>10, SendH225Sends
<1>12. c2 = [c1 EXCEPT !.h225Out = Append(@, m)]
  BY <1>9 DEF SendH225
<1> HIDE DEF c2
<1>13. /\ c2.h225Net = << >> /\ c2.h225Out = Append(<< >>, m)
       /\ c2.h245Net = c0.h245Net /\ c2.h245Out = c0.h245Out
  BY <1>2, <1>6, <1>7, <1>12 DEF SameFlows, Call
<1>14. Sent225(c2) = << m >>
  <2>1. << >> \o Append(<< >>, m) = << m >>
    OBVIOUS
  <2> QED
    BY <1>13, <2>1 DEF Sent225
<1>15. Sent245(c2) = << >>
  BY <1>2, <1>13 DEF Sent245
<1>16. Fresh(c2)
  BY <1>2, <1>6, <1>11 DEF Fresh, Routine, Sends, Moves
<1> QED
  BY <1>4, <1>9, <1>14, <1>15, <1>16

-----------------------------------------------------------------------------
(* The called end                                                           *)

AnswerKept(e, c, so) ==
  /\ so = [call |-> so.call, fast |-> so.fast]
  /\ Routine(c, so.call) /\ so.fast \in Seq(FastOLC)
Answering            == INSTANCE FoldLemmas WITH Step <- AnswerElement, Kept <- AnswerKept

LEMMA AnswerElementKeeps ==
  ASSUME NEW e \in Endpoint, NEW c \in Call, NEW so, NEW olc \in FastOLC, AnswerKept(e, c, so)
  PROVE  AnswerKept(e, c, AnswerElement(e, so, olc))
<1> DEFINE a   == so.call
           dir == IF olc.dir = "forward" THEN "receive" ELSE "transmit"
           n   == IF dir = "receive" THEN olc.chan ELSE a.logicalChanNoCur
           c1  == IF dir = "receive" THEN a ELSE NextChanNo(a)
           c2  == AddChan(c1, n, dir, olc.cap, "ESTABLISHED")
           i   == FindChan(c2.logicalChans, n)
           x   == [olc EXCEPT !.chan = n]
<1>1. a \in Call /\ Routine(c, a)
  BY RoutineType DEF AnswerKept
<1>2. n \in Nat /\ dir \in {"transmit", "receive"} /\ olc.cap \in Cap
  BY <1>1 DEF Call, FastOLC
<1>3. AnswerElement(e, so, olc)
        \in {so, [call |-> StartChan(c2, i), fast |-> Append(so.fast, x)]}
  BY DEF AnswerElement
<1>4. x \in FastOLC
  BY <1>2 DEF FastOLC
<1> HIDE DEF a, n, dir, x
<1>5. Routine(a, c1)
  BY <1>1, CountersRoutine, RoutineReflexive
<1>6. c1 \in Call
  BY <1>5, RoutineType
<1> HIDE DEF c1
<1>7. Routine(c1, c2)
  BY <1>2, <1>6, AddChanRoutine
<1>8. c2 \in Call
  BY <1>7, RoutineType
<1> HIDE DEF c2, i
<1>9. Routine(c2, StartChan(c2, i))
  BY <1>8, EntryRoutine
<1>10. Routine(c, StartChan(c2, i))
  BY <1>1, <1>5, <1>6, <1>7, <1>8, <1>9, RoutineTransitive
<1>11. Append(so.fast, x) \in Seq(FastOLC)
  BY <1>4, AppendProperties DEF AnswerKept
<1> QED
  BY <1>3, <1>10, <1>11 DEF AnswerKept

LEMMA FastStartResponseRoutine ==
  ASSUME NEW e \in Endpoint, NEW c \in Call, NEW t
  PROVE  LET so == FastStartResponse(e, c, t)
         IN  Routine(c, so.call) /\ so.fast \in Seq(FastOLC)
<1>0. /\ c.pFastStartRes \in Seq(FastOLC) /\ c.remoteFastStartOLCs \in Seq(FastOLC)
      /\ << >> \in Seq(FastOLC) /\ c.flags \in SUBSET CallFlag
      /\ ("TUNNELING" \in c.flags <=> Has(c, "TUNNELING"))
  BY DEF Call, Has
<1>1. CASE c.pFastStartRes # << >>
  <2>1. Routine(c, [c EXCEPT !.pFastStartRes = << >>]) /\ Routine(c, c)
    BY <1>0, FastStateRoutine, RoutineReflexive
  <2>2. FastStartResponse(e, c, t) =
          [call |-> IF t = "Connect" THEN [c EXCEPT !.pFastStartRes = << >>] ELSE c,
           fast |-> c.pFastStartRes]
    BY <1>1 DEF FastStartResponse
  <2> QED
    BY <1>0, <2>1, <2>2
<1>2. CASE c.pFastStartRes = << >> /\ "FASTSTART" \in c.epFlags /\ c.remoteFastStartOLCs # << >>
  <2> DEFINE olcs == c.remoteFastStartOLCs
             base == [call |-> c, fast |-> << >>]
             so == FoldLeft(LAMBDA x, olc : AnswerElement(e, x, olc), base, olcs)
  <2>1. so = Answering!Fold(e, base, olcs)
    BY Zenon DEF Answering!Fold, Answering!MapThenFoldSet, Answering!Max,
       FoldLeft, MapThenFoldSet, Max
  <2>2. AnswerKept(e, c, base)
    BY <1>0, RoutineReflexive DEF AnswerKept
  <2>3. \A x : \A y \in FastOLC : AnswerKept(e, c, x) => AnswerKept(e, c, AnswerElement(e, x, y))
    BY AnswerElementKeeps
  <2>4. FastStartResponse(e, c, t) =
          IF so.fast # << >> THEN [so EXCEPT !.call.pFastStartRes = so.fast]
          ELSE [so EXCEPT !.call.flags = @ \ {"FASTSTART"}]
    BY <1>2, Zenon DEF FastStartResponse
  <2> HIDE DEF so, base, olcs
  <2>5. AnswerKept(e, c, so)
    <3>1. olcs \in Seq(FastOLC)
      BY <1>0 DEF olcs
    <3> QED
      BY <2>1, <2>2, <2>3, <3>1, Answering!FoldKeeps
  <2> DEFINE a == so.call
             f == so.fast
             a1 == [a EXCEPT !.pFastStartRes = f]
             a2 == [a EXCEPT !.flags = @ \ {"FASTSTART"}]
  <2>6. so = [call |-> a, fast |-> f] /\ Routine(c, a) /\ f \in Seq(FastOLC)
    BY <2>5 DEF AnswerKept
  <2>7. a \in Call
    BY <2>6, RoutineType
  <2> HIDE DEF a, f
  <2>8. FastStartResponse(e, c, t) \in {[call |-> a1, fast |-> f], [call |-> a2, fast |-> f]}
    BY <2>4, <2>6
  <2>9. /\ a.flags \ {"FASTSTART"} \in SUBSET CallFlag
        /\ ("TUNNELING" \in a.flags \ {"FASTSTART"} <=> Has(a, "TUNNELING"))
    BY <2>7 DEF Call, Has
  <2>10. Routine(a, a1) /\ Routine(a, a2)
    BY <2>6, <2>7, <2>9, FastStateRoutine
  <2>11. Routine(c, a1) /\ Routine(c, a2)
    BY <2>6, <2>10, RoutineTransitive
  <2> HIDE DEF a1, a2
  <2> QED
    BY <2>6, <2>8, <2>11
<1>3. CASE c.pFastStartRes = << >> /\ ~("FASTSTART" \in c.epFlags /\ c.remoteFastStartOLCs # << >>)
  <2>1. FastStartResponse(e, c, t) = [call |-> c, fast |-> << >>]
    BY <1>3 DEF FastStartResponse
  <2> QED
    BY <1>0, <2>1, RoutineReflexive
<1> QED
  BY <1>1, <1>2, <1>3

(* The messages an end answers a call with, and a step that sends some.     *)
Signals(c) ==
  {m \in Message :
     \/ m.type \in {"CallProceeding", "Alerting"} /\ ~m.h245
     \/ /\ m.type = "Connect" /\ (m.h245 => ~m.tunneling)
        /\ m.tunneling <=> Has(c, "TUNNELING")}

Rings(c, d) ==
  /\ Moves(c, d, Signals(c))
  /\ d.masterSlaveState = c.masterSlaveState
  /\ d.statusDeterminationNumber = c.statusDeterminationNumber

LEMMA RingsType ==
  ASSUME NEW c, NEW d, Rings(c, d)
  PROVE  d \in Call
  BY DEF Rings, Moves

LEMMA RingsTransitive ==
  ASSUME NEW b \in Call, NEW c, NEW d, Rings(b, c), Rings(c, d)
  PROVE  Rings(b, d)
<1>1. Has(c, "TUNNELING") <=> Has(b, "TUNNELING")
  BY DEF Rings, Moves
<1>2. Signals(c) \subseteq Signals(b)
  BY <1>1 DEF Signals
<1>3. NoRole(Signals(b))
  BY DEF NoRole, Signals, RoleType
<1>4. Moves(b, d, Signals(b))
  BY <1>2, <1>3, MovesTransitive DEF Rings
<1> QED
  BY <1>4 DEF Rings

LEMMA RoutineRings ==
  ASSUME NEW c \in Call, NEW d, Routine(c, d)
  PROVE  Rings(c, d)
<1>1. Moves(c, d, {})
  BY DEF Routine, Sends
<1>2. Moves(c, d, Signals(c))
  BY <1>1, MovesMore
<1> QED
  BY <1>2 DEF Rings, Routine, Sends

LEMMA SendRings ==
  ASSUME NEW c \in Call, NEW m \in Signals(c)
  PROVE  Rings(c, SendH225(c, m))
<1>1. m \in Message /\ m.type \notin RoleType
  BY DEF Signals, RoleType
<1>2. Sends(c, SendH225(c, m), {m})
  BY <1>1, SendH225Sends
<1>3. Moves(c, SendH225(c, m), Signals(c))
  BY <1>2, MovesMore DEF Sends
<1> QED
  BY <1>2, <1>3 DEF Rings, Sends

LEMMA ProgressRings ==
  ASSUME NEW e \in Endpoint, NEW c \in Call
  PROVE  Rings(c, SendCallProceeding(c)) /\ Rings(c, SendAlerting(e, c))
<1>1. ASSUME NEW b \in Call, NEW t \in {"CallProceeding", "Alerting"}, NEW v \in BOOLEAN,
             NEW fast \in Seq(FastOLC)
      PROVE  Rings(b, SendH225(b, [type |-> t, tunneling |-> v, h245 |-> FALSE, fast |-> fast]))
  <2> DEFINE m == [type |-> t, tunneling |-> v, h245 |-> FALSE, fast |-> fast]
  <2>1. m \in Message
    BY DEF Message
  <2>2. m \in Signals(b)
    BY <2>1 DEF Signals
  <2> HIDE DEF m
  <2>3. Rings(b, SendH225(b, m))
    BY <2>2, SendRings
  <2> QED
    BY <2>3 DEF m
<1> DEFINE v == "TUNNELING" \in c.epFlags
<1>2. v \in BOOLEAN /\ << >> \in Seq(FastOLC)
  OBVIOUS
<1>3. Rings(c, SendCallProceeding(c))
  <2>1. SendCallProceeding(c) =
          SendH225(c, [type |-> "CallProceeding", tunneling |-> v, h245 |-> FALSE, fast |-> << >>])
    BY DEF SendCallProceeding
  <2> HIDE DEF v
  <2> QED
    BY <1>1, <1>2, <2>1
<1>4. Rings(c, SendAlerting(e, c))
  <2> DEFINE so == FastStartResponse(e, c, "Alerting")
  <2>1. Routine(c, so.call) /\ so.fast \in Seq(FastOLC)
    BY FastStartResponseRoutine
  <2>2. SendAlerting(e, c) =
          SendH225(so.call, [type |-> "Alerting", tunneling |-> v, h245 |-> FALSE,
                             fast |-> so.fast])
    BY DEF SendAlerting
  <2> HIDE DEF so, v
  <2>3. so.call \in Call
    BY <2>1, RoutineType
  <2>4. Rings(so.call, SendAlerting(e, c))
    BY <1>1, <1>2, <2>1, <2>2, <2>3
  <2>5. Rings(c, so.call)
    BY <2>1, RoutineRings
  <2> QED
    BY <2>4, <2>5, RingsTransitive
<1> QED
  BY <1>3, <1>4

LEMMA AcceptCallRings ==
  ASSUME NEW e \in Endpoint, NEW c \in Call
  PROVE  Rings(c, AcceptCall(e, c))
<1> DEFINE so == FastStartResponse(e, c, "Connect")
           a  == so.call
           listens == /\ ~Has(a, "FASTSTART") \/ c.remoteFastStartOLCs = << >>
                      /\ ~Has(a, "TUNNELING")
           v  == a.h245listener \/ listens
           b  == [a EXCEPT !.h245listener = v]
           tunnels == Has(a, "TUNNELING")
           m  == [type |-> "Connect", tunneling |-> tunnels, h245 |-> listens, fast |-> so.fast]
<1>1. Routine(c, so.call) /\ so.fast \in Seq(FastOLC)
  BY FastStartResponseRoutine
<1>2. AcceptCall(e, c) = SendH225(b, m)
  BY DEF AcceptCall
<1>3. /\ listens \in BOOLEAN /\ v \in BOOLEAN /\ tunnels \in BOOLEAN
      /\ listens => ~tunnels
      /\ tunnels <=> Has(a, "TUNNELING")
      /\ v => a.h245listener \/ ~Has(a, "TUNNELING")
  <2>1. listens \in BOOLEAN /\ tunnels \in BOOLEAN
    BY DEF Has
  <2>2. listens => ~tunnels
    OBVIOUS
  <2>3. tunnels <=> Has(a, "TUNNELING")
    OBVIOUS
  <2>4. listens => ~Has(a, "TUNNELING")
    OBVIOUS
  <2> HIDE DEF listens, tunnels
  <2>5. v \in BOOLEAN
    BY <2>1
  <2>6. v => a.h245listener \/ ~Has(a, "TUNNELING")
    BY <2>4
  <2> QED
    BY <2>1, <2>2, <2>3, <2>5, <2>6
<1> HIDE DEF so, listens, tunnels
<1>4. a \in Call /\ Routine(c, a)
  BY <1>1, RoutineType
<1> HIDE DEF a, v
<1>5. b \in Call
  BY <1>3, <1>4 DEF Call
<1>6. /\ b.masterSlaveState = a.masterSlaveState
      /\ b.statusDeterminationNumber = a.statusDeterminationNumber
      /\ b.pCallFwdData = a.pCallFwdData /\ b.forwarded = a.forwarded /\ b.flags = a.flags
      /\ b.h245SessionState = a.h245SessionState /\ SameFlows(a, b)
      /\ b.h245Sock = a.h245Sock /\ b.h245listener = v
      /\ b.remoteH245Port = a.remoteH245Port /\ b.timers = a.timers
      /\ b.callState = a.callState /\ a.callState \in Nat
  BY <1>4, StateValues DEF SameFlows, Call
<1> HIDE DEF b
<1>7. Has(b, "TUNNELING") <=> Has(a, "TUNNELING")
  BY <1>6 DEF Has
<1>8. Linked(b) => Linked(a) \/ ~Has(a, "TUNNELING")
  BY <1>3, <1>6 DEF Linked
<1>9. /\ Adds(Sent225(b), Sent225(a), To225(a, Signals(a)))
      /\ Adds(Sent245(b), Sent245(a), To245(a, Signals(a)))
  BY <1>6, SameFlowsAdd
<1>10. Rings(a, b)
  BY <1>5, <1>6, <1>7, <1>8, <1>9 DEF Rings, Moves
<1>11. m \in Signals(b)
  <2>1. m \in Message
    BY <1>1, <1>3 DEF Message
  <2>2. m.type = "Connect" /\ m.tunneling = tunnels /\ m.h245 = listens
    OBVIOUS
  <2> HIDE DEF m
  <2> QED
    BY <1>3, <1>7, <2>1, <2>2 DEF Signals
<1> HIDE DEF m
<1>12. Rings(b, SendH225(b, m))
  BY <1>5, <1>11, SendRings
<1>13. Rings(c, a)
  BY <1>4, RoutineRings
<1> QED
  BY <1>2, <1>4, <1>10, <1>12, <1>13, RingsTransitive

LEMMA RingAndAnswerRings ==
  ASSUME NEW e \in Endpoint, NEW c \in Call
  PROVE  Rings(c, RingAndAnswer(e, c))
<1>1. Rings(c, SendAlerting(e, c))
  BY ProgressRings
<1>2. SendAlerting(e, c) \in Call
  BY <1>1, RingsType
<1>3. Rings(c, AcceptCall(e, SendAlerting(e, c)))
  BY <1>1, <1>2, AcceptCallRings, RingsTransitive
<1> QED
  BY <1>1, <1>3 DEF RingAndAnswer

(* What Setup makes of the call before the answers to it.                   *)
SetUp(c, m) ==
  LET tunnels == m.tunneling /\ "TUNNELING" \in c.epFlags
      fast    == IF m.fastPresent THEN "FASTSTART" \in c.epFlags /\ m.fast # << >>
                 ELSE Has(c, "FASTSTART")
  IN  [c EXCEPT !.flags = (IF tunnels THEN {"TUNNELING"} ELSE {})
                             \cup (IF fast THEN {"FASTSTART"} ELSE {}),
                !.remoteFastStartOLCs = IF fast THEN m.fast ELSE << >>]

LEMMA SetUpFields ==
  ASSUME NEW c \in Call, NEW m \in Message, m.type = "Setup"
  PROVE  LET d == SetUp(c, m)
         IN  /\ d \in Call /\ SameFlows(c, d)
             /\ d.callState = c.callState /\ d.h245SessionState = c.h245SessionState
             /\ d.masterSlaveState = c.masterSlaveState
             /\ d.statusDeterminationNumber = c.statusDeterminationNumber
             /\ d.pCallFwdData = c.pCallFwdData /\ d.forwarded = c.forwarded
             /\ Linked(d) <=> Linked(c)
<1> DEFINE tunnels == m.tunneling /\ "TUNNELING" \in c.epFlags
           fast    == IF m.fastPresent THEN "FASTSTART" \in c.epFlags /\ m.fast # << >>
                      ELSE Has(c, "FASTSTART")
           f == (IF tunnels THEN {"TUNNELING"} ELSE {}) \cup (IF fast THEN {"FASTSTART"} ELSE {})
           s == IF fast THEN m.fast ELSE << >>
           d == [c EXCEPT !.flags = f, !.remoteFastStartOLCs = s]
<1>1. SetUp(c, m) = d
  BY DEF SetUp
<1>2. m.fast \in Seq(FastOLC) /\ << >> \in Seq(FastOLC)
  BY MessageFields
<1> HIDE DEF tunnels, fast
<1>3. f \in SUBSET CallFlag /\ s \in Seq(FastOLC)
  BY <1>2 DEF CallFlag
<1> HIDE DEF f, s
<1>4. d \in Call
  BY <1>3 DEF Call
<1>5. /\ SameFlows(c, d)
      /\ d.callState = c.callState /\ d.h245SessionState = c.h245SessionState
      /\ d.masterSlaveState = c.masterSlaveState
      /\ d.statusDeterminationNumber = c.statusDeterminationNumber
      /\ d.pCallFwdData = c.pCallFwdData /\ d.forwarded = c.forwarded
      /\ d.h245Sock = c.h245Sock /\ d.h245listener = c.h245listener
      /\ d.remoteH245Port = c.remoteH245Port /\ d.timers = c.timers
  BY DEF SameFlows, Call
<1> HIDE DEF d
<1>6. Linked(d) <=> Linked(c)
  BY <1>5 DEF Linked
<1> QED
  BY <1>1, <1>4, <1>5, <1>6

LEMMA HandleSetupRings ==
  ASSUME NEW e \in Endpoint, NEW c \in Call, NEW m \in Message, m.type = "Setup"
  PROVE  Rings(SetUp(c, m), HandleSetup(e, c, m))
<1> DEFINE d == SetUp(c, m)
           p == SendCallProceeding(d)
<1>1. d \in Call
  BY SetUpFields
<1>2. HandleSetup(e, c, m) = CallAdmitted(e, p)
  BY DEF HandleSetup, SetUp
<1> HIDE DEF d
<1>3. Rings(d, p)
  BY <1>1, ProgressRings
<1>4. p \in Call
  BY <1>3, RingsType
<1> HIDE DEF p
<1>5. Rings(d, RingAndAnswer(e, p))
  BY <1>1, <1>3, <1>4, RingAndAnswerRings, RingsTransitive
<1>6. Rings(d, CallAdmitted(e, p))
  BY <1>3, <1>5 DEF CallAdmitted
<1> QED
  BY <1>2, <1>6 DEF d
-----------------------------------------------------------------------------
(* The answer to fast start, at the calling end                             *)

EstablishKept(ch, c, d) == Routine(c, d)
Establishing            == INSTANCE FoldLemmas WITH Step <- ClearOther, Kept <- EstablishKept

LEMMA EstablishedRoutine ==
  ASSUME NEW c \in Call, NEW i
  PROVE  Routine(c, Established(c, i))
<1> DEFINE ch   == c.logicalChans[i]
           base == SetChanState(c, i, "ESTABLISHED")
           seq  == c.logicalChans
<1>1. EstablishKept(ch, c, base) /\ seq \in Seq(LogicalChan)
  BY EntryRoutine DEF EstablishKept, Call
<1>2. ASSUME NEW x, NEW o \in LogicalChan, EstablishKept(ch, c, x)
      PROVE  EstablishKept(ch, c, ClearOther(ch, x, o))
  <2>1. x \in Call /\ Routine(c, x)
    BY <1>2, RoutineType DEF EstablishKept
  <2>2. ClearOther(ch, x, o) \in {x, ClearChan(x, o.channelNo)}
    BY DEF ClearOther
  <2>3. Routine(c, ClearChan(x, o.channelNo))
    BY <2>1, ClearChanRoutine, RoutineTransitive
  <2> QED
    BY <2>1, <2>2, <2>3 DEF EstablishKept
<1>3. Established(c, i) = Establishing!Fold(ch, base, seq)
  BY Zenon DEF Established, Establishing!Fold, Establishing!MapThenFoldSet,
     Establishing!Max, FoldLeft, MapThenFoldSet, Max
<1> HIDE DEF ch, base, seq
<1>4. EstablishKept(ch, c, Establishing!Fold(ch, base, seq))
  BY <1>1, <1>2, Establishing!FoldKeeps
<1> QED
  BY <1>3, <1>4 DEF EstablishKept

TakeStep(k, so, olc) == TakeElement(so, olc)
TakeKept(k, c, so) ==
  /\ so = [call |-> so.call, ok |-> so.ok]
  /\ Routine(c, so.call) /\ so.ok \in BOOLEAN
Taking == INSTANCE FoldLemmas WITH Step <- TakeStep, Kept <- TakeKept

LEMMA NumberedRoutine ==
  ASSUME NEW c \in Call, NEW i, NEW n \in Nat
  PROVE  Routine(c, [c EXCEPT !.logicalChans[i].channelNo = n])
<1> DEFINE s == c.logicalChans
           a == [s[i] EXCEPT !.channelNo = n]
<1>1. s \in Seq(LogicalChan)
  BY DEF Call
<1>2. i \in 1 .. Len(s) => s[i] \in LogicalChan
  BY <1>1
<1>3. i \in 1 .. Len(s) => a \in LogicalChan
  BY <1>2 DEF LogicalChan
<1>4. [s EXCEPT ![i] = a] \in Seq(LogicalChan)
  <2> HIDE DEF a, s
  <2> QED
    BY <1>1, <1>3, EntryChanged
<1>5. Routine(c, [c EXCEPT !.logicalChans = [s EXCEPT ![i] = a]])
  BY <1>4, ChansRoutine
<1>6. [c EXCEPT !.logicalChans[i].channelNo = n] = [c EXCEPT !.logicalChans = [s EXCEPT ![i] = a]]
  BY Zenon
<1> QED
  BY <1>5, <1>6

LEMMA TakeElementKeeps ==
  ASSUME NEW c \in Call, NEW so, NEW olc \in FastOLC, TakeKept(0, c, so)
  PROVE  TakeKept(0, c, TakeElement(so, olc))
<1> DEFINE a == so.call
           s == Append(a.remoteFastStartOLCs, olc)
           b == [a EXCEPT !.remoteFastStartOLCs = s]
           i == FindByOLC(a, olc)
           n == olc.chan
           d == [b EXCEPT !.logicalChans[i].channelNo = n]
           f == IF olc.dir = "forward" THEN StartChan(d, i) ELSE d
<1>1. a \in Call /\ Routine(c, a) /\ n \in Nat
  BY RoutineType DEF TakeKept, FastOLC
<1>2. s \in Seq(FastOLC)
  BY <1>1, AppendProperties DEF Call
<1>3. TakeElement(so, olc)
        \in {so, [call |-> b, ok |-> FALSE], [call |-> Established(f, i), ok |-> TRUE]}
  BY DEF TakeElement
<1> HIDE DEF a, s, i, n
<1>4. Routine(a, b)
  BY <1>1, <1>2, FastStateRoutine DEF Has, Call
<1>5. b \in Call /\ Routine(c, b)
  BY <1>1, <1>4, RoutineType, RoutineTransitive
<1> HIDE DEF b
<1>6. Routine(b, d)
  BY <1>1, <1>5, NumberedRoutine
<1>7. d \in Call
  BY <1>6, RoutineType
<1> HIDE DEF d
<1>8. Routine(d, f)
  BY <1>7, EntryRoutine, RoutineReflexive
<1>9. f \in Call
  BY <1>8, RoutineType
<1> HIDE DEF f
<1>10. Routine(c, Established(f, i))
  BY <1>5, <1>6, <1>7, <1>8, <1>9, EstablishedRoutine, RoutineTransitive
<1> DEFINE r == Established(f, i)
<1> HIDE DEF r
<1>11. Routine(c, r) /\ TakeElement(so, olc) \in {so, [call |-> b, ok |-> FALSE], [call |-> r, ok |-> TRUE]}
  BY <1>3, <1>10 DEF r
<1>12. TakeKept(0, c, [call |-> b, ok |-> FALSE]) /\ TakeKept(0, c, [call |-> r, ok |-> TRUE])
  BY <1>5, <1>11 DEF TakeKept
<1> QED
  BY <1>11, <1>12

LEMMA TakeAnswerRoutine ==
  ASSUME NEW c \in Call, NEW fast \in Seq(FastOLC)
  PROVE  Routine(c, TakeAnswer(c, fast).call) /\ TakeAnswer(c, fast).ok \in BOOLEAN
<1> DEFINE base == [call |-> c, ok |-> TRUE]
           so   == FoldLeft(TakeElement, base, fast)
           a    == so.call
           ok   == so.ok
           b    == [a EXCEPT !.flags = @ \cup {"FASTSTARTANSWERED"}]
<1>1. TakeKept(0, c, base)
  BY RoutineReflexive DEF TakeKept
<1>2. ASSUME NEW x, NEW y \in FastOLC, TakeKept(0, c, x)
      PROVE  TakeKept(0, c, TakeStep(0, x, y))
  BY <1>2, TakeElementKeeps DEF TakeStep
<1>3. so = Taking!Fold(0, base, fast)
  BY Zenon DEF Taking!Fold, Taking!MapThenFoldSet, Taking!Max, TakeStep,
     FoldLeft, MapThenFoldSet, Max
<1>4. TakeAnswer(c, fast) = IF so.ok THEN [so EXCEPT !.call.flags = @ \cup {"FASTSTARTANSWERED"}]
                            ELSE so
  BY DEF TakeAnswer
<1> HIDE DEF base, so
<1>5. TakeKept(0, c, so)
  BY <1>1, <1>2, <1>3, Taking!FoldKeeps
<1>6. so = [call |-> a, ok |-> ok] /\ Routine(c, a) /\ ok \in BOOLEAN
  BY <1>5 DEF TakeKept
<1>7. a \in Call
  BY <1>6, RoutineType
<1> HIDE DEF a, ok
<1>8. TakeAnswer(c, fast) \in {[call |-> b, ok |-> ok], so}
  BY <1>4, <1>6
<1>9. /\ a.flags \cup {"FASTSTARTANSWERED"} \in SUBSET CallFlag
      /\ ("TUNNELING" \in a.flags \cup {"FASTSTARTANSWERED"} <=> Has(a, "TUNNELING"))
  BY <1>7 DEF Call, Has, CallFlag
<1>10. Routine(a, b)
  BY <1>7, <1>9, FastStateRoutine DEF Call
<1>11. Routine(c, b)
  BY <1>6, <1>10, RoutineTransitive
<1> HIDE DEF b
<1> QED
  BY <1>6, <1>8, <1>11

LEMMA HandleProgressRoutine ==
  ASSUME NEW c \in Call, NEW m \in Message, m.type \in {"CallProceeding", "Alerting"}, ~m.h245
  PROVE  Routine(c, HandleProgress(c, m))
<1>1. Routine(c, TakeAnswer(c, m.fast).call) /\ Routine(c, c)
  BY TakeAnswerRoutine, MessageFields, RoutineReflexive
<1>2. HandleProgress(c, m) \in {TakeAnswer(c, m.fast).call, c}
  BY DEF HandleProgress, TakeH245Address
<1> QED
  BY <1>1, <1>2

LEMMA FastStartInConnectRoutine ==
  ASSUME NEW c \in Call, NEW m \in Message, m.type = "Connect"
  PROVE  Routine(c, FastStartInConnect(c, m).call)
<1> DEFINE b == ClearAllChans(c)
           d == [b EXCEPT !.flags = @ \ {"FASTSTART"}]
<1>1. Routine(c, TakeAnswer(c, m.fast).call) /\ Routine(c, c) /\ Routine(c, b)
  BY TakeAnswerRoutine, MessageFields, RoutineReflexive, ClearChanRoutine
<1>2. FastStartInConnect(c, m).call \in {TakeAnswer(c, m.fast).call, c, d}
  BY DEF FastStartInConnect
<1> HIDE DEF b
<1>3. b \in Call
  BY <1>1, RoutineType
<1>4. /\ b.flags \ {"FASTSTART"} \in SUBSET CallFlag
      /\ ("TUNNELING" \in b.flags \ {"FASTSTART"} <=> Has(b, "TUNNELING"))
  BY <1>3 DEF Call, Has
<1>5. Routine(b, d)
  BY <1>3, <1>4, FastStateRoutine DEF Call
<1>6. Routine(c, d)
  BY <1>1, <1>5, RoutineTransitive
<1> QED
  BY <1>1, <1>2, <1>6
-----------------------------------------------------------------------------
(* The rest of H.225                                                        *)

(* Tunnelling is given up, nothing is sent, and what belongs to a separate  *)
(* connection may come.                                                     *)
Untunnels(c, d) ==
  /\ d \in Call /\ ~Has(d, "TUNNELING") /\ d.callState = c.callState
  /\ d.masterSlaveState = c.masterSlaveState
  /\ d.statusDeterminationNumber = c.statusDeterminationNumber
  /\ d.pCallFwdData = c.pCallFwdData /\ d.forwarded = c.forwarded
  /\ d.h245SessionState = c.h245SessionState /\ SameFlows(c, d)

LEMMA FlagUntunnels ==
  ASSUME NEW c \in Call
  PROVE  /\ Untunnels(c, [c EXCEPT !.flags = @ \ {"TUNNELING"}])
         /\ Untunnels(c, [c EXCEPT !.flags = @ \ {"TUNNELING"}, !.remoteH245Port = TRUE])
<1> DEFINE f == c.flags \ {"TUNNELING"}
<1>1. f \in SUBSET CallFlag /\ "TUNNELING" \notin f
  BY DEF Call
<1> HIDE DEF f
<1>2. Untunnels(c, [c EXCEPT !.flags = f])
  <2> DEFINE d == [c EXCEPT !.flags = f]
  <2>1. d \in Call /\ d.flags = f
    BY <1>1 DEF Call
  <2>2. /\ d.callState = c.callState /\ d.masterSlaveState = c.masterSlaveState
        /\ d.statusDeterminationNumber = c.statusDeterminationNumber
        /\ d.pCallFwdData = c.pCallFwdData /\ d.forwarded = c.forwarded
        /\ d.h245SessionState = c.h245SessionState /\ SameFlows(c, d)
    BY DEF Call, SameFlows
  <2> HIDE DEF d
  <2>3. Untunnels(c, d)
    BY <1>1, <2>1, <2>2 DEF Untunnels, Has
  <2> QED
    BY <2>3 DEF d
<1>3. Untunnels(c, [c EXCEPT !.flags = f, !.remoteH245Port = TRUE])
  <2> DEFINE d == [c EXCEPT !.flags = f, !.remoteH245Port = TRUE]
  <2>1. d \in Call /\ d.flags = f
    BY <1>1 DEF Call
  <2>2. /\ d.callState = c.callState /\ d.masterSlaveState = c.masterSlaveState
        /\ d.statusDeterminationNumber = c.statusDeterminationNumber
        /\ d.pCallFwdData = c.pCallFwdData /\ d.forwarded = c.forwarded
        /\ d.h245SessionState = c.h245SessionState /\ SameFlows(c, d)
    BY DEF Call, SameFlows
  <2> HIDE DEF d
  <2>3. Untunnels(c, d)
    BY <1>1, <2>1, <2>2 DEF Untunnels, Has
  <2> QED
    BY <2>3 DEF d
<1> QED
  BY <1>2, <1>3 DEF f

(* The steps a Connect is answered by, in their order.                      *)
ConnectSteps(e, m, c, d) ==
  \E a, c1, c2, c3 \in Call :
    /\ Routine(c, a)
    /\ c1 = a \/ (Untunnels(a, c1) /\ ~m.tunneling)
    /\ c2 = c1 \/ (MayStart(e, c1, c2) /\ Linked(c1))
    /\ c3 = c2 \/ (Untunnels(c2, c3) /\ ~m.tunneling)
    /\ d = c3 \/ (MayStart(e, c3, d) /\ Has(c3, "TUNNELING") /\ m.tunneling)

LEMMA StartH245Steps ==
  ASSUME NEW e \in Endpoint, NEW w \in World, NEW c \in Call, NEW a \in Call,
         NEW m \in Message, m.type = "Connect", Routine(c, a)
  PROVE  ConnectSteps(e, m, c, StartH245(e, w, a, m))
<1> DEFINE c1 == TakeH245Address(a, m)
           c2 == IF c1.remoteH245Port THEN CreateH245Connection(e, w, c1) ELSE c1
           c3 == IF m.tunneling THEN c2 ELSE [c2 EXCEPT !.flags = @ \ {"TUNNELING"}]
           x  == IF c3.localTermCapState = "Idle" THEN SendTermCap(w, c3) ELSE c3
           d  == IF Has(c3, "TUNNELING") THEN SendMSD(e, w, x) ELSE c3
<1>1. StartH245(e, w, a, m) = d
  BY DEF StartH245
<1>2. c1 \in Call /\ (c1 = a \/ (Untunnels(a, c1) /\ ~m.tunneling))
  BY FlagUntunnels DEF TakeH245Address, Untunnels
<1> HIDE DEF c1
<1>3. c2 = c1 \/ (MayStart(e, c1, c2) /\ Linked(c1))
  <2>1. CASE c1.remoteH245Port
    <3>1. Linked(c1)
      BY <2>1 DEF Linked
    <3>2. MayStart(e, c1, CreateH245Connection(e, w, c1))
      BY <1>2, <3>1, RoutineReflexive, ConnectionMayStart
    <3> QED
      BY <2>1, <3>1, <3>2
  <2>2. CASE ~c1.remoteH245Port
    BY <2>2
  <2> QED
    BY <2>1, <2>2
<1>4. c2 \in Call
  BY <1>2, <1>3, MayStartType
<1> HIDE DEF c2
<1>5. /\ c3 = c2 \/ (Untunnels(c2, c3) /\ ~m.tunneling)
      /\ ~m.tunneling => Untunnels(c2, c3)
  BY <1>4, FlagUntunnels
<1>6. c3 \in Call /\ (Has(c3, "TUNNELING") => m.tunneling)
  BY <1>4, <1>5 DEF Untunnels
<1> HIDE DEF c3
<1>7. Routine(c3, x)
  BY <1>6, SendTermCapRoutine, RoutineReflexive
<1>8. x \in Call
  BY <1>7, RoutineType
<1> HIDE DEF x
<1>9. MayStart(e, x, SendMSD(e, w, x))
  BY <1>8, SendMSDStarts, RoutineReflexive DEF MayStart
<1>10. MayStart(e, c3, SendMSD(e, w, x))
  BY <1>6, <1>7, <1>9, MayStartAround
<1>11. d = c3 \/ (MayStart(e, c3, d) /\ Has(c3, "TUNNELING") /\ m.tunneling)
  BY <1>6, <1>10
<1> HIDE DEF d
<1> QED
  BY <1>1, <1>2, <1>3, <1>4, <1>5, <1>6, <1>11 DEF ConnectSteps

LEMMA HandleConnectSteps ==
  ASSUME NEW e \in Endpoint, NEW w \in World, NEW c \in Call,
         NEW m \in Message, m.type = "Connect"
  PROVE  ConnectSteps(e, m, c, HandleConnect(e, w, c, m))
<1> DEFINE b  == StopTimer(c, "CALLESTB", 0)
           so == FastStartInConnect(b, m)
<1>1. Routine(c, b)
  BY TimerRoutine DEF TimerType
<1>2. b \in Call
  BY <1>1, RoutineType
<1>3. HandleConnect(e, w, c, m) \in {StartH245(e, w, so.call, m), so.call}
  BY DEF HandleConnect
<1> HIDE DEF b
<1>4. Routine(b, so.call)
  BY <1>2, FastStartInConnectRoutine
<1>5. so.call \in Call /\ Routine(c, so.call)
  BY <1>1, <1>2, <1>4, RoutineType, RoutineTransitive
<1>6. ConnectSteps(e, m, c, StartH245(e, w, so.call, m))
  BY <1>5, StartH245Steps
<1>7. ConnectSteps(e, m, c, so.call)
  BY <1>5 DEF ConnectSteps
<1> QED
  BY <1>3, <1>6, <1>7

LEMMA ReasonRoutine ==
  ASSUME NEW c \in Call, NEW r \in EndReason
  PROVE  Routine(c, [c EXCEPT !.callEndReason = r])
<1> DEFINE d == [c EXCEPT !.callEndReason = r]
<1>1. d \in Call /\ d.callState = c.callState /\ c.callState \in Nat
  BY StateValues DEF Call
<1>2. Aside(c, d) /\ SameFlows(c, d)
  BY DEF Aside, SameFlows, Call
<1> HIDE DEF d
<1>3. Routine(c, d)
  BY <1>1, <1>2, AsideRoutine
<1> QED
  BY <1>3 DEF d

(* The note of who has forwarded the call, and what follows it.             *)
Noted(c, who) == [c EXCEPT !.pCallFwdData = who]

LEMMA ForwardCallSends ==
  ASSUME NEW c \in Call
  PROVE  Sends(Noted(c, "byUs"), ForwardCall(c), {Msg("CallForwarded")})
<1> DEFINE b == Noted(c, "byUs")
           m == Msg("CallForwarded")
           d == SendH225(b, m)
<1>1. b \in Call
  BY DEF Noted, Call, FwdData
<1>2. m \in Message /\ m.type \notin RoleType
  BY DEF Msg, Message, Plain, RoleType
<1>3. ForwardCall(c) = [d EXCEPT !.callEndReason = "OTHER"]
  BY DEF ForwardCall, Noted
<1> HIDE DEF b, m
<1>4. Sends(b, d, {m})
  BY <1>1, <1>2, SendH225Sends
<1>5. d \in Call
  BY <1>4 DEF Sends, Moves
<1> HIDE DEF d
<1>6. Sends(d, [d EXCEPT !.callEndReason = "OTHER"], {})
  BY <1>5, ReasonRoutine DEF EndReason, Routine
<1>7. Sends(b, [d EXCEPT !.callEndReason = "OTHER"], {m})
  BY <1>1, <1>4, <1>6, SendsTransitive, NoneAboutRoles
<1> QED
  BY <1>3, <1>7 DEF b, m

LEMMA HandleCallForwardedRoutine ==
  ASSUME NEW c \in Call
  PROVE  Routine(Noted(c, "byRemote"), HandleCallForwarded(c))
<1> DEFINE b == Noted(c, "byRemote")
           d == [b EXCEPT !.callState = CLEAR]
<1>1. b \in Call
  BY DEF Noted, Call, FwdData
<1>2. /\ b.callState < CLEAR => HandleCallForwarded(c) = [d EXCEPT !.callEndReason = "REMOTE_FWDED"]
      /\ ~(b.callState < CLEAR) => HandleCallForwarded(c) = b
  BY DEF HandleCallForwarded, Noted
<1> HIDE DEF b
<1>3. Routine(b, b)
  BY <1>1, RoutineReflexive
<1>4. ASSUME b.callState < CLEAR
      PROVE  Routine(b, [d EXCEPT !.callEndReason = "REMOTE_FWDED"])
  <2>0. CLEAR \in CallState /\ CLEAR \in Nat /\ b.callState \in Nat
    BY <1>1, StateValues DEF Call
  <2>1. CLEAR \in CallState /\ CLEAR >= b.callState
    BY <1>4, <2>0
  <2>2. Routine(b, d)
    BY <1>1, <2>1, StateRoutine
  <2>3. d \in Call
    BY <2>2, RoutineType
  <2> HIDE DEF d
  <2>4. Routine(d, [d EXCEPT !.callEndReason = "REMOTE_FWDED"])
    BY <2>3, ReasonRoutine DEF EndReason
  <2> QED
    BY <1>1, <2>2, <2>4, RoutineTransitive
<1> QED
  BY <1>2, <1>3, <1>4 DEF b

LEMMA HandleReleaseCompleteRoutine ==
  ASSUME NEW c \in Call
  PROVE  Routine(c, HandleReleaseComplete(c))
<1> DEFINE b  == StopTimer(c, "SESSION", 0)
           c1 == Because(b)
           c2 == IF c1.h245SessionState \in {"IDLE", "CLOSED"} THEN c1 ELSE CloseH245(c1)
<1>1. Routine(c, b)
  BY TimerRoutine DEF TimerType
<1>2. b \in Call
  BY <1>1, RoutineType
<1>3. HandleReleaseComplete(c) = [c2 EXCEPT !.callState = CLEARED]
  BY DEF HandleReleaseComplete
<1> HIDE DEF b
<1>4. Routine(b, c1)
  BY <1>2, ReasonRoutine, RoutineReflexive DEF Because, EndReason
<1>5. c1 \in Call
  BY <1>4, RoutineType
<1> HIDE DEF c1
<1>6. Routine(c1, c2)
  BY <1>5, CloseRoutine, RoutineReflexive
<1>7. c2 \in Call
  BY <1>6, RoutineType
<1> HIDE DEF c2
<1>8. CLEARED \in CallState /\ CLEARED >= c2.callState
  BY <1>7, StateValues DEF Call
<1>9. Routine(c2, [c2 EXCEPT !.callState = CLEARED])
  BY <1>7, <1>8, StateRoutine
<1> QED
  BY <1>1, <1>2, <1>3, <1>4, <1>5, <1>6, <1>7, <1>9, RoutineTransitive

LEMMA HandleH2250Cases ==
  ASSUME NEW e \in Endpoint, NEW w \in World, NEW c \in Call, NEW m \in Message
  PROVE  LET d == HandleH2250Message(e, w, c, m)
         IN  /\ m.type = "Setup" => d = HandleSetup(e, c, m)
             /\ m.type \in {"CallProceeding", "Alerting"} => d = HandleProgress(c, m)
             /\ m.type = "Connect" => d = HandleConnect(e, w, c, m)
             /\ m.type = "ReleaseComplete" => d = HandleReleaseComplete(c)
             /\ m.type = "CallForwarded" => d = HandleCallForwarded(c)
             /\ m.type \notin {"Setup", "CallProceeding", "Alerting", "Connect",
                               "ReleaseComplete", "CallForwarded"}
                  => d = HandleTunneled(e, w, c, m)
  BY DEF HandleH2250Message
-----------------------------------------------------------------------------
(* The pass                                                                 *)

(* A step that may start H.245, but only where a connection for it exists.  *)
LinkedStart(e, c, d) == Routine(c, d) \/ (Linked(c) /\ MayStart(e, c, d))

LEMMA FireExpiredStarts ==
  ASSUME NEW e \in Endpoint, NEW w \in World, NEW c \in Call, NEW expired \in SUBSET c.timers
  PROVE  LinkedStart(e, c, FireExpired(e, w, c, expired))
<1>1. CASE expired = {}
  BY <1>1, RoutineReflexive DEF LinkedStart, FireExpired
<1>2. CASE expired # {}
  <2> DEFINE t == CHOOSE t \in expired : TRUE
  <2>1. t \in c.timers
    BY <1>2
  <2>2. t \in Timer
    BY <2>1 DEF Call
  <2>3. FireExpired(e, w, c, expired) = FireTimer(e, w, c, t)
    BY <1>2 DEF FireExpired
  <2> HIDE DEF t
  <2> QED
    BY <2>1, <2>2, <2>3, FireTimerMayStart DEF LinkedStart
<1> QED
  BY <1>1, <1>2

LEMMA WritesStart ==
  ASSUME NEW e \in Endpoint, NEW w \in World, NEW found \in Call, NEW c \in Call, NEW listener
  PROVE  /\ LinkedStart(e, c, WriteH245(e, w, found, c, listener))
         /\ Routine(c, WriteH225(w, found, c))
         /\ Routine(c, EndOfPass(w, c))
<1>1. /\ Routine(c, c) /\ Routine(c, SendMsgH245(w, c)) /\ Routine(c, SendMsgQ931(w, c))
      /\ Routine(c, EndCall(w, c))
  BY RoutineReflexive, SendMsgH245Routine, SendMsgQ931Routine, EndCallRoutine
<1>2. c.h245listener => Linked(c) /\ MayStart(e, c, AcceptH245Connection(e, w, c))
  BY <1>1, ConnectionMayStart DEF Linked
<1>3. /\ WriteH225(w, found, c) \in {c, SendMsgQ931(w, c)}
      /\ EndOfPass(w, c) \in {c, EndCall(w, c)}
  BY DEF WriteH225, EndOfPass
<1>4. \/ WriteH245(e, w, found, c, listener) \in {c, SendMsgH245(w, c)}
      \/ c.h245listener /\ WriteH245(e, w, found, c, listener) = AcceptH245Connection(e, w, c)
  BY DEF WriteH245
<1> QED
  BY <1>1, <1>2, <1>3, <1>4 DEF LinkedStart

LEMMA ServeH245Cases ==
  ASSUME NEW e \in Endpoint, NEW w \in World, NEW c \in Call, NEW arrived \in Arrival,
         c.h245SessionState # "PAUSED"
  PROVE  LET d == ServeH245(e, w, c, arrived)
         IN  IF ServesH245(c, arrived) /\ arrived # Eof
             THEN d = HandleH245Message(e, w, c, arrived) ELSE Routine(c, d)
<1>1. Routine(c, c) /\ Routine(c, ReceiveH245Fails(c))
  BY RoutineReflexive, FailsRoutine
<1>2. ReceiveH245(e, w, c, arrived) = HandleH245Message(e, w, c, arrived)
  BY DEF ReceiveH245
<1>3. CASE ~ServesH245(c, arrived)
  BY <1>1, <1>3 DEF ServeH245
<1>4. CASE ServesH245(c, arrived) /\ arrived = Eof
  BY <1>1, <1>4 DEF ServeH245
<1>5. CASE ServesH245(c, arrived) /\ arrived # Eof
  BY <1>2, <1>5 DEF ServeH245
<1> QED
  BY <1>3, <1>4, <1>5

LEMMA ServeH225Cases ==
  ASSUME NEW e \in Endpoint, NEW w \in World, NEW c \in Call, NEW arrived \in Arrival
  PROVE  LET d == ServeH225(e, w, c, arrived)
         IN  \/ Routine(c, d)
             \/ arrived \in Message /\ d = HandleH2250Message(e, w, c, arrived)
<1>1. Routine(c, c) /\ Routine(c, ReceiveH225Fails(c))
  BY RoutineReflexive, FailsRoutine
<1>2. ServeH225(e, w, c, arrived)
        \in {c, ReceiveH225Fails(c), HandleH2250Message(e, w, c, arrived)}
  BY DEF ServeH225
<1>3. arrived \notin {Nothing, Eof} => arrived \in Message
  BY DEF Arrival
<1>0. Eof # Nothing
  <2>1. Eof.type # Nothing.type
    BY DEF Eof, Nothing
  <2> QED
    BY <2>1
<1>4. arrived = Nothing => ServeH225(e, w, c, arrived) = c
  BY <1>0 DEF ServeH225
<1>5. ASSUME arrived = Eof
      PROVE  ServeH225(e, w, c, arrived) \in {c, ReceiveH225Fails(c)}
  <2>2. c.h225Sock # "open" => ServeH225(e, w, c, arrived) = c
    BY DEF ServeH225
  <2>3. c.h225Sock = "open" => ServeH225(e, w, c, arrived) = ReceiveH225Fails(c)
    BY <1>0, <1>5 DEF ServeH225
  <2> QED
    BY <2>2, <2>3
<1> QED
  BY <1>1, <1>2, <1>3, <1>4, <1>5
-----------------------------------------------------------------------------
(* What is on its way, message by message                                   *)

In225(c) == {Sent225(c)[i] : i \in DOMAIN Sent225(c)}
In245(c) == {Sent245(c)[i] : i \in DOMAIN Sent245(c)}
OnWay(c) == In225(c) \cup In245(c)

Ordered(s, m, n) == \E i, j \in DOMAIN s : i < j /\ s[i] = m /\ s[j] = n
Before(c, m, n)  == Ordered(Sent225(c), m, n) \/ Ordered(Sent245(c), m, n)

LEMMA AddsMessages ==
  ASSUME NEW s, NEW t, NEW M, Adds(t, s, M)
  PROVE  /\ \A i \in DOMAIN t : Tracked(t[i]) => t[i] \in M \/ \E k \in DOMAIN s : s[k] = t[i]
         /\ \A m, n : Tracked(n) /\ Ordered(t, m, n) => Ordered(s, m, n) \/ n \in M
         /\ \A m, n : m.type \in RoleType /\ n.type \in RoleType /\ Ordered(t, m, n)
                        => \E k \in DOMAIN s : s[k] = m
<1>1. ASSUME NEW m, NEW n, Tracked(n), Ordered(t, m, n)
      PROVE  Ordered(s, m, n) \/ n \in M
  <2>1. PICK i \in DOMAIN t, j \in DOMAIN t : i < j /\ t[i] = m /\ t[j] = n
    BY <1>1 DEF Ordered
  <2>2. t[j] \in M \/ \E k, l \in DOMAIN s : k < l /\ s[k] = t[i] /\ s[l] = t[j]
    BY <1>1, <2>1 DEF Adds
  <2> QED
    BY <2>1, <2>2 DEF Ordered
<1>2. ASSUME NEW m, NEW n, m.type \in RoleType, n.type \in RoleType, Ordered(t, m, n)
      PROVE  \E k \in DOMAIN s : s[k] = m
  <2>1. PICK i \in DOMAIN t, j \in DOMAIN t : i < j /\ t[i] = m /\ t[j] = n
    BY <1>2 DEF Ordered
  <2> QED
    BY <1>2, <2>1 DEF Adds
<1> QED
  BY <1>1, <1>2 DEF Adds

LEMMA MovesMessages ==
  ASSUME NEW c \in Call, NEW d, NEW M, Moves(c, d, M)
  PROVE  /\ \A m \in In225(d) : Tracked(m) => m \in In225(c) \cup To225(c, M)
         /\ \A m \in In245(d) : Tracked(m) => m \in In245(c) \cup To245(c, M)
         /\ \A m, n : Tracked(n) /\ Before(d, m, n) => Before(c, m, n) \/ n \in M
         /\ \A m, n : m.type \in RoleType /\ n.type \in RoleType /\ Before(d, m, n)
                        => m \in OnWay(c)
<1>1. /\ Adds(Sent225(d), Sent225(c), To225(c, M)) /\ Adds(Sent245(d), Sent245(c), To245(c, M))
      /\ To225(c, M) \subseteq M /\ To245(c, M) \subseteq M
  BY DEF Moves, To225, To245
<1>2. /\ \A m \in In225(d) : Tracked(m) => m \in In225(c) \cup To225(c, M)
      /\ \A m \in In245(d) : Tracked(m) => m \in In245(c) \cup To245(c, M)
  BY <1>1 DEF Adds, In225, In245
<1> DEFINE p == Sent225(c)
           q == Sent245(c)
           r == Sent225(d)
           s == Sent245(d)
           A == To225(c, M)
           B == To245(c, M)
<1>3. /\ \A m, n : Tracked(n) /\ Ordered(r, m, n) => Ordered(p, m, n) \/ n \in A
      /\ \A m, n : m.type \in RoleType /\ n.type \in RoleType /\ Ordered(r, m, n)
                     => \E k \in DOMAIN p : p[k] = m
  BY <1>1, AddsMessages
<1>4. /\ \A m, n : Tracked(n) /\ Ordered(s, m, n) => Ordered(q, m, n) \/ n \in B
      /\ \A m, n : m.type \in RoleType /\ n.type \in RoleType /\ Ordered(s, m, n)
                     => \E k \in DOMAIN q : q[k] = m
  BY <1>1, AddsMessages
<1>5. \A m : (\E k \in DOMAIN p : p[k] = m) \/ (\E k \in DOMAIN q : q[k] = m) => m \in OnWay(c)
  BY DEF OnWay, In225, In245
<1> HIDE DEF p, q, r, s, A, B
<1>6. ASSUME NEW m, NEW n, Tracked(n), Before(d, m, n)
      PROVE  Before(c, m, n) \/ n \in M
  <2>1. Ordered(r, m, n) \/ Ordered(s, m, n)
    BY <1>6 DEF Before, r, s
  <2>2. Ordered(p, m, n) \/ Ordered(q, m, n) \/ n \in A \/ n \in B
    BY <1>3, <1>4, <1>6, <2>1
  <2> QED
    BY <1>1, <2>2 DEF Before, p, q, A, B
<1>7. ASSUME NEW m, NEW n, m.type \in RoleType, n.type \in RoleType, Before(d, m, n)
      PROVE  m \in OnWay(c)
  <2>1. Ordered(r, m, n) \/ Ordered(s, m, n)
    BY <1>7 DEF Before, r, s
  <2> QED
    BY <1>3, <1>4, <1>5, <1>7, <2>1
<1> QED
  BY <1>2, <1>6, <1>7

(* Reading the first message of a connection.                               *)
Read225(c) == [c EXCEPT !.h225Net = Tail(@)]
Read245(c) == [c EXCEPT !.h245Net = Tail(@)]

StartsWith(s, m, r) == s = << m >> \o r

LEMMA HeadFirst ==
  ASSUME NEW S, NEW r \in Seq(S), NEW m \in S, NEW s, StartsWith(s, m, r)
  PROVE  /\ \E i \in DOMAIN s : s[i] = m
         /\ \A j \in DOMAIN r : Ordered(s, m, r[j]) /\ \E i \in DOMAIN s : s[i] = r[j]
<1> DEFINE h == << m >>
<1>1. h \in Seq(S) /\ Len(h) = 1 /\ h[1] = m
  OBVIOUS
<1> HIDE DEF h
<1>2. /\ h \o r \in Seq(S) /\ Len(h \o r) = Len(h) + Len(r)
      /\ \A i \in 1 .. Len(h) + Len(r) : (h \o r)[i] = IF i <= Len(h) THEN h[i] ELSE r[i - Len(h)]
  BY <1>1, ConcatProperties
<1>3. s = h \o r /\ Len(r) \in Nat /\ DOMAIN r = 1 .. Len(r)
  BY DEF h, StartsWith
<1>4. DOMAIN s = 1 .. 1 + Len(r) /\ s[1] = m
  BY <1>1, <1>2, <1>3
<1>5. ASSUME NEW j \in DOMAIN r
      PROVE  j + 1 \in DOMAIN s /\ 1 < j + 1 /\ s[j + 1] = r[j]
  <2>1. j \in 1 .. Len(r) /\ j + 1 \in 1 .. 1 + Len(r) /\ ~(j + 1 <= 1) /\ j + 1 - 1 = j
    BY <1>3
  <2> QED
    BY <1>1, <1>2, <1>3, <1>4, <2>1
<1>6. 1 \in DOMAIN s
  BY <1>3, <1>4
<1> QED
  BY <1>4, <1>5, <1>6 DEF Ordered

LEMMA ReadRoutine ==
  ASSUME NEW c \in Call
  PROVE  /\ c.h225Net # << >> =>
              LET d == Read225(c)
                  m == Head(c.h225Net)
              IN  /\ Routine(c, d) /\ m \in Message /\ m \in In225(c)
                  /\ \A n \in In225(d) : n \in In225(c) /\ Before(c, m, n)
                  /\ In245(d) = In245(c)
         /\ c.h245Net # << >> =>
              LET d == Read245(c)
                  m == Head(c.h245Net)
              IN  /\ Routine(c, d) /\ m \in Message /\ m \in In245(c)
                  /\ \A n \in In245(d) : n \in In245(c) /\ Before(c, m, n)
                  /\ In225(d) = In225(c)
<1>0. /\ c.h225Net \in Seq(Message) /\ c.h225Out \in Seq(Message)
      /\ c.h245Net \in Seq(Message) /\ c.h245Out \in Seq(Message) /\ c.callState \in Nat
  BY StateValues DEF Call
<1>1. ASSUME c.h225Net # << >>
      PROVE  LET d == Read225(c)
                 m == Head(c.h225Net)
             IN  /\ Routine(c, d) /\ m \in Message /\ m \in In225(c)
                 /\ \A n \in In225(d) : n \in In225(c) /\ Before(c, m, n)
                 /\ In245(d) = In245(c)
  <2> DEFINE d == Read225(c)
             m == Head(c.h225Net)
             r == Tail(c.h225Net)
  <2>1. m \in Message /\ r \in Seq(Message)
    BY <1>0, <1>1, HeadOfQueue
  <2>2. d \in Call /\ d.callState = c.callState
    BY <2>1 DEF Read225, Call
  <2>3. Aside(c, d) /\ Sent225(d) = r \o c.h225Out /\ Sent245(d) = Sent245(c)
    BY DEF Aside, Call, Read225, Sent225, Sent245
  <2> DEFINE q == r \o c.h225Out
             t == Sent225(c)
  <2> HIDE DEF r
  <2>4. Within(q, t) /\ q \in Seq(Message) /\ StartsWith(t, m, q)
    BY <1>0, <1>1, QueueRead DEF r, Sent225, StartsWith
  <2> HIDE DEF d, m
  <2>5. Routine(c, d)
    <3>1. /\ Adds(Sent225(d), Sent225(c), To225(c, {}))
          /\ Adds(Sent245(d), Sent245(c), To245(c, {}))
      BY <2>3, <2>4, WithinReflexive, WithinAdds
    <3>2. d.callState >= c.callState
      BY <1>0, <2>2
    <3>3. d \in Call /\ Aside(c, d)
      BY <2>2, <2>3
    <3> QED
      BY <3>1, <3>2, <3>3, AsideSends DEF Routine
  <2> HIDE DEF q, t
  <2>6. /\ \E i \in DOMAIN t : t[i] = m
        /\ \A j \in DOMAIN q : Ordered(t, m, q[j]) /\ \E i \in DOMAIN t : t[i] = q[j]
    BY <2>1, <2>4, HeadFirst
  <2>7. m \in In225(c) /\ \A n \in In225(d) : n \in In225(c) /\ Before(c, m, n)
    BY <2>3, <2>6 DEF In225, Before, q, t
  <2>8. In245(d) = In245(c)
    BY <2>3 DEF In245
  <2> QED
    BY <2>1, <2>5, <2>7, <2>8 DEF d, m
<1>2. ASSUME c.h245Net # << >>
      PROVE  LET d == Read245(c)
                 m == Head(c.h245Net)
             IN  /\ Routine(c, d) /\ m \in Message /\ m \in In245(c)
                 /\ \A n \in In245(d) : n \in In245(c) /\ Before(c, m, n)
                 /\ In225(d) = In225(c)
  <2> DEFINE d == Read245(c)
             m == Head(c.h245Net)
             r == Tail(c.h245Net)
  <2>1. m \in Message /\ r \in Seq(Message)
    BY <1>0, <1>2, HeadOfQueue
  <2>2. d \in Call /\ d.callState = c.callState
    BY <2>1 DEF Read245, Call
  <2>3. Aside(c, d) /\ Sent245(d) = r \o c.h245Out /\ Sent225(d) = Sent225(c)
    BY DEF Aside, Call, Read245, Sent225, Sent245
  <2> DEFINE q == r \o c.h245Out
             t == Sent245(c)
  <2> HIDE DEF r
  <2>4. Within(q, t) /\ q \in Seq(Message) /\ StartsWith(t, m, q)
    BY <1>0, <1>2, QueueRead DEF r, Sent245, StartsWith
  <2> HIDE DEF d, m
  <2>5. Routine(c, d)
    <3>1. /\ Adds(Sent245(d), Sent245(c), To245(c, {}))
          /\ Adds(Sent225(d), Sent225(c), To225(c, {}))
      BY <2>3, <2>4, WithinReflexive, WithinAdds
    <3>2. d.callState >= c.callState
      BY <1>0, <2>2
    <3>3. d \in Call /\ Aside(c, d)
      BY <2>2, <2>3
    <3> QED
      BY <3>1, <3>2, <3>3, AsideSends DEF Routine
  <2> HIDE DEF q, t
  <2>6. /\ \E i \in DOMAIN t : t[i] = m
        /\ \A j \in DOMAIN q : Ordered(t, m, q[j]) /\ \E i \in DOMAIN t : t[i] = q[j]
    BY <2>1, <2>4, HeadFirst
  <2>7. m \in In245(c) /\ \A n \in In245(d) : n \in In245(c) /\ Before(c, m, n)
    BY <2>3, <2>6 DEF In245, Before, q, t
  <2>8. In225(d) = In225(c)
    BY <2>3 DEF In225
  <2> QED
    BY <2>1, <2>5, <2>7, <2>8 DEF d, m
<1> QED
  BY <1>1, <1>2

-----------------------------------------------------------------------------
(* What a stream of messages holds and in which order: no message of type k, *)
(* at most one, one of the types T, and one of T before every one of type x. *)
Free(s, k)   == \A i \in DOMAIN s : s[i].type # k
Once(s, k)   == \A i, j \in DOMAIN s : s[i].type = k /\ s[j].type = k => i = j
Said(s, T)   == \E i \in DOMAIN s : s[i].type \in T
Led(s, x, T) == \A j \in DOMAIN s : s[j].type = x => \E i \in DOMAIN s : i < j /\ s[i].type \in T

LEMMA AppendStream ==
  ASSUME NEW S, NEW s \in Seq(S), NEW m \in S
  PROVE  /\ \A k : Free(Append(s, m), k) <=> Free(s, k) /\ m.type # k
         /\ \A k : Once(s, k) /\ (m.type # k \/ Free(s, k)) => Once(Append(s, m), k)
         /\ \A T : Said(Append(s, m), T) <=> Said(s, T) \/ m.type \in T
         /\ \A x, T : Led(s, x, T) /\ (m.type # x \/ Said(s, T)) => Led(Append(s, m), x, T)
<1> DEFINE t == Append(s, m)
<1>1. /\ Len(t) = Len(s) + 1 /\ t \in Seq(S)
      /\ \A i \in 1 .. Len(s) : t[i] = s[i]
      /\ t[Len(s) + 1] = m
  BY AppendProperties
<1>2. DOMAIN t = 1 .. Len(s) + 1 /\ DOMAIN s = 1 .. Len(s) /\ Len(s) \in Nat
  BY <1>1
<1> HIDE DEF t
<1>3. /\ \A i \in DOMAIN s : i \in DOMAIN t /\ t[i] = s[i] /\ i < Len(s) + 1
      /\ Len(s) + 1 \in DOMAIN t
      /\ \A i \in DOMAIN t : i \in DOMAIN s \/ i = Len(s) + 1
  BY <1>1, <1>2
<1>4. \A k : Free(t, k) <=> Free(s, k) /\ m.type # k
  BY <1>1, <1>3 DEF Free
<1>5. ASSUME NEW k, Once(s, k), m.type # k \/ Free(s, k)
      PROVE  Once(t, k)
  BY <1>1, <1>3, <1>5 DEF Once, Free
<1>6. \A T : Said(t, T) <=> Said(s, T) \/ m.type \in T
  BY <1>1, <1>3 DEF Said
<1>7. ASSUME NEW x, NEW T, Led(s, x, T), m.type # x \/ Said(s, T)
      PROVE  Led(t, x, T)
  <2> SUFFICES ASSUME NEW j \in DOMAIN t, t[j].type = x
               PROVE  \E i \in DOMAIN t : i < j /\ t[i].type \in T
    BY DEF Led
  <2>1. CASE j \in DOMAIN s
    <3>1. \E i \in DOMAIN s : i < j /\ s[i].type \in T
      BY <1>3, <1>7, <2>1 DEF Led
    <3> QED
      BY <1>3, <3>1
  <2>2. CASE j = Len(s) + 1
    <3>1. \E i \in DOMAIN s : s[i].type \in T
      BY <1>1, <1>7, <2>2 DEF Said
    <3> QED
      BY <1>3, <2>2, <3>1
  <2> QED
    BY <1>3, <2>1, <2>2
<1> QED
  BY <1>4, <1>5, <1>6, <1>7 DEF t

(* The front of a stream.                                                   *)
LEMMA FrontStream ==
  ASSUME NEW S, NEW s \in Seq(S), NEW r \in Seq(S)
  PROVE  /\ s \o r \in Seq(S)
         /\ \A k : Free(s \o r, k) => Free(s, k)
         /\ \A k : Once(s \o r, k) => Once(s, k)
         /\ \A T : Said(s, T) => Said(s \o r, T)
         /\ \A x, T : Led(s \o r, x, T) => Led(s, x, T)
<1> DEFINE t == s \o r
<1>1. /\ t \in Seq(S) /\ Len(t) = Len(s) + Len(r)
      /\ \A i \in 1 .. Len(s) + Len(r) : t[i] = IF i <= Len(s) THEN s[i] ELSE r[i - Len(s)]
  BY ConcatProperties
<1>2. Len(s) \in Nat /\ Len(r) \in Nat
  OBVIOUS
<1> HIDE DEF t
<1>3. DOMAIN t = 1 .. Len(s) + Len(r) /\ DOMAIN s = 1 .. Len(s)
  BY <1>1
<1>4. /\ \A i \in DOMAIN s : i \in DOMAIN t /\ t[i] = s[i]
      /\ \A i \in DOMAIN t, j \in DOMAIN s : i < j => i \in DOMAIN s
  BY <1>1, <1>2, <1>3
<1>5. \A x, T : Led(t, x, T) => Led(s, x, T)
  <2> SUFFICES ASSUME NEW x, NEW T, Led(t, x, T), NEW j \in DOMAIN s, s[j].type = x
               PROVE  \E i \in DOMAIN s : i < j /\ s[i].type \in T
    BY DEF Led
  <2>1. j \in DOMAIN t /\ t[j].type = x
    BY <1>4
  <2>2. PICK i \in DOMAIN t : i < j /\ t[i].type \in T
    BY <2>1 DEF Led
  <2> QED
    BY <1>4, <2>2
<1>6. \A k : Free(t, k) => Free(s, k)
  BY <1>4 DEF Free
<1>7. \A k : Once(t, k) => Once(s, k)
  BY <1>4 DEF Once
<1>8. \A T : Said(s, T) => Said(t, T)
  BY <1>4 DEF Said
<1> QED
  BY <1>1, <1>5, <1>6, <1>7, <1>8 DEF t

(* A message in the middle is lost.                                         *)
LEMMA DropStream ==
  ASSUME NEW S, NEW a \in Seq(S), NEW b \in Seq(S), NEW c \in Seq(S)
  PROVE  /\ \A k : Free(a \o (b \o c), k) => Free(a \o c, k)
         /\ \A k : Once(a \o (b \o c), k) => Once(a \o c, k)
<1> DEFINE t == a \o c
           bc == b \o c
           s == a \o bc
           at(i) == IF i <= Len(a) THEN i ELSE i + Len(b)
<1>1. Len(a) \in Nat /\ Len(b) \in Nat /\ Len(c) \in Nat
  OBVIOUS
<1>2. /\ t \in Seq(S) /\ Len(t) = Len(a) + Len(c)
      /\ \A i \in 1 .. Len(a) + Len(c) : t[i] = IF i <= Len(a) THEN a[i] ELSE c[i - Len(a)]
  BY ConcatProperties
<1>3. /\ bc \in Seq(S) /\ Len(bc) = Len(b) + Len(c)
      /\ \A i \in 1 .. Len(b) + Len(c) : bc[i] = IF i <= Len(b) THEN b[i] ELSE c[i - Len(b)]
  BY ConcatProperties
<1> HIDE DEF bc, t, at
<1>4. /\ s \in Seq(S) /\ Len(s) = Len(a) + Len(bc)
      /\ \A i \in 1 .. Len(a) + Len(bc) : s[i] = IF i <= Len(a) THEN a[i] ELSE bc[i - Len(a)]
  <2>1. bc \in Seq(S)
    BY <1>3
  <2> QED
    BY <2>1, ConcatProperties
<1> HIDE DEF s
<1> USE DEF at
<1>5. DOMAIN t = 1 .. Len(a) + Len(c) /\ DOMAIN s = 1 .. Len(a) + (Len(b) + Len(c))
  BY <1>2, <1>3, <1>4
<1>6. ASSUME NEW i \in DOMAIN t
      PROVE  at(i) \in DOMAIN s /\ s[at(i)] = t[i]
  <2>1. CASE i <= Len(a)
    BY SMTT(30), <2>1, <1>1, <1>2, <1>3, <1>4, <1>5
  <2>2. CASE i > Len(a)
    <3> DEFINE n == i + Len(b) - Len(a)
    <3>1. /\ i \in 1 .. Len(a) + Len(c) /\ i + Len(b) \in 1 .. Len(a) + (Len(b) + Len(c))
          /\ n \in 1 .. Len(b) + Len(c) /\ ~(n <= Len(b)) /\ n - Len(b) = i - Len(a)
          /\ ~(i + Len(b) <= Len(a)) /\ ~(i <= Len(a))
      BY <2>2, <1>1, <1>5
    <3>2. s[i + Len(b)] = bc[n]
      <4> DEFINE j == i + Len(b)
      <4>1. j \in 1 .. Len(a) + Len(bc) /\ ~(j <= Len(a)) /\ n = j - Len(a)
        BY <3>1, <1>1, <1>3
      <4> HIDE DEF j, n
      <4>2. s[j] = bc[n]
        BY <4>1, <1>4
      <4> QED
        BY <4>2 DEF j
    <3> HIDE DEF n
    <3>3. bc[n] = c[n - Len(b)]
      BY <3>1, <1>3
    <3>4. t[i] = c[i - Len(a)]
      BY <3>1, <1>1, <1>2
    <3> QED
      BY <2>2, <3>1, <3>2, <3>3, <3>4, <1>1, <1>5
  <2> QED
    BY <2>1, <2>2, <1>1, <1>5
<1>7. ASSUME NEW i \in DOMAIN t, NEW j \in DOMAIN t, at(i) = at(j)
      PROVE  i = j
  BY <1>1, <1>5, <1>7
<1>8. \A k : Free(s, k) => Free(t, k)
  <2> HIDE DEF at
  <2> QED
    BY <1>6 DEF Free
<1>9. ASSUME NEW k, Once(s, k)
      PROVE  Once(t, k)
  <2> HIDE DEF at
  <2> SUFFICES ASSUME NEW i \in DOMAIN t, NEW j \in DOMAIN t, t[i].type = k, t[j].type = k
               PROVE  i = j
    BY DEF Once
  <2>1. s[at(i)].type = k /\ s[at(j)].type = k /\ at(i) \in DOMAIN s /\ at(j) \in DOMAIN s
    BY <1>6
  <2>2. at(i) = at(j)
    BY <1>9, <2>1 DEF Once
  <2> QED
    BY <1>7, <2>2
<1> QED
  BY <1>8, <1>9 DEF s, t, bc

(* The first message is taken.                                              *)
LEMMA TailStream ==
  ASSUME NEW S, NEW r \in Seq(S), NEW m \in S, NEW s, s = << m >> \o r
  PROVE  /\ \A k : Free(s, k) <=> Free(r, k) /\ m.type # k
         /\ \A k : Once(s, k) => Once(r, k) /\ (m.type = k => Free(r, k))
         /\ \A T : Said(s, T) <=> Said(r, T) \/ m.type \in T
         /\ \A x, T : Led(s, x, T) => m.type # x /\ (m.type \notin T => Led(r, x, T))
<1> DEFINE h == << m >>
<1>1. h \in Seq(S) /\ Len(h) = 1 /\ h[1] = m
  OBVIOUS
<1> HIDE DEF h
<1>2. /\ h \o r \in Seq(S) /\ Len(h \o r) = Len(h) + Len(r)
      /\ \A i \in 1 .. Len(h) + Len(r) : (h \o r)[i] = IF i <= Len(h) THEN h[i] ELSE r[i - Len(h)]
  BY <1>1, ConcatProperties
<1>3. s = h \o r
  BY DEF h
<1>4. Len(r) \in Nat /\ DOMAIN r = 1 .. Len(r) /\ DOMAIN s = 1 .. Len(r) + 1
  BY <1>1, <1>2, <1>3
<1>5. s[1] = m /\ 1 \in DOMAIN s
  BY <1>1, <1>2, <1>3, <1>4
<1>6. ASSUME NEW j \in DOMAIN r
      PROVE  s[j + 1] = r[j] /\ j + 1 \in DOMAIN s /\ 1 < j + 1
  <2>1. j + 1 \in 1 .. Len(h) + Len(r) /\ ~(j + 1 <= Len(h)) /\ j + 1 - Len(h) = j
    BY <1>1, <1>4
  <2> QED
    BY <1>2, <1>3, <1>4, <2>1
<1>7. ASSUME NEW i \in DOMAIN s
      PROVE  i = 1 \/ (i - 1 \in DOMAIN r /\ r[i - 1] = s[i])
  <2>1. CASE i # 1
    <3>1. i - 1 \in DOMAIN r /\ i - 1 + 1 = i
      BY <1>4, <2>1
    <3> QED
      BY <1>6, <3>1
  <2> QED
    BY <2>1
<1>8. ASSUME NEW k
      PROVE  Free(s, k) <=> Free(r, k) /\ m.type # k
  <2>1. ASSUME Free(s, k), NEW j \in DOMAIN r
        PROVE  r[j].type # k
    <3>1. s[j + 1].type # k
      BY <1>6, <2>1 DEF Free
    <3> QED
      BY <1>6, <3>1
  <2>2. Free(s, k) => m.type # k
    BY <1>5 DEF Free
  <2>3. ASSUME Free(r, k), m.type # k, NEW i \in DOMAIN s
        PROVE  s[i].type # k
    BY <1>5, <1>7, <2>3 DEF Free
  <2> QED
    BY <2>1, <2>2, <2>3 DEF Free
<1>9. ASSUME NEW k, Once(s, k)
      PROVE  Once(r, k) /\ (m.type = k => Free(r, k))
  <2>1. Once(r, k)
    <3> SUFFICES ASSUME NEW i \in DOMAIN r, NEW j \in DOMAIN r, r[i].type = k, r[j].type = k
                 PROVE  i = j
      BY DEF Once
    <3>1. i + 1 = j + 1
      BY <1>6, <1>9 DEF Once
    <3> QED
      BY <1>4, <3>1
  <2>2. ASSUME m.type = k, NEW i \in DOMAIN r
        PROVE  r[i].type # k
    <3>1. i + 1 # 1 /\ i + 1 \in DOMAIN s /\ s[i + 1] = r[i]
      BY <1>4, <1>6
    <3> QED
      BY <1>5, <1>9, <2>2, <3>1 DEF Once
  <2> QED
    BY <2>1, <2>2 DEF Free
<1>10. \A T : Said(s, T) <=> Said(r, T) \/ m.type \in T
  BY <1>5, <1>6, <1>7 DEF Said
<1>11. ASSUME NEW x, NEW T, Led(s, x, T)
       PROVE  m.type # x /\ (m.type \notin T => Led(r, x, T))
  <2>1. m.type # x
    BY <1>4, <1>5, <1>11 DEF Led
  <2>2. ASSUME m.type \notin T, NEW j \in DOMAIN r, r[j].type = x
        PROVE  \E i \in DOMAIN r : i < j /\ r[i].type \in T
    <3>1. PICK i \in DOMAIN s : i < j + 1 /\ s[i].type \in T
      BY <1>6, <1>11, <2>2 DEF Led
    <3>2. i - 1 \in DOMAIN r /\ r[i - 1] = s[i]
      BY <1>5, <1>7, <2>2, <3>1
    <3> QED
      BY <1>4, <3>1, <3>2
  <2> QED
    BY <2>1, <2>2 DEF Led
<1> QED
  BY <1>8, <1>9, <1>10, <1>11

-----------------------------------------------------------------------------
(* What an end tells the other before it opens channels, and the messages   *)
(* that are counted.                                                        *)
Steps   == {"TCS", "TCSAck", "MSDAck"}
Counted == {"TCS", "TCSAck", "OLC", "Connect", "Setup"}

(* t has lost nothing of s but messages, and has no new counted one.        *)
Thin(s, t) == \A k \in Counted : (Free(s, k) => Free(t, k)) /\ (Once(s, k) => Once(t, k))

(* What comes before an OpenLogicalChannel of s comes before it in t; what  *)
(* is in s is in t.  F is the message after which nothing counts.           *)
Firm(s, t, F) == \A k \in Steps : Led(s, "OLC", {k, F}) => Led(t, "OLC", {k, F})
Held(s, t, F) == \A k \in Steps : Said(s, {k, F}) => Said(t, {k, F})

LEMMA SameStream == ASSUME NEW s, NEW F PROVE Thin(s, s) /\ Firm(s, s, F) /\ Held(s, s, F)
  BY DEF Thin, Firm, Held

LEMMA StreamTransitive ==
  ASSUME NEW s, NEW t, NEW u, NEW F
  PROVE  /\ Thin(s, t) /\ Thin(t, u) => Thin(s, u)
         /\ Firm(s, t, F) /\ Firm(t, u, F) => Firm(s, u, F)
         /\ Held(s, t, F) /\ Held(t, u, F) => Held(s, u, F)
  BY DEF Thin, Firm, Held

LEMMA QueuedKeeps ==
  ASSUME NEW S, NEW s \in Seq(S), NEW m \in S, NEW F
  PROVE  /\ m.type \notin Counted => Thin(s, Append(s, m))
         /\ m.type # "OLC" => Firm(s, Append(s, m), F)
         /\ Held(s, Append(s, m), F)
<1> DEFINE t == Append(s, m)
<1>1. /\ \A k : Free(t, k) <=> Free(s, k) /\ m.type # k
      /\ \A k : Once(s, k) /\ (m.type # k \/ Free(s, k)) => Once(t, k)
      /\ \A T : Said(t, T) <=> Said(s, T) \/ m.type \in T
      /\ \A x, T : Led(s, x, T) /\ (m.type # x \/ Said(s, T)) => Led(t, x, T)
  BY AppendStream
<1> HIDE DEF t
<1>2. m.type \notin Counted => Thin(s, t)
  BY <1>1 DEF Thin
<1>3. m.type # "OLC" => Firm(s, t, F)
  BY <1>1 DEF Firm
<1>4. Held(s, t, F)
  BY <1>1 DEF Held
<1> QED
  BY <1>2, <1>3, <1>4 DEF t

(* The queue is dropped, or replaced by one message.                        *)
LEMMA FrontKeeps ==
  ASSUME NEW S, NEW net \in Seq(S), NEW out \in Seq(S), NEW F
  PROVE  Thin(net \o out, net) /\ Firm(net \o out, net, F)
<1> DEFINE s == net \o out
<1>1. /\ \A k : Free(s, k) => Free(net, k)
      /\ \A k : Once(s, k) => Once(net, k)
      /\ \A x, T : Led(s, x, T) => Led(net, x, T)
  BY FrontStream
<1> HIDE DEF s
<1>2. Thin(s, net) /\ Firm(s, net, F)
  BY <1>1 DEF Thin, Firm
<1> QED
  BY <1>2 DEF s

LEMMA ReplacedKeeps ==
  ASSUME NEW S, NEW net \in Seq(S), NEW out \in Seq(S), NEW m \in S, NEW F,
         m.type \notin Counted
  PROVE  LET s == net \o out
             t == net \o << m >>
         IN  /\ Thin(s, t) /\ Firm(s, t, F)
             /\ m.type = F \/ (\A k \in Steps : Said(net, {k, F})) => Held(s, t, F)
             /\ \A k : Free(s, k) /\ m.type # k => Free(t, k)
             /\ \A T : Said(t, T) <=> Said(net, T) \/ m.type \in T
             /\ \A x, T : Led(s, x, T) /\ (m.type # x \/ Said(net, T)) => Led(t, x, T)
<1> DEFINE s == net \o out
           t == net \o << m >>
<1>1. t = Append(net, m)
  BY AppendIsConcat
<1>2. Thin(s, net) /\ Firm(s, net, F)
  BY FrontKeeps
<1>3. Thin(net, t) /\ Firm(net, t, F)
  BY <1>1, QueuedKeeps DEF Counted
<1>4. /\ \A k : Free(t, k) <=> Free(net, k) /\ m.type # k
      /\ \A T : Said(t, T) <=> Said(net, T) \/ m.type \in T
      /\ \A x, T : Led(net, x, T) /\ (m.type # x \/ Said(net, T)) => Led(t, x, T)
  <2> DEFINE u == Append(net, m)
  <2>1. /\ \A k : Free(u, k) <=> Free(net, k) /\ m.type # k
        /\ \A T : Said(u, T) <=> Said(net, T) \/ m.type \in T
        /\ \A x, T : Led(net, x, T) /\ (m.type # x \/ Said(net, T)) => Led(u, x, T)
    BY AppendStream
  <2>2. u = t
    BY <1>1
  <2> HIDE DEF u, t
  <2> QED
    BY <2>1, <2>2
<1>5. /\ \A k : Free(s, k) => Free(net, k)
      /\ \A x, T : Led(s, x, T) => Led(net, x, T)
  BY FrontStream
<1> HIDE DEF s, t
<1>6. Thin(s, t) /\ Firm(s, t, F)
  BY <1>2, <1>3, StreamTransitive
<1>7. m.type = F \/ (\A k \in Steps : Said(net, {k, F})) => Held(s, t, F)
  BY <1>4 DEF Held
<1> QED
  BY <1>4, <1>5, <1>6, <1>7 DEF s, t

(* The head of the queue is lost.                                           *)
LEMMA LostKeeps ==
  ASSUME NEW S, NEW net \in Seq(S), NEW out \in Seq(S), out # << >>
  PROVE  /\ Thin(net \o out, net \o Tail(out))
         /\ \A k : Free(net \o out, k) => Free(net \o Tail(out), k)
<1> DEFINE h == << Head(out) >>
           r == Tail(out)
<1>1. /\ h \in Seq(S) /\ r \in Seq(S) /\ out = h \o r
  BY HeadOfQueue
<1> HIDE DEF h, r
<1>2. /\ \A k : Free(net \o (h \o r), k) => Free(net \o r, k)
      /\ \A k : Once(net \o (h \o r), k) => Once(net \o r, k)
  BY <1>1, DropStream
<1>3. net \o out = net \o (h \o r)
  BY <1>1
<1> DEFINE s == net \o out
           t == net \o r
<1>4. /\ \A k : Free(s, k) => Free(t, k)
      /\ \A k : Once(s, k) => Once(t, k)
  BY <1>2, <1>3
<1> HIDE DEF s, t
<1>5. Thin(s, t)
  BY <1>4 DEF Thin
<1> QED
  BY <1>4, <1>5 DEF s, t, r
-----------------------------------------------------------------------------
(* Steps of one end that leave the start-up as it is                        *)

Tunnels(c) == Has(c, "TUNNELING")
Runs(c)    == c.callState < CLEAR

(* A ReleaseComplete has been built; it is written, or else next.           *)
Released(c)  == c.releaseBuilt \/ c.callState = CLEAR_RELEASESENT
Announced(c) == Released(c) => Said(c.h225Net, {"ReleaseComplete"}) \/ c.h225Sock # "open"
Announces(c) ==
  Released(c) =>
    \/ Said(c.h225Net, {"ReleaseComplete"}) \/ c.h225Sock # "open"
    \/ (c.h225Out # << >> /\ Head(c.h225Out).type = "ReleaseComplete")

(* The states of the procedures and what is set once.                       *)
SameStart(c, d) ==
  /\ d.localTermCapState = c.localTermCapState /\ d.remoteTermCapState = c.remoteTermCapState
  /\ d.remoteTermCapSeqNo = c.remoteTermCapSeqNo
  /\ d.masterSlaveState = c.masterSlaveState /\ d.epFlags = c.epFlags
  /\ d.remoteH245Port = c.remoteH245Port /\ (Tunnels(d) <=> Tunnels(c))

Still(c, d) ==
  /\ d \in Call /\ SameStart(c, d) /\ d.callState >= c.callState
  /\ d.h245Sock = c.h245Sock \/ (c.h245Sock = "open" /\ d.h245Sock = "closed")
  /\ d.h225Sock = c.h225Sock \/ (d.h225Sock # "open" /\ d.callState = CLEARED)
  /\ d.h245listener => c.h245listener
  /\ \A t \in d.timers : t.type = "H245CONNECT" => t \in c.timers

Keeps225(c, d) ==
  /\ Firm(Sent225(c), Sent225(d), "ReleaseComplete")
  /\ d.h225Sock = "open" => Held(Sent225(c), Sent225(d), "ReleaseComplete")
  /\ Led(Sent225(c), "EndSession", {"ReleaseComplete"})
       => Led(Sent225(d), "EndSession", {"ReleaseComplete"})
  /\ Announces(c) => Announces(d)

Keeps245(c, d) ==
  /\ Firm(Sent245(c), Sent245(d), "EndSession")
  /\ d.h245Sock = "open" => Held(Sent245(c), Sent245(d), "EndSession")

Lighter(c, d) ==
  /\ Thin(Sent225(c), Sent225(d)) /\ Thin(Sent245(c), Sent245(d))
  /\ Runs(d) /\ Free(Sent225(c), "EndSession") => Free(Sent225(d), "EndSession")
  /\ Free(Sent245(c), "ReleaseComplete") => Free(Sent245(d), "ReleaseComplete")

(* d is what c may become in the world w if no step of the start-up is      *)
(* taken; what is written to a socket that takes it is not lost.            *)
Ends(w, c, d) ==
  /\ Still(c, d) /\ Lighter(c, d)
  /\ w.okH225 => Keeps225(c, d)
  /\ (c.h245Sock = "open" => w.ok) => Keeps245(c, d)

Calm(w, c, d) == Ends(w, c, d) /\ (w.okH225 /\ Announced(c) => Announced(d))

LEMMA StillTransitive ==
  ASSUME NEW b \in Call, NEW c, NEW d, Still(b, c), Still(c, d)
  PROVE  Still(b, d)
<1>1. c \in Call /\ d \in Call
  BY DEF Still
<1>2. /\ b.callState \in Nat /\ c.callState \in Nat /\ d.callState \in Nat
      /\ d.callState <= CLEARED /\ CLEARED \in Nat
  BY <1>1, StateValues DEF Call
<1>3. d.callState >= b.callState /\ (c.callState = CLEARED => d.callState = CLEARED)
  BY <1>2 DEF Still
<1>4. SameStart(b, d)
  BY DEF Still, SameStart
<1> QED
  BY <1>3, <1>4 DEF Still

LEMMA EndsTransitive ==
  ASSUME NEW w, NEW b \in Call, NEW c, NEW d, Ends(w, b, c), Ends(w, c, d)
  PROVE  Ends(w, b, d)
<1>1. Still(b, c) /\ Still(c, d) /\ Still(b, d)
  BY StillTransitive DEF Ends
<1>2. c \in Call /\ d \in Call
  BY <1>1 DEF Still
<1>3. Runs(d) => Runs(c)
  <2>1. c.callState \in Nat /\ d.callState \in Nat /\ CLEAR \in Nat
    BY <1>2, StateValues DEF Call
  <2> QED
    BY <1>1, <2>1 DEF Runs, Still
<1>4. Lighter(b, d)
  BY <1>3, StreamTransitive DEF Ends, Lighter
<1>5. ASSUME w.okH225
      PROVE  Keeps225(b, d)
  <2>1. Keeps225(b, c) /\ Keeps225(c, d)
    BY <1>5 DEF Ends
  <2>2. d.h225Sock = "open" => c.h225Sock = "open"
    <3>1. \/ c.h225Sock = b.h225Sock \/ (c.h225Sock # "open" /\ c.callState = CLEARED)
      BY <1>1 DEF Still
    <3> QED
      BY <1>1 DEF Still
  <2> QED
    BY <2>1, <2>2, StreamTransitive DEF Keeps225
<1>6. ASSUME b.h245Sock = "open" => w.ok
      PROVE  Keeps245(b, d)
  <2>1. /\ c.h245Sock = "open" => b.h245Sock = "open"
        /\ d.h245Sock = "open" => c.h245Sock = "open"
    BY <1>1 DEF Still
  <2>2. Keeps245(b, c) /\ Keeps245(c, d)
    BY <1>6, <2>1 DEF Ends
  <2> QED
    BY <2>1, <2>2, StreamTransitive DEF Keeps245
<1> QED
  BY <1>1, <1>4, <1>5, <1>6 DEF Ends

LEMMA CalmTransitive ==
  ASSUME NEW w, NEW b \in Call, NEW c, NEW d, Calm(w, b, c), Calm(w, c, d)
  PROVE  Calm(w, b, d)
  BY EndsTransitive DEF Calm

LEMMA CalmType ==
  ASSUME NEW w, NEW c, NEW d, Calm(w, c, d) \/ Ends(w, c, d)
  PROVE  d \in Call
  BY DEF Calm, Ends, Still

(* The easy case: nothing is sent, and nothing counts that has changed.     *)
Near(c, d) ==
  /\ d \in Call /\ SameStart(c, d) /\ SameFlows(c, d)
  /\ d.callState >= c.callState /\ (Released(d) => Released(c))
  /\ d.h245Sock = c.h245Sock /\ d.h225Sock = c.h225Sock
  /\ d.h245listener => c.h245listener
  /\ \A t \in d.timers : t.type = "H245CONNECT" => t \in c.timers

LEMMA NearCalm ==
  ASSUME NEW w, NEW c, NEW d, Near(c, d)
  PROVE  Calm(w, c, d)
<1>1. Sent225(d) = Sent225(c) /\ Sent245(d) = Sent245(c)
  BY DEF Near, SameFlows, Sent225, Sent245
<1>2. Still(c, d)
  BY DEF Near, Still
<1>3. Lighter(c, d)
  BY <1>1, SameStream DEF Lighter
<1>4. (Announces(c) => Announces(d)) /\ (Announced(c) => Announced(d))
  BY DEF Announces, Announced, Near, SameFlows
<1>5. Keeps225(c, d) /\ Keeps245(c, d)
  BY <1>1, <1>4, SameStream DEF Keeps225, Keeps245
<1> QED
  BY <1>2, <1>3, <1>4, <1>5 DEF Calm, Ends

LEMMA NearTransitive ==
  ASSUME NEW b \in Call, NEW c, NEW d, Near(b, c), Near(c, d)
  PROVE  Near(b, d)
<1>1. b.callState \in Nat /\ c.callState \in Nat /\ d.callState \in Nat
  BY StateValues DEF Call, Near
<1> QED
  BY <1>1 DEF Near, SameStart, SameFlows

LEMMA NearReflexive ==
  ASSUME NEW c \in Call
  PROVE  Near(c, c) /\ \A w : Calm(w, c, c)
<1>1. c.callState \in Nat
  BY StateValues DEF Call
<1>2. Near(c, c)
  BY <1>1 DEF Near, SameStart, SameFlows
<1> QED
  BY <1>2, NearCalm

LEMMA MarkClearNear ==
  ASSUME NEW c \in Call
  PROVE  /\ Near(c, MarkClear(c)) /\ \A w : Calm(w, c, MarkClear(c))
         /\ ~Runs(MarkClear(c))
<1> DEFINE d == MarkClear(c)
<1>1. Routine(c, d)
  BY MarkClearRoutine
<1>2. d \in Call /\ d.callState >= c.callState
  BY <1>1 DEF Routine, Sends, Moves
<1>3. /\ d.callState = IF c.callState < CLEAR THEN CLEAR ELSE c.callState
      /\ d.releaseBuilt = c.releaseBuilt /\ SameFlows(c, d) /\ SameStart(c, d)
      /\ d.h245Sock = c.h245Sock /\ d.h225Sock = c.h225Sock
      /\ d.h245listener = c.h245listener /\ d.timers = c.timers
  BY DEF MarkClear, Call, SameFlows, SameStart, Tunnels, Has
<1> HIDE DEF d
<1>4. c.callState \in Nat /\ CLEAR \in Nat /\ CLEAR # CLEAR_RELEASESENT
  <2>1. c.callState \in Nat
    BY StateValues DEF Call
  <2> QED
    BY <2>1 DEF CLEAR, CLEAR_RELEASESENT
<1>5. Near(c, d)
  BY <1>2, <1>3, <1>4 DEF Near, Released
<1>6. ~Runs(d)
  BY <1>3, <1>4 DEF Runs
<1> QED
  BY <1>5, <1>6, NearCalm DEF d

LEMMA TimerNear ==
  ASSUME NEW c \in Call, NEW t \in TimerType, NEW n \in Nat
  PROVE  /\ t # "H245CONNECT" => Near(c, StartTimer(c, t, n))
         /\ Near(c, StopTimer(c, t, n))
<1>1. c.callState \in Nat
  BY StateValues DEF Call
<1>2. Near(c, StopTimer(c, t, n))
  <2> DEFINE d == StopTimer(c, t, n)
  <2>1. d \in Call
    BY TimerRoutine, RoutineType
  <2>2. /\ d.callState = c.callState /\ d.releaseBuilt = c.releaseBuilt
        /\ SameFlows(c, d) /\ SameStart(c, d)
        /\ d.h245Sock = c.h245Sock /\ d.h225Sock = c.h225Sock
        /\ d.h245listener = c.h245listener /\ d.timers \subseteq c.timers
    BY DEF StopTimer, Call, SameFlows, SameStart, Tunnels, Has
  <2> HIDE DEF d
  <2>3. Near(c, d)
    BY <1>1, <2>1, <2>2 DEF Near, Released
  <2> QED
    BY <2>3 DEF d
<1>3. ASSUME t # "H245CONNECT"
      PROVE  Near(c, StartTimer(c, t, n))
  <2> DEFINE d == StartTimer(c, t, n)
  <2>1. d \in Call
    BY <1>3, TimerRoutine, RoutineType
  <2>2. /\ d.callState = c.callState /\ d.releaseBuilt = c.releaseBuilt
        /\ SameFlows(c, d) /\ SameStart(c, d)
        /\ d.h245Sock = c.h245Sock /\ d.h225Sock = c.h225Sock
        /\ d.h245listener = c.h245listener /\ d.timers = c.timers \cup {TimerOf(t, n)}
    BY DEF StartTimer, Call, SameFlows, SameStart, Tunnels, Has
  <2>3. TimerOf(t, n).type = t
    BY DEF TimerOf
  <2> HIDE DEF d
  <2>4. Near(c, d)
    BY <1>1, <1>3, <2>1, <2>2, <2>3 DEF Near, Released
  <2> QED
    BY <2>4 DEF d
<1> QED
  BY <1>2, <1>3

(* Fields no property of the start-up looks at.                             *)
Apart245(c, d) ==
  /\ d.callState = c.callState /\ d.releaseBuilt = c.releaseBuilt
  /\ SameFlows(c, d) /\ SameStart(c, d)
  /\ d.h245Sock = c.h245Sock /\ d.h225Sock = c.h225Sock
  /\ d.h245listener = c.h245listener /\ d.timers = c.timers

LEMMA ApartNear ==
  ASSUME NEW c \in Call, NEW d \in Call, Apart245(c, d)
  PROVE  Near(c, d)
<1>1. c.callState \in Nat
  BY StateValues DEF Call
<1> QED
  BY <1>1 DEF Near, Apart245, Released

LEMMA FieldsNear ==
  ASSUME NEW c \in Call
  PROVE  /\ \A chans \in Seq(LogicalChan) : Near(c, [c EXCEPT !.logicalChans = chans])
         /\ \A n \in Nat : Near(c, [c EXCEPT !.nextSessionID = n])
         /\ \A n \in Nat : Near(c, [c EXCEPT !.logicalChanNoCur = n])
         /\ \A s \in SessionState : Near(c, [c EXCEPT !.h245SessionState = s])
         /\ \A n \in Nat : Near(c, [c EXCEPT !.h245ConnectionAttempts = n])
         /\ \A b \in BOOLEAN : Near(c, [c EXCEPT !.endSessionBuilt = b])
         /\ \A q \in EndReason : Near(c, [c EXCEPT !.callEndReason = q])
         /\ \A q \in FwdData : Near(c, [c EXCEPT !.pCallFwdData = q])
         /\ \A r \in Seq(FastOLC) : Near(c, [c EXCEPT !.remoteFastStartOLCs = r])
         /\ \A r \in Seq(FastOLC) : Near(c, [c EXCEPT !.pFastStartRes = r])
         /\ \A f \in SUBSET CallFlag :
              ("TUNNELING" \in f <=> Tunnels(c)) => Near(c, [c EXCEPT !.flags = f])
<1> USE DEF Apart245, SameFlows, SameStart, Tunnels, Has
<1>1. ASSUME NEW chans \in Seq(LogicalChan) PROVE Near(c, [c EXCEPT !.logicalChans = chans])
  <2> DEFINE d == [c EXCEPT !.logicalChans = chans]
  <2>1. d \in Call /\ Apart245(c, d)
    BY DEF Call
  <2> QED
    BY <2>1, ApartNear
<1>2. ASSUME NEW n \in Nat PROVE Near(c, [c EXCEPT !.nextSessionID = n])
  <2> DEFINE d == [c EXCEPT !.nextSessionID = n]
  <2>1. d \in Call /\ Apart245(c, d)
    BY DEF Call
  <2> QED
    BY <2>1, ApartNear
<1>3. ASSUME NEW n \in Nat PROVE Near(c, [c EXCEPT !.logicalChanNoCur = n])
  <2> DEFINE d == [c EXCEPT !.logicalChanNoCur = n]
  <2>1. d \in Call /\ Apart245(c, d)
    BY DEF Call
  <2> QED
    BY <2>1, ApartNear
<1>4. ASSUME NEW s \in SessionState PROVE Near(c, [c EXCEPT !.h245SessionState = s])
  <2> DEFINE d == [c EXCEPT !.h245SessionState = s]
  <2>1. d \in Call /\ Apart245(c, d)
    BY DEF Call
  <2> QED
    BY <2>1, ApartNear
<1>5. ASSUME NEW n \in Nat PROVE Near(c, [c EXCEPT !.h245ConnectionAttempts = n])
  <2> DEFINE d == [c EXCEPT !.h245ConnectionAttempts = n]
  <2>1. d \in Call /\ Apart245(c, d)
    BY DEF Call
  <2> QED
    BY <2>1, ApartNear
<1>6. ASSUME NEW b \in BOOLEAN PROVE Near(c, [c EXCEPT !.endSessionBuilt = b])
  <2> DEFINE d == [c EXCEPT !.endSessionBuilt = b]
  <2>1. d \in Call /\ Apart245(c, d)
    BY DEF Call
  <2> QED
    BY <2>1, ApartNear
<1>7. ASSUME NEW q \in EndReason PROVE Near(c, [c EXCEPT !.callEndReason = q])
  <2> DEFINE d == [c EXCEPT !.callEndReason = q]
  <2>1. d \in Call /\ Apart245(c, d)
    BY DEF Call
  <2> QED
    BY <2>1, ApartNear
<1>8. ASSUME NEW q \in FwdData PROVE Near(c, [c EXCEPT !.pCallFwdData = q])
  <2> DEFINE d == [c EXCEPT !.pCallFwdData = q]
  <2>1. d \in Call /\ Apart245(c, d)
    BY DEF Call
  <2> QED
    BY <2>1, ApartNear
<1>9. ASSUME NEW r \in Seq(FastOLC) PROVE Near(c, [c EXCEPT !.remoteFastStartOLCs = r])
  <2> DEFINE d == [c EXCEPT !.remoteFastStartOLCs = r]
  <2>1. d \in Call /\ Apart245(c, d)
    BY DEF Call
  <2> QED
    BY <2>1, ApartNear
<1>10. ASSUME NEW r \in Seq(FastOLC) PROVE Near(c, [c EXCEPT !.pFastStartRes = r])
  <2> DEFINE d == [c EXCEPT !.pFastStartRes = r]
  <2>1. d \in Call /\ Apart245(c, d)
    BY DEF Call
  <2> QED
    BY <2>1, ApartNear
<1>11. ASSUME NEW f \in SUBSET CallFlag, "TUNNELING" \in f <=> Tunnels(c)
       PROVE  Near(c, [c EXCEPT !.flags = f])
  <2> DEFINE d == [c EXCEPT !.flags = f]
  <2>1. d \in Call /\ d.flags = f
    BY DEF Call
  <2>2. /\ d.callState = c.callState /\ d.releaseBuilt = c.releaseBuilt
        /\ SameFlows(c, d) /\ SameStart(c, d)
        /\ d.h245Sock = c.h245Sock /\ d.h225Sock = c.h225Sock
        /\ d.h245listener = c.h245listener /\ d.timers = c.timers
    BY <1>11 DEF Call
  <2> QED
    BY <2>1, <2>2, ApartNear
<1> QED
  BY <1>1, <1>2, <1>3, <1>4, <1>5, <1>6, <1>7, <1>8, <1>9, <1>10, <1>11

LEMMA ChansNear ==
  ASSUME NEW c \in Call
  PROVE  /\ \A n \in Nat : Near(c, UseSession(c, n))
         /\ Near(c, NextChanNo(c))
         /\ Near(c, ClearAllChans(c))
         /\ \A n : Near(c, ClearChan(c, n))
         /\ \A i : \A st \in {"IDLE", "PROPOSED", "ESTABLISHED"} : Near(c, SetChanState(c, i, st))
         /\ \A i : Near(c, StartChan(c, i))
<1>1. ASSUME NEW n \in Nat PROVE Near(c, UseSession(c, n))
  <2>1. c.nextSessionID + 1 \in Nat
    BY DEF Call
  <2>2. UseSession(c, n) = c \/ UseSession(c, n) = [c EXCEPT !.nextSessionID = c.nextSessionID + 1]
    BY DEF UseSession
  <2> QED
    BY <2>1, <2>2, FieldsNear, NearReflexive
<1>2. Near(c, NextChanNo(c))
  <2> DEFINE n == IF c.logicalChanNoCur + 1 > ChanNoMax THEN ChanNoBase ELSE c.logicalChanNoCur + 1
  <2>1. n \in Nat
    BY ConstantsAssumption DEF Call
  <2>2. NextChanNo(c) = [c EXCEPT !.logicalChanNoCur = n]
    BY DEF NextChanNo
  <2> HIDE DEF n
  <2> QED
    BY <2>1, <2>2, FieldsNear
<1>3. ASSUME NEW d \in Call, NEW chans, d = [c EXCEPT !.logicalChans = chans]
      PROVE  Near(c, d)
  <2>1. chans \in Seq(LogicalChan)
    BY <1>3 DEF Call
  <2> QED
    BY <1>3, <2>1, FieldsNear
<1>4. Near(c, ClearAllChans(c))
  <2>1. ClearAllChans(c) \in Call
    BY ClearChanRoutine, RoutineType
  <2> QED
    BY <1>3, <2>1 DEF ClearAllChans
<1>5. ASSUME NEW n PROVE Near(c, ClearChan(c, n))
  <2>1. ClearChan(c, n) \in Call
    BY ClearChanRoutine, RoutineType
  <2> QED
    BY <1>3, <2>1, NearReflexive DEF ClearChan
<1>6. ASSUME NEW i, NEW st \in {"IDLE", "PROPOSED", "ESTABLISHED"} PROVE Near(c, SetChanState(c, i, st))
  <2>1. SetChanState(c, i, st) \in Call
    BY EntryRoutine, RoutineType
  <2> QED
    BY <1>3, <2>1 DEF SetChanState
<1>7. ASSUME NEW i PROVE Near(c, StartChan(c, i))
  <2>1. StartChan(c, i) \in Call
    BY EntryRoutine, RoutineType
  <2> QED
    BY <1>3, <2>1 DEF StartChan
<1> QED
  BY <1>1, <1>2, <1>4, <1>5, <1>6, <1>7

LEMMA AddChanNear ==
  ASSUME NEW c \in Call, NEW n \in Nat, NEW session \in Nat, NEW dir \in {"transmit", "receive"},
         NEW cap \in Cap, NEW st \in {"IDLE", "PROPOSED", "ESTABLISHED"}
  PROVE  Near(c, AddChanIn(c, n, session, dir, cap, st)) /\ Near(c, AddChan(c, n, dir, cap, st))
<1>1. ASSUME NEW x \in Call, NEW k \in Nat
      PROVE  Near(x, AddChanIn(x, n, k, dir, cap, st))
  <2> DEFINE d == AddChanIn(x, n, k, dir, cap, st)
  <2>1. d \in Call
    BY AddChanRoutine, RoutineType
  <2>2. \E chans : d = [x EXCEPT !.logicalChans = chans]
    BY DEF AddChanIn
  <2> HIDE DEF d
  <2>3. PICK chans : d = [x EXCEPT !.logicalChans = chans]
    BY <2>2
  <2>4. chans \in Seq(LogicalChan)
    BY <2>1, <2>3 DEF Call
  <2>5. Near(x, d)
    BY <2>3, <2>4, FieldsNear
  <2> QED
    BY <2>5 DEF d
<1>2. GenerateSession(c, cap, dir) \in Nat
  BY SessionType
<1> DEFINE k == GenerateSession(c, cap, dir)
           u == UseSession(c, k)
<1>3. Near(c, u) /\ u \in Call
  BY <1>2, ChansNear DEF Near
<1>4. AddChan(c, n, dir, cap, st) = AddChanIn(u, n, k, dir, cap, st)
  BY DEF AddChan
<1> HIDE DEF k, u
<1>5. Near(u, AddChan(c, n, dir, cap, st))
  BY <1>1, <1>2, <1>3, <1>4 DEF k
<1> QED
  BY <1>1, <1>3, <1>5, NearTransitive

-----------------------------------------------------------------------------
(* Sending                                                                  *)

LEMMA OutStill ==
  ASSUME NEW c \in Call, NEW q \in Seq(Message)
  PROVE  /\ LET d == [c EXCEPT !.h225Out = q]
             IN  /\ Still(c, d) /\ Sent225(d) = c.h225Net \o q /\ Sent245(d) = Sent245(c)
                 /\ d.h225Out = q /\ d.h225Net = c.h225Net /\ d.callState = c.callState
                 /\ d.releaseBuilt = c.releaseBuilt /\ d.h225Sock = c.h225Sock
                 /\ d.h245Sock = c.h245Sock
         /\ LET d == [c EXCEPT !.h245Out = q]
             IN  /\ Still(c, d) /\ Sent245(d) = c.h245Net \o q /\ Sent225(d) = Sent225(c)
                 /\ d.h245Out = q /\ d.h245Net = c.h245Net /\ d.callState = c.callState
                 /\ d.releaseBuilt = c.releaseBuilt /\ d.h225Sock = c.h225Sock
                 /\ d.h245Sock = c.h245Sock
                 /\ d.h225Out = c.h225Out /\ d.h225Net = c.h225Net
<1>1. c.callState \in Nat
  BY StateValues DEF Call
<1> DEFINE d == [c EXCEPT !.h225Out = q]
           f == [c EXCEPT !.h245Out = q]
<1>2. /\ d \in Call /\ SameStart(c, d) /\ Sent225(d) = c.h225Net \o q /\ Sent245(d) = Sent245(c)
      /\ d.h225Out = q /\ d.h225Net = c.h225Net /\ d.callState = c.callState
      /\ d.releaseBuilt = c.releaseBuilt /\ d.h225Sock = c.h225Sock
      /\ d.h245Sock = c.h245Sock /\ d.h245listener = c.h245listener /\ d.timers = c.timers
  <2>1. SameStart(c, d)
    BY DEF Call, SameStart, Tunnels, Has
  <2>2. Sent225(d) = c.h225Net \o q /\ Sent245(d) = Sent245(c)
    BY DEF Call, Sent225, Sent245
  <2>3. /\ d \in Call /\ d.h225Out = q /\ d.h225Net = c.h225Net /\ d.callState = c.callState
        /\ d.releaseBuilt = c.releaseBuilt /\ d.h225Sock = c.h225Sock
        /\ d.h245Sock = c.h245Sock /\ d.h245listener = c.h245listener /\ d.timers = c.timers
    BY DEF Call
  <2> QED
    BY <2>1, <2>2, <2>3
<1>3. /\ f \in Call /\ SameStart(c, f) /\ Sent245(f) = c.h245Net \o q /\ Sent225(f) = Sent225(c)
      /\ f.h245Out = q /\ f.h245Net = c.h245Net /\ f.callState = c.callState
      /\ f.releaseBuilt = c.releaseBuilt /\ f.h225Sock = c.h225Sock
      /\ f.h245Sock = c.h245Sock /\ f.h245listener = c.h245listener /\ f.timers = c.timers
      /\ f.h225Out = c.h225Out /\ f.h225Net = c.h225Net
  <2>1. SameStart(c, f)
    BY DEF Call, SameStart, Tunnels, Has
  <2>2. Sent245(f) = c.h245Net \o q /\ Sent225(f) = Sent225(c)
    BY DEF Call, Sent225, Sent245
  <2>3. /\ f \in Call /\ f.h245Out = q /\ f.h245Net = c.h245Net /\ f.callState = c.callState
        /\ f.releaseBuilt = c.releaseBuilt /\ f.h225Sock = c.h225Sock
        /\ f.h245Sock = c.h245Sock /\ f.h245listener = c.h245listener /\ f.timers = c.timers
        /\ f.h225Out = c.h225Out /\ f.h225Net = c.h225Net
    BY DEF Call
  <2> QED
    BY <2>1, <2>2, <2>3
<1> HIDE DEF d, f
<1>4. Still(c, d) /\ Still(c, f)
  BY <1>1, <1>2, <1>3 DEF Still
<1> QED
  BY <1>2, <1>3, <1>4 DEF d, f

LEMMA SentAppends ==
  ASSUME NEW c \in Call, NEW m \in Message
  PROVE  /\ c.h225Net \o Append(c.h225Out, m) = Append(Sent225(c), m)
         /\ c.h245Net \o Append(c.h245Out, m) = Append(Sent245(c), m)
         /\ Sent225(c) \in Seq(Message) /\ Sent245(c) \in Seq(Message)
         /\ c.h225Net \in Seq(Message) /\ c.h225Out \in Seq(Message)
         /\ c.h245Net \in Seq(Message) /\ c.h245Out \in Seq(Message)
<1> DEFINE n225 == c.h225Net
           o225 == c.h225Out
           n245 == c.h245Net
           o245 == c.h245Out
<1>1. /\ n225 \in Seq(Message) /\ o225 \in Seq(Message)
      /\ n245 \in Seq(Message) /\ o245 \in Seq(Message)
  BY DEF Call
<1>2. Sent225(c) = n225 \o o225 /\ Sent245(c) = n245 \o o245
  BY DEF Sent225, Sent245
<1> HIDE DEF n225, o225, n245, o245
<1>3. /\ n225 \o Append(o225, m) = Append(n225 \o o225, m)
      /\ n245 \o Append(o245, m) = Append(n245 \o o245, m)
  <2>1. ASSUME NEW net \in Seq(Message), NEW out \in Seq(Message)
        PROVE  net \o Append(out, m) = Append(net \o out, m)
    BY QueueAppends
  <2> QED
    BY Zenon, <1>1, <2>1
<1>4. n225 \o o225 \in Seq(Message) /\ n245 \o o245 \in Seq(Message)
  BY <1>1, ConcatProperties
<1>5. /\ n225 \o Append(o225, m) = Append(Sent225(c), m) /\ Sent225(c) \in Seq(Message)
      /\ n245 \o Append(o245, m) = Append(Sent245(c), m) /\ Sent245(c) \in Seq(Message)
  BY <1>2, <1>3, <1>4
<1> QED
  BY Zenon, <1>1, <1>5 DEF n225, o225, n245, o245

(* A message that counts for nothing is queued behind the others.           *)
LEMMA OrdinaryCalm ==
  ASSUME NEW w, NEW c \in Call, NEW m \in Message,
         m.type \notin Counted \cup {"EndSession", "ReleaseComplete"}
  PROVE  Calm(w, c, SendH225(c, m)) /\ Calm(w, c, SendH245(w, c, m))
<1>1. Calm(w, c, SendH225(c, m))
  <2> DEFINE q == Append(c.h225Out, m)
             d == [c EXCEPT !.h225Out = q]
             s == Sent225(c)
  <2>1. SendH225(c, m) = d
    BY DEF SendH225
  <2>2. q \in Seq(Message) /\ c.h225Net \in Seq(Message) /\ c.h225Out \in Seq(Message)
    BY DEF Call
  <2>3. s \in Seq(Message) /\ c.h225Net \o q = Append(s, m)
    <3>2. s \in Seq(Message)
      BY <2>2 DEF Sent225
    <3> QED
      BY <3>2, SentAppends
  <2>4. /\ Still(c, d) /\ Sent225(d) = c.h225Net \o q /\ Sent245(d) = Sent245(c)
        /\ d.h225Out = q /\ d.h225Net = c.h225Net /\ d.callState = c.callState
        /\ d.releaseBuilt = c.releaseBuilt /\ d.h225Sock = c.h225Sock
    BY <2>2, OutStill
  <2>5. c.h225Out # << >> => q # << >> /\ Head(q) = Head(c.h225Out)
    BY <2>2
  <2>6. /\ Thin(s, Append(s, m)) /\ Firm(s, Append(s, m), "ReleaseComplete")
        /\ Held(s, Append(s, m), "ReleaseComplete")
    BY <2>3, QueuedKeeps DEF Counted
  <2>7. /\ Free(s, "EndSession") => Free(Append(s, m), "EndSession")
        /\ Led(s, "EndSession", {"ReleaseComplete"})
             => Led(Append(s, m), "EndSession", {"ReleaseComplete"})
    BY <2>3, AppendStream
  <2> HIDE DEF q, d, s
  <2>8. Lighter(c, d)
    BY <2>3, <2>4, <2>6, <2>7, SameStream DEF Lighter, s
  <2>9. (Announces(c) => Announces(d)) /\ (Announced(c) => Announced(d))
    BY <2>4, <2>5 DEF Announces, Announced, Released
  <2>10. Keeps225(c, d)
    BY <2>3, <2>4, <2>6, <2>7, <2>9 DEF Keeps225, s
  <2>11. Keeps245(c, d)
    BY <2>4, SameStream DEF Keeps245
  <2> QED
    BY <2>1, <2>4, <2>8, <2>9, <2>10, <2>11 DEF Calm, Ends
<1>2. CASE Has(c, "TUNNELING")
  BY <1>1, <1>2 DEF SendH245
<1>3. CASE ~Has(c, "TUNNELING")
  <2> DEFINE q == Append(c.h245Out, m)
             d == [c EXCEPT !.h245Out = q]
             s == Sent245(c)
  <2>1. SendH245(w, c, m) = d
    BY <1>3 DEF SendH245
  <2>2. q \in Seq(Message) /\ c.h245Net \in Seq(Message) /\ c.h245Out \in Seq(Message)
    BY DEF Call
  <2>3. s \in Seq(Message) /\ c.h245Net \o q = Append(s, m)
    <3>2. s \in Seq(Message)
      BY <2>2 DEF Sent245
    <3> QED
      BY <3>2, SentAppends
  <2>4. /\ Still(c, d) /\ Sent245(d) = c.h245Net \o q /\ Sent225(d) = Sent225(c)
        /\ d.callState = c.callState /\ d.h225Out = c.h225Out /\ d.h225Net = c.h225Net
        /\ d.releaseBuilt = c.releaseBuilt /\ d.h225Sock = c.h225Sock
    BY <2>2, OutStill
  <2>6. /\ Thin(s, Append(s, m)) /\ Firm(s, Append(s, m), "EndSession")
        /\ Held(s, Append(s, m), "EndSession")
    BY <2>3, QueuedKeeps DEF Counted
  <2>7. Free(s, "ReleaseComplete") => Free(Append(s, m), "ReleaseComplete")
    BY <2>3, AppendStream
  <2> HIDE DEF q, d, s
  <2>8. Lighter(c, d)
    BY <2>3, <2>4, <2>6, <2>7, SameStream DEF Lighter, s
  <2>9. (Announces(c) => Announces(d)) /\ (Announced(c) => Announced(d))
    BY <2>4 DEF Announces, Announced, Released
  <2>10. Keeps225(c, d)
    BY <2>4, <2>9, SameStream DEF Keeps225
  <2>11. Keeps245(c, d)
    BY <2>3, <2>4, <2>6 DEF Keeps245, s
  <2> QED
    BY <1>1, <2>1, <2>4, <2>8, <2>9, <2>10, <2>11 DEF Calm, Ends
<1> QED
  BY <1>1, <1>2, <1>3

(* Only the state of the call moves on.                                     *)
LEMMA StateNear ==
  ASSUME NEW c \in Call, NEW st \in CallState, st >= c.callState,
         st # CLEAR_RELEASESENT \/ Released(c)
  PROVE  Near(c, [c EXCEPT !.callState = st])
<1> DEFINE d == [c EXCEPT !.callState = st]
<1>1. /\ d \in Call /\ d.callState = st
      /\ d.releaseBuilt = c.releaseBuilt /\ SameFlows(c, d) /\ SameStart(c, d)
      /\ d.h245Sock = c.h245Sock /\ d.h225Sock = c.h225Sock
      /\ d.h245listener = c.h245listener /\ d.timers = c.timers
  BY DEF Call, SameFlows, SameStart, Tunnels, Has
<1> HIDE DEF d
<1>2. Near(c, d)
  BY <1>1 DEF Near, Released
<1> QED
  BY <1>2 DEF d

(* As NearCalm, when the ReleaseComplete is known to have been written.     *)
LEMMA WrittenCalm ==
  ASSUME NEW w, NEW c \in Call, NEW d \in Call, SameStart(c, d), SameFlows(c, d),
         d.callState >= c.callState, d.h245Sock = c.h245Sock, d.h225Sock = c.h225Sock,
         d.h245listener => c.h245listener,
         \A t \in d.timers : t.type = "H245CONNECT" => t \in c.timers,
         Said(c.h225Net, {"ReleaseComplete"})
  PROVE  Calm(w, c, d)
<1>1. Sent225(d) = Sent225(c) /\ Sent245(d) = Sent245(c)
  BY DEF SameFlows, Sent225, Sent245
<1>2. Still(c, d)
  BY DEF Still
<1>3. Lighter(c, d)
  BY <1>1, SameStream DEF Lighter
<1>4. Announces(d) /\ Announced(d)
  BY DEF Announces, Announced, SameFlows
<1>5. Keeps225(c, d) /\ Keeps245(c, d)
  BY <1>1, <1>4, SameStream DEF Keeps225, Keeps245
<1> QED
  BY <1>2, <1>3, <1>4, <1>5 DEF Calm, Ends

LEMMA CloseH245Calm ==
  ASSUME NEW w, NEW c \in Call
  PROVE  LET d == CloseH245(c)
         IN  /\ Calm(w, c, d) /\ d.h245Sock # "open" /\ d.callState = c.callState
             /\ c.h245Sock = "open" => d.h245Sock = "closed"
             /\ d.h225Sock = c.h225Sock
<1> DEFINE d == CloseH245(c)
           net == c.h245Net
           out == c.h245Out
<1>1. /\ d.callState = c.callState /\ d.releaseBuilt = c.releaseBuilt /\ SameStart(c, d)
      /\ d.h225Out = c.h225Out /\ d.h225Net = c.h225Net
      /\ Sent225(d) = Sent225(c) /\ Sent245(d) = net \o << >>
      /\ d.h245Sock = Closed(c.h245Sock) /\ d.h225Sock = c.h225Sock
      /\ d.h245listener = c.h245listener /\ d.timers = c.timers
  BY DEF CloseH245, Call, SameStart, Tunnels, Has, Sent225, Sent245
<1>2. d \in Call
  BY CloseRoutine, RoutineType
<1>3. d.h245Sock # "open" /\ (c.h245Sock = "open" => d.h245Sock = "closed")
      /\ (d.h245Sock = c.h245Sock \/ (c.h245Sock = "open" /\ d.h245Sock = "closed"))
  BY <1>1 DEF Closed
<1>4. net \in Seq(Message) /\ out \in Seq(Message) /\ Sent245(c) = net \o out
  BY DEF Call, Sent245
<1>5. c.callState \in Nat
  BY StateValues DEF Call
<1> HIDE DEF d, net, out
<1>6. Sent245(d) = net
  BY <1>1, <1>4, ConcatEmptySeq
<1>7. /\ Thin(Sent245(c), Sent245(d)) /\ Firm(Sent245(c), Sent245(d), "EndSession")
      /\ Free(Sent245(c), "ReleaseComplete") => Free(Sent245(d), "ReleaseComplete")
  BY <1>4, <1>6, FrontKeeps, FrontStream
<1>8. Still(c, d)
  BY <1>1, <1>2, <1>3, <1>5 DEF Still
<1>9. (Announces(c) => Announces(d)) /\ (Announced(c) => Announced(d))
  BY <1>1 DEF Announces, Announced, Released
<1>10. Lighter(c, d)
  BY <1>1, <1>7, SameStream DEF Lighter
<1>11. Keeps225(c, d) /\ Keeps245(c, d)
  BY <1>1, <1>3, <1>7, <1>9, SameStream DEF Keeps225, Keeps245
<1> QED
  BY <1>1, <1>3, <1>8, <1>9, <1>10, <1>11 DEF Calm, Ends, d

LEMMA OnSendCalm ==
  ASSUME NEW w, NEW c \in Call, NEW m \in Message, c.callState # CLEARED,
         m.type = "ReleaseComplete" => Said(c.h225Net, {"ReleaseComplete"})
  PROVE  Calm(w, c, OnSendMsg(c, m))
<1> DEFINE d == OnSendMsg(c, m)
<1>0. d \in Call /\ d.callState >= c.callState
  BY OnSendMsgRoutine DEF Routine, Sends, Moves
<1>1. CASE m.type = "ReleaseComplete"
  <2>1. d = OnSendReleaseComplete(c)
    BY <1>1 DEF OnSendMsg
  <2>2. /\ SameStart(c, d) /\ SameFlows(c, d) /\ d.h245Sock = c.h245Sock
        /\ d.h225Sock = c.h225Sock /\ d.h245listener = c.h245listener
        /\ d.timers \in {c.timers, c.timers \cup {TimerOf("SESSION", 0)}}
    <3> HIDE DEF d
    <3>1. /\ SameStart(c, d) /\ SameFlows(c, d) /\ d.h245Sock = c.h245Sock
          /\ d.h225Sock = c.h225Sock /\ d.h245listener = c.h245listener
      BY <2>1 DEF OnSendReleaseComplete, StartTimer, Call, SameStart, SameFlows, Tunnels, Has
    <3>2. d.timers \in {c.timers, c.timers \cup {TimerOf("SESSION", 0)}}
      BY <2>1 DEF OnSendReleaseComplete, StartTimer, Call
    <3> QED
      BY <3>1, <3>2
  <2>3. \A t \in d.timers : t.type = "H245CONNECT" => t \in c.timers
    BY <2>2 DEF TimerOf
  <2> HIDE DEF d
  <2> QED
    BY <1>0, <1>1, <2>2, <2>3, WrittenCalm DEF d
<1>2. CASE m.type = "EndSession"
  <2>1. CASE c.h245SessionState = "ACTIVE"
    <3> DEFINE x == [c EXCEPT !.h245SessionState = "ENDSENT"]
    <3>1. Near(c, x) /\ x \in Call
      <4>1. "ENDSENT" \in SessionState
        BY DEF SessionState
      <4> QED
        BY <4>1, FieldsNear DEF Near
    <3>2. d = StartTimer(x, "SESSION", 0)
      BY <1>2, <2>1 DEF OnSendMsg, OnSendEndSession
    <3> HIDE DEF x
    <3>3. Near(x, d)
      <4>1. "SESSION" \in TimerType /\ 0 \in Nat /\ "SESSION" # "H245CONNECT"
        BY DEF TimerType
      <4> QED
        BY <3>1, <3>2, <4>1, TimerNear
    <3> QED
      BY <3>1, <3>3, NearTransitive, NearCalm
  <2>2. CASE c.h245SessionState # "ACTIVE"
    <3>1. d = CloseH245(c)
      BY <1>2, <2>2 DEF OnSendMsg, OnSendEndSession
    <3> QED
      BY <3>1, CloseH245Calm
  <2> QED
    BY <2>1, <2>2
<1>3. CASE m.type = "TCS"
  <2> DEFINE x == IF Has(c, "TUNNELING") /\ c.h245SessionState \in {"IDLE", "PAUSED"}
                  THEN [c EXCEPT !.h245SessionState = "ACTIVE"] ELSE c
  <2>1. Near(c, x) /\ x \in Call
    <3>1. "ACTIVE" \in SessionState
      BY DEF SessionState
    <3> QED
      BY <3>1, FieldsNear, NearReflexive DEF Near
  <2>2. d = StartTimer(x, "TCS", 0)
    BY <1>3 DEF OnSendMsg, OnSendTCS
  <2> HIDE DEF x
  <2>3. Near(x, d)
    <3>1. "TCS" \in TimerType /\ 0 \in Nat /\ "TCS" # "H245CONNECT"
      BY DEF TimerType
    <3> QED
      BY <2>1, <2>2, <3>1, TimerNear
  <2> QED
    BY <2>1, <2>3, NearTransitive, NearCalm
<1>4. ASSUME NEW t \in TimerType, NEW n \in Nat, t # "H245CONNECT", d = StartTimer(c, t, n)
      PROVE  Calm(w, c, d)
  BY <1>4, TimerNear, NearCalm
<1>5. CASE m.type \in {"Setup", "MSD"}
  <2>1. d = StartTimer(c, "CALLESTB", 0) \/ d = StartTimer(c, "MSD", 0)
    BY <1>5 DEF OnSendMsg
  <2>2. {"CALLESTB", "MSD"} \subseteq TimerType /\ 0 \in Nat
    BY DEF TimerType
  <2> HIDE DEF d
  <2> QED
    BY <1>4, <2>1, <2>2 DEF d
<1>6. CASE m.type \in {"OLC", "CLC", "RCC"}
  <2>1. d \in {StartTimer(c, "OLC", m.chan), StartTimer(c, "CLC", m.chan), StartTimer(c, "RCC", m.chan)}
    BY <1>6 DEF OnSendMsg
  <2>2. {"OLC", "CLC", "RCC"} \subseteq TimerType
    BY DEF TimerType
  <2>3. m.chan \in Nat
    BY <1>6, MessageFields DEF ChanMsg
  <2> HIDE DEF d
  <2> QED
    BY <1>4, <2>1, <2>2, <2>3 DEF d
<1>7. CASE m.type \notin {"ReleaseComplete", "EndSession", "TCS", "Setup", "MSD", "OLC", "CLC", "RCC"}
  <2>1. d = c
    BY <1>7 DEF OnSendMsg
  <2> QED
    BY <2>1, NearReflexive
<1> QED
  BY <1>1, <1>2, <1>3, <1>5, <1>6, <1>7

LEMMA SendMsgQ931Calm ==
  ASSUME NEW w \in World, NEW c \in Call
  PROVE  LET d == SendMsgQ931(w, c)
         IN  /\ Calm(w, c, d)
             /\ (w.okH225 /\ Announces(c) /\ c.callState # CLEARED /\ c.h225Out # << >>) => Announced(d)
<1> DEFINE d == SendMsgQ931(w, c)
           net == c.h225Net
           out == c.h225Out
<1>1. net \in Seq(Message) /\ out \in Seq(Message) /\ Sent225(c) = net \o out
  BY DEF Call, Sent225
<1>2. CASE c.callState = CLEARED \/ out = << >>
  <2>1. d = c
    BY <1>2 DEF SendMsgQ931
  <2> QED
    BY <1>2, <2>1, NearReflexive
<1>3. CASE c.callState # CLEARED /\ out # << >>
  <2> DEFINE m == Head(out)
             r == Tail(out)
             x == [c EXCEPT !.h225Out = r]
             y == [x EXCEPT !.h225Net = Append(net, m)]
  <2>1. /\ m \in Message /\ r \in Seq(Message)
    BY <1>1, <1>3, HeadOfQueue
  <2>2. d = IF w.okH225 THEN OnSendMsg(y, m) ELSE MarkClear(x)
    BY <1>3 DEF SendMsgQ931, Call
  <2> HIDE DEF m, r
  <2>3. CASE w.okH225
    <3>1. /\ y \in Call /\ SameStart(c, y) /\ Sent225(y) = Append(net, m) \o r
          /\ Sent245(y) = Sent245(c) /\ y.h225Net = Append(net, m)
          /\ y.callState = c.callState /\ y.releaseBuilt = c.releaseBuilt
          /\ y.h225Sock = c.h225Sock /\ y.h245Sock = c.h245Sock
          /\ y.h245listener = c.h245listener /\ y.timers = c.timers
      <4>1. Append(net, m) \in Seq(Message)
        BY <1>1, <2>1
      <4> QED
        BY <2>1, <4>1 DEF Call, SameStart, Tunnels, Has, Sent225, Sent245
    <3>2. Sent225(y) = Sent225(c)
      <4> HIDE DEF net, out, y
      <4> QED
        BY <1>1, <1>3, <3>1, QueueServed DEF m, r
    <3>3. Said(y.h225Net, {"ReleaseComplete"})
            <=> Said(net, {"ReleaseComplete"}) \/ m.type = "ReleaseComplete"
      BY <1>1, <2>1, <3>1, AppendStream
    <3> HIDE DEF y, x
    <3>4. Still(c, y)
      <4>1. c.callState \in Nat
        BY StateValues DEF Call
      <4> QED
        BY <3>1, <4>1 DEF Still
    <3>5. (Announces(c) => Announced(y)) /\ (Announced(c) => Announced(y))
          /\ (Announced(y) => Announces(y))
      BY <3>1, <3>3 DEF Announces, Announced, Released, m
    <3>6. Calm(w, c, y)
      BY <3>1, <3>2, <3>4, <3>5, SameStream DEF Calm, Ends, Lighter, Keeps225, Keeps245
    <3>7. Calm(w, y, OnSendMsg(y, m))
      BY <1>3, <2>1, <3>1, <3>3, OnSendCalm
    <3> QED
      BY <2>2, <2>3, <3>5, <3>6, <3>7, CalmTransitive DEF Calm
  <2>4. CASE ~w.okH225
    <3>1. /\ Still(c, x) /\ Sent225(x) = net \o r /\ Sent245(x) = Sent245(c)
      BY <2>1, OutStill
    <3>2. /\ Thin(Sent225(c), Sent225(x))
          /\ \A k : Free(Sent225(c), k) => Free(Sent225(x), k)
      <4> HIDE DEF net, out, x
      <4> QED
        BY <1>1, <1>3, <3>1, LostKeeps DEF r
    <3> HIDE DEF x
    <3>3. Calm(w, c, x)
      BY <2>4, <3>1, <3>2, SameStream DEF Calm, Ends, Lighter, Keeps245
    <3>4. Calm(w, x, MarkClear(x))
      <4>1. x \in Call
        BY <3>1 DEF Still
      <4> QED
        BY <4>1, MarkClearNear
    <3> QED
      BY <2>2, <2>4, <3>3, <3>4, CalmTransitive
  <2> QED
    BY <2>3, <2>4
<1> QED
  BY <1>2, <1>3

LEMMA SendMsgH245Calm ==
  ASSUME NEW w \in World, NEW c \in Call, Free(Sent245(c), "ReleaseComplete"),
         c.h245Sock = "open" \/ c.h245Out = << >> \/ Tail(c.h245Out) = << >>
  PROVE  Calm(w, c, SendMsgH245(w, c))
<1> DEFINE d == SendMsgH245(w, c)
           net == c.h245Net
           out == c.h245Out
<1>1. net \in Seq(Message) /\ out \in Seq(Message) /\ Sent245(c) = net \o out
  BY DEF Call, Sent245
<1>2. CASE c.callState = CLEARED \/ out = << >>
  <2>1. d = c
    BY <1>2 DEF SendMsgH245
  <2> QED
    BY <1>2, <2>1, NearReflexive
<1>3. CASE c.callState # CLEARED /\ out # << >>
  <2> DEFINE m == Head(out)
             r == Tail(out)
             x == [c EXCEPT !.h245Out = r]
             y == [x EXCEPT !.h245Net = Append(net, m)]
  <2>1. /\ m \in Message /\ r \in Seq(Message)
    BY <1>1, <1>3, HeadOfQueue
  <2>2. /\ c.h245Sock # "open" => d = x
        /\ c.h245Sock = "open" /\ w.ok => d = OnSendMsg(y, m)
        /\ c.h245Sock = "open" /\ ~w.ok => d = MarkClear(x)
    BY <1>3 DEF SendMsgH245, Call
  <2>a. m.type # "ReleaseComplete"
    <3> HIDE DEF net, out
    <3>1. out = << m >> \o r /\ << m >> \in Seq(Message)
      BY <1>1, <1>3, HeadOfQueue
    <3>2. Append(net, m) \o r = net \o out /\ Append(net, m) \in Seq(Message)
      BY <1>1, <1>3, <2>1, QueueServed
    <3> HIDE DEF m, r
    <3> DEFINE t == Append(net, m)
    <3>3. Free(t, "ReleaseComplete")
      <4>1. t \in Seq(Message) /\ Free(t \o r, "ReleaseComplete")
        BY <1>1, <3>2
      <4> HIDE DEF t
      <4> QED
        BY <2>1, <4>1, FrontStream
    <3> QED
      BY <1>1, <2>1, <3>3, AppendStream
  <2> HIDE DEF m, r
  <2>b. /\ Still(c, x) /\ Sent245(x) = net \o r /\ Sent225(x) = Sent225(c) /\ x \in Call
        /\ x.h225Out = c.h225Out /\ x.h225Net = c.h225Net /\ x.callState = c.callState
        /\ x.releaseBuilt = c.releaseBuilt /\ x.h225Sock = c.h225Sock /\ x.h245Sock = c.h245Sock
    <3>1. x \in Call
      BY <2>1 DEF Call
    <3>2. Still(c, x) /\ Sent245(x) = net \o r /\ Sent225(x) = Sent225(c)
      BY <2>1, OutStill
    <3>3. /\ x.h225Out = c.h225Out /\ x.h225Net = c.h225Net /\ x.callState = c.callState
          /\ x.releaseBuilt = c.releaseBuilt /\ x.h225Sock = c.h225Sock
          /\ x.h245Sock = c.h245Sock
      BY DEF Call
    <3> QED
      BY <3>1, <3>2, <3>3
  <2>c. /\ Thin(Sent245(c), Sent245(x))
        /\ \A k : Free(Sent245(c), k) => Free(Sent245(x), k)
    <3> HIDE DEF net, out, x
    <3> QED
      BY <1>1, <1>3, <2>b, LostKeeps DEF r
  <2>d. (Announces(c) => Announces(x)) /\ (Announced(c) => Announced(x))
    <3> HIDE DEF x
    <3> QED
      BY <2>b DEF Announces, Announced, Released
  <2>3. CASE c.h245Sock = "open" /\ w.ok
    <3>1. /\ y \in Call /\ SameStart(c, y) /\ Sent245(y) = Append(net, m) \o r
          /\ Sent225(y) = Sent225(c) /\ y.h225Net = c.h225Net /\ y.h225Out = c.h225Out
          /\ y.callState = c.callState /\ y.releaseBuilt = c.releaseBuilt
          /\ y.h225Sock = c.h225Sock /\ y.h245Sock = c.h245Sock
          /\ y.h245listener = c.h245listener /\ y.timers = c.timers
      <4>1. Append(net, m) \in Seq(Message)
        BY <1>1, <2>1
      <4> QED
        BY <2>1, <4>1 DEF Call, SameStart, Tunnels, Has, Sent225, Sent245
    <3>2. Sent245(y) = Sent245(c)
      <4> HIDE DEF net, out, y
      <4> QED
        BY <1>1, <1>3, <3>1, QueueServed DEF m, r
    <3> HIDE DEF y, x
    <3>4. Still(c, y)
      <4>1. c.callState \in Nat
        BY StateValues DEF Call
      <4> QED
        BY <3>1, <4>1 DEF Still
    <3>5. (Announces(c) => Announces(y)) /\ (Announced(c) => Announced(y))
      BY <3>1 DEF Announces, Announced, Released
    <3>6. Calm(w, c, y)
      BY <3>1, <3>2, <3>4, <3>5, SameStream DEF Calm, Ends, Lighter, Keeps225, Keeps245
    <3>7. Calm(w, y, OnSendMsg(y, m))
      BY <1>3, <2>1, <2>a, <3>1, OnSendCalm
    <3> QED
      BY <2>2, <2>3, <3>6, <3>7, CalmTransitive
  <2>4. CASE c.h245Sock # "open"
    <3>1. r = << >>
      BY <1>3, <2>4 DEF r
    <3>2. Sent245(x) = net
      BY <1>1, <2>b, <3>1, ConcatEmptySeq
    <3>3. Firm(Sent245(c), Sent245(x), "EndSession")
      <4> HIDE DEF net, out, x
      <4> QED
        BY <1>1, <3>2, FrontKeeps
    <3> HIDE DEF x, y
    <3>4. Keeps245(c, x)
      BY <2>4, <2>b, <3>3 DEF Keeps245
    <3>5. Calm(w, c, x)
      BY <2>b, <2>c, <2>d, <3>4, SameStream DEF Calm, Ends, Lighter, Keeps225
    <3> QED
      BY <2>2, <2>4, <3>5
  <2>5. CASE c.h245Sock = "open" /\ ~w.ok
    <3> HIDE DEF x, y
    <3>1. Calm(w, c, x)
      BY <2>5, <2>b, <2>c, <2>d, SameStream DEF Calm, Ends, Lighter, Keeps225
    <3>2. Calm(w, x, MarkClear(x))
      BY <2>b, MarkClearNear
    <3> QED
      BY <2>2, <2>5, <3>1, <3>2, CalmTransitive
  <2> QED
    BY <2>3, <2>4, <2>5
<1> QED
  BY <1>2, <1>3

(* The last message on an H.245 connection replaces what is queued.         *)
LEMMA EndSessionCalm ==
  ASSUME NEW w \in World, NEW c \in Call, ~Tunnels(c), Free(Sent245(c), "ReleaseComplete")
  PROVE  Calm(w, c, SendH245(w, c, Msg("EndSession")))
<1> DEFINE m == Msg("EndSession")
           x == [c EXCEPT !.h245Out = << m >>]
           net == c.h245Net
           out == c.h245Out
<1>1. m \in Message /\ m.type = "EndSession" /\ << m >> \in Seq(Message)
  BY UntrackedMessages DEF Msg, Plain
<1>2. SendH245(w, c, m) = SendMsgH245(w, x)
  BY <1>1 DEF SendH245, Tunnels
<1>3. net \in Seq(Message) /\ out \in Seq(Message) /\ Sent245(c) = net \o out
  BY DEF Call, Sent245
<1> HIDE DEF m
<1>4. /\ Still(c, x) /\ Sent245(x) = net \o << m >> /\ Sent225(x) = Sent225(c) /\ x.h245Out = << m >>
      /\ x.h225Out = c.h225Out /\ x.h225Net = c.h225Net /\ x.callState = c.callState
      /\ x.releaseBuilt = c.releaseBuilt /\ x.h225Sock = c.h225Sock
  BY <1>1, OutStill
<1> HIDE DEF x, net, out
<1>5. /\ Thin(Sent245(c), Sent245(x)) /\ Firm(Sent245(c), Sent245(x), "EndSession")
      /\ Held(Sent245(c), Sent245(x), "EndSession")
      /\ \A k : Free(Sent245(c), k) /\ m.type # k => Free(Sent245(x), k)
  <2> DEFINE s == Sent245(c)
             t == Sent245(x)
  <2>1. s = net \o out /\ t = net \o << m >> /\ m.type \notin Counted
    BY <1>1, <1>3, <1>4 DEF Counted
  <2> HIDE DEF s, t
  <2>2. /\ Thin(s, t) /\ Firm(s, t, "EndSession")
        /\ m.type = "EndSession" => Held(s, t, "EndSession")
        /\ \A k : Free(s, k) /\ m.type # k => Free(t, k)
    BY <1>1, <1>3, <2>1, ReplacedKeeps
  <2> QED
    BY <1>1, <2>2 DEF s, t
<1>6. (Announces(c) => Announces(x)) /\ (Announced(c) => Announced(x))
  BY <1>4 DEF Announces, Announced, Released
<1>7. Calm(w, c, x)
  BY <1>1, <1>4, <1>5, <1>6, SameStream DEF Calm, Ends, Lighter, Keeps225, Keeps245
<1>8. Free(Sent245(x), "ReleaseComplete") /\ x \in Call /\ Tail(x.h245Out) = << >>
  BY <1>1, <1>4, <1>5 DEF Still
<1>9. Calm(w, x, SendMsgH245(w, x))
  BY <1>8, SendMsgH245Calm
<1> QED
  BY <1>2, <1>7, <1>9, CalmTransitive DEF m

LEMMA CleanCallCalm ==
  ASSUME NEW w, NEW c \in Call, c.callState = CLEARED
  PROVE  Calm(w, c, CleanCall(c))
<1> DEFINE d == CleanCall(c)
           n225 == c.h225Net
           o225 == c.h225Out
           n245 == c.h245Net
           o245 == c.h245Out
<1>1. /\ d.callState = c.callState /\ d.releaseBuilt = c.releaseBuilt /\ SameStart(c, d)
      /\ Sent225(d) = n225 \o << >> /\ Sent245(d) = n245 \o << >>
      /\ d.h245Sock = Closed(c.h245Sock) /\ d.h225Sock = Closed(c.h225Sock)
      /\ d.h245listener = FALSE /\ d.timers = {}
  BY DEF CleanCall, CloseH225, CloseH245, ClearAllChans, Call, SameStart, Tunnels, Has, Sent225, Sent245
<1>2. d \in Call
  BY CleanCallRoutine, RoutineType
<1>3. d.h225Sock # "open" /\ d.h245Sock # "open"
      /\ (d.h245Sock = c.h245Sock \/ (c.h245Sock = "open" /\ d.h245Sock = "closed"))
  BY <1>1 DEF Closed
<1>4. /\ n225 \in Seq(Message) /\ o225 \in Seq(Message) /\ Sent225(c) = n225 \o o225
      /\ n245 \in Seq(Message) /\ o245 \in Seq(Message) /\ Sent245(c) = n245 \o o245
  BY DEF Call, Sent225, Sent245
<1>5. c.callState \in Nat
  BY StateValues DEF Call
<1> HIDE DEF d, n225, o225, n245, o245
<1>6. Sent245(d) = n245 /\ Sent225(d) = n225
  BY <1>1, <1>4, ConcatEmptySeq
<1>7. /\ Thin(Sent245(c), Sent245(d)) /\ Firm(Sent245(c), Sent245(d), "EndSession")
      /\ Free(Sent245(c), "ReleaseComplete") => Free(Sent245(d), "ReleaseComplete")
      /\ Thin(Sent225(c), Sent225(d)) /\ Firm(Sent225(c), Sent225(d), "ReleaseComplete")
  BY <1>4, <1>6, FrontKeeps, FrontStream
<1>8. /\ Free(Sent225(c), "EndSession") => Free(Sent225(d), "EndSession")
      /\ Led(Sent225(c), "EndSession", {"ReleaseComplete"})
           => Led(Sent225(d), "EndSession", {"ReleaseComplete"})
  BY <1>4, <1>6, FrontStream
<1>9. Still(c, d)
  BY <1>1, <1>2, <1>3, <1>5 DEF Still
<1>10. Announces(d) /\ Announced(d)
  BY <1>3 DEF Announces, Announced
<1>11. Lighter(c, d)
  BY <1>1, <1>7, <1>8 DEF Lighter
<1>12. Keeps225(c, d) /\ Keeps245(c, d)
  BY <1>1, <1>3, <1>7, <1>8, <1>10, SameStream DEF Keeps225, Keeps245
<1> QED
  BY <1>9, <1>10, <1>11, <1>12 DEF Calm, Ends, d

(* What clearing a call may queue instead of all else: ReleaseComplete, or  *)
(* EndSession when ReleaseComplete has been written.                        *)
LEMMA ReplacedEnds ==
  ASSUME NEW c \in Call, NEW d \in Call, NEW m \in Message, SameStart(c, d),
         d.callState = c.callState, d.h245Sock = c.h245Sock, d.h225Sock = c.h225Sock,
         d.h245listener = c.h245listener, d.timers = c.timers,
         d.h225Net = c.h225Net, d.h225Out = << m >>, Sent245(d) = Sent245(c),
         \/ m.type = "ReleaseComplete"
         \/ m.type = "EndSession" /\ ~Runs(c) /\ Said(c.h225Net, {"ReleaseComplete"})
  PROVE  Still(c, d) /\ Lighter(c, d) /\ Keeps225(c, d) /\ Keeps245(c, d)
<1> DEFINE net == c.h225Net
           out == c.h225Out
           s == Sent225(c)
           t == Sent225(d)
<1>1. /\ net \in Seq(Message) /\ out \in Seq(Message) /\ s = net \o out
      /\ t = net \o << m >>
  BY DEF Call, Sent225
<1>2. c.callState \in Nat
  BY StateValues DEF Call
<1>3. Still(c, d)
  BY <1>2 DEF Still
<1> HIDE DEF net, out, s, t
<1>4. m.type \notin Counted
  BY DEF Counted
<1>5. /\ Thin(s, t) /\ Firm(s, t, "ReleaseComplete")
      /\ m.type = "ReleaseComplete" \/ (\A k \in Steps : Said(net, {k, "ReleaseComplete"}))
           => Held(s, t, "ReleaseComplete")
      /\ \A k : Free(s, k) /\ m.type # k => Free(t, k)
      /\ \A T : Said(t, T) <=> Said(net, T) \/ m.type \in T
      /\ \A x, T : Led(s, x, T) /\ (m.type # x \/ Said(net, T)) => Led(t, x, T)
  BY <1>1, <1>4, ReplacedKeeps
<1>6. m.type = "ReleaseComplete" \/ Said(net, {"ReleaseComplete"})
  BY DEF net
<1>7. \A k \in Steps : Said(net, {"ReleaseComplete"}) => Said(net, {k, "ReleaseComplete"})
  BY DEF Said
<1>8. Held(s, t, "ReleaseComplete")
  BY <1>5, <1>6, <1>7
<1>9. /\ Led(s, "EndSession", {"ReleaseComplete"}) => Led(t, "EndSession", {"ReleaseComplete"})
      /\ Runs(d) /\ Free(s, "EndSession") => Free(t, "EndSession")
  BY <1>5 DEF Runs, net
<1>10. Announces(d)
  BY <1>6 DEF Announces, net
<1> QED
  BY <1>3, <1>5, <1>8, <1>9, <1>10, SameStream DEF Lighter, Keeps225, Keeps245, s, t

(* ooEndCall on a call that is being cleared.                               *)
LEMMA EndCallEnds ==
  ASSUME NEW w \in World, NEW c \in Call, ~Runs(c), c.callState # CLEARED => c.h225Sock = "open",
         Free(Sent245(c), "ReleaseComplete")
  PROVE  LET d == EndCall(w, c)
         IN  /\ Still(c, d) /\ Lighter(c, d)
             /\ w.okH225 /\ Announced(c) => Keeps225(c, d)
             /\ (c.h245Sock = "open" => w.ok) => Keeps245(c, d)
<1> DEFINE d == EndCall(w, c)
           c1 == ClearAllChans(c)
           ends == ~c1.endSessionBuilt /\ c1.h245SessionState \in {"ACTIVE", "ENDRECVD"}
           c2 == IF ends THEN [SendH245(w, c1, Msg("EndSession")) EXCEPT !.endSessionBuilt = TRUE]
                 ELSE c1
<1>1. CASE c.callState = CLEARED
  <2>1. d = CleanCall(c)
    BY <1>1 DEF EndCall
  <2> HIDE DEF d
  <2>2. Calm(w, c, d)
    BY <1>1, <2>1, CleanCallCalm
  <2> QED
    BY <2>2 DEF Calm, Ends, d
<1>2. CASE c.callState # CLEARED
  <2>1. d = IF c2.h225Sock # "open" THEN [c2 EXCEPT !.callState = CLEARED]
            ELSE IF ~c2.releaseBuilt /\ c2.callState \in {CLEAR, CLEAR_RELEASERECVD}
            THEN [SendH225(c2, Msg("ReleaseComplete")) EXCEPT !.releaseBuilt = TRUE]
            ELSE c2
    BY <1>2 DEF EndCall
  <2>2. /\ Near(c, c1) /\ c1 \in Call /\ c1.h225Sock = c.h225Sock /\ c1.callState = c.callState
        /\ c1.releaseBuilt = c.releaseBuilt /\ SameFlows(c, c1)
        /\ c1.h245listener = c.h245listener /\ c1.timers = c.timers
    <3>1. Near(c, c1)
      BY ChansNear
    <3>2. /\ c1.h225Sock = c.h225Sock /\ c1.callState = c.callState
          /\ c1.releaseBuilt = c.releaseBuilt
          /\ c1.h245listener = c.h245listener /\ c1.timers = c.timers
      BY DEF ClearAllChans, Call
    <3> HIDE DEF c1
    <3> QED
      BY <3>1, <3>2 DEF Near
  <2>3. /\ Msg("ReleaseComplete") \in Message /\ Msg("ReleaseComplete").type = "ReleaseComplete"
        /\ Msg("EndSession") \in Message /\ Msg("EndSession").type = "EndSession"
    BY UntrackedMessages DEF Msg, Plain
  <2> DEFINE rc == Msg("ReleaseComplete")
             es == Msg("EndSession")
  <2>4. /\ SendH225(c2, rc) = [c2 EXCEPT !.h225Out = << rc >>]
        /\ SendH225(c1, es) = [c1 EXCEPT !.h225Out = << es >>]
    BY <2>3 DEF SendH225
  <2> HIDE DEF d, c1, rc, es
  <2>5. CASE ~ends \/ ~Tunnels(c)
    <3>1. Calm(w, c, c2)
      <4>1. CASE ~ends
        BY <4>1, <2>2, NearCalm
      <4>2. CASE ends /\ ~Tunnels(c)
        <5> DEFINE x == SendH245(w, c1, es)
        <5>1. ~Tunnels(c1) /\ Free(Sent245(c1), "ReleaseComplete")
          BY <2>2, <4>2 DEF Near, SameStart, SameFlows, Sent245
        <5>2. Calm(w, c1, x) /\ x \in Call
          BY <2>2, <5>1, EndSessionCalm, CalmType DEF es
        <5> HIDE DEF x
        <5>3. Calm(w, x, [x EXCEPT !.endSessionBuilt = TRUE])
          BY <5>2, FieldsNear, NearCalm
        <5>4. c2 = [x EXCEPT !.endSessionBuilt = TRUE]
          BY <4>2 DEF x, es
        <5> HIDE DEF c2
        <5>5. Calm(w, c, c1)
          BY <2>2, NearCalm
        <5>6. Calm(w, c1, c2)
          BY <2>2, <5>2, <5>3, <5>4, CalmTransitive
        <5> QED
          BY <5>5, <5>6, CalmTransitive
      <4> QED
        BY <2>5, <4>1, <4>2
    <3> HIDE DEF c2
    <3>2. c2 \in Call
      BY <3>1, CalmType
    <3>3. Still(c2, d) /\ Lighter(c2, d) /\ Keeps225(c2, d) /\ Keeps245(c2, d)
      <4>1. CASE c2.h225Sock # "open"
        <5>1. d = [c2 EXCEPT !.callState = CLEARED]
          BY <2>1, <4>1
        <5>2. CLEARED \in CallState /\ CLEARED >= c2.callState /\ CLEARED # CLEAR_RELEASESENT
          <6>1. c2.callState \in CallState
            BY <3>2 DEF Call
          <6>2. CLEARED \in CallState /\ CLEARED >= c2.callState
            BY <6>1, StateValues DEF CallState, CREATED, CLEARED
          <6> QED
            BY <6>2 DEF CLEARED, CLEAR_RELEASESENT
        <5>3. Near(c2, d)
          BY <3>2, <5>1, <5>2, StateNear
        <5>4. \A v : Calm(v, c2, d)
          BY <5>3, NearCalm
        <5> DEFINE v == [ok |-> TRUE, okH225 |-> TRUE]
        <5>5. Calm(v, c2, d) /\ v.ok /\ v.okH225
          BY <5>4
        <5> HIDE DEF v
        <5> QED
          BY <5>5 DEF Calm, Ends
      <4>2. CASE c2.h225Sock = "open" /\ ~c2.releaseBuilt /\ c2.callState \in {CLEAR, CLEAR_RELEASERECVD}
        <5>1. d = [c2 EXCEPT !.h225Out = << rc >>, !.releaseBuilt = TRUE]
          BY <2>1, <2>4, <3>2, <4>2 DEF Call, rc
        <5>2. << rc >> \in Seq(Message)
          BY <2>3 DEF rc
        <5>3. /\ d \in Call /\ SameStart(c2, d) /\ d.callState = c2.callState
              /\ d.h245Sock = c2.h245Sock /\ d.h225Sock = c2.h225Sock
              /\ d.h245listener = c2.h245listener /\ d.timers = c2.timers
              /\ d.h225Net = c2.h225Net /\ d.h225Out = << rc >> /\ Sent245(d) = Sent245(c2)
          <6>1. /\ d \in Call /\ d.callState = c2.callState
                /\ d.h245Sock = c2.h245Sock /\ d.h225Sock = c2.h225Sock
                /\ d.h245listener = c2.h245listener /\ d.timers = c2.timers
            BY ZenonT(40), <3>2, <5>1, <5>2 DEF Call
          <6>2. /\ d.h225Net = c2.h225Net /\ d.h225Out = << rc >> /\ Sent245(d) = Sent245(c2)
            BY <3>2, <5>1 DEF Call, Sent245
          <6>3. SameStart(c2, d)
            BY <3>2, <5>1 DEF Call, SameStart, Tunnels, Has
          <6> QED
            BY <6>1, <6>2, <6>3
        <5> QED
          BY <2>3, <3>2, <5>3, ReplacedEnds DEF rc
      <4>3. CASE d = c2
        <5>1. Near(c2, d)
          BY <3>2, <4>3, NearReflexive
        <5>4. \A v : Calm(v, c2, d)
          BY <5>1, NearCalm
        <5> DEFINE v == [ok |-> TRUE, okH225 |-> TRUE]
        <5>5. Calm(v, c2, d) /\ v.ok /\ v.okH225
          BY <5>4
        <5> HIDE DEF v
        <5> QED
          BY <5>5 DEF Calm, Ends
      <4> QED
        BY <2>1, <4>1, <4>2, <4>3
    <3>4. Ends(w, c, c2) /\ Ends(w, c2, d)
      BY <3>1, <3>3 DEF Calm, Ends
    <3>5. Ends(w, c, d)
      BY <3>4, EndsTransitive
    <3> QED
      BY <3>5 DEF Ends, d
  <2>6. CASE ends /\ Tunnels(c)
    <3>1. c2 = [c1 EXCEPT !.h225Out = << es >>, !.endSessionBuilt = TRUE]
      <4>1. Has(c1, "TUNNELING")
        BY <2>2, <2>6 DEF Near, SameStart, Tunnels
      <4>2. SendH245(w, c1, es) = SendH225(c1, es)
        BY <4>1 DEF SendH245
      <4> QED
        BY <2>2, <2>4, <2>6, <4>2 DEF Call, es
    <3>2. /\ << es >> \in Seq(Message) /\ << rc >> \in Seq(Message)
      BY <2>3 DEF rc, es
    <3> HIDE DEF c2
    <3>3. /\ c2 \in Call /\ SameStart(c1, c2) /\ c2.callState = c1.callState
          /\ c2.h245Sock = c1.h245Sock /\ c2.h225Sock = c1.h225Sock
          /\ c2.h245listener = c1.h245listener /\ c2.timers = c1.timers
          /\ c2.h225Net = c1.h225Net /\ c2.h225Out = << es >> /\ Sent245(c2) = Sent245(c1)
          /\ c2.releaseBuilt = c1.releaseBuilt
      <4>1. /\ c2 \in Call /\ c2.callState = c1.callState
            /\ c2.h245Sock = c1.h245Sock /\ c2.h225Sock = c1.h225Sock
            /\ c2.h245listener = c1.h245listener /\ c2.timers = c1.timers
        BY ZenonT(40), <2>2, <3>1, <3>2 DEF Call
      <4>2. /\ c2.h225Net = c1.h225Net /\ c2.h225Out = << es >> /\ Sent245(c2) = Sent245(c1)
            /\ c2.releaseBuilt = c1.releaseBuilt
        BY <2>2, <3>1 DEF Call, Sent245
      <4>3. SameStart(c1, c2)
        BY <2>2, <3>1 DEF Call, SameStart, Tunnels, Has
      <4> QED
        BY <4>1, <4>2, <4>3
    <3>4. c2.h225Sock = "open"
      BY <1>2, <2>2, <3>3
    <3>5. CASE ~c2.releaseBuilt /\ c2.callState \in {CLEAR, CLEAR_RELEASERECVD}
      <4>1. d = [c2 EXCEPT !.h225Out = << rc >>, !.releaseBuilt = TRUE]
        BY <2>1, <2>4, <3>3, <3>4, <3>5 DEF Call, rc
      <4>2. /\ d \in Call /\ SameStart(c2, d) /\ d.callState = c2.callState
            /\ d.h245Sock = c2.h245Sock /\ d.h225Sock = c2.h225Sock
            /\ d.h245listener = c2.h245listener /\ d.timers = c2.timers
            /\ d.h225Net = c2.h225Net /\ d.h225Out = << rc >> /\ Sent245(d) = Sent245(c2)
        <5>1. /\ d \in Call /\ d.callState = c2.callState
              /\ d.h245Sock = c2.h245Sock /\ d.h225Sock = c2.h225Sock
              /\ d.h245listener = c2.h245listener /\ d.timers = c2.timers
          BY ZenonT(40), <3>2, <3>3, <4>1 DEF Call
        <5>2. /\ d.h225Net = c2.h225Net /\ d.h225Out = << rc >> /\ Sent245(d) = Sent245(c2)
          BY <3>3, <4>1 DEF Call, Sent245
        <5>3. SameStart(c2, d)
          BY <3>3, <4>1 DEF Call, SameStart, Tunnels, Has
        <5> QED
          BY <5>1, <5>2, <5>3
      <4>3. SameStart(c, d)
        BY <2>2, <3>3, <4>2 DEF Near, SameStart
      <4>4. Sent245(c1) = Sent245(c)
        BY <2>2 DEF SameFlows, Sent245
      <4>5. Still(c, d) /\ Lighter(c, d) /\ Keeps225(c, d) /\ Keeps245(c, d)
        BY <2>2, <2>3, <3>3, <4>2, <4>3, <4>4, ReplacedEnds DEF rc, SameFlows, Near
      <4> QED
        BY <4>5 DEF d
    <3>6. CASE ~(~c2.releaseBuilt /\ c2.callState \in {CLEAR, CLEAR_RELEASERECVD})
      <4>1. d = c2
        BY <2>1, <3>4, <3>6
      <4>2. Released(c)
        <5>1. c.callState \in CLEAR .. CLEARED
          <6>1. c.callState \in CallState /\ ~(c.callState < CLEAR)
            BY DEF Runs, Call
          <6> QED
            BY <6>1 DEF CallState, CLEAR, CLEARED, CREATED
        <5>2. c.callState \in {CLEAR, CLEAR_RELEASERECVD, CLEAR_RELEASESENT, CLEARED}
          BY <5>1 DEF CLEAR, CLEARED, CLEAR_RELEASERECVD, CLEAR_RELEASESENT
        <5> QED
          BY <1>2, <2>2, <3>3, <3>6, <5>2 DEF Released
      <4>3. Announced(c) => Said(c.h225Net, {"ReleaseComplete"})
        BY <1>2, <4>2 DEF Announced
      <4>4. SameStart(c, d)
        BY <2>2, <3>3, <4>1 DEF Near, SameStart
      <4>5. Sent245(c1) = Sent245(c)
        BY <2>2 DEF SameFlows, Sent245
      <4>6. CASE Announced(c)
        <5>1. Still(c, d) /\ Lighter(c, d) /\ Keeps225(c, d) /\ Keeps245(c, d)
          BY <2>2, <2>3, <3>3, <4>1, <4>3, <4>4, <4>5, <4>6, ReplacedEnds DEF es, SameFlows, Near
        <5> QED
          BY <5>1 DEF d
      <4>7. CASE ~Announced(c)
        <5>1. Still(c, d)
          <6>1. c.callState \in Nat
            BY StateValues DEF Call
          <6> QED
            BY <2>2, <3>3, <4>1, <4>4, <6>1 DEF Still, Near
        <5>2. Thin(Sent225(c), Sent225(d))
          <6> DEFINE net == c.h225Net
                     out == c.h225Out
          <6>1. net \in Seq(Message) /\ out \in Seq(Message) /\ Sent225(c) = net \o out
            BY DEF Call, Sent225
          <6>2. Sent225(d) = net \o << es >>
            BY <2>2, <3>3, <4>1 DEF Sent225, SameFlows
          <6> HIDE DEF net, out
          <6>3. es.type \notin Counted /\ es \in Message
            BY <2>3 DEF Counted, es
          <6> DEFINE s == Sent225(c)
                     t == Sent225(d)
          <6>4. s = net \o out /\ t = net \o << es >>
            BY <6>1, <6>2
          <6> HIDE DEF s, t
          <6>5. Thin(s, t)
            BY <6>1, <6>3, <6>4, ReplacedKeeps
          <6> QED
            BY <6>5 DEF s, t
        <5>3. Sent245(d) = Sent245(c)
          BY <3>3, <4>1, <4>5
        <5>4. ~Runs(d)
          BY <2>2, <3>3, <4>1 DEF Runs
        <5>5. Lighter(c, d) /\ Keeps245(c, d)
          BY <2>2, <3>3, <4>1, <5>2, <5>3, <5>4, SameStream DEF Lighter, Keeps245, Near
        <5> QED
          BY <4>7, <5>1, <5>5 DEF d
      <4> QED
        BY <4>6, <4>7
    <3> QED
      BY <3>5, <3>6
  <2> QED
    BY <2>5, <2>6
<1> QED
  BY <1>1, <1>2

LEMMA NearType ==
  ASSUME NEW c, NEW d, Near(c, d)
  PROVE  d \in Call
  BY DEF Near

AnswerNear(e, c, so) ==
  /\ so = [call |-> so.call, fast |-> so.fast]
  /\ Near(c, so.call) /\ so.fast \in Seq(FastOLC)
NearAnswering            == INSTANCE FoldLemmas WITH Step <- AnswerElement, Kept <- AnswerNear

LEMMA AnswerElementNear ==
  ASSUME NEW e \in Endpoint, NEW c \in Call, NEW so, NEW olc \in FastOLC, AnswerNear(e, c, so)
  PROVE  AnswerNear(e, c, AnswerElement(e, so, olc))
<1> DEFINE a   == so.call
           dir == IF olc.dir = "forward" THEN "receive" ELSE "transmit"
           n   == IF dir = "receive" THEN olc.chan ELSE a.logicalChanNoCur
           c1  == IF dir = "receive" THEN a ELSE NextChanNo(a)
           c2  == AddChan(c1, n, dir, olc.cap, "ESTABLISHED")
           i   == FindChan(c2.logicalChans, n)
           x   == [olc EXCEPT !.chan = n]
<1>1. a \in Call /\ Near(c, a)
  BY NearType DEF AnswerNear
<1>2. n \in Nat /\ dir \in {"transmit", "receive"} /\ olc.cap \in Cap
  BY <1>1 DEF Call, FastOLC
<1>3. AnswerElement(e, so, olc)
        \in {so, [call |-> StartChan(c2, i), fast |-> Append(so.fast, x)]}
  BY DEF AnswerElement
<1>4. x \in FastOLC
  BY <1>2 DEF FastOLC
<1> HIDE DEF a, n, dir, x
<1>5. Near(a, c1)
  BY <1>1, ChansNear, NearReflexive
<1>6. c1 \in Call
  BY <1>5, NearType
<1> HIDE DEF c1
<1>7. Near(c1, c2)
  BY <1>2, <1>6, AddChanNear
<1>8. c2 \in Call
  BY <1>7, NearType
<1> HIDE DEF c2, i
<1>9. Near(c2, StartChan(c2, i))
  BY <1>8, ChansNear
<1>10. Near(c, StartChan(c2, i))
  BY <1>1, <1>5, <1>6, <1>7, <1>8, <1>9, NearTransitive
<1>11. Append(so.fast, x) \in Seq(FastOLC)
  BY <1>4, AppendProperties DEF AnswerNear
<1> QED
  BY <1>3, <1>10, <1>11 DEF AnswerNear

LEMMA FastStartResponseNear ==
  ASSUME NEW e \in Endpoint, NEW c \in Call, NEW t
  PROVE  LET so == FastStartResponse(e, c, t)
         IN  Near(c, so.call) /\ so.fast \in Seq(FastOLC)
<1>0. /\ c.pFastStartRes \in Seq(FastOLC) /\ c.remoteFastStartOLCs \in Seq(FastOLC)
      /\ << >> \in Seq(FastOLC) /\ c.flags \in SUBSET CallFlag
      /\ ("TUNNELING" \in c.flags <=> Tunnels(c))
  BY DEF Call, Has, Tunnels
<1>1. CASE c.pFastStartRes # << >>
  <2>1. Near(c, [c EXCEPT !.pFastStartRes = << >>]) /\ Near(c, c)
    BY <1>0, FieldsNear, NearReflexive
  <2>2. FastStartResponse(e, c, t) =
          [call |-> IF t = "Connect" THEN [c EXCEPT !.pFastStartRes = << >>] ELSE c,
           fast |-> c.pFastStartRes]
    BY <1>1 DEF FastStartResponse
  <2> QED
    BY <1>0, <2>1, <2>2
<1>2. CASE c.pFastStartRes = << >> /\ "FASTSTART" \in c.epFlags /\ c.remoteFastStartOLCs # << >>
  <2> DEFINE olcs == c.remoteFastStartOLCs
             base == [call |-> c, fast |-> << >>]
             so == FoldLeft(LAMBDA x, olc : AnswerElement(e, x, olc), base, olcs)
  <2>1. so = NearAnswering!Fold(e, base, olcs)
    BY Zenon DEF NearAnswering!Fold, NearAnswering!MapThenFoldSet, NearAnswering!Max,
       FoldLeft, MapThenFoldSet, Max
  <2>2. AnswerNear(e, c, base)
    BY <1>0, NearReflexive DEF AnswerNear
  <2>3. \A x : \A y \in FastOLC : AnswerNear(e, c, x) => AnswerNear(e, c, AnswerElement(e, x, y))
    BY AnswerElementNear
  <2>4. FastStartResponse(e, c, t) =
          IF so.fast # << >> THEN [so EXCEPT !.call.pFastStartRes = so.fast]
          ELSE [so EXCEPT !.call.flags = @ \ {"FASTSTART"}]
    BY <1>2, Zenon DEF FastStartResponse
  <2> HIDE DEF so, base, olcs
  <2>5. AnswerNear(e, c, so)
    <3>1. olcs \in Seq(FastOLC)
      BY <1>0 DEF olcs
    <3> QED
      BY <2>1, <2>2, <2>3, <3>1, NearAnswering!FoldKeeps
  <2> DEFINE a == so.call
             f == so.fast
             a1 == [a EXCEPT !.pFastStartRes = f]
             a2 == [a EXCEPT !.flags = @ \ {"FASTSTART"}]
  <2>6. so = [call |-> a, fast |-> f] /\ Near(c, a) /\ f \in Seq(FastOLC)
    BY <2>5 DEF AnswerNear
  <2>7. a \in Call
    BY <2>6, NearType
  <2> HIDE DEF a, f
  <2>8. FastStartResponse(e, c, t) \in {[call |-> a1, fast |-> f], [call |-> a2, fast |-> f]}
    BY <2>4, <2>6
  <2>9. /\ a.flags \ {"FASTSTART"} \in SUBSET CallFlag
        /\ ("TUNNELING" \in a.flags \ {"FASTSTART"} <=> Tunnels(a))
    BY <2>7 DEF Call, Has, Tunnels
  <2>10. Near(a, a1) /\ Near(a, a2)
    BY <2>6, <2>7, <2>9, FieldsNear
  <2>11. Near(c, a1) /\ Near(c, a2)
    BY <2>6, <2>10, NearTransitive
  <2> HIDE DEF a1, a2
  <2> QED
    BY <2>6, <2>8, <2>11
<1>3. CASE c.pFastStartRes = << >> /\ ~("FASTSTART" \in c.epFlags /\ c.remoteFastStartOLCs # << >>)
  <2>1. FastStartResponse(e, c, t) = [call |-> c, fast |-> << >>]
    BY <1>3 DEF FastStartResponse
  <2> QED
    BY <1>0, <2>1, NearReflexive
<1> QED
  BY <1>1, <1>2, <1>3
EstablishNear(ch, c, d) == Near(c, d)
NearEstablishing            == INSTANCE FoldLemmas WITH Step <- ClearOther, Kept <- EstablishNear

LEMMA EstablishedNear ==
  ASSUME NEW c \in Call, NEW i
  PROVE  Near(c, Established(c, i))
<1> DEFINE ch   == c.logicalChans[i]
           base == SetChanState(c, i, "ESTABLISHED")
           seq  == c.logicalChans
<1>1. EstablishNear(ch, c, base) /\ seq \in Seq(LogicalChan)
  BY ChansNear DEF EstablishNear, Call
<1>2. ASSUME NEW x, NEW o \in LogicalChan, EstablishNear(ch, c, x)
      PROVE  EstablishNear(ch, c, ClearOther(ch, x, o))
  <2>1. x \in Call /\ Near(c, x)
    BY <1>2, NearType DEF EstablishNear
  <2>2. ClearOther(ch, x, o) \in {x, ClearChan(x, o.channelNo)}
    BY DEF ClearOther
  <2>3. Near(c, ClearChan(x, o.channelNo))
    BY <2>1, ChansNear, NearTransitive
  <2> QED
    BY <2>1, <2>2, <2>3 DEF EstablishNear
<1>3. Established(c, i) = NearEstablishing!Fold(ch, base, seq)
  BY Zenon DEF Established, NearEstablishing!Fold, NearEstablishing!MapThenFoldSet,
     NearEstablishing!Max, FoldLeft, MapThenFoldSet, Max
<1> HIDE DEF ch, base, seq
<1>4. EstablishNear(ch, c, NearEstablishing!Fold(ch, base, seq))
  BY <1>1, <1>2, NearEstablishing!FoldKeeps
<1> QED
  BY <1>3, <1>4 DEF EstablishNear

TakeNearStep(k, so, olc) == TakeElement(so, olc)
TakeNear(k, c, so) ==
  /\ so = [call |-> so.call, ok |-> so.ok]
  /\ Near(c, so.call) /\ so.ok \in BOOLEAN
NearTaking == INSTANCE FoldLemmas WITH Step <- TakeNearStep, Kept <- TakeNear

LEMMA NumberedNear ==
  ASSUME NEW c \in Call, NEW i, NEW n \in Nat
  PROVE  Near(c, [c EXCEPT !.logicalChans[i].channelNo = n])
<1> DEFINE s == c.logicalChans
           a == [s[i] EXCEPT !.channelNo = n]
<1>1. s \in Seq(LogicalChan)
  BY DEF Call
<1>2. i \in 1 .. Len(s) => s[i] \in LogicalChan
  BY <1>1
<1>3. i \in 1 .. Len(s) => a \in LogicalChan
  BY <1>2 DEF LogicalChan
<1>4. [s EXCEPT ![i] = a] \in Seq(LogicalChan)
  <2> HIDE DEF a, s
  <2> QED
    BY <1>1, <1>3, EntryChanged
<1>5. Near(c, [c EXCEPT !.logicalChans = [s EXCEPT ![i] = a]])
  BY <1>4, FieldsNear
<1>6. [c EXCEPT !.logicalChans[i].channelNo = n] = [c EXCEPT !.logicalChans = [s EXCEPT ![i] = a]]
  BY Zenon
<1> QED
  BY <1>5, <1>6

LEMMA TakeElementNear ==
  ASSUME NEW c \in Call, NEW so, NEW olc \in FastOLC, TakeNear(0, c, so)
  PROVE  TakeNear(0, c, TakeElement(so, olc))
<1> DEFINE a == so.call
           s == Append(a.remoteFastStartOLCs, olc)
           b == [a EXCEPT !.remoteFastStartOLCs = s]
           i == FindByOLC(a, olc)
           n == olc.chan
           d == [b EXCEPT !.logicalChans[i].channelNo = n]
           f == IF olc.dir = "forward" THEN StartChan(d, i) ELSE d
<1>1. a \in Call /\ Near(c, a) /\ n \in Nat
  BY NearType DEF TakeNear, FastOLC
<1>2. s \in Seq(FastOLC)
  BY <1>1, AppendProperties DEF Call
<1>3. TakeElement(so, olc)
        \in {so, [call |-> b, ok |-> FALSE], [call |-> Established(f, i), ok |-> TRUE]}
  BY DEF TakeElement
<1> HIDE DEF a, s, i, n
<1>4. Near(a, b)
  BY <1>1, <1>2, FieldsNear DEF Has, Call, Tunnels
<1>5. b \in Call /\ Near(c, b)
  BY <1>1, <1>4, NearType, NearTransitive
<1> HIDE DEF b
<1>6. Near(b, d)
  BY <1>1, <1>5, NumberedNear
<1>7. d \in Call
  BY <1>6, NearType
<1> HIDE DEF d
<1>8. Near(d, f)
  BY <1>7, ChansNear, NearReflexive
<1>9. f \in Call
  BY <1>8, NearType
<1> HIDE DEF f
<1>10. Near(c, Established(f, i))
  BY <1>5, <1>6, <1>7, <1>8, <1>9, EstablishedNear, NearTransitive
<1> DEFINE r == Established(f, i)
<1> HIDE DEF r
<1>11. Near(c, r) /\ TakeElement(so, olc) \in {so, [call |-> b, ok |-> FALSE], [call |-> r, ok |-> TRUE]}
  BY <1>3, <1>10 DEF r
<1>12. TakeNear(0, c, [call |-> b, ok |-> FALSE]) /\ TakeNear(0, c, [call |-> r, ok |-> TRUE])
  BY <1>5, <1>11 DEF TakeNear
<1> QED
  BY <1>11, <1>12

LEMMA TakeAnswerNear ==
  ASSUME NEW c \in Call, NEW fast \in Seq(FastOLC)
  PROVE  Near(c, TakeAnswer(c, fast).call) /\ TakeAnswer(c, fast).ok \in BOOLEAN
<1> DEFINE base == [call |-> c, ok |-> TRUE]
           so   == FoldLeft(TakeElement, base, fast)
           a    == so.call
           ok   == so.ok
           b    == [a EXCEPT !.flags = @ \cup {"FASTSTARTANSWERED"}]
<1>1. TakeNear(0, c, base)
  BY NearReflexive DEF TakeNear
<1>2. ASSUME NEW x, NEW y \in FastOLC, TakeNear(0, c, x)
      PROVE  TakeNear(0, c, TakeNearStep(0, x, y))
  BY <1>2, TakeElementNear DEF TakeNearStep
<1>3. so = NearTaking!Fold(0, base, fast)
  BY Zenon DEF NearTaking!Fold, NearTaking!MapThenFoldSet, NearTaking!Max, TakeNearStep,
     FoldLeft, MapThenFoldSet, Max
<1>4. TakeAnswer(c, fast) = IF so.ok THEN [so EXCEPT !.call.flags = @ \cup {"FASTSTARTANSWERED"}]
                            ELSE so
  BY DEF TakeAnswer
<1> HIDE DEF base, so
<1>5. TakeNear(0, c, so)
  BY <1>1, <1>2, <1>3, NearTaking!FoldKeeps
<1>6. so = [call |-> a, ok |-> ok] /\ Near(c, a) /\ ok \in BOOLEAN
  BY <1>5 DEF TakeNear
<1>7. a \in Call
  BY <1>6, NearType
<1> HIDE DEF a, ok
<1>8. TakeAnswer(c, fast) \in {[call |-> b, ok |-> ok], so}
  BY <1>4, <1>6
<1>9. /\ a.flags \cup {"FASTSTARTANSWERED"} \in SUBSET CallFlag
      /\ ("TUNNELING" \in a.flags \cup {"FASTSTARTANSWERED"} <=> Tunnels(a))
  BY <1>7 DEF Call, Has, Tunnels, CallFlag
<1>10. Near(a, b)
  BY <1>7, <1>9, FieldsNear DEF Call
<1>11. Near(c, b)
  BY <1>6, <1>10, NearTransitive
<1> HIDE DEF b
<1> QED
  BY <1>6, <1>8, <1>11

LEMMA HandleProgressNear ==
  ASSUME NEW c \in Call, NEW m \in Message, m.type \in {"CallProceeding", "Alerting"}, ~m.h245
  PROVE  Near(c, HandleProgress(c, m))
<1>1. Near(c, TakeAnswer(c, m.fast).call) /\ Near(c, c)
  BY TakeAnswerNear, MessageFields, NearReflexive
<1>2. HandleProgress(c, m) \in {TakeAnswer(c, m.fast).call, c}
  BY DEF HandleProgress, TakeH245Address
<1> QED
  BY <1>1, <1>2

LEMMA FastStartInConnectNear ==
  ASSUME NEW c \in Call, NEW m \in Message, m.type = "Connect"
  PROVE  Near(c, FastStartInConnect(c, m).call)
<1> DEFINE b == ClearAllChans(c)
           d == [b EXCEPT !.flags = @ \ {"FASTSTART"}]
<1>1. Near(c, TakeAnswer(c, m.fast).call) /\ Near(c, c) /\ Near(c, b)
  BY TakeAnswerNear, MessageFields, NearReflexive, ChansNear
<1>2. FastStartInConnect(c, m).call \in {TakeAnswer(c, m.fast).call, c, d}
  BY DEF FastStartInConnect
<1> HIDE DEF b
<1>3. b \in Call
  BY <1>1, NearType
<1>4. /\ b.flags \ {"FASTSTART"} \in SUBSET CallFlag
      /\ ("TUNNELING" \in b.flags \ {"FASTSTART"} <=> Tunnels(b))
  BY <1>3 DEF Call, Has, Tunnels
<1>5. Near(b, d)
  BY <1>3, <1>4, FieldsNear DEF Call
<1>6. Near(c, d)
  BY <1>1, <1>5, NearTransitive
<1> QED
  BY <1>1, <1>2, <1>6

-----------------------------------------------------------------------------
(* The called end's answers before Connect.                                 *)
LEMMA ProgressCalm ==
  ASSUME NEW e \in Endpoint, NEW w, NEW c \in Call
  PROVE  Calm(w, c, SendCallProceeding(c)) /\ Calm(w, c, SendAlerting(e, c))
<1>1. ASSUME NEW b \in Call, NEW t \in {"CallProceeding", "Alerting"}, NEW v \in BOOLEAN,
             NEW fast \in Seq(FastOLC)
      PROVE  Calm(w, b, SendH225(b, [type |-> t, tunneling |-> v, h245 |-> FALSE, fast |-> fast]))
  <2> DEFINE m == [type |-> t, tunneling |-> v, h245 |-> FALSE, fast |-> fast]
  <2>1. m \in Message
    BY DEF Message
  <2>2. m.type \notin Counted \cup {"EndSession", "ReleaseComplete"}
    BY DEF Counted
  <2> HIDE DEF m
  <2>3. Calm(w, b, SendH225(b, m))
    BY <2>1, <2>2, OrdinaryCalm
  <2> QED
    BY <2>3 DEF m
<1> DEFINE v == "TUNNELING" \in c.epFlags
<1>2. v \in BOOLEAN /\ << >> \in Seq(FastOLC)
  OBVIOUS
<1>3. Calm(w, c, SendCallProceeding(c))
  <2>1. SendCallProceeding(c) =
          SendH225(c, [type |-> "CallProceeding", tunneling |-> v, h245 |-> FALSE, fast |-> << >>])
    BY DEF SendCallProceeding
  <2> HIDE DEF v
  <2> QED
    BY <1>1, <1>2, <2>1
<1>4. Calm(w, c, SendAlerting(e, c))
  <2> DEFINE so == FastStartResponse(e, c, "Alerting")
  <2>1. Near(c, so.call) /\ so.fast \in Seq(FastOLC)
    BY FastStartResponseNear
  <2>2. SendAlerting(e, c) =
          SendH225(so.call, [type |-> "Alerting", tunneling |-> v, h245 |-> FALSE,
                             fast |-> so.fast])
    BY DEF SendAlerting
  <2> HIDE DEF so, v
  <2>3. so.call \in Call
    BY <2>1, NearType
  <2>4. Calm(w, so.call, SendAlerting(e, c))
    BY <1>1, <1>2, <2>1, <2>2, <2>3
  <2>5. Calm(w, c, so.call)
    BY <2>1, NearCalm
  <2> QED
    BY <2>4, <2>5, CalmTransitive
<1> QED
  BY <1>3, <1>4

(* Connect, and the listener for H.245 if this end does not tunnel.         *)
Connects(c, d) ==
  \E a, b \in Call : \E m \in Message : \E v \in BOOLEAN :
    /\ Near(c, a) /\ b = [a EXCEPT !.h245listener = v] /\ (v => a.h245listener \/ ~Tunnels(a))
    /\ m.type = "Connect" /\ d = SendH225(b, m)

LEMMA AcceptCallConnects ==
  ASSUME NEW e \in Endpoint, NEW c \in Call
  PROVE  Connects(c, AcceptCall(e, c))
<1> DEFINE so == FastStartResponse(e, c, "Connect")
           a  == so.call
           listens == /\ ~Has(a, "FASTSTART") \/ c.remoteFastStartOLCs = << >>
                      /\ ~Has(a, "TUNNELING")
           v  == a.h245listener \/ listens
           b  == [a EXCEPT !.h245listener = v]
           tunnels == Has(a, "TUNNELING")
           m  == [type |-> "Connect", tunneling |-> tunnels, h245 |-> listens, fast |-> so.fast]
<1>1. Near(c, so.call) /\ so.fast \in Seq(FastOLC)
  BY FastStartResponseNear
<1>2. AcceptCall(e, c) = SendH225(b, m)
  BY DEF AcceptCall
<1>3. /\ listens \in BOOLEAN /\ v \in BOOLEAN /\ tunnels \in BOOLEAN
      /\ v => a.h245listener \/ ~Tunnels(a)
  <2>1. listens \in BOOLEAN /\ tunnels \in BOOLEAN
    BY DEF Has
  <2>4. listens => ~Tunnels(a)
    BY DEF Tunnels
  <2> HIDE DEF listens, tunnels
  <2>5. v \in BOOLEAN
    BY <2>1
  <2>6. v => a.h245listener \/ ~Tunnels(a)
    BY <2>4
  <2> QED
    BY <2>1, <2>5, <2>6
<1> HIDE DEF so, listens, tunnels
<1>4. a \in Call /\ Near(c, a)
  BY <1>1, NearType
<1>11. m \in Message /\ m.type = "Connect"
  BY <1>1, <1>3 DEF Message
<1> HIDE DEF a, v
<1>5. b \in Call
  BY ZenonT(40), <1>3, <1>4 DEF Call
<1> HIDE DEF m
<1>6. b = [a EXCEPT !.h245listener = v]
  OBVIOUS
<1> HIDE DEF b
<1>7. \E x, y \in Call : \E n \in Message : \E u \in BOOLEAN :
        /\ Near(c, x) /\ y = [x EXCEPT !.h245listener = u] /\ (u => x.h245listener \/ ~Tunnels(x))
        /\ n.type = "Connect" /\ AcceptCall(e, c) = SendH225(y, n)
  <2>1. /\ Near(c, a) /\ b = [a EXCEPT !.h245listener = v] /\ (v => a.h245listener \/ ~Tunnels(a))
        /\ m.type = "Connect" /\ AcceptCall(e, c) = SendH225(b, m)
    BY <1>2, <1>3, <1>4, <1>6, <1>11
  <2> QED
    BY <2>1, <1>3, <1>4, <1>5, <1>11
<1> QED
  BY <1>7 DEF Connects
-----------------------------------------------------------------------------
(* Connections that end                                                     *)

LEMMA ReasonNear ==
  ASSUME NEW c \in Call
  PROVE  Near(c, Because(c))
<1>1. "OTHER" \in EndReason
  BY DEF EndReason
<1> QED
  BY <1>1, FieldsNear, NearReflexive DEF Because

LEMMA ReceiveH225FailsCalm ==
  ASSUME NEW w, NEW c \in Call
  PROVE  Calm(w, c, ReceiveH225Fails(c))
<1> DEFINE d == ReceiveH225Fails(c)
           net == c.h225Net
           out == c.h225Out
<1>1. /\ d.callState = CLEARED /\ d.h225Sock # "open" /\ d.h225Net = net /\ d.h225Out = << >>
      /\ SameStart(c, d) /\ Sent245(d) = Sent245(c) /\ d.h245Sock = c.h245Sock
      /\ d.h245listener = c.h245listener /\ d.timers = c.timers
  BY DEF ReceiveH225Fails, CloseH225, MarkClear, Closed, SameStart, Tunnels, Has, Sent245, Call
<1>2. d \in Call
  BY FailsRoutine, RoutineType
<1>3. net \in Seq(Message) /\ out \in Seq(Message) /\ Sent225(c) = net \o out
  BY DEF Call, Sent225
<1>4. c.callState \in Nat /\ CLEARED >= c.callState
  <2>1. c.callState \in CallState
    BY DEF Call
  <2> QED
    BY <2>1, StateValues
<1> HIDE DEF d, net, out
<1>5. Sent225(d) = net
  BY <1>1, <1>3, ConcatEmptySeq DEF Sent225
<1> DEFINE s == Sent225(c)
<1>6. s = net \o out
  BY <1>3
<1> HIDE DEF s
<1>7. /\ Thin(s, net) /\ Firm(s, net, "ReleaseComplete")
      /\ \A k : Free(s, k) => Free(net, k)
      /\ \A x, T : Led(s, x, T) => Led(net, x, T)
  BY <1>3, <1>6, FrontKeeps, FrontStream
<1>8. Still(c, d)
  BY <1>1, <1>2, <1>4 DEF Still
<1>9. Lighter(c, d)
  BY <1>1, <1>5, <1>7, SameStream DEF Lighter, s
<1>10. Announces(d) /\ Announced(d)
  BY <1>1 DEF Announces, Announced
<1>11. Keeps225(c, d)
  BY <1>1, <1>5, <1>7, <1>10 DEF Keeps225, s
<1>12. Keeps245(c, d)
  BY <1>1, SameStream DEF Keeps245
<1>13. Calm(w, c, d)
  BY <1>8, <1>9, <1>10, <1>11, <1>12 DEF Calm, Ends
<1> QED
  BY <1>13 DEF d

LEMMA ReceiveH245FailsCalm ==
  ASSUME NEW w, NEW c \in Call, c.h245SessionState # "PAUSED"
  PROVE  Calm(w, c, ReceiveH245Fails(c))
<1> DEFINE d == CloseH245(c)
<1>1. Calm(w, c, d)
  BY CloseH245Calm
<1>2. d \in Call
  BY <1>1, CalmType
<1> HIDE DEF d
<1>3. Calm(w, d, MarkClear(d))
  BY <1>2, MarkClearNear
<1>4. ReceiveH245Fails(c) = MarkClear(d)
  BY DEF ReceiveH245Fails, d
<1> QED
  BY <1>1, <1>3, <1>4, CalmTransitive

LEMMA HandleReleaseCompleteCalm ==
  ASSUME NEW w, NEW c \in Call
  PROVE  Calm(w, c, HandleReleaseComplete(c)) /\ ~Runs(HandleReleaseComplete(c))
<1> DEFINE c0 == StopTimer(c, "SESSION", 0)
           c1 == Because(c0)
           c2 == IF c1.h245SessionState \in {"IDLE", "CLOSED"} THEN c1 ELSE CloseH245(c1)
           d  == [c2 EXCEPT !.callState = CLEARED]
<1>1. HandleReleaseComplete(c) = d
  BY DEF HandleReleaseComplete
<1>2. Near(c, c0) /\ c0 \in Call
  <2>1. "SESSION" \in TimerType /\ 0 \in Nat
    BY DEF TimerType
  <2> QED
    BY <2>1, TimerNear, NearType
<1> HIDE DEF c0
<1>3. Near(c0, c1) /\ c1 \in Call
  BY <1>2, ReasonNear, NearType
<1> HIDE DEF c1
<1>4. Calm(w, c1, c2) /\ c2 \in Call
  BY <1>3, CloseH245Calm, NearReflexive, CalmType
<1> HIDE DEF c2
<1>5. CLEARED \in CallState /\ CLEARED >= c2.callState /\ CLEARED # CLEAR_RELEASESENT
  <2>1. c2.callState \in CallState
    BY <1>4 DEF Call
  <2>2. CLEARED \in CallState /\ CLEARED >= c2.callState
    BY <2>1, StateValues DEF CallState, CREATED, CLEARED
  <2> QED
    BY <2>2 DEF CLEARED, CLEAR_RELEASESENT
<1>6. Near(c2, d)
  BY <1>4, <1>5, StateNear
<1>7. Calm(w, c, c0) /\ Calm(w, c0, c1) /\ Calm(w, c2, d)
  BY <1>2, <1>3, <1>6, NearCalm
<1>8. ~Runs(d)
  <2>1. d.callState = CLEARED
    BY <1>4 DEF Call
  <2> QED
    BY <2>1, StateValues DEF Runs, CLEAR, CLEARED
<1> HIDE DEF d
<1>9. Calm(w, c, c1)
  BY <1>2, <1>7, CalmTransitive
<1>10. Calm(w, c, c2)
  BY <1>4, <1>9, CalmTransitive
<1>11. Calm(w, c, d)
  BY <1>7, <1>10, CalmTransitive
<1> QED
  BY <1>1, <1>8, <1>11

LEMMA SessionExpiredCalm ==
  ASSUME NEW w, NEW c \in Call
  PROVE  Calm(w, c, SessionExpired(c))
<1> DEFINE c1 == IF c.h245SessionState \notin {"IDLE", "CLOSED", "PAUSED"} THEN CloseH245(c) ELSE c
<1>1. Calm(w, c, c1) /\ c1 \in Call
  BY CloseH245Calm, NearReflexive, CalmType
<1>2. SessionExpired(c) \in {c1, [c1 EXCEPT !.callState = CLEARED]}
  BY DEF SessionExpired
<1> HIDE DEF c1
<1>3. CLEARED \in CallState /\ CLEARED >= c1.callState /\ CLEARED # CLEAR_RELEASESENT
  <2>1. c1.callState \in CallState
    BY <1>1 DEF Call
  <2>2. CLEARED \in CallState /\ CLEARED >= c1.callState
    BY <2>1, StateValues DEF CallState, CREATED, CLEARED
  <2> QED
    BY <2>2 DEF CLEARED, CLEAR_RELEASESENT
<1>4. Near(c1, [c1 EXCEPT !.callState = CLEARED])
  BY <1>1, <1>3, StateNear
<1>5. Calm(w, c1, [c1 EXCEPT !.callState = CLEARED])
  BY <1>4, NearCalm
<1>6. Calm(w, c, [c1 EXCEPT !.callState = CLEARED])
  BY <1>1, <1>5, CalmTransitive
<1> QED
  BY <1>1, <1>2, <1>6

LEMMA CalmThenNear ==
  ASSUME NEW w, NEW b \in Call, NEW c, NEW d, Calm(w, b, c), Near(c, d)
  PROVE  Calm(w, b, d) /\ d \in Call
  BY NearCalm, CalmTransitive, NearType

LEMMA NearThenCalm ==
  ASSUME NEW w, NEW b \in Call, NEW c, NEW d, Near(b, c), Calm(w, c, d)
  PROVE  Calm(w, b, d) /\ d \in Call
  BY NearCalm, CalmTransitive, CalmType

LEMMA CalmCleared ==
  ASSUME NEW w, NEW b \in Call, NEW c, Calm(w, b, c)
  PROVE  Calm(w, b, MarkClear(c)) /\ ~Runs(MarkClear(c))
<1>1. c \in Call
  BY CalmType
<1> QED
  BY <1>1, MarkClearNear, CalmThenNear

(* Messages no property of the start-up looks at.                           *)
LEMMA MessagesCalm ==
  ASSUME NEW w, NEW c \in Call
  PROVE  /\ \A t \in {"TCSRelease", "MSDReject", "MSDRelease", "CallForwarded"} :
              Calm(w, c, SendH245(w, c, Msg(t))) /\ Calm(w, c, SendH225(c, Msg(t)))
         /\ \A t \in ChanMsg, n \in Nat :
              Calm(w, c, SendH245(w, c, ChanMsgOf(t, n)))
<1>1. ASSUME NEW t \in {"TCSRelease", "MSDReject", "MSDRelease", "CallForwarded"}
      PROVE  Calm(w, c, SendH245(w, c, Msg(t))) /\ Calm(w, c, SendH225(c, Msg(t)))
  <2> DEFINE m == Msg(t)
  <2>1. m \in Message /\ m.type \notin Counted \cup {"EndSession", "ReleaseComplete"}
    BY DEF Msg, Message, Plain, Counted
  <2> HIDE DEF m
  <2>2. Calm(w, c, SendH245(w, c, m)) /\ Calm(w, c, SendH225(c, m))
    BY <2>1, OrdinaryCalm
  <2> QED
    BY <2>2 DEF m
<1>2. ASSUME NEW t \in ChanMsg, NEW n \in Nat
      PROVE  Calm(w, c, SendH245(w, c, ChanMsgOf(t, n)))
  <2> DEFINE m == ChanMsgOf(t, n)
  <2>1. m \in Message /\ m.type \notin Counted \cup {"EndSession", "ReleaseComplete"}
    BY DEF ChanMsgOf, Message, ChanMsg, Counted
  <2> HIDE DEF m
  <2>2. Calm(w, c, SendH245(w, c, m))
    BY <2>1, OrdinaryCalm
  <2> QED
    BY <2>2 DEF m
<1> QED
  BY <1>1, <1>2

LEMMA SendCLCCalm ==
  ASSUME NEW w, NEW c \in Call, NEW n \in Nat
  PROVE  Calm(w, c, SendCLC(w, c, n))
<1> DEFINE s == SendH245(w, c, ChanMsgOf("CLC", n))
<1>1. Calm(w, c, s)
  BY MessagesCalm DEF ChanMsg
<1>2. s \in Call
  BY <1>1, CalmType
<1> HIDE DEF s
<1>3. Near(s, ClearChan(s, n))
  BY <1>2, ChansNear
<1> QED
  BY <1>1, <1>3, CalmThenNear DEF SendCLC, s

LEMMA HandleOLCCalm ==
  ASSUME NEW e \in Endpoint, NEW w, NEW c \in Call, NEW m \in Message, m.type = "OLC"
  PROVE  Calm(w, c, HandleOLC(e, w, c, m))
<1>1. m.chan \in Nat /\ m.cap \in Cap /\ m.session \in Nat
  BY MessageFields
<1>2. ASSUME m.cap \notin CanRx[e]
      PROVE  Calm(w, c, HandleOLC(e, w, c, m))
  BY <1>1, <1>2, MessagesCalm DEF HandleOLC, ChanMsg
<1>3. ASSUME m.cap \in CanRx[e]
      PROVE  Calm(w, c, HandleOLC(e, w, c, m))
  <2> DEFINE s  == IF m.session = 0 THEN GenerateSession(c, m.cap, "receive") ELSE m.session
             c0 == IF m.session = 0 THEN UseSession(c, s) ELSE c
             a  == AddChanIn(c0, m.chan, s, "receive", m.cap, "IDLE")
             c1 == SendH245(w, a, ChanMsgOf("OLCAck", m.chan))
             i  == Len(c1.logicalChans)
             c2 == StartChan(c1, i)
  <2>1. HandleOLC(e, w, c, m) = SetChanState(c2, i, "ESTABLISHED")
    BY <1>3 DEF HandleOLC
  <2>2. s \in Nat
    BY <1>1, SessionType
  <2> HIDE DEF s
  <2>3. Near(c, c0)
    BY <2>2, ChansNear, NearReflexive
  <2>4. c0 \in Call
    BY <2>3, NearType
  <2> HIDE DEF c0
  <2>5. Near(c0, a)
    BY <1>1, <2>2, <2>4, AddChanNear
  <2>6. a \in Call /\ Near(c, a)
    BY <2>3, <2>5, NearType, NearTransitive
  <2> HIDE DEF a
  <2>7. Calm(w, a, c1)
    BY <1>1, <2>6, MessagesCalm DEF ChanMsg
  <2>8. c1 \in Call /\ Calm(w, c, c1)
    BY <2>6, <2>7, NearThenCalm
  <2> HIDE DEF c1, i
  <2>9. Near(c1, c2)
    BY <2>8, ChansNear
  <2>10. c2 \in Call /\ Calm(w, c, c2)
    BY <2>8, <2>9, CalmThenNear
  <2> HIDE DEF c2
  <2>11. Near(c2, SetChanState(c2, i, "ESTABLISHED"))
    BY <2>10, ChansNear
  <2> QED
    BY <2>1, <2>10, <2>11, CalmThenNear
<1> QED
  BY <1>2, <1>3

LEMMA HandleOLCAckCalm ==
  ASSUME NEW w, NEW c \in Call, NEW m \in Message, m.type = "OLCAck"
  PROVE  Calm(w, c, HandleOLCAck(c, m))
<1>1. m.chan \in Nat
  BY MessageFields DEF ChanMsg
<1> DEFINE c0 == StopTimer(c, "OLC", m.chan)
           i  == FindChan(c0.logicalChans, m.chan)
           c1 == StartChan(c0, i)
<1>2. Near(c, c0)
  BY <1>1, TimerNear DEF TimerType
<1>3. c0 \in Call
  BY <1>2, NearType
<1>4. HandleOLCAck(c, m) \in {c0, SetChanState(c1, i, "ESTABLISHED")}
  BY DEF HandleOLCAck
<1> HIDE DEF c0, i
<1>5. Near(c0, c1)
  BY <1>3, ChansNear
<1>6. c1 \in Call
  BY <1>5, NearType
<1> HIDE DEF c1
<1>7. Near(c1, SetChanState(c1, i, "ESTABLISHED"))
  BY <1>6, ChansNear
<1>8. Near(c, HandleOLCAck(c, m))
  BY <1>2, <1>3, <1>4, <1>5, <1>6, <1>7, NearTransitive
<1> QED
  BY <1>8, NearCalm

LEMMA HandleOthersCalm ==
  ASSUME NEW w, NEW c \in Call, NEW m \in Message
  PROVE  /\ m.type = "CLC" => Calm(w, c, HandleCLC(w, c, m))
         /\ m.type = "RCC" => Calm(w, c, HandleRCC(w, c, m))
         /\ m.type \in {"RCCAck", "RCCReject"} => Calm(w, c, HandleRCCAnswer(c, m))
         /\ m.type = "OLCReject" => Calm(w, c, HandleOLCReject(c, m))
         /\ m.type = "CLCAck" => Calm(w, c, StopTimer(c, "CLC", m.chan))
         /\ m.type = "TCSReject" => Calm(w, c, HandleTCSReject(c, m))
<1>1. m.type \in {"CLC", "RCC", "RCCAck", "RCCReject", "OLCReject", "CLCAck"} => m.chan \in Nat
  BY MessageFields DEF ChanMsg
<1>2. ASSUME m.type = "CLC"
      PROVE  Calm(w, c, HandleCLC(w, c, m))
  <2> DEFINE c1 == ClearChan(c, m.chan)
  <2>1. Near(c, c1)
    BY ChansNear
  <2>2. c1 \in Call
    BY <2>1, NearType
  <2> HIDE DEF c1
  <2>3. Calm(w, c1, SendH245(w, c1, ChanMsgOf("CLCAck", m.chan)))
    BY <1>1, <1>2, <2>2, MessagesCalm DEF ChanMsg
  <2> QED
    BY <2>1, <2>3, NearThenCalm DEF HandleCLC, c1
<1>3. ASSUME m.type = "RCC"
      PROVE  Calm(w, c, HandleRCC(w, c, m))
  <2> DEFINE c1 == SendH245(w, c, ChanMsgOf("RCCAck", m.chan))
  <2>1. Calm(w, c, c1)
    BY <1>1, <1>3, MessagesCalm DEF ChanMsg
  <2>2. c1 \in Call
    BY <2>1, CalmType
  <2>3. HandleRCC(w, c, m) \in {c, SendCLC(w, c1, m.chan)}
    BY DEF HandleRCC
  <2> HIDE DEF c1
  <2>4. Calm(w, c1, SendCLC(w, c1, m.chan))
    BY <1>1, <1>3, <2>2, SendCLCCalm
  <2> QED
    BY <2>1, <2>3, <2>4, CalmTransitive, NearReflexive
<1>4. ASSUME m.type \in {"RCCAck", "RCCReject"}
      PROVE  Calm(w, c, HandleRCCAnswer(c, m))
  <2> DEFINE c1 == StopTimer(c, "RCC", m.chan)
  <2>1. Near(c, c1)
    BY <1>1, <1>4, TimerNear DEF TimerType
  <2>2. c1 \in Call
    BY <2>1, NearType
  <2> HIDE DEF c1
  <2>3. Near(c1, ClearChan(c1, m.chan))
    BY <2>2, ChansNear
  <2> QED
    BY <2>1, <2>3, NearTransitive, NearCalm DEF HandleRCCAnswer, c1
<1>5. ASSUME NEW t \in {"OLC", "CLC", "TCS"}, NEW n \in Nat
      PROVE  Calm(w, c, StopTimer(c, t, n)) /\ Calm(w, c, MarkClear(StopTimer(c, t, n)))
  <2>1. Calm(w, c, StopTimer(c, t, n))
    BY TimerNear, NearCalm DEF TimerType
  <2> QED
    BY <2>1, CalmCleared
<1>6. m.type = "OLCReject" => Calm(w, c, HandleOLCReject(c, m))
  BY <1>1, <1>5 DEF HandleOLCReject
<1>7. m.type = "CLCAck" => Calm(w, c, StopTimer(c, "CLC", m.chan))
  BY <1>1, <1>5
<1>8. Calm(w, c, HandleTCSReject(c, m))
  BY <1>5, NearReflexive DEF HandleTCSReject
<1> QED
  BY <1>2, <1>3, <1>4, <1>6, <1>7, <1>8

(* EndSession on the H.245 connection.                                      *)
LEMMA HandleEndSessionCalm ==
  ASSUME NEW w \in World, NEW c \in Call, ~Tunnels(c), Free(Sent245(c), "ReleaseComplete")
  PROVE  Calm(w, c, HandleEndSession(w, c))
<1>1. Calm(w, c, CloseH245(StopTimer(c, "SESSION", 0)))
  <2> DEFINE c1 == StopTimer(c, "SESSION", 0)
  <2>1. Near(c, c1)
    BY TimerNear DEF TimerType
  <2>2. c1 \in Call
    BY <2>1, NearType
  <2> HIDE DEF c1
  <2>3. Calm(w, c, CloseH245(c1))
    BY <2>1, <2>2, CloseH245Calm, NearThenCalm
  <2> QED
    BY <2>3 DEF c1
<1>2. Calm(w, c, SendH245(w, ClearAllChans([c EXCEPT !.h245SessionState = "ENDRECVD"]),
                          Msg("EndSession")))
  <2> DEFINE c1 == [c EXCEPT !.h245SessionState = "ENDRECVD"]
             c2 == ClearAllChans(c1)
  <2>1. Near(c, c1)
    BY FieldsNear DEF SessionState
  <2>2. c1 \in Call
    BY <2>1, NearType
  <2> HIDE DEF c1
  <2>3. Near(c1, c2)
    BY <2>2, ChansNear
  <2>4. c2 \in Call /\ Near(c, c2)
    BY <2>1, <2>3, NearType, NearTransitive
  <2> HIDE DEF c2
  <2>5. ~Tunnels(c2) /\ Free(Sent245(c2), "ReleaseComplete")
    BY <2>4 DEF Near, SameStart, SameFlows, Sent245
  <2>6. Calm(w, c, SendH245(w, c2, Msg("EndSession")))
    BY <2>4, <2>5, EndSessionCalm, NearThenCalm
  <2> QED
    BY <2>6 DEF c2, c1
<1> QED
  BY <1>1, <1>2 DEF HandleEndSession
-----------------------------------------------------------------------------
(* A timer that expires, but for the retry of the H.245 connection.         *)
LEMMA FireTimerCalm ==
  ASSUME NEW e \in Endpoint, NEW w, NEW c \in Call, NEW t \in Timer, t.type # "H245CONNECT"
  PROVE  Calm(w, c, FireTimer(e, w, c, t))
<1> DEFINE c0 == StopTimer(c, t.type, t.chan)
<1>1. t.type \in TimerType /\ t.chan \in Nat
  BY DEF Timer
<1>2. Near(c, c0)
  BY <1>1, TimerNear
<1>3. c0 \in Call
  BY <1>2, NearType
<1>4. FireTimer(e, w, c, t) =
        CASE t.type = "MSD" -> MarkClear(SendH245(w, c0, Msg("MSDRelease")))
          [] t.type = "TCS" -> MarkClear(SendH245(w, c0, Msg("TCSRelease")))
          [] t.type = "OLC" ->
               MarkClear(IF FindChan(c0.logicalChans, t.chan) = 0 THEN c0
                         ELSE SendCLC(w, c0, t.chan))
          [] t.type = "CLC" -> MarkClear(ClearChan(c0, t.chan))
          [] t.type = "RCC" ->
               MarkClear(ClearChan(SendH245(w, c0, ChanMsgOf("RCCRelease", t.chan)), t.chan))
          [] t.type = "SESSION" -> SessionExpired(c0)
          [] t.type = "CALLESTB" -> MarkClear(c0)
          [] t.type = "H245CONNECT" ->
               CreateH245Connection(e, w, [c0 EXCEPT !.h245ConnectionAttempts = @ + 1])
  BY DEF FireTimer
<1> HIDE DEF c0
<1>5. ASSUME NEW x, Calm(w, c0, x)
      PROVE  Calm(w, c, MarkClear(x))
  BY <1>2, <1>3, <1>5, CalmCleared, NearThenCalm
<1>6. /\ Calm(w, c0, SendH245(w, c0, Msg("MSDRelease")))
      /\ Calm(w, c0, SendH245(w, c0, Msg("TCSRelease")))
      /\ Calm(w, c0, SendCLC(w, c0, t.chan))
      /\ Calm(w, c0, ClearChan(c0, t.chan))
      /\ Calm(w, c0, c0)
  BY <1>1, <1>3, MessagesCalm, SendCLCCalm, ChansNear, NearCalm, NearReflexive
<1>7. Calm(w, c0, ClearChan(SendH245(w, c0, ChanMsgOf("RCCRelease", t.chan)), t.chan))
  <2> DEFINE s == SendH245(w, c0, ChanMsgOf("RCCRelease", t.chan))
  <2>1. Calm(w, c0, s)
    BY <1>1, <1>3, MessagesCalm DEF ChanMsg
  <2>2. s \in Call
    BY <2>1, CalmType
  <2> HIDE DEF s
  <2>3. Calm(w, c0, ClearChan(s, t.chan))
    BY <1>3, <2>1, <2>2, ChansNear, CalmThenNear
  <2> QED
    BY <2>3 DEF s
<1>8. Calm(w, c, SessionExpired(c0))
  BY <1>2, <1>3, SessionExpiredCalm, NearThenCalm
<1> QED
  BY <1>1, <1>4, <1>5, <1>6, <1>7, <1>8 DEF TimerType
-----------------------------------------------------------------------------
(* Forwarding                                                               *)
LEMMA ForwardCalm ==
  ASSUME NEW w, NEW c \in Call
  PROVE  Calm(w, c, ForwardCall(c)) /\ Calm(w, c, HandleCallForwarded(c))
<1>1. /\ Near(c, [c EXCEPT !.pCallFwdData = "byUs"])
      /\ Near(c, [c EXCEPT !.pCallFwdData = "byRemote"])
  BY FieldsNear DEF FwdData
<1>2. Calm(w, c, ForwardCall(c))
  <2> DEFINE b == [c EXCEPT !.pCallFwdData = "byUs"]
             d == SendH225(b, Msg("CallForwarded"))
  <2>1. b \in Call
    BY <1>1, NearType
  <2>2. ForwardCall(c) = [d EXCEPT !.callEndReason = "OTHER"]
    BY DEF ForwardCall
  <2>3. Near(c, b)
    BY <1>1
  <2> HIDE DEF b
  <2>4. Calm(w, c, d) /\ d \in Call
    BY <2>1, <2>3, MessagesCalm, NearThenCalm
  <2> HIDE DEF d
  <2>5. Near(d, [d EXCEPT !.callEndReason = "OTHER"])
    BY <2>4, FieldsNear DEF EndReason
  <2> QED
    BY <2>2, <2>4, <2>5, CalmThenNear
<1>3. Calm(w, c, HandleCallForwarded(c))
  <2> DEFINE b == [c EXCEPT !.pCallFwdData = "byRemote"]
             d == [b EXCEPT !.callState = CLEAR]
  <2>1. b \in Call
    BY <1>1, NearType
  <2>2. HandleCallForwarded(c) =
          IF b.callState < CLEAR THEN [d EXCEPT !.callEndReason = "REMOTE_FWDED"] ELSE b
    BY DEF HandleCallForwarded
  <2>3. Near(c, b)
    BY <1>1
  <2> HIDE DEF b
  <2>4. ASSUME b.callState < CLEAR
        PROVE  Near(c, [d EXCEPT !.callEndReason = "REMOTE_FWDED"])
    <3>0. CLEAR \in CallState /\ CLEAR \in Nat /\ CLEAR_RELEASESENT \in Nat /\ b.callState \in Nat
      BY <2>1, StateValues DEF Call
    <3>1. CLEAR \in CallState /\ CLEAR >= b.callState /\ CLEAR # CLEAR_RELEASESENT
      BY <2>4, <3>0, StateValues
    <3>2. Near(b, d)
      BY <2>1, <3>1, StateNear
    <3>3. d \in Call
      BY <3>2, NearType
    <3> HIDE DEF d
    <3>4. Near(d, [d EXCEPT !.callEndReason = "REMOTE_FWDED"])
      BY <3>3, FieldsNear DEF EndReason
    <3> QED
      BY <2>1, <2>3, <3>2, <3>3, <3>4, NearTransitive
  <2> QED
    BY <2>2, <2>3, <2>4, NearCalm
<1> QED
  BY <1>2, <1>3
=============================================================================
