----------------------- MODULE LogicalChannelsProofs -----------------------
(***************************************************************************)
(* What holds of the channels of a call against any peer that follows      *)
(* H.245: the type of the state, and, where the peer's numbers are its     *)
(* own, that the list agrees with what the peer has open.                  *)
(***************************************************************************)
EXTENDS LogicalChannels, CallLemmas

Own == ChanNoBase .. ChanNoMax

(* The peer numbers its channels from its own range, and an end that opens  *)
(* audio and video has two numbers for them.                                *)
NumbersApart == PeerChan \cap Own = {} /\ ChanNoBase < ChanNoMax

-----------------------------------------------------------------------------
(* The list of channels                                                     *)

(* The numbers of the channels this end has proposed or opened (OutAt, by   *)
(* their state) and accepted (InAt).                                        *)
OutAt(ch, st) ==
  {n \in Nat : \E i \in DOMAIN ch :
     ch[i].channelNo = n /\ ch[i].dir = "transmit" /\ ch[i].state = st}
InAt(ch) == {n \in Nat : \E i \in DOMAIN ch : ch[i].channelNo = n /\ ch[i].dir = "receive"}

(* Each direction has its numbers and states, no number is there twice, and *)
(* no medium is sent twice.                                                 *)
Numbered(ch) ==
  \A i \in DOMAIN ch :
    IF ch[i].dir = "transmit" THEN ch[i].channelNo \in Own /\ ch[i].state # "IDLE"
    ELSE ch[i].channelNo \in PeerChan /\ ch[i].state = "ESTABLISHED"
Distinct(ch) == \A i, j \in DOMAIN ch : ch[i].channelNo = ch[j].channelNo => i = j
OnePerMedia(ch) ==
  \A i, j \in DOMAIN ch :
    ch[i].dir = "transmit" /\ ch[j].dir = "transmit" /\ MediaOf[ch[i].cap] = MediaOf[ch[j].cap]
      => i = j

ListOK(ch) == Numbered(ch) /\ Distinct(ch) /\ OnePerMedia(ch)

(* What FindChan finds is the first with the number, if there is one.       *)
LEMMA FindChanNone ==
  ASSUME NEW ch \in Seq(LogicalChan), NEW n, FindChan(ch, n) = 0
  PROVE  \A i \in DOMAIN ch : ch[i].channelNo # n
<1> DEFINE I == {i \in 1 .. Len(ch) : ch[i].channelNo = n}
<1>1. FindChan(ch, n) = IF I # {} THEN Min(I) ELSE 0
  BY Zenon DEF FindChan, SelectInSeq
<1>2. I # {} => Min(I) \in I
  <2> Len(ch) \in Nat /\ I \in SUBSET (1 .. Len(ch))
    OBVIOUS
  <2> HIDE DEF I
  <2> QED
    BY LeastIndex
<1>3. I = {}
  <2>1. 0 \notin I
    OBVIOUS
  <2> HIDE DEF I
  <2> QED
    BY <1>1, <1>2, <2>1
<1> QED
  BY <1>3

(* Clearing a channel takes its number out of the list.                     *)
LEMMA ClearedList ==
  ASSUME NEW c \in Call, NEW n, ListOK(c.logicalChans)
  PROVE  LET ch == c.logicalChans
             dh == ClearChan(c, n).logicalChans
         IN  /\ dh \in Seq(LogicalChan) /\ ListOK(dh)
             /\ \A st : OutAt(dh, st) = OutAt(ch, st) \ {n}
             /\ InAt(dh) = InAt(ch) \ {n}
<1> DEFINE ch == c.logicalChans
           k  == FindChan(ch, n)
           dh == ClearChan(c, n).logicalChans
<1>1. ch \in Seq(LogicalChan) /\ DOMAIN ch = 1 .. Len(ch) /\ Len(ch) \in Nat
  BY DEF Call
<1>2. k \in 0 .. Len(ch) /\ (k # 0 => ch[k].channelNo = n)
  BY <1>1, FindChanRange
<1>3. dh = IF k = 0 THEN ch ELSE RemoveAt(ch, k)
  BY DEF ClearChan, Call
<1> HIDE DEF dh, k, ch
<1>4. CASE k = 0
  <2>1. \A i \in DOMAIN ch : ch[i].channelNo # n
    BY <1>1, <1>4, FindChanNone DEF k
  <2> QED
    BY <1>1, <1>3, <1>4, <2>1 DEF OutAt, InAt, dh, ch
<1>5. CASE k # 0
  <2>1. k \in 1 .. Len(ch)
    BY <1>1, <1>2, <1>5
  <2>2. /\ dh \in Seq(LogicalChan) /\ Len(dh) = Len(ch) - 1
        /\ \A i \in 1 .. Len(ch) - 1 : dh[i] = IF i < k THEN ch[i] ELSE ch[i + 1]
    BY <1>1, <1>3, <1>5, <2>1, RemoveAtElements
  <2>3. DOMAIN dh = 1 .. Len(ch) - 1
    BY <2>2
  <2> DEFINE was(i) == IF i < k THEN i ELSE i + 1
  <2>4. \A i \in DOMAIN dh : was(i) \in DOMAIN ch /\ was(i) # k /\ dh[i] = ch[was(i)]
    BY <1>1, <2>1, <2>2, <2>3
  <2>5. \A i, j \in DOMAIN dh : was(i) = was(j) => i = j
    BY <1>1, <2>1, <2>3
  <2>6. \A j \in DOMAIN ch : j # k => \E i \in DOMAIN dh : was(i) = j
    <3> SUFFICES ASSUME NEW j \in DOMAIN ch, j # k
                 PROVE  \E i \in DOMAIN dh : was(i) = j
      OBVIOUS
    <3>1. CASE j < k
      BY <3>1, <1>1, <2>1, <2>3
    <3>2. CASE j > k
      <4>1. j - 1 \in DOMAIN dh /\ was(j - 1) = j
        BY <3>2, <1>1, <2>1, <2>3
      <4> QED
        BY <4>1
    <3> QED
      BY <1>1, <2>1, <3>1, <3>2
  <2> HIDE DEF was
  <2>7. ListOK(dh)
    BY <2>4, <2>5 DEF ListOK, Numbered, Distinct, OnePerMedia, ch
  <2>8. \A i \in DOMAIN ch : ch[i].channelNo = n <=> i = k
    BY <1>1, <1>2, <1>5, <2>1 DEF ListOK, Distinct, ch
  <2>9. ASSUME NEW st
        PROVE  OutAt(dh, st) = OutAt(ch, st) \ {n}
    <3>1. \A x \in OutAt(dh, st) : x \in OutAt(ch, st) /\ x # n
      BY <2>4, <2>8 DEF OutAt
    <3>2. \A x \in OutAt(ch, st) : x # n => x \in OutAt(dh, st)
      BY <1>2, <1>5, <2>4, <2>6 DEF OutAt
    <3> QED
      BY <3>1, <3>2
  <2>10. InAt(dh) = InAt(ch) \ {n}
    <3>1. \A x \in InAt(dh) : x \in InAt(ch) /\ x # n
      BY <2>4, <2>8 DEF InAt
    <3>2. \A x \in InAt(ch) : x # n => x \in InAt(dh)
      BY <1>2, <1>5, <2>4, <2>6 DEF InAt
    <3> QED
      BY <3>1, <3>2
  <2> QED
    BY <2>2, <2>7, <2>9, <2>10 DEF dh, ch
<1> QED
  BY <1>4, <1>5
LEMMA AppendedList ==
  ASSUME NEW ch \in Seq(LogicalChan), NEW x \in LogicalChan, ListOK(ch),
         IF x.dir = "transmit" THEN x.channelNo \in Own /\ x.state # "IDLE"
         ELSE x.channelNo \in PeerChan /\ x.state = "ESTABLISHED",
         \A i \in DOMAIN ch : ch[i].channelNo # x.channelNo,
         \A i \in DOMAIN ch : ch[i].dir = "transmit" /\ x.dir = "transmit"
           => MediaOf[ch[i].cap] # MediaOf[x.cap]
  PROVE  LET dh == Append(ch, x)
         IN  /\ dh \in Seq(LogicalChan) /\ ListOK(dh)
             /\ \A st : OutAt(dh, st) = OutAt(ch, st) \cup
                  (IF x.dir = "transmit" /\ x.state = st THEN {x.channelNo} ELSE {})
             /\ InAt(dh) = InAt(ch) \cup (IF x.dir = "receive" THEN {x.channelNo} ELSE {})
<1> DEFINE dh == Append(ch, x)
           N  == Len(ch)
<1>1. /\ dh \in Seq(LogicalChan) /\ DOMAIN dh = 1 .. N + 1 /\ DOMAIN ch = 1 .. N /\ N \in Nat
      /\ \A i \in 1 .. N : dh[i] = ch[i]
      /\ dh[N + 1] = x
  OBVIOUS
<1>2. /\ \A i \in DOMAIN dh : i \in DOMAIN ch \/ i = N + 1
      /\ \A i \in DOMAIN ch : i \in DOMAIN dh /\ i # N + 1 /\ dh[i] = ch[i]
      /\ N + 1 \in DOMAIN dh
  BY <1>1
<1>3. x.channelNo \in Nat /\ x.dir \in {"transmit", "receive"}
  BY DEF LogicalChan
<1> HIDE DEF dh, N
<1>4. Numbered(dh)
  BY <1>1, <1>2 DEF ListOK, Numbered
<1>5. Distinct(dh)
  BY <1>1, <1>2 DEF ListOK, Distinct
<1>6. OnePerMedia(dh)
  <2> SUFFICES ASSUME NEW i \in DOMAIN dh, NEW j \in DOMAIN dh,
                      dh[i].dir = "transmit", dh[j].dir = "transmit",
                      MediaOf[dh[i].cap] = MediaOf[dh[j].cap]
               PROVE  i = j
    BY DEF OnePerMedia
  <2> QED
    BY <1>1, <1>2 DEF ListOK, OnePerMedia
<1>7. ASSUME NEW st
      PROVE  OutAt(dh, st) = OutAt(ch, st) \cup
               (IF x.dir = "transmit" /\ x.state = st THEN {x.channelNo} ELSE {})
  BY <1>1, <1>2, <1>3 DEF OutAt
<1>8. InAt(dh) = InAt(ch) \cup (IF x.dir = "receive" THEN {x.channelNo} ELSE {})
  BY <1>1, <1>2, <1>3 DEF InAt
<1> QED
  BY <1>1, <1>4, <1>5, <1>6, <1>7, <1>8 DEF ListOK, dh

(* A proposal that is accepted.                                             *)
LEMMA EstablishedList ==
  ASSUME NEW c \in Call, ListOK(c.logicalChans), NEW k \in DOMAIN c.logicalChans,
         c.logicalChans[k].dir = "transmit", c.logicalChans[k].state = "PROPOSED"
  PROVE  LET ch == c.logicalChans
             n  == ch[k].channelNo
             dh == SetChanState(StartChan(c, k), k, "ESTABLISHED").logicalChans
         IN  /\ dh \in Seq(LogicalChan) /\ ListOK(dh)
             /\ OutAt(dh, "PROPOSED") = OutAt(ch, "PROPOSED") \ {n}
             /\ OutAt(dh, "ESTABLISHED") = OutAt(ch, "ESTABLISHED") \cup {n}
             /\ InAt(dh) = InAt(ch)
<1> DEFINE ch == c.logicalChans
           n  == ch[k].channelNo
           x  == [ch[k] EXCEPT !.started = TRUE, !.state = "ESTABLISHED"]
           dh == SetChanState(StartChan(c, k), k, "ESTABLISHED").logicalChans
<1>1. ch \in Seq(LogicalChan) /\ ch[k] \in LogicalChan /\ n \in Nat
  <2>1. ch \in Seq(LogicalChan)
    BY DEF Call
  <2>2. ch[k] \in LogicalChan
    BY <2>1
  <2> QED
    BY <2>1, <2>2 DEF LogicalChan
<1>2. dh = [ch EXCEPT ![k] = x]
  <2>1. dh = [[ch EXCEPT ![k] = [@ EXCEPT !.started = TRUE]]
                EXCEPT ![k] = [@ EXCEPT !.state = "ESTABLISHED"]]
    BY DEF SetChanState, StartChan, Call
  <2> QED
    BY <1>1, <2>1
<1>3. /\ x \in LogicalChan /\ x.channelNo = n /\ x.dir = "transmit" /\ x.cap = ch[k].cap
      /\ x.state = "ESTABLISHED"
  BY <1>1 DEF LogicalChan
<1> HIDE DEF x, dh, ch
<1>4. dh \in Seq(LogicalChan)
  BY <1>1, <1>2, <1>3, EntryChanged
<1>5. DOMAIN dh = DOMAIN ch /\ dh[k] = x /\ \A i \in DOMAIN dh : i # k => dh[i] = ch[i]
  BY <1>1, <1>2 DEF ch
<1>6. Numbered(dh)
  BY <1>3, <1>5 DEF ListOK, Numbered, ch
<1>7. Distinct(dh)
  BY <1>3, <1>5 DEF ListOK, Distinct, ch
<1>8. OnePerMedia(dh)
  BY <1>3, <1>5 DEF ListOK, OnePerMedia, ch
<1>9. \A i \in DOMAIN ch : ch[i].channelNo = n <=> i = k
  BY DEF ListOK, Distinct, ch
<1>10. OutAt(dh, "PROPOSED") = OutAt(ch, "PROPOSED") \ {n}
  BY <1>1, <1>3, <1>5, <1>9 DEF OutAt
<1>11. OutAt(dh, "ESTABLISHED") = OutAt(ch, "ESTABLISHED") \cup {n}
  BY <1>1, <1>3, <1>5, <1>9 DEF OutAt, ch
<1>12. InAt(dh) = InAt(ch)
  BY <1>1, <1>3, <1>5, <1>9 DEF InAt, ch
<1> QED
  BY <1>4, <1>6, <1>7, <1>8, <1>10, <1>11, <1>12 DEF ListOK, dh, ch

(* What numbers tell of the entries.                                        *)
LEMMA EntryOf ==
  ASSUME NEW ch \in Seq(LogicalChan), ListOK(ch), NumbersApart
  PROVE  /\ \A n \in OutAt(ch, "PROPOSED") \cup OutAt(ch, "ESTABLISHED") : n \in Own
         /\ OutAt(ch, "PROPOSED") \cap OutAt(ch, "ESTABLISHED") = {}
         /\ InAt(ch) \subseteq PeerChan
         /\ \A i \in DOMAIN ch :
              /\ ch[i].dir = "receive" => ch[i].channelNo \in InAt(ch)
              /\ ch[i].dir = "transmit" =>
                   \/ ch[i].state = "PROPOSED" /\ ch[i].channelNo \in OutAt(ch, "PROPOSED")
                   \/ ch[i].state = "ESTABLISHED" /\ ch[i].channelNo \in OutAt(ch, "ESTABLISHED")
              /\ ch[i].dir \in {"transmit", "receive"}
         /\ OutAt(ch, "PROPOSED") = {} /\ OutAt(ch, "ESTABLISHED") = {} /\ InAt(ch) = {}
              => ch = << >>
<1>1. \A i \in DOMAIN ch :
        /\ ch[i].channelNo \in Nat /\ ch[i].dir \in {"transmit", "receive"}
        /\ ch[i].state \in {"IDLE", "PROPOSED", "ESTABLISHED"}
  <2>1. \A i \in DOMAIN ch : ch[i] \in LogicalChan
    OBVIOUS
  <2> QED
    BY <2>1 DEF LogicalChan
<1>2. \A n \in OutAt(ch, "PROPOSED") \cup OutAt(ch, "ESTABLISHED") : n \in Own
  BY DEF OutAt, ListOK, Numbered
<1>3. OutAt(ch, "PROPOSED") \cap OutAt(ch, "ESTABLISHED") = {}
  BY DEF OutAt, ListOK, Distinct
<1>4. InAt(ch) \subseteq PeerChan
  BY DEF InAt, ListOK, Numbered
<1>5. ASSUME NEW i \in DOMAIN ch
      PROVE  /\ ch[i].dir = "receive" => ch[i].channelNo \in InAt(ch)
             /\ ch[i].dir = "transmit" =>
                  \/ ch[i].state = "PROPOSED" /\ ch[i].channelNo \in OutAt(ch, "PROPOSED")
                  \/ ch[i].state = "ESTABLISHED" /\ ch[i].channelNo \in OutAt(ch, "ESTABLISHED")
  BY <1>1 DEF InAt, OutAt, ListOK, Numbered
<1>6. ASSUME OutAt(ch, "PROPOSED") = {}, OutAt(ch, "ESTABLISHED") = {}, InAt(ch) = {}
      PROVE  ch = << >>
  <2>1. DOMAIN ch = {}
    BY <1>1, <1>5, <1>6
  <2> QED
    BY <2>1
<1> QED
  BY <1>1, <1>2, <1>3, <1>4, <1>5, <1>6

LEMMA EmptyList ==
  /\ ListOK(<< >>) /\ InAt(<< >>) = {}
  /\ \A st : OutAt(<< >>, st) = {}
  BY DEF ListOK, Numbered, Distinct, OnePerMedia, InAt, OutAt
-----------------------------------------------------------------------------
(* The messages of this end that the peer has not read                      *)

Written == {"OLC", "OLCAck", "OLCReject", "CLC", "CLCAck", "RCCAck", "TCS", "TCSAck", "MSDAck"}

(* What the peer waits for before it goes on.                               *)
Marks == {"TCSAck", "TCS", "MSDAck"}

(* The channels that messages of a type name, and the marks on their way.   *)
NamedIn(s, t) == {n \in Nat : \E i \in DOMAIN s : s[i].type = t /\ s[i].chan = n}
MarksIn(s)    == {t \in Marks : \E i \in DOMAIN s : s[i].type = t}

(* No mark, no proposal and no closing is there twice; channels are closed  *)
(* before capabilities are sent again, and proposed after the roles are     *)
(* told.                                                                    *)
Alike(m, n) ==
  m.type = n.type /\ (m.type \in Marks \/ (m.type \in {"OLC", "CLC"} /\ m.chan = n.chan))
MayFollow(m, n) ==
  /\ m.type = "TCS" => n.type \notin {"TCSAck", "CLC"}
  /\ m.type = "MSDAck" => n.type \notin {"TCSAck", "TCS"}
  /\ m.type = "OLC" => n.type # "MSDAck"

Orderly(s) ==
  /\ \A i \in DOMAIN s : s[i].type \in Written
  /\ \A i, j \in DOMAIN s : i < j => ~Alike(s[i], s[j]) /\ MayFollow(s[i], s[j])

LEMMA AppendOrderly ==
  ASSUME NEW s \in Seq(Message), Orderly(s), NEW m \in Message, m.type \in Written,
         \A i \in DOMAIN s : ~Alike(s[i], m) /\ MayFollow(s[i], m)
  PROVE  /\ Append(s, m) \in Seq(Message) /\ Orderly(Append(s, m))
         /\ \A t : NamedIn(Append(s, m), t) =
                     NamedIn(s, t) \cup {n \in Nat : m.type = t /\ m.chan = n}
         /\ MarksIn(Append(s, m)) = MarksIn(s) \cup ({m.type} \cap Marks)
<1> DEFINE d == Append(s, m)
           N == Len(s)
<1>1. /\ d \in Seq(Message) /\ DOMAIN d = 1 .. N + 1 /\ DOMAIN s = 1 .. N /\ N \in Nat
      /\ \A i \in 1 .. N : d[i] = s[i]
      /\ d[N + 1] = m
  OBVIOUS
<1>2. /\ \A i \in DOMAIN d : i \in DOMAIN s \/ i = N + 1
      /\ \A i \in DOMAIN s : i \in DOMAIN d /\ i # N + 1 /\ d[i] = s[i]
      /\ N + 1 \in DOMAIN d
      /\ \A i, j \in DOMAIN d : i < j => i \in DOMAIN s
  BY <1>1
<1> HIDE DEF d, N
<1>3. Orderly(d)
  BY <1>1, <1>2 DEF Orderly
<1>4. ASSUME NEW t
      PROVE  NamedIn(d, t) = NamedIn(s, t) \cup {n \in Nat : m.type = t /\ m.chan = n}
  BY <1>1, <1>2 DEF NamedIn
<1>5. MarksIn(d) = MarksIn(s) \cup ({m.type} \cap Marks)
  BY <1>1, <1>2 DEF MarksIn
<1> QED
  BY <1>1, <1>3, <1>4, <1>5 DEF d

(* An answer: nothing anybody waits for.                                    *)
LEMMA AnswerOrderly ==
  ASSUME NEW s \in Seq(Message), Orderly(s), NEW m \in Message,
         m.type \in {"OLCAck", "OLCReject", "CLCAck", "RCCAck"}
  PROVE  /\ Append(s, m) \in Seq(Message) /\ Orderly(Append(s, m))
         /\ NamedIn(Append(s, m), "OLC") = NamedIn(s, "OLC")
         /\ NamedIn(Append(s, m), "CLC") = NamedIn(s, "CLC")
         /\ MarksIn(Append(s, m)) = MarksIn(s)
<1>1. \A i \in DOMAIN s : ~Alike(s[i], m) /\ MayFollow(s[i], m)
  BY DEF Alike, MayFollow, Marks
<1>2. m.type \in Written /\ m.type \notin Marks
  BY DEF Written, Marks
<1>3. /\ Append(s, m) \in Seq(Message) /\ Orderly(Append(s, m))
      /\ \A t : NamedIn(Append(s, m), t) =
                  NamedIn(s, t) \cup {n \in Nat : m.type = t /\ m.chan = n}
      /\ MarksIn(Append(s, m)) = MarksIn(s) \cup ({m.type} \cap Marks)
  BY <1>1, <1>2, AppendOrderly
<1> QED
  BY <1>2, <1>3

(* A proposal or a closing.                                                 *)
LEMMA ChannelOrderly ==
  ASSUME NEW s \in Seq(Message), Orderly(s), NEW m \in Message, NEW t \in {"OLC", "CLC"},
         m.type = t, m.chan \notin NamedIn(s, t), t = "CLC" => "TCS" \notin MarksIn(s)
  PROVE  /\ Append(s, m) \in Seq(Message) /\ Orderly(Append(s, m))
         /\ NamedIn(Append(s, m), t) = NamedIn(s, t) \cup {m.chan}
         /\ \A u \in {"OLC", "CLC"} \ {t} : NamedIn(Append(s, m), u) = NamedIn(s, u)
         /\ MarksIn(Append(s, m)) = MarksIn(s)
<1>0. m.chan \in Nat
  BY MessageFields DEF ChanMsg
<1>1. \A i \in DOMAIN s : ~Alike(s[i], m) /\ MayFollow(s[i], m)
  BY <1>0 DEF Alike, MayFollow, Marks, NamedIn, MarksIn
<1>2. m.type \in Written /\ m.type \notin Marks
  BY DEF Written, Marks
<1>3. /\ Append(s, m) \in Seq(Message) /\ Orderly(Append(s, m))
      /\ \A u : NamedIn(Append(s, m), u) =
                  NamedIn(s, u) \cup {n \in Nat : m.type = u /\ m.chan = n}
      /\ MarksIn(Append(s, m)) = MarksIn(s) \cup ({m.type} \cap Marks)
  BY <1>1, <1>2, AppendOrderly
<1>4. {n \in Nat : m.type = t /\ m.chan = n} = {m.chan}
  BY <1>0
<1>5. \A u \in {"OLC", "CLC"} \ {t} : {n \in Nat : m.type = u /\ m.chan = n} = {}
  OBVIOUS
<1>6. {m.type} \cap Marks = {}
  BY <1>2
<1> QED
  BY <1>3, <1>4, <1>5, <1>6

(* A mark: none of its kind is there, and what must not come before it.     *)
LEMMA MarkOrderly ==
  ASSUME NEW s \in Seq(Message), Orderly(s), NEW m \in Message, m.type \in Marks,
         m.type \notin MarksIn(s),
         m.type = "TCSAck" => MarksIn(s) = {},
         m.type = "TCS" => "MSDAck" \notin MarksIn(s),
         m.type = "MSDAck" => NamedIn(s, "OLC") = {}
  PROVE  /\ Append(s, m) \in Seq(Message) /\ Orderly(Append(s, m))
         /\ NamedIn(Append(s, m), "OLC") = NamedIn(s, "OLC")
         /\ NamedIn(Append(s, m), "CLC") = NamedIn(s, "CLC")
         /\ MarksIn(Append(s, m)) = MarksIn(s) \cup {m.type}
<1>1. \A i \in DOMAIN s : s[i].type = "OLC" => s[i].chan \in NamedIn(s, "OLC")
  <2> SUFFICES ASSUME NEW i \in DOMAIN s, s[i].type = "OLC"
               PROVE  s[i].chan \in NamedIn(s, "OLC")
    OBVIOUS
  <2>1. s[i] \in Message
    OBVIOUS
  <2>2. s[i].chan \in Nat
    BY <2>1, MessageFields
  <2> QED
    BY <2>2 DEF NamedIn
<1>2. \A i \in DOMAIN s : ~Alike(s[i], m) /\ MayFollow(s[i], m)
  BY <1>1 DEF Alike, MayFollow, Marks, MarksIn
<1>3. m.type \in Written /\ m.type \notin {"OLC", "CLC"}
  BY DEF Written, Marks
<1>4. /\ Append(s, m) \in Seq(Message) /\ Orderly(Append(s, m))
      /\ \A t : NamedIn(Append(s, m), t) =
                  NamedIn(s, t) \cup {n \in Nat : m.type = t /\ m.chan = n}
      /\ MarksIn(Append(s, m)) = MarksIn(s) \cup ({m.type} \cap Marks)
  BY <1>2, <1>3, AppendOrderly
<1> QED
  BY <1>3, <1>4

(* The peer reads the first message.                                        *)
LEMMA HeadOrderly ==
  ASSUME NEW s \in Seq(Message), Orderly(s), s # << >>
  PROVE  LET m == Head(s)
             r == Tail(s)
         IN  /\ m \in Message /\ r \in Seq(Message) /\ Orderly(r) /\ m.type \in Written
             /\ \A t \in {"OLC", "CLC"} :
                  NamedIn(r, t) = NamedIn(s, t) \ {n \in Nat : m.type = t /\ m.chan = n}
             /\ MarksIn(r) = MarksIn(s) \ {m.type}
             /\ m.type \in {"OLC", "CLC"} => m.chan \in NamedIn(s, m.type)
             /\ m.type \in Marks => m.type \in MarksIn(s)
             /\ m.type = "TCS" => NamedIn(s, "CLC") = {} /\ "TCSAck" \notin MarksIn(s)
             /\ m.type = "MSDAck" => MarksIn(s) = {"MSDAck"}
             /\ m.type = "OLC" => "MSDAck" \notin MarksIn(s)
<1> DEFINE m == Head(s)
           r == Tail(s)
           N == Len(s)
<1>1. /\ m \in Message /\ r \in Seq(Message) /\ m = s[1] /\ 1 \in DOMAIN s
      /\ N \in Nat /\ N > 0 /\ DOMAIN s = 1 .. N /\ DOMAIN r = 1 .. N - 1
      /\ \A i \in 1 .. N - 1 : r[i] = s[i + 1]
  OBVIOUS
<1>2. /\ \A i \in DOMAIN r : i + 1 \in DOMAIN s /\ r[i] = s[i + 1] /\ 1 < i + 1
      /\ \A i, j \in DOMAIN r : i < j => i + 1 < j + 1
      /\ \A i \in DOMAIN s : i # 1 => (i - 1 \in DOMAIN r /\ s[i] = r[i - 1] /\ 1 < i)
  BY <1>1
<1> HIDE DEF m, r, N
<1>3. Orderly(r) /\ m.type \in Written
  BY <1>1, <1>2 DEF Orderly
<1>4. \A i \in DOMAIN r : ~Alike(m, r[i]) /\ MayFollow(m, r[i])
  BY <1>1, <1>2 DEF Orderly
<1>5. ASSUME NEW t \in {"OLC", "CLC"}
      PROVE  NamedIn(r, t) = NamedIn(s, t) \ {n \in Nat : m.type = t /\ m.chan = n}
  <2>1. \A n \in NamedIn(r, t) : n \in NamedIn(s, t)
    BY <1>2 DEF NamedIn
  <2>2. \A n \in NamedIn(r, t) : ~(m.type = t /\ m.chan = n)
    BY <1>4 DEF NamedIn, Alike
  <2>3. \A n \in NamedIn(s, t) : n \in NamedIn(r, t) \/ (m.type = t /\ m.chan = n)
    BY <1>1, <1>2 DEF NamedIn
  <2>4. NamedIn(s, t) \subseteq Nat
    BY DEF NamedIn
  <2> QED
    BY <2>1, <2>2, <2>3, <2>4
<1>6. MarksIn(r) = MarksIn(s) \ {m.type}
  <2>1. \A t \in MarksIn(r) : t \in MarksIn(s) /\ t # m.type
    BY <1>2, <1>4 DEF MarksIn, Alike
  <2>2. \A t \in MarksIn(s) : t \in MarksIn(r) \/ t = m.type
    BY <1>1, <1>2 DEF MarksIn
  <2> QED
    BY <2>1, <2>2
<1>7. m.type \in {"OLC", "CLC"} => m.chan \in NamedIn(s, m.type)
  <2>1. m.type \in {"OLC", "CLC"} => m.chan \in Nat
    BY <1>1, MessageFields DEF ChanMsg
  <2> QED
    BY <1>1, <2>1 DEF NamedIn
<1>8. m.type \in Marks => m.type \in MarksIn(s)
  BY <1>1 DEF MarksIn
<1>9. m.type = "TCS" => NamedIn(s, "CLC") = {} /\ "TCSAck" \notin MarksIn(s)
  <2> SUFFICES ASSUME m.type = "TCS"
               PROVE  NamedIn(s, "CLC") = {} /\ "TCSAck" \notin MarksIn(s)
    OBVIOUS
  <2>1. \A i \in DOMAIN s : s[i].type \notin {"TCSAck", "CLC"}
    BY <1>1, <1>2, <1>4 DEF MayFollow
  <2> QED
    BY <2>1 DEF NamedIn, MarksIn
<1>10. m.type = "MSDAck" => MarksIn(s) = {"MSDAck"}
  <2> SUFFICES ASSUME m.type = "MSDAck"
               PROVE  MarksIn(s) = {"MSDAck"}
    OBVIOUS
  <2>1. \A i \in DOMAIN s : s[i].type \notin {"TCSAck", "TCS"}
    BY <1>1, <1>2, <1>4 DEF MayFollow
  <2> QED
    BY <1>8, <2>1 DEF MarksIn, Marks
<1>11. m.type = "OLC" => "MSDAck" \notin MarksIn(s)
  <2> SUFFICES ASSUME m.type = "OLC"
               PROVE  "MSDAck" \notin MarksIn(s)
    OBVIOUS
  <2>1. \A i \in DOMAIN s : s[i].type # "MSDAck"
    BY <1>1, <1>2, <1>4 DEF MayFollow
  <2> QED
    BY <2>1 DEF MarksIn
<1> QED
  BY <1>1, <1>3, <1>5, <1>6, <1>7, <1>8, <1>9, <1>10, <1>11 DEF m, r
-----------------------------------------------------------------------------
(* What the handlers do to a call that is not tunnelled and has its socket  *)

(* The timers that run while channels are opened and closed.                *)
TimersOK(c) == \A t \in c.timers : t.type \in {"TCS", "OLC", "CLC"}

Plainly(c) ==
  /\ c.flags = {} /\ c.h245Sock = "open" /\ c.logicalChanNoCur \in Own /\ TimersOK(c)
  /\ c.masterSlaveState # "DetermineSent"   \* this end determines nothing by itself
  /\ \A i \in DOMAIN Sent245(c) : Sent245(c)[i].type \in Written

(* d is c but for its timers and counters, the list ch, and s to be read.   *)
Effect(c, d, ch, s) ==
  /\ d \in Call /\ d.callState = c.callState
  /\ d.flags = c.flags /\ d.h245Sock = c.h245Sock /\ d.h245SessionState = c.h245SessionState
  /\ d.localTermCapState = c.localTermCapState /\ d.remoteTermCapState = c.remoteTermCapState
  /\ d.masterSlaveState = c.masterSlaveState /\ d.remoteTermCapSeqNo = c.remoteTermCapSeqNo
  /\ c.logicalChanNoCur \in Own => d.logicalChanNoCur \in Own
  /\ TimersOK(c) => TimersOK(d)
  /\ d.logicalChans = ch /\ Sent245(d) = s

LEMMA FineWorld == Fine \in World
  BY ConstantsAssumption DEF Fine, World, DetNumber

LEMMA EffectTransitive ==
  ASSUME NEW b, NEW c, NEW d, NEW ch, NEW s, NEW dh, NEW r,
         Effect(b, c, ch, s), Effect(c, d, dh, r)
  PROVE  Effect(b, d, dh, r)
  BY DEF Effect

LEMMA SentType ==
  ASSUME NEW c \in Call
  PROVE  /\ Sent245(c) \in Seq(Message) /\ c.logicalChans \in Seq(LogicalChan)
         /\ c.h245Out \in Seq(Message) /\ c.h245Net \in Seq(Message)
  BY DEF Call, Sent245

LEMMA SendEffect ==
  ASSUME NEW c \in Call, c.flags = {}, NEW m \in Message, m.type # "EndSession"
  PROVE  Effect(c, SendH245(Fine, c, m), c.logicalChans, Append(Sent245(c), m))
<1> DEFINE d == [c EXCEPT !.h245Out = Append(@, m)]
<1>1. SendH245(Fine, c, m) = d
  BY DEF SendH245, Has
<1>2. d \in Call
  <2>1. Append(c.h245Out, m) \in Seq(Message)
    BY SentType
  <2> QED
    BY <2>1 DEF Call
<1>3. Sent245(d) = Append(Sent245(c), m)
  <2>1. d.h245Net = c.h245Net /\ d.h245Out = Append(c.h245Out, m)
    BY DEF Call
  <2>2. c.h245Net \in Seq(Message) /\ c.h245Out \in Seq(Message)
    BY SentType
  <2> HIDE DEF d
  <2> DEFINE net == c.h245Net
             out == c.h245Out
  <2> HIDE DEF net, out
  <2>3. net \o Append(out, m) = Append(net \o out, m)
    <3>1. net \in Seq(Message) /\ out \in Seq(Message)
      BY <2>2 DEF net, out
    <3> QED
      BY <3>1, QueueAppends
  <2> QED
    BY <2>1, <2>3 DEF Sent245, net, out
<1>4. /\ d.callState = c.callState
      /\ d.flags = c.flags /\ d.h245Sock = c.h245Sock /\ d.h245SessionState = c.h245SessionState
      /\ d.localTermCapState = c.localTermCapState /\ d.remoteTermCapState = c.remoteTermCapState
      /\ d.masterSlaveState = c.masterSlaveState /\ d.remoteTermCapSeqNo = c.remoteTermCapSeqNo
      /\ d.logicalChanNoCur = c.logicalChanNoCur /\ d.timers = c.timers
      /\ d.logicalChans = c.logicalChans
  BY DEF Call
<1> HIDE DEF d
<1>5. TimersOK(c) => TimersOK(d)
  BY <1>4 DEF TimersOK
<1> QED
  BY <1>1, <1>2, <1>3, <1>4, <1>5 DEF Effect

LEMMA TimerEffect ==
  ASSUME NEW c \in Call, NEW t \in TimerType, NEW n \in Nat
  PROVE  Effect(c, StopTimer(c, t, n), c.logicalChans, Sent245(c))
<1> DEFINE d == StopTimer(c, t, n)
<1>1. d \in Call
  BY TimerRoutine, RoutineType
<1>2. /\ d.callState = c.callState
      /\ d.flags = c.flags /\ d.h245Sock = c.h245Sock /\ d.h245SessionState = c.h245SessionState
      /\ d.localTermCapState = c.localTermCapState /\ d.remoteTermCapState = c.remoteTermCapState
      /\ d.masterSlaveState = c.masterSlaveState /\ d.remoteTermCapSeqNo = c.remoteTermCapSeqNo
      /\ d.logicalChanNoCur = c.logicalChanNoCur /\ d.timers \subseteq c.timers
      /\ d.logicalChans = c.logicalChans
      /\ d.h245Net = c.h245Net /\ d.h245Out = c.h245Out
  BY DEF Call, StopTimer
<1> HIDE DEF d
<1> QED
  BY <1>1, <1>2 DEF Effect, TimersOK, Sent245, d

LEMMA ListEffect ==
  ASSUME NEW c \in Call, NEW ch \in Seq(LogicalChan)
  PROVE  Effect(c, [c EXCEPT !.logicalChans = ch], ch, Sent245(c))
<1> DEFINE d == [c EXCEPT !.logicalChans = ch]
<1>1. d \in Call
  BY ChansRoutine, RoutineType
<1>2. /\ d.callState = c.callState
      /\ d.flags = c.flags /\ d.h245Sock = c.h245Sock /\ d.h245SessionState = c.h245SessionState
      /\ d.localTermCapState = c.localTermCapState /\ d.remoteTermCapState = c.remoteTermCapState
      /\ d.masterSlaveState = c.masterSlaveState /\ d.remoteTermCapSeqNo = c.remoteTermCapSeqNo
      /\ d.logicalChanNoCur = c.logicalChanNoCur /\ d.timers = c.timers
      /\ d.logicalChans = ch
      /\ d.h245Net = c.h245Net /\ d.h245Out = c.h245Out
  BY DEF Call
<1> HIDE DEF d
<1> QED
  BY <1>1, <1>2 DEF Effect, TimersOK, Sent245, d

LEMMA ClearEffect ==
  ASSUME NEW c \in Call, NEW n
  PROVE  Effect(c, ClearChan(c, n), ClearChan(c, n).logicalChans, Sent245(c))
<1>1. ClearChan(c, n) \in Call
  BY ClearChanRoutine, RoutineType
<1>2. ClearChan(c, n) = [c EXCEPT !.logicalChans = ClearChan(c, n).logicalChans]
  BY DEF ClearChan, Call
<1>3. ClearChan(c, n).logicalChans \in Seq(LogicalChan)
  BY <1>1, SentType
<1> QED
  BY <1>2, <1>3, ListEffect

(* Two calls with the same list look a number up alike.                     *)
LEMMA ClearAlike ==
  ASSUME NEW c \in Call, NEW d \in Call, NEW n, c.logicalChans = d.logicalChans
  PROVE  ClearChan(c, n).logicalChans = ClearChan(d, n).logicalChans
  BY DEF ClearChan, Call

LEMMA EntryEffect ==
  ASSUME NEW c \in Call, NEW i, NEW b \in Call, b.logicalChans = c.logicalChans
  PROVE  Effect(c, SetChanState(StartChan(c, i), i, "ESTABLISHED"),
                SetChanState(StartChan(b, i), i, "ESTABLISHED").logicalChans, Sent245(c))
<1> DEFINE d  == SetChanState(StartChan(c, i), i, "ESTABLISHED")
           ch == SetChanState(StartChan(b, i), i, "ESTABLISHED").logicalChans
<1>1. d \in Call
  <2>1. StartChan(c, i) \in Call
    BY EntryRoutine, RoutineType
  <2> QED
    BY <2>1, EntryRoutine, RoutineType
<1>2. d = [c EXCEPT !.logicalChans = ch] /\ d.logicalChans = ch
  <2> DEFINE e    == StartChan(c, i)
             f    == StartChan(b, i)
             mine == e.logicalChans
             last == [mine EXCEPT ![i].state = "ESTABLISHED"]
  <2>1. e \in Call /\ f \in Call
    BY EntryRoutine, RoutineType
  <2>2. f.logicalChans = mine /\ e = [c EXCEPT !.logicalChans = mine]
    BY DEF StartChan, Call
  <2> HIDE DEF e, f
  <2>3. d = [e EXCEPT !.logicalChans = last] /\ d.logicalChans = last
    BY <2>1 DEF SetChanState, Call, e
  <2>4. ch = last
    BY <2>1, <2>2 DEF SetChanState, Call, f
  <2> HIDE DEF d, ch, mine, last
  <2> QED
    BY <2>2, <2>3, <2>4 DEF Call
<1>3. ch \in Seq(LogicalChan)
  BY <1>1, <1>2, SentType
<1> HIDE DEF d, ch
<1> QED
  BY <1>2, <1>3, ListEffect DEF d, ch
-----------------------------------------------------------------------------
(* What each handler does to such a call                                    *)

LEMMA MarkClearEnds ==
  ASSUME NEW c \in Call
  PROVE  MarkClear(c) \in Call /\ ~(MarkClear(c).callState < CLEAR)
<1>1. MarkClear(c) \in Call
  BY MarkClearRoutine, RoutineType
<1>2. c.callState \in Nat /\ CLEAR \in Nat
  BY StateValues DEF Call
<1>3. MarkClear(c).callState = IF c.callState < CLEAR THEN CLEAR ELSE c.callState
  BY DEF MarkClear, Call
<1> QED
  BY <1>1, <1>2, <1>3

LEMMA EffectType ==
  ASSUME NEW c, NEW d, NEW ch, NEW s, Effect(c, d, ch, s)
  PROVE  d \in Call
  BY DEF Effect

LEMMA EffectReflexive ==
  ASSUME NEW c \in Call
  PROVE  Effect(c, c, c.logicalChans, Sent245(c))
  BY DEF Effect

(* A proposal of the peer: the channel is entered, or refused.              *)
LEMMA OLCEffect ==
  ASSUME NEW c \in Call, c.flags = {}, NEW m \in Message, m.type = "OLC", m.session # 0
  PROVE  LET d == HandleOLC(Local, Fine, c, m)
             x == [channelNo |-> m.chan, session |-> m.session, dir |-> "receive",
                   cap |-> m.cap, state |-> "ESTABLISHED", started |-> TRUE]
         IN  IF m.cap \in CanRx[Local]
             THEN /\ x \in LogicalChan
                  /\ Effect(c, d, Append(c.logicalChans, x),
                            Append(Sent245(c), ChanMsgOf("OLCAck", m.chan)))
             ELSE Effect(c, d, c.logicalChans,
                         Append(Sent245(c), ChanMsgOf("OLCReject", m.chan)))
<1> DEFINE d == HandleOLC(Local, Fine, c, m)
           x == [channelNo |-> m.chan, session |-> m.session, dir |-> "receive",
                 cap |-> m.cap, state |-> "ESTABLISHED", started |-> TRUE]
           y == [channelNo |-> m.chan, session |-> m.session, dir |-> "receive",
                 cap |-> m.cap, state |-> "IDLE", started |-> FALSE]
           ch == c.logicalChans
<1>1. m.chan \in Nat /\ m.cap \in Cap /\ m.session \in Nat
  BY MessageFields
<1>2. /\ ChanMsgOf("OLCAck", m.chan) \in Message /\ ChanMsgOf("OLCReject", m.chan) \in Message
      /\ ChanMsgOf("OLCAck", m.chan).type # "EndSession"
      /\ ChanMsgOf("OLCReject", m.chan).type # "EndSession"
  BY <1>1, UntrackedMessages DEF ChanMsg, ChanMsgOf
<1>3. CASE m.cap \notin CanRx[Local]
  BY <1>2, <1>3, SendEffect DEF HandleOLC
<1>4. CASE m.cap \in CanRx[Local]
  <2>1. x \in LogicalChan /\ y \in LogicalChan /\ ch \in Seq(LogicalChan)
    BY <1>1, SentType DEF LogicalChan
  <2> DEFINE a == [c EXCEPT !.logicalChans = Append(ch, y)]
             b == SendH245(Fine, a, ChanMsgOf("OLCAck", m.chan))
             i == Len(b.logicalChans)
  <2>2. d = SetChanState(StartChan(b, i), i, "ESTABLISHED")
    <3>1. AddChanIn(c, m.chan, m.session, "receive", m.cap, "IDLE") = a
      BY DEF AddChanIn, Call
    <3> QED
      BY <1>4, <3>1 DEF HandleOLC
  <2>3. Append(ch, y) \in Seq(LogicalChan)
    BY <2>1
  <2>4. Effect(c, a, Append(ch, y), Sent245(c))
    BY <2>3, ListEffect
  <2>5. a \in Call /\ a.flags = {} /\ a.logicalChans = Append(ch, y) /\ Sent245(a) = Sent245(c)
    BY <2>4 DEF Effect
  <2> HIDE DEF a, d
  <2>6. Effect(a, b, Append(ch, y), Append(Sent245(c), ChanMsgOf("OLCAck", m.chan)))
    BY <1>2, <2>5, SendEffect
  <2>7. b \in Call /\ b.logicalChans = Append(ch, y)
        /\ Sent245(b) = Append(Sent245(c), ChanMsgOf("OLCAck", m.chan))
    BY <2>6 DEF Effect
  <2> HIDE DEF b
  <2> DEFINE r == SetChanState(StartChan(b, i), i, "ESTABLISHED").logicalChans
  <2>8. Effect(b, d, r, Sent245(b))
    BY <2>2, <2>7, EntryEffect
  <2>9. r = Append(ch, x)
    <3>1. r = [[Append(ch, y) EXCEPT ![i].started = TRUE] EXCEPT ![i].state = "ESTABLISHED"]
      BY <2>7 DEF SetChanState, StartChan, Call
    <3>2. i = Len(ch) + 1 /\ Len(ch) \in Nat
      BY <2>1, <2>7
    <3> HIDE DEF i, r
    <3> HIDE DEF x, y, ch
    <3>3. /\ Len(Append(ch, y)) = Len(ch) + 1 /\ Append(ch, y)[Len(ch) + 1] = y
          /\ \A j \in 1 .. Len(ch) : Append(ch, y)[j] = ch[j]
      BY <2>1
    <3>4. [[y EXCEPT !.started = TRUE] EXCEPT !.state = "ESTABLISHED"] = x
      <4> DEFINE z == [[y EXCEPT !.started = TRUE] EXCEPT !.state = "ESTABLISHED"]
      <4>1. z \in LogicalChan
        BY <2>1 DEF LogicalChan
      <4>2. /\ z.channelNo = y.channelNo /\ z.session = y.session /\ z.dir = y.dir
            /\ z.cap = y.cap /\ z.state = "ESTABLISHED" /\ z.started = TRUE
        BY <2>1 DEF LogicalChan
      <4> HIDE DEF z
      <4>3. /\ y.channelNo = x.channelNo /\ y.session = x.session /\ y.dir = x.dir
            /\ y.cap = x.cap /\ x.state = "ESTABLISHED" /\ x.started = TRUE
        BY DEF x, y
      <4>4. z = x
        BY <2>1, <4>1, <4>2, <4>3 DEF LogicalChan
      <4> QED
        BY <4>4 DEF z
    <3>5. r = [Append(ch, y) EXCEPT ![i] = x]
      BY <2>1, <3>1, <3>2, <3>3, <3>4
    <3>6. /\ Append(ch, x) \in Seq(LogicalChan) /\ Len(Append(ch, x)) = Len(ch) + 1
          /\ \A j \in 1 .. Len(ch) : Append(ch, x)[j] = ch[j]
          /\ Append(ch, x)[Len(ch) + 1] = x
      BY <2>1, AppendProperties
    <3>7. i \in 1 .. Len(Append(ch, y))
      BY <3>2, <3>3
    <3>8. /\ r \in Seq(LogicalChan) /\ Len(r) = Len(Append(ch, y))
          /\ \A j \in 1 .. Len(Append(ch, y)) : r[j] = IF j = i THEN x ELSE Append(ch, y)[j]
      <4> DEFINE q == Append(ch, y)
      <4>1. q \in Seq(LogicalChan) /\ i \in 1 .. Len(q)
        BY <2>3, <3>7
      <4> HIDE DEF q
      <4>2. /\ [q EXCEPT ![i] = x] \in Seq(LogicalChan) /\ Len([q EXCEPT ![i] = x]) = Len(q)
            /\ \A j \in 1 .. Len(q) : [q EXCEPT ![i] = x][j] = IF j = i THEN x ELSE q[j]
        BY <2>1, <4>1, ExceptSeq
      <4> QED
        BY <3>5, <4>2 DEF q
    <3>9. \A j \in 1 .. Len(r) : r[j] = Append(ch, x)[j]
      BY <3>2, <3>3, <3>6, <3>8
    <3>10. Len(r) = Len(Append(ch, x))
      BY <3>3, <3>6, <3>8
    <3> QED
      BY <3>6, <3>8, <3>9, <3>10, SeqEqual
  <2> HIDE DEF r, x
  <2>10. Effect(c, d, Append(ch, x), Append(Sent245(c), ChanMsgOf("OLCAck", m.chan)))
    <3>1. Effect(c, b, Append(ch, y), Append(Sent245(c), ChanMsgOf("OLCAck", m.chan)))
      BY <2>4, <2>6, EffectTransitive
    <3> QED
      BY <2>7, <2>8, <2>9, <3>1, EffectTransitive
  <2> QED
    BY <1>4, <2>1, <2>10 DEF x, d
<1> QED
  BY <1>3, <1>4

LEMMA CLCEffect ==
  ASSUME NEW c \in Call, c.flags = {}, NEW m \in Message, m.type = "CLC"
  PROVE  Effect(c, HandleCLC(Fine, c, m), ClearChan(c, m.chan).logicalChans,
                Append(Sent245(c), ChanMsgOf("CLCAck", m.chan)))
<1>1. m.chan \in Nat
  BY MessageFields DEF ChanMsg
<1>2. ChanMsgOf("CLCAck", m.chan) \in Message /\ ChanMsgOf("CLCAck", m.chan).type # "EndSession"
  BY <1>1, UntrackedMessages DEF ChanMsg, ChanMsgOf
<1> DEFINE b == ClearChan(c, m.chan)
<1>3. Effect(c, b, b.logicalChans, Sent245(c))
  BY ClearEffect
<1>4. HandleCLC(Fine, c, m) = SendH245(Fine, b, ChanMsgOf("CLCAck", m.chan))
  BY DEF HandleCLC
<1> HIDE DEF b
<1>5. b \in Call /\ b.flags = {} /\ Sent245(b) = Sent245(c)
  BY <1>3 DEF Effect
<1>6. Effect(b, HandleCLC(Fine, c, m), b.logicalChans,
             Append(Sent245(c), ChanMsgOf("CLCAck", m.chan)))
  BY <1>2, <1>4, <1>5, SendEffect
<1> QED
  BY <1>3, <1>6, EffectTransitive DEF b

(* A channel to be closed: only one of this end's is.                       *)
LEMMA RCCEffect ==
  ASSUME NEW c \in Call, c.flags = {}, NEW m \in Message, m.type = "RCC"
  PROVE  LET i == FindChan(c.logicalChans, m.chan)
             d == HandleRCC(Fine, c, m)
         IN  IF i # 0 /\ c.logicalChans[i].dir = "transmit"
             THEN Effect(c, d, ClearChan(c, m.chan).logicalChans,
                         Append(Append(Sent245(c), ChanMsgOf("RCCAck", m.chan)),
                                ChanMsgOf("CLC", m.chan)))
             ELSE d = c
<1> DEFINE i == FindChan(c.logicalChans, m.chan)
           d == HandleRCC(Fine, c, m)
           n == m.chan
           b == SendH245(Fine, c, ChanMsgOf("RCCAck", n))
           a == SendH245(Fine, b, ChanMsgOf("CLC", n))
<1>1. CASE ~(i # 0 /\ c.logicalChans[i].dir = "transmit")
  BY <1>1 DEF HandleRCC
<1>2. CASE i # 0 /\ c.logicalChans[i].dir = "transmit"
  <2>1. d = ClearChan(a, n)
    BY <1>2 DEF HandleRCC, SendCLC
  <2>2. n \in Nat
    BY MessageFields DEF ChanMsg
  <2>3. /\ ChanMsgOf("RCCAck", n) \in Message /\ ChanMsgOf("CLC", n) \in Message
        /\ ChanMsgOf("RCCAck", n).type # "EndSession" /\ ChanMsgOf("CLC", n).type # "EndSession"
    BY <2>2, UntrackedMessages DEF ChanMsg, ChanMsgOf
  <2>4. Effect(c, b, c.logicalChans, Append(Sent245(c), ChanMsgOf("RCCAck", n)))
    BY <2>3, SendEffect
  <2>5. /\ b \in Call /\ b.flags = {} /\ b.logicalChans = c.logicalChans
        /\ Sent245(b) = Append(Sent245(c), ChanMsgOf("RCCAck", n))
    BY <2>4 DEF Effect
  <2> HIDE DEF d, b
  <2>6. Effect(b, a, c.logicalChans, Append(Sent245(b), ChanMsgOf("CLC", n)))
    BY <2>3, <2>5, SendEffect
  <2>7. a \in Call /\ a.logicalChans = c.logicalChans
        /\ Sent245(a) = Append(Sent245(b), ChanMsgOf("CLC", n))
    BY <2>6 DEF Effect
  <2> HIDE DEF a
  <2>8. Effect(a, d, ClearChan(a, n).logicalChans, Sent245(a))
    BY <2>1, <2>7, ClearEffect
  <2>9. ClearChan(a, n).logicalChans = ClearChan(c, n).logicalChans
    BY <2>7, ClearAlike
  <2>10. Effect(c, a, c.logicalChans, Append(Sent245(b), ChanMsgOf("CLC", n)))
    BY <2>4, <2>6, EffectTransitive
  <2>11. Effect(c, d, ClearChan(c, n).logicalChans, Sent245(a))
    BY <2>8, <2>9, <2>10, EffectTransitive
  <2> QED
    BY <1>2, <2>5, <2>7, <2>11 DEF d
<1> QED
  BY <1>1, <1>2

LEMMA OLCAckEffect ==
  ASSUME NEW c \in Call, NEW m \in Message, m.type = "OLCAck"
  PROVE  LET i == FindChan(c.logicalChans, m.chan)
         IN  Effect(c, HandleOLCAck(c, m),
                    IF i = 0 THEN c.logicalChans
                    ELSE SetChanState(StartChan(c, i), i, "ESTABLISHED").logicalChans,
                    Sent245(c))
<1> DEFINE i == FindChan(c.logicalChans, m.chan)
           b == StopTimer(c, "OLC", m.chan)
           d == HandleOLCAck(c, m)
<1>1. m.chan \in Nat
  BY MessageFields DEF ChanMsg
<1>2. Effect(c, b, c.logicalChans, Sent245(c))
  BY <1>1, TimerEffect DEF TimerType
<1>3. b \in Call /\ b.logicalChans = c.logicalChans /\ Sent245(b) = Sent245(c)
  BY <1>2 DEF Effect
<1>4. d = IF i = 0 THEN b ELSE SetChanState(StartChan(b, i), i, "ESTABLISHED")
  BY <1>3 DEF HandleOLCAck
<1> HIDE DEF i, b, d
<1>5. CASE i = 0
  BY <1>2, <1>4, <1>5 DEF i, d
<1>6. CASE i # 0
  <2>1. Effect(b, d, SetChanState(StartChan(c, i), i, "ESTABLISHED").logicalChans, Sent245(c))
    BY <1>3, <1>4, <1>6, EntryEffect
  <2>2. Effect(c, d, SetChanState(StartChan(c, i), i, "ESTABLISHED").logicalChans, Sent245(c))
    BY <1>2, <2>1, EffectTransitive
  <2> QED
    BY <1>6, <2>2 DEF i, d
<1> QED
  BY <1>5, <1>6

LEMMA OLCRejectEnds ==
  ASSUME NEW c \in Call, NEW m \in Message, m.type = "OLCReject"
  PROVE  HandleOLCReject(c, m) \in Call /\ ~(HandleOLCReject(c, m).callState < CLEAR)
<1>1. m.chan \in Nat
  BY MessageFields DEF ChanMsg
<1>2. StopTimer(c, "OLC", m.chan) \in Call
  BY <1>1, TimerRoutine, RoutineType DEF TimerType
<1> QED
  BY <1>2, MarkClearEnds DEF HandleOLCReject

LEMMA CLCAckEffect ==
  ASSUME NEW c \in Call, NEW m \in Message, m.type = "CLCAck"
  PROVE  Effect(c, StopTimer(c, "CLC", m.chan), c.logicalChans, Sent245(c))
<1>1. m.chan \in Nat
  BY MessageFields DEF ChanMsg
<1> QED
  BY <1>1, TimerEffect DEF TimerType
-----------------------------------------------------------------------------
(* The two procedures                                                       *)

(* As Effect, with new states of the session and the procedures.            *)
Turn(c, d, st, lt, rt, ms, seq, ch, s) ==
  /\ d \in Call /\ d.callState = c.callState
  /\ d.flags = c.flags /\ d.h245Sock = c.h245Sock /\ d.h245SessionState = st
  /\ d.localTermCapState = lt /\ d.remoteTermCapState = rt
  /\ d.masterSlaveState = ms /\ d.remoteTermCapSeqNo = seq
  /\ c.logicalChanNoCur \in Own => d.logicalChanNoCur \in Own
  /\ TimersOK(c) => TimersOK(d)
  /\ d.logicalChans = ch /\ Sent245(d) = s

LEMMA EffectIsTurn ==
  ASSUME NEW c, NEW d, NEW ch, NEW s, Effect(c, d, ch, s)
  PROVE  Turn(c, d, c.h245SessionState, c.localTermCapState, c.remoteTermCapState,
              c.masterSlaveState, c.remoteTermCapSeqNo, ch, s)
  BY DEF Effect, Turn

LEMMA TurnThenTurn ==
  ASSUME NEW b, NEW c, NEW d, NEW st, NEW lt, NEW rt, NEW ms, NEW seq, NEW ch, NEW s,
         NEW su, NEW lu, NEW ru, NEW mu, NEW seu, NEW dh, NEW r,
         Turn(b, c, st, lt, rt, ms, seq, ch, s), Turn(c, d, su, lu, ru, mu, seu, dh, r)
  PROVE  Turn(b, d, su, lu, ru, mu, seu, dh, r)
  BY DEF Turn

(* The states alone.                                                        *)
LEMMA StatesTurn ==
  ASSUME NEW c \in Call, NEW st \in SessionState, NEW lt \in LocalTermCapState,
         NEW rt \in RemoteTermCapState, NEW ms \in MasterSlaveState, NEW seq \in SeqNumber,
         NEW own \in SeqNumber
  PROVE  Turn(c, [c EXCEPT !.h245SessionState = st, !.localTermCapState = lt,
                           !.remoteTermCapState = rt, !.masterSlaveState = ms,
                           !.remoteTermCapSeqNo = seq, !.localTermCapSeqNo = own],
              st, lt, rt, ms, seq, c.logicalChans, Sent245(c))
<1> DEFINE d == [c EXCEPT !.h245SessionState = st, !.localTermCapState = lt,
                          !.remoteTermCapState = rt, !.masterSlaveState = ms,
                          !.remoteTermCapSeqNo = seq, !.localTermCapSeqNo = own]
<1>1. d \in Call
  BY DEF Call
<1>2. /\ d.callState = c.callState
      /\ d.flags = c.flags /\ d.h245Sock = c.h245Sock /\ d.h245SessionState = st
      /\ d.localTermCapState = lt /\ d.remoteTermCapState = rt
      /\ d.masterSlaveState = ms /\ d.remoteTermCapSeqNo = seq
      /\ d.logicalChanNoCur = c.logicalChanNoCur /\ d.timers = c.timers
      /\ d.logicalChans = c.logicalChans
      /\ d.h245Net = c.h245Net /\ d.h245Out = c.h245Out
  BY DEF Call
<1> HIDE DEF d
<1> QED
  BY <1>1, <1>2 DEF Turn, TimersOK, Sent245, d

(* The states of the call record that the handlers below do not change.     *)
LEMMA StatesOf ==
  ASSUME NEW c \in Call
  PROVE  /\ c.h245SessionState \in SessionState /\ c.localTermCapState \in LocalTermCapState
         /\ c.remoteTermCapState \in RemoteTermCapState
         /\ c.masterSlaveState \in MasterSlaveState
         /\ c.remoteTermCapSeqNo \in SeqNumber /\ c.localTermCapSeqNo \in SeqNumber
  BY DEF Call

(* This end's capabilities: sent if they are to be.                         *)
LEMMA SendTermCapTurn ==
  ASSUME NEW c \in Call, c.flags = {}, c.localTermCapState = "Idle"
  PROVE  \E m \in Message :
           /\ m.type = "TCS"
           /\ Turn(c, SendTermCap(Fine, c), c.h245SessionState, "SetSent", c.remoteTermCapState,
                   c.masterSlaveState, c.remoteTermCapSeqNo, c.logicalChans, Append(Sent245(c), m))
<1> DEFINE n == (c.localTermCapSeqNo + 1) % TCSSeqMod
           m == [type |-> "TCS", seq |-> n, caps |-> TRUE]
           a == [c EXCEPT !.localTermCapSeqNo = n, !.localTermCapState = "SetSent"]
           b == [c EXCEPT !.h245SessionState = c.h245SessionState, !.localTermCapState = "SetSent",
                          !.remoteTermCapState = c.remoteTermCapState,
                          !.masterSlaveState = c.masterSlaveState,
                          !.remoteTermCapSeqNo = c.remoteTermCapSeqNo, !.localTermCapSeqNo = n]
<1>1. SendTermCap(Fine, c) = SendH245(Fine, a, m)
  BY DEF SendTermCap
<1>2. n \in SeqNumber
  <2>1. c.localTermCapSeqNo + 1 \in Nat /\ TCSSeqMod \in Nat /\ TCSSeqMod > 1
    BY StatesOf, ConstantsAssumption DEF SeqNumber
  <2> QED
    BY <2>1 DEF SeqNumber
<1> HIDE DEF n
<1>3. m \in Message /\ m.type = "TCS"
  BY <1>2 DEF Message
<1>4. a = b
  BY DEF Call
<1> HIDE DEF m
<1>5. Turn(c, b, c.h245SessionState, "SetSent", c.remoteTermCapState,
           c.masterSlaveState, c.remoteTermCapSeqNo, c.logicalChans, Sent245(c))
  BY <1>2, StatesOf, StatesTurn DEF LocalTermCapState
<1> HIDE DEF a, b
<1>6. /\ a \in Call /\ a.flags = {} /\ a.logicalChans = c.logicalChans /\ Sent245(a) = Sent245(c)
      /\ a.h245SessionState = c.h245SessionState /\ a.localTermCapState = "SetSent"
      /\ a.remoteTermCapState = c.remoteTermCapState /\ a.masterSlaveState = c.masterSlaveState
      /\ a.remoteTermCapSeqNo = c.remoteTermCapSeqNo
  BY <1>4, <1>5 DEF Turn
<1>7. Effect(a, SendTermCap(Fine, c), c.logicalChans, Append(Sent245(c), m))
  BY <1>1, <1>3, <1>6, SendEffect
<1>8. Turn(a, SendTermCap(Fine, c), c.h245SessionState, "SetSent", c.remoteTermCapState,
           c.masterSlaveState, c.remoteTermCapSeqNo, c.logicalChans, Append(Sent245(c), m))
  BY <1>6, <1>7, EffectIsTurn
<1>9. Turn(c, SendTermCap(Fine, c), c.h245SessionState, "SetSent", c.remoteTermCapState,
           c.masterSlaveState, c.remoteTermCapSeqNo, c.logicalChans, Append(Sent245(c), m))
  BY <1>4, <1>5, <1>8, TurnThenTurn
<1> QED
  BY <1>3, <1>9

(* A capability set that is accepted, until channels may be opened.         *)
AnsweredTCS(c, m) ==
  LET c1 == IF c.h245SessionState = "IDLE" THEN [c EXCEPT !.h245SessionState = "ACTIVE"] ELSE c
      c2 == IF m.caps THEN c1 ELSE [c1 EXCEPT !.h245SessionState = "PAUSED"]
  IN  [SendH245(Fine, [c2 EXCEPT !.remoteTermCapSeqNo = m.seq], Msg("TCSAck"))
         EXCEPT !.remoteTermCapState = "AckSent"]

SessionAfter(c, m) ==
  IF ~m.caps THEN "PAUSED" ELSE IF c.h245SessionState = "IDLE" THEN "ACTIVE" ELSE c.h245SessionState

LEMMA AnsweredTCSTurn ==
  ASSUME NEW c \in Call, c.flags = {}, NEW m \in Message, m.type = "TCS"
  PROVE  Turn(c, AnsweredTCS(c, m), SessionAfter(c, m), c.localTermCapState, "AckSent",
              c.masterSlaveState, m.seq, c.logicalChans, Append(Sent245(c), Msg("TCSAck")))
<1> DEFINE st == SessionAfter(c, m)
           c1 == IF c.h245SessionState = "IDLE" THEN [c EXCEPT !.h245SessionState = "ACTIVE"] ELSE c
           c2 == IF m.caps THEN c1 ELSE [c1 EXCEPT !.h245SessionState = "PAUSED"]
           a == [c2 EXCEPT !.remoteTermCapSeqNo = m.seq]
           a2 == [c EXCEPT !.h245SessionState = st, !.localTermCapState = c.localTermCapState,
                           !.remoteTermCapState = c.remoteTermCapState,
                           !.masterSlaveState = c.masterSlaveState,
                           !.remoteTermCapSeqNo = m.seq, !.localTermCapSeqNo = c.localTermCapSeqNo]
           b == SendH245(Fine, a, Msg("TCSAck"))
           d == AnsweredTCS(c, m)
           s == Append(Sent245(c), Msg("TCSAck"))
<1>1. m.seq \in SeqNumber /\ m.caps \in BOOLEAN
  BY MessageFields
<1>2. st \in SessionState
  BY StatesOf DEF SessionAfter, SessionState
<1>3. Msg("TCSAck") \in Message /\ Msg("TCSAck").type # "EndSession"
  BY UntrackedMessages DEF Plain, Msg
<1>4. a = a2
  BY ZenonT(40) DEF Call, SessionAfter
<1>5. d = [b EXCEPT !.remoteTermCapState = "AckSent"]
  BY DEF AnsweredTCS
<1> HIDE DEF a, d, st, c1, c2
<1>6. Turn(c, a, st, c.localTermCapState, c.remoteTermCapState,
           c.masterSlaveState, m.seq, c.logicalChans, Sent245(c))
  BY <1>1, <1>2, <1>4, StatesOf, StatesTurn
<1>7. /\ a \in Call /\ a.flags = {} /\ a.logicalChans = c.logicalChans /\ Sent245(a) = Sent245(c)
      /\ a.h245SessionState = st /\ a.localTermCapState = c.localTermCapState
      /\ a.remoteTermCapState = c.remoteTermCapState /\ a.masterSlaveState = c.masterSlaveState
      /\ a.remoteTermCapSeqNo = m.seq
  BY <1>6 DEF Turn
<1>8. Effect(a, b, c.logicalChans, s)
  BY <1>3, <1>7, SendEffect
<1> HIDE DEF b
<1>9. Turn(a, b, st, c.localTermCapState, c.remoteTermCapState,
           c.masterSlaveState, m.seq, c.logicalChans, s)
  BY <1>7, <1>8, EffectIsTurn
<1>10. /\ b \in Call /\ b.logicalChans = c.logicalChans /\ Sent245(b) = s
       /\ b.h245SessionState = st /\ b.localTermCapState = c.localTermCapState
       /\ b.masterSlaveState = c.masterSlaveState /\ b.remoteTermCapSeqNo = m.seq
  BY <1>9 DEF Turn
<1>11. d = [b EXCEPT !.h245SessionState = b.h245SessionState,
                     !.localTermCapState = b.localTermCapState,
                     !.remoteTermCapState = "AckSent", !.masterSlaveState = b.masterSlaveState,
                     !.remoteTermCapSeqNo = b.remoteTermCapSeqNo,
                     !.localTermCapSeqNo = b.localTermCapSeqNo]
  BY <1>5, <1>10 DEF Call
<1>12. Turn(b, d, st, c.localTermCapState, "AckSent",
            c.masterSlaveState, m.seq, c.logicalChans, s)
  <2>1. "AckSent" \in RemoteTermCapState
    BY DEF RemoteTermCapState
  <2>2. Turn(b, d, b.h245SessionState, b.localTermCapState, "AckSent",
             b.masterSlaveState, b.remoteTermCapSeqNo, b.logicalChans, Sent245(b))
    BY <1>10, <1>11, <2>1, StatesOf, StatesTurn
  <2> QED
    BY <1>10, <2>2
<1>13. Turn(c, b, st, c.localTermCapState, c.remoteTermCapState,
            c.masterSlaveState, m.seq, c.logicalChans, s)
  BY <1>6, <1>9, TurnThenTurn
<1>14. Turn(c, d, st, c.localTermCapState, "AckSent", c.masterSlaveState, m.seq, c.logicalChans, s)
  BY <1>12, <1>13, TurnThenTurn
<1> QED
  BY <1>14 DEF st, d

(* The set is accepted if its number is new.                                *)
LEMMA HandleTCSSteps ==
  ASSUME NEW c \in Call, NEW m \in Message, m.type = "TCS", m.seq > c.remoteTermCapSeqNo
  PROVE  LET a == AnsweredTCS(c, m)
             b == IF a.localTermCapState = "Idle" THEN SendTermCap(Fine, a) ELSE a
         IN  HandleTCS(Local, Fine, c, m) =
               IF CapsExchanged(b) /\ RoleDecided(b) THEN OpenIfNone(Local, Fine, b) ELSE b
<1> DEFINE c1 == IF c.h245SessionState = "IDLE" THEN [c EXCEPT !.h245SessionState = "ACTIVE"] ELSE c
<1>1. c1.remoteTermCapSeqNo = c.remoteTermCapSeqNo
  BY DEF Call
<1>2. c.remoteTermCapSeqNo \in Nat /\ m.seq \in Nat
  BY StatesOf, MessageFields, ConstantsAssumption DEF SeqNumber
<1>3. ~(c1.remoteTermCapSeqNo >= m.seq /\ c1.remoteTermCapSeqNo # 0)
  BY <1>1, <1>2
<1>4. HandleTCS(Local, Fine, c, m) = AcceptTCS(Local, Fine, c1, m)
  BY <1>3 DEF HandleTCS
<1> QED
  BY <1>4, Zenon DEF AcceptTCS, AnsweredTCS

(* The peer's terminal type is another one: it decides.                     *)
LEMMA HandleMSDTurn ==
  ASSUME NEW c \in Call, c.flags = {}, NEW m \in Message, m.type = "MSD",
         m.terminalType # TermType[Local]
  PROVE  \E v \in {"Master", "Slave"}, a \in Message :
           /\ a.type = "MSDAck"
           /\ Turn(c, HandleMSD(Local, Fine, c, m), c.h245SessionState, c.localTermCapState,
                   c.remoteTermCapState, v, c.remoteTermCapSeqNo, c.logicalChans,
                   Append(Sent245(c), a))
<1> DEFINE d == HandleMSD(Local, Fine, c, m)
<1>1. m.terminalType \in Nat /\ TermType[Local] \in Nat
  BY MessageFields, ConstantsAssumption, ChannelsAssumption
<1>2. d \in {BecomeMaster(Fine, c), BecomeSlave(Fine, c)}
  <2>1. CASE m.terminalType < TermType[Local]
    <3>1. m.terminalType # TermType[Local] /\ ~(m.terminalType > TermType[Local])
      BY <1>1, <2>1
    <3> QED
      BY <2>1, <3>1 DEF HandleMSD
  <2>2. CASE m.terminalType > TermType[Local]
    <3>1. m.terminalType # TermType[Local] /\ ~(m.terminalType < TermType[Local])
      BY <1>1, <2>2
    <3> QED
      BY <2>2, <3>1 DEF HandleMSD
  <2> QED
    BY <1>1, <2>1, <2>2
<1>3. ASSUME NEW v \in {"Master", "Slave"}, NEW r \in {"master", "slave"},
             d = [SendH245(Fine, c, [type |-> "MSDAck", decision |-> r]) EXCEPT !.masterSlaveState = v]
      PROVE  \E a \in Message :
               /\ a.type = "MSDAck"
               /\ Turn(c, d, c.h245SessionState, c.localTermCapState,
                       c.remoteTermCapState, v, c.remoteTermCapSeqNo, c.logicalChans,
                       Append(Sent245(c), a))
  <2> DEFINE a == [type |-> "MSDAck", decision |-> r]
             b == SendH245(Fine, c, a)
  <2>1. a \in Message /\ a.type = "MSDAck"
    BY DEF Message
  <2>2. d = [b EXCEPT !.masterSlaveState = v]
    BY <1>3
  <2> HIDE DEF a, d
  <2>3. Effect(c, b, c.logicalChans, Append(Sent245(c), a))
    BY <2>1, SendEffect
  <2> HIDE DEF b
  <2>4. /\ b \in Call /\ b.logicalChans = c.logicalChans
        /\ Sent245(b) = Append(Sent245(c), a)
        /\ b.h245SessionState = c.h245SessionState /\ b.localTermCapState = c.localTermCapState
        /\ b.remoteTermCapState = c.remoteTermCapState
        /\ b.remoteTermCapSeqNo = c.remoteTermCapSeqNo
    BY <2>3 DEF Effect
  <2>5. d = [b EXCEPT !.h245SessionState = b.h245SessionState,
                      !.localTermCapState = b.localTermCapState,
                      !.remoteTermCapState = b.remoteTermCapState, !.masterSlaveState = v,
                      !.remoteTermCapSeqNo = b.remoteTermCapSeqNo,
                      !.localTermCapSeqNo = b.localTermCapSeqNo]
    BY <2>2, <2>4 DEF Call
  <2>6. Turn(b, d, b.h245SessionState, b.localTermCapState, b.remoteTermCapState, v,
             b.remoteTermCapSeqNo, b.logicalChans, Sent245(b))
    <3>1. v \in MasterSlaveState
      BY DEF MasterSlaveState
    <3> QED
      BY <2>4, <2>5, <3>1, StatesOf, StatesTurn
  <2>7. Turn(c, d, c.h245SessionState, c.localTermCapState, c.remoteTermCapState, v,
             c.remoteTermCapSeqNo, c.logicalChans, Append(Sent245(c), a))
    BY <2>3, <2>4, <2>6, EffectIsTurn, TurnThenTurn
  <2> QED
    BY <2>1, <2>7
<1>4. CASE d = BecomeMaster(Fine, c)
  <2>1. d = [SendH245(Fine, c, [type |-> "MSDAck", decision |-> "slave"])
               EXCEPT !.masterSlaveState = "Master"]
    BY <1>4 DEF BecomeMaster
  <2> HIDE DEF d
  <2> QED
    BY <1>3, <2>1 DEF d
<1>5. CASE d = BecomeSlave(Fine, c)
  <2>1. d = [SendH245(Fine, c, [type |-> "MSDAck", decision |-> "master"])
               EXCEPT !.masterSlaveState = "Slave"]
    BY <1>5 DEF BecomeSlave
  <2> HIDE DEF d
  <2> QED
    BY <1>3, <2>1 DEF d
<1> QED
  BY <1>2, <1>4, <1>5

LEMMA TCSAckTurn ==
  ASSUME NEW c \in Call
  PROVE  LET a == [StopTimer(c, "TCS", 0) EXCEPT !.localTermCapState = "AckRecvd"]
         IN  /\ Turn(c, a, c.h245SessionState, "AckRecvd", c.remoteTermCapState,
                     c.masterSlaveState, c.remoteTermCapSeqNo, c.logicalChans, Sent245(c))
             /\ HandleTCSAck(Local, Fine, c) =
                  IF CapsExchanged(a) /\ RoleDecided(a) THEN OpenIfNone(Local, Fine, a) ELSE a
<1> DEFINE b == StopTimer(c, "TCS", 0)
           a == [b EXCEPT !.localTermCapState = "AckRecvd"]
<1>1. Effect(c, b, c.logicalChans, Sent245(c))
  BY TimerEffect DEF TimerType
<1>2. HandleTCSAck(Local, Fine, c) =
        IF CapsExchanged(a) /\ RoleDecided(a) THEN OpenIfNone(Local, Fine, a) ELSE a
  BY DEF HandleTCSAck
<1> HIDE DEF b
<1>3. /\ b \in Call /\ b.logicalChans = c.logicalChans /\ Sent245(b) = Sent245(c)
      /\ b.h245SessionState = c.h245SessionState
      /\ b.remoteTermCapState = c.remoteTermCapState /\ b.masterSlaveState = c.masterSlaveState
      /\ b.remoteTermCapSeqNo = c.remoteTermCapSeqNo
  BY <1>1 DEF Effect
<1>4. a = [b EXCEPT !.h245SessionState = b.h245SessionState, !.localTermCapState = "AckRecvd",
                    !.remoteTermCapState = b.remoteTermCapState,
                    !.masterSlaveState = b.masterSlaveState,
                    !.remoteTermCapSeqNo = b.remoteTermCapSeqNo,
                    !.localTermCapSeqNo = b.localTermCapSeqNo]
  BY <1>3 DEF Call
<1> HIDE DEF a
<1>5. Turn(b, a, b.h245SessionState, "AckRecvd", b.remoteTermCapState, b.masterSlaveState,
           b.remoteTermCapSeqNo, b.logicalChans, Sent245(b))
  <2>1. "AckRecvd" \in LocalTermCapState
    BY DEF LocalTermCapState
  <2> QED
    BY <1>3, <1>4, <2>1, StatesOf, StatesTurn
<1>6. Turn(c, a, c.h245SessionState, "AckRecvd", c.remoteTermCapState,
           c.masterSlaveState, c.remoteTermCapSeqNo, c.logicalChans, Sent245(c))
  BY <1>1, <1>3, <1>5, EffectIsTurn, TurnThenTurn
<1> QED
  BY <1>2, <1>6 DEF a, b

LEMMA MSDAckEffect ==
  ASSUME NEW c \in Call, NEW m, c.masterSlaveState # "DetermineSent"
  PROVE  LET a == StopTimer(c, "MSD", 0)
         IN  /\ Effect(c, a, c.logicalChans, Sent245(c))
             /\ HandleMSDAck(Local, Fine, c, m) =
                  IF CapsExchanged(a) THEN OpenIfNone(Local, Fine, a) ELSE a
<1> DEFINE a == StopTimer(c, "MSD", 0)
<1>1. Effect(c, a, c.logicalChans, Sent245(c))
  BY TimerEffect DEF TimerType
<1>2. a.masterSlaveState # "DetermineSent"
  BY <1>1 DEF Effect
<1> QED
  BY <1>1, <1>2 DEF HandleMSDAck
-----------------------------------------------------------------------------
(* Opening channels, which is done only when there are none                 *)

LEMMA ChoiceMedia ==
  ASSUME NEW e \in Endpoint, NEW c \in Call, NEW t, Choice(e, c, t) # 0
  PROVE  LET cap == Order(e, c)[Choice(e, c, t)]
         IN  cap \in Cap /\ MediaOf[cap] = t
<1> DEFINE s == Order(e, c)
           I == {i \in 1 .. Len(s) : MediaOf[s[i]] = t /\ Contains(JointTx[e], s[i])}
<1>1. s \in Seq(Cap)
  BY ConstantsAssumption DEF Order
<1>2. Choice(e, c, t) = IF I # {} THEN Min(I) ELSE 0
  BY Zenon DEF Choice, SelectInSeq
<1>3. Len(s) \in Nat /\ I \in SUBSET (1 .. Len(s))
  BY <1>1
<1>4. I # {} => Min(I) \in I
  <2> HIDE DEF I
  <2> QED
    BY <1>3, LeastIndex
<1>5. Choice(e, c, t) \in I
  <2> HIDE DEF I
  <2> QED
    BY <1>2, <1>4
<1> HIDE DEF s
<1> QED
  BY <1>1, <1>5 DEF s

(* One proposal: the next number is not this one, where there are two.      *)
LEMMA OpenChannelEffect ==
  ASSUME NEW c \in Call, c.flags = {}, NEW cap \in Cap
  PROVE  \E x \in LogicalChan, m \in Message :
           /\ x.channelNo = c.logicalChanNoCur /\ x.dir = "transmit" /\ x.cap = cap
           /\ x.state = "PROPOSED" /\ m.type = "OLC" /\ m.chan = c.logicalChanNoCur
           /\ Effect(c, OpenChannel(Fine, c, cap), Append(c.logicalChans, x),
                     Append(Sent245(c), m))
           /\ c.logicalChanNoCur \in Own /\ ChanNoBase < ChanNoMax
                => OpenChannel(Fine, c, cap).logicalChanNoCur # c.logicalChanNoCur
<1> DEFINE n == c.logicalChanNoCur
           s == GenerateSession(c, cap, "transmit")
           next == IF n + 1 > ChanNoMax THEN ChanNoBase ELSE n + 1
           c1 == NextChanNo(c)
           t == GenerateSession(c1, cap, "transmit")
           c2 == UseSession(c1, t)
           x == [channelNo |-> n, session |-> t, dir |-> "transmit", cap |-> cap,
                 state |-> "PROPOSED", started |-> FALSE]
           c3 == [c2 EXCEPT !.logicalChans = Append(@, x)]
           m == [type |-> "OLC", chan |-> n, cap |-> cap, session |-> s]
           d == OpenChannel(Fine, c, cap)
<1>1. n \in Nat /\ s \in Nat
  BY SessionType DEF Call
<1>2. next \in Nat /\ (n \in Own => next \in Own) /\ (n \in Own /\ ChanNoBase < ChanNoMax => next # n)
  BY <1>1, ConstantsAssumption DEF Own
<1>3. c1 = [c EXCEPT !.logicalChanNoCur = next]
  BY DEF NextChanNo, Call
<1>4. d = SendH245(Fine, c3, m)
  BY DEF OpenChannel, AddChan, AddChanIn
<1>5. m \in Message /\ m.type = "OLC" /\ m.chan = n
  BY <1>1 DEF Message
<1> HIDE DEF s, m, next
<1>6. c1 \in Call
  BY CountersRoutine, RoutineType
<1>7. t \in Nat
  BY <1>6, SessionType
<1>8. x \in LogicalChan
  BY <1>1, <1>7 DEF LogicalChan
<1> HIDE DEF t, c1
<1>9. c2 \in Call
  BY <1>6, <1>7, UseSessionRoutine, RoutineType
<1>10. /\ c2.callState = c.callState
       /\ c2.flags = c.flags /\ c2.h245Sock = c.h245Sock /\ c2.h245SessionState = c.h245SessionState
       /\ c2.localTermCapState = c.localTermCapState
       /\ c2.remoteTermCapState = c.remoteTermCapState
       /\ c2.masterSlaveState = c.masterSlaveState /\ c2.remoteTermCapSeqNo = c.remoteTermCapSeqNo
       /\ c2.logicalChanNoCur = next /\ c2.timers = c.timers
       /\ c2.logicalChans = c.logicalChans
       /\ c2.h245Net = c.h245Net /\ c2.h245Out = c.h245Out
  <2>1. c2 \in {c1, [c1 EXCEPT !.nextSessionID = @ + 1]}
    BY DEF UseSession
  <2> HIDE DEF c2
  <2>2. CASE c2 = c1
    BY <1>2, <1>3, <2>2 DEF Call
  <2>3. CASE c2 = [c1 EXCEPT !.nextSessionID = @ + 1]
    <3>1. /\ c2.callState = c1.callState
          /\ c2.flags = c1.flags /\ c2.h245Sock = c1.h245Sock
          /\ c2.h245SessionState = c1.h245SessionState
          /\ c2.localTermCapState = c1.localTermCapState
          /\ c2.remoteTermCapState = c1.remoteTermCapState
          /\ c2.masterSlaveState = c1.masterSlaveState
          /\ c2.remoteTermCapSeqNo = c1.remoteTermCapSeqNo
          /\ c2.logicalChanNoCur = c1.logicalChanNoCur /\ c2.timers = c1.timers
          /\ c2.logicalChans = c1.logicalChans
          /\ c2.h245Net = c1.h245Net /\ c2.h245Out = c1.h245Out
      BY <1>6, <2>3 DEF Call
    <3> QED
      BY <1>3, <3>1 DEF Call
  <2> QED
    BY <2>1, <2>2, <2>3
<1> HIDE DEF c2, x
<1>11. Effect(c, c2, c.logicalChans, Sent245(c))
  BY <1>2, <1>9, <1>10 DEF Effect, TimersOK, Sent245
<1>12. Append(c.logicalChans, x) \in Seq(LogicalChan)
  BY <1>8, SentType
<1>13. c3 = [c2 EXCEPT !.logicalChans = Append(c.logicalChans, x)]
  BY <1>9, <1>10 DEF Call
<1>14. /\ Effect(c2, c3, Append(c.logicalChans, x), Sent245(c))
       /\ c3.logicalChanNoCur = next
  <2>1. Effect(c2, c3, Append(c.logicalChans, x), Sent245(c2))
    BY <1>9, <1>12, <1>13, ListEffect
  <2>2. Sent245(c2) = Sent245(c)
    BY <1>11 DEF Effect
  <2> QED
    BY <1>9, <1>10, <1>13, <2>1, <2>2 DEF Call
<1> HIDE DEF c3
<1>15. /\ c3 \in Call /\ c3.flags = {} /\ c3.logicalChans = Append(c.logicalChans, x)
       /\ Sent245(c3) = Sent245(c)
  BY <1>10, <1>14 DEF Effect
<1>16. d.logicalChanNoCur = next
  <2>1. d = [c3 EXCEPT !.h245Out = Append(@, m)]
    BY <1>4, <1>5, <1>15 DEF SendH245, Has
  <2> QED
    BY <1>14, <1>15, <2>1 DEF Call
<1> HIDE DEF d
<1>17. Effect(c3, d, Append(c.logicalChans, x), Append(Sent245(c), m))
  <2>1. Effect(c3, d, c3.logicalChans, Append(Sent245(c3), m))
    BY <1>4, <1>5, <1>15, SendEffect
  <2> QED
    BY <1>15, <2>1
<1>18. Effect(c, d, Append(c.logicalChans, x), Append(Sent245(c), m))
  BY <1>11, <1>14, <1>17, EffectTransitive
<1>19. x.channelNo = n /\ x.dir = "transmit" /\ x.cap = cap /\ x.state = "PROPOSED"
  BY DEF x
<1>20. n \in Own /\ ChanNoBase < ChanNoMax => d.logicalChanNoCur # n
  BY <1>2, <1>16
<1> QED
  BY <1>5, <1>8, <1>18, <1>19, <1>20 DEF d

(* One medium: proposed after what is there already, or the call is given   *)
(* up.                                                                      *)
Proposes(c, d, t) ==
  \E x \in LogicalChan, m \in Message :
    /\ x.channelNo = c.logicalChanNoCur /\ x.dir = "transmit" /\ MediaOf[x.cap] = t
    /\ x.state = "PROPOSED" /\ m.type = "OLC" /\ m.chan = c.logicalChanNoCur
    /\ Effect(c, d, Append(c.logicalChans, x), Append(Sent245(c), m))
    /\ c.logicalChanNoCur \in Own /\ ChanNoBase < ChanNoMax
         => d.logicalChanNoCur # c.logicalChanNoCur

LEMMA OpenMediaEffect ==
  ASSUME NEW c \in Call, c.flags = {}, NEW t
  PROVE  LET d == OpenMedia(Local, Fine, c, t)
         IN  d = MarkClear(c) \/ Proposes(c, d, t)
<1> DEFINE d == OpenMedia(Local, Fine, c, t)
           cap == Order(Local, c)[Choice(Local, c, t)]
<1>1. CASE Choice(Local, c, t) = 0
  BY <1>1 DEF OpenMedia
<1>2. CASE Choice(Local, c, t) # 0
  <2>1. cap \in Cap /\ MediaOf[cap] = t
    BY <1>2, ChoiceMedia, ChannelsAssumption
  <2>2. d = OpenChannel(Fine, c, cap)
    BY <1>2 DEF OpenMedia
  <2> HIDE DEF d, cap
  <2>3. Proposes(c, d, t)
    BY <2>1, <2>2, OpenChannelEffect DEF Proposes
  <2> QED
    BY <2>3 DEF d
<1> QED
  BY <1>1, <1>2

(* What stays as it was.                                                    *)
Keeps(c, d) ==
  /\ d \in Call /\ d.flags = c.flags /\ d.h245Sock = c.h245Sock
  /\ d.remoteTermCapSeqNo = c.remoteTermCapSeqNo
  /\ Plainly(c) => Plainly(d)

LEMMA KeepsTransitive ==
  ASSUME NEW b, NEW c, NEW d, Keeps(b, c), Keeps(c, d)
  PROVE  Keeps(b, d)
  BY DEF Keeps

LEMMA KeepsReflexive ==
  ASSUME NEW c \in Call
  PROVE  Keeps(c, c)
  BY DEF Keeps

LEMMA MarkClearKeeps ==
  ASSUME NEW c \in Call
  PROVE  Keeps(c, MarkClear(c))
<1> DEFINE d == MarkClear(c)
<1>1. d \in Call
  BY MarkClearEnds
<1>2. /\ d.flags = c.flags /\ d.h245Sock = c.h245Sock
      /\ d.remoteTermCapSeqNo = c.remoteTermCapSeqNo /\ d.timers = c.timers
      /\ d.logicalChanNoCur = c.logicalChanNoCur /\ d.masterSlaveState = c.masterSlaveState
      /\ d.h245Net = c.h245Net /\ d.h245Out = c.h245Out
  BY DEF MarkClear, Call
<1> HIDE DEF d
<1>3. Keeps(c, d)
  BY <1>1, <1>2 DEF Keeps, Plainly, TimersOK, Sent245
<1> QED
  BY <1>3 DEF d

(* A message that this end writes.                                          *)
LEMMA StillWritten ==
  ASSUME NEW s \in Seq(Message), NEW m \in Message, m.type \in Written,
         \A i \in DOMAIN s : s[i].type \in Written
  PROVE  \A i \in DOMAIN Append(s, m) : Append(s, m)[i].type \in Written
<1>1. /\ Append(s, m) \in Seq(Message) /\ Len(Append(s, m)) = Len(s) + 1
      /\ \A i \in 1 .. Len(s) : Append(s, m)[i] = s[i]
      /\ Append(s, m)[Len(s) + 1] = m
  BY AppendProperties
<1>2. DOMAIN Append(s, m) = 1 .. Len(s) + 1 /\ DOMAIN s = 1 .. Len(s) /\ Len(s) \in Nat
  BY <1>1
<1>3. \A i \in DOMAIN Append(s, m) : i \in DOMAIN s \/ i = Len(s) + 1
  BY <1>2
<1> QED
  BY <1>1, <1>2, <1>3

LEMMA TurnKeeps ==
  ASSUME NEW c \in Call, NEW d, NEW st, NEW lt, NEW rt, NEW ms, NEW ch, NEW s,
         Turn(c, d, st, lt, rt, ms, c.remoteTermCapSeqNo, ch, s),
         c.masterSlaveState # "DetermineSent" => ms # "DetermineSent",
         (\A i \in DOMAIN Sent245(c) : Sent245(c)[i].type \in Written)
           => \A i \in DOMAIN s : s[i].type \in Written
  PROVE  Keeps(c, d)
  BY DEF Turn, Keeps, Plainly

LEMMA EffectKeeps ==
  ASSUME NEW c \in Call, NEW d, NEW ch, NEW s, Effect(c, d, ch, s),
         (\A i \in DOMAIN Sent245(c) : Sent245(c)[i].type \in Written)
           => \A i \in DOMAIN s : s[i].type \in Written
  PROVE  Keeps(c, d)
  BY EffectIsTurn, TurnKeeps

LEMMA AppendKeeps ==
  ASSUME NEW c \in Call, NEW d, NEW ch, NEW m \in Message, m.type \in Written,
         Effect(c, d, ch, Append(Sent245(c), m))
  PROVE  Keeps(c, d)
  BY SentType, StillWritten, EffectKeeps

LEMMA OpenKeeps ==
  ASSUME NEW c \in Call, c.flags = {}
  PROVE  Keeps(c, OpenIfNone(Local, Fine, c))
<1>1. ASSUME NEW b \in Call, b.flags = {}, NEW t
      PROVE  Keeps(b, OpenMedia(Local, Fine, b, t))
  <2>1. CASE OpenMedia(Local, Fine, b, t) = MarkClear(b)
    BY <2>1, MarkClearKeeps
  <2>2. CASE Proposes(b, OpenMedia(Local, Fine, b, t), t)
    <3>1. PICK x \in LogicalChan, m \in Message :
            /\ m.type = "OLC"
            /\ Effect(b, OpenMedia(Local, Fine, b, t), Append(b.logicalChans, x),
                      Append(Sent245(b), m))
      BY <2>2 DEF Proposes
    <3>2. m.type \in Written
      BY <3>1 DEF Written
    <3> QED
      BY <3>1, <3>2, AppendKeeps
  <2> QED
    BY <1>1, <2>1, <2>2, OpenMediaEffect
<1> DEFINE a == OpenMedia(Local, Fine, c, "audio")
<1>2. Keeps(c, a) /\ a \in Call /\ a.flags = {}
  BY <1>1 DEF Keeps
<1>3. Keeps(c, OpenMedia(Local, Fine, a, "video"))
  <2> HIDE DEF a
  <2>1. Keeps(a, OpenMedia(Local, Fine, a, "video"))
    BY <1>1, <1>2
  <2> QED
    BY <1>2, <2>1, KeepsTransitive
<1>4. OpenIfNone(Local, Fine, c)
        \in {a, OpenMedia(Local, Fine, a, "video"), MarkClear(c), c}
  BY DEF OpenIfNone, OpenLogicalChannels
<1> QED
  BY <1>2, <1>3, <1>4, MarkClearKeeps, KeepsReflexive
-----------------------------------------------------------------------------
(* Writing, and closing what a pause finds open                             *)

LEMMA StartEffect ==
  ASSUME NEW c \in Call, NEW t \in {"TCS", "OLC", "CLC"}, NEW n \in Nat
  PROVE  Effect(c, StartTimer(c, t, n), c.logicalChans, Sent245(c))
<1> DEFINE d == StartTimer(c, t, n)
<1>1. d \in Call
  BY TimerRoutine DEF TimerType
<1>2. /\ d.callState = c.callState
      /\ d.flags = c.flags /\ d.h245Sock = c.h245Sock /\ d.h245SessionState = c.h245SessionState
      /\ d.localTermCapState = c.localTermCapState /\ d.remoteTermCapState = c.remoteTermCapState
      /\ d.masterSlaveState = c.masterSlaveState /\ d.remoteTermCapSeqNo = c.remoteTermCapSeqNo
      /\ d.logicalChanNoCur = c.logicalChanNoCur
      /\ d.timers = c.timers \cup {TimerOf(t, n)}
      /\ d.logicalChans = c.logicalChans
      /\ d.h245Net = c.h245Net /\ d.h245Out = c.h245Out
  BY DEF Call, StartTimer
<1>3. TimerOf(t, n).type \in {"TCS", "OLC", "CLC"}
  BY DEF TimerOf
<1> HIDE DEF d
<1> QED
  BY <1>1, <1>2, <1>3 DEF Effect, TimersOK, Sent245, d

(* What is written goes from the queue to the peer, who has not read it.    *)
LEMMA WriteEffect ==
  ASSUME NEW c \in Call, Plainly(c), c.callState < CLEAR, c.h245Out # << >>
  PROVE  Effect(c, SendMsgH245(Fine, c), c.logicalChans, Sent245(c))
<1> DEFINE m  == Head(c.h245Out)
           c1 == [c EXCEPT !.h245Out = Tail(@)]
           c2 == [c1 EXCEPT !.h245Net = Append(@, m)]
           d  == SendMsgH245(Fine, c)
<1>1. /\ m \in Message /\ Tail(c.h245Out) \in Seq(Message) /\ c.h245Net \in Seq(Message)
  BY SentType, HeadOfQueue
<1>2. Append(c.h245Net, m) \in Seq(Message)
  BY <1>1, AppendProperties
<1>3. Append(c.h245Net, m) \o Tail(c.h245Out) = Sent245(c)
  BY SentType, QueueServed DEF Sent245
<1>4. m.type \in Written
  <2> DEFINE a == Append(c.h245Net, m)
             b == Tail(c.h245Out)
             s == Sent245(c)
             k == Len(c.h245Net) + 1
  <2>1. a \in Seq(Message) /\ b \in Seq(Message) /\ s = a \o b
    BY <1>1, <1>2, <1>3
  <2>2. k \in 1 .. Len(a) /\ a[k] = m
    BY <1>1
  <2> HIDE DEF a, b, s, k, m
  <2>3. k \in DOMAIN s /\ s[k] = a[k]
    BY <2>1, <2>2, ConcatProperties
  <2> QED
    BY <2>2, <2>3 DEF Plainly, s
<1>5. d = OnSendMsg(c2, m)
  <2>1. c.callState # CLEARED
    BY StateValues DEF Call, CLEAR, CLEARED
  <2>2. c1.h245Sock = "open" /\ c.h245Sock = "open" /\ Fine.ok = TRUE
    BY DEF Plainly, Fine, Call
  <2> QED
    BY <2>1, <2>2 DEF SendMsgH245
<1>6. /\ c2 \in Call /\ c2.callState = c.callState
      /\ c2.flags = c.flags /\ c2.h245Sock = c.h245Sock
      /\ c2.h245SessionState = c.h245SessionState
      /\ c2.localTermCapState = c.localTermCapState
      /\ c2.remoteTermCapState = c.remoteTermCapState
      /\ c2.masterSlaveState = c.masterSlaveState /\ c2.remoteTermCapSeqNo = c.remoteTermCapSeqNo
      /\ c2.logicalChanNoCur = c.logicalChanNoCur /\ c2.timers = c.timers
      /\ c2.logicalChans = c.logicalChans
      /\ c2.h245Net = Append(c.h245Net, m) /\ c2.h245Out = Tail(c.h245Out)
  BY <1>1, <1>2 DEF Call
<1> HIDE DEF m, c1, c2, d
<1>7. Sent245(c2) = Sent245(c)
  BY <1>3, <1>6 DEF Sent245
<1>8. Effect(c, c2, c.logicalChans, Sent245(c))
  BY <1>6, <1>7 DEF Effect, TimersOK
<1>9. Effect(c2, d, c.logicalChans, Sent245(c))
  <2>1. m.type \in {"OLC", "CLC"} => m.chan \in Nat
    BY <1>1, MessageFields DEF ChanMsg
  <2>2. CASE m.type = "TCS"
    <3>1. ~Has(c2, "TUNNELING")
      BY <1>6 DEF Has, Plainly
    <3>2. d = StartTimer(c2, "TCS", 0)
      BY <1>5, <2>2, <3>1 DEF OnSendMsg, OnSendTCS
    <3> QED
      BY <1>6, <1>7, <3>2, StartEffect
  <2>3. CASE m.type = "OLC"
    <3>1. d = StartTimer(c2, "OLC", m.chan)
      BY <1>5, <2>3 DEF OnSendMsg
    <3> QED
      BY <1>6, <1>7, <2>1, <2>3, <3>1, StartEffect
  <2>4. CASE m.type = "CLC"
    <3>1. d = StartTimer(c2, "CLC", m.chan)
      BY <1>5, <2>4 DEF OnSendMsg
    <3> QED
      BY <1>6, <1>7, <2>1, <2>4, <3>1, StartEffect
  <2>5. CASE m.type \notin {"TCS", "OLC", "CLC"}
    <3>1. d = c2
      BY <1>4, <1>5, <2>5 DEF OnSendMsg, Written
    <3> QED
      BY <1>6, <1>7, <3>1, EffectReflexive
  <2> QED
    BY <2>2, <2>3, <2>4, <2>5
<1> QED
  BY <1>8, <1>9, EffectTransitive DEF d

(* The channels of this end among the first n entries that are open.        *)
OpenUpTo(ch, n) ==
  {x \in Nat : \E i \in DOMAIN ch :
     i <= n /\ ch[i].channelNo = x /\ ch[i].dir = "transmit" /\ ch[i].state = "ESTABLISHED"}

(* What makes it possible to close them all.                                *)
Closable(c) ==
  /\ ListOK(c.logicalChans) /\ Orderly(Sent245(c)) /\ "TCS" \notin MarksIn(Sent245(c))
  /\ OutAt(c.logicalChans, "ESTABLISHED") \cap NamedIn(Sent245(c), "CLC") = {}

AllWritten(s) == \A i \in DOMAIN s : s[i].type \in Written

CloseStep(c, out, ch) == QueueClose(out, ch)
CloseKept(c, n, out) ==
  /\ out \in Seq(Message)
  /\ AllWritten(Sent245(c)) => AllWritten(c.h245Net \o out)
  /\ Closable(c) =>
       /\ Orderly(c.h245Net \o out)
       /\ NamedIn(c.h245Net \o out, "CLC") = NamedIn(Sent245(c), "CLC") \cup OpenUpTo(c.logicalChans, n)
       /\ NamedIn(c.h245Net \o out, "OLC") = NamedIn(Sent245(c), "OLC")
       /\ MarksIn(c.h245Net \o out) = MarksIn(Sent245(c))
Closing == INSTANCE FoldLemmas WITH Step <- CloseStep, Kept <- CloseKept

LEMMA CloseOne ==
  ASSUME NEW c \in Call, NEW i \in 1 .. Len(c.logicalChans), NEW out,
         CloseKept(c, i - 1, out)
  PROVE  CloseKept(c, i, CloseStep(c, out, c.logicalChans[i]))
<1> DEFINE ch  == c.logicalChans
           x   == ch[i]
           n   == x.channelNo
           net == c.h245Net
           s   == net \o out
           m   == ChanMsgOf("CLC", n)
           r   == CloseStep(c, out, x)
<1>1. /\ ch \in Seq(LogicalChan) /\ net \in Seq(Message) /\ out \in Seq(Message)
      /\ i \in DOMAIN ch /\ i \in Nat
  BY SentType DEF CloseKept
<1>2. x \in LogicalChan
  BY <1>1
<1>3. n \in Nat
  BY <1>2 DEF LogicalChan
<1>4. CASE ~(x.state = "ESTABLISHED" /\ x.dir = "transmit")
  <2>1. r = out
    BY <1>4 DEF CloseStep, QueueClose
  <2>2. OpenUpTo(ch, i) = OpenUpTo(ch, i - 1)
    <3>1. \A j \in DOMAIN ch : j <= i <=> j <= i - 1 \/ j = i
      BY <1>1
    <3> HIDE DEF ch
    <3>2. ~(ch[i].state = "ESTABLISHED" /\ ch[i].dir = "transmit")
      BY <1>4
    <3>3. \A y : y \in OpenUpTo(ch, i) <=> y \in OpenUpTo(ch, i - 1)
      BY <3>1, <3>2 DEF OpenUpTo
    <3> QED
      BY <3>3
  <2> HIDE DEF r
  <2> QED
    BY <2>1, <2>2 DEF CloseKept, r
<1>5. CASE x.state = "ESTABLISHED" /\ x.dir = "transmit"
  <2>1. r = Append(out, m)
    BY <1>5 DEF CloseStep, QueueClose
  <2>2. m \in Message /\ m.type = "CLC" /\ m.chan = n
    BY <1>3, UntrackedMessages DEF ChanMsg, ChanMsgOf
  <2> HIDE DEF m, n, x, net
  <2>3. Append(out, m) \in Seq(Message) /\ s \in Seq(Message)
    BY <1>1, <2>2
  <2>4. net \o Append(out, m) = Append(s, m)
    BY <1>1, <2>2, QueueAppends
  <2>5. ASSUME AllWritten(Sent245(c))
        PROVE  AllWritten(Append(s, m))
    <3>1. AllWritten(s) /\ m.type \in Written
      BY <2>2, <2>5 DEF CloseKept, net, Written
    <3> HIDE DEF s
    <3> QED
      BY <2>2, <2>3, <3>1, StillWritten DEF AllWritten
  <2>6. ASSUME Closable(c)
        PROVE  /\ Orderly(Append(s, m))
               /\ NamedIn(Append(s, m), "CLC") = NamedIn(Sent245(c), "CLC") \cup OpenUpTo(ch, i)
               /\ NamedIn(Append(s, m), "OLC") = NamedIn(Sent245(c), "OLC")
               /\ MarksIn(Append(s, m)) = MarksIn(Sent245(c))
    <3>1. /\ Orderly(s) /\ NamedIn(s, "OLC") = NamedIn(Sent245(c), "OLC")
          /\ NamedIn(s, "CLC") = NamedIn(Sent245(c), "CLC") \cup OpenUpTo(ch, i - 1)
          /\ MarksIn(s) = MarksIn(Sent245(c))
      BY <2>6 DEF CloseKept, net
    <3>2. \A j \in DOMAIN ch : j <= i <=> j <= i - 1 \/ j = i
      BY <1>1
    <3>3. \A j \in DOMAIN ch : j <= i - 1 => j # i
      BY <1>1
    <3>4. /\ n \in OutAt(ch, "ESTABLISHED")
          /\ n \notin OpenUpTo(ch, i - 1)
          /\ OpenUpTo(ch, i) = OpenUpTo(ch, i - 1) \cup {n}
      <4>1. /\ ch[i].channelNo = n /\ ch[i].dir = "transmit" /\ ch[i].state = "ESTABLISHED"
            /\ Distinct(ch)
        BY <1>5, <2>6 DEF x, n, Closable, ListOK
      <4> HIDE DEF ch
      <4>2. n \in OutAt(ch, "ESTABLISHED")
        BY <1>1, <1>3, <4>1 DEF OutAt
      <4>3. n \notin OpenUpTo(ch, i - 1)
        BY <1>1, <3>3, <4>1 DEF OpenUpTo, Distinct
      <4>4. \A y : y \in OpenUpTo(ch, i) <=> y \in OpenUpTo(ch, i - 1) \/ y = n
        BY <1>1, <1>3, <3>2, <4>1 DEF OpenUpTo
      <4> QED
        BY <4>2, <4>3, <4>4
    <3>5. n \notin NamedIn(s, "CLC") /\ "TCS" \notin MarksIn(s)
      BY <2>6, <3>1, <3>4 DEF Closable
    <3> HIDE DEF s
    <3>6. /\ Orderly(Append(s, m))
          /\ NamedIn(Append(s, m), "CLC") = NamedIn(s, "CLC") \cup {n}
          /\ NamedIn(Append(s, m), "OLC") = NamedIn(s, "OLC")
          /\ MarksIn(Append(s, m)) = MarksIn(s)
      <4>1. "OLC" \in {"OLC", "CLC"} \ {"CLC"}
        OBVIOUS
      <4>2. /\ Orderly(Append(s, m))
            /\ NamedIn(Append(s, m), "CLC") = NamedIn(s, "CLC") \cup {n}
            /\ \A u \in {"OLC", "CLC"} \ {"CLC"} : NamedIn(Append(s, m), u) = NamedIn(s, u)
            /\ MarksIn(Append(s, m)) = MarksIn(s)
        BY <2>2, <2>3, <3>1, <3>5, ChannelOrderly
      <4> QED
        BY <4>1, <4>2
    <3> QED
      BY <3>1, <3>4, <3>6
  <2> HIDE DEF r, s
  <2> QED
    BY <2>1, <2>3, <2>4, <2>5, <2>6 DEF CloseKept, net, r, x
<1> QED
  BY <1>4, <1>5

LEMMA ClosePausedClears ==
  ASSUME NEW c \in Call
  PROVE  LET d == ClosePaused(c)
         IN  /\ Keeps(c, d) /\ d.callState = PAUSED /\ d.h245SessionState = "IDLE"
             /\ d.localTermCapState = "Idle" /\ d.remoteTermCapState = "Idle"
             /\ d.masterSlaveState = "Idle" /\ d.logicalChans = << >>
             /\ Closable(c) =>
                  /\ Orderly(Sent245(d))
                  /\ NamedIn(Sent245(d), "CLC") =
                       NamedIn(Sent245(c), "CLC") \cup OutAt(c.logicalChans, "ESTABLISHED")
                  /\ NamedIn(Sent245(d), "OLC") = NamedIn(Sent245(c), "OLC")
                  /\ MarksIn(Sent245(d)) = MarksIn(Sent245(c))
<1> DEFINE d   == ClosePaused(c)
           ch  == c.logicalChans
           N   == Len(ch)
           out == FoldLeft(QueueClose, c.h245Out, ch)
           id  == [i \in Nat |-> i]
<1>1. ch \in Seq(LogicalChan) /\ N \in Nat /\ DOMAIN ch = 1 .. N
  BY SentType
<1>2. CloseKept(c, 0, c.h245Out)
  <2>1. OpenUpTo(ch, 0) = {}
    BY <1>1 DEF OpenUpTo
  <2>2. c.h245Out \in Seq(Message)
    BY SentType
  <2> QED
    BY <2>1, <2>2 DEF CloseKept, Closable, Sent245
<1>3. CloseKept(c, N, Closing!Fold(c, c.h245Out, ch))
  <2>1. CloseKept(c, id[0], c.h245Out)
    BY <1>2
  <2>2. \A x : \A i \in 1 .. N : CloseKept(c, id[i - 1], x)
                 => CloseKept(c, id[i], CloseStep(c, x, ch[i]))
    <3> TAKE x
    <3> TAKE i \in 1 .. N
    <3>1. id[i - 1] = i - 1 /\ id[i] = i
      BY <1>1
    <3> QED
      BY <3>1, CloseOne
  <2>3. id[N] = N
    BY <1>1
  <2> HIDE DEF id, N
  <2>4. CloseKept(c, id[Len(ch)], Closing!Fold(c, c.h245Out, ch))
    BY <1>1, <2>1, <2>2, Closing!FoldReaches DEF N
  <2> QED
    BY <2>3, <2>4 DEF N
<1>4. Closing!Fold(c, c.h245Out, ch) = out
  BY Zenon DEF Closing!Fold, Closing!MapThenFoldSet, Closing!Max,
     CloseStep, FoldLeft, MapThenFoldSet, Max
<1>5. OpenUpTo(ch, N) = OutAt(ch, "ESTABLISHED")
  BY <1>1 DEF OpenUpTo, OutAt
<1>6. out \in Seq(Message)
  BY <1>3, <1>4 DEF CloseKept
<1>7. d = [c EXCEPT !.h245Out = out, !.logicalChans = << >>,
                    !.masterSlaveState = "Idle", !.callState = PAUSED,
                    !.localTermCapState = "Idle", !.remoteTermCapState = "Idle",
                    !.h245SessionState = "IDLE"]
  BY DEF ClosePaused, Call
<1> HIDE DEF d, out
<1>8. d \in Call
  <2>1. << >> \in Seq(LogicalChan)
    OBVIOUS
  <2>2. PAUSED \in CallState /\ "Idle" \in MasterSlaveState /\ "Idle" \in LocalTermCapState
        /\ "Idle" \in RemoteTermCapState /\ "IDLE" \in SessionState
    BY StateValues DEF MasterSlaveState, LocalTermCapState, RemoteTermCapState, SessionState
  <2> QED
    BY ZenonT(40), <1>6, <1>7, <2>1, <2>2 DEF Call
<1>9. /\ d.callState = PAUSED /\ d.h245SessionState = "IDLE"
      /\ d.localTermCapState = "Idle" /\ d.remoteTermCapState = "Idle"
      /\ d.masterSlaveState = "Idle" /\ d.logicalChans = << >>
      /\ d.flags = c.flags /\ d.h245Sock = c.h245Sock
      /\ d.remoteTermCapSeqNo = c.remoteTermCapSeqNo /\ d.timers = c.timers
      /\ d.logicalChanNoCur = c.logicalChanNoCur
      /\ d.h245Net = c.h245Net /\ d.h245Out = out
  BY <1>7 DEF Call
<1>10. Sent245(d) = c.h245Net \o out
  BY <1>9 DEF Sent245
<1>11. Keeps(c, d)
  <2>1. AllWritten(Sent245(c)) => AllWritten(Sent245(d))
    BY <1>3, <1>4, <1>10 DEF CloseKept
  <2> QED
    BY <1>8, <1>9, <2>1 DEF Keeps, Plainly, TimersOK, AllWritten
<1>12. Closable(c) =>
         /\ Orderly(Sent245(d))
         /\ NamedIn(Sent245(d), "CLC") = NamedIn(Sent245(c), "CLC") \cup OutAt(ch, "ESTABLISHED")
         /\ NamedIn(Sent245(d), "OLC") = NamedIn(Sent245(c), "OLC")
         /\ MarksIn(Sent245(d)) = MarksIn(Sent245(c))
  BY <1>3, <1>4, <1>5, <1>10 DEF CloseKept
<1> QED
  BY <1>9, <1>11, <1>12 DEF d
-----------------------------------------------------------------------------
(* The type of the state                                                    *)

LEMMA TurnPlain ==
  ASSUME NEW c \in Call, NEW d, NEW st, NEW lt, NEW rt, NEW ms, NEW seq, NEW ch, NEW s,
         Turn(c, d, st, lt, rt, ms, seq, ch, s), Plainly(c),
         ms # "DetermineSent", AllWritten(Sent245(c)) => AllWritten(s)
  PROVE  d \in Call /\ Plainly(d) /\ d.remoteTermCapSeqNo = seq /\ d.flags = {}
  BY DEF Turn, Plainly, AllWritten

(* The messages a peer sends other than capability sets.                    *)
FromPeer(m) ==
  \/ m.type \in {"CLC", "RCC", "OLCAck", "OLCReject", "CLCAck", "TCSAck", "MSDAck"}
  \/ m.type = "OLC" /\ m.session # 0
  \/ m.type = "MSD" /\ m.terminalType # TermType[Local]

LEMMA HandledKeeps ==
  ASSUME NEW c \in Call, Plainly(c), NEW m \in Message, FromPeer(m)
  PROVE  Keeps(c, HandleH245Message(Local, Fine, c, m))
<1> DEFINE d == HandleH245Message(Local, Fine, c, m)
<1>1. c.flags = {} /\ c.masterSlaveState # "DetermineSent" /\ Sent245(c) \in Seq(Message)
  BY SentType DEF Plainly
<1>2. m.type \in ChanMsg \cup {"OLC"} => m.chan \in Nat
  BY MessageFields
<1>3. CASE m.type = "OLC"
  <2>1. d = HandleOLC(Local, Fine, c, m)
    BY <1>3 DEF HandleH245Message
  <2>2. m.session # 0
    BY <1>3 DEF FromPeer
  <2>3. \A t \in {"OLCAck", "OLCReject"} :
          ChanMsgOf(t, m.chan) \in Message /\ ChanMsgOf(t, m.chan).type \in Written
    BY <1>2, <1>3, UntrackedMessages DEF ChanMsg, ChanMsgOf, Written
  <2> HIDE DEF d
  <2> QED
    BY <1>1, <1>3, <2>1, <2>2, <2>3, OLCEffect, AppendKeeps DEF d
<1>4. CASE m.type = "CLC"
  <2>1. d = HandleCLC(Fine, c, m)
    BY <1>4 DEF HandleH245Message
  <2>2. ChanMsgOf("CLCAck", m.chan) \in Message /\ ChanMsgOf("CLCAck", m.chan).type \in Written
    BY <1>2, <1>4, UntrackedMessages DEF ChanMsg, ChanMsgOf, Written
  <2> HIDE DEF d
  <2> QED
    BY <1>1, <1>4, <2>1, <2>2, CLCEffect, AppendKeeps DEF d
<1>5. CASE m.type = "RCC"
  <2>1. d = HandleRCC(Fine, c, m)
    BY <1>5 DEF HandleH245Message
  <2>2. \A t \in {"RCCAck", "CLC"} :
          ChanMsgOf(t, m.chan) \in Message /\ ChanMsgOf(t, m.chan).type \in Written
    BY <1>2, <1>5, UntrackedMessages DEF ChanMsg, ChanMsgOf, Written
  <2> DEFINE s == Append(Sent245(c), ChanMsgOf("RCCAck", m.chan))
             r == Append(s, ChanMsgOf("CLC", m.chan))
  <2>3. s \in Seq(Message)
    BY <1>1, <2>2
  <2>4. AllWritten(Sent245(c)) => AllWritten(s)
    BY <1>1, <2>2, StillWritten DEF AllWritten
  <2> HIDE DEF s
  <2>5. AllWritten(s) => AllWritten(r)
    BY <2>2, <2>3, StillWritten DEF AllWritten
  <2> HIDE DEF r, d
  <2>6. d = c \/ Effect(c, d, ClearChan(c, m.chan).logicalChans, r)
    BY <1>1, <1>5, <2>1, RCCEffect DEF d, r, s
  <2>7. Keeps(c, d)
    BY <2>4, <2>5, <2>6, KeepsReflexive, EffectKeeps DEF AllWritten
  <2> QED
    BY <2>7 DEF d
<1>6. CASE m.type = "OLCAck"
  <2>1. d = HandleOLCAck(c, m)
    BY <1>6 DEF HandleH245Message
  <2> HIDE DEF d
  <2> QED
    BY <1>6, <2>1, OLCAckEffect, EffectKeeps DEF d
<1>7. CASE m.type = "OLCReject"
  <2>1. d = MarkClear(StopTimer(c, "OLC", m.chan))
    BY <1>7 DEF HandleH245Message, HandleOLCReject
  <2> HIDE DEF d
  <2>2. Effect(c, StopTimer(c, "OLC", m.chan), c.logicalChans, Sent245(c))
    BY <1>2, <1>7, TimerEffect DEF ChanMsg, TimerType
  <2>3. Keeps(c, StopTimer(c, "OLC", m.chan))
    BY <2>2, EffectKeeps
  <2>4. Keeps(StopTimer(c, "OLC", m.chan), d)
    BY <2>1, <2>3, MarkClearKeeps DEF Keeps
  <2>5. Keeps(c, d)
    BY <2>3, <2>4, KeepsTransitive
  <2> QED
    BY <2>5 DEF d
<1>8. CASE m.type = "CLCAck"
  <2>1. d = StopTimer(c, "CLC", m.chan)
    BY <1>8 DEF HandleH245Message
  <2> HIDE DEF d
  <2> QED
    BY <1>8, <2>1, CLCAckEffect, EffectKeeps DEF d
<1>9. CASE m.type = "TCSAck"
  <2>1. d = HandleTCSAck(Local, Fine, c)
    BY <1>9 DEF HandleH245Message
  <2> DEFINE a == [StopTimer(c, "TCS", 0) EXCEPT !.localTermCapState = "AckRecvd"]
  <2>2. /\ Turn(c, a, c.h245SessionState, "AckRecvd", c.remoteTermCapState,
                c.masterSlaveState, c.remoteTermCapSeqNo, c.logicalChans, Sent245(c))
        /\ d = IF CapsExchanged(a) /\ RoleDecided(a) THEN OpenIfNone(Local, Fine, a) ELSE a
    BY <2>1, TCSAckTurn
  <2> HIDE DEF a, d
  <2>3. Keeps(c, a)
    BY <2>2 DEF Turn, Keeps, Plainly
  <2>4. a \in Call /\ a.flags = {}
    BY <1>1, <2>3 DEF Keeps
  <2>5. Keeps(c, d)
    BY <2>2, <2>3, <2>4, OpenKeeps, KeepsTransitive
  <2> QED
    BY <2>5 DEF d
<1>10. CASE m.type = "MSDAck"
  <2>1. d = HandleMSDAck(Local, Fine, c, m)
    BY <1>10 DEF HandleH245Message
  <2> DEFINE a == StopTimer(c, "MSD", 0)
  <2>2. /\ Effect(c, a, c.logicalChans, Sent245(c))
        /\ d = IF CapsExchanged(a) THEN OpenIfNone(Local, Fine, a) ELSE a
    BY <1>1, <2>1, MSDAckEffect
  <2> HIDE DEF a, d
  <2>3. Keeps(c, a)
    BY <2>2, EffectKeeps
  <2>4. a \in Call /\ a.flags = {}
    BY <1>1, <2>3 DEF Keeps
  <2>5. Keeps(c, d)
    BY <2>2, <2>3, <2>4, OpenKeeps, KeepsTransitive
  <2> QED
    BY <2>5 DEF d
<1>11. CASE m.type = "MSD"
  <2>1. d = HandleMSD(Local, Fine, c, m)
    BY <1>11 DEF HandleH245Message
  <2>2. m.terminalType # TermType[Local]
    BY <1>11 DEF FromPeer
  <2> HIDE DEF d
  <2>3. PICK v \in {"Master", "Slave"}, a \in Message :
          /\ a.type = "MSDAck"
          /\ Turn(c, d, c.h245SessionState, c.localTermCapState,
                  c.remoteTermCapState, v, c.remoteTermCapSeqNo, c.logicalChans,
                  Append(Sent245(c), a))
    BY <1>1, <1>11, <2>1, <2>2, HandleMSDTurn
  <2>4. v # "DetermineSent" /\ a.type \in Written
    BY <2>3 DEF Written
  <2>5. Keeps(c, d)
    <3>1. AllWritten(Sent245(c)) => AllWritten(Append(Sent245(c), a))
      BY <1>1, <2>4, StillWritten DEF AllWritten
    <3> QED
      BY <2>3, <2>4, <3>1, TurnKeeps DEF AllWritten
  <2> QED
    BY <2>5 DEF d
<1> QED
  BY <1>3, <1>4, <1>5, <1>6, <1>7, <1>8, <1>9, <1>10, <1>11 DEF FromPeer

LEMMA TCSKeeps ==
  ASSUME NEW c \in Call, Plainly(c), NEW m \in Message, m.type = "TCS",
         m.seq > c.remoteTermCapSeqNo
  PROVE  LET d == HandleH245Message(Local, Fine, c, m)
         IN  d \in Call /\ Plainly(d) /\ d.remoteTermCapSeqNo = m.seq
<1> DEFINE d == HandleH245Message(Local, Fine, c, m)
           a == AnsweredTCS(c, m)
           b == IF a.localTermCapState = "Idle" THEN SendTermCap(Fine, a) ELSE a
<1>1. /\ c.flags = {} /\ c.masterSlaveState # "DetermineSent" /\ Sent245(c) \in Seq(Message)
      /\ AllWritten(Sent245(c))
  BY SentType DEF Plainly, AllWritten
<1>2. d = IF CapsExchanged(b) /\ RoleDecided(b) THEN OpenIfNone(Local, Fine, b) ELSE b
  BY HandleTCSSteps DEF HandleH245Message
<1>3. Turn(c, a, SessionAfter(c, m), c.localTermCapState, "AckSent",
           c.masterSlaveState, m.seq, c.logicalChans, Append(Sent245(c), Msg("TCSAck")))
  BY <1>1, AnsweredTCSTurn
<1> HIDE DEF d, a
<1>4. a \in Call /\ Plainly(a) /\ a.remoteTermCapSeqNo = m.seq /\ a.flags = {}
  <2>1. Msg("TCSAck") \in Message /\ Msg("TCSAck").type \in Written
    BY UntrackedMessages DEF Plain, Msg, Written
  <2>2. AllWritten(Append(Sent245(c), Msg("TCSAck")))
    BY <1>1, <2>1, StillWritten DEF AllWritten
  <2> QED
    BY <1>1, <1>3, <2>2, TurnPlain
<1>5. b \in Call /\ Plainly(b) /\ b.remoteTermCapSeqNo = m.seq /\ b.flags = {}
  <2>1. CASE a.localTermCapState = "Idle"
    <3>1. PICK n \in Message :
            /\ n.type = "TCS"
            /\ Turn(a, b, a.h245SessionState, "SetSent", a.remoteTermCapState,
                    a.masterSlaveState, a.remoteTermCapSeqNo, a.logicalChans,
                    Append(Sent245(a), n))
      BY <1>4, <2>1, SendTermCapTurn
    <3> HIDE DEF b
    <3>2. Sent245(a) \in Seq(Message) /\ AllWritten(Sent245(a)) /\ n.type \in Written
          /\ a.masterSlaveState # "DetermineSent"
      BY <1>4, <3>1, SentType DEF Plainly, AllWritten, Written
    <3>3. AllWritten(Append(Sent245(a), n))
      BY <3>2, StillWritten DEF AllWritten
    <3> QED
      BY <1>4, <3>1, <3>2, <3>3, TurnPlain
  <2>2. CASE a.localTermCapState # "Idle"
    BY <1>4, <2>2
  <2> QED
    BY <2>1, <2>2
<1> HIDE DEF b
<1>6. Keeps(b, d)
  BY <1>2, <1>5, OpenKeeps, KeepsReflexive
<1> QED
  BY <1>5, <1>6 DEF Keeps, d

(* A pause is noticed when the next message comes.                          *)
Noticed(c) == IF c.h245SessionState = "PAUSED" THEN ClosePaused(c) ELSE c

LEMMA NoticedKeeps ==
  ASSUME NEW c \in Call
  PROVE  Keeps(c, Noticed(c)) /\ Noticed(c).h245SessionState # "PAUSED"
  BY ClosePausedClears, KeepsReflexive DEF Noticed

LEMMA ReceivedKeeps ==
  ASSUME NEW c \in Call, Plainly(c), NEW m \in Message
  PROVE  LET d == ReceiveH245(Local, Fine, c, m)
         IN  /\ FromPeer(m) => Keeps(c, d)
             /\ m.type = "TCS" /\ m.seq > c.remoteTermCapSeqNo
                  => d \in Call /\ Plainly(d) /\ d.remoteTermCapSeqNo = m.seq
<1> DEFINE b == Noticed(c)
           d == ReceiveH245(Local, Fine, c, m)
<1>1. d = HandleH245Message(Local, Fine, b, m)
  BY DEF ReceiveH245, Noticed
<1>2. Keeps(c, b)
  BY NoticedKeeps
<1> HIDE DEF b, d
<1>3. b \in Call /\ Plainly(b) /\ b.remoteTermCapSeqNo = c.remoteTermCapSeqNo
  BY <1>2 DEF Keeps
<1>4. FromPeer(m) => Keeps(b, d)
  BY <1>1, <1>3, HandledKeeps
<1>5. FromPeer(m) => Keeps(c, d)
  BY <1>2, <1>4, KeepsTransitive
<1>6. m.type = "TCS" /\ m.seq > c.remoteTermCapSeqNo
        => d \in Call /\ Plainly(d) /\ d.remoteTermCapSeqNo = m.seq
  BY <1>1, <1>3, TCSKeeps
<1> QED
  BY <1>5, <1>6 DEF d

(* A timer that fires ends the call.                                        *)
LEMMA ExpiryEnds ==
  ASSUME NEW c \in Call, Plainly(c), NEW t \in c.timers
  PROVE  LET d == FireTimer(Local, Fine, c, t)
         IN  d \in Call /\ ~(d.callState < CLEAR)
<1> DEFINE b == StopTimer(c, t.type, t.chan)
           d == FireTimer(Local, Fine, c, t)
<1>1. t \in Timer /\ t.type \in {"TCS", "OLC", "CLC"}
  BY DEF Call, Plainly, TimersOK
<1>2. t.chan \in Nat /\ t.type \in TimerType
  BY <1>1 DEF Timer
<1>3. Effect(c, b, c.logicalChans, Sent245(c))
  BY <1>2, TimerEffect
<1>4. b \in Call /\ b.flags = {}
  BY <1>3 DEF Effect, Plainly
<1>5. \A a \in Call : d = MarkClear(a) => d \in Call /\ ~(d.callState < CLEAR)
  BY MarkClearEnds
<1>6. CASE t.type = "TCS"
  <2>1. d = MarkClear(SendH245(Fine, b, Msg("TCSRelease")))
    BY <1>6 DEF FireTimer
  <2>2. Msg("TCSRelease") \in Message /\ Msg("TCSRelease").type # "EndSession"
    BY UntrackedMessages DEF Plain, Msg
  <2> HIDE DEF b, d
  <2>3. SendH245(Fine, b, Msg("TCSRelease")) \in Call
    BY <1>4, <2>2, SendEffect, EffectType
  <2> QED
    BY <1>5, <2>1, <2>3 DEF d
<1>7. CASE t.type = "OLC"
  <2> DEFINE a == IF FindChan(b.logicalChans, t.chan) = 0 THEN b ELSE SendCLC(Fine, b, t.chan)
             f == SendH245(Fine, b, ChanMsgOf("CLC", t.chan))
  <2>1. d = MarkClear(a)
    BY <1>7 DEF FireTimer
  <2>2. a \in {b, ClearChan(f, t.chan)}
    BY DEF SendCLC
  <2>3. ChanMsgOf("CLC", t.chan) \in Message /\ ChanMsgOf("CLC", t.chan).type # "EndSession"
    BY <1>2, UntrackedMessages DEF ChanMsg, ChanMsgOf
  <2> HIDE DEF b, d, a
  <2>4. f \in Call
    BY <1>4, <2>3, SendEffect, EffectType
  <2> HIDE DEF f
  <2>5. ClearChan(f, t.chan) \in Call
    BY <2>4, ClearEffect, EffectType
  <2> QED
    BY <1>4, <1>5, <2>1, <2>2, <2>5 DEF d
<1>8. CASE t.type = "CLC"
  <2>1. d = MarkClear(ClearChan(b, t.chan))
    BY <1>8 DEF FireTimer
  <2> HIDE DEF b, d
  <2>2. ClearChan(b, t.chan) \in Call
    BY <1>4, ClearEffect, EffectType
  <2> QED
    BY <1>5, <2>1, <2>2 DEF d
<1> QED
  BY <1>1, <1>6, <1>7, <1>8
-----------------------------------------------------------------------------
(* Reading, and the steps of the specification                              *)

LEMMA ReadsFirst ==
  ASSUME NEW S, NEW net \in Seq(S), NEW out \in Seq(S), net # << >>
  PROVE  /\ net \o out \in Seq(S) /\ net \o out # << >>
         /\ Head(net) \in S /\ Tail(net) \in Seq(S)
         /\ Head(net \o out) = Head(net) /\ Tail(net \o out) = Tail(net) \o out
<1> DEFINE t == net \o out
           r == Tail(net)
           q == r \o out
<1>1. /\ t \in Seq(S) /\ Len(t) = Len(net) + Len(out)
      /\ \A i \in 1 .. Len(net) + Len(out) : t[i] = IF i <= Len(net) THEN net[i] ELSE out[i - Len(net)]
  BY ConcatProperties
<1>2. /\ Head(net) \in S /\ r \in Seq(S) /\ Len(r) = Len(net) - 1
      /\ \A i \in 1 .. Len(r) : r[i] = net[i + 1]
  BY HeadTailProperties
<1>3. Len(net) \in Nat \ {0} /\ Len(out) \in Nat /\ Head(net) = net[1]
  OBVIOUS
<1> HIDE DEF t, r
<1>4. /\ q \in Seq(S) /\ Len(q) = Len(r) + Len(out)
      /\ \A i \in 1 .. Len(r) + Len(out) : q[i] = IF i <= Len(r) THEN r[i] ELSE out[i - Len(r)]
  BY <1>2, ConcatProperties
<1> HIDE DEF q
<1>5. t # << >>
  BY <1>1, <1>3
<1>6. /\ Tail(t) \in Seq(S) /\ Len(Tail(t)) = Len(t) - 1
      /\ \A i \in 1 .. Len(Tail(t)) : Tail(t)[i] = t[i + 1]
  BY <1>1, <1>5, HeadTailProperties
<1>7. Head(t) = Head(net)
  BY <1>1, <1>3, <1>5
<1>8. Len(Tail(t)) = Len(q)
  BY <1>1, <1>2, <1>3, <1>4, <1>6
<1>9. \A i \in 1 .. Len(Tail(t)) : Tail(t)[i] = q[i]
  <2> TAKE i \in 1 .. Len(Tail(t))
  <2>1. i \in 1 .. Len(r) + Len(out) /\ i + 1 \in 1 .. Len(net) + Len(out)
    BY <1>1, <1>2, <1>3, <1>4, <1>8
  <2>2. CASE i <= Len(r)
    <3>1. i \in 1 .. Len(r) /\ i + 1 <= Len(net)
      BY <1>2, <1>3, <2>1, <2>2
    <3> QED
      BY <1>1, <1>2, <1>4, <1>6, <2>1, <2>2, <3>1
  <2>3. CASE ~(i <= Len(r))
    <3>1. ~(i + 1 <= Len(net)) /\ i + 1 - Len(net) = i - Len(r)
      BY <1>2, <1>3, <2>1, <2>3
    <3> QED
      BY SMTT(30), <1>1, <1>4, <1>6, <2>1, <2>3, <3>1
  <2> QED
    BY <2>2, <2>3
<1>10. Tail(t) = q
  BY <1>4, <1>6, <1>8, <1>9, SeqEqual
<1> QED
  BY <1>1, <1>2, <1>5, <1>7, <1>10 DEF t, r, q

Rest(c) == [c EXCEPT !.h245Net = Tail(@)]

LEMMA ReadEffect ==
  ASSUME NEW c \in Call, c.h245Net # << >>
  PROVE  /\ Sent245(c) \in Seq(Message) /\ Sent245(c) # << >>
         /\ Head(c.h245Net) = Head(Sent245(c))
         /\ Effect(c, Rest(c), c.logicalChans, Tail(Sent245(c)))
<1> DEFINE d == Rest(c)
<1>1. c.h245Net \in Seq(Message) /\ c.h245Out \in Seq(Message)
  BY SentType
<1>2. /\ Sent245(c) \in Seq(Message) /\ Sent245(c) # << >>
      /\ Head(c.h245Net) = Head(Sent245(c)) /\ Tail(c.h245Net) \in Seq(Message)
      /\ Tail(Sent245(c)) = Tail(c.h245Net) \o c.h245Out
  <2>1. ASSUME NEW net \in Seq(Message), NEW out \in Seq(Message), net # << >>
        PROVE  /\ net \o out \in Seq(Message) /\ net \o out # << >>
               /\ Head(net) = Head(net \o out) /\ Tail(net) \in Seq(Message)
               /\ Tail(net \o out) = Tail(net) \o out
    BY <2>1, ReadsFirst
  <2> QED
    BY <1>1, <2>1 DEF Sent245
<1>3. /\ d \in Call /\ d.callState = c.callState
      /\ d.flags = c.flags /\ d.h245Sock = c.h245Sock /\ d.h245SessionState = c.h245SessionState
      /\ d.localTermCapState = c.localTermCapState /\ d.remoteTermCapState = c.remoteTermCapState
      /\ d.masterSlaveState = c.masterSlaveState /\ d.remoteTermCapSeqNo = c.remoteTermCapSeqNo
      /\ d.logicalChanNoCur = c.logicalChanNoCur /\ d.timers = c.timers
      /\ d.logicalChans = c.logicalChans
      /\ d.h245Net = Tail(c.h245Net) /\ d.h245Out = c.h245Out
  <2>1. d \in Call /\ d.h245Net = Tail(c.h245Net) /\ d.h245Out = c.h245Out
    BY <1>2 DEF Call, Rest
  <2>2. /\ d.callState = c.callState /\ d.flags = c.flags /\ d.h245Sock = c.h245Sock
        /\ d.h245SessionState = c.h245SessionState
        /\ d.localTermCapState = c.localTermCapState /\ d.remoteTermCapState = c.remoteTermCapState
    BY DEF Call, Rest
  <2>3. /\ d.masterSlaveState = c.masterSlaveState /\ d.remoteTermCapSeqNo = c.remoteTermCapSeqNo
        /\ d.logicalChanNoCur = c.logicalChanNoCur /\ d.timers = c.timers
        /\ d.logicalChans = c.logicalChans
    BY DEF Call, Rest
  <2> QED
    BY <2>1, <2>2, <2>3
<1> HIDE DEF d
<1>4. Effect(c, d, c.logicalChans, Tail(Sent245(c)))
  BY <1>2, <1>3 DEF Effect, TimersOK, Sent245
<1> QED
  BY <1>2, <1>4 DEF d

LEMMA ReadKeeps ==
  ASSUME NEW c \in Call, c.h245Net # << >>
  PROVE  Keeps(c, Rest(c))
<1> DEFINE s == Sent245(c)
<1>1. s \in Seq(Message) /\ s # << >> /\ Effect(c, Rest(c), c.logicalChans, Tail(s))
  BY ReadEffect
<1> HIDE DEF s
<1>2. AllWritten(s) => AllWritten(Tail(s))
  <2>1. /\ Tail(s) \in Seq(Message) /\ Len(Tail(s)) = Len(s) - 1 /\ Len(s) \in Nat
        /\ \A i \in 1 .. Len(Tail(s)) : Tail(s)[i] = s[i + 1]
    BY <1>1, HeadTailProperties
  <2>2. \A i \in DOMAIN Tail(s) : i + 1 \in DOMAIN s /\ Tail(s)[i] = s[i + 1]
    BY <1>1, <2>1
  <2> QED
    BY <2>2 DEF AllWritten
<1> QED
  BY <1>1, <1>2, EffectKeeps DEF AllWritten, s

(* The peer numbers its sets one by one: two for every pause.               *)
Count == call.remoteTermCapSeqNo = 2 * pauses + (IF paused THEN 0 ELSE 1)

TypeInv == TypeOK /\ (Live => Plainly(call) /\ Count)

LEMMA KeepsInv ==
  ASSUME TypeInv, Live, Keeps(call, call'), UNCHANGED << paused, pauses >>
  PROVE  call' \in Call /\ Plainly(call)' /\ Count'
  BY DEF TypeInv, Keeps, Count, Plainly, TimersOK, Sent245

LEMMA PeerAnswers ==
  ASSUME NEW m \in Message, NEW a \in Answer(m)
  PROVE  a \in Message /\ FromPeer(a) /\ a.type \in {"CLCAck", "TCSAck", "MSDAck"}
<1>1. m.type = "CLC" => m.chan \in Nat
  BY MessageFields DEF ChanMsg
<1>2. m.type \in {"CLC", "TCS", "MSDAck"}
  BY DEF Answer
<1>3. CASE m.type = "CLC"
  BY <1>1, <1>3, UntrackedMessages DEF Answer, ChanMsg, ChanMsgOf, FromPeer
<1>4. CASE m.type = "TCS"
  BY <1>4, UntrackedMessages DEF Answer, Plain, Msg, FromPeer
<1>5. CASE m.type = "MSDAck"
  <2> DEFINE r == IF m.decision = "master" THEN "slave" ELSE "master"
  <2>1. r \in {"master", "slave"}
    OBVIOUS
  <2>2. a = [type |-> "MSDAck", decision |-> r]
    BY <1>5 DEF Answer
  <2> HIDE DEF r
  <2> QED
    BY <2>1, <2>2 DEF Message, FromPeer
<1> QED
  BY <1>2, <1>3, <1>4, <1>5

(* What the peer sends: messages as H.245 has them.                         *)
LEMMA PeerMessages ==
  /\ \A t \in {"OLCAck", "OLCReject", "RCC", "CLC"} : \A n \in Nat :
       ChanMsgOf(t, n) \in Message /\ FromPeer(ChanMsgOf(t, n))
       /\ ChanMsgOf(t, n).type = t /\ ChanMsgOf(t, n).chan = n
  /\ \A n \in Nat, cap \in Cap :
       LET m == [type |-> "OLC", chan |-> n, cap |-> cap, session |-> DefaultSession(MediaOf[cap])]
       IN  m \in Message /\ FromPeer(m)
  /\ LET m == [type |-> "MSD", terminalType |-> PeerTermType, number |-> 0]
     IN  m \in Message /\ FromPeer(m)
<1>1. \A t \in {"OLCAck", "OLCReject", "RCC", "CLC"} : \A n \in Nat :
        ChanMsgOf(t, n) \in Message /\ FromPeer(ChanMsgOf(t, n))
        /\ ChanMsgOf(t, n).type = t /\ ChanMsgOf(t, n).chan = n
  BY UntrackedMessages DEF ChanMsg, ChanMsgOf, FromPeer
<1>2. ASSUME NEW n \in Nat, NEW cap \in Cap
      PROVE  LET m == [type |-> "OLC", chan |-> n, cap |-> cap,
                       session |-> DefaultSession(MediaOf[cap])]
             IN  m \in Message /\ FromPeer(m)
  <2> DEFINE s == DefaultSession(MediaOf[cap])
  <2>1. s \in Nat /\ s # 0
    BY DEF DefaultSession
  <2> HIDE DEF s
  <2>2. LET m == [type |-> "OLC", chan |-> n, cap |-> cap, session |-> s]
        IN  m \in Message /\ FromPeer(m)
    BY <2>1 DEF Message, FromPeer
  <2> QED
    BY <2>2 DEF s
<1>3. LET m == [type |-> "MSD", terminalType |-> PeerTermType, number |-> 0]
      IN  m \in Message /\ FromPeer(m)
  <2>1. 0 \in DetNumber /\ PeerTermType \in Nat /\ PeerTermType # TermType[Local]
    BY ConstantsAssumption, ChannelsAssumption DEF DetNumber
  <2> QED
    BY <2>1 DEF Message, FromPeer
<1> QED
  BY <1>1, <1>2, <1>3

LEMMA NextSet ==
  ASSUME TypeInv, Live, NEW b \in BOOLEAN, b => paused, ~b => ~paused /\ pauses < MaxPauses
  PROVE  /\ CapabilitySet(b) \in Message /\ CapabilitySet(b).type = "TCS"
         /\ CapabilitySet(b).caps = b
         /\ CapabilitySet(b).seq = call.remoteTermCapSeqNo + 1
         /\ CapabilitySet(b).seq > call.remoteTermCapSeqNo
         /\ call.remoteTermCapSeqNo + 1 =
              2 * (IF b THEN pauses ELSE pauses + 1) + (IF b THEN 1 ELSE 0)
<1> DEFINE n == call.remoteTermCapSeqNo
<1>1. n \in Nat
  BY StatesOf, ConstantsAssumption DEF TypeInv, TypeOK, SeqNumber
<1>2. pauses \in Nat /\ pauses <= MaxPauses /\ MaxPauses \in Nat /\ 2 * MaxPauses + 1 < TCSSeqMod
      /\ TCSSeqMod \in Nat
  BY ConstantsAssumption, ChannelsAssumption DEF TypeInv, TypeOK
<1>3. n = 2 * pauses + (IF paused THEN 0 ELSE 1) /\ paused \in BOOLEAN
  BY DEF TypeInv, TypeOK, Count
<1> HIDE DEF n
<1>4. n + 1 = 2 * (IF b THEN pauses ELSE pauses + 1) + (IF b THEN 1 ELSE 0)
  BY <1>2, <1>3
<1>5. n + 1 <= 2 * MaxPauses + 1
  BY <1>1, <1>2, <1>4
<1>6. n + 1 \in SeqNumber
  BY <1>1, <1>2, <1>5 DEF SeqNumber
<1>7. CapabilitySet(b) = [type |-> "TCS", seq |-> n + 1, caps |-> b]
  BY DEF CapabilitySet, n
<1> QED
  BY <1>1, <1>4, <1>6, <1>7 DEF Message, n

(* The call as the specification begins with it, before it opens channels.  *)
Connected ==
  [NewCall(TRUE, {}) EXCEPT
     !.callState = CONNECTED, !.h245SessionState = "ACTIVE", !.h245Sock = "open",
     !.masterSlaveState = "Master",
     !.localTermCapState = "AckRecvd", !.localTermCapSeqNo = 1,
     !.remoteTermCapState = "AckSent", !.remoteTermCapSeqNo = 1]

LEMMA ConnectedCall ==
  /\ Connected \in Call /\ Plainly(Connected) /\ Connected.flags = {} /\ Connected.logicalChans = << >>
  /\ Sent245(Connected) = << >> /\ Connected.remoteTermCapSeqNo = 1
  /\ Connected.h245SessionState = "ACTIVE" /\ CapsExchanged(Connected) /\ RoleDecided(Connected)
<1> DEFINE b == NewCall(TRUE, {})
           c == Connected
<1>1. b \in Call /\ Sent245(b) = << >>
  <2>1. TRUE \in BOOLEAN /\ {} \in SUBSET EpFlag /\ {} \in SUBSET CallFlag
    OBVIOUS
  <2> QED
    BY <2>1, NewCallFresh DEF Fresh
<1>2. /\ b.flags = {} /\ b.logicalChans = << >> /\ b.timers = {} /\ b.logicalChanNoCur = ChanNoBase
      /\ b.h245Net = << >> /\ b.h245Out = << >>
  BY DEF NewCall
<1>3. /\ CONNECTED \in CallState /\ "ACTIVE" \in SessionState /\ "open" \in Socket
      /\ "Master" \in MasterSlaveState /\ "AckRecvd" \in LocalTermCapState
      /\ "AckSent" \in RemoteTermCapState /\ 1 \in SeqNumber
  BY ConstantsAssumption
     DEF CallState, CREATED, CONNECTED, CLEARED, SessionState, Socket, MasterSlaveState,
         LocalTermCapState, RemoteTermCapState, SeqNumber
<1>4. c = [b EXCEPT !.callState = CONNECTED, !.h245SessionState = "ACTIVE", !.h245Sock = "open",
                    !.masterSlaveState = "Master",
                    !.localTermCapState = "AckRecvd", !.localTermCapSeqNo = 1,
                    !.remoteTermCapState = "AckSent", !.remoteTermCapSeqNo = 1]
  BY DEF Connected
<1> HIDE DEF b, c
<1>5. c \in Call
  BY ZenonT(40), <1>1, <1>3, <1>4 DEF Call
<1>6. /\ c.flags = {} /\ c.logicalChans = << >> /\ c.timers = {} /\ c.logicalChanNoCur = ChanNoBase
      /\ c.h245Net = << >> /\ c.h245Out = << >> /\ c.remoteTermCapSeqNo = 1
      /\ c.h245Sock = "open" /\ c.masterSlaveState = "Master" /\ c.h245SessionState = "ACTIVE"
      /\ c.localTermCapState = "AckRecvd" /\ c.remoteTermCapState = "AckSent"
  BY <1>1, <1>2, <1>4 DEF Call
<1>7. << >> \o << >> = << >> /\ DOMAIN << >> = {}
  OBVIOUS
<1>8. Sent245(c) = << >>
  BY <1>6, <1>7 DEF Sent245
<1>9. ChanNoBase \in Own
  BY ConstantsAssumption DEF Own
<1>10. Plainly(c)
  BY <1>6, <1>7, <1>8, <1>9 DEF Plainly, TimersOK
<1> QED
  BY <1>5, <1>6, <1>8, <1>10 DEF c, CapsExchanged, RoleDecided

LEMMA InitType == Init => TypeInv
<1> SUFFICES ASSUME Init PROVE TypeInv
  OBVIOUS
<1>1. call = OpenIfNone(Local, Fine, Connected)
  BY ConnectedCall DEF Init, Connected, OpenIfNone
<1>2. Keeps(Connected, call)
  BY <1>1, ConnectedCall, OpenKeeps
<1>3. call \in Call /\ Plainly(call) /\ call.remoteTermCapSeqNo = 1
  BY <1>2, ConnectedCall DEF Keeps
<1>4. /\ theirs = {} /\ asked = {} /\ receiving = {} /\ forgotten = {}
      /\ paused = FALSE /\ awaited = {} /\ pauses = 0
  BY DEF Init
<1>5. TypeOK
  <2>1. 0 \in 0 .. MaxPauses
    BY ChannelsAssumption
  <2> QED
    BY <1>3, <1>4, <2>1 DEF TypeOK
<1>6. Count
  BY <1>3, <1>4 DEF Count
<1> QED
  BY <1>3, <1>5, <1>6 DEF TypeInv

LEMMA ForgottenType ==
  ASSUME TypeOK
  PROVE  Forgotten \subseteq PeerChan
  BY DEF TypeOK, Forgotten

(* A message is received and nothing is said of capabilities.               *)
LEMMA HandleInv ==
  ASSUME TypeInv, Live, NEW m \in Message, FromPeer(m), Handle(m), UNCHANGED << paused, pauses >>
  PROVE  call' \in Call /\ Plainly(call)' /\ Count' /\ forgotten' \subseteq PeerChan
<1>1. call \in Call /\ Plainly(call) /\ TypeOK
  BY DEF TypeInv, TypeOK
<1>2. Keeps(call, call')
  BY <1>1, ReceivedKeeps DEF Handle, Receive
<1>3. call' \in Call /\ Plainly(call)' /\ Count'
  BY <1>2, KeepsInv
<1> QED
  BY <1>1, <1>3, ForgottenType DEF Handle

LEMMA SetInv ==
  ASSUME TypeInv, Live, NEW b \in BOOLEAN, b => paused, ~b => ~paused /\ pauses < MaxPauses,
         Handle(CapabilitySet(b)), paused' = ~b, pauses' = IF b THEN pauses ELSE pauses + 1
  PROVE  call' \in Call /\ Plainly(call)' /\ Count' /\ forgotten' \subseteq PeerChan
<1>1. call \in Call /\ Plainly(call) /\ TypeOK
  BY DEF TypeInv, TypeOK
<1> DEFINE m == CapabilitySet(b)
<1>2. /\ m \in Message /\ m.type = "TCS"
      /\ m.seq = call.remoteTermCapSeqNo + 1 /\ m.seq > call.remoteTermCapSeqNo
      /\ call.remoteTermCapSeqNo + 1 =
           2 * (IF b THEN pauses ELSE pauses + 1) + (IF b THEN 1 ELSE 0)
  BY NextSet
<1>3. call' = ReceiveH245(Local, Fine, call, m) /\ forgotten' = Forgotten
  BY DEF Handle, Receive
<1> HIDE DEF m
<1>4. call' \in Call /\ Plainly(call') /\ call'.remoteTermCapSeqNo = m.seq
  BY <1>1, <1>2, <1>3, ReceivedKeeps
<1>5. Count'
  BY <1>2, <1>4 DEF Count
<1>6. Plainly(call)'
  BY <1>4 DEF Plainly, TimersOK, Sent245
<1> QED
  BY <1>1, <1>3, <1>4, <1>5, <1>6, ForgottenType

LEMMA NextType ==
  ASSUME TypeInv, [Next]_vars
  PROVE  TypeInv'
<1>1. TypeOK
  BY DEF TypeInv
<1>2. call \in Call /\ PeerChan \subseteq Nat
  BY <1>1, ChannelsAssumption DEF TypeOK
<1>3. Live => Plainly(call)
  BY DEF TypeInv
<1>4. CASE Write
  <2>1. Live /\ call.h245Out # << >> /\ call' = SendMsgH245(Fine, call)
        /\ UNCHANGED << theirs, asked, receiving, forgotten, paused, awaited, pauses >>
    BY <1>4 DEF Write, channels, session
  <2>2. Effect(call, call', call.logicalChans, Sent245(call))
    BY <1>2, <1>3, <2>1, WriteEffect DEF Live
  <2>3. Keeps(call, call')
    BY <1>2, <2>2, EffectKeeps
  <2>4. call' \in Call /\ Plainly(call)' /\ Count'
    BY <2>1, <2>3, KeepsInv
  <2> QED
    BY <1>1, <2>1, <2>4 DEF TypeInv, TypeOK
<1>5. CASE PeerReads
  <2> DEFINE m    == Head(call.h245Net)
             rest == Rest(call)
  <2>1. /\ Live /\ call.h245Net # << >>
        /\ UNCHANGED << theirs, paused, pauses >>
        /\ asked' = CASE m.type = "OLC" -> asked \cup {m.chan}
                      [] m.type = "CLC" -> asked \ {m.chan}
                      [] OTHER          -> asked
        /\ receiving' = IF m.type = "CLC" THEN receiving \ {m.chan} ELSE receiving
        /\ awaited' = awaited \ {m.type}
        /\ IF Answer(m) = {} THEN call' = rest /\ UNCHANGED forgotten
           ELSE \E a \in Answer(m) : Receive(rest, a) /\ forgotten' = Forgotten
    BY <1>5 DEF PeerReads, Rest
  <2>2. m \in Message
    BY <1>2, <2>1, SentType, HeadOfQueue
  <2>3. m.type = "OLC" => m.chan \in Nat
    BY <2>2, MessageFields
  <2>4. Keeps(call, rest)
    BY <1>2, <2>1, ReadKeeps
  <2> HIDE DEF m, rest
  <2>5. rest \in Call /\ Plainly(rest)
    BY <1>3, <2>1, <2>4 DEF Keeps
  <2>6. Keeps(call, call') /\ forgotten' \subseteq PeerChan
    <3>1. CASE Answer(m) = {}
      BY <1>1, <2>1, <2>4, <3>1 DEF TypeOK
    <3>2. CASE Answer(m) # {}
      <4>1. PICK a \in Answer(m) : Receive(rest, a) /\ forgotten' = Forgotten
        BY <2>1, <3>2
      <4>2. a \in Message /\ FromPeer(a)
        BY <2>2, PeerAnswers
      <4>3. Keeps(rest, call')
        BY <2>5, <4>1, <4>2, ReceivedKeeps DEF Receive
      <4> QED
        BY <1>1, <2>4, <4>1, <4>3, KeepsTransitive, ForgottenType
    <3> QED
      BY <3>1, <3>2
  <2>7. call' \in Call /\ Plainly(call)' /\ Count'
    BY <2>1, <2>6, KeepsInv
  <2>8. asked' \subseteq Nat /\ receiving' \subseteq Nat
    BY <1>1, <2>1, <2>3 DEF TypeOK
  <2> QED
    BY <1>1, <2>1, <2>6, <2>7, <2>8 DEF TypeInv, TypeOK
<1>6. CASE PeerPauses
  <2>1. /\ Live /\ ~paused /\ pauses < MaxPauses
        /\ Handle(CapabilitySet(FALSE)) /\ paused' = TRUE /\ awaited' = {"TCSAck"}
        /\ pauses' = pauses + 1 /\ UNCHANGED << theirs, asked, receiving >>
    BY <1>6 DEF PeerPauses, Running, channels
  <2>2. call' \in Call /\ Plainly(call)' /\ Count' /\ forgotten' \subseteq PeerChan
    BY <2>1, SetInv
  <2>3. pauses' \in 0 .. MaxPauses
    BY <1>1, <2>1, ChannelsAssumption DEF TypeOK
  <2> QED
    BY <1>1, <2>1, <2>2, <2>3 DEF TypeInv, TypeOK
<1>7. CASE PeerResumes
  <2>1. /\ Live /\ paused /\ awaited = {}
        /\ Handle(CapabilitySet(TRUE)) /\ paused' = FALSE
        /\ awaited' = {"MSD", "TCSAck", "TCS", "MSDAck"}
        /\ UNCHANGED << theirs, asked, receiving, pauses >>
    BY <1>7 DEF PeerResumes, channels
  <2>2. call' \in Call /\ Plainly(call)' /\ Count' /\ forgotten' \subseteq PeerChan
    BY <2>1, SetInv
  <2> QED
    BY <1>1, <2>1, <2>2 DEF TypeInv, TypeOK
<1>8. CASE PeerDetermines
  <2> DEFINE m == [type |-> "MSD", terminalType |-> PeerTermType, number |-> 0]
  <2>1. /\ Live /\ Handle(m) /\ awaited' = awaited \ {"MSD"}
        /\ UNCHANGED << theirs, asked, receiving, paused, pauses >>
    BY <1>8 DEF PeerDetermines, channels
  <2>2. m \in Message /\ FromPeer(m)
    BY PeerMessages
  <2> HIDE DEF m
  <2>3. call' \in Call /\ Plainly(call)' /\ Count' /\ forgotten' \subseteq PeerChan
    BY <2>1, <2>2, HandleInv
  <2> QED
    BY <1>1, <2>1, <2>3 DEF TypeInv, TypeOK
<1>9. ASSUME NEW n \in asked, PeerAccepts(n) \/ PeerRejects(n)
      PROVE  TypeInv'
  <2>1. n \in Nat
    BY <1>1 DEF TypeOK
  <2>2. /\ Live /\ UNCHANGED << theirs, paused, awaited, pauses >>
        /\ asked' = asked \ {n} /\ receiving' \in {receiving, receiving \cup {n}}
        /\ Handle(ChanMsgOf("OLCAck", n)) \/ Handle(ChanMsgOf("OLCReject", n))
    BY <1>9 DEF PeerAccepts, PeerRejects, session
  <2>3. call' \in Call /\ Plainly(call)' /\ Count' /\ forgotten' \subseteq PeerChan
    BY <2>1, <2>2, PeerMessages, HandleInv
  <2>4. asked' \subseteq Nat /\ receiving' \subseteq Nat
    BY <1>1, <2>1, <2>2 DEF TypeOK
  <2> QED
    BY <1>1, <2>2, <2>3, <2>4 DEF TypeInv, TypeOK
<1>10. ASSUME NEW n \in receiving, PeerRequestsClose(n)
       PROVE  TypeInv'
  <2>1. n \in Nat
    BY <1>1 DEF TypeOK
  <2>2. /\ Live /\ UNCHANGED << theirs, asked, receiving, paused, awaited, pauses >>
        /\ Handle(ChanMsgOf("RCC", n))
    BY <1>10 DEF PeerRequestsClose, session, channels
  <2>3. call' \in Call /\ Plainly(call)' /\ Count' /\ forgotten' \subseteq PeerChan
    BY <2>1, <2>2, PeerMessages, HandleInv
  <2> QED
    BY <1>1, <2>2, <2>3 DEF TypeInv, TypeOK
<1>11. ASSUME NEW n \in PeerChan, NEW cap \in Cap, PeerOpens(n, cap)
       PROVE  TypeInv'
  <2> DEFINE m == [type |-> "OLC", chan |-> n, cap |-> cap,
                   session |-> DefaultSession(MediaOf[cap])]
  <2>1. /\ Live /\ UNCHANGED << asked, receiving, paused, awaited, pauses >>
        /\ Handle(m) /\ theirs' \in {theirs, theirs \cup {n}}
    BY <1>11 DEF PeerOpens, session
  <2>2. m \in Message /\ FromPeer(m)
    BY <1>2, PeerMessages
  <2> HIDE DEF m
  <2>3. call' \in Call /\ Plainly(call)' /\ Count' /\ forgotten' \subseteq PeerChan
    BY <2>1, <2>2, HandleInv
  <2> QED
    BY <1>1, <2>1, <2>3 DEF TypeInv, TypeOK
<1>12. ASSUME NEW n \in theirs, PeerCloses(n)
       PROVE  TypeInv'
  <2>1. n \in Nat
    BY <1>1, <1>2 DEF TypeOK
  <2>2. /\ Live /\ UNCHANGED << asked, receiving, paused, awaited, pauses >>
        /\ Receive(call, ChanMsgOf("CLC", n))
        /\ theirs' = theirs \ {n} /\ forgotten' = Forgotten \ {n}
    BY <1>12 DEF PeerCloses, session
  <2>3. Keeps(call, call')
    BY <1>2, <1>3, <2>1, <2>2, PeerMessages, ReceivedKeeps DEF Receive
  <2>4. call' \in Call /\ Plainly(call)' /\ Count'
    BY <2>2, <2>3, KeepsInv
  <2>5. forgotten' \subseteq PeerChan
    BY <1>1, <2>2, ForgottenType
  <2> QED
    BY <1>1, <2>2, <2>4, <2>5 DEF TypeInv, TypeOK
<1>13. ASSUME NEW t \in call.timers, Expire(t)
       PROVE  TypeInv'
  <2>1. /\ Live /\ UNCHANGED << theirs, asked, receiving, forgotten, paused, awaited, pauses >>
        /\ call' = FireTimer(Local, Fine, call, t)
    BY <1>13 DEF Expire, session, channels
  <2>2. call' \in Call /\ ~(call'.callState < CLEAR)
    BY <1>2, <1>3, <2>1, ExpiryEnds
  <2>3. TypeOK'
    BY <1>1, <2>1, <2>2 DEF TypeOK
  <2>4. ~Live'
    BY <2>2 DEF Live
  <2> QED
    BY <2>3, <2>4 DEF TypeInv
<1>14. CASE UNCHANGED vars
  <2>1. UNCHANGED << call, theirs, asked, receiving, forgotten, paused, awaited, pauses >>
    BY <1>14 DEF vars, channels, session
  <2> QED
    BY <1>1, <2>1 DEF TypeInv, TypeOK, Live, Plainly, TimersOK, Sent245, Count
<1> QED
  BY <1>4, <1>5, <1>6, <1>7, <1>8, <1>9, <1>10, <1>11, <1>12, <1>13, <1>14 DEF Next

(* The state has its type whatever the peer does and however it numbers its *)
(* channels, and the number of a capability set never passes its range.     *)
THEOREM TypeCorrect == Spec => []TypeOK
<1>1. TypeInv /\ [Next]_vars => TypeInv'
  BY NextType
<1>2. TypeInv => TypeOK
  BY DEF TypeInv
<1> QED
  BY InitType, <1>1, <1>2, PTL DEF Spec

-----------------------------------------------------------------------------
(* The list of this end and the channels of the peer                        *)

(* What the list ch and the messages s still to be read say together: each  *)
(* channel of the peer has an entry unless it was forgotten, each proposal  *)
(* has one until it is answered, and the peer expects media on the channels *)
(* that are open or are being closed.                                       *)
Agrees(ch, s, th, as, re, fo) ==
  /\ ListOK(ch) /\ Orderly(s)
  /\ fo \subseteq th /\ InAt(ch) = th \ fo
  /\ OutAt(ch, "PROPOSED") = NamedIn(s, "OLC") \cup as
  /\ NamedIn(s, "OLC") \cap as = {}
  /\ OutAt(ch, "ESTABLISHED") \cup NamedIn(s, "CLC") = re
  /\ OutAt(ch, "ESTABLISHED") \cap NamedIn(s, "CLC") = {}
  /\ OutAt(ch, "PROPOSED") \cap NamedIn(s, "CLC") = {}

(* What the peer waits for: what it still has to send or to read, and its   *)
(* wish to resume a session it has paused.  The marks on their way are what *)
(* it has to read; the role is told once it has been asked about.           *)
Waits == awaited \cup (IF paused THEN {"resume"} ELSE {})

UnderWay(w) == IF "MSD" \in w THEN w \cap {"TCSAck", "TCS"} ELSE w \ {"resume"}

(* Where the session is: up; paused, before and after this end has noticed; *)
(* or on its way up again.                                                  *)
SessionUp(c) == CapsExchanged(c) /\ RoleDecided(c) /\ c.h245SessionState = "ACTIVE"

PauseUnnoticed(c) ==
  c.h245SessionState = "PAUSED" /\ OutAt(c.logicalChans, "PROPOSED") = {}

PauseNoticed(c) ==
  /\ c.h245SessionState = "IDLE" /\ c.logicalChans = << >>
  /\ c.localTermCapState = "Idle" /\ c.remoteTermCapState = "Idle"
  /\ c.masterSlaveState = "Idle"

ComesUp(c, as, w) ==
  /\ "MSDAck" \in w /\ as = {}
  /\ c.h245SessionState = "ACTIVE" /\ c.remoteTermCapState = "AckSent"
  /\ "TCS" \in w => c.localTermCapState = "SetSent"
  /\ "TCS" \notin w => c.localTermCapState = "AckRecvd" /\ NamedIn(Sent245(c), "CLC") = {}
  /\ "MSD" \in w => c.masterSlaveState = "Idle"
  /\ "MSD" \notin w => RoleDecided(c)
  /\ "TCS" \in w \/ "MSD" \in w => c.logicalChans = << >>
  /\ InAt(c.logicalChans) = {} /\ OutAt(c.logicalChans, "ESTABLISHED") = {}

Stage(c, as, w) ==
  /\ w \subseteq {"resume", "MSD", "TCSAck", "TCS", "MSDAck"}
  /\ "resume" \in w =>
       w \subseteq {"resume", "TCSAck"} /\ (PauseUnnoticed(c) \/ PauseNoticed(c))
  /\ w = {} => SessionUp(c)
  /\ "resume" \notin w /\ w # {} => ComesUp(c, as, w)

Good(c, th, as, re, fo, w) ==
  /\ Agrees(c.logicalChans, Sent245(c), th, as, re, fo)
  /\ MarksIn(Sent245(c)) = UnderWay(w)
  /\ Stage(c, as, w)

(* Noticing a pause: the channels that were open are being closed.          *)
LEMMA NoticedGood ==
  ASSUME NEW c \in Call, NEW th, NEW as, NEW re, NEW fo, NEW w,
         c.callState < CLEAR, Good(c, th, as, re, fo, w)
  PROVE  LET d == Noticed(c)
             f == IF c.h245SessionState = "PAUSED" THEN th ELSE fo
         IN  d.callState < CLEAR /\ Good(d, th, as, re, f, w)
<1>1. CASE c.h245SessionState # "PAUSED"
  BY <1>1 DEF Noticed
<1>2. CASE c.h245SessionState = "PAUSED"
  <2> DEFINE d  == ClosePaused(c)
             ch == c.logicalChans
             s  == Sent245(c)
             r  == Sent245(d)
  <2>1. Noticed(c) = d
    BY <1>2 DEF Noticed
  <2>2. /\ Agrees(ch, s, th, as, re, fo) /\ MarksIn(s) = UnderWay(w) /\ Stage(c, as, w)
    BY DEF Good
  <2>3. "resume" \in w /\ w \subseteq {"resume", "TCSAck"} /\ OutAt(ch, "PROPOSED") = {}
    BY <1>2, <2>2 DEF Stage, SessionUp, ComesUp, PauseUnnoticed, PauseNoticed
  <2>4. Closable(c)
    BY <2>2, <2>3 DEF Closable, Agrees, UnderWay
  <2>5. /\ d.callState = PAUSED /\ d.h245SessionState = "IDLE"
        /\ d.localTermCapState = "Idle" /\ d.remoteTermCapState = "Idle"
        /\ d.masterSlaveState = "Idle" /\ d.logicalChans = << >>
        /\ Orderly(r)
        /\ NamedIn(r, "CLC") = NamedIn(s, "CLC") \cup OutAt(ch, "ESTABLISHED")
        /\ NamedIn(r, "OLC") = NamedIn(s, "OLC")
        /\ MarksIn(r) = MarksIn(s)
    BY <2>4, ClosePausedClears
  <2> HIDE DEF d, ch, s, r
  <2>6. d.callState < CLEAR
    BY <2>5 DEF PAUSED, CLEAR
  <2>7. Agrees(<< >>, r, th, as, re, th)
    BY <2>2, <2>3, <2>5, EmptyList DEF Agrees
  <2>8. Stage(d, as, w)
    BY <2>3, <2>5 DEF Stage, PauseNoticed
  <2>9. Good(d, th, as, re, th, w)
    BY <2>2, <2>5, <2>7, <2>8 DEF Good, r
  <2> QED
    BY <1>2, <2>1, <2>6, <2>9
<1> QED
  BY <1>1, <1>2

(* A step that only takes channels off the list leaves the session where it *)
(* is.                                                                      *)
LEMMA StageStays ==
  ASSUME NEW c \in Call, NEW d, NEW ch, NEW s, Effect(c, d, ch, s), NumbersApart,
         NEW as, NEW w, Stage(c, as, w),
         ListOK(c.logicalChans), ch \in Seq(LogicalChan), ListOK(ch),
         \A st : OutAt(ch, st) \subseteq OutAt(c.logicalChans, st),
         InAt(ch) \subseteq InAt(c.logicalChans),
         NamedIn(s, "CLC") \subseteq NamedIn(Sent245(c), "CLC")
  PROVE  Stage(d, as, w)
<1> DEFINE bh == c.logicalChans
           r  == Sent245(c)
<1>1. bh = << >> => ch = << >>
  <2>1. bh = << >> => OutAt(ch, "PROPOSED") = {} /\ OutAt(ch, "ESTABLISHED") = {} /\ InAt(ch) = {}
    BY EmptyList
  <2> QED
    BY <2>1, EntryOf
<1>2. /\ d.h245SessionState = c.h245SessionState /\ d.masterSlaveState = c.masterSlaveState
      /\ d.localTermCapState = c.localTermCapState
      /\ d.remoteTermCapState = c.remoteTermCapState /\ d.logicalChans = ch /\ Sent245(d) = s
  BY DEF Effect
<1>3. SessionUp(c) => SessionUp(d)
  BY <1>2 DEF SessionUp, CapsExchanged, RoleDecided
<1>4. PauseUnnoticed(c) => PauseUnnoticed(d)
  BY <1>2 DEF PauseUnnoticed
<1>5. PauseNoticed(c) => PauseNoticed(d)
  BY <1>1, <1>2 DEF PauseNoticed
<1>6. ComesUp(c, as, w) => ComesUp(d, as, w)
  BY <1>1, <1>2 DEF ComesUp, RoleDecided
<1> QED
  BY <1>3, <1>4, <1>5, <1>6 DEF Stage

(* Where there are proposals to be answered the session is up.              *)
LEMMA StageOf ==
  ASSUME NEW c \in Call, NEW th, NEW as, NEW re, NEW fo, NEW w,
         c.h245SessionState # "PAUSED", Good(c, th, as, re, fo, w)
  PROVE  /\ as # {} => w = {}
         /\ OutAt(c.logicalChans, "ESTABLISHED") # {} => w = {}
         /\ "resume" \in w => PauseNoticed(c) /\ w \subseteq {"resume", "TCSAck"}
         /\ w = {} => SessionUp(c) /\ MarksIn(Sent245(c)) = {}
         /\ "resume" \notin w /\ w # {} => ComesUp(c, as, w)
<1>1. /\ Agrees(c.logicalChans, Sent245(c), th, as, re, fo)
      /\ MarksIn(Sent245(c)) = UnderWay(w) /\ Stage(c, as, w)
  BY DEF Good
<1>2. "resume" \in w => PauseNoticed(c) /\ w \subseteq {"resume", "TCSAck"}
  BY <1>1 DEF Stage, PauseUnnoticed
<1>3. PauseNoticed(c) => OutAt(c.logicalChans, "ESTABLISHED") = {} /\ as = {}
  BY <1>1, EmptyList DEF Agrees, PauseNoticed
<1>4. "resume" \notin w /\ w # {} => ComesUp(c, as, w)
  BY <1>1 DEF Stage
<1>5. ComesUp(c, as, w) => OutAt(c.logicalChans, "ESTABLISHED") = {} /\ as = {}
  BY DEF ComesUp
<1>6. w = {} => SessionUp(c) /\ MarksIn(Sent245(c)) = {}
  BY <1>1 DEF Stage, UnderWay
<1> QED
  BY <1>2, <1>3, <1>4, <1>5, <1>6

(* What each message of the peer does to a call that is Good, when no pause *)
(* waits to be noticed.                                                     *)
LEMMA OpensGood ==
  ASSUME NEW c \in Call, c.flags = {}, NumbersApart, NEW th, NEW as, NEW re, NEW fo,
         Good(c, th, as, re, fo, {}), th \subseteq PeerChan,
         NEW m \in Message, m.type = "OLC", m.session # 0, m.chan \in PeerChan \ th
  PROVE  Good(HandleOLC(Local, Fine, c, m),
              IF m.cap \in CanRx[Local] THEN th \cup {m.chan} ELSE th, as, re, fo, {})
<1> DEFINE d  == HandleOLC(Local, Fine, c, m)
           ch == c.logicalChans
           s  == Sent245(c)
           n  == m.chan
           x == [channelNo |-> n, session |-> m.session, dir |-> "receive",
                 cap |-> m.cap, state |-> "ESTABLISHED", started |-> TRUE]
           ack == ChanMsgOf("OLCAck", n)
           rej == ChanMsgOf("OLCReject", n)
<1>1. /\ Agrees(ch, s, th, as, re, fo) /\ MarksIn(s) = {} /\ SessionUp(c)
  BY DEF Good, UnderWay, Stage
<1>2. IF m.cap \in CanRx[Local]
      THEN x \in LogicalChan /\ Effect(c, d, Append(ch, x), Append(s, ack))
      ELSE Effect(c, d, ch, Append(s, rej))
  BY OLCEffect
<1>3. ch \in Seq(LogicalChan) /\ s \in Seq(Message)
  BY SentType
<1>4. n \in Nat /\ n \in PeerChan /\ n \notin th /\ n \notin Own
  BY ChannelsAssumption DEF NumbersApart
<1>5. /\ x.channelNo = n /\ x.dir = "receive" /\ x.state = "ESTABLISHED"
      /\ ack \in Message /\ ack.type = "OLCAck" /\ rej \in Message /\ rej.type = "OLCReject"
  BY <1>4, UntrackedMessages DEF ChanMsg, ChanMsgOf
<1> HIDE DEF d, ch, s, n, x, ack, rej
<1>6. \A a \in {ack, rej} :
        /\ Orderly(Append(s, a)) /\ MarksIn(Append(s, a)) = {}
        /\ NamedIn(Append(s, a), "OLC") = NamedIn(s, "OLC")
        /\ NamedIn(Append(s, a), "CLC") = NamedIn(s, "CLC")
  BY <1>1, <1>3, <1>5, AnswerOrderly DEF Agrees
<1>7. \A a \in {ack, rej} : Agrees(ch, Append(s, a), th, as, re, fo)
  BY <1>1, <1>6 DEF Agrees
<1>8. \A eh, r : Effect(c, d, eh, r) => SessionUp(d) /\ d.logicalChans = eh /\ Sent245(d) = r
  BY <1>1 DEF Effect, SessionUp, CapsExchanged, RoleDecided
<1>9. CASE m.cap \in CanRx[Local]
  <2> DEFINE dh == Append(ch, x)
             r  == Append(s, ack)
  <2>1. x \in LogicalChan /\ Effect(c, d, dh, r)
    BY <1>2, <1>9
  <2>2. ListOK(ch) /\ InAt(ch) = th \ fo /\ fo \subseteq th
    BY <1>1 DEF Agrees
  <2>3. \A i \in DOMAIN ch : ch[i].channelNo # n
    <3> SUFFICES ASSUME NEW i \in DOMAIN ch, ch[i].channelNo = n PROVE FALSE
      OBVIOUS
    <3>1. ch[i].dir = "receive" => n \in InAt(ch)
      BY <1>4 DEF InAt
    <3>2. ch[i].dir # "transmit" => ch[i].dir = "receive"
      BY <1>3, <2>2, EntryOf
    <3>3. ch[i].dir = "transmit" => n \in Own
      BY <2>2 DEF ListOK, Numbered
    <3> QED
      BY <1>4, <2>2, <3>1, <3>2, <3>3
  <2>4. /\ ListOK(dh)
        /\ \A st : OutAt(dh, st) = OutAt(ch, st) \cup
             (IF x.dir = "transmit" /\ x.state = st THEN {x.channelNo} ELSE {})
        /\ InAt(dh) = InAt(ch) \cup (IF x.dir = "receive" THEN {x.channelNo} ELSE {})
    BY <1>3, <1>4, <1>5, <2>1, <2>2, <2>3, AppendedList
  <2>5. (\A st : OutAt(dh, st) = OutAt(ch, st)) /\ InAt(dh) = InAt(ch) \cup {n}
    BY <1>5, <2>4
  <2> HIDE DEF dh, r
  <2>6. Agrees(ch, r, th, as, re, fo) /\ MarksIn(r) = {}
    BY <1>6, <1>7 DEF r
  <2>7. Agrees(dh, r, th \cup {n}, as, re, fo)
    <3>1. InAt(dh) = (th \cup {n}) \ fo /\ fo \subseteq th \cup {n}
      BY <1>4, <2>2, <2>5
    <3>2. OutAt(dh, "PROPOSED") = OutAt(ch, "PROPOSED")
          /\ OutAt(dh, "ESTABLISHED") = OutAt(ch, "ESTABLISHED")
      BY <2>5
    <3> QED
      BY <2>4, <2>6, <3>1, <3>2 DEF Agrees
  <2>8. SessionUp(d) /\ d.logicalChans = dh /\ Sent245(d) = r
    BY <1>8, <2>1
  <2>9. Good(d, th \cup {n}, as, re, fo, {})
    BY <2>6, <2>7, <2>8 DEF Good, Stage, UnderWay
  <2> QED
    BY <1>9, <2>9 DEF d, n
<1>10. CASE m.cap \notin CanRx[Local]
  <2>1. SessionUp(d) /\ d.logicalChans = ch /\ Sent245(d) = Append(s, rej)
    BY <1>2, <1>8, <1>10
  <2>2. Agrees(ch, Append(s, rej), th, as, re, fo) /\ MarksIn(Append(s, rej)) = {}
    BY <1>6, <1>7
  <2>3. Good(d, th, as, re, fo, {})
    BY <2>1, <2>2 DEF Good, Stage, UnderWay
  <2> QED
    BY <1>10, <2>3 DEF d
<1> QED
  BY <1>9, <1>10

(* The peer closes one of its channels.                                     *)
LEMMA ClosesGood ==
  ASSUME NEW c \in Call, c.flags = {}, NumbersApart, NEW th, NEW as, NEW re, NEW fo,
         NEW w, Good(c, th, as, re, fo, w), th \subseteq PeerChan,
         NEW m \in Message, m.type = "CLC", m.chan \in th
  PROVE  Good(HandleCLC(Fine, c, m), th \ {m.chan}, as, re, fo \ {m.chan}, w)
<1> DEFINE d  == HandleCLC(Fine, c, m)
           ch == c.logicalChans
           dh == ClearChan(c, m.chan).logicalChans
           s  == Sent245(c)
           n  == m.chan
           ack == ChanMsgOf("CLCAck", n)
           r  == Append(s, ack)
<1>1. /\ Agrees(ch, s, th, as, re, fo) /\ MarksIn(s) = UnderWay(w) /\ Stage(c, as, w)
  BY DEF Good
<1>2. Effect(c, d, dh, r)
  BY CLCEffect
<1>3. ch \in Seq(LogicalChan) /\ s \in Seq(Message)
  BY SentType
<1>4. n \in Nat /\ n \notin Own
  BY ChannelsAssumption DEF NumbersApart
<1>5. ack \in Message /\ ack.type = "CLCAck"
  BY <1>4, UntrackedMessages DEF ChanMsg, ChanMsgOf
<1>6. ListOK(ch)
  BY <1>1 DEF Agrees
<1>7. /\ dh \in Seq(LogicalChan) /\ ListOK(dh)
      /\ \A st : OutAt(dh, st) = OutAt(ch, st) \ {n}
      /\ InAt(dh) = InAt(ch) \ {n}
  BY <1>6, ClearedList
<1> HIDE DEF d, ch, dh, s, n, ack
<1>8. /\ Orderly(r) /\ MarksIn(r) = MarksIn(s)
      /\ NamedIn(r, "OLC") = NamedIn(s, "OLC") /\ NamedIn(r, "CLC") = NamedIn(s, "CLC")
  BY <1>1, <1>3, <1>5, AnswerOrderly DEF Agrees
<1> HIDE DEF r
<1>9. n \notin OutAt(ch, "PROPOSED") /\ n \notin OutAt(ch, "ESTABLISHED")
  BY <1>3, <1>4, <1>6, EntryOf
<1>10. OutAt(dh, "PROPOSED") = OutAt(ch, "PROPOSED")
       /\ OutAt(dh, "ESTABLISHED") = OutAt(ch, "ESTABLISHED")
  BY <1>7, <1>9
<1>11. Agrees(dh, r, th \ {n}, as, re, fo \ {n})
  BY <1>1, <1>7, <1>8, <1>10 DEF Agrees
<1>12. Stage(d, as, w)
  <2>1. (\A st : OutAt(dh, st) \subseteq OutAt(ch, st)) /\ InAt(dh) \subseteq InAt(ch)
    BY <1>7
  <2>2. NamedIn(r, "CLC") \subseteq NamedIn(Sent245(c), "CLC")
    BY <1>8 DEF s
  <2> QED
    BY <1>1, <1>2, <1>6, <1>7, <2>1, <2>2, StageStays DEF ch
<1>13. d.logicalChans = dh /\ Sent245(d) = r
  BY <1>2 DEF Effect
<1> QED
  BY <1>1, <1>8, <1>11, <1>12, <1>13 DEF Good, d, n

(* The peer asks for a channel to be closed: it is while it is open.        *)
LEMMA RequestGood ==
  ASSUME NEW c \in Call, c.flags = {}, NumbersApart, NEW th, NEW as, NEW re, NEW fo,
         NEW w, Good(c, th, as, re, fo, w),
         c.h245SessionState # "PAUSED",
         NEW m \in Message, m.type = "RCC", m.chan \in re
  PROVE  Good(HandleRCC(Fine, c, m), th, as, re, fo, w)
<1> DEFINE d  == HandleRCC(Fine, c, m)
           ch == c.logicalChans
           dh == ClearChan(c, m.chan).logicalChans
           s  == Sent245(c)
           n  == m.chan
           i  == FindChan(ch, n)
           ack == ChanMsgOf("RCCAck", n)
           clc == ChanMsgOf("CLC", n)
           b  == Append(s, ack)
           r  == Append(b, clc)
<1>1. /\ Agrees(ch, s, th, as, re, fo) /\ MarksIn(s) = UnderWay(w) /\ Stage(c, as, w)
  BY DEF Good
<1>2. IF i # 0 /\ ch[i].dir = "transmit" THEN Effect(c, d, dh, r) ELSE d = c
  BY RCCEffect
<1>3. ch \in Seq(LogicalChan) /\ s \in Seq(Message)
  BY SentType
<1>4. n \in Nat
  BY MessageFields DEF ChanMsg
<1>5. /\ ack \in Message /\ ack.type = "RCCAck"
      /\ clc \in Message /\ clc.type = "CLC" /\ clc.chan = n
  BY <1>4, UntrackedMessages DEF ChanMsg, ChanMsgOf
<1>6. ListOK(ch)
  BY <1>1 DEF Agrees
<1>7. /\ dh \in Seq(LogicalChan) /\ ListOK(dh)
      /\ \A st : OutAt(dh, st) = OutAt(ch, st) \ {n}
      /\ InAt(dh) = InAt(ch) \ {n}
  BY <1>6, ClearedList
<1> HIDE DEF d, dh, n, ack, clc, b, r, i
<1>8. /\ OutAt(ch, "ESTABLISHED") # {} => w = {}
      /\ w = {} => SessionUp(c) /\ MarksIn(s) = {}
  <2>1. OutAt(c.logicalChans, "ESTABLISHED") # {} => w = {}
    BY StageOf
  <2>2. w = {} => SessionUp(c) /\ MarksIn(Sent245(c)) = {}
    BY StageOf
  <2> QED
    BY <2>1, <2>2
<1>9. i # 0 => i \in DOMAIN ch /\ ch[i].channelNo = n
  BY <1>3, FindChanRange DEF i
<1> HIDE DEF ch, s
<1>10. CASE ~(i # 0 /\ ch[i].dir = "transmit")
  BY <1>2, <1>10 DEF d
<1>11. CASE i # 0 /\ ch[i].dir = "transmit"
  <2>1. n \in OutAt(ch, "PROPOSED") \/ n \in OutAt(ch, "ESTABLISHED")
    BY <1>3, <1>6, <1>9, <1>11, EntryOf
  <2>2. OutAt(ch, "PROPOSED") \cap OutAt(ch, "ESTABLISHED") = {}
    BY <1>3, <1>6, EntryOf
  <2>3. n \in OutAt(ch, "ESTABLISHED") /\ n \notin OutAt(ch, "PROPOSED")
        /\ n \notin NamedIn(s, "CLC")
    <3>1. n \in OutAt(ch, "ESTABLISHED") \cup NamedIn(s, "CLC")
      BY <1>1 DEF Agrees, n
    <3> QED
      BY <1>1, <2>1, <2>2, <3>1 DEF Agrees
  <2>4. w = {} /\ SessionUp(c) /\ MarksIn(s) = {}
    BY <1>8, <2>3
  <2>5. n \notin InAt(ch)
    BY <1>3, <1>6, <2>3, EntryOf DEF NumbersApart
  <2>6. /\ b \in Seq(Message) /\ Orderly(b) /\ MarksIn(b) = {}
        /\ NamedIn(b, "OLC") = NamedIn(s, "OLC") /\ NamedIn(b, "CLC") = NamedIn(s, "CLC")
    BY <1>1, <1>3, <1>5, <2>4, AnswerOrderly DEF Agrees, b
  <2>7. /\ Orderly(r) /\ MarksIn(r) = {}
        /\ NamedIn(r, "OLC") = NamedIn(s, "OLC")
        /\ NamedIn(r, "CLC") = NamedIn(s, "CLC") \cup {n}
    <3>1. "CLC" \in {"OLC", "CLC"} /\ "OLC" \in {"OLC", "CLC"} \ {"CLC"}
      OBVIOUS
    <3>2. clc.chan \notin NamedIn(b, "CLC") /\ "TCS" \notin MarksIn(b)
      BY <1>5, <2>3, <2>6
    <3>3. /\ Orderly(r) /\ NamedIn(r, "CLC") = NamedIn(b, "CLC") \cup {clc.chan}
          /\ \A u \in {"OLC", "CLC"} \ {"CLC"} : NamedIn(r, u) = NamedIn(b, u)
          /\ MarksIn(r) = MarksIn(b)
      BY <1>5, <2>6, <3>1, <3>2, ChannelOrderly DEF r
    <3> QED
      BY <1>5, <2>6, <3>1, <3>3
  <2>8. Effect(c, d, dh, r)
    BY <1>2, <1>11
  <2>9. Agrees(dh, r, th, as, re, fo)
    <3>1. /\ OutAt(dh, "PROPOSED") = OutAt(ch, "PROPOSED")
          /\ OutAt(dh, "ESTABLISHED") = OutAt(ch, "ESTABLISHED") \ {n}
          /\ InAt(dh) = InAt(ch)
      BY <1>7, <2>3, <2>5
    <3> QED
      <4>1. OutAt(dh, "ESTABLISHED") \cup NamedIn(r, "CLC") = re
            /\ OutAt(dh, "ESTABLISHED") \cap NamedIn(r, "CLC") = {}
        BY <1>1, <2>3, <2>7, <3>1 DEF Agrees
      <4>2. OutAt(dh, "PROPOSED") \cap NamedIn(r, "CLC") = {}
        BY <1>1, <2>3, <2>7, <3>1 DEF Agrees
      <4> QED
        BY <1>1, <1>7, <2>7, <3>1, <4>1, <4>2 DEF Agrees
  <2>10. SessionUp(d) /\ d.logicalChans = dh /\ Sent245(d) = r
    BY <2>4, <2>8 DEF Effect, SessionUp, CapsExchanged, RoleDecided
  <2>11. Good(d, th, as, re, fo, w)
    BY <2>4, <2>7, <2>9, <2>10 DEF Good, Stage, UnderWay
  <2> QED
    BY <2>11 DEF d
<1> QED
  BY <1>10, <1>11


(* The peer accepts a proposal: the channel it names is the one proposed.   *)
LEMMA AcceptsGood ==
  ASSUME NEW c \in Call, NumbersApart, NEW th, NEW as, NEW re, NEW fo, NEW w,
         Good(c, th, as, re, fo, w), c.h245SessionState # "PAUSED",
         NEW m \in Message, m.type = "OLCAck", m.chan \in as
  PROVE  Good(HandleOLCAck(c, m), th, as \ {m.chan}, re \cup {m.chan}, fo, w)
<1> DEFINE d  == HandleOLCAck(c, m)
           ch == c.logicalChans
           s  == Sent245(c)
           n  == m.chan
           k  == FindChan(ch, n)
           dh == SetChanState(StartChan(c, k), k, "ESTABLISHED").logicalChans
<1>1. /\ Agrees(ch, s, th, as, re, fo) /\ MarksIn(s) = UnderWay(w)
  BY DEF Good
<1>2. Effect(c, d, IF k = 0 THEN ch ELSE dh, s)
  BY OLCAckEffect
<1>3. ch \in Seq(LogicalChan) /\ s \in Seq(Message)
  BY SentType
<1>4. ListOK(ch)
  BY <1>1 DEF Agrees
<1>5. n \in OutAt(ch, "PROPOSED") /\ n \notin NamedIn(s, "OLC")
  BY <1>1 DEF Agrees
<1>6. w = {} /\ SessionUp(c)
  <2>1. w = {}
    BY StageOf
  <2>2. w = {} => SessionUp(c)
    BY StageOf
  <2> QED
    BY <2>1, <2>2
<1>7. k \in DOMAIN ch /\ ch[k].channelNo = n /\ k # 0
  <2>1. PICK i \in DOMAIN ch : ch[i].channelNo = n
    BY <1>5 DEF OutAt
  <2>2. k # 0
    BY <1>3, <2>1, FindChanNone
  <2> QED
    BY <1>3, <2>2, FindChanRange
<1>8. ch[k].dir = "transmit" /\ ch[k].state = "PROPOSED"
  <2>1. PICK i \in DOMAIN ch :
          ch[i].channelNo = n /\ ch[i].dir = "transmit" /\ ch[i].state = "PROPOSED"
    BY <1>5 DEF OutAt
  <2>2. i = k
    BY <1>4, <1>7, <2>1 DEF ListOK, Distinct
  <2> QED
    BY <2>1, <2>2
<1>9. /\ dh \in Seq(LogicalChan) /\ ListOK(dh)
      /\ OutAt(dh, "PROPOSED") = OutAt(ch, "PROPOSED") \ {n}
      /\ OutAt(dh, "ESTABLISHED") = OutAt(ch, "ESTABLISHED") \cup {n}
      /\ InAt(dh) = InAt(ch)
  <2> HIDE DEF k
  <2> QED
    BY <1>4, <1>7, <1>8, EstablishedList
<1>10. Effect(c, d, dh, s)
  BY <1>2, <1>7
<1> HIDE DEF d, ch, dh, s, n, k
<1>11. Agrees(dh, s, th, as \ {n}, re \cup {n}, fo)
  <2>1. OutAt(dh, "PROPOSED") = NamedIn(s, "OLC") \cup (as \ {n})
        /\ NamedIn(s, "OLC") \cap (as \ {n}) = {}
    BY <1>1, <1>5, <1>9 DEF Agrees
  <2>2. /\ OutAt(dh, "ESTABLISHED") \cup NamedIn(s, "CLC") = re \cup {n}
        /\ OutAt(dh, "ESTABLISHED") \cap NamedIn(s, "CLC") = {}
        /\ OutAt(dh, "PROPOSED") \cap NamedIn(s, "CLC") = {}
    BY <1>1, <1>5, <1>9 DEF Agrees
  <2> QED
    BY <1>1, <1>9, <2>1, <2>2 DEF Agrees
<1>12. SessionUp(d) /\ d.logicalChans = dh /\ Sent245(d) = s
  BY <1>6, <1>10 DEF Effect, SessionUp, CapsExchanged, RoleDecided
<1>13. Good(d, th, as \ {n}, re \cup {n}, fo, w)
  BY <1>1, <1>6, <1>11, <1>12 DEF Good, Stage
<1> QED
  BY <1>13 DEF d, n

(* The peer asks for a pause, when no proposal is open.                     *)
LEMMA PausesGood ==
  ASSUME NEW c \in Call, c.flags = {}, NEW th, NEW as, NEW re, NEW fo,
         Good(c, th, as, re, fo, {}),
         c.logicalChans # << >>, OutAt(c.logicalChans, "PROPOSED") = {},
         NEW m \in Message, m.type = "TCS", ~m.caps, m.seq > c.remoteTermCapSeqNo
  PROVE  Good(HandleTCS(Local, Fine, c, m), th, as, re, fo, {"resume", "TCSAck"})
<1> DEFINE d  == HandleTCS(Local, Fine, c, m)
           a  == AnsweredTCS(c, m)
           b  == IF a.localTermCapState = "Idle" THEN SendTermCap(Fine, a) ELSE a
           ch == c.logicalChans
           s  == Sent245(c)
           r  == Append(s, Msg("TCSAck"))
<1>1. /\ Agrees(ch, s, th, as, re, fo) /\ MarksIn(s) = {} /\ SessionUp(c)
  BY DEF Good, UnderWay, Stage
<1>2. d = IF CapsExchanged(b) /\ RoleDecided(b) THEN OpenIfNone(Local, Fine, b) ELSE b
  BY HandleTCSSteps
<1>3. Turn(c, a, "PAUSED", c.localTermCapState, "AckSent", c.masterSlaveState, m.seq, ch, r)
  <2>1. SessionAfter(c, m) = "PAUSED"
    BY DEF SessionAfter
  <2> QED
    BY <2>1, AnsweredTCSTurn
<1> HIDE DEF d, a, r
<1>4. /\ a.h245SessionState = "PAUSED" /\ a.localTermCapState = "AckRecvd"
      /\ a.logicalChans = ch /\ Sent245(a) = r
  BY <1>1, <1>3 DEF Turn, SessionUp, CapsExchanged
<1>5. b = a
  BY <1>4
<1>6. OpenIfNone(Local, Fine, a) = a
  BY <1>4 DEF OpenIfNone
<1> HIDE DEF b
<1>7. d = a
  BY <1>2, <1>5, <1>6
<1>8. /\ Orderly(r) /\ MarksIn(r) = {"TCSAck"}
      /\ NamedIn(r, "OLC") = NamedIn(s, "OLC") /\ NamedIn(r, "CLC") = NamedIn(s, "CLC")
  <2>1. Msg("TCSAck") \in Message /\ Msg("TCSAck").type = "TCSAck" /\ s \in Seq(Message)
    BY SentType, UntrackedMessages DEF Plain, Msg
  <2> DEFINE t == Msg("TCSAck")
  <2> HIDE DEF t, s
  <2>2. t.type \in Marks /\ t.type \notin MarksIn(s)
    BY <1>1, <2>1 DEF Marks, t
  <2> QED
    BY <1>1, <2>1, <2>2, MarkOrderly DEF Agrees, r, t
<1> HIDE DEF ch, s
<1>9. Agrees(ch, r, th, as, re, fo)
  BY <1>1, <1>8 DEF Agrees
<1>10. UnderWay({"resume", "TCSAck"}) = {"TCSAck"}
  BY DEF UnderWay
<1>11. PauseUnnoticed(a)
  BY <1>4 DEF PauseUnnoticed, ch
<1>12. Stage(a, as, {"resume", "TCSAck"})
  BY <1>11 DEF Stage
<1>13. Good(a, th, as, re, fo, {"resume", "TCSAck"})
  BY <1>4, <1>8, <1>9, <1>10, <1>12 DEF Good
<1> QED
  BY <1>7, <1>13 DEF d

(* The peer resumes a session whose pause this end has noticed: it          *)
(* acknowledges the capabilities and sends its own.                         *)
LEMMA ResumesGood ==
  ASSUME NEW c \in Call, c.flags = {}, NEW th, NEW as, NEW re, NEW fo,
         Good(c, th, as, re, fo, {"resume"}), PauseNoticed(c),
         NEW m \in Message, m.type = "TCS", m.caps, m.seq > c.remoteTermCapSeqNo
  PROVE  Good(HandleTCS(Local, Fine, c, m), th, as, re, fo, {"MSD", "TCSAck", "TCS", "MSDAck"})
<1> DEFINE d  == HandleTCS(Local, Fine, c, m)
           a  == AnsweredTCS(c, m)
           e  == SendTermCap(Fine, a)
           b  == IF a.localTermCapState = "Idle" THEN e ELSE a
           s  == Sent245(c)
           t  == Msg("TCSAck")
           r  == Append(s, t)
           w  == {"MSD", "TCSAck", "TCS", "MSDAck"}
<1>1. /\ Agrees(<< >>, s, th, as, re, fo) /\ MarksIn(s) = {}
  BY DEF Good, UnderWay, PauseNoticed
<1>2. d = IF CapsExchanged(b) /\ RoleDecided(b) THEN OpenIfNone(Local, Fine, b) ELSE b
  BY HandleTCSSteps
<1>3. Turn(c, a, "ACTIVE", "Idle", "AckSent", "Idle", m.seq, << >>, r)
  <2>1. SessionAfter(c, m) = "ACTIVE"
    BY DEF SessionAfter, PauseNoticed
  <2>2. Turn(c, a, SessionAfter(c, m), c.localTermCapState, "AckSent",
             c.masterSlaveState, m.seq, c.logicalChans, r)
    BY AnsweredTCSTurn
  <2> QED
    BY <2>1, <2>2 DEF PauseNoticed
<1>4. t \in Message /\ t.type = "TCSAck" /\ s \in Seq(Message)
  BY SentType, UntrackedMessages DEF Plain, Msg
<1> HIDE DEF a, e
<1>5. /\ a \in Call /\ a.flags = {} /\ a.h245SessionState = "ACTIVE"
      /\ a.localTermCapState = "Idle" /\ a.remoteTermCapState = "AckSent"
      /\ a.masterSlaveState = "Idle" /\ a.logicalChans = << >> /\ Sent245(a) = r
  BY <1>3 DEF Turn
<1>6. PICK q \in Message :
        /\ q.type = "TCS"
        /\ Turn(a, e, a.h245SessionState, "SetSent", a.remoteTermCapState, a.masterSlaveState,
                a.remoteTermCapSeqNo, a.logicalChans, Append(Sent245(a), q))
  BY <1>5, SendTermCapTurn DEF e
<1> DEFINE p == Append(r, q)
<1>7. /\ e.h245SessionState = "ACTIVE" /\ e.localTermCapState = "SetSent"
      /\ e.remoteTermCapState = "AckSent" /\ e.masterSlaveState = "Idle"
      /\ e.logicalChans = << >> /\ Sent245(e) = p
  BY <1>5, <1>6 DEF Turn
<1>8. b = e
  BY <1>5
<1> HIDE DEF d, b, s, t
<1>9. d = e
  BY <1>2, <1>7, <1>8 DEF CapsExchanged
<1>10. /\ r \in Seq(Message) /\ Orderly(r) /\ MarksIn(r) = {"TCSAck"}
       /\ NamedIn(r, "OLC") = NamedIn(s, "OLC") /\ NamedIn(r, "CLC") = NamedIn(s, "CLC")
  <2>1. t.type \in Marks /\ t.type \notin MarksIn(s)
    BY <1>1, <1>4 DEF Marks
  <2> QED
    BY <1>1, <1>4, <2>1, MarkOrderly DEF Agrees
<1> HIDE DEF r
<1>11. /\ Orderly(p) /\ MarksIn(p) = {"TCSAck", "TCS"}
       /\ NamedIn(p, "OLC") = NamedIn(r, "OLC") /\ NamedIn(p, "CLC") = NamedIn(r, "CLC")
  <2>1. q.type \in Marks /\ q.type \notin MarksIn(r)
    BY <1>6, <1>10 DEF Marks
  <2>2. "MSDAck" \notin MarksIn(r)
    BY <1>10
  <2>3. /\ Orderly(p) /\ MarksIn(p) = MarksIn(r) \cup {q.type}
        /\ NamedIn(p, "OLC") = NamedIn(r, "OLC") /\ NamedIn(p, "CLC") = NamedIn(r, "CLC")
    BY <1>6, <1>10, <2>1, <2>2, MarkOrderly
  <2> QED
    BY <1>6, <1>10, <2>3
<1> HIDE DEF p
<1>12. Agrees(<< >>, p, th, as, re, fo)
  BY <1>1, <1>10, <1>11 DEF Agrees
<1>13. UnderWay(w) = {"TCSAck", "TCS"}
  BY DEF UnderWay
<1>14. as = {}
  BY <1>1, EmptyList DEF Agrees
<1>15. ComesUp(e, as, w)
  BY <1>7, <1>14, EmptyList DEF ComesUp
<1>16. Stage(e, as, w)
  BY <1>15 DEF Stage
<1>17. Good(e, th, as, re, fo, w)
  BY <1>7, <1>11, <1>12, <1>13, <1>16 DEF Good
<1> QED
  BY <1>9, <1>17 DEF d

(* The peer asks about the roles: it is told.                               *)
LEMMA DeterminesGood ==
  ASSUME NEW c \in Call, c.flags = {}, NEW th, NEW as, NEW re, NEW fo, NEW w,
         Good(c, th, as, re, fo, w), "MSD" \in w,
         NEW m \in Message, m.type = "MSD", m.terminalType # TermType[Local]
  PROVE  Good(HandleMSD(Local, Fine, c, m), th, as, re, fo, w \ {"MSD"})
<1> DEFINE d  == HandleMSD(Local, Fine, c, m)
           s  == Sent245(c)
<1>1. /\ Agrees(c.logicalChans, s, th, as, re, fo) /\ MarksIn(s) = UnderWay(w) /\ Stage(c, as, w)
  BY DEF Good
<1>2. ComesUp(c, as, w) /\ w \subseteq {"MSD", "TCSAck", "TCS", "MSDAck"}
  BY <1>1 DEF Stage
<1>3. c.logicalChans = << >>
  BY <1>2 DEF ComesUp
<1>4. PICK v \in {"Master", "Slave"}, a \in Message :
        /\ a.type = "MSDAck"
        /\ Turn(c, d, c.h245SessionState, c.localTermCapState, c.remoteTermCapState, v,
                c.remoteTermCapSeqNo, c.logicalChans, Append(s, a))
  BY HandleMSDTurn
<1> DEFINE r == Append(s, a)
<1>5. s \in Seq(Message)
  BY SentType
<1> HIDE DEF d, s
<1>6. NamedIn(s, "OLC") = {}
  BY <1>1, <1>3, EmptyList DEF Agrees
<1>7. MarksIn(s) = w \cap {"TCSAck", "TCS"}
  BY <1>1 DEF UnderWay
<1>8. /\ Orderly(r) /\ MarksIn(r) = MarksIn(s) \cup {"MSDAck"}
      /\ NamedIn(r, "OLC") = NamedIn(s, "OLC") /\ NamedIn(r, "CLC") = NamedIn(s, "CLC")
  <2>1. a.type \in Marks /\ a.type \notin MarksIn(s)
    BY <1>4, <1>7 DEF Marks
  <2> QED
    BY <1>1, <1>4, <1>5, <1>6, <2>1, MarkOrderly DEF Agrees
<1>9. /\ d.h245SessionState = c.h245SessionState /\ d.localTermCapState = c.localTermCapState
      /\ d.remoteTermCapState = c.remoteTermCapState /\ RoleDecided(d)
      /\ d.logicalChans = << >> /\ Sent245(d) = r
  BY <1>3, <1>4 DEF Turn, RoleDecided
<1> HIDE DEF r
<1>10. Agrees(<< >>, r, th, as, re, fo)
  BY <1>1, <1>3, <1>8 DEF Agrees
<1>11. "MSDAck" \in w
  BY <1>2 DEF ComesUp
<1>12. UnderWay(w \ {"MSD"}) = MarksIn(r)
  BY <1>2, <1>7, <1>8, <1>11 DEF UnderWay
<1>13. "TCS" \notin w => NamedIn(r, "CLC") = {}
  BY <1>2, <1>8 DEF ComesUp, s
<1>14. ComesUp(d, as, w \ {"MSD"})
  BY <1>2, <1>9, <1>13, EmptyList DEF ComesUp
<1>15. Stage(d, as, w \ {"MSD"})
  BY <1>2, <1>11, <1>14 DEF Stage
<1>16. Good(d, th, as, re, fo, w \ {"MSD"})
  BY <1>9, <1>10, <1>12, <1>15 DEF Good
<1> QED
  BY <1>16 DEF d


(* Channels are opened on an empty list: one proposal for each medium, with *)
(* numbers of their own.                                                    *)
OnlyProposed(ch, s, ts) ==
  /\ ListOK(ch) /\ Orderly(s)
  /\ InAt(ch) = {} /\ OutAt(ch, "ESTABLISHED") = {}
  /\ OutAt(ch, "PROPOSED") = NamedIn(s, "OLC") /\ NamedIn(s, "CLC") = {}
  /\ \A i \in DOMAIN ch : MediaOf[ch[i].cap] \in ts

LEMMA OneProposal ==
  ASSUME NEW c \in Call, NEW d, NEW t, NEW ts, Proposes(c, d, t), NumbersApart,
         OnlyProposed(c.logicalChans, Sent245(c), ts), t \notin ts,
         c.logicalChanNoCur \in Own, c.logicalChanNoCur \notin OutAt(c.logicalChans, "PROPOSED")
  PROVE  \E ch, s :
           /\ Effect(c, d, ch, s) /\ OnlyProposed(ch, s, ts \cup {t})
           /\ MarksIn(s) = MarksIn(Sent245(c))
           /\ OutAt(ch, "PROPOSED") = OutAt(c.logicalChans, "PROPOSED") \cup {c.logicalChanNoCur}
           /\ d.logicalChanNoCur # c.logicalChanNoCur
<1> DEFINE ch == c.logicalChans
           s  == Sent245(c)
           n  == c.logicalChanNoCur
<1>1. PICK x \in LogicalChan, m \in Message :
        /\ x.channelNo = n /\ x.dir = "transmit" /\ MediaOf[x.cap] = t
        /\ x.state = "PROPOSED" /\ m.type = "OLC" /\ m.chan = n
        /\ Effect(c, d, Append(ch, x), Append(s, m))
        /\ n \in Own /\ ChanNoBase < ChanNoMax => d.logicalChanNoCur # n
  BY DEF Proposes
<1>2. d.logicalChanNoCur # n
  BY <1>1 DEF NumbersApart
<1>3. ch \in Seq(LogicalChan) /\ s \in Seq(Message)
  BY SentType
<1> DEFINE dh == Append(ch, x)
           r  == Append(s, m)
<1>4. Effect(c, d, dh, r)
  BY <1>1
<1>5. n \in Own /\ n \notin OutAt(ch, "PROPOSED") /\ OnlyProposed(ch, s, ts)
  OBVIOUS
<1> HIDE DEF ch, s, n
<1>6. \A i \in DOMAIN ch : ch[i].channelNo # n
  <2> SUFFICES ASSUME NEW i \in DOMAIN ch, ch[i].channelNo = n PROVE FALSE
    OBVIOUS
  <2>1. ListOK(ch) /\ InAt(ch) = {} /\ OutAt(ch, "ESTABLISHED") = {}
    BY <1>5 DEF OnlyProposed
  <2> QED
    BY <1>3, <1>5, <2>1, EntryOf
<1>7. \A i \in DOMAIN ch : MediaOf[ch[i].cap] # MediaOf[x.cap]
  BY <1>1, <1>5 DEF OnlyProposed
<1>8. /\ dh \in Seq(LogicalChan) /\ ListOK(dh)
      /\ \A st : OutAt(dh, st) = OutAt(ch, st) \cup
           (IF x.dir = "transmit" /\ x.state = st THEN {x.channelNo} ELSE {})
      /\ InAt(dh) = InAt(ch) \cup (IF x.dir = "receive" THEN {x.channelNo} ELSE {})
  BY <1>1, <1>3, <1>5, <1>6, <1>7, AppendedList DEF OnlyProposed
<1>9. /\ OutAt(dh, "PROPOSED") = OutAt(ch, "PROPOSED") \cup {n}
      /\ OutAt(dh, "ESTABLISHED") = {} /\ InAt(dh) = {}
  BY <1>1, <1>5, <1>8 DEF OnlyProposed
<1>10. \A i \in DOMAIN dh : MediaOf[dh[i].cap] \in ts \cup {t}
  <2>1. \A i \in DOMAIN dh : dh[i] = x \/ \E j \in DOMAIN ch : dh[i] = ch[j]
    <3>1. /\ Len(dh) = Len(ch) + 1 /\ Len(ch) \in Nat /\ dh[Len(ch) + 1] = x
          /\ \A i \in 1 .. Len(ch) : dh[i] = ch[i]
      BY <1>3, AppendProperties
    <3>2. DOMAIN dh = 1 .. Len(ch) + 1 /\ DOMAIN ch = 1 .. Len(ch)
      BY <1>3, <1>8, <3>1, LenProperties
    <3> HIDE DEF dh
    <3> QED
      BY <3>1, <3>2
  <2> QED
    BY <1>1, <1>5, <2>1 DEF OnlyProposed
<1>11. /\ Orderly(r) /\ MarksIn(r) = MarksIn(s)
       /\ NamedIn(r, "OLC") = NamedIn(s, "OLC") \cup {n} /\ NamedIn(r, "CLC") = NamedIn(s, "CLC")
  <2>1. "OLC" \in {"OLC", "CLC"} /\ "CLC" \in {"OLC", "CLC"} \ {"OLC"}
    OBVIOUS
  <2>2. Orderly(s) /\ m.chan \notin NamedIn(s, "OLC")
    BY <1>1, <1>5 DEF OnlyProposed
  <2>3. /\ Orderly(r) /\ NamedIn(r, "OLC") = NamedIn(s, "OLC") \cup {m.chan}
        /\ \A u \in {"OLC", "CLC"} \ {"OLC"} : NamedIn(r, u) = NamedIn(s, u)
        /\ MarksIn(r) = MarksIn(s)
    BY <1>1, <1>3, <2>1, <2>2, ChannelOrderly
  <2> QED
    BY <1>1, <2>1, <2>3
<1> HIDE DEF dh, r
<1>12. OnlyProposed(dh, r, ts \cup {t})
  BY <1>5, <1>8, <1>9, <1>10, <1>11 DEF OnlyProposed
<1>13. /\ Effect(c, d, dh, r) /\ OnlyProposed(dh, r, ts \cup {t}) /\ MarksIn(r) = MarksIn(s)
       /\ OutAt(dh, "PROPOSED") = OutAt(ch, "PROPOSED") \cup {n} /\ d.logicalChanNoCur # n
  BY <1>2, <1>4, <1>9, <1>11, <1>12
<1> QED
  BY <1>13 DEF ch, s, n

(* Opening them all: the proposals, or the call is given up.                *)
LEMMA OpensAll ==
  ASSUME NEW c \in Call, c.flags = {}, c.logicalChans = << >>, NumbersApart,
         c.logicalChanNoCur \in Own, c.callState < CLEAR,
         Orderly(Sent245(c)), NamedIn(Sent245(c), "OLC") = {}, NamedIn(Sent245(c), "CLC") = {}
  PROVE  LET d == OpenIfNone(Local, Fine, c)
         IN  \/ ~(d.callState < CLEAR)
             \/ \E ch, s :
                  /\ Effect(c, d, ch, s) /\ OnlyProposed(ch, s, {"audio", "video"})
                  /\ MarksIn(s) = MarksIn(Sent245(c))
<1> DEFINE d  == OpenIfNone(Local, Fine, c)
           s  == Sent245(c)
           Done(e, ts) == \E ch, r :
             /\ Effect(c, e, ch, r) /\ OnlyProposed(ch, r, ts) /\ MarksIn(r) = MarksIn(s)
<1>1. \A ts : OnlyProposed(<< >>, s, ts)
  <2>1. DOMAIN << >> = {}
    OBVIOUS
  <2> QED
    BY <2>1, EmptyList DEF OnlyProposed
<1>2. \A e, ts, us : Done(e, ts) /\ ts \subseteq us => Done(e, us)
  BY DEF OnlyProposed
<1>3. d = OpenLogicalChannels(Local, Fine, c)
  BY DEF OpenIfNone
<1>4. CASE CallMode[Local] \notin {"AUDIOCALL", "VIDEOCALL"}
  <2>1. d = c
    BY <1>3, <1>4 DEF OpenLogicalChannels
  <2>2. Effect(c, c, << >>, s)
    BY EffectReflexive
  <2> QED
    BY <1>1, <2>1, <2>2
<1> DEFINE a == OpenMedia(Local, Fine, c, "audio")
<1>5. a = MarkClear(c) \/ Proposes(c, a, "audio")
  BY OpenMediaEffect
<1>6. a = MarkClear(c) => ~(a.callState < CLEAR)
  BY MarkClearEnds
<1> HIDE DEF a
<1>7. Proposes(c, a, "audio") =>
        \E ch, r :
          /\ Effect(c, a, ch, r) /\ OnlyProposed(ch, r, {"audio"}) /\ MarksIn(r) = MarksIn(s)
          /\ OutAt(ch, "PROPOSED") = {c.logicalChanNoCur}
          /\ a.logicalChanNoCur # c.logicalChanNoCur
  <2>1. c.logicalChanNoCur \notin OutAt(c.logicalChans, "PROPOSED")
        /\ OutAt(c.logicalChans, "PROPOSED") = {}
    BY EmptyList
  <2>2. OnlyProposed(c.logicalChans, Sent245(c), {}) /\ "audio" \notin {}
    BY <1>1
  <2>3. {} \cup {"audio"} = {"audio"} /\ \A n : {} \cup {n} = {n}
    OBVIOUS
  <2> HIDE DEF d, Done
  <2>4. Proposes(c, a, "audio") =>
          \E ch, r :
            /\ Effect(c, a, ch, r) /\ OnlyProposed(ch, r, {} \cup {"audio"})
            /\ MarksIn(r) = MarksIn(Sent245(c))
            /\ OutAt(ch, "PROPOSED") = OutAt(c.logicalChans, "PROPOSED") \cup {c.logicalChanNoCur}
            /\ a.logicalChanNoCur # c.logicalChanNoCur
    BY <2>1, <2>2, OneProposal
  <2> QED
    BY <2>1, <2>3, <2>4
<1>8. CASE CallMode[Local] = "AUDIOCALL"
  <2>1. d = a
    BY <1>3, <1>8 DEF OpenLogicalChannels, a
  <2>2. Proposes(c, a, "audio") => Done(a, {"audio"})
    BY <1>7
  <2>3. {"audio"} \subseteq {"audio", "video"}
    OBVIOUS
  <2> HIDE DEF Done, d
  <2>4. Proposes(c, a, "audio") => Done(a, {"audio", "video"})
    BY <1>2, <2>2, <2>3
  <2> QED
    BY <1>5, <1>6, <2>1, <2>4 DEF Done, d
<1>9. CASE CallMode[Local] = "VIDEOCALL"
  <2> DEFINE v == OpenMedia(Local, Fine, a, "video")
  <2>1. d = v \/ d = MarkClear(c)
    BY <1>3, <1>9 DEF OpenLogicalChannels, a
  <2>2. a \in Call /\ a.flags = {}
    <3>1. MarkClear(c) \in Call /\ MarkClear(c).flags = {}
      BY MarkClearKeeps DEF Keeps
    <3>2. Proposes(c, a, "audio") => a \in Call /\ a.flags = {}
      BY DEF Proposes, Effect
    <3> QED
      BY <1>5, <3>1, <3>2
  <2>3. v = MarkClear(a) \/ Proposes(a, v, "video")
    BY <2>2, OpenMediaEffect
  <2>4. ~(MarkClear(a).callState < CLEAR) /\ ~(MarkClear(c).callState < CLEAR)
    BY <2>2, MarkClearEnds
  <2> HIDE DEF v, d
  <2>5. Proposes(a, v, "video") => v.callState = a.callState
    BY DEF Proposes, Effect
  <2>6. Proposes(c, a, "audio") /\ Proposes(a, v, "video") => Done(v, {"audio", "video"})
    <3> SUFFICES ASSUME Proposes(c, a, "audio"), Proposes(a, v, "video")
                 PROVE  Done(v, {"audio", "video"})
      OBVIOUS
    <3>1. PICK ch, r :
            /\ Effect(c, a, ch, r) /\ OnlyProposed(ch, r, {"audio"}) /\ MarksIn(r) = MarksIn(s)
            /\ OutAt(ch, "PROPOSED") = {c.logicalChanNoCur}
            /\ a.logicalChanNoCur # c.logicalChanNoCur
      BY <1>7
    <3>2. a.logicalChans = ch /\ Sent245(a) = r /\ a.logicalChanNoCur \in Own
      BY <3>1 DEF Effect
    <3>3. "video" \notin {"audio"} /\ {"audio"} \cup {"video"} = {"audio", "video"}
      OBVIOUS
    <3>4. \E dh, q :
            /\ Effect(a, v, dh, q) /\ OnlyProposed(dh, q, {"audio"} \cup {"video"})
            /\ MarksIn(q) = MarksIn(Sent245(a))
      <4>1. a.logicalChanNoCur \notin OutAt(a.logicalChans, "PROPOSED")
        BY <3>1, <3>2
      <4>2. OnlyProposed(a.logicalChans, Sent245(a), {"audio"})
        BY <3>1, <3>2
      <4> HIDE DEF Done, s
      <4>3. \E dh, q :
              /\ Effect(a, v, dh, q) /\ OnlyProposed(dh, q, {"audio"} \cup {"video"})
              /\ MarksIn(q) = MarksIn(Sent245(a))
              /\ OutAt(dh, "PROPOSED") =
                   OutAt(a.logicalChans, "PROPOSED") \cup {a.logicalChanNoCur}
              /\ v.logicalChanNoCur # a.logicalChanNoCur
        BY <2>2, <3>2, <3>3, <4>1, <4>2, OneProposal
      <4> QED
        BY <4>3
    <3>5. PICK dh, q :
            /\ Effect(a, v, dh, q) /\ OnlyProposed(dh, q, {"audio", "video"})
            /\ MarksIn(q) = MarksIn(Sent245(a))
      BY <3>3, <3>4
    <3>6. Effect(c, v, dh, q)
      BY <3>1, <3>5, EffectTransitive
    <3> QED
      BY <3>1, <3>2, <3>5, <3>6
  <2> HIDE DEF Done
  <2> QED
    BY <1>5, <1>6, <2>1, <2>3, <2>4, <2>5, <2>6 DEF d, Done
<1> HIDE DEF Done
<1>10. ~(d.callState < CLEAR) \/ Done(d, {"audio", "video"})
  BY <1>4, <1>8, <1>9 DEF Done
<1> QED
  BY <1>10 DEF Done, d, s


(* Opening them where the list and the peer agree.                          *)
LEMMA OpenedGood ==
  ASSUME NEW e \in Call, e.flags = {}, e.logicalChanNoCur \in Own, e.callState < CLEAR, NumbersApart,
         NEW th, NEW as, NEW re, NEW fo, NEW w,
         Agrees(e.logicalChans, Sent245(e), th, as, re, fo), MarksIn(Sent245(e)) = UnderWay(w),
         NamedIn(Sent245(e), "CLC") = {}, SessionUp(e),
         w \subseteq {"TCSAck", "MSDAck"}, w # {} => ComesUp(e, as, w)
  PROVE  LET d == OpenIfNone(Local, Fine, e)
         IN  d.callState < CLEAR => Good(d, th, as, re, fo, w)
<1> DEFINE d == OpenIfNone(Local, Fine, e)
           s == Sent245(e)
<1> SUFFICES ASSUME d.callState < CLEAR PROVE Good(d, th, as, re, fo, w)
  OBVIOUS
<1>1. CASE e.logicalChans # << >>
  <2>1. d = e
    BY <1>1 DEF OpenIfNone
  <2> HIDE DEF d
  <2>2. Stage(e, as, w)
    BY DEF Stage
  <2> QED
    BY <2>1, <2>2 DEF Good
<1>2. CASE e.logicalChans = << >>
  <2>1. /\ as = {} /\ NamedIn(s, "OLC") = {} /\ re = {} /\ th \ fo = {}
        /\ fo \subseteq th /\ Orderly(s)
    BY <1>2, EmptyList DEF Agrees
  <2>2. PICK ch, r :
          /\ Effect(e, d, ch, r) /\ OnlyProposed(ch, r, {"audio", "video"})
          /\ MarksIn(r) = MarksIn(s)
    BY <1>2, <2>1, OpensAll
  <2> HIDE DEF d, s
  <2>3. Agrees(ch, r, th, as, re, fo)
    BY <2>1, <2>2 DEF Agrees, OnlyProposed
  <2>4. /\ d.logicalChans = ch /\ Sent245(d) = r /\ SessionUp(d)
        /\ d.remoteTermCapState = e.remoteTermCapState
    BY <2>2 DEF Effect, SessionUp, CapsExchanged, RoleDecided
  <2>5. w # {} => ComesUp(d, as, w)
    <3>1. w # {} => "MSDAck" \in w
      BY DEF ComesUp
    <3> QED
      BY <2>1, <2>2, <2>4, <3>1 DEF ComesUp, SessionUp, CapsExchanged, OnlyProposed
  <2>6. Stage(d, as, w)
    BY <2>4, <2>5 DEF Stage
  <2> QED
    BY <2>2, <2>3, <2>4, <2>6 DEF Good, s
<1> QED
  BY <1>1, <1>2

(* What the peer makes of its channels when it reads a message.             *)
AskedAfter(as, m) ==
  CASE m.type = "OLC" -> as \cup {m.chan}
    [] m.type = "CLC" -> as \ {m.chan}
    [] OTHER          -> as
ReceivingAfter(re, m) == IF m.type = "CLC" THEN re \ {m.chan} ELSE re

(* The peer reads: what it reads was said of the list, and is now known.    *)
LEMMA ReadAgrees ==
  ASSUME NEW c \in Call, c.h245Net # << >>, NumbersApart,
         NEW th, NEW as, NEW re, NEW fo, NEW w, Good(c, th, as, re, fo, w)
  PROVE  LET m == Head(c.h245Net)
             r == Sent245(Rest(c))
         IN  /\ m \in Message /\ m.type \in Written
             /\ Effect(c, Rest(c), c.logicalChans, r)
             /\ Agrees(c.logicalChans, r, th, AskedAfter(as, m), ReceivingAfter(re, m), fo)
             /\ MarksIn(r) = MarksIn(Sent245(c)) \ {m.type}
             /\ NamedIn(r, "CLC") \subseteq NamedIn(Sent245(c), "CLC")
             /\ m.type \in Marks => m.type \in MarksIn(Sent245(c))
             /\ m.type = "TCS" => NamedIn(r, "CLC") = {} /\ "TCSAck" \notin MarksIn(r)
             /\ m.type = "MSDAck" => MarksIn(Sent245(c)) = {"MSDAck"}
             /\ m.type = "OLC" => m.chan \in OutAt(c.logicalChans, "PROPOSED")
                                  /\ "MSDAck" \notin MarksIn(Sent245(c))
             /\ m.type = "CLC" => m.chan \in re /\ m.chan \in Nat
<1> DEFINE m  == Head(c.h245Net)
           s  == Sent245(c)
           r  == Sent245(Rest(c))
           ch == c.logicalChans
<1>1. s \in Seq(Message) /\ s # << >> /\ m = Head(s) /\ Effect(c, Rest(c), ch, Tail(s))
  BY ReadEffect
<1>2. r = Tail(s)
  BY <1>1 DEF Effect
<1>3. Agrees(ch, s, th, as, re, fo)
  BY DEF Good
<1>4. Effect(c, Rest(c), ch, r)
  BY <1>1, <1>2
<1> HIDE DEF m, s, r, ch
<1>5. /\ m \in Message /\ Orderly(r) /\ m.type \in Written
      /\ \A t \in {"OLC", "CLC"} :
           NamedIn(r, t) = NamedIn(s, t) \ {n \in Nat : m.type = t /\ m.chan = n}
      /\ MarksIn(r) = MarksIn(s) \ {m.type}
      /\ m.type \in {"OLC", "CLC"} => m.chan \in NamedIn(s, m.type)
      /\ m.type \in Marks => m.type \in MarksIn(s)
      /\ m.type = "TCS" => NamedIn(s, "CLC") = {} /\ "TCSAck" \notin MarksIn(s)
      /\ m.type = "MSDAck" => MarksIn(s) = {"MSDAck"}
      /\ m.type = "OLC" => "MSDAck" \notin MarksIn(s)
  BY <1>1, <1>2, <1>3, HeadOrderly DEF Agrees
<1>6. m.type \in {"OLC", "CLC"} => m.chan \in Nat
  BY <1>5, MessageFields DEF ChanMsg
<1>7. /\ NamedIn(r, "OLC") = IF m.type = "OLC" THEN NamedIn(s, "OLC") \ {m.chan} ELSE NamedIn(s, "OLC")
      /\ NamedIn(r, "CLC") = IF m.type = "CLC" THEN NamedIn(s, "CLC") \ {m.chan} ELSE NamedIn(s, "CLC")
  <2>1. \A t \in {"OLC", "CLC"} : {n \in Nat : m.type = t /\ m.chan = n}
          = IF m.type = t THEN {m.chan} ELSE {}
    BY <1>6
  <2> QED
    BY <1>5, <2>1
<1>8. Agrees(ch, r, th, AskedAfter(as, m), ReceivingAfter(re, m), fo)
  <2>1. CASE m.type = "OLC"
    <3>1. AskedAfter(as, m) = as \cup {m.chan} /\ ReceivingAfter(re, m) = re
      BY <2>1 DEF AskedAfter, ReceivingAfter
    <3>2. m.chan \in NamedIn(s, "OLC") /\ NamedIn(r, "OLC") = NamedIn(s, "OLC") \ {m.chan}
          /\ NamedIn(r, "CLC") = NamedIn(s, "CLC")
      BY <1>5, <1>7, <2>1
    <3>3. OutAt(ch, "PROPOSED") = NamedIn(r, "OLC") \cup (as \cup {m.chan})
          /\ NamedIn(r, "OLC") \cap (as \cup {m.chan}) = {}
      BY <1>3, <3>2 DEF Agrees
    <3> QED
      BY <1>3, <1>5, <3>1, <3>2, <3>3 DEF Agrees
  <2>2. CASE m.type = "CLC"
    <3>1. AskedAfter(as, m) = as \ {m.chan} /\ ReceivingAfter(re, m) = re \ {m.chan}
      BY <2>2 DEF AskedAfter, ReceivingAfter
    <3>2. m.chan \in NamedIn(s, "CLC") /\ NamedIn(r, "CLC") = NamedIn(s, "CLC") \ {m.chan}
          /\ NamedIn(r, "OLC") = NamedIn(s, "OLC")
      BY <1>5, <1>7, <2>2
    <3>3. m.chan \notin as /\ as \ {m.chan} = as
      BY <1>3, <3>2 DEF Agrees
    <3>4. /\ OutAt(ch, "ESTABLISHED") \cup NamedIn(r, "CLC") = re \ {m.chan}
          /\ OutAt(ch, "ESTABLISHED") \cap NamedIn(r, "CLC") = {}
          /\ OutAt(ch, "PROPOSED") \cap NamedIn(r, "CLC") = {}
      BY <1>3, <3>2 DEF Agrees
    <3> QED
      BY <1>3, <1>5, <3>1, <3>2, <3>3, <3>4 DEF Agrees
  <2>3. CASE m.type \notin {"OLC", "CLC"}
    <3>1. AskedAfter(as, m) = as /\ ReceivingAfter(re, m) = re
      BY <2>3 DEF AskedAfter, ReceivingAfter
    <3>2. NamedIn(r, "OLC") = NamedIn(s, "OLC") /\ NamedIn(r, "CLC") = NamedIn(s, "CLC")
      BY <1>7, <2>3
    <3> QED
      BY <1>3, <1>5, <3>1, <3>2 DEF Agrees
  <2> QED
    BY <2>1, <2>2, <2>3
<1>9. m.type = "OLC" => m.chan \in OutAt(ch, "PROPOSED")
  BY <1>3, <1>5 DEF Agrees
<1>10. m.type = "CLC" => m.chan \in re
  BY <1>3, <1>5 DEF Agrees
<1>11. m.type = "TCS" => NamedIn(r, "CLC") = {} /\ "TCSAck" \notin MarksIn(r)
  BY <1>5, <1>7
<1>12. NamedIn(r, "CLC") \subseteq NamedIn(s, "CLC")
  BY <1>7
<1> QED
  BY <1>4, <1>5, <1>6, <1>8, <1>9, <1>10, <1>11, <1>12 DEF m, s, r, ch


(* What it reads leaves the session where it is, except what it waits for   *)
(* to have the session up again.                                            *)
LEMMA ReadGood ==
  ASSUME NEW c \in Call, c.h245Net # << >>, NumbersApart,
         NEW th, NEW as, NEW re, NEW fo, NEW w, Good(c, th, as, re, fo, w),
         Head(c.h245Net).type \notin {"TCS", "MSDAck"}
  PROVE  LET m == Head(c.h245Net)
         IN  Good(Rest(c), th, AskedAfter(as, m), ReceivingAfter(re, m), fo, w \ {m.type})
<1> DEFINE m  == Head(c.h245Net)
           d  == Rest(c)
           s  == Sent245(c)
           r  == Sent245(d)
           ch == c.logicalChans
<1>1. /\ m.type \in Written /\ Effect(c, d, ch, r)
      /\ Agrees(ch, r, th, AskedAfter(as, m), ReceivingAfter(re, m), fo)
      /\ MarksIn(r) = MarksIn(s) \ {m.type}
      /\ NamedIn(r, "CLC") \subseteq NamedIn(s, "CLC")
      /\ m.type = "OLC" => m.chan \in OutAt(ch, "PROPOSED") /\ "MSDAck" \notin MarksIn(s)
  BY ReadAgrees
<1>2. ListOK(ch) /\ MarksIn(s) = UnderWay(w) /\ Stage(c, as, w)
  BY DEF Good, Agrees
<1>3. ch \in Seq(LogicalChan)
  BY SentType
<1>4. m.type \notin {"TCS", "MSDAck"}
  OBVIOUS
<1> HIDE DEF m, d, r
<1>5. Stage(d, as, w) /\ d.logicalChans = ch
  <2>1. d.logicalChans = ch
    BY <1>1 DEF Effect
  <2>2. \A st : OutAt(ch, st) \subseteq OutAt(c.logicalChans, st)
    OBVIOUS
  <2> QED
    BY <1>1, <1>2, <1>3, <2>1, <2>2, StageStays
<1> HIDE DEF s, ch
<1>6. w \subseteq {"resume", "MSD", "TCSAck", "TCS", "MSDAck"}
  BY <1>2 DEF Stage
<1>7. m.type \in {"OLC", "OLCAck", "OLCReject", "CLC", "CLCAck", "RCCAck", "TCSAck"}
  BY <1>1, <1>4 DEF Written
<1> DEFINE v == w \ {m.type}
           as2 == AskedAfter(as, m)
<1>8. UnderWay(v) = MarksIn(r)
  <2>1. UnderWay(v) = UnderWay(w) \ {m.type}
    BY <1>6, <1>7 DEF UnderWay
  <2> QED
    BY <1>1, <1>2, <2>1
<1>9. ComesUp(d, as, w) => as2 = {}
  <2> SUFFICES ASSUME ComesUp(d, as, w) PROVE as2 = {}
    OBVIOUS
  <2>1. m.type # "OLC"
    <3> SUFFICES ASSUME m.type = "OLC" PROVE FALSE
      OBVIOUS
    <3>1. ch # << >>
      BY <1>1, EmptyList
    <3>2. "MSD" \notin w /\ "MSDAck" \in w
      BY <1>5, <3>1 DEF ComesUp
    <3>3. "MSDAck" \in MarksIn(s)
      BY <1>2, <3>2 DEF UnderWay
    <3> QED
      BY <1>1, <3>3
  <2> QED
    BY <2>1 DEF ComesUp, AskedAfter
<1>10. ComesUp(d, as, w) => ComesUp(d, as2, v)
  BY <1>7, <1>9 DEF ComesUp
<1>11. Stage(d, as2, v)
  <2>1. v = {} /\ w # {} => "resume" \notin w /\ w = {"TCSAck"}
    <3>1. v = {} => w \subseteq {m.type}
      OBVIOUS
    <3> QED
      BY <1>6, <1>7, <3>1
  <2>2. v = {} => w = {}
    BY <1>5, <2>1 DEF Stage, ComesUp
  <2>3. "resume" \in v <=> "resume" \in w
    BY <1>7
  <2>4. v \subseteq w /\ (w = {} => v = {})
    OBVIOUS
  <2> HIDE DEF v, as2
  <2> QED
    BY <1>5, <1>10, <2>2, <2>3, <2>4 DEF Stage
<1>12. Good(d, th, as2, ReceivingAfter(re, m), fo, v)
  BY <1>1, <1>5, <1>8, <1>11 DEF Good, r
<1> QED
  BY <1>12 DEF d, m

(* The peer reads this end's capabilities and acknowledges them: the        *)
(* channels are opened now if the roles are decided.                        *)
LEMMA AckedGood ==
  ASSUME NEW c \in Call, Plainly(c), c.callState < CLEAR, c.h245Net # << >>, NumbersApart,
         NEW th, NEW as, NEW re, NEW fo, NEW w, Good(c, th, as, re, fo, w),
         Head(c.h245Net).type = "TCS"
  PROVE  LET d == HandleTCSAck(Local, Fine, Rest(c))
         IN  /\ c.h245SessionState = "ACTIVE"
             /\ d.callState < CLEAR => Good(d, th, as, re, fo, w \ {"TCS"})
<1> DEFINE m  == Head(c.h245Net)
           b  == Rest(c)
           s  == Sent245(c)
           r  == Sent245(b)
           ch == c.logicalChans
           a  == [StopTimer(b, "TCS", 0) EXCEPT !.localTermCapState = "AckRecvd"]
           d  == HandleTCSAck(Local, Fine, b)
           v  == w \ {"TCS"}
<1>1. /\ Effect(c, b, ch, r)
      /\ Agrees(ch, r, th, AskedAfter(as, m), ReceivingAfter(re, m), fo)
      /\ MarksIn(r) = MarksIn(s) \ {"TCS"}
      /\ "TCS" \in MarksIn(s)
      /\ NamedIn(r, "CLC") = {} /\ "TCSAck" \notin MarksIn(r)
  BY ReadAgrees DEF Marks
<1>2. AskedAfter(as, m) = as /\ ReceivingAfter(re, m) = re
  BY DEF AskedAfter, ReceivingAfter
<1>3. MarksIn(s) = UnderWay(w) /\ Stage(c, as, w)
  BY DEF Good
<1>4. "TCS" \in w
  BY <1>1, <1>3 DEF UnderWay
<1>5. ComesUp(c, as, w) /\ w \subseteq {"MSD", "TCSAck", "TCS", "MSDAck"}
  BY <1>3, <1>4 DEF Stage
<1>6. b \in Call /\ b.flags = {}
  BY <1>1 DEF Effect, Plainly
<1>7. /\ Turn(b, a, b.h245SessionState, "AckRecvd", b.remoteTermCapState,
              b.masterSlaveState, b.remoteTermCapSeqNo, b.logicalChans, r)
      /\ d = IF CapsExchanged(a) /\ RoleDecided(a) THEN OpenIfNone(Local, Fine, a) ELSE a
  BY <1>6, TCSAckTurn
<1> HIDE DEF m, b, s, r, ch, a, d
<1>8. /\ a \in Call /\ a.flags = {} /\ a.callState < CLEAR /\ a.logicalChanNoCur \in Own
      /\ a.h245SessionState = "ACTIVE" /\ a.localTermCapState = "AckRecvd"
      /\ a.remoteTermCapState = "AckSent" /\ a.masterSlaveState = c.masterSlaveState
      /\ a.logicalChans = ch /\ Sent245(a) = r
  BY <1>1, <1>5, <1>6, <1>7 DEF Effect, Turn, ComesUp, Plainly
<1>9. Agrees(a.logicalChans, Sent245(a), th, as, re, fo)
  BY <1>1, <1>2, <1>8
<1>10. MarksIn(Sent245(a)) = UnderWay(v)
  <2>1. UnderWay(v) = UnderWay(w) \ {"TCS"}
    BY DEF UnderWay
  <2> QED
    BY <1>1, <1>3, <1>8, <2>1
<1>11. ComesUp(a, as, v)
  <2>1. ch = << >>
    BY <1>4, <1>5 DEF ComesUp, ch
  <2> QED
    BY <1>1, <1>5, <1>8, <2>1, EmptyList DEF ComesUp, RoleDecided
<1>12. Stage(a, as, v)
  BY <1>5, <1>11 DEF Stage, ComesUp
<1>13. CASE "MSD" \in w
  <2>1. ~RoleDecided(a)
    BY <1>5, <1>8, <1>13 DEF ComesUp, RoleDecided
  <2>2. d = a
    BY <1>7, <2>1
  <2> QED
    BY <1>5, <1>9, <1>10, <1>12, <2>2 DEF Good, ComesUp, d, b
<1>14. CASE "MSD" \notin w
  <2>1. SessionUp(a)
    BY <1>5, <1>8, <1>14 DEF ComesUp, SessionUp, CapsExchanged, RoleDecided
  <2>2. d = OpenIfNone(Local, Fine, a)
    BY <1>7, <2>1 DEF SessionUp
  <2>3. v \subseteq {"TCSAck", "MSDAck"}
    BY <1>5, <1>14
  <2>4. NamedIn(Sent245(a), "CLC") = {}
    BY <1>1, <1>8
  <2> HIDE DEF v
  <2>5. d.callState < CLEAR => Good(d, th, as, re, fo, v)
    BY <1>8, <1>9, <1>10, <1>11, <2>1, <2>2, <2>3, <2>4, OpenedGood
  <2> QED
    BY <1>5, <2>5 DEF ComesUp, d, b, v
<1> QED
  BY <1>13, <1>14

(* The peer reads its role and confirms it: the last message of the two     *)
(* procedures.                                                              *)
LEMMA ToldGood ==
  ASSUME NEW c \in Call, Plainly(c), c.callState < CLEAR, c.h245Net # << >>, NumbersApart,
         NEW th, NEW as, NEW re, NEW fo, NEW w, Good(c, th, as, re, fo, w),
         Head(c.h245Net).type = "MSDAck", NEW q
  PROVE  LET d == HandleMSDAck(Local, Fine, Rest(c), q)
         IN  /\ c.h245SessionState = "ACTIVE"
             /\ d.callState < CLEAR => Good(d, th, as, re, fo, w \ {"MSDAck"})
<1> DEFINE m  == Head(c.h245Net)
           b  == Rest(c)
           s  == Sent245(c)
           r  == Sent245(b)
           ch == c.logicalChans
           a  == StopTimer(b, "MSD", 0)
           d  == HandleMSDAck(Local, Fine, b, q)
<1>1. /\ Effect(c, b, ch, r)
      /\ Agrees(ch, r, th, AskedAfter(as, m), ReceivingAfter(re, m), fo)
      /\ MarksIn(r) = MarksIn(s) \ {"MSDAck"} /\ MarksIn(s) = {"MSDAck"}
      /\ NamedIn(r, "CLC") \subseteq NamedIn(s, "CLC")
  BY ReadAgrees
<1>2. AskedAfter(as, m) = as /\ ReceivingAfter(re, m) = re
  BY DEF AskedAfter, ReceivingAfter
<1>3. MarksIn(s) = UnderWay(w) /\ Stage(c, as, w)
  BY DEF Good
<1>4. "MSDAck" \in w
  BY <1>1, <1>3 DEF UnderWay
<1>5. ComesUp(c, as, w) /\ w = {"MSDAck"}
  BY <1>1, <1>3, <1>4 DEF Stage, UnderWay
<1>6. SessionUp(c) /\ NamedIn(s, "CLC") = {} /\ as = {}
  BY <1>5 DEF ComesUp, SessionUp, CapsExchanged, s
<1>7. b \in Call /\ b.masterSlaveState # "DetermineSent"
  BY <1>1 DEF Effect, Plainly
<1>8. /\ Effect(b, a, b.logicalChans, r)
      /\ d = IF CapsExchanged(a) THEN OpenIfNone(Local, Fine, a) ELSE a
  BY <1>7, MSDAckEffect
<1>9. Effect(c, a, ch, r)
  <2>1. b.logicalChans = ch
    BY <1>1 DEF Effect
  <2> HIDE DEF a, b, ch, r
  <2> QED
    BY <1>1, <1>8, <2>1, EffectTransitive
<1> HIDE DEF m, b, s, r, ch, a, d
<1>10. /\ a \in Call /\ a.flags = {} /\ a.callState < CLEAR /\ a.logicalChanNoCur \in Own
       /\ a.logicalChans = ch /\ Sent245(a) = r /\ SessionUp(a)
  BY <1>6, <1>9 DEF Effect, Plainly, SessionUp, CapsExchanged, RoleDecided
<1>11. d = OpenIfNone(Local, Fine, a)
  BY <1>8, <1>10 DEF SessionUp
<1>12. /\ Agrees(a.logicalChans, Sent245(a), th, as, re, fo)
       /\ MarksIn(Sent245(a)) = UnderWay({}) /\ NamedIn(Sent245(a), "CLC") = {}
  BY <1>1, <1>2, <1>6, <1>10 DEF UnderWay
<1>13. d.callState < CLEAR => Good(d, th, as, re, fo, {})
  BY <1>10, <1>11, <1>12, OpenedGood
<1>14. w \ {"MSDAck"} = {}
  BY <1>5
<1> QED
  BY <1>5, <1>13, <1>14 DEF ComesUp, d, b


(* What touches neither the list nor the messages.                          *)
LEMMA QuietGood ==
  ASSUME NEW c \in Call, NEW d, Effect(c, d, c.logicalChans, Sent245(c)), NumbersApart,
         NEW th, NEW as, NEW re, NEW fo, NEW w, Good(c, th, as, re, fo, w)
  PROVE  Good(d, th, as, re, fo, w)
<1> DEFINE ch == c.logicalChans
           s  == Sent245(c)
<1>1. Agrees(ch, s, th, as, re, fo) /\ MarksIn(s) = UnderWay(w) /\ Stage(c, as, w)
  BY DEF Good
<1>2. ch \in Seq(LogicalChan) /\ ListOK(ch)
  BY <1>1, SentType DEF Agrees
<1>3. /\ \A st : OutAt(ch, st) \subseteq OutAt(c.logicalChans, st)
      /\ InAt(ch) \subseteq InAt(c.logicalChans)
      /\ NamedIn(s, "CLC") \subseteq NamedIn(Sent245(c), "CLC")
  OBVIOUS
<1>4. Effect(c, d, ch, s)
  OBVIOUS
<1> HIDE DEF s
<1>5. Stage(d, as, w)
  BY <1>1, <1>2, <1>3, <1>4, StageStays
<1>6. d.logicalChans = ch /\ Sent245(d) = s
  BY <1>4 DEF Effect
<1> QED
  BY <1>1, <1>5, <1>6 DEF Good

GoodInv == Live => Good(call, theirs, asked, receiving, forgotten, Waits)

LEMMA InitGood == Init /\ NumbersApart => GoodInv
<1> SUFFICES ASSUME Init, NumbersApart, Live
             PROVE  Good(call, theirs, asked, receiving, forgotten, Waits)
  BY DEF GoodInv
<1> DEFINE c == Connected
<1>1. call = OpenIfNone(Local, Fine, c)
  BY ConnectedCall DEF Init, Connected, OpenIfNone
<1>2. /\ theirs = {} /\ asked = {} /\ receiving = {} /\ forgotten = {} /\ Waits = {}
  BY DEF Init, Waits
<1>3. /\ c \in Call /\ c.flags = {} /\ c.logicalChanNoCur \in Own /\ SessionUp(c)
      /\ c.logicalChans = << >> /\ Sent245(c) = << >>
  BY ConnectedCall DEF Plainly, SessionUp
<1>4. c.callState < CLEAR
  <2>1. c.callState = CONNECTED
    BY DEF Connected, NewCall
  <2> QED
    BY <2>1 DEF CONNECTED, CLEAR
<1>5. /\ Orderly(<< >>) /\ MarksIn(<< >>) = {}
      /\ NamedIn(<< >>, "OLC") = {} /\ NamedIn(<< >>, "CLC") = {}
  <2>1. DOMAIN << >> = {}
    OBVIOUS
  <2> QED
    BY <2>1 DEF Orderly, MarksIn, NamedIn
<1> HIDE DEF c
<1>6. /\ Agrees(c.logicalChans, Sent245(c), {}, {}, {}, {})
      /\ MarksIn(Sent245(c)) = UnderWay({}) /\ NamedIn(Sent245(c), "CLC") = {}
  BY <1>3, <1>5, EmptyList DEF Agrees, UnderWay
<1>7. call.callState < CLEAR => Good(call, {}, {}, {}, {}, {})
  BY <1>1, <1>3, <1>4, <1>6, OpenedGood
<1> QED
  BY <1>2, <1>7 DEF Live

(* The call as a message of the peer finds it.                              *)
LEMMA FoundGood ==
  ASSUME TypeInv, GoodInv, Live
  PROVE  LET b == Noticed(call)
         IN  /\ b \in Call /\ Plainly(b) /\ b.flags = {} /\ b.callState < CLEAR
             /\ b.h245SessionState # "PAUSED" /\ b.remoteTermCapSeqNo = call.remoteTermCapSeqNo
             /\ Good(b, theirs, asked, receiving, Forgotten, Waits)
             /\ \A m : ReceiveH245(Local, Fine, call, m) = HandleH245Message(Local, Fine, b, m)
<1>1. call \in Call /\ Plainly(call) /\ call.callState < CLEAR
  BY DEF TypeInv, TypeOK, Live
<1>2. Good(call, theirs, asked, receiving, forgotten, Waits)
  BY DEF GoodInv
<1>3. /\ Noticed(call).callState < CLEAR
      /\ Good(Noticed(call), theirs, asked, receiving, Forgotten, Waits)
  BY <1>1, <1>2, NoticedGood DEF Forgotten
<1>4. Keeps(call, Noticed(call)) /\ Noticed(call).h245SessionState # "PAUSED"
  BY <1>1, NoticedKeeps
<1>5. \A m : ReceiveH245(Local, Fine, call, m) = HandleH245Message(Local, Fine, Noticed(call), m)
  BY DEF ReceiveH245, Noticed
<1> DEFINE b == Noticed(call)
<1> HIDE DEF b
<1>6. /\ b \in Call /\ Plainly(b) /\ b.flags = {}
      /\ b.remoteTermCapSeqNo = call.remoteTermCapSeqNo
  BY <1>1, <1>4 DEF Keeps, Plainly, b
<1> QED
  BY <1>3, <1>4, <1>5, <1>6 DEF b

(* The peer reads, and answers what asks for an answer.                     *)
LEMMA ReadsGood ==
  ASSUME NumbersApart, TypeInv, GoodInv, PeerReads, Live'
  PROVE  Good(call, theirs, asked, receiving, forgotten, Waits)'
<1> DEFINE m  == Head(call.h245Net)
           b  == Rest(call)
           as == AskedAfter(asked, m)
           re == ReceivingAfter(receiving, m)
           w  == Waits \ {m.type}
<1>1. /\ Live /\ call.h245Net # << >>
      /\ UNCHANGED << theirs, paused, pauses >>
      /\ asked' = as /\ receiving' = re /\ awaited' = awaited \ {m.type}
      /\ IF Answer(m) = {} THEN call' = b /\ UNCHANGED forgotten
         ELSE \E a \in Answer(m) : Receive(b, a) /\ forgotten' = Forgotten
  BY DEF PeerReads, Rest, AskedAfter, ReceivingAfter
<1>2. call \in Call /\ Plainly(call) /\ call.callState < CLEAR
      /\ Good(call, theirs, asked, receiving, forgotten, Waits)
  BY <1>1 DEF TypeInv, TypeOK, Live, GoodInv
<1>3. /\ m \in Message /\ m.type \in Written
      /\ Effect(call, b, call.logicalChans, Sent245(b))
      /\ m.type = "CLC" => m.chan \in Nat
  BY <1>1, <1>2, ReadAgrees
<1>4. Waits' = w
  BY <1>1, <1>3 DEF Waits, Written
<1>5. /\ b \in Call /\ b.callState < CLEAR /\ b.h245SessionState = call.h245SessionState
  BY <1>2, <1>3 DEF Effect
<1>6. m.type \notin {"TCS", "MSDAck"} => Good(b, theirs, as, re, forgotten, w)
  BY <1>1, <1>2, ReadGood
<1>7. call'.callState < CLEAR
  BY DEF Live
<1>8. SUFFICES Good(call', theirs, as, re, forgotten', w)
  BY <1>1, <1>4 DEF Good, Agrees, Stage, SessionUp, PauseUnnoticed, PauseNoticed, ComesUp,
     CapsExchanged, RoleDecided, Sent245
<1>9. CASE m.type \notin {"CLC", "TCS", "MSDAck"}
  <2>1. Answer(m) = {}
    BY <1>9 DEF Answer
  <2> QED
    BY <1>1, <1>6, <1>9, <2>1
<1>10. CASE m.type = "CLC"
  <2> DEFINE a == ChanMsgOf("CLCAck", m.chan)
             e == Noticed(b)
  <2>1. Answer(m) = {a}
    BY <1>10 DEF Answer
  <2>2. call' = ReceiveH245(Local, Fine, b, a) /\ forgotten' = Forgotten
    BY <1>1, <2>1 DEF Receive
  <2>3. a \in Message /\ a.type = "CLCAck"
    BY <1>3, <1>10, UntrackedMessages DEF ChanMsg, ChanMsgOf
  <2>4. Forgotten = IF b.h245SessionState = "PAUSED" THEN theirs ELSE forgotten
    BY <1>5 DEF Forgotten
  <2> HIDE DEF b, as, re, w, a
  <2>5. e \in Call
    BY <1>5, NoticedKeeps DEF Keeps
  <2>6. Good(b, theirs, as, re, forgotten, w)
    BY <1>6, <1>10
  <2>7. Good(e, theirs, as, re, Forgotten, w)
    BY <1>5, <2>4, <2>6, NoticedGood
  <2>8. call' = StopTimer(e, "CLC", a.chan)
    BY <2>2, <2>3 DEF ReceiveH245, Noticed, HandleH245Message
  <2> HIDE DEF e
  <2>9. Effect(e, StopTimer(e, "CLC", a.chan), e.logicalChans, Sent245(e))
    BY <2>3, <2>5, CLCAckEffect
  <2>10. Good(call', theirs, as, re, Forgotten, w)
    BY <2>5, <2>7, <2>8, <2>9, QuietGood
  <2> QED
    BY <2>2, <2>10
<1>11. CASE m.type = "TCS"
  <2>1. Answer(m) = {Msg("TCSAck")}
    BY <1>11 DEF Answer
  <2>2. call' = ReceiveH245(Local, Fine, b, Msg("TCSAck")) /\ forgotten' = Forgotten
    BY <1>1, <2>1 DEF Receive
  <2> DEFINE d == HandleTCSAck(Local, Fine, b)
  <2>3. /\ call.h245SessionState = "ACTIVE"
        /\ d.callState < CLEAR => Good(d, theirs, asked, receiving, forgotten, Waits \ {"TCS"})
    BY <1>1, <1>2, <1>11, AckedGood
  <2>4. as = asked /\ re = receiving
    BY <1>11 DEF AskedAfter, ReceivingAfter
  <2>5. call' = d
    BY <1>5, <2>2, <2>3 DEF ReceiveH245, HandleH245Message, Msg
  <2>6. forgotten' = forgotten
    BY <2>2, <2>3 DEF Forgotten
  <2> QED
    BY <1>7, <1>11, <2>3, <2>4, <2>5, <2>6
<1>12. CASE m.type = "MSDAck"
  <2>1. PICK a \in Answer(m) : call' = ReceiveH245(Local, Fine, b, a) /\ forgotten' = Forgotten
    BY <1>1, <1>12 DEF Receive, Answer
  <2>2. a.type = "MSDAck"
    BY <1>12 DEF Answer
  <2> DEFINE d == HandleMSDAck(Local, Fine, b, a)
  <2>3. /\ call.h245SessionState = "ACTIVE"
        /\ d.callState < CLEAR => Good(d, theirs, asked, receiving, forgotten, Waits \ {"MSDAck"})
    BY <1>1, <1>2, <1>12, ToldGood
  <2>4. as = asked /\ re = receiving
    BY <1>12 DEF AskedAfter, ReceivingAfter
  <2>5. call' = d
    BY <1>5, <2>1, <2>2, <2>3 DEF ReceiveH245, HandleH245Message
  <2>6. forgotten' = forgotten
    BY <2>1, <2>3 DEF Forgotten
  <2> QED
    BY <1>7, <1>12, <2>3, <2>4, <2>5, <2>6
<1> QED
  BY <1>9, <1>10, <1>11, <1>12


LEMMA NextGood ==
  ASSUME NumbersApart, TypeInv, GoodInv, [Next]_vars
  PROVE  GoodInv'
<1> SUFFICES ASSUME Live' PROVE Good(call, theirs, asked, receiving, forgotten, Waits)'
  BY DEF GoodInv
<1>1. TypeOK /\ call \in Call /\ PeerChan \subseteq Nat /\ theirs \subseteq PeerChan
      /\ awaited \subseteq {"MSD", "TCSAck", "TCS", "MSDAck"}
  BY ChannelsAssumption DEF TypeInv, TypeOK
<1>2. Live => Good(call, theirs, asked, receiving, forgotten, Waits)
  BY DEF GoodInv
<1> DEFINE b == Noticed(call)
<1>3. Live =>
        /\ b \in Call /\ Plainly(b) /\ b.flags = {} /\ b.callState < CLEAR
        /\ b.h245SessionState # "PAUSED" /\ b.remoteTermCapSeqNo = call.remoteTermCapSeqNo
        /\ Good(b, theirs, asked, receiving, Forgotten, Waits)
        /\ \A m : ReceiveH245(Local, Fine, call, m) = HandleH245Message(Local, Fine, b, m)
  BY FoundGood
<1> HIDE DEF b
<1>4. CASE Write
  <2>1. /\ Live /\ call.h245Out # << >> /\ call' = SendMsgH245(Fine, call)
        /\ UNCHANGED << theirs, asked, receiving, forgotten, paused, awaited >>
    BY <1>4 DEF Write, channels, session
  <2>2. Effect(call, call', call.logicalChans, Sent245(call))
    BY <2>1, WriteEffect DEF TypeInv, TypeOK, Live
  <2>3. Good(call', theirs, asked, receiving, forgotten, Waits)
    BY <1>1, <1>2, <2>1, <2>2, QuietGood
  <2> QED
    BY <2>1, <2>3 DEF Good, Agrees, Stage, SessionUp, PauseUnnoticed, PauseNoticed, ComesUp,
       CapsExchanged, RoleDecided, Sent245, Waits
<1>5. CASE PeerReads
  BY <1>5, ReadsGood
<1>6. CASE PeerPauses
  <2> DEFINE m == CapabilitySet(FALSE)
  <2>1. /\ Live /\ ~paused /\ awaited = {} /\ Settled /\ pauses < MaxPauses
        /\ Handle(m) /\ paused' = TRUE /\ awaited' = {"TCSAck"}
        /\ UNCHANGED << theirs, asked, receiving >>
    BY <1>6 DEF PeerPauses, Running, channels
  <2>2. /\ m \in Message /\ m.type = "TCS" /\ m.caps = FALSE /\ m.seq > call.remoteTermCapSeqNo
    BY <2>1, NextSet
  <2>3. call' = ReceiveH245(Local, Fine, call, m) /\ forgotten' = Forgotten
    BY <2>1 DEF Handle, Receive
  <2> HIDE DEF m
  <2>4. Waits = {} /\ Waits' = {"resume", "TCSAck"}
    BY <2>1 DEF Waits
  <2>5. call.h245SessionState = "ACTIVE"
    BY <1>2, <2>1, <2>4 DEF Good, Stage, SessionUp
  <2>6. b = call
    BY <2>5 DEF b, Noticed
  <2>7. call.logicalChans # << >> /\ OutAt(call.logicalChans, "PROPOSED") = {}
    BY <2>1 DEF Settled, OutAt
  <2>8. call' = HandleTCS(Local, Fine, b, m)
    BY <1>3, <2>1, <2>2, <2>3 DEF HandleH245Message
  <2>9. Good(call', theirs, asked, receiving, Forgotten, {"resume", "TCSAck"})
    BY <1>3, <2>1, <2>2, <2>4, <2>6, <2>7, <2>8, PausesGood
  <2>10. theirs' = theirs /\ asked' = asked /\ receiving' = receiving
    BY <2>1
  <2> QED
    BY <2>3, <2>4, <2>9, <2>10 DEF Good, Agrees, Stage, SessionUp, PauseUnnoticed, PauseNoticed,
       ComesUp, CapsExchanged, RoleDecided, Sent245
<1>7. CASE PeerResumes
  <2> DEFINE m == CapabilitySet(TRUE)
             w == {"MSD", "TCSAck", "TCS", "MSDAck"}
  <2>1. /\ Live /\ paused /\ awaited = {} /\ Handle(m) /\ paused' = FALSE /\ awaited' = w
        /\ UNCHANGED << theirs, asked, receiving >>
    BY <1>7 DEF PeerResumes, channels
  <2>2. /\ m \in Message /\ m.type = "TCS" /\ m.caps /\ m.seq > call.remoteTermCapSeqNo
    BY <2>1, NextSet
  <2>3. call' = ReceiveH245(Local, Fine, call, m) /\ forgotten' = Forgotten
    BY <2>1 DEF Handle, Receive
  <2> HIDE DEF m
  <2>4. Waits = {"resume"} /\ Waits' = w
    BY <2>1 DEF Waits
  <2>5. PauseNoticed(b)
    <3>1. "resume" \in Waits
      BY <2>4
    <3> QED
      BY <1>3, <2>1, <3>1, StageOf
  <2>6. call' = HandleTCS(Local, Fine, b, m)
    BY <1>3, <2>1, <2>2, <2>3 DEF HandleH245Message
  <2>7. Good(call', theirs, asked, receiving, Forgotten, w)
    BY <1>3, <2>1, <2>2, <2>4, <2>5, <2>6, ResumesGood
  <2>8. theirs' = theirs /\ asked' = asked /\ receiving' = receiving
    BY <2>1
  <2> QED
    BY <2>3, <2>4, <2>7, <2>8 DEF Good, Agrees, Stage, SessionUp, PauseUnnoticed, PauseNoticed,
       ComesUp, CapsExchanged, RoleDecided, Sent245
<1>8. CASE PeerDetermines
  <2> DEFINE m == [type |-> "MSD", terminalType |-> PeerTermType, number |-> 0]
  <2>1. /\ Live /\ "MSD" \in awaited /\ Handle(m) /\ awaited' = awaited \ {"MSD"}
        /\ UNCHANGED << theirs, asked, receiving, paused >>
    BY <1>8 DEF PeerDetermines, channels
  <2>2. m \in Message /\ m.type = "MSD" /\ m.terminalType # TermType[Local]
    BY PeerMessages, ChannelsAssumption
  <2>3. call' = ReceiveH245(Local, Fine, call, m) /\ forgotten' = Forgotten
    BY <2>1 DEF Handle, Receive
  <2> HIDE DEF m
  <2>4. "MSD" \in Waits /\ Waits' = Waits \ {"MSD"}
    BY <2>1 DEF Waits
  <2>5. call' = HandleMSD(Local, Fine, b, m)
    BY <1>3, <2>1, <2>2, <2>3 DEF HandleH245Message
  <2>6. Good(call', theirs, asked, receiving, Forgotten, Waits \ {"MSD"})
    BY <1>3, <2>1, <2>2, <2>4, <2>5, DeterminesGood
  <2>7. theirs' = theirs /\ asked' = asked /\ receiving' = receiving
    BY <2>1
  <2> QED
    BY <2>3, <2>4, <2>6, <2>7 DEF Good, Agrees, Stage, SessionUp, PauseUnnoticed, PauseNoticed,
       ComesUp, CapsExchanged, RoleDecided, Sent245
<1>9. ASSUME NEW n \in asked, PeerAccepts(n)
      PROVE  Good(call, theirs, asked, receiving, forgotten, Waits)'
  <2> DEFINE m == ChanMsgOf("OLCAck", n)
  <2>1. /\ Live /\ Handle(m) /\ UNCHANGED << theirs, paused, awaited >>
        /\ asked' = asked \ {n} /\ receiving' = receiving \cup {n}
    BY <1>9 DEF PeerAccepts, session
  <2>2. n \in Nat /\ m \in Message /\ m.type = "OLCAck" /\ m.chan = n
    BY <1>1, PeerMessages DEF TypeOK
  <2>3. call' = ReceiveH245(Local, Fine, call, m) /\ forgotten' = Forgotten
    BY <2>1 DEF Handle, Receive
  <2> HIDE DEF m
  <2>4. call' = HandleOLCAck(b, m)
    BY <1>3, <2>1, <2>2, <2>3 DEF HandleH245Message
  <2>5. Good(call', theirs, asked \ {n}, receiving \cup {n}, Forgotten, Waits)
    BY <1>3, <2>1, <2>2, <2>4, AcceptsGood
  <2> QED
    BY <2>1, <2>3, <2>5 DEF Good, Agrees, Stage, SessionUp, PauseUnnoticed, PauseNoticed,
       ComesUp, CapsExchanged, RoleDecided, Sent245, Waits
<1>10. ASSUME NEW n \in asked, PeerRejects(n)
       PROVE  FALSE
  <2> DEFINE m == ChanMsgOf("OLCReject", n)
  <2>1. Live /\ Handle(m)
    BY <1>10 DEF PeerRejects
  <2>2. n \in Nat /\ m \in Message /\ m.type = "OLCReject"
    BY <1>1, PeerMessages DEF TypeOK
  <2>3. call' = ReceiveH245(Local, Fine, call, m)
    BY <2>1 DEF Handle, Receive
  <2> HIDE DEF m
  <2>4. call' = HandleOLCReject(b, m)
    BY <1>3, <2>1, <2>2, <2>3 DEF HandleH245Message
  <2>5. ~(call'.callState < CLEAR)
    BY <1>3, <2>1, <2>2, <2>4, OLCRejectEnds
  <2> QED
    BY <2>5 DEF Live
<1>11. ASSUME NEW n \in receiving, PeerRequestsClose(n)
       PROVE  Good(call, theirs, asked, receiving, forgotten, Waits)'
  <2> DEFINE m == ChanMsgOf("RCC", n)
  <2>1. /\ Live /\ Handle(m) /\ UNCHANGED << theirs, asked, receiving, paused, awaited >>
    BY <1>11 DEF PeerRequestsClose, session, channels
  <2>2. n \in Nat /\ m \in Message /\ m.type = "RCC" /\ m.chan = n
    BY <1>1, PeerMessages DEF TypeOK
  <2>3. call' = ReceiveH245(Local, Fine, call, m) /\ forgotten' = Forgotten
    BY <2>1 DEF Handle, Receive
  <2> HIDE DEF m
  <2>4. call' = HandleRCC(Fine, b, m)
    BY <1>3, <2>1, <2>2, <2>3 DEF HandleH245Message
  <2>5. Good(call', theirs, asked, receiving, Forgotten, Waits)
    BY <1>3, <2>1, <2>2, <2>4, RequestGood
  <2> QED
    BY <2>1, <2>3, <2>5 DEF Good, Agrees, Stage, SessionUp, PauseUnnoticed, PauseNoticed,
       ComesUp, CapsExchanged, RoleDecided, Sent245, Waits
<1>12. ASSUME NEW n \in PeerChan, NEW cap \in Cap, PeerOpens(n, cap)
       PROVE  Good(call, theirs, asked, receiving, forgotten, Waits)'
  <2> DEFINE m == [type |-> "OLC", chan |-> n, cap |-> cap,
                   session |-> DefaultSession(MediaOf[cap])]
  <2>1. /\ Live /\ ~paused /\ awaited = {} /\ n \notin theirs /\ Handle(m)
        /\ theirs' = IF cap \in CanRx[Local] THEN theirs \cup {n} ELSE theirs
        /\ UNCHANGED << asked, receiving, paused, awaited >>
    BY <1>12 DEF PeerOpens, session, Running
  <2>2. m \in Message /\ m.type = "OLC" /\ m.chan = n /\ m.cap = cap /\ m.session # 0
    <3>1. n \in Nat
      BY <1>1
    <3>2. m \in Message /\ FromPeer(m)
      BY <3>1, PeerMessages
    <3> QED
      BY <3>2 DEF FromPeer
  <2>3. call' = ReceiveH245(Local, Fine, call, m) /\ forgotten' = Forgotten
    BY <2>1 DEF Handle, Receive
  <2> HIDE DEF m
  <2>4. Waits = {} /\ Waits' = {}
    BY <2>1 DEF Waits
  <2>5. call' = HandleOLC(Local, Fine, b, m)
    BY <1>3, <2>1, <2>2, <2>3 DEF HandleH245Message
  <2>6. Good(call', IF m.cap \in CanRx[Local] THEN theirs \cup {m.chan} ELSE theirs,
             asked, receiving, Forgotten, {})
    BY <1>1, <1>3, <2>1, <2>2, <2>4, <2>5, OpensGood
  <2>7. Good(call', theirs', asked, receiving, Forgotten, {})
    BY <2>1, <2>2, <2>6
  <2> QED
    BY <2>1, <2>3, <2>4, <2>7 DEF Good, Agrees, Stage, SessionUp, PauseUnnoticed, PauseNoticed,
       ComesUp, CapsExchanged, RoleDecided, Sent245
<1>13. ASSUME NEW n \in theirs, PeerCloses(n)
       PROVE  Good(call, theirs, asked, receiving, forgotten, Waits)'
  <2> DEFINE m == ChanMsgOf("CLC", n)
  <2>1. /\ Live /\ Receive(call, m) /\ UNCHANGED << asked, receiving, paused, awaited >>
        /\ theirs' = theirs \ {n} /\ forgotten' = Forgotten \ {n}
    BY <1>13 DEF PeerCloses, session
  <2>2. m \in Message /\ m.type = "CLC" /\ m.chan = n
    <3>1. n \in Nat
      BY <1>1
    <3> QED
      BY <3>1, PeerMessages
  <2>3. call' = ReceiveH245(Local, Fine, call, m)
    BY <2>1 DEF Receive
  <2> HIDE DEF m
  <2>4. call' = HandleCLC(Fine, b, m)
    BY <1>3, <2>1, <2>2, <2>3 DEF HandleH245Message
  <2>5. Good(call', theirs \ {n}, asked, receiving, Forgotten \ {n}, Waits)
    BY <1>1, <1>3, <2>1, <2>2, <2>4, ClosesGood
  <2> QED
    BY <2>1, <2>5 DEF Good, Agrees, Stage, SessionUp, PauseUnnoticed, PauseNoticed,
       ComesUp, CapsExchanged, RoleDecided, Sent245, Waits
<1>14. ASSUME NEW t \in call.timers, Expire(t)
       PROVE  FALSE
  <2>1. Live /\ call' = FireTimer(Local, Fine, call, t)
    BY <1>14 DEF Expire
  <2>2. Plainly(call)
    BY <2>1 DEF TypeInv
  <2>3. ~(call'.callState < CLEAR)
    BY <1>1, <2>1, <2>2, ExpiryEnds
  <2> QED
    BY <2>3 DEF Live
<1>15. CASE UNCHANGED vars
  <2>1. UNCHANGED << call, theirs, asked, receiving, forgotten, paused, awaited >>
    BY <1>15 DEF vars, channels, session
  <2>2. Good(call, theirs, asked, receiving, forgotten, Waits)
    BY <1>2, <2>1 DEF Live
  <2> QED
    BY <2>1, <2>2 DEF Good, Agrees, Stage, SessionUp, PauseUnnoticed, PauseNoticed,
       ComesUp, CapsExchanged, RoleDecided, Sent245, Waits
<1> QED
  BY <1>4, <1>5, <1>6, <1>7, <1>8, <1>9, <1>10, <1>11, <1>12, <1>13, <1>14, <1>15 DEF Next


-----------------------------------------------------------------------------
(* What the invariant says of the list, while the call lives.               *)

Inv == TypeInv /\ GoodInv

LEMMA InvHolds ==
  ASSUME NumbersApart
  PROVE  Spec => []Inv
<1>1. Init => Inv
  BY InitType, InitGood DEF Inv
<1>2. Inv /\ [Next]_vars => Inv'
  BY NextType, NextGood DEF Inv
<1> QED
  BY <1>1, <1>2, PTL DEF Spec

LEMMA NumbersOf ==
  ASSUME NumbersApart, Inv, Live
  PROVE  /\ Numbers("receive") = InAt(call.logicalChans)
         /\ Numbers("transmit") =
              OutAt(call.logicalChans, "PROPOSED") \cup OutAt(call.logicalChans, "ESTABLISHED")
<1> DEFINE ch == call.logicalChans
<1>1. ch \in Seq(LogicalChan)
  BY SentType DEF Inv, TypeInv, TypeOK
<1>2. ListOK(ch)
  BY DEF Inv, GoodInv, Good, Agrees
<1>3. DOMAIN ch = 1 .. Len(ch) /\ \A i \in DOMAIN ch : ch[i] \in LogicalChan
  BY <1>1, ElementOfSeq
<1>4. \A dir : Numbers(dir) = {ch[i].channelNo : i \in {i \in 1 .. Len(ch) : ch[i].dir = dir}}
  BY DEF Numbers
<1> HIDE DEF ch
<1>5. \A i \in DOMAIN ch : ch[i].channelNo \in Nat
  BY <1>3 DEF LogicalChan
<1>6. \A dir : Numbers(dir) = {n \in Nat : \E i \in DOMAIN ch : ch[i].channelNo = n /\ ch[i].dir = dir}
  BY <1>3, <1>4, <1>5
<1>7. Numbers("receive") = InAt(ch)
  BY <1>6 DEF InAt
<1>8. \A i \in DOMAIN ch : ch[i].dir = "transmit" => ch[i].state \in {"PROPOSED", "ESTABLISHED"}
  BY <1>1, <1>2, EntryOf
<1>9. Numbers("transmit") = OutAt(ch, "PROPOSED") \cup OutAt(ch, "ESTABLISHED")
  BY <1>6, <1>8 DEF OutAt
<1> QED
  BY <1>7, <1>9 DEF ch

(* The receiving entries are the channels the peer has open: whatever it    *)
(* opens, closes, pauses and resumes, and whatever becomes of the channels  *)
(* of this end that the same list holds.                                    *)
THEOREM ListsWhatPeerSends ==
  ASSUME NumbersApart
  PROVE  Spec => []ReceivesWhatPeerSends
<1>1. Inv => ReceivesWhatPeerSends
  <2> SUFFICES ASSUME Inv, Live
               PROVE  Numbers("receive") = theirs \ forgotten
    BY DEF ReceivesWhatPeerSends
  <2> QED
    BY NumbersOf DEF Inv, GoodInv, Good, Agrees
<1> QED
  BY <1>1, InvHolds, PTL

(* When the peer has read everything, it expects media on exactly the       *)
(* channels this end lists as its own, after any number of pauses, in any   *)
(* of which proposals, acceptances and closings may have crossed.           *)
THEOREM PeerReceivesWhatIsListed ==
  ASSUME NumbersApart
  PROVE  Spec => []TransmitsWhatPeerReceives
<1>1. Inv => TransmitsWhatPeerReceives
  <2> SUFFICES ASSUME Inv, Live, call.h245Out = << >>, call.h245Net = << >>
               PROVE  Numbers("transmit") = asked \cup receiving
    BY DEF TransmitsWhatPeerReceives
  <2>1. Sent245(call) = << >>
    BY DEF Sent245
  <2>2. NamedIn(<< >>, "OLC") = {} /\ NamedIn(<< >>, "CLC") = {}
    <3>1. DOMAIN << >> = {}
      OBVIOUS
    <3> QED
      BY <3>1 DEF NamedIn
  <2>3. Agrees(call.logicalChans, << >>, theirs, asked, receiving, forgotten)
    BY <2>1 DEF Inv, GoodInv, Good
  <2> QED
    BY <2>2, <2>3, NumbersOf DEF Agrees
<1> QED
  BY <1>1, InvHolds, PTL

(* This end transmits on a channel only when the peer has accepted it, and  *)
(* the peer has not read that it is closed.                                 *)
THEOREM OnlyAcceptedIsSent ==
  ASSUME NumbersApart
  PROVE  Spec => []TransmitsOnlyAccepted
<1>1. Inv => TransmitsOnlyAccepted
  <2> SUFFICES ASSUME Inv, Live,
                      NEW i \in 1 .. Len(call.logicalChans),
                      call.logicalChans[i].dir = "transmit",
                      call.logicalChans[i].state = "ESTABLISHED"
               PROVE  call.logicalChans[i].channelNo \in receiving
    BY DEF TransmitsOnlyAccepted
  <2> DEFINE ch == call.logicalChans
  <2>1. ch \in Seq(LogicalChan)
    BY SentType DEF Inv, TypeInv, TypeOK
  <2>2. i \in DOMAIN ch /\ ch[i] \in LogicalChan
    BY <2>1, ElementOfSeq
  <2>3. ch[i].channelNo \in OutAt(ch, "ESTABLISHED")
    BY <2>2 DEF OutAt, LogicalChan
  <2>4. OutAt(ch, "ESTABLISHED") \subseteq receiving
    BY DEF Inv, GoodInv, Good, Agrees
  <2> QED
    BY <2>3, <2>4
<1> QED
  BY <1>1, InvHolds, PTL

(* No codec is on two channels of this end, whichever of the handlers opens *)
(* them when the session comes up, and however often it does.               *)
THEOREM OpenedOnce ==
  ASSUME NumbersApart
  PROVE  Spec => []OneChannelPerCap
<1>1. Inv => OneChannelPerCap
  <2> SUFFICES ASSUME Inv, Live PROVE OneChannelPerCap
    BY DEF OneChannelPerCap
  <2>1. OnePerMedia(call.logicalChans)
    BY DEF Inv, GoodInv, Good, Agrees, ListOK
  <2> QED
    BY <2>1 DEF OnePerMedia, OneChannelPerCap
<1> QED
  BY <1>1, InvHolds, PTL
=============================================================================
