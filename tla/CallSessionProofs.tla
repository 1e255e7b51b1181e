------------------------- MODULE CallSessionProofs -------------------------
(***************************************************************************)
(* What holds in every call of CallSession, whatever the constants: the    *)
(* type of its state, the roles of the two ends, who can have forwarded    *)
(* the call, that the state of a call only moves on, and that an end which *)
(* reads an OpenLogicalChannel is ready for it.                            *)
(***************************************************************************)
EXTENDS CallSession, CallLemmas

-----------------------------------------------------------------------------
(* The invariant of master slave determination, of an end e with the call a *)
(* whose peer p has the call b.                                             *)

(* The number on its way is the one the end goes by.                        *)
Numbered(e, a) ==
  \A m \in OnWay(a) : m.type = "MSD" =>
    m = NumberMsg(e, a.statusDeterminationNumber) /\ a.masterSlaveState # "Idle"

(* One number is on its way at a time, before an acknowledgement, and one   *)
(* rejection.                                                               *)
Single(a) ==
  \A m, n \in OnWay(a) : Before(a, m, n) =>
    /\ n.type = "MSD" => m.type \notin {"MSD", "MSDAck"}
    /\ n.type = "MSDReject" => m.type # "MSDReject"

(* An acknowledgement gives the peer the role its sender has not taken.     *)
Acks(a) ==
  \A m \in OnWay(a) : m.type = "MSDAck" =>
    RoleDecided(a) /\ m = RoleMsg(a.masterSlaveState)

Numbers(c)  == \E m \in OnWay(c) : m.type = "MSD"
Refuses(c)  == \E m \in OnWay(c) : m.type = "MSDReject"

(* A number from an end that has a role will give the other end the other.  *)
Agree(e, p, a, b) ==
  (RoleDecided(a) /\ Numbers(a) /\ ~RoleDecided(b)) =>
    /\ b.masterSlaveState = "DetermineSent"
    /\ Verdict(p, b.statusDeterminationNumber, TermType[e], a.statusDeterminationNumber)
         = OtherRole(a.masterSlaveState)

(* No role is taken before the number of the other end has been read, or    *)
(* before the other end has begun.                                          *)
Unread(a, b) == Numbers(b) => ~RoleDecided(a)
Woken(a, b)  == RoleDecided(a) => b.masterSlaveState # "Idle"

(* A rejection answers the number a has sent; if b sent its own before it,  *)
(* the two decide nothing.                                                  *)
Rejects(e, p, a, b) ==
  Refuses(b) =>
    /\ a.masterSlaveState = "DetermineSent" /\ ~RoleDecided(b) /\ ~Numbers(a)
    /\ (\E m, n \in OnWay(b) : m.type = "MSD" /\ n.type = "MSDReject" /\ Before(b, m, n)) =>
         /\ b.masterSlaveState = "DetermineSent"
         /\ Verdict(e, a.statusDeterminationNumber, TermType[p], b.statusDeterminationNumber)
              = "none"

Differ(a, b) == RoleDecided(a) => b.masterSlaveState # a.masterSlaveState

HalfRoles(e, p, a, b) ==
  /\ Numbered(e, a) /\ Single(a) /\ Acks(a)
  /\ Agree(e, p, a, b) /\ Unread(a, b) /\ Woken(a, b) /\ Rejects(e, p, a, b) /\ Differ(a, b)

Roles(e, p, a, b) == HalfRoles(e, p, a, b) /\ HalfRoles(p, e, b, a)

(* d sends no message about roles but those of N.                           *)
RoleFlow(a, d, N) ==
  /\ \A m \in OnWay(d) : m.type \in RoleType => m \in OnWay(a) \cup N
  /\ \A m, n \in OnWay(d) :
       m.type \in RoleType /\ n.type \in RoleType /\ Before(d, m, n)
         => m \in OnWay(a) /\ ((n \in OnWay(a) /\ Before(a, m, n)) \/ n \in N)

SameRole(a, d) ==
  /\ d.masterSlaveState = a.masterSlaveState
  /\ d.statusDeterminationNumber = a.statusDeterminationNumber

LEMMA MovesRoleFlow ==
  ASSUME NEW c \in Call, NEW d, NEW M, Moves(c, d, M)
  PROVE  RoleFlow(c, d, M)
<1>1. ASSUME NEW m \in OnWay(d), m.type \in RoleType
      PROVE  m \in OnWay(c) \cup M
  <2>1. Tracked(m)
    BY <1>1 DEF Tracked
  <2>2. m \in In225(c) \cup To225(c, M) \/ m \in In245(c) \cup To245(c, M)
    BY <2>1, MovesMessages DEF OnWay
  <2> QED
    BY <2>2 DEF OnWay, To225, To245
<1>2. ASSUME NEW m \in OnWay(d), NEW n \in OnWay(d), m.type \in RoleType, n.type \in RoleType,
             Before(d, m, n)
      PROVE  m \in OnWay(c) /\ ((n \in OnWay(c) /\ Before(c, m, n)) \/ n \in M)
  <2>1. Tracked(n)
    BY <1>2 DEF Tracked
  <2>2. m \in OnWay(c) /\ (Before(c, m, n) \/ n \in M)
    BY <1>2, <2>1, MovesMessages
  <2>3. n \in OnWay(c) \cup M
    BY <1>1, <1>2
  <2> QED
    BY <2>2, <2>3
<1> QED
  BY <1>1, <1>2 DEF RoleFlow

(* A step that has nothing to do with roles.                                *)
LEMMA RolesKept ==
  ASSUME NEW e \in Endpoint, NEW p \in Endpoint, NEW a \in Call, NEW b \in Call, NEW d \in Call,
         Roles(e, p, a, b), RoleFlow(a, d, {}), SameRole(a, d)
  PROVE  Roles(e, p, d, b)
<1>1. /\ RoleDecided(d) <=> RoleDecided(a)
      /\ Numbers(d) => Numbers(a)
      /\ Refuses(d) => Refuses(a)
  BY DEF SameRole, RoleDecided, Numbers, Refuses, RoleFlow, RoleType
<1>2. Numbered(e, d) /\ Acks(d)
  BY <1>1 DEF Roles, HalfRoles, Numbered, Acks, SameRole, RoleFlow, RoleType
<1>3. Single(d)
  <2> SUFFICES ASSUME NEW m \in OnWay(d), NEW n \in OnWay(d), Before(d, m, n)
               PROVE  /\ n.type = "MSD" => m.type \notin {"MSD", "MSDAck"}
                      /\ n.type = "MSDReject" => m.type # "MSDReject"
    BY DEF Single
  <2>1. CASE m.type \in RoleType /\ n.type \in RoleType
    <3>1. m \in OnWay(a) /\ n \in OnWay(a) /\ Before(a, m, n)
      BY <2>1 DEF RoleFlow
    <3> QED
      BY <3>1 DEF Roles, HalfRoles, Single
  <2>2. CASE ~(m.type \in RoleType /\ n.type \in RoleType)
    BY <2>2 DEF RoleType
  <2> QED
    BY <2>1, <2>2
<1>4. Rejects(p, e, b, d)
  <2>1. (\E m, n \in OnWay(d) : m.type = "MSD" /\ n.type = "MSDReject" /\ Before(d, m, n)) =>
          \E m, n \in OnWay(a) : m.type = "MSD" /\ n.type = "MSDReject" /\ Before(a, m, n)
    BY DEF RoleFlow, RoleType
  <2> QED
    BY <1>1, <2>1 DEF Rejects, Roles, HalfRoles, SameRole
<1>5. /\ Agree(e, p, d, b) /\ Agree(p, e, b, d) /\ Unread(d, b) /\ Unread(b, d)
      /\ Woken(d, b) /\ Woken(b, d) /\ Differ(d, b) /\ Differ(b, d) /\ Rejects(e, p, d, b)
  BY <1>1 DEF Agree, Unread, Woken, Differ, Rejects, Roles, HalfRoles, SameRole
<1> QED
  BY <1>2, <1>3, <1>4, <1>5 DEF Roles, HalfRoles

LEMMA RolesSymmetric ==
  ASSUME NEW e, NEW p, NEW a, NEW b, Roles(e, p, a, b)
  PROVE  Roles(p, e, b, a)
  BY DEF Roles

(* An idle end says its number.                                             *)
LEMMA NumberKeepsRoles ==
  ASSUME NEW e \in Endpoint, NEW p \in Endpoint, NEW a \in Call, NEW b \in Call, NEW d \in Call,
         Roles(e, p, a, b), a.masterSlaveState = "Idle",
         RoleFlow(a, d, {NumberMsg(e, d.statusDeterminationNumber)}),
         d.masterSlaveState = "DetermineSent"
  PROVE  Roles(e, p, d, b)
<1> DEFINE x == NumberMsg(e, d.statusDeterminationNumber)
<1>1. x.type = "MSD"
  BY DEF NumberMsg
<1>2. ~RoleDecided(a) /\ ~RoleDecided(d) /\ ~Numbers(a)
  BY DEF RoleDecided, Roles, HalfRoles, Numbered, Numbers
<1>3. ~RoleDecided(b) /\ ~Refuses(b)
  BY DEF Roles, HalfRoles, Woken, Rejects
<1> HIDE DEF x
<1>4. /\ \A m \in OnWay(d) : m.type \in RoleType => m \in OnWay(a) \/ m = x
      /\ \A m, n \in OnWay(d) :
           m.type \in RoleType /\ n.type \in RoleType /\ Before(d, m, n)
             => m \in OnWay(a) /\ ((n \in OnWay(a) /\ Before(a, m, n)) \/ n = x)
  BY DEF RoleFlow, x
<1>5. /\ \A m \in OnWay(d) : m.type # "MSDAck"
      /\ \A m \in OnWay(d) : m.type = "MSD" => m = x
  BY <1>1, <1>2, <1>4 DEF Roles, HalfRoles, Acks, Numbers, RoleType
<1>6. Numbered(e, d) /\ Acks(d)
  BY <1>5 DEF Numbered, Acks, x
<1>7. Single(d)
  <2> SUFFICES ASSUME NEW m \in OnWay(d), NEW n \in OnWay(d), Before(d, m, n)
               PROVE  /\ n.type = "MSD" => m.type \notin {"MSD", "MSDAck"}
                      /\ n.type = "MSDReject" => m.type # "MSDReject"
    BY DEF Single
  <2>1. CASE m.type \in RoleType /\ n.type \in RoleType
    <3>1. m \in OnWay(a) /\ ((n \in OnWay(a) /\ Before(a, m, n)) \/ n = x)
      BY <1>4, <2>1
    <3>2. m.type \notin {"MSD", "MSDAck"}
      BY <1>2, <1>5, <3>1 DEF Numbers
    <3> QED
      BY <1>1, <3>1, <3>2 DEF Roles, HalfRoles, Single
  <2>2. CASE ~(m.type \in RoleType /\ n.type \in RoleType)
    BY <2>2 DEF RoleType
  <2> QED
    BY <2>1, <2>2
<1>8. Rejects(p, e, b, d)
  <2>1. Refuses(d) => Refuses(a)
    BY <1>1, <1>4 DEF Refuses, RoleType
  <2>2. ~ \E m, n \in OnWay(d) : m.type = "MSD" /\ n.type = "MSDReject" /\ Before(d, m, n)
    BY <1>2, <1>4 DEF RoleType, Numbers
  <2> QED
    BY <1>2, <2>1, <2>2 DEF Rejects, Roles, HalfRoles
<1>9. /\ Agree(e, p, d, b) /\ Agree(p, e, b, d) /\ Unread(d, b) /\ Unread(b, d)
      /\ Woken(d, b) /\ Woken(b, d) /\ Differ(d, b) /\ Differ(b, d) /\ Rejects(e, p, d, b)
  BY <1>2, <1>3 DEF Agree, Unread, Woken, Differ, Rejects
<1> QED
  BY <1>6, <1>7, <1>8, <1>9 DEF Roles, HalfRoles

(* What is left of b0 when the first message of a connection has been read. *)
Reads(b0, m, b) ==
  /\ m \in OnWay(b0) /\ SameRole(b0, b) /\ RoleFlow(b0, b, {})
  /\ \A n \in OnWay(b) : n.type \in RoleType => n \in OnWay(b0) /\ Before(b0, m, n)

(* a takes a role when it may, and the peer's number has been read.         *)
LEMMA RoleTaken ==
  ASSUME NEW e \in Endpoint, NEW p \in Endpoint, NEW a \in Call, NEW b \in Call, NEW d \in Call,
         NEW role \in {"Master", "Slave"}, Roles(e, p, a, b), ~RoleDecided(a), ~Numbers(b),
         b.masterSlaveState # "Idle", ~Refuses(a), ~Refuses(b),
         RoleDecided(b) => role = OtherRole(b.masterSlaveState) /\ ~Numbers(a),
         (~RoleDecided(b) /\ Numbers(a)) =>
            Verdict(p, b.statusDeterminationNumber, TermType[e], a.statusDeterminationNumber)
              = OtherRole(role),
         RoleFlow(a, d, {RoleMsg(role)}), d.masterSlaveState = role,
         d.statusDeterminationNumber = a.statusDeterminationNumber
  PROVE  Roles(e, p, d, b)
<1> DEFINE x == RoleMsg(role)
<1>1. x.type = "MSDAck"
  BY DEF RoleMsg
<1> HIDE DEF x
<1>2. /\ \A m \in OnWay(d) : m.type \in RoleType => m \in OnWay(a) \/ m = x
      /\ \A m, n \in OnWay(d) :
           m.type \in RoleType /\ n.type \in RoleType /\ Before(d, m, n)
             => m \in OnWay(a) /\ ((n \in OnWay(a) /\ Before(a, m, n)) \/ n = x)
  BY DEF RoleFlow, x
<1>3. RoleDecided(d) /\ d.masterSlaveState # "Idle"
  BY DEF RoleDecided
<1>4. /\ Numbers(d) => Numbers(a)
      /\ ~Refuses(d)
      /\ \A m \in OnWay(d) : m.type = "MSDAck" => m = x
  <2>1. \A m \in OnWay(a) : m.type # "MSDAck"
    BY DEF Roles, HalfRoles, Acks
  <2> QED
    BY <1>1, <1>2, <2>1 DEF Numbers, Refuses, RoleType
<1>5. Numbered(e, d) /\ Acks(d)
  <2>1. Numbered(e, d)
    BY <1>1, <1>2, <1>3 DEF Numbered, Roles, HalfRoles, RoleType
  <2>2. Acks(d)
    BY <1>3, <1>4 DEF Acks, x
  <2> QED
    BY <2>1, <2>2
<1>6. Single(d)
  <2> SUFFICES ASSUME NEW m \in OnWay(d), NEW n \in OnWay(d), Before(d, m, n)
               PROVE  /\ n.type = "MSD" => m.type \notin {"MSD", "MSDAck"}
                      /\ n.type = "MSDReject" => m.type # "MSDReject"
    BY DEF Single
  <2>1. CASE m.type \in RoleType /\ n.type \in RoleType
    <3>1. m \in OnWay(a) /\ ((n \in OnWay(a) /\ Before(a, m, n)) \/ n = x)
      BY <1>2, <2>1
    <3> QED
      BY <1>1, <3>1 DEF Roles, HalfRoles, Single
  <2>2. CASE ~(m.type \in RoleType /\ n.type \in RoleType)
    BY <2>2 DEF RoleType
  <2> QED
    BY <2>1, <2>2
<1>7. /\ Unread(d, b) /\ Woken(d, b) /\ Rejects(e, p, d, b) /\ Rejects(p, e, b, d)
      /\ Woken(b, d)
  BY <1>3, <1>4 DEF Unread, Woken, Rejects
<1>8. Unread(b, d)
  BY <1>4 DEF Unread
<1>9. Agree(p, e, b, d)
  BY <1>3 DEF Agree
<1>10. Agree(e, p, d, b)
  <2>1. b.masterSlaveState \in MasterSlaveState
    BY DEF Call
  <2>2. ~RoleDecided(b) => b.masterSlaveState = "DetermineSent"
    BY <2>1 DEF RoleDecided, MasterSlaveState
  <2> QED
    BY <1>4, <2>2 DEF Agree
<1>11. Differ(d, b) /\ Differ(b, d)
  BY DEF Differ, RoleDecided, OtherRole
<1> QED
  BY <1>5, <1>6, <1>7, <1>8, <1>9, <1>10, <1>11 DEF Roles, HalfRoles

(* What is known when the peer's number is at the head of a connection.     *)
LEMMA NumberArrives ==
  ASSUME NEW e \in Endpoint, NEW p \in Endpoint, NEW a \in Call, NEW b0 \in Call, NEW b \in Call,
         NEW m, m.type = "MSD", Roles(e, p, a, b0), Reads(b0, m, b)
  PROVE  LET v == Verdict(e, a.statusDeterminationNumber, m.terminalType, m.number)
         IN  /\ ~RoleDecided(a) /\ ~Numbers(b) /\ b.masterSlaveState # "Idle" /\ ~Refuses(a)
             /\ m.terminalType = TermType[p] /\ m.number = b.statusDeterminationNumber
             /\ Refuses(b) => a.masterSlaveState = "DetermineSent" /\ v = "none"
             /\ RoleDecided(b) => /\ a.masterSlaveState = "DetermineSent"
                                  /\ v = OtherRole(b.masterSlaveState) /\ ~Numbers(a)
             /\ Numbers(a) => a.masterSlaveState = "DetermineSent"
<1> DEFINE v == Verdict(e, a.statusDeterminationNumber, m.terminalType, m.number)
<1>1. Numbers(b0) /\ m \in OnWay(b0)
  BY DEF Numbers, Reads
<1>2. /\ m = NumberMsg(p, b0.statusDeterminationNumber) /\ b0.masterSlaveState # "Idle"
  BY <1>1 DEF Roles, HalfRoles, Numbered
<1>3. m.terminalType = TermType[p] /\ m.number = b.statusDeterminationNumber
  BY <1>2 DEF NumberMsg, Reads, SameRole
<1>4. b.masterSlaveState # "Idle" /\ b.masterSlaveState = b0.masterSlaveState
      /\ b.statusDeterminationNumber = b0.statusDeterminationNumber
      /\ (RoleDecided(b) <=> RoleDecided(b0))
  BY <1>2 DEF Reads, SameRole, RoleDecided
<1>5. ~RoleDecided(a) /\ ~Refuses(a)
  BY <1>1 DEF Roles, HalfRoles, Unread, Rejects
<1>6. ~Numbers(b)
  BY <1>1 DEF Roles, HalfRoles, Single, Reads, Numbers, RoleType
<1>7. Numbers(a) => a.masterSlaveState = "DetermineSent"
  <2>1. Numbers(a) => a.masterSlaveState # "Idle"
    BY DEF Roles, HalfRoles, Numbered, Numbers
  <2>2. a.masterSlaveState \in MasterSlaveState
    BY DEF Call
  <2> QED
    BY <1>5, <2>1, <2>2 DEF RoleDecided, MasterSlaveState
<1>8. ASSUME Refuses(b)
      PROVE  a.masterSlaveState = "DetermineSent" /\ v = "none"
  <2>1. \E n \in OnWay(b0) : n.type = "MSDReject" /\ Before(b0, m, n)
    BY <1>8 DEF Refuses, Reads, RoleType
  <2>2. Rejects(e, p, a, b0) /\ Refuses(b0)
    BY <2>1 DEF Roles, HalfRoles, Refuses
  <2>3. Verdict(e, a.statusDeterminationNumber, TermType[p], b0.statusDeterminationNumber)
          = "none"
    BY <1>1, <2>1, <2>2 DEF Rejects
  <2> QED
    BY <1>3, <1>4, <2>2, <2>3 DEF Rejects
<1>9. ASSUME RoleDecided(b)
      PROVE  /\ a.masterSlaveState = "DetermineSent"
             /\ v = OtherRole(b.masterSlaveState) /\ ~Numbers(a)
  <2>1. Agree(p, e, b0, a) /\ Unread(b0, a)
    BY DEF Roles, HalfRoles
  <2> QED
    BY <1>1, <1>3, <1>4, <1>5, <1>9, <2>1 DEF Agree, Unread
<1> QED
  BY <1>3, <1>4, <1>5, <1>6, <1>7, <1>8, <1>9

(* The two numbers decide nothing, and a says so.                           *)
LEMMA RefusalKeepsRoles ==
  ASSUME NEW e \in Endpoint, NEW p \in Endpoint, NEW a \in Call, NEW b \in Call, NEW d \in Call,
         Roles(e, p, a, b), ~RoleDecided(a), ~RoleDecided(b), b.masterSlaveState # "Idle",
         ~Numbers(b), ~Refuses(a),
         Numbers(a) =>
           /\ a.masterSlaveState = "DetermineSent"
           /\ Verdict(p, b.statusDeterminationNumber, TermType[e], a.statusDeterminationNumber)
                = "none",
         RoleFlow(a, d, {Msg("MSDReject")}), SameRole(a, d)
  PROVE  Roles(e, p, d, b)
<1> DEFINE x == Msg("MSDReject")
<1>1. x.type = "MSDReject"
  BY DEF Msg
<1> HIDE DEF x
<1>2. /\ \A m \in OnWay(d) : m.type \in RoleType => m \in OnWay(a) \/ m = x
      /\ \A m, n \in OnWay(d) :
           m.type \in RoleType /\ n.type \in RoleType /\ Before(d, m, n)
             => m \in OnWay(a) /\ ((n \in OnWay(a) /\ Before(a, m, n)) \/ n = x)
  BY DEF RoleFlow, x
<1>3. ~RoleDecided(d) /\ (Numbers(d) => Numbers(a))
  BY <1>1, <1>2 DEF RoleDecided, SameRole, Numbers, RoleType
<1>4. Numbered(e, d) /\ Acks(d)
  BY <1>1, <1>2 DEF Numbered, Acks, Roles, HalfRoles, RoleType, SameRole, RoleDecided
<1>5. Single(d)
  <2> SUFFICES ASSUME NEW m \in OnWay(d), NEW n \in OnWay(d), Before(d, m, n)
               PROVE  /\ n.type = "MSD" => m.type \notin {"MSD", "MSDAck"}
                      /\ n.type = "MSDReject" => m.type # "MSDReject"
    BY DEF Single
  <2>1. CASE m.type \in RoleType /\ n.type \in RoleType
    <3>1. m \in OnWay(a) /\ ((n \in OnWay(a) /\ Before(a, m, n)) \/ n = x)
      BY <1>2, <2>1
    <3>2. m.type # "MSDReject"
      BY <3>1 DEF Refuses
    <3> QED
      BY <1>1, <3>1, <3>2 DEF Roles, HalfRoles, Single
  <2>2. CASE ~(m.type \in RoleType /\ n.type \in RoleType)
    BY <2>2 DEF RoleType
  <2> QED
    BY <2>1, <2>2
<1>6. b.masterSlaveState = "DetermineSent"
  <2>1. b.masterSlaveState \in MasterSlaveState
    BY DEF Call
  <2> QED
    BY <2>1 DEF RoleDecided, MasterSlaveState
<1>7. Rejects(p, e, b, d)
  <2>1. (\E m, n \in OnWay(d) : m.type = "MSD" /\ n.type = "MSDReject" /\ Before(d, m, n))
          => Numbers(a)
    BY <1>2 DEF Numbers, RoleType
  <2> QED
    BY <1>3, <1>6, <2>1 DEF Rejects, SameRole
<1>8. Rejects(e, p, d, b)
  BY <1>3 DEF Rejects, Roles, HalfRoles, SameRole, Numbers
<1>9. /\ Agree(e, p, d, b) /\ Agree(p, e, b, d) /\ Unread(d, b) /\ Unread(b, d)
      /\ Woken(d, b) /\ Woken(b, d) /\ Differ(d, b) /\ Differ(b, d)
  BY <1>3 DEF Agree, Unread, Woken, Differ
<1> QED
  BY <1>4, <1>5, <1>7, <1>8, <1>9 DEF Roles, HalfRoles

LEMMA AckArrives ==
  ASSUME NEW e \in Endpoint, NEW p \in Endpoint, NEW a \in Call, NEW b0 \in Call, NEW b \in Call,
         NEW m, m.type = "MSDAck", Roles(e, p, a, b0), Reads(b0, m, b)
  PROVE  /\ RoleDecided(b) /\ m = RoleMsg(b.masterSlaveState)
         /\ ~Numbers(a) /\ ~Numbers(b) /\ ~Refuses(a) /\ ~Refuses(b)
<1>1. /\ RoleDecided(b0) /\ m = RoleMsg(b0.masterSlaveState)
  BY DEF Roles, HalfRoles, Acks, Reads
<1>2. /\ RoleDecided(b) /\ m = RoleMsg(b.masterSlaveState)
  BY <1>1 DEF Reads, SameRole, RoleDecided
<1>3. ~Numbers(a)
  BY <1>1 DEF Roles, HalfRoles, Unread
<1>4. ~Numbers(b)
  BY DEF Roles, HalfRoles, Single, Reads, Numbers, RoleType
<1>5. ~Refuses(b)
  <2>1. Refuses(b) => Refuses(b0)
    BY DEF Refuses, Reads, RoleType
  <2> QED
    BY <1>1, <2>1 DEF Roles, HalfRoles, Rejects
<1>6. ~Refuses(a)
  <2>1. b0.masterSlaveState # "DetermineSent"
    BY <1>1 DEF RoleDecided
  <2> QED
    BY <2>1 DEF Roles, HalfRoles, Rejects
<1> QED
  BY <1>2, <1>3, <1>4, <1>5, <1>6

LEMMA RefusalArrives ==
  ASSUME NEW e \in Endpoint, NEW p \in Endpoint, NEW a \in Call, NEW b0 \in Call, NEW b \in Call,
         NEW m, m.type = "MSDReject", Roles(e, p, a, b0), Reads(b0, m, b)
  PROVE  a.masterSlaveState = "DetermineSent" /\ ~RoleDecided(b) /\ ~Numbers(a) /\ ~Refuses(b)
<1>1. Refuses(b0)
  BY DEF Refuses, Reads
<1>2. a.masterSlaveState = "DetermineSent" /\ ~RoleDecided(b0) /\ ~Numbers(a)
  BY <1>1 DEF Roles, HalfRoles, Rejects
<1>3. ~RoleDecided(b)
  BY <1>2 DEF Reads, SameRole, RoleDecided
<1>4. ~Refuses(b)
  BY DEF Roles, HalfRoles, Single, Reads, Refuses, RoleType
<1> QED
  BY <1>2, <1>3, <1>4

(* After a rejection an end is idle for a moment.                           *)
LEMMA IdledKeepsRoles ==
  ASSUME NEW e \in Endpoint, NEW p \in Endpoint, NEW a \in Call, NEW b \in Call, NEW x \in Call,
         Roles(e, p, a, b), a.masterSlaveState = "DetermineSent", ~RoleDecided(b), ~Numbers(a),
         ~Refuses(b), RoleFlow(a, x, {}), x.masterSlaveState = "Idle"
  PROVE  Roles(e, p, x, b)
<1>1. ~RoleDecided(a) /\ ~RoleDecided(x)
  BY DEF RoleDecided
<1>2. ~Numbers(x) /\ (Refuses(x) => Refuses(a))
  BY DEF Numbers, Refuses, RoleFlow, RoleType
<1>3. Numbered(e, x)
  BY <1>2 DEF Numbered, Numbers
<1>4. Acks(x)
  BY <1>1 DEF Acks, Roles, HalfRoles, RoleFlow, RoleType
<1>5. Single(x)
  <2> SUFFICES ASSUME NEW m \in OnWay(x), NEW n \in OnWay(x), Before(x, m, n)
               PROVE  /\ n.type = "MSD" => m.type \notin {"MSD", "MSDAck"}
                      /\ n.type = "MSDReject" => m.type # "MSDReject"
    BY DEF Single
  <2>1. CASE m.type \in RoleType /\ n.type \in RoleType
    <3>1. m \in OnWay(a) /\ n \in OnWay(a) /\ Before(a, m, n)
      BY <2>1 DEF RoleFlow
    <3> QED
      BY <3>1 DEF Roles, HalfRoles, Single
  <2>2. CASE ~(m.type \in RoleType /\ n.type \in RoleType)
    BY <2>2 DEF RoleType
  <2> QED
    BY <2>1, <2>2
<1>6. Rejects(p, e, b, x)
  <2>1. ~ \E m, n \in OnWay(x) : m.type = "MSD" /\ n.type = "MSDReject" /\ Before(x, m, n)
    BY <1>2 DEF Numbers
  <2> QED
    BY <1>1, <1>2, <2>1 DEF Rejects, Roles, HalfRoles
<1>7. /\ Agree(e, p, x, b) /\ Agree(p, e, b, x) /\ Unread(x, b) /\ Unread(b, x)
      /\ Woken(x, b) /\ Woken(b, x) /\ Differ(x, b) /\ Differ(b, x) /\ Rejects(e, p, x, b)
  BY <1>1 DEF Agree, Unread, Woken, Differ, Rejects
<1> QED
  BY <1>3, <1>4, <1>5, <1>6, <1>7 DEF Roles, HalfRoles

-----------------------------------------------------------------------------
(* The rest of the invariant.                                               *)

Silent(c) == c.masterSlaveState = "Idle" /\ \A m \in OnWay(c) : m.type \notin RoleType

(* The messages about roles are all in one connection, an end that has to   *)
(* do with an H.245 connection does not tunnel, and the capability sets of  *)
(* this code are never empty, so no session is paused.                      *)
Mode(c) ==
  /\ \A m \in In225(c) : m.type \in RoleType => Has(c, "TUNNELING")
  /\ \A m \in In245(c) : m.type \in RoleType => ~Has(c, "TUNNELING")
Apart(c) == Linked(c) => ~Has(c, "TUNNELING")
Caps(c)  == c.h245SessionState # "PAUSED" /\ \A m \in OnWay(c) : m.type = "TCS" => m.caps
Sound(c) == Mode(c) /\ Apart(c) /\ Caps(c)

(* Setup is on its way: nothing has begun.                                  *)
Invites(c)   == \E m \in In225(c) : m.type = "Setup"
Unstarted(c) == Silent(c) /\ ~Linked(c) /\ \A m \in In225(c) : m.type # "Connect"

(* What the caller x and the called end y say to each other to set up the   *)
(* call; asked says that the called user can already do something.          *)
Setting(asked, x, y) ==
  /\ \A m \in In225(x) : m.type \notin {"Connect", "Alerting", "CallProceeding"}
  /\ \A m \in In225(y) : m.type # "Setup"
  /\ \A m \in In225(y) : m.type \in {"Alerting", "CallProceeding"} => ~m.h245
  /\ \A m \in In225(y) :
       m.type = "Connect" => (m.h245 => ~m.tunneling) /\ (m.tunneling <=> Has(y, "TUNNELING"))
  /\ (Has(x, "TUNNELING") /\ ~Has(y, "TUNNELING")) => Silent(x)
  /\ Invites(x) => ~asked /\ Unstarted(x) /\ Unstarted(y) /\ y.pCallFwdData = "none"
  /\ \A m \in OnWay(x), n \in In225(x) : Before(x, m, n) => n.type # "Setup"

(* Forwarding, F being the ends whose users have asked for it.              *)
Forwards(F, e, p, a, b) ==
  /\ (\E m \in In225(a) : m.type = "CallForwarded") => e \in F /\ a.pCallFwdData # "none"
  /\ a.pCallFwdData = "byRemote" => p \in F /\ b.pCallFwdData # "none"
  /\ a.forwarded => p \in F /\ b.pCallFwdData # "none"

(* The invariant, of two ends e and p with the calls a and b; A are the     *)
(* ends whose users can do something.                                       *)
Good(F, A, e, p, a, b) ==
  /\ a \in Call /\ b \in Call
  /\ Roles(e, p, a, b)
  /\ Sound(a) /\ Sound(b)
  /\ e = Caller => Setting(p \in A, a, b)
  /\ p = Caller => Setting(e \in A, b, a)
  /\ Forwards(F, e, p, a, b) /\ Forwards(F, p, e, b, a)

LEMMA GoodSymmetric ==
  ASSUME NEW F, NEW A, NEW e, NEW p, NEW a, NEW b, Good(F, A, e, p, a, b)
  PROVE  Good(F, A, p, e, b, a)
  BY DEF Good, Roles

LEMMA SoundMoves ==
  ASSUME NEW c \in Call, NEW d, NEW M, Sound(c), Moves(c, d, M), \A m \in M : m.type # "TCS"
  PROVE  Sound(d)
<1>1. Has(d, "TUNNELING") <=> Has(c, "TUNNELING")
  BY DEF Moves
<1>2. Mode(d)
  <2>1. ASSUME NEW m \in In225(d), m.type \in RoleType
        PROVE  Has(d, "TUNNELING")
    <3>1. m \in In225(c) \cup To225(c, M)
      BY <2>1, MovesMessages DEF Tracked
    <3> QED
      BY <1>1, <2>1, <3>1 DEF Sound, Mode, To225
  <2>2. ASSUME NEW m \in In245(d), m.type \in RoleType
        PROVE  ~Has(d, "TUNNELING")
    <3>1. m \in In245(c) \cup To245(c, M)
      BY <2>2, MovesMessages DEF Tracked
    <3> QED
      BY <1>1, <2>2, <3>1 DEF Sound, Mode, To245
  <2> QED
    BY <2>1, <2>2 DEF Mode
<1>3. Apart(d)
  BY <1>1 DEF Moves, Sound, Apart
<1>4. Caps(d)
  <2>1. d.h245SessionState # "PAUSED"
    BY DEF Moves, Sound, Caps
  <2>2. ASSUME NEW m \in OnWay(d), m.type = "TCS"
        PROVE  m.caps
    <3> SUFFICES ASSUME ~m.caps
                 PROVE  FALSE
      OBVIOUS
    <3>1. Tracked(m)
      BY <2>2 DEF Tracked
    <3>2. m \in In225(c) \cup To225(c, M) \/ m \in In245(c) \cup To245(c, M)
      BY <2>2, <3>1, MovesMessages DEF OnWay
    <3>3. m \in OnWay(c)
      BY <2>2, <3>2 DEF OnWay, To225, To245
    <3> QED
      BY <2>2, <3>3 DEF Sound, Caps
  <2> QED
    BY <2>1, <2>2 DEF Caps
<1> QED
  BY <1>2, <1>3, <1>4 DEF Sound

LEMMA ForwardsMoves ==
  ASSUME NEW F, NEW e, NEW p, NEW a \in Call, NEW b, NEW d, NEW M, Moves(a, d, M),
         Forwards(F, e, p, a, b), Forwards(F, p, e, b, a),
         (\E m \in M : m.type = "CallForwarded") => e \in F /\ a.pCallFwdData # "none"
  PROVE  Forwards(F, e, p, d, b) /\ Forwards(F, p, e, b, d)
<1>1. d.pCallFwdData = a.pCallFwdData /\ (d.forwarded => a.forwarded \/ a.pCallFwdData = "byRemote")
  BY DEF Moves
<1>2. ASSUME NEW m \in In225(d), m.type = "CallForwarded"
      PROVE  e \in F /\ a.pCallFwdData # "none"
  <2>1. m \in In225(a) \/ m \in M
    BY <1>2, MovesMessages DEF Tracked, To225
  <2> QED
    BY <1>2, <2>1 DEF Forwards
<1> QED
  BY <1>1, <1>2 DEF Forwards

LEMMA SendsSilent ==
  ASSUME NEW c \in Call, NEW d, NEW M, Sends(c, d, M), NoRole(M), Silent(c)
  PROVE  Silent(d)
<1>1. Moves(c, d, M) /\ d.masterSlaveState = c.masterSlaveState
  BY DEF Sends
<1>2. ASSUME NEW m \in OnWay(d), m.type \in RoleType
      PROVE  FALSE
  <2>1. m \in OnWay(c) \cup M
    BY <1>1, <1>2, MovesRoleFlow DEF RoleFlow
  <2> QED
    BY <1>2, <2>1 DEF NoRole, Silent
<1> QED
  BY <1>1, <1>2 DEF Silent

LEMMA BeforeOnWay ==
  ASSUME NEW c, NEW m, NEW n, Before(c, m, n)
  PROVE  m \in OnWay(c) /\ n \in OnWay(c)
  BY DEF Before, Ordered, OnWay, In225, In245

(* The messages of a caller or of a called end.                             *)
LEMMA SettingCaller ==
  ASSUME NEW asked, NEW x \in Call, NEW y, NEW d, NEW M, Setting(asked, x, y), Moves(x, d, M),
         \A m \in M : m.type \in RoleType \cup {"CallForwarded"},
         \/ Sends(x, d, M) /\ NoRole(M)
         \/ ~Invites(x) /\ (Has(x, "TUNNELING") => Has(y, "TUNNELING"))
  PROVE  Setting(asked, d, y)
<1>1. \A m \in In225(d) : m.type \in {"Setup", "Connect", "Alerting", "CallProceeding"}
                            => m \in In225(x)
  <2> TAKE m \in In225(d)
  <2> HAVE m.type \in {"Setup", "Connect", "Alerting", "CallProceeding"}
  <2>1. m \in In225(x) \cup To225(x, M)
    BY MovesMessages DEF Tracked
  <2> QED
    BY <2>1 DEF To225, RoleType
<1>2. (Has(d, "TUNNELING") /\ ~Has(y, "TUNNELING")) => Silent(d)
  <2>1. Has(d, "TUNNELING") <=> Has(x, "TUNNELING")
    BY DEF Moves
  <2> QED
    BY <2>1, SendsSilent DEF Setting
<1>3. Invites(d) => ~asked /\ Unstarted(d) /\ Unstarted(y) /\ y.pCallFwdData = "none"
  <2> SUFFICES ASSUME Invites(d)
               PROVE  ~asked /\ Unstarted(d) /\ Unstarted(y) /\ y.pCallFwdData = "none"
    OBVIOUS
  <2>1. Invites(x)
    BY <1>1 DEF Invites
  <2>2. Sends(x, d, M) /\ NoRole(M) /\ Unstarted(x)
    BY <2>1 DEF Setting
  <2>3. Silent(d) /\ ~Linked(d)
    BY <2>2, SendsSilent DEF Sends, Unstarted
  <2>4. Unstarted(d)
    BY <1>1, <2>2, <2>3 DEF Unstarted
  <2> QED
    BY <2>1, <2>4 DEF Setting
<1>4. \A m \in OnWay(d), n \in In225(d) : Before(d, m, n) => n.type # "Setup"
  <2> SUFFICES ASSUME NEW m \in OnWay(d), NEW n \in In225(d), Before(d, m, n), n.type = "Setup"
               PROVE  FALSE
    OBVIOUS
  <2>1. n \in In225(x) /\ (Before(x, m, n) \/ n \in M)
    BY <1>1, MovesMessages DEF Tracked
  <2>2. Before(x, m, n)
    BY <2>1 DEF RoleType
  <2> QED
    BY <2>1, <2>2, BeforeOnWay DEF Setting
<1> QED
  BY <1>1, <1>2, <1>3, <1>4 DEF Setting

LEMMA SettingCalled ==
  ASSUME NEW asked, NEW x, NEW y \in Call, NEW d, NEW M, Setting(asked, x, y), Moves(y, d, M),
         \A m \in M : m.type \in RoleType \cup {"CallForwarded"} \/ m \in Signals(y),
         Routine(y, d) \/ ~Invites(x)
  PROVE  Setting(asked, x, d)
<1>1. Has(d, "TUNNELING") <=> Has(y, "TUNNELING")
  BY DEF Moves
<1>2. ASSUME NEW m \in In225(d), Tracked(m)
      PROVE  m \in In225(y) \/ m.type \in RoleType \cup {"CallForwarded"} \/ m \in Signals(y)
  BY <1>2, MovesMessages DEF To225
<1>3. /\ \A m \in In225(d) : m.type # "Setup"
      /\ \A m \in In225(d) : m.type \in {"Alerting", "CallProceeding"} => ~m.h245
      /\ \A m \in In225(d) :
           m.type = "Connect" => (m.h245 => ~m.tunneling) /\ (m.tunneling <=> Has(d, "TUNNELING"))
  <2>1. \A m \in In225(d) : m.type # "Setup"
    BY <1>2 DEF Tracked, Signals, RoleType, Setting
  <2>2. \A m \in In225(d) : m.type \in {"Alerting", "CallProceeding"} => ~m.h245
    BY <1>2 DEF Tracked, Signals, RoleType, Setting
  <2>3. ASSUME NEW m \in In225(d), m.type = "Connect"
        PROVE  (m.h245 => ~m.tunneling) /\ (m.tunneling <=> Has(d, "TUNNELING"))
    <3>1. m \in In225(y) \/ m \in Signals(y)
      BY <1>2, <2>3 DEF Tracked, RoleType
    <3> QED
      BY <1>1, <2>3, <3>1 DEF Signals, Setting
  <2> QED
    BY <2>1, <2>2, <2>3
<1>4. Invites(x) => Unstarted(d) /\ d.pCallFwdData = "none"
  <2> SUFFICES ASSUME Invites(x)
               PROVE  Unstarted(d) /\ d.pCallFwdData = "none"
    OBVIOUS
  <2>1. Sends(y, d, {}) /\ Unstarted(y) /\ y.pCallFwdData = "none"
    BY DEF Setting, Routine
  <2>2. Silent(d) /\ ~Linked(d) /\ d.pCallFwdData = "none"
    BY <2>1, SendsSilent, NoneAboutRoles DEF Sends, Unstarted, Moves
  <2>3. \A m \in In225(d) : Tracked(m) => m \in In225(y)
    BY <2>1, MovesMessages DEF Sends, To225
  <2> QED
    BY <2>1, <2>2, <2>3 DEF Unstarted, Tracked
<1> QED
  BY <1>1, <1>3, <1>4 DEF Setting

-----------------------------------------------------------------------------
(* Steps that keep the invariant.  Leads also says that the state of the    *)
(* call does not go back.                                                   *)
Leads(F, A, e, p, a, d, b) == Good(F, A, e, p, d, b) /\ d.callState >= a.callState

LEMMA LeadsOn ==
  ASSUME NEW F, NEW A, NEW e, NEW p, NEW a \in Call, NEW c, NEW d, NEW b,
         Leads(F, A, e, p, a, c, b), Leads(F, A, e, p, c, d, b)
  PROVE  Leads(F, A, e, p, a, d, b)
<1>1. a.callState \in Nat /\ c.callState \in Nat /\ d.callState \in Nat
  BY StateValues DEF Leads, Good, Call
<1>2. d.callState >= a.callState
  BY <1>1 DEF Leads
<1> QED
  BY <1>2 DEF Leads

LEMMA LeadsNowhere ==
  ASSUME NEW F, NEW A, NEW e, NEW p, NEW a, NEW b, Good(F, A, e, p, a, b)
  PROVE  Leads(F, A, e, p, a, a, b)
<1>1. a.callState \in Nat
  BY StateValues DEF Good, Call
<1> QED
  BY <1>1 DEF Leads

(* An end may send what is not a signal at any time.                        *)
LEMMA GoodMoves ==
  ASSUME NEW F, NEW A, NEW e, NEW p, NEW a, NEW b, NEW d, NEW M, Good(F, A, e, p, a, b),
         Moves(a, d, M), Roles(e, p, d, b), p # e,
         \A m \in M : \/ m.type \in RoleType \cup {"CallForwarded"}
                      \/ m \in Signals(a) /\ e # Caller,
         (\E m \in M : m.type = "CallForwarded") => e \in F /\ a.pCallFwdData # "none",
         e = Caller =>
            \/ Sends(a, d, M) /\ NoRole(M)
            \/ ~Invites(a) /\ (Has(a, "TUNNELING") => Has(b, "TUNNELING")),
         p = Caller => Routine(a, d) \/ ~Invites(b)
  PROVE  Leads(F, A, e, p, a, d, b)
<1>1. a \in Call /\ b \in Call /\ d \in Call /\ d.callState >= a.callState
  BY DEF Good, Moves
<1>2. Sound(d)
  <2>1. \A m \in M : m.type # "TCS"
    BY DEF Signals, RoleType
  <2> QED
    BY <1>1, <2>1, SoundMoves DEF Good
<1>3. Forwards(F, e, p, d, b) /\ Forwards(F, p, e, b, d)
  <2>1. Forwards(F, e, p, a, b) /\ Forwards(F, p, e, b, a)
    BY DEF Good
  <2> QED
    BY <1>1, <2>1, ForwardsMoves
<1>4. ASSUME e = Caller
      PROVE  Setting(p \in A, d, b)
  <2>1. Setting(p \in A, a, b)
    BY <1>4 DEF Good
  <2>2. \A m \in M : m.type \in RoleType \cup {"CallForwarded"}
    BY <1>4
  <2> DEFINE asked == p \in A
  <2> HIDE DEF asked
  <2>3. Setting(asked, a, b)
    BY <2>1 DEF asked
  <2>4. Setting(asked, d, b)
    BY <1>1, <1>4, <2>2, <2>3, SettingCaller
  <2> QED
    BY <2>4 DEF asked
<1>5. ASSUME p = Caller
      PROVE  Setting(e \in A, b, d)
  <2>1. Setting(e \in A, b, a)
    BY <1>5 DEF Good
  <2> DEFINE asked == e \in A
  <2> HIDE DEF asked
  <2>2. Setting(asked, b, a)
    BY <2>1 DEF asked
  <2>3. Setting(asked, b, d)
    BY <1>1, <1>5, <2>2, SettingCalled
  <2> QED
    BY <2>3 DEF asked
<1> QED
  BY <1>1, <1>2, <1>3, <1>4, <1>5 DEF Leads, Good

LEMMA RoutineLeads ==
  ASSUME NEW F, NEW A, NEW e \in Endpoint, NEW p \in Endpoint, NEW a, NEW b, NEW d,
         Good(F, A, e, p, a, b), Routine(a, d), p # e
  PROVE  Leads(F, A, e, p, a, d, b)
<1>1. Sends(a, d, {}) /\ Moves(a, d, {}) /\ SameRole(a, d) /\ a \in Call /\ b \in Call
  BY DEF Good, Routine, Sends, SameRole
<1>2. RoleFlow(a, d, {}) /\ d \in Call
  BY <1>1, MovesRoleFlow DEF Moves
<1>3. Roles(e, p, d, b)
  BY <1>1, <1>2, RolesKept DEF Good
<1> QED
  BY <1>1, <1>3, GoodMoves, NoneAboutRoles

(* An end that has to do with an H.245 connection does not tunnel, and      *)
(* Setup has been read.                                                     *)
LEMMA LinkedStarted ==
  ASSUME NEW F, NEW A, NEW e, NEW p, NEW a, NEW b, Good(F, A, e, p, a, b), Linked(a)
  PROVE  /\ ~Has(a, "TUNNELING")
         /\ e = Caller => ~Invites(a)
         /\ p = Caller => ~Invites(b)
  BY DEF Good, Sound, Apart, Setting, Unstarted

LEMMA MayStartLeads ==
  ASSUME NEW F, NEW A, NEW e \in Endpoint, NEW p \in Endpoint, NEW a, NEW b, NEW d,
         Good(F, A, e, p, a, b), MayStart(e, a, d), p # e,
         e = Caller => ~Invites(a) /\ (Has(a, "TUNNELING") => Has(b, "TUNNELING")),
         p = Caller => ~Invites(b)
  PROVE  Leads(F, A, e, p, a, d, b)
<1>1. CASE Routine(a, d)
  BY <1>1, RoutineLeads
<1>2. CASE a.masterSlaveState = "Idle" /\ Starts(e, a, d)
  <2> DEFINE M == {NumberMsg(e, d.statusDeterminationNumber)}
  <2>1. \A m \in M : m.type = "MSD"
    BY DEF NumberMsg
  <2>2. Moves(a, d, M) /\ d.masterSlaveState = "DetermineSent" /\ a \in Call /\ b \in Call
    BY <1>2 DEF Starts, Good
  <2>3. RoleFlow(a, d, M) /\ d \in Call
    BY <2>2, MovesRoleFlow DEF Moves
  <2>4. Roles(e, p, d, b)
    BY <1>2, <2>2, <2>3, NumberKeepsRoles DEF Good
  <2> HIDE DEF M
  <2> QED
    BY <2>1, <2>2, <2>4, GoodMoves DEF RoleType
<1> QED
  BY <1>1, <1>2 DEF MayStart

LEMMA LinkedStartLeads ==
  ASSUME NEW F, NEW A, NEW e \in Endpoint, NEW p \in Endpoint, NEW a, NEW b, NEW d,
         Good(F, A, e, p, a, b), LinkedStart(e, a, d), p # e
  PROVE  Leads(F, A, e, p, a, d, b)
  BY RoutineLeads, MayStartLeads, LinkedStarted DEF LinkedStart

(* The called end rings and answers.                                        *)
LEMMA RingsLeads ==
  ASSUME NEW F, NEW A, NEW e \in Endpoint, NEW p \in Endpoint, NEW a, NEW b, NEW d,
         Good(F, A, e, p, a, b), Rings(a, d), p # e, e # Caller, p = Caller => ~Invites(b)
  PROVE  Leads(F, A, e, p, a, d, b)
<1>1. Moves(a, d, Signals(a)) /\ SameRole(a, d) /\ a \in Call /\ b \in Call /\ d \in Call
  BY DEF Good, Rings, SameRole, Moves
<1>2. /\ \A m \in Signals(a) : m.type \in {"CallProceeding", "Alerting", "Connect"}
      /\ \A m \in Signals(a) : m.type \notin RoleType
      /\ \A m \in Signals(a) : m.type # "CallForwarded"
  BY DEF Signals, RoleType
<1>3. RoleFlow(a, d, {})
  <2>1. RoleFlow(a, d, Signals(a))
    BY <1>1, MovesRoleFlow
  <2> QED
    BY <1>2, <2>1 DEF RoleFlow
<1>4. Roles(e, p, d, b)
  BY <1>1, <1>3, RolesKept DEF Good
<1> QED
  BY <1>1, <1>2, <1>4, GoodMoves

(* The caller stops tunnelling, as the called end has.                      *)
LEMMA SameFlowsRoles ==
  ASSUME NEW c, NEW d, SameFlows(c, d)
  PROVE  /\ In225(d) = In225(c) /\ In245(d) = In245(c) /\ OnWay(d) = OnWay(c)
         /\ \A m, n : Before(d, m, n) <=> Before(c, m, n)
         /\ RoleFlow(c, d, {})
<1>1. Sent225(d) = Sent225(c) /\ Sent245(d) = Sent245(c)
  BY DEF SameFlows, Sent225, Sent245
<1>2. /\ In225(d) = In225(c) /\ In245(d) = In245(c) /\ OnWay(d) = OnWay(c)
  BY <1>1 DEF In225, In245, OnWay
<1>3. \A m, n : Before(d, m, n) <=> Before(c, m, n)
  BY <1>1 DEF Before
<1> QED
  BY <1>2, <1>3 DEF RoleFlow

LEMMA UntunnelsLeads ==
  ASSUME NEW F, NEW A, NEW e \in Endpoint, NEW p \in Endpoint, NEW a, NEW b, NEW d,
         Good(F, A, e, p, a, b), Untunnels(a, d), p # e, e = Caller, ~Invites(a),
         ~Has(b, "TUNNELING")
  PROVE  Leads(F, A, e, p, a, d, b)
<1>1. /\ a \in Call /\ b \in Call /\ d \in Call /\ SameRole(a, d) /\ SameFlows(a, d)
      /\ d.pCallFwdData = a.pCallFwdData /\ d.forwarded = a.forwarded
      /\ d.callState = a.callState /\ ~Has(d, "TUNNELING")
      /\ d.h245SessionState = a.h245SessionState
  BY DEF Good, Untunnels, SameRole
<1>2. /\ In225(d) = In225(a) /\ In245(d) = In245(a) /\ OnWay(d) = OnWay(a)
      /\ \A m, n : Before(d, m, n) <=> Before(a, m, n)
      /\ RoleFlow(a, d, {})
  BY <1>1, SameFlowsRoles
<1>3. Roles(e, p, d, b)
  BY <1>1, <1>2, RolesKept DEF Good
<1>4. Setting(p \in A, a, b)
  BY DEF Good
<1>5. Sound(d)
  <2>1. \A m \in In225(a) : m.type \notin RoleType
    <3>1. CASE Has(a, "TUNNELING")
      BY <1>4, <3>1 DEF Setting, Silent, OnWay
    <3>2. CASE ~Has(a, "TUNNELING")
      BY <3>2 DEF Good, Sound, Mode
    <3> QED
      BY <3>1, <3>2
  <2>2. Mode(d) /\ Apart(d)
    BY <1>1, <1>2, <2>1 DEF Mode, Apart
  <2>3. Caps(d)
    BY <1>1, <1>2 DEF Good, Sound, Caps
  <2> QED
    BY <2>2, <2>3 DEF Sound
<1>6. Setting(p \in A, d, b)
  BY <1>1, <1>2, <1>4 DEF Setting, Invites
<1>7. Forwards(F, e, p, d, b) /\ Forwards(F, p, e, b, d)
  BY <1>1, <1>2 DEF Good, Forwards
<1>8. d.callState >= a.callState
  <2>1. a.callState \in Nat
    BY <1>1, StateValues DEF Call
  <2> QED
    BY <1>1, <2>1
<1> QED
  BY <1>1, <1>3, <1>5, <1>6, <1>7, <1>8 DEF Leads, Good

(* Forwarding is noted by the end whose user asks for it, and by the other. *)
LEMMA NotedLeads ==
  ASSUME NEW F, NEW A, NEW e \in Endpoint, NEW p \in Endpoint, NEW a, NEW b,
         NEW who \in {"byUs", "byRemote"}, Good(F, A, e, p, a, b), p # e,
         who = "byRemote" => p \in F /\ b.pCallFwdData # "none", p = Caller => ~Invites(b)
  PROVE  Leads(F, A, e, p, a, Noted(a, who), b)
<1> DEFINE d == Noted(a, who)
<1>1. a \in Call /\ b \in Call
  BY DEF Good
<1>2. /\ d \in Call /\ SameRole(a, d) /\ SameFlows(a, d)
      /\ d.pCallFwdData = who /\ d.forwarded = a.forwarded /\ d.callState = a.callState
      /\ d.h245SessionState = a.h245SessionState
      /\ Has(d, "TUNNELING") <=> Has(a, "TUNNELING")
      /\ Linked(d) <=> Linked(a)
  <2>1. /\ SameRole(a, d) /\ SameFlows(a, d)
        /\ d.pCallFwdData = who /\ d.forwarded = a.forwarded /\ d.callState = a.callState
        /\ d.h245SessionState = a.h245SessionState
        /\ Has(d, "TUNNELING") <=> Has(a, "TUNNELING")
        /\ Linked(d) <=> Linked(a)
    BY <1>1 DEF Call, Noted, SameRole, SameFlows, Has, Linked
  <2>2. d \in Call
    BY <1>1 DEF Call, Noted, FwdData
  <2> QED
    BY <2>1, <2>2
<1> HIDE DEF d
<1>3. /\ In225(d) = In225(a) /\ In245(d) = In245(a) /\ OnWay(d) = OnWay(a)
      /\ \A m, n : Before(d, m, n) <=> Before(a, m, n)
      /\ RoleFlow(a, d, {})
  BY <1>2, SameFlowsRoles
<1>4. Roles(e, p, d, b)
  BY <1>1, <1>2, <1>3, RolesKept DEF Good
<1>5. Sound(d)
  BY <1>2, <1>3 DEF Good, Sound, Mode, Apart, Caps
<1>6. Silent(d) <=> Silent(a)
  BY <1>2, <1>3 DEF Silent, SameRole
<1>7. ASSUME e = Caller
      PROVE  Setting(p \in A, d, b)
  BY <1>2, <1>3, <1>6, <1>7 DEF Good, Setting, Invites, Unstarted
<1>8. ASSUME p = Caller
      PROVE  Setting(e \in A, b, d)
  BY <1>2, <1>3, <1>6, <1>8 DEF Good, Setting
<1>9. Forwards(F, e, p, d, b) /\ Forwards(F, p, e, b, d)
  BY <1>2, <1>3 DEF Good, Forwards
<1>10. d.callState >= a.callState
  <2>1. a.callState \in Nat
    BY <1>1, StateValues DEF Call
  <2> QED
    BY <1>2, <2>1
<1>11. Leads(F, A, e, p, a, d, b)
  BY <1>1, <1>2, <1>4, <1>5, <1>7, <1>8, <1>9, <1>10 DEF Leads, Good
<1> QED
  BY <1>11 DEF d

LEMMA ForwardCallLeads ==
  ASSUME NEW F, NEW A, NEW e \in Endpoint, NEW p \in Endpoint, NEW a, NEW b,
         Good(F, A, e, p, a, b), p # e, e \in F, p = Caller => ~Invites(b)
  PROVE  Leads(F, A, e, p, a, ForwardCall(a), b)
<1> DEFINE x == Noted(a, "byUs")
           d == ForwardCall(a)
           M == {Msg("CallForwarded")}
<1>1. Leads(F, A, e, p, a, x, b) /\ a \in Call
  BY NotedLeads DEF Good
<1>2. Sends(x, d, M) /\ x.pCallFwdData # "none"
  <2>1. x.pCallFwdData = "byUs"
    BY <1>1 DEF Noted, Call
  <2> QED
    BY <1>1, <2>1, ForwardCallSends
<1>3. \A m \in M : m.type = "CallForwarded"
  BY DEF Msg
<1> HIDE DEF x, d, M
<1>4. Good(F, A, e, p, x, b) /\ x \in Call /\ b \in Call
  BY <1>1 DEF Leads, Good
<1>5. NoRole(M)
  BY <1>3 DEF NoRole, RoleType
<1>6. Moves(x, d, M) /\ SameRole(x, d) /\ d \in Call
  BY <1>2 DEF Sends, SameRole, Moves
<1>7. RoleFlow(x, d, {})
  <2>1. RoleFlow(x, d, M)
    BY <1>4, <1>6, MovesRoleFlow
  <2> QED
    BY <1>3, <2>1 DEF RoleFlow, RoleType
<1>8. Roles(e, p, d, b)
  BY <1>4, <1>6, <1>7, RolesKept DEF Good
<1>9. Leads(F, A, e, p, x, d, b)
  BY <1>2, <1>3, <1>4, <1>5, <1>6, <1>8, GoodMoves
<1>10. Leads(F, A, e, p, a, d, b)
  BY <1>1, <1>9, LeadsOn
<1> QED
  BY <1>10 DEF d

(* The called end takes the flags of the call from Setup.                   *)
LEMMA SetUpLeads ==
  ASSUME NEW F, NEW A, NEW e \in Endpoint, NEW p \in Endpoint, NEW a, NEW b, NEW m \in Message,
         Good(F, A, e, p, a, b), p # e, e # Caller, m.type = "Setup", ~Invites(b),
         Unstarted(a), Silent(b)
  PROVE  Leads(F, A, e, p, a, SetUp(a, m), b)
<1> DEFINE d == SetUp(a, m)
<1>1. a \in Call /\ b \in Call
  BY DEF Good
<1>2. /\ d \in Call /\ SameRole(a, d) /\ SameFlows(a, d)
      /\ d.pCallFwdData = a.pCallFwdData /\ d.forwarded = a.forwarded /\ d.callState = a.callState
      /\ d.h245SessionState = a.h245SessionState /\ (Linked(d) <=> Linked(a))
  BY <1>1, SetUpFields DEF SameRole
<1> HIDE DEF d
<1>3. /\ In225(d) = In225(a) /\ In245(d) = In245(a) /\ OnWay(d) = OnWay(a)
      /\ \A x, y : Before(d, x, y) <=> Before(a, x, y)
      /\ RoleFlow(a, d, {})
  BY <1>2, SameFlowsRoles
<1>4. Roles(e, p, d, b)
  BY <1>1, <1>2, <1>3, RolesKept DEF Good
<1>5. Sound(d)
  <2>1. Mode(d)
    BY <1>3 DEF Mode, Unstarted, Silent, OnWay
  <2>2. Apart(d)
    BY <1>2 DEF Apart, Unstarted
  <2>3. Caps(d)
    BY <1>2, <1>3 DEF Good, Sound, Caps
  <2> QED
    BY <2>1, <2>2, <2>3 DEF Sound
<1>6. ASSUME p = Caller
      PROVE  Setting(e \in A, b, d)
  BY <1>2, <1>3, <1>6 DEF Good, Setting, Unstarted
<1>7. Forwards(F, e, p, d, b) /\ Forwards(F, p, e, b, d)
  BY <1>2, <1>3 DEF Good, Forwards
<1>8. d.callState >= a.callState
  <2>1. a.callState \in Nat
    BY <1>1, StateValues DEF Call
  <2> QED
    BY <1>2, <2>1
<1>9. Leads(F, A, e, p, a, d, b)
  BY <1>1, <1>2, <1>4, <1>5, <1>6, <1>7, <1>8 DEF Leads, Good
<1> QED
  BY <1>9 DEF d

LEMMA InvitesMoves ==
  ASSUME NEW c \in Call, NEW d, NEW M, Moves(c, d, M), \A m \in M : m.type # "Setup", Invites(d)
  PROVE  Invites(c)
<1>1. PICK m \in In225(d) : m.type = "Setup"
  BY DEF Invites
<1>2. m \in In225(c) \cup To225(c, M)
  BY <1>1, MovesMessages DEF Tracked
<1> QED
  BY <1>1, <1>2 DEF Invites, To225

-----------------------------------------------------------------------------
(* Reading.  What is read is the first message of a connection.             *)
LEMMA HeadReads ==
  ASSUME NEW c \in Call, Mode(c)
  PROVE  /\ (c.h225Net # << >> /\ Head(c.h225Net).type \in RoleType) =>
              Reads(c, Head(c.h225Net), Read225(c))
         /\ (c.h245Net # << >> /\ Head(c.h245Net).type \in RoleType) =>
              Reads(c, Head(c.h245Net), Read245(c))
<1>1. ASSUME NEW d, Routine(c, d)
      PROVE  SameRole(c, d) /\ RoleFlow(c, d, {})
  BY <1>1, MovesRoleFlow DEF Routine, Sends, SameRole
<1>2. ASSUME c.h225Net # << >>, Head(c.h225Net).type \in RoleType
      PROVE  Reads(c, Head(c.h225Net), Read225(c))
  <2> DEFINE d == Read225(c)
             m == Head(c.h225Net)
  <2>1. /\ Routine(c, d) /\ m \in In225(c)
        /\ \A n \in In225(d) : n \in In225(c) /\ Before(c, m, n)
        /\ In245(d) = In245(c)
    BY <1>2, ReadRoutine
  <2>2. m.type \in RoleType
    BY <1>2
  <2> HIDE DEF d, m
  <2>3. \A n \in In245(d) : n.type \notin RoleType
    BY <2>1, <2>2 DEF Mode
  <2>4. Reads(c, m, d)
    BY <1>1, <2>1, <2>3 DEF Reads, OnWay
  <2> QED
    BY <2>4 DEF d, m
<1>3. ASSUME c.h245Net # << >>, Head(c.h245Net).type \in RoleType
      PROVE  Reads(c, Head(c.h245Net), Read245(c))
  <2> DEFINE d == Read245(c)
             m == Head(c.h245Net)
  <2>1. /\ Routine(c, d) /\ m \in In245(c)
        /\ \A n \in In245(d) : n \in In245(c) /\ Before(c, m, n)
        /\ In225(d) = In225(c)
    BY <1>3, ReadRoutine
  <2>2. m.type \in RoleType
    BY <1>3
  <2> HIDE DEF d, m
  <2>3. \A n \in In225(d) : n.type \notin RoleType
    BY <2>1, <2>2 DEF Mode
  <2>4. Reads(c, m, d)
    BY <1>1, <2>1, <2>3 DEF Reads, OnWay
  <2> QED
    BY <2>4 DEF d, m
<1> QED
  BY <1>2, <1>3

(* A step that changes the role.                                            *)
LEMMA RoleStepLeads ==
  ASSUME NEW F, NEW A, NEW e, NEW p, NEW a, NEW b, NEW d, NEW M, Good(F, A, e, p, a, b),
         Moves(a, d, M), Roles(e, p, d, b), p # e, \A m \in M : m.type \in RoleType,
         e = Caller => ~Invites(a) /\ (Has(a, "TUNNELING") => Has(b, "TUNNELING")),
         p = Caller => ~Invites(b)
  PROVE  Leads(F, A, e, p, a, d, b)
<1>1. ~ \E m \in M : m.type = "CallForwarded"
  BY DEF RoleType
<1> QED
  BY <1>1, GoodMoves

LEMMA NumberRead ==
  ASSUME NEW F, NEW A, NEW e \in Endpoint, NEW p \in Endpoint, NEW a, NEW b0, NEW b, NEW w \in World,
         NEW m \in Message, m.type = "MSD", Good(F, A, e, p, a, b0), Good(F, A, e, p, a, b),
         Reads(b0, m, b), p # e,
         e = Caller => ~Invites(a) /\ (Has(a, "TUNNELING") => Has(b, "TUNNELING")),
         p = Caller => ~Invites(b)
  PROVE  Leads(F, A, e, p, a, HandleMSD(e, w, a, m), b)
<1> DEFINE v  == Verdict(e, Ours(w, a), m.terminalType, m.number)
           v0 == Verdict(e, a.statusDeterminationNumber, m.terminalType, m.number)
           back == Verdict(p, b.statusDeterminationNumber, TermType[e], a.statusDeterminationNumber)
           d  == HandleMSD(e, w, a, m)
<1>1. a \in Call /\ b0 \in Call /\ b \in Call /\ Roles(e, p, a, b0) /\ Roles(e, p, a, b)
  BY DEF Good
<1>2. /\ ~RoleDecided(a) /\ ~Numbers(b) /\ b.masterSlaveState # "Idle" /\ ~Refuses(a)
      /\ m.terminalType = TermType[p] /\ m.number = b.statusDeterminationNumber
      /\ Refuses(b) => a.masterSlaveState = "DetermineSent" /\ v0 = "none"
      /\ RoleDecided(b) => /\ a.masterSlaveState = "DetermineSent"
                           /\ v0 = OtherRole(b.masterSlaveState) /\ ~Numbers(a)
      /\ Numbers(a) => a.masterSlaveState = "DetermineSent"
  BY <1>1, NumberArrives
<1>3. /\ v \in {"Master", "Slave"} => TakesRole(a, d, v)
      /\ v = "none" => Sends(a, d, {Msg("MSDReject")})
      /\ v \in {"Master", "Slave", "none"}
  BY <1>1, HandleMSDVerdict
<1>4. a.masterSlaveState = "DetermineSent" => v = v0
  BY DEF Ours
<1>5. /\ v0 = "none" => back = "none"
      /\ v0 # "none" => back = OtherRole(v0)
  <2>1. a.statusDeterminationNumber \in DetNumber /\ b.statusDeterminationNumber \in DetNumber
    BY <1>1 DEF Call
  <2> QED
    BY <1>2, <2>1, VerdictsOpposite
<1> HIDE DEF v, v0, back, d
<1>6. CASE v \in {"Master", "Slave"}
  <2> DEFINE M == {RoleMsg(v)}
  <2>1. Moves(a, d, M) /\ d.masterSlaveState = v
        /\ d.statusDeterminationNumber = a.statusDeterminationNumber
    BY <1>3, <1>6 DEF TakesRole
  <2>2. \A n \in M : n.type \in RoleType
    BY DEF RoleMsg, RoleType
  <2> HIDE DEF M
  <2>3. RoleFlow(a, d, M) /\ d \in Call
    BY <1>1, <2>1, MovesRoleFlow DEF Moves
  <2>4. v # "none"
    BY <1>6
  <2>5. ~Refuses(b) /\ (RoleDecided(b) => v = OtherRole(b.masterSlaveState) /\ ~Numbers(a))
    BY <1>2, <1>4, <2>4
  <2>6. Numbers(a) => back = OtherRole(v)
    BY <1>2, <1>4, <1>5, <2>4
  <2>7. Roles(e, p, d, b)
    BY <1>1, <1>2, <1>6, <2>1, <2>3, <2>5, <2>6, RoleTaken DEF M, back
  <2>8. Leads(F, A, e, p, a, d, b)
    BY <2>1, <2>2, <2>7, RoleStepLeads
  <2> QED
    BY <2>8 DEF d
<1>7. CASE v = "none"
  <2> DEFINE M == {Msg("MSDReject")}
  <2>1. Moves(a, d, M) /\ SameRole(a, d)
    BY <1>3, <1>7 DEF Sends, SameRole
  <2>2. \A n \in M : n.type \in RoleType
    BY DEF Msg, RoleType
  <2> HIDE DEF M
  <2>3. RoleFlow(a, d, M) /\ d \in Call
    BY <1>1, <2>1, MovesRoleFlow DEF Moves
  <2>4. ~RoleDecided(b)
    BY <1>2, <1>4, <1>7 DEF OtherRole
  <2>5. Numbers(a) => a.masterSlaveState = "DetermineSent" /\ back = "none"
    BY <1>2, <1>4, <1>5, <1>7
  <2>6. Roles(e, p, d, b)
    BY <1>1, <1>2, <2>1, <2>3, <2>4, <2>5, RefusalKeepsRoles DEF M, back
  <2>7. Leads(F, A, e, p, a, d, b)
    BY <2>1, <2>2, <2>6, RoleStepLeads
  <2> QED
    BY <2>7 DEF d
<1> QED
  BY <1>3, <1>6, <1>7

LEMMA AckRead ==
  ASSUME NEW F, NEW A, NEW e \in Endpoint, NEW p \in Endpoint, NEW a, NEW b0, NEW b, NEW w \in World,
         NEW m \in Message, m.type = "MSDAck", Good(F, A, e, p, a, b0), Good(F, A, e, p, a, b),
         Reads(b0, m, b), p # e,
         e = Caller => ~Invites(a) /\ (Has(a, "TUNNELING") => Has(b, "TUNNELING")),
         p = Caller => ~Invites(b)
  PROVE  Leads(F, A, e, p, a, HandleMSDAck(e, w, a, m), b)
<1> DEFINE d    == HandleMSDAck(e, w, a, m)
           role == IF m.decision = "master" THEN "Master" ELSE "Slave"
<1>1. a \in Call /\ b0 \in Call /\ b \in Call /\ Roles(e, p, a, b0) /\ Roles(e, p, a, b)
  BY DEF Good
<1>2. /\ RoleDecided(b) /\ m = RoleMsg(b.masterSlaveState)
      /\ ~Numbers(a) /\ ~Numbers(b) /\ ~Refuses(a) /\ ~Refuses(b)
  BY <1>1, AckArrives
<1>3. role = OtherRole(b.masterSlaveState) /\ role \in {"Master", "Slave"}
  BY <1>2 DEF RoleMsg, OtherRole, RoleDecided
<1>4. IF a.masterSlaveState # "DetermineSent" THEN Routine(a, d) ELSE TakesRole(a, d, role)
  BY <1>1, HandleMSDAckRole
<1> HIDE DEF d, role
<1>5. CASE a.masterSlaveState # "DetermineSent"
  <2>1. Leads(F, A, e, p, a, d, b)
    BY <1>4, <1>5, RoutineLeads
  <2> QED
    BY <2>1 DEF d
<1>6. CASE a.masterSlaveState = "DetermineSent"
  <2> DEFINE M == {RoleMsg(role)}
  <2>1. Moves(a, d, M) /\ d.masterSlaveState = role
        /\ d.statusDeterminationNumber = a.statusDeterminationNumber
    BY <1>4, <1>6 DEF TakesRole
  <2>2. \A n \in M : n.type \in RoleType
    BY DEF RoleMsg, RoleType
  <2> HIDE DEF M
  <2>3. RoleFlow(a, d, M) /\ d \in Call
    BY <1>1, <2>1, MovesRoleFlow DEF Moves
  <2>4. ~RoleDecided(a) /\ b.masterSlaveState # "Idle"
    BY <1>2, <1>6 DEF RoleDecided
  <2>5. Roles(e, p, d, b)
    BY <1>1, <1>2, <1>3, <2>1, <2>3, <2>4, RoleTaken DEF M
  <2>6. Leads(F, A, e, p, a, d, b)
    BY <2>1, <2>2, <2>5, RoleStepLeads
  <2> QED
    BY <2>6 DEF d
<1> QED
  BY <1>5, <1>6

LEMMA RefusalRead ==
  ASSUME NEW F, NEW A, NEW e \in Endpoint, NEW p \in Endpoint, NEW a, NEW b0, NEW b, NEW w \in World,
         NEW m \in Message, m.type = "MSDReject", Good(F, A, e, p, a, b0), Good(F, A, e, p, a, b),
         Reads(b0, m, b), p # e,
         e = Caller => ~Invites(a) /\ (Has(a, "TUNNELING") => Has(b, "TUNNELING")),
         p = Caller => ~Invites(b)
  PROVE  Leads(F, A, e, p, a, HandleMSDReject(e, w, a), b)
<1> DEFINE d == HandleMSDReject(e, w, a)
<1>1. a \in Call /\ b0 \in Call /\ b \in Call /\ Roles(e, p, a, b0) /\ Roles(e, p, a, b)
  BY DEF Good
<1>2. a.masterSlaveState = "DetermineSent" /\ ~RoleDecided(b) /\ ~Numbers(a) /\ ~Refuses(b)
  BY <1>1, RefusalArrives
<1>3. Routine(a, d) \/ \E x \in Call : Idled(a, x) /\ Starts(e, x, d)
  BY <1>1, HandleMSDRejectRestarts
<1> HIDE DEF d
<1>4. CASE Routine(a, d)
  <2>1. Leads(F, A, e, p, a, d, b)
    BY <1>4, RoutineLeads
  <2> QED
    BY <2>1 DEF d
<1>5. ASSUME NEW x \in Call, Idled(a, x), Starts(e, x, d)
      PROVE  Leads(F, A, e, p, a, d, b)
  <2>1. Moves(a, x, {}) /\ x.masterSlaveState = "Idle"
    BY <1>5 DEF Idled
  <2>2. RoleFlow(a, x, {})
    BY <1>1, <2>1, MovesRoleFlow
  <2>3. Roles(e, p, x, b)
    BY <1>1, <1>2, <2>1, <2>2, IdledKeepsRoles
  <2>4. Leads(F, A, e, p, a, x, b)
    BY <2>1, <2>3, RoleStepLeads
  <2>5. Good(F, A, e, p, x, b) /\ MayStart(e, x, d)
    BY <1>5, <2>1, <2>4 DEF Leads, MayStart
  <2>6. Invites(x) => Invites(a)
    BY <1>1, <2>1, InvitesMoves
  <2>7. Has(x, "TUNNELING") <=> Has(a, "TUNNELING")
    BY <2>1 DEF Moves
  <2>8. Leads(F, A, e, p, x, d, b)
    BY <2>5, <2>6, <2>7, MayStartLeads
  <2> QED
    BY <1>1, <2>4, <2>8, LeadsOn
<1> QED
  BY <1>3, <1>4, <1>5 DEF d

LEMMA RoleRead ==
  ASSUME NEW F, NEW A, NEW e \in Endpoint, NEW p \in Endpoint, NEW a, NEW b0, NEW b, NEW w \in World,
         NEW m \in Message, m.type \in RoleType, Good(F, A, e, p, a, b0), Good(F, A, e, p, a, b),
         Reads(b0, m, b), p # e,
         e = Caller => ~Invites(a) /\ (Has(a, "TUNNELING") => Has(b, "TUNNELING")),
         p = Caller => ~Invites(b)
  PROVE  Leads(F, A, e, p, a, HandleH245Message(e, w, a, m), b)
<1>1. a \in Call
  BY DEF Good
<1>2. CASE m.type = "MSD"
  <2>1. Leads(F, A, e, p, a, HandleMSD(e, w, a, m), b)
    BY <1>2, NumberRead
  <2> QED
    BY <1>1, <1>2, <2>1, HandleH245Role
<1>3. CASE m.type = "MSDAck"
  <2>1. Leads(F, A, e, p, a, HandleMSDAck(e, w, a, m), b)
    BY <1>3, AckRead
  <2> QED
    BY <1>1, <1>3, <2>1, HandleH245Role
<1>4. CASE m.type = "MSDReject"
  <2>1. Leads(F, A, e, p, a, HandleMSDReject(e, w, a), b)
    BY <1>4, RefusalRead
  <2> QED
    BY <1>1, <1>4, <2>1, HandleH245Role
<1> QED
  BY <1>2, <1>3, <1>4 DEF RoleType

(* What the peer reads or writes as a matter of routine.                    *)
LEMMA PeerRoutine ==
  ASSUME NEW F, NEW A, NEW e \in Endpoint, NEW p \in Endpoint, NEW a, NEW b, NEW d,
         Good(F, A, e, p, a, b), Routine(b, d), p # e
  PROVE  /\ Good(F, A, e, p, a, d)
         /\ Invites(d) => Invites(b)
         /\ Has(d, "TUNNELING") <=> Has(b, "TUNNELING")
<1>1. Good(F, A, p, e, b, a)
  BY GoodSymmetric
<1>2. Good(F, A, p, e, d, a)
  BY <1>1, RoutineLeads DEF Leads
<1>3. Moves(b, d, {}) /\ b \in Call
  BY DEF Routine, Sends, Good
<1>4. Invites(d) => Invites(b)
  BY <1>3, InvitesMoves
<1> QED
  BY <1>2, <1>3, <1>4, GoodSymmetric DEF Moves

(* An H.245 message, from either connection.                                *)
LEMMA H245Read ==
  ASSUME NEW F, NEW A, NEW e \in Endpoint, NEW p \in Endpoint, NEW a, NEW b0, NEW b, NEW w \in World,
         NEW m \in Message, Good(F, A, e, p, a, b0), Routine(b0, b), p # e, m \in OnWay(b0),
         m.type \in RoleType => Reads(b0, m, b),
         Has(a, "TUNNELING") => m \in In225(b0)
  PROVE  Leads(F, A, e, p, a, HandleH245Message(e, w, a, m), b)
<1>1. Good(F, A, e, p, a, b) /\ (Invites(b) => Invites(b0))
      /\ (Has(b, "TUNNELING") <=> Has(b0, "TUNNELING"))
  BY PeerRoutine
<1>2. CASE m.type \in RoleType
  <2>1. ~Silent(b0)
    BY <1>2 DEF Silent
  <2>2. /\ e = Caller => ~Invites(a)
        /\ p = Caller => ~Invites(b)
    BY <1>1, <2>1 DEF Good, Setting, Unstarted
  <2>3. Has(a, "TUNNELING") => Has(b, "TUNNELING")
    BY <1>1, <1>2 DEF Good, Sound, Mode
  <2> QED
    BY <1>1, <1>2, <2>2, <2>3, RoleRead
<1>3. CASE m.type \notin RoleType
  <2>1. m.type = "TCS" => m.caps
    BY DEF Good, Sound, Caps
  <2>2. Routine(a, HandleH245Message(e, w, a, m))
    BY <1>3, <2>1, HandleH245Routine DEF Good
  <2> QED
    BY <1>1, <2>2, RoutineLeads
<1> QED
  BY <1>2, <1>3

LEMMA ServeH245Leads ==
  ASSUME NEW F, NEW A, NEW e \in Endpoint, NEW p \in Endpoint, NEW a, NEW b, NEW w \in World,
         NEW arrived \in Arrival, Good(F, A, e, p, a, b), p # e,
         arrived \notin {Nothing, Eof} => b.h245Net # << >> /\ arrived = Head(b.h245Net)
  PROVE  LET reads == ServesH245(a, arrived) /\ arrived # Eof
         IN  Leads(F, A, e, p, a, ServeH245(e, w, a, arrived), IF reads THEN Read245(b) ELSE b)
<1>1. a \in Call /\ b \in Call /\ a.h245SessionState # "PAUSED" /\ Mode(b) /\ Apart(a)
  BY DEF Good, Sound, Caps
<1>2. CASE ServesH245(a, arrived) /\ arrived # Eof
  <2>1. b.h245Net # << >> /\ arrived = Head(b.h245Net)
    BY <1>2 DEF ServesH245
  <2>2. Routine(b, Read245(b)) /\ arrived \in Message /\ arrived \in In245(b)
    BY <1>1, <2>1, ReadRoutine
  <2>3. arrived.type \in RoleType => Reads(b, arrived, Read245(b))
    BY <1>1, <2>1, HeadReads
  <2>4. ~Has(a, "TUNNELING")
    <3>1. Linked(a)
      BY <1>2 DEF ServesH245, Linked
    <3> QED
      BY <1>1, <3>1 DEF Apart
  <2>5. ServeH245(e, w, a, arrived) = HandleH245Message(e, w, a, arrived)
    BY <1>1, <1>2, ServeH245Cases
  <2>6. arrived \in OnWay(b)
    BY <2>2 DEF OnWay
  <2>7. Leads(F, A, e, p, a, HandleH245Message(e, w, a, arrived), Read245(b))
    BY <2>2, <2>3, <2>4, <2>6, H245Read
  <2> QED
    BY <1>2, <2>5, <2>7
<1>3. CASE ~(ServesH245(a, arrived) /\ arrived # Eof)
  <2>1. Routine(a, ServeH245(e, w, a, arrived))
    BY <1>1, <1>3, ServeH245Cases
  <2>2. Leads(F, A, e, p, a, ServeH245(e, w, a, arrived), b)
    BY <2>1, RoutineLeads
  <2> QED
    BY <1>3, <2>2
<1> QED
  BY <1>2, <1>3

-----------------------------------------------------------------------------
(* Connect.                                                                 *)
LEMMA StillUninvited ==
  ASSUME NEW e, NEW c \in Call, NEW d, ~Invites(c), MayStart(e, c, d) \/ Untunnels(c, d)
  PROVE  ~Invites(d)
<1>1. CASE Routine(c, d)
  BY <1>1, InvitesMoves DEF Routine, Sends
<1>2. CASE Starts(e, c, d)
  <2>1. \A m \in {NumberMsg(e, d.statusDeterminationNumber)} : m.type # "Setup"
    BY DEF NumberMsg
  <2> QED
    BY <1>2, <2>1, InvitesMoves DEF Starts
<1>3. CASE Untunnels(c, d)
  <2>1. In225(d) = In225(c)
    BY <1>3, SameFlowsRoles DEF Untunnels
  <2> QED
    BY <2>1 DEF Invites
<1> QED
  BY <1>1, <1>2, <1>3 DEF MayStart

LEMMA ConnectLeads ==
  ASSUME NEW F, NEW A, NEW e \in Endpoint, NEW p \in Endpoint, NEW a, NEW b, NEW d,
         NEW m, Good(F, A, e, p, a, b), p # e, e = Caller, ~Invites(a),
         m.tunneling <=> Has(b, "TUNNELING"), ConnectSteps(e, m, a, d)
  PROVE  Leads(F, A, e, p, a, d, b)
<1>1. PICK a1, c1, c2, c3 \in Call :
        /\ Routine(a, a1)
        /\ c1 = a1 \/ (Untunnels(a1, c1) /\ ~m.tunneling)
        /\ c2 = c1 \/ (MayStart(e, c1, c2) /\ Linked(c1))
        /\ c3 = c2 \/ (Untunnels(c2, c3) /\ ~m.tunneling)
        /\ d = c3 \/ (MayStart(e, c3, d) /\ Has(c3, "TUNNELING") /\ m.tunneling)
  BY DEF ConnectSteps
<1>2. a \in Call
  BY DEF Good
<1>3. Leads(F, A, e, p, a, a1, b) /\ Good(F, A, e, p, a1, b) /\ ~Invites(a1)
  BY <1>1, <1>2, RoutineLeads, StillUninvited DEF Leads, MayStart
<1>4. Leads(F, A, e, p, a1, c1, b) /\ Good(F, A, e, p, c1, b) /\ ~Invites(c1)
  <2>1. CASE c1 = a1
    BY <1>3, <2>1, LeadsNowhere
  <2>2. CASE Untunnels(a1, c1) /\ ~m.tunneling
    BY <1>1, <1>3, <2>2, UntunnelsLeads, StillUninvited DEF Leads
  <2> QED
    BY <1>1, <2>1, <2>2
<1>5. Leads(F, A, e, p, c1, c2, b) /\ Good(F, A, e, p, c2, b) /\ ~Invites(c2)
  <2>1. CASE c2 = c1
    BY <1>4, <2>1, LeadsNowhere
  <2>2. CASE MayStart(e, c1, c2) /\ Linked(c1)
    <3>1. LinkedStart(e, c1, c2)
      BY <2>2 DEF LinkedStart
    <3> QED
      BY <1>1, <1>4, <2>2, <3>1, LinkedStartLeads, StillUninvited DEF Leads
  <2> QED
    BY <1>1, <2>1, <2>2
<1>6. Leads(F, A, e, p, c2, c3, b) /\ Good(F, A, e, p, c3, b) /\ ~Invites(c3)
  <2>1. CASE c3 = c2
    BY <1>5, <2>1, LeadsNowhere
  <2>2. CASE Untunnels(c2, c3) /\ ~m.tunneling
    BY <1>1, <1>5, <2>2, UntunnelsLeads, StillUninvited DEF Leads
  <2> QED
    BY <1>1, <2>1, <2>2
<1>7. Leads(F, A, e, p, c3, d, b)
  <2>1. CASE d = c3
    BY <1>6, <2>1, LeadsNowhere
  <2>2. CASE MayStart(e, c3, d) /\ Has(c3, "TUNNELING") /\ m.tunneling
    BY <1>6, <2>2, MayStartLeads
  <2> QED
    BY <1>1, <2>1, <2>2
<1>8. Leads(F, A, e, p, a, c1, b)
  BY <1>2, <1>3, <1>4, LeadsOn
<1>9. Leads(F, A, e, p, a, c2, b)
  BY <1>2, <1>5, <1>8, LeadsOn
<1>10. Leads(F, A, e, p, a, c3, b)
  BY <1>2, <1>6, <1>9, LeadsOn
<1> QED
  BY <1>2, <1>7, <1>10, LeadsOn

-----------------------------------------------------------------------------
(* The messages of the H.225 connection.  The head of the connection of the *)
(* caller is the only place for Setup.                                      *)
LEMMA CallerRead ==
  ASSUME NEW asked, NEW x \in Call, NEW y, Setting(asked, x, y), x.h225Net # << >>
  PROVE  ~Invites(Read225(x))
<1> DEFINE d == Read225(x)
           m == Head(x.h225Net)
<1>1. m \in In225(x) /\ \A n \in In225(d) : n \in In225(x) /\ Before(x, m, n)
  BY ReadRoutine
<1> HIDE DEF d, m
<1>2. m \in OnWay(x)
  BY <1>1 DEF OnWay
<1>3. ~Invites(d)
  BY <1>1, <1>2 DEF Invites, Setting
<1> QED
  BY <1>3 DEF d

LEMMA SetupRead ==
  ASSUME NEW F, NEW A, NEW B, NEW e \in Endpoint, NEW p \in Endpoint, NEW a, NEW b0, NEW b,
         NEW m \in Message, NEW d, m.type = "Setup", m \in In225(b0), Good(F, A, e, p, a, b0),
         Routine(b0, b), ~Invites(b), p # e, e = Caller \/ p = Caller,
         Routine(a, d) \/ Rings(SetUp(a, m), d)
  PROVE  Leads(F \ {e}, B, e, p, a, d, b)
<1>1. Good(F, A, e, p, a, b)
  BY PeerRoutine
<1>2. p = Caller
  BY DEF Good, Setting
<1>3. Invites(b0)
  BY DEF Invites
<1>4. Unstarted(a) /\ Unstarted(b0) /\ a.pCallFwdData = "none"
  BY <1>2, <1>3 DEF Good, Setting
<1>5. Silent(b)
  <2>1. b0 \in Call /\ Silent(b0)
    BY <1>4 DEF Good, Unstarted
  <2> QED
    BY <2>1, SendsSilent, NoneAboutRoles DEF Routine
<1>6. Good(F \ {e}, B, e, p, a, b)
  <2>1. Forwards(F \ {e}, e, p, a, b) /\ Forwards(F \ {e}, p, e, b, a)
    BY <1>1, <1>4 DEF Good, Forwards
  <2>2. Setting(e \in B, b, a)
    BY <1>1, <1>2 DEF Good, Setting
  <2> QED
    BY <1>1, <1>2, <2>1, <2>2 DEF Good
<1>7. CASE Routine(a, d)
  BY <1>6, <1>7, RoutineLeads
<1>8. CASE Rings(SetUp(a, m), d)
  <2>1. Leads(F \ {e}, B, e, p, a, SetUp(a, m), b)
    BY <1>2, <1>4, <1>5, <1>6, SetUpLeads
  <2>2. Leads(F \ {e}, B, e, p, SetUp(a, m), d, b)
    BY <1>2, <1>8, <2>1, RingsLeads DEF Leads
  <2> QED
    BY <2>1, <2>2, LeadsOn DEF Good
<1> QED
  BY <1>7, <1>8

LEMMA MessageRead ==
  ASSUME NEW F, NEW A, NEW e \in Endpoint, NEW p \in Endpoint, NEW a, NEW b, NEW w \in World, NEW m,
         Good(F, A, e, p, a, b), p # e, e = Caller \/ p = Caller, b.h225Net # << >>,
         m = Head(b.h225Net), m.type # "Setup"
  PROVE  Leads(F, A, e, p, a, HandleH2250Message(e, w, a, m), Read225(b))
<1> DEFINE c == Read225(b)
           d == HandleH2250Message(e, w, a, m)
<1>1. a \in Call /\ b \in Call /\ Mode(b)
  BY DEF Good, Sound
<1>2. Routine(b, c) /\ m \in Message /\ m \in In225(b) /\ m \in OnWay(b)
  BY <1>1, ReadRoutine DEF OnWay
<1>3. m.type \in RoleType => Reads(b, m, c)
  BY <1>1, HeadReads
<1>4. p = Caller => ~Invites(c)
  BY <1>1, CallerRead DEF Good
<1> HIDE DEF c
<1>5. Good(F, A, e, p, a, c) /\ (Has(c, "TUNNELING") <=> Has(b, "TUNNELING"))
  BY <1>2, PeerRoutine
<1>6. CASE m.type \in {"CallProceeding", "Alerting"}
  <2>1. ~m.h245
    BY <1>2, <1>6 DEF Good, Setting
  <2>2. d = HandleProgress(a, m)
    BY <1>1, <1>2, <1>6, HandleH2250Cases
  <2>3. Routine(a, d)
    BY <1>1, <1>2, <1>6, <2>1, <2>2, HandleProgressRoutine
  <2>4. Leads(F, A, e, p, a, d, c)
    BY <1>5, <2>3, RoutineLeads
  <2> QED
    BY <2>4 DEF c
<1>7. CASE m.type = "Connect"
  <2>1. e = Caller /\ ~Invites(a) /\ (m.tunneling <=> Has(c, "TUNNELING"))
    BY <1>2, <1>5, <1>7 DEF Good, Setting, Unstarted
  <2>2. d = HandleConnect(e, w, a, m)
    BY <1>1, <1>2, <1>7, HandleH2250Cases
  <2>3. ConnectSteps(e, m, a, d)
    BY <1>1, <1>2, <1>7, <2>2, HandleConnectSteps
  <2> HIDE DEF d
  <2>4. Leads(F, A, e, p, a, d, c)
    BY <1>5, <2>1, <2>3, ConnectLeads
  <2> QED
    BY <2>4 DEF c, d
<1>8. CASE m.type = "ReleaseComplete"
  <2>1. d = HandleReleaseComplete(a)
    BY <1>1, <1>2, <1>8, HandleH2250Cases
  <2>2. Routine(a, d)
    BY <1>1, <2>1, HandleReleaseCompleteRoutine
  <2>3. Leads(F, A, e, p, a, d, c)
    BY <1>5, <2>2, RoutineLeads
  <2> QED
    BY <2>3 DEF c
<1>9. CASE m.type = "CallForwarded"
  <2>1. p \in F /\ b.pCallFwdData # "none" /\ c.pCallFwdData = b.pCallFwdData
    BY <1>2, <1>9 DEF Good, Forwards, Routine, Sends, Moves
  <2>2. d = HandleCallForwarded(a)
    BY <1>1, <1>2, <1>9, HandleH2250Cases
  <2>3. Leads(F, A, e, p, a, Noted(a, "byRemote"), c)
    BY <1>4, <1>5, <2>1, NotedLeads
  <2>4. Routine(Noted(a, "byRemote"), d)
    BY <1>1, <2>2, HandleCallForwardedRoutine
  <2>5. Leads(F, A, e, p, Noted(a, "byRemote"), d, c)
    BY <2>3, <2>4, RoutineLeads DEF Leads
  <2>6. Leads(F, A, e, p, a, d, c)
    BY <1>1, <2>3, <2>5, LeadsOn
  <2> QED
    BY <2>6 DEF c
<1>10. CASE m.type \notin {"CallProceeding", "Alerting", "Connect", "ReleaseComplete",
                           "CallForwarded"}
  <2>1. d = HandleTunneled(e, w, a, m)
    BY <1>1, <1>2, <1>10, HandleH2250Cases
  <2>2. CASE Has(a, "TUNNELING")
    <3>1. d = HandleH245Message(e, w, a, m)
      BY <2>1, <2>2 DEF HandleTunneled
    <3>2. Leads(F, A, e, p, a, HandleH245Message(e, w, a, m), c)
      BY <1>2, <1>3, H245Read
    <3> QED
      BY <3>1, <3>2 DEF c
  <2>3. CASE ~Has(a, "TUNNELING")
    <3>1. d = a
      BY <2>1, <2>3 DEF HandleTunneled
    <3>2. Leads(F, A, e, p, a, a, c)
      BY <1>5, LeadsNowhere
    <3> QED
      BY <3>1, <3>2 DEF c
  <2> QED
    BY <2>2, <2>3
<1> QED
  BY <1>6, <1>7, <1>8, <1>9, <1>10

LEMMA ArrivalTypes ==
  /\ Nothing.type \notin {"Setup", "eof"} /\ Eof.type \notin {"Setup", "nothing"}
  /\ \A m \in Message : m # Nothing /\ m # Eof
<1>1. Nothing.type = "nothing" /\ Eof.type = "eof"
  BY DEF Nothing, Eof
<1>2. \A m \in Message : m.type \notin {"nothing", "eof"}
  BY DEF Message, Plain, ChanMsg
<1> QED
  BY <1>1, <1>2

LEMMA ServeH225Leads ==
  ASSUME NEW F, NEW A, NEW B, NEW e \in Endpoint, NEW p \in Endpoint, NEW a, NEW b, NEW w \in World,
         NEW arrived \in Arrival, Good(F, A, e, p, a, b), p # e, e = Caller \/ p = Caller,
         arrived \notin {Nothing, Eof} => b.h225Net # << >> /\ arrived = Head(b.h225Net)
  PROVE  LET c == IF arrived \notin {Nothing, Eof} THEN Read225(b) ELSE b
             d == ServeH225(e, w, a, arrived)
         IN  IF arrived.type = "Setup" THEN Leads(F \ {e}, B, e, p, a, d, c)
             ELSE Leads(F, A, e, p, a, d, c)
<1> DEFINE d == ServeH225(e, w, a, arrived)
<1>1. a \in Call /\ b \in Call
  BY DEF Good
<1>2. Routine(a, d) \/ (arrived \in Message /\ d = HandleH2250Message(e, w, a, arrived))
  BY <1>1, ServeH225Cases
<1>3. CASE arrived \in {Nothing, Eof}
  <2>1. arrived.type # "Setup"
    BY <1>3, ArrivalTypes
  <2>2. Routine(a, d)
    BY <1>2, <1>3, ArrivalTypes
  <2>3. Leads(F, A, e, p, a, d, b)
    BY <2>2, RoutineLeads
  <2> QED
    BY <1>3, <2>1, <2>3
<1>4. CASE arrived \notin {Nothing, Eof}
  <2> DEFINE c == Read225(b)
  <2>1. b.h225Net # << >> /\ arrived = Head(b.h225Net)
    BY <1>4
  <2>2. Routine(b, c) /\ arrived \in Message /\ arrived \in In225(b)
    BY <1>1, <2>1, ReadRoutine
  <2>3. CASE arrived.type = "Setup"
    <3>1. p = Caller
      BY <2>2, <2>3 DEF Good, Setting
    <3>2. ~Invites(c)
      BY <1>1, <2>1, <3>1, CallerRead DEF Good
    <3>3. Routine(a, d) \/ Rings(SetUp(a, arrived), d)
      <4>1. CASE Routine(a, d)
        BY <4>1
      <4>2. CASE d = HandleH2250Message(e, w, a, arrived)
        <5>1. d = HandleSetup(e, a, arrived)
          BY <1>1, <2>2, <2>3, <4>2, HandleH2250Cases
        <5>2. Rings(SetUp(a, arrived), HandleSetup(e, a, arrived))
          BY <1>1, <2>2, <2>3, HandleSetupRings
        <5> QED
          BY <5>1, <5>2
      <4> QED
        BY <1>2, <4>1, <4>2
    <3> HIDE DEF c, d
    <3>4. Leads(F \ {e}, B, e, p, a, d, c)
      BY <2>2, <2>3, <3>2, <3>3, SetupRead
    <3> QED
      BY <1>4, <2>3, <3>4 DEF c, d
  <2>4. CASE arrived.type # "Setup"
    <3>1. CASE Routine(a, d)
      <4>1. Good(F, A, e, p, a, c)
        BY <2>2, PeerRoutine
      <4>2. Leads(F, A, e, p, a, d, c)
        BY <3>1, <4>1, RoutineLeads
      <4> QED
        BY <1>4, <2>4, <4>2
    <3>2. CASE d = HandleH2250Message(e, w, a, arrived)
      <4>1. Leads(F, A, e, p, a, HandleH2250Message(e, w, a, arrived), c)
        BY <2>1, <2>4, MessageRead
      <4> QED
        BY <1>4, <2>4, <3>2, <4>1
    <3> QED
      BY <1>2, <3>1, <3>2
  <2> QED
    BY <2>3, <2>4
<1> QED
  BY <1>3, <1>4

(* A whole pass: b3 is what is left of the peer's call.                     *)
Left225(b, ready) == IF ready.h225 \notin {Nothing, Eof} THEN Read225(b) ELSE b
Left245(b, before, ready) ==
  IF ServesH245(before, ready.h245) /\ ready.h245 # Eof THEN Read245(b) ELSE b

LEMMA PassLeads ==
  ASSUME NEW F, NEW A, NEW B, NEW e \in Endpoint, NEW p \in Endpoint, NEW a, NEW b, NEW w \in World,
         NEW ready, Good(F, A, e, p, a, b), p # e, e = Caller \/ p = Caller,
         ready.expired \in SUBSET a.timers, ready.h225 \in Arrival, ready.h245 \in Arrival,
         ready.h225 \notin {Nothing, Eof} => b.h225Net # << >> /\ ready.h225 = Head(b.h225Net),
         ready.h245 \notin {Nothing, Eof} => b.h245Net # << >> /\ ready.h245 = Head(b.h245Net)
  PROVE  LET c == Left245(Left225(b, ready), AfterH225(e, w, a, ready), ready)
             d == PassOver(e, w, a, ready)
         IN  IF ready.h225.type = "Setup" THEN Leads(F \ {e}, B, e, p, a, d, c)
             ELSE Leads(F, A, e, p, a, d, c)
<1> DEFINE a1 == AfterTimers(e, w, a, ready)
           a2 == AfterH225(e, w, a, ready)
           a3 == AfterH245(e, w, a, ready)
           a4 == WriteH245(e, w, a, a3, ready.listener)
           a5 == AfterWrites(e, w, a, ready)
           d  == PassOver(e, w, a, ready)
           b2 == Left225(b, ready)
           b3 == Left245(b2, a2, ready)
           G  == IF ready.h225.type = "Setup" THEN F \ {e} ELSE F
           C  == IF ready.h225.type = "Setup" THEN B ELSE A
<1>1. a \in Call /\ b \in Call
  BY DEF Good
<1>2. Leads(F, A, e, p, a, a1, b) /\ Good(F, A, e, p, a1, b) /\ a1 \in Call
  <2>1. LinkedStart(e, a, a1)
    BY <1>1, FireExpiredStarts DEF AfterTimers
  <2> HIDE DEF a1
  <2>2. Leads(F, A, e, p, a, a1, b)
    BY <2>1, LinkedStartLeads
  <2> QED
    BY <2>2 DEF Leads, Good
<1>3. Leads(G, C, e, p, a1, a2, b2) /\ Good(G, C, e, p, a2, b2) /\ a2 \in Call /\ b2 \in Call
  <2>1. a2 = ServeH225(e, w, a1, ready.h225)
    BY DEF AfterH225
  <2> HIDE DEF a1
  <2>2. IF ready.h225.type = "Setup"
        THEN Leads(F \ {e}, B, e, p, a1, ServeH225(e, w, a1, ready.h225), b2)
        ELSE Leads(F, A, e, p, a1, ServeH225(e, w, a1, ready.h225), b2)
    BY <1>2, ServeH225Leads DEF Left225
  <2> HIDE DEF a2, b2
  <2>3. Leads(G, C, e, p, a1, a2, b2)
    BY <2>1, <2>2
  <2> QED
    BY <2>3 DEF Leads, Good
<1>4. b2.h245Net = b.h245Net
  BY <1>1 DEF Left225, Read225, Call
<1>5. Leads(G, C, e, p, a2, a3, b3) /\ Good(G, C, e, p, a3, b3) /\ a3 \in Call
  <2>1. a3 = ServeH245(e, w, a2, ready.h245)
    BY DEF AfterH245
  <2> HIDE DEF a2, b2, G, C
  <2>2. Leads(G, C, e, p, a2, ServeH245(e, w, a2, ready.h245), b3)
    BY <1>3, <1>4, ServeH245Leads DEF Left245
  <2> HIDE DEF a3, b3
  <2> QED
    BY <2>1, <2>2 DEF Leads, Good
<1>6. LinkedStart(e, a3, a4)
  BY <1>1, <1>5, WritesStart
<1>7. a5 = WriteH225(w, a, a4) /\ d = EndOfPass(w, a5)
  BY DEF AfterWrites, PassOver
<1> HIDE DEF a1, a2, a3, a4, a5, b2, b3, d, G, C
<1>8. Leads(G, C, e, p, a3, a4, b3) /\ Good(G, C, e, p, a4, b3) /\ a4 \in Call
  <2>1. Leads(G, C, e, p, a3, a4, b3)
    BY <1>5, <1>6, LinkedStartLeads
  <2> QED
    BY <2>1 DEF Leads, Good
<1>9. Leads(G, C, e, p, a4, a5, b3) /\ Good(G, C, e, p, a5, b3) /\ a5 \in Call
  <2>1. Routine(a4, a5)
    BY <1>1, <1>7, <1>8, WritesStart
  <2>2. Leads(G, C, e, p, a4, a5, b3)
    BY <1>8, <2>1, RoutineLeads
  <2> QED
    BY <2>2 DEF Leads, Good
<1>10. Leads(G, C, e, p, a5, d, b3)
  <2>1. Routine(a5, d)
    BY <1>1, <1>7, <1>9, WritesStart
  <2> QED
    BY <1>9, <2>1, RoutineLeads
<1>11. d.callState >= a.callState
  <2>1. /\ a.callState \in Nat /\ a1.callState \in Nat /\ a2.callState \in Nat
        /\ a3.callState \in Nat /\ a4.callState \in Nat /\ a5.callState \in Nat
    BY <1>1, <1>2, <1>3, <1>5, <1>8, <1>9, StateValues DEF Call
  <2>2. d \in Call
    BY <1>10 DEF Leads, Good
  <2>3. d.callState \in Nat
    BY <2>2, StateValues DEF Call
  <2> QED
    BY <1>2, <1>3, <1>5, <1>8, <1>9, <1>10, <2>1, <2>3 DEF Leads
<1>12. Leads(G, C, e, p, a, d, b3)
  BY <1>10, <1>11 DEF Leads
<1> QED
  BY <1>12 DEF G, C, d, b3, b2, a2

-----------------------------------------------------------------------------
(* The invariant of the session, and that it is one.                        *)

(* The ends whose users have asked to forward the call, and those whose     *)
(* users can ask for something.                                             *)
Forwarders == {e \in Endpoint : "forward" \in scenario.asks[e] \ commands[e]}
Askers     == {e \in Endpoint : commands[e] # {}}

GoodAt(e) == Good(Forwarders, Askers, e, Peer(e), call[e], call[Peer(e)])

IInv ==
  /\ TypeOK
  /\ \A e \in Endpoint : commands[e] \subseteq scenario.asks[e]
  /\ \A e \in Endpoint : GoodAt(e)

LEMMA Peers ==
  ASSUME NEW e \in Endpoint
  PROVE  /\ Peer(e) \in Endpoint /\ Peer(e) # e /\ Peer(Peer(e)) = e
         /\ \A q \in Endpoint : q = e \/ q = Peer(e)
         /\ e = Caller \/ Peer(e) = Caller
         /\ Caller \in Endpoint
<1>1. PICK called \in Endpoint : called # Caller /\ Endpoint = {Caller, called}
  BY SessionAssumption
<1>2. ASSUME NEW q \in Endpoint
      PROVE  Peer(q) \in Endpoint /\ Peer(q) # q
  BY <1>1 DEF Peer
<1>3. Peer(e) \in Endpoint /\ Peer(e) # e
  BY <1>2
<1>4. Peer(Peer(e)) \in Endpoint /\ Peer(Peer(e)) # Peer(e)
  BY <1>2, <1>3
<1> QED
  BY <1>1, <1>3, <1>4

LEMMA ScenarioType ==
  ASSUME scenario \in Scenarios, NEW e \in Endpoint
  PROVE  /\ scenario.ep[e] \in SUBSET EpFlag /\ scenario.asks[e] \in SUBSET UserCommand
         /\ scenario.opts \in SUBSET {"TUNNELING", "FASTSTART"}
         /\ "ring" \notin scenario.asks[Caller] /\ "answer" \notin scenario.asks[Caller]
<1>1. scenario \in Scenario /\ scenario.asks[Caller] \cap {"ring", "answer"} = {}
  BY SessionAssumption
<1> QED
  BY <1>1 DEF Scenario

(* Setup is all that is on its way.                                         *)
LEMMA FreshGood ==
  ASSUME NEW F, NEW A, NEW p \in Endpoint, NEW x, NEW y, NEW m, p # Caller, p \notin A,
         Fresh(x), Fresh(y), m.type = "Setup", Sent225(x) = << m >>, Sent245(x) = << >>,
         Sent225(y) = << >>, Sent245(y) = << >>
  PROVE  Good(F, A, Caller, p, x, y)
<1>1. x \in Call /\ y \in Call
  BY DEF Fresh
<1>2. /\ In225(x) = {m} /\ In245(x) = {} /\ OnWay(x) = {m}
      /\ In225(y) = {} /\ In245(y) = {} /\ OnWay(y) = {}
  <2>1. In225(x) = {m} /\ In245(x) = {} /\ In225(y) = {} /\ In245(y) = {}
    BY DEF In225, In245
  <2> QED
    BY <2>1 DEF OnWay
<1>3. \A q, r : ~Before(x, q, r)
  BY DEF Before, Ordered
<1>4. Silent(x) /\ Silent(y)
  BY <1>2 DEF Silent, Fresh, RoleType
<1>5. Roles(Caller, p, x, y)
  <2>1. HalfRoles(Caller, p, x, y)
    BY <1>2, <1>3 DEF Fresh, HalfRoles, Numbered, Single, Acks, Agree, Unread, Woken,
                      Rejects, Differ, Numbers, Refuses, RoleDecided
  <2>2. HalfRoles(p, Caller, y, x)
    BY <1>2 DEF Fresh, HalfRoles, Numbered, Single, Acks, Agree, Unread, Woken, Rejects,
                Differ, Numbers, Refuses, RoleDecided
  <2> QED
    BY <2>1, <2>2 DEF Roles
<1>6. Sound(x) /\ Sound(y)
  BY <1>2 DEF Fresh, Sound, Mode, Apart, Caps, RoleType
<1>7. Setting(p \in A, x, y)
  BY <1>2, <1>3, <1>4 DEF Setting, Unstarted, Fresh
<1>8. Forwards(F, Caller, p, x, y) /\ Forwards(F, p, Caller, y, x)
  BY <1>2 DEF Forwards, Fresh
<1> QED
  BY <1>1, <1>5, <1>6, <1>7, <1>8 DEF Good

LEMMA InitialIInv ==
  ASSUME Init
  PROVE  IInv
<1>1. /\ Caller \in Endpoint /\ Peer(Caller) \in Endpoint /\ Peer(Caller) # Caller
      /\ Peer(Peer(Caller)) = Caller /\ \A q \in Endpoint : q = Caller \/ q = Peer(Caller)
  BY Peers, SessionAssumption
<1> DEFINE p == Peer(Caller)
           x == MakeCall(Caller, scenario.ep[Caller], scenario.opts)
           y == NewCall(FALSE, scenario.ep[p])
<1>2. scenario \in Scenarios
  BY DEF Init
<1>3. call[Caller] = x /\ call[p] = y /\ \A e \in Endpoint : call[e] = x \/ call[e] = y
  BY <1>1 DEF Init
<1>4. commands[p] = {} /\ \A e \in Endpoint : commands[e] = {} \/ commands[e] = scenario.asks[e]
  BY <1>1 DEF Init
<1>5. Fresh(x) /\ Sent245(x) = << >> /\ \E m \in Message : m.type = "Setup" /\ Sent225(x) = << m >>
  BY <1>1, <1>2, ScenarioType, MakeCallFresh
<1>6. Fresh(y) /\ Sent225(y) = << >> /\ Sent245(y) = << >>
  <2>1. scenario.ep[p] \in SUBSET EpFlag
    BY <1>1, <1>2, ScenarioType
  <2> QED
    BY <2>1, NewCallFresh
<1> HIDE DEF x, y
<1>7. TypeOK
  <2>1. call \in [Endpoint -> Call]
    BY <1>3, <1>5, <1>6 DEF Init, Fresh
  <2>2. commands \in [Endpoint -> SUBSET UserCommand]
    BY <1>2, <1>4, ScenarioType DEF Init
  <2> QED
    BY <1>2, <2>1, <2>2 DEF TypeOK
<1>8. GoodAt(Caller)
  <2>1. p \notin Askers
    BY <1>4 DEF Askers
  <2> HIDE DEF p
  <2>2. Good(Forwarders, Askers, Caller, p, x, y)
    BY <1>1, <1>5, <1>6, <2>1, FreshGood DEF p
  <2> QED
    BY <1>3, <2>2 DEF GoodAt, p
<1>9. GoodAt(p)
  BY <1>1, <1>8, GoodSymmetric DEF GoodAt
<1> QED
  BY <1>1, <1>4, <1>7, <1>8, <1>9 DEF IInv

LEMMA GoodMore ==
  ASSUME NEW F, NEW A, NEW G, NEW C, NEW e, NEW p, NEW a, NEW b, Good(F, A, e, p, a, b),
         F \subseteq G, C \subseteq A
  PROVE  Good(G, C, e, p, a, b)
  BY DEF Good, Setting, Forwards

Advance == \A e \in Endpoint : call'[e].callState >= call[e].callState

(* A step of one end, which takes something from the peer or nothing.       *)
LEMMA StepKeeps ==
  ASSUME IInv, NEW e \in Endpoint, NEW d, NEW c, call' = [call EXCEPT ![e] = d, ![Peer(e)] = c],
         Leads(Forwarders', Askers', e, Peer(e), call[e], d, c),
         c.callState = call[Peer(e)].callState, UNCHANGED scenario,
         commands' \in [Endpoint -> SUBSET UserCommand],
         \A q \in Endpoint : commands'[q] \subseteq scenario.asks[q]
  PROVE  IInv' /\ Advance
<1> DEFINE p == Peer(e)
<1>1. /\ p \in Endpoint /\ p # e /\ Peer(p) = e /\ \A q \in Endpoint : q = e \/ q = p
  BY Peers
<1>2. call \in [Endpoint -> Call] /\ scenario \in Scenarios
  BY DEF IInv, TypeOK
<1> HIDE DEF p
<1>3. call'[e] = d /\ call'[p] = c
  BY <1>1, <1>2 DEF p
<1>4. Good(Forwarders', Askers', e, p, d, c) /\ d.callState >= call[e].callState
  BY DEF Leads, p
<1>5. Good(Forwarders', Askers', p, e, c, d)
  BY <1>4, GoodSymmetric
<1>6. GoodAt(e)' /\ GoodAt(p)'
  BY <1>1, <1>3, <1>4, <1>5 DEF GoodAt, p
<1>7. call' \in [Endpoint -> Call]
  <2>1. d \in Call /\ c \in Call
    BY <1>4 DEF Good
  <2> QED
    BY <1>2, <2>1
<1>8. Advance
  <2>1. call[p].callState \in Nat
    BY <1>1, <1>2, StateValues DEF Call
  <2> QED
    BY <1>1, <1>3, <1>4, <2>1 DEF Advance, p
<1>9. \A q \in Endpoint : GoodAt(q)'
  BY <1>1, <1>6
<1>10. TypeOK'
  BY <1>2, <1>7 DEF TypeOK
<1> QED
  BY <1>8, <1>9, <1>10 DEF IInv

LEMMA ArrivedRange ==
  ASSUME NEW mySock, NEW myNet, NEW net \in Seq(Message), NEW gone,
         NEW arrived \in Arrived(mySock, myNet, net, gone)
  PROVE  /\ arrived \in Arrival
         /\ arrived \notin {Nothing, Eof} => net # << >> /\ arrived = Head(net)
<1>1. net # << >> => Head(net) \in Message
  BY HeadOfQueue
<1> QED
  BY <1>1 DEF Arrived, Arrival

LEMMA ReadyRange ==
  ASSUME NEW e \in Endpoint, call \in [Endpoint -> Call], NEW ready \in ReadyAt(e),
         NEW w \in WorldsAt(e)
  PROVE  /\ w \in World
         /\ ready.expired \in SUBSET call[e].timers
         /\ ready.h225 \in Arrival /\ ready.h245 \in Arrival
         /\ ready.h225 \notin {Nothing, Eof} =>
              call[Peer(e)].h225Net # << >> /\ ready.h225 = Head(call[Peer(e)].h225Net)
         /\ ready.h245 \notin {Nothing, Eof} =>
              call[Peer(e)].h245Net # << >> /\ ready.h245 = Head(call[Peer(e)].h245Net)
<1> DEFINE p == Peer(e)
<1>1. p \in Endpoint /\ call[p] \in Call /\ call[e] \in Call
  BY Peers
<1>2. call[p].h225Net \in Seq(Message) /\ call[p].h245Net \in Seq(Message)
  BY <1>1 DEF Call
<1>3. w \in World
  BY SessionAssumption DEF WorldsAt, World, SendOutcome, ConnectOutcome
<1>4. ready.expired \in Expired(e) /\ ready.h225 \in ArrivedH225(e) /\ ready.h245 \in ArrivedH245(e)
  BY DEF ReadyAt
<1>5. ready.expired \in SUBSET call[e].timers
  BY <1>4 DEF Expired
<1>6. /\ ready.h225 \in Arrival
      /\ ready.h225 \notin {Nothing, Eof} =>
           call[p].h225Net # << >> /\ ready.h225 = Head(call[p].h225Net)
  BY <1>2, <1>4, ArrivedRange DEF ArrivedH225
<1>7. /\ ready.h245 \in Arrival
      /\ ready.h245 \notin {Nothing, Eof} =>
           call[p].h245Net # << >> /\ ready.h245 = Head(call[p].h245Net)
  BY <1>2, <1>4, ArrivedRange DEF ArrivedH245
<1> QED
  BY <1>3, <1>5, <1>6, <1>7

(* What the peer has left after a pass.                                     *)
LEMMA LeftFields ==
  ASSUME NEW b \in Call, NEW ready, NEW before
  PROVE  LET read225 == ready.h225 \notin {Nothing, Eof}
             read245 == ServesH245(before, ready.h245) /\ ready.h245 # Eof
             c       == Left245(Left225(b, ready), before, ready)
         IN  /\ c = [b EXCEPT !.h225Net = IF read225 THEN Tail(@) ELSE @,
                              !.h245Net = IF read245 THEN Tail(@) ELSE @]
             /\ c.callState = b.callState
<1> DEFINE read225 == ready.h225 \notin {Nothing, Eof}
           read245 == ServesH245(before, ready.h245) /\ ready.h245 # Eof
           c       == Left245(Left225(b, ready), before, ready)
<1>1. /\ Left225(b, ready) = IF read225 THEN Read225(b) ELSE b
      /\ c = IF read245 THEN Read245(Left225(b, ready)) ELSE Left225(b, ready)
  BY DEF Left225, Left245
<1> HIDE DEF read225, read245, c
<1>2. c = [b EXCEPT !.h225Net = IF read225 THEN Tail(@) ELSE @,
                    !.h245Net = IF read245 THEN Tail(@) ELSE @]
  <2>1. CASE read225 /\ read245
    BY <1>1, <2>1 DEF Call, Read225, Read245
  <2>2. CASE read225 /\ ~read245
    BY <1>1, <2>2 DEF Call, Read225
  <2>3. CASE ~read225 /\ read245
    BY <1>1, <2>3 DEF Call, Read245
  <2>4. CASE ~read225 /\ ~read245
    BY <1>1, <2>4 DEF Call
  <2> QED
    BY <2>1, <2>2, <2>3, <2>4
<1>3. c.callState = b.callState
  BY <1>2 DEF Call
<1> QED
  BY <1>2, <1>3 DEF c, read225, read245

LEMMA PassCall ==
  ASSUME NEW e \in Endpoint, call \in [Endpoint -> Call], NEW ready, NEW w
  PROVE  LET p == Peer(e)
             c == Left245(Left225(call[p], ready), AfterH225(e, w, call[e], ready), ready)
         IN  /\ AfterPass(e, ready, w)
                  = [call EXCEPT ![e] = PassOver(e, w, call[e], ready), ![p] = c]
             /\ c.callState = call[p].callState
<1> DEFINE p == Peer(e)
           before == AfterH225(e, w, call[e], ready)
           d == PassOver(e, w, call[e], ready)
           read225 == ready.h225 \notin {Nothing, Eof}
           read245 == ServesH245(before, ready.h245) /\ ready.h245 # Eof
           c == Left245(Left225(call[p], ready), before, ready)
<1>1. p \in Endpoint /\ p # e /\ call[p] \in Call
  BY Peers
<1>2. /\ c = [call[p] EXCEPT !.h225Net = IF read225 THEN Tail(@) ELSE @,
                             !.h245Net = IF read245 THEN Tail(@) ELSE @]
      /\ c.callState = call[p].callState
  BY <1>1, LeftFields
<1>3. AfterPass(e, ready, w)
        = [call EXCEPT ![e] = d, ![p].h225Net = IF read225 THEN Tail(@) ELSE @,
                       ![p].h245Net = IF read245 THEN Tail(@) ELSE @]
  BY DEF AfterPass
<1> HIDE DEF p, d, read225, read245, c, before
<1>4. AfterPass(e, ready, w) = [call EXCEPT ![e] = d, ![p] = c]
  BY <1>1, <1>2, <1>3
<1> QED
  BY <1>2, <1>4 DEF p, d, c, before

LEMMA PassKeeps ==
  ASSUME IInv, NEW e \in Endpoint, Pass(e)
  PROVE  IInv' /\ Advance
<1> DEFINE p == Peer(e)
<1>1. call \in [Endpoint -> Call] /\ commands \in [Endpoint -> SUBSET UserCommand]
      /\ scenario \in Scenarios
  BY DEF IInv, TypeOK
<1>2. PICK ready \in ReadyAt(e), w \in WorldsAt(e) :
        /\ call' = AfterPass(e, ready, w)
        /\ commands' = IF ready.h225.type = "Setup"
                       THEN [commands EXCEPT ![e] = scenario.asks[e]] ELSE commands
  BY DEF Pass
<1>3. p \in Endpoint /\ p # e /\ (e = Caller \/ p = Caller) /\ Peer(p) = e
  BY Peers
<1>4. Good(Forwarders, Askers, e, p, call[e], call[p])
  BY DEF IInv, GoodAt
<1> DEFINE c == Left245(Left225(call[p], ready), AfterH225(e, w, call[e], ready), ready)
           d == PassOver(e, w, call[e], ready)
<1>5. /\ call' = [call EXCEPT ![e] = d, ![p] = c]
      /\ c.callState = call[p].callState
  BY <1>1, <1>2, PassCall
<1>6. /\ w \in World
      /\ ready.expired \in SUBSET call[e].timers
      /\ ready.h225 \in Arrival /\ ready.h245 \in Arrival
      /\ ready.h225 \notin {Nothing, Eof} =>
           call[p].h225Net # << >> /\ ready.h225 = Head(call[p].h225Net)
      /\ ready.h245 \notin {Nothing, Eof} =>
           call[p].h245Net # << >> /\ ready.h245 = Head(call[p].h245Net)
  BY <1>1, ReadyRange
<1>7. \A B : IF ready.h225.type = "Setup" THEN Leads(Forwarders \ {e}, B, e, p, call[e], d, c)
             ELSE Leads(Forwarders, Askers, e, p, call[e], d, c)
  BY <1>3, <1>4, <1>6, PassLeads
<1>8. UNCHANGED scenario
  BY DEF Pass
<1>9. scenario.asks[e] \in SUBSET UserCommand
  BY <1>1, ScenarioType
<1> HIDE DEF c, d
<1>10. Leads(Forwarders', Askers', e, p, call[e], d, c)
  <2>1. CASE ready.h225.type = "Setup"
    <3>1. commands' = [commands EXCEPT ![e] = scenario.asks[e]]
      BY <1>2, <2>1
    <3>2. Forwarders' = Forwarders \ {e}
      BY <1>1, <1>8, <3>1 DEF Forwarders
    <3> QED
      BY <1>7, <2>1, <3>2
  <2>2. CASE ready.h225.type # "Setup"
    <3>1. Forwarders' = Forwarders /\ Askers' = Askers
      BY <1>2, <1>8, <2>2 DEF Forwarders, Askers
    <3> QED
      BY <1>7, <2>2, <3>1
  <2> QED
    BY <2>1, <2>2
<1>11. /\ commands' \in [Endpoint -> SUBSET UserCommand]
       /\ \A q \in Endpoint : commands'[q] \subseteq scenario.asks[q]
  BY <1>1, <1>2, <1>9 DEF IInv
<1> QED
  BY <1>5, <1>8, <1>10, <1>11, StepKeeps

(* What holds when the user of e asks for something.                        *)
LEMMA AsksGood ==
  ASSUME IInv, NEW e \in Endpoint, NEW command, Asks(e, command)
  PROVE  /\ call[e] \in Call /\ command \in scenario.asks[e]
         /\ Good(Forwarders', Askers', e, Peer(e), call[e], call[Peer(e)])
         /\ Peer(e) = Caller => ~Invites(call[Peer(e)])
         /\ UNCHANGED scenario /\ commands' \in [Endpoint -> SUBSET UserCommand]
         /\ \A q \in Endpoint : commands'[q] \subseteq scenario.asks[q]
         /\ command = "forward" => e \in Forwarders'
<1> DEFINE p == Peer(e)
<1>1. call \in [Endpoint -> Call] /\ commands \in [Endpoint -> SUBSET UserCommand]
      /\ \A q \in Endpoint : commands[q] \subseteq scenario.asks[q]
  BY DEF IInv, TypeOK
<1>2. /\ command \in commands[e] /\ commands' = [commands EXCEPT ![e] = @ \ {command}]
      /\ UNCHANGED scenario
  BY DEF Asks
<1>3. Good(Forwarders, Askers, e, p, call[e], call[p])
  BY DEF IInv, GoodAt
<1>4. Forwarders \subseteq Forwarders' /\ Askers' \subseteq Askers
  BY <1>1, <1>2 DEF Forwarders, Askers
<1>5. Good(Forwarders', Askers', e, p, call[e], call[p])
  BY <1>3, <1>4, GoodMore
<1>6. p = Caller => ~Invites(call[p])
  <2>1. e \in Askers
    BY <1>1, <1>2 DEF Askers
  <2> QED
    BY <1>3, <2>1 DEF Good, Setting
<1>7. /\ commands' \in [Endpoint -> SUBSET UserCommand]
      /\ \A q \in Endpoint : commands'[q] \subseteq scenario.asks[q]
  BY <1>1, <1>2
<1>8. command = "forward" => e \in Forwarders'
  BY <1>1, <1>2 DEF Forwarders
<1> QED
  BY <1>1, <1>2, <1>5, <1>6, <1>7, <1>8

LEMMA CommandKeeps ==
  ASSUME IInv, NEW e \in Endpoint, NEW command, Asks(e, command), NEW d,
         call' = [call EXCEPT ![e] = d],
         Leads(Forwarders', Askers', e, Peer(e), call[e], d, call[Peer(e)])
  PROVE  IInv' /\ Advance
<1>1. call \in [Endpoint -> Call] /\ Peer(e) \in Endpoint /\ Peer(e) # e
  BY Peers DEF IInv, TypeOK
<1>2. call' = [call EXCEPT ![e] = d, ![Peer(e)] = call[Peer(e)]]
  BY <1>1
<1> QED
  BY <1>2, AsksGood, StepKeeps

LEMMA UserKeeps ==
  ASSUME IInv, NEW e \in Endpoint, Ring(e) \/ Answer(e) \/ Forward(e) \/ HangUp(e)
  PROVE  IInv' /\ Advance
<1>1. /\ Peer(e) \in Endpoint /\ Peer(e) # e /\ scenario \in Scenarios
      /\ call \in [Endpoint -> Call]
  BY Peers DEF IInv, TypeOK
<1>2. "ring" \notin scenario.asks[Caller] /\ "answer" \notin scenario.asks[Caller]
  BY <1>1, ScenarioType
<1>3. CASE Ring(e)
  <2>1. Asks(e, "ring") /\ call' = [call EXCEPT ![e] = RingAndAnswer(e, call[e])]
    BY <1>1, <1>3 DEF Ring
  <2>2. e # Caller
    BY <1>2, <2>1, AsksGood
  <2>3. call[e] \in Call
    BY <1>1
  <2>4. Rings(call[e], RingAndAnswer(e, call[e]))
    BY <2>3, RingAndAnswerRings
  <2>5. Good(Forwarders', Askers', e, Peer(e), call[e], call[Peer(e)])
        /\ (Peer(e) = Caller => ~Invites(call[Peer(e)]))
    BY <2>1, AsksGood
  <2>6. Leads(Forwarders', Askers', e, Peer(e), call[e], RingAndAnswer(e, call[e]), call[Peer(e)])
    BY <1>1, <2>2, <2>4, <2>5, RingsLeads
  <2> QED
    BY <2>1, <2>6, CommandKeeps
<1>4. CASE Answer(e)
  <2>1. Asks(e, "answer") /\ call' = [call EXCEPT ![e] = AcceptCall(e, call[e])]
    BY <1>1, <1>4 DEF Answer
  <2>2. e # Caller
    BY <1>2, <2>1, AsksGood
  <2>3. call[e] \in Call
    BY <1>1
  <2>4. Rings(call[e], AcceptCall(e, call[e]))
    BY <2>3, AcceptCallRings
  <2>5. Good(Forwarders', Askers', e, Peer(e), call[e], call[Peer(e)])
        /\ (Peer(e) = Caller => ~Invites(call[Peer(e)]))
    BY <2>1, AsksGood
  <2>6. Leads(Forwarders', Askers', e, Peer(e), call[e], AcceptCall(e, call[e]), call[Peer(e)])
    BY <1>1, <2>2, <2>4, <2>5, RingsLeads
  <2> QED
    BY <2>1, <2>6, CommandKeeps
<1>5. CASE Forward(e)
  <2>1. Asks(e, "forward") /\ call' = [call EXCEPT ![e] = ForwardCall(call[e])]
    BY <1>1, <1>5 DEF Forward
  <2>2. /\ Good(Forwarders', Askers', e, Peer(e), call[e], call[Peer(e)])
        /\ Peer(e) = Caller => ~Invites(call[Peer(e)])
        /\ e \in Forwarders'
    BY <2>1, AsksGood
  <2>3. Leads(Forwarders', Askers', e, Peer(e), call[e], ForwardCall(call[e]), call[Peer(e)])
    BY <1>1, <2>2, ForwardCallLeads
  <2> QED
    BY <2>1, <2>3, CommandKeeps
<1>6. CASE HangUp(e)
  <2>1. Asks(e, "hangup") /\ call' = [call EXCEPT ![e] = MarkClear(call[e])]
    BY <1>1, <1>6 DEF HangUp
  <2>2. Routine(call[e], MarkClear(call[e]))
    BY <1>1, MarkClearRoutine
  <2>3. Good(Forwarders', Askers', e, Peer(e), call[e], call[Peer(e)])
    BY <2>1, AsksGood
  <2>4. Leads(Forwarders', Askers', e, Peer(e), call[e], MarkClear(call[e]), call[Peer(e)])
    BY <1>1, <2>2, <2>3, RoutineLeads
  <2> QED
    BY <2>1, <2>4, CommandKeeps
<1> QED
  BY <1>3, <1>4, <1>5, <1>6

LEMMA NextKeeps ==
  ASSUME IInv, [Next]_vars
  PROVE  IInv' /\ Advance
<1>1. CASE UNCHANGED vars
  <2>1. /\ scenario' = scenario /\ call' = call /\ commands' = commands
    BY <1>1 DEF vars
  <2>2. IInv'
    BY <2>1 DEF IInv, TypeOK, GoodAt, Forwarders, Askers
  <2>3. \A e \in Endpoint : call[e].callState \in Nat
    BY StateValues DEF IInv, TypeOK, Call
  <2> QED
    BY <2>1, <2>2, <2>3 DEF Advance
<1>2. CASE Next
  BY <1>1, <1>2, PassKeeps, UserKeeps DEF Next, Rest
<1> QED
  BY <1>1, <1>2

LEMMA IInvAlways == Spec => []IInv
  BY InitialIInv, NextKeeps, PTL DEF Spec

-----------------------------------------------------------------------------
(* Every variable keeps its type, whatever arrives when.                    *)
THEOREM TypeCorrect == Spec => []TypeOK
<1>1. IInv => TypeOK
  BY DEF IInv
<1> QED
  BY <1>1, IInvAlways, PTL

(* ooHandleMasterSlave, ooHandleMasterSlaveReject and the answers to them:  *)
(* the two ends never have the same role.                                   *)
THEOREM RolesAlwaysDiffer == Spec => []RolesDiffer
<1>1. IInv => RolesDiffer
  BY DEF IInv, GoodAt, Good, Roles, HalfRoles, Differ, RolesDiffer
<1> QED
  BY <1>1, IInvAlways, PTL

(* ooCleanCall places a new call only if the user of the peer has forwarded *)
(* this one.                                                                *)
THEOREM OnlyPeerForwards == Spec => []ForwardedByPeer
<1>1. IInv => ForwardedByPeer
  BY Peers DEF IInv, GoodAt, Good, Forwards, Forwarders, HasForwarded, ForwardedByPeer
<1> QED
  BY <1>1, IInvAlways, PTL

(* No handler, timer or command takes the state of a call back.             *)
THEOREM NoWayBack == Spec => CallStateAdvances
<1>1. IInv /\ [Next]_vars => [\A e \in Endpoint : call'[e].callState >= call[e].callState]_vars
  BY NextKeeps DEF Advance
<1> QED
  BY <1>1, IInvAlways, PTL DEF Spec, CallStateAdvances

-----------------------------------------------------------------------------
(* What has to be true of an end a and its peer b for no OpenLogicalChannel *)
(* to arrive too early.                                                     *)

(* The stream an end sends its H.245 messages in, the message after which   *)
(* the other end is deaf to what follows in it, and whether the stream is   *)
(* still written.                                                           *)
Line(c)  == IF Tunnels(c) THEN Sent225(c) ELSE Sent245(c)
Final(c) == IF Tunnels(c) THEN "ReleaseComplete" ELSE "EndSession"
Up(c)    == IF Tunnels(c) THEN c.h225Sock = "open" ELSE c.h245Sock = "open"
Hears(c) == Runs(c) /\ (Tunnels(c) \/ c.h245Sock # "closed")

(* The start-up has not begun, and nothing of it has been sent.             *)
Dormant(c) ==
  c.localTermCapState = "Idle" /\ c.remoteTermCapState = "Idle" /\ c.masterSlaveState = "Idle"
Mute(c) == \A k \in {"TCS", "TCSAck", "OLC"} : Free(Sent225(c), k) /\ Free(Sent245(c), k)

Quieted(c) == Dormant(c) => Mute(c)
Joined(c)  ==
  /\ c.h245Sock = "none" /\ ~Tunnels(c) => Dormant(c)
  /\ \A t \in c.timers : t.type = "H245CONNECT" => t.chan = 0 /\ c.h245Sock = "none"
  /\ Tunnels(c) => c.h245Sock = "none"
Parting(c) ==
  /\ c.h225Sock # "open" => c.callState = CLEARED
  /\ Runs(c) => Free(Sent225(c), "EndSession")
  /\ Free(Sent245(c), "ReleaseComplete")
Acked(c) ==
  c.remoteTermCapState = "AckSent" \/ (Free(Sent225(c), "TCSAck") /\ Free(Sent245(c), "TCSAck"))
Local(c) == Quieted(c) /\ Joined(c) /\ Parting(c) /\ Acked(c)

(* Of each message that must come before OpenLogicalChannel: a has read it, *)
(* and b has sent it.                                                       *)
Done(t, a) ==
  CASE t = "TCS" -> a.remoteTermCapState = "AckSent"
    [] t = "TCSAck" -> a.localTermCapState = "AckRecvd"
    [] t = "MSDAck" -> RoleDecided(a)
Given(t, b) ==
  CASE t = "TCS" -> b.localTermCapState # "Idle"
    [] t = "TCSAck" -> b.remoteTermCapState = "AckSent"
    [] t = "MSDAck" -> RoleDecided(b)

(* As long as a has not read it, it is on its way before any                *)
(* OpenLogicalChannel, and once sent it is on its way.                      *)
Brief(t, a, b) ==
  Hears(a) /\ ~Done(t, a) =>
    /\ Led(Line(b), "OLC", {t, Final(b)})
    /\ Given(t, b) /\ Up(b) => Said(Line(b), {t, Final(b)})

(* A capability set is sent once.                                           *)
OneSet(a, b) ==
  /\ b.localTermCapState = "Idle" => Free(Line(b), "TCS") /\ a.remoteTermCapSeqNo = 0
  /\ Once(Line(b), "TCS")
  /\ ~Free(Line(b), "TCS") => a.remoteTermCapSeqNo = 0

(* A live call reads ReleaseComplete before a tunnelled EndSession.         *)
Closing(a, b) ==
  Runs(a) => Led(Sent225(b), "EndSession", {"ReleaseComplete"}) /\ Announces(b)

(* k is the type of a message of b that a has taken but not yet handled.    *)
HalfK(k, a, b) ==
  /\ \A t \in Steps : k \notin {t, Final(b)} => Brief(t, a, b)
  /\ OneSet(a, b)
  /\ k # "ReleaseComplete" => Closing(a, b)
  /\ Local(a)

(* The caller x and the called end y; will says that the user of y can      *)
(* still have Connect sent.                                                 *)
Pending(will, x, y) == ~Free(Sent225(x), "Setup") \/ ~Free(Sent225(y), "Connect") \/ will
Start(will, x, y) ==
  /\ (Tunnels(x) <=> Tunnels(y)) \/ (Dormant(x) /\ Dormant(y))
  /\ y.h245Sock # "none" => x.h245Sock # "none"
  /\ x.h245Sock # "none" => ~Dormant(x)
  /\ ~x.h245listener /\ \A t \in y.timers : t.type # "H245CONNECT"
  /\ Linked(x) => ~Tunnels(y)
  /\ Dormant(x) => Dormant(y)
  /\ ~Free(Sent225(y), "Connect") => ~will
  /\ Once(Sent225(y), "Connect")
  /\ Pending(will, x, y) => Dormant(x) /\ ~Linked(x)

(* In the pass o of an end: what is written reaches a peer that listens; if *)
(* the pass began with nothing queued, a ReleaseComplete has been written;  *)
(* and o.none says that this end has no H.245 socket.                       *)
Carries(o, a, b) ==
  /\ Runs(b) => o.w.okH225
  /\ Hears(b) /\ a.h245Sock = "open" => o.w.ok
  /\ Runs(b) /\ o.idle => Announced(a)
  /\ o.none => a.h245Sock = "none"
  /\ a.epFlags = o.ep

Fit(will, o, k, e, p, a, b) ==
  /\ HalfK(k, a, b) /\ HalfK("nothing", b, a)
  /\ e = Caller => Start(will, a, b)
  /\ p = Caller => Start(will, b, a)
  /\ Carries(o, a, b)

-----------------------------------------------------------------------------
(* Steps that leave the start-up as it is                                   *)

LEMMA StillSame ==
  ASSUME NEW a \in Call, NEW d, Still(a, d)
  PROVE  /\ d \in Call /\ (Tunnels(d) <=> Tunnels(a)) /\ (Dormant(d) <=> Dormant(a))
         /\ Final(d) = Final(a) /\ (Up(d) => Up(a)) /\ (Runs(d) => Runs(a))
         /\ (Hears(d) => Hears(a)) /\ (Linked(d) => Linked(a))
         /\ \A t \in Steps : (Done(t, d) <=> Done(t, a)) /\ (Given(t, d) <=> Given(t, a))
         /\ d.localTermCapState = a.localTermCapState
         /\ d.remoteTermCapState = a.remoteTermCapState
         /\ d.remoteTermCapSeqNo = a.remoteTermCapSeqNo
         /\ (d.h245Sock = "none" <=> a.h245Sock = "none")
         /\ (d.h245Sock = "open" => a.h245Sock = "open")
         /\ (d.h245listener => a.h245listener)
         /\ \A t \in d.timers : t.type = "H245CONNECT" => t \in a.timers
<1>1. d \in Call /\ SameStart(a, d)
  BY DEF Still
<1>2. Runs(d) => Runs(a)
  <2>1. a.callState \in Nat /\ d.callState \in Nat /\ CLEAR \in Nat
    BY <1>1, StateValues DEF Call
  <2> QED
    BY <2>1 DEF Runs, Still
<1>3. /\ Tunnels(d) <=> Tunnels(a)
      /\ d.localTermCapState = a.localTermCapState
      /\ d.remoteTermCapState = a.remoteTermCapState
      /\ d.remoteTermCapSeqNo = a.remoteTermCapSeqNo
      /\ d.masterSlaveState = a.masterSlaveState
      /\ d.remoteH245Port = a.remoteH245Port
  BY <1>1 DEF SameStart
<1>4. /\ d.h245Sock = "none" <=> a.h245Sock = "none"
      /\ d.h245Sock = "open" => a.h245Sock = "open"
      /\ d.h245Sock # "closed" => a.h245Sock # "closed"
      /\ d.h245listener => a.h245listener
      /\ d.h225Sock = "open" => a.h225Sock = "open"
      /\ \A t \in d.timers : t.type = "H245CONNECT" => t \in a.timers
  BY DEF Still
<1>5. Dormant(d) <=> Dormant(a)
  BY <1>3 DEF Dormant
<1>6. Final(d) = Final(a) /\ (Up(d) => Up(a)) /\ (Hears(d) => Hears(a))
  BY <1>2, <1>3, <1>4 DEF Final, Up, Hears
<1>7. Linked(d) => Linked(a)
  BY <1>3, <1>4 DEF Linked
<1>8. \A t \in Steps : (Done(t, d) <=> Done(t, a)) /\ (Given(t, d) <=> Given(t, a))
  BY <1>3 DEF Done, Given, Steps, RoleDecided
<1> QED
  BY <1>1, <1>2, <1>3, <1>4, <1>5, <1>6, <1>7, <1>8

LEMMA KeptLocal ==
  ASSUME NEW a \in Call, NEW d, Still(a, d), Lighter(a, d), Local(a)
  PROVE  Local(d)
<1>1. /\ d \in Call /\ (Tunnels(d) <=> Tunnels(a)) /\ (Dormant(d) <=> Dormant(a))
      /\ (Runs(d) => Runs(a)) /\ d.remoteTermCapState = a.remoteTermCapState
      /\ (d.h245Sock = "none" <=> a.h245Sock = "none")
      /\ \A t \in d.timers : t.type = "H245CONNECT" => t \in a.timers
  BY StillSame
<1>2. Quieted(d)
  BY <1>1 DEF Local, Quieted, Mute, Lighter, Thin, Counted
<1>3. Joined(d)
  BY <1>1 DEF Local, Joined
<1>4. Acked(d)
  BY <1>1 DEF Local, Acked, Lighter, Thin, Counted
<1>5. d.h225Sock # "open" => d.callState = CLEARED
  <2>1. d.callState \in CallState /\ CLEARED \in Nat
    BY <1>1, StateValues DEF Call
  <2>2. d.callState \in Nat /\ d.callState <= CLEARED
    BY <2>1, StateValues
  <2> QED
    BY <2>1, <2>2 DEF Still, Local, Parting
<1>6. Parting(d)
  BY <1>1, <1>5 DEF Local, Parting, Lighter
<1> QED
  BY <1>2, <1>3, <1>4, <1>6 DEF Local

LEMMA KeptOwn ==
  ASSUME NEW a \in Call, NEW b, NEW d, NEW k, Still(a, d), Lighter(a, d), HalfK(k, a, b)
  PROVE  HalfK(k, d, b)
<1>1. /\ (Runs(d) => Runs(a)) /\ (Hears(d) => Hears(a))
      /\ \A t \in Steps : Done(t, d) <=> Done(t, a)
      /\ d.remoteTermCapSeqNo = a.remoteTermCapSeqNo
  BY StillSame
<1>2. Local(d)
  BY KeptLocal DEF HalfK
<1>3. OneSet(d, b)
  BY <1>1 DEF HalfK, OneSet
<1>4. k # "ReleaseComplete" => Closing(d, b)
  BY <1>1 DEF HalfK, Closing
<1>5. \A t \in Steps : k \notin {t, Final(b)} => Brief(t, d, b)
  BY <1>1 DEF HalfK, Brief
<1> QED
  BY <1>2, <1>3, <1>4, <1>5 DEF HalfK

LEMMA KeptPeer ==
  ASSUME NEW a \in Call, NEW b, NEW d, Still(a, d), Lighter(a, d), HalfK("nothing", b, a),
         Runs(b) => Keeps225(a, d), Hears(b) => Keeps245(a, d)
  PROVE  HalfK("nothing", b, d)
<1>1. /\ (Tunnels(d) <=> Tunnels(a)) /\ Final(d) = Final(a) /\ (Up(d) => Up(a))
      /\ \A t \in Steps : Given(t, d) <=> Given(t, a)
      /\ d.localTermCapState = a.localTermCapState
  BY StillSame
<1>2. Thin(Line(a), Line(d))
  BY <1>1 DEF Line, Lighter
<1>3. Hears(b) => Firm(Line(a), Line(d), Final(a)) /\ (Up(d) => Held(Line(a), Line(d), Final(a)))
  <2> SUFFICES ASSUME Hears(b)
               PROVE  Firm(Line(a), Line(d), Final(a)) /\ (Up(d) => Held(Line(a), Line(d), Final(a)))
    OBVIOUS
  <2>1. Keeps225(a, d) /\ Keeps245(a, d)
    BY DEF Hears
  <2> QED
    BY <1>1, <2>1 DEF Keeps225, Keeps245, Line, Final, Up
<1>4. ASSUME NEW t \in Steps
      PROVE  Brief(t, b, d)
  <2>1. Brief(t, b, a)
    <3>1. "nothing" # t /\ "nothing" # Final(a)
      BY DEF Steps, Final
    <3> QED
      BY <3>1 DEF HalfK
  <2> QED
    BY <1>1, <1>3, <2>1 DEF Brief, Firm, Held
<1>5. OneSet(b, d)
  BY <1>1, <1>2 DEF HalfK, OneSet, Thin, Counted
<1>6. Closing(b, d)
  BY DEF HalfK, Closing, Keeps225
<1>7. Local(b)
  BY DEF HalfK
<1> QED
  BY <1>4, <1>5, <1>6, <1>7 DEF HalfK

LEMMA KeptStart ==
  ASSUME NEW a \in Call, NEW b, NEW d, NEW will, Still(a, d), Lighter(a, d)
  PROVE  /\ Start(will, a, b) => Start(will, d, b)
         /\ Start(will, b, a) => Start(will, b, d)
<1>1. /\ (Tunnels(d) <=> Tunnels(a)) /\ (Dormant(d) <=> Dormant(a))
      /\ (Linked(d) => Linked(a))
      /\ (d.h245Sock = "none" <=> a.h245Sock = "none")
      /\ (d.h245listener => a.h245listener)
      /\ \A t \in d.timers : t.type = "H245CONNECT" => t \in a.timers
  BY StillSame
<1>2. /\ Free(Sent225(a), "Setup") => Free(Sent225(d), "Setup")
      /\ Free(Sent225(a), "Connect") => Free(Sent225(d), "Connect")
      /\ Once(Sent225(a), "Connect") => Once(Sent225(d), "Connect")
  BY DEF Lighter, Thin, Counted
<1>3. Start(will, a, b) => Start(will, d, b)
  BY <1>1, <1>2 DEF Start, Pending
<1>4. Start(will, b, a) => Start(will, b, d)
  BY <1>1, <1>2 DEF Start, Pending
<1> QED
  BY <1>3, <1>4

LEMMA KeptFits ==
  ASSUME NEW will, NEW o, NEW k, NEW e, NEW p, NEW a \in Call, NEW b, NEW d,
         Fit(will, o, k, e, p, a, b), Still(a, d), Lighter(a, d),
         Runs(b) => Keeps225(a, d), Hears(b) => Keeps245(a, d),
         Runs(b) /\ o.idle /\ Announced(a) => Announced(d)
  PROVE  Fit(will, o, k, e, p, d, b)
<1>1. HalfK(k, d, b) /\ HalfK("nothing", b, d)
  BY KeptOwn, KeptPeer DEF Fit
<1>2. (e = Caller => Start(will, d, b)) /\ (p = Caller => Start(will, b, d))
  BY KeptStart DEF Fit
<1>3. Carries(o, d, b)
  BY StillSame DEF Fit, Carries, Still, SameStart
<1> QED
  BY <1>1, <1>2, <1>3 DEF Fit

LEMMA CalmFits ==
  ASSUME NEW will, NEW o, NEW k, NEW e, NEW p, NEW a \in Call, NEW b, NEW d,
         Fit(will, o, k, e, p, a, b), Calm(o.w, a, d)
  PROVE  Fit(will, o, k, e, p, d, b)
<1>1. /\ Runs(b) => o.w.okH225
      /\ Hears(b) /\ a.h245Sock = "open" => o.w.ok
  BY DEF Fit, Carries
<1>2. Still(a, d) /\ Lighter(a, d) /\ (Runs(b) => Keeps225(a, d)) /\ (Hears(b) => Keeps245(a, d))
      /\ (Runs(b) /\ o.idle /\ Announced(a) => Announced(d))
  BY <1>1 DEF Calm, Ends
<1> QED
  BY <1>2, KeptFits

-----------------------------------------------------------------------------
(* Steps of the start-up                                                    *)

(* What no such step changes.                                               *)
Frame(a, d) ==
  /\ d \in Call /\ d.callState = a.callState /\ d.releaseBuilt = a.releaseBuilt
  /\ d.epFlags = a.epFlags /\ d.remoteH245Port = a.remoteH245Port
  /\ (Tunnels(d) <=> Tunnels(a))
  /\ d.h225Sock = a.h225Sock /\ d.h225Net = a.h225Net /\ d.h245listener = a.h245listener
  /\ \A t \in d.timers : t.type = "H245CONNECT" => t \in a.timers

(* m is queued for the peer, tunnelled or not.                              *)
Added(a, d, m) ==
  IF Tunnels(a)
  THEN /\ Sent225(d) = Append(Sent225(a), m) /\ d.h225Out = Append(a.h225Out, m)
       /\ Sent245(d) = Sent245(a)
  ELSE /\ Sent245(d) = Append(Sent245(a), m)
       /\ Sent225(d) = Sent225(a) /\ d.h225Out = a.h225Out

Told == {"TCS", "TCSAck", "OLC"}

(* Signalling and the end of the call are as they were.                     *)
Lax(a, d) ==
  /\ \A k \in {"Setup", "Connect", "EndSession"} : Free(Sent225(a), k) => Free(Sent225(d), k)
  /\ Once(Sent225(a), "Connect") => Once(Sent225(d), "Connect")
  /\ Free(Sent245(a), "ReleaseComplete") => Free(Sent245(d), "ReleaseComplete")
  /\ Led(Sent225(a), "EndSession", {"ReleaseComplete"})
       => Led(Sent225(d), "EndSession", {"ReleaseComplete"})
  /\ (Announces(a) => Announces(d)) /\ (Announced(a) => Announced(d))

LEMMA SameLax ==
  ASSUME NEW a \in Call, NEW d, Frame(a, d), SameFlows(a, d)
  PROVE  Lax(a, d)
<1>1. Sent225(d) = Sent225(a) /\ Sent245(d) = Sent245(a) /\ d.h225Out = a.h225Out
  BY DEF SameFlows, Sent225, Sent245
<1>2. (Announces(a) => Announces(d)) /\ (Announced(a) => Announced(d))
  BY <1>1 DEF Frame, Announces, Announced, Released
<1> QED
  BY <1>1, <1>2 DEF Lax

LEMMA HeadKept ==
  ASSUME NEW s \in Seq(Message), NEW m \in Message, s # << >>
  PROVE  Append(s, m) # << >> /\ Head(Append(s, m)) = Head(s)
<1>1. /\ Append(s, m) \in Seq(Message) /\ Len(Append(s, m)) = Len(s) + 1
      /\ \A i \in 1 .. Len(s) : Append(s, m)[i] = s[i]
  BY AppendProperties
<1>2. Len(s) \in Nat /\ Len(s) > 0
  BY EmptySeq
<1>3. Append(s, m)[1] = s[1]
  BY <1>1, <1>2
<1>4. Len(Append(s, m)) > 0
  BY <1>1, <1>2
<1> QED
  BY <1>1, <1>3, <1>4

LEMMA AddedLax ==
  ASSUME NEW a \in Call, NEW d, NEW m \in Message, Frame(a, d), Added(a, d, m), m.type \in Told
  PROVE  Lax(a, d)
<1> DEFINE s == Sent225(a)
           t == Sent245(a)
           out == a.h225Out
<1>1. s \in Seq(Message) /\ t \in Seq(Message) /\ out \in Seq(Message)
  BY SentAppends
<1>2. /\ Sent225(d) \in {s, Append(s, m)} /\ Sent245(d) \in {t, Append(t, m)}
      /\ d.h225Out \in {out, Append(out, m)}
  BY DEF Added
<1>3. /\ m.type # "Setup" /\ m.type # "Connect" /\ m.type # "EndSession"
      /\ m.type # "ReleaseComplete"
  BY DEF Told
<1>4. (Announces(a) => Announces(d)) /\ (Announced(a) => Announced(d))
  <2>1. out # << >> => d.h225Out # << >> /\ Head(d.h225Out) = Head(out)
    <3> HIDE DEF s, t, out
    <3> QED
      BY <1>1, <1>2, HeadKept
  <2> QED
    BY <2>1 DEF Frame, Announces, Announced, Released
<1> DEFINE s2 == Sent225(d)
           t2 == Sent245(d)
<1> HIDE DEF s, t, s2, t2
<1>5. /\ \A k \in {"Setup", "Connect", "EndSession"} : Free(s, k) => Free(s2, k)
      /\ Once(s, "Connect") => Once(s2, "Connect")
      /\ Led(s, "EndSession", {"ReleaseComplete"}) => Led(s2, "EndSession", {"ReleaseComplete"})
  <2>1. CASE s2 = s
    BY <2>1
  <2>2. CASE s2 = Append(s, m)
    <3>1. /\ \A k : Free(s2, k) <=> Free(s, k) /\ m.type # k
          /\ \A k : Once(s, k) /\ (m.type # k \/ Free(s, k)) => Once(s2, k)
          /\ \A x, T : Led(s, x, T) /\ (m.type # x \/ Said(s, T)) => Led(s2, x, T)
      BY <1>1, <2>2, AppendStream
    <3> QED
      BY <1>3, <3>1
  <2> QED
    BY <1>2, <2>1, <2>2 DEF s2
<1>6. Free(t, "ReleaseComplete") => Free(t2, "ReleaseComplete")
  <2>1. CASE t2 = t
    BY <2>1
  <2>2. CASE t2 = Append(t, m)
    BY <1>1, <1>3, <2>2, AppendStream
  <2> QED
    BY <1>2, <2>1, <2>2 DEF t2
<1> QED
  BY <1>4, <1>5, <1>6 DEF Lax, s, t, s2, t2

(* The start-up is under way between a and b when a becomes d, or it begins *)
(* with a connection for H.245.                                             *)
Opened(o, p, a, b, d) ==
  /\ a.h245Sock = "none" /\ d.h245Sock = "open" /\ ~Tunnels(a) /\ ~o.none
  /\ Hears(b) => o.w.ok
  /\ p = Caller => b.h245Sock # "none"
  /\ \A t \in d.timers : t.type # "H245CONNECT"
Awake(will, o, e, p, a, b, d) ==
  /\ ~Dormant(d) /\ (Tunnels(a) <=> Tunnels(b)) /\ (Tunnels(a) \/ d.h245Sock # "none")
  /\ e = Caller => ~Pending(will, a, b)
  /\ p = Caller => ~Dormant(b)
  /\ d.h245Sock = a.h245Sock \/ Opened(o, p, a, b, d)

LEMMA StepStart ==
  ASSUME NEW will, NEW o, NEW e, NEW p, NEW a \in Call, NEW b, NEW d, Frame(a, d), Lax(a, d),
         Awake(will, o, e, p, a, b, d)
  PROVE  /\ e = Caller /\ Start(will, a, b) => Start(will, d, b)
         /\ p = Caller /\ Start(will, b, a) => Start(will, b, d)
<1>1. d.h245Sock # a.h245Sock => ~Tunnels(b)
  BY DEF Awake, Opened
<1>2. Linked(d) => Linked(a) \/ d.h245Sock # a.h245Sock
  BY DEF Linked, Frame
<1>3. ASSUME e = Caller, Start(will, a, b)
      PROVE  Start(will, d, b)
  <2>1. ~Pending(will, d, b)
    BY <1>3 DEF Awake, Pending, Lax
  <2>2. b.h245Sock # "none" => d.h245Sock # "none"
    BY <1>3 DEF Start, Awake, Opened
  <2> QED
    BY <1>1, <1>2, <1>3, <2>1, <2>2 DEF Start, Awake, Frame
<1>4. ASSUME p = Caller, Start(will, b, a)
      PROVE  Start(will, b, d)
  <2>1. Pending(will, b, d) => Pending(will, b, a)
    BY DEF Pending, Lax
  <2>2. d.h245Sock # "none" => b.h245Sock # "none"
    BY <1>4 DEF Start, Awake, Opened
  <2>3. \A t \in d.timers : t.type # "H245CONNECT"
    BY <1>4 DEF Start, Frame
  <2>4. ~Free(Sent225(d), "Connect") => ~will
    BY <1>4 DEF Start, Lax
  <2>5. Once(Sent225(d), "Connect")
    BY <1>4 DEF Start, Lax
  <2>6. (Tunnels(b) <=> Tunnels(d)) /\ (Linked(b) => ~Tunnels(d)) /\ ~Dormant(b)
    BY <1>4 DEF Start, Awake, Frame
  <2>7. b.h245Sock # "none" => ~Dormant(b)
    BY <2>6
  <2>8. ~b.h245listener /\ (Pending(will, b, d) => Dormant(b) /\ ~Linked(b))
    BY <1>4, <2>1 DEF Start
  <2> QED
    BY <2>2, <2>3, <2>4, <2>5, <2>6, <2>7, <2>8 DEF Start
<1> QED
  BY <1>3, <1>4

LEMMA StepFits ==
  ASSUME NEW will, NEW o, NEW k, NEW e, NEW p, NEW a \in Call, NEW b, NEW d,
         Fit(will, o, k, e, p, a, b), Frame(a, d), Lax(a, d), Awake(will, o, e, p, a, b, d),
         \A t \in Steps : Done(t, a) => Done(t, d),
         \A t \in Steps : Brief(t, b, d), OneSet(d, b), OneSet(b, d), Acked(d)
  PROVE  Fit(will, o, k, e, p, d, b)
<1>1. (Runs(d) <=> Runs(a)) /\ (Hears(d) => Hears(a))
  <2>1. Runs(d) <=> Runs(a)
    BY DEF Frame, Runs
  <2> QED
    BY <2>1 DEF Frame, Hears, Awake, Opened
<1>2. HalfK(k, a, b) /\ HalfK("nothing", b, a)
  BY DEF Fit
<1>3. Local(d)
  <2>1. Joined(d)
    <3>1. Joined(a)
      BY <1>2 DEF HalfK, Local
    <3>2. d.h245Sock = "none" /\ ~Tunnels(d) => Dormant(d)
      BY DEF Awake, Frame
    <3>3. ASSUME NEW t \in d.timers, t.type = "H245CONNECT"
          PROVE  t.chan = 0 /\ d.h245Sock = "none"
      BY <3>1, <3>3 DEF Joined, Frame, Awake, Opened
    <3>4. Tunnels(d) => d.h245Sock = "none"
      BY <3>1 DEF Joined, Frame, Awake, Opened
    <3> QED
      BY <3>2, <3>3, <3>4 DEF Joined
  <2>2. Parting(d)
    BY <1>1, <1>2 DEF HalfK, Local, Parting, Frame, Lax
  <2>3. Quieted(d)
    BY DEF Quieted, Awake
  <2> QED
    BY <2>1, <2>2, <2>3 DEF Local
<1>4. HalfK(k, d, b)
  <2>1. \A t \in Steps : k \notin {t, Final(b)} => Brief(t, d, b)
    BY <1>1, <1>2 DEF HalfK, Brief
  <2>2. k # "ReleaseComplete" => Closing(d, b)
    BY <1>1, <1>2 DEF HalfK, Closing
  <2> QED
    BY <1>3, <2>1, <2>2 DEF HalfK
<1>5. HalfK("nothing", b, d)
  <2>1. Closing(b, d)
    BY <1>2 DEF HalfK, Closing, Lax
  <2>2. Local(b)
    BY <1>2 DEF HalfK
  <2> QED
    BY <2>1, <2>2 DEF HalfK
<1>6. (e = Caller => Start(will, d, b)) /\ (p = Caller => Start(will, b, d))
  BY StepStart DEF Fit
<1>7. Carries(o, d, b)
  BY DEF Fit, Carries, Frame, Lax, Awake, Opened
<1> QED
  BY <1>4, <1>5, <1>6, <1>7 DEF Fit

(* Nothing is sent; what a now has given, b has taken or is on its way.     *)
LEMMA SetFits ==
  ASSUME NEW will, NEW o, NEW k, NEW e, NEW p, NEW a \in Call, NEW b, NEW d,
         Fit(will, o, k, e, p, a, b), Frame(a, d), SameFlows(a, d),
         Awake(will, o, e, p, a, b, d), d.h245Sock = a.h245Sock,
         \A t \in Steps : Done(t, a) => Done(t, d),
         \A t \in Steps : Given(t, d) /\ ~Given(t, a) /\ Up(d) =>
           Done(t, b) \/ Said(Line(d), {t, Final(d)}),
         d.localTermCapState = "Idle" => a.localTermCapState = "Idle",
         d.remoteTermCapSeqNo = a.remoteTermCapSeqNo,
         d.remoteTermCapState = a.remoteTermCapState
  PROVE  Fit(will, o, k, e, p, d, b)
<1>1. Lax(a, d)
  BY SameLax
<1>2. Line(d) = Line(a) /\ Final(d) = Final(a) /\ (Up(d) <=> Up(a))
  BY DEF Frame, SameFlows, Line, Final, Up, Sent225, Sent245
<1>3. HalfK(k, a, b) /\ HalfK("nothing", b, a)
  BY DEF Fit
<1>4. \A t \in Steps : "nothing" \notin {t, Final(a)}
  BY DEF Steps, Final
<1>5. ASSUME NEW t \in Steps
      PROVE  Brief(t, b, d)
  <2>1. Brief(t, b, a)
    BY <1>3, <1>4 DEF HalfK
  <2> QED
    BY <1>2, <2>1 DEF Brief
<1>6. OneSet(d, b) /\ OneSet(b, d)
  BY <1>2, <1>3 DEF HalfK, OneSet
<1>7. Acked(d)
  BY <1>3 DEF HalfK, Local, Acked, SameFlows, Sent225, Sent245
<1> QED
  BY <1>1, <1>5, <1>6, <1>7, StepFits

(* A capability set or its acknowledgement is sent.                         *)
LEMMA TellFits ==
  ASSUME NEW will, NEW o, NEW k, NEW e, NEW p, NEW a \in Call, NEW b, NEW d, NEW m \in Message,
         Fit(will, o, k, e, p, a, b), Frame(a, d), Added(a, d, m),
         Awake(will, o, e, p, a, b, d),
         d.masterSlaveState = a.masterSlaveState,
         d.h245Sock = a.h245Sock \/ (m.type = "TCS" /\ Dormant(a)),
         \/ /\ m.type = "TCS" /\ a.localTermCapState = "Idle" /\ d.localTermCapState = "SetSent"
            /\ d.remoteTermCapState = a.remoteTermCapState
            /\ d.remoteTermCapSeqNo = a.remoteTermCapSeqNo
         \/ /\ m.type = "TCSAck" /\ d.localTermCapState = a.localTermCapState
            /\ d.remoteTermCapState = "AckSent"
            /\ b.localTermCapState # "Idle" /\ Free(Line(b), "TCS")
  PROVE  Fit(will, o, k, e, p, d, b)
<1>1. Lax(a, d)
  BY AddedLax DEF Told
<1> DEFINE s == Line(a)
           u == Line(d)
           F == Final(a)
<1>2. u = Append(s, m) /\ s \in Seq(Message) /\ Final(d) = F
  <2>1. Sent225(a) \in Seq(Message) /\ Sent245(a) \in Seq(Message)
    BY SentAppends
  <2> QED
    BY <2>1 DEF Frame, Added, Line, Final
<1>3. HalfK(k, a, b) /\ HalfK("nothing", b, a)
  BY DEF Fit
<1>4. \A t \in Steps : "nothing" \notin {t, Final(a)}
  BY DEF Steps, Final
<1>5. d.h245Sock = a.h245Sock => (Up(d) <=> Up(a))
  BY DEF Frame, Up
<1>6. \A t \in Steps : Given(t, d) /\ t # m.type => Given(t, a) /\ d.h245Sock = a.h245Sock
  BY DEF Given, Steps, RoleDecided, Dormant
<1>7. \A t \in Steps : Done(t, a) => Done(t, d)
  BY DEF Done, Steps, RoleDecided
<1>8. OneSet(b, a) /\ OneSet(a, b) /\ Acked(a) /\ \A t \in Steps : Brief(t, b, a)
  BY <1>3, <1>4 DEF HalfK, Local
<1> HIDE DEF s, u, F
<1>9. /\ \A x : Free(u, x) <=> Free(s, x) /\ m.type # x
      /\ \A x : Once(s, x) /\ (m.type # x \/ Free(s, x)) => Once(u, x)
      /\ \A T : Said(u, T) <=> Said(s, T) \/ m.type \in T
      /\ \A x, T : Led(s, x, T) /\ (m.type # x \/ Said(s, T)) => Led(u, x, T)
  BY <1>2, AppendStream
<1>10. ASSUME NEW t \in Steps
       PROVE  Brief(t, b, d)
  <2>1. Hears(b) /\ ~Done(t, b) =>
          Led(s, "OLC", {t, F}) /\ (Given(t, a) /\ Up(a) => Said(s, {t, F}))
    BY <1>8 DEF Brief, s, F
  <2>2. Hears(b) /\ ~Done(t, b) => Led(u, "OLC", {t, F})
    BY <1>9, <2>1
  <2>3. Hears(b) /\ ~Done(t, b) /\ Given(t, d) /\ Up(d) => Said(u, {t, F})
    <3>1. CASE t = m.type
      BY <1>9, <3>1
    <3>2. CASE t # m.type
      BY <1>5, <1>6, <1>9, <2>1, <3>2
    <3> QED
      BY <3>1, <3>2
  <2> QED
    BY <1>2, <2>2, <2>3 DEF Brief, u
<1>11. OneSet(b, d)
  <2>1. /\ a.localTermCapState = "Idle" => Free(s, "TCS") /\ b.remoteTermCapSeqNo = 0
        /\ Once(s, "TCS") /\ (~Free(s, "TCS") => b.remoteTermCapSeqNo = 0)
    BY <1>8 DEF OneSet, s
  <2>2. /\ d.localTermCapState = "Idle" => Free(u, "TCS") /\ b.remoteTermCapSeqNo = 0
        /\ Once(u, "TCS") /\ (~Free(u, "TCS") => b.remoteTermCapSeqNo = 0)
    BY <1>9, <2>1
  <2> QED
    BY <2>2 DEF OneSet, u
<1>12. OneSet(d, b)
  BY <1>8 DEF OneSet
<1>13. Acked(d)
  <2>1. CASE m.type = "TCSAck"
    BY <2>1 DEF Acked
  <2>2. CASE m.type # "TCSAck"
    <3> DEFINE v == Sent225(a)
               z == Sent245(a)
               v2 == Sent225(d)
               z2 == Sent245(d)
    <3>1. v \in Seq(Message) /\ z \in Seq(Message)
      BY SentAppends
    <3>2. v2 \in {v, Append(v, m)} /\ z2 \in {z, Append(z, m)}
      BY DEF Added
    <3>3. a.remoteTermCapState = "AckSent" \/ (Free(v, "TCSAck") /\ Free(z, "TCSAck"))
      BY <1>8 DEF Acked
    <3> HIDE DEF v, z, v2, z2
    <3>4. (Free(v, "TCSAck") => Free(v2, "TCSAck")) /\ (Free(z, "TCSAck") => Free(z2, "TCSAck"))
      <4>1. Free(v, "TCSAck") => Free(v2, "TCSAck")
        BY <2>2, <3>1, <3>2, AppendStream
      <4>2. Free(z, "TCSAck") => Free(z2, "TCSAck")
        BY <2>2, <3>1, <3>2, AppendStream
      <4> QED
        BY <4>1, <4>2
    <3>5. d.remoteTermCapState = "AckSent" \/ (Free(v2, "TCSAck") /\ Free(z2, "TCSAck"))
      BY <2>2, <3>3, <3>4
    <3> QED
      BY <3>5 DEF Acked, v2, z2
  <2> QED
    BY <2>1, <2>2
<1> QED
  BY <1>1, <1>7, <1>10, <1>11, <1>12, <1>13, StepFits

(* A channel is opened when all that comes first has been sent.             *)
LEMMA OpenFits ==
  ASSUME NEW will, NEW o, NEW k, NEW e, NEW p, NEW a \in Call, NEW b, NEW d, NEW m \in Message,
         Fit(will, o, k, e, p, a, b), Frame(a, d), Added(a, d, m),
         Awake(will, o, e, p, a, b, d), d.h245Sock = a.h245Sock,
         d.masterSlaveState = a.masterSlaveState,
         d.localTermCapState = a.localTermCapState, d.remoteTermCapState = a.remoteTermCapState,
         d.remoteTermCapSeqNo = a.remoteTermCapSeqNo,
         m.type = "OLC", Up(a), \A t \in Steps : Given(t, a)
  PROVE  Fit(will, o, k, e, p, d, b)
<1>1. Lax(a, d)
  BY AddedLax DEF Told
<1> DEFINE s == Line(a)
           u == Line(d)
           F == Final(a)
<1>2. u = Append(s, m) /\ s \in Seq(Message) /\ Final(d) = F
  <2>1. Sent225(a) \in Seq(Message) /\ Sent245(a) \in Seq(Message)
    BY SentAppends
  <2> QED
    BY <2>1 DEF Frame, Added, Line, Final
<1>3. HalfK(k, a, b) /\ HalfK("nothing", b, a)
  BY DEF Fit
<1>4. \A t \in Steps : "nothing" \notin {t, Final(a)}
  BY DEF Steps, Final
<1>7. \A t \in Steps : Done(t, a) => Done(t, d)
  BY DEF Done, Steps, RoleDecided
<1>8. OneSet(b, a) /\ OneSet(a, b) /\ Acked(a) /\ \A t \in Steps : Brief(t, b, a)
  BY <1>3, <1>4 DEF HalfK, Local
<1> HIDE DEF s, u, F
<1>9. /\ \A x : Free(u, x) <=> Free(s, x) /\ m.type # x
      /\ \A x : Once(s, x) /\ (m.type # x \/ Free(s, x)) => Once(u, x)
      /\ \A T : Said(u, T) <=> Said(s, T) \/ m.type \in T
      /\ \A x, T : Led(s, x, T) /\ (m.type # x \/ Said(s, T)) => Led(u, x, T)
  BY <1>2, AppendStream
<1>10. ASSUME NEW t \in Steps
       PROVE  Brief(t, b, d)
  <2>1. Hears(b) /\ ~Done(t, b) => Led(s, "OLC", {t, F}) /\ Said(s, {t, F})
    BY <1>8 DEF Brief, s, F
  <2>2. Hears(b) /\ ~Done(t, b) => Led(u, "OLC", {t, F}) /\ Said(u, {t, F})
    BY <1>9, <2>1
  <2> QED
    BY <1>2, <2>2 DEF Brief, u
<1>11. OneSet(b, d)
  <2>1. /\ a.localTermCapState = "Idle" => Free(s, "TCS") /\ b.remoteTermCapSeqNo = 0
        /\ Once(s, "TCS") /\ (~Free(s, "TCS") => b.remoteTermCapSeqNo = 0)
    BY <1>8 DEF OneSet, s
  <2>2. /\ d.localTermCapState = "Idle" => Free(u, "TCS") /\ b.remoteTermCapSeqNo = 0
        /\ Once(u, "TCS") /\ (~Free(u, "TCS") => b.remoteTermCapSeqNo = 0)
    BY <1>9, <2>1
  <2> QED
    BY <2>2 DEF OneSet, u
<1>12. OneSet(d, b)
  BY <1>8 DEF OneSet
<1>13. Acked(d)
  BY DEF Acked, Given, Steps
<1> QED
  BY <1>1, <1>7, <1>10, <1>11, <1>12, <1>13, StepFits

(* The start-up is under way, if not here then at the other end.            *)
Moving(a, b) == ~Dormant(a) \/ (~Dormant(b) /\ (Tunnels(a) \/ a.h245Sock # "none"))

LEMMA MovingAwake ==
  ASSUME NEW will, NEW o, NEW k, NEW e, NEW p, NEW a, NEW b, NEW d,
         Fit(will, o, k, e, p, a, b), Moving(a, b), e = Caller \/ p = Caller,
         ~Dormant(d), d.h245Sock = a.h245Sock
  PROVE  Awake(will, o, e, p, a, b, d)
<1>1. Joined(a)
  BY DEF Fit, HalfK, Local
<1>2. Tunnels(a) \/ a.h245Sock # "none"
  BY <1>1 DEF Moving, Joined
<1>3. e = Caller => (Tunnels(a) <=> Tunnels(b)) /\ ~Pending(will, a, b)
  BY DEF Fit, Start, Moving
<1>4. p = Caller => (Tunnels(a) <=> Tunnels(b)) /\ ~Dormant(b)
  BY DEF Fit, Start, Moving
<1> QED
  BY <1>2, <1>3, <1>4 DEF Awake

(* The states of the procedures and the connection are as they were.        *)
Fixed(a, d) ==
  /\ d.localTermCapState = a.localTermCapState /\ d.remoteTermCapState = a.remoteTermCapState
  /\ d.remoteTermCapSeqNo = a.remoteTermCapSeqNo
  /\ d.masterSlaveState = a.masterSlaveState /\ d.h245Sock = a.h245Sock

LEMMA SendAdds ==
  ASSUME NEW w, NEW c \in Call, NEW m \in Message, m.type \notin {"EndSession", "ReleaseComplete"}
  PROVE  LET d == SendH245(w, c, m)
         IN  Frame(c, d) /\ Added(c, d, m) /\ Fixed(c, d) /\ d.timers = c.timers
             /\ d.h245SessionState = c.h245SessionState /\ d.logicalChans = c.logicalChans
<1> DEFINE o1 == c.h225Out
           o2 == c.h245Out
           out == Append(o1, m)
           que == Append(o2, m)
<1>1. /\ out \in Seq(Message) /\ que \in Seq(Message)
      /\ c.h225Net \o out = Append(Sent225(c), m) /\ c.h245Net \o que = Append(Sent245(c), m)
  <2>1. o1 \in Seq(Message) /\ o2 \in Seq(Message)
    BY SentAppends
  <2>2. c.h225Net \o out = Append(Sent225(c), m) /\ c.h245Net \o que = Append(Sent245(c), m)
    BY SentAppends
  <2>3. out \in Seq(Message) /\ que \in Seq(Message)
    <3> HIDE DEF o1, o2
    <3> QED
      BY <2>1, AppendProperties
  <2> QED
    BY <2>2, <2>3
<1>2. CASE Tunnels(c)
  <2> DEFINE d == [c EXCEPT !.h225Out = out]
  <2>1. SendH245(w, c, m) = d
    BY <1>2 DEF SendH245, SendH225, Tunnels
  <2> HIDE DEF out
  <2>2. d \in Call
    BY <1>1 DEF Call
  <2>3. /\ Fixed(c, d) /\ d.timers = c.timers /\ d.h225Out = out
        /\ d.h245SessionState = c.h245SessionState /\ d.logicalChans = c.logicalChans
    BY DEF Fixed, Call
  <2>4. Frame(c, d)
    BY <2>2 DEF Frame, Tunnels, Has, Call
  <2>5. Sent225(d) = c.h225Net \o out /\ Sent245(d) = Sent245(c)
    BY DEF Sent225, Sent245, Call
  <2>6. Added(c, d, m)
    BY <1>1, <1>2, <2>3, <2>5 DEF Added, out
  <2> QED
    BY <2>1, <2>3, <2>4, <2>6
<1>3. CASE ~Tunnels(c)
  <2> DEFINE d == [c EXCEPT !.h245Out = que]
  <2>1. SendH245(w, c, m) = d
    BY <1>3 DEF SendH245, Tunnels
  <2> HIDE DEF que
  <2>2. d \in Call
    BY <1>1 DEF Call
  <2>3. /\ Fixed(c, d) /\ d.timers = c.timers /\ d.h225Out = c.h225Out
        /\ d.h245SessionState = c.h245SessionState /\ d.logicalChans = c.logicalChans
    BY DEF Fixed, Call
  <2>4. Frame(c, d)
    BY <2>2 DEF Frame, Tunnels, Has, Call
  <2>5. Sent225(d) = Sent225(c) /\ Sent245(d) = c.h245Net \o que
    BY DEF Sent225, Sent245, Call
  <2>6. Added(c, d, m)
    BY <1>1, <1>3, <2>3, <2>5 DEF Added, que
  <2> QED
    BY <2>1, <2>3, <2>4, <2>6
<1> QED
  BY <1>2, <1>3

LEMMA FrameOn ==
  ASSUME NEW a, NEW c, NEW d, NEW m, Frame(a, c), Frame(c, d)
  PROVE  /\ Frame(a, d)
         /\ SameFlows(a, c) /\ Added(c, d, m) => Added(a, d, m)
         /\ Added(a, c, m) /\ SameFlows(c, d) => Added(a, d, m)
<1>1. Frame(a, d)
  BY DEF Frame
<1>2. SameFlows(a, c) /\ Added(c, d, m) => Added(a, d, m)
  BY DEF Frame, SameFlows, Added, Sent225, Sent245
<1>3. Added(a, c, m) /\ SameFlows(c, d) => Added(a, d, m)
  BY DEF Frame, SameFlows, Added, Sent225, Sent245
<1> QED
  BY <1>1, <1>2, <1>3

(* Fields of the start-up that are set.                                     *)
LEMMA SetFrame ==
  ASSUME NEW c \in Call
  PROVE  /\ \A l \in LocalTermCapState, n \in SeqNumber :
              LET d == [c EXCEPT !.localTermCapSeqNo = n, !.localTermCapState = l]
              IN  /\ Frame(c, d) /\ SameFlows(c, d) /\ Fixed([c EXCEPT !.localTermCapState = l], d)
                  /\ d.localTermCapState = l /\ d.timers = c.timers
         /\ \A n \in SeqNumber :
              LET d == [c EXCEPT !.remoteTermCapSeqNo = n]
              IN  /\ Frame(c, d) /\ SameFlows(c, d) /\ Fixed([c EXCEPT !.remoteTermCapSeqNo = n], d)
                  /\ d.timers = c.timers
         /\ \A r \in RemoteTermCapState :
              LET d == [c EXCEPT !.remoteTermCapState = r]
              IN  Frame(c, d) /\ SameFlows(c, d) /\ d.remoteTermCapState = r /\ d.timers = c.timers
<1>1. ASSUME NEW l \in LocalTermCapState, NEW n \in SeqNumber
      PROVE  LET d == [c EXCEPT !.localTermCapSeqNo = n, !.localTermCapState = l]
              IN  /\ Frame(c, d) /\ SameFlows(c, d) /\ Fixed([c EXCEPT !.localTermCapState = l], d)
                  /\ d.localTermCapState = l /\ d.timers = c.timers
  BY DEF Frame, SameFlows, Fixed, Tunnels, Has, Call
<1>2. ASSUME NEW n \in SeqNumber
      PROVE  LET d == [c EXCEPT !.remoteTermCapSeqNo = n]
              IN  /\ Frame(c, d) /\ SameFlows(c, d) /\ Fixed([c EXCEPT !.remoteTermCapSeqNo = n], d)
                  /\ d.timers = c.timers
  BY DEF Frame, SameFlows, Fixed, Tunnels, Has, Call
<1>3. ASSUME NEW r \in RemoteTermCapState
      PROVE  LET d == [c EXCEPT !.remoteTermCapState = r]
              IN  Frame(c, d) /\ SameFlows(c, d) /\ d.remoteTermCapState = r /\ d.timers = c.timers
  BY DEF Frame, SameFlows, Tunnels, Has, Call
<1> QED
  BY <1>1, <1>2, <1>3

(* The start-up may be taken up by c, which a becomes.                      *)
Ripe(will, o, e, p, a, b, c) ==
  /\ (Tunnels(a) <=> Tunnels(b)) /\ (Tunnels(a) \/ c.h245Sock # "none")
  /\ e = Caller => ~Pending(will, a, b)
  /\ p = Caller => ~Dormant(b)
  /\ c.h245Sock = a.h245Sock \/ Opened(o, p, a, b, c)

LEMMA RipeAwake ==
  ASSUME NEW will, NEW o, NEW e, NEW p, NEW a, NEW b, NEW c, NEW d, Ripe(will, o, e, p, a, b, c),
         ~Dormant(d), d.h245Sock = c.h245Sock, d.timers = c.timers
  PROVE  Awake(will, o, e, p, a, b, d)
  BY DEF Ripe, Awake, Opened

LEMMA MovingRipe ==
  ASSUME NEW will, NEW o, NEW k, NEW e, NEW p, NEW a, NEW b,
         Fit(will, o, k, e, p, a, b), Moving(a, b), e = Caller \/ p = Caller
  PROVE  Ripe(will, o, e, p, a, b, a)
<1>1. Joined(a)
  BY DEF Fit, HalfK, Local
<1>2. Tunnels(a) \/ a.h245Sock # "none"
  BY <1>1 DEF Moving, Joined
<1>3. e = Caller => (Tunnels(a) <=> Tunnels(b)) /\ ~Pending(will, a, b)
  BY DEF Fit, Start, Moving
<1>4. p = Caller => (Tunnels(a) <=> Tunnels(b)) /\ ~Dormant(b)
  BY DEF Fit, Start, Moving
<1> QED
  BY <1>2, <1>3, <1>4 DEF Ripe

(* ooSendTermCapMsg, the first time.                                        *)
LEMMA SendTermCapFits ==
  ASSUME NEW will, NEW o, NEW k, NEW e, NEW p, NEW a \in Call, NEW b, NEW c, NEW w,
         Fit(will, o, k, e, p, a, b), Frame(a, c), SameFlows(a, c),
         c.localTermCapState = "Idle", a.localTermCapState = "Idle",
         c.remoteTermCapState = a.remoteTermCapState,
         c.remoteTermCapSeqNo = a.remoteTermCapSeqNo, c.masterSlaveState = a.masterSlaveState,
         c.h245Sock = a.h245Sock \/ Dormant(a), Ripe(will, o, e, p, a, b, c)
  PROVE  LET d == SendTermCap(w, c)
         IN  /\ Fit(will, o, k, e, p, d, b) /\ Frame(a, d)
             /\ d.localTermCapState = "SetSent" /\ d.remoteTermCapState = a.remoteTermCapState
             /\ d.masterSlaveState = a.masterSlaveState /\ d.h245Sock = c.h245Sock
             /\ d.logicalChans = c.logicalChans
<1> DEFINE d == SendTermCap(w, c)
           n == (c.localTermCapSeqNo + 1) % TCSSeqMod
           x == [c EXCEPT !.localTermCapSeqNo = n, !.localTermCapState = "SetSent"]
           m == [type |-> "TCS", seq |-> n, caps |-> TRUE]
<1>1. c \in Call
  BY DEF Frame
<1>2. n \in SeqNumber
  <2>1. c.localTermCapSeqNo \in Nat /\ TCSSeqMod \in Nat /\ TCSSeqMod > 1
    BY <1>1, ConstantsAssumption DEF Call, SeqNumber
  <2> QED
    BY <2>1 DEF SeqNumber
<1>3. m \in Message
  BY <1>2 DEF Message
<1>4. d = SendH245(w, x, m)
  BY DEF SendTermCap
<1> HIDE DEF n, d
<1>5. Frame(c, x) /\ SameFlows(c, x) /\ x.localTermCapState = "SetSent" /\ x.timers = c.timers
      /\ x.remoteTermCapState = c.remoteTermCapState /\ x.logicalChans = c.logicalChans
      /\ x.remoteTermCapSeqNo = c.remoteTermCapSeqNo
      /\ x.masterSlaveState = c.masterSlaveState /\ x.h245Sock = c.h245Sock
  <2>1. "SetSent" \in LocalTermCapState
    BY DEF LocalTermCapState
  <2>2. Frame(c, x) /\ SameFlows(c, x) /\ x.timers = c.timers
    BY <1>1, <1>2, <2>1, SetFrame
  <2>3. /\ x.localTermCapState = "SetSent"
        /\ x.remoteTermCapState = c.remoteTermCapState /\ x.logicalChans = c.logicalChans
        /\ x.remoteTermCapSeqNo = c.remoteTermCapSeqNo
        /\ x.masterSlaveState = c.masterSlaveState /\ x.h245Sock = c.h245Sock
    BY <1>1 DEF Call
  <2> QED
    BY <2>2, <2>3
<1>6. Frame(a, x) /\ SameFlows(a, x) /\ x \in Call
  <2>1. Frame(a, x)
    BY <1>5, FrameOn
  <2>2. SameFlows(a, x)
    BY <1>5 DEF SameFlows
  <2> QED
    BY <2>1, <2>2 DEF Frame
<1> HIDE DEF x
<1>7. /\ Frame(x, d) /\ Added(x, d, m) /\ Fixed(x, d) /\ d.timers = x.timers
      /\ d.logicalChans = x.logicalChans
  <2>1. m.type \notin {"EndSession", "ReleaseComplete"}
    OBVIOUS
  <2> HIDE DEF m
  <2> QED
    BY <1>3, <1>4, <1>6, <2>1, SendAdds
<1>8. Frame(a, d) /\ Added(a, d, m)
  BY <1>6, <1>7, FrameOn
<1>9. /\ d.localTermCapState = "SetSent" /\ d.remoteTermCapState = a.remoteTermCapState
      /\ d.remoteTermCapSeqNo = a.remoteTermCapSeqNo
      /\ d.masterSlaveState = a.masterSlaveState /\ d.h245Sock = c.h245Sock
      /\ d.timers = c.timers /\ d.logicalChans = c.logicalChans
  BY <1>5, <1>7 DEF Fixed
<1>10. Awake(will, o, e, p, a, b, d)
  <2>1. ~Dormant(d)
    BY <1>9 DEF Dormant
  <2> QED
    BY <1>9, <2>1, RipeAwake
<1>11. m.type = "TCS"
  OBVIOUS
<1> HIDE DEF m
<1>12. Fit(will, o, k, e, p, d, b)
  BY <1>3, <1>8, <1>9, <1>10, <1>11, TellFits
<1> QED
  BY <1>8, <1>9, <1>12 DEF d

(* What a step of the start-up finds is still there for the next.           *)
LEMMA MovesOn ==
  ASSUME NEW a, NEW b, NEW d, Moving(a, b), Tunnels(d) <=> Tunnels(a),
         d.h245Sock = a.h245Sock, ~Dormant(a) => ~Dormant(d)
  PROVE  Moving(d, b)
  BY DEF Moving

(* ooSendMasterSlaveDetermination *)
LEMMA SendMSDFits ==
  ASSUME NEW will, NEW o, NEW k, NEW e \in Endpoint, NEW p, NEW a \in Call, NEW b,
         NEW w \in World,
         Fit(will, o, k, e, p, a, b), ~Dormant(a), e = Caller \/ p = Caller
  PROVE  Fit(will, o, k, e, p, SendMSD(e, w, a), b)
<1>1. CASE a.masterSlaveState # "Idle"
  BY <1>1 DEF SendMSD
<1>2. CASE a.masterSlaveState = "Idle"
  <2> DEFINE x == [a EXCEPT !.statusDeterminationNumber = w.num,
                            !.masterSlaveState = "DetermineSent"]
             m == [type |-> "MSD", terminalType |-> TermType[e], number |-> w.num]
  <2>1. SendMSD(e, w, a) = SendH245(w, x, m)
    BY <1>2 DEF SendMSD
  <2>2. m \in Message
    BY ConstantsAssumption DEF Message, World
  <2>3. x \in Call /\ Frame(a, x) /\ SameFlows(a, x) /\ x.h245Sock = a.h245Sock
        /\ x.localTermCapState = a.localTermCapState
        /\ x.remoteTermCapState = a.remoteTermCapState
        /\ x.remoteTermCapSeqNo = a.remoteTermCapSeqNo
        /\ x.masterSlaveState = "DetermineSent"
    <3>1. x \in Call
      BY DEF Call, World, MasterSlaveState
    <3> QED
      BY <3>1 DEF Frame, SameFlows, Tunnels, Has, Call
  <2>4. m.type \notin Counted \cup {"EndSession", "ReleaseComplete"}
    BY DEF Counted
  <2> HIDE DEF x, m
  <2>5. ~Dormant(x)
    BY <2>3 DEF Dormant
  <2>6. Awake(will, o, e, p, a, b, x)
    BY <2>3, <2>5, MovingAwake DEF Moving
  <2>7. \A t \in Steps : (Done(t, a) => Done(t, x)) /\ (Given(t, x) => Given(t, a))
    BY <1>2, <2>3 DEF Done, Given, Steps, RoleDecided
  <2>8. Fit(will, o, k, e, p, x, b)
    BY <2>3, <2>6, <2>7, SetFits
  <2>9. Calm(o.w, x, SendH245(w, x, m))
    <3>1. SendH245(w, x, m) = SendH245(o.w, x, m)
      BY <2>4 DEF SendH245
    <3> QED
      BY <2>2, <2>3, <2>4, <3>1, OrdinaryCalm
  <2> QED
    BY <2>1, <2>3, <2>8, <2>9, CalmFits
<1> QED
  BY <1>1, <1>2

(* The role is taken, and the peer is told.                                 *)
Became(w, a, role, says) ==
  [SendH245(w, a, [type |-> "MSDAck", decision |-> says]) EXCEPT !.masterSlaveState = role]

LEMMA BecomeFits ==
  ASSUME NEW will, NEW o, NEW k, NEW e, NEW p, NEW a \in Call, NEW b, NEW w,
         Fit(will, o, k, e, p, a, b), Moving(a, b), e = Caller \/ p = Caller,
         NEW role \in {"Master", "Slave"}, NEW says \in {"master", "slave"}
  PROVE  LET d == Became(w, a, role, says)
         IN  /\ Fit(will, o, k, e, p, d, b) /\ d \in Call /\ RoleDecided(d)
             /\ d.localTermCapState = a.localTermCapState
             /\ d.remoteTermCapState = a.remoteTermCapState
             /\ (Up(d) <=> Up(a)) /\ d.h245Sock = a.h245Sock
<1> DEFINE m == [type |-> "MSDAck", decision |-> says]
           c == SendH245(w, a, m)
           d == [c EXCEPT !.masterSlaveState = role]
<1>1. m \in Message
  BY DEF Message
<1>2. m.type = "MSDAck"
  OBVIOUS
<1> HIDE DEF m
<1>3. /\ Frame(a, c) /\ Added(a, c, m) /\ Fixed(a, c)
  BY <1>1, <1>2, SendAdds
<1>4. Fit(will, o, k, e, p, c, b)
  <2>1. m.type \notin Counted \cup {"EndSession", "ReleaseComplete"}
    BY <1>2 DEF Counted
  <2>2. c = SendH245(o.w, a, m)
    BY <2>1 DEF SendH245
  <2> HIDE DEF c
  <2>3. Calm(o.w, a, c)
    BY <1>1, <2>1, <2>2, OrdinaryCalm
  <2> QED
    BY <2>3, CalmFits
<1>5. Said(Line(c), {"MSDAck", Final(c)})
  <2> DEFINE s == Line(a)
             u == Line(c)
  <2>1. u = Append(s, m) /\ s \in Seq(Message)
    <3>1. Sent225(a) \in Seq(Message) /\ Sent245(a) \in Seq(Message)
      BY <1>1, SentAppends
    <3> QED
      BY <1>3, <3>1 DEF Frame, Added, Line
  <2> HIDE DEF s, u
  <2>2. Said(u, {"MSDAck", Final(c)})
    BY <1>1, <1>2, <2>1, AppendStream
  <2> QED
    BY <2>2 DEF u
<1>6. c \in Call
  BY <1>3 DEF Frame
<1> HIDE DEF c
<1>7. /\ d \in Call /\ Frame(c, d) /\ SameFlows(c, d) /\ d.h245Sock = c.h245Sock
      /\ d.localTermCapState = c.localTermCapState
      /\ d.remoteTermCapState = c.remoteTermCapState
      /\ d.remoteTermCapSeqNo = c.remoteTermCapSeqNo /\ d.masterSlaveState = role
  <2>1. d \in Call
    BY <1>6 DEF Call, MasterSlaveState
  <2> QED
    BY <1>6, <2>1 DEF Frame, SameFlows, Tunnels, Has, Call
<1> HIDE DEF d
<1>8. Line(d) = Line(c) /\ Final(d) = Final(c)
  BY <1>7 DEF Frame, SameFlows, Line, Final, Sent225, Sent245
<1>9. RoleDecided(d) /\ ~Dormant(d)
  BY <1>7 DEF RoleDecided, Dormant
<1>10. Moving(c, b)
  BY <1>3 DEF Moving, Frame, Fixed, Dormant
<1>11. Awake(will, o, e, p, c, b, d)
  BY <1>4, <1>7, <1>9, <1>10, MovingAwake
<1>12. \A t \in Steps : Done(t, c) => Done(t, d)
  BY <1>7, <1>9 DEF Done, Steps
<1>13. \A t \in Steps : Given(t, d) /\ ~Given(t, c) => Said(Line(d), {t, Final(d)})
  BY <1>5, <1>7, <1>8 DEF Given, Steps
<1>14. Fit(will, o, k, e, p, d, b)
  BY <1>4, <1>6, <1>7, <1>11, <1>12, <1>13, SetFits
<1>15. (Up(d) <=> Up(a)) /\ d.h245Sock = a.h245Sock
  BY <1>3, <1>7 DEF Up, Frame, Fixed
<1> QED
  BY <1>3, <1>7, <1>9, <1>14, <1>15 DEF Fixed, Became, d, c, m

(* ooOpenChannel, when both procedures are done.                            *)
Finished(a) == CapsExchanged(a) /\ RoleDecided(a) /\ Up(a)

LEMMA OpenChannelFits ==
  ASSUME NEW will, NEW o, NEW k, NEW e, NEW p, NEW a \in Call, NEW b, NEW w, NEW cap \in Cap,
         Fit(will, o, k, e, p, a, b), Finished(a), e = Caller \/ p = Caller
  PROVE  LET d == OpenChannel(w, a, cap)
         IN  Fit(will, o, k, e, p, d, b) /\ Finished(d) /\ d \in Call
<1> DEFINE n == a.logicalChanNoCur
           s == GenerateSession(a, cap, "transmit")
           y == NextChanNo(a)
           x == AddChan(y, n, "transmit", cap, "PROPOSED")
           m == [type |-> "OLC", chan |-> n, cap |-> cap, session |-> s]
           d == SendH245(w, x, m)
<1>1. n \in Nat
  BY DEF Call
<1>2. s \in Nat
  BY SessionType
<1>3. m \in Message
  BY <1>1, <1>2 DEF Message
<1>4. m.type = "OLC"
  OBVIOUS
<1>15. OpenChannel(w, a, cap) = d
  BY DEF OpenChannel
<1> HIDE DEF m
<1>5. Near(a, x)
  <2>1. Near(a, y)
    BY ChansNear
  <2> HIDE DEF y, n
  <2>2. y \in Call
    BY <2>1, NearType
  <2>3. Near(y, x)
    BY <1>1, <2>2, AddChanNear
  <2> QED
    BY <2>1, <2>3, NearTransitive
<1> HIDE DEF x
<1>6. x \in Call /\ Calm(o.w, a, x)
  BY <1>5, NearCalm, NearType
<1>7. Fit(will, o, k, e, p, x, b)
  BY <1>6, CalmFits
<1>8. Finished(x)
  <2>1. /\ x.localTermCapState = a.localTermCapState
        /\ x.remoteTermCapState = a.remoteTermCapState
        /\ x.masterSlaveState = a.masterSlaveState /\ (Tunnels(x) <=> Tunnels(a))
        /\ x.h245Sock = a.h245Sock /\ x.h225Sock = a.h225Sock
    BY <1>5 DEF Near, SameStart
  <2> QED
    BY <2>1 DEF Finished, CapsExchanged, RoleDecided, Up
<1>9. /\ Frame(x, d) /\ Added(x, d, m) /\ Fixed(x, d)
  BY <1>3, <1>4, <1>6, SendAdds
<1> HIDE DEF d
<1>10. ~Dormant(x) /\ ~Dormant(d)
  BY <1>8, <1>9 DEF Finished, CapsExchanged, Dormant, Fixed
<1>11. Awake(will, o, e, p, x, b, d)
  BY <1>7, <1>9, <1>10, MovingAwake DEF Moving, Fixed
<1>12. \A t \in Steps : Given(t, x)
  BY <1>8 DEF Finished, CapsExchanged, Given, Steps
<1>13. Fit(will, o, k, e, p, d, b)
  BY <1>3, <1>4, <1>6, <1>7, <1>8, <1>9, <1>11, <1>12, OpenFits DEF Fixed, Finished
<1>14. Finished(d) /\ d \in Call
  BY <1>8, <1>9 DEF Finished, CapsExchanged, RoleDecided, Up, Frame, Fixed
<1> QED
  BY <1>13, <1>14, <1>15

LEMMA OpenIfNoneFits ==
  ASSUME NEW will, NEW o, NEW k, NEW e \in Endpoint, NEW p, NEW a \in Call, NEW b, NEW w,
         Fit(will, o, k, e, p, a, b), Finished(a), e = Caller \/ p = Caller
  PROVE  Fit(will, o, k, e, p, OpenIfNone(e, w, a), b)
<1>1. ASSUME NEW d \in Call, Fit(will, o, k, e, p, d, b)
      PROVE  Fit(will, o, k, e, p, MarkClear(d), b)
  BY <1>1, MarkClearNear, CalmFits
<1>2. ASSUME NEW d \in Call, NEW t, Fit(will, o, k, e, p, d, b), Finished(d)
      PROVE  /\ Fit(will, o, k, e, p, OpenMedia(e, w, d, t), b)
             /\ Choice(e, d, t) # 0 =>
                  Finished(OpenMedia(e, w, d, t)) /\ OpenMedia(e, w, d, t) \in Call
  <2>1. CASE Choice(e, d, t) = 0
    BY <1>1, <1>2, <2>1 DEF OpenMedia
  <2>2. CASE Choice(e, d, t) # 0
    <3> DEFINE cap == Order(e, d)[Choice(e, d, t)]
    <3>1. cap \in Cap
      BY <2>2, ChoiceRange
    <3>2. OpenMedia(e, w, d, t) = OpenChannel(w, d, cap)
      BY <2>2 DEF OpenMedia
    <3> HIDE DEF cap
    <3> QED
      BY <1>2, <3>1, <3>2, OpenChannelFits
  <2> QED
    BY <2>1, <2>2
<1>3. Choice(e, a, "audio") # 0 =>
        Fit(will, o, k, e, p, OpenMedia(e, w, OpenMedia(e, w, a, "audio"), "video"), b)
  BY <1>2
<1>4. \/ OpenLogicalChannels(e, w, a) \in {OpenMedia(e, w, a, "audio"), MarkClear(a), a}
      \/ /\ Choice(e, a, "audio") # 0
         /\ OpenLogicalChannels(e, w, a) = OpenMedia(e, w, OpenMedia(e, w, a, "audio"), "video")
  BY DEF OpenLogicalChannels
<1>5. Fit(will, o, k, e, p, OpenLogicalChannels(e, w, a), b)
  BY <1>1, <1>2, <1>3, <1>4
<1> QED
  BY <1>5 DEF OpenIfNone

(* A message that has been handled is no longer missing.                    *)
LEMMA HandledFits ==
  ASSUME NEW will, NEW o, NEW k, NEW e, NEW p, NEW a, NEW b, Fit(will, o, k, e, p, a, b),
         \/ k \in Steps /\ Done(k, a)
         \/ k \notin Steps \cup {"EndSession", "ReleaseComplete"}
         \/ ~Runs(a)
         \/ ~Hears(a) /\ k # "ReleaseComplete"
  PROVE  Fit(will, o, "nothing", e, p, a, b)
<1>1. HalfK(k, a, b)
  BY DEF Fit
<1>2. \A t \in Steps : Brief(t, a, b)
  <2> SUFFICES ASSUME NEW t \in Steps, ~Brief(t, a, b)
               PROVE  FALSE
    OBVIOUS
  <2>1. Hears(a) /\ ~Done(t, a) /\ Runs(a)
    BY DEF Brief, Hears
  <2>2. k \in {t, Final(b)}
    BY <1>1 DEF HalfK
  <2> QED
    BY <2>1, <2>2 DEF Final, Steps
<1>3. Closing(a, b)
  BY <1>1 DEF HalfK, Closing, Steps
<1>4. HalfK("nothing", a, b)
  BY <1>1, <1>2, <1>3 DEF HalfK
<1> QED
  BY <1>4 DEF Fit

LEMMA NearFits ==
  ASSUME NEW will, NEW o, NEW k, NEW e, NEW p, NEW a \in Call, NEW b, NEW d,
         Fit(will, o, k, e, p, a, b), Near(a, d)
  PROVE  /\ Fit(will, o, k, e, p, d, b) /\ d \in Call /\ SameStart(a, d)
         /\ (Up(d) <=> Up(a)) /\ (Dormant(d) <=> Dormant(a)) /\ (Moving(d, b) <=> Moving(a, b))
         /\ d.h245Sock = a.h245Sock
<1>1. Fit(will, o, k, e, p, d, b)
  BY NearCalm, CalmFits
<1>2. d \in Call /\ SameStart(a, d) /\ d.h245Sock = a.h245Sock /\ d.h225Sock = a.h225Sock
  BY DEF Near
<1>3. (Tunnels(d) <=> Tunnels(a)) /\ (Dormant(d) <=> Dormant(a))
  BY <1>2 DEF SameStart, Dormant
<1> QED
  BY <1>1, <1>2, <1>3 DEF Up, Moving

(* ooOnReceivedTerminalCapabilitySet, on the peer's only capability set.    *)
LEMMA HandleTCSFits ==
  ASSUME NEW will, NEW o, NEW e \in Endpoint, NEW p, NEW a \in Call, NEW b, NEW w,
         NEW m \in Message, m.type = "TCS", m.caps, Fit(will, o, "TCS", e, p, a, b), Up(a),
         Moving(a, b), e = Caller \/ p = Caller,
         a.remoteTermCapSeqNo = 0, b.localTermCapState # "Idle", Free(Line(b), "TCS")
  PROVE  Fit(will, o, "nothing", e, p, HandleTCS(e, w, a, m), b)
<1> DEFINE c  == IF a.h245SessionState = "IDLE" THEN [a EXCEPT !.h245SessionState = "ACTIVE"] ELSE a
           c1 == [c EXCEPT !.remoteTermCapSeqNo = m.seq]
           c2 == SendH245(w, c1, Msg("TCSAck"))
           c3 == [c2 EXCEPT !.remoteTermCapState = "AckSent"]
           c4 == IF c3.localTermCapState = "Idle" THEN SendTermCap(w, c3) ELSE c3
           d  == IF CapsExchanged(c4) /\ RoleDecided(c4) THEN OpenIfNone(e, w, c4) ELSE c4
<1>1. Near(a, c)
  <2>1. "ACTIVE" \in SessionState
    BY DEF SessionState
  <2> QED
    BY <2>1, FieldsNear, NearReflexive
<1>2. HandleTCS(e, w, a, m) = d
  <2>1. c.remoteTermCapSeqNo = 0
    BY DEF Call
  <2>2. HandleTCS(e, w, a, m) = AcceptTCS(e, w, c, m)
    BY <2>1 DEF HandleTCS
  <2> HIDE DEF c
  <2> QED
    BY <2>2 DEF AcceptTCS
<1> HIDE DEF c
<1>3. /\ Fit(will, o, "TCS", e, p, c, b) /\ c \in Call /\ Up(c) /\ Moving(c, b)
  BY <1>1, NearFits
<1>4. m.seq \in SeqNumber /\ "AckSent" \in RemoteTermCapState
  BY MessageFields DEF RemoteTermCapState
<1>5. /\ Frame(c, c1) /\ SameFlows(c, c1) /\ c1 \in Call
      /\ c1.localTermCapState = c.localTermCapState
      /\ c1.masterSlaveState = c.masterSlaveState /\ c1.h245Sock = c.h245Sock
  <2>1. Frame(c, c1) /\ SameFlows(c, c1)
    BY <1>3, <1>4, SetFrame
  <2>2. /\ c1.localTermCapState = c.localTermCapState
        /\ c1.masterSlaveState = c.masterSlaveState /\ c1.h245Sock = c.h245Sock
    BY <1>3 DEF Call
  <2> QED
    BY <2>1, <2>2 DEF Frame
<1> HIDE DEF c1
<1>6. Msg("TCSAck") \in Message /\ Msg("TCSAck").type = "TCSAck"
  BY DEF Msg, Message, Plain
<1>7. Frame(c1, c2) /\ Added(c1, c2, Msg("TCSAck")) /\ Fixed(c1, c2) /\ c2 \in Call
  <2>1. Frame(c1, c2) /\ Added(c1, c2, Msg("TCSAck")) /\ Fixed(c1, c2)
    BY <1>5, <1>6, SendAdds
  <2> QED
    BY <2>1 DEF Frame
<1> HIDE DEF c2
<1>8. /\ Frame(c2, c3) /\ SameFlows(c2, c3) /\ c3 \in Call
      /\ c3.localTermCapState = c2.localTermCapState /\ c3.remoteTermCapState = "AckSent"
      /\ c3.masterSlaveState = c2.masterSlaveState /\ c3.h245Sock = c2.h245Sock
  <2>1. Frame(c2, c3) /\ SameFlows(c2, c3)
    BY <1>4, <1>7, SetFrame
  <2>2. /\ c3.localTermCapState = c2.localTermCapState /\ c3.remoteTermCapState = "AckSent"
        /\ c3.masterSlaveState = c2.masterSlaveState /\ c3.h245Sock = c2.h245Sock
    BY <1>7 DEF Call
  <2> QED
    BY <2>1, <2>2 DEF Frame
<1> HIDE DEF c3
<1>9. Frame(c, c3) /\ Added(c, c3, Msg("TCSAck"))
  <2>1. Frame(c, c2) /\ Added(c, c2, Msg("TCSAck"))
    BY <1>5, <1>7, FrameOn
  <2> QED
    BY <1>8, <2>1, FrameOn
<1>10. /\ c3.localTermCapState = c.localTermCapState
       /\ c3.masterSlaveState = c.masterSlaveState /\ c3.h245Sock = c.h245Sock
  BY <1>5, <1>7, <1>8 DEF Fixed
<1>11. ~Dormant(c3)
  BY <1>8 DEF Dormant
<1>12. Awake(will, o, e, p, c, b, c3)
  BY <1>3, <1>10, <1>11, MovingAwake
<1>13. Fit(will, o, "TCS", e, p, c3, b)
  BY <1>3, <1>6, <1>8, <1>9, <1>10, <1>12, TellFits
<1>14. Fit(will, o, "nothing", e, p, c3, b)
  BY <1>8, <1>13, HandledFits DEF Done, Steps
<1>15. Up(c3) /\ Moving(c3, b)
  BY <1>3, <1>9, <1>10, <1>11 DEF Up, Frame, Moving
<1>16. Fit(will, o, "nothing", e, p, c4, b) /\ Up(c4) /\ c4 \in Call
  <2>1. CASE c3.localTermCapState = "Idle"
    <3>1. c4 = SendTermCap(w, c3)
      BY <2>1
    <3>2. Ripe(will, o, e, p, c3, b, c3)
      BY <1>14, <1>15, MovingRipe
    <3>3. Frame(c3, c3) /\ SameFlows(c3, c3)
      BY <1>8 DEF Frame, SameFlows
    <3> HIDE DEF c4
    <3>4. Fit(will, o, "nothing", e, p, c4, b) /\ Frame(c3, c4) /\ c4.h245Sock = c3.h245Sock
      BY <1>8, <1>14, <2>1, <3>1, <3>2, <3>3, SendTermCapFits
    <3> QED
      BY <1>15, <3>4 DEF Frame, Up
  <2>2. CASE c3.localTermCapState # "Idle"
    BY <1>8, <1>14, <1>15, <2>2
  <2> QED
    BY <2>1, <2>2
<1> HIDE DEF c4
<1>17. Fit(will, o, "nothing", e, p, d, b)
  BY <1>16, OpenIfNoneFits DEF Finished
<1> QED
  BY <1>2, <1>17

(* ooOnReceivedTerminalCapabilitySetAck                                     *)
LEMMA HandleTCSAckFits ==
  ASSUME NEW will, NEW o, NEW e \in Endpoint, NEW p, NEW a \in Call, NEW b, NEW w,
         Fit(will, o, "TCSAck", e, p, a, b), Up(a), Moving(a, b), e = Caller \/ p = Caller,
         b.remoteTermCapState = "AckSent"
  PROVE  Fit(will, o, "nothing", e, p, HandleTCSAck(e, w, a), b)
<1> DEFINE c == StopTimer(a, "TCS", 0)
           x == [c EXCEPT !.localTermCapState = "AckRecvd"]
           d == IF CapsExchanged(x) /\ RoleDecided(x) THEN OpenIfNone(e, w, x) ELSE x
<1>1. Near(a, c)
  BY TimerNear DEF TimerType
<1>2. HandleTCSAck(e, w, a) = d
  BY DEF HandleTCSAck
<1> HIDE DEF c
<1>3. Fit(will, o, "TCSAck", e, p, c, b) /\ c \in Call /\ Up(c) /\ Moving(c, b)
  BY <1>1, NearFits
<1>4. /\ x \in Call /\ Frame(c, x) /\ SameFlows(c, x) /\ x.localTermCapState = "AckRecvd"
      /\ x.remoteTermCapState = c.remoteTermCapState
      /\ x.remoteTermCapSeqNo = c.remoteTermCapSeqNo
      /\ x.masterSlaveState = c.masterSlaveState /\ x.h245Sock = c.h245Sock
  <2>1. x \in Call
    BY <1>3 DEF Call, LocalTermCapState
  <2> QED
    BY <1>3, <2>1 DEF Frame, SameFlows, Tunnels, Has, Call
<1> HIDE DEF x
<1>5. ~Dormant(x)
  BY <1>4 DEF Dormant
<1>6. Awake(will, o, e, p, c, b, x)
  BY <1>3, <1>4, <1>5, MovingAwake
<1>7. \A t \in Steps : Done(t, c) => Done(t, x)
  BY <1>4 DEF Done, Steps, RoleDecided
<1>8. \A t \in Steps : Given(t, x) /\ ~Given(t, c) => Done(t, b)
  BY <1>4 DEF Done, Given, Steps, RoleDecided
<1>9. Fit(will, o, "TCSAck", e, p, x, b)
  BY <1>3, <1>4, <1>6, <1>7, <1>8, SetFits
<1>10. Fit(will, o, "nothing", e, p, x, b)
  BY <1>4, <1>9, HandledFits DEF Done, Steps
<1>11. Up(x)
  BY <1>3, <1>4 DEF Up, Frame
<1> HIDE DEF d
<1>12. Fit(will, o, "nothing", e, p, d, b)
  BY <1>4, <1>10, <1>11, OpenIfNoneFits DEF d, Finished
<1> QED
  BY <1>2, <1>12

LEMMA HandleMSDCases ==
  ASSUME NEW e \in Endpoint, NEW w \in World, NEW c \in Call, NEW m \in Message, m.type = "MSD"
  PROVE  HandleMSD(e, w, c, m)
           \in {BecomeMaster(w, c), BecomeSlave(w, c), SendH245(w, c, Msg("MSDReject"))}
<1> DEFINE diff == (m.number - Ours(w, c)) % NumMod
           half == NumMod \div 2
           d == HandleMSD(e, w, c, m)
<1>1. m.terminalType \in Nat /\ m.number \in DetNumber /\ Ours(w, c) \in DetNumber
  BY MessageFields DEF Ours, Call, World
<1>2. /\ TermType[e] \in Nat /\ NumMod \in Nat /\ NumMod > 0
      /\ diff \in 0 .. NumMod - 1 /\ half \in Nat
  BY <1>1, ConstantsAssumption DEF DetNumber
<1>3. d = CASE m.terminalType < TermType[e] -> BecomeMaster(w, c)
            [] m.terminalType > TermType[e] -> BecomeSlave(w, c)
            [] m.terminalType = TermType[e] /\ diff \in {0, half} -> SendH245(w, c, Msg("MSDReject"))
            [] m.terminalType = TermType[e] /\ 0 < diff /\ diff < half -> BecomeMaster(w, c)
            [] m.terminalType = TermType[e] /\ half < diff -> BecomeSlave(w, c)
  BY DEF HandleMSD, Ours
<1> HIDE DEF d, diff, half
<1>4. diff \in {0, half} \/ (0 < diff /\ diff < half) \/ half < diff
  BY <1>2
<1>5. \/ m.terminalType < TermType[e] \/ m.terminalType > TermType[e]
      \/ m.terminalType = TermType[e]
  BY <1>1, <1>2
<1>6. d \in {BecomeMaster(w, c), BecomeSlave(w, c), SendH245(w, c, Msg("MSDReject"))}
  BY Zenon, <1>3, <1>4, <1>5
<1> QED
  BY <1>6 DEF d

(* ooHandleMasterSlave                                                      *)
LEMMA HandleMSDFits ==
  ASSUME NEW will, NEW o, NEW e \in Endpoint, NEW p, NEW a \in Call, NEW b, NEW w \in World,
         NEW m \in Message, m.type = "MSD", Fit(will, o, "MSD", e, p, a, b),
         Moving(a, b), e = Caller \/ p = Caller
  PROVE  Fit(will, o, "nothing", e, p, HandleMSD(e, w, a, m), b)
<1>1. Fit(will, o, "nothing", e, p, a, b)
  BY HandledFits DEF Steps
<1>2. \A role \in {"Master", "Slave"}, says \in {"master", "slave"} :
        Fit(will, o, "nothing", e, p, Became(w, a, role, says), b)
  BY <1>1, BecomeFits
<1>3. /\ Fit(will, o, "nothing", e, p, BecomeMaster(w, a), b)
      /\ Fit(will, o, "nothing", e, p, BecomeSlave(w, a), b)
  BY <1>2 DEF BecomeMaster, BecomeSlave, Became
<1>4. Fit(will, o, "nothing", e, p, SendH245(w, a, Msg("MSDReject")), b)
  <2>1. SendH245(w, a, Msg("MSDReject")) = SendH245(o.w, a, Msg("MSDReject"))
    BY DEF SendH245, Msg
  <2>2. Calm(o.w, a, SendH245(o.w, a, Msg("MSDReject")))
    BY MessagesCalm
  <2> QED
    BY <1>1, <2>1, <2>2, CalmFits
<1> QED
  BY <1>3, <1>4, HandleMSDCases

(* The answer to a number: the role is the one it names, unless it is taken. *)
LEMMA HandleMSDAckFits ==
  ASSUME NEW will, NEW o, NEW e \in Endpoint, NEW p, NEW a \in Call, NEW b, NEW w,
         NEW m, Fit(will, o, "MSDAck", e, p, a, b), Up(a),
         Moving(a, b), e = Caller \/ p = Caller, a.masterSlaveState # "Idle"
  PROVE  Fit(will, o, "nothing", e, p, HandleMSDAck(e, w, a, m), b)
<1> DEFINE c == StopTimer(a, "MSD", 0)
           x == IF c.masterSlaveState # "DetermineSent" THEN c
                ELSE IF m.decision = "master" THEN BecomeMaster(w, c) ELSE BecomeSlave(w, c)
           d == IF CapsExchanged(x) THEN OpenIfNone(e, w, x) ELSE x
<1>1. Near(a, c)
  BY TimerNear DEF TimerType
<1>2. HandleMSDAck(e, w, a, m) = d
  BY DEF HandleMSDAck
<1> HIDE DEF c
<1>3. Fit(will, o, "MSDAck", e, p, c, b) /\ c \in Call /\ Up(c) /\ Moving(c, b)
      /\ c.masterSlaveState # "Idle"
  BY <1>1, NearFits DEF SameStart
<1>4. /\ Fit(will, o, "MSDAck", e, p, x, b) /\ x \in Call /\ Up(x) /\ RoleDecided(x)
  <2> DEFINE Took(z) == Fit(will, o, "MSDAck", e, p, z, b) /\ z \in Call /\ RoleDecided(z)
                          /\ (Up(z) <=> Up(c))
  <2>1. \A role \in {"Master", "Slave"}, says \in {"master", "slave"} :
          Took(Became(w, c, role, says))
    BY <1>3, BecomeFits
  <2>2. Took(BecomeMaster(w, c)) /\ Took(BecomeSlave(w, c))
    <3> HIDE DEF Took
    <3> QED
      BY <2>1 DEF BecomeMaster, BecomeSlave, Became
  <2>3. CASE c.masterSlaveState # "DetermineSent"
    <3>1. RoleDecided(c)
      BY <1>3, <2>3 DEF RoleDecided, Call, MasterSlaveState
    <3> QED
      BY <1>3, <2>3, <3>1
  <2>4. CASE c.masterSlaveState = "DetermineSent"
    <3>1. x \in {BecomeMaster(w, c), BecomeSlave(w, c)}
      BY <2>4
    <3> HIDE DEF x
    <3> QED
      BY <1>3, <2>2, <3>1
  <2> QED
    BY <2>3, <2>4
<1> HIDE DEF x
<1>5. Fit(will, o, "nothing", e, p, x, b)
  BY <1>4, HandledFits DEF Done, Steps
<1> HIDE DEF d
<1>6. Fit(will, o, "nothing", e, p, d, b)
  BY <1>4, <1>5, OpenIfNoneFits DEF d, Finished
<1> QED
  BY <1>2, <1>6

(* ooHandleMasterSlaveReject                                                *)
LEMMA HandleMSDRejectFits ==
  ASSUME NEW will, NEW o, NEW e \in Endpoint, NEW p, NEW a \in Call, NEW b, NEW w \in World,
         Fit(will, o, "MSDReject", e, p, a, b), a.masterSlaveState = "DetermineSent"
  PROVE  Fit(will, o, "nothing", e, p, HandleMSDReject(e, w, a), b)
<1> DEFINE c == StopTimer(a, "MSD", 0)
           x == [c EXCEPT !.msdRetries = @ + 1, !.masterSlaveState = "Idle"]
           y == [x EXCEPT !.statusDeterminationNumber = w.num,
                          !.masterSlaveState = "DetermineSent"]
           m == [type |-> "MSD", terminalType |-> TermType[e], number |-> w.num]
           d == SendH245(w, y, m)
<1>1. Near(a, c)
  BY TimerNear DEF TimerType
<1>2. Fit(will, o, "nothing", e, p, a, b)
  BY HandledFits DEF Steps
<1>3. HandleMSDReject(e, w, a) \in {MarkClear(c), SendMSD(e, w, x)}
  BY DEF HandleMSDReject
<1> HIDE DEF c
<1>4. c \in Call /\ Fit(will, o, "nothing", e, p, c, b) /\ c.masterSlaveState = "DetermineSent"
  BY <1>1, <1>2, NearFits DEF SameStart
<1>5. SendMSD(e, w, x) = d
  <2>1. x.masterSlaveState = "Idle"
    BY <1>4 DEF Call
  <2> HIDE DEF x
  <2> QED
    BY <2>1 DEF SendMSD
<1>6. y \in Call /\ Apart245(c, y)
  <2>1. x \in Call
    <3>1. c.msdRetries \in Nat /\ "Idle" \in MasterSlaveState
      BY <1>4 DEF Call, MasterSlaveState
    <3>2. c.msdRetries + 1 \in Nat
      BY <3>1
    <3> QED
      BY <1>4, <3>1, <3>2 DEF Call
  <2>2. y \in Call
    <3>1. w.num \in DetNumber /\ "DetermineSent" \in MasterSlaveState
      BY DEF World, MasterSlaveState
    <3> HIDE DEF x
    <3> QED
      BY <2>1, <3>1 DEF Call
  <2> QED
    BY <1>4, <2>2 DEF Apart245, SameFlows, SameStart, Tunnels, Has, Call
<1>7. m \in Message /\ m.type \notin Counted \cup {"EndSession", "ReleaseComplete"}
  BY ConstantsAssumption DEF Message, World, Counted
<1> HIDE DEF y, m
<1>8. Fit(will, o, "nothing", e, p, y, b)
  BY <1>4, <1>6, ApartNear, NearFits
<1>9. Fit(will, o, "nothing", e, p, d, b)
  <2>1. d = SendH245(o.w, y, m)
    BY <1>7 DEF SendH245
  <2> HIDE DEF d
  <2>2. Calm(o.w, y, d)
    BY <1>6, <1>7, <2>1, OrdinaryCalm
  <2> QED
    BY <1>6, <1>8, <2>2, CalmFits
<1>10. Fit(will, o, "nothing", e, p, MarkClear(c), b)
  BY <1>4, MarkClearNear, NearFits
<1> QED
  BY <1>3, <1>5, <1>9, <1>10

(* After EndSession a separate connection is not read again.                *)
LEMMA CloseH245Deaf ==
  ASSUME NEW c \in Call, ~Tunnels(c), c.h245Sock = "open"
  PROVE  ~Hears(CloseH245(c))
<1> DEFINE d == CloseH245(c)
<1>1. d.h245Sock = "closed" /\ d.flags = c.flags
  BY DEF CloseH245, Closed, Call
<1> HIDE DEF d
<1>2. ~Hears(d)
  BY <1>1 DEF Hears, Tunnels, Has
<1> QED
  BY <1>2 DEF d

LEMMA EndSessionDeaf ==
  ASSUME NEW w \in World, NEW c \in Call, ~Tunnels(c), c.h245Sock = "open",
         c.h245SessionState # "ACTIVE"
  PROVE  ~Hears(SendH245(w, c, Msg("EndSession")))
<1> DEFINE m == Msg("EndSession")
           y == [c EXCEPT !.h245Out = << m >>]
           z == [y EXCEPT !.h245Out = Tail(y.h245Out)]
           v == [z EXCEPT !.h245Net = Append(z.h245Net, m)]
           d == SendMsgH245(w, y)
<1>1. m \in Message /\ m.type = "EndSession"
  BY DEF Msg, Message, Plain
<1>2. SendH245(w, c, m) = d
  BY <1>1 DEF SendH245, Tunnels
<1> HIDE DEF m
<1>3. y \in Call /\ y.h245Out = << m >> /\ y.h245Sock = "open" /\ y.flags = c.flags
      /\ y.h245SessionState = c.h245SessionState
  <2>1. << m >> \in Seq(Message)
    BY <1>1
  <2> QED
    BY <2>1 DEF Call
<1> HIDE DEF y
<1>4. z \in Call /\ z.h245Sock = "open" /\ z.flags = c.flags
      /\ z.h245SessionState = c.h245SessionState
  <2>1. Tail(y.h245Out) \in Seq(Message)
    BY <1>3
  <2> QED
    BY <1>3, <2>1 DEF Call
<1> HIDE DEF z
<1>5. v \in Call /\ v.h245Sock = "open" /\ v.flags = c.flags
      /\ v.h245SessionState = c.h245SessionState
  <2>1. Append(z.h245Net, m) \in Seq(Message)
    <3>1. z.h245Net \in Seq(Message)
      BY <1>4 DEF Call
    <3> QED
      BY <1>1, <3>1, AppendProperties
  <2> QED
    BY <1>4, <2>1 DEF Call
<1>6. d = IF y.callState = CLEARED THEN y
            ELSE IF w.ok THEN OnSendMsg(v, m) ELSE MarkClear(z)
  <2>1. y.h245Out # << >> /\ Head(y.h245Out) = m
    BY <1>3
  <2> QED
    BY <1>3, <2>1 DEF SendMsgH245, z
<1> HIDE DEF v, d
<1>7. OnSendMsg(v, m) = CloseH245(v)
  BY <1>1, <1>5 DEF OnSendMsg, OnSendEndSession
<1>8. ~Tunnels(v)
  BY <1>5 DEF Tunnels, Has
<1>9. ~Hears(OnSendMsg(v, m))
  BY <1>5, <1>7, <1>8, CloseH245Deaf
<1>10. ~Hears(MarkClear(z))
  BY <1>4, MarkClearNear DEF Hears
<1>11. y.callState = CLEARED => ~Hears(y)
  BY StateValues DEF Hears, Runs
<1>12. ~Hears(d)
  BY <1>6, <1>9, <1>10, <1>11
<1> QED
  BY <1>2, <1>12 DEF m

LEMMA HandleEndSessionDeaf ==
  ASSUME NEW w \in World, NEW c \in Call, ~Tunnels(c), c.h245Sock = "open"
  PROVE  ~Hears(HandleEndSession(w, c))
<1>1. CASE c.h245SessionState = "ENDSENT"
  <2> DEFINE x == StopTimer(c, "SESSION", 0)
  <2>1. Near(c, x)
    BY TimerNear DEF TimerType
  <2>2. HandleEndSession(w, c) = CloseH245(x)
    BY <1>1 DEF HandleEndSession
  <2> HIDE DEF x
  <2>3. x \in Call /\ x.h245Sock = "open" /\ ~Tunnels(x)
    BY <2>1 DEF Near, SameStart
  <2> QED
    BY <2>2, <2>3, CloseH245Deaf
<1>2. CASE c.h245SessionState # "ENDSENT"
  <2> DEFINE y == [c EXCEPT !.h245SessionState = "ENDRECVD"]
             x == ClearAllChans(y)
  <2>1. Near(c, y)
    BY FieldsNear DEF SessionState
  <2>2. HandleEndSession(w, c) = SendH245(w, x, Msg("EndSession"))
    BY <1>2 DEF HandleEndSession
  <2>3. y.h245SessionState = "ENDRECVD"
    BY DEF Call
  <2> HIDE DEF y
  <2>4. y \in Call /\ Near(y, x) /\ x.h245SessionState = "ENDRECVD"
    <3>1. y \in Call
      BY <2>1, NearType
    <3>2. Near(y, x)
      BY <3>1, ChansNear
    <3> QED
      BY <2>3, <3>1, <3>2 DEF ClearAllChans, Call
  <2> HIDE DEF x
  <2>5. x \in Call /\ x.h245Sock = "open" /\ ~Tunnels(x)
    BY <2>1, <2>4 DEF Near, SameStart
  <2> QED
    BY <2>2, <2>4, <2>5, EndSessionDeaf
<1> QED
  BY <1>1, <1>2

(* What a message that a is about to handle says of the two ends.           *)
Met(m, a, b) ==
  /\ Up(a) /\ m.type # "ReleaseComplete"
  /\ m.type \in {"TCS", "TCSAck", "MSD", "MSDAck"} => Moving(a, b)
  /\ m.type = "TCS" =>
       /\ m.caps /\ a.remoteTermCapSeqNo = 0
       /\ b.localTermCapState # "Idle" /\ Free(Line(b), "TCS")
  /\ m.type = "TCSAck" => b.remoteTermCapState = "AckSent"
  /\ m.type = "MSDAck" => a.masterSlaveState # "Idle"
  /\ m.type = "MSDReject" => a.masterSlaveState = "DetermineSent"

(* ooHandleH245Message                                                      *)
LEMMA HandleH245Fits ==
  ASSUME NEW will, NEW o, NEW e \in Endpoint, NEW p, NEW a \in Call, NEW b, NEW w \in World,
         o.w = w, NEW m \in Message, Fit(will, o, m.type, e, p, a, b), Met(m, a, b),
         e = Caller \/ p = Caller, m.type = "EndSession" => ~Tunnels(a)
  PROVE  Fit(will, o, "nothing", e, p, HandleH245Message(e, w, a, m), b)
<1> DEFINE d == HandleH245Message(e, w, a, m)
<1>1. CASE m.type = "TCS"
  <2>1. d = HandleTCS(e, w, a, m)
    BY <1>1 DEF HandleH245Message
  <2> QED
    BY <1>1, <2>1, HandleTCSFits DEF Met
<1>2. CASE m.type = "TCSAck"
  <2>1. d = HandleTCSAck(e, w, a)
    BY <1>2 DEF HandleH245Message
  <2> QED
    BY <1>2, <2>1, HandleTCSAckFits DEF Met
<1>3. CASE m.type = "MSD"
  <2>1. d = HandleMSD(e, w, a, m)
    BY <1>3 DEF HandleH245Message
  <2> QED
    BY <1>3, <2>1, HandleMSDFits DEF Met
<1>4. CASE m.type = "MSDAck"
  <2>1. d = HandleMSDAck(e, w, a, m)
    BY <1>4 DEF HandleH245Message
  <2> QED
    BY <1>4, <2>1, HandleMSDAckFits DEF Met
<1>5. CASE m.type = "MSDReject"
  <2>1. d = HandleMSDReject(e, w, a)
    BY <1>5 DEF HandleH245Message
  <2> QED
    BY <1>5, <2>1, HandleMSDRejectFits DEF Met
<1>6. CASE m.type = "EndSession"
  <2>1. d = HandleEndSession(w, a)
    BY <1>6 DEF HandleH245Message
  <2>2. ~Tunnels(a) /\ a.h245Sock = "open"
    BY <1>6 DEF Met, Up
  <2>3. Free(Sent245(a), "ReleaseComplete")
    BY DEF Fit, HalfK, Local, Parting
  <2> HIDE DEF d
  <2>4. Calm(w, a, d) /\ ~Hears(d)
    BY <2>1, <2>2, <2>3, HandleEndSessionCalm, HandleEndSessionDeaf
  <2>5. Fit(will, o, "EndSession", e, p, d, b)
    BY <1>6, <2>4, CalmFits
  <2> QED
    BY <2>4, <2>5, HandledFits DEF d
<1>7. CASE m.type \notin {"TCS", "TCSAck", "MSD", "MSDAck", "MSDReject", "EndSession"}
  <2>1. Fit(will, o, "nothing", e, p, a, b)
    <3>1. m.type \notin Steps \cup {"EndSession", "ReleaseComplete"}
      BY <1>7 DEF Steps, Met
    <3> QED
      BY <3>1, HandledFits
  <2>2. Calm(w, a, d)
    <3>1. /\ m.type = "OLC" => d = HandleOLC(e, w, a, m)
          /\ m.type = "CLC" => d = HandleCLC(w, a, m)
          /\ m.type = "RCC" => d = HandleRCC(w, a, m)
          /\ m.type = "TCSReject" => d = HandleTCSReject(a, m)
          /\ m.type = "OLCAck" => d = HandleOLCAck(a, m)
          /\ m.type = "OLCReject" => d = HandleOLCReject(a, m)
          /\ m.type = "CLCAck" => d = StopTimer(a, "CLC", m.chan)
          /\ m.type \in {"RCCAck", "RCCReject"} => d = HandleRCCAnswer(a, m)
          /\ m.type \notin {"OLC", "CLC", "RCC", "TCSReject", "OLCAck", "OLCReject", "CLCAck",
                            "RCCAck", "RCCReject"} => d = a
      BY <1>7 DEF HandleH245Message
    <3> HIDE DEF d
    <3> QED
      BY <3>1, HandleOLCCalm, HandleOLCAckCalm, HandleOthersCalm, NearReflexive
  <2> HIDE DEF d
  <2>3. Fit(will, o, "nothing", e, p, d, b)
    BY <2>1, <2>2, CalmFits
  <2> QED
    BY <2>3 DEF d
<1> QED
  BY <1>1, <1>2, <1>3, <1>4, <1>5, <1>6, <1>7

-----------------------------------------------------------------------------
(* Reading                                                                  *)

(* d is c with m taken from one of its connections; tunnelled says which.   *)
Taken(m, tunnelled, c, d) ==
  /\ d \in Call /\ m \in Message /\ SameStart(c, d)
  /\ d.callState = c.callState /\ d.releaseBuilt = c.releaseBuilt
  /\ d.h225Sock = c.h225Sock /\ d.h245Sock = c.h245Sock
  /\ d.h245listener = c.h245listener /\ d.timers = c.timers /\ d.h225Out = c.h225Out
  /\ Sent225(d) \in Seq(Message) /\ Sent245(d) \in Seq(Message)
  /\ IF tunnelled
     THEN /\ Sent225(c) = << m >> \o Sent225(d) /\ Sent245(d) = Sent245(c)
          /\ \A T : Said(c.h225Net, T) => Said(d.h225Net, T) \/ m.type \in T
     ELSE Sent245(c) = << m >> \o Sent245(d) /\ Sent225(d) = Sent225(c) /\ d.h225Net = c.h225Net

LEMMA HeadTaken ==
  ASSUME NEW c \in Call
  PROVE  /\ c.h225Net # << >> => Taken(Head(c.h225Net), TRUE, c, Read225(c))
         /\ c.h245Net # << >> => Taken(Head(c.h245Net), FALSE, c, Read245(c))
<1>1. /\ c.h225Net \in Seq(Message) /\ c.h225Out \in Seq(Message)
      /\ c.h245Net \in Seq(Message) /\ c.h245Out \in Seq(Message)
  BY DEF Call
<1>2. ASSUME NEW net \in Seq(Message), NEW out \in Seq(Message), net # << >>
      PROVE  /\ Head(net) \in Message /\ Tail(net) \in Seq(Message) /\ Tail(net) \o out \in Seq(Message)
             /\ net \o out = << Head(net) >> \o (Tail(net) \o out)
             /\ \A T : Said(net, T) => Said(Tail(net), T) \/ Head(net).type \in T
  <2> DEFINE m == Head(net)
             r == Tail(net)
  <2>1. m \in Message /\ r \in Seq(Message) /\ << m >> \in Seq(Message) /\ net = << m >> \o r
    BY <1>2, HeadOfQueue
  <2> HIDE DEF m, r
  <2>2. r \o out \in Seq(Message)
    BY <2>1, ConcatProperties
  <2>3. (<< m >> \o r) \o out = << m >> \o (r \o out)
    BY <2>1, ConcatAssociative
  <2>4. \A T : Said(net, T) <=> Said(r, T) \/ m.type \in T
    BY <2>1, TailStream
  <2>5. net \o out = << m >> \o (r \o out)
    BY <2>1, <2>3
  <2> QED
    BY <2>1, <2>2, <2>4, <2>5 DEF m, r
<1>3. ASSUME c.h225Net # << >>
      PROVE  Taken(Head(c.h225Net), TRUE, c, Read225(c))
  <2> DEFINE m == Head(c.h225Net)
             r == Tail(c.h225Net)
             d == Read225(c)
  <2>1. /\ m \in Message /\ r \in Seq(Message) /\ r \o c.h225Out \in Seq(Message)
        /\ Sent225(c) = << m >> \o (r \o c.h225Out)
        /\ \A T : Said(c.h225Net, T) => Said(r, T) \/ m.type \in T
    BY <1>1, <1>2, <1>3 DEF Sent225
  <2> HIDE DEF m, r
  <2>2. d = [c EXCEPT !.h225Net = r]
    BY DEF Read225, r
  <2> HIDE DEF d
  <2>3. d \in Call /\ SameStart(c, d) /\ d.h225Net = r
    <3>1. d \in Call /\ d.h225Net = r
      BY ZenonT(30), <2>1, <2>2 DEF Call
    <3>2. SameStart(c, d)
      BY <2>2 DEF Call, SameStart, Tunnels, Has
    <3> QED
      BY <3>1, <3>2
  <2>4. /\ d.callState = c.callState /\ d.releaseBuilt = c.releaseBuilt
        /\ d.h225Sock = c.h225Sock /\ d.h245Sock = c.h245Sock
        /\ d.h245listener = c.h245listener /\ d.timers = c.timers /\ d.h225Out = c.h225Out
        /\ d.h245Net = c.h245Net /\ d.h245Out = c.h245Out
    BY <2>2 DEF Call
  <2>5. Sent225(d) = r \o c.h225Out /\ Sent245(d) = Sent245(c)
    BY <2>3, <2>4 DEF Sent225, Sent245
  <2>6. Sent245(c) \in Seq(Message)
    BY <1>1, ConcatProperties DEF Sent245
  <2>7. Taken(m, TRUE, c, d)
    BY <2>1, <2>3, <2>4, <2>5, <2>6 DEF Taken
  <2> QED
    BY <2>7 DEF m, d
<1>4. ASSUME c.h245Net # << >>
      PROVE  Taken(Head(c.h245Net), FALSE, c, Read245(c))
  <2> DEFINE m == Head(c.h245Net)
             r == Tail(c.h245Net)
             d == Read245(c)
  <2>1. /\ m \in Message /\ r \in Seq(Message) /\ r \o c.h245Out \in Seq(Message)
        /\ Sent245(c) = << m >> \o (r \o c.h245Out)
    BY <1>1, <1>2, <1>4 DEF Sent245
  <2> HIDE DEF m, r
  <2>2. d = [c EXCEPT !.h245Net = r]
    BY DEF Read245, r
  <2> HIDE DEF d
  <2>3. d \in Call /\ SameStart(c, d) /\ d.h245Net = r
    <3>1. d \in Call /\ d.h245Net = r
      BY ZenonT(30), <2>1, <2>2 DEF Call
    <3>2. SameStart(c, d)
      BY <2>2 DEF Call, SameStart, Tunnels, Has
    <3> QED
      BY <3>1, <3>2
  <2>4. /\ d.callState = c.callState /\ d.releaseBuilt = c.releaseBuilt
        /\ d.h225Sock = c.h225Sock /\ d.h245Sock = c.h245Sock
        /\ d.h245listener = c.h245listener /\ d.timers = c.timers /\ d.h225Out = c.h225Out
        /\ d.h225Net = c.h225Net /\ d.h245Out = c.h245Out
    BY <2>2 DEF Call
  <2>5. Sent245(d) = r \o c.h245Out /\ Sent225(d) = Sent225(c)
    BY <2>3, <2>4 DEF Sent225, Sent245
  <2>6. Sent225(c) \in Seq(Message)
    BY <1>1, ConcatProperties DEF Sent225
  <2>7. Taken(m, FALSE, c, d)
    BY <2>1, <2>3, <2>4, <2>5, <2>6 DEF Taken
  <2> QED
    BY <2>7 DEF m, d
<1> QED
  BY <1>3, <1>4

(* What the peer has written, without its first message.                    *)
LEMMA TakenSame ==
  ASSUME NEW m, NEW tunnelled, NEW c \in Call, NEW d, Taken(m, tunnelled, c, d)
  PROVE  /\ (Tunnels(d) <=> Tunnels(c)) /\ (Dormant(d) <=> Dormant(c)) /\ Final(d) = Final(c)
         /\ (Up(d) <=> Up(c)) /\ (Runs(d) <=> Runs(c)) /\ (Hears(d) <=> Hears(c))
         /\ (Linked(d) <=> Linked(c))
<1>1. SameStart(c, d) /\ d.h225Sock = c.h225Sock /\ d.h245Sock = c.h245Sock
      /\ d.callState = c.callState /\ d.h245listener = c.h245listener /\ d.timers = c.timers
  BY DEF Taken
<1>2. /\ (Tunnels(d) <=> Tunnels(c))
      /\ d.localTermCapState = c.localTermCapState
      /\ d.remoteTermCapState = c.remoteTermCapState
      /\ d.masterSlaveState = c.masterSlaveState
      /\ d.remoteH245Port = c.remoteH245Port
  BY <1>1 DEF SameStart
<1>3. /\ (Dormant(d) <=> Dormant(c)) /\ Final(d) = Final(c)
      /\ (Up(d) <=> Up(c)) /\ (Runs(d) <=> Runs(c)) /\ (Hears(d) <=> Hears(c))
      /\ (Linked(d) <=> Linked(c))
  BY <1>1, <1>2 DEF Dormant, Final, Up, Runs, Hears, Linked
<1> QED
  BY <1>2, <1>3

(* The exchanges stand as they did.                                         *)
LEMMA TakenSteps ==
  ASSUME NEW m, NEW tunnelled, NEW c \in Call, NEW d, Taken(m, tunnelled, c, d)
  PROVE  /\ \A t \in Steps : (Done(t, d) <=> Done(t, c)) /\ (Given(t, d) <=> Given(t, c))
         /\ d.localTermCapState = c.localTermCapState
         /\ d.remoteTermCapState = c.remoteTermCapState
         /\ d.remoteTermCapSeqNo = c.remoteTermCapSeqNo
         /\ d.epFlags = c.epFlags
<1>1. /\ d.localTermCapState = c.localTermCapState
      /\ d.remoteTermCapState = c.remoteTermCapState
      /\ d.remoteTermCapSeqNo = c.remoteTermCapSeqNo
      /\ d.masterSlaveState = c.masterSlaveState /\ d.epFlags = c.epFlags
  BY DEF Taken, SameStart
<1>2. \A t \in Steps : (Done(t, d) <=> Done(t, c)) /\ (Given(t, d) <=> Given(t, c))
  BY <1>1 DEF Done, Given, Steps, RoleDecided
<1> QED
  BY <1>1, <1>2

(* A stream that loses its first message keeps what it was free of.         *)
LEMMA TakenStreams ==
  ASSUME NEW m, NEW tunnelled, NEW c \in Call, NEW d, Taken(m, tunnelled, c, d)
  PROVE  /\ \A k : /\ Free(Sent225(c), k) => Free(Sent225(d), k)
                   /\ Free(Sent245(c), k) => Free(Sent245(d), k)
                   /\ Once(Sent225(c), k) => Once(Sent225(d), k)
                   /\ Once(Sent245(c), k) => Once(Sent245(d), k)
         /\ \A x, T : m.type \notin T =>
              /\ Led(Sent225(c), x, T) => Led(Sent225(d), x, T)
              /\ Led(Sent245(c), x, T) => Led(Sent245(d), x, T)
              /\ Said(Sent225(c), T) => Said(Sent225(d), T)
              /\ Said(Sent245(c), T) => Said(Sent245(d), T)
<1>1. ASSUME NEW r \in Seq(Message), NEW s, s = << m >> \o r
      PROVE  /\ \A k : (Free(s, k) => Free(r, k)) /\ (Once(s, k) => Once(r, k))
             /\ \A x, T : m.type \notin T =>
                  (Led(s, x, T) => Led(r, x, T)) /\ (Said(s, T) => Said(r, T))
  <2>1. m \in Message
    BY DEF Taken
  <2> QED
    BY <1>1, <2>1, TailStream
<1>2. /\ Sent225(d) = Sent225(c) \/ (Sent225(d) \in Seq(Message) /\ Sent225(c) = << m >> \o Sent225(d))
      /\ Sent245(d) = Sent245(c) \/ (Sent245(d) \in Seq(Message) /\ Sent245(c) = << m >> \o Sent245(d))
  BY DEF Taken
<1>3. /\ \A k : (Free(Sent225(c), k) => Free(Sent225(d), k)) /\ (Once(Sent225(c), k) => Once(Sent225(d), k))
      /\ \A x, T : m.type \notin T => /\ Led(Sent225(c), x, T) => Led(Sent225(d), x, T)
                                      /\ Said(Sent225(c), T) => Said(Sent225(d), T)
  BY <1>1, <1>2
<1>4. /\ \A k : (Free(Sent245(c), k) => Free(Sent245(d), k)) /\ (Once(Sent245(c), k) => Once(Sent245(d), k))
      /\ \A x, T : m.type \notin T => /\ Led(Sent245(c), x, T) => Led(Sent245(d), x, T)
                                      /\ Said(Sent245(c), T) => Said(Sent245(d), T)
  BY <1>1, <1>2
<1> QED
  BY <1>3, <1>4

(* What the peer has written has been read, and is to be handled.           *)
LEMMA TakenFits ==
  ASSUME NEW will, NEW o, NEW k, NEW e, NEW p, NEW a, NEW b0 \in Call, NEW b, NEW m,
         NEW tunnelled \in BOOLEAN, Taken(m, tunnelled, b0, b), Fit(will, o, "nothing", e, p, a, b0),
         \/ k = m.type
         \/ tunnelled /\ ~Tunnels(b0) /\ m.type # "ReleaseComplete" /\ k = "nothing"
  PROVE  Fit(will, o, k, e, p, a, b)
<1>1. /\ (Tunnels(b) <=> Tunnels(b0)) /\ (Dormant(b) <=> Dormant(b0)) /\ Final(b) = Final(b0)
      /\ (Up(b) <=> Up(b0)) /\ (Runs(b) <=> Runs(b0)) /\ (Hears(b) <=> Hears(b0))
      /\ (Linked(b) <=> Linked(b0))
  BY TakenSame
<1>2. /\ \A t \in Steps : (Done(t, b) <=> Done(t, b0)) /\ (Given(t, b) <=> Given(t, b0))
      /\ b.localTermCapState = b0.localTermCapState
      /\ b.remoteTermCapState = b0.remoteTermCapState
      /\ b.remoteTermCapSeqNo = b0.remoteTermCapSeqNo
  BY TakenSteps
<1>3. \A q : /\ Free(Sent225(b0), q) => Free(Sent225(b), q)
             /\ Free(Sent245(b0), q) => Free(Sent245(b), q)
             /\ Once(Sent225(b0), q) => Once(Sent225(b), q)
             /\ Once(Sent245(b0), q) => Once(Sent245(b), q)
  BY TakenStreams
<1>4. \A x, T : m.type \notin T =>
        /\ Led(Sent225(b0), x, T) => Led(Sent225(b), x, T)
        /\ Led(Sent245(b0), x, T) => Led(Sent245(b), x, T)
        /\ Said(Sent225(b0), T) => Said(Sent225(b), T)
        /\ Said(Sent245(b0), T) => Said(Sent245(b), T)
  BY TakenStreams
<1>5. /\ b.callState = b0.callState /\ b.releaseBuilt = b0.releaseBuilt
      /\ b.h225Sock = b0.h225Sock /\ b.h245Sock = b0.h245Sock
      /\ b.h245listener = b0.h245listener /\ b.timers = b0.timers /\ b.h225Out = b0.h225Out
  BY DEF Taken
<1>6. /\ HalfK("nothing", a, b0) /\ HalfK("nothing", b0, a) /\ Carries(o, a, b0)
      /\ e = Caller => Start(will, a, b0)
      /\ p = Caller => Start(will, b0, a)
  BY DEF Fit
<1>7. Local(b0) /\ Local(a)
  BY <1>6 DEF HalfK
<1>8. Local(b)
  <2>1. Quieted(b) /\ Acked(b)
    BY <1>1, <1>2, <1>3, <1>7 DEF Local, Quieted, Mute, Acked
  <2>2. Joined(b) /\ Parting(b)
    BY <1>1, <1>3, <1>5, <1>7 DEF Local, Joined, Parting
  <2> QED
    BY <2>1, <2>2 DEF Local
<1>9. HalfK("nothing", b, a)
  <2>1. \A t \in Steps : Brief(t, b0, a)
    <3>1. \A t \in Steps : "nothing" \notin {t, Final(a)}
      BY DEF Steps, Final
    <3> QED
      BY <1>6, <3>1 DEF HalfK
  <2>2. \A t \in Steps : Brief(t, b, a)
    BY <1>1, <1>2, <2>1 DEF Brief
  <2>3. OneSet(b, a) /\ Closing(b, a)
    BY <1>1, <1>2, <1>6 DEF HalfK, OneSet, Closing
  <2> QED
    BY <1>8, <2>2, <2>3 DEF HalfK
<1>11. HalfK(k, a, b)
  <2>1. /\ \A q : /\ Free(Line(b0), q) => Free(Line(b), q)
                  /\ Once(Line(b0), q) => Once(Line(b), q)
        /\ \A x, T : m.type \notin T =>
             /\ Led(Line(b0), x, T) => Led(Line(b), x, T)
             /\ Said(Line(b0), T) => Said(Line(b), T)
    BY <1>1, <1>3, <1>4 DEF Line
  <2>2. k = "nothing" /\ tunnelled /\ ~Tunnels(b0) => Line(b) = Line(b0)
    BY <1>1 DEF Line, Taken
  <2>3. ASSUME NEW t \in Steps, k \notin {t, Final(b)}
        PROVE  Brief(t, a, b)
    <3>1. Brief(t, a, b0)
      <4>1. "nothing" \notin {t, Final(b0)}
        BY DEF Steps, Final
      <4> QED
        BY <1>6, <4>1 DEF HalfK
    <3>2. Line(b) = Line(b0) \/ m.type \notin {t, Final(b)}
      BY <2>2, <2>3
    <3> QED
      BY <1>1, <1>2, <2>1, <3>1, <3>2 DEF Brief
  <2>4. OneSet(a, b)
    BY <1>2, <1>6, <2>1 DEF HalfK, OneSet
  <2>5. ASSUME k # "ReleaseComplete"
        PROVE  Closing(a, b)
    <3>1. m.type # "ReleaseComplete"
      BY <2>5
    <3>2. Closing(a, b0)
      BY <1>6 DEF HalfK
    <3>3. \A T : Said(b0.h225Net, T) => Said(b.h225Net, T) \/ m.type \in T
      BY DEF Taken
    <3>4. Said(b0.h225Net, {"ReleaseComplete"}) => Said(b.h225Net, {"ReleaseComplete"})
      BY <3>1, <3>3
    <3>5. Announces(b0) => Announces(b)
      BY <1>5, <3>4 DEF Announces, Released
    <3> QED
      BY <1>4, <3>1, <3>2, <3>5 DEF Closing
  <2> QED
    BY <1>7, <2>3, <2>4, <2>5 DEF HalfK
<1>12. /\ e = Caller => Start(will, a, b)
       /\ p = Caller => Start(will, b, a)
  <2>1. ASSUME e = Caller
        PROVE  Start(will, a, b)
    BY <1>1, <1>3, <1>5, <1>6, <2>1 DEF Start, Pending
  <2>2. ASSUME p = Caller
        PROVE  Start(will, b, a)
    BY <1>1, <1>3, <1>5, <1>6, <2>2 DEF Start, Pending
  <2> QED
    BY <2>1, <2>2
<1>13. Carries(o, a, b)
  BY <1>1, <1>6 DEF Carries
<1> QED
  BY <1>9, <1>11, <1>12, <1>13 DEF Fit

(* What the message says of the two ends.                                   *)
LEMMA TakenMet ==
  ASSUME NEW will, NEW o, NEW e \in Endpoint, NEW p \in Endpoint, NEW a \in Call, NEW b0 \in Call,
         NEW b, NEW m, NEW tunnelled \in BOOLEAN, Taken(m, tunnelled, b0, b),
         Fit(will, o, "nothing", e, p, a, b0), e = Caller \/ p = Caller,
         Roles(e, p, a, b0), m \in OnWay(b0),
         m.type = "TCS" => m.caps, m.type # "ReleaseComplete",
         Up(a), tunnelled <=> Tunnels(a)
  PROVE  Met(m, a, b)
<1>0. (Tunnels(b) <=> Tunnels(b0)) /\ (Dormant(b) <=> Dormant(b0))
  BY TakenSame
<1>1. /\ (Tunnels(b) <=> Tunnels(b0)) /\ (Dormant(b) <=> Dormant(b0))
      /\ b.localTermCapState = b0.localTermCapState
      /\ b.remoteTermCapState = b0.remoteTermCapState
  BY <1>0 DEF Taken, SameStart
<1>2. /\ HalfK("nothing", a, b0) /\ HalfK("nothing", b0, a)
      /\ e = Caller => Start(will, a, b0)
      /\ p = Caller => Start(will, b0, a)
  BY DEF Fit
<1>3. Local(b0) /\ Local(a) /\ OneSet(a, b0)
  BY <1>2 DEF HalfK
<1>4. /\ Sent225(b) \in Seq(Message) /\ Sent245(b) \in Seq(Message) /\ m \in Message
      /\ IF tunnelled THEN Sent225(b0) = << m >> \o Sent225(b)
         ELSE Sent245(b0) = << m >> \o Sent245(b)
  BY DEF Taken
<1>5. /\ tunnelled => \A k : (Free(Sent225(b0), k) => m.type # k)
                             /\ (Once(Sent225(b0), k) /\ m.type = k => Free(Sent225(b), k))
      /\ ~tunnelled => \A k : (Free(Sent245(b0), k) => m.type # k)
                              /\ (Once(Sent245(b0), k) /\ m.type = k => Free(Sent245(b), k))
  <2>1. CASE tunnelled
    BY <1>4, <2>1, TailStream
  <2>2. CASE ~tunnelled
    BY <1>4, <2>2, TailStream
  <2> QED
    BY <2>1, <2>2
<1>6. m.type \in {"TCS", "TCSAck"} => ~Dormant(b0)
  BY <1>3, <1>5 DEF Local, Quieted, Mute
<1>7. m.type = "MSD" => ~Dormant(b0)
  <2>1. m.type = "MSD" => b0.masterSlaveState # "Idle"
    BY DEF Roles, HalfRoles, Numbered
  <2> QED
    BY <2>1 DEF Dormant
<1>8. m.type = "MSDAck" => RoleDecided(b0) /\ ~Dormant(b0)
  <2>1. m.type = "MSDAck" => RoleDecided(b0)
    BY DEF Roles, HalfRoles, Acks
  <2> QED
    BY <2>1 DEF Dormant, RoleDecided
<1>9. Tunnels(a) \/ a.h245Sock # "none"
  BY DEF Up
<1>10. m.type \in {"TCS", "TCSAck", "MSD", "MSDAck"} => Moving(a, b)
  BY <1>1, <1>6, <1>7, <1>8, <1>9 DEF Moving
<1>11. ASSUME m.type = "TCS"
       PROVE  m.caps /\ a.remoteTermCapSeqNo = 0 /\ b.localTermCapState # "Idle" /\ Free(Line(b), "TCS")
  <2>1. ~Dormant(b0)
    BY <1>6, <1>11
  <2>2. Tunnels(a) <=> Tunnels(b0)
    BY <1>2, <2>1 DEF Start
  <2>3. ~Free(Line(b0), "TCS") /\ Free(Line(b), "TCS")
    BY <1>1, <1>3, <1>5, <1>11, <2>2 DEF Line, OneSet
  <2> QED
    BY <1>1, <1>3, <1>11, <2>3 DEF OneSet
<1>12. m.type = "TCSAck" => b.remoteTermCapState = "AckSent"
  BY <1>1, <1>3, <1>5 DEF Local, Acked
<1>13. m.type = "MSDAck" => a.masterSlaveState # "Idle"
  BY <1>8 DEF Roles, HalfRoles, Woken
<1>14. m.type = "MSDReject" => a.masterSlaveState = "DetermineSent"
  <2>1. m.type = "MSDReject" => Refuses(b0)
    BY DEF Refuses
  <2> QED
    BY <2>1 DEF Roles, HalfRoles, Rejects
<1> QED
  BY <1>10, <1>11, <1>12, <1>13, <1>14 DEF Met

(* A tunnelled EndSession, which both ends are past caring for.             *)
LEMMA EndedFits ==
  ASSUME NEW will, NEW o, NEW e, NEW p, NEW a \in Call, NEW b, NEW w, o.w = w,
         Fit(will, o, "EndSession", e, p, a, b), ~Runs(a), ~Runs(b), Tunnels(a)
  PROVE  Fit(will, o, "nothing", e, p, HandleEndSession(w, a), b)
<1>1. CASE a.h245SessionState = "ENDSENT"
  <2> DEFINE x == StopTimer(a, "SESSION", 0)
             d == CloseH245(x)
  <2>1. Near(a, x)
    BY TimerNear DEF TimerType
  <2>2. HandleEndSession(w, a) = d
    BY <1>1 DEF HandleEndSession
  <2> HIDE DEF x
  <2>3. x \in Call
    BY <2>1, NearType
  <2>4. Calm(w, x, d)
    BY <2>3, CloseH245Calm
  <2> HIDE DEF d
  <2>5. Calm(w, a, d)
    BY <2>1, <2>4, NearThenCalm
  <2>6. Fit(will, o, "EndSession", e, p, d, b)
    BY <2>5, CalmFits
  <2>7. ~Runs(d)
    BY <2>5, StillSame DEF Calm, Ends
  <2>8. Fit(will, o, "nothing", e, p, d, b)
    BY <2>6, <2>7, HandledFits
  <2> QED
    BY <2>2, <2>8
<1>2. CASE a.h245SessionState # "ENDSENT"
  <2> DEFINE y == [a EXCEPT !.h245SessionState = "ENDRECVD"]
             x == ClearAllChans(y)
             m == Msg("EndSession")
             q == << m >>
             d == [x EXCEPT !.h225Out = q]
  <2>1. Near(a, y)
    BY FieldsNear DEF SessionState
  <2>2. HandleEndSession(w, a) = SendH245(w, x, m)
    BY <1>2 DEF HandleEndSession
  <2> HIDE DEF y
  <2>3. y \in Call
    BY <2>1, NearType
  <2>4. Near(y, x)
    BY <2>3, ChansNear
  <2> HIDE DEF x
  <2>5. Near(a, x) /\ x \in Call
    BY <2>1, <2>4, NearTransitive, NearType
  <2>6. Tunnels(x)
    BY <2>5 DEF Near, SameStart
  <2>7. m \in Message /\ m.type = "EndSession" /\ q \in Seq(Message)
    BY DEF Msg, Message, Plain
  <2>8. SendH245(w, x, m) = d
    BY <2>6, <2>7 DEF SendH245, SendH225, Tunnels
  <2>9. /\ Still(x, d) /\ Sent225(d) = x.h225Net \o q /\ Sent245(d) = Sent245(x)
    BY <2>5, <2>7, OutStill
  <2>10. /\ Fit(will, o, "EndSession", e, p, x, b) /\ ~Runs(x)
    <3>1. Fit(will, o, "EndSession", e, p, x, b)
      BY <2>5, NearFits
    <3>2. Calm(w, a, x)
      BY <2>5, NearCalm
    <3> QED
      BY <3>1, <3>2, StillSame DEF Calm, Ends
  <2> HIDE DEF d
  <2>11. ~Runs(d)
    BY <2>5, <2>9, <2>10, StillSame
  <2>12. Lighter(x, d)
    <3>1. x.h225Net \in Seq(Message) /\ x.h225Out \in Seq(Message)
      BY <2>5 DEF Call
    <3>2. m.type \notin Counted
      BY <2>7 DEF Counted
    <3> HIDE DEF m
    <3>3. Thin(x.h225Net \o x.h225Out, x.h225Net \o << m >>)
      BY <2>7, <3>1, <3>2, ReplacedKeeps
    <3>4. Thin(Sent225(x), Sent225(d))
      BY <2>9, <3>3 DEF Sent225
    <3>5. Thin(Sent245(x), Sent245(d))
      BY <2>9, SameStream
    <3> QED
      BY <2>9, <2>11, <3>4, <3>5 DEF Lighter
  <2>13. Fit(will, o, "EndSession", e, p, d, b)
    <3>1. ~Hears(b)
      BY DEF Hears
    <3> QED
      BY <2>5, <2>9, <2>10, <2>12, <3>1, KeptFits
  <2>14. Fit(will, o, "nothing", e, p, d, b)
    BY <2>11, <2>13, HandledFits
  <2> QED
    BY <2>2, <2>8, <2>14
<1> QED
  BY <1>1, <1>2

(* EndSession is tunnelled only when both calls are over.                   *)
LEMMA EndedBoth ==
  ASSUME NEW will, NEW o, NEW k, NEW e, NEW p, NEW a, NEW b0 \in Call, NEW b, NEW m,
         Taken(m, TRUE, b0, b), Fit(will, o, "nothing", e, p, a, b0), m.type = "EndSession"
  PROVE  ~Runs(a) /\ ~Runs(b)
<1>1. HalfK("nothing", a, b0) /\ HalfK("nothing", b0, a)
  BY DEF Fit
<1>2. /\ Sent225(b) \in Seq(Message) /\ m \in Message /\ Sent225(b0) = << m >> \o Sent225(b)
  BY DEF Taken
<1>3. /\ \A q : Free(Sent225(b0), q) => m.type # q
      /\ \A x, T : Led(Sent225(b0), x, T) => m.type # x
  BY <1>2, TailStream
<1>4. ~Runs(b0)
  BY <1>1, <1>3 DEF HalfK, Local, Parting
<1>5. ~Runs(a)
  BY <1>1, <1>3 DEF HalfK, Closing
<1> QED
  BY <1>4, <1>5, TakenSame

(* An H.245 message from either connection.                                 *)
LEMMA H245ReadFits ==
  ASSUME NEW F, NEW A, NEW will, NEW o, NEW e \in Endpoint, NEW p \in Endpoint,
         NEW a \in Call, NEW b0 \in Call, NEW b, NEW w \in World, o.w = w,
         NEW m, NEW tunnelled \in BOOLEAN, Taken(m, tunnelled, b0, b),
         Fit(will, o, "nothing", e, p, a, b0), Good(F, A, e, p, a, b0), e = Caller \/ p = Caller,
         m \in OnWay(b0), tunnelled => m.type # "ReleaseComplete",
         Up(a), tunnelled <=> Tunnels(a)
  PROVE  Fit(will, o, "nothing", e, p, HandleH245Message(e, w, a, m), b)
<1>1. m \in Message /\ b \in Call
  BY DEF Taken
<1>2. m.type # "ReleaseComplete"
  <2>1. Free(Sent245(b0), "ReleaseComplete")
    BY DEF Fit, HalfK, Local, Parting
  <2>2. ~tunnelled => Sent245(b0) = << m >> \o Sent245(b) /\ Sent245(b) \in Seq(Message)
    BY DEF Taken
  <2>3. ~tunnelled => \A q : Free(Sent245(b0), q) => m.type # q
    BY <1>1, <2>2, TailStream
  <2> QED
    BY <2>1, <2>3
<1>3. Fit(will, o, m.type, e, p, a, b)
  BY TakenFits
<1>4. CASE m.type = "EndSession" /\ tunnelled
  <2>1. ~Runs(a) /\ ~Runs(b)
    BY <1>4, EndedBoth
  <2>2. HandleH245Message(e, w, a, m) = HandleEndSession(w, a)
    BY <1>4 DEF HandleH245Message
  <2> QED
    BY <1>3, <1>4, <2>1, <2>2, EndedFits
<1>5. CASE ~(m.type = "EndSession" /\ tunnelled)
  <2>1. Roles(e, p, a, b0) /\ (m.type = "TCS" => m.caps)
    BY DEF Good, Sound, Caps
  <2>2. Met(m, a, b)
    BY <1>2, <2>1, TakenMet
  <2> QED
    BY <1>1, <1>3, <1>5, <2>2, HandleH245Fits
<1> QED
  BY <1>4, <1>5

(* ooH245Receive                                                            *)
LEMMA ServeH245Fits ==
  ASSUME NEW F, NEW A, NEW will, NEW o, NEW e \in Endpoint, NEW p \in Endpoint,
         NEW a, NEW b, NEW w \in World, o.w = w,
         NEW ready, ready.h245 \in Arrival,
         Fit(will, o, "nothing", e, p, a, b), Good(F, A, e, p, a, b), e = Caller \/ p = Caller,
         ready.h245 \notin {Nothing, Eof} => b.h245Net # << >> /\ ready.h245 = Head(b.h245Net)
  PROVE  Fit(will, o, "nothing", e, p, ServeH245(e, w, a, ready.h245), Left245(b, a, ready))
<1> DEFINE arrived == ready.h245
<1>1. a \in Call /\ b \in Call /\ a.h245SessionState # "PAUSED"
  BY DEF Good, Sound, Caps
<1>2. CASE ServesH245(a, arrived) /\ arrived # Eof
  <2>1. b.h245Net # << >> /\ arrived = Head(b.h245Net) /\ a.h245Sock = "open"
    BY <1>2 DEF ServesH245
  <2>2. Taken(arrived, FALSE, b, Read245(b))
    BY <1>1, <2>1, HeadTaken
  <2>3. arrived \in OnWay(b)
    BY <1>1, <2>1, ReadRoutine DEF OnWay
  <2>4. ~Tunnels(a) /\ Up(a)
    <3>1. ~Tunnels(a)
      BY <2>1 DEF Fit, HalfK, Local, Joined
    <3> QED
      BY <2>1, <3>1 DEF Up
  <2>5. ServeH245(e, w, a, arrived) = HandleH245Message(e, w, a, arrived)
    BY <1>1, <1>2, ServeH245Cases
  <2>6. Fit(will, o, "nothing", e, p, HandleH245Message(e, w, a, arrived), Read245(b))
    BY <1>1, <2>2, <2>3, <2>4, H245ReadFits
  <2> QED
    BY <1>2, <2>5, <2>6 DEF Left245
<1>3. CASE ~(ServesH245(a, arrived) /\ arrived # Eof)
  <2>1. Calm(w, a, a) /\ Calm(w, a, ReceiveH245Fails(a))
    BY <1>1, NearReflexive, ReceiveH245FailsCalm
  <2>2. ServeH245(e, w, a, arrived) \in {a, ReceiveH245Fails(a)}
    BY <1>3 DEF ServeH245
  <2>3. Calm(w, a, ServeH245(e, w, a, arrived))
    BY <2>1, <2>2
  <2>4. Fit(will, o, "nothing", e, p, ServeH245(e, w, a, arrived), b)
    BY <1>1, <2>3, CalmFits
  <2> QED
    BY <1>3, <2>4 DEF Left245
<1> QED
  BY <1>2, <1>3

-----------------------------------------------------------------------------
(* The connection for H.245                                                 *)

(* What an end does with a connection it has, made or accepted.             *)
OpenH245(e, w, c) ==
  SendMSD(e, w, SendTermCap(w, [c EXCEPT !.h245Sock = "open", !.h245SessionState = "ACTIVE"]))

LEMMA OpenFieldsFrame ==
  ASSUME NEW a \in Call
  PROVE  LET c == [a EXCEPT !.h245Sock = "open", !.h245SessionState = "ACTIVE"]
         IN  /\ Frame(a, c) /\ SameFlows(a, c) /\ c.h245Sock = "open" /\ c.timers = a.timers
             /\ c.localTermCapState = a.localTermCapState
             /\ c.remoteTermCapState = a.remoteTermCapState
             /\ c.remoteTermCapSeqNo = a.remoteTermCapSeqNo
             /\ c.masterSlaveState = a.masterSlaveState
<1> DEFINE c == [a EXCEPT !.h245Sock = "open", !.h245SessionState = "ACTIVE"]
<1>1. c \in Call
  BY DEF Call, Socket, SessionState
<1>2. /\ c.h245Sock = "open" /\ c.timers = a.timers
      /\ c.localTermCapState = a.localTermCapState
      /\ c.remoteTermCapState = a.remoteTermCapState
      /\ c.remoteTermCapSeqNo = a.remoteTermCapSeqNo
      /\ c.masterSlaveState = a.masterSlaveState /\ c.flags = a.flags
  BY DEF Call
<1>3. SameFlows(a, c)
  BY DEF SameFlows, Call
<1>4. /\ c.callState = a.callState /\ c.releaseBuilt = a.releaseBuilt
      /\ c.epFlags = a.epFlags /\ c.remoteH245Port = a.remoteH245Port
      /\ c.h225Sock = a.h225Sock /\ c.h225Net = a.h225Net /\ c.h245listener = a.h245listener
  BY DEF Call
<1> HIDE DEF c
<1>5. Frame(a, c)
  BY <1>1, <1>2, <1>4 DEF Frame, Tunnels, Has
<1> QED
  BY <1>2, <1>3, <1>5 DEF c

LEMMA OpenH245Fits ==
  ASSUME NEW will, NEW o, NEW k, NEW e \in Endpoint, NEW p, NEW a \in Call, NEW b,
         NEW w \in World, Fit(will, o, k, e, p, a, b), e = Caller \/ p = Caller,
         a.h245Sock = "none", ~Tunnels(a), ~Tunnels(b), ~o.none, Hears(b) => o.w.ok,
         \A t \in a.timers : t.type # "H245CONNECT",
         e = Caller => ~Pending(will, a, b),
         p = Caller => ~Dormant(b) /\ b.h245Sock # "none"
  PROVE  Fit(will, o, k, e, p, OpenH245(e, w, a), b)
<1> DEFINE c == [a EXCEPT !.h245Sock = "open", !.h245SessionState = "ACTIVE"]
           d == SendTermCap(w, c)
<1>1. /\ Frame(a, c) /\ SameFlows(a, c) /\ c.h245Sock = "open" /\ c.timers = a.timers
      /\ c.localTermCapState = a.localTermCapState
      /\ c.remoteTermCapState = a.remoteTermCapState
      /\ c.remoteTermCapSeqNo = a.remoteTermCapSeqNo
      /\ c.masterSlaveState = a.masterSlaveState
  BY OpenFieldsFrame
<1>2. OpenH245(e, w, a) = SendMSD(e, w, d)
  BY DEF OpenH245
<1> HIDE DEF c
<1>3. Dormant(a)
  BY DEF Fit, HalfK, Local, Joined
<1>4. Opened(o, p, a, b, c)
  BY <1>1 DEF Opened
<1>5. Ripe(will, o, e, p, a, b, c)
  BY <1>1, <1>4 DEF Ripe
<1>6. a.localTermCapState = "Idle"
  BY <1>3 DEF Dormant
<1>7. Fit(will, o, k, e, p, d, b) /\ Frame(a, d) /\ d.localTermCapState = "SetSent"
  BY <1>1, <1>3, <1>5, <1>6, SendTermCapFits
<1> HIDE DEF d
<1>8. d \in Call /\ ~Dormant(d)
  BY <1>7 DEF Frame, Dormant
<1>9. Fit(will, o, k, e, p, SendMSD(e, w, d), b)
  BY <1>7, <1>8, SendMSDFits
<1> QED
  BY <1>2, <1>9

-----------------------------------------------------------------------------
(* Before the start-up                                                      *)

(* As long as nothing has begun, an end may change how it signals.          *)
LEMMA DormantFits ==
  ASSUME NEW will, NEW o, NEW k, NEW e, NEW p, NEW a \in Call, NEW b, NEW d \in Call,
         Fit(will, o, k, e, p, a, b), Dormant(a), Dormant(b), SameFlows(a, d),
         d.callState = a.callState, d.releaseBuilt = a.releaseBuilt, d.epFlags = a.epFlags,
         d.h225Sock = a.h225Sock, d.h245Sock = "none", a.h245Sock = "none",
         d.h245listener = a.h245listener,
         d.localTermCapState = a.localTermCapState, d.remoteTermCapState = a.remoteTermCapState,
         d.remoteTermCapSeqNo = a.remoteTermCapSeqNo, d.masterSlaveState = a.masterSlaveState,
         \A t \in d.timers : t.type = "H245CONNECT" => t.chan = 0 /\ p # Caller,
         e = Caller => (Linked(d) => ~Tunnels(b)) /\ (Pending(will, a, b) => ~Linked(d)),
         p = Caller => (Linked(b) => ~Tunnels(d))
  PROVE  Fit(will, o, k, e, p, d, b)
<1>1. /\ Sent225(d) = Sent225(a) /\ Sent245(d) = Sent245(a)
      /\ d.h225Net = a.h225Net /\ d.h225Out = a.h225Out
  BY DEF SameFlows, Sent225, Sent245
<1>2. Dormant(d) /\ (Runs(d) <=> Runs(a)) /\ ~RoleDecided(d) /\ ~RoleDecided(b)
  BY DEF Dormant, Runs, RoleDecided
<1>3. /\ HalfK(k, a, b) /\ HalfK("nothing", b, a) /\ Carries(o, a, b)
      /\ e = Caller => Start(will, a, b)
      /\ p = Caller => Start(will, b, a)
  BY DEF Fit
<1>4. Mute(a) /\ Mute(b) /\ Mute(d)
  <2>1. Mute(a) /\ Mute(b)
    BY <1>3 DEF HalfK, Local, Quieted
  <2> QED
    BY <1>1, <2>1 DEF Mute
<1>5. \A q \in {"TCS", "TCSAck", "OLC"} :
        /\ Free(Line(d), q) /\ Free(Line(b), q)
  BY <1>4 DEF Mute, Line
<1>6. \A s, x, T : Free(s, x) => Led(s, x, T) /\ Once(s, x)
  BY DEF Free, Led, Once
<1>7. \A t \in Steps : ~Given(t, d) /\ ~Given(t, b)
  BY <1>2 DEF Given, Steps, Dormant
<1>8. \A t \in Steps : Brief(t, d, b) /\ Brief(t, b, d)
  BY <1>5, <1>6, <1>7 DEF Brief
<1>9. OneSet(d, b) /\ OneSet(b, d)
  <2>1. a.localTermCapState = "Idle" /\ b.localTermCapState = "Idle"
    BY DEF Dormant
  <2>2. a.remoteTermCapSeqNo = 0 /\ b.remoteTermCapSeqNo = 0
    BY <1>3, <2>1 DEF HalfK, OneSet
  <2> QED
    BY <1>5, <1>6, <2>2 DEF OneSet
<1>10. (Announces(d) <=> Announces(a)) /\ (Announced(d) <=> Announced(a))
  BY <1>1 DEF Announces, Announced, Released
<1>11. (k # "ReleaseComplete" => Closing(d, b)) /\ Closing(b, d)
  <2>1. (k # "ReleaseComplete" => Closing(a, b)) /\ Closing(b, a)
    BY <1>3 DEF HalfK
  <2> QED
    BY <1>1, <1>2, <1>10, <2>1 DEF Closing
<1>12. Local(d) /\ Local(b)
  <2>1. Local(a) /\ Local(b)
    BY <1>3 DEF HalfK
  <2>2. Quieted(d) /\ Acked(d) /\ Parting(d)
    BY <1>1, <1>2, <1>4, <2>1 DEF Quieted, Acked, Local, Parting, Mute
  <2>3. Joined(d)
    BY <1>2 DEF Joined
  <2> QED
    BY <2>1, <2>2, <2>3 DEF Local
<1>13. HalfK(k, d, b) /\ HalfK("nothing", b, d)
  BY <1>8, <1>9, <1>11, <1>12 DEF HalfK
<1>14. /\ e = Caller => Start(will, d, b)
       /\ p = Caller => Start(will, b, d)
  <2>1. ASSUME e = Caller
        PROVE  Start(will, d, b)
    <3>1. Pending(will, d, b) <=> Pending(will, a, b)
      BY <1>1 DEF Pending
    <3>2. Start(will, a, b)
      BY <1>3, <2>1
    <3> QED
      BY <1>2, <2>1, <3>1, <3>2 DEF Start
  <2>2. ASSUME p = Caller
        PROVE  Start(will, b, d)
    <3>1. Pending(will, b, d) <=> Pending(will, b, a)
      BY <1>1 DEF Pending
    <3>2. Start(will, b, a)
      BY <1>3, <2>2
    <3> QED
      BY <1>1, <1>2, <2>2, <3>1, <3>2 DEF Start
  <2> QED
    BY <2>1, <2>2
<1>15. Carries(o, d, b)
  BY <1>3, <1>10 DEF Carries
<1> QED
  BY <1>13, <1>14, <1>15 DEF Fit

(* The user of the called end may have less to say than was thought.        *)
LEMMA LessWill ==
  ASSUME NEW W, NEW V, NEW o, NEW k, NEW e, NEW p, NEW a, NEW b,
         Fit(W, o, k, e, p, a, b), V => W
  PROVE  Fit(V, o, k, e, p, a, b)
<1>1. \A x, y : Pending(V, x, y) => Pending(W, x, y)
  BY DEF Pending
<1>2. \A x, y : Start(W, x, y) => Start(V, x, y)
  BY <1>1 DEF Start
<1> QED
  BY <1>2 DEF Fit

(* ... or more, as long as the caller waits.                                *)
LEMMA MoreWill ==
  ASSUME NEW W, NEW o, NEW k, NEW e, NEW a, NEW b, e # Caller,
         Fit(W, o, k, e, Caller, a, b), Free(Sent225(a), "Connect"), Dormant(b), ~Linked(b)
  PROVE  Fit(TRUE, o, k, e, Caller, a, b)
<1>1. Start(W, b, a)
  BY DEF Fit
<1>2. Start(TRUE, b, a)
  BY <1>1 DEF Start
<1> QED
  BY <1>2 DEF Fit

(* Less is asked of the pass.                                               *)
LEMMA LessCarried ==
  ASSUME NEW will, NEW o, NEW q, NEW k, NEW e, NEW p, NEW a, NEW b,
         Fit(will, o, k, e, p, a, b), q.w = o.w, q.ep = o.ep,
         q.idle => o.idle, q.none => o.none
  PROVE  Fit(will, q, k, e, p, a, b)
<1>1. Carries(o, a, b)
  BY DEF Fit
<1>2. Carries(q, a, b)
  BY <1>1 DEF Carries
<1> QED
  BY <1>2 DEF Fit

-----------------------------------------------------------------------------
(* ooCreateH245Connection, when the caller knows where to.                  *)
LEMMA OpenH245Type ==
  ASSUME NEW e \in Endpoint, NEW w \in World, NEW a \in Call
  PROVE  OpenH245(e, w, a) \in Call /\ (Tunnels(OpenH245(e, w, a)) <=> Tunnels(a))
<1> DEFINE c == [a EXCEPT !.h245Sock = "open", !.h245SessionState = "ACTIVE"]
           d == SendTermCap(w, c)
<1>1. c \in Call /\ (Tunnels(c) <=> Tunnels(a))
  BY OpenFieldsFrame DEF Frame
<1>2. OpenH245(e, w, a) = SendMSD(e, w, d)
  BY DEF OpenH245
<1> HIDE DEF c
<1>3. Routine(c, d)
  BY <1>1, SendTermCapRoutine
<1>4. d \in Call /\ (Tunnels(d) <=> Tunnels(a))
  BY <1>1, <1>3 DEF Routine, Sends, Moves, Tunnels
<1> HIDE DEF d
<1>5. SendMSD(e, w, d) = d \/ Starts(e, d, SendMSD(e, w, d))
  BY <1>4, SendMSDStarts DEF SendMSD
<1> QED
  BY <1>2, <1>4, <1>5 DEF Starts, Moves, Tunnels

LEMMA CreateFits ==
  ASSUME NEW will, NEW o, NEW k, NEW e \in Endpoint, NEW p, NEW a \in Call, NEW b,
         NEW w \in World, o.w = w, Fit(will, o, k, e, p, a, b), e = Caller, p # Caller,
         a.h245Sock = "none", ~Tunnels(a), ~Tunnels(b), ~o.none, ~Pending(will, a, b),
         \A t \in a.timers : t.type # "H245CONNECT"
  PROVE  LET d == CreateH245Connection(e, w, a)
         IN  Fit(will, o, k, e, p, d, b) /\ d \in Call /\ ~Tunnels(d)
<1> DEFINE d == CreateH245Connection(e, w, a)
<1>2. CASE w.ok
  <2>1. d = OpenH245(e, w, a)
    BY <1>2 DEF CreateH245Connection, OpenH245
  <2>2. Fit(will, o, k, e, p, OpenH245(e, w, a), b)
    BY <1>2, OpenH245Fits
  <2> QED
    BY <2>1, <2>2, OpenH245Type
<1>3. CASE ~w.ok /\ a.h245ConnectionAttempts >= MaxConnectAttempts
  <2>1. d = MarkClear(a)
    BY <1>3 DEF CreateH245Connection
  <2>2. Near(a, MarkClear(a))
    BY MarkClearNear
  <2>3. Fit(will, o, k, e, p, MarkClear(a), b)
    BY <2>2, NearFits
  <2>4. MarkClear(a) \in Call /\ ~Tunnels(MarkClear(a))
    BY <2>2 DEF Near, SameStart
  <2> QED
    BY <2>1, <2>3, <2>4
<1>4. CASE ~w.ok /\ ~(a.h245ConnectionAttempts >= MaxConnectAttempts)
  <2> DEFINE x == StartTimer(a, "H245CONNECT", 0)
  <2>1. d = x
    BY <1>4 DEF CreateH245Connection
  <2>2. /\ x \in Call /\ SameFlows(a, x) /\ x.callState = a.callState
        /\ x.releaseBuilt = a.releaseBuilt /\ x.epFlags = a.epFlags
        /\ x.h225Sock = a.h225Sock /\ x.h245Sock = a.h245Sock
        /\ x.h245listener = a.h245listener
        /\ x.localTermCapState = a.localTermCapState
        /\ x.remoteTermCapState = a.remoteTermCapState
        /\ x.remoteTermCapSeqNo = a.remoteTermCapSeqNo
        /\ x.masterSlaveState = a.masterSlaveState
        /\ x.timers = a.timers \cup {TimerOf("H245CONNECT", 0)} /\ x.flags = a.flags
    <3>1. TimerOf("H245CONNECT", 0) \in Timer
      BY DEF TimerOf, Timer, TimerType
    <3>2. x \in Call /\ SameFlows(a, x)
      BY <3>1 DEF StartTimer, Call, SameFlows
    <3>3. /\ x.callState = a.callState /\ x.releaseBuilt = a.releaseBuilt /\ x.epFlags = a.epFlags
          /\ x.h225Sock = a.h225Sock /\ x.h245Sock = a.h245Sock
          /\ x.h245listener = a.h245listener
      BY DEF StartTimer, Call
    <3>4. /\ x.localTermCapState = a.localTermCapState
          /\ x.remoteTermCapState = a.remoteTermCapState
          /\ x.remoteTermCapSeqNo = a.remoteTermCapSeqNo
          /\ x.masterSlaveState = a.masterSlaveState
          /\ x.timers = a.timers \cup {TimerOf("H245CONNECT", 0)} /\ x.flags = a.flags
      BY DEF StartTimer, Call
    <3> QED
      BY <3>2, <3>3, <3>4
  <2>3. Dormant(a)
    BY DEF Fit, HalfK, Local, Joined
  <2>4. Dormant(b)
    BY <2>3 DEF Fit, Start
  <2>5. \A t \in x.timers : t.type = "H245CONNECT" => t.chan = 0
    BY <2>2 DEF TimerOf
  <2> HIDE DEF x
  <2>6. Fit(will, o, k, e, p, x, b)
    BY <2>2, <2>3, <2>4, <2>5, DormantFits
  <2> QED
    BY <2>1, <2>2, <2>6 DEF Tunnels, Has
<1> QED
  BY <1>2, <1>3, <1>4

(* ooTimerFireExpired.                                                      *)
LEMMA RetryFits ==
  ASSUME NEW will, NEW o, NEW k, NEW e \in Endpoint, NEW p, NEW a \in Call, NEW b,
         NEW w \in World, o.w = w, Fit(will, o, k, e, p, a, b), p # e, e = Caller \/ p = Caller,
         o.none => e # Caller, Apart(a), NEW t \in a.timers, t.type = "H245CONNECT"
  PROVE  Fit(will, o, k, e, p, FireTimer(e, w, a, t), b)
<1> DEFINE c == StopTimer(a, t.type, t.chan)
           n == c.h245ConnectionAttempts + 1
           x == [c EXCEPT !.h245ConnectionAttempts = n]
<1>1. e = Caller /\ p # Caller
  <2>1. p = Caller => Start(will, b, a)
    BY DEF Fit
  <2> QED
    BY <2>1 DEF Start
<1>2. Linked(a) /\ ~Tunnels(a) /\ ~Tunnels(b) /\ ~Pending(will, a, b)
  <2>1. Linked(a) /\ ~Tunnels(a)
    BY DEF Linked, Apart, Tunnels
  <2>2. Start(will, a, b)
    BY <1>1 DEF Fit
  <2> QED
    BY <2>1, <2>2 DEF Start
<1>3. \A q \in a.timers : q.type = "H245CONNECT" => q.chan = 0 /\ a.h245Sock = "none"
  BY DEF Fit, HalfK, Local, Joined
<1>4. t \in Timer /\ t = TimerOf("H245CONNECT", 0)
  <2>1. t \in Timer
    BY DEF Call
  <2> QED
    BY <1>3, <2>1 DEF Timer, TimerOf
<1>5. Near(a, c)
  BY <1>4, TimerNear DEF Timer
<1>6. c.timers = a.timers \ {TimerOf("H245CONNECT", 0)}
  BY <1>4 DEF StopTimer, Call, TimerOf
<1>7. FireTimer(e, w, a, t) = CreateH245Connection(e, w, x)
  BY DEF FireTimer
<1> HIDE DEF c
<1>8. c \in Call /\ n \in Nat
  <2>1. c \in Call
    BY <1>5, NearType
  <2>2. c.h245ConnectionAttempts \in Nat
    BY <2>1 DEF Call
  <2> QED
    BY <2>1, <2>2
<1>9. x.timers = c.timers
  BY <1>8 DEF Call
<1> HIDE DEF n
<1>10. Near(c, x)
  BY <1>8, FieldsNear
<1> HIDE DEF x
<1>11. Near(a, x)
  BY <1>5, <1>10, NearTransitive
<1>12. Fit(will, o, k, e, p, x, b) /\ x \in Call /\ x.h245Sock = a.h245Sock
  BY <1>11, NearFits
<1>13. x.h245Sock = "none" /\ ~Tunnels(x)
  BY <1>2, <1>3, <1>11, <1>12 DEF Near, SameStart
<1>14. ~Pending(will, x, b)
  <2>1. Sent225(x) = Sent225(a)
    BY <1>11 DEF Near, SameFlows, Sent225
  <2> QED
    BY <1>2, <2>1 DEF Pending
<1>15. \A q \in x.timers : q.type # "H245CONNECT"
  <2> SUFFICES ASSUME NEW q \in x.timers, q.type = "H245CONNECT"
               PROVE  FALSE
    OBVIOUS
  <2>1. q \in a.timers /\ q # TimerOf("H245CONNECT", 0)
    BY <1>6, <1>9
  <2>2. q \in Timer /\ q.chan = 0
    BY <1>3, <2>1 DEF Call
  <2> QED
    BY <2>1, <2>2 DEF Timer, TimerOf
<1>16. Fit(will, o, k, e, p, CreateH245Connection(e, w, x), b)
  BY <1>1, <1>2, <1>12, <1>13, <1>14, <1>15, CreateFits
<1> QED
  BY <1>7, <1>16

LEMMA FireExpiredFits ==
  ASSUME NEW will, NEW o, NEW k, NEW e \in Endpoint, NEW p, NEW a \in Call, NEW b,
         NEW w \in World, o.w = w, Fit(will, o, k, e, p, a, b), p # e, e = Caller \/ p = Caller,
         o.none => e # Caller, Apart(a), NEW expired \in SUBSET a.timers
  PROVE  Fit(will, o, k, e, p, FireExpired(e, w, a, expired), b)
<1>1. CASE expired = {}
  BY <1>1 DEF FireExpired
<1>2. CASE expired # {}
  <2> DEFINE t == CHOOSE t \in expired : TRUE
  <2>1. t \in expired
    BY <1>2
  <2>2. FireExpired(e, w, a, expired) = FireTimer(e, w, a, t)
    BY <1>2 DEF FireExpired
  <2> HIDE DEF t
  <2>3. t \in a.timers /\ t \in Timer
    BY <2>1 DEF Call
  <2>4. CASE t.type = "H245CONNECT"
    BY <2>2, <2>3, <2>4, RetryFits
  <2>5. CASE t.type # "H245CONNECT"
    <3>1. Calm(w, a, FireTimer(e, w, a, t))
      BY <2>3, <2>5, FireTimerCalm
    <3>2. Fit(will, o, k, e, p, FireTimer(e, w, a, t), b)
      BY <3>1, CalmFits
    <3> QED
      BY <2>2, <3>2
  <2> QED
    BY <2>4, <2>5
<1> QED
  BY <1>1, <1>2

-----------------------------------------------------------------------------
(* Connect at the caller, after the fast start in it.                       *)
LEMMA UntunnelFields ==
  ASSUME NEW a \in Call, NEW v \in BOOLEAN
  PROVE  LET d == [a EXCEPT !.flags = @ \ {"TUNNELING"}, !.remoteH245Port = v]
         IN  /\ d \in Call /\ SameFlows(a, d) /\ d.callState = a.callState
             /\ d.releaseBuilt = a.releaseBuilt /\ d.epFlags = a.epFlags
             /\ d.h225Sock = a.h225Sock /\ d.h245Sock = a.h245Sock
             /\ d.h245listener = a.h245listener
             /\ d.localTermCapState = a.localTermCapState
             /\ d.remoteTermCapState = a.remoteTermCapState
             /\ d.remoteTermCapSeqNo = a.remoteTermCapSeqNo
             /\ d.masterSlaveState = a.masterSlaveState
             /\ d.timers = a.timers /\ ~Tunnels(d) /\ d.remoteH245Port = v
<1> DEFINE d == [a EXCEPT !.flags = @ \ {"TUNNELING"}, !.remoteH245Port = v]
<1>1. d \in Call /\ d.remoteH245Port = v
  BY DEF Call
<1>2. ~Tunnels(d)
  BY DEF Call, Tunnels, Has
<1>3. SameFlows(a, d)
  BY DEF Call, SameFlows
<1>4. /\ d.callState = a.callState /\ d.releaseBuilt = a.releaseBuilt /\ d.epFlags = a.epFlags
      /\ d.h225Sock = a.h225Sock /\ d.h245Sock = a.h245Sock
      /\ d.h245listener = a.h245listener
  BY DEF Call
<1>5. /\ d.localTermCapState = a.localTermCapState
      /\ d.remoteTermCapState = a.remoteTermCapState
      /\ d.remoteTermCapSeqNo = a.remoteTermCapSeqNo
      /\ d.masterSlaveState = a.masterSlaveState /\ d.timers = a.timers
  BY DEF Call
<1> HIDE DEF d
<1> QED
  BY <1>1, <1>2, <1>3, <1>4, <1>5 DEF d

LEMMA UntunnelOnly ==
  ASSUME NEW a \in Call
  PROVE  LET d == [a EXCEPT !.flags = @ \ {"TUNNELING"}]
         IN  /\ d \in Call /\ SameFlows(a, d) /\ d.callState = a.callState
             /\ d.releaseBuilt = a.releaseBuilt /\ d.epFlags = a.epFlags
             /\ d.h225Sock = a.h225Sock /\ d.h245Sock = a.h245Sock
             /\ d.h245listener = a.h245listener
             /\ d.localTermCapState = a.localTermCapState
             /\ d.remoteTermCapState = a.remoteTermCapState
             /\ d.remoteTermCapSeqNo = a.remoteTermCapSeqNo
             /\ d.masterSlaveState = a.masterSlaveState
             /\ d.timers = a.timers /\ ~Tunnels(d)
  BY DEF Call, SameFlows, Tunnels, Has

LEMMA StartH245Fits ==
  ASSUME NEW will, NEW o, NEW k, NEW e \in Endpoint, NEW p, NEW a \in Call, NEW b,
         NEW w \in World, o.w = w, Fit(will, o, k, e, p, a, b), e = Caller, p # Caller,
         ~o.none, Dormant(a), Dormant(b), ~Linked(a), ~Pending(will, a, b),
         NEW m, m.tunneling \in BOOLEAN, m.h245 \in BOOLEAN,
         m.tunneling <=> Tunnels(b), m.h245 => ~m.tunneling
  PROVE  Fit(will, o, k, e, p, StartH245(e, w, a, m), b)
<1>1. /\ a.h245Sock = "none" /\ a.remoteH245Port = FALSE
      /\ \A t \in a.timers : t.type # "H245CONNECT"
  BY DEF Linked, Call
<1> DEFINE c1 == TakeH245Address(a, m)
           c2 == IF c1.remoteH245Port THEN CreateH245Connection(e, w, c1) ELSE c1
           c3 == IF m.tunneling THEN c2 ELSE [c2 EXCEPT !.flags = @ \ {"TUNNELING"}]
           d  == StartH245(e, w, a, m)
<1>2. d = IF Has(c3, "TUNNELING")
          THEN SendMSD(e, w, IF c3.localTermCapState = "Idle" THEN SendTermCap(w, c3) ELSE c3)
          ELSE c3
  BY DEF StartH245
<1>3. CASE m.h245
  <2>1. ~m.tunneling /\ ~Tunnels(b)
    BY <1>3
  <2>2. c1 = [a EXCEPT !.flags = @ \ {"TUNNELING"}, !.remoteH245Port = TRUE]
    BY <1>3, <2>1 DEF TakeH245Address
  <2> HIDE DEF c1
  <2>3. /\ c1 \in Call /\ SameFlows(a, c1) /\ c1.callState = a.callState
        /\ c1.releaseBuilt = a.releaseBuilt /\ c1.epFlags = a.epFlags
        /\ c1.h225Sock = a.h225Sock /\ c1.h245Sock = a.h245Sock
        /\ c1.h245listener = a.h245listener
        /\ c1.localTermCapState = a.localTermCapState
        /\ c1.remoteTermCapState = a.remoteTermCapState
        /\ c1.remoteTermCapSeqNo = a.remoteTermCapSeqNo
        /\ c1.masterSlaveState = a.masterSlaveState
        /\ c1.timers = a.timers /\ ~Tunnels(c1) /\ c1.remoteH245Port = TRUE
    BY <2>2, UntunnelFields
  <2>4. Fit(will, o, k, e, p, c1, b)
    BY <1>1, <2>1, <2>3, DormantFits
  <2>5. ~Pending(will, c1, b)
    <3>1. Sent225(c1) = Sent225(a)
      BY <2>3 DEF SameFlows, Sent225
    <3> QED
      BY <3>1 DEF Pending
  <2>6. c2 = CreateH245Connection(e, w, c1)
    BY <2>3
  <2> HIDE DEF c2
  <2>7. Fit(will, o, k, e, p, c2, b) /\ c2 \in Call /\ ~Tunnels(c2)
    BY <1>1, <2>1, <2>3, <2>4, <2>5, <2>6, CreateFits
  <2> DEFINE f == c2.flags \ {"TUNNELING"}
  <2>8. f \in SUBSET CallFlag /\ "TUNNELING" \notin f /\ c3 = [c2 EXCEPT !.flags = f]
    BY <2>1, <2>7 DEF Call
  <2> HIDE DEF f, c3
  <2>9. Near(c2, c3)
    BY <2>7, <2>8, FieldsNear
  <2>10. Fit(will, o, k, e, p, c3, b) /\ ~Tunnels(c3)
    <3>1. ~Tunnels(c3)
      BY <2>7, <2>9 DEF Near, SameStart
    <3> QED
      BY <2>7, <2>9, <3>1, NearFits
  <2> QED
    BY <1>2, <2>10 DEF Tunnels
<1>4. CASE ~m.h245
  <2>1. c1 = a
    BY <1>4 DEF TakeH245Address
  <2>2. c2 = a
    BY <1>1, <2>1
  <2>3. CASE ~m.tunneling
    <3>1. c3 = [a EXCEPT !.flags = @ \ {"TUNNELING"}]
      BY <2>2, <2>3
    <3> HIDE DEF c3
    <3>3. /\ c3 \in Call /\ SameFlows(a, c3) /\ c3.callState = a.callState
          /\ c3.releaseBuilt = a.releaseBuilt /\ c3.epFlags = a.epFlags
          /\ c3.h225Sock = a.h225Sock /\ c3.h245Sock = a.h245Sock
          /\ c3.h245listener = a.h245listener
          /\ c3.localTermCapState = a.localTermCapState
          /\ c3.remoteTermCapState = a.remoteTermCapState
          /\ c3.remoteTermCapSeqNo = a.remoteTermCapSeqNo
          /\ c3.masterSlaveState = a.masterSlaveState
          /\ c3.timers = a.timers /\ ~Tunnels(c3)
      BY <3>1, UntunnelOnly
    <3>4. ~Tunnels(b)
      BY <2>3
    <3>5. Fit(will, o, k, e, p, c3, b)
      BY <1>1, <3>3, <3>4, DormantFits
    <3> QED
      BY <1>2, <3>3, <3>5 DEF Tunnels
  <2>4. CASE m.tunneling
    <3>1. c3 = a /\ Tunnels(b)
      BY <2>2, <2>4
    <3>2. CASE ~Tunnels(a)
      BY <1>2, <3>1, <3>2 DEF Tunnels
    <3>3. CASE Tunnels(a)
      <4> DEFINE s == SendTermCap(w, a)
      <4>1. a.localTermCapState = "Idle"
        BY DEF Dormant
      <4>2. d = SendMSD(e, w, s)
        BY <1>2, <3>1, <3>3, <4>1 DEF Tunnels
      <4>3. Ripe(will, o, e, p, a, b, a)
        BY <3>1, <3>3 DEF Ripe
      <4>4. Frame(a, a) /\ SameFlows(a, a)
        BY DEF Frame, SameFlows
      <4>5. Fit(will, o, k, e, p, s, b) /\ Frame(a, s) /\ s.localTermCapState = "SetSent"
        BY <4>1, <4>3, <4>4, SendTermCapFits
      <4> HIDE DEF s
      <4>6. s \in Call /\ ~Dormant(s)
        BY <4>5 DEF Frame, Dormant
      <4>7. Fit(will, o, k, e, p, SendMSD(e, w, s), b)
        BY <4>5, <4>6, SendMSDFits
      <4> QED
        BY <4>2, <4>7
    <3> QED
      BY <3>2, <3>3
  <2> QED
    BY <2>3, <2>4
<1> QED
  BY <1>3, <1>4

(* ooHandleH2250Message, Connect.                                           *)
LEMMA HandleConnectFits ==
  ASSUME NEW F, NEW A, NEW will, NEW o, NEW e \in Endpoint, NEW p, NEW a, NEW b0, NEW b,
         NEW w \in World, o.w = w, NEW m, m.type = "Connect", Taken(m, TRUE, b0, b),
         Fit(will, o, "nothing", e, p, a, b0), Good(F, A, e, p, a, b0), e = Caller, p # Caller,
         ~o.none, m \in In225(b0)
  PROVE  Fit(will, o, "nothing", e, p, HandleConnect(e, w, a, m), b)
<1>1. a \in Call /\ b0 \in Call /\ Setting(p \in A, a, b0)
  BY DEF Good
<1>2. m \in Message /\ b \in Call /\ Sent225(b0) = << m >> \o Sent225(b) /\ Sent225(b) \in Seq(Message)
  BY DEF Taken
<1>3. /\ m.tunneling \in BOOLEAN /\ m.h245 \in BOOLEAN
  BY <1>2 DEF Message, Plain, ChanMsg
<1>4. /\ ~Free(Sent225(b0), "Connect") /\ (Once(Sent225(b0), "Connect") => Free(Sent225(b), "Connect"))
  BY <1>2, TailStream
<1>5. Fit(will, o, "nothing", e, p, a, b)
  <2>1. Fit(will, o, "Connect", e, p, a, b)
    BY <1>1, TakenFits
  <2> QED
    BY <2>1, HandledFits DEF Steps
<1>6. Start(will, a, b0)
  BY DEF Fit
<1>7. Pending(will, a, b0)
  BY <1>4 DEF Pending
<1>8. Dormant(a) /\ ~Linked(a) /\ ~will /\ Free(Sent225(b), "Connect") /\ Dormant(b0)
  BY <1>4, <1>6, <1>7 DEF Start
<1>9. Dormant(b) /\ (Tunnels(b) <=> Tunnels(b0))
  BY <1>1, <1>8, TakenSame
<1>10. Free(Sent225(a), "Setup")
  <2> SUFFICES ASSUME ~Free(Sent225(a), "Setup")
               PROVE  FALSE
    OBVIOUS
  <2>1. Invites(a)
    BY DEF Invites, In225, Free
  <2> QED
    BY <1>1, <2>1 DEF Setting, Unstarted
<1>11. ~Pending(will, a, b)
  BY <1>8, <1>10 DEF Pending
<1>12. (m.tunneling <=> Tunnels(b)) /\ (m.h245 => ~m.tunneling)
  BY <1>1, <1>9 DEF Setting, Tunnels
<1> DEFINE c  == StopTimer(a, "CALLESTB", 0)
           so == FastStartInConnect(c, m)
           x  == so.call
<1>13. HandleConnect(e, w, a, m) = IF so.ok THEN StartH245(e, w, x, m) ELSE x
  BY DEF HandleConnect
<1>14. Near(a, c) /\ c \in Call
  <2>1. Near(a, c)
    BY <1>1, TimerNear DEF TimerType
  <2> QED
    BY <2>1, NearType
<1> HIDE DEF c
<1>15. Near(c, x)
  BY <1>2, <1>14, FastStartInConnectNear
<1> HIDE DEF so
<1>16. Near(a, x)
  BY <1>1, <1>14, <1>15, NearTransitive
<1>17. /\ Fit(will, o, "nothing", e, p, x, b) /\ x \in Call /\ (Dormant(x) <=> Dormant(a))
       /\ x.h245Sock = a.h245Sock
  BY <1>1, <1>5, <1>16, NearFits
<1> HIDE DEF x
<1>18. ~Linked(x)
  <2>1. /\ x.h245listener => a.h245listener
        /\ \A t \in x.timers : t.type = "H245CONNECT" => t \in a.timers
        /\ x.remoteH245Port = a.remoteH245Port
    BY <1>16 DEF Near, SameStart
  <2> QED
    BY <1>8, <1>17, <2>1 DEF Linked
<1>19. ~Pending(will, x, b)
  <2>1. Sent225(x) = Sent225(a)
    BY <1>16 DEF Near, SameFlows, Sent225
  <2> QED
    BY <1>11, <2>1 DEF Pending
<1>20. Fit(will, o, "nothing", e, p, StartH245(e, w, x, m), b)
  BY <1>3, <1>8, <1>9, <1>12, <1>17, <1>18, <1>19, StartH245Fits
<1> QED
  BY <1>13, <1>17, <1>20

-----------------------------------------------------------------------------
(* The called end answers: what its user could still do is done.            *)
LEMMA ConnectFits ==
  ASSUME NEW o, NEW k, NEW e, NEW a \in Call, NEW b, NEW d, e # Caller,
         Fit(TRUE, o, k, e, Caller, a, b), Connects(a, d)
  PROVE  Fit(FALSE, o, k, e, Caller, d, b)
<1>1. PICK x \in Call, y \in Call, m \in Message, v \in BOOLEAN :
        /\ Near(a, x) /\ y = [x EXCEPT !.h245listener = v] /\ (v => x.h245listener \/ ~Tunnels(x))
        /\ m.type = "Connect" /\ d = SendH225(y, m)
  BY DEF Connects
<1>2. Fit(TRUE, o, k, e, Caller, x, b)
  BY <1>1, NearFits
<1> DEFINE q == Append(x.h225Out, m)
<1>3. x.h225Out \in Seq(Message) /\ x.h225Net \in Seq(Message) /\ q \in Seq(Message)
  <2>1. x.h225Out \in Seq(Message) /\ x.h225Net \in Seq(Message)
    BY DEF Call
  <2> QED
    BY <2>1
<1>4. d = [y EXCEPT !.h225Out = q]
  <2>1. y.h225Out = x.h225Out
    BY <1>1 DEF Call
  <2> QED
    BY <1>1, <2>1 DEF SendH225
<1> HIDE DEF q
<1>5. /\ d \in Call /\ d.h225Out = q /\ d.h225Net = x.h225Net
      /\ d.h245Out = x.h245Out /\ d.h245Net = x.h245Net
      /\ d.flags = x.flags /\ d.callState = x.callState /\ d.releaseBuilt = x.releaseBuilt
  <2>1. /\ y.h225Net = x.h225Net /\ y.h245Out = x.h245Out /\ y.h245Net = x.h245Net
        /\ y.flags = x.flags /\ y.callState = x.callState /\ y.releaseBuilt = x.releaseBuilt
    BY <1>1 DEF Call
  <2>2. /\ d \in Call /\ d.h225Out = q /\ d.h225Net = y.h225Net
        /\ d.h245Out = y.h245Out /\ d.h245Net = y.h245Net
        /\ d.flags = y.flags /\ d.callState = y.callState /\ d.releaseBuilt = y.releaseBuilt
    <3>1. d \in Call /\ d.h225Out = q
      BY <1>3, <1>4, OutStill DEF Still
    <3>2. /\ d.h225Net = y.h225Net /\ d.h245Out = y.h245Out /\ d.h245Net = y.h245Net
          /\ d.flags = y.flags /\ d.callState = y.callState /\ d.releaseBuilt = y.releaseBuilt
      BY <1>4 DEF Call
    <3> QED
      BY <3>1, <3>2
  <2> QED
    BY <2>1, <2>2
<1>6. /\ d.epFlags = x.epFlags /\ d.h225Sock = x.h225Sock /\ d.h245Sock = x.h245Sock
      /\ d.localTermCapState = x.localTermCapState
      /\ d.remoteTermCapState = x.remoteTermCapState
      /\ d.remoteTermCapSeqNo = x.remoteTermCapSeqNo
      /\ d.masterSlaveState = x.masterSlaveState /\ d.timers = x.timers
  <2>1. /\ y.epFlags = x.epFlags /\ y.h225Sock = x.h225Sock /\ y.h245Sock = x.h245Sock
        /\ y.localTermCapState = x.localTermCapState
        /\ y.remoteTermCapState = x.remoteTermCapState
        /\ y.remoteTermCapSeqNo = x.remoteTermCapSeqNo
        /\ y.masterSlaveState = x.masterSlaveState /\ y.timers = x.timers
    BY <1>1 DEF Call
  <2>2. /\ d.epFlags = y.epFlags /\ d.h225Sock = y.h225Sock /\ d.h245Sock = y.h245Sock
        /\ d.localTermCapState = y.localTermCapState
        /\ d.remoteTermCapState = y.remoteTermCapState
        /\ d.remoteTermCapSeqNo = y.remoteTermCapSeqNo
        /\ d.masterSlaveState = y.masterSlaveState /\ d.timers = y.timers
    BY <1>4 DEF Call
  <2> QED
    BY <2>1, <2>2
<1>7. Sent225(d) = Append(Sent225(x), m) /\ Sent245(d) = Sent245(x) /\ Sent225(x) \in Seq(Message)
  <2>1. x.h225Net \o Append(x.h225Out, m) = Append(Sent225(x), m) /\ Sent225(x) \in Seq(Message)
    BY SentAppends
  <2> QED
    BY <1>5, <2>1 DEF q, Sent225, Sent245
<1>8. /\ \A j : Free(Sent225(d), j) <=> Free(Sent225(x), j) /\ j # "Connect"
      /\ \A j : j # "Connect" /\ Once(Sent225(x), j) => Once(Sent225(d), j)
      /\ Free(Sent225(x), "Connect") => Once(Sent225(d), "Connect")
      /\ \A T : Said(Sent225(x), T) => Said(Sent225(d), T)
      /\ \A j, T : j # "Connect" /\ Led(Sent225(x), j, T) => Led(Sent225(d), j, T)
  <2>1. /\ \A j : Free(Append(Sent225(x), m), j) <=> Free(Sent225(x), j) /\ m.type # j
        /\ \A j : Once(Sent225(x), j) /\ (m.type # j \/ Free(Sent225(x), j))
                    => Once(Append(Sent225(x), m), j)
        /\ \A T : Said(Append(Sent225(x), m), T) <=> Said(Sent225(x), T) \/ m.type \in T
        /\ \A j, T : Led(Sent225(x), j, T) /\ (m.type # j \/ Said(Sent225(x), T))
                       => Led(Append(Sent225(x), m), j, T)
    BY <1>7, AppendStream
  <2>2. \A s, j : Free(s, j) => Once(s, j)
    BY DEF Free, Once
  <2>3. m.type = "Connect"
    BY <1>1
  <2> DEFINE z == Append(Sent225(x), m)
  <2>4. Sent225(d) = z
    BY <1>7
  <2> HIDE DEF z
  <2>5. \A j : Free(z, j) <=> Free(Sent225(x), j) /\ j # "Connect"
    BY <2>1, <2>3 DEF z
  <2>6. /\ \A j : j # "Connect" /\ Once(Sent225(x), j) => Once(z, j)
        /\ Free(Sent225(x), "Connect") => Once(z, "Connect")
    BY <2>1, <2>2, <2>3 DEF z
  <2>7. /\ \A T : Said(Sent225(x), T) => Said(z, T)
        /\ \A j, T : j # "Connect" /\ Led(Sent225(x), j, T) => Led(z, j, T)
    BY <2>1, <2>3 DEF z
  <2> QED
    BY <2>4, <2>5, <2>6, <2>7
<1>9. (Announces(x) => Announces(d)) /\ (Announced(x) <=> Announced(d))
  <2>1. (Released(d) <=> Released(x)) /\ (Announced(x) <=> Announced(d))
    BY <1>5, <1>6 DEF Released, Announced
  <2>2. x.h225Out # << >> => q # << >> /\ Head(q) = Head(x.h225Out)
    BY <1>1, <1>3, HeadKept DEF q
  <2> QED
    BY <1>5, <1>6, <2>1, <2>2 DEF Announces
<1>10. /\ (Tunnels(d) <=> Tunnels(x)) /\ (Runs(d) <=> Runs(x)) /\ (Hears(d) <=> Hears(x))
       /\ (Dormant(d) <=> Dormant(x)) /\ Final(d) = Final(x) /\ (Up(d) <=> Up(x))
       /\ (RoleDecided(d) <=> RoleDecided(x))
  BY <1>5, <1>6 DEF Tunnels, Has, Runs, Hears, Dormant, Final, Up, RoleDecided
<1>11. \A t \in Steps : (Done(t, d) <=> Done(t, x)) /\ (Given(t, d) <=> Given(t, x))
  BY <1>6, <1>10 DEF Done, Given, Steps
<1>12. /\ \A T : Said(Line(x), T) => Said(Line(d), T)
       /\ \A T : Led(Line(x), "OLC", T) => Led(Line(d), "OLC", T)
       /\ Free(Line(x), "TCS") => Free(Line(d), "TCS")
       /\ Free(Line(d), "TCS") => Free(Line(x), "TCS")
       /\ Once(Line(x), "TCS") => Once(Line(d), "TCS")
  BY <1>7, <1>8, <1>10 DEF Line
<1>13. HalfK(k, x, b) /\ HalfK("nothing", b, x) /\ Carries(o, x, b) /\ Start(TRUE, b, x)
  BY <1>2 DEF Fit
<1>14. HalfK("nothing", b, d)
  <2>1. \A t \in Steps : Brief(t, b, x) => Brief(t, b, d)
    BY <1>10, <1>11, <1>12 DEF Brief
  <2>2. OneSet(b, d)
    BY <1>6, <1>12, <1>13 DEF HalfK, OneSet
  <2>3. Closing(b, d)
    BY <1>8, <1>9, <1>13 DEF HalfK, Closing
  <2>4. \A t \in Steps : "nothing" \notin {t, Final(d)} /\ "nothing" \notin {t, Final(x)}
    BY DEF Steps, Final
  <2> QED
    BY <1>13, <2>1, <2>2, <2>3, <2>4 DEF HalfK
<1>15. Local(d)
  <2>1. Quieted(d)
    BY <1>7, <1>8, <1>10, <1>13 DEF HalfK, Local, Quieted, Mute
  <2>2. Joined(d)
    BY <1>6, <1>10, <1>13 DEF HalfK, Local, Joined
  <2>3. Parting(d)
    BY <1>5, <1>6, <1>7, <1>8, <1>10, <1>13 DEF HalfK, Local, Parting
  <2>4. Acked(d)
    BY <1>6, <1>7, <1>8, <1>13 DEF HalfK, Local, Acked
  <2> QED
    BY <2>1, <2>2, <2>3, <2>4 DEF Local
<1>16. HalfK(k, d, b)
  <2>1. \A t \in Steps : Brief(t, x, b) => Brief(t, d, b)
    BY <1>10, <1>11 DEF Brief
  <2>2. OneSet(d, b)
    BY <1>6, <1>13 DEF HalfK, OneSet
  <2>3. k # "ReleaseComplete" => Closing(d, b)
    BY <1>10, <1>13 DEF HalfK, Closing
  <2> QED
    BY <1>13, <1>15, <2>1, <2>2, <2>3 DEF HalfK
<1>17. Start(FALSE, b, d)
  <2>1. Dormant(b) /\ ~Linked(b) /\ Free(Sent225(x), "Connect")
    BY <1>13 DEF Start, Pending
  <2> QED
    BY <1>6, <1>8, <1>10, <1>13, <2>1 DEF Start
<1>18. Carries(o, d, b)
  BY <1>6, <1>9, <1>13 DEF Carries
<1> QED
  BY <1>14, <1>16, <1>17, <1>18 DEF Fit

(* Setup is read: the call has not begun.                                   *)
LEMMA SetupMet ==
  ASSUME NEW F, NEW A, NEW W, NEW o, NEW e, NEW p, NEW a, NEW b0, NEW b, NEW m, m.type = "Setup",
         Taken(m, TRUE, b0, b), Fit(W, o, "nothing", e, p, a, b0), Good(F, A, e, p, a, b0),
         e = Caller \/ p = Caller, p # e, m \in In225(b0)
  PROVE  /\ Fit(TRUE, o, "nothing", e, p, a, b) /\ p = Caller
         /\ Dormant(a) /\ Dormant(b) /\ a.h245Sock = "none" /\ ~Linked(b)
         /\ \A t \in a.timers : t.type # "H245CONNECT"
<1>1. a \in Call /\ b0 \in Call
  BY DEF Good
<1>2. p = Caller
  BY DEF Good, Setting
<1>3. Setting(e \in A, b0, a) /\ Invites(b0)
  BY <1>2 DEF Good, Invites
<1>4. Unstarted(a) /\ Unstarted(b0)
  BY <1>3 DEF Setting
<1>5. Free(Sent225(a), "Connect") /\ ~Linked(a) /\ ~Linked(b0)
  BY <1>4 DEF Unstarted, In225, Free
<1>6. ~Free(Sent225(b0), "Setup")
  <2>1. PICK i \in DOMAIN Sent225(b0) : Sent225(b0)[i] = m
    BY DEF In225
  <2> QED
    BY <2>1 DEF Free
<1>7. Dormant(b0) /\ Dormant(a)
  <2>1. Start(W, b0, a)
    BY <1>2 DEF Fit
  <2> QED
    BY <1>6, <2>1 DEF Start, Pending
<1>8. Dormant(b) /\ ~Linked(b)
  BY <1>1, <1>5, <1>7, TakenSame
<1>9. Fit(W, o, "nothing", e, p, a, b)
  <2>1. Fit(W, o, "Setup", e, p, a, b)
    BY <1>1, TakenFits
  <2> QED
    BY <2>1, HandledFits DEF Steps
<1>10. Fit(TRUE, o, "nothing", e, p, a, b)
  BY <1>2, <1>5, <1>8, <1>9, MoreWill
<1> QED
  BY <1>2, <1>5, <1>7, <1>8, <1>10 DEF Linked

(* ooOnReceivedSetup and what follows it at once.                           *)
LEMMA HandleSetupFits ==
  ASSUME NEW V, NEW o, NEW e \in Endpoint, NEW p, NEW a \in Call, NEW b, NEW m \in Message,
         m.type = "Setup", Fit(TRUE, o, "nothing", e, p, a, b), p = Caller, e # Caller,
         Dormant(a), Dormant(b), a.h245Sock = "none", ~Linked(b),
         \A t \in a.timers : t.type # "H245CONNECT",
         "AUTOANSWER" \in o.ep /\ "MANUALRINGBACK" \notin o.ep => ~V
  PROVE  Fit(V, o, "nothing", e, p, HandleSetup(e, a, m), b)
<1> DEFINE s  == SetUp(a, m)
           x  == SendCallProceeding(s)
           c1 == SendAlerting(e, x)
           d  == HandleSetup(e, a, m)
<1>1. d = CallAdmitted(e, x)
  BY DEF HandleSetup, SetUp
<1>2. s \in Call /\ SameFlows(a, s) /\ s.callState = a.callState
      /\ s.masterSlaveState = a.masterSlaveState
  BY SetUpFields
<1>3. /\ s.releaseBuilt = a.releaseBuilt /\ s.epFlags = a.epFlags
      /\ s.h225Sock = a.h225Sock /\ s.h245Sock = a.h245Sock
      /\ s.h245listener = a.h245listener
      /\ s.localTermCapState = a.localTermCapState
      /\ s.remoteTermCapState = a.remoteTermCapState
      /\ s.remoteTermCapSeqNo = a.remoteTermCapSeqNo /\ s.timers = a.timers
  BY DEF SetUp, Call
<1> HIDE DEF s
<1>4. Fit(TRUE, o, "nothing", e, p, s, b)
  BY <1>2, <1>3, DormantFits
<1>5. Calm(o.w, s, x)
  BY <1>2, ProgressCalm
<1>6. Fit(TRUE, o, "nothing", e, p, x, b) /\ x \in Call
  BY <1>2, <1>4, <1>5, CalmFits, CalmType
<1> HIDE DEF x
<1>7. x.epFlags = o.ep
  BY <1>6 DEF Fit, Carries
<1>8. CASE "MANUALRINGBACK" \in x.epFlags
  <2>1. d = x
    BY <1>1, <1>8 DEF CallAdmitted
  <2>2. Fit(V, o, "nothing", e, p, x, b)
    BY <1>6, LessWill
  <2> QED
    BY <2>1, <2>2
<1>9. CASE "MANUALRINGBACK" \notin x.epFlags
  <2>1. d = IF "AUTOANSWER" \in x.epFlags THEN AcceptCall(e, c1) ELSE c1
    BY <1>1, <1>9 DEF CallAdmitted, RingAndAnswer
  <2>2. Calm(o.w, x, c1)
    BY <1>6, ProgressCalm
  <2>3. Fit(TRUE, o, "nothing", e, p, c1, b) /\ c1 \in Call
    BY <1>6, <2>2, CalmFits, CalmType
  <2> HIDE DEF c1, d
  <2>4. CASE "AUTOANSWER" \in x.epFlags
    <3>1. Connects(c1, AcceptCall(e, c1))
      BY <2>3, AcceptCallConnects
    <3>2. Fit(FALSE, o, "nothing", e, Caller, AcceptCall(e, c1), b)
      BY <2>3, <3>1, ConnectFits
    <3>3. ~V
      BY <1>7, <1>9, <2>4
    <3>4. Fit(V, o, "nothing", e, p, AcceptCall(e, c1), b)
      BY <3>2, <3>3, LessWill
    <3> QED
      BY <2>1, <2>4, <3>4 DEF d
  <2>5. CASE "AUTOANSWER" \notin x.epFlags
    <3>1. Fit(V, o, "nothing", e, p, c1, b)
      BY <2>3, LessWill
    <3> QED
      BY <2>1, <2>5, <3>1 DEF d
  <2> QED
    BY <2>4, <2>5
<1> QED
  BY <1>8, <1>9

(* A tunnelled message to an end that does not tunnel is not looked at.     *)
LEMMA IgnoredFits ==
  ASSUME NEW F, NEW A, NEW will, NEW o, NEW e \in Endpoint, NEW p \in Endpoint, NEW a, NEW b0, NEW b,
         NEW m, Taken(m, TRUE, b0, b), Fit(will, o, "nothing", e, p, a, b0),
         Good(F, A, e, p, a, b0), e = Caller \/ p = Caller, ~Tunnels(a), m \in In225(b0),
         m.type # "ReleaseComplete"
  PROVE  Fit(will, o, "nothing", e, p, a, b)
<1>1. a \in Call /\ b0 \in Call /\ m \in Message /\ b \in Call
  BY DEF Good, Taken
<1>2. Fit(will, o, m.type, e, p, a, b)
  BY <1>1, TakenFits
<1>3. CASE m.type \in Steps
  <2>1. PICK i \in DOMAIN Sent225(b0) : Sent225(b0)[i] = m
    BY DEF In225
  <2>2. ~Dormant(b0)
    <3>1. m.type # "MSDAck" => ~Mute(b0)
      BY <1>3, <2>1 DEF Steps, Mute, Free
    <3>2. Quieted(b0)
      BY DEF Fit, HalfK, Local
    <3>3. m.type = "MSDAck" => RoleDecided(b0)
      BY DEF Good, Roles, HalfRoles, Acks, OnWay
    <3> QED
      BY <3>1, <3>2, <3>3 DEF Quieted, Dormant, RoleDecided
  <2>3. ~Tunnels(b0)
    <3>1. (Tunnels(a) <=> Tunnels(b0)) \/ Dormant(b0)
      BY DEF Fit, Start
    <3> QED
      BY <2>2, <3>1
  <2> QED
    BY <1>1, <2>3, TakenFits
<1>4. CASE m.type = "EndSession"
  <2>1. ~Runs(a)
    BY <1>1, <1>4, EndedBoth
  <2> QED
    BY <1>2, <2>1, HandledFits
<1>5. CASE m.type \notin Steps \cup {"EndSession", "ReleaseComplete"}
  BY <1>2, <1>5, HandledFits
<1> QED
  BY <1>3, <1>4, <1>5

(* A message other than Setup from the H.225 connection.                    *)
LEMMA MessageFits ==
  ASSUME NEW F, NEW A, NEW will, NEW o, NEW e \in Endpoint, NEW p \in Endpoint, NEW a, NEW b0, NEW b,
         NEW w \in World, o.w = w, NEW m, Taken(m, TRUE, b0, b), m.type # "Setup",
         Fit(will, o, "nothing", e, p, a, b0), Good(F, A, e, p, a, b0),
         e = Caller \/ p = Caller, p # e, o.none => e # Caller, m \in In225(b0),
         a.h225Sock = "open"
  PROVE  Fit(will, o, "nothing", e, p, HandleH2250Message(e, w, a, m), b)
<1> DEFINE d == HandleH2250Message(e, w, a, m)
<1>1. a \in Call /\ b0 \in Call /\ m \in Message /\ b \in Call
  BY DEF Good, Taken
<1>2. Fit(will, o, m.type, e, p, a, b)
  BY <1>1, TakenFits
<1>3. CASE m.type \in {"CallProceeding", "Alerting"}
  <2>1. ~m.h245
    BY <1>3 DEF Good, Setting
  <2>2. d = HandleProgress(a, m)
    BY <1>1, <1>3, HandleH2250Cases
  <2>3. Near(a, HandleProgress(a, m))
    BY <1>1, <1>3, <2>1, HandleProgressNear
  <2>4. Fit(will, o, "nothing", e, p, a, b)
    BY <1>2, <1>3, HandledFits DEF Steps
  <2>5. Fit(will, o, "nothing", e, p, HandleProgress(a, m), b)
    BY <1>1, <2>3, <2>4, NearFits
  <2> QED
    BY <2>2, <2>5
<1>4. CASE m.type = "Connect"
  <2>1. e = Caller
    BY <1>4 DEF Good, Setting
  <2>2. d = HandleConnect(e, w, a, m)
    BY <1>1, <1>4, HandleH2250Cases
  <2>3. Fit(will, o, "nothing", e, p, HandleConnect(e, w, a, m), b)
    BY <1>4, <2>1, HandleConnectFits
  <2> QED
    BY <2>2, <2>3
<1>5. CASE m.type = "ReleaseComplete"
  <2> DEFINE x == HandleReleaseComplete(a)
  <2>1. d = x
    BY <1>1, <1>5, HandleH2250Cases
  <2>2. Calm(w, a, x) /\ ~Runs(x)
    BY <1>1, HandleReleaseCompleteCalm
  <2> HIDE DEF x, d
  <2>3. Fit(will, o, m.type, e, p, x, b)
    BY <1>1, <1>2, <2>2, CalmFits
  <2>4. Fit(will, o, "nothing", e, p, x, b)
    BY <2>2, <2>3, HandledFits
  <2> QED
    BY <2>1, <2>4 DEF d
<1>6. CASE m.type = "CallForwarded"
  <2> DEFINE x == HandleCallForwarded(a)
  <2>1. d = x
    BY <1>1, <1>6, HandleH2250Cases
  <2>2. Calm(w, a, x)
    BY <1>1, ForwardCalm
  <2> HIDE DEF x, d
  <2>3. Fit(will, o, "nothing", e, p, a, b)
    BY <1>2, <1>6, HandledFits DEF Steps
  <2>4. Fit(will, o, "nothing", e, p, x, b)
    BY <1>1, <2>2, <2>3, CalmFits
  <2> QED
    BY <2>1, <2>4 DEF d
<1>7. CASE m.type \notin {"CallProceeding", "Alerting", "Connect", "ReleaseComplete",
                          "CallForwarded"}
  <2>1. d = HandleTunneled(e, w, a, m)
    BY <1>1, <1>7, HandleH2250Cases
  <2>2. CASE Tunnels(a)
    <3>1. d = HandleH245Message(e, w, a, m)
      BY <2>1, <2>2 DEF HandleTunneled, Tunnels
    <3>2. Up(a) /\ m \in OnWay(b0)
      BY <2>2 DEF Up, OnWay
    <3>3. Fit(will, o, "nothing", e, p, HandleH245Message(e, w, a, m), b)
      BY <1>1, <1>7, <2>2, <3>2, H245ReadFits
    <3> QED
      BY <3>1, <3>3
  <2>3. CASE ~Tunnels(a)
    <3>1. d = a
      BY <2>1, <2>3 DEF HandleTunneled, Tunnels
    <3>2. Fit(will, o, "nothing", e, p, a, b)
      BY <1>7, <2>3, IgnoredFits
    <3> QED
      BY <3>1, <3>2
  <2> QED
    BY <2>2, <2>3
<1> QED
  BY <1>3, <1>4, <1>5, <1>6, <1>7

(* ooH2250Receive.  V is what the user of the called end can have sent when *)
(* Setup, if it is Setup, has been handled.                                 *)
LEMMA ServeH225Fits ==
  ASSUME NEW F, NEW A, NEW W, NEW V, NEW o, NEW e \in Endpoint, NEW p \in Endpoint, NEW a, NEW b,
         NEW w \in World, o.w = w, NEW ready, ready.h225 \in Arrival,
         Fit(W, o, "nothing", e, p, a, b), Good(F, A, e, p, a, b),
         e = Caller \/ p = Caller, p # e, o.none => e # Caller,
         ready.h225 \notin {Nothing, Eof} => b.h225Net # << >> /\ ready.h225 = Head(b.h225Net),
         ready.h225.type = "Setup" => ("AUTOANSWER" \in o.ep /\ "MANUALRINGBACK" \notin o.ep => ~V),
         ready.h225.type # "Setup" => (V => W)
  PROVE  Fit(V, o, "nothing", e, p, ServeH225(e, w, a, ready.h225), Left225(b, ready))
<1> DEFINE arrived == ready.h225
           d ==  ServeH225(e, w, a, arrived)
<1>1. a \in Call /\ b \in Call
  BY DEF Good
<1>2. CASE arrived \in {Nothing, Eof}
  <2>1. arrived.type # "Setup"
    BY <1>2, ArrivalTypes
  <2>2. Calm(w, a, a) /\ Calm(w, a, ReceiveH225Fails(a))
    BY <1>1, NearReflexive, ReceiveH225FailsCalm
  <2>3. d \in {a, ReceiveH225Fails(a)}
    BY <1>2 DEF ServeH225
  <2>4. Calm(w, a, d)
    BY <2>2, <2>3
  <2> HIDE DEF d
  <2>5. Fit(W, o, "nothing", e, p, d, b)
    BY <1>1, <2>4, CalmFits
  <2>6. Fit(V, o, "nothing", e, p, d, b)
    BY <2>1, <2>5, LessWill
  <2> QED
    BY <1>2, <2>6 DEF d, Left225
<1>3. CASE arrived \notin {Nothing, Eof}
  <2> DEFINE c == Read225(b)
  <2>1. b.h225Net # << >> /\ arrived = Head(b.h225Net)
    BY <1>3
  <2>2. Taken(arrived, TRUE, b, c)
    BY <1>1, <2>1, HeadTaken
  <2>3. arrived \in Message /\ arrived \in In225(b)
    BY <1>1, <2>1, ReadRoutine
  <2>4. a.h225Sock # "open" => d = a /\ ~Runs(a)
    <3>1. ASSUME a.h225Sock # "open"
          PROVE  ~Runs(a)
      <4>1. a.callState = CLEARED
        BY <3>1 DEF Fit, HalfK, Local, Parting
      <4> QED
        BY <4>1 DEF Runs, CLEARED, CLEAR
    <3> QED
      BY <3>1 DEF ServeH225
  <2>5. a.h225Sock = "open" => d = HandleH2250Message(e, w, a, arrived)
    BY <1>3 DEF ServeH225
  <2> HIDE DEF c, d, Left225
  <2>6. CASE arrived.type = "Setup"
    <3>1. /\ Fit(TRUE, o, "nothing", e, p, a, c) /\ p = Caller
          /\ Dormant(a) /\ Dormant(c) /\ a.h245Sock = "none" /\ ~Linked(c)
          /\ \A t \in a.timers : t.type # "H245CONNECT"
      BY <2>2, <2>3, <2>6, SetupMet
    <3>2. CASE a.h225Sock # "open"
      <4>1. Fit(V, o, "nothing", e, p, a, c)
        BY <3>1, LessWill
      <4> QED
        BY <1>3, <2>4, <3>2, <4>1 DEF c, d, Left225
    <3>3. CASE a.h225Sock = "open"
      <4>1. d = HandleSetup(e, a, arrived)
        BY <1>1, <2>3, <2>5, <2>6, <3>3, HandleH2250Cases
      <4>2. Fit(V, o, "nothing", e, p, HandleSetup(e, a, arrived), c)
        BY <1>1, <2>3, <2>6, <3>1, HandleSetupFits
      <4> QED
        BY <1>3, <4>1, <4>2 DEF c, d, Left225
    <3> QED
      BY <3>2, <3>3
  <2>7. CASE arrived.type # "Setup"
    <3>1. CASE a.h225Sock # "open"
      <4>1. Fit(W, o, arrived.type, e, p, a, c)
        BY <1>1, <2>2, TakenFits
      <4>2. Fit(W, o, "nothing", e, p, a, c)
        BY <2>4, <3>1, <4>1, HandledFits
      <4>3. Fit(V, o, "nothing", e, p, a, c)
        BY <2>7, <4>2, LessWill
      <4> QED
        BY <1>3, <2>4, <3>1, <4>3 DEF c, d, Left225
    <3>2. CASE a.h225Sock = "open"
      <4>1. Fit(W, o, "nothing", e, p, HandleH2250Message(e, w, a, arrived), c)
        BY <2>2, <2>3, <2>7, <3>2, MessageFits
      <4>2. Fit(V, o, "nothing", e, p, HandleH2250Message(e, w, a, arrived), c)
        BY <2>7, <4>1, LessWill
      <4> QED
        BY <1>3, <2>5, <3>2, <4>2 DEF c, d, Left225
    <3> QED
      BY <3>1, <3>2
  <2> QED
    BY <2>6, <2>7
<1> QED
  BY <1>2, <1>3

-----------------------------------------------------------------------------
(* Writing                                                                  *)

(* ooSendMsg on the H.245 connection, or the caller's connection accepted.  *)
LEMMA WriteH245Fits ==
  ASSUME NEW will, NEW o, NEW q, NEW e \in Endpoint, NEW p, NEW found, NEW c \in Call, NEW b,
         NEW w \in World, o.w = w, Fit(will, o, "nothing", e, p, c, b), Apart(c),
         e = Caller \/ p = Caller, p # e,
         q.w = o.w, q.ep = o.ep, q.idle = o.idle, ~q.none, NEW listener \in BOOLEAN,
         listener => /\ b.h245Sock # "none" /\ (b.h245Sock # "closed" => w.ok)
                     /\ (e # Caller => o.none)
  PROVE  Fit(will, q, "nothing", e, p, WriteH245(e, w, found, c, listener), b)
<1> DEFINE d == WriteH245(e, w, found, c, listener)
<1>1. Fit(will, q, "nothing", e, p, c, b)
  BY LessCarried
<1>2. CASE c.h245Sock = "open"
  <2>1. Free(Sent245(c), "ReleaseComplete")
    BY DEF Fit, HalfK, Local, Parting
  <2>2. Calm(q.w, c, SendMsgH245(w, c)) /\ Calm(q.w, c, c)
    BY <1>2, <2>1, SendMsgH245Calm, NearReflexive
  <2>3. d \in {c, SendMsgH245(w, c)}
    BY <1>2 DEF WriteH245
  <2>4. Calm(q.w, c, d)
    BY <2>2, <2>3
  <2> QED
    BY <1>1, <2>4, CalmFits
<1>3. CASE c.h245Sock # "open" /\ c.h245listener /\ listener
  <2>1. d = OpenH245(e, w, c)
    BY <1>3 DEF WriteH245, AcceptH245Connection, OpenH245
  <2>2. e # Caller /\ p = Caller
    <3>1. e = Caller => Start(will, c, b)
      BY DEF Fit
    <3> QED
      BY <1>3, <3>1 DEF Start
  <2>3. Start(will, b, c)
    BY <2>2 DEF Fit
  <2>4. c.h245Sock = "none"
    BY <1>3, <2>2 DEF Fit, Carries
  <2>5. ~Tunnels(c)
    BY <1>3 DEF Apart, Linked, Tunnels
  <2>6. b.h245Sock # "none" /\ ~Dormant(b) /\ ~Tunnels(b)
    BY <1>3, <2>3, <2>5 DEF Start
  <2>7. Hears(b) => q.w.ok
    BY <1>3, <2>6 DEF Hears
  <2>8. \A t \in c.timers : t.type # "H245CONNECT"
    BY <2>3 DEF Start
  <2>9. Fit(will, q, "nothing", e, p, OpenH245(e, w, c), b)
    BY <1>1, <2>2, <2>4, <2>5, <2>6, <2>7, <2>8, OpenH245Fits
  <2> QED
    BY <2>1, <2>9
<1>4. CASE c.h245Sock # "open" /\ ~(c.h245listener /\ listener)
  <2>1. d = c
    BY <1>4 DEF WriteH245
  <2> QED
    BY <1>1, <2>1
<1> QED
  BY <1>2, <1>3, <1>4

(* ooSendMsg on the H.225 connection.  A call that is not over has written  *)
(* the ReleaseComplete it has built.                                        *)
LEMMA WriteH225Fits ==
  ASSUME NEW will, NEW o, NEW e, NEW p, NEW found, NEW c \in Call, NEW b,
         NEW w \in World, o.w = w, Fit(will, o, "nothing", e, p, c, b),
         found.h225Out = << >> => o.idle
  PROVE  LET d == WriteH225(w, found, c)
         IN  /\ Fit(will, o, "nothing", e, p, d, b) /\ d \in Call
             /\ Runs(b) /\ d.callState # CLEARED => Announced(d)
<1> DEFINE s == SendMsgQ931(w, c)
           d == WriteH225(w, found, c)
<1>1. /\ Calm(w, c, s)
      /\ w.okH225 /\ Announces(c) /\ c.callState # CLEARED /\ c.h225Out # << >> => Announced(s)
  BY SendMsgQ931Calm
<1>2. Runs(b) => w.okH225 /\ Announces(c)
  BY DEF Fit, HalfK, Carries, Closing
<1>3. CASE c.h225Sock = "open" /\ found.h225Out # << >>
  <2>1. d = s
    BY <1>3 DEF WriteH225
  <2>2. c.callState = CLEARED \/ c.h225Out = << >> => s = c
    BY DEF SendMsgQ931
  <2> HIDE DEF s
  <2>3. Fit(will, o, "nothing", e, p, s, b) /\ s \in Call
    BY <1>1, CalmFits, CalmType
  <2>4. Runs(b) /\ s.callState # CLEARED => Announced(s)
    <3> SUFFICES ASSUME Runs(b), s.callState # CLEARED
                 PROVE  Announced(s)
      OBVIOUS
    <3>1. CASE c.callState # CLEARED /\ c.h225Out # << >>
      BY <1>1, <1>2, <3>1
    <3>2. CASE c.callState # CLEARED /\ c.h225Out = << >>
      <4>1. s = c /\ Announces(c)
        BY <1>2, <2>2, <3>2
      <4> QED
        BY <3>2, <4>1 DEF Announces, Announced
    <3>3. CASE c.callState = CLEARED
      BY <2>2, <3>3
    <3> QED
      BY <3>1, <3>2, <3>3
  <2> QED
    BY <2>1, <2>3, <2>4
<1>4. CASE c.h225Sock # "open"
  <2>1. d = c
    BY <1>4 DEF WriteH225
  <2> QED
    BY <1>4, <2>1 DEF Announced
<1>5. CASE found.h225Out = << >>
  <2>1. d = c
    BY <1>5 DEF WriteH225
  <2>2. Runs(b) => Announced(c)
    BY <1>5 DEF Fit, Carries
  <2> QED
    BY <2>1, <2>2
<1> QED
  BY <1>3, <1>4, <1>5

(* The end of the pass.                                                     *)
LEMMA EndOfPassFits ==
  ASSUME NEW will, NEW o, NEW q, NEW e, NEW p, NEW c \in Call, NEW b,
         NEW w \in World, o.w = w, Fit(will, o, "nothing", e, p, c, b),
         Runs(b) /\ c.callState # CLEARED => Announced(c),
         q.w = o.w, q.ep = o.ep, ~q.idle, ~q.none
  PROVE  Fit(will, q, "nothing", e, p, EndOfPass(w, c), b)
<1> DEFINE d == EndOfPass(w, c)
<1>1. Fit(will, q, "nothing", e, p, c, b)
  BY LessCarried
<1>2. CASE c.callState = CLEARED
  <2>1. d = CleanCall(c)
    BY <1>2 DEF EndOfPass, EndCall, CLEAR, CLEARED
  <2>2. Calm(q.w, c, CleanCall(c))
    BY <1>2, CleanCallCalm
  <2>3. Fit(will, q, "nothing", e, p, CleanCall(c), b)
    BY <1>1, <2>2, CalmFits
  <2> QED
    BY <2>1, <2>3
<1>3. CASE c.callState # CLEARED /\ c.callState >= CLEAR
  <2> DEFINE x == EndCall(w, c)
  <2>1. d = x
    BY <1>3 DEF EndOfPass
  <2>2. ~Runs(c)
    <3>1. c.callState \in Nat
      BY StateValues DEF Call
    <3> QED
      BY <1>3, <3>1 DEF Runs, CLEAR
  <2>3. c.h225Sock = "open" /\ Free(Sent245(c), "ReleaseComplete")
    BY <1>3 DEF Fit, HalfK, Local, Parting
  <2>4. /\ Still(c, x) /\ Lighter(c, x)
        /\ w.okH225 /\ Announced(c) => Keeps225(c, x)
        /\ (c.h245Sock = "open" => w.ok) => Keeps245(c, x)
    BY <2>2, <2>3, EndCallEnds
  <2> HIDE DEF x
  <2>5. Carries(o, c, b)
    BY DEF Fit
  <2>6. (Runs(b) => Keeps225(c, x)) /\ (Hears(b) => Keeps245(c, x))
    BY <1>3, <2>4, <2>5 DEF Carries
  <2>7. Fit(will, q, "nothing", e, p, x, b)
    BY <1>1, <2>4, <2>6, KeptFits
  <2> QED
    BY <2>1, <2>7
<1>4. CASE ~(c.callState >= CLEAR)
  <2>1. d = c
    BY <1>4 DEF EndOfPass
  <2> QED
    BY <1>1, <2>1
<1> QED
  BY <1>2, <1>3, <1>4

-----------------------------------------------------------------------------
(* A pass.  What it finds is the pass of which Carries speaks.              *)
PassOf(e, w, found) ==
  [w |-> w, idle |-> found.h225Out = << >>, none |-> e # Caller /\ found.h245Sock = "none",
   ep |-> found.epFlags]

(* Between two passes.                                                      *)
Rested(w, found) == [w |-> w, idle |-> FALSE, none |-> FALSE, ep |-> found.epFlags]

LEMMA PassBegins ==
  ASSUME NEW will, NEW e, NEW p, NEW a \in Call, NEW b \in Call, NEW w \in World,
         HalfK("nothing", a, b), HalfK("nothing", b, a),
         e = Caller => Start(will, a, b), p = Caller => Start(will, b, a),
         b.h225Sock = "open" => w.okH225,
         a.h245Sock = "open" /\ b.h245Sock # "closed" => w.ok
  PROVE  Fit(will, PassOf(e, w, a), "nothing", e, p, a, b)
<1> DEFINE o == PassOf(e, w, a)
<1>1. /\ o.w = w /\ (o.idle => a.h225Out = << >>) /\ (o.none => a.h245Sock = "none")
      /\ o.ep = a.epFlags
  BY DEF PassOf
<1> HIDE DEF o
<1>2. Local(b) /\ Closing(b, a)
  BY DEF HalfK
<1>3. Runs(b) => w.okH225
  <2>1. b.callState = CLEARED => ~Runs(b)
    BY DEF Runs, CLEARED, CLEAR
  <2> QED
    BY <1>2, <2>1 DEF Local, Parting
<1>4. Hears(b) /\ a.h245Sock = "open" => w.ok
  BY <1>2 DEF Local, Joined, Hears
<1>5. Runs(b) /\ o.idle => Announced(a)
  BY <1>1, <1>2 DEF Closing, Announces, Announced
<1>6. Carries(o, a, b)
  BY <1>1, <1>3, <1>4, <1>5 DEF Carries
<1> QED
  BY <1>6 DEF Fit, o

(* What a pass reads leaves the connections of the peer.                    *)
LEMMA LeftSame ==
  ASSUME NEW b \in Call, NEW ready, NEW before
  PROVE  LET c == Left245(Left225(b, ready), before, ready)
         IN  c.h245Sock = b.h245Sock /\ c.epFlags = b.epFlags
  BY DEF Left225, Left245, Read225, Read245, Call

LEMMA PassFits ==
  ASSUME NEW F, NEW A, NEW W, NEW V, NEW o, NEW q, NEW e \in Endpoint, NEW p \in Endpoint,
         NEW a, NEW b, NEW w \in World, o.w = w, NEW ready,
         Good(F, A, e, p, a, b), p # e, e = Caller \/ p = Caller,
         ready.expired \in SUBSET a.timers, ready.h225 \in Arrival, ready.h245 \in Arrival,
         ready.h225 \notin {Nothing, Eof} => b.h225Net # << >> /\ ready.h225 = Head(b.h225Net),
         ready.h245 \notin {Nothing, Eof} => b.h245Net # << >> /\ ready.h245 = Head(b.h245Net),
         Fit(W, o, "nothing", e, p, a, b), o.none => e # Caller, a.h225Out = << >> => o.idle,
         ready.listener \in BOOLEAN,
         ready.listener => /\ b.h245Sock # "none" /\ (b.h245Sock # "closed" => w.ok)
                           /\ (e # Caller => o.none),
         ready.h225.type = "Setup" => ("AUTOANSWER" \in o.ep /\ "MANUALRINGBACK" \notin o.ep => ~V),
         ready.h225.type # "Setup" => (V => W),
         q.w = o.w, q.ep = o.ep, ~q.idle, ~q.none
  PROVE  LET c == Left245(Left225(b, ready), AfterH225(e, w, a, ready), ready)
         IN  Fit(V, q, "nothing", e, p, PassOver(e, w, a, ready), c)
<1> DEFINE a1 == AfterTimers(e, w, a, ready)
           a2 == AfterH225(e, w, a, ready)
           a3 == AfterH245(e, w, a, ready)
           a4 == WriteH245(e, w, a, a3, ready.listener)
           a5 == AfterWrites(e, w, a, ready)
           d  == PassOver(e, w, a, ready)
           b2 == Left225(b, ready)
           b3 == Left245(b2, a2, ready)
           G  == IF ready.h225.type = "Setup" THEN F \ {e} ELSE F
           r  == [w |-> o.w, idle |-> o.idle, none |-> FALSE, ep |-> o.ep]
<1>1. a \in Call /\ b \in Call /\ Apart(a)
  BY DEF Good, Sound
<1>2. Good(F, A, e, p, a1, b) /\ a1 \in Call /\ Fit(W, o, "nothing", e, p, a1, b)
  <2>1. a1 = FireExpired(e, w, a, ready.expired)
    BY DEF AfterTimers
  <2>2. LinkedStart(e, a, a1)
    BY <1>1, <2>1, FireExpiredStarts
  <2> HIDE DEF a1
  <2>3. Leads(F, A, e, p, a, a1, b)
    BY <2>2, LinkedStartLeads
  <2>4. Fit(W, o, "nothing", e, p, FireExpired(e, w, a, ready.expired), b)
    BY <1>1, FireExpiredFits
  <2> QED
    BY <2>1, <2>3, <2>4 DEF Leads, Good
<1>3. /\ Good(G, A, e, p, a2, b2) /\ a2 \in Call /\ b2 \in Call
      /\ Fit(V, o, "nothing", e, p, a2, b2)
  <2>1. a2 = ServeH225(e, w, a1, ready.h225)
    BY DEF AfterH225
  <2> HIDE DEF a1
  <2>2. IF ready.h225.type = "Setup"
        THEN Leads(F \ {e}, A, e, p, a1, ServeH225(e, w, a1, ready.h225), b2)
        ELSE Leads(F, A, e, p, a1, ServeH225(e, w, a1, ready.h225), b2)
    BY <1>2, ServeH225Leads DEF Left225
  <2>3. Fit(V, o, "nothing", e, p, ServeH225(e, w, a1, ready.h225), b2)
    BY <1>1, <1>2, ServeH225Fits
  <2> HIDE DEF a2, b2
  <2>4. Leads(G, A, e, p, a1, a2, b2)
    BY <2>1, <2>2
  <2> QED
    BY <2>1, <2>3, <2>4 DEF Leads, Good
<1>4. b2.h245Net = b.h245Net
  BY <1>1 DEF Left225, Read225, Call
<1>5. Good(G, A, e, p, a3, b3) /\ a3 \in Call /\ Fit(V, o, "nothing", e, p, a3, b3)
  <2>1. a3 = ServeH245(e, w, a2, ready.h245)
    BY DEF AfterH245
  <2> HIDE DEF a2, b2, G
  <2>2. Leads(G, A, e, p, a2, ServeH245(e, w, a2, ready.h245), b3)
    BY <1>3, <1>4, ServeH245Leads DEF Left245
  <2>3. Fit(V, o, "nothing", e, p, ServeH245(e, w, a2, ready.h245), b3)
    BY <1>3, <1>4, ServeH245Fits
  <2> HIDE DEF a3, b3
  <2> QED
    BY <2>1, <2>2, <2>3 DEF Leads, Good
<1>6. LinkedStart(e, a3, a4) /\ Apart(a3)
  BY <1>1, <1>5, WritesStart DEF Good, Sound
<1>7. a5 = WriteH225(w, a, a4) /\ d = EndOfPass(w, a5)
  BY DEF AfterWrites, PassOver
<1>8. b3.h245Sock = b.h245Sock
  BY <1>1, LeftSame
<1> HIDE DEF a1, a2, a3, a5, b2, b3, d, G
<1>9. a4 \in Call /\ Fit(V, r, "nothing", e, p, a4, b3)
  <2>1. Leads(G, A, e, p, a3, a4, b3)
    BY <1>5, <1>6, LinkedStartLeads
  <2>2. r.w = o.w /\ r.ep = o.ep /\ r.idle = o.idle /\ ~r.none
    OBVIOUS
  <2> HIDE DEF r
  <2>3. Fit(V, r, "nothing", e, p, WriteH245(e, w, a, a3, ready.listener), b3)
    BY <1>5, <1>6, <1>8, <2>2, WriteH245Fits
  <2> QED
    BY <2>1, <2>3 DEF Leads, Good
<1> HIDE DEF a4
<1>10. /\ Fit(V, r, "nothing", e, p, a5, b3) /\ a5 \in Call
       /\ Runs(b3) /\ a5.callState # CLEARED => Announced(a5)
  <2>1. r.w = w /\ (a.h225Out = << >> => r.idle)
    OBVIOUS
  <2> HIDE DEF r
  <2> QED
    BY <1>7, <1>9, <2>1, WriteH225Fits
<1>11. Fit(V, q, "nothing", e, p, d, b3)
  <2>1. r.w = w /\ q.w = r.w /\ q.ep = r.ep
    OBVIOUS
  <2> HIDE DEF r
  <2> QED
    BY <1>7, <1>10, <2>1, EndOfPassFits
<1> QED
  BY <1>11 DEF d, b3, b2, a2

-----------------------------------------------------------------------------
(* The invariant of the start-up.                                           *)

(* The ends whose users can still have Connect sent.                        *)
Answerers ==
  {e \in Endpoint :
     \/ "ring" \in commands[e] /\ {"MANUALRINGBACK", "AUTOANSWER"} \subseteq call[e].epFlags
     \/ "answer" \in commands[e] /\ "AUTOANSWER" \notin call[e].epFlags}

StartInv ==
  /\ \A e \in Endpoint : HalfK("nothing", call[e], call[Peer(e)])
  /\ Start(Peer(Caller) \in Answerers, call[Caller], call[Peer(Caller)])

LEMMA StartStep ==
  ASSUME IInv, NEW e \in Endpoint, NEW d, NEW c, call' = [call EXCEPT ![e] = d, ![Peer(e)] = c],
         NEW q, Fit((Peer(Caller) \in Answerers)', q, "nothing", e, Peer(e), d, c)
  PROVE  StartInv'
<1> DEFINE p == Peer(e)
<1>1. /\ p \in Endpoint /\ p # e /\ Peer(p) = e /\ \A r \in Endpoint : r = e \/ r = p
      /\ e = Caller \/ p = Caller
  BY Peers
<1>2. call \in [Endpoint -> Call]
  BY DEF IInv, TypeOK
<1> HIDE DEF p
<1>3. call'[e] = d /\ call'[p] = c
  BY <1>1, <1>2 DEF p
<1>4. /\ HalfK("nothing", d, c) /\ HalfK("nothing", c, d)
      /\ e = Caller => Start((Peer(Caller) \in Answerers)', d, c)
      /\ p = Caller => Start((Peer(Caller) \in Answerers)', c, d)
  BY DEF Fit, p
<1>5. \A r \in Endpoint : HalfK("nothing", call'[r], call'[Peer(r)])
  BY <1>1, <1>3, <1>4 DEF p
<1>6. Start((Peer(Caller) \in Answerers)', call'[Caller], call'[Peer(Caller)])
  BY <1>1, <1>3, <1>4 DEF p
<1> QED
  BY <1>5, <1>6 DEF StartInv

(* The users of the two ends.                                               *)
LEMMA AnswererCases ==
  ASSUME IInv, NEW e \in Endpoint
  PROVE  LET y == Peer(Caller)
         IN  y \in Answerers <=>
               \/ "ring" \in commands[y] /\ {"MANUALRINGBACK", "AUTOANSWER"} \subseteq call[y].epFlags
               \/ "answer" \in commands[y] /\ "AUTOANSWER" \notin call[y].epFlags
  BY Peers DEF Answerers

(* What is so when end e begins a pass, with the call a and the peer's b.   *)
Begins(F, A, W, e, p, a, b, w, ready) ==
  /\ Good(F, A, e, p, a, b) /\ p # e /\ (e = Caller \/ p = Caller)
  /\ e \in Endpoint /\ p \in Endpoint /\ w \in World
  /\ ready.expired \in SUBSET a.timers /\ ready.h225 \in Arrival /\ ready.h245 \in Arrival
  /\ ready.h225 \notin {Nothing, Eof} => b.h225Net # << >> /\ ready.h225 = Head(b.h225Net)
  /\ ready.h245 \notin {Nothing, Eof} => b.h245Net # << >> /\ ready.h245 = Head(b.h245Net)
  /\ HalfK("nothing", a, b) /\ HalfK("nothing", b, a)
  /\ e = Caller => Start(W, a, b)
  /\ p = Caller => Start(W, b, a)
  /\ b.h225Sock = "open" => w.okH225
  /\ a.h245Sock = "open" /\ b.h245Sock # "closed" => w.ok
  /\ ready.listener \in BOOLEAN
  /\ ready.listener => /\ b.h245Sock # "none" /\ a.h245Sock = "none"
                       /\ b.h245Sock # "closed" => w.ok

LEMMA WholePassFits ==
  ASSUME NEW F, NEW A, NEW W, NEW V, NEW e, NEW p, NEW a, NEW b, NEW w, NEW ready,
         Begins(F, A, W, e, p, a, b, w, ready),
         ready.h225.type = "Setup" =>
           ("AUTOANSWER" \in a.epFlags /\ "MANUALRINGBACK" \notin a.epFlags => ~V),
         ready.h225.type # "Setup" => (V => W)
  PROVE  LET c == Left245(Left225(b, ready), AfterH225(e, w, a, ready), ready)
         IN  Fit(V, Rested(w, a), "nothing", e, p, PassOver(e, w, a, ready), c)
<1> DEFINE o == PassOf(e, w, a)
           q == Rested(w, a)
           c == Left245(Left225(b, ready), AfterH225(e, w, a, ready), ready)
           d == PassOver(e, w, a, ready)
<1>1. a \in Call /\ b \in Call
  BY DEF Begins, Good
<1>2. Fit(W, o, "nothing", e, p, a, b)
  BY <1>1, PassBegins DEF Begins
<1>3. /\ o.w = w /\ (o.none => e # Caller) /\ (a.h225Out = << >> => o.idle)
      /\ a.h245Sock = "none" => (e # Caller => o.none)
      /\ o.ep = a.epFlags /\ q.w = o.w /\ q.ep = o.ep /\ ~q.idle /\ ~q.none
  BY DEF PassOf, Rested
<1> HIDE DEF o, q
<1>4. ready.listener => /\ b.h245Sock # "none" /\ (b.h245Sock # "closed" => w.ok)
                        /\ (e # Caller => o.none)
  BY <1>3 DEF Begins
<1>5. ready.h225.type = "Setup" =>
           ("AUTOANSWER" \in o.ep /\ "MANUALRINGBACK" \notin o.ep => ~V)
  BY <1>3
<1>6. Fit(V, q, "nothing", e, p, d, c)
  BY <1>2, <1>3, <1>4, <1>5, PassFits DEF Begins
<1> QED
  BY <1>6 DEF q

LEMMA PassStarts ==
  ASSUME IInv, StartInv, NEW e \in Endpoint, Pass(e)
  PROVE  StartInv'
<1> DEFINE p == Peer(e)
           a == call[e]
           b == call[p]
           W == Peer(Caller) \in Answerers
           V == (Peer(Caller) \in Answerers)'
<1>1. call \in [Endpoint -> Call] /\ commands \in [Endpoint -> SUBSET UserCommand]
      /\ scenario \in Scenarios
  BY DEF IInv, TypeOK
<1>2. PICK ready \in ReadyAt(e), w \in WorldsAt(e) :
        /\ call' = AfterPass(e, ready, w)
        /\ commands' = IF ready.h225.type = "Setup"
                       THEN [commands EXCEPT ![e] = scenario.asks[e]] ELSE commands
  BY DEF Pass
<1>3. /\ p \in Endpoint /\ p # e /\ (e = Caller \/ p = Caller) /\ Peer(p) = e
      /\ Caller \in Endpoint /\ Peer(Caller) \in Endpoint /\ Peer(Caller) # Caller
      /\ \A r \in Endpoint : r = e \/ r = p
  BY Peers
<1>4. Good(Forwarders, Askers, e, p, a, b) /\ a \in Call /\ b \in Call
  BY <1>1, <1>3 DEF IInv, GoodAt
<1> DEFINE q == Rested(w, a)
           c == Left245(Left225(b, ready), AfterH225(e, w, a, ready), ready)
           d == PassOver(e, w, a, ready)
<1>5. call' = [call EXCEPT ![e] = d, ![p] = c]
  BY <1>1, <1>2, PassCall
<1>6. /\ w \in World
      /\ ready.expired \in SUBSET a.timers
      /\ ready.h225 \in Arrival /\ ready.h245 \in Arrival
      /\ ready.h225 \notin {Nothing, Eof} => b.h225Net # << >> /\ ready.h225 = Head(b.h225Net)
      /\ ready.h245 \notin {Nothing, Eof} => b.h245Net # << >> /\ ready.h245 = Head(b.h245Net)
  BY <1>1, ReadyRange
<1>7. b.h225Sock = "open" => w.okH225
  <2>1. w.okH225 \in SendOutcome(b.h225Sock)
    BY <1>2 DEF WorldsAt
  <2> QED
    BY <2>1 DEF SendOutcome
<1>8. a.h245Sock = "open" /\ b.h245Sock # "closed" => w.ok
  <2>1. a.h245Sock = "open" => w.ok \in SendOutcome(b.h245Sock)
    BY <1>2 DEF WorldsAt
  <2> QED
    BY <2>1 DEF SendOutcome
<1>9. /\ ready.listener \in BOOLEAN
      /\ ready.listener => /\ b.h245Sock # "none" /\ a.h245Sock = "none"
                           /\ b.h245Sock # "closed" => w.ok
  <2>1. ready.listener \in IF CanAccept(e) THEN BOOLEAN ELSE {FALSE}
    BY <1>2 DEF ReadyAt
  <2>2. CanAccept(e) => w.ok \in SendOutcome(b.h245Sock)
    BY <1>2 DEF WorldsAt
  <2> QED
    BY <2>1, <2>2 DEF CanAccept, SendOutcome
<1>10. /\ HalfK("nothing", a, b) /\ HalfK("nothing", b, a)
       /\ e = Caller => Start(W, a, b)
       /\ p = Caller => Start(W, b, a)
  BY <1>3 DEF StartInv
<1>11. call'[e] = d /\ call'[p] = c /\ c.epFlags = b.epFlags
  BY <1>1, <1>3, <1>4, <1>5, LeftSame
<1>12. Begins(Forwarders, Askers, W, e, p, a, b, w, ready)
  <2> HIDE DEF p, a, b, W
  <2> QED
    BY <1>3, <1>4, <1>6, <1>7, <1>8, <1>9, <1>10 DEF Begins
<1>13. Fit(FALSE, q, "nothing", e, p, d, c)
  <2> HIDE DEF p, a, b, W
  <2>1. ready.h225.type # "Setup" => (FALSE => W)
    OBVIOUS
  <2>2. LET l == Left245(Left225(b, ready), AfterH225(e, w, a, ready), ready)
        IN  Fit(FALSE, Rested(w, a), "nothing", e, p, PassOver(e, w, a, ready), l)
    BY <1>12, WholePassFits
  <2> QED
    BY <2>2
<1>14. q.ep = a.epFlags
  BY DEF Rested
<1>15. d.epFlags = a.epFlags
  <2>1. Fit(FALSE, q, "nothing", e, p, d, c)
    BY <1>13
  <2> QED
    BY <1>14, <2>1 DEF Fit, Carries
<1>16. \A r \in Endpoint : call'[r].epFlags = call[r].epFlags
  BY <1>3, <1>11, <1>15
<1>17. ready.h225.type = "Setup" => p = Caller
  <2>1. ready.h225.type = "Setup" => ready.h225 \notin {Nothing, Eof}
    BY ArrivalTypes
  <2>2. ready.h225.type = "Setup" => ready.h225 \in In225(b)
    BY <1>4, <1>6, <2>1, ReadRoutine
  <2> QED
    BY <1>3, <1>4, <2>2 DEF Good, Setting
<1>18. ready.h225.type = "Setup" => ("AUTOANSWER" \in a.epFlags /\ "MANUALRINGBACK" \notin a.epFlags => ~V)
  BY <1>3, <1>16, <1>17 DEF Answerers
<1>19. ready.h225.type # "Setup" => (V => W)
  <2>1. ready.h225.type # "Setup" => commands' = commands
    BY <1>2
  <2> QED
    BY <1>16, <2>1 DEF Answerers
<1>20. Fit(V, q, "nothing", e, p, d, c)
  <2> HIDE DEF p, a, b, W, V
  <2>2. LET l == Left245(Left225(b, ready), AfterH225(e, w, a, ready), ready)
        IN  Fit(V, Rested(w, a), "nothing", e, p, PassOver(e, w, a, ready), l)
    BY <1>12, <1>18, <1>19, WholePassFits
  <2> QED
    BY <2>2 DEF c, d, q
<1> QED
  BY <1>5, <1>20, StartStep

(* Between passes nothing is written.                                       *)
Between == [num |-> 0, ok |-> TRUE, okH225 |-> TRUE]

LEMMA RestedFits ==
  ASSUME NEW will, NEW e, NEW p, NEW a, NEW b,
         HalfK("nothing", a, b), HalfK("nothing", b, a),
         e = Caller => Start(will, a, b), p = Caller => Start(will, b, a)
  PROVE  Fit(will, Rested(Between, a), "nothing", e, p, a, b)
<1> DEFINE o == Rested(Between, a)
<1>1. o.w.ok /\ o.w.okH225 /\ ~o.idle /\ ~o.none /\ o.ep = a.epFlags
  BY DEF Rested, Between
<1> HIDE DEF o
<1>2. Carries(o, a, b)
  BY <1>1 DEF Carries
<1> QED
  BY <1>2 DEF Fit, o

(* A command of the user of e, which makes d of its call.                   *)
LEMMA CommandStarts ==
  ASSUME IInv, StartInv, NEW e \in Endpoint, NEW command, Asks(e, command), NEW d,
         call' = [call EXCEPT ![e] = d],
         NEW q, q.ep = call[e].epFlags, NEW V, Fit(V, q, "nothing", e, Peer(e), d, call[Peer(e)]),
         (Peer(Caller) \in Answerers)' => V
  PROVE  StartInv'
<1>1. call \in [Endpoint -> Call] /\ Peer(e) \in Endpoint /\ Peer(e) # e
  BY Peers DEF IInv, TypeOK
<1>2. call' = [call EXCEPT ![e] = d, ![Peer(e)] = call[Peer(e)]]
  BY <1>1
<1> DEFINE U == (Peer(Caller) \in Answerers)'
<1>3. U => V
  OBVIOUS
<1> HIDE DEF U
<1>4. Fit(U, q, "nothing", e, Peer(e), d, call[Peer(e)])
  BY <1>3, LessWill
<1> QED
  BY <1>2, <1>4, StartStep DEF U

LEMMA AskedLess ==
  ASSUME IInv, NEW e \in Endpoint, NEW command, Asks(e, command),
         call'[e].epFlags = call[e].epFlags, call'[Peer(e)] = call[Peer(e)]
  PROVE  /\ (Peer(Caller) \in Answerers)' => Peer(Caller) \in Answerers
         /\ command \in {"ring", "answer"} => e = Peer(Caller) /\ Peer(e) = Caller /\ e # Caller
         /\ command = "ring" /\ {"MANUALRINGBACK", "AUTOANSWER"} \subseteq call[e].epFlags =>
              Peer(Caller) \in Answerers /\ ~(Peer(Caller) \in Answerers)'
         /\ command = "answer" /\ "AUTOANSWER" \notin call[e].epFlags =>
              Peer(Caller) \in Answerers /\ ~(Peer(Caller) \in Answerers)'
<1>1. /\ Peer(e) \in Endpoint /\ Peer(e) # e /\ Peer(Peer(e)) = e /\ Peer(Caller) \in Endpoint
      /\ \A r \in Endpoint : r = e \/ r = Peer(e)
      /\ e = Caller \/ Peer(e) = Caller
  BY Peers
<1>2. commands \in [Endpoint -> SUBSET UserCommand] /\ scenario \in Scenarios
  BY DEF IInv, TypeOK
<1>3. /\ command \in commands[e] /\ commands' = [commands EXCEPT ![e] = @ \ {command}]
      /\ command \in scenario.asks[e]
  BY AsksGood DEF Asks
<1>4. "ring" \notin scenario.asks[Caller] /\ "answer" \notin scenario.asks[Caller]
  BY <1>1, <1>2, ScenarioType
<1>5. \A r \in Endpoint : call'[r].epFlags = call[r].epFlags
  BY <1>1
<1>6. \A r \in Endpoint : commands'[r] \subseteq commands[r]
  BY <1>2, <1>3
<1>7. command \notin commands'[e]
  BY <1>2, <1>3
<1>8. (Peer(Caller) \in Answerers)' => Peer(Caller) \in Answerers
  BY <1>1, <1>5, <1>6 DEF Answerers
<1>9. command \in {"ring", "answer"} => e = Peer(Caller) /\ Peer(e) = Caller /\ e # Caller
  BY <1>1, <1>3, <1>4
<1>10. command = "ring" /\ {"MANUALRINGBACK", "AUTOANSWER"} \subseteq call[e].epFlags =>
         Peer(Caller) \in Answerers /\ ~(Peer(Caller) \in Answerers)'
  BY <1>1, <1>3, <1>5, <1>7, <1>9 DEF Answerers
<1>11. command = "answer" /\ "AUTOANSWER" \notin call[e].epFlags =>
         Peer(Caller) \in Answerers /\ ~(Peer(Caller) \in Answerers)'
  BY <1>1, <1>3, <1>5, <1>7, <1>9 DEF Answerers
<1> QED
  BY <1>8, <1>9, <1>10, <1>11

LEMMA UserStarts ==
  ASSUME IInv, StartInv, NEW e \in Endpoint, Ring(e) \/ Answer(e) \/ Forward(e) \/ HangUp(e)
  PROVE  StartInv'
<1> DEFINE p == Peer(e)
           a == call[e]
           b == call[p]
           W == Peer(Caller) \in Answerers
           o == Rested(Between, a)
<1>1. /\ p \in Endpoint /\ p # e /\ Peer(p) = e /\ (e = Caller \/ p = Caller)
      /\ call \in [Endpoint -> Call] /\ a \in Call
  BY Peers DEF IInv, TypeOK
<1>2. Fit(W, o, "nothing", e, p, a, b) /\ o.ep = a.epFlags
  <2>1. /\ HalfK("nothing", a, b) /\ HalfK("nothing", b, a)
        /\ e = Caller => Start(W, a, b)
        /\ p = Caller => Start(W, b, a)
    BY <1>1, Peers DEF StartInv
  <2>2. o.ep = a.epFlags
    BY DEF Rested
  <2> HIDE DEF a, b, W, p
  <2> QED
    BY <2>1, <2>2, RestedFits
<1> HIDE DEF W, o
<1>3. ASSUME NEW command, Asks(e, command), NEW d, call' = [call EXCEPT ![e] = d],
             d.epFlags = a.epFlags
      PROVE  /\ call'[e].epFlags = call[e].epFlags /\ call'[p] = call[p]
  BY <1>1, <1>3
<1>4. ASSUME NEW command, Asks(e, command), NEW d, call' = [call EXCEPT ![e] = d],
             Calm(o.w, a, d)
      PROVE  StartInv'
  <2>1. Fit(W, o, "nothing", e, p, d, b)
    BY <1>1, <1>2, <1>4, CalmFits
  <2>2. d.epFlags = a.epFlags
    BY <1>2, <2>1 DEF Fit, Carries
  <2>3. (Peer(Caller) \in Answerers)' => W
    BY <1>3, <1>4, <2>2, AskedLess DEF W
  <2> QED
    BY <1>2, <1>4, <2>1, <2>3, CommandStarts
<1>5. ASSUME NEW command, Asks(e, command), NEW d, call' = [call EXCEPT ![e] = d],
             NEW c, Calm(o.w, a, c), Connects(c, d),
             \/ command = "ring" /\ {"MANUALRINGBACK", "AUTOANSWER"} \subseteq a.epFlags
             \/ command = "answer" /\ "AUTOANSWER" \notin a.epFlags
      PROVE  StartInv'
  <2>1. c \in Call /\ Fit(W, o, "nothing", e, p, c, b)
    BY <1>1, <1>2, <1>5, CalmFits, CalmType
  <2>2. p = Caller /\ e # Caller /\ W
    <3>1. command \in scenario.asks[e] /\ command \in commands[e]
      BY <1>5, AsksGood DEF Asks
    <3>2. e # Caller
      BY <1>5, <3>1, ScenarioType DEF IInv, TypeOK
    <3>3. e = Peer(Caller)
      BY <1>1, <3>2, Peers
    <3> QED
      BY <1>1, <1>5, <3>1, <3>2, <3>3 DEF W, Answerers
  <2>3. Fit(FALSE, o, "nothing", e, p, d, b)
    <3>1. Fit(TRUE, o, "nothing", e, p, c, b)
      BY <2>1, <2>2, LessWill
    <3> HIDE DEF p, b
    <3> QED
      BY <1>5, <2>1, <2>2, <3>1, ConnectFits
  <2>4. d.epFlags = a.epFlags
    BY <1>2, <2>3 DEF Fit, Carries
  <2>5. ~(Peer(Caller) \in Answerers)'
    BY <1>3, <1>5, <2>4, AskedLess
  <2> QED
    BY <1>2, <1>5, <2>3, <2>5, CommandStarts
<1>6. CASE Ring(e)
  <2> DEFINE c == SendAlerting(e, a)
             d == RingAndAnswer(e, a)
  <2>1. /\ Asks(e, "ring") /\ "MANUALRINGBACK" \in a.epFlags
        /\ call' = [call EXCEPT ![e] = d]
    BY <1>1, <1>6 DEF Ring
  <2>2. Calm(o.w, a, c)
    BY <1>1, ProgressCalm
  <2>3. d = IF "AUTOANSWER" \in a.epFlags THEN AcceptCall(e, c) ELSE c
    BY DEF RingAndAnswer
  <2> HIDE DEF c, d
  <2>4. Connects(c, AcceptCall(e, c))
    BY <1>1, <2>2, CalmType, AcceptCallConnects
  <2>5. CASE "AUTOANSWER" \in a.epFlags
    BY <1>5, <2>1, <2>2, <2>3, <2>4, <2>5
  <2>6. CASE "AUTOANSWER" \notin a.epFlags
    BY <1>4, <2>1, <2>2, <2>3, <2>6
  <2> QED
    BY <2>5, <2>6
<1>7. CASE Answer(e)
  <2>1. /\ Asks(e, "answer") /\ "AUTOANSWER" \notin a.epFlags
        /\ call' = [call EXCEPT ![e] = AcceptCall(e, a)]
    BY <1>1, <1>7 DEF Answer
  <2>2. Calm(o.w, a, a)
    BY <1>1, NearReflexive
  <2>3. Connects(a, AcceptCall(e, a))
    BY <1>1, AcceptCallConnects
  <2> QED
    BY <1>5, <2>1, <2>2, <2>3
<1>8. CASE Forward(e)
  <2>1. Asks(e, "forward") /\ call' = [call EXCEPT ![e] = ForwardCall(a)]
    BY <1>1, <1>8 DEF Forward
  <2>2. Calm(o.w, a, ForwardCall(a))
    BY <1>1, ForwardCalm
  <2> QED
    BY <1>4, <2>1, <2>2
<1>9. CASE HangUp(e)
  <2>1. Asks(e, "hangup") /\ call' = [call EXCEPT ![e] = MarkClear(a)]
    BY <1>1, <1>9 DEF HangUp
  <2>2. Calm(o.w, a, MarkClear(a))
    BY <1>1, MarkClearNear
  <2> QED
    BY <1>4, <2>1, <2>2
<1> QED
  BY <1>6, <1>7, <1>8, <1>9

LEMMA NextStarts ==
  ASSUME IInv, StartInv, [Next]_vars
  PROVE  StartInv'
<1>1. CASE UNCHANGED vars
  BY <1>1 DEF vars, StartInv, Answerers
<1>2. CASE Next
  BY <1>1, <1>2, PassStarts, UserStarts DEF Next, Rest
<1> QED
  BY <1>1, <1>2

-----------------------------------------------------------------------------
(* The start.                                                               *)
BuildStarts(k, c, d) == Near(c, d)
NearBuilding         == INSTANCE FoldLemmas WITH Step <- BuildStep, Kept <- BuildStarts

LEMMA BuildNear ==
  ASSUME NEW c \in Call, NEW p \in Proposal
  PROVE  Near(c, BuildFastStartOLC(c, p))
<1> DEFINE c0 == NextChanNo(c)
           c1 == AddChan(c0, c.logicalChanNoCur, p.dir, p.cap, "PROPOSED")
           i  == Len(c1.logicalChans)
<1>1. Near(c, c0) /\ c0 \in Call
  BY ChansNear, NearType
<1>2. c.logicalChanNoCur \in Nat /\ p.dir \in {"transmit", "receive"} /\ p.cap \in Cap
  BY DEF Call, Proposal
<1>3. BuildFastStartOLC(c, p) \in {StartChan(c1, i), c1}
  BY DEF BuildFastStartOLC
<1> HIDE DEF c0
<1>4. Near(c0, c1) /\ c1 \in Call
  BY <1>1, <1>2, AddChanNear, NearType
<1> HIDE DEF c1, i
<1>5. Near(c, c1) /\ Near(c1, StartChan(c1, i))
  BY <1>1, <1>4, ChansNear, NearTransitive
<1> QED
  BY <1>3, <1>5, NearTransitive

LEMMA BuildAllNear ==
  ASSUME NEW c \in Call, NEW ps \in Seq(Proposal)
  PROVE  Near(c, FoldLeft(BuildFastStartOLC, c, ps))
<1>1. BuildStarts(0, c, c)
  BY NearReflexive DEF BuildStarts
<1>2. ASSUME NEW x, NEW y \in Proposal, BuildStarts(0, c, x)
      PROVE  BuildStarts(0, c, BuildStep(0, x, y))
  BY <1>2, NearType, BuildNear, NearTransitive DEF BuildStarts, BuildStep
<1>3. BuildStarts(0, c, NearBuilding!Fold(0, c, ps))
  BY <1>1, <1>2, NearBuilding!FoldKeeps
<1>4. NearBuilding!Fold(0, c, ps) = FoldLeft(BuildFastStartOLC, c, ps)
  BY Zenon DEF NearBuilding!Fold, NearBuilding!MapThenFoldSet,
     NearBuilding!Max, BuildStep, FoldLeft, MapThenFoldSet, Max
<1> QED
  BY <1>3, <1>4 DEF BuildStarts

(* Nothing has begun but the signalling.                                    *)
Unbegun(c) ==
  /\ Dormant(c) /\ c.remoteTermCapSeqNo = 0 /\ c.h225Sock = "open" /\ ~Released(c)

LEMMA NewCallUnbegun ==
  ASSUME NEW out, NEW ep, NEW f
  PROVE  Unbegun(NewCall(out, ep)) /\ Unbegun([NewCall(out, ep) EXCEPT !.flags = f])
<1> DEFINE c == NewCall(out, ep)
           d == [NewCall(out, ep) EXCEPT !.flags = f]
<1>1. CREATED # CLEAR_RELEASESENT
  BY DEF CREATED, CLEAR_RELEASESENT
<1>2. Unbegun(c)
  BY <1>1 DEF NewCall, Unbegun, Dormant, Released
<1>3. Unbegun(d)
  BY <1>1 DEF NewCall, Unbegun, Dormant, Released
<1> QED
  BY <1>2, <1>3

LEMMA MakeCallUnbegun ==
  ASSUME NEW e \in Endpoint, NEW ep \in SUBSET EpFlag,
         NEW opts \in SUBSET {"TUNNELING", "FASTSTART"}
  PROVE  Unbegun(MakeCall(e, ep, opts))
<1> DEFINE c0 == [NewCall(TRUE, ep) EXCEPT !.flags = opts]
           offers == "FASTSTART" \in c0.epFlags
           c1 == IF offers THEN FoldLeft(BuildFastStartOLC, c0, Proposals(e)) ELSE c0
           fast == IF offers THEN FastElements(c1.logicalChans) ELSE << >>
           tunnels == Has(c0, "TUNNELING") \/ Has(c0, "FASTSTART")
           m == [type |-> "Setup", tunneling |-> tunnels, fastPresent |-> offers, fast |-> fast]
<1>1. c0 \in Call /\ Unbegun(c0)
  <2>1. opts \in SUBSET CallFlag
    BY DEF CallFlag
  <2> QED
    BY <2>1, NewCallFresh, NewCallUnbegun DEF Fresh
<1>2. MakeCall(e, ep, opts) = SendH225(c1, m)
  BY DEF MakeCall, MakeCallHelper
<1>3. m.type = "Setup"
  OBVIOUS
<1> HIDE DEF c0, m
<1>4. Near(c0, c1) /\ c1 \in Call
  BY <1>1, ProposalsType, BuildAllNear, NearReflexive, NearType
<1> HIDE DEF c1
<1>5. Unbegun(c1)
  BY <1>1, <1>4 DEF Near, SameStart, Unbegun, Dormant
<1> DEFINE q == Append(c1.h225Out, m)
           d == [c1 EXCEPT !.h225Out = q]
<1>6. MakeCall(e, ep, opts) = d
  BY <1>2, <1>3 DEF SendH225
<1>7. Unbegun(d)
  <2>1. /\ d.localTermCapState = c1.localTermCapState
        /\ d.remoteTermCapState = c1.remoteTermCapState
        /\ d.masterSlaveState = c1.masterSlaveState
        /\ d.remoteTermCapSeqNo = c1.remoteTermCapSeqNo /\ d.h225Sock = c1.h225Sock
        /\ d.releaseBuilt = c1.releaseBuilt /\ d.callState = c1.callState
    BY <1>4 DEF Call
  <2> HIDE DEF d
  <2> QED
    BY <1>5, <2>1 DEF Unbegun, Dormant, Released
<1> QED
  BY <1>6, <1>7

(* Setup is all that has been written.                                      *)
Bare(c) ==
  /\ Fresh(c) /\ Unbegun(c) /\ Sent245(c) = << >>
  /\ \A i \in DOMAIN Sent225(c) : Sent225(c)[i].type = "Setup"

LEMMA BareSent ==
  ASSUME NEW c, Bare(c)
  PROVE  /\ \A k : k # "Setup" => /\ Free(Sent225(c), k) /\ Once(Sent225(c), k)
                                 /\ \A T : Led(Sent225(c), k, T)
         /\ \A k : /\ Free(Sent245(c), k) /\ Once(Sent245(c), k)
                  /\ \A T : Led(Sent245(c), k, T)
<1>1. \A k : k # "Setup" => Free(Sent225(c), k) /\ Once(Sent225(c), k) /\ \A T : Led(Sent225(c), k, T)
  BY DEF Bare, Free, Once, Led
<1>2. \A i \in DOMAIN Sent245(c) : FALSE
  BY DEF Bare
<1>3. \A k : Free(Sent245(c), k) /\ Once(Sent245(c), k) /\ \A T : Led(Sent245(c), k, T)
  BY <1>2 DEF Free, Once, Led
<1> QED
  BY <1>1, <1>3

LEMMA BareHalf ==
  ASSUME NEW a, NEW b, Bare(a), Bare(b)
  PROVE  HalfK("nothing", a, b)
<1>1. /\ Dormant(a) /\ a.remoteTermCapSeqNo = 0 /\ a.h225Sock = "open" /\ ~Released(a)
      /\ Dormant(b) /\ ~Released(b) /\ ~Linked(a)
  BY DEF Bare, Unbegun, Fresh
<1>2. a.h245Sock = "none" /\ \A t \in a.timers : t.type # "H245CONNECT"
  BY <1>1 DEF Linked
<1>3. /\ \A k : k # "Setup" => /\ Free(Sent225(a), k) /\ Free(Sent225(b), k) /\ Once(Sent225(b), k)
                              /\ \A T : Led(Sent225(b), k, T)
      /\ \A k : /\ Free(Sent245(a), k) /\ Free(Sent245(b), k) /\ Once(Sent245(b), k)
               /\ \A T : Led(Sent245(b), k, T)
  BY BareSent
<1>4. \A t \in Steps : Brief(t, a, b)
  <2>1. \A t \in Steps : ~Given(t, b)
    BY <1>1 DEF Steps, Given, Dormant, RoleDecided
  <2>2. \A T : Led(Line(b), "OLC", T)
    BY <1>3 DEF Line
  <2> QED
    BY <2>1, <2>2 DEF Brief
<1>5. OneSet(a, b)
  BY <1>1, <1>3 DEF OneSet, Line
<1>6. Closing(a, b)
  BY <1>1, <1>3 DEF Closing, Announces
<1>7. Local(a)
  <2>1. Quieted(a)
    BY <1>3 DEF Quieted, Mute
  <2>2. Joined(a)
    BY <1>1, <1>2 DEF Joined
  <2>3. Parting(a)
    BY <1>1, <1>3 DEF Parting
  <2>4. Acked(a)
    BY <1>3 DEF Acked
  <2> QED
    BY <2>1, <2>2, <2>3, <2>4 DEF Local
<1> QED
  BY <1>4, <1>5, <1>6, <1>7 DEF HalfK

LEMMA BareStart ==
  ASSUME NEW will, NEW x, NEW y, Bare(x), Bare(y)
  PROVE  Start(will, x, y)
<1>1. Dormant(x) /\ Dormant(y) /\ ~Linked(x) /\ ~Linked(y)
  BY DEF Bare, Unbegun, Fresh
<1>2. /\ x.h245Sock = "none" /\ y.h245Sock = "none" /\ ~x.h245listener
      /\ \A t \in y.timers : t.type # "H245CONNECT"
  BY <1>1 DEF Linked
<1>3. Free(Sent225(y), "Connect") /\ Once(Sent225(y), "Connect")
  BY BareSent
<1> QED
  BY <1>1, <1>2, <1>3 DEF Start

LEMMA InitialStart ==
  ASSUME Init
  PROVE  StartInv
<1>1. /\ Caller \in Endpoint /\ Peer(Caller) \in Endpoint /\ Peer(Caller) # Caller
      /\ \A e \in Endpoint : Peer(e) \in Endpoint
      /\ \A e \in Endpoint : e = Caller \/ e = Peer(Caller)
  BY Peers, SessionAssumption
<1>2. scenario \in Scenarios
  BY DEF Init
<1>3. \A e \in Endpoint : Bare(call[e])
  <2> SUFFICES ASSUME NEW e \in Endpoint
               PROVE  Bare(call[e])
    OBVIOUS
  <2>1. /\ scenario.ep[e] \in SUBSET EpFlag
        /\ scenario.opts \in SUBSET {"TUNNELING", "FASTSTART"}
    BY <1>2, ScenarioType
  <2>2. CASE e = Caller
    <3> DEFINE x == MakeCall(e, scenario.ep[e], scenario.opts)
    <3>1. call[e] = x
      BY <2>2 DEF Init
    <3>2. Unbegun(x)
      BY <2>1, MakeCallUnbegun
    <3>3. Fresh(x) /\ Sent245(x) = << >> /\ \E m \in Message : m.type = "Setup" /\ Sent225(x) = << m >>
      BY <2>1, MakeCallFresh
    <3> HIDE DEF x
    <3> QED
      BY <3>1, <3>2, <3>3 DEF Bare
  <2>3. CASE e # Caller
    <3> DEFINE y == NewCall(FALSE, scenario.ep[e])
    <3>1. call[e] = y
      BY <2>3 DEF Init
    <3>2. Unbegun(y)
      BY NewCallUnbegun
    <3>3. Fresh(y) /\ Sent225(y) = << >> /\ Sent245(y) = << >>
      BY <2>1, NewCallFresh
    <3> HIDE DEF y
    <3> QED
      BY <3>1, <3>2, <3>3 DEF Bare
  <2> QED
    BY <2>2, <2>3
<1>4. \A e \in Endpoint : HalfK("nothing", call[e], call[Peer(e)])
  BY <1>1, <1>3, BareHalf
<1>5. Start(Peer(Caller) \in Answerers, call[Caller], call[Peer(Caller)])
  BY <1>1, <1>3, BareStart
<1> QED
  BY <1>4, <1>5 DEF StartInv

-----------------------------------------------------------------------------
(* m is the first message of the stream a live call a reads.                *)
LEMMA HeadOfLine ==
  ASSUME NEW a, NEW b \in Call, NEW c, NEW m, NEW tunnelled \in BOOLEAN,
         Taken(m, tunnelled, b, c), m.type = "OLC"
  PROVE  /\ \A T : ~Led(IF tunnelled THEN Sent225(b) ELSE Sent245(b), "OLC", T)
         /\ ~Mute(b)
<1> DEFINE s == IF tunnelled THEN Sent225(b) ELSE Sent245(b)
           r == IF tunnelled THEN Sent225(c) ELSE Sent245(c)
<1>1. s = << m >> \o r /\ m \in Message /\ r \in Seq(Message)
  BY DEF Taken
<1> HIDE DEF r, s
<1>2. (\A T : ~Led(s, "OLC", T)) /\ ~Free(s, "OLC")
  BY <1>1, TailStream
<1>3. ~Mute(b)
  BY <1>2 DEF Mute, s
<1> QED
  BY <1>2, <1>3 DEF s

LEMMA PairReady ==
  ASSUME NEW a \in Call, NEW b \in Call, HalfK("nothing", a, b), HalfK("nothing", b, a),
         (Tunnels(a) <=> Tunnels(b)) \/ (Dormant(a) /\ Dormant(b)), Runs(a),
         NEW tunnelled \in BOOLEAN, NEW m, NEW c, Taken(m, tunnelled, b, c), m.type = "OLC",
         IF tunnelled THEN Tunnels(a) ELSE a.h245Sock = "open"
  PROVE  CapsExchanged(a) /\ RoleDecided(a)
<1>1. tunnelled <=> Tunnels(a)
  BY DEF HalfK, Local, Joined
<1>2. Hears(a)
  BY <1>1 DEF Hears
<1>3. ~Dormant(b)
  BY HeadOfLine DEF HalfK, Local, Quieted
<1>4. Line(b) = IF tunnelled THEN Sent225(b) ELSE Sent245(b)
  BY <1>1, <1>3 DEF Line
<1>5. \A T : ~Led(Line(b), "OLC", T)
  BY <1>4, HeadOfLine
<1>6. \A t \in Steps : Done(t, a)
  <2> SUFFICES ASSUME NEW t \in Steps
               PROVE  Done(t, a)
    OBVIOUS
  <2>1. Brief(t, a, b)
    BY DEF HalfK, Final, Steps
  <2> QED
    BY <1>2, <1>5, <2>1 DEF Brief
<1> QED
  BY <1>6 DEF Steps, Done, CapsExchanged

(* Both ends together.                                                      *)
ReadyInv == IInv /\ StartInv

LEMMA ReadyEverywhere ==
  ASSUME ReadyInv
  PROVE  OLCFindsReceiverReady
<1> SUFFICES ASSUME NEW e \in Endpoint, call[e].callState < CLEAR,
                    NEW m \in Incoming(e), m.type = "OLC"
             PROVE  CapsExchanged(call[e]) /\ RoleDecided(call[e])
  BY DEF OLCFindsReceiverReady
<1> DEFINE a == call[e]
           b == call[Peer(e)]
<1>1. /\ Peer(e) \in Endpoint /\ Peer(Peer(e)) = e /\ (e = Caller \/ Peer(e) = Caller)
      /\ a \in Call /\ b \in Call
  BY Peers DEF ReadyInv, IInv, TypeOK
<1>2. /\ HalfK("nothing", a, b) /\ HalfK("nothing", b, a)
      /\ (Tunnels(a) <=> Tunnels(b)) \/ (Dormant(a) /\ Dormant(b))
  BY <1>1 DEF ReadyInv, StartInv, Start
<1>3. Runs(a)
  BY DEF Runs
<1>4. \/ a.h245Sock = "open" /\ b.h245Net # << >> /\ m = Head(b.h245Net)
      \/ Tunnels(a) /\ b.h225Net # << >> /\ m = Head(b.h225Net)
  BY DEF Incoming, Tunnels
<1> HIDE DEF a, b
<1>5. CASE a.h245Sock = "open" /\ b.h245Net # << >> /\ m = Head(b.h245Net)
  <2>1. Taken(m, FALSE, b, Read245(b))
    BY <1>1, <1>5, HeadTaken
  <2> QED
    BY <1>1, <1>2, <1>3, <1>5, <2>1, PairReady DEF a
<1>6. CASE Tunnels(a) /\ b.h225Net # << >> /\ m = Head(b.h225Net)
  <2>1. Taken(m, TRUE, b, Read225(b))
    BY <1>1, <1>6, HeadTaken
  <2> QED
    BY <1>1, <1>2, <1>3, <1>6, <2>1, PairReady DEF a
<1> QED
  BY <1>4, <1>5, <1>6

(* ooSendTermCapMsg, ooOpenLogicalChannels and what leads to them: an       *)
(* OpenLogicalChannel is read by a live call only when that call has        *)
(* finished the capability exchange and knows its role.                     *)
THEOREM ReceiverAlwaysReady == Spec => []OLCFindsReceiverReady
<1>1. Init => ReadyInv
  BY InitialIInv, InitialStart DEF ReadyInv
<1>2. ReadyInv /\ [Next]_vars => ReadyInv'
  BY NextKeeps, NextStarts DEF ReadyInv
<1>3. ReadyInv => OLCFindsReceiverReady
  BY ReadyEverywhere
<1> QED
  BY <1>1, <1>2, <1>3, PTL DEF Spec
=============================================================================
