------------------------ MODULE WizardSessionsProofs ------------------------
(***************************************************************************)
(* Proofs about the table of walkthroughs, for any number of sessions and  *)
(* requests and for every limit.                                           *)
(*                                                                         *)
(* The argument: a request works on a session that is in the table or has  *)
(* been handed over, and it lets go only of one that has been; a session   *)
(* that is being started is known to its own request only.                 *)
(***************************************************************************)
EXTENDS WizardSessions, FiniteSetTheorems, TLAPS

Accounted == open \cup (escalated \cap logged)

\* The steps of a request after it found or added its session.
Working == {"first", "first_reply", "move", "reply", "escalate"}
Leaving == {"reply", "escalate", "drop"}

HandInv ==
    \A p \in Proc :
        /\ pc[p] = "idle" <=> id[p] = NoSession
        /\ pc[p] \in Working => id[p] \in Accounted
        /\ pc[p] = "drop" => id[p] \in escalated \cap logged

Inv == TypeOK /\ HandInv /\ NeverUnaccounted

LEMMA InitInv == Init => Inv
BY SessionAssumption DEF Init, Inv, TypeOK, PC, HandInv, NeverUnaccounted, Working

LEMMA StepInv == Inv /\ [Next]_vars => Inv'
<1> SUFFICES ASSUME Inv, [Next]_vars PROVE Inv'
  OBVIOUS
<1> USE SessionAssumption DEF Inv, TypeOK, PC, HandInv, NeverUnaccounted, Accounted,
        Working, Goto, Return
<1>1. ASSUME NEW p \in Proc, NEW i \in Session, StartCount(p, i) PROVE Inv'
  BY <1>1 DEF StartCount
<1>2. ASSUME NEW p \in Proc, NEW i \in Session, MoveGet(p, i) PROVE Inv'
  BY <1>2 DEF MoveGet
<1>3. ASSUME NEW p \in Proc, StartAdd(p) PROVE Inv'
  BY <1>3 DEF StartAdd
<1>4. ASSUME NEW p \in Proc, StartNext(p) PROVE Inv'
  BY <1>4 DEF StartNext
<1>5. ASSUME NEW p \in Proc, StartReply(p) PROVE Inv'
  BY <1>5 DEF StartReply
<1>6. ASSUME NEW p \in Proc, MoveStep(p) PROVE Inv'
  BY <1>6 DEF MoveStep
<1>7. ASSUME NEW p \in Proc, MoveLate(p) PROVE Inv'
  BY <1>7 DEF MoveLate
<1>8. ASSUME NEW p \in Proc, MoveReply(p) PROVE Inv'
  BY <1>8 DEF MoveReply
<1>9. ASSUME NEW p \in Proc, EndRecord(p) PROVE Inv'
  BY <1>9 DEF EndRecord
<1>10. ASSUME NEW p \in Proc, EndDrop(p) PROVE Inv'
  BY <1>10 DEF EndDrop
<1>11. CASE UNCHANGED vars
  BY <1>11 DEF vars
<1> QED
  BY <1>1, <1>2, <1>3, <1>4, <1>5, <1>6, <1>7, <1>8, <1>9, <1>10, <1>11
     DEF Next, Call, Step

LEMMA InvAlways == Spec => []Inv
BY InitInv, StepInv, PTL DEF Spec

\* A session that was ended and is not in the table any more was handed over and
\* has its line: finished records before it drops (remediation.go:263-277).
THEOREM HandedOver == Spec => []NeverUnaccounted
BY InvAlways, PTL DEF Inv

\* A session that is being added is new to everybody else.
AddInv ==
    \A p \in Proc : pc[p] = "add" =>
        /\ id[p] \notin open \cup ended
        /\ \A q \in Proc : id[q] = id[p] => q = p

\* One that has ended in the table has a request on its way to take it out.
LeavingInv ==
    browser.steady =>
        \A i \in ended \cap open : \E p \in Proc : id[p] = i /\ pc[p] \in Leaving

\* One request at a time, and it counted before it adds.
SerialInv ==
    /\ IsFiniteSet(open)
    /\ browser.serial =>
        /\ \A p, q \in Proc : pc[p] # "idle" /\ pc[q] # "idle" => p = q
        /\ Cardinality(open) <= maxSessions
        /\ \A p \in Proc : pc[p] = "add" => Cardinality(open) < maxSessions

TableInv == AddInv /\ LeavingInv /\ SerialInv

LEMMA InitTable == Init => TableInv
BY FS_EmptySet, LimitAssumption DEF Init, TableInv, AddInv, LeavingInv, SerialInv

LEMMA StepAdd == Inv /\ AddInv /\ [Next]_vars => AddInv'
<1> SUFFICES ASSUME Inv, AddInv, [Next]_vars PROVE AddInv'
  OBVIOUS
<1> USE SessionAssumption DEF Inv, TypeOK, PC, HandInv, AddInv, Goto, Return
<1>1. ASSUME NEW p \in Proc, NEW i \in Session, StartCount(p, i) PROVE AddInv'
  BY <1>1 DEF StartCount, Started
<1>2. ASSUME NEW p \in Proc, NEW i \in Session, MoveGet(p, i) PROVE AddInv'
  BY <1>2 DEF MoveGet
<1>3. ASSUME NEW p \in Proc, Step(p) PROVE AddInv'
  <2>1. CASE StartAdd(p)
    BY <2>1 DEF StartAdd
  <2>2. CASE StartNext(p) \/ StartReply(p)
    BY <2>2 DEF StartNext, StartReply
  <2>3. CASE MoveStep(p) \/ MoveLate(p) \/ MoveReply(p)
    BY <2>3 DEF MoveStep, MoveLate, MoveReply
  <2>4. CASE EndRecord(p) \/ EndDrop(p)
    BY <2>4 DEF EndRecord, EndDrop
  <2> QED
    BY <1>3, <2>1, <2>2, <2>3, <2>4 DEF Step
<1>4. CASE UNCHANGED vars
  BY <1>4 DEF vars
<1> QED
  BY <1>1, <1>2, <1>3, <1>4 DEF Next, Call

LEMMA StepLeaving == Inv /\ AddInv /\ LeavingInv /\ [Next]_vars => LeavingInv'
<1> SUFFICES ASSUME Inv, AddInv, LeavingInv, [Next]_vars PROVE LeavingInv'
  OBVIOUS
<1> USE SessionAssumption DEF Inv, TypeOK, PC, HandInv, AddInv, LeavingInv, Leaving,
        Goto, Return
<1>1. ASSUME NEW p \in Proc, Call(p) PROVE LeavingInv'
  BY <1>1 DEF Call, StartCount, MoveGet
<1>2. ASSUME NEW p \in Proc, Step(p) PROVE LeavingInv'
  <2>1. CASE StartAdd(p)
    BY <2>1 DEF StartAdd
  <2>2. CASE StartNext(p) \/ StartReply(p)
    BY <2>2 DEF StartNext, StartReply
  <2>3. CASE MoveStep(p) \/ MoveLate(p) \/ MoveReply(p)
    BY <2>3 DEF MoveStep, MoveLate, MoveReply
  <2>4. CASE EndRecord(p) \/ EndDrop(p)
    BY <2>4 DEF EndRecord, EndDrop
  <2> QED
    BY <1>2, <2>1, <2>2, <2>3, <2>4 DEF Step
<1>3. CASE UNCHANGED vars
  BY <1>3 DEF vars
<1> QED
  BY <1>1, <1>2, <1>3 DEF Next

LEMMA StepSerial == Inv /\ AddInv /\ SerialInv /\ [Next]_vars => SerialInv'
<1> SUFFICES ASSUME Inv, AddInv, SerialInv, [Next]_vars PROVE SerialInv'
  OBVIOUS
<1> USE LimitAssumption DEF Inv, TypeOK, PC, AddInv, SerialInv, Goto, Return
<1>1. Cardinality(open) \in Nat
  BY FS_CardinalityType
<1>2. ASSUME NEW p \in Proc, Call(p) PROVE SerialInv'
  BY <1>2 DEF Call, StartCount, MoveGet, Free
<1>3. ASSUME NEW p \in Proc, Step(p) PROVE SerialInv'
  <2>1. CASE StartAdd(p)
    <3>1. /\ IsFiniteSet(open')
          /\ Cardinality(open') = Cardinality(open) + 1
      BY <2>1, FS_AddElement DEF StartAdd
    <3> QED
      BY <1>1, <2>1, <3>1 DEF StartAdd
  <2>2. CASE EndDrop(p)
    <3>0. open' \in SUBSET open
      BY <2>2 DEF EndDrop
    <3>1. /\ IsFiniteSet(open')
          /\ Cardinality(open') <= Cardinality(open)
      BY <3>0, FS_Subset
    <3>2. Cardinality(open') \in Nat
      BY <3>1, FS_CardinalityType
    <3> QED
      BY <1>1, <2>2, <3>1, <3>2 DEF EndDrop
  <2>3. CASE StartNext(p) \/ StartReply(p) \/ MoveStep(p) \/ MoveLate(p)
             \/ MoveReply(p) \/ EndRecord(p)
    BY <2>3 DEF StartNext, StartReply, MoveStep, MoveLate, MoveReply, EndRecord
  <2> QED
    BY <1>3, <2>1, <2>2, <2>3 DEF Step
<1>4. CASE UNCHANGED vars
  BY <1>4 DEF vars
<1> QED
  BY <1>2, <1>3, <1>4 DEF Next

\* While requests come one at a time the limit of the table holds (remediation.go:198),
\* and while every answer can be written a session that ended leaves it (268).
THEOREM TableKept == Spec => []TableIsKept
<1>1. Init => Inv /\ TableInv
  BY InitInv, InitTable
<1>2. Inv /\ TableInv /\ [Next]_vars => Inv' /\ TableInv'
  BY StepInv, StepAdd, StepLeaving, StepSerial DEF TableInv
<1>3. Inv /\ TableInv => TableIsKept
  <2> SUFFICES ASSUME Inv, TableInv PROVE TableIsKept
    OBVIOUS
  <2>1. ASSUME browser.steady, NEW i \in ended, \A p \in Proc : id[p] # i
        PROVE  i \notin open
    BY <2>1 DEF TableInv, LeavingInv
  <2> QED
    BY <2>1 DEF TableInv, SerialInv, TableIsKept
<1> QED
  BY <1>1, <1>2, <1>3, PTL DEF Spec
=============================================================================
