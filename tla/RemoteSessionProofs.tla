------------------------- MODULE RemoteSessionProofs -------------------------
(***************************************************************************)
(* Proofs about the remote-help wrapper, for any number of plans and calls *)
(* and with restarts at any time.                                          *)
(*                                                                         *)
(* The argument: a plan is pending, or one Start holds it, or it is spent. *)
(* Refusing takes it out of the first place or the second, and nothing     *)
(* puts it back.                                                           *)
(***************************************************************************)
EXTENDS RemoteSession, TLAPS

Denied(t) == Logged("CONSENT_DENIED", t)
Given(t) == Logged("CONSENT_GIVEN", t)

\* What a call works with is there while it works with it.
HandInv ==
    /\ \A p \in Proc : pc[p] # "idle" => tok[p] \in Token /\ issued[tok[p]] # "none"
    /\ pending # NoToken => issued[pending] # "none"

\* A Start is alone with its plan.
StartInv ==
    \A p \in Proc : Starting(p) =>
        /\ tok[p] # pending
        /\ pc[p] = "decide" => tok[p] \notin agreed
        /\ pc[p] # "decide" => tok[p] \in agreed
        /\ pc[p] = "launch" => launched[tok[p]] = 0
        /\ \A q \in Proc : Starting(q) /\ tok[q] = tok[p] => q = p

\* Only what was agreed to is launched, opened or recorded as agreed.
AgreedInv ==
    /\ pending \notin agreed
    /\ current # NoToken => current \in agreed
    /\ \A t \in Token :
          /\ launched[t] \in 0..1
          /\ launched[t] > 0 => t \in agreed
          /\ t \in agreed => issued[t] # "none"
          /\ Given(t) => t \in agreed

\* A refused plan is in no hand.
OutOfHand(t) ==
    /\ t # pending
    /\ t \notin agreed
    /\ issued[t] # "none"
    /\ \A p \in Proc : Starting(p) => tok[p] # t

RefusedInv ==
    /\ \A p \in Proc : pc[p] = "declined" => OutOfHand(tok[p])
    /\ \A t \in Token : Denied(t) => OutOfHand(t)

Inv == TypeOK /\ HandInv /\ StartInv /\ AgreedInv /\ RefusedInv

LEMMA InitInv == Init => Inv
BY TokenAssumption
   DEF Init, Inv, TypeOK, Plan, PC, Event, HandInv, StartInv, AgreedInv, RefusedInv,
       Starting, Given, Denied, Logged

\* The log only grows, and by one line.
LEMMA Written ==
    ASSUME TypeOK, NEW e \in Event, NEW t \in Token, Write(e, t)
    PROVE  /\ log' \in Seq([event : Event, token : Token])
           /\ \A f \in Event, u \in Token :
                 Logged(f, u)' <=> Logged(f, u) \/ (f = e /\ u = t)
<1>1. Line(e, t) \in [event : Event, token : Token]
  BY DEF Line
<1>2. /\ log' = Append(log, Line(e, t))
      /\ log \in Seq([event : Event, token : Token])
  BY DEF Write, TypeOK
<1>3. /\ Len(log') = Len(log) + 1
      /\ log'[Len(log) + 1] = Line(e, t)
      /\ \A i \in 1..Len(log) : log'[i] = log[i]
  BY <1>1, <1>2
<1>4. ASSUME NEW f \in Event, NEW u \in Token
      PROVE  Logged(f, u)' <=> Logged(f, u) \/ (f = e /\ u = t)
  <2>1. Line(f, u) = Line(e, t) <=> f = e /\ u = t
    BY DEF Line
  <2>2. Line(f, u)' = Line(f, u)
    BY DEF Line
  <2>3. Len(log) \in Nat /\ 1..Len(log') = 1..Len(log) \cup {Len(log) + 1}
    BY <1>2, <1>3
  <2> QED
    BY <1>3, <2>1, <2>2, <2>3 DEF Logged
<1> QED
  BY <1>1, <1>2, <1>4

LEMMA StepType == Inv /\ [Next]_vars => TypeOK'
<1> SUFFICES ASSUME Inv, [Next]_vars PROVE TypeOK'
  OBVIOUS
<1> USE TokenAssumption DEF Inv, TypeOK, Plan, PC, Goto, Return, wrapperVars, localVars
<1>1. ASSUME NEW p \in Proc, NEW t \in Token, PlanStore(p, t) PROVE TypeOK'
  <2>1. issued' \in [Token -> Plan]
    BY <1>1 DEF PlanStore
  <2> QED
    BY <1>1, <2>1 DEF PlanStore
<1>2. ASSUME NEW p \in Proc, NEW t \in Token, NEW a \in BOOLEAN, StartTake(p, t, a)
      PROVE  TypeOK'
  BY <1>2 DEF StartTake
<1>3. ASSUME NEW p \in Proc, Decline(p) PROVE TypeOK'
  BY <1>3 DEF Decline
<1>4. ASSUME NEW p \in Proc, PlanAsk(p) PROVE TypeOK'
  <2>1. tok[p] \in Token
    BY <1>4 DEF PlanAsk, HandInv
  <2>2. log' \in Seq([event : Event, token : Token])
    BY <1>4, <2>1, Written DEF PlanAsk, Event
  <2> QED
    BY <1>4, <2>2 DEF PlanAsk
<1>5. ASSUME NEW p \in Proc, StartDenied(p) PROVE TypeOK'
  <2>1. tok[p] \in Token
    BY <1>5 DEF StartDenied, HandInv
  <2>2. log' \in Seq([event : Event, token : Token])
    BY <1>5, <2>1, Written DEF StartDenied, Event
  <2> QED
    BY <1>5, <2>2 DEF StartDenied
<1>6. ASSUME NEW p \in Proc, StartGiven(p) PROVE TypeOK'
  <2>1. tok[p] \in Token
    BY <1>6 DEF StartGiven, HandInv
  <2>2. log' \in Seq([event : Event, token : Token])
    BY <1>6, <2>1, Written DEF StartGiven, Event
  <2> QED
    BY <1>6, <2>2 DEF StartGiven
<1>7. ASSUME NEW p \in Proc, StartStarted(p) PROVE TypeOK'
  <2>1. tok[p] \in Token
    BY <1>7 DEF StartStarted, HandInv
  <2>2. log' \in Seq([event : Event, token : Token])
    BY <1>7, <2>1, Written DEF StartStarted, Event
  <2> QED
    BY <1>7, <2>2 DEF StartStarted
<1>8. ASSUME NEW p \in Proc, DeclineRecord(p) PROVE TypeOK'
  <2>1. tok[p] \in Token
    BY <1>8 DEF DeclineRecord, HandInv
  <2>2. log' \in Seq([event : Event, token : Token])
    BY <1>8, <2>1, Written DEF DeclineRecord, Event
  <2> QED
    BY <1>8, <2>2 DEF DeclineRecord
<1>9. ASSUME NEW p \in Proc,
             StartBusy(p) \/ StartAgreed(p) \/ StartLaunchFails(p) \/ StartOpen(p)
      PROVE  TypeOK'
  BY <1>9 DEF StartBusy, StartAgreed, StartLaunchFails, StartOpen, HandInv
<1>10. ASSUME NEW p \in Proc, StartLaunch(p) PROVE TypeOK'
  <2>1. tok[p] \in Token /\ launched[tok[p]] \in Nat
    BY <1>10 DEF StartLaunch, HandInv
  <2>2. launched' \in [Token -> Nat]
    BY <1>10, <2>1 DEF StartLaunch
  <2> QED
    BY <1>10, <2>2 DEF StartLaunch
<1>11. CASE End
  <2>1. current \in Token
    BY <1>11 DEF End, Open
  <2>2. log' \in Seq([event : Event, token : Token])
    BY <1>11, <2>1, Written DEF End, Event
  <2> QED
    BY <1>11, <2>1, <2>2 DEF End
<1>12. CASE Restart
  BY <1>12 DEF Restart
<1>13. CASE UNCHANGED vars
  BY <1>13 DEF vars
<1> HIDE DEF Inv, TypeOK
<1> QED
  BY <1>1, <1>2, <1>3, <1>4, <1>5, <1>6, <1>7, <1>8, <1>9, <1>10, <1>11, <1>12, <1>13
     DEF Next, Call, Step

\* What the log says of each plan is as it was.
SameLog == \A t \in Token : (Denied(t)' <=> Denied(t)) /\ (Given(t)' <=> Given(t))

LEMMA Unwritten == UNCHANGED log => SameLog
BY DEF SameLog, Denied, Given, Logged, Line

LEMMA StepPlan ==
    ASSUME Inv, NEW p \in Proc, NEW t \in Token, PlanStore(p, t)
    PROVE  HandInv' /\ StartInv' /\ AgreedInv' /\ RefusedInv'
<1> USE TokenAssumption DEF Inv, TypeOK, HandInv, StartInv, AgreedInv, RefusedInv,
        OutOfHand, Starting, PlanStore
<1>1. SameLog
  BY Unwritten
<1>2. \A u \in Token : u # t => issued'[u] = issued[u]
  BY DEF Plan
<1>3. issued'[t] # "none" /\ issued[t] = "none"
  BY DEF Plan
<1>4. \A q \in Proc \ {p} : pc'[q] = pc[q] /\ tok'[q] = tok[q]
  OBVIOUS
<1>5. pc'[p] = "plan_ask" /\ tok'[p] = t /\ pc[p] = "idle"
  OBVIOUS
<1>6. t \notin agreed /\ \A q \in Proc : pc[q] # "idle" => tok[q] # t
  BY <1>3
<1>7. HandInv'
  BY <1>2, <1>3, <1>4, <1>5, <1>6
<1>8. StartInv'
  BY <1>3, <1>4, <1>5, <1>6
<1>9. AgreedInv'
  BY <1>1, <1>2, <1>3, <1>6 DEF SameLog
<1>10. RefusedInv'
  <2>1. \A u \in Token : u # t /\ OutOfHand(u) => OutOfHand(u)'
    BY <1>2, <1>4, <1>5
  <2>2. \A u \in Token : OutOfHand(u) => u # t
    BY <1>3
  <2> HIDE DEF OutOfHand
  <2>3. \A q \in Proc : pc'[q] = "declined" => OutOfHand(tok[q])'
    BY <1>4, <1>5, <2>1, <2>2
  <2> QED
    BY <1>1, <2>1, <2>2, <2>3 DEF SameLog
<1> QED
  BY <1>7, <1>8, <1>9, <1>10

\* The calls that take the pending plan.
LEMMA StepTake ==
    ASSUME Inv, NEW p \in Proc, NEW u \in Token, u = pending,
           Decline(p) \/ \E t \in Token, a \in BOOLEAN : StartTake(p, t, a)
    PROVE  HandInv' /\ StartInv' /\ AgreedInv' /\ RefusedInv'
<1> USE TokenAssumption DEF Inv, TypeOK, HandInv, StartInv, AgreedInv, RefusedInv,
        OutOfHand, Starting, StartTake, Decline
<1>1. SameLog
  BY Unwritten
<1>2. \A q \in Proc \ {p} : pc'[q] = pc[q] /\ tok'[q] = tok[q]
  OBVIOUS
<1>3. /\ pc'[p] \in {"decide", "declined"} /\ tok'[p] = u
      /\ pc[p] = "idle" /\ pending' = NoToken
      /\ UNCHANGED <<issued, agreed, launched, current>>
  OBVIOUS
<1>4. u \notin agreed /\ launched[u] = 0 /\ issued[u] # "none"
  BY <1>3
<1>5. HandInv'
  BY <1>2, <1>3, <1>4
<1>6. StartInv'
  BY <1>2, <1>3, <1>4
<1>7. AgreedInv'
  BY <1>1, <1>3 DEF SameLog
<1>8. RefusedInv'
  <2>1. \A t \in Token : OutOfHand(t) => OutOfHand(t)'
    BY <1>2, <1>3
  <2>2. pc'[p] = "declined" => OutOfHand(u)'
    BY <1>2, <1>3, <1>4
  <2> HIDE DEF OutOfHand
  <2>3. \A q \in Proc : pc'[q] = "declined" => OutOfHand(tok[q])'
    BY <1>2, <1>3, <2>1, <2>2
  <2> QED
    BY <1>1, <2>1, <2>3 DEF SameLog
<1> QED
  BY <1>5, <1>6, <1>7, <1>8

\* A step of p that writes the line e about its plan.
LEMMA Writing ==
    ASSUME Inv, NEW p \in Proc, pc[p] # "idle", NEW e \in Event, Write(e, tok[p])
    PROVE  \A t \in Token :
              /\ Denied(t)' <=> Denied(t) \/ (e = "CONSENT_DENIED" /\ t = tok[p])
              /\ Given(t)' <=> Given(t) \/ (e = "CONSENT_GIVEN" /\ t = tok[p])
<1>1. tok[p] \in Token /\ TypeOK
  BY DEF Inv, HandInv
<1>2. \A f \in Event, t \in Token : Logged(f, t)' <=> Logged(f, t) \/ (f = e /\ t = tok[p])
  BY <1>1, Written
<1>3. "CONSENT_DENIED" \in Event /\ "CONSENT_GIVEN" \in Event
  BY DEF Event
<1> QED
  BY <1>2, <1>3 DEF Denied, Given

\* The step that gives up a plan for good.
LEMMA StepRefuse ==
    ASSUME Inv, NEW p \in Proc, StartDenied(p) \/ DeclineRecord(p)
    PROVE  HandInv' /\ StartInv' /\ AgreedInv' /\ RefusedInv'
<1> USE TokenAssumption DEF Inv, TypeOK, HandInv, StartInv, AgreedInv, RefusedInv,
        OutOfHand, Starting, StartDenied, DeclineRecord, Return, wrapperVars
<1>1. \A t \in Token : (Denied(t)' <=> Denied(t) \/ t = tok[p]) /\ (Given(t)' <=> Given(t))
  BY Writing DEF Event
<1>2. \A q \in Proc \ {p} : pc'[q] = pc[q] /\ tok'[q] = tok[q]
  OBVIOUS
<1>3. /\ pc[p] \in {"decide", "declined"} /\ pc'[p] = "idle" /\ tok[p] \in Token
      /\ UNCHANGED <<issued, agreed, launched, current, pending>>
  OBVIOUS
<1>4. \A t \in Token : OutOfHand(t) => OutOfHand(t)'
  BY <1>2, <1>3
<1>5. \A q \in Proc : Starting(q)' => q # p /\ Starting(q) /\ tok'[q] = tok[q]
  BY <1>2, <1>3
<1>6. ASSUME NEW t \in Token, t = tok[p] PROVE OutOfHand(t)'
  <2>1. t # pending /\ t \notin agreed /\ issued[t] # "none"
    BY <1>3, <1>6
  <2>2. \A q \in Proc : q # p /\ Starting(q) => tok[q] # t
    BY <1>3, <1>6
  <2> HIDE DEF Starting
  <2> QED
    BY <1>3, <1>5, <2>1, <2>2
<1>7. HandInv' /\ StartInv'
  <2>1. HandInv'
    BY <1>2, <1>3
  <2>2. StartInv'
    BY <1>2, <1>3, <1>5
  <2> QED
    BY <2>1, <2>2
<1>8. AgreedInv'
  BY <1>1, <1>3
<1>9. RefusedInv'
  <2> HIDE DEF OutOfHand
  <2> QED
    BY <1>1, <1>2, <1>3, <1>4, <1>6
<1> QED
  BY <1>7, <1>8, <1>9

\* The steps of a Start that was agreed to, and the line of a question.
LEMMA StepOn ==
    ASSUME Inv, NEW p \in Proc,
           \/ PlanAsk(p) \/ StartBusy(p) \/ StartAgreed(p) \/ StartLaunch(p)
           \/ StartLaunchFails(p) \/ StartOpen(p) \/ StartGiven(p) \/ StartStarted(p)
    PROVE  HandInv' /\ StartInv' /\ AgreedInv' /\ RefusedInv'
<1> USE TokenAssumption DEF Inv, TypeOK, HandInv, Starting, Goto, Return, wrapperVars,
        localVars, PlanAsk, StartBusy, StartAgreed, StartLaunch, StartLaunchFails,
        StartOpen, StartGiven, StartStarted
<1>1. \A t \in Token :
         /\ Denied(t)' <=> Denied(t)
         /\ Given(t)' => Given(t) \/ (pc[p] = "given" /\ t = tok[p])
  <2>1. CASE UNCHANGED log
    BY <2>1, Unwritten DEF SameLog
  <2>2. CASE PlanAsk(p) \/ StartGiven(p) \/ StartStarted(p)
    BY <2>2, Writing DEF Event
  <2> QED
    BY <2>1, <2>2
<1>2. \A q \in Proc \ {p} : pc'[q] = pc[q] /\ tok'[q] = tok[q]
  OBVIOUS
<1>3. /\ pc'[p] # "idle" => tok'[p] = tok[p]
      /\ pc[p] # "idle" /\ tok[p] \in Token /\ pc'[p] \notin {"decide", "declined"}
      /\ UNCHANGED <<issued, pending>>
  OBVIOUS
<1>4. /\ agreed' \in {agreed, agreed \cup {tok[p]}}
      /\ agreed' # agreed => pc[p] = "decide"
      /\ Starting(p)' => Starting(p) /\ (pc'[p] = "launch" => pc[p] = "decide") /\ tok[p] \in agreed'
      /\ current' # current => current' = tok[p] /\ pc[p] = "open"
      /\ \A t \in Token : launched'[t] # launched[t] =>
            t = tok[p] /\ pc[p] = "launch" /\ launched'[t] = launched[t] + 1 /\ pc'[p] = "open"
  BY DEF StartInv
<1>5. HandInv'
  BY <1>2, <1>3
<1>6. StartInv'
  <2>1. \A q \in Proc : Starting(q)' => Starting(q) /\ tok'[q] = tok[q]
    BY <1>2, <1>3, <1>4
  <2>2. ASSUME NEW q \in Proc, q # p, Starting(q), Starting(p)
        PROVE  tok[q] # tok[p]
    BY <2>2 DEF StartInv
  <2>3. ASSUME NEW q \in Proc, Starting(q)'
        PROVE  /\ tok'[q] # pending'
               /\ \A r \in Proc : Starting(r)' /\ tok'[r] = tok'[q] => r = q
    BY <1>3, <2>1, <2>3 DEF StartInv
  <2>4. /\ Starting(p)' => pc'[p] # "decide" /\ tok'[p] \in agreed'
        /\ pc'[p] = "launch" => launched'[tok'[p]] = 0
    BY <1>3, <1>4 DEF StartInv, AgreedInv
  <2>5. ASSUME NEW q \in Proc, q # p, Starting(q)'
        PROVE  /\ pc'[q] = "decide" => tok'[q] \notin agreed'
               /\ pc'[q] # "decide" => tok'[q] \in agreed'
               /\ pc'[q] = "launch" => launched'[tok'[q]] = 0
    <3>1. Starting(q) /\ tok'[q] = tok[q] /\ pc'[q] = pc[q] /\ tok[q] \in Token
      BY <1>2, <2>1, <2>5
    <3>2. tok[q] \notin agreed => tok[q] \notin agreed'
      BY <1>4, <2>2, <2>5, <3>1
    <3>3. pc[q] = "launch" => launched'[tok[q]] = launched[tok[q]]
      BY <1>4, <2>2, <2>5, <3>1
    <3> QED
      BY <1>4, <3>1, <3>2, <3>3 DEF StartInv
  <2> HIDE DEF Starting
  <2> QED
    BY <2>3, <2>4, <2>5 DEF StartInv
<1>7. AgreedInv'
  <2>1. Starting(p) /\ pc[p] # "decide" => tok[p] \in agreed
    BY DEF StartInv
  <2>2. pending \notin agreed'
    BY <1>4 DEF StartInv, AgreedInv
  <2>3. current' # NoToken => current' \in agreed'
    BY <1>4, <2>1 DEF AgreedInv
  <2>4. ASSUME NEW t \in Token
        PROVE  /\ launched'[t] \in 0..1
               /\ launched'[t] > 0 => t \in agreed'
               /\ t \in agreed' => issued'[t] # "none"
               /\ Given(t)' => t \in agreed'
    BY <1>1, <1>3, <1>4, <2>1 DEF StartInv, AgreedInv
  <2> QED
    BY <1>3, <2>2, <2>3, <2>4 DEF AgreedInv
<1>8. RefusedInv'
  <2>1. \A t \in Token : OutOfHand(t) => OutOfHand(t)'
    BY <1>2, <1>3, <1>4 DEF OutOfHand
  <2> QED
    BY <1>1, <1>2, <1>3, <2>1 DEF RefusedInv
<1> QED
  BY <1>5, <1>6, <1>7, <1>8

LEMMA StepEnd ==
    ASSUME Inv, End
    PROVE  HandInv' /\ StartInv' /\ AgreedInv' /\ RefusedInv'
<1> USE DEF Inv, TypeOK, End, Open, localVars
<1>1. SameLog
  <2>1. \A f \in Event, t \in Token :
           Logged(f, t)' <=> Logged(f, t) \/ (f = "REMOTE_ENDED" /\ t = current)
    BY Written DEF Event
  <2> QED
    BY <2>1 DEF SameLog, Denied, Given, Event
<1>2. UNCHANGED <<issued, pending, current, agreed, launched, pc, tok>>
  OBVIOUS
<1> QED
  BY <1>1, <1>2 DEF SameLog, HandInv, StartInv, AgreedInv, RefusedInv, OutOfHand, Starting

LEMMA StepRestart ==
    ASSUME Inv, Restart
    PROVE  HandInv' /\ StartInv' /\ AgreedInv' /\ RefusedInv'
<1>1. SameLog
  BY Unwritten DEF Restart
<1> QED
  BY <1>1, TokenAssumption
     DEF Restart, Inv, TypeOK, SameLog, HandInv, StartInv, AgreedInv, RefusedInv,
         OutOfHand, Starting

LEMMA StepInv == Inv /\ [Next]_vars => Inv'
<1> SUFFICES ASSUME Inv, [Next]_vars PROVE HandInv' /\ StartInv' /\ AgreedInv' /\ RefusedInv'
  BY StepType DEF Inv
<1>1. ASSUME NEW p \in Proc, Call(p)
      PROVE  HandInv' /\ StartInv' /\ AgreedInv' /\ RefusedInv'
  <2>1. CASE \E t \in Token : PlanStore(p, t)
    BY <2>1, StepPlan
  <2>2. CASE Decline(p) \/ \E t \in Token, a \in BOOLEAN : StartTake(p, t, a)
    <3>1. pending \in Token
      BY <2>2 DEF Decline, StartTake, Inv, TypeOK
    <3> QED
      BY <2>2, <3>1, StepTake
  <2> QED
    BY <1>1, <2>1, <2>2 DEF Call
<1>2. ASSUME NEW p \in Proc, Step(p)
      PROVE  HandInv' /\ StartInv' /\ AgreedInv' /\ RefusedInv'
  BY <1>2, StepRefuse, StepOn DEF Step
<1>3. CASE UNCHANGED vars
  <2>1. SameLog
    BY <1>3, Unwritten DEF vars
  <2> QED
    BY <1>3, <2>1 DEF vars, SameLog, Inv, HandInv, StartInv, AgreedInv, RefusedInv,
       OutOfHand, Starting
<1> QED
  BY <1>1, <1>2, <1>3, StepEnd, StepRestart DEF Next

LEMMA InvAlways == Spec => []Inv
BY InitInv, StepInv, PTL DEF Spec

-----------------------------------------------------------------------------
(* What follows from the invariant. *)

\* Every step of every call leaves the variables with the values they may have.
THEOREM RemoteTypeCorrect == Spec => []TypeOK
BY InvAlways, PTL DEF Inv

\* A plan is good for one session (remote.go:282-284): however many Starts present
\* its token, one of them takes it, and one program is launched at most.
THEOREM OneSession == Spec => []OneSessionPerPlan
<1>1. Inv => OneSessionPerPlan
  BY DEF Inv, StartInv, AgreedInv, OneSessionPerPlan
<1> QED
  BY <1>1, InvAlways, PTL

\* Between its two lines a Start is at "started".
GivenInv == \A p \in Proc : pc[p] = "started" => Given(tok[p])

LEMMA StepGiven == Inv /\ GivenInv /\ [Next]_vars => GivenInv'
<1> SUFFICES ASSUME Inv, GivenInv, [Next]_vars PROVE GivenInv'
  OBVIOUS
<1> USE DEF Goto, Return, wrapperVars, localVars
<1>1. \A p \in Proc : pc[p] # "idle" => tok[p] \in Token
  BY DEF Inv, HandInv
<1>2. pc \in [Proc -> PC] /\ tok \in [Proc -> Token \cup {NoToken}]
  BY DEF Inv, TypeOK
<1>3. CASE UNCHANGED <<log, pc, tok>>
  BY <1>1, <1>3, Unwritten DEF SameLog, GivenInv
<1>4. ASSUME NEW p \in Proc, UNCHANGED log, pc'[p] # "started",
             \A q \in Proc \ {p} : pc'[q] = pc[q] /\ tok'[q] = tok[q]
      PROVE  GivenInv'
  BY <1>1, <1>4, Unwritten DEF SameLog, GivenInv
<1>5. ASSUME NEW p \in Proc, NEW e \in Event, Write(e, tok[p]), pc[p] # "idle",
             pc'[p] = "started" => e = "CONSENT_GIVEN" /\ tok'[p] = tok[p],
             \A q \in Proc \ {p} : pc'[q] = pc[q] /\ tok'[q] = tok[q]
      PROVE  GivenInv'
  <2>1. \A t \in Token : Given(t)' <=> Given(t) \/ (e = "CONSENT_GIVEN" /\ t = tok[p])
    BY <1>5, Writing
  <2> QED
    BY <1>1, <1>5, <2>1 DEF GivenInv
<1>6. ASSUME NEW p \in Proc, Call(p) PROVE GivenInv'
  BY <1>2, <1>4, <1>6 DEF Call, PlanStore, StartTake, Decline
<1>7. ASSUME NEW p \in Proc, Step(p) PROVE GivenInv'
  <2>1. CASE \/ StartBusy(p) \/ StartAgreed(p) \/ StartLaunch(p)
             \/ StartLaunchFails(p) \/ StartOpen(p)
    BY <1>2, <1>4, <2>1
       DEF StartBusy, StartAgreed, StartLaunch, StartLaunchFails, StartOpen
  <2>2. CASE \/ PlanAsk(p) \/ StartDenied(p) \/ StartGiven(p)
             \/ StartStarted(p) \/ DeclineRecord(p)
    BY <1>2, <1>5, <2>2
       DEF PlanAsk, StartDenied, StartGiven, StartStarted, DeclineRecord, Event
  <2> QED
    BY <1>7, <2>1, <2>2 DEF Step
<1>8. CASE End
  <2>1. current \in Token
    BY <1>8 DEF End, Open, Inv, TypeOK
  <2>2. \A t \in Token : Given(t)' <=> Given(t)
    BY <1>8, <2>1, Written DEF End, Event, Inv, Given
  <2> QED
    BY <1>1, <1>8, <2>2 DEF End, GivenInv
<1>9. CASE Restart
  BY <1>9 DEF Restart, GivenInv
<1>10. CASE UNCHANGED vars
  BY <1>3, <1>10 DEF vars
<1> QED
  BY <1>6, <1>7, <1>8, <1>9, <1>10 DEF Next

\* Past its checks a Start comes back through its last line, or not at all.
LEMMA ReturnIsRecorded ==
    ASSUME Inv, GivenInv, [Next]_vars, ~Restart,
           NEW p \in Proc, NEW t \in Token, t = tok[p], PastChecks(p), pc'[p] = "idle"
    PROVE  Logged("CONSENT_GIVEN", t)' /\ Logged("REMOTE_STARTED", t)'
<1> USE DEF PastChecks, Goto, Return
<1>1. pc \in [Proc -> PC] /\ TypeOK
  BY DEF Inv, TypeOK
<1>2. ASSUME NEW q \in Proc, Call(q) PROVE FALSE
  BY <1>1, <1>2 DEF Call, PlanStore, StartTake, Decline
<1>3. ASSUME NEW q \in Proc, Step(q) PROVE StartStarted(p)
  <2>1. q = p
    BY <1>1, <1>3
       DEF Step, PlanAsk, StartDenied, StartBusy, StartAgreed, StartLaunch,
           StartLaunchFails, StartOpen, StartGiven, StartStarted, DeclineRecord
  <2> QED
    BY <1>1, <1>3, <2>1
       DEF Step, PlanAsk, StartDenied, StartBusy, StartAgreed, StartLaunch,
           StartLaunchFails, StartOpen, StartGiven, DeclineRecord
<1>4. StartStarted(p)
  BY <1>2, <1>3 DEF Next, End, vars
<1>5. \A f \in Event : Logged(f, t)' <=> Logged(f, t) \/ f = "REMOTE_STARTED"
  BY <1>1, <1>4, Written DEF StartStarted, Event
<1>6. Given(t)
  BY <1>4 DEF StartStarted, GivenInv
<1> QED
  BY <1>5, <1>6 DEF Event, Given

\* A no stays out: a plan that was refused is in no hand, so nothing is launched or
\* opened under it later; and a yes that passed the checks is in the log as a session
\* when Start returns, launched or not (remote.go:293-298, 322-324, 348).
THEOREM AnswerKept == Spec => AnswerIsKept
<1>1. Inv => RefusedStaysOut
  <2> SUFFICES ASSUME Inv, NEW t \in Token, Denied(t)
               PROVE  launched[t] = 0 /\ current # t /\ ~Given(t)
    BY DEF RefusedStaysOut, Denied, Given
  <2>1. t \notin agreed
    BY DEF Inv, RefusedInv, OutOfHand
  <2>2. launched[t] \in 0..1 /\ ~(launched[t] > 0)
    BY <2>1 DEF Inv, AgreedInv
  <2>3. t # NoToken
    BY TokenAssumption
  <2> QED
    BY <2>1, <2>2, <2>3 DEF Inv, AgreedInv
<1>2. Init => Inv /\ GivenInv
  BY InitInv DEF Init, GivenInv
<1>3. Inv /\ GivenInv /\ [Next]_vars
      => [\A p \in Proc, t \in Token :
            PastChecks(p) /\ tok[p] = t /\ pc'[p] = "idle"
            => \/ Logged("CONSENT_GIVEN", t)' /\ Logged("REMOTE_STARTED", t)'
               \/ Restart]_vars
  BY ReturnIsRecorded
<1>4. Inv /\ GivenInv /\ [Next]_vars => Inv' /\ GivenInv'
  BY StepInv, StepGiven
<1> QED
  BY <1>1, <1>2, <1>3, <1>4, PTL DEF Spec, AnswerIsKept

-----------------------------------------------------------------------------
(* While calls come one at a time, sessions follow one another. *)

\* With one call in flight at most: the session Start saw is the current one, only the
\* current session can be open, none is when a Start gets past its checks, and a session
\* has its first line by the time its call is over.
AloneInv == \A p, q \in Proc : pc[p] # "idle" /\ pc[q] # "idle" => p = q
CurrentInv ==
    /\ opened \ ended \subseteq {current}
    /\ current # NoToken => current \in opened
    /\ \A p \in Proc : pc[p] = "decide" => running[p] = current
    /\ \A p \in Proc : pc[p] \in {"launch", "open"} => opened \subseteq ended
RecordInv ==
    \A t \in opened :
        \/ Logged("REMOTE_STARTED", t)
        \/ \E p \in Proc : pc[p] \in {"given", "started"} /\ tok[p] = t

SerialInv == serial => AloneInv /\ CurrentInv /\ RecordInv /\ EndedAfterStarted

LEMMA SerialInit == Init => SerialInv
BY TokenAssumption DEF Init, SerialInv, AloneInv, CurrentInv, RecordInv, EndedAfterStarted

\* A line more, of a session that was started if it says that the session ended.
LEMMA EndWritten ==
    ASSUME TypeOK, EndedAfterStarted, NEW e \in Event, NEW t \in Token, Write(e, t),
           e = "REMOTE_ENDED" => Logged("REMOTE_STARTED", t)
    PROVE  EndedAfterStarted'
<1>1. Line(e, t) \in [event : Event, token : Token]
  BY DEF Line
<1>2. log' = Append(log, Line(e, t)) /\ log \in Seq([event : Event, token : Token])
  BY DEF Write, TypeOK
<1>3. /\ Len(log') = Len(log) + 1 /\ Len(log) \in Nat
      /\ log'[Len(log) + 1] = Line(e, t)
      /\ \A i \in 1..Len(log) : log'[i] = log[i]
  BY <1>1, <1>2
<1>4. Line(e, t).event = e /\ Line(e, t).token = t
  BY DEF Line
<1>5. SUFFICES ASSUME NEW i \in 1..Len(log'), log'[i].event = "REMOTE_ENDED"
               PROVE  \E j \in 1..i : log'[j] = Line("REMOTE_STARTED", log'[i].token)
  BY DEF EndedAfterStarted, Line
<1>6. CASE i \in 1..Len(log)
  <2>1. PICK j \in 1..i : log[j] = Line("REMOTE_STARTED", log[i].token)
    BY <1>3, <1>5, <1>6 DEF EndedAfterStarted
  <2> QED
    BY <1>3, <1>6, <2>1
<1>7. CASE i = Len(log) + 1
  <2>1. PICK j \in 1..Len(log) : log[j] = Line("REMOTE_STARTED", t)
    BY <1>3, <1>4, <1>5, <1>7 DEF Logged
  <2> QED
    BY <1>3, <1>4, <1>7, <2>1
<1> QED
  BY <1>3, <1>6, <1>7

LEMMA EndUnwritten == UNCHANGED log /\ EndedAfterStarted => EndedAfterStarted'
BY DEF EndedAfterStarted, Line

LEMMA StartUnwritten ==
    UNCHANGED log => \A t : Logged("REMOTE_STARTED", t) => Logged("REMOTE_STARTED", t)'
BY DEF Logged, Line

\* A call begins: no other is under way.
LEMMA SerialCall ==
    ASSUME Inv, SerialInv, serial, NEW p \in Proc, Call(p)
    PROVE  SerialInv'
<1> USE TokenAssumption DEF Inv, TypeOK, Call, PlanStore, StartTake, Decline, Free
<1>1. /\ \A q \in Proc : pc[q] = "idle"
      /\ \A q \in Proc : pc'[q] # "idle" => q = p
      /\ UNCHANGED <<current, ended, opened, log>>
      /\ pc'[p] \in {"plan_ask", "decide", "declined"}
      /\ pc'[p] = "decide" => running'[p] = current
  OBVIOUS
<1> HIDE DEF Inv, TypeOK, Call, PlanStore, StartTake, Decline, Free
<1>2. AloneInv'
  BY <1>1 DEF AloneInv
<1>3. CurrentInv'
  BY <1>1 DEF SerialInv, CurrentInv
<1>4. RecordInv'
  BY <1>1, StartUnwritten DEF SerialInv, RecordInv
<1>5. EndedAfterStarted'
  BY <1>1, EndUnwritten DEF SerialInv
<1> QED
  BY <1>2, <1>3, <1>4, <1>5 DEF SerialInv

LEMMA SerialStep ==
    ASSUME Inv, SerialInv, serial, NEW p \in Proc, Step(p)
    PROVE  SerialInv'
<1> USE TokenAssumption
        DEF Inv, TypeOK, HandInv, Step, PlanAsk, StartDenied, StartBusy, StartAgreed,
            StartLaunch, StartLaunchFails, StartOpen, StartGiven, StartStarted,
            DeclineRecord, Goto, Return, wrapperVars, localVars, Open
<1>1. pc[p] # "idle" /\ tok[p] \in Token
  OBVIOUS
<1>2. \A q \in Proc \ {p} : pc[q] = "idle" /\ pc'[q] = "idle"
  BY <1>1 DEF SerialInv, AloneInv
<1>3. \/ UNCHANGED log /\ pc[p] # "started"
      \/ \E e \in Event \ {"REMOTE_ENDED"} :
            Write(e, tok[p]) /\ (pc[p] = "started" => e = "REMOTE_STARTED")
  BY DEF Event
<1>4. /\ UNCHANGED <<ended, serial>>
      /\ pc[p] # "open" => UNCHANGED <<current, opened>>
      /\ pc[p] = "open" => /\ current' = tok[p] /\ opened' = opened \cup {tok[p]}
                           /\ pc'[p] = "given" /\ tok'[p] = tok[p]
      /\ pc'[p] # "decide"
      /\ pc'[p] \in {"launch", "open"} =>
            \/ pc[p] = "launch"
            \/ pc[p] = "decide" /\ (running[p] = NoToken \/ running[p] \in ended)
      /\ pc[p] = "given" => pc'[p] = "started" /\ tok'[p] = tok[p]
  OBVIOUS
<1>5. opened \subseteq Token
  OBVIOUS
<1> HIDE DEF Inv, TypeOK, HandInv, Step, PlanAsk, StartDenied, StartBusy, StartAgreed,
             StartLaunch, StartLaunchFails, StartOpen, StartGiven, StartStarted,
             DeclineRecord, Goto, Return, wrapperVars, localVars, Open
<1>6. /\ \A t \in Token : Logged("REMOTE_STARTED", t) => Logged("REMOTE_STARTED", t)'
      /\ pc[p] = "started" => \A t \in Token : t = tok[p] => Logged("REMOTE_STARTED", t)'
      /\ EndedAfterStarted'
  <2>1. CASE UNCHANGED log /\ pc[p] # "started"
    BY <2>1, StartUnwritten, EndUnwritten DEF SerialInv
  <2>2. ASSUME NEW e \in Event \ {"REMOTE_ENDED"}, Write(e, tok[p]),
               pc[p] = "started" => e = "REMOTE_STARTED"
        PROVE  /\ \A t \in Token : Logged("REMOTE_STARTED", t) => Logged("REMOTE_STARTED", t)'
               /\ pc[p] = "started" => \A t \in Token : t = tok[p] => Logged("REMOTE_STARTED", t)'
               /\ EndedAfterStarted'
    <3>1. TypeOK /\ "REMOTE_STARTED" \in Event
      BY DEF Inv, Event
    <3>2. \A t \in Token : Logged("REMOTE_STARTED", t)' <=>
              Logged("REMOTE_STARTED", t) \/ ("REMOTE_STARTED" = e /\ t = tok[p])
      BY <1>1, <2>2, <3>1, Written
    <3>3. EndedAfterStarted'
      BY <1>1, <2>2, <3>1, EndWritten DEF SerialInv
    <3> QED
      BY <2>2, <3>2, <3>3
  <2> QED
    BY <1>3, <2>1, <2>2
<1>7. AloneInv'
  BY <1>2 DEF AloneInv
<1>8. CurrentInv'
  <2>1. CASE pc[p] = "open"
    BY <1>2, <1>4, <2>1 DEF SerialInv, CurrentInv
  <2>2. CASE pc[p] # "open"
    <3>1. pc'[p] \in {"launch", "open"} => opened \subseteq ended
      BY <1>4, <1>5, TokenAssumption DEF SerialInv, CurrentInv
    <3> QED
      BY <1>2, <1>4, <2>2, <3>1 DEF SerialInv, CurrentInv
  <2> QED
    BY <2>1, <2>2
<1>9. RecordInv'
  <2> SUFFICES ASSUME NEW t \in opened'
               PROVE  \/ Logged("REMOTE_STARTED", t)'
                      \/ \E q \in Proc : pc'[q] \in {"given", "started"} /\ tok'[q] = t
    BY DEF RecordInv
  <2>1. CASE pc[p] \in {"open", "given"} /\ t = tok[p]
    BY <1>4, <2>1
  <2>2. CASE pc[p] = "started" /\ t = tok[p]
    BY <1>1, <1>6, <2>2
  <2>3. CASE ~(pc[p] \in {"open", "given", "started"} /\ t = tok[p])
    <3>1. t \in opened /\ t \in Token
      BY <1>4, <1>5, <2>3
    <3>2. Logged("REMOTE_STARTED", t)
      BY <1>2, <2>3, <3>1 DEF SerialInv, RecordInv
    <3> QED
      BY <1>6, <3>1, <3>2
  <2> QED
    BY <2>1, <2>2, <2>3
<1> QED
  BY <1>6, <1>7, <1>8, <1>9 DEF SerialInv

LEMMA SerialEnd ==
    ASSUME Inv, SerialInv, serial, End
    PROVE  SerialInv'
<1> USE TokenAssumption DEF Inv, TypeOK, End, Free, Open, localVars
<1>1. /\ \A q \in Proc : pc[q] = "idle"
      /\ UNCHANGED <<pc, current, opened, serial>> /\ ended' = ended \cup {current}
      /\ Write("REMOTE_ENDED", current) /\ current \in Token /\ current # NoToken
      /\ opened \subseteq Token
  OBVIOUS
<1>2. TypeOK /\ "REMOTE_ENDED" \in Event /\ "REMOTE_STARTED" \in Event
  BY DEF Event
<1> HIDE DEF Inv, TypeOK, End, Free, Open, localVars
<1>3. \A t \in opened : Logged("REMOTE_STARTED", t)
  BY <1>1 DEF SerialInv, RecordInv
<1>4. current \in opened
  BY <1>1 DEF SerialInv, CurrentInv
<1>5. EndedAfterStarted'
  BY <1>1, <1>2, <1>3, <1>4, EndWritten DEF SerialInv
<1>6. \A t \in Token : Logged("REMOTE_STARTED", t)' <=> Logged("REMOTE_STARTED", t)
  BY <1>1, <1>2, Written
<1>7. RecordInv'
  BY <1>1, <1>3, <1>6 DEF RecordInv
<1>8. AloneInv' /\ CurrentInv'
  BY <1>1 DEF SerialInv, AloneInv, CurrentInv
<1> QED
  BY <1>5, <1>7, <1>8 DEF SerialInv

LEMMA SerialStill ==
    ASSUME Inv, SerialInv, serial, Restart \/ UNCHANGED vars
    PROVE  SerialInv'
<1>1. UNCHANGED log
  BY DEF Restart, vars
<1>2. EndedAfterStarted'
  BY <1>1, EndUnwritten DEF SerialInv
<1>3. CASE Restart
  BY <1>2, <1>3 DEF Restart, SerialInv, AloneInv, CurrentInv, RecordInv
<1>4. CASE UNCHANGED vars
  <2>1. AloneInv' /\ CurrentInv'
    BY <1>4 DEF vars, SerialInv, AloneInv, CurrentInv
  <2>2. RecordInv'
    BY <1>1, <1>4, StartUnwritten DEF vars, SerialInv, RecordInv
  <2> QED
    BY <1>2, <2>1, <2>2 DEF SerialInv
<1> QED
  BY <1>3, <1>4

LEMMA SerialAlways == Spec => [](Inv /\ SerialInv)
<1>1. [Next]_vars => serial' = serial
  BY DEF Next, Call, Step, PlanStore, StartTake, Decline, PlanAsk, StartDenied, StartBusy,
     StartAgreed, StartLaunch, StartLaunchFails, StartOpen, StartGiven, StartStarted,
     DeclineRecord, End, Restart, wrapperVars, vars
<1>2. Inv /\ SerialInv /\ [Next]_vars => SerialInv'
  <2>1. Inv /\ SerialInv /\ serial /\ [Next]_vars => SerialInv'
    BY SerialCall, SerialStep, SerialEnd, SerialStill DEF Next
  <2>2. ~serial /\ [Next]_vars => SerialInv'
    BY <1>1 DEF SerialInv
  <2> QED
    BY <2>1, <2>2
<1> QED
  BY InitInv, SerialInit, StepInv, <1>2, PTL DEF Spec

\* While calls come one at a time, of the sessions that were opened one at most has not
\* ended, and the record says that a session began before it says that it ended
\* (remote.go:14-16, docs/THREAT-MODEL.md:144).
THEOREM OneAfterAnother == Spec => []SessionsInSequence
<1>1. SerialInv => SessionsInSequence
  BY DEF SerialInv, CurrentInv, SessionsInSequence, OneSessionOpen
<1> QED
  BY SerialAlways, <1>1, PTL

-----------------------------------------------------------------------------
(* The wrapper implements ConsentGate. *)

LEMMA DecisionOf ==
    \A t \in Token :
        decisionOf[t] = IF t \in agreed THEN "agreed"
                        ELSE IF pending = t \/ Deciding(t) THEN "asked"
                        ELSE IF issued[t] = "none" THEN "none" ELSE "refused"
BY DEF decisionOf

\* Where every question stands as it stood, only the effect can have changed.
LEMMA Unanswered ==
    ASSUME UNCHANGED <<issued, agreed, pending>>,
           \A t \in Token : Deciding(t)' <=> Deciding(t)
    PROVE  decisionOf' = decisionOf
BY DEF decisionOf

\* The questions of S are no longer asked, and nothing else is different.
LEMMA Lapse ==
    ASSUME NEW S \in SUBSET Token, UNCHANGED <<issued, agreed, launched>>,
           \A t \in S : /\ pending = t \/ Deciding(t)
                        /\ t \notin agreed /\ issued[t] # "none"
                        /\ pending' # t /\ ~Deciding(t)',
           \A t \in Token \ S :
               (pending' = t \/ Deciding(t)') <=> (pending = t \/ Deciding(t))
    PROVE  Gate!Next \/ UNCHANGED Gate!vars
<1>1. \A t \in S : decisionOf[t] = "asked"
  BY DecisionOf
<1>2. decisionOf' = [t \in Token |-> IF t \in S THEN "refused" ELSE decisionOf[t]]
  BY DEF decisionOf
<1>3. CASE S = {}
  BY <1>2, <1>3 DEF Gate!vars, decisionOf
<1>4. CASE S # {}
  BY <1>1, <1>2, <1>4 DEF Gate!Next, Gate!Refuse
<1> QED
  BY <1>3, <1>4

LEMMA RefineInit == Init => Gate!Init
BY TokenAssumption DEF Init, Gate!Init, decisionOf, Deciding

LEMMA RefinePlan ==
    ASSUME Inv, NEW p \in Proc, NEW t \in Token, PlanStore(p, t)
    PROVE  Gate!Next
<1> USE TokenAssumption DEF Inv, TypeOK, PlanStore
<1>1. /\ issued[t] = "none" /\ issued'[t] # "none"
      /\ \A u \in Token \ {t} : issued'[u] = issued[u]
      /\ UNCHANGED <<agreed, launched>> /\ pending' = t
  BY DEF Plan
<1>2. \A u \in Token : Deciding(u)' <=> Deciding(u)
  BY DEF Deciding
<1>3. t \notin agreed /\ pending # t /\ ~Deciding(t)
  BY <1>1 DEF HandInv, AgreedInv, Deciding
<1>4. decisionOf[t] = "none" /\ decisionOf'[t] = "asked"
  BY <1>1, <1>3 DEF decisionOf
<1>5. \A u \in Token \ {t} : u # pending => decisionOf'[u] = decisionOf[u]
  BY <1>1, <1>2 DEF decisionOf
<1>6. decisionOf \in [Token -> {"none", "asked", "agreed", "refused"}]
  BY DEF decisionOf
<1>7. decisionOf' = [u \in Token |-> decisionOf'[u]]
  BY DEF decisionOf
<1>8. CASE pending = NoToken
  <2>1. decisionOf' = [decisionOf EXCEPT ![t] = "asked"]
    <3>1. \A u \in Token \ {t} : decisionOf'[u] = decisionOf[u]
      BY <1>5, <1>8
    <3> HIDE DEF PlanStore, Inv
    <3> QED
      BY <1>4, <1>6, <1>7, <3>1
  <2> QED
    BY <1>1, <1>4, <2>1 DEF Gate!Next, Gate!Ask
<1>9. CASE pending # NoToken
  <2>1. pending \in Token /\ pending \notin agreed /\ issued[pending] # "none"
    BY <1>9 DEF HandInv, AgreedInv
  <2>2. ~Deciding(pending)
    BY <2>1 DEF StartInv, Starting, Deciding
  <2>3. PICK u \in Token : u = pending
    BY <2>1
  <2>4. decisionOf[u] = "asked" /\ decisionOf'[u] = "refused"
    BY <1>1, <1>2, <1>3, <2>1, <2>2, <2>3 DEF decisionOf
  <2>5. decisionOf' = [decisionOf EXCEPT ![t] = "asked", ![u] = "refused"]
    BY <1>3, <1>4, <1>5, <1>6, <1>7, <2>3, <2>4 DEF decisionOf
  <2> QED
    BY <1>1, <1>4, <2>4, <2>5 DEF Gate!Next, Gate!Supersede
<1> QED
  BY <1>8, <1>9

LEMMA RefineTake ==
    ASSUME Inv, NEW p \in Proc, NEW t \in Token, NEW a \in BOOLEAN, StartTake(p, t, a)
    PROVE  UNCHANGED Gate!vars
<1> USE TokenAssumption DEF Inv, TypeOK, StartTake
<1>1. \A u \in Token : Deciding(u)' <=> Deciding(u) \/ u = t
  BY DEF Deciding
<1>2. pending = t /\ pending' = NoToken /\ UNCHANGED <<issued, agreed, launched>>
  OBVIOUS
<1> QED
  BY <1>1, <1>2 DEF decisionOf, Gate!vars

LEMMA RefineRefuse ==
    ASSUME Inv, NEW p \in Proc, NEW t \in Token,
           \/ Decline(p) /\ t = pending
           \/ (StartDenied(p) \/ StartBusy(p)) /\ t = tok[p]
    PROVE  Gate!Next \/ UNCHANGED Gate!vars
<1> USE TokenAssumption DEF Inv, TypeOK, Decline, StartDenied, StartBusy, Return, wrapperVars
<1>1. UNCHANGED <<issued, agreed, launched>>
  OBVIOUS
<1>2. /\ pending = t \/ Deciding(t)
      /\ t \notin agreed /\ issued[t] # "none"
  BY DEF HandInv, StartInv, AgreedInv, Starting, Deciding
<1>3. pending' # t
  BY DEF StartInv, Starting
<1>4. ~Deciding(t)'
  BY DEF StartInv, Starting, Deciding
<1>5. \A u \in Token \ {t} :
         (pending' = u \/ Deciding(u)') <=> (pending = u \/ Deciding(u))
  <2>1. CASE Decline(p) /\ t = pending
    BY <2>1 DEF Deciding
  <2>2. CASE (StartDenied(p) \/ StartBusy(p)) /\ t = tok[p]
    BY <2>2 DEF Deciding
  <2> QED
    BY <2>1, <2>2
<1>6. {t} \in SUBSET Token /\ \A u \in {t} : u = t
  OBVIOUS
<1> HIDE DEF Inv, TypeOK, Decline, StartDenied, StartBusy, Return, wrapperVars
<1> QED
  BY <1>1, <1>2, <1>3, <1>4, <1>5, <1>6, Lapse

LEMMA RefineAgree ==
    ASSUME Inv, NEW p \in Proc, StartAgreed(p)
    PROVE  Gate!Next
<1> USE DEF Inv, TypeOK, StartAgreed, Goto, localVars, wrapperVars
<1>1. PICK t \in Token : t = tok[p]
  BY DEF HandInv
<1>2. t \notin agreed /\ agreed' = agreed \cup {t}
  BY <1>1 DEF StartInv, Starting
<1>3. Deciding(t)
  BY <1>1 DEF Deciding
<1>4. \A u \in Token \ {t} : Deciding(u)' <=> Deciding(u)
  BY <1>1 DEF Deciding
<1>5. decisionOf[t] = "asked"
  BY <1>2, <1>3 DEF decisionOf
<1>6. decisionOf' = [decisionOf EXCEPT ![t] = "agreed"]
  BY <1>2, <1>4 DEF decisionOf
<1> QED
  BY <1>5, <1>6 DEF Gate!Next, Gate!Agree

LEMMA RefineLaunch ==
    ASSUME Inv, NEW p \in Proc, StartLaunch(p)
    PROVE  Gate!Next
<1> USE DEF Inv, TypeOK, StartLaunch, Goto, localVars, wrapperVars
<1>1. PICK t \in Token : t = tok[p]
  BY DEF HandInv
<1>2. t \in agreed /\ launched[t] = 0
  BY <1>1 DEF StartInv, Starting
<1>3. \A u \in Token : Deciding(u)' <=> Deciding(u)
  BY DEF Deciding
<1>4. decisionOf' = decisionOf
  BY <1>3, Unanswered
<1>5. launched' = [launched EXCEPT ![t] = 1]
  BY <1>1, <1>2
<1>6. decisionOf[t] = "agreed"
  BY <1>2 DEF decisionOf
<1> QED
  BY <1>2, <1>4, <1>5, <1>6 DEF Gate!Next, Gate!Act

LEMMA RefineOther ==
    ASSUME Inv,
           \/ \E p \in Proc :
                 \/ PlanAsk(p) \/ StartLaunchFails(p) \/ StartOpen(p) \/ StartGiven(p)
                 \/ StartStarted(p) \/ DeclineRecord(p)
           \/ End
           \/ UNCHANGED vars
    PROVE  UNCHANGED Gate!vars
<1>1. UNCHANGED <<issued, agreed, pending, launched>>
  BY DEF PlanAsk, StartLaunchFails, StartOpen, StartGiven, StartStarted, DeclineRecord,
         End, wrapperVars, vars
<1>2. \A t \in Token : Deciding(t)' <=> Deciding(t)
  BY DEF Inv, TypeOK, PlanAsk, StartLaunchFails, StartOpen, StartGiven, StartStarted,
         DeclineRecord, End, wrapperVars, vars, Goto, Return, localVars, Deciding
<1> QED
  BY <1>1, <1>2, Unanswered DEF Gate!vars

LEMMA RefineRestart ==
    ASSUME Inv, Restart
    PROVE  Gate!Next \/ UNCHANGED Gate!vars
<1> DEFINE S == {t \in Token : t \notin agreed /\ (pending = t \/ Deciding(t))}
<1>1. UNCHANGED <<issued, agreed, launched>>
  BY DEF Restart
<1>2. \A t \in Token : pending' # t /\ ~Deciding(t)'
  BY TokenAssumption DEF Restart, Deciding
<1>3. \A t \in Token : pending = t \/ Deciding(t) => t \notin agreed /\ issued[t] # "none"
  BY TokenAssumption DEF Inv, HandInv, StartInv, AgreedInv, Starting, Deciding
<1>4. S \in SUBSET Token
  OBVIOUS
<1>5. \A t \in S : /\ pending = t \/ Deciding(t)
                   /\ t \notin agreed /\ issued[t] # "none"
                   /\ pending' # t /\ ~Deciding(t)'
  BY <1>2, <1>3
<1>6. \A t \in Token \ S :
         (pending' = t \/ Deciding(t)') <=> (pending = t \/ Deciding(t))
  BY <1>2, <1>3
<1> HIDE DEF S
<1> QED
  BY <1>1, <1>4, <1>5, <1>6, Lapse

LEMMA RefineStep == Inv /\ [Next]_vars => [Gate!Next]_(Gate!vars)
<1> SUFFICES ASSUME Inv, [Next]_vars PROVE Gate!Next \/ UNCHANGED Gate!vars
  OBVIOUS
<1>1. ASSUME NEW p \in Proc, Call(p) PROVE Gate!Next \/ UNCHANGED Gate!vars
  <2>1. CASE Decline(p)
    <3>1. pending \in Token
      BY <2>1 DEF Decline, Inv, TypeOK
    <3> QED
      BY <2>1, <3>1, RefineRefuse
  <2> QED
    BY <1>1, <2>1, RefinePlan, RefineTake DEF Call
<1>2. ASSUME NEW p \in Proc, Step(p) PROVE Gate!Next \/ UNCHANGED Gate!vars
  <2>1. CASE StartDenied(p) \/ StartBusy(p)
    <3>1. tok[p] \in Token
      BY <2>1 DEF StartDenied, StartBusy, Inv, HandInv
    <3> QED
      BY <2>1, <3>1, RefineRefuse
  <2> QED
    BY <1>2, <2>1, RefineAgree, RefineLaunch, RefineOther DEF Step
<1> QED
  BY <1>1, <1>2, RefineOther, RefineRestart DEF Next

\* The wrapper implements its promise: a plan is asked about once, answered once, and
\* a program is launched under it once at most, whatever calls overlap and whenever
\* the agent is closed.
THEOREM RemoteGateImplemented == Spec => GateSpec
<1>1. Spec => Gate!Init /\ [][Gate!Next]_(Gate!vars)
  BY RefineInit, RefineStep, InvAlways, PTL DEF Spec
<1> QED
  BY <1>1 DEF GateSpec, Gate!Spec
=============================================================================
