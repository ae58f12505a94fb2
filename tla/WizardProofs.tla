---------------------------- MODULE WizardProofs ----------------------------
(***************************************************************************)
(* Proofs about one guided walkthrough, for any number of steps, any of    *)
(* them with a fix, and a machine that changes between two questions.      *)
(*                                                                         *)
(* The argument: while moves come one at a time, the move that runs has in *)
(* its hand the step the session is at, and the history ends just before   *)
(* that step.                                                              *)
(***************************************************************************)
EXTENDS Wizard, TLAPS

Working == {"apply", "changed", "recheck"}

TypeInv ==
    /\ at \in Nat \ {0}
    /\ done \in Seq(Record)
    /\ pending \in Record \cup {NoRecord}
    /\ outcome \in Outcome
    /\ pc \in [Proc -> {"idle", "next", "loop", "answered"} \cup Working]
    /\ rec \in [Proc -> Record \cup {NoRecord}]
    /\ fix \in [Proc -> 0..N]

\* One move runs, on a session that has not ended, and it has the step in hand.
MoveInv ==
    \A p \in Proc :
        /\ pc[p] # "idle" =>
              outcome = "running" /\ \A q \in Proc : pc[q] # "idle" => q = p
        /\ pc[p] \in {"answered"} \cup Working => rec[p] \in Record /\ rec[p].step = at
        /\ pc[p] \in Working => fix[p] = at

\* The history reaches to the step the session is at.
PlaceInv ==
    /\ \A i \in 1..Len(done) : done[i].step = i
    /\ Len(done) = at - 1
    /\ at <= N + 1
    /\ Ended => Len(done) = N

\* What is pending when no move runs is the step the session is at.
PendingInv ==
    outcome = "running" /\ pending # NoRecord /\ (\A p \in Proc : pc[p] = "idle") =>
        pending.step = at

\* What is pending was asked about and not clean.
StatusInv ==
    /\ pending # NoRecord => pending.status \in {"found", "unknown"}
    /\ \A p \in Proc :
          /\ pc[p] = "answered" => rec[p].status \in {"clean", "found", "unknown"}
          /\ pc[p] \in Working => rec[p].status \in {"found", "unknown"}

\* What is filed of a step in whose name a fix was run.
Tried == Status \ {"clean", "found", "declined"}

\* A run is in the history of its step, or is about to be, and what the history says was
\* repaired, for better or not, was run.
RunInv ==
    /\ \A r \in ran :
         \/ Filed(r.step, Tried)
         \/ \E p \in Proc : pc[p] \in {"changed", "recheck"} /\ fix[p] = r.step
    /\ ~agent.dry =>
          /\ \A s \in Step : Filed(s, {"fixed", "no_help", "applied"}) => Ran(s)
          /\ \A p \in Proc : pc[p] \in {"changed", "recheck"} => Ran(fix[p])

\* The outcome follows from the history.
OutcomeInv == Ended => outcome = Ending(done)

SerialInv ==
    TypeInv /\ MoveInv /\ PlaceInv /\ PendingInv /\ StatusInv /\ RunInv /\ OutcomeInv

Inv == agent.serial => SerialInv

LEMMA InitInv == Init => Inv
<1> SUFFICES ASSUME Init, agent.serial PROVE SerialInv
  BY DEF Inv
<1>1. TypeInv
  BY StepAssumption DEF Init, TypeInv, Outcome
<1>2. MoveInv /\ PendingInv /\ StatusInv /\ OutcomeInv
  BY DEF Init, MoveInv, PendingInv, StatusInv, OutcomeInv, Working, Ended
<1>3. PlaceInv /\ RunInv
  BY StepAssumption DEF Init, PlaceInv, RunInv, Ended, Filed, Agent
<1> QED
  BY <1>1, <1>2, <1>3 DEF SerialInv

LEMMA AppendHolds ==
    ASSUME NEW S, NEW h \in Seq(S), NEW x \in S
    PROVE  /\ Append(h, x) \in Seq(S)
           /\ Len(Append(h, x)) = Len(h) + 1
           /\ Append(h, x)[Len(h) + 1] = x
           /\ \A i \in 1..Len(h) : Append(h, x)[i] = h[i]
           /\ Len(h) \in Nat
OBVIOUS

LEMMA ElementOf ==
    ASSUME NEW S, NEW h \in Seq(S), NEW i \in 1..Len(h)
    PROVE  h[i] \in S
OBVIOUS

\* The history is the same.
LEMMA FiledStays ==
    ASSUME done' = done PROVE \A s, S : Filed(s, S)' <=> Filed(s, S)
BY DEF Filed

\* A record of the step the session is at is put behind the history.
LEMMA FiledGrows ==
    ASSUME SerialInv, NEW r \in Record, r.step = at, done' = Append(done, r), at' = at + 1,
           outcome = "running", outcome' \in {"running", "stopped"}
    PROVE  /\ done' \in Seq(Record) /\ at' \in Nat \ {0}
           /\ PlaceInv'
           /\ \A s, S : Filed(s, S)' <=> Filed(s, S) \/ (s = r.step /\ r.status \in S)
           /\ OutcomeInv'
<1>1. /\ done' \in Seq(Record)
      /\ Len(done') = Len(done) + 1
      /\ done'[Len(done) + 1] = r
      /\ \A i \in 1..Len(done) : done'[i] = done[i]
      /\ Len(done) \in Nat
  BY AppendHolds DEF SerialInv, TypeInv
<1>2. at \in 1..N /\ Len(done) = at - 1 /\ \A i \in 1..Len(done) : done[i].step = i
  BY DEF SerialInv, PlaceInv, Record, Step
<1>3. PlaceInv'
  BY <1>1, <1>2, StepAssumption DEF PlaceInv, Ended
<1>4. \A s, S : Filed(s, S)' <=> Filed(s, S) \/ (s = r.step /\ r.status \in S)
  <2> HIDE DEF SerialInv
  <2> SUFFICES ASSUME NEW s, NEW S
               PROVE  (\E i \in 1..Len(done') : done'[i].step = s /\ done'[i].status \in S)
                        <=> Filed(s, S) \/ (s = r.step /\ r.status \in S)
    BY DEF Filed
  <2> QED
    BY <1>1 DEF Filed
<1>5. OutcomeInv'
  BY DEF OutcomeInv, Ended
<1> QED
  BY <1>1, <1>2, <1>3, <1>4, <1>5, StepAssumption

\* The gate ran a fix: in the name of the step p works on, and that step's own if every
\* token is.
LEMMA RunFixRuns ==
    ASSUME NEW p \in Proc, agent.serial, agent' = agent,
           \E f \in Presented(p) : RunFix(p, f)
    PROVE  /\ ran \subseteq ran'
           /\ \A r \in ran' : r \in ran \/ r.step = fix[p]
           /\ \A s : s = fix[p] => Ran(s)'
<1>1. PICK f \in Presented(p) : RunFix(p, f)
  OBVIOUS
<1> DEFINE new == [step |-> fix[p], fix |-> f]
<1>2. ran' = ran \cup {new} /\ new.step = fix[p] /\ (agent.own => new.fix = fix[p])
  BY <1>1 DEF RunFix, Presented
<1> QED
  BY <1>2 DEF Ran

\* The moves that file nothing, and the machine.
LEMMA StepQuiet ==
    ASSUME agent.serial, SerialInv,
           \/ \E p \in Proc : \/ NextBegin(p) \/ NextEnter(p) \/ NextTooLate(p) \/ NextAsk(p)
                              \/ NextOffer(p) \/ ConfirmBegin(p) \/ ConfirmApplied(p)
           \/ \E s \in Step : Drift(s)
           \/ UNCHANGED vars
    PROVE  SerialInv'
<1> USE DEF SerialInv, TypeInv, Working, sessionVars
<1>1. UNCHANGED <<done, at, outcome, agent>>
  BY DEF NextBegin, NextEnter, NextTooLate, NextAsk, NextOffer, ConfirmBegin, ConfirmApplied,
     Drift, vars
<1>2. \A s, S : Filed(s, S)' <=> Filed(s, S)
  BY <1>1, FiledStays
<1>r. ran' = ran => \A s : Ran(s)' <=> Ran(s)
  BY <1>1 DEF Ran
<1>3. PlaceInv' /\ OutcomeInv'
  BY <1>1 DEF PlaceInv, OutcomeInv, Ended, Ending, EndingOf
<1>4. ASSUME NEW p \in Proc, NextBegin(p) \/ NextEnter(p) PROVE SerialInv'
  <2>1. TypeInv' /\ MoveInv' /\ PendingInv' /\ StatusInv'
    BY <1>4 DEF NextBegin, NextEnter, Free, Goto, MoveInv, PendingInv, StatusInv
  <2>2. RunInv'
    BY <1>2, <1>4, <1>r DEF NextBegin, NextEnter, Goto, RunInv
  <2> QED
    BY <1>3, <2>1, <2>2
<1>5. ASSUME NEW p \in Proc, NextTooLate(p) PROVE SerialInv'
  BY <1>5 DEF NextTooLate, MoveInv
<1>6. ASSUME NEW p \in Proc, NextAsk(p) PROVE SerialInv'
  <2>1. PICK a \in {"unknown", "found", "clean"} : InHand(p, [step |-> at, status |-> a])
    BY <1>6 DEF NextAsk, Answers
  <2>2. [step |-> at, status |-> a] \in Record
    BY <1>6, StepAssumption DEF NextAsk, Record, Step, Status
  <2>3. TypeInv' /\ MoveInv' /\ PendingInv' /\ StatusInv'
    BY <1>6, <2>1, <2>2 DEF NextAsk, InHand, Goto, MoveInv, PendingInv, StatusInv
  <2>4. RunInv'
    BY <1>2, <1>6, <1>r DEF NextAsk, Goto, RunInv
  <2> QED
    BY <1>3, <2>3, <2>4
<1>7. ASSUME NEW p \in Proc, NextOffer(p) PROVE SerialInv'
  <2>1. /\ TypeInv' /\ MoveInv' /\ PendingInv' /\ StatusInv'
    BY <1>7 DEF NextOffer, Return, InHand, Goto, MoveInv, PendingInv, StatusInv
  <2>2. RunInv'
    BY <1>2, <1>7, <1>r DEF NextOffer, Return, Goto, RunInv
  <2> QED
    BY <1>3, <2>1, <2>2
<1>8. ASSUME NEW p \in Proc, ConfirmBegin(p) PROVE SerialInv'
  <2>1. pending \in Record /\ pending.step = at /\ at \in 0..N
    BY <1>8 DEF ConfirmBegin, Free, PendingInv
  <2>2. TypeInv' /\ MoveInv' /\ PendingInv' /\ StatusInv'
    BY <1>8, <2>1 DEF ConfirmBegin, Free, InHand, Goto, MoveInv, PendingInv, StatusInv
  <2>3. RunInv'
    BY <1>2, <1>8, <1>r DEF ConfirmBegin, Free, Goto, RunInv
  <2> QED
    BY <1>3, <2>2, <2>3
<1>9. ASSUME NEW p \in Proc, ConfirmApplied(p) PROVE SerialInv'
  <2>1. TypeInv' /\ MoveInv' /\ PendingInv' /\ StatusInv'
    BY <1>9 DEF ConfirmApplied, Goto, MoveInv, PendingInv, StatusInv
  <2>2. RunInv'
    <3>1. /\ pc'[p] \in {"changed", "recheck"} /\ fix' = fix
          /\ \A q \in Proc : q # p => pc'[q] = pc[q]
      BY <1>9 DEF ConfirmApplied, Goto
    <3>2. /\ ran \subseteq ran' /\ \A r \in ran' : r \in ran \/ r.step = fix[p]
          /\ ~agent.dry => Ran(fix[p])'
      BY <1>1, <1>9, RunFixRuns DEF ConfirmApplied
    <3>3. \A s : Ran(s) => Ran(s)'
      BY <1>1, <3>2 DEF Ran
    <3> HIDE DEF TypeInv
    <3> QED
      BY <1>1, <1>2, <1>9, <3>1, <3>2, <3>3 DEF ConfirmApplied, RunInv
  <2> QED
    BY <1>3, <2>1, <2>2
<1>10. ASSUME NEW s \in Step, Drift(s) PROVE SerialInv'
  <2>1. TypeInv' /\ MoveInv' /\ PendingInv' /\ StatusInv'
    BY <1>10 DEF Drift, MoveInv, PendingInv, StatusInv
  <2>2. RunInv'
    BY <1>2, <1>10, <1>r DEF Drift, RunInv
  <2> QED
    BY <1>3, <2>1, <2>2
<1>11. CASE UNCHANGED vars
  <2>1. TypeInv' /\ MoveInv' /\ PendingInv' /\ StatusInv'
    BY <1>11 DEF vars, MoveInv, PendingInv, StatusInv
  <2>2. RunInv'
    BY <1>2, <1>11, <1>r DEF vars, RunInv
  <2> QED
    BY <1>3, <2>1, <2>2
<1> HIDE DEF SerialInv
<1> QED
  BY <1>4, <1>5, <1>6, <1>7, <1>8, <1>9, <1>10, <1>11

\* What filing a record leaves to show, whichever move files it.
LEMMA StepFile ==
    ASSUME agent.serial, SerialInv,
           \E p \in Proc : \/ NextClean(p) \/ ConfirmRefused(p) \/ ConfirmFailed(p) \/ ConfirmChanged(p)
                          \/ ConfirmRecheck(p) \/ Skip(p) \/ (Stop(p) /\ pending # NoRecord)
    PROVE  SerialInv'
<1>1. PICK p \in Proc : \/ NextClean(p) \/ ConfirmRefused(p) \/ ConfirmFailed(p)
                        \/ ConfirmChanged(p) \/ ConfirmRecheck(p) \/ Skip(p)
                        \/ (Stop(p) /\ pending # NoRecord)
  OBVIOUS
<1> USE DEF SerialInv, TypeInv, Working, Goto, InHand, NoFix, close
<1>2. PICK old \in Record, st \in Status :
         /\ old.step = at
         /\ done' = Append(done, [step |-> at, status |-> st])
         /\ st \in {"fixed", "no_help", "applied"} => pc[p] \in {"changed", "recheck"}
         /\ pc[p] \in {"changed", "recheck"} => st \in Tried
         /\ ConfirmFailed(p) => st = "blocked"
  <2>1. CASE NextClean(p)
    <3>1. rec[p] = [step |-> at, status |-> "clean"] /\ rec[p] \in Record /\ rec[p].step = at
      BY <2>1 DEF NextClean, MoveInv, Record
    <3> QED
      BY <2>1, <3>1 DEF NextClean, ConfirmFailed, Status, Tried
  <2>2. CASE ConfirmRefused(p) \/ ConfirmFailed(p)
    <3>1. [rec[p] EXCEPT !.status = "blocked"] = [step |-> at, status |-> "blocked"]
          /\ rec[p] \in Record /\ rec[p].step = at
      BY <2>2 DEF ConfirmRefused, ConfirmFailed, MoveInv, Record
    <3> QED
      BY <2>2, <3>1 DEF ConfirmRefused, ConfirmFailed, Status, Tried
  <2>3. CASE ConfirmChanged(p)
    <3>1. [rec[p] EXCEPT !.status = "applied"] = [step |-> at, status |-> "applied"]
          /\ rec[p] \in Record /\ rec[p].step = at
      BY <2>3 DEF ConfirmChanged, MoveInv, Record
    <3> QED
      BY <2>3, <3>1 DEF ConfirmChanged, ConfirmFailed, Status, Tried
  <2>4. CASE ConfirmRecheck(p)
    <3>1. PICK a \in {"unknown", "found", "clean"} :
             done' = Append(done, [rec[p] EXCEPT !.status = Verdict(a)])
      BY <2>4 DEF ConfirmRecheck, Answers
    <3>2. [rec[p] EXCEPT !.status = Verdict(a)] = [step |-> at, status |-> Verdict(a)]
          /\ rec[p] \in Record /\ rec[p].step = at
      BY <2>4 DEF ConfirmRecheck, MoveInv, Record
    <3>3. Verdict(a) \in Status /\ Verdict(a) \in Tried
      BY DEF Verdict, Status, Tried
    <3> QED
      BY <2>4, <3>1, <3>2, <3>3 DEF ConfirmRecheck, ConfirmFailed
  <2>5. CASE Skip(p) \/ (Stop(p) /\ pending # NoRecord)
    <3>1. pending \in Record /\ pending.step = at /\ pending.status \in {"found", "unknown"}
          /\ pc[p] = "idle"
      BY <2>5 DEF Skip, Stop, Free, PendingInv, StatusInv
    <3>2. /\ pending = [step |-> at, status |-> pending.status]
          /\ [pending EXCEPT !.status = "declined"] = [step |-> at, status |-> "declined"]
      BY <3>1 DEF Record
    <3>3. \/ done' = Append(done, pending)
          \/ done' = Append(done, [pending EXCEPT !.status = "declined"])
      BY <2>5 DEF Skip, Stop
    <3> QED
      BY <2>5, <3>1, <3>2, <3>3 DEF Status, ConfirmFailed
  <2> QED
    BY <1>1, <2>1, <2>2, <2>3, <2>4, <2>5
<1> DEFINE r == [step |-> at, status |-> st]
<1>3. r \in Record /\ r.step = at /\ r.status = st
  BY <1>2 DEF Record
<1>4. /\ at' = at + 1 /\ agent' = agent
      /\ outcome = "running" /\ outcome' \in {"running", "stopped"}
  BY <1>1 DEF NextClean, ConfirmRefused, ConfirmFailed, ConfirmChanged, ConfirmRecheck, Skip,
     Stop, MoveInv
<1>5. /\ done' \in Seq(Record) /\ at' \in Nat \ {0}
      /\ PlaceInv'
      /\ \A s, S : Filed(s, S)' <=> Filed(s, S) \/ (s = at /\ st \in S)
      /\ OutcomeInv'
  BY <1>2, <1>3, <1>4, FiledGrows
<1>6. /\ pc' \in [Proc -> {"idle", "next", "loop"}]
      /\ \A q \in Proc : q # p => pc[q] = "idle" /\ pc'[q] = "idle"
      /\ outcome' = "running" \/ pc'[p] = "idle"
  <2>1. CASE Skip(p) \/ Stop(p)
    <3>1. \A q \in Proc : pc[q] = "idle"
      BY <2>1 DEF Skip, Stop, Free
    <3> QED
      BY <2>1, <3>1, <1>4 DEF Skip, Stop
  <2>2. CASE \/ NextClean(p) \/ ConfirmRefused(p) \/ ConfirmFailed(p)
             \/ ConfirmChanged(p) \/ ConfirmRecheck(p)
    <3>1. \A q \in Proc : q # p => pc[q] = "idle"
      BY <2>2 DEF NextClean, ConfirmRefused, ConfirmFailed, ConfirmChanged, ConfirmRecheck, MoveInv
    <3>2. \E l \in {"next", "loop"} : pc' = [pc EXCEPT ![p] = l] /\ outcome' = outcome
      BY <2>2 DEF NextClean, ConfirmRefused, ConfirmFailed, ConfirmChanged, ConfirmRecheck
    <3>3. \A q \in Proc : pc'[q] \in {"idle", "next", "loop"}
      BY <3>1, <3>2
    <3> QED
      BY <3>1, <3>2, <3>3, <1>4
  <2> QED
    BY <1>1, <2>1, <2>2
<1>7. TypeInv'
  <2>1. pending' \in {pending, NoRecord}
    BY <1>1 DEF NextClean, ConfirmRefused, ConfirmFailed, ConfirmChanged, ConfirmRecheck, Skip, Stop
  <2>2. rec' \in {rec, [rec EXCEPT ![p] = NoRecord]} /\ fix' \in {fix, [fix EXCEPT ![p] = 0]}
    BY <1>1 DEF NextClean, ConfirmRefused, ConfirmFailed, ConfirmChanged, ConfirmRecheck, Skip, Stop
  <2>3. rec' \in [Proc -> Record \cup {NoRecord}]
    BY <2>2
  <2>4. fix' \in [Proc -> 0..N]
    <3>1. 0 \in 0..N /\ fix \in [Proc -> 0..N]
      BY StepAssumption
    <3> QED
      BY <2>2, <3>1
  <2> QED
    BY <1>4, <1>5, <1>6, <2>1, <2>3, <2>4 DEF Outcome
<1>8. MoveInv'
  BY <1>6 DEF MoveInv
<1>9. PendingInv'
  BY <1>1 DEF NextClean, ConfirmRefused, ConfirmFailed, ConfirmChanged, ConfirmRecheck, Skip,
     Stop, PendingInv
<1>10. StatusInv'
  BY <1>1, <1>6 DEF NextClean, ConfirmRefused, ConfirmFailed, ConfirmChanged, ConfirmRecheck, Skip,
     Stop, StatusInv
<1>11. RunInv'
  <2>1. pc[p] \in {"apply", "changed", "recheck"} => fix[p] = at
    BY DEF MoveInv
  <2>2. /\ ran \subseteq ran'
        /\ \A run \in ran' : run \in ran \/ (run.step = at /\ st \in Tried)
    <3>1. CASE ConfirmFailed(p)
      <4>1. pc[p] = "apply" /\ \E f \in Presented(p) : RunFix(p, f)
        BY <3>1 DEF ConfirmFailed
      <4>2. ran \subseteq ran' /\ \A run \in ran' : run \in ran \/ run.step = fix[p]
        BY <1>4, <4>1, RunFixRuns
      <4> QED
        BY <1>2, <2>1, <3>1, <4>1, <4>2 DEF Tried, Status
    <3>2. CASE ~ConfirmFailed(p)
      <4>1. ran' = ran
        BY <1>1, <3>2 DEF NextClean, ConfirmRefused, ConfirmChanged, ConfirmRecheck, Skip, Stop
      <4> QED
        BY <4>1
    <3> QED
      BY <3>1, <3>2
  <2>3. \A s : Ran(s) => Ran(s)'
    BY <1>4, <2>2 DEF Ran
  <2>4. \A run \in ran' : Filed(run.step, Tried)'
    <3> SUFFICES ASSUME NEW run \in ran'
                 PROVE  Filed(run.step, Tried) \/ (run.step = at /\ st \in Tried)
      BY <1>5
    <3> QED
      BY <1>2, <1>6, <2>1, <2>2 DEF RunInv
  <2>5. ~agent.dry => \A s \in Step : Filed(s, {"fixed", "no_help", "applied"})' => Ran(s)'
    <3> SUFFICES ASSUME ~agent.dry, NEW s \in Step,
                        Filed(s, {"fixed", "no_help", "applied"})
                          \/ (s = at /\ st \in {"fixed", "no_help", "applied"})
                 PROVE  Ran(s)
      BY <1>5, <2>3
    <3> QED
      BY <1>2, <2>1 DEF RunInv
  <2> HIDE DEF SerialInv, TypeInv
  <2> QED
    BY <1>4, <1>6, <2>4, <2>5 DEF RunInv
<1> HIDE DEF TypeInv
<1> QED
  BY <1>5, <1>7, <1>8, <1>9, <1>10, <1>11

LEMMA EndingIsOutcome ==
    ASSUME NEW records PROVE Ending(records) \in Outcome \ {"running", "stopped"}
BY DEF Ending, EndingOf, Outcome

\* A session ends with nothing in hand.
LEMMA StepEnd ==
    ASSUME agent.serial, SerialInv,
           \E p \in Proc : NextFinish(p) \/ (Stop(p) /\ pending = NoRecord)
    PROVE  SerialInv'
<1> USE DEF SerialInv, TypeInv, Working
<1>1. PICK p \in Proc : NextFinish(p) \/ (Stop(p) /\ pending = NoRecord)
  OBVIOUS
<1>2. /\ UNCHANGED <<ran, at, done, pending, agent, fix>>
      /\ outcome' = Ending(done) \/ outcome' = "stopped"
      /\ outcome' # "running"
      /\ outcome' \in Outcome
  BY <1>1, EndingIsOutcome DEF NextFinish, Stop, Return, Outcome
<1>3. \A s, S : Filed(s, S)' <=> Filed(s, S)
  BY <1>2, FiledStays
<1>4. \A q \in Proc : pc'[q] = "idle" /\ pc[q] \notin {"changed", "recheck"}
  BY <1>1 DEF NextFinish, Stop, Return, Goto, MoveInv, Free
<1>5. TypeInv'
  BY <1>1, <1>2 DEF NextFinish, Stop, Return, Goto, InHand
<1>6. PlaceInv'
  <2>1. outcome' # "stopped" => Len(done) = N
    <3> SUFFICES ASSUME outcome' # "stopped" PROVE Len(done) = N
      OBVIOUS
    <3>1. at > N /\ at <= N + 1 /\ at \in Nat /\ Len(done) = at - 1
      BY <1>1 DEF NextFinish, Stop, PlaceInv
    <3> QED
      BY <3>1, StepAssumption
  <2> QED
    BY <1>2, <2>1 DEF PlaceInv, Ended
<1>7. MoveInv' /\ PendingInv' /\ StatusInv'
  BY <1>2, <1>4 DEF MoveInv, PendingInv, StatusInv
<1>8. RunInv'
  <2>1. \A s : Ran(s)' <=> Ran(s)
    BY <1>2 DEF Ran
  <2> QED
    BY <1>2, <1>3, <1>4, <2>1 DEF RunInv
<1>9. OutcomeInv'
  BY <1>2 DEF OutcomeInv, Ended, Ending, EndingOf
<1> HIDE DEF TypeInv
<1> QED
  BY <1>5, <1>6, <1>7, <1>8, <1>9

LEMMA StepInv == Inv /\ [Next]_vars => Inv'
<1> SUFFICES ASSUME Inv, [Next]_vars, agent'.serial PROVE SerialInv'
  BY DEF Inv
<1>1. agent' = agent
  BY DEF Next, Call, Move, vars, sessionVars, NextBegin, NextEnter, NextTooLate, NextAsk, NextClean,
     NextOffer, NextFinish, ConfirmBegin, ConfirmRefused, ConfirmApplied, ConfirmFailed,
     ConfirmChanged, ConfirmRecheck, Skip, Stop, Drift
<1>2. agent.serial /\ SerialInv
  BY <1>1 DEF Inv
<1> HIDE DEF Inv
<1>3. CASE \/ \E p \in Proc : \/ NextBegin(p) \/ NextEnter(p) \/ NextTooLate(p) \/ NextAsk(p)
                              \/ NextOffer(p) \/ ConfirmBegin(p) \/ ConfirmApplied(p)
           \/ \E s \in Step : Drift(s)
           \/ UNCHANGED vars
  BY <1>2, <1>3, StepQuiet
<1>4. CASE \E p \in Proc : \/ NextClean(p) \/ ConfirmRefused(p) \/ ConfirmFailed(p) \/ ConfirmChanged(p)
                          \/ ConfirmRecheck(p) \/ Skip(p) \/ (Stop(p) /\ pending # NoRecord)
  BY <1>2, <1>4, StepFile
<1>5. CASE \E p \in Proc : NextFinish(p) \/ (Stop(p) /\ pending = NoRecord)
  BY <1>2, <1>5, StepEnd
<1>6. CASE \E p \in Proc : Call(p) \/ Move(p)
  <2>1. PICK p \in Proc : Call(p) \/ Move(p)
    BY <1>6
  <2>2. CASE Stop(p)
    BY <2>2, <1>4, <1>5
  <2>3. CASE \/ NextBegin(p) \/ NextEnter(p) \/ NextTooLate(p) \/ NextAsk(p)
             \/ NextOffer(p) \/ ConfirmBegin(p) \/ ConfirmApplied(p)
    BY <2>3, <1>3
  <2>4. CASE \/ NextClean(p) \/ ConfirmRefused(p) \/ ConfirmFailed(p) \/ ConfirmChanged(p)
             \/ ConfirmRecheck(p) \/ Skip(p)
    BY <2>4, <1>4
  <2>5. CASE NextFinish(p)
    BY <2>5, <1>5
  <2> QED
    BY <2>1, <2>2, <2>3, <2>4, <2>5 DEF Call, Move
<1> QED
  BY <1>3, <1>6 DEF Next

LEMMA InvAlways == Spec => []Inv
BY InitInv, StepInv, PTL DEF Spec

\* While moves come one at a time the history has one record for each step that was
\* passed, in order, and for all of them once the session ended by itself.
THEOREM HistoryIsComplete == Spec => []HistoryComplete
<1>1. Inv => HistoryComplete
  BY DEF Inv, SerialInv, PlaceInv, HistoryComplete
<1> QED
  BY <1>1, InvAlways, PTL

\* The verdict of a session says nothing its history does not, and the history calls no
\* step repaired, for better or not, in whose name no fix was run
\* (docs/FIXES.md:95-103).
THEOREM VerdictHonest == Spec => []VerdictIsHonest
<1>1. Inv => VerdictIsHonest
  <2> SUFFICES ASSUME SerialInv, agent.serial PROVE VerdictIsHonest
    BY DEF Inv, VerdictIsHonest
  <2>1. /\ ~agent.dry => \A s \in Step : Filed(s, {"fixed", "no_help", "applied"}) => Ran(s)
        /\ \A r \in ran :
              \/ Filed(r.step, Tried)
              \/ \E p \in Proc : pc[p] \in {"changed", "recheck"} /\ fix[p] = r.step
    BY DEF SerialInv, RunInv
  <2>2. \A i \in 1..Len(done) : done[i] \in Record
    <3> TAKE i \in 1..Len(done)
    <3> QED
      BY ElementOf DEF SerialInv, TypeInv
  <2>3. Ended => /\ \A s \in Step : s \in 1..Len(done) /\ done[s].step = s
                 /\ \A p \in Proc : pc[p] = "idle"
                 /\ outcome = Ending(done)
    BY DEF SerialInv, PlaceInv, MoveInv, OutcomeInv, Step, Ended
  <2>4. ASSUME outcome = "no_fault" PROVE ran = {} /\ \A s \in Step : Filed(s, {"clean"})
    <3>1. Ended
      BY <2>4 DEF Ended
    <3>2. \A i \in 1..Len(done) : done[i].status = "clean"
      BY <2>2, <2>3, <2>4, <3>1 DEF Ending, EndingOf, Record
    <3>3. ran = {}
      BY <2>1, <2>3, <3>1, <3>2 DEF Tried, Filed
    <3> QED
      BY <2>3, <3>1, <3>2, <3>3 DEF Filed
  <2>5. ASSUME outcome = "fixed" PROVE \A s \in Step : Filed(s, {"clean", "fixed"})
    <3>1. Ended
      BY <2>5 DEF Ended
    <3>2. \A i \in 1..Len(done) :
             done[i].status \notin {"found", "no_help", "declined", "blocked", "unknown", "applied"}
      BY <2>3, <2>5, <3>1 DEF Ending, EndingOf
    <3>3. \A i \in 1..Len(done) : done[i].status \in {"clean", "fixed"}
      BY <2>2, <3>2 DEF Record, Status
    <3> QED
      BY <2>3, <3>1, <3>3 DEF Filed
  <2>6. ASSUME outcome = "unverified" PROVE \E s \in Step : Filed(s, {"applied"})
    <3>1. Ended
      BY <2>6 DEF Ended
    <3>2. PICK i \in 1..Len(done) : done[i].status = "applied"
      BY <2>3, <2>6, <3>1 DEF Ending, EndingOf
    <3> QED
      BY <2>2, <3>2 DEF Filed, Record
  <2> QED
    BY <2>1, <2>4, <2>5, <2>6 DEF VerdictIsHonest, Tried
<1> QED
  BY <1>1, InvAlways, PTL

\* A record says "fixed" only of a step that was asked about again and was clean then
\* (wizard.go:337-340).
THEOREM FixedIsClean == Spec => FixedMeansClean
<1>1. Inv /\ [Next]_vars =>
         [agent.serial /\ Len(done') > Len(done) /\ done'[Len(done')].status = "fixed"
            => done'[Len(done')].step \notin bad]_vars
  <2> SUFFICES ASSUME SerialInv, Next, Len(done') > Len(done),
                      done'[Len(done')].status = "fixed"
               PROVE  done'[Len(done')].step \notin bad
    BY DEF Inv, vars
  <2>1. done \in Seq(Record) /\ Len(done) \in Nat
    BY DEF SerialInv, TypeInv
  <2>2. done' # done
    BY <2>1
  <2>3. PICK p \in Proc : \/ NextClean(p) \/ ConfirmRefused(p) \/ ConfirmFailed(p) \/ ConfirmChanged(p)
                          \/ ConfirmRecheck(p) \/ Skip(p) \/ Stop(p)
    BY <2>2 DEF Next, Call, Move, sessionVars, NextBegin, NextEnter, NextTooLate, NextAsk,
       NextOffer, NextFinish, ConfirmBegin, ConfirmApplied, Drift
  <2>4. \A r \in Record : done' = Append(done, r) => r.status = "fixed" /\ r = done'[Len(done')]
    BY <2>1, AppendHolds
  <2> USE DEF SerialInv, TypeInv, Working, close
  <2>5. CASE NextClean(p)
    BY <2>4, <2>5 DEF NextClean, MoveInv
  <2>6. CASE ConfirmRefused(p) \/ ConfirmFailed(p)
    <3>1. [rec[p] EXCEPT !.status = "blocked"] \in Record
      BY <2>6 DEF ConfirmRefused, ConfirmFailed, MoveInv, Record, Status
    <3> QED
      BY <2>4, <2>6, <3>1 DEF ConfirmRefused, ConfirmFailed, Record
  <2>7. CASE ConfirmChanged(p)
    <3>1. [rec[p] EXCEPT !.status = "applied"] \in Record
      BY <2>7 DEF ConfirmChanged, MoveInv, Record, Status
    <3> QED
      BY <2>4, <2>7, <3>1 DEF ConfirmChanged, Record
  <2>8. CASE ConfirmRecheck(p)
    <3>1. PICK a \in Answers(fix[p]) : done' = Append(done, [rec[p] EXCEPT !.status = Verdict(a)])
      BY <2>8 DEF ConfirmRecheck
    <3>2. rec[p] \in Record /\ rec[p].step = at /\ fix[p] = at
      BY <2>8 DEF ConfirmRecheck, MoveInv
    <3>3. a \in {"unknown", "found", "clean"} /\ (a = "clean" => at \notin bad)
      BY <3>1, <3>2 DEF Answers
    <3>4. /\ [rec[p] EXCEPT !.status = Verdict(a)] \in Record
          /\ [rec[p] EXCEPT !.status = Verdict(a)].status = Verdict(a)
          /\ [rec[p] EXCEPT !.status = Verdict(a)].step = at
      BY <3>2, <3>3 DEF Record, Verdict, Status
    <3>5. Verdict(a) = "fixed" /\ done'[Len(done')].step = at
      BY <2>4, <3>1, <3>4
    <3>6. a = "clean"
      BY <3>3, <3>5 DEF Verdict
    <3> QED
      BY <3>3, <3>5, <3>6
  <2>9. CASE Skip(p) \/ Stop(p)
    <3>1. pending # NoRecord
      BY <2>2, <2>9 DEF Skip, Stop
    <3>2. pending \in Record /\ pending.status \in {"found", "unknown"}
      BY <3>1 DEF StatusInv
    <3>3. /\ [pending EXCEPT !.status = "declined"] \in Record
          /\ [pending EXCEPT !.status = "declined"].status = "declined"
      BY <3>2 DEF Record, Status
    <3>4. \/ done' = Append(done, pending)
          \/ done' = Append(done, [pending EXCEPT !.status = "declined"])
      BY <2>9, <3>1 DEF Skip, Stop
    <3> QED
      BY <2>4, <3>2, <3>3, <3>4
  <2> QED
    BY <2>3, <2>5, <2>6, <2>7, <2>8, <2>9
<1> QED
  BY <1>1, InvAlways, PTL DEF Spec, FixedMeansClean
=============================================================================
