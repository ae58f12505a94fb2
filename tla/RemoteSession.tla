--------------------------- MODULE RemoteSession ---------------------------
(***************************************************************************)
(* The consent wrapper in front of a remote-help session:                  *)
(* internal/remote/remote.go, type Wrapper, called by the handlers of      *)
(* internal/localui/remote.go, one goroutine per request.                  *)
(*                                                                         *)
(* The mutex guards pending and current only; Start releases it before it  *)
(* decides, launches and records, so calls interleave between its steps.   *)
(* A session is named by the token it was agreed under.                    *)
(***************************************************************************)
EXTENDS Integers, Sequences

CONSTANTS
    Proc,             \* the calls that may be in flight together
    Token,            \* bound: the plans one model run may issue
    NoToken,
    MayRestart        \* whether the agent may be closed and started again

ASSUME TokenAssumption == NoToken \notin Token
ASSUME FlagAssumption == MayRestart \in BOOLEAN

VARIABLES
    issued,      \* issued[t]: what kind of plan was made under t
    pending,     \* Wrapper.pending
    current,     \* Wrapper.current
    ended,       \* the sessions whose Ended is set
    agreed,      \* the tokens whose confirmation passed both checks of Start
    launched,    \* launched[t]: how often a program was started under t
    log,         \* the audit log; survives a restart
    pc,          \* pc[p]: what the call p does next
    tok,         \* tok[p]: the plan the call works with
    ack,         \* ack[p]: the consequences were echoed exactly
    running,     \* running[p]: the session Start saw under the lock
    opened,      \* history: the sessions this process opened
    serial       \* in this behaviour calls come one at a time (the terminal)

wrapperVars == <<pending, current, ended, opened, serial>>
localVars == <<tok, ack, running>>
vars == <<issued, pending, current, ended, agreed, launched, log,
          pc, tok, ack, running, opened, serial>>

\* A plan names an installed program, or none at all.
Plan == {"none", "program", "record_only"}

Event == {"CONSENT_ASKED", "CONSENT_DENIED", "CONSENT_GIVEN",
          "REMOTE_STARTED", "REMOTE_ENDED"}

PC == {"idle", "plan_ask", "decide", "launch", "open", "given", "started",
       "declined"}

Line(e, t) == [event |-> e, token |-> t]
Logged(e, t) == \E i \in 1..Len(log) : log[i] = Line(e, t)
Write(e, t) == log' = Append(log, Line(e, t))

Init ==
    /\ issued = [t \in Token |-> "none"]
    /\ pending = NoToken
    /\ current = NoToken
    /\ ended = {}
    /\ agreed = {}
    /\ launched = [t \in Token |-> 0]
    /\ log = <<>>
    /\ pc = [p \in Proc |-> "idle"]
    /\ tok = [p \in Proc |-> NoToken]
    /\ ack = [p \in Proc |-> FALSE]
    /\ running = [p \in Proc |-> NoToken]
    /\ opened = {}
    /\ serial \in BOOLEAN

Goto(p, l) == pc' = [pc EXCEPT ![p] = l] /\ UNCHANGED localVars

Return(p) ==
    /\ pc' = [pc EXCEPT ![p] = "idle"]
    /\ tok' = [tok EXCEPT ![p] = NoToken]
    /\ ack' = [ack EXCEPT ![p] = FALSE]
    /\ running' = [running EXCEPT ![p] = NoToken]

Open(t) == t # NoToken /\ t \notin ended

\* A call may begin.
Free == serial => \A p \in Proc : pc[p] = "idle"

\* The new plan takes the place of the one shown before it.  A request that
\* names nobody, or a program that is not there, is refused and changes nothing.
PlanStore(p, t) ==
    /\ Free
    /\ pc[p] = "idle"
    /\ issued[t] = "none"
    /\ \E kind \in Plan \ {"none"} : issued' = [issued EXCEPT ![t] = kind]
    /\ pending' = t
    /\ pc' = [pc EXCEPT ![p] = "plan_ask"]
    /\ tok' = [tok EXCEPT ![p] = t]
    /\ UNCHANGED <<current, ended, opened, agreed, launched, log, ack, running, serial>>

PlanAsk(p) ==
    /\ pc[p] = "plan_ask"
    /\ Write("CONSENT_ASKED", tok[p])
    /\ Return(p)
    /\ UNCHANGED <<issued, agreed, launched>>
    /\ UNCHANGED wrapperVars

StartTakeKeeping(p, t, a) ==    \* mutant: the plan is not consumed
    /\ Free
    /\ pc[p] = "idle"
    /\ pending = t
    /\ Logged("CONSENT_ASKED", t)
    /\ running' = [running EXCEPT ![p] = current]
    /\ pc' = [pc EXCEPT ![p] = "decide"]
    /\ tok' = [tok EXCEPT ![p] = t]
    /\ ack' = [ack EXCEPT ![p] = a]
    /\ UNCHANGED <<issued, pending, current, ended, opened, agreed, launched, log, serial>>

\* Under one lock: compare the token, consume the plan, note the session.  A
\* token that is not the pending one is refused and changes nothing.
StartTake(p, t, a) ==
    /\ Free
    /\ pc[p] = "idle"
    /\ pending = t
    /\ Logged("CONSENT_ASKED", t)
    /\ pending' = NoToken
    /\ running' = [running EXCEPT ![p] = current]
    /\ pc' = [pc EXCEPT ![p] = "decide"]
    /\ tok' = [tok EXCEPT ![p] = t]
    /\ ack' = [ack EXCEPT ![p] = a]
    /\ UNCHANGED <<issued, current, ended, opened, agreed, launched, log, serial>>

StartDenied(p) ==
    /\ pc[p] = "decide"
    /\ ~ack[p]
    /\ Write("CONSENT_DENIED", tok[p])
    /\ Return(p)
    /\ UNCHANGED <<issued, agreed, launched>>
    /\ UNCHANGED wrapperVars

\* Ended is read without the lock: as it is by now.
StartBusy(p) ==
    /\ pc[p] = "decide"
    /\ ack[p]
    /\ Open(running[p])
    /\ Return(p)
    /\ UNCHANGED <<issued, agreed, launched, log>>
    /\ UNCHANGED wrapperVars

StartAgreedBusy(p) ==    \* mutant: an open session is not looked for
    /\ pc[p] = "decide"
    /\ ack[p]
    /\ agreed' = agreed \cup {tok[p]}
    /\ Goto(p, IF issued[tok[p]] = "program" THEN "launch" ELSE "open")
    /\ UNCHANGED <<issued, launched, log>>
    /\ UNCHANGED wrapperVars

StartAgreed(p) ==
    /\ pc[p] = "decide"
    /\ ack[p]
    /\ ~Open(running[p])
    /\ agreed' = agreed \cup {tok[p]}
    /\ Goto(p, IF issued[tok[p]] = "program" THEN "launch" ELSE "open")
    /\ UNCHANGED <<issued, launched, log>>
    /\ UNCHANGED wrapperVars

StartLaunch(p) ==
    /\ pc[p] = "launch"
    /\ launched' = [launched EXCEPT ![tok[p]] = @ + 1]
    /\ Goto(p, "open")
    /\ UNCHANGED <<issued, agreed, log>>
    /\ UNCHANGED wrapperVars

StartLaunchFailsReturns(p) ==    \* mutant: no program, so no record
    /\ pc[p] = "launch"
    /\ Return(p)
    /\ UNCHANGED <<issued, agreed, launched, log>>
    /\ UNCHANGED wrapperVars

\* Failing to launch is not failing to consent.
StartLaunchFails(p) ==
    /\ pc[p] = "launch"
    /\ Goto(p, "open")
    /\ UNCHANGED <<issued, agreed, launched, log>>
    /\ UNCHANGED wrapperVars

StartOpen(p) ==
    /\ pc[p] = "open"
    /\ current' = tok[p]
    /\ opened' = opened \cup {tok[p]}
    /\ Goto(p, "given")
    /\ UNCHANGED <<issued, pending, ended, agreed, launched, log, serial>>

StartGiven(p) ==
    /\ pc[p] = "given"
    /\ Write("CONSENT_GIVEN", tok[p])
    /\ Goto(p, "started")
    /\ UNCHANGED <<issued, agreed, launched>>
    /\ UNCHANGED wrapperVars

StartStarted(p) ==
    /\ pc[p] = "started"
    /\ Write("REMOTE_STARTED", tok[p])
    /\ Return(p)
    /\ UNCHANGED <<issued, agreed, launched>>
    /\ UNCHANGED wrapperVars

\* With nothing pending there is nothing to refuse.
Decline(p) ==
    /\ Free
    /\ pc[p] = "idle"
    /\ pending # NoToken
    /\ pending' = NoToken
    /\ pc' = [pc EXCEPT ![p] = "declined"]
    /\ tok' = [tok EXCEPT ![p] = pending]
    /\ UNCHANGED <<issued, current, ended, opened, agreed, launched, log, ack, running, serial>>

DeclineRecord(p) ==
    /\ pc[p] = "declined"
    /\ Write("CONSENT_DENIED", tok[p])
    /\ Return(p)
    /\ UNCHANGED <<issued, agreed, launched>>
    /\ UNCHANGED wrapperVars

\* The line is written under the lock: one step.
End ==
    /\ Free
    /\ Open(current)
    /\ ended' = ended \cup {current}
    /\ Write("REMOTE_ENDED", current)
    /\ UNCHANGED <<issued, pending, current, opened, agreed, launched, pc, serial>>
    /\ UNCHANGED localVars

\* The agent is closed and started again: only the log and the programs stay.
Restart ==
    /\ MayRestart
    /\ pending' = NoToken
    /\ current' = NoToken
    /\ ended' = {}
    /\ opened' = {}
    /\ pc' = [p \in Proc |-> "idle"]
    /\ tok' = [p \in Proc |-> NoToken]
    /\ ack' = [p \in Proc |-> FALSE]
    /\ running' = [p \in Proc |-> NoToken]
    /\ UNCHANGED <<issued, agreed, launched, log, serial>>

Step(p) ==
    \/ PlanAsk(p)
    \/ StartDenied(p) \/ StartBusy(p) \/ StartAgreed(p)
    \/ StartLaunch(p) \/ StartLaunchFails(p)
    \/ StartOpen(p) \/ StartGiven(p) \/ StartStarted(p)
    \/ DeclineRecord(p)

Call(p) ==
    \/ \E t \in Token : PlanStore(p, t)
    \/ \E t \in Token, a \in BOOLEAN : StartTake(p, t, a)
    \/ Decline(p)

Next ==
    \/ \E p \in Proc : Call(p) \/ Step(p)
    \/ End
    \/ Restart

Spec == Init /\ [][Next]_vars
-----------------------------------------------------------------------------
TypeOK ==
    /\ issued \in [Token -> Plan]
    /\ pending \in Token \cup {NoToken}
    /\ current \in Token \cup {NoToken}
    /\ ended \subseteq Token
    /\ agreed \subseteq Token
    /\ launched \in [Token -> Nat]
    /\ log \in Seq([event : Event, token : Token])
    /\ pc \in [Proc -> PC]
    /\ tok \in [Proc -> Token \cup {NoToken}]
    /\ ack \in [Proc -> BOOLEAN]
    /\ running \in [Proc -> Token \cup {NoToken}]
    /\ opened \subseteq Token
    /\ serial \in BOOLEAN

Starting(p) == pc[p] \in {"decide", "launch", "open", "given", "started"}

\* "A plan is good for one session" (remote.go:282-284): no two Starts ride on
\* one confirmation, a plan at work is not pending any more, and no program is
\* launched twice under it.
OneSessionPerPlan ==
    /\ \A p \in Proc : Starting(p) =>
          /\ tok[p] # pending
          /\ \A q \in Proc : Starting(q) /\ tok[q] = tok[p] => q = p
    /\ \A t \in Token : launched[t] <= 1

\* A refusal is final: a plan whose refusal is in the log, by Decline or by an
\* echo that did not match, never gets a program launched or a session opened,
\* whatever Starts were under way when it was refused (remote.go:293-298, 348).
RefusedStaysOut ==
    \A t \in Token : Logged("CONSENT_DENIED", t) =>
        launched[t] = 0 /\ current # t /\ ~Logged("CONSENT_GIVEN", t)

PastChecks(p) == pc[p] \in {"launch", "open", "given", "started"}

\* A no stays out, and what was agreed to is recorded as a session, launched or
\* not: a Start past its checks does not return before both lines are in the log,
\* and only the end of the agent cuts it short (remote.go:322-324).
AnswerIsKept ==
    /\ []RefusedStaysOut
    /\ [][\A p \in Proc, t \in Token :
          PastChecks(p) /\ tok[p] = t /\ pc'[p] = "idle"
          => \/ Logged("CONSENT_GIVEN", t)' /\ Logged("REMOTE_STARTED", t)'
             \/ Restart]_vars

\* "One session may be open at a time" (docs/THREAT-MODEL.md:144): of those this
\* process opened, at most one is not ended.
OneSessionOpen == \A t, u \in opened \ ended : t = u

\* It is so while calls come one at a time, and then the record, too, reads as
\* the session went: "agreed at one time and marked ended at another"
\* (remote.go:14-16), in that order.
EndedAfterStarted ==
    \A i \in 1..Len(log) : log[i].event = "REMOTE_ENDED" =>
        \E j \in 1..i : log[j] = Line("REMOTE_STARTED", log[i].token)
SessionsInSequence == serial => OneSessionOpen /\ EndedAfterStarted

(***************************************************************************)
(* Refinement                                                              *)
(***************************************************************************)

Deciding(t) == \E p \in Proc : pc[p] = "decide" /\ tok[p] = t
decisionOf == [t \in Token |->
    IF t \in agreed THEN "agreed"
    ELSE IF pending = t \/ Deciding(t) THEN "asked"
    ELSE IF issued[t] = "none" THEN "none" ELSE "refused"]

\* The wrapper implements what ConsentGate promises.
Gate == INSTANCE ConsentGate WITH decision <- decisionOf, effect <- launched
GateSpec == Gate!Spec
=============================================================================
