------------------------------- MODULE Wizard -------------------------------
(***************************************************************************)
(* One guided walkthrough: internal/wizard/wizard.go, type Session.        *)
(*                                                                         *)
(* A session asks its questions in order, offers the fix of the first one  *)
(* that is not clean, and after a change asks the same question again.     *)
(* Its moves (next, confirm, skip, stop) come from HTTP requests, each a   *)
(* process here.  The Session has no lock: what a move does between two    *)
(* questions, or between a question and the consent gate, is one step of   *)
(* the model, and moves interleave between those steps.                    *)
(*                                                                         *)
(* The consent gate is Remediate, and one Applier serves the walkthroughs  *)
(* and the page of fixes.  A Confirm hands it the caller's token as it     *)
(* came: nothing ties the plan behind that token to the step, so any fix   *)
(* may run in the step's name.  Here the gate refuses, runs the fix of the *)
(* token, to the end or failing part-way, or describes it, in a dry run.   *)
(***************************************************************************)
EXTENDS Integers, Sequences

CONSTANTS
    N,              \* the number of steps
    Fixable,        \* the steps with a FixID
    Unverifiable,   \* those whose fix a second question cannot judge
    Proc            \* the moves that may be in flight together

ASSUME StepAssumption ==
    /\ N \in Nat \ {0}
    /\ Unverifiable \subseteq Fixable
    /\ Fixable \subseteq 1..N

Step == 1..N

Status == {"clean", "found", "fixed", "applied", "no_help", "declined",
           "blocked", "unknown"}
Outcome == {"running", "fixed", "unresolved", "unverified", "no_fault", "stopped"}
Record == [step : Step, status : Status]
NoRecord == [step |-> 0, status |-> "none"]
Run == [step : Step, fix : Fixable \cup {0}]    \* 0: the fix of no step of this session
Agent == {a \in [dry : BOOLEAN, serial : BOOLEAN, own : BOOLEAN] : a.own => a.serial}

VARIABLES
    bad,        \* the steps something is wrong with, on the machine
    ran,        \* history, kept while moves come one at a time: which fix was run in
                \* the name of which step
    at,         \* Session.at, counted from 1
    done,       \* Session.done
    pending,    \* Session.pending
    outcome,    \* Session.outcome
    pc,         \* pc[p]: what the move p does next
    rec,        \* rec[p]: the record it has in hand
    fix,        \* fix[p]: the step a Confirm works on
    agent       \* Applier.DryRun; whether moves come one at a time; whether every
                \* token that is presented is its own step's

sessionVars == <<at, done, pending, outcome, agent>>
vars == <<bad, ran, at, done, pending, outcome, pc, rec, fix, agent>>

Init ==
    /\ bad \in SUBSET Step
    /\ ran = {}
    /\ at = 1
    /\ done = <<>>
    /\ pending = NoRecord
    /\ outcome = "running"
    /\ pc = [p \in Proc |-> "idle"]
    /\ rec = [p \in Proc |-> NoRecord]
    /\ fix = [p \in Proc |-> 0]
    /\ agent \in Agent

\* A move may begin.
Free == agent.serial => \A p \in Proc : pc[p] = "idle"

Goto(p, l) == pc' = [pc EXCEPT ![p] = l]
InHand(p, r) == rec' = [rec EXCEPT ![p] = r]
NoFix(p) == fix' = [fix EXCEPT ![p] = 0]
Return(p) == Goto(p, "idle") /\ InHand(p, NoRecord) /\ UNCHANGED fix

\* What asking about s can answer; the probe may fail, time out or panic.
Answers(s) == {"unknown", IF s \in bad THEN "found" ELSE "clean"}

\* The record is filed and the session moves on.
close(r) ==
    /\ done' = Append(done, r)
    /\ pending' = NoRecord
    /\ at' = at + 1

\* How the session ended, from what happened at its steps.
EndingOf(records, outstanding) ==
    LET has(S) == \E i \in 1..Len(records) : records[i].status \in S IN
    CASE ~has(Status \ {"clean"}) -> "no_fault"
      [] has(outstanding) -> "unresolved"
      [] ~has(outstanding) /\ has({"applied"}) -> "unverified"
      [] OTHER -> "fixed"

EndingUnknownPasses(records) ==    \* mutant: an unanswered question is not outstanding
    EndingOf(records, {"found", "no_help", "declined", "blocked"})

Ending(records) ==
    EndingOf(records, {"found", "no_help", "declined", "blocked", "unknown"})

-----------------------------------------------------------------------------
(* Next, also the last part of Confirm and Skip. *)

\* A move on a session that has ended is refused and changes nothing.
NextBegin(p) ==
    /\ Free
    /\ pc[p] = "idle"
    /\ outcome = "running"
    /\ Goto(p, "loop")
    /\ UNCHANGED <<bad, ran, rec, fix>>
    /\ UNCHANGED sessionVars

\* Confirm and Skip go on as Next, which looks at the outcome once more.
NextEnter(p) ==
    /\ pc[p] = "next"
    /\ outcome = "running"
    /\ Goto(p, "loop")
    /\ UNCHANGED <<bad, ran, rec, fix>>
    /\ UNCHANGED sessionVars

\* ErrFinished: another move ended the session meanwhile.
NextTooLate(p) ==
    /\ pc[p] = "next"
    /\ outcome # "running"
    /\ Return(p)
    /\ UNCHANGED <<bad, ran>>
    /\ UNCHANGED sessionVars

NextAsk(p) ==
    /\ pc[p] = "loop"
    /\ at <= N
    /\ \E a \in Answers(at) : InHand(p, [step |-> at, status |-> a])
    /\ Goto(p, "answered")
    /\ UNCHANGED <<bad, ran, fix>>
    /\ UNCHANGED sessionVars

NextCleanStays(p) ==    \* mutant: the loop continues without advancing
    /\ pc[p] = "answered"
    /\ rec[p].status = "clean"
    /\ Goto(p, "loop")
    /\ InHand(p, NoRecord)
    /\ UNCHANGED <<bad, ran, fix>>
    /\ UNCHANGED sessionVars

NextCleanPassedOver(p) ==    \* mutant: a clean answer is passed over unrecorded
    /\ pc[p] = "answered"
    /\ rec[p].status = "clean"
    /\ at' = at + 1
    /\ Goto(p, "loop")
    /\ InHand(p, NoRecord)
    /\ UNCHANGED <<bad, ran, done, pending, outcome, fix, agent>>

\* The loop appends the record and goes on; the outcome is not looked at.
NextClean(p) ==
    /\ pc[p] = "answered"
    /\ rec[p].status = "clean"
    /\ done' = Append(done, rec[p])
    /\ at' = at + 1
    /\ Goto(p, "loop")
    /\ InHand(p, NoRecord)
    /\ UNCHANGED <<bad, ran, pending, outcome, fix, agent>>

\* The step waits for the user, with the plan of its fix if it has one.
NextOffer(p) ==
    /\ pc[p] = "answered"
    /\ rec[p].status # "clean"
    /\ pending' = rec[p]
    /\ Return(p)
    /\ UNCHANGED <<bad, ran, at, done, outcome, agent>>

\* The loop has no step left.
NextFinish(p) ==
    /\ pc[p] = "loop"
    /\ at > N
    /\ outcome' = Ending(done)
    /\ Return(p)
    /\ UNCHANGED <<bad, ran, at, done, pending, agent>>

-----------------------------------------------------------------------------
(* Confirm *)

\* Refused without a pending step, or when the step has no fix; its token is not
\* looked at.
ConfirmBegin(p) ==
    /\ Free
    /\ pc[p] = "idle"
    /\ outcome = "running"
    /\ pending # NoRecord
    /\ at <= N /\ at \in Fixable
    /\ InHand(p, pending)
    /\ fix' = [fix EXCEPT ![p] = at]
    /\ Goto(p, "apply")
    /\ UNCHANGED <<bad, ran>>
    /\ UNCHANGED sessionVars

\* The gate refuses, or its restore point fails: no fix ran.
ConfirmRefused(p) ==
    /\ pc[p] = "apply"
    /\ close([rec[p] EXCEPT !.status = "blocked"])
    /\ Goto(p, "next")
    /\ InHand(p, NoRecord)
    /\ NoFix(p)
    /\ UNCHANGED <<bad, ran, outcome, agent>>

\* The fix of the plan behind the token: the one the step offers, or any other that
\* was planned in this program (wizard.go:337 speaks of "the offered fix").
Presented(p) == IF agent.own THEN {fix[p]} ELSE Fixable \cup {0}

\* A fix ran in the name of the step p works on, for better or not at all.
RunFix(p, f) ==
    /\ bad' \in {bad, bad \ {f}}
    /\ ran' = IF agent.serial THEN ran \cup {[step |-> fix[p], fix |-> f]} ELSE ran

\* The gate reports success; a dry run does not touch the machine.
ConfirmApplied(p) ==
    /\ pc[p] = "apply"
    /\ IF agent.dry THEN UNCHANGED <<bad, ran>>
       ELSE \E f \in Presented(p) : RunFix(p, f)
    /\ Goto(p, IF fix[p] \in Unverifiable THEN "changed" ELSE "recheck")
    /\ UNCHANGED <<rec, fix>>
    /\ UNCHANGED sessionVars

\* The fix ran and failed: what it changed by then stays, and the step is filed as
\* if nothing had run.
ConfirmFailed(p) ==
    /\ pc[p] = "apply"
    /\ ~agent.dry
    /\ \E f \in Presented(p) : RunFix(p, f)
    /\ close([rec[p] EXCEPT !.status = "blocked"])
    /\ Goto(p, "next")
    /\ InHand(p, NoRecord)
    /\ NoFix(p)
    /\ UNCHANGED <<outcome, agent>>

\* Asking again would tell nothing.
ConfirmChanged(p) ==
    /\ pc[p] = "changed"
    /\ close([rec[p] EXCEPT !.status = "applied"])
    /\ Goto(p, "next")
    /\ InHand(p, NoRecord)
    /\ NoFix(p)
    /\ UNCHANGED <<bad, ran, outcome, agent>>

Verdict(answer) ==
    CASE answer = "clean" -> "fixed"
      [] answer = "unknown" -> "unknown"
      [] answer = "found" -> "no_help"

ConfirmUnasked(p) ==    \* mutant: a fix that ran is a problem that went away
    /\ pc[p] = "recheck"
    /\ close([rec[p] EXCEPT !.status = "fixed"])
    /\ Goto(p, "next")
    /\ InHand(p, NoRecord)
    /\ NoFix(p)
    /\ UNCHANGED <<bad, ran, outcome, agent>>

\* The same question again is what decides.
ConfirmRecheck(p) ==
    /\ pc[p] = "recheck"
    /\ \E a \in Answers(fix[p]) : close([rec[p] EXCEPT !.status = Verdict(a)])
    /\ Goto(p, "next")
    /\ InHand(p, NoRecord)
    /\ NoFix(p)
    /\ UNCHANGED <<bad, ran, outcome, agent>>

-----------------------------------------------------------------------------
\* With nothing pending Skip is Next.
Skip(p) ==
    /\ Free
    /\ pc[p] = "idle"
    /\ outcome = "running"
    /\ pending # NoRecord
    /\ close(IF pending.status = "found" THEN [pending EXCEPT !.status = "declined"]
                                         ELSE pending)
    /\ Goto(p, "next")
    /\ UNCHANGED <<bad, ran, outcome, rec, fix, agent>>

\* The pending step is filed as it stands.
Stop(p) ==
    /\ Free
    /\ pc[p] = "idle"
    /\ outcome = "running"
    /\ IF pending = NoRecord THEN UNCHANGED <<at, done, pending>> ELSE close(pending)
    /\ outcome' = "stopped"
    /\ UNCHANGED <<bad, ran, pc, rec, fix, agent>>

\* The machine changes by itself: a fault comes or goes.
Drift(s) ==
    /\ outcome = "running"
    /\ bad' \in {bad \cup {s}, bad \ {s}}
    /\ UNCHANGED <<ran, pc, rec, fix>>
    /\ UNCHANGED sessionVars

Move(p) ==
    \/ NextEnter(p) \/ NextTooLate(p)
    \/ NextAsk(p) \/ NextClean(p) \/ NextOffer(p) \/ NextFinish(p)
    \/ ConfirmRefused(p) \/ ConfirmApplied(p) \/ ConfirmFailed(p)
    \/ ConfirmChanged(p) \/ ConfirmRecheck(p)

\* A new move arrives.
Call(p) == NextBegin(p) \/ ConfirmBegin(p) \/ Skip(p) \/ Stop(p)

Next ==
    \/ \E p \in Proc : Call(p) \/ Move(p)
    \/ \E s \in Step : Drift(s)

Spec == Init /\ [][Next]_vars

\* Handlers run, and every question is bounded by its timeout.
FairSpec == Spec /\ \A p \in Proc : WF_vars(Move(p))
-----------------------------------------------------------------------------
TypeOK ==
    /\ bad \subseteq Step
    /\ ran \subseteq Run
    /\ at \in Nat \ {0}
    /\ done \in Seq(Record)
    /\ pending \in Record \cup {NoRecord}
    /\ outcome \in Outcome
    /\ pc \in [Proc -> {"idle", "next", "loop", "answered", "apply", "changed", "recheck"}]
    /\ rec \in [Proc -> Record \cup {NoRecord}]
    /\ fix \in [Proc -> 0..N]
    /\ agent \in Agent

Ended == outcome \notin {"running", "stopped"}
Filed(s, S) == \E i \in 1..Len(done) : done[i].step = s /\ done[i].status \in S

\* While moves come one at a time the history a technician is handed is
\* complete: one record for each step the session has passed, in order, and for
\* all of them once it ended by itself.  Two moves on one session file a step
\* twice and pass over another (wizard.go:251-259).
HistoryComplete ==
    agent.serial =>
        /\ \A i \in 1..Len(done) : done[i].step = i
        /\ Len(done) = at - 1
        /\ Ended => Len(done) = N

\* A fix that ran is not a problem that went away: while moves come one at a time,
\* when a record says "fixed" the fault was gone at that very moment
\* (wizard.go:337-340), whichever fix was run.  Of moves that overlap, a Confirm may
\* run the fix of the step another has moved on to, and file the answer under the step
\* that is pending.
FixedMeansClean ==
    [][agent.serial /\ Len(done') > Len(done) /\ done'[Len(done')].status = "fixed"
          => done'[Len(done')].step \notin bad]_vars

\* A fix was run in the name of s, and it was s's own if every token is.
Ran(s) == \E r \in ran : r.step = s /\ (agent.own => r.fix = s)

\* While moves come one at a time, a change made in a walkthrough is never
\* reported as "no fault found", and no question that went unanswered, or was
\* declined, is left out of the verdict (docs/FIXES.md:95-103).  A step is recorded
\* as repaired, for better or not, only after a fix was really run in its name ("it
\* was repaired, and asking again confirmed it", docs/FIXES.md:99), except in a dry
\* run, where the re-check is filed all the same; and it is the fix that step offers
\* as long as each confirmation presents the token of the step it is made at, which
\* nothing in the code demands.  A run that fails part-way is not lost either: its
\* step is never filed as clean, found or declined.
VerdictIsHonest ==
    agent.serial =>
        /\ ~agent.dry => \A s \in Step : Filed(s, {"fixed", "no_help", "applied"}) => Ran(s)
        /\ \A r \in ran :
              \/ Filed(r.step, Status \ {"clean", "found", "declined"})
              \/ \E p \in Proc : pc[p] \in {"changed", "recheck"} /\ fix[p] = r.step
        /\ outcome = "no_fault" => ran = {} /\ \A s \in Step : Filed(s, {"clean"})
        /\ outcome = "fixed" => \A s \in Step : Filed(s, {"clean", "fixed"})
        /\ outcome = "unverified" => \E s \in Step : Filed(s, {"applied"})

\* A move ends, however many others run on its session: it leaves the session
\* waiting for the user or over.
MoveEnds == \A p \in Proc : pc[p] = "loop" ~> pc[p] = "idle"
=============================================================================
