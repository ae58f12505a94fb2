----------------------------- MODULE Remediate -----------------------------
(***************************************************************************)
(* The consent gate every change to the machine goes through:              *)
(* internal/remediate/remediate.go, type Applier.                          *)
(*                                                                         *)
(* Plan, Apply and Rollback are called by the handlers of internal/localui *)
(* (one goroutine per HTTP request), by a wizard session and by the        *)
(* terminal.  A process of the model is one such call.  The Applier's      *)
(* mutex guards its two maps only: it is released around the restore       *)
(* point, the fix itself and every line of the audit log, so a call is     *)
(* several steps here and other calls run between them.                    *)
(*                                                                         *)
(* The fixes are seen as a caller of the Fix interface sees them, at the   *)
(* coarseness shared by temp.Fix and spooler.Fix: one field, held, naming  *)
(* the run whose quarantine Rollback would empty.  A run is named by the   *)
(* token it was confirmed under.  TempFix and SpoolerFix hold the files.   *)
(***************************************************************************)
EXTENDS Integers, FiniteSets

CONSTANTS
    Fix,              \* the fixes compiled in for this platform
    AdminFix,         \* those whose RequiresAdmin() is true
    ReversibleFix,    \* those that keep what they moved, for Rollback
    Proc,             \* the calls that may be in flight together
    Token,            \* bound: the plans one model run may issue
    NoPlan, NoToken, NoFix,   \* absent values
    HasRestore,       \* Applier.Restore # nil, on a platform that has one
    CanElevate,       \* whether the process really holds the rights
    MayStrand,        \* whether a run may end in an error after it moved things
    MayRestart        \* whether the agent may be closed and started again

ASSUME FixAssumption ==
    /\ AdminFix \subseteq Fix
    /\ ReversibleFix \subseteq Fix
    /\ NoFix \notin Fix

ASSUME FlagAssumption ==
    /\ HasRestore \in BOOLEAN
    /\ CanElevate \in BOOLEAN
    /\ MayStrand \in BOOLEAN
    /\ MayRestart \in BOOLEAN

ASSUME TokenAssumption == NoToken \notin Token

\* What Plan found out and Apply decides on, the texts left out.
Plan == [fix : Fix, blocked : BOOLEAN, elevated : BOOLEAN, restore : BOOLEAN]

ASSUME PlanAssumption == NoPlan \notin Plan

\* The two answers of a Confirmation: the list of changes was echoed exactly,
\* and going without a restore point was accepted.
Confirmation == [ack : BOOLEAN, accept : BOOLEAN]
NoConfirmation == [ack |-> FALSE, accept |-> FALSE]

\* The lines of the audit log.  FIX_APPLIED is split by its subject and its
\* "applied" field, FIX_ROLLED_BACK by its "undone" field.
Event == {"FIX_PREFLIGHT", "CONSENT_ASKED", "CONSENT_DENIED", "CONSENT_GIVEN",
          "RESTORE_POINT", "FIX_APPLIED", "FIX_NOT_APPLIED",
          "FIX_ROLLED_BACK", "FIX_NOT_ROLLED_BACK"}

VARIABLES
    issued,     \* issued[t]: the plan described under t, kept for good
    open,       \* the keys of Applier.plans
    applied,    \* the keys of Applier.applied
    log,        \* the audit log, as the set of its lines; survives a restart
    points,     \* the runs a restore point was made for
    started,    \* started[t]: how often fix.Apply was called under t
    held,       \* held[f]: the run whose quarantine the fix would give back
    changed,    \* changed[f]: the runs whose change is on the machine
    pc,         \* pc[p]: what the call p does next
    tok,        \* tok[p]: the plan, or the run, the call works with
    job,        \* job[p]: the fix a Rollback works with
    conf,       \* conf[p]: the confirmation an Apply was given
    agent       \* how the agent was started: Applier.DryRun, and whether its
                \* calls come one at a time (the terminal) or overlap (the page)

applierVars == <<issued, open, applied>>
\* The last of them is chosen at the start and never changes.
machineVars == <<points, started, held, changed, agent>>
callVars == <<pc, tok, job, conf>>
vars == <<issued, open, applied, log, points, started, held, changed,
          pc, tok, job, conf, agent>>

PC == {"idle",
       "plan_store", "plan_ask",
       "decide", "point", "fix", "moving", "record_ok", "record_err", "mark",
       "undo", "restoring", "forget", "undone"}

Line(e, t) == [event |-> e, token |-> t]
Logged(e, t) == Line(e, t) \in log
Write(e, t) == log' = log \cup {Line(e, t)}

Init ==
    /\ issued = [t \in Token |-> NoPlan]
    /\ open = {}
    /\ applied = {}
    /\ log = {}
    /\ points = {}
    /\ started = [t \in Token |-> 0]
    /\ held = [f \in Fix |-> NoToken]
    /\ changed = [f \in Fix |-> {}]
    /\ pc = [p \in Proc |-> "idle"]
    /\ tok = [p \in Proc |-> NoToken]
    /\ job = [p \in Proc |-> NoFix]
    /\ conf = [p \in Proc |-> NoConfirmation]
    /\ agent \in [dry : BOOLEAN, serial : BOOLEAN]

\* A call may begin.
Free == agent.serial => \A p \in Proc : pc[p] = "idle"

Goto(p, l) == pc' = [pc EXCEPT ![p] = l]

\* The call returns and its locals go with it.
Return(p) ==
    /\ pc' = [pc EXCEPT ![p] = "idle"]
    /\ tok' = [tok EXCEPT ![p] = NoToken]
    /\ job' = [job EXCEPT ![p] = NoFix]
    /\ conf' = [conf EXCEPT ![p] = NoConfirmation]

-----------------------------------------------------------------------------
(* Plan *)

\* The read-only part: rights, restore mechanism, preflight, a fresh token.
\* An elevation question that fails counts as no.
PlanBegin(p, f, t) ==
    /\ Free
    /\ pc[p] = "idle"
    /\ issued[t] = NoPlan
    /\ \E blocked \in BOOLEAN,
          elevated \in {FALSE, CanElevate},
          restore \in {FALSE, HasRestore} :
         issued' = [issued EXCEPT ![t] =
             [fix |-> f, blocked |-> blocked, elevated |-> elevated,
              restore |-> restore]]
    /\ Write("FIX_PREFLIGHT", t)
    /\ Goto(p, "plan_store")
    /\ tok' = [tok EXCEPT ![p] = t]
    /\ UNCHANGED <<open, applied, job, conf>>
    /\ UNCHANGED machineVars

PlanStore(p) ==
    /\ pc[p] = "plan_store"
    /\ open' = open \cup {tok[p]}
    /\ Goto(p, "plan_ask")
    /\ UNCHANGED <<issued, applied, log, tok, job, conf>>
    /\ UNCHANGED machineVars

\* Only now does the caller learn the token.
PlanAsk(p) ==
    /\ pc[p] = "plan_ask"
    /\ Write("CONSENT_ASKED", tok[p])
    /\ Return(p)
    /\ UNCHANGED applierVars
    /\ UNCHANGED machineVars

-----------------------------------------------------------------------------
(* Apply *)

ApplyTakeKeepingPlan(p, t, c) ==    \* mutant: the token is not consumed
    /\ Free
    /\ pc[p] = "idle"
    /\ t \in open
    /\ Logged("CONSENT_ASKED", t)
    /\ Goto(p, "decide")
    /\ tok' = [tok EXCEPT ![p] = t]
    /\ conf' = [conf EXCEPT ![p] = c]
    /\ UNCHANGED <<open, issued, applied, log, job>>
    /\ UNCHANGED machineVars

\* Looks the token up and consumes it under one lock.  A token that is not in
\* the map is refused and changes nothing.
ApplyTake(p, t, c) ==
    /\ Free
    /\ pc[p] = "idle"
    /\ t \in open
    /\ Logged("CONSENT_ASKED", t)
    /\ open' = open \ {t}
    /\ Goto(p, "decide")
    /\ tok' = [tok EXCEPT ![p] = t]
    /\ conf' = [conf EXCEPT ![p] = c]
    /\ UNCHANGED <<issued, applied, log, job>>
    /\ UNCHANGED machineVars

Acknowledged(p) == conf[p].ack
Blocked(t) == issued[t].blocked
LacksRights(t) == issued[t].fix \in AdminFix /\ ~issued[t].elevated
Unsafe(p) == ~issued[tok[p]].restore /\ ~conf[p].accept

MayProceedUnsafely(p) ==    \* mutant: the missing restore point is not asked about
    /\ Acknowledged(p)
    /\ ~Blocked(tok[p])
    /\ ~LacksRights(tok[p])

\* What Apply demands before it changes anything, in the code's order.
MayProceed(p) ==
    /\ Acknowledged(p)
    /\ ~Blocked(tok[p])
    /\ ~LacksRights(tok[p])
    /\ ~Unsafe(p)

\* Two of the four refusals are written to the log.
ApplyRefuse(p) ==
    /\ pc[p] = "decide"
    /\ ~MayProceed(p)
    /\ IF \/ ~Acknowledged(p)
          \/ ~Blocked(tok[p]) /\ ~LacksRights(tok[p])
       THEN Write("CONSENT_DENIED", tok[p])
       ELSE log' = log
    /\ Return(p)
    /\ UNCHANGED applierVars
    /\ UNCHANGED machineVars

\* A dry run stops after the line that says consent was given.
ApplyDryRun(p) ==
    /\ pc[p] = "decide"
    /\ MayProceed(p)
    /\ agent.dry
    /\ Write("CONSENT_GIVEN", tok[p])
    /\ Return(p)
    /\ UNCHANGED applierVars
    /\ UNCHANGED machineVars

ApplyConsentInDryRun(p) ==    \* mutant: a dry run goes on
    /\ pc[p] = "decide"
    /\ MayProceed(p)
    /\ Write("CONSENT_GIVEN", tok[p])
    /\ Goto(p, IF issued[tok[p]].restore THEN "point" ELSE "fix")
    /\ UNCHANGED <<tok, job, conf>>
    /\ UNCHANGED applierVars
    /\ UNCHANGED machineVars

ApplyConsent(p) ==
    /\ pc[p] = "decide"
    /\ MayProceed(p)
    /\ ~agent.dry
    /\ Write("CONSENT_GIVEN", tok[p])
    /\ Goto(p, IF issued[tok[p]].restore THEN "point" ELSE "fix")
    /\ UNCHANGED <<tok, job, conf>>
    /\ UNCHANGED applierVars
    /\ UNCHANGED machineVars

ApplyPoint(p) ==
    /\ pc[p] = "point"
    /\ points' = points \cup {tok[p]}
    /\ Write("RESTORE_POINT", tok[p])
    /\ Goto(p, "fix")
    /\ UNCHANGED <<started, held, changed, tok, job, conf, agent>>
    /\ UNCHANGED applierVars

ApplyNoPointGoesOn(p) ==    \* mutant: the failure is logged and ignored
    /\ pc[p] = "point"
    /\ Write("FIX_NOT_APPLIED", tok[p])
    /\ Goto(p, "fix")
    /\ UNCHANGED <<tok, job, conf>>
    /\ UNCHANGED applierVars
    /\ UNCHANGED machineVars

ApplyNoPointSilently(p) ==    \* mutant: an early return without its line
    /\ pc[p] = "point"
    /\ Return(p)
    /\ UNCHANGED log
    /\ UNCHANGED applierVars
    /\ UNCHANGED machineVars

\* The promised restore point could not be made: stop.
ApplyNoPoint(p) ==
    /\ pc[p] = "point"
    /\ Write("FIX_NOT_APPLIED", tok[p])
    /\ Return(p)
    /\ UNCHANGED applierVars
    /\ UNCHANGED machineVars

\* fix.Apply is entered; a reversible fix replaces its held quarantine.
FixBegin(p) ==
    LET f == issued[tok[p]].fix IN
    /\ pc[p] = "fix"
    /\ started' = [started EXCEPT ![tok[p]] = @ + 1]
    /\ held' = IF f \in ReversibleFix THEN [held EXCEPT ![f] = tok[p]] ELSE held
    /\ Goto(p, "moving")
    /\ UNCHANGED <<log, points, changed, tok, job, conf, agent>>
    /\ UNCHANGED applierVars

\* fix.Apply fails before it has touched anything.
FixRefused(p) ==
    /\ pc[p] = "fix"
    /\ started' = [started EXCEPT ![tok[p]] = @ + 1]
    /\ Goto(p, "record_err")
    /\ UNCHANGED <<log, points, held, changed, tok, job, conf, agent>>
    /\ UNCHANGED applierVars

FixDone(p) ==
    LET f == issued[tok[p]].fix IN
    /\ pc[p] = "moving"
    /\ changed' = [changed EXCEPT ![f] = @ \cup {tok[p]}]
    /\ Goto(p, "record_ok")
    /\ UNCHANGED <<log, points, started, held, tok, job, conf, agent>>
    /\ UNCHANGED applierVars

\* fix.Apply returns an error.  What it moved was put back (spooler) or was
\* nothing yet; when the request is cancelled half-way, or putting back fails
\* too, what it moved stays moved.
FixFailed(p) ==
    LET f == issued[tok[p]].fix IN
    /\ pc[p] = "moving"
    /\ \/ /\ held' \in {held, [held EXCEPT ![f] = NoToken]}
          /\ changed' = changed
       \/ /\ MayStrand
          /\ changed' = [changed EXCEPT ![f] = @ \cup {tok[p]}]
          /\ held' = held
    /\ Goto(p, "record_err")
    /\ UNCHANGED <<log, points, started, tok, job, conf, agent>>
    /\ UNCHANGED applierVars

ApplyRecord(p) ==
    /\ pc[p] = "record_ok"
    /\ Write("FIX_APPLIED", tok[p])
    /\ Goto(p, "mark")
    /\ UNCHANGED <<tok, job, conf>>
    /\ UNCHANGED applierVars
    /\ UNCHANGED machineVars

ApplyRecordError(p) ==
    /\ pc[p] = "record_err"
    /\ Write("FIX_NOT_APPLIED", tok[p])
    /\ Return(p)
    /\ UNCHANGED applierVars
    /\ UNCHANGED machineVars

ApplyMark(p) ==
    /\ pc[p] = "mark"
    /\ applied' = applied \cup {issued[tok[p]].fix}
    /\ Return(p)
    /\ UNCHANGED <<issued, open, log>>
    /\ UNCHANGED machineVars

-----------------------------------------------------------------------------
(* Rollback *)

\* A fix that is not on the list is refused and nothing changes.
RollbackCheck(p, f) ==
    /\ Free
    /\ pc[p] = "idle"
    /\ f \in applied
    /\ Goto(p, "undo")
    /\ job' = [job EXCEPT ![p] = f]
    /\ UNCHANGED <<log, tok, conf>>
    /\ UNCHANGED applierVars
    /\ UNCHANGED machineVars

\* fix.Rollback reads the quarantine it holds; with none it has nothing to do.
UndoBegin(p) ==
    /\ pc[p] = "undo"
    /\ tok' = [tok EXCEPT ![p] = held[job[p]]]
    /\ Goto(p, IF held[job[p]] = NoToken THEN "forget" ELSE "restoring")
    /\ UNCHANGED <<log, job, conf>>
    /\ UNCHANGED applierVars
    /\ UNCHANGED machineVars

\* It clears its field at the end, whatever the field names by then.
UndoDone(p) ==
    LET f == job[p] IN
    /\ pc[p] = "restoring"
    /\ changed' = [changed EXCEPT ![f] = @ \ {tok[p]}]
    /\ held' = [held EXCEPT ![f] = NoToken]
    /\ Goto(p, "forget")
    /\ UNCHANGED <<log, points, started, tok, job, conf, agent>>
    /\ UNCHANGED applierVars

UndoFailedIgnored(p) ==    \* mutant: a failed rollback forgets the fix too
    /\ pc[p] = "restoring"
    /\ Goto(p, "forget")
    /\ UNCHANGED <<log, tok, job, conf>>
    /\ UNCHANGED applierVars
    /\ UNCHANGED machineVars

UndoFailed(p) ==
    /\ pc[p] = "restoring"
    /\ Write("FIX_NOT_ROLLED_BACK", tok[p])
    /\ Return(p)
    /\ UNCHANGED applierVars
    /\ UNCHANGED machineVars

RollbackForget(p) ==
    /\ pc[p] = "forget"
    /\ applied' = applied \ {job[p]}
    /\ Goto(p, "undone")
    /\ UNCHANGED <<issued, open, log, tok, job, conf>>
    /\ UNCHANGED machineVars

RollbackRecord(p) ==
    /\ pc[p] = "undone"
    /\ Write("FIX_ROLLED_BACK", tok[p])
    /\ Return(p)
    /\ UNCHANGED applierVars
    /\ UNCHANGED machineVars

-----------------------------------------------------------------------------
\* The agent is closed and started again: its maps, its fixes' fields and the
\* calls in flight are gone; the log and what was moved are on the disk.
Restart ==
    /\ MayRestart
    /\ open' = {}
    /\ applied' = {}
    /\ held' = [f \in Fix |-> NoToken]
    /\ pc' = [p \in Proc |-> "idle"]
    /\ tok' = [p \in Proc |-> NoToken]
    /\ job' = [p \in Proc |-> NoFix]
    /\ conf' = [p \in Proc |-> NoConfirmation]
    /\ UNCHANGED <<issued, log, points, started, changed, agent>>

\* The steps of a call that is already running.
Step(p) ==
    \/ PlanStore(p) \/ PlanAsk(p)
    \/ ApplyRefuse(p) \/ ApplyDryRun(p) \/ ApplyConsent(p)
    \/ ApplyPoint(p) \/ ApplyNoPoint(p)
    \/ FixBegin(p) \/ FixRefused(p) \/ FixDone(p) \/ FixFailed(p)
    \/ ApplyRecord(p) \/ ApplyRecordError(p) \/ ApplyMark(p)
    \/ UndoBegin(p) \/ UndoDone(p) \/ UndoFailed(p)
    \/ RollbackForget(p) \/ RollbackRecord(p)

\* A new call arrives.
Call(p) ==
    \/ \E f \in Fix, t \in Token : PlanBegin(p, f, t)
    \/ \E t \in Token, c \in Confirmation : ApplyTake(p, t, c)
    \/ \E f \in Fix : RollbackCheck(p, f)

Next ==
    \/ \E p \in Proc : Call(p) \/ Step(p)
    \/ Restart

Spec == Init /\ [][Next]_vars
-----------------------------------------------------------------------------
TypeOK ==
    /\ issued \in [Token -> Plan \cup {NoPlan}]
    /\ open \subseteq Token
    /\ applied \subseteq Fix
    /\ log \subseteq [event : Event, token : Token \cup {NoToken}]
    /\ points \subseteq Token
    /\ started \in [Token -> Nat]
    /\ held \in [Fix -> Token \cup {NoToken}]
    /\ changed \in [Fix -> SUBSET Token]
    /\ pc \in [Proc -> PC]
    /\ tok \in [Proc -> Token \cup {NoToken}]
    /\ job \in [Proc -> Fix \cup {NoFix}]
    /\ conf \in [Proc -> Confirmation]
    /\ agent \in [dry : BOOLEAN, serial : BOOLEAN]

\* The labels between the consumption of a token and the end of Apply.
Applying(p) == pc[p] \in {"decide", "point", "fix", "moving",
                          "record_ok", "record_err", "mark"}

(***************************************************************************)
(* Safety                                                                  *)
(***************************************************************************)

\* "A plan is good for one decision": while an Apply works under a token, no
\* other Apply does and the token is gone from the map, however many requests
\* carried it; its fix is run once at most (remediate.go:216-223).
OneRunPerPlan ==
    /\ \A p \in Proc : Applying(p) =>
          /\ tok[p] \notin open
          /\ \A q \in Proc : Applying(q) /\ tok[q] = tok[p] => q = p
    /\ \A t \in Token : started[t] <= 1

\* Whatever is, or was, changed on this machine was described under that very
\* token, the question and the yes are both in the durable log, no refusal of
\* it is, the preflight had not refused and the rights were there; and a fix
\* at work has its list echoed and its missing restore point accepted.
ChangeWasConsented ==
    /\ \A t \in Token : started[t] > 0 =>
          /\ Logged("CONSENT_ASKED", t)
          /\ Logged("CONSENT_GIVEN", t)
          /\ ~Logged("CONSENT_DENIED", t)
          /\ issued[t] # NoPlan
          /\ ~Blocked(t)
          /\ ~LacksRights(t)
    /\ \A p \in Proc : pc[p] = "moving" => Acknowledged(p) /\ ~Unsafe(p)

\* A change to which a restore point was promised is only begun with one made
\* (remediate.go:268-284): the safety net comes first.
PointBeforeChange ==
    \A t \in Token : started[t] > 0 /\ issued[t].restore => t \in points

\* --dry-run reports what would change and changes nothing.
DryRunIsDry ==
    agent.dry => /\ \A f \in Fix : changed[f] = {}
                 /\ \A t \in Token : started[t] = 0
                 /\ points = {} /\ applied = {}

\* While calls come one at a time, a change the log reports as applied and that
\* Rollback could still put back is on the list Rollback looks at, once nothing
\* is in flight on its fix: it is never forgotten by the only step that can undo
\* it.  A run that ended in an error is not reported and not listed, whatever it
\* left behind; and an overlapping Rollback can strike a newer run off the list
\* (remediate.go:322-329).
Quiet(f) == \A p \in Proc : job[p] # f /\ (Applying(p) => issued[tok[p]].fix # f)
NothingForgotten ==
    agent.serial => \A f \in Fix :
        Quiet(f) /\ held[f] \in changed[f] /\ Logged("FIX_APPLIED", held[f]) => f \in applied

\* Every yes has an outcome in the log: once consent is recorded for a run that
\* is not a dry one, the call does not return before a line says whether the fix
\* was applied, however it fails; only the end of the agent cuts it short.
Reported(t) == Logged("FIX_APPLIED", t) \/ Logged("FIX_NOT_APPLIED", t)
PastConsent(p) == Applying(p) /\ pc[p] # "decide"
YesIsAnswered ==
    [][\A p \in Proc, t \in Token :
          PastConsent(p) /\ tok[p] = t /\ pc'[p] = "idle" => Reported(t)' \/ Restart]_vars

\* The tokens that were answered with a no: asked about, taken out of the map,
\* no consent recorded and no call deciding.  A preflight that blocks and rights
\* that are missing are refused without a line (remediate.go:232-237).
Refused(t) ==
    /\ Logged("CONSENT_ASKED", t)
    /\ t \notin open
    /\ ~Logged("CONSENT_GIVEN", t)
    /\ \A p \in Proc : ~(Applying(p) /\ tok[p] = t)

(***************************************************************************)
(* Refinement                                                              *)
(***************************************************************************)

decisionOf == [t \in Token |->
    IF Logged("CONSENT_GIVEN", t) THEN "agreed"
    ELSE IF Refused(t) THEN "refused"
    ELSE IF Logged("CONSENT_ASKED", t) THEN "asked" ELSE "none"]

\* The gate implements what ConsentGate promises.
Gate == INSTANCE ConsentGate WITH decision <- decisionOf, effect <- started
GateSpec == Gate!Spec
=============================================================================
