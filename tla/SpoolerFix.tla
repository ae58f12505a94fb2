----------------------------- MODULE SpoolerFix -----------------------------
(***************************************************************************)
(* print.clear-spooler, job by job: internal/fixes/spooler/spooler.go.     *)
(*                                                                         *)
(* Apply lists the queue, stops the print service, moves the listed jobs   *)
(* into a quarantine and starts the service again; Rollback stops it, puts *)
(* the jobs back and starts it.  Users print and jobs finish whenever the  *)
(* service runs.  The context of the HTTP request is the one the commands  *)
(* run under: it is cancelled when the browser goes away.                  *)
(***************************************************************************)
EXTENDS Quarantine

CONSTANTS
    MayCancel,      \* a request may be cancelled while the fix runs
    CommandFails,   \* net stop and net start may fail of themselves
    MoveFails       \* a job file may refuse to move, either way

ASSUME FlagAssumption ==
    MayCancel \in BOOLEAN /\ CommandFails \in BOOLEAN /\ MoveFails \in BOOLEAN

VARIABLES
    service,     \* the print service: "running" or "stopped"
    cancelled,   \* the context of the call at work is done
    applied,     \* applied[r]: how the Apply that made r came out
    calm         \* in this behaviour requests stay connected, commands work

spoolVars == <<at, folder, moved, service, cancelled, held, listed, pc, todo,
               failed, applied, calm>>

\* The labels of Apply, then those of Rollback.
PC == {"idle",
       "stop", "quarantine", "taking", "unwinding", "start_ok", "start_err",
       "undo_stop", "restoring", "undo_start"}

\* "failed": the error says a job could not be moved; "stuck": that the jobs
\* already moved could not be put back either.
Result == {"none", "ok", "failed", "stuck"}

SpoolInit ==
    /\ QuarantineInit
    /\ service = "running"
    /\ cancelled = FALSE
    /\ held = NoRun
    /\ listed = FALSE
    /\ pc = "idle"
    /\ todo = {}
    /\ failed = {}
    /\ applied = [r \in Run |-> "none"]
    /\ calm \in BOOLEAN

CommandMayFail == CommandFails /\ ~calm

queued == {f \in File : at[f] = "home"}

\* An empty queue is refused.  The list is made while the service still runs.
SpoolApply ==
    /\ pc = "idle"
    /\ queued # {}
    /\ todo' = queued
    /\ pc' = "stop"
    /\ cancelled' = FALSE
    /\ UNCHANGED <<service, held, listed, failed, applied, calm>>
    /\ UNCHANGED quarantineVars

Stop(next) ==
    /\ service = "running"
    /\ ~cancelled
    /\ service' = "stopped"
    /\ pc' = next
    /\ UNCHANGED <<cancelled, held, listed, applied, calm>>
    /\ UNCHANGED quarantineVars

ApplyStop ==
    /\ pc = "stop"
    /\ Stop("quarantine")
    /\ UNCHANGED <<todo, failed>>

\* net stop failed, found nothing running, or was not tried because the context
\* is done.  Apply and Rollback return the error before anything is deferred.
StopFails ==
    /\ pc \in {"stop", "undo_stop"}
    /\ CommandMayFail \/ cancelled \/ service = "stopped"
    /\ pc' = "idle"
    /\ todo' = {}
    /\ UNCHANGED <<service, cancelled, held, listed, failed, applied, calm>>
    /\ UNCHANGED quarantineVars

ApplyQuarantine(r) ==
    /\ pc = "quarantine"
    /\ NewQuarantine(r)
    /\ held' = r
    /\ pc' = "taking"
    /\ failed' = {}
    /\ UNCHANGED <<service, cancelled, listed, todo, applied, calm>>

NoQuarantineNoStart ==    \* mutant: the start is deferred one return too late
    /\ pc = "quarantine"
    /\ pc' = "idle"
    /\ todo' = {}
    /\ UNCHANGED <<service, cancelled, held, listed, failed, applied, calm>>
    /\ UNCHANGED quarantineVars

\* The folder cannot be made: an error, after the deferred start.
ApplyNoQuarantine ==
    /\ pc = "quarantine"
    /\ pc' = "start_err"
    /\ todo' = {}
    /\ UNCHANGED <<service, cancelled, held, listed, failed, applied, calm>>
    /\ UNCHANGED quarantineVars

\* The file that has the path of the listed job f by now, if any has.
AtPathOf(f) == {g \in File : PathOf[g] = PathOf[f] /\ at[g] = "home"}

\* The loop does not look at the context.
TakeJob(f) ==
    /\ pc = "taking"
    /\ f \in todo
    /\ \E g \in AtPathOf(f) : Take(held, g)
    /\ todo' = todo \ {f}
    /\ UNCHANGED <<service, cancelled, held, listed, pc, failed, applied, calm>>

TakeFailsGivesUp(f) ==    \* mutant: the jobs already moved are left aside
    /\ pc = "taking"
    /\ f \in todo
    /\ MoveFails \/ AtPathOf(f) = {}
    /\ pc' = "start_err"
    /\ applied' = [applied EXCEPT ![held] = "failed"]
    /\ todo' = {}
    /\ UNCHANGED <<service, cancelled, held, listed, failed, calm>>
    /\ UNCHANGED quarantineVars

\* One job will not move: put back what was taken.
TakeFails(f) ==
    /\ pc = "taking"
    /\ f \in todo
    /\ MoveFails \/ AtPathOf(f) = {}
    /\ pc' = "unwinding"
    /\ todo' = moved[held]
    /\ UNCHANGED <<service, cancelled, held, listed, failed, applied, calm>>
    /\ UNCHANGED quarantineVars

ApplyMoved ==
    /\ pc = "taking"
    /\ todo = {}
    /\ pc' = "start_ok"
    /\ applied' = [applied EXCEPT ![held] = "ok"]
    /\ UNCHANGED <<service, cancelled, held, listed, todo, failed, calm>>
    /\ UNCHANGED quarantineVars

\* One turn of Restore, for Apply's unwinding and for Rollback.
RestoreJob(f) ==
    /\ pc \in {"unwinding", "restoring"}
    /\ f \in todo
    /\ PutBack(held, f)
    /\ todo' = todo \ {f}
    /\ UNCHANGED <<service, cancelled, held, listed, pc, failed, applied, calm>>

RestoreJobFails(f) ==
    /\ pc \in {"unwinding", "restoring"}
    /\ f \in todo
    /\ \/ /\ MoveFails \/ at[f] # folder[held]
          /\ UNCHANGED quarantineVars
       \/ MoveFails /\ PutBack(held, f)
    /\ todo' = todo \ {f}
    /\ failed' = failed \cup {f}
    /\ UNCHANGED <<service, cancelled, held, listed, pc, applied, calm>>

ApplyUnwound ==
    /\ pc = "unwinding"
    /\ todo = {}
    /\ Forget(held)
    /\ applied' = [applied EXCEPT ![held] = IF failed = {} THEN "failed" ELSE "stuck"]
    /\ held' = IF failed = {} THEN NoRun ELSE held
    /\ pc' = "start_err"
    /\ UNCHANGED <<at, folder, service, cancelled, listed, todo, failed, calm>>

\* The deferred start; its error is dropped, and with the context done the
\* command is not even tried.  The call returns, and the gate lists a fix that
\* was applied and strikes off one that was undone.
StartAndReturn ==
    /\ pc \in {"start_ok", "start_err", "undo_start"}
    /\ \/ ~cancelled /\ service' = "running"
       \/ (cancelled \/ CommandMayFail) /\ service' = service
    /\ listed' = CASE pc = "start_ok" -> TRUE
                   [] pc = "start_err" -> listed
                   [] pc = "undo_start" -> listed /\ failed # {}
    /\ pc' = "idle"
    /\ UNCHANGED <<cancelled, held, todo, failed, applied, calm>>
    /\ UNCHANGED quarantineVars

SpoolRollback ==
    /\ pc = "idle"
    /\ listed
    /\ held # NoRun
    /\ pc' = "undo_stop"
    /\ cancelled' = FALSE
    /\ UNCHANGED <<service, held, listed, todo, failed, applied, calm>>
    /\ UNCHANGED quarantineVars

\* With nothing in its field Rollback has nothing to do, and succeeds.
RollbackNothing ==
    /\ pc = "idle"
    /\ listed
    /\ held = NoRun
    /\ listed' = FALSE
    /\ UNCHANGED <<service, cancelled, held, pc, todo, failed, applied, calm>>
    /\ UNCHANGED quarantineVars

RollbackStop ==
    /\ pc = "undo_stop"
    /\ Stop("restoring")
    /\ todo' = moved[held]
    /\ failed' = {}

RollbackRestoredAnyway ==    \* mutant: the error of Restore is dropped
    /\ pc = "restoring"
    /\ todo = {}
    /\ Forget(held)
    /\ held' = NoRun
    /\ failed' = {}
    /\ pc' = "undo_start"
    /\ UNCHANGED <<at, folder, service, cancelled, listed, todo, applied, calm>>

RollbackRestored ==
    /\ pc = "restoring"
    /\ todo = {}
    /\ Forget(held)
    /\ held' = IF failed = {} THEN NoRun ELSE held
    /\ pc' = "undo_start"
    /\ UNCHANGED <<at, folder, service, cancelled, listed, todo, failed, applied, calm>>

-----------------------------------------------------------------------------
(* The users of the printer, the service, and the browser. *)

NewJob(f) ==
    /\ service = "running"
    /\ at[f] = "unborn"
    /\ Sharing(f, "home") = {}
    /\ at' = [at EXCEPT ![f] = "home"]
    /\ UNCHANGED <<folder, moved, service, cancelled, held, listed, pc, todo,
                   failed, applied, calm>>

Printed(f) ==
    /\ service = "running"
    /\ at[f] = "home"
    /\ at' = [at EXCEPT ![f] = "gone"]
    /\ UNCHANGED <<folder, moved, service, cancelled, held, listed, pc, todo,
                   failed, applied, calm>>

Cancel ==
    /\ MayCancel /\ ~calm
    /\ pc # "idle"
    /\ cancelled' = TRUE
    /\ UNCHANGED <<service, held, listed, pc, todo, failed, applied, calm>>
    /\ UNCHANGED quarantineVars

SpoolNext ==
    \/ SpoolApply \/ ApplyStop \/ StopFails
    \/ \E r \in Run : ApplyQuarantine(r)
    \/ ApplyNoQuarantine \/ ApplyMoved \/ ApplyUnwound
    \/ \E f \in File : TakeJob(f) \/ TakeFails(f) \/ RestoreJob(f) \/ RestoreJobFails(f)
    \/ SpoolRollback \/ RollbackNothing \/ RollbackStop \/ RollbackRestored
    \/ StartAndReturn
    \/ \E f \in File : NewJob(f) \/ Printed(f)
    \/ Cancel

SpoolSpec == SpoolInit /\ [][SpoolNext]_spoolVars
-----------------------------------------------------------------------------
SpoolTypeOK ==
    /\ QuarantineTypeOK
    /\ service \in {"running", "stopped"}
    /\ cancelled \in BOOLEAN
    /\ pc \in PC
    /\ applied \in [Run -> Result]
    /\ calm \in BOOLEAN

\* "A half-cleared queue is never left behind" (spooler.go:167-168): a job in a
\* holding folder is on the list of a run that did not fail, or that said it is
\* stuck; none is left there with nobody to answer for it.
QueueWhole ==
    \A f \in File : Held(f) => \E r \in Run : f \in moved[r] /\ applied[r] # "failed"

\* "It is always started again, including when the work in between fails"
\* (spooler.go:9-10): between calls the service runs.
ServiceBack == pc = "idle" => service = "running"

\* It does as long as the request stays connected and net start works, whatever
\* else fails: the listing, the folder, a move, putting back.
ServiceBackWhenCalm == calm => ServiceBack

\* While the fix has run once, it is struck off the gate's list of changes to
\* undo only with every job it ever set aside out of the holding folders.  A
\* second run that fails forgets what the first one holds (spooler.go:177, 192).
StruckOffMeansBack ==
    [][listed /\ ~listed' /\ (\E r \in Run : \A q \in Run \ {r} : Unused(q))
          => \A f \in File : at'[f] \notin Folder]_spoolVars
=============================================================================
