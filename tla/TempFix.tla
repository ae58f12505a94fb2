------------------------------ MODULE TempFix ------------------------------
(***************************************************************************)
(* temp.clear, file by file: internal/fixes/temp/temp.go.                  *)
(*                                                                         *)
(* Apply moves the aged files of the temporary directory into a new        *)
(* quarantine, Rollback moves them back.  Other programs create, delete    *)
(* and hold files open in that directory between any two moves.  The       *)
(* consent gate is seen as far as it decides which calls arrive: Apply     *)
(* whenever the user confirms one, Rollback while the fix is on the list   *)
(* of things applied.  One call runs at a time here; calls that overlap    *)
(* are in Remediate.                                                       *)
(***************************************************************************)
EXTENDS Quarantine

VARIABLES
    aged,      \* the files untouched for longer than minAge
    adrift     \* history: the files no Rollback answers for any more

fixVars == <<aged, held, listed, pc, todo, failed, adrift>>
tempVars == <<at, folder, moved, aged, held, listed, pc, todo, failed, adrift>>

TempInit ==
    /\ QuarantineInit
    /\ aged \in SUBSET {f \in File : at[f] = "home"}
    /\ held = NoRun
    /\ listed = FALSE
    /\ pc = "idle"
    /\ todo = {}
    /\ failed = {}
    /\ adrift = {}

candidates == {f \in aged : at[f] = "home"}

\* What is set aside now loses the run that answers for it.
CastOff == adrift' = adrift \cup {f \in File : Held(f)}

\* With no candidate Apply refuses and changes nothing.  The new quarantine
\* takes the place of the one an earlier run left in the field.
TempApply(r) ==
    /\ pc = "idle"
    /\ candidates # {}
    /\ NewQuarantine(r)
    /\ held' = r
    /\ pc' = "taking"
    /\ todo' = candidates
    /\ failed' = {}
    /\ CastOff
    /\ UNCHANGED <<aged, listed>>

\* candidates gave paths: whatever has the path of f by now is moved.
TakeOne(f) ==
    /\ pc = "taking"
    /\ f \in todo
    /\ \E g \in File :
          PathOf[g] = PathOf[f] /\ Take(held, g) /\ adrift' = adrift \ {g}
    /\ todo' = todo \ {f}
    /\ UNCHANGED <<aged, held, listed, pc, failed>>

\* In use, or vanished since it was listed: left where it is and counted.
LeaveOne(f) ==
    /\ pc = "taking"
    /\ f \in todo
    /\ todo' = todo \ {f}
    /\ UNCHANGED <<aged, held, listed, pc, failed, adrift>>
    /\ UNCHANGED quarantineVars

\* The gate puts a fix whose Apply returned no error on its list.
ApplyEnd ==
    /\ pc = "taking"
    /\ todo = {}
    /\ pc' = "idle"
    /\ listed' = TRUE
    /\ UNCHANGED <<aged, held, todo, failed, adrift>>
    /\ UNCHANGED quarantineVars

\* The loop sees its context is done: an error, so the gate lists nothing.
ApplyCancelled ==
    /\ pc = "taking"
    /\ todo # {}
    /\ pc' = "idle"
    /\ todo' = {}
    /\ CastOff
    /\ UNCHANGED <<aged, held, listed, failed>>
    /\ UNCHANGED quarantineVars

TempRollback ==
    /\ pc = "idle"
    /\ listed
    /\ pc' = "restoring"
    /\ todo' = moved[held]
    /\ failed' = {}
    /\ UNCHANGED <<aged, held, listed, adrift>>
    /\ UNCHANGED quarantineVars

RestoreOne(f) ==
    /\ pc = "restoring"
    /\ f \in todo
    /\ PutBack(held, f)
    /\ todo' = todo \ {f}
    /\ UNCHANGED <<aged, held, listed, pc, failed, adrift>>

\* The entry cannot be moved, is not in the folder any more, or is moved but
\* does not get its permissions back: each is a failure the loop goes on after.
RestoreFails(f) ==
    /\ pc = "restoring"
    /\ f \in todo
    /\ UNCHANGED quarantineVars \/ PutBack(held, f)
    /\ todo' = todo \ {f}
    /\ failed' = failed \cup {f}
    /\ UNCHANGED <<aged, held, listed, pc, adrift>>

RollbackEndForgetful ==    \* mutant: the error of Restore is not looked at
    /\ pc = "restoring"
    /\ todo = {}
    /\ pc' = "idle"
    /\ Forget(held)
    /\ held' = NoRun
    /\ listed' = FALSE
    /\ UNCHANGED <<at, folder, aged, todo, failed, adrift>>

\* Only a Restore without a failure clears the field and the gate's list.
RollbackEnd ==
    /\ pc = "restoring"
    /\ todo = {}
    /\ pc' = "idle"
    /\ Forget(held)
    /\ IF failed = {} THEN held' = NoRun /\ listed' = FALSE
                      ELSE UNCHANGED <<held, listed>>
    /\ UNCHANGED <<at, folder, aged, todo, failed, adrift>>

-----------------------------------------------------------------------------
(* Everything else that uses the directory, and the clock. *)

\* A program creates a file where no file is.
Create(f) ==
    /\ at[f] = "unborn"
    /\ Sharing(f, "home") = {}
    /\ at' = [at EXCEPT ![f] = "home"]
    /\ UNCHANGED <<folder, moved>>
    /\ UNCHANGED fixVars

Delete(f) ==
    /\ at[f] = "home"
    /\ at' = [at EXCEPT ![f] = "gone"]
    /\ UNCHANGED <<folder, moved>>
    /\ UNCHANGED fixVars

\* Seven days pass without a write to f.
PassMinAge(f) ==
    /\ at[f] = "home"
    /\ pc = "idle"
    /\ aged' = aged \cup {f}
    /\ UNCHANGED <<held, listed, pc, todo, failed, adrift>>
    /\ UNCHANGED quarantineVars

\* The agent's memory goes; the folders and what is in them stay.
Restart ==
    /\ held' = NoRun
    /\ listed' = FALSE
    /\ pc' = "idle"
    /\ todo' = {}
    /\ failed' = {}
    /\ moved' = [r \in Run |-> {}]
    /\ CastOff
    /\ UNCHANGED <<at, folder, aged>>

TempNext ==
    \/ \E r \in Run : TempApply(r)
    \/ \E f \in File : TakeOne(f) \/ LeaveOne(f) \/ RestoreOne(f) \/ RestoreFails(f)
    \/ ApplyEnd \/ ApplyCancelled
    \/ TempRollback \/ RollbackEnd
    \/ \E f \in File : Create(f) \/ Delete(f) \/ PassMinAge(f)
    \/ Restart

TempSpec == TempInit /\ [][TempNext]_tempVars
-----------------------------------------------------------------------------
TempTypeOK ==
    /\ QuarantineTypeOK
    /\ aged \subseteq File
    /\ pc \in {"idle", "taking", "restoring"}
    /\ adrift \subseteq File

\* A file in a holding folder leaves it for its own path or not at all: no later
\* run, even one in the same second, and no crash replaces or drops it
\* (quarantine.go:41-42, 64-66).
HeldIsKept ==
    [][\A f \in File : Held(f) => at'[f] \in {at[f], "home"}]_tempVars

\* Undo is exact: between calls a file in a holding folder is one Rollback would
\* put back, and Rollback is open to the user; and a file Rollback answers for is
\* in its folder, unless a Rollback that failed has put it back already.  Three
\* things set a file adrift instead: a run that was cancelled, a newer run, the
\* end of the agent (temp.go:196, 200-202, 231-236; quarantine.go:60-70).
UndoIsComplete ==
    pc = "idle" =>
        /\ \A f \in File \ adrift : Held(f) => listed /\ f \in moved[held]
        /\ held # NoRun /\ failed = {} => \A f \in moved[held] : at[f] = folder[held]
=============================================================================
