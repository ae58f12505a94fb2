----------------------------- MODULE Quarantine -----------------------------
(***************************************************************************)
(* The holding folders of internal/fixes/quarantine.go, and the files two  *)
(* fixes move into them and back.                                          *)
(*                                                                         *)
(* A file keeps its identity; two files may have had the same path at      *)
(* different times.  A run of a fix is one Quarantine value.  Its folder   *)
(* is named for the second it was made in, so two runs may share one.      *)
(* What a fix keeps besides, and the call at work on it, is the same in    *)
(* both fixes; TempFix and SpoolerFix say what it does.                    *)
(***************************************************************************)
EXTENDS Integers, FiniteSets

CONSTANTS
    File,      \* the files of the folder being cleared, now or later
    PathOf,    \* PathOf[f]: the path f has while it is in that folder
    Run,       \* bound: the quarantines one model run may make
    Folder,    \* the folder names the clock can give
    NoFolder, NoRun

ASSUME PathAssumption == File = DOMAIN PathOf

ASSUME NameAssumption ==
    /\ NoFolder \notin Folder /\ NoRun \notin Run
    /\ Folder \cap {"home", "unborn", "gone", "lost"} = {}

VARIABLES
    at,        \* at[f]: where f is
    folder,    \* folder[r]: Quarantine.Dir of run r
    moved,     \* moved[r]: Quarantine.moved, what r took and answers for
    held,      \* Fix.held: the run Rollback would put back
    listed,    \* the fix is on the gate's list of things applied
    pc,        \* what the call at work does next
    todo,      \* the files its loop has still to visit
    failed     \* the files its last Restore could not put back

quarantineVars == <<at, folder, moved>>

\* "home": at its path.  "unborn": not created yet.  "gone": deleted by the
\* program it belongs to.  "lost": replaced by a rename onto its path.
Place == {"home", "unborn", "gone", "lost"} \cup Folder

QuarantineTypeOK ==
    /\ at \in [File -> Place]
    /\ folder \in [Run -> Folder \cup {NoFolder}]
    /\ moved \in [Run -> SUBSET File]
    /\ held \in Run \cup {NoRun}
    /\ listed \in BOOLEAN
    /\ todo \subseteq File
    /\ failed \subseteq File

QuarantineInit ==
    /\ at \in [File -> {"home", "unborn"}]
    /\ \A f, g \in File :
          f # g /\ at[f] = "home" /\ at[g] = "home" => PathOf[f] # PathOf[g]
    /\ folder = [r \in Run |-> NoFolder]
    /\ moved = [r \in Run |-> {}]

Held(f) == at[f] \in Folder
Unused(r) == folder[r] = NoFolder

\* NewQuarantine: the folder may exist already, made by a run this very second.
NewQuarantine(r) ==
    /\ Unused(r)
    /\ \E d \in Folder : folder' = [folder EXCEPT ![r] = d]
    /\ UNCHANGED <<at, moved>>

\* Files that a rename of f to the place p would replace.
Sharing(f, p) == {g \in File \ {f} : at[g] = p /\ PathOf[g] = PathOf[f]}

\* A rename replaces what has the name.
Renamed(f, p) ==
    [g \in File |-> IF g = f THEN p
                    ELSE IF g \in Sharing(f, p) THEN "lost" ELSE at[g]]

TakeOverwriting(r, f) ==    \* mutant: the counter for a taken name is forgotten
    /\ at[f] = "home"
    /\ at' = Renamed(f, folder[r])
    /\ moved' = [moved EXCEPT ![r] = @ \cup {f}]
    /\ UNCHANGED folder

\* Quarantine.Take: destination finds a free name, so nothing is replaced.
Take(r, f) ==
    /\ at[f] = "home"
    /\ at' = [at EXCEPT ![f] = folder[r]]
    /\ moved' = [moved EXCEPT ![r] = @ \cup {f}]
    /\ UNCHANGED folder

\* One turn of Restore's loop: rename back to the path it came from.
PutBack(r, f) ==
    /\ at[f] = folder[r]
    /\ at' = Renamed(f, "home")
    /\ UNCHANGED <<folder, moved>>

\* Restore's end: the folder is removed if it is empty, and the list is emptied only when nothing failed.
Forget(r) ==
    moved' = [moved EXCEPT ![r] = IF failed = {} THEN {} ELSE @]
=============================================================================
