---------------------------- MODULE MachineProofs ----------------------------
(***************************************************************************)
(* Proofs about what meets the machine itself: the two fixes that move     *)
(* files into a quarantine, with other programs at work and whatever       *)
(* commands and moves fail, and the checks that read it, whatever its      *)
(* sources say.                                                            *)
(*                                                                         *)
(* A machine is any assignment of what the parsers can read to the sources *)
(* of a check (Machine in Collectors): there is no bound on the volumes,   *)
(* drives, events, patches or numbers.                                     *)
(***************************************************************************)
EXTENDS TempFix, SpoolerFix, CheckRun, FiniteSetTheorems, SequenceTheorems,
        WellFoundedInduction, TLAPS

-----------------------------------------------------------------------------
(* temp.clear *)

\* A folder is made before anything is moved into it, and the run that Rollback
\* would empty has one.
TempRunInv ==
    /\ \A r \in Run : Unused(r) => moved[r] = {}
    /\ held # NoRun => ~Unused(held)
    /\ listed \/ pc # "idle" => held # NoRun

\* What is set aside and not adrift is what the run in the field answers for.
TempAnswered == \A f \in File \ adrift : Held(f) => held # NoRun /\ f \in moved[held]

TempAnswerInv ==
    /\ TempAnswered
    /\ pc = "idle" => \A f \in File \ adrift : Held(f) => listed
    /\ pc = "restoring" => listed

\* A file the run answers for is in its folder, or a Restore has been at it.
TempFolderInv ==
    held # NoRun =>
        /\ pc # "restoring" /\ failed = {} => \A f \in moved[held] : at[f] = folder[held]
        /\ pc = "restoring" => \A f \in moved[held] : f \in todo \cup failed \/ ~Held(f)

TempInv == TempTypeOK /\ TempRunInv /\ TempAnswerInv /\ TempFolderInv

LEMMA TempInitInv == TempInit => TempInv
BY NameAssumption
   DEF TempInit, QuarantineInit, TempInv, TempTypeOK, QuarantineTypeOK, Place,
       TempRunInv, Unused, TempAnswerInv, TempAnswered, TempFolderInv, Held

LEMMA TempStepApply ==
    ASSUME TempInv, \/ \E r \in Run : TempApply(r)
                    \/ \E f \in File : LeaveOne(f)
                    \/ ApplyEnd \/ ApplyCancelled
    PROVE  TempInv'
<1> USE NameAssumption DEF TempInv, TempTypeOK, QuarantineTypeOK, Place, TempRunInv,
        Unused, TempAnswerInv, TempAnswered, TempFolderInv, Held, CastOff,
        quarantineVars
<1>1. ASSUME NEW r \in Run, TempApply(r) PROVE TempInv'
  BY <1>1 DEF TempApply, NewQuarantine, candidates
<1>2. ASSUME NEW f \in File, LeaveOne(f) PROVE TempInv'
  BY <1>2 DEF LeaveOne
<1>3. CASE ApplyEnd
  BY <1>3 DEF ApplyEnd
<1>4. CASE ApplyCancelled
  BY <1>4 DEF ApplyCancelled
<1> QED
  BY <1>1, <1>2, <1>3, <1>4

LEMMA TempStepTake ==
    ASSUME TempInv, NEW f \in File, TakeOne(f)
    PROVE  TempInv'
<1> USE NameAssumption DEF TempInv, TempTypeOK, QuarantineTypeOK, Place, TempRunInv,
        Unused, TempAnswerInv, TempAnswered, TempFolderInv, Held
<1>1. PICK g \in File : Take(held, g) /\ adrift' = adrift \ {g}
  BY DEF TakeOne
<1>2. /\ pc = "taking" /\ held \in Run /\ folder[held] \in Folder
      /\ UNCHANGED <<aged, held, listed, pc, failed, folder>>
  BY <1>1 DEF TakeOne, Take
<1>3. /\ at' = [at EXCEPT ![g] = folder[held]]
      /\ moved' = [moved EXCEPT ![held] = @ \cup {g}]
      /\ todo' \subseteq File
  BY <1>1 DEF TakeOne, Take
<1> QED
  BY <1>1, <1>2, <1>3

LEMMA TempStepRestore ==
    ASSUME TempInv, \/ TempRollback \/ RollbackEnd
                    \/ \E f \in File : RestoreOne(f) \/ RestoreFails(f)
    PROVE  TempInv'
<1> USE NameAssumption DEF TempInv, TempTypeOK, QuarantineTypeOK, Place, TempRunInv,
        Unused, TempAnswerInv, TempAnswered, TempFolderInv, Held, quarantineVars
<1>1. CASE TempRollback
  BY <1>1 DEF TempRollback
<1>2. CASE RollbackEnd
  BY <1>2 DEF RollbackEnd, Forget
<1>3. ASSUME NEW f \in File, RestoreOne(f) PROVE TempInv'
  BY <1>3 DEF RestoreOne, PutBack, Renamed, Sharing
<1>4. ASSUME NEW f \in File, RestoreFails(f) PROVE TempInv'
  BY <1>4 DEF RestoreFails, PutBack, Renamed, Sharing
<1> QED
  BY <1>1, <1>2, <1>3, <1>4

LEMMA TempStepOthers ==
    ASSUME TempInv, \/ \E f \in File : Create(f) \/ Delete(f) \/ PassMinAge(f)
                    \/ Restart
                    \/ UNCHANGED tempVars
    PROVE  TempInv'
<1> USE NameAssumption DEF TempInv, TempTypeOK, QuarantineTypeOK, Place, TempRunInv,
        Unused, TempAnswerInv, TempAnswered, TempFolderInv, Held, CastOff,
        quarantineVars, fixVars
<1>1. ASSUME NEW f \in File, Create(f) PROVE TempInv'
  BY <1>1 DEF Create
<1>2. ASSUME NEW f \in File, Delete(f) PROVE TempInv'
  BY <1>2 DEF Delete
<1>3. ASSUME NEW f \in File, PassMinAge(f) PROVE TempInv'
  BY <1>3 DEF PassMinAge
<1>4. CASE Restart
  BY <1>4 DEF Restart
<1>5. CASE UNCHANGED tempVars
  BY <1>5 DEF tempVars
<1> QED
  BY <1>1, <1>2, <1>3, <1>4, <1>5

LEMMA TempStepInv == TempInv /\ [TempNext]_tempVars => TempInv'
BY TempStepApply, TempStepTake, TempStepRestore, TempStepOthers DEF TempNext

LEMMA TempInvAlways == TempSpec => []TempInv
BY TempInitInv, TempStepInv, PTL DEF TempSpec

\* Undo is exact but for the three named events: between calls what is set aside is
\* what Rollback puts back, and Rollback is open (temp.go:196, 200-202, 231-236).
THEOREM UndoComplete == TempSpec => []UndoIsComplete
<1>1. TempInv => UndoIsComplete
  BY DEF TempInv, TempAnswerInv, TempAnswered, TempFolderInv, UndoIsComplete
<1> QED
  BY <1>1, TempInvAlways, PTL

LEMMA TempStepKept ==
    ASSUME TempTypeOK, [TempNext]_tempVars, NEW f \in File, Held(f)
    PROVE  at'[f] \in {at[f], "home"}
<1> USE NameAssumption DEF TempTypeOK, QuarantineTypeOK, Held, quarantineVars, fixVars
<1>1. ASSUME NEW g \in File, NEW r, Take(r, g) PROVE at'[f] = at[f]
  BY <1>1 DEF Take
<1>2. ASSUME NEW g \in File, NEW r, PutBack(r, g) PROVE at'[f] \in {at[f], "home"}
  BY <1>2 DEF PutBack, Renamed, Sharing
<1>3. ASSUME NEW g \in File, TakeOne(g) \/ RestoreOne(g) \/ RestoreFails(g)
      PROVE  at'[f] \in {at[f], "home"}
  BY <1>1, <1>2, <1>3 DEF TakeOne, RestoreOne, RestoreFails
<1>4. ASSUME NEW g \in File, Create(g) \/ Delete(g) PROVE at'[f] = at[f]
  BY <1>4 DEF Create, Delete
<1>5. CASE \/ \E g \in File : LeaveOne(g) \/ PassMinAge(g)
           \/ \E r \in Run : TempApply(r)
           \/ ApplyEnd \/ ApplyCancelled \/ TempRollback \/ RollbackEnd
           \/ Restart \/ UNCHANGED tempVars
  BY <1>5 DEF LeaveOne, PassMinAge, TempApply, NewQuarantine, ApplyEnd, ApplyCancelled,
              TempRollback, RollbackEnd, Restart, tempVars
<1> QED
  BY <1>3, <1>4, <1>5 DEF TempNext

\* What is in a holding folder leaves it for its own path or not at all, whatever
\* runs share the folder and wherever the agent ends (quarantine.go:41-42, 64-66).
THEOREM HeldKept == TempSpec => HeldIsKept
<1>1. TempInv /\ [TempNext]_tempVars
      => [\A f \in File : Held(f) => at'[f] \in {at[f], "home"}]_tempVars
  BY TempStepKept DEF TempInv
<1> QED
  BY <1>1, TempInvAlways, PTL DEF TempSpec, HeldIsKept
-----------------------------------------------------------------------------
(* print.clear-spooler *)

SpoolAtWork == pc \in {"taking", "unwinding", "restoring"}

\* A run begins with a folder and an empty list; the field names one that did not
\* fail, and while jobs move it names one.
SpoolRunInv ==
    /\ \A r \in Run : Unused(r) => moved[r] = {} /\ applied[r] = "none"
    /\ held # NoRun => ~Unused(held) /\ applied[held] # "failed"
    /\ SpoolAtWork \/ pc = "undo_stop" => held # NoRun
    /\ pc = "undo_start" /\ failed = {} => held = NoRun

\* While Restore runs, a job on its list is still to be tried, has failed, or is back.
SpoolRestoreInv ==
    pc \in {"unwinding", "restoring"} =>
        \A f \in moved[held] : f \in todo \cup failed \/ ~Held(f)

\* A list that is neither empty nor the one in the field is of one run among several.
SpoolFieldInv ==
    \A r \in Run : moved[r] # {} /\ r # held => \E q \in Run \ {r} : ~Unused(q)

SpoolServiceInv ==
    calm => /\ ~cancelled
            /\ pc \in {"idle", "stop", "undo_stop"} => service = "running"

SpoolInv ==
    /\ SpoolTypeOK /\ QueueWhole
    /\ SpoolRunInv /\ SpoolRestoreInv /\ SpoolFieldInv /\ SpoolServiceInv

LEMMA SpoolInitInv == SpoolInit => SpoolInv
BY NameAssumption
   DEF SpoolInit, QuarantineInit, SpoolInv, SpoolTypeOK, QuarantineTypeOK, Place, PC,
       Result, SpoolRunInv, Unused, SpoolAtWork, SpoolRestoreInv, SpoolFieldInv,
       SpoolServiceInv, QueueWhole, Held

\* Steps that move no job and touch no list.
LEMMA SpoolStepStill ==
    ASSUME SpoolInv,
           \/ SpoolApply \/ ApplyStop \/ StopFails
           \/ ApplyNoQuarantine \/ ApplyMoved
           \/ SpoolRollback \/ RollbackNothing \/ RollbackStop
           \/ StartAndReturn \/ Cancel \/ UNCHANGED spoolVars
    PROVE  SpoolInv'
<1> USE NameAssumption DEF SpoolInv, SpoolTypeOK, QuarantineTypeOK, Place, PC, Result,
        SpoolRunInv, Unused, SpoolAtWork, SpoolRestoreInv, SpoolFieldInv,
        SpoolServiceInv, QueueWhole, Held, quarantineVars
<1>1. CASE SpoolApply
  BY <1>1 DEF SpoolApply, queued
<1>2. CASE ApplyStop
  BY <1>2 DEF ApplyStop, Stop
<1>3. CASE StopFails
  BY <1>3 DEF StopFails, CommandMayFail
<1>4. CASE ApplyNoQuarantine
  BY <1>4 DEF ApplyNoQuarantine
<1>5. CASE ApplyMoved
  BY <1>5 DEF ApplyMoved
<1>6. CASE SpoolRollback
  BY <1>6 DEF SpoolRollback
<1>7. CASE RollbackNothing
  BY <1>7 DEF RollbackNothing
<1>8. CASE RollbackStop
  BY <1>8 DEF RollbackStop, Stop
<1>9. CASE StartAndReturn
  BY <1>9 DEF StartAndReturn, CommandMayFail
<1>10. CASE Cancel
  BY <1>10 DEF Cancel
<1>11. CASE UNCHANGED spoolVars
  BY <1>11 DEF spoolVars
<1> QED
  BY <1>1, <1>2, <1>3, <1>4, <1>5, <1>6, <1>7, <1>8, <1>9, <1>10, <1>11

LEMMA SpoolStepTake ==
    ASSUME SpoolInv, \/ \E r \in Run : ApplyQuarantine(r)
                     \/ \E f \in File : TakeJob(f) \/ TakeFails(f)
    PROVE  SpoolInv'
<1> USE NameAssumption DEF SpoolInv, SpoolTypeOK, QuarantineTypeOK, Place, PC, Result,
        SpoolRunInv, Unused, SpoolAtWork, SpoolRestoreInv, SpoolFieldInv,
        SpoolServiceInv, QueueWhole, Held, quarantineVars
<1>1. ASSUME NEW r \in Run, ApplyQuarantine(r) PROVE SpoolInv'
  BY <1>1 DEF ApplyQuarantine, NewQuarantine
<1>2. ASSUME NEW f \in File, TakeFails(f) PROVE SpoolInv'
  BY <1>2 DEF TakeFails
<1>3. ASSUME NEW f \in File, TakeJob(f) PROVE SpoolInv'
  <2>1. PICK g \in File : Take(held, g)
    BY <1>3 DEF TakeJob, AtPathOf
  <2> QED
    BY <1>3, <2>1 DEF TakeJob, Take
<1> QED
  BY <1>1, <1>2, <1>3

LEMMA SpoolStepRestore ==
    ASSUME SpoolInv, \/ \E f \in File : RestoreJob(f) \/ RestoreJobFails(f)
                     \/ ApplyUnwound \/ RollbackRestored
    PROVE  SpoolInv'
<1> USE NameAssumption DEF SpoolInv, SpoolTypeOK, QuarantineTypeOK, Place, PC, Result,
        SpoolRunInv, Unused, SpoolAtWork, SpoolRestoreInv, SpoolFieldInv,
        SpoolServiceInv, QueueWhole, Held, quarantineVars
<1>1. ASSUME NEW f \in File, RestoreJob(f) PROVE SpoolInv'
  BY <1>1 DEF RestoreJob, PutBack, Renamed, Sharing
<1>2. ASSUME NEW f \in File, RestoreJobFails(f) PROVE SpoolInv'
  BY <1>2 DEF RestoreJobFails, PutBack, Renamed, Sharing
<1>3. CASE ApplyUnwound
  BY <1>3 DEF ApplyUnwound, Forget
<1>4. CASE RollbackRestored
  BY <1>4 DEF RollbackRestored, Forget
<1> QED
  BY <1>1, <1>2, <1>3, <1>4

LEMMA SpoolStepJobs ==
    ASSUME SpoolInv, NEW f \in File, NewJob(f) \/ Printed(f)
    PROVE  SpoolInv'
BY NameAssumption
   DEF SpoolInv, SpoolTypeOK, QuarantineTypeOK, Place, PC, Result, SpoolRunInv, Unused,
       SpoolAtWork, SpoolRestoreInv, SpoolFieldInv, SpoolServiceInv, QueueWhole, Held,
       NewJob, Printed

LEMMA SpoolStepInv == SpoolInv /\ [SpoolNext]_spoolVars => SpoolInv'
BY SpoolStepStill, SpoolStepTake, SpoolStepRestore, SpoolStepJobs DEF SpoolNext

LEMMA SpoolInvAlways == SpoolSpec => []SpoolInv
BY SpoolInitInv, SpoolStepInv, PTL DEF SpoolSpec

\* No job is left in a holding folder with no run to answer for it, whatever fails
\* and whenever (spooler.go:166-179).
THEOREM QueueIsWhole == SpoolSpec => []QueueWhole
BY SpoolInvAlways, PTL DEF SpoolInv

\* While requests stay connected and commands work the print service runs between
\* calls, whatever else fails (spooler.go:155-160).
THEOREM ServiceIsBack == SpoolSpec => []ServiceBackWhenCalm
<1>1. SpoolInv => ServiceBackWhenCalm
  BY DEF SpoolInv, SpoolServiceInv, ServiceBackWhenCalm, ServiceBack
<1> QED
  BY <1>1, SpoolInvAlways, PTL

\* With one run the field alone answers for what is set aside.
LEMMA SpoolOneRun ==
    ASSUME SpoolInv, held = NoRun, NEW r \in Run, \A q \in Run \ {r} : Unused(q)
    PROVE  \A f \in File : at[f] \notin Folder
<1>1. \A q \in Run : moved[q] # {} => q = r
  BY DEF SpoolInv, SpoolRunInv
<1>2. moved[r] = {}
  BY NameAssumption DEF SpoolInv, SpoolFieldInv
<1> QED
  BY <1>1, <1>2 DEF SpoolInv, QueueWhole, Held

LEMMA SpoolStepStruckOff ==
    ASSUME SpoolInv, [SpoolNext]_spoolVars, listed, ~listed',
           NEW r \in Run, \A q \in Run \ {r} : Unused(q)
    PROVE  \A f \in File : at'[f] \notin Folder
<1>1. CASE RollbackNothing
  BY <1>1, SpoolOneRun DEF RollbackNothing, quarantineVars
<1>2. CASE StartAndReturn
  <2>1. pc = "undo_start" /\ failed = {} /\ UNCHANGED at
    BY <1>2 DEF StartAndReturn, quarantineVars
  <2> QED
    BY <2>1, SpoolOneRun DEF SpoolInv, SpoolRunInv
<1>3. RollbackNothing \/ StartAndReturn
  BY DEF SpoolNext, spoolVars, SpoolApply, ApplyStop, Stop, StopFails, ApplyQuarantine,
         ApplyNoQuarantine, ApplyMoved, ApplyUnwound, TakeJob, TakeFails, RestoreJob,
         RestoreJobFails, SpoolRollback, RollbackStop, RollbackRestored, NewJob,
         Printed, Cancel
<1> QED
  BY <1>1, <1>2, <1>3

\* While the fix has run once, the gate strikes it off only with every job out of the
\* holding folders (remediate.go:321-333, spooler.go:188-211).
THEOREM StruckOff == SpoolSpec => StruckOffMeansBack
<1>1. SpoolInv /\ [SpoolNext]_spoolVars
      => [listed /\ ~listed' /\ (\E r \in Run : \A q \in Run \ {r} : Unused(q))
          => \A f \in File : at'[f] \notin Folder]_spoolVars
  BY SpoolStepStruckOff
<1> QED
  BY <1>1, SpoolInvAlways, PTL DEF SpoolSpec, StruckOffMeansBack

-----------------------------------------------------------------------------
(* Numbers, and what is kept of a sequence.  The library's induction         *)
(* theorems take an operator; here a set of numbers stands for it.           *)

Less == {p \in Nat \X Nat : p[1] < p[2]}

\* Less than is well-founded on the natural numbers.
LEMMA LessWF == IsWellFoundedOn(Less, Nat)
BY NatLessThanWellFounded DEF OpToRel, Less, IsWellFoundedOn

\* A set of natural numbers that is not empty has a least one, which is its minimum.
LEMMA Least ==
    ASSUME NEW S, S \subseteq Nat, S # {}
    PROVE  Min(S) \in S /\ \A m \in S : Min(S) <= m
<1>1. PICK n \in S : \A m \in S : <<m, n>> \notin Less
  BY WFMin, LessWF
<1>2. ASSUME NEW m \in S PROVE n <= m
  <2>1. m \in Nat /\ n \in Nat
    OBVIOUS
  <2>2. <<m, n>> \in Nat \X Nat
    BY <2>1
  <2>3. ~(m < n)
    BY <1>1, <2>2 DEF Less
  <2> QED
    BY <2>1, <2>3
<1> QED
  BY <1>2 DEF Min

\* A bounded one has a greatest.
LEMMA Greatest ==
    ASSUME NEW S, S \subseteq Nat, S # {}, NEW N \in Nat, \A m \in S : m <= N
    PROVE  Max(S) \in S /\ \A m \in S : m <= Max(S)
<1> DEFINE T == {N - m : m \in S}
<1>1. T \subseteq Nat /\ T # {}
  <2>1. ASSUME NEW m \in S PROVE N - m \in Nat
    <3>1. m \in Nat /\ m <= N
      OBVIOUS
    <3> QED
      BY <3>1
  <2>2. PICK m \in S : TRUE
    OBVIOUS
  <2>3. N - m \in T
    BY <2>2
  <2> QED
    BY <2>1, <2>3
<1>2. PICK t \in T : \A u \in T : t <= u
  <2> HIDE DEF T
  <2> QED
    BY <1>1, Least
<1>3. PICK n \in S : t = N - n
  BY <1>2
<1>4. ASSUME NEW m \in S PROVE m <= n
  <2>1. N - n <= N - m
    BY <1>2, <1>3
  <2>2. m \in Nat /\ n \in Nat
    OBVIOUS
  <2> QED
    BY <2>1, <2>2
<1>5. n \in S /\ \A m \in S : n >= m
  BY <1>4
<1> QED
  BY <1>5 DEF Max

\* Of two numbers, the greater or the smaller is one of them.
LEMMA OfTwo ==
    ASSUME NEW i \in Int, NEW j \in Int
    PROVE  /\ Min({i, j}) = IF i <= j THEN i ELSE j
           /\ Max({i, j}) = IF i >= j THEN i ELSE j
<1>1. Min({i, j}) = IF i <= j THEN i ELSE j
  <2>1. \A x \in {i, j} : (\A y \in {i, j} : x <= y) => x = IF i <= j THEN i ELSE j
    OBVIOUS
  <2>2. \E x \in {i, j} : \A y \in {i, j} : x <= y
    OBVIOUS
  <2> QED
    BY <2>1, <2>2 DEF Min
<1>2. Max({i, j}) = IF i >= j THEN i ELSE j
  <2>1. \A x \in {i, j} : (\A y \in {i, j} : x >= y) => x = IF i >= j THEN i ELSE j
    OBVIOUS
  <2>2. \E x \in {i, j} : \A y \in {i, j} : x >= y
    OBVIOUS
  <2> QED
    BY <2>1, <2>2 DEF Max
<1> QED
  BY <1>1, <1>2

\* Places in a sequence can be counted.
LEMMA Places ==
    ASSUME NEW n \in Nat, NEW P, P \subseteq 1..n
    PROVE  IsFiniteSet(P) /\ Cardinality(P) \in Nat /\ Cardinality(P) <= n
<1>1. IsFiniteSet(1..n) /\ Cardinality(1..n) = n
  <2>1. IsFiniteSet(1..n) /\ Cardinality(1..n) = IF 1 > n THEN 0 ELSE n - 1 + 1
    BY FS_Interval
  <2> QED
    BY <2>1
<1> QED
  BY <1>1, FS_Subset, FS_CardinalityType

\* Induction up to a number, over the set of those for which something holds.
LEMMA Induct ==
    ASSUME NEW N \in Nat, NEW P, 0 \in P, \A n \in 0..N : n # N /\ n \in P => n + 1 \in P
    PROVE  \A n \in 0..N : n \in P
<1> DEFINE S == {n \in 0..N : n \notin P}
<1>1. CASE S = {}
  BY <1>1
<1>2. CASE S # {}
  <2>1. S \subseteq Nat
    OBVIOUS
  <2>2. PICK n \in S : \A m \in S : n <= m
    <3> HIDE DEF S
    <3> QED
      BY <1>2, <2>1, Least
  <2>3. n \in 0..N /\ n # 0 /\ n \notin P
    BY <2>2
  <2>4. n - 1 \in 0..N /\ n - 1 # N /\ (n - 1) + 1 = n
    BY <2>3
  <2>5. n - 1 \in P
    BY <2>2, <2>4
  <2>6. n \in P
    BY <2>4, <2>5
  <2> QED
    BY <2>3, <2>6
<1> QED
  BY <1>1, <1>2

\* A number up to the next.
LEMMA NextUp ==
    ASSUME NEW N \in Nat, NEW n \in 0..N, n # N
    PROVE  /\ n + 1 \in 0..N /\ n + 1 \in 1..N /\ n + 1 # 0 /\ (n + 1) - 1 = n
           /\ \A i : i \in 1..n + 1 <=> i \in 1..n \/ i = n + 1
OBVIOUS

\* The elements kept of the first N: what Kept computes, told without it.
KeptUpTo(f, s, places, N) ==
    f = [n \in 0..N |->
          IF n = 0 THEN <<>>
          ELSE IF n \in places THEN Append(f[n - 1], s[n]) ELSE f[n - 1]]

\* The sum of the first N: what parseWindowsRAM computes.
SumUpTo(f, rows, N) ==
    f = [n \in 0..N |-> IF n = 0 THEN 0 ELSE f[n - 1] + rows[n]]

\* There are such functions, which is why both are ones.
LEMMA KeptExists ==
    ASSUME NEW s, NEW places, NEW N \in Nat
    PROVE  \E f : KeptUpTo(f, s, places, N)
<1> DEFINE P == {n \in 0..N : \E f : KeptUpTo(f, s, places, n)}
<1>1. 0 \in P
  <2>1. PICK f : f = [n \in 0..0 |-> <<>>]
    OBVIOUS
  <2>2. KeptUpTo(f, s, places, 0)
    BY <2>1 DEF KeptUpTo
  <2> QED
    BY <2>2
<1>2. ASSUME NEW n \in 0..N, n # N, n \in P PROVE n + 1 \in P
  <2>1. PICK f : KeptUpTo(f, s, places, n)
    BY <1>2
  <2> DEFINE last == IF n + 1 \in places THEN Append(f[n], s[n + 1]) ELSE f[n]
             g == [m \in 0..n + 1 |-> IF m = n + 1 THEN last ELSE f[m]]
  <2>2. \A m \in 0..n : f[m] = IF m = 0 THEN <<>>
                               ELSE IF m \in places THEN Append(f[m - 1], s[m]) ELSE f[m - 1]
    BY <2>1 DEF KeptUpTo
  <2>3. ASSUME NEW m \in 0..n + 1
        PROVE  g[m] = IF m = 0 THEN <<>>
                      ELSE IF m \in places THEN Append(g[m - 1], s[m]) ELSE g[m - 1]
    <3>1. CASE m = n + 1
      <4>1. n \in 0..n + 1 /\ n # n + 1 /\ m - 1 = n /\ m # 0
        BY <3>1
      <4>2. g[m] = last /\ g[m - 1] = f[n]
        BY <3>1, <4>1
      <4> QED
        BY <3>1, <4>1, <4>2
    <3>2. CASE m = 0
      <4>1. m # n + 1 /\ m \in 0..n
        BY <3>2
      <4>2. g[m] = f[m]
        BY <4>1
      <4> QED
        BY <2>2, <3>2, <4>1, <4>2
    <3>3. CASE m \in 1..n
      <4>1. m \in 0..n /\ m - 1 \in 0..n /\ m - 1 \in 0..n + 1 /\ m # n + 1 /\ m - 1 # n + 1 /\
            m # 0
        BY <3>3
      <4>2. g[m] = f[m] /\ g[m - 1] = f[m - 1]
        BY <4>1
      <4> QED
        BY <2>2, <4>1, <4>2
    <3> QED
      BY <3>1, <3>2, <3>3
  <2>4. g = [m \in 0..n + 1 |->
              IF m = 0 THEN <<>>
              ELSE IF m \in places THEN Append(g[m - 1], s[m]) ELSE g[m - 1]]
    <3>1. g = [m \in 0..n + 1 |-> g[m]]
      OBVIOUS
    <3> HIDE DEF g
    <3> QED
      BY <2>3, <3>1
  <2>5. KeptUpTo(g, s, places, n + 1)
    BY <2>4 DEF KeptUpTo
  <2> HIDE DEF g
  <2> QED
    BY <1>2, <2>5, NextUp
<1>3. \A n \in 0..N : n \in P
  <2> HIDE DEF P
  <2> QED
    BY <1>1, <1>2, Induct
<1> QED
  BY <1>3

\* The sums of the first elements of a sequence, one by one.
LEMMA SumExists ==
    ASSUME NEW rows, NEW N \in Nat
    PROVE  \E f : SumUpTo(f, rows, N)
<1> DEFINE P == {n \in 0..N : \E f : SumUpTo(f, rows, n)}
<1>1. 0 \in P
  <2>1. PICK f : f = [n \in 0..0 |-> 0]
    OBVIOUS
  <2>2. SumUpTo(f, rows, 0)
    BY <2>1 DEF SumUpTo
  <2> QED
    BY <2>2
<1>2. ASSUME NEW n \in 0..N, n # N, n \in P PROVE n + 1 \in P
  <2>1. PICK f : SumUpTo(f, rows, n)
    BY <1>2
  <2> DEFINE g == [m \in 0..n + 1 |-> IF m = n + 1 THEN f[n] + rows[n + 1] ELSE f[m]]
  <2>2. \A m \in 0..n : f[m] = IF m = 0 THEN 0 ELSE f[m - 1] + rows[m]
    BY <2>1 DEF SumUpTo
  <2>3. ASSUME NEW m \in 0..n + 1
        PROVE  g[m] = IF m = 0 THEN 0 ELSE g[m - 1] + rows[m]
    <3>1. CASE m = n + 1
      <4>1. n \in 0..n + 1 /\ n # n + 1 /\ m - 1 = n /\ m # 0
        BY <3>1
      <4>2. g[m] = f[n] + rows[n + 1] /\ g[m - 1] = f[n]
        BY <3>1, <4>1
      <4> QED
        BY <3>1, <4>1, <4>2
    <3>2. CASE m = 0
      <4>1. m # n + 1 /\ m \in 0..n
        BY <3>2
      <4>2. g[m] = f[m]
        BY <4>1
      <4> QED
        BY <2>2, <3>2, <4>1, <4>2
    <3>3. CASE m \in 1..n
      <4>1. m \in 0..n /\ m - 1 \in 0..n /\ m - 1 \in 0..n + 1 /\ m # n + 1 /\ m - 1 # n + 1 /\
            m # 0
        BY <3>3
      <4>2. g[m] = f[m] /\ g[m - 1] = f[m - 1]
        BY <4>1
      <4> QED
        BY <2>2, <4>1, <4>2
    <3> QED
      BY <3>1, <3>2, <3>3
  <2>4. g = [m \in 0..n + 1 |-> IF m = 0 THEN 0 ELSE g[m - 1] + rows[m]]
    <3>1. g = [m \in 0..n + 1 |-> g[m]]
      OBVIOUS
    <3> HIDE DEF g
    <3> QED
      BY <2>3, <3>1
  <2>5. SumUpTo(g, rows, n + 1)
    BY <2>4 DEF SumUpTo
  <2> HIDE DEF g
  <2> QED
    BY <1>2, <2>5, NextUp
<1>3. \A n \in 0..N : n \in P
  <2> HIDE DEF P
  <2> QED
    BY <1>1, <1>2, Induct
<1> QED
  BY <1>3

\* What is kept of a sequence are elements of it at the places that were asked for.
LEMMA KeptHolds ==
    ASSUME NEW S, NEW s \in Seq(S), NEW places
    PROVE  Kept(s, places) \in Seq({s[i] : i \in places \cap (1..Len(s))})
<1>0. Len(s) \in Nat
  OBVIOUS
<1> DEFINE T == {s[i] : i \in places \cap (1..Len(s))}
           upTo == CHOOSE f : KeptUpTo(f, s, places, Len(s))
<1>1. KeptUpTo(upTo, s, places, Len(s))
  BY <1>0, KeptExists
<1>2. Kept(s, places) = upTo[Len(s)]
  BY DEF Kept, KeptUpTo
<1> HIDE DEF upTo
<1>3. \A n \in 0..Len(s) :
        upTo[n] = IF n = 0 THEN <<>>
                  ELSE IF n \in places THEN Append(upTo[n - 1], s[n]) ELSE upTo[n - 1]
  BY <1>1 DEF KeptUpTo
<1> DEFINE P == {n \in 0..Len(s) : upTo[n] \in Seq(T)}
<1>4. 0 \in P
  <2> HIDE DEF T
  <2>1. upTo[0] = <<>>
    BY <1>0, <1>3
  <2>2. upTo[0] \in Seq(T)
    BY <2>1, EmptySeq
  <2> QED
    BY <1>0, <2>2
<1>5. ASSUME NEW n \in 0..Len(s), n # Len(s), n \in P PROVE n + 1 \in P
  <2>1. n + 1 \in 0..Len(s) /\ n + 1 \in 1..Len(s) /\ n + 1 # 0 /\ (n + 1) - 1 = n
    BY <1>0, <1>5, NextUp
  <2>2. CASE n + 1 \in places
    <3>1. upTo[n + 1] = Append(upTo[n], s[n + 1])
      BY <1>3, <2>1, <2>2
    <3>2. s[n + 1] \in T
      BY <2>1, <2>2
    <3> HIDE DEF T
    <3>3. upTo[n] \in Seq(T)
      BY <1>5
    <3>4. Append(upTo[n], s[n + 1]) \in Seq(T)
      BY <3>2, <3>3, AppendProperties
    <3> QED
      BY <2>1, <3>1, <3>4
  <2>3. CASE n + 1 \notin places
    <3>1. upTo[n + 1] = upTo[n]
      BY <1>3, <2>1, <2>3
    <3> HIDE DEF T
    <3> QED
      BY <1>5, <2>1, <3>1
  <2> QED
    BY <2>2, <2>3
<1>6. \A n \in 0..Len(s) : n \in P
  <2> HIDE DEF P
  <2> QED
    BY <1>0, <1>4, <1>5, Induct
<1> QED
  BY <1>0, <1>2, <1>6

\* The total of the modules a machine reports is a number.
LEMMA SumHolds ==
    ASSUME NEW rows \in Seq(Nat)
    PROVE  parseWindowsRAM(rows) \in Nat
<1>0. Len(rows) \in Nat
  OBVIOUS
<1> DEFINE sum == CHOOSE f : SumUpTo(f, rows, Len(rows))
<1>1. SumUpTo(sum, rows, Len(rows))
  BY <1>0, SumExists
<1>2. parseWindowsRAM(rows) = sum[Len(rows)]
  BY DEF parseWindowsRAM, SumUpTo
<1> HIDE DEF sum
<1>3. \A n \in 0..Len(rows) : sum[n] = IF n = 0 THEN 0 ELSE sum[n - 1] + rows[n]
  BY <1>1 DEF SumUpTo
<1> DEFINE P == {n \in 0..Len(rows) : sum[n] \in Nat}
<1>4. 0 \in P
  BY <1>0, <1>3
<1>5. ASSUME NEW n \in 0..Len(rows), n # Len(rows), n \in P PROVE n + 1 \in P
  <2>1. n + 1 \in 0..Len(rows) /\ n + 1 \in 1..Len(rows) /\ n + 1 # 0 /\ (n + 1) - 1 = n
    BY <1>0, <1>5, NextUp
  <2>2. sum[n + 1] = sum[n] + rows[n + 1]
    BY <1>3, <2>1
  <2>3. rows[n + 1] \in Nat
    BY <2>1
  <2> QED
    BY <1>5, <2>1, <2>2, <2>3
<1>6. \A n \in 0..Len(rows) : n \in P
  <2> HIDE DEF P
  <2> QED
    BY <1>0, <1>4, <1>5, Induct
<1> QED
  BY <1>0, <1>2, <1>6

-----------------------------------------------------------------------------
(* Every collector reads what its check judges.                              *)

Answers(T) == [err : {"no", "missing", "failed"}, out : T \cup {None, Garbled}]

\* Running a tool, or reading a file, of which the parser reads T.
LEMMA Ran ==
    ASSUME NEW T, NEW source \in Source(T)
    PROVE  run(source) \in Answers(T) /\ (run(source).err = "missing" => run(source).out = None)
BY DEF Source, Answers, run

\* A reading, or an error and no reading.
Reads(r, F) == IF r.err = "no" THEN r.f \in F ELSE r.f = None

\* An error is no reading, and what is got is one.
LEMMA ReadsSome ==
    ASSUME NEW F, NEW err, err # "no"
    PROVE  /\ Reads(Fail(err), F) /\ Reads(NoFile, F)
           /\ \A f \in F : Reads(Got(f), F)
BY DEF Reads, Fail, NoFile, Got

\* What a text says is a sequence of its lines.
LEMMA LinesOf ==
    ASSUME NEW T, NEW out \in Seq(T) \cup {None, Garbled}
    PROVE  Lines(out) \in Seq(T)
BY EmptySeq DEF Lines

\* So is what is read of a text or a table.
LEMMA TextOf ==
    ASSUME NEW T, NEW a \in Answers(Seq(T))
    PROVE  Reads(Text(a), Seq(T)) /\ Reads(Unmarshal(a), Seq(T))
<1>1. Lines(a.out) \in Seq(T)
  BY LinesOf DEF Answers
<1> QED
  BY <1>1 DEF Answers, Text, Unmarshal, Reads, Fail, NoFile, Got

\* A sequence that is mapped has the length it had.
LEMMA Mapped ==
    ASSUME NEW S, NEW T, NEW s \in Seq(S), NEW f \in [DOMAIN s -> T]
    PROVE  f \in Seq(T) /\ Len(f) = Len(s) /\ DOMAIN f = DOMAIN s
<1>1. Len(s) \in Nat /\ DOMAIN s = 1..Len(s)
  BY LenProperties
<1>2. f \in [1..Len(s) -> T]
  BY <1>1
<1>3. f \in Seq(T)
  BY <1>1, <1>2, IsASeq
<1>4. Len(f) = Len(s)
  BY <1>1, <1>2, <1>3, LenProperties
<1> QED
  BY <1>1, <1>2, <1>3, <1>4

Sized == {v \in Volume : v.blocks \in Nat \ {0}}

\* A share of a whole that is not zero is a number.
LEMMA Shares ==
    ASSUME NEW part \in Nat, NEW whole \in Nat \ {0}
    PROVE  Percent(part, whole) \in Nat
<1>1. 100 * part \in Nat
  OBVIOUS
<1> HIDE DEF Percent
<1>2. \A x \in Nat, y \in Nat \ {0} : x \div y \in Nat
  OBVIOUS
<1> QED
  BY <1>1, <1>2 DEF Percent

\* Volumes with a size have free shares.
LEMMA FreeOf ==
    ASSUME NEW s \in Seq(Sized)
    PROVE  Map(s, FreePercent) \in Seq(Nat)
<1> DEFINE f == Map(s, FreePercent)
<1>1. ASSUME NEW i \in DOMAIN s PROVE FreePercent(s[i]) \in Nat
  <2>1. s[i] \in Sized
    BY LenProperties
  <2>2. s[i].avail \in Nat /\ s[i].blocks \in Nat \ {0}
    BY <2>1 DEF Sized, Volume
  <2> QED
    BY <2>2, Shares DEF FreePercent
<1>2. f \in [DOMAIN s -> Nat]
  BY <1>1 DEF Map
<1> HIDE DEF f
<1> QED
  BY <1>2, Mapped DEF f

\* The volumes that are kept have a size.
LEMMA KeptSized ==
    ASSUME NEW s \in Seq(Volume), NEW P, \A i \in P \cap (1..Len(s)) : s[i].blocks \in Nat \ {0}
    PROVE  Kept(s, P) \in Seq(Sized)
<1>1. {s[i] : i \in P \cap (1..Len(s))} \subseteq Sized
  BY DEF Sized
<1>2. \A T : T \subseteq Sized => Seq(T) \subseteq Seq(Sized)
  OBVIOUS
<1> QED
  BY <1>1, <1>2, KeptHolds

\* The volumes of a Linux machine (storage/collect_linux.go).
LEMMA LinuxVolumesRead ==
    ASSUME NEW a, a.mounts \in Answers(Seq(Volume))
    PROVE  Reads(linuxVolumes(a), Seq(Nat))
<1> DEFINE found == Lines(a.mounts.out)
           real == {i \in DOMAIN found : isRealFilesystem(found[i]) /\
               found[i].blocks \notin {None, 0}}
           first == {i \in real : \A j \in real : j < i => found[j].device # found[i].device}
<1>1. found \in Seq(Volume)
  BY LinesOf DEF Answers
<1>2. Kept(found, first) \in Seq(Sized)
  <2>1. ASSUME NEW i \in first PROVE found[i].blocks \in Nat \ {0}
    <3>1. i \in DOMAIN found /\ found[i].blocks \notin {None, 0}
      OBVIOUS
    <3> HIDE DEF found
    <3>2. found[i] \in Volume
      BY <1>1, <3>1, LenProperties
    <3> QED
      BY <3>1, <3>2 DEF Volume
  <2> HIDE DEF found, first
  <2> QED
    BY <1>1, <2>1, KeptSized
<1>3. Map(Kept(found, first), FreePercent) \in Seq(Nat)
  <2> HIDE DEF found, first
  <2> QED
    BY <1>2, FreeOf
<1> QED
  BY <1>3 DEF linuxVolumes, Reads, Fail, NoFile, Got

\* The volumes of a Mac (storage/collect_darwin.go).
LEMMA DarwinVolumesRead ==
    ASSUME NEW a, a.getfsstat \in Answers(Seq(Measured))
    PROVE  Reads(darwinVolumes(a), Seq(Nat))
<1> DEFINE found == Lines(a.getfsstat.out)
           real == {i \in DOMAIN found : isRealFilesystem(found[i]) /\ found[i].blocks # 0}
<1>1. found \in Seq(Measured)
  BY LinesOf DEF Answers
<1>2. Kept(found, real) \in Seq(Sized)
  <2>1. ASSUME NEW i \in real PROVE found[i].blocks \in Nat \ {0}
    <3>1. i \in DOMAIN found /\ found[i].blocks # 0
      OBVIOUS
    <3> HIDE DEF found
    <3>2. found[i] \in Measured
      BY <1>1, <3>1, LenProperties
    <3> QED
      BY <3>1, <3>2 DEF Volume, Measured
  <2>2. found \in Seq(Volume)
    BY <1>1 DEF Measured
  <2> HIDE DEF found, real
  <2> QED
    BY <2>1, <2>2, KeptSized
<1>3. Map(Kept(found, real), FreePercent) \in Seq(Nat)
  <2> HIDE DEF found, real
  <2> QED
    BY <1>2, FreeOf
<1> QED
  BY <1>3 DEF darwinVolumes, Reads, Fail, NoFile, Got

\* The volumes of a Windows machine (storage/collect_windows.go).
LEMMA WindowsVolumesRead ==
    ASSUME NEW a, a.LogicalDisk \in Answers(Seq(Measured))
    PROVE  Reads(windowsVolumes(a), Seq(Nat))
<1>1. ASSUME NEW rows \in Seq(Measured) PROVE Reads(parseWindowsVolumes(rows), Seq(Nat))
  <2> DEFINE real == {i \in DOMAIN rows : rows[i].blocks # 0}
  <2>1. ASSUME NEW i \in real PROVE rows[i].blocks \in Nat \ {0}
    <3>1. rows[i] \in Measured
      BY LenProperties
    <3> QED
      BY <3>1 DEF Volume, Measured
  <2>2. rows \in Seq(Volume)
    BY DEF Measured
  <2>3. Map(Kept(rows, real), FreePercent) \in Seq(Nat)
    <3> HIDE DEF real
    <3> QED
      BY <2>1, <2>2, KeptSized, FreeOf
  <2> QED
    BY <2>3 DEF parseWindowsVolumes, Reads, Got
<1>2. Reads(Unmarshal(a.LogicalDisk), Seq(Measured))
  BY TextOf
<1> QED
  BY <1>1, <1>2 DEF windowsVolumes, Then, Reads

DriveRead == [name : STRING, status : {"healthy", "failing", "unknown"}, reallocated : Int]
Drives == Seq(DriveRead)

\* A drive has a name, one of three statuses and a count.
LEMMA DriveOf ==
    ASSUME NEW name \in STRING, NEW status \in {"healthy", "failing", "unknown"}, NEW n \in Int
    PROVE  Drive(name, status, n) \in [name : STRING,
           status : {"healthy", "failing", "unknown"}, reallocated : Int]
BY DEF Drive

\* The drives that smartctl tells of.
LEMMA LinuxDisksRead ==
    ASSUME NEW m, LinuxDrives(m)
    PROVE  LET a == [s \in DOMAIN m |-> run(m[s])] IN Reads(linuxDisks(a), Drives)
<1> DEFINE a == [s \in DOMAIN m |-> run(m[s])]
           devices == Lines(a.block.out)
           physical == {i \in DOMAIN devices : devices[i].physical}
           smartctl(i) == a[devices[i].name]
           broken == {i \in physical : smartctl(i).out = None /\ smartctl(i).err # "no"}
           told == {i \in physical : smartctl(i).out \notin {None, Garbled}}
           kept == Kept(devices, told)
           drives == Map(kept, LAMBDA d : parseSmartctl(d.name, a[d.name].out))
<1>1. a.block = run(m["block"]) /\ a.block \in Answers(Seq(BlockDevice))
  BY Ran DEF LinuxDrives
<1>2. devices \in Seq(BlockDevice)
  BY <1>1, LinesOf DEF Answers
<1>3. ASSUME NEW i \in DOMAIN devices
      PROVE devices[i].name \in DOMAIN m \ {"block"} /\ devices[i].name \in STRING
  <2>1. a.block.err \in {"no", "failed"} => a.block.out = m["block"].printed
    BY <1>1 DEF run
  <2>2. devices = Lines(m["block"].printed)
    BY <1>1, <2>1 DEF run, Lines
  <2>3. devices[i] \in ToSet(devices)
    BY DEF ToSet
  <2>4. devices[i].name \in DOMAIN m \ {"block"}
    BY <2>2, <2>3 DEF LinuxDrives
  <2>5. devices[i] \in BlockDevice
    <3> HIDE DEF devices
    <3> QED
      BY <1>2, LenProperties
  <2> QED
    BY <2>4, <2>5 DEF BlockDevice
<1>4. ASSUME NEW i \in DOMAIN devices PROVE smartctl(i) \in Answers(SmartReport)
  <2>1. devices[i].name \in DOMAIN m \ {"block"}
    BY <1>3
  <2> HIDE DEF devices
  <2>2. a[devices[i].name] = run(m[devices[i].name])
    BY <2>1
  <2> QED
    BY <2>1, <2>2, Ran DEF LinuxDrives
<1>5. kept \in Seq({devices[i] : i \in told \cap (1..Len(devices))})
  <2> HIDE DEF devices, told
  <2> QED
    BY <1>2, KeptHolds
<1>6. drives \in Drives
  <2> DEFINE S == {devices[i] : i \in told \cap (1..Len(devices))}
  <2>1. ASSUME NEW d \in S PROVE parseSmartctl(d.name, a[d.name].out) \in
              [name : STRING, status : {"healthy", "failing", "unknown"}, reallocated : Int]
    <3>1. PICK i \in told : d = devices[i]
      OBVIOUS
    <3>2. i \in DOMAIN devices /\ smartctl(i).out \notin {None, Garbled}
      BY <3>1
    <3>3. smartctl(i).out \in SmartReport
      BY <1>4, <3>2 DEF Answers
    <3>4. d.name \in STRING /\ a[d.name].out \in SmartReport
      BY <1>3, <3>1, <3>2, <3>3
    <3> HIDE DEF a, devices, told
    <3> QED
      BY <3>4 DEF parseSmartctl, SmartReport, Drive
  <2>2. kept \in Seq(S)
    BY <1>5
  <2> HIDE DEF S, kept
  <2>3. ASSUME NEW i \in DOMAIN kept PROVE kept[i] \in S
    BY <2>2, LenProperties
  <2>4. drives \in [DOMAIN kept -> [name : STRING, status : {"healthy", "failing", "unknown"},
        reallocated : Int]]
    BY <2>1, <2>3 DEF Map
  <2> HIDE DEF drives
  <2> QED
    BY <2>2, <2>4, Mapped DEF Drives, DriveRead
<1>7. ASSUME broken # {} PROVE smartctl(Min(broken)).err # "no"
  <2>1. broken \subseteq Nat
    <3>1. DOMAIN devices = 1..Len(devices) /\ Len(devices) \in Nat
      <4> HIDE DEF devices
      <4> QED
        BY <1>2, LenProperties
    <3> QED
      BY <3>1
  <2>2. Min(broken) \in broken
    <3> HIDE DEF broken
    <3> QED
      BY <1>7, <2>1, Least
  <2> QED
    BY <2>2
<1> QED
  BY <1>6, <1>7 DEF linuxDisks, Reads, Fail, NoFile, Got

\* The drives that diskutil tells of.
LEMMA DarwinDisksRead ==
    ASSUME NEW a, a.diskutil \in Answers(Seq(Section))
    PROVE  Reads(darwinDisks(a), Drives)
<1>1. ASSUME NEW s \in Seq(Section) PROVE parseDiskutilInfo(s) \in Drives
  <2> DEFINE places == {i \in DOMAIN s : s[i].name # "" /\ (s[i].whole \/ s[i].smart # "")}
             T == {s[i] : i \in places \cap (1..Len(s))}
             kept == Kept(s, places)
             drives == Map(kept, LAMBDA x : Drive(x.name, macSMARTStatus(x.smart), 0))
  <2>1. T \subseteq Section
    <3>1. ASSUME NEW i \in 1..Len(s) PROVE s[i] \in Section
      BY LenProperties
    <3> QED
      BY <3>1
  <2>2. kept \in Seq(T)
    <3> HIDE DEF places
    <3> QED
      BY KeptHolds
  <2> HIDE DEF T, kept
  <2>3. ASSUME NEW i \in DOMAIN kept PROVE kept[i] \in Section
    BY <2>1, <2>2, LenProperties
  <2>4. ASSUME NEW x \in Section PROVE Drive(x.name, macSMARTStatus(x.smart), 0) \in DriveRead
    BY DEF Drive, macSMARTStatus, Section, DriveRead
  <2>5. drives \in [DOMAIN kept -> DriveRead]
    BY <2>3, <2>4 DEF Map
  <2> HIDE DEF drives
  <2>6. drives \in Seq(DriveRead)
    BY <2>2, <2>5, Mapped
  <2> QED
    BY <2>6 DEF parseDiskutilInfo, Drives, DriveRead, kept, drives
<1>2. Reads(Text(a.diskutil), Seq(Section))
  BY TextOf
<1> HIDE DEF Drives
<1> QED
  BY <1>1, <1>2 DEF darwinDisks, Then, Reads, Got

\* A failure that is predicted changes nothing but statuses.
LEMMA PredictionsKeep ==
    ASSUME NEW drives \in Drives, NEW answer
    PROVE  applyFailurePredictions(drives, answer) \in Drives
<1> DEFINE all == Map(drives, LAMBDA d : [d EXCEPT !.status = "failing"])
<1>0. drives \in Seq(DriveRead)
  BY DEF Drives, DriveRead
<1>1. ASSUME NEW i \in DOMAIN drives PROVE drives[i] \in DriveRead
  BY <1>0, LenProperties
<1>2. ASSUME NEW d \in DriveRead PROVE [d EXCEPT !.status = "failing"] \in DriveRead
  BY DEF DriveRead
<1>3. all \in [DOMAIN drives -> DriveRead]
  BY <1>1, <1>2 DEF Map
<1>4. all \in Seq(DriveRead)
  <2> HIDE DEF all
  <2> QED
    BY <1>0, <1>3, Mapped
<1> QED
  BY <1>0, <1>4 DEF applyFailurePredictions, Drives, DriveRead

\* The drives that the storage classes tell of.
LEMMA WindowsDisksRead ==
    ASSUME NEW a, a.PhysicalDisk \in Answers(Seq([name : STRING, health : STRING]))
    PROVE  Reads(windowsDisks(a), Drives)
<1>1. ASSUME NEW rows \in Seq([name : STRING, health : STRING])
      PROVE  parseWindowsDisks(rows) \in Drives
  <2> DEFINE drives == Map(rows, LAMBDA r : Drive(r.name, windowsHealth(r.health), 0))
  <2>1. ASSUME NEW i \in DOMAIN rows PROVE rows[i] \in [name : STRING, health : STRING]
    BY LenProperties
  <2>2. ASSUME NEW r \in [name : STRING, health : STRING]
        PROVE  Drive(r.name, windowsHealth(r.health), 0) \in DriveRead
    BY DEF Drive, windowsHealth, DriveRead
  <2>3. drives \in [DOMAIN rows -> DriveRead]
    BY <2>1, <2>2 DEF Map
  <2> HIDE DEF drives
  <2>4. drives \in Seq(DriveRead)
    BY <2>3, Mapped
  <2> QED
    BY <2>4 DEF parseWindowsDisks, Drives, DriveRead, drives
<1>2. Reads(Unmarshal(a.PhysicalDisk), Seq([name : STRING, health : STRING]))
  BY TextOf
<1> HIDE DEF Drives
<1> QED
  BY <1>1, <1>2, PredictionsKeep DEF windowsDisks, Then, Reads, Got

Loads == [cores : Nat, load : Counter, busy : Counter, available : Counter, swap : Counter]

\* A share of memory is a number or was not reported.
LEMMA Fractions ==
    ASSUME NEW part \in Nat, NEW whole \in Nat
    PROVE  memoryFraction(part, whole) \in Counter /\ swapping(part, whole) \in Counter
BY Shares DEF memoryFraction, swapping, Counter

\* A number that is not there is 0.
LEMMA NumberOf ==
    ASSUME NEW a \in Answers(Nat) PROVE Number(a) \in Nat
BY DEF Number, Answers

\* The load of a Linux machine, from /proc.
LEMMA LinuxLoadRead ==
    ASSUME NEW a, a.cpus \in Answers(Nat), a.loadavg \in Answers(Nat),
           a.meminfo \in Answers(Meminfo)
    PROVE  Reads(linuxLoad(a), Loads)
<1> DEFINE mem == parseMemInfo(a.meminfo.out)
           available == IF mem.available = 0 THEN mem.free ELSE mem.available
           used == mem.swapTotal - mem.swapFree
<1>1. mem \in Meminfo
  <2>1. a.meminfo.out \in Meminfo \cup {None, Garbled}
    BY DEF Answers
  <2> QED
    BY <2>1 DEF parseMemInfo, Meminfo
<1>2. available \in Nat /\ mem.total \in Nat /\ mem.swapTotal \in Nat /\ used \in Nat
  <2> HIDE DEF mem
  <2> QED
    BY <1>1 DEF Meminfo
<1>3. Number(a.cpus) \in Nat
  BY NumberOf
<1>4. parseLoadAvg(a.loadavg.out) \in Counter
  BY DEF parseLoadAvg, Counter, Answers
<1>5. memoryFraction(available, mem.total) \in Counter /\ swapping(used,
      mem.swapTotal) \in Counter
  <2> HIDE DEF available, used, mem
  <2> QED
    BY <1>2, Fractions
<1>6. None \in Counter
  BY DEF Counter
<1> QED
  BY <1>3, <1>4, <1>5, <1>6 DEF linuxLoad, Reads, Got, NoFile, Fail, Loads

\* The load of a Mac, from sysctl and vm_stat.
LEMMA DarwinLoadRead ==
    ASSUME NEW a, a.vm_loadavg \in Answers(Nat), a.hw_ncpu \in Answers(Nat),
           a.vm_stat \in Answers(PageCounts),
           a.hw_memsize \in Answers(Nat), a.vm_swapusage \in Answers([total : Nat, used : Nat])
    PROVE  Reads(darwinLoad(a), Loads)
<1> DEFINE swap == parseSwapUsage(a.vm_swapusage)
           available == parseVMStatAvailable(a.vm_stat)
<1>1. swap \in [total : Nat, used : Nat]
  BY DEF parseSwapUsage, Answers
<1>2. available \in Nat
  <2>1. ASSUME NEW p \in PageCounts
        PROVE p.pageSize * (p.free + p.inactive + p.speculative) \in Nat
    <3>1. p.pageSize \in Nat /\ p.free + p.inactive + p.speculative \in Nat
      BY DEF PageCounts
    <3>2. \A x \in Nat, y \in Nat : x * y \in Nat
      OBVIOUS
    <3> QED
      BY <3>1, <3>2
  <2>2. a.vm_stat.out \in PageCounts \cup {None, Garbled}
    BY DEF Answers
  <2> QED
    BY <2>1, <2>2 DEF parseVMStatAvailable
<1>3. Number(a.hw_ncpu) \in Nat /\ Number(a.hw_memsize) \in Nat
  BY NumberOf
<1>4. parseSysctlLoadAvg(a.vm_loadavg.out) \in Counter
  BY DEF parseSysctlLoadAvg, Counter, Answers
<1>5. memoryFraction(available, Number(a.hw_memsize)) \in Counter /\ swapping(swap.used,
      swap.total) \in Counter
  <2> HIDE DEF available, swap
  <2> QED
    BY <1>1, <1>2, <1>3, Fractions
<1>6. None \in Counter
  BY DEF Counter
<1> QED
  BY <1>3, <1>4, <1>5, <1>6 DEF darwinLoad, Reads, Got, Fail, Loads, Answers

\* The load of a Windows machine, one row.
LEMMA WindowsLoadRead ==
    ASSUME NEW a, a.Load \in Answers(Seq(LoadRow))
    PROVE  Reads(windowsLoad(a), Loads)
<1>1. ASSUME NEW rows \in Seq(LoadRow) PROVE Reads(parseWindowsLoad(rows), Loads)
  <2>1. ASSUME rows # <<>> PROVE Head(rows) \in LoadRow
    BY <2>1
  <2>2. ASSUME NEW r \in LoadRow
        PROVE  [cores |-> r.cores, load |-> None, busy |-> r.busy,
                available |-> memoryFraction(r.free, r.total),
                swap |-> swapping(r.pageUsed, r.pageTotal)] \in Loads
    <3>1. /\ r.cores \in Nat /\ r.busy \in Nat /\ r.free \in Nat /\ r.total \in Nat
          /\ r.pageUsed \in Nat /\ r.pageTotal \in Nat
      BY DEF LoadRow
    <3>2. memoryFraction(r.free, r.total) \in Counter /\ swapping(r.pageUsed,
          r.pageTotal) \in Counter
      BY <3>1, Fractions
    <3> QED
      BY <3>1, <3>2 DEF Loads, Counter
  <2> QED
    BY <2>1, <2>2 DEF parseWindowsLoad, Reads, Got, NoFile, Fail
<1>2. Reads(Unmarshal(a.Load), Seq(LoadRow))
  BY TextOf
<1> HIDE DEF Loads
<1> QED
  BY <1>1, <1>2 DEF windowsLoad, Then, Reads

Protections == {"on", "off", "unknown", "not_applicable"}
Posture == [{"encryption", "firewall", "antivirus"} -> Protections]

\* A part of the posture that is not read is unknown.
LEMMA PartOf ==
    ASSUME NEW a, NEW status \in Protections PROVE Part(a, status) \in Protections
BY DEF Part, Protections

\* The three parts together.
LEMMA PostureOf ==
    ASSUME NEW e \in Protections, NEW w \in Protections, NEW v \in Protections
    PROVE  Reads(Got([encryption |-> e, firewall |-> w, antivirus |-> v]), Posture)
<1>1. [encryption |-> e, firewall |-> w, antivirus |-> v] \in Posture
  BY DEF Posture
<1> QED
  BY <1>1 DEF Reads, Got

\* The posture of the three platforms.
LEMMA PosturesRead ==
    ASSUME NEW a
    PROVE  Reads(linuxPosture(a), Posture) /\ Reads(darwinPosture(a),
           Posture) /\ Reads(windowsPosture(a), Posture)
<1>0. "unknown" \in Protections /\ "not_applicable" \in Protections
  BY DEF Protections
<1>1. ASSUME NEW out PROVE parseLUKS(out) \in Protections
  BY DEF parseLUKS, Protections
<1>2. ASSUME NEW out PROVE parseFDESetup(out) \in Protections /\
             parseALFGlobalState(out) \in Protections
  BY DEF parseFDESetup, parseALFGlobalState, Protections
<1>3. ASSUME NEW out PROVE parseWindowsBitLocker(out) \in Protections
  BY DEF parseWindowsBitLocker, Protections
<1>4. ASSUME NEW out PROVE parseWindowsFirewall(out) \in Protections
  BY DEF parseWindowsFirewall, Protections
<1>5. ASSUME NEW out PROVE parseWindowsAntivirus(out) \in Protections
  BY DEF parseWindowsAntivirus, Protections
<1>6. Reads(linuxPosture(a), Posture)
  BY <1>0, <1>1, PartOf, PostureOf DEF linuxPosture
<1>7. Reads(darwinPosture(a), Posture)
  BY <1>0, <1>2, PartOf, PostureOf DEF darwinPosture
<1>8. Reads(windowsPosture(a), Posture)
  BY <1>3, <1>4, <1>5, PartOf, PostureOf DEF windowsPosture
<1> QED
  BY <1>6, <1>7, <1>8

Logs == [errors : Nat, critical : Nat, repeated : Nat]

\* The events of a log are counted.
LEMMA LogOf ==
    ASSUME NEW S, NEW events \in Seq(S)
    PROVE  Log(events) \in Logs
<1>0. Len(events) \in Nat /\ DOMAIN events = 1..Len(events)
  BY LenProperties
<1>1. countCritical(events) \in Nat
  BY <1>0, Places DEF countCritical
<1>2. findRepetitions(events) \in Nat
  <2> DEFINE same(j) == {i \in DOMAIN events : events[i].of = events[j].of}
             C == {0} \cup {Cardinality(same(j)) : j \in DOMAIN events}
  <2>1. ASSUME NEW j \in DOMAIN events
        PROVE  Cardinality(same(j)) \in Nat /\ Cardinality(same(j)) <= Len(events)
    <3>1. same(j) \subseteq 1..Len(events)
      BY <1>0
    <3> HIDE DEF same
    <3> QED
      BY <1>0, <3>1, Places
  <2>2. C \subseteq Nat /\ C # {} /\ \A n \in C : n <= Len(events)
    <3> HIDE DEF same
    <3> QED
      BY <1>0, <2>1
  <2>3. Max(C) \in Nat
    <3> HIDE DEF C
    <3> QED
      BY <1>0, <2>2, Greatest
  <2> QED
    BY <2>3 DEF findRepetitions
<1> QED
  BY <1>0, <1>1, <1>2 DEF Log, Logs

\* What is made of each element of a sequence is a sequence.
LEMMA MapOf ==
    ASSUME NEW S, NEW s \in Seq(S), NEW f, f = [i \in DOMAIN s |-> f[i]]
    PROVE  f \in Seq({f[i] : i \in DOMAIN s})
<1> DEFINE T == {f[i] : i \in DOMAIN s}
<1>1. f \in [DOMAIN s -> T]
  OBVIOUS
<1> HIDE DEF T
<1> QED
  BY <1>1, Mapped DEF T

\* The event log of Windows: every row is an event.
LEMMA WindowsEventsRead ==
    ASSUME NEW a, NEW S, a.WinEvent \in Answers(Seq(S))
    PROVE  Reads(windowsEvents(a), Logs)
<1>1. ASSUME NEW rows \in Seq(S) PROVE Log(parseWindowsEvents(rows)) \in Logs
  <2> DEFINE f == parseWindowsEvents(rows)
  <2>1. f = [i \in DOMAIN rows |-> f[i]]
    BY DEF parseWindowsEvents, Map
  <2> HIDE DEF f
  <2>2. f \in Seq({f[i] : i \in DOMAIN rows})
    BY <2>1, MapOf
  <2> QED
    BY <2>2, LogOf DEF f
<1>2. Reads(Unmarshal(a.WinEvent), Seq(S))
  BY TextOf
<1> QED
  BY <1>1, <1>2 DEF windowsEvents, Then, Reads, Got

\* The journal: a line that does not decode is none.
LEMMA LinuxEventsRead ==
    ASSUME NEW a, NEW S, a.journalctl \in Answers(Seq(S))
    PROVE  Reads(linuxEvents(a), Logs)
<1>1. ASSUME NEW lines \in Seq(S) PROVE Log(parseJournal(lines)) \in Logs
  <2> DEFINE places == {i \in DOMAIN lines : lines[i] # Garbled}
             kept == Kept(lines, places)
             f == parseJournal(lines)
  <2>1. f = [i \in DOMAIN kept |-> f[i]]
    BY DEF parseJournal, Map
  <2>2. kept \in Seq({lines[i] : i \in places \cap (1..Len(lines))})
    <3> HIDE DEF places
    <3> QED
      BY KeptHolds
  <2> HIDE DEF f, kept
  <2>3. f \in Seq({f[i] : i \in DOMAIN kept})
    BY <2>1, <2>2, MapOf
  <2> QED
    BY <2>3, LogOf DEF f
<1>2. Reads(Text(a.journalctl), Seq(S))
  BY TextOf
<1> QED
  BY <1>1, <1>2 DEF linuxEvents, Then, Reads, Got

\* The unified log: the last of its lines.
LEMMA DarwinEventsRead ==
    ASSUME NEW a, NEW S, a.log \in Answers(Seq(S))
    PROVE  Reads(darwinEvents(a), Logs)
<1> DEFINE last(f) == SubSeq(f, Max({1, Len(f) - maxEvents + 1}), Len(f))
<1>1. ASSUME NEW lines \in Seq(S) PROVE Log(last(parseMacLog(lines))) \in Logs
  <2> DEFINE places == {i \in DOMAIN lines : lines[i] # Garbled}
             kept == Kept(lines, places)
             f == parseMacLog(lines)
             T == {f[i] : i \in DOMAIN kept}
  <2>1. f = [i \in DOMAIN kept |-> f[i]]
    BY DEF parseMacLog, Map
  <2>2. kept \in Seq({lines[i] : i \in places \cap (1..Len(lines))})
    <3> HIDE DEF places
    <3> QED
      BY KeptHolds
  <2>3. f \in Seq(T)
    <3> HIDE DEF f, kept
    <3> QED
      BY <2>1, <2>2, MapOf
  <2> HIDE DEF f, T
  <2>4. Len(f) \in Nat
    BY <2>3, LenProperties
  <2>5. Max({1, Len(f) - maxEvents + 1}) \in 1..Len(f) + 1
    <3> DEFINE k == Len(f) - maxEvents + 1
    <3>1. k \in Int /\ k <= Len(f)
      BY <2>4, EventsAssumption
    <3> HIDE DEF k
    <3>2. \A i \in Int : Max({i, k}) = IF i >= k THEN i ELSE k
      BY <3>1, OfTwo
    <3>3. Max({1, k}) = IF 1 >= k THEN 1 ELSE k
      BY <3>2
    <3> QED
      BY <2>4, <3>1, <3>3 DEF k
  <2>6. last(f) \in Seq(T)
    <3> DEFINE k == Max({1, Len(f) - maxEvents + 1})
    <3>1. k \in 1..Len(f) + 1 /\ Len(f) \in k - 1..Len(f)
      BY <2>4, <2>5
    <3> HIDE DEF k
    <3>2. SubSeq(f, k, Len(f)) \in Seq(T)
      BY <2>3, <3>1, SubSeqProperties
    <3> QED
      BY <3>2 DEF k
  <2> HIDE DEF last
  <2> QED
    BY <2>6, LogOf DEF f
<1>2. Reads(Text(a.log), Seq(S))
  BY TextOf
<1> HIDE DEF Logs
<1> QED
  BY <1>1, <1>2 DEF darwinEvents, Then, Reads, Got

Histories == [readable : BOOLEAN, applied : SUBSET Age]

\* A history is the ages of what was applied.
LEMMA RecordOf ==
    ASSUME NEW ages, ages \subseteq Age PROVE Record(ages) \in Histories
BY DEF Record, Histories

\* The rows with a name give ages.
LEMMA AgesOf ==
    ASSUME NEW rows \in Named
    PROVE  {r.age : r \in {k \in ToSet(rows) : k.name # ""}} \subseteq Age
<1>1. ASSUME NEW r \in ToSet(rows) PROVE r.age \in Age
  <2>1. PICK i \in DOMAIN rows : r = rows[i]
    BY DEF ToSet
  <2>2. rows[i] \in [name : STRING, age : Age]
    BY LenProperties DEF Named
  <2> QED
    BY <2>1, <2>2
<1> QED
  BY <1>1

\* The package logs, or the list of packages where there is none.
LEMMA LinuxPatchesRead ==
    ASSUME NEW a, \A n \in dpkgLogs : a[n] \in Answers(Seq(DpkgLine)), a.rpm \in Answers(Named)
    PROVE  Reads(linuxPatches(a), Histories)
<1>1. collectDpkg(a) \subseteq Age
  <2>1. ASSUME NEW n \in dpkgLogs PROVE parseDpkgLog(Lines(a[n].out)) \subseteq Age
    <3>1. Lines(a[n].out) \in Seq(DpkgLine)
      BY LinesOf DEF Answers
    <3>2. ASSUME NEW l \in ToSet(Lines(a[n].out)) PROVE l.age \in Age
      <4> DEFINE s == Lines(a[n].out)
      <4>1. PICK i \in DOMAIN s : l = s[i]
        BY DEF ToSet
      <4> HIDE DEF s
      <4>2. s[i] \in DpkgLine
        BY <3>1, LenProperties DEF s
      <4> QED
        BY <4>1, <4>2 DEF DpkgLine
    <3> QED
      BY <3>2 DEF parseDpkgLog
  <2> QED
    BY <2>1 DEF collectDpkg
<1>2. ASSUME NEW s \in Named PROVE Record(parseRPMLast(s)) \in Histories
  BY AgesOf, RecordOf DEF parseRPMLast
<1>3. Reads(Text(a.rpm), Named)
  BY TextOf DEF Named
<1> HIDE DEF Histories
<1> QED
  BY <1>1, <1>2, <1>3, RecordOf DEF linuxPatches, Then, Reads, Got

\* The update histories of macOS and Windows.
LEMMA OtherPatchesRead ==
    ASSUME NEW a
    PROVE  /\ a.softwareupdate \in Answers(Named) => Reads(darwinPatches(a), Histories)
           /\ a.QuickFix \in Answers(Named) => Reads(windowsPatches(a), Histories)
<1>1. ASSUME NEW s \in Named
      PROVE  Record(parseSoftwareUpdateHistory(s)) \in Histories /\
             Record(parseQuickFix(s)) \in Histories
  BY AgesOf, RecordOf DEF parseSoftwareUpdateHistory, parseQuickFix
<1> HIDE DEF Histories
<1>2. ASSUME a.softwareupdate \in Answers(Named) PROVE Reads(darwinPatches(a), Histories)
  <2>1. Reads(Text(a.softwareupdate), Named)
    BY <1>2, TextOf DEF Named
  <2> QED
    BY <1>1, <2>1 DEF darwinPatches, Then, Reads, Got
<1>3. ASSUME a.QuickFix \in Answers(Named) PROVE Reads(windowsPatches(a), Histories)
  <2>1. Reads(Unmarshal(a.QuickFix), Named)
    BY <1>3, TextOf DEF Named
  <2> QED
    BY <1>1, <2>1 DEF windowsPatches, Then, Reads, Got
<1> QED
  BY <1>2, <1>3

UpdateReads == [age : Age, pending : Nat \cup {-1}]

\* The time of a file is an age, or none.
LEMMA StampOf ==
    ASSUME NEW a \in Answers(Int)
    PROVE  fileModTime(a) \in Age
BY DEF fileModTime, Answers, Age

\* Lines can be counted.
LEMMA Counted ==
    ASSUME NEW S, NEW s \in Seq(S), NEW P, P \subseteq DOMAIN s
    PROVE  Cardinality(P) \in Nat
<1>1. Len(s) \in Nat /\ DOMAIN s = 1..Len(s)
  BY LenProperties
<1> QED
  BY <1>1, Places

\* apt-get, or dnf where it is not installed.
LEMMA LinuxUpdatesRead ==
    ASSUME NEW a, NEW S, a.apt_get \in Answers(Seq(S)), a.dpkg_status \in Answers(Int),
           a.dnf \in Answers(Seq(S)), a.rpmdb \in Answers(Int),
           a.dnf.err = "missing" => a.dnf.out = None
    PROVE  Reads(linuxUpdates(a), UpdateReads)
<1>1. ASSUME NEW s \in Seq(S) PROVE countAptUpgrades(s) \in Nat /\ countDnfUpdates(s) \in Nat
  <2>1. countAptUpgrades(s) \in Nat
    BY Counted DEF countAptUpgrades
  <2>2. countDnfUpdates(s) \in Nat
    BY Counted DEF countDnfUpdates
  <2> QED
    BY <2>1, <2>2
<1>2. Lines(a.apt_get.out) \in Seq(S) /\ Lines(a.dnf.out) \in Seq(S)
  BY LinesOf DEF Answers
<1>3. fileModTime(a.dpkg_status) \in Age /\ fileModTime(a.rpmdb) \in Age /\ None \in Age
  BY StampOf DEF Age
<1>4. a.apt_get.err \in {"no", "missing", "failed"} /\ a.dnf.err \in {"no", "missing", "failed"}
  BY DEF Answers
<1>5. ASSUME NEW age \in Age, NEW n \in Nat \cup {-1} PROVE Updates(age, n) \in UpdateReads
  BY DEF Updates, UpdateReads
<1>6. CASE a.apt_get.err = "no"
  <2>1. linuxUpdates(a) = Got(Updates(fileModTime(a.dpkg_status),
        countAptUpgrades(Lines(a.apt_get.out))))
    BY <1>6 DEF linuxUpdates
  <2> QED
    BY <1>1, <1>2, <1>3, <1>5, <2>1 DEF Reads, Got
<1>7. CASE a.apt_get.err = "failed"
  BY <1>7 DEF linuxUpdates, Reads, Fail
<1>8. CASE a.apt_get.err = "missing" /\ a.dnf.out # None
  <2>1. linuxUpdates(a) = Got(Updates(fileModTime(a.rpmdb), countDnfUpdates(Lines(a.dnf.out))))
    BY <1>8 DEF linuxUpdates
  <2> QED
    BY <1>1, <1>2, <1>3, <1>5, <2>1 DEF Reads, Got
<1>9. CASE a.apt_get.err = "missing" /\ a.dnf.out = None
  <2>1. linuxUpdates(a) = IF a.dnf.err = "no" THEN Got(Updates(None, -1)) ELSE Fail(a.dnf.err)
    BY <1>9 DEF linuxUpdates
  <2> QED
    BY <1>3, <1>5, <2>1 DEF Reads, Got, Fail
<1> QED
  BY <1>4, <1>6, <1>7, <1>8, <1>9

\* The last update of macOS and Windows.
LEMMA OtherUpdatesRead ==
    ASSUME NEW a
    PROVE  /\ a.defaults \in Answers(Int) => Reads(darwinUpdates(a), UpdateReads)
           /\ a.UpdateResults \in Answers(Seq([success : Age, hotfix : Age])) =>
                 Reads(windowsUpdates(a), UpdateReads)
<1>1. ASSUME NEW age \in Age PROVE Updates(age, -1) \in UpdateReads
  BY DEF Updates, UpdateReads
<1>2. None \in Age
  BY DEF Age
<1>3. ASSUME a.defaults \in Answers(Int) PROVE Reads(darwinUpdates(a), UpdateReads)
  <2>1. parseMacSoftwareUpdateDate(a.defaults.out) \in Age
    BY <1>3 DEF parseMacSoftwareUpdateDate, Answers, Age
  <2> QED
    BY <1>1, <1>2, <2>1 DEF darwinUpdates, Reads, Got
<1>4. ASSUME a.UpdateResults \in Answers(Seq([success : Age, hotfix : Age]))
      PROVE  Reads(windowsUpdates(a), UpdateReads)
  <2> DEFINE Row == [success : Age, hotfix : Age]
  <2>1. ASSUME NEW rows \in Seq(Row) PROVE Reads(parseWindowsUpdates(rows), UpdateReads)
    <3>1. ASSUME rows # <<>> PROVE Head(rows).success \in Age /\ Head(rows).hotfix \in Age
      <4>1. Head(rows) \in Row
        <5> HIDE DEF Row
        <5> QED
          BY <3>1
      <4> QED
        BY <4>1
    <3> QED
      BY <1>1, <1>2, <3>1 DEF parseWindowsUpdates, Reads, Got
  <2>2. Reads(Unmarshal(a.UpdateResults), Seq(Row))
    BY <1>4, TextOf
  <2> HIDE DEF Row
  <2> QED
    BY <2>1, <2>2 DEF windowsUpdates, Then, Reads
<1> QED
  BY <1>3, <1>4

Networks ==
    [interfaces : SUBSET [up : BOOLEAN, address : {"none", "linklocal", "routable"}],
     gateway : BOOLEAN, dns : BOOLEAN, routeErr : BOOLEAN]

\* The interfaces, and the routes if they were read.
LEMMA NetworkRead ==
    ASSUME NEW a, a.interfaces \in Answers(Seq(Adapter)), NEW routing,
           routing.gateway \in BOOLEAN, routing.dns \in BOOLEAN, routing.routeErr \in BOOLEAN
    PROVE  Reads(collectNetwork(a, routing), Networks)
<1> DEFINE found == Lines(a.interfaces.out)
<1>1. found \in Seq(Adapter)
  BY LinesOf DEF Answers
<1>2. ASSUME NEW i \in ToSet(found) PROVE i \in Adapter
  <2>1. PICK p \in DOMAIN found : i = found[p]
    BY DEF ToSet
  <2> HIDE DEF found
  <2> QED
    BY <1>1, <2>1, LenProperties
<1>3. collectInterfaces(found) \in SUBSET [up : BOOLEAN,
      address : {"none", "linklocal", "routable"}]
  <2> HIDE DEF found
  <2>1. ASSUME NEW x \in collectInterfaces(found)
        PROVE  x \in [up : BOOLEAN, address : {"none", "linklocal", "routable"}]
    <3>1. PICK i \in ToSet(found) : x = [up |-> i.up, address |-> i.address] /\ i.address # None
      BY DEF collectInterfaces
    <3>2. i.up \in BOOLEAN /\ i.address \in {"none", "linklocal", "routable"}
      BY <1>2, <3>1 DEF Adapter
    <3> QED
      BY <3>1, <3>2
  <2> QED
    BY <2>1
<1>4. [interfaces |-> collectInterfaces(found), gateway |-> routing.gateway,
       dns |-> routing.dns, routeErr |-> routing.routeErr] \in Networks
  <2> HIDE DEF found
  <2> QED
    BY <1>3 DEF Networks
<1> QED
  BY <1>4 DEF collectNetwork, Reads, Got, NoFile, Fail

\* A routing is three Booleans.
LEMMA RoutingOf ==
    ASSUME NEW g \in BOOLEAN, NEW d \in BOOLEAN, NEW e \in BOOLEAN
    PROVE  LET r == Routing(g, d, e) IN
           /\ r.gateway = g /\ r.dns = d /\ r.routeErr = e
           /\ r.gateway \in BOOLEAN /\ r.dns \in BOOLEAN /\ r.routeErr \in BOOLEAN
BY DEF Routing

\* Membership is true or false.
LEMMA TrueOrFalse ==
    ASSUME NEW v, NEW S PROVE (v \in S) \in BOOLEAN
OBVIOUS

\* Equality is true or false.
LEMMA EqualOrNot ==
    ASSUME NEW v, NEW w PROVE (v = w) \in BOOLEAN
OBVIOUS

\* The routes of the three platforms.
LEMMA RoutingsRead ==
    ASSUME NEW a, NEW r \in {linuxRouting(a), darwinRouting(a), windowsRouting(a)}
    PROVE  r.gateway \in BOOLEAN /\ r.dns \in BOOLEAN /\ r.routeErr \in BOOLEAN
<1>1. ASSUME NEW out PROVE /\ parseProcRoute(out) \in BOOLEAN /\ parseResolvConf(out) \in BOOLEAN
                           /\ parseRouteGet(out) \in BOOLEAN /\ parseSCUtilDNS(out) \in BOOLEAN
  BY DEF parseProcRoute, parseResolvConf, parseRouteGet, parseSCUtilDNS
<1>2. PICK g \in BOOLEAN, d \in BOOLEAN, e \in BOOLEAN : r = Routing(g, d, e)
  <2>1. CASE r = linuxRouting(a)
    BY <1>1, <2>1 DEF linuxRouting
  <2>2. CASE r = darwinRouting(a)
    BY <1>1, <2>2 DEF darwinRouting
  <2>3. CASE r = windowsRouting(a)
    <3> DEFINE rows == Lines(a.NetIPConfiguration.out)
               g == Head(rows).gateway = "address"
               d == "address" \in ToSet(Head(rows).dns)
    <3>1. \/ r = Routing(FALSE, FALSE, TRUE) \/ r = Routing(FALSE, FALSE, FALSE)
          \/ r = Routing(g, d, FALSE)
      BY <2>3, Zenon DEF windowsRouting, parseWindowsRouting
    <3>2. g \in BOOLEAN
      BY EqualOrNot, Zenon
    <3>3. d \in BOOLEAN
      BY TrueOrFalse, Zenon
    <3> HIDE DEF g, d
    <3> QED
      BY <3>1, <3>2, <3>3
  <2> QED
    BY <2>1, <2>2, <2>3
<1> QED
  BY <1>2, RoutingOf

BackupReads == [supported : BOOLEAN, configured : BOOLEAN, last : Age]

\* The backups of the three platforms.
LEMMA BackupsRead ==
    ASSUME NEW a
    PROVE  /\ Reads(linuxBackup, BackupReads)
           /\ a.latestbackup \in Answers(Int) => Reads(darwinBackup(a), BackupReads)
           /\ a.ShadowCopy \in Answers(Seq([configured : BOOLEAN, age : Age])) =>
                 Reads(windowsBackup(a), BackupReads)
<1>1. ASSUME NEW c \in BOOLEAN, NEW age \in Age PROVE Backup(c, age) \in BackupReads
  BY DEF Backup, BackupReads
<1>2. None \in Age
  BY DEF Age
<1>3. Reads(linuxBackup, BackupReads)
  BY <1>2 DEF linuxBackup, Reads, Got, BackupReads
<1>4. ASSUME a.latestbackup \in Answers(Int) PROVE Reads(darwinBackup(a), BackupReads)
  <2>1. parseLatestBackup(a.latestbackup.out) \in Age
    BY <1>4 DEF parseLatestBackup, Answers, Age
  <2>2. Backup(FALSE, None) \in BackupReads /\ Backup(TRUE, None) \in BackupReads
        /\ Backup(TRUE, parseLatestBackup(a.latestbackup.out)) \in BackupReads
    BY <1>1, <1>2, <2>1
  <2> QED
    BY <2>2 DEF darwinBackup, Reads, Got
<1>5. ASSUME a.ShadowCopy \in Answers(Seq([configured : BOOLEAN, age : Age]))
      PROVE  Reads(windowsBackup(a), BackupReads)
  <2> DEFINE Row == [configured : BOOLEAN, age : Age]
  <2>1. ASSUME NEW rows \in Seq(Row) PROVE Reads(parseShadowCopies(rows), BackupReads)
    <3>1. ASSUME rows # <<>> PROVE Head(rows).age \in Age
      <4>1. Head(rows) \in Row
        <5> HIDE DEF Row
        <5> QED
          BY <3>1
      <4> QED
        BY <4>1
    <3> QED
      BY <1>1, <1>2, <3>1 DEF parseShadowCopies, Reads, Got
  <2>2. Reads(Unmarshal(a.ShadowCopy), Seq(Row))
    BY <1>5, TextOf
  <2> HIDE DEF Row
  <2> QED
    BY <2>1, <2>2 DEF windowsBackup, Then, Reads
<1> QED
  BY <1>3, <1>4, <1>5

\* The devices with a problem are counted.
LEMMA DevicesRead ==
    ASSUME NEW a, a.PnPEntity \in Answers(Seq(Nat))
    PROVE  Reads(windowsProblemDevices(a), Nat)
<1>1. ASSUME NEW codes \in Seq(Nat) PROVE parseProblemDevices(codes) \in Nat
  BY Counted DEF parseProblemDevices
<1>2. Reads(Unmarshal(a.PnPEntity), Seq(Nat))
  BY TextOf
<1> QED
  BY <1>1, <1>2 DEF windowsProblemDevices, Then, Reads, Got

\* The entries of a directory.
LEMMA EntriesOf ==
    ASSUME NEW S, NEW a \in Answers(Seq(S)) PROVE Entries(a) \in Seq(S)
BY LinesOf, EmptySeq DEF Entries, Answers

\* What starts with the machine is counted.
LEMMA StartupRead ==
    ASSUME NEW a
    PROVE  /\ a.system \in Answers(Seq(DesktopEntry)) /\
              a.user \in Answers(Seq(DesktopEntry)) =>
                 Reads(linuxStartupItems(a), Nat)
           /\ (/\ a.LaunchAgents \in Answers(Seq(LaunchEntry))
               /\ a.LaunchDaemons \in Answers(Seq(LaunchEntry))
               /\ a.user \in Answers(Seq(LaunchEntry))) =>
                 Reads(darwinStartupItems(a), Nat)
           /\ a.StartupCommand \in Answers(Seq(STRING)) => Reads(windowsStartupItems(a), Nat)
<1>1. ASSUME a.system \in Answers(Seq(DesktopEntry)), a.user \in Answers(Seq(DesktopEntry))
      PROVE  Reads(linuxStartupItems(a), Nat)
  <2> DEFINE enabled(entries) ==
            Cardinality({i \in DOMAIN entries :
                entries[i].named /\ entries[i].readable /\ parseDesktopEntry(entries[i])})
  <2>1. ASSUME NEW s \in Seq(DesktopEntry) PROVE enabled(s) \in Nat
    BY Counted
  <2>2. enabled(Entries(a.system)) \in Nat /\ enabled(Entries(a.user)) \in Nat
    <3> HIDE DEF enabled
    <3> QED
      BY <1>1, <2>1, EntriesOf
  <2>3. linuxStartupItems(a) = Got(enabled(Entries(a.system)) + enabled(Entries(a.user)))
    BY DEF linuxStartupItems
  <2> HIDE DEF enabled
  <2> QED
    BY <2>2, <2>3 DEF Reads, Got
<1>2. ASSUME a.LaunchAgents \in Answers(Seq(LaunchEntry)),
             a.LaunchDaemons \in Answers(Seq(LaunchEntry)),
             a.user \in Answers(Seq(LaunchEntry))
      PROVE  Reads(darwinStartupItems(a), Nat)
  <2> DEFINE named(entries) == Cardinality({i \in DOMAIN entries : entries[i].named})
  <2>1. ASSUME NEW s \in Seq(LaunchEntry) PROVE named(s) \in Nat
    BY Counted
  <2>2. /\ named(Entries(a.LaunchAgents)) \in Nat /\ named(Entries(a.LaunchDaemons)) \in Nat
        /\ named(Entries(a.user)) \in Nat
    <3> HIDE DEF named
    <3> QED
      BY <1>2, <2>1, EntriesOf
  <2>3. darwinStartupItems(a) =
          Got(named(Entries(a.LaunchAgents)) + named(Entries(a.LaunchDaemons)) + named(Entries(a.user)))
    BY DEF darwinStartupItems
  <2> HIDE DEF named
  <2> QED
    BY <2>2, <2>3 DEF Reads, Got
<1>3. ASSUME a.StartupCommand \in Answers(Seq(STRING)) PROVE Reads(windowsStartupItems(a), Nat)
  <2>1. Reads(Unmarshal(a.StartupCommand), Seq(STRING))
    BY <1>3, TextOf
  <2> QED
    BY <2>1 DEF windowsStartupItems, parseWindowsStartup, Then, Reads, Got
<1> QED
  BY <1>1, <1>2, <1>3

\* A value that must be there is one, or there is an error.
LEMMA RequiredOf ==
    ASSUME NEW T, NEW a \in Answers(T) PROVE Reads(Required(a), T)
BY DEF Required, Answers, Reads, Fail, NoFile, Got

\* So it is with a first row.
LEMMA FirstOf ==
    ASSUME NEW T, NEW a \in Answers(Seq(T)) PROVE Reads(FirstRow(a), T)
<1>1. ASSUME NEW rows \in Seq(T), rows # <<>> PROVE Head(rows) \in T
  BY <1>1
<1>2. Reads(Unmarshal(a), Seq(T))
  BY TextOf
<1> QED
  BY <1>1, <1>2 DEF FirstRow, Then, Reads, Fail, NoFile, Got

HardwareRow == [model : STRING, memory : Nat]

\* Of the machine itself: how long it is up, its model, its memory.
LEMMA SystemRead ==
    ASSUME NEW a
    PROVE  /\ a.os_release \in Answers(STRING) /\ a.uptime \in Answers(Int) =>
              Reads(linuxOS(a), Int)
           /\ a.sw_vers \in Answers(STRING) /\ a.kern_boottime \in Answers(Int) =>
              Reads(darwinOS(a), Int)
           /\ a.OperatingSystem \in Answers(Seq(Int)) => Reads(windowsOS(a), Int)
           /\ a.product_name \in Answers(STRING) => Reads(linuxHardware(a), STRING \cup {""})
           /\ a.SPHardwareDataType \in Answers(STRING) => Reads(darwinHardware(a),
              STRING \cup {""})
           /\ a.Hardware \in Answers(Seq(HardwareRow)) => Reads(windowsHardware(a),
              STRING \cup {""})
           /\ a.meminfo \in Answers(Nat) => Reads(linuxRAM(a), Nat)
           /\ a.hw_memsize \in Answers(Nat) => Reads(darwinRAM(a), Nat)
           /\ a.PhysicalMemory \in Answers(Seq(Nat)) /\
              a.Hardware \in Answers(Seq(HardwareRow)) =>
                 Reads(windowsRAM(a), Nat)
<1>1. a.os_release \in Answers(STRING) /\ a.uptime \in Answers(Int) => Reads(linuxOS(a), Int)
  BY RequiredOf DEF linuxOS, parseUptime, Reads, NoFile, Fail
<1>2. a.sw_vers \in Answers(STRING) /\ a.kern_boottime \in Answers(Int) => Reads(darwinOS(a),
      Int)
  BY RequiredOf DEF darwinOS, parseBootTime, Reads, Fail
<1>3. a.OperatingSystem \in Answers(Seq(Int)) => Reads(windowsOS(a), Int)
  BY FirstOf DEF windowsOS, parseWindowsOS
<1>4. a.product_name \in Answers(STRING) => Reads(linuxHardware(a), STRING \cup {""})
  <2>1. a.product_name \in Answers(STRING) => readTrimmed(a.product_name) \in STRING \cup {""}
    BY DEF readTrimmed, Answers
  <2> QED
    BY <2>1 DEF linuxHardware, Reads, NoFile, Fail, Got
<1>5. a.SPHardwareDataType \in Answers(STRING) => Reads(darwinHardware(a), STRING \cup {""})
  <2>1. a.SPHardwareDataType \in Answers(STRING) => Reads(Required(a.SPHardwareDataType),
        STRING)
    BY RequiredOf
  <2> QED
    BY <2>1 DEF darwinHardware, parseMacHardware, Reads
<1>6. a.Hardware \in Answers(Seq(HardwareRow)) => Reads(windowsHardware(a), STRING \cup {""})
  <2>1. ASSUME NEW r \in HardwareRow PROVE r.model \in STRING
    BY DEF HardwareRow
  <2> QED
    BY <2>1, FirstOf DEF windowsHardware, parseWindowsHardware, Then, Reads, Got
<1>7. a.meminfo \in Answers(Nat) => Reads(linuxRAM(a), Nat)
  BY RequiredOf DEF linuxRAM, parseMemTotal, Reads, NoFile, Fail
<1>8. a.hw_memsize \in Answers(Nat) => Reads(darwinRAM(a), Nat)
  BY RequiredOf DEF darwinRAM
<1>9. a.PhysicalMemory \in Answers(Seq(Nat)) /\ a.Hardware \in Answers(Seq(HardwareRow)) =>
         Reads(windowsRAM(a), Nat)
  <2> SUFFICES ASSUME a.PhysicalMemory \in Answers(Seq(Nat)),
                      a.Hardware \in Answers(Seq(HardwareRow))
               PROVE  Reads(windowsRAM(a), Nat)
    OBVIOUS
  <2> DEFINE system == FirstRow(a.Hardware)
  <2>1. system.err = "no" => system.f.memory \in Nat
    <3>1. Reads(system, HardwareRow)
      BY FirstOf
    <3>2. ASSUME NEW r \in HardwareRow PROVE r.memory \in Nat
      BY DEF HardwareRow
    <3> QED
      BY <3>1, <3>2 DEF Reads
  <2>2. Reads(Unmarshal(a.PhysicalMemory), Seq(Nat))
    BY TextOf
  <2> HIDE DEF system
  <2>3. ASSUME NEW rows \in Seq(Nat)
        PROVE  (IF parseWindowsRAM(rows) = 0 /\ system.err = "no" THEN system.f.memory
               ELSE parseWindowsRAM(rows)) \in Nat
    BY <2>1, SumHolds
  <2> QED
    BY <2>2, <2>3 DEF windowsRAM, Then, Reads, Got, system
<1> QED
  BY <1>1, <1>2, <1>3, <1>4, <1>5, <1>6, <1>7, <1>8, <1>9

Batteries == [present : BOOLEAN, percent : 0..100]

\* The health of a battery is a share of 100 at most.
LEMMA HealthOf ==
    ASSUME NEW full \in Nat, NEW design \in Nat
    PROVE  batteryHealth(full, design) \in 0..100
<1>1. CASE full = 0 \/ design = 0
  BY <1>1 DEF batteryHealth
<1>2. CASE full # 0 /\ design # 0
  <2> DEFINE p == Percent(full, design)
  <2>1. p \in Nat
    BY <1>2, Shares
  <2> HIDE DEF p
  <2>2. \A i \in Int : Min({i, p}) = IF i <= p THEN i ELSE p
    BY <2>1, OfTwo
  <2>3. Min({100, p}) = IF 100 <= p THEN 100 ELSE p
    BY <2>2
  <2>4. batteryHealth(full, design) = Min({100, p})
    BY <1>2 DEF batteryHealth, p
  <2> QED
    BY <2>1, <2>3, <2>4
<1> QED
  BY <1>1, <1>2

\* So is a capacity that is clamped.
LEMMA ShareOf ==
    ASSUME NEW capacity \in Age PROVE parsePercent(capacity) \in 0..100
<1>1. CASE capacity = None
  BY <1>1 DEF parsePercent
<1>2. CASE capacity # None
  <2>1. capacity \in Int
    BY <1>2 DEF Age
  <2> DEFINE p == Min({100, capacity})
  <2>2. \A i \in Int : Min({i, capacity}) = IF i <= capacity THEN i ELSE capacity
    BY <2>1, OfTwo
  <2>3. p \in Int /\ p <= 100
    BY <2>1, <2>2
  <2> HIDE DEF p
  <2>4. \A i \in Int : Max({i, p}) = IF i >= p THEN i ELSE p
    BY <2>3, OfTwo
  <2>5. Max({0, p}) = IF 0 >= p THEN 0 ELSE p
    BY <2>4
  <2>6. parsePercent(capacity) = Max({0, p})
    BY <1>2 DEF parsePercent, p
  <2> QED
    BY <2>3, <2>5, <2>6
<1> QED
  BY <1>1, <1>2

\* A battery has a share, and no battery has 0.
LEMMA BatteryOf ==
    ASSUME NEW n \in 0..100
    PROVE  [present |-> TRUE, percent |-> n] \in Batteries /\ NoBattery \in Batteries
BY DEF Batteries, NoBattery

\* The first of the supplies that is a battery.
LEMMA LinuxBatteryRead ==
    ASSUME NEW a, a.power_supply \in Answers(Seq(Supply))
    PROVE  Reads(linuxBattery(a), Batteries)
<1> DEFINE supplies == Lines(a.power_supply.out)
           batteries == {i \in DOMAIN supplies : supplies[i].battery}
           b == supplies[Min(batteries)]
           n == CASE None \notin {b.energyFull, b.energyDesign} ->
                            batteryHealth(b.energyFull, b.energyDesign)
                  [] None \in {b.energyFull, b.energyDesign} /\ None \notin {b.chargeFull,
                  b.chargeDesign} ->
                            batteryHealth(b.chargeFull, b.chargeDesign)
                  [] OTHER -> 0
<1>1. supplies \in Seq(Supply)
  BY LinesOf DEF Answers
<1>2. ASSUME batteries # {} PROVE n \in 0..100
  <2>1. Len(supplies) \in Nat /\ DOMAIN supplies = 1..Len(supplies)
    <3> HIDE DEF supplies
    <3> QED
      BY <1>1, LenProperties
  <2>2. batteries \subseteq Nat
    BY <2>1
  <2>3. Min(batteries) \in DOMAIN supplies
    <3>1. Min(batteries) \in batteries
      <4> HIDE DEF batteries
      <4> QED
        BY <1>2, <2>2, Least
    <3> QED
      BY <3>1
  <2>4. b \in Supply
    <3> HIDE DEF supplies, batteries
    <3> QED
      BY <1>1, <2>3, LenProperties
  <2> HIDE DEF b
  <2>5. /\ b.energyFull \in Nat \cup {None} /\ b.energyDesign \in Nat \cup {None}
        /\ b.chargeFull \in Nat \cup {None} /\ b.chargeDesign \in Nat \cup {None}
    BY <2>4 DEF Supply, Counter
  <2> DEFINE byEnergy == None \notin {b.energyFull, b.energyDesign}
             byCharge == None \notin {b.chargeFull, b.chargeDesign}
  <2>6. /\ byEnergy => b.energyFull \in Nat /\ b.energyDesign \in Nat
        /\ byCharge => b.chargeFull \in Nat /\ b.chargeDesign \in Nat
    BY <2>5
  <2>7. /\ byEnergy => n = batteryHealth(b.energyFull, b.energyDesign)
        /\ ~byEnergy /\ byCharge => n = batteryHealth(b.chargeFull, b.chargeDesign)
        /\ ~byEnergy /\ ~byCharge => n = 0
    OBVIOUS
  <2> HIDE DEF n, byEnergy, byCharge
  <2>8. byEnergy => n \in 0..100
    BY <2>6, <2>7, HealthOf
  <2>9. ~byEnergy /\ byCharge => n \in 0..100
    BY <2>6, <2>7, HealthOf
  <2> QED
    BY <2>7, <2>8, <2>9
<1> HIDE DEF n
<1>3. linuxBattery(a) = Got(IF a.power_supply.err # "no" \/ batteries = {} THEN NoBattery
                            ELSE [present |-> TRUE, percent |-> n])
  BY DEF linuxBattery, n
<1>4. 0 \in 0..100
  OBVIOUS
<1> HIDE DEF batteries
<1>5. (IF a.power_supply.err # "no" \/ batteries = {} THEN NoBattery
       ELSE [present |-> TRUE, percent |-> n]) \in Batteries
  BY <1>2, <1>4, BatteryOf
<1> QED
  BY <1>3, <1>5 DEF Reads, Got

\* The first of the entries that is a battery's.
LEMMA DarwinBatteryRead ==
    ASSUME NEW a, a.SPPowerDataType \in Answers(Seq(MacEntry))
    PROVE  Reads(darwinBattery(a), Batteries)
<1>1. ASSUME NEW entries \in Seq(MacEntry) PROVE parseMacBattery(entries) \in Batteries
  <2> DEFINE batteries == {i \in DOMAIN entries : entries[i].described \/
                 entries[i].capacity # None}
  <2>1. CASE batteries = {}
    <3>1. 0 \in 0..100
      OBVIOUS
    <3> QED
      BY <2>1, <3>1, BatteryOf DEF parseMacBattery
  <2>2. CASE batteries # {}
    <3>1. batteries \subseteq Nat
      BY LenProperties
    <3>2. Min(batteries) \in DOMAIN entries
      <4>1. Min(batteries) \in batteries
        <5> HIDE DEF batteries
        <5> QED
          BY <2>2, <3>1, Least
      <4> QED
        BY <4>1
    <3>3. entries[Min(batteries)].capacity \in Age
      <4> HIDE DEF batteries
      <4>1. entries[Min(batteries)] \in MacEntry
        BY <3>2, LenProperties
      <4> QED
        BY <4>1 DEF MacEntry
    <3>4. parseMacBattery(entries) = [present |-> TRUE,
          percent |-> parsePercent(entries[Min(batteries)].capacity)]
      BY <2>2 DEF parseMacBattery
    <3> HIDE DEF batteries
    <3> QED
      BY <3>3, <3>4, ShareOf, BatteryOf
  <2> QED
    BY <2>1, <2>2
<1>2. Reads(Required(a.SPPowerDataType), Seq(MacEntry))
  BY RequiredOf
<1> QED
  BY <1>1, <1>2 DEF darwinBattery, Reads, Got

\* The first row.
LEMMA WindowsBatteryRead ==
    ASSUME NEW a, a.Battery \in Answers(Seq(BatteryRow))
    PROVE  Reads(windowsBattery(a), Batteries)
<1>1. ASSUME NEW rows \in Seq(BatteryRow) PROVE parseWindowsBattery(rows) \in Batteries
  <2>1. 0 \in 0..100
    OBVIOUS
  <2>2. ASSUME rows # <<>> PROVE Head(rows).full \in Nat /\ Head(rows).design \in Nat
    <3>1. Head(rows) \in BatteryRow
      BY <2>2
    <3> QED
      BY <3>1 DEF BatteryRow
  <2>3. ASSUME rows # <<>> PROVE batteryHealth(Head(rows).full, Head(rows).design) \in 0..100
    BY <2>2, <2>3, HealthOf
  <2> QED
    BY <2>1, <2>3, BatteryOf DEF parseWindowsBattery
<1>2. Reads(Unmarshal(a.Battery), Seq(BatteryRow))
  BY TextOf
<1> QED
  BY <1>1, <1>2 DEF windowsBattery, Then, Reads, Got

\* Every collector of Linux brings back readings of its check, or fails.
LEMMA LinuxCollects ==
    ASSUME NEW c \in Checks, "linux" \in Platforms(c), NEW m, linuxMachine(c, m)
    PROVE  Reads(linuxCollect(c, [s \in DOMAIN m |-> run(m[s])]), Readings(c))
<1> DEFINE a == [s \in DOMAIN m |-> run(m[s])]
<1> SUFFICES Reads(linuxCollect(c, a), Readings(c))
  OBVIOUS
<1>1. CASE c = "disk.volumes"
  <2>1. linuxCollect(c, a) = linuxVolumes(a) /\ Readings(c) = Seq(Nat)
    BY <1>1 DEF linuxCollect, Readings
  <2>2. m \in [mounts : Source(Seq(Volume))]
    BY <1>1 DEF linuxMachine
  <2>3. /\ a.mounts \in Answers(Seq(Volume))
    BY <2>2, Ran
  <2> HIDE DEF a
  <2> QED
    BY <2>1, <2>3, LinuxVolumesRead
<1>2. CASE c = "disk.smart"
  <2>1. linuxCollect(c, a) = linuxDisks(a) /\ Readings(c) = Drives
    BY <1>2 DEF linuxCollect, Readings, Drives, DriveRead
  <2>2. LinuxDrives(m)
    BY <1>2 DEF linuxMachine
  <2> HIDE DEF Drives
  <2> QED
    BY <2>1, <2>2, LinuxDisksRead
<1>3. CASE c = "performance.load"
  <2>1. linuxCollect(c, a) = linuxLoad(a) /\ Readings(c) = Loads
    BY <1>3 DEF linuxCollect, Readings, Loads
  <2>2. m \in [cpus : Source(Nat), loadavg : Source(Nat), meminfo : Source(Meminfo)]
    BY <1>3 DEF linuxMachine
  <2>3. /\ a.cpus \in Answers(Nat)
        /\ a.loadavg \in Answers(Nat)
        /\ a.meminfo \in Answers(Meminfo)
    BY <2>2, Ran
  <2> HIDE DEF a
  <2> QED
    BY <2>1, <2>3, LinuxLoadRead
<1>4. CASE c = "security.posture"
  <2>1. linuxCollect(c, a) = linuxPosture(a) /\ Readings(c) = Posture
    BY <1>4 DEF linuxCollect, Readings, Posture, Protections
  <2>2. m \in [lsblk : Source(Seq(STRING))]
    BY <1>4 DEF linuxMachine
  <2>3. /\ a.lsblk \in Answers(Seq(STRING))
    BY <2>2, Ran
  <2> HIDE DEF a
  <2> QED
    BY <2>1, <2>3, PosturesRead
<1>5. CASE c = "eventlog.errors"
  <2>1. linuxCollect(c, a) = linuxEvents(a) /\ Readings(c) = Logs
    BY <1>5 DEF linuxCollect, Readings, Logs
  <2>2. m \in [journalctl : Source(Seq(LogLine(Nat) \cup {Garbled}))]
    BY <1>5 DEF linuxMachine
  <2>3. /\ a.journalctl \in Answers(Seq(LogLine(Nat) \cup {Garbled}))
    BY <2>2, Ran
  <2> HIDE DEF a
  <2> QED
    BY <2>1, <2>3, LinuxEventsRead
<1>6. CASE c = "updates.installed"
  <2>1. linuxCollect(c, a) = linuxPatches(a) /\ Readings(c) = Histories
    BY <1>6 DEF linuxCollect, Readings, Histories
  <2>2. m \in [dpkg_log : Source(Seq(DpkgLine)), dpkg_log_1 : Source(Seq(DpkgLine)),
        rpm : Source(Named)]
    BY <1>6 DEF linuxMachine
  <2>3. /\ a.dpkg_log \in Answers(Seq(DpkgLine))
        /\ a.dpkg_log_1 \in Answers(Seq(DpkgLine))
        /\ a.rpm \in Answers(Named)
    BY <2>2, Ran
  <2> HIDE DEF a
  <2> QED
    BY <2>1, <2>3, LinuxPatchesRead DEF dpkgLogs
<1>7. CASE c = "updates.os"
  <2>1. linuxCollect(c, a) = linuxUpdates(a) /\ Readings(c) = UpdateReads
    BY <1>7 DEF linuxCollect, Readings, UpdateReads
  <2>2. m \in [apt_get : Source(Seq(STRING)), dpkg_status : Source(Int),
        dnf : Source(Seq(STRING)), rpmdb : Source(Int)]
    BY <1>7 DEF linuxMachine
  <2>3. /\ a.apt_get \in Answers(Seq(STRING))
        /\ a.dpkg_status \in Answers(Int)
        /\ a.dnf \in Answers(Seq(STRING))
        /\ a.rpmdb \in Answers(Int)
        /\ a.dnf.err = "missing" => a.dnf.out = None
    BY <2>2, Ran
  <2> HIDE DEF a
  <2> QED
    BY <2>1, <2>3, LinuxUpdatesRead
<1>8. CASE c = "network.config"
  <2>1. linuxCollect(c, a) = collectNetwork(a, linuxRouting(a)) /\ Readings(c) = Networks
    BY <1>8 DEF linuxCollect, Readings, Networks
  <2>2. m \in [interfaces : Listing(Seq(Adapter)), net_route : Source(Seq(STRING)),
        resolv_conf : Source(Seq(STRING))]
    BY <1>8 DEF linuxMachine
  <2>3. /\ a.interfaces \in Answers(Seq(Adapter))
        /\ a.net_route \in Answers(Seq(STRING))
        /\ a.resolv_conf \in Answers(Seq(STRING))
    BY <2>2, Ran DEF Listing
  <2> HIDE DEF a
  <2> QED
    BY <2>1, <2>3, NetworkRead, RoutingsRead
<1>9. CASE c = "backup.status"
  <2>1. linuxCollect(c, a) = linuxBackup /\ Readings(c) = BackupReads
    BY <1>9 DEF linuxCollect, Readings, BackupReads
  <2>2. m \in [none : Source({})]
    BY <1>9 DEF linuxMachine
  <2>3. /\ a.none \in Answers({})
    BY <2>2, Ran
  <2> HIDE DEF a
  <2> QED
    BY <2>1, <2>3, BackupsRead
<1>10. CASE c = "startup.items"
  <2>1. linuxCollect(c, a) = linuxStartupItems(a) /\ Readings(c) = Nat
    BY <1>10 DEF linuxCollect, Readings
  <2>2. m \in [system : Source(Seq(DesktopEntry)), user : Source(Seq(DesktopEntry))]
    BY <1>10 DEF linuxMachine
  <2>3. /\ a.system \in Answers(Seq(DesktopEntry))
        /\ a.user \in Answers(Seq(DesktopEntry))
    BY <2>2, Ran
  <2> HIDE DEF a
  <2> QED
    BY <2>1, <2>3, StartupRead
<1>11. CASE c = "os.info"
  <2>1. linuxCollect(c, a) = linuxOS(a) /\ Readings(c) = Int
    BY <1>11 DEF linuxCollect, Readings
  <2>2. m \in [os_release : Source(STRING), uptime : Source(Int)]
    BY <1>11 DEF linuxMachine
  <2>3. /\ a.os_release \in Answers(STRING)
        /\ a.uptime \in Answers(Int)
    BY <2>2, Ran
  <2> HIDE DEF a
  <2> QED
    BY <2>1, <2>3, SystemRead
<1>12. CASE c = "hardware.inventory"
  <2>1. linuxCollect(c, a) = linuxHardware(a) /\ Readings(c) = STRING \cup {""}
    BY <1>12 DEF linuxCollect, Readings
  <2>2. m \in [cpuinfo : Source(STRING), product_name : Source(STRING)]
    BY <1>12 DEF linuxMachine
  <2>3. /\ a.cpuinfo \in Answers(STRING)
        /\ a.product_name \in Answers(STRING)
    BY <2>2, Ran
  <2> HIDE DEF a
  <2> QED
    BY <2>1, <2>3, SystemRead
<1>13. CASE c = "hardware.ram"
  <2>1. linuxCollect(c, a) = linuxRAM(a) /\ Readings(c) = Nat
    BY <1>13 DEF linuxCollect, Readings
  <2>2. m \in [meminfo : Source(Nat)]
    BY <1>13 DEF linuxMachine
  <2>3. /\ a.meminfo \in Answers(Nat)
    BY <2>2, Ran
  <2> HIDE DEF a
  <2> QED
    BY <2>1, <2>3, SystemRead
<1>14. CASE c = "battery.health"
  <2>1. linuxCollect(c, a) = linuxBattery(a) /\ Readings(c) = Batteries
    BY <1>14 DEF linuxCollect, Readings, Batteries
  <2>2. m \in [power_supply : Source(Seq(Supply))]
    BY <1>14 DEF linuxMachine
  <2>3. /\ a.power_supply \in Answers(Seq(Supply))
    BY <2>2, Ran
  <2> HIDE DEF a
  <2> QED
    BY <2>1, <2>3, LinuxBatteryRead
<1> HIDE DEF a
<1> QED
  BY <1>1, <1>2, <1>3, <1>4, <1>5, <1>6, <1>7, <1>8, <1>9, <1>10, <1>11, <1>12, <1>13, <1>14
     DEF Checks, Platforms

\* Every collector of macOS does.
LEMMA DarwinCollects ==
    ASSUME NEW c \in Checks, "darwin" \in Platforms(c), NEW m, darwinMachine(c, m)
    PROVE  Reads(darwinCollect(c, [s \in DOMAIN m |-> run(m[s])]), Readings(c))
<1> DEFINE a == [s \in DOMAIN m |-> run(m[s])]
<1> SUFFICES Reads(darwinCollect(c, a), Readings(c))
  OBVIOUS
<1>1. CASE c = "disk.volumes"
  <2>1. darwinCollect(c, a) = darwinVolumes(a) /\ Readings(c) = Seq(Nat)
    BY <1>1 DEF darwinCollect, Readings
  <2>2. m \in [getfsstat : Source(Seq(Measured))]
    BY <1>1 DEF darwinMachine
  <2>3. /\ a.getfsstat \in Answers(Seq(Measured))
    BY <2>2, Ran
  <2> HIDE DEF a
  <2> QED
    BY <2>1, <2>3, DarwinVolumesRead
<1>2. CASE c = "disk.smart"
  <2>1. darwinCollect(c, a) = darwinDisks(a) /\ Readings(c) = Drives
    BY <1>2 DEF darwinCollect, Readings, Drives, DriveRead
  <2>2. m \in [diskutil : Source(Seq(Section))]
    BY <1>2 DEF darwinMachine
  <2>3. /\ a.diskutil \in Answers(Seq(Section))
    BY <2>2, Ran
  <2> HIDE DEF a
  <2> QED
    BY <2>1, <2>3, DarwinDisksRead
<1>3. CASE c = "performance.load"
  <2>1. darwinCollect(c, a) = darwinLoad(a) /\ Readings(c) = Loads
    BY <1>3 DEF darwinCollect, Readings, Loads
  <2>2. m \in [vm_loadavg : Source(Nat), hw_ncpu : Source(Nat), vm_stat : Source(PageCounts),
        hw_memsize : Source(Nat), vm_swapusage : Source([total : Nat, used : Nat])]
    BY <1>3 DEF darwinMachine
  <2>3. /\ a.vm_loadavg \in Answers(Nat)
        /\ a.hw_ncpu \in Answers(Nat)
        /\ a.vm_stat \in Answers(PageCounts)
        /\ a.hw_memsize \in Answers(Nat)
        /\ a.vm_swapusage \in Answers([total : Nat, used : Nat])
    BY <2>2, Ran
  <2> HIDE DEF a
  <2> QED
    BY <2>1, <2>3, DarwinLoadRead
<1>4. CASE c = "security.posture"
  <2>1. darwinCollect(c, a) = darwinPosture(a) /\ Readings(c) = Posture
    BY <1>4 DEF darwinCollect, Readings, Posture, Protections
  <2>2. m \in [fdesetup : Source(STRING), alf : Source(Nat)]
    BY <1>4 DEF darwinMachine
  <2>3. /\ a.fdesetup \in Answers(STRING)
        /\ a.alf \in Answers(Nat)
    BY <2>2, Ran
  <2> HIDE DEF a
  <2> QED
    BY <2>1, <2>3, PosturesRead
<1>5. CASE c = "eventlog.errors"
  <2>1. darwinCollect(c, a) = darwinEvents(a) /\ Readings(c) = Logs
    BY <1>5 DEF darwinCollect, Readings, Logs
  <2>2. m \in [log : Source(Seq(LogLine(STRING) \cup {Garbled}))]
    BY <1>5 DEF darwinMachine
  <2>3. /\ a.log \in Answers(Seq(LogLine(STRING) \cup {Garbled}))
    BY <2>2, Ran
  <2> HIDE DEF a
  <2> QED
    BY <2>1, <2>3, DarwinEventsRead
<1>6. CASE c = "updates.installed"
  <2>1. darwinCollect(c, a) = darwinPatches(a) /\ Readings(c) = Histories
    BY <1>6 DEF darwinCollect, Readings, Histories
  <2>2. m \in [softwareupdate : Source(Named)]
    BY <1>6 DEF darwinMachine
  <2>3. /\ a.softwareupdate \in Answers(Named)
    BY <2>2, Ran
  <2> HIDE DEF a
  <2> QED
    BY <2>1, <2>3, OtherPatchesRead
<1>7. CASE c = "updates.os"
  <2>1. darwinCollect(c, a) = darwinUpdates(a) /\ Readings(c) = UpdateReads
    BY <1>7 DEF darwinCollect, Readings, UpdateReads
  <2>2. m \in [defaults : Source(Int)]
    BY <1>7 DEF darwinMachine
  <2>3. /\ a.defaults \in Answers(Int)
    BY <2>2, Ran
  <2> HIDE DEF a
  <2> QED
    BY <2>1, <2>3, OtherUpdatesRead
<1>8. CASE c = "network.config"
  <2>1. darwinCollect(c, a) = collectNetwork(a, darwinRouting(a)) /\ Readings(c) = Networks
    BY <1>8 DEF darwinCollect, Readings, Networks
  <2>2. m \in [interfaces : Listing(Seq(Adapter)), route : Source(Seq(STRING)),
        scutil : Source(Seq(STRING))]
    BY <1>8 DEF darwinMachine
  <2>3. /\ a.interfaces \in Answers(Seq(Adapter))
        /\ a.route \in Answers(Seq(STRING))
        /\ a.scutil \in Answers(Seq(STRING))
    BY <2>2, Ran DEF Listing
  <2> HIDE DEF a
  <2> QED
    BY <2>1, <2>3, NetworkRead, RoutingsRead
<1>9. CASE c = "backup.status"
  <2>1. darwinCollect(c, a) = darwinBackup(a) /\ Readings(c) = BackupReads
    BY <1>9 DEF darwinCollect, Readings, BackupReads
  <2>2. m \in [destinationinfo : Source(STRING), latestbackup : Source(Int)]
    BY <1>9 DEF darwinMachine
  <2>3. /\ a.destinationinfo \in Answers(STRING)
        /\ a.latestbackup \in Answers(Int)
    BY <2>2, Ran
  <2> HIDE DEF a
  <2> QED
    BY <2>1, <2>3, BackupsRead
<1>10. CASE c = "startup.items"
  <2>1. darwinCollect(c, a) = darwinStartupItems(a) /\ Readings(c) = Nat
    BY <1>10 DEF darwinCollect, Readings
  <2>2. m \in [LaunchAgents : Source(Seq(LaunchEntry)),
        LaunchDaemons : Source(Seq(LaunchEntry)), user : Source(Seq(LaunchEntry))]
    BY <1>10 DEF darwinMachine
  <2>3. /\ a.LaunchAgents \in Answers(Seq(LaunchEntry))
        /\ a.LaunchDaemons \in Answers(Seq(LaunchEntry))
        /\ a.user \in Answers(Seq(LaunchEntry))
    BY <2>2, Ran
  <2> HIDE DEF a
  <2> QED
    BY <2>1, <2>3, StartupRead
<1>11. CASE c = "os.info"
  <2>1. darwinCollect(c, a) = darwinOS(a) /\ Readings(c) = Int
    BY <1>11 DEF darwinCollect, Readings
  <2>2. m \in [sw_vers : Source(STRING), kern_boottime : Source(Int)]
    BY <1>11 DEF darwinMachine
  <2>3. /\ a.sw_vers \in Answers(STRING)
        /\ a.kern_boottime \in Answers(Int)
    BY <2>2, Ran
  <2> HIDE DEF a
  <2> QED
    BY <2>1, <2>3, SystemRead
<1>12. CASE c = "hardware.inventory"
  <2>1. darwinCollect(c, a) = darwinHardware(a) /\ Readings(c) = STRING \cup {""}
    BY <1>12 DEF darwinCollect, Readings
  <2>2. m \in [SPHardwareDataType : Source(STRING)]
    BY <1>12 DEF darwinMachine
  <2>3. /\ a.SPHardwareDataType \in Answers(STRING)
    BY <2>2, Ran
  <2> HIDE DEF a
  <2> QED
    BY <2>1, <2>3, SystemRead
<1>13. CASE c = "hardware.ram"
  <2>1. darwinCollect(c, a) = darwinRAM(a) /\ Readings(c) = Nat
    BY <1>13 DEF darwinCollect, Readings
  <2>2. m \in [hw_memsize : Source(Nat)]
    BY <1>13 DEF darwinMachine
  <2>3. /\ a.hw_memsize \in Answers(Nat)
    BY <2>2, Ran
  <2> HIDE DEF a
  <2> QED
    BY <2>1, <2>3, SystemRead
<1>14. CASE c = "battery.health"
  <2>1. darwinCollect(c, a) = darwinBattery(a) /\ Readings(c) = Batteries
    BY <1>14 DEF darwinCollect, Readings, Batteries
  <2>2. m \in [SPPowerDataType : Source(Seq(MacEntry))]
    BY <1>14 DEF darwinMachine
  <2>3. /\ a.SPPowerDataType \in Answers(Seq(MacEntry))
    BY <2>2, Ran
  <2> HIDE DEF a
  <2> QED
    BY <2>1, <2>3, DarwinBatteryRead
<1> HIDE DEF a
<1> QED
  BY <1>1, <1>2, <1>3, <1>4, <1>5, <1>6, <1>7, <1>8, <1>9, <1>10, <1>11, <1>12, <1>13, <1>14
     DEF Checks, Platforms

\* Every collector of Windows does.
LEMMA WindowsCollects ==
    ASSUME NEW c \in Checks, "windows" \in Platforms(c), NEW m, windowsMachine(c, m)
    PROVE  Reads(windowsCollect(c, [s \in DOMAIN m |-> run(m[s])]), Readings(c))
<1> DEFINE a == [s \in DOMAIN m |-> run(m[s])]
<1> SUFFICES Reads(windowsCollect(c, a), Readings(c))
  OBVIOUS
<1>1. CASE c = "disk.volumes"
  <2>1. windowsCollect(c, a) = windowsVolumes(a) /\ Readings(c) = Seq(Nat)
    BY <1>1 DEF windowsCollect, Readings
  <2>2. m \in [LogicalDisk : Source(Seq(Measured))]
    BY <1>1 DEF windowsMachine
  <2>3. /\ a.LogicalDisk \in Answers(Seq(Measured))
    BY <2>2, Ran
  <2> HIDE DEF a
  <2> QED
    BY <2>1, <2>3, WindowsVolumesRead
<1>2. CASE c = "disk.smart"
  <2>1. windowsCollect(c, a) = windowsDisks(a) /\ Readings(c) = Drives
    BY <1>2 DEF windowsCollect, Readings, Drives, DriveRead
  <2>2. m \in [PhysicalDisk : Source(Seq([name : STRING, health : STRING])),
        FailurePredict : Source(Seq(BOOLEAN))]
    BY <1>2 DEF windowsMachine
  <2>3. /\ a.PhysicalDisk \in Answers(Seq([name : STRING, health : STRING]))
        /\ a.FailurePredict \in Answers(Seq(BOOLEAN))
    BY <2>2, Ran
  <2> HIDE DEF a
  <2> QED
    BY <2>1, <2>3, WindowsDisksRead
<1>3. CASE c = "performance.load"
  <2>1. windowsCollect(c, a) = windowsLoad(a) /\ Readings(c) = Loads
    BY <1>3 DEF windowsCollect, Readings, Loads
  <2>2. m \in [Load : Source(Seq(LoadRow))]
    BY <1>3 DEF windowsMachine
  <2>3. /\ a.Load \in Answers(Seq(LoadRow))
    BY <2>2, Ran
  <2> HIDE DEF a
  <2> QED
    BY <2>1, <2>3, WindowsLoadRead
<1>4. CASE c = "security.posture"
  <2>1. windowsCollect(c, a) = windowsPosture(a) /\ Readings(c) = Posture
    BY <1>4 DEF windowsCollect, Readings, Posture, Protections
  <2>2. m \in [BitLocker : Source(Seq(STRING)), Firewall : Source(Seq(STRING)),
        Antivirus : Source(Seq(STRING))]
    BY <1>4 DEF windowsMachine
  <2>3. /\ a.BitLocker \in Answers(Seq(STRING))
        /\ a.Firewall \in Answers(Seq(STRING))
        /\ a.Antivirus \in Answers(Seq(STRING))
    BY <2>2, Ran
  <2> HIDE DEF a
  <2> QED
    BY <2>1, <2>3, PosturesRead
<1>5. CASE c = "eventlog.errors"
  <2>1. windowsCollect(c, a) = windowsEvents(a) /\ Readings(c) = Logs
    BY <1>5 DEF windowsCollect, Readings, Logs
  <2>2. m \in [WinEvent : Source(Seq(LogLine(STRING)))]
    BY <1>5 DEF windowsMachine
  <2>3. /\ a.WinEvent \in Answers(Seq(LogLine(STRING)))
    BY <2>2, Ran
  <2> HIDE DEF a
  <2> QED
    BY <2>1, <2>3, WindowsEventsRead
<1>6. CASE c = "updates.installed"
  <2>1. windowsCollect(c, a) = windowsPatches(a) /\ Readings(c) = Histories
    BY <1>6 DEF windowsCollect, Readings, Histories
  <2>2. m \in [QuickFix : Source(Named)]
    BY <1>6 DEF windowsMachine
  <2>3. /\ a.QuickFix \in Answers(Named)
    BY <2>2, Ran
  <2> HIDE DEF a
  <2> QED
    BY <2>1, <2>3, OtherPatchesRead
<1>7. CASE c = "updates.os"
  <2>1. windowsCollect(c, a) = windowsUpdates(a) /\ Readings(c) = UpdateReads
    BY <1>7 DEF windowsCollect, Readings, UpdateReads
  <2>2. m \in [UpdateResults : Source(Seq([success : Age, hotfix : Age]))]
    BY <1>7 DEF windowsMachine
  <2>3. /\ a.UpdateResults \in Answers(Seq([success : Age, hotfix : Age]))
    BY <2>2, Ran
  <2> HIDE DEF a
  <2> QED
    BY <2>1, <2>3, OtherUpdatesRead
<1>8. CASE c = "network.config"
  <2>1. windowsCollect(c, a) = collectNetwork(a, windowsRouting(a)) /\ Readings(c) = Networks
    BY <1>8 DEF windowsCollect, Readings, Networks
  <2>2. m \in [interfaces : Listing(Seq(Adapter)),
        NetIPConfiguration : Source(Seq([gateway : STRING, dns : Seq(STRING)]))]
    BY <1>8 DEF windowsMachine
  <2>3. /\ a.interfaces \in Answers(Seq(Adapter))
        /\ a.NetIPConfiguration \in Answers(Seq([gateway : STRING, dns : Seq(STRING)]))
    BY <2>2, Ran DEF Listing
  <2> HIDE DEF a
  <2> QED
    BY <2>1, <2>3, NetworkRead, RoutingsRead
<1>9. CASE c = "backup.status"
  <2>1. windowsCollect(c, a) = windowsBackup(a) /\ Readings(c) = BackupReads
    BY <1>9 DEF windowsCollect, Readings, BackupReads
  <2>2. m \in [ShadowCopy : Source(Seq([configured : BOOLEAN, age : Age]))]
    BY <1>9 DEF windowsMachine
  <2>3. /\ a.ShadowCopy \in Answers(Seq([configured : BOOLEAN, age : Age]))
    BY <2>2, Ran
  <2> HIDE DEF a
  <2> QED
    BY <2>1, <2>3, BackupsRead
<1>10. CASE c = "drivers.problem"
  <2>1. windowsCollect(c, a) = windowsProblemDevices(a) /\ Readings(c) = Nat
    BY <1>10 DEF windowsCollect, Readings
  <2>2. m \in [PnPEntity : Source(Seq(Nat))]
    BY <1>10 DEF windowsMachine
  <2>3. /\ a.PnPEntity \in Answers(Seq(Nat))
    BY <2>2, Ran
  <2> HIDE DEF a
  <2> QED
    BY <2>1, <2>3, DevicesRead
<1>11. CASE c = "startup.items"
  <2>1. windowsCollect(c, a) = windowsStartupItems(a) /\ Readings(c) = Nat
    BY <1>11 DEF windowsCollect, Readings
  <2>2. m \in [StartupCommand : Source(Seq(STRING))]
    BY <1>11 DEF windowsMachine
  <2>3. /\ a.StartupCommand \in Answers(Seq(STRING))
    BY <2>2, Ran
  <2> HIDE DEF a
  <2> QED
    BY <2>1, <2>3, StartupRead
<1>12. CASE c = "os.info"
  <2>1. windowsCollect(c, a) = windowsOS(a) /\ Readings(c) = Int
    BY <1>12 DEF windowsCollect, Readings
  <2>2. m \in [OperatingSystem : Source(Seq(Int))]
    BY <1>12 DEF windowsMachine
  <2>3. /\ a.OperatingSystem \in Answers(Seq(Int))
    BY <2>2, Ran
  <2> HIDE DEF a
  <2> QED
    BY <2>1, <2>3, SystemRead
<1>13. CASE c = "hardware.inventory"
  <2>1. windowsCollect(c, a) = windowsHardware(a) /\ Readings(c) = STRING \cup {""}
    BY <1>13 DEF windowsCollect, Readings
  <2>2. m \in [Hardware : Source(Seq([model : STRING, memory : Nat]))]
    BY <1>13 DEF windowsMachine
  <2>3. /\ a.Hardware \in Answers(Seq([model : STRING, memory : Nat]))
    BY <2>2, Ran
  <2> HIDE DEF a
  <2> QED
    BY <2>1, <2>3, SystemRead DEF HardwareRow
<1>14. CASE c = "hardware.ram"
  <2>1. windowsCollect(c, a) = windowsRAM(a) /\ Readings(c) = Nat
    BY <1>14 DEF windowsCollect, Readings
  <2>2. m \in [PhysicalMemory : Source(Seq(Nat)),
        Hardware : Source(Seq([model : STRING, memory : Nat]))]
    BY <1>14 DEF windowsMachine
  <2>3. /\ a.PhysicalMemory \in Answers(Seq(Nat))
        /\ a.Hardware \in Answers(Seq([model : STRING, memory : Nat]))
    BY <2>2, Ran
  <2> HIDE DEF a
  <2> QED
    BY <2>1, <2>3, SystemRead DEF HardwareRow
<1>15. CASE c = "battery.health"
  <2>1. windowsCollect(c, a) = windowsBattery(a) /\ Readings(c) = Batteries
    BY <1>15 DEF windowsCollect, Readings, Batteries
  <2>2. m \in [Battery : Source(Seq(BatteryRow))]
    BY <1>15 DEF windowsMachine
  <2>3. /\ a.Battery \in Answers(Seq(BatteryRow))
    BY <2>2, Ran
  <2> HIDE DEF a
  <2> QED
    BY <2>1, <2>3, WindowsBatteryRead
<1> HIDE DEF a
<1> QED
  BY <1>1, <1>2, <1>3, <1>4, <1>5, <1>6, <1>7, <1>8, <1>9, <1>10, <1>11, <1>12, <1>13, <1>14,
  <1>15
     DEF Checks, Platforms

-----------------------------------------------------------------------------
(* What is concluded and filed.                                              *)

Answered(v) == IF v.severity = "ok" THEN v.summary \in Nothing
    ELSE v.summary \in Worked \cup Escalated

\* Whatever is read, the message of the verdict has a rule, and one for its severity.
LEMMA JudgedIsAnswered ==
    ASSUME NEW c \in Checks, NEW f PROVE Answered(Judge(c, f))
<1> USE DEF Answered, Nothing, Worked, Escalated, Finding, OK, Attention, Urgent,
            Unknown
<1>1. Answered(volumesVerdict(f))
  BY DEF volumesVerdict
<1>2. Answered(disksVerdict(f))
  BY DEF disksVerdict
<1>3. Answered(loadVerdict(f))
  BY DEF loadVerdict
<1>4. Answered(postureVerdict(f))
  BY DEF postureVerdict
<1>5. Answered(eventsVerdict(f))
  BY DEF eventsVerdict
<1>6. Answered(patchesVerdict(f))
  BY DEF patchesVerdict
<1>7. Answered(updatesVerdict(f))
  BY DEF updatesVerdict
<1>8. Answered(configVerdict(f))
  BY DEF configVerdict
<1>9. Answered(backupVerdict(f))
  BY DEF backupVerdict
<1>10. Answered(problemVerdict(f)) /\ Answered(startupVerdict(f)) /\ Answered(osVerdict)
  BY DEF problemVerdict, startupVerdict, osVerdict
<1>11. Answered(hardwareVerdict(f)) /\ Answered(ramVerdict(f)) /\ Answered(batteryVerdict(f))
  BY DEF hardwareVerdict, ramVerdict, batteryVerdict
<1> HIDE DEF Answered
<1> QED
  BY <1>1, <1>2, <1>3, <1>4, <1>5, <1>6, <1>7, <1>8, <1>9, <1>10, <1>11
     DEF Judge, Checks

\* So has that of a collector that fails, and it is of severity unknown.
LEMMA UnknownIsAnswered ==
    ASSUME NEW c, NEW err
    PROVE Answered(UnknownFor(c, err)) /\ UnknownFor(c, err).severity = "unknown"
BY DEF UnknownFor, Answered, Worked, Unknown, Finding

\* So has that of a check that ran.
LEMMA VerdictIsAnswered ==
    ASSUME check \in Checks, NEW m PROVE Answered(Verdict(m))
BY JudgedIsAnswered, UnknownIsAnswered DEF Verdict

ResultInv ==
    result = None \/ result = Unknown("") \/ Answered(result)

\* No message is one of a pass and of anything else.
LEMMA NothingToDo == Nothing \cap (Worked \cup Escalated) = {}
BY DEF Nothing, Worked, Escalated

\* The parts of a rule.
LEMMA RuleFields ==
    ASSUME NEW d, NEW x, NEW w, NEW e
    PROVE /\ Rule(d, x, w, e).do = d
          /\ Rule(d, x, w, e).fixes = x
          /\ Rule(d, x, w, e).wizards = w
          /\ Rule(d, x, w, e).escalate = e
BY Zenon DEF Rule

\* What the explainer says of a result that has a rule.
LEMMA Advises ==
    ASSUME NEW res, res.summary \in Nothing \cup Worked \cup Escalated, os \in OS
    PROVE  /\ For(res) # None
           /\ For(res).do = (res.summary \notin Nothing)
           /\ For(res).fixes = FixFor(res.summary) \cap Fixes(os)
           /\ For(res).wizards = WizardFor(res.summary) \cap Wizards(os)
           /\ For(res).escalate = (res.summary \in Escalated)
<1> DEFINE v == res.summary
           advise == v \notin Nothing
           refer == v \in Escalated
           X == FixFor(v) \cap Fixes(os)
           W == WizardFor(v) \cap Wizards(os)
<1>1. v \in DOMAIN rules
  BY DEF rules
<1>2. rules[v] = Rule(advise, FixFor(v), WizardFor(v), refer)
  BY Zenon DEF rules
<1>3. advise \in BOOLEAN /\ refer \in BOOLEAN
  BY TrueOrFalse, Zenon
<1>4. X \in SUBSET UNION {Fixes(o) : o \in OS} /\ W \in SUBSET UNION {Wizards(o) : o \in OS}
  <2>1. Fixes(os) \in {Fixes(o) : o \in OS} /\ Wizards(os) \in {Wizards(o) : o \in OS}
    OBVIOUS
  <2>2. Fixes(os) \subseteq UNION {Fixes(o) : o \in OS} /\
        Wizards(os) \subseteq UNION {Wizards(o) : o \in OS}
    BY <2>1, Zenon
  <2> QED
    BY <2>2
<1>5. For(res) = Rule(advise, X, W, refer)
  <2> DEFINE F == FixFor(v)
             G == WizardFor(v)
             r == rules[v]
  <2>1. r = Rule(advise, F, G, refer)
    BY <1>2
  <2>2. /\ r.do = advise /\ r.fixes = F /\ r.wizards = G /\ r.escalate = refer
    <3> HIDE DEF advise, refer, F, G, r
    <3> QED
      BY <2>1, RuleFields
  <2> QED
    BY <1>1, <2>2 DEF For
<1> HIDE DEF advise, refer, X, W
<1>6. Rule(advise, X, W, refer) # None
  <2>1. Rule(advise, X, W, refer) \in
          [do : BOOLEAN, fixes : SUBSET UNION {Fixes(o) : o \in OS},
           wizards : SUBSET UNION {Wizards(o) : o \in OS}, escalate : BOOLEAN]
    BY <1>3, <1>4 DEF Rule
  <2> QED
    BY <2>1, AbsenceAssumption
<1>7. For(res).do = advise /\ For(res).fixes = X /\ For(res).wizards = W /\
      For(res).escalate = refer
  BY <1>5, RuleFields
<1> QED
  BY <1>5, <1>6, <1>7 DEF advise, refer, X, W

\* A result whose message has a rule of its severity is answered.
LEMMA AnsweredFinding ==
    ASSUME ResultInv, os \in OS PROVE FindingIsAnswered
<1> SUFFICES ASSUME result # None, result.summary # ""
             PROVE  LET advice == For(result) IN
        /\ advice # None
        /\ advice.do = (result.severity # "ok")
        /\ result.severity = "ok" => advice.fixes = {} /\ ~advice.escalate
        /\ advice.fixes \subseteq Fixes(os) /\ advice.wizards \subseteq Wizards(os)
  BY DEF FindingIsAnswered
<1>0. Unknown("").summary = ""
  BY DEF Unknown, Finding
<1>1. Answered(result)
  BY <1>0 DEF ResultInv
<1>2. result.summary \in Nothing \cup Worked \cup Escalated
  BY <1>1 DEF Answered
<1>3. /\ (result.summary \notin Nothing) = (result.severity # "ok")
      /\ result.severity = "ok" => result.summary \notin Escalated /\ result.summary \in Nothing
  BY <1>1, NothingToDo DEF Answered
<1>4. result.severity = "ok" => FixFor(result.summary) = {}
  BY <1>3 DEF FixFor, Nothing
<1> QED
  BY <1>2, <1>3, <1>4, Advises

\* Every collector brings back readings of its check, or an error and none.
LEMMA Collected ==
    ASSUME NEW c \in Checks, NEW o \in Platforms(c), NEW m, Machine(c, o, m)
    PROVE  Reads(Collect(c, o, [s \in DOMAIN m |-> run(m[s])]), Readings(c))
<1> DEFINE a == [s \in DOMAIN m |-> run(m[s])]
<1>1. o \in OS
  BY DEF Platforms, OS
<1>2. CASE o = "linux"
  BY <1>2, LinuxCollects DEF Machine, Collect
<1>3. CASE o = "darwin"
  BY <1>3, DarwinCollects DEF Machine, Collect
<1>4. CASE o = "windows"
  BY <1>4, WindowsCollects DEF Machine, Collect
<1> QED
  BY <1>1, <1>2, <1>3, <1>4 DEF OS

\* Readings that were made are judged; where none were, the verdict is unknown, or there
\* is none.
Judged(f, res) ==
    \/ f \in Readings(check) /\ res = Judge(check, f)
    \/ f = None /\ (res = None \/ res.severity = "unknown")

\* The last snapshot: the check has not run, broke, or ran on some machine.
AnswerInv ==
    \/ machine = None /\ readings = None /\ (result = None \/ result = Unknown(""))
    \/ /\ Offered
       /\ machine \in Machines[check][os]
       /\ readings = Asked(machine).f
       /\ result = Verdict(machine)

CheckInv ==
    /\ check \in Check
    /\ os \in OS
    /\ AnswerInv
    /\ Judged(before.readings, before.result)

\* What a run files is the judgement of what it read, or unknown.
LEMMA AskedJudged ==
    ASSUME check \in Check, Offered, NEW m \in Machines[check][os]
    PROVE  Judged(Asked(m).f, Verdict(m))
<1>1. check \in Checks /\ os \in Platforms(check) /\ Machine(check, os, m)
  BY CheckAssumption, MachinesAssumption DEF Offered
<1>2. Reads(Asked(m), Readings(check))
  BY <1>1, Collected DEF Asked
<1> QED
  BY <1>2, UnknownIsAnswered DEF Reads, Judged, Verdict

\* So is the last result, at every moment.
LEMMA AnswerJudged ==
    ASSUME CheckInv PROVE Judged(readings, result)
<1>1. CASE machine = None /\ readings = None /\ (result = None \/ result = Unknown(""))
  <2>1. Unknown("").severity = "unknown"
    BY DEF Unknown, Finding
  <2> QED
    BY <1>1, <2>1 DEF Judged
<1>2. CASE /\ Offered
           /\ machine \in Machines[check][os]
           /\ readings = Asked(machine).f
           /\ result = Verdict(machine)
  BY <1>2, AskedJudged DEF CheckInv
<1> QED
  BY <1>1, <1>2 DEF CheckInv, AnswerInv

\* At the start nothing has run.
LEMMA CheckInvInit == Init => CheckInv
BY DEF Init, CheckInv, AnswerInv, Judged

\* The judgement of a run goes with its readings, and becomes that of the snapshot
\* before.
LEMMA CheckInvStep == CheckInv /\ [Next]_vars => CheckInv'
<1> SUFFICES ASSUME CheckInv, [Next]_vars PROVE CheckInv'
  OBVIOUS
<1>0. Judged(readings, result)
  BY AnswerJudged
<1>1. ASSUME NEW m \in Machines[check][os], Answer(m) PROVE CheckInv'
  <2>1. check' = check /\ os' = os /\ Offered /\ Offered'
    BY <1>1 DEF Answer, Report, Offered
  <2>2. machine' = m /\ readings' = Asked(m).f /\ result' = Verdict(m)
    BY <1>1 DEF Answer, Report
  <2>3. Asked(m)' = Asked(m) /\ Verdict(m)' = Verdict(m)
    BY <2>1 DEF Asked, Verdict
  <2>4. AnswerInv'
    BY <1>1, <2>1, <2>2, <2>3 DEF AnswerInv, Asked, Verdict
  <2>5. before'.readings = readings /\ before'.result = result
    BY <1>1 DEF Answer, Report
  <2>6. Judged(before.readings, before.result)'
    BY <1>0, <2>1, <2>5 DEF Judged
  <2> QED
    BY <2>1, <2>4, <2>6 DEF CheckInv
<1>2. CASE Breaks
  <2>1. check' = check /\ os' = os /\ before'.readings = readings /\ before'.result = result
    BY <1>2 DEF Breaks, Report
  <2>2. machine' = None /\ readings' = None /\ result' = Unknown("")
    BY <1>2 DEF Breaks, Report
  <2>3. Judged(before.readings, before.result)'
    BY <1>0, <2>1 DEF Judged
  <2> QED
    BY <2>1, <2>2, <2>3 DEF CheckInv, AnswerInv
<1>3. CASE UNCHANGED <<os, check, machine, readings, result, before>>
  BY <1>3 DEF CheckInv, AnswerInv, Judged, Offered, Asked, Verdict
<1> QED
  BY <1>1, <1>2, <1>3 DEF Next, Skip, LeaveOut, vars

\* The invariant of a check's snapshots holds.
LEMMA CheckInvAlways == Spec => []CheckInv
BY CheckInvInit, CheckInvStep, PTL DEF Spec

\* Every finding has a rule in the explainer's table, one that fits its severity and
\* offers what this build carries (explain.go:71-72), for every machine.
THEOREM Answering == Spec => []FindingIsAnswered
<1>1. CheckInv => FindingIsAnswered
  <2> SUFFICES ASSUME CheckInv PROVE FindingIsAnswered
    OBVIOUS
  <2>1. check \in Checks /\ os \in OS
    BY CheckAssumption DEF CheckInv
  <2>2. ResultInv
    BY <2>1, VerdictIsAnswered DEF CheckInv, AnswerInv, ResultInv
  <2> QED
    BY <2>1, <2>2, AnsweredFinding
<1> QED
  BY <1>1, CheckInvAlways, PTL

-----------------------------------------------------------------------------
(* Readings that got worse.                                                  *)

\* Of numbers at the places of a sequence, one is not exceeded.
LEMMA Utmost ==
    ASSUME NEW N \in Nat, NEW S, S \subseteq 1..N, S # {}, NEW f, \A i \in S : f[i] \in Int
    PROVE  \E i \in S : \A j \in S : f[j] <= f[i]
<1> DEFINE upTo(n) == {i \in S : i \in 1..n}
           P == {n \in 0..N : upTo(n) = {} \/ \E i \in upTo(n) : \A j \in upTo(n) : f[j] <=
               f[i]}
<1>1. 0 \in P
  <2>1. upTo(0) = {}
    OBVIOUS
  <2> HIDE DEF upTo
  <2> QED
    BY <2>1
<1>2. ASSUME NEW n \in 0..N, n # N, n \in P PROVE n + 1 \in P
  <2>1. /\ n + 1 \in 0..N
        /\ \A i : i \in 1..n + 1 <=> i \in 1..n \/ i = n + 1
    BY <1>2, NextUp
  <2>2. CASE n + 1 \notin S
    <3>1. upTo(n + 1) = upTo(n)
      BY <2>1, <2>2
    <3> HIDE DEF upTo
    <3> QED
      BY <1>2, <2>1, <3>1
  <2>3. CASE n + 1 \in S
    <3>1. \A i : i \in upTo(n + 1) <=> i \in upTo(n) \/ i = n + 1
      BY <2>1, <2>3
    <3>2. upTo(n) \subseteq S /\ upTo(n + 1) \subseteq S
      OBVIOUS
    <3> HIDE DEF upTo
    <3>3. CASE upTo(n) = {}
      <4>1. \A j \in upTo(n + 1) : f[j] <= f[n + 1]
        BY <2>3, <3>1, <3>3
      <4> QED
        BY <2>1, <3>1, <4>1
    <3>4. CASE upTo(n) # {}
      <4>1. PICK i \in upTo(n) : \A j \in upTo(n) : f[j] <= f[i]
        BY <1>2, <3>4
      <4>2. CASE f[n + 1] <= f[i]
        <5>1. \A j \in upTo(n + 1) : f[j] <= f[i]
          BY <3>1, <4>1, <4>2
        <5> QED
          BY <2>1, <3>1, <5>1
      <4>3. CASE ~(f[n + 1] <= f[i])
        <5>1. \A j \in upTo(n + 1) : f[j] \in Int
          BY <3>2
        <5>2. \A j \in upTo(n + 1) : f[j] <= f[n + 1]
          BY <3>1, <4>1, <4>3, <5>1
        <5> QED
          BY <2>1, <3>1, <5>2
      <4> QED
        BY <4>2, <4>3
    <3> QED
      BY <3>3, <3>4
  <2> QED
    BY <2>2, <2>3
<1>3. N \in P
  <2> HIDE DEF P
  <2> QED
    BY <1>1, <1>2, Induct
<1>4. upTo(N) = S
  OBVIOUS
<1> QED
  BY <1>3, <1>4

Findings == [severity : Severity, summary : DOMAIN rules \cup {""},
    names : STRING \cup {NoName}]

\* A finding with a rule is a finding.
LEMMA FoundIt ==
    ASSUME NEW severity \in Severity, NEW summary \in Nothing \cup Worked \cup Escalated,
           NEW name \in STRING \cup {NoName}
    PROVE  /\ Finding(severity, summary) \in Findings
           /\ [Finding(severity, summary) EXCEPT !.names = name] \in Findings
<1>1. DOMAIN rules = Nothing \cup Worked \cup Escalated
  BY DEF rules
<1> QED
  BY <1>1 DEF Finding, Findings

\* The drive that a verdict names is one of them.
LEMMA WorstDrive ==
    ASSUME NEW drives \in Drives
    PROVE  LET failing == {i \in DOMAIN drives : drives[i].status = "failing"}
               retired == {i \in DOMAIN drives : drives[i].reallocated > 0}
               early == {i \in retired : \A j \in failing : i < j}
               worst == {i \in early : \A j \in early : drives[j].reallocated <=
                   drives[i].reallocated}
           IN  failing # {} \/ retired # {} =>
                  drives[Min(IF worst = {} THEN failing ELSE worst)].name \in STRING
<1> DEFINE failing == {i \in DOMAIN drives : drives[i].status = "failing"}
           retired == {i \in DOMAIN drives : drives[i].reallocated > 0}
           early == {i \in retired : \A j \in failing : i < j}
           worst == {i \in early : \A j \in early : drives[j].reallocated <=
               drives[i].reallocated}
           S == IF worst = {} THEN failing ELSE worst
<1>0. drives \in Seq(DriveRead)
  BY DEF Drives, DriveRead
<1>1. Len(drives) \in Nat /\ DOMAIN drives = 1..Len(drives) /\
      \A i \in DOMAIN drives : drives[i] \in DriveRead
  BY <1>0, LenProperties
<1>2. S \subseteq DOMAIN drives
  OBVIOUS
<1>3. ASSUME failing # {} \/ retired # {} PROVE S # {}
  <2>1. CASE failing # {}
    BY <2>1
  <2>2. CASE failing = {}
    <3>1. early = retired
      BY <2>2
    <3>2. early # {}
      BY <1>3, <2>2, <3>1
    <3>3. early \subseteq 1..Len(drives)
      BY <1>1
    <3> DEFINE count == [i \in DOMAIN drives |-> drives[i].reallocated]
    <3>4. \A i \in early : count[i] \in Int /\ count[i] = drives[i].reallocated
      BY <1>1 DEF DriveRead
    <3>5. \E i \in early : \A j \in early : count[j] <= count[i]
      <4> HIDE DEF early, count
      <4> QED
        BY <1>1, <3>2, <3>3, <3>4, Utmost
    <3>6. worst # {}
      <4> HIDE DEF early, count
      <4> QED
        BY <3>4, <3>5 DEF worst
    <3> QED
      BY <3>6
  <2> QED
    BY <2>1, <2>2
<1>4. ASSUME failing # {} \/ retired # {} PROVE drives[Min(S)].name \in STRING
  <2>1. S # {} /\ S \subseteq Nat
    BY <1>1, <1>2, <1>3, <1>4
  <2> HIDE DEF S
  <2>2. Min(S) \in S
    BY <2>1, Least
  <2> QED
    BY <1>1, <1>2, <2>2 DEF DriveRead
<1> QED
  BY <1>4

\* Whatever is read, a judgement is a finding.
LEMMA JudgedIsFound ==
    ASSUME NEW c \in Checks, NEW f \in Readings(c)
    PROVE  Judge(c, f) \in Findings
<1> USE DEF OK, Attention, Urgent, Unknown, Severity, Nothing, Worked, Escalated
<1>0. NoName \in STRING \cup {NoName}
  OBVIOUS
<1>1. volumesVerdict(f) \in Findings
  BY <1>0, FoundIt DEF volumesVerdict
<1>3. loadVerdict(f) \in Findings
  BY <1>0, FoundIt DEF loadVerdict
<1>4. postureVerdict(f) \in Findings
  BY <1>0, FoundIt DEF postureVerdict
<1>5. eventsVerdict(f) \in Findings
  BY <1>0, FoundIt DEF eventsVerdict
<1>6. patchesVerdict(f) \in Findings
  BY <1>0, FoundIt DEF patchesVerdict
<1>7. updatesVerdict(f) \in Findings
  BY <1>0, FoundIt DEF updatesVerdict
<1>8. configVerdict(f) \in Findings
  BY <1>0, FoundIt DEF configVerdict
<1>9. backupVerdict(f) \in Findings
  BY <1>0, FoundIt DEF backupVerdict
<1>10. problemVerdict(f) \in Findings /\ startupVerdict(f) \in Findings /\
       osVerdict \in Findings
  BY <1>0, FoundIt DEF problemVerdict, startupVerdict, osVerdict
<1>11. hardwareVerdict(f) \in Findings /\ ramVerdict(f) \in Findings /\
       batteryVerdict(f) \in Findings
  BY <1>0, FoundIt DEF hardwareVerdict, ramVerdict, batteryVerdict
<1>2. ASSUME f \in Drives PROVE disksVerdict(f) \in Findings
  <2> DEFINE failing == {i \in DOMAIN f : f[i].status = "failing"}
             retired == {i \in DOMAIN f : f[i].reallocated > 0}
             early == {i \in retired : \A j \in failing : i < j}
             worst == {i \in early : \A j \in early : f[j].reallocated <= f[i].reallocated}
             name == f[Min(IF worst = {} THEN failing ELSE worst)].name
  <2>1. failing # {} \/ retired # {} => name \in STRING
    BY <1>2, WorstDrive
  <2>2. /\ disksVerdict(f) =
              IF f = <<>> THEN Unknown("disk.smart.no_disks")
              ELSE IF failing # {} THEN [Urgent("disk.smart.failing") EXCEPT !.names = name]
              ELSE IF retired # {}
              THEN [Attention("disk.smart.bad_spots") EXCEPT !.names = name]
              ELSE IF \A i \in DOMAIN f : f[i].status = "unknown"
                   THEN Unknown("disk.smart.unknown")
              ELSE OK("disk.smart.ok")
    BY DEF disksVerdict
  <2>3. Unknown("disk.smart.no_disks") \in Findings /\
        Unknown("disk.smart.unknown") \in Findings
        /\ OK("disk.smart.ok") \in Findings
    BY <1>0, FoundIt
  <2>4. ASSUME NEW n \in STRING
        PROVE  /\ [Urgent("disk.smart.failing") EXCEPT !.names = n] \in Findings
               /\ [Attention("disk.smart.bad_spots") EXCEPT !.names = n] \in Findings
    BY FoundIt
  <2> HIDE DEF failing, retired, name, OK, Attention, Urgent, Unknown
  <2> QED
    BY <2>1, <2>2, <2>3, <2>4
<1> HIDE DEF OK, Attention, Urgent, Unknown, Severity, Nothing, Worked, Escalated
<1>12. c = "disk.smart" => f \in Drives
  BY DEF Readings, Drives, DriveRead
<1> QED
  BY <1>1, <1>2, <1>3, <1>4, <1>5, <1>6, <1>7, <1>8, <1>9, <1>10, <1>11, <1>12
     DEF Judge, Checks

\* A finding is not the absence of one.
LEMMA FoundIsThere ==
    ASSUME NEW v \in Findings PROVE v # None
BY AbsenceAssumption DEF Findings

\* A verdict that is known stays known and improves no rank.
NotImproved(v, w) ==
    v.severity # "unknown" =>
        w.severity # "unknown" /\ severityRank(w.severity) >= severityRank(v.severity)

\* Less free space is no better.
LEMMA VolumesMonotone ==
    ASSUME NEW f \in Seq(Nat), NEW g \in Seq(Nat), Len(f) = Len(g),
           \A i \in DOMAIN f : g[i] <= f[i]
    PROVE  NotImproved(volumesVerdict(f), volumesVerdict(g))
<1> DEFINE lowest(s) == CHOOSE p \in ToSet(s) : \A q \in ToSet(s) : p <= q
<1>1. ASSUME NEW s \in Seq(Nat), s # <<>>
      PROVE  lowest(s) \in ToSet(s) /\ lowest(s) \in Nat /\ \A q \in ToSet(s) : lowest(s) <= q
  <2>1. ToSet(s) \subseteq Nat /\ ToSet(s) # {}
    <3>1. \A i \in DOMAIN s : s[i] \in Nat
      OBVIOUS
    <3>2. 1 \in DOMAIN s
      BY <1>1
    <3> QED
      BY <3>1, <3>2 DEF ToSet
  <2>2. \E p \in ToSet(s) : \A q \in ToSet(s) : p <= q
    BY <2>1, Least
  <2> QED
    BY <2>1, <2>2
<1>2. f = <<>> <=> g = <<>>
  BY LenProperties
<1>3. ASSUME f # <<>> PROVE lowest(g) <= lowest(f) /\ lowest(f) \in Nat /\ lowest(g) \in Nat
  <2>1. lowest(f) \in ToSet(f) /\ lowest(f) \in Nat /\ lowest(g) \in Nat /\
        \A q \in ToSet(g) : lowest(g) <= q
    BY <1>1, <1>2, <1>3
  <2> HIDE DEF lowest
  <2>2. PICK i \in DOMAIN f : lowest(f) = f[i]
    BY <2>1 DEF ToSet
  <2>3. i \in DOMAIN g
    BY LenProperties
  <2>4. g[i] \in ToSet(g) /\ g[i] \in Nat
    BY <2>3 DEF ToSet
  <2>5. g[i] <= f[i] /\ f[i] \in Nat
    OBVIOUS
  <2> QED
    BY <2>1, <2>2, <2>4, <2>5
<1>4. \A s : volumesVerdict(s) =
        CASE s = <<>> -> Unknown("disk.volumes.none")
          [] s # <<>> /\ lowest(s) < 5 -> Urgent("disk.volumes.critical")
          [] s # <<>> /\ lowest(s) >= 5 /\ lowest(s) < 10 -> Attention("disk.volumes.low")
          [] OTHER -> OK("disk.volumes.ok")
  BY DEF volumesVerdict, criticalSpacePercent, lowSpacePercent
<1> HIDE DEF lowest
<1>7. ASSUME NEW s, lowest(s) \in Nat \/ s = <<>>
      PROVE  volumesVerdict(s).severity =
                IF s = <<>> THEN "unknown"
                ELSE IF lowest(s) < 5 THEN "urgent"
                ELSE IF lowest(s) < 10 THEN "attention"
                ELSE "ok"
  BY <1>4, <1>7 DEF Unknown, Urgent, Attention, OK, Finding
<1>5. CASE f = <<>>
  BY <1>2, <1>7, <1>5 DEF NotImproved
<1>6. CASE f # <<>>
  <2>1. /\ volumesVerdict(f).severity # "unknown" /\ volumesVerdict(g).severity # "unknown"
        /\ severityRank(volumesVerdict(g).severity) >= severityRank(volumesVerdict(f).severity)
    BY <1>2, <1>3, <1>7, <1>6 DEF severityRank
  <2> QED
    BY <2>1 DEF NotImproved
<1> QED
  BY <1>5, <1>6

\* The severity of what is concluded from the drives.
LEMMA DisksSeverity ==
    ASSUME NEW f
    PROVE  disksVerdict(f).severity =
              IF f = <<>> THEN "unknown"
              ELSE IF \E i \in DOMAIN f : f[i].status = "failing" THEN "urgent"
              ELSE IF \E i \in DOMAIN f : f[i].reallocated > 0 THEN "attention"
              ELSE IF \A i \in DOMAIN f : f[i].status = "unknown" THEN "unknown"
              ELSE "ok"
<1> DEFINE failing == {i \in DOMAIN f : f[i].status = "failing"}
           retired == {i \in DOMAIN f : f[i].reallocated > 0}
           early == {i \in retired : \A j \in failing : i < j}
           worst == {i \in early : \A j \in early : f[j].reallocated <= f[i].reallocated}
           name == f[Min(IF worst = {} THEN failing ELSE worst)].name
<1>1. disksVerdict(f) =
        IF f = <<>> THEN Unknown("disk.smart.no_disks")
        ELSE IF failing # {} THEN [Urgent("disk.smart.failing") EXCEPT !.names = name]
        ELSE IF retired # {} THEN [Attention("disk.smart.bad_spots") EXCEPT !.names = name]
        ELSE IF \A i \in DOMAIN f : f[i].status = "unknown"
             THEN Unknown("disk.smart.unknown")
        ELSE OK("disk.smart.ok")
  BY DEF disksVerdict
<1>2. ASSUME NEW n
      PROVE  /\ [Urgent("disk.smart.failing") EXCEPT !.names = n].severity = "urgent"
             /\ [Attention("disk.smart.bad_spots") EXCEPT !.names = n].severity = "attention"
  BY DEF Urgent, Attention, Finding
<1>3. /\ Unknown("disk.smart.no_disks").severity = "unknown" /\
         Unknown("disk.smart.unknown").severity = "unknown"
      /\ OK("disk.smart.ok").severity = "ok"
  BY DEF Unknown, OK, Finding
<1>4. /\ (failing # {}) <=> \E i \in DOMAIN f : f[i].status = "failing"
      /\ (retired # {}) <=> \E i \in DOMAIN f : f[i].reallocated > 0
  OBVIOUS
<1> HIDE DEF failing, retired, name
<1> QED
  BY <1>1, <1>2, <1>3, <1>4

\* Drives that fail or retire more sectors are no better.
LEMMA DisksMonotone ==
    ASSUME NEW f \in Drives, NEW g \in Drives, Len(f) = Len(g),
           \A i \in DOMAIN f :
              /\ g[i].reallocated >= f[i].reallocated
              /\ g[i].status = f[i].status \/ <<f[i].status, g[i].status>> = <<"healthy",
                 "failing">>
    PROVE  NotImproved(disksVerdict(f), disksVerdict(g))
<1>1. f \in Seq(DriveRead) /\ g \in Seq(DriveRead)
  BY DEF Drives, DriveRead
<1>2. DOMAIN f = DOMAIN g /\ (f = <<>> <=> g = <<>>)
  BY <1>1, LenProperties
<1>3. ASSUME NEW i \in DOMAIN f
      PROVE  /\ f[i].status = "failing" => g[i].status = "failing"
             /\ f[i].reallocated > 0 => g[i].reallocated > 0
             /\ g[i].status = "unknown" => f[i].status = "unknown"
  <2>1. f[i] \in DriveRead /\ g[i] \in DriveRead
    BY <1>1, <1>2, LenProperties
  <2>2. f[i].reallocated \in Int /\ g[i].reallocated \in Int
    BY <2>1 DEF DriveRead
  <2>3. f[i].reallocated > 0 => g[i].reallocated > 0
    BY <2>2
  <2>4. /\ f[i].status = "failing" => g[i].status = "failing"
        /\ g[i].status = "unknown" => f[i].status = "unknown"
    <3>1. g[i].status = f[i].status \/ (f[i].status = "healthy" /\ g[i].status = "failing")
      OBVIOUS
    <3> QED
      BY <3>1
  <2> QED
    BY <2>3, <2>4
<1> QED
  BY <1>2, <1>3, DisksSeverity DEF NotImproved, severityRank

\* The severity of what is concluded from the load.
LEMMA LoadSeverity ==
    ASSUME NEW h
    PROVE  loadVerdict(h).severity =
              IF h.available = None /\ h.load = None /\ h.busy = None THEN "unknown"
              ELSE IF h.available # None /\ h.available < 10 THEN "urgent"
              ELSE IF \/ h.available # None /\ h.available < 20
                      \/ h.swap # None /\ h.swap > 50
                      \/ h.load # None /\ h.cores > 0 /\ h.load >= 2 * h.cores
                      \/ h.busy # None /\ h.busy >= 90 THEN "attention"
              ELSE "ok"
BY DEF loadVerdict, memoryCriticalPercent, memoryLowPercent, swapPressurePercent,
       loadPerCoreBusy, busyPercentNow, Unknown, Urgent, Attention, OK, Finding

\* Less memory and more load are no better.
LEMMA LoadMonotone ==
    ASSUME NEW f \in Loads, NEW g \in Loads,
           f.cores = g.cores, NoMore(f.available, g.available),
           NoLess(f.load, g.load), NoLess(f.busy, g.busy), NoLess(f.swap, g.swap),
           None \notin Int
    PROVE  NotImproved(loadVerdict(f), loadVerdict(g))
<1>1. /\ f.cores \in Nat /\ f.available \in Counter /\ f.load \in Counter /\
         f.busy \in Counter /\ f.swap \in Counter
      /\ g.cores \in Nat /\ g.available \in Counter /\ g.load \in Counter /\
         g.busy \in Counter /\ g.swap \in Counter
  BY DEF Loads
<1>3. /\ f.available = None <=> g.available = None
      /\ f.load = None <=> g.load = None
      /\ f.busy = None <=> g.busy = None
      /\ f.swap = None <=> g.swap = None
  BY DEF NoMore, NoLess
<1>4. /\ f.available # None => /\ f.available \in Nat /\ g.available \in Nat
                               /\ g.available <= f.available
      /\ f.load # None => f.load \in Nat /\ g.load \in Nat /\ g.load >= f.load
      /\ f.busy # None => f.busy \in Nat /\ g.busy \in Nat /\ g.busy >= f.busy
      /\ f.swap # None => f.swap \in Nat /\ g.swap \in Nat /\ g.swap >= f.swap
  BY <1>1, <1>3 DEF NoMore, NoLess, Counter
<1> QED
  BY <1>1, <1>3, <1>4, LoadSeverity DEF NotImproved, severityRank

\* The posture is judged by whether anything is off, and if not, by whether it was read.
LEMMA PostureSeverity ==
    ASSUME NEW f \in Posture
    PROVE  postureVerdict(f).severity =
              IF \E p \in DOMAIN f : f[p] = "off" THEN "attention"
              ELSE IF f.encryption = "unknown" /\ f.firewall = "unknown"
                      /\ f.antivirus \in {"unknown", "not_applicable"} THEN "unknown"
              ELSE "ok"
<1> DEFINE off == {p \in DOMAIN f : f[p] = "off"}
           unread == /\ f.encryption = "unknown"
                     /\ f.firewall = "unknown"
                     /\ f.antivirus \in {"unknown", "not_applicable"}
<1>1. postureVerdict(f) =
        CASE Cardinality(off) > 1 -> Attention("security.posture.several_off")
          [] off = {"encryption"} -> Attention("security.posture.no_encryption")
          [] off = {"firewall"} -> Attention("security.posture.no_firewall")
          [] off = {"antivirus"} -> Attention("security.posture.no_antivirus")
          [] off = {} /\ unread -> Unknown("security.posture.unreadable")
          [] OTHER -> OK("security.posture.ok")
  BY DEF postureVerdict
<1>2. off \subseteq {"encryption", "firewall", "antivirus"}
  BY DEF Posture
<1>3. IsFiniteSet(off) /\ Cardinality(off) \in Nat
  <2>1. IsFiniteSet({"encryption"} \cup {"firewall"} \cup {"antivirus"})
    BY FS_Singleton, FS_Union
  <2> HIDE DEF off
  <2> QED
    <3>1. off \subseteq {"encryption"} \cup {"firewall"} \cup {"antivirus"}
      BY <1>2
    <3>2. IsFiniteSet(off)
      BY <2>1, <3>1, FS_Subset
    <3> QED
      BY <3>2, FS_CardinalityType
<1>4. (off # {}) <=> \E p \in DOMAIN f : f[p] = "off"
  OBVIOUS
<1> HIDE DEF off
<1>5. CASE off = {}
  <2>1. Cardinality(off) = 0
    BY <1>5, FS_EmptySet
  <2> QED
    BY <1>1, <1>4, <1>5, <2>1 DEF Unknown, OK, Finding
<1>6. CASE off # {}
  <2>1. Cardinality(off) > 1 \/ off \in {{"encryption"}, {"firewall"}, {"antivirus"}}
    <3>1. CASE Cardinality(off) = 1
      <4>1. PICK p : off = {p}
        BY <1>3, <3>1, FS_Singleton
      <4>2. p \in {"encryption", "firewall", "antivirus"}
        BY <1>2, <4>1
      <4> QED
        BY <4>1, <4>2
    <3>2. Cardinality(off) # 0
      BY <1>3, <1>6, FS_EmptySet
    <3> QED
      BY <1>3, <3>1, <3>2
  <2> QED
    BY <1>1, <1>4, <1>6, <2>1 DEF Attention, Finding
<1> QED
  BY <1>5, <1>6

\* A protection that is switched off is no better.
LEMMA PostureMonotone ==
    ASSUME NEW f \in Posture, NEW g \in Posture,
           \A p \in DOMAIN f : g[p] = f[p] \/ <<f[p], g[p]>> = <<"on", "off">>
    PROVE  NotImproved(postureVerdict(f), postureVerdict(g))
<1>1. DOMAIN f = {"encryption", "firewall", "antivirus"} /\ DOMAIN g = DOMAIN f
  BY DEF Posture
<1>2. ASSUME NEW p \in DOMAIN f
      PROVE  /\ f[p] = "off" => g[p] = "off"
             /\ g[p] = "off" \/ g[p] = f[p]
  <2>1. g[p] = f[p] \/ (f[p] = "on" /\ g[p] = "off")
    OBVIOUS
  <2> QED
    BY <2>1
<1> QED
  BY <1>1, <1>2, PostureSeverity DEF NotImproved, severityRank

\* The severity of what is concluded from the log.
LEMMA EventsSeverity ==
    ASSUME NEW h
    PROVE  eventsVerdict(h).severity =
              IF h.errors # 0 /\ (h.critical > 0 \/ h.repeated >= 10) THEN "attention" ELSE "ok"
BY DEF eventsVerdict, repeatThreshold, OK, Attention, Finding

\* More events are no better.
LEMMA EventsMonotone ==
    ASSUME NEW f \in Logs, NEW g \in Logs,
           g.errors >= f.errors, g.critical >= f.critical, g.repeated >= f.repeated
    PROVE  NotImproved(eventsVerdict(f), eventsVerdict(g))
<1>1. /\ f.errors \in Nat /\ f.critical \in Nat /\ f.repeated \in Nat
      /\ g.errors \in Nat /\ g.critical \in Nat /\ g.repeated \in Nat
  BY DEF Logs
<1> QED
  BY <1>1, EventsSeverity DEF NotImproved, severityRank

\* The severity of what is concluded from the history.
LEMMA PatchesSeverity ==
    ASSUME NEW h, h.readable \in BOOLEAN
    PROVE  patchesVerdict(h).severity =
              IF ~h.readable THEN "unknown"
              ELSE IF h.applied = {} THEN "attention"
              ELSE IF \A a \in h.applied : a = None THEN "unknown"
              ELSE IF \E a \in h.applied : a # None /\ a <= 30 THEN "ok"
              ELSE "attention"
<1> DEFINE dated == {a \in h.applied : a # None}
<1>1. /\ dated = {} <=> \A a \in h.applied : a = None
      /\ (\E a \in dated : a <= 30) <=> \E a \in h.applied : a # None /\ a <= 30
  OBVIOUS
<1>2. patchesVerdict(h) =
        CASE ~h.readable -> Unknown("updates.installed.unreadable")
          [] h.readable /\ h.applied = {} -> Attention("updates.installed.none")
          [] h.readable /\ h.applied # {} /\ dated = {} ->
                Unknown("updates.installed.unreadable")
          [] h.readable /\ \E a \in dated : a <= 30 ->
                OK("updates.installed.recent")
          [] OTHER -> Attention("updates.installed.old")
  BY DEF patchesVerdict, recentWindow
<1> HIDE DEF dated
<1>3. dated = {} => ~\E a \in dated : a <= 30
  OBVIOUS
<1>4. h.applied = {} => ~\E a \in dated : a <= 30
  BY DEF dated
<1> QED
  BY <1>1, <1>2, <1>3, <1>4 DEF Unknown, Attention, OK, Finding

\* Patches that grew older are no better.
LEMMA PatchesMonotone ==
    ASSUME NEW f \in Histories, NEW g \in Histories, None \notin Int,
           g.readable = f.readable, NEW n \in 0..40, g.applied = Aged(f.applied, n)
    PROVE  NotImproved(patchesVerdict(f), patchesVerdict(g))
<1>2. f.readable \in BOOLEAN /\ g.readable \in BOOLEAN /\ f.applied \subseteq Int \cup {None}
  BY DEF Histories, Age
<1>3. /\ \A a \in f.applied : (IF a = None THEN None ELSE a + n) \in g.applied
      /\ \A b \in g.applied : \E a \in f.applied : b = IF a = None THEN None ELSE a + n
  BY DEF Aged
<1>4. /\ f.applied = {} <=> g.applied = {}
      /\ (\A a \in f.applied : a = None) <=> (\A b \in g.applied : b = None)
      /\ (\E b \in g.applied : b # None /\ b <= 30) => \E a \in f.applied : a # None /\ a <= 30
  <2>1. f.applied = {} <=> g.applied = {}
    BY <1>3
  <2>2. ASSUME \A b \in g.applied : b = None, NEW a \in f.applied PROVE a = None
    BY <1>2, <1>3, <2>2
  <2>3. ASSUME NEW b \in g.applied, b # None, b <= 30
        PROVE \E a \in f.applied : a # None /\ a <= 30
    BY <1>2, <1>3, <2>3
  <2>4. ASSUME \A a \in f.applied : a = None, NEW b \in g.applied PROVE b = None
    BY <1>3, <2>4
  <2> QED
    BY <2>1, <2>2, <2>3, <2>4
<1> QED
  BY <1>2, <1>4, PatchesSeverity DEF NotImproved, severityRank

\* The severity of what is concluded from the last update.
LEMMA UpdatesSeverity ==
    ASSUME NEW h
    PROVE  updatesVerdict(h).severity =
              IF h.age = None THEN IF h.pending > 0 THEN "attention" ELSE "unknown"
              ELSE IF h.age > 180 THEN "urgent"
              ELSE IF h.age > 60 \/ h.pending > 0 THEN "attention" ELSE "ok"
BY DEF updatesVerdict, staleAfter, veryStaleAfter, Attention, Unknown, Urgent, OK,
       Finding

\* An update longer ago, or more of them waiting, is no better.
LEMMA UpdatesMonotone ==
    ASSUME NEW f \in UpdateReads, NEW g \in UpdateReads, None \notin Int,
           NoLess(f.age, g.age), g.pending >= f.pending, (f.pending = -1) = (g.pending = -1)
    PROVE  NotImproved(updatesVerdict(f), updatesVerdict(g))
<1>1. f.age \in Age /\ g.age \in Age /\ f.pending \in Int /\ g.pending \in Int
  BY DEF UpdateReads
<1>2. /\ f.age = None <=> g.age = None
      /\ f.age # None => f.age \in Int /\ g.age \in Int /\ g.age >= f.age
  BY <1>1 DEF NoLess, Age
<1> QED
  BY <1>1, <1>2, UpdatesSeverity DEF NotImproved, severityRank

\* The severity of what is concluded from the network.
LEMMA NetworkSeverity ==
    ASSUME NEW f \in Networks
    PROVE  configVerdict(f).severity =
              IF activeInterfaces(f.interfaces) = {} THEN "urgent"
              ELSE IF ~f.routeErr /\ (~f.gateway \/ ~f.dns) THEN "attention" ELSE "ok"
<1>1. f.gateway \in BOOLEAN /\ f.dns \in BOOLEAN /\ f.routeErr \in BOOLEAN
  BY DEF Networks
<1> QED
  BY <1>1 DEF configVerdict, Urgent, Attention, OK, Finding

\* Fewer interfaces, and no gateway or server, are no better.
LEMMA NetworkMonotone ==
    ASSUME NEW f \in Networks, NEW g \in Networks,
           activeInterfaces(g.interfaces) \subseteq activeInterfaces(f.interfaces),
           g.routeErr = f.routeErr, g.gateway => f.gateway, g.dns => f.dns
    PROVE  NotImproved(configVerdict(f), configVerdict(g))
<1>1. activeInterfaces(f.interfaces) = {} => activeInterfaces(g.interfaces) = {}
  OBVIOUS
<1>2. /\ f.gateway \in BOOLEAN /\ f.dns \in BOOLEAN /\ f.routeErr \in BOOLEAN
      /\ g.gateway \in BOOLEAN /\ g.dns \in BOOLEAN /\ g.routeErr \in BOOLEAN
  BY DEF Networks
<1> QED
  BY <1>1, <1>2, NetworkSeverity DEF NotImproved, severityRank

\* The severity of what is concluded from the last backup.
LEMMA BackupSeverity ==
    ASSUME NEW h
    PROVE  backupVerdict(h).severity =
              IF ~h.supported THEN "unknown"
              ELSE IF ~h.configured THEN "attention"
              ELSE IF h.last = None THEN "attention"
              ELSE IF h.last < 0 THEN "unknown"
              ELSE IF h.last > 30 THEN "urgent"
              ELSE IF h.last > 7 THEN "attention"
              ELSE "ok"
BY DEF backupVerdict, freshWindow, staleWindow, Attention, Unknown, Urgent, OK, Finding

\* A backup longer ago is no better.
LEMMA BackupMonotone ==
    ASSUME NEW f \in BackupReads, NEW g \in BackupReads, None \notin Int,
           f.supported = g.supported, f.configured = g.configured, NoLess(f.last, g.last)
    PROVE  NotImproved(backupVerdict(f), backupVerdict(g))
<1>1. f.last \in Age /\ g.last \in Age /\ f.supported \in BOOLEAN /\ f.configured \in BOOLEAN
  BY DEF BackupReads
<1>2. /\ f.last = None <=> g.last = None
      /\ f.last # None => f.last \in Int /\ g.last \in Int /\ g.last >= f.last
  BY <1>1 DEF NoLess, Age
<1> QED
  BY <1>1, <1>2, BackupSeverity DEF NotImproved, severityRank

\* More devices with a problem, and less memory, are no better.
LEMMA NumbersMonotone ==
    ASSUME NEW f \in Nat, NEW g \in Nat
    PROVE  /\ g >= f => NotImproved(problemVerdict(f), problemVerdict(g))
           /\ f > 0 /\ g > 0 /\ g <= f => NotImproved(ramVerdict(f), ramVerdict(g))
<1>1. ASSUME NEW h \in Nat
      PROVE  /\ problemVerdict(h).severity = IF h = 0 THEN "ok" ELSE "attention"
             /\ ramVerdict(h).severity = IF h > 0 /\ h < 4 THEN "attention" ELSE "ok"
  BY DEF problemVerdict, ramVerdict, lowMemoryGiB, OK, Attention, Finding
<1> QED
  BY <1>1 DEF NotImproved, severityRank

\* The severity of what is concluded from the battery.
LEMMA BatterySeverity ==
    ASSUME NEW h
    PROVE  batteryVerdict(h).severity =
              IF ~h.present THEN "ok"
              ELSE IF h.percent = 0 THEN "unknown"
              ELSE IF h.percent < 50 THEN "urgent"
              ELSE IF h.percent < 80 THEN "attention"
              ELSE "ok"
BY DEF batteryVerdict, OK, Unknown, Urgent, Attention, Finding

\* A battery that wears is no better.
LEMMA BatteryMonotone ==
    ASSUME NEW f \in Batteries, NEW g \in Batteries,
           f.present = g.present, g.percent <= f.percent, f.percent > 0 => g.percent > 0
    PROVE  NotImproved(batteryVerdict(f), batteryVerdict(g))
<1>1. /\ f.present \in BOOLEAN /\ f.percent \in Nat
      /\ g.present \in BOOLEAN /\ g.percent \in Nat
  BY DEF Batteries
<1> QED
  BY <1>1, BatterySeverity DEF NotImproved, severityRank

\* These three conclude nothing but that there is nothing to do.
LEMMA AlwaysOK ==
    ASSUME NEW f
    PROVE  /\ startupVerdict(f).severity = "ok" /\ osVerdict.severity = "ok"
           /\ hardwareVerdict(f).severity = "ok"
BY DEF startupVerdict, osVerdict, hardwareVerdict, OK, Finding

\* The judgement of no check improves with readings that got worse.
LEMMA JudgeMonotone ==
    ASSUME check \in Checks, NEW f \in Readings(check), NEW g \in Readings(check),
           NoBetter(f, g)
    PROVE  NotImproved(Judge(check, f), Judge(check, g))
<1>0. None \notin Int
  BY NoneAssumption
<1>1. CASE check = "disk.volumes"
  <2>1. f \in Seq(Nat) /\ g \in Seq(Nat)
    BY <1>1 DEF Readings
  <2>2. Len(f) = Len(g) /\ \A i \in DOMAIN f : g[i] <= f[i]
    BY <1>1 DEF NoBetter
  <2>3. Judge(check, f) = volumesVerdict(f) /\ Judge(check, g) = volumesVerdict(g)
    BY <1>1 DEF Judge
  <2> QED
    BY <2>1, <2>2, <2>3, VolumesMonotone
<1>2. CASE check = "disk.smart"
  <2>1. f \in Drives /\ g \in Drives
    BY <1>2 DEF Readings, Drives, DriveRead
  <2>2. /\ Len(f) = Len(g)
        /\ \A i \in DOMAIN f :
              /\ g[i].reallocated >= f[i].reallocated
              /\ g[i].status = f[i].status \/ <<f[i].status, g[i].status>> = <<"healthy",
                 "failing">>
    BY <1>2 DEF NoBetter
  <2>3. Judge(check, f) = disksVerdict(f) /\ Judge(check, g) = disksVerdict(g)
    BY <1>2 DEF Judge
  <2> QED
    BY <2>1, <2>2, <2>3, DisksMonotone
<1>3. CASE check = "performance.load"
  <2>1. f \in Loads /\ g \in Loads
    BY <1>3 DEF Readings, Loads
  <2>2. /\ f.cores = g.cores /\ NoMore(f.available, g.available)
        /\ NoLess(f.load, g.load) /\ NoLess(f.busy, g.busy) /\ NoLess(f.swap, g.swap)
    BY <1>3 DEF NoBetter
  <2>3. Judge(check, f) = loadVerdict(f) /\ Judge(check, g) = loadVerdict(g)
    BY <1>3 DEF Judge
  <2> QED
    BY <1>0, <2>1, <2>2, <2>3, LoadMonotone
<1>4. CASE check = "security.posture"
  <2>1. f \in Posture /\ g \in Posture
    BY <1>4 DEF Readings, Posture, Protections
  <2>2. \A p \in DOMAIN f : g[p] = f[p] \/ <<f[p], g[p]>> = <<"on", "off">>
    BY <1>4 DEF NoBetter
  <2>3. Judge(check, f) = postureVerdict(f) /\ Judge(check, g) = postureVerdict(g)
    BY <1>4 DEF Judge
  <2> QED
    BY <2>1, <2>2, <2>3, PostureMonotone
<1>5. CASE check = "eventlog.errors"
  <2>1. f \in Logs /\ g \in Logs
    BY <1>5 DEF Readings, Logs
  <2>2. g.errors >= f.errors /\ g.critical >= f.critical /\ g.repeated >= f.repeated
    BY <1>5 DEF NoBetter
  <2>3. Judge(check, f) = eventsVerdict(f) /\ Judge(check, g) = eventsVerdict(g)
    BY <1>5 DEF Judge
  <2> QED
    BY <2>1, <2>2, <2>3, EventsMonotone
<1>6. CASE check = "updates.installed"
  <2>1. f \in Histories /\ g \in Histories
    BY <1>6 DEF Readings, Histories
  <2>2. g.readable = f.readable /\ \E n \in 0..40 : g.applied = Aged(f.applied, n)
    BY <1>6 DEF NoBetter
  <2>3. Judge(check, f) = patchesVerdict(f) /\ Judge(check, g) = patchesVerdict(g)
    BY <1>6 DEF Judge
  <2> QED
    BY <1>0, <2>1, <2>2, <2>3, PatchesMonotone
<1>7. CASE check = "updates.os"
  <2>1. f \in UpdateReads /\ g \in UpdateReads
    BY <1>7 DEF Readings, UpdateReads
  <2>2. NoLess(f.age, g.age) /\ g.pending >= f.pending /\ (f.pending = -1) = (g.pending = -1)
    BY <1>7 DEF NoBetter
  <2>3. Judge(check, f) = updatesVerdict(f) /\ Judge(check, g) = updatesVerdict(g)
    BY <1>7 DEF Judge
  <2> QED
    BY <1>0, <2>1, <2>2, <2>3, UpdatesMonotone
<1>8. CASE check = "network.config"
  <2>1. f \in Networks /\ g \in Networks
    BY <1>8 DEF Readings, Networks
  <2>2. /\ activeInterfaces(g.interfaces) \subseteq activeInterfaces(f.interfaces)
        /\ g.routeErr = f.routeErr /\ (g.gateway => f.gateway) /\ (g.dns => f.dns)
    BY <1>8 DEF NoBetter
  <2>3. Judge(check, f) = configVerdict(f) /\ Judge(check, g) = configVerdict(g)
    BY <1>8 DEF Judge
  <2> QED
    BY <2>1, <2>2, <2>3, NetworkMonotone
<1>9. CASE check = "backup.status"
  <2>1. f \in BackupReads /\ g \in BackupReads
    BY <1>9 DEF Readings, BackupReads
  <2>2. f.supported = g.supported /\ f.configured = g.configured /\ NoLess(f.last, g.last)
    BY <1>9 DEF NoBetter
  <2>3. Judge(check, f) = backupVerdict(f) /\ Judge(check, g) = backupVerdict(g)
    BY <1>9 DEF Judge
  <2> QED
    BY <1>0, <2>1, <2>2, <2>3, BackupMonotone
<1>10. CASE check \in {"drivers.problem", "hardware.ram"}
  <2>1. f \in Nat /\ g \in Nat
    BY <1>10 DEF Readings
  <2>2. /\ check = "drivers.problem" => g >= f
        /\ check = "hardware.ram" => f > 0 /\ g > 0 /\ g <= f
    BY <1>10 DEF NoBetter
  <2>3. /\ check = "drivers.problem" =>
              Judge(check, f) = problemVerdict(f) /\ Judge(check, g) = problemVerdict(g)
        /\ check = "hardware.ram" => Judge(check, f) = ramVerdict(f) /\ Judge(check,
           g) = ramVerdict(g)
    BY <1>10 DEF Judge
  <2> QED
    BY <1>10, <2>1, <2>2, <2>3, NumbersMonotone
<1>11. CASE check \in {"startup.items", "os.info", "hardware.inventory"}
  <2>1. Judge(check, f).severity = "ok" /\ Judge(check, g).severity = "ok"
    BY <1>11, AlwaysOK DEF Judge
  <2> QED
    BY <2>1 DEF NotImproved, severityRank
<1>12. CASE check = "battery.health"
  <2>1. f \in Batteries /\ g \in Batteries
    BY <1>12 DEF Readings, Batteries
  <2>2. f.present = g.present /\ g.percent <= f.percent /\ (f.percent > 0 => g.percent > 0)
    BY <1>12 DEF NoBetter
  <2>3. Judge(check, f) = batteryVerdict(f) /\ Judge(check, g) = batteryVerdict(g)
    BY <1>12 DEF Judge
  <2> QED
    BY <2>1, <2>2, <2>3, BatteryMonotone
<1> QED
  BY <1>1, <1>2, <1>3, <1>4, <1>5, <1>6, <1>7, <1>8, <1>9, <1>10, <1>11, <1>12
     DEF Checks

\* Readings that only got worse between two snapshots never turn a finding into a
\* lesser one, nor an answer into none (every verdict function).
THEOREM Worsening == Spec => []WorseNeverBetter
<1>1. CheckInv => WorseNeverBetter
  <2> SUFFICES ASSUME CheckInv, Known(before.result), readings # None,
                      NoBetter(before.readings, readings)
               PROVE  /\ Known(result)
                      /\ severityRank(result.severity) >= severityRank(before.result.severity)
    BY DEF WorseNeverBetter
  <2>1. check \in Checks
    BY CheckAssumption DEF CheckInv
  <2>2. readings \in Readings(check) /\ result = Judge(check, readings)
    BY AnswerJudged DEF Judged
  <2>3. before.readings \in Readings(check) /\ before.result = Judge(check, before.readings)
    BY DEF CheckInv, Judged, Known
  <2>4. NotImproved(before.result, result)
    BY <2>1, <2>2, <2>3, JudgeMonotone
  <2>5. result # None
    BY <2>1, <2>2, JudgedIsFound, FoundIsThere
  <2> QED
    BY <2>4, <2>5 DEF NotImproved, Known
<1> QED
  BY <1>1, CheckInvAlways, PTL

-----------------------------------------------------------------------------
(* Silence.                                                                  *)

\* A check that did not read what it judges by does not pass.
LEMMA UnreadSeverity ==
    ASSUME check \in Checks, NEW f \in Readings(check), Unread(f)
    PROVE  Judge(check, f).severity # "ok"
<1>0. f # None
  BY NoneAssumption
<1>1. CASE check = "disk.volumes"
  <2>1. Judge(check, f) = volumesVerdict(f) /\ f = <<>>
    BY <1>0, <1>1 DEF Judge, Unread
  <2> QED
    BY <2>1 DEF volumesVerdict, Unknown, Finding
<1>2. CASE check = "disk.smart"
  <2>1. Judge(check, f) = disksVerdict(f) /\ \A i \in DOMAIN f : f[i].status = "unknown"
    BY <1>0, <1>2 DEF Judge, Unread
  <2> QED
    BY <2>1, DisksSeverity
<1>3. CASE check = "performance.load"
  <2>1. Judge(check, f) = loadVerdict(f) /\ f.available = None /\ f.load = None /\ f.busy = None
    BY <1>0, <1>3 DEF Judge, Unread
  <2> QED
    BY <2>1, LoadSeverity
<1>4. CASE check = "security.posture"
  <2>1. Judge(check, f) = postureVerdict(f) /\ f \in Posture
    BY <1>4 DEF Judge, Readings, Posture, Protections
  <2>2. /\ \A p \in DOMAIN f : f[p] \in {"unknown", "not_applicable"}
        /\ f.encryption = "unknown" /\ f.firewall = "unknown"
    BY <1>0, <1>4 DEF Unread
  <2>3. "antivirus" \in DOMAIN f
    BY <2>1 DEF Posture
  <2>4. f.antivirus \in {"unknown", "not_applicable"}
    BY <2>2, <2>3
  <2> QED
    BY <2>1, <2>2, <2>4, PostureSeverity
<1>5. CASE check = "updates.installed"
  <2>1. Judge(check, f) = patchesVerdict(f) /\ f \in Histories
    BY <1>5 DEF Judge, Readings, Histories
  <2>2. ~f.readable \/ f.applied = {None}
    BY <1>0, <1>5 DEF Unread
  <2>3. f.readable \in BOOLEAN
    BY <2>1 DEF Histories
  <2> QED
    BY <2>1, <2>2, <2>3, PatchesSeverity
<1>6. CASE check = "updates.os"
  <2>1. Judge(check, f) = updatesVerdict(f) /\ f.age = None
    BY <1>0, <1>6 DEF Judge, Unread
  <2> QED
    BY <2>1, UpdatesSeverity
<1>7. CASE check = "backup.status"
  <2>1. Judge(check, f) = backupVerdict(f) /\ (~f.supported \/ f.last = None)
    BY <1>0, <1>7 DEF Judge, Unread
  <2> QED
    BY <2>1, BackupSeverity
<1>8. CASE check = "battery.health"
  <2>1. Judge(check, f) = batteryVerdict(f) /\ f.present /\ f.percent = 0
    BY <1>0, <1>8 DEF Judge, Unread
  <2> QED
    BY <2>1, BatterySeverity
<1> QED
  BY <1>0, <1>1, <1>2, <1>3, <1>4, <1>5, <1>6, <1>7, <1>8 DEF Unread

\* Nothing that can be read was said.
Mute(answer) == answer.err # "no" \/ answer.out = Garbled

\* A collector that fails, or readings that do not pass.
NotOK(c, r) == r.err # "no" \/ Judge(c, r.f).severity # "ok"

\* A collector that fails, or readings of which nothing can be concluded.
Unjudged(c, r) == r.err # "no" \/ Judge(c, r.f).severity = "unknown"

\* Of which no check passes.
LEMMA UnjudgedIsNotOK ==
    ASSUME NEW c, NEW r, Unjudged(c, r) PROVE NotOK(c, r)
BY DEF Unjudged, NotOK

\* What is read of a source that said nothing.
LEMMA MuteTable ==
    ASSUME NEW answer, Mute(answer)
    PROVE  /\ Unmarshal(answer).err # "no"
           /\ Text(answer).err # "no" \/ (Text(answer).err = "no" /\ Text(answer).f = <<>>)
           /\ Required(answer).err # "no"
           /\ FirstRow(answer).err # "no"
           /\ answer.err # "no" \/ Lines(answer.out) = <<>>
BY DEF Mute, Unmarshal, Text, Required, FirstRow, Then, Lines, NoFile, Fail, Got

\* Of nothing, nothing is kept.
LEMMA KeptOfNone ==
    ASSUME NEW places PROVE Kept(<<>>, places) = <<>>
<1>1. Len(<<>>) = 0
  OBVIOUS
<1>2. <<>> \in Seq({})
  OBVIOUS
<1>3. Kept(<<>>, places) \in Seq({(<<>>)[i] : i \in places \cap (1..0)})
  BY <1>1, <1>2, KeptHolds
<1>4. {(<<>>)[i] : i \in places \cap (1..0)} = {}
  OBVIOUS
<1> QED
  BY <1>3, <1>4

\* Where the interfaces cannot be listed nothing is known of the network.
LEMMA MuteNetwork ==
    ASSUME NEW a, a.interfaces.err # "no", NEW routing
    PROVE  Unjudged("network.config", collectNetwork(a, routing))
BY DEF collectNetwork, Unjudged, NoFile, Fail

\* An empty list of volumes, drives or patches is no pass.
LEMMA NothingListed ==
    /\ Unjudged("disk.volumes", Got(<<>>)) /\ Unjudged("disk.smart", Got(<<>>))
    /\ NotOK("updates.installed", Got(Record({})))
<1>1. volumesVerdict(<<>>).severity = "unknown" /\ disksVerdict(<<>>).severity = "unknown"
  BY DEF volumesVerdict, disksVerdict, Unknown, Finding
<1>2. patchesVerdict(Record({})).severity = "attention"
  <2> DEFINE r == Record({})
  <2>1. r.readable /\ r.readable \in BOOLEAN /\ r.applied = {}
    BY DEF Record
  <2> HIDE DEF r
  <2>2. patchesVerdict(r) = Attention("updates.installed.none")
    BY <2>1 DEF patchesVerdict
  <2> QED
    BY <2>2 DEF r, Attention, Finding
<1> QED
  BY <1>1, <1>2 DEF NotOK, Unjudged, Judge, Got

\* Neither is a load of which nothing was reported.
LEMMA NothingReported ==
    ASSUME NEW f, f.available = None, f.load = None, f.busy = None
    PROVE  Unjudged("performance.load", Got(f))
BY LoadSeverity DEF Unjudged, Judge, Got

\* Nor a posture of which nothing is known.
LEMMA NothingProtected ==
    ASSUME NEW v \in {"unknown", "not_applicable"}
    PROVE  Unjudged("security.posture",
           Got([encryption |-> "unknown", firewall |-> "unknown", antivirus |-> v]))
<1> DEFINE f == [encryption |-> "unknown", firewall |-> "unknown", antivirus |-> v]
<1>1. f \in Posture
  BY DEF Posture, Protections
<1>2. DOMAIN f = {"encryption", "firewall",
      "antivirus"} /\ f.encryption = "unknown" /\ f.firewall = "unknown" /\ f.antivirus = v
  OBVIOUS
<1> HIDE DEF f
<1>3. ~\E p \in DOMAIN f : f[p] = "off"
  BY <1>2
<1>4. postureVerdict(f).severity = "unknown"
  BY <1>1, <1>2, <1>3, PostureSeverity
<1>5. Unjudged("security.posture", Got(f))
  BY <1>4 DEF Unjudged, Judge, Got
<1> QED
  BY <1>5 DEF f

\* A collector that fails concludes nothing.
LEMMA FailedIsUnjudged ==
    ASSUME NEW c, NEW r, r.err # "no" PROVE Unjudged(c, r)
BY DEF Unjudged

\* Where the sources of storage are mute there is no pass.
LEMMA MuteStorage ==
    ASSUME NEW a
    PROVE  /\ Mute(a.mounts) => Unjudged("disk.volumes", linuxVolumes(a))
           /\ Mute(a.getfsstat) => Unjudged("disk.volumes", darwinVolumes(a))
           /\ Mute(a.LogicalDisk) => Unjudged("disk.volumes", windowsVolumes(a))
           /\ Mute(a.block) => Unjudged("disk.smart", linuxDisks(a))
           /\ Mute(a.diskutil) => Unjudged("disk.smart", darwinDisks(a))
           /\ Mute(a.PhysicalDisk) => Unjudged("disk.smart", windowsDisks(a))
<1>0. \A f : f = [i \in DOMAIN <<>> |-> f[i]] => f = <<>>
  OBVIOUS
<1>1. ASSUME Mute(a.mounts) PROVE Unjudged("disk.volumes", linuxVolumes(a))
  <2>1. CASE a.mounts.err # "no"
    BY <2>1 DEF linuxVolumes, Unjudged, NoFile, Fail
  <2>2. CASE a.mounts.err = "no"
    <3> DEFINE found == Lines(a.mounts.out)
               real == {i \in DOMAIN found : isRealFilesystem(found[i]) /\
                   found[i].blocks \notin {None, 0}}
               first == {i \in real : \A j \in real : j < i =>
                   found[j].device # found[i].device}
    <3>1. linuxVolumes(a) = Got(Map(Kept(found, first), FreePercent))
      BY <2>2 DEF linuxVolumes
    <3>2. found = <<>>
      BY <1>1, <2>2, MuteTable
    <3> HIDE DEF found, first
    <3>3. Kept(found, first) = <<>>
      BY <3>2, KeptOfNone
    <3>4. Map(<<>>, FreePercent) = <<>>
      BY DEF Map
    <3> QED
      BY <3>1, <3>3, <3>4, NothingListed
  <2> QED
    BY <2>1, <2>2
<1>2. ASSUME Mute(a.getfsstat) PROVE Unjudged("disk.volumes", darwinVolumes(a))
  <2>1. CASE a.getfsstat.err # "no"
    BY <2>1 DEF darwinVolumes, Unjudged, NoFile, Fail
  <2>2. CASE a.getfsstat.err = "no"
    <3> DEFINE found == Lines(a.getfsstat.out)
               real == {i \in DOMAIN found : isRealFilesystem(found[i]) /\ found[i].blocks # 0}
    <3>1. darwinVolumes(a) = Got(Map(Kept(found, real), FreePercent))
      BY <2>2 DEF darwinVolumes
    <3>2. found = <<>>
      BY <1>2, <2>2, MuteTable
    <3> HIDE DEF found, real
    <3>3. Kept(found, real) = <<>>
      BY <3>2, KeptOfNone
    <3>4. Map(<<>>, FreePercent) = <<>>
      BY DEF Map
    <3> QED
      BY <3>1, <3>3, <3>4, NothingListed
  <2> QED
    BY <2>1, <2>2
<1>3. ASSUME Mute(a.LogicalDisk) PROVE windowsVolumes(a).err # "no"
  BY <1>3, MuteTable DEF windowsVolumes, Then
<1>4. ASSUME Mute(a.block) PROVE Unjudged("disk.smart", linuxDisks(a))
  <2>1. CASE a.block.err # "no"
    BY <2>1 DEF linuxDisks, Unjudged, NoFile, Fail
  <2>2. CASE a.block.err = "no"
    <3> DEFINE devices == Lines(a.block.out)
               physical == {i \in DOMAIN devices : devices[i].physical}
               smartctl(i) == a[devices[i].name]
               broken == {i \in physical : smartctl(i).out = None /\ smartctl(i).err # "no"}
               told == {i \in physical : smartctl(i).out \notin {None, Garbled}}
               kept == Kept(devices, told)
    <3>1. devices = <<>>
      BY <1>4, <2>2, MuteTable
    <3>2. broken = {}
      BY <3>1
    <3>3. linuxDisks(a) = Got(Map(kept, LAMBDA d : parseSmartctl(d.name, a[d.name].out)))
      BY <2>2, <3>2 DEF linuxDisks
    <3> HIDE DEF devices, told
    <3>4. kept = <<>>
      BY <3>1, KeptOfNone
    <3>5. Map(<<>>, LAMBDA d : parseSmartctl(d.name, a[d.name].out)) = <<>>
      BY DEF Map
    <3> HIDE DEF kept
    <3> QED
      BY <3>3, <3>4, <3>5, NothingListed
  <2> QED
    BY <2>1, <2>2
<1>5. ASSUME Mute(a.diskutil) PROVE Unjudged("disk.smart", darwinDisks(a))
  <2>1. CASE Text(a.diskutil).err # "no"
    BY <2>1, FailedIsUnjudged DEF darwinDisks, Then
  <2>2. CASE Text(a.diskutil).err = "no" /\ Text(a.diskutil).f = <<>>
    <3>1. darwinDisks(a) = Got(parseDiskutilInfo(<<>>))
      BY <2>2 DEF darwinDisks, Then
    <3>2. parseDiskutilInfo(<<>>) = <<>>
      <4> DEFINE none == <<>>
                 places == {i \in DOMAIN none : none[i].name # "" /\
                     (none[i].whole \/ none[i].smart # "")}
                 kept == Kept(none, places)
      <4>1. parseDiskutilInfo(none) = Map(kept,
            LAMBDA s : Drive(s.name, macSMARTStatus(s.smart), 0))
        BY DEF parseDiskutilInfo
      <4>2. kept = <<>>
        BY KeptOfNone
      <4>3. Map(<<>>, LAMBDA s : Drive(s.name, macSMARTStatus(s.smart), 0)) = <<>>
        BY DEF Map
      <4> HIDE DEF kept
      <4> QED
        BY <4>1, <4>2, <4>3
    <3> QED
      BY <3>1, <3>2, NothingListed
  <2> QED
    BY <1>5, <2>1, <2>2, MuteTable
<1>6. ASSUME Mute(a.PhysicalDisk) PROVE windowsDisks(a).err # "no"
  BY <1>6, MuteTable DEF windowsDisks, Then
<1> QED
  BY <1>1, <1>2, <1>3, <1>4, <1>5, <1>6, FailedIsUnjudged

\* Where the sources of the load are.
LEMMA MuteLoad ==
    ASSUME NEW a
    PROVE  /\ Mute(a.loadavg) /\ Mute(a.meminfo) => Unjudged("performance.load", linuxLoad(a))
           /\ Mute(a.vm_loadavg) /\ Mute(a.hw_memsize) => Unjudged("performance.load",
              darwinLoad(a))
           /\ Mute(a.Load) => Unjudged("performance.load", windowsLoad(a))
<1>1. ASSUME Mute(a.loadavg), Mute(a.meminfo) PROVE Unjudged("performance.load", linuxLoad(a))
  <2>1. CASE a.loadavg.err # "no" \/ a.meminfo.err # "no"
    BY <2>1 DEF linuxLoad, Unjudged, NoFile, Fail
  <2>2. CASE a.loadavg.err = "no" /\ a.meminfo.err = "no"
    <3>1. a.loadavg.out = Garbled /\ a.meminfo.out = Garbled
      BY <1>1, <2>2 DEF Mute
    <3>2. /\ parseLoadAvg(a.loadavg.out) = None
          /\ parseMemInfo(a.meminfo.out) =
                [total |-> 0, available |-> 0, free |-> 0, swapTotal |-> 0, swapFree |-> 0]
      BY <3>1 DEF parseLoadAvg, parseMemInfo
    <3>3. PICK f : linuxLoad(a) = Got(f) /\ f.available = None /\ f.load = None /\ f.busy = None
      BY <2>2, <3>2 DEF linuxLoad, memoryFraction
    <3> QED
      BY <3>3, NothingReported
  <2> QED
    BY <2>1, <2>2
<1>2. ASSUME Mute(a.vm_loadavg), Mute(a.hw_memsize)
      PROVE Unjudged("performance.load", darwinLoad(a))
  <2>1. CASE a.vm_loadavg.err # "no"
    BY <2>1 DEF darwinLoad, Unjudged, Fail
  <2>2. CASE a.vm_loadavg.err = "no"
    <3>1. parseSysctlLoadAvg(a.vm_loadavg.out) = None /\ Number(a.hw_memsize) = 0
      BY <1>2, <2>2 DEF Mute, parseSysctlLoadAvg, Number
    <3>2. PICK f : darwinLoad(a) = Got(f) /\ f.available = None /\ f.load = None /\
               f.busy = None
      BY <2>2, <3>1 DEF darwinLoad, memoryFraction
    <3> QED
      BY <3>2, NothingReported
  <2> QED
    BY <2>1, <2>2
<1>3. ASSUME Mute(a.Load) PROVE windowsLoad(a).err # "no"
  BY <1>3, MuteTable DEF windowsLoad, Then
<1> QED
  BY <1>1, <1>2, <1>3, FailedIsUnjudged

\* Where the sources of the posture are.
LEMMA MutePosture ==
    ASSUME NEW a
    PROVE  /\ Mute(a.lsblk) => Unjudged("security.posture", linuxPosture(a))
           /\ Mute(a.fdesetup) /\ Mute(a.alf) => Unjudged("security.posture", darwinPosture(a))
           /\ Mute(a.BitLocker) /\ Mute(a.Firewall) /\ Mute(a.Antivirus) =>
                 Unjudged("security.posture", windowsPosture(a))
<1>1. ASSUME NEW answer, Mute(answer), NEW status PROVE Part(answer, status) = "unknown"
  BY <1>1 DEF Part, Mute
<1>2. Mute(a.lsblk) => Unjudged("security.posture", linuxPosture(a))
  BY <1>1, NothingProtected DEF linuxPosture
<1>3. Mute(a.fdesetup) /\ Mute(a.alf) => Unjudged("security.posture", darwinPosture(a))
  BY <1>1, NothingProtected DEF darwinPosture
<1>4. Mute(a.BitLocker) /\ Mute(a.Firewall) /\ Mute(a.Antivirus) => Unjudged("security.posture",
      windowsPosture(a))
  BY <1>1, NothingProtected DEF windowsPosture
<1> QED
  BY <1>2, <1>3, <1>4

\* Where no update has a date there is no pass, and no finding unless some are waiting.
LEMMA UndatedIsNotOK ==
    ASSUME NEW n
    PROVE  /\ NotOK("updates.os", Got(Updates(None, n)))
           /\ n \in {-1, 0} => Unjudged("updates.os", Got(Updates(None, n)))
<1>1. Updates(None, n).age = None /\ Updates(None, n).pending = n
  BY DEF Updates
<1>2. /\ updatesVerdict(Updates(None, n)).severity # "ok"
      /\ n \in {-1, 0} => updatesVerdict(Updates(None, n)).severity = "unknown"
  BY <1>1, UpdatesSeverity
<1> QED
  BY <1>2 DEF NotOK, Unjudged, Judge, Got

\* So where the sources of updates are mute.
LEMMA MuteUpdates ==
    ASSUME NEW a
    PROVE  /\ (\A n \in dpkgLogs : Mute(a[n])) /\ Mute(a.rpm) => NotOK("updates.installed",
              linuxPatches(a))
           /\ Mute(a.softwareupdate) => NotOK("updates.installed", darwinPatches(a))
           /\ Mute(a.QuickFix) => Unjudged("updates.installed", windowsPatches(a))
           /\ Mute(a.defaults) => Unjudged("updates.os", darwinUpdates(a))
           /\ Mute(a.UpdateResults) => Unjudged("updates.os", windowsUpdates(a))
<1>1. ASSUME \A n \in dpkgLogs : Mute(a[n]), Mute(a.rpm)
      PROVE NotOK("updates.installed", linuxPatches(a))
  <2>1. collectDpkg(a) = {}
    <3>1. ASSUME NEW n \in dpkgLogs, a[n].err = "no" PROVE parseDpkgLog(Lines(a[n].out)) = {}
      <4>1. Lines(a[n].out) = <<>>
        BY <1>1, <3>1, MuteTable
      <4>2. parseDpkgLog(<<>>) = {}
        BY DEF parseDpkgLog, ToSet
      <4> QED
        BY <4>1, <4>2
    <3> QED
      BY <3>1 DEF collectDpkg
  <2>2. parseRPMLast(<<>>) = {}
    BY DEF parseRPMLast, ToSet
  <2>3. CASE \E n \in dpkgLogs : a[n].err # "missing"
    BY <2>1, <2>3, NothingListed DEF linuxPatches
  <2>4. CASE ~\E n \in dpkgLogs : a[n].err # "missing"
    <3>1. linuxPatches(a) = Then(Text(a.rpm), LAMBDA lines : Got(Record(parseRPMLast(lines))))
      BY <2>4 DEF linuxPatches
    <3> QED
      BY <1>1, <2>2, <3>1, MuteTable, NothingListed, FailedIsUnjudged, UnjudgedIsNotOK DEF Then
  <2> QED
    BY <2>3, <2>4
<1>2. ASSUME Mute(a.softwareupdate) PROVE NotOK("updates.installed", darwinPatches(a))
  <2>1. parseSoftwareUpdateHistory(<<>>) = {}
    BY DEF parseSoftwareUpdateHistory, ToSet
  <2> QED
    BY <1>2, <2>1, MuteTable, NothingListed, FailedIsUnjudged, UnjudgedIsNotOK DEF darwinPatches, Then
<1>3. ASSUME Mute(a.QuickFix) PROVE windowsPatches(a).err # "no"
  BY <1>3, MuteTable DEF windowsPatches, Then
<1>5. ASSUME Mute(a.defaults) PROVE Unjudged("updates.os", darwinUpdates(a))
  <2>1. darwinUpdates(a) = Got(Updates(None, -1))
    BY <1>5 DEF Mute, darwinUpdates, parseMacSoftwareUpdateDate
  <2> QED
    BY <2>1, UndatedIsNotOK
<1>6. ASSUME Mute(a.UpdateResults) PROVE windowsUpdates(a).err # "no"
  BY <1>6, MuteTable DEF windowsUpdates, Then
<1> QED
  BY <1>1, <1>2, <1>3, <1>5, <1>6, FailedIsUnjudged

\* Of lines that cannot be read, none announces an update.
LEMMA NothingWaits == countAptUpgrades(<<>>) = 0 /\ countDnfUpdates(<<>>) = 0
<1> DEFINE none == <<>>
           inst == {i \in DOMAIN none : none[i] = "Inst"}
           obsoleting == {i \in DOMAIN none : none[i] = "obsoleting"}
           package == {i \in DOMAIN none : none[i] = "package" /\ \A j \in obsoleting : i < j}
<1>1. countAptUpgrades(none) = Cardinality(inst) /\ countDnfUpdates(none) = Cardinality(package)
  BY DEF countAptUpgrades, countDnfUpdates
<1>2. inst = {} /\ package = {}
  OBVIOUS
<1> HIDE DEF inst, package
<1> QED
  BY <1>1, <1>2, FS_EmptySet

\* And those of Linux, which are apt-get or dnf: what dnf prints counts also if it fails.
LEMMA MuteLinuxUpdates ==
    ASSUME NEW a, a.apt_get.err \in {"no", "missing", "failed"},
           a.dnf.err = "missing" => a.dnf.out = None,
           Mute(a.apt_get), Mute(a.dpkg_status), Mute(a.dnf), Mute(a.rpmdb)
    PROVE  /\ NotOK("updates.os", linuxUpdates(a))
           /\ a.dnf.out \in {None, Garbled} => Unjudged("updates.os", linuxUpdates(a))
<1>1. fileModTime(a.dpkg_status) = None /\ fileModTime(a.rpmdb) = None
  BY DEF fileModTime, Mute
<1>2. CASE a.apt_get.err = "no"
  <2>1. Lines(a.apt_get.out) = <<>>
    BY <1>2, MuteTable
  <2>2. linuxUpdates(a) = Got(Updates(None, 0))
    BY <1>1, <1>2, <2>1, NothingWaits DEF linuxUpdates
  <2> QED
    BY <2>2, UndatedIsNotOK
<1>3. CASE a.apt_get.err = "failed"
  <2>1. linuxUpdates(a).err # "no"
    BY <1>3 DEF linuxUpdates, Fail
  <2> QED
    BY <2>1, FailedIsUnjudged, UnjudgedIsNotOK
<1>4. CASE a.apt_get.err = "missing" /\ a.dnf.out # None
  <2>1. linuxUpdates(a) = Got(Updates(None, countDnfUpdates(Lines(a.dnf.out))))
    BY <1>1, <1>4 DEF linuxUpdates
  <2>2. a.dnf.out \in {None, Garbled} => countDnfUpdates(Lines(a.dnf.out)) = 0
    BY NothingWaits DEF Lines
  <2> QED
    BY <2>1, <2>2, UndatedIsNotOK
<1>5. CASE a.apt_get.err = "missing" /\ a.dnf.out = None
  <2>1. linuxUpdates(a) = IF a.dnf.err = "no" THEN Got(Updates(None, -1)) ELSE Fail(a.dnf.err)
    BY <1>5 DEF linuxUpdates
  <2>2. CASE a.dnf.err = "no"
    BY <2>1, <2>2, UndatedIsNotOK
  <2>3. CASE a.dnf.err # "no"
    <3>1. linuxUpdates(a).err # "no"
      BY <2>1, <2>3 DEF Fail
    <3> QED
      BY <3>1, FailedIsUnjudged, UnjudgedIsNotOK
  <2> QED
    BY <2>2, <2>3
<1> QED
  BY <1>2, <1>3, <1>4, <1>5

\* Where the sources of backups are.
LEMMA MuteBackups ==
    ASSUME NEW a
    PROVE  /\ Unjudged("backup.status", linuxBackup)
           /\ Mute(a.latestbackup) => NotOK("backup.status", darwinBackup(a))
           /\ Mute(a.ShadowCopy) => Unjudged("backup.status", windowsBackup(a))
<1>1. Unjudged("backup.status", linuxBackup)
  BY BackupSeverity DEF linuxBackup, Unjudged, Judge, Got
<1>2. ASSUME NEW c PROVE NotOK("backup.status", Got(Backup(c, None)))
  <2>1. Backup(c, None).last = None
    BY DEF Backup
  <2>2. backupVerdict(Backup(c, None)).severity # "ok"
    BY <2>1, BackupSeverity
  <2> QED
    BY <2>2 DEF NotOK, Judge, Got
<1>3. ASSUME Mute(a.latestbackup) PROVE NotOK("backup.status", darwinBackup(a))
  <2>1. (IF a.latestbackup.err # "no" THEN None
        ELSE parseLatestBackup(a.latestbackup.out)) = None
    BY <1>3 DEF Mute, parseLatestBackup
  <2>2. darwinBackup(a) = Got(Backup(FALSE, None)) \/ darwinBackup(a) = Got(Backup(TRUE, None))
    BY <2>1 DEF darwinBackup
  <2> QED
    BY <1>2, <2>2
<1>4. ASSUME Mute(a.ShadowCopy) PROVE windowsBackup(a).err # "no"
  BY <1>4, MuteTable DEF windowsBackup, Then
<1> QED
  BY <1>1, <1>3, <1>4, FailedIsUnjudged

\* Where the sources about the machine are.
LEMMA MuteSystem ==
    ASSUME NEW a, NEW c
    PROVE  /\ Mute(a.uptime) => Unjudged(c, linuxOS(a))
           /\ Mute(a.kern_boottime) => Unjudged(c, darwinOS(a))
           /\ Mute(a.OperatingSystem) => Unjudged(c, windowsOS(a))
           /\ Mute(a.SPHardwareDataType) => Unjudged(c, darwinHardware(a))
           /\ Mute(a.Hardware) => Unjudged(c, windowsHardware(a))
           /\ Mute(a.meminfo) => Unjudged(c, linuxRAM(a))
           /\ Mute(a.hw_memsize) => Unjudged(c, darwinRAM(a))
           /\ Mute(a.PhysicalMemory) => Unjudged(c, windowsRAM(a))
           /\ Mute(a.PnPEntity) => Unjudged(c, windowsProblemDevices(a))
<1>1. Mute(a.uptime) => linuxOS(a).err # "no"
  BY MuteTable DEF linuxOS, parseUptime, NoFile, Fail
<1>2. Mute(a.kern_boottime) => darwinOS(a).err # "no"
  BY MuteTable DEF darwinOS, parseBootTime, Fail
<1>3. Mute(a.OperatingSystem) => windowsOS(a).err # "no"
  BY MuteTable DEF windowsOS, parseWindowsOS
<1>4. Mute(a.SPHardwareDataType) => darwinHardware(a).err # "no"
  BY MuteTable DEF darwinHardware, parseMacHardware
<1>5. Mute(a.Hardware) => windowsHardware(a).err # "no"
  BY MuteTable DEF windowsHardware, parseWindowsHardware, Then
<1>6. Mute(a.meminfo) => linuxRAM(a).err # "no"
  BY MuteTable DEF linuxRAM, parseMemTotal, NoFile, Fail
<1>7. Mute(a.hw_memsize) => darwinRAM(a).err # "no"
  BY MuteTable DEF darwinRAM
<1>8. Mute(a.PhysicalMemory) => windowsRAM(a).err # "no"
  BY MuteTable DEF windowsRAM, Then
<1>9. Mute(a.PnPEntity) => windowsProblemDevices(a).err # "no"
  BY MuteTable DEF windowsProblemDevices, Then
<1> QED
  BY <1>1, <1>2, <1>3, <1>4, <1>5, <1>6, <1>7, <1>8, <1>9, FailedIsUnjudged

\* The sources of each check on Linux.
LEMMA LinuxSources ==
    ASSUME NEW c, NEW m, linuxMachine(c, m)
    PROVE  /\ c = "disk.volumes" => DOMAIN m = {"mounts"}
           /\ c = "disk.smart" => "block" \in DOMAIN m
           /\ c = "performance.load" => DOMAIN m = {"cpus", "loadavg", "meminfo"}
           /\ c = "security.posture" => DOMAIN m = {"lsblk"}
           /\ c = "eventlog.errors" => DOMAIN m = {"journalctl"}
           /\ c = "updates.installed" => DOMAIN m = {"dpkg_log", "dpkg_log_1", "rpm"}
           /\ c = "updates.os" => DOMAIN m = {"apt_get", "dpkg_status", "dnf", "rpmdb"}
           /\ c = "network.config" => DOMAIN m = {"interfaces", "net_route", "resolv_conf"}
           /\ c = "backup.status" => DOMAIN m = {"none"}
           /\ c = "startup.items" => DOMAIN m = {"system", "user"}
           /\ c = "os.info" => DOMAIN m = {"os_release", "uptime"}
           /\ c = "hardware.inventory" => DOMAIN m = {"cpuinfo", "product_name"}
           /\ c = "hardware.ram" => DOMAIN m = {"meminfo"}
           /\ c = "battery.health" => DOMAIN m = {"power_supply"}
<1>1. c = "disk.volumes" => DOMAIN m = {"mounts"}
  BY DEF linuxMachine
<1>2. c = "disk.smart" => "block" \in DOMAIN m
  BY DEF linuxMachine, LinuxDrives
<1>3. c = "performance.load" => DOMAIN m = {"cpus", "loadavg", "meminfo"}
  BY DEF linuxMachine
<1>4. c = "security.posture" => DOMAIN m = {"lsblk"}
  BY DEF linuxMachine
<1>5. c = "eventlog.errors" => DOMAIN m = {"journalctl"}
  BY DEF linuxMachine
<1>6. c = "updates.installed" => DOMAIN m = {"dpkg_log", "dpkg_log_1", "rpm"}
  BY DEF linuxMachine
<1>7. c = "updates.os" => DOMAIN m = {"apt_get", "dpkg_status", "dnf", "rpmdb"}
  BY DEF linuxMachine
<1>8. c = "network.config" => DOMAIN m = {"interfaces", "net_route", "resolv_conf"}
  BY DEF linuxMachine
<1>9. c = "backup.status" => DOMAIN m = {"none"}
  BY DEF linuxMachine
<1>10. c = "startup.items" => DOMAIN m = {"system", "user"}
  BY DEF linuxMachine
<1>11. c = "os.info" => DOMAIN m = {"os_release", "uptime"}
  BY DEF linuxMachine
<1>12. c = "hardware.inventory" => DOMAIN m = {"cpuinfo", "product_name"}
  BY DEF linuxMachine
<1>13. c = "hardware.ram" => DOMAIN m = {"meminfo"}
  BY DEF linuxMachine
<1>14. c = "battery.health" => DOMAIN m = {"power_supply"}
  BY DEF linuxMachine
<1> QED
  BY <1>1, <1>2, <1>3, <1>4, <1>5, <1>6, <1>7, <1>8, <1>9, <1>10, <1>11, <1>12, <1>13, <1>14

\* The sources of each check on macOS.
LEMMA DarwinSources ==
    ASSUME NEW c, NEW m, darwinMachine(c, m)
    PROVE  /\ c = "disk.volumes" => DOMAIN m = {"getfsstat"}
           /\ c = "disk.smart" => DOMAIN m = {"diskutil"}
           /\ c = "performance.load" => DOMAIN m = {"vm_loadavg", "hw_ncpu", "vm_stat",
              "hw_memsize", "vm_swapusage"}
           /\ c = "security.posture" => DOMAIN m = {"fdesetup", "alf"}
           /\ c = "eventlog.errors" => DOMAIN m = {"log"}
           /\ c = "updates.installed" => DOMAIN m = {"softwareupdate"}
           /\ c = "updates.os" => DOMAIN m = {"defaults"}
           /\ c = "network.config" => DOMAIN m = {"interfaces", "route", "scutil"}
           /\ c = "backup.status" => DOMAIN m = {"destinationinfo", "latestbackup"}
           /\ c = "startup.items" => DOMAIN m = {"LaunchAgents", "LaunchDaemons", "user"}
           /\ c = "os.info" => DOMAIN m = {"sw_vers", "kern_boottime"}
           /\ c = "hardware.inventory" => DOMAIN m = {"SPHardwareDataType"}
           /\ c = "hardware.ram" => DOMAIN m = {"hw_memsize"}
           /\ c = "battery.health" => DOMAIN m = {"SPPowerDataType"}
<1>1. c = "disk.volumes" => DOMAIN m = {"getfsstat"}
  BY DEF darwinMachine
<1>2. c = "disk.smart" => DOMAIN m = {"diskutil"}
  BY DEF darwinMachine
<1>3. c = "performance.load" => DOMAIN m = {"vm_loadavg", "hw_ncpu", "vm_stat", "hw_memsize",
      "vm_swapusage"}
  BY DEF darwinMachine
<1>4. c = "security.posture" => DOMAIN m = {"fdesetup", "alf"}
  BY DEF darwinMachine
<1>5. c = "eventlog.errors" => DOMAIN m = {"log"}
  BY DEF darwinMachine
<1>6. c = "updates.installed" => DOMAIN m = {"softwareupdate"}
  BY DEF darwinMachine
<1>7. c = "updates.os" => DOMAIN m = {"defaults"}
  BY DEF darwinMachine
<1>8. c = "network.config" => DOMAIN m = {"interfaces", "route", "scutil"}
  BY DEF darwinMachine
<1>9. c = "backup.status" => DOMAIN m = {"destinationinfo", "latestbackup"}
  BY DEF darwinMachine
<1>10. c = "startup.items" => DOMAIN m = {"LaunchAgents", "LaunchDaemons", "user"}
  BY DEF darwinMachine
<1>11. c = "os.info" => DOMAIN m = {"sw_vers", "kern_boottime"}
  BY DEF darwinMachine
<1>12. c = "hardware.inventory" => DOMAIN m = {"SPHardwareDataType"}
  BY DEF darwinMachine
<1>13. c = "hardware.ram" => DOMAIN m = {"hw_memsize"}
  BY DEF darwinMachine
<1>14. c = "battery.health" => DOMAIN m = {"SPPowerDataType"}
  BY DEF darwinMachine
<1> QED
  BY <1>1, <1>2, <1>3, <1>4, <1>5, <1>6, <1>7, <1>8, <1>9, <1>10, <1>11, <1>12, <1>13, <1>14

\* The sources of each check on Windows.
LEMMA WindowsSources ==
    ASSUME NEW c, NEW m, windowsMachine(c, m)
    PROVE  /\ c = "disk.volumes" => DOMAIN m = {"LogicalDisk"}
           /\ c = "disk.smart" => DOMAIN m = {"PhysicalDisk", "FailurePredict"}
           /\ c = "performance.load" => DOMAIN m = {"Load"}
           /\ c = "security.posture" => DOMAIN m = {"BitLocker", "Firewall", "Antivirus"}
           /\ c = "eventlog.errors" => DOMAIN m = {"WinEvent"}
           /\ c = "updates.installed" => DOMAIN m = {"QuickFix"}
           /\ c = "updates.os" => DOMAIN m = {"UpdateResults"}
           /\ c = "network.config" => DOMAIN m = {"interfaces", "NetIPConfiguration"}
           /\ c = "backup.status" => DOMAIN m = {"ShadowCopy"}
           /\ c = "drivers.problem" => DOMAIN m = {"PnPEntity"}
           /\ c = "startup.items" => DOMAIN m = {"StartupCommand"}
           /\ c = "os.info" => DOMAIN m = {"OperatingSystem"}
           /\ c = "hardware.inventory" => DOMAIN m = {"Hardware"}
           /\ c = "hardware.ram" => DOMAIN m = {"PhysicalMemory", "Hardware"}
           /\ c = "battery.health" => DOMAIN m = {"Battery"}
<1>1. c = "disk.volumes" => DOMAIN m = {"LogicalDisk"}
  BY DEF windowsMachine
<1>2. c = "disk.smart" => DOMAIN m = {"PhysicalDisk", "FailurePredict"}
  BY DEF windowsMachine
<1>3. c = "performance.load" => DOMAIN m = {"Load"}
  BY DEF windowsMachine
<1>4. c = "security.posture" => DOMAIN m = {"BitLocker", "Firewall", "Antivirus"}
  BY DEF windowsMachine
<1>5. c = "eventlog.errors" => DOMAIN m = {"WinEvent"}
  BY DEF windowsMachine
<1>6. c = "updates.installed" => DOMAIN m = {"QuickFix"}
  BY DEF windowsMachine
<1>7. c = "updates.os" => DOMAIN m = {"UpdateResults"}
  BY DEF windowsMachine
<1>8. c = "network.config" => DOMAIN m = {"interfaces", "NetIPConfiguration"}
  BY DEF windowsMachine
<1>9. c = "backup.status" => DOMAIN m = {"ShadowCopy"}
  BY DEF windowsMachine
<1>10. c = "drivers.problem" => DOMAIN m = {"PnPEntity"}
  BY DEF windowsMachine
<1>11. c = "startup.items" => DOMAIN m = {"StartupCommand"}
  BY DEF windowsMachine
<1>12. c = "os.info" => DOMAIN m = {"OperatingSystem"}
  BY DEF windowsMachine
<1>13. c = "hardware.inventory" => DOMAIN m = {"Hardware"}
  BY DEF windowsMachine
<1>14. c = "hardware.ram" => DOMAIN m = {"PhysicalMemory", "Hardware"}
  BY DEF windowsMachine
<1>15. c = "battery.health" => DOMAIN m = {"Battery"}
  BY DEF windowsMachine
<1> QED
  BY <1>1, <1>2, <1>3, <1>4, <1>5, <1>6, <1>7, <1>8, <1>9, <1>10, <1>11, <1>12, <1>13, <1>14,
  <1>15

\* Nothing that can be read was printed, also by a tool that failed.
Printless(m) == \A s \in DOMAIN m : run(m[s]).out \in {None, Garbled}

\* A Linux machine of which no source says anything passes no check but four, and of
\* the others only a log of updates makes a finding of it.
LEMMA LinuxMute ==
    ASSUME NEW c \in Checks, "linux" \in Platforms(c), NEW m, linuxMachine(c, m),
           c \notin {"startup.items", "battery.health", "eventlog.errors"},
           c # "hardware.inventory",
           \A s \in DOMAIN m : Mute(run(m[s]))
    PROVE  LET r == linuxCollect(c, [s \in DOMAIN m |-> run(m[s])])
           IN NotOK(c, r) /\ (c # "updates.installed" /\ Printless(m) => Unjudged(c, r))
<1> DEFINE a == [s \in DOMAIN m |-> run(m[s])]
           apart == c # "updates.installed" /\ Printless(m)
<1>0. \A s \in DOMAIN m : Mute(a[s])
  OBVIOUS
<1> SUFFICES NotOK(c, linuxCollect(c, a)) /\ (apart => Unjudged(c, linuxCollect(c, a)))
  OBVIOUS
<1>1. CASE c = "disk.volumes"
  <2>1. linuxCollect(c, a) = linuxVolumes(a)
    BY <1>1 DEF linuxCollect
  <2>2. Mute(a.mounts)
    BY <1>0, <1>1, LinuxSources
  <2> HIDE DEF a
  <2> QED
    BY <1>1, <2>1, <2>2, MuteStorage, UnjudgedIsNotOK
<1>2. CASE c = "disk.smart"
  <2>1. linuxCollect(c, a) = linuxDisks(a)
    BY <1>2 DEF linuxCollect
  <2>2. Mute(a.block)
    BY <1>0, <1>2, LinuxSources
  <2> HIDE DEF a
  <2> QED
    BY <1>2, <2>1, <2>2, MuteStorage, UnjudgedIsNotOK
<1>3. CASE c = "performance.load"
  <2>1. linuxCollect(c, a) = linuxLoad(a)
    BY <1>3 DEF linuxCollect
  <2>2. Mute(a.cpus) /\ Mute(a.loadavg) /\ Mute(a.meminfo)
    BY <1>0, <1>3, LinuxSources
  <2> HIDE DEF a
  <2> QED
    BY <1>3, <2>1, <2>2, MuteLoad, UnjudgedIsNotOK
<1>4. CASE c = "security.posture"
  <2>1. linuxCollect(c, a) = linuxPosture(a)
    BY <1>4 DEF linuxCollect
  <2>2. Mute(a.lsblk)
    BY <1>0, <1>4, LinuxSources
  <2> HIDE DEF a
  <2> QED
    BY <1>4, <2>1, <2>2, MutePosture, UnjudgedIsNotOK
<1>5. CASE c = "updates.installed"
  <2>1. linuxCollect(c, a) = linuxPatches(a)
    BY <1>5 DEF linuxCollect
  <2>2. Mute(a.dpkg_log) /\ Mute(a.dpkg_log_1) /\ Mute(a.rpm)
    BY <1>0, <1>5, LinuxSources
  <2> HIDE DEF a
  <2> QED
    BY <1>5, <2>1, <2>2, MuteUpdates, UnjudgedIsNotOK DEF dpkgLogs
<1>6. CASE c = "updates.os"
  <2>1. linuxCollect(c, a) = linuxUpdates(a)
    BY <1>6 DEF linuxCollect
  <2>2. Mute(a.apt_get) /\ Mute(a.dpkg_status) /\ Mute(a.dnf) /\ Mute(a.rpmdb)
    BY <1>0, <1>6, LinuxSources
  <2>3. a.apt_get \in Answers(Seq(STRING)) /\ (a.dnf.err = "missing" => a.dnf.out = None)
    BY <1>6, Ran DEF linuxMachine
  <2>4. apart => a.dnf.out \in {None, Garbled}
    BY <1>6, LinuxSources DEF Printless
  <2> HIDE DEF a
  <2> QED
    BY <1>6, <2>1, <2>2, <2>3, <2>4, MuteLinuxUpdates DEF Answers
<1>7. CASE c = "network.config"
  <2>1. linuxCollect(c, a) = collectNetwork(a, linuxRouting(a))
    BY <1>7 DEF linuxCollect
  <2>2. m.interfaces.printed # Garbled /\ Mute(run(m.interfaces))
    BY <1>0, <1>7, LinuxSources DEF linuxMachine, Listing
  <2>3. run(m.interfaces).err # "no"
    BY <2>2 DEF Mute, run
  <2>4. a.interfaces.err # "no"
    BY <1>7, <2>3, LinuxSources
  <2> HIDE DEF a
  <2> QED
    BY <1>7, <2>1, <2>4, MuteNetwork, UnjudgedIsNotOK
<1>8. CASE c = "backup.status"
  <2>1. linuxCollect(c, a) = linuxBackup
    BY <1>8 DEF linuxCollect
  <2> QED
    BY <1>8, <2>1, MuteBackups, UnjudgedIsNotOK
<1>9. CASE c = "os.info"
  <2>1. linuxCollect(c, a) = linuxOS(a)
    BY <1>9 DEF linuxCollect
  <2>2. Mute(a.os_release) /\ Mute(a.uptime)
    BY <1>0, <1>9, LinuxSources
  <2> HIDE DEF a
  <2> QED
    BY <1>9, <2>1, <2>2, MuteSystem, UnjudgedIsNotOK
<1>10. CASE c = "hardware.ram"
  <2>1. linuxCollect(c, a) = linuxRAM(a)
    BY <1>10 DEF linuxCollect
  <2>2. Mute(a.meminfo)
    BY <1>0, <1>10, LinuxSources
  <2> HIDE DEF a
  <2> QED
    BY <1>10, <2>1, <2>2, MuteSystem, UnjudgedIsNotOK
<1> HIDE DEF a
<1> QED
  BY <1>1, <1>2, <1>3, <1>4, <1>5, <1>6, <1>7, <1>8, <1>9, <1>10 DEF Checks, Platforms

\* A Mac passes none but three, and its updates and backups may be a finding.
LEMMA DarwinMute ==
    ASSUME NEW c \in Checks, "darwin" \in Platforms(c), NEW m, darwinMachine(c, m),
           c \notin {"startup.items", "battery.health", "eventlog.errors"},
           \A s \in DOMAIN m : Mute(run(m[s]))
    PROVE  LET r == darwinCollect(c, [s \in DOMAIN m |-> run(m[s])])
           IN NotOK(c, r) /\ (c \notin {"updates.installed", "backup.status"} => Unjudged(c, r))
<1> DEFINE a == [s \in DOMAIN m |-> run(m[s])]
           apart == c \notin {"updates.installed", "backup.status"}
<1>0. \A s \in DOMAIN m : Mute(a[s])
  OBVIOUS
<1> SUFFICES NotOK(c, darwinCollect(c, a)) /\ (apart => Unjudged(c, darwinCollect(c, a)))
  OBVIOUS
<1>1. CASE c = "disk.volumes"
  <2>1. darwinCollect(c, a) = darwinVolumes(a)
    BY <1>1 DEF darwinCollect
  <2>2. Mute(a.getfsstat)
    BY <1>0, <1>1, DarwinSources
  <2> HIDE DEF a
  <2> QED
    BY <1>1, <2>1, <2>2, MuteStorage, UnjudgedIsNotOK
<1>2. CASE c = "disk.smart"
  <2>1. darwinCollect(c, a) = darwinDisks(a)
    BY <1>2 DEF darwinCollect
  <2>2. Mute(a.diskutil)
    BY <1>0, <1>2, DarwinSources
  <2> HIDE DEF a
  <2> QED
    BY <1>2, <2>1, <2>2, MuteStorage, UnjudgedIsNotOK
<1>3. CASE c = "performance.load"
  <2>1. darwinCollect(c, a) = darwinLoad(a)
    BY <1>3 DEF darwinCollect
  <2>2. Mute(a.vm_loadavg) /\ Mute(a.hw_ncpu) /\ Mute(a.vm_stat) /\ Mute(a.hw_memsize) /\
        Mute(a.vm_swapusage)
    BY <1>0, <1>3, DarwinSources
  <2> HIDE DEF a
  <2> QED
    BY <1>3, <2>1, <2>2, MuteLoad, UnjudgedIsNotOK
<1>4. CASE c = "security.posture"
  <2>1. darwinCollect(c, a) = darwinPosture(a)
    BY <1>4 DEF darwinCollect
  <2>2. Mute(a.fdesetup) /\ Mute(a.alf)
    BY <1>0, <1>4, DarwinSources
  <2> HIDE DEF a
  <2> QED
    BY <1>4, <2>1, <2>2, MutePosture, UnjudgedIsNotOK
<1>5. CASE c = "updates.installed"
  <2>1. darwinCollect(c, a) = darwinPatches(a)
    BY <1>5 DEF darwinCollect
  <2>2. Mute(a.softwareupdate)
    BY <1>0, <1>5, DarwinSources
  <2> HIDE DEF a
  <2> QED
    BY <1>5, <2>1, <2>2, MuteUpdates, UnjudgedIsNotOK
<1>6. CASE c = "updates.os"
  <2>1. darwinCollect(c, a) = darwinUpdates(a)
    BY <1>6 DEF darwinCollect
  <2>2. Mute(a.defaults)
    BY <1>0, <1>6, DarwinSources
  <2> HIDE DEF a
  <2> QED
    BY <1>6, <2>1, <2>2, MuteUpdates, UnjudgedIsNotOK
<1>7. CASE c = "network.config"
  <2>1. darwinCollect(c, a) = collectNetwork(a, darwinRouting(a))
    BY <1>7 DEF darwinCollect
  <2>2. m.interfaces.printed # Garbled /\ Mute(run(m.interfaces))
    BY <1>0, <1>7, DarwinSources DEF darwinMachine, Listing
  <2>3. run(m.interfaces).err # "no"
    BY <2>2 DEF Mute, run
  <2>4. a.interfaces.err # "no"
    BY <1>7, <2>3, DarwinSources
  <2> HIDE DEF a
  <2> QED
    BY <1>7, <2>1, <2>4, MuteNetwork, UnjudgedIsNotOK
<1>8. CASE c = "backup.status"
  <2>1. darwinCollect(c, a) = darwinBackup(a)
    BY <1>8 DEF darwinCollect
  <2>2. Mute(a.destinationinfo) /\ Mute(a.latestbackup)
    BY <1>0, <1>8, DarwinSources
  <2> HIDE DEF a
  <2> QED
    BY <1>8, <2>1, <2>2, MuteBackups, UnjudgedIsNotOK
<1>9. CASE c = "os.info"
  <2>1. darwinCollect(c, a) = darwinOS(a)
    BY <1>9 DEF darwinCollect
  <2>2. Mute(a.sw_vers) /\ Mute(a.kern_boottime)
    BY <1>0, <1>9, DarwinSources
  <2> HIDE DEF a
  <2> QED
    BY <1>9, <2>1, <2>2, MuteSystem, UnjudgedIsNotOK
<1>10. CASE c = "hardware.inventory"
  <2>1. darwinCollect(c, a) = darwinHardware(a)
    BY <1>10 DEF darwinCollect
  <2>2. Mute(a.SPHardwareDataType)
    BY <1>0, <1>10, DarwinSources
  <2> HIDE DEF a
  <2> QED
    BY <1>10, <2>1, <2>2, MuteSystem, UnjudgedIsNotOK
<1>11. CASE c = "hardware.ram"
  <2>1. darwinCollect(c, a) = darwinRAM(a)
    BY <1>11 DEF darwinCollect
  <2>2. Mute(a.hw_memsize)
    BY <1>0, <1>11, DarwinSources
  <2> HIDE DEF a
  <2> QED
    BY <1>11, <2>1, <2>2, MuteSystem, UnjudgedIsNotOK
<1> HIDE DEF a
<1> QED
  BY <1>1, <1>2, <1>3, <1>4, <1>5, <1>6, <1>7, <1>8, <1>9, <1>10, <1>11
     DEF Checks, Platforms

\* Of a Windows machine nothing is concluded then, but for three checks.
LEMMA WindowsMute ==
    ASSUME NEW c \in Checks, "windows" \in Platforms(c), NEW m, windowsMachine(c, m),
           c \notin {"startup.items", "battery.health", "eventlog.errors"},
           \A s \in DOMAIN m : Mute(run(m[s]))
    PROVE  Unjudged(c, windowsCollect(c, [s \in DOMAIN m |-> run(m[s])]))
<1> DEFINE a == [s \in DOMAIN m |-> run(m[s])]
<1>0. \A s \in DOMAIN m : Mute(a[s])
  OBVIOUS
<1> SUFFICES Unjudged(c, windowsCollect(c, a))
  OBVIOUS
<1>1. CASE c = "disk.volumes"
  <2>1. windowsCollect(c, a) = windowsVolumes(a)
    BY <1>1 DEF windowsCollect
  <2>2. Mute(a.LogicalDisk)
    BY <1>0, <1>1, WindowsSources
  <2> HIDE DEF a
  <2> QED
    BY <1>1, <2>1, <2>2, MuteStorage
<1>2. CASE c = "disk.smart"
  <2>1. windowsCollect(c, a) = windowsDisks(a)
    BY <1>2 DEF windowsCollect
  <2>2. Mute(a.PhysicalDisk) /\ Mute(a.FailurePredict)
    BY <1>0, <1>2, WindowsSources
  <2> HIDE DEF a
  <2> QED
    BY <1>2, <2>1, <2>2, MuteStorage
<1>3. CASE c = "performance.load"
  <2>1. windowsCollect(c, a) = windowsLoad(a)
    BY <1>3 DEF windowsCollect
  <2>2. Mute(a.Load)
    BY <1>0, <1>3, WindowsSources
  <2> HIDE DEF a
  <2> QED
    BY <1>3, <2>1, <2>2, MuteLoad
<1>4. CASE c = "security.posture"
  <2>1. windowsCollect(c, a) = windowsPosture(a)
    BY <1>4 DEF windowsCollect
  <2>2. Mute(a.BitLocker) /\ Mute(a.Firewall) /\ Mute(a.Antivirus)
    BY <1>0, <1>4, WindowsSources
  <2> HIDE DEF a
  <2> QED
    BY <1>4, <2>1, <2>2, MutePosture
<1>5. CASE c = "updates.installed"
  <2>1. windowsCollect(c, a) = windowsPatches(a)
    BY <1>5 DEF windowsCollect
  <2>2. Mute(a.QuickFix)
    BY <1>0, <1>5, WindowsSources
  <2> HIDE DEF a
  <2> QED
    BY <1>5, <2>1, <2>2, MuteUpdates
<1>6. CASE c = "updates.os"
  <2>1. windowsCollect(c, a) = windowsUpdates(a)
    BY <1>6 DEF windowsCollect
  <2>2. Mute(a.UpdateResults)
    BY <1>0, <1>6, WindowsSources
  <2> HIDE DEF a
  <2> QED
    BY <1>6, <2>1, <2>2, MuteUpdates
<1>7. CASE c = "network.config"
  <2>1. windowsCollect(c, a) = collectNetwork(a, windowsRouting(a))
    BY <1>7 DEF windowsCollect
  <2>2. m.interfaces.printed # Garbled /\ Mute(run(m.interfaces))
    BY <1>0, <1>7, WindowsSources DEF windowsMachine, Listing
  <2>3. run(m.interfaces).err # "no"
    BY <2>2 DEF Mute, run
  <2>4. a.interfaces.err # "no"
    BY <1>7, <2>3, WindowsSources
  <2> HIDE DEF a
  <2> QED
    BY <1>7, <2>1, <2>4, MuteNetwork
<1>8. CASE c = "backup.status"
  <2>1. windowsCollect(c, a) = windowsBackup(a)
    BY <1>8 DEF windowsCollect
  <2>2. Mute(a.ShadowCopy)
    BY <1>0, <1>8, WindowsSources
  <2> HIDE DEF a
  <2> QED
    BY <1>8, <2>1, <2>2, MuteBackups
<1>9. CASE c = "drivers.problem"
  <2>1. windowsCollect(c, a) = windowsProblemDevices(a)
    BY <1>9 DEF windowsCollect
  <2>2. Mute(a.PnPEntity)
    BY <1>0, <1>9, WindowsSources
  <2> HIDE DEF a
  <2> QED
    BY <1>9, <2>1, <2>2, MuteSystem
<1>10. CASE c = "os.info"
  <2>1. windowsCollect(c, a) = windowsOS(a)
    BY <1>10 DEF windowsCollect
  <2>2. Mute(a.OperatingSystem)
    BY <1>0, <1>10, WindowsSources
  <2> HIDE DEF a
  <2> QED
    BY <1>10, <2>1, <2>2, MuteSystem
<1>11. CASE c = "hardware.inventory"
  <2>1. windowsCollect(c, a) = windowsHardware(a)
    BY <1>11 DEF windowsCollect
  <2>2. Mute(a.Hardware)
    BY <1>0, <1>11, WindowsSources
  <2> HIDE DEF a
  <2> QED
    BY <1>11, <2>1, <2>2, MuteSystem
<1>12. CASE c = "hardware.ram"
  <2>1. windowsCollect(c, a) = windowsRAM(a)
    BY <1>12 DEF windowsCollect
  <2>2. Mute(a.PhysicalMemory) /\ Mute(a.Hardware)
    BY <1>0, <1>12, WindowsSources
  <2> HIDE DEF a
  <2> QED
    BY <1>12, <2>1, <2>2, MuteSystem
<1> HIDE DEF a
<1> QED
  BY <1>1, <1>2, <1>3, <1>4, <1>5, <1>6, <1>7, <1>8, <1>9, <1>10, <1>11, <1>12
     DEF Checks, Platforms

\* What a collector brings back of a machine of which no source says anything.
LEMMA SilentMachine ==
    ASSUME CheckInv, Offered, machine \in Machines[check][os],
           ~SilenceSaysNone(check), Silent(machine)
    PROVE  /\ NotOK(check, Asked(machine))
           /\ ~SilenceSaysBad(check) /\ NothingSaid(machine) =>
                 Unjudged(check, Asked(machine))
<1>1. check \in Checks /\ os \in OS
  BY CheckAssumption DEF CheckInv
<1>2. /\ check \notin {"startup.items", "battery.health", "eventlog.errors"}
      /\ os = "linux" => check # "hardware.inventory"
      /\ ~SilenceSaysBad(check) =>
            /\ check = "updates.installed" => os = "windows"
            /\ check = "backup.status" => os # "darwin"
  BY DEF SilenceSaysNone, SilenceSaysBad
<1>3. os \in Platforms(check) /\ Machine(check, os, machine)
  BY MachinesAssumption DEF CheckInv, Offered
<1>4. \A s \in DOMAIN machine : Mute(run(machine[s]))
  BY DEF Silent, Mute
<1>5. NothingSaid(machine) => Printless(machine)
  BY DEF NothingSaid, Printless
<1>6. CASE os = "linux"
  <2>1. linuxMachine(check, machine) /\ "linux" \in Platforms(check)
    BY <1>3, <1>6 DEF Machine
  <2> DEFINE r == linuxCollect(check, [s \in DOMAIN machine |-> run(machine[s])])
  <2>2. Asked(machine) = r
    BY <1>6 DEF Asked, Collect
  <2>3. /\ NotOK(check, r)
        /\ check # "updates.installed" /\ NothingSaid(machine) => Unjudged(check, r)
    BY <1>1, <1>2, <1>4, <1>5, <1>6, <2>1, LinuxMute
  <2> HIDE DEF r
  <2> QED
    BY <1>2, <1>6, <2>2, <2>3
<1>7. CASE os = "darwin"
  BY <1>1, <1>2, <1>3, <1>4, <1>7, DarwinMute DEF Machine, Collect, Asked
<1>8. CASE os = "windows"
  BY <1>1, <1>2, <1>3, <1>4, <1>8, WindowsMute, UnjudgedIsNotOK DEF Machine, Collect, Asked
<1> QED
  BY <1>1, <1>6, <1>7, <1>8 DEF OS

\* No check passes that read nothing it judges by or, but for the four that take
\* silence for an answer, whose sources said nothing (check.go:19-20), on any machine.
THEOREM Reading == Spec => []UnreadIsNotOK
<1>1. CheckInv => UnreadIsNotOK
  <2> SUFFICES ASSUME CheckInv, result # None, result.severity = "ok"
               PROVE  ~Unread(readings) /\ (~SilenceSaysNone(check) => ~Silent(machine))
    BY DEF UnreadIsNotOK
  <2>1. check \in Checks /\ os \in OS
    BY CheckAssumption DEF CheckInv
  <2>2. readings \in Readings(check) /\ result = Judge(check, readings)
    BY AnswerJudged DEF Judged
  <2>3. ~Unread(readings)
    BY <2>1, <2>2, UnreadSeverity
  <2>4. Offered /\ machine \in Machines[check][os] /\ result = Verdict(machine)
    <3>1. Unknown("").severity # "ok"
      BY DEF Unknown, Finding
    <3> QED
      BY <3>1 DEF CheckInv, AnswerInv
  <2>5. ASSUME ~SilenceSaysNone(check), Silent(machine) PROVE FALSE
    <3>1. NotOK(check, Asked(machine))
      BY <2>4, <2>5, SilentMachine
    <3>2. Verdict(machine).severity # "ok"
      BY <3>1, UnknownIsAnswered DEF Verdict, NotOK
    <3> QED
      BY <2>4, <3>2
  <2> QED
    BY <2>3, <2>5
<1> QED
  BY <1>1, CheckInvAlways, PTL

\* Whatever a profile allows, it counts an expectation as met only on a machine the
\* check was answered by (profile.go:168-169), but for the checks that take silence for
\* an answer or for a finding: for every machine, from the sources to the measure.
THEOREM Certifying == Spec => []MetWasSeen
<1>1. CheckInv => MetWasSeen
  <2> SUFFICES ASSUME CheckInv, NEW w \in Severity, measureOne(w) = "met"
               PROVE  /\ machine # None
                      /\ NothingSaid(machine) => SilenceSaysNone(check) \/ SilenceSaysBad(check)
    BY DEF MetWasSeen
  <2>1. result # None /\ result.severity # "unknown"
    BY DEF measureOne
  <2>2. Offered /\ machine \in Machines[check][os] /\ result = Verdict(machine)
    <3>1. Unknown("").severity = "unknown"
      BY DEF Unknown, Finding
    <3> QED
      BY <2>1, <3>1 DEF CheckInv, AnswerInv
  <2>3. ASSUME NothingSaid(machine), ~SilenceSaysNone(check), ~SilenceSaysBad(check)
        PROVE  FALSE
    <3>1. Unjudged(check, Asked(machine))
      BY <2>2, <2>3, SilentMachine DEF NothingSaid
    <3>2. Verdict(machine).severity = "unknown"
      BY <3>1, UnknownIsAnswered DEF Verdict, Unjudged
    <3> QED
      BY <2>1, <2>2, <3>2
  <2>4. machine # None
    BY <2>2, MachinesAssumption DEF CheckInv, Offered
  <2> QED
    BY <2>3, <2>4
<1> QED
  BY <1>1, CheckInvAlways, PTL

-----------------------------------------------------------------------------
(* A source that is lost.                                                    *)

\* The rank of what comes of a collector: one that fails makes no finding.
Rank(c, r) == IF r.err = "no" THEN severityRank(Judge(c, r.f).severity) ELSE 0

\* A rank is 0, 1 or 2, and 0 where the collector fails.
LEMMA RankIs ==
    ASSUME NEW c, NEW r
    PROVE  Rank(c, r) \in 0..2 /\ (r.err # "no" => Rank(c, r) = 0)
BY DEF Rank, severityRank

\* What is read of a source that failed.
LEMMA FailedTable ==
    ASSUME NEW answer, answer.err # "no"
    PROVE  /\ Unmarshal(answer).err # "no" /\ Text(answer).err # "no"
           /\ Required(answer).err # "no" /\ FirstRow(answer).err # "no"
           /\ Entries(answer) = <<>> /\ Number(answer) = 0
BY DEF Unmarshal, Text, Required, FirstRow, Then, NoFile, Fail, Got, Entries, Number

\* A source that fails says nothing, and the others what they said.
Silenced(a, b, s) ==
    /\ b[s].err = "failed" /\ b[s].out = None
    /\ \A t \in DOMAIN a \ {s} : b[t] = a[t]

\* A source that is lost is silenced.
LEMMA LostIsSilenced ==
    ASSUME NEW m, NEW s \in DOMAIN m
    PROVE  Silenced([t \in DOMAIN m |-> run(m[t])],
           [t \in DOMAIN Lost(m, s) |-> run(Lost(m, s)[t])], s)
<1> DEFINE lost == [installed |-> TRUE, ok |-> FALSE, printed |-> None]
           b == [t \in DOMAIN Lost(m, s) |-> run(Lost(m, s)[t])]
<1>1. run(lost).err = "failed" /\ run(lost).out = None
  BY DEF run
<1>2. Lost(m, s) = [m EXCEPT ![s] = lost]
  BY DEF Lost
<1> HIDE DEF lost
<1>3. DOMAIN Lost(m, s) = DOMAIN m /\ Lost(m, s)[s] = lost /\ \A t \in DOMAIN m \ {s} : Lost(m,
      s)[t] = m[t]
  BY <1>2
<1>4. b[s] = run(lost) /\ \A t \in DOMAIN m \ {s} : b[t] = run(m[t])
  BY <1>3
<1> HIDE DEF b
<1>5. Silenced([t \in DOMAIN m |-> run(m[t])], b, s)
  BY <1>1, <1>4 DEF Silenced
<1> QED
  BY <1>5 DEF b

\* Three checks conclude nothing but that there is nothing to do.
LEMMA NeverAFinding ==
    ASSUME NEW c \in {"startup.items", "os.info", "hardware.inventory"}, NEW r
    PROVE  Rank(c, r) = 0
BY AlwaysOK DEF Rank, Judge, severityRank

\* Every part that is lost is as good as any.
LEMMA LoadLoses ==
    ASSUME NEW f, NEW g, g.load = f.load, g.busy = f.busy,
           g.available \in {f.available, None}, g.swap \in {f.swap, None},
           g.cores \in {f.cores, 0}
    PROVE  Rank("performance.load", Got(g)) <= Rank("performance.load", Got(f))
<1>1. ASSUME NEW h PROVE Rank("performance.load",
             Got(h)) = severityRank(loadVerdict(h).severity)
  BY DEF Rank, Judge, Got
<1>2. severityRank(loadVerdict(g).severity) <= severityRank(loadVerdict(f).severity)
  BY LoadSeverity DEF severityRank
<1> QED
  BY <1>1, <1>2

\* A posture of which parts are lost is no finding.
LEMMA PostureLoses ==
    ASSUME NEW f \in Posture, NEW g \in Posture, \A p \in DOMAIN g : g[p] \in {f[p], "unknown"}
    PROVE  Rank("security.posture", Got(g)) <= Rank("security.posture", Got(f))
<1>1. ASSUME NEW h PROVE Rank("security.posture",
             Got(h)) = severityRank(postureVerdict(h).severity)
  BY DEF Rank, Judge, Got
<1>2. DOMAIN f = DOMAIN g
  BY DEF Posture
<1>3. (\E p \in DOMAIN g : g[p] = "off") => \E p \in DOMAIN f : f[p] = "off"
  BY <1>2
<1>4. severityRank(postureVerdict(g).severity) <= severityRank(postureVerdict(f).severity)
  BY <1>3, PostureSeverity DEF severityRank
<1> QED
  BY <1>1, <1>4

\* A last update that is lost is no finding.
LEMMA UpdatesLose ==
    ASSUME NEW age, NEW n
    PROVE  Rank("updates.os", Got(Updates(None, n))) <= Rank("updates.os", Got(Updates(age, n)))
<1>1. ASSUME NEW h PROVE Rank("updates.os", Got(h)) = severityRank(updatesVerdict(h).severity)
  BY DEF Rank, Judge, Got
<1>2. ASSUME NEW x PROVE Updates(x, n).age = x /\ Updates(x, n).pending = n
  BY DEF Updates
<1>3. severityRank(updatesVerdict(Updates(None, n)).severity) <=
      severityRank(updatesVerdict(Updates(age, n)).severity)
  BY <1>2, UpdatesSeverity DEF severityRank
<1> QED
  BY <1>1, <1>3

\* Losing the routes makes no finding, and the interfaces are what they were.
LEMMA NetworkLoses ==
    ASSUME NEW a, NEW b, b.interfaces = a.interfaces, a.interfaces \in Answers(Seq(Adapter)),
           NEW x, x.gateway \in BOOLEAN, x.dns \in BOOLEAN, x.routeErr \in BOOLEAN,
           NEW y, y.gateway \in BOOLEAN, y.dns \in BOOLEAN, y.routeErr \in BOOLEAN
    PROVE  y.routeErr =>
              Rank("network.config", collectNetwork(b, y)) <= Rank("network.config",
              collectNetwork(a, x))
<1>1. CASE a.interfaces.err # "no"
  <2>1. collectNetwork(b, y) = collectNetwork(a, x)
    BY <1>1 DEF collectNetwork
  <2> QED
    BY <2>1, RankIs
<1>2. CASE a.interfaces.err = "no"
  <2> DEFINE F(r) == [interfaces |-> collectInterfaces(Lines(a.interfaces.out)),
                 gateway |-> r.gateway,
                      dns |-> r.dns, routeErr |-> r.routeErr]
  <2>1. collectNetwork(a, x) = Got(F(x)) /\ collectNetwork(b, y) = Got(F(y))
    BY <1>2 DEF collectNetwork
  <2>2. Reads(collectNetwork(a, x), Networks)
    BY NetworkRead
  <2>3. Reads(collectNetwork(b, y), Networks)
    BY NetworkRead
  <2>4. F(x) \in Networks /\ F(y) \in Networks
    BY <2>1, <2>2, <2>3 DEF Reads, Got
  <2>5. F(y).interfaces = F(x).interfaces /\ (y.routeErr => F(y).routeErr)
    OBVIOUS
  <2>6. ASSUME NEW h PROVE Rank("network.config",
               Got(h)) = severityRank(configVerdict(h).severity)
    BY DEF Rank, Judge, Got
  <2> HIDE DEF F
  <2>7. y.routeErr => severityRank(configVerdict(F(y)).severity) <=
        severityRank(configVerdict(F(x)).severity)
    BY <2>4, <2>5, NetworkSeverity DEF severityRank
  <2> QED
    BY <2>1, <2>6, <2>7
<1> QED
  BY <1>1, <1>2

\* A drive that stops answering ends the reading, and one that was not asked for is
\* not missed.
LEMMA LinuxDisksLose ==
    ASSUME NEW m, LinuxDrives(m), NEW s \in DOMAIN m, NEW b,
           Silenced([t \in DOMAIN m |-> run(m[t])], b, s)
    PROVE  Rank("disk.smart", linuxDisks(b)) <=
              Rank("disk.smart", linuxDisks([t \in DOMAIN m |-> run(m[t])]))
<1> DEFINE a == [t \in DOMAIN m |-> run(m[t])]
           devices == Lines(a.block.out)
           physical == {i \in DOMAIN devices : devices[i].physical}
           broken(z) == {i \in physical : z[devices[i].name].out = None /\
               z[devices[i].name].err # "no"}
           told(z) == {i \in physical : z[devices[i].name].out \notin {None, Garbled}}
           drives(z) == Map(Kept(devices, told(z)),
               LAMBDA d : parseSmartctl(d.name, z[d.name].out))
<1>0. /\ b[s].err = "failed" /\ b[s].out = None
      /\ \A t \in DOMAIN m \ {s} : b[t] = a[t]
  BY DEF Silenced
<1>1. "block" \in DOMAIN m /\ a.block = run(m["block"]) /\ a.block \in Answers(Seq(BlockDevice))
  BY Ran DEF LinuxDrives
<1>2. devices \in Seq(BlockDevice)
  BY <1>1, LinesOf DEF Answers
<1>3. ASSUME NEW i \in DOMAIN devices PROVE devices[i].name \in DOMAIN m \ {"block"}
  <2>1. a.block.err \in {"no", "failed"} => a.block.out = m["block"].printed
    BY <1>1 DEF run
  <2>2. devices = Lines(m["block"].printed)
    BY <1>1, <2>1 DEF run, Lines
  <2>3. devices[i] \in ToSet(devices)
    BY DEF ToSet
  <2> QED
    BY <2>2, <2>3 DEF LinuxDrives
<1> HIDE DEF a
<1>4. \A z : z.block = a.block =>
         linuxDisks(z) = IF z.block.err # "no" THEN NoFile
                         ELSE IF broken(z) # {} THEN Fail(z[devices[Min(broken(z))].name].err)
                         ELSE Got(drives(z))
  BY DEF linuxDisks
<1>5. CASE s = "block"
  <2>1. b.block.err # "no"
    BY <1>0, <1>5
  <2>2. linuxDisks(b).err # "no"
    BY <2>1 DEF linuxDisks, NoFile, Fail
  <2> QED
    BY <2>2, RankIs DEF a
<1>6. CASE s # "block"
  <2>1. b.block = a.block
    BY <1>0, <1>1, <1>6
  <2>2. CASE \E i \in physical : devices[i].name = s
    <3>1. broken(b) # {}
      <4>1. PICK i \in physical : devices[i].name = s
        BY <2>2
      <4>2. i \in broken(b)
        BY <1>0, <4>1
      <4> QED
        BY <4>2
    <3>2. broken(b) \subseteq Nat
      <4>1. DOMAIN devices = 1..Len(devices) /\ Len(devices) \in Nat
        <5> HIDE DEF devices
        <5> QED
          BY <1>2, LenProperties
      <4> QED
        BY <4>1
    <3>3. Min(broken(b)) \in broken(b)
      <4> HIDE DEF broken
      <4> QED
        BY <3>1, <3>2, Least
    <3>4. b[devices[Min(broken(b))].name].err # "no"
      BY <3>3
    <3> HIDE DEF broken, devices
    <3>5. linuxDisks(b).err # "no"
      <4>1. linuxDisks(b) = NoFile \/ linuxDisks(b) = Fail(b[devices[Min(broken(b))].name].err)
        BY <1>4, <2>1, <3>1
      <4>2. NoFile.err # "no" /\ Fail(b[devices[Min(broken(b))].name].err).err # "no"
        BY <3>4 DEF NoFile, Fail
      <4> QED
        BY <4>1, <4>2
    <3> QED
      BY <3>5, RankIs DEF a
  <2>3. CASE ~\E i \in physical : devices[i].name = s
    <3>1. \A i \in physical : b[devices[i].name] = a[devices[i].name]
      BY <1>0, <1>3, <2>3
    <3>2. broken(b) = broken(a) /\ told(b) = told(a)
      BY <3>1
    <3>3. broken(b) # {} => b[devices[Min(broken(b))].name] = a[devices[Min(broken(a))].name]
      <4>1. broken(b) \subseteq Nat
        <5>1. DOMAIN devices = 1..Len(devices) /\ Len(devices) \in Nat
          <6> HIDE DEF devices
          <6> QED
            BY <1>2, LenProperties
        <5> QED
          BY <5>1
      <4>2. broken(b) # {} => Min(broken(b)) \in broken(b)
        <5> HIDE DEF broken
        <5> QED
          BY <4>1, Least
      <4>3. broken(b) \subseteq physical
        OBVIOUS
      <4> HIDE DEF broken, physical
      <4> QED
        BY <3>1, <3>2, <4>2, <4>3
    <3>4. drives(b) = drives(a)
      <4> DEFINE kept == Kept(devices, told(a))
                 S == {devices[i] : i \in told(a) \cap (1..Len(devices))}
      <4>1. kept \in Seq(S)
        <5> HIDE DEF devices, told
        <5> QED
          BY <1>2, KeptHolds
      <4>2. \A d \in S : b[d.name] = a[d.name]
        BY <3>1
      <4> HIDE DEF S
      <4>3. \A i \in DOMAIN kept : kept[i] \in S
        <5> HIDE DEF kept
        <5> QED
          BY <4>1, LenProperties
      <4>4. drives(b) = Map(kept, LAMBDA d : parseSmartctl(d.name, b[d.name].out))
            /\ drives(a) = Map(kept, LAMBDA d : parseSmartctl(d.name, a[d.name].out))
        BY <3>2
      <4> HIDE DEF kept, drives
      <4>5. \A i \in DOMAIN kept : parseSmartctl(kept[i].name, b[kept[i].name].out) =
                                  parseSmartctl(kept[i].name, a[kept[i].name].out)
        BY <4>2, <4>3
      <4> QED
        BY <4>4, <4>5 DEF Map
    <3> HIDE DEF broken, drives, devices
    <3>5. linuxDisks(b) = linuxDisks(a)
      BY <1>4, <2>1, <3>2, <3>3, <3>4
    <3> QED
      BY <3>5, RankIs DEF a
  <2> QED
    BY <2>2, <2>3
<1> QED
  BY <1>5, <1>6

\* A prediction that is lost leaves the drives as they report themselves.
LEMMA WindowsDisksLose ==
    ASSUME NEW a, a.PhysicalDisk \in Answers(Seq([name : STRING, health : STRING])),
           NEW b, b.PhysicalDisk = a.PhysicalDisk, b.FailurePredict.err # "no"
    PROVE  Rank("disk.smart", windowsDisks(b)) <= Rank("disk.smart", windowsDisks(a))
<1> DEFINE table == Unmarshal(a.PhysicalDisk)
           drives == parseWindowsDisks(table.f)
<1>1. CASE table.err # "no"
  <2>1. windowsDisks(b) = windowsDisks(a)
    BY <1>1 DEF windowsDisks, Then
  <2> QED
    BY <2>1, RankIs
<1>2. CASE table.err = "no"
  <2>1. windowsDisks(b) = Got(drives)
    BY <1>2 DEF windowsDisks, Then, applyFailurePredictions
  <2>2. windowsDisks(a) = Got(applyFailurePredictions(drives, a.FailurePredict))
    BY <1>2 DEF windowsDisks, Then
  <2> DEFINE all == Map(drives, LAMBDA d : [d EXCEPT !.status = "failing"])
  <2>3. applyFailurePredictions(drives, a.FailurePredict) \in {drives, all}
    BY DEF applyFailurePredictions
  <2>4. ASSUME NEW h PROVE Rank("disk.smart", Got(h)) = severityRank(disksVerdict(h).severity)
    BY DEF Rank, Judge, Got
  <2>5. drives \in Seq(DriveRead)
    <3>1. Reads(windowsDisks(b), Drives)
      BY WindowsDisksRead
    <3> QED
      BY <2>1, <3>1 DEF Reads, Got, Drives, DriveRead
  <2>6. severityRank(disksVerdict(drives).severity) <= severityRank(disksVerdict(all).severity)
    <3>1. CASE drives = <<>>
      <4>1. severityRank(disksVerdict(drives).severity) = 0
        BY <3>1, DisksSeverity DEF severityRank
      <4>2. severityRank(disksVerdict(all).severity) \in Nat
        BY DEF severityRank
      <4> QED
        BY <4>1, <4>2
    <3>2. CASE drives # <<>>
      <4> HIDE DEF drives
      <4>1. 1 \in DOMAIN drives /\ drives[1] \in DriveRead
        BY <2>5, <3>2, LenProperties
      <4>2. [drives[1] EXCEPT !.status = "failing"].status = "failing"
        BY <4>1 DEF DriveRead
      <4>3. DOMAIN all = DOMAIN drives /\ all[1] = [drives[1] EXCEPT !.status = "failing"]
        BY <4>1 DEF Map
      <4>4. all # <<>> /\ \E i \in DOMAIN all : all[i].status = "failing"
        <5> HIDE DEF all
        <5> QED
          <6>1. 1 \in DOMAIN all /\ all[1].status = "failing"
            BY <4>1, <4>2, <4>3
          <6> QED
            BY <6>1
      <4> HIDE DEF all
      <4>5. severityRank(disksVerdict(all).severity) = 2
        BY <4>4, DisksSeverity DEF severityRank
      <4>6. severityRank(disksVerdict(drives).severity) \in 0..2
        BY DEF severityRank
      <4> QED
        BY <4>5, <4>6
    <3> QED
      BY <3>1, <3>2
  <2>7. severityRank(disksVerdict(drives).severity) \in Nat
    BY DEF severityRank
  <2> HIDE DEF drives, all
  <2> QED
    BY <2>1, <2>2, <2>3, <2>4, <2>6, <2>7
<1> QED
  BY <1>1, <1>2

\* A collector that fails makes no finding.
LEMMA FailedIsNoWorse ==
    ASSUME NEW c, NEW r, r.err # "no", NEW q PROVE Rank(c, r) <= Rank(c, q)
BY RankIs

\* One that reads the same concludes the same.
LEMMA SameIsNoWorse ==
    ASSUME NEW c, NEW r PROVE Rank(c, r) <= Rank(c, r)
BY RankIs

\* Most collectors fail with any of their sources.
LEMMA FailsWith ==
    ASSUME NEW a
    PROVE  /\ a.mounts.err # "no" => linuxVolumes(a).err # "no"
           /\ a.getfsstat.err # "no" => darwinVolumes(a).err # "no"
           /\ a.LogicalDisk.err # "no" => windowsVolumes(a).err # "no"
           /\ a.diskutil.err # "no" => darwinDisks(a).err # "no"
           /\ a.PhysicalDisk.err # "no" => windowsDisks(a).err # "no"
           /\ a.loadavg.err # "no" \/ a.meminfo.err # "no" => linuxLoad(a).err # "no"
           /\ a.vm_loadavg.err # "no" => darwinLoad(a).err # "no"
           /\ a.Load.err # "no" => windowsLoad(a).err # "no"
           /\ a.journalctl.err # "no" => linuxEvents(a).err # "no"
           /\ a.log.err # "no" => darwinEvents(a).err # "no"
           /\ a.WinEvent.err # "no" => windowsEvents(a).err # "no"
           /\ a.softwareupdate.err # "no" => darwinPatches(a).err # "no"
           /\ a.QuickFix.err # "no" => windowsPatches(a).err # "no"
           /\ a.apt_get.err = "failed" => linuxUpdates(a).err # "no"
           /\ a.UpdateResults.err # "no" => windowsUpdates(a).err # "no"
           /\ a.interfaces.err # "no" => \A r : collectNetwork(a, r).err # "no"
           /\ a.ShadowCopy.err # "no" => windowsBackup(a).err # "no"
           /\ a.PnPEntity.err # "no" => windowsProblemDevices(a).err # "no"
           /\ a.meminfo.err # "no" => linuxRAM(a).err # "no"
           /\ a.hw_memsize.err # "no" => darwinRAM(a).err # "no"
           /\ a.PhysicalMemory.err # "no" => windowsRAM(a).err # "no"
           /\ a.SPPowerDataType.err # "no" => darwinBattery(a).err # "no"
           /\ a.Battery.err # "no" => windowsBattery(a).err # "no"
<1>1. /\ a.mounts.err # "no" => linuxVolumes(a).err # "no"
      /\ a.getfsstat.err # "no" => darwinVolumes(a).err # "no"
      /\ a.LogicalDisk.err # "no" => windowsVolumes(a).err # "no"
      /\ a.diskutil.err # "no" => darwinDisks(a).err # "no"
      /\ a.PhysicalDisk.err # "no" => windowsDisks(a).err # "no"
  BY FailedTable DEF linuxVolumes, darwinVolumes, windowsVolumes, darwinDisks,
                     windowsDisks, Then, NoFile, Fail
<1>2. /\ a.loadavg.err # "no" \/ a.meminfo.err # "no" => linuxLoad(a).err # "no"
      /\ a.vm_loadavg.err # "no" => darwinLoad(a).err # "no"
      /\ a.Load.err # "no" => windowsLoad(a).err # "no"
  BY FailedTable DEF linuxLoad, darwinLoad, windowsLoad, Then, NoFile, Fail
<1>3. /\ a.journalctl.err # "no" => linuxEvents(a).err # "no"
      /\ a.log.err # "no" => darwinEvents(a).err # "no"
      /\ a.WinEvent.err # "no" => windowsEvents(a).err # "no"
      /\ a.softwareupdate.err # "no" => darwinPatches(a).err # "no"
      /\ a.QuickFix.err # "no" => windowsPatches(a).err # "no"
  BY FailedTable DEF linuxEvents, darwinEvents, windowsEvents, darwinPatches,
                     windowsPatches, Then
<1>4. a.apt_get.err = "failed" => linuxUpdates(a).err # "no"
  BY DEF linuxUpdates, Fail
<1>5. /\ a.UpdateResults.err # "no" => windowsUpdates(a).err # "no"
      /\ a.interfaces.err # "no" => \A r : collectNetwork(a, r).err # "no"
      /\ a.ShadowCopy.err # "no" => windowsBackup(a).err # "no"
      /\ a.PnPEntity.err # "no" => windowsProblemDevices(a).err # "no"
  BY FailedTable DEF windowsUpdates, collectNetwork, windowsBackup,
                     windowsProblemDevices, Then, NoFile, Fail
<1>6. /\ a.meminfo.err # "no" => linuxRAM(a).err # "no"
      /\ a.hw_memsize.err # "no" => darwinRAM(a).err # "no"
      /\ a.PhysicalMemory.err # "no" => windowsRAM(a).err # "no"
      /\ a.SPPowerDataType.err # "no" => darwinBattery(a).err # "no"
      /\ a.Battery.err # "no" => windowsBattery(a).err # "no"
  BY FailedTable DEF linuxRAM, darwinRAM, windowsRAM, darwinBattery, windowsBattery,
                     Then, NoFile, Fail
<1> QED
  BY <1>1, <1>2, <1>3, <1>4, <1>5, <1>6

\* On Linux the number of processors may be lost.
LEMMA LinuxLoadLoses ==
    ASSUME NEW a, NEW b, b.loadavg = a.loadavg, b.meminfo = a.meminfo, b.cpus.err # "no"
    PROVE  Rank("performance.load", linuxLoad(b)) <= Rank("performance.load", linuxLoad(a))
<1>1. CASE a.loadavg.err # "no" \/ a.meminfo.err # "no"
  BY <1>1, FailsWith, FailedIsNoWorse
<1>2. CASE a.loadavg.err = "no" /\ a.meminfo.err = "no"
  <2>1. PICK f, g : /\ linuxLoad(a) = Got(f) /\ linuxLoad(b) = Got(g)
                    /\ g.load = f.load /\ g.busy = f.busy /\ g.available = f.available
                    /\ g.swap = f.swap /\ g.cores = Number(b.cpus)
    BY <1>2 DEF linuxLoad
  <2>2. g.cores = 0
    BY <2>1, FailedTable
  <2> QED
    BY <2>1, <2>2, LoadLoses
<1> QED
  BY <1>1, <1>2

\* On macOS all but the load average and vm_stat, which is counted as no memory.
LEMMA DarwinLoadLoses ==
    ASSUME NEW a, NEW b, b.vm_loadavg = a.vm_loadavg, b.vm_stat = a.vm_stat,
           b.hw_ncpu = a.hw_ncpu \/ b.hw_ncpu.err # "no",
           b.hw_memsize = a.hw_memsize \/ b.hw_memsize.err # "no",
           b.vm_swapusage = a.vm_swapusage \/ b.vm_swapusage.err # "no"
    PROVE  Rank("performance.load", darwinLoad(b)) <= Rank("performance.load", darwinLoad(a))
<1>1. CASE a.vm_loadavg.err # "no"
  BY <1>1, FailsWith, FailedIsNoWorse
<1>2. CASE a.vm_loadavg.err = "no"
  <2> DEFINE memory(z) == memoryFraction(parseVMStatAvailable(z.vm_stat), Number(z.hw_memsize))
             swap(z) == swapping(parseSwapUsage(z.vm_swapusage).used,
                 parseSwapUsage(z.vm_swapusage).total)
  <2>1. PICK f, g : /\ darwinLoad(a) = Got(f) /\ darwinLoad(b) = Got(g)
                    /\ g.load = f.load /\ g.busy = f.busy
                    /\ f.available = memory(a) /\ g.available = memory(b)
                    /\ f.swap = swap(a) /\ g.swap = swap(b)
                    /\ f.cores = Number(a.hw_ncpu) /\ g.cores = Number(b.hw_ncpu)
    BY <1>2 DEF darwinLoad
  <2>2. g.cores \in {f.cores, 0}
    BY <2>1, FailedTable
  <2>3. g.available \in {f.available, None}
    <3>1. b.hw_memsize.err # "no" => memory(b) = None
      BY FailedTable DEF memoryFraction
    <3>2. b.hw_memsize = a.hw_memsize => memory(b) = memory(a)
      OBVIOUS
    <3> QED
      BY <2>1, <3>1, <3>2
  <2>4. g.swap \in {f.swap, None}
    <3>1. b.vm_swapusage.err # "no" => swap(b) = None
      BY DEF parseSwapUsage, swapping
    <3>2. b.vm_swapusage = a.vm_swapusage => swap(b) = swap(a)
      OBVIOUS
    <3> QED
      BY <2>1, <3>1, <3>2
  <2> QED
    BY <2>1, <2>2, <2>3, <2>4, LoadLoses
<1> QED
  BY <1>1, <1>2

\* A part of the posture that is lost is unknown, and the others are what they were.
LEMMA PosturesLose ==
    ASSUME NEW a, NEW b
    PROVE  /\ b.lsblk.err # "no" =>
                 Rank("security.posture", linuxPosture(b)) <= Rank("security.posture",
                 linuxPosture(a))
           /\ (/\ b.fdesetup = a.fdesetup \/ b.fdesetup.err # "no"
               /\ b.alf = a.alf \/ b.alf.err # "no") =>
                 Rank("security.posture", darwinPosture(b)) <= Rank("security.posture",
                 darwinPosture(a))
           /\ (/\ b.BitLocker = a.BitLocker \/ b.BitLocker.err # "no"
               /\ b.Firewall = a.Firewall \/ b.Firewall.err # "no"
               /\ b.Antivirus = a.Antivirus \/ b.Antivirus.err # "no") =>
                 Rank("security.posture", windowsPosture(b)) <= Rank("security.posture",
                 windowsPosture(a))
<1>1. ASSUME NEW answer, answer.err # "no", NEW status PROVE Part(answer, status) = "unknown"
  BY <1>1 DEF Part
<1>2. ASSUME NEW e, NEW w, NEW v, NEW x, NEW y, NEW z,
             Reads(Got([encryption |-> e, firewall |-> w, antivirus |-> v]), Posture),
             Reads(Got([encryption |-> x, firewall |-> y, antivirus |-> z]), Posture),
             x \in {e, "unknown"}, y \in {w, "unknown"}, z \in {v, "unknown"}
      PROVE  Rank("security.posture",
             Got([encryption |-> x, firewall |-> y, antivirus |-> z])) <=
             Rank("security.posture", Got([encryption |-> e, firewall |-> w, antivirus |-> v]))
  <2> DEFINE f == [encryption |-> e, firewall |-> w, antivirus |-> v]
             g == [encryption |-> x, firewall |-> y, antivirus |-> z]
  <2>1. f \in Posture /\ g \in Posture
    BY <1>2 DEF Reads, Got
  <2>2. \A p \in DOMAIN g : g[p] \in {f[p], "unknown"}
    BY <1>2
  <2> SUFFICES Rank("security.posture", Got(g)) <= Rank("security.posture", Got(f))
    OBVIOUS
  <2> HIDE DEF f, g
  <2> QED
    BY <2>1, <2>2, PostureLoses
<1>3. ASSUME b.lsblk.err # "no"
      PROVE  Rank("security.posture", linuxPosture(b)) <= Rank("security.posture",
             linuxPosture(a))
  <2>1. Reads(linuxPosture(a), Posture) /\ Reads(linuxPosture(b), Posture)
    BY PosturesRead
  <2> QED
    BY <1>1, <1>2, <1>3, <2>1 DEF linuxPosture
<1>4. ASSUME b.fdesetup = a.fdesetup \/ b.fdesetup.err # "no", b.alf = a.alf \/ b.alf.err # "no"
      PROVE  Rank("security.posture", darwinPosture(b)) <= Rank("security.posture",
             darwinPosture(a))
  <2>1. Reads(darwinPosture(a), Posture) /\ Reads(darwinPosture(b), Posture)
    BY PosturesRead
  <2>2. /\ Part(b.fdesetup, parseFDESetup(b.fdesetup.out)) \in
              {Part(a.fdesetup, parseFDESetup(a.fdesetup.out)), "unknown"}
        /\ Part(b.alf, parseALFGlobalState(b.alf.out)) \in
              {Part(a.alf, parseALFGlobalState(a.alf.out)), "unknown"}
    BY <1>1, <1>4
  <2> QED
    BY <1>2, <2>1, <2>2 DEF darwinPosture
<1>5. ASSUME b.BitLocker = a.BitLocker \/ b.BitLocker.err # "no",
             b.Firewall = a.Firewall \/ b.Firewall.err # "no",
             b.Antivirus = a.Antivirus \/ b.Antivirus.err # "no"
      PROVE  Rank("security.posture", windowsPosture(b)) <= Rank("security.posture",
             windowsPosture(a))
  <2>1. Reads(windowsPosture(a), Posture) /\ Reads(windowsPosture(b), Posture)
    BY PosturesRead
  <2>2. /\ Part(b.BitLocker, parseWindowsBitLocker(b.BitLocker.out)) \in
              {Part(a.BitLocker, parseWindowsBitLocker(a.BitLocker.out)), "unknown"}
        /\ Part(b.Firewall, parseWindowsFirewall(b.Firewall.out)) \in
              {Part(a.Firewall, parseWindowsFirewall(a.Firewall.out)), "unknown"}
        /\ Part(b.Antivirus, parseWindowsAntivirus(b.Antivirus.out)) \in
              {Part(a.Antivirus, parseWindowsAntivirus(a.Antivirus.out)), "unknown"}
    BY <1>1, <1>5
  <2> QED
    BY <1>2, <2>1, <2>2 DEF windowsPosture
<1> QED
  BY <1>3, <1>4, <1>5

\* The list of packages is not asked for where a log is there.
LEMMA LinuxPatchesLose ==
    ASSUME NEW a, NEW b, \A n \in dpkgLogs : b[n] = a[n], b.rpm.err # "no"
    PROVE  Rank("updates.installed", linuxPatches(b)) <= Rank("updates.installed",
           linuxPatches(a))
<1>1. CASE \E n \in dpkgLogs : a[n].err # "missing"
  <2>1. {n \in dpkgLogs : b[n].err = "no"} = {n \in dpkgLogs : a[n].err = "no"}
    OBVIOUS
  <2>2. collectDpkg(b) = collectDpkg(a)
    BY <2>1 DEF collectDpkg
  <2>3. linuxPatches(b) = linuxPatches(a)
    BY <1>1, <2>2 DEF linuxPatches
  <2> QED
    BY <2>3, SameIsNoWorse
<1>2. CASE ~\E n \in dpkgLogs : a[n].err # "missing"
  <2>1. linuxPatches(b).err # "no"
    BY <1>2, FailedTable DEF linuxPatches, Then
  <2> QED
    BY <2>1, FailedIsNoWorse
<1> QED
  BY <1>1, <1>2

\* The time of the last update that is lost is none, and dnf that fails counts nothing.
LEMMA LinuxUpdatesLose ==
    ASSUME NEW a, a.apt_get.err \in {"no", "missing", "failed"},
           a.dnf.err = "missing" => a.dnf.out = None,
           NEW b, b.apt_get = a.apt_get,
           b.dpkg_status = a.dpkg_status \/ b.dpkg_status.err # "no",
           b.rpmdb = a.rpmdb \/ b.rpmdb.err # "no",
           b.dnf = a.dnf \/ (b.dnf.err = "failed" /\ b.dnf.out = None)
    PROVE  Rank("updates.os", linuxUpdates(b)) <= Rank("updates.os", linuxUpdates(a))
<1>0. ASSUME NEW answer, answer.err # "no" PROVE fileModTime(answer) = None
  BY <1>0 DEF fileModTime
<1>1. CASE a.apt_get.err = "no"
  <2>1. PICK n : /\ linuxUpdates(a) = Got(Updates(fileModTime(a.dpkg_status), n))
                 /\ linuxUpdates(b) = Got(Updates(fileModTime(b.dpkg_status), n))
    BY <1>1 DEF linuxUpdates
  <2>2. fileModTime(b.dpkg_status) \in {fileModTime(a.dpkg_status), None}
    BY <1>0
  <2> QED
    BY <2>1, <2>2, UpdatesLose, SameIsNoWorse
<1>2. CASE a.apt_get.err = "failed"
  <2>1. linuxUpdates(b).err # "no"
    BY <1>2 DEF linuxUpdates, Fail
  <2> QED
    BY <2>1, FailedIsNoWorse
<1>3. CASE a.apt_get.err = "missing" /\ b.dnf.err = "failed" /\ b.dnf.out = None
  <2>1. linuxUpdates(b).err # "no"
    BY <1>3 DEF linuxUpdates, Fail
  <2> QED
    BY <2>1, FailedIsNoWorse
<1>4. CASE a.apt_get.err = "missing" /\ b.dnf = a.dnf /\ a.dnf.out # None
  <2>1. a.dnf.err # "missing"
    BY <1>4
  <2>2. PICK n : /\ linuxUpdates(a) = Got(Updates(fileModTime(a.rpmdb), n))
                 /\ linuxUpdates(b) = Got(Updates(fileModTime(b.rpmdb), n))
    BY <1>4, <2>1 DEF linuxUpdates
  <2>3. fileModTime(b.rpmdb) \in {fileModTime(a.rpmdb), None}
    BY <1>0
  <2> QED
    BY <2>2, <2>3, UpdatesLose, SameIsNoWorse
<1>5. CASE a.apt_get.err = "missing" /\ b.dnf = a.dnf /\ a.dnf.out = None
  <2>1. linuxUpdates(b) = linuxUpdates(a)
    BY <1>5 DEF linuxUpdates
  <2> QED
    BY <2>1, SameIsNoWorse
<1> QED
  BY <1>1, <1>2, <1>3, <1>4, <1>5

\* On macOS the one source of the last update may be lost.
LEMMA DarwinUpdatesLose ==
    ASSUME NEW a, NEW b, b.defaults.err # "no"
    PROVE  Rank("updates.os", darwinUpdates(b)) <= Rank("updates.os", darwinUpdates(a))
<1>1. darwinUpdates(b) = Got(Updates(None, -1))
  BY DEF darwinUpdates
<1>2. PICK age : darwinUpdates(a) = Got(Updates(age, -1))
  BY DEF darwinUpdates
<1> QED
  BY <1>1, <1>2, UpdatesLose

\* Routes that could not be read are not absent ones.
LEMMA RoutesLost ==
    ASSUME NEW a
    PROVE  /\ (a.net_route.err # "no" \/ a.resolv_conf.err # "no") => linuxRouting(a).routeErr
           /\ a.scutil.err # "no" => darwinRouting(a).routeErr
           /\ a.NetIPConfiguration.err # "no" => windowsRouting(a).routeErr
BY DEF linuxRouting, darwinRouting, windowsRouting, Routing

\* So the network is no worse where the routes are lost.
LEMMA NoWorseOff ==
    ASSUME NEW a, NEW b, b.interfaces = a.interfaces, a.interfaces \in Answers(Seq(Adapter))
    PROVE  /\ (b.net_route.err # "no" \/ b.resolv_conf.err # "no") =>
                 Rank("network.config", collectNetwork(b, linuxRouting(b))) <=
                 Rank("network.config", collectNetwork(a, linuxRouting(a)))
           /\ b.scutil.err # "no" =>
                 Rank("network.config", collectNetwork(b, darwinRouting(b))) <=
                 Rank("network.config", collectNetwork(a, darwinRouting(a)))
           /\ b.NetIPConfiguration.err # "no" =>
                 Rank("network.config", collectNetwork(b, windowsRouting(b))) <=
                 Rank("network.config", collectNetwork(a, windowsRouting(a)))
BY RoutesLost, RoutingsRead, NetworkLoses

\* A battery of which nothing is told is none.
LEMMA LinuxBatteryLoses ==
    ASSUME NEW a, NEW b, b.power_supply.err # "no"
    PROVE  Rank("battery.health", linuxBattery(b)) <= Rank("battery.health", linuxBattery(a))
<1>1. linuxBattery(b) = Got(NoBattery)
  BY DEF linuxBattery
<1>2. Rank("battery.health", linuxBattery(b)) = 0
  BY <1>1 DEF Rank, Judge, Got, NoBattery, batteryVerdict, OK, Finding, severityRank
<1> QED
  BY <1>2, RankIs

\* The total of the computer system is asked for where no module is reported.
LEMMA WindowsRAMLoses ==
    ASSUME NEW a, NEW b, b.PhysicalMemory = a.PhysicalMemory, b.Hardware.err # "no"
    PROVE  Rank("hardware.ram", windowsRAM(b)) <= Rank("hardware.ram", windowsRAM(a))
<1> DEFINE table == Unmarshal(a.PhysicalMemory)
           total == parseWindowsRAM(table.f)
<1>0. FirstRow(b.Hardware).err # "no"
  BY FailedTable
<1>1. CASE table.err # "no"
  <2>1. windowsRAM(b).err # "no"
    BY <1>1 DEF windowsRAM, Then
  <2> QED
    BY <2>1, FailedIsNoWorse
<1>2. CASE table.err = "no" /\ total = 0
  <2>1. windowsRAM(b) = Got(0)
    BY <1>0, <1>2 DEF windowsRAM, Then
  <2>2. Rank("hardware.ram", Got(0)) = 0
    BY DEF Rank, Judge, Got, ramVerdict, OK, Finding, severityRank
  <2> QED
    BY <2>1, <2>2, RankIs
<1>3. CASE table.err = "no" /\ total # 0
  <2>1. windowsRAM(b) = Got(total) /\ windowsRAM(a) = Got(total)
    BY <1>3 DEF windowsRAM, Then
  <2> QED
    BY <2>1, SameIsNoWorse
<1> QED
  BY <1>1, <1>2, <1>3

\* On Linux no source that is lost makes a finding, but those in Conclusive.
LEMMA LinuxLoses ==
    ASSUME NEW c \in Checks, "linux" \in Platforms(c), NEW m, linuxMachine(c, m),
           NEW s \in DOMAIN m,
           <<"linux", c, s>> \notin Conclusive, NEW b,
           Silenced([t \in DOMAIN m |-> run(m[t])], b, s)
    PROVE  Rank(c, linuxCollect(c, b)) <= Rank(c,
           linuxCollect(c, [t \in DOMAIN m |-> run(m[t])]))
<1> DEFINE a == [t \in DOMAIN m |-> run(m[t])]
<1> SUFFICES Rank(c, linuxCollect(c, b)) <= Rank(c, linuxCollect(c, a))
  OBVIOUS
<1>0. /\ b[s].err = "failed" /\ b[s].out = None
      /\ \A t \in DOMAIN m \ {s} : b[t] = a[t]
  BY DEF Silenced
<1>1. CASE c = "disk.volumes"
  <2>1. linuxCollect(c, a) = linuxVolumes(a) /\ linuxCollect(c, b) = linuxVolumes(b)
    BY <1>1 DEF linuxCollect
  <2>2. s \in {"mounts"}
    BY <1>1, LinuxSources
  <2>3. CASE s \in {"mounts"}
    <3>1. b.mounts.err = "failed"
      BY <1>0, <2>3
    <3>2. linuxVolumes(b).err # "no"
      BY <3>1, FailsWith
    <3> QED
      BY <2>1, <3>2, FailedIsNoWorse
  <2> QED
    BY <2>2, <2>3
<1>2. CASE c = "disk.smart"
  <2>1. linuxCollect(c, a) = linuxDisks(a) /\ linuxCollect(c, b) = linuxDisks(b)
    BY <1>2 DEF linuxCollect
  <2>2. LinuxDrives(m)
    BY <1>2 DEF linuxMachine
  <2> QED
    BY <1>2, <2>1, <2>2, LinuxDisksLose
<1>3. CASE c = "performance.load"
  <2>1. linuxCollect(c, a) = linuxLoad(a) /\ linuxCollect(c, b) = linuxLoad(b)
    BY <1>3 DEF linuxCollect
  <2>2. s \in {"loadavg", "meminfo", "cpus"}
    BY <1>3, LinuxSources
  <2>3. CASE s \in {"loadavg", "meminfo"}
    <3>1. b.loadavg.err = "failed" \/ b.meminfo.err = "failed"
      BY <1>0, <2>3
    <3>2. linuxLoad(b).err # "no"
      BY <3>1, FailsWith
    <3> QED
      BY <2>1, <3>2, FailedIsNoWorse
  <2>4. CASE s \in {"cpus"}
    <3>1. /\ b.cpus.err # "no"
          /\ b.loadavg = a.loadavg
          /\ b.meminfo = a.meminfo
      BY <1>0, <1>3, <2>4, LinuxSources
    <3> HIDE DEF a
    <3> QED
      BY <1>3, <2>1, <3>1, LinuxLoadLoses
  <2> QED
    BY <2>2, <2>3, <2>4
<1>4. CASE c = "security.posture"
  <2>1. linuxCollect(c, a) = linuxPosture(a) /\ linuxCollect(c, b) = linuxPosture(b)
    BY <1>4 DEF linuxCollect
  <2>2. s \in {"lsblk"}
    BY <1>4, LinuxSources
  <2>3. CASE s \in {"lsblk"}
    <3>1. /\ b.lsblk.err # "no"
      BY <1>0, <1>4, <2>3, LinuxSources
    <3> HIDE DEF a
    <3> QED
      BY <1>4, <2>1, <3>1, PosturesLose
  <2> QED
    BY <2>2, <2>3
<1>5. CASE c = "eventlog.errors"
  <2>1. linuxCollect(c, a) = linuxEvents(a) /\ linuxCollect(c, b) = linuxEvents(b)
    BY <1>5 DEF linuxCollect
  <2>2. s \in {"journalctl"}
    BY <1>5, LinuxSources
  <2>3. CASE s \in {"journalctl"}
    <3>1. b.journalctl.err = "failed"
      BY <1>0, <2>3
    <3>2. linuxEvents(b).err # "no"
      BY <3>1, FailsWith
    <3> QED
      BY <2>1, <3>2, FailedIsNoWorse
  <2> QED
    BY <2>2, <2>3
<1>6. CASE c = "updates.installed"
  <2>1. linuxCollect(c, a) = linuxPatches(a) /\ linuxCollect(c, b) = linuxPatches(b)
    BY <1>6 DEF linuxCollect
  <2>2. s \in {"rpm"}
    BY <1>6, LinuxSources DEF Conclusive
  <2>3. CASE s \in {"rpm"}
    <3>1. /\ b.dpkg_log = a.dpkg_log
          /\ b.dpkg_log_1 = a.dpkg_log_1
          /\ b.rpm.err # "no"
      BY <1>0, <1>6, <2>3, LinuxSources
    <3> HIDE DEF a
    <3> QED
      BY <1>6, <2>1, <3>1, LinuxPatchesLose DEF dpkgLogs
  <2> QED
    BY <2>2, <2>3
<1>7. CASE c = "updates.os"
  <2>1. linuxCollect(c, a) = linuxUpdates(a) /\ linuxCollect(c, b) = linuxUpdates(b)
    BY <1>7 DEF linuxCollect
  <2>2. s \in {"apt_get", "dpkg_status", "dnf", "rpmdb"}
    BY <1>7, LinuxSources
  <2>3. m \in [apt_get : Source(Seq(STRING)), dpkg_status : Source(Int),
        dnf : Source(Seq(STRING)), rpmdb : Source(Int)]
    BY <1>7 DEF linuxMachine
  <2>4. /\ a.apt_get \in Answers(Seq(STRING))
        /\ a.dnf \in Answers(Seq(STRING))
        /\ a.dnf.err = "missing" => a.dnf.out = None
    BY <2>3, Ran
  <2>5. CASE s \in {"apt_get"}
    <3>1. b.apt_get.err = "failed"
      BY <1>0, <2>5
    <3>2. linuxUpdates(b).err # "no"
      BY <3>1, FailsWith
    <3> QED
      BY <2>1, <3>2, FailedIsNoWorse
  <2>6. CASE s \in {"dpkg_status", "dnf", "rpmdb"}
    <3>1. /\ b.apt_get = a.apt_get
          /\ (b.dpkg_status = a.dpkg_status \/
             (b.dpkg_status.err = "failed" /\ b.dpkg_status.out = None))
          /\ (b.dnf = a.dnf \/ (b.dnf.err = "failed" /\ b.dnf.out = None))
          /\ (b.rpmdb = a.rpmdb \/ (b.rpmdb.err = "failed" /\ b.rpmdb.out = None))
      BY <1>0, <1>7, <2>6, LinuxSources
    <3> HIDE DEF a
    <3> QED
      BY <1>7, <2>1, <2>4, <3>1, LinuxUpdatesLose DEF Answers
  <2> QED
    BY <2>2, <2>5, <2>6
<1>8. CASE c = "network.config"
  <2>1. linuxCollect(c, a) = collectNetwork(a, linuxRouting(a)) /\ linuxCollect(c,
        b) = collectNetwork(b, linuxRouting(b))
    BY <1>8 DEF linuxCollect
  <2>2. s \in {"interfaces", "net_route", "resolv_conf"}
    BY <1>8, LinuxSources
  <2>3. m \in [interfaces : Listing(Seq(Adapter)), net_route : Source(Seq(STRING)),
        resolv_conf : Source(Seq(STRING))]
    BY <1>8 DEF linuxMachine
  <2>4. /\ a.interfaces \in Answers(Seq(Adapter))
    BY <2>3, Ran DEF Listing
  <2>5. CASE s \in {"interfaces"}
    <3>1. b.interfaces.err = "failed"
      BY <1>0, <2>5
    <3>2. collectNetwork(b, linuxRouting(b)).err # "no"
      BY <3>1, FailsWith
    <3> QED
      BY <2>1, <3>2, FailedIsNoWorse
  <2>6. CASE s \in {"net_route", "resolv_conf"}
    <3>1. /\ b.interfaces = a.interfaces
          /\ (b.net_route.err # "no" \/ b.resolv_conf.err # "no")
      BY <1>0, <1>8, <2>6, LinuxSources
    <3> HIDE DEF a
    <3> QED
      BY <1>8, <2>1, <2>4, <3>1, NoWorseOff
  <2> QED
    BY <2>2, <2>5, <2>6
<1>9. CASE c = "backup.status"
  <2>1. linuxCollect(c, a) = linuxBackup /\ linuxCollect(c, b) = linuxBackup
    BY <1>9 DEF linuxCollect
  <2> QED
    BY <2>1, SameIsNoWorse
<1>10. CASE c = "hardware.ram"
  <2>1. linuxCollect(c, a) = linuxRAM(a) /\ linuxCollect(c, b) = linuxRAM(b)
    BY <1>10 DEF linuxCollect
  <2>2. s \in {"meminfo"}
    BY <1>10, LinuxSources
  <2>3. CASE s \in {"meminfo"}
    <3>1. b.meminfo.err = "failed"
      BY <1>0, <2>3
    <3>2. linuxRAM(b).err # "no"
      BY <3>1, FailsWith
    <3> QED
      BY <2>1, <3>2, FailedIsNoWorse
  <2> QED
    BY <2>2, <2>3
<1>11. CASE c = "battery.health"
  <2>1. linuxCollect(c, a) = linuxBattery(a) /\ linuxCollect(c, b) = linuxBattery(b)
    BY <1>11 DEF linuxCollect
  <2>2. s \in {"power_supply"}
    BY <1>11, LinuxSources
  <2>3. CASE s \in {"power_supply"}
    <3>1. /\ b.power_supply.err # "no"
      BY <1>0, <1>11, <2>3, LinuxSources
    <3> HIDE DEF a
    <3> QED
      BY <1>11, <2>1, <3>1, LinuxBatteryLoses
  <2> QED
    BY <2>2, <2>3
<1>12. CASE c \in {"startup.items", "os.info", "hardware.inventory"}
  BY <1>12, NeverAFinding
<1> HIDE DEF a
<1> QED
  BY <1>1, <1>2, <1>3, <1>4, <1>5, <1>6, <1>7, <1>8, <1>9, <1>10, <1>11, <1>12
     DEF Checks, Platforms

\* On macOS none does.
LEMMA DarwinLoses ==
    ASSUME NEW c \in Checks, "darwin" \in Platforms(c), NEW m, darwinMachine(c, m),
           NEW s \in DOMAIN m,
           <<"darwin", c, s>> \notin Conclusive, NEW b,
           Silenced([t \in DOMAIN m |-> run(m[t])], b, s)
    PROVE  Rank(c, darwinCollect(c, b)) <= Rank(c,
           darwinCollect(c, [t \in DOMAIN m |-> run(m[t])]))
<1> DEFINE a == [t \in DOMAIN m |-> run(m[t])]
<1> SUFFICES Rank(c, darwinCollect(c, b)) <= Rank(c, darwinCollect(c, a))
  OBVIOUS
<1>0. /\ b[s].err = "failed" /\ b[s].out = None
      /\ \A t \in DOMAIN m \ {s} : b[t] = a[t]
  BY DEF Silenced
<1>1. CASE c = "disk.volumes"
  <2>1. darwinCollect(c, a) = darwinVolumes(a) /\ darwinCollect(c, b) = darwinVolumes(b)
    BY <1>1 DEF darwinCollect
  <2>2. s \in {"getfsstat"}
    BY <1>1, DarwinSources
  <2>3. CASE s \in {"getfsstat"}
    <3>1. b.getfsstat.err = "failed"
      BY <1>0, <2>3
    <3>2. darwinVolumes(b).err # "no"
      BY <3>1, FailsWith
    <3> QED
      BY <2>1, <3>2, FailedIsNoWorse
  <2> QED
    BY <2>2, <2>3
<1>2. CASE c = "disk.smart"
  <2>1. darwinCollect(c, a) = darwinDisks(a) /\ darwinCollect(c, b) = darwinDisks(b)
    BY <1>2 DEF darwinCollect
  <2>2. s \in {"diskutil"}
    BY <1>2, DarwinSources
  <2>3. CASE s \in {"diskutil"}
    <3>1. b.diskutil.err = "failed"
      BY <1>0, <2>3
    <3>2. darwinDisks(b).err # "no"
      BY <3>1, FailsWith
    <3> QED
      BY <2>1, <3>2, FailedIsNoWorse
  <2> QED
    BY <2>2, <2>3
<1>3. CASE c = "performance.load"
  <2>1. darwinCollect(c, a) = darwinLoad(a) /\ darwinCollect(c, b) = darwinLoad(b)
    BY <1>3 DEF darwinCollect
  <2>2. s \in {"vm_loadavg", "hw_ncpu", "hw_memsize", "vm_swapusage"}
    BY <1>3, DarwinSources DEF Conclusive
  <2>3. CASE s \in {"vm_loadavg"}
    <3>1. b.vm_loadavg.err = "failed"
      BY <1>0, <2>3
    <3>2. darwinLoad(b).err # "no"
      BY <3>1, FailsWith
    <3> QED
      BY <2>1, <3>2, FailedIsNoWorse
  <2>4. CASE s \in {"hw_ncpu", "hw_memsize", "vm_swapusage"}
    <3>1. /\ b.vm_loadavg = a.vm_loadavg
          /\ (b.hw_ncpu = a.hw_ncpu \/ (b.hw_ncpu.err = "failed" /\ b.hw_ncpu.out = None))
          /\ b.vm_stat = a.vm_stat
          /\ (b.hw_memsize = a.hw_memsize \/
             (b.hw_memsize.err = "failed" /\ b.hw_memsize.out = None))
          /\ (b.vm_swapusage = a.vm_swapusage \/
             (b.vm_swapusage.err = "failed" /\ b.vm_swapusage.out = None))
      BY <1>0, <1>3, <2>4, DarwinSources
    <3> HIDE DEF a
    <3> QED
      BY <1>3, <2>1, <3>1, DarwinLoadLoses
  <2> QED
    BY <2>2, <2>3, <2>4
<1>4. CASE c = "security.posture"
  <2>1. darwinCollect(c, a) = darwinPosture(a) /\ darwinCollect(c, b) = darwinPosture(b)
    BY <1>4 DEF darwinCollect
  <2>2. s \in {"fdesetup", "alf"}
    BY <1>4, DarwinSources
  <2>3. CASE s \in {"fdesetup", "alf"}
    <3>1. /\ (b.fdesetup = a.fdesetup \/ (b.fdesetup.err = "failed" /\ b.fdesetup.out = None))
          /\ (b.alf = a.alf \/ (b.alf.err = "failed" /\ b.alf.out = None))
      BY <1>0, <1>4, <2>3, DarwinSources
    <3> HIDE DEF a
    <3> QED
      BY <1>4, <2>1, <3>1, PosturesLose
  <2> QED
    BY <2>2, <2>3
<1>5. CASE c = "eventlog.errors"
  <2>1. darwinCollect(c, a) = darwinEvents(a) /\ darwinCollect(c, b) = darwinEvents(b)
    BY <1>5 DEF darwinCollect
  <2>2. s \in {"log"}
    BY <1>5, DarwinSources
  <2>3. CASE s \in {"log"}
    <3>1. b.log.err = "failed"
      BY <1>0, <2>3
    <3>2. darwinEvents(b).err # "no"
      BY <3>1, FailsWith
    <3> QED
      BY <2>1, <3>2, FailedIsNoWorse
  <2> QED
    BY <2>2, <2>3
<1>6. CASE c = "updates.installed"
  <2>1. darwinCollect(c, a) = darwinPatches(a) /\ darwinCollect(c, b) = darwinPatches(b)
    BY <1>6 DEF darwinCollect
  <2>2. s \in {"softwareupdate"}
    BY <1>6, DarwinSources
  <2>3. CASE s \in {"softwareupdate"}
    <3>1. b.softwareupdate.err = "failed"
      BY <1>0, <2>3
    <3>2. darwinPatches(b).err # "no"
      BY <3>1, FailsWith
    <3> QED
      BY <2>1, <3>2, FailedIsNoWorse
  <2> QED
    BY <2>2, <2>3
<1>7. CASE c = "updates.os"
  <2>1. darwinCollect(c, a) = darwinUpdates(a) /\ darwinCollect(c, b) = darwinUpdates(b)
    BY <1>7 DEF darwinCollect
  <2>2. s \in {"defaults"}
    BY <1>7, DarwinSources
  <2>3. CASE s \in {"defaults"}
    <3>1. /\ b.defaults.err # "no"
      BY <1>0, <1>7, <2>3, DarwinSources
    <3> HIDE DEF a
    <3> QED
      BY <1>7, <2>1, <3>1, DarwinUpdatesLose
  <2> QED
    BY <2>2, <2>3
<1>8. CASE c = "network.config"
  <2>1. darwinCollect(c, a) = collectNetwork(a, darwinRouting(a)) /\ darwinCollect(c,
        b) = collectNetwork(b, darwinRouting(b))
    BY <1>8 DEF darwinCollect
  <2>2. s \in {"interfaces", "scutil"}
    BY <1>8, DarwinSources DEF Conclusive
  <2>3. m \in [interfaces : Listing(Seq(Adapter)), route : Source(Seq(STRING)),
        scutil : Source(Seq(STRING))]
    BY <1>8 DEF darwinMachine
  <2>4. /\ a.interfaces \in Answers(Seq(Adapter))
    BY <2>3, Ran DEF Listing
  <2>5. CASE s \in {"interfaces"}
    <3>1. b.interfaces.err = "failed"
      BY <1>0, <2>5
    <3>2. collectNetwork(b, darwinRouting(b)).err # "no"
      BY <3>1, FailsWith
    <3> QED
      BY <2>1, <3>2, FailedIsNoWorse
  <2>6. CASE s \in {"scutil"}
    <3>1. /\ b.interfaces = a.interfaces
          /\ b.route = a.route
          /\ b.scutil.err # "no"
      BY <1>0, <1>8, <2>6, DarwinSources
    <3> HIDE DEF a
    <3> QED
      BY <1>8, <2>1, <2>4, <3>1, NoWorseOff
  <2> QED
    BY <2>2, <2>5, <2>6
<1>9. CASE c = "backup.status"
  BY <1>9, DarwinSources DEF Conclusive
<1>10. CASE c = "hardware.ram"
  <2>1. darwinCollect(c, a) = darwinRAM(a) /\ darwinCollect(c, b) = darwinRAM(b)
    BY <1>10 DEF darwinCollect
  <2>2. s \in {"hw_memsize"}
    BY <1>10, DarwinSources
  <2>3. CASE s \in {"hw_memsize"}
    <3>1. b.hw_memsize.err = "failed"
      BY <1>0, <2>3
    <3>2. darwinRAM(b).err # "no"
      BY <3>1, FailsWith
    <3> QED
      BY <2>1, <3>2, FailedIsNoWorse
  <2> QED
    BY <2>2, <2>3
<1>11. CASE c = "battery.health"
  <2>1. darwinCollect(c, a) = darwinBattery(a) /\ darwinCollect(c, b) = darwinBattery(b)
    BY <1>11 DEF darwinCollect
  <2>2. s \in {"SPPowerDataType"}
    BY <1>11, DarwinSources
  <2>3. CASE s \in {"SPPowerDataType"}
    <3>1. b.SPPowerDataType.err = "failed"
      BY <1>0, <2>3
    <3>2. darwinBattery(b).err # "no"
      BY <3>1, FailsWith
    <3> QED
      BY <2>1, <3>2, FailedIsNoWorse
  <2> QED
    BY <2>2, <2>3
<1>12. CASE c \in {"startup.items", "os.info", "hardware.inventory"}
  BY <1>12, NeverAFinding
<1> HIDE DEF a
<1> QED
  BY <1>1, <1>2, <1>3, <1>4, <1>5, <1>6, <1>7, <1>8, <1>9, <1>10, <1>11, <1>12
     DEF Checks, Platforms

\* On Windows none does.
LEMMA WindowsLoses ==
    ASSUME NEW c \in Checks, "windows" \in Platforms(c), NEW m, windowsMachine(c, m),
           NEW s \in DOMAIN m,
           <<"windows", c, s>> \notin Conclusive, NEW b,
           Silenced([t \in DOMAIN m |-> run(m[t])], b, s)
    PROVE  Rank(c, windowsCollect(c, b)) <= Rank(c,
           windowsCollect(c, [t \in DOMAIN m |-> run(m[t])]))
<1> DEFINE a == [t \in DOMAIN m |-> run(m[t])]
<1> SUFFICES Rank(c, windowsCollect(c, b)) <= Rank(c, windowsCollect(c, a))
  OBVIOUS
<1>0. /\ b[s].err = "failed" /\ b[s].out = None
      /\ \A t \in DOMAIN m \ {s} : b[t] = a[t]
  BY DEF Silenced
<1>1. CASE c = "disk.volumes"
  <2>1. windowsCollect(c, a) = windowsVolumes(a) /\ windowsCollect(c, b) = windowsVolumes(b)
    BY <1>1 DEF windowsCollect
  <2>2. s \in {"LogicalDisk"}
    BY <1>1, WindowsSources
  <2>3. CASE s \in {"LogicalDisk"}
    <3>1. b.LogicalDisk.err = "failed"
      BY <1>0, <2>3
    <3>2. windowsVolumes(b).err # "no"
      BY <3>1, FailsWith
    <3> QED
      BY <2>1, <3>2, FailedIsNoWorse
  <2> QED
    BY <2>2, <2>3
<1>2. CASE c = "disk.smart"
  <2>1. windowsCollect(c, a) = windowsDisks(a) /\ windowsCollect(c, b) = windowsDisks(b)
    BY <1>2 DEF windowsCollect
  <2>2. s \in {"PhysicalDisk", "FailurePredict"}
    BY <1>2, WindowsSources
  <2>3. m \in [PhysicalDisk : Source(Seq([name : STRING, health : STRING])),
        FailurePredict : Source(Seq(BOOLEAN))]
    BY <1>2 DEF windowsMachine
  <2>4. /\ a.PhysicalDisk \in Answers(Seq([name : STRING, health : STRING]))
    BY <2>3, Ran
  <2>5. CASE s \in {"PhysicalDisk"}
    <3>1. b.PhysicalDisk.err = "failed"
      BY <1>0, <2>5
    <3>2. windowsDisks(b).err # "no"
      BY <3>1, FailsWith
    <3> QED
      BY <2>1, <3>2, FailedIsNoWorse
  <2>6. CASE s \in {"FailurePredict"}
    <3>1. /\ b.PhysicalDisk = a.PhysicalDisk
          /\ b.FailurePredict.err # "no"
      BY <1>0, <1>2, <2>6, WindowsSources
    <3> HIDE DEF a
    <3> QED
      BY <1>2, <2>1, <2>4, <3>1, WindowsDisksLose
  <2> QED
    BY <2>2, <2>5, <2>6
<1>3. CASE c = "performance.load"
  <2>1. windowsCollect(c, a) = windowsLoad(a) /\ windowsCollect(c, b) = windowsLoad(b)
    BY <1>3 DEF windowsCollect
  <2>2. s \in {"Load"}
    BY <1>3, WindowsSources
  <2>3. CASE s \in {"Load"}
    <3>1. b.Load.err = "failed"
      BY <1>0, <2>3
    <3>2. windowsLoad(b).err # "no"
      BY <3>1, FailsWith
    <3> QED
      BY <2>1, <3>2, FailedIsNoWorse
  <2> QED
    BY <2>2, <2>3
<1>4. CASE c = "security.posture"
  <2>1. windowsCollect(c, a) = windowsPosture(a) /\ windowsCollect(c, b) = windowsPosture(b)
    BY <1>4 DEF windowsCollect
  <2>2. s \in {"BitLocker", "Firewall", "Antivirus"}
    BY <1>4, WindowsSources
  <2>3. CASE s \in {"BitLocker", "Firewall", "Antivirus"}
    <3>1. /\ (b.BitLocker = a.BitLocker \/
             (b.BitLocker.err = "failed" /\ b.BitLocker.out = None))
          /\ (b.Firewall = a.Firewall \/ (b.Firewall.err = "failed" /\ b.Firewall.out = None))
          /\ (b.Antivirus = a.Antivirus \/
             (b.Antivirus.err = "failed" /\ b.Antivirus.out = None))
      BY <1>0, <1>4, <2>3, WindowsSources
    <3> HIDE DEF a
    <3> QED
      BY <1>4, <2>1, <3>1, PosturesLose
  <2> QED
    BY <2>2, <2>3
<1>5. CASE c = "eventlog.errors"
  <2>1. windowsCollect(c, a) = windowsEvents(a) /\ windowsCollect(c, b) = windowsEvents(b)
    BY <1>5 DEF windowsCollect
  <2>2. s \in {"WinEvent"}
    BY <1>5, WindowsSources
  <2>3. CASE s \in {"WinEvent"}
    <3>1. b.WinEvent.err = "failed"
      BY <1>0, <2>3
    <3>2. windowsEvents(b).err # "no"
      BY <3>1, FailsWith
    <3> QED
      BY <2>1, <3>2, FailedIsNoWorse
  <2> QED
    BY <2>2, <2>3
<1>6. CASE c = "updates.installed"
  <2>1. windowsCollect(c, a) = windowsPatches(a) /\ windowsCollect(c, b) = windowsPatches(b)
    BY <1>6 DEF windowsCollect
  <2>2. s \in {"QuickFix"}
    BY <1>6, WindowsSources
  <2>3. CASE s \in {"QuickFix"}
    <3>1. b.QuickFix.err = "failed"
      BY <1>0, <2>3
    <3>2. windowsPatches(b).err # "no"
      BY <3>1, FailsWith
    <3> QED
      BY <2>1, <3>2, FailedIsNoWorse
  <2> QED
    BY <2>2, <2>3
<1>7. CASE c = "updates.os"
  <2>1. windowsCollect(c, a) = windowsUpdates(a) /\ windowsCollect(c, b) = windowsUpdates(b)
    BY <1>7 DEF windowsCollect
  <2>2. s \in {"UpdateResults"}
    BY <1>7, WindowsSources
  <2>3. CASE s \in {"UpdateResults"}
    <3>1. b.UpdateResults.err = "failed"
      BY <1>0, <2>3
    <3>2. windowsUpdates(b).err # "no"
      BY <3>1, FailsWith
    <3> QED
      BY <2>1, <3>2, FailedIsNoWorse
  <2> QED
    BY <2>2, <2>3
<1>8. CASE c = "network.config"
  <2>1. windowsCollect(c, a) = collectNetwork(a, windowsRouting(a)) /\ windowsCollect(c,
        b) = collectNetwork(b, windowsRouting(b))
    BY <1>8 DEF windowsCollect
  <2>2. s \in {"interfaces", "NetIPConfiguration"}
    BY <1>8, WindowsSources
  <2>3. m \in [interfaces : Listing(Seq(Adapter)),
        NetIPConfiguration : Source(Seq([gateway : STRING, dns : Seq(STRING)]))]
    BY <1>8 DEF windowsMachine
  <2>4. /\ a.interfaces \in Answers(Seq(Adapter))
    BY <2>3, Ran DEF Listing
  <2>5. CASE s \in {"interfaces"}
    <3>1. b.interfaces.err = "failed"
      BY <1>0, <2>5
    <3>2. collectNetwork(b, windowsRouting(b)).err # "no"
      BY <3>1, FailsWith
    <3> QED
      BY <2>1, <3>2, FailedIsNoWorse
  <2>6. CASE s \in {"NetIPConfiguration"}
    <3>1. /\ b.interfaces = a.interfaces
          /\ b.NetIPConfiguration.err # "no"
      BY <1>0, <1>8, <2>6, WindowsSources
    <3> HIDE DEF a
    <3> QED
      BY <1>8, <2>1, <2>4, <3>1, NoWorseOff
  <2> QED
    BY <2>2, <2>5, <2>6
<1>9. CASE c = "backup.status"
  <2>1. windowsCollect(c, a) = windowsBackup(a) /\ windowsCollect(c, b) = windowsBackup(b)
    BY <1>9 DEF windowsCollect
  <2>2. s \in {"ShadowCopy"}
    BY <1>9, WindowsSources
  <2>3. CASE s \in {"ShadowCopy"}
    <3>1. b.ShadowCopy.err = "failed"
      BY <1>0, <2>3
    <3>2. windowsBackup(b).err # "no"
      BY <3>1, FailsWith
    <3> QED
      BY <2>1, <3>2, FailedIsNoWorse
  <2> QED
    BY <2>2, <2>3
<1>10. CASE c = "drivers.problem"
  <2>1. windowsCollect(c, a) = windowsProblemDevices(a) /\ windowsCollect(c,
        b) = windowsProblemDevices(b)
    BY <1>10 DEF windowsCollect
  <2>2. s \in {"PnPEntity"}
    BY <1>10, WindowsSources
  <2>3. CASE s \in {"PnPEntity"}
    <3>1. b.PnPEntity.err = "failed"
      BY <1>0, <2>3
    <3>2. windowsProblemDevices(b).err # "no"
      BY <3>1, FailsWith
    <3> QED
      BY <2>1, <3>2, FailedIsNoWorse
  <2> QED
    BY <2>2, <2>3
<1>11. CASE c = "hardware.ram"
  <2>1. windowsCollect(c, a) = windowsRAM(a) /\ windowsCollect(c, b) = windowsRAM(b)
    BY <1>11 DEF windowsCollect
  <2>2. s \in {"PhysicalMemory", "Hardware"}
    BY <1>11, WindowsSources
  <2>3. CASE s \in {"PhysicalMemory"}
    <3>1. b.PhysicalMemory.err = "failed"
      BY <1>0, <2>3
    <3>2. windowsRAM(b).err # "no"
      BY <3>1, FailsWith
    <3> QED
      BY <2>1, <3>2, FailedIsNoWorse
  <2>4. CASE s \in {"Hardware"}
    <3>1. /\ b.PhysicalMemory = a.PhysicalMemory
          /\ b.Hardware.err # "no"
      BY <1>0, <1>11, <2>4, WindowsSources
    <3> HIDE DEF a
    <3> QED
      BY <1>11, <2>1, <3>1, WindowsRAMLoses
  <2> QED
    BY <2>2, <2>3, <2>4
<1>12. CASE c = "battery.health"
  <2>1. windowsCollect(c, a) = windowsBattery(a) /\ windowsCollect(c, b) = windowsBattery(b)
    BY <1>12 DEF windowsCollect
  <2>2. s \in {"Battery"}
    BY <1>12, WindowsSources
  <2>3. CASE s \in {"Battery"}
    <3>1. b.Battery.err = "failed"
      BY <1>0, <2>3
    <3>2. windowsBattery(b).err # "no"
      BY <3>1, FailsWith
    <3> QED
      BY <2>1, <3>2, FailedIsNoWorse
  <2> QED
    BY <2>2, <2>3
<1>13. CASE c \in {"startup.items", "os.info", "hardware.inventory"}
  BY <1>13, NeverAFinding
<1> HIDE DEF a
<1> QED
  BY <1>1, <1>2, <1>3, <1>4, <1>5, <1>6, <1>7, <1>8, <1>9, <1>10, <1>11, <1>12, <1>13
     DEF Checks, Platforms

\* The rank of what Run files.
LEMMA VerdictRanks ==
    ASSUME NEW m PROVE severityRank(Verdict(m).severity) = Rank(check, Asked(m))
BY UnknownIsAnswered DEF Verdict, Rank, severityRank

\* One more source that fails never makes a finding of a pass or a worse one of a
\* finding, but for those in Conclusive, on any machine.
THEOREM Losing == Spec => []LossIsNoFinding
<1>1. CheckInv => LossIsNoFinding
  <2> SUFFICES ASSUME CheckInv, machine # None, NEW s \in DOMAIN machine,
                      <<os, check, s>> \notin Conclusive
               PROVE  severityRank(Verdict(Lost(machine, s)).severity) <=
                      severityRank(result.severity)
    BY DEF LossIsNoFinding
  <2>1. check \in Checks /\ os \in OS
    BY CheckAssumption DEF CheckInv
  <2>2. os \in Platforms(check) /\ Machine(check, os, machine) /\ result = Verdict(machine)
    BY MachinesAssumption DEF CheckInv, AnswerInv, Offered
  <2> DEFINE a == [t \in DOMAIN machine |-> run(machine[t])]
             b == [t \in DOMAIN Lost(machine, s) |-> run(Lost(machine, s)[t])]
  <2>3. Silenced(a, b, s)
    BY LostIsSilenced
  <2>4. Asked(machine) = Collect(check, os, a) /\ Asked(Lost(machine, s)) = Collect(check, os,
        b)
    BY DEF Asked
  <2> HIDE DEF b
  <2>5. Rank(check, Collect(check, os, b)) <= Rank(check, Collect(check, os, a))
    <3>1. CASE os = "linux"
      BY <2>1, <2>2, <2>3, <3>1, LinuxLoses DEF Machine, Collect
    <3>2. CASE os = "darwin"
      BY <2>1, <2>2, <2>3, <3>2, DarwinLoses DEF Machine, Collect
    <3>3. CASE os = "windows"
      BY <2>1, <2>2, <2>3, <3>3, WindowsLoses DEF Machine, Collect
    <3> QED
      BY <2>1, <3>1, <3>2, <3>3 DEF OS
  <2> HIDE DEF a
  <2> QED
    BY <2>2, <2>4, <2>5, VerdictRanks
<1> QED
  BY <1>1, CheckInvAlways, PTL
=============================================================================
