------------------------------ MODULE Verdicts ------------------------------
(***************************************************************************)
(* What each check of internal/checks concludes from its readings, as      *)
(* operators on a record of readings.  A finding is a severity and the     *)
(* message key of its summary, without the prefix "check." and without the *)
(* plural variant, which explain.Base strips; "names" is the drive the     *)
(* message names, for the one check whose message names a part at fault.   *)
(*                                                                         *)
(* Shares are whole per cents, ages are days.                              *)
(***************************************************************************)
EXTENDS Integers, Sequences, FiniteSets, SequencesExt

CONSTANT None      \* a reading that was not made

NoName == "no drive"

Finding(severity, summary) ==
    [severity |-> severity, summary |-> summary, names |-> NoName]

OK(summary) == Finding("ok", summary)
Attention(summary) == Finding("attention", summary)
Urgent(summary) == Finding("urgent", summary)
Unknown(summary) == Finding("unknown", summary)

-----------------------------------------------------------------------------
(* Storage. *)

lowSpacePercent == 10
criticalSpacePercent == 5

\* free: the share of each volume that is unused.  The tightest volume decides.
volumesVerdict(free) ==
    LET tightest == CHOOSE p \in ToSet(free) : \A q \in ToSet(free) : p <= q IN
    CASE free = <<>> -> Unknown("disk.volumes.none")
      [] free # <<>> /\ tightest < criticalSpacePercent -> Urgent("disk.volumes.critical")
      [] free # <<>> /\ tightest >= criticalSpacePercent /\ tightest < lowSpacePercent ->
            Attention("disk.volumes.low")
      [] OTHER -> OK("disk.volumes.ok")

\* drives: name, status and reallocated, which is 0 where it is not exposed.  The one
\* that is named retired the most sectors of those before the first that fails; where
\* none of these retired any, it is the first that fails.
disksVerdict(drives) ==
    LET failing == {i \in DOMAIN drives : drives[i].status = "failing"}
        retired == {i \in DOMAIN drives : drives[i].reallocated > 0}
        early == {i \in retired : \A j \in failing : i < j}
        worst == {i \in early : \A j \in early : drives[j].reallocated <= drives[i].reallocated}
        naming(f) == [f EXCEPT !.names = drives[Min(IF worst = {} THEN failing ELSE worst)].name]
    IN IF drives = <<>> THEN Unknown("disk.smart.no_disks")
       ELSE IF failing # {} THEN naming(Urgent("disk.smart.failing"))
       ELSE IF retired # {} THEN naming(Attention("disk.smart.bad_spots"))
       ELSE IF \A i \in DOMAIN drives : drives[i].status = "unknown"
            THEN Unknown("disk.smart.unknown")
       ELSE OK("disk.smart.ok")

-----------------------------------------------------------------------------
(* Load and memory right now. *)

memoryCriticalPercent == 10
memoryLowPercent == 20
swapPressurePercent == 50
loadPerCoreBusy == 2
busyPercentNow == 90

\* cores is 0, and the others None, where the platform does not report them;
\* swap is None where there is none.
loadVerdict(f) ==
    LET below(p) == f.available # None /\ f.available < p
        waiting == f.load # None /\ f.cores > 0 /\ f.load >= loadPerCoreBusy * f.cores
    IN IF f.available = None /\ f.load = None /\ f.busy = None
         THEN Unknown("performance.load.unreadable")
       ELSE IF below(memoryCriticalPercent) THEN Urgent("performance.load.memory_critical")
       ELSE IF below(memoryLowPercent) THEN Attention("performance.load.memory_low")
       ELSE IF f.swap # None /\ f.swap > swapPressurePercent
         THEN Attention("performance.load.swapping")
       ELSE IF waiting THEN Attention("performance.load.busy")
       ELSE IF f.busy # None /\ f.busy >= busyPercentNow
         THEN Attention("performance.load.busy_now")
       ELSE OK("performance.load.ok")

-----------------------------------------------------------------------------
(* Security posture: each protection is on, off, unknown or not_applicable. *)

postureVerdict(f) ==
    LET off == {p \in DOMAIN f : f[p] = "off"}
        unread == /\ f.encryption = "unknown"
                  /\ f.firewall = "unknown"
                  /\ f.antivirus \in {"unknown", "not_applicable"}
    IN CASE Cardinality(off) > 1 -> Attention("security.posture.several_off")
         [] off = {"encryption"} -> Attention("security.posture.no_encryption")
         [] off = {"firewall"} -> Attention("security.posture.no_firewall")
         [] off = {"antivirus"} -> Attention("security.posture.no_antivirus")
         [] off = {} /\ unread -> Unknown("security.posture.unreadable")
         [] OTHER -> OK("security.posture.ok")

-----------------------------------------------------------------------------
(* The system log. *)

repeatThreshold == 10

\* errors: the events read, how many are critical, and the largest number of
\* them that have one source and one ID.
eventsVerdict(f) ==
    IF f.errors = 0 THEN OK("eventlog.errors.none")
    ELSE IF f.critical > 0 THEN Attention("eventlog.errors.critical")
    ELSE IF f.repeated >= repeatThreshold THEN Attention("eventlog.errors.repeated")
    ELSE OK("eventlog.errors.quiet")

-----------------------------------------------------------------------------
(* Updates: what was applied, and when the machine was last updated. *)

recentWindow == 30

patchesVerdictUndated(f) ==    \* mutant: a patch without a date is a recent one
    LET dated == {a \in f.applied : a # None}
    IN CASE ~f.readable -> Unknown("updates.installed.unreadable")
         [] f.readable /\ f.applied = {} -> Attention("updates.installed.none")
         [] f.readable /\ (None \in f.applied \/ \E a \in dated : a <= recentWindow) ->
               OK("updates.installed.recent")
         [] OTHER -> Attention("updates.installed.old")

\* applied: the ages of the recorded patches, None for one with no date.
patchesVerdict(f) ==
    LET dated == {a \in f.applied : a # None}
    IN CASE ~f.readable -> Unknown("updates.installed.unreadable")
         [] f.readable /\ f.applied = {} -> Attention("updates.installed.none")
         [] f.readable /\ f.applied # {} /\ dated = {} ->
               Unknown("updates.installed.unreadable")
         [] f.readable /\ \E a \in dated : a <= recentWindow ->
               OK("updates.installed.recent")
         [] OTHER -> Attention("updates.installed.old")

staleAfter == 60
veryStaleAfter == 180

updatesVerdictPendingFirst(f) ==    \* mutant: what is pending is tested first
    CASE f.pending > 0 -> Attention("updates.os.pending")
      [] f.pending <= 0 /\ f.age = None -> Unknown("updates.os.unknown")
      [] f.pending <= 0 /\ f.age # None /\ f.age > veryStaleAfter -> Urgent("updates.os.very_stale")
      [] f.pending <= 0 /\ f.age # None /\ f.age > staleAfter /\ f.age <= veryStaleAfter ->
            Attention("updates.os.stale")
      [] OTHER -> OK("updates.os.ok")

\* pending is -1 where the platform cannot say without going online.
updatesVerdict(f) ==
    IF f.age = None
    THEN IF f.pending > 0 THEN Attention("updates.os.pending")
                          ELSE Unknown("updates.os.unknown")
    ELSE IF f.age > veryStaleAfter THEN Urgent("updates.os.very_stale")
    ELSE IF f.age > staleAfter THEN Attention("updates.os.stale")
    ELSE IF f.pending > 0 THEN Attention("updates.os.pending")
    ELSE OK("updates.os.ok")

-----------------------------------------------------------------------------
(* Network configuration. *)

\* An interface is up or not, and has no address, only a link-local one, or a
\* routable one.
activeInterfaces(interfaces) ==
    {i \in interfaces : i.up /\ i.address = "routable"}

configVerdictUnread(f) ==    \* mutant: a routing table that was not read is an empty one
    CASE activeInterfaces(f.interfaces) = {} -> Urgent("network.config.no_address")
      [] activeInterfaces(f.interfaces) # {} /\ ~f.gateway ->
            Attention("network.config.no_gateway")
      [] activeInterfaces(f.interfaces) # {} /\ f.gateway /\ ~f.dns ->
            Attention("network.config.no_dns")
      [] OTHER -> OK("network.config.ok")

\* routeErr: the routing table could not be read, and gateway and dns are not there.
configVerdict(f) ==
    CASE activeInterfaces(f.interfaces) = {} -> Urgent("network.config.no_address")
      [] activeInterfaces(f.interfaces) # {} /\ ~f.routeErr /\ ~f.gateway ->
            Attention("network.config.no_gateway")
      [] activeInterfaces(f.interfaces) # {} /\ ~f.routeErr /\ f.gateway /\ ~f.dns ->
            Attention("network.config.no_dns")
      [] OTHER -> OK("network.config.ok")

-----------------------------------------------------------------------------
(* Backups. *)

freshWindow == 7
staleWindow == 30

backupVerdict(f) ==
    IF ~f.supported THEN Unknown("backup.status.not_applicable")
    ELSE IF ~f.configured THEN Attention("backup.status.none")
    ELSE IF f.last = None THEN Attention("backup.status.never_run")
    ELSE IF f.last < 0 THEN Unknown("backup.status.unreadable")
    ELSE IF f.last > staleWindow THEN Urgent("backup.status.very_stale")
    ELSE IF f.last > freshWindow THEN Attention("backup.status.stale")
    ELSE OK("backup.status.ok")

-----------------------------------------------------------------------------
(* Inventory and hardware. *)

problemVerdict(devices) ==
    IF devices = 0 THEN OK("drivers.problem.ok") ELSE Attention("drivers.problem.found")

startupVerdict(items) ==
    IF items = 0 THEN OK("startup.items.none") ELSE OK("startup.items.ok")

osVerdict == OK("os.info.ok")

hardwareVerdict(model) ==
    IF model = "" THEN OK("hardware.inventory.unreported")
                  ELSE OK("hardware.inventory.ok")

lowMemoryGiB == 4

\* total is 0 where no platform call reported it.
ramVerdict(total) ==
    IF total > 0 /\ total < lowMemoryGiB THEN Attention("hardware.ram.low")
                                         ELSE OK("hardware.ram.ok")

batteryVerdict(f) ==
    IF ~f.present THEN OK("battery.health.absent")
    ELSE IF f.percent = 0 THEN Unknown("battery.health.unreadable")
    ELSE IF f.percent < 50 THEN Urgent("battery.health.failing")
    ELSE IF f.percent < 80 THEN Attention("battery.health.worn")
    ELSE OK("battery.health.ok")
=============================================================================
