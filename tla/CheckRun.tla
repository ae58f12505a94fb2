------------------------------ MODULE CheckRun ------------------------------
(***************************************************************************)
(* One check through the snapshots of a session: whether it runs           *)
(* (internal/checks/snapshot.go), what its collector makes of the answers  *)
(* of the machine's sources (Collectors), what it concludes (Verdicts) and *)
(* Run files (internal/checks/runner.go), what the explainer says about it *)
(* (internal/explain) and how a profile counts it (internal/profile).      *)
(*                                                                         *)
(* RunAll runs the checks one after the other and no check sees another's  *)
(* result, so one check stands for each; the machine may have changed      *)
(* between two snapshots in any way.                                       *)
(***************************************************************************)
EXTENDS Collectors

CONSTANTS
    Check,          \* the IDs of the compiled-in checks
    Machines,       \* Machines[c][o]: bound: the sources of check c on platform o, and
                    \* what each of them holds
    MaxSnapshots    \* bound: the snapshots of a session

ASSUME SnapshotsAssumption == MaxSnapshots \in Nat

VARIABLES
    os,
    elevated,       \* whether the process holds administrator rights
    check,          \* the check this behaviour is about
    skipped,        \* it is in SkippedAdmin of the last snapshot
    machine,        \* the sources as the collector found them, None if it did not run
    readings,       \* what its collector brought back, None if it did not
    result,         \* its entry in the last snapshot, None if it has none
    before,         \* history: readings and result of the snapshot before
    taken           \* the snapshots this check was run for

vars == <<os, elevated, check, skipped, machine, readings, result, before, taken>>

OS == {"windows", "darwin", "linux"}
Platforms(c) == IF c = "drivers.problem" THEN {"windows"} ELSE OS
Checks ==
    {"disk.volumes", "disk.smart", "performance.load", "security.posture", "eventlog.errors",
     "updates.installed", "updates.os", "network.config", "backup.status", "drivers.problem",
     "startup.items", "os.info", "hardware.inventory", "hardware.ram", "battery.health"}

ASSUME CheckAssumption == Check \subseteq Checks

ASSUME NoneAssumption == None \notin Int /\ \A c \in Checks : None \notin Readings(c)

ASSUME MachinesAssumption ==
    \A c \in Check : \A o \in Platforms(c) :
        \A m \in Machines[c][o] : Machine(c, o, m) /\ m # None

RequiresAdmin(c) == c = "disk.smart" /\ os = "linux"

Judge(c, f) ==
    CASE c = "disk.volumes" -> volumesVerdict(f)
      [] c = "disk.smart" -> disksVerdict(f)
      [] c = "performance.load" -> loadVerdict(f)
      [] c = "security.posture" -> postureVerdict(f)
      [] c = "eventlog.errors" -> eventsVerdict(f)
      [] c = "updates.installed" -> patchesVerdict(f)
      [] c = "updates.os" -> updatesVerdict(f)
      [] c = "network.config" -> configVerdict(f)
      [] c = "backup.status" -> backupVerdict(f)
      [] c = "drivers.problem" -> problemVerdict(f)
      [] c = "startup.items" -> startupVerdict(f)
      [] c = "os.info" -> osVerdict
      [] c = "hardware.inventory" -> hardwareVerdict(f)
      [] c = "hardware.ram" -> ramVerdict(f)
      [] c = "battery.health" -> batteryVerdict(f)

\* What the collector's error becomes; the list of interfaces has a message of its own.
UnknownFor(c, err) ==
    CASE c = "network.config" -> Unknown("network.config.interfaces_unreadable")
      [] c # "network.config" /\ err = "missing" -> Unknown("unknown.tool_missing")
      [] OTHER -> Unknown("unknown.failed")

\* One Run of the check on a machine: the collector asks its sources, and its readings
\* are judged.
Asked(m) == Collect(check, os, [s \in DOMAIN m |-> run(m[s])])
Verdict(m) ==
    IF Asked(m).err = "no" THEN Judge(check, Asked(m).f) ELSE UnknownFor(check, Asked(m).err)

Init ==
    /\ os \in OS
    /\ elevated \in BOOLEAN
    /\ check \in Check
    /\ skipped = FALSE
    /\ machine = None
    /\ readings = None
    /\ result = None
    /\ before = [readings |-> None, result |-> None]
    /\ taken = 0

Offered == os \in Platforms(check)
Allowed == RequiresAdmin(check) => elevated

Report(m, f, res) ==
    /\ taken < MaxSnapshots
    /\ taken' = taken + 1
    /\ Offered
    /\ Allowed
    /\ machine' = m
    /\ readings' = f
    /\ result' = res
    /\ before' = [readings |-> readings, result |-> result]
    /\ skipped' = FALSE
    /\ UNCHANGED <<os, elevated, check>>

\* The check runs to its end, whatever its collector made of the machine.
Answer(m) == Report(m, Asked(m).f, Verdict(m))

\* An error from Run, or a panic that runGuarded turns into one: the result has
\* no summary.
Breaks == Report(None, None, Unknown(""))

\* RunAll names a check it may not run and goes on.
Skip ==
    /\ Offered
    /\ ~Allowed
    /\ skipped' = TRUE
    /\ UNCHANGED <<os, elevated, check, machine, readings, result, before, taken>>

\* ForPlatform leaves it out.
LeaveOut == ~Offered /\ UNCHANGED vars

Next ==
    \/ \E m \in Machines[check][os] : Answer(m)
    \/ Breaks
    \/ Skip
    \/ LeaveOut

Spec == Init /\ [][Next]_vars

-----------------------------------------------------------------------------
(* The explainer.  A rule says whether there is anything to do, what may be *)
(* offered, and whether someone else should be asked.                       *)

Severity == {"ok", "attention", "urgent", "unknown"}

Rule(do, fixes, wizards, escalate) ==
    [do |-> do, fixes |-> fixes, wizards |-> wizards, escalate |-> escalate]

Nothing ==
    {"os.info.ok", "hardware.inventory.ok", "hardware.inventory.unreported",
     "hardware.ram.ok", "battery.health.ok", "battery.health.absent", "disk.volumes.ok",
     "disk.smart.ok", "network.config.ok", "updates.os.ok", "updates.installed.recent",
     "startup.items.ok", "startup.items.none", "security.posture.ok",
     "drivers.problem.ok", "drivers.problem.not_applicable", "eventlog.errors.none",
     "eventlog.errors.quiet", "performance.load.ok", "backup.status.ok"}

Escalated ==
    {"battery.health.failing", "disk.smart.failing", "updates.os.very_stale",
     "eventlog.errors.critical"}

Worked ==
    {"unknown.failed", "unknown.needs_admin", "unknown.tool_missing", "hardware.ram.low",
     "battery.health.worn", "battery.health.unreadable", "disk.volumes.none",
     "disk.volumes.low", "disk.volumes.critical", "disk.smart.no_disks",
     "disk.smart.unknown", "disk.smart.bad_spots", "network.config.no_address",
     "network.config.no_gateway", "network.config.no_dns",
     "network.config.interfaces_unreadable", "updates.os.pending", "updates.os.stale",
     "updates.os.unknown", "updates.installed.old", "updates.installed.none",
     "updates.installed.unreadable", "security.posture.no_encryption",
     "security.posture.no_firewall", "security.posture.no_antivirus",
     "security.posture.several_off", "security.posture.unreadable",
     "drivers.problem.found", "eventlog.errors.repeated", "performance.load.busy",
     "performance.load.busy_now", "performance.load.memory_low",
     "performance.load.memory_critical", "performance.load.swapping",
     "performance.load.unreadable", "backup.status.not_applicable", "backup.status.none",
     "backup.status.never_run", "backup.status.stale", "backup.status.very_stale",
     "backup.status.unreadable"}

FixFor(v) ==
    CASE v \in {"disk.volumes.low", "disk.volumes.critical"} -> {"temp.clear"}
      [] v = "network.config.no_dns" -> {"net.flush-dns"}
      [] OTHER -> {}

WizardFor(v) ==
    IF v \in {"network.config.no_address", "network.config.no_gateway",
              "network.config.no_dns"}
    THEN {"wizard.connection"} ELSE {}

rulesBehind ==    \* mutant: a verdict the table was not told of
    [v \in (Nothing \cup Worked \cup Escalated) \ {"performance.load.busy_now"} |->
        Rule(v \notin Nothing, FixFor(v), WizardFor(v), v \in Escalated)]

rules == [v \in Nothing \cup Worked \cup Escalated |->
            Rule(v \notin Nothing, FixFor(v), WizardFor(v), v \in Escalated)]

\* The registries of this build, by platform.
Fixes(o) == {"temp.clear", "net.flush-dns"} \cup
            (IF o = "windows" THEN {"print.clear-spooler"} ELSE {})
Wizards(o) == {"wizard.connection"} \cup
              (IF o = "windows" THEN {"wizard.printing"} ELSE {})

\* No result is not a finding, and no advice is none.
ASSUME AbsenceAssumption ==
    /\ None \notin [severity : Severity, summary : DOMAIN rules \cup {""}, names : STRING \cup {NoName}]
    /\ None \notin [do : BOOLEAN, fixes : SUBSET UNION {Fixes(o) : o \in OS},
                    wizards : SUBSET UNION {Wizards(o) : o \in OS}, escalate : BOOLEAN]

\* What the explainer says of a result, None for one without a rule.
For(res) ==
    LET r == rules[res.summary] IN
    IF res.summary \notin DOMAIN rules THEN None
    ELSE Rule(r.do, r.fixes \cap Fixes(os), r.wizards \cap Wizards(os), r.escalate)

-----------------------------------------------------------------------------
(* The profile. *)

\* A severity that is not in the map has rank 0.
severityRank(s) == CASE s = "attention" -> 1 [] s = "urgent" -> 2 [] OTHER -> 0

measureOneByRank(worst) ==    \* mutant: unknown is compared like the others
    CASE result = None /\ skipped -> "unknown"
      [] result = None /\ ~skipped -> "missing"
      [] result # None ->
            IF severityRank(result.severity) <= severityRank(worst) THEN "met" ELSE "unmet"

\* One expectation: the worst severity that is allowed of this check.
measureOne(worst) ==
    CASE result = None /\ skipped -> "unknown"
      [] result = None /\ ~skipped -> "missing"
      [] result # None ->
            IF result.severity = "unknown" THEN "unknown"
            ELSE IF severityRank(result.severity) <= severityRank(worst) THEN "met"
            ELSE "unmet"
-----------------------------------------------------------------------------
(* Comparing readings, for the properties: nothing read in g is better than *)
(* in f, and what was read still is.                                        *)

NoLess(a, b) == IF a = None THEN b = None ELSE b # None /\ b >= a
NoMore(a, b) == IF a = None THEN b = None ELSE b # None /\ b <= a
Aged(ages, n) == {IF a = None THEN None ELSE a + n : a \in ages}

NoBetter(f, g) ==
    CASE check = "disk.volumes" ->
            Len(f) = Len(g) /\ \A i \in DOMAIN f : g[i] <= f[i]
      [] check = "disk.smart" ->
            /\ Len(f) = Len(g)
            /\ \A i \in DOMAIN f :
                  /\ g[i].reallocated >= f[i].reallocated
                  /\ g[i].status = f[i].status \/ <<f[i].status, g[i].status>> = <<"healthy", "failing">>
      [] check = "performance.load" ->
            /\ f.cores = g.cores /\ NoMore(f.available, g.available)
            /\ NoLess(f.load, g.load) /\ NoLess(f.busy, g.busy) /\ NoLess(f.swap, g.swap)
      [] check = "security.posture" ->
            \A p \in DOMAIN f : g[p] = f[p] \/ <<f[p], g[p]>> = <<"on", "off">>
      [] check = "eventlog.errors" ->
            g.errors >= f.errors /\ g.critical >= f.critical /\ g.repeated >= f.repeated
      [] check = "updates.installed" ->
            g.readable = f.readable /\ \E n \in 0..40 : g.applied = Aged(f.applied, n)
      [] check = "updates.os" ->
            /\ NoLess(f.age, g.age) /\ g.pending >= f.pending
            /\ (f.pending = -1) = (g.pending = -1)
      [] check = "network.config" ->
            /\ activeInterfaces(g.interfaces) \subseteq activeInterfaces(f.interfaces)
            /\ g.routeErr = f.routeErr /\ (g.gateway => f.gateway) /\ (g.dns => f.dns)
      [] check = "backup.status" ->
            f.supported = g.supported /\ f.configured = g.configured /\ NoLess(f.last, g.last)
      [] check = "drivers.problem" -> g >= f
      [] check = "hardware.ram" -> f > 0 /\ g > 0 /\ g <= f
      [] check = "battery.health" ->
            f.present = g.present /\ g.percent <= f.percent /\ (f.percent > 0 => g.percent > 0)
      [] OTHER -> TRUE

Known(res) == res # None /\ res.severity # "unknown"

\* What a check has when it could not read what it judges by.
Unread(f) ==
    \/ f = None
    \/ check = "disk.volumes" /\ f = <<>>
    \/ check = "disk.smart" /\ \A i \in DOMAIN f : f[i].status = "unknown"
    \/ check = "performance.load" /\ f.available = None /\ f.load = None /\ f.busy = None
    \/ /\ check = "security.posture"
       /\ \A p \in DOMAIN f : f[p] \in {"unknown", "not_applicable"}
       /\ f.encryption = "unknown" /\ f.firewall = "unknown"
    \/ check = "updates.installed" /\ (~f.readable \/ f.applied = {None})
    \/ check = "updates.os" /\ f.age = None
    \/ check = "backup.status" /\ (~f.supported \/ f.last = None)
    \/ check = "battery.health" /\ f.present /\ f.percent = 0

\* No source of a check has said anything that can be read.
Silent(m) ==
    \A s \in DOMAIN m : run(m[s]).err # "no" \/ run(m[s]).out = Garbled

\* The checks that take silence for an answer (README): a directory that is not there
\* holds no startup entry, no class of supplies no battery, a log of which no line
\* decodes no error, and a Linux machine of which nothing is told is not reported.
SilenceSaysNone(c) ==
    \/ c \in {"startup.items", "battery.health", "eventlog.errors"}
    \/ c = "hardware.inventory" /\ os = "linux"

\* "It never reports OK in that case" (check.go:19-20): a check that read nothing it
\* judges by, whose sources said nothing, whose collector failed, or that broke, is
\* not a check that passed.  Of hardware.ram this does not hold (README).
UnreadIsNotOK ==
    result # None /\ result.severity = "ok" =>
        /\ ~Unread(readings)
        /\ ~SilenceSaysNone(check) => ~Silent(machine)

\* The sources whose silence is taken for a bad answer (README).
Conclusive ==
    {<<"darwin", "network.config", "route">>,
     <<"darwin", "performance.load", "vm_stat">>, <<"darwin", "backup.status", "destinationinfo">>,
     <<"darwin", "backup.status", "latestbackup">>, <<"linux", "updates.installed", "dpkg_log">>,
     <<"linux", "updates.installed", "dpkg_log_1">>}

Lost(m, s) == [m EXCEPT ![s] = [installed |-> TRUE, ok |-> FALSE, printed |-> None]]

\* A source that fails takes an answer away and gives none (runner.go:26-33, the early
\* returns of every collector): whatever the machine, one more failing source makes the
\* verdict no worse, so it never makes a finding of a pass or of no answer at all.  It
\* does for the sources in Conclusive, and for no other.
LossIsNoFinding ==
    machine # None =>
        \A s \in DOMAIN machine :
            <<os, check, s>> \notin Conclusive =>
                severityRank(Verdict(Lost(machine, s)).severity) <= severityRank(result.severity)

\* Things that got worse between two snapshots, and only those, never look better:
\* the verdict does not improve, and a check that had an answer still has one
\* (every verdict function; the order of its tests is what could break this).
WorseNeverBetter ==
    Known(before.result) /\ readings # None /\ NoBetter(before.readings, readings) =>
        /\ Known(result)
        /\ severityRank(result.severity) >= severityRank(before.result.severity)

\* Nothing that can be read was said, nor printed by a tool that failed.
NothingSaid(m) == Silent(m) /\ \A s \in DOMAIN m : run(m[s]).out \in {None, Garbled}

\* The checks that take silence for a finding (README): a log that cannot be read holds
\* no update, and a Mac that says nothing of its backups has none.
SilenceSaysBad(c) ==
    \/ c = "updates.installed" /\ os # "windows"
    \/ c = "backup.status" /\ os = "darwin"

\* "A standard that treated 'could not check' as compliance would certify machines
\* nobody looked at" (profile.go:168-169): whatever a profile allows, an expectation is
\* met only on a machine the check was answered by, from what its collector read
\* through its verdict to the measure.  Of the checks that take silence for an answer,
\* or for a finding that is allowed, this does not hold (README).
MetWasSeen ==
    \A w \in Severity : measureOne(w) = "met" =>
        /\ machine # None
        /\ NothingSaid(machine) => SilenceSaysNone(check) \/ SilenceSaysBad(check)

\* Every finding has a rule (explain.go:71-72), one that says what to do about
\* anything but a pass, offers nothing for a pass, and offers only what this build
\* carries for this platform.  A check that broke has no summary and no rule.
FindingIsAnswered ==
    result # None /\ result.summary # "" =>
        LET advice == For(result) IN
        /\ advice # None
        /\ advice.do = (result.severity # "ok")
        /\ result.severity = "ok" => advice.fixes = {} /\ ~advice.escalate
        /\ advice.fixes \subseteq Fixes(os) /\ advice.wizards \subseteq Wizards(os)
=============================================================================
