----------------------------- MODULE Collectors -----------------------------
(***************************************************************************)
(* What each check of internal/checks reads before it judges: the          *)
(* collectors of the three platforms and the parsers behind them, as       *)
(* operators from the answers of a machine's sources to a record of        *)
(* readings or to an error.  What is collectX in collect_linux.go is       *)
(* linuxX here, and so on.                                                 *)
(*                                                                         *)
(* A source is a tool the check runs or a file it opens.  What it says is  *)
(* kept as the parser leaves it: a table is the sequence of its rows, a    *)
(* date an age in days, None where no date can be read.                    *)
(***************************************************************************)
EXTENDS Verdicts

CONSTANTS
    Garbled,      \* something was said that does not decode
    maxEvents     \* bound: the events that are kept, 200 in the code

ASSUME EventsAssumption == maxEvents \in Nat \ {0}

\* One run of a tool, or one reading of a file: a tool that fails may have printed
\* something all the same.  None is no output.
run(source) ==
    IF ~source.installed THEN [err |-> "missing", out |-> None]
    ELSE [err |-> IF source.ok THEN "no" ELSE "failed", out |-> source.printed]

\* What a source may be, where its parser reads T.
Source(T) == [installed : BOOLEAN, ok : BOOLEAN, printed : T \cup {None, Garbled}]

\* A list the system hands over as it is: there is nothing to decode.
Listing(T) == {source \in Source(T) : source.printed # Garbled}

Got(f) == [err |-> "no", f |-> f]
Fail(err) == [err |-> err, f |-> None]

\* An unreadable file is not a missing tool.
NoFile == Fail("failed")

\* The rows of a table or the lines of a text: what does not parse is left out.
Lines(out) == IF out \in {None, Garbled} THEN <<>> ELSE out

\* What comes of a reading, where there is one.
Then(reading, Parse(_)) == IF reading.err # "no" THEN reading ELSE Parse(reading.f)

\* A text of which every line counts for itself.
Text(answer) == IF answer.err # "no" THEN Fail(answer.err) ELSE Got(Lines(answer.out))

\* One CIM query: no row is not an error, a row that does not decode is.
Unmarshal(answer) ==
    IF answer.err = "no" /\ answer.out = Garbled THEN NoFile ELSE Text(answer)

Percent(part, whole) == (100 * part) \div whole
Map(s, Op(_)) == [i \in DOMAIN s |-> Op(s[i])]

\* The elements of a sequence that are kept, by their places in it.
Kept(s, places) ==
    LET upTo[n \in 0..Len(s)] ==
          IF n = 0 THEN <<>>
          ELSE IF n \in places THEN Append(upTo[n - 1], s[n]) ELSE upTo[n - 1]
    IN upTo[Len(s)]

-----------------------------------------------------------------------------
(* Storage.  A volume is its device, whether it is plumbing, and its blocks, *)
(* None where it cannot be measured.                                         *)

FreePercent(v) == Percent(v.avail, v.blocks)
isRealFilesystem(v) == ~v.pseudo

\* A device that is mounted twice counts once.
linuxVolumes(a) ==
    LET found == Lines(a.mounts.out)
        real == {i \in DOMAIN found : isRealFilesystem(found[i]) /\ found[i].blocks \notin {None, 0}}
        first == {i \in real : \A j \in real : j < i => found[j].device # found[i].device}
    IN IF a.mounts.err # "no" THEN NoFile ELSE Got(Map(Kept(found, first), FreePercent))

darwinVolumes(a) ==
    LET found == Lines(a.getfsstat.out)
        real == {i \in DOMAIN found : isRealFilesystem(found[i]) /\ found[i].blocks # 0}
    IN IF a.getfsstat.err # "no" THEN NoFile ELSE Got(Map(Kept(found, real), FreePercent))

parseWindowsVolumes(rows) ==
    Got(Map(Kept(rows, {i \in DOMAIN rows : rows[i].blocks # 0}), FreePercent))
windowsVolumes(a) == Then(Unmarshal(a.LogicalDisk), parseWindowsVolumes)

Drive(name, status, reallocated) == [name |-> name, status |-> status, reallocated |-> reallocated]

parseSmartctl(device, report) ==
    Drive(device,
          CASE report.passed = "yes" -> "healthy"
            [] report.passed = "no" -> "failing"
            [] report.passed = "unsaid" -> "unknown",
          report.reallocated)

\* The drives in turn: the first that fails and prints nothing ends the reading, and
\* one whose report does not decode is left out.
linuxDisks(a) ==
    LET listed == Lines(a.block.out)
        physical == {i \in DOMAIN listed : listed[i].physical}
        smartctl(i) == a[listed[i].name]
        broken == {i \in physical : smartctl(i).out = None /\ smartctl(i).err # "no"}
        told == {i \in physical : smartctl(i).out \notin {None, Garbled}}
    IN IF a.block.err # "no" THEN NoFile
       ELSE IF broken # {} THEN Fail(smartctl(Min(broken)).err)
       ELSE Got(Map(Kept(listed, told), LAMBDA d : parseSmartctl(d.name, a[d.name].out)))

macSMARTStatus(value) ==
    CASE value = "Verified" -> "healthy" [] value = "Failing" -> "failing" [] OTHER -> "unknown"

\* A section is kept if it names a device, and the device is a whole one or has a status.
parseDiskutilInfo(sections) ==
    LET kept == {i \in DOMAIN sections :
                   sections[i].name # "" /\ (sections[i].whole \/ sections[i].smart # "")}
    IN Map(Kept(sections, kept), LAMBDA s : Drive(s.name, macSMARTStatus(s.smart), 0))

darwinDisks(a) == Then(Text(a.diskutil), LAMBDA lines : Got(parseDiskutilInfo(lines)))

windowsHealth(value) ==
    CASE value = "healthy" -> "healthy"
      [] value \in {"warning", "unhealthy"} -> "failing"
      [] OTHER -> "unknown"

parseWindowsDisks(rows) == Map(rows, LAMBDA r : Drive(r.name, windowsHealth(r.health), 0))

\* One prediction marks every drive: the classes do not share names.
applyFailurePredictions(drives, answer) ==
    LET predicted == answer.err = "no" /\ \E i \in DOMAIN Lines(answer.out) : answer.out[i]
    IN IF predicted THEN Map(drives, LAMBDA d : [d EXCEPT !.status = "failing"]) ELSE drives

windowsDisks(a) ==
    Then(Unmarshal(a.PhysicalDisk), LAMBDA rows :
        Got(applyFailurePredictions(parseWindowsDisks(rows), a.FailurePredict)))

-----------------------------------------------------------------------------
(* Load and memory: what the collectors bring back, and the shares the       *)
(* verdict compares.  A total of 0 was not reported.                         *)

memoryFraction(available, total) == IF total = 0 THEN None ELSE Percent(available, total)
swapping(used, total) == IF total = 0 THEN None ELSE Percent(used, total)

parseLoadAvg(out) == IF out \in {None, Garbled} THEN None ELSE out
Number(answer) == IF answer.err # "no" \/ answer.out \in {None, Garbled} THEN 0 ELSE answer.out

\* A record of its lines, 0 for one that is not there.
parseMemInfo(out) ==
    IF out \notin {None, Garbled} THEN out
    ELSE [total |-> 0, available |-> 0, free |-> 0, swapTotal |-> 0, swapFree |-> 0]

linuxLoad(a) ==
    LET mem == parseMemInfo(a.meminfo.out)
        available == IF mem.available = 0 THEN mem.free ELSE mem.available
    IN IF a.loadavg.err # "no" \/ a.meminfo.err # "no" THEN NoFile
       ELSE Got([cores |-> Number(a.cpus), load |-> parseLoadAvg(a.loadavg.out), busy |-> None,
                 available |-> memoryFraction(available, mem.total),
                 swap |-> swapping(mem.swapTotal - mem.swapFree, mem.swapTotal)])

parseSysctlLoadAvg(out) == IF out \in {None, Garbled} THEN None ELSE out

\* vm_stat counts pages; without the size of a page there is no count.
parseVMStatAvailable(answer) ==
    IF answer.err # "no" \/ answer.out \in {None, Garbled} THEN 0
    ELSE answer.out.pageSize * (answer.out.free + answer.out.inactive + answer.out.speculative)

parseSwapUsage(answer) ==
    IF answer.err # "no" \/ answer.out \in {None, Garbled} THEN [total |-> 0, used |-> 0]
    ELSE answer.out

darwinLoad(a) ==
    LET swap == parseSwapUsage(a.vm_swapusage)
    IN IF a.vm_loadavg.err # "no" THEN Fail(a.vm_loadavg.err)
       ELSE Got([cores |-> Number(a.hw_ncpu), load |-> parseSysctlLoadAvg(a.vm_loadavg.out),
                 busy |-> None,
                 available |-> memoryFraction(parseVMStatAvailable(a.vm_stat), Number(a.hw_memsize)),
                 swap |-> swapping(swap.used, swap.total)])

\* A share of the processors that is not reported is 0.
parseWindowsLoad(rows) ==
    IF rows = <<>> THEN NoFile
    ELSE LET r == Head(rows)
         IN Got([cores |-> r.cores, load |-> None, busy |-> r.busy,
                 available |-> memoryFraction(r.free, r.total),
                 swap |-> swapping(r.pageUsed, r.pageTotal)])

windowsLoad(a) == Then(Unmarshal(a.Load), parseWindowsLoad)

-----------------------------------------------------------------------------
(* Security posture: each part has a source of its own, and one that says    *)
(* nothing costs its part only.                                              *)

Part(answer, status) ==
    IF answer.err # "no" \/ answer.out = Garbled THEN "unknown" ELSE status

\* lsblk: the file system types of the whole tree of devices.
parseLUKS(out) ==
    IF out = None THEN "unknown" ELSE IF "crypto_LUKS" \in ToSet(out) THEN "on" ELSE "off"

linuxPosture(a) ==
    Got([encryption |-> Part(a.lsblk, parseLUKS(a.lsblk.out)), firewall |-> "unknown",
         antivirus |-> "not_applicable"])

parseFDESetup(out) == IF out \in {"on", "off"} THEN out ELSE "unknown"
parseALFGlobalState(out) == IF out = None THEN "unknown" ELSE IF out = 0 THEN "off" ELSE "on"

darwinPosture(a) ==
    Got([encryption |-> Part(a.fdesetup, parseFDESetup(a.fdesetup.out)), firewall |-> Part(a.alf, parseALFGlobalState(a.alf.out)),
         antivirus |-> "not_applicable"])

\* The first profile that is not on decides.
parseWindowsFirewall(out) ==
    LET profiles == Lines(out)
        deciding == {i \in DOMAIN profiles : profiles[i] # "on"}
    IN IF profiles = <<>> THEN "unknown"
       ELSE IF deciding = {} THEN "on"
       ELSE IF profiles[Min(deciding)] = "off" THEN "off" ELSE "unknown"

\* No registered product is an antivirus that is off.
parseWindowsAntivirus(out) ==
    IF \E i \in DOMAIN Lines(out) : out[i] = "enabled" THEN "on" ELSE "off"

parseWindowsBitLocker(out) ==
    LET volumes == Lines(out)
    IN IF volumes # <<>> /\ Head(volumes) \in {"on", "off"} THEN Head(volumes) ELSE "unknown"

windowsPosture(a) ==
    Got([encryption |-> Part(a.BitLocker, parseWindowsBitLocker(a.BitLocker.out)),
         firewall |-> Part(a.Firewall, parseWindowsFirewall(a.Firewall.out)),
         antivirus |-> Part(a.Antivirus, parseWindowsAntivirus(a.Antivirus.out))])

-----------------------------------------------------------------------------
(* The system log: an event is its level and the source and ID the verdict   *)
(* groups by.                                                                *)

Event(level, e) == [level |-> level, of |-> e.of]

normaliseWindowsLevel(mark) == IF mark = "critical" THEN "critical" ELSE "error"
normaliseSyslogPriority(mark) == IF mark \in 0..2 THEN "critical" ELSE "error"
normaliseMacMessageType(mark) == IF mark = "fault" THEN "critical" ELSE "error"

\* The largest number of events of one source and ID; the verdict names those that
\* cross its threshold.
findRepetitions(events) ==
    Max({0} \cup {Cardinality({i \in DOMAIN events : events[i].of = events[j].of}) : j \in DOMAIN events})

countCritical(events) == Cardinality({i \in DOMAIN events : events[i].level = "critical"})

Log(events) ==
    [errors |-> Len(events), critical |-> countCritical(events), repeated |-> findRepetitions(events)]

parseWindowsEvents(rows) == Map(rows, LAMBDA e : Event(normaliseWindowsLevel(e.mark), e))
windowsEvents(a) == Then(Unmarshal(a.WinEvent), LAMBDA rows : Got(Log(parseWindowsEvents(rows))))

\* A line that does not decode is passed over.
parseJournal(lines) ==
    Map(Kept(lines, {i \in DOMAIN lines : lines[i] # Garbled}),
        LAMBDA e : Event(normaliseSyslogPriority(e.mark), e))

linuxEvents(a) == Then(Text(a.journalctl), LAMBDA lines : Got(Log(parseJournal(lines))))

\* So is one with neither a message nor a subsystem.
parseMacLog(lines) ==
    Map(Kept(lines, {i \in DOMAIN lines : lines[i] # Garbled}),
        LAMBDA e : Event(normaliseMacMessageType(e.mark), e))

\* The unified log has no limit of its own: the last maxEvents are kept.
darwinEvents(a) ==
    Then(Text(a.log), LAMBDA lines :
        LET kept == parseMacLog(lines)
        IN Got(Log(SubSeq(kept, Max({1, Len(kept) - maxEvents + 1}), Len(kept)))))

-----------------------------------------------------------------------------
(* Updates: the ages of what was applied. *)

Record(ages) == [readable |-> TRUE, applied |-> ages]

dpkgLogs == {"dpkg_log", "dpkg_log_1"}

\* The lines that install or upgrade and have a date.
parseDpkgLog(lines) ==
    {l.age : l \in {k \in ToSet(lines) : k.action \in {"install", "upgrade"} /\ k.age # None}}

\* Every log on disk; one that cannot be read, as a compressed one, is passed over.
collectDpkg(a) == UNION {parseDpkgLog(Lines(a[n].out)) : n \in {m \in dpkgLogs : a[m].err = "no"}}

\* A line or a row without a name is none; one without a date has no age.
parseRPMLast(lines) == {r.age : r \in {k \in ToSet(lines) : k.name # ""}}
parseSoftwareUpdateHistory(lines) == {r.age : r \in {k \in ToSet(lines) : k.name # ""}}
parseQuickFix(rows) == {r.age : r \in {k \in ToSet(rows) : k.name # ""}}

linuxPatches(a) ==
    IF \E n \in dpkgLogs : a[n].err # "missing" THEN Got(Record(collectDpkg(a)))
    ELSE Then(Text(a.rpm), LAMBDA lines : Got(Record(parseRPMLast(lines))))
darwinPatches(a) ==
    Then(Text(a.softwareupdate), LAMBDA lines : Got(Record(parseSoftwareUpdateHistory(lines))))
windowsPatches(a) == Then(Unmarshal(a.QuickFix), LAMBDA rows : Got(Record(parseQuickFix(rows))))

Updates(age, pending) == [age |-> age, pending |-> pending]

\* A file's time.
fileModTime(answer) == IF answer.err # "no" \/ answer.out = Garbled THEN None ELSE answer.out

countAptUpgrades(lines) == Cardinality({i \in DOMAIN lines : lines[i] = "Inst"})

\* The packages before the section on obsolete ones.
countDnfUpdates(lines) ==
    LET obsoleting == {i \in DOMAIN lines : lines[i] = "obsoleting"}
    IN Cardinality({i \in DOMAIN lines : lines[i] = "package" /\ \A j \in obsoleting : i < j})

\* apt-get first; dnf where it is not installed, whose output counts also if it fails.
linuxUpdates(a) ==
    CASE a.apt_get.err = "no" ->
            Got(Updates(fileModTime(a.dpkg_status), countAptUpgrades(Lines(a.apt_get.out))))
      [] a.apt_get.err = "failed" -> Fail("failed")
      [] a.apt_get.err = "missing" /\ a.dnf.err # "missing" /\ a.dnf.out # None ->
            Got(Updates(fileModTime(a.rpmdb), countDnfUpdates(Lines(a.dnf.out))))
      [] a.apt_get.err = "missing" /\ a.dnf.out = None ->
            IF a.dnf.err = "no" THEN Got(Updates(None, -1)) ELSE Fail(a.dnf.err)

parseMacSoftwareUpdateDate(out) == IF out = Garbled THEN None ELSE out

\* The key is not there on a machine that never completed an update.
darwinUpdates(a) ==
    Got(Updates(IF a.defaults.err # "no" THEN None ELSE parseMacSoftwareUpdateDate(a.defaults.out), -1))

parseWindowsUpdates(rows) ==
    IF rows = <<>> THEN Got(Updates(None, -1))
    ELSE LET r == Head(rows)
         IN Got(Updates(IF r.success # None THEN r.success ELSE r.hotfix, -1))

windowsUpdates(a) == Then(Unmarshal(a.UpdateResults), parseWindowsUpdates)

-----------------------------------------------------------------------------
(* Network.  An address list that cannot be read is one of an interface that *)
(* is gone.                                                                  *)

collectInterfaces(found) ==
    {[up |-> i.up, address |-> i.address] :
        i \in {j \in ToSet(found) : ~j.loopback /\ j.address # None}}

\* Each looks for a line with an address in it: the default route's, or a server's.
parseProcRoute(out) == \E i \in DOMAIN Lines(out) : out[i] = "address"
parseResolvConf(out) == \E i \in DOMAIN Lines(out) : out[i] = "address"
parseRouteGet(out) == \E i \in DOMAIN Lines(out) : out[i] = "address"
parseSCUtilDNS(out) == \E i \in DOMAIN Lines(out) : out[i] = "address"

Routing(gateway, dns, err) == [gateway |-> gateway, dns |-> dns, routeErr |-> err]

\* What was read before the error is kept.
linuxRouting(a) ==
    LET gateway == parseProcRoute(a.net_route.out)
    IN IF a.net_route.err # "no" THEN Routing(FALSE, FALSE, TRUE)
       ELSE IF a.resolv_conf.err # "no" THEN Routing(gateway, FALSE, TRUE)
       ELSE Routing(gateway, parseResolvConf(a.resolv_conf.out), FALSE)

\* No default route is an exit status of its own, and not an error here.
darwinRouting(a) ==
    LET gateway == a.route.err = "no" /\ parseRouteGet(a.route.out)
    IN IF a.scutil.err # "no" THEN Routing(gateway, FALSE, TRUE)
       ELSE Routing(gateway, parseSCUtilDNS(a.scutil.out), FALSE)

parseWindowsRouting(rows) ==
    IF rows = <<>> THEN Routing(FALSE, FALSE, FALSE)
    ELSE Routing(Head(rows).gateway = "address", "address" \in ToSet(Head(rows).dns), FALSE)

windowsRouting(a) ==
    LET answer == a.NetIPConfiguration
    IN IF answer.err # "no" \/ answer.out = Garbled THEN Routing(FALSE, FALSE, TRUE)
       ELSE parseWindowsRouting(Lines(answer.out))

\* Losing the routes does not cost the interfaces.
collectNetwork(a, routing) ==
    IF a.interfaces.err # "no" THEN NoFile
    ELSE Got([interfaces |-> collectInterfaces(Lines(a.interfaces.out)), gateway |-> routing.gateway,
              dns |-> routing.dns, routeErr |-> routing.routeErr])

-----------------------------------------------------------------------------
(* Backups. *)

Backup(configured, last) == [supported |-> TRUE, configured |-> configured, last |-> last]

linuxBackup == Got([supported |-> FALSE, configured |-> FALSE, last |-> None])

\* Anything printed but the message that there is none is a destination.
parseDestinationInfo(out) == out \notin {None, "none configured"}
parseLatestBackup(out) == IF out = Garbled THEN None ELSE out

darwinBackup(a) ==
    Got(IF a.destinationinfo.err # "no" \/ ~parseDestinationInfo(a.destinationinfo.out)
        THEN Backup(FALSE, None)
        ELSE Backup(TRUE, IF a.latestbackup.err # "no" THEN None ELSE parseLatestBackup(a.latestbackup.out)))

parseShadowCopies(rows) ==
    IF rows = <<>> \/ ~Head(rows).configured THEN Got(Backup(FALSE, None))
    ELSE Got(Backup(TRUE, Head(rows).age))

windowsBackup(a) == Then(Unmarshal(a.ShadowCopy), parseShadowCopies)

-----------------------------------------------------------------------------
(* Drivers and what starts with the machine. *)

\* Code 45 is a device that is not plugged in.
parseProblemDevices(codes) == Cardinality({i \in DOMAIN codes : codes[i] \notin {0, 45}})

windowsProblemDevices(a) == Then(Unmarshal(a.PnPEntity), LAMBDA rows : Got(parseProblemDevices(rows)))

\* Whether the entry is enabled: not Hidden, NoDisplay or switched off.
parseDesktopEntry(e) == ~e.hidden /\ e.autostart

\* The entries of a directory, if it can be read.
Entries(answer) == IF answer.err # "no" THEN <<>> ELSE Lines(answer.out)

linuxStartupItems(a) ==
    LET enabled(entries) ==
            Cardinality({i \in DOMAIN entries :
                entries[i].named /\ entries[i].readable /\ parseDesktopEntry(entries[i])})
    IN Got(enabled(Entries(a.system)) + enabled(Entries(a.user)))

darwinStartupItems(a) ==
    LET named(entries) == Cardinality({i \in DOMAIN entries : entries[i].named})
    IN Got(named(Entries(a.LaunchAgents)) + named(Entries(a.LaunchDaemons)) + named(Entries(a.user)))

parseWindowsStartup(rows) == Len(rows)
windowsStartupItems(a) == Then(Unmarshal(a.StartupCommand), LAMBDA rows : Got(parseWindowsStartup(rows)))

-----------------------------------------------------------------------------
(* The machine itself.  A source of one value is that value. *)

\* What must be there and must parse.
Required(answer) ==
    IF answer.err # "no" THEN Fail(answer.err)
    ELSE IF answer.out \in {None, Garbled} THEN NoFile ELSE Got(answer.out)

FirstRow(answer) ==
    Then(Unmarshal(answer), LAMBDA rows : IF rows = <<>> THEN NoFile ELSE Got(Head(rows)))

parseUptime(answer) == Required(answer)
parseBootTime(answer) == Required(answer)

\* The reading is how long the machine has been up.  The kernel's version is asked for too, and does without.
linuxOS(a) == IF a.os_release.err # "no" THEN NoFile ELSE parseUptime(a.uptime)
darwinOS(a) == IF a.sw_vers.err # "no" THEN Fail(a.sw_vers.err) ELSE parseBootTime(a.kern_boottime)
parseWindowsOS(answer) == FirstRow(answer)
windowsOS(a) == parseWindowsOS(a.OperatingSystem)

readTrimmed(answer) ==
    IF answer.err # "no" \/ answer.out \in {None, Garbled} THEN "" ELSE answer.out

linuxHardware(a) == IF a.cpuinfo.err # "no" THEN NoFile ELSE Got(readTrimmed(a.product_name))
parseMacHardware(answer) == Required(answer)
darwinHardware(a) == parseMacHardware(a.SPHardwareDataType)
parseWindowsHardware(answer) == Then(FirstRow(answer), LAMBDA r : Got(r.model))
windowsHardware(a) == parseWindowsHardware(a.Hardware)

parseMemTotal(answer) == Required(answer)
linuxRAM(a) == IF a.meminfo.err # "no" THEN NoFile ELSE parseMemTotal(a.meminfo)
darwinRAM(a) == Required(a.hw_memsize)

parseWindowsRAM(rows) ==
    LET sum[n \in 0..Len(rows)] == IF n = 0 THEN 0 ELSE sum[n - 1] + rows[n]
    IN sum[Len(rows)]

\* Where no module is reported, the total of the computer system; where that is not
\* there either, 0.
windowsRAM(a) ==
    LET system == FirstRow(a.Hardware)
    IN Then(Unmarshal(a.PhysicalMemory), LAMBDA rows :
           Got(IF parseWindowsRAM(rows) = 0 /\ system.err = "no" THEN system.f.memory ELSE parseWindowsRAM(rows)))

NoBattery == [present |-> FALSE, percent |-> 0]

batteryHealth(full, design) ==
    IF full = 0 \/ design = 0 THEN 0 ELSE Min({100, Percent(full, design)})

\* The first supply that is a battery, by energy if both numbers are there, else by
\* charge; no class of supplies is no battery.
linuxBattery(a) ==
    LET supplies == Lines(a.power_supply.out)
        batteries == {i \in DOMAIN supplies : supplies[i].battery}
        b == supplies[Min(batteries)]
    IN Got(IF a.power_supply.err # "no" \/ batteries = {} THEN NoBattery
           ELSE [present |-> TRUE,
                 percent |->
                    CASE None \notin {b.energyFull, b.energyDesign} ->
                            batteryHealth(b.energyFull, b.energyDesign)
                      [] None \in {b.energyFull, b.energyDesign} /\ None \notin {b.chargeFull, b.chargeDesign} ->
                            batteryHealth(b.chargeFull, b.chargeDesign)
                      [] OTHER -> 0])

parsePercent(capacity) == IF capacity = None THEN 0 ELSE Max({0, Min({100, capacity})})

\* An entry without a cycle count, a condition and a capacity is not a battery's.
parseMacBattery(entries) ==
    LET batteries == {i \in DOMAIN entries : entries[i].described \/ entries[i].capacity # None}
    IN IF batteries = {} THEN NoBattery
       ELSE [present |-> TRUE, percent |-> parsePercent(entries[Min(batteries)].capacity)]

darwinBattery(a) ==
    LET power == Required(a.SPPowerDataType)
    IN IF power.err # "no" THEN power ELSE Got(parseMacBattery(power.f))

parseWindowsBattery(rows) ==
    IF rows = <<>> \/ ~Head(rows).present THEN NoBattery
    ELSE [present |-> TRUE, percent |-> batteryHealth(Head(rows).full, Head(rows).design)]

windowsBattery(a) == Then(Unmarshal(a.Battery), LAMBDA rows : Got(parseWindowsBattery(rows)))

-----------------------------------------------------------------------------
(* What the sources of each check are, and what their parsers read.  The     *)
(* numbers are unsigned where the code's are; a time may be in the future.   *)

Age == Int \cup {None}
Named == Seq([name : STRING, age : Age])

Volume == [device : STRING, pseudo : BOOLEAN, blocks : Nat \cup {None}, avail : Nat]
Measured == {v \in Volume : v.blocks # None}
BlockDevice == [name : STRING, physical : BOOLEAN]
SmartReport == [passed : {"yes", "no", "unsaid"}, reallocated : Int]
Section == [name : STRING, whole : BOOLEAN, smart : STRING]
Meminfo ==    \* the kernel reports no more swap free than there is
    {r \in [total : Nat, available : Nat, free : Nat, swapTotal : Nat, swapFree : Nat] :
        r.swapFree <= r.swapTotal}
PageCounts == [pageSize : Nat, free : Nat, inactive : Nat, speculative : Nat]
LoadRow == [cores : Nat, busy : Nat, total : Nat, free : Nat, pageTotal : Nat, pageUsed : Nat]
LogLine(marks) == [mark : marks, of : STRING]
DpkgLine == [action : STRING, age : Age]
Adapter == [up : BOOLEAN, loopback : BOOLEAN, address : {"none", "linklocal", "routable", None}]
DesktopEntry == [named : BOOLEAN, readable : BOOLEAN, hidden : BOOLEAN, autostart : BOOLEAN]
LaunchEntry == [named : BOOLEAN]
Counter == Nat \cup {None}
Supply == [battery : BOOLEAN, energyFull : Counter, energyDesign : Counter,
           chargeFull : Counter, chargeDesign : Counter]
MacEntry == [described : BOOLEAN, capacity : Age]
BatteryRow == [present : BOOLEAN, full : Nat, design : Nat]

\* One source for each drive that is listed.
LinuxDrives(m) ==
    /\ "block" \in DOMAIN m /\ m["block"] \in Source(Seq(BlockDevice))
    /\ \A d \in ToSet(Lines(m["block"].printed)) : d.name \in DOMAIN m \ {"block"}
    /\ \A d \in DOMAIN m \ {"block"} : m[d] \in Source(SmartReport)

linuxMachine(check, m) ==
    CASE check = "disk.volumes" -> m \in [mounts : Source(Seq(Volume))]
      [] check = "disk.smart" -> LinuxDrives(m)
      [] check = "performance.load" ->
            m \in [cpus : Source(Nat), loadavg : Source(Nat), meminfo : Source(Meminfo)]
      [] check = "security.posture" -> m \in [lsblk : Source(Seq(STRING))]
      [] check = "eventlog.errors" -> m \in [journalctl : Source(Seq(LogLine(Nat) \cup {Garbled}))]
      [] check = "updates.installed" ->
            m \in [dpkg_log : Source(Seq(DpkgLine)), dpkg_log_1 : Source(Seq(DpkgLine)),
                   rpm : Source(Named)]
      [] check = "updates.os" ->
            m \in [apt_get : Source(Seq(STRING)), dpkg_status : Source(Int),
                   dnf : Source(Seq(STRING)), rpmdb : Source(Int)]
      [] check = "network.config" ->
            m \in [interfaces : Listing(Seq(Adapter)), net_route : Source(Seq(STRING)),
                   resolv_conf : Source(Seq(STRING))]
      [] check = "backup.status" -> m \in [none : Source({})]
      [] check = "startup.items" ->
            m \in [system : Source(Seq(DesktopEntry)), user : Source(Seq(DesktopEntry))]
      [] check = "os.info" -> m \in [os_release : Source(STRING), uptime : Source(Int)]
      [] check = "hardware.inventory" -> m \in [cpuinfo : Source(STRING), product_name : Source(STRING)]
      [] check = "hardware.ram" -> m \in [meminfo : Source(Nat)]
      [] check = "battery.health" -> m \in [power_supply : Source(Seq(Supply))]

darwinMachine(check, m) ==
    CASE check = "disk.volumes" -> m \in [getfsstat : Source(Seq(Measured))]
      [] check = "disk.smart" -> m \in [diskutil : Source(Seq(Section))]
      [] check = "performance.load" ->
            m \in [vm_loadavg : Source(Nat), hw_ncpu : Source(Nat), vm_stat : Source(PageCounts),
                   hw_memsize : Source(Nat), vm_swapusage : Source([total : Nat, used : Nat])]
      [] check = "security.posture" -> m \in [fdesetup : Source(STRING), alf : Source(Nat)]
      [] check = "eventlog.errors" -> m \in [log : Source(Seq(LogLine(STRING) \cup {Garbled}))]
      [] check = "updates.installed" -> m \in [softwareupdate : Source(Named)]
      [] check = "updates.os" -> m \in [defaults : Source(Int)]
      [] check = "network.config" ->
            m \in [interfaces : Listing(Seq(Adapter)), route : Source(Seq(STRING)),
                   scutil : Source(Seq(STRING))]
      [] check = "backup.status" -> m \in [destinationinfo : Source(STRING), latestbackup : Source(Int)]
      [] check = "startup.items" ->
            m \in [LaunchAgents : Source(Seq(LaunchEntry)), LaunchDaemons : Source(Seq(LaunchEntry)),
                   user : Source(Seq(LaunchEntry))]
      [] check = "os.info" -> m \in [sw_vers : Source(STRING), kern_boottime : Source(Int)]
      [] check = "hardware.inventory" -> m \in [SPHardwareDataType : Source(STRING)]
      [] check = "hardware.ram" -> m \in [hw_memsize : Source(Nat)]
      [] check = "battery.health" -> m \in [SPPowerDataType : Source(Seq(MacEntry))]

windowsMachine(check, m) ==
    CASE check = "disk.volumes" -> m \in [LogicalDisk : Source(Seq(Measured))]
      [] check = "disk.smart" ->
            m \in [PhysicalDisk : Source(Seq([name : STRING, health : STRING])),
                   FailurePredict : Source(Seq(BOOLEAN))]
      [] check = "performance.load" -> m \in [Load : Source(Seq(LoadRow))]
      [] check = "security.posture" ->
            m \in [BitLocker : Source(Seq(STRING)), Firewall : Source(Seq(STRING)),
                   Antivirus : Source(Seq(STRING))]
      [] check = "eventlog.errors" -> m \in [WinEvent : Source(Seq(LogLine(STRING)))]
      [] check = "updates.installed" -> m \in [QuickFix : Source(Named)]
      [] check = "updates.os" -> m \in [UpdateResults : Source(Seq([success : Age, hotfix : Age]))]
      [] check = "network.config" ->
            m \in [interfaces : Listing(Seq(Adapter)),
                   NetIPConfiguration : Source(Seq([gateway : STRING, dns : Seq(STRING)]))]
      [] check = "backup.status" -> m \in [ShadowCopy : Source(Seq([configured : BOOLEAN, age : Age]))]
      [] check = "drivers.problem" -> m \in [PnPEntity : Source(Seq(Nat))]
      [] check = "startup.items" -> m \in [StartupCommand : Source(Seq(STRING))]
      [] check = "os.info" -> m \in [OperatingSystem : Source(Seq(Int))]
      [] check = "hardware.inventory" -> m \in [Hardware : Source(Seq([model : STRING, memory : Nat]))]
      [] check = "hardware.ram" ->
            m \in [PhysicalMemory : Source(Seq(Nat)),
                   Hardware : Source(Seq([model : STRING, memory : Nat]))]
      [] check = "battery.health" -> m \in [Battery : Source(Seq(BatteryRow))]

Machine(check, os, m) ==
    CASE os = "linux" -> linuxMachine(check, m)
      [] os = "darwin" -> darwinMachine(check, m)
      [] os = "windows" -> windowsMachine(check, m)

-----------------------------------------------------------------------------

\* The readings of each check.
Readings(check) ==
    CASE check = "disk.volumes" -> Seq(Nat)
      [] check = "disk.smart" ->
            Seq([name : STRING, status : {"healthy", "failing", "unknown"}, reallocated : Int])
      [] check = "performance.load" ->
            [cores : Nat, load : Counter, busy : Counter, available : Counter, swap : Counter]
      [] check = "security.posture" ->
            [{"encryption", "firewall", "antivirus"} -> {"on", "off", "unknown", "not_applicable"}]
      [] check = "eventlog.errors" -> [errors : Nat, critical : Nat, repeated : Nat]
      [] check = "updates.installed" -> [readable : BOOLEAN, applied : SUBSET Age]
      [] check = "updates.os" -> [age : Age, pending : Nat \cup {-1}]
      [] check = "network.config" ->
            [interfaces : SUBSET [up : BOOLEAN, address : {"none", "linklocal", "routable"}],
             gateway : BOOLEAN, dns : BOOLEAN, routeErr : BOOLEAN]
      [] check = "backup.status" -> [supported : BOOLEAN, configured : BOOLEAN, last : Age]
      [] check \in {"drivers.problem", "startup.items", "hardware.ram"} -> Nat
      [] check = "os.info" -> Int
      [] check = "hardware.inventory" -> STRING \cup {""}
      [] check = "battery.health" -> [present : BOOLEAN, percent : 0..100]

\* The collectors that are built for a platform.
linuxCollect(check, a) ==
    CASE check = "disk.volumes" -> linuxVolumes(a)
      [] check = "disk.smart" -> linuxDisks(a)
      [] check = "performance.load" -> linuxLoad(a)
      [] check = "security.posture" -> linuxPosture(a)
      [] check = "eventlog.errors" -> linuxEvents(a)
      [] check = "updates.installed" -> linuxPatches(a)
      [] check = "updates.os" -> linuxUpdates(a)
      [] check = "network.config" -> collectNetwork(a, linuxRouting(a))
      [] check = "backup.status" -> linuxBackup
      [] check = "startup.items" -> linuxStartupItems(a)
      [] check = "os.info" -> linuxOS(a)
      [] check = "hardware.inventory" -> linuxHardware(a)
      [] check = "hardware.ram" -> linuxRAM(a)
      [] check = "battery.health" -> linuxBattery(a)

darwinCollect(check, a) ==
    CASE check = "disk.volumes" -> darwinVolumes(a)
      [] check = "disk.smart" -> darwinDisks(a)
      [] check = "performance.load" -> darwinLoad(a)
      [] check = "security.posture" -> darwinPosture(a)
      [] check = "eventlog.errors" -> darwinEvents(a)
      [] check = "updates.installed" -> darwinPatches(a)
      [] check = "updates.os" -> darwinUpdates(a)
      [] check = "network.config" -> collectNetwork(a, darwinRouting(a))
      [] check = "backup.status" -> darwinBackup(a)
      [] check = "startup.items" -> darwinStartupItems(a)
      [] check = "os.info" -> darwinOS(a)
      [] check = "hardware.inventory" -> darwinHardware(a)
      [] check = "hardware.ram" -> darwinRAM(a)
      [] check = "battery.health" -> darwinBattery(a)

windowsCollect(check, a) ==
    CASE check = "disk.volumes" -> windowsVolumes(a)
      [] check = "disk.smart" -> windowsDisks(a)
      [] check = "performance.load" -> windowsLoad(a)
      [] check = "security.posture" -> windowsPosture(a)
      [] check = "eventlog.errors" -> windowsEvents(a)
      [] check = "updates.installed" -> windowsPatches(a)
      [] check = "updates.os" -> windowsUpdates(a)
      [] check = "network.config" -> collectNetwork(a, windowsRouting(a))
      [] check = "backup.status" -> windowsBackup(a)
      [] check = "drivers.problem" -> windowsProblemDevices(a)
      [] check = "startup.items" -> windowsStartupItems(a)
      [] check = "os.info" -> windowsOS(a)
      [] check = "hardware.inventory" -> windowsHardware(a)
      [] check = "hardware.ram" -> windowsRAM(a)
      [] check = "battery.health" -> windowsBattery(a)

Collect(check, os, a) ==
    CASE os = "linux" -> linuxCollect(check, a)
      [] os = "darwin" -> darwinCollect(check, a)
      [] os = "windows" -> windowsCollect(check, a)
=============================================================================
