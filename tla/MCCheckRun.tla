----------------------------- MODULE MCCheckRun -----------------------------
(* Instances of CheckRun for TLC: what the sources of a machine may say, for *)
(* every check and platform, chosen around the thresholds of the verdicts.   *)
EXTENDS CheckRun

Says(out) == [installed |-> TRUE, ok |-> TRUE, printed |-> out]
Fails == [installed |-> TRUE, ok |-> FALSE, printed |-> None]
FailsSaying(out) == [installed |-> TRUE, ok |-> FALSE, printed |-> out]
Absent == [installed |-> FALSE, ok |-> FALSE, printed |-> None]

\* A file is there or not; a tool may also not be installed.
File(outs) == {Says(out) : out \in outs} \cup {Fails}
Tool(outs) == File(outs) \cup {Absent}
UpTo(n, S) == UNION {[1..k -> S] : k \in 0..n}

Volumes == [device : {"d1"}, pseudo : BOOLEAN, blocks : {None, 100}, avail : {4, 9, 60}]
           \cup {[device |-> "d2", pseudo |-> FALSE, blocks |-> 100, avail |-> 10]}
           \cup {[device |-> "d2", pseudo |-> FALSE, blocks |-> 0, avail |-> 0]}
Sizes == {v \in Volumes : v.blocks # None}
Physical == [name : {"sda"}, physical : {TRUE}] \cup {[name |-> "loop", physical |-> FALSE]}
Smart == [passed : {"yes", "no", "unsaid"}, reallocated : {0, 1}]
SmartTool == Tool({Garbled, None} \cup Smart)
             \cup {FailsSaying([passed |-> "no", reallocated |-> 1])}
Sections == [name : {"", "disk0", "disk1"}, whole : BOOLEAN,
             smart : {"", "Verified", "Failing", "Other"}]
DriveRows == [name : {"disk0"}, health : {"healthy", "warning", "unhealthy", "other"}]

MCStorage(c, o) ==
    CASE c = "disk.volumes" /\ o = "linux" -> [mounts : File({Garbled} \cup UpTo(2, Volumes))]
      [] c = "disk.volumes" /\ o = "darwin" -> [getfsstat : File(UpTo(2, Sizes))]
      [] c = "disk.volumes" /\ o = "windows" -> [LogicalDisk : Tool({Garbled, None} \cup UpTo(2, Sizes))]
      [] c = "disk.smart" /\ o = "linux" ->
            [block : File({<<>>} \cup [1..1 -> Physical]),
             sda : SmartTool, sdb : {Absent}, loop : {Absent}]
            \cup [block : {Says(<<[name |-> "sda", physical |-> TRUE], [name |-> "sdb", physical |-> TRUE]>>)},
                  sda : SmartTool, sdb : SmartTool, loop : {Absent}]
      [] c = "disk.smart" /\ o = "darwin" ->
            [diskutil : Tool({Garbled, None} \cup UpTo(1, Sections) \cup
                {<<[name |-> "disk0", whole |-> TRUE, smart |-> s],
                   [name |-> "disk1", whole |-> TRUE, smart |-> "Failing"]>> :
                       s \in {"", "Verified", "Failing"}})]
      [] c = "disk.smart" /\ o = "windows" ->
            [PhysicalDisk : Tool({Garbled, None} \cup UpTo(2, DriveRows)),
             FailurePredict : Tool({Garbled, None, <<FALSE>>, <<TRUE>>})]

MemLines == {[total |-> t, available |-> v, free |-> 5, swapTotal |-> w, swapFree |-> IF w = 0 THEN 0 ELSE 49] :
               t \in {0, 100}, v \in {0, 10, 20}, w \in {0, 98, 100}}
Pages == {[pageSize |-> 1, free |-> n, inactive |-> 1, speculative |-> 0] : n \in {8, 9, 19}}

MCLoad(o) ==
    CASE o = "linux" ->
            [cpus : {Says(2)}, loadavg : File({Garbled, 3, 4}), meminfo : File({Garbled} \cup MemLines)]
      [] o = "darwin" ->
            [vm_loadavg : Tool({Garbled, 4}), hw_ncpu : File({2}), vm_stat : File({Garbled} \cup Pages),
             hw_memsize : File({Garbled, 100}),
             vm_swapusage : File({Garbled, [total |-> 100, used |-> 51]})]
      [] o = "windows" ->
            [Load : Tool({Garbled, None} \cup {<<r>> : r \in
                [cores : {2}, busy : {0, 89, 90}, total : {0, 100}, free : {9, 10, 20},
                 pageTotal : {0, 100}, pageUsed : {50, 51}]})]

Protections == {Garbled, "on", "off", "other"}

MCPosture(o) ==
    CASE o = "linux" -> [lsblk : Tool({Garbled, None, <<"ext4">>, <<"ext4", "crypto_LUKS">>})]
      [] o = "darwin" -> [fdesetup : Tool(Protections \cup {None}), alf : Tool({Garbled, None, 0, 1, 2})]
      [] o = "windows" ->
            [BitLocker : File({Garbled, None, <<"on">>, <<"off">>}),
             Firewall : Tool({Garbled, None, <<"on">>, <<"on", "off">>, <<"on", "other">>, <<"other", "off">>}),
             Antivirus : File({Garbled, None, <<"enabled">>, <<"other", "enabled">>})]

Events(marks) ==
    UpTo(2, [mark : marks, of : {"disk", "print"}] \cup {Garbled})
    \cup {[i \in 1..n |-> [mark |-> m, of |-> IF i <= k THEN "disk" ELSE "print"]] :
              n \in 9..11, k \in 9..10, m \in marks}
WinEvents(marks) == {s \in Events(marks) : Garbled \notin ToSet(s)}

MCLog(o) ==
    CASE o = "linux" -> [journalctl : Tool({Garbled, None} \cup Events({2, 3}))]
      [] o = "darwin" -> [log : Tool({Garbled, None} \cup Events({"fault", "error"}))]
      [] o = "windows" -> [WinEvent : Tool({Garbled, None} \cup WinEvents({"critical", "error"}))]

Patches == [name : {"kb", ""}, age : {None, 0, 29, 31}]
DpkgLines == [action : {"install", "upgrade", "remove"}, age : {None, 10, 31}]

MCPatches(o) ==
    CASE o = "linux" ->
            [dpkg_log : Tool({None} \cup [1..1 -> DpkgLines]),
             dpkg_log_1 : Tool({<<[action |-> "upgrade", age |-> n]>> : n \in {29, 60}}),
             rpm : {Absent, Fails}]
            \cup [dpkg_log : {Absent}, dpkg_log_1 : {Absent}, rpm : Tool({None, Garbled} \cup UpTo(2, Patches))]
      [] o = "darwin" -> [softwareupdate : Tool({None, Garbled} \cup UpTo(2, Patches))]
      [] o = "windows" -> [QuickFix : Tool({Garbled, None} \cup UpTo(2, Patches))]

Stamps == {None, -1, 60, 61, 180, 181}
DnfLines == {"package", "obsoleting", "notice"}

MCUpdates(o) ==
    CASE o = "linux" ->
            [apt_get : File({None, <<"Inst">>, <<"Inst", "Inst", "Conf">>}), dpkg_status : File(Stamps),
             dnf : {Absent}, rpmdb : {Fails}]
            \cup [apt_get : {Absent}, dpkg_status : {Fails},
                  dnf : Tool({None} \cup UpTo(2, DnfLines)) \cup {FailsSaying(<<"package">>)},
                  rpmdb : File(Stamps)]
      [] o = "darwin" -> [defaults : Tool(Stamps \cup {Garbled})]
      [] o = "windows" ->
            [UpdateResults : Tool({Garbled, None} \cup {<<r>> : r \in [success : Stamps, hotfix : {None, 0, 90}]})]

Interface(up, loopback, address) == [up |-> up, loopback |-> loopback, address |-> address]
Adapters ==
    {<<Interface(TRUE, TRUE, "routable"), Interface(TRUE, FALSE, address)>> :
        address \in {None, "none", "linklocal", "routable"}}
    \cup {<<>>, <<Interface(FALSE, FALSE, "routable")>>,
          <<Interface(TRUE, FALSE, "linklocal"), Interface(TRUE, FALSE, "routable")>>}
AddressLists == {None, Garbled, <<"other", "address">>, <<"other">>}

MCNetwork(o) ==
    CASE o = "linux" ->
            [interfaces : File(Adapters), net_route : File(AddressLists), resolv_conf : File(AddressLists)]
      [] o = "darwin" ->
            [interfaces : File(Adapters), route : File(AddressLists), scutil : Tool(AddressLists)]
      [] o = "windows" ->
            [interfaces : File(Adapters),
             NetIPConfiguration : Tool({Garbled, None} \cup {<<r>> : r \in
                [gateway : {"", "address"}, dns : {<<>>, <<"other", "address">>}]})]

MCBackups(o) ==
    CASE o = "linux" -> [none : {Absent}]
      [] o = "darwin" ->
            [destinationinfo : Tool({None, "none configured", "disk"}),
             latestbackup : Tool({None, Garbled, -1, 0, 7, 8, 30, 31})]
      [] o = "windows" ->
            [ShadowCopy : Tool({Garbled, None} \cup
                {<<r>> : r \in [configured : BOOLEAN, age : {None, -1, 0, 7, 8, 30, 31}]})]

Desktop == [named : BOOLEAN, readable : BOOLEAN, hidden : BOOLEAN, autostart : BOOLEAN]

MCStartup(o) ==
    CASE o = "linux" -> [system : File(UpTo(1, Desktop)), user : File({<<>>, <<[named |-> TRUE, readable |-> TRUE, hidden |-> FALSE, autostart |-> TRUE]>>})]
      [] o = "darwin" ->
            [LaunchAgents : File(UpTo(1, [named : BOOLEAN])),
             LaunchDaemons : File(UpTo(1, [named : BOOLEAN])),
             user : File(UpTo(1, [named : BOOLEAN]))]
      [] o = "windows" -> [StartupCommand : Tool({Garbled, None, <<"one">>, <<"one", "two">>})]

MCSystem(c, o) ==
    CASE c = "os.info" /\ o = "linux" -> [os_release : File({"fields"}), uptime : File({None, Garbled, 1})]
      [] c = "os.info" /\ o = "darwin" -> [sw_vers : Tool({"fields"}), kern_boottime : Tool({None, Garbled, 1})]
      [] c = "os.info" /\ o = "windows" -> [OperatingSystem : Tool({Garbled, None, <<1>>})]
      [] c = "hardware.inventory" /\ o = "linux" -> [cpuinfo : File({Garbled, "cpu"}), product_name : File({None, "model"})]
      [] c = "hardware.inventory" /\ o = "darwin" -> [SPHardwareDataType : Tool({Garbled, None, "", "model"})]
      [] c = "hardware.inventory" /\ o = "windows" ->
            [Hardware : Tool({Garbled, None} \cup {<<r>> : r \in [model : {"", "model"}, memory : {8}]})]
      [] c = "hardware.ram" /\ o = "linux" -> [meminfo : File({None, Garbled, 3, 4})]
      [] c = "hardware.ram" /\ o = "darwin" -> [hw_memsize : Tool({None, Garbled, 3, 4})]
      [] c = "hardware.ram" /\ o = "windows" ->
            [PhysicalMemory : Tool({Garbled, None, <<2>>, <<2, 2>>, <<0>>}),
             Hardware : Tool({Garbled, None} \cup {<<r>> : r \in [model : {"model"}, memory : {0, 3, 4}]})]

Mains == [battery |-> FALSE, energyFull |-> None, energyDesign |-> None,
          chargeFull |-> None, chargeDesign |-> None]
Halves == {None, 0, 50, 100}

MCBattery(o) ==
    CASE o = "linux" ->
            [power_supply : File({<<>>, <<Mains>>} \cup
                {<<Mains, r>> : r \in
                    [battery : {TRUE}, energyFull : {None, 0, 49, 80, 120}, energyDesign : {None, 100},
                     chargeFull : Halves, chargeDesign : Halves]})]
      [] o = "darwin" ->
            [SPPowerDataType : Tool({Garbled, None} \cup
                UpTo(2, [described : BOOLEAN, capacity : {None, 0, 49, 79, 120}]))]
      [] o = "windows" ->
            [Battery : Tool({Garbled, None} \cup
                {<<r>> : r \in [present : BOOLEAN, full : {0, 49, 50, 80}, design : {0, 100}]})]

MCMachines == [c \in Checks |-> [o \in OS |->
    CASE c \in {"disk.volumes", "disk.smart"} -> MCStorage(c, o)
      [] c = "performance.load" -> MCLoad(o)
      [] c = "security.posture" -> MCPosture(o)
      [] c = "eventlog.errors" -> MCLog(o)
      [] c = "updates.installed" -> MCPatches(o)
      [] c = "updates.os" -> MCUpdates(o)
      [] c = "network.config" -> MCNetwork(o)
      [] c = "backup.status" -> MCBackups(o)
      [] c = "drivers.problem" -> IF o = "windows"
            THEN [PnPEntity : Tool({Garbled, None} \cup UpTo(2, {0, 10, 45}))] ELSE {}
      [] c = "startup.items" -> MCStartup(o)
      [] c = "battery.health" -> MCBattery(o)
      [] OTHER -> MCSystem(c, o)]]
=============================================================================
