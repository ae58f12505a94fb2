# SupportOne, specified and checked

TLA+ modules for SupportOne, the TLC runs that check them on small instances,
and TLAPS proofs of the properties that matter most. SupportOne is a Go agent
that reads the state of a computer, explains it, and, after the person in front
of it agrees, repairs it; an optional server keeps the reports a machine chose
to send.

The modules follow the source under `src/`. A definition's lines are in
`PROJECT.json` under `map`; what is hard to test, and the property that would
catch it going wrong, under `hazards`; what a document promises and the code does
not do under `findings`, each with the run that shows it, and below.

## The system

| Component | State it keeps | Operations | Talks to | What is hard about it |
|---|---|---|---|---|
| Consent gate, `internal/remediate` | plans by token, applied fixes | Plan, Apply, Rollback | the fixes, restore points, the audit log | requests overlap; everything but the map accesses is outside the lock; steps fail after others took effect |
| Quarantine, `internal/fixes/quarantine.go` | folder, moved files | NewQuarantine, Take, Restore | the file system | shared folder names, partial restores, new files at old paths |
| `temp.clear` | the quarantine it holds | Preflight, Apply, Rollback | the directory other programs use | readings go stale, cancelled requests, second runs |
| `print.clear-spooler` | the quarantine it holds | Preflight, Apply, Rollback | the print service and its queue | the service must come back whatever fails |
| `net.flush-dns` | none | Preflight, Apply | a command | nothing to undo |
| Restore points, `internal/restore` | none | Available, Create | the platform's tools | offered and then not made |
| Wizard engine, `internal/wizard` | position, history, pending step, outcome | Next, Confirm, Skip, Stop, Escalate | the consent gate, the checks | no lock; what a step is filed as; the verdict |
| Wizard sessions, `internal/localui/remediation.go` | open sessions, escalations | start, next, confirm, skip, stop, escalation | the wizard engine, the browser | the limit; sessions that end in unusual places |
| Remote help, `internal/remote` | pending plan, open session | Plan, Start, Decline, End | a program on the machine, the audit log | one session at a time; the order of the lines |
| Audit log, `internal/consent` | the file | Append | every component | lines of different requests interleave |
| Local server, `internal/localui` | cached snapshot, last use | routes, idle shutdown | the browser, everything above | idle versus busy, first use versus refresh |
| Assistant, `internal/assist` | prepared payloads | Prepare, Ask, Discard | a model endpoint | one agreement, one send |
| Fleet reporting, `internal/enrol` | a prepared payload | Prepare, Send, Discard | the fleet server | lost answers |
| Fleet server, `internal/fleet` | a file per machine | report, dashboard, machine | the file system | concurrent reports, failing writes |
| Checks, `internal/checks` | none | Run, RunAll | the platform's tools | a reading that is missing is not one that is fine |
| Explainer, `internal/explain` | none | advice for a verdict | the registries | tables that must agree with each other |
| Profiles, `internal/profile` | none | load, evaluate | the checks' results | what counts as met |
| Redaction, `internal/redact` | none | a policy over a snapshot | everything that leaves | four replacements over one text; fields and free text |
| Reports and tickets, `internal/report`, `internal/ticket` | files | page, bundle | the user's folder | what is left in a file; half a file |
| Schedule, `internal/schedule` | two files of one report | write | the user's folder | a stop between two renames |
| Egress rule, `internal/egress` | none | CheckURL | the assistant, enrolment | nothing concurrent |
| Command line, `cmd/supportone-agent` | the input, the files, the log | one command per run | the person, every component | answers out of place, Ctrl+C, a kill at any moment |
| Platform layer, messages, provenance | none | tools, windows, wording | the operating system | nothing concurrent |

One process runs on the user's machine. It either serves the local interface, in
which case each HTTP request is a goroutine and requests overlap freely, or runs
one command-line operation. The fleet server is a second program.

What makes each part correct:

- *Consent gate.* No change that was not described, acknowledged and allowed; one
  run per agreement; the promised restore point first; a change that can be undone
  stays on the list; every yes has its outcome in the log.
- *Quarantine and the fixes.* What was set aside is there until it goes back; a
  failed run leaves nothing half moved; a stopped service is started again.
- *Wizard.* Every step is asked and filed once; a step is "fixed" only if it was
  asked again and clean; the verdict of the session follows from its steps.
- *Wizard sessions.* At most eight; a session that is over is handed over, logged
  and let go.
- *Remote help.* One start per agreement and none after a refusal; sessions in
  sequence; every agreement on record.
- *Sending (assistant, fleet).* Only what was shown, once per agreement, and a line
  for every send.
- *Fleet store.* A report that was put into place is in the history, newest first.
- *Local server.* The checks run once on first use; the program ends when idle.
- *Checks.* Never a pass for what was not read; a source that fails never makes a
  verdict worse; never a better verdict for worse readings; an answer for every
  verdict; a profile met only by what some source answered for.
- *What leaves.* No name that is looked for, wherever in a word it stood, no serial
  field and no address of a shape the code knows; of the name that goes first no part
  either; a file is whole or is not taken for one.
- *Command line.* Nothing unasked, and no answer taken for another's; nothing more
  after Ctrl+C; the log tells the whole run; every run ends.

## The modules

| Module | Models | State and actions |
|---|---|---|
| `ConsentGate` | what every gate promises | a question is asked, answered once, and a yes is acted on once; an open question may lapse |
| `Remediate` | `remediate.go`, over a fix that behaves towards it as `temp.go` and `spooler.go` do | the plans, `applied`, the machine's changes, the log, a `pc` per call; an action per critical section or external call |
| `Quarantine` | `quarantine.go` | where each file is, each run's folder and what it moved; the operations both fixes share |
| `TempFix` | `temp.go`, extending `Quarantine` | Apply and Rollback file by file; other programs create, age and delete files; the agent restarts |
| `SpoolerFix` | `spooler.go`, extending `Quarantine` | the queue, the service, the context of the request, Apply and Rollback step by step |
| `RemoteSession` | `remote.go` | the pending plan, the current session, the log as a sequence, a `pc` per call |
| `Wizard` | `wizard.go`, one session | position, history, pending record, outcome, a `pc` per move; faults come and go between questions |
| `WizardSessions` | `remediation.go` | the table, ended sessions, escalations, the log, a `pc` per request |
| `FleetReport` | `enrol.go` on the agent, `server.go` and `store.go` of the fleet server | a `pc` per report on either side, requests on the wire, the lock of the store, the draft it writes, the file |
| `LocalServer` | `server.go`, `routes.go`, `advice.go`, `assist.go` | the cached snapshot, the idle clock, the payloads, a `pc` per request |
| `Verdicts` | the verdict function of each of the fifteen checks | operators on a record of readings; no state |
| `Collectors` | the collectors and parsers of the checks on the three platforms | operators from what a machine's sources say (a row, a date, nothing, something that does not decode; missing, failed) to a record of readings or an error; no state |
| `CheckRun` | `runner.go`, `snapshot.go`, `explain`, `profile` | one check through two snapshots between which the machine changes |
| `Redact` | `redact.go` | operators: a policy over texts (sequences of letters, in which an address is one) and evidence (leaves with the field they were in) |
| `Outputs` | `report.go`, `ticket.go`, `profile.go`, `egress.go` | operators: the page, the attachments and bundle, the measure of a profile, where a request may go |
| `Terminal` | `cmd/supportone-agent`, `schedule.go`, the writing of `ticket.go` | one run: the mode, a step `at`, the lines on the input and in a reader's buffer, what is on the screen, what was done, the files, the log |
| `RemediateProofs`, `WizardProofs`, `WizardSessionsProofs`, `RemoteSessionProofs`, `LocalServerProofs`, `FleetReportProofs`, `TerminalProofs` | | the theorems about the module each is named after |
| `MachineProofs` | | the theorems about what meets the machine itself: `TempFix`, `SpoolerFix`, and `CheckRun` with the operators of `Collectors` and `Verdicts` |

Composition: `TempFix` and `SpoolerFix` extend `Quarantine`, whose variables they share,
and name their own parts `TempInit`, `TempSpec`, `SpoolInit` and so on, so that one module
can hold the proofs of both; `CheckRun` extends
`Collectors`, which extends `Verdicts`; `Terminal` extends `Outputs`, which extends
`Redact`. `Remediate`, `RemoteSession`, `LocalServer` and `FleetReport` each
instantiate `ConsentGate` under a refinement mapping, named `Gate`, and implement
it: what the effect is differs (a fix that runs, a program that starts, bytes that
leave, a report that is filed), what is promised does not. The mapping is where a
component says when a question counts as refused. In `FleetReport` the decision is
taken on the agent and the effect is counted on the server.

`Remediate` sees a fix as its `Fix` interface does and no finer: `held` is the run
`Rollback` would empty. That is the interface between it and the modules of the
fixes, which see the gate as `listed`, whether Rollback is open. `Wizard` sees the
gate as what a confirmation can come to, whatever token it brings: refused, run to the
end, run and failed, or only described, in a dry run; and `WizardSessions` sees a session
as running or ended. `Terminal` sees the gate, the walkthrough, remote help and the
fleet report as the person at the terminal does: a plan or a payload, a word, and a
line in the log. In it a snapshot is what the checks answered, and a name in a text
of it is the letters it is written with.

**Grain.** A step ends where a lock is released, a command or file operation is
made, or a line is written. Between two such points no other goroutine can see the
state, with one exception: a wizard `Session` has no lock, and two moves of one
session are a data race by Go's rules. `Wizard` takes the statements between two
questions, or between a question and the gate, as one step.

**Behaviours.** Where the code is right only under a condition on its callers, an
initial choice that no step changes says whether this behaviour meets it, and the
property is stated for the behaviours that do: `agent.dry` and `agent.serial` in
`Remediate` and `Wizard`, `agent.own` in `Wizard` (each token presented is that of the
step the session is at), `serial` in `RemoteSession`, `browser` in
`WizardSessions`, `calm` in `SpoolerFix`, `FleetReport` and `LocalServer`. In
`Terminal` the choice is `start`: the command line, what is typed, and the machine. The
others stay in the model, and each other property holds of them too. The terminal
makes one call at a time, so `serial` is how the command line uses the same code.

Each module to be run has an `MC` module with the constants TLC needs, and a cfg
per question. Mutants, variants of a definition with a bug somebody might write,
stand before the definition they change; `PROJECT.json` names the property each
one breaks.

## The runs

| Run | Shows | Bounds, and why they are enough |
|---|---|---|
| `gate` | one run per plan; consent, rights and echo before a change; the restore point first; a dry run changes nothing; an applied change can be undone; every yes has its outcome; refinement | two calls at once, two plans, a fix that can be undone and one that needs rights: every pair of steps of two calls, a plan presented twice, a second run of one fix |
| `temp` | a file in a holding folder leaves it for its own path only; Rollback reaches exactly what is set aside, but for three named events | two runs, which may share a folder name; three files, two of one path |
| `spool` | a job set aside is on the list of a run that did not fail; the service is back after every call whose request stays connected; struck off the list means put back | two runs, three jobs, one of which gets the number of another; any failure, any cancellation |
| `remote` | no start after a refusal and one per plan; every agreement recorded, launched or not; sessions that do not overlap are in order; refinement | two calls, two plans, restarts |
| `wizard` | the history is complete and the verdict follows from it, whichever fix a token runs and wherever it fails; "fixed" was asked and clean; every move comes back | two steps, one of them not verifiable: each way a step can be filed, before and after another. Three steps are more than liveness can be checked for; the proofs are for any number |
| `sessions` | a session that left the table has its history and its line; with a steady browser the limit holds and one that is over leaves | four sessions and a limit of two, which stands for eight |
| `fleet` | no filed report is lost; newest first; "delivered" is true and every send has its line; refinement | three reports of one machine, a history of two (the code keeps 20), a clock of two values: two in the record and one to push out |
| `local` | what is sent is what was shown, with its line; the checks run once on first use; the program ends; refinement | three requests of any handler: a preparation, its confirmation and a third that refreshes, discards or confirms again |
| `verdicts` | what was not read is not a pass; one more failing source is no finding; worse readings never a better verdict; a profile counts as met only what a source answered for; every verdict is answered | what each source of each check may say on either side of every threshold, with a source that is missing, fails, fails after printing, or does not decode; two snapshots |
| `terminal` | nothing unasked; nothing after Ctrl+C; whole files; the log tells the run; nothing identifying leaves; every run ends | every mode; command lines that are refused; a walkthrough of two questions; two machines: one whose host, account and home directory hold one another, one with a name too short to look for, one that is not known, and one that stands in a word twice; two attachments and three expectations where the code allows more; answers that agree, refuse, come in the wrong place or run out, one line per read or a pipe at once |
| `spool_away`, `remote_twice` | the two findings | the smallest instance that shows each |

A folder name, a token and a run are interchangeable with others of their kind, and
the runs without liveness use that symmetry.

**Fairness.** `wizard`, `local` and `terminal` check liveness. `Wizard!FairSpec` assumes that a
move that has begun goes on: a handler is a goroutine, and each question has a
timeout. `LocalServer!FairSpec` assumes the clock, the ticker of `watchIdle` and the
five seconds of the shutdown, and nothing of requests: a handler may hang for ever, and
the program still ends. Nobody is obliged to ask, confirm, or close a page.
`Terminal!Spec` has the program go on: a read returns with a line or with the end of
the input, and somebody leaves the page alone or closes it, and closes its window.
What is typed, Ctrl+C and the kill are left to chance.

**Deadlock** is checked in `gate` and `local`. The other configurations switch it off:
the bound on plans, sessions, reports or calls, or the single pass the run follows,
lets the system come to rest, and a run of the command line ends.

## What is proved

Each theorem holds for every value of the constants that meets the assumptions in the
module it is about, and rests on nothing else.

| Module | Theorem | Says |
|---|---|---|
| `RemediateProofs` | `TypeCorrect` | `[]TypeOK` |
| | `SingleUse` | `[]OneRunPerPlan`: however many calls present one token, its fix is run once at most |
| | `ConsentBeforeChange` | `[]ChangeWasConsented` |
| | `SafetyNetFirst` | `[]PointBeforeChange` |
| | `DryRunChangesNothing` | `[]DryRunIsDry` |
| | `YesAnswered` | `YesIsAnswered` |
| | `ListIsComplete` | `[]NothingForgotten` |
| | `GateImplemented` | `GateSpec`: implements `ConsentGate` |
| `WizardProofs` | `HistoryIsComplete` | `[]HistoryComplete`, for any number of steps |
| | `VerdictHonest` | `[]VerdictIsHonest` |
| | `FixedIsClean` | `FixedMeansClean` |
| `WizardSessionsProofs` | `HandedOver` | `[]NeverUnaccounted` |
| | `TableKept` | `[]TableIsKept`, for every limit |
| `RemoteSessionProofs` | `RemoteTypeCorrect`, `OneSession` | `[]TypeOK`, `[]OneSessionPerPlan` |
| | `AnswerKept` | `AnswerIsKept`: refused stays refused, agreed is on record |
| | `OneAfterAnother` | `[]SessionsInSequence` |
| | `RemoteGateImplemented` | `GateSpec` |
| `MachineProofs` | `UndoComplete` | `[]UndoIsComplete` |
| | `HeldKept` | `HeldIsKept` |
| | `QueueIsWhole` | `[]QueueWhole` |
| | `ServiceIsBack` | `[]ServiceBackWhenCalm` |
| | `StruckOff` | `StruckOffMeansBack` |
| | `Reading` | `[]UnreadIsNotOK`, for any number of volumes, drives, events, patches, and any readings |
| | `Losing` | `[]LossIsNoFinding`, for every source of every check on the three platforms |
| | `Worsening` | `[]WorseNeverBetter` |
| | `Certifying` | `[]MetWasSeen`, for every machine and whatever a profile allows |
| | `Answering` | `[]FindingIsAnswered` |
| `TerminalProofs` | `Asking` | `[]NothingUnasked`, for any command lines, input, snapshots and number of questions |
| | `Interrupting` | `NothingAfterInterrupt` |
| | `Logging` | `[]LogTellsTheRun` |
| | `Files` | `[]FilesAreWhole` |
| | `Leaving` | `[]NothingIdentifyingLeaves`, for texts, evidence and names of any letters, names that hold one another among them |
| `LocalServerProofs` | `PayloadAsShown` | `[]SentAsShown` |
| | `FirstUse` | `[]FirstUseRunsOnce` |
| | `AssistantGateImplemented` | `GateSpec` |
| `FleetReportProofs` | `NothingIsLost` | `[]NothingLost`, for any length of history |
| | `NewestIsFirst` | `[]NewestFirst` |
| | `LogTrue` | `LogIsTrue` |
| | `FleetGateImplemented` | `GateSpec` |

Few of these are inductive. Each module strengthens it to an invariant `Inv`, a
conjunction of named parts, with a lemma per action or group of actions that
preserves it:

- *Remediate.* What each call has established by the time it is past a given step
  (`ApplyInv`, `DecideInv`, `AgreedInv`); a token that left the map is in the hands
  of one call (`TokenInv`); what is in the map was issued (`PlanInv`); what is true
  of a token whose fix was begun (`StartedInv`). That the run was agreed to follows
  from the log only ever growing. The dry run has an invariant of its own, `DryInv`. The
  line of a run that worked is written after the fix returned and before the call does
  (`OutcomeInv`); with one call at a time, what was reported and is held is on the list,
  or the one call in flight is about to put it there (`KeptInv`).
- *Wizard.* While moves come one at a time, the move that runs has in hand the step the
  session is at (`MoveInv`), the history ends just before it (`PlaceInv`), what is
  pending is that step (`PendingInv`), and whatever fix was run in the name of a step, that step
  is in the history as tried, or about to be (`RunInv`). The gate's choice of fix is
  one lemma (`RunFixRuns`).
- *WizardSessions.* A request works on a session that is in the table or was handed
  over, and lets go only of one that was. For the table: a session being added is new
  to everybody else, one that has ended has a request on its way to take it out, and
  with one request at a time the count that was tested is still true at the add.
- *RemoteSession.* A plan is pending, or in the hand of one Start, or spent. A refusal
  takes it out of the first place or the second, and nothing puts it back. With one call
  at a time, the session a Start saw is still the current one when it decides, and a
  session has its first line by the time its call is over (`SerialInv`).
- *TempFix, SpoolerFix.* A folder is made before anything is moved into it; what is set
  aside, and is not adrift, is on the list of a run that answers for it; while
  Restore runs, a file on its list is still to be tried, has failed, or is back; the
  service is stopped only between the steps that stop and start it.
- *LocalServer.* A prepared payload is pending, in the hand of one request until it is
  sent, or dropped; what a page names was prepared and shown to it. With one request at
  a time, a run that is over was kept, and each run but the first belongs to a refresh
  that is in hand or answered (`FreshInv`); that there are finitely many refreshes is part
  of the invariant, not an assumption.
- *FleetReport.* What a Put is to write was made from what is on the disk, and stays so
  because nobody else writes while it has the lock (`LockInv`); the clock is ahead of
  every time on the disk (`TimeInv`); a report is filed exactly from the rename on
  (`FiledInv`).
- *CheckRun.* The last answer is the verdict on the machine the collector found
  (`AnswerInv`), and what is kept of the snapshot before is readings of the check's own
  type with the verdict on them (`Judged`). The rest is about operators: each collector
  brings back readings of its type or an error (`Collected`); a verdict is judged
  again for readings that are no better, one lemma per check; and one source that is
  silenced leaves each collector with an error or with readings that are judged no worse,
  one lemma per collector (`LinuxLoses`, `DarwinLoses`, `WindowsLoses`). Of a machine
  that says nothing at all there is one lemma per platform (`LinuxMute`, `DarwinMute`,
  `WindowsMute`), and with them what every check makes of it (`SilentMachine`).
- *Terminal.* Each step is of the mode that leads to it (`StageInv`) and a run returns
  once (`EndInv`). What is on the screen, and the answers it has had, belong to the step
  the run is at (`AskInv`); the log has the consent and the point by the time a fix may
  run (`GateInv`); so what was done was allowed, and no step does it a second time
  (`DoneInv`). The log starts with the start and keeps up with what is done (`LogInv`).
  The page and the data are of one report except between the two renames or after a
  failure there (`FileInv`), and what is sent or written is the snapshot, redacted
  (`LeaveInv`). The others hold because of `AskInv`: an answer is tied to the
  question it was given to, and to what was on the screen then.
- *Redact.* `Left` says what one replacement leaves of a text from a letter on: the
  name stands nowhere in it, each run of letters without a marker was a run before, and,
  if the name does not stand twice in one stretch (`Apart`), a run outside of it
  (`Spared`). It is proved from the end of the text to its start (`FoldLeaves`), for a
  text that lower case leaves in step (`InStep`). What makes the replacements compose is
  that a marker stays where a name was: taking out a second name joins no two halves of
  the first (`RunsOn`, `RunsHold`), and what the first was spared stays so (`SparedOn`).
  `TextIsClean` puts the four together.

The four refinements map each action to a step or a stutter of `ConsentGate` under
`Inv`. What changes the decision of one token is one lemma, what changes none another;
the fleet's counts how often a report is in the history, which is 0 before its rename
and 1 after.

**What is assumed of the constants.** That a placeholder (`None`, `NoToken`, `NoRequest`) is
not one of the values it stands apart from; that a limit is positive; that the snapshots
given to `Terminal` are reports, and a file that is being written is no report. Of the
names of a machine, `Terminal` assumes that they are not empty, that none is a part of the
marker (an account `red` is) or lies inside an address, that none has a letter that lower
case makes shorter or longer, and that a home directory is given without a separator at
its end. They may hold one another, and be of any length. `CheckRun` assumes a machine is
not `None`, and the type of one: what each parser can return, numbers
unsigned where the code's are, and one source per listed drive (`Machine`). Two facts are
the kernel's: no more swap is free than there is, and counts are not negative.

**Data of any size.** The rows a parser keeps, the sum of the memory modules and the
grouping of results by severity, the replacement of a name and the files of a ticket are
recursive functions. The library's induction theorems take an operator and cannot be used
here, nor does the prover know that a recursive function is one: that it exists is proved
first (`FoldExists`, `RowsExist`, `BundlesExist`). `Least` and `Induct` derive induction up
to a number from the well-founded order of the naturals, with a set in the place of the
predicate, and `KeptHolds`, `RatedHolds`, `FoldLeaves` and `AttachedHolds` are proved with
them.

Model-checked only: liveness (`MoveEnds`, `Ends`, `RunEnds`), since fairness and ENABLED
are out of the prover's reach. Every safety and action property of the passing runs has
its theorem.

## Where the code and its documents disagree

Shown by a run:

- `spool_away`: the deferred start of the print service runs under the request's
  context (spooler.go:160). A browser that goes away while the service is stopped
  leaves it stopped; docs/FIXES.md:66 says it is always started again.
- `remote_twice`: Start reads the open session under the lock and sets it after the
  launch (remote.go:286), so two Starts can both open one; docs/THREAT-MODEL.md:144
  allows one.

Met while modelling, and in the models as the code has them:

- A run of `temp.clear` that is cancelled leaves files aside that no Rollback
  reaches (temp.go:201), and a second run takes the place of the first one's
  quarantine (temp.go:196); docs/FIXES.md:28 and 55 say otherwise. `adrift` holds
  those files.
- Putting a file back replaces a newer one at its path (quarantine.go:116);
  docs/FIXES.md:9 says nothing is deleted. A file created after the listing, at a
  listed path, is moved though it is fresh (temp.go:203, docs/FIXES.md:52). A second
  Restore after a partial one reports the files that are back as failures
  (quarantine.go:126).
- A job that takes a finished one's number between the listing and the stop is moved
  without having been shown (spooler.go:146, docs/FIXES.md:61); a failed second run
  forgets the first one's quarantine (spooler.go:177, 192).
- Of names that hold one another the longer one is left in part: a home directory goes
  before the account, but the account before the host (redact.go:204, 207), so with the
  names of redact_test.go:11 the word `alex-laptop` leaves as `[redacted]-laptop` wherever
  it is not the whole of a hostname field. `NothingIdentifyingLeaves` asks for no part to
  be left of the name that is taken out first only. A name that stands twice in one
  stretch ("ana" in "anana") leaves the end of the second (redact.go:237); `Apart` is the
  names that cannot.
- Addresses of some shapes are missed (redact.go:78-80): a compressed IPv6 one such as
  `fe80::1`, and a MAC written with dashes. In a field of addresses they go with the field;
  in a message they do not, and the gateway is an argument of one (network.go:93).
  docs/THREAT-MODEL.md:87 and docs/OPERATIONS.md:40 say addresses go.
- The lower case of a text is searched and the text is cut at the same offsets
  (redact.go:228-237): after a letter whose lower case is shorter, such as a dotted capital
  I, the cut comes too early, and a name may leave. The model has this (`Wide`) and no property
  speaks of it. One whose lower case is longer can put the cut behind the end, which panics;
  that is not modelled.
- A Rollback beside a second Apply of the same fix can strike the newer run off the
  list (remediate.go:327). A refusal for a preflight or for rights leaves no line
  (remediate.go:232-237, docs/FIXES.md:30).
- A line that a remote session ended can precede the one that it started
  (remote.go:332). A plan that is replaced, a session that is closed with the agent and a busy
  refusal leave no line (remote.go:265, 299, 346).
- Two moves on one walkthrough can file a step twice and go past another
  (wizard.go:256, 265), and a Confirm beside a Next can run the fix of one step and
  file the answer under another (wizard.go:344, 349, 373); a dry run files a re-check as
  if it followed a repair (wizard.go:357).
- "Confirm applies the offered fix" (wizard.go:337), but runs the fix of any token that is
  presented (357): one that was offered at a step since skipped runs that step's fix, and
  the step the session is at is filed as if its own had run. `VerdictIsHonest` says
  which fix it was only of sessions whose tokens are each step's own (`agent.own`). A
  record names the step's fix as "what was applied" (wizard.go:182) also when it was
  refused, and a fix that ran and failed part-way is filed `blocked`, "nothing the
  agent could offer" (162).
- Two starts can both count seven open sessions (remediation.go:198); a walkthrough
  that ends on its first move, or whose last answer cannot be written, stays in the
  table (210, 267).
- The fleet server takes the time before the lock (server.go:240), so a history can
  be out of order; a lost answer makes the agent's log say a stored report was not
  delivered (enrol.go:246-253).
- Two first uses run the checks twice, and one that ends after a refresh puts the older
  snapshot back; a first use whose request is cancelled keeps a snapshot in which
  every check failed (routes.go:317-323). A request that runs longer than the idle
  timeout is not counted as use, and is cut off after five seconds (server.go:191-217).
  A discard after the send still logs a refusal (advice.go:109).
- Silence is taken for an answer in four checks: a startup directory that is not
  there holds no entry, no class of power supplies is no battery, an event log of
  which no line decodes has no errors, and on Linux a `/proc/cpuinfo` that says nothing
  passes as "not reported" (system/collect_linux.go:49-63) (`SilenceSaysNone`). The failure of some sources is
  taken for a bad answer (`Conclusive`): a macOS `route` that fails is no gateway,
  `vm_stat` that fails leaves a memory reading that can be urgent, `tmutil` that fails
  is no backup (backup/collect_darwin.go:22-24), and `dpkg` logs that cannot be read are
  no updates.
- So a profile that allows "attention" is met by a Mac whose `tmutil` fails, and by one, or a
  Linux machine, whose record of updates cannot be read, although "could not check" is
  not to count as compliance (profile.go:168-169) (`SilenceSaysBad`).
- A snapshot in which everything is unknown has "Nothing here needs your attention" on
  its page, "a real result, not an empty page" (en.json:75).
- A healthy drive with retired sectors, seen before the one that fails, keeps the name
  (storage.go:147, 157), so the message names the wrong drive. On Windows an empty list
  of antivirus products is one that is off.
- `patchTable` looks for a floating-point count, which it finds only after redaction
  took the evidence through JSON (report.go).
- `--wizard` goes on without a restore point on the one answer (repair.go:194-198);
  docs/FIXES.md:46 and README.md:171 promise a second question. A fix that broke off,
  or that ran in a walkthrough, gets no offer to undo it.
- Ctrl+C at a question is not heard until its line is read, and does not close the native
  window, though the page's server says "Press Ctrl+C to stop" (main.go:393, 437-465). Ctrl+C
  during `--monthly` still writes the report, over a good one, with the checks that
  were cut short as unknown. The end of the input at "press Enter" writes
  REMOTE_ENDED (remote.go:99).
- The two files of a report "cannot disagree" (schedule.go:74-75), but do after a stop or a
  failure between their renames. An older ticket is truncated before the new one is
  written (ticket.go:56), and two attachments of one base name share a name in it.
- With answers piped at once, the first question's reader takes the second's answer
  with it (advice.go:78, enrol.go:57): the second offer is declined.
- "The only outbound connection" is the assistant's (assist.go:8, docs/ARCHITECTURE.md:135,
  docs/EXPLAINER.md:35); a fleet report is another.
- `hardware.ram` passes with a total of 0, which is what Windows reports when no module
  could be read. A panicking check has no summary and so no advice, although
  every result is said to be explained (explain.go:99). `updates.os` takes a date
  in the future as fresh; `backup.status` does not. A backup that is switched off is
  for attention even if the last one is so old that it would be urgent.

## Assumptions and omissions

- An audit line that cannot be written is dropped by the code, which carries on
  (remediate.go:374); the modules take every append to succeed.
- A cancelled command is taken not to have been run.
- Tokens are drawn from a random source and taken to be distinct.
- A crash is the end of a process between two steps. A rename is atomic; what a power
  cut does to a file system is not modelled.
- Wording, the layout of pages and the times of audit lines are left out.
- `Terminal` takes the log to be writable once AGENT_START is in it, and the text of a
  ticket's description and its images as the user's own: they are not redacted, by
  the code or in the model.
- Not modelled: `net.flush-dns` (one command, no state, nothing to undo); what is read
  out of a model's answer (a parser of one text, which chooses nothing that is done);
  the probes behind the questions of the walkthroughs, which are constants here; the
  commands that make a restore point, which succeed or fail here; the entry of the
  scheduler and the rendering of pages; windows and browsers; message catalogs and
  provenance, which are data.

## Plan

Done: `Remediate`, the fixes, remote help, walkthroughs, fleet reporting, the local
server and assistant; the checks from the answers of their sources; redaction,
reports, tickets, the schedule and a run of the command line; proofs of every safety
property the passing runs check, the four refinements among them.

Left, in this order:

1. The invariants of the two runs that show a finding, with the extra step each would need
   in the code to make the promise hold.
2. Type correctness of the modules for which only the parts of it that a theorem needs are
   proved.
3. `net.flush-dns`, the restore-point commands and the probes of the walkthroughs, as
   sources of `Collectors`' kind.
