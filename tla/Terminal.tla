------------------------------ MODULE Terminal ------------------------------
(***************************************************************************)
(* One run of the agent: cmd/supportone-agent, from its command line to    *)
(* its exit.  What it is asked to do decides the mode; each mode is a few  *)
(* steps, and between any two of them Ctrl+C may be pressed (which only    *)
(* cancels the context, the questions do not hear it) or the process may   *)
(* be killed.                                                              *)
(*                                                                         *)
(* The consent gate, the walkthrough, the remote-help record and the       *)
(* fleet report have modules of their own (Remediate, Wizard,              *)
(* RemoteSession, FleetReport); here they are what the terminal sees of    *)
(* them.  A line of the audit log is assumed to be written once the log    *)
(* is open and AGENT_START is in it.                                       *)
(***************************************************************************)
EXTENDS Outputs

CONSTANTS
    Starts,       \* command lines, with the machine and what is typed there
    Snapshots,    \* what the checks may answer
    Earlier,      \* the snapshot of the report already in the folder, redacted
    Part,         \* a file that is being written
    MaxSteps      \* the questions of the walkthrough

ASSUME StepsAssumption == MaxSteps \in Nat

\* The words the questions name.
Words == {"send", "id", "yes", "undo", "allow"}

\* What stands for nothing is no word, nor the end of a run.
ASSUME NoneAssumption == None \notin Words \cup {"ok", "error"}

ASSUME SnapshotAssumption == Earlier \in Report /\ Snapshots \subseteq Report

\* Names of any letters, which may hold one another; no name is a part of the marker,
\* none has a letter lower case makes shorter, and none lies inside an address.
Name == {s \in Seq(STRING) : s # <<>> /\ ToSet(s) \cap {Marker, Wide} = {}}

ASSUME MachineAssumption ==
    \A st \in Starts :
        st.machine \in [hostname : Name \cup {None}, user : Name \cup {None},
                        home : [dir : Name, base : Name] \cup {None}]

ASSUME AttachAssumption ==
    \A st \in Starts : st.opts.attach \in Seq([name : STRING, kind : STRING, media : STRING])

VARIABLES
    start,        \* what the run was started with; never changes
    at,           \* the step the run is at
    result,       \* what run() returns, once it does
    exit,         \* how the process ended; None while it runs
    cancelled,    \* the context of the run
    stdin,        \* what is still to be read: the lines of each read(2)
    buffered,     \* the lines a bufio.Reader holds
    snap,         \* the snapshot; None before the checks ran
    step,         \* the plans shown so far
    shown,        \* what is on the screen: a plan or a payload
    heard,        \* the lines read, each with what was on the screen
    done,         \* what the run did that a no would have prevented
    log,          \* the audit log
    disk,         \* the report's two files and the ticket
    temp,         \* the temporary file beside them
    server,       \* the local server
    window        \* where its page is

runVars == <<start, at, result, exit, cancelled>>
inputVars == <<stdin, buffered, heard>>
workVars == <<snap, step, shown, done>>
fileVars == <<log, disk, temp>>
pageVars == <<server, window>>
vars == <<start, at, result, exit, cancelled, stdin, buffered, snap, step, shown,
          heard, done, log, disk, temp, server, window>>

opts == start.opts
Asked(flag) == flag \in opts.flags

-----------------------------------------------------------------------------
(* The command line *)

ListModes == {"schedule", "list-checks", "list-fixes", "list-wizards", "list-remote-tools"}

\* The first of these that was asked for; none of them is the interface.
Order == <<"version", "schedule", "list-checks", "list-fixes", "list-wizards",
           "list-remote-tools", "monthly", "profile", "remote", "ticket", "fix",
           "wizard", "json", "text">>
ModeOf(flags) ==
    LET asked == {i \in DOMAIN Order : Order[i] \in flags}
    IN IF asked = {} THEN "serve" ELSE Order[Min(asked)]
Mode == ModeOf(opts.flags)

parseFlagsRefuses ==
    \/ Asked("unreadable")
    \/ Asked("json") /\ Asked("text")
    \/ Asked("monthly") /\ Asked("schedule")
    \/ Asked("remote-tool") /\ ~Asked("remote")
    \/ opts.attach # <<>> /\ ~Asked("ticket")
    \/ Asked("fix") /\ Asked("wizard")
    \/ Asked("assist") /\ ~CheckURL(opts.endpoint)
    \/ Asked("report") /\ (~CheckURL(opts.server) \/ ~Asked("fleet-name"))

-----------------------------------------------------------------------------
(* The frame of a run *)

Init ==
    /\ start \in Starts
    /\ at = "parse"
    /\ result = None
    /\ exit = None
    /\ cancelled = FALSE
    /\ stdin = start.stdin
    /\ buffered = <<>>
    /\ snap = None
    /\ step = 0
    /\ shown = None
    /\ heard = <<>>
    /\ done = <<>>
    /\ log = <<>>
    /\ disk = [html |-> buildPage(Earlier), json |-> Earlier, ticket |-> None]
    /\ temp = None
    /\ server = "none"
    /\ window = "none"

At(stage) == exit = None /\ at = stage
Goto(stage) == at' = stage /\ UNCHANGED <<start, result, exit, cancelled>>
Return(e) == at' = "return" /\ result' = e /\ UNCHANGED <<start, exit, cancelled>>
Leave(e) == at' = "over" /\ result' = e /\ exit' = e /\ UNCHANGED <<start, cancelled>>

\* A line has its type and its subject; a fix is known by the plan it was shown in.
Fix(plan) == <<"fix", plan.n>>
Line(type, of) == [type |-> type, of |-> of]
Writes(type, of) == log' = Append(log, Line(type, of)) /\ UNCHANGED <<disk, temp>>

Parse ==
    /\ At("parse")
    /\ \/ parseFlagsRefuses /\ Leave("error")
       \/ ~parseFlagsRefuses /\ Mode = "version" /\ Leave("ok")
       \/ ~parseFlagsRefuses /\ Mode # "version" /\ Goto("open")
    /\ UNCHANGED <<inputVars, workVars, fileVars, pageVars>>

\* The log is opened before anything else, and nothing runs without it.
OpenLog ==
    /\ At("open")
    /\ \/ Leave("error")
       \/ Goto(IF Mode \in ListModes THEN "list" ELSE "start")
    /\ UNCHANGED <<inputVars, workVars, fileVars, pageVars>>

\* The lists are printed and nothing is recorded; printSchedule installs nothing.
List ==
    /\ At("list")
    /\ Leave("ok") \/ (Mode = "schedule" /\ Leave("error"))
    /\ UNCHANGED <<inputVars, workVars, fileVars, pageVars>>

AgentStart ==
    /\ At("start")
    /\ \/ Goto(Mode) /\ Writes("AGENT_START", <<Mode>>)
       \/ Leave("error") /\ UNCHANGED fileVars
    /\ UNCHANGED <<inputVars, workVars, pageVars>>

\* The deferred calls of run().
AgentStop ==
    /\ At("return")
    /\ Leave(result)
    /\ Writes("AGENT_STOP", <<Mode>>)
    /\ UNCHANGED <<inputVars, workVars, pageVars>>

\* Ctrl+C, once the signal is caught.
Interrupt ==
    /\ exit = None
    /\ at \notin {"parse", "open", "list"}
    /\ ~cancelled
    /\ cancelled' = TRUE
    /\ UNCHANGED <<start, at, result, exit, inputVars, workVars, fileVars, pageVars>>

\* The machine stops, or somebody ends the process.
Kill ==
    /\ exit = None
    /\ exit' = "killed"
    /\ UNCHANGED <<start, at, result, cancelled, inputVars, workVars, fileVars, pageVars>>

-----------------------------------------------------------------------------
(* The questions *)

\* One line from a reader: what it holds, or what one more read brings.  None is
\* the end of the input.
NextLine ==
    IF buffered # <<>> THEN Head(buffered)
    ELSE IF stdin # <<>> THEN Head(Head(stdin)) ELSE None

Consume ==
    /\ buffered' = IF buffered # <<>> THEN Tail(buffered)
                   ELSE IF stdin # <<>> THEN Tail(Head(stdin)) ELSE <<>>
    /\ stdin' = IF buffered = <<>> /\ stdin # <<>> THEN Tail(stdin) ELSE stdin
    /\ heard' = IF NextLine = None THEN heard
                ELSE Append(heard, [line |-> NextLine, at |-> at, on |-> shown])

\* A reader of its own starts empty, and what the one before it held is lost.
NewReader == buffered' = <<>> /\ UNCHANGED <<stdin, heard>>

typedOrSilent(want) == NextLine \in {want, None}    \* mutant: silence is a yes

typed(want) == NextLine = want

-----------------------------------------------------------------------------
(* A snapshot, and what is made of it *)

SnapshotModes == {"monthly", "ticket", "profile", "json", "text"}

\* A check whose time is over, or that a cancelled run asks, cannot say.
Unread(s, cut) == [s EXCEPT !.results = [i \in DOMAIN @ |->
    IF i \in cut THEN [@[i] EXCEPT !.severity = "unknown", !.detail = <<>>, !.args = <<>>]
    ELSE @[i]]]

ProfileRefused ==
    /\ At("profile")
    /\ snap = None
    /\ ~Valid(opts.profile)
    /\ Return("error")
    /\ UNCHANGED <<inputVars, workVars, fileVars, pageVars>>

takeSnapshot ==
    /\ exit = None
    /\ at \in SnapshotModes
    /\ snap = None
    /\ Mode = "profile" => Valid(opts.profile)
    /\ \E s \in Snapshots :
       \E cut \in IF cancelled THEN SUBSET DOMAIN s.results ELSE {{}} :
         /\ snap' = Unread(s, cut)
         /\ log' = log \o [i \in DOMAIN s.results |-> Line("CHECK_RUN", <<s.results[i].CheckID>>)]
    /\ UNCHANGED <<runVars, inputVars, step, shown, done, disk, temp, pageVars>>

redacted == Snapshot(Everything, snap, CurrentIdentity(start.machine))

writeJSON ==
    /\ At("json")
    /\ snap # None
    /\ \E e \in {"ok", "error"} : Return(e)
    /\ UNCHANGED <<inputVars, workVars, fileVars, pageVars>>

\* The measure is recorded before it is printed; not conforming is an error.
measureProfile ==
    /\ At("profile")
    /\ snap # None
    /\ LET met == Conforms(Measure(opts.profile, snap)) IN
       \/ Return(IF met THEN "ok" ELSE "error")
       \/ Asked("json") /\ Return("error")
    /\ Writes("CHECK_RUN", <<"profile">>)
    /\ UNCHANGED <<inputVars, workVars, pageVars>>

-----------------------------------------------------------------------------
(* --monthly *)

Writing == [html |-> "write html", json |-> "write json"]
Content == [html |-> buildPage(redacted), json |-> redacted]

writeMonthly ==
    /\ At("monthly")
    /\ snap # None
    /\ Goto(Writing["html"]) \/ Return("error")      \* the folder cannot be made
    /\ UNCHANGED <<inputVars, workVars, fileVars, pageVars>>

RenderInPlace(f) ==    \* mutant: the report is written over the one that is there
    /\ At(Writing[f])
    /\ temp = None
    /\ temp' = Content[f]
    /\ disk' = [disk EXCEPT ![f] = Part]
    /\ UNCHANGED <<runVars, log, inputVars, workVars, pageVars>>

\* writeFile, in two: beside the file, then in its place.
Render(f) ==
    /\ At(Writing[f])
    /\ temp = None
    /\ temp' = Content[f]
    /\ UNCHANGED <<runVars, log, disk, inputVars, workVars, pageVars>>

WriteFileFails(f) ==
    /\ At(Writing[f])
    /\ temp' = None
    /\ Return("error")
    /\ UNCHANGED <<log, disk, inputVars, workVars, pageVars>>

\* The page first, then what tools read; one line is about both.
Replace(f) ==
    /\ At(Writing[f])
    /\ temp # None
    /\ disk' = [disk EXCEPT ![f] = temp]
    /\ temp' = None
    /\ \/ f = "html" /\ Goto(Writing["json"]) /\ UNCHANGED log
       \/ f = "json" /\ Return("ok") /\ log' = Append(log, Line("DATA_SENT", <<"monthly">>))
    /\ UNCHANGED <<inputVars, workVars, pageVars>>

-----------------------------------------------------------------------------
(* --ticket *)

Bundle == Attached(New(redacted, opts.describe), opts.attach)

\* os.Create empties the file that is there.
writeTicket ==
    /\ At("ticket")
    /\ snap # None
    /\ \/ Bundle = None /\ Return("error") /\ UNCHANGED disk
       \/ Bundle # None /\ Return("error") /\ UNCHANGED disk
       \/ Bundle # None /\ Goto("write ticket") /\ disk' = [disk EXCEPT !.ticket = Part]
    /\ UNCHANGED <<log, temp, inputVars, workVars, pageVars>>

finishTicket ==
    /\ At("write ticket")
    /\ \/ Return("error") /\ UNCHANGED fileVars
       \/ /\ Return("ok")
          /\ disk' = [disk EXCEPT !.ticket = Write(Bundle)]
          /\ log' = Append(log, Line("DATA_SENT", <<"ticket">>))
          /\ UNCHANGED temp
    /\ UNCHANGED <<inputVars, workVars, pageVars>>

-----------------------------------------------------------------------------
(* --text, and what it offers to send: to the assistant, then to the fleet *)

Did(what) == done' = Append(done, [what |-> what, on |-> shown])

writeText ==
    /\ At("text")
    /\ snap # None
    /\ Goto("assist")
    /\ UNCHANGED <<inputVars, workVars, fileVars, pageVars>>

AfterOffer(to) == IF to = "assist" THEN Goto("report") ELSE Return("ok")

\* What would be sent is shown in full, and each offer reads for itself.
Offer(to) ==
    /\ At(to)
    /\ \/ ~Asked(to) /\ AfterOffer(to) /\ UNCHANGED <<shown, inputVars>>
       \/ Asked(to) /\ Return("error") /\ UNCHANGED <<shown, inputVars>>
       \/ /\ Asked(to)
          /\ shown' = [to |-> to, body |-> redacted]
          /\ NewReader
          /\ Goto("confirm send")
    /\ UNCHANGED <<snap, step, done, fileVars, pageVars>>

ConfirmSend ==
    /\ At("confirm send")
    /\ Consume
    /\ IF typed("send") THEN Goto("send") ELSE AfterOffer(shown.to)
    /\ UNCHANGED <<workVars, fileVars, pageVars>>

SendRecordingAnswers ==    \* mutant: only a send that was answered is recorded
    /\ At("send")
    /\ \/ ~cancelled /\ Did("send") /\ Writes("DATA_SENT", <<shown.to>>) /\ AfterOffer(shown.to)
       \/ ~cancelled /\ Did("send") /\ UNCHANGED fileVars /\ Return("error")
       \/ Return("error") /\ UNCHANGED <<done, fileVars>>
    /\ UNCHANGED <<inputVars, snap, step, shown, pageVars>>

\* Answered, lost on the way there or back, or never sent: the line is written each
\* time, and an error ends the run before the next offer.
Send ==
    /\ At("send")
    /\ Writes("DATA_SENT", <<shown.to>>)
    /\ \/ ~cancelled /\ Did("send") /\ (AfterOffer(shown.to) \/ Return("error"))
       \/ Return("error") /\ UNCHANGED done
    /\ UNCHANGED <<inputVars, snap, step, shown, pageVars>>

-----------------------------------------------------------------------------
(* --fix and --wizard *)

Plans == [n : {step + 1}, blocked : BOOLEAN, elevated : BOOLEAN, restore : BOOLEAN,
          reversible : BOOLEAN]
Applicable(plan) == ~plan.blocked /\ plan.elevated

Describe(plan) ==
    /\ step' = step + 1
    /\ shown' = plan
    /\ log' = log \o <<Line("FIX_PREFLIGHT", Fix(plan)), Line("CONSENT_ASKED", Fix(plan))>>
    /\ UNCHANGED <<snap, done, disk, temp>>

\* No fix of that name runs here, or what would change is printed.
PlanFix ==
    /\ At("fix")
    /\ \/ Return("error") /\ UNCHANGED <<workVars, fileVars>>
       \/ \E plan \in Plans :
            /\ Describe(plan)
            /\ IF Applicable(plan) /\ ~Asked("dry-run") THEN Goto("confirm fix") ELSE Return("ok")
    /\ UNCHANGED <<inputVars, pageVars>>

\* The next question of the walkthrough that found something: a fix that can be
\* offered is, in a dry run too; for any other finding there is only advice.
NextStep ==
    /\ At("wizard")
    /\ \/ step = 0 /\ Return("error") /\ UNCHANGED <<workVars, fileVars>>
       \/ step = MaxSteps /\ Return("ok") /\ UNCHANGED <<workVars, fileVars>>
       \/ /\ step < MaxSteps
          /\ step' = step + 1
          /\ Goto("wizard")
          /\ UNCHANGED <<snap, shown, done, fileVars>>
       \/ /\ step < MaxSteps
          /\ \E plan \in Plans :
               /\ Describe(plan)
               /\ Goto(IF Applicable(plan) THEN "confirm fix" ELSE "wizard")
    /\ UNCHANGED <<inputVars, pageVars>>

\* --fix is over; the walkthrough goes on with its next question.
AfterFix(e) == IF Mode = "fix" THEN Return(e) ELSE Goto("wizard")

ConfirmFixAgain ==    \* mutant: a walkthrough that is declined asks again
    /\ At("confirm fix")
    /\ Consume
    /\ IF ~typed("id") THEN IF Mode = "fix" THEN Return("ok") ELSE Goto("confirm fix")
       ELSE IF Mode = "fix" /\ ~shown.restore THEN Goto("confirm no restore")
       ELSE Goto("apply")
    /\ UNCHANGED <<workVars, fileVars, pageVars>>

\* The walkthrough takes the fix's name for both answers.
ConfirmFix ==
    /\ At("confirm fix")
    /\ Consume
    /\ IF ~typed("id") THEN AfterFix("ok")
       ELSE IF Mode = "fix" /\ ~shown.restore THEN Goto("confirm no restore")
       ELSE Goto("apply")
    /\ UNCHANGED <<workVars, fileVars, pageVars>>

ConfirmNoRestore ==
    /\ At("confirm no restore")
    /\ Consume
    /\ IF typed("yes") THEN Goto("apply") ELSE Return("ok")
    /\ UNCHANGED <<workVars, fileVars, pageVars>>

Apply ==
    /\ At("apply")
    /\ Writes("CONSENT_GIVEN", Fix(shown))
    /\ IF Asked("dry-run") THEN AfterFix("ok")
       ELSE Goto(IF shown.restore THEN "restore point" ELSE "run fix")
    /\ UNCHANGED <<inputVars, workVars, pageVars>>

RestorePoint ==
    /\ At("restore point")
    /\ \/ ~cancelled /\ Goto("run fix") /\ Writes("RESTORE_POINT", Fix(shown))
       \/ AfterFix("error") /\ Writes("FIX_APPLIED", Fix(shown))
    /\ UNCHANGED <<inputVars, workVars, pageVars>>

RunFixAnyway ==    \* mutant: the fix does not ask whether the run was cancelled
    /\ At("run fix")
    /\ Did("run")
    /\ Goto("running fix")
    /\ UNCHANGED <<inputVars, snap, step, shown, fileVars, pageVars>>

\* Each fix asks the context before the first thing it does.
RunFix ==
    /\ At("run fix")
    /\ ~cancelled
    /\ Did("run")
    /\ Goto("running fix")
    /\ UNCHANGED <<inputVars, snap, step, shown, fileVars, pageVars>>

FixRefused ==
    /\ At("run fix")
    /\ Writes("FIX_APPLIED", Fix(shown))
    /\ AfterFix("error")
    /\ UNCHANGED <<inputVars, workVars, pageVars>>

\* A fix that broke off is recorded as one that ran, and no undo is offered for it;
\* nor is one in a walkthrough.
FixEnds ==
    /\ At("running fix")
    /\ Writes("FIX_APPLIED", Fix(shown))
    /\ \/ AfterFix("error")
       \/ IF Mode = "fix" /\ shown.reversible THEN Goto("confirm undo") ELSE AfterFix("ok")
    /\ UNCHANGED <<inputVars, workVars, pageVars>>

ConfirmUndo ==
    /\ At("confirm undo")
    /\ Consume
    /\ IF typed("undo") THEN Goto("undo") ELSE Return("ok")
    /\ UNCHANGED <<workVars, fileVars, pageVars>>

Rollback ==
    /\ At("undo")
    /\ Did("undo")
    /\ Writes("FIX_ROLLED_BACK", Fix(shown))
    /\ \E e \in {"ok", "error"} : Return(e)
    /\ UNCHANGED <<inputVars, snap, step, shown, pageVars>>

-----------------------------------------------------------------------------
(* --remote *)

\* The tool is none this build knows, or is not installed.
PlanRemote ==
    /\ At("remote")
    /\ \/ Asked("remote-tool") /\ Return("error") /\ UNCHANGED <<shown, fileVars>>
       \/ /\ shown' = [technician |-> "technician"]
          /\ Writes("CONSENT_ASKED", <<"remote">>)
          /\ IF Asked("dry-run") THEN Return("ok") ELSE Goto("confirm remote")
    /\ UNCHANGED <<inputVars, snap, step, done, pageVars>>

ConfirmRemote ==
    /\ At("confirm remote")
    /\ Consume
    /\ \/ typed("allow") /\ Goto("launch") /\ UNCHANGED fileVars
       \/ ~typed("allow") /\ Return("ok") /\ Writes("CONSENT_DENIED", <<"remote">>)
    /\ UNCHANGED <<workVars, pageVars>>

\* A tool that does not start is no reason not to record the session.
Launch ==
    /\ At("launch")
    /\ Goto("record session")
    /\ \/ Asked("remote-tool") /\ ~cancelled /\ Did("launch")
       \/ UNCHANGED done
    /\ UNCHANGED <<inputVars, snap, step, shown, fileVars, pageVars>>

RecordSession ==
    /\ At("record session")
    /\ log' = log \o <<Line("CONSENT_GIVEN", <<"remote">>), Line("REMOTE_STARTED", <<"remote">>)>>
    /\ Goto("wait for enter")
    /\ UNCHANGED <<disk, temp, inputVars, workVars, pageVars>>

\* The end of the input is taken for the end of the session; any other error is not.
WaitForEnter ==
    /\ At("wait for enter")
    /\ \/ Consume /\ Return("ok") /\ Writes("REMOTE_ENDED", <<"remote">>)
       \/ Return("error") /\ UNCHANGED <<inputVars, fileVars>>
    /\ UNCHANGED <<workVars, pageVars>>

-----------------------------------------------------------------------------
(* The interface *)

\* The window of its own is tried first where there may be one, then a browser.
Windows ==
    {"none"} \cup (IF Asked("no-browser") THEN {}
                   ELSE {"browser"} \cup (IF Asked("in-browser") THEN {} ELSE {"native"}))

serveUI ==
    /\ At("serve")
    /\ \/ Return("error") /\ UNCHANGED pageVars
       \/ Goto("serving") /\ server' = "up" /\ window' \in Windows
    /\ UNCHANGED <<inputVars, workVars, fileVars>>

\* Nobody used it for long enough, it was closed from the page, the context is
\* cancelled, or serving fails.
ServerEnds ==
    /\ At("serving")
    /\ server = "up"
    /\ server' \in {"ok", "error"}
    /\ UNCHANGED <<window, runVars, inputVars, workVars, fileVars>>

\* The window does not hear Ctrl+C, or that the server is gone; closing it is what
\* stops the server.
CloseWindow ==
    /\ At("serving")
    /\ window = "native"
    /\ window' = "none"
    /\ cancelled' = TRUE
    /\ UNCHANGED <<start, at, result, exit, server, inputVars, workVars, fileVars>>

Served ==
    /\ At("serving")
    /\ server # "up"
    /\ window # "native"
    /\ Return(server)
    /\ UNCHANGED <<inputVars, workVars, fileVars, pageVars>>

-----------------------------------------------------------------------------
Frame == Parse \/ OpenLog \/ List \/ AgentStart \/ AgentStop

Reports ==
    \/ ProfileRefused \/ takeSnapshot \/ writeJSON \/ measureProfile \/ writeMonthly
    \/ writeTicket \/ finishTicket \/ writeText \/ ConfirmSend \/ Send
    \/ \E f \in {"html", "json"} : Render(f) \/ WriteFileFails(f) \/ Replace(f)
    \/ \E to \in {"assist", "report"} : Offer(to)

Repairs ==
    \/ PlanFix \/ NextStep \/ ConfirmFix \/ ConfirmNoRestore \/ Apply \/ RestorePoint
    \/ RunFix \/ FixRefused \/ FixEnds \/ ConfirmUndo \/ Rollback

RemoteHelp == PlanRemote \/ ConfirmRemote \/ Launch \/ RecordSession \/ WaitForEnter

Page == serveUI \/ ServerEnds \/ CloseWindow \/ Served

Run == Frame \/ Reports \/ Repairs \/ RemoteHelp \/ Page

Next == Run \/ Interrupt \/ Kill

\* A read ends (with a line or with the end of the input), the page is left alone or
\* closed some day, its window too, and the program goes on.
Spec == Init /\ [][Next]_vars /\ WF_vars(Run)

-----------------------------------------------------------------------------
(* Properties *)

\* Every snapshot a run may take, every report that may be made of one, and every ticket
\* of a run: a file that is being written is none of them, nor is there a page of it.
Taken == UNION {{Unread(s, cut) : cut \in SUBSET DOMAIN s.results} : s \in Snapshots}
Reported ==
    {Earlier} \cup {Snapshot(Everything, s, CurrentIdentity(st.machine)) : s \in Taken, st \in Starts}
Tickets ==
    {Write(t) : t \in {Attached(New(s, st.opts.describe), st.opts.attach) :
                         s \in Reported, st \in Starts} \ {None}}

ASSUME PartAssumption ==
    Part \notin Reported \cup {buildPage(s) : s \in Reported} \cup Tickets \cup {None}

Said(line, at_, on) == [line |-> line, at |-> at_, on |-> on] \in ToSet(heard)

Answer == [run |-> <<"id", "confirm fix">>, undo |-> <<"undo", "confirm undo">>,
           send |-> <<"send", "confirm send">>, launch |-> <<"allow", "confirm remote">>]

\* Whatever is changed, sent or started was asked about while exactly that was on the
\* screen, and answered with the word the question named; once for each, never in a
\* dry run unless it is a send, never without the rights or past a refusal, and --fix
\* asks a second time before it goes on without a restore point (repair.go, advice.go,
\* enrol.go, remote.go).
NothingUnasked ==
    \A i \in DOMAIN done :
        LET e == done[i] IN
        /\ Said(Answer[e.what][1], Answer[e.what][2], e.on)
        /\ \A j \in 1..i - 1 : done[j] # e
        /\ e.what # "send" => ~Asked("dry-run")
        /\ e.what = "run" =>
              /\ Applicable(e.on)
              /\ Mode = "fix" /\ ~e.on.restore => Said("yes", "confirm no restore", e.on)
              /\ e.on.restore => Line("RESTORE_POINT", Fix(e.on)) \in ToSet(log)

\* After Ctrl+C nothing is changed, sent or started any more, whatever is still
\* answered: only what was done may be undone (main.go, the context of run).
NothingAfterInterrupt ==
    [][cancelled /\ done' # done => Last(done').what = "undo"]_vars

Agree == disk.html = buildPage(disk.json)

\* No reader finds half a report; the page and the file of tools tell the same, with a
\* row for every result, except after a run that was stopped or failed between the two;
\* and only a ticket that is whole ends a run well (schedule.go writeFile, ticket.go).
FilesAreWhole ==
    /\ Part \notin {disk.html, disk.json}
    /\ Agree \/ at = Writing["json"] \/ result = "error"
    /\ result = "ok" =>
          /\ disk.ticket # Part
          /\ temp = None
          /\ Mode = "monthly" =>
                /\ disk.json = redacted
                /\ ToSet(disk.html.results) = ToSet(redacted.results)

Lines(type) == {i \in DOMAIN log : log[i].type = type}

\* A run that ends by itself is in the log from its start to its stop, with every check
\* it ran, each change and its consent before it, each send whatever came of it, each
\* session, and each file it left for good (main.go run, remediate.go, assist.go,
\* enrol.go).
LogTellsTheRun ==
    exit \in {"ok", "error"} /\ log # <<>> =>
        /\ Lines("AGENT_START") = {1}
        /\ Lines("AGENT_STOP") = {Len(log)}
        /\ snap # None => \A r \in ToSet(snap.results) : Line("CHECK_RUN", <<r.CheckID>>) \in ToSet(log)
        /\ \A i \in DOMAIN done :
              LET e == done[i]
                  Told(type, of) == Line(type, of) \in ToSet(log) IN
              CASE e.what = "run" -> \E a \in Lines("CONSENT_GIVEN"), b \in Lines("FIX_APPLIED") :
                                        a < b /\ log[a].of = Fix(e.on) /\ log[b].of = Fix(e.on)
                [] e.what = "undo" -> Told("FIX_ROLLED_BACK", Fix(e.on))
                [] e.what = "send" -> Told("DATA_SENT", <<e.on.to>>)
                [] e.what = "launch" -> Told("CONSENT_GIVEN", <<"remote">>) /\ Told("REMOTE_STARTED", <<"remote">>)
        /\ exit = "ok" /\ Mode \in {"monthly", "ticket"} => Line("DATA_SENT", <<Mode>>) \in ToSet(log)

\* A run of letters stands in a text from its i-th letter on.
Stands(run, s, i) ==
    i + Len(run) - 1 <= Len(s) /\ \A k \in DOMAIN run : s[i + k - 1] = run[k]

\* Where a name does, it does not stand again before it ends: "ana" in "anana" does.
Apart(name) ==
    \A k \in 2..Len(name) : \E m \in 1..Len(name) - k + 1 : name[k + m - 1] # name[m]

\* The names, in the order they are taken out, and whether one is long enough for it.
names ==
    LET id == CurrentIdentity(start.machine) IN <<id.HomeDir, id.Username, id.Hostname>>
Sought(name) == name # None /\ Len(name) >= 3
Identifying == {name \in ToSet(names) : Sought(name)}

\* Of the names in a text, the first that is taken out: it alone finds the text as it was.
First(n, s) ==
    /\ Sought(names[n])
    /\ \A m \in 1..n - 1 : Sought(names[m]) => \A i \in DOMAIN s : ~Stands(names[m], s, i)

\* The letters k to l of a text are what is between two markers.
Between(out, k, l) ==
    /\ k <= l
    /\ \A m \in k..l : out[m] # Marker
    /\ k = 1 \/ out[k - 1] = Marker
    /\ l = Len(out) \/ out[l + 1] = Marker

\* What is left of a text: no name, wherever in a word, and no address of a known shape;
\* and what is left between two markers stood in the text outside of the name that was
\* taken out first, so that no part of that name is left.  Two names that hold one
\* another leave a part of the longer one when the shorter goes first ("-laptop" of
\* "alex-laptop").  A text with a letter that lower case makes shorter is cut at the
\* wrong place, and nothing is said of it.
Clean(out, s) ==
    Wide \notin ToSet(s) =>
        /\ \A name \in Identifying : \A i \in DOMAIN out : ~Stands(name, out, i)
        /\ ToSet(out) \cap Addresses = {}
        /\ \A k, l \in DOMAIN out : Between(out, k, l) =>
              \E j \in DOMAIN s :
                 /\ Stands(SubSeq(out, k, l), s, j)
                 /\ \A n \in 1..3 : First(n, s) /\ Apart(names[n]) =>
                       \A i \in DOMAIN s : Stands(names[n], s, i) =>
                          (j..j + l - k) \cap (i..i + Len(names[n]) - 1) = {}

CleanLeaf(out, leaf, fields) ==
    leaf.kind = "string" =>
        IF leaf.field \in fields THEN out.value = <<Marker>> ELSE Clean(out.value, leaf.value)

CleanResult(out, res) ==
    /\ out.CheckID = res.CheckID
    /\ DOMAIN out.detail = DOMAIN res.detail
    /\ \A i \in DOMAIN res.detail :
          CleanLeaf(out.detail[i], res.detail[i],
                    serialFields \cup hostnameFields \cup usernameFields \cup addressFields)
    /\ DOMAIN out.args = DOMAIN res.args
    /\ \A i \in DOMAIN res.args : CleanLeaf(out.args[i], res.args[i], {})
    /\ Clean(out.err, res.err)

\* Neither what is sent nor what is left in a file names the machine or its account,
\* gives a serial number, or an address of a shape the patterns know, wherever in the
\* evidence of a check they were: in a field of their own, inside a word, in a path, in
\* an argument of a message or in an error; nor does a part of a path give its owner
\* away (redact.go:203-239).  A file may still be the earlier one.
NothingIdentifyingLeaves ==
    LET Redacted(out) == snap # None /\ \E res \in ToSet(snap.results) : CleanResult(out, res)
        ticket == IF disk.ticket \in {None, Part} THEN {} ELSE {disk.ticket.json, disk.ticket.html}
        sent == {done[i].on.body : i \in {j \in DOMAIN done : done[j].what = "send"}}
    IN /\ \A body \in sent \cup ticket : \A out \in ToSet(body.results) : Redacted(out)
       /\ \A file \in {disk.html, disk.json} \ {Part} : \A out \in ToSet(file.results) :
             out \in ToSet(Earlier.results) \/ Redacted(out)

\* Every run comes to an end: a question that gets no answer is declined, and a window
\* that is closed ends the server (repair.go typed, main.go serveInNativeWindow).
RunEnds == <>(exit # None)
=============================================================================
