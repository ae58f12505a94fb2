--------------------------- MODULE TerminalProofs ---------------------------
(***************************************************************************)
(* Proofs about one run of the agent, for any set of command lines, any    *)
(* snapshots the checks may answer with and any number of questions in a   *)
(* walkthrough.                                                            *)
(*                                                                         *)
(* The invariant is a conjunction of what each kind of step leans on:      *)
(*   StageInv   a step belongs to the modes that reach it                  *)
(*   EndInv     what run() returns is there only once it returns           *)
(*   AskInv     what is on the screen, and the answers it had so far       *)
(*   GateInv    what the log says by the time a fix may run                *)
(*   DoneInv    what was done was answered for, and does not come again    *)
(*   LogInv     the log keeps up with what was done                        *)
(*   FileInv    the files are whole and of one report                      *)
(*   LeaveInv   what is sent or written is the snapshot, redacted          *)
(* Each part has one lemma for its steps, which names the parts it uses.   *)
(***************************************************************************)
EXTENDS Terminal, SequenceTheorems, WellFoundedInduction, TLAPS

\* A sequence, whatever its elements are.
IsSeq(s) == s \in Seq(ToSet(s))

\* The steps by where they are in a run.
Early == {"parse", "open", "list", "start"}
Final == {"return", "over"}
Work == {"json", "profile", "text", "monthly", "ticket", "fix", "wizard", "remote", "serve"}
Monthly == {"write html", "write json"}
Offers == {"assist", "report", "confirm send", "send"}
Offered == {"confirm fix", "apply", "restore point", "run fix", "running fix"}
Alone == {"confirm no restore", "confirm undo", "undo"}
Remote == {"confirm remote", "launch", "record session", "wait for enter"}
Stages == Early \cup Final \cup Work \cup Monthly \cup Offers \cup Offered \cup Alone
            \cup Remote \cup {"write ticket", "serving"}

\* Every step is of the mode that leads to it (main.go run).
StageInv ==
    /\ at \in Stages
    /\ at = "open" => Mode # "version"
    /\ at = "list" => Mode \in ListModes
    /\ at = "start" => Mode \in Work
    /\ at \in Work => Mode = at
    /\ at \in Monthly => Mode = "monthly"
    /\ at = "write ticket" => Mode = "ticket"
    /\ at \in Offers => Mode = "text"
    /\ at \in Offered => Mode \in {"fix", "wizard"}
    /\ at \in Alone => Mode = "fix"
    /\ at \in Remote => Mode = "remote"
    /\ at = "serving" => Mode = "serve"

\* run() returns once, and a process that ends by itself ends with that.
EndInv ==
    /\ at \notin Final => result = None
    /\ exit \in {"ok", "error"} => at = "over" /\ exit = result

\* The plans that may be shown as the n-th of a run.
PlanOf(n) ==
    [n : {n}, blocked : BOOLEAN, elevated : BOOLEAN, restore : BOOLEAN, reversible : BOOLEAN]

\* Where the plan on the screen is the one that is worked on, and where the gate has
\* recorded consent to it.
ShownStages == Offered \cup Alone
Granted == {"restore point", "run fix", "running fix", "confirm undo", "undo"}
Logged(type, of) == Line(type, of) \in ToSet(log)

\* What is on the screen and what was answered to it, at each step that goes on from an
\* answer (repair.go, advice.go, enrol.go, remote.go).
AskInv ==
    /\ step \in Nat
    /\ IsSeq(heard)
    /\ at \in ShownStages => shown \in PlanOf(step) /\ Applicable(shown)
    /\ at \in ShownStages \ {"confirm fix"} => Said("id", "confirm fix", shown)
    /\ at \in {"apply", "restore point", "run fix", "running fix"} /\ Mode = "fix" /\ ~shown.restore
          => Said("yes", "confirm no restore", shown)
    /\ at \in Granted => ~Asked("dry-run")
    /\ at = "undo" => Said("undo", "confirm undo", shown)
    /\ at \in {"confirm send", "send"} => shown.to \in {"assist", "report"}
    /\ at = "send" => Said("send", "confirm send", shown)
    /\ at \in {"confirm remote", "launch"} => ~Asked("dry-run")
    /\ at = "launch" => Said("allow", "confirm remote", shown)

\* What the log says of a plan by the time its fix may run (remediate.go Apply).
GateInv ==
    /\ at \in Granted => Logged("CONSENT_GIVEN", Fix(shown))
    /\ at = "restore point" => shown.restore
    /\ at \in {"run fix", "running fix"} /\ shown.restore => Logged("RESTORE_POINT", Fix(shown))

\* What may have been done: it was answered for, with its restore point.
Allowed(e) ==
    /\ e.what \in {"run", "undo", "send", "launch"}
    /\ Said(Answer[e.what][1], Answer[e.what][2], e.on)
    /\ e.what # "send" => ~Asked("dry-run")
    /\ e.what = "run" =>
          /\ Applicable(e.on)
          /\ Mode = "fix" /\ ~e.on.restore => Said("yes", "confirm no restore", e.on)
          /\ e.on.restore => Logged("RESTORE_POINT", Fix(e.on))

\* What was done before does not come again: a plan has a number of its own, and the
\* steps that send, undo or start something are behind.
Past(e) ==
    /\ e.what = "run" =>
          /\ e.on.n \in 0..step
          /\ at \in {"confirm fix", "confirm no restore", "apply", "restore point", "run fix"} => e.on.n # step
    /\ e.what = "undo" => at \in Final
    /\ e.what = "send" =>
          \/ e.on.to = "report" /\ at \in Final
          \/ e.on.to = "assist" /\ at \in Final \cup {"report"}
          \/ e.on.to = "assist" /\ at \in {"confirm send", "send"} /\ shown.to = "report"
    /\ e.what = "launch" => at \in Final \cup {"record session", "wait for enter"}

\* All that was done was allowed, and done once.
DoneInv ==
    /\ IsSeq(done)
    /\ \A e \in ToSet(done) : Allowed(e) /\ Past(e)
    /\ \A i \in DOMAIN done : \A j \in 1..i - 1 : done[j] # done[i]

\* The log tells of a fix that ran: the consent, then that it was applied.
ToldRun(plan) ==
    \E a \in Lines("CONSENT_GIVEN"), b \in Lines("FIX_APPLIED") :
        a < b /\ log[a].of = Fix(plan) /\ log[b].of = Fix(plan)

\* Each thing that was done is in the log, or its line is the next to be written.
Recorded(e) ==
    /\ e.what = "run" => ToldRun(e.on) \/ (at = "running fix" /\ e.on = shown)
    /\ e.what = "undo" => Logged("FIX_ROLLED_BACK", Fix(e.on))
    /\ e.what = "send" => Logged("DATA_SENT", <<e.on.to>>)
    /\ e.what = "launch" =>
          \/ at = "record session"
          \/ Logged("CONSENT_GIVEN", <<"remote">>) /\ Logged("REMOTE_STARTED", <<"remote">>)

\* The log starts with the start of the run and stops with its stop; in between it keeps
\* up with the checks, with what is done and with the files.
LogInv ==
    /\ IsSeq(log)
    /\ at \in Early => log = <<>> /\ done = <<>> /\ snap = None
    /\ at \notin Early \cup {"over"} => log # <<>>
    /\ \A i \in DOMAIN log : log[i].type = "AGENT_START" <=> i = 1
    /\ \A i \in DOMAIN log : log[i].type = "AGENT_STOP" => i = Len(log) /\ at = "over"
    /\ exit \in {"ok", "error"} /\ log # <<>> => log[Len(log)].type = "AGENT_STOP"
    /\ snap # None => \A r \in ToSet(snap.results) : Logged("CHECK_RUN", <<r.CheckID>>)
    /\ \A e \in ToSet(done) : Recorded(e)
    /\ result = "ok" /\ Mode \in {"monthly", "ticket"} => Logged("DATA_SENT", <<Mode>>)

\* The pages there may be.
Pages == {buildPage(s) : s \in Reported}

\* The page and the file of tools are of one report, except between the two renames and
\* after a failure there; what is beside them is a page or a report of this run.
FileInv ==
    /\ start \in Starts
    /\ snap \in Taken \cup {None}
    /\ disk = [html |-> disk.html, json |-> disk.json, ticket |-> disk.ticket]
    /\ disk.json \in Reported
    /\ disk.html \in Pages
    /\ at \in Monthly \cup {"write ticket"} => snap # None
    /\ at = "write html" => Agree /\ temp \in {None, buildPage(redacted)}
    /\ at = "write json" => disk.html = buildPage(redacted) /\ temp \in {None, redacted}
    /\ at \notin Monthly => temp = None /\ (Agree \/ result = "error")
    /\ result = "ok" /\ Mode = "monthly" =>
          snap # None /\ disk.json = redacted /\ disk.html = buildPage(redacted)
    /\ at = "write ticket" => Bundle # None
    /\ disk.ticket = Part => at = "write ticket" \/ result = "error"

\* What leaves is of the snapshot that was taken, and redacted (assist.go, enrol.go,
\* schedule.go, ticket.go); a file that is left alone is the earlier report's.
LeaveInv ==
    /\ at \in Offers => snap # None
    /\ at \in {"confirm send", "send"} => shown.body = redacted
    /\ \A e \in ToSet(done) : e.what = "send" => snap # None /\ e.on.body = redacted
    /\ disk.json = Earlier \/ (snap # None /\ disk.json = redacted)
    /\ disk.html = buildPage(Earlier) \/ (snap # None /\ disk.html = buildPage(redacted))
    /\ \/ disk.ticket \in {None, Part}
       \/ snap # None /\ Bundle # None /\ disk.ticket = Write(Bundle)

-----------------------------------------------------------------------------
\* Below, a set of natural numbers has its least element; the library's theorem is used
\* as it stands.
Less == {p \in Nat \X Nat : p[1] < p[2]}

LEMMA LessWF == IsWellFoundedOn(Less, Nat)
BY NatLessThanWellFounded DEF OpToRel, Less, IsWellFoundedOn

\* A set of natural numbers that is not empty has a least one.
LEMMA Least ==
    ASSUME NEW S, S \subseteq Nat, S # {}
    PROVE  \E n \in S : \A m \in S : n <= m
<1>1. PICK n \in S : \A m \in S : <<m, n>> \notin Less
  BY WFMin, LessWF
<1>2. ASSUME NEW m \in S PROVE n <= m
  <2>1. m \in Nat /\ n \in Nat
    OBVIOUS
  <2>2. <<m, n>> \in Nat \X Nat
    BY <2>1
  <2>3. ~(m < n)
    BY <1>1, <2>2 DEF Less
  <2> QED
    BY <2>1, <2>3
<1> QED
  BY <1>2

\* A run is in one of the modes of main.go.
Modes == ListModes \cup {"version"} \cup Work

\* The first flag asked for, if any, names the mode.
LEMMA ModeOfSome ==
    ASSUME NEW flags PROVE ModeOf(flags) \in Modes
<1> DEFINE asked == {i \in DOMAIN Order : Order[i] \in flags}
<1>1. DOMAIN Order = 1..14 /\ \A i \in 1..14 : Order[i] \in Modes
  BY DEF Order, Modes, ListModes, Work
<1>2. CASE asked = {}
  BY <1>2 DEF ModeOf, Modes, Work
<1>3. CASE asked # {}
  <2>1. asked \subseteq Nat
    BY <1>1
  <2>2. \E n \in asked : \A m \in asked : n <= m
    BY <2>1, <1>3, Least
  <2>3. Min(asked) \in asked
    BY <2>2 DEF Min
  <2>4. ModeOf(flags) = Order[Min(asked)]
    BY <1>3 DEF ModeOf
  <2> QED
    BY <2>3, <2>4, <1>1
<1> QED
  BY <1>2, <1>3

\* What Append gives.
LEMMA AppendKeeps ==
    ASSUME NEW s, IsSeq(s), NEW e
    PROVE  /\ IsSeq(Append(s, e))
           /\ ToSet(Append(s, e)) = ToSet(s) \cup {e}
           /\ DOMAIN s = 1..Len(s) /\ Len(s) \in Nat
           /\ DOMAIN Append(s, e) = 1..Len(s) + 1
           /\ Len(Append(s, e)) = Len(s) + 1
           /\ \A i \in 1..Len(s) : Append(s, e)[i] = s[i]
           /\ Append(s, e)[Len(s) + 1] = e
<1> DEFINE S == ToSet(s) \cup {e}
           t == Append(s, e)
<1>1. s \in Seq(ToSet(s)) /\ s \in Seq(S)
  BY DEF IsSeq
<1>2. /\ DOMAIN s = 1..Len(s) /\ Len(s) \in Nat
      /\ t \in Seq(S)
      /\ DOMAIN t = 1..Len(s) + 1
      /\ Len(t) = Len(s) + 1
      /\ \A i \in 1..Len(s) : t[i] = s[i]
      /\ t[Len(s) + 1] = e
  BY <1>1
<1>3. ToSet(t) = S
  BY <1>2 DEF ToSet
<1> QED
  BY <1>2, <1>3 DEF IsSeq

\* What joining two sequences gives.
LEMMA ConcatKeeps ==
    ASSUME NEW s, IsSeq(s), NEW t, IsSeq(t)
    PROVE  /\ IsSeq(s \o t)
           /\ ToSet(s \o t) = ToSet(s) \cup ToSet(t)
           /\ DOMAIN s = 1..Len(s) /\ Len(s) \in Nat
           /\ DOMAIN t = 1..Len(t) /\ Len(t) \in Nat
           /\ DOMAIN (s \o t) = 1..Len(s) + Len(t)
           /\ Len(s \o t) = Len(s) + Len(t)
           /\ \A i \in 1..Len(s) : (s \o t)[i] = s[i]
           /\ \A i \in 1..Len(t) : (s \o t)[Len(s) + i] = t[i]
<1> DEFINE S == ToSet(s) \cup ToSet(t)
           u == s \o t
<1>1. s \in Seq(S) /\ t \in Seq(S)
  BY DEF IsSeq
<1>2. /\ DOMAIN s = 1..Len(s) /\ Len(s) \in Nat
      /\ DOMAIN t = 1..Len(t) /\ Len(t) \in Nat
      /\ u \in Seq(S)
      /\ DOMAIN u = 1..Len(s) + Len(t)
      /\ Len(u) = Len(s) + Len(t)
      /\ \A i \in 1..Len(s) : u[i] = s[i]
      /\ \A i \in Len(s) + 1 .. Len(s) + Len(t) : u[i] = t[i - Len(s)]
  BY <1>1
<1>3. \A i \in 1..Len(t) : u[Len(s) + i] = t[i]
  BY <1>2
<1>4. ToSet(u) = S
  <2>1. ToSet(u) \subseteq S
    BY <1>2 DEF ToSet
  <2>2. ToSet(s) \subseteq ToSet(u)
    BY <1>2 DEF ToSet
  <2>3. ToSet(t) \subseteq ToSet(u)
    <3> SUFFICES ASSUME NEW x \in ToSet(t) PROVE x \in ToSet(u)
      OBVIOUS
    <3>1. PICK i \in 1..Len(t) : t[i] = x
      BY <1>2 DEF ToSet
    <3>2. Len(s) + i \in DOMAIN u /\ u[Len(s) + i] = x
      BY <1>2, <1>3, <3>1
    <3> QED
      BY <3>2 DEF ToSet
  <2> QED
    BY <2>1, <2>2, <2>3
<1> QED
  BY <1>2, <1>3, <1>4 DEF IsSeq

\* A function on 1..n is a sequence of n elements.
LEMMA FunctionIsSeq ==
    ASSUME NEW n \in Nat, NEW f, f = [i \in 1..n |-> f[i]]
    PROVE  IsSeq(f) /\ Len(f) = n /\ DOMAIN f = 1..n
<1>1. f \in [1..n -> ToSet(f)] /\ DOMAIN f = 1..n
  BY DEF ToSet
<1>2. f \in Seq(ToSet(f)) /\ Len(f) = n
  BY <1>1, SeqDef, LenProperties
<1> QED
  BY <1>1, <1>2 DEF IsSeq

\* The short sequences.
LEMMA TupleIsSeq ==
    /\ IsSeq(<<>>) /\ ToSet(<<>>) = {}
    /\ \A x : IsSeq(<<x>>) /\ ToSet(<<x>>) = {x} /\ Len(<<x>>) = 1
    /\ \A x, y : IsSeq(<<x, y>>) /\ ToSet(<<x, y>>) = {x, y} /\ Len(<<x, y>>) = 2
<1>1. IsSeq(<<>>) /\ ToSet(<<>>) = {}
  BY DEF IsSeq, ToSet
<1>2. ASSUME NEW x PROVE IsSeq(<<x>>) /\ ToSet(<<x>>) = {x} /\ Len(<<x>>) = 1
  <2>1. ToSet(<<x>>) = {x}
    BY DEF ToSet
  <2> QED
    BY <2>1 DEF IsSeq
<1>3. ASSUME NEW x, NEW y
      PROVE  IsSeq(<<x, y>>) /\ ToSet(<<x, y>>) = {x, y} /\ Len(<<x, y>>) = 2
  <2>1. ToSet(<<x, y>>) = {x, y}
    BY DEF ToSet
  <2> QED
    BY <2>1 DEF IsSeq
<1> QED
  BY <1>1, <1>2, <1>3

\* Only the empty sequence has no element.
LEMMA EmptyIsEmpty ==
    ASSUME NEW s, IsSeq(s) PROVE s = <<>> <=> Len(s) = 0
BY DEF IsSeq

-----------------------------------------------------------------------------
\* The command line is what it was.
LEMMA StartStays == [Next]_vars => start' = start
BY DEF Next, Run, Frame, Reports, Repairs, RemoteHelp, Page, Parse, OpenLog, List,
       AgentStart, AgentStop, ProfileRefused, takeSnapshot, writeJSON, measureProfile,
       writeMonthly, writeTicket, finishTicket, writeText, ConfirmSend, Send, Render,
       WriteFileFails, Replace, Offer, PlanFix, NextStep, ConfirmFix, ConfirmNoRestore,
       Apply, RestorePoint, RunFix, FixRefused, FixEnds, ConfirmUndo, Rollback,
       PlanRemote, ConfirmRemote, Launch, RecordSession, WaitForEnter, serveUI,
       ServerEnds, CloseWindow, Served, Interrupt, Kill, Goto, Return, Leave,
       AfterOffer, AfterFix, runVars, vars

\* The steps that write the two files of a report.
LEMMA FilesWritten == Writing["html"] = "write html" /\ Writing["json"] = "write json"
BY DEF Writing

LEMMA StageInit == Init => StageInv
BY DEF Init, StageInv, Stages, Early, Final, Work, Monthly, Offers, Offered, Alone,
       Remote

\* No step leads into another mode.
LEMMA StageStep == StageInv /\ [Next]_vars => StageInv'
<1> SUFFICES ASSUME StageInv, [Next]_vars PROVE StageInv'
  OBVIOUS
<1>0. start' = start /\ Mode \in Modes
  BY StartStays, ModeOfSome DEF Mode
<1> USE <1>0 DEF StageInv, Mode, opts, Stages, Early, Final, Work, Monthly, Offers,
                 Offered, Alone, Remote, ListModes, Modes, At, Goto, Return, Leave
<1>1. CASE UNCHANGED vars
  BY <1>1 DEF vars
<1>2. CASE Frame
  BY <1>2 DEF Frame, Parse, OpenLog, List, AgentStart, AgentStop
<1>3. CASE ProfileRefused \/ takeSnapshot \/ writeJSON \/ measureProfile \/ writeMonthly
  BY <1>3 DEF ProfileRefused, takeSnapshot, writeJSON, measureProfile, writeMonthly,
              runVars, Writing, SnapshotModes
<1>4. CASE writeTicket \/ finishTicket \/ writeText \/ ConfirmSend \/ Send
  BY <1>4 DEF writeTicket, finishTicket, writeText, ConfirmSend, Send, AfterOffer
<1>5. ASSUME NEW f \in {"html", "json"}, Render(f) \/ WriteFileFails(f) \/ Replace(f)
      PROVE  StageInv'
  <2>1. Writing[f] \in Monthly /\ Writing["json"] = "write json"
    BY <1>5, FilesWritten
  <2> QED
    BY <1>5, <2>1 DEF Render, WriteFileFails, Replace, runVars
<1>6. ASSUME NEW to \in {"assist", "report"}, Offer(to) PROVE StageInv'
  BY <1>6 DEF Offer, AfterOffer
<1>7. CASE Repairs
  BY <1>7 DEF Repairs, PlanFix, NextStep, ConfirmFix, ConfirmNoRestore, Apply,
              RestorePoint, RunFix, FixRefused, FixEnds, ConfirmUndo, Rollback, AfterFix
<1>8. CASE RemoteHelp \/ Page \/ Interrupt \/ Kill
  BY <1>8 DEF RemoteHelp, Page, PlanRemote, ConfirmRemote, Launch, RecordSession,
              WaitForEnter, serveUI, ServerEnds, CloseWindow, Served, Interrupt, Kill,
              runVars
<1> QED
  BY <1>1, <1>2, <1>3, <1>4, <1>5, <1>6, <1>7, <1>8 DEF Next, Run, Reports

-----------------------------------------------------------------------------
LEMMA EndInit == Init => EndInv
BY NoneAssumption DEF Init, EndInv

\* run() returns once.
LEMMA EndStep == EndInv /\ [Next]_vars => EndInv'
<1> SUFFICES ASSUME EndInv, [Next]_vars PROVE EndInv'
  OBVIOUS
<1> USE NoneAssumption DEF EndInv, Final, At, Goto, Return, Leave
<1>1. CASE UNCHANGED vars
  BY <1>1 DEF vars
<1>2. CASE Frame
  BY <1>2 DEF Frame, Parse, OpenLog, List, AgentStart, AgentStop
<1>3. CASE ProfileRefused \/ takeSnapshot \/ writeJSON \/ measureProfile \/ writeMonthly
  BY <1>3 DEF ProfileRefused, takeSnapshot, writeJSON, measureProfile, writeMonthly,
              runVars, Writing, SnapshotModes
<1>4. CASE writeTicket \/ finishTicket \/ writeText \/ ConfirmSend \/ Send
  BY <1>4 DEF writeTicket, finishTicket, writeText, ConfirmSend, Send, AfterOffer
<1>5. ASSUME NEW f \in {"html", "json"}, Render(f) \/ WriteFileFails(f) \/ Replace(f)
      PROVE  EndInv'
  <2>1. Writing[f] \in {"write html", "write json"} /\ Writing["json"] = "write json"
    BY <1>5, FilesWritten
  <2> QED
    BY <1>5, <2>1 DEF Render, WriteFileFails, Replace, runVars
<1>6. ASSUME NEW to \in {"assist", "report"}, Offer(to) PROVE EndInv'
  BY <1>6 DEF Offer, AfterOffer
<1>7. CASE Repairs
  BY <1>7 DEF Repairs, PlanFix, NextStep, ConfirmFix, ConfirmNoRestore, Apply,
              RestorePoint, RunFix, FixRefused, FixEnds, ConfirmUndo, Rollback, AfterFix
<1>8. CASE RemoteHelp \/ Page \/ Interrupt \/ Kill
  BY <1>8 DEF RemoteHelp, Page, PlanRemote, ConfirmRemote, Launch, RecordSession,
              WaitForEnter, serveUI, ServerEnds, CloseWindow, Served, Interrupt, Kill,
              runVars
<1> QED
  BY <1>1, <1>2, <1>3, <1>4, <1>5, <1>6, <1>7, <1>8 DEF Next, Run, Reports

\* A line that was read stays read.
LEMMA ConsumeGrows ==
    ASSUME IsSeq(heard), Consume
    PROVE  IsSeq(heard') /\ ToSet(heard) \subseteq ToSet(heard')
BY AppendKeeps DEF Consume

\* A word that was typed is heard as the answer to what is on the screen.
LEMMA Answered ==
    ASSUME IsSeq(heard), Consume, NEW word \in Words, typed(word)
    PROVE  [line |-> word, at |-> at, on |-> shown] \in ToSet(heard')
BY AppendKeeps, NoneAssumption DEF Consume, typed, Words

\* What was heard stays heard.
LEMMA HeardGrows ==
    ASSUME IsSeq(heard), [Next]_vars
    PROVE  IsSeq(heard') /\ ToSet(heard) \subseteq ToSet(heard')
<1> USE DEF NewReader, inputVars
<1>1. CASE UNCHANGED vars \/ Frame \/ Page \/ Interrupt \/ Kill
  BY <1>1 DEF vars, Frame, Parse, OpenLog, List, AgentStart, AgentStop, Page, serveUI,
              ServerEnds, CloseWindow, Served, Interrupt, Kill
<1>2. CASE ProfileRefused \/ takeSnapshot \/ writeJSON \/ measureProfile \/ writeMonthly
  BY <1>2 DEF ProfileRefused, takeSnapshot, writeJSON, measureProfile, writeMonthly
<1>3. CASE writeTicket \/ finishTicket \/ writeText \/ ConfirmSend \/ Send
  BY <1>3, ConsumeGrows DEF writeTicket, finishTicket, writeText, ConfirmSend, Send
<1>4. ASSUME NEW f, Render(f) \/ WriteFileFails(f) \/ Replace(f)
      PROVE  heard' = heard
  BY <1>4 DEF Render, WriteFileFails, Replace
<1>5. ASSUME NEW to, Offer(to) PROVE heard' = heard
  BY <1>5 DEF Offer
<1>6. CASE Repairs
  BY <1>6, ConsumeGrows DEF Repairs, PlanFix, NextStep, ConfirmFix, ConfirmNoRestore,
          Apply, RestorePoint, RunFix, FixRefused, FixEnds, ConfirmUndo, Rollback
<1>7. CASE RemoteHelp
  BY <1>7, ConsumeGrows DEF RemoteHelp, PlanRemote, ConfirmRemote, Launch,
          RecordSession, WaitForEnter
<1> QED
  BY <1>1, <1>2, <1>3, <1>4, <1>5, <1>6, <1>7 DEF Next, Run, Reports

LEMMA AskInit == Init => AskInv
BY TupleIsSeq DEF Init, AskInv, ShownStages, Granted, Offered, Alone

\* A step goes on from an answer only with the word its question names.
LEMMA AskStep == AskInv /\ StageInv /\ [Next]_vars => AskInv'
<1> SUFFICES ASSUME AskInv, StageInv, [Next]_vars PROVE AskInv'
  OBVIOUS
<1>0. /\ start' = start /\ Mode \in Modes
      /\ IsSeq(heard') /\ ToSet(heard) \subseteq ToSet(heard')
  BY StartStays, ModeOfSome, HeardGrows DEF Mode, AskInv
<1>a. step \in Nat
  BY DEF AskInv
<1>b. step + 1 \in Nat
  BY <1>a
<1> USE <1>0, <1>b DEF AskInv, ShownStages, Granted, Offered, Alone, Said, Asked, opts,
                       Mode, At, Goto, Return, Leave, workVars, Applicable
<1>1. CASE UNCHANGED vars
  BY <1>1 DEF vars
<1>2. CASE Frame
  BY <1>2 DEF Frame, Parse, OpenLog, List, AgentStart, AgentStop, StageInv, Work
<1>3. CASE ProfileRefused \/ takeSnapshot \/ writeJSON \/ measureProfile \/ writeMonthly
  BY <1>3 DEF ProfileRefused, takeSnapshot, writeJSON, measureProfile, writeMonthly,
              runVars, Writing, SnapshotModes
<1>4. CASE writeTicket \/ finishTicket \/ writeText \/ Send
  BY <1>4 DEF writeTicket, finishTicket, writeText, Send, AfterOffer
<1>5. CASE ConfirmSend
  <2>1. typed("send") => [line |-> "send", at |-> at, on |-> shown] \in ToSet(heard')
    BY <1>5, Answered DEF Words, ConfirmSend
  <2> QED
    BY <1>5, <2>1 DEF ConfirmSend, AfterOffer
<1>6. ASSUME NEW f \in {"html", "json"}, Render(f) \/ WriteFileFails(f) \/ Replace(f)
      PROVE  AskInv'
  <2>1. Writing[f] \in {"write html", "write json"} /\ Writing["json"] = "write json"
    BY <1>6, FilesWritten
  <2> QED
    BY <1>6, <2>1 DEF Render, WriteFileFails, Replace, runVars
<1>7. ASSUME NEW to \in {"assist", "report"}, Offer(to) PROVE AskInv'
  <2>1. CASE shown' = shown /\ at' \in {"report", "return"}
    BY <1>7, <2>1 DEF Offer
  <2>2. CASE Asked(to) /\ shown' = [to |-> to, body |-> redacted] /\ Goto("confirm send")
    <3>1. shown'.to \in {"assist", "report"} /\ step' = step
      BY <1>7, <2>2 DEF Offer
    <3> QED
      BY <2>2, <3>1
  <2> QED
    BY <1>7, <2>1, <2>2 DEF Offer, AfterOffer
<1>8. CASE PlanFix
  <2>1. CASE Return("error") /\ shown' = shown /\ step' = step
    BY <2>1
  <2>2. ASSUME NEW plan \in Plans, Describe(plan),
               IF Applicable(plan) /\ ~Asked("dry-run") THEN Goto("confirm fix") ELSE Return("ok")
        PROVE  AskInv'
    <3>1. step' = step + 1 /\ shown' = plan /\ Plans = PlanOf(step + 1)
      BY <2>2 DEF Plans, PlanOf, Describe
    <3>2. step' \in Nat /\ shown' \in PlanOf(step')
      BY <2>2, <3>1
    <3> QED
      BY <2>2, <3>1, <3>2 DEF PlanOf
  <2> QED
    BY <1>8, <2>1, <2>2 DEF PlanFix
<1>9. CASE NextStep
  <2>1. CASE shown' = shown /\ at' \in {"return", "wizard"} /\ step' \in Nat
    BY <2>1
  <2>2. ASSUME NEW plan \in Plans, Describe(plan),
               Goto(IF Applicable(plan) THEN "confirm fix" ELSE "wizard")
        PROVE  AskInv'
    <3>1. step' = step + 1 /\ shown' = plan /\ Plans = PlanOf(step + 1)
      BY <2>2 DEF Plans, PlanOf, Describe
    <3>2. step' \in Nat /\ shown' \in PlanOf(step')
      BY <2>2, <3>1
    <3> QED
      BY <2>2, <3>1, <3>2 DEF PlanOf
  <2> QED
    <3>1. CASE step = 0 /\ Return("error") /\ UNCHANGED <<workVars, fileVars>>
      BY <2>1, <3>1
    <3>2. CASE step = MaxSteps /\ Return("ok") /\ UNCHANGED <<workVars, fileVars>>
      BY <2>1, <3>2
    <3>3. CASE step' = step + 1 /\ Goto("wizard") /\ UNCHANGED <<snap, shown, done, fileVars>>
      BY <2>1, <3>3
    <3> QED
      BY <1>9, <2>2, <3>1, <3>2, <3>3 DEF NextStep
<1>10. CASE ConfirmFix
  <2>1. typed("id") => [line |-> "id", at |-> at, on |-> shown] \in ToSet(heard')
    BY <1>10, Answered DEF Words, ConfirmFix
  <2> QED
    BY <1>10, <2>1 DEF ConfirmFix, AfterFix
<1>11. CASE ConfirmNoRestore
  <2>1. typed("yes") => [line |-> "yes", at |-> at, on |-> shown] \in ToSet(heard')
    BY <1>11, Answered DEF Words, ConfirmNoRestore
  <2> QED
    BY <1>11, <2>1 DEF ConfirmNoRestore
<1>12. CASE Apply \/ RestorePoint \/ RunFix \/ FixRefused \/ FixEnds \/ Rollback
  BY <1>12 DEF Apply, RestorePoint, RunFix, FixRefused, FixEnds, Rollback, AfterFix
<1>13. CASE ConfirmUndo
  <2>1. typed("undo") => [line |-> "undo", at |-> at, on |-> shown] \in ToSet(heard')
    BY <1>13, Answered DEF Words, ConfirmUndo
  <2> QED
    BY <1>13, <2>1 DEF ConfirmUndo
<1>14. CASE ConfirmRemote
  <2>1. typed("allow") => [line |-> "allow", at |-> at, on |-> shown] \in ToSet(heard')
    BY <1>14, Answered DEF Words, ConfirmRemote
  <2> QED
    BY <1>14, <2>1 DEF ConfirmRemote
<1>15. CASE PlanRemote \/ Launch \/ RecordSession \/ WaitForEnter
  BY <1>15 DEF PlanRemote, Launch, RecordSession, WaitForEnter
<1>16. CASE Page \/ Interrupt \/ Kill
  BY <1>16 DEF Page, serveUI, ServerEnds, CloseWindow, Served, Interrupt, Kill, runVars
<1> QED
  BY <1>1, <1>2, <1>3, <1>4, <1>5, <1>6, <1>7, <1>8, <1>9, <1>10, <1>11, <1>12, <1>13, <1>14,
     <1>15, <1>16 DEF Next, Run, Reports, Repairs, RemoteHelp

-----------------------------------------------------------------------------
\* The lines at the two ends of a log.
Ends == {"AGENT_START", "AGENT_STOP"}

\* The log is what it was, followed by what is new.
Grows ==
    /\ IsSeq(log')
    /\ DOMAIN log = 1..Len(log) /\ Len(log) \in Nat
    /\ DOMAIN log' = 1..Len(log') /\ Len(log') \in Nat
    /\ Len(log) <= Len(log')
    /\ \A i \in 1..Len(log) : log'[i] = log[i]
    /\ ToSet(log) \subseteq ToSet(log')

\* Nothing new is an end.
Amid == \A i \in Len(log) + 1 .. Len(log') : log'[i].type \notin Ends

\* A step that writes nothing.
LEMMA NoLine ==
    ASSUME IsSeq(log), log' = log PROVE Grows /\ Amid
<1>1. DOMAIN log = 1..Len(log) /\ Len(log) \in Nat
  BY DEF IsSeq
<1> QED
  BY <1>1 DEF Grows, Amid

\* A step that writes a line.
LEMMA OneLine ==
    ASSUME IsSeq(log), NEW type, NEW of, log' = Append(log, Line(type, of))
    PROVE  /\ Grows /\ Len(log') = Len(log) + 1
           /\ log'[Len(log')] = Line(type, of)
           /\ Line(type, of) \in ToSet(log')
           /\ type \notin Ends => Amid
<1>1. /\ IsSeq(log') /\ ToSet(log') = ToSet(log) \cup {Line(type, of)}
      /\ DOMAIN log = 1..Len(log) /\ Len(log) \in Nat
      /\ DOMAIN log' = 1..Len(log) + 1
      /\ Len(log') = Len(log) + 1
      /\ \A i \in 1..Len(log) : log'[i] = log[i]
      /\ log'[Len(log) + 1] = Line(type, of)
  BY AppendKeeps
<1>2. Line(type, of).type = type
  BY DEF Line
<1> QED
  BY <1>1, <1>2 DEF Grows, Amid

\* A step that writes some lines.
LEMMA MoreLines ==
    ASSUME IsSeq(log), NEW more, IsSeq(more), log' = log \o more,
           \A l \in ToSet(more) : l.type \notin Ends
    PROVE  Grows /\ Amid /\ ToSet(log') = ToSet(log) \cup ToSet(more)
<1>1. /\ IsSeq(log') /\ ToSet(log') = ToSet(log) \cup ToSet(more)
      /\ DOMAIN log = 1..Len(log) /\ Len(log) \in Nat
      /\ DOMAIN more = 1..Len(more) /\ Len(more) \in Nat
      /\ DOMAIN log' = 1..Len(log) + Len(more)
      /\ Len(log') = Len(log) + Len(more)
      /\ \A i \in 1..Len(log) : log'[i] = log[i]
      /\ \A i \in 1..Len(more) : log'[Len(log) + i] = more[i]
  <2> DEFINE both == log \o more
  <2>1. /\ IsSeq(both) /\ ToSet(both) = ToSet(log) \cup ToSet(more)
        /\ DOMAIN log = 1..Len(log) /\ Len(log) \in Nat
        /\ DOMAIN more = 1..Len(more) /\ Len(more) \in Nat
        /\ DOMAIN both = 1..Len(log) + Len(more)
        /\ Len(both) = Len(log) + Len(more)
        /\ \A i \in 1..Len(log) : both[i] = log[i]
        /\ \A i \in 1..Len(more) : both[Len(log) + i] = more[i]
    BY ConcatKeeps
  <2>2. log' = both
    OBVIOUS
  <2> QED
    BY <2>1, <2>2
<1>2. Amid
  <2> SUFFICES ASSUME NEW i \in Len(log) + 1 .. Len(log') PROVE log'[i].type \notin Ends
    BY DEF Amid
  <2>1. PICK j \in 1..Len(more) : i = Len(log) + j
    <3>1. i - Len(log) \in 1..Len(more) /\ i = Len(log) + (i - Len(log))
      BY <1>1
    <3> QED
      BY <3>1
  <2>2. log'[i] = more[j] /\ more[j] \in ToSet(more)
    BY <1>1, <2>1 DEF ToSet
  <2> QED
    BY <2>2
<1> QED
  BY <1>1, <1>2 DEF Grows

\* A step that writes two lines.
LEMMA TwoLines ==
    ASSUME IsSeq(log), NEW t1, NEW t2, t1 \notin Ends, t2 \notin Ends, NEW of,
           log' = log \o <<Line(t1, of), Line(t2, of)>>
    PROVE  Grows /\ Amid /\ {Line(t1, of), Line(t2, of)} \subseteq ToSet(log')
<1> DEFINE more == <<Line(t1, of), Line(t2, of)>>
<1>1. IsSeq(more) /\ ToSet(more) = {Line(t1, of), Line(t2, of)}
  BY TupleIsSeq
<1>2. \A l \in ToSet(more) : l.type \notin Ends
  <2>1. Line(t1, of).type = t1 /\ Line(t2, of).type = t2
    BY DEF Line
  <2> QED
    BY <1>1, <2>1
<1> HIDE DEF more
<1>3. Grows /\ Amid /\ ToSet(log') = ToSet(log) \cup ToSet(more)
  BY <1>1, <1>2, MoreLines DEF more
<1> QED
  BY <1>1, <1>3

\* Checks that were cut short keep their place and their ID.
LEMMA UnreadKeeps ==
    ASSUME NEW s \in Snapshots, NEW cut \in SUBSET DOMAIN s.results
    PROVE  /\ s \in Report /\ Unread(s, cut) \in Report
           /\ DOMAIN Unread(s, cut).results = DOMAIN s.results
           /\ \A i \in DOMAIN s.results :
                 Unread(s, cut).results[i].CheckID = s.results[i].CheckID
<1>1. s \in Report
  BY SnapshotAssumption
<1> DEFINE of(i) == IF i \in cut
                    THEN [s.results[i] EXCEPT !.severity = "unknown", !.detail = <<>>, !.args = <<>>]
                    ELSE s.results[i]
           u == [i \in DOMAIN s.results |-> of(i)]
<1>2. Unread(s, cut) = [s EXCEPT !.results = u]
  BY DEF Unread
<1>3. /\ s.results \in Seq(Result) /\ s.skipped \in SUBSET STRING
      /\ s = [results |-> s.results, skipped |-> s.skipped]
  BY <1>1 DEF Report
<1>4. Len(s.results) \in Nat /\ DOMAIN s.results = 1..Len(s.results)
  BY <1>3
<1>5. ASSUME NEW i \in DOMAIN s.results
      PROVE  of(i) \in Result /\ of(i).CheckID = s.results[i].CheckID
  <2>1. s.results[i] \in Result
    BY <1>3, <1>5
  <2>2. "unknown" \in Severities /\ <<>> \in Seq(Leaf)
    BY DEF Severities
  <2> QED
    BY <2>1, <2>2 DEF Result
<1>6. u \in [1..Len(s.results) -> Result]
  BY <1>4, <1>5
<1>7. u \in Seq(Result)
  <2> HIDE DEF u
  <2> QED
    BY <1>4, <1>6, SeqDef
<1>8. Unread(s, cut).results = u /\ Unread(s, cut).skipped = s.skipped
      /\ Unread(s, cut) = [results |-> u, skipped |-> s.skipped]
  BY <1>2, <1>3
<1>9. Unread(s, cut) \in Report
  BY <1>3, <1>7, <1>8 DEF Report
<1> QED
  BY <1>1, <1>5, <1>8, <1>9

\* takeSnapshot writes a line for every check.
LEMMA Checked ==
    ASSUME IsSeq(log), takeSnapshot
    PROVE  /\ Grows /\ Amid
           /\ \A r \in ToSet(snap'.results) : Line("CHECK_RUN", <<r.CheckID>>) \in ToSet(log')
<1>0. PICK s \in Snapshots : \E cut \in SUBSET DOMAIN s.results :
         /\ snap' = Unread(s, cut)
         /\ log' = log \o [i \in DOMAIN s.results |-> Line("CHECK_RUN", <<s.results[i].CheckID>>)]
  BY DEF takeSnapshot
<1>1. PICK cut \in SUBSET DOMAIN s.results :
         /\ snap' = Unread(s, cut)
         /\ log' = log \o [i \in DOMAIN s.results |-> Line("CHECK_RUN", <<s.results[i].CheckID>>)]
  BY <1>0
<1> DEFINE more == [i \in DOMAIN s.results |-> Line("CHECK_RUN", <<s.results[i].CheckID>>)]
<1>2. /\ Len(s.results) \in Nat /\ DOMAIN s.results = 1..Len(s.results)
      /\ DOMAIN snap'.results = DOMAIN s.results
      /\ \A i \in DOMAIN s.results : snap'.results[i].CheckID = s.results[i].CheckID
  <2>1. s.results \in Seq(Result)
    BY SnapshotAssumption DEF Report
  <2> QED
    BY <1>1, <2>1, UnreadKeeps
<1>3. IsSeq(more) /\ DOMAIN more = DOMAIN s.results
  BY <1>2, FunctionIsSeq
<1>4. \A l \in ToSet(more) : l.type \notin Ends
  BY <1>3 DEF ToSet, Line, Ends
<1>5. \A i \in DOMAIN s.results : Line("CHECK_RUN", <<s.results[i].CheckID>>) \in ToSet(more)
  BY <1>3 DEF ToSet
<1>6. Grows /\ Amid /\ ToSet(log') = ToSet(log) \cup ToSet(more)
  <2> HIDE DEF more
  <2> QED
    BY <1>1, <1>3, <1>4, MoreLines DEF more
<1>7. ASSUME NEW r \in ToSet(snap'.results)
      PROVE  Line("CHECK_RUN", <<r.CheckID>>) \in ToSet(log')
  <2>1. PICK i \in DOMAIN s.results : snap'.results[i] = r
    BY <1>2, <1>7 DEF ToSet
  <2> QED
    BY <1>2, <1>5, <1>6, <2>1
<1> QED
  BY <1>6, <1>7

\* A step that writes one line or none.
LEMMA Written ==
    ASSUME IsSeq(log), NEW type, type \notin Ends, NEW of, Writes(type, of)
    PROVE  Grows /\ Amid /\ Line(type, of) \in ToSet(log')
BY OneLine DEF Writes

\* No step takes a line back.
LEMMA LogGrows ==
    ASSUME IsSeq(log), [Next]_vars
    PROVE  Grows /\ (AgentStart \/ AgentStop \/ Amid)
<1> USE DEF fileVars
<1>1. CASE UNCHANGED vars \/ Parse \/ OpenLog \/ List \/ Page \/ Interrupt \/ Kill
  BY <1>1, NoLine DEF vars, Parse, OpenLog, List, Page, serveUI, ServerEnds,
                      CloseWindow, Served, Interrupt, Kill
<1>2. CASE AgentStart \/ AgentStop
  BY <1>2, NoLine, OneLine DEF AgentStart, AgentStop, Writes
<1>3. CASE takeSnapshot
  BY <1>3, Checked
<1>4. CASE ProfileRefused \/ writeJSON \/ writeMonthly \/ writeTicket \/ writeText \/ ConfirmSend
  BY <1>4, NoLine DEF ProfileRefused, writeJSON, writeMonthly, writeTicket, writeText,
                      ConfirmSend
<1>5. CASE measureProfile \/ finishTicket \/ Send
  BY <1>5, NoLine, OneLine, Written DEF measureProfile, finishTicket, Send, Ends
<1>6. ASSUME NEW f, Render(f) \/ WriteFileFails(f) \/ Replace(f)
      PROVE  Grows /\ Amid
  BY <1>6, NoLine, OneLine DEF Render, WriteFileFails, Replace, Ends
<1>7. ASSUME NEW to, Offer(to) PROVE Grows /\ Amid
  BY <1>7, NoLine DEF Offer
<1>8. ASSUME NEW plan, Describe(plan) PROVE Grows /\ Amid
  BY <1>8, TwoLines DEF Describe, Ends
<1>9. CASE PlanFix \/ NextStep
  BY <1>8, <1>9, NoLine DEF PlanFix, NextStep
<1>10. CASE ConfirmFix \/ ConfirmNoRestore \/ RunFix \/ ConfirmUndo
  BY <1>10, NoLine DEF ConfirmFix, ConfirmNoRestore, RunFix, ConfirmUndo
<1>11. CASE Apply \/ RestorePoint \/ FixRefused \/ FixEnds \/ Rollback
  BY <1>11, Written DEF Apply, RestorePoint, FixRefused, FixEnds, Rollback, Ends
<1>12. CASE PlanRemote \/ ConfirmRemote \/ Launch \/ WaitForEnter
  BY <1>12, NoLine, Written DEF PlanRemote, ConfirmRemote, Launch, WaitForEnter, Ends
<1>13. CASE RecordSession
  BY <1>13, TwoLines DEF RecordSession, Ends
<1> QED
  BY <1>1, <1>2, <1>3, <1>4, <1>5, <1>6, <1>7, <1>9, <1>10, <1>11, <1>12, <1>13
  DEF Next, Run, Frame, Reports, Repairs, RemoteHelp

LEMMA GateInit == Init => GateInv
BY DEF Init, GateInv, Granted

\* The gate records consent, then the restore point, then lets the fix run.
LEMMA GateStep == GateInv /\ StageInv /\ IsSeq(log) /\ [Next]_vars => GateInv'
<1> SUFFICES ASSUME GateInv, StageInv, IsSeq(log), [Next]_vars PROVE GateInv'
  OBVIOUS
<1>0. ToSet(log) \subseteq ToSet(log')
  BY LogGrows DEF Grows
<1> USE <1>0 DEF GateInv, Granted, Logged, At, Goto, Return, Leave, workVars, Fix
<1>1. CASE UNCHANGED vars
  BY <1>1 DEF vars
<1>2. CASE Frame
  BY <1>2 DEF Frame, Parse, OpenLog, List, AgentStart, AgentStop, StageInv, Work
<1>3. CASE ProfileRefused \/ takeSnapshot \/ writeJSON \/ measureProfile \/ writeMonthly
  BY <1>3 DEF ProfileRefused, takeSnapshot, writeJSON, measureProfile, writeMonthly,
              runVars, Writing
<1>4. CASE writeTicket \/ finishTicket \/ writeText \/ ConfirmSend \/ Send
  BY <1>4 DEF writeTicket, finishTicket, writeText, ConfirmSend, Send, AfterOffer
<1>5. ASSUME NEW f \in {"html", "json"}, Render(f) \/ WriteFileFails(f) \/ Replace(f)
      PROVE  GateInv'
  <2>1. Writing[f] \in {"write html", "write json"} /\ Writing["json"] = "write json"
    BY <1>5, FilesWritten
  <2> QED
    BY <1>5, <2>1 DEF Render, WriteFileFails, Replace, runVars
<1>6. ASSUME NEW to \in {"assist", "report"}, Offer(to) PROVE GateInv'
  BY <1>6 DEF Offer, AfterOffer
<1>7. CASE PlanFix \/ NextStep \/ ConfirmFix \/ ConfirmNoRestore
  BY <1>7 DEF PlanFix, NextStep, ConfirmFix, ConfirmNoRestore, AfterFix
<1>8. CASE Apply
  <2>1. Line("CONSENT_GIVEN", Fix(shown)) \in ToSet(log')
    BY <1>8, Written DEF Apply, Ends
  <2> QED
    BY <1>8, <2>1 DEF Apply, AfterFix
<1>9. CASE RestorePoint
  <2>1. ~cancelled /\ Goto("run fix") /\ Writes("RESTORE_POINT", Fix(shown))
           => Line("RESTORE_POINT", Fix(shown)) \in ToSet(log')
    BY Written DEF Ends
  <2> QED
    BY <1>9, <2>1 DEF RestorePoint, AfterFix
<1>10. CASE RunFix \/ FixRefused \/ FixEnds \/ ConfirmUndo \/ Rollback
  BY <1>10 DEF RunFix, FixRefused, FixEnds, ConfirmUndo, Rollback, AfterFix
<1>11. CASE RemoteHelp \/ Page \/ Interrupt \/ Kill
  BY <1>11 DEF RemoteHelp, Page, PlanRemote, ConfirmRemote, Launch, RecordSession,
               WaitForEnter, serveUI, ServerEnds, CloseWindow, Served, Interrupt, Kill,
               runVars
<1> QED
  BY <1>1, <1>2, <1>3, <1>4, <1>5, <1>6, <1>7, <1>8, <1>9, <1>10, <1>11
  DEF Next, Run, Reports, Repairs

-----------------------------------------------------------------------------
\* What was allowed stays allowed.
LEMMA AllowedStays ==
    ASSUME IsSeq(heard), IsSeq(log), [Next]_vars, NEW e, Allowed(e)
    PROVE  Allowed(e)'
<1>1. /\ start' = start
      /\ ToSet(heard) \subseteq ToSet(heard')
      /\ ToSet(log) \subseteq ToSet(log')
  BY StartStays, HeardGrows, LogGrows DEF Grows
<1> QED
  BY <1>1 DEF Allowed, Said, Logged, Asked, opts, Mode

\* A step that does nothing leaves behind what is behind.
LEMMA NothingDone ==
    ASSUME DoneInv, IsSeq(heard), IsSeq(log), [Next]_vars, done' = done,
           \A e \in ToSet(done) : Past(e) => Past(e)'
    PROVE  DoneInv'
BY AllowedStays DEF DoneInv

\* A step that does one thing more, which was allowed and is new.
LEMMA OneDone ==
    ASSUME DoneInv, IsSeq(heard), IsSeq(log), [Next]_vars,
           NEW e, done' = Append(done, e), e \notin ToSet(done),
           \A d \in ToSet(done) : Past(d) => Past(d)',
           Allowed(e)', Past(e)'
    PROVE  DoneInv'
<1>1. /\ IsSeq(done') /\ ToSet(done') = ToSet(done) \cup {e}
      /\ DOMAIN done = 1..Len(done) /\ Len(done) \in Nat
      /\ DOMAIN done' = 1..Len(done) + 1
      /\ \A i \in 1..Len(done) : done'[i] = done[i]
      /\ done'[Len(done) + 1] = e
  BY AppendKeeps DEF DoneInv
<1>2. \A d \in ToSet(done') : Allowed(d)' /\ Past(d)'
  BY <1>1, AllowedStays DEF DoneInv
<1>3. ASSUME NEW i \in DOMAIN done', NEW j \in 1..i - 1 PROVE done'[j] # done'[i]
  <2>1. CASE i = Len(done) + 1
    <3>1. j \in DOMAIN done /\ done'[j] = done[j]
      BY <1>1, <2>1
    <3>2. done[j] \in ToSet(done)
      BY <3>1 DEF ToSet
    <3> QED
      BY <1>1, <2>1, <3>1, <3>2
  <2>2. CASE i \in 1..Len(done)
    <3>1. i \in DOMAIN done /\ j \in 1..Len(done) /\ done[j] # done[i]
      BY <1>1, <2>2 DEF DoneInv
    <3> QED
      BY <1>1, <2>2, <3>1
  <2> QED
    BY <1>1, <2>1, <2>2
<1> QED
  BY <1>1, <1>2, <1>3 DEF DoneInv

\* The next plan has a number no earlier one has.
LEMMA NextNumber ==
    ASSUME NEW m \in Nat
    PROVE  m \in 0..m /\ \A n \in 0..m : n \in 0..m + 1 /\ n # m + 1
OBVIOUS

\* The word of each question.
LEMMA Answers ==
    /\ Answer["run"][1] = "id" /\ Answer["run"][2] = "confirm fix"
    /\ Answer["undo"][1] = "undo" /\ Answer["undo"][2] = "confirm undo"
    /\ Answer["send"][1] = "send" /\ Answer["send"][2] = "confirm send"
    /\ Answer["launch"][1] = "allow" /\ Answer["launch"][2] = "confirm remote"
BY DEF Answer

LEMMA DoneInit == Init => DoneInv
BY TupleIsSeq DEF Init, DoneInv

\* Nothing is done without its answer, or twice.
LEMMA DoneStep ==
    ASSUME StageInv, AskInv, GateInv, DoneInv, IsSeq(log), [Next]_vars
    PROVE  DoneInv'
<1>0. /\ IsSeq(heard) /\ step \in Nat
      /\ start' = start
      /\ ToSet(heard) \subseteq ToSet(heard')
      /\ ToSet(log) \subseteq ToSet(log')
  BY StartStays, HeardGrows, LogGrows DEF Grows, AskInv
<1>a. \A e \in ToSet(done) : Past(e)
  BY DEF DoneInv
<1> USE <1>0, <1>a DEF Past, Final, At, Goto, Return, Leave, workVars
<1>1. CASE UNCHANGED vars
  BY <1>1, NothingDone DEF vars
<1>2. CASE Frame
  <2>1. done' = done /\ \A e \in ToSet(done) : Past(e)'
    BY <1>2 DEF Frame, Parse, OpenLog, List, AgentStart, AgentStop, StageInv, Work
  <2> QED
    BY <2>1, NothingDone
<1>3. CASE ProfileRefused \/ takeSnapshot \/ writeJSON \/ measureProfile \/ writeMonthly
  <2>1. done' = done /\ \A e \in ToSet(done) : Past(e)'
    BY <1>3, FilesWritten DEF ProfileRefused, takeSnapshot, writeJSON, measureProfile,
            writeMonthly, runVars
  <2> QED
    BY <2>1, NothingDone
<1>4. CASE writeTicket \/ finishTicket \/ writeText \/ ConfirmSend
  <2>1. done' = done /\ \A e \in ToSet(done) : Past(e)'
    BY <1>4 DEF writeTicket, finishTicket, writeText, ConfirmSend, AfterOffer, AskInv
  <2> QED
    BY <2>1, NothingDone
<1>5. ASSUME NEW f \in {"html", "json"}, Render(f) \/ WriteFileFails(f) \/ Replace(f)
      PROVE  DoneInv'
  <2>1. Writing[f] \in {"write html", "write json"} /\ Writing["json"] = "write json"
    BY <1>5, FilesWritten
  <2>2. done' = done /\ \A e \in ToSet(done) : Past(e)'
    BY <1>5, <2>1 DEF Render, WriteFileFails, Replace, runVars
  <2> QED
    BY <2>2, NothingDone
<1>6. ASSUME NEW to \in {"assist", "report"}, Offer(to) PROVE DoneInv'
  <2>1. done' = done /\ \A e \in ToSet(done) : Past(e)'
    <3>1. CASE to = "assist"
      BY <1>6, <3>1 DEF Offer, AfterOffer
    <3>2. CASE to = "report" /\ shown' = shown /\ at' = "return"
      BY <1>6, <3>2 DEF Offer
    <3>3. CASE to = "report" /\ shown' = [to |-> to, body |-> redacted] /\ Goto("confirm send")
      <4>1. shown'.to = "report"
        BY <3>3
      <4> QED
        BY <1>6, <3>3, <4>1 DEF Offer
    <3> QED
      BY <1>6, <3>1, <3>2, <3>3 DEF Offer, AfterOffer
  <2> QED
    BY <2>1, NothingDone
<1>7. CASE PlanFix \/ NextStep
  <2>1. done' = done /\ \A e \in ToSet(done) : Past(e)'
    <3>1. CASE at' \in {"return", "wizard"} /\ step' = step
      BY <1>7, <3>1 DEF PlanFix, NextStep, Describe
    <3>2. CASE step' = step + 1
      <4>1. \A n \in 0..step : n \in 0..step' /\ n # step'
        BY <3>2, NextNumber
      <4> QED
        BY <1>7, <3>2, <4>1 DEF PlanFix, NextStep, Describe
    <3> QED
      BY <1>7, <3>1, <3>2 DEF PlanFix, NextStep, Describe
  <2> QED
    BY <2>1, NothingDone
<1>8. CASE ConfirmFix \/ ConfirmNoRestore \/ Apply \/ RestorePoint \/ FixRefused \/ FixEnds
          \/ ConfirmUndo
  <2>1. done' = done /\ \A e \in ToSet(done) : Past(e)'
    BY <1>8 DEF ConfirmFix, ConfirmNoRestore, Apply, RestorePoint, FixRefused, FixEnds,
                ConfirmUndo, AfterFix
  <2> QED
    BY <2>1, NothingDone
<1>9. CASE PlanRemote \/ ConfirmRemote \/ RecordSession \/ WaitForEnter
  <2>1. done' = done /\ \A e \in ToSet(done) : Past(e)'
    BY <1>9 DEF PlanRemote, ConfirmRemote, RecordSession, WaitForEnter
  <2> QED
    BY <2>1, NothingDone
<1>10. CASE Page \/ Interrupt \/ Kill
  <2>1. done' = done /\ \A e \in ToSet(done) : Past(e)'
    BY <1>10 DEF Page, serveUI, ServerEnds, CloseWindow, Served, Interrupt, Kill,
                 runVars
  <2> QED
    BY <2>1, NothingDone
<1>11. CASE Send
  <2>1. /\ at = "send" /\ shown' = shown
        /\ shown.to \in {"assist", "report"} /\ Said("send", "confirm send", shown)
    BY <1>11 DEF Send, AskInv
  <2>2. \A e \in ToSet(done) : Past(e)'
    BY <1>11, <2>1 DEF Send, AfterOffer
  <2>3. CASE done' = done
    BY <2>2, <2>3, NothingDone
  <2>4. CASE Did("send") /\ (AfterOffer(shown.to) \/ Return("error"))
    <3>1. PICK e : e = [what |-> "send", on |-> shown]
      OBVIOUS
    <3>2. e.what = "send" /\ e.on = shown /\ done' = Append(done, e)
      BY <2>4, <3>1 DEF Did
    <3>3. e \notin ToSet(done)
      BY <2>1, <3>2
    <3>4. Allowed(e)'
      BY <2>1, <3>2, Answers DEF Allowed, Said
    <3>5. Past(e)'
      BY <2>1, <2>4, <3>2 DEF AfterOffer
    <3> QED
      BY <2>2, <3>2, <3>3, <3>4, <3>5, OneDone
  <2> QED
    BY <1>11, <2>3, <2>4 DEF Send
<1>12. CASE RunFix
  <2>1. /\ at = "run fix" /\ at' = "running fix" /\ shown' = shown /\ step' = step
        /\ shown \in PlanOf(step) /\ Applicable(shown)
        /\ Said("id", "confirm fix", shown) /\ ~Asked("dry-run")
        /\ Mode = "fix" /\ ~shown.restore => Said("yes", "confirm no restore", shown)
        /\ shown.restore => Logged("RESTORE_POINT", Fix(shown))
    BY <1>12 DEF RunFix, AskInv, GateInv, ShownStages, Offered, Granted
  <2>2. \A e \in ToSet(done) : Past(e)'
    BY <1>12, <2>1 DEF RunFix
  <2>3. PICK e : e = [what |-> "run", on |-> shown]
    OBVIOUS
  <2>4. e.what = "run" /\ e.on = shown /\ done' = Append(done, e)
    BY <1>12, <2>3 DEF RunFix, Did
  <2>5. shown.n = step /\ step \in 0..step
    BY <2>1, NextNumber DEF PlanOf
  <2>6. e \notin ToSet(done)
    BY <2>1, <2>4, <2>5
  <2>7. Allowed(e)'
    BY <2>1, <2>4, Answers DEF Allowed, Said, Asked, opts, Mode, Logged, Applicable
  <2>8. Past(e)'
    BY <2>1, <2>4, <2>5
  <2> QED
    BY <2>2, <2>4, <2>6, <2>7, <2>8, OneDone
<1>13. CASE Rollback
  <2>1. /\ at = "undo" /\ at' = "return" /\ shown' = shown /\ step' = step
        /\ Said("undo", "confirm undo", shown) /\ ~Asked("dry-run")
    BY <1>13 DEF Rollback, AskInv, Granted
  <2>2. \A e \in ToSet(done) : Past(e)'
    BY <1>13, <2>1 DEF Rollback
  <2>3. PICK e : e = [what |-> "undo", on |-> shown]
    OBVIOUS
  <2>4. e.what = "undo" /\ e.on = shown /\ done' = Append(done, e)
    BY <1>13, <2>3 DEF Rollback, Did
  <2>5. e \notin ToSet(done)
    BY <2>1, <2>4
  <2>6. Allowed(e)'
    BY <2>1, <2>4, Answers DEF Allowed, Said, Asked, opts
  <2>7. Past(e)'
    BY <2>1, <2>4
  <2> QED
    BY <2>2, <2>4, <2>5, <2>6, <2>7, OneDone
<1>14. CASE Launch
  <2>1. /\ at = "launch" /\ at' = "record session" /\ shown' = shown /\ step' = step
        /\ Said("allow", "confirm remote", shown) /\ ~Asked("dry-run")
    BY <1>14 DEF Launch, AskInv
  <2>2. \A e \in ToSet(done) : Past(e)'
    BY <1>14, <2>1 DEF Launch
  <2>3. CASE done' = done
    BY <2>2, <2>3, NothingDone
  <2>4. CASE Did("launch")
    <3>1. PICK e : e = [what |-> "launch", on |-> shown]
      OBVIOUS
    <3>2. e.what = "launch" /\ e.on = shown /\ done' = Append(done, e)
      BY <2>4, <3>1 DEF Did
    <3>3. e \notin ToSet(done)
      BY <2>1, <3>2
    <3>4. Allowed(e)'
      BY <2>1, <3>2, Answers DEF Allowed, Said, Asked, opts
    <3>5. Past(e)'
      BY <2>1, <3>2
    <3> QED
      BY <2>2, <3>2, <3>3, <3>4, <3>5, OneDone
  <2> QED
    BY <1>14, <2>3, <2>4 DEF Launch
<1> QED
  BY <1>1, <1>2, <1>3, <1>4, <1>5, <1>6, <1>7, <1>8, <1>9, <1>10, <1>11, <1>12, <1>13, <1>14
  DEF Next, Run, Reports, Repairs, RemoteHelp

-----------------------------------------------------------------------------
\* The five ways a step may move the frame of a run: it has not started to write the log,
\* it starts to, it works, it ends the log, or it is over.
Before == at \in Early /\ at' \in Early \cup {"over"} /\ UNCHANGED <<log, done, snap>>
Starting ==
    /\ at = "start" /\ at' \in Work /\ exit' = exit
    /\ log' = Append(log, Line("AGENT_START", <<Mode>>)) /\ UNCHANGED <<done, snap>>
Working ==
    /\ at \notin Early \cup {"over"} /\ at' \notin Early \cup {"over"}
    /\ exit' \in {exit, "killed"} /\ Amid
Stopping ==
    /\ at = "return" /\ at' = "over"
    /\ log' = Append(log, Line("AGENT_STOP", <<Mode>>)) /\ UNCHANGED <<done, snap>>
After == at = "over" /\ at' = "over" /\ exit' \in {exit, "killed"} /\ UNCHANGED <<log, done, snap>>

\* Every step is one of them.
LEMMA Moves ==
    ASSUME StageInv, IsSeq(log), [Next]_vars
    PROVE  Before \/ Starting \/ Working \/ Stopping \/ After
<1> DEFINE Goal == Before \/ Starting \/ Working \/ Stopping \/ After
<1>0. Grows /\ (AgentStart \/ AgentStop \/ Amid)
  BY LogGrows
<1>a. log' = log => Amid
  BY NoLine
<1>b. at \in Stages /\ (at = "start" => Mode \in Work)
  BY DEF StageInv
<1> USE <1>0, <1>b DEF Early, At, Goto, Return, Leave, workVars, fileVars
<1>1. CASE Frame
  BY <1>1, <1>a DEF Before, Starting, Stopping, After, Frame, Parse, OpenLog, List,
                    AgentStart, AgentStop, Writes, Work
<1>2. CASE UNCHANGED vars \/ Interrupt \/ Kill
  BY <1>2, <1>a DEF Before, Working, After, vars, Interrupt, Kill
<1>3. ASSUME ~AgentStart, ~AgentStop, ~Interrupt, ~Kill,
             \/ Reports \/ Repairs \/ RemoteHelp \/ Page
      PROVE  Working
  <2>1. CASE ProfileRefused \/ takeSnapshot \/ writeJSON \/ measureProfile \/ writeMonthly
    BY <1>3, <2>1, FilesWritten DEF ProfileRefused, takeSnapshot, writeJSON,
            measureProfile, writeMonthly, runVars, SnapshotModes, Working
  <2>2. CASE writeTicket \/ finishTicket \/ writeText \/ ConfirmSend \/ Send
    BY <1>3, <2>2 DEF writeTicket, finishTicket, writeText, ConfirmSend, Send,
                      AfterOffer, Working
  <2>3. ASSUME NEW f \in {"html", "json"}, Render(f) \/ WriteFileFails(f) \/ Replace(f)
        PROVE  Working
    <3>1. Writing[f] \in {"write html", "write json"} /\ Writing["json"] = "write json"
      BY <2>3, FilesWritten
    <3> QED
      BY <1>3, <2>3, <3>1 DEF Render, WriteFileFails, Replace, runVars, Working
  <2>4. ASSUME NEW to \in {"assist", "report"}, Offer(to) PROVE Working
    BY <1>3, <2>4 DEF Offer, AfterOffer, Working
  <2>5. CASE Repairs
    BY <1>3, <2>5 DEF Repairs, PlanFix, NextStep, ConfirmFix, ConfirmNoRestore, Apply,
                      RestorePoint, RunFix, FixRefused, FixEnds, ConfirmUndo, Rollback,
                      AfterFix, Working
  <2>6. CASE RemoteHelp \/ Page
    BY <1>3, <2>6 DEF RemoteHelp, Page, PlanRemote, ConfirmRemote, Launch,
                      RecordSession, WaitForEnter, serveUI, ServerEnds, CloseWindow,
                      Served, runVars, Working
  <2> QED
    BY <1>3, <2>1, <2>2, <2>3, <2>4, <2>5, <2>6 DEF Reports
<1> QED
  BY <1>1, <1>2, <1>3 DEF Next, Run, Frame

LEMMA LogInit == Init => LogInv
BY TupleIsSeq, NoneAssumption DEF Init, LogInv, Early

\* The log has its two ends where they belong.
LEMMA FrameStep ==
    ASSUME StageInv, EndInv, LogInv, [Next]_vars
    PROVE  /\ IsSeq(log')
           /\ at' \in Early => log' = <<>> /\ done' = <<>> /\ snap' = None
           /\ at' \notin Early \cup {"over"} => log' # <<>>
           /\ \A i \in DOMAIN log' : log'[i].type = "AGENT_START" <=> i = 1
           /\ \A i \in DOMAIN log' : log'[i].type = "AGENT_STOP" => i = Len(log') /\ at' = "over"
           /\ exit' \in {"ok", "error"} /\ log' # <<>> => log'[Len(log')].type = "AGENT_STOP"
<1>0. IsSeq(log) /\ Grows
  BY LogGrows DEF LogInv
<1>a. (log = <<>> <=> Len(log) = 0) /\ (log' = <<>> <=> Len(log') = 0)
  BY <1>0, EmptyIsEmpty DEF Grows
<1>1. CASE Before
  BY <1>0, <1>1 DEF Before, Grows, LogInv, Early
<1>2. CASE Starting
  <2>1. log = <<>> /\ exit \notin {"ok", "error"}
    BY <1>2 DEF Starting, LogInv, EndInv, Early
  <2>2. /\ Len(log) = 0 /\ Len(log') = 1 /\ DOMAIN log' = 1..1
        /\ log'[1].type = "AGENT_START"
    BY <1>0, <1>a, <1>2, <2>1, OneLine DEF Starting, Grows, Line
  <2> QED
    BY <1>0, <1>a, <1>2, <2>1, <2>2 DEF Starting, Grows, Early, Work
<1>3. CASE Working
  <2>1. /\ log # <<>> /\ Len(log) >= 1 /\ exit \notin {"ok", "error"}
        /\ \A i \in DOMAIN log' : log'[i].type \in Ends => i \in DOMAIN log
    BY <1>0, <1>a, <1>3 DEF Working, LogInv, EndInv, Grows, Amid
  <2> QED
    BY <1>0, <1>a, <1>3, <2>1 DEF Working, Grows, LogInv, Ends
<1>4. CASE Stopping
  <2>1. /\ log # <<>> /\ Len(log) >= 1
        /\ Len(log') = Len(log) + 1 /\ log'[Len(log')].type = "AGENT_STOP"
    BY <1>0, <1>a, <1>4, OneLine DEF Stopping, LogInv, Grows, Line, Early
  <2> QED
    BY <1>0, <1>a, <1>4, <2>1 DEF Stopping, Grows, LogInv, Early
<1>5. CASE After
  BY <1>0, <1>5 DEF After, Grows, LogInv, Early
<1> QED
  BY <1>0, <1>1, <1>2, <1>3, <1>4, <1>5, Moves

\* Every check of the snapshot has its line.
LEMMA ChecksStep ==
    ASSUME LogInv, [Next]_vars
    PROVE  snap' # None =>
              \A r \in ToSet(snap'.results) : Line("CHECK_RUN", <<r.CheckID>>) \in ToSet(log')
<1>0. ToSet(log) \subseteq ToSet(log')
  BY LogGrows DEF LogInv, Grows
<1>1. CASE takeSnapshot
  BY <1>1, Checked DEF LogInv
<1>2. CASE snap' = snap
  BY <1>0, <1>2 DEF LogInv, Logged
<1>3. takeSnapshot \/ snap' = snap
  <2> USE DEF workVars
  <2>1. CASE UNCHANGED vars \/ Frame \/ Interrupt \/ Kill \/ Page
    BY <2>1 DEF vars, Frame, Parse, OpenLog, List, AgentStart, AgentStop, Interrupt,
                Kill, Page, serveUI, ServerEnds, CloseWindow, Served
  <2>2. CASE Reports
    BY <2>2 DEF Reports, ProfileRefused, writeJSON, measureProfile, writeMonthly,
                writeTicket, finishTicket, writeText, ConfirmSend, Send, Render,
                WriteFileFails, Replace, Offer
  <2>3. CASE Repairs
    BY <2>3 DEF Repairs, PlanFix, NextStep, Describe, ConfirmFix, ConfirmNoRestore,
                Apply, RestorePoint, RunFix, FixRefused, FixEnds, ConfirmUndo, Rollback
  <2>4. CASE RemoteHelp
    BY <2>4 DEF RemoteHelp, PlanRemote, ConfirmRemote, Launch, RecordSession,
                WaitForEnter
  <2> QED
    BY <2>1, <2>2, <2>3, <2>4 DEF Next, Run
<1> QED
  BY <1>1, <1>2, <1>3

\* What the log tells it keeps telling.
LEMMA ToldRunStays ==
    ASSUME Grows, NEW plan, ToldRun(plan) PROVE ToldRun(plan)'
<1>1. PICK a \in DOMAIN log, b \in DOMAIN log :
         /\ log[a].type = "CONSENT_GIVEN" /\ log[b].type = "FIX_APPLIED"
         /\ a < b /\ log[a].of = Fix(plan) /\ log[b].of = Fix(plan)
  BY DEF ToldRun, Lines
<1>2. a \in DOMAIN log' /\ b \in DOMAIN log' /\ log'[a] = log[a] /\ log'[b] = log[b]
  BY <1>1 DEF Grows
<1> QED
  BY <1>1, <1>2 DEF ToldRun, Lines, Fix

\* The line that a fix was applied comes after the consent to it.
LEMMA AppliedAfterConsent ==
    ASSUME IsSeq(log), NEW plan, Line("CONSENT_GIVEN", Fix(plan)) \in ToSet(log),
           log' = Append(log, Line("FIX_APPLIED", Fix(plan)))
    PROVE  ToldRun(plan)'
<1>1. PICK a \in DOMAIN log : log[a] = Line("CONSENT_GIVEN", Fix(plan))
  BY DEF ToSet
<1>2. Grows /\ Len(log') = Len(log) + 1 /\ log'[Len(log')] = Line("FIX_APPLIED", Fix(plan))
  BY OneLine
<1>3. /\ a \in DOMAIN log' /\ Len(log') \in DOMAIN log' /\ a < Len(log')
      /\ log'[a] = Line("CONSENT_GIVEN", Fix(plan))
  BY <1>1, <1>2 DEF Grows
<1>4. \A t, o : Line(t, o).type = t /\ Line(t, o).of = o
  BY DEF Line
<1> QED
  BY <1>2, <1>3, <1>4 DEF ToldRun, Lines, Fix

\* A step that does nothing new leaves nothing untold.
LEMMA NothingToTell ==
    ASSUME Grows, NEW e, Recorded(e), e.what = "run" /\ at = "running fix" => at' = at /\ shown' = shown,
           e.what = "launch" /\ at = "record session" => at' = at
    PROVE  Recorded(e)'
<1>1. ToSet(log) \subseteq ToSet(log')
  BY DEF Grows
<1>2. e.what = "run" /\ ToldRun(e.on) => ToldRun(e.on)'
  BY ToldRunStays
<1> QED
  BY <1>1, <1>2 DEF Recorded, Logged, Fix

\* What is done is told by the next step.
LEMMA ToldStep ==
    ASSUME GateInv, DoneInv, LogInv, [Next]_vars
    PROVE  \A e \in ToSet(done') : Recorded(e)'
<1>0. IsSeq(log) /\ Grows /\ ToSet(log) \subseteq ToSet(log')
  BY LogGrows DEF LogInv, Grows
<1>a. \A e \in ToSet(done) : Recorded(e)
  BY DEF LogInv
<1>1. CASE UNCHANGED <<done, at, shown>>
  BY <1>0, <1>a, <1>1, NothingToTell
<1>2. CASE done' = done /\ at \notin {"running fix", "record session"}
  BY <1>0, <1>a, <1>2, NothingToTell
<1>3. CASE FixEnds
  <2>1. /\ done' = done /\ shown' = shown /\ at = "running fix"
        /\ log' = Append(log, Line("FIX_APPLIED", Fix(shown)))
        /\ Line("CONSENT_GIVEN", Fix(shown)) \in ToSet(log)
    BY <1>3 DEF FixEnds, At, Writes, workVars, GateInv, Granted, Logged
  <2>2. ASSUME NEW e \in ToSet(done), e.what = "run", e.on = shown PROVE ToldRun(e.on)'
    BY <1>0, <2>1, <2>2, AppliedAfterConsent
  <2>3. ASSUME NEW e \in ToSet(done), e.what = "run", ToldRun(e.on) PROVE ToldRun(e.on)'
    BY <1>0, <2>3, ToldRunStays
  <2> QED
    BY <1>0, <1>a, <2>1, <2>2, <2>3 DEF Recorded, Logged, Fix
<1>4. CASE RecordSession
  <2>1. /\ done' = done /\ at = "record session"
        /\ {Line("CONSENT_GIVEN", <<"remote">>), Line("REMOTE_STARTED", <<"remote">>)} \subseteq ToSet(log')
    BY <1>0, <1>4, TwoLines DEF RecordSession, workVars, At, Ends
  <2>2. ASSUME NEW e \in ToSet(done), e.what = "run", ToldRun(e.on) PROVE ToldRun(e.on)'
    BY <1>0, <2>2, ToldRunStays
  <2> QED
    BY <1>0, <1>a, <2>1, <2>2 DEF Recorded, Logged, Fix
<1>b. ASSUME NEW what, Did(what), at \notin {"running fix", "record session"}, shown' = shown,
             NEW new, new = [what |-> what, on |-> shown], Recorded(new)'
      PROVE  \A e \in ToSet(done') : Recorded(e)'
  <2>1. ToSet(done') = ToSet(done) \cup {new}
    BY <1>b, AppendKeeps DEF Did, DoneInv
  <2>2. \A e \in ToSet(done) : Recorded(e)'
    BY <1>0, <1>a, <1>b, NothingToTell
  <2> QED
    BY <1>b, <2>1, <2>2
<1>5. CASE RunFix
  <2>1. /\ Did("run") /\ at = "run fix" /\ at' = "running fix" /\ shown' = shown
    BY <1>5 DEF RunFix, At, Goto
  <2>2. PICK new : new = [what |-> "run", on |-> shown]
    OBVIOUS
  <2>3. Recorded(new)'
    BY <2>1, <2>2 DEF Recorded
  <2> QED
    BY <1>b, <2>1, <2>2, <2>3
<1>6. CASE Rollback
  <2>1. /\ Did("undo") /\ at = "undo" /\ shown' = shown
        /\ Line("FIX_ROLLED_BACK", Fix(shown)) \in ToSet(log')
    BY <1>0, <1>6, Written DEF Rollback, At, Ends
  <2>2. PICK new : new = [what |-> "undo", on |-> shown]
    OBVIOUS
  <2>3. Recorded(new)'
    BY <2>1, <2>2 DEF Recorded, Logged, Fix
  <2> QED
    BY <1>b, <2>1, <2>2, <2>3
<1>7. CASE Send
  <2>1. /\ at = "send" /\ shown' = shown
        /\ Line("DATA_SENT", <<shown.to>>) \in ToSet(log')
    BY <1>0, <1>7, Written DEF Send, At, Ends
  <2>2. CASE done' = done
    BY <1>2, <2>1, <2>2
  <2>3. CASE Did("send")
    <3>1. PICK new : new = [what |-> "send", on |-> shown]
      OBVIOUS
    <3>2. Recorded(new)'
      BY <2>1, <3>1 DEF Recorded, Logged
    <3> QED
      BY <1>b, <2>1, <2>3, <3>1, <3>2
  <2> QED
    BY <1>7, <2>2, <2>3 DEF Send
<1>8. CASE Launch
  <2>1. at = "launch" /\ at' = "record session" /\ shown' = shown
    BY <1>8 DEF Launch, At, Goto
  <2>2. CASE done' = done
    BY <1>2, <2>1, <2>2
  <2>3. CASE Did("launch")
    <3>1. PICK new : new = [what |-> "launch", on |-> shown]
      OBVIOUS
    <3>2. Recorded(new)'
      BY <2>1, <3>1 DEF Recorded
    <3> QED
      BY <1>b, <2>1, <2>3, <3>1, <3>2
  <2> QED
    BY <1>8, <2>2, <2>3 DEF Launch
<1>9. \/ UNCHANGED <<done, at, shown>>
      \/ done' = done /\ at \notin {"running fix", "record session"}
      \/ FixEnds \/ RecordSession \/ RunFix \/ Rollback \/ Send \/ Launch
  <2> USE DEF workVars, runVars, At
  <2>1. CASE UNCHANGED vars \/ Frame \/ Interrupt \/ Kill \/ Page
    BY <2>1 DEF vars, Frame, Parse, OpenLog, List, AgentStart, AgentStop, Interrupt,
                Kill, Page, serveUI, ServerEnds, CloseWindow, Served
  <2>2. CASE ProfileRefused \/ takeSnapshot \/ writeJSON \/ measureProfile \/ writeMonthly
    BY <2>2 DEF ProfileRefused, takeSnapshot, writeJSON, measureProfile, writeMonthly,
                SnapshotModes
  <2>3. CASE writeTicket \/ finishTicket \/ writeText \/ ConfirmSend
    BY <2>3 DEF writeTicket, finishTicket, writeText, ConfirmSend
  <2>4. ASSUME NEW f \in {"html", "json"}, Render(f) \/ WriteFileFails(f) \/ Replace(f)
        PROVE  done' = done /\ at \notin {"running fix", "record session"}
    <3>1. Writing[f] \in {"write html", "write json"}
      BY <2>4, FilesWritten
    <3> QED
      BY <2>4, <3>1 DEF Render, WriteFileFails, Replace
  <2>5. ASSUME NEW to \in {"assist", "report"}, Offer(to)
        PROVE  done' = done /\ at \notin {"running fix", "record session"}
    BY <2>5 DEF Offer
  <2>6. CASE Repairs
    BY <2>6 DEF Repairs, PlanFix, NextStep, Describe, ConfirmFix, ConfirmNoRestore,
                Apply, RestorePoint, FixRefused, ConfirmUndo
  <2>7. CASE RemoteHelp
    BY <2>7 DEF RemoteHelp, PlanRemote, ConfirmRemote, WaitForEnter
  <2> QED
    BY <2>1, <2>2, <2>3, <2>4, <2>5, <2>6, <2>7 DEF Next, Run, Reports
<1> QED
  BY <1>1, <1>2, <1>3, <1>4, <1>5, <1>6, <1>7, <1>8, <1>9

\* What run() returns well from has left its line.
LEMMA SentStep ==
    ASSUME StageInv, LogInv, [Next]_vars
    PROVE  result' = "ok" /\ Mode' \in {"monthly", "ticket"} => Line("DATA_SENT", <<Mode'>>) \in ToSet(log')
<1>0. start' = start /\ IsSeq(log) /\ ToSet(log) \subseteq ToSet(log')
  BY StartStays, LogGrows DEF LogInv, Grows
<1>a. Mode' = Mode
  BY <1>0 DEF Mode, opts
<1>1. CASE result' = result \/ result' # "ok" \/ Mode \notin {"monthly", "ticket"}
  BY <1>0, <1>a, <1>1 DEF LogInv, Logged
<1>2. CASE Line("DATA_SENT", <<Mode>>) \in ToSet(log')
  BY <1>a, <1>2
<1>3. \/ result' = result \/ result' # "ok" \/ Mode \notin {"monthly", "ticket"}
      \/ Line("DATA_SENT", <<Mode>>) \in ToSet(log')
  <2> USE DEF StageInv, At, Goto, Return, Leave, runVars
  <2>1. CASE UNCHANGED vars \/ Frame \/ Interrupt \/ Kill
    BY <2>1 DEF vars, Frame, Parse, OpenLog, List, AgentStart, AgentStop, Interrupt,
                Kill, ListModes
  <2>2. CASE ProfileRefused \/ takeSnapshot \/ writeJSON \/ measureProfile \/ writeMonthly
    BY <2>2 DEF ProfileRefused, takeSnapshot, writeJSON, measureProfile, writeMonthly,
                Work
  <2>3. CASE writeTicket \/ writeText \/ ConfirmSend \/ Send
    BY <2>3 DEF writeTicket, writeText, ConfirmSend, Send, AfterOffer, Offers
  <2>4. CASE finishTicket
    <3>1. Mode = "ticket" /\ (result' = "error" \/ log' = Append(log, Line("DATA_SENT", <<"ticket">>)))
      BY <2>4 DEF finishTicket
    <3> QED
      BY <1>0, <3>1, OneLine
  <2>5. ASSUME NEW f \in {"html", "json"}, Render(f) \/ WriteFileFails(f) \/ Replace(f)
        PROVE  result' = result \/ result' # "ok" \/ Line("DATA_SENT", <<Mode>>) \in ToSet(log')
    <3>1. Writing[f] \in {"write html", "write json"} /\ Mode = "monthly"
      BY <2>5, FilesWritten DEF Render, WriteFileFails, Replace, Monthly
    <3>2. \/ result' = result \/ result' = "error"
          \/ log' = Append(log, Line("DATA_SENT", <<"monthly">>))
      BY <2>5 DEF Render, WriteFileFails, Replace
    <3> QED
      BY <1>0, <3>1, <3>2, OneLine
  <2>6. ASSUME NEW to \in {"assist", "report"}, Offer(to)
        PROVE  Mode \notin {"monthly", "ticket"}
    BY <2>6 DEF Offer, Offers
  <2>7. CASE Repairs
    BY <2>7 DEF Repairs, PlanFix, NextStep, ConfirmFix, ConfirmNoRestore, Apply,
                RestorePoint, RunFix, FixRefused, FixEnds, ConfirmUndo, Rollback, Work,
                Offered, Alone
  <2>8. CASE RemoteHelp \/ Page
    BY <2>8 DEF RemoteHelp, PlanRemote, ConfirmRemote, Launch, RecordSession,
                WaitForEnter, Page, serveUI, ServerEnds, CloseWindow, Served, Work,
                Remote
  <2> QED
    BY <2>1, <2>2, <2>3, <2>4, <2>5, <2>6, <2>7, <2>8 DEF Next, Run, Reports
<1> QED
  BY <1>1, <1>2, <1>3

\* The log keeps up.
LEMMA LogStep ==
    StageInv /\ EndInv /\ GateInv /\ DoneInv /\ LogInv /\ [Next]_vars => LogInv'
<1> SUFFICES ASSUME StageInv, EndInv, GateInv, DoneInv, LogInv, [Next]_vars PROVE LogInv'
  OBVIOUS
<1>1. \A r : Line("CHECK_RUN", <<r.CheckID>>) \in ToSet(log') => Logged("CHECK_RUN", <<r.CheckID>>)'
  BY DEF Logged
<1>2. Logged("DATA_SENT", <<Mode>>)' <=> Line("DATA_SENT", <<Mode'>>) \in ToSet(log')
  BY DEF Logged
<1> QED
  BY <1>1, <1>2, FrameStep, ChecksStep, ToldStep, SentStep DEF LogInv

-----------------------------------------------------------------------------
\* What is written is a report that may be made.
LEMMA RedactedReported ==
    ASSUME snap \in Taken, start \in Starts
    PROVE  /\ redacted \in Reported /\ buildPage(redacted) \in Pages
           /\ Bundle # None => Write(Bundle) \in Tickets
BY DEF redacted, Reported, Pages, Bundle, Tickets, opts

\* A file that is being written is none that is read.
LEMMA NotPart ==
    /\ Part \notin Reported /\ Part \notin Pages /\ Part \notin Tickets /\ Part # None
BY PartAssumption DEF Pages

\* A snapshot that was not cut short is one that may be taken.
LEMMA TakenSnapshot ==
    ASSUME takeSnapshot PROVE snap' \in Taken
BY DEF takeSnapshot, Taken

LEMMA FileInit == Init => FileInv
BY NotPart, NoneAssumption DEF Init, FileInv, Reported, Pages, Agree, Monthly

\* No step leaves half a report.
LEMMA FileStep ==
    ASSUME StageInv, EndInv, FileInv, [Next]_vars
    PROVE  FileInv'
<1>0. /\ start' = start /\ start \in Starts /\ Mode' = Mode /\ at \in Stages
  BY StartStays DEF FileInv, StageInv, Mode, opts
<1>a. snap' = snap => redacted' = redacted /\ Bundle' = Bundle
  BY <1>0 DEF redacted, Bundle, opts
\* What leaves the files and the snapshot alone.
<1>b. ASSUME UNCHANGED <<snap, disk, temp>>,
             at \notin Monthly, at' \notin Monthly \cup {"write ticket"},
             result' = result \/ result' = "error" \/ (Mode # "monthly" /\ result = None),
             at = "write ticket" => result' = "error"
      PROVE  FileInv'
  BY <1>0, <1>a, <1>b, NoneAssumption DEF FileInv, Agree, Monthly
<1> USE <1>0 DEF At, Goto, Return, Leave
<1>1. CASE UNCHANGED vars \/ Interrupt \/ Kill
  <2>1. UNCHANGED <<snap, disk, temp, at, result>>
    BY <1>1 DEF vars, Interrupt, Kill, workVars, fileVars
  <2> QED
    BY <1>a, <2>1 DEF FileInv, Agree, Monthly
<1>2. CASE Frame
  <2>1. UNCHANGED <<snap, disk, temp>>
    BY <1>2 DEF Frame, Parse, OpenLog, List, AgentStart, AgentStop, workVars, fileVars,
                Writes
  <2>2. at \notin Monthly /\ at' \notin Monthly \cup {"write ticket"} /\ at # "write ticket"
    BY <1>2 DEF Frame, Parse, OpenLog, List, AgentStart, AgentStop, Monthly, StageInv,
                Work
  <2>3. result' = result \/ result' = "error" \/ (Mode # "monthly" /\ result = None)
    BY <1>2 DEF Frame, Parse, OpenLog, List, AgentStart, AgentStop, StageInv, EndInv,
                Final, ListModes
  <2> QED
    BY <1>b, <2>1, <2>2, <2>3
<1>3. CASE ProfileRefused \/ writeJSON \/ measureProfile \/ writeText \/ ConfirmSend \/ Send
  <2> USE DEF ProfileRefused, writeJSON, measureProfile, writeText, ConfirmSend, Send,
              AfterOffer
  <2>1. UNCHANGED <<snap, disk, temp>>
    BY <1>3 DEF workVars, fileVars, Writes
  <2>2. at \notin Monthly /\ at' \notin Monthly \cup {"write ticket"} /\ at # "write ticket"
    BY <1>3 DEF Monthly
  <2>3. Mode # "monthly" /\ result = None
    BY <1>3 DEF StageInv, EndInv, Final, Work, Offers
  <2> QED
    BY <1>b, <2>1, <2>2, <2>3
<1>4. ASSUME NEW to \in {"assist", "report"}, Offer(to) PROVE FileInv'
  <2>1. UNCHANGED <<snap, disk, temp>>
    BY <1>4 DEF Offer, fileVars
  <2>2. at \notin Monthly /\ at' \notin Monthly \cup {"write ticket"} /\ at # "write ticket"
    BY <1>4 DEF Offer, AfterOffer, Monthly
  <2>3. Mode # "monthly" /\ result = None
    BY <1>4 DEF Offer, StageInv, EndInv, Final, Offers
  <2> QED
    BY <1>b, <2>1, <2>2, <2>3
<1>5. CASE Repairs
  <2> USE DEF Repairs, PlanFix, NextStep, ConfirmFix, ConfirmNoRestore, Apply,
              RestorePoint, RunFix, FixRefused, FixEnds, ConfirmUndo, Rollback, AfterFix
  <2>1. UNCHANGED <<snap, disk, temp>>
    BY <1>5 DEF workVars, fileVars, Writes, Describe
  <2>2. at \notin Monthly /\ at' \notin Monthly \cup {"write ticket"} /\ at # "write ticket"
    BY <1>5 DEF Monthly
  <2>3. Mode # "monthly" /\ result = None
    BY <1>5 DEF StageInv, EndInv, Final, Work, Offered, Alone
  <2> QED
    BY <1>b, <2>1, <2>2, <2>3
<1>6. CASE RemoteHelp \/ Page
  <2> USE DEF RemoteHelp, PlanRemote, ConfirmRemote, Launch, RecordSession,
              WaitForEnter, Page, serveUI, ServerEnds, CloseWindow, Served
  <2>1. UNCHANGED <<snap, disk, temp>>
    BY <1>6 DEF workVars, fileVars, Writes
  <2>2. at \notin Monthly /\ at' \notin Monthly \cup {"write ticket"} /\ at # "write ticket"
    BY <1>6 DEF Monthly, runVars
  <2>3. Mode # "monthly" /\ result = None
    BY <1>6 DEF StageInv, EndInv, Final, Work, Remote
  <2> QED
    BY <1>b, <2>1, <2>2, <2>3
<1>7. CASE takeSnapshot
  <2>1. /\ snap' \in Taken /\ UNCHANGED <<disk, temp, at, result>>
        /\ at \notin Monthly \cup {"write ticket"} /\ result = None
    BY <1>7, TakenSnapshot DEF takeSnapshot, runVars, Monthly, SnapshotModes, EndInv,
            Final
  <2> QED
    BY <2>1, NoneAssumption DEF FileInv, Agree, Monthly
<1>8. CASE writeMonthly
  <2>1. /\ UNCHANGED <<snap, disk, temp>> /\ at = "monthly" /\ snap # None
        /\ (at' = "write html" /\ result' = result) \/ (at' = "return" /\ result' = "error")
    BY <1>8, FilesWritten DEF writeMonthly, workVars, fileVars
  <2>2. result = None
    BY <2>1 DEF EndInv, Final
  <2> QED
    BY <1>a, <2>1, <2>2, NoneAssumption DEF FileInv, Agree, Monthly
<1>9. CASE writeTicket
  <2>1. /\ UNCHANGED <<snap, temp>> /\ at = "ticket" /\ snap # None /\ Mode = "ticket"
        /\ \/ disk' = disk /\ at' = "return" /\ result' = "error"
           \/ /\ disk' = [disk EXCEPT !.ticket = Part] /\ at' = "write ticket"
              /\ result' = result /\ Bundle # None
    BY <1>9 DEF writeTicket, workVars, StageInv, Work
  <2>2. result = None
    BY <2>1 DEF EndInv, Final
  <2>3. /\ disk'.html = disk.html /\ disk'.json = disk.json
        /\ disk' = [html |-> disk'.html, json |-> disk'.json, ticket |-> disk'.ticket]
    BY <2>1 DEF FileInv
  <2> QED
    BY <1>a, <2>1, <2>2, <2>3, NoneAssumption DEF FileInv, Agree, Monthly
<1>10. CASE finishTicket
  <2>1. /\ UNCHANGED <<snap, temp>> /\ at = "write ticket" /\ at' = "return" /\ Mode = "ticket"
        /\ \/ disk' = disk /\ result' = "error"
           \/ disk' = [disk EXCEPT !.ticket = Write(Bundle)] /\ result' = "ok"
    BY <1>10 DEF finishTicket, workVars, fileVars, StageInv
  <2>2. /\ disk'.html = disk.html /\ disk'.json = disk.json
        /\ disk' = [html |-> disk'.html, json |-> disk'.json, ticket |-> disk'.ticket]
    BY <2>1 DEF FileInv
  <2>3. snap \in Taken /\ Bundle # None
    BY <2>1 DEF FileInv
  <2>4. Write(Bundle) # Part
    BY <2>3, RedactedReported, NotPart
  <2>5. disk'.ticket = Part => result' = "error"
    BY <2>1, <2>2, <2>4 DEF FileInv
  <2>6. result = None
    BY <2>1 DEF EndInv, Final
  <2> QED
    BY <1>a, <2>1, <2>2, <2>5, <2>6, NoneAssumption DEF FileInv, Agree, Monthly
<1>11. ASSUME NEW f \in {"html", "json"}, Render(f) PROVE FileInv'
  <2>1. /\ UNCHANGED <<snap, disk, at, result>> /\ temp' = Content[f] /\ at = Writing[f]
    BY <1>11 DEF Render, runVars, workVars
  <2>2. Content["html"] = buildPage(redacted) /\ Content["json"] = redacted
    BY DEF Content
  <2>3. CASE f = "html"
    BY <1>a, <2>1, <2>2, <2>3, FilesWritten DEF FileInv, Agree, Monthly
  <2>4. CASE f = "json"
    BY <1>a, <2>1, <2>2, <2>4, FilesWritten DEF FileInv, Agree, Monthly
  <2> QED
    BY <1>11, <2>3, <2>4
<1>12. ASSUME NEW f \in {"html", "json"}, WriteFileFails(f) PROVE FileInv'
  <2>1. /\ UNCHANGED <<snap, disk>> /\ temp' = None /\ at \in Monthly
        /\ at' = "return" /\ result' = "error"
    BY <1>12, FilesWritten DEF WriteFileFails, workVars, Monthly
  <2> QED
    BY <1>a, <2>1 DEF FileInv, Agree, Monthly
<1>13. ASSUME NEW f \in {"html", "json"}, Replace(f) PROVE FileInv'
  <2>1. /\ UNCHANGED snap /\ temp # None /\ temp' = None /\ at = Writing[f]
        /\ disk' = [disk EXCEPT ![f] = temp]
    BY <1>13 DEF Replace, workVars
  <2>2. snap \in Taken /\ redacted \in Reported /\ buildPage(redacted) \in Pages
    <3>1. at \in Monthly
      BY <1>13, <2>1, FilesWritten DEF Monthly
    <3> QED
      BY <3>1, RedactedReported DEF FileInv
  <2>3. CASE f = "html"
    <3>1. /\ at = "write html" /\ at' = "write json" /\ result' = result /\ result = None
          /\ temp = buildPage(redacted)
      BY <1>13, <2>1, <2>3, FilesWritten DEF Replace, EndInv, Final, FileInv
    <3>2. /\ disk'.html = temp /\ disk'.json = disk.json /\ disk'.ticket = disk.ticket
          /\ disk' = [html |-> disk'.html, json |-> disk'.json, ticket |-> disk'.ticket]
      BY <2>1, <2>3 DEF FileInv
    <3> QED
      BY <1>a, <2>1, <2>2, <3>1, <3>2, NoneAssumption DEF FileInv, Agree, Monthly
  <2>4. CASE f = "json"
    <3>1. /\ at = "write json" /\ at' = "return" /\ result' = "ok"
          /\ temp = redacted
      BY <1>13, <2>1, <2>4, FilesWritten DEF Replace, FileInv
    <3>2. /\ disk'.json = temp /\ disk'.html = disk.html /\ disk'.ticket = disk.ticket
          /\ disk' = [html |-> disk'.html, json |-> disk'.json, ticket |-> disk'.ticket]
      BY <2>1, <2>4 DEF FileInv
    <3>3. disk.ticket # Part
      BY <3>1, NoneAssumption DEF FileInv, EndInv, Final
    <3> QED
      BY <1>a, <2>1, <2>2, <3>1, <3>2, <3>3 DEF FileInv, Agree, Monthly
  <2> QED
    BY <1>13, <2>3, <2>4
<1> QED
  BY <1>1, <1>2, <1>3, <1>4, <1>5, <1>6, <1>7, <1>8, <1>9, <1>10, <1>11, <1>12, <1>13
  DEF Next, Run, Reports

\* At first nothing has left but the earlier report.
LEMMA LeaveInit == Init => LeaveInv
BY TupleIsSeq DEF Init, LeaveInv, Offers

\* No step lets anything else out.
LEMMA LeaveStep ==
    ASSUME StageInv, FileInv, LeaveInv, IsSeq(done), [Next]_vars
    PROVE  LeaveInv'
<1>a. snap' = snap => redacted' = redacted /\ Bundle' = Bundle
  BY StartStays DEF redacted, Bundle, opts
\* What sends nothing and leaves the files alone.
<1>b. ASSUME UNCHANGED <<snap, disk>>, at' \notin Offers,
             \A e \in ToSet(done') : e.what = "send" => e \in ToSet(done)
      PROVE  LeaveInv'
  BY <1>a, <1>b DEF LeaveInv, Offers
<1>c. ASSUME NEW what, what # "send", Did(what)
      PROVE  \A e \in ToSet(done') : e.what = "send" => e \in ToSet(done)
  <2>1. ToSet(done') = ToSet(done) \cup {[what |-> what, on |-> shown]}
    BY <1>c, AppendKeeps DEF Did
  <2> QED
    BY <1>c, <2>1
<1>d. done' = done => \A e \in ToSet(done') : e.what = "send" => e \in ToSet(done)
  OBVIOUS
<1> USE DEF At, Goto, Return, Leave
<1>1. CASE UNCHANGED vars \/ Interrupt \/ Kill
  <2>1. UNCHANGED <<snap, disk, at, shown, done>>
    BY <1>1 DEF vars, Interrupt, Kill, workVars, fileVars
  <2> QED
    BY <1>a, <2>1 DEF LeaveInv, Offers
<1>2. CASE Frame
  <2>1. UNCHANGED <<snap, disk, done>> /\ at' \notin Offers
    BY <1>2 DEF Frame, Parse, OpenLog, List, AgentStart, AgentStop, workVars, fileVars,
                Writes, Offers, StageInv, Work
  <2> QED
    BY <1>b, <1>d, <2>1
<1>3. CASE ProfileRefused \/ writeJSON \/ measureProfile \/ writeMonthly
  <2>1. UNCHANGED <<snap, disk, done>> /\ at' \notin Offers
    BY <1>3, FilesWritten DEF ProfileRefused, writeJSON, measureProfile, writeMonthly, workVars,
                fileVars, Writes, Offers
  <2> QED
    BY <1>b, <1>d, <2>1
<1>4. ASSUME NEW f \in {"html", "json"}, Render(f) \/ WriteFileFails(f) PROVE LeaveInv'
  <2>1. UNCHANGED <<snap, disk, done>> /\ at' \notin Offers
    BY <1>4, FilesWritten DEF Render, WriteFileFails, runVars, workVars, Offers
  <2> QED
    BY <1>b, <1>d, <2>1
<1>5. CASE Repairs
  <2> USE DEF Repairs, PlanFix, NextStep, ConfirmFix, ConfirmNoRestore, Apply,
              RestorePoint, RunFix, FixRefused, FixEnds, ConfirmUndo, Rollback, AfterFix
  <2>1. UNCHANGED <<snap, disk>> /\ at' \notin Offers
    BY <1>5 DEF workVars, fileVars, Writes, Describe, Offers
  <2>2. done' = done \/ Did("run") \/ Did("undo")
    BY <1>5 DEF workVars, Describe
  <2> QED
    BY <1>b, <1>c, <1>d, <2>1, <2>2
<1>6. CASE RemoteHelp \/ Page
  <2> USE DEF RemoteHelp, PlanRemote, ConfirmRemote, Launch, RecordSession,
              WaitForEnter, Page, serveUI, ServerEnds, CloseWindow, Served
  <2>1. UNCHANGED <<snap, disk>> /\ at' \notin Offers
    BY <1>6 DEF workVars, fileVars, Writes, Offers, runVars
  <2>2. done' = done \/ Did("launch")
    BY <1>6 DEF workVars
  <2> QED
    BY <1>b, <1>c, <1>d, <2>1, <2>2
<1>7. CASE takeSnapshot
  <2>1. snap = None /\ UNCHANGED <<disk, at, done>> /\ at \notin Offers
    BY <1>7 DEF takeSnapshot, runVars, SnapshotModes, Offers
  <2> QED
    BY <2>1 DEF LeaveInv, Offers
<1>8. CASE writeText
  <2>1. UNCHANGED <<snap, disk, done>> /\ at' = "assist" /\ snap # None
    BY <1>8 DEF writeText, workVars, fileVars
  <2> QED
    BY <1>a, <2>1 DEF LeaveInv
<1>9. ASSUME NEW to \in {"assist", "report"}, Offer(to) PROVE LeaveInv'
  <2>1. UNCHANGED <<snap, disk, done>> /\ snap # None
    BY <1>9 DEF Offer, fileVars, LeaveInv, Offers
  <2>2. \/ at' \in {"report", "return"}
        \/ at' = "confirm send" /\ shown'.body = redacted
    <3>1. CASE AfterOffer(to)
      BY <3>1 DEF AfterOffer
    <3>2. CASE Return("error")
      BY <3>2
    <3>3. CASE shown' = [to |-> to, body |-> redacted] /\ Goto("confirm send")
      BY <3>3
    <3> QED
      BY <1>9, <3>1, <3>2, <3>3 DEF Offer
  <2> QED
    BY <1>a, <2>1, <2>2 DEF LeaveInv
<1>10. CASE ConfirmSend \/ Send
  <2>1. UNCHANGED <<snap, disk, shown>> /\ snap # None /\ shown.body = redacted
    BY <1>10 DEF ConfirmSend, Send, workVars, fileVars, Writes, LeaveInv, Offers
  <2>2. ToSet(done') \subseteq ToSet(done) \cup {[what |-> "send", on |-> shown]}
    <3>1. done' = done \/ Did("send")
      BY <1>10 DEF ConfirmSend, Send, workVars
    <3>2. Did("send") => ToSet(done') = ToSet(done) \cup {[what |-> "send", on |-> shown]}
      BY AppendKeeps DEF Did
    <3> QED
      BY <3>1, <3>2
  <2>3. \A e \in ToSet(done') : e.what = "send" => e.on.body = redacted
    BY <2>1, <2>2 DEF LeaveInv
  <2> QED
    BY <1>a, <2>1, <2>3 DEF LeaveInv
<1>11. CASE writeTicket
  <2>1. /\ UNCHANGED <<snap, done>> /\ at' \notin Offers
        /\ disk' = disk \/ disk' = [disk EXCEPT !.ticket = Part]
    BY <1>11 DEF writeTicket, workVars, Offers
  <2>2. disk'.html = disk.html /\ disk'.json = disk.json /\ disk'.ticket \in {disk.ticket, Part}
    BY <2>1 DEF FileInv
  <2> QED
    BY <1>a, <2>1, <2>2 DEF LeaveInv, Offers
<1>12. CASE finishTicket
  <2>1. /\ UNCHANGED <<snap, done>> /\ at' \notin Offers
        /\ disk' = disk \/ disk' = [disk EXCEPT !.ticket = Write(Bundle)]
        /\ snap # None /\ Bundle # None
    BY <1>12 DEF finishTicket, workVars, fileVars, Offers, FileInv
  <2>2. /\ disk'.html = disk.html /\ disk'.json = disk.json
        /\ disk'.ticket \in {disk.ticket, Write(Bundle)}
    BY <2>1 DEF FileInv
  <2> QED
    BY <1>a, <2>1, <2>2 DEF LeaveInv, Offers
<1>13. ASSUME NEW f \in {"html", "json"}, Replace(f) PROVE LeaveInv'
  <2>1. /\ UNCHANGED <<snap, done>> /\ temp # None /\ at = Writing[f] /\ at' \notin Offers
        /\ disk' = [disk EXCEPT ![f] = temp]
    BY <1>13, FilesWritten DEF Replace, workVars, Offers
  <2>2. snap # None
    BY <1>13, <2>1, FilesWritten DEF FileInv, Monthly
  <2>3. CASE f = "html"
    <3>1. temp = buildPage(redacted)
      BY <2>1, <2>3, FilesWritten DEF FileInv
    <3>2. disk'.html = temp /\ disk'.json = disk.json /\ disk'.ticket = disk.ticket
      BY <2>1, <2>3 DEF FileInv
    <3> QED
      BY <1>a, <2>1, <2>2, <3>1, <3>2 DEF LeaveInv, Offers
  <2>4. CASE f = "json"
    <3>1. temp = redacted
      BY <2>1, <2>4, FilesWritten DEF FileInv
    <3>2. disk'.json = temp /\ disk'.html = disk.html /\ disk'.ticket = disk.ticket
      BY <2>1, <2>4 DEF FileInv
    <3> QED
      BY <1>a, <2>1, <2>2, <3>1, <3>2 DEF LeaveInv, Offers
  <2> QED
    BY <1>13, <2>3, <2>4
<1> QED
  BY <1>1, <1>2, <1>3, <1>4, <1>5, <1>6, <1>7, <1>8, <1>9, <1>10, <1>11, <1>12, <1>13
  DEF Next, Run, Reports

-----------------------------------------------------------------------------
\* The inductive invariant.
IInv == StageInv /\ EndInv /\ AskInv /\ GateInv /\ DoneInv /\ LogInv /\ FileInv /\ LeaveInv

\* It holds from the start and every step keeps it.
LEMMA Inductive == Spec => []IInv
<1>1. Init => IInv
  BY StageInit, EndInit, AskInit, GateInit, DoneInit, LogInit, FileInit, LeaveInit DEF IInv
<1>2. IInv /\ [Next]_vars => IInv'
  <2> SUFFICES ASSUME IInv, [Next]_vars PROVE IInv'
    OBVIOUS
  <2>1. IsSeq(log) /\ IsSeq(done)
    BY DEF IInv, LogInv, DoneInv
  <2> QED
    BY <2>1, StageStep, EndStep, AskStep, GateStep, DoneStep, LogStep, FileStep, LeaveStep
    DEF IInv
<1> QED
  BY <1>1, <1>2, PTL DEF Spec

\* Whatever is changed, sent or started in any run was asked about while exactly that was
\* on the screen and answered with the word its question named, once for each; never in a
\* dry run unless it is a send, never past a refusal, and only with the restore point it
\* was promised or a second yes (repair.go, advice.go, enrol.go, remote.go).
THEOREM Asking == Spec => []NothingUnasked
<1>1. ASSUME DoneInv PROVE NothingUnasked
  <2> SUFFICES ASSUME NEW i \in DOMAIN done
               PROVE  Allowed(done[i]) /\ \A j \in 1..i - 1 : done[j] # done[i]
    BY DEF NothingUnasked, Allowed, Logged
  <2>1. done[i] \in ToSet(done)
    BY DEF ToSet
  <2> QED
    BY <1>1, <2>1 DEF DoneInv
<1> QED
  BY <1>1, Inductive, PTL DEF IInv

\* A run that ends by itself has left the whole of itself in the log: its two ends, each
\* check, each change after the consent to it, each send, each session, each file
\* (main.go run, remediate.go, assist.go, enrol.go).
THEOREM Logging == Spec => []LogTellsTheRun
<1>1. ASSUME EndInv, DoneInv, LogInv PROVE LogTellsTheRun
  <2> SUFFICES ASSUME exit \in {"ok", "error"}, log # <<>> PROVE LogTellsTheRun
    BY DEF LogTellsTheRun
  <2>1. at = "over" /\ result = exit
    BY <1>1 DEF EndInv
  <2>2. 1 \in DOMAIN log /\ Len(log) \in DOMAIN log
    BY <1>1, EmptyIsEmpty DEF LogInv, IsSeq
  <2>3. Lines("AGENT_START") = {1}
    BY <1>1, <2>2 DEF Lines, LogInv
  <2>4. Lines("AGENT_STOP") = {Len(log)}
    BY <1>1, <2>2 DEF Lines, LogInv
  <2>5. snap # None => \A r \in ToSet(snap.results) : Line("CHECK_RUN", <<r.CheckID>>) \in ToSet(log)
    BY <1>1 DEF LogInv, Logged
  <2>6. ASSUME NEW i \in DOMAIN done
        PROVE  LET e == done[i] IN
               CASE e.what = "run" -> ToldRun(e.on)
                 [] e.what = "undo" -> Logged("FIX_ROLLED_BACK", Fix(e.on))
                 [] e.what = "send" -> Logged("DATA_SENT", <<e.on.to>>)
                 [] e.what = "launch" ->
                       Logged("CONSENT_GIVEN", <<"remote">>) /\ Logged("REMOTE_STARTED", <<"remote">>)
    <3>1. done[i] \in ToSet(done)
      BY DEF ToSet
    <3>2. Recorded(done[i]) /\ done[i].what \in {"run", "undo", "send", "launch"}
      BY <1>1, <3>1 DEF LogInv, DoneInv, Allowed
    <3> QED
      BY <2>1, <3>2 DEF Recorded
  <2>7. exit = "ok" /\ Mode \in {"monthly", "ticket"} => Line("DATA_SENT", <<Mode>>) \in ToSet(log)
    BY <1>1, <2>1 DEF LogInv, Logged
  <2> QED
    BY <2>1, <2>3, <2>4, <2>5, <2>6, <2>7 DEF LogTellsTheRun, Logged, ToldRun
<1> QED
  BY <1>1, Inductive, PTL DEF IInv

\* After Ctrl+C nothing is changed, sent or started, whatever is still answered, except
\* that what was done is undone (main.go, the context of run).
THEOREM Interrupting == Spec => NothingAfterInterrupt
<1>1. ASSUME IsSeq(done), [Next]_vars, cancelled, done' # done PROVE Last(done').what = "undo"
  <2>1. CASE Rollback
    <3>1. done' = Append(done, [what |-> "undo", on |-> shown])
      BY <2>1 DEF Rollback, Did
    <3>2. Len(done') = Len(done) + 1 /\ done'[Len(done) + 1] = [what |-> "undo", on |-> shown]
      BY <1>1, <3>1, AppendKeeps
    <3>3. Last(done') = [what |-> "undo", on |-> shown]
      BY <3>2 DEF Last
    <3> QED
      BY <3>3
  <2>2. Rollback
    <3> USE <1>1 DEF workVars
    <3>1. CASE UNCHANGED vars \/ Frame \/ Interrupt \/ Kill \/ Page
      BY <3>1 DEF vars, Frame, Parse, OpenLog, List, AgentStart, AgentStop, Interrupt,
                  Kill, Page, serveUI, ServerEnds, CloseWindow, Served
    <3>2. CASE Reports
      BY <3>2 DEF Reports, ProfileRefused, takeSnapshot, writeJSON, measureProfile,
                  writeMonthly, writeTicket, finishTicket, writeText, ConfirmSend, Send,
                  Render, WriteFileFails, Replace, Offer
    <3>3. CASE Repairs
      BY <3>3 DEF Repairs, PlanFix, NextStep, Describe, ConfirmFix, ConfirmNoRestore,
                  Apply, RestorePoint, RunFix, FixRefused, FixEnds, ConfirmUndo
    <3>4. CASE RemoteHelp
      BY <3>4 DEF RemoteHelp, PlanRemote, ConfirmRemote, Launch, RecordSession,
                  WaitForEnter
    <3> QED
      BY <3>1, <3>2, <3>3, <3>4 DEF Next, Run
  <2> QED
    BY <2>1, <2>2
<1>2. DoneInv /\ [Next]_vars => [cancelled /\ done' # done => Last(done').what = "undo"]_vars
  BY <1>1 DEF DoneInv
<1> QED
  BY <1>2, Inductive, PTL DEF IInv, NothingAfterInterrupt, Spec

-----------------------------------------------------------------------------
\* Induction up to a number, over the set of those for which something holds.
LEMMA Induct ==
    ASSUME NEW N \in Nat, NEW P, 0 \in P, \A n \in 0..N : n # N /\ n \in P => n + 1 \in P
    PROVE  \A n \in 0..N : n \in P
<1> DEFINE S == {n \in 0..N : n \notin P}
<1>1. CASE S = {}
  BY <1>1
<1>2. CASE S # {}
  <2>1. S \subseteq Nat
    OBVIOUS
  <2>2. PICK n \in S : \A m \in S : n <= m
    <3> HIDE DEF S
    <3> QED
      BY <1>2, <2>1, Least
  <2>3. n \in 0..N /\ n # 0 /\ n \notin P
    BY <2>2
  <2>4. n - 1 \in 0..N /\ n - 1 # N /\ (n - 1) + 1 = n
    BY <2>3
  <2>5. n - 1 \in P
    BY <2>2, <2>4
  <2>6. n \in P
    BY <2>4, <2>5
  <2> QED
    BY <2>3, <2>6
<1> QED
  BY <1>1, <1>2

\* The rows of a page for the first N results: what Rated computes, told without it.
RowsUpTo(f, results, severity, N) ==
    f = [n \in 0..N |->
          IF n = 0 THEN <<>>
          ELSE IF results[n].severity = severity THEN Append(f[n - 1], results[n])
          ELSE f[n - 1]]

\* There is such a function, which is why Rated is one.
LEMMA RowsExist ==
    ASSUME NEW results, NEW severity, NEW N \in Nat
    PROVE  \E f : RowsUpTo(f, results, severity, N)
<1> DEFINE P == {n \in 0..N : \E f : RowsUpTo(f, results, severity, n)}
<1>1. 0 \in P
  <2>1. PICK f : f = [n \in 0..0 |-> <<>>]
    OBVIOUS
  <2>2. RowsUpTo(f, results, severity, 0)
    BY <2>1 DEF RowsUpTo
  <2> QED
    BY <2>2
<1>2. ASSUME NEW n \in 0..N, n # N, n \in P PROVE n + 1 \in P
  <2>1. PICK f : RowsUpTo(f, results, severity, n)
    BY <1>2
  <2> DEFINE last == IF results[n + 1].severity = severity THEN Append(f[n], results[n + 1]) ELSE f[n]
             g == [m \in 0..n + 1 |-> IF m = n + 1 THEN last ELSE f[m]]
  <2>2. \A m \in 0..n : f[m] = IF m = 0 THEN <<>>
                               ELSE IF results[m].severity = severity THEN Append(f[m - 1], results[m])
                               ELSE f[m - 1]
    BY <2>1 DEF RowsUpTo
  <2>3. ASSUME NEW m \in 0..n + 1
        PROVE  g[m] = IF m = 0 THEN <<>>
                      ELSE IF results[m].severity = severity THEN Append(g[m - 1], results[m])
                      ELSE g[m - 1]
    <3>1. CASE m = n + 1
      <4>1. n \in 0..n + 1 /\ n # n + 1 /\ m - 1 = n /\ m # 0
        BY <3>1
      <4>2. g[m] = last /\ g[m - 1] = f[n]
        BY <3>1, <4>1
      <4> QED
        BY <3>1, <4>1, <4>2
    <3>2. CASE m = 0
      <4>1. m # n + 1 /\ m \in 0..n
        BY <3>2
      <4>2. g[m] = f[m]
        BY <4>1
      <4> QED
        BY <2>2, <3>2, <4>1, <4>2
    <3>3. CASE m \in 1..n
      <4>1. m \in 0..n /\ m - 1 \in 0..n /\ m - 1 \in 0..n + 1 /\ m # n + 1 /\ m - 1 # n + 1 /\ m # 0
        BY <3>3
      <4>2. g[m] = f[m] /\ g[m - 1] = f[m - 1]
        BY <4>1
      <4> QED
        BY <2>2, <4>1, <4>2
    <3> QED
      BY <3>1, <3>2, <3>3
  <2>4. g = [m \in 0..n + 1 |->
              IF m = 0 THEN <<>>
              ELSE IF results[m].severity = severity THEN Append(g[m - 1], results[m])
              ELSE g[m - 1]]
    <3>1. g = [m \in 0..n + 1 |-> g[m]]
      OBVIOUS
    <3> HIDE DEF g
    <3> QED
      BY <2>3, <3>1
  <2>5. RowsUpTo(g, results, severity, n + 1)
    BY <2>4 DEF RowsUpTo
  <2>6. n + 1 \in 0..N
    BY <1>2
  <2> HIDE DEF g
  <2> QED
    BY <2>5, <2>6
<1>3. \A n \in 0..N : n \in P
  <2> HIDE DEF P
  <2> QED
    BY <1>1, <1>2, Induct
<1> QED
  BY <1>3

\* A number up to the next.
LEMMA NextUp ==
    ASSUME NEW N \in Nat, NEW n \in 0..N, n # N
    PROVE  /\ n + 1 \in 0..N /\ n + 1 # 0 /\ (n + 1) - 1 = n
           /\ \A i : i \in 1..n + 1 <=> i \in 1..n \/ i = n + 1
OBVIOUS

\* Rated keeps the results of its severity, all of them.
LEMMA RatedHolds ==
    ASSUME NEW results, IsSeq(results), NEW severity
    PROVE  /\ IsSeq(Rated(results, severity))
           /\ ToSet(Rated(results, severity)) =
                {r \in ToSet(results) : r.severity = severity}
<1>0. Len(results) \in Nat /\ DOMAIN results = 1..Len(results)
  BY DEF IsSeq
<1> DEFINE upTo == CHOOSE f : RowsUpTo(f, results, severity, Len(results))
<1>1. RowsUpTo(upTo, results, severity, Len(results))
  BY <1>0, RowsExist
<1>2. Rated(results, severity) = upTo[Len(results)]
  BY DEF Rated, RowsUpTo
<1> HIDE DEF upTo
<1>3. \A n \in 0..Len(results) :
        upTo[n] = IF n = 0 THEN <<>>
                  ELSE IF results[n].severity = severity THEN Append(upTo[n - 1], results[n])
                  ELSE upTo[n - 1]
  BY <1>1 DEF RowsUpTo
<1> DEFINE Upto(n) == {results[i] : i \in {j \in 1..n : results[j].severity = severity}}
           P == {n \in 0..Len(results) : IsSeq(upTo[n]) /\ ToSet(upTo[n]) = Upto(n)}
<1>4. 0 \in P
  <2>1. upTo[0] = <<>>
    BY <1>0, <1>3
  <2>2. Upto(0) = {}
    OBVIOUS
  <2> QED
    BY <1>0, <2>1, <2>2, TupleIsSeq
<1>5. ASSUME NEW n \in 0..Len(results), n # Len(results), n \in P PROVE n + 1 \in P
  <2>1. n + 1 \in 0..Len(results) /\ n + 1 # 0 /\ (n + 1) - 1 = n
    BY <1>0, <1>5, NextUp
  <2>2. IsSeq(upTo[n]) /\ ToSet(upTo[n]) = Upto(n)
    BY <1>5
  <2>3. \A i : i \in 1..n + 1 <=> i \in 1..n \/ i = n + 1
    BY <1>0, <1>5, NextUp
  <2>4. CASE results[n + 1].severity = severity
    <3>1. upTo[n + 1] = Append(upTo[n], results[n + 1])
      BY <1>3, <2>1, <2>4
    <3>2. Upto(n + 1) = Upto(n) \cup {results[n + 1]}
      BY <2>3, <2>4
    <3>3. IsSeq(upTo[n + 1]) /\ ToSet(upTo[n + 1]) = Upto(n) \cup {results[n + 1]}
      BY <2>2, <3>1, AppendKeeps
    <3> QED
      BY <2>1, <3>2, <3>3
  <2>5. CASE results[n + 1].severity # severity
    <3>1. upTo[n + 1] = upTo[n]
      BY <1>3, <2>1, <2>5
    <3>2. Upto(n + 1) = Upto(n)
      BY <2>3, <2>5
    <3> QED
      BY <2>1, <2>2, <3>1, <3>2
  <2> QED
    BY <2>4, <2>5
<1>6. \A n \in 0..Len(results) : n \in P
  <2> HIDE DEF P
  <2> QED
    BY <1>0, <1>4, <1>5, Induct
<1>7. IsSeq(upTo[Len(results)]) /\ ToSet(upTo[Len(results)]) = Upto(Len(results))
  BY <1>0, <1>6
<1>8. Upto(Len(results)) = {r \in ToSet(results) : r.severity = severity}
  BY <1>0 DEF ToSet
<1> QED
  BY <1>2, <1>7, <1>8

\* A page has a row for every result and no other (report.go severityOrder): a result has
\* one of the severities the page goes through.
LEMMA RowForEvery ==
    ASSUME NEW s, IsSeq(s.results), \A r \in ToSet(s.results) : r.severity \in Severities
    PROVE  ToSet(buildPage(s).results) = ToSet(s.results)
<1> DEFINE of(severity) == Rated(s.results, severity)
           two == of("urgent") \o of("attention")
           three == two \o of("unknown")
           four == three \o of("ok")
<1>1. \A severity : /\ IsSeq(of(severity))
                    /\ ToSet(of(severity)) = {r \in ToSet(s.results) : r.severity = severity}
  BY RatedHolds
<1>2. buildPage(s).results = four
  BY DEF buildPage, severityOrder
<1> HIDE DEF of
<1>3. IsSeq(two) /\ ToSet(two) = ToSet(of("urgent")) \cup ToSet(of("attention"))
  BY <1>1, ConcatKeeps
<1> HIDE DEF two
<1>4. IsSeq(three) /\ ToSet(three) = ToSet(two) \cup ToSet(of("unknown"))
  BY <1>1, <1>3, ConcatKeeps
<1> HIDE DEF three
<1>5. ToSet(four) = ToSet(three) \cup ToSet(of("ok"))
  BY <1>1, <1>4, ConcatKeeps
<1> HIDE DEF four
<1> QED
  BY <1>1, <1>2, <1>3, <1>4, <1>5 DEF Severities

\* A snapshot that was cut short is still a report.
LEMMA TakenIsReport == Taken \subseteq Report
BY UnreadKeeps DEF Taken

\* Redaction keeps the results, in their order and with their severity (redact.go).
LEMMA RedactionKeeps ==
    ASSUME NEW s \in Report, NEW id
    PROVE  LET t == Snapshot(Everything, s, id) IN
           /\ IsSeq(t.results) /\ DOMAIN t.results = DOMAIN s.results
           /\ \A i \in DOMAIN t.results :
                 t.results[i].CheckID = s.results[i].CheckID /\ t.results[i].severity = s.results[i].severity
<1> DEFINE u == [i \in DOMAIN s.results |-> Cleaned(Everything, s.results[i], id)]
<1>1. s.results \in Seq(Result) /\ s = [results |-> s.results, skipped |-> s.skipped]
  BY DEF Report
<1>2. Len(s.results) \in Nat /\ DOMAIN s.results = 1..Len(s.results)
  BY <1>1
<1>3. Snapshot(Everything, s, id) = [s EXCEPT !.results = u]
  BY DEF Snapshot, Everything
<1>4. Snapshot(Everything, s, id).results = u
  BY <1>1, <1>3
<1>5. \A i \in DOMAIN s.results :
        u[i].CheckID = s.results[i].CheckID /\ u[i].severity = s.results[i].severity
  <2> SUFFICES ASSUME NEW r \in Result
               PROVE  /\ Cleaned(Everything, r, id).CheckID = r.CheckID
                      /\ Cleaned(Everything, r, id).severity = r.severity
    BY <1>1
  <2> QED
    BY DEF Cleaned, Result
<1>6. IsSeq(u)
  BY <1>2, FunctionIsSeq
<1> QED
  BY <1>4, <1>5, <1>6

\* A page tells of the results it was made of, and of no other.
LEMMA PageOf ==
    ASSUME NEW s \in Report PROVE ToSet(buildPage(s).results) = ToSet(s.results)
<1>1. s.results \in Seq(Result) /\ \A r \in Result : r.severity \in Severities
  BY DEF Report, Result
<1>2. IsSeq(s.results)
  BY <1>1 DEF IsSeq, ToSet
<1>3. \A r \in ToSet(s.results) : r.severity \in Severities
  BY <1>1 DEF ToSet
<1> QED
  BY <1>2, <1>3, RowForEvery

LEMMA PageOfRedacted ==
    ASSUME snap \in Report PROVE ToSet(buildPage(redacted).results) = ToSet(redacted.results)
<1>1. snap.results \in Seq(Result) /\ \A r \in Result : r.severity \in Severities
  BY DEF Report, Result
<1>2. /\ IsSeq(redacted.results) /\ DOMAIN redacted.results = DOMAIN snap.results
      /\ \A i \in DOMAIN redacted.results : redacted.results[i].severity = snap.results[i].severity
  BY RedactionKeeps DEF redacted
<1>3. \A r \in ToSet(redacted.results) : r.severity \in Severities
  BY <1>1, <1>2 DEF ToSet
<1> QED
  BY <1>2, <1>3, RowForEvery

\* No reader finds half a report, and after a run that ended well the page has a row for
\* every result of the file beside it, whatever the checks answered, wherever the run was
\* cut off before (schedule.go writeFile, report.go, ticket.go).
THEOREM Files == Spec => []FilesAreWhole
<1>1. ASSUME StageInv, EndInv, FileInv PROVE FilesAreWhole
  <2>1. Part \notin {disk.html, disk.json}
    BY <1>1, NotPart DEF FileInv
  <2>2. Agree \/ at = Writing["json"] \/ result = "error"
    BY <1>1, FilesWritten DEF FileInv, Monthly
  <2>3. ASSUME result = "ok" PROVE disk.ticket # Part /\ temp = None
    BY <1>1, <2>3, NoneAssumption DEF FileInv, EndInv, Final, Monthly
  <2>4. ASSUME result = "ok", Mode = "monthly"
        PROVE  disk.json = redacted /\ ToSet(disk.html.results) = ToSet(redacted.results)
    <3>1. snap \in Report /\ disk.json = redacted /\ disk.html = buildPage(redacted)
      BY <1>1, <2>4, TakenIsReport DEF FileInv
    <3> QED
      BY <3>1, PageOfRedacted
  <2> QED
    BY <2>1, <2>2, <2>3, <2>4 DEF FilesAreWhole
<1> QED
  BY <1>1, Inductive, PTL DEF IInv

-----------------------------------------------------------------------------
\* What a text is made of, and what is left of one.
Letter == STRING \cup {Marker}

LEMMA MarkerIsLetter == Marker \in Letter
BY DEF Letter

LEMMA TextHasLetters == ASSUME NEW s \in Seq(STRING) PROVE s \in Seq(Letter)
BY SeqMonotonic DEF Letter

\* The text from the i-th letter on, one after the other from the end: what replaceFold
\* computes, told without it.
Here(s, old, i) == i + Len(old) - 1 <= Len(s) /\ SubSeq(s, i, i + Len(old) - 1) = old
One(letter) == <<letter>>
FoldedFrom(f, s, old, i) ==
    IF i > Len(s) THEN <<>>
    ELSE IF Here(s, old, i) THEN One(Marker) \o f[i + Len(old)]
    ELSE One(s[i]) \o f[i + 1]
Folded(f, s, old, first) == f = [i \in first..Len(s) + 1 |-> FoldedFrom(f, s, old, i)]

\* No letter is left after the last.
LEMMA SubSeqNone ==
    ASSUME NEW s \in Seq(Letter)
    PROVE  SubSeq(s, Len(s) + 1, Len(s)) = <<>>
<1> DEFINE n == Len(s)
           none == SubSeq(s, n + 1, n)
<1>1. n \in Nat /\ ~(n + 1 <= n) /\ n + 1 \in Int /\ n + 1 >= 1
  OBVIOUS
<1>2. none \in Seq(Letter) /\ Len(none) = 0
  BY <1>1, SubSeqProperties
<1> HIDE DEF none
<1>3. none = <<>>
  BY <1>2
<1> QED
  BY <1>3 DEF none

\* There is such a function, which is why the recursion is one.
LEMMA FoldExists ==
    ASSUME NEW s, NEW old, Len(s) \in Nat, Len(old) \in Nat \ {0}
    PROVE  \E f : Folded(f, s, old, 1)
<1> DEFINE N == Len(s)
           P == {n \in 0..N : \E f : Folded(f, s, old, N + 1 - n)}
<1>1. 0 \in P
  <2>1. PICK f : f = [i \in N + 1..N + 1 |-> <<>>]
    OBVIOUS
  <2>2. \A i \in N + 1..N + 1 : FoldedFrom(f, s, old, i) = <<>>
    BY DEF FoldedFrom
  <2>3. f = [i \in N + 1..N + 1 |-> FoldedFrom(f, s, old, i)]
    BY <2>1, <2>2
  <2>4. Folded(f, s, old, N + 1 - 0)
    BY <2>3 DEF Folded
  <2> QED
    BY <2>4
<1>2. ASSUME NEW n \in 0..N, n # N, n \in P PROVE n + 1 \in P
  <2>1. PICK f : Folded(f, s, old, N + 1 - n)
    BY <1>2
  <2> DEFINE first == N - n
             g == [i \in first..N + 1 |-> IF i = first THEN FoldedFrom(f, s, old, first) ELSE f[i]]
  <2>2. first \in 1..N /\ N + 1 - n = first + 1 /\ N + 1 - (n + 1) = first
    BY <1>2
  <2>3. \A i \in first + 1..N + 1 : f[i] = FoldedFrom(f, s, old, i)
    BY <2>1, <2>2 DEF Folded
  <2>4. \A i \in first + 1..N + 1 : g[i] = f[i]
    BY <2>2
  <2>5. ASSUME NEW i \in first..N + 1 PROVE FoldedFrom(g, s, old, i) = FoldedFrom(f, s, old, i)
    <3>1. CASE i > N
      BY <3>1 DEF FoldedFrom
    <3>2. CASE i <= N
      <4>1. i + 1 \in first + 1..N + 1
        BY <3>2
      <4>2. Here(s, old, i) => i + Len(old) \in first + 1..N + 1
        BY <3>2 DEF Here
      <4> HIDE DEF g
      <4> QED
        BY <2>4, <4>1, <4>2 DEF FoldedFrom
    <3> QED
      BY <2>2, <3>1, <3>2
  <2>6. \A i \in first..N + 1 : g[i] = FoldedFrom(g, s, old, i)
    <3>1. g[first] = FoldedFrom(f, s, old, first)
      BY <2>2
    <3>2. \A i \in first..N + 1 : i = first \/ i \in first + 1..N + 1
      BY <2>2
    <3> HIDE DEF g
    <3> QED
      BY <2>3, <2>4, <2>5, <3>1, <3>2
  <2>7. Folded(g, s, old, first)
    <3>1. g = [i \in first..N + 1 |-> g[i]]
      OBVIOUS
    <3> HIDE DEF g
    <3> QED
      BY <2>6, <3>1 DEF Folded
  <2> HIDE DEF g
  <2>8. n + 1 \in 0..N
    BY <1>2
  <2> QED
    BY <2>2, <2>7, <2>8
<1>3. \A n \in 0..N : n \in P
  <2> HIDE DEF P
  <2> QED
    BY <1>1, <1>2, Induct
<1>4. N \in 0..N /\ N + 1 - N = 1
  OBVIOUS
<1> QED
  BY <1>3, <1>4

\* A text that goes on with another: its head, and then that.
Goes(out, letter, rest) ==
    /\ out \in Seq(Letter) /\ rest \in Seq(Letter)
    /\ Len(out) = Len(rest) + 1
    /\ out[1] = letter
    /\ \A k \in 1..Len(rest) : out[k + 1] = rest[k]

\* So does a letter with a text after it.
LEMMA LetterGoes ==
    ASSUME NEW letter \in Letter, NEW rest \in Seq(Letter)
    PROVE  Goes(One(letter) \o rest, letter, rest)
<1>1. One(letter) \in Seq(Letter) /\ Len(One(letter)) = 1 /\ One(letter)[1] = letter
  BY DEF One
<1> SUFFICES ASSUME NEW one \in Seq(Letter), Len(one) = 1, one[1] = letter
             PROVE  Goes(one \o rest, letter, rest)
  BY <1>1
<1>2. Len(rest) \in Nat
  OBVIOUS
<1> DEFINE out == one \o rest
<1>4. /\ out \in Seq(Letter) /\ Len(out) = 1 + Len(rest)
      /\ \A i \in 1..1 + Len(rest) : out[i] = IF i <= 1 THEN one[i] ELSE rest[i - 1]
  BY <1>2, ConcatProperties
<1> HIDE DEF out
<1>5. out[1] = letter
  BY <1>2, <1>4
<1>6. ASSUME NEW k \in 1..Len(rest) PROVE out[k + 1] = rest[k]
  <2>1. k + 1 \in 1..1 + Len(rest) /\ ~(k + 1 <= 1) /\ (k + 1) - 1 = k
    BY <1>2
  <2> QED
    BY <1>4, <2>1
<1>7. Len(out) = Len(rest) + 1
  BY <1>2, <1>4
<1>8. Goes(out, letter, rest)
  BY <1>4, <1>5, <1>6, <1>7 DEF Goes
<1> QED
  BY <1>8 DEF out

\* A name is here just when it stands here.
LEMMA HereStands ==
    ASSUME NEW s \in Seq(Letter), NEW old \in Seq(Letter), Len(old) # 0, NEW i \in 1..Len(s)
    PROVE  Here(s, old, i) <=> Stands(old, s, i)
<1>0. Len(s) \in Nat /\ Len(old) \in Nat /\ DOMAIN old = 1..Len(old)
  OBVIOUS
<1>1. CASE i + Len(old) - 1 <= Len(s)
  <2> DEFINE j == i + Len(old) - 1
             part == SubSeq(s, i, j)
  <2>1. j \in i - 1..Len(s) /\ j - i + 1 = Len(old)
    BY <1>0, <1>1
  <2>2. part \in Seq(Letter) /\ Len(part) = Len(old) /\ \A k \in 1..Len(old) : part[k] = s[i + k - 1]
    BY <1>0, <2>1, SubSeqProperties
  <2>3. (part = old) <=> \A k \in 1..Len(old) : part[k] = old[k]
    <3> HIDE DEF part
    <3> QED
      BY <2>2, SeqEqual
  <2> QED
    BY <1>0, <1>1, <2>2, <2>3 DEF Here, Stands
<1>2. CASE ~(i + Len(old) - 1 <= Len(s))
  BY <1>2 DEF Here, Stands
<1> QED
  BY <1>1, <1>2

\* What replaceFold leaves of a text from its i-th letter on: its first letters, and any of
\* its letters in a row, are letters of the text in a row as far as they are no markers,
\* and stood outside the name; the name stands nowhere; and a text it does not stand in is
\* left as it is.
Unmarked(out, k, n) == k + n - 1 <= Len(out) /\ \A m \in 1..n : out[k + m - 1] # Marker
Same(out, k, s, j, n) == j + n - 1 <= Len(s) /\ \A m \in 1..n : out[k + m - 1] = s[j + m - 1]
Outside(old, s, i, j) ==
    \A h \in 1..Len(s) : h >= i /\ Stands(old, s, h) => j \notin h..h + Len(old) - 1
Clear(old, s, i, j, n) == \A m \in 1..n : Outside(old, s, i, j + m - 1)
Untouched(out, s, i) ==
    Len(out) = Len(s) + 1 - i /\ \A k \in 1..Len(out) : out[k] = s[i + k - 1]

Left(out, s, old, i) ==
    /\ out \in Seq(Letter)
    /\ \A n \in Nat : Unmarked(out, 1, n) => Same(out, 1, s, i, n) /\ Clear(old, s, i, i, n)
    /\ \A n \in Nat : \A k \in 1..Len(out) :
          Unmarked(out, k, n) =>
             \E j \in 1..Len(s) :
                j >= i /\ Same(out, k, s, j, n) /\ (Apart(old) => Clear(old, s, i, j, n))
    /\ \A k \in 1..Len(out) : ~Stands(old, out, k)
    /\ (\A h \in 1..Len(s) : h >= i => ~Stands(old, s, h)) => Untouched(out, s, i)

\* At the end there is nothing.
LEMMA LeftAtTheEnd ==
    ASSUME NEW s \in Seq(Letter), NEW old
    PROVE  Left(<<>>, s, old, Len(s) + 1)
<1>1. <<>> \in Seq(Letter) /\ Len(<<>>) = 0 /\ Len(s) \in Nat
  OBVIOUS
<1>2. \A n \in Nat : Unmarked(<<>>, 1, n) => Same(<<>>, 1, s, Len(s) + 1, n)
  <2> SUFFICES ASSUME NEW n \in Nat, Unmarked(<<>>, 1, n) PROVE Same(<<>>, 1, s, Len(s) + 1, n)
    OBVIOUS
  <2>1. n = 0
    BY <1>1 DEF Unmarked
  <2> QED
    BY <1>1, <2>1 DEF Same
<1>3. \A n \in Nat : Unmarked(<<>>, 1, n) => Clear(old, s, Len(s) + 1, Len(s) + 1, n)
  BY <1>1 DEF Unmarked, Clear
<1>4. Untouched(<<>>, s, Len(s) + 1)
  BY <1>1 DEF Untouched
<1> QED
  BY <1>1, <1>2, <1>3, <1>4 DEF Left

\* Where a text that goes on holds a name, so does the rest of it, but at its head.
LEMMA RestStands ==
    ASSUME NEW out, NEW letter, NEW rest, Goes(out, letter, rest), NEW old \in Seq(Letter),
           NEW k \in Nat, k >= 2, Stands(old, out, k)
    PROVE  Stands(old, rest, k - 1)
<1>1. Len(old) \in Nat /\ DOMAIN old = 1..Len(old)
  OBVIOUS
<1>2. k + Len(old) - 1 <= Len(out) /\ \A m \in 1..Len(old) : out[k + m - 1] = old[m]
  BY <1>1 DEF Stands
<1>3. ASSUME NEW m \in 1..Len(old) PROVE rest[(k - 1) + m - 1] = old[m]
  <2>1. (k - 1) + m - 1 \in 1..Len(rest) /\ ((k - 1) + m - 1) + 1 = k + m - 1
    BY <1>1, <1>2 DEF Goes
  <2> QED
    BY <1>2, <2>1 DEF Goes
<1>4. (k - 1) + Len(old) - 1 <= Len(rest)
  BY <1>1, <1>2 DEF Goes
<1> QED
  BY <1>1, <1>3, <1>4 DEF Stands

\* The rest of letters in a row without a marker has none either, and where it is found in
\* a text, so are they.
LEMMA RestRuns ==
    ASSUME NEW out, NEW letter, NEW rest, Goes(out, letter, rest),
           NEW k \in Nat, k >= 2, NEW n \in Nat, Unmarked(out, k, n)
    PROVE  /\ Unmarked(rest, k - 1, n)
           /\ \A s, j : Same(rest, k - 1, s, j, n) => Same(out, k, s, j, n)
<1>1. k + n - 1 <= Len(out)
  BY DEF Unmarked
<1>2. ASSUME NEW m \in 1..n PROVE out[k + m - 1] = rest[(k - 1) + m - 1]
  <2>1. (k - 1) + m - 1 \in 1..Len(rest) /\ ((k - 1) + m - 1) + 1 = k + m - 1
    BY <1>1 DEF Goes
  <2> QED
    BY <2>1 DEF Goes
<1>3. (k - 1) + n - 1 <= Len(rest)
  BY <1>1 DEF Goes
<1>4. Unmarked(rest, k - 1, n)
  BY <1>2, <1>3 DEF Unmarked
<1>5. ASSUME NEW s, NEW j, Same(rest, k - 1, s, j, n) PROVE Same(out, k, s, j, n)
  BY <1>2, <1>5 DEF Same
<1> QED
  BY <1>4, <1>5

\* A letter of its own, before what is left from the next letter on.
LEMMA LeftKept ==
    ASSUME NEW s \in Seq(Letter), NEW old \in Seq(Letter), Len(old) # 0, Marker \notin ToSet(old),
           NEW i \in 1..Len(s), ~Stands(old, s, i), NEW rest, Left(rest, s, old, i + 1),
           NEW out, Goes(out, s[i], rest)
    PROVE  Left(out, s, old, i)
<1>0. /\ Len(s) \in Nat /\ Len(old) \in Nat /\ Len(rest) \in Nat /\ DOMAIN old = 1..Len(old)
      /\ out \in Seq(Letter) /\ Len(out) = Len(rest) + 1 /\ out[1] = s[i]
      /\ \A k \in 1..Len(rest) : out[k + 1] = rest[k]
  BY DEF Goes
<1>a. ASSUME NEW j, Outside(old, s, i + 1, j) PROVE Outside(old, s, i, j)
  <2> SUFFICES ASSUME NEW h \in 1..Len(s), h >= i, Stands(old, s, h)
               PROVE  j \notin h..h + Len(old) - 1
    BY DEF Outside
  <2>1. h # i
    OBVIOUS
  <2>2. h >= i + 1
    BY <1>0, <2>1
  <2> QED
    BY <1>a, <2>2 DEF Outside
<1>1. ASSUME NEW n \in Nat, Unmarked(out, 1, n)
      PROVE  Same(out, 1, s, i, n) /\ Clear(old, s, i, i, n)
  <2>1. CASE n = 0
    BY <2>1, <1>0 DEF Same, Clear
  <2>2. CASE n # 0
    <3>1. n - 1 \in Nat /\ 1 + n - 1 <= Len(out) /\ \A m \in 1..n : out[1 + m - 1] # Marker
      BY <1>1, <2>2 DEF Unmarked
    <3>2. ASSUME NEW m \in 1..n - 1
          PROVE  m \in 1..Len(rest) /\ m + 1 \in 1..n /\ 1 + (m + 1) - 1 = m + 1 /\ 1 + m - 1 = m
      BY <1>0, <3>1
    <3>3. \A m \in 1..n - 1 : rest[1 + m - 1] # Marker
      BY <1>0, <3>1, <3>2
    <3>4. Unmarked(rest, 1, n - 1)
      BY <1>0, <3>1, <3>3 DEF Unmarked
    <3>5. Same(rest, 1, s, i + 1, n - 1) /\ Clear(old, s, i + 1, i + 1, n - 1)
      BY <3>1, <3>4 DEF Left
    <3>6. ASSUME NEW m \in 1..n PROVE out[1 + m - 1] = s[i + m - 1]
      <4>1. CASE m = 1
        BY <1>0, <4>1
      <4>2. CASE m # 1
        <5>1. m - 1 \in 1..n - 1 /\ m - 1 \in 1..Len(rest)
          BY <1>0, <3>1, <4>2
        <5>2. rest[1 + (m - 1) - 1] = s[(i + 1) + (m - 1) - 1]
          BY <3>5, <5>1 DEF Same
        <5>3. /\ 1 + (m - 1) - 1 = m - 1 /\ (i + 1) + (m - 1) - 1 = i + m - 1
              /\ (m - 1) + 1 = 1 + m - 1
          BY <4>2
        <5> QED
          BY <1>0, <5>1, <5>2, <5>3
      <4> QED
        BY <4>1, <4>2
    <3>7. i + n - 1 <= Len(s)
      BY <3>5, <1>0, <3>1 DEF Same
    <3>8. ASSUME NEW m \in 1..n PROVE Outside(old, s, i, i + m - 1)
      <4>1. CASE m = 1
        BY <1>0, <4>1 DEF Outside
      <4>2. CASE m # 1
        <5>1. m - 1 \in 1..n - 1 /\ (i + 1) + (m - 1) - 1 = i + m - 1
          BY <1>0, <3>1, <4>2
        <5>2. Outside(old, s, i + 1, i + m - 1)
          BY <3>5, <5>1 DEF Clear
        <5> QED
          BY <5>2, <1>a
      <4> QED
        BY <4>1, <4>2
    <3> QED
      BY <3>6, <3>7, <3>8 DEF Same, Clear
  <2> QED
    BY <2>1, <2>2
<1>2. ASSUME NEW n \in Nat, NEW k \in 1..Len(out), Unmarked(out, k, n)
      PROVE  \E j \in 1..Len(s) :
                j >= i /\ Same(out, k, s, j, n) /\ (Apart(old) => Clear(old, s, i, j, n))
  <2>1. CASE k = 1
    <3>1. i \in 1..Len(s) /\ i >= i
      BY <1>0
    <3> QED
      BY <1>1, <1>2, <2>1, <3>1
  <2>2. CASE k # 1
    <3>1. k \in Nat /\ k >= 2 /\ k - 1 \in 1..Len(rest)
      BY <1>0, <2>2
    <3>2. Unmarked(rest, k - 1, n)
      BY <1>2, <3>1, RestRuns
    <3>3. PICK j \in 1..Len(s) :
             /\ j >= i + 1 /\ Same(rest, k - 1, s, j, n)
             /\ Apart(old) => Clear(old, s, i + 1, j, n)
      BY <3>1, <3>2 DEF Left
    <3>4. Same(out, k, s, j, n)
      BY <1>2, <3>1, <3>3, RestRuns
    <3>5. Apart(old) => Clear(old, s, i, j, n)
      BY <3>3, <1>a DEF Clear
    <3>6. j >= i
      BY <1>0, <3>3
    <3> QED
      BY <3>4, <3>5, <3>6
  <2> QED
    BY <2>1, <2>2
<1>3. ASSUME NEW k \in 1..Len(out), Stands(old, out, k) PROVE FALSE
  <2>1. CASE k = 1
    <3>1. 1 + Len(old) - 1 <= Len(out) /\ \A m \in 1..Len(old) : out[1 + m - 1] = old[m]
      BY <1>0, <1>3, <2>1 DEF Stands
    <3>2. \A m \in 1..Len(old) : old[m] # Marker
      BY <1>0 DEF ToSet
    <3>3. Unmarked(out, 1, Len(old))
      BY <3>1, <3>2 DEF Unmarked
    <3>4. Same(out, 1, s, i, Len(old))
      BY <1>0, <1>1, <3>3
    <3>5. Stands(old, s, i)
      BY <1>0, <3>1, <3>4 DEF Same, Stands
    <3> QED
      BY <3>5
  <2>2. CASE k # 1
    <3>1. k \in Nat /\ k >= 2 /\ k - 1 \in 1..Len(rest)
      BY <1>0, <2>2
    <3>2. Stands(old, rest, k - 1)
      BY <1>3, <3>1, RestStands
    <3> QED
      BY <3>1, <3>2 DEF Left
  <2> QED
    BY <2>1, <2>2
<1>4. ASSUME \A h \in 1..Len(s) : h >= i => ~Stands(old, s, h) PROVE Untouched(out, s, i)
  <2>1. \A h \in 1..Len(s) : h >= i + 1 => h >= i
    BY <1>0
  <2>2. Untouched(rest, s, i + 1)
    BY <1>4, <2>1 DEF Left
  <2>3. Len(out) = Len(s) + 1 - i
    BY <1>0, <2>2 DEF Untouched
  <2>4. ASSUME NEW k \in 1..Len(out) PROVE out[k] = s[i + k - 1]
    <3>1. CASE k = 1
      BY <1>0, <3>1
    <3>2. CASE k # 1
      <4>1. k - 1 \in 1..Len(rest) /\ (k - 1) + 1 = k /\ (i + 1) + (k - 1) - 1 = i + k - 1
        BY <1>0, <3>2
      <4> QED
        BY <1>0, <2>2, <4>1 DEF Untouched
    <3> QED
      BY <3>1, <3>2
  <2> QED
    BY <2>3, <2>4 DEF Untouched
<1> QED
  BY <1>0, <1>1, <1>2, <1>3, <1>4 DEF Left

\* The marker in the place of a name, before what is left from its end on.
LEMMA LeftMarked ==
    ASSUME NEW s \in Seq(Letter), NEW old \in Seq(Letter), Len(old) # 0, Marker \notin ToSet(old),
           NEW i \in 1..Len(s), Stands(old, s, i), NEW rest, Left(rest, s, old, i + Len(old)),
           NEW out, Goes(out, Marker, rest)
    PROVE  Left(out, s, old, i)
<1>0. /\ Len(s) \in Nat /\ Len(old) \in Nat \ {0} /\ Len(rest) \in Nat /\ DOMAIN old = 1..Len(old)
      /\ out \in Seq(Letter) /\ Len(out) = Len(rest) + 1 /\ out[1] = Marker
      /\ \A k \in 1..Len(rest) : out[k + 1] = rest[k]
  BY DEF Goes
<1>a. ASSUME NEW n \in Nat, Unmarked(out, 1, n) PROVE n = 0
  <2>1. CASE n # 0
    <3>1. 1 \in 1..n /\ 1 + 1 - 1 = 1
      BY <2>1
    <3> QED
      BY <1>0, <1>a, <3>1 DEF Unmarked
  <2> QED
    BY <2>1
<1>1. ASSUME NEW n \in Nat, Unmarked(out, 1, n)
      PROVE  Same(out, 1, s, i, n) /\ Clear(old, s, i, i, n)
  BY <1>0, <1>1, <1>a DEF Same, Clear
<1>b. ASSUME Apart(old), NEW j \in Nat, j >= i + Len(old), Outside(old, s, i + Len(old), j)
      PROVE  Outside(old, s, i, j)
  <2> SUFFICES ASSUME NEW h \in 1..Len(s), h >= i, Stands(old, s, h), j \in h..h + Len(old) - 1
               PROVE  FALSE
    BY DEF Outside
  <2>1. CASE h >= i + Len(old)
    BY <1>b, <2>1 DEF Outside
  <2>2. CASE h = i
    BY <1>0, <1>b, <2>2
  <2>3. CASE h > i /\ h < i + Len(old)
    <3>0. h \in Int /\ i \in Int /\ Len(old) \in Int
      BY <1>0
    <3>1. h - i + 1 \in 2..Len(old)
      BY <2>3, <3>0
    <3>2. PICK m \in 1..Len(old) - (h - i + 1) + 1 : old[(h - i + 1) + m - 1] # old[m]
      BY <1>b, <3>1 DEF Apart
    <3>3. /\ m \in 1..Len(old) /\ (h - i + 1) + m - 1 \in 1..Len(old)
          /\ i + ((h - i + 1) + m - 1) - 1 = h + m - 1
      BY <2>3, <3>0, <3>1
    <3>4. s[h + m - 1] = old[m]
      BY <1>0, <3>3 DEF Stands
    <3>5. s[i + ((h - i + 1) + m - 1) - 1] = old[(h - i + 1) + m - 1]
      BY <1>0, <3>3 DEF Stands
    <3> QED
      BY <3>2, <3>3, <3>4, <3>5
  <2> QED
    BY <1>0, <2>1, <2>2, <2>3
<1>2. ASSUME NEW n \in Nat, NEW k \in 1..Len(out), Unmarked(out, k, n)
      PROVE  \E j \in 1..Len(s) :
                j >= i /\ Same(out, k, s, j, n) /\ (Apart(old) => Clear(old, s, i, j, n))
  <2>1. CASE k = 1
    <3>1. i \in 1..Len(s) /\ i >= i
      BY <1>0
    <3> QED
      BY <1>1, <1>2, <2>1, <3>1
  <2>2. CASE k # 1
    <3>1. k \in Nat /\ k >= 2 /\ k - 1 \in 1..Len(rest)
      BY <1>0, <2>2
    <3>2. Unmarked(rest, k - 1, n)
      BY <1>2, <3>1, RestRuns
    <3>3. PICK j \in 1..Len(s) :
             /\ j >= i + Len(old) /\ Same(rest, k - 1, s, j, n)
             /\ Apart(old) => Clear(old, s, i + Len(old), j, n)
      BY <3>1, <3>2 DEF Left
    <3>4. Same(out, k, s, j, n)
      BY <1>2, <3>1, <3>3, RestRuns
    <3>5. ASSUME Apart(old), NEW m \in 1..n PROVE Outside(old, s, i, j + m - 1)
      <4>1. j + m - 1 \in Nat /\ j + m - 1 >= i + Len(old)
        BY <1>0, <3>3
      <4>2. Outside(old, s, i + Len(old), j + m - 1)
        BY <3>3, <3>5 DEF Clear
      <4> QED
        BY <3>5, <4>1, <4>2, <1>b
    <3>6. j >= i
      BY <1>0, <3>3
    <3> QED
      BY <3>4, <3>5, <3>6 DEF Clear
  <2> QED
    BY <2>1, <2>2
<1>3. ASSUME NEW k \in 1..Len(out), Stands(old, out, k) PROVE FALSE
  <2>1. CASE k = 1
    <3>1. 1 \in 1..Len(old) /\ 1 + 1 - 1 = 1
      BY <1>0
    <3>2. \A m \in 1..Len(old) : out[1 + m - 1] = old[m]
      BY <1>0, <1>3, <2>1 DEF Stands
    <3>3. old[1] = Marker
      BY <1>0, <3>1, <3>2
    <3> QED
      BY <1>0, <3>1, <3>3 DEF ToSet
  <2>2. CASE k # 1
    <3>1. k \in Nat /\ k >= 2 /\ k - 1 \in 1..Len(rest)
      BY <1>0, <2>2
    <3>2. Stands(old, rest, k - 1)
      BY <1>3, <3>1, RestStands
    <3> QED
      BY <3>1, <3>2 DEF Left
  <2> QED
    BY <2>1, <2>2
<1>4. ~\A h \in 1..Len(s) : h >= i => ~Stands(old, s, h)
  BY <1>0
<1> QED
  BY <1>0, <1>1, <1>2, <1>3, <1>4 DEF Left

\* Both, for a text from its i-th letter on.
LEMMA FoldStep ==
    ASSUME NEW s \in Seq(Letter), NEW old \in Seq(Letter), Len(old) # 0, Marker \notin ToSet(old),
           NEW f, NEW i \in 1..Len(s), f[i] = FoldedFrom(f, s, old, i),
           \A m \in i + 1..Len(s) + 1 : Left(f[m], s, old, m)
    PROVE  Left(f[i], s, old, i)
<1>0. /\ Len(s) \in Nat /\ Len(old) \in Nat \ {0} /\ ~(i > Len(s)) /\ s[i] \in Letter
      /\ Marker \in Letter
  BY MarkerIsLetter
<1>1. CASE Stands(old, s, i)
  <2>1. i + Len(old) \in i + 1..Len(s) + 1
    BY <1>0, <1>1 DEF Stands
  <2>2. Left(f[i + Len(old)], s, old, i + Len(old))
    BY <2>1
  <2>3. Here(s, old, i)
    BY <1>1, HereStands
  <2>4. f[i] = One(Marker) \o f[i + Len(old)]
    BY <1>0, <2>3 DEF FoldedFrom
  <2>5. f[i + Len(old)] \in Seq(Letter)
    BY <2>2 DEF Left
  <2>6. Goes(f[i], Marker, f[i + Len(old)])
    BY <1>0, <2>4, <2>5, LetterGoes
  <2> QED
    BY <1>1, <2>2, <2>6, LeftMarked
<1>2. CASE ~Stands(old, s, i)
  <2>1. Left(f[i + 1], s, old, i + 1)
    BY <1>0
  <2>2. ~Here(s, old, i)
    BY <1>2, HereStands
  <2>3. f[i] = One(s[i]) \o f[i + 1]
    BY <1>0, <2>2 DEF FoldedFrom
  <2>4. f[i + 1] \in Seq(Letter)
    BY <2>1 DEF Left
  <2>5. Goes(f[i], s[i], f[i + 1])
    BY <1>0, <2>3, <2>4, LetterGoes
  <2> QED
    BY <1>2, <2>1, <2>5, LeftKept
<1> QED
  BY <1>1, <1>2

\* The one before, counted from the end.
LEMMA Backwards ==
    ASSUME NEW N \in Nat, NEW n \in 0..N, n # N
    PROVE  /\ N - n \in 1..N /\ n + 1 \in 0..N
           /\ N + 1 - (n + 1) = N - n /\ N + 1 - n = (N - n) + 1
OBVIOUS

\* What replaceFold computes, with the text in lower case beside it.
FoldedBeside(f, s, lower, old, i) ==
    IF i > Len(lower) THEN SubSeq(s, i, Len(s))
    ELSE IF Here(lower, old, i) THEN One(Marker) \o f[i + Len(old)]
    ELSE One(s[i]) \o f[i + 1]

\* As long as lower case drops nothing the two are in step.
LEMMA InStep ==
    ASSUME NEW s \in Seq(Letter), Wide \notin ToSet(s), NEW old, NEW f, NEW i \in 1..Len(s) + 1
    PROVE  FoldedBeside(f, s, Lowered(s), old, i) = FoldedFrom(f, s, old, i)
<1>1. Lowered(s) = s
  BY DEF Lowered, ToSet
<1>2. CASE i > Len(s)
  <2>1. Len(s) \in Nat /\ i = Len(s) + 1
    BY <1>2
  <2>2. SubSeq(s, Len(s) + 1, Len(s)) = <<>>
    BY <2>1, SubSeqNone
  <2> QED
    BY <1>1, <1>2, <2>1, <2>2 DEF FoldedBeside, FoldedFrom
<1>3. CASE ~(i > Len(s))
  BY <1>1, <1>3 DEF FoldedBeside, FoldedFrom
<1> QED
  BY <1>2, <1>3

\* What replaceFold leaves of a text: no name, and no part of one.
LEMMA FoldLeaves ==
    ASSUME NEW s \in Seq(Letter), Wide \notin ToSet(s), NEW old \in Seq(Letter), Len(old) >= 3,
           Marker \notin ToSet(old), old # None
    PROVE  Left(replaceFold(s, old), s, old, 1)
<1>0. Len(s) \in Nat /\ Len(old) \in Nat \ {0} /\ Len(old) # 0
  OBVIOUS
<1> DEFINE Fold(f) == f = [i \in 1..Len(s) + 1 |-> FoldedBeside(f, s, Lowered(s), old, i)]
           from == CHOOSE f : Fold(f)
<1>1. \E f : Fold(f)
  <2>1. PICK f : Folded(f, s, old, 1)
    BY <1>0, FoldExists
  <2>2. f = [i \in 1..Len(s) + 1 |-> FoldedFrom(f, s, old, i)]
    BY <2>1 DEF Folded
  <2>3. \A i \in 1..Len(s) + 1 :
           FoldedBeside(f, s, Lowered(s), old, i) = FoldedFrom(f, s, old, i)
    BY InStep
  <2> QED
    BY <2>2, <2>3
<1>2. replaceFold(s, old) = from[1]
  <2>1. ~(Len(old) < 3)
    BY <1>0
  <2> QED
    BY <2>1 DEF replaceFold, FoldedBeside, Here, One
<1>3. \A i \in 1..Len(s) + 1 : from[i] = FoldedFrom(from, s, old, i)
  <2>1. Fold(from)
    BY <1>1
  <2> HIDE DEF from
  <2>2. \A i \in 1..Len(s) + 1 : from[i] = FoldedBeside(from, s, Lowered(s), old, i)
    BY <2>1
  <2> QED
    BY <2>2, InStep
<1> HIDE DEF from, Fold
<1> DEFINE P == {n \in 0..Len(s) : \A m \in Len(s) + 1 - n..Len(s) + 1 : Left(from[m], s, old, m)}
<1>4. 0 \in P
  <2>1. from[Len(s) + 1] = <<>>
    BY <1>0, <1>3 DEF FoldedFrom
  <2>2. Left(from[Len(s) + 1], s, old, Len(s) + 1)
    BY <2>1, LeftAtTheEnd
  <2>3. \A m \in Len(s) + 1 - 0..Len(s) + 1 : m = Len(s) + 1
    BY <1>0
  <2> QED
    BY <1>0, <2>2, <2>3
<1>5. ASSUME NEW n \in 0..Len(s), n # Len(s), n \in P PROVE n + 1 \in P
  <2>0. /\ Len(s) - n \in 1..Len(s) /\ n + 1 \in 0..Len(s)
        /\ Len(s) + 1 - (n + 1) = Len(s) - n /\ Len(s) + 1 - n = (Len(s) - n) + 1
    BY <1>0, <1>5, Backwards
  <2>1. PICK i \in 1..Len(s) : i = Len(s) - n
    BY <2>0
  <2>2. \A m \in i + 1..Len(s) + 1 : Left(from[m], s, old, m)
    BY <1>5, <2>0, <2>1
  <2>3. from[i] = FoldedFrom(from, s, old, i)
    BY <1>0, <1>3
  <2>4. Left(from[i], s, old, i)
    BY <2>2, <2>3, FoldStep
  <2>5. \A m \in i..Len(s) + 1 : m = i \/ m \in i + 1..Len(s) + 1
    BY <1>0
  <2>6. n + 1 \in 0..Len(s) /\ Len(s) + 1 - (n + 1) = i
    BY <2>0, <2>1
  <2>7. \A m \in i..Len(s) + 1 : Left(from[m], s, old, m)
    BY <2>2, <2>4, <2>5
  <2> QED
    BY <2>6, <2>7
<1>6. \A n \in 0..Len(s) : n \in P
  <2> HIDE DEF P
  <2> QED
    BY <1>0, <1>4, <1>5, Induct
<1>7. Len(s) \in 0..Len(s) /\ 1 \in Len(s) + 1 - Len(s)..Len(s) + 1
  BY <1>0
<1>8. Left(from[1], s, old, 1)
  BY <1>6, <1>7
<1> QED
  BY <1>2, <1>8

-----------------------------------------------------------------------------
\* A text of which only some letters are left, in the order they had between markers.
Runs(out, s) ==
    /\ out \in Seq(Letter)
    /\ \A n \in Nat : \A k \in 1..Len(out) :
          Unmarked(out, k, n) => \E j \in 1..Len(s) : Same(out, k, s, j, n)

\* So is what is left of that.
LEMMA RunsOn ==
    ASSUME NEW out, NEW mid, NEW s, Runs(out, mid), Runs(mid, s)
    PROVE  Runs(out, s)
<1> SUFFICES ASSUME NEW n \in Nat, NEW k \in 1..Len(out), Unmarked(out, k, n)
             PROVE  \E j \in 1..Len(s) : Same(out, k, s, j, n)
  BY DEF Runs
<1>1. PICK i \in 1..Len(mid) : Same(out, k, mid, i, n)
  BY DEF Runs
<1>2. Unmarked(mid, i, n)
  BY <1>1 DEF Same, Unmarked
<1>3. PICK j \in 1..Len(s) : Same(mid, i, s, j, n)
  BY <1>2 DEF Runs
<1>4. Same(out, k, s, j, n)
  BY <1>1, <1>3 DEF Same
<1> QED
  BY <1>4

\* Such a text holds no name that the text did not hold.
LEMMA RunsHold ==
    ASSUME NEW out, NEW s, Runs(out, s), NEW old \in Seq(Letter), Marker \notin ToSet(old),
           NEW k \in 1..Len(out), Stands(old, out, k)
    PROVE  \E j \in 1..Len(s) : Stands(old, s, j)
<1>0. Len(old) \in Nat /\ DOMAIN old = 1..Len(old) /\ \A m \in 1..Len(old) : old[m] # Marker
  BY DEF ToSet
<1>1. k + Len(old) - 1 <= Len(out) /\ \A m \in 1..Len(old) : out[k + m - 1] = old[m]
  BY <1>0 DEF Stands
<1>2. Unmarked(out, k, Len(old))
  BY <1>0, <1>1 DEF Unmarked
<1>3. PICK j \in 1..Len(s) : Same(out, k, s, j, Len(old))
  BY <1>0, <1>2 DEF Runs
<1>4. Stands(old, s, j)
  BY <1>0, <1>1, <1>3 DEF Same, Stands
<1> QED
  BY <1>4

\* A text itself is one.
LEMMA RunsItself == ASSUME NEW s \in Seq(Letter) PROVE Runs(s, s)
BY DEF Runs, Same, Unmarked

\* A text of which what is left stood outside a name.
Spared(out, s, old) ==
    \A n \in Nat : \A k \in 1..Len(out) :
        Unmarked(out, k, n) => \E j \in 1..Len(s) : Same(out, k, s, j, n) /\ Clear(old, s, 1, j, n)

\* So is what is left of that, and a text the name does not stand in.
LEMMA SparedOn ==
    ASSUME NEW out, NEW mid, NEW s, NEW old, Runs(out, mid), Spared(mid, s, old)
    PROVE  Spared(out, s, old)
<1> SUFFICES ASSUME NEW n \in Nat, NEW k \in 1..Len(out), Unmarked(out, k, n)
             PROVE  \E j \in 1..Len(s) : Same(out, k, s, j, n) /\ Clear(old, s, 1, j, n)
  BY DEF Spared
<1>1. PICK i \in 1..Len(mid) : Same(out, k, mid, i, n)
  BY DEF Runs
<1>2. Unmarked(mid, i, n)
  BY <1>1 DEF Same, Unmarked
<1>3. PICK j \in 1..Len(s) : Same(mid, i, s, j, n) /\ Clear(old, s, 1, j, n)
  BY <1>2 DEF Spared
<1>4. Same(out, k, s, j, n)
  BY <1>1, <1>3 DEF Same
<1> QED
  BY <1>3, <1>4

\* The names of a machine.
Names == {None} \cup {t \in Seq(Letter) : Marker \notin ToSet(t)}
Nowhere(name, s) == \A h \in 1..Len(s) : ~Stands(name, s, h)

\* A text without a byte that lower case drops stays one.
LEMMA RunsNarrow ==
    ASSUME NEW out, NEW s \in Seq(Letter), Runs(out, s), Wide \notin ToSet(s)
    PROVE  Wide \notin ToSet(out)
<1> SUFFICES ASSUME NEW k \in 1..Len(out), out[k] = Wide PROVE FALSE
  BY DEF Runs, ToSet
<1>0. Len(out) \in Nat /\ DOMAIN s = 1..Len(s)
  BY DEF Runs
<1>1. Unmarked(out, k, 1)
  <2>1. Wide # Marker
    BY DEF Wide, Marker
  <2>2. \A m \in 1..1 : k + m - 1 = k
    OBVIOUS
  <2> QED
    BY <1>0, <2>1, <2>2 DEF Unmarked
<1>2. PICK j \in 1..Len(s) : Same(out, k, s, j, 1)
  BY <1>1 DEF Runs
<1>3. s[j] = Wide
  BY <1>2 DEF Same
<1> QED
  BY <1>0, <1>3 DEF ToSet

\* A name that is looked for is gone, and no part of it is left; a text it does not stand
\* in, or that it is not looked for in, is left as it is.
LEMMA FoldedText ==
    ASSUME NEW s \in Seq(Letter), Wide \notin ToSet(s), NEW old \in Names
    PROVE  LET out == replaceFold(s, old) IN
           /\ Runs(out, s)
           /\ Sought(old) => Nowhere(old, out)
           /\ Sought(old) /\ Apart(old) => Spared(out, s, old)
           /\ (Sought(old) => Nowhere(old, s)) => out = s
<1> DEFINE out == replaceFold(s, old)
<1>1. CASE ~Sought(old)
  <2>1. out = s
    <3>1. CASE old = None
      BY <3>1 DEF replaceFold
    <3>2. CASE old # None
      <4>1. Len(old) \in Nat /\ ~(Len(old) >= 3)
        BY <1>1, <3>2 DEF Sought, Names
      <4>2. Len(old) < 3
        BY <4>1
      <4> QED
        BY <4>2 DEF replaceFold
    <3> QED
      BY <3>1, <3>2
  <2> HIDE DEF out
  <2> QED
    BY <1>1, <2>1, RunsItself DEF out
<1>2. CASE Sought(old)
  <2>1. old \in Seq(Letter) /\ Len(old) >= 3 /\ Marker \notin ToSet(old) /\ old # None
    BY <1>2 DEF Sought, Names
  <2>2. Left(out, s, old, 1)
    BY <2>1, FoldLeaves
  <2> HIDE DEF out
  <2>3. Runs(out, s) /\ Nowhere(old, out) /\ (Apart(old) => Spared(out, s, old))
    BY <2>2 DEF Left, Runs, Spared, Nowhere
  <2>4. ASSUME Nowhere(old, s) PROVE out = s
    <3>1. Untouched(out, s, 1) /\ out \in Seq(Letter)
      BY <2>2, <2>4 DEF Left, Nowhere
    <3>2. Len(out) = Len(s) /\ \A k \in 1..Len(out) : out[k] = s[k]
      BY <3>1 DEF Untouched
    <3> QED
      BY <3>1, <3>2, SeqEqual
  <2> QED
    BY <1>2, <2>3, <2>4 DEF out
<1> QED
  BY <1>1, <1>2

\* The addresses go by their shape.
LEMMA UnaddressedText ==
    ASSUME NEW s \in Seq(Letter)
    PROVE  /\ Runs(Unaddressed(s), s)
           /\ ToSet(Unaddressed(s)) \cap Addresses = {}
           /\ ToSet(Unaddressed(s)) \ {Marker} \subseteq ToSet(s)
<1> DEFINE out == Unaddressed(s)
<1>1. /\ Len(s) \in Nat /\ DOMAIN s = 1..Len(s)
      /\ out = [i \in 1..Len(s) |-> IF s[i] \in Addresses THEN Marker ELSE s[i]]
  BY DEF Unaddressed
<1>2. out \in Seq(Letter) /\ Len(out) = Len(s) /\ DOMAIN out = 1..Len(s)
  <2>1. out \in [1..Len(s) -> Letter]
    BY <1>1, MarkerIsLetter
  <2> QED
    BY <1>1, <2>1, SeqDef, LenProperties
<1>3. \A i \in 1..Len(s) : out[i] = IF s[i] \in Addresses THEN Marker ELSE s[i]
  BY <1>1
<1>4. Marker \notin Addresses
  BY DEF Marker, Addresses
<1> HIDE DEF out
<1>5. ToSet(out) \cap Addresses = {}
  BY <1>2, <1>3, <1>4 DEF ToSet
<1>6. ToSet(out) \ {Marker} \subseteq ToSet(s)
  BY <1>1, <1>2, <1>3 DEF ToSet
<1>7. ASSUME NEW n \in Nat, NEW k \in 1..Len(out), Unmarked(out, k, n)
      PROVE  Same(out, k, s, k, n)
  <2>1. ASSUME NEW m \in 1..n PROVE out[k + m - 1] = s[k + m - 1]
    <3>1. k + n - 1 <= Len(s) /\ out[k + m - 1] # Marker
      BY <1>2, <1>7 DEF Unmarked
    <3>2. k + m - 1 \in 1..Len(s)
      BY <1>1, <1>2, <3>1
    <3> QED
      BY <1>3, <3>1, <3>2
  <2> QED
    BY <1>2, <1>7, <2>1 DEF Same, Unmarked
<1>8. Runs(out, s)
  BY <1>2, <1>7 DEF Runs
<1> QED
  BY <1>5, <1>6, <1>8 DEF out

LEMMA NameHasLetters ==
    ASSUME NEW t \in Name PROVE t \in Seq(Letter) /\ Marker \notin ToSet(t)
BY TextHasLetters DEF Name

\* A directory and what is in it, as one path.
LEMMA PathHasLetters ==
    ASSUME NEW d \in Seq(Letter), NEW b \in Seq(Letter), Marker \notin ToSet(d), Marker \notin ToSet(b)
    PROVE  d \o b \in Seq(Letter) /\ Marker \notin ToSet(d \o b)
<1> DEFINE path == d \o b
<1>1. /\ path \in Seq(Letter) /\ Len(path) = Len(d) + Len(b)
      /\ \A i \in 1..Len(d) + Len(b) : path[i] = IF i <= Len(d) THEN d[i] ELSE b[i - Len(d)]
  BY ConcatProperties
<1>2. /\ Len(d) \in Nat /\ Len(b) \in Nat
      /\ DOMAIN d = 1..Len(d) /\ DOMAIN b = 1..Len(b)
  OBVIOUS
<1> HIDE DEF path
<1>3. DOMAIN path = 1..Len(d) + Len(b)
  BY <1>1
<1>4. ASSUME NEW i \in 1..Len(d) + Len(b) PROVE path[i] # Marker
  <2>1. CASE i <= Len(d)
    BY <1>1, <1>2, <2>1 DEF ToSet
  <2>2. CASE ~(i <= Len(d))
    <3>1. i - Len(d) \in 1..Len(b)
      BY <1>2, <2>2
    <3> QED
      BY <1>1, <1>2, <2>2, <3>1 DEF ToSet
  <2> QED
    BY <2>1, <2>2
<1>5. Marker \notin ToSet(path)
  BY <1>3, <1>4 DEF ToSet
<1> QED
  BY <1>1, <1>5 DEF path

\* What a machine is known by.
LEMMA MachineNames ==
    ASSUME start \in Starts
    PROVE  LET id == CurrentIdentity(start.machine) IN
           id.HomeDir \in Names /\ id.Username \in Names /\ id.Hostname \in Names
<1> DEFINE m == start.machine
           id == CurrentIdentity(m)
<1>1. /\ m.hostname \in Name \cup {None} /\ m.user \in Name \cup {None}
      /\ m.home \in [dir : Name, base : Name] \cup {None}
  BY MachineAssumption
<1>2. ASSUME NEW t \in Name \cup {None} PROVE t \in Names
  BY NameHasLetters DEF Names
<1>3. ASSUME m.home # None PROVE m.home.base \in Names /\ m.home.dir \o m.home.base \in Names
  <2>1. m.home.dir \in Name /\ m.home.base \in Name
    BY <1>1, <1>3
  <2> HIDE DEF m
  <2>2. m.home.dir \o m.home.base \in Seq(Letter) /\ Marker \notin ToSet(m.home.dir \o m.home.base)
    BY <2>1, NameHasLetters, PathHasLetters
  <2> QED
    BY <1>2, <2>1, <2>2 DEF Names
<1>4. /\ id.HomeDir = IF m.home # None THEN m.home.dir \o m.home.base ELSE None
      /\ id.Hostname = m.hostname
      /\ id.Username = IF m.user # None THEN m.user
                       ELSE IF m.home # None THEN m.home.base
                       ELSE None
  BY DEF CurrentIdentity
<1>5. None \in Names
  BY DEF Names
<1> HIDE DEF m, id
<1> QED
  BY <1>1, <1>2, <1>3, <1>4, <1>5 DEF m, id

\* The same of a text by its value.
LEMMA WithoutName == ASSUME NEW old, NEW s PROVE Without(old, s) = replaceFold(s, old)
BY DEF Without

\* What is between two markers stood in the text, and outside a name it was spared by.
LEMMA BetweenStands ==
    ASSUME NEW out \in Seq(Letter), NEW s \in Seq(Letter), NEW k \in DOMAIN out, NEW l \in DOMAIN out,
           Between(out, k, l), NEW j \in 1..Len(s), Same(out, k, s, j, l - k + 1)
    PROVE  Stands(SubSeq(out, k, l), s, j)
<1> DEFINE part == SubSeq(out, k, l)
           n == l - k + 1
<1>1. DOMAIN out = 1..Len(out) /\ Len(out) \in Nat /\ k <= l /\ n \in Nat
  BY DEF Between
<1>2. /\ part \in Seq(Letter) /\ Len(part) = n
      /\ \A m \in 1..n : part[m] = out[k + m - 1]
  BY <1>1, SubSeqProperties
<1> HIDE DEF part
<1>3. DOMAIN part = 1..n
  BY <1>2
<1>4. j + n - 1 <= Len(s) /\ \A m \in 1..n : out[k + m - 1] = s[j + m - 1]
  BY DEF Same
<1>5. Stands(part, s, j)
  BY <1>2, <1>3, <1>4 DEF Stands
<1> QED
  BY <1>5 DEF part

LEMMA BetweenClear ==
    ASSUME NEW s \in Seq(Letter), NEW old \in Seq(Letter), NEW j \in 1..Len(s), NEW n \in Nat,
           Clear(old, s, 1, j, n), NEW i \in DOMAIN s, Stands(old, s, i)
    PROVE  (j..j + n - 1) \cap (i..i + Len(old) - 1) = {}
<1> SUFFICES ASSUME NEW h \in j..j + n - 1, h \in i..i + Len(old) - 1 PROVE FALSE
  OBVIOUS
<1>1. i \in 1..Len(s) /\ i >= 1 /\ Len(old) \in Nat
  OBVIOUS
<1>2. h - j + 1 \in 1..n /\ j + (h - j + 1) - 1 = h
  OBVIOUS
<1>3. Outside(old, s, 1, h)
  BY <1>2 DEF Clear
<1> QED
  BY <1>1, <1>3 DEF Outside

\* What is left of a text is clean (redact.go text).  The three names go one after the
\* other; the first of them that stands in the text finds it as it was, and the letters
\* it spares are all that is left for the others.
LEMMA TextIsClean ==
    ASSUME start \in Starts, NEW s \in Seq(Letter)
    PROVE  Clean(text(Everything, s, CurrentIdentity(start.machine)), s)
<1> DEFINE id == CurrentIdentity(start.machine)
           home == id.HomeDir
           user == id.Username
           host == id.Hostname
           unhomed == replaceFold(s, home)
           unnamed == replaceFold(unhomed, user)
           unhosted == replaceFold(unnamed, host)
           out == Unaddressed(unhosted)
<1> SUFFICES ASSUME Wide \notin ToSet(s) PROVE Clean(text(Everything, s, id), s)
  BY DEF Clean
<1>0. home \in Names /\ user \in Names /\ host \in Names
  BY MachineNames
<1>1. text(Everything, s, id) = out
  <2>1. \A old, x : Without(old, x) = replaceFold(x, old)
    BY WithoutName
  <2> QED
    BY <2>1 DEF text, Everything
<1>2. names = <<home, user, host>>
  BY DEF names
<1>3. \A name \in Identifying : name \in {home, user, host} /\ Sought(name)
  BY <1>2 DEF Identifying, ToSet
<1> HIDE DEF id, home, user, host
<1>4. /\ Runs(unhomed, s)
      /\ Sought(home) => Nowhere(home, unhomed)
      /\ Sought(home) /\ Apart(home) => Spared(unhomed, s, home)
      /\ (Sought(home) => Nowhere(home, s)) => unhomed = s
  BY <1>0, FoldedText
<1> HIDE DEF unhomed
<1>5. unhomed \in Seq(Letter) /\ Wide \notin ToSet(unhomed)
  BY <1>4, RunsNarrow DEF Runs
<1>6. /\ Runs(unnamed, unhomed)
      /\ Sought(user) => Nowhere(user, unnamed)
      /\ Sought(user) /\ Apart(user) => Spared(unnamed, unhomed, user)
      /\ (Sought(user) => Nowhere(user, unhomed)) => unnamed = unhomed
  BY <1>0, <1>5, FoldedText
<1> HIDE DEF unnamed
<1>7. unnamed \in Seq(Letter) /\ Wide \notin ToSet(unnamed)
  BY <1>5, <1>6, RunsNarrow DEF Runs
<1>8. /\ Runs(unhosted, unnamed)
      /\ Sought(host) => Nowhere(host, unhosted)
      /\ Sought(host) /\ Apart(host) => Spared(unhosted, unnamed, host)
  BY <1>0, <1>7, FoldedText
<1> HIDE DEF unhosted
<1>9. Runs(out, unhosted) /\ ToSet(out) \cap Addresses = {}
  BY <1>8, UnaddressedText DEF Runs
<1> HIDE DEF out
<1>10. Runs(out, unnamed) /\ Runs(out, unhomed) /\ Runs(out, s)
  BY <1>4, <1>6, <1>8, <1>9, RunsOn
<1>11. out \in Seq(Letter) /\ DOMAIN out = 1..Len(out) /\ DOMAIN s = 1..Len(s) /\ Len(out) \in Nat
  BY <1>9 DEF Runs
<1>12. ASSUME NEW name \in Identifying, NEW i \in DOMAIN out, Stands(name, out, i) PROVE FALSE
  <2>1. name \in Seq(Letter) /\ Marker \notin ToSet(name) /\ Sought(name)
    BY <1>0, <1>3 DEF Names, Sought
  <2>2. /\ \E j \in 1..Len(unhomed) : Stands(name, unhomed, j)
        /\ \E j \in 1..Len(unnamed) : Stands(name, unnamed, j)
        /\ \E j \in 1..Len(unhosted) : Stands(name, unhosted, j)
    BY <1>9, <1>10, <1>11, <1>12, <2>1, RunsHold
  <2> QED
    BY <1>3, <1>4, <1>6, <1>8, <2>1, <2>2 DEF Nowhere
<1>13. ASSUME NEW n \in 1..3, First(n, s), Apart(names[n]) PROVE Spared(out, s, names[n])
  <2>1. CASE n = 1
    <3>1. names[n] = home /\ Sought(home)
      BY <1>2, <1>13, <2>1 DEF First
    <3> QED
      BY <1>4, <1>10, <1>13, <3>1, SparedOn
  <2>2. CASE n = 2
    <3>1. names[n] = user /\ Sought(user) /\ names[1] = home
      BY <1>2, <1>13, <2>2 DEF First
    <3>2. 1 \in 1..n - 1
      BY <2>2
    <3>3. unhomed = s
      BY <1>4, <1>11, <1>13, <3>1, <3>2 DEF First, Nowhere
    <3> QED
      BY <1>6, <1>10, <1>13, <3>1, <3>3, SparedOn
  <2>3. CASE n = 3
    <3>1. names[n] = host /\ Sought(host) /\ names[1] = home /\ names[2] = user
      BY <1>2, <1>13, <2>3 DEF First
    <3>2. 1 \in 1..n - 1 /\ 2 \in 1..n - 1
      BY <2>3
    <3>3. unhomed = s
      BY <1>4, <1>11, <1>13, <3>1, <3>2 DEF First, Nowhere
    <3>4. unnamed = s
      BY <1>6, <1>11, <1>13, <3>1, <3>2, <3>3 DEF First, Nowhere
    <3> QED
      BY <1>8, <1>9, <1>13, <3>1, <3>4, SparedOn
  <2> QED
    BY <2>1, <2>2, <2>3
<1>14. \A n, m \in 1..3 : First(n, s) /\ First(m, s)
          /\ (\E i \in DOMAIN s : Stands(names[n], s, i))
          /\ (\E i \in DOMAIN s : Stands(names[m], s, i)) => n = m
  <2> SUFFICES ASSUME NEW n \in 1..3, NEW m \in 1..3, n < m, First(n, s), First(m, s),
                      NEW i \in DOMAIN s, Stands(names[n], s, i)
               PROVE  FALSE
    OBVIOUS
  <2>1. n \in 1..m - 1
    OBVIOUS
  <2> QED
    BY <2>1 DEF First
<1>15. ASSUME NEW k \in DOMAIN out, NEW l \in DOMAIN out, Between(out, k, l)
       PROVE  \E j \in DOMAIN s :
                 /\ Stands(SubSeq(out, k, l), s, j)
                 /\ \A n \in 1..3 : First(n, s) /\ Apart(names[n]) =>
                       \A i \in DOMAIN s : Stands(names[n], s, i) =>
                          (j..j + l - k) \cap (i..i + Len(names[n]) - 1) = {}
  <2>0. k \in 1..Len(out) /\ l \in 1..Len(out) /\ k <= l /\ l - k + 1 \in Nat
    BY <1>11, <1>15 DEF Between
  <2>1. Unmarked(out, k, l - k + 1)
    <3>1. k + (l - k + 1) - 1 = l /\ \A m \in 1..l - k + 1 : k + m - 1 \in k..l
      BY <1>11, <2>0
    <3> QED
      BY <1>11, <1>15, <2>0, <3>1 DEF Unmarked, Between
  <2>2. CASE \E n \in 1..3 : First(n, s) /\ Apart(names[n]) /\ \E i \in DOMAIN s : Stands(names[n], s, i)
    <3>1. PICK n \in 1..3 :
             First(n, s) /\ Apart(names[n]) /\ \E i \in DOMAIN s : Stands(names[n], s, i)
      BY <2>2
    <3>2. names[n] \in Seq(Letter)
      BY <1>0, <1>2, <3>1 DEF First, Sought, Names
    <3>3. PICK j \in 1..Len(s) :
             Same(out, k, s, j, l - k + 1) /\ Clear(names[n], s, 1, j, l - k + 1)
      BY <1>13, <2>0, <2>1, <3>1 DEF Spared
    <3>4. Stands(SubSeq(out, k, l), s, j)
      BY <1>11, <1>15, <3>3, BetweenStands
    <3>5. j + l - k = j + (l - k + 1) - 1
      BY <2>0
    <3>6. \A i \in DOMAIN s : Stands(names[n], s, i) =>
             (j..j + l - k) \cap (i..i + Len(names[n]) - 1) = {}
      BY <2>0, <3>2, <3>3, <3>5, BetweenClear
    <3>7. ASSUME NEW m \in 1..3, First(m, s), NEW i \in DOMAIN s, Stands(names[m], s, i)
          PROVE  m = n
      BY <1>14, <3>1, <3>7
    <3> QED
      BY <1>11, <3>4, <3>6, <3>7
  <2>3. CASE ~\E n \in 1..3 : First(n, s) /\ Apart(names[n]) /\ \E i \in DOMAIN s : Stands(names[n], s, i)
    <3>1. PICK j \in 1..Len(s) : Same(out, k, s, j, l - k + 1)
      BY <1>10, <2>0, <2>1 DEF Runs
    <3>2. Stands(SubSeq(out, k, l), s, j)
      BY <1>11, <1>15, <3>1, BetweenStands
    <3> QED
      BY <1>11, <2>3, <3>2
  <2> QED
    BY <2>2, <2>3
<1>16. Clean(out, s)
  BY <1>9, <1>12, <1>15 DEF Clean
<1> QED
  BY <1>1, <1>16 DEF id

-----------------------------------------------------------------------------
\* A leaf of the evidence, an argument and a result, cleaned.
LEMMA LeafIsClean ==
    ASSUME start \in Starts, NEW leaf \in Leaf
    PROVE  LET id == CurrentIdentity(start.machine) IN
           /\ CleanLeaf(walk(Everything, leaf, id), leaf,
                        serialFields \cup hostnameFields \cup usernameFields \cup addressFields)
           /\ CleanLeaf(Argument(Everything, leaf, id), leaf, {})
<1> DEFINE id == CurrentIdentity(start.machine)
           shape == text(Everything, leaf.value, id)
           hidden == serialFields \cup hostnameFields \cup usernameFields \cup addressFields
<1>1. leaf = [field |-> leaf.field, kind |-> leaf.kind, value |-> leaf.value, number |-> leaf.number]
      /\ leaf.value \in Seq(STRING)
  BY DEF Leaf
<1>2. Clean(shape, leaf.value)
  BY <1>1, TextHasLetters, TextIsClean
<1> HIDE DEF id, shape
<1>3. fieldIsRedacted(Everything, leaf.field) <=> leaf.field \in hidden
  BY DEF fieldIsRedacted, Everything
<1>4. ASSUME leaf.kind = "string"
      PROVE  /\ walk(Everything, leaf, id).value =
                    IF leaf.field \in hidden THEN <<Marker>> ELSE shape
             /\ Argument(Everything, leaf, id).value = shape
  <2>1. \A x : [leaf EXCEPT !.value = x].value = x
    BY <1>1
  <2>2. walk(Everything, leaf, id) =
          [leaf EXCEPT !.value = IF fieldIsRedacted(Everything, leaf.field) THEN <<Marker>> ELSE shape]
    BY <1>4 DEF walk, shape
  <2>3. Argument(Everything, leaf, id) = [leaf EXCEPT !.value = shape]
    BY <1>4 DEF Argument, shape
  <2> QED
    BY <1>3, <2>1, <2>2, <2>3
<1>5. CleanLeaf(walk(Everything, leaf, id), leaf, hidden)
  BY <1>2, <1>4 DEF CleanLeaf
<1>6. CleanLeaf(Argument(Everything, leaf, id), leaf, {})
  BY <1>2, <1>4 DEF CleanLeaf
<1> QED
  BY <1>5, <1>6 DEF id

LEMMA ResultIsClean ==
    ASSUME start \in Starts, NEW res \in Result
    PROVE  CleanResult(Cleaned(Everything, res, CurrentIdentity(start.machine)), res)
<1> DEFINE id == CurrentIdentity(start.machine)
           out == Cleaned(Everything, res, id)
           leaves == detail(Everything, res.detail, id)
           args == [i \in DOMAIN res.args |-> Argument(Everything, res.args[i], id)]
           err == text(Everything, res.err, id)
<1>1. /\ res = [CheckID |-> res.CheckID, severity |-> res.severity, detail |-> res.detail,
                args |-> res.args, err |-> res.err]
      /\ res.detail \in Seq(Leaf) /\ res.args \in Seq(Leaf) /\ res.err \in Seq(STRING)
  BY DEF Result
<1>2. out = [res EXCEPT !.detail = leaves, !.args = args, !.err = err]
  BY DEF Cleaned
<1>3. Clean(err, res.err)
  BY <1>1, TextHasLetters, TextIsClean
<1>4. /\ DOMAIN leaves = DOMAIN res.detail
      /\ \A i \in DOMAIN res.detail :
            CleanLeaf(leaves[i], res.detail[i],
                      serialFields \cup hostnameFields \cup usernameFields \cup addressFields)
  <2>1. leaves = [i \in DOMAIN res.detail |-> walk(Everything, res.detail[i], id)]
    BY DEF detail
  <2>2. \A i \in DOMAIN res.detail : res.detail[i] \in Leaf
    BY <1>1
  <2> HIDE DEF leaves
  <2> QED
    BY <2>1, <2>2, LeafIsClean
<1>5. /\ DOMAIN args = DOMAIN res.args
      /\ \A i \in DOMAIN res.args : CleanLeaf(args[i], res.args[i], {})
  <2>1. \A i \in DOMAIN res.args : res.args[i] \in Leaf
    BY <1>1
  <2> QED
    BY <2>1, LeafIsClean
<1> HIDE DEF leaves, args, err
<1>6. /\ out.CheckID = res.CheckID /\ out.detail = leaves /\ out.args = args /\ out.err = err
  BY <1>1, <1>2
<1> HIDE DEF out
<1>7. CleanResult(out, res)
  BY <1>3, <1>4, <1>5, <1>6 DEF CleanResult
<1> QED
  BY <1>7 DEF out

\* Each result of what is sent or written is one of the snapshot, cleaned.
Safe(out) == snap # None /\ \E res \in ToSet(snap.results) : CleanResult(out, res)

LEMMA RedactedIsSafe ==
    ASSUME start \in Starts, snap \in Report, snap # None
    PROVE  \A out \in ToSet(redacted.results) : Safe(out)
<1> DEFINE id == CurrentIdentity(start.machine)
           u == [i \in DOMAIN snap.results |-> Cleaned(Everything, snap.results[i], id)]
<1>1. /\ snap = [results |-> snap.results, skipped |-> snap.skipped]
      /\ \A i \in DOMAIN snap.results : snap.results[i] \in Result
  BY DEF Report
<1>2. redacted = [snap EXCEPT !.results = u]
  BY DEF redacted, Snapshot, Everything
<1>3. redacted.results = u
  BY <1>1, <1>2
<1>4. ASSUME NEW i \in DOMAIN snap.results PROVE Safe(u[i])
  <2>1. snap.results[i] \in ToSet(snap.results)
    BY DEF ToSet
  <2>2. CleanResult(Cleaned(Everything, snap.results[i], id), snap.results[i])
    BY <1>1, ResultIsClean
  <2> QED
    BY <2>1, <2>2 DEF Safe
<1> HIDE DEF id
<1> QED
  BY <1>3, <1>4 DEF ToSet

-----------------------------------------------------------------------------
\* The bundle after its first N files: what Attached computes, told without it.
AfterFiles(f, t, files, N) ==
    f = [n \in 0..N |-> IF n = 0 THEN t ELSE Attach(f[n - 1], files[n])]

\* There is such a function, which is why Attached is one.
LEMMA BundlesExist ==
    ASSUME NEW t, NEW files, NEW N \in Nat
    PROVE  \E f : AfterFiles(f, t, files, N)
<1> DEFINE P == {n \in 0..N : \E f : AfterFiles(f, t, files, n)}
<1>1. 0 \in P
  <2>1. PICK f : f = [n \in 0..0 |-> t]
    OBVIOUS
  <2>2. AfterFiles(f, t, files, 0)
    BY <2>1 DEF AfterFiles
  <2> QED
    BY <2>2
<1>2. ASSUME NEW n \in 0..N, n # N, n \in P PROVE n + 1 \in P
  <2>1. PICK f : AfterFiles(f, t, files, n)
    BY <1>2
  <2> DEFINE g == [m \in 0..n + 1 |-> IF m = n + 1 THEN Attach(f[n], files[n + 1]) ELSE f[m]]
  <2>2. \A m \in 0..n : f[m] = IF m = 0 THEN t ELSE Attach(f[m - 1], files[m])
    BY <2>1 DEF AfterFiles
  <2>3. ASSUME NEW m \in 0..n + 1
        PROVE  g[m] = IF m = 0 THEN t ELSE Attach(g[m - 1], files[m])
    <3>1. CASE m = n + 1
      <4>1. n \in 0..n + 1 /\ n # n + 1 /\ m - 1 = n /\ m # 0
        BY <3>1
      <4>2. g[m] = Attach(f[n], files[n + 1]) /\ g[m - 1] = f[n]
        BY <3>1, <4>1
      <4> QED
        BY <3>1, <4>1, <4>2
    <3>2. CASE m = 0
      <4>1. m # n + 1 /\ m \in 0..n
        BY <3>2
      <4>2. g[m] = f[m]
        BY <4>1
      <4> QED
        BY <2>2, <3>2, <4>1, <4>2
    <3>3. CASE m \in 1..n
      <4>1. m \in 0..n /\ m - 1 \in 0..n /\ m - 1 \in 0..n + 1 /\ m # n + 1 /\ m - 1 # n + 1 /\ m # 0
        BY <3>3
      <4>2. g[m] = f[m] /\ g[m - 1] = f[m - 1]
        BY <4>1
      <4> QED
        BY <2>2, <4>1, <4>2
    <3> QED
      BY <3>1, <3>2, <3>3
  <2>4. g = [m \in 0..n + 1 |-> IF m = 0 THEN t ELSE Attach(g[m - 1], files[m])]
    <3>1. g = [m \in 0..n + 1 |-> g[m]]
      OBVIOUS
    <3> HIDE DEF g
    <3> QED
      BY <2>3, <3>1
  <2>5. AfterFiles(g, t, files, n + 1)
    BY <2>4 DEF AfterFiles
  <2>6. n + 1 \in 0..N
    BY <1>2
  <2> HIDE DEF g
  <2> QED
    BY <2>5, <2>6
<1>3. \A n \in 0..N : n \in P
  <2> HIDE DEF P
  <2> QED
    BY <1>1, <1>2, Induct
<1> QED
  BY <1>3

\* The files that are attached leave the snapshot of a bundle alone.
Holds(t, s) == t = None \/ ("snapshot" \in DOMAIN t /\ t.snapshot = s)

LEMMA AttachedHolds ==
    ASSUME NEW t, NEW s, Holds(t, s), NEW files, Len(files) \in Nat
    PROVE  Holds(Attached(t, files), s)
<1> DEFINE N == Len(files)
           after == CHOOSE f : AfterFiles(f, t, files, N)
           P == {n \in 0..N : Holds(after[n], s)}
<1>1. AfterFiles(after, t, files, N)
  BY BundlesExist
<1>2. Attached(t, files) = after[N]
  BY DEF Attached, AfterFiles
<1> HIDE DEF after
<1>3. \A n \in 0..N : after[n] = IF n = 0 THEN t ELSE Attach(after[n - 1], files[n])
  BY <1>1 DEF AfterFiles
<1>4. 0 \in P
  BY <1>3
<1>5. ASSUME NEW n \in 0..N, n # N, n \in P PROVE n + 1 \in P
  <2>1. n + 1 \in 0..N /\ n + 1 # 0 /\ (n + 1) - 1 = n
    BY <1>5, NextUp
  <2>2. after[n + 1] = Attach(after[n], files[n + 1])
    BY <1>3, <2>1
  <2>3. ASSUME NEW u, Holds(u, s), NEW file PROVE Holds(Attach(u, file), s)
    BY <2>3 DEF Holds, Attach
  <2> QED
    BY <1>5, <2>1, <2>2, <2>3
<1>6. \A n \in 0..N : n \in P
  <2> HIDE DEF P
  <2> QED
    BY <1>4, <1>5, Induct
<1> QED
  BY <1>2, <1>6

LEMMA BundleHolds ==
    ASSUME start \in Starts PROVE Bundle # None => Bundle.snapshot = redacted
<1>1. Len(opts.attach) \in Nat
  BY AttachAssumption DEF opts
<1>2. Holds(New(redacted, opts.describe), redacted)
  BY DEF Holds, New
<1> QED
  BY <1>1, <1>2, AttachedHolds DEF Bundle, Holds

\* Neither what is sent nor what is left in a file names the machine, its account, its
\* serial numbers or its addresses, wherever in the evidence they were and whatever the
\* names are, nor does a part of a path give its owner away (redact.go).
THEOREM Leaving == Spec => []NothingIdentifyingLeaves
<1>1. ASSUME FileInv, LeaveInv PROVE NothingIdentifyingLeaves
  <2>1. start \in Starts /\ (snap # None => snap \in Report)
    BY TakenIsReport, <1>1 DEF FileInv
  <2>2. snap # None => \A out \in ToSet(redacted.results) : Safe(out)
    BY <2>1, RedactedIsSafe
  <2>3. snap # None => ToSet(buildPage(redacted).results) = ToSet(redacted.results)
    BY <2>1, PageOfRedacted
  <2>4. ToSet(buildPage(Earlier).results) = ToSet(Earlier.results)
    BY PageOf, SnapshotAssumption
  <2>5. ASSUME NEW i \in DOMAIN done, done[i].what = "send", NEW out \in ToSet(done[i].on.body.results)
        PROVE  Safe(out)
    <3>1. done[i] \in ToSet(done)
      BY DEF ToSet
    <3> QED
      BY <1>1, <2>2, <2>5, <3>1 DEF LeaveInv
  <2>6. ASSUME disk.ticket \notin {None, Part},
               NEW body \in {disk.ticket.json, disk.ticket.html}, NEW out \in ToSet(body.results)
        PROVE  Safe(out)
    <3>1. snap # None /\ Bundle # None /\ disk.ticket = Write(Bundle)
      BY <1>1, <2>6 DEF LeaveInv
    <3>2. Bundle.snapshot = redacted
      BY <2>1, <3>1, BundleHolds
    <3>3. disk.ticket.json = redacted /\ disk.ticket.html = buildPage(redacted)
      BY <3>1, <3>2 DEF Write
    <3> QED
      BY <2>2, <2>3, <2>6, <3>1, <3>3
  <2>7. ASSUME NEW file \in {disk.html, disk.json}, NEW out \in ToSet(file.results)
        PROVE  out \in ToSet(Earlier.results) \/ Safe(out)
    BY <1>1, <2>2, <2>3, <2>4, <2>7 DEF LeaveInv
  <2> QED
    BY <2>5, <2>6, <2>7 DEF NothingIdentifyingLeaves, Safe
<1> QED
  BY <1>1, Inductive, PTL DEF IInv
=============================================================================
