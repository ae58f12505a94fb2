----------------------------- MODULE FleetReport -----------------------------
(***************************************************************************)
(* A machine reports itself to a fleet server: sendReport of               *)
(* cmd/supportone-agent/enrol.go, internal/enrol/enrol.go, and on the      *)
(* other side handleReport and Store.Put of internal/fleet.                *)
(*                                                                         *)
(* A report is one run of the agent and names one machine.  Requests and   *)
(* answers may be lost; a request may reach the server after its sender    *)
(* gave up, because the server does not look.  The server serves requests  *)
(* together, and its store takes one lock for read, merge and write.       *)
(***************************************************************************)
EXTENDS Integers, Sequences, FiniteSets

CONSTANTS
    Machine,
    Report,         \* bound: the reports one model run may send
    MachineOf,      \* MachineOf[r]: the machine the report r names
    NoReport,
    MaxHistory,     \* the reports kept per machine
    MaxTime         \* bound on the server's clock

ASSUME ReportAssumption ==
    /\ MachineOf \in [Report -> Machine]
    /\ NoReport \notin Report

ASSUME BoundAssumption == MaxHistory \in Nat \ {0} /\ MaxTime \in Nat

VARIABLES
    pc,         \* pc[r]: where the agent that sends r is
    wire,       \* the requests on their way
    log,        \* the agents' DATA_SENT lines
    clock,
    handler,    \* handler[r]: where the request r is on the server
    received,   \* received[r]: the time handleReport took for it
    lock,       \* the request that holds Store.mu
    draft,      \* draft[r]: the merged history its Put is to write
    file,       \* file[m]: Machine.History on the disk, as entries
    lastSeen,   \* lastSeen[m]: Machine.LastSeen on the disk
    filed,      \* filed[m]: history: the reports renamed into place, in order
    calm        \* in this behaviour requests reach the server one at a time

agentVars == <<pc, wire, log>>
storeVars == <<lock, draft, file, lastSeen, filed>>
vars == <<pc, wire, log, clock, handler, received, lock, draft, file, lastSeen,
          filed, calm>>

PC == {"new", "shown", "posting", "answered", "failed", "done", "discarded", "gone"}
Handler == {"none", "received", "merged", "stored", "refused", "answered", "dead"}

Entry == [report : Report, time : 0..MaxTime]
History == {<<>>} \cup UNION {[1..n -> Entry] : n \in 1..MaxHistory}

Init ==
    /\ pc = [r \in Report |-> "new"]
    /\ wire = {}
    /\ log = {}
    /\ clock = 0
    /\ handler = [r \in Report |-> "none"]
    /\ received = [r \in Report |-> 0]
    /\ lock = NoReport
    /\ draft = [r \in Report |-> <<>>]
    /\ file = [m \in Machine |-> <<>>]
    /\ lastSeen = [m \in Machine |-> 0]
    /\ filed = [m \in Machine |-> <<>>]
    /\ calm \in BOOLEAN

Goto(r, l) == pc' = [pc EXCEPT ![r] = l]
Serve(r, l) == handler' = [handler EXCEPT ![r] = l]
Served(r) == handler[r] \in {"received", "merged"}
InHand(r) == Served(r) \/ handler[r] \in {"stored", "refused"}

-----------------------------------------------------------------------------
(* The agent. *)

\* The payload is built, kept under its token and shown in full; a payload that
\* may not be sent is refused here and changes nothing.
Prepare(r) ==
    /\ pc[r] = "new"
    /\ Goto(r, "shown")
    /\ UNCHANGED <<wire, log, clock, handler, received, calm>>
    /\ UNCHANGED storeVars

\* Anything but the word that was asked for.
Discard(r) ==
    /\ pc[r] = "shown"
    /\ Goto(r, "discarded")
    /\ UNCHANGED <<wire, log, clock, handler, received, calm>>
    /\ UNCHANGED storeVars

\* One agreement, one send: the token is consumed, then the request goes out.
Send(r) ==
    /\ pc[r] = "shown"
    /\ Goto(r, "posting")
    /\ wire' = wire \cup {r}
    /\ UNCHANGED <<log, clock, handler, received, calm>>
    /\ UNCHANGED storeVars

PostFailsAndRetries(r) ==    \* mutant: no answer in time, so it is sent once more
    /\ pc[r] = "posting"
    /\ handler[r] = "stored"
    /\ wire' = wire \cup {r}
    /\ handler' = [handler EXCEPT ![r] = "none"]
    /\ UNCHANGED <<pc, log, clock, received, calm>>
    /\ UNCHANGED storeVars

\* No answer in time, or none that can be read: wherever the request is by now.
PostFails(r) ==
    /\ pc[r] = "posting"
    /\ Goto(r, "failed")
    /\ UNCHANGED <<wire, log, clock, handler, received, calm>>
    /\ UNCHANGED storeVars

RecordDeliveredOnly(r) ==    \* mutant: the error returns before the line
    /\ pc[r] \in {"answered", "failed"}
    /\ log' = IF pc[r] = "answered" THEN log \cup {[report |-> r, delivered |-> TRUE]}
                                    ELSE log
    /\ Goto(r, "done")
    /\ UNCHANGED <<wire, clock, handler, received, calm>>
    /\ UNCHANGED storeVars

\* The bytes left, whether or not the server accepted them.
Record(r) ==
    /\ pc[r] \in {"answered", "failed"}
    /\ log' = log \cup {[report |-> r, delivered |-> pc[r] = "answered"]}
    /\ Goto(r, "done")
    /\ UNCHANGED <<wire, clock, handler, received, calm>>
    /\ UNCHANGED storeVars

\* The terminal is closed: the process is gone, the pending payload with it.
AgentEnds(r) ==
    /\ pc[r] \in {"shown", "posting", "answered", "failed"}
    /\ Goto(r, IF pc[r] = "shown" THEN "discarded" ELSE "gone")
    /\ UNCHANGED <<wire, log, clock, handler, received, calm>>
    /\ UNCHANGED storeVars

Lose(r) ==
    /\ r \in wire
    /\ wire' = wire \ {r}
    /\ UNCHANGED <<pc, log, clock, handler, received, calm>>
    /\ UNCHANGED storeVars

-----------------------------------------------------------------------------
(* The server. *)

\* The body was read; the time is taken before Put takes the lock.
Arrive(r) ==
    /\ calm => \A q \in Report : ~Served(q)
    /\ r \in wire
    /\ handler[r] = "none"
    /\ wire' = wire \ {r}
    /\ received' = [received EXCEPT ![r] = clock]
    /\ Serve(r, "received")
    /\ UNCHANGED <<pc, log, clock, calm>>
    /\ UNCHANGED storeVars

CappedKeepingOldest(h) ==    \* mutant: the wrong end is cut off
    IF Len(h) > MaxHistory THEN Tail(h) ELSE h

\* Newest first, the oldest dropped.
Capped(h) == SubSeq(h, 1, IF Len(h) > MaxHistory THEN MaxHistory ELSE Len(h))

Merged(r) ==
    Capped(<<[report |-> r, time |-> received[r]]>> \o file[MachineOf[r]])

MergeUnlocked(r) ==    \* mutant: the record is read before the lock is taken
    /\ handler[r] = "received"
    /\ lock' = r
    /\ draft' = [draft EXCEPT ![r] = Merged(r)]
    /\ Serve(r, "merged")
    /\ UNCHANGED <<clock, received, file, lastSeen, filed, calm>>
    /\ UNCHANGED agentVars

\* With the lock: what is on the disk is read and the report put before it.
Merge(r) ==
    /\ handler[r] = "received"
    /\ lock = NoReport
    /\ lock' = r
    /\ draft' = [draft EXCEPT ![r] = Merged(r)]
    /\ Serve(r, "merged")
    /\ UNCHANGED <<clock, received, file, lastSeen, filed, calm>>
    /\ UNCHANGED agentVars

\* The temporary file, never read by List or Get, is renamed over the record.
Rename(r) ==
    /\ handler[r] = "merged"
    /\ file' = [file EXCEPT ![MachineOf[r]] = draft[r]]
    /\ lastSeen' = [lastSeen EXCEPT ![MachineOf[r]] = received[r]]
    /\ filed' = [filed EXCEPT ![MachineOf[r]] = Append(@, r)]
    /\ lock' = NoReport
    /\ draft' = [draft EXCEPT ![r] = <<>>]
    /\ Serve(r, "stored")
    /\ UNCHANGED <<clock, received, calm>>
    /\ UNCHANGED agentVars

\* The disk refuses; the temporary file is removed and the record is as it was.
WriteFails(r) ==
    /\ handler[r] = "merged"
    /\ lock' = NoReport
    /\ draft' = [draft EXCEPT ![r] = <<>>]
    /\ Serve(r, "refused")
    /\ UNCHANGED <<clock, received, file, lastSeen, filed, calm>>
    /\ UNCHANGED agentVars

\* The answer reaches the agent, if it is still waiting.
Answer(r) ==
    /\ handler[r] \in {"stored", "refused"}
    /\ IF pc[r] = "posting"
       THEN Goto(r, IF handler[r] = "stored" THEN "answered" ELSE "failed")
       ELSE UNCHANGED pc
    /\ Serve(r, "answered")
    /\ UNCHANGED <<wire, log, clock, received, calm>>
    /\ UNCHANGED storeVars

\* The server ends at any moment and is started again over the same directory.
ServerRestarts ==
    /\ \E r \in Report : InHand(r)
    /\ handler' = [r \in Report |-> IF InHand(r) THEN "dead" ELSE handler[r]]
    /\ lock' = NoReport
    /\ draft' = [r \in Report |-> <<>>]
    /\ UNCHANGED <<clock, received, file, lastSeen, filed, calm>>
    /\ UNCHANGED agentVars

Tick ==
    /\ clock < MaxTime
    /\ clock' = clock + 1
    /\ UNCHANGED <<handler, received, calm>>
    /\ UNCHANGED agentVars
    /\ UNCHANGED storeVars

Next ==
    \/ \E r \in Report :
          \/ Prepare(r) \/ Discard(r) \/ Send(r) \/ PostFails(r) \/ Record(r)
          \/ AgentEnds(r) \/ Lose(r)
          \/ Arrive(r) \/ Merge(r) \/ Rename(r) \/ WriteFails(r) \/ Answer(r)
    \/ ServerRestarts
    \/ Tick

Spec == Init /\ [][Next]_vars
-----------------------------------------------------------------------------
TypeOK ==
    /\ pc \in [Report -> PC]
    /\ wire \subseteq Report
    /\ log \subseteq [report : Report, delivered : BOOLEAN]
    /\ clock \in 0..MaxTime
    /\ handler \in [Report -> Handler]
    /\ received \in [Report -> 0..MaxTime]
    /\ lock \in Report \cup {NoReport}
    /\ draft \in [Report -> History]
    /\ file \in [Machine -> History]
    /\ lastSeen \in [Machine -> 0..MaxTime]
    /\ filed \in [Machine -> Seq(Report)]
    /\ calm \in BOOLEAN

\* A fleet view misses no report: whatever requests overlapped, and wherever the
\* server was cut off, a machine's record holds the last MaxHistory reports that
\* were put into place, the latest first, and nothing else (store.go:30, 127-129).
NothingLost ==
    \A m \in Machine :
        LET n == Len(filed[m]) IN
        /\ Len(file[m]) = IF n > MaxHistory THEN MaxHistory ELSE n
        /\ \A i \in 1..Len(file[m]) : file[m][i].report = filed[m][n + 1 - i]

DeliveredIsFiled ==
    \A r \in Report : [report |-> r, delivered |-> TRUE] \in log =>
        \E i \in 1..Len(filed[MachineOf[r]]) : filed[MachineOf[r]][i] = r

\* When the agent's log says a report was delivered, the server has filed it; that
\* it was not may be wrong, as an answer can be lost.  And "the audit records that
\* bytes left the machine, whether or not the server accepted them"
\* (enrol.go:251-252): a send ends with its line in the log, and only the end of
\* the process cuts it short.
LogIsTrue ==
    /\ []DeliveredIsFiled
    /\ [][\A r \in Report : pc[r] \in {"posting", "answered", "failed"} =>
          \/ pc'[r] \in {"posting", "answered", "failed", "gone"}
          \/ \E d \in BOOLEAN : [report |-> r, delivered |-> d] \in log']_vars

\* "History is newest first" (store.go:98) by the times it shows, and LastSeen is
\* the newest of them, while requests are served one at a time; the time is taken
\* before the lock, so of two that overlap the later may be filed first
\* (server.go:240).
NewestFirst ==
    calm => \A m \in Machine :
        /\ \A i \in 1..Len(file[m]) - 1 : file[m][i].time >= file[m][i + 1].time
        /\ file[m] # <<>> => lastSeen[m] = file[m][1].time

(***************************************************************************)
(* Refinement                                                              *)
(***************************************************************************)

decisionOf == [r \in Report |->
    CASE pc[r] = "new" -> "none"
      [] pc[r] = "shown" -> "asked"
      [] pc[r] = "discarded" -> "refused"
      [] OTHER -> "agreed"]
filings == [r \in Report |->
    Cardinality({i \in 1..Len(filed[MachineOf[r]]) : filed[MachineOf[r]][i] = r})]

\* What is filed on the server was shown and agreed to, and is filed once: the
\* sender implements what ConsentGate promises.
Gate == INSTANCE ConsentGate WITH Token <- Report, decision <- decisionOf,
                                  effect <- filings
GateSpec == Gate!Spec
=============================================================================
