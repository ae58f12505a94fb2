----------------------------- MODULE LocalServer -----------------------------
(***************************************************************************)
(* The local server of internal/localui and the assistant behind it        *)
(* (internal/assist): the snapshot a session shows, the payload that is    *)
(* prepared, confirmed and sent, the idle clock and the shutdown.          *)
(*                                                                         *)
(* net/http serves requests together.  Server.mu and Assistant.mu are each *)
(* held for one step: neither is held while the checks run, and neither    *)
(* while a payload is on its way.  A run of checks is known by the order   *)
(* in which the runs began: a later run has newer readings.                *)
(***************************************************************************)
EXTENDS Integers, FiniteSets

CONSTANTS
    Request,        \* bound: the requests of one model run; a payload's token is
                    \* the request that prepared it
    NoRequest,
    IdleTimeout     \* Config.IdleTimeout, in ticks of watchIdle

ASSUME IdleAssumption == IdleTimeout \in Nat \ {0}
ASSUME RequestAssumption == NoRequest \notin Request

VARIABLES
    server,     \* serving, closing (the idle channel is closed), down
    idle,       \* the time since lastSeen, no longer than the timeout
    timer,      \* a page asked to close and the 200 ms are running
    runs,       \* the runs of the checks begun
    snapshot,   \* Server.snapshot: the run it comes from, 0 for nil
    pc,
    kind,       \* kind[r]: which handler serves r
    token,      \* token[r]: the payload an ask or a discard names
    snap,       \* snap[r]: the run whose result the handler holds
    payload,    \* payload[r]: the run the body of the payload was built from
    fate,       \* fate[r]: in Assistant.pending, or how the payload left it
    sends,      \* sends[r]: history: how often the payload left the machine
    sentRun,    \* sentRun[r]: history: the run the bytes sent were built from
    log,        \* the audit lines
    calm        \* in this behaviour one request is served at a time

sessionVars == <<server, idle, timer>>
snapshotVars == <<runs, snapshot, snap>>
assistVars == <<payload, fate, sends, sentRun, log>>
vars == <<server, idle, timer, runs, snapshot, pc, kind, token, snap, payload,
          fate, sends, sentRun, log, calm>>

Showing == {"show", "prepare"}    \* the handlers that call currentSnapshot
Handler == Showing \cup {"refresh", "ask", "discard", "close"}
InFlight == {r \in Request : pc[r] \notin {"new", "done", "killed"}}
Event == {"CHECK_RUN", "CONSENT_ASKED", "CONSENT_DENIED", "DATA_SENT"}
Line(e, r) == [event |-> e, about |-> r]
Write(e, r) == log' = log \cup {Line(e, r)}
Goto(r, l) == pc' = [pc EXCEPT ![r] = l]

Init ==
    /\ server = "serving"
    /\ idle = 0
    /\ timer = FALSE
    /\ runs = 0
    /\ snapshot = 0
    /\ pc = [r \in Request |-> "new"]
    /\ kind = [r \in Request |-> "show"]
    /\ token = [r \in Request |-> NoRequest]
    /\ snap = [r \in Request |-> 0]
    /\ payload = [r \in Request |-> 0]
    /\ fate = [r \in Request |-> "none"]
    /\ sends = [r \in Request |-> 0]
    /\ sentRun = [r \in Request |-> 0]
    /\ log = {}
    /\ calm \in BOOLEAN

-----------------------------------------------------------------------------
(* Requests. *)

\* An authorised request touches the clock once, when it arrives.  A page names
\* only payloads it was shown.
Arrive(r, k, t) ==
    /\ server = "serving"
    /\ calm => InFlight = {}
    /\ pc[r] = "new"
    /\ IF k \in {"ask", "discard"} THEN Line("CONSENT_ASKED", t) \in log ELSE t = r
    /\ idle' = 0
    /\ kind' = [kind EXCEPT ![r] = k]
    /\ token' = [token EXCEPT ![r] = t]
    /\ Goto(r, "arrived")
    /\ UNCHANGED <<server, timer, calm>>
    /\ UNCHANGED snapshotVars
    /\ UNCHANGED assistVars

\* currentSnapshot finds one.
UseSnapshot(r) ==
    /\ pc[r] = "arrived"
    /\ kind[r] \in Showing
    /\ snapshot # 0
    /\ snap' = [snap EXCEPT ![r] = snapshot]
    /\ Goto(r, "has")
    /\ UNCHANGED <<runs, snapshot, kind, token, calm>>
    /\ UNCHANGED sessionVars
    /\ UNCHANGED assistVars

RunChecksAlways(r) ==    \* mutant: what is cached is never looked at
    /\ pc[r] = "arrived"
    /\ kind[r] \in Showing \cup {"refresh"}
    /\ runs' = runs + 1
    /\ snap' = [snap EXCEPT ![r] = runs + 1]
    /\ Goto(r, "running")
    /\ UNCHANGED <<snapshot, kind, token, calm>>
    /\ UNCHANGED sessionVars
    /\ UNCHANGED assistVars

\* currentSnapshot finds none, or handleRefresh: the checks run without the lock.
RunChecks(r) ==
    /\ pc[r] = "arrived"
    /\ kind[r] \in Showing \cup {"refresh"}
    /\ kind[r] \in Showing => snapshot = 0
    /\ runs' = runs + 1
    /\ snap' = [snap EXCEPT ![r] = runs + 1]
    /\ Goto(r, "running")
    /\ UNCHANGED <<snapshot, kind, token, calm>>
    /\ UNCHANGED sessionVars
    /\ UNCHANGED assistVars

\* The result replaces whatever is there by now.
KeepSnapshot(r) ==
    /\ pc[r] = "running"
    /\ snapshot' = snap[r]
    /\ Goto(r, "has")
    /\ UNCHANGED <<runs, snap, kind, token, calm>>
    /\ UNCHANGED sessionVars
    /\ UNCHANGED assistVars

\* The response is written, after the line of a refresh.
Respond(r) ==
    /\ pc[r] = "has"
    /\ kind[r] # "prepare"
    /\ IF kind[r] = "refresh" THEN Write("CHECK_RUN", r) ELSE UNCHANGED log
    /\ Goto(r, "done")
    /\ UNCHANGED <<payload, fate, sends, sentRun, kind, token, calm>>
    /\ UNCHANGED sessionVars
    /\ UNCHANGED snapshotVars

-----------------------------------------------------------------------------
(* The assistant. *)

\* The body is built from the snapshot at hand and kept under a new token.
Prepare(r) ==
    /\ pc[r] = "has"
    /\ kind[r] = "prepare"
    /\ payload' = [payload EXCEPT ![r] = snap[r]]
    /\ fate' = [fate EXCEPT ![r] = "pending"]
    /\ Goto(r, "prepared")
    /\ UNCHANGED <<sends, sentRun, log, kind, token, calm>>
    /\ UNCHANGED sessionVars
    /\ UNCHANGED snapshotVars

\* Switched off, a refused address, a redaction that fails, too large.
PrepareFails(r) ==
    /\ pc[r] = "has"
    /\ kind[r] = "prepare"
    /\ Goto(r, "done")
    /\ UNCHANGED <<kind, token, calm>>
    /\ UNCHANGED sessionVars
    /\ UNCHANGED snapshotVars
    /\ UNCHANGED assistVars

\* CONSENT_ASKED is written and the page gets the payload.
ShowPayload(r) ==
    /\ pc[r] = "prepared"
    /\ Write("CONSENT_ASKED", r)
    /\ Goto(r, "done")
    /\ UNCHANGED <<payload, fate, sends, sentRun, kind, token, calm>>
    /\ UNCHANGED sessionVars
    /\ UNCHANGED snapshotVars

AskTakeKeepingToken(r) ==    \* mutant: the token is not deleted
    /\ pc[r] = "arrived"
    /\ kind[r] = "ask"
    /\ fate[token[r]] \in {"pending", "taken"}
    /\ fate' = [fate EXCEPT ![token[r]] = "taken"]
    /\ Goto(r, "taken")
    /\ UNCHANGED <<payload, sends, sentRun, log, kind, token, calm>>
    /\ UNCHANGED sessionVars
    /\ UNCHANGED snapshotVars

\* One agreement, one send.
AskTake(r) ==
    /\ pc[r] = "arrived"
    /\ kind[r] = "ask"
    /\ fate[token[r]] = "pending"
    /\ fate' = [fate EXCEPT ![token[r]] = "taken"]
    /\ Goto(r, "taken")
    /\ UNCHANGED <<payload, sends, sentRun, log, kind, token, calm>>
    /\ UNCHANGED sessionVars
    /\ UNCHANGED snapshotVars

AskRefused(r) ==
    /\ pc[r] = "arrived"
    /\ kind[r] = "ask"
    /\ fate[token[r]] # "pending"
    /\ Goto(r, "done")
    /\ UNCHANGED <<kind, token, calm>>
    /\ UNCHANGED sessionVars
    /\ UNCHANGED snapshotVars
    /\ UNCHANGED assistVars

SendRebuilt(r) ==    \* mutant: the body is built again when it is sent
    /\ pc[r] = "taken"
    /\ sends' = [sends EXCEPT ![token[r]] = @ + 1]
    /\ sentRun' = [sentRun EXCEPT ![token[r]] = snapshot]
    /\ Goto(r, "sending")
    /\ UNCHANGED <<payload, fate, log, kind, token, calm>>
    /\ UNCHANGED sessionVars
    /\ UNCHANGED snapshotVars

\* The bytes that were kept leave the machine.
Send(r) ==
    /\ pc[r] = "taken"
    /\ sends' = [sends EXCEPT ![token[r]] = @ + 1]
    /\ sentRun' = [sentRun EXCEPT ![token[r]] = payload[token[r]]]
    /\ Goto(r, "sending")
    /\ UNCHANGED <<payload, fate, log, kind, token, calm>>
    /\ UNCHANGED sessionVars
    /\ UNCHANGED snapshotVars

\* The request cannot be built or no connection is made: nothing left, and the
\* line is written all the same.
SendFails(r) ==
    /\ pc[r] = "taken"
    /\ Goto(r, "sending")
    /\ UNCHANGED <<kind, token, calm>>
    /\ UNCHANGED sessionVars
    /\ UNCHANGED snapshotVars
    /\ UNCHANGED assistVars

\* An answer, none in time, or one that cannot be read: the line says which.
Record(r, answered) ==
    /\ pc[r] = "sending"
    /\ answered \in BOOLEAN
    /\ Write("DATA_SENT", token[r])
    /\ Goto(r, "done")
    /\ UNCHANGED <<payload, fate, sends, sentRun, kind, token, calm>>
    /\ UNCHANGED sessionVars
    /\ UNCHANGED snapshotVars

\* A discard never fails, and writes a refusal whatever became of the payload;
\* the line names no payload.
Discard(r) ==
    /\ pc[r] = "arrived"
    /\ kind[r] = "discard"
    /\ fate' = [fate EXCEPT ![token[r]] = IF @ = "pending" THEN "dropped" ELSE @]
    /\ Write("CONSENT_DENIED", r)
    /\ Goto(r, "done")
    /\ UNCHANGED <<payload, sends, sentRun, kind, token, calm>>
    /\ UNCHANGED sessionVars
    /\ UNCHANGED snapshotVars

-----------------------------------------------------------------------------
(* The end of the session. *)

\* Also sent by a page that is left; the timer runs on when r is answered.
AskClose(r) ==
    /\ pc[r] = "arrived"
    /\ kind[r] = "close"
    /\ timer' = TRUE
    /\ Goto(r, "done")
    /\ UNCHANGED <<server, idle, kind, token, calm>>
    /\ UNCHANGED snapshotVars
    /\ UNCHANGED assistVars

Tick ==
    /\ server = "serving"
    /\ idle < IdleTimeout
    /\ idle' = idle + 1
    /\ UNCHANGED <<server, timer, pc, kind, token, calm>>
    /\ UNCHANGED snapshotVars
    /\ UNCHANGED assistVars

WatchIdleBusy ==    \* mutant: the clock is taken to run only between requests
    /\ server = "serving"
    /\ timer \/ (idle >= IdleTimeout /\ InFlight = {})
    /\ server' = "closing"
    /\ UNCHANGED <<idle, timer, pc, kind, token, calm>>
    /\ UNCHANGED snapshotVars
    /\ UNCHANGED assistVars

\* Close is called by watchIdle or by the timer.
WatchIdle ==
    /\ server = "serving"
    /\ timer \/ idle >= IdleTimeout
    /\ server' = "closing"
    /\ UNCHANGED <<idle, timer, pc, kind, token, calm>>
    /\ UNCHANGED snapshotVars
    /\ UNCHANGED assistVars

\* The context of Serve is cancelled: the terminal was interrupted.
Interrupt ==
    /\ server = "serving"
    /\ server' = "closing"
    /\ UNCHANGED <<idle, timer, pc, kind, token, calm>>
    /\ UNCHANGED snapshotVars
    /\ UNCHANGED assistVars

\* Shutdown waits for the requests in flight, but five seconds at most; then the
\* program ends, and what was pending is gone with its memory.
Shutdown ==
    /\ server = "closing"
    /\ server' = "down"
    /\ pc' = [r \in Request |-> IF r \in InFlight THEN "killed" ELSE pc[r]]
    /\ fate' = [r \in Request |-> IF fate[r] = "pending" THEN "dropped" ELSE fate[r]]
    /\ UNCHANGED <<idle, timer, kind, token, calm, payload, sends, sentRun, log>>
    /\ UNCHANGED snapshotVars

Ended ==
    /\ server = "down"
    /\ UNCHANGED vars

Next ==
    \/ \E r \in Request :
          \/ \E k \in Handler, t \in Request : Arrive(r, k, t)
          \/ UseSnapshot(r) \/ RunChecks(r) \/ KeepSnapshot(r) \/ Respond(r)
          \/ Prepare(r) \/ PrepareFails(r) \/ ShowPayload(r)
          \/ AskTake(r) \/ AskRefused(r) \/ Send(r) \/ SendFails(r)
          \/ \E answered \in BOOLEAN : Record(r, answered)
          \/ Discard(r) \/ AskClose(r)
    \/ Tick \/ WatchIdle \/ Interrupt \/ Shutdown \/ Ended

Spec == Init /\ [][Next]_vars

\* The ticker of watchIdle, its comparison and the timeout of Shutdown happen by
\* themselves.  Nothing is assumed of the requests: a handler may never end.
FairSpec == Spec /\ WF_vars(Tick) /\ WF_vars(WatchIdle) /\ WF_vars(Shutdown)
-----------------------------------------------------------------------------
TypeOK ==
    /\ server \in {"serving", "closing", "down"}
    /\ idle \in 0..IdleTimeout
    /\ timer \in BOOLEAN
    /\ runs \in Nat
    /\ snapshot \in 0..runs
    /\ pc \in [Request -> {"new", "arrived", "running", "has", "prepared", "taken",
                           "sending", "done", "killed"}]
    /\ kind \in [Request -> Handler]
    /\ token \in [Request -> Request \cup {NoRequest}]
    /\ snap \in [Request -> 0..runs]
    /\ payload \in [Request -> 0..runs]
    /\ fate \in [Request -> {"none", "pending", "taken", "dropped"}]
    /\ sends \in [Request -> Nat]
    /\ sentRun \in [Request -> 0..runs]
    /\ log \subseteq [event : Event, about : Request]
    /\ calm \in BOOLEAN

\* currentSnapshot runs "the checks once on first use" (routes.go:308-309), and
\* what the session shows is the latest run there is.  Both hold while requests
\* do not overlap: two first uses run the checks twice, and a first use that ends
\* after a refresh puts the older snapshot back (routes.go:317-323).
FirstUseRunsOnce ==
    calm =>
        /\ runs <= 1 + Cardinality({r \in Request : kind[r] = "refresh"})
        /\ (\A r \in Request : pc[r] \notin {"running", "killed"}) => snapshot = runs

\* "What the user confirms is the payload, not a description of the payload"
\* (advice.go:46-47): the bytes sent are the bytes shown, whatever was refreshed
\* between the two.  And "the audit records that bytes left the machine, whether or
\* not the answer was any good" (assist.go:277-278): a payload that left has its
\* question in the log, and its own line too unless it is still on its way, or was
\* when the shutdown gave up on it.
SentAsShown ==
    \A t \in Request : sends[t] > 0 =>
        /\ fate[t] = "taken" /\ sentRun[t] = payload[t] /\ payload[t] # 0
        /\ Line("CONSENT_ASKED", t) \in log
        /\ \/ Line("DATA_SENT", t) \in log
           \/ \E r \in Request : token[r] = t /\ pc[r] \in {"sending", "killed"}

\* The server "shuts itself down when idle" (README.md:114): the program ends when
\* the requests stop coming, also when a handler hangs.
Ends == <>(server = "down")

(***************************************************************************)
(* Refinement                                                              *)
(***************************************************************************)

decisionOf == [r \in Request |->
    CASE fate[r] = "none" -> "none"
      [] fate[r] = "pending" -> "asked"
      [] fate[r] = "taken" -> "agreed"
      [] fate[r] = "dropped" -> "refused"]

\* What leaves the machine was prepared, shown and confirmed, and leaves once: the
\* assistant implements what ConsentGate promises.
Gate == INSTANCE ConsentGate WITH Token <- Request, decision <- decisionOf,
                                  effect <- sends
GateSpec == Gate!Spec
=============================================================================
