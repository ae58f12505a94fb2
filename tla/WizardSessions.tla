--------------------------- MODULE WizardSessions ---------------------------
(***************************************************************************)
(* The walkthroughs a local interface holds for its user:                  *)
(* internal/localui/remediation.go, handleWizardStart, handleWizardMove    *)
(* and finished.                                                           *)
(*                                                                         *)
(* The table has a lock of its own, taken for one lookup or one update at  *)
(* a time: a handler looks, works on the session without it, and updates.  *)
(* A session is seen as far as the table is concerned: it runs or it has   *)
(* ended.  Wizard is the inside of it.                                     *)
(***************************************************************************)
EXTENDS Integers, FiniteSets

CONSTANTS
    Session,       \* bound: the sessions one model run may start
    NoSession,
    Proc,          \* the requests that may be in flight together
    maxSessions

ASSUME LimitAssumption == maxSessions \in Nat \ {0}
ASSUME SessionAssumption == NoSession \notin Session

VARIABLES
    open,         \* the keys of sessions.open
    ended,        \* the sessions whose outcome is not "running"
    known,        \* the sessions whose ID a browser was told
    escalated,    \* the keys of Server.escalations
    logged,       \* the sessions with a WIZARD_ENDED line in the audit log
    pc,           \* pc[p]: what the request p does next
    id,           \* id[p]: the session it works on
    browser       \* serial: its requests come one at a time; steady: it is
                  \* there for each answer and no walkthrough ends at once

vars == <<open, ended, known, escalated, logged, pc, id, browser>>

PC == {"idle", "add", "first", "first_reply", "move", "reply", "escalate", "drop"}

Init ==
    /\ open = {}
    /\ ended = {}
    /\ known = {}
    /\ escalated = {}
    /\ logged = {}
    /\ pc = [p \in Proc |-> "idle"]
    /\ id = [p \in Proc |-> NoSession]
    /\ browser \in [serial : BOOLEAN, steady : BOOLEAN]

\* A request may begin.
Free == browser.serial => \A p \in Proc : pc[p] = "idle"

Goto(p, l) == pc' = [pc EXCEPT ![p] = l]
Return(p) == Goto(p, "idle") /\ id' = [id EXCEPT ![p] = NoSession]
Started(i) == i \in open \cup ended \/ \E p \in Proc : id[p] = i

\* A new token names the session.  A full table is refused and changes nothing.
StartCount(p, i) ==
    /\ Free
    /\ pc[p] = "idle"
    /\ ~Started(i)
    /\ Cardinality(open) < maxSessions
    /\ id' = [id EXCEPT ![p] = i]
    /\ Goto(p, "add")
    /\ UNCHANGED <<open, ended, known, escalated, logged, browser>>

StartAdd(p) ==
    /\ pc[p] = "add"
    /\ open' = open \cup {id[p]}
    /\ Goto(p, "first")
    /\ UNCHANGED <<ended, known, escalated, logged, id, browser>>

\* session.Next: some question waits for the user, or the session is over.
StartNext(p) ==
    /\ pc[p] = "first"
    /\ ended' \in {ended} \cup (IF browser.steady THEN {} ELSE {ended \cup {id[p]}})
    /\ Goto(p, "first_reply")
    /\ UNCHANGED <<open, known, escalated, logged, id, browser>>

\* Whatever the outcome was, the table keeps the session.
StartReply(p) ==
    /\ pc[p] = "first_reply"
    /\ known' \in {known \cup {id[p]}} \cup (IF browser.steady THEN {} ELSE {known})
    /\ Return(p)
    /\ UNCHANGED <<open, ended, escalated, logged, browser>>

\* An ID that is not in the table is refused and changes nothing.
MoveGet(p, i) ==
    /\ Free
    /\ pc[p] = "idle"
    /\ i \in known \cap open
    /\ id' = [id EXCEPT ![p] = i]
    /\ Goto(p, "move")
    /\ UNCHANGED <<open, ended, known, escalated, logged, browser>>

\* next, skip, confirm or stop on a session that runs.
MoveStep(p) ==
    /\ pc[p] = "move"
    /\ id[p] \notin ended
    /\ \/ UNCHANGED ended /\ Return(p)
       \/ ended' = ended \cup {id[p]} /\ Goto(p, "reply") /\ UNCHANGED id
    /\ UNCHANGED <<open, known, escalated, logged, browser>>

\* On a session that is over: stop answers once more, the others are refused.
MoveLate(p) ==
    /\ pc[p] = "move"
    /\ id[p] \in ended
    /\ \/ Goto(p, "reply") /\ UNCHANGED id
       \/ Return(p)
    /\ UNCHANGED <<open, ended, known, escalated, logged, browser>>

\* The answer is written; an error of that ends the handler.
MoveReply(p) ==
    /\ pc[p] = "reply"
    /\ \/ Goto(p, "escalate") /\ UNCHANGED id
       \/ ~browser.steady /\ Return(p)
    /\ UNCHANGED <<open, ended, known, escalated, logged, browser>>

EndRecordUnescalated(p) ==    \* mutant: the history goes with the session
    /\ pc[p] = "escalate"
    /\ logged' = logged \cup {id[p]}
    /\ Goto(p, "drop")
    /\ UNCHANGED <<open, ended, known, escalated, id, browser>>

\* finished: the line, the escalation, and then the table lets go.
EndRecord(p) ==
    /\ pc[p] = "escalate"
    /\ logged' = logged \cup {id[p]}
    /\ escalated' = escalated \cup {id[p]}
    /\ Goto(p, "drop")
    /\ UNCHANGED <<open, ended, known, id, browser>>

EndKept(p) ==    \* mutant: the session is not dropped
    /\ pc[p] = "drop"
    /\ Return(p)
    /\ UNCHANGED <<open, ended, known, escalated, logged, browser>>

EndDrop(p) ==
    /\ pc[p] = "drop"
    /\ open' = open \ {id[p]}
    /\ Return(p)
    /\ UNCHANGED <<ended, known, escalated, logged, browser>>

Step(p) ==
    \/ StartAdd(p) \/ StartNext(p) \/ StartReply(p)
    \/ MoveStep(p) \/ MoveLate(p) \/ MoveReply(p)
    \/ EndRecord(p) \/ EndDrop(p)

Call(p) == \E i \in Session : StartCount(p, i) \/ MoveGet(p, i)

Next == \E p \in Proc : Call(p) \/ Step(p)

Spec == Init /\ [][Next]_vars
-----------------------------------------------------------------------------
TypeOK ==
    /\ open \subseteq Session
    /\ ended \subseteq Session
    /\ known \subseteq Session
    /\ escalated \subseteq Session
    /\ logged \subseteq Session
    /\ pc \in [Proc -> PC]
    /\ id \in [Proc -> Session \cup {NoSession}]
    /\ browser \in [serial : BOOLEAN, steady : BOOLEAN]

\* A technician can always be handed the history: a session that was ended and
\* is not in the table has its escalation and its line, with no moment between.
NeverUnaccounted == ended \subseteq open \cup (escalated \cap logged)

\* "maxSessions bounds how many wizard sessions one run will hold"
\* (remediation.go:20-22), while requests come one at a time: two that overlap
\* both count before either adds (remediation.go:198, 208).  "A finished session is
\* not kept" (remediation.go:263): with no request on it a session that has ended is
\* out of the table.  One that ends on its first move, or whose last answer could
\* not be written, stays (210-215, 267-269).
TableIsKept ==
    /\ browser.serial => Cardinality(open) <= maxSessions
    /\ browser.steady =>
        \A i \in ended : (\A p \in Proc : id[p] # i) => i \notin open
=============================================================================
