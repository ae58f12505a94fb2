------------------------- MODULE LocalServerProofs -------------------------
(***************************************************************************)
(* Proofs about the assistant behind the local server, for any number of   *)
(* requests and payloads, whatever is refreshed, discarded or cut off in   *)
(* between.                                                                *)
(***************************************************************************)
EXTENDS LocalServer, FiniteSetTheorems, TLAPS

Asked(t) == Line("CONSENT_ASKED", t) \in log

\* A request holds a run of the checks by the time it answers.
RunInv ==
    /\ \A r \in Request : pc[r] \in {"running", "has"} => snap[r] # 0
    /\ \A r \in Request : pc[r] \in {"new", "arrived", "running", "has"} => fate[r] = "none"

\* What a page names was prepared and shown to it.
ShownInv ==
    /\ \A t \in Request : fate[t] # "none" => payload[t] # 0
    /\ \A t \in Request : Asked(t) => fate[t] # "none"
    /\ \A r \in Request : pc[r] = "prepared" => fate[r] # "none"
    /\ \A r \in Request : pc[r] = "arrived" /\ kind[r] \in {"ask", "discard"} =>
          token[r] \in Request /\ Asked(token[r])

\* A payload that was taken is in one hand until it was sent.
TakenInv ==
    /\ \A r \in Request : pc[r] \in {"taken", "sending"} =>
          /\ token[r] \in Request
          /\ Asked(token[r])
          /\ fate[token[r]] = "taken"
    /\ \A r \in Request : pc[r] = "taken" =>
          /\ sends[token[r]] = 0
          /\ \A q \in Request : pc[q] = "taken" /\ token[q] = token[r] => q = r

SentInv ==
    /\ \A t \in Request : sends[t] \in 0..1
    /\ SentAsShown

Inv == TypeOK /\ RunInv /\ ShownInv /\ TakenInv /\ SentInv

LEMMA InitInv == Init => Inv
<1> SUFFICES ASSUME Init PROVE Inv
  OBVIOUS
<1>1. TypeOK
  <2>1. 0 \in 0..0 /\ 0 \in 0..IdleTimeout
    BY IdleAssumption
  <2> QED
    BY <2>1 DEF Init, TypeOK, Handler, Showing
<1>2. RunInv /\ ShownInv /\ TakenInv /\ SentInv
  BY DEF Init, RunInv, ShownInv, Asked, TakenInv, SentInv, SentAsShown
<1> QED
  BY <1>1, <1>2 DEF Inv

\* The lines only grow.
LEMMA Grown ==
    ASSUME NEW e \in Event, NEW u \in Request, Write(e, u)
    PROVE  \A t \in Request :
              /\ Asked(t)' <=> Asked(t) \/ (e = "CONSENT_ASKED" /\ t = u)
              /\ Line("DATA_SENT", t) \in log => Line("DATA_SENT", t) \in log'
BY DEF Write, Line, Asked

\* More runs leave the numbers of the earlier ones good.
LEMMA MoreRuns ==
    ASSUME NEW n \in Nat, NEW f \in [Request -> 0..n]
    PROVE  f \in [Request -> 0..n + 1]
<1>1. 0..n \subseteq 0..n + 1
  OBVIOUS
<1> QED
  BY <1>1

\* The clock, the pages and the answers: nothing of a payload is touched.
LEMMA StepStill ==
    ASSUME Inv,
           \/ \E r \in Request :
                 \/ \E k \in Handler, t \in Request : Arrive(r, k, t)
                 \/ UseSnapshot(r) \/ KeepSnapshot(r) \/ PrepareFails(r) \/ AskRefused(r)
                 \/ AskClose(r)
           \/ Tick \/ WatchIdle \/ Interrupt \/ Ended \/ UNCHANGED vars
    PROVE  Inv'
<1> USE IdleAssumption
        DEF Inv, TypeOK, Handler, Showing, Asked, Line, Goto, sessionVars, snapshotVars, assistVars
<1>1. ASSUME NEW r \in Request, NEW k \in Handler, NEW t \in Request, Arrive(r, k, t)
      PROVE  Inv'
  <2>1. TypeOK'
    BY <1>1 DEF Arrive
  <2>2. RunInv'
    BY <1>1 DEF Arrive, RunInv
  <2>3. ShownInv'
    BY <1>1 DEF Arrive, RunInv, ShownInv
  <2>4. TakenInv'
    BY <1>1 DEF Arrive, ShownInv, TakenInv
  <2>5. SentInv'
    BY <1>1 DEF Arrive, ShownInv, TakenInv, SentInv, SentAsShown
  <2> QED
    BY <2>1, <2>2, <2>3, <2>4, <2>5
<1>2. ASSUME NEW r \in Request, UseSnapshot(r) PROVE Inv'
  <2>1. TypeOK'
    BY <1>2 DEF UseSnapshot
  <2>2. RunInv'
    BY <1>2 DEF UseSnapshot, RunInv
  <2>3. ShownInv'
    BY <1>2 DEF UseSnapshot, RunInv, ShownInv
  <2>4. TakenInv'
    BY <1>2 DEF UseSnapshot, ShownInv, TakenInv
  <2>5. SentInv'
    BY <1>2 DEF UseSnapshot, ShownInv, TakenInv, SentInv, SentAsShown
  <2> QED
    BY <2>1, <2>2, <2>3, <2>4, <2>5
<1>3. ASSUME NEW r \in Request, KeepSnapshot(r) PROVE Inv'
  <2>1. TypeOK'
    BY <1>3 DEF KeepSnapshot
  <2>2. RunInv'
    BY <1>3 DEF KeepSnapshot, RunInv
  <2>3. ShownInv'
    BY <1>3 DEF KeepSnapshot, RunInv, ShownInv
  <2>4. TakenInv'
    BY <1>3 DEF KeepSnapshot, ShownInv, TakenInv
  <2>5. SentInv'
    BY <1>3 DEF KeepSnapshot, ShownInv, TakenInv, SentInv, SentAsShown
  <2> QED
    BY <2>1, <2>2, <2>3, <2>4, <2>5
<1>4. ASSUME NEW r \in Request, PrepareFails(r) \/ AskRefused(r) \/ AskClose(r)
      PROVE  Inv'
  <2>1. TypeOK'
    BY <1>4 DEF PrepareFails, AskRefused, AskClose
  <2>2. RunInv'
    BY <1>4 DEF PrepareFails, AskRefused, AskClose, RunInv
  <2>3. ShownInv'
    BY <1>4 DEF PrepareFails, AskRefused, AskClose, RunInv, ShownInv
  <2>4. TakenInv'
    BY <1>4 DEF PrepareFails, AskRefused, AskClose, ShownInv, TakenInv
  <2>5. SentInv'
    BY <1>4 DEF PrepareFails, AskRefused, AskClose, ShownInv, TakenInv, SentInv, SentAsShown
  <2> QED
    BY <2>1, <2>2, <2>3, <2>4, <2>5
<1>5. CASE Tick \/ WatchIdle \/ Interrupt
  <2>1. TypeOK'
    BY <1>5 DEF Tick, WatchIdle, Interrupt
  <2>2. RunInv'
    BY <1>5 DEF Tick, WatchIdle, Interrupt, RunInv
  <2>3. ShownInv'
    BY <1>5 DEF Tick, WatchIdle, Interrupt, RunInv, ShownInv
  <2>4. TakenInv'
    BY <1>5 DEF Tick, WatchIdle, Interrupt, ShownInv, TakenInv
  <2>5. SentInv'
    BY <1>5 DEF Tick, WatchIdle, Interrupt, ShownInv, TakenInv, SentInv, SentAsShown
  <2> QED
    BY <2>1, <2>2, <2>3, <2>4, <2>5
<1>6. CASE Ended \/ UNCHANGED vars
  <2>1. TypeOK'
    BY <1>6 DEF Ended, vars
  <2>2. RunInv'
    BY <1>6 DEF Ended, vars, RunInv
  <2>3. ShownInv'
    BY <1>6 DEF Ended, vars, RunInv, ShownInv
  <2>4. TakenInv'
    BY <1>6 DEF Ended, vars, ShownInv, TakenInv
  <2>5. SentInv'
    BY <1>6 DEF Ended, vars, ShownInv, TakenInv, SentInv, SentAsShown
  <2> QED
    BY <2>1, <2>2, <2>3, <2>4, <2>5
<1> QED
  BY <1>1, <1>2, <1>3, <1>4, <1>5, <1>6

LEMMA StepRunChecks ==
    ASSUME Inv, NEW r \in Request, RunChecks(r)
    PROVE  Inv'
<1> USE DEF Inv, TypeOK, Handler, Showing, Goto, sessionVars, assistVars, RunChecks
<1>1. /\ payload' \in [Request -> 0..runs'] /\ sentRun' \in [Request -> 0..runs']
      /\ snap \in [Request -> 0..runs']
  BY MoreRuns
<1>2. TypeOK'
  BY <1>1
<1>3. RunInv'
  BY DEF RunInv
<1>4. ShownInv' /\ TakenInv' /\ SentInv'
  BY DEF ShownInv, Asked, TakenInv, SentInv, SentAsShown, Line
<1> QED
  BY <1>2, <1>3, <1>4

LEMMA StepPrepare ==
    ASSUME Inv, NEW r \in Request, Respond(r) \/ Prepare(r) \/ ShowPayload(r)
    PROVE  Inv'
<1> USE DEF Inv, TypeOK, Handler, Showing, Goto, sessionVars, snapshotVars
<1>1. CASE Prepare(r)
  <2>1. TypeOK'
    BY <1>1 DEF Prepare, Asked, Line
  <2>2. RunInv'
    BY <1>1 DEF Prepare, Asked, Line, RunInv
  <2>3. ShownInv'
    BY <1>1 DEF Prepare, Asked, Line, RunInv, ShownInv
  <2>4. TakenInv'
    BY <1>1 DEF Prepare, Asked, Line, RunInv, ShownInv, TakenInv
  <2>5. SentInv'
    BY <1>1 DEF Prepare, Asked, Line, RunInv, ShownInv, SentInv, SentAsShown
  <2> QED
    BY <2>1, <2>2, <2>3, <2>4, <2>5
<1>2. CASE Respond(r)
  <2>1. TypeOK'
    BY <1>2 DEF Respond, Asked, Line, Write, Event
  <2>2. RunInv'
    BY <1>2 DEF Respond, Asked, Line, Write, Event, RunInv
  <2>3. ShownInv'
    BY <1>2 DEF Respond, Asked, Line, Write, Event, RunInv, ShownInv
  <2>4. TakenInv'
    BY <1>2 DEF Respond, Asked, Line, Write, Event, ShownInv, TakenInv
  <2>5. SentInv'
    BY <1>2 DEF Respond, Asked, Line, Write, Event, ShownInv, TakenInv, SentInv, SentAsShown
  <2> QED
    BY <2>1, <2>2, <2>3, <2>4, <2>5
<1>3. CASE ShowPayload(r)
  <2>1. TypeOK'
    BY <1>3 DEF ShowPayload, Asked, Line, Write, Event
  <2>2. RunInv'
    BY <1>3 DEF ShowPayload, Asked, Line, Write, Event, RunInv
  <2>3. ShownInv'
    BY <1>3 DEF ShowPayload, Asked, Line, Write, Event, RunInv, ShownInv
  <2>4. TakenInv'
    BY <1>3 DEF ShowPayload, Asked, Line, Write, Event, ShownInv, TakenInv
  <2>5. SentInv'
    BY <1>3 DEF ShowPayload, Asked, Line, Write, Event, ShownInv, TakenInv, SentInv, SentAsShown
  <2> QED
    BY <2>1, <2>2, <2>3, <2>4, <2>5
<1> QED
  BY <1>1, <1>2, <1>3

LEMMA StepAsk ==
    ASSUME Inv, NEW r \in Request, AskTake(r) \/ Send(r) \/ SendFails(r)
    PROVE  Inv'
<1> USE DEF Inv, TypeOK, Handler, Showing, Goto, sessionVars, snapshotVars, assistVars, Asked, Line
<1>1. CASE AskTake(r)
  <2>1. TypeOK'
    BY <1>1 DEF AskTake
  <2>2. RunInv'
    BY <1>1 DEF AskTake, RunInv
  <2>3. ShownInv'
    BY <1>1 DEF AskTake, RunInv, ShownInv
  <2>4. TakenInv'
    <3>1. PICK t \in Request : t = token[r] /\ Asked(t)
      BY <1>1 DEF AskTake, ShownInv
    <3>2. /\ fate[t] = "pending" /\ fate' = [fate EXCEPT ![t] = "taken"]
          /\ pc' = [pc EXCEPT ![r] = "taken"]
          /\ UNCHANGED <<token, sends, log>>
      BY <1>1, <3>1 DEF AskTake
    <3>3. sends[t] = 0
      <4>1. ~(sends[t] > 0)
        BY <3>2 DEF SentInv, SentAsShown
      <4> QED
        BY <4>1
    <3>4. \A q \in Request : pc[q] \in {"taken", "sending"} => token[q] # t
      BY <3>2 DEF TakenInv
    <3> QED
      BY <3>1, <3>2, <3>3, <3>4 DEF TakenInv
  <2>5. SentInv'
    BY <1>1 DEF AskTake, ShownInv, TakenInv, SentInv, SentAsShown
  <2> QED
    BY <2>1, <2>2, <2>3, <2>4, <2>5
<1>2. CASE Send(r)
  <2>1. TypeOK'
    <3>1. PICK t \in Request : t = token[r]
      BY <1>2 DEF Send, TakenInv
    <3>2. sends[t] + 1 \in Nat /\ payload[t] \in 0..runs
      OBVIOUS
    <3>3. sends' \in [Request -> Nat] /\ sentRun' \in [Request -> 0..runs]
      BY <1>2, <3>1, <3>2 DEF Send
    <3> QED
      BY <1>2, <3>3 DEF Send
  <2>2. RunInv'
    BY <1>2 DEF Send, RunInv
  <2>3. ShownInv'
    BY <1>2 DEF Send, RunInv, ShownInv
  <2>4. TakenInv'
    BY <1>2 DEF Send, ShownInv, TakenInv
  <2>5. SentInv'
    BY <1>2 DEF Send, ShownInv, TakenInv, SentInv, SentAsShown
  <2> QED
    BY <2>1, <2>2, <2>3, <2>4, <2>5
<1>3. CASE SendFails(r)
  <2>1. TypeOK'
    BY <1>3 DEF SendFails
  <2>2. RunInv'
    BY <1>3 DEF SendFails, RunInv
  <2>3. ShownInv'
    BY <1>3 DEF SendFails, RunInv, ShownInv
  <2>4. TakenInv'
    BY <1>3 DEF SendFails, ShownInv, TakenInv
  <2>5. SentInv'
    BY <1>3 DEF SendFails, ShownInv, TakenInv, SentInv, SentAsShown
  <2> QED
    BY <2>1, <2>2, <2>3, <2>4, <2>5
<1> QED
  BY <1>1, <1>2, <1>3

LEMMA StepRecord ==
    ASSUME Inv, NEW r \in Request,
           Discard(r) \/ \E answered \in BOOLEAN : Record(r, answered)
    PROVE  Inv'
<1> USE DEF Inv, TypeOK, Handler, Showing, Goto, sessionVars, snapshotVars, Asked, Line, Write, Event
<1>1. CASE Discard(r)
  <2>1. TypeOK'
    <3>1. log' \subseteq [event : Event, about : Request]
      BY <1>1 DEF Discard
    <3>2. fate' \in [Request -> {"none", "pending", "taken", "dropped"}]
      <4>1. PICK t \in Request : t = token[r]
        BY <1>1 DEF Discard, ShownInv
      <4> QED
        BY <1>1, <4>1 DEF Discard
    <3> QED
      BY <1>1, <3>1, <3>2 DEF Discard
  <2>2. RunInv'
    BY <1>1 DEF Discard, RunInv
  <2>3. ShownInv'
    BY <1>1 DEF Discard, RunInv, ShownInv
  <2>4. TakenInv'
    BY <1>1 DEF Discard, ShownInv, TakenInv
  <2>5. SentInv'
    BY <1>1 DEF Discard, ShownInv, TakenInv, SentInv, SentAsShown
  <2> QED
    BY <2>1, <2>2, <2>3, <2>4, <2>5
<1>2. ASSUME NEW answered \in BOOLEAN, Record(r, answered) PROVE Inv'
  <2>1. TypeOK'
    <3>1. token[r] \in Request
      BY <1>2 DEF Record, TakenInv
    <3>2. log' \subseteq [event : Event, about : Request]
      BY <1>2, <3>1 DEF Record
    <3> QED
      BY <1>2, <3>2 DEF Record
  <2>2. RunInv'
    BY <1>2 DEF Record, RunInv
  <2>3. ShownInv'
    BY <1>2 DEF Record, RunInv, ShownInv
  <2>4. TakenInv'
    BY <1>2 DEF Record, ShownInv, TakenInv
  <2>5. SentInv'
    BY <1>2 DEF Record, ShownInv, TakenInv, SentInv, SentAsShown
  <2> QED
    BY <2>1, <2>2, <2>3, <2>4, <2>5
<1> QED
  BY <1>1, <1>2

LEMMA StepShutdown == ASSUME Inv, Shutdown PROVE Inv'
BY DEF Inv, TypeOK, Handler, Showing, RunInv, ShownInv, TakenInv, SentInv, SentAsShown,
       snapshotVars, Asked, Line, Shutdown, InFlight

LEMMA StepInv == Inv /\ [Next]_vars => Inv'
BY StepStill, StepRunChecks, StepPrepare, StepAsk, StepRecord, StepShutdown DEF Next

LEMMA InvAlways == Spec => []Inv
BY InitInv, StepInv, PTL DEF Spec

\* The bytes that leave the machine are the bytes that were shown and agreed to, and
\* the log says so (advice.go:46-47, assist.go:277-278).
THEOREM PayloadAsShown == Spec => []SentAsShown
BY InvAlways, PTL DEF Inv, SentInv

-----------------------------------------------------------------------------
(* While requests come one at a time, the session shows the latest run. *)

Refreshes == {r \in Request : kind[r] = "refresh"}
Refreshed == {r \in Refreshes : pc[r] \notin {"new", "arrived"}}

\* However requests overlap: who has not arrived has no handler, only finitely many
\* refreshes were asked for, and only the end of the server cuts a request off.
AskedInv ==
    /\ \A r \in Request : pc[r] = "new" => kind[r] = "show"
    /\ IsFiniteSet(Refreshes)
    /\ \A r \in Request : pc[r] = "killed" => server = "down"
    /\ server = "down" => InFlight = {}

\* With one request in flight at most: a run that is over has been kept, and each run
\* but the first is a refresh's.
FreshInv ==
    calm =>
        /\ \A q, r \in InFlight : q = r
        /\ \A r \in Request : pc[r] = "running" => snap[r] = runs
        /\ (\A r \in Request : pc[r] \notin {"running", "killed"}) => snapshot = runs
        /\ runs <= 1 + Cardinality(Refreshed)

CalmInv == AskedInv /\ FreshInv

LEMMA CalmInit == Init => CalmInv
<1> SUFFICES ASSUME Init PROVE CalmInv
  OBVIOUS
<1>1. Refreshes = {} /\ Refreshed = {} /\ InFlight = {}
  BY DEF Init, Refreshes, Refreshed, InFlight
<1> QED
  BY <1>1, FS_EmptySet DEF Init, CalmInv, AskedInv, FreshInv

\* The refreshes that ran are no more than those asked for.
LEMMA RefreshedFinite ==
    AskedInv => IsFiniteSet(Refreshed) /\ Cardinality(Refreshed) \in Nat
                /\ Cardinality(Refreshed) <= Cardinality(Refreshes)
                /\ Cardinality(Refreshes) \in Nat
<1>1. Refreshed \in SUBSET Refreshes
  BY DEF Refreshed
<1> QED
  BY <1>1, FS_Subset, FS_CardinalityType DEF AskedInv

LEMMA CalmArrive ==
    ASSUME TypeOK, CalmInv, NEW r \in Request, NEW k \in Handler, NEW t \in Request,
           Arrive(r, k, t)
    PROVE  CalmInv'
<1> USE DEF CalmInv, AskedInv, FreshInv, TypeOK, Arrive, Goto, snapshotVars, assistVars
<1>1. /\ pc' = [pc EXCEPT ![r] = "arrived"] /\ kind' = [kind EXCEPT ![r] = k]
      /\ pc[r] = "new" /\ kind[r] = "show" /\ server = "serving"
      /\ UNCHANGED <<server, calm, runs, snapshot, snap>>
  OBVIOUS
<1>2. Refreshes' = IF k = "refresh" THEN Refreshes \cup {r} ELSE Refreshes
  BY <1>1 DEF Refreshes
<1>3. Refreshed' = Refreshed
  BY <1>1 DEF Refreshes, Refreshed
<1>4. InFlight' = InFlight \cup {r}
  BY <1>1 DEF InFlight
<1>5. AskedInv'
  BY <1>1, <1>2, FS_AddElement
<1>6. FreshInv'
  <2>1. calm => InFlight = {}
    OBVIOUS
  <2>2. \A q \in Request : pc'[q] \in {"running", "killed"} <=> pc[q] \in {"running", "killed"}
    BY <1>1
  <2>3. \A q \in Request : pc'[q] = "running" <=> pc[q] = "running"
    BY <1>1
  <2> QED
    BY <1>1, <1>3, <1>4, <2>1, <2>2, <2>3
<1> QED
  BY <1>5, <1>6

LEMMA CalmRun ==
    ASSUME TypeOK, CalmInv, NEW r \in Request, RunChecks(r)
    PROVE  CalmInv'
<1> USE DEF CalmInv, AskedInv, FreshInv, TypeOK, RunChecks, Goto, sessionVars, assistVars
<1>1. /\ pc' = [pc EXCEPT ![r] = "running"] /\ snap' = [snap EXCEPT ![r] = runs + 1]
      /\ pc[r] = "arrived" /\ runs' = runs + 1
      /\ UNCHANGED <<server, calm, snapshot, kind>>
  OBVIOUS
<1>2. InFlight' = InFlight /\ r \in InFlight
  BY <1>1 DEF InFlight
<1>3. Refreshes' = Refreshes
  BY <1>1 DEF Refreshes
<1>4. AskedInv'
  BY <1>1, <1>2, <1>3
<1>5. ASSUME calm PROVE runs' <= 1 + Cardinality(Refreshed')
  <2>1. CASE kind[r] = "refresh"
    <3>1. r \notin Refreshed /\ Refreshed' = Refreshed \cup {r}
      BY <1>1, <2>1 DEF Refreshes, Refreshed
    <3>2. Cardinality(Refreshed') = Cardinality(Refreshed) + 1
      BY <3>1, RefreshedFinite, FS_AddElement
    <3> QED
      BY <1>1, <1>5, <3>2, RefreshedFinite
  <2>2. CASE kind[r] # "refresh"
    <3>1. Refreshed' = Refreshed
      BY <1>1, <2>2 DEF Refreshes, Refreshed
    <3>2. snapshot = 0
      BY <2>2
    <3>3. server # "down"
      BY <1>2
    <3>4. \A q \in Request : pc[q] \notin {"running", "killed"}
      BY <1>1, <1>2, <1>5, <3>3 DEF InFlight
    <3>5. runs = 0
      BY <1>5, <3>2, <3>4
    <3> QED
      BY <1>1, <3>1, <3>5, RefreshedFinite
  <2> QED
    BY <2>1, <2>2
<1>6. FreshInv'
  <2>1. \A q \in Request : pc'[q] = "running" => q \in InFlight'
    BY DEF InFlight
  <2>2. calm => \A q \in Request : pc'[q] = "running" => q = r
    BY <1>1, <1>2, <2>1
  <2>3. pc'[r] = "running" /\ snap'[r] = runs'
    BY <1>1
  <2> QED
    BY <1>1, <1>2, <1>5, <2>2, <2>3
<1> QED
  BY <1>4, <1>6

\* The other steps of a request leave the runs as they are.
LEMMA CalmHandle ==
    ASSUME TypeOK, CalmInv, NEW r \in Request,
           \/ UseSnapshot(r) \/ KeepSnapshot(r) \/ Respond(r)
           \/ Prepare(r) \/ PrepareFails(r) \/ ShowPayload(r)
           \/ AskTake(r) \/ AskRefused(r) \/ Send(r) \/ SendFails(r)
           \/ Discard(r) \/ AskClose(r)
           \/ \E answered \in BOOLEAN : Record(r, answered)
    PROVE  CalmInv'
<1> USE DEF TypeOK, Goto, sessionVars, snapshotVars, assistVars, UseSnapshot, KeepSnapshot,
        Respond, Prepare, PrepareFails, ShowPayload, AskTake, AskRefused, Send, SendFails,
        Discard, AskClose, Record
<1>1. /\ UNCHANGED <<server, calm, runs, kind>>
      /\ \A q \in Request \ {r} : pc'[q] = pc[q] /\ snap'[q] = snap[q]
      /\ pc[r] \notin {"new", "done", "killed"}
      /\ pc'[r] \in {"has", "prepared", "taken", "sending", "done"}
  OBVIOUS
<1>2. \/ pc[r] # "running" /\ snapshot' = snapshot
      \/ pc[r] = "running" /\ snapshot' = snap[r]
  OBVIOUS
<1>3. pc[r] = "arrived" /\ pc'[r] # "arrived" => kind[r] # "refresh"
  BY DEF Showing
<1> HIDE DEF UseSnapshot, KeepSnapshot, Respond, Prepare, PrepareFails, ShowPayload,
             AskTake, AskRefused, Send, SendFails, Discard, AskClose, Record
<1>4. Refreshes' = Refreshes
  BY <1>1 DEF Refreshes
<1>5. Refreshed' = Refreshed
  BY <1>1, <1>3 DEF Refreshes, Refreshed
<1>6. InFlight' \subseteq InFlight /\ r \in InFlight
  BY <1>1 DEF InFlight
<1>7. AskedInv'
  BY <1>1, <1>4, <1>6 DEF CalmInv, AskedInv
<1>8. FreshInv'
  <2> SUFFICES ASSUME calm PROVE FreshInv'
    BY <1>1 DEF FreshInv
  <2>1. server # "down"
    BY <1>6 DEF CalmInv, AskedInv
  <2>2. \A q \in Request : q # r => pc[q] \notin {"running", "killed"}
    BY <1>6, <2>1 DEF CalmInv, AskedInv, FreshInv, InFlight
  <2>3. \A q \in Request : pc'[q] # "running"
    BY <1>1, <2>2
  <2>4. snapshot' = runs
    BY <1>2, <2>2, <1>1 DEF CalmInv, FreshInv
  <2> QED
    BY <1>1, <1>5, <1>6, <2>3, <2>4 DEF CalmInv, FreshInv
<1> QED
  BY <1>7, <1>8 DEF CalmInv

LEMMA CalmStop ==
    ASSUME TypeOK, CalmInv,
           Tick \/ WatchIdle \/ Interrupt \/ Shutdown \/ Ended \/ UNCHANGED vars
    PROVE  CalmInv'
<1>1. CASE Shutdown
  <2> USE DEF TypeOK, Shutdown, snapshotVars
  <2>1. /\ server' = "down" /\ UNCHANGED <<calm, runs, snapshot, snap, kind>>
        /\ \A r \in Request : pc'[r] = IF r \in InFlight THEN "killed" ELSE pc[r]
    BY <1>1
  <2>2. InFlight' = {}
    BY <2>1 DEF InFlight
  <2>3. Refreshes' = Refreshes /\ Refreshed \subseteq Refreshed'
        /\ Refreshed' \in SUBSET Refreshes'
    BY <2>1 DEF Refreshes, Refreshed
  <2>4. AskedInv'
    BY <2>1, <2>2, <2>3 DEF CalmInv, AskedInv, InFlight
  <2>5. Cardinality(Refreshed) <= Cardinality(Refreshed')
        /\ Cardinality(Refreshed) \in Nat /\ Cardinality(Refreshed') \in Nat
    BY <2>3, FS_Subset, FS_CardinalityType DEF CalmInv, AskedInv
  <2>6. \A r \in Request : pc'[r] # "running"
    BY <2>1 DEF InFlight
  <2>7. (\A r \in Request : pc'[r] \notin {"running", "killed"})
        => (\A r \in Request : pc[r] \notin {"running", "killed"})
    BY <2>1 DEF InFlight
  <2>8. FreshInv'
    BY <2>1, <2>2, <2>5, <2>6, <2>7 DEF CalmInv, FreshInv
  <2> QED
    BY <2>4, <2>8 DEF CalmInv
<1>2. CASE Tick \/ WatchIdle \/ Interrupt \/ Ended \/ UNCHANGED vars
  <2>1. /\ UNCHANGED <<calm, runs, snapshot, snap, kind, pc>>
        /\ server' = "down" <=> server = "down"
    BY <1>2 DEF Tick, WatchIdle, Interrupt, Ended, vars, snapshotVars, assistVars
  <2>2. Refreshes' = Refreshes /\ Refreshed' = Refreshed /\ InFlight' = InFlight
    BY <2>1 DEF Refreshes, Refreshed, InFlight
  <2> QED
    BY <2>1, <2>2 DEF CalmInv, AskedInv, FreshInv
<1> QED
  BY <1>1, <1>2

LEMMA CalmStep == TypeOK /\ CalmInv /\ [Next]_vars => CalmInv'
BY CalmArrive, CalmRun, CalmHandle, CalmStop DEF Next

\* While requests do not overlap, the checks run on first use and when they are asked
\* for, never besides, and what the session shows is the latest run, however many
\* requests there are (routes.go:308-323).
THEOREM FirstUse == Spec => []FirstUseRunsOnce
<1>1. TypeOK /\ CalmInv => FirstUseRunsOnce
  BY RefreshedFinite DEF CalmInv, FreshInv, FirstUseRunsOnce, Refreshes, TypeOK
<1>2. Inv => TypeOK
  BY DEF Inv
<1> QED
  BY CalmInit, CalmStep, InvAlways, <1>1, <1>2, PTL DEF Spec

-----------------------------------------------------------------------------
(* The assistant implements ConsentGate. *)

\* What each fate of a payload means to its question.
Meaning(f) == CASE f = "none" -> "none"
                [] f = "pending" -> "asked"
                [] f = "taken" -> "agreed"
                [] f = "dropped" -> "refused"

LEMMA DecisionOf ==
    /\ decisionOf = [t \in Request |-> Meaning(fate[t])]
    /\ decisionOf' = [t \in Request |-> Meaning(fate'[t])]
BY DEF decisionOf, Meaning

LEMMA Unanswered == ASSUME UNCHANGED fate PROVE decisionOf' = decisionOf
BY DEF decisionOf

\* The question of t has another answer, and no other question has.
LEMMA Answered ==
    ASSUME TypeOK, NEW t \in Request, NEW f \in {"none", "pending", "taken", "dropped"},
           fate' = [fate EXCEPT ![t] = f]
    PROVE  decisionOf' = [decisionOf EXCEPT ![t] = Meaning(f)]
<1>1. \A u \in Request : fate'[u] = IF u = t THEN f ELSE fate[u]
  BY DEF TypeOK
<1>2. decisionOf' = [u \in Request |-> Meaning(fate'[u])]
  BY DecisionOf
<1> QED
  BY <1>1, <1>2, DecisionOf

\* The payloads of S are dropped before they were taken.
LEMMA Lapse ==
    ASSUME NEW S \in SUBSET Request, UNCHANGED sends,
           \A t \in S : fate[t] = "pending",
           fate' = [t \in Request |-> IF t \in S THEN "dropped" ELSE fate[t]]
    PROVE  Gate!Next \/ UNCHANGED Gate!vars
<1>1. \A t \in S : decisionOf[t] = "asked"
  BY DEF decisionOf
<1>2. decisionOf' = [t \in Request |-> IF t \in S THEN "refused" ELSE decisionOf[t]]
  <2>1. Meaning("dropped") = "refused"
    BY DEF Meaning
  <2>2. \A t \in Request : Meaning(fate'[t]) = IF t \in S THEN "refused" ELSE Meaning(fate[t])
    BY <2>1
  <2> QED
    BY <2>2, DecisionOf
<1>3. CASE S = {}
  BY <1>2, <1>3 DEF Gate!vars, decisionOf
<1>4. CASE S # {}
  BY <1>1, <1>2, <1>4 DEF Gate!Next, Gate!Refuse
<1> QED
  BY <1>3, <1>4

LEMMA RefineInit == Init => Gate!Init
BY DEF Init, Gate!Init, decisionOf

LEMMA RefinePrepare ==
    ASSUME Inv, NEW r \in Request, Prepare(r) PROVE Gate!Next
<1>1. fate[r] = "none" /\ fate' = [fate EXCEPT ![r] = "pending"] /\ UNCHANGED sends
  BY DEF Prepare, Inv, RunInv
<1>2. decisionOf[r] = "none"
  BY <1>1 DEF decisionOf
<1>3. decisionOf' = [decisionOf EXCEPT ![r] = "asked"]
  BY <1>1, Answered DEF Meaning, Inv
<1> QED
  BY <1>1, <1>2, <1>3 DEF Gate!Next, Gate!Ask

LEMMA RefineTake ==
    ASSUME Inv, NEW r \in Request, AskTake(r) PROVE Gate!Next
<1>1. PICK t \in Request : t = token[r]
  BY DEF AskTake, Inv, ShownInv
<1>2. fate[t] = "pending" /\ fate' = [fate EXCEPT ![t] = "taken"] /\ UNCHANGED sends
  BY <1>1 DEF AskTake
<1>3. decisionOf[t] = "asked"
  BY <1>2 DEF decisionOf
<1>4. decisionOf' = [decisionOf EXCEPT ![t] = "agreed"]
  BY <1>2, Answered DEF Meaning, Inv
<1> QED
  BY <1>2, <1>3, <1>4 DEF Gate!Next, Gate!Agree

LEMMA RefineSend ==
    ASSUME Inv, NEW r \in Request, Send(r) PROVE Gate!Next
<1>1. PICK t \in Request : t = token[r] /\ fate[t] = "taken" /\ sends[t] = 0
  BY DEF Send, Inv, TakenInv
<1>2. sends' = [sends EXCEPT ![t] = 1]
  BY <1>1 DEF Send
<1>3. decisionOf[t] = "agreed"
  BY <1>1 DEF decisionOf
<1>4. decisionOf' = decisionOf
  BY Unanswered DEF Send
<1> QED
  BY <1>1, <1>2, <1>3, <1>4 DEF Gate!Next, Gate!Act

LEMMA RefineDiscard ==
    ASSUME Inv, NEW r \in Request, Discard(r)
    PROVE  Gate!Next \/ UNCHANGED Gate!vars
<1>1. PICK t \in Request : t = token[r]
  BY DEF Discard, Inv, ShownInv
<1>2. fate' = [fate EXCEPT ![t] = IF fate[t] = "pending" THEN "dropped" ELSE fate[t]]
      /\ UNCHANGED sends
  BY <1>1 DEF Discard
<1>3. fate \in [Request -> {"none", "pending", "taken", "dropped"}]
  BY DEF Inv, TypeOK
<1>4. CASE fate[t] = "pending"
  <2>1. fate' = [u \in Request |-> IF u \in {t} THEN "dropped" ELSE fate[u]]
    BY <1>2, <1>3, <1>4
  <2> QED
    BY <1>2, <1>4, <2>1, Lapse
<1>5. CASE fate[t] # "pending"
  <2>1. fate' = fate
    BY <1>2, <1>3, <1>5
  <2> QED
    BY <1>2, <2>1, Unanswered DEF Gate!vars
<1> QED
  BY <1>4, <1>5

LEMMA RefineShutdown ==
    ASSUME Inv, Shutdown PROVE Gate!Next \/ UNCHANGED Gate!vars
<1> DEFINE S == {t \in Request : fate[t] = "pending"}
<1>1. fate' = [t \in Request |-> IF t \in S THEN "dropped" ELSE fate[t]] /\ UNCHANGED sends
  BY DEF Shutdown
<1>2. S \in SUBSET Request /\ \A t \in S : fate[t] = "pending"
  OBVIOUS
<1> HIDE DEF S
<1> QED
  BY <1>1, <1>2, Lapse

LEMMA RefineStep == Inv /\ [Next]_vars => [Gate!Next]_(Gate!vars)
<1> SUFFICES ASSUME Inv, [Next]_vars PROVE Gate!Next \/ UNCHANGED Gate!vars
  OBVIOUS
<1>1. CASE UNCHANGED <<fate, sends>>
  BY <1>1, Unanswered DEF Gate!vars
<1>2. \/ UNCHANGED <<fate, sends>>
      \/ Shutdown
      \/ \E r \in Request : Prepare(r) \/ AskTake(r) \/ Send(r) \/ Discard(r)
  BY DEF Next, vars, sessionVars, snapshotVars, assistVars, Arrive, UseSnapshot, RunChecks,
     KeepSnapshot, Respond, PrepareFails, ShowPayload, AskRefused, SendFails, Record,
     AskClose, Tick, WatchIdle, Interrupt, Ended
<1> QED
  BY <1>1, <1>2, RefinePrepare, RefineTake, RefineSend, RefineDiscard, RefineShutdown

\* What is prepared is asked about once and leaves the machine once at most, after a
\* yes to that very payload, whatever requests overlap and whenever the server ends.
THEOREM AssistantGateImplemented == Spec => GateSpec
<1>1. Spec => Gate!Init /\ [][Gate!Next]_(Gate!vars)
  BY RefineInit, RefineStep, InvAlways, PTL DEF Spec
<1> QED
  BY <1>1 DEF GateSpec, Gate!Spec
=============================================================================
