------------------------- MODULE FleetReportProofs -------------------------
(***************************************************************************)
(* Proofs about a report to a fleet server, for any number of machines and *)
(* reports and any length of history, with requests and answers lost and   *)
(* the server cut off at any moment.                                       *)
(*                                                                         *)
(* The argument: what a Put is to write was made from what is on the disk, *)
(* and stays so because nobody else writes while it has the lock.          *)
(***************************************************************************)
EXTENDS FleetReport, FiniteSetTheorems, TLAPS

Filed(r) == \E i \in 1..Len(filed[MachineOf[r]]) : filed[MachineOf[r]][i] = r

TypeInv ==
    /\ pc \in [Report -> PC]
    /\ handler \in [Report -> Handler]
    /\ clock \in Nat
    /\ received \in [Report -> Nat]
    /\ DOMAIN draft = Report
    /\ file \in [Machine -> Seq([report : Report, time : Nat])]
    /\ lastSeen \in [Machine -> Nat]
    /\ filed \in [Machine -> Seq(Report)]

\* The lock is whose draft is being made, and the draft is up to date.
LockInv ==
    \A r \in Report : handler[r] = "merged" => lock = r /\ draft[r] = Merged(r)

\* How far a report has come on either side.
AgreedInv ==
    \A r \in Report :
        r \in wire \/ handler[r] # "none" => pc[r] \notin {"new", "shown", "discarded"}

FiledInv ==
    /\ \A r \in Report : handler[r] \in {"none", "received", "merged"} => ~Filed(r)
    /\ \A r \in Report : handler[r] = "stored" \/ pc[r] = "answered" => Filed(r)
    /\ DeliveredIsFiled

\* The clock is ahead of every time on the disk, and so is the time of a request that
\* is served alone.
TimeInv ==
    /\ \A r \in Report : received[r] <= clock
    /\ \A m \in Machine : \A i \in 1..Len(file[m]) : file[m][i].time <= clock
    /\ calm => \A r \in Report : Served(r) =>
          /\ \A q \in Report : Served(q) => q = r
          /\ LET m == MachineOf[r] IN
             \A i \in 1..Len(file[m]) : file[m][i].time <= received[r]

Inv == TypeInv /\ LockInv /\ AgreedInv /\ FiledInv /\ TimeInv /\ NothingLost /\ NewestFirst

LEMMA ElementOf ==
    ASSUME NEW S, NEW h \in Seq(S), NEW i \in 1..Len(h)
    PROVE  h[i] \in S
OBVIOUS

LEMMA AppendHolds ==
    ASSUME NEW S, NEW h \in Seq(S), NEW x \in S
    PROVE  /\ Append(h, x) \in Seq(S)
           /\ Len(Append(h, x)) = Len(h) + 1
           /\ Append(h, x)[Len(h) + 1] = x
           /\ \A i \in 1..Len(h) : Append(h, x)[i] = h[i]
           /\ Len(h) \in Nat
OBVIOUS

\* A history that is cut to the bound keeps its beginning.
LEMMA CappedKeeps ==
    ASSUME NEW S, NEW h \in Seq(S)
    PROVE  /\ Capped(h) \in Seq(S)
           /\ Len(Capped(h)) = IF Len(h) > MaxHistory THEN MaxHistory ELSE Len(h)
           /\ \A i \in 1..Len(Capped(h)) : Capped(h)[i] = h[i]
<1> DEFINE n == IF Len(h) > MaxHistory THEN MaxHistory ELSE Len(h)
<1>1. n \in Nat /\ n <= Len(h)
  BY BoundAssumption
<1>2. Capped(h) = SubSeq(h, 1, n)
  BY DEF Capped
<1> HIDE DEF n
<1>3. /\ SubSeq(h, 1, n) \in Seq(S)
      /\ Len(SubSeq(h, 1, n)) = n
      /\ \A i \in 1..n : SubSeq(h, 1, n)[i] = h[i]
  BY <1>1
<1> QED
  BY <1>2, <1>3 DEF n

\* What Put writes: the report, and behind it what was there.
LEMMA MergedIs ==
    ASSUME TypeInv, NEW r \in Report
    PROVE  LET old == file[MachineOf[r]] IN
           /\ Merged(r) \in Seq([report : Report, time : Nat])
           /\ Len(Merged(r)) = IF Len(old) + 1 > MaxHistory THEN MaxHistory ELSE Len(old) + 1
           /\ Merged(r)[1] = [report |-> r, time |-> received[r]]
           /\ \A i \in 2..Len(Merged(r)) : Merged(r)[i] = old[i - 1]
<1> DEFINE old == file[MachineOf[r]]
           e == [report |-> r, time |-> received[r]]
           h == <<e>> \o old
<1>1. old \in Seq([report : Report, time : Nat])
  BY ReportAssumption DEF TypeInv
<1>2. e \in [report : Report, time : Nat]
  BY DEF TypeInv
<1> HIDE DEF old, e
<1>3. /\ h \in Seq([report : Report, time : Nat])
      /\ Len(h) = Len(old) + 1
      /\ h[1] = e
      /\ \A i \in 2..Len(old) + 1 : h[i] = old[i - 1]
  BY <1>1, <1>2
<1>4. Merged(r) = Capped(h)
  BY DEF Merged, e, old
<1> HIDE DEF h
<1>5. /\ Merged(r) \in Seq([report : Report, time : Nat])
      /\ Len(Merged(r)) = IF Len(h) > MaxHistory THEN MaxHistory ELSE Len(h)
      /\ \A i \in 1..Len(Merged(r)) : Merged(r)[i] = h[i]
  BY <1>3, <1>4, CappedKeeps
<1>6. Len(old) \in Nat /\ Len(Merged(r)) \in 1..Len(old) + 1
  BY <1>1, <1>3, <1>5, BoundAssumption
<1>7. Merged(r)[1] = e
  BY <1>3, <1>5, <1>6
<1>8. \A i \in 2..Len(Merged(r)) : Merged(r)[i] = old[i - 1]
  BY <1>3, <1>5, <1>6
<1> QED
  BY <1>3, <1>5, <1>7, <1>8 DEF old, e

LEMMA InitInv == Init => Inv
<1> SUFFICES ASSUME Init PROVE Inv
  OBVIOUS
<1>1. TypeInv /\ LockInv /\ AgreedInv
  BY DEF Init, TypeInv, PC, Handler, LockInv, AgreedInv
<1>2. \A m \in Machine : Len(file[m]) = 0 /\ Len(filed[m]) = 0 /\ file[m] = <<>>
  BY DEF Init
<1>3. FiledInv
  BY <1>2, ReportAssumption DEF Init, FiledInv, Filed, DeliveredIsFiled
<1>4. TimeInv
  BY <1>2 DEF Init, TimeInv, Served
<1>5. NothingLost /\ NewestFirst
  BY <1>2, BoundAssumption DEF NothingLost, NewestFirst
<1> QED
  BY <1>1, <1>3, <1>4, <1>5 DEF Inv

\* Nothing on the disk is different.
SameDisk == UNCHANGED <<file, lastSeen, filed>>

LEMMA DiskStays ==
    ASSUME SameDisk
    PROVE  /\ \A r \in Report : Filed(r)' <=> Filed(r)
           /\ NothingLost => NothingLost'
           /\ NewestFirst /\ UNCHANGED calm => NewestFirst'
           /\ \A r \in Report : received'[r] = received[r] => Merged(r)' = Merged(r)
BY DEF SameDisk, Filed, NothingLost, NewestFirst, Merged, Capped

\* The steps of the agent.
LEMMA StepAgent ==
    ASSUME Inv, NEW r \in Report,
           \/ Prepare(r) \/ Discard(r) \/ Send(r) \/ PostFails(r) \/ Record(r)
           \/ AgentEnds(r) \/ Lose(r)
    PROVE  Inv'
<1> USE DEF Inv, Prepare, Discard, Send, PostFails, Record, AgentEnds, Lose, Goto, storeVars
<1>1. SameDisk /\ UNCHANGED <<clock, handler, received, lock, draft, calm>>
  BY DEF SameDisk
<1>2. /\ \A q \in Report : Filed(q)' <=> Filed(q)
      /\ \A q \in Report : Merged(q)' = Merged(q)
      /\ NothingLost' /\ NewestFirst'
  BY <1>1, DiskStays
<1>3. TypeInv'
  BY DEF TypeInv, PC
<1>4. LockInv'
  BY <1>1, <1>2 DEF LockInv
<1>5. AgreedInv'
  BY DEF AgreedInv, TypeInv, PC
<1>6. FiledInv'
  <2>1. \A q \in Report : pc'[q] = "answered" => pc[q] = "answered"
    BY DEF TypeInv
  <2>2. \A q \in Report : [report |-> q, delivered |-> TRUE] \in log' =>
           [report |-> q, delivered |-> TRUE] \in log \/ pc[q] = "answered"
    <3>1. CASE Record(r)
      BY <3>1
    <3>2. CASE ~Record(r)
      <4>1. log' = log
        BY <3>2
      <4> QED
        BY <4>1
    <3> QED
      BY <3>1, <3>2
  <2> QED
    BY <1>1, <1>2, <2>1, <2>2 DEF FiledInv, DeliveredIsFiled, Filed
<1>7. TimeInv'
  BY <1>1 DEF TimeInv, Served, SameDisk
<1> QED
  BY <1>2, <1>3, <1>4, <1>5, <1>6, <1>7

\* The steps of the server that write nothing, and the clock.
LEMMA StepServer ==
    ASSUME Inv,
           \/ \E r \in Report : Arrive(r) \/ Merge(r) \/ WriteFails(r) \/ Answer(r)
           \/ ServerRestarts \/ Tick \/ UNCHANGED vars
    PROVE  Inv'
<1> USE DEF Inv, agentVars, storeVars
<1>1. SameDisk /\ UNCHANGED <<log, calm>>
  BY DEF SameDisk, vars, Arrive, Merge, WriteFails, Answer, ServerRestarts, Tick
<1>2. /\ \A q \in Report : Filed(q)' <=> Filed(q)
      /\ \A q \in Report : received'[q] = received[q] => Merged(q)' = Merged(q)
      /\ NothingLost' /\ NewestFirst'
  BY <1>1, DiskStays
<1>3. DeliveredIsFiled'
  BY <1>1, <1>2 DEF FiledInv, DeliveredIsFiled, Filed
<1> USE DEF TypeInv, PC, Handler, Serve, Served, InHand, Goto
<1>4. ASSUME NEW r \in Report, Arrive(r) PROVE Inv'
  <2>1. TypeInv' /\ AgreedInv'
    BY <1>4 DEF Arrive, AgreedInv
  <2>2. LockInv'
    BY <1>2, <1>4 DEF Arrive, LockInv
  <2>3. FiledInv'
    BY <1>2, <1>3, <1>4 DEF Arrive, FiledInv
  <2>4. TimeInv'
    <3>1. \A q \in Report : received'[q] <= clock'
      BY <1>4 DEF Arrive, TimeInv
    <3>2. calm => \A q \in Report : Served(q)' => q = r
      BY <1>4 DEF Arrive
    <3>3. received'[r] = clock /\ clock' = clock /\ file' = file /\ calm' = calm
      BY <1>4 DEF Arrive
    <3>4. \A m \in Machine : \A i \in 1..Len(file[m]) : file[m][i].time <= clock
      BY DEF TimeInv
    <3>5. MachineOf[r] \in Machine
      BY ReportAssumption
    <3> HIDE DEF Inv, TypeInv
    <3>6. calm' => \A q \in Report : Served(q)' =>
             LET m == MachineOf[q] IN
             \A i \in 1..Len(file'[m]) : file'[m][i].time <= received'[q]
      <4> HIDE DEF Served
      <4> QED
        BY <3>2, <3>3, <3>4, <3>5
    <3>7. calm' => \A q \in Report : Served(q)' => \A p \in Report : Served(p)' => p = q
      <4> HIDE DEF Served
      <4> QED
        BY <3>2, <3>3
    <3>8. \A m \in Machine : \A i \in 1..Len(file'[m]) : file'[m][i].time <= clock'
      BY <3>3, <3>4
    <3> HIDE DEF Served
    <3> QED
      BY <3>1, <3>6, <3>7, <3>8 DEF TimeInv
  <2> QED
    BY <1>2, <2>1, <2>2, <2>3, <2>4
<1>5. ASSUME NEW r \in Report, Merge(r) PROVE Inv'
  <2>1. TypeInv' /\ AgreedInv'
    BY <1>5 DEF Merge, AgreedInv
  <2>2. LockInv'
    <3>1. \A q \in Report : handler[q] # "merged"
      BY <1>5, ReportAssumption DEF Merge, LockInv
    <3>2. draft'[r] = Merged(r) /\ Merged(r)' = Merged(r) /\ lock' = r
      BY <1>2, <1>5 DEF Merge
    <3> QED
      BY <1>5, <3>1, <3>2 DEF Merge, LockInv
  <2>3. FiledInv'
    BY <1>2, <1>3, <1>5 DEF Merge, FiledInv
  <2>4. TimeInv'
    BY <1>5 DEF Merge, TimeInv
  <2> QED
    BY <1>2, <2>1, <2>2, <2>3, <2>4
<1>6. ASSUME NEW r \in Report, WriteFails(r) PROVE Inv'
  <2>1. TypeInv' /\ AgreedInv'
    BY <1>6 DEF WriteFails, AgreedInv
  <2>2. LockInv'
    BY <1>6 DEF WriteFails, LockInv
  <2>3. FiledInv'
    BY <1>2, <1>3, <1>6 DEF WriteFails, FiledInv
  <2>4. TimeInv'
    BY <1>6 DEF WriteFails, TimeInv
  <2> QED
    BY <1>2, <2>1, <2>2, <2>3, <2>4
<1>7. ASSUME NEW r \in Report, Answer(r) PROVE Inv'
  <2>1. TypeInv' /\ AgreedInv'
    BY <1>7 DEF Answer, AgreedInv
  <2>2. LockInv'
    BY <1>2, <1>7 DEF Answer, LockInv
  <2>3. FiledInv'
    BY <1>2, <1>3, <1>7 DEF Answer, FiledInv
  <2>4. TimeInv'
    BY <1>7 DEF Answer, TimeInv
  <2> QED
    BY <1>2, <2>1, <2>2, <2>3, <2>4
<1>8. CASE ServerRestarts
  <2>1. TypeInv' /\ AgreedInv'
    BY <1>8 DEF ServerRestarts, AgreedInv
  <2>2. LockInv'
    BY <1>8 DEF ServerRestarts, LockInv
  <2>3. FiledInv'
    BY <1>2, <1>3, <1>8 DEF ServerRestarts, FiledInv
  <2>4. TimeInv'
    BY <1>8 DEF ServerRestarts, TimeInv
  <2> QED
    BY <1>2, <2>1, <2>2, <2>3, <2>4
<1>9. CASE Tick
  <2>1. clock' \in Nat
    BY <1>9 DEF Tick
  <2>5. TypeInv' /\ AgreedInv'
    BY <1>9, <2>1 DEF Tick, AgreedInv
  <2>2. LockInv'
    BY <1>2, <1>9 DEF Tick, LockInv
  <2>3. FiledInv'
    BY <1>2, <1>3, <1>9 DEF Tick, FiledInv
  <2>4. TimeInv'
    <3>1. clock' = clock + 1 /\ clock \in Nat /\ SameDisk /\ UNCHANGED <<received, handler, calm>>
      BY <1>9 DEF Tick, SameDisk
    <3>2. \A m \in Machine : \A i \in 1..Len(file[m]) : file[m][i].time \in Nat
      <4> SUFFICES ASSUME NEW m \in Machine, NEW i \in 1..Len(file[m])
                   PROVE  file[m][i].time \in Nat
        OBVIOUS
      <4>1. file[m] \in Seq([report : Report, time : Nat])
        OBVIOUS
      <4>2. file[m][i] \in [report : Report, time : Nat]
        BY <4>1, ElementOf
      <4> QED
        BY <4>2
    <3>3. \A r \in Report : received[r] \in Nat
      OBVIOUS
    <3>4. /\ \A r \in Report : received'[r] <= clock'
          /\ \A m \in Machine : \A i \in 1..Len(file'[m]) : file'[m][i].time <= clock'
      BY <3>1, <3>2, <3>3 DEF TimeInv, SameDisk
    <3> QED
      BY <3>1, <3>4 DEF TimeInv, SameDisk
  <2> QED
    BY <1>2, <2>5, <2>2, <2>3, <2>4
<1>10. CASE UNCHANGED vars
  BY <1>2, <1>3, <1>10 DEF vars, LockInv, AgreedInv, FiledInv, TimeInv
<1> HIDE DEF Inv
<1> QED
  BY <1>4, <1>5, <1>6, <1>7, <1>8, <1>9, <1>10

\* The record is replaced by what was made from it.
LEMMA StepRename ==
    ASSUME Inv, NEW r \in Report, Rename(r)
    PROVE  Inv'
<1> DEFINE m == MachineOf[r]
           old == file[m]
           new == Merged(r)
           past == filed[m]
<1> USE DEF Inv
<1>1. /\ m \in Machine
      /\ old \in Seq([report : Report, time : Nat])
      /\ past \in Seq(Report)
  BY ReportAssumption DEF TypeInv
<1>2. /\ file' = [file EXCEPT ![m] = new]
      /\ lastSeen' = [lastSeen EXCEPT ![m] = received[r]]
      /\ filed' = [filed EXCEPT ![m] = Append(past, r)]
      /\ handler' = [handler EXCEPT ![r] = "stored"]
      /\ draft' = [draft EXCEPT ![r] = <<>>]
      /\ handler[r] = "merged"
      /\ UNCHANGED <<pc, wire, log, clock, received, calm>>
  BY DEF Rename, LockInv, Serve, agentVars
<1>3. /\ new \in Seq([report : Report, time : Nat])
      /\ Len(new) = IF Len(old) + 1 > MaxHistory THEN MaxHistory ELSE Len(old) + 1
      /\ new[1] = [report |-> r, time |-> received[r]]
      /\ \A i \in 2..Len(new) : new[i] = old[i - 1]
  BY MergedIs
<1>4. /\ Append(past, r) \in Seq(Report)
      /\ Len(Append(past, r)) = Len(past) + 1
      /\ Append(past, r)[Len(past) + 1] = r
      /\ \A i \in 1..Len(past) : Append(past, r)[i] = past[i]
      /\ Len(past) \in Nat
  BY <1>1, AppendHolds
<1>5. Len(old) \in Nat /\ Len(new) \in 1..Len(old) + 1
  BY <1>1, <1>3, BoundAssumption
<1>6. /\ \A x \in Machine : x # m => /\ file'[x] = file[x]
                                     /\ lastSeen'[x] = lastSeen[x]
                                     /\ filed'[x] = filed[x]
      /\ file'[m] = new /\ lastSeen'[m] = received[r] /\ filed'[m] = Append(past, r)
  BY <1>1, <1>2 DEF TypeInv
<1>7. /\ received[r] \in Nat /\ clock \in Nat /\ received[r] <= clock
      /\ handler'[r] = "stored"
      /\ \A q \in Report : q # r => handler'[q] = handler[q]
  BY <1>2 DEF TypeInv, TimeInv
<1>8. \A q \in Report : Filed(q)' <=> Filed(q) \/ q = r
  <2> HIDE DEF Inv, new
  <2> TAKE q \in Report
  <2>1. CASE MachineOf[q] # m
    <3>1. MachineOf[q] \in Machine /\ q # r
      BY <2>1, ReportAssumption
    <3> QED
      BY <2>1, <3>1, <1>6 DEF Filed
  <2>2. CASE MachineOf[q] = m
    <3>1. Filed(q)' <=> \E i \in 1..Len(past) + 1 : Append(past, r)[i] = q
      BY <2>2, <1>4, <1>6 DEF Filed
    <3>2. Filed(q) <=> \E i \in 1..Len(past) : past[i] = q
      BY <2>2 DEF Filed
    <3> HIDE DEF past
    <3> QED
      BY <3>1, <3>2, <1>4
  <2> QED
    BY <2>1, <2>2
<1>9. \A i \in 1..Len(old) : old[i].time \in Nat /\ old[i].time <= clock
  <2> TAKE i \in 1..Len(old)
  <2>1. old[i] \in [report : Report, time : Nat]
    <3> HIDE DEF old
    <3> QED
      BY <1>1, ElementOf
  <2> QED
    BY <2>1, <1>1 DEF TimeInv
<1>10. TypeInv'
  BY <1>1, <1>2, <1>3, <1>4, <1>7 DEF TypeInv, Handler
<1>11. LockInv'
  BY <1>2, <1>7 DEF LockInv
<1>12. AgreedInv'
  BY <1>2, <1>7 DEF AgreedInv
<1>13. FiledInv'
  <2>1. \A q \in Report : handler'[q] \in {"none", "received", "merged"} => ~Filed(q)'
    BY <1>7, <1>8 DEF FiledInv
  <2>2. \A q \in Report : handler'[q] = "stored" \/ pc'[q] = "answered" => Filed(q)'
    BY <1>2, <1>7, <1>8 DEF FiledInv
  <2>3. DeliveredIsFiled'
    BY <1>2, <1>8 DEF FiledInv, DeliveredIsFiled, Filed
  <2> QED
    BY <2>1, <2>2, <2>3 DEF FiledInv
<1>14. TimeInv'
  <2> HIDE DEF new, old
  <2>1. \A i \in 1..Len(new) : new[i].time <= clock
    <3> TAKE i \in 1..Len(new)
    <3>1. CASE i = 1
      BY <3>1, <1>3, <1>7
    <3>2. CASE i # 1
      <4>1. i \in 2..Len(new) /\ i - 1 \in 1..Len(old)
        BY <3>2, <1>5
      <4> QED
        BY <4>1, <1>3, <1>9
    <3> QED
      BY <3>1, <3>2
  <2>2. \A x \in Machine : \A i \in 1..Len(file'[x]) : file'[x][i].time <= clock
    <3> HIDE DEF m
    <3> QED
      BY <2>1, <1>6 DEF TimeInv
  <2>3. calm => \A q \in Report : ~Served(q)'
    BY <1>2, <1>7 DEF TimeInv, Served
  <2> QED
    BY <2>2, <2>3, <1>2 DEF TimeInv
<1>15. NothingLost'
  <2> SUFFICES ASSUME NEW x \in Machine
               PROVE  LET n == Len(filed'[x]) IN
                      /\ Len(file'[x]) = IF n > MaxHistory THEN MaxHistory ELSE n
                      /\ \A i \in 1..Len(file'[x]) :
                            file'[x][i].report = filed'[x][n + 1 - i]
    BY DEF NothingLost
  <2>1. CASE x # m
    BY <2>1, <1>6 DEF NothingLost
  <2>2. CASE x = m
    <3>1. /\ Len(old) = IF Len(past) > MaxHistory THEN MaxHistory ELSE Len(past)
          /\ \A i \in 1..Len(old) : old[i].report = past[Len(past) + 1 - i]
      BY <1>1 DEF NothingLost
    <3> HIDE DEF Inv, new, old, past
    <3>2. Len(new) = IF Len(past) + 1 > MaxHistory THEN MaxHistory ELSE Len(past) + 1
      BY <3>1, <1>3, <1>4, BoundAssumption
    <3>3. \A i \in 1..Len(new) :
             new[i].report = Append(past, r)[Len(past) + 1 + 1 - i]
      <4> TAKE i \in 1..Len(new)
      <4>1. CASE i = 1
        BY <4>1, <1>3, <1>4
      <4>2. CASE i # 1
        <5>1. i \in 2..Len(new) /\ i - 1 \in 1..Len(old)
          BY <4>2, <1>5
        <5>2. new[i].report = past[Len(past) + 1 - (i - 1)]
          BY <5>1, <1>3, <3>1
        <5>3. Len(past) + 1 - (i - 1) \in 1..Len(past)
          BY <5>1, <3>1, <1>4, BoundAssumption
        <5>4. Len(past) + 1 - (i - 1) = Len(past) + 1 + 1 - i
          BY <5>1, <1>4
        <5> QED
          BY <5>2, <5>3, <5>4, <1>4
      <4> QED
        BY <4>1, <4>2
    <3> HIDE DEF m
    <3> QED
      BY <2>2, <3>2, <3>3, <1>4, <1>6
  <2> QED
    BY <2>1, <2>2
<1>16. NewestFirst'
  <2> SUFFICES ASSUME calm, NEW x \in Machine
               PROVE  /\ \A i \in 1..Len(file'[x]) - 1 :
                            file'[x][i].time >= file'[x][i + 1].time
                      /\ file'[x] # <<>> => lastSeen'[x] = file'[x][1].time
    BY <1>2 DEF NewestFirst
  <2>1. CASE x # m
    BY <2>1, <1>6 DEF NewestFirst
  <2>2. CASE x = m
    <3>1. \A i \in 1..Len(old) - 1 : old[i].time >= old[i + 1].time
      BY <1>1 DEF NewestFirst
    <3>2. \A i \in 1..Len(old) : old[i].time <= received[r]
      BY <1>2 DEF TimeInv, Served
    <3> HIDE DEF Inv, new, old, past
    <3>3. \A i \in 1..Len(new) - 1 : new[i].time >= new[i + 1].time
      <4> TAKE i \in 1..Len(new) - 1
      <4>1. i + 1 \in 2..Len(new) /\ i \in 1..Len(old) /\ new[i + 1] = old[i]
        BY <1>3, <1>5
      <4>2. CASE i = 1
        BY <4>1, <4>2, <3>2, <1>3, <1>7, <1>9
      <4>3. CASE i # 1
        <5>1. i \in 2..Len(new) /\ i - 1 \in 1..Len(old) - 1 /\ new[i] = old[i - 1]
          BY <4>1, <4>3, <1>3, <1>5
        <5>2. old[i - 1].time >= old[i - 1 + 1].time
          BY <5>1, <3>1
        <5>3. i - 1 + 1 = i
          BY <4>1
        <5> QED
          BY <4>1, <5>1, <5>2, <5>3
      <4> QED
        BY <4>2, <4>3
    <3>4. new[1].time = received[r]
      BY <1>3
    <3>5. /\ \A i \in 1..Len(file'[m]) - 1 : file'[m][i].time >= file'[m][i + 1].time
          /\ lastSeen'[m] = file'[m][1].time
      <4> HIDE DEF m
      <4> QED
        BY <3>3, <3>4, <1>6
    <3> HIDE DEF m
    <3> QED
      BY <2>2, <3>5
  <2> QED
    BY <2>1, <2>2
<1> HIDE DEF new, old, past, m
<1> QED
  BY <1>10, <1>11, <1>12, <1>13, <1>14, <1>15, <1>16

LEMMA StepInv == Inv /\ [Next]_vars => Inv'
<1> SUFFICES ASSUME Inv, [Next]_vars PROVE Inv'
  OBVIOUS
<1>1. CASE \E r \in Report : \/ Prepare(r) \/ Discard(r) \/ Send(r) \/ PostFails(r)
                             \/ Record(r) \/ AgentEnds(r) \/ Lose(r)
  BY <1>1, StepAgent
<1>2. CASE \E r \in Report : Rename(r)
  BY <1>2, StepRename
<1>3. CASE \/ \E r \in Report : Arrive(r) \/ Merge(r) \/ WriteFails(r) \/ Answer(r)
           \/ ServerRestarts \/ Tick \/ UNCHANGED vars
  BY <1>3, StepServer
<1> QED
  BY <1>1, <1>2, <1>3 DEF Next

LEMMA InvAlways == Spec => []Inv
BY InitInv, StepInv, PTL DEF Spec

\* However requests overlap and wherever the server is cut off, a machine's record is
\* the last reports put into place (Store.Put).
THEOREM NothingIsLost == Spec => []NothingLost
<1>1. Inv => NothingLost
  BY DEF Inv
<1> QED
  BY <1>1, InvAlways, PTL

\* While requests come one at a time, the history is in the order of its times and
\* LastSeen is the first of them (store.go:98).
THEOREM NewestIsFirst == Spec => []NewestFirst
<1>1. Inv => NewestFirst
  BY DEF Inv
<1> QED
  BY <1>1, InvAlways, PTL

\* What an agent has begun to send goes on, ends with the process, or has its line.
LEMMA StepRecord ==
    ASSUME Inv, [Next]_vars
    PROVE  \A r \in Report : pc[r] \in {"posting", "answered", "failed"} =>
              \/ pc'[r] \in {"posting", "answered", "failed", "gone"}
              \/ \E d \in BOOLEAN : [report |-> r, delivered |-> d] \in log'
<1> SUFFICES ASSUME NEW r \in Report, pc[r] \in {"posting", "answered", "failed"},
                    pc'[r] \notin {"posting", "answered", "failed", "gone"}
             PROVE  \E d \in BOOLEAN : [report |-> r, delivered |-> d] \in log'
  OBVIOUS
<1>1. pc \in [Report -> PC]
  BY DEF Inv, TypeInv
<1>2. Record(r)
  BY <1>1 DEF Next, vars, agentVars, storeVars, Goto, Prepare, Discard, Send, PostFails, Record, AgentEnds,
     Lose, Arrive, Merge, Rename, WriteFails, Answer, ServerRestarts, Tick
<1>3. [report |-> r, delivered |-> pc[r] = "answered"] \in log'
  BY <1>2 DEF Record
<1> QED
  BY <1>3

\* A delivered report is on the server, and no send ends without its line
\* (enrol.go:251-252).
THEOREM LogTrue == Spec => LogIsTrue
<1>1. Inv => DeliveredIsFiled
  BY DEF Inv, FiledInv
<1>2. Inv /\ [Next]_vars =>
         [\A r \in Report : pc[r] \in {"posting", "answered", "failed"} =>
             \/ pc'[r] \in {"posting", "answered", "failed", "gone"}
             \/ \E d \in BOOLEAN : [report |-> r, delivered |-> d] \in log']_vars
  BY StepRecord
<1> QED
  BY <1>1, <1>2, InvAlways, PTL DEF Spec, LogIsTrue

(***************************************************************************)
(* The refinement of ConsentGate.                                          *)
(***************************************************************************)

Meaning(p) ==
    CASE p = "new" -> "none"
      [] p = "shown" -> "asked"
      [] p = "discarded" -> "refused"
      [] OTHER -> "agreed"

\* One agent goes on: its own question changes, and no other.
LEMMA Answered ==
    ASSUME NEW r \in Report, NEW p, pc \in [Report -> PC], pc' = [pc EXCEPT ![r] = p]
    PROVE  decisionOf' = [decisionOf EXCEPT ![r] = Meaning(p)]
BY DEF decisionOf, Meaning

\* The entries of a report in a history.
Places(h, q) == {i \in 1..Len(h) : h[i] = q}

LEMMA PlacesOfAppend ==
    ASSUME NEW S, NEW h \in Seq(S), NEW x \in S, NEW q,
           \A i \in 1..Len(h) : h[i] # x
    PROVE  /\ Cardinality(Places(Append(h, x), x)) = 1
           /\ Cardinality(Places(h, x)) = 0
           /\ q # x => Places(Append(h, x), q) = Places(h, q)
<1>1. /\ Len(Append(h, x)) = Len(h) + 1
      /\ Append(h, x)[Len(h) + 1] = x
      /\ \A i \in 1..Len(h) : Append(h, x)[i] = h[i]
      /\ Len(h) \in Nat
  BY AppendHolds
<1>2. Places(Append(h, x), x) = {Len(h) + 1} /\ Places(h, x) = {}
  BY <1>1 DEF Places
<1>3. q # x => Places(Append(h, x), q) = Places(h, q)
  BY <1>1 DEF Places
<1> QED
  BY <1>2, <1>3, FS_Singleton, FS_EmptySet

LEMMA RefineInit == Init => Gate!Init
<1> SUFFICES ASSUME Init PROVE Gate!Init
  OBVIOUS
<1>1. decisionOf = [r \in Report |-> "none"]
  BY DEF Init, decisionOf
<1>2. \A r \in Report : {i \in 1..Len(filed[MachineOf[r]]) : filed[MachineOf[r]][i] = r} = {}
  BY ReportAssumption DEF Init
<1>3. filings = [r \in Report |-> 0]
  BY <1>2, FS_EmptySet DEF filings
<1> QED
  BY <1>1, <1>3 DEF Gate!Init

\* A report is put into place for the first time, and its sender had agreed.
LEMMA RefineRename ==
    ASSUME Inv, NEW r \in Report, Rename(r) PROVE Gate!Next
<1> DEFINE m == MachineOf[r]
           past == filed[m]
<1>1. m \in Machine /\ past \in Seq(Report) /\ DOMAIN filed = Machine
  BY ReportAssumption DEF Inv, TypeInv
<1>2. filed' = [filed EXCEPT ![m] = Append(past, r)] /\ handler[r] = "merged" /\ pc' = pc
  BY DEF Rename, agentVars
<1>3. \A i \in 1..Len(past) : past[i] # r
  BY <1>2 DEF Inv, FiledInv, Filed
<1>4. decisionOf[r] = "agreed" /\ decisionOf' = decisionOf
  BY <1>2 DEF Inv, AgreedInv, decisionOf
<1>5. \A q \in Report : filings[q] = Cardinality(Places(filed[MachineOf[q]], q))
                      /\ filings'[q] = Cardinality(Places(filed'[MachineOf[q]], q))
  BY DEF filings, Places
<1>6. filings[r] = 0 /\ filings'[r] = 1
  <2>1. filed'[m] = Append(past, r)
    BY <1>1, <1>2
  <2>2. filings[r] = Cardinality(Places(past, r)) /\ filings'[r] = Cardinality(Places(Append(past, r), r))
    BY <1>5, <2>1
  <2> HIDE DEF past
  <2> QED
    BY <2>2, <1>1, <1>3, PlacesOfAppend
<1>7. \A q \in Report : q # r => filings'[q] = filings[q]
  <2> SUFFICES ASSUME NEW q \in Report, q # r
               PROVE  Places(filed'[MachineOf[q]], q) = Places(filed[MachineOf[q]], q)
    BY <1>5
  <2>1. CASE MachineOf[q] = m
    <3>1. filed'[m] = Append(past, r)
      BY <1>1, <1>2
    <3>2. Places(Append(past, r), q) = Places(past, q)
      <4> HIDE DEF past
      <4> QED
        BY <1>1, <1>3, PlacesOfAppend
    <3> QED
      BY <2>1, <3>1, <3>2
  <2>2. CASE MachineOf[q] # m
    <3>1. MachineOf[q] \in Machine
      BY ReportAssumption
    <3>2. filed'[MachineOf[q]] = filed[MachineOf[q]]
      BY <1>2, <2>2, <3>1, <1>1
    <3> QED
      BY <3>2
  <2> QED
    BY <2>1, <2>2
<1>8. filings' = [filings EXCEPT ![r] = 1]
  <2>1. filings = [q \in Report |-> filings[q]] /\ filings' = [q \in Report |-> filings'[q]]
    BY DEF filings
  <2> QED
    BY <2>1, <1>6, <1>7
<1> QED
  BY <1>4, <1>6, <1>8 DEF Gate!Next, Gate!Act

\* What an agent does is a question, an answer, or nothing the gate knows of.
LEMMA RefineAgent ==
    ASSUME Inv, NEW r \in Report, filed' = filed,
           Prepare(r) \/ Discard(r) \/ Send(r) \/ PostFails(r) \/ Record(r) \/ AgentEnds(r)
             \/ Answer(r)
    PROVE  Gate!Next \/ UNCHANGED Gate!vars
<1>1. pc \in [Report -> PC]
  BY DEF Inv, TypeInv
<1>2. UNCHANGED filings
  BY DEF filings
<1>3. CASE pc[r] = "new" /\ pc' = [pc EXCEPT ![r] = "shown"]
  <2>1. decisionOf[r] = "none" /\ decisionOf' = [decisionOf EXCEPT ![r] = "asked"]
    BY <1>1, <1>3, Answered DEF Meaning, decisionOf
  <2> QED
    BY <1>2, <2>1 DEF Gate!Next, Gate!Ask
<1>4. CASE pc[r] = "shown" /\ pc' = [pc EXCEPT ![r] = "discarded"]
  <2>1. decisionOf[r] = "asked" /\ decisionOf' = [decisionOf EXCEPT ![r] = "refused"]
    BY <1>1, <1>4, Answered DEF Meaning, decisionOf
  <2>2. decisionOf' = [t \in Report |-> IF t \in {r} THEN "refused" ELSE decisionOf[t]]
    BY <2>1 DEF decisionOf
  <2>3. Gate!Refuse({r})
    BY <1>2, <2>1, <2>2 DEF Gate!Refuse
  <2>4. {r} \in SUBSET Report /\ {r} # {}
    OBVIOUS
  <2> QED
    BY <2>3, <2>4 DEF Gate!Next
<1>5. CASE pc[r] = "shown" /\ pc' = [pc EXCEPT ![r] = "posting"]
  <2>1. decisionOf[r] = "asked" /\ decisionOf' = [decisionOf EXCEPT ![r] = "agreed"]
    BY <1>1, <1>5, Answered DEF Meaning, decisionOf
  <2> QED
    BY <1>2, <2>1 DEF Gate!Next, Gate!Agree
<1>6. CASE \/ pc' = pc
           \/ /\ pc[r] \notin {"new", "shown", "discarded"}
              /\ \E p \in {"answered", "failed", "done", "gone"} : pc' = [pc EXCEPT ![r] = p]
  <2>1. decisionOf' = decisionOf
    <3>1. CASE pc' = pc
      BY <3>1 DEF decisionOf
    <3>2. CASE /\ pc[r] \notin {"new", "shown", "discarded"}
               /\ \E p \in {"answered", "failed", "done", "gone"} : pc' = [pc EXCEPT ![r] = p]
      <4>1. decisionOf[r] = "agreed" /\ decisionOf' = [decisionOf EXCEPT ![r] = "agreed"]
        BY <1>1, <3>2, Answered DEF Meaning, decisionOf
      <4> QED
        BY <4>1 DEF decisionOf
    <3> QED
      BY <1>6, <3>1, <3>2
  <2> QED
    BY <1>2, <2>1 DEF Gate!vars
<1>7. \/ pc[r] = "new" /\ pc' = [pc EXCEPT ![r] = "shown"]
      \/ pc[r] = "shown" /\ pc' = [pc EXCEPT ![r] = "discarded"]
      \/ pc[r] = "shown" /\ pc' = [pc EXCEPT ![r] = "posting"]
      \/ pc' = pc
      \/ /\ pc[r] \notin {"new", "shown", "discarded"}
         /\ \E p \in {"answered", "failed", "done", "gone"} : pc' = [pc EXCEPT ![r] = p]
  BY DEF Prepare, Discard, Send, PostFails, Record, AgentEnds, Answer, Goto
<1> QED
  BY <1>3, <1>4, <1>5, <1>6, <1>7

LEMMA RefineStep == Inv /\ [Next]_vars => [Gate!Next]_(Gate!vars)
<1> SUFFICES ASSUME Inv, [Next]_vars PROVE Gate!Next \/ UNCHANGED Gate!vars
  OBVIOUS
<1>1. CASE UNCHANGED <<pc, filed>>
  BY <1>1 DEF Gate!vars, decisionOf, filings
<1>2. \/ UNCHANGED <<pc, filed>>
      \/ \E r \in Report :
            \/ Rename(r)
            \/ /\ filed' = filed
               /\ \/ Prepare(r) \/ Discard(r) \/ Send(r) \/ PostFails(r) \/ Record(r)
                  \/ AgentEnds(r) \/ Answer(r)
  BY DEF Next, vars, agentVars, storeVars, Prepare, Discard, Send, PostFails, Record,
     AgentEnds, Lose, Arrive, Merge, WriteFails, Answer, ServerRestarts, Tick
<1> QED
  BY <1>1, <1>2, RefineAgent, RefineRename

\* What is filed on the server was shown to the person at the machine, agreed to, and is
\* filed once at most.
THEOREM FleetGateImplemented == Spec => GateSpec
<1>1. Spec => Gate!Init /\ [][Gate!Next]_(Gate!vars)
  BY RefineInit, RefineStep, InvAlways, PTL DEF Spec
<1> QED
  BY <1>1 DEF GateSpec, Gate!Spec
=============================================================================
