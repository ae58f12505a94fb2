-------------------------- MODULE RemediateProofs --------------------------
(***************************************************************************)
(* Proofs about the consent gate, for any number of fixes, calls and       *)
(* tokens, and for every setting of the flags.                             *)
(*                                                                         *)
(* The argument: a token is in exactly one place at a time.  It is being   *)
(* planned, or it waits in the map, or one Apply holds it, or it is spent; *)
(* and what the log and the history say of it follows from the place.      *)
(***************************************************************************)
EXTENDS Remediate, TLAPS

Planning(p) == pc[p] \in {"plan_store", "plan_ask"}
Agreed(p) == pc[p] \in {"point", "fix", "moving"}

Asked(t) == Logged("CONSENT_ASKED", t)
Given(t) == Logged("CONSENT_GIVEN", t)
Denied(t) == Logged("CONSENT_DENIED", t)

Undoing(p) == pc[p] \in {"undo", "restoring", "forget", "undone"}

\* What a call works with is there while it works with it.  TypeOK needs this
\* to be inductive.
LabelInv ==
    /\ \A p \in Proc :
          /\ Planning(p) \/ Applying(p) =>
                tok[p] \in Token /\ issued[tok[p]] \in Plan
          /\ Undoing(p) => job[p] \in Fix
          /\ pc[p] = "restoring" => tok[p] \in Token
    /\ \A t \in open : issued[t] \in Plan

TypeInv == TypeOK /\ LabelInv

\* Nothing was decided under t and nothing was run.
Untouched(t) == ~Given(t) /\ ~Denied(t) /\ started[t] = 0

\* A plan being made has a token nobody else knows yet.
PlanInv ==
    \A p \in Proc : Planning(p) =>
        /\ ~Asked(tok[p])
        /\ pc[p] = "plan_store" <=> tok[p] \notin open
        /\ \A q \in Proc : Planning(q) /\ tok[q] = tok[p] => q = p

\* An Apply is alone with its token.
ApplyInv ==
    \A p \in Proc : Applying(p) =>
        /\ Asked(tok[p])
        /\ tok[p] \notin open
        /\ \A q \in Proc : Applying(q) /\ tok[q] = tok[p] => q = p

\* A token that waits, or was never shown, is untouched.
TokenInv ==
    \A t \in Token :
        /\ t \in open \/ ~Asked(t) => Untouched(t)
        /\ Asked(t) => issued[t] # NoPlan

DecideInv == \A p \in Proc : pc[p] = "decide" => Untouched(tok[p])

\* Past the consent line the log holds it, and until the fix returns all that
\* was demanded still stands.
AgreedInv ==
    \A p \in Proc :
        /\ Applying(p) /\ pc[p] # "decide" => Given(tok[p])
        /\ Agreed(p) =>
              /\ MayProceed(p)
              /\ ~Denied(tok[p])
              /\ pc[p] # "moving" => started[tok[p]] = 0
              /\ pc[p] # "point" /\ issued[tok[p]].restore => tok[p] \in points

StartedInv ==
    \A t \in Token :
        /\ started[t] \in 0..1
        /\ started[t] > 0 =>
              /\ Asked(t)
              /\ Given(t)
              /\ ~Denied(t)
              /\ ~Blocked(t)
              /\ ~LacksRights(t)
              /\ issued[t].restore => t \in points

Inv == TypeInv /\ PlanInv /\ ApplyInv /\ TokenInv /\ DecideInv /\ AgreedInv /\ StartedInv

-----------------------------------------------------------------------------
\* What one Append does to the log, as the definitions read it.
LEMMA WriteLogged ==
    ASSUME NEW e, NEW t, NEW d, NEW u, Write(e, t)
    PROVE  Logged(d, u)' <=> Logged(d, u) \/ (d = e /\ u = t)
  BY DEF Write, Logged, Line

\* Type correctness, the first layer of the inductive invariant.
LEMMA TypeInit == Init => TypeInv
  BY FixAssumption, FlagAssumption
     DEF Init, TypeInv, TypeOK, LabelInv, Planning, Applying, Undoing,
         PC, Confirmation, NoConfirmation

LEMMA TypeStep == TypeInv /\ [Next]_vars => TypeInv'
<1> SUFFICES ASSUME TypeInv, [Next]_vars PROVE TypeInv'
  OBVIOUS
<1> USE FixAssumption, PlanAssumption DEF TypeInv, TypeOK, LabelInv,
        Planning, Applying, Undoing, PC, Event, Confirmation, NoConfirmation,
        Write, Line, Goto, Return, applierVars, machineVars
<1>1. ASSUME NEW p \in Proc, NEW f \in Fix, NEW t \in Token, PlanBegin(p, f, t)
      PROVE  TypeInv'
  <2>1. PICK blocked \in BOOLEAN, elevated \in BOOLEAN, restore \in BOOLEAN :
          issued' = [issued EXCEPT ![t] =
             [fix |-> f, blocked |-> blocked, elevated |-> elevated,
              restore |-> restore]]
    BY <1>1, FlagAssumption DEF PlanBegin
  <2>2. /\ issued' \in [Token -> Plan \cup {NoPlan}]
        /\ issued'[t] \in Plan
        /\ \A u \in Token : issued[u] \in Plan => issued'[u] \in Plan
    BY <2>1 DEF Plan
  <2> QED
    BY <1>1, <2>2 DEF PlanBegin
<1>2. ASSUME NEW p \in Proc, NEW t \in Token, NEW c \in Confirmation, ApplyTake(p, t, c)
      PROVE  TypeInv'
  BY <1>2 DEF ApplyTake
<1>3. ASSUME NEW p \in Proc, NEW f \in Fix, RollbackCheck(p, f)
      PROVE  TypeInv'
  BY <1>3 DEF RollbackCheck
<1>4. ASSUME NEW p \in Proc, Step(p)
      PROVE  TypeInv'
  <2>1. CASE PlanStore(p)
    BY <2>1 DEF PlanStore
  <2>2. CASE PlanAsk(p)
    BY <2>2 DEF PlanAsk
  <2>3. CASE ApplyRefuse(p)
    BY <2>3 DEF ApplyRefuse
  <2>4. CASE ApplyDryRun(p)
    BY <2>4 DEF ApplyDryRun
  <2>5. CASE ApplyConsent(p)
    BY <2>5 DEF ApplyConsent
  <2>6. CASE ApplyPoint(p)
    BY <2>6 DEF ApplyPoint
  <2>7. CASE ApplyNoPoint(p)
    BY <2>7 DEF ApplyNoPoint
  <2>8. CASE FixBegin(p)
    BY <2>8 DEF FixBegin
  <2>9. CASE FixRefused(p)
    BY <2>9 DEF FixRefused
  <2>10. CASE FixDone(p)
    BY <2>10 DEF FixDone
  <2>11. CASE FixFailed(p)
    BY <2>11 DEF FixFailed
  <2>12. CASE ApplyRecord(p)
    BY <2>12 DEF ApplyRecord
  <2>13. CASE ApplyRecordError(p)
    BY <2>13 DEF ApplyRecordError
  <2>14. CASE ApplyMark(p)
    BY <2>14 DEF ApplyMark, Plan
  <2>15. CASE UndoBegin(p)
    BY <2>15 DEF UndoBegin
  <2>16. CASE UndoDone(p)
    BY <2>16 DEF UndoDone
  <2>17. CASE UndoFailed(p)
    BY <2>17 DEF UndoFailed
  <2>18. CASE RollbackForget(p)
    BY <2>18 DEF RollbackForget
  <2>19. CASE RollbackRecord(p)
    BY <2>19 DEF RollbackRecord
  <2> QED
    BY <1>4, <2>1, <2>2, <2>3, <2>4, <2>5, <2>6, <2>7, <2>8, <2>9, <2>10, <2>11, <2>12, <2>13, <2>14, <2>15, <2>16, <2>17, <2>18, <2>19 DEF Step
<1>5. CASE Restart
  BY <1>5 DEF Restart
<1>6. CASE UNCHANGED vars
  BY <1>6 DEF vars
<1> QED
  BY <1>1, <1>2, <1>3, <1>4, <1>5, <1>6 DEF Next, Call

-----------------------------------------------------------------------------
\* The three consent lines are untouched by a step that appends another line.
SameConsent ==
    \A t \in Token : /\ Asked(t)' <=> Asked(t)
                     /\ Given(t)' <=> Given(t)
                     /\ Denied(t)' <=> Denied(t)

\* Most steps only move one call on, past the point where its token matters.
LEMMA MovesOn ==
    ASSUME Inv, TypeInv',
           NEW p \in Proc, NEW l \in PC,
           l \notin {"plan_store", "plan_ask", "decide", "point", "fix", "moving"},
           pc' = [pc EXCEPT ![p] = l],
           Applying(p)' => /\ Applying(p) /\ pc[p] # "decide"
                           /\ tok'[p] = tok[p],
           \A q \in Proc \ {p} : tok'[q] = tok[q] /\ conf'[q] = conf[q],
           UNCHANGED <<issued, open, points, started>>,
           SameConsent
    PROVE  Inv'
<1> USE DEF Inv, TypeInv, TypeOK, LabelInv, SameConsent
<1>0. /\ \A q \in Proc : q # p => pc'[q] = pc[q]
      /\ pc'[p] = l
  OBVIOUS
<1>1. PlanInv'
  BY <1>0 DEF PlanInv, Planning
<1>2. ApplyInv'
  BY <1>0 DEF ApplyInv, Applying
<1>3. TokenInv'
  BY DEF TokenInv, Untouched
<1>4. DecideInv'
  BY <1>0 DEF DecideInv, Untouched, Applying
<1>5. AgreedInv'
  BY <1>0 DEF AgreedInv, Agreed, Applying, MayProceed, Acknowledged, Blocked,
              LacksRights, Unsafe
<1>6. StartedInv'
  BY DEF StartedInv, Blocked, LacksRights
<1> QED
  BY <1>1, <1>2, <1>3, <1>4, <1>5, <1>6

-----------------------------------------------------------------------------
\* The steps that hand a token from one place to the next, one lemma each.
LEMMA PlanBeginStep ==
    ASSUME Inv, TypeInv', NEW p \in Proc, NEW f \in Fix, NEW t \in Token,
           PlanBegin(p, f, t)
    PROVE  Inv'
<1> USE DEF Inv, TypeInv, TypeOK, LabelInv, PlanBegin, Goto, machineVars
<1>1. SameConsent
  BY DEF SameConsent, Asked, Given, Denied, Logged, Line, Write
<1>2. /\ ~Asked(t)
      /\ t \notin open
      /\ \A u \in Token \ {t} : issued'[u] = issued[u]
      /\ issued'[t] # NoPlan
      /\ \A q \in Proc : Planning(q) \/ Applying(q) => tok[q] # t
  <2>1. pc'[p] = "plan_store" /\ tok'[p] = t
    OBVIOUS
  <2>2. issued'[t] \in Plan
    BY <2>1 DEF Planning
  <2>3. \A u \in Token \ {t} : issued'[u] = issued[u]
    OBVIOUS
  <2>4. \A q \in Proc : Planning(q) \/ Applying(q) => tok[q] # t
    BY PlanAssumption
  <2>5. ~Asked(t) /\ t \notin open
    BY PlanAssumption DEF TokenInv
  <2> QED
    BY <2>2, <2>3, <2>4, <2>5, PlanAssumption
<1>3. /\ \A q \in Proc : q # p => pc'[q] = pc[q] /\ tok'[q] = tok[q]
      /\ pc'[p] = "plan_store" /\ tok'[p] = t
  OBVIOUS
<1>4. PlanInv'
  BY <1>1, <1>2, <1>3 DEF PlanInv, Planning, SameConsent
<1>5. ApplyInv'
  BY <1>1, <1>2, <1>3 DEF ApplyInv, Applying, SameConsent
<1>6. TokenInv'
  BY <1>1, <1>2 DEF TokenInv, Untouched, SameConsent
<1>7. DecideInv'
  BY <1>1, <1>2, <1>3 DEF DecideInv, Untouched, SameConsent, Applying
<1>8. AgreedInv'
  BY <1>1, <1>2, <1>3 DEF AgreedInv, Agreed, Applying, MayProceed, Acknowledged,
                          Blocked, LacksRights, Unsafe, SameConsent
<1>9. StartedInv'
  BY <1>1, <1>2 DEF StartedInv, Blocked, LacksRights, SameConsent
<1> QED
  BY <1>4, <1>5, <1>6, <1>7, <1>8, <1>9

LEMMA PlanStoreStep ==
    ASSUME Inv, TypeInv', NEW p \in Proc, PlanStore(p)
    PROVE  Inv'
<1> USE DEF Inv, TypeInv, TypeOK, LabelInv, PlanStore, Goto, machineVars
<1>1. SameConsent
  BY DEF SameConsent, Asked, Given, Denied, Logged
<1>2. /\ \A q \in Proc : q # p => pc'[q] = pc[q]
      /\ pc'[p] = "plan_ask" /\ Planning(p)
  BY DEF Planning
<1>3. PlanInv'
  BY <1>1, <1>2 DEF PlanInv, Planning, SameConsent
<1>4. ApplyInv'
  BY <1>1, <1>2 DEF ApplyInv, Applying, PlanInv, SameConsent
<1>5. TokenInv'
  BY <1>1, <1>2 DEF TokenInv, PlanInv, Untouched, SameConsent
<1>6. DecideInv'
  BY <1>1, <1>2 DEF DecideInv, Untouched, SameConsent, Applying
<1>7. AgreedInv'
  BY <1>1, <1>2 DEF AgreedInv, Agreed, Applying, MayProceed, Acknowledged,
                    Blocked, LacksRights, Unsafe, SameConsent
<1>8. StartedInv'
  BY <1>1 DEF StartedInv, Blocked, LacksRights, SameConsent
<1> QED
  BY <1>3, <1>4, <1>5, <1>6, <1>7, <1>8

LEMMA PlanAskStep ==
    ASSUME Inv, TypeInv', NEW p \in Proc, PlanAsk(p)
    PROVE  Inv'
<1> USE DEF Inv, TypeInv, TypeOK, LabelInv, PlanAsk, Return, applierVars, machineVars
<1>1. \A t \in Token : /\ Asked(t)' <=> Asked(t) \/ t = tok[p]
                       /\ Given(t)' <=> Given(t)
                       /\ Denied(t)' <=> Denied(t)
  BY WriteLogged DEF Asked, Given, Denied
<1>2. /\ \A q \in Proc : q # p => /\ pc'[q] = pc[q] /\ tok'[q] = tok[q]
                                /\ conf'[q] = conf[q]
      /\ pc'[p] = "idle" /\ Planning(p)
  BY DEF Planning
<1>3. PlanInv'
  BY <1>1, <1>2 DEF PlanInv, Planning
<1>4. ApplyInv'
  BY <1>1, <1>2 DEF ApplyInv, Applying
<1>5. TokenInv'
  BY <1>1, <1>2, PlanAssumption DEF TokenInv, Untouched
<1>6. DecideInv'
  BY <1>1, <1>2 DEF DecideInv, Untouched, Applying
<1>7. AgreedInv'
  BY <1>1, <1>2 DEF AgreedInv, Agreed, Applying, MayProceed, Acknowledged,
                    Blocked, LacksRights, Unsafe
<1>8. StartedInv'
  BY <1>1 DEF StartedInv, Blocked, LacksRights
<1> QED
  BY <1>3, <1>4, <1>5, <1>6, <1>7, <1>8

LEMMA ApplyTakeStep ==
    ASSUME Inv, TypeInv', NEW p \in Proc, NEW t \in Token, NEW c \in Confirmation,
           ApplyTake(p, t, c)
    PROVE  Inv'
<1> USE DEF Inv, TypeInv, TypeOK, LabelInv, ApplyTake, Goto, machineVars
<1>1. SameConsent
  BY DEF SameConsent, Asked, Given, Denied, Logged
<1>2. /\ \A q \in Proc : q # p => /\ pc'[q] = pc[q] /\ tok'[q] = tok[q]
                                /\ conf'[q] = conf[q]
      /\ pc'[p] = "decide" /\ tok'[p] = t /\ Asked(t)
  BY DEF Asked
<1>3. PlanInv'
  BY <1>1, <1>2 DEF PlanInv, Planning, SameConsent
<1>4. ApplyInv'
  BY <1>1, <1>2 DEF ApplyInv, Applying, SameConsent
<1>5. TokenInv'
  BY <1>1 DEF TokenInv, Untouched, SameConsent
<1>6. DecideInv'
  BY <1>1, <1>2 DEF DecideInv, TokenInv, Untouched, SameConsent, Applying
<1>7. AgreedInv'
  BY <1>1, <1>2 DEF AgreedInv, Agreed, Applying, MayProceed, Acknowledged,
                    Blocked, LacksRights, Unsafe, SameConsent
<1>8. StartedInv'
  BY <1>1 DEF StartedInv, Blocked, LacksRights, SameConsent
<1> QED
  BY <1>3, <1>4, <1>5, <1>6, <1>7, <1>8

LEMMA ApplyRefuseStep ==
    ASSUME Inv, TypeInv', NEW p \in Proc, ApplyRefuse(p)
    PROVE  Inv'
<1> USE DEF Inv, TypeInv, TypeOK, LabelInv, ApplyRefuse, Return, applierVars, machineVars
<1>1. \A t \in Token : /\ Asked(t)' <=> Asked(t)
                       /\ Given(t)' <=> Given(t)
                       /\ Denied(t)' => Denied(t) \/ t = tok[p]
  BY DEF Asked, Given, Denied, Logged, Line, Write
<1>2. /\ \A q \in Proc : q # p => /\ pc'[q] = pc[q] /\ tok'[q] = tok[q]
                                /\ conf'[q] = conf[q]
      /\ pc'[p] = "idle" /\ Applying(p) /\ pc[p] = "decide"
  BY DEF Applying
<1>3. PlanInv'
  BY <1>1, <1>2 DEF PlanInv, Planning
<1>4. ApplyInv'
  BY <1>1, <1>2 DEF ApplyInv, Applying
<1>5. TokenInv'
  BY <1>1, <1>2 DEF TokenInv, ApplyInv, Applying, Untouched
<1>6. DecideInv'
  BY <1>1, <1>2 DEF DecideInv, ApplyInv, Untouched, Applying
<1>7. AgreedInv'
  BY <1>1, <1>2 DEF AgreedInv, DecideInv, ApplyInv, Untouched, Agreed, Applying,
                    MayProceed, Acknowledged, Blocked, LacksRights, Unsafe
<1>8. StartedInv'
  BY <1>1, <1>2 DEF StartedInv, DecideInv, Untouched, Blocked, LacksRights
<1> QED
  BY <1>3, <1>4, <1>5, <1>6, <1>7, <1>8

LEMMA ConsentStep ==
    ASSUME Inv, TypeInv', NEW p \in Proc, ApplyDryRun(p) \/ ApplyConsent(p)
    PROVE  Inv'
<1> USE DEF Inv, TypeInv, TypeOK, LabelInv, ApplyDryRun, ApplyConsent, Goto, Return,
            applierVars, machineVars
<1>1. \A t \in Token : /\ Asked(t)' <=> Asked(t)
                       /\ Given(t)' <=> Given(t) \/ t = tok[p]
                       /\ Denied(t)' <=> Denied(t)
  BY DEF Asked, Given, Denied, Logged, Line, Write
<1>2. /\ \A q \in Proc : q # p => /\ pc'[q] = pc[q] /\ tok'[q] = tok[q]
                                /\ conf'[q] = conf[q]
      /\ Applying(p) /\ pc[p] = "decide" /\ MayProceed(p)
      /\ \/ pc'[p] = "idle"
         \/ /\ pc'[p] \in {"point", "fix"} /\ tok' = tok /\ conf' = conf
            /\ pc'[p] = "fix" => ~issued[tok[p]].restore
  BY DEF Applying
<1>3. PlanInv'
  BY <1>1, <1>2 DEF PlanInv, Planning
<1>4. ApplyInv'
  BY <1>1, <1>2 DEF ApplyInv, Applying
<1>5. TokenInv'
  BY <1>1, <1>2 DEF TokenInv, ApplyInv, Applying, Untouched
<1>6. DecideInv'
  BY <1>1, <1>2 DEF DecideInv, ApplyInv, Untouched, Applying
<1>7. AgreedInv'
  BY <1>1, <1>2 DEF AgreedInv, DecideInv, ApplyInv, Untouched, Agreed, Applying,
                    MayProceed, Acknowledged, Blocked, LacksRights, Unsafe
<1>8. StartedInv'
  BY <1>1, <1>2 DEF StartedInv, Blocked, LacksRights
<1> QED
  BY <1>3, <1>4, <1>5, <1>6, <1>7, <1>8

LEMMA ApplyPointStep ==
    ASSUME Inv, TypeInv', NEW p \in Proc, ApplyPoint(p)
    PROVE  Inv'
<1> USE DEF Inv, TypeInv, TypeOK, LabelInv, ApplyPoint, Goto, applierVars
<1>1. \A t \in Token : /\ Asked(t)' <=> Asked(t)
                       /\ Given(t)' <=> Given(t)
                       /\ Denied(t)' <=> Denied(t)
                       /\ t \in points => t \in points'
  BY DEF Asked, Given, Denied, Logged, Line, Write
<1>2. /\ \A q \in Proc : q # p => pc'[q] = pc[q]
      /\ tok' = tok /\ conf' = conf /\ Applying(p)
      /\ pc[p] = "point" /\ pc'[p] = "fix" /\ tok[p] \in points'
  BY DEF Applying
<1>3. PlanInv'
  BY <1>1, <1>2 DEF PlanInv, Planning
<1>4. ApplyInv'
  BY <1>1, <1>2 DEF ApplyInv, Applying
<1>5. TokenInv'
  BY <1>1, <1>2 DEF TokenInv, ApplyInv, Applying, Untouched
<1>6. DecideInv'
  BY <1>1, <1>2 DEF DecideInv, ApplyInv, Untouched, Applying
<1>7. AgreedInv'
  BY <1>1, <1>2 DEF AgreedInv, DecideInv, ApplyInv, Untouched, Agreed, Applying,
                    MayProceed, Acknowledged, Blocked, LacksRights, Unsafe
<1>8. StartedInv'
  BY <1>1, <1>2 DEF StartedInv, Blocked, LacksRights
<1> QED
  BY <1>3, <1>4, <1>5, <1>6, <1>7, <1>8

LEMMA FixStarts ==
    ASSUME Inv, TypeInv', NEW p \in Proc, FixBegin(p) \/ FixRefused(p)
    PROVE  Inv'
<1> USE DEF Inv, TypeInv, TypeOK, LabelInv, FixBegin, FixRefused, Goto, applierVars
<1>1. \A t \in Token : /\ Asked(t)' <=> Asked(t)
                       /\ Given(t)' <=> Given(t)
                       /\ Denied(t)' <=> Denied(t)
  BY DEF Asked, Given, Denied, Logged
<1>2. /\ \A q \in Proc : q # p => pc'[q] = pc[q]
      /\ tok' = tok /\ conf' = conf /\ points' = points /\ Applying(p)
      /\ pc[p] = "fix" /\ pc'[p] \in {"moving", "record_err"}
  BY DEF Applying
<1>3. /\ tok[p] \in Token
      /\ started[tok[p]] = 0
      /\ started' = [started EXCEPT ![tok[p]] = 1]
  BY <1>2 DEF AgreedInv, Agreed
<1>4. PlanInv'
  BY <1>1, <1>2, <1>3 DEF PlanInv, Planning
<1>5. ApplyInv'
  BY <1>1, <1>2, <1>3 DEF ApplyInv, Applying
<1>6. TokenInv'
  BY <1>1, <1>2, <1>3 DEF TokenInv, ApplyInv, Applying, Untouched
<1>7. DecideInv'
  BY <1>1, <1>2, <1>3 DEF DecideInv, ApplyInv, Untouched, Applying
<1>8. AgreedInv'
  BY <1>1, <1>2, <1>3 DEF AgreedInv, DecideInv, ApplyInv, Untouched, Agreed, Applying,
                    MayProceed, Acknowledged, Blocked, LacksRights, Unsafe
<1>9. StartedInv'
  BY <1>1, <1>2, <1>3 DEF StartedInv, AgreedInv, Agreed, ApplyInv, Applying, MayProceed, Blocked, LacksRights
<1> QED
  BY <1>4, <1>5, <1>6, <1>7, <1>8, <1>9

LEMMA RestartStep ==
    ASSUME Inv, TypeInv', Restart
    PROVE  Inv'
<1> USE DEF Inv, Restart
<1>1. \A p \in Proc : ~Planning(p)' /\ ~Applying(p)' /\ ~Agreed(p)' /\ pc'[p] # "decide"
  BY DEF Planning, Applying, Agreed
<1>2. PlanInv' /\ ApplyInv' /\ DecideInv' /\ AgreedInv'
  BY <1>1 DEF PlanInv, ApplyInv, DecideInv, AgreedInv
<1>3. TokenInv'
  BY DEF TokenInv, Untouched, Asked, Given, Denied, Logged
<1>4. StartedInv'
  BY DEF StartedInv, Blocked, LacksRights, Asked, Given, Denied, Logged
<1> QED
  BY <1>2, <1>3, <1>4

-----------------------------------------------------------------------------
LEMMA InvInit == Init => Inv
<1> SUFFICES ASSUME Init PROVE Inv
  OBVIOUS
<1>1. TypeInv
  BY TypeInit
<1>2. \A t \in Token : ~Asked(t) /\ ~Given(t) /\ ~Denied(t)
  BY DEF Init, Asked, Given, Denied, Logged
<1> QED
  BY <1>1, <1>2 DEF Init, Inv, PlanInv, ApplyInv, TokenInv, DecideInv, AgreedInv,
                    StartedInv, Planning, Applying, Agreed, Untouched

\* The remaining steps of a running call: they change no token's place.
LEMMA OtherStep ==
    ASSUME Inv, TypeInv', NEW p \in Proc,
           \/ ApplyNoPoint(p) \/ FixDone(p) \/ FixFailed(p)
           \/ ApplyRecord(p) \/ ApplyRecordError(p) \/ ApplyMark(p)
           \/ UndoBegin(p) \/ UndoDone(p) \/ UndoFailed(p)
           \/ RollbackForget(p) \/ RollbackRecord(p)
           \/ \E f \in Fix : RollbackCheck(p, f)
    PROVE  Inv'
<1> USE DEF Goto, Return, applierVars, machineVars, Inv, TypeInv, TypeOK, LabelInv
<1>1. SameConsent
  BY DEF SameConsent, Asked, Given, Denied, Logged, Line, Write, ApplyNoPoint, FixDone,
         FixFailed, ApplyRecord, ApplyRecordError, ApplyMark, UndoBegin, UndoDone,
         UndoFailed, RollbackForget, RollbackRecord, RollbackCheck
<1>2. UNCHANGED <<issued, open, points, started>>
  BY DEF ApplyNoPoint, FixDone, FixFailed, ApplyRecord, ApplyRecordError, ApplyMark,
         UndoBegin, UndoDone, UndoFailed, RollbackForget, RollbackRecord, RollbackCheck
<1>3. \A q \in Proc \ {p} : tok'[q] = tok[q] /\ conf'[q] = conf[q]
  BY DEF ApplyNoPoint, FixDone, FixFailed, ApplyRecord, ApplyRecordError, ApplyMark,
         UndoBegin, UndoDone, UndoFailed, RollbackForget, RollbackRecord, RollbackCheck
<1>4. PICK l \in {"idle", "record_ok", "record_err", "mark", "undo", "restoring",
                 "forget", "undone"} :
        /\ pc' = [pc EXCEPT ![p] = l]
        /\ l \in {"record_ok", "record_err", "mark"} =>
              Applying(p) /\ pc[p] # "decide" /\ tok'[p] = tok[p]
  BY DEF Applying, ApplyNoPoint, FixDone, FixFailed, ApplyRecord, ApplyRecordError,
         ApplyMark, UndoBegin, UndoDone, UndoFailed, RollbackForget, RollbackRecord,
         RollbackCheck
<1>5. Applying(p)' => Applying(p) /\ pc[p] # "decide" /\ tok'[p] = tok[p]
  BY <1>4 DEF Applying
<1> QED
  BY <1>1, <1>2, <1>3, <1>4, <1>5, MovesOn DEF PC

LEMMA InvStep == Inv /\ [Next]_vars => Inv'
<1> SUFFICES ASSUME Inv, [Next]_vars PROVE Inv'
  OBVIOUS
<1>1. TypeInv'
  BY TypeStep DEF Inv
<1>2. ASSUME NEW p \in Proc, NEW f \in Fix, NEW t \in Token, PlanBegin(p, f, t)
      PROVE  Inv'
  BY <1>1, <1>2, PlanBeginStep
<1>3. ASSUME NEW p \in Proc, NEW t \in Token, NEW c \in Confirmation, ApplyTake(p, t, c)
      PROVE  Inv'
  BY <1>1, <1>3, ApplyTakeStep
<1>4. ASSUME NEW p \in Proc, NEW f \in Fix, RollbackCheck(p, f)
      PROVE  Inv'
  BY <1>1, <1>4, OtherStep
<1>5. ASSUME NEW p \in Proc, Step(p)
      PROVE  Inv'
  BY <1>1, <1>5, PlanStoreStep, PlanAskStep, ApplyRefuseStep, ConsentStep,
     ApplyPointStep, FixStarts, OtherStep DEF Step
<1>6. CASE Restart
  BY <1>1, <1>6, RestartStep
<1>7. CASE UNCHANGED vars
  BY <1>7 DEF vars, Inv, TypeInv, TypeOK, LabelInv, PlanInv, ApplyInv, TokenInv,
     DecideInv, AgreedInv, StartedInv, Planning, Applying, Undoing, Agreed,
     Untouched, MayProceed, Acknowledged, Blocked, LacksRights, Unsafe,
     Asked, Given, Denied, Logged
<1> QED
  BY <1>2, <1>3, <1>4, <1>5, <1>6, <1>7 DEF Next, Call

LEMMA InvAlways == Spec => []Inv
  BY InvInit, InvStep, PTL DEF Spec

-----------------------------------------------------------------------------
\* Every variable of the gate keeps its type, whatever calls overlap.
THEOREM TypeCorrect == Spec => []TypeOK
  BY InvAlways, PTL DEF Inv, TypeInv

\* A token is worked on by one Apply at a time and its fix is run once at most
\* (Applier.Apply consumes it under the lock, remediate.go:216-223).
THEOREM SingleUse == Spec => []OneRunPerPlan
<1>1. Inv => OneRunPerPlan
  BY DEF Inv, ApplyInv, StartedInv, OneRunPerPlan
<1> QED
  BY <1>1, InvAlways, PTL

\* No fix runs under a token that was not described, asked about and agreed to,
\* with the rights it needs and the missing restore point accepted.
THEOREM ConsentBeforeChange == Spec => []ChangeWasConsented
<1>1. Inv => ChangeWasConsented
  BY PlanAssumption DEF Inv, StartedInv, AgreedInv, TokenInv, Agreed, MayProceed,
     ChangeWasConsented, Asked, Given, Denied
<1> QED
  BY <1>1, InvAlways, PTL

\* A change that was promised a restore point is not begun before it exists.
THEOREM SafetyNetFirst == Spec => []PointBeforeChange
<1>1. Inv => PointBeforeChange
  BY DEF Inv, TypeInv, TypeOK, StartedInv, PointBeforeChange
<1> QED
  BY <1>1, InvAlways, PTL

-----------------------------------------------------------------------------
(***************************************************************************)
(* A dry run.                                                              *)
(***************************************************************************)

\* With --dry-run no call gets past the consent line.
DryInv ==
    agent.dry => /\ \A p \in Proc : pc[p] \in {"idle", "plan_store", "plan_ask", "decide"}
                 /\ DryRunIsDry

\* How the agent was started does not change while it runs.
LEMMA AgentStays == [Next]_vars => agent' = agent
<1> SUFFICES ASSUME [Next]_vars PROVE agent' = agent
  OBVIOUS
<1> USE DEF machineVars
<1>1. ASSUME NEW p \in Proc, Call(p) PROVE agent' = agent
  BY <1>1 DEF Call, PlanBegin, ApplyTake, RollbackCheck
<1>2. ASSUME NEW p \in Proc, Step(p) PROVE agent' = agent
  BY <1>2 DEF Step, PlanStore, PlanAsk, ApplyRefuse, ApplyDryRun, ApplyConsent,
     ApplyPoint, ApplyNoPoint, FixBegin, FixRefused, FixDone, FixFailed, ApplyRecord,
     ApplyRecordError, ApplyMark, UndoBegin, UndoDone, UndoFailed, RollbackForget,
     RollbackRecord
<1>3. CASE Restart
  BY <1>3 DEF Restart
<1>4. CASE UNCHANGED vars
  BY <1>4 DEF vars
<1> QED
  BY <1>1, <1>2, <1>3, <1>4 DEF Next

LEMMA DryStep == TypeOK /\ DryInv /\ [Next]_vars => DryInv'
<1> SUFFICES ASSUME TypeOK, DryInv, [Next]_vars PROVE DryInv'
  OBVIOUS
<1>0. agent' = agent
  BY AgentStays
<1>7. CASE ~agent.dry
  BY <1>0, <1>7 DEF DryInv
<1> SUFFICES ASSUME agent.dry PROVE DryInv'
  BY <1>7
<1> USE <1>0 DEF TypeOK, DryInv, DryRunIsDry, Goto, Return, applierVars, machineVars
<1>1. ASSUME NEW p \in Proc, NEW f \in Fix, NEW t \in Token, PlanBegin(p, f, t)
      PROVE  DryInv'
  BY <1>1 DEF PlanBegin
<1>2. ASSUME NEW p \in Proc, NEW t \in Token, NEW c \in Confirmation, ApplyTake(p, t, c)
      PROVE  DryInv'
  BY <1>2 DEF ApplyTake
<1>3. ASSUME NEW p \in Proc, NEW f \in Fix, RollbackCheck(p, f)
      PROVE  DryInv'
  BY <1>3 DEF RollbackCheck
<1>4. ASSUME NEW p \in Proc, Step(p)
      PROVE  DryInv'
  <2>1. CASE PlanStore(p) \/ PlanAsk(p)
    BY <2>1 DEF PlanStore, PlanAsk
  <2>2. CASE ApplyRefuse(p) \/ ApplyDryRun(p) \/ ApplyConsent(p)
    BY <2>2 DEF ApplyRefuse, ApplyDryRun, ApplyConsent
  <2>3. pc[p] \in {"idle", "plan_store", "plan_ask", "decide"}
    OBVIOUS
  <2>4. \/ PlanStore(p) \/ PlanAsk(p)
        \/ ApplyRefuse(p) \/ ApplyDryRun(p) \/ ApplyConsent(p)
    BY <1>4, <2>3 DEF Step, ApplyPoint, ApplyNoPoint, FixBegin, FixRefused, FixDone,
       FixFailed, ApplyRecord, ApplyRecordError, ApplyMark, UndoBegin, UndoDone,
       UndoFailed, RollbackForget, RollbackRecord
  <2> QED
    BY <2>1, <2>2, <2>4
<1>5. CASE Restart
  BY <1>5 DEF Restart
<1>6. CASE UNCHANGED vars
  BY <1>6 DEF vars
<1> QED
  BY <1>1, <1>2, <1>3, <1>4, <1>5, <1>6 DEF Next, Call

\* A dry run makes no restore point, enters no fix and lists nothing as applied.
THEOREM DryRunChangesNothing == Spec => []DryRunIsDry
<1>1. Init => DryInv
  BY DEF Init, DryInv, DryRunIsDry
<1>2. DryInv => DryRunIsDry
  BY DEF DryInv, DryRunIsDry
<1> QED
  BY <1>1, <1>2, DryStep, TypeCorrect, PTL DEF Spec

-----------------------------------------------------------------------------
(***************************************************************************)
(* Refinement.                                                             *)
(***************************************************************************)

\* What the mapped state says of one token.
LEMMA DecisionOf ==
    ASSUME NEW t \in Token
    PROVE  decisionOf[t] = IF Given(t) THEN "agreed"
                           ELSE IF Refused(t) THEN "refused"
                           ELSE IF Asked(t) THEN "asked" ELSE "none"
  BY DEF decisionOf, Given, Asked

LEMMA RefineInit == Init => Gate!Init
<1> SUFFICES ASSUME Init PROVE Gate!Init
  OBVIOUS
<1>1. \A t \in Token : ~Asked(t) /\ ~Given(t) /\ ~Refused(t)
  BY DEF Init, Asked, Given, Refused, Logged
<1>2. decisionOf = [t \in Token |-> "none"]
  BY <1>1 DEF decisionOf, Given, Asked
<1> QED
  BY <1>2 DEF Init, Gate!Init

\* A step that changes no token's answer and runs no fix is a stutter above.
LEMMA Stutters ==
    ASSUME started' = started,
           \A t \in Token : /\ Given(t)' <=> Given(t)
                            /\ Asked(t)' <=> Asked(t)
                            /\ Refused(t)' <=> Refused(t)
    PROVE  UNCHANGED Gate!vars
<1>1. \A t \in Token : decisionOf'[t] = decisionOf[t]
  BY DEF decisionOf, Given, Asked
<1>2. decisionOf' = decisionOf
  BY <1>1 DEF decisionOf
<1> QED
  BY <1>2 DEF Gate!vars

LEMMA MovesOnStutters ==
    ASSUME Inv, NEW p \in Proc,
           \A q \in Proc \ {p} : pc'[q] = pc[q] /\ tok'[q] = tok[q],
           Applying(p) => Given(tok[p]),
           Applying(p)' => Applying(p) /\ tok'[p] = tok[p],
           UNCHANGED <<open, started>>,
           SameConsent
    PROVE  UNCHANGED Gate!vars
<1>1. \A q \in Proc \ {p} : Applying(q)' <=> Applying(q)
  BY DEF Applying
<1>2. \A t \in Token : Refused(t)' <=> Refused(t)
  BY <1>1 DEF Refused, SameConsent, Asked, Given
<1> QED
  BY <1>2, Stutters DEF SameConsent

LEMMA RefinePlan ==
    ASSUME Inv, NEW p \in Proc,
           \/ \E f \in Fix, t \in Token : PlanBegin(p, f, t)
           \/ PlanStore(p)
    PROVE  UNCHANGED Gate!vars
<1> USE DEF Inv, TypeInv, TypeOK, LabelInv, Goto, machineVars, PlanBegin, PlanStore
<1>1. SameConsent
  BY DEF SameConsent, Asked, Given, Denied, Logged, Line, Write
<1>2. /\ started' = started
      /\ ~Applying(p) /\ ~Applying(p)'
      /\ \A q \in Proc \ {p} : (Applying(q)' <=> Applying(q)) /\ tok'[q] = tok[q]
  BY DEF Applying
<1>3. \A t \in Token : Asked(t) => (t \in open' <=> t \in open)
  BY DEF PlanInv, Planning
<1>4. \A t \in Token : Refused(t)' <=> Refused(t)
  BY <1>1, <1>2, <1>3 DEF Refused, SameConsent, Asked, Given
<1> QED
  BY <1>1, <1>2, <1>4, Stutters DEF SameConsent

LEMMA RefineAsk ==
    ASSUME Inv, NEW p \in Proc, PlanAsk(p)
    PROVE  Gate!Ask(tok[p])
<1> USE DEF Inv, TypeInv, TypeOK, LabelInv, PlanAsk, Return, applierVars, machineVars
<1>1. \A t \in Token : /\ Asked(t)' <=> Asked(t) \/ t = tok[p]
                       /\ Given(t)' <=> Given(t)
  BY WriteLogged DEF Asked, Given
<1>2. /\ tok[p] \in Token /\ tok[p] \in open /\ ~Asked(tok[p]) /\ ~Given(tok[p])
      /\ started' = started /\ open' = open
  BY DEF Planning, PlanInv, TokenInv, Untouched
<1>3. \A q \in Proc : /\ Applying(q)' <=> Applying(q)
                      /\ Applying(q) => tok'[q] = tok[q]
  BY DEF Applying
<1>4. \A t \in Token : Refused(t)' <=> Refused(t)
  BY <1>1, <1>2, <1>3 DEF Refused, Asked, Given
<1>5. decisionOf[tok[p]] = "none" /\ ~Refused(tok[p])
  BY <1>2, DecisionOf DEF Refused, Asked
<1>6. decisionOf' = [decisionOf EXCEPT ![tok[p]] = "asked"]
  BY <1>1, <1>2, <1>4, <1>5 DEF decisionOf, Asked, Given
<1> QED
  BY <1>2, <1>5, <1>6 DEF Gate!Ask

LEMMA RefineTake ==
    ASSUME Inv, NEW p \in Proc, NEW t \in Token, NEW c \in Confirmation,
           ApplyTake(p, t, c)
    PROVE  UNCHANGED Gate!vars
<1> USE DEF Inv, TypeInv, TypeOK, LabelInv, ApplyTake, Goto, machineVars
<1>1. SameConsent /\ started' = started
  BY DEF SameConsent, Asked, Given, Denied, Logged
<1>2. /\ ~Applying(p) /\ Applying(p)' /\ tok'[p] = t
      /\ \A q \in Proc \ {p} : (Applying(q)' <=> Applying(q)) /\ tok'[q] = tok[q]
  BY DEF Applying
<1>3. \A u \in Token : Refused(u)' <=> Refused(u)
  BY <1>1, <1>2 DEF Refused, SameConsent, Asked, Given
<1> QED
  BY <1>1, <1>3, Stutters DEF SameConsent

LEMMA RefineRefuse ==
    ASSUME Inv, NEW p \in Proc, ApplyRefuse(p)
    PROVE  Gate!Refuse({tok[p]})
<1> USE DEF Inv, TypeInv, TypeOK, LabelInv, ApplyRefuse, Return, applierVars, machineVars
<1>1. \A t \in Token : /\ Asked(t)' <=> Asked(t)
                       /\ Given(t)' <=> Given(t)
  BY DEF Asked, Given, Logged, Line, Write
<1>2. /\ pc[p] = "decide" /\ Applying(p) /\ ~Applying(p)'
      /\ \A q \in Proc \ {p} : (Applying(q)' <=> Applying(q)) /\ tok'[q] = tok[q]
      /\ started' = started /\ open' = open
  BY DEF Applying
<1>3. /\ tok[p] \in Token /\ Asked(tok[p]) /\ ~Given(tok[p]) /\ tok[p] \notin open
      /\ \A q \in Proc \ {p} : Applying(q) => tok[q] # tok[p]
  BY <1>2 DEF ApplyInv, DecideInv, Untouched
<1>4. \A t \in Token : Refused(t)' <=> Refused(t) \/ t = tok[p]
  BY <1>1, <1>2, <1>3 DEF Refused, Asked, Given
<1>5. ~Refused(tok[p])
  BY <1>2 DEF Refused
<1>6. decisionOf[tok[p]] = "asked"
  BY <1>3, <1>5, DecisionOf
<1>7. decisionOf' = [t \in Token |-> IF t \in {tok[p]} THEN "refused" ELSE decisionOf[t]]
  BY <1>1, <1>3, <1>4 DEF decisionOf, Asked, Given
<1> QED
  BY <1>2, <1>6, <1>7 DEF Gate!Refuse

LEMMA RefineAgree ==
    ASSUME Inv, NEW p \in Proc, ApplyDryRun(p) \/ ApplyConsent(p)
    PROVE  Gate!Agree(tok[p])
<1> USE DEF Inv, TypeInv, TypeOK, LabelInv, ApplyDryRun, ApplyConsent, Goto, Return,
            applierVars, machineVars
<1>1. \A t \in Token : /\ Asked(t)' <=> Asked(t)
                       /\ Given(t)' <=> Given(t) \/ t = tok[p]
  BY DEF Asked, Given, Logged, Line, Write
<1>2. /\ pc[p] = "decide" /\ Applying(p) /\ (Applying(p)' => tok'[p] = tok[p])
      /\ \A q \in Proc \ {p} : (Applying(q)' <=> Applying(q)) /\ tok'[q] = tok[q]
      /\ started' = started /\ open' = open
  BY DEF Applying
<1>3. /\ tok[p] \in Token /\ Asked(tok[p]) /\ ~Given(tok[p])
  BY <1>2 DEF ApplyInv, DecideInv, Untouched
<1>4. /\ ~Refused(tok[p])
      /\ \A t \in Token \ {tok[p]} : Refused(t)' <=> Refused(t)
  BY <1>1, <1>2, <1>3 DEF Refused, Asked, Given
<1>5. decisionOf[tok[p]] = "asked"
  BY <1>3, <1>4, DecisionOf
<1>6. decisionOf' = [decisionOf EXCEPT ![tok[p]] = "agreed"]
  BY <1>1, <1>3, <1>4 DEF decisionOf, Asked, Given
<1> QED
  BY <1>2, <1>5, <1>6 DEF Gate!Agree

LEMMA RefineAct ==
    ASSUME Inv, NEW p \in Proc, FixBegin(p) \/ FixRefused(p)
    PROVE  Gate!Act(tok[p])
<1> USE DEF Inv, TypeInv, TypeOK, LabelInv, FixBegin, FixRefused, Goto, applierVars
<1>1. SameConsent
  BY DEF SameConsent, Asked, Given, Denied, Logged
<1>2. /\ pc[p] = "fix" /\ Applying(p) /\ Applying(p)' /\ tok' = tok /\ open' = open
      /\ \A q \in Proc \ {p} : Applying(q)' <=> Applying(q)
  BY DEF Applying
<1>3. /\ tok[p] \in Token /\ Given(tok[p]) /\ started[tok[p]] = 0
      /\ started' = [started EXCEPT ![tok[p]] = 1]
  BY <1>2 DEF AgreedInv, Agreed
<1>4. \A t \in Token : Refused(t)' <=> Refused(t)
  BY <1>1, <1>2 DEF Refused, SameConsent, Asked, Given
<1>5. decisionOf' = decisionOf
  BY <1>1, <1>4 DEF decisionOf, SameConsent, Asked, Given
<1>6. decisionOf[tok[p]] = "agreed"
  BY <1>3, DecisionOf
<1> QED
  BY <1>3, <1>5, <1>6 DEF Gate!Act

\* Closing the agent refuses every question that was still open.
LEMMA RefineRestart ==
    ASSUME Inv, Restart
    PROVE  Gate!Next \/ UNCHANGED Gate!vars
<1> DEFINE S == {t \in Token : decisionOf[t] = "asked"}
<1> USE DEF Restart
<1>1. SameConsent /\ started' = started /\ open' = {}
  BY DEF SameConsent, Asked, Given, Denied, Logged
<1>2. \A q \in Proc : ~Applying(q)'
  BY DEF Applying
<1>3. \A t \in Token : Refused(t)' <=> Asked(t) /\ ~Given(t)
  BY <1>1, <1>2 DEF Refused, SameConsent, Asked, Given
<1>4. decisionOf' = [t \in Token |-> IF t \in S THEN "refused" ELSE decisionOf[t]]
  <2>1. ASSUME NEW t \in Token
        PROVE  decisionOf'[t] = IF t \in S THEN "refused" ELSE decisionOf[t]
    <3>1. decisionOf'[t] = IF Given(t) THEN "agreed"
                           ELSE IF Asked(t) THEN "refused" ELSE "none"
      BY <1>1, <1>3 DEF decisionOf, SameConsent, Asked, Given
    <3> QED
      BY <3>1, DecisionOf DEF Refused, Asked, Given
  <2> QED
    BY <2>1 DEF decisionOf
<1>5. CASE S = {}
  BY <1>1, <1>4, <1>5 DEF Gate!vars, decisionOf
<1>6. CASE S # {}
  <2>1. Gate!Refuse(S)
    BY <1>1, <1>4 DEF Gate!Refuse
  <2> QED
    BY <2>1, <1>6 DEF Gate!Next
<1> QED
  BY <1>5, <1>6

\* The steps after the consent line that run no fix.
LEMMA RefineOther ==
    ASSUME Inv, NEW p \in Proc,
           \/ ApplyPoint(p) \/ ApplyNoPoint(p) \/ FixDone(p) \/ FixFailed(p)
           \/ ApplyRecord(p) \/ ApplyRecordError(p) \/ ApplyMark(p)
           \/ UndoBegin(p) \/ UndoDone(p) \/ UndoFailed(p)
           \/ RollbackForget(p) \/ RollbackRecord(p)
           \/ \E f \in Fix : RollbackCheck(p, f)
    PROVE  UNCHANGED Gate!vars
<1> USE DEF Goto, Return, applierVars, machineVars, Inv, TypeInv, TypeOK, LabelInv,
        ApplyPoint, ApplyNoPoint, FixDone, FixFailed, ApplyRecord, ApplyRecordError,
        ApplyMark, UndoBegin, UndoDone, UndoFailed, RollbackForget, RollbackRecord,
        RollbackCheck
<1>1. SameConsent
  BY DEF SameConsent, Asked, Given, Denied, Logged, Line, Write
<1>2. UNCHANGED <<open, started>>
  OBVIOUS
<1>3. \A q \in Proc \ {p} : pc'[q] = pc[q] /\ tok'[q] = tok[q]
  OBVIOUS
<1>4. Applying(p)' => Applying(p) /\ tok'[p] = tok[p]
  BY DEF Applying
<1>5. Applying(p) => Given(tok[p])
  BY DEF Applying, Agreed, AgreedInv
<1> QED
  BY <1>1, <1>2, <1>3, <1>4, <1>5, MovesOnStutters

LEMMA RefineStep == Inv /\ [Next]_vars => [Gate!Next]_(Gate!vars)
<1> SUFFICES ASSUME Inv, [Next]_vars PROVE Gate!Next \/ UNCHANGED Gate!vars
  OBVIOUS
<1>1. \A p \in Proc : Planning(p) \/ Applying(p) => tok[p] \in Token
  BY DEF Inv, TypeInv, LabelInv
<1>2. ASSUME NEW p \in Proc, Call(p)
      PROVE  Gate!Next \/ UNCHANGED Gate!vars
  BY <1>2, RefinePlan, RefineTake, RefineOther DEF Call
<1>3. ASSUME NEW p \in Proc, Step(p)
      PROVE  Gate!Next \/ UNCHANGED Gate!vars
  <2>1. CASE PlanStore(p)
    BY <2>1, RefinePlan
  <2>2. CASE PlanAsk(p)
    BY <2>2, <1>1, RefineAsk DEF Gate!Next, PlanAsk, Planning
  <2>3. CASE ApplyRefuse(p)
    <3>1. tok[p] \in Token
      BY <2>3, <1>1 DEF ApplyRefuse, Applying
    <3>2. {tok[p]} \in SUBSET Token /\ {tok[p]} # {}
      BY <3>1
    <3> QED
      BY <2>3, <3>2, RefineRefuse DEF Gate!Next
  <2>4. CASE ApplyDryRun(p) \/ ApplyConsent(p)
    BY <2>4, <1>1, RefineAgree DEF Gate!Next, ApplyDryRun, ApplyConsent, Applying
  <2>5. CASE FixBegin(p) \/ FixRefused(p)
    BY <2>5, <1>1, RefineAct DEF Gate!Next, FixBegin, FixRefused, Applying
  <2> QED
    BY <1>3, <2>1, <2>2, <2>3, <2>4, <2>5, RefineOther DEF Step
<1>4. CASE Restart
  BY <1>4, RefineRestart
<1>5. CASE UNCHANGED vars
  <2>1. SameConsent /\ UNCHANGED <<open, started, pc, tok>>
    BY <1>5 DEF vars, SameConsent, Asked, Given, Denied, Logged
  <2>2. \A t \in Token : Refused(t)' <=> Refused(t)
    BY <2>1 DEF Refused, Applying, SameConsent, Asked, Given
  <2> QED
    BY <2>1, <2>2, Stutters DEF SameConsent
<1> QED
  BY <1>2, <1>3, <1>4, <1>5 DEF Next

\* The gate implements its promise: whatever calls overlap, fail or die with the
\* agent, each token is asked once, answered once, and acted on at most once.
THEOREM GateImplemented == Spec => GateSpec
<1>1. Spec => Gate!Init /\ [][Gate!Next]_(Gate!vars)
  BY RefineInit, RefineStep, InvAlways, PTL DEF Spec
<1> QED
  BY <1>1 DEF GateSpec, Gate!Spec

(***************************************************************************)
(* What is reported as applied.                                            *)
(***************************************************************************)

Done(t) == Logged("FIX_APPLIED", t)

\* The line of a run that worked is written once the fix has returned, and the fix goes
\* on the list after it.
OutcomeInv ==
    /\ \A t \in Token : Done(t) => started[t] > 0
    /\ \A p \in Proc :
          /\ pc[p] \in {"moving", "record_ok", "record_err"} =>
                ~Done(tok[p]) /\ started[tok[p]] > 0
          /\ pc[p] = "mark" => Done(tok[p])

\* The steps that write no such line and begin no fix.
LEMMA OutcomeStays ==
    ASSUME Inv, OutcomeInv, NEW p \in Proc,
           \/ \E f \in Fix, t \in Token : PlanBegin(p, f, t)
           \/ \E t \in Token, c \in Confirmation : ApplyTake(p, t, c)
           \/ \E f \in Fix : RollbackCheck(p, f)
           \/ PlanStore(p) \/ PlanAsk(p) \/ ApplyRefuse(p) \/ ApplyDryRun(p) \/ ApplyConsent(p)
           \/ ApplyPoint(p) \/ ApplyNoPoint(p) \/ FixDone(p) \/ FixFailed(p)
           \/ ApplyRecordError(p) \/ ApplyMark(p)
           \/ UndoBegin(p) \/ UndoDone(p) \/ UndoFailed(p)
           \/ RollbackForget(p) \/ RollbackRecord(p)
    PROVE  OutcomeInv' /\ \A t : Done(t)' <=> Done(t)
<1> USE DEF PlanBegin, PlanStore, PlanAsk, ApplyTake, ApplyRefuse, ApplyDryRun, ApplyConsent,
        ApplyPoint, ApplyNoPoint, FixDone, FixFailed, ApplyRecordError, ApplyMark, RollbackCheck,
        UndoBegin, UndoDone, UndoFailed, RollbackForget, RollbackRecord, Goto, Return,
        applierVars, machineVars
<1>1. started' = started
  OBVIOUS
<1>2. \A t : Done(t)' <=> Done(t)
  <2>1. log' = log \/ \E e \in Event \ {"FIX_APPLIED"}, u \in Token \cup {NoToken} : Write(e, u)
    <3>1. /\ tok \in [Proc -> Token \cup {NoToken}]
          /\ tok[p] \in Token \cup {NoToken}
      BY DEF Inv, TypeInv, TypeOK
    <3> QED
      BY <3>1 DEF Event
  <2> QED
    BY <2>1 DEF Done, Logged, Line, Write
<1>3. /\ pc \in [Proc -> PC]
      /\ \A q \in Proc : q # p => pc'[q] = pc[q] /\ tok'[q] = tok[q]
  BY DEF Inv, TypeInv, TypeOK
<1>4. /\ pc'[p] # "mark"
      /\ pc'[p] \in {"moving", "record_ok", "record_err"} => pc[p] = "moving" /\ tok'[p] = tok[p]
  BY <1>3
<1> QED
  BY <1>1, <1>2, <1>3, <1>4 DEF OutcomeInv

\* The fix is entered, and its line is written.
LEMMA OutcomeMoves ==
    ASSUME Inv, OutcomeInv, NEW p \in Proc,
           FixBegin(p) \/ FixRefused(p) \/ ApplyRecord(p)
    PROVE  OutcomeInv'
<1>1. /\ tok[p] \in Token /\ tok' = tok
      /\ pc \in [Proc -> PC] /\ started \in [Token -> Nat]
      /\ \A q \in Proc : q # p => pc'[q] = pc[q]
      /\ \A q \in Proc : Applying(q) /\ tok[q] = tok[p] => q = p
  BY DEF FixBegin, FixRefused, ApplyRecord, Goto, Inv, TypeInv, TypeOK, LabelInv, ApplyInv, Applying
<1>2. CASE FixBegin(p) \/ FixRefused(p)
  <2>1. /\ pc'[p] \in {"moving", "record_err"} /\ log' = log
        /\ started' = [started EXCEPT ![tok[p]] = @ + 1]
    BY <1>1, <1>2 DEF FixBegin, FixRefused, Goto
  <2>2. ~Done(tok[p])
    BY <1>1, <1>2 DEF FixBegin, FixRefused, Inv, AgreedInv, Agreed, OutcomeInv
  <2> QED
    BY <1>1, <2>1, <2>2 DEF OutcomeInv, Done, Logged
<1>3. CASE ApplyRecord(p)
  <2>1. /\ pc[p] = "record_ok" /\ pc'[p] = "mark" /\ started' = started
        /\ \A t : Done(t)' <=> Done(t) \/ t = tok[p]
    BY <1>1, <1>3, WriteLogged DEF ApplyRecord, Goto, Done, machineVars
  <2>2. started[tok[p]] > 0
    BY <2>1 DEF OutcomeInv
  <2> QED
    BY <1>1, <2>1, <2>2 DEF OutcomeInv, Applying
<1> QED
  BY <1>2, <1>3

LEMMA OutcomeStep == Inv /\ OutcomeInv /\ [Next]_vars => OutcomeInv'
<1> SUFFICES ASSUME Inv, OutcomeInv, [Next]_vars PROVE OutcomeInv'
  OBVIOUS
<1>1. CASE \E p \in Proc : Call(p) \/ Step(p)
  <2>1. PICK p \in Proc : Call(p) \/ Step(p)
    BY <1>1
  <2>2. CASE FixBegin(p) \/ FixRefused(p) \/ ApplyRecord(p)
    BY <2>2, OutcomeMoves
  <2>3. CASE ~(FixBegin(p) \/ FixRefused(p) \/ ApplyRecord(p))
    BY <2>1, <2>3, OutcomeStays DEF Call, Step
  <2> QED
    BY <2>2, <2>3
<1>2. CASE Restart
  BY <1>2 DEF Restart, OutcomeInv, Done, Logged
<1>3. CASE UNCHANGED vars
  BY <1>3 DEF vars, OutcomeInv, Done, Logged
<1> QED
  BY <1>1, <1>2, <1>3 DEF Next

LEMMA OutcomeAlways == Spec => []OutcomeInv
<1>1. Init => OutcomeInv
  BY DEF Init, OutcomeInv, Done, Logged
<1> QED
  BY <1>1, OutcomeStep, InvAlways, PTL DEF Spec

\* A call that consent was recorded for returns only with a line that says whether the
\* fix was applied, however it failed (Apply, recordOutcome); a restart apart.
THEOREM YesAnswered == Spec => YesIsAnswered
<1>1. Inv /\ OutcomeInv /\ [Next]_vars =>
         [\A p \in Proc, t \in Token :
             PastConsent(p) /\ tok[p] = t /\ pc'[p] = "idle" => Reported(t)' \/ Restart]_vars
  <2> SUFFICES ASSUME Inv, OutcomeInv, Next
               PROVE  \A p \in Proc, t \in Token :
                         PastConsent(p) /\ tok[p] = t /\ pc'[p] = "idle"
                            => Reported(t)' \/ Restart
    OBVIOUS
  <2> SUFFICES ASSUME NEW p \in Proc, NEW t \in Token, PastConsent(p), tok[p] = t,
                      pc'[p] = "idle", ~Restart
               PROVE  Reported(t)'
    OBVIOUS
  <2>1. pc \in [Proc -> PC]
    BY DEF Inv, TypeInv, TypeOK
  <2>2. PICK q \in Proc : Call(q) \/ Step(q)
    BY DEF Next
  <2>3. pc[p] \in {"point", "fix", "moving", "record_ok", "record_err", "mark"}
    BY DEF PastConsent, Applying
  <2>4. ApplyNoPoint(p) \/ ApplyRecordError(p) \/ ApplyMark(p)
    <3> USE DEF PlanBegin, PlanStore, PlanAsk, ApplyTake, ApplyRefuse, ApplyDryRun, ApplyConsent,
            ApplyPoint, FixBegin, FixRefused, FixDone, FixFailed, ApplyRecord, RollbackCheck,
            UndoBegin, UndoDone, UndoFailed, RollbackForget, RollbackRecord, Goto, Return
    <3>1. CASE q = p
      BY <2>1, <2>2, <2>3, <3>1 DEF Call, Step
    <3>2. CASE q # p
      BY <2>1, <2>2, <2>3, <3>2 DEF Call, Step, ApplyNoPoint, ApplyRecordError, ApplyMark
    <3> QED
      BY <3>1, <3>2
  <2>5. CASE ApplyNoPoint(p) \/ ApplyRecordError(p)
    BY <2>5, WriteLogged DEF ApplyNoPoint, ApplyRecordError, Reported
  <2>6. CASE ApplyMark(p)
    <3>1. pc[p] = "mark" /\ log' = log
      BY <2>6 DEF ApplyMark
    <3>2. Done(t)
      BY <3>1 DEF OutcomeInv
    <3> QED
      BY <3>1, <3>2 DEF Done, Reported, Logged
  <2> QED
    BY <2>4, <2>5, <2>6
<1> QED
  BY <1>1, InvAlways, OutcomeAlways, PTL DEF Spec, YesIsAnswered

\* A fix holds the quarantine of a run of its own.
HoldInv ==
    \A f \in Fix : held[f] # NoToken =>
        held[f] \in Token /\ issued[held[f]] # NoPlan /\ issued[held[f]].fix = f

\* While calls come one at a time: what is reported and can be put back is listed, or is
\* about to be; and what is struck off the list is held no more.
KeptInv ==
    agent.serial =>
        /\ \A p, q \in Proc : pc[p] # "idle" /\ pc[q] # "idle" => p = q
        /\ \A p \in Proc : pc[p] \in {"forget", "undone"} => held[job[p]] = NoToken
        /\ \A f \in Fix : held[f] # NoToken /\ held[f] \in changed[f] /\ Done(held[f]) =>
              f \in applied \/ \E p \in Proc : pc[p] = "mark" /\ issued[tok[p]].fix = f

ListInv == HoldInv /\ KeptInv

LEMMA ListCalls ==
    ASSUME Inv, OutcomeInv, ListInv, NEW p \in Proc, Call(p)
    PROVE  ListInv'
<1> USE DEF ListInv, PlanBegin, ApplyTake, RollbackCheck, Goto, applierVars, machineVars
<1>1. \A t : Done(t)' <=> Done(t)
  BY OutcomeStays DEF Call
<1>2. /\ UNCHANGED <<held, changed, applied, agent>>
      /\ pc' \in [Proc -> PC] /\ pc \in [Proc -> PC]
      /\ pc[p] = "idle" /\ (agent.serial => \A q \in Proc : pc[q] = "idle")
      /\ pc'[p] \in {"plan_store", "decide", "undo"}
      /\ \A q \in Proc : q # p => pc'[q] = pc[q]
      /\ \A t \in Token : issued[t] # NoPlan => issued'[t] = issued[t]
  BY DEF Call, Free, PC, Inv, TypeInv, TypeOK
<1>3. HoldInv'
  BY <1>2 DEF HoldInv
<1>4. KeptInv'
  BY <1>1, <1>2 DEF KeptInv
<1> QED
  BY <1>3, <1>4

\* The steps of a call that is running.
LEMMA ListSteps ==
    ASSUME Inv, OutcomeInv, ListInv, NEW p \in Proc, Step(p)
    PROVE  ListInv'
<1> USE DEF ListInv, Goto, Return, applierVars, machineVars
<1>1. /\ pc \in [Proc -> PC] /\ held \in [Fix -> Token \cup {NoToken}]
      /\ changed \in [Fix -> SUBSET Token]
  BY DEF Inv, TypeInv, TypeOK
<1>2. issued' = issued /\ agent' = agent /\ pc[p] # "idle"
  BY DEF Step, PlanStore, PlanAsk, ApplyRefuse, ApplyDryRun, ApplyConsent,
     ApplyPoint, ApplyNoPoint, FixBegin, FixRefused, FixDone, FixFailed, ApplyRecord,
     ApplyRecordError, ApplyMark, UndoBegin, UndoDone, UndoFailed, RollbackForget, RollbackRecord
<1>3. agent.serial => \A q \in Proc : q # p => pc[q] = "idle" /\ pc'[q] = "idle"
  BY <1>1, <1>2 DEF KeptInv, Step, PlanStore, PlanAsk, ApplyRefuse, ApplyDryRun, ApplyConsent,
     ApplyPoint, ApplyNoPoint, FixBegin, FixRefused, FixDone, FixFailed, ApplyRecord,
     ApplyRecordError, ApplyMark, UndoBegin, UndoDone, UndoFailed, RollbackForget, RollbackRecord
<1>4. CASE \/ PlanStore(p) \/ PlanAsk(p) \/ ApplyRefuse(p) \/ ApplyDryRun(p) \/ ApplyConsent(p)
           \/ ApplyPoint(p) \/ ApplyNoPoint(p) \/ ApplyRecordError(p) \/ UndoFailed(p)
           \/ RollbackRecord(p)
  <2>1. \A t : Done(t)' <=> Done(t)
    BY <1>4, OutcomeStays
  <2>2. /\ UNCHANGED <<held, changed, applied>>
        /\ pc[p] # "mark" /\ pc'[p] \notin {"forget", "undone", "mark"}
    BY <1>1, <1>4 DEF PlanStore, PlanAsk, ApplyRefuse, ApplyDryRun, ApplyConsent,
       ApplyPoint, ApplyNoPoint, ApplyRecordError, UndoFailed, RollbackRecord
  <2> QED
    BY <1>2, <1>3, <2>1, <2>2 DEF HoldInv, KeptInv
<1>5. CASE FixBegin(p) \/ FixRefused(p) \/ FixDone(p) \/ FixFailed(p)
  <2>1. /\ tok[p] \in Token /\ issued[tok[p]] \in Plan /\ issued[tok[p]] # NoPlan
        /\ issued[tok[p]].fix \in Fix
    BY <1>5, PlanAssumption DEF FixBegin, FixRefused, FixDone, FixFailed, Inv, TypeInv, LabelInv,
       Applying, Plan
  <2>2. ~Done(tok[p]) /\ \A t : Done(t)' <=> Done(t)
    BY <1>5, <2>1 DEF FixBegin, FixRefused, FixDone, FixFailed, OutcomeInv, Inv, AgreedInv, Agreed,
       Done, Logged
  <2>3. /\ applied' = applied
        /\ pc[p] # "mark" /\ pc'[p] \notin {"forget", "undone", "mark"}
        /\ \A f \in Fix : \/ held'[f] \in {held[f], NoToken}
                          \/ held'[f] = tok[p] /\ f = issued[tok[p]].fix
        /\ \A f \in Fix : changed'[f] \subseteq changed[f] \cup {tok[p]}
    BY <1>1, <1>5, <2>1 DEF FixBegin, FixRefused, FixDone, FixFailed
  <2>4. HoldInv'
    BY <1>2, <2>1, <2>3 DEF HoldInv
  <2>5. KeptInv'
    BY <1>2, <1>3, <2>2, <2>3 DEF KeptInv
  <2> QED
    BY <2>4, <2>5
<1>6. CASE ApplyRecord(p)
  <2>1. /\ UNCHANGED <<held, changed, applied, tok>>
        /\ pc'[p] = "mark" /\ pc[p] = "record_ok"
        /\ \A t : Done(t)' <=> Done(t) \/ t = tok[p]
    BY <1>1, <1>6, WriteLogged DEF ApplyRecord, Done
  <2> QED
    BY <1>2, <1>3, <2>1 DEF HoldInv, KeptInv
<1>7. CASE ApplyMark(p)
  <2>1. \A t : Done(t)' <=> Done(t)
    BY <1>7, OutcomeStays
  <2>2. /\ UNCHANGED <<held, changed>> /\ pc'[p] = "idle"
        /\ applied' = applied \cup {issued[tok[p]].fix}
    BY <1>1, <1>7 DEF ApplyMark
  <2>3. \A q \in Proc : agent.serial /\ pc[q] = "mark" => q = p
    BY <1>2, <1>3 DEF KeptInv
  <2> QED
    BY <1>2, <1>3, <2>1, <2>2, <2>3 DEF HoldInv, KeptInv
<1>8. CASE UndoBegin(p) \/ UndoDone(p) \/ RollbackForget(p)
  <2>1. \A t : Done(t)' <=> Done(t)
    BY <1>8, OutcomeStays
  <2>2. job[p] \in Fix /\ job' = job
    BY <1>8 DEF UndoBegin, UndoDone, RollbackForget, Inv, TypeInv, LabelInv, Undoing
  <2>3. /\ \A f \in Fix : held'[f] \in {held[f], NoToken} /\ changed'[f] \subseteq changed[f]
        /\ pc[p] # "mark" /\ pc'[p] # "mark"
        /\ pc'[p] \in {"forget", "undone"} /\ agent.serial => held'[job[p]] = NoToken
        /\ \A f \in Fix : f \in applied /\ f \notin applied' /\ agent.serial => held'[f] = NoToken
        /\ applied' \subseteq applied
    BY <1>1, <1>8, <2>2 DEF UndoBegin, UndoDone, RollbackForget, KeptInv
  <2>4. HoldInv'
    BY <1>2, <2>3 DEF HoldInv
  <2>5. KeptInv'
    BY <1>2, <1>3, <2>1, <2>2, <2>3 DEF KeptInv
  <2> QED
    BY <2>4, <2>5
<1> QED
  BY <1>4, <1>5, <1>6, <1>7, <1>8 DEF Step

LEMMA ListAlways == Spec => []ListInv
<1>1. Init => ListInv
  BY DEF Init, ListInv, HoldInv, KeptInv
<1>2. Inv /\ OutcomeInv /\ ListInv /\ [Next]_vars => ListInv'
  <2> SUFFICES ASSUME Inv, OutcomeInv, ListInv, [Next]_vars PROVE ListInv'
    OBVIOUS
  <2>1. CASE Restart
    BY <2>1 DEF Restart, ListInv, HoldInv, KeptInv
  <2>2. CASE UNCHANGED vars
    BY <2>2 DEF vars, ListInv, HoldInv, KeptInv, Done, Logged
  <2> QED
    BY <2>1, <2>2, ListCalls, ListSteps DEF Next
<1> QED
  BY <1>1, <1>2, InvAlways, OutcomeAlways, PTL DEF Spec

\* While calls come one at a time, what the log reports as applied and Rollback could put
\* back is on Rollback's list, once nothing is in flight on its fix.
THEOREM ListIsComplete == Spec => []NothingForgotten
<1>1. Inv /\ ListInv => NothingForgotten
  <2> SUFFICES ASSUME Inv, ListInv, agent.serial, NEW f \in Fix, Quiet(f),
                      held[f] \in changed[f], Done(held[f])
               PROVE  f \in applied
    BY DEF NothingForgotten, Done
  <2>1. held[f] # NoToken
    BY TokenAssumption DEF Inv, TypeInv, TypeOK
  <2>2. f \in applied \/ \E p \in Proc : pc[p] = "mark" /\ issued[tok[p]].fix = f
    BY <2>1 DEF ListInv, KeptInv
  <2> QED
    BY <2>2 DEF Quiet, Applying
<1> QED
  BY <1>1, InvAlways, ListAlways, PTL
=============================================================================
