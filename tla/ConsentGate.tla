---------------------------- MODULE ConsentGate ----------------------------
(***************************************************************************)
(* What the consent gates of SupportOne promise, said once.                *)
(*                                                                         *)
(* The agent asks before it changes the machine (internal/remediate),      *)
(* before it starts a remote-help program (internal/remote), and before    *)
(* anything leaves it (internal/assist, internal/enrol).  Each gate        *)
(* issues a single-use token for one described act; the act may happen     *)
(* once, and only after that very description was agreed to.  A question   *)
(* that is never answered, superseded, or lost because the agent was       *)
(* closed counts as refused.                                               *)
(***************************************************************************)

EXTENDS Integers

CONSTANT Token    \* the plan tokens a session can issue

VARIABLES
    decision,     \* decision[t]: what became of the question asked under t
    effect        \* effect[t]: how many times the act agreed to was begun

vars == <<decision, effect>>

Decision == {"none", "asked", "agreed", "refused"}

TypeOK ==
    /\ decision \in [Token -> Decision]
    /\ effect \in [Token -> 0..1]

Init ==
    /\ decision = [t \in Token |-> "none"]
    /\ effect = [t \in Token |-> 0]

\* The user is shown a description under a token nobody has seen before.
Ask(t) ==
    /\ decision[t] = "none"
    /\ decision' = [decision EXCEPT ![t] = "asked"]
    /\ UNCHANGED effect

\* Or the new question takes the place of one that was still open.
Supersede(t, u) ==
    /\ decision[t] = "none"
    /\ decision[u] = "asked"
    /\ decision' = [decision EXCEPT ![t] = "asked", ![u] = "refused"]
    /\ UNCHANGED effect

Agree(t) ==
    /\ decision[t] = "asked"
    /\ decision' = [decision EXCEPT ![t] = "agreed"]
    /\ UNCHANGED effect

\* Questions lapse together when the process that asked them ends.
Refuse(S) ==
    /\ \A t \in S : decision[t] = "asked"
    /\ decision' = [t \in Token |-> IF t \in S THEN "refused" ELSE decision[t]]
    /\ UNCHANGED effect

Act(t) ==
    /\ decision[t] = "agreed"
    /\ effect[t] = 0
    /\ effect' = [effect EXCEPT ![t] = 1]
    /\ UNCHANGED decision

Next ==
    \/ \E t \in Token : Ask(t) \/ Agree(t) \/ Act(t)
    \/ \E t, u \in Token : Supersede(t, u)
    \/ \E S \in SUBSET Token : S # {} /\ Refuse(S)

Spec == Init /\ [][Next]_vars
=============================================================================
