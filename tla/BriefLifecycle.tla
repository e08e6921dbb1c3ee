---------------------------- MODULE BriefLifecycle ----------------------------
(***************************************************************************)
(* What the content module promises of a content brief, without requests,  *)
(* sessions or locks: a brief is delivered for review with its asset, a    *)
(* reviewer's decision is recorded, and subscribers are told only of what  *)
(* has happened.  A decided brief is never undecided again.  The promise   *)
(* is deliberately weaker than the transition table of the service: two    *)
(* overlapping reviews may replace one decision by the other.              *)
(***************************************************************************)
CONSTANT Briefs

VARIABLES
    decision,   \* decision[b]: "none" until delivered, then "pending", then a decision
    approvedOnce,   \* the briefs some reviewer has approved so far
    announced   \* the <<kind, brief>> pairs subscribers have been told of

vars == <<decision, approvedOnce, announced>>

Decisions == {"approved", "rejected"}

TypeOK ==
    /\ decision \in [Briefs -> {"none", "pending"} \union Decisions]
    /\ approvedOnce \subseteq Briefs
    /\ announced \subseteq {"ready", "approved"} \X Briefs

Init ==
    /\ decision \in [Briefs -> {"none", "pending"}]
    /\ approvedOnce = {}
    /\ announced = {}

Deliver(b) ==
    /\ decision[b] = "none"
    /\ decision' = [decision EXCEPT ![b] = "pending"]
    /\ UNCHANGED <<approvedOnce, announced>>

Decide(b, d) ==
    /\ decision[b] # "none"
    /\ decision' = [decision EXCEPT ![b] = d]
    /\ approvedOnce' = IF d = "approved" THEN approvedOnce \union {b} ELSE approvedOnce
    /\ UNCHANGED announced

Announce(kind, b) ==
    /\ decision[b] # "none"
    /\ kind = "approved" => b \in approvedOnce
    /\ announced' = announced \union {<<kind, b>>}
    /\ UNCHANGED <<decision, approvedOnce>>

Next ==
    \E b \in Briefs :
        \/ Deliver(b)
        \/ \E d \in Decisions : Decide(b, d)
        \/ \E kind \in {"ready", "approved"} : Announce(kind, b)

Spec == Init /\ [][Next]_vars
===============================================================================
