------------------------- MODULE MCAgentRunScheduler -------------------------
(***************************************************************************)
(* Constants for model checking AgentRunScheduler.                         *)
(***************************************************************************)
EXTENDS AgentRunScheduler, TLC

P(e, l) == [enforce |-> e, limit |-> l, userQueue |-> 1, globalQueue |-> 2]

\* One user's second turn is admitted while the first is active or queued.
EnforcePolicies == {P(TRUE, 1), P(TRUE, 2)}
OneSlot == {P(TRUE, 1)}
MixedPolicies == {P(TRUE, 1), P(FALSE, 1)}

\* The users are interchangeable: one run may belong to a fixed user. (TLC's own
\* symmetry reduction is unsound for liveness.)
InitFixedUser == Init /\ owner[CHOOSE r \in Runs : TRUE] = CHOOSE u \in Users : TRUE
FairSpecFixedUser == InitFixedUser /\ [][Next]_vars /\ Fairness

Symmetry == Permutations(Runs) \union Permutations(Users)
=============================================================================
