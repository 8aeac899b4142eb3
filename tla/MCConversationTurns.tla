------------------------- MODULE MCConversationTurns -------------------------
(***************************************************************************)
(* Constants for model checking ConversationTurns.                         *)
(***************************************************************************)
EXTENDS ConversationTurns, TLC

Symmetry == Permutations(Turns) \union Permutations(Cancels) \union Permutations(Deletes)
=============================================================================
