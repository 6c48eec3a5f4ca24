------------------------ MODULE MCConversationMemory ------------------------
(* Small instances of ConversationMemory for TLC. *)
EXTENDS ConversationMemory, TLC

OneStripe == [c \in Threads |-> CHOOSE s \in Stripes : TRUE]

TaskSymmetry == Permutations(Tasks)
=============================================================================
