------------------------ MODULE MCSavedConversations ------------------------
(* Small instances of SavedConversations for TLC. *)
EXTENDS SavedConversations, TLC

(* Every conversation on one stripe, as when two ids hash alike. *)
OneStripe == [c \in Conversations |-> CHOOSE s \in Stripes : TRUE]

TaskSymmetry == Permutations(Tasks)
Symmetric == TaskSymmetry \cup Permutations(Operations) \cup Permutations(Messages)
=============================================================================
