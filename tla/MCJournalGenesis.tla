-------------------------- MODULE MCJournalGenesis --------------------------
(* One journal, two artifact roots or one, two intents signed for one      *)
(* operation.                                                              *)
EXTENDS JournalGenesis

CONSTANTS op1

MCOperationOf == [i \in Intents |-> op1]

=============================================================================
