--------------------------- MODULE MCSharedBuffer ---------------------------
(* SharedBuffer on small sets of threads. *)
EXTENDS SharedBuffer, TLC

\* Threads of one kind are interchangeable.
Interchangeable ==
  Permutations(Producers) \cup Permutations(Consumers) \cup Permutations(Clients)
=============================================================================
