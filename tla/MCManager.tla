------------------------------ MODULE MCManager ------------------------------
(* Manager on small sets of threads. *)
EXTENDS Manager, TLC

\* Threads of one kind are interchangeable.
Interchangeable ==
  Permutations(Producers) \cup Permutations(Consumers) \cup Permutations(Clients)
=============================================================================
