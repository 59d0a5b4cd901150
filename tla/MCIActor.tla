------------------------------ MODULE MCIActor ------------------------------
(* IActor on small sets of threads. *)
EXTENDS IActor, TLC

\* Threads of one kind are interchangeable.
Interchangeable ==
  Permutations(Producers) \cup Permutations(Consumers) \cup Permutations(Clients)
=============================================================================
