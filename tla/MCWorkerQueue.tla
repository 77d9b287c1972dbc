---------------------------- MODULE MCWorkerQueue ---------------------------
(* Small instances of WorkerQueue for TLC. *)
EXTENDS WorkerQueue, TLC

\* Owners, inputs and payloads are interchangeable, and so are jobs; used in
\* runs that check no temporal property.
Symmetry == Permutations(Jobs) \cup Permutations(Owners)
              \cup Permutations(Payloads) \cup Permutations(Inputs)
=============================================================================
