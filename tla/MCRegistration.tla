--------------------------- MODULE MCRegistration ---------------------------
(* Instances of Registration for TLC. *)
EXTENDS Registration, TLC

\* Neither threads nor transactions are told apart.
Symmetric == Permutations(Threads) \cup Permutations(Tsx)

=============================================================================
