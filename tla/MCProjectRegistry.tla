-------------------------- MODULE MCProjectRegistry --------------------------
(* Instances of ProjectRegistry for TLC: directories of two names, or of one. *)
EXTENDS ProjectRegistry, TLC

CONSTANTS a1, a2, b1, a, b

TwoNames == a1 :> a @@ b1 :> b
OneName == a1 :> a @@ a2 :> a

(* Clients, and slots for pending writes, are alike. *)
Alike == Permutations(Conns) \cup Permutations(Slots)

=============================================================================
