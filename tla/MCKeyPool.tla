----------------------------- MODULE MCKeyPool -----------------------------
(* Instances of KeyPool for TLC. *)
EXTENDS KeyPool

CONSTANTS k1, k2, k3, k4, c1, c2, adm, adm2

OneKey    == <<k1>>
TwoKeys   == <<k1, k2>>
ThreeKeys == <<k1, k2, k3>>

ClientSymmetry == Permutations(Clients)
ActorSymmetry  == Permutations(Clients) \cup Permutations(Admins)
=============================================================================
