--------------------------- MODULE MCCheckStorage ---------------------------
(* CheckStorage on a small instance; users, file names, plates, threads and *)
(* processes are interchangeable.                                           *)
EXTENDS CheckStorage, TLC

Symmetry == Permutations(Users \ AdminUsers) \cup Permutations(Names)
            \cup Permutations(Plates) \cup Permutations(Importers)
            \cup Permutations(Admins)
=============================================================================
