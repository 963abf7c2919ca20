------------------------- MODULE MCFirestoreClient -------------------------
(* The accounts are model values given in the .cfg files; no action tells  *)
(* one of them from another.                                               *)
EXTENDS FirestoreClient, TLC

Symmetry == Permutations(Users)
=============================================================================
