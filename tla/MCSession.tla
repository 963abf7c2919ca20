----------------------------- MODULE MCSession -----------------------------
(* The phones, users and devices are model values given in the .cfg files. *)
EXTENDS Session
=============================================================================
