------------------------------- MODULE MCKsmb --------------------------------
(***************************************************************************)
(* Ksmb with SMB clients as model values that may be interchanged.         *)
(***************************************************************************)
EXTENDS Ksmb, TLC

ClientSymmetry == Permutations(Clients)
=============================================================================
