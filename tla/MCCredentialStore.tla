------------------------- MODULE MCCredentialStore -------------------------
(***************************************************************************)
(* Model checking of CredentialStore.  Ids are only compared with each     *)
(* other, so the model is symmetric in them.                               *)
(***************************************************************************)
EXTENDS CredentialStore, TLC

IdSymmetry == Permutations(CredIds)
=============================================================================
