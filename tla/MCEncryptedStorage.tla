------------------------- MODULE MCEncryptedStorage -------------------------
(***************************************************************************)
(* Small instances of EncryptedStorage for TLC.                            *)
(***************************************************************************)
EXTENDS EncryptedStorage, TLC

\* Which field is which makes no difference.
Symmetry == Permutations(SensitiveFields)
=============================================================================
