----------------------- MODULE MCReplicationHistory -----------------------
(***************************************************************************)
(* Small instances of ReplicationHistory for TLC.                          *)
(***************************************************************************)
EXTENDS ReplicationHistory, TLC

CONSTANTS p, q, r, v1, v2, f1

\* Documents with a value in every field.
OneFieldDocs == [Fields -> Values]
=============================================================================
