--------------------------- MODULE MCConnections ---------------------------
(***************************************************************************)
(* An instance of Connections for TLC.                                     *)
(***************************************************************************)
EXTENDS Connections

CONSTANTS p, q

\* Each of two processes is in the other's list of bootstrap peers.
EachOther == {<<p, q>>, <<q, p>>}
=============================================================================
