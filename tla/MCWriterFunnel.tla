--------------------------- MODULE MCWriterFunnel ---------------------------
(***************************************************************************)
(* WriterFunnel for TLC.  A call of each kind: one whose context may be    *)
(* cancelled and one with context.Background(); two of the first so that   *)
(* cancelled calls also queue behind each other.                           *)
(***************************************************************************)
EXTENDS WriterFunnel

ASSUME Calls \ Background # {} /\ Background # {}
=============================================================================
