---------------------------- MODULE MCAnalytics ----------------------------
(***************************************************************************)
(* Analytics for TLC: two kinds, so that a cycle can fail between them.    *)
(***************************************************************************)
EXTENDS Analytics

CONSTANTS e1, e2, published, linked

TwoKinds == [e \in Events |-> IF e = e1 THEN linked ELSE published]
=============================================================================
