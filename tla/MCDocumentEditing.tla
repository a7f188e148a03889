------------------------- MODULE MCDocumentEditing -------------------------
(***************************************************************************)
(* DocumentEditing for TLC: a document that is committed from the start    *)
(* and that other programs edit too, and one whose project is created,     *)
(* imported, linked and served by another store after a restart.           *)
(***************************************************************************)
EXTENDS DocumentEditing

ASSUME Scanned # {} /\ \A d \in Docs : d \in Scanned \/ d \in Movable
=============================================================================
