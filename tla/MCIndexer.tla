----------------------------- MODULE MCIndexer -----------------------------
(***************************************************************************)
(* Indexer for TLC: the slugs that the edits give the files.               *)
(***************************************************************************)
EXTENDS Indexer

\* The first edit leaves a file a slug of its own; later ones give any file the
\* same, as for a README.md without frontmatter in each of two directories.
ClashLater == [x \in Paths \X (1..MaxEdits) |-> IF x[2] = 1 THEN x[1] ELSE "readme"]
=============================================================================
