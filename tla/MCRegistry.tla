----------------------------- MODULE MCRegistry -----------------------------
(***************************************************************************)
(* Registry for TLC: a daemon with two calls and a command with one, each  *)
(* of them one of a few operations that get in each other's way.  The      *)
(* repos to be added have the same name, and all have the same root path,  *)
(* as one that is removed and registered anew.                             *)
(***************************************************************************)
EXTENDS Registry

CONSTANTS daemon, cli, a1, a2, b1, q, r, s

TwoAndOne == [c \in Calls |-> IF c = b1 THEN cli ELSE daemon]
SomeOps   ==
  [c \in Calls |->
     CASE c = a1 -> {<<"reload">>, <<"add", r>>, <<"default", r>>}
       [] c = a2 -> {<<"reload">>, <<"default", q>>, <<"remove", q>>}
       [] OTHER  -> {<<"add", s>>, <<"remove", q>>, <<"remove", r>>, <<"default", r>>}]
SameRoot  == [x \in Repos |-> "root"]
Names     == [x \in Repos |-> IF x = q THEN "own" ELSE "same"]
=============================================================================
