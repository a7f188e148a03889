------------------------------ MODULE MCUpkeep ------------------------------
(* Upkeep with documents of three lines, an index of two documents, three  *)
(* commands on two directories of one name, two processes with a store of  *)
(* two secrets and two binaries to install as a service.                   *)
EXTENDS Upkeep

Line(is, text) == [is |-> is, indented |-> FALSE, text |-> text]
MCLines == {Line("heading", "h"), Line("text", "a"), Line("item", "i"), Line("backticks", "go")}

IdA == << "p", "a" >>
IdB == << "p", "d", "b" >>
MCDocIds == {IdA, IdB}
MCTrees == {MCDocIds}
MCSlugs == [n \in {"a", "b", "A", "c", "d", ".."} |-> IF n = "A" THEN "a" ELSE n]

File(path) == [path |-> path, md |-> TRUE]
Name(n) == [path |-> << n >>, md |-> FALSE]
Link(kind, to, line) == [kind |-> kind, to |-> to, line |-> line]
Plain == [slug |-> "s", tag |-> "", words |-> {"one"}, links |-> {}]
LinkedA ==
    [slug |-> "none", tag |-> "x", words |-> {"two"},
     links |-> {Link("md-link", File(<< "d", "b" >>), 1), Link("wikilink", Name("A"), 2),
                Link("vedox-scheme", File(<< "c" >>), 3)}]
LinkedB ==
    [slug |-> "none", tag |-> "", words |-> {"one", "two"},
     links |-> {Link("md-link", File(<< "..", "a" >>), 1), Link("bare-vedox", File(<< "c" >>), 4),
                Link("frontmatter", Name("A"), 0)}]
MCContentsOf == [id \in MCDocIds |-> {Plain, IF id = IdA THEN LinkedA ELSE LinkedB}]

MCPlaces == {"x", "y"}
MCBaseName == [p \in MCPlaces |-> "a"]

\* A machine for each tier.
Host(os, home, hmac) == [os |-> os, dbus |-> FALSE, home |-> home, hmac |-> hmac]
MCHosts ==
    {Host("darwin", TRUE, "unset"), Host("linux", TRUE, "good"), Host("linux", FALSE, "good")}

Alike == Permutations(Commands) \cup Permutations(Holders)
=============================================================================
