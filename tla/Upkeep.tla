------------------------------- MODULE Upkeep -------------------------------
(***************************************************************************)
(* What is kept beside the documents: the tables of the index              *)
(* (IndexTables), the history told of a document (BlockDiff), the code     *)
(* shown in it (CodePreview), the two catalogs of repositories             *)
(* (RepoCatalog), the stores of secrets (SecretStores) and the service of  *)
(* the system (ServiceUnit).  The six share no state; a behaviour follows  *)
(* one of them, with every interleaving of its own.                        *)
(***************************************************************************)
EXTENDS BlockDiff, CodePreview, IndexTables, RepoCatalog, SecretStores, ServiceUnit

VARIABLE followed   \* the part this behaviour follows

upkeepVars == << diffVars, previewVars, indexVars, catalogVars, secretVars, serviceVars,
                 followed >>

Parts == {"preview", "history", "index", "catalog", "secrets", "service"}

\* Of a part that is not followed, one initial state is enough.
Idle(part) == followed # part

Init ==
    /\ followed \in Parts
    /\ Idle("history") => versions = << << >>, << >> >>
    /\ Idle("preview") => uri = [leads |-> "empty", anchor |-> [form |-> "none", from |-> 0, to |-> 0]]
    /\ Idle("index") => schema = 0
    /\ Idle("catalog") =>
         /\ disk = [p \in Places |-> IF p \in Kept THEN "git" ELSE "none"] /\ marked = {}
         /\ doing = [c \in Commands |-> [op |-> "init", at |-> CHOOSE p \in Places : TRUE]]
    /\ Idle("secrets") =>
         host = (CHOOSE h \in Hosts : TRUE) /\ given = [p \in Holders |-> CHOOSE s \in Sources : TRUE]
    /\ Idle("service") => manager = "systemd"
    /\ DiffInit /\ PreviewInit /\ IndexInit /\ CatalogInit /\ SecretsInit /\ ServiceInit

FollowHistory ==
    /\ followed = "history" /\ DiffNext
    /\ UNCHANGED << previewVars, indexVars, catalogVars, secretVars, serviceVars, followed >>
FollowPreview ==
    /\ followed = "preview" /\ PreviewNext
    /\ UNCHANGED << diffVars, indexVars, catalogVars, secretVars, serviceVars, followed >>
FollowIndex ==
    /\ followed = "index" /\ IndexNext
    /\ UNCHANGED << previewVars, diffVars, catalogVars, secretVars, serviceVars, followed >>
FollowCatalog ==
    /\ followed = "catalog" /\ CatalogNext
    /\ UNCHANGED << previewVars, diffVars, indexVars, secretVars, serviceVars, followed >>
FollowSecrets ==
    /\ followed = "secrets" /\ SecretsNext
    /\ UNCHANGED << previewVars, diffVars, indexVars, catalogVars, serviceVars, followed >>
FollowService ==
    /\ followed = "service" /\ ServiceNext
    /\ UNCHANGED << previewVars, diffVars, indexVars, catalogVars, secretVars, followed >>

Next ==
    \/ FollowHistory \/ FollowPreview \/ FollowIndex
    \/ FollowCatalog \/ FollowSecrets \/ FollowService

Spec == Init /\ [][Next]_upkeepVars

\* What is shown of a file is what it holds: of two versions a shortest script and all
\* of it, of code the lines that were asked for.
ShownIsExact == ScriptIsShortest /\ ReportIsComplete /\ PreviewIsExact

\* Every part is in a state of its own.
TypeOK ==
    /\ DiffTypeOK /\ PreviewTypeOK /\ IndexTypeOK /\ CatalogTypeOK /\ SecretsTypeOK /\ ServiceTypeOK
    /\ followed \in Parts
=============================================================================
