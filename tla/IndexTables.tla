---------------------------- MODULE IndexTables -----------------------------
(***************************************************************************)
(* The tables of .vedox/index.db (internal/db) and the reference graph     *)
(* over them (internal/docgraph).  Every write is one transaction of the   *)
(* writer, hence one action; processes that open the file migrate its      *)
(* schema first, each of them by itself.                                   *)
(*                                                                         *)
(* A path is a sequence of names, without the .md at the end of the last   *)
(* one: a document's id is a path, what a link points to is a path with    *)
(* the mark whether it was written with .md.  The columns of a document    *)
(* that nothing depends on are left out.                                   *)
(***************************************************************************)
EXTENDS Integers, Sequences, FiniteSets, SequencesExt, FiniteSetsExt, Functions

CONSTANTS DocIds,      \* paths that documents may have
          ContentsOf,  \* what the file of each may hold: its slug, tag, words and links
          NoSlug,      \* the slug of a document without one
          Slugify,     \* the canonical form of a name
          Trees,       \* sets of files that a walk may find
          Openers,     \* processes that open the index
          MaxRowId,    \* bound: rowids
          GraphNodeCap, SearchLimit

SchemaVersion == 7

Targets == [path : Seq(STRING), md : BOOLEAN]
LinkKinds == {"md-link", "wikilink", "frontmatter", "vedox-scheme", "bare-vedox"}

Contents == UNION {ContentsOf[id] : id \in DocIds}
ASSUME ContentsAssumption ==
    \A c \in Contents :
        /\ IsFiniteSet(c.links)
        /\ \A l \in c.links : l.kind \in LinkKinds /\ l.line \in Nat
ASSUME DocIdsAssumption == \A id \in DocIds : id \in Seq(STRING) /\ Len(id) >= 2
ASSUME TreesAssumption == Trees \subseteq SUBSET DocIds
ASSUME OpenersAssumption == Openers # {}
ASSUME LimitsAssumption == {GraphNodeCap, SearchLimit} \subseteq Nat

VARIABLES
    schema,      \* the newest version in schema_version, 0 if there is none
    opener,      \* how far each process got with opening the index
    pending,     \* the migration that it applies next, 0 if none
    rows,        \* documents: id -> rowid, slug and tag
    fts,         \* documents_fts: rowid -> the words of title and body
    refs,        \* doc_references
    counts,      \* doc_reference_counts: target -> out (ref_count) and in (backlink_count)
    walk,        \* the files Reindex has still to read
    held,        \* history: what the last transaction on each document wrote
    adrift       \* history: counts whose edges went with a deleted document

indexTables == << rows, fts, refs, counts >>
indexVars == << schema, opener, pending, indexTables, walk, held, adrift >>

NoWalk == {<< >>}
Ready == \E p \in Openers : opener[p] = "open"

-----------------------------------------------------------------------------
(* Extract: the references of a document.                                  *)

DirOf(id) == Front(id)

\* path.Join and path.Clean below a workspace root.
Join(dir, path) ==
    FoldLeft(LAMBDA acc, n : IF n = ".." THEN (IF acc = << >> THEN acc ELSE Front(acc))
                             ELSE Append(acc, n), dir, path)

DocTarget(id) == [path |-> id, md |-> TRUE]

\* A Markdown link counts if it ends in .md, and is resolved here; a vedox URI that
\* stands alone in the text counts once, and not if a link has it already.
Extract(id, links) ==
    LET Ref(l, to, kind) == [src |-> id, to |-> to, kind |-> kind, line |-> l.line]
        vedox == {l \in links : l.kind = "vedox-scheme"}
        bare == {l \in links : l.kind = "bare-vedox"
                   /\ \A k \in vedox : k.to # l.to
                   /\ \A o \in links : o.kind = "bare-vedox" /\ o.to = l.to => l.line <= o.line}
    IN  {Ref(l, [path |-> Join(DirOf(id), l.to.path), md |-> TRUE], "md-link") :
             l \in {k \in links : k.kind = "md-link" /\ k.to.md}}
        \cup {Ref(l, l.to, l.kind) : l \in {k \in links : k.kind \in {"wikilink", "frontmatter"}}}
        \cup {Ref(l, l.to, "vedox-scheme") : l \in vedox \cup bare}

-----------------------------------------------------------------------------
(* The counts of a target, of which vedox references have no part.         *)

OutEdges(rs, t) == {r \in rs : DocTarget(r.src) = t}
InEdges(rs, t) == {r \in rs : r.to = t /\ r.kind # "vedox-scheme"}
TargetsOf(rs) == {r.to : r \in {q \in rs : q.kind # "vedox-scheme"}}

CountOf(cs, t) == IF t \in DOMAIN cs THEN cs[t] ELSE [out |-> 0, in |-> 0]

\* refreshOutgoingCount for the document, refreshInboundCount for every target of
\* its old and of its new references.
Refreshed(id, rs) ==
    LET self == DocTarget(id)
        affected == TargetsOf({r \in refs \cup rs : r.src = id})
    IN  [t \in DOMAIN counts \cup {self} \cup affected |->
           [out |-> IF t = self THEN Cardinality(OutEdges(rs, t)) ELSE CountOf(counts, t).out,
            in |-> IF t \in affected THEN Cardinality(InEdges(rs, t)) ELSE CountOf(counts, t).in]]

SettledBy(id, rs) ==
    {<< "out", DocTarget(id) >>} \cup ({"in"} \X TargetsOf({r \in refs \cup rs : r.src = id}))

\* SaveRefs, with the references of what the document holds now.  They name it by a
\* foreign key: without a row for it they are refused.
SaveRefs(id) ==
    LET rs == {r \in refs : r.src # id} \cup Extract(id, held[id].links)
    IN  /\ Ready /\ id \in DOMAIN rows
        /\ refs' = rs /\ counts' = Refreshed(id, rs)
        /\ adrift' = adrift \ SettledBy(id, rs)
        /\ UNCHANGED << schema, opener, pending, rows, fts, walk, held >>

DeleteRefs(id) ==
    LET rs == {r \in refs : r.src # id}
    IN  /\ Ready
        /\ refs' = rs /\ counts' = Refreshed(id, rs)
        /\ adrift' = adrift \ SettledBy(id, rs)
        /\ UNCHANGED << schema, opener, pending, rows, fts, walk, held >>

-----------------------------------------------------------------------------
(* documents and documents_fts.                                            *)

RowIds == {rows[id].rowid : id \in DOMAIN rows}

\* The unique index on project and slug; the project is the first name of the id.
SlugTaken(id, c) ==
    \E o \in DOMAIN rows \ {id} :
        c.slug # NoSlug /\ rows[o].slug = c.slug /\ Head(o) = Head(id)

\* A row keeps its rowid when it is updated.  A new one gets the next after the
\* greatest there is, which may have been another document's before.
RowIdFor(id) == IF id \in DOMAIN rows THEN rows[id].rowid ELSE Max(RowIds \cup {0}) + 1

Put(f, x, y) == [z \in DOMAIN f \cup {x} |-> IF z = x THEN y ELSE f[z]]
Drop(f, S) == [z \in DOMAIN f \ S |-> f[z]]

Upserted(id, c) ==
    /\ RowIdFor(id) <= MaxRowId
    /\ rows' = Put(rows, id, [rowid |-> RowIdFor(id), slug |-> c.slug, tag |-> c.tag])
    /\ fts' = Put(fts, RowIdFor(id), c.words)
    /\ held' = Put(held, id, c)

\* UpsertDoc, by the indexer or an import; with the slug taken it changes nothing.
UpsertDoc(id, c) ==
    /\ Ready /\ ~SlugTaken(id, c)
    /\ Upserted(id, c)
    /\ UNCHANGED << schema, opener, pending, refs, counts, walk, adrift >>

\* Mutant: the rows of documents_fts are left.
DeletedKeepsWords(ids) ==
    LET gone == {r \in refs : r.src \in ids}
    IN  /\ rows' = Drop(rows, ids)
        /\ fts' = fts
        /\ refs' = refs \ gone
        /\ held' = Drop(held, ids)
        /\ adrift' = adrift \cup {<< "out", DocTarget(r.src) >> : r \in gone}
                            \cup ({"in"} \X TargetsOf(gone))

\* The trigger takes the words along, the foreign key the references.  Nothing
\* refreshes the counts of those.
Deleted(ids) ==
    LET gone == {r \in refs : r.src \in ids}
    IN  /\ rows' = Drop(rows, ids)
        /\ fts' = Drop(fts, {rows[id].rowid : id \in ids \cap DOMAIN rows})
        /\ refs' = refs \ gone
        /\ held' = Drop(held, ids)
        /\ adrift' = adrift \cup {<< "out", DocTarget(r.src) >> : r \in gone}
                            \cup ({"in"} \X TargetsOf(gone))

DeleteDoc(id) ==
    /\ Ready /\ Deleted({id})
    /\ UNCHANGED << schema, opener, pending, counts, walk >>

\* Reindex: truncate, then one upsert per file that the walk finds.  The first that
\* fails ends it; the tables stay as they are by then.
Reindex ==
    /\ Ready /\ walk = NoWalk
    /\ Deleted(DOMAIN rows)
    /\ walk' \in Trees
    /\ UNCHANGED << schema, opener, pending, counts >>

ReindexDoc(id, c) ==
    /\ Ready /\ walk # NoWalk /\ id \in walk
    /\ IF SlugTaken(id, c)
         THEN walk' = NoWalk /\ UNCHANGED << rows, fts, held >>
         ELSE walk' = walk \ {id} /\ Upserted(id, c)
    /\ UNCHANGED << schema, opener, pending, refs, counts, adrift >>

ReindexEnds ==
    /\ walk = {}
    /\ walk' = NoWalk
    /\ UNCHANGED << schema, opener, pending, indexTables, held, adrift >>

-----------------------------------------------------------------------------
(* runMigrations: the version is read once, then one transaction per newer *)
(* migration.  One that another process has applied by then fails, at the  *)
(* latest on the primary key of schema_version, and Open with it.          *)

ReadSchemaVersion(p) ==
    /\ opener[p] = "idle"
    /\ IF schema = SchemaVersion
         THEN opener' = [opener EXCEPT ![p] = "open"] /\ pending' = pending
         ELSE /\ opener' = [opener EXCEPT ![p] = "migrating"]
              /\ pending' = [pending EXCEPT ![p] = schema + 1]
    /\ UNCHANGED << schema, indexTables, walk, held, adrift >>

\* 007: the counts of all references there are.
Backfilled ==
    [t \in {DocTarget(r.src) : r \in refs} \cup TargetsOf(refs) |->
       [out |-> Cardinality(OutEdges(refs, t)), in |-> Cardinality(InEdges(refs, t))]]

Apply(p) ==
    /\ schema' = pending[p]
    /\ IF pending[p] = SchemaVersion
         THEN /\ opener' = [opener EXCEPT ![p] = "open"]
              /\ pending' = [pending EXCEPT ![p] = 0]
              /\ counts' = Backfilled
         ELSE /\ pending' = [pending EXCEPT ![p] = @ + 1]
              /\ UNCHANGED << opener, counts >>

ApplyMigration(p) ==
    /\ opener[p] = "migrating"
    /\ IF pending[p] = schema + 1
         THEN Apply(p)
         ELSE /\ opener' = [opener EXCEPT ![p] = "failed"]
              /\ pending' = [pending EXCEPT ![p] = 0]
              /\ UNCHANGED << schema, counts >>
    /\ UNCHANGED << rows, fts, refs, walk, held, adrift >>

\* Killed between two migrations.
KilledOpening(p) ==
    /\ opener[p] = "migrating"
    /\ opener' = [opener EXCEPT ![p] = "killed"]
    /\ pending' = [pending EXCEPT ![p] = 0]
    /\ UNCHANGED << schema, indexTables, walk, held, adrift >>

-----------------------------------------------------------------------------
\* A new file, or one that a binary from before the counts has left.
IndexInit ==
    /\ opener = [p \in Openers |-> "idle"] /\ pending = [p \in Openers |-> 0]
    /\ counts = << >> /\ walk = NoWalk /\ adrift = {}
    /\ \/ /\ schema = 0
          /\ rows = << >> /\ fts = << >> /\ refs = {} /\ held = << >>
       \/ \E id \in DocIds : \E c \in ContentsOf[id] :
            /\ schema = SchemaVersion - 1
            /\ rows = [d \in {id} |-> [rowid |-> 1, slug |-> c.slug, tag |-> c.tag]]
            /\ fts = [n \in {1} |-> c.words]
            /\ refs = Extract(id, c.links)
            /\ held = [d \in {id} |-> c]

IndexNext ==
    \/ \E p \in Openers : ReadSchemaVersion(p) \/ ApplyMigration(p) \/ KilledOpening(p)
    \/ \E id \in DocIds : SaveRefs(id) \/ DeleteRefs(id) \/ DeleteDoc(id)
    \/ \E id \in DocIds : \E c \in ContentsOf[id] : UpsertDoc(id, c) \/ ReindexDoc(id, c)
    \/ Reindex \/ ReindexEnds

-----------------------------------------------------------------------------
(* Reading.                                                                *)

\* Search: all words of the query, in documents of a project, with a tag if one is
\* asked for; at most SearchLimit of them, the best first.
Hits(query, project, tag) ==
    {id \in DOMAIN rows : /\ rows[id].rowid \in DOMAIN fts
                          /\ query \subseteq fts[rows[id].rowid]
                          /\ Head(id) = project /\ tag \in {"", rows[id].tag}}

Results(query, project, tag) ==
    LET n == Min({SearchLimit, Cardinality(Hits(query, project, tag))})
    IN  {s \in SUBSET Hits(query, project, tag) : Cardinality(s) = n}

\* handleSearch: without a query nothing is asked, and nothing found.
Found(query, project, tag) == IF query = {} THEN {{}} ELSE Results(query, project, tag)

ProjectDocs(project) == {id \in DOMAIN rows : Head(id) = project}

\* The document that a bare name stands for: the first in the table.
BySlug(project, name) ==
    LET ids == {id \in ProjectDocs(project) : Last(id) = name}
    IN  {id \in ids : \A o \in ids : rows[id].rowid <= rows[o].rowid}

LooksLikePath(t) == Len(t.path) > 1 \/ t.md

\* resolveTarget: as a path from the directory of the source, with .md added if it
\* lacks it; as a name; else broken, with the path it would have.
Resolved(r, project) ==
    LET path == Join(DirOf(r.src), r.to.path)
        Named(n) == IF LooksLikePath(r.to) THEN {} ELSE BySlug(project, n)
        names == IF Named(r.to.path[1]) # {} THEN Named(r.to.path[1])
                 ELSE Named(Slugify[r.to.path[1]])
    IN  IF LooksLikePath(r.to) /\ path \in ProjectDocs(project)
          THEN [to |-> DocTarget(path), broken |-> FALSE]
        ELSE IF names # {} THEN [to |-> DocTarget(CHOOSE id \in names : TRUE), broken |-> FALSE]
        ELSE [to |-> IF LooksLikePath(r.to) THEN [path |-> path, md |-> r.to.md] ELSE r.to,
              broken |-> TRUE]

\* GetGraphForProject: the documents, a node for every target that is missing, and
\* the edges between those nodes that are not cut off by the cap, those with the
\* most edges first.
Graph(project) ==
    LET edges == {[ref |-> r, to |-> Resolved(r, project).to, broken |-> Resolved(r, project).broken] :
                    r \in {q \in refs : Head(q.src) = project /\ q.kind # "vedox-scheme"}}
        docs == {DocTarget(id) : id \in ProjectDocs(project)}
        missing == {e.to : e \in {f \in edges : f.broken}}
        Degree(n) == Cardinality({e \in edges : DocTarget(e.ref.src) = n /\ n \in docs})
                     + Cardinality({e \in edges : e.to = n /\ n \in docs})
        Rank(S) == \A n \in S, o \in (docs \cup missing) \ S : Degree(n) >= Degree(o)
        size == Min({GraphNodeCap, Cardinality(docs \cup missing)})
        nodes == CHOOSE S \in SUBSET (docs \cup missing) : Cardinality(S) = size /\ Rank(S)
    IN  [docs |-> docs, missing |-> missing, nodes |-> nodes,
         all |-> edges,
         edges |-> {e \in edges : DocTarget(e.ref.src) \in nodes /\ e.to \in nodes}]

-----------------------------------------------------------------------------
(* Properties.                                                             *)

IndexTypeOK ==
    /\ schema \in 0..SchemaVersion
    /\ opener \in [Openers -> {"idle", "migrating", "open", "failed", "killed"}]
    /\ pending \in [Openers -> 0..SchemaVersion]
    /\ DOMAIN rows \subseteq DocIds /\ DOMAIN held = DOMAIN rows
    /\ \A r \in refs : r.src \in DOMAIN rows
    /\ walk = NoWalk \/ walk \subseteq DocIds

Words == UNION {c.words : c \in Contents}
ProjectNames == {Head(id) : id \in DocIds}

\* A search finds the documents by what was written last, and no other: rowids that
\* are used again, the trigger and the replaced rows of documents_fts agree.
SearchIsCurrent ==
    /\ DOMAIN fts = RowIds /\ Cardinality(RowIds) = Cardinality(DOMAIN rows)
    /\ \A w \in Words, p \in ProjectNames :
         \A found \in Found({w}, p, "") :
           /\ \A id \in found : w \in held[id].words /\ Head(id) = p
           /\ Cardinality(found) = SearchLimit
              \/ found = {id \in DOMAIN held : w \in held[id].words /\ Head(id) = p}

\* However processes race to migrate, whoever has the index open has all of the
\* schema; and one of them gets there, if nobody is killed on the way.
OpenersAgree ==
    /\ Ready => schema = SchemaVersion
    /\ (\A p \in Openers : opener[p] \in {"open", "failed"}) => Ready

\* The counts are those of the references, but for what lost some with a deleted
\* document and has not been counted anew by SaveRefs or DeleteRefs since.
CountsMatchEdges ==
    schema = SchemaVersion =>
        \A t \in {DocTarget(id) : id \in DocIds} \cup TargetsOf(refs) \cup DOMAIN counts :
            /\ << "out", t >> \in adrift \/ CountOf(counts, t).out = Cardinality(OutEdges(refs, t))
            /\ << "in", t >> \in adrift \/ CountOf(counts, t).in = Cardinality(InEdges(refs, t))

\* A node is either a document or missing, no edge hangs in the air, and unless the
\* cap has cut some off, every reference is an edge.
GraphWellFormed ==
    \A p \in ProjectNames :
        LET g == Graph(p) IN
        /\ g.docs \cap g.missing = {}
        /\ \A e \in g.edges : {DocTarget(e.ref.src), e.to} \subseteq g.nodes
        /\ Cardinality(g.nodes) < GraphNodeCap => g.edges = g.all

\* What is derived from the documents - words, schema, counts, graph - agrees with them.
IndexIsSound == SearchIsCurrent /\ OpenersAgree /\ CountsMatchEdges /\ GraphWellFormed

\* "Doing the count maintenance inside the same tx guarantees the aggregate never
\* drifts from the underlying edge set" (docgraph/store.go:62).  Not so: the foreign
\* key removes edges behind its back.
CountsNeverDrift ==
    schema = SchemaVersion => \A t \in DOMAIN counts :
        /\ counts[t].out = Cardinality(OutEdges(refs, t))
        /\ counts[t].in = Cardinality(InEdges(refs, t))

\* A Markdown link to a document that is indexed is no broken edge.  (Not so below a
\* project's top directory: the target is resolved twice.)
LinksLeadThere ==
    \A p \in ProjectNames : \A e \in Graph(p).all :
        e.ref.kind = "md-link" /\ e.ref.to.path \in ProjectDocs(p) => ~e.broken
=============================================================================
