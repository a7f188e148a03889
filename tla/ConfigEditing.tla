---------------------------- MODULE ConfigEditing ---------------------------
(***************************************************************************)
(* The configuration panels of the editor: PUT requests on the files of AI *)
(* providers (internal/api/providers*.go).                                 *)
(*                                                                         *)
(* A client sends the etag of the content it was shown.  The handler reads *)
(* the file, compares, decodes it, puts its own section into it and        *)
(* replaces the file with the encoding; nothing is locked between the two. *)
(* That the round trip keeps the value of a key is taken as given (JSON    *)
(* numbers of more than 53 bits, which it rounds, are left out).           *)
(***************************************************************************)
EXTENDS Naturals

CONSTANTS
    Puts,     \* requests of this kind
    MaxWrites \* writes to one file: values of a section are numbered by it

ASSUME ConfigAssumption == MaxWrites \in Nat

(* The files, and the sections a panel of each shows and changes. *)
Panels ==
    [memory   |-> {"text"},              \* .claude/CLAUDE.md
     settings |-> {"permissions"},       \* .claude/settings.json
     mcp      |-> {"servers"},           \* .mcp.json
     agent    |-> {"text"},              \* .claude/agents/<name>.md
     codex    |-> {"servers", "modes"}]  \* ~/.codex/config.toml
ConfigFiles == DOMAIN Panels
JsonFiles == {"settings", "mcp"}

(* Beside them, all files but the memory have keys no panel shows, may have *)
(* comments, and may have faults in their syntax.                           *)
Sections ==
    [f \in ConfigFiles |->
        IF f = "memory" THEN Panels[f] ELSE Panels[f] \cup {"rest", "comments", "faults"}]

(* A file that is missing or empty: both have the etag "". *)
Missing == [section \in {} |-> 0]

VARIABLES
    content,   \* each file: a number per section, 0 for none of it, or Missing
    put,       \* the progress of each request
    writes     \* writes so far, to number them

configVars == << content, put, writes >>

NoPut == [at |-> "none"]
AnsweredPut == [at |-> "done"]
FileContents(f) == {Missing} \cup [Sections[f] -> 0..MaxWrites]

ConfigTypeOK ==
    /\ \A f \in ConfigFiles : content[f] \in FileContents(f)
    /\ writes \in 0..MaxWrites
    /\ \A r \in Puts : put[r] \in {NoPut, AnsweredPut} \/
         /\ put[r].at \in {"sent", "checked"}
         /\ put[r].file \in ConfigFiles
         /\ put[r].section \in Panels[put[r].file]
         /\ put[r].etag \in FileContents(put[r].file)
         /\ put[r].read \in FileContents(put[r].file)
         /\ put[r].raced \in BOOLEAN /\ put[r].unread \in BOOLEAN

ConfigInit ==
    /\ content \in [ConfigFiles -> {Missing}]
    /\ put = [r \in Puts |-> NoPut]
    /\ writes = 0

Value(c, x) == IF x \in DOMAIN c THEN c[x] ELSE 0

(* A file that is written with nothing in it. *)
Encoded(f, c) ==
    IF f \in {"memory", "codex"} /\ \A x \in Sections[f] : c[x] = 0 THEN Missing ELSE c

(* JSON has no comments; TOML and the YAML of an agent have. *)
Parses(f) ==
    /\ Value(content[f], "faults") = 0
    /\ f \in JsonFiles => Value(content[f], "comments") = 0

(* A panel was shown a file, by a GET, and sends a change to one section.   *)
(* An agent is shown if it exists and parses.  The GET of codex takes a     *)
(* file that cannot be read for an empty one.                               *)
Show(r) ==
    \E f \in ConfigFiles : \E section \in Panels[f], shown \in {content[f], Missing} :
        /\ put[r] = NoPut
        /\ f = "agent" => content[f] # Missing /\ Parses(f)
        /\ shown = content[f] \/ f = "codex"
        /\ put' = [put EXCEPT ![r] =
               [at |-> "sent", file |-> f, section |-> section, etag |-> shown,
                read |-> Missing, raced |-> FALSE, unread |-> FALSE]]
        /\ UNCHANGED << content, writes >>

\* Mutant: the handler keeps what it read, but compares nothing.
CheckNothing(r) ==
    /\ put[r].at = "sent"
    /\ put' = [put EXCEPT ![r].at = "checked", ![r].read = content[put[r].file]]
    /\ UNCHANGED << content, writes >>

(* Read, compare and parse; an agent must exist to be changed.  A file that *)
(* cannot be read ends the request, but for codex, where it has no content  *)
(* and the etag "".                                                         *)
CheckEtag(r) ==
    /\ put[r].at = "sent"
    /\ LET f == put[r].file
           refused == \/ content[f] # put[r].etag
                      \/ f = "agent" /\ content[f] = Missing
                      \/ ~Parses(f)
           unreadable == f # "codex" \/ put[r].etag # Missing
       IN \/ put' = IF refused THEN [put EXCEPT ![r] = AnsweredPut]
                    ELSE [put EXCEPT ![r].at = "checked", ![r].read = content[f]]
          \/ put' = IF unreadable THEN [put EXCEPT ![r] = AnsweredPut]
                    ELSE [put EXCEPT ![r].at = "checked", ![r].unread = TRUE]
    /\ UNCHANGED << content, writes >>

(* The content a handler writes: what it decoded, with its own section new *)
(* or gone.  The encoding of a decoded file has no comments.                *)
Merged(r, v) ==
    [x \in Sections[put[r].file] |->
        IF x = put[r].section THEN v
        ELSE IF x = "comments" THEN 0 ELSE Value(put[r].read, x)]

(* What becomes of the section: an agent always has its text; a mode is set *)
(* or left alone; any other section may be removed.  The map of a codex     *)
(* file that could not be read is nil: removing from it does nothing, and   *)
(* setting a key panics, which ends the request.                            *)
NewValues(r) ==
    IF put[r].unread THEN {0}
    ELSE {writes + 1} \cup
         CASE put[r].section = "modes" -> {Value(put[r].read, "modes")}
           [] put[r].file = "agent" -> {}
           [] OTHER -> {0}

(* Every request between its check and its write is overtaken by a write. *)
Overtaken(f, spared) ==
    [r \in Puts |-> IF r \notin spared /\ put[r].at = "checked" /\ put[r].file = f
                    THEN [put[r] EXCEPT !.raced = TRUE] ELSE put[r]]

(* atomicWrite: the file is replaced, or nothing happens. *)
ReplaceFile(r) ==
    /\ put[r].at = "checked"
    /\ \/ /\ writes < MaxWrites /\ writes' = writes + 1
          /\ \E v \in NewValues(r) :
               content' = [content EXCEPT ![put[r].file] = Encoded(put[r].file, Merged(r, v))]
          /\ put' = [Overtaken(put[r].file, {r}) EXCEPT ![r] = AnsweredPut]
       \/ /\ put' = [put EXCEPT ![r] = AnsweredPut]
          /\ UNCHANGED << content, writes >>

(* POST of an agent looks for the file and writes it; the two are one step. *)
CreateAgent ==
    /\ content["agent"] = Missing /\ writes < MaxWrites /\ writes' = writes + 1
    /\ content' = [content EXCEPT !["agent"] =
           [x \in Sections["agent"] |-> IF x = "text" THEN writes + 1 ELSE 0]]
    /\ put' = Overtaken("agent", {})

(* DELETE of an agent asks for no etag. *)
DeleteAgent ==
    /\ content["agent"] # Missing
    /\ content' = [content EXCEPT !["agent"] = Missing]
    /\ put' = Overtaken("agent", {})
    /\ UNCHANGED writes

(* The provider's own program, or the user, changes a section of a file,    *)
(* or takes it away.                                                        *)
ProgramWrites(f) ==
    /\ writes < MaxWrites /\ writes' = writes + 1
    /\ \E section \in Sections[f], v \in {0, writes + 1} :
         content' = [content EXCEPT ![f] =
             Encoded(f, [x \in Sections[f] |-> IF x = section THEN v ELSE Value(content[f], x)])]
    /\ put' = Overtaken(f, {})

ConfigNext ==
    \/ \E r \in Puts : Show(r) \/ CheckEtag(r) \/ ReplaceFile(r)
    \/ CreateAgent \/ DeleteAgent
    \/ \E f \in ConfigFiles : ProgramWrites(f)

(* handlePutClaudePermissions (providers.go:334) and its like: a write     *)
(* that nobody overtook, of a file that could be read, replaces the very   *)
(* content its client was shown, which parsed, and changes no section but  *)
(* its own; comments, where a file with comments parses, are lost.  A      *)
(* request that was overtaken between its check and its write may undo     *)
(* what overtook it.                                                       *)
SectionsKept ==
    [][\A r \in Puts :
          put[r].at = "checked" /\ ~put[r].raced /\ ~put[r].unread /\ put'[r].at = "done" =>
          \A f \in ConfigFiles : content'[f] # content[f] =>
             /\ f = put[r].file
             /\ content[f] = put[r].etag /\ Parses(f)
             /\ \A x \in Sections[f] \ {put[r].section, "comments"} :
                   Value(content'[f], x) = Value(content[f], x)]_configVars

(* writeCodexConfig (providers_codex.go:224): "On conflict or error it     *)
(* writes the response and returns a sentinel error so callers can bail    *)
(* out".  Not when the file cannot be read: it can be emptied.             *)
ErrorsBailOut ==
    [][\A r \in Puts : put[r].at = "checked" /\ put[r].unread /\ put'[r].at = "done" =>
          UNCHANGED content]_configVars
=============================================================================
