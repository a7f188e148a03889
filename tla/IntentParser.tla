---------------------------- MODULE IntentParser ----------------------------
(***************************************************************************)
(* ParseIntent (internal/voice/intent.go): what a transcript asks for.     *)
(* A transcript is normalised already: a sequence of words, each with its  *)
(* letters, which count where it may be the wake word.                     *)
(* Dispatch (dispatch.go) sends the command on.                            *)
(***************************************************************************)
EXTENDS Integers, Sequences, FiniteSets, SequencesExt, FiniteSetsExt

CONSTANTS Letters,     \* of words that may be the wake word
          Rules,       \* phraseRules in their order: triggers, command, capture
          PartialRules, \* those that need no wake word
          WakeWord, KnownVariants,
          Transcripts  \* what may be heard

fuzzyWakeThreshold == 2

\* What a word is, and what a rule says; a phrase that asks for a file goes on freely.
VoiceWords == [name : STRING, letters : Seq(Letters)]
Spoken == {"document_everything", "document_folder", "document_changes", "document_file",
           "status", "stop"}
Phrasings == [command : Spoken, triggers : SUBSET Seq(VoiceWords), capture : BOOLEAN]

ASSUME WordsAssumption ==
    /\ WakeWord \in Seq(Letters) /\ KnownVariants \subseteq Seq(Letters)
    /\ Transcripts \subseteq Seq(VoiceWords)

\* A rule that goes on comes after those of the phrases it begins; what needs no wake
\* word is always a whole phrase, that of stopping begins with it nevertheless.
ASSUME RulesAssumption ==
    /\ Rules \in Seq(Phrasings) /\ PartialRules \in Seq(Phrasings)
    /\ \A i, j \in DOMAIN Rules : Rules[i].capture /\ ~Rules[j].capture =>
          \A t \in Rules[i].triggers, u \in Rules[j].triggers : IsPrefix(t, u) => j < i
    /\ \A i \in DOMAIN Rules : Rules[i].command = "document_file" <=> Rules[i].capture
    /\ \A i \in DOMAIN PartialRules :
          /\ ~PartialRules[i].capture /\ PartialRules[i].command # "document_file"
          /\ PartialRules[i].command = "stop" =>
               \A t \in PartialRules[i].triggers : t # << >> /\ t[1].letters = WakeWord

VARIABLES transcript, intent

speechVars == << transcript, intent >>

Unknown == [command |-> "unknown", target |-> << >>, confidence |-> "none"]
Unread == [Unknown EXCEPT !.command = "unread"]

\* levenshtein, row by row; a row is the distances of what was read to the beginnings of b.
\* Mutant: a substitution is counted from the row that is being filled.
NextRowInPlace(prev, letter, b) ==
    LET row[j \in 0..Len(b)] ==
            IF j = 0 THEN prev[0] + 1
            ELSE Min({prev[j] + 1, row[j - 1] + 1,
                      row[j - 1] + (IF b[j] = letter THEN 0 ELSE 1)})
    IN  row

NextRow(prev, letter, b) ==
    LET row[j \in 0..Len(b)] ==
            IF j = 0 THEN prev[0] + 1
            ELSE Min({prev[j] + 1, row[j - 1] + 1,
                      prev[j - 1] + (IF b[j] = letter THEN 0 ELSE 1)})
    IN  row

Levenshtein(a, b) ==
    LET row[i \in 0..Len(a)] ==
            IF i = 0 THEN [j \in 0..Len(b) |-> j] ELSE NextRow(row[i - 1], a[i], b)
    IN  row[Len(a)][Len(b)]

\* How surely a word is the wake word.
Wakes(letters) ==
    CASE letters = WakeWord -> "exact"
      [] letters # WakeWord /\ (letters \in KnownVariants
             \/ Levenshtein(letters, WakeWord) <= fuzzyWakeThreshold) -> "fuzzy"
      [] OTHER -> "none"

\* stripWakeWord: the first word, else the first two together.
StripWakeWord(words) ==
    LET first == IF words = << >> THEN "none" ELSE Wakes(words[1].letters)
        both == IF Len(words) < 2 THEN "none"
                ELSE Wakes(words[1].letters \o words[2].letters)
    IN  CASE first # "none" -> [rest |-> Tail(words), confidence |-> first]
          [] first = "none" /\ both # "none" ->
                 [rest |-> Tail(Tail(words)), confidence |-> both]
          [] OTHER -> [rest |-> words, confidence |-> "none"]

\* matchRules: the first rule in order.
Fits(rule, words) ==
    \E t \in rule.triggers : words = t \/ (rule.capture /\ IsPrefix(t, words))

MatchRules(words, rules) ==
    LET fitting == {i \in DOMAIN rules : Fits(rules[i], words)}
    IN  IF fitting = {} THEN Unknown
        ELSE LET rule == rules[Min(fitting)]
                 trigger == CHOOSE t \in rule.triggers :
                                words = t \/ (rule.capture /\ IsPrefix(t, words))
             IN  [command |-> rule.command, confidence |-> "none",
                  target |-> SubSeq(words, Len(trigger) + 1, Len(words))]

ParseIntent(words) ==
    LET wake == StripWakeWord(words)
        said == MatchRules(wake.rest, Rules)
        partial == MatchRules(words, PartialRules)
    IN  CASE wake.confidence # "none" /\ said # Unknown ->
                 [said EXCEPT !.confidence = wake.confidence]
          [] (wake.confidence = "none" \/ said = Unknown) /\ partial # Unknown ->
                 [partial EXCEPT !.confidence = "partial"]
          [] OTHER -> Unknown

\* What Dispatch calls for a command; the server has none but the last.
Endpoint(command) ==
    CASE command \in {"document_everything", "document_folder", "document_changes",
                      "document_file"} -> "/v1/agent/trigger"
      [] command = "stop" -> "/v1/agent/cancel"
      [] command = "status" -> "/healthz"
      [] command = "unknown" -> "error"

SpeechInit == transcript \in Transcripts /\ intent = Unread

SpeechNext == intent = Unread /\ intent' = ParseIntent(transcript) /\ UNCHANGED transcript

-----------------------------------------------------------------------------
(* Properties.                                                             *)

\* The words that can be made of w by inserting, removing or replacing a letter, at
\* most n times.
OneEdit(w) ==
    {RemoveAt(w, i) : i \in DOMAIN w}
    \cup {ReplaceAt(w, i, c) : i \in DOMAIN w, c \in Letters}
    \cup {InsertAt(w, i, c) : i \in 1..Len(w) + 1, c \in Letters}
Near[n \in 0..fuzzyWakeThreshold] ==
    IF n = 0 THEN {WakeWord}
    ELSE LET near == Near[n - 1] IN near \cup UNION {OneEdit(w) : w \in near}

HeardNear == Near[fuzzyWakeThreshold]

\* The wake word is recognised in the first word or in the first two joined exactly if
\* it can be reached by two edits or is a known variant; then the most special phrase
\* counts, and only what starts with "document" and is none of them names a file.
\* Without it nothing is stopped and no file is documented.
IntentIsRead ==
    intent # Unread =>
        LET heard(w) == w \in HeardNear \cup KnownVariants
            one == transcript # << >> /\ heard(transcript[1].letters)
            two == Len(transcript) > 1 /\ heard(transcript[1].letters \o transcript[2].letters)
            rest == IF one THEN Tail(transcript) ELSE Tail(Tail(transcript))
            phrases(capture) == UNION {r.triggers : r \in {q \in Range(Rules) : q.capture = capture}}
        IN  IF one \/ two
              THEN /\ rest \in phrases(FALSE) =>
                          /\ intent.target = << >>
                          /\ \E r \in Range(Rules) : rest \in r.triggers /\ r.command = intent.command
                   /\ intent.command = "document_file" =>
                          /\ rest \notin phrases(FALSE)
                          /\ \E t \in phrases(TRUE) : rest = t \o intent.target
              ELSE intent.confidence \in {"none", "partial"}
                   /\ intent.command \notin {"stop", "document_file"}

\* "any remaining text becomes Target" (intent.go:158), meant for paths: a word after
\* "document everything" makes both the name of a file.
TargetsAreFiles ==
    intent # Unread /\ intent.command = "document_file" =>
        \A r \in Range(Rules) : \A t \in r.triggers :
            ~r.capture => ~IsSuffix(t, Front(transcript))

\* "On success the function returns nil" (dispatch.go:58): no route of the server answers
\* /v1/agent/trigger or /v1/agent/cancel.
CommandsHaveRoutes == intent # Unread => Endpoint(intent.command) \in {"/healthz", "error"}
=============================================================================
