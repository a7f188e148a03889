---------------------------- MODULE MCRequests ------------------------------
(* Requests with few scans, lists, generations, tasks and panels, and      *)
(* transcripts with every word of up to four letters in front.             *)
EXTENDS Requests

MCProjects == {"p"}
MCTasks == {"a", "b", "c"}
MCLists == {<< >>, << "a", "b" >>, << "b", "c", "a" >>}

Heard(letters) == [name |-> "", letters |-> letters]
Word(name, letters) == [name |-> name, letters |-> letters]
Doc == Word("document", << "d", "o", "c" >>)
All == Word("all", << "a", "l", "l" >>)
Folder == Word("folder", << "f", "o", "l", "d", "e", "r" >>)
Stop == Word("stop", << "s", "t", "o", "p" >>)
File == Word("file", << "f", "i", "l", "e" >>)
WakeLetters == {"v", "e", "d", "o", "x", "s", "c"}
MCLetters == WakeLetters \cup {"a", "l", "f", "r", "t", "p", "i"}
MCWakeWord == << "v", "e", "d", "o", "x" >>
MCVariants == {<< "v", "e", "e", "d", "o", "c", "s" >>}
Rule(command, triggers, capture) ==
    [command |-> command, triggers |-> triggers, capture |-> capture]
MCRules == << Rule("document_everything", {<< Doc, All >>}, FALSE),
              Rule("document_folder", {<< Doc, Folder >>}, FALSE),
              Rule("document_file", {<< Doc >>}, TRUE),
              Rule("stop", {<< Stop >>}, FALSE) >>
MCPartialRules == << Rule("document_everything", {<< Doc, All >>}, FALSE),
                     Rule("document_folder", {<< Doc, Folder >>}, FALSE),
                     Rule("stop", {<< Heard(MCWakeWord), Stop >>}, FALSE) >>
MCWords == {Heard(w) : w \in UNION {[1..n -> WakeLetters] : n \in 1..4}}
Phrases == {<< Doc, All >>, << Doc, Folder >>, << Stop >>, << Doc, File >>, << Doc, All, File >>}
MCTranscripts ==
    Phrases \cup {<< w, Stop >> : w \in MCWords}
    \cup {<< Heard(w) >> \o p : w \in {MCWakeWord} \cup MCVariants, p \in Phrases}
    \cup {<< Heard(v), Heard(w) >> \o p :
            v \in {<< "v", "e" >>, << "v", "e", "e" >>, << "d" >>},
            w \in {<< "d", "o", "x" >>, << "d", "o", "c", "s" >>, << "o" >>}, p \in Phrases}
=============================================================================
