------------------------------ MODULE Requests ------------------------------
(***************************************************************************)
(* The handlers of one server that work on state of their own: scans and   *)
(* generations (Jobs), the tasks of a project (TaskBoard), the files of    *)
(* providers (ConfigEditing), the voice pipeline (VoicePipeline) and what  *)
(* it makes of a transcript (IntentParser).  The five share no state, so a *)
(* behaviour follows one of them, with every interleaving of its own       *)
(* requests and goroutines.                                                *)
(***************************************************************************)
EXTENDS Jobs, TaskBoard, ConfigEditing, VoicePipeline, IntentParser

VARIABLE served   \* the part this behaviour follows

requestVars == << jobVars, boardVars, configVars, voiceVars, speechVars, served >>

RequestsParts == {"jobs", "board", "config", "voice", "speech"}

(* Every part is in a state of its own. *)
RequestsTypeOK == JobsTypeOK /\ BoardTypeOK /\ ConfigTypeOK /\ VoiceTypeOK /\ served \in RequestsParts

(* Only the served part has stored data at the start. *)
RequestsInit ==
    /\ served \in RequestsParts
    /\ served # "speech" => transcript = CHOOSE t \in Transcripts : TRUE
    /\ JobsInit /\ BoardInit /\ ConfigInit /\ VoiceInit /\ SpeechInit
    /\ served # "jobs" => repos = {}
    /\ served # "board" => pos = << >>

FollowJobs ==
    /\ served = "jobs" /\ JobsNext
    /\ UNCHANGED << boardVars, configVars, voiceVars, speechVars, served >>
FollowBoard ==
    /\ served = "board" /\ BoardNext
    /\ UNCHANGED << jobVars, configVars, voiceVars, speechVars, served >>
FollowConfig ==
    /\ served = "config" /\ ConfigNext
    /\ UNCHANGED << jobVars, boardVars, voiceVars, speechVars, served >>

FollowVoice ==
    /\ served = "voice" /\ VoiceNext
    /\ UNCHANGED << jobVars, boardVars, configVars, speechVars, served >>

FollowSpeech ==
    /\ served = "speech" /\ SpeechNext
    /\ UNCHANGED << jobVars, boardVars, configVars, voiceVars, served >>

RequestsNext == FollowJobs \/ FollowBoard \/ FollowConfig \/ FollowVoice \/ FollowSpeech

(* A part that is not served waits for nothing. *)
RequestsSpec == RequestsInit /\ [][RequestsNext]_requestVars /\ JobsFairness /\ VoiceFairness

(* What is started ends: a generation, whatever its child does, and a call *)
(* of Pipeline.Stop.                                                       *)
WorkEnds == JobsEnd /\ StopReturns
=============================================================================
