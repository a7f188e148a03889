---------------------------- MODULE VoicePipeline ---------------------------
(***************************************************************************)
(* The voice pipeline of the server (internal/voice): a goroutine that     *)
(* captures audio, a loop that follows the push-to-talk key, and the       *)
(* requests POST /api/voice/ptt that press and release it.                 *)
(*                                                                         *)
(* A request sets a flag under a lock and then offers a notification to a  *)
(* channel, which is dropped when the channel is full.  The loop listens   *)
(* between a press and a release, or until a timer of 30 s, then           *)
(* transcribes and dispatches without looking at the channel.  Audio is    *)
(* abstracted to whether the buffer holds any.                             *)
(***************************************************************************)
EXTENDS Naturals, Sequences

CONSTANTS
    Presses,   \* requests that press or release the key
    Stops,     \* calls of Stop
    PttCap     \* capacity of pttCh (8 in the code)

ASSUME VoiceAssumption == PttCap \in Nat \ {0}

VARIABLES
    pipeline,   \* start: progress of Start; cancel, started: the fields of the
                \* Pipeline; cancelled: its context; stopCh: of the source
    source,     \* the capture goroutine: "none", "running", "ended"
    loop,       \* the loop: "none", "select", "transcribe", "dispatch", "ended"
    ptt,        \* active: pttActive; queue: pttCh; calls: progress of requests
    mic,        \* listening (the timer runs meanwhile) and buffered
    status,     \* the state GET /api/voice/status shows
    stopping,   \* progress of each call of Stop
    lossy       \* history: a notification was dropped, or two calls overlapped

voiceVars == << pipeline, source, loop, ptt, mic, status, stopping, lossy >>

VoiceStates == {"idle", "listening", "transcribing", "dispatching", "error"}

VoiceTypeOK ==
    /\ pipeline \in [start : {"none", "source", "up", "failed"}, cancel : BOOLEAN,
                     started : BOOLEAN, cancelled : BOOLEAN, stopCh : {"none", "open", "closed"}]
    /\ source \in {"none", "running", "ended"}
    /\ loop \in {"none", "select", "transcribe", "dispatch", "ended"}
    /\ ptt \in [active : BOOLEAN, queue : Seq(BOOLEAN),
                calls : [Presses -> {"none", "press", "release", "done"}]]
    /\ Len(ptt.queue) <= PttCap
    /\ mic \in [listening : BOOLEAN, buffered : BOOLEAN]
    /\ status \in VoiceStates
    /\ stopping \in [Stops -> [at : {"none", "source", "close", "wait", "done", "panicked"},
                              started : BOOLEAN]]
    /\ lossy \in BOOLEAN

VoiceInit ==
    /\ pipeline = [start |-> "none", cancel |-> FALSE, started |-> FALSE,
                   cancelled |-> FALSE, stopCh |-> "none"]
    /\ source = "none" /\ loop = "none"
    /\ ptt = [active |-> FALSE, queue |-> << >>, calls |-> [p \in Presses |-> "none"]]
    /\ mic = [listening |-> FALSE, buffered |-> FALSE]
    /\ status = "idle"
    /\ stopping = [s \in Stops |-> [at |-> "none", started |-> FALSE]]
    /\ lossy = FALSE

-----------------------------------------------------------------------------
(* Requests and the key *)

(* SetPTT: the flag under its lock ... *)
SetActive(p, key) ==
    /\ ptt.calls[p] = "none"
    /\ ptt' = [ptt EXCEPT !.active = (key = "press"), !.calls[p] = key]
    /\ lossy' = (lossy \/ \E q \in Presses : ptt.calls[q] \in {"press", "release"})
    /\ UNCHANGED << pipeline, source, loop, mic, status, stopping >>

(* ... and the notification, if there is room for it. *)
Notify(p) ==
    /\ ptt.calls[p] \in {"press", "release"}
    /\ LET room == Len(ptt.queue) < PttCap
       IN /\ ptt' = [ptt EXCEPT !.calls[p] = "done",
                        !.queue = IF room THEN Append(@, ptt.calls[p] = "press") ELSE @]
          /\ lossy' = (lossy \/ ~room)
    /\ UNCHANGED << pipeline, source, loop, mic, status, stopping >>

-----------------------------------------------------------------------------
(* Start, Stop and the capture goroutine *)

(* Start: the fields under the lock ... *)
StartPipeline ==
    /\ pipeline.start = "none"
    /\ pipeline' = [pipeline EXCEPT !.start = "source", !.cancel = TRUE, !.started = TRUE]
    /\ UNCHANGED << source, loop, ptt, mic, status, stopping, lossy >>

(* ... then the source, which may not start; then the loop. *)
StartSource ==
    /\ pipeline.start = "source"
    /\ \/ /\ pipeline' = [pipeline EXCEPT !.start = "up", !.stopCh = "open"]
          /\ source' = "running" /\ loop' = "select" /\ status' = "idle"
       \/ /\ pipeline' = [pipeline EXCEPT !.start = "failed", !.cancel = FALSE,
                                          !.started = FALSE, !.cancelled = TRUE]
          /\ UNCHANGED << source, loop, status >>
    /\ UNCHANGED << ptt, mic, stopping, lossy >>

(* The daemon is told to stop: the context of all it runs is cancelled. *)
CancelRoot ==
    /\ ~pipeline.cancelled
    /\ pipeline' = [pipeline EXCEPT !.cancelled = TRUE]
    /\ UNCHANGED << source, loop, ptt, mic, status, stopping, lossy >>

(* Stop: the fields are taken under the lock, the context is cancelled ... *)
StopPipeline(s) ==
    /\ stopping[s].at = "none"
    /\ pipeline' = [pipeline EXCEPT !.cancel = FALSE, !.cancelled = @ \/ pipeline.cancel]
    /\ stopping' = [stopping EXCEPT ![s] = [at |-> "source", started |-> pipeline.started]]
    /\ UNCHANGED << source, loop, ptt, mic, status, lossy >>

(* ... the source is told to stop: its channel is found open ... *)
SeeStopCh(s) ==
    /\ stopping[s].at = "source" /\ pipeline.stopCh = "open"
    /\ stopping' = [stopping EXCEPT ![s].at = "close"]
    /\ UNCHANGED << pipeline, source, loop, ptt, mic, status, lossy >>

(* ... and closed, outside the lock of the source: a second close panics,  *)
(* and the process with every goroutine is gone ...                        *)
CloseStopCh(s) ==
    /\ stopping[s].at = "close"
    /\ \/ /\ pipeline.stopCh = "open"
          /\ pipeline' = [pipeline EXCEPT !.stopCh = "closed"]
          /\ stopping' = [stopping EXCEPT ![s].at = "source"]
          /\ UNCHANGED << source, loop >>
       \/ /\ pipeline.stopCh = "closed"
          /\ stopping' = [x \in Stops |-> [stopping[x] EXCEPT !.at = "panicked"]]
          /\ source' = "ended" /\ loop' = "ended"
          /\ UNCHANGED pipeline
    /\ UNCHANGED << ptt, mic, status, lossy >>

Panicked == \E s \in Stops : stopping[s].at = "panicked"

(* ... its goroutine is waited for ... *)
SourceStopped(s) ==
    /\ stopping[s].at = "source"
    /\ pipeline.stopCh = "none" \/ (pipeline.stopCh = "closed" /\ source = "ended")
    /\ stopping' = [stopping EXCEPT ![s].at = IF stopping[s].started THEN "wait" ELSE "done"]
    /\ UNCHANGED << pipeline, source, loop, ptt, mic, status, lossy >>

(* ... and so is the loop. *)
LoopStopped(s) ==
    /\ stopping[s].at = "wait" /\ loop = "ended"
    /\ stopping' = [stopping EXCEPT ![s].at = "done"]
    /\ UNCHANGED << pipeline, source, loop, ptt, mic, status, lossy >>

(* The capture goroutine ends when it is told to and closes its channel. *)
EndSource ==
    /\ source = "running" /\ (pipeline.cancelled \/ pipeline.stopCh = "closed")
    /\ source' = "ended"
    /\ UNCHANGED << pipeline, loop, ptt, mic, status, stopping, lossy >>

-----------------------------------------------------------------------------
(* The loop *)

(* A chunk of audio; without listening it is discarded. *)
HearChunk ==
    /\ loop = "select" /\ source = "running" /\ mic.listening
    /\ mic' = [mic EXCEPT !.buffered = TRUE]
    /\ UNCHANGED << pipeline, source, loop, ptt, status, stopping, lossy >>

Listening == [listening |-> TRUE, buffered |-> FALSE]
NotListening == [mic EXCEPT !.listening = FALSE]

\* Mutant: a release with nothing in the buffer is passed over.
ReceivePttHeard ==
    /\ loop = "select" /\ ptt.queue # << >>
    /\ ptt' = [ptt EXCEPT !.queue = Tail(@)]
    /\ \/ /\ Head(ptt.queue) /\ ~mic.listening
          /\ mic' = Listening /\ status' = "listening" /\ UNCHANGED loop
       \/ /\ ~Head(ptt.queue) /\ mic.listening /\ mic.buffered
          /\ mic' = NotListening /\ loop' = "transcribe" /\ status' = "transcribing"
       \/ /\ Head(ptt.queue) = mic.listening \/ (~Head(ptt.queue) /\ ~mic.buffered)
          /\ UNCHANGED << mic, loop, status >>
    /\ UNCHANGED << pipeline, source, stopping, lossy >>

(* A notification: it starts listening, ends it, or changes nothing. *)
ReceivePtt ==
    /\ loop = "select" /\ ptt.queue # << >>
    /\ ptt' = [ptt EXCEPT !.queue = Tail(@)]
    /\ \/ /\ Head(ptt.queue) /\ ~mic.listening
          /\ mic' = Listening /\ status' = "listening" /\ UNCHANGED loop
       \/ /\ ~Head(ptt.queue) /\ mic.listening
          /\ mic' = NotListening /\ loop' = "transcribe" /\ status' = "transcribing"
       \/ /\ Head(ptt.queue) = mic.listening
          /\ UNCHANGED << mic, loop, status >>
    /\ UNCHANGED << pipeline, source, stopping, lossy >>

(* The timer fires: the key counts as released. *)
AutoRelease ==
    /\ loop = "select" /\ mic.listening
    /\ mic' = NotListening /\ loop' = "transcribe" /\ status' = "transcribing"
    /\ UNCHANGED << pipeline, source, ptt, stopping, lossy >>

(* A text with a command is dispatched; no audio gives no text, and a text *)
(* nobody understands, or an error, ends the cycle.                        *)
Transcribe ==
    /\ loop = "transcribe"
    /\ mic' = [mic EXCEPT !.buffered = FALSE]
    /\ \/ /\ mic.buffered /\ ~pipeline.cancelled
          /\ loop' = "dispatch" /\ status' = "dispatching"
       \/ loop' = "select" /\ status' = "error"
    /\ UNCHANGED << pipeline, source, ptt, stopping, lossy >>

Dispatch ==
    /\ loop = "dispatch"
    /\ loop' = "select" /\ status' \in {"idle", "error"}
    /\ UNCHANGED << pipeline, source, ptt, mic, stopping, lossy >>

(* The context is done, or the source has closed its channel. *)
EndLoop ==
    /\ loop = "select" /\ (pipeline.cancelled \/ source = "ended")
    /\ loop' = "ended" /\ status' = "idle"
    /\ UNCHANGED << pipeline, source, ptt, mic, stopping, lossy >>

VoiceStep ==
    \/ \E p \in Presses : SetActive(p, "press") \/ SetActive(p, "release") \/ Notify(p)
    \/ StartPipeline \/ StartSource \/ CancelRoot
    \/ \E s \in Stops : \/ StopPipeline(s) \/ SeeStopCh(s) \/ CloseStopCh(s)
                        \/ SourceStopped(s) \/ LoopStopped(s)
    \/ EndSource \/ HearChunk \/ ReceivePtt \/ AutoRelease
    \/ Transcribe \/ Dispatch \/ EndLoop

VoiceNext == ~Panicked /\ VoiceStep

(* Every goroutine that can go on does; a ready case of the loop's select  *)
(* is taken at some time, the timer's among them.                          *)
VoiceFairness ==
    /\ WF_voiceVars(StartSource) /\ WF_voiceVars(EndSource)
    /\ WF_voiceVars(AutoRelease) /\ WF_voiceVars(EndLoop)
    /\ WF_voiceVars(Transcribe) /\ WF_voiceVars(Dispatch)
    /\ \A s \in Stops : WF_voiceVars(\/ SeeStopCh(s) \/ CloseStopCh(s)
                                    \/ SourceStopped(s) \/ LoopStopped(s))

-----------------------------------------------------------------------------
(* What must hold *)

Quiet ==
    /\ loop = "select" /\ ptt.queue = << >>
    /\ \A p \in Presses : ptt.calls[p] \in {"none", "done"}

(* Pipeline.loop (pipeline.go:332): once every notification is handled the *)
(* microphone is not heard after the last request released the key.  This  *)
(* holds as long as no notification was dropped and no two requests ran at *)
(* the same time.                                                          *)
MicFollowsKey == Quiet /\ ~lossy => (mic.listening => ptt.active)

(* SetPTT (pipeline.go:193): "the loop will read the latest pttActive      *)
(* value directly via the mutex, so dropping the notification is safe".    *)
DroppingIsSafe == Quiet => (mic.listening => ptt.active)

(* PTTMaxDuration (pipeline.go:87): listening ends, even when no release   *)
(* ever arrives.                                                           *)
ListeningEnds == mic.listening /\ loop = "select" ~> (~mic.listening \/ loop = "ended")

(* Pipeline.Stop (pipeline.go:229): a call of Stop returns, whatever the   *)
(* loop is doing, unless the source fails to start in the same moment, or  *)
(* two calls find the channel of the source open and both close it.        *)
StopReturns ==
    [](pipeline.start # "failed") =>
        \A s \in Stops : stopping[s].at = "source" ~> stopping[s].at \in {"done", "panicked"}

(* pipeline.go:230: "Stop is safe to call multiple times and from any      *)
(* goroutine".  Two calls at once can panic.                               *)
StopIsSafe == ~Panicked
=============================================================================
