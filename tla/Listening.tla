----------------------------- MODULE Listening ------------------------------
(***************************************************************************)
(* How the agent hears: stt_node runs a task that pushes the caller's      *)
(* audio into a voice activity detector, takes the utterances it finds out *)
(* of its stream of events one after the other, has each transcribed in a  *)
(* worker thread, and yields what has words in it to the agent session.    *)
(* The caller goes on talking meanwhile.                                   *)
(***************************************************************************)
EXTENDS Sequences, Integers, Functions

CONSTANT Audio   \* what a caller may say: sequences of the kinds below

\* An utterance in which something is understood, one in which nothing is, and
\* one the detector reports the end of without any frames.
Kinds == {"words", "noise", "frameless"}

ASSUME AudioAssumption == Audio \subseteq Seq(Kinds)

VARIABLES
  audio,     \* the utterances of this caller
  pushed,    \* how many of them the pusher has handed to the detector
  detected,  \* how many of those the detector has reported
  pusher,    \* the background task
  vad,       \* the detector's stream: open, its input ended, broken or closed
  events,    \* its events not taken yet
  node,      \* where stt_node is
  current,   \* the utterance it is transcribing or has yielded
  heard      \* the utterances yielded to the session

vars == <<audio, pushed, detected, pusher, vad, events, node, current, heard>>

detector == <<detected, vad, events>>

\* stt_node is suspended in an await or its yield, closing the stream, or over.
Suspended == {"listening", "transcribing", "yielding"}
Leaving == {"ending", "raising", "cancelling"}
Left == {"ended", "raised", "cancelled"}

-----------------------------------------------------------------------------
(* The pusher task and the detector *)

\* _push_frames, an utterance at a time.  A stream that was closed does not take
\* the frames.
Push ==
  /\ pusher = "running" /\ pushed < Len(audio)
  /\ IF vad = "closed" THEN pusher' = "failed" /\ UNCHANGED pushed
                       ELSE pushed' = pushed + 1 /\ UNCHANGED pusher
  /\ UNCHANGED <<audio, detector, node, current, heard>>

\* A mutant: the detector is not told.
AudioEndsQuietly ==
  /\ pusher = "running" /\ pushed = Len(audio)
  /\ pusher' = "done"
  /\ UNCHANGED <<audio, pushed, detector, node, current, heard>>

\* The caller's track ends: so does the detector's input.
AudioEnds ==
  /\ pusher = "running" /\ pushed = Len(audio)
  /\ pusher' = "done"
  /\ vad' = IF vad = "open" THEN "inputEnded" ELSE vad
  /\ UNCHANGED <<audio, pushed, detected, events, node, current, heard>>

\* The audio raises: the task is gone, and nobody has a look at it.
AudioFails ==
  /\ pusher = "running"
  /\ pusher' = "failed"
  /\ UNCHANGED <<audio, pushed, detector, node, current, heard>>

\* The detector finds the beginning and the end of an utterance.
Detect ==
  /\ vad \in {"open", "inputEnded"} /\ detected < pushed
  /\ detected' = detected + 1
  /\ events' = events \o <<[type |-> "start", utterance |-> detected + 1],
                           [type |-> "end", utterance |-> detected + 1]>>
  /\ UNCHANGED <<audio, pushed, pusher, vad, node, current, heard>>

DetectorFails ==
  /\ vad \in {"open", "inputEnded"}
  /\ vad' = "broken"
  /\ UNCHANGED <<audio, pushed, detected, pusher, events, node, current, heard>>

-----------------------------------------------------------------------------
(* stt_node *)

\* A mutant: the task is left to itself.
StopNothing == UNCHANGED pusher

\* pusher.cancel(): at an await as it always is, the task takes no further step.
StopPusher == pusher' = IF pusher = "running" THEN "cancelled" ELSE pusher

\* The loop is left for the finally clause.
Leave(how) ==
  /\ node' = how
  /\ StopPusher
  /\ UNCHANGED <<audio, pushed, detector, current, heard>>

\* A mutant: the event that is the latest by now.
NextEventLatest == events[Len(events)]

NextEvent == Head(events)

\* The loop passes over every event but the end of an utterance with frames.
TakeEvent ==
  /\ node = "listening" /\ events # <<>>
  /\ events' = Tail(events)
  /\ IF NextEvent.type = "end" /\ audio[NextEvent.utterance] # "frameless"
     THEN node' = "transcribing" /\ current' = NextEvent.utterance
     ELSE UNCHANGED <<node, current>>
  /\ UNCHANGED <<audio, pushed, detected, pusher, vad, heard>>

\* The provider's one segment is final; without a text it is passed over.
Transcribed ==
  /\ node = "transcribing"
  /\ IF audio[current] = "words"
     THEN node' = "yielding" /\ heard' = Append(heard, current)
     ELSE node' = "listening" /\ UNCHANGED heard
  /\ UNCHANGED <<audio, pushed, pusher, detector, current>>

\* An STTError, or what the conversion of the frames raises: no handler here.
TranscriptionFails == node = "transcribing" /\ Leave("raising")

\* The session asks for the next transcript.
Resume ==
  /\ node = "yielding"
  /\ node' = "listening"
  /\ UNCHANGED <<audio, pushed, pusher, detector, current, heard>>

\* The detector's events are over, or it raises.
EventsEnd ==
  /\ node = "listening" /\ events = <<>>
  /\ \/ vad = "inputEnded" /\ detected = pushed /\ Leave("ending")
     \/ vad = "broken" /\ Leave("raising")

\* The session cancels or closes the node, wherever it is suspended.
Cancel == node \in Suspended /\ Leave("cancelling")

\* aclose(), after which the exception goes on, if there is one.
Close ==
  /\ node \in Leaving
  /\ vad' = "closed"
  /\ node' = CASE node = "ending" -> "ended"
                [] node = "raising" -> "raised"
                [] node = "cancelling" -> "cancelled"
  /\ UNCHANGED <<audio, pushed, detected, pusher, events, current, heard>>

-----------------------------------------------------------------------------
(* The specification *)

Init ==
  /\ audio \in Audio
  /\ pushed = 0 /\ detected = 0
  /\ pusher = "running" /\ vad = "open" /\ events = <<>>
  /\ node = "listening" /\ current = 0 /\ heard = <<>>

Node == TakeEvent \/ Transcribed \/ TranscriptionFails \/ Resume \/ EventsEnd \/ Close

Next ==
  \/ Push \/ AudioEnds \/ AudioFails \/ Detect \/ DetectorFails
  \/ Node \/ Cancel

Spec == Init /\ [][Next]_vars

FairSpec == Spec /\ WF_vars(Node) /\ WF_vars(Detect)

-----------------------------------------------------------------------------
(* Properties *)

\* The utterances understood among the first n.
Understood(n) == {i \in 1..n : audio[i] = "words"}

\* Nothing the caller says is lost, doubled or turned round, also when it is said
\* while the utterance before is being transcribed: what the session was given is
\* what was understood so far, in the order spoken, and all of it once the node
\* ends by itself.
HeardInOrder ==
  /\ \A i, j \in DOMAIN heard : i < j => heard[i] < heard[j]
  /\ \E n \in 0..detected : Range(heard) = Understood(n)
  /\ node = "ended" => Range(heard) = Understood(Len(audio))

\* Whichever way the node is left, nothing of it goes on running, and no frame is
\* ever pushed into a closed stream.
NothingLeftRunning ==
  /\ node \in Left => pusher # "running" /\ vad = "closed"
  /\ pusher = "running" => vad # "closed"

\* When the caller's audio is over the node comes to an end, whatever was queued.
SilenceEndsTheNode == pusher = "done" ~> node \in Left

-----------------------------------------------------------------------------
(* What the documentation says and the code does not do *)

\* docs/ARCHITECTURE.md: a provider that is down brings the agent's fallback,
\* "never a silent hang or an unhandled exception on a live call".  Speech
\* recognition that fails ends the node, and with it the agent's hearing.
RecognitionFailureIsHandled == node = "raising" => vad = "broken"

=============================================================================
