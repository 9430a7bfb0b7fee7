--------------------------- MODULE ListeningProofs ---------------------------
(***************************************************************************)
(* What the agent hears, for whatever a caller says: every utterance       *)
(* understood, once and in order, and nothing left running behind.         *)
(*                                                                         *)
(* The inductive invariant counts the events taken from the detector's     *)
(* stream (Taken): the k-th event there ever is is the beginning or the    *)
(* end of utterance (k + 1) \div 2, the ones queued are those after Taken, *)
(* and the session was given what was understood up to Taken \div 2.       *)
(***************************************************************************)
EXTENDS Listening, TLAPS

Shapes ==
  /\ audio \in Seq(Kinds)
  /\ pushed \in 0..Len(audio) /\ detected \in 0..pushed
  /\ pusher \in {"running", "done", "failed", "cancelled"}
  /\ vad \in {"open", "inputEnded", "broken", "closed"}
  /\ node \in Suspended \union Leaving \union Left
  /\ events \in Seq([type : {"start", "end"}, utterance : Nat])
  /\ heard \in Seq(Nat)

\* The k-th event of the stream.
Event(k) == [type |-> IF k % 2 = 1 THEN "start" ELSE "end", utterance |-> (k + 1) \div 2]

Taken == 2 * detected - Len(events)

QueueInv ==
  /\ Taken >= 0
  /\ \A i \in 1..Len(events) : events[i] = Event(Taken + i)

\* The session was given what was understood among the first n.
Given(n) ==
  /\ n \in 0..detected
  /\ \A i, j \in DOMAIN heard : i < j => heard[i] < heard[j]
  /\ \A i \in DOMAIN heard : heard[i] \in Understood(n)
  /\ \A u \in Understood(n) : \E i \in DOMAIN heard : heard[i] = u

NodeInv ==
  /\ node \in {"listening", "yielding"} => Given(Taken \div 2)
  /\ node = "transcribing" => current = Taken \div 2 /\ current \in 1..detected /\ Given(current - 1)
  /\ node \in Leaving \union Left => \E n \in 0..detected : Given(n)
  /\ node \in {"ending", "ended"} => detected = Len(audio) /\ Given(Len(audio))
  /\ vad = "inputEnded" => pushed = Len(audio)

\* The finally clause stops the task first and then closes the stream.
ClosingInv ==
  /\ node \in Leaving \union Left => pusher # "running"
  /\ vad = "closed" <=> node \in Left

IInv == Shapes /\ QueueInv /\ NodeInv /\ ClosingInv

-----------------------------------------------------------------------------
LEMMA InitInv == Init => IInv
<1> SUFFICES ASSUME Init PROVE IInv OBVIOUS
<1> USE DEF Init, Suspended, Leaving, Left
<1>1. Shapes BY AudioAssumption DEF Shapes
<1>2. QueueInv BY DEF QueueInv, Taken
<1>3. Taken \div 2 = 0 BY DEF Taken
<1>4. NodeInv BY <1>3 DEF NodeInv, Given, Understood
<1>5. ClosingInv BY DEF ClosingInv
<1> QED BY <1>1, <1>2, <1>4, <1>5 DEF IInv

\* The stream's events alternate.
LEMMA Events ==
  ASSUME NEW n \in Nat
  PROVE  /\ Event(2 * n + 1) = [type |-> "start", utterance |-> n + 1]
         /\ Event(2 * n + 2) = [type |-> "end", utterance |-> n + 1]
         /\ Event(2 * n + 1).type = "start"
         /\ Event(2 * n + 2).type = "end" /\ Event(2 * n + 2).utterance = n + 1
<1>1. (2 * n + 1) % 2 = 1 /\ (2 * n + 2) % 2 = 0 OBVIOUS
<1>2. (2 * n + 1 + 1) \div 2 = n + 1 /\ (2 * n + 2 + 1) \div 2 = n + 1 OBVIOUS
<1> QED BY <1>1, <1>2 DEF Event

\* Understanding one more utterance.
LEMMA OneMore ==
  ASSUME NEW n \in Nat
  PROVE  Understood(n + 1) =
           Understood(n) \union (IF audio[n + 1] = "words" THEN {n + 1} ELSE {})
<1>1. 1..(n + 1) = 1..n \union {n + 1} OBVIOUS
<1> QED BY <1>1 DEF Understood

LEMMA Halves ==
  ASSUME NEW k \in Nat
  PROVE  k \div 2 \in Nat /\ (k = 2 * (k \div 2) \/ k = 2 * (k \div 2) + 1)
OBVIOUS

LEMMA GivenKept ==
  ASSUME NEW n, Given(n), UNCHANGED <<audio, heard>>,
         detected \in Nat, detected' \in Nat, detected <= detected'
  PROVE  Given(n)'
BY DEF Given, Understood

\* The events go on coming while the node is where it is.
LEMMA NodeKept ==
  ASSUME Shapes, NodeInv, UNCHANGED <<audio, node, current, heard>>, Taken' = Taken,
         detected' \in Nat, detected <= detected', detected' <= Len(audio),
         vad' = "inputEnded" => pushed' = Len(audio)
  PROVE  NodeInv'
<1> USE DEF NodeInv
<1>0. detected \in Nat /\ Len(audio) \in Nat BY DEF Shapes
<1>1. \A n : Given(n) => Given(n)' BY <1>0, GivenKept
<1>2. node \in Leaving \union Left => \E n \in 0..detected' : Given(n)' BY <1>0, <1>1
<1>3. node \in {"ending", "ended"} => detected' = Len(audio) /\ Given(Len(audio))'
  BY <1>0, <1>1
<1>4. node \in {"listening", "yielding"} => Given(Taken \div 2)' BY <1>1
<1>5. node = "transcribing" => /\ current = Taken \div 2 /\ current \in 1..detected'
                               /\ Given(current - 1)'
  BY <1>0, <1>1
<1> HIDE DEF NodeInv
<1> QED BY <1>2, <1>3, <1>4, <1>5 DEF NodeInv

LEMMA PushInv == ASSUME IInv, Push PROVE IInv'
<1> USE DEF IInv, Push, detector
<1>1. Shapes' BY DEF Shapes
<1>2. QueueInv' BY DEF QueueInv, Taken, Event
<1>3. NodeInv' BY NodeKept DEF NodeInv, Taken, Shapes
<1>4. ClosingInv' BY DEF ClosingInv
<1> QED BY <1>1, <1>2, <1>3, <1>4

LEMMA AudioEndsInv == ASSUME IInv, AudioEnds PROVE IInv'
<1> USE DEF IInv, AudioEnds, detector
<1>1. Shapes' BY DEF Shapes
<1>2. QueueInv' BY DEF QueueInv, Taken, Event
<1>3. NodeInv' BY NodeKept DEF NodeInv, Taken, Shapes
<1>4. ClosingInv' BY DEF ClosingInv, Shapes
<1> QED BY <1>1, <1>2, <1>3, <1>4

LEMMA AudioFailsInv == ASSUME IInv, AudioFails PROVE IInv'
<1> USE DEF IInv, AudioFails, detector
<1>1. Shapes' BY DEF Shapes
<1>2. QueueInv' BY DEF QueueInv, Taken, Event
<1>3. NodeInv' BY NodeKept DEF NodeInv, Taken, Shapes
<1>4. ClosingInv' BY DEF ClosingInv, Shapes
<1> QED BY <1>1, <1>2, <1>3, <1>4

LEMMA DetectorFailsInv == ASSUME IInv, DetectorFails PROVE IInv'
<1> USE DEF IInv, DetectorFails
<1>1. Shapes' BY DEF Shapes
<1>2. QueueInv' BY DEF QueueInv, Taken, Event
<1>3. NodeInv' BY NodeKept DEF NodeInv, Taken, Shapes
<1>4. ClosingInv' BY DEF ClosingInv
<1> QED BY <1>1, <1>2, <1>3, <1>4

\* Two events more at the end of the stream.
LEMMA DetectInv == ASSUME IInv, Detect PROVE IInv'
<1> USE DEF IInv, Detect
<1> DEFINE two == <<[type |-> "start", utterance |-> detected + 1],
                    [type |-> "end", utterance |-> detected + 1]>>
<1>0. /\ events \in Seq([type : {"start", "end"}, utterance : Nat])
      /\ detected \in Nat /\ pushed \in Nat /\ Len(events) \in Nat
  BY DEF Shapes
<1>1. /\ two \in Seq([type : {"start", "end"}, utterance : Nat]) /\ Len(two) = 2
      /\ two[1] = Event(2 * detected + 1) /\ two[2] = Event(2 * detected + 2)
  BY <1>0, Events
<1>2. /\ Len(events') = Len(events) + 2
      /\ \A i \in 1..Len(events) : events'[i] = events[i]
      /\ events'[Len(events) + 1] = two[1] /\ events'[Len(events) + 2] = two[2]
      /\ events' \in Seq([type : {"start", "end"}, utterance : Nat])
  <2> HIDE DEF two
  <2> QED BY <1>0, <1>1, events' = events \o two DEF two
<1>3. Taken' = Taken BY <1>0, <1>2 DEF Taken
<1>4. Shapes' BY <1>2 DEF Shapes
<1>5. QueueInv'
  <2>1. ASSUME NEW i \in 1..(Len(events) + 2) PROVE events'[i] = Event(Taken + i)
    <3>1. CASE i \in 1..Len(events) BY <1>2, <3>1 DEF QueueInv
    <3>2. CASE i = Len(events) + 1
      <4>1. Taken + i = 2 * detected + 1 BY <1>0, <3>2 DEF Taken
      <4> QED BY <1>1, <1>2, <3>2, <4>1
    <3>3. CASE i = Len(events) + 2
      <4>1. Taken + i = 2 * detected + 2 BY <1>0, <3>3 DEF Taken
      <4> QED BY <1>1, <1>2, <3>3, <4>1
    <3> QED BY <1>0, <3>1, <3>2, <3>3
  <2> QED BY <1>2, <1>3, <2>1 DEF QueueInv, Event
<1>6. NodeInv' BY <1>0, <1>3, NodeKept DEF NodeInv, Shapes
<1>7. ClosingInv' BY DEF ClosingInv
<1> QED BY <1>4, <1>5, <1>6, <1>7

\* The first queued event is the end of an utterance, or its beginning.
LEMMA TakeEventInv == ASSUME IInv, TakeEvent PROVE IInv'
<1> USE DEF IInv, TakeEvent
<1>0. /\ events \in Seq([type : {"start", "end"}, utterance : Nat]) /\ events # <<>>
      /\ detected \in Nat /\ pushed \in Nat /\ Len(events) \in Nat \ {0} /\ Taken \in Nat
      /\ Taken < 2 * detected
  BY DEF Shapes, QueueInv, Taken
<1>1. /\ Len(events') = Len(events) - 1 /\ \A i \in 1..Len(events') : events'[i] = events[i + 1]
      /\ events' \in Seq([type : {"start", "end"}, utterance : Nat])
  BY <1>0
<1>2. Taken' = Taken + 1 BY <1>0, <1>1 DEF Taken
<1>3. QueueInv'
  <2>1. ASSUME NEW i \in 1..(Len(events) - 1) PROVE events'[i] = Event(Taken + 1 + i)
    <3>1. events'[i] = Event(Taken + (i + 1)) BY <1>0, <1>1 DEF QueueInv
    <3>2. Taken + (i + 1) = Taken + 1 + i BY <1>0
    <3> QED BY <3>1, <3>2
  <2> QED BY <1>0, <1>1, <1>2, <2>1 DEF QueueInv, Event
<1>4. Shapes' BY <1>1 DEF Shapes, Suspended
<1>5. ClosingInv' BY DEF ClosingInv, Leaving, Left
<1>6. NextEvent = Event(Taken + 1) BY <1>0 DEF NextEvent, QueueInv
<1>7. NodeInv'
  <2>1. PICK n \in Nat : Taken = 2 * n \/ Taken = 2 * n + 1 BY <1>0, Halves
  <2>2. Given(n)
    <3>1. Taken \div 2 = n BY <2>1
    <3> QED BY <3>1 DEF NodeInv
  <2>3. CASE Taken = 2 * n
    <3>1. (Taken + 1) \div 2 = n BY <2>3
    <3>2. NextEvent.type = "start"
      <4>1. NextEvent = Event(2 * n + 1) BY <1>6, <2>3
      <4> QED BY <4>1, Events
    <3>3. node' = "listening" BY <3>2
    <3>4. Given(n)' BY <2>2 DEF Given, Understood
    <3> QED BY <1>2, <3>1, <3>3, <3>4 DEF NodeInv, Leaving, Left
  <2>4. CASE Taken = 2 * n + 1
    <3>1. (Taken + 1) \div 2 = n + 1 /\ Taken + 1 = 2 * n + 2 /\ n + 1 <= detected
      BY <1>0, <2>4
    <3>2. NextEvent.type = "end" /\ NextEvent.utterance = n + 1
      <4>1. NextEvent = Event(2 * n + 2) BY <1>6, <3>1
      <4> QED BY <4>1, Events
    <3>3. CASE audio[n + 1] # "frameless"
      <4>1. node' = "transcribing" /\ current' = n + 1 BY <3>2, <3>3
      <4>2. Given(n)' BY <2>2 DEF Given, Understood
      <4> QED BY <1>0, <1>2, <3>1, <4>1, <4>2 DEF NodeInv, Leaving, Left
    <3>4. CASE audio[n + 1] = "frameless"
      <4>1. node' = "listening" BY <3>2, <3>4
      <4>2. Understood(n + 1) = Understood(n) BY <3>4, OneMore
      <4>3. Understood(n + 1)' = Understood(n) BY <4>2 DEF Understood
      <4>4. heard' = heard /\ detected' = detected OBVIOUS
      <4>5. n + 1 \in 0..detected BY <1>0, <3>1
      <4>6. /\ \A i, j \in DOMAIN heard : i < j => heard[i] < heard[j]
            /\ \A i \in DOMAIN heard : heard[i] \in Understood(n)
            /\ \A u \in Understood(n) : \E i \in DOMAIN heard : heard[i] = u
        BY <2>2 DEF Given
      <4>7. Given(n + 1)'
        <5> HIDE DEF IInv, TakeEvent
        <5> QED BY <4>3, <4>4, <4>5, <4>6 DEF Given
      <4> QED BY <1>2, <3>1, <4>1, <4>7 DEF NodeInv, Leaving, Left
    <3> QED BY <3>3, <3>4
  <2> QED BY <2>1, <2>3, <2>4
<1> QED BY <1>3, <1>4, <1>5, <1>7

LEMMA TranscribedInv == ASSUME IInv, Transcribed PROVE IInv'
<1> USE DEF IInv, Transcribed, detector
<1>0. /\ current = Taken \div 2 /\ current \in 1..detected /\ Given(current - 1)
      /\ detected \in Nat /\ current \in Nat \ {0} /\ heard \in Seq(Nat) /\ current - 1 \in Nat
  BY DEF NodeInv, Shapes
<1>1. Shapes'
  <2>1. heard' \in Seq(Nat)
    <3>1. CASE audio[current] = "words"
      <4>1. heard' = Append(heard, current) BY <3>1
      <4>2. heard \in Seq(Nat) /\ current \in Nat BY <1>0
      <4> HIDE DEF IInv, Transcribed
      <4> QED BY <4>1, <4>2
    <3>2. CASE audio[current] # "words" BY <1>0, <3>2
    <3> QED BY <3>1, <3>2
  <2>2. node' \in Suspended BY DEF Suspended
  <2>3. Shapes /\ UNCHANGED <<audio, pushed, detected, pusher, vad, events>> OBVIOUS
  <2> HIDE DEF IInv, Transcribed
  <2> QED BY <2>1, <2>2, <2>3 DEF Shapes
<1>2. QueueInv' BY DEF QueueInv, Taken, Event
<1>3. ClosingInv' BY DEF ClosingInv, Leaving, Left
<1>4. Understood(current)
        = Understood(current - 1) \union (IF audio[current] = "words" THEN {current} ELSE {})
  <2>1. current - 1 + 1 = current BY <1>0
  <2> QED BY <1>0, <2>1, OneMore
<1>5. Given(current)'
  <2>1. CASE audio[current] = "words"
    <3>1. /\ Len(heard') = Len(heard) + 1 /\ heard'[Len(heard) + 1] = current
          /\ \A i \in 1..Len(heard) : heard'[i] = heard[i]
      BY <1>0, <2>1
    <3>2. \A i \in 1..Len(heard) : heard[i] \in Understood(current - 1) /\ heard[i] < current
      BY <1>0 DEF Given, Understood
    <3>3. Understood(current)' = Understood(current - 1) \union {current}
      BY <1>4, <2>1 DEF Understood
    <3>4. heard' \in Seq(Nat) BY <1>1 DEF Shapes
    <3>5. DOMAIN heard' = 1..(Len(heard) + 1) /\ Len(heard) \in Nat BY <1>0, <3>1, <3>4
    <3>6. ASSUME NEW i \in DOMAIN heard', NEW j \in DOMAIN heard', i < j
          PROVE  heard'[i] < heard'[j]
      <4> HIDE DEF IInv, Transcribed
      <4>1. i \in 1..Len(heard) /\ heard'[i] = heard[i] /\ heard[i] \in Nat
        BY <1>0, <3>1, <3>5, <3>6
      <4>2. CASE j \in 1..Len(heard)
        <5>1. j \in DOMAIN heard /\ i \in DOMAIN heard BY <1>0, <4>1, <4>2
        <5>2. heard[i] < heard[j] BY <1>0, <3>6, <5>1 DEF Given
        <5> QED BY <3>1, <4>1, <4>2, <5>2
      <4>3. CASE j = Len(heard) + 1 BY <3>1, <3>2, <4>1, <4>3
      <4> QED BY <3>5, <4>2, <4>3
    <3> DEFINE before == Understood(current - 1)
    <3>7. /\ \A i \in 1..Len(heard) : heard[i] \in before
          /\ \A u \in before : \E i \in 1..Len(heard) : heard[i] = u
      BY <1>0 DEF Given
    <3> HIDE DEF IInv, Transcribed, before
    <3>8. \A i \in DOMAIN heard' : heard'[i] \in before \union {current}
      <4>1. TAKE i \in DOMAIN heard'
      <4>2. i \in 1..Len(heard) \/ i = Len(heard) + 1 BY <3>5, <4>1
      <4>3. CASE i \in 1..Len(heard)
        <5>1. heard'[i] = heard[i] /\ heard[i] \in before BY <3>1, <3>7, <4>3
        <5> QED BY <5>1
      <4>4. CASE i = Len(heard) + 1 BY <3>1, <4>4
      <4> QED BY <4>2, <4>3, <4>4
    <3>9. \A u \in before \union {current} : \E i \in DOMAIN heard' : heard'[i] = u
      <4>1. \A i \in 1..Len(heard) : i \in DOMAIN heard' BY <3>5
      <4>2. Len(heard) + 1 \in DOMAIN heard' BY <3>5
      <4> QED BY <3>1, <3>7, <4>1, <4>2
    <3>10. Understood(current)' = before \union {current} BY <3>3 DEF before
    <3>11. current' \in 0..detected' BY <1>0 DEF Transcribed, detector
    <3> QED BY <3>6, <3>8, <3>9, <3>10, <3>11 DEF Given
  <2>2. CASE audio[current] # "words"
    BY <1>0, <1>4, <2>2 DEF Given, Understood
  <2> QED BY <2>1, <2>2
<1>6. NodeInv'
  <2>1. Taken' = Taken /\ node' \in {"listening", "yielding"} BY DEF Taken
  <2> QED BY <1>0, <1>5, <2>1 DEF NodeInv, Leaving, Left
<1> QED BY <1>1, <1>2, <1>3, <1>6

\* Leaving the loop, for whatever reason but the end of the events.
LEMMA LeaveInv ==
  ASSUME IInv, NEW how \in {"raising", "cancelling"}, node \in Suspended, Leave(how)
  PROVE  IInv'
<1> USE DEF IInv, Leave, StopPusher, detector
<1>1. Shapes' BY DEF Shapes, Leaving
<1>2. QueueInv' BY DEF QueueInv, Taken, Event
<1>3. ClosingInv' BY DEF ClosingInv, Leaving, Left, Suspended
<1>4. \E n \in 0..detected : Given(n)' 
  <2>1. \E n \in 0..detected : Given(n) BY DEF NodeInv, Suspended, Given
  <2> QED BY <2>1 DEF Given, Understood
<1>5. NodeInv' BY <1>4 DEF NodeInv, Leaving, Left
<1> QED BY <1>1, <1>2, <1>3, <1>5

LEMMA EventsEndInv == ASSUME IInv, EventsEnd PROVE IInv'
<1>1. CASE vad = "broken" BY <1>1, LeaveInv DEF EventsEnd, Suspended
<1>2. CASE vad = "inputEnded"
  <2> USE DEF IInv, Leave, StopPusher, detector
  <2>0. /\ Leave("ending") /\ node = "listening" /\ events = <<>>
        /\ detected = Len(audio) /\ detected \in Nat
    BY <1>2 DEF EventsEnd, NodeInv, Shapes
  <2>1. Shapes' BY <2>0 DEF Shapes, Leaving
  <2>2. QueueInv' BY <2>0 DEF QueueInv, Taken, Event
  <2>3. ClosingInv' BY <2>0 DEF ClosingInv, Leaving, Left
  <2>4. Taken \div 2 = Len(audio) BY <2>0 DEF Taken
  <2>5. Given(Len(audio))' BY <2>0, <2>4 DEF NodeInv, Given, Understood
  <2>6. NodeInv' BY <2>0, <2>5 DEF NodeInv, Leaving, Left
  <2> QED BY <2>1, <2>2, <2>3, <2>6
<1> QED BY <1>1, <1>2 DEF EventsEnd

LEMMA ResumeInv == ASSUME IInv, Resume PROVE IInv'
<1> USE DEF IInv, Resume, detector
<1>1. Shapes' BY DEF Shapes, Suspended
<1>2. QueueInv' BY DEF QueueInv, Taken, Event
<1>3. ClosingInv' BY DEF ClosingInv, Leaving, Left
<1>4. NodeInv' BY DEF NodeInv, Given, Understood, Taken, Leaving, Left
<1> QED BY <1>1, <1>2, <1>3, <1>4

LEMMA CloseInv == ASSUME IInv, Close PROVE IInv'
<1> USE DEF IInv, Close
<1>1. Shapes' BY DEF Shapes, Leaving, Left
<1>2. QueueInv' BY DEF QueueInv, Taken, Event
<1>3. ClosingInv' BY DEF ClosingInv, Leaving, Left
<1>4. NodeInv' BY DEF NodeInv, Given, Understood, Leaving, Left
<1> QED BY <1>1, <1>2, <1>3, <1>4

LEMMA StutterInv == ASSUME IInv, UNCHANGED vars PROVE IInv'
BY DEF IInv, vars, Shapes, QueueInv, NodeInv, ClosingInv, Taken, Event, Given, Understood

LEMMA Invariance == Spec => []IInv
<1>1. IInv /\ [Next]_vars => IInv'
  <2> SUFFICES ASSUME IInv, [Next]_vars PROVE IInv' OBVIOUS
  <2>1. CASE Push BY <2>1, PushInv
  <2>2. CASE AudioEnds BY <2>2, AudioEndsInv
  <2>3. CASE AudioFails BY <2>3, AudioFailsInv
  <2>4. CASE Detect BY <2>4, DetectInv
  <2>5. CASE DetectorFails BY <2>5, DetectorFailsInv
  <2>6. CASE TakeEvent BY <2>6, TakeEventInv
  <2>7. CASE Transcribed BY <2>7, TranscribedInv
  <2>8. CASE TranscriptionFails BY <2>8, LeaveInv DEF TranscriptionFails, Suspended
  <2>9. CASE Resume BY <2>9, ResumeInv
  <2>10. CASE EventsEnd BY <2>10, EventsEndInv
  <2>11. CASE Close BY <2>11, CloseInv
  <2>12. CASE Cancel BY <2>12, LeaveInv DEF Cancel
  <2>13. CASE UNCHANGED vars BY <2>13, StutterInv
  <2> QED BY <2>1, <2>2, <2>3, <2>4, <2>5, <2>6, <2>7, <2>8, <2>9, <2>10, <2>11, <2>12, <2>13
       DEF Next, Node
<1> QED BY <1>1, InitInv, PTL DEF Spec

\* The session is given every utterance understood, once and in the order spoken,
\* whatever the caller says and however long a transcription takes, and all of
\* them when stt_node ends by itself.
THEOREM HeardInOrderHolds == Spec => []HeardInOrder
<1>1. IInv => HeardInOrder
  <2> SUFFICES ASSUME IInv PROVE HeardInOrder OBVIOUS
  <2>1. PICK n \in 0..detected : Given(n)
    BY DEF IInv, Shapes, NodeInv, Given, Suspended, Leaving, Left
  <2>2. \A k : Given(k) => Range(heard) = Understood(k) BY DEF Given, Range
  <2>3. \A i, j \in DOMAIN heard : i < j => heard[i] < heard[j] BY <2>1 DEF Given
  <2>4. node = "ended" => Given(Len(audio)) BY DEF IInv, NodeInv
  <2> QED BY <2>1, <2>2, <2>3, <2>4 DEF HeardInOrder
<1> QED BY <1>1, Invariance, PTL

\* The finally clause of stt_node: whichever way it is left, the pusher is over
\* and the detector's stream closed, in that order.
THEOREM NothingLeftRunningHolds == Spec => []NothingLeftRunning
<1>1. IInv => NothingLeftRunning BY DEF IInv, ClosingInv, NothingLeftRunning, Leaving, Left
<1> QED BY <1>1, Invariance, PTL

=============================================================================
