------------------------------ MODULE Synthesis -----------------------------
(***************************************************************************)
(* From the completion to the voice: while StructuredReply releases the    *)
(* speakable text of a reply, tts_node collects it and hands it to the     *)
(* speech synthesis sentence by sentence.                                  *)
(*                                                                         *)
(* The two run concurrently, with LiveKit's channel of text chunks between *)
(* them.  tts_node only appends a chunk to its buffer, so the channel is   *)
(* what was released and not taken yet, and a chunk any prefix of it.      *)
(***************************************************************************)
EXTENDS StructuredReply, FiniteSets

CONSTANT Ends   \* the symbols that may end a sentence

VARIABLES
  taken,      \* symbols of the released text that arrived in tts_node
  buffer,     \* buffer
  sentences,  \* ghost: what was handed to the speech synthesis
  voice       \* tts_node is "on", "done", or "failed" with the synthesis

tts == <<taken, buffer, sentences, voice>>

-----------------------------------------------------------------------------
(* tts_node *)

\* A mutant: a mark at the end of what has come is taken for an end, so "3." and
\* "14" become two sentences.
SentenceEndsUnconfirmed(t) ==
  {i \in DOMAIN t : t[i] \in Ends /\ (i + 1 \in DOMAIN t => t[i + 1] \in Spaces)}

\* Where a sentence of t ends: at a mark that white space follows.
SentenceEnds(t) == {i \in DOMAIN t : t[i] \in Ends /\ i + 1 \in DOMAIN t /\ t[i + 1] \in Spaces}

HasSentence == SentenceEnds(buffer) # {}
SentenceEnd == CHOOSE i \in SentenceEnds(buffer) : \A j \in SentenceEnds(buffer) : i <= j

\* Nothing more will arrive.
TextEnded == Finished /\ taken = Len(released)

\* A chunk arrives, when every complete sentence before it has been spoken.
Take ==
  /\ voice = "on" /\ ~HasSentence
  /\ \E n \in 1..(Len(released) - taken) :
       /\ buffer' = buffer \o SubSeq(released, taken + 1, taken + n)
       /\ taken' = taken + n
  /\ UNCHANGED <<vars, sentences, voice>>

\* The synthesis is given a text; white space is not worth it.
Say(text) ==
  sentences' = IF Words(text) = {} THEN sentences ELSE Append(sentences, Strip(text))

SpeakSentence ==
  /\ voice = "on" /\ HasSentence
  /\ Say(UpTo(buffer, SentenceEnd))
  /\ buffer' = From(buffer, SentenceEnd + 1)
  /\ UNCHANGED <<vars, taken, voice>>

\* A mutant: a sentence without an end is never spoken.
SpeakRestOnlyIfEnded ==
  /\ voice = "on" /\ ~HasSentence /\ TextEnded
  /\ IF buffer # <<>> /\ buffer[Len(buffer)] \in Ends THEN Say(buffer) ELSE UNCHANGED sentences
  /\ buffer' = <<>> /\ voice' = "done"
  /\ UNCHANGED <<vars, taken>>

\* What never found an end is spoken when the text has ended.
SpeakRest ==
  /\ voice = "on" /\ ~HasSentence /\ TextEnded
  /\ Say(buffer)
  /\ buffer' = <<>> /\ voice' = "done"
  /\ UNCHANGED <<vars, taken>>

\* The provider fails on a sentence, after its retries: nothing catches the
\* error, and the rest of the reply goes unsaid.
SynthesisFails ==
  /\ voice = "on"
  /\ HasSentence \/ (TextEnded /\ Words(buffer) # {})
  /\ voice' = "failed"
  /\ UNCHANGED <<vars, taken, buffer, sentences>>

-----------------------------------------------------------------------------

SynthesisInit == Init /\ taken = 0 /\ buffer = <<>> /\ sentences = <<>> /\ voice = "on"

SynthesisNext ==
  \/ Next /\ UNCHANGED tts
  \/ Take \/ SpeakSentence \/ SpeakRest \/ SynthesisFails

SynthesisSpec == SynthesisInit /\ [][SynthesisNext]_<<vars, tts>>

-----------------------------------------------------------------------------
(* Properties *)

\* The values of a function on natural numbers, in the order of its arguments.
Rank(S, i) == Cardinality({j \in S : j <= i})
InOrder(f) ==
  [k \in 1..Cardinality(DOMAIN f) |-> f[CHOOSE i \in DOMAIN f : Rank(DOMAIN f, i) = k]]

\* The last words of the sentences of a text: an end comes before the next word
\* does or, when nothing more can follow, there is no next word.
LastWords(t, ended) ==
  {l \in Words(t) :
     \/ \E e \in SentenceEnds(t) : l <= e /\ \A w \in Words(t) : l < w => e < w
     \/ ended /\ \A w \in Words(t) : w <= l}

\* The words of the sentence whose last word is at l, and all of that sentence.
SentenceWords(t, l) ==
  {w \in Words(t) : w <= l /\ \A e \in SentenceEnds(t) : ~(w <= e /\ e < l)}
Sentence(t, l) ==
  SubSeq(t, CHOOSE f \in SentenceWords(t, l) : \A w \in SentenceWords(t, l) : f <= w, l)

\* The sentences of a whole text.
SentencesOf(t, ended) == InOrder([l \in LastWords(t, ended) |-> Sentence(t, l)])

\* However the text was cut into deltas and chunks, what was spoken and what still
\* sits in the buffer are the same sentences as those of the whole text: none is
\* lost, torn or spoken twice.
CutsDoNotMatter ==
  voice # "done" =>
    sentences \o SentencesOf(buffer, FALSE) = SentencesOf(UpTo(released, taken), FALSE)

\* A streamed reply is heard as the same sentences as one parsed whole and spoken
\* in one piece, as a turn with tools does, unless a marker follows no text.
HeardTheSame ==
  voice = "done" /\ Words(Speech) # {} => sentences = SentencesOf(Parse(raw).text, TRUE)

=============================================================================
