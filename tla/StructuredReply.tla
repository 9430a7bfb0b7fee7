--------------------------- MODULE StructuredReply --------------------------
(***************************************************************************)
(* The reply format "<text> ###INTENT: <label>" and its two readers:       *)
(* parse_structured_reply over a complete completion, and                  *)
(* StreamingReplyExtractor over the same text cut into deltas anywhere,    *)
(* which must never let a piece of the marker be spoken.                   *)
(*                                                                         *)
(* Text is a sequence of symbols; the marker is a short word that, like    *)
(* "###INTENT:", starts with a repeated symbol, so that a text may hold    *)
(* false starts of it.                                                     *)
(***************************************************************************)
EXTENDS Sequences, Naturals

CONSTANTS
  Symbols,  \* the characters of a text
  Texts,    \* the completions the model may produce
  Marker,   \* the intent marker
  Spaces,   \* white space
  Labels,   \* the labels of the Intent enumeration, as text
  General   \* the label of Intent.GENERAL

ASSUME TextAssumption == Texts \subseteq Seq(Symbols)

ASSUME MarkerAssumption ==
  /\ Marker \in Seq(Symbols) /\ Marker # <<>>
  /\ \A k \in DOMAIN Marker : Marker[k] \notin Spaces

VARIABLES
  raw,      \* the completion the deltas add up to
  fed,      \* symbols of it received so far
  pending,  \* _pending
  released, \* _released, the text handed to the speech synthesis
  found,    \* _marker_found
  label,    \* _after_marker
  result    \* what finalize returned, and the reply the turn ends with

vars == <<raw, fed, pending, released, found, label, result>>

-----------------------------------------------------------------------------
(* Text *)

From(t, i) == SubSeq(t, i, Len(t))
UpTo(t, i) == SubSeq(t, 1, i)

\* str.find: the positions where the marker starts, and the first of them.
MarkerAt(t, i) == i + Len(Marker) - 1 <= Len(t)
                  /\ SubSeq(t, i, i + Len(Marker) - 1) = Marker
HasMarker(t) == \E i \in DOMAIN t : MarkerAt(t, i)
Find(t) == CHOOSE i \in DOMAIN t : MarkerAt(t, i) /\ \A j \in 1..(i - 1) : ~MarkerAt(t, j)

\* rstrip, strip
Words(t) == {i \in DOMAIN t : t[i] \notin Spaces}
StripRight(t) ==
  UpTo(t, CHOOSE n \in 0..Len(t) : (\A i \in Words(t) : i <= n) /\ n \in Words(t) \union {0})
StripLeft(t) ==
  From(t, CHOOSE n \in 1..(Len(t) + 1) :
            (\A i \in Words(t) : n <= i) /\ n \in Words(t) \union {Len(t) + 1})
Strip(t) == StripRight(IF Words(t) = {} THEN <<>> ELSE StripLeft(t))

\* Intent(label), with a fallback for a label of no intent.
IntentOf(text) == IF Strip(text) \in Labels THEN Strip(text) ELSE General

-----------------------------------------------------------------------------
(* parse_structured_reply, the reading of a whole completion *)

Parse(t) ==
  IF ~HasMarker(t) THEN [intent |-> General, text |-> Strip(t)]
  ELSE LET reply == Strip(UpTo(t, Find(t) - 1))
       IN [intent |-> IntentOf(From(t, Find(t) + Len(Marker))),
           text |-> IF reply = <<>> THEN Strip(t) ELSE reply]

-----------------------------------------------------------------------------
(* StreamingReplyExtractor *)

\* A mutant: one symbol too few is held back.
HoldBackLess == Len(Marker) - 2

\* A mutant: one symbol more than needed is held back.
HoldBackMore == Len(Marker)

HoldBack == Len(Marker) - 1

\* A mutant: the delta after the marker is dropped.
FeedLabelDropping(delta) ==
  /\ found
  /\ UNCHANGED <<pending, released, found, label>>

\* Once the marker is found the rest is the label.
FeedLabel(delta) ==
  /\ found
  /\ label' = label \o delta
  /\ UNCHANGED <<pending, released, found>>

\* The marker is complete: what precedes it is the last text to speak.
FeedMarker(delta) ==
  LET text == pending \o delta IN
  /\ ~found /\ HasMarker(text)
  /\ released' = released \o StripRight(UpTo(text, Find(text) - 1))
  /\ label' = From(text, Find(text) + Len(Marker))
  /\ found' = TRUE
  /\ pending' = <<>>

\* No marker yet: all but a tail that may be the start of one is spoken.
FeedText(delta) ==
  LET text == pending \o delta
      cut == IF Len(text) > HoldBack THEN Len(text) - HoldBack ELSE 0
  IN /\ ~found /\ ~HasMarker(text)
     /\ released' = released \o UpTo(text, cut)
     /\ pending' = From(text, cut + 1)
     /\ UNCHANGED <<found, label>>

Feed ==
  \E n \in 1..(Len(raw) - fed) :
    LET delta == SubSeq(raw, fed + 1, fed + n) IN
    /\ fed' = fed + n
    /\ FeedLabel(delta) \/ FeedMarker(delta) \/ FeedText(delta)
    /\ UNCHANGED <<raw, result>>

\* The stream has ended: a text held back in vain is spoken after all.
Finalize ==
  /\ fed = Len(raw) /\ result.intent = <<>>
  /\ released' = IF found THEN released ELSE released \o pending
  /\ pending' = <<>>
  /\ result' = [intent |-> IF found THEN IntentOf(label) ELSE General, text |-> released']
  /\ UNCHANGED <<raw, fed, found, label>>

Init ==
  /\ raw \in Texts
  /\ fed = 0 /\ pending = <<>> /\ released = <<>> /\ found = FALSE /\ label = <<>>
  /\ result = [intent |-> <<>>, text |-> <<>>]

Next == Feed \/ Finalize

Spec == Init /\ [][Next]_vars

-----------------------------------------------------------------------------
(* Properties *)

Finished == result.intent # <<>>

\* The text of the completion that is meant to be spoken.
Speech == IF HasMarker(raw) THEN UpTo(raw, Find(raw) - 1) ELSE raw

\* Nothing but the reply is ever spoken, not the first symbol of a marker
\* however the deltas cut it, and no symbol is skipped or spoken twice.
OnlySpeechIsSpoken ==
  Len(released) <= Len(Speech) /\ released = UpTo(Speech, Len(released))

\* The caller waits for no more text than may turn out to be the marker.
SpokenPromptly ==
  ~found => fed - Len(released) <= Len(Marker) - 1

\* Both readers tell the same intent, and the same reply up to blanks around
\* it, unless a marker follows no text.
ReadersAgree ==
  Finished =>
    /\ result.intent = Parse(raw).intent
    /\ Strip(Speech) # <<>> => Strip(result.text) = Parse(raw).text

=============================================================================
