----------------------------- MODULE MCSynthesis ----------------------------
(* Instances of Synthesis, and with it of StructuredReply, for TLC. *)
EXTENDS Synthesis

Strings(n, symbols) == UNION {[1..k -> symbols] : k \in 0..n}

\* "##:" stands for the marker, "w" for a word, which is also a label, "/" for
\* a line break, which may end a sentence and is white space too.
MCSymbols == {"w", "#", ":", " ", ".", "/"}
MCMarker == <<"#", "#", ":">>
MCLabels == {<<"w">>, <<"w", "w">>}
MCGeneral == <<"w", "w">>
MCTexts ==
  Strings(5, MCSymbols) \union Strings(7, {"w", "#", ":", " "})
  \union {t \o MCMarker \o l : t \in Strings(5, {"w", " ", ".", "/"}), l \in {<<>>, <<"w">>}}
MCEnds == {".", "/"}
MCSpaces == {" ", "/"}
=============================================================================
