----------------------- MODULE StructuredReplyProofs ------------------------
(***************************************************************************)
(* Theorems about StructuredReply and Synthesis for any marker, any        *)
(* completion and any cut of it into deltas and chunks: what is handed to  *)
(* the speech synthesis is always a beginning of the text in front of the  *)
(* marker, at most one symbol less than a marker is held back, and the     *)
(* streaming reader ends with what the reader of the whole completion      *)
(* reads; and the sentences that are spoken are those of that text.        *)
(***************************************************************************)
EXTENDS Synthesis, CommonLemmas

-----------------------------------------------------------------------------
(* Lemmas about texts *)

\* A part of a text, symbol by symbol.
LEMMA Part ==
  ASSUME NEW t \in Seq(Symbols), NEW m \in 1..(Len(t) + 1), NEW n \in (m - 1)..Len(t)
  PROVE  /\ SubSeq(t, m, n) \in Seq(Symbols)
         /\ Len(SubSeq(t, m, n)) = n - m + 1
         /\ DOMAIN SubSeq(t, m, n) = 1..(n - m + 1)
         /\ \A i \in 1..(n - m + 1) : SubSeq(t, m, n)[i] = t[m + i - 1]
<1>1. Len(t) \in Nat
  BY LenProperties
<1>2. \A i \in m..n : t[i] \in Symbols
  BY <1>1, ElementOfSeq
<1>3. /\ SubSeq(t, m, n) \in Seq(Symbols)
      /\ Len(SubSeq(t, m, n)) = IF m <= n THEN n - m + 1 ELSE 0
      /\ \A i \in 1..(n - m + 1) : SubSeq(t, m, n)[i] = t[m + i - 1]
  BY <1>1, <1>2, SubSeqProperties
<1>4. Len(SubSeq(t, m, n)) = n - m + 1
  BY <1>1, <1>3
<1> QED BY <1>3, <1>4, LenProperties

\* A part of a part.
LEMMA PartOfPart ==
  ASSUME NEW t \in Seq(Symbols), NEW m \in 1..(Len(t) + 1), NEW n \in (m - 1)..Len(t),
         NEW i \in 1..(n - m + 2), NEW j \in (i - 1)..(n - m + 1)
  PROVE  SubSeq(SubSeq(t, m, n), i, j) = SubSeq(t, m + i - 1, m + j - 1)
<1> DEFINE w == SubSeq(t, m, n)
           a == SubSeq(w, i, j)
           b == SubSeq(t, m + i - 1, m + j - 1)
<1>1. Len(t) \in Nat
  BY LenProperties
<1>2. /\ w \in Seq(Symbols) /\ Len(w) = n - m + 1
      /\ \A k \in 1..(n - m + 1) : w[k] = t[m + k - 1]
  BY Part
<1>3. i \in 1..(Len(w) + 1) /\ j \in (i - 1)..Len(w)
  BY <1>1, <1>2
<1>4. /\ a \in Seq(Symbols) /\ Len(a) = j - i + 1
      /\ \A k \in 1..(j - i + 1) : a[k] = w[i + k - 1]
  <2> HIDE DEF w
  <2> QED BY <1>2, <1>3, Part
<1>5. m + i - 1 \in 1..(Len(t) + 1) /\ m + j - 1 \in (m + i - 1 - 1)..Len(t)
  BY <1>1
<1>6. /\ b \in Seq(Symbols) /\ Len(b) = (m + j - 1) - (m + i - 1) + 1
      /\ \A k \in 1..((m + j - 1) - (m + i - 1) + 1) : b[k] = t[(m + i - 1) + k - 1]
  BY <1>5, Part
<1>7. (m + j - 1) - (m + i - 1) + 1 = j - i + 1
  BY <1>1
<1>8. \A k \in 1..(j - i + 1) : a[k] = b[k]
  <2> TAKE k \in 1..(j - i + 1)
  <2>1. i + k - 1 \in 1..(n - m + 1) /\ m + (i + k - 1) - 1 = (m + i - 1) + k - 1
    BY <1>1
  <2> HIDE DEF w, a, b
  <2> QED BY <1>2, <1>4, <1>6, <1>7, <2>1
<1> HIDE DEF w, a, b
<1>9. Len(a) = Len(b)
  BY <1>4, <1>6, <1>7
<1>10. a = b
  BY <1>4, <1>6, <1>8, <1>9, SeqEqual
<1> QED BY <1>10 DEF w, a, b

\* Parts of a text that follow each other.
LEMMA Adjacent ==
  ASSUME NEW t \in Seq(Symbols), NEW m \in 1..(Len(t) + 1), NEW k \in (m - 1)..Len(t),
         NEW n \in k..Len(t)
  PROVE  SubSeq(t, m, k) \o SubSeq(t, k + 1, n) = SubSeq(t, m, n)
BY ConcatAdjacentSubSeq

\* A marker in a part of a text is a marker of the text that ends within the part.
LEMMA MarkerInPart ==
  ASSUME NEW t \in Seq(Symbols), NEW r \in 0..Len(t), NEW e \in r..Len(t),
         NEW i \in 1..(e - r)
  PROVE  MarkerAt(SubSeq(t, r + 1, e), i)
         <=> i + Len(Marker) - 1 <= e - r /\ MarkerAt(t, r + i)
<1> DEFINE w == SubSeq(t, r + 1, e)
           L == Len(Marker)
<1>1. Len(t) \in Nat /\ L \in Nat \ {0}
  BY LenProperties, EmptySeq, MarkerAssumption
<1>2. r + 1 \in 1..(Len(t) + 1) /\ e \in (r + 1 - 1)..Len(t)
  BY <1>1
<1>3. Len(w) = e - (r + 1) + 1
  BY <1>2, Part
<1>4. Len(w) = e - r
  BY <1>1, <1>3
<1>5. CASE i + L - 1 <= e - r
  <2>1. i \in 1..(e - (r + 1) + 2) /\ i + L - 1 \in (i - 1)..(e - (r + 1) + 1)
    BY <1>1, <1>5
  <2>2. SubSeq(w, i, i + L - 1) = SubSeq(t, (r + 1) + i - 1, (r + 1) + (i + L - 1) - 1)
    <3> HIDE DEF L
    <3> QED BY <1>2, <2>1, PartOfPart
  <2>3. (r + 1) + i - 1 = r + i /\ (r + 1) + (i + L - 1) - 1 = (r + i) + L - 1
    BY <1>1
  <2>4. SubSeq(w, i, i + L - 1) = SubSeq(t, r + i, (r + i) + L - 1)
    BY <2>2, <2>3
  <2>5. (r + i) + L - 1 <= Len(t)
    BY <1>1, <1>5
  <2>6. MarkerAt(w, i) <=> SubSeq(w, i, i + L - 1) = Marker
    <3> HIDE DEF w
    <3> QED BY <1>4, <1>5 DEF MarkerAt
  <2>7. MarkerAt(t, r + i) <=> SubSeq(t, r + i, (r + i) + L - 1) = Marker
    BY <2>5 DEF MarkerAt
  <2> QED BY <1>5, <2>4, <2>6, <2>7
<1>6. CASE ~(i + L - 1 <= e - r)
  <2> HIDE DEF w
  <2> QED BY <1>4, <1>6 DEF MarkerAt
<1> QED BY <1>5, <1>6

\* str.find returns the first position where the marker starts.
LEMMA FindFirst ==
  ASSUME NEW t \in Seq(Symbols), HasMarker(t)
  PROVE  /\ Find(t) \in 1..Len(t) /\ MarkerAt(t, Find(t))
         /\ \A j \in 1..(Find(t) - 1) : ~MarkerAt(t, j)
<1> DEFINE T == {i \in DOMAIN t : MarkerAt(t, i)}
           First(i) == MarkerAt(t, i) /\ \A j \in 1..(i - 1) : ~MarkerAt(t, j)
<1>1. DOMAIN t = 1..Len(t) /\ Len(t) \in Nat
  BY LenProperties
<1>2. T \in SUBSET Nat /\ T # {}
  BY <1>1 DEF HasMarker
<1>3. PICK i \in T : \A j \in T : i <= j
  <2> HIDE DEF T
  <2> QED BY <1>2, Least
<1>4. i \in DOMAIN t /\ MarkerAt(t, i) /\ i \in 1..Len(t)
  BY <1>1
<1>5. \A j \in 1..(i - 1) : ~MarkerAt(t, j)
  <2> SUFFICES ASSUME NEW j \in 1..(i - 1), MarkerAt(t, j) PROVE FALSE
    OBVIOUS
  <2>1. j \in T /\ j < i
    BY <1>1, <1>4
  <2>2. i <= j
    BY <1>3, <2>1
  <2> QED BY <1>4, <2>1, <2>2
<1>6. \E k \in DOMAIN t : First(k)
  BY <1>4, <1>5
<1>7. Find(t) \in DOMAIN t /\ First(Find(t))
  <2>1. Find(t) = CHOOSE k \in DOMAIN t : First(k)
    BY DEF Find
  <2> HIDE DEF First
  <2> QED BY <1>6, <2>1
<1> QED BY <1>1, <1>7

\* The first is the only first.
LEMMA FindIs ==
  ASSUME NEW t \in Seq(Symbols), NEW f \in 1..Len(t), MarkerAt(t, f),
         \A j \in 1..(f - 1) : ~MarkerAt(t, j)
  PROVE  HasMarker(t) /\ Find(t) = f
<1>1. DOMAIN t = 1..Len(t) /\ Len(t) \in Nat
  BY LenProperties
<1>2. HasMarker(t)
  BY <1>1 DEF HasMarker
<1>3. /\ Find(t) \in 1..Len(t) /\ MarkerAt(t, Find(t))
      /\ \A j \in 1..(Find(t) - 1) : ~MarkerAt(t, j)
  BY <1>2, FindFirst
<1>4. ~(Find(t) < f) /\ ~(f < Find(t))
  <2>1. Find(t) < f => Find(t) \in 1..(f - 1)
    BY <1>1, <1>3
  <2>2. f < Find(t) => f \in 1..(Find(t) - 1)
    BY <1>1, <1>3
  <2> QED BY <1>3, <2>1, <2>2
<1> QED BY <1>1, <1>2, <1>3, <1>4

\* rstrip keeps the beginning of its text that ends with the last word.
LEMMA StripRightIsPrefix ==
  ASSUME NEW t \in Seq(Symbols)
  PROVE  \E n \in 0..Len(t) : /\ StripRight(t) = UpTo(t, n)
                              /\ \A i \in Words(t) : i <= n
                              /\ n \in Words(t) \union {0}
<1> DEFINE Stops == Words(t) \union {0}
           Last(n) == (\A i \in Words(t) : i <= n) /\ n \in Stops
<1>1. DOMAIN t = 1..Len(t) /\ Len(t) \in Nat
  BY LenProperties
<1>2. Words(t) \subseteq 1..Len(t)
  BY <1>1 DEF Words
<1>3. Stops \in SUBSET Nat /\ Stops # {} /\ \A n \in Stops : n <= Len(t)
  <2> HIDE DEF Words
  <2> QED BY <1>1, <1>2
<1>4. PICK n \in Stops : \A i \in Stops : i <= n
  <2> HIDE DEF Stops
  <2> QED BY <1>1, <1>3, Greatest
<1>5. n \in 0..Len(t) /\ Last(n)
  BY <1>1, <1>3, <1>4
<1>6. (CHOOSE k \in 0..Len(t) : Last(k)) \in 0..Len(t) /\ Last(CHOOSE k \in 0..Len(t) : Last(k))
  <2> HIDE DEF Last
  <2> QED BY <1>5
<1>7. StripRight(t) = UpTo(t, CHOOSE k \in 0..Len(t) : Last(k))
  BY DEF StripRight
<1> QED BY <1>6, <1>7

-----------------------------------------------------------------------------
(* What is spoken *)

\* Before the marker is found, what was released and what is held back are what
\* was received; no marker starts in the released part, none ends in the received
\* part, and less than a marker is held back.  Afterwards, what was released lies
\* in front of the marker and holds every word there, and the label is what came
\* after the marker.
Extracted ==
  /\ raw \in Seq(Symbols) /\ released \in Seq(Symbols)
  /\ fed \in 0..Len(raw) /\ Len(released) \in 0..fed
  /\ released = SubSeq(raw, 1, Len(released))
  /\ found \in BOOLEAN
  /\ found =>
       /\ HasMarker(raw) /\ Len(released) < Find(raw)
       /\ \A i \in Words(raw) : i < Find(raw) => i <= Len(released)
       /\ Find(raw) + Len(Marker) - 1 <= fed
       /\ label = SubSeq(raw, Find(raw) + Len(Marker), fed)
  /\ ~found =>
       /\ pending = SubSeq(raw, Len(released) + 1, fed)
       /\ fed - Len(released) <= Len(Marker) - 1
       /\ \A i \in 1..Len(released) : ~MarkerAt(raw, i)
       /\ \A i \in 1..fed : i + Len(Marker) - 1 <= fed => ~MarkerAt(raw, i)

LEMMA ExtractedInit == Init => Extracted
<1> SUFFICES ASSUME Init PROVE Extracted
  OBVIOUS
<1>1. raw \in Seq(Symbols) /\ Len(raw) \in Nat /\ Len(Marker) \in Nat \ {0}
  BY TextAssumption, MarkerAssumption, LenProperties, EmptySeq DEF Init
<1>2. released = <<>> /\ pending = <<>> /\ fed = 0 /\ found = FALSE
  BY DEF Init
<1>3. <<>> \in Seq(Symbols) /\ Len(<<>>) = 0
  BY EmptySeq
<1>4. SubSeq(raw, 1, 0) = <<>>
  BY SubSeqEmpty
<1>5. Len(released) = 0 /\ released = SubSeq(raw, 1, Len(released))
  BY <1>2, <1>3, <1>4
<1>6. pending = SubSeq(raw, Len(released) + 1, fed)
  BY <1>2, <1>4, <1>5
<1>7. fed \in 0..Len(raw) /\ Len(released) \in 0..fed /\ released \in Seq(Symbols)
  BY <1>1, <1>2, <1>3, <1>5
<1>8. found \in BOOLEAN /\ ~found
  BY <1>2
<1>9. fed - Len(released) <= Len(Marker) - 1
  BY <1>1, <1>2, <1>5
<1>10. 1..Len(released) = {} /\ 1..fed = {}
  BY <1>2, <1>5
<1> QED BY <1>1, <1>5, <1>6, <1>7, <1>8, <1>9, <1>10 DEF Extracted

\* Releasing the next k symbols.
LEMMA Release ==
  ASSUME NEW t \in Seq(Symbols), NEW r \in 0..Len(t), NEW e \in r..Len(t), NEW k \in 0..(e - r)
  PROVE  /\ SubSeq(t, 1, r) \o UpTo(SubSeq(t, r + 1, e), k) = SubSeq(t, 1, r + k)
         /\ SubSeq(t, 1, r + k) \in Seq(Symbols)
         /\ Len(SubSeq(t, 1, r + k)) = r + k
         /\ From(SubSeq(t, r + 1, e), k + 1) = SubSeq(t, r + k + 1, e)
<1> DEFINE text == SubSeq(t, r + 1, e)
<1>1. Len(t) \in Nat
  BY LenProperties
<1>2. r + 1 \in 1..(Len(t) + 1) /\ e \in (r + 1 - 1)..Len(t)
  BY <1>1
<1>3. Len(text) = e - r
  <2>1. Len(text) = e - (r + 1) + 1
    BY <1>2, Part
  <2> QED BY <1>1, <2>1
<1>4. UpTo(text, k) = SubSeq(t, r + 1, r + k)
  <2>1. 1 \in 1..(e - (r + 1) + 2) /\ k \in (1 - 1)..(e - (r + 1) + 1)
    BY <1>1
  <2>2. SubSeq(text, 1, k) = SubSeq(t, (r + 1) + 1 - 1, (r + 1) + k - 1)
    BY <1>2, <2>1, PartOfPart
  <2>3. (r + 1) + 1 - 1 = r + 1 /\ (r + 1) + k - 1 = r + k
    BY <1>1
  <2> QED BY <2>2, <2>3 DEF UpTo
<1>5. From(text, k + 1) = SubSeq(t, r + k + 1, e)
  <2>1. k + 1 \in 1..(e - (r + 1) + 2) /\ e - r \in (k + 1 - 1)..(e - (r + 1) + 1)
    BY <1>1
  <2>2. SubSeq(text, k + 1, e - r) = SubSeq(t, (r + 1) + (k + 1) - 1, (r + 1) + (e - r) - 1)
    BY <1>2, <2>1, PartOfPart
  <2>3. (r + 1) + (k + 1) - 1 = r + k + 1 /\ (r + 1) + (e - r) - 1 = e
    BY <1>1
  <2> QED BY <1>3, <2>2, <2>3 DEF From
<1>6. SubSeq(t, 1, r) \o SubSeq(t, r + 1, r + k) = SubSeq(t, 1, r + k)
  <2>1. /\ 1 \in 1..(Len(t) + 1) /\ r \in (1 - 1)..Len(t) /\ r + k \in r..Len(t)
    BY <1>1
  <2> QED BY <2>1, Adjacent
<1>7. SubSeq(t, 1, r + k) \in Seq(Symbols) /\ Len(SubSeq(t, 1, r + k)) = r + k
  <2>1. 1 \in 1..(Len(t) + 1) /\ r + k \in (1 - 1)..Len(t)
    BY <1>1
  <2>2. Len(SubSeq(t, 1, r + k)) = r + k - 1 + 1 /\ SubSeq(t, 1, r + k) \in Seq(Symbols)
    BY <2>1, Part
  <2> QED BY <1>1, <2>2
<1> QED BY <1>4, <1>5, <1>6, <1>7

LEMMA FeedExtracts ==
  ASSUME Extracted, NEW n \in 1..(Len(raw) - fed), fed' = fed + n, UNCHANGED <<raw, result>>,
         LET delta == SubSeq(raw, fed + 1, fed + n)
         IN FeedLabel(delta) \/ FeedMarker(delta) \/ FeedText(delta)
  PROVE  Extracted'
<1> DEFINE delta == SubSeq(raw, fed + 1, fed + n)
           r == Len(released)
           e == fed + n
           text == pending \o delta
           L == Len(Marker)
<1>1. /\ raw \in Seq(Symbols) /\ Len(raw) \in Nat /\ fed \in 0..Len(raw) /\ r \in 0..fed
      /\ L \in Nat \ {0} /\ released = SubSeq(raw, 1, r) /\ released \in Seq(Symbols)
  BY LenProperties, EmptySeq, MarkerAssumption DEF Extracted
<1>2. e \in 0..Len(raw) /\ e \in r..Len(raw) /\ fed < e /\ r \in 0..Len(raw) /\ raw' = raw
  BY <1>1
<1>3. CASE FeedLabel(delta)
  <2>1. found /\ UNCHANGED <<pending, released, found>>
    BY <1>3 DEF FeedLabel
  <2> HIDE DEF delta, text, L, r
  <2>2. Len(released) \in 0..fed'
    BY <1>1, <1>2 DEF r
  <2> DEFINE h == Find(raw) + Len(Marker)
  <2>3. label' = SubSeq(raw, h, e) /\ h - 1 <= e
    <3>1. /\ label = SubSeq(raw, h, fed) /\ h - 1 <= fed /\ h \in Nat \ {0}
      BY <1>1, <2>1, FindFirst DEF Extracted, L
    <3>2. h \in 1..(Len(raw) + 1) /\ fed \in (h - 1)..Len(raw) /\ e \in fed..Len(raw)
      BY <1>1, <1>2, <3>1
    <3>3. label' = label \o SubSeq(raw, fed + 1, e)
      BY <1>3 DEF FeedLabel, delta
    <3> HIDE DEF h, e
    <3>4. h - 1 <= e
      BY <1>1, <3>1 DEF e
    <3> QED BY <1>1, <3>1, <3>2, <3>3, <3>4, Adjacent
  <2>4. /\ HasMarker(raw) /\ Len(released) < Find(raw)
        /\ \A i \in Words(raw) : i < Find(raw) => i <= Len(released)
    BY <2>1 DEF Extracted
  <2>5. found' /\ found' \in BOOLEAN /\ raw' = raw /\ released' = released /\ fed' = e
    BY <1>2, <2>1 DEF Extracted
  <2>6. released = SubSeq(raw, 1, Len(released)) /\ fed' \in 0..Len(raw)
    BY <1>1, <1>2 DEF r
  <2> HIDE DEF h, e
  <2>7. Find(raw) + Len(Marker) - 1 <= fed' /\ label' = SubSeq(raw, Find(raw) + Len(Marker), fed')
    <3>1. h - 1 <= fed' /\ label' = SubSeq(raw, h, fed')
      BY <2>3, <2>5
    <3>2. Find(raw) \in Nat /\ Len(Marker) \in Nat
      BY <1>1, <2>4, FindFirst DEF L
    <3> QED BY <3>1, <3>2 DEF h
  <2> QED BY <1>1, <2>2, <2>4, <2>5, <2>6, <2>7 DEF Extracted
<1>4. ASSUME ~found
      PROVE  /\ text = SubSeq(raw, r + 1, e) /\ Len(text) = e - r /\ DOMAIN text = 1..(e - r)
             /\ text \in Seq(Symbols)
             /\ \A i \in 1..(e - r) :
                  MarkerAt(text, i) <=> i + L - 1 <= e - r /\ MarkerAt(raw, r + i)
  <2>1. pending = SubSeq(raw, r + 1, fed)
    BY <1>4 DEF Extracted
  <2>2. SubSeq(raw, r + 1, fed) \o SubSeq(raw, fed + 1, e) = SubSeq(raw, r + 1, e)
    <3>1. /\ r + 1 \in 1..(Len(raw) + 1) /\ fed \in (r + 1 - 1)..Len(raw)
          /\ e \in fed..Len(raw)
      BY <1>1, <1>2
    <3> HIDE DEF r, e
    <3> QED BY <1>1, <3>1, Adjacent
  <2>3. text = SubSeq(raw, r + 1, e)
    BY <2>1, <2>2
  <2>4. r + 1 \in 1..(Len(raw) + 1) /\ e \in (r + 1 - 1)..Len(raw) /\ e - (r + 1) + 1 = e - r
    BY <1>1, <1>2
  <2>5. /\ SubSeq(raw, r + 1, e) \in Seq(Symbols)
        /\ Len(SubSeq(raw, r + 1, e)) = e - r
        /\ DOMAIN SubSeq(raw, r + 1, e) = 1..(e - r)
    <3> HIDE DEF r, e
    <3> QED BY <1>1, <2>4, Part
  <2>6. \A i \in 1..(e - r) :
          MarkerAt(SubSeq(raw, r + 1, e), i) <=> i + L - 1 <= e - r /\ MarkerAt(raw, r + i)
    <3> HIDE DEF r, e
    <3> QED BY <1>1, <1>2, MarkerInPart
  <2> HIDE DEF text, r, e, L
  <2> QED BY <2>3, <2>5, <2>6
<1>5. CASE FeedMarker(delta)
  <2> DEFINE f == Find(text)
  <2>1. /\ ~found /\ HasMarker(text) /\ found' = TRUE
        /\ released' = released \o StripRight(UpTo(text, f - 1))
        /\ label' = From(text, f + L)
    BY <1>5 DEF FeedMarker
  <2>2. /\ f \in 1..(e - r) /\ MarkerAt(text, f) /\ \A j \in 1..(f - 1) : ~MarkerAt(text, j)
        /\ text \in Seq(Symbols)
    <3> HIDE DEF text, r, e
    <3> QED BY <1>4, <2>1, FindFirst
  <2> HIDE DEF f
  <2>3. f - 1 \in 0..(e - r) /\ f \in Nat
    BY <1>1, <1>2, <2>2
  <2>4. MarkerAt(raw, r + f) /\ f + L - 1 <= e - r
    <3> HIDE DEF text, r, e, L
    <3> QED BY <1>4, <2>1, <2>2
  \* The marker in sight is the first of the completion.
  <2>5. \A j \in 1..(r + f - 1) : ~MarkerAt(raw, j)
    <3> SUFFICES ASSUME NEW j \in 1..(r + f - 1), MarkerAt(raw, j) PROVE FALSE
      OBVIOUS
    <3>1. CASE j <= r
      <4>1. j \in 1..Len(released)
        BY <1>1, <2>3, <3>1
      <4> QED BY <2>1, <4>1 DEF Extracted
    <3>2. CASE ~(j <= r)
      <4>1. /\ j - r \in 1..(f - 1) /\ j - r \in 1..(e - r) /\ r + (j - r) = j
            /\ (j - r) + L - 1 <= e - r
        BY <1>1, <1>2, <2>2, <2>3, <2>4, <3>2
      <4>2. MarkerAt(text, j - r)
        <5> HIDE DEF text, r, e, L
        <5> QED BY <1>4, <2>1, <4>1
      <4> QED BY <2>2, <4>1, <4>2
    <3> QED BY <3>1, <3>2
  <2>6. HasMarker(raw) /\ Find(raw) = r + f
    <3>1. r + f \in 1..Len(raw)
      BY <1>1, <1>2, <2>2
    <3> DEFINE g == r + f
    <3>2. g \in 1..Len(raw) /\ MarkerAt(raw, g) /\ \A j \in 1..(g - 1) : ~MarkerAt(raw, j)
      <4>1. g \in 1..Len(raw)
        BY <3>1
      <4>2. MarkerAt(raw, g)
        BY <2>4
      <4>3. \A j \in 1..(g - 1) : ~MarkerAt(raw, j)
        <5> TAKE j \in 1..(g - 1)
        <5>1. j \in 1..(r + f - 1)
          BY <1>1, <2>3
        <5> HIDE DEF g, r
        <5> QED BY <2>5, <5>1
      <4> QED BY <4>1, <4>2, <4>3
    <3> HIDE DEF g
    <3>3. HasMarker(raw) /\ Find(raw) = g
      BY <1>1, <3>2, FindIs
    <3> QED BY <3>3 DEF g
  <2>7. PICK k \in 0..(f - 1) : /\ StripRight(UpTo(text, f - 1)) = UpTo(text, k)
                               /\ \A i \in 1..(f - 1) : text[i] \notin Spaces => i <= k
    <3>1. /\ UpTo(text, f - 1) \in Seq(Symbols) /\ Len(UpTo(text, f - 1)) = f - 1
          /\ DOMAIN UpTo(text, f - 1) = 1..(f - 1)
          /\ \A i \in 1..(f - 1) : UpTo(text, f - 1)[i] = text[i]
      <4>1. 1 \in 1..(Len(text) + 1) /\ f - 1 \in (1 - 1)..Len(text) /\ f - 1 - 1 + 1 = f - 1
        BY <1>1, <1>2, <1>4, <2>1, <2>3
      <4>2. \A i \in 1..(f - 1) : 1 + i - 1 = i
        OBVIOUS
      <4> HIDE DEF text
      <4> QED BY <2>2, <4>1, <4>2, Part DEF UpTo
    <3>2. PICK k \in 0..(f - 1) : /\ StripRight(UpTo(text, f - 1)) = UpTo(UpTo(text, f - 1), k)
                                 /\ \A i \in Words(UpTo(text, f - 1)) : i <= k
      BY <3>1, StripRightIsPrefix
    <3>4. \A i \in 1..(f - 1) : text[i] \notin Spaces => i <= k
      <4> HIDE DEF text
      <4> QED BY <3>1, <3>2 DEF Words
    <3>3. UpTo(UpTo(text, f - 1), k) = UpTo(text, k)
      <4>1. /\ 1 \in 1..(Len(text) + 1) /\ f - 1 \in (1 - 1)..Len(text)
            /\ 1 \in 1..(f - 1 - 1 + 2) /\ k \in (1 - 1)..(f - 1 - 1 + 1)
            /\ 1 + 1 - 1 = 1 /\ 1 + k - 1 = k
        BY <1>1, <1>2, <1>4, <2>1, <2>3
      <4>2. SubSeq(SubSeq(text, 1, f - 1), 1, k) = SubSeq(text, 1 + 1 - 1, 1 + k - 1)
        <5> HIDE DEF text
        <5> QED BY <2>2, <4>1, PartOfPart
      <4> HIDE DEF text
      <4> QED BY <4>1, <4>2 DEF UpTo
    <3> QED BY <3>2, <3>3, <3>4
  <2>8. /\ released' = SubSeq(raw, 1, r + k) /\ released' \in Seq(Symbols)
        /\ Len(released') = r + k
    <3>1. k \in 0..(e - r)
      BY <1>1, <1>2, <2>2
    <3>2. released' = SubSeq(raw, 1, r) \o UpTo(SubSeq(raw, r + 1, e), k)
      <4> HIDE DEF r, e, text
      <4> QED BY <1>1, <1>4, <2>1, <2>7
    <3> HIDE DEF r, e, text, L, delta
    <3>3. raw \in Seq(Symbols) /\ r \in 0..Len(raw) /\ e \in r..Len(raw)
      BY <1>1, <1>2
    <3>4. /\ SubSeq(raw, 1, r) \o UpTo(SubSeq(raw, r + 1, e), k) = SubSeq(raw, 1, r + k)
          /\ SubSeq(raw, 1, r + k) \in Seq(Symbols)
          /\ Len(SubSeq(raw, 1, r + k)) = r + k
      BY <3>1, <3>3, Release
    <3> QED BY <3>2, <3>4
  <2>9. r + k \in 0..e /\ r + k < r + f
    BY <1>1, <1>2, <2>2, <2>3
  <2>10. \A i \in Words(raw) : i < r + f => i <= r + k
    <3> SUFFICES ASSUME NEW i \in Words(raw), i < r + f, ~(i <= r) PROVE i <= r + k
      <4>1. r \in Nat /\ k \in Nat /\ Words(raw) \in SUBSET Nat
        BY <1>1, LenProperties DEF Words
      <4> HIDE DEF r
      <4> QED BY <4>1
    <3>4. i \in 1..Len(raw) /\ raw[i] \notin Spaces
      BY <1>1, LenProperties DEF Words
    <3>1. i - r \in 1..(f - 1) /\ i - r \in 1..(e - r) /\ r + 1 + (i - r) - 1 = i
      BY <1>1, <1>2, <2>2, <2>3, <3>4
    <3>2. text[i - r] = raw[i]
      <4>1. /\ r + 1 \in 1..(Len(raw) + 1) /\ e \in (r + 1 - 1)..Len(raw)
            /\ i - r \in 1..(e - (r + 1) + 1)
        BY <1>1, <1>2, <3>1
      <4>2. text = SubSeq(raw, r + 1, e)
        BY <1>4, <2>1
      <4> HIDE DEF text, r, e
      <4> QED BY <1>1, <3>1, <4>1, <4>2, Part
    <3>3. i - r <= k
      <4> HIDE DEF text, r, e
      <4> QED BY <2>7, <3>1, <3>2, <3>4
    <3> QED BY <1>1, <3>3, <3>4
  <2>11. label' = SubSeq(raw, r + f + L, e) /\ r + f + L - 1 <= e
    <3>1. /\ r + 1 \in 1..(Len(raw) + 1) /\ e \in (r + 1 - 1)..Len(raw)
          /\ f + L \in 1..(e - (r + 1) + 2) /\ e - r \in ((f + L) - 1)..(e - (r + 1) + 1)
          /\ r + 1 + (f + L) - 1 = r + f + L /\ r + 1 + (e - r) - 1 = e
          /\ r + f + L - 1 <= e
      BY <1>1, <1>2, <2>2, <2>3, <2>4
    <3>2. SubSeq(SubSeq(raw, r + 1, e), f + L, e - r)
          = SubSeq(raw, r + 1 + (f + L) - 1, r + 1 + (e - r) - 1)
      <4> DEFINE a == r + 1
                 i == f + L
                 j == e - r
      <4> HIDE DEF r, e, L
      <4>1. /\ a \in 1..(Len(raw) + 1) /\ e \in (a - 1)..Len(raw)
            /\ i \in 1..(e - a + 2) /\ j \in (i - 1)..(e - a + 1)
        BY ONLY <3>1
      <4> HIDE DEF a, i, j
      <4>2. SubSeq(SubSeq(raw, a, e), i, j) = SubSeq(raw, a + i - 1, a + j - 1)
        BY <1>1, <4>1, PartOfPart
      <4> QED BY <4>2 DEF a, i, j
    <3>3. label' = SubSeq(SubSeq(raw, r + 1, e), f + L, e - r)
      <4> HIDE DEF text, r, e, L
      <4> QED BY <1>4, <2>1 DEF From
    <3> HIDE DEF text, r, e, L
    <3> QED BY <3>1, <3>2, <3>3
  <2> HIDE DEF r, text, delta
  <2>12. Find(raw) + Len(Marker) = r + f + L
    BY <2>6
  <2> HIDE DEF L
  <2>13. /\ Find(raw) + Len(Marker) - 1 <= fed'
         /\ label' = SubSeq(raw, Find(raw) + Len(Marker), fed')
    <3>1. fed' = e
      BY DEF e
    <3>2. Find(raw) \in Nat /\ Len(Marker) \in Nat /\ r \in Nat /\ e \in Nat
      BY <1>1, <1>2, <2>6, FindFirst DEF L
    <3> HIDE DEF e
    <3>3. label' = SubSeq(raw, Find(raw) + Len(Marker), e)
      BY <2>11, <2>12
    <3>4. Find(raw) + Len(Marker) - 1 <= e
      BY <2>3, <2>11, <2>12, <3>2 DEF L
    <3> QED BY <3>1, <3>3, <3>4
  <2>14. \A i \in Words(raw) : i < Find(raw) => i <= Len(released')
    BY <2>6, <2>8, <2>10
  <2> QED BY <1>1, <1>2, <2>1, <2>6, <2>8, <2>9, <2>13, <2>14 DEF Extracted
<1>6. CASE FeedText(delta)
  <2> DEFINE cut == IF Len(text) > HoldBack THEN Len(text) - HoldBack ELSE 0
  <2>1. /\ ~found /\ ~HasMarker(text) /\ released' = released \o UpTo(text, cut)
        /\ pending' = From(text, cut + 1) /\ found' = found
    BY <1>6 DEF FeedText
  <2>2. Len(text) = e - r /\ HoldBack = L - 1
    BY <1>4, <2>1 DEF HoldBack
  <2>3. /\ cut \in 0..(e - r)
        /\ cut = 0 \/ cut = e - r - (L - 1)
        /\ e - (r + cut) <= L - 1
    <3> HIDE DEF text, r, e, L
    <3> USE <1>1, <1>2, <2>2
    <3>1. e - r \in Nat /\ L - 1 \in Nat
      BY DEF r, e
    <3>2. CASE e - r > L - 1
      <4>1. cut = (e - r) - (L - 1)
        BY <3>2
      <4> QED BY <3>1, <3>2, <4>1 DEF r, e
    <3>3. CASE ~(e - r > L - 1)
      <4>1. cut = 0
        BY <3>3
      <4> QED BY <3>1, <3>3, <4>1 DEF r, e
    <3> QED BY <3>2, <3>3
  <2> HIDE DEF cut
  <2>4. /\ released' = SubSeq(raw, 1, r + cut) /\ released' \in Seq(Symbols)
        /\ Len(released') = r + cut /\ pending' = SubSeq(raw, r + cut + 1, e)
    <3>1. /\ released' = SubSeq(raw, 1, r) \o UpTo(SubSeq(raw, r + 1, e), cut)
          /\ pending' = From(SubSeq(raw, r + 1, e), cut + 1)
      <4> HIDE DEF r, e, text
      <4> QED BY <1>1, <1>4, <2>1
    <3> HIDE DEF r, e, text, L, delta
    <3>2. raw \in Seq(Symbols) /\ r \in 0..Len(raw) /\ e \in r..Len(raw) /\ cut \in 0..(e - r)
      BY <1>1, <1>2, <2>3
    <3>3. /\ SubSeq(raw, 1, r) \o UpTo(SubSeq(raw, r + 1, e), cut) = SubSeq(raw, 1, r + cut)
          /\ SubSeq(raw, 1, r + cut) \in Seq(Symbols)
          /\ Len(SubSeq(raw, 1, r + cut)) = r + cut
          /\ From(SubSeq(raw, r + 1, e), cut + 1) = SubSeq(raw, r + cut + 1, e)
      BY <3>2, Release
    <3> QED BY <3>1, <3>3
  \* No marker ends within what has been received.
  <2>5. \A i \in 1..e : i + L - 1 <= e => ~MarkerAt(raw, i)
    <3> SUFFICES ASSUME NEW i \in 1..e, i + L - 1 <= e, MarkerAt(raw, i) PROVE FALSE
      OBVIOUS
    <3>1. CASE i <= r
      <4>1. i \in 1..Len(released)
        BY <1>1, <3>1
      <4> QED BY <2>1, <4>1 DEF Extracted
    <3>2. CASE ~(i <= r)
      <4>1. i - r \in 1..(e - r) /\ r + (i - r) = i /\ (i - r) + L - 1 <= e - r
        BY <1>1, <1>2, <3>2
      <4>2. MarkerAt(text, i - r) /\ i - r \in DOMAIN text
        <5> HIDE DEF text, r, e, L
        <5> QED BY <1>4, <2>1, <4>1
      <4> QED BY <2>1, <4>2 DEF HasMarker
    <3> QED BY <3>1, <3>2
  \* So none starts in what is released.
  <2>6. \A i \in 1..(r + cut) : ~MarkerAt(raw, i)
    <3> SUFFICES ASSUME NEW i \in 1..(r + cut), MarkerAt(raw, i) PROVE FALSE
      OBVIOUS
    <3>1. CASE i <= r
      <4>1. i \in 1..Len(released)
        BY <1>1, <2>3, <3>1
      <4> QED BY <2>1, <4>1 DEF Extracted
    <3>2. CASE ~(i <= r)
      <4>1. i \in 1..e /\ i + L - 1 <= e
        BY <1>1, <1>2, <2>3, <3>2
      <4> QED BY <2>5, <4>1
    <3> QED BY <3>1, <3>2
  <2>7. r + cut \in 0..e
    BY <1>1, <1>2, <2>3
  <2> HIDE DEF r, text, delta
  <2> QED BY <1>1, <1>2, <2>1, <2>3, <2>4, <2>5, <2>6, <2>7 DEF Extracted
<1> QED BY <1>3, <1>5, <1>6

LEMMA ExtractedStep == Extracted /\ [Next]_vars => Extracted'
<1> SUFFICES ASSUME Extracted, [Next]_vars PROVE Extracted'
  OBVIOUS
<1>1. CASE Feed
  BY <1>1, FeedExtracts DEF Feed
<1>2. CASE Finalize
  <2>1. fed = Len(raw) /\ pending' = <<>> /\ UNCHANGED <<raw, fed, found, label>>
        /\ released' = IF found THEN released ELSE released \o pending
    BY <1>2 DEF Finalize
  <2>2. CASE found
    BY <2>1, <2>2 DEF Extracted
  <2>3. CASE ~found
    <3> DEFINE r == Len(released)
    <3>1. /\ raw \in Seq(Symbols) /\ Len(raw) \in Nat /\ r \in 0..Len(raw)
          /\ Len(Marker) \in Nat \ {0}
          /\ released = SubSeq(raw, 1, r) /\ pending = SubSeq(raw, r + 1, Len(raw))
          /\ \A i \in 1..fed : i + Len(Marker) - 1 <= fed => ~MarkerAt(raw, i)
      BY <2>1, <2>3, LenProperties, EmptySeq, MarkerAssumption DEF Extracted
    <3>2. released' = SubSeq(raw, 1, Len(raw))
      <4>1. /\ 1 \in 1..(Len(raw) + 1) /\ r \in (1 - 1)..Len(raw) /\ Len(raw) \in r..Len(raw)
        BY <3>1
      <4> HIDE DEF r
      <4> QED BY <2>1, <2>3, <3>1, <4>1, Adjacent
    <3>3. released' = raw
      BY <3>1, <3>2, SubSeqFull
    <3>4. \A i \in 1..Len(raw) : ~MarkerAt(raw, i)
      BY <2>1, <3>1 DEF MarkerAt
    <3>5. pending' = SubSeq(raw, Len(raw) + 1, Len(raw))
      BY <2>1, <3>1, SubSeqEmpty
    <3> HIDE DEF r
    <3>6. /\ Len(released') = Len(raw) /\ raw' = raw /\ fed' = Len(raw)
          /\ released' \in Seq(Symbols)
      BY <2>1, <3>1, <3>3
    <3>11. found' \in BOOLEAN /\ ~found'
      BY <2>1, <2>3 DEF Extracted
    <3>7. /\ fed' \in 0..Len(raw) /\ Len(released') \in 0..fed'
          /\ fed' - Len(released') <= Len(Marker) - 1
      BY <3>1, <3>6
    <3>8. /\ released' = SubSeq(raw, 1, Len(released'))
          /\ pending' = SubSeq(raw, Len(released') + 1, fed')
      BY <3>2, <3>5, <3>6
    <3>9. \A i \in 1..Len(released') : ~MarkerAt(raw, i)
      BY <3>4, <3>6
    <3>10. \A i \in 1..fed' : i + Len(Marker) - 1 <= fed' => ~MarkerAt(raw, i)
      BY <3>4, <3>6
    <3> QED BY <3>1, <3>6, <3>7, <3>8, <3>9, <3>10, <3>11 DEF Extracted
  <2> QED BY <2>2, <2>3
<1>3. CASE UNCHANGED vars
  BY <1>3 DEF vars, Extracted
<1> QED BY <1>1, <1>2, <1>3 DEF Next

LEMMA ExtractedHolds == Spec => []Extracted
BY ExtractedInit, ExtractedStep, PTL DEF Spec

\* Nothing but the reply is ever spoken: no part of a marker, however the deltas
\* cut it and whatever false starts precede it, for any marker and any text.
THEOREM MarkerIsNeverSpoken == Spec => []OnlySpeechIsSpoken
<1>1. Extracted => OnlySpeechIsSpoken
  <2> SUFFICES ASSUME Extracted PROVE OnlySpeechIsSpoken
    OBVIOUS
  <2> DEFINE r == Len(released)
  <2>1. /\ raw \in Seq(Symbols) /\ Len(raw) \in Nat /\ r \in 0..Len(raw) /\ fed \in 0..Len(raw)
        /\ released = SubSeq(raw, 1, r) /\ Len(Marker) \in Nat \ {0} /\ DOMAIN raw = 1..Len(raw)
    BY LenProperties, EmptySeq, MarkerAssumption DEF Extracted
  <2>2. CASE HasMarker(raw)
    <3>1. Find(raw) \in 1..Len(raw) /\ MarkerAt(raw, Find(raw))
      BY <2>1, <2>2, FindFirst
    <3>2. r < Find(raw)
      <4>1. CASE found
        BY <4>1 DEF Extracted
      <4>2. CASE ~found
        <5>1. ~(Find(raw) \in 1..Len(released))
          BY <3>1, <4>2 DEF Extracted
        <5> QED BY <2>1, <3>1, <5>1
      <4> QED BY <4>1, <4>2
    <3>3. Speech = SubSeq(raw, 1, Find(raw) - 1)
      BY <2>2 DEF Speech, UpTo
    <3>4. 1 \in 1..(Len(raw) + 1) /\ Find(raw) - 1 \in (1 - 1)..Len(raw)
          /\ Find(raw) - 1 - 1 + 1 = Find(raw) - 1
      BY <2>1, <3>1
    <3>5. Len(Speech) = Find(raw) - 1
      BY <2>1, <3>3, <3>4, Part
    <3>6. SubSeq(Speech, 1, r) = SubSeq(raw, 1, r)
      <4>1. /\ 1 \in 1..(Find(raw) - 1 - 1 + 2) /\ r \in (1 - 1)..(Find(raw) - 1 - 1 + 1)
            /\ 1 + 1 - 1 = 1 /\ 1 + r - 1 = r
        BY <2>1, <3>1, <3>2
      <4>2. SubSeq(SubSeq(raw, 1, Find(raw) - 1), 1, r) = SubSeq(raw, 1 + 1 - 1, 1 + r - 1)
        <5> HIDE DEF r
        <5> QED BY <2>1, <3>4, <4>1, PartOfPart
      <4> HIDE DEF r
      <4> QED BY <3>3, <4>1, <4>2
    <3>7. r <= Len(Speech)
      BY <2>1, <3>1, <3>2, <3>5
    <3> QED BY <2>1, <3>6, <3>7 DEF OnlySpeechIsSpoken, UpTo
  <2>3. CASE ~HasMarker(raw)
    BY <2>1, <2>3 DEF OnlySpeechIsSpoken, Speech, UpTo
  <2> QED BY <2>2, <2>3
<1> QED BY <1>1, ExtractedHolds, PTL

\* The speech synthesis waits for at most one symbol less than a marker.
THEOREM LittleIsHeldBack == Spec => []SpokenPromptly
<1>1. Extracted => SpokenPromptly
  BY DEF Extracted, SpokenPromptly
<1> QED BY <1>1, ExtractedHolds, PTL
-----------------------------------------------------------------------------
(* The two readers *)

\* strip keeps what lies from the first word to the last.
LEMMA StripIs ==
  ASSUME NEW t \in Seq(Symbols), Words(t) # {}
  PROVE  \E f \in Words(t), l \in Words(t) :
           /\ \A i \in Words(t) : f <= i /\ i <= l
           /\ Strip(t) = SubSeq(t, f, l)
<1>1. DOMAIN t = 1..Len(t) /\ Len(t) \in Nat /\ Words(t) \in SUBSET Nat
      /\ Words(t) \subseteq 1..Len(t)
  BY LenProperties DEF Words
<1>2. PICK f \in Words(t) : \A i \in Words(t) : f <= i
  BY <1>1, Least
<1> DEFINE Starts(n) == (\A i \in Words(t) : n <= i) /\ n \in Words(t) \union {Len(t) + 1}
           u == StripLeft(t)
<1>3. u = SubSeq(t, f, Len(t))
  <2>1. f \in 1..(Len(t) + 1) /\ Starts(f)
    BY <1>1, <1>2
  <2>2. \A n \in 1..(Len(t) + 1) : Starts(n) => n = f
    <3> SUFFICES ASSUME NEW n \in 1..(Len(t) + 1), Starts(n) PROVE n = f
      OBVIOUS
    <3>1. n <= f /\ n \in Words(t)
      BY <1>1
    <3> QED BY <1>1, <1>2, <3>1
  <2>3. (CHOOSE n \in 1..(Len(t) + 1) : Starts(n)) = f
    <3> HIDE DEF Starts
    <3> QED BY <2>1, <2>2
  <2> QED BY <2>3 DEF StripLeft, From
<1>4. /\ u \in Seq(Symbols) /\ Len(u) = Len(t) - f + 1 /\ DOMAIN u = 1..(Len(t) - f + 1)
      /\ \A i \in 1..(Len(t) - f + 1) : u[i] = t[f + i - 1]
  <2>1. f \in 1..(Len(t) + 1) /\ Len(t) \in (f - 1)..Len(t)
    BY <1>1
  <2> HIDE DEF u
  <2> QED BY <1>3, <2>1, Part
<1> HIDE DEF u
<1>5. PICK n \in 0..Len(u) : /\ StripRight(u) = UpTo(u, n)
                             /\ \A i \in Words(u) : i <= n
                             /\ n \in Words(u) \union {0}
  BY <1>4, StripRightIsPrefix
<1>6. \A i \in Words(t) : i - f + 1 \in Words(u)
  <2> SUFFICES ASSUME NEW i \in Words(t) PROVE i - f + 1 \in Words(u)
    OBVIOUS
  <2>1. i - f + 1 \in 1..(Len(t) - f + 1) /\ f + (i - f + 1) - 1 = i /\ t[i] \notin Spaces
    BY <1>1, <1>2 DEF Words
  <2> QED BY <1>4, <2>1 DEF Words
<1>7. n # 0
  BY <1>1, <1>2, <1>5, <1>6
<1> DEFINE l == f + n - 1
<1>8. l \in Words(t)
  <2>1. n \in 1..(Len(t) - f + 1) /\ u[n] \notin Spaces
    BY <1>4, <1>5, <1>7 DEF Words
  <2>2. l \in 1..Len(t) /\ t[l] \notin Spaces
    BY <1>1, <1>4, <2>1
  <2> QED BY <1>1, <2>2 DEF Words
<1>9. \A i \in Words(t) : i <= l
  <2> SUFFICES ASSUME NEW i \in Words(t) PROVE i <= l
    OBVIOUS
  <2>1. i - f + 1 <= n
    BY <1>5, <1>6
  <2> QED BY <1>1, <1>2, <1>5, <2>1
<1>10. UpTo(u, n) = SubSeq(t, f, l)
  <2>1. /\ f \in 1..(Len(t) + 1) /\ Len(t) \in (f - 1)..Len(t)
        /\ 1 \in 1..(Len(t) - f + 2) /\ n \in (1 - 1)..(Len(t) - f + 1)
        /\ f + 1 - 1 = f
    BY <1>1, <1>4, <1>5
  <2>2. SubSeq(SubSeq(t, f, Len(t)), 1, n) = SubSeq(t, f + 1 - 1, f + n - 1)
    BY <2>1, PartOfPart
  <2> QED BY <1>3, <2>1, <2>2 DEF UpTo
<1>11. Strip(t) = SubSeq(t, f, l)
  BY <1>5, <1>10 DEF Strip, u
<1> HIDE DEF l
<1> QED BY <1>2, <1>8, <1>9, <1>11

\* Without words nothing is left.
LEMMA StripBlank ==
  ASSUME NEW t, Words(t) = {}
  PROVE  Strip(t) = StripRight(<<>>)
BY DEF Strip

LEMMA StripNothing == StripRight(<<>>) = <<>>
<1>1. <<>> \in Seq(Symbols) /\ Len(<<>>) = 0
  BY EmptySeq
<1>2. PICK n \in 0..0 : StripRight(<<>>) = UpTo(<<>>, n)
  BY <1>1, StripRightIsPrefix
<1>3. n = 0 /\ 1 \in 1..(Len(<<>>) + 1) /\ n \in (1 - 1)..Len(<<>>) /\ n - 1 + 1 = 0
  BY <1>1, <1>2
<1>4. UpTo(<<>>, n) \in Seq(Symbols) /\ Len(UpTo(<<>>, n)) = 0
  BY <1>1, <1>3, Part DEF UpTo
<1> QED BY <1>2, <1>4, EmptySeq

LEMMA StripWords ==
  ASSUME NEW t \in Seq(Symbols), Words(t) # {}
  PROVE  Strip(t) # <<>>
<1>1. PICK f \in Words(t), l \in Words(t) :
        (\A i \in Words(t) : f <= i /\ i <= l) /\ Strip(t) = SubSeq(t, f, l)
  BY StripIs
<1>2. Len(t) \in Nat /\ f \in 1..Len(t) /\ l \in 1..Len(t) /\ f <= l
  BY <1>1, LenProperties DEF Words
<1>3. f \in 1..(Len(t) + 1) /\ l \in (f - 1)..Len(t) /\ l - f + 1 > 0
  BY <1>2
<1>4. Len(Strip(t)) > 0
  BY <1>1, <1>3, Part
<1> QED BY <1>4, EmptySeq

\* The beginning of a text that holds all its words is stripped to the same.
LEMMA StripPrefix ==
  ASSUME NEW t \in Seq(Symbols), NEW k \in 0..Len(t), \A i \in Words(t) : i <= k
  PROVE  Strip(UpTo(t, k)) = Strip(t)
<1> DEFINE s == UpTo(t, k)
<1>1. Len(t) \in Nat /\ DOMAIN t = 1..Len(t)
  BY LenProperties
<1>2. /\ s \in Seq(Symbols) /\ Len(s) = k /\ DOMAIN s = 1..k
      /\ \A i \in 1..k : s[i] = t[i]
  <2>1. /\ 1 \in 1..(Len(t) + 1) /\ k \in (1 - 1)..Len(t) /\ k - 1 + 1 = k
        /\ \A i \in 1..k : 1 + i - 1 = i
    BY <1>1
  <2>2. /\ SubSeq(t, 1, k) \in Seq(Symbols) /\ Len(SubSeq(t, 1, k)) = k - 1 + 1
        /\ DOMAIN SubSeq(t, 1, k) = 1..(k - 1 + 1)
        /\ \A i \in 1..(k - 1 + 1) : SubSeq(t, 1, k)[i] = t[1 + i - 1]
    BY <2>1, Part
  <2> QED BY <2>1, <2>2 DEF UpTo
<1> HIDE DEF s
<1>3. Words(s) = Words(t)
  BY <1>1, <1>2 DEF Words
<1>4. CASE Words(t) = {}
  BY <1>3, <1>4, StripBlank DEF s
<1>5. CASE Words(t) # {}
  <2>1. PICK f \in Words(t), l \in Words(t) :
          /\ \A i \in Words(t) : f <= i /\ i <= l
          /\ Strip(t) = SubSeq(t, f, l)
    BY <1>5, StripIs
  <2>2. PICK g \in Words(t), m \in Words(t) :
          /\ \A i \in Words(t) : g <= i /\ i <= m
          /\ Strip(s) = SubSeq(s, g, m)
    BY <1>2, <1>3, <1>5, StripIs
  <2>3. Words(t) \in SUBSET (1..Len(t))
    BY <1>1 DEF Words
  <2>4. f = g /\ l = m /\ f \in 1..k /\ l \in 1..k /\ f <= l
    BY <1>1, <2>1, <2>2, <2>3
  <2>5. SubSeq(s, f, l) = SubSeq(t, f, l)
    <3>1. /\ 1 \in 1..(Len(t) + 1) /\ k \in (1 - 1)..Len(t)
          /\ f \in 1..(k - 1 + 2) /\ l \in (f - 1)..(k - 1 + 1)
          /\ 1 + f - 1 = f /\ 1 + l - 1 = l
      BY <1>1, <2>4
    <3>2. SubSeq(SubSeq(t, 1, k), f, l) = SubSeq(t, 1 + f - 1, 1 + l - 1)
      BY <3>1, PartOfPart
    <3> QED BY <3>1, <3>2 DEF s, UpTo
  <2> QED BY <2>1, <2>2, <2>4, <2>5 DEF s
<1> QED BY <1>4, <1>5

\* What finalize returned is what was released, all of the text when no marker was.
ResultInv ==
  Finished =>
    /\ fed = Len(raw) /\ result.text = released
    /\ result.intent = IF found THEN IntentOf(label) ELSE General
    /\ ~found => released = raw

LEMMA ResultStep == Extracted /\ ResultInv /\ [Next]_vars => ResultInv'
<1> SUFFICES ASSUME Extracted, ResultInv, [Next]_vars PROVE ResultInv'
  OBVIOUS
<1>1. CASE Feed
  <2>1. PICK n \in 1..(Len(raw) - fed) : UNCHANGED <<raw, result>>
    BY <1>1 DEF Feed
  <2>2. Len(raw) \in Nat /\ fed \in 0..Len(raw) /\ Len(raw) - fed >= 1
    BY LenProperties DEF Extracted
  <2>3. ~Finished
    BY <2>2 DEF ResultInv
  <2> QED BY <2>1, <2>3 DEF ResultInv, Finished
<1>2. CASE Finalize
  <2>1. /\ fed = Len(raw) /\ UNCHANGED <<raw, fed, found, label>>
        /\ released' = IF found THEN released ELSE released \o pending
        /\ result'.text = released'
        /\ result'.intent = IF found THEN IntentOf(label) ELSE General
    BY <1>2 DEF Finalize
  <2>2. ~found' => released' = raw'
    <3> SUFFICES ASSUME ~found PROVE released' = raw
      BY <2>1
    <3> DEFINE r == Len(released)
    <3>1. /\ raw \in Seq(Symbols) /\ Len(raw) \in Nat /\ r \in 0..Len(raw)
          /\ released = SubSeq(raw, 1, r) /\ pending = SubSeq(raw, r + 1, Len(raw))
      BY <2>1, LenProperties DEF Extracted
    <3>2. /\ 1 \in 1..(Len(raw) + 1) /\ r \in (1 - 1)..Len(raw) /\ Len(raw) \in r..Len(raw)
      BY <3>1
    <3> HIDE DEF r
    <3>3. released' = SubSeq(raw, 1, Len(raw))
      BY <2>1, <3>1, <3>2, Adjacent
    <3> QED BY <3>1, <3>3, SubSeqFull
  <2> QED BY <2>1, <2>2 DEF ResultInv, IntentOf
<1>3. CASE UNCHANGED vars
  BY <1>3 DEF vars, ResultInv, Finished, IntentOf
<1> QED BY <1>1, <1>2, <1>3 DEF Next

LEMMA ResultInit == Init => ResultInv
BY DEF Init, ResultInv, Finished

\* What a text is up to its marker, and all of it when it has none.
LEMMA SpeechType ==
  ASSUME raw \in Seq(Symbols)
  PROVE  Speech \in Seq(Symbols)
<1>1. CASE HasMarker(raw)
  <2>1. Find(raw) \in 1..Len(raw) /\ Len(raw) \in Nat
    BY <1>1, FindFirst, LenProperties
  <2>2. 1 \in 1..(Len(raw) + 1) /\ Find(raw) - 1 \in (1 - 1)..Len(raw)
    BY <2>1
  <2> QED BY <1>1, <2>2, Part DEF Speech, UpTo
<1>2. CASE ~HasMarker(raw)
  BY <1>2 DEF Speech
<1> QED BY <1>1, <1>2

LEMMA AgreeWhenFinished == Extracted /\ ResultInv => ReadersAgree
<1> SUFFICES ASSUME Extracted, ResultInv, Finished
             PROVE  /\ result.intent = Parse(raw).intent
                    /\ Strip(Speech) # <<>> => Strip(released) = Parse(raw).text
  BY DEF ReadersAgree, ResultInv
<1>1. /\ raw \in Seq(Symbols) /\ Len(raw) \in Nat /\ fed = Len(raw) /\ DOMAIN raw = 1..Len(raw)
      /\ released = SubSeq(raw, 1, Len(released)) /\ Len(released) \in 0..Len(raw)
      /\ Len(Marker) \in Nat \ {0}
  BY LenProperties, EmptySeq, MarkerAssumption DEF Extracted, ResultInv
<1>2. found <=> HasMarker(raw)
  <2>1. ASSUME ~found, HasMarker(raw) PROVE FALSE
    <3>1. PICK i \in 1..Len(raw) : MarkerAt(raw, i)
      BY <1>1, <2>1 DEF HasMarker
    <3>2. i + Len(Marker) - 1 <= fed
      BY <1>1, <3>1 DEF MarkerAt
    <3> QED BY <1>1, <2>1, <3>1, <3>2 DEF Extracted
  <2> QED BY <2>1 DEF Extracted
<1>3. CASE ~HasMarker(raw)
  BY <1>2, <1>3 DEF Parse, Speech, ResultInv
<1>4. CASE HasMarker(raw)
  <2> DEFINE f == Find(raw)
  <2>1. f \in 1..Len(raw) /\ Speech = SubSeq(raw, 1, f - 1)
    BY <1>1, <1>4, FindFirst DEF Speech, UpTo
  <2>2. /\ Len(released) < f /\ label = SubSeq(raw, f + Len(Marker), Len(raw))
        /\ \A i \in Words(raw) : i < f => i <= Len(released)
    BY <1>1, <1>2, <1>4 DEF Extracted
  <2>3. result.intent = Parse(raw).intent
    BY <1>2, <1>4, <2>2 DEF ResultInv, Parse, From
  <2> HIDE DEF f
  <2>4. /\ Speech \in Seq(Symbols) /\ Len(Speech) = f - 1 /\ DOMAIN Speech = 1..(f - 1)
        /\ \A i \in 1..(f - 1) : Speech[i] = raw[i]
    <3>1. /\ 1 \in 1..(Len(raw) + 1) /\ f - 1 \in (1 - 1)..Len(raw) /\ f - 1 - 1 + 1 = f - 1
          /\ \A i \in 1..(f - 1) : 1 + i - 1 = i
      BY <1>1, <2>1
    <3> QED BY <1>1, <2>1, <3>1, Part
  <2> DEFINE r == Len(released)
  <2>5. r \in 0..Len(Speech) /\ \A i \in Words(Speech) : i <= r
    <3>1. \A i \in Words(Speech) : i \in Words(raw) /\ i < f
      BY <1>1, <2>1, <2>4 DEF Words
    <3> QED BY <1>1, <2>1, <2>2, <2>4, <3>1
  <2>6. released = UpTo(Speech, r)
    <3>1. /\ 1 \in 1..(Len(raw) + 1) /\ f - 1 \in (1 - 1)..Len(raw)
          /\ 1 \in 1..(f - 1 - 1 + 2) /\ r \in (1 - 1)..(f - 1 - 1 + 1)
          /\ 1 + 1 - 1 = 1 /\ 1 + r - 1 = r
      BY <1>1, <2>1, <2>4, <2>5
    <3> HIDE DEF r
    <3>2. SubSeq(SubSeq(raw, 1, f - 1), 1, r) = SubSeq(raw, 1 + 1 - 1, 1 + r - 1)
      BY <1>1, <3>1, PartOfPart
    <3>3. UpTo(Speech, r) = SubSeq(raw, 1, r)
      BY <2>1, <3>1, <3>2 DEF UpTo
    <3> QED BY <1>1, <3>3 DEF r
  <2> HIDE DEF r
  <2>7. Strip(released) = Strip(Speech)
    BY <2>4, <2>5, <2>6, StripPrefix
  <2>8. Strip(Speech) # <<>> => Parse(raw).text = Strip(Speech)
    BY <1>4 DEF Parse, Speech
  <2> QED BY <2>3, <2>7, <2>8
<1> QED BY <1>3, <1>4

\* The streaming reader and parse_structured_reply read the same intent, and the
\* same text up to blanks around it, from any completion, cut anywhere: the whole
\* label comes in, and no word in front of the marker is left behind.
THEOREM ReadersAlwaysAgree == Spec => []ReadersAgree
BY ExtractedHolds, ResultInit, ResultStep, AgreeWhenFinished, PTL DEF Spec

-----------------------------------------------------------------------------
(* Values in order *)

\* The elements of a set of naturals are ranked from 1 to as many as there are.
LEMMA Ranks ==
  ASSUME NEW S \in SUBSET Nat, IsFiniteSet(S)
  PROVE  /\ Cardinality(S) \in Nat
         /\ \A i \in S : Rank(S, i) \in 1..Cardinality(S)
         /\ \A i, j \in S : i < j => Rank(S, i) < Rank(S, j)
         /\ \A i, j \in S : Rank(S, i) = Rank(S, j) => i = j
         /\ \A k \in 1..Cardinality(S) : \E i \in S : Rank(S, i) = k
<1> DEFINE Upto(i) == {j \in S : j <= i}
           n == Cardinality(S)
           rank == [i \in S |-> Rank(S, i)]
<1>1. n \in Nat
  BY FS_CardinalityType
<1>2. \A i : IsFiniteSet(Upto(i)) /\ Cardinality(Upto(i)) \in Nat /\ Cardinality(Upto(i)) <= n
  <2> SUFFICES ASSUME NEW i
               PROVE  IsFiniteSet(Upto(i)) /\ Cardinality(Upto(i)) \in Nat /\ Cardinality(Upto(i)) <= n
    OBVIOUS
  <2>1. Upto(i) \in SUBSET S
    OBVIOUS
  <2> HIDE DEF Upto
  <2> QED BY <2>1, FS_Subset, FS_CardinalityType
<1>3. \A i \in S : Cardinality(Upto(i)) # 0
  <2> SUFFICES ASSUME NEW i \in S PROVE Cardinality(Upto(i)) # 0
    OBVIOUS
  <2>1. i \in Upto(i)
    OBVIOUS
  <2> HIDE DEF Upto
  <2> QED BY <1>2, <2>1, FS_EmptySet
<1>4. \A i, j \in S : i < j => Cardinality(Upto(i)) < Cardinality(Upto(j))
  <2> SUFFICES ASSUME NEW i \in S, NEW j \in S, i < j
               PROVE  Cardinality(Upto(i)) < Cardinality(Upto(j))
    OBVIOUS
  <2>0. i \in Nat /\ j \in Nat /\ \A k \in S : k \in Nat /\ (k <= i => k <= j)
    OBVIOUS
  <2>1. Upto(i) \in SUBSET Upto(j)
    BY <2>0
  <2>2. j \in Upto(j) /\ j \notin Upto(i)
    BY <2>0
  <2>3. Upto(i) # Upto(j)
    BY <2>2
  <2> HIDE DEF Upto
  <2>4. Cardinality(Upto(i)) <= Cardinality(Upto(j)) /\ Cardinality(Upto(i)) # Cardinality(Upto(j))
    BY <1>2, <2>1, <2>3, FS_Subset
  <2> QED BY <1>2, <2>4
<1>5. \A i : Rank(S, i) = Cardinality(Upto(i))
  BY DEF Rank
<1> HIDE DEF Upto
<1>6. \A i \in S : Rank(S, i) \in 1..n
  BY <1>1, <1>2, <1>3, <1>5
<1>7. \A i, j \in S : i < j => Rank(S, i) < Rank(S, j)
  BY <1>4, <1>5
<1>8. \A i, j \in S : Rank(S, i) = Rank(S, j) => i = j
  <2> SUFFICES ASSUME NEW i \in S, NEW j \in S, Rank(S, i) = Rank(S, j) PROVE i = j
    OBVIOUS
  <2>1. i \in Nat /\ j \in Nat /\ Rank(S, i) \in Nat /\ Rank(S, j) \in Nat
    BY <1>6
  <2>2. ~(i < j) /\ ~(j < i)
    BY <1>7, <2>1
  <2> QED BY <2>1, <2>2
<1>9. rank \in Surjection(S, 1..n)
  <2>1. rank \in [S -> 1..n] /\ \A a, b \in S : rank[a] = rank[b] => a = b
    BY <1>6, <1>8
  <2> HIDE DEF rank
  <2>2. rank \in Injection(S, 1..n)
    BY <2>1, Fun_IsInj
  <2>3. IsFiniteSet(1..n) /\ Cardinality(1..n) = n
    <3>1. 1 \in Int /\ n \in Int
      BY <1>1
    <3>2. IsFiniteSet(1..n) /\ Cardinality(1..n) = IF 1 > n THEN 0 ELSE n - 1 + 1
      <4> HIDE DEF n
      <4> QED BY <3>1, FS_Interval
    <3> QED BY <1>1, <3>2
  <2> QED BY <2>2, <2>3, FS_Injection
<1>10. \A k \in 1..n : \E i \in S : Rank(S, i) = k
  <2>1. \A k \in 1..n : \E i \in S : rank[i] = k
    BY <1>9, Fun_SurjectionProperties DEF Surjection
  <2> QED BY <2>1
<1> QED BY <1>1, <1>6, <1>7, <1>8, <1>10

\* The values of a function in order are the sequence with each at its argument's rank.
LEMMA InOrderIs ==
  ASSUME NEW S \in SUBSET Nat, IsFiniteSet(S), NEW V, NEW f \in [S -> V]
  PROVE  /\ InOrder(f) \in Seq(V) /\ Len(InOrder(f)) = Cardinality(S)
         /\ \A i \in S : InOrder(f)[Rank(S, i)] = f[i]
<1> DEFINE n == Cardinality(S)
           At(k) == CHOOSE i \in S : Rank(S, i) = k
<1>1. InOrder(f) = [k \in 1..n |-> f[At(k)]]
  BY DEF InOrder
<1>2. \A k \in 1..n : At(k) \in S
  BY Ranks
<1>3. \A i \in S : At(Rank(S, i)) = i /\ Rank(S, i) \in 1..n
  BY Ranks
<1>4. n \in Nat
  BY Ranks
<1> HIDE DEF At, n
<1>5. InOrder(f) \in [1..n -> V]
  BY <1>1, <1>2
<1>6. InOrder(f) \in Seq(V) /\ Len(InOrder(f)) = n
  <2>1. InOrder(f) \in Seq(V)
    BY <1>4, <1>5, SeqDef
  <2>2. 1..n = 1..Len(InOrder(f)) /\ Len(InOrder(f)) \in Nat
    BY <1>5, <2>1, LenProperties
  <2> QED BY <1>4, <2>1, <2>2
<1> QED BY <1>1, <1>3, <1>6 DEF n

LEMMA OnlyInOrder ==
  ASSUME NEW S \in SUBSET Nat, IsFiniteSet(S), NEW V, NEW f \in [S -> V],
         NEW g \in Seq(V), Len(g) = Cardinality(S), \A i \in S : g[Rank(S, i)] = f[i]
  PROVE  g = InOrder(f)
<1>1. /\ InOrder(f) \in Seq(V) /\ Len(InOrder(f)) = Cardinality(S)
      /\ \A i \in S : InOrder(f)[Rank(S, i)] = f[i]
  BY InOrderIs
<1>2. \A k \in 1..Cardinality(S) : g[k] = InOrder(f)[k]
  BY <1>1, Ranks
<1> QED BY <1>1, <1>2, SeqEqual

\* In order are first the values at the smaller arguments, then those at the others.
Joins(V, f, S, a, T, b) ==
  /\ S \in SUBSET Nat /\ IsFiniteSet(S) /\ T \in SUBSET Nat /\ IsFiniteSet(T)
  /\ a \in [S -> V] /\ b \in [T -> V] /\ f \in [S \union T -> V]
  /\ \A i \in S, j \in T : i < j
  /\ \A i \in S : f[i] = a[i]
  /\ \A i \in T : f[i] = b[i]

LEMMA InOrderSplit ==
  ASSUME NEW V, NEW f, NEW S, NEW a, NEW T, NEW b, Joins(V, f, S, a, T, b)
  PROVE  InOrder(f) = InOrder(a) \o InOrder(b)
<1> DEFINE R == S \union T
           low == InOrder(a)
           high == InOrder(b)
<1>0. /\ S \in SUBSET Nat /\ IsFiniteSet(S) /\ T \in SUBSET Nat /\ IsFiniteSet(T)
      /\ a \in [S -> V] /\ b \in [T -> V] /\ f \in [S \union T -> V]
      /\ \A i \in S, j \in T : i < j
      /\ \A i \in S : f[i] = a[i]
      /\ \A i \in T : f[i] = b[i]
  BY DEF Joins
<1>1. IsFiniteSet(R) /\ R \in SUBSET Nat /\ Cardinality(R) = Cardinality(S) + Cardinality(T)
  <2>1. S \cap T = {}
    <3> SUFFICES ASSUME NEW i \in S, i \in T PROVE FALSE
      OBVIOUS
    <3>1. i < i /\ i \in Nat
      BY <1>0
    <3> QED BY <1>0, <3>1
  <2>2. Cardinality(S) \in Nat /\ Cardinality(T) \in Nat
    BY <1>0, FS_CardinalityType
  <2>3. /\ IsFiniteSet(S \union T)
        /\ Cardinality(S \union T) = Cardinality(S) + Cardinality(T) - Cardinality({})
    BY <1>0, <2>1, FS_Union
  <2> QED BY <1>0, <2>2, <2>3, FS_EmptySet
<1>2. /\ low \in Seq(V) /\ Len(low) = Cardinality(S)
      /\ \A i \in S : low[Rank(S, i)] = f[i]
  BY <1>0, InOrderIs
<1>3. /\ high \in Seq(V) /\ Len(high) = Cardinality(T)
      /\ \A i \in T : high[Rank(T, i)] = f[i]
  BY <1>0, InOrderIs
<1>4. \A i \in S : Rank(R, i) = Rank(S, i)
  <2> SUFFICES ASSUME NEW i \in S PROVE Rank(R, i) = Rank(S, i)
    OBVIOUS
  <2>1. \A j \in T : ~(j <= i)
    <3> SUFFICES ASSUME NEW j \in T PROVE ~(j <= i)
      OBVIOUS
    <3>1. i \in Nat /\ j \in Nat /\ i < j
      BY <1>0
    <3> QED BY <1>0, <3>1
  <2>2. {j \in R : j <= i} = {j \in S : j <= i}
    BY <1>0, <2>1
  <2> QED BY <1>0, <2>2 DEF Rank
<1>5. \A i \in T : Rank(R, i) = Cardinality(S) + Rank(T, i)
  <2> SUFFICES ASSUME NEW i \in T PROVE Rank(R, i) = Cardinality(S) + Rank(T, i)
    OBVIOUS
  <2> DEFINE U == {j \in T : j <= i}
  <2>1. \A j \in S : j <= i
    <3> SUFFICES ASSUME NEW j \in S PROVE j <= i
      OBVIOUS
    <3>1. i \in Nat /\ j \in Nat /\ j < i
      BY <1>0
    <3> QED BY <1>0, <3>1
  <2>2. {j \in R : j <= i} = S \union U
    BY <1>0, <2>1
  <2>3. S \cap U = {}
    <3> SUFFICES ASSUME NEW k \in S, k \in T PROVE FALSE
      OBVIOUS
    <3>1. k < k /\ k \in Nat
      BY <1>0
    <3> QED BY <1>0, <3>1
  <2>4. U \in SUBSET T
    OBVIOUS
  <2> HIDE DEF U
  <2>5. IsFiniteSet(U) /\ Cardinality(U) \in Nat /\ Cardinality(S) \in Nat
    BY <1>0, <2>4, FS_Subset, FS_CardinalityType
  <2>6. Cardinality(S \union U) = Cardinality(S) + Cardinality(U) - Cardinality({})
    BY <1>0, <2>3, <2>5, FS_Union
  <2>7. Cardinality(S \union U) = Cardinality(S) + Cardinality(U)
    BY <1>0, <2>5, <2>6, FS_EmptySet
  <2> QED BY <1>0, <2>2, <2>7 DEF Rank, U
<1> HIDE DEF R, low, high
<1>6. /\ low \o high \in Seq(V) /\ Len(low \o high) = Cardinality(R)
      /\ \A k \in 1..Len(low) + Len(high) :
           (low \o high)[k] = IF k <= Len(low) THEN low[k] ELSE high[k - Len(low)]
  <2>1. low \in Seq(V) /\ high \in Seq(V)
    BY <1>2, <1>3
  <2>2. /\ low \o high \in Seq(V) /\ Len(low \o high) = Len(low) + Len(high)
        /\ \A k \in 1..Len(low) + Len(high) :
             (low \o high)[k] = IF k <= Len(low) THEN low[k] ELSE high[k - Len(low)]
    BY <2>1, ConcatProperties
  <2> QED BY <1>1, <1>2, <1>3, <2>2
<1>7. \A i \in R : (low \o high)[Rank(R, i)] = f[i]
  <2>0. Cardinality(S) \in Nat /\ Cardinality(T) \in Nat
    BY <1>0, FS_CardinalityType
  <2>1. ASSUME NEW i \in S PROVE (low \o high)[Rank(R, i)] = f[i]
    <3>1. Rank(S, i) \in 1..Cardinality(S)
      BY <1>0, Ranks
    <3> QED BY <1>0, <1>2, <1>3, <1>4, <1>6, <2>0, <3>1
  <2>2. ASSUME NEW i \in T PROVE (low \o high)[Rank(R, i)] = f[i]
    <3>1. Rank(T, i) \in 1..Cardinality(T)
      BY <1>0, Ranks
    <3>2. /\ Rank(R, i) \in 1..(Len(low) + Len(high)) /\ ~(Rank(R, i) <= Len(low))
          /\ Rank(R, i) - Len(low) = Rank(T, i)
      BY <1>0, <1>2, <1>3, <1>5, <2>0, <3>1
    <3>3. (low \o high)[Rank(R, i)] = high[Rank(R, i) - Len(low)]
      BY <1>0, <1>6, <3>2
    <3> QED BY <1>0, <1>3, <3>2, <3>3
  <2> QED BY <1>0, <2>1, <2>2 DEF R
<1>8. f \in [R -> V]
  BY <1>0 DEF R
<1>9. low \o high = InOrder(f)
  BY <1>0, <1>1, <1>6, <1>7, <1>8, OnlyInOrder
<1> QED BY <1>0, <1>9 DEF low, high

\* Moving the arguments by the same distance changes nothing.
Shifts(V, f, S, g, T, c) ==
  /\ S \in SUBSET Nat /\ IsFiniteSet(S) /\ T \in SUBSET Nat /\ c \in Nat
  /\ f \in [S -> V] /\ g \in [T -> V]
  /\ \A i \in Nat : i \in S <=> i + c \in T
  /\ \A j \in T : c <= j
  /\ \A i \in S : g[i + c] = f[i]

LEMMA InOrderShift ==
  ASSUME NEW V, NEW f, NEW S, NEW g, NEW T, NEW c, Shifts(V, f, S, g, T, c)
  PROVE  InOrder(g) = InOrder(f)
<1> DEFINE Low(i) == {k \in S : k <= i}
           High(i) == {j \in T : j <= i + c}
<1>0. /\ S \in SUBSET Nat /\ IsFiniteSet(S) /\ T \in SUBSET Nat /\ c \in Nat
      /\ f \in [S -> V] /\ g \in [T -> V]
      /\ \A i \in Nat : i \in S <=> i + c \in T
      /\ \A j \in T : c <= j
      /\ \A i \in S : g[i + c] = f[i]
  BY DEF Shifts
<1>1. \A i \in S : i \in Nat /\ i + c \in T
  BY <1>0
<1>2. \A j \in T : j \in Nat /\ j - c \in S /\ j - c + c = j
  <2> SUFFICES ASSUME NEW j \in T PROVE j \in Nat /\ j - c \in S /\ j - c + c = j
    OBVIOUS
  <2>1. j \in Nat /\ c <= j /\ j - c \in Nat /\ j - c + c = j
    BY <1>0
  <2> QED BY <1>0, <2>1
<1>3. IsFiniteSet(T) /\ Cardinality(T) = Cardinality(S)
  <2> DEFINE move == [i \in S |-> i + c]
  <2>1. move \in [S -> T]
    BY <1>0, <1>1
  <2>2. \A a, b \in S : move[a] = move[b] => a = b
    BY <1>0, <1>1
  <2>3. \A j \in T : \E i \in S : move[i] = j
    BY <1>0, <1>2
  <2> HIDE DEF move
  <2>4. ExistsBijection(S, T)
    BY <1>0, <2>1, <2>2, <2>3, Fun_IsBij DEF ExistsBijection
  <2> QED BY <1>0, <2>4, FS_Bijection
<1>4. \A i \in S : Rank(T, i + c) = Rank(S, i)
  <2> SUFFICES ASSUME NEW i \in S PROVE Rank(T, i + c) = Rank(S, i)
    OBVIOUS
  <2>1. i \in Nat
    BY <1>0
  <2> DEFINE move == [k \in Low(i) |-> k + c]
  <2>2. move \in [Low(i) -> High(i)]
    <3> SUFFICES ASSUME NEW k \in S, k <= i PROVE k + c \in T /\ k + c <= i + c
      OBVIOUS
    <3> QED BY <1>0, <1>1, <2>1
  <2>3. \A a, b \in Low(i) : move[a] = move[b] => a = b
    BY <1>0, <1>1
  <2>4. \A j \in High(i) : \E k \in Low(i) : move[k] = j
    <3> SUFFICES ASSUME NEW j \in T, j <= i + c PROVE j - c \in Low(i) /\ j - c + c = j
      OBVIOUS
    <3>1. j - c \in S /\ j - c + c = j /\ j \in Nat
      BY <1>0, <1>2
    <3> QED BY <1>0, <2>1, <3>1
  <2>5. Low(i) \in SUBSET S
    OBVIOUS
  <2>6. Rank(T, i + c) = Cardinality(High(i)) /\ Rank(S, i) = Cardinality(Low(i))
    BY <1>0 DEF Rank
  <2> HIDE DEF move, Low, High
  <2>7. ExistsBijection(Low(i), High(i))
    BY <1>0, <2>2, <2>3, <2>4, Fun_IsBij DEF ExistsBijection
  <2>8. IsFiniteSet(Low(i))
    BY <1>0, <2>5, FS_Subset
  <2> QED BY <1>0, <2>6, <2>7, <2>8, FS_Bijection
<1> HIDE DEF Low, High
<1>5. /\ InOrder(g) \in Seq(V) /\ Len(InOrder(g)) = Cardinality(T)
      /\ \A j \in T : InOrder(g)[Rank(T, j)] = g[j]
  <2>1. T \in SUBSET Nat /\ IsFiniteSet(T) /\ g \in [T -> V]
    BY <1>0, <1>3
  <2> QED BY ONLY <2>1, InOrderIs
<1> DEFINE h == InOrder(g)
<1>6. \A i \in S : h[Rank(S, i)] = f[i]
  BY <1>0, <1>1, <1>4, <1>5
<1>7. h \in Seq(V) /\ Len(h) = Cardinality(S)
  BY <1>0, <1>3, <1>5
<1> HIDE DEF h
<1>8. h = InOrder(f)
  BY <1>0, <1>6, <1>7, OnlyInOrder
<1> QED BY <1>0, <1>8 DEF h

\* Nothing, and one value.
LEMMA InOrderFew ==
  ASSUME NEW V, NEW S \in SUBSET Nat, NEW f \in [S -> V]
  PROVE  /\ S = {} => InOrder(f) = <<>>
         /\ \A i : S = {i} => InOrder(f) = <<f[i]>>
<1>1. ASSUME S = {} PROVE InOrder(f) = <<>>
  <2>1. IsFiniteSet(S) /\ Cardinality(S) = 0
    BY <1>1, FS_EmptySet
  <2>2. InOrder(f) \in Seq(V) /\ Len(InOrder(f)) = 0
    BY <2>1, InOrderIs
  <2> QED BY <2>2, EmptySeq
<1>2. ASSUME NEW i, S = {i} PROVE InOrder(f) = <<f[i]>>
  <2>1. IsFiniteSet(S) /\ Cardinality(S) = 1
    BY <1>2, FS_Singleton
  <2>2. i \in S /\ f[i] \in V
    BY <1>2
  <2>3. /\ InOrder(f) \in Seq(V) /\ Len(InOrder(f)) = Cardinality(S)
        /\ \A j \in S : InOrder(f)[Rank(S, j)] = f[j]
    BY <2>1, InOrderIs
  <2>4. Rank(S, i) = 1
    <3>1. Rank(S, i) \in 1..Cardinality(S)
      BY <2>1, <2>2, Ranks
    <3> QED BY <2>1, <3>1
  <2>5. <<f[i]>> \in Seq(V) /\ Len(<<f[i]>>) = 1 /\ <<f[i]>>[1] = f[i]
    BY <2>2
  <2> DEFINE one == <<f[i]>>
             h == InOrder(f)
  <2>6. Len(h) = 1 /\ Len(one) = 1 /\ h[1] = one[1] /\ h \in Seq(V) /\ one \in Seq(V)
    BY <2>1, <2>2, <2>3, <2>4, <2>5
  <2> HIDE DEF one, h
  <2>7. \A k \in 1..Len(h) : h[k] = one[k]
    BY <2>6
  <2>8. h = one
    BY <2>6, <2>7, SeqEqual
  <2> QED BY <2>8 DEF h, one
<1> QED BY <1>1, <1>2

-----------------------------------------------------------------------------
(* Sentences *)

\* What SentencesOf lists: the words are positions of the text, and each
\* sentence runs from one of them to another.
LEMMA SentenceIs ==
  ASSUME NEW t \in Seq(Symbols), NEW l \in Words(t)
  PROVE  \E f \in SentenceWords(t, l) :
           /\ \A w \in SentenceWords(t, l) : f <= w
           /\ Sentence(t, l) = SubSeq(t, f, l)
           /\ f \in 1..l
<1> DEFINE S == SentenceWords(t, l)
           First(f) == \A w \in S : f <= w
<1>1. Words(t) \subseteq 1..Len(t) /\ Len(t) \in Nat
  BY LenProperties DEF Words
<1>2. l \in S
  <2>1. \A e \in SentenceEnds(t) : e \in Nat
    BY LenProperties DEF SentenceEnds
  <2> QED BY <1>1, <2>1 DEF SentenceWords
<1>3. S \in SUBSET Nat /\ \A w \in S : w <= l /\ w \in 1..Len(t)
  BY <1>1 DEF SentenceWords
<1> HIDE DEF S
<1>4. \E f \in S : First(f)
  BY <1>2, <1>3, Least
<1> DEFINE f == CHOOSE f \in S : First(f)
<1>5. f \in S /\ First(f)
  <2> HIDE DEF First
  <2> QED BY <1>4
<1>6. Sentence(t, l) = SubSeq(t, f, l)
  BY DEF Sentence, S
<1> HIDE DEF f
<1>7. f \in 1..l
  <2>1. f \in 1..Len(t) /\ f <= l /\ l \in 1..Len(t)
    BY <1>1, <1>3, <1>5
  <2> QED BY <1>1, <2>1
<1> QED BY <1>5, <1>6, <1>7 DEF S

\* The same words c places on with the same ends between them ...
Moved(u, l, t, m, c) ==
  /\ \A i \in 1..l : i + c \in DOMAIN t /\ u[i] = t[i + c]
  /\ \A w \in 1..l : w \in SentenceWords(u, l) <=> w + c \in SentenceWords(t, m)
  /\ \A w \in SentenceWords(t, m) : c < w

\* ... are the same sentence.
LEMMA SameSentence ==
  ASSUME NEW t \in Seq(Symbols), NEW u \in Seq(Symbols), NEW c \in Nat, NEW l \in Words(u),
         NEW m \in Words(t), m = l + c, Moved(u, l, t, m, c)
  PROVE  Sentence(u, l) = Sentence(t, m)
<1> USE DEF Moved
<1>1. PICK f \in SentenceWords(u, l) :
        /\ \A w \in SentenceWords(u, l) : f <= w
        /\ Sentence(u, l) = SubSeq(u, f, l) /\ f \in 1..l
  BY SentenceIs
<1>2. PICK g \in SentenceWords(t, m) :
        /\ \A w \in SentenceWords(t, m) : g <= w
        /\ Sentence(t, m) = SubSeq(t, g, m) /\ g \in 1..m
  BY SentenceIs
<1>3. l \in 1..Len(u) /\ m = l + c /\ m \in 1..Len(t) /\ Len(u) \in Nat /\ Len(t) \in Nat /\ l \in Nat
      /\ DOMAIN t = 1..Len(t)
  BY LenProperties DEF Words
<1>4. g = f + c
  <2>1. g - c \in 1..l /\ g - c + c = g
    BY <1>2, <1>3
  <2>2. g - c \in SentenceWords(u, l)
    BY <1>2, <2>1
  <2>3. f <= g - c
    BY <1>1, <2>2
  <2>4. f + c \in SentenceWords(t, m)
    BY <1>1
  <2>5. g <= f + c
    BY <1>2, <2>4
  <2> QED BY <1>1, <1>2, <2>1, <2>3, <2>5
<1>5. /\ SubSeq(u, f, l) \in Seq(Symbols) /\ Len(SubSeq(u, f, l)) = l - f + 1
      /\ \A i \in 1..(l - f + 1) : SubSeq(u, f, l)[i] = u[f + i - 1]
  <2>1. f \in 1..(Len(u) + 1) /\ l \in (f - 1)..Len(u)
    BY <1>1, <1>3
  <2> QED BY <2>1, Part
<1>6. /\ SubSeq(t, g, m) \in Seq(Symbols) /\ Len(SubSeq(t, g, m)) = m - g + 1
      /\ \A i \in 1..(m - g + 1) : SubSeq(t, g, m)[i] = t[g + i - 1]
  <2>1. g \in 1..(Len(t) + 1) /\ m \in (g - 1)..Len(t)
    BY <1>2, <1>3
  <2> QED BY <2>1, Part
<1>7. m - g + 1 = l - f + 1
  BY <1>1, <1>3, <1>4
<1>8. \A i \in 1..(l - f + 1) : u[f + i - 1] = t[g + i - 1]
  <2> SUFFICES ASSUME NEW i \in 1..(l - f + 1) PROVE u[f + i - 1] = t[g + i - 1]
    OBVIOUS
  <2>1. f + i - 1 \in 1..l /\ f + i - 1 + c = g + i - 1
    BY <1>1, <1>3, <1>4
  <2> QED BY <2>1
<1> DEFINE a == SubSeq(u, f, l)
           b == SubSeq(t, g, m)
<1>9. /\ a \in Seq(Symbols) /\ b \in Seq(Symbols) /\ Len(a) = Len(b)
      /\ \A i \in 1..Len(a) : a[i] = b[i]
  BY <1>5, <1>6, <1>7, <1>8
<1> HIDE DEF a, b
<1>10. a = b
  BY <1>9, SeqEqual
<1> QED BY <1>1, <1>2, <1>10 DEF a, b

\* The last words of sentences are positions of the text.
LEMMA SentencesAre ==
  ASSUME NEW t \in Seq(Symbols), NEW ended
  PROVE  /\ LastWords(t, ended) \in SUBSET Nat /\ IsFiniteSet(LastWords(t, ended))
         /\ LastWords(t, ended) \subseteq 1..Len(t) /\ LastWords(t, ended) \subseteq Words(t)
         /\ [l \in LastWords(t, ended) |-> Sentence(t, l)]
              \in [LastWords(t, ended) -> Seq(Symbols)]
<1> DEFINE S == LastWords(t, ended)
<1>1. Len(t) \in Nat /\ Words(t) \subseteq 1..Len(t)
  BY LenProperties DEF Words
<1>2. S \subseteq Words(t)
  BY DEF LastWords
<1> HIDE DEF S
<1>3. S \in SUBSET Nat /\ S \in SUBSET (1..Len(t))
  BY <1>1, <1>2
<1>4. IsFiniteSet(S)
  <2>1. IsFiniteSet(1..Len(t))
    BY <1>1, FS_Interval
  <2> QED BY <1>3, <2>1, FS_Subset
<1>5. \A l \in S : Sentence(t, l) \in Seq(Symbols)
  <2> SUFFICES ASSUME NEW l \in S PROVE Sentence(t, l) \in Seq(Symbols)
    OBVIOUS
  <2>1. PICK f \in 1..l : Sentence(t, l) = SubSeq(t, f, l)
    BY <1>2, SentenceIs
  <2>2. f \in 1..(Len(t) + 1) /\ l \in (f - 1)..Len(t)
    BY <1>1, <1>3
  <2> QED BY <2>1, <2>2, Part
<1> QED BY <1>2, <1>3, <1>4, <1>5 DEF S

\* The words and the sentence ends of a part of a text.
LEMMA PartOfSpeech ==
  ASSUME NEW t \in Seq(Symbols), NEW c \in 0..Len(t), NEW z \in c..Len(t)
  PROVE  LET v == SubSeq(t, c + 1, z)
         IN /\ v \in Seq(Symbols) /\ Len(v) = z - c
            /\ \A i \in 1..(z - c) : i + c \in DOMAIN t /\ v[i] = t[i + c]
            /\ \A i : i \in Words(v) <=> i \in 1..(z - c) /\ i + c \in Words(t)
            /\ \A i : i \in SentenceEnds(v)
                      <=> i \in 1..(z - c) /\ i + c \in SentenceEnds(t) /\ i + c < z
<1> DEFINE v == SubSeq(t, c + 1, z)
<1>0. Len(t) \in Nat /\ DOMAIN t = 1..Len(t) /\ c \in Nat /\ z \in Nat /\ c <= z /\ z <= Len(t)
  BY LenProperties
<1>1. /\ v \in Seq(Symbols) /\ Len(v) = z - c /\ DOMAIN v = 1..(z - c)
      /\ \A i \in 1..(z - c) : i + c \in DOMAIN t /\ v[i] = t[i + c]
  <2>1. c + 1 \in 1..(Len(t) + 1) /\ z \in (c + 1 - 1)..Len(t) /\ z - (c + 1) + 1 = z - c
    BY <1>0
  <2>2. \A i \in 1..(z - c) : c + 1 + i - 1 = i + c /\ i + c \in 1..Len(t)
    BY <1>0
  <2>3. /\ v \in Seq(Symbols) /\ Len(v) = z - (c + 1) + 1 /\ DOMAIN v = 1..(z - (c + 1) + 1)
        /\ \A i \in 1..(z - (c + 1) + 1) : v[i] = t[c + 1 + i - 1]
    BY <2>1, Part
  <2> HIDE DEF v
  <2> QED BY <1>0, <2>1, <2>2, <2>3
<1> HIDE DEF v
<1>2. \A i : i \in Words(v) <=> i \in 1..(z - c) /\ i + c \in Words(t)
  BY <1>1 DEF Words
<1>3. \A i : i \in SentenceEnds(v)
             <=> i \in 1..(z - c) /\ i + c \in SentenceEnds(t) /\ i + c < z
  <2>1. ASSUME NEW i \in SentenceEnds(v)
        PROVE  i \in 1..(z - c) /\ i + c \in SentenceEnds(t) /\ i + c < z
    <3>1. i \in 1..(z - c) /\ v[i] \in Ends /\ i + 1 \in 1..(z - c) /\ v[i + 1] \in Spaces
      BY <1>1 DEF SentenceEnds
    <3>2. i + 1 + c = i + c + 1 /\ i + c < z
      BY <1>0, <3>1
    <3>3. i + c \in DOMAIN t /\ t[i + c] \in Ends /\ i + c + 1 \in DOMAIN t /\ t[i + c + 1] \in Spaces
      BY <1>1, <3>1, <3>2
    <3> QED BY <3>1, <3>2, <3>3 DEF SentenceEnds
  <2>2. ASSUME NEW i \in 1..(z - c), i + c \in SentenceEnds(t), i + c < z
        PROVE  i \in SentenceEnds(v)
    <3>1. i + 1 \in 1..(z - c) /\ i + 1 + c = i + c + 1
      BY <1>0, <2>2
    <3>2. t[i + c] \in Ends /\ t[i + c + 1] \in Spaces
      BY <2>2 DEF SentenceEnds
    <3>3. v[i] \in Ends /\ v[i + 1] \in Spaces
      BY <1>1, <3>1, <3>2
    <3> QED BY <1>1, <3>1, <3>3 DEF SentenceEnds
  <2> QED BY <2>1, <2>2
<1> QED BY <1>1, <1>2, <1>3 DEF v

\* Where the positions of a text lie.
LEMMA SpeechIn ==
  ASSUME NEW t \in Seq(Symbols)
  PROVE  /\ Len(t) \in Nat
         /\ \A w \in Words(t) : w \in 1..Len(t) /\ w \in Nat
         /\ \A e \in SentenceEnds(t) : e \in 1..Len(t) /\ e \in Nat /\ e < Len(t)
<1>1. Len(t) \in Nat /\ DOMAIN t = 1..Len(t)
  BY LenProperties
<1> QED BY <1>1 DEF Words, SentenceEnds

\* The sentences of a text up to one of its ends are those up to there.
LEMMA FrontSentences ==
  ASSUME NEW t \in Seq(Symbols), NEW s \in SentenceEnds(t), NEW ended \in BOOLEAN
  PROVE  LET u == UpTo(t, s)
         IN /\ \A l : l \in LastWords(u, TRUE) <=> l \in LastWords(t, ended) /\ l <= s
            /\ \A l \in LastWords(u, TRUE) : Sentence(u, l) = Sentence(t, l)
<1> DEFINE u == UpTo(t, s)
<1>0. /\ Len(t) \in Nat /\ s \in 1..Len(t)
      /\ \A w \in Words(t) : w \in 1..Len(t) /\ w \in Nat
      /\ \A e \in SentenceEnds(t) : e \in 1..Len(t) /\ e \in Nat /\ e < Len(t)
  BY SpeechIn
<1>1. /\ u \in Seq(Symbols) /\ Len(u) = s
      /\ \A i \in 1..s : i \in DOMAIN t /\ u[i] = t[i]
      /\ \A i : i \in Words(u) <=> i \in Words(t) /\ i <= s
      /\ \A i : i \in SentenceEnds(u) <=> i \in SentenceEnds(t) /\ i < s
  <2>1. 0 \in 0..Len(t) /\ s \in 0..Len(t) /\ s - 0 = s /\ 0 + 1 = 1 /\ \A i \in Nat : i + 0 = i
    BY <1>0
  <2>2. /\ SubSeq(t, 0 + 1, s) \in Seq(Symbols) /\ Len(SubSeq(t, 0 + 1, s)) = s - 0
        /\ \A i \in 1..(s - 0) : i + 0 \in DOMAIN t /\ SubSeq(t, 0 + 1, s)[i] = t[i + 0]
        /\ \A i : i \in Words(SubSeq(t, 0 + 1, s)) <=> i \in 1..(s - 0) /\ i + 0 \in Words(t)
        /\ \A i : i \in SentenceEnds(SubSeq(t, 0 + 1, s))
                  <=> i \in 1..(s - 0) /\ i + 0 \in SentenceEnds(t) /\ i + 0 < s
    BY <2>1, PartOfSpeech
  <2>3. SubSeq(t, 0 + 1, s) = u
    BY <2>1 DEF UpTo
  <2> HIDE DEF u
  <2>4. /\ u \in Seq(Symbols) /\ Len(u) = s
        /\ \A i \in 1..s : i \in DOMAIN t /\ u[i] = t[i]
    BY <1>0, <2>1, <2>2, <2>3
  <2>5. \A i : i \in Words(u) <=> i \in 1..s /\ i + 0 \in Words(t)
    BY <2>1, <2>2, <2>3
  <2>6. \A i : i \in SentenceEnds(u) <=> i \in 1..s /\ i + 0 \in SentenceEnds(t) /\ i + 0 < s
    BY <2>1, <2>2, <2>3
  <2>7. /\ \A i \in 1..s : i + 0 = i /\ i <= s
        /\ \A i \in Words(t) : i <= s => i \in 1..s
        /\ \A i \in SentenceEnds(t) : i < s => i \in 1..s
    BY <1>0
  <2> QED BY <2>4, <2>5, <2>6, <2>7
<1> HIDE DEF u
<1>2. ASSUME NEW l, l \in LastWords(t, ended), l <= s PROVE l \in LastWords(u, TRUE)
  <2>1. l \in Words(u) /\ l \in Nat
    BY <1>0, <1>1, <1>2 DEF LastWords
  <2>2. CASE ended /\ \A w \in Words(t) : w <= l
    BY <1>1, <2>1, <2>2 DEF LastWords
  <2>3. ASSUME NEW e \in SentenceEnds(t), l <= e, \A w \in Words(t) : l < w => e < w
        PROVE  l \in LastWords(u, TRUE)
    <3>1. CASE e < s
      <4>1. e \in SentenceEnds(u)
        BY <1>1, <3>1
      <4> QED BY <1>1, <2>1, <2>3, <4>1 DEF LastWords
    <3>2. CASE ~(e < s)
      <4>1. \A w \in Words(u) : w <= l
        <5> SUFFICES ASSUME NEW w \in Words(u), ~(w <= l) PROVE FALSE
          OBVIOUS
        <5>1. w \in Words(t) /\ w <= s /\ w \in Nat
          BY <1>0, <1>1
        <5>2. e < w
          BY <2>1, <2>3, <5>1
        <5> QED BY <1>0, <3>2, <5>1, <5>2
      <4> QED BY <2>1, <4>1 DEF LastWords
    <3> QED BY <3>1, <3>2
  <2> QED BY <1>2, <2>2, <2>3 DEF LastWords
<1>3. ASSUME NEW l, l \in LastWords(u, TRUE) PROVE l \in LastWords(t, ended) /\ l <= s
  <2>1. l \in Words(u) /\ l \in Words(t) /\ l \in Nat /\ l <= s
    BY <1>0, <1>1, <1>3 DEF LastWords
  <2>2. CASE \A w \in Words(u) : w <= l
    <3>1. \A w \in Words(t) : l < w => s < w
      <4> SUFFICES ASSUME NEW w \in Words(t), l < w, ~(s < w) PROVE FALSE
        OBVIOUS
      <4>1. w \in Words(u) /\ w \in Nat
        BY <1>0, <1>1
      <4> QED BY <2>1, <2>2, <4>1
    <3> QED BY <2>1, <3>1 DEF LastWords
  <2>3. ASSUME NEW e \in SentenceEnds(u), l <= e, \A w \in Words(u) : l < w => e < w
        PROVE  l \in LastWords(t, ended)
    <3>1. e \in SentenceEnds(t) /\ e < s
      BY <1>1
    <3>2. \A w \in Words(t) : l < w => e < w
      <4> SUFFICES ASSUME NEW w \in Words(t), l < w PROVE e < w
        OBVIOUS
      <4>1. CASE w <= s
        BY <1>1, <2>3, <4>1
      <4>2. CASE ~(w <= s)
        BY <1>0, <3>1, <4>2
      <4> QED BY <4>1, <4>2
    <3> QED BY <2>1, <2>3, <3>1, <3>2 DEF LastWords
  <2> QED BY <1>3, <2>1, <2>2, <2>3 DEF LastWords
<1>4. ASSUME NEW l \in LastWords(u, TRUE) PROVE Sentence(u, l) = Sentence(t, l)
  <2>1. l \in Words(u) /\ l \in Words(t) /\ l \in Nat /\ l <= s /\ l + 0 = l /\ 0 \in Nat
    BY <1>0, <1>1, <1>4 DEF LastWords
  <2>2. \A w \in 1..l : w + 0 = w /\ w \in DOMAIN t /\ u[w] = t[w]
    BY <1>0, <1>1, <2>1
  <2>3. \A w : w \in SentenceWords(u, l) <=> w \in SentenceWords(t, l)
    <3>1. \A e : e < l /\ e \in SentenceEnds(t) => e \in SentenceEnds(u)
      BY <1>0, <1>1, <2>1
    <3>2. \A w : w <= l /\ w \in Words(t) => w \in Words(u)
      BY <1>0, <1>1, <2>1
    <3> QED BY <1>1, <3>1, <3>2 DEF SentenceWords
  <2>4. \A w \in SentenceWords(t, l) : 0 < w
    BY <1>0 DEF SentenceWords
  <2>5. Moved(u, l, t, l, 0)
    BY <2>2, <2>3, <2>4 DEF Moved
  <2> QED BY <1>1, <2>1, <2>5, SameSentence
<1> QED BY <1>2, <1>3, <1>4 DEF u

\* The sentences of a text from position c + 1 on are those of its part up to z, when
\* no sentence crosses c and no word lies behind z.
LEMMA RestSentences ==
  ASSUME NEW t \in Seq(Symbols), NEW c \in 0..Len(t), NEW z \in c..Len(t), NEW ended \in BOOLEAN,
         c \in SentenceEnds(t) \/ \A w \in Words(t) : c < w,
         z = Len(t) \/ (ended /\ z \in Words(t) /\ \A w \in Words(t) : w <= z)
  PROVE  LET v == SubSeq(t, c + 1, z)
         IN /\ \A i \in Nat \ {0} : i \in LastWords(v, ended) <=> i + c \in LastWords(t, ended)
            /\ \A i \in LastWords(v, ended) : Sentence(v, i) = Sentence(t, i + c)
<1> DEFINE v == SubSeq(t, c + 1, z)
<1>0. /\ Len(t) \in Nat /\ c \in Nat /\ z \in Nat /\ c <= z /\ z <= Len(t)
      /\ \A w \in Words(t) : w \in 1..Len(t) /\ w \in Nat /\ w <= z
      /\ \A e \in SentenceEnds(t) : e \in 1..Len(t) /\ e \in Nat /\ e < Len(t)
  <2>1. /\ Len(t) \in Nat
        /\ \A w \in Words(t) : w \in 1..Len(t) /\ w \in Nat
        /\ \A e \in SentenceEnds(t) : e \in 1..Len(t) /\ e \in Nat /\ e < Len(t)
    BY SpeechIn
  <2> QED BY <2>1
<1>1. /\ v \in Seq(Symbols) /\ Len(v) = z - c
      /\ \A i \in 1..(z - c) : i + c \in DOMAIN t /\ v[i] = t[i + c]
      /\ \A i : i \in Words(v) <=> i \in 1..(z - c) /\ i + c \in Words(t)
      /\ \A i : i \in SentenceEnds(v) <=> i \in 1..(z - c) /\ i + c \in SentenceEnds(t) /\ i + c < z
  BY PartOfSpeech
<1> HIDE DEF v
<1>2. \A w \in Words(t) : c < w => w - c \in Words(v) /\ w - c + c = w
  <2> SUFFICES ASSUME NEW w \in Words(t), c < w PROVE w - c \in Words(v) /\ w - c + c = w
    OBVIOUS
  <2>1. w - c \in 1..(z - c) /\ w - c + c = w
    BY <1>0
  <2> QED BY <1>1, <2>1
<1>3. \A e \in SentenceEnds(t) : c < e /\ e < z => e - c \in SentenceEnds(v) /\ e - c + c = e
  <2> SUFFICES ASSUME NEW e \in SentenceEnds(t), c < e, e < z
               PROVE  e - c \in SentenceEnds(v) /\ e - c + c = e
    OBVIOUS
  <2>1. e - c \in 1..(z - c) /\ e - c + c = e
    BY <1>0
  <2> QED BY <1>1, <2>1
<1>4. \A w \in Words(v) : w \in 1..(z - c) /\ w \in Nat /\ w + c \in Words(t) /\ c < w + c
  BY <1>0, <1>1
<1>5. \A e \in SentenceEnds(v) : e \in Nat /\ e + c \in SentenceEnds(t) /\ c < e + c /\ e + c < z
  BY <1>0, <1>1
<1>6. ASSUME NEW i \in LastWords(v, ended) PROVE i + c \in LastWords(t, ended)
  <2>1. i \in Words(v) /\ i \in Nat /\ i + c \in Words(t)
    BY <1>4 DEF LastWords
  <2>2. CASE ended /\ \A w \in Words(v) : w <= i
    <3>1. \A w \in Words(t) : w <= i + c
      <4> SUFFICES ASSUME NEW w \in Words(t) PROVE w <= i + c
        OBVIOUS
      <4>1. CASE c < w
        BY <1>0, <1>2, <2>1, <2>2, <4>1
      <4>2. CASE ~(c < w)
        BY <1>0, <2>1, <4>2
      <4> QED BY <4>1, <4>2
    <3> QED BY <2>1, <2>2, <3>1 DEF LastWords
  <2>3. ASSUME NEW e \in SentenceEnds(v), i <= e, \A w \in Words(v) : i < w => e < w
        PROVE  i + c \in LastWords(t, ended)
    <3>1. e \in Nat /\ e + c \in SentenceEnds(t) /\ i + c <= e + c
      BY <1>0, <1>5, <2>1, <2>3
    <3>2. \A w \in Words(t) : i + c < w => e + c < w
      <4> SUFFICES ASSUME NEW w \in Words(t), i + c < w PROVE e + c < w
        OBVIOUS
      <4>1. c < w /\ i < w - c
        BY <1>0, <2>1
      <4>2. e < w - c
        BY <1>2, <2>3, <4>1
      <4> QED BY <1>0, <3>1, <4>2
    <3> QED BY <2>1, <3>1, <3>2 DEF LastWords
  <2> QED BY <1>6, <2>2, <2>3 DEF LastWords
<1>7. ASSUME NEW i \in Nat \ {0}, i + c \in LastWords(t, ended) PROVE i \in LastWords(v, ended)
  <2>1. i + c \in Words(t) /\ c < i + c /\ i + c - c = i /\ i + c <= z
    BY <1>0, <1>7 DEF LastWords
  <2>2. i \in Words(v)
    BY <1>2, <2>1
  <2>3. CASE ended /\ \A w \in Words(t) : w <= i + c
    <3>1. \A w \in Words(v) : w <= i
      BY <1>0, <1>4, <2>3
    <3> QED BY <2>2, <2>3, <3>1 DEF LastWords
  <2>4. ASSUME NEW e \in SentenceEnds(t), i + c <= e, \A w \in Words(t) : i + c < w => e < w
        PROVE  i \in LastWords(v, ended)
    <3>1. CASE e < z
      <4>1. e - c \in SentenceEnds(v) /\ i <= e - c
        BY <1>0, <1>3, <2>1, <2>4, <3>1
      <4>2. \A w \in Words(v) : i < w => e - c < w
        <5> SUFFICES ASSUME NEW w \in Words(v), i < w PROVE e - c < w
          OBVIOUS
        <5>1. w \in Nat /\ w + c \in Words(t) /\ i + c < w + c
          BY <1>0, <1>4
        <5>2. e < w + c
          BY <2>4, <5>1
        <5> QED BY <1>0, <5>1, <5>2
      <4> QED BY <2>2, <4>1, <4>2 DEF LastWords
    <3>2. CASE ~(e < z)
      <4>1. ended /\ z \in Words(t)
        BY <1>0, <3>2
      <4>2. ~(i + c < z)
        BY <1>0, <2>4, <3>2, <4>1
      <4>3. \A w \in Words(v) : w <= i
        BY <1>0, <1>4, <2>1, <4>2
      <4> QED BY <2>2, <4>1, <4>3 DEF LastWords
    <3> QED BY <3>1, <3>2
  <2> QED BY <1>7, <2>3, <2>4 DEF LastWords
<1>8. ASSUME NEW i \in LastWords(v, ended), NEW m, m = i + c PROVE Sentence(v, i) = Sentence(t, m)
  <2>1. i \in Words(v) /\ i \in Nat /\ i \in 1..(z - c) /\ m \in Words(t) /\ c < m /\ m \in Nat
    BY <1>0, <1>4, <1>8 DEF LastWords
  <2>2. \A w \in 1..i : w + c \in DOMAIN t /\ v[w] = t[w + c]
    <3>1. \A w \in 1..i : w \in 1..(z - c)
      BY <1>0, <2>1
    <3> QED BY <1>1, <3>1
  <2>3. \A w \in SentenceWords(t, m) : c < w
    <3> SUFFICES ASSUME NEW w \in SentenceWords(t, m), ~(c < w) PROVE FALSE
      OBVIOUS
    <3>1. w \in Words(t) /\ \A e \in SentenceEnds(t) : ~(w <= e /\ e < m)
      BY DEF SentenceWords
    <3>2. CASE c \in SentenceEnds(t)
      <4>1. w <= c
        BY <1>0, <3>1
      <4> QED BY <2>1, <3>1, <3>2, <4>1
    <3>3. CASE \A x \in Words(t) : c < x
      BY <3>1, <3>3
    <3> QED BY <3>2, <3>3
  <2>4. \A w \in 1..i : w \in SentenceWords(v, i) <=> w + c \in SentenceWords(t, m)
    <3> SUFFICES ASSUME NEW w \in 1..i
                 PROVE  w \in SentenceWords(v, i) <=> w + c \in SentenceWords(t, m)
      OBVIOUS
    <3>1. w \in Nat /\ w \in 1..(z - c) /\ w <= i /\ w + c <= m /\ c < w + c
      BY <1>0, <1>8, <2>1
    <3>2. w \in Words(v) <=> w + c \in Words(t)
      BY <1>1, <3>1
    <3>3. ASSUME NEW e \in SentenceEnds(v), w <= e, e < i
          PROVE  e + c \in SentenceEnds(t) /\ w + c <= e + c /\ e + c < m
      BY <1>0, <1>5, <1>8, <2>1, <3>1, <3>3
    <3>4. ASSUME NEW e \in SentenceEnds(t), w + c <= e, e < m
          PROVE  e - c \in SentenceEnds(v) /\ w <= e - c /\ e - c < i
      <4>1. c < e /\ e < z
        BY <1>0, <1>8, <2>1, <3>1, <3>4
      <4> QED BY <1>0, <1>3, <1>8, <2>1, <3>1, <3>4, <4>1
    <3> QED BY <3>1, <3>2, <3>3, <3>4 DEF SentenceWords
  <2>5. m = i + c /\ c \in Nat /\ v \in Seq(Symbols) /\ t \in Seq(Symbols)
    BY <1>0, <1>1, <1>8
  <2>6. Moved(v, i, t, m, c)
    BY <2>2, <2>3, <2>4 DEF Moved
  <2> QED BY <2>1, <2>5, <2>6, SameSentence
<1>9. \A i \in LastWords(v, ended) : Sentence(v, i) = Sentence(t, i + c)
  BY <1>8
<1> QED BY <1>6, <1>7, <1>9 DEF v

\* A text has the sentences it has up to one of its sentence ends, then those it has
\* behind it.
LEMMA SentencesSplit ==
  ASSUME NEW t \in Seq(Symbols), NEW s \in SentenceEnds(t), NEW ended \in BOOLEAN
  PROVE  SentencesOf(t, ended) = SentencesOf(UpTo(t, s), TRUE) \o SentencesOf(From(t, s + 1), ended)
<1> DEFINE u == UpTo(t, s)
           v == SubSeq(t, s + 1, Len(t))
           L == LastWords(t, ended)
           S == LastWords(u, TRUE)
           V == LastWords(v, ended)
           T == {j \in L : s < j}
           f == [l \in L |-> Sentence(t, l)]
           fS == [l \in S |-> Sentence(u, l)]
           fV == [l \in V |-> Sentence(v, l)]
           W == Seq(Symbols)
<1>0. Len(t) \in Nat /\ s \in 1..Len(t) /\ s \in Nat /\ s \in 0..Len(t) /\ Len(t) \in s..Len(t)
  <2>1. Len(t) \in Nat /\ s \in 1..Len(t)
    BY SpeechIn
  <2> QED BY <2>1
<1>1. u \in W /\ v \in W
  <2>1. 1 \in 1..(Len(t) + 1) /\ s \in (1 - 1)..Len(t) /\ s + 1 \in 1..(Len(t) + 1) /\ Len(t) \in (s + 1 - 1)..Len(t)
    BY <1>0
  <2> QED BY <2>1, Part DEF UpTo
<1>2. /\ \A l : l \in S <=> l \in L /\ l <= s
      /\ \A l \in S : Sentence(u, l) = Sentence(t, l)
  BY FrontSentences
<1>3. /\ \A i \in Nat \ {0} : i \in V <=> i + s \in L
      /\ \A i \in V : Sentence(v, i) = Sentence(t, i + s)
  <2>1. s \in SentenceEnds(t) \/ \A w \in Words(t) : s < w
    OBVIOUS
  <2> QED BY <1>0, <2>1, RestSentences
<1>4. L \in SUBSET Nat /\ IsFiniteSet(L) /\ f \in [L -> W] /\ L \subseteq 1..Len(t)
  BY SentencesAre
<1>5. S \in SUBSET Nat /\ IsFiniteSet(S) /\ fS \in [S -> W]
  BY <1>1, SentencesAre
<1>6. V \in SUBSET Nat /\ IsFiniteSet(V) /\ fV \in [V -> W] /\ V \subseteq 1..Len(v)
  BY <1>1, SentencesAre
<1>7. /\ SentencesOf(t, ended) = InOrder(f)
      /\ SentencesOf(u, TRUE) = InOrder(fS)
      /\ SentencesOf(v, ended) = InOrder(fV)
  BY DEF SentencesOf
<1> HIDE DEF u, v, L, S, V, W
<1>8. \A j : j \in T <=> j \in L /\ s < j
  OBVIOUS
<1> HIDE DEF T
<1>9. /\ T \in SUBSET Nat /\ IsFiniteSet(T) /\ L = S \union T
      /\ \A i \in S, j \in T : i < j
  <2>1. T \subseteq L /\ \A l \in L : l \in Nat
    BY <1>4, <1>8
  <2>2. IsFiniteSet(T) /\ T \in SUBSET Nat
    BY <1>4, <2>1, FS_Subset
  <2>3. \A l \in L : l <= s \/ s < l
    BY <1>0, <2>1
  <2>4. L = S \union T
    BY <1>2, <1>8, <2>3
  <2>5. \A i \in S, j \in T : i < j
    <3> SUFFICES ASSUME NEW i \in S, NEW j \in T PROVE i < j
      OBVIOUS
    <3>1. i \in Nat /\ j \in Nat /\ i <= s /\ s < j
      BY <1>2, <1>8, <2>1
    <3> QED BY <1>0, <3>1
  <2> QED BY <2>2, <2>4, <2>5
<1> DEFINE g == [j \in T |-> Sentence(t, j)]
<1>10. g \in [T -> W] /\ \A j \in T : g[j] = f[j]
  BY <1>4, <1>9
<1>11. \A i \in S : f[i] = fS[i]
  BY <1>2
<1>12. Joins(W, f, S, fS, T, g)
  BY <1>4, <1>5, <1>9, <1>10, <1>11 DEF Joins
<1> HIDE DEF f, g, fS
<1>13. InOrder(f) = InOrder(fS) \o InOrder(g)
  BY <1>12, InOrderSplit
<1>14. InOrder(g) = InOrder(fV)
  <2>2. \A i \in Nat : i \in V <=> i + s \in T
    <3> SUFFICES ASSUME NEW i \in Nat PROVE i \in V <=> i + s \in T
      OBVIOUS
    <3>1. CASE i = 0
      <4>1. i \notin V /\ i + s = s /\ ~(s < s)
        BY <1>0, <1>6, <3>1
      <4> QED BY <1>8, <4>1
    <3>2. CASE i # 0
      BY <1>0, <1>3, <1>8, <3>2
    <3> QED BY <3>1, <3>2
  <2>3. \A j \in T : s <= j
    BY <1>0, <1>8, <1>9
  <2>4. \A i \in V : g[i + s] = fV[i]
    BY <1>3, <1>6, <2>2 DEF g
  <2>5. Shifts(W, fV, V, g, T, s)
    BY <1>0, <1>6, <1>9, <1>10, <2>2, <2>3, <2>4 DEF Shifts
  <2> HIDE DEF fV
  <2> QED BY <2>5, InOrderShift
<1>15. v = From(t, s + 1)
  BY DEF v, From
<1> QED BY <1>7, <1>13, <1>14, <1>15 DEF u

\* Up to its first end a text is one sentence, or blank.
LEMMA OneSentence ==
  ASSUME NEW p \in Seq(Symbols), SentenceEnds(p) = {}
  PROVE  /\ SentencesOf(p, TRUE) = IF Words(p) = {} THEN <<>> ELSE <<Strip(p)>>
         /\ SentencesOf(p, FALSE) = <<>>
<1>1. SentencesOf(p, FALSE) = <<>>
  <2>1. LastWords(p, FALSE) = {}
    BY DEF LastWords
  <2>2. [l \in LastWords(p, FALSE) |-> Sentence(p, l)] \in [LastWords(p, FALSE) -> Seq(Symbols)]
    BY SentencesAre
  <2> QED BY <2>1, <2>2, InOrderFew DEF SentencesOf
<1>2. CASE Words(p) = {}
  <2>1. LastWords(p, TRUE) = {}
    BY <1>2 DEF LastWords
  <2>2. [l \in LastWords(p, TRUE) |-> Sentence(p, l)] \in [LastWords(p, TRUE) -> Seq(Symbols)]
    BY SentencesAre
  <2> QED BY <1>1, <1>2, <2>1, <2>2, InOrderFew DEF SentencesOf
<1>3. CASE Words(p) # {}
  <2>1. PICK f \in Words(p), l \in Words(p) :
          /\ \A i \in Words(p) : f <= i /\ i <= l
          /\ Strip(p) = SubSeq(p, f, l)
    BY <1>3, StripIs
  <2>2. \A w \in Words(p) : w \in Nat
    BY SpeechIn
  <2>3. LastWords(p, TRUE) = {l}
    BY <1>3, <2>1, <2>2 DEF LastWords
  <2>4. SentenceWords(p, l) = Words(p)
    BY <2>1 DEF SentenceWords
  <2>5. Sentence(p, l) = SubSeq(p, f, l)
    <3>1. PICK g \in SentenceWords(p, l) :
            (\A w \in SentenceWords(p, l) : g <= w) /\ Sentence(p, l) = SubSeq(p, g, l)
      BY SentenceIs
    <3>2. g = f
      BY <2>1, <2>2, <2>4, <3>1
    <3> QED BY <3>1, <3>2
  <2> DEFINE F == [k \in LastWords(p, TRUE) |-> Sentence(p, k)]
  <2>6. F \in [LastWords(p, TRUE) -> Seq(Symbols)] /\ LastWords(p, TRUE) \in SUBSET Nat
    BY SentencesAre
  <2>7. SentencesOf(p, TRUE) = InOrder(F) /\ F[l] = Sentence(p, l)
    BY <2>3 DEF SentencesOf
  <2> HIDE DEF F
  <2>8. InOrder(F) = <<F[l]>>
    BY <2>3, <2>6, InOrderFew
  <2> QED BY <1>1, <1>3, <2>1, <2>5, <2>7, <2>8
<1> QED BY <1>2, <1>3

\* Blanks around a text do not count.
LEMMA StrippedSentences ==
  ASSUME NEW t \in Seq(Symbols), Words(t) # {}
  PROVE  SentencesOf(Strip(t), TRUE) = SentencesOf(t, TRUE)
<1>1. PICK f \in Words(t), l \in Words(t) :
        /\ \A i \in Words(t) : f <= i /\ i <= l
        /\ Strip(t) = SubSeq(t, f, l)
  BY StripIs
<1> DEFINE c == f - 1
           v == SubSeq(t, c + 1, l)
           T == LastWords(t, TRUE)
           V == LastWords(v, TRUE)
           g == [i \in T |-> Sentence(t, i)]
           h == [i \in V |-> Sentence(v, i)]
           W == Seq(Symbols)
<1>2. /\ Len(t) \in Nat /\ f \in 1..Len(t) /\ l \in 1..Len(t) /\ c \in 0..Len(t) /\ c \in Nat
      /\ l \in c..Len(t) /\ c + 1 = f /\ \A w \in Words(t) : w \in Nat /\ c < w
  <2>1. Len(t) \in Nat /\ \A w \in Words(t) : w \in 1..Len(t) /\ w \in Nat
    BY SpeechIn
  <2> QED BY <1>1, <2>1
<1>3. Strip(t) = v
  BY <1>1, <1>2
<1>4. /\ \A i \in Nat \ {0} : i \in V <=> i + c \in T
      /\ \A i \in V : Sentence(v, i) = Sentence(t, i + c)
  <2>1. c \in SentenceEnds(t) \/ \A w \in Words(t) : c < w
    BY <1>2
  <2>2. l = Len(t) \/ (TRUE /\ l \in Words(t) /\ \A w \in Words(t) : w <= l)
    BY <1>1
  <2>3. TRUE \in BOOLEAN
    OBVIOUS
  <2> HIDE DEF c
  <2> QED BY <1>2, <2>1, <2>2, <2>3, RestSentences
<1>5. v \in W
  <2>1. c + 1 \in 1..(Len(t) + 1) /\ l \in (c + 1 - 1)..Len(t)
    BY <1>2
  <2> HIDE DEF c
  <2> QED BY <2>1, Part
<1>6. T \in SUBSET Nat /\ IsFiniteSet(T) /\ g \in [T -> W] /\ T \subseteq Words(t)
  BY SentencesAre
<1>7. V \in SUBSET Nat /\ IsFiniteSet(V) /\ h \in [V -> W] /\ V \subseteq 1..Len(v)
  BY <1>5, SentencesAre
<1>8. SentencesOf(t, TRUE) = InOrder(g) /\ SentencesOf(v, TRUE) = InOrder(h)
  BY DEF SentencesOf
<1> HIDE DEF c, v, T, V, W
<1>9. \A i \in Nat : i \in V <=> i + c \in T
  <2> SUFFICES ASSUME NEW i \in Nat PROVE i \in V <=> i + c \in T
    OBVIOUS
  <2>1. CASE i = 0
    <3>1. i \notin V /\ i + c = c
      BY <1>2, <1>7, <2>1
    <3>2. c \notin T
      BY <1>2, <1>6
    <3> QED BY <3>1, <3>2
  <2>2. CASE i # 0
    BY <1>4, <2>2
  <2> QED BY <2>1, <2>2
<1>10. \A j \in T : c <= j
  BY <1>2, <1>6
<1>11. \A i \in V : g[i + c] = h[i]
  BY <1>4, <1>7, <1>9
<1>12. Shifts(W, h, V, g, T, c)
  BY <1>2, <1>6, <1>7, <1>9, <1>10, <1>11 DEF Shifts
<1> HIDE DEF g, h
<1>13. InOrder(g) = InOrder(h)
  BY <1>12, InOrderShift
<1> QED BY <1>3, <1>8, <1>13

-----------------------------------------------------------------------------
(* What is said *)

\* The sentence ends of a beginning of a text, and the text around one of them.
LEMMA Beginning ==
  ASSUME NEW t \in Seq(Symbols), NEW m \in 0..Len(t)
  PROVE  LET u == SubSeq(t, 1, m)
         IN /\ u \in Seq(Symbols) /\ Len(u) = m /\ m \in Nat
            /\ \A s : s \in SentenceEnds(u) <=> s \in SentenceEnds(t) /\ s < m
            /\ \A s \in SentenceEnds(u) :
                 /\ s \in 1..m /\ s < m
                 /\ UpTo(u, s) = SubSeq(t, 1, s) /\ From(u, s + 1) = SubSeq(t, s + 1, m)
<1> DEFINE u == SubSeq(t, 1, m)
<1>0. Len(t) \in Nat /\ m \in Nat /\ m <= Len(t) /\ \A s \in SentenceEnds(t) : s \in 1..Len(t)
  BY SpeechIn
<1>1. /\ u \in Seq(Symbols) /\ Len(u) = m
      /\ \A s : s \in SentenceEnds(u) <=> s \in SentenceEnds(t) /\ s < m
  <2>1. 0 \in 0..Len(t) /\ m \in 0..Len(t) /\ m - 0 = m /\ 0 + 1 = 1 /\ \A i \in Nat : i + 0 = i
    BY <1>0
  <2>2. /\ SubSeq(t, 0 + 1, m) \in Seq(Symbols) /\ Len(SubSeq(t, 0 + 1, m)) = m - 0
        /\ \A i : i \in SentenceEnds(SubSeq(t, 0 + 1, m))
                  <=> i \in 1..(m - 0) /\ i + 0 \in SentenceEnds(t) /\ i + 0 < m
    BY <2>1, PartOfSpeech
  <2>3. SubSeq(t, 0 + 1, m) = u
    BY <2>1
  <2> HIDE DEF u
  <2>4. \A i : i \in SentenceEnds(u) <=> i \in 1..m /\ i + 0 \in SentenceEnds(t) /\ i + 0 < m
    BY <2>1, <2>2, <2>3
  <2>5. \A i \in 1..m : i + 0 = i
    BY <1>0
  <2>6. \A i \in SentenceEnds(t) : i < m => i \in 1..m
    BY <1>0
  <2> QED BY <2>1, <2>2, <2>3, <2>4, <2>5, <2>6
<1>2. ASSUME NEW s \in SentenceEnds(u)
      PROVE  /\ s \in 1..m /\ s < m
             /\ UpTo(u, s) = SubSeq(t, 1, s) /\ From(u, s + 1) = SubSeq(t, s + 1, m)
  <2> HIDE DEF u
  <2>1. s \in 1..m /\ s < m
    BY <1>0, <1>1
  <2>2. /\ 1 \in 1..(Len(t) + 1) /\ m \in (1 - 1)..Len(t)
        /\ 1 \in 1..(m - 1 + 2) /\ s \in (1 - 1)..(m - 1 + 1)
        /\ s + 1 \in 1..(m - 1 + 2) /\ m \in (s + 1 - 1)..(m - 1 + 1)
        /\ 1 + 1 - 1 = 1 /\ 1 + s - 1 = s /\ 1 + (s + 1) - 1 = s + 1 /\ 1 + m - 1 = m
    BY <1>0, <2>1
  <2>3. SubSeq(SubSeq(t, 1, m), 1, s) = SubSeq(t, 1 + 1 - 1, 1 + s - 1)
    BY <2>2, PartOfPart
  <2>4. SubSeq(SubSeq(t, 1, m), s + 1, m) = SubSeq(t, 1 + (s + 1) - 1, 1 + m - 1)
    BY <2>2, PartOfPart
  <2> QED BY <1>1, <2>1, <2>2, <2>3, <2>4 DEF u, UpTo, From
<1> HIDE DEF u
<1> QED BY <1>0, <1>1, <1>2 DEF u

LEMMA SentencesType ==
  ASSUME NEW t \in Seq(Symbols), NEW ended
  PROVE  SentencesOf(t, ended) \in Seq(Seq(Symbols))
<1> DEFINE L == LastWords(t, ended)
           f == [l \in L |-> Sentence(t, l)]
<1>1. L \in SUBSET Nat /\ IsFiniteSet(L) /\ f \in [L -> Seq(Symbols)]
  BY SentencesAre
<1>2. SentencesOf(t, ended) = InOrder(f)
  BY DEF SentencesOf
<1> HIDE DEF L, f
<1> QED BY <1>1, <1>2, InOrderIs

\* What is given to the synthesis without an end in it counts as one sentence.
LEMMA SaidIs ==
  ASSUME NEW p \in Seq(Symbols), SentenceEnds(p) = {}, sentences \in Seq(Seq(Symbols)), Say(p)
  PROVE  sentences' = sentences \o SentencesOf(p, TRUE)
<1>1. SentencesOf(p, TRUE) = IF Words(p) = {} THEN <<>> ELSE <<Strip(p)>>
  BY OneSentence
<1>2. CASE Words(p) = {}
  <2>1. sentences \o <<>> = sentences
    BY ConcatEmptySeq
  <2> QED BY <1>1, <1>2, <2>1 DEF Say
<1>3. CASE Words(p) # {}
  <2>1. SentencesOf(p, TRUE) = <<Strip(p)>> /\ SentencesOf(p, TRUE) \in Seq(Seq(Symbols))
    BY <1>1, <1>3, SentencesType
  <2>2. Strip(p) \in Seq(Symbols)
    <3>1. PICK f \in Words(p), l \in Words(p) :
            (\A i \in Words(p) : f <= i /\ i <= l) /\ Strip(p) = SubSeq(p, f, l)
      BY <1>3, StripIs
    <3>2. Len(p) \in Nat /\ f \in 1..Len(p) /\ l \in 1..Len(p) /\ f <= l
      BY <3>1, SpeechIn
    <3>3. f \in 1..(Len(p) + 1) /\ l \in (f - 1)..Len(p)
      BY <3>2
    <3> QED BY <3>1, <3>3, Part
  <2>3. sentences' = Append(sentences, Strip(p))
    BY <1>3 DEF Say
  <2>4. Append(sentences, Strip(p)) = sentences \o <<Strip(p)>>
    BY <2>2, AppendIsConcat
  <2> QED BY <2>1, <2>3, <2>4
<1> QED BY <1>2, <1>3

\* The released text only grows, and no more once the reply is finished.
LEMMA ReleaseGrows ==
  ASSUME Extracted, ResultInv, Next
  PROVE  raw' = raw /\ Len(released) <= Len(released') /\ ~Finished
<1>0. /\ raw \in Seq(Symbols) /\ released \in Seq(Symbols) /\ Len(raw) \in Nat
      /\ Len(released) \in 0..fed /\ fed \in 0..Len(raw)
      /\ ~found => pending = SubSeq(raw, Len(released) + 1, fed)
  BY LenProperties DEF Extracted
<1>1. ~found => pending \in Seq(Symbols)
  <2>1. Len(released) + 1 \in 1..(Len(raw) + 1) /\ fed \in (Len(released) + 1 - 1)..Len(raw)
    BY <1>0
  <2>2. SubSeq(raw, Len(released) + 1, fed) \in Seq(Symbols)
    BY <1>0, <2>1, Part
  <2> QED BY <1>0, <2>2
<1>2. ASSUME NEW x \in Seq(Symbols), released' = released \o x
      PROVE  Len(released) <= Len(released')
  <2>1. Len(released') = Len(released) + Len(x) /\ Len(x) \in Nat /\ Len(released) \in Nat
    BY <1>0, <1>2, ConcatProperties, LenProperties
  <2> QED BY <2>1
<1>3. CASE Feed
  <2>1. PICK n \in 1..(Len(raw) - fed) :
          LET delta == SubSeq(raw, fed + 1, fed + n) IN
          /\ FeedLabel(delta) \/ FeedMarker(delta) \/ FeedText(delta)
          /\ UNCHANGED <<raw, result>>
    BY <1>3 DEF Feed
  <2> DEFINE delta == SubSeq(raw, fed + 1, fed + n)
             text == pending \o delta
  <2>2. ~Finished
    BY <1>0, <2>1 DEF ResultInv
  <2> SUFFICES Len(released) <= Len(released')
    BY <2>1, <2>2
  <2>3. delta \in Seq(Symbols)
    <3>1. fed + 1 \in 1..(Len(raw) + 1) /\ fed + n \in (fed + 1 - 1)..Len(raw)
      BY <1>0
    <3> QED BY <1>0, <3>1, Part
  <2> HIDE DEF delta
  <2>4. ~found => text \in Seq(Symbols)
    BY <1>1, <2>3, ConcatProperties
  <2> HIDE DEF text
  <2>5. \A t \in Seq(Symbols) : \A k \in 0..Len(t) : UpTo(t, k) \in Seq(Symbols)
    <3> SUFFICES ASSUME NEW t \in Seq(Symbols), NEW k \in 0..Len(t) PROVE UpTo(t, k) \in Seq(Symbols)
      OBVIOUS
    <3>1. 1 \in 1..(Len(t) + 1) /\ k \in (1 - 1)..Len(t)
      BY LenProperties
    <3> QED BY <3>1, Part DEF UpTo
  <2>6. CASE FeedLabel(delta)
    BY <1>0, <2>6 DEF FeedLabel
  <2>7. CASE FeedMarker(delta)
    <3>1. /\ HasMarker(text) /\ text \in Seq(Symbols)
          /\ released' = released \o StripRight(UpTo(text, Find(text) - 1))
      BY <2>4, <2>7 DEF FeedMarker, text
    <3>2. Find(text) \in 1..Len(text) /\ Len(text) \in Nat
      BY <3>1, FindFirst, LenProperties
    <3>3. Find(text) - 1 \in 0..Len(text)
      BY <3>2
    <3>4. UpTo(text, Find(text) - 1) \in Seq(Symbols)
      BY <2>5, <3>1, <3>3
    <3> DEFINE w == UpTo(text, Find(text) - 1)
    <3> HIDE DEF w
    <3>5. w \in Seq(Symbols)
      BY <3>4 DEF w
    <3>6. StripRight(w) \in Seq(Symbols)
      BY <2>5, <3>5, StripRightIsPrefix
    <3> QED BY <1>2, <3>1, <3>6 DEF w
  <2>8. CASE FeedText(delta)
    <3> DEFINE cut == IF Len(text) > HoldBack THEN Len(text) - HoldBack ELSE 0
    <3>1. text \in Seq(Symbols) /\ released' = released \o UpTo(text, cut)
      BY <2>4, <2>8 DEF FeedText, text
    <3>2. cut \in 0..Len(text)
      <4>1. Len(text) \in Nat /\ Len(Marker) \in Nat \ {0}
        BY <3>1, LenProperties, EmptySeq, MarkerAssumption
      <4> QED BY <4>1 DEF HoldBack
    <3> HIDE DEF cut
    <3> QED BY <1>2, <2>5, <3>1, <3>2
  <2> QED BY <2>1, <2>2, <2>6, <2>7, <2>8 DEF delta
<1>4. CASE Finalize
  <2>1. raw' = raw /\ ~Finished /\ released' = IF found THEN released ELSE released \o pending
    BY <1>4 DEF Finalize, Finished
  <2> QED BY <1>0, <1>1, <1>2, <2>1
<1> QED BY <1>3, <1>4 DEF Next

\* What has arrived in tts_node ends, as the buffer does, with what is not spoken
\* yet; it is cut at one of its sentence ends, and its sentences up to there are
\* what was spoken.
Arrived == SubSeq(raw, 1, taken)

SaidUpTo(s) ==
  /\ s \in SentenceEnds(Arrived)
  /\ buffer = From(Arrived, s + 1)
  /\ sentences = SentencesOf(UpTo(Arrived, s), TRUE)

SpokenInv ==
  /\ taken \in 0..Len(released)
  /\ voice # "done" =>
       (buffer = Arrived /\ sentences = <<>>) \/ \E s \in 1..taken : SaidUpTo(s)
  /\ voice = "done" =>
       Finished /\ taken = Len(released) /\ sentences = SentencesOf(Arrived, TRUE)

\* What arrived is a part of the completion and of what was released.
LEMMA ArrivedIs ==
  ASSUME Extracted, taken \in 0..Len(released)
  PROVE  /\ raw \in Seq(Symbols) /\ Len(raw) \in Nat /\ Len(released) \in 0..Len(raw)
         /\ taken \in 0..Len(raw)
         /\ Arrived \in Seq(Symbols) /\ Len(Arrived) = taken
         /\ Arrived = UpTo(released, taken)
         /\ \A n \in 1..(Len(released) - taken) :
              SubSeq(released, taken + 1, taken + n) = SubSeq(raw, taken + 1, taken + n)
<1> DEFINE r == Len(released)
<1>1. /\ raw \in Seq(Symbols) /\ Len(raw) \in Nat /\ r \in 0..Len(raw) /\ taken \in 0..Len(raw)
      /\ released = SubSeq(raw, 1, r)
  BY LenProperties DEF Extracted
<1>2. Arrived \in Seq(Symbols) /\ Len(Arrived) = taken
  BY <1>1, Beginning DEF Arrived
<1> HIDE DEF r
<1>3. 1 \in 1..(Len(raw) + 1) /\ r \in (1 - 1)..Len(raw) /\ taken \in 0..r
  BY <1>1 DEF r
<1>4. Arrived = UpTo(released, taken)
  <2>1. /\ 1 \in 1..(r - 1 + 2) /\ taken \in (1 - 1)..(r - 1 + 1)
        /\ 1 + 1 - 1 = 1 /\ 1 + taken - 1 = taken
    BY <1>1, <1>3
  <2>2. SubSeq(SubSeq(raw, 1, r), 1, taken) = SubSeq(raw, 1 + 1 - 1, 1 + taken - 1)
    BY <1>1, <1>3, <2>1, PartOfPart
  <2> QED BY <1>1, <2>1, <2>2 DEF Arrived, UpTo
<1>5. ASSUME NEW n \in 1..(r - taken)
      PROVE  SubSeq(released, taken + 1, taken + n) = SubSeq(raw, taken + 1, taken + n)
  <2>1. /\ taken + 1 \in 1..(r - 1 + 2) /\ taken + n \in (taken + 1 - 1)..(r - 1 + 1)
        /\ 1 + (taken + 1) - 1 = taken + 1 /\ 1 + (taken + n) - 1 = taken + n
    BY <1>1, <1>3
  <2>2. SubSeq(SubSeq(raw, 1, r), taken + 1, taken + n)
          = SubSeq(raw, 1 + (taken + 1) - 1, 1 + (taken + n) - 1)
    BY <1>1, <1>3, <2>1, PartOfPart
  <2> QED BY <1>1, <2>1, <2>2
<1> QED BY <1>1, <1>2, <1>4, <1>5 DEF r

\* What is not spoken yet, and what was.
LEMMA SpokenTypes ==
  ASSUME Extracted, SpokenInv, voice # "done"
  PROVE  buffer \in Seq(Symbols) /\ sentences \in Seq(Seq(Symbols))
<1>1. Arrived \in Seq(Symbols) /\ Len(Arrived) = taken /\ taken \in Nat
  BY ArrivedIs DEF SpokenInv
<1>2. CASE buffer = Arrived /\ sentences = <<>>
  BY <1>1, <1>2
<1>3. ASSUME NEW s \in 1..taken, SaidUpTo(s)
      PROVE  buffer \in Seq(Symbols) /\ sentences \in Seq(Seq(Symbols))
  <2> DEFINE T == Arrived
  <2>1. buffer = SubSeq(T, s + 1, taken) /\ sentences = SentencesOf(SubSeq(T, 1, s), TRUE)
    BY <1>1, <1>3 DEF SaidUpTo, From, UpTo
  <2>2. T \in Seq(Symbols) /\ Len(T) = taken
    BY <1>1
  <2> HIDE DEF T
  <2>3. /\ s + 1 \in 1..(Len(T) + 1) /\ taken \in (s + 1 - 1)..Len(T)
        /\ 1 \in 1..(Len(T) + 1) /\ s \in (1 - 1)..Len(T)
    BY <1>1, <2>2
  <2>4. SubSeq(T, s + 1, taken) \in Seq(Symbols) /\ SubSeq(T, 1, s) \in Seq(Symbols)
    BY <2>2, <2>3, Part
  <2>5. SentencesOf(SubSeq(T, 1, s), TRUE) \in Seq(Seq(Symbols))
    BY <2>4, SentencesType
  <2> QED BY <2>1, <2>4, <2>5
<1> QED BY <1>2, <1>3 DEF SpokenInv

\* A chunk arrives.
LEMMA TakeSpoken ==
  ASSUME Extracted, SpokenInv, Take
  PROVE  SpokenInv'
<1>1. PICK n \in 1..(Len(released) - taken) :
        /\ buffer' = buffer \o SubSeq(released, taken + 1, taken + n)
        /\ taken' = taken + n
  BY DEF Take
<1>2. UNCHANGED <<raw, released, sentences, voice>> /\ voice = "on"
  BY DEF Take, vars
<1> DEFINE m == taken + n
<1>3. /\ raw \in Seq(Symbols) /\ Len(raw) \in Nat /\ Len(released) \in 0..Len(raw)
      /\ taken \in 0..Len(raw) /\ taken \in 0..Len(released)
      /\ SubSeq(released, taken + 1, taken + n) = SubSeq(raw, taken + 1, taken + n)
  BY ArrivedIs DEF SpokenInv
<1>4. /\ taken' \in 0..Len(released') /\ m \in 0..Len(raw) /\ m \in taken..Len(raw) /\ taken < m
      /\ Arrived' = SubSeq(raw, 1, m)
  BY <1>1, <1>2, <1>3 DEF Arrived
<1>5. buffer' = buffer \o SubSeq(raw, taken + 1, m)
  BY <1>1, <1>3
<1> HIDE DEF m
<1>6. CASE buffer = Arrived /\ sentences = <<>>
  <2>1. 1 \in 1..(Len(raw) + 1) /\ taken \in (1 - 1)..Len(raw)
    BY <1>3
  <2>2. SubSeq(raw, 1, taken) \o SubSeq(raw, taken + 1, m) = SubSeq(raw, 1, m)
    BY <1>3, <1>4, <2>1, Adjacent
  <2> QED BY <1>2, <1>4, <1>5, <1>6, <2>2 DEF SpokenInv, Arrived
<1>7. ASSUME NEW s \in 1..taken, SaidUpTo(s) PROVE SpokenInv'
  <2>1. s \in SentenceEnds(SubSeq(raw, 1, taken))
    BY <1>7 DEF SaidUpTo, Arrived
  <2>2. /\ s \in SentenceEnds(raw) /\ s < taken
        /\ UpTo(SubSeq(raw, 1, taken), s) = SubSeq(raw, 1, s)
        /\ From(SubSeq(raw, 1, taken), s + 1) = SubSeq(raw, s + 1, taken)
    BY <1>3, <2>1, Beginning
  <2>3. s \in SentenceEnds(SubSeq(raw, 1, m)) /\ s \in 1..m
    <3>1. s < m /\ s \in 1..m
      BY <1>3, <1>4, <2>2
    <3> QED BY <1>4, <1>3, <2>2, <3>1, Beginning
  <2>4. /\ UpTo(SubSeq(raw, 1, m), s) = SubSeq(raw, 1, s)
        /\ From(SubSeq(raw, 1, m), s + 1) = SubSeq(raw, s + 1, m)
    BY <1>3, <1>4, <2>3, Beginning
  <2>5. buffer = SubSeq(raw, s + 1, taken) /\ sentences = SentencesOf(SubSeq(raw, 1, s), TRUE)
    BY <1>7, <2>2 DEF SaidUpTo, Arrived
  <2>6. s + 1 \in 1..(Len(raw) + 1) /\ taken \in (s + 1 - 1)..Len(raw)
    BY <1>3, <2>2
  <2>7. SubSeq(raw, s + 1, taken) \o SubSeq(raw, taken + 1, m) = SubSeq(raw, s + 1, m)
    BY <1>3, <1>4, <2>6, Adjacent
  <2>8. SaidUpTo(s)'
    BY <1>2, <1>4, <1>5, <2>3, <2>4, <2>5, <2>7 DEF SaidUpTo
  <2>9. s \in 1..taken'
    BY <1>1, <2>3 DEF m
  <2> QED BY <1>2, <1>4, <2>8, <2>9 DEF SpokenInv
<1> QED BY <1>2, <1>6, <1>7 DEF SpokenInv

\* The text up to the next sentence end is spoken.
LEMMA SpeakSpoken ==
  ASSUME Extracted, SpokenInv, SpeakSentence
  PROVE  SpokenInv'
<1> DEFINE T == Arrived
<1>1. /\ voice = "on" /\ HasSentence
      /\ Say(UpTo(buffer, SentenceEnd)) /\ buffer' = From(buffer, SentenceEnd + 1)
      /\ UNCHANGED <<raw, released, taken, voice>>
  BY DEF SpeakSentence, vars
<1>2. T \in Seq(Symbols) /\ Len(T) = taken /\ taken \in Nat
  BY ArrivedIs DEF SpokenInv
<1>3. T' = T
  BY <1>1 DEF Arrived
<1>4. buffer \in Seq(Symbols) /\ sentences \in Seq(Seq(Symbols))
  BY <1>1, SpokenTypes
<1>5. PICK e \in SentenceEnds(buffer) :
        e = SentenceEnd /\ \A j \in SentenceEnds(buffer) : e <= j
  <2>1. SentenceEnds(buffer) \in SUBSET Nat /\ SentenceEnds(buffer) # {}
    BY <1>1, <1>4, SpeechIn DEF HasSentence
  <2>2. \E i \in SentenceEnds(buffer) : \A j \in SentenceEnds(buffer) : i <= j
    BY <2>1, Least
  <2> QED BY <2>2 DEF SentenceEnd
<1> DEFINE p == UpTo(buffer, e)
<1>6. Say(p) /\ buffer' = From(buffer, e + 1)
  BY <1>1, <1>5
<1> HIDE DEF T
<1>7. p \in Seq(Symbols) /\ SentenceEnds(p) = {} /\ e \in 1..Len(buffer) /\ Len(buffer) \in Nat
  <2>1. e \in 1..Len(buffer) /\ Len(buffer) \in Nat /\ \A j \in SentenceEnds(buffer) : j \in Nat
    BY <1>4, <1>5, SpeechIn
  <2>2. e \in 0..Len(buffer)
    BY <2>1
  <2>3. p \in Seq(Symbols) /\ \A j \in SentenceEnds(p) : j \in SentenceEnds(buffer) /\ j < e
    BY <1>4, <2>2, Beginning DEF UpTo
  <2> HIDE DEF p
  <2>4. \A j \in SentenceEnds(p) : FALSE
    BY <1>5, <2>1, <2>3
  <2> QED BY <2>1, <2>3, <2>4
<1>8. sentences' = sentences \o SentencesOf(p, TRUE)
  <2> HIDE DEF p
  <2> QED BY <1>6, <1>4, <1>7, SaidIs
<1>9. CASE buffer = T /\ sentences = <<>>
  <2>1. sentences' = SentencesOf(p, TRUE)
    BY <1>7, <1>8, <1>9, SentencesType, ConcatEmptySeq
  <2>2. SaidUpTo(e)'
    BY <1>6, <1>3, <1>5, <1>9, <2>1 DEF SaidUpTo, T
  <2>3. e \in 1..taken'
    BY <1>1, <1>2, <1>7, <1>9
  <2> QED BY <1>1, <2>2, <2>3 DEF SpokenInv
<1>10. ASSUME NEW s \in 1..taken, SaidUpTo(s) PROVE SpokenInv'
  <2> DEFINE k == e + s
             u == UpTo(T, k)
  <2>1. /\ s \in SentenceEnds(T) /\ buffer = SubSeq(T, s + 1, taken)
        /\ sentences = SentencesOf(UpTo(T, s), TRUE)
    BY <1>2, <1>10 DEF SaidUpTo, From, T
  <2>2. s \in 0..Len(T) /\ taken \in s..Len(T)
    BY <1>2
  <2>3. Len(buffer) = taken - s /\ k \in SentenceEnds(T) /\ k < taken
    <3>1. /\ Len(SubSeq(T, s + 1, taken)) = taken - s
          /\ \A i : i \in SentenceEnds(SubSeq(T, s + 1, taken))
                    <=> i \in 1..(taken - s) /\ i + s \in SentenceEnds(T) /\ i + s < taken
      BY <1>2, <2>2, PartOfSpeech
    <3> QED BY <1>5, <2>1, <3>1
  <2>4. k \in 0..Len(T) /\ k \in Nat /\ s < k /\ k \in 1..taken
    BY <1>2, <1>7, <2>3
  <2>5. /\ u \in Seq(Symbols) /\ s \in SentenceEnds(u)
        /\ UpTo(u, s) = UpTo(T, s) /\ From(u, s + 1) = SubSeq(T, s + 1, k)
    <3> HIDE DEF k
    <3>1. /\ SubSeq(T, 1, k) \in Seq(Symbols) /\ s \in SentenceEnds(SubSeq(T, 1, k))
      BY <1>2, <2>1, <2>4, Beginning
    <3>2. /\ UpTo(SubSeq(T, 1, k), s) = SubSeq(T, 1, s)
          /\ From(SubSeq(T, 1, k), s + 1) = SubSeq(T, s + 1, k)
      BY <1>2, <2>4, <3>1, Beginning
    <3> QED BY <3>1, <3>2 DEF UpTo
  <2>6. SubSeq(T, s + 1, k) = p /\ From(buffer, e + 1) = From(T, k + 1)
    <3>1. /\ s + 1 \in 1..(Len(T) + 1) /\ taken \in (s + 1 - 1)..Len(T)
          /\ 1 \in 1..(taken - (s + 1) + 2) /\ e \in (1 - 1)..(taken - (s + 1) + 1)
          /\ e + 1 \in 1..(taken - (s + 1) + 2)
          /\ taken - s \in (e + 1 - 1)..(taken - (s + 1) + 1)
          /\ s + 1 + 1 - 1 = s + 1 /\ s + 1 + e - 1 = k
          /\ s + 1 + (e + 1) - 1 = k + 1 /\ s + 1 + (taken - s) - 1 = taken
      BY <1>2, <1>7, <2>3
    <3>2. SubSeq(SubSeq(T, s + 1, taken), 1, e) = SubSeq(T, s + 1 + 1 - 1, s + 1 + e - 1)
      BY <1>2, <3>1, PartOfPart
    <3>3. SubSeq(SubSeq(T, s + 1, taken), e + 1, taken - s)
            = SubSeq(T, s + 1 + (e + 1) - 1, s + 1 + (taken - s) - 1)
      BY <1>2, <3>1, PartOfPart
    <3> QED BY <1>2, <2>1, <2>3, <3>1, <3>2, <3>3 DEF UpTo, From
  <2> HIDE DEF k, u, p
  <2>7. SentencesOf(u, TRUE) = SentencesOf(UpTo(u, s), TRUE) \o SentencesOf(From(u, s + 1), TRUE)
    BY <2>5, SentencesSplit
  <2>8. sentences' = SentencesOf(UpTo(T, k), TRUE)
    BY <1>8, <2>1, <2>5, <2>6, <2>7 DEF u
  <2>9. SaidUpTo(k)'
    BY <1>6, <1>3, <2>3, <2>6, <2>8 DEF SaidUpTo, T
  <2> QED BY <1>1, <2>4, <2>9 DEF SpokenInv
<1> QED BY <1>1, <1>9, <1>10 DEF SpokenInv, T

\* What is left when the text has ended is spoken.
LEMMA RestSpoken ==
  ASSUME Extracted, SpokenInv, SpeakRest
  PROVE  SpokenInv'
<1>1. /\ voice = "on" /\ ~HasSentence /\ TextEnded /\ Say(buffer) /\ voice' = "done"
      /\ UNCHANGED <<raw, released, result, taken>>
  BY DEF SpeakRest, vars
<1>2. Arrived \in Seq(Symbols) /\ Len(Arrived) = taken /\ taken \in Nat
  BY ArrivedIs DEF SpokenInv
<1>3. buffer \in Seq(Symbols) /\ sentences \in Seq(Seq(Symbols)) /\ SentenceEnds(buffer) = {}
  BY <1>1, SpokenTypes DEF HasSentence
<1>4. sentences' = sentences \o SentencesOf(buffer, TRUE)
  BY <1>1, <1>3, SaidIs
<1>5. sentences' = SentencesOf(Arrived, TRUE)
  <2>1. CASE buffer = Arrived /\ sentences = <<>>
    BY <1>2, <1>4, <2>1, SentencesType, ConcatEmptySeq
  <2>2. ASSUME NEW s \in 1..taken, SaidUpTo(s) PROVE sentences' = SentencesOf(Arrived, TRUE)
    <3>1. /\ s \in SentenceEnds(Arrived) /\ buffer = From(Arrived, s + 1)
          /\ sentences = SentencesOf(UpTo(Arrived, s), TRUE)
      BY <2>2 DEF SaidUpTo
    <3> QED BY <1>2, <1>4, <3>1, SentencesSplit
  <2> QED BY <1>1, <2>1, <2>2 DEF SpokenInv
<1>6. Arrived' = Arrived /\ Finished' /\ taken' = Len(released') /\ taken' \in 0..Len(released')
  BY <1>1, <1>2 DEF Arrived, TextEnded, Finished
<1> QED BY <1>1, <1>5, <1>6 DEF SpokenInv

LEMMA SpokenStep ==
  Extracted /\ ResultInv /\ SpokenInv /\ [SynthesisNext]_<<vars, tts>> => SpokenInv'
<1> SUFFICES ASSUME Extracted, ResultInv, SpokenInv, [SynthesisNext]_<<vars, tts>>
             PROVE  SpokenInv'
  OBVIOUS
<1>1. CASE Next /\ UNCHANGED tts
  <2>1. raw' = raw /\ Len(released) <= Len(released') /\ ~Finished
    BY <1>1, ReleaseGrows
  <2>2. UNCHANGED <<taken, buffer, sentences, voice>>
    BY <1>1 DEF tts
  <2>3. /\ Arrived' = Arrived
        /\ \A s \in 1..taken : SaidUpTo(s) => SaidUpTo(s)'
    BY <2>1, <2>2 DEF Arrived, SaidUpTo
  <2>4. taken' \in 0..Len(released')
    <3>1. released' \in Seq(Symbols)
      BY <1>1, ExtractedStep DEF Extracted
    <3>2. Len(released') \in Nat /\ Len(released) \in Nat /\ taken \in 0..Len(released)
      BY <3>1, LenProperties DEF Extracted, SpokenInv
    <3> QED BY <2>1, <2>2, <3>2
  <2>5. voice # "done"
    BY <2>1 DEF SpokenInv
  <2> QED BY <2>2, <2>3, <2>4, <2>5 DEF SpokenInv
<1>2. CASE Take
  BY <1>2, TakeSpoken
<1>3. CASE SpeakSentence
  BY <1>3, SpeakSpoken
<1>4. CASE SpeakRest
  BY <1>4, RestSpoken
<1>5. CASE SynthesisFails
  <2>1. /\ voice = "on" /\ voice' = "failed"
        /\ UNCHANGED <<raw, released, taken, buffer, sentences>>
    BY <1>5 DEF SynthesisFails, vars
  <2>2. /\ Arrived' = Arrived
        /\ \A s \in 1..taken : SaidUpTo(s) => SaidUpTo(s)'
    BY <2>1 DEF Arrived, SaidUpTo
  <2> QED BY <2>1, <2>2 DEF SpokenInv
<1>6. CASE UNCHANGED <<vars, tts>>
  <2>1. UNCHANGED <<raw, released, result, taken, buffer, sentences, voice>>
    BY <1>6 DEF vars, tts
  <2>2. /\ Arrived' = Arrived /\ (Finished => Finished')
        /\ \A s \in 1..taken : SaidUpTo(s) => SaidUpTo(s)'
    BY <2>1 DEF Arrived, SaidUpTo, Finished
  <2> QED BY <2>1, <2>2 DEF SpokenInv
<1> QED BY <1>1, <1>2, <1>3, <1>4, <1>5, <1>6 DEF SynthesisNext

\* The voice only reads what the streaming reader releases: with it the reader
\* behaves as it does alone, and what is proved of the reader holds.
THEOREM VoiceOnlyListens == SynthesisSpec => Spec
<1>1. SynthesisInit => Init
  BY DEF SynthesisInit
<1>2. [SynthesisNext]_<<vars, tts>> => [Next]_vars
  BY DEF SynthesisNext, Take, SpeakSentence, SpeakRest, SynthesisFails
<1> QED BY <1>1, <1>2, PTL DEF SynthesisSpec, Spec

LEMMA SpokenHolds == SynthesisSpec => [](Extracted /\ ResultInv /\ SpokenInv)
<1>1. SynthesisInit => Extracted /\ ResultInv /\ SpokenInv
  <2> SUFFICES ASSUME SynthesisInit PROVE Extracted /\ ResultInv /\ SpokenInv
    OBVIOUS
  <2>1. Init /\ taken = 0 /\ buffer = <<>> /\ sentences = <<>> /\ voice = "on" /\ released = <<>>
    BY DEF SynthesisInit, Init
  <2>2. Extracted /\ ResultInv
    BY <2>1, ExtractedInit, ResultInit
  <2>3. taken \in 0..Len(released)
    BY <2>1, EmptySeq
  <2>4. buffer = Arrived
    <3>1. Arrived \in Seq(Symbols) /\ Len(Arrived) = 0
      BY <2>1, <2>2, <2>3, ArrivedIs
    <3> QED BY <2>1, <3>1, EmptySeq
  <2> QED BY <2>1, <2>2, <2>3, <2>4 DEF SpokenInv
<1>2. [SynthesisNext]_<<vars, tts>> => [Next]_vars
  BY DEF SynthesisNext, Take, SpeakSentence, SpeakRest, SynthesisFails
<1>3. Extracted /\ ResultInv /\ SpokenInv /\ [SynthesisNext]_<<vars, tts>>
        => Extracted' /\ ResultInv' /\ SpokenInv'
  BY <1>2, ExtractedStep, ResultStep, SpokenStep
<1> QED BY <1>1, <1>3, PTL DEF SynthesisSpec

\* However the completion is cut into deltas and the released text into chunks, what
\* was spoken and what is still to be spoken are the sentences of what has arrived.
THEOREM CutsNeverMatter == SynthesisSpec => []CutsDoNotMatter
<1>1. Extracted /\ ResultInv /\ SpokenInv => CutsDoNotMatter
  <2> SUFFICES ASSUME Extracted, SpokenInv, voice # "done"
               PROVE  sentences \o SentencesOf(buffer, FALSE)
                        = SentencesOf(UpTo(released, taken), FALSE)
    BY DEF CutsDoNotMatter
  <2>1. Arrived \in Seq(Symbols) /\ Arrived = UpTo(released, taken)
    BY ArrivedIs DEF SpokenInv
  <2>2. CASE buffer = Arrived /\ sentences = <<>>
    BY <2>1, <2>2, SentencesType, ConcatEmptySeq
  <2>3. ASSUME NEW s \in 1..taken, SaidUpTo(s)
        PROVE  sentences \o SentencesOf(buffer, FALSE) = SentencesOf(Arrived, FALSE)
    BY <2>1, <2>3, SentencesSplit DEF SaidUpTo
  <2> QED BY <2>1, <2>2, <2>3 DEF SpokenInv
<1> QED BY <1>1, SpokenHolds, PTL

\* When the last sentence of a streamed reply was given to the synthesis, the same
\* sentences were as for a reply parsed whole and spoken in one piece.
THEOREM AlwaysHeardTheSame == SynthesisSpec => []HeardTheSame
<1>1. Extracted /\ ResultInv /\ SpokenInv => HeardTheSame
  <2> SUFFICES ASSUME Extracted, ResultInv, SpokenInv, voice = "done", Words(Speech) # {}
               PROVE  sentences = SentencesOf(Parse(raw).text, TRUE)
    BY DEF HeardTheSame
  <2>1. Finished /\ taken = Len(released) /\ sentences = SentencesOf(Arrived, TRUE)
    BY DEF SpokenInv
  <2>2. raw \in Seq(Symbols) /\ Arrived \in Seq(Symbols) /\ Arrived = released
    <3>1. raw \in Seq(Symbols) /\ Arrived \in Seq(Symbols) /\ released = SubSeq(raw, 1, taken)
      BY <2>1, ArrivedIs DEF SpokenInv, Extracted
    <3> QED BY <3>1 DEF Arrived
  <2>3. Strip(Speech) # <<>>
    <3>1. Speech \in Seq(Symbols)
      BY <2>2, SpeechType
    <3> QED BY <3>1, StripWords
  <2>4. Strip(released) = Parse(raw).text
    BY <2>1, <2>3, AgreeWhenFinished DEF ReadersAgree, ResultInv
  <2>5. Parse(raw).text # <<>>
    BY <2>3 DEF Parse, Speech
  <2>6. Words(released) # {}
    <3>1. CASE Words(released) = {}
      BY <2>4, <2>5, <3>1, StripBlank, StripNothing
    <3> QED BY <3>1
  <2> QED BY <2>1, <2>2, <2>4, <2>6, StrippedSentences
<1> QED BY <1>1, SpokenHolds, PTL

=============================================================================
