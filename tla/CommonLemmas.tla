---------------------------- MODULE CommonLemmas ----------------------------
(***************************************************************************)
(* What several of the proofs need: least and greatest elements of sets of *)
(* natural numbers, for the operators that CHOOSE a first or a last        *)
(* position, and what trimming does to a history, whoever keeps it.        *)
(***************************************************************************)
EXTENDS History, FiniteSetTheorems, SequenceTheorems, WellFoundedInduction, TLAPS, FunctionTheorems

\* Every non-empty set of natural numbers has a least element.
LEMMA Least ==
  ASSUME NEW T \in SUBSET Nat, T # {}
  PROVE  \E x \in T : \A y \in T : x <= y
<1> DEFINE R == OpToRel(<, Nat)
<1>1. IsWellFoundedOn(R, Nat)
  BY NatLessThanWellFounded
<1>2. \A x, y \in Nat : <<y, x>> \in R <=> y < x
  BY DEF OpToRel
<1> HIDE DEF R
<1>3. PICK x \in T : \A y \in T : ~(<<y, x>> \in R)
  BY <1>1, WFMin
<1>4. \A y \in T : y \in Nat
  OBVIOUS
<1>5. \A y \in T : ~(y < x)
  BY <1>2, <1>3, <1>4
<1>6. \A y \in T : x <= y
  <2> HIDE DEF R
  <2> QED BY <1>4, <1>5
<1> QED BY <1>6

\* Every non-empty bounded set of natural numbers has a greatest element.
LEMMA Greatest ==
  ASSUME NEW T \in SUBSET Nat, T # {}, NEW bound \in Nat, \A t \in T : t <= bound
  PROVE  \E x \in T : \A y \in T : y <= x
<1> DEFINE Gaps == {bound - t : t \in T}
<1>1. \A t \in T : t \in Nat /\ bound - t \in Nat
  OBVIOUS
<1>2. Gaps \in SUBSET Nat /\ Gaps # {}
  BY <1>1
<1>3. PICK d \in Gaps : \A e \in Gaps : d <= e
  <2> HIDE DEF Gaps
  <2> QED BY <1>2, Least
<1>4. PICK x \in T : d = bound - x
  BY <1>3
<1>5. \A t \in T : bound - x <= bound - t
  BY <1>3, <1>4
<1> QED BY <1>1, <1>4, <1>5

-----------------------------------------------------------------------------
(* Trimming *)

\* A history that is longer than the n turns to keep has a first message to keep.
LEMMA CutoffExists ==
  ASSUME NEW users \in SUBSET Nat, NEW last \in Nat, \A u \in users : u <= last,
         NEW n \in Nat \ {0}, users # {}
  PROVE  \E i \in users :
            /\ Cardinality({j \in users : j >= i}) <= n
            /\ \A k \in users : k < i => ~(Cardinality({j \in users : j >= k}) <= n)
<1> DEFINE Few(i) == Cardinality({j \in users : j >= i}) <= n
<1>1. PICK latest \in users : \A u \in users : u <= latest
  BY Greatest
<1>2. {j \in users : j >= latest} = {latest}
  <2>1. \A u \in users : u \in Nat
    OBVIOUS
  <2>2. \A j \in users : j >= latest <=> j = latest
    BY <1>1, <2>1
  <2> QED BY <2>2, Zenon
<1>3. Few(latest)
  <2>1. Cardinality({latest}) = 1
    BY FS_Singleton
  <2>2. Cardinality({j \in users : j >= latest}) = 1
    BY <1>2, <2>1, Zenon
  <2> QED BY <2>2
<1>4. PICK i \in {c \in users : Few(c)} : \A y \in {c \in users : Few(c)} : i <= y
  <2> HIDE DEF Few
  <2> {c \in users : Few(c)} \in SUBSET Nat /\ {c \in users : Few(c)} # {}
    BY <1>3
  <2> QED BY Least
<1>5. i \in users /\ Few(i) /\ \A k \in users : k < i => ~Few(k)
  <2> HIDE DEF Few
  <2>1. \A u \in users : u \in Nat
    OBVIOUS
  <2> QED BY <1>4, <2>1
<1> QED BY <1>5

\* The messages at or after position i that start a turn.
UsersFrom(h, i) == {j \in UserIndices(h) : j >= i}

LEMMA HistoryPlaces ==
  ASSUME NEW M, NEW h \in Seq(M)
  PROVE  /\ Len(h) \in Nat /\ DOMAIN h = 1..Len(h)
         /\ \A i \in DOMAIN h : i \in Nat \ {0} /\ h[i] \in M
         /\ UserIndices(h) \in SUBSET Nat /\ UserIndices(h) \subseteq DOMAIN h
         /\ \A i \in UserIndices(h) : i \in DOMAIN h /\ i <= Len(h) /\ h[i].role = "user"
         /\ IsFiniteSet(UserIndices(h)) /\ Cardinality(UserIndices(h)) \in Nat
<1>1. Len(h) \in Nat /\ DOMAIN h = 1..Len(h) /\ \A i \in 1..Len(h) : h[i] \in M
  BY LenProperties, ElementOfSeq
<1>2. UserIndices(h) \subseteq 1..Len(h) /\ \A i \in UserIndices(h) : h[i].role = "user"
  BY <1>1 DEF UserIndices
<1>3. IsFiniteSet(1..Len(h))
  BY <1>1, FS_Interval
<1>4. IsFiniteSet(UserIndices(h)) /\ Cardinality(UserIndices(h)) \in Nat
  BY <1>2, <1>3, FS_Subset, FS_CardinalityType
<1> QED BY <1>1, <1>2, <1>4

\* A history with n turns or fewer is kept; of a longer one, what follows the
\* first user message with no more than n from there on.
LEMMA LastTurnsIsSuffix ==
  ASSUME NEW M, NEW h \in Seq(M), NEW n \in Nat \ {0}
  PROVE  \/ LastTurns(h, n) = h /\ Cardinality(UserIndices(h)) <= n
         \/ \E c \in UserIndices(h) :
              /\ LastTurns(h, n) = SubSeq(h, c, Len(h))
              /\ Cardinality(UsersFrom(h, c)) <= n
              /\ \A k \in UserIndices(h) : k < c => ~(Cardinality(UsersFrom(h, k)) <= n)
<1> DEFINE users == UserIndices(h)
           Cut(i) == /\ Cardinality({j \in users : j >= i}) <= n
                     /\ \A k \in users :
                          k < i => ~(Cardinality({j \in users : j >= k}) <= n)
           cutoff == CHOOSE i \in users : Cut(i)
<1>1. CASE Cardinality(users) <= n
  BY <1>1 DEF LastTurns
<1>2. CASE ~(Cardinality(users) <= n)
  <2>1. users # {}
    <3> HIDE DEF users
    <3>1. users = {} => Cardinality(users) = 0
      BY FS_EmptySet
    <3> QED BY <1>2, <3>1
  <2>2. \E i \in users : Cut(i)
    <3>1. users \in SUBSET Nat /\ Len(h) \in Nat /\ \A u \in users : u <= Len(h)
      BY HistoryPlaces
    <3> HIDE DEF users
    <3> QED BY <2>1, <3>1, CutoffExists
  <2>3. cutoff \in users /\ Cut(cutoff)
    <3> HIDE DEF users, Cut
    <3> QED BY <2>2
  <2>4. LastTurns(h, n) = SubSeq(h, cutoff, Len(h))
    BY <1>2 DEF LastTurns
  <2> HIDE DEF cutoff
  <2> QED BY <2>3, <2>4 DEF UsersFrom
<1> QED BY <1>1, <1>2

\* What follows a position of a history.
LEMMA SuffixIs ==
  ASSUME NEW M, NEW h \in Seq(M), NEW c \in 1..Len(h)
  PROVE  LET s == SubSeq(h, c, Len(h))
         IN /\ s \in Seq(M)
            /\ Len(s) = Len(h) - c + 1
            /\ DOMAIN s = 1..(Len(h) - c + 1)
            /\ \A i \in 1..(Len(h) - c + 1) : c + i - 1 \in 1..Len(h) /\ s[i] = h[c + i - 1]
<1>1. Len(h) \in Nat /\ \A i \in c..Len(h) : h[i] \in M
  BY LenProperties, ElementOfSeq
<1>2. /\ SubSeq(h, c, Len(h)) \in Seq(M)
      /\ Len(SubSeq(h, c, Len(h))) = Len(h) - c + 1
      /\ \A i \in 1..(Len(h) - c + 1) : SubSeq(h, c, Len(h))[i] = h[c + i - 1]
  BY <1>1, SubSeqProperties
<1>3. DOMAIN SubSeq(h, c, Len(h)) = 1..(Len(h) - c + 1)
  BY <1>2, LenProperties
<1>4. \A i \in 1..(Len(h) - c + 1) : c + i - 1 \in 1..Len(h)
  BY <1>1
<1> QED BY <1>2, <1>3, <1>4

\* What precedes a position of a history.
LEMMA PrefixIs ==
  ASSUME NEW M, NEW h \in Seq(M), NEW n \in 0..Len(h)
  PROVE  LET s == SubSeq(h, 1, n)
         IN /\ s \in Seq(M)
            /\ Len(s) = n
            /\ DOMAIN s = 1..n
            /\ \A i \in 1..n : i \in DOMAIN h /\ s[i] = h[i]
<1>1. Len(h) \in Nat /\ DOMAIN h = 1..Len(h) /\ \A i \in 1..n : i \in DOMAIN h /\ h[i] \in M
  BY LenProperties, ElementOfSeq
<1>2. /\ SubSeq(h, 1, n) \in Seq(M)
      /\ Len(SubSeq(h, 1, n)) = IF 1 <= n THEN n - 1 + 1 ELSE 0
      /\ \A i \in 1..(n - 1 + 1) : SubSeq(h, 1, n)[i] = h[1 + i - 1]
  BY <1>1, SubSeqProperties
<1>3. \A i \in 1..n : i \in 1..(n - 1 + 1) /\ 1 + i - 1 = i
  BY <1>1
<1>4. Len(SubSeq(h, 1, n)) = n /\ DOMAIN SubSeq(h, 1, n) = 1..n
  BY <1>2, LenProperties
<1> QED BY <1>1, <1>2, <1>3, <1>4
-----------------------------------------------------------------------------
(* The order of a history *)

\* Turns come in order, each with its user message first and no other one.
Ordered(h) ==
  /\ \A i, j \in DOMAIN h : i <= j => h[i].turn <= h[j].turn
  /\ \A i \in DOMAIN h : \E j \in UserIndices(h) : j <= i /\ h[j].turn = h[i].turn
  /\ \A i \in DOMAIN h, j \in UserIndices(h) : i < j => h[i].turn < h[j].turn

\* A turn begins with a user message, or goes on.
LEMMA OrderedAppend ==
  ASSUME NEW M, \A m \in M : m.turn \in Nat, NEW h \in Seq(M), NEW m \in M, Ordered(h),
         \/ m.role = "user" /\ \A i \in DOMAIN h : h[i].turn < m.turn
         \/ m.role # "user" /\ h # <<>> /\ m.turn = h[Len(h)].turn
  PROVE  Ordered(Append(h, m))
<1> DEFINE g == Append(h, m)
           L == Len(h)
<1>1. /\ g \in Seq(M) /\ L \in Nat /\ DOMAIN h = 1..L /\ DOMAIN g = 1..(L + 1)
      /\ \A i \in 1..L : g[i] = h[i] /\ h[i].turn \in Nat
      /\ g[L + 1] = m /\ m.turn \in Nat
  <2>1. /\ g \in Seq(M) /\ Len(g) = L + 1 /\ g[L + 1] = m
        /\ \A i \in 1..L : g[i] = h[i]
    BY AppendProperties
  <2>2. DOMAIN g = 1..(L + 1)
    BY <2>1, LenProperties
  <2> QED BY <2>1, <2>2, HistoryPlaces
<1>2. h # <<>> => L \in 1..L
  BY <1>1, EmptySeq
<1> HIDE DEF g
<1>3. \A i \in DOMAIN g : i \in 1..L \/ i = L + 1
  BY <1>1
<1>4. UserIndices(g) = UserIndices(h) \union (IF m.role = "user" THEN {L + 1} ELSE {})
  BY <1>1 DEF UserIndices
<1>5. \A i \in DOMAIN h : h[i].turn <= m.turn
  <2>1. CASE h # <<>> /\ m.turn = h[L].turn
    BY <1>1, <1>2, <2>1 DEF Ordered
  <2>2. CASE \A i \in DOMAIN h : h[i].turn < m.turn
    BY <1>1, <2>2
  <2> QED BY <2>1, <2>2
<1>6. ASSUME NEW i \in DOMAIN g, NEW j \in DOMAIN g, i <= j PROVE g[i].turn <= g[j].turn
  <2>1. CASE j \in 1..L
    BY <1>1, <1>3, <1>6, <2>1 DEF Ordered
  <2>2. CASE j = L + 1
    BY <1>1, <1>3, <1>5, <2>2
  <2> QED BY <1>3, <2>1, <2>2
<1>7. ASSUME NEW i \in DOMAIN g PROVE \E j \in UserIndices(g) : j <= i /\ g[j].turn = g[i].turn
  <2>1. CASE i \in 1..L
    <3>1. PICK j \in UserIndices(h) : j <= i /\ h[j].turn = h[i].turn
      BY <1>1, <2>1 DEF Ordered
    <3>2. j \in 1..L
      BY <1>1, <3>1 DEF UserIndices
    <3> QED BY <1>1, <1>4, <2>1, <3>1, <3>2
  <2>2. CASE i = L + 1 /\ m.role = "user"
    BY <1>1, <1>4, <2>2
  <2>3. CASE i = L + 1 /\ h # <<>> /\ m.turn = h[L].turn
    <3>1. PICK j \in UserIndices(h) : j <= L /\ h[j].turn = h[L].turn
      BY <1>1, <1>2, <2>3 DEF Ordered
    <3>2. j \in 1..L
      BY <1>1, <3>1 DEF UserIndices
    <3> QED BY <1>1, <1>4, <2>3, <3>1, <3>2
  <2> QED BY <1>3, <2>1, <2>2, <2>3
<1>8. ASSUME NEW i \in DOMAIN g, NEW j \in UserIndices(g), i < j PROVE g[i].turn < g[j].turn
  <2>1. CASE j \in UserIndices(h)
    <3>1. j \in 1..L
      BY <1>1, <2>1 DEF UserIndices
    <3>2. i \in 1..L
      BY <1>1, <1>8, <3>1
    <3> QED BY <1>1, <1>8, <2>1, <3>1, <3>2 DEF Ordered
  <2>2. CASE j = L + 1 /\ m.role = "user"
    BY <1>1, <1>8, <2>2
  <2> QED BY <1>4, <2>1, <2>2
<1>9. Ordered(g)
  BY <1>6, <1>7, <1>8 DEF Ordered
<1> QED BY <1>9 DEF g

LEMMA OrderedPrefix ==
  ASSUME NEW M, NEW h \in Seq(M), NEW n \in 0..Len(h), Ordered(h)
  PROVE  Ordered(SubSeq(h, 1, n))
<1> DEFINE s == SubSeq(h, 1, n)
<1>1. /\ DOMAIN s = 1..n /\ \A i \in 1..n : i \in DOMAIN h /\ s[i] = h[i]
      /\ DOMAIN h = 1..Len(h) /\ Len(h) \in Nat
  BY PrefixIs, HistoryPlaces
<1> HIDE DEF s
<1>2. UserIndices(s) = {i \in UserIndices(h) : i <= n}
  BY <1>1 DEF UserIndices
<1>3. \A i \in DOMAIN s : \E j \in UserIndices(s) : j <= i /\ s[j].turn = s[i].turn
  <2> SUFFICES ASSUME NEW i \in DOMAIN s
               PROVE  \E j \in UserIndices(s) : j <= i /\ s[j].turn = s[i].turn
    OBVIOUS
  <2>1. PICK j \in UserIndices(h) : j <= i /\ h[j].turn = h[i].turn
    BY <1>1 DEF Ordered
  <2>2. j \in 1..n
    BY <1>1, <2>1 DEF UserIndices
  <2> QED BY <1>1, <1>2, <2>1, <2>2
<1>4. \A i, j \in DOMAIN s : i <= j => s[i].turn <= s[j].turn
  BY <1>1 DEF Ordered
<1>5. \A i \in DOMAIN s, j \in UserIndices(s) : i < j => s[i].turn < s[j].turn
  <2>1. \A j \in UserIndices(s) : j \in DOMAIN s /\ j \in UserIndices(h)
    BY <1>1, <1>2 DEF UserIndices
  <2> QED BY <1>1, <2>1 DEF Ordered
<1>6. Ordered(s)
  BY <1>3, <1>4, <1>5 DEF Ordered
<1> QED BY <1>6 DEF s

\* What starts with a user message and follows it to the end holds whole turns.
LEMMA OrderedSuffix ==
  ASSUME NEW M, \A m \in M : m.turn \in Nat, NEW h \in Seq(M), NEW c \in UserIndices(h), Ordered(h)
  PROVE  LET s == SubSeq(h, c, Len(h))
         IN /\ Ordered(s)
            /\ UserIndices(s) = {j - c + 1 : j \in UsersFrom(h, c)}
<1> DEFINE s == SubSeq(h, c, Len(h))
           L == Len(h)
<1>1. /\ L \in Nat /\ DOMAIN h = 1..L /\ c \in 1..L /\ h[c].role = "user"
      /\ \A i \in 1..L : h[i].turn \in Nat
  BY HistoryPlaces
<1>2. DOMAIN s = 1..(L - c + 1) /\ \A i \in DOMAIN s : c + i - 1 \in 1..L /\ s[i] = h[c + i - 1]
  BY <1>1, SuffixIs
<1> HIDE DEF s, L
<1>3. \A j \in UserIndices(h) : j >= c => j - c + 1 \in UserIndices(s) /\ s[j - c + 1] = h[j]
  <2> SUFFICES ASSUME NEW j \in UserIndices(h), j >= c
               PROVE  j - c + 1 \in UserIndices(s) /\ s[j - c + 1] = h[j]
    OBVIOUS
  <2>1. j \in 1..L /\ h[j].role = "user"
    BY <1>1 DEF UserIndices
  <2>2. j - c + 1 \in 1..(L - c + 1) /\ c + (j - c + 1) - 1 = j
    BY <1>1, <2>1
  <2> QED BY <1>2, <2>1, <2>2 DEF UserIndices
<1>4. \A i \in UserIndices(s) : c + i - 1 \in UserIndices(h) /\ c + i - 1 >= c /\ i = (c + i - 1) - c + 1
  <2> SUFFICES ASSUME NEW i \in UserIndices(s)
               PROVE  c + i - 1 \in UserIndices(h) /\ c + i - 1 >= c /\ i = (c + i - 1) - c + 1
    OBVIOUS
  <2>1. i \in DOMAIN s /\ s[i].role = "user"
    BY DEF UserIndices
  <2>2. i \in 1..(L - c + 1)
    BY <1>2, <2>1
  <2> QED BY <1>1, <1>2, <2>1, <2>2 DEF UserIndices
<1>5. UserIndices(s) = {j - c + 1 : j \in UsersFrom(h, c)}
  BY <1>3, <1>4 DEF UsersFrom
<1>6. ASSUME NEW i \in DOMAIN s PROVE \E j \in UserIndices(s) : j <= i /\ s[j].turn = s[i].turn
  <2>1. PICK j \in UserIndices(h) : j <= c + i - 1 /\ h[j].turn = h[c + i - 1].turn
    BY <1>1, <1>2 DEF Ordered
  <2>2. j \in 1..L /\ i \in 1..(L - c + 1) /\ c + i - 1 \in 1..L /\ c <= c + i - 1
    BY <1>1, <1>2 DEF UserIndices
  <2>3. j >= c
    <3>1. h[c].turn <= h[c + i - 1].turn
      BY <1>1, <2>2 DEF Ordered
    <3>2. j < c => h[j].turn < h[c].turn
      BY <1>1, <2>2 DEF Ordered
    <3> QED BY <1>1, <2>1, <2>2, <3>1, <3>2
  <2>4. j - c + 1 <= i
    BY <1>1, <2>1, <2>2, <2>3
  <2> QED BY <1>2, <1>3, <2>1, <2>3, <2>4
<1>7. ASSUME NEW i \in DOMAIN s, NEW j \in DOMAIN s, i <= j PROVE s[i].turn <= s[j].turn
  <2>1. i \in Nat /\ j \in Nat /\ c + i - 1 \in 1..L /\ c + j - 1 \in 1..L
    BY <1>1, <1>2
  <2>2. c + i - 1 <= c + j - 1
    BY <1>1, <1>7, <2>1
  <2>3. h[c + i - 1].turn <= h[c + j - 1].turn
    BY <1>1, <2>1, <2>2 DEF Ordered
  <2> QED BY <1>2, <2>3
<1>8. ASSUME NEW i \in DOMAIN s, NEW j \in UserIndices(s), i < j PROVE s[i].turn < s[j].turn
  <2>1. j \in DOMAIN s
    BY DEF UserIndices
  <2>2. i \in Nat /\ j \in Nat /\ c + i - 1 \in 1..L
    BY <1>1, <1>2, <2>1
  <2>3. c + i - 1 < c + j - 1
    BY <1>1, <1>8, <2>2
  <2>4. h[c + i - 1].turn < h[c + j - 1].turn
    BY <1>1, <1>4, <2>2, <2>3 DEF Ordered
  <2> QED BY <1>2, <2>1, <2>4
<1>9. Ordered(s)
  BY <1>6, <1>7, <1>8 DEF Ordered
<1> QED BY <1>5, <1>9 DEF s, L

\* Trimming forgets whole turns.
LEMMA LastTurnsOrdered ==
  ASSUME NEW M, \A m \in M : m.turn \in Nat, NEW h \in Seq(M), NEW n \in Nat \ {0}, Ordered(h)
  PROVE  LastTurns(h, n) \in Seq(M) /\ Ordered(LastTurns(h, n))
<1>1. CASE LastTurns(h, n) = h
  BY <1>1
<1>2. ASSUME NEW c \in UserIndices(h), LastTurns(h, n) = SubSeq(h, c, Len(h))
      PROVE  LastTurns(h, n) \in Seq(M) /\ Ordered(LastTurns(h, n))
  <2>1. c \in 1..Len(h)
    BY HistoryPlaces
  <2> QED BY <1>2, <2>1, SuffixIs, OrderedSuffix
<1> QED BY <1>1, <1>2, LastTurnsIsSuffix

\* Of a longer history exactly n turns stay.
LEMMA LastTurnsAreFull ==
  ASSUME NEW M, NEW h \in Seq(M), NEW n \in Nat \ {0}, LastTurns(h, n) # h
  PROVE  \E c \in UserIndices(h) :
           LastTurns(h, n) = SubSeq(h, c, Len(h)) /\ Cardinality(UsersFrom(h, c)) = n
<1>1. PICK c \in UserIndices(h) :
        /\ LastTurns(h, n) = SubSeq(h, c, Len(h))
        /\ Cardinality(UsersFrom(h, c)) <= n
        /\ \A k \in UserIndices(h) : k < c => ~(Cardinality(UsersFrom(h, k)) <= n)
  BY LastTurnsIsSuffix
<1>2. /\ UserIndices(h) \in SUBSET Nat /\ IsFiniteSet(UserIndices(h)) /\ c \in Nat
      /\ Cardinality(UserIndices(h)) \in Nat
  BY HistoryPlaces
<1>3. ~(Cardinality(UserIndices(h)) <= n)
  BY DEF LastTurns
<1> DEFINE earlier == {k \in UserIndices(h) : k < c}
<1>4. earlier # {}
  <2> SUFFICES ASSUME earlier = {} PROVE FALSE
    OBVIOUS
  <2>1. UsersFrom(h, c) = UserIndices(h)
    BY <1>2 DEF UsersFrom
  <2> QED BY <1>1, <1>3, <2>1
<1>5. PICK k \in earlier : \A j \in earlier : j <= k
  <2>1. earlier \in SUBSET Nat /\ \A j \in earlier : j <= c
    BY <1>2
  <2> HIDE DEF earlier
  <2> QED BY <1>2, <1>4, <2>1, Greatest
<1>6. UsersFrom(h, k) = UsersFrom(h, c) \union {k} /\ k \notin UsersFrom(h, c)
  BY <1>2, <1>5 DEF UsersFrom
<1>7. IsFiniteSet(UsersFrom(h, c)) /\ Cardinality(UsersFrom(h, c)) \in Nat
  <2>1. UsersFrom(h, c) \in SUBSET UserIndices(h)
    BY DEF UsersFrom
  <2> QED BY <1>2, <2>1, FS_Subset, FS_CardinalityType
<1>8. Cardinality(UsersFrom(h, k)) = Cardinality(UsersFrom(h, c)) + 1
  BY <1>6, <1>7, FS_AddElement
<1>9. Cardinality(UsersFrom(h, c)) = n
  BY <1>1, <1>5, <1>7, <1>8
<1> QED BY <1>1, <1>9

\* As many positions in what follows c as there were.
LEMMA ShiftedCount ==
  ASSUME NEW S \in SUBSET Nat, IsFiniteSet(S), NEW c \in Nat
  PROVE  Cardinality({j - c + 1 : j \in S}) = Cardinality(S)
<1> DEFINE T == {j - c + 1 : j \in S}
           f == [j \in S |-> j - c + 1]
<1>1. f \in [S -> T]
  OBVIOUS
<1>2. \A j, k \in S : f[j] = f[k] => j = k
  OBVIOUS
<1>3. \A t \in T : \E j \in S : f[j] = t
  OBVIOUS
<1> HIDE DEF f, T
<1>4. f \in Bijection(S, T)
  BY <1>1, <1>2, <1>3, Fun_IsBij
<1>5. ExistsBijection(S, T)
  BY <1>4 DEF ExistsBijection
<1>6. Cardinality(T) = Cardinality(S)
  BY <1>5, FS_Bijection
<1> QED BY <1>6 DEF T

=============================================================================
