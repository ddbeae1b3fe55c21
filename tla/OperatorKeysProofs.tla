------------------------- MODULE OperatorKeysProofs -------------------------
(***************************************************************************)
(* parseInlinePubKeys reads what an operator lists: for every list, of any *)
(* length, written in any of the forms, Text and then the parser give      *)
(* Listed.                                                                 *)
(*                                                                         *)
(* The text of a list is laid out first: where each entry's piece of it    *)
(* begins and ends, by induction on the pieces.  A piece is then parsed by *)
(* itself.  What connects the two is the count of PEM blocks: as many are  *)
(* opened as closed at a comma between two pieces, and one more is opened  *)
(* at a comma within a block, so splitInlineEntries cuts between the       *)
(* pieces and nowhere else.                                                *)
(*                                                                         *)
(* The definitions of this module name what the steps of the argument      *)
(* establish, so that a later step can be given it in one piece.           *)
(***************************************************************************)
EXTENDS OperatorKeys, FiniteSetTheorems, TLAPS

-----------------------------------------------------------------------------
(* Numbers and sequences *)

\* Induction on the natural numbers, for a set: < is well-founded.
LEMMA SetInduction ==
    ASSUME NEW S, 0 \in S, \A n \in Nat : n \in S => n + 1 \in S
    PROVE  Nat \subseteq S
<1> DEFINE R == {ss \in Nat \X Nat : ss[1] < ss[2]}
           T == Nat \ S
<1>1. IsWellFoundedOn(R, Nat)
  BY NatLessThanWellFounded DEF OpToRel
<1>2. SUFFICES ASSUME T # {} PROVE FALSE
  OBVIOUS
<1>3. T \subseteq Nat
  OBVIOUS
<1> HIDE DEF T, R
<1>4. PICK x \in T : \A y \in T : ~ (<<y, x>> \in R)
  BY <1>1, <1>2, <1>3, WFMin
<1> USE DEF T, R
<1>5. x \in Nat /\ x # 0
  OBVIOUS
<1>6. x - 1 \in Nat /\ <<x-1, x>> \in R
  BY <1>5
<1> QED BY <1>4, <1>5, <1>6

\* Least finds the least member.
LEMMA LeastIs ==
    ASSUME NEW S \in SUBSET Int, NEW m \in S, \A j \in S : m <= j
    PROVE  Least(S) = m
<1> DEFINE l == CHOOSE i \in S : \A j \in S : i <= j
<1>1. l \in S /\ \A j \in S : l <= j
  BY Zenon
<1>2. Least(S) = l
  BY Zenon DEF Least
<1> HIDE DEF l
<1>3. l <= m /\ m <= l /\ l \in Int /\ m \in Int
  BY <1>1
<1> QED BY <1>2, <1>3

\* TrimSpace's last solid position is the greatest.
LEMMA GreatestIs ==
    ASSUME NEW S \in SUBSET Int, NEW m \in S, \A j \in S : j <= m
    PROVE  (CHOOSE i \in S : \A j \in S : j <= i) = m
<1> DEFINE l == CHOOSE i \in S : \A j \in S : j <= i
<1>1. l \in S /\ \A j \in S : j <= l
  BY Zenon
<1> HIDE DEF l
<1>3. l <= m /\ m <= l /\ l \in Int /\ m \in Int
  BY <1>1
<1>4. l = m
  BY <1>3
<1> QED BY <1>4 DEF l

\* The least of one number.
LEMMA LeastOfOne ==
    ASSUME NEW m \in Nat
    PROVE  Least({m}) = m
<1>1. {m} \in SUBSET Int /\ m \in {m} /\ \A i \in {m} : m <= i
  OBVIOUS
<1> QED BY <1>1, LeastIs, Zenon

\* A sum with one more in it is greater.
LEMMA SomeNat == \A a, b \in Nat : a < a + b + 1 /\ a + b + 1 \in Nat
OBVIOUS

\* The places of a part that ends a text are places of the text.
LEMMA SumWithin ==
    ASSUME NEW a \in Nat, NEW u \in Nat, NEW v \in Nat, NEW e, NEW y \in 1..u,
           e = a + u + 1, v + 1 = e
    PROVE  a + y \in 1..v
OBVIOUS

\* Texts have lengths.
LEMMA LenInNat == ASSUME NEW s \in Seq(Symbol) PROVE Len(s) \in Nat
OBVIOUS

\* The empty text.
LEMMA NoSymbol ==
    /\ <<>> \in Seq(Symbol)
    /\ Len(<<>>) = 0
OBVIOUS

\* A text of one symbol.
LEMMA OneLong ==
    ASSUME NEW S, NEW a \in S, NEW V, V = <<a>>
    PROVE  V \in Seq(S) /\ Len(V) = 1 /\ V[1] = a /\ V # <<>>
OBVIOUS

\* A text of three symbols, as a PEM block has.
LEMMA ThreeLong ==
    ASSUME NEW S, NEW a \in S, NEW b \in S, NEW c \in S, NEW V, V = <<a, b, c>>
    PROVE  V \in Seq(S) /\ Len(V) = 3 /\ V[1] = a /\ V[2] = b /\ V[3] = c
OBVIOUS

\* A text of seven symbols, as a PEM block with a header has.
LEMMA SevenLong ==
    ASSUME NEW S, NEW a \in S, NEW b \in S, NEW c \in S, NEW d \in S, NEW e \in S, NEW f \in S,
           NEW g \in S, NEW V, V = <<a, b, c, d, e, f, g>>
    PROVE  /\ V \in Seq(S) /\ Len(V) = 7 /\ V[1] = a /\ V[2] = b /\ V[3] = c
           /\ V[4] = d /\ V[5] = e /\ V[6] = f /\ V[7] = g
OBVIOUS

\* Two sequences are equal that agree in every place.
LEMMA SequencesEqual ==
    ASSUME NEW S, NEW s \in Seq(S), NEW t \in Seq(S), Len(s) = Len(t),
           \A i \in 1..Len(s) : s[i] = t[i]
    PROVE  s = t
OBVIOUS

\* w is the part of u from lo to hi.
SubSequenceOf(w, u, lo, hi) ==
    /\ w \in Seq(Symbol)
    /\ Len(w) = hi - lo + 1
    /\ \A i \in 1..(hi - lo + 1) : w[i] = u[lo + i - 1]

\* SubSeq takes such a part.
LEMMA SubSequences ==
    ASSUME NEW u \in Seq(Symbol), NEW lo \in Int, NEW hi \in Int,
           1 <= lo, lo <= hi + 1, hi <= Len(u)
    PROVE  SubSequenceOf(SubSeq(u, lo, hi), u, lo, hi)
BY DEF SubSequenceOf

\* V stands in u, after the first d symbols.
Embeds(u, V, d) ==
    /\ d \in Nat
    /\ d + Len(V) <= Len(u)
    /\ \A y \in 1..Len(V) : u[d + y] = V[y]

\* SubSeq takes out of a text what stands there.
LEMMA SubSeqEmbedded ==
    ASSUME NEW u \in Seq(Symbol), NEW V \in Seq(Symbol), NEW d, Embeds(u, V, d)
    PROVE  SubSeq(u, d + 1, d + Len(V)) = V
<1> DEFINE w == SubSeq(u, d + 1, d + Len(V))
           l == Len(V)
<1>1. d \in Nat /\ l \in Nat /\ d + l <= Len(u) /\ Len(u) \in Nat
  BY LenInNat DEF Embeds
<1> HIDE DEF l
<1>2. /\ d + l \in Int /\ d + 1 \in Int /\ 1 <= d + 1 /\ d + 1 <= (d + l) + 1
      /\ (d + l) - (d + 1) + 1 = l
      /\ \A i \in 1..l : (d + 1) + i - 1 = d + i
  BY <1>1
<1>3. SubSequenceOf(w, u, d + 1, d + l)
  BY <1>1, <1>2, SubSequences, Zenon DEF l
<1> HIDE DEF w
<1>4. w \in Seq(Symbol) /\ Len(w) = l /\ \A i \in 1..l : w[i] = u[d + i]
  BY <1>2, <1>3, Zenon DEF SubSequenceOf
<1>5. \A i \in 1..Len(w) : w[i] = V[i]
  BY <1>4, Zenon DEF Embeds, l
<1>6. w = V
  BY <1>4, <1>5, SequencesEqual, Zenon DEF l
<1> QED BY <1>6 DEF w

\* t is a and then b.
Concatenates(t, a, b) ==
    /\ t \in Seq(Symbol)
    /\ Len(t) = Len(a) + Len(b)
    /\ \A x \in 1..Len(a) : t[x] = a[x]
    /\ \A x \in 1..Len(b) : t[Len(a) + x] = b[x]

\* \o puts one text after another.
LEMMA Concat2 ==
    ASSUME NEW a \in Seq(Symbol), NEW b \in Seq(Symbol)
    PROVE  Concatenates(a \o b, a, b)
BY DEF Concatenates

\* Three texts, one after another.
LEMMA Concat3 ==
    ASSUME NEW S, NEW a \in Seq(S), NEW s \in Seq(S), NEW p \in Seq(S)
    PROVE  /\ a \o (s \o p) \in Seq(S)
           /\ Len(a \o (s \o p)) = Len(a) + Len(s) + Len(p)
           /\ \A x \in 1..Len(a) : (a \o (s \o p))[x] = a[x]
           /\ \A x \in 1..Len(s) : (a \o (s \o p))[Len(a) + x] = s[x]
           /\ \A x \in 1..Len(p) : (a \o (s \o p))[Len(a) + Len(s) + x] = p[x]
           /\ Len(a) \in Nat /\ Len(s) \in Nat /\ Len(p) \in Nat
OBVIOUS

-----------------------------------------------------------------------------
(* Symbols *)

\* No mark is taken for another.
LEMMA MarksDiffer ==
    /\ Comma # Colon /\ Comma # Space /\ Comma # Begin /\ Comma # End
    /\ Colon # Space /\ Colon # Begin /\ Colon # End
    /\ Space # Begin /\ Space # End /\ Begin # End
BY DEF Comma, Colon, Space, Begin, End

\* The marks are symbols.
LEMMA MarksAreSymbols ==
    /\ Comma \in Symbol /\ Colon \in Symbol /\ Space \in Symbol /\ Begin \in Symbol
    /\ End \in Symbol
BY DEF Symbol, Marks

\* A symbol that is no mark.
IsWord(w) ==
    /\ w \in Symbol
    /\ w # Comma /\ w # Colon /\ w # Space /\ w # Begin /\ w # End

\* A kid or a key that an operator may list is no mark.
LEMMA WordsAreWords ==
    ASSUME NEW w \in Words PROVE IsWord(w)
BY WordsAssumption, Zenon DEF IsWord, Symbol, Marks

\* Neither the words in a PEM header nor the error of decodePubKey are keys.
LEMMA FillerIsWord ==
    /\ IsWord(Filler) /\ Filler \notin KeyTexts /\ NoWord \notin KeyTexts
    /\ BadKey \notin KeyTexts
BY WordsAreWords, WordsAssumption

\* A mark is not the text of a key.
LEMMA MarksAreNoKeys ==
    /\ Comma \notin KeyTexts /\ Colon \notin KeyTexts /\ Space \notin KeyTexts
    /\ Begin \notin KeyTexts /\ End \notin KeyTexts
BY WordsAssumption DEF Marks

\* V has no spaces at its ends.
Solid(V) == V = <<>> \/ (V[1] # Space /\ V[Len(V)] # Space)

\* TrimSpace gives what stands in a text between spaces.
LEMMA Trims ==
    ASSUME NEW u \in Seq(Symbol), NEW V \in Seq(Symbol), NEW d, Embeds(u, V, d), Solid(V),
           \A x \in 1..Len(u) : x \in (d+1)..(d+Len(V)) \/ u[x] = Space
    PROVE  TrimSpace(u) = V
<1> DEFINE solid == DOMAIN u \ Positions(u, Space)
           top == CHOOSE i \in solid : \A j \in solid : j <= i
<1>0. /\ d \in Nat /\ Len(V) \in Nat /\ Len(u) \in Nat /\ DOMAIN u = 1..Len(u)
      /\ d + Len(V) <= Len(u)
  BY DEF Embeds
<1>1. solid = {x \in 1..Len(u) : u[x] # Space}
  BY <1>0, Zenon DEF Positions
<1>2. TrimSpace(u) = IF solid = {} THEN <<>> ELSE SubSeq(u, Least(solid), top)
  BY Zenon DEF TrimSpace
<1>3. CASE V = <<>>
  <2>1. Len(V) = 0
    BY <1>3
  <2>2. \A x \in 1..Len(u) : x \notin (d+1)..(d+Len(V))
    BY <2>1, <1>0
  <2>3. solid = {}
    BY <1>1, <2>2, Zenon
  <2> QED BY <1>2, <1>3, <2>3, Zenon
<1>4. CASE V # <<>>
  <2>1. Len(V) >= 1
    BY <1>4
  <2>2. /\ 1 \in 1..Len(V) /\ Len(V) \in 1..Len(V) /\ d + 1 \in 1..Len(u)
        /\ d + Len(V) \in 1..Len(u)
    BY <2>1, <1>0
  <2>3. u[d + 1] # Space /\ u[d + Len(V)] # Space
    BY <2>2, <1>4, Zenon DEF Embeds, Solid
  <2>4. d + 1 \in solid /\ d + Len(V) \in solid
    BY <1>1, <2>2, <2>3, Zenon
  <2>5. \A x \in solid : x \in Int /\ x \in (d+1)..(d+Len(V))
    BY <1>1
  <2> HIDE DEF solid
  <2>6. Least(solid) = d + 1
    <3>1. solid \in SUBSET Int /\ \A j \in solid : d + 1 <= j
      BY <2>5, <1>0
    <3> QED BY <2>4, <3>1, LeastIs
  <2>7. top = d + Len(V)
    <3>1. solid \in SUBSET Int /\ \A j \in solid : j <= d + Len(V)
      BY <2>5, <1>0
    <3> QED BY <2>4, <3>1, GreatestIs, Zenon
  <2>8. SubSeq(u, d + 1, d + Len(V)) = V
    BY SubSeqEmbedded
  <2> QED BY <1>2, <2>4, <2>6, <2>7, <2>8, Zenon
<1> QED BY <1>3, <1>4

-----------------------------------------------------------------------------
(* Keys *)

\* What decodePubKey should make of a key that is listed.
KeyOrBad(key) == IF key \in KeyTexts THEN key ELSE BadKey

\* PemDecode finds the key of a block: the one word in it that is a key, if it
\* is one.
LEMMA PemDecoded ==
    ASSUME NEW V \in Seq(Symbol), NEW key, NEW j \in 2..(Len(V) - 1), V[j] = key,
           \A y \in 1..Len(V) : V[y] = End <=> y = Len(V),
           \A i \in 2..(Len(V) - 1) : i = j \/ V[i] \notin KeyTexts
    PROVE  PemDecode(V) = KeyOrBad(key)
<1> DEFINE ends == Positions(V, End)
           body == {V[i] : i \in 2..(Len(V) - 1)}
<1>1. Len(V) \in Nat /\ Len(V) >= 3 /\ DOMAIN V = 1..Len(V) /\ Len(V) \in 1..Len(V)
  OBVIOUS
<1>2. ends = {Len(V)}
  BY <1>1, Zenon DEF Positions
<1>3. Least(ends) = Len(V)
  <2>2. Least({Len(V)}) = Len(V)
    BY <1>1, LeastOfOne, Zenon
  <2> QED BY <1>2, <2>2, Zenon
<1>4. ends # {}
  BY <1>2, Zenon
<1>5. PemDecode(V) = IF body \cap KeyTexts = {} THEN BadKey
                     ELSE CHOOSE k \in body : k \in KeyTexts
  BY <1>3, <1>4, Zenon DEF PemDecode
<1>6. \A k \in body : k \in KeyTexts => k = key
  BY Zenon
<1>7. key \in body
  BY Zenon
<1> HIDE DEF body
<1>8. CASE key \in KeyTexts
  <2>1. body \cap KeyTexts # {}
    BY <1>7, <1>8, Zenon
  <2>2. (CHOOSE k \in body : k \in KeyTexts) = key
    BY <1>6, <1>7, <1>8, Zenon
  <2> QED BY <1>5, <1>8, <2>1, <2>2, Zenon DEF KeyOrBad
<1>9. CASE key \notin KeyTexts
  <2>1. body \cap KeyTexts = {}
    BY <1>6, <1>9, Zenon
  <2> QED BY <1>5, <1>9, <2>1, Zenon DEF KeyOrBad
<1> QED BY <1>8, <1>9

\* The entry has its key in a PEM block.
Block(e) == e.form \in {"pem", "header"}

\* The entry has no colon that separates kid and key.
NoColon(e) == e.form \in {"bare", "blank"}

\* What an entry may be.
LEMMA EntryFields ==
    ASSUME NEW e \in Entry
    PROVE  /\ e.kid \in Words /\ e.key \in Words
           /\ e.form = "bare" => e.kid # NoWord \/ e.key # NoWord
           /\ e.form \in {"raw", "pem", "header", "bare", "blank"}
BY DEF Entry

\* decodePubKey, of a text that is trimmed.
Decoded(V) ==
    IF V = <<>> THEN BadKey
    ELSE IF V[1] = Begin THEN PemDecode(V)
    ELSE IF Len(V) = 1 /\ V[1] \in KeyTexts THEN V[1]
    ELSE BadKey

\* What is known of V, the text of the key of the entry e: a block begins and
\* ends where V does, and otherwise there are no marks in it; and the parser
\* decodes it to the key.
KeySpelled(V, e) ==
    /\ V \in Seq(Symbol)
    /\ \A y \in 1..Len(V) : V[y] # Space
    /\ Block(e) => /\ Len(V) >= 3
                   /\ \A y \in 1..Len(V) : V[y] = Begin <=> y = 1
                   /\ \A y \in 1..Len(V) : V[y] = End <=> y = Len(V)
    /\ ~ Block(e) => \A y \in 1..Len(V) : IsWord(V[y])
    /\ Decoded(V) = KeyOrBad(e.key)
    /\ ~ Block(e) => (V = <<>> <=> e.key = NoWord)

\* The same of a block V that holds the key.
BlockSpelled(V, key) ==
    /\ V \in Seq(Symbol) /\ Len(V) >= 3
    /\ \A y \in 1..Len(V) : V[y] # Space
    /\ \A y \in 1..Len(V) : V[y] = Begin <=> y = 1
    /\ \A y \in 1..Len(V) : V[y] = End <=> y = Len(V)
    /\ PemDecode(V) = KeyOrBad(key)
    /\ V # <<>>

\* A PEM block is one.
LEMMA PemSpelled ==
    ASSUME NEW key, IsWord(key), NEW V, V = <<Begin, key, End>>
    PROVE  BlockSpelled(V, key)
<1>1. V \in Seq(Symbol) /\ Len(V) = 3 /\ V[1] = Begin /\ V[2] = key /\ V[3] = End
  BY ThreeLong, MarksAreSymbols DEF IsWord
<1> DEFINE l == Len(V)
<1>2. \A y \in 1..l : y = 1 \/ y = 2 \/ y = 3
  BY <1>1
<1>3. 1 # 2 /\ 1 # 3 /\ 2 # 3 /\ l = 3 /\ l >= 3
  BY <1>1
<1> HIDE DEF l
<1>4. /\ \A y \in 1..l : V[y] # Space
      /\ \A y \in 1..l : V[y] = Begin <=> y = 1
      /\ \A y \in 1..l : V[y] = End <=> y = l
  BY <1>1, <1>2, <1>3, MarksDiffer, Zenon DEF IsWord
<1>5. PemDecode(V) = KeyOrBad(key)
  <2>1. 2 \in 2..(Len(V) - 1) /\ \A i \in 2..(Len(V) - 1) : i = 2
    BY <1>1
  <2> QED BY <1>1, <1>4, <2>1, PemDecoded, Zenon DEF l
<1>6. V # <<>>
  BY <1>1
<1> QED BY <1>1, <1>3, <1>4, <1>5, <1>6, Zenon DEF l, BlockSpelled

\* So is one that has a header with a colon and a comma in it.
LEMMA HeaderSpelled ==
    ASSUME NEW key, IsWord(key), NEW V, V = <<Begin, Filler, Colon, Filler, Comma, key, End>>
    PROVE  BlockSpelled(V, key)
<1>1. /\ V \in Seq(Symbol) /\ Len(V) = 7 /\ V[1] = Begin /\ V[2] = Filler /\ V[3] = Colon
      /\ V[4] = Filler /\ V[5] = Comma /\ V[6] = key /\ V[7] = End
  BY SevenLong, MarksAreSymbols, FillerIsWord DEF IsWord
<1> DEFINE l == Len(V)
<1>2. \A y \in 1..l : y = 1 \/ y = 2 \/ y = 3 \/ y = 4 \/ y = 5 \/ y = 6 \/ y = 7
  BY <1>1
<1>3. l = 7 /\ l >= 3 /\ 1 # 7
  BY <1>1
<1> HIDE DEF l
<1>w. IsWord(Filler)
  BY FillerIsWord
<1>4. \A y \in 1..l : V[y] # Space
  BY <1>1, <1>2, <1>w, MarksDiffer, Zenon DEF IsWord
<1>4b. \A y \in 1..l : V[y] = Begin <=> y = 1
  BY <1>1, <1>2, <1>w, MarksDiffer, Zenon DEF IsWord
<1>4c. \A y \in 1..l : V[y] = End <=> y = l
  BY <1>1, <1>2, <1>3, <1>w, MarksDiffer, Zenon DEF IsWord
<1>5. PemDecode(V) = KeyOrBad(key)
  <2>1. /\ 6 \in 2..(Len(V) - 1)
        /\ \A i \in 2..(Len(V) - 1) : i = 2 \/ i = 3 \/ i = 4 \/ i = 5 \/ i = 6
    BY <1>1
  <2>2. \A i \in 2..(Len(V) - 1) : i = 6 \/ V[i] \notin KeyTexts
    <3>1. Filler \notin KeyTexts /\ Colon \notin KeyTexts /\ Comma \notin KeyTexts
      BY FillerIsWord, MarksAreNoKeys
    <3>2. /\ V[2] \notin KeyTexts /\ V[3] \notin KeyTexts
          /\ V[4] \notin KeyTexts /\ V[5] \notin KeyTexts
      BY <1>1, <3>1, Zenon
    <3> QED BY <2>1, <3>2, Zenon
  <2> QED BY <1>1, <1>4c, <2>1, <2>2, PemDecoded, Zenon DEF l
<1>6. V # <<>>
  BY <1>1
<1> QED BY <1>1, <1>3, <1>4, <1>4b, <1>4c, <1>5, <1>6, Zenon DEF l, BlockSpelled

\* Whatever its form, a key is written so that it is decoded.
LEMMA KeyIsSpelled ==
    ASSUME NEW e \in Entry
    PROVE  KeySpelled(KeyText(e), e)
<1> DEFINE V == KeyText(e)
<1>0. IsWord(e.key) /\ e.form \in {"raw", "pem", "header", "bare", "blank"}
  BY EntryFields, WordsAreWords
<1>1. CASE e.form = "pem"
  <2>1. V = <<Begin, e.key, End>>
    BY <1>1, Zenon DEF KeyText
  <2> HIDE DEF V
  <2>2. BlockSpelled(V, e.key)
    BY <1>0, <2>1, PemSpelled, Zenon
  <2>3. V[1] = Begin /\ Block(e)
    BY <2>2, <1>1 DEF Block, BlockSpelled
  <2>4. Decoded(V) = PemDecode(V)
    BY <2>2, <2>3, Zenon DEF Decoded, BlockSpelled
  <2>5. KeySpelled(V, e)
    BY <2>2, <2>3, <2>4, Zenon DEF KeySpelled, BlockSpelled
  <2> QED BY <2>5 DEF V
<1>2. CASE e.form = "header"
  <2>1. V = <<Begin, Filler, Colon, Filler, Comma, e.key, End>>
    BY <1>2, Zenon DEF KeyText
  <2> HIDE DEF V
  <2>2. BlockSpelled(V, e.key)
    BY <1>0, <2>1, HeaderSpelled, Zenon
  <2>3. V[1] = Begin /\ Block(e)
    BY <2>2, <1>2 DEF Block, BlockSpelled
  <2>4. Decoded(V) = PemDecode(V)
    BY <2>2, <2>3, Zenon DEF Decoded, BlockSpelled
  <2>5. KeySpelled(V, e)
    BY <2>2, <2>3, <2>4, Zenon DEF KeySpelled, BlockSpelled
  <2> QED BY <2>5 DEF V
<1>3. CASE e.form \notin {"pem", "header"}
  <2>1. V = IF e.key = NoWord THEN <<>> ELSE <<e.key>>
    BY <1>3, Zenon DEF KeyText
  <2> HIDE DEF V
  <2>2. ~ Block(e)
    BY <1>3 DEF Block
  <2>3. CASE e.key = NoWord
    <3>1. V = <<>>
      BY <2>1, <2>3, Zenon
    <3>2. V \in Seq(Symbol) /\ Len(V) = 0
      BY <3>1, NoSymbol, Zenon
    <3>3. 1..Len(V) = {}
      BY <3>2
    <3>4. Decoded(V) = KeyOrBad(e.key)
      BY <2>3, <3>1, FillerIsWord, Zenon DEF Decoded, KeyOrBad
    <3>5. KeySpelled(V, e)
      BY <2>2, <2>3, <3>1, <3>2, <3>3, <3>4, Zenon DEF KeySpelled
    <3> QED BY <3>5 DEF V
  <2>4. CASE e.key # NoWord
    <3>1. V = <<e.key>>
      BY <2>1, <2>4, Zenon
    <3>2. V \in Seq(Symbol) /\ Len(V) = 1 /\ V[1] = e.key /\ V # <<>>
      BY <1>0, <3>1, OneLong DEF IsWord
    <3>3. 1..Len(V) = {1}
      BY <3>2
    <3>4. e.key # Begin /\ e.key # Space
      BY <1>0 DEF IsWord
    <3>5. Decoded(V) = KeyOrBad(e.key)
      BY <3>2, <3>4, Zenon DEF Decoded, KeyOrBad
    <3>6. KeySpelled(V, e)
      BY <1>0, <2>2, <2>4, <3>2, <3>3, <3>4, <3>5, Zenon DEF KeySpelled
    <3> QED BY <3>6 DEF V
  <2> QED BY <2>3, <2>4
<1> QED BY <1>1, <1>2, <1>3

-----------------------------------------------------------------------------
(* Pieces *)

\* P is a, b, c, d and a again.
Parts(P, a, b, c, d) ==
    /\ P \in Seq(Symbol)
    /\ Len(P) = Len(a) + Len(b) + Len(c) + Len(d) + Len(a)
    /\ \A x \in 1..Len(a) : P[x] = a[x]
    /\ \A x \in 1..Len(b) : P[Len(a) + x] = b[x]
    /\ \A x \in 1..Len(c) : P[Len(a) + Len(b) + x] = c[x]
    /\ \A x \in 1..Len(d) : P[Len(a) + Len(b) + Len(c) + x] = d[x]
    /\ \A x \in 1..Len(a) : P[Len(a) + Len(b) + Len(c) + Len(d) + x] = a[x]

\* A piece's text is made of such parts.
LEMMA PartsOf ==
    ASSUME NEW a \in Seq(Symbol), NEW b \in Seq(Symbol), NEW c \in Seq(Symbol),
           NEW d \in Seq(Symbol)
    PROVE  Parts((a \o ((b \o c) \o d)) \o a, a, b, c, d)
<1> DEFINE bc == b \o c
           bcd == bc \o d
           abcd == a \o bcd
           P == abcd \o a
           la == Len(a)
           lb == Len(b)
           lc == Len(c)
           ld == Len(d)
<1>0. la \in Nat /\ lb \in Nat /\ lc \in Nat /\ ld \in Nat
  OBVIOUS
<1>1. Concatenates(bc, b, c)
  BY Concat2, Zenon
<1>2. Concatenates(bcd, bc, d)
  BY <1>1, Concat2, Zenon DEF Concatenates
<1>3. Concatenates(abcd, a, bcd)
  BY <1>2, Concat2, Zenon DEF Concatenates
<1>4. Concatenates(P, abcd, a)
  BY <1>3, Concat2, Zenon DEF Concatenates
<1> HIDE DEF bc, bcd, abcd, P, la, lb, lc, ld
<1>5. /\ Len(bc) = lb + lc /\ Len(bcd) = lb + lc + ld /\ Len(abcd) = la + lb + lc + ld
      /\ Len(P) = la + lb + lc + ld + la
  <2>1. /\ Len(bc) = lb + lc /\ Len(bcd) = Len(bc) + ld /\ Len(abcd) = la + Len(bcd)
        /\ Len(P) = Len(abcd) + la
    BY <1>1, <1>2, <1>3, <1>4, Zenon DEF Concatenates, la, lb, lc, ld
  <2> QED BY <1>0, <2>1
<1>6. \A x \in 1..la : P[x] = a[x]
  <2> TAKE x \in 1..la
  <2>1. x \in 1..Len(abcd)
    BY <1>0, <1>5
  <2>2. P[x] = abcd[x] /\ abcd[x] = a[x]
    BY <1>3, <1>4, <2>1, Zenon DEF Concatenates, la
  <2> QED BY <2>2, Zenon
<1>7. \A x \in 1..lb : P[la + x] = b[x]
  <2> TAKE x \in 1..lb
  <2>1. la + x \in 1..Len(abcd) /\ x \in 1..Len(bcd) /\ x \in 1..Len(bc)
    BY <1>0, <1>5
  <2>2. P[la + x] = abcd[la + x] /\ abcd[la + x] = bcd[x] /\ bcd[x] = bc[x] /\ bc[x] = b[x]
    BY <1>1, <1>2, <1>3, <1>4, <2>1, Zenon DEF Concatenates, la, lb
  <2> QED BY <2>2, Zenon
<1>8. \A x \in 1..lc : P[la + lb + x] = c[x]
  <2> TAKE x \in 1..lc
  <2>1. /\ la + lb + x \in 1..Len(abcd) /\ lb + x \in 1..Len(bcd) /\ lb + x \in 1..Len(bc)
        /\ la + (lb + x) = la + lb + x
    BY <1>0, <1>5
  <2>2. /\ P[la + lb + x] = abcd[la + lb + x] /\ abcd[la + (lb + x)] = bcd[lb + x]
        /\ bcd[lb + x] = bc[lb + x] /\ bc[lb + x] = c[x]
    BY <1>1, <1>2, <1>3, <1>4, <2>1, Zenon DEF Concatenates, la, lb, lc
  <2> QED BY <2>1, <2>2, Zenon
<1>9. \A x \in 1..ld : P[la + lb + lc + x] = d[x]
  <2> TAKE x \in 1..ld
  <2>1. /\ la + lb + lc + x \in 1..Len(abcd) /\ Len(bc) + x \in 1..Len(bcd)
        /\ la + (Len(bc) + x) = la + lb + lc + x
    BY <1>0, <1>5
  <2>2. /\ P[la + lb + lc + x] = abcd[la + lb + lc + x]
        /\ abcd[la + (Len(bc) + x)] = bcd[Len(bc) + x] /\ bcd[Len(bc) + x] = d[x]
    BY <1>2, <1>3, <1>4, <2>1, Zenon DEF Concatenates, la, ld
  <2> QED BY <2>1, <2>2, Zenon
<1>10. \A x \in 1..la : P[la + lb + lc + ld + x] = a[x]
  BY <1>4, <1>5, Zenon DEF Concatenates, la
<1>11. Parts(P, a, b, c, d)
  BY <1>4, <1>5, <1>6, <1>7, <1>8, <1>9, <1>10, Zenon DEF Parts, Concatenates, la, lb, lc, ld
<1> QED BY <1>11, Zenon DEF P, abcd, bcd, bc

\* P is s spaces, h kids and q colons, at most one of each, then V and again s
\* spaces.
Spelled(P, e, s, h, q, V) ==
    /\ P \in Seq(Symbol) /\ V \in Seq(Symbol)
    /\ s \in {0, 1} /\ h \in {0, 1} /\ q \in {0, 1}
    /\ Len(P) = s + h + q + Len(V) + s
    /\ \A x \in 1..s : P[x] = Space
    /\ h = 1 => P[s + 1] = e.kid
    /\ q = 1 => P[s + h + 1] = Colon
    /\ \A y \in 1..Len(V) : P[s + h + q + y] = V[y]
    /\ \A x \in 1..s : P[s + h + q + Len(V) + x] = Space

\* h, q and V are those of the entry e.
Written(e, h, q, V) ==
    /\ IsWord(e.kid)
    /\ \A y \in 1..Len(V) : V[y] # Space
    /\ q = 0 <=> NoColon(e)
    /\ q = 0 => \A y \in 1..Len(V) : IsWord(V[y])
    /\ e.form = "blank" => h = 0 /\ q = 0 /\ V = <<>>
    /\ e.form # "blank" => /\ h = 0 <=> e.kid = NoWord
                           /\ V = KeyText(e)
                           /\ h = 1 \/ q = 1 \/ V # <<>>

\* t is x, or empty if b.
Optional(t, x, b) ==
    /\ t \in Seq(Symbol) /\ Len(t) \in {0, 1}
    /\ Len(t) = 0 <=> b
    /\ \A y \in 1..Len(t) : t[y] = x

\* A symbol that is left out on a condition.
LEMMA OptionalOne ==
    ASSUME NEW x \in Symbol, NEW b \in BOOLEAN, NEW t, t = IF b THEN <<>> ELSE <<x>>
    PROVE  Optional(t, x, b)
<1>1. CASE b
  <2>1. t = <<>>
    BY <1>1, Zenon
  <2>2. t \in Seq(Symbol) /\ Len(t) = 0
    BY <2>1, NoSymbol, Zenon
  <2>3. 1..0 = {}
    OBVIOUS
  <2> QED BY <1>1, <2>2, <2>3, Zenon DEF Optional
<1>2. CASE ~ b
  <2>1. t = <<x>>
    BY <1>2, Zenon
  <2>2. t \in Seq(Symbol) /\ Len(t) = 1 /\ t[1] = x
    BY <2>1, OneLong, Zenon
  <2>3. 1..1 = {1} /\ 1 # 0
    OBVIOUS
  <2> QED BY <1>2, <2>2, <2>3, Zenon DEF Optional
<1> QED BY <1>1, <1>2

\* The piece of an entry is so spelled.
LEMMA PieceIsSpelled ==
    ASSUME NEW list \in KeyList, NEW i \in DOMAIN list.entries
    PROVE  \E s, h, q, V : /\ Spelled(Piece(list, i), list.entries[i], s, h, q, V)
                           /\ Written(list.entries[i], h, q, V)
<1> DEFINE e == list.entries[i]
           blank == e.form = "blank"
           a == IF list.style = "spaced" THEN <<Space>> ELSE <<>>
           b == IF blank \/ e.kid = NoWord THEN <<>> ELSE <<e.kid>>
           c == IF blank \/ e.form = "bare" THEN <<>> ELSE <<Colon>>
           V == IF blank THEN <<>> ELSE KeyText(e)
           P == Piece(list, i)
           s == Len(a)
           h == Len(b)
           q == Len(c)
<1>0. e \in Entry
  BY DEF KeyList
<1>1. IsWord(e.kid) /\ IsWord(e.key) /\ (e.form = "bare" => e.kid # NoWord \/ e.key # NoWord)
      /\ Colon \in Symbol /\ Space \in Symbol /\ e.kid \in Symbol
  <2> HIDE DEF e
  <2> QED BY <1>0, EntryFields, WordsAreWords, MarksAreSymbols DEF IsWord
<1>2. P = (a \o ((b \o c) \o V)) \o a
  <2> HIDE DEF a, e
  <2>1. P = (a \o EntryText(e)) \o a
    BY Zenon DEF Piece, a, e
  <2>2. EntryText(e) = (b \o c) \o V
    <3>1. CASE blank
      <4>1. b = <<>> /\ c = <<>> /\ V = <<>> /\ EntryText(e) = <<>>
        BY <3>1, Zenon DEF EntryText
      <4>2. (<<>> \o <<>>) \o <<>> = <<>>
        OBVIOUS
      <4> QED BY <4>1, <4>2, Zenon
    <3>2. CASE ~ blank
      <4>1. /\ b = (IF e.kid = NoWord THEN <<>> ELSE <<e.kid>>)
            /\ c = (IF e.form = "bare" THEN <<>> ELSE <<Colon>>)
            /\ V = KeyText(e)
        BY <3>2, Zenon
      <4>2. EntryText(e) = ((IF e.kid = NoWord THEN <<>> ELSE <<e.kid>>)
                            \o (IF e.form = "bare" THEN <<>> ELSE <<Colon>>)) \o KeyText(e)
        BY <3>2, Zenon DEF EntryText
      <4> HIDE DEF b, c, V
      <4> QED BY <4>1, <4>2, Zenon
    <3> QED BY <3>1, <3>2, Zenon
  <2> HIDE DEF b, c, V
  <2> QED BY <2>1, <2>2, Zenon
<1> HIDE DEF e
<1>3. /\ a \in Seq(Symbol) /\ s \in {0, 1} /\ \A y \in 1..s : a[y] = Space
  <2> DEFINE t == list.style # "spaced"
  <2>1. a = (IF t THEN <<>> ELSE <<Space>>) /\ t \in BOOLEAN
    BY Zenon
  <2> HIDE DEF t, a
  <2>2. Optional(a, Space, t)
    BY <1>1, <2>1, OptionalOne, Zenon
  <2> QED BY <2>2, Zenon DEF Optional
<1>4. /\ b \in Seq(Symbol) /\ h \in {0, 1} /\ \A y \in 1..h : b[y] = e.kid
      /\ h = 0 <=> (blank \/ e.kid = NoWord)
  <2> DEFINE t == blank \/ e.kid = NoWord
  <2>1. b = (IF t THEN <<>> ELSE <<e.kid>>) /\ t \in BOOLEAN
    BY Zenon
  <2> HIDE DEF t, b
  <2>2. Optional(b, e.kid, t)
    BY <1>1, <2>1, OptionalOne, Zenon
  <2> QED BY <2>2, Zenon DEF t, Optional
<1>5. /\ c \in Seq(Symbol) /\ q \in {0, 1} /\ \A y \in 1..q : c[y] = Colon
      /\ q = 0 <=> (blank \/ e.form = "bare")
  <2> DEFINE t == blank \/ e.form = "bare"
  <2>1. c = (IF t THEN <<>> ELSE <<Colon>>) /\ t \in BOOLEAN
    BY Zenon
  <2> HIDE DEF t, c
  <2>2. Optional(c, Colon, t)
    BY <1>1, <2>1, OptionalOne, Zenon
  <2> QED BY <2>2, Zenon DEF t, Optional
<1>6. KeySpelled(KeyText(e), e)
  BY <1>0, KeyIsSpelled
<1>7. /\ V \in Seq(Symbol)
      /\ \A y \in 1..Len(V) : V[y] # Space
      /\ NoColon(e) => \A y \in 1..Len(V) : IsWord(V[y])
      /\ blank => V = <<>>
      /\ ~ blank => V = KeyText(e)
      /\ e.form = "bare" => (V = <<>> <=> e.key = NoWord)
  <2>1. NoColon(e) => ~ Block(e)
    BY DEF NoColon, Block
  <2>2. e.form = "bare" => NoColon(e) /\ ~ blank
    BY DEF NoColon
  <2>3. CASE blank
    <3>1. V = <<>>
      BY <2>3, Zenon
    <3>2. V \in Seq(Symbol) /\ Len(V) = 0
      BY <3>1, NoSymbol, Zenon
    <3>3. 1..0 = {}
      OBVIOUS
    <3> HIDE DEF V
    <3> QED BY <2>2, <2>3, <3>1, <3>2, <3>3, Zenon
  <2>4. CASE ~ blank
    <3>1. V = KeyText(e)
      BY <2>4, Zenon
    <3> HIDE DEF V
    <3> QED BY <1>6, <2>1, <2>2, <2>4, <3>1, Zenon DEF KeySpelled
  <2> QED BY <2>3, <2>4
<1> HIDE DEF a, b, c, V, P
<1>8. Parts(P, a, b, c, V)
  <2>1. Parts((a \o ((b \o c) \o V)) \o a, a, b, c, V)
    BY <1>3, <1>4, <1>5, <1>7, PartsOf, Zenon
  <2> QED BY <1>2, <2>1, Zenon
<1>9. Spelled(P, e, s, h, q, V)
  <2>1. 1 \in 1..1
    OBVIOUS
  <2>2. h = 1 => P[s + 1] = e.kid
    <3>1. \A x \in 1..h : P[s + x] = b[x]
      BY <1>8, Zenon DEF Parts
    <3>2. \A x \in 1..h : P[s + x] = e.kid
      BY <1>4, <3>1, Zenon
    <3> QED BY <2>1, <3>2, Zenon
  <2>3. q = 1 => P[s + h + 1] = Colon
    BY <1>5, <1>8, <2>1, Zenon DEF Parts
  <2>4. /\ \A x \in 1..s : P[x] = Space
        /\ \A x \in 1..s : P[s + h + q + Len(V) + x] = Space
    BY <1>3, <1>8, Zenon DEF Parts
  <2> QED BY <1>3, <1>4, <1>5, <1>7, <1>8, <2>2, <2>3, <2>4, Zenon DEF Parts, Spelled
<1>10. Written(e, h, q, V)
  <2>0. NoColon(e) <=> (blank \/ e.form = "bare")
    BY DEF NoColon
  <2>1. q = 0 <=> NoColon(e)
    BY <1>5, <2>0, Zenon
  <2>2. blank => h = 0 /\ q = 0
    BY <1>4, <1>5, Zenon
  <2>3. ~ blank => (h = 0 <=> e.kid = NoWord)
    BY <1>4, Zenon
  <2>4. ~ blank => h = 1 \/ q = 1 \/ V # <<>>
    <3>1. CASE e.form = "bare"
      BY <1>1, <1>4, <1>7, <3>1, Zenon
    <3>2. CASE e.form # "bare"
      BY <1>5, <3>2, Zenon
    <3> QED BY <3>1, <3>2
  <2> QED BY <1>1, <1>7, <2>1, <2>2, <2>3, <2>4, Zenon DEF Written
<1> QED BY <1>9, <1>10, Zenon DEF e, P

\* What may stand in each place of the piece.
Places(P, e, s, h, q, V) ==
    \A x \in 1..Len(P) :
       \/ P[x] = Space /\ (x <= s \/ x > s + h + q + Len(V))
       \/ h = 1 /\ x = s + 1 /\ P[x] = e.kid
       \/ q = 1 /\ x = s + h + 1 /\ P[x] = Colon
       \/ \E y \in 1..Len(V) : x = s + h + q + y /\ P[x] = V[y]

\* There is nothing in a piece but that.
LEMMA PlacesOf ==
    ASSUME NEW P, NEW e, NEW s, NEW h, NEW q, NEW V,
           Spelled(P, e, s, h, q, V)
    PROVE  Places(P, e, s, h, q, V)
<1> SUFFICES ASSUME NEW x \in 1..Len(P)
             PROVE \/ P[x] = Space /\ (x <= s \/ x > s + h + q + Len(V))
                   \/ h = 1 /\ x = s + 1 /\ P[x] = e.kid
                   \/ q = 1 /\ x = s + h + 1 /\ P[x] = Colon
                   \/ \E y \in 1..Len(V) : x = s + h + q + y /\ P[x] = V[y]
  BY Zenon DEF Places
<1> DEFINE l == Len(V)
           n == Len(P)
<1>1. /\ s \in {0, 1} /\ h \in {0, 1} /\ q \in {0, 1} /\ l \in Nat /\ n \in Nat
      /\ n = s + h + q + l + s
  <2>1. V \in Seq(Symbol) /\ P \in Seq(Symbol)
    BY Zenon DEF Spelled
  <2>2. Len(V) \in Nat /\ Len(P) \in Nat
    BY <2>1
  <2> QED BY <2>2, Zenon DEF Spelled
<1>2. x \in 1..n
  OBVIOUS
<1> HIDE DEF l, n
<1>3. \/ x \in 1..s
      \/ h = 1 /\ x = s + 1
      \/ q = 1 /\ x = s + h + 1
      \/ x - (s + h + q) \in 1..l /\ x = s + h + q + (x - (s + h + q))
      \/ /\ x - (s + h + q + l) \in 1..s /\ x = s + h + q + l + (x - (s + h + q + l))
         /\ x > s + h + q + l
  BY <1>1, <1>2
<1>4. CASE x \in 1..s
  <2>1. P[x] = Space
    BY <1>4, Zenon DEF Spelled
  <2>2. x <= s
    BY <1>1, <1>4
  <2> QED BY <2>1, <2>2
<1>5. CASE h = 1 /\ x = s + 1
  BY <1>5, Zenon DEF Spelled
<1>6. CASE q = 1 /\ x = s + h + 1
  BY <1>6, Zenon DEF Spelled
<1>7. CASE x - (s + h + q) \in 1..l /\ x = s + h + q + (x - (s + h + q))
  <2> DEFINE y == x - (s + h + q)
  <2>1. y \in 1..l /\ x = s + h + q + y
    BY <1>7, Zenon
  <2> HIDE DEF y
  <2>2. P[s + h + q + y] = V[y]
    BY <2>1, Zenon DEF Spelled, l
  <2> QED BY <2>1, <2>2, Zenon DEF l
<1>8. CASE /\ x - (s + h + q + l) \in 1..s /\ x = s + h + q + l + (x - (s + h + q + l))
           /\ x > s + h + q + l
  <2> DEFINE y == x - (s + h + q + l)
  <2>1. y \in 1..s /\ x = s + h + q + l + y /\ x > s + h + q + l
    BY <1>8, Zenon
  <2> HIDE DEF y
  <2>2. P[s + h + q + l + y] = Space
    BY <2>1, Zenon DEF Spelled, l
  <2> QED BY <2>1, <2>2, Zenon DEF l
<1> QED BY <1>3, <1>4, <1>5, <1>6, <1>7, <1>8, Zenon

\* The lengths of the parts.
Sized(P, s, h, q, V) ==
    /\ s \in {0, 1} /\ h \in {0, 1} /\ q \in {0, 1} /\ Len(V) \in Nat /\ Len(P) \in Nat
    /\ Len(P) = s + h + q + Len(V) + s
    /\ P \in Seq(Symbol) /\ V \in Seq(Symbol)
    /\ DOMAIN P = 1..Len(P)

\* A piece that is spelled has them.
LEMMA SpelledNumbers ==
    ASSUME NEW P, NEW e, NEW s, NEW h, NEW q, NEW V,
           Spelled(P, e, s, h, q, V)
    PROVE  Sized(P, s, h, q, V)
<1>1. V \in Seq(Symbol) /\ P \in Seq(Symbol)
  BY Zenon DEF Spelled
<1>2. Len(V) \in Nat /\ Len(P) \in Nat /\ DOMAIN P = 1..Len(P)
  BY <1>1
<1> QED BY <1>1, <1>2, Zenon DEF Spelled, Sized

\* splitInlineEntries skips the blank entries and no others.
LEMMA BlankPiece ==
    ASSUME NEW P, NEW e, NEW s, NEW h, NEW q, NEW V,
           Spelled(P, e, s, h, q, V), Written(e, h, q, V)
    PROVE  TrimSpace(P) = <<>> <=> e.form = "blank"
<1>0. Sized(P, s, h, q, V)
  BY SpelledNumbers, Zenon
<1>1. Places(P, e, s, h, q, V)
  BY PlacesOf, Zenon
<1>2. CASE e.form = "blank"
  <2>1. h = 0 /\ q = 0 /\ V = <<>>
    BY <1>2, Zenon DEF Written
  <2>2. Len(V) = 0 /\ 0 # 1 /\ 1..0 = {}
    BY <2>1
  <2>3. \A x \in 1..Len(P) : P[x] = Space
    BY <1>1, <2>1, <2>2, Zenon DEF Places
  <2>4. P \in Seq(Symbol) /\ <<>> \in Seq(Symbol) /\ Len(P) \in Nat
    BY <1>0, NoSymbol, Zenon DEF Sized
  <2>5. Embeds(P, <<>>, 0)
    BY <2>4, NoSymbol DEF Embeds
  <2>6. Solid(<<>>)
    BY Zenon DEF Solid
  <2>7. TrimSpace(P) = <<>>
    BY <2>3, <2>4, <2>5, <2>6, Trims, Zenon
  <2> QED BY <1>2, <2>7
<1>3. CASE e.form # "blank"
  <2> DEFINE w == SubSeq(P, s + 1, s + h + q + Len(V))
             l == Len(V)
  <2>1. /\ s \in {0, 1} /\ h \in {0, 1} /\ q \in {0, 1} /\ l \in Nat /\ Len(P) \in Nat
        /\ Len(P) = s + h + q + l + s
        /\ P \in Seq(Symbol) /\ V \in Seq(Symbol)
    BY <1>0, Zenon DEF Sized
  <2>2. h = 1 \/ q = 1 \/ l >= 1
    <3>1. h = 1 \/ q = 1 \/ V # <<>>
      BY <1>3, Zenon DEF Written
    <3>2. V # <<>> => l >= 1
      BY <2>1
    <3> QED BY <3>1, <3>2
  <2> HIDE DEF l
  <2>3. /\ 1 <= s + 1 /\ s + 1 <= (s + h + q + l) + 1 /\ s + h + q + l <= Len(P)
        /\ s + 1 \in Int /\ s + h + q + l \in Int
        /\ (s + h + q + l) - (s + 1) + 1 = h + q + l /\ h + q + l \in Nat /\ h + q + l >= 1
        /\ s \in Nat /\ s + (h + q + l) = s + h + q + l
    BY <2>1, <2>2
  <2>4. /\ w \in Seq(Symbol)
        /\ Len(w) = h + q + l
        /\ \A i \in 1..(h + q + l) : w[i] = P[(s + 1) + i - 1]
    <3>1. SubSequenceOf(w, P, s + 1, s + h + q + l)
      BY <2>1, <2>3, SubSequences, Zenon DEF l
    <3> QED BY <3>1, <2>3, Zenon DEF SubSequenceOf
  <2> HIDE DEF w
  <2>5. \A i \in 1..(h + q + l) : w[i] = P[s + i] /\ P[s + i] # Space
    <3> TAKE i \in 1..(h + q + l)
    <3>1. /\ (s + 1) + i - 1 = s + i /\ s + i \in 1..Len(P) /\ ~ (s + i <= s)
          /\ ~ (s + i > s + h + q + l)
      BY <2>1
    <3>2. w[i] = P[s + i]
      BY <2>4, <3>1, Zenon
    <3>3. e.kid # Space /\ Colon # Space /\ \A y \in 1..Len(V) : V[y] # Space
      BY MarksDiffer, Zenon DEF Written, IsWord
    <3>4. P[s + i] # Space
      BY <1>1, <3>1, <3>3, Zenon DEF Places, l
    <3> QED BY <3>2, <3>4
  <2>6. Embeds(P, w, s)
    BY <2>3, <2>4, <2>5, Zenon DEF Embeds
  <2>7. 1 \in 1..(h + q + l) /\ h + q + l \in 1..(h + q + l)
    BY <2>3
  <2>8. Solid(w)
    BY <2>4, <2>5, <2>7, Zenon DEF Solid
  <2>9. \A x \in 1..Len(P) : x \in (s + 1)..(s + Len(w)) \/ P[x] = Space
    <3> TAKE x \in 1..Len(P)
    <3>1. CASE x \in (s + 1)..(s + Len(w))
      BY <3>1
    <3>2. CASE x \notin (s + 1)..(s + Len(w))
      <4>1. x <= s \/ x > s + h + q + l
        BY <3>2, <2>1, <2>4
      <4>2. CASE x <= s
        <5>1. x \in 1..s
          BY <4>2, <2>1
        <5> QED BY <5>1, Zenon DEF Spelled
      <4>3. CASE x > s + h + q + l
        <5> DEFINE y == x - (s + h + q + l)
        <5>1. y \in 1..s /\ x = s + h + q + l + y
          BY <4>3, <2>1
        <5> HIDE DEF y
        <5> QED BY <5>1, Zenon DEF Spelled, l
      <4> QED BY <4>1, <4>2, <4>3
    <3> QED BY <3>1, <3>2
  <2>10. TrimSpace(P) = w
    BY <2>1, <2>4, <2>6, <2>8, <2>9, Trims, Zenon
  <2>11. w # <<>>
    BY <2>3, <2>4
  <2> QED BY <1>3, <2>10, <2>11
<1> QED BY <1>2, <1>3

\* An entry without the colon has none in its key either: it is refused.
LEMMA NoColonPiece ==
    ASSUME NEW P, NEW e, NEW s, NEW h, NEW q, NEW V,
           Spelled(P, e, s, h, q, V), Written(e, h, q, V),
           NoColon(e)
    PROVE  Positions(P, Colon) = {}
<1>0. Sized(P, s, h, q, V)
  BY SpelledNumbers, Zenon
<1>1. Places(P, e, s, h, q, V)
  BY PlacesOf, Zenon
<1>2. q = 0 /\ q # 1
  <2>1. q = 0
    BY Zenon DEF Written
  <2> QED BY <2>1
<1>3. e.kid # Colon /\ Space # Colon /\ \A y \in 1..Len(V) : V[y] # Colon
  BY <1>2, MarksDiffer, Zenon DEF Written, IsWord
<1>4. \A x \in 1..Len(P) : P[x] # Colon
  BY <1>1, <1>2, <1>3, Zenon DEF Places
<1> QED BY <1>0, <1>4, Zenon DEF Positions, Sized

\* The first colon of P is at m.
ColonAt(P, m) ==
    /\ Positions(P, Colon) # {}
    /\ Least(Positions(P, Colon)) = m

\* The first colon of any other entry is the one that follows the kid, also
\* when a header within the key has another.
LEMMA ColonPiece ==
    ASSUME NEW P, NEW e, NEW s, NEW h, NEW q, NEW V,
           Spelled(P, e, s, h, q, V), Written(e, h, q, V),
           ~ NoColon(e)
    PROVE  ColonAt(P, s + h + 1)
<1>0. Sized(P, s, h, q, V)
  BY SpelledNumbers, Zenon
<1>1. Places(P, e, s, h, q, V)
  BY PlacesOf, Zenon
<1>2. q = 1
  BY <1>0, Zenon DEF Written, Sized
<1>3. e.kid # Colon /\ Space # Colon
  BY MarksDiffer, Zenon DEF Written, IsWord
<1>4. s + h + 1 \in 1..Len(P) /\ s + h + 1 \in Int
  BY <1>0, <1>2 DEF Sized
<1>5. P[s + h + 1] = Colon
  BY <1>2, Zenon DEF Spelled
<1> DEFINE C == Positions(P, Colon)
           m == s + h + 1
<1>6. m \in C
  BY <1>0, <1>4, <1>5, Zenon DEF Positions, Sized
<1>7. \A x \in C : x \in 1..Len(P) /\ P[x] = Colon
  BY <1>0, Zenon DEF Positions, Sized
<1>8. \A x \in C : m <= x
  <2> TAKE x \in C
  <2>1. \/ (x <= s \/ x > s + h + q + Len(V)) /\ P[x] = Space
        \/ h = 1 /\ x = s + 1 /\ P[x] = e.kid
        \/ q = 1 /\ x = s + h + 1 /\ P[x] = Colon
        \/ \E y \in 1..Len(V) : x = s + h + q + y
    BY <1>1, <1>7, Zenon DEF Places
  <2>2. \/ x = s + h + 1
        \/ \E y \in 1..Len(V) : x = s + h + q + y
    BY <2>1, <1>3, <1>7, Zenon
  <2>3. \A y \in 1..Len(V) : m <= s + h + q + y
    BY <1>0, <1>2 DEF Sized
  <2>4. m <= m
    BY <1>4
  <2> QED BY <2>2, <2>3, <2>4, Zenon
<1>9. C \in SUBSET Int
  BY <1>7
<1> HIDE DEF C, m
<1>10. Least(C) = m
  BY <1>6, <1>8, <1>9, LeastIs, Zenon
<1>11. C # {}
  BY <1>6, Zenon
<1> QED BY <1>10, <1>11, Zenon DEF C, m, ColonAt

\* KidOf gives the kid that is listed, the empty one included.
LEMMA KidPiece ==
    ASSUME NEW P, NEW e, NEW s, NEW h, NEW q, NEW V,
           Spelled(P, e, s, h, q, V), Written(e, h, q, V),
           ~ NoColon(e)
    PROVE  KidOf(P) = e.kid
<1>0. Sized(P, s, h, q, V)
  BY SpelledNumbers, Zenon
<1>2. q = 1 /\ e.form # "blank"
  <2>1. e.form # "blank"
    BY DEF NoColon
  <2> QED BY <1>0, <2>1, Zenon DEF Written, Sized
<1>3. Least(Positions(P, Colon)) = s + h + 1
  <2>1. ColonAt(P, s + h + 1)
    BY ColonPiece, Zenon
  <2> QED BY <2>1, Zenon DEF ColonAt
<1> DEFINE u == SubSeq(P, 1, s + h)
<1>4. /\ 1 <= 1 /\ 1 <= (s + h) + 1 /\ s + h <= Len(P) /\ 1 \in Int /\ s + h \in Int
      /\ (s + h) - 1 + 1 = s + h /\ (s + h + 1) - 1 = s + h /\ P \in Seq(Symbol)
      /\ s \in Nat
  BY <1>0, <1>2 DEF Sized
<1>5. KidOf(P) = IF TrimSpace(u) = <<>> THEN NoWord ELSE TrimSpace(u)[1]
  BY <1>3, <1>4, Zenon DEF KidOf
<1>6. SubSequenceOf(u, P, 1, s + h)
  BY <1>4, SubSequences, Zenon
<1> HIDE DEF u
<1>7. u \in Seq(Symbol) /\ Len(u) = s + h /\ \A i \in 1..(s + h) : u[i] = P[i]
  <2>1. \A i \in 1..(s + h) : 1 + i - 1 = i
    BY <1>4
  <2> QED BY <1>4, <1>6, <2>1, Zenon DEF SubSequenceOf
<1>8. CASE h = 0
  <2>1. s + h = s /\ s + 0 <= s /\ 0 + 0 <= s
    BY <1>4, <1>8
  <2>2. \A x \in 1..Len(u) : u[x] = Space
    BY <1>7, <2>1, Zenon DEF Spelled
  <2>3. <<>> \in Seq(Symbol)
    BY NoSymbol
  <2>4. Embeds(u, <<>>, 0)
    <3>1. Len(u) \in Nat
      BY <1>7
    <3> QED BY <3>1, NoSymbol DEF Embeds
  <2>5. Solid(<<>>)
    BY Zenon DEF Solid
  <2>6. TrimSpace(u) = <<>>
    BY <1>7, <2>2, <2>3, <2>4, <2>5, Trims, Zenon
  <2>7. e.kid = NoWord
    BY <1>2, <1>8, Zenon DEF Written
  <2> QED BY <1>5, <2>6, <2>7, Zenon
<1>9. CASE h # 0
  <2>0. h = 1
    BY <1>9, <1>0, Zenon DEF Sized
  <2> DEFINE K == <<e.kid>>
  <2>1. K \in Seq(Symbol) /\ Len(K) = 1 /\ K[1] = e.kid /\ K # <<>>
    <3>1. e.kid \in Symbol
      BY Zenon DEF Written, IsWord
    <3> QED BY <3>1, OneLong, Zenon
  <2> HIDE DEF K
  <2>2. /\ s + 1 \in 1..(s + h) /\ s + 1 <= Len(u) /\ 1..1 = {1}
        /\ (\A x \in 1..(s+h) : x = s + 1 \/ x \in 1..s) /\ s + 1 \in (s+1)..(s+1)
    BY <1>4, <1>7, <2>0
  <2>3. u[s + 1] = e.kid
    BY <1>7, <2>0, <2>2, Zenon DEF Spelled
  <2>4. Embeds(u, K, s)
    BY <1>4, <2>1, <2>2, <2>3, Zenon DEF Embeds
  <2>5. e.kid # Space
    BY Zenon DEF Written, IsWord
  <2>6. Solid(K)
    BY <2>1, <2>5, Zenon DEF Solid
  <2>7. \A x \in 1..Len(u) : x \in (s+1)..(s+Len(K)) \/ u[x] = Space
    <3>1. \A x \in 1..s : x \in 1..(s + h)
      BY <1>4, <2>0
    <3>2. \A x \in 1..s : u[x] = Space
      BY <3>1, <1>7, Zenon DEF Spelled
    <3> QED BY <1>7, <2>1, <2>2, <3>2, Zenon
  <2>8. TrimSpace(u) = K
    BY <1>7, <2>1, <2>4, <2>6, <2>7, Trims, Zenon
  <2> QED BY <1>5, <2>1, <2>8, Zenon
<1> QED BY <1>8, <1>9

\* KeyOf gives the key that is listed, or the error if it is none.
LEMMA KeyPiece ==
    ASSUME NEW P, NEW e \in Entry, NEW s, NEW h, NEW q, NEW V,
           Spelled(P, e, s, h, q, V), Written(e, h, q, V),
           ~ NoColon(e)
    PROVE  KeyOf(P) = KeyOrBad(e.key)
<1>0. Sized(P, s, h, q, V)
  BY SpelledNumbers, Zenon
<1>2. q = 1 /\ e.form # "blank"
  <2>1. e.form # "blank"
    BY DEF NoColon
  <2> QED BY <1>0, <2>1, Zenon DEF Written, Sized
<1>3. Least(Positions(P, Colon)) = s + h + 1
  <2>1. ColonAt(P, s + h + 1)
    BY ColonPiece, Zenon
  <2> QED BY <2>1, Zenon DEF ColonAt
<1> DEFINE u == SubSeq(P, (s + h + 1) + 1, Len(P))
           l == Len(V)
<1>4. /\ 1 <= (s + h + 1) + 1 /\ (s + h + 1) + 1 <= Len(P) + 1 /\ Len(P) <= Len(P)
      /\ (s + h + 1) + 1 \in Int /\ Len(P) \in Int
      /\ Len(P) - ((s + h + 1) + 1) + 1 = l + s /\ P \in Seq(Symbol)
      /\ s \in Nat /\ l \in Nat /\ h \in Nat
  BY <1>0, <1>2 DEF Sized
<1>5. KeyOf(P) = decodePubKey(u)
  BY <1>3, Zenon DEF KeyOf
<1>6. SubSequenceOf(u, P, (s + h + 1) + 1, Len(P))
  BY <1>4, SubSequences, Zenon
<1> HIDE DEF u
<1>7. u \in Seq(Symbol) /\ Len(u) = l + s /\ \A i \in 1..(l + s) : u[i] = P[s + h + q + i]
  <2>1. \A i \in 1..(l + s) : ((s + h + 1) + 1) + i - 1 = s + h + q + i
    BY <1>4, <1>2
  <2> HIDE DEF l
  <2>2. /\ u \in Seq(Symbol) /\ Len(u) = l + s
        /\ \A i \in 1..(l + s) : u[i] = P[((s + h + 1) + 1) + i - 1]
    BY <1>4, <1>6, Zenon DEF SubSequenceOf
  <2> QED BY <2>1, <2>2, Zenon
<1>8. V \in Seq(Symbol) /\ KeySpelled(V, e)
  BY <1>2, KeyIsSpelled, Zenon DEF Written, KeySpelled
<1>9. Embeds(u, V, 0)
  <2>1. \A y \in 1..l : y \in 1..(l + s) /\ 0 + y = y
    BY <1>4
  <2>2. 0 \in Nat /\ 0 + l <= l + s
    BY <1>4
  <2>3. \A y \in 1..l : u[y] = V[y]
    BY <1>7, <2>1, Zenon DEF Spelled
  <2> QED BY <1>7, <2>1, <2>2, <2>3, Zenon DEF Embeds
<1>10. Solid(V)
  <2>1. V = <<>> \/ (1 \in 1..l /\ l \in 1..l)
    BY <1>8
  <2> QED BY <2>1, Zenon DEF Solid, Written
<1>11. \A x \in 1..Len(u) : x \in (0+1)..(0+Len(V)) \/ u[x] = Space
  <2> TAKE x \in 1..Len(u)
  <2>1. \/ x \in (0+1)..(0+l)
        \/ x - l \in 1..s /\ s + h + q + x = s + h + q + l + (x - l) /\ x \in 1..(l+s)
    <3> HIDE DEF l
    <3> QED BY <1>4, <1>7, <1>2
  <2>2. CASE x \in (0+1)..(0+l)
    BY <2>2
  <2>3. CASE x - l \in 1..s /\ s + h + q + x = s + h + q + l + (x - l) /\ x \in 1..(l+s)
    <3>1. P[s + h + q + l + (x - l)] = Space
      BY <2>3, Zenon DEF Spelled
    <3>2. u[x] = P[s + h + q + x]
      BY <2>3, <1>7, Zenon
    <3> QED BY <2>3, <3>1, <3>2, Zenon
  <2> QED BY <2>1, <2>2, <2>3
<1>12. TrimSpace(u) = V
  BY <1>7, <1>8, <1>9, <1>10, <1>11, Trims, Zenon
<1>13. decodePubKey(u) = Decoded(V)
  BY <1>12, Zenon DEF decodePubKey, Decoded
<1> QED BY <1>5, <1>8, <1>13, Zenon DEF KeySpelled

\* P has one PEM block, from b to z, and its commas are within it.
Fenced(P, b, z) ==
    /\ b \in 1..Len(P) /\ z \in 1..Len(P) /\ b < z
    /\ \A x \in 1..Len(P) : /\ P[x] = Begin <=> x = b
                            /\ P[x] = End <=> x = z
                            /\ P[x] = Comma => b < x /\ x < z

\* P has neither a block nor a comma.
Plain(P) == \A x \in 1..Len(P) : P[x] # Begin /\ P[x] # End /\ P[x] # Comma

\* An entry without a block is plain.
LEMMA PlainPiece ==
    ASSUME NEW P, NEW e, NEW s, NEW h, NEW q, NEW V,
           Spelled(P, e, s, h, q, V), Written(e, h, q, V),
           \A y \in 1..Len(V) : IsWord(V[y])
    PROVE  Plain(P)
<1>1. Places(P, e, s, h, q, V)
  BY PlacesOf, Zenon
<1>2. /\ e.kid # Begin /\ e.kid # End /\ e.kid # Comma
      /\ \A y \in 1..Len(V) : V[y] # Begin /\ V[y] # End /\ V[y] # Comma
  BY Zenon DEF Written, IsWord
<1> QED BY <1>1, <1>2, MarksDiffer, Zenon DEF Places, Plain

\* An entry with a block is fenced.
LEMMA FencedPiece ==
    ASSUME NEW P, NEW e, NEW s, NEW h, NEW q, NEW V,
           Spelled(P, e, s, h, q, V), Written(e, h, q, V),
           Len(V) >= 3,
           \A y \in 1..Len(V) : V[y] = Begin <=> y = 1,
           \A y \in 1..Len(V) : V[y] = End <=> y = Len(V)
    PROVE  Fenced(P, s + h + q + 1, s + h + q + Len(V))
<1>0. Sized(P, s, h, q, V)
  BY SpelledNumbers, Zenon
<1>1. Places(P, e, s, h, q, V)
  BY PlacesOf, Zenon
<1>2. e.kid # Begin /\ e.kid # End /\ e.kid # Comma
  BY Zenon DEF Written, IsWord
<1> DEFINE d == s + h + q
           l == Len(V)
           n == Len(P)
<1>3. /\ d \in Nat /\ l \in Nat /\ n \in Nat /\ l >= 3
      /\ d + 1 \in 1..n /\ d + l \in 1..n /\ d + 1 < d + l
      /\ 1 \in 1..l /\ l \in 1..l
      /\ \A y, z \in 1..l : d + y = d + z => y = z
      /\ \A y \in 1..l : y # 1 /\ y # l => d + 1 < d + y /\ d + y < d + l
  BY <1>0 DEF Sized
<1>4. /\ \A y \in 1..l : P[d + y] = V[y]
  BY Zenon DEF Spelled
<1>5. P[d + 1] = Begin /\ P[d + l] = End
  <2>1. V[1] = Begin /\ V[l] = End
    BY <1>3, Zenon
  <2> QED BY <1>3, <1>4, <2>1, Zenon
<1>6. \A x \in 1..n : P[x] = Begin \/ P[x] = End \/ P[x] = Comma =>
                        \E y \in 1..l : x = d + y /\ P[x] = V[y]
  BY <1>1, <1>2, MarksDiffer, Zenon DEF Places
<1> HIDE DEF d, l, n
<1>7. ASSUME NEW x \in 1..n
      PROVE /\ P[x] = Begin <=> x = d + 1
            /\ P[x] = End <=> x = d + l
            /\ P[x] = Comma => d + 1 < x /\ x < d + l
  <2>1. P[x] = Begin => x = d + 1
    <3> SUFFICES ASSUME P[x] = Begin PROVE x = d + 1
      BY Zenon
    <3>1. PICK y \in 1..l : x = d + y /\ P[x] = V[y]
      BY <1>6, Zenon
    <3>2. y = 1
      BY <3>1, Zenon DEF l
    <3> QED BY <3>1, <3>2, Zenon
  <2>2. P[x] = End => x = d + l
    BY <1>6, Zenon DEF l
  <2>3. P[x] = Comma => d + 1 < x /\ x < d + l
    <3> SUFFICES ASSUME P[x] = Comma PROVE d + 1 < x /\ x < d + l
      BY Zenon
    <3>1. PICK y \in 1..l : x = d + y /\ P[x] = V[y]
      BY <1>6, Zenon
    <3>2. y # 1 /\ y # l
      BY <3>1, MarksDiffer, Zenon DEF l
    <3> QED BY <3>1, <3>2, <1>3, Zenon
  <2> QED BY <1>5, <2>1, <2>2, <2>3, Zenon
<1>8. Fenced(P, d + 1, d + l)
  BY <1>3, <1>7, Zenon DEF Fenced, n
<1> QED BY <1>8, Zenon DEF d, l

\* What the parser needs to know of a piece P that is written for the entry e.
PieceFacts(P, e) ==
    /\ P \in Seq(Symbol)
    /\ TrimSpace(P) = <<>> <=> e.form = "blank"
    /\ Positions(P, Colon) = {} <=> NoColon(e)
    /\ ~ NoColon(e) => KidOf(P) = e.kid /\ KeyOf(P) = KeyOrBad(e.key)
    /\ Plain(P) \/ \E b, z : Fenced(P, b, z)

\* It is so of every piece of a list.
LEMMA PieceIsParsed ==
    ASSUME NEW list \in KeyList, NEW i \in DOMAIN list.entries
    PROVE  PieceFacts(Piece(list, i), list.entries[i])
<1> DEFINE e == list.entries[i]
           P == Piece(list, i)
<1>0. e \in Entry
  BY DEF KeyList
<1> HIDE DEF e, P
<1>1. PICK s, h, q, V : Spelled(P, e, s, h, q, V) /\ Written(e, h, q, V)
  BY PieceIsSpelled, Zenon DEF e, P
<1>2. P \in Seq(Symbol)
  BY <1>1, Zenon DEF Spelled
<1>3. TrimSpace(P) = <<>> <=> e.form = "blank"
  BY <1>1, BlankPiece, Zenon
<1>4. Positions(P, Colon) = {} <=> NoColon(e)
  <2>1. NoColon(e) => Positions(P, Colon) = {}
    BY <1>1, NoColonPiece, Zenon
  <2>2. ~ NoColon(e) => ColonAt(P, s + h + 1)
    BY <1>1, ColonPiece, Zenon
  <2> QED BY <2>1, <2>2, Zenon DEF ColonAt
<1>5. ~ NoColon(e) => KidOf(P) = e.kid
  BY <1>1, KidPiece, Zenon
<1>6. ~ NoColon(e) => KeyOf(P) = KeyOrBad(e.key)
  BY <1>0, <1>1, KeyPiece, Zenon
<1>7. Plain(P) \/ \E b, z : Fenced(P, b, z)
  <2>1. CASE e.form # "blank" /\ Block(e)
    <3>1. KeySpelled(V, e)
      BY <1>0, <1>1, <2>1, KeyIsSpelled, Zenon DEF Written
    <3>2. Fenced(P, s + h + q + 1, s + h + q + Len(V))
      BY <1>1, <2>1, <3>1, FencedPiece, Zenon DEF KeySpelled
    <3> QED BY <3>2, Zenon
  <2>2. CASE e.form # "blank" /\ ~ Block(e)
    <3>1. KeySpelled(V, e)
      BY <1>0, <1>1, <2>2, KeyIsSpelled, Zenon DEF Written
    <3> QED BY <1>1, <2>2, <3>1, PlainPiece, Zenon DEF KeySpelled
  <2>3. CASE e.form = "blank"
    <3>1. \A y \in 1..Len(V) : IsWord(V[y])
      BY <1>1, <2>3, Zenon DEF Written
    <3> QED BY <1>1, <3>1, PlainPiece, Zenon
  <2> QED BY <2>1, <2>2, <2>3, Zenon
<1>8. PieceFacts(P, e)
  BY <1>2, <1>3, <1>4, <1>5, <1>6, <1>7, Zenon DEF PieceFacts
<1> QED BY <1>8 DEF P, e

-----------------------------------------------------------------------------
(* The layout of a text *)

\* f[i] is the first i of the texts X, one after another.
Joins(f, n, X) ==
    f = [i \in 0..n |-> IF i = 0 THEN <<>> ELSE f[i - 1] \o X[i]]

\* There is such a function: the recursion of Text is well-founded.
LEMMA JoinExists ==
    ASSUME NEW n \in Nat, NEW X
    PROVE  \E f : Joins(f, n, X)
<1> DEFINE S == {m \in Nat : \E f : Joins(f, m, X)}
<1>1. 0 \in S
  <2>1. Joins([i \in 0..0 |-> <<>>], 0, X)
    BY DEF Joins
  <2> QED BY <2>1
<1>2. ASSUME NEW m \in Nat, m \in S PROVE m + 1 \in S
  <2>1. PICK f : Joins(f, m, X)
    BY <1>2
  <2> DEFINE g == [i \in 0..(m+1) |-> IF i = 0 THEN <<>> ELSE f[i - 1] \o X[i]]
  <2>2. \A i \in 0..m : g[i] = f[i]
    BY <2>1 DEF Joins
  <2>3. \A i \in 0..(m+1) : i # 0 => g[i-1] = f[i-1]
    <3> HIDE DEF g
    <3> QED BY <2>2
  <2>4. Joins(g, m+1, X)
    <3>1. g = [i \in 0..(m+1) |-> IF i = 0 THEN <<>> ELSE f[i - 1] \o X[i]]
      OBVIOUS
    <3> HIDE DEF g
    <3> QED BY <2>3, <3>1 DEF Joins
  <2> QED BY <2>4
<1> HIDE DEF S
<1>3. Nat \subseteq S
  BY <1>1, <1>2, SetInduction
<1> QED BY <1>3 DEF S

\* Text is its last value, for the pieces and the commas between them.
LEMMA TextJoins ==
    ASSUME NEW list, Len(list.entries) \in Nat
    PROVE  \E f : /\ Text(list) = f[Len(list.entries)]
                  /\ Joins(f, Len(list.entries),
                           [i \in 1..Len(list.entries) |->
                              (IF i = 1 THEN <<>> ELSE <<Comma>>) \o Piece(list, i)])
<1> DEFINE n == Len(list.entries)
           X == [i \in 1..n |-> (IF i = 1 THEN <<>> ELSE <<Comma>>) \o Piece(list, i)]
           D(f) == [i \in 0..n |-> IF i = 0 THEN <<>>
               ELSE f[i - 1] \o ((IF i = 1 THEN <<>> ELSE <<Comma>>) \o Piece(list, i))]
           text == CHOOSE f : f = D(f)
<1>1. Text(list) = text[n]
  BY DEF Text
<1>2. \A f : Joins(f, n, X) <=> f = D(f)
  <2> TAKE f
  <2>0. ASSUME NEW i \in 0..n, i # 0
        PROVE X[i] = (IF i = 1 THEN <<>> ELSE <<Comma>>) \o Piece(list, i)
    BY <2>0, i \in 1..n
  <2> HIDE DEF X
  <2>1. [i \in 0..n |-> IF i = 0 THEN <<>> ELSE f[i - 1] \o X[i]] = D(f)
    BY <2>0
  <2> QED BY <2>1 DEF Joins
<1>3. \E f : f = D(f)
  BY <1>2, JoinExists
<1> HIDE DEF D, n
<1>4. text = D(text)
  BY Zenon, <1>3
<1> QED BY <1>1, <1>2, <1>4 DEF n

\* Where the pieces end in the text, one place after the last symbol of each: at
\* the commas, and after the text.
Ends(f, n) == [k \in 0..n |-> IF k = 0 THEN 0 ELSE Len(f[k]) + 1]

\* The pieces, each but the first with its comma.
Separated(P, n) == [i \in 1..n |-> (IF i = 1 THEN <<>> ELSE <<Comma>>) \o P[i]]

\* What the k-th piece adds to the text.
Joined(f, P, n, k) ==
    /\ f[k] \in Seq(Symbol)
    /\ Ends(f, n)[k-1] \in Nat
    /\ Ends(f, n)[k] = Ends(f, n)[k-1] + Len(P[k]) + 1
    /\ Len(f[k]) + 1 = Ends(f, n)[k]
    /\ Len(f[k-1]) <= Len(f[k])
    /\ \A x \in 1..Len(f[k-1]) : f[k][x] = f[k-1][x]
    /\ k # 1 => f[k][Ends(f, n)[k-1]] = Comma
    /\ \A y \in 1..Len(P[k]) : f[k][Ends(f, n)[k-1] + y] = P[k][y]

\* Text adds the pieces one by one.
LEMMA JoinStep ==
    ASSUME NEW n \in Nat, NEW P \in [1..n -> Seq(Symbol)], NEW f,
           Joins(f, n, Separated(P, n)), NEW k \in 1..n, f[k-1] \in Seq(Symbol)
    PROVE  Joined(f, P, n, k)
<1> DEFINE s == IF k = 1 THEN <<>> ELSE <<Comma>>
           p == P[k]
           a == f[k-1]
           c == Ends(f, n)
<1>0. /\ k \in 0..n /\ k # 0 /\ k - 1 \in 0..n /\ k \in Nat \ {0}
      /\ 0 \in 0..n /\ (k = 1 => k - 1 = 0)
  OBVIOUS
<1>1. (k = 1 => s = <<>>) /\ (k # 1 => s = <<Comma>>)
  BY Zenon
<1>2. Separated(P, n)[k] = s \o p
  BY Zenon DEF Separated
<1> HIDE DEF s
<1>3. f[k] = a \o (s \o p)
  BY <1>0, <1>2, Zenon DEF Joins
<1>4. k = 1 => a = <<>>
  BY Zenon, <1>0 DEF Joins
<1>5. p \in Seq(Symbol)
  BY Zenon
<1>6. /\ s \in Seq(Symbol)
      /\ k = 1 => Len(s) = 0 /\ Len(a) = 0
      /\ k # 1 => Len(s) = 1 /\ s[1] = Comma
  BY <1>1, <1>4, OneLong, NoSymbol, MarksAreSymbols, Zenon
<1>7. /\ c[k] = Len(f[k]) + 1
      /\ c[k-1] = IF k - 1 = 0 THEN 0 ELSE Len(a) + 1
  BY <1>0, Zenon DEF Ends
<1> HIDE DEF p, c, a
<1>8. a \in Seq(Symbol)
  BY DEF a
<1>9. /\ f[k] \in Seq(Symbol)
      /\ Len(f[k]) = Len(a) + Len(s) + Len(p)
      /\ \A x \in 1..Len(a) : f[k][x] = a[x]
      /\ \A x \in 1..Len(s) : f[k][Len(a) + x] = s[x]
      /\ \A x \in 1..Len(p) : f[k][Len(a) + Len(s) + x] = p[x]
      /\ Len(a) \in Nat /\ Len(s) \in Nat /\ Len(p) \in Nat
  <2> DEFINE t == a \o (s \o p)
  <2>1. /\ t \in Seq(Symbol)
        /\ Len(t) = Len(a) + Len(s) + Len(p)
        /\ \A x \in 1..Len(a) : t[x] = a[x]
        /\ \A x \in 1..Len(s) : t[Len(a) + x] = s[x]
        /\ \A x \in 1..Len(p) : t[Len(a) + Len(s) + x] = p[x]
        /\ Len(a) \in Nat /\ Len(s) \in Nat /\ Len(p) \in Nat
    <3>1. s \in Seq(Symbol)
      BY <1>6, Zenon
    <3> QED BY <1>5, <3>1, <1>8, Concat3
  <2>2. f[k] = t
    BY <1>3, Zenon
  <2> HIDE DEF t
  <2> QED BY <2>1, <2>2, Zenon
<1>10. /\ c[k-1] \in Nat
       /\ c[k-1] = Len(a) + Len(s)
       /\ c[k] = c[k-1] + Len(p) + 1
       /\ Len(a) <= Len(f[k])
  <2>1. /\ k = 1 => Len(a) = 0 /\ Len(s) = 0
        /\ k # 1 => Len(s) = 1
        /\ Len(f[k]) = Len(a) + Len(s) + Len(p)
        /\ Len(a) \in Nat /\ Len(s) \in Nat /\ Len(p) \in Nat
    BY <1>6, <1>9, Zenon
  <2>2. Len(f[k]) + 1 = c[k]
    BY <1>7, Zenon
  <2> DEFINE la == Len(a)
             ls == Len(s)
             lp == Len(p)
             lt == Len(f[k])
             cc == c[k-1]
  <2>3. /\ la \in Nat /\ ls \in Nat /\ lp \in Nat /\ lt = la + ls + lp
        /\ k = 1 => la = 0 /\ ls = 0
        /\ k # 1 => ls = 1
        /\ cc = IF k - 1 = 0 THEN 0 ELSE la + 1
    BY <2>1, <1>7, Zenon
  <2> HIDE DEF la, ls, lp, lt, cc
  <2>4. cc \in Nat /\ cc = la + ls /\ lt + 1 = cc + lp + 1 /\ la <= lt
    BY <1>0, <2>3
  <2> QED BY <2>2, <2>4, Zenon DEF la, ls, lp, lt, cc
<1>11. k # 1 => f[k][c[k-1]] = Comma
  <2>1. 1 \in 1..1
    OBVIOUS
  <2>2. k # 1 => Len(s) = 1 /\ s[1] = Comma
    BY <1>6, Zenon
  <2>3. \A x \in 1..Len(s) : f[k][Len(a) + x] = s[x]
    BY <1>9, Zenon
  <2>4. k # 1 => f[k][Len(a) + 1] = Comma
    BY <2>1, <2>2, <2>3, Zenon
  <2>5. k # 1 => c[k-1] = Len(a) + 1
    BY <1>10, <2>2, Zenon
  <2> QED BY <2>4, <2>5, Zenon
<1>12. \A y \in 1..Len(p) : f[k][c[k-1] + y] = p[y]
  BY <1>9, <1>10, Zenon
<1> QED BY <1>7, <1>9, <1>10, <1>11, <1>12, Zenon DEF c, p, a, Joined

\* The texts of the first pieces are texts.
LEMMA JoinsAreTexts ==
    ASSUME NEW n \in Nat, NEW P \in [1..n -> Seq(Symbol)], NEW f,
           Joins(f, n, Separated(P, n))
    PROVE  \A m \in 0..n : f[m] \in Seq(Symbol)
<1> DEFINE S == {m \in Nat : m \in 0..n => f[m] \in Seq(Symbol)}
<1>1. 0 \in S
  <2>1. 0 \in 0..n
    OBVIOUS
  <2>2. f[0] = <<>>
    BY <2>1, Zenon DEF Joins
  <2> QED BY <2>2, NoSymbol, Zenon
<1>2. ASSUME NEW m \in Nat, m \in S PROVE m + 1 \in S
  <2> SUFFICES ASSUME m + 1 \in 0..n PROVE f[m+1] \in Seq(Symbol)
    OBVIOUS
  <2>1. m + 1 \in 1..n /\ (m + 1) - 1 = m /\ m \in 0..n
    OBVIOUS
  <2>2. f[(m+1)-1] \in Seq(Symbol)
    BY <1>2, <2>1, Zenon
  <2> HIDE DEF S
  <2> QED BY <2>1, <2>2, JoinStep, Zenon DEF Joined
<1> HIDE DEF S
<1>3. Nat \subseteq S
  BY <1>1, <1>2, SetInduction
<1>4. \A m \in 0..n : m \in S
  BY <1>3
<1> QED BY <1>4, Zenon DEF S

\* Each g[k] continues the one before it; l are their lengths.
Grows(g, l, n) ==
    \A k \in 1..n : l[k-1] <= l[k] /\ \A x \in 1..l[k-1] : g[k][x] = g[k-1][x]

\* The last one begins with each of them.
Kept(g, l, n) ==
    \A j \in 0..n : l[j] <= l[n] /\ \A x \in 1..l[j] : g[n][x] = g[j][x]

\* What has been written stays where it is.
LEMMA PrefixKept ==
    ASSUME NEW n \in Nat, NEW l \in [0..n -> Nat], NEW g, Grows(g, l, n)
    PROVE  Kept(g, l, n)
<1> SUFFICES \A j \in 0..n : l[j] <= l[n] /\ \A x \in 1..l[j] : g[n][x] = g[j][x]
  BY DEF Kept
<1> TAKE j \in 0..n
<1> DEFINE S == {m \in Nat : j + m \in 0..n =>
                   l[j] <= l[j+m] /\ \A x \in 1..l[j] : g[j+m][x] = g[j][x]}
<1>1. 0 \in S
  BY j + 0 = j
<1>2. ASSUME NEW m \in Nat, m \in S PROVE m + 1 \in S
  <2> SUFFICES ASSUME j + (m + 1) \in 0..n
               PROVE  l[j] <= l[j + (m+1)] /\ \A x \in 1..l[j] : g[j+(m+1)][x] = g[j][x]
    OBVIOUS
  <2>1. j + (m+1) \in 1..n /\ (j + (m+1)) - 1 = j + m /\ j + m \in 0..n
    OBVIOUS
  <2>2. l[j] <= l[j+m] /\ \A x \in 1..l[j] : g[j+m][x] = g[j][x]
    BY <1>2, <2>1
  <2>3. l[j+m] <= l[j+(m+1)] /\ \A x \in 1..l[j+m] : g[j+(m+1)][x] = g[j+m][x]
    BY <2>1 DEF Grows
  <2> QED BY <2>1, <2>2, <2>3
<1> HIDE DEF S
<1>3. Nat \subseteq S
  BY <1>1, <1>2, SetInduction
<1>4. n - j \in S /\ j + (n - j) = n
  BY <1>3
<1> QED BY <1>4 DEF S

\* A sequence of numbers that rises from each to the next rises.
LEMMA LadderRises ==
    ASSUME NEW n \in Nat, NEW c \in [0..n -> Nat],
           \A k \in 1..n : c[k-1] < c[k]
    PROVE  \A j, k \in 0..n : j < k => c[j] < c[k]
<1> TAKE j, k \in 0..n
<1> HAVE j < k
<1> DEFINE S == {m \in Nat : j + m + 1 \in 0..n => c[j] < c[j+m+1]}
<1>1. 0 \in S
  <2>1. j + 0 + 1 \in 0..n => j + 1 \in 1..n /\ (j + 1) - 1 = j /\ j + 0 + 1 = j + 1
    OBVIOUS
  <2> QED BY <2>1
<1>2. ASSUME NEW m \in Nat, m \in S PROVE m + 1 \in S
  <2> SUFFICES ASSUME j + (m + 1) + 1 \in 0..n
               PROVE  c[j] < c[j + (m+1) + 1]
    OBVIOUS
  <2>1. j + (m+1) + 1 \in 1..n /\ (j + (m+1) + 1) - 1 = j + m + 1 /\ j + m + 1 \in 0..n
    OBVIOUS
  <2>2. c[j] < c[j+m+1]
    BY <1>2, <2>1
  <2>3. c[j+m+1] < c[j+(m+1)+1]
    BY <2>1
  <2> QED BY <2>1, <2>2, <2>3
<1> HIDE DEF S
<1>3. Nat \subseteq S
  BY <1>1, <1>2, SetInduction
<1>4. k - j - 1 \in S /\ j + (k - j - 1) + 1 = k
  BY <1>3
<1> QED BY <1>4 DEF S

\* Every number up to the last one lies on some step.
LEMMA LadderReaches ==
    ASSUME NEW n \in Nat, NEW c \in [0..n -> Nat], c[0] = 0,
           NEW x \in Nat \ {0}, x <= c[n]
    PROVE  \E k \in 1..n : c[k-1] < x /\ x <= c[k]
<1> DEFINE S == {m \in Nat :
                   m \in 0..n /\ x <= c[m] => \E k \in 1..n : c[k-1] < x /\ x <= c[k]}
<1>1. 0 \in S
  OBVIOUS
<1>2. ASSUME NEW m \in Nat, m \in S PROVE m + 1 \in S
  <2> SUFFICES ASSUME m + 1 \in 0..n, x <= c[m+1]
               PROVE  \E k \in 1..n : c[k-1] < x /\ x <= c[k]
    OBVIOUS
  <2>1. m + 1 \in 1..n /\ (m + 1) - 1 = m /\ m \in 0..n
    OBVIOUS
  <2>2. CASE x <= c[m]
    BY <2>1, <2>2, <1>2
  <2>3. CASE ~ (x <= c[m])
    BY <2>1, <2>3
  <2> QED BY <2>2, <2>3
<1> HIDE DEF S
<1>3. Nat \subseteq S
  BY <1>1, <1>2, SetInduction
<1>4. n \in S /\ n \in 0..n
  BY <1>3
<1> QED BY <1>4 DEF S

\* The pieces P stand in the text T in their order, each in the places after
\* c[k - 1] and before c[k], with commas in the places between.
Laid(T, P, n, c) ==
    /\ n \in Nat
    /\ \A k \in 1..n : P[k] \in Seq(Symbol)
    /\ T \in Seq(Symbol)
    /\ c \in [0..n -> Nat]
    /\ c[0] = 0
    /\ \A k \in 1..n : c[k] = c[k-1] + Len(P[k]) + 1
    /\ \A j, k \in 0..n : j < k => c[j] < c[k]
    /\ Len(T) + 1 = c[n]
    /\ \A k \in 1..(n-1) : T[c[k]] = Comma
    /\ \A k \in 1..n : \A y \in 1..Len(P[k]) : T[c[k-1] + y] = P[k][y]

\* The text of a list is laid out so.
LEMMA JoinsAreLaid ==
    ASSUME NEW n \in Nat \ {0}, NEW P \in [1..n -> Seq(Symbol)], NEW f,
           Joins(f, n, Separated(P, n))
    PROVE  Laid(f[n], P, n, Ends(f, n))
<1> DEFINE c == Ends(f, n)
           l == [k \in 0..n |-> Len(f[k])]
           T == f[n]
<1>0. /\ n \in Nat /\ n \in 0..n /\ n \in 1..n /\ 0 \in 0..n /\ n # 0
      /\ \A k \in 1..n : k \in 0..n /\ k # 0 /\ k - 1 \in 0..n
      /\ \A k \in 0..n : k = 0 \/ k \in 1..n
      /\ \A k \in 1..(n-1) : k + 1 \in 1..n /\ (k+1) - 1 = k /\ k + 1 # 1 /\ k \in 0..n
  OBVIOUS
<1>1. \A m \in 0..n : f[m] \in Seq(Symbol)
  BY <1>0, JoinsAreTexts, Zenon
<1>2. \A k \in 1..n :
         /\ f[k] \in Seq(Symbol)
         /\ c[k-1] \in Nat
         /\ c[k] = c[k-1] + Len(P[k]) + 1
         /\ Len(f[k]) + 1 = c[k]
         /\ Len(f[k-1]) <= Len(f[k])
         /\ \A x \in 1..Len(f[k-1]) : f[k][x] = f[k-1][x]
         /\ k # 1 => f[k][c[k-1]] = Comma
         /\ \A y \in 1..Len(P[k]) : f[k][c[k-1] + y] = P[k][y]
  <2> TAKE k \in 1..n
  <2>1. f[k-1] \in Seq(Symbol)
    BY <1>0, <1>1, Zenon
  <2>2. Joined(f, P, n, k)
    BY <1>0, <2>1, JoinStep, Zenon
  <2> QED BY <2>2, Zenon DEF Joined
<1>3. c[0] = 0
  BY <1>0, Zenon DEF Ends
<1>4. \A k \in 1..n : Len(P[k]) \in Nat
  BY LenInNat, Zenon
<1>5. \A k \in 1..n : c[k-1] < c[k] /\ c[k] \in Nat
  <2> TAKE k \in 1..n
  <2>1. c[k-1] \in Nat /\ Len(P[k]) \in Nat /\ c[k] = c[k-1] + Len(P[k]) + 1
    BY <1>2, <1>4, Zenon
  <2> HIDE DEF c
  <2>2. c[k-1] < c[k-1] + Len(P[k]) + 1 /\ c[k-1] + Len(P[k]) + 1 \in Nat
    BY <2>1, SomeNat, Zenon
  <2> QED BY <2>1, <2>2, Zenon
<1>6. c \in [0..n -> Nat]
  <2>1. c = [k \in 0..n |-> c[k]]
    BY Zenon DEF Ends
  <2>2. \A k \in 0..n : c[k] \in Nat
    BY <1>0, <1>3, <1>5
  <2> HIDE DEF c
  <2> QED BY <2>1, <2>2, Zenon
<1>7. \A j, k \in 0..n : j < k => c[j] < c[k]
  <2> HIDE DEF c
  <2> QED BY <1>0, <1>5, <1>6, LadderRises, Zenon
<1>8. /\ l \in [0..n -> Nat]
      /\ \A k \in 0..n : l[k] = Len(f[k])
  BY <1>1, LenInNat, Zenon
<1>9. \A k \in 1..n : l[k-1] <= l[k] /\ \A x \in 1..l[k-1] : f[k][x] = f[k-1][x]
  BY <1>0, <1>2, <1>8, Zenon
<1>10. \A j \in 0..n : \A x \in 1..Len(f[j]) : T[x] = f[j][x]
  <2>1. \A j \in 0..n : l[j] <= l[n] /\ \A x \in 1..l[j] : f[n][x] = f[j][x]
    <3> HIDE DEF l
    <3>1. Grows(f, l, n)
      BY <1>9, Zenon DEF Grows
    <3>2. n \in Nat /\ l \in [0..n -> Nat]
      BY <1>0, <1>8, Zenon
    <3>3. Kept(f, l, n)
      BY <3>1, <3>2, PrefixKept, Zenon
    <3> QED BY <3>3, Zenon DEF Kept
  <2> QED BY <2>1, <1>8, Zenon
<1>11. Len(T) + 1 = c[n]
  BY <1>0, <1>2, Zenon
<1>12. \A k \in 1..(n-1) : T[c[k]] = Comma
  <2> TAKE k \in 1..(n-1)
  <2>1. k + 1 \in 1..n /\ (k+1) - 1 = k /\ k + 1 # 1 /\ k+1 \in 0..n /\ k \in 1..n
    OBVIOUS
  <2>2. f[k+1][c[k]] = Comma
    <3>1. k + 1 # 1 => f[k+1][c[(k+1)-1]] = Comma
      BY <1>2, <2>1, Zenon
    <3> QED BY <3>1, <2>1, Zenon
  <2>3. c[k] \in 1..Len(f[k+1])
    <3>1. Len(f[k+1]) + 1 = c[k+1] /\ c[k] < c[k+1] /\ c[k] \in Nat /\ Len(f[k+1]) \in Nat
      BY <1>1, <1>2, <1>5, <2>1, LenInNat, Zenon
    <3>2. 0 < c[k]
      BY <1>0, <1>3, <1>7, <2>1
    <3> HIDE DEF c
    <3> QED BY <3>1, <3>2
  <2> QED BY <2>1, <2>2, <2>3, <1>10, Zenon
<1>13. \A k \in 1..n : \A y \in 1..Len(P[k]) : T[c[k-1] + y] = P[k][y]
  <2> TAKE k \in 1..n
  <2> TAKE y \in 1..Len(P[k])
  <2>1. c[k-1] + y \in 1..Len(f[k])
    <3>1. /\ c[k-1] \in Nat /\ c[k] = c[k-1] + Len(P[k]) + 1 /\ Len(f[k]) + 1 = c[k]
          /\ Len(P[k]) \in Nat /\ Len(f[k]) \in Nat /\ y \in 1..Len(P[k])
      BY <1>0, <1>1, <1>2, <1>4, LenInNat, Zenon
    <3> HIDE DEF c
    <3> QED BY <3>1, SumWithin, Zenon
  <2>2. f[k][c[k-1] + y] = P[k][y]
    BY <1>2, Zenon
  <2> QED BY <1>0, <1>10, <2>1, <2>2, Zenon
<1> HIDE DEF c
<1>14. T \in Seq(Symbol) /\ n \in Nat /\ \A k \in 1..n : c[k] = c[k-1] + Len(P[k]) + 1
  BY <1>0, <1>1, <1>2, Zenon
<1> QED BY <1>3, <1>6, <1>7, <1>11, <1>12, <1>13, <1>14, Zenon DEF Laid, c

\* The places rise.
LEMMA LadderOrder ==
    ASSUME NEW T, NEW P, NEW n, NEW c, Laid(T, P, n, c)
    PROVE  /\ \A j \in 0..n : c[j] \in Nat
           /\ \A j, k \in 0..n : j <= k => c[j] <= c[k]
<1> n \in Nat
  BY Zenon DEF Laid
<1>1. c \in [0..n -> Nat] /\ \A j, k \in 0..n : j < k => c[j] < c[k]
  BY Zenon DEF Laid
<1>2. \A j \in 0..n : c[j] \in Nat
  BY <1>1
<1>3. \A j, k \in 0..n : j <= k => c[j] <= c[k]
  <2> SUFFICES ASSUME NEW j \in 0..n, NEW k \in 0..n, j <= k PROVE c[j] <= c[k]
    BY Zenon
  <2>1. CASE j = k
    BY <1>2, <2>1
  <2>2. CASE j < k
    <3>1. c[j] < c[k] /\ c[j] \in Nat /\ c[k] \in Nat
      BY <1>1, <1>2, <2>2, Zenon
    <3> QED BY <3>1
  <2> QED BY <2>1, <2>2
<1> QED BY <1>2, <1>3

\* Where the pieces begin, one place before the first symbol of each.
Starts(c, n) == [k \in 1..n |-> c[k-1]]

\* No two pieces begin in the same place.
LEMMA StartsDiffer ==
    ASSUME NEW T, NEW P, NEW n, NEW c, Laid(T, P, n, c)
    PROVE  \A j, k \in 1..n : c[j-1] = c[k-1] => j = k
<1> n \in Nat
  BY Zenon DEF Laid
<1>1. \A j, k \in 0..n : j < k => c[j] < c[k]
  BY Zenon DEF Laid
<1>2. \A j \in 0..n : c[j] \in Nat
  BY LadderOrder, Zenon
<1> SUFFICES ASSUME NEW j \in 1..n, NEW k \in 1..n, c[j-1] = c[k-1] PROVE j = k
  BY Zenon
<1>3. j - 1 \in 0..n /\ k - 1 \in 0..n
  OBVIOUS
<1>4. c[j-1] \in Nat /\ c[k-1] \in Nat
  BY <1>2, <1>3, Zenon
<1>5. ~ (c[j-1] < c[k-1]) /\ ~ (c[k-1] < c[j-1])
  BY <1>4
<1>6. ~ (j - 1 < k - 1) /\ ~ (k - 1 < j - 1)
  BY <1>1, <1>3, <1>5, Zenon
<1> QED BY <1>6

\* Every place of the text is a comma between pieces or in a piece.
Located(T, P, n, c) ==
    \A x \in 1..Len(T) : \E k \in 1..n :
       \/ k < n /\ x = c[k]
       \/ \E y \in 1..Len(P[k]) : x = c[k-1] + y /\ T[x] = P[k][y]

\* It is so in a text that is laid out.
LEMMA LaidIsLocated ==
    ASSUME NEW T, NEW P, NEW n, NEW c, Laid(T, P, n, c)
    PROVE  Located(T, P, n, c)
<1> n \in Nat
  BY Zenon DEF Laid
<1> SUFFICES ASSUME NEW x \in 1..Len(T)
             PROVE \E k \in 1..n : \/ k < n /\ x = c[k]
                                   \/ \E y \in 1..Len(P[k]) : x = c[k-1] + y /\ T[x] = P[k][y]
  BY Zenon DEF Located
<1>1. T \in Seq(Symbol) /\ c \in [0..n -> Nat] /\ c[0] = 0 /\ Len(T) + 1 = c[n]
  BY Zenon DEF Laid
<1>2. Len(T) \in Nat /\ x \in Nat \ {0}
  BY <1>1
<1> DEFINE lt == Len(T)
<1>3. lt \in Nat /\ x \in Nat \ {0} /\ x \in 1..lt /\ lt + 1 = c[n]
  BY <1>1, <1>2
<1> HIDE DEF lt
<1>4. x <= c[n] /\ x # c[n]
  BY <1>3
<1>5. PICK k \in 1..n : c[k-1] < x /\ x <= c[k]
  BY <1>1, <1>3, <1>4, LadderReaches, Zenon
<1> DEFINE lp == Len(P[k])
           y == x - c[k-1]
<1>6. lp \in Nat /\ c[k] = c[k-1] + lp + 1 /\ c[k-1] \in Nat /\ c[k] \in Nat
  <2>1. P[k] \in Seq(Symbol) /\ c[k] = c[k-1] + Len(P[k]) + 1
    <3>1. P[k] \in Seq(Symbol)
      BY Zenon DEF Laid
    <3>2. c[k] = c[k-1] + Len(P[k]) + 1
      BY Zenon DEF Laid
    <3> QED BY <3>1, <3>2, Zenon
  <2>2. Len(P[k]) \in Nat
    BY <2>1, LenInNat, Zenon
  <2>3. c[k-1] \in Nat /\ c[k] \in Nat
    BY <1>1
  <2> QED BY <2>1, <2>2, <2>3, Zenon
<1> HIDE DEF lp
<1>7. CASE x = c[k]
  <2>1. k # n
    BY <1>4, <1>7, Zenon
  <2>2. k < n
    BY <2>1
  <2> QED BY <1>7, <2>2, Zenon
<1>8. CASE x # c[k]
  <2>1. y \in 1..lp /\ x = c[k-1] + y
    <3>1. /\ x \in Nat /\ c[k-1] < x /\ x <= c[k] /\ x # c[k]
          /\ lp \in Nat /\ c[k] = c[k-1] + lp + 1 /\ c[k-1] \in Nat /\ c[k] \in Nat
      BY <1>3, <1>5, <1>6, <1>8
    <3> QED BY <3>1
  <2> HIDE DEF y
  <2>2. T[c[k-1] + y] = P[k][y]
    BY <2>1, Zenon DEF Laid, lp
  <2> QED BY <2>1, <2>2, Zenon DEF lp
<1> QED BY <1>7, <1>8

\* A place in a piece is before its end and after the end of the one before.
Within(P, n, c) ==
    \A k \in 1..n : \A y \in 1..Len(P[k]) :
       /\ c[k-1] \in Nat /\ c[k] \in Nat /\ y \in Nat
       /\ c[k-1] < c[k-1] + y /\ c[k-1] + y < c[k]

\* It is so in a text that is laid out.
LEMMA LaidIsWithin ==
    ASSUME NEW T, NEW P, NEW n, NEW c, Laid(T, P, n, c)
    PROVE  Within(P, n, c)
<1> n \in Nat
  BY Zenon DEF Laid
<1> SUFFICES ASSUME NEW k \in 1..n, NEW y \in 1..Len(P[k])
             PROVE /\ c[k-1] \in Nat /\ c[k] \in Nat /\ y \in Nat
                   /\ c[k-1] < c[k-1] + y /\ c[k-1] + y < c[k]
  BY Zenon DEF Within
<1>0. k \in 0..n /\ k - 1 \in 0..n
  OBVIOUS
<1>1. c[k-1] \in Nat /\ c[k] \in Nat
  BY <1>0, LadderOrder, Zenon
<1> DEFINE lp == Len(P[k])
<1>2. lp \in Nat /\ c[k] = c[k-1] + lp + 1 /\ y \in 1..lp
  BY LenInNat, Zenon DEF Laid
<1> HIDE DEF lp
<1> QED BY <1>1, <1>2

-----------------------------------------------------------------------------
(* Where splitInlineEntries cuts *)

\* The pieces of F have a block, from b[k] to z[k], and the others are plain.
Fences(P, n, F, b, z) ==
    /\ F \subseteq 1..n
    /\ \A k \in F : Fenced(P[k], b[k], z[k])
    /\ \A k \in (1..n) \ F : Plain(P[k])

\* Every piece is of one kind or the other.
LEMMA FencesExist ==
    ASSUME NEW P, NEW n, \A k \in 1..n : Plain(P[k]) \/ \E b, z : Fenced(P[k], b, z)
    PROVE  \E F, b, z : Fences(P, n, F, b, z)
<1> DEFINE F == {k \in 1..n : ~ Plain(P[k])}
           b == [k \in F |-> CHOOSE b1 : \E z1 : Fenced(P[k], b1, z1)]
           z == [k \in F |-> CHOOSE z1 : Fenced(P[k], b[k], z1)]
<1>1. ASSUME NEW k \in F PROVE Fenced(P[k], b[k], z[k])
  <2>1. \E b1, z1 : Fenced(P[k], b1, z1)
    BY Zenon
  <2>2. b[k] = CHOOSE b1 : \E z1 : Fenced(P[k], b1, z1)
    BY Zenon
  <2>3. \E z1 : Fenced(P[k], b[k], z1)
    <3> HIDE DEF b
    <3> QED BY <2>1, <2>2, Zenon
  <2> HIDE DEF b
  <2>4. z[k] = CHOOSE z1 : Fenced(P[k], b[k], z1)
    BY Zenon
  <2> HIDE DEF z
  <2> QED BY <2>3, <2>4, Zenon
<1>2. F \subseteq 1..n /\ \A k \in (1..n) \ F : Plain(P[k])
  BY Zenon
<1> HIDE DEF F, b, z
<1> QED BY <1>1, <1>2, Zenon DEF Fences

\* pos numbers the members of Q by those of F.
Enumerates(F, pos, Q) ==
    /\ \A k \in F : pos[k] \in Q
    /\ \A j \in Q : \E k \in F : pos[k] = j
    /\ \A j, k \in F : pos[j] = pos[k] => j = k

\* The members of Q before x.
Below(Q, x) == {j \in Q : j < x}

\* The numbers of those before x.
BelowAt(F, pos, x) == {k \in F : pos[k] < x}

\* There are as many of either.
LEMMA CountBefore ==
    ASSUME NEW F, IsFiniteSet(F), NEW pos, NEW Q, NEW x, Enumerates(F, pos, Q)
    PROVE  Cardinality(Below(Q, x)) = Cardinality(BelowAt(F, pos, x))
<1> DEFINE A == {k \in F : pos[k] < x}
           B == {j \in Q : j < x}
           g == [k \in A |-> pos[k]]
<1>1. IsFiniteSet(A)
  BY FS_Subset
<1>2. g \in [A -> B]
  BY Zenon DEF Enumerates
<1>3. g \in Surjection(A, B)
  <2>1. \A t \in B : \E k \in A : g[k] = t
    BY Zenon DEF Enumerates
  <2> QED BY <1>2, <2>1, Zenon DEF Surjection
<1>4. g \in Injection(A, B)
  <2>1. DOMAIN g = A /\ \A a, b \in A : g[a] = g[b] => a = b
    BY Zenon DEF Enumerates
  <2> HIDE DEF g, A, B
  <2>2. IsInjective(g)
    BY <2>1, Zenon DEF IsInjective
  <2> QED BY <1>2, <2>2, Zenon DEF Injection
<1> HIDE DEF g, A, B
<1>5. Cardinality(B) = Cardinality(A)
  BY <1>1, <1>3, <1>4, FS_Surjection, Zenon
<1> QED BY <1>5, Zenon DEF A, B, Below, BelowAt

\* The mark m stands in the pieces of F, once in each, at o[k], and in no other.
Marked(P, n, F, m, o) ==
    /\ F \subseteq 1..n
    /\ \A k \in F : /\ o[k] \in 1..Len(P[k])
                    /\ \A y \in 1..Len(P[k]) : P[k][y] = m <=> y = o[k]
    /\ \A k \in (1..n) \ F : \A y \in 1..Len(P[k]) : P[k][y] # m

\* splitInlineEntries' before: the marks m of the text that stand before x.
Before(T, m, x) == Cardinality({j \in Positions(T, m) : j < x})

\* The pieces whose mark stands before x.
Passed(F, c, o, x) == {k \in F : c[k-1] + o[k] < x}

\* before counts the pieces whose mark has been passed.
Counted(T, m, F, c, o) ==
    \A x : Before(T, m, x) = Cardinality(Passed(F, c, o, x))

\* It does so in a text that is laid out.
LEMMA MarkCounts ==
    ASSUME NEW T, NEW P, NEW n, NEW c, Laid(T, P, n, c),
           NEW F, NEW m, m # Comma, NEW o, Marked(P, n, F, m, o)
    PROVE  Counted(T, m, F, c, o)
<1> SUFFICES ASSUME NEW x PROVE Before(T, m, x) = Cardinality(Passed(F, c, o, x))
  BY Zenon DEF Counted
<1> n \in Nat
  BY Zenon DEF Laid
<1> DEFINE pos == [k \in F |-> c[k-1] + o[k]]
           Q == Positions(T, m)
<1>0. Within(P, n, c) /\ Located(T, P, n, c)
  BY LaidIsWithin, LaidIsLocated, Zenon
<1>1. /\ \A j \in 0..n : c[j] \in Nat
      /\ \A j, k \in 0..n : j <= k => c[j] <= c[k]
  BY LadderOrder, Zenon
<1>2. IsFiniteSet(F)
  <2>1. IsFiniteSet(1..n)
    BY FS_Interval
  <2>2. F \in SUBSET (1..n)
    BY Zenon DEF Marked
  <2> QED BY <2>1, <2>2, FS_Subset, Zenon
<1>3. T \in Seq(Symbol) /\ Len(T) + 1 = c[n] /\ \A k \in 1..(n-1) : T[c[k]] = Comma
  BY Zenon DEF Laid
<1>4. DOMAIN T = 1..Len(T) /\ Len(T) \in Nat
  BY <1>3
<1>5. \A k \in F : k \in 1..n /\ pos[k] = c[k-1] + o[k] /\ o[k] \in 1..Len(P[k])
  BY Zenon DEF Marked
<1>6. \A k \in F : /\ c[k-1] < pos[k] /\ pos[k] < c[k]
                   /\ pos[k] \in Nat /\ c[k-1] \in Nat /\ c[k] \in Nat
  <2> TAKE k \in F
  <2>1. /\ c[k-1] \in Nat /\ c[k] \in Nat /\ o[k] \in Nat /\ pos[k] = c[k-1] + o[k]
        /\ c[k-1] < c[k-1] + o[k] /\ c[k-1] + o[k] < c[k]
    BY <1>0, <1>5, Zenon DEF Within
  <2> HIDE DEF pos
  <2> QED BY <2>1
<1> HIDE DEF pos
<1>7. \A k \in F : pos[k] \in Q
  <2> TAKE k \in F
  <2>1. T[pos[k]] = m
    <3>1. P[k][o[k]] = m
      BY Zenon DEF Marked
    <3>2. T[c[k-1] + o[k]] = P[k][o[k]]
      BY <1>5, Zenon DEF Laid
    <3> QED BY <1>5, <3>1, <3>2, Zenon
  <2>2. pos[k] \in 1..Len(T)
    <3>1. k \in 0..n /\ n \in 0..n /\ k <= n
      BY <1>5
    <3>2. c[k] <= c[n] /\ c[n] \in Nat
      BY <1>1, <3>1
    <3> DEFINE lt == Len(T)
    <3>3. lt \in Nat /\ lt + 1 = c[n]
      BY <1>3, <1>4
    <3>4. c[k-1] < pos[k] /\ pos[k] < c[k] /\ pos[k] \in Nat /\ c[k-1] \in Nat /\ c[k] \in Nat
      BY <1>6
    <3> HIDE DEF lt
    <3>5. pos[k] \in 1..lt
      BY <3>2, <3>3, <3>4
    <3> QED BY <3>5 DEF lt
  <2> QED BY <2>1, <2>2, <1>4, Zenon DEF Positions
<1>8. \A j \in Q : \E k \in F : pos[k] = j
  <2> TAKE j \in Q
  <2>1. j \in 1..Len(T) /\ T[j] = m
    BY <1>4, Zenon DEF Positions
  <2>2. PICK k \in 1..n : \/ k < n /\ j = c[k]
                          \/ \E y \in 1..Len(P[k]) : j = c[k-1] + y /\ T[j] = P[k][y]
    BY <1>0, <2>1, Zenon DEF Located
  <2>3. ~ (k < n /\ j = c[k])
    <3>1. k < n => k \in 1..(n-1)
      OBVIOUS
    <3> QED BY <1>3, <2>1, <3>1, Zenon
  <2>4. PICK y \in 1..Len(P[k]) : j = c[k-1] + y /\ T[j] = P[k][y]
    BY <2>2, <2>3, Zenon
  <2>5. k \in F /\ y = o[k]
    BY <2>1, <2>4, Zenon DEF Marked
  <2> QED BY <1>5, <2>4, <2>5, Zenon
<1>9. \A j, k \in F : pos[j] = pos[k] => j = k
  <2>1. ASSUME NEW j \in F, NEW k \in F, j < k PROVE pos[j] < pos[k]
    <3>1. j \in 0..n /\ k - 1 \in 0..n /\ j <= k - 1
      BY <1>5, <2>1
    <3>2. c[j] <= c[k-1]
      BY <1>1, <3>1, Zenon
    <3>3. /\ pos[j] < c[j] /\ pos[j] \in Nat /\ c[j] \in Nat
          /\ c[k-1] < pos[k] /\ pos[k] \in Nat /\ c[k-1] \in Nat
      BY <1>6, Zenon
    <3> QED BY <3>2, <3>3
  <2>2. \A j \in F : pos[j] \in Nat /\ j \in Nat
    BY <1>5, <1>6
  <2> QED BY <2>1, <2>2
<1> HIDE DEF Q
<1>10. Cardinality(Below(Q, x)) = Cardinality(BelowAt(F, pos, x))
  <2>1. Enumerates(F, pos, Q)
    BY <1>7, <1>8, <1>9, Zenon DEF Enumerates
  <2> QED BY <1>2, <2>1, CountBefore, Zenon
<1>11. BelowAt(F, pos, x) = Passed(F, c, o, x)
  BY <1>5, Zenon DEF Passed, BelowAt
<1> QED BY <1>10, <1>11, Zenon DEF Before, Q, Below

\* x is within a PEM block.
Open(F, c, b, z, x) == \E k \in F : c[k-1] + b[k] < x /\ ~ (c[k-1] + z[k] < x)

\* The blocks mark their pieces, at either end.
LEMMA FencesAreMarked ==
    ASSUME NEW P, NEW n, NEW F, NEW b, NEW z, Fences(P, n, F, b, z)
    PROVE  Marked(P, n, F, Begin, b) /\ Marked(P, n, F, End, z)
BY Zenon DEF Fences, Fenced, Plain, Marked

\* splitInlineEntries' depth is 0 exactly outside the blocks: the blocks that
\* are closed before x are among those that are opened, and their numbers are the
\* same only if the sets are.
LEMMA DepthOf ==
    ASSUME NEW T, NEW P, NEW n, NEW c, Laid(T, P, n, c),
           NEW F, NEW b, NEW z, Fences(P, n, F, b, z), NEW x \in Nat
    PROVE  Before(T, Begin, x) - Before(T, End, x) = 0 <=> ~ Open(F, c, b, z, x)
<1> n \in Nat
  BY Zenon DEF Laid
<1> DEFINE B == Passed(F, c, b, x)
           Z == Passed(F, c, z, x)
<1>1. Before(T, Begin, x) = Cardinality(B) /\ Before(T, End, x) = Cardinality(Z)
  <2>1. Marked(P, n, F, Begin, b) /\ Marked(P, n, F, End, z)
    BY FencesAreMarked, Zenon
  <2>2. Begin # Comma /\ End # Comma
    BY MarksDiffer
  <2>3. Counted(T, Begin, F, c, b)
    BY <2>1, <2>2, MarkCounts, Zenon
  <2>4. Counted(T, End, F, c, z)
    BY <2>1, <2>2, MarkCounts, Zenon
  <2> QED BY <2>3, <2>4, Zenon DEF Counted
<1>2. IsFiniteSet(F)
  <2>1. IsFiniteSet(1..n)
    BY FS_Interval
  <2>2. F \in SUBSET (1..n)
    BY Zenon DEF Fences
  <2> QED BY <2>1, <2>2, FS_Subset, Zenon
<1>3. B \in SUBSET F
  BY Zenon DEF Passed
<1>4. Z \in SUBSET B
  <2> SUFFICES ASSUME NEW k \in F, c[k-1] + z[k] < x PROVE c[k-1] + b[k] < x
    BY Zenon DEF Passed
  <2>1. k \in 1..n /\ b[k] \in 1..Len(P[k]) /\ z[k] \in 1..Len(P[k]) /\ b[k] < z[k]
    BY Zenon DEF Fences, Fenced
  <2>2. k - 1 \in 0..n
    BY <2>1
  <2>3. c[k-1] \in Nat
    BY <2>2, LadderOrder, Zenon
  <2>4. b[k] \in Int /\ z[k] \in Int
    BY <2>1
  <2>5. b[k] < z[k] /\ c[k-1] + z[k] < x
    BY <2>1
  <2> QED BY <2>3, <2>4, <2>5
<1>5. Open(F, c, b, z, x) <=> B # Z
  BY <1>4, Zenon DEF Passed, Open
<1> HIDE DEF B, Z
<1>6. IsFiniteSet(B)
  BY <1>2, <1>3, FS_Subset, Zenon
<1>7. /\ IsFiniteSet(Z)
      /\ Cardinality(B) = Cardinality(Z) => B = Z
  BY <1>4, <1>6, FS_Subset, Zenon
<1>8. Cardinality(B) \in Nat /\ Cardinality(Z) \in Nat
  BY <1>6, <1>7, FS_CardinalityType, Zenon
<1>9. Cardinality(B) - Cardinality(Z) = 0 <=> B = Z
  <2>1. Cardinality(B) - Cardinality(Z) = 0 <=> Cardinality(B) = Cardinality(Z)
    BY <1>8
  <2> QED BY <1>7, <2>1, Zenon
<1> QED BY <1>1, <1>5, <1>9, Zenon

\* The commas at which splitInlineEntries cuts.
Cuts(T) == {i \in Positions(T, Comma) : Before(T, Begin, i) - Before(T, End, i) = 0}

\* They are the commas between pieces.
CutsAt(T, n, c) == Cuts(T) = {c[k] : k \in 1..(n-1)}

\* splitInlineEntries cuts between the pieces, and never within a block.
LEMMA CutsAre ==
    ASSUME NEW T, NEW P, NEW n, NEW c, Laid(T, P, n, c),
           NEW F, NEW b, NEW z, Fences(P, n, F, b, z)
    PROVE  CutsAt(T, n, c)
<1> n \in Nat
  BY Zenon DEF Laid
<1>0. Within(P, n, c) /\ Located(T, P, n, c)
  BY LaidIsWithin, LaidIsLocated, Zenon
<1>1. /\ \A j \in 0..n : c[j] \in Nat
      /\ \A j, k \in 0..n : j <= k => c[j] <= c[k]
  BY LadderOrder, Zenon
<1>2. /\ T \in Seq(Symbol) /\ Len(T) + 1 = c[n] /\ c[0] = 0
      /\ \A k \in 1..(n-1) : T[c[k]] = Comma
      /\ \A j, k \in 0..n : j < k => c[j] < c[k]
  BY Zenon DEF Laid
<1>3. DOMAIN T = 1..Len(T) /\ Len(T) \in Nat
  BY <1>2
<1>4. \A k \in F : /\ k \in 1..n /\ b[k] \in 1..Len(P[k]) /\ z[k] \in 1..Len(P[k])
                   /\ \A y \in 1..Len(P[k]) : P[k][y] = Comma => b[k] < y /\ y < z[k]
  BY Zenon DEF Fences, Fenced
<1>5. \A x \in Nat : Before(T, Begin, x) - Before(T, End, x) = 0 <=> ~ Open(F, c, b, z, x)
  BY DepthOf, Zenon
<1>6. ASSUME NEW k \in 1..(n-1) PROVE c[k] \in Cuts(T)
  <2>1. k \in 0..n /\ n \in 0..n /\ 0 \in 0..n /\ 0 < k /\ k < n
    OBVIOUS
  <2>2. c[k] \in 1..Len(T)
    <3> DEFINE lt == Len(T)
    <3>1. lt \in Nat /\ lt + 1 = c[n] /\ c[k] < c[n] /\ 0 < c[k] /\ c[k] \in Nat
      BY <1>1, <1>2, <1>3, <2>1, Zenon
    <3> HIDE DEF lt
    <3>2. c[k] \in 1..lt
      BY <3>1
    <3> QED BY <3>2 DEF lt
  <2>3. c[k] \in Positions(T, Comma)
    BY <1>2, <1>3, <2>2, Zenon DEF Positions
  <2>4. ~ Open(F, c, b, z, c[k])
    <3> SUFFICES ASSUME NEW j \in F, c[j-1] + b[j] < c[k] PROVE c[j-1] + z[j] < c[k]
      BY Zenon DEF Open
    <3>1. /\ c[j-1] \in Nat /\ c[j] \in Nat /\ b[j] \in Nat /\ z[j] \in Nat
          /\ c[j-1] < c[j-1] + b[j] /\ c[j-1] + z[j] < c[j]
      BY <1>0, <1>4, Zenon DEF Within
    <3>2. j \in 1..n /\ j \in 0..n /\ j - 1 \in 0..n /\ k \in 0..n /\ c[k] \in Nat
      BY <1>1, <1>4
    <3>3. CASE j <= k
      <4>1. c[j] <= c[k]
        BY <1>1, <3>2, <3>3, Zenon
      <4> QED BY <3>1, <3>2, <4>1
    <3>4. CASE ~ (j <= k)
      <4>1. k <= j - 1
        BY <3>2, <3>4
      <4>2. c[k] <= c[j-1]
        BY <1>1, <3>2, <4>1, Zenon
      <4>3. c[j-1] + b[j] < c[k]
        OBVIOUS
      <4> QED BY <3>1, <3>2, <4>2, <4>3
    <3> QED BY <3>3, <3>4
  <2>5. c[k] \in Nat
    BY <1>1, <2>1, Zenon
  <2> QED BY <1>5, <2>3, <2>4, <2>5, Zenon DEF Cuts
<1>7. ASSUME NEW x \in Cuts(T) PROVE \E k \in 1..(n-1) : x = c[k]
  <2>1. x \in 1..Len(T) /\ T[x] = Comma /\ Before(T, Begin, x) - Before(T, End, x) = 0
    BY <1>3, Zenon DEF Cuts, Positions
  <2>2. x \in Nat
    BY <1>3, <2>1
  <2>3. ~ Open(F, c, b, z, x)
    BY <1>5, <2>1, <2>2, Zenon
  <2>4. PICK k \in 1..n : \/ k < n /\ x = c[k]
                          \/ \E y \in 1..Len(P[k]) : x = c[k-1] + y /\ T[x] = P[k][y]
    BY <1>0, <2>1, Zenon DEF Located
  <2>5. CASE k < n /\ x = c[k]
    <3>1. k \in 1..(n-1)
      BY <2>5
    <3> QED BY <3>1, <2>5, Zenon
  <2>6. CASE \E y \in 1..Len(P[k]) : x = c[k-1] + y /\ T[x] = P[k][y]
    <3>1. PICK y \in 1..Len(P[k]) : x = c[k-1] + y /\ T[x] = P[k][y]
      BY <2>6, Zenon
    <3>2. P[k][y] = Comma
      BY <2>1, <3>1, Zenon
    <3>3. k \in F
      BY <3>2, Zenon DEF Fences, Plain
    <3>4. b[k] < y /\ y < z[k]
      BY <1>4, <3>2, <3>3, Zenon
    <3>5. c[k-1] \in Nat /\ b[k] \in Nat /\ z[k] \in Nat /\ y \in Nat
      BY <1>0, <1>4, <3>3, Zenon DEF Within
    <3>6. c[k-1] + b[k] < x /\ ~ (c[k-1] + z[k] < x)
      BY <3>1, <3>4, <3>5
    <3> QED BY <2>3, <3>3, <3>6, Zenon DEF Open
  <2> QED BY <2>4, <2>5, <2>6, Zenon
<1> QED BY <1>6, <1>7, Zenon DEF CutsAt

\* E are the pieces that are not blank, each at the place it follows.
Split(E, P, n, c) ==
    E = [i \in {c[k-1] : k \in {k \in 1..n : TrimSpace(P[k]) # <<>>}} |->
           P[CHOOSE k \in 1..n : c[k-1] = i]]

\* Between's next.
Follows(cuts, T, i) == Least({j \in cuts : j > i} \cup {Len(T) + 1})

\* The cut after the start of a piece is its end.
NextOf(T, n, c, k) == Follows({c[j] : j \in 1..(n-1)}, T, c[k-1]) = c[k]

\* Between takes each entry up to the end of its piece.
LEMMA NextCut ==
    ASSUME NEW T, NEW P, NEW n, NEW c, Laid(T, P, n, c), NEW k \in 1..n
    PROVE  NextOf(T, n, c, k)
<1> n \in Nat
  BY Zenon DEF Laid
<1> DEFINE cuts == {c[j] : j \in 1..(n-1)}
           S == {j \in cuts : j > c[k-1]} \cup {Len(T) + 1}
<1>1. /\ \A j \in 0..n : c[j] \in Nat
      /\ \A j, i \in 0..n : j <= i => c[j] <= c[i]
  BY LadderOrder, Zenon
<1>2. /\ Len(T) + 1 = c[n]
      /\ \A j, i \in 0..n : j < i => c[j] < c[i]
  BY Zenon DEF Laid
<1>3. /\ k \in 0..n /\ k - 1 \in 0..n /\ n \in 0..n /\ k <= n /\ k - 1 < k
      /\ (k = n \/ k \in 1..(n-1))
  OBVIOUS
<1>4. c[k] \in S
  <2>1. c[k-1] \in Nat /\ c[k] \in Nat /\ c[k-1] < c[k]
    BY <1>1, <1>2, <1>3, Zenon
  <2>2. c[k] > c[k-1]
    BY <2>1
  <2> QED BY <1>2, <1>3, <2>2, Zenon
<1>5. ASSUME NEW x \in S PROVE x \in Int /\ c[k] <= x
  <2>1. CASE x = Len(T) + 1
    <3>1. x = c[n]
      BY <1>2, <2>1, Zenon
    <3>2. c[k] <= c[n] /\ c[n] \in Nat
      BY <1>1, <1>3, Zenon
    <3> QED BY <3>1, <3>2
  <2>2. CASE x \in cuts /\ x > c[k-1]
    <3>1. PICK j \in 1..(n-1) : x = c[j]
      BY <2>2, Zenon
    <3>2. j \in 0..n /\ c[j] \in Nat /\ c[k-1] \in Nat
      BY <1>1, <1>3
    <3>3. k <= j
      <4>1. SUFFICES ASSUME ~ (k <= j) PROVE FALSE
        BY Zenon
      <4>2. j <= k - 1
        BY <3>2, <4>1
      <4>3. c[j] <= c[k-1]
        BY <1>1, <1>3, <3>2, <4>2, Zenon
      <4>4. c[j] > c[k-1]
        BY <2>2, <3>1, Zenon
      <4> QED BY <3>2, <4>3, <4>4
    <3>4. c[k] <= c[j]
      BY <1>1, <1>3, <3>2, <3>3, Zenon
    <3> QED BY <3>1, <3>2, <3>4
  <2> QED BY <2>1, <2>2, Zenon
<1> HIDE DEF S
<1>6. S \in SUBSET Int
  BY <1>5
<1>7. Least(S) = c[k]
  BY <1>4, <1>5, <1>6, LeastIs, Zenon
<1> QED BY <1>7, Zenon DEF NextOf, Follows, S

\* The text between the two is the piece.
PieceAt(T, P, c, k) == SubSeq(T, c[k-1] + 1, c[k] - 1) = P[k]

\* Between's entries are the pieces.
LEMMA PieceBetween ==
    ASSUME NEW T, NEW P, NEW n, NEW c, Laid(T, P, n, c), NEW k \in 1..n
    PROVE  PieceAt(T, P, c, k)
<1> n \in Nat
  BY Zenon DEF Laid
<1>1. /\ \A j \in 0..n : c[j] \in Nat
      /\ \A j, i \in 0..n : j <= i => c[j] <= c[i]
  BY LadderOrder, Zenon
<1>2. /\ T \in Seq(Symbol) /\ P[k] \in Seq(Symbol)
      /\ Len(T) + 1 = c[n] /\ c[k] = c[k-1] + Len(P[k]) + 1
      /\ \A y \in 1..Len(P[k]) : T[c[k-1] + y] = P[k][y]
  BY Zenon DEF Laid
<1>3. k \in 0..n /\ k - 1 \in 0..n /\ n \in 0..n /\ k <= n
  OBVIOUS
<1> DEFINE lp == Len(P[k])
           lt == Len(T)
<1>4. /\ lp \in Nat /\ lt \in Nat /\ lt + 1 = c[n] /\ c[k] = c[k-1] + lp + 1
      /\ c[k-1] \in Nat /\ c[n] \in Nat /\ c[k] \in Nat /\ c[k] <= c[n]
  BY <1>1, <1>2, <1>3, LenInNat, Zenon
<1> HIDE DEF lp, lt
<1>5. c[k-1] + lp <= lt /\ c[k] - 1 = c[k-1] + lp
  BY <1>4
<1>6. Embeds(T, P[k], c[k-1])
  BY <1>2, <1>4, <1>5, Zenon DEF Embeds, lp, lt
<1>7. SubSeq(T, c[k-1] + 1, c[k-1] + Len(P[k])) = P[k]
  BY <1>2, <1>6, SubSeqEmbedded, Zenon
<1> QED BY <1>5, <1>7, Zenon DEF lp, PieceAt

\* Between gives the pieces when it is given the places between them.
LEMMA SplitAtCuts ==
    ASSUME NEW T, NEW P, NEW n, NEW c, Laid(T, P, n, c), n # 0,
           NEW cuts, cuts = {c[k] : k \in 1..(n-1)}
    PROVE  Split(Between(T, cuts), P, n, c)
<1> n \in Nat
  BY Zenon DEF Laid
<1> DEFINE entry(i) == SubSeq(T, i + 1, Follows(cuts, T, i) - 1)
           D == {i \in cuts \cup {0} : TrimSpace(entry(i)) # <<>>}
           C == {c[k-1] : k \in {k \in 1..n : TrimSpace(P[k]) # <<>>}}
           at(i) == CHOOSE k \in 1..n : c[k-1] = i
<1>1. Between(T, cuts) = [i \in D |-> entry(i)]
  BY Zenon DEF Between, Follows
<1>2. \A k \in 1..n : entry(c[k-1]) = P[k]
  <2> TAKE k \in 1..n
  <2>1. NextOf(T, n, c, k) /\ PieceAt(T, P, c, k)
    BY NextCut, PieceBetween, Zenon
  <2>2. Follows(cuts, T, c[k-1]) = c[k]
    BY <2>1, Zenon DEF NextOf
  <2>3. SubSeq(T, c[k-1] + 1, c[k] - 1) = P[k]
    BY <2>1, Zenon DEF PieceAt
  <2> QED BY <2>2, <2>3, Zenon
<1>3. c[0] = 0
  BY Zenon DEF Laid
<1>4. \A j, k \in 1..n : c[j-1] = c[k-1] => j = k
  BY StartsDiffer, Zenon
<1>5. \A k \in 1..n : at(c[k-1]) = k
  <2> TAKE k \in 1..n
  <2> DEFINE a == at(c[k-1])
  <2>1. a \in 1..n /\ c[a-1] = c[k-1]
    BY Zenon
  <2> HIDE DEF a
  <2>2. a = k
    BY <1>4, <2>1, Zenon
  <2> QED BY <2>2, Zenon DEF a
<1>6. cuts \cup {0} = {c[k-1] : k \in 1..n}
  <2>1. ASSUME NEW i \in cuts \cup {0} PROVE \E k \in 1..n : i = c[k-1]
    <3>1. CASE i = 0
      <4>1. 1 \in 1..n /\ 1 - 1 = 0
        OBVIOUS
      <4>2. i = c[1-1]
        BY <1>3, <3>1, <4>1, Zenon
      <4> QED BY <4>1, <4>2, Zenon
    <3>2. CASE i \in cuts
      <4>1. PICK j \in 1..(n-1) : i = c[j]
        BY <3>2, Zenon
      <4>2. j + 1 \in 1..n /\ (j + 1) - 1 = j
        OBVIOUS
      <4>3. i = c[(j+1)-1]
        BY <4>1, <4>2, Zenon
      <4> QED BY <4>2, <4>3, Zenon
    <3> QED BY <2>1, <3>1, <3>2, Zenon
  <2>2. ASSUME NEW k \in 1..n PROVE c[k-1] \in cuts \cup {0}
    <3>1. k - 1 = 0 \/ k - 1 \in 1..(n-1)
      OBVIOUS
    <3> QED BY <1>3, <3>1, Zenon
  <2> DEFINE A == {c[k-1] : k \in 1..n}
  <2>3. \A i : i \in A <=> \E k \in 1..n : i = c[k-1]
    BY Zenon
  <2> HIDE DEF A
  <2>4. ASSUME NEW i \in cuts \cup {0} PROVE i \in A
    BY <2>1, <2>3, <2>4, Zenon
  <2>5. ASSUME NEW i \in A PROVE i \in cuts \cup {0}
    <3>1. PICK k \in 1..n : i = c[k-1]
      BY <2>3, <2>5, Zenon
    <3>2. c[k-1] \in cuts \cup {0}
      BY <2>2, Zenon
    <3> QED BY <3>1, <3>2, Zenon
  <2>6. cuts \cup {0} = A
    BY <2>4, <2>5, Zenon
  <2> QED BY <2>6, Zenon DEF A
<1> HIDE DEF entry, at
<1>7. D = C
  <2>1. ASSUME NEW i \in D PROVE i \in C
    <3>1. PICK k \in 1..n : i = c[k-1]
      BY <1>6, <2>1, Zenon
    <3>2. TrimSpace(P[k]) # <<>>
      BY <1>2, <2>1, <3>1, Zenon
    <3> QED BY <3>1, <3>2, Zenon
  <2>2. ASSUME NEW i \in C PROVE i \in D
    <3>1. PICK k \in 1..n : i = c[k-1] /\ TrimSpace(P[k]) # <<>>
      BY <2>2, Zenon
    <3> QED BY <1>2, <1>6, <3>1, Zenon
  <2> QED BY <2>1, <2>2, Zenon
<1>8. \A i \in C : entry(i) = P[at(i)]
  <2> TAKE i \in C
  <2>1. PICK k \in 1..n : i = c[k-1]
    BY Zenon
  <2> QED BY <1>2, <1>5, <2>1, Zenon
<1> HIDE DEF C, D
<1>9. Between(T, cuts) = [i \in C |-> P[at(i)]]
  <2>1. [i \in C |-> entry(i)] = [i \in C |-> P[at(i)]]
    BY <1>8, Zenon
  <2> QED BY <1>1, <1>7, <2>1, Zenon
<1> QED BY <1>9, Zenon DEF Split, C, at

\* In a text where no PEM block begins, splitInlineEntries' fast path cuts where
\* its loop would: no piece has a block, and the depth stays 0.
LEMMA NoBlocks ==
    ASSUME NEW T, NEW P, NEW n, NEW c, Laid(T, P, n, c),
           NEW F, NEW b, NEW z, Fences(P, n, F, b, z), Positions(T, Begin) = {}
    PROVE  Cuts(T) = Positions(T, Comma)
<1> SUFFICES ASSUME NEW x \in Positions(T, Comma)
             PROVE  Before(T, Begin, x) - Before(T, End, x) = 0
  BY Zenon DEF Cuts
<1> n \in Nat
  BY Zenon DEF Laid
<1>1. x \in Nat
  <2>1. T \in Seq(Symbol)
    BY Zenon DEF Laid
  <2>2. x \in DOMAIN T
    BY Zenon DEF Positions
  <2> QED BY <2>1, <2>2
<1>2. Before(T, Begin, x) = 0
  <2>1. {j \in Positions(T, Begin) : j < x} = {}
    BY Zenon
  <2>2. Cardinality({}) = 0
    BY FS_EmptySet, Zenon
  <2> QED BY <2>1, <2>2, Zenon DEF Before
<1>3. Cardinality(Passed(F, c, b, x)) = 0
  <2>1. Marked(P, n, F, Begin, b)
    BY FencesAreMarked, Zenon
  <2>2. Begin # Comma
    BY MarksDiffer
  <2>3. Counted(T, Begin, F, c, b)
    BY <2>1, <2>2, MarkCounts, Zenon
  <2> QED BY <1>2, <2>3, Zenon DEF Counted
<1>4. IsFiniteSet(F)
  <2>1. IsFiniteSet(1..n)
    BY FS_Interval
  <2>2. F \in SUBSET (1..n)
    BY Zenon DEF Fences
  <2> QED BY <2>1, <2>2, FS_Subset, Zenon
<1>5. Passed(F, c, b, x) = {}
  <2>1. Passed(F, c, b, x) \in SUBSET F
    BY Zenon DEF Passed
  <2>2. IsFiniteSet(Passed(F, c, b, x))
    BY <1>4, <2>1, FS_Subset, Zenon
  <2> QED BY <1>3, <2>2, FS_EmptySet, Zenon
<1>6. ~ Open(F, c, b, z, x)
  BY <1>5, Zenon DEF Open, Passed
<1> QED BY <1>1, <1>6, DepthOf, Zenon

\* splitInlineEntries gives the pieces.
LEMMA SplitIs ==
    ASSUME NEW T, NEW P, NEW n, NEW c, Laid(T, P, n, c), n # 0,
           NEW F, NEW b, NEW z, Fences(P, n, F, b, z)
    PROVE  Split(splitInlineEntries(T), P, n, c)
<1>1. CutsAt(T, n, c)
  BY CutsAre, Zenon
<1>2. splitInlineEntries(T) = Between(T, Cuts(T))
  <2> DEFINE depth(i) == Before(T, Begin, i) - Before(T, End, i)
             hasPEM == Positions(T, Begin) # {}
             S == {i \in Positions(T, Comma) : hasPEM => depth(i) = 0}
  <2>1. splitInlineEntries(T) = Between(T, S)
    BY Zenon DEF splitInlineEntries, Before
  <2>2. CASE hasPEM
    <3>1. S = Cuts(T)
      BY <2>2, Zenon DEF Cuts
    <3> QED BY <2>1, <3>1, Zenon
  <2>3. CASE ~ hasPEM
    <3>1. S = Positions(T, Comma)
      BY <2>3, Zenon
    <3>2. Cuts(T) = Positions(T, Comma)
      BY <2>3, NoBlocks, Zenon
    <3> QED BY <2>1, <3>1, <3>2, Zenon
  <2> QED BY <2>2, <2>3, Zenon
<1>3. Split(Between(T, Cuts(T)), P, n, c)
  BY <1>1, SplitAtCuts, Zenon DEF CutsAt
<1> QED BY <1>2, <1>3, Zenon

-----------------------------------------------------------------------------
(* What parseInlinePubKeys makes of the entries *)

\* parseInlinePubKeys, of a text that is split.
Parse(E) ==
    LET wrong(i) == Positions(E[i], Colon) = {} \/ KeyOf(E[i]) = BadKey
        kids == {KidOf(E[i]) : i \in DOMAIN E}
        entry(kid) == E[CHOOSE i \in DOMAIN E : KidOf(E[i]) = kid]
    IN  IF \/ \E i \in DOMAIN E : wrong(i)
           \/ \E i, j \in DOMAIN E : i # j /\ KidOf(E[i]) = KidOf(E[j])
        THEN LoadError
        ELSE Loaded([kid \in kids |-> KeyOf(entry(kid))])

\* It is that.
LEMMA ParseOf == ASSUME NEW T PROVE parseInlinePubKeys(T) = Parse(splitInlineEntries(T))
BY Zenon DEF parseInlinePubKeys, Parse

\* The entries that are not blank.
Lines(es) == {i \in DOMAIN es : es[i].form # "blank"}

\* E has the list's entries at the places pos, each as the parser reads it.
Stand(E, es, pos) ==
    /\ DOMAIN E = {pos[k] : k \in Lines(es)}
    /\ \A j, k \in Lines(es) : pos[j] = pos[k] => j = k
    /\ \A k \in Lines(es) :
          /\ Positions(E[pos[k]], Colon) = {} <=> es[k].form = "bare"
          /\ es[k].form # "bare" => /\ KidOf(E[pos[k]]) = es[k].kid
                                    /\ KeyOf(E[pos[k]]) = KeyOrBad(es[k].key)

\* From such entries the keys are those listed, and there is an error exactly
\* when the list has one: a kid that comes twice, an entry without its colon, or
\* a key that is none.
LEMMA ParsedAsListed ==
    ASSUME NEW list, NEW E, NEW pos, Stand(E, list.entries, pos)
    PROVE  Parse(E) = Listed(list)
<1> DEFINE es == list.entries
           N == Lines(es)
           D == DOMAIN E
           wrong(i) == Positions(E[i], Colon) = {} \/ KeyOf(E[i]) = BadKey
           kids == {KidOf(E[i]) : i \in D}
           entry(kid) == E[CHOOSE i \in D : KidOf(E[i]) = kid]
           same == \E i, j \in D : i # j /\ KidOf(E[i]) = KidOf(E[j])
           names == {es[i].kid : i \in N}
           line(kid) == CHOOSE i \in N : es[i].kid = kid
           right == \A i \in N : es[i].form # "bare" /\ es[i].key \in KeyTexts
           once == \A i, j \in N : es[i].kid = es[j].kid => i = j
<1>1. Parse(E) = IF (\E i \in D : wrong(i)) \/ same
                 THEN LoadError ELSE Loaded([kid \in kids |-> KeyOf(entry(kid))])
  BY Zenon DEF Parse
<1>2. Listed(list) = IF right /\ once
                     THEN Loaded([kid \in names |-> es[line(kid)].key]) ELSE LoadError
  BY Zenon DEF Listed, Lines
<1> HIDE DEF N
<1>3. /\ D = {pos[k] : k \in N}
      /\ \A j, k \in N : pos[j] = pos[k] => j = k
      /\ \A k \in N :
            /\ Positions(E[pos[k]], Colon) = {} <=> es[k].form = "bare"
            /\ es[k].form # "bare" => /\ KidOf(E[pos[k]]) = es[k].kid
                                      /\ KeyOf(E[pos[k]]) = KeyOrBad(es[k].key)
  BY Zenon DEF Stand, N
<1>4. BadKey \notin KeyTexts
  BY FillerIsWord
<1>5. \A key : KeyOrBad(key) = BadKey <=> key \notin KeyTexts
  BY <1>4, Zenon DEF KeyOrBad
<1>6. \A k \in N : wrong(pos[k]) <=> (es[k].form = "bare" \/ es[k].key \notin KeyTexts)
  BY <1>3, <1>5, Zenon
<1> HIDE DEF D, es
<1>7. CASE ~ right
  <2>1. PICK k \in N : es[k].form = "bare" \/ es[k].key \notin KeyTexts
    BY <1>7, Zenon
  <2>2. pos[k] \in D /\ wrong(pos[k])
    BY <1>3, <1>6, <2>1, Zenon
  <2>3. Parse(E) = LoadError
    BY <1>1, <2>2, Zenon
  <2>4. Listed(list) = LoadError
    BY <1>2, <1>7, Zenon
  <2> QED BY <2>3, <2>4, Zenon
<1>8. CASE right
  <2>1. ~ \E i \in D : wrong(i)
    <3> SUFFICES ASSUME NEW i \in D, wrong(i) PROVE FALSE
      BY Zenon
    <3>1. PICK k \in N : i = pos[k]
      BY <1>3, Zenon
    <3> QED BY <1>6, <1>8, <3>1, Zenon
  <2>2. \A k \in N : /\ pos[k] \in D
                     /\ KidOf(E[pos[k]]) = es[k].kid /\ KeyOf(E[pos[k]]) = es[k].key
    <3> TAKE k \in N
    <3>1. es[k].form # "bare" /\ es[k].key \in KeyTexts
      BY <1>8, Zenon
    <3>2. KeyOrBad(es[k].key) = es[k].key
      BY <3>1, Zenon DEF KeyOrBad
    <3> QED BY <1>3, <3>1, <3>2, Zenon
  <2>3. \A i \in D : \E k \in N : i = pos[k]
    BY <1>3, Zenon
  <2>4. \A j, k \in N : pos[j] = pos[k] => j = k
    BY <1>3, Zenon
  <2>5. same <=> ~ once
    <3>1. ASSUME same PROVE ~ once
      <4>1. PICK i \in D, j \in D : i # j /\ KidOf(E[i]) = KidOf(E[j])
        BY <3>1, Zenon
      <4>2. PICK k \in N, m \in N : i = pos[k] /\ j = pos[m]
        BY <2>3, Zenon
      <4>3. k # m /\ es[k].kid = es[m].kid
        BY <2>2, <4>1, <4>2, Zenon
      <4> QED BY <4>3, Zenon
    <3>2. ASSUME ~ once PROVE same
      <4>1. PICK k \in N, m \in N : k # m /\ es[k].kid = es[m].kid
        BY <3>2, Zenon
      <4>2. pos[k] # pos[m] /\ pos[k] \in D /\ pos[m] \in D
        BY <2>2, <2>4, <4>1, Zenon
      <4>3. KidOf(E[pos[k]]) = KidOf(E[pos[m]])
        BY <2>2, <4>1, Zenon
      <4> QED BY <4>2, <4>3, Zenon
    <3> QED BY <3>1, <3>2, Zenon
  <2>6. CASE ~ once
    <3>1. Parse(E) = LoadError
      BY <1>1, <2>5, <2>6, Zenon
    <3>2. Listed(list) = LoadError
      BY <1>2, <2>6, Zenon
    <3> QED BY <3>1, <3>2, Zenon
  <2>7. CASE once
    <3>1. kids = names
      <4>1. ASSUME NEW x \in kids PROVE x \in names
        <5>1. PICK i \in D : x = KidOf(E[i])
          BY <4>1, Zenon
        <5>2. PICK k \in N : i = pos[k]
          BY <2>3, Zenon
        <5> QED BY <2>2, <5>1, <5>2, Zenon
      <4>2. ASSUME NEW x \in names PROVE x \in kids
        <5>1. PICK k \in N : x = es[k].kid
          BY <4>2, Zenon
        <5>2. pos[k] \in D /\ x = KidOf(E[pos[k]])
          BY <2>2, <5>1, Zenon
        <5> QED BY <5>2, Zenon
      <4> QED BY <4>1, <4>2, Zenon
    <3>2. \A kid \in names : KeyOf(entry(kid)) = es[line(kid)].key
      <4> TAKE kid \in names
      <4>1. PICK k \in N : kid = es[k].kid
        BY Zenon
      <4> DEFINE a == line(kid)
                 i == CHOOSE i \in D : KidOf(E[i]) = kid
      <4>2. a \in N /\ es[a].kid = kid
        BY <4>1, Zenon
      <4>3. i \in D /\ KidOf(E[i]) = kid
        BY <2>2, <4>1, Zenon
      <4> HIDE DEF a, i
      <4>4. PICK m \in N : i = pos[m]
        BY <2>3, <4>3, Zenon
      <4>5. es[m].kid = kid
        BY <2>2, <4>3, <4>4, Zenon
      <4>6. m = a
        BY <2>7, <4>2, <4>5, Zenon
      <4>7. KeyOf(E[i]) = es[a].key
        BY <2>2, <4>4, <4>6, Zenon
      <4> QED BY <4>7, Zenon DEF a, i
    <3>3. Parse(E) = Loaded([kid \in kids |-> KeyOf(entry(kid))])
      BY <1>1, <2>1, <2>5, <2>7, Zenon
    <3>4. Listed(list) = Loaded([kid \in names |-> es[line(kid)].key])
      BY <1>2, <1>8, <2>7, Zenon
    <3> HIDE DEF kids, names, entry, line
    <3>5. [kid \in kids |-> KeyOf(entry(kid))] = [kid \in names |-> es[line(kid)].key]
      <4>1. [kid \in names |-> KeyOf(entry(kid))] = [kid \in names |-> es[line(kid)].key]
        BY <3>2, Zenon
      <4> QED BY <3>1, <4>1, Zenon
    <3> QED BY <3>3, <3>4, <3>5, Zenon
  <2> QED BY <2>6, <2>7, Zenon
<1> QED BY <1>7, <1>8, Zenon

\* The pieces are such entries.
LEMMA EntriesStand ==
    ASSUME NEW es, NEW T, NEW P, NEW n, NEW c, Laid(T, P, n, c), DOMAIN es = 1..n,
           \A k \in 1..n : PieceFacts(P[k], es[k]),
           NEW E, Split(E, P, n, c)
    PROVE  Stand(E, es, Starts(c, n))
<1> n \in Nat
  BY Zenon DEF Laid
<1> DEFINE pos == [k \in 1..n |-> c[k-1]]
           N == Lines(es)
           at(i) == CHOOSE k \in 1..n : c[k-1] = i
           M == {k \in 1..n : TrimSpace(P[k]) # <<>>}
<1>1. M = N
  <2>1. \A k \in 1..n : TrimSpace(P[k]) = <<>> <=> es[k].form = "blank"
    BY Zenon DEF PieceFacts
  <2> QED BY <2>1, Zenon DEF Lines
<1>2. N \subseteq 1..n
  BY <1>1, Zenon
<1>3. \A k \in N : k \in 1..n /\ pos[k] = c[k-1]
  BY <1>2, Zenon
<1>4. E = [i \in {c[k-1] : k \in M} |-> P[at(i)]]
  BY Zenon DEF Split
<1>5. \A j, k \in 1..n : c[j-1] = c[k-1] => j = k
  BY StartsDiffer, Zenon
<1>6. \A k \in 1..n : at(c[k-1]) = k
  <2> TAKE k \in 1..n
  <2> DEFINE a == at(c[k-1])
  <2>1. a \in 1..n /\ c[a-1] = c[k-1]
    BY Zenon
  <2> HIDE DEF a
  <2>2. a = k
    BY <1>5, <2>1, Zenon
  <2> QED BY <2>2, Zenon DEF a
<1> HIDE DEF N, M, at, pos
<1>7. DOMAIN E = {pos[k] : k \in N}
  <2>1. DOMAIN E = {c[k-1] : k \in M}
    BY <1>4, Zenon
  <2> QED BY <1>1, <1>3, <2>1, Zenon
<1>8. \A k \in N : E[pos[k]] = P[k]
  <2> TAKE k \in N
  <2>1. c[k-1] \in {c[j-1] : j \in M}
    BY <1>1, Zenon
  <2>2. E[c[k-1]] = P[at(c[k-1])]
    BY <1>4, <2>1, Zenon
  <2> QED BY <1>3, <1>6, <2>2, Zenon
<1>9. \A j, k \in N : pos[j] = pos[k] => j = k
  BY <1>3, <1>5, Zenon
<1>10. ASSUME NEW k \in N
       PROVE /\ Positions(E[pos[k]], Colon) = {} <=> es[k].form = "bare"
             /\ es[k].form # "bare" => /\ KidOf(E[pos[k]]) = es[k].kid
                                       /\ KeyOf(E[pos[k]]) = KeyOrBad(es[k].key)
  <2>1. es[k].form # "blank"
    BY Zenon DEF N, Lines
  <2>2. NoColon(es[k]) <=> es[k].form = "bare"
    BY <2>1, Zenon DEF NoColon
  <2>3. PieceFacts(P[k], es[k]) /\ E[pos[k]] = P[k]
    BY <1>3, <1>8, Zenon
  <2> QED BY <2>2, <2>3, Zenon DEF PieceFacts
<1>11. Stand(E, es, pos)
  BY <1>7, <1>9, <1>10, Zenon DEF Stand, N
<1> QED BY <1>11, Zenon DEF pos, Starts

\* A list has finitely many entries.
LEMMA EntriesOf ==
    ASSUME NEW list \in KeyList
    PROVE  /\ Len(list.entries) \in Nat
           /\ DOMAIN list.entries = 1..Len(list.entries)
<1>1. list.entries \in Seq(Entry)
  BY DEF KeyList
<1> QED BY <1>1

\* parseInlinePubKeys gives back what the list says: the keys under their kids,
\* or an error if the list has one, however long it is, whatever spaces and blank
\* entries are in it, and though a PEM header within it has colons and commas.
THEOREM InlineKeysAreParsed ==
    ASSUME NEW list \in KeyList, Text(list) # <<>>
    PROVE  parseInlinePubKeys(Text(list)) = Listed(list)
<1> DEFINE es == list.entries
           n == Len(list.entries)
           P == [i \in 1..n |-> Piece(list, i)]
           T == Text(list)
<1>1. n \in Nat /\ DOMAIN es = 1..n
  BY EntriesOf, Zenon
<1>2. PICK f : /\ T = f[n]
               /\ Joins(f, n, [i \in 1..n |->
                                  (IF i = 1 THEN <<>> ELSE <<Comma>>) \o Piece(list, i)])
  BY <1>1, TextJoins, Zenon
<1>3. [i \in 1..n |-> (IF i = 1 THEN <<>> ELSE <<Comma>>) \o Piece(list, i)] = Separated(P, n)
  <2>1. \A i \in 1..n : P[i] = Piece(list, i)
    BY Zenon
  <2> HIDE DEF P
  <2> QED BY <2>1, Zenon DEF Separated
<1>4. Joins(f, n, Separated(P, n))
  BY <1>2, <1>3, Zenon
<1>5. n # 0
  <2>1. 0 \in 0..n
    BY <1>1
  <2>2. f[0] = <<>>
    BY <1>4, <2>1, Zenon DEF Joins
  <2> QED BY <1>2, <2>2, Zenon
<1>6. \A k \in 1..n : PieceFacts(P[k], es[k])
  BY <1>1, PieceIsParsed, Zenon
<1>7. P \in [1..n -> Seq(Symbol)]
  <2>1. \A k \in 1..n : P[k] \in Seq(Symbol)
    BY <1>6, Zenon DEF PieceFacts
  <2>2. P = [k \in 1..n |-> P[k]]
    BY Zenon
  <2> HIDE DEF P
  <2> QED BY <2>1, <2>2, Zenon
<1> DEFINE c == Ends(f, n)
<1> HIDE DEF P, n, es, T, c
<1>8. Laid(T, P, n, c)
  <2>1. n \in Nat \ {0}
    BY <1>1, <1>5, Zenon
  <2>2. Laid(f[n], P, n, Ends(f, n))
    BY <1>4, <1>7, <2>1, JoinsAreLaid, Zenon
  <2> QED BY <1>2, <2>2, Zenon DEF c
<1>9. PICK F, b, z : Fences(P, n, F, b, z)
  <2>1. \A k \in 1..n : Plain(P[k]) \/ \E b, z : Fenced(P[k], b, z)
    BY <1>6, Zenon DEF PieceFacts
  <2> QED BY <2>1, FencesExist, Zenon
<1>10. Split(splitInlineEntries(T), P, n, c)
  BY <1>5, <1>8, <1>9, SplitIs, Zenon
<1>11. Stand(splitInlineEntries(T), es, Starts(c, n))
  BY <1>1, <1>6, <1>8, <1>10, EntriesStand, Zenon
<1>12. Parse(splitInlineEntries(T)) = Listed(list)
  BY <1>11, ParsedAsListed, Zenon DEF es
<1> QED BY <1>12, ParseOf, Zenon DEF T

\* decodePubKey gives a key or an error.
LEMMA DecodedIsKey ==
    ASSUME NEW raw
    PROVE  decodePubKey(raw) \in KeyTexts \cup {BadKey}
<1> DEFINE text == TrimSpace(raw)
<1>1. PemDecode(text) \in KeyTexts \cup {BadKey}
  <2> DEFINE ends == Positions(text, End)
             body == IF ends = {} THEN {} ELSE {text[i] : i \in 2..(Least(ends) - 1)}
  <2>1. body \cap KeyTexts # {} => (CHOOSE k \in body : k \in KeyTexts) \in KeyTexts
    <3> HIDE DEF body
    <3> QED OBVIOUS
  <2> QED BY <2>1 DEF PemDecode
<1> HIDE DEF text
<1>2. decodePubKey(raw) = IF text = <<>> THEN BadKey
                          ELSE IF text[1] = Begin THEN PemDecode(text)
                          ELSE IF Len(text) = 1 /\ text[1] \in KeyTexts THEN text[1]
                          ELSE BadKey
  BY DEF decodePubKey, text
<1> QED BY Zenon, <1>1, <1>2

\* What parseInlinePubKeys and loadPubKeysDir load maps kids to keys.
LEMMA LoadedAreKeys ==
    ASSUME NEW spec, NEW dir
    PROVE  /\ \A kid \in DOMAIN parseInlinePubKeys(spec).keys :
                 parseInlinePubKeys(spec).keys[kid] \in KeyTexts
           /\ \A kid \in DOMAIN loadPubKeysDir(dir).keys :
                 loadPubKeysDir(dir).keys[kid] \in KeyTexts
<1>0. /\ LoadError.keys = NoKeys
      /\ DOMAIN NoKeys = {}
      /\ \A k : Loaded(k).keys = k
  BY DEF LoadError, NoKeys, Loaded
<1>1. \A kid \in DOMAIN parseInlinePubKeys(spec).keys :
         parseInlinePubKeys(spec).keys[kid] \in KeyTexts
  <2> DEFINE entries == splitInlineEntries(spec)
             wrong(i) == Positions(entries[i], Colon) = {} \/ KeyOf(entries[i]) = BadKey
             kids == {KidOf(entries[i]) : i \in DOMAIN entries}
             entry(kid) == entries[CHOOSE i \in DOMAIN entries : KidOf(entries[i]) = kid]
             keymap == [kid \in kids |-> KeyOf(entry(kid))]
  <2>1. CASE \E i \in DOMAIN entries : wrong(i)
    BY <2>1, <1>0 DEF parseInlinePubKeys
  <2>2. CASE \E i, j \in DOMAIN entries : i # j /\ KidOf(entries[i]) = KidOf(entries[j])
    BY <2>2, <1>0 DEF parseInlinePubKeys
  <2>3. CASE /\ ~ \E i \in DOMAIN entries : wrong(i)
             /\ ~ \E i, j \in DOMAIN entries : i # j /\ KidOf(entries[i]) = KidOf(entries[j])
    <3>1. parseInlinePubKeys(spec).keys = keymap
      BY <2>3, <1>0 DEF parseInlinePubKeys
    <3>2. ASSUME NEW kid \in kids PROVE KeyOf(entry(kid)) \in KeyTexts
      <4> HIDE DEF entries
      <4>1. PICK i \in DOMAIN entries : entry(kid) = entries[i]
        BY Zenon, <3>2
      <4>2. KeyOf(entries[i]) \in KeyTexts \cup {BadKey}
        BY DecodedIsKey DEF KeyOf
      <4> QED BY <4>1, <4>2, <2>3
    <3> HIDE DEF entry, kids
    <3> QED BY <3>1, <3>2
  <2> QED BY <2>1, <2>2, <2>3
<1>2. \A kid \in DOMAIN loadPubKeysDir(dir).keys :
         loadPubKeysDir(dir).keys[kid] \in KeyTexts
  <2> DEFINE pems == {f \in dir.files : f.kind # "other"}
             file(kid) == CHOOSE f \in pems : f.name = kid
             names == {f.name : f \in pems}
             keymap == [kid \in names |-> decodePubKey(file(kid).text)]
             wrong == \/ dir.path = "missing"
                      \/ \E f \in pems : f.kind = "unreadable" \/ decodePubKey(f.text) = BadKey
  <2>1. loadPubKeysDir(dir).keys = IF wrong THEN NoKeys ELSE keymap
    BY <1>0 DEF loadPubKeysDir
  <2>2. ASSUME ~wrong, NEW kid \in names PROVE decodePubKey(file(kid).text) \in KeyTexts
    <3> HIDE DEF pems
    <3>1. file(kid) \in pems
      BY <2>2
    <3>2. decodePubKey(file(kid).text) \in KeyTexts \cup {BadKey}
      BY DecodedIsKey
    <3> QED BY <3>1, <3>2, <2>2
  <2> HIDE DEF names, file, wrong
  <2> QED BY <2>1, <2>2, <1>0
<1> QED BY <1>1, <1>2
=============================================================================
