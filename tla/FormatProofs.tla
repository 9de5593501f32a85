---------------------------- MODULE FormatProofs ----------------------------
(***************************************************************************)
(* Proofs about FormatString: types and the cursor (TextOK, PrintOK and    *)
(* WindowOK are inductive together), the centring of a text, and what a    *)
(* text looks like (ParsedOK, which says how far the parser has come in    *)
(* terms of the pieces the text was put together from).                    *)
(*                                                                         *)
(* FlattenSeq and ColorOf are recursive functions, inside a LET: a         *)
(* function that satisfies the recursion is first shown to exist, which    *)
(* makes the one that is chosen satisfy it too.                            *)
(***************************************************************************)
EXTENDS FormatString, Induction

LEMMA FindFirst ==
  ASSUME NEW text \in Seq(STRING), NEW ch
  PROVE  /\ Find(ch, text) \in 0 .. Len(text)
         /\ \A i \in 1 .. Len(text) :
              text[i] = ch => Find(ch, text) \in 1 .. i
         /\ Find(ch, text) # 0 => text[Find(ch, text)] = ch
<1> DEFINE I == {i \in 1 .. Len(text) : text[i] = ch}
<1>1. Find(ch, text) = IF I # {} THEN Min(I) ELSE 0
  BY DEF Find, SelectInSeq
<1>2. CASE I # {}
  <2>1. \E n \in I : \A m \in I : n <= m
    <3>1. I \in SUBSET Nat
      OBVIOUS
    <3> HIDE DEF I
    <3>2. QED
      BY <1>2, <3>1, LeastNumber
  <2>2. Min(I) \in I /\ \A m \in I : Min(I) <= m
    BY <2>1 DEF Min
  <2>3. PICK n \in I : n = Find(ch, text) /\ \A m \in I : n <= m
    BY <1>1, <1>2, <2>2
  <2>4. n \in 1 .. Len(text) /\ text[n] = ch
    OBVIOUS
  <2>5. \A i \in 1 .. Len(text) : text[i] = ch => i \in I
    OBVIOUS
  <2> HIDE DEF I
  <2> QED
    BY <2>3, <2>4, <2>5
<1>3. CASE I = {}
  BY <1>1, <1>3
<1> QED
  BY <1>2, <1>3

-----------------------------------------------------------------------------
(* Sequences *)

(* Induction on sequences, with a set in place of the predicate.           *)
LEMMA SeqSetInduction ==
  ASSUME NEW S, NEW Q, <<>> \in Q,
         \A s \in Seq(S) : s \in Q => \A x \in S : Append(s, x) \in Q
  PROVE  Seq(S) \subseteq Q
<1> DEFINE N == {n \in Nat : \A s \in Seq(S) : Len(s) = n => s \in Q}
<1>1. 0 \in N
  OBVIOUS
<1>2. ASSUME NEW n \in N, NEW s \in Seq(S), Len(s) = n + 1
      PROVE  s \in Q
  <2> DEFINE front == SubSeq(s, 1, n)
  <2>1. n + 1 \in 1 .. Len(s) /\ s[n + 1] \in S
    BY <1>2
  <2>2. front \in Seq(S) /\ Len(front) = n
    BY <1>2
  <2>3. s = Append(front, s[n + 1])
    BY <1>2
  <2>4. front \in Q
    BY <2>2
  <2> HIDE DEF front
  <2> QED
    BY <2>1, <2>2, <2>3, <2>4
<1>3. N = Nat
  <2>1. N \in SUBSET Nat /\ \A n \in N : n + 1 \in N
    BY <1>2
  <2> HIDE DEF N
  <2> QED
    BY <1>1, <2>1, NatSetInduction
<1> QED
  BY <1>3

(* The recursion in FlattenSeq.                                            *)
FlattenRound(seqs, flat, i) == IF i = 1 THEN seqs[i] ELSE flat[i - 1] \o seqs[i]

Flattening(seqs, flat) ==
  flat = [i \in 1 .. Len(seqs) |-> FlattenRound(seqs, flat, i)]

LEMMA FlatteningExists ==
  ASSUME NEW seqs, Len(seqs) \in Nat
  PROVE  \E flat : Flattening(seqs, flat)
<1> DEFINE Q == {n \in Nat : \E flat :
                    flat = [i \in 1 .. n |-> FlattenRound(seqs, flat, i)]}
<1>1. 0 \in Q
  <2>1. <<>> = [i \in 1 .. 0 |-> FlattenRound(seqs, <<>>, i)]
    OBVIOUS
  <2> QED
    BY <2>1
<1>2. ASSUME NEW n \in Q PROVE n + 1 \in Q
  <2>1. PICK flat : flat = [i \in 1 .. n |-> FlattenRound(seqs, flat, i)]
    OBVIOUS
  <2> DEFINE next == [i \in 1 .. n + 1 |-> FlattenRound(seqs, flat, i)]
  <2>2. \A i \in 1 .. n : next[i] = flat[i]
    BY <2>1
  <2>3. ASSUME NEW i \in 1 .. n + 1
        PROVE  FlattenRound(seqs, next, i) = FlattenRound(seqs, flat, i)
    <3>1. i # 1 => i - 1 \in 1 .. n
      OBVIOUS
    <3>2. i # 1 => next[i - 1] = flat[i - 1]
      BY <2>2, <3>1
    <3> HIDE DEF next
    <3> QED
      BY <3>2 DEF FlattenRound
  <2>4. next = [i \in 1 .. n + 1 |-> FlattenRound(seqs, next, i)]
    BY <2>3
  <2> HIDE DEF next
  <2> QED
    BY <2>4
<1>3. Q = Nat
  <2>1. Q \in SUBSET Nat
    OBVIOUS
  <2> HIDE DEF Q
  <2> QED
    BY <1>1, <1>2, <2>1, NatSetInduction
<1> QED
  BY <1>3 DEF Flattening

LEMMA FlattenIsOne ==
  ASSUME NEW seqs, Len(seqs) \in Nat \ {0}
  PROVE  \E flat : Flattening(seqs, flat) /\ FlattenSeq(seqs) = flat[Len(seqs)]
<1> DEFINE flat == CHOOSE flat : Flattening(seqs, flat)
<1>1. Flattening(seqs, flat)
  BY FlatteningExists
<1>2. FlattenSeq(seqs) = flat[Len(seqs)]
  BY DEF FlattenSeq, Flattening, FlattenRound
<1> QED
  BY <1>1, <1>2

SameUpTo(n, s, t) == \A i \in 1 .. n : s[i] = t[i]

(* Rounds depend on the sequences up to there only.                        *)
LEMMA FlattenAgree ==
  ASSUME NEW n \in Nat, NEW s, NEW t, SameUpTo(n, s, t),
         Len(s) \in Nat, Len(t) \in Nat, n <= Len(s), n <= Len(t),
         NEW f, Flattening(s, f), NEW g, Flattening(t, g)
  PROVE  SameUpTo(n, f, g)
<1> DEFINE Q == {i \in Nat : i \in 1 .. n => f[i] = g[i]}
<1>1. ASSUME NEW i \in 1 .. n
      PROVE  /\ f[i] = IF i = 1 THEN s[i] ELSE f[i - 1] \o s[i]
             /\ g[i] = IF i = 1 THEN t[i] ELSE g[i - 1] \o t[i]
  <2>1. i \in 1 .. Len(s) /\ i \in 1 .. Len(t)
    OBVIOUS
  <2>2. f[i] = FlattenRound(s, f, i)
    BY <2>1 DEF Flattening
  <2>3. g[i] = FlattenRound(t, g, i)
    BY <2>1 DEF Flattening
  <2> QED
    BY <2>2, <2>3 DEF FlattenRound
<1>2. 0 \in Q
  OBVIOUS
<1>3. ASSUME NEW i \in Q PROVE i + 1 \in Q
  <2>1. i # 0 /\ i + 1 \in 1 .. n => i \in 1 .. n /\ (i + 1) - 1 = i
    OBVIOUS
  <2> QED
    BY <1>1, <2>1 DEF SameUpTo
<1>4. Q = Nat
  <2>1. Q \in SUBSET Nat
    OBVIOUS
  <2> HIDE DEF Q
  <2> QED
    BY <1>2, <1>3, <2>1, NatSetInduction
<1> QED
  BY <1>4 DEF SameUpTo

(* The laws of FlattenSeq.                                                 *)
LEMMA LenType ==
  ASSUME NEW S, NEW s \in Seq(S)
  PROVE  Len(s) \in Nat
OBVIOUS

LEMMA ConcatType ==
  ASSUME NEW S, NEW s \in Seq(S), NEW t \in Seq(S)
  PROVE  s \o t \in Seq(S) /\ Len(s \o t) = Len(s) + Len(t)
OBVIOUS

LEMMA FlattenNone == FlattenSeq(<<>>) = <<>>
BY DEF FlattenSeq

LEMMA FlattenAppend ==
  ASSUME NEW S, NEW seqs \in Seq(Seq(S)), NEW s \in Seq(S)
  PROVE  FlattenSeq(Append(seqs, s)) = FlattenSeq(seqs) \o s
<1> DEFINE more == Append(seqs, s)
           n == Len(seqs)
<1>1. /\ n \in Nat /\ Len(more) = n + 1 /\ more[n + 1] = s
      /\ \A i \in 1 .. n : more[i] = seqs[i]
  OBVIOUS
<1>2. PICK flat : Flattening(more, flat) /\ FlattenSeq(more) = flat[Len(more)]
  <2>1. Len(more) \in Nat \ {0}
    BY <1>1
  <2> QED
    BY <2>1, FlattenIsOne
<1>3. CASE n = 0
  <2>1. seqs = <<>> /\ FlattenSeq(seqs) = <<>>
    BY <1>3, FlattenNone
  <2>2. flat[1] = more[1]
    BY <1>1, <1>2 DEF Flattening, FlattenRound
  <2> QED
    BY <1>1, <1>2, <1>3, <2>1, <2>2
<1>4. CASE n # 0
  <2>1. PICK less : Flattening(seqs, less) /\ FlattenSeq(seqs) = less[n]
    BY <1>1, <1>4, FlattenIsOne
  <2>2. \A i \in 1 .. n : flat[i] = less[i]
    <3>1. Flattening(more, flat) /\ Flattening(seqs, less)
      BY <1>2, <2>1
    <3>2. n <= Len(more) /\ n <= Len(seqs) /\ Len(more) \in Nat /\ Len(seqs) \in Nat
      BY <1>1
    <3>3. n \in Nat /\ SameUpTo(n, more, seqs)
      BY <1>1 DEF SameUpTo
    <3> HIDE DEF more, n
    <3>4. SameUpTo(n, flat, less)
      BY <3>1, <3>2, <3>3, FlattenAgree
    <3> QED
      BY <3>4 DEF SameUpTo
  <2>3. n \in 1 .. n /\ n + 1 # 1 /\ (n + 1) - 1 = n /\ n + 1 \in 1 .. Len(more)
    BY <1>1, <1>4
  <2>4. flat[n + 1] = flat[n] \o more[n + 1]
    BY <1>2, <2>3 DEF Flattening, FlattenRound
  <2> QED
    BY <1>1, <1>2, <2>1, <2>2, <2>3, <2>4
<1> QED
  BY <1>3, <1>4

LEMMA FlattenType ==
  ASSUME NEW S, NEW seqs \in Seq(Seq(S))
  PROVE  FlattenSeq(seqs) \in Seq(S)
<1> DEFINE Q == {s \in Seq(Seq(S)) : FlattenSeq(s) \in Seq(S)}
<1>1. <<>> \in Q
  <2>1. <<>> \in Seq(Seq(S)) /\ <<>> \in Seq(S)
    OBVIOUS
  <2> QED
    BY <2>1, FlattenNone, Zenon
<1>2. ASSUME NEW s \in Seq(Seq(S)), s \in Q, NEW x \in Seq(S)
      PROVE  Append(s, x) \in Q
  <2>1. FlattenSeq(s) \o x \in Seq(S) /\ Append(s, x) \in Seq(Seq(S))
    BY <1>2
  <2> QED
    BY <2>1, FlattenAppend
<1> HIDE DEF Q
<1>3. Seq(Seq(S)) \subseteq Q
  BY <1>1, <1>2, SeqSetInduction
<1> QED
  BY <1>3 DEF Q

LEMMA FlattenConcat ==
  ASSUME NEW S, NEW s \in Seq(Seq(S)), NEW t \in Seq(Seq(S))
  PROVE  FlattenSeq(s \o t) = FlattenSeq(s) \o FlattenSeq(t)
<1> DEFINE Q == {r \in Seq(Seq(S)) : FlattenSeq(s \o r) = FlattenSeq(s) \o FlattenSeq(r)}
<1>1. <<>> \in Q
  <2>1. FlattenSeq(s) \in Seq(S)
    BY FlattenType
  <2>2. s \o <<>> = s /\ FlattenSeq(s) \o <<>> = FlattenSeq(s) /\ <<>> \in Seq(Seq(S))
    BY <2>1
  <2> QED
    BY <2>2, FlattenNone, Zenon
<1>2. ASSUME NEW r \in Seq(Seq(S)), r \in Q, NEW x \in Seq(S)
      PROVE  Append(r, x) \in Q
  <2>1. FlattenSeq(s) \in Seq(S) /\ FlattenSeq(r) \in Seq(S)
    BY FlattenType
  <2>2. s \o Append(r, x) = Append(s \o r, x) /\ s \o r \in Seq(Seq(S))
    OBVIOUS
  <2>3. FlattenSeq(Append(s \o r, x)) = FlattenSeq(s \o r) \o x
    BY <2>2, FlattenAppend
  <2>4. FlattenSeq(Append(r, x)) = FlattenSeq(r) \o x
    BY FlattenAppend
  <2>5. FlattenSeq(s \o r) = FlattenSeq(s) \o FlattenSeq(r)
    BY <1>2
  <2>6. (FlattenSeq(s) \o FlattenSeq(r)) \o x = FlattenSeq(s) \o (FlattenSeq(r) \o x)
    BY <2>1
  <2>7. Append(r, x) \in Seq(Seq(S))
    OBVIOUS
  <2> QED
    BY <2>2, <2>3, <2>4, <2>5, <2>6, <2>7
<1> HIDE DEF Q
<1>3. Seq(Seq(S)) \subseteq Q
  BY <1>1, <1>2, SeqSetInduction
<1> QED
  BY <1>3 DEF Q

LEMMA FlattenOne ==
  ASSUME NEW S, NEW s \in Seq(S)
  PROVE  FlattenSeq(<<s>>) = s
<1>1. <<s>> = Append(<<>>, s) /\ <<>> \in Seq(Seq(S)) /\ <<>> \o s = s
  OBVIOUS
<1> QED
  BY <1>1, FlattenNone, FlattenAppend

LEMMA FlattenLength ==
  ASSUME NEW S, NEW T \in SUBSET Seq(S), NEW max \in Nat, \A t \in T : Len(t) <= max,
         NEW seqs \in Seq(T)
  PROVE  Len(FlattenSeq(seqs)) \in 0 .. Len(seqs) * max
<1> DEFINE Q == {s \in Seq(T) : Len(FlattenSeq(s)) \in 0 .. Len(s) * max}
<1>1. <<>> \in Q
  BY FlattenNone
<1>2. ASSUME NEW s \in Seq(T), s \in Q, NEW x \in T
      PROVE  Append(s, x) \in Q
  <2>1. s \in Seq(Seq(S)) /\ x \in Seq(S)
    OBVIOUS
  <2>2. FlattenSeq(Append(s, x)) = FlattenSeq(s) \o x /\ FlattenSeq(s) \in Seq(S)
    BY <2>1, FlattenAppend, FlattenType
  <2>3. Len(FlattenSeq(Append(s, x))) = Len(FlattenSeq(s)) + Len(x)
    BY <2>1, <2>2
  <2>4. /\ Len(FlattenSeq(s)) \in 0 .. Len(s) * max /\ Len(x) \in 0 .. max
        /\ Len(s) \in Nat /\ Len(Append(s, x)) = Len(s) + 1 /\ Append(s, x) \in Seq(T)
    BY <1>2, <2>1
  <2>5. \A n \in Nat : n * max \in Nat /\ (n + 1) * max = n * max + max
    OBVIOUS
  <2> DEFINE m == Len(s) * max
             a == Len(FlattenSeq(s))
  <2>6. m \in Nat /\ (Len(s) + 1) * max = m + max /\ a \in 0 .. m
    BY <2>4, <2>5
  <2> HIDE DEF m, a
  <2>7. a + Len(x) \in 0 .. m + max
    BY <2>4, <2>6
  <2> QED
    BY <2>3, <2>4, <2>6, <2>7 DEF a
<1> HIDE DEF Q
<1>3. Seq(T) \subseteq Q
  BY <1>1, <1>2, SeqSetInduction
<1> QED
  BY <1>3 DEF Q

-----------------------------------------------------------------------------
(* Styles *)

ColorRound(letters, color, i) ==
  IF i = 0 THEN "white"
  ELSE IF letters[i] \in DOMAIN char_to_color THEN char_to_color[letters[i]]
  ELSE color[i - 1]

Coloring(letters, n, color) == color = [i \in 0 .. n |-> ColorRound(letters, color, i)]

LEMMA ColoringExists ==
  ASSUME NEW letters, NEW n \in Nat
  PROVE  \E color : Coloring(letters, n, color)
<1> DEFINE Q == {m \in Nat : \E color : Coloring(letters, m, color)}
<1>1. 0 \in Q
  <2> DEFINE color == [i \in 0 .. 0 |-> "white"]
  <2>1. color = [i \in 0 .. 0 |-> ColorRound(letters, color, i)]
    BY DEF ColorRound
  <2> HIDE DEF color
  <2> QED
    BY <2>1 DEF Coloring
<1>2. ASSUME NEW m \in Q PROVE m + 1 \in Q
  <2>1. PICK color : color = [i \in 0 .. m |-> ColorRound(letters, color, i)]
    BY DEF Coloring
  <2> DEFINE next == [i \in 0 .. m + 1 |-> ColorRound(letters, color, i)]
  <2>2. \A i \in 0 .. m : next[i] = color[i]
    BY <2>1
  <2>3. ASSUME NEW i \in 0 .. m + 1
        PROVE  ColorRound(letters, next, i) = ColorRound(letters, color, i)
    <3>1. i # 0 => i - 1 \in 0 .. m
      OBVIOUS
    <3>2. i # 0 => next[i - 1] = color[i - 1]
      BY <2>2, <3>1
    <3> HIDE DEF next
    <3> QED
      BY <3>2 DEF ColorRound
  <2>4. next = [i \in 0 .. m + 1 |-> ColorRound(letters, next, i)]
    BY <2>3
  <2> HIDE DEF next
  <2> QED
    BY <2>4 DEF Coloring
<1>3. Q = Nat
  <2>1. Q \in SUBSET Nat
    OBVIOUS
  <2> HIDE DEF Q
  <2> QED
    BY <1>1, <1>2, <2>1, NatSetInduction
<1> QED
  BY <1>3

IsColor(c) == c \in DOMAIN char_to_color

(* The last letter of a colour among the first n counts.                   *)
Counts(letters, n, color) ==
  \/ \E j \in 1 .. n : /\ IsColor(letters[j]) /\ color = char_to_color[letters[j]]
                       /\ \A k \in j + 1 .. n : ~IsColor(letters[k])
  \/ color = "white" /\ \A k \in 1 .. n : ~IsColor(letters[k])

LEMMA LastColorCounts ==
  ASSUME NEW letters, Len(letters) \in Nat
  PROVE  Counts(letters, Len(letters), ColorOf(letters))
<1> DEFINE last == Len(letters)
           color == CHOOSE color : Coloring(letters, last, color)
<1>1. Coloring(letters, last, color)
  BY ColoringExists
<1>2. ColorOf(letters) = color[last]
  BY DEF ColorOf, Coloring, ColorRound
<1> HIDE DEF color
<1> DEFINE Q == {n \in Nat : n <= last => Counts(letters, n, color[n])}
<1>3. 0 \in Q
  BY <1>1 DEF Coloring, ColorRound, Counts
<1>4. ASSUME NEW n \in Q, n + 1 <= last PROVE Counts(letters, n + 1, color[n + 1])
  <2>1. n \in Nat /\ n + 1 \in 0 .. last /\ n + 1 # 0 /\ (n + 1) - 1 = n
    BY <1>4
  <2>2. color[n + 1] = IF IsColor(letters[n + 1]) THEN char_to_color[letters[n + 1]] ELSE color[n]
    BY <1>1, <2>1 DEF Coloring, ColorRound, IsColor
  <2>3. Counts(letters, n, color[n])
    BY <1>4, <2>1
  <2>4. CASE IsColor(letters[n + 1])
    <3>1. n + 1 \in 1 .. n + 1 /\ \A k \in (n + 1) + 1 .. n + 1 : FALSE
      BY <2>1
    <3> QED
      BY <2>2, <2>4, <3>1 DEF Counts
  <2>5. CASE ~IsColor(letters[n + 1])
    <3>1. \A j \in 1 .. n : j \in 1 .. n + 1
      BY <2>1
    <3>2. \A j \in 1 .. n + 1 : \A k \in j .. n + 1 : k = n + 1 \/ k \in j .. n
      BY <2>1
    <3>3. color[n + 1] = color[n]
      BY <2>2, <2>5
    <3> QED
      BY <2>1, <2>3, <2>5, <3>1, <3>2, <3>3 DEF Counts
  <2> QED
    BY <2>4, <2>5
<1>5. Q = Nat
  <2>1. Q \in SUBSET Nat /\ \A n \in Q : n + 1 \in Q
    BY <1>4
  <2> HIDE DEF Q
  <2> QED
    BY <1>3, <2>1, NatSetInduction
<1> QED
  BY <1>2, <1>5

Colors == {"white"} \cup {char_to_color[c] : c \in DOMAIN char_to_color}
Attributes == {char_to_attribute[c] : c \in DOMAIN char_to_attribute}

AGlyph == [char : STRING, color : Colors, attributes : SUBSET Attributes]

LEMMA StyleType ==
  ASSUME NEW letters \in Seq(STRING)
  PROVE  ColorOf(letters) \in Colors /\ AttributesOf(letters) \in SUBSET Attributes
<1>1. ColorOf(letters) \in Colors
  <2>1. Counts(letters, Len(letters), ColorOf(letters))
    BY LastColorCounts
  <2> QED
    BY <2>1 DEF Counts, IsColor, Colors
<1>2. AttributesOf(letters) \in SUBSET Attributes
  BY DEF AttributesOf, Attributes
<1> QED
  BY <1>1, <1>2

LEMMA GlyphsType ==
  ASSUME NEW text \in Seq(STRING), NEW color \in Colors, NEW attributes \in SUBSET Attributes
  PROVE  /\ Glyphs(text, color, attributes) \in Seq(AGlyph)
         /\ Len(Glyphs(text, color, attributes)) = Len(text)
         /\ \A i \in 1 .. Len(text) :
              Glyphs(text, color, attributes)[i] = Glyph(text[i], color, attributes)
<1>1. ASSUME NEW i \in 1 .. Len(text)
      PROVE  Glyph(text[i], color, attributes) \in AGlyph
  <2>1. text[i] \in STRING
    OBVIOUS
  <2> QED
    BY <2>1 DEF Glyph, AGlyph
<1>2. DOMAIN text = 1 .. Len(text) /\ Len(text) \in Nat
  OBVIOUS
<1>3. Glyphs(text, color, attributes) = [i \in 1 .. Len(text) |-> Glyph(text[i], color, attributes)]
  BY <1>2 DEF Glyphs
<1>4. Glyphs(text, color, attributes) \in [1 .. Len(text) -> AGlyph]
  BY <1>1, <1>3
<1>5. Len(Glyphs(text, color, attributes)) = Len(text)
  BY <1>2, <1>3
<1>6. Glyphs(text, color, attributes) \in Seq(AGlyph)
  BY <1>2, <1>4
<1> QED
  BY <1>3, <1>5, <1>6

(* What a string of glyphs looks like on the screen.                       *)
Rendered(glyphs) ==
  [i \in 1 .. Len(glyphs) |-> Waddch(glyphs[i].char, Wattron(Normal, glyphs[i]))]

LEMMA RenderedGlyphs ==
  ASSUME NEW text \in Seq(STRING), NEW color \in Colors, NEW attributes \in SUBSET Attributes
  PROVE  Rendered(Glyphs(text, color, attributes)) = Looks(text, color, attributes)
<1> DEFINE glyphs == Glyphs(text, color, attributes)
<1>1. /\ Len(glyphs) = Len(text)
      /\ \A i \in 1 .. Len(text) : glyphs[i] = Glyph(text[i], color, attributes)
  BY GlyphsType
<1>2. DOMAIN text = 1 .. Len(text)
  OBVIOUS
<1> HIDE DEF glyphs
<1>3. ASSUME NEW i \in 1 .. Len(text)
      PROVE  Waddch(glyphs[i].char, Wattron(Normal, glyphs[i])) =
               Waddch(text[i], [color |-> color, attributes |-> attributes])
  <2>1. glyphs[i] = [char |-> text[i], color |-> color, attributes |-> attributes]
    BY <1>1 DEF Glyph
  <2>2. {} \cup attributes = attributes
    OBVIOUS
  <2> QED
    BY <2>1, <2>2 DEF Wattron, Normal
<1>4. Rendered(glyphs) = Looks(text, color, attributes)
  BY <1>1, <1>2, <1>3 DEF Rendered, Looks
<1> QED
  BY <1>4 DEF glyphs

(* A field looks as its letters say, whichever way one looks for the last. *)
LEMMA FieldLooks ==
  ASSUME NEW field \in Seq(STRING), NEW arg \in Seq(STRING)
  PROVE  Rendered(Styled(field, arg)) = LooksOfField(field, arg)
<1> DEFINE colored == {i \in DOMAIN field : field[i] \in DOMAIN char_to_color}
<1>1. DOMAIN field = 1 .. Len(field) /\ Len(field) \in Nat
  OBVIOUS
<1>2. ColorOf(field) = IF colored = {} THEN "white" ELSE char_to_color[field[Max(colored)]]
  <2>1. Counts(field, Len(field), ColorOf(field))
    BY LastColorCounts
  <2>2. CASE \A k \in 1 .. Len(field) : ~IsColor(field[k])
    <3>1. colored = {}
      BY <1>1, <2>2 DEF IsColor
    <3>2. ColorOf(field) = "white"
      BY <2>1, <2>2 DEF Counts
    <3> QED
      BY <3>1, <3>2
  <2>3. CASE \E k \in 1 .. Len(field) : IsColor(field[k])
    <3>1. PICK j \in 1 .. Len(field) :
            /\ IsColor(field[j]) /\ ColorOf(field) = char_to_color[field[j]]
            /\ \A k \in j + 1 .. Len(field) : ~IsColor(field[k])
      BY <2>1, <2>3 DEF Counts
    <3>2. j \in colored /\ \A k \in colored : k <= j
      BY <1>1, <3>1 DEF IsColor
    <3>3. colored \subseteq Int
      BY <1>1
    <3> HIDE DEF colored
    <3>4. Max(colored) = j
      <4>1. Max(colored) \in colored /\ \A k \in colored : Max(colored) >= k
        BY <3>2, <3>3 DEF Max
      <4>2. PICK m \in colored : m = Max(colored) /\ \A k \in colored : m >= k
        BY <4>1
      <4>3. m \in Int /\ j \in Int /\ m <= j /\ j <= m
        BY <3>2, <3>3, <4>2
      <4> QED
        BY <4>2, <4>3
    <3> QED
      BY <3>1, <3>2, <3>4
  <2> QED
    BY <2>2, <2>3
<1>3. LooksOfField(field, arg) = Looks(arg, ColorOf(field), AttributesOf(field))
  BY <1>2 DEF LooksOfField, AttributesOf
<1>4. ColorOf(field) \in Colors /\ AttributesOf(field) \in SUBSET Attributes
  BY StyleType
<1> QED
  BY <1>3, <1>4, RenderedGlyphs DEF Styled

-----------------------------------------------------------------------------
(* The inductive invariant                                                 *)

Wheres ==
  {[y |-> <<0>>, x |-> <<0>>], [y |-> <<1>>, x |-> <<>>], [y |-> <<>>, x |-> <<>>]}

Shown(glyph) == Waddch(glyph.char, Wattron(Normal, glyph))

(* What is still to come is bounded along with what has been parsed.       *)
TextOK ==
  /\ pieces \in Seq(Pieces) /\ to_parse \in Seq(STRING)
  /\ arguments \in Seq(Arguments) /\ args \in Seq(Arguments)
  /\ Len(args) <= Len(arguments)
  /\ coords \in Wheres
  /\ format_str \in Seq(AGlyph)
  /\ Len(format_str) + Len(to_parse) + Len(args) * MaxLength <= Ints

PrintOK ==
  /\ pc \in {"idle", "parse", "parse_arg", "place", "print", "printed", "undefined"}
  /\ pc = "idle" => format_str = <<>>
  /\ pc \notin {"print", "printed"} => cells = <<>>
  /\ pc = "printed" => Len(cells) = Len(format_str)
  /\ cells \in Seq({Shown(g) : g \in AGlyph})
  /\ Len(cells) <= Len(format_str)
  /\ \A i \in 1 .. Len(cells) : cells[i] = Shown(format_str[i])
  /\ attrs = Normal

Window == [height : 1 .. Ints \div 2 - 1, width : 1 .. Ints \div 2 - 1, y : Nat, x : Nat]

WindowOK ==
  /\ window \in Window
  /\ window.y < window.height /\ window.x < window.width

LEMMA Numbers ==
  /\ MaxPieces \in Nat /\ MaxArguments \in Nat /\ MaxLength \in Nat
  /\ Ints \in Nat \ {0} /\ Ints % 2 = 0
BY FormatAssumption, Zenon

LEMMA Countable == (MaxPieces + MaxArguments) * MaxLength <= Ints
BY FormatAssumption, Zenon

LEMMA Texts ==
  /\ Pieces \in SUBSET Seq(STRING) /\ Arguments \in SUBSET Seq(STRING)
  /\ \A text \in Pieces \cup Arguments : Len(text) <= MaxLength
BY FormatAssumption, Zenon

LEMMA Halves == \E half \in Nat \ {0} : Ints = 2 * half /\ Ints \div 2 = half
<1>1. Ints \in Nat \ {0} /\ Ints % 2 = 0
  BY Numbers
<1>2. \A n \in Nat \ {0} : n % 2 = 0 => n = 2 * (n \div 2) /\ n \div 2 \in Nat \ {0}
  OBVIOUS
<1> QED
  BY ONLY <1>1, <1>2

LEMMA Bounded ==
  ASSUME NEW S, NEW n \in Nat, NEW s \in BoundedSeq(S, n)
  PROVE  s \in Seq(S) /\ Len(s) \in 0 .. n
<1>1. PICK m \in 0 .. n : s \in [1 .. m -> S]
  BY DEF BoundedSeq, SeqOf
<1> QED
  BY <1>1

LEMMA InitFormat == Init => TextOK /\ PrintOK /\ WindowOK
<1> SUFFICES ASSUME Init PROVE TextOK /\ PrintOK /\ WindowOK
  OBVIOUS
<1>1. TextOK
  <2>1. coords \in Wheres
    BY DEF Init, Wheres
  <2>2. /\ pieces \in Seq(Pieces) /\ to_parse \in Seq(STRING)
        /\ arguments \in Seq(Arguments) /\ args \in Seq(Arguments)
        /\ format_str \in Seq(AGlyph)
    BY DEF Init
  <2>3. Len(format_str) = 0 /\ Len(to_parse) = 0 /\ Len(args) = 0 /\ Len(arguments) = 0
    BY DEF Init
  <2>4. 0 + 0 + 0 * MaxLength <= Ints
    BY Numbers
  <2> QED
    BY <2>1, <2>2, <2>3, <2>4 DEF TextOK
<1>2. PrintOK
  BY DEF Init, PrintOK
<1>3. WindowOK
  <2>1. PICK w \in Windows :
          window = [height |-> w.height, width |-> w.width, y |-> 0, x |-> 0]
    BY DEF Init
  <2>2. w.height \in 1 .. Ints \div 2 - 1 /\ w.width \in 1 .. Ints \div 2 - 1
    BY FormatAssumption, Zenon
  <2>3. Ints \div 2 \in Nat
    BY Halves
  <2> QED
    BY ONLY <2>1, <2>2, <2>3 DEF WindowOK, Window
<1> QED
  BY <1>1, <1>2, <1>3

-----------------------------------------------------------------------------
(* The steps *)

LEMMA FormatTexts ==
  ASSUME TextOK, PrintOK, WindowOK,
         NEW ps \in BoundedSeq(Pieces, MaxPieces), NEW given \in BoundedSeq(Arguments, MaxArguments),
         NEW where \in Wheres,
         NEW y \in 0 .. window.height - 1, NEW x \in 0 .. window.width - 1,
         Format(ps, given, where, y, x)
  PROVE  TextOK' /\ PrintOK' /\ WindowOK'
<1>1. ps \in Seq(Pieces) /\ Len(ps) \in 0 .. MaxPieces
  BY Bounded, Numbers
<1>2. given \in Seq(Arguments) /\ Len(given) \in 0 .. MaxArguments
  BY Bounded, Numbers
<1>3. FlattenSeq(ps) \in Seq(STRING) /\ Len(FlattenSeq(ps)) \in 0 .. Len(ps) * MaxLength
  <2>1. ps \in Seq(Seq(STRING))
    BY <1>1, Texts
  <2>2. \A t \in Pieces : Len(t) <= MaxLength
    BY Texts
  <2> QED
    BY <1>1, <2>1, <2>2, Texts, Numbers, FlattenType, FlattenLength
<1>4. format_str = <<>> /\ cells = <<>> /\ Len(format_str) = 0
  BY DEF Format, PrintOK
<1>5. Len(FlattenSeq(ps)) + Len(given) * MaxLength <= Ints
  <2>1. \A m, n \in Nat : \A a \in 0 .. m, b \in 0 .. n, l \in Nat :
          a * l + b * l <= (m + n) * l
    OBVIOUS
  <2>2. Len(ps) * MaxLength + Len(given) * MaxLength <= (MaxPieces + MaxArguments) * MaxLength
    BY <1>1, <1>2, <2>1, Numbers
  <2> DEFINE p == Len(ps) * MaxLength
             a == Len(given) * MaxLength
             m == (MaxPieces + MaxArguments) * MaxLength
             t == Len(FlattenSeq(ps))
  <2>3. p \in Nat /\ a \in Nat /\ m \in Nat /\ m <= Ints /\ p + a <= m /\ Ints \in Nat
        /\ t \in 0 .. p
    <3>1. \A k, n \in Nat : k * n \in Nat
      OBVIOUS
    <3>2. /\ Len(ps) \in Nat /\ Len(given) \in Nat /\ MaxLength \in Nat
          /\ MaxPieces + MaxArguments \in Nat
      <4>1. Len(ps) \in Nat /\ Len(given) \in Nat
        BY ONLY <1>1, <1>2, LenType
      <4>2. MaxPieces + MaxArguments \in Nat /\ MaxLength \in Nat
        BY ONLY Numbers
      <4> QED
        BY <4>1, <4>2
    <3>3. p \in Nat /\ a \in Nat /\ m \in Nat
      BY <3>1, <3>2
    <3> QED
      BY <1>3, <2>2, <3>3, Numbers, Countable
  <2> HIDE DEF p, a, m, t
  <2>4. t + a <= Ints
    BY <2>3
  <2> QED
    BY <2>4 DEF t, a
<1>6. TextOK'
  <2>1. /\ pieces' = ps /\ arguments' = given /\ args' = given /\ coords' = where
        /\ to_parse' = FlattenSeq(ps) /\ format_str' = format_str
    BY DEF Format
  <2>2. Len(format_str') + Len(to_parse') + Len(args') * MaxLength <= Ints
    <3>1. Len(FlattenSeq(ps)) \in Nat /\ 0 + Len(FlattenSeq(ps)) = Len(FlattenSeq(ps))
      BY <1>3
    <3> QED
      BY <1>4, <1>5, <2>1, <3>1
  <2>3. format_str' \in Seq(AGlyph)
    BY <2>1 DEF TextOK
  <2>4. Len(args') <= Len(arguments')
    BY <1>2, <2>1
  <2> QED
    BY <1>1, <1>2, <1>3, <2>1, <2>2, <2>3, <2>4 DEF TextOK
<1>7. PrintOK'
  BY <1>4 DEF Format, PrintOK
<1>8. WindowOK'
  <2>1. window \in Window /\ window' = [window EXCEPT !.y = y, !.x = x]
    BY DEF Format, WindowOK
  <2>2. window.height \in Nat /\ window.width \in Nat
    BY <2>1, Halves DEF Window
  <2>3. y \in Nat /\ x \in Nat /\ y < window.height /\ x < window.width
    BY <2>2
  <2>4. PICK w : w = window'
    OBVIOUS
  <2>5. PICK old \in Window : old = window
    BY <2>1
  <2>6. w = [old EXCEPT !.y = y, !.x = x]
    BY <2>1, <2>4, <2>5
  <2>7. /\ w \in Window /\ w.y = y /\ w.x = x
        /\ w.height = old.height /\ w.width = old.width
    <3>1. y \in Nat /\ x \in Nat
      BY <2>3
    <3> QED
      BY ONLY <2>6, <3>1 DEF Window
  <2> QED
    BY <2>3, <2>4, <2>5, <2>7 DEF WindowOK
<1> QED
  BY <1>6, <1>7, <1>8

(* What leaves no string of glyphs half printed is safe while nothing has  *)
(* been printed.                                                           *)
LEMMA NothingPrinted ==
  ASSUME PrintOK, pc \notin {"print", "printed"},
         cells' = cells, attrs' = attrs, format_str' \in Seq(AGlyph),
         pc' \in {"parse", "parse_arg", "place", "print", "undefined"}
  PROVE  PrintOK'
<1>1. cells = <<>> /\ Len(cells) = 0
  BY DEF PrintOK
<1>2. Len(format_str') \in Nat
  BY LenType
<1> QED
  BY <1>1, <1>2 DEF PrintOK

LEMMA ParseTexts ==
  ASSUME TextOK, PrintOK, WindowOK, Parse
  PROVE  TextOK' /\ PrintOK' /\ WindowOK'
<1> DEFINE brace == Find(OpenBrace, to_parse)
           end == IF brace = 0 THEN Len(to_parse) ELSE brace - 1
           text == SubSeq(to_parse, 1, end)
           rest == SubSeq(to_parse, end + 1, Len(to_parse))
<1>1. to_parse \in Seq(STRING) /\ format_str \in Seq(AGlyph)
  BY DEF TextOK
<1>2. end \in 0 .. Len(to_parse)
  <2>1. brace \in 0 .. Len(to_parse)
    BY <1>1, FindFirst
  <2>2. Len(to_parse) \in Nat
    BY <1>1, LenType
  <2> HIDE DEF brace
  <2> QED
    BY <2>1, <2>2
<1>3. /\ pc' = IF brace = 0 THEN "place" ELSE "parse_arg"
      /\ format_str' = format_str \o Glyphs(text, "white", {})
      /\ to_parse' = rest
  BY DEF Parse
<1> HIDE DEF brace, end
<1>4. text \in Seq(STRING) /\ Len(text) = end /\ rest \in Seq(STRING)
      /\ Len(rest) = Len(to_parse) - end
  BY <1>1, <1>2
<1> HIDE DEF text, rest
<1>5. format_str' \in Seq(AGlyph) /\ Len(format_str') = Len(format_str) + end
  <2>1. "white" \in Colors /\ {} \in SUBSET Attributes
    BY DEF Colors
  <2>2. Glyphs(text, "white", {}) \in Seq(AGlyph) /\ Len(Glyphs(text, "white", {})) = end
    BY <1>4, <2>1, GlyphsType
  <2> DEFINE more == Glyphs(text, "white", {})
  <2>3. more \in Seq(AGlyph) /\ Len(more) = end /\ format_str' = format_str \o more
    BY <1>3, <2>2
  <2> HIDE DEF more
  <2> QED
    BY <1>1, <2>3, ConcatType
<1>6. TextOK'
  <2>1. Len(format_str') + Len(to_parse') = Len(format_str) + Len(to_parse)
    <3>1. Len(format_str) \in Nat /\ Len(to_parse) \in Nat
      BY <1>1, LenType
    <3>2. Len(to_parse') = Len(to_parse) - end
      BY <1>3, <1>4
    <3>3. Len(format_str') = Len(format_str) + end
      BY <1>5
    <3> QED
      BY ONLY <1>2, <3>1, <3>2, <3>3
  <2>2. UNCHANGED <<pieces, arguments, coords, args>>
    BY DEF Parse, input
  <2>3. Len(format_str') + Len(to_parse') + Len(args') * MaxLength <= Ints
    BY <2>1, <2>2 DEF TextOK
  <2> QED
    BY <1>3, <1>4, <1>5, <2>2, <2>3 DEF TextOK
<1>7. PrintOK'
  BY <1>3, <1>5, NothingPrinted DEF Parse
<1>8. WindowOK'
  BY DEF Parse, WindowOK
<1> QED
  BY <1>6, <1>7, <1>8

LEMMA ParseArgTexts ==
  ASSUME TextOK, PrintOK, WindowOK, ParseArg
  PROVE  TextOK' /\ PrintOK' /\ WindowOK'
<1> DEFINE brace == Find(CloseBrace, to_parse)
           letters == SubSeq(to_parse, 1, brace)
           arg == Head(args)
           rest == SubSeq(to_parse, brace + 1, Len(to_parse))
<1>1. to_parse \in Seq(STRING) /\ format_str \in Seq(AGlyph) /\ args \in Seq(Arguments)
  BY DEF TextOK
<1>2. brace \in 1 .. Len(to_parse) /\ Len(to_parse) \in Nat
  <2>1. brace \in 0 .. Len(to_parse)
    BY <1>1, FindFirst
  <2>2. Len(to_parse) \in Nat
    BY <1>1, LenType
  <2>3. brace # 0
    BY DEF ParseArg
  <2> HIDE DEF brace
  <2> QED
    BY <2>1, <2>2, <2>3
<1>3. /\ args # <<>> /\ pc = "parse_arg" /\ pc' = "parse"
      /\ format_str' = format_str \o Styled(letters, arg)
      /\ to_parse' = rest /\ args' = Tail(args)
  BY DEF ParseArg
<1> HIDE DEF brace
<1>4. /\ letters \in Seq(STRING) /\ rest \in Seq(STRING)
      /\ Len(rest) \in 0 .. Len(to_parse) - 1
  BY <1>1, <1>2
<1>5. /\ arg \in Arguments /\ Tail(args) \in Seq(Arguments)
      /\ Len(args) \in Nat \ {0} /\ Len(Tail(args)) = Len(args) - 1
  BY <1>1, <1>3
<1>6. arg \in Seq(STRING) /\ Len(arg) \in 0 .. MaxLength
  <2>1. arg \in Seq(STRING) /\ Len(arg) <= MaxLength
    BY <1>5, Texts
  <2> HIDE DEF arg
  <2> QED
    BY <2>1, Numbers
<1> HIDE DEF letters, arg, rest
<1>7. format_str' \in Seq(AGlyph) /\ Len(format_str') = Len(format_str) + Len(arg)
  <2>1. ColorOf(letters) \in Colors /\ AttributesOf(letters) \in SUBSET Attributes
    BY <1>4, StyleType
  <2>2. Styled(letters, arg) \in Seq(AGlyph) /\ Len(Styled(letters, arg)) = Len(arg)
    BY <1>6, <2>1, GlyphsType DEF Styled
  <2> QED
    BY <1>1, <1>3, <2>2
<1>8. TextOK'
  <2>1. UNCHANGED <<pieces, arguments, coords>>
    BY DEF ParseArg, input
  <2>2. Len(format_str') + Len(to_parse') + Len(args') * MaxLength <= Ints
    <3> DEFINE n == Len(args) - 1
    <3>1. n \in Nat /\ Len(args) = n + 1
      BY <1>5
    <3>2. Len(args) * MaxLength = n * MaxLength + MaxLength /\ n * MaxLength \in Nat
      <4>1. \A k, l \in Nat : (k + 1) * l = k * l + l /\ k * l \in Nat
        OBVIOUS
      <4> HIDE DEF n
      <4> QED
        BY <3>1, <4>1, Numbers
    <3>3. Len(format_str) + Len(to_parse) + Len(args) * MaxLength <= Ints
      BY DEF TextOK
    <3>4. Len(args') = n /\ Len(format_str) \in Nat
      BY <1>1, <1>3, <1>5, LenType
    <3> DEFINE a == n * MaxLength
               b == Len(args) * MaxLength
    <3>5. /\ b = a + MaxLength /\ a \in Nat
          /\ Len(format_str) + Len(to_parse) + b <= Ints
      BY <3>2, <3>3
    <3> HIDE DEF a, b, n
    <3>6. Len(format_str') + Len(to_parse') + a <= Ints
      <4>1. Len(to_parse') \in 0 .. Len(to_parse) - 1
        BY <1>3, <1>4
      <4> QED
        BY <1>2, <1>6, <1>7, <3>4, <3>5, <4>1, Numbers
    <3> QED
      BY <3>4, <3>6 DEF a
  <2>3. Len(args') <= Len(arguments')
    <3>1. Len(args) <= Len(arguments) /\ Len(arguments) \in Nat
      BY LenType DEF TextOK
    <3> QED
      BY <1>3, <1>5, <2>1, <3>1
  <2> QED
    BY <1>3, <1>4, <1>5, <1>7, <2>1, <2>2, <2>3 DEF TextOK
<1>9. PrintOK'
  BY <1>3, <1>7, NothingPrinted DEF ParseArg
<1>10. WindowOK'
  BY DEF ParseArg, WindowOK
<1> QED
  BY <1>8, <1>9, <1>10

LEMMA ParseEndsTexts ==
  ASSUME TextOK, PrintOK, WindowOK, ParseNoArg \/ ParseRunsAway
  PROVE  TextOK' /\ PrintOK' /\ WindowOK'
<1>1. UNCHANGED <<pieces, arguments, coords, to_parse, args, format_str, window, attrs, cells>>
  BY DEF ParseNoArg, ParseRunsAway, input
<1>2. pc = "parse_arg" /\ pc' \in {"place", "undefined"}
  BY DEF ParseNoArg, ParseRunsAway
<1>3. TextOK'
  BY <1>1 DEF TextOK
<1>4. PrintOK'
  <2>1. format_str' \in Seq(AGlyph)
    BY <1>1 DEF TextOK
  <2> QED
    BY <1>1, <1>2, <2>1, NothingPrinted
<1>5. WindowOK'
  BY <1>1 DEF WindowOK
<1> QED
  BY <1>3, <1>4, <1>5

(* wmove leaves the cursor in the window.                                  *)
LEMMA MoveCursor ==
  ASSUME WindowOK, NEW y, NEW x, window' = move_cursor(y, x)
  PROVE  WindowOK'
<1>1. PICK old \in Window : old = window
  BY DEF WindowOK
<1>2. old.y < old.height /\ old.x < old.width
  BY <1>1 DEF WindowOK
<1>3. PICK w : w = window'
  OBVIOUS
<1>4. w = IF y \in 0 .. old.height - 1 /\ x \in 0 .. old.width - 1
          THEN [old EXCEPT !.y = y, !.x = x] ELSE old
  BY <1>1, <1>3 DEF move_cursor
<1>5. Ints \div 2 \in Nat
  BY Halves
<1>6. old.height \in 1 .. Ints \div 2 - 1 /\ old.width \in 1 .. Ints \div 2 - 1
  BY <1>1 DEF Window
<1>7. w \in Window /\ w.y < w.height /\ w.x < w.width
  <2>1. CASE y \in 0 .. old.height - 1 /\ x \in 0 .. old.width - 1
    <3>1. y \in Nat /\ x \in Nat /\ y < old.height /\ x < old.width
      BY ONLY <1>5, <1>6, <2>1
    <3>2. w = [old EXCEPT !.y = y, !.x = x]
      BY <1>4, <2>1
    <3> QED
      BY ONLY <1>1, <3>1, <3>2 DEF Window
  <2>2. CASE ~(y \in 0 .. old.height - 1 /\ x \in 0 .. old.width - 1)
    BY <1>2, <1>4, <2>2
  <2> QED
    BY <2>1, <2>2
<1> QED
  BY <1>3, <1>7 DEF WindowOK

LEMMA PlaceTexts ==
  ASSUME TextOK, PrintOK, WindowOK, Place
  PROVE  TextOK' /\ PrintOK' /\ WindowOK'
<1>1. TextOK'
  BY DEF Place, TextOK, input
<1>2. PrintOK'
  <2>1. format_str' \in Seq(AGlyph)
    BY DEF Place, TextOK
  <2> QED
    BY <2>1, NothingPrinted DEF Place
<1>3. WindowOK'
  BY MoveCursor DEF Place
<1> QED
  BY <1>1, <1>2, <1>3

LEMMA PrintGlyphTexts ==
  ASSUME TextOK, PrintOK, WindowOK, PrintGlyph
  PROVE  TextOK' /\ PrintOK' /\ WindowOK'
<1> DEFINE n == Len(cells)
           glyph == format_str[n + 1]
<1>1. n \in Nat /\ Len(format_str) \in Nat /\ n < Len(format_str)
  BY LenType DEF PrintGlyph, PrintOK, TextOK
<1>2. glyph \in AGlyph
  BY <1>1 DEF TextOK
<1>3. /\ attrs' = Normal
      /\ cells' = Append(cells, Shown(glyph))
      /\ pc = "print" /\ pc' = "print" /\ format_str' = format_str
  BY DEF PrintGlyph, PrintOK, Shown
<1>4. /\ cells' \in Seq({Shown(g) : g \in AGlyph})
      /\ Len(cells') = n + 1
      /\ \A i \in 1 .. n : cells'[i] = cells[i]
      /\ cells'[n + 1] = Shown(glyph)
  <2>1. Shown(glyph) \in {Shown(g) : g \in AGlyph}
    BY <1>2
  <2> DEFINE S == {Shown(g) : g \in AGlyph}
             x == Shown(glyph)
  <2>2. cells \in Seq(S) /\ x \in S /\ cells' = Append(cells, x)
    BY <1>3, <2>1 DEF PrintOK
  <2> HIDE DEF S, x
  <2>3. /\ cells' \in Seq(S) /\ Len(cells') = n + 1
        /\ \A i \in 1 .. n : cells'[i] = cells[i]
        /\ cells'[n + 1] = x
    BY <2>2
  <2> QED
    BY <2>3 DEF S, x
<1>5. \A i \in 1 .. Len(cells') : cells'[i] = Shown(format_str'[i])
  <2>1. \A i \in 1 .. n : cells[i] = Shown(format_str[i])
    BY DEF PrintOK
  <2>2. \A i \in 1 .. n + 1 : i \in 1 .. n \/ i = n + 1
    BY <1>1
  <2> HIDE DEF n
  <2> QED
    BY <1>3, <1>4, <2>1, <2>2
<1>6. Len(cells') <= Len(format_str')
  BY <1>1, <1>3, <1>4
<1>7. PrintOK'
  BY <1>3, <1>4, <1>5, <1>6 DEF PrintOK
<1>8. TextOK' /\ WindowOK'
  BY DEF PrintGlyph, TextOK, WindowOK, input
<1> QED
  BY <1>7, <1>8

LEMMA EndPrintTexts ==
  ASSUME TextOK, PrintOK, WindowOK, EndPrint
  PROVE  TextOK' /\ PrintOK' /\ WindowOK'
<1>1. TextOK' /\ WindowOK'
  BY DEF EndPrint, TextOK, WindowOK, input
<1>2. UNCHANGED <<cells, format_str, attrs>> /\ pc' = "printed" /\ Len(cells) = Len(format_str)
  BY DEF EndPrint
<1>3. PrintOK'
  BY <1>2 DEF PrintOK
<1> QED
  BY <1>1, <1>3

LEMMA DestroyTexts ==
  ASSUME TextOK, PrintOK, WindowOK, Destroy
  PROVE  TextOK' /\ PrintOK' /\ WindowOK'
<1>1. TextOK'
  <2>1. coords' \in Wheres
    BY DEF Destroy, Wheres
  <2>2. /\ pieces' \in Seq(Pieces) /\ to_parse' \in Seq(STRING)
        /\ arguments' \in Seq(Arguments) /\ args' \in Seq(Arguments)
        /\ format_str' \in Seq(AGlyph)
    BY DEF Destroy
  <2>3. Len(format_str') = 0 /\ Len(to_parse') = 0 /\ Len(args') = 0 /\ Len(arguments') = 0
    BY DEF Destroy
  <2>4. 0 + 0 + 0 * MaxLength <= Ints
    BY Numbers
  <2> QED
    BY <2>1, <2>2, <2>3, <2>4 DEF TextOK
<1>2. PrintOK'
  BY DEF Destroy, PrintOK
<1>3. WindowOK'
  BY DEF Destroy, WindowOK
<1> QED
  BY <1>1, <1>2, <1>3

LEMMA NextFormat ==
  TextOK /\ PrintOK /\ WindowOK /\ [Next]_vars => TextOK' /\ PrintOK' /\ WindowOK'
<1> SUFFICES ASSUME TextOK, PrintOK, WindowOK, [Next]_vars
             PROVE  TextOK' /\ PrintOK' /\ WindowOK'
  OBVIOUS
<1>1. ASSUME NEW ps \in BoundedSeq(Pieces, MaxPieces),
             NEW given \in BoundedSeq(Arguments, MaxArguments),
             NEW where \in Wheres,
             NEW cursor \in {<<0, 0>>, <<window.height - 1, window.width - 1>>},
             Format(ps, given, where, cursor[1], cursor[2])
      PROVE  TextOK' /\ PrintOK' /\ WindowOK'
  <2>1. window.height \in Nat \ {0} /\ window.width \in Nat \ {0}
    BY Halves DEF WindowOK, Window
  <2>2. cursor[1] \in 0 .. window.height - 1 /\ cursor[2] \in 0 .. window.width - 1
    BY <2>1
  <2> DEFINE y == cursor[1]
             x == cursor[2]
  <2>3. Format(ps, given, where, y, x) /\ y \in 0 .. window.height - 1 /\ x \in 0 .. window.width - 1
    BY <1>1, <2>2
  <2> HIDE DEF y, x
  <2> QED
    BY <2>3, FormatTexts
<1>2. CASE UNCHANGED vars
  <2>1. TextOK'
    BY <1>2 DEF vars, input, TextOK
  <2>2. PrintOK'
    BY <1>2 DEF vars, PrintOK
  <2>3. WindowOK'
    BY <1>2 DEF vars, WindowOK
  <2> QED
    BY <2>1, <2>2, <2>3
<1> QED
  BY <1>1, <1>2, ParseTexts, ParseArgTexts, ParseEndsTexts, PlaceTexts, PrintGlyphTexts,
     EndPrintTexts, DestroyTexts DEF Next, Wheres

LEMMA FormatInvariant == Spec => [](TextOK /\ PrintOK /\ WindowOK)
BY InitFormat, NextFormat, PTL DEF Spec

(* Whatever is printed, wherever: the cursor never leaves the window, no   *)
(* more is put on the screen than was parsed, and no attribute stays on    *)
(* (print.hpp:42-71, glyph.hpp:35-41).                                     *)
THEOREM FormatTypeCorrect == Spec => []TypeOK
<1>1. TextOK /\ PrintOK /\ WindowOK => TypeOK
  <2> SUFFICES ASSUME TextOK, PrintOK, WindowOK PROVE TypeOK
    OBVIOUS
  <2>1. window.y \in 0 .. window.height - 1 /\ window.x \in 0 .. window.width - 1
    <3>1. window.height \in Nat /\ window.width \in Nat /\ window.y \in Nat /\ window.x \in Nat
      BY Halves DEF WindowOK, Window
    <3> QED
      BY <3>1 DEF WindowOK
  <2> QED
    BY <2>1 DEF TypeOK, TextOK, PrintOK
<1> QED
  BY <1>1, FormatInvariant, PTL

-----------------------------------------------------------------------------
(* Where a text is put                                                     *)

LEMMA Remainder ==
  ASSUME NEW m \in Nat \ {0}, NEW q \in Int, NEW r \in 0 .. m - 1
  PROVE  (q * m + r) % m = r
<1> DEFINE n == q * m + r
           p == n \div m
           s == n % m
<1>1. n \in Int /\ n - r = q * m
  <2>1. q * m \in Int
    OBVIOUS
  <2> QED
    BY <2>1
<1>2. p \in Int /\ s \in 0 .. m - 1 /\ n = m * p + s
  <2>1. \A k \in Int : k \div m \in Int /\ k % m \in 0 .. m - 1 /\ k = m * (k \div m) + (k % m)
    OBVIOUS
  <2> HIDE DEF n
  <2> QED
    BY <1>1, <2>1
<1>3. q * m - m * p = s - r
  <2>1. q * m \in Int /\ m * p \in Int
    BY <1>2
  <2> DEFINE a == q * m
             b == m * p
  <2>2. n - r = a /\ n = b + s /\ a \in Int /\ b \in Int
    BY <1>1, <1>2, <2>1
  <2> HIDE DEF a, b, n, p, s
  <2>3. a - b = s - r
    BY <1>1, <1>2, <2>2
  <2> QED
    BY <2>3 DEF a, b
<1> HIDE DEF n, p, s
<1>4. p = q
  <2>1. p < q => q * m - m * p >= m
    <3> SUFFICES ASSUME p < q PROVE q * m - m * p >= m
      OBVIOUS
    <3>1. PICK d \in Nat : q = p + 1 + d
      <4>1. q - p - 1 \in Nat /\ q = p + 1 + (q - p - 1)
        BY <1>2
      <4> QED
        BY <4>1
    <3>2. (p + 1 + d) * m - m * p = m + d * m /\ d * m \in Nat
      BY <1>2
    <3> QED
      BY <3>1, <3>2
  <2>2. q < p => q * m - m * p <= -m
    <3> SUFFICES ASSUME q < p PROVE q * m - m * p <= -m
      OBVIOUS
    <3>1. PICK d \in Nat : p = q + 1 + d
      <4>1. p - q - 1 \in Nat /\ p = q + 1 + (p - q - 1)
        BY <1>2
      <4> QED
        BY <4>1
    <3>2. q * m - m * (q + 1 + d) = -(m + d * m) /\ d * m \in Nat
      BY <1>2
    <3> QED
      BY <3>1, <3>2
  <2>3. s - r < m /\ s - r > -m
    BY <1>2
  <2> QED
    BY <1>2, <1>3, <2>1, <2>2, <2>3
<1>5. q * m - m * q = 0
  OBVIOUS
<1>6. s = r
  BY <1>2, <1>3, <1>4, <1>5
<1> QED
  BY <1>6 DEF s, n

(* The column is half of what is left, rounded down, also when nothing is. *)
LEMMA CentreHalves ==
  ASSUME NEW width \in 1 .. Ints \div 2 - 1, NEW size \in 0 .. Ints
  PROVE  Centre(width, size) = (width - size) \div 2
<1>1. PICK h \in Nat \ {0} : Ints = 2 * h /\ Ints \div 2 = h
  BY Halves
<1> DEFINE d == width - size
           m == 2 * h
           k == h * m
           half == d \div 2
<1>2. d \in Int /\ -m <= d /\ d < h /\ m \in Nat \ {0}
  BY <1>1
<1>3. k \in Nat /\ k >= m /\ Ints * Ints = 2 * k
  <2>1. \A i, j \in Nat : (i + 1) * j = i * j + j /\ i * j \in Nat
    OBVIOUS
  <2>2. h - 1 \in Nat /\ h = (h - 1) + 1
    OBVIOUS
  <2>3. k \in Nat /\ k = (h - 1) * m + m /\ (h - 1) * m \in Nat
    BY <1>2, <2>1, <2>2
  <2>4. (2 * h) * (2 * h) = 2 * (h * (2 * h))
    OBVIOUS
  <2>5. k >= m
    <3> DEFINE i == (h - 1) * m
    <3>1. i \in Nat /\ k = i + m
      BY <2>3
    <3> HIDE DEF i, k, m
    <3> QED
      BY <1>2, <3>1
  <2> QED
    BY <1>1, <2>3, <2>4, <2>5
<1>4. half \in Int /\ 2 * half <= d /\ d <= 2 * half + 1
  BY <1>2
<1>5. -h <= half /\ half < h
  BY <1>2, <1>4
<1>6. CASE d >= 0
  <2>1. (0 * (2 * k) + d) % (2 * k) = d
    <3>1. 2 * k \in Nat \ {0} /\ d \in 0 .. 2 * k - 1
      <4> HIDE DEF k, m, d
      <4> QED
        BY <1>2, <1>3, <1>6, <1>1 DEF m
    <3> HIDE DEF k, d
    <3> QED
      BY <3>1, Remainder
  <2>2. SizeT(d) = d
    <3>1. 0 * (2 * k) + d = d
      <4> HIDE DEF k, d
      <4> QED
        BY <1>2, <1>3
    <3> QED
      BY <1>3, <2>1, <3>1 DEF SizeT
  <2>3. half \in 0 .. h - 1
    BY <1>4, <1>5, <1>6
  <2>4. half % m = half
    BY <2>3
  <2>5. ToInt(half) = half
    BY <1>1, <2>3, <2>4 DEF ToInt
  <2> QED
    BY <2>2, <2>5 DEF Centre
<1>7. CASE d < 0
  <2>1. (-1 * (2 * k) + (d + 2 * k)) % (2 * k) = d + 2 * k
    <3>1. 2 * k \in Nat \ {0} /\ d + 2 * k \in 0 .. 2 * k - 1 /\ -1 \in Int
      <4> HIDE DEF k, m, d
      <4> QED
        BY <1>2, <1>3, <1>7, <1>1 DEF m
    <3> DEFINE n == 2 * k
               r == d + n
    <3>2. n \in Nat \ {0} /\ r \in 0 .. n - 1
      BY <3>1
    <3> HIDE DEF n, r
    <3>3. (-1 * n + r) % n = r
      BY <3>2, Remainder
    <3> QED
      BY <3>3 DEF n, r
  <2>2. SizeT(d) = d + 2 * k
    <3>1. -1 * (2 * k) + (d + 2 * k) = d
      <4> HIDE DEF k, d
      <4> QED
        BY <1>2, <1>3
    <3> QED
      BY <1>3, <2>1, <3>1 DEF SizeT
  <2>3. (d + 2 * k) \div 2 = half + k
    <3>1. \A i, j \in Int : (i + 2 * j) \div 2 = i \div 2 + j
      OBVIOUS
    <3> HIDE DEF k, d
    <3> QED
      BY <1>2, <1>3, <3>1
  <2>4. half + k = (h - 1) * m + (m + half)
    <3>1. h * (2 * h) = (h - 1) * (2 * h) + 2 * h /\ (h - 1) * (2 * h) \in Int
      OBVIOUS
    <3> DEFINE i == (h - 1) * m
    <3>2. k = i + m /\ i \in Int
      BY <3>1
    <3> HIDE DEF i, k, m, half
    <3>3. half + k = i + (m + half)
      BY <1>2, <1>4, <3>2
    <3> QED
      BY <3>3 DEF i
  <2>5. half \in -h .. -1 /\ m + half \in h .. m - 1
    BY <1>4, <1>5, <1>7
  <2>6. (half + k) % m = m + half
    <3> DEFINE r == m + half
               q == h - 1
    <3>1. m \in Nat \ {0} /\ r \in 0 .. m - 1 /\ q \in Int
      BY <1>2, <2>5
    <3>2. half + k = q * m + r
      BY <2>4
    <3> HIDE DEF r, q, m, k, half
    <3>3. (q * m + r) % m = r
      BY <3>1, Remainder
    <3>4. (half + k) % m = r
      BY <3>2, <3>3
    <3> QED
      BY <3>4 DEF r
  <2>7. ToInt(half + k) = half
    <3>1. (half + k) % Ints = m + half
      BY <1>1, <2>6
    <3> HIDE DEF k, half
    <3> QED
      BY <1>1, <2>5, <3>1 DEF ToInt
  <2> QED
    <3>1. Centre(width, size) = ToInt(half + k)
      BY <2>2, <2>3 DEF Centre
    <3> QED
      BY <2>7, <3>1
<1> QED
  BY <1>2, <1>6, <1>7

(* The step of Place for a text without x.                                 *)
LEMMA PlaceCentres ==
  ASSUME TextOK, WindowOK, Place, coords.x = <<>>
  PROVE  LET right == window.width - window'.x - Len(format_str)
             fits == /\ Len(format_str) <= window.width
                     /\ coords.y = <<>> \/ coords.y[1] < window.height
         IN IF fits THEN right - window'.x \in {0, 1} ELSE window' = window
<1>1. PICK old \in Window : old = window /\ old.y < old.height /\ old.x < old.width
  BY DEF WindowOK
<1>2. PICK h \in Nat \ {0} : Ints = 2 * h /\ Ints \div 2 = h
  BY Halves
<1>3. /\ old.height \in 1 .. h - 1 /\ old.width \in 1 .. h - 1
      /\ old.y \in Nat /\ old.x \in Nat
  BY <1>1, <1>2 DEF Window
<1>4. PICK size \in 0 .. Ints : size = Len(format_str)
  <2>1. Len(format_str) \in Nat /\ Len(to_parse) \in Nat /\ Len(args) * MaxLength \in Nat
    <3>1. Len(format_str) \in Nat /\ Len(to_parse) \in Nat /\ Len(args) \in Nat
      BY LenType DEF TextOK
    <3>2. \A i, j \in Nat : i * j \in Nat
      OBVIOUS
    <3> QED
      BY <3>1, <3>2, Numbers
  <2> DEFINE a == Len(args) * MaxLength
  <2>2. Len(format_str) + Len(to_parse) + a <= Ints /\ a \in Nat
    BY <2>1 DEF TextOK
  <2> HIDE DEF a
  <2> QED
    BY <2>1, <2>2, Numbers
<1> DEFINE x == Centre(old.width, size)
           y == IF coords.y # <<>> THEN coords.y[1] ELSE old.y
<1>5. x = (old.width - size) \div 2
  BY <1>2, <1>3, CentreHalves
<1>6. window' = IF y \in 0 .. old.height - 1 /\ x \in 0 .. old.width - 1
                THEN [old EXCEPT !.y = y, !.x = x] ELSE old
  BY <1>1, <1>4 DEF Place, move_cursor, max_yx, current_yx
<1>7. coords.y = <<>> \/ coords.y = <<1>>
  BY DEF TextOK, Wheres
<1>8. y \in 0 .. old.height - 1 <=> coords.y = <<>> \/ coords.y[1] < old.height
  <2>1. CASE coords.y = <<>>
    <3>1. y = old.y
      BY <2>1
    <3> HIDE DEF y
    <3> QED
      BY <1>1, <1>3, <2>1, <3>1
  <2>2. CASE coords.y = <<1>>
    <3>1. y = 1 /\ coords.y[1] = 1 /\ coords.y # <<>>
      BY <2>2
    <3> HIDE DEF y
    <3> QED
      BY <1>3, <3>1
  <2> QED
    BY <1>7, <2>1, <2>2
<1> HIDE DEF x, y
<1>9. /\ x \in Int /\ old.width \in Int /\ size \in Int
      /\ old.width - size = 2 * x \/ old.width - size = 2 * x + 1
  <2>1. old.width \in Int /\ size \in Int
    BY <1>2, <1>3
  <2>2. \A n \in Int : n \div 2 \in Int /\ (n = 2 * (n \div 2) \/ n = 2 * (n \div 2) + 1)
    OBVIOUS
  <2>3. old.width - size \in Int
    BY <2>1
  <2> QED
    BY <1>5, <2>1, <2>2, <2>3
<1>10. /\ x \in 0 .. old.width - 1 <=> size <= old.width
       /\ size <= old.width => (old.width - x - size) - x \in {0, 1}
  <2>1. old.width >= 1 /\ size >= 0
    BY <1>2, <1>3
  <2>2. x \in 0 .. old.width - 1 <=> 0 <= x /\ x <= old.width - 1
    BY <1>9
  <2>3. (old.width - x - size) - x = (old.width - size) - 2 * x
    BY <1>9
  <2> QED
    BY ONLY <1>9, <2>1, <2>2, <2>3
<1>11. CASE size <= old.width /\ (coords.y = <<>> \/ coords.y[1] < old.height)
  <2>1. window' = [old EXCEPT !.y = y, !.x = x]
    BY <1>6, <1>8, <1>10, <1>11
  <2>2. window'.x = x
    BY <2>1 DEF Window
  <2> QED
    BY <1>1, <1>4, <1>10, <1>11, <2>2
<1>12. CASE ~(size <= old.width /\ (coords.y = <<>> \/ coords.y[1] < old.height))
  <2>1. window' = old
    BY <1>6, <1>8, <1>10, <1>12
  <2> QED
    BY <1>1, <1>4, <1>12, <2>1
<1> QED
  BY <1>11, <1>12

(* A text without x that fits is in the middle; the difference of sizes of *)
(* one that does not wraps around in a size_t, and half of that, as an     *)
(* int, is a column curses refuses: whatever widths an int and a size_t    *)
(* have, as long as the text can be counted (print.hpp:42-71).             *)
THEOREM TextsAreCentred == Spec => CentredOrRefused
<1>1. TextOK /\ WindowOK /\ [Next]_vars =>
        [(pc = "place" /\ pc' = "print" /\ coords.x = <<>>) =>
           LET right == window.width - window'.x - Len(format_str)
               fits == /\ Len(format_str) <= window.width
                       /\ coords.y = <<>> \/ coords.y[1] < window.height
           IN IF fits THEN right - window'.x \in {0, 1} ELSE window' = window]_vars
  <2> SUFFICES ASSUME TextOK, WindowOK, [Next]_vars,
                      pc = "place", pc' = "print", coords.x = <<>>
               PROVE  LET right == window.width - window'.x - Len(format_str)
                          fits == /\ Len(format_str) <= window.width
                                  /\ coords.y = <<>> \/ coords.y[1] < window.height
                      IN IF fits THEN right - window'.x \in {0, 1} ELSE window' = window
    OBVIOUS
  <2>1. Place
    BY DEF Next, vars, Format, Parse, ParseArg, ParseNoArg, ParseRunsAway, PrintGlyph, EndPrint,
           Destroy
  <2> QED
    BY <2>1, PlaceCentres
<1> QED
  BY <1>1, FormatInvariant, PTL DEF Spec, CentredOrRefused

-----------------------------------------------------------------------------
(* What a text looks like                                                  *)

Cells == {Shown(g) : g \in AGlyph}

LEMMA SameSequence ==
  ASSUME NEW S, NEW T, NEW s \in Seq(S), NEW t \in Seq(T), Len(s) = Len(t), SameUpTo(Len(s), s, t)
  PROVE  s = t
BY DEF SameUpTo

LEMMA ConcatAt ==
  ASSUME NEW S, NEW a \in Seq(S), NEW b \in Seq(S), NEW i \in 1 .. Len(a) + Len(b)
  PROVE  /\ i <= Len(a) => i \in 1 .. Len(a) /\ (a \o b)[i] = a[i]
         /\ i > Len(a) => i - Len(a) \in 1 .. Len(b) /\ (a \o b)[i] = b[i - Len(a)]
         /\ i <= Len(a) \/ i > Len(a)
OBVIOUS

LEMMA Cancel ==
  ASSUME NEW S, NEW a \in Seq(S), NEW b \in Seq(S), NEW c \in Seq(S), a \o b = a \o c
  PROVE  b = c
<1>1. Len(a) \in Nat /\ Len(b) \in Nat /\ Len(c) \in Nat
  BY LenType
<1>2. Len(a \o b) = Len(a) + Len(b) /\ Len(a \o c) = Len(a) + Len(c)
  BY ConcatType
<1>3. Len(b) = Len(c)
  BY <1>1, <1>2
<1>4. ASSUME NEW i \in 1 .. Len(b) PROVE b[i] = c[i]
  <2>1. PICK n : n = Len(a) + i
    OBVIOUS
  <2>2. n \in 1 .. Len(a) + Len(b) /\ n > Len(a) /\ n - Len(a) = i
    BY <1>1, <2>1
  <2>3. (a \o b)[n] = b[i] /\ (a \o c)[n] = c[i]
    BY <1>3, <2>2, ConcatAt
  <2> QED
    BY <2>3
<1> QED
  BY <1>3, <1>4, SameSequence DEF SameUpTo

LEMMA Associate ==
  ASSUME NEW S, NEW a \in Seq(S), NEW b \in Seq(S), NEW c \in Seq(S)
  PROVE  (a \o b) \o c = a \o (b \o c)
OBVIOUS

Associates(a, b, c) == (a \o b) \o c = a \o (b \o c)

LEMMA AllAssociate ==
  ASSUME NEW S, NEW a \in Seq(S), NEW b \in Seq(S), NEW c \in Seq(S)
  PROVE  Associates(a, b, c)
BY Associate DEF Associates

LEMMA Split ==
  ASSUME NEW S, NEW a \in Seq(S), NEW b \in Seq(S), NEW s, s = a \o b
  PROVE  /\ SubSeq(s, 1, Len(a)) = a
         /\ SubSeq(s, Len(a) + 1, Len(s)) = b
OBVIOUS

LEMMA Grow ==
  ASSUME NEW S, NEW s \in Seq(S), NEW k \in Nat, k < Len(s)
  PROVE  /\ SubSeq(s, 1, k) \in Seq(S) /\ s[k + 1] \in S
         /\ SubSeq(s, 1, k + 1) = Append(SubSeq(s, 1, k), s[k + 1])
<1>1. Len(s) \in Nat /\ k + 1 \in 1 .. Len(s)
  OBVIOUS
<1> QED
  BY <1>1

(* A character that the first part has not is found where the second       *)
(* begins, or nowhere.                                                     *)
LEMMA FindBehind ==
  ASSUME NEW a \in Seq(STRING), NEW b \in Seq(STRING), NEW ch,
         \A i \in 1 .. Len(a) : a[i] # ch
  PROVE  /\ b = <<>> => Find(ch, a \o b) = 0
         /\ b # <<>> /\ b[1] = ch => Find(ch, a \o b) = Len(a) + 1
<1>1. PICK s \in Seq(STRING) : s = a \o b
  BY ConcatType
<1>2. PICK p \in 0 .. Len(s) :
        /\ p = Find(ch, s)
        /\ \A i \in 1 .. Len(s) : s[i] = ch => p \in 1 .. i
        /\ p # 0 => s[p] = ch
  BY FindFirst
<1>3. /\ Len(a) \in Nat /\ Len(b) \in Nat /\ Len(s) = Len(a) + Len(b)
      /\ \A i \in 1 .. Len(a) : s[i] = a[i]
      /\ b # <<>> => Len(b) >= 1 /\ s[Len(a) + 1] = b[1]
      /\ b = <<>> => Len(b) = 0
  BY <1>1
<1>4. p = 0 \/ p > Len(a)
  BY <1>2, <1>3
<1>5. CASE b = <<>>
  BY <1>1, <1>2, <1>3, <1>4, <1>5
<1>6. CASE b # <<>> /\ b[1] = ch
  <2>1. Len(a) + 1 \in 1 .. Len(s) /\ s[Len(a) + 1] = ch
    BY <1>3, <1>6
  <2>2. p \in 1 .. Len(a) + 1
    BY <1>2, <2>1
  <2>3. p = Len(a) + 1
    BY <1>3, <1>4, <2>2
  <2> QED
    BY <1>1, <1>2, <1>6, <2>3
<1> QED
  BY <1>5, <1>6

(* A character that only the end of the first part is is found there.      *)
LEMMA FindLast ==
  ASSUME NEW a \in Seq(STRING), NEW b \in Seq(STRING), NEW ch,
         a # <<>>, a[Len(a)] = ch, \A i \in 1 .. Len(a) - 1 : a[i] # ch
  PROVE  Find(ch, a \o b) = Len(a)
<1>1. PICK s \in Seq(STRING) : s = a \o b
  BY ConcatType
<1>2. PICK p \in 0 .. Len(s) :
        /\ p = Find(ch, s)
        /\ \A i \in 1 .. Len(s) : s[i] = ch => p \in 1 .. i
        /\ p # 0 => s[p] = ch
  BY FindFirst
<1>3. /\ Len(a) \in Nat \ {0} /\ Len(b) \in Nat /\ Len(s) = Len(a) + Len(b)
      /\ \A i \in 1 .. Len(a) : s[i] = a[i]
  BY <1>1
<1>4. Len(a) \in 1 .. Len(s) /\ s[Len(a)] = ch
  <2>1. Len(a) \in 1 .. Len(s) /\ Len(a) \in 1 .. Len(a)
    BY <1>3
  <2> QED
    BY <1>3, <2>1
<1>5. p \in 1 .. Len(a)
  BY <1>2, <1>4
<1>6. ~(p \in 1 .. Len(a) - 1)
  BY <1>2, <1>3, <1>5
<1> QED
  BY <1>1, <1>2, <1>3, <1>5, <1>6

LEMMA RenderedType ==
  ASSUME NEW glyphs \in Seq(AGlyph)
  PROVE  /\ Rendered(glyphs) \in Seq(Cells) /\ Len(Rendered(glyphs)) = Len(glyphs)
         /\ \A i \in 1 .. Len(glyphs) : Rendered(glyphs)[i] = Shown(glyphs[i])
<1>1. Rendered(glyphs) = [i \in 1 .. Len(glyphs) |-> Shown(glyphs[i])]
  BY DEF Rendered, Shown
<1>2. \A i \in 1 .. Len(glyphs) : Shown(glyphs[i]) \in Cells
  <2>1. \A i \in 1 .. Len(glyphs) : glyphs[i] \in AGlyph
    OBVIOUS
  <2> QED
    BY <2>1 DEF Cells
<1>3. Len(glyphs) \in Nat
  BY LenType
<1> QED
  BY <1>1, <1>2, <1>3

LEMMA RenderedConcat ==
  ASSUME NEW f \in Seq(AGlyph), NEW g \in Seq(AGlyph)
  PROVE  Rendered(f \o g) = Rendered(f) \o Rendered(g)
<1>1. PICK h \in Seq(AGlyph) : h = f \o g
  BY ConcatType
<1>2. PICK rf \in Seq(Cells) : /\ rf = Rendered(f) /\ Len(rf) = Len(f)
                               /\ \A i \in 1 .. Len(f) : rf[i] = Shown(f[i])
  BY RenderedType
<1>3. PICK rg \in Seq(Cells) : /\ rg = Rendered(g) /\ Len(rg) = Len(g)
                               /\ \A i \in 1 .. Len(g) : rg[i] = Shown(g[i])
  BY RenderedType
<1>4. PICK rh \in Seq(Cells) : /\ rh = Rendered(h) /\ Len(rh) = Len(h)
                               /\ \A i \in 1 .. Len(h) : rh[i] = Shown(h[i])
  BY RenderedType
<1>5. Len(f) \in Nat /\ Len(g) \in Nat /\ Len(h) = Len(f) + Len(g)
  BY <1>1
<1>6. ASSUME NEW i \in 1 .. Len(h) PROVE rh[i] = (rf \o rg)[i]
  <2>1. i \in 1 .. Len(f) + Len(g) /\ i \in 1 .. Len(rf) + Len(rg)
    BY <1>2, <1>3, <1>5
  <2>2. CASE i <= Len(f)
    <3>1. i \in 1 .. Len(f) /\ h[i] = f[i]
      BY <1>1, <2>1, <2>2, ConcatAt
    <3>2. (rf \o rg)[i] = rf[i]
      BY <1>2, <2>1, <2>2, ConcatAt
    <3> QED
      BY <1>2, <1>4, <3>1, <3>2
  <2>3. CASE i > Len(f)
    <3>1. i - Len(f) \in 1 .. Len(g) /\ h[i] = g[i - Len(f)]
      BY <1>1, <2>1, <2>3, ConcatAt
    <3>2. (rf \o rg)[i] = rg[i - Len(f)]
      BY <1>2, <2>1, <2>3, ConcatAt
    <3> QED
      BY <1>3, <1>4, <3>1, <3>2
  <2> QED
    BY <2>1, <2>2, <2>3, ConcatAt
<1>7. rh = rf \o rg
  <2>1. rf \o rg \in Seq(Cells) /\ Len(rf \o rg) = Len(rh)
    <3>1. rf \o rg \in Seq(Cells) /\ Len(rf \o rg) = Len(rf) + Len(rg)
      BY ConcatType
    <3> QED
      BY <1>2, <1>3, <1>4, <1>5, <3>1
  <2>2. SameUpTo(Len(rh), rh, rf \o rg)
    BY <1>4, <1>6 DEF SameUpTo
  <2> QED
    BY <2>1, <2>2, SameSequence
<1> QED
  BY <1>1, <1>2, <1>3, <1>4, <1>7

Plain(text) == Glyphs(text, "white", {})

LEMMA PlainType ==
  ASSUME NEW text \in Seq(STRING)
  PROVE  /\ Plain(text) \in Seq(AGlyph) /\ Len(Plain(text)) = Len(text)
         /\ \A i \in 1 .. Len(text) : Plain(text)[i] = Glyph(text[i], "white", {})
         /\ Rendered(Plain(text)) = Looks(text, "white", {})
<1>1. "white" \in Colors /\ {} \in SUBSET Attributes
  BY DEF Colors
<1>2. /\ Plain(text) \in Seq(AGlyph) /\ Len(Plain(text)) = Len(text)
      /\ \A i \in 1 .. Len(text) : Plain(text)[i] = Glyph(text[i], "white", {})
  BY <1>1, GlyphsType DEF Plain
<1>3. Rendered(Plain(text)) = Looks(text, "white", {})
  BY <1>1, RenderedGlyphs DEF Plain
<1> QED
  BY <1>2, <1>3

LEMMA PlainConcat ==
  ASSUME NEW a \in Seq(STRING), NEW b \in Seq(STRING)
  PROVE  Plain(a \o b) = Plain(a) \o Plain(b)
<1>1. PICK c \in Seq(STRING) : c = a \o b
  BY ConcatType
<1>2. PICK pa \in Seq(AGlyph) : /\ pa = Plain(a) /\ Len(pa) = Len(a)
                                /\ \A i \in 1 .. Len(a) : pa[i] = Glyph(a[i], "white", {})
  BY PlainType
<1>3. PICK pb \in Seq(AGlyph) : /\ pb = Plain(b) /\ Len(pb) = Len(b)
                                /\ \A i \in 1 .. Len(b) : pb[i] = Glyph(b[i], "white", {})
  BY PlainType
<1>4. PICK both \in Seq(AGlyph) : /\ both = Plain(c) /\ Len(both) = Len(c)
                                  /\ \A i \in 1 .. Len(c) : both[i] = Glyph(c[i], "white", {})
  BY PlainType
<1>5. Len(a) \in Nat /\ Len(b) \in Nat /\ Len(c) = Len(a) + Len(b)
  BY <1>1
<1>6. ASSUME NEW i \in 1 .. Len(c) PROVE both[i] = (pa \o pb)[i]
  <2>1. i \in 1 .. Len(a) + Len(b) /\ i \in 1 .. Len(pa) + Len(pb)
    BY <1>2, <1>3, <1>5
  <2>2. CASE i <= Len(a)
    <3>1. i \in 1 .. Len(a) /\ c[i] = a[i]
      BY <1>1, <2>1, <2>2, ConcatAt
    <3>2. (pa \o pb)[i] = pa[i]
      BY <1>2, <2>1, <2>2, ConcatAt
    <3> QED
      BY <1>2, <1>4, <3>1, <3>2
  <2>3. CASE i > Len(a)
    <3>1. i - Len(a) \in 1 .. Len(b) /\ c[i] = b[i - Len(a)]
      BY <1>1, <2>1, <2>3, ConcatAt
    <3>2. (pa \o pb)[i] = pb[i - Len(a)]
      BY <1>2, <2>1, <2>3, ConcatAt
    <3> QED
      BY <1>3, <1>4, <3>1, <3>2
  <2> QED
    BY <2>1, <2>2, <2>3, ConcatAt
<1>7. both = pa \o pb
  <2>1. pa \o pb \in Seq(AGlyph) /\ Len(pa \o pb) = Len(both)
    <3>1. pa \o pb \in Seq(AGlyph) /\ Len(pa \o pb) = Len(pa) + Len(pb)
      BY ConcatType
    <3> QED
      BY <1>2, <1>3, <1>4, <1>5, <3>1
  <2>2. SameUpTo(Len(both), both, pa \o pb)
    BY <1>4, <1>6 DEF SameUpTo
  <2> QED
    BY <2>1, <2>2, SameSequence
<1> QED
  BY <1>1, <1>2, <1>3, <1>4, <1>7

(* The text of the first pieces, and what they are to look like.           *)
Text(k) == FlattenSeq(SubSeq(pieces, 1, k))
Shows(k) == FlattenSeq([i \in 1 .. k |-> LooksOfPiece(i)])

LEMMA PieceType ==
  ASSUME TextOK
  PROVE  /\ Len(pieces) \in Nat /\ DOMAIN pieces = 1 .. Len(pieces)
         /\ \A i \in 1 .. Len(pieces) : pieces[i] \in Pieces /\ pieces[i] \in Seq(STRING)
         /\ pieces \in Seq(Seq(STRING))
         /\ Len(arguments) \in Nat
         /\ \A i \in 1 .. Len(arguments) : arguments[i] \in Seq(STRING)
<1>1. pieces \in Seq(Pieces) /\ arguments \in Seq(Arguments)
  BY DEF TextOK
<1>2. Pieces \in SUBSET Seq(STRING) /\ Arguments \in SUBSET Seq(STRING)
  BY Texts
<1> QED
  BY <1>1, <1>2

LEMMA TextGrows ==
  ASSUME TextOK, NEW k \in Nat, k < Len(pieces)
  PROVE  Text(k) \in Seq(STRING) /\ Text(k + 1) = Text(k) \o pieces[k + 1]
<1>1. pieces \in Seq(Seq(STRING))
  BY PieceType
<1>2. PICK front \in Seq(Seq(STRING)) : front = SubSeq(pieces, 1, k)
  BY <1>1, Grow
<1>3. PICK piece \in Seq(STRING) : piece = pieces[k + 1]
  BY <1>1, Grow
<1>4. SubSeq(pieces, 1, k + 1) = Append(front, piece)
  BY <1>1, <1>2, <1>3, Grow
<1>5. FlattenSeq(Append(front, piece)) = FlattenSeq(front) \o piece
  BY FlattenAppend
<1>6. FlattenSeq(front) \in Seq(STRING)
  BY FlattenType
<1> QED
  BY <1>2, <1>3, <1>4, <1>5, <1>6 DEF Text

LEMMA TextEnds ==
  ASSUME TextOK
  PROVE  /\ Text(0) = <<>> /\ Text(Len(pieces)) = FlattenSeq(pieces)
         /\ \A k \in 0 .. Len(pieces) : Text(k) \in Seq(STRING)
<1>1. pieces \in Seq(Seq(STRING)) /\ Len(pieces) \in Nat
  BY PieceType
<1>2. SubSeq(pieces, 1, 0) = <<>> /\ SubSeq(pieces, 1, Len(pieces)) = pieces
  BY <1>1
<1>3. Text(0) = <<>> /\ Text(Len(pieces)) = FlattenSeq(pieces)
  BY <1>2, FlattenNone DEF Text
<1>4. ASSUME NEW k \in 0 .. Len(pieces) PROVE Text(k) \in Seq(STRING)
  <2>1. PICK front \in Seq(Seq(STRING)) : front = SubSeq(pieces, 1, k)
    <3>1. CASE k < Len(pieces)
      <4>1. k \in Nat
        OBVIOUS
      <4>2. SubSeq(pieces, 1, k) \in Seq(Seq(STRING))
        BY <1>1, <3>1, <4>1, Grow
      <4> QED
        BY <4>2
    <3>2. CASE k = Len(pieces)
      BY <1>1, <1>2, <3>2
    <3> QED
      BY <1>1, <3>1, <3>2
  <2> QED
    BY <2>1, FlattenType DEF Text
<1> QED
  BY <1>3, <1>4

(* A text begins with the text of its first pieces.                        *)
LEMMA TextRest ==
  ASSUME TextOK, NEW k \in 0 .. Len(pieces)
  PROVE  \E rest \in Seq(STRING) : Text(Len(pieces)) = Text(k) \o rest
<1> DEFINE Q == {n \in Nat : n \in k .. Len(pieces) =>
                    \E rest \in Seq(STRING) : Text(n) = Text(k) \o rest}
<1>1. Len(pieces) \in Nat /\ Text(k) \in Seq(STRING)
  BY PieceType, TextEnds
<1>2. \E rest \in Seq(STRING) : Text(k) = Text(k) \o rest
  <2>1. Text(k) = Text(k) \o <<>> /\ <<>> \in Seq(STRING)
    BY <1>1
  <2> QED
    BY <2>1, Zenon
<1>3. 0 \in Q
  <2>1. 0 \in k .. Len(pieces) => k = 0
    OBVIOUS
  <2> QED
    BY <1>2, <2>1
<1>4. ASSUME NEW n \in Q PROVE n + 1 \in Q
  <2> SUFFICES ASSUME n + 1 \in k .. Len(pieces)
               PROVE  \E rest \in Seq(STRING) : Text(n + 1) = Text(k) \o rest
    OBVIOUS
  <2>1. CASE k = n + 1
    BY <1>2, <2>1
  <2>2. CASE k # n + 1
    <3>1. n \in Nat /\ n \in k .. Len(pieces) /\ n < Len(pieces) /\ n + 1 \in 1 .. Len(pieces)
      BY <1>1, <2>2
    <3>2. PICK rest \in Seq(STRING) : Text(n) = Text(k) \o rest
      BY <3>1
    <3>3. PICK piece \in Seq(STRING) : piece = pieces[n + 1]
      BY <3>1, PieceType
    <3>4. Text(n + 1) = (Text(k) \o rest) \o piece
      BY <3>1, <3>2, <3>3, TextGrows
    <3>5. (Text(k) \o rest) \o piece = Text(k) \o (rest \o piece)
      BY <1>1, Associate
    <3>6. rest \o piece \in Seq(STRING)
      BY ConcatType
    <3> QED
      BY <3>4, <3>5, <3>6
  <2> QED
    BY <2>1, <2>2
<1>5. Q = Nat
  <2>1. Q \in SUBSET Nat
    OBVIOUS
  <2> HIDE DEF Q
  <2> QED
    BY <1>3, <1>4, <2>1, NatSetInduction
<1> QED
  BY <1>1, <1>5

(* Fields are counted as they come.                                        *)
LEMMA FieldsCount ==
  /\ FieldsBefore(1) = 0
  /\ \A k \in Nat :
       /\ FieldsBefore(k + 1) \in Nat
       /\ FieldsBefore((k + 1) + 1) =
            IF IsField(pieces[k + 1]) THEN FieldsBefore(k + 1) + 1 ELSE FieldsBefore(k + 1)
<1> DEFINE F(k) == {j \in 1 .. k : IsField(pieces[j])}
<1>1. \A k \in Nat : IsFiniteSet(F(k)) /\ FieldsBefore(k + 1) = Cardinality(F(k))
  <2> SUFFICES ASSUME NEW k \in Nat
               PROVE  IsFiniteSet(F(k)) /\ FieldsBefore(k + 1) = Cardinality(F(k))
    OBVIOUS
  <2>1. F(k) \subseteq 1 .. k /\ IsFiniteSet(1 .. k)
    BY FS_Interval
  <2>2. IsFiniteSet(F(k))
    BY <2>1, FS_Subset
  <2>3. (k + 1) - 1 = k
    OBVIOUS
  <2> QED
    BY <2>2, <2>3 DEF FieldsBefore
<1>2. FieldsBefore(1) = 0
  <2>1. F(0) = {} /\ 0 + 1 = 1
    OBVIOUS
  <2> QED
    BY <1>1, <2>1, FS_EmptySet
<1>3. ASSUME NEW k \in Nat
      PROVE  /\ FieldsBefore(k + 1) \in Nat
             /\ FieldsBefore((k + 1) + 1) =
                  IF IsField(pieces[k + 1]) THEN FieldsBefore(k + 1) + 1 ELSE FieldsBefore(k + 1)
  <2>1. FieldsBefore(k + 1) = Cardinality(F(k)) /\ IsFiniteSet(F(k))
    BY <1>1
  <2>2. FieldsBefore((k + 1) + 1) = Cardinality(F(k + 1))
    BY <1>1
  <2>3. FieldsBefore(k + 1) \in Nat
    BY <2>1, FS_CardinalityType
  <2>4. CASE IsField(pieces[k + 1])
    <3>1. F(k + 1) = F(k) \cup {k + 1} /\ k + 1 \notin F(k)
      BY <2>4
    <3>2. Cardinality(F(k + 1)) = Cardinality(F(k)) + 1
      BY <2>1, <3>1, FS_AddElement
    <3> QED
      BY <2>1, <2>2, <2>3, <2>4, <3>2
  <2>5. CASE ~IsField(pieces[k + 1])
    <3>1. F(k + 1) = F(k)
      BY <2>5
    <3> QED
      BY <2>1, <2>2, <2>3, <2>5, <3>1
  <2> QED
    BY <2>4, <2>5
<1> QED
  BY <1>2, <1>3

(* A piece that takes part has something to look like.                     *)
LEMMA LooksType ==
  ASSUME TextOK, NEW i \in 1 .. Len(pieces), TakesPart(i)
  PROVE  LooksOfPiece(i) \in Seq(Cells)
<1>1. PICK piece \in Seq(STRING) : piece = pieces[i]
  BY PieceType
<1>2. CASE IsField(pieces[i])
  <2>1. i \in 1 .. i
    BY PieceType
  <2>2. FieldsBefore(i) < Len(arguments)
    BY <1>2, <2>1 DEF TakesPart
  <2>3. FieldsBefore(i) \in Nat
    <3>1. i - 1 \in Nat /\ (i - 1) + 1 = i
      BY PieceType
    <3> QED
      BY <3>1, FieldsCount
  <2>4. FieldsBefore(i) + 1 \in 1 .. Len(arguments)
    BY <2>2, <2>3, PieceType
  <2>5. PICK arg \in Seq(STRING) : arg = arguments[FieldsBefore(i) + 1]
    BY <2>4, PieceType
  <2>6. LooksOfPiece(i) = Rendered(Styled(piece, arg))
    BY <1>1, <1>2, <2>5, FieldLooks DEF LooksOfPiece
  <2>7. ColorOf(piece) \in Colors /\ AttributesOf(piece) \in SUBSET Attributes
    BY StyleType
  <2>8. Styled(piece, arg) \in Seq(AGlyph)
    BY <2>7, GlyphsType DEF Styled
  <2> QED
    BY <2>6, <2>8, RenderedType
<1>3. CASE ~IsField(pieces[i])
  <2>1. LooksOfPiece(i) = Rendered(Plain(piece)) /\ Plain(piece) \in Seq(AGlyph)
    BY <1>1, <1>3, PlainType DEF LooksOfPiece
  <2> QED
    BY <2>1, RenderedType
<1> QED
  BY <1>2, <1>3

LEMMA ShowsGrows ==
  ASSUME TextOK, NEW k \in Nat, k < Len(pieces), TakesPart(k + 1)
  PROVE  Shows(k) \in Seq(Cells) /\ Shows(k + 1) = Shows(k) \o LooksOfPiece(k + 1)
<1>1. ASSUME NEW i \in 1 .. k + 1 PROVE LooksOfPiece(i) \in Seq(Cells)
  <2>1. i \in 1 .. Len(pieces) /\ \A j \in 1 .. i : j \in 1 .. k + 1
    BY PieceType
  <2>2. TakesPart(i)
    BY <2>1 DEF TakesPart
  <2> QED
    BY <2>1, <2>2, LooksType
<1>2. PICK look \in Seq(Cells) : look = LooksOfPiece(k + 1)
  BY <1>1
<1>3. PICK front : front = [i \in 1 .. k |-> LooksOfPiece(i)]
  OBVIOUS
<1>4. front \in Seq(Seq(Cells)) /\ Len(front) = k
  <2>1. \A i \in 1 .. k : LooksOfPiece(i) \in Seq(Cells)
    BY <1>1
  <2>2. front \in [1 .. k -> Seq(Cells)]
    BY <1>3, <2>1
  <2> QED
    BY <2>2
<1>5. [i \in 1 .. k + 1 |-> LooksOfPiece(i)] = Append(front, look)
  <2>1. PICK all : all = [i \in 1 .. k + 1 |-> LooksOfPiece(i)]
    OBVIOUS
  <2>2. all \in [1 .. k + 1 -> Seq(Cells)]
    BY <1>1, <2>1
  <2>3. all \in Seq(Seq(Cells)) /\ Len(all) = k + 1
    BY <2>2
  <2>4. Append(front, look) \in Seq(Seq(Cells)) /\ Len(Append(front, look)) = k + 1
    BY <1>4
  <2>5. ASSUME NEW i \in 1 .. k + 1 PROVE all[i] = Append(front, look)[i]
    <3>1. CASE i = k + 1
      BY <1>2, <1>4, <2>1, <3>1
    <3>2. CASE i # k + 1
      <4>1. i \in 1 .. k
        BY <3>2
      <4>2. all[i] = LooksOfPiece(i) /\ front[i] = LooksOfPiece(i)
        BY <1>3, <2>1, <4>1
      <4>3. Append(front, look)[i] = front[i]
        BY <1>4, <4>1
      <4> QED
        BY <4>2, <4>3
    <3> QED
      BY <3>1, <3>2
  <2>6. all = Append(front, look)
    BY <2>3, <2>4, <2>5, SameSequence DEF SameUpTo
  <2> QED
    BY <2>1, <2>6
<1>6. FlattenSeq(Append(front, look)) = FlattenSeq(front) \o look /\ FlattenSeq(front) \in Seq(Cells)
  BY <1>4, FlattenAppend, FlattenType
<1> QED
  BY <1>2, <1>3, <1>5, <1>6 DEF Shows

-----------------------------------------------------------------------------
(* The parser                                                              *)

(* The first k pieces have been parsed.                                    *)
ParsedTo(k, rest, left, glyphs) ==
  /\ TakesPart(k)
  /\ Text(k) \o rest = Text(Len(pieces))
  /\ FieldsBefore(k + 1) + Len(left) = Len(arguments)
  /\ \A i \in 1 .. Len(left) : left[i] = arguments[FieldsBefore(k + 1) + i]
  /\ Rendered(glyphs) = Shows(k)

AtField(k) == k < Len(pieces) /\ IsField(pieces[k + 1])

ParsedOK ==
  ClosesItsFields =>
    /\ pc # "undefined"
    /\ pc = "parse" =>
         \E k \in 0 .. Len(pieces) : ParsedTo(k, to_parse, args, format_str)
    /\ pc = "parse_arg" =>
         \E k \in 0 .. Len(pieces) : ParsedTo(k, to_parse, args, format_str) /\ AtField(k)
    /\ pc \in {"place", "print", "printed"} =>
         Rendered(format_str) = Shows(Cardinality(Parts))

LEMMA ShowsType ==
  ASSUME TextOK, NEW k \in 0 .. Len(pieces), TakesPart(k)
  PROVE  Shows(k) \in Seq(Cells) /\ Shows(0) = <<>>
<1>1. Shows(0) = <<>>
  <2>1. [i \in 1 .. 0 |-> LooksOfPiece(i)] = <<>>
    OBVIOUS
  <2> QED
    BY <2>1, FlattenNone DEF Shows
<1>2. CASE k = 0
  <2>1. <<>> \in Seq(Cells)
    OBVIOUS
  <2> QED
    BY <1>1, <1>2, <2>1
<1>3. CASE k # 0
  <2>1. PICK n \in Nat : k = n + 1
    <3>1. k - 1 \in Nat /\ k = (k - 1) + 1
      BY <1>3, PieceType
    <3> QED
      BY <3>1
  <2>2. n < Len(pieces) /\ n + 1 \in 1 .. Len(pieces) /\ TakesPart(n + 1)
    BY <2>1, PieceType
  <2>3. Shows(n) \in Seq(Cells) /\ Shows(n + 1) = Shows(n) \o LooksOfPiece(n + 1)
    BY <2>2, ShowsGrows
  <2>4. LooksOfPiece(n + 1) \in Seq(Cells)
    BY <2>2, LooksType
  <2>5. Shows(n + 1) \in Seq(Cells)
    BY <2>3, <2>4, ConcatType
  <2> QED
    BY <1>1, <2>1, <2>5
<1> QED
  BY <1>2, <1>3

(* Between k and m there is plain text and nothing else.                   *)
RunTo(k, m, run) ==
  /\ TakesPart(m)
  /\ FieldsBefore(m + 1) = FieldsBefore(k + 1)
  /\ \A i \in 1 .. Len(run) : run[i] # OpenBrace
  /\ Text(m) = Text(k) \o run
  /\ Shows(m) = Shows(k) \o Rendered(Plain(run))

NoFields(k, m) == \A j \in k + 1 .. m : ~IsField(pieces[j])

LEMMA PlainRun ==
  ASSUME TextOK, NEW k \in 0 .. Len(pieces), TakesPart(k), NEW m \in k .. Len(pieces),
         NoFields(k, m)
  PROVE  \E run \in Seq(STRING) : RunTo(k, m, run)
<1> DEFINE NoField(n) == \A j \in k + 1 .. n : ~IsField(pieces[j])
           Q == {n \in Nat : n \in k .. Len(pieces) /\ NoField(n) =>
                    \E run \in Seq(STRING) : RunTo(k, n, run)}
<1>1. Len(pieces) \in Nat /\ k \in Nat /\ Text(k) \in Seq(STRING) /\ Shows(k) \in Seq(Cells)
  BY PieceType, TextEnds, ShowsType
<1>2. \E run \in Seq(STRING) : RunTo(k, k, run)
  <2>1. PICK run \in Seq(STRING) : run = <<>>
    <3>1. <<>> \in Seq(STRING)
      OBVIOUS
    <3> QED
      BY <3>1, Zenon
  <2>2. Len(run) = 0
    BY <2>1
  <2>3. Rendered(Plain(run)) = <<>>
    <3>1. Plain(run) \in Seq(AGlyph) /\ Len(Plain(run)) = 0
      BY <2>2, PlainType
    <3>2. PICK r \in Seq(Cells) : r = Rendered(Plain(run)) /\ Len(r) = 0
      BY <3>1, RenderedType
    <3> QED
      BY <3>2
  <2>4. Text(k) = Text(k) \o run /\ Shows(k) = Shows(k) \o <<>>
    BY <1>1, <2>1
  <2>5. \A i \in 1 .. Len(run) : FALSE
    BY <2>2
  <2> QED
    BY <2>3, <2>4, <2>5 DEF RunTo
<1>3. 0 \in Q
  <2>1. 0 \in k .. Len(pieces) => k = 0
    BY <1>1
  <2> QED
    BY <1>2, <2>1
<1>4. ASSUME NEW n \in Q PROVE n + 1 \in Q
  <2> SUFFICES ASSUME n + 1 \in k .. Len(pieces), NoField(n + 1)
               PROVE  \E run \in Seq(STRING) : RunTo(k, n + 1, run)
    OBVIOUS
  <2>1. CASE k = n + 1
    BY <1>2, <2>1
  <2>2. CASE k # n + 1
    <3>1. /\ n \in Nat /\ n \in k .. Len(pieces) /\ n < Len(pieces)
          /\ n + 1 \in 1 .. Len(pieces) /\ n + 1 \in k + 1 .. n + 1
      BY <1>1, <2>2
    <3>2. NoField(n) /\ ~IsField(pieces[n + 1])
      BY <1>1, <3>1
    <3>3. PICK run \in Seq(STRING) : RunTo(k, n, run)
      BY <3>1, <3>2
    <3>4. PICK piece \in Seq(STRING) : piece = pieces[n + 1]
      BY <3>1, PieceType
    <3>5. PICK more \in Seq(STRING) : more = run \o piece
      BY ConcatType
    <3>6. TakesPart(n + 1)
      <4>1. \A j \in 1 .. n + 1 : j \in 1 .. n \/ j = n + 1
        BY <3>1
      <4> QED
        BY <3>2, <3>3, <4>1 DEF RunTo, TakesPart
    <3>7. FieldsBefore((n + 1) + 1) = FieldsBefore(k + 1)
      BY <3>1, <3>2, <3>3, FieldsCount DEF RunTo
    <3>8. \A i \in 1 .. Len(more) : more[i] # OpenBrace
      <4>1. \A i \in 1 .. Len(piece) : piece[i] # OpenBrace
        <5>1. piece \in Pieces /\ ~IsField(piece)
          BY <3>1, <3>2, <3>4, PieceType
        <5> QED
          BY <5>1, FormatAssumption, Zenon
      <4>2. \A i \in 1 .. Len(run) : run[i] # OpenBrace
        BY <3>3 DEF RunTo
      <4> SUFFICES ASSUME NEW i \in 1 .. Len(more) PROVE more[i] # OpenBrace
        OBVIOUS
      <4>3. i \in 1 .. Len(run) + Len(piece)
        BY <3>5
      <4>4. CASE i <= Len(run)
        BY <3>5, <4>2, <4>3, <4>4, ConcatAt
      <4>5. CASE i > Len(run)
        BY <3>5, <4>1, <4>3, <4>5, ConcatAt
      <4> QED
        BY <4>3, <4>4, <4>5, ConcatAt
    <3>9. Text(n + 1) = Text(k) \o more
      <4>1. Text(n + 1) = (Text(k) \o run) \o piece
        BY <3>1, <3>3, <3>4, TextGrows DEF RunTo
      <4>2. (Text(k) \o run) \o piece = Text(k) \o (run \o piece)
        <5>1. PICK text \in Seq(STRING) : text = Text(k)
          BY <1>1
        <5>2. (text \o run) \o piece = text \o (run \o piece)
          BY Associate
        <5> QED
          BY <5>1, <5>2
      <4> QED
        BY <3>5, <4>1, <4>2
    <3>10. Shows(n + 1) = Shows(k) \o Rendered(Plain(more))
      <4>1. PICK r \in Seq(Cells) : r = Rendered(Plain(run))
        BY PlainType, RenderedType
      <4>2. PICK p \in Seq(Cells) : p = Rendered(Plain(piece))
        BY PlainType, RenderedType
      <4>3. LooksOfPiece(n + 1) = p
        BY <3>2, <3>4, <4>2, PlainType DEF LooksOfPiece
      <4>4. Shows(n + 1) = (Shows(k) \o r) \o p
        BY <3>1, <3>3, <3>6, <4>1, <4>3, ShowsGrows DEF RunTo
      <4>5. (Shows(k) \o r) \o p = Shows(k) \o (r \o p)
        <5>1. PICK shown \in Seq(Cells) : shown = Shows(k)
          BY <1>1
        <5>2. Associates(shown, r, p)
          BY AllAssociate
        <5> QED
          BY <5>1, <5>2 DEF Associates
      <4>6. Plain(more) = Plain(run) \o Plain(piece)
        BY <3>5, PlainConcat
      <4>7. Rendered(Plain(run) \o Plain(piece)) = r \o p
        <5>1. Plain(run) \in Seq(AGlyph) /\ Plain(piece) \in Seq(AGlyph)
          BY PlainType
        <5> QED
          BY <4>1, <4>2, <5>1, RenderedConcat
      <4> QED
        BY <4>4, <4>5, <4>6, <4>7
    <3> QED
      BY <3>6, <3>7, <3>8, <3>9, <3>10 DEF RunTo
  <2> QED
    BY <2>1, <2>2
<1>5. Q = Nat
  <2>1. Q \in SUBSET Nat
    OBVIOUS
  <2> HIDE DEF Q
  <2> QED
    BY <1>3, <1>4, <2>1, NatSetInduction
<1> QED
  <2>1. m \in Nat
    BY <1>1
  <2> QED
    BY <1>5, <2>1 DEF NoFields

LEMMA NextField ==
  ASSUME TextOK, NEW k \in 0 .. Len(pieces)
  PROVE  \E m \in k .. Len(pieces) :
           /\ \A j \in k + 1 .. m : ~IsField(pieces[j])
           /\ m = Len(pieces) \/ AtField(m)
<1> DEFINE Ends == {m \in Nat : m \in k .. Len(pieces) /\ (m = Len(pieces) \/ AtField(m))}
<1>1. Len(pieces) \in Nat
  BY PieceType
<1>2. Len(pieces) \in Ends /\ Ends \in SUBSET Nat
  BY <1>1
<1>3. PICK m \in Ends : \A n \in Ends : m <= n
  <2> HIDE DEF Ends
  <2> QED
    BY <1>2, LeastNumber
<1>4. ASSUME NEW j \in k + 1 .. m, IsField(pieces[j]) PROVE FALSE
  <2>1. /\ j - 1 \in Nat /\ j - 1 \in k .. Len(pieces) /\ j - 1 < Len(pieces)
        /\ (j - 1) + 1 = j /\ j - 1 < m
    BY <1>1, <1>3
  <2>2. j - 1 \in Ends
    BY <1>4, <2>1 DEF AtField
  <2> QED
    BY <1>3, <2>1, <2>2
<1> QED
  BY <1>3, <1>4

(* Text up to the next field, which is where the next brace is.            *)
LEMMA ParseRun ==
  ASSUME TextOK, NEW k \in 0 .. Len(pieces), ParsedTo(k, to_parse, args, format_str), Parse
  PROVE  \E m \in 0 .. Len(pieces) :
           /\ ParsedTo(m, to_parse', args', format_str')
           /\ \/ pc' = "place" /\ m = Len(pieces)
              \/ pc' = "parse_arg" /\ AtField(m)
<1>1. PICK m \in k .. Len(pieces) : /\ \A j \in k + 1 .. m : ~IsField(pieces[j])
                                    /\ m = Len(pieces) \/ AtField(m)
  BY NextField
<1>2. TakesPart(k)
  BY DEF ParsedTo
<1>3. PICK run \in Seq(STRING) : RunTo(k, m, run)
  <2>1. NoFields(k, m)
    BY <1>1 DEF NoFields
  <2> QED
    BY <1>2, <2>1, PlainRun
<1>4. m \in 0 .. Len(pieces) /\ Len(pieces) \in Nat
  BY PieceType
<1>5. PICK rest \in Seq(STRING) : Text(Len(pieces)) = Text(m) \o rest
  BY <1>4, TextRest
<1>6. PICK ahead \in Seq(STRING) : ahead = to_parse
  BY DEF TextOK
<1>7. PICK text \in Seq(STRING) : text = Text(k)
  BY TextEnds
<1>8. ahead = run \o rest
  <2>1. Text(Len(pieces)) = (text \o run) \o rest
    BY <1>3, <1>5, <1>7 DEF RunTo
  <2>2. text \o ahead = Text(Len(pieces))
    BY <1>6, <1>7 DEF ParsedTo
  <2>3. Associates(text, run, rest)
    BY AllAssociate
  <2>4. run \o rest \in Seq(STRING)
    BY ConcatType
  <2>5. PICK both \in Seq(STRING) : both = run \o rest
    BY <2>4
  <2>6. text \o ahead = text \o both
    BY <2>1, <2>2, <2>3, <2>5 DEF Associates
  <2>7. ahead = both
    BY <2>6, Cancel
  <2> QED
    BY <2>5, <2>7
<1>9. IF m = Len(pieces) THEN rest = <<>> ELSE rest # <<>> /\ rest[1] = OpenBrace
  <2>1. CASE m = Len(pieces)
    <3>1. PICK all \in Seq(STRING) : all = Text(m)
      BY <1>4, TextEnds
    <3>2. all = all \o rest
      BY <1>5, <2>1, <3>1
    <3>3. Len(all) = Len(all) + Len(rest) /\ Len(all) \in Nat /\ Len(rest) \in Nat
      BY <3>2, ConcatType, LenType
    <3>4. Len(rest) = 0
      BY <3>3
    <3> QED
      BY <2>1, <3>4
  <2>2. CASE m # Len(pieces)
    <3>1. m \in Nat /\ m < Len(pieces) /\ AtField(m) /\ m + 1 \in 0 .. Len(pieces)
          /\ m + 1 \in 1 .. Len(pieces)
      BY <1>1, <1>4, <2>2
    <3>2. PICK piece \in Seq(STRING) : piece = pieces[m + 1]
      BY <3>1, PieceType
    <3>3. piece # <<>> /\ piece[1] = OpenBrace
      BY <3>1, <3>2 DEF AtField, IsField
    <3>4. PICK last \in Seq(STRING) : Text(Len(pieces)) = Text(m + 1) \o last
      BY <3>1, TextRest
    <3>5. PICK start \in Seq(STRING) : start = Text(m)
      BY <1>4, TextEnds
    <3>6. Text(m + 1) = start \o piece
      BY <3>1, <3>2, <3>5, TextGrows
    <3>7. PICK both \in Seq(STRING) : both = piece \o last
      BY ConcatType
    <3>8. start \o rest = start \o both
      <4>1. Associates(start, piece, last)
        BY AllAssociate
      <4> QED
        BY <1>5, <3>4, <3>5, <3>6, <3>7, <4>1 DEF Associates
    <3>9. rest = both
      BY <3>8, Cancel
    <3>10. both # <<>> /\ both[1] = piece[1]
      BY <3>3, <3>7
    <3> QED
      BY <2>2, <3>3, <3>9, <3>10
  <2> QED
    BY <2>1, <2>2
<1>10. PICK brace : /\ brace = Find(OpenBrace, to_parse)
                    /\ IF m = Len(pieces) THEN brace = 0 ELSE brace = Len(run) + 1
  <2>1. \A i \in 1 .. Len(run) : run[i] # OpenBrace
    BY <1>3 DEF RunTo
  <2>2. /\ rest = <<>> => Find(OpenBrace, run \o rest) = 0
        /\ rest # <<>> /\ rest[1] = OpenBrace => Find(OpenBrace, run \o rest) = Len(run) + 1
    BY <2>1, FindBehind
  <2> QED
    BY <1>6, <1>8, <1>9, <2>2
<1>11. PICK end : /\ end = IF brace = 0 THEN Len(to_parse) ELSE brace - 1
                  /\ end = Len(run)
  <2>1. Len(run) \in Nat
    BY LenType
  <2>2. CASE m = Len(pieces)
    <3>1. ahead = run
      BY <1>8, <1>9, <2>2
    <3> QED
      BY <1>6, <1>10, <2>2, <3>1
  <2>3. CASE m # Len(pieces)
    <3>1. brace = Len(run) + 1
      BY <1>10, <2>3
    <3>2. brace # 0 /\ brace - 1 = Len(run)
      BY <2>1, <3>1
    <3> QED
      BY <3>2
  <2> QED
    BY <2>2, <2>3
<1>12. /\ pc' = IF brace = 0 THEN "place" ELSE "parse_arg"
       /\ format_str' = format_str \o Plain(SubSeq(ahead, 1, end))
       /\ to_parse' = SubSeq(ahead, end + 1, Len(ahead))
       /\ args' = args
  BY <1>6, <1>10, <1>11 DEF Parse, Plain
<1>13. format_str' = format_str \o Plain(run) /\ to_parse' = rest
  <2>1. SubSeq(ahead, 1, Len(run)) = run /\ SubSeq(ahead, Len(run) + 1, Len(ahead)) = rest
    BY <1>8, Split
  <2> QED
    BY <1>11, <1>12, <2>1
<1>14. Rendered(format_str') = Shows(m)
  <2>1. format_str \in Seq(AGlyph) /\ Plain(run) \in Seq(AGlyph)
    BY PlainType DEF TextOK
  <2>2. Rendered(format_str') = Rendered(format_str) \o Rendered(Plain(run))
    BY <1>13, <2>1, RenderedConcat
  <2> QED
    BY <1>3, <2>2 DEF RunTo, ParsedTo
<1>15. ParsedTo(m, to_parse', args', format_str')
  BY <1>3, <1>5, <1>12, <1>13, <1>14 DEF RunTo, ParsedTo
<1>16. \/ pc' = "place" /\ m = Len(pieces)
       \/ pc' = "parse_arg" /\ AtField(m)
  <2>1. Len(run) \in Nat
    BY LenType
  <2> QED
    BY <1>1, <1>10, <1>12, <2>1
<1> QED
  BY <1>4, <1>15, <1>16

(* A field that has an argument takes part, and so closes.                 *)
LEMMA FieldAhead ==
  ASSUME TextOK, ClosesItsFields, NEW k \in 0 .. Len(pieces),
         ParsedTo(k, to_parse, args, format_str), AtField(k), args # <<>>
  PROVE  /\ k + 1 \in 1 .. Len(pieces) /\ TakesPart(k + 1)
         /\ Find(CloseBrace, to_parse) = Len(pieces[k + 1])
         /\ Len(pieces[k + 1]) \in Nat \ {0}
         /\ \E rest \in Seq(STRING) : /\ to_parse = pieces[k + 1] \o rest
                                      /\ Text(k + 1) \o rest = Text(Len(pieces))
<1>1. k \in Nat /\ k < Len(pieces) /\ k + 1 \in 1 .. Len(pieces) /\ k + 1 \in 0 .. Len(pieces)
  BY PieceType DEF AtField
<1>2. PICK piece \in Seq(STRING) : piece = pieces[k + 1] /\ piece \in Pieces
  BY <1>1, PieceType
<1>3. IsField(piece) /\ piece # <<>>
  BY <1>2 DEF AtField, IsField
<1>4. TakesPart(k + 1)
  <2>1. FieldsBefore(k + 1) + Len(args) = Len(arguments) /\ FieldsBefore(k + 1) \in Nat
    BY <1>1, FieldsCount DEF ParsedTo
  <2>2. Len(args) \in Nat /\ Len(args) # 0
    <3>1. args \in Seq(Arguments) /\ args # <<>>
      BY DEF TextOK
    <3> QED
      BY <3>1
  <2>3. FieldsBefore(k + 1) < Len(arguments)
    BY <2>1, <2>2
  <2>4. \A j \in 1 .. k + 1 : j \in 1 .. k \/ j = k + 1
    BY <1>1
  <2> QED
    BY <2>3, <2>4 DEF ParsedTo, TakesPart
<1>5. IsClosed(piece)
  <2>1. k + 1 \in Parts
    BY <1>1, <1>4, PieceType DEF Parts
  <2> QED
    BY <1>2, <1>3, <2>1 DEF ClosesItsFields
<1>6. /\ piece[Len(piece)] = CloseBrace
      /\ \A i \in 1 .. Len(piece) - 1 : piece[i] # CloseBrace
  <2>1. \A i \in 1 .. Len(piece) - 1 : piece[i] # CloseBrace
    BY <1>2, <1>3, FormatAssumption, Zenon
  <2> QED
    BY <1>5, <2>1 DEF IsClosed, Last
<1>7. Len(piece) \in Nat \ {0}
  BY <1>3
<1>8. PICK rest \in Seq(STRING) : Text(Len(pieces)) = Text(k + 1) \o rest
  BY <1>1, TextRest
<1>9. PICK ahead \in Seq(STRING) : ahead = to_parse
  BY DEF TextOK
<1>10. PICK text \in Seq(STRING) : text = Text(k)
  BY TextEnds
<1>11. ahead = piece \o rest
  <2>1. Text(k + 1) = text \o piece
    BY <1>1, <1>2, <1>10, TextGrows
  <2>2. text \o ahead = Text(Len(pieces))
    BY <1>9, <1>10 DEF ParsedTo
  <2>3. Associates(text, piece, rest)
    BY AllAssociate
  <2>4. PICK both \in Seq(STRING) : both = piece \o rest
    BY ConcatType
  <2>5. text \o ahead = text \o both
    BY <1>8, <2>1, <2>2, <2>3, <2>4 DEF Associates
  <2>6. ahead = both
    BY <2>5, Cancel
  <2> QED
    BY <2>4, <2>6
<1>12. Find(CloseBrace, ahead) = Len(piece)
  BY <1>3, <1>6, <1>11, FindLast
<1> QED
  BY <1>1, <1>2, <1>4, <1>7, <1>8, <1>9, <1>11, <1>12

LEMMA ParseField ==
  ASSUME TextOK, ClosesItsFields, NEW k \in 0 .. Len(pieces),
         ParsedTo(k, to_parse, args, format_str), AtField(k), ParseArg
  PROVE  k + 1 \in 0 .. Len(pieces) /\ ParsedTo(k + 1, to_parse', args', format_str')
<1>1. args # <<>> /\ args \in Seq(Arguments)
  BY DEF ParseArg, TextOK
<1>2. /\ k + 1 \in 1 .. Len(pieces) /\ TakesPart(k + 1)
      /\ Find(CloseBrace, to_parse) = Len(pieces[k + 1])
  BY <1>1, FieldAhead
<1>3. PICK rest \in Seq(STRING) : /\ to_parse = pieces[k + 1] \o rest
                                  /\ Text(k + 1) \o rest = Text(Len(pieces))
  BY <1>1, FieldAhead
<1>4. PICK piece \in Seq(STRING) : piece = pieces[k + 1]
  BY <1>2, PieceType
<1>5. PICK ahead : ahead = to_parse
  OBVIOUS
<1>6. SubSeq(ahead, 1, Len(piece)) = piece /\ SubSeq(ahead, Len(piece) + 1, Len(ahead)) = rest
  <2>1. ahead = piece \o rest
    BY <1>3, <1>4, <1>5
  <2> QED
    BY <2>1, Split
<1>7. Find(CloseBrace, ahead) = Len(piece)
  BY <1>2, <1>4, <1>5
<1>8. /\ format_str' = format_str \o Styled(piece, Head(args))
      /\ to_parse' = rest /\ args' = Tail(args)
  BY <1>5, <1>6, <1>7 DEF ParseArg
<1>9. PICK n \in Nat : n = FieldsBefore(k + 1)
  BY FieldsCount
<1>10. /\ n + Len(args) = Len(arguments)
       /\ \A i \in 1 .. Len(args) : args[i] = arguments[n + i]
  BY <1>9 DEF ParsedTo
<1>11. FieldsBefore((k + 1) + 1) = n + 1
  BY <1>9, FieldsCount DEF AtField
<1>12. /\ Len(args) \in Nat \ {0} /\ Len(Tail(args)) = Len(args) - 1
       /\ \A i \in 1 .. Len(Tail(args)) : i + 1 \in 1 .. Len(args) /\ Tail(args)[i] = args[i + 1]
       /\ Head(args) = args[1] /\ 1 \in 1 .. Len(args)
  BY <1>1
<1>13. /\ (n + 1) + Len(Tail(args)) = Len(arguments)
       /\ \A i \in 1 .. Len(Tail(args)) : Tail(args)[i] = arguments[(n + 1) + i]
  <2>1. \A i \in 1 .. Len(Tail(args)) : (n + 1) + i = n + (i + 1)
    BY <1>12
  <2>2. \A i \in 1 .. Len(Tail(args)) : Tail(args)[i] = arguments[n + (i + 1)]
    BY <1>10, <1>12
  <2> QED
    BY <1>10, <1>12, <2>1, <2>2
<1>14. PICK arg \in Seq(STRING) : arg = Head(args) /\ arg = arguments[n + 1]
  <2>1. Head(args) = arguments[n + 1] /\ n + 1 \in 1 .. Len(arguments)
    BY <1>10, <1>12
  <2> QED
    BY <2>1, PieceType
<1>15. Rendered(format_str') = Shows(k + 1)
  <2>1. ColorOf(piece) \in Colors /\ AttributesOf(piece) \in SUBSET Attributes
    BY StyleType
  <2>2. Styled(piece, arg) \in Seq(AGlyph) /\ format_str \in Seq(AGlyph)
    BY <2>1, GlyphsType DEF Styled, TextOK
  <2>3. Rendered(format_str') = Rendered(format_str) \o Rendered(Styled(piece, arg))
    BY <1>8, <1>14, <2>2, RenderedConcat
  <2>4. Rendered(Styled(piece, arg)) = LooksOfPiece(k + 1)
    BY <1>4, <1>9, <1>14, FieldLooks DEF LooksOfPiece, AtField
  <2>5. Shows(k + 1) = Shows(k) \o LooksOfPiece(k + 1)
    <3>1. k \in Nat /\ k < Len(pieces)
      BY DEF AtField
    <3> QED
      BY <1>2, <3>1, ShowsGrows
  <2> QED
    BY <2>3, <2>4, <2>5 DEF ParsedTo
<1>16. ParsedTo(k + 1, to_parse', args', format_str')
  BY <1>2, <1>3, <1>8, <1>11, <1>13, <1>15 DEF ParsedTo
<1>17. k + 1 \in 0 .. Len(pieces)
  BY <1>2, PieceType
<1> QED
  BY <1>16, <1>17

(* The pieces that take part are the first ones.                           *)
NoMore(k) == k < Len(pieces) => ~TakesPart(k + 1)

LEMMA PartsEnd ==
  ASSUME TextOK, NEW k \in 0 .. Len(pieces), TakesPart(k),
         NoMore(k)
  PROVE  Cardinality(Parts) = k
<1>1. Len(pieces) \in Nat /\ DOMAIN pieces = 1 .. Len(pieces) /\ k \in Nat
  BY PieceType
<1>2. ASSUME NEW i \in 1 .. Len(pieces), i <= k PROVE TakesPart(i)
  <2>1. \A j \in 1 .. i : j \in 1 .. k
    BY <1>1, <1>2
  <2> QED
    BY <2>1 DEF TakesPart
<1>3. ASSUME NEW i \in 1 .. Len(pieces), i > k PROVE ~TakesPart(i)
  <2>1. k < Len(pieces)
    BY <1>1, <1>3
  <2>2. \A j \in 1 .. k + 1 : j \in 1 .. i
    BY <1>1, <1>3
  <2>3. ~TakesPart(k + 1)
    BY <2>1 DEF NoMore
  <2> QED
    BY <2>2, <2>3 DEF TakesPart
<1>4. Parts = 1 .. k
  <2>1. \A i \in 1 .. Len(pieces) : TakesPart(i) <=> i <= k
    BY <1>1, <1>2, <1>3
  <2>2. Parts = {i \in 1 .. Len(pieces) : i <= k}
    BY <1>1, <2>1 DEF Parts
  <2> QED
    BY <1>1, <2>2
<1>5. Cardinality(1 .. k) = k
  <2>1. 1 \in Int /\ k \in Int
    BY <1>1
  <2>2. Cardinality(1 .. k) = IF 1 > k THEN 0 ELSE k - 1 + 1
    BY <2>1, FS_Interval
  <2> QED
    BY <1>1, <2>2
<1> QED
  BY <1>4, <1>5

(* The pieces and the arguments stay as they are.                          *)
LEMMA StillParsed ==
  ASSUME pieces' = pieces, arguments' = arguments
  PROVE  /\ ClosesItsFields' = ClosesItsFields /\ Cardinality(Parts)' = Cardinality(Parts)
         /\ Len(pieces)' = Len(pieces)
         /\ \A k : Shows(k)' = Shows(k) /\ (AtField(k)' <=> AtField(k))
         /\ \A k : ParsedTo(k, to_parse, args, format_str)' <=>
                     ParsedTo(k, to_parse', args', format_str')
BY DEF ClosesItsFields, Parts, TakesPart, FieldsBefore, Shows, LooksOfPiece, AtField, ParsedTo,
       Text, Rendered

LEMMA FormatParsed ==
  ASSUME TextOK, PrintOK, NEW ps \in BoundedSeq(Pieces, MaxPieces),
         NEW given \in BoundedSeq(Arguments, MaxArguments), NEW where, NEW y, NEW x,
         Format(ps, given, where, y, x)
  PROVE  ParsedOK'
<1>1. ps \in Seq(Pieces) /\ given \in Seq(Arguments)
  BY Bounded, Numbers
<1>2. /\ pc' = "parse" /\ pieces' = ps /\ arguments' = given /\ args' = given
      /\ to_parse' = FlattenSeq(ps) /\ format_str' = <<>>
  BY DEF Format, PrintOK
<1>3. Len(ps) \in Nat /\ SubSeq(ps, 1, 0) = <<>> /\ SubSeq(ps, 1, Len(ps)) = ps
  BY <1>1
<1>4. Text(0)' = <<>> /\ Text(Len(pieces))' = FlattenSeq(ps)
  <2>1. Text(0)' = FlattenSeq(<<>>)
    BY <1>2, <1>3 DEF Text
  <2>2. Text(Len(pieces))' = FlattenSeq(ps)
    BY <1>2, <1>3 DEF Text
  <2> QED
    BY <2>1, <2>2, FlattenNone
<1>5. <<>> \o FlattenSeq(ps) = FlattenSeq(ps)
  <2>1. ps \in Seq(Seq(STRING))
    BY <1>1, Texts
  <2>2. PICK text \in Seq(STRING) : text = FlattenSeq(ps)
    BY <2>1, FlattenType
  <2>3. <<>> \o text = text
    OBVIOUS
  <2> QED
    BY <2>2, <2>3
<1>6. FieldsBefore(0 + 1)' = 0
  <2>1. {j \in 1 .. (0 + 1) - 1 : IsField(pieces'[j])} = {}
    OBVIOUS
  <2> QED
    BY <2>1, FS_EmptySet DEF FieldsBefore
<1>7. TakesPart(0)'
  BY DEF TakesPart
<1>8. Rendered(<<>>) = <<>> /\ Shows(0)' = <<>>
  <2>1. [i \in 1 .. 0 |-> LooksOfPiece(i)'] = <<>>
    OBVIOUS
  <2>2. Shows(0)' = FlattenSeq(<<>>)
    BY <2>1 DEF Shows
  <2> QED
    BY <2>2, FlattenNone DEF Rendered
<1>9. Len(given) \in Nat /\ 0 + Len(given) = Len(given) /\ \A i \in 1 .. Len(given) : 0 + i = i
  <2>1. PICK n \in Nat : n = Len(given)
    BY <1>1, LenType
  <2>2. 0 + n = n /\ \A i \in 1 .. n : 0 + i = i
    OBVIOUS
  <2> QED
    BY <2>1, <2>2
<1>10. ParsedTo(0, to_parse, args, format_str)'
  <2>1. Text(0)' \o to_parse' = Text(Len(pieces))'
    BY <1>2, <1>4, <1>5
  <2>2. FieldsBefore(0 + 1)' + Len(args') = Len(arguments')
    BY <1>2, <1>6, <1>9
  <2>3. \A i \in 1 .. Len(args') : args'[i] = arguments'[FieldsBefore(0 + 1)' + i]
    BY <1>2, <1>6, <1>9
  <2>4. Rendered(format_str)' = Shows(0)'
    <3>1. Rendered(format_str)' = Rendered(<<>>)
      BY <1>2 DEF Rendered
    <3> QED
      BY <1>8, <3>1
  <2> QED
    BY <1>7, <2>1, <2>2, <2>3, <2>4 DEF ParsedTo
<1>11. 0 \in 0 .. Len(pieces)'
  BY <1>2, <1>3
<1> QED
  BY <1>2, <1>10, <1>11 DEF ParsedOK

LEMMA ParseParsed ==
  ASSUME TextOK, ParsedOK, Parse
  PROVE  ParsedOK'
<1> SUFFICES ASSUME ClosesItsFields'
             PROVE  /\ pc' = "parse_arg" => \E m \in 0 .. Len(pieces)' :
                         ParsedTo(m, to_parse, args, format_str)' /\ AtField(m)'
                    /\ pc' = "place" => Rendered(format_str)' = Shows(Cardinality(Parts))'
  <2>1. pc' \in {"parse_arg", "place"}
    BY DEF Parse
  <2> QED
    BY <2>1 DEF ParsedOK
<1>1. pieces' = pieces /\ arguments' = arguments /\ pc = "parse"
  BY DEF Parse, input
<1>2. ClosesItsFields
  BY <1>1, StillParsed
<1>3. PICK k \in 0 .. Len(pieces) : ParsedTo(k, to_parse, args, format_str)
  BY <1>1, <1>2 DEF ParsedOK
<1>4. PICK m \in 0 .. Len(pieces) :
        /\ ParsedTo(m, to_parse', args', format_str')
        /\ \/ pc' = "place" /\ m = Len(pieces)
           \/ pc' = "parse_arg" /\ AtField(m)
  BY <1>3, ParseRun
<1>5. CASE pc' = "place" /\ m = Len(pieces)
  <2>1. Rendered(format_str') = Shows(m) /\ TakesPart(m)
    BY <1>4 DEF ParsedTo
  <2>2. NoMore(m)
    BY <1>5, PieceType DEF NoMore
  <2>3. Cardinality(Parts) = m
    BY <2>1, <2>2, PartsEnd
  <2>4. Shows(Cardinality(Parts))' = Shows(m)
    BY <1>1, <2>3, StillParsed
  <2>5. Rendered(format_str)' = Rendered(format_str')
    BY DEF Rendered
  <2> QED
    BY <1>5, <2>1, <2>4, <2>5
<1>6. CASE pc' = "parse_arg" /\ AtField(m)
  <2>1. ParsedTo(m, to_parse, args, format_str)' /\ AtField(m)' /\ Len(pieces)' = Len(pieces)
    BY <1>1, <1>4, <1>6, StillParsed
  <2> QED
    BY <1>6, <2>1
<1> QED
  BY <1>4, <1>5, <1>6

LEMMA ParseArgParsed ==
  ASSUME TextOK, ParsedOK, ParseArg
  PROVE  ParsedOK'
<1> SUFFICES ASSUME ClosesItsFields'
             PROVE  \E m \in 0 .. Len(pieces)' : ParsedTo(m, to_parse, args, format_str)'
  <2>1. pc' = "parse"
    BY DEF ParseArg
  <2> QED
    BY <2>1 DEF ParsedOK
<1>1. pieces' = pieces /\ arguments' = arguments /\ pc = "parse_arg"
  BY DEF ParseArg, input
<1>2. ClosesItsFields
  BY <1>1, StillParsed
<1>3. PICK k \in 0 .. Len(pieces) : ParsedTo(k, to_parse, args, format_str) /\ AtField(k)
  BY <1>1, <1>2 DEF ParsedOK
<1>4. k + 1 \in 0 .. Len(pieces) /\ ParsedTo(k + 1, to_parse', args', format_str')
  BY <1>2, <1>3, ParseField
<1>5. ParsedTo(k + 1, to_parse, args, format_str)' /\ Len(pieces)' = Len(pieces)
  BY <1>1, <1>4, StillParsed
<1> QED
  BY <1>4, <1>5

LEMMA ParseEndParsed ==
  ASSUME TextOK, ParsedOK, ParseNoArg \/ ParseRunsAway
  PROVE  ParsedOK'
<1>1. /\ pieces' = pieces /\ arguments' = arguments /\ format_str' = format_str
      /\ pc = "parse_arg"
  BY DEF ParseNoArg, ParseRunsAway, input
<1> SUFFICES ASSUME ClosesItsFields'
             PROVE  pc' = "place" /\ Rendered(format_str)' = Shows(Cardinality(Parts))'
  BY DEF ParsedOK
<1>2. ClosesItsFields
  BY <1>1, StillParsed
<1>3. PICK k \in 0 .. Len(pieces) : ParsedTo(k, to_parse, args, format_str) /\ AtField(k)
  BY <1>1, <1>2 DEF ParsedOK
<1>4. ~ParseRunsAway
  <2> SUFFICES ASSUME ParseRunsAway PROVE FALSE
    OBVIOUS
  <2>1. args # <<>> /\ Find(CloseBrace, to_parse) = 0
    BY DEF ParseRunsAway
  <2>2. Find(CloseBrace, to_parse) = Len(pieces[k + 1]) /\ Len(pieces[k + 1]) \in Nat \ {0}
    BY <1>2, <1>3, <2>1, FieldAhead
  <2> QED
    BY <2>1, <2>2
<1>5. args = <<>> /\ pc' = "place"
  BY <1>4 DEF ParseNoArg
<1>6. Rendered(format_str) = Shows(k) /\ TakesPart(k)
  BY <1>3 DEF ParsedTo
<1>7. NoMore(k)
  <2>1. FieldsBefore(k + 1) + 0 = Len(arguments) /\ FieldsBefore(k + 1) \in Nat
    <3>1. Len(args) = 0 /\ k \in Nat
      BY <1>5
    <3> QED
      BY <1>3, <3>1, FieldsCount DEF ParsedTo
  <2>2. k + 1 \in 1 .. k + 1
    OBVIOUS
  <2>3. ~(FieldsBefore(k + 1) < Len(arguments))
    BY <2>1
  <2> QED
    BY <1>3, <2>2, <2>3 DEF NoMore, TakesPart, AtField
<1>8. Cardinality(Parts) = k
  BY <1>6, <1>7, PartsEnd
<1>9. Shows(Cardinality(Parts))' = Shows(k)
  BY <1>1, <1>8, StillParsed
<1>10. Rendered(format_str)' = Rendered(format_str)
  BY <1>1 DEF Rendered
<1> QED
  BY <1>5, <1>6, <1>9, <1>10

LEMMA PrintParsed ==
  ASSUME TextOK, ParsedOK, Place \/ PrintGlyph \/ EndPrint
  PROVE  ParsedOK'
<1>1. /\ pieces' = pieces /\ arguments' = arguments /\ format_str' = format_str
      /\ pc \in {"place", "print"} /\ pc' \in {"print", "printed"}
  BY DEF Place, PrintGlyph, EndPrint, input
<1> SUFFICES ASSUME ClosesItsFields'
             PROVE  Rendered(format_str)' = Shows(Cardinality(Parts))'
  BY <1>1 DEF ParsedOK
<1>2. ClosesItsFields
  BY <1>1, StillParsed
<1>3. Rendered(format_str) = Shows(Cardinality(Parts))
  BY <1>1, <1>2 DEF ParsedOK
<1>4. Shows(Cardinality(Parts))' = Shows(Cardinality(Parts))
  BY <1>1, StillParsed
<1>5. Rendered(format_str)' = Rendered(format_str)
  BY <1>1 DEF Rendered
<1> QED
  BY <1>3, <1>4, <1>5

LEMMA NextParsed ==
  TextOK /\ PrintOK /\ ParsedOK /\ [Next]_vars => ParsedOK'
<1> SUFFICES ASSUME TextOK, PrintOK, ParsedOK, [Next]_vars PROVE ParsedOK'
  OBVIOUS
<1>1. ASSUME NEW ps \in BoundedSeq(Pieces, MaxPieces),
             NEW given \in BoundedSeq(Arguments, MaxArguments),
             NEW where, NEW cursor, Format(ps, given, where, cursor[1], cursor[2])
      PROVE  ParsedOK'
  <2> DEFINE y == cursor[1]
             x == cursor[2]
  <2>1. Format(ps, given, where, y, x)
    BY <1>1
  <2> HIDE DEF y, x
  <2> QED
    BY <2>1, FormatParsed
<1>2. CASE Destroy
  <2>1. pc' = "idle"
    BY <1>2 DEF Destroy
  <2> QED
    BY <2>1 DEF ParsedOK
<1>3. CASE UNCHANGED vars
  <2>1. /\ pieces' = pieces /\ arguments' = arguments /\ pc' = pc
        /\ to_parse' = to_parse /\ args' = args /\ format_str' = format_str
    BY <1>3 DEF vars, input
  <2>2. /\ ClosesItsFields' = ClosesItsFields
        /\ Len(pieces)' = Len(pieces)
        /\ Shows(Cardinality(Parts))' = Shows(Cardinality(Parts))
        /\ \A k : AtField(k)' <=> AtField(k)
        /\ \A k : ParsedTo(k, to_parse, args, format_str)' <=>
                    ParsedTo(k, to_parse, args, format_str)
    BY <2>1, StillParsed
  <2>3. Rendered(format_str)' = Rendered(format_str)
    BY <2>1 DEF Rendered
  <2> QED
    BY <2>1, <2>2, <2>3 DEF ParsedOK
<1> QED
  BY <1>1, <1>2, <1>3, ParseParsed, ParseArgParsed, ParseEndParsed, PrintParsed DEF Next

(* A text whose fields are closed never runs away, and looks on the screen *)
(* as its pieces say, each in its own style whatever the others are, up to *)
(* the first field there is no argument for: for all texts, arguments and  *)
(* styles (glyph_string.hpp:51-118, glyph.hpp:35-41).                      *)
THEOREM TextsLookAsFormatted == Spec => []LooksAsFormatted
<1>1. Init => ParsedOK
  BY DEF Init, ParsedOK
<1>2. TextOK /\ PrintOK /\ ParsedOK => LooksAsFormatted
  <2> SUFFICES ASSUME TextOK, PrintOK, ParsedOK, ClosesItsFields
               PROVE  /\ pc # "undefined"
                      /\ pc = "printed" =>
                           cells = FlattenSeq([i \in 1 .. Cardinality(Parts) |-> LooksOfPiece(i)])
    BY DEF LooksAsFormatted
  <2>1. pc # "undefined"
    BY DEF ParsedOK
  <2>2. ASSUME pc = "printed"
        PROVE  cells = FlattenSeq([i \in 1 .. Cardinality(Parts) |-> LooksOfPiece(i)])
    <3>1. Rendered(format_str) = Shows(Cardinality(Parts))
      BY <2>2 DEF ParsedOK
    <3>2. cells = Rendered(format_str)
      <4>1. /\ cells \in Seq(Cells) /\ Len(cells) = Len(format_str)
            /\ \A i \in 1 .. Len(cells) : cells[i] = Shown(format_str[i])
        BY <2>2 DEF PrintOK, Cells
      <4>2. PICK shown \in Seq(Cells) :
              /\ shown = Rendered(format_str) /\ Len(shown) = Len(format_str)
              /\ \A i \in 1 .. Len(format_str) : shown[i] = Shown(format_str[i])
        BY RenderedType DEF TextOK
      <4>3. SameUpTo(Len(cells), cells, shown)
        BY <4>1, <4>2 DEF SameUpTo
      <4> QED
        BY <4>1, <4>2, <4>3, SameSequence
    <3> QED
      BY <3>1, <3>2 DEF Shows
  <2> QED
    BY <2>1, <2>2
<1> QED
  BY <1>1, <1>2, NextParsed, FormatInvariant, PTL DEF Spec
=============================================================================
