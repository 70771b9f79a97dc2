---------------------------- MODULE SendLoopProofs ----------------------------
(***************************************************************************)
(* SendLoop for any number of workers, targets, catalogs, limits and sizes: *)
(* packing loses, repeats and reorders nothing and keeps to the sizes, and  *)
(* the workers share the items, the time stamps and the rate.               *)
(***************************************************************************)
EXTENDS SendLoop, SequenceTheorems, FiniteSetTheorems, WellFoundedInduction, TLAPS

-----------------------------------------------------------------------------
(* Induction.                                                               *)

(* A set of natural numbers that is not empty has a least element.          *)
LEMMA LeastElement ==
    ASSUME NEW T \in SUBSET Nat, T # {}
    PROVE  \E m \in T : \A k \in T : ~(k < m)
<1>1. PICK m \in T : \A k \in T : ~(<<k, m>> \in OpToRel(<, Nat))
    BY NatLessThanWellFounded, WFMin
<1>2. \A k \in T : ~(k < m)
    BY <1>1 DEF OpToRel
<1> QED BY <1>2

(* What holds of 0 and of each successor holds of every natural number.     *)
LEMMA Induction ==
    ASSUME NEW T, 0 \in T, \A n \in Nat : n \in T => n + 1 \in T
    PROVE  Nat \subseteq T
<1> SUFFICES ASSUME Nat \ T # {} PROVE FALSE
    OBVIOUS
<1>1. PICK m \in Nat \ T : \A k \in Nat \ T : ~(k < m)
    BY LeastElement
<1>2. m # 0 /\ m - 1 \in Nat
    OBVIOUS
<1>3. m - 1 \in T
    BY <1>1, <1>2
<1> QED BY <1>2, <1>3

-----------------------------------------------------------------------------
(* FlattenSeq.  A recursive function is a CHOOSE: that one exists, and that it
   is the same for a longer sequence, is shown by induction.                *)

FlatBody(f, s, i) == IF i = 1 THEN s[i] ELSE f[i - 1] \o s[i]
Flat(s) == CHOOSE f : f = [i \in 1..Len(s) |-> FlatBody(f, s, i)]

(* FlattenSeq is the last value of that function.                           *)
LEMMA FlattenIs ==
    ASSUME NEW s, Len(s) # 0
    PROVE  FlattenSeq(s) = Flat(s)[Len(s)]
BY DEF FlattenSeq, Flat, FlatBody

(* The function exists.                                                     *)
LEMMA FlatExists ==
    ASSUME NEW s, NEW n \in Nat
    PROVE  \E f : f = [i \in 1..n |-> FlatBody(f, s, i)]
<1> DEFINE T == {m \in Nat : \E f : f = [i \in 1..m |-> FlatBody(f, s, i)]}
<1>1. 0 \in T
    <2> DEFINE f == [i \in 1..0 |-> 0]
    <2>1. f = [i \in 1..0 |-> FlatBody(f, s, i)]
        OBVIOUS
    <2> QED BY <2>1
<1>2. ASSUME NEW m \in Nat, m \in T
      PROVE  m + 1 \in T
    <2>1. PICK f : f = [i \in 1..m |-> FlatBody(f, s, i)]
        BY <1>2
    <2> DEFINE g == [i \in 1..(m + 1) |-> FlatBody(f, s, i)]
    <2>2. ASSUME NEW i \in 1..(m + 1)
          PROVE  g[i] = FlatBody(g, s, i)
        <3>1. CASE i = 1
            BY <3>1 DEF FlatBody
        <3>2. CASE i # 1
            <4>1. i - 1 \in 1..m /\ i - 1 \in 1..(m + 1)
                BY <3>2
            <4>2. g[i - 1] = f[i - 1]
                BY <2>1, <4>1
            <4> HIDE DEF g
            <4>3. g[i] = f[i - 1] \o s[i]
                BY <3>2 DEF g, FlatBody
            <4> QED BY <3>2, <4>2, <4>3 DEF FlatBody
        <3> QED BY <3>1, <3>2
    <2>3. g = [i \in 1..(m + 1) |-> FlatBody(g, s, i)]
        BY <2>2
    <2> HIDE DEF g
    <2> QED BY <2>3
<1>3. n \in T
    <2> HIDE DEF T
    <2> QED BY <1>1, <1>2, Induction
<1> QED BY <1>3

(* What is chosen satisfies the recursion.                                  *)
LEMMA FlatDefined ==
    ASSUME NEW s, Len(s) \in Nat
    PROVE  \A i \in 1..Len(s) : Flat(s)[i] = FlatBody(Flat(s), s, i)
<1>1. \E f : f = [i \in 1..Len(s) |-> FlatBody(f, s, i)]
    BY FlatExists
<1>2. Flat(s) = [i \in 1..Len(s) |-> FlatBody(Flat(s), s, i)]
    BY <1>1 DEF Flat
<1> QED BY <1>2

(* It depends on the elements up to its argument only.                      *)
LEMMA FlatAgree ==
    ASSUME NEW s, NEW t, Len(s) \in Nat, Len(t) \in Nat, Len(s) <= Len(t),
           \A i \in 1..Len(s) : s[i] = t[i]
    PROVE  \A i \in 1..Len(s) : Flat(s)[i] = Flat(t)[i]
<1> DEFINE T == {i \in Nat : i \in 1..Len(s) => Flat(s)[i] = Flat(t)[i]}
<1>0. /\ \A i \in 1..Len(s) : Flat(s)[i] = FlatBody(Flat(s), s, i)
      /\ \A i \in 1..Len(s) : Flat(t)[i] = FlatBody(Flat(t), t, i)
    BY FlatDefined
<1>1. 0 \in T
    OBVIOUS
<1>2. ASSUME NEW n \in Nat, n \in T
      PROVE  n + 1 \in T
    <2>1. CASE n = 0
        BY <1>0, <2>1 DEF FlatBody
    <2>2. CASE n # 0 /\ n + 1 \in 1..Len(s)
        <3>1. n \in 1..Len(s) /\ (n + 1) - 1 = n /\ n + 1 # 1
            BY <2>2
        <3>2. Flat(s)[n] = Flat(t)[n]
            BY <1>2, <3>1
        <3>3. Flat(s)[n + 1] = Flat(s)[n] \o s[n + 1] /\ Flat(t)[n + 1] = Flat(t)[n] \o t[n + 1]
            BY <1>0, <2>2, <3>1 DEF FlatBody
        <3>4. s[n + 1] = t[n + 1]
            BY <2>2
        <3>5. Flat(s)[n + 1] = Flat(t)[n + 1]
            BY <3>2, <3>3, <3>4
        <3> QED BY <3>5
    <2> QED BY <2>1, <2>2
<1>3. Nat \subseteq T
    <2> HIDE DEF T
    <2> QED BY <1>1, <1>2, Induction
<1> QED BY <1>3

(* Nothing flattens to nothing.                                             *)
LEMMA FlattenEmpty == FlattenSeq(<<>>) = <<>>
BY DEF FlattenSeq

(* One more sequence is put at the end.                                     *)
LEMMA FlattenAppend ==
    ASSUME NEW S, NEW s \in Seq(Seq(S)), NEW x \in Seq(S), FlattenSeq(s) \in Seq(S)
    PROVE  FlattenSeq(Append(s, x)) = FlattenSeq(s) \o x
<1> DEFINE t == Append(s, x)
<1>1. Len(s) \in Nat /\ Len(t) = Len(s) + 1 /\ t[Len(t)] = x
      /\ \A i \in 1..Len(s) : s[i] = t[i]
    OBVIOUS
<1> HIDE DEF t
<1>2. FlattenSeq(t) = Flat(t)[Len(t)] /\ Flat(t)[Len(t)] = FlatBody(Flat(t), t, Len(t))
    BY <1>1, FlattenIs, FlatDefined
<1>3. CASE Len(s) = 0
    <2>1. s = <<>>
        BY <1>3
    <2>2. FlattenSeq(t) = x
        BY <1>1, <1>2, <1>3 DEF FlatBody
    <2> QED BY <2>1, <2>2, FlattenEmpty DEF t
<1>4. CASE Len(s) # 0
    <2>1. FlattenSeq(t) = Flat(t)[Len(s)] \o x
        BY <1>1, <1>2, <1>4 DEF FlatBody
    <2>2. Flat(s)[Len(s)] = Flat(t)[Len(s)]
        <3>1. Len(s) \in 1..Len(s) /\ Len(t) \in Nat /\ Len(s) <= Len(t)
            BY <1>1, <1>4
        <3>2. \A i \in 1..Len(s) : Flat(s)[i] = Flat(t)[i]
            BY <1>1, <3>1, FlatAgree
        <3> QED BY <3>1, <3>2
    <2>3. FlattenSeq(s) = Flat(s)[Len(s)]
        BY <1>4, FlattenIs
    <2> QED BY <2>1, <2>2, <2>3 DEF t
<1> QED BY <1>3, <1>4

(* A sequence of sequences flattens to a sequence.                          *)
LEMMA FlattenType ==
    ASSUME NEW S, NEW s \in Seq(Seq(S))
    PROVE  FlattenSeq(s) \in Seq(S)
<1> DEFINE T == {n \in Nat : \A r \in Seq(Seq(S)) : Len(r) = n => FlattenSeq(r) \in Seq(S)}
<1>1. 0 \in T
    BY FlattenEmpty
<1>2. ASSUME NEW n \in Nat, n \in T
      PROVE  n + 1 \in T
    <2> SUFFICES ASSUME NEW r \in Seq(Seq(S)), Len(r) = n + 1
                 PROVE  FlattenSeq(r) \in Seq(S)
        OBVIOUS
    <2>1. PICK q \in Seq(Seq(S)), x \in Seq(S) : r = Append(q, x) /\ Len(q) = n
        <3> DEFINE q == SubSeq(r, 1, n)
        <3>1. q \in Seq(Seq(S)) /\ Len(q) = n /\ r[n + 1] \in Seq(S) /\ \A i \in 1..n : q[i] = r[i]
            OBVIOUS
        <3> HIDE DEF q
        <3>2. r = Append(q, r[n + 1])
            BY <3>1
        <3> QED BY <3>1, <3>2
    <2>2. FlattenSeq(q) \in Seq(S)
        BY <1>2, <2>1
    <2>3. FlattenSeq(r) = FlattenSeq(q) \o x
        BY <2>1, <2>2, FlattenAppend
    <2> QED BY <2>2, <2>3
<1>3. Nat \subseteq T
    <2> HIDE DEF T
    <2> QED BY <1>1, <1>2, Induction
<1> QED BY <1>3

(* The operators on sequences under names of their own: what quantified facts
   speak of must not be taken apart before they are used.                   *)
Joined(a, b) == a \o b
Nil == <<>>
One(e) == <<e>>
More(a, e) == Append(a, e)

(* Nothing is its unit.                                                     *)
LEMMA JoinNil ==
    ASSUME NEW S
    PROVE  /\ Nil \in Seq(S)
           /\ \A a \in Seq(S) : Joined(a, Nil) = a /\ Joined(Nil, a) = a
BY ConcatEmptySeq DEF Joined, Nil

(* It is associative.                                                       *)
LEMMA Regroup ==
    ASSUME NEW S, NEW a \in Seq(S), NEW b \in Seq(S)
    PROVE  /\ Joined(a, b) \in Seq(S)
           /\ \A c \in Seq(S) : Joined(Joined(a, b), c) = Joined(a, Joined(b, c))
<1>1. a \o b \in Seq(S)
    OBVIOUS
<1>2. ASSUME NEW c \in Seq(S)
      PROVE  (a \o b) \o c = a \o (b \o c)
    <2>1. /\ (a \o b) \o c \in Seq(S) /\ a \o (b \o c) \in Seq(S)
          /\ Len((a \o b) \o c) = Len(a \o (b \o c))
        OBVIOUS
    <2>2. \A i \in 1..Len((a \o b) \o c) : ((a \o b) \o c)[i] = (a \o (b \o c))[i]
        OBVIOUS
    <2> QED BY <2>1, <2>2, SeqEqual
<1> QED BY <1>1, <1>2 DEF Joined

(* The concatenation of two flattens to the concatenation.                  *)
LEMMA FlattenConcat ==
    ASSUME NEW S, NEW s \in Seq(Seq(S)), NEW t \in Seq(Seq(S))
    PROVE  FlattenSeq(s \o t) = FlattenSeq(s) \o FlattenSeq(t)
<1> DEFINE T == {n \in Nat : \A r \in Seq(Seq(S)) :
                    Len(r) = n => FlattenSeq(s \o r) = FlattenSeq(s) \o FlattenSeq(r)}
<1>0. FlattenSeq(s) \in Seq(S)
    BY FlattenType
<1>1. 0 \in T
    <2>1. \A r \in Seq(Seq(S)) : Len(r) = 0 => r = <<>> /\ s \o r = s
        BY ConcatEmptySeq
    <2>2. \A r \in Seq(Seq(S)) : Len(r) = 0 =>
              FlattenSeq(s \o r) = FlattenSeq(s) \o FlattenSeq(r)
        BY <1>0, <2>1, FlattenEmpty, ConcatEmptySeq
    <2> QED BY <2>2
<1>2. ASSUME NEW n \in Nat, n \in T
      PROVE  n + 1 \in T
    <2> SUFFICES ASSUME NEW r \in Seq(Seq(S)), Len(r) = n + 1
                 PROVE  FlattenSeq(s \o r) = FlattenSeq(s) \o FlattenSeq(r)
        OBVIOUS
    <2>1. PICK q \in Seq(Seq(S)), x \in Seq(S) : r = Append(q, x) /\ Len(q) = n
        <3> DEFINE q == SubSeq(r, 1, n)
        <3>1. q \in Seq(Seq(S)) /\ Len(q) = n /\ r[n + 1] \in Seq(S) /\ \A i \in 1..n : q[i] = r[i]
            OBVIOUS
        <3> HIDE DEF q
        <3>2. r = Append(q, r[n + 1])
            BY <3>1
        <3> QED BY <3>1, <3>2
    <2>2. FlattenSeq(s \o q) = FlattenSeq(s) \o FlattenSeq(q)
        BY <1>2, <2>1
    <2>3. FlattenSeq(r) = FlattenSeq(q) \o x /\ FlattenSeq(q) \in Seq(S)
        BY <2>1, FlattenType, FlattenAppend
    <2>4. s \o r = Append(s \o q, x) /\ s \o q \in Seq(Seq(S))
        BY <2>1
    <2>5. FlattenSeq(s \o r) = FlattenSeq(s \o q) \o x
        BY <2>4, FlattenType, FlattenAppend
    <2>6. FlattenSeq(s \o r) = (FlattenSeq(s) \o FlattenSeq(q)) \o x
        BY <2>2, <2>5
    <2>7. (FlattenSeq(s) \o FlattenSeq(q)) \o x = FlattenSeq(s) \o (FlattenSeq(q) \o x)
        <3>1. Joined(Joined(FlattenSeq(s), FlattenSeq(q)), x)
              = Joined(FlattenSeq(s), Joined(FlattenSeq(q), x))
            BY <1>0, <2>3, Regroup
        <3> QED BY <3>1 DEF Joined
    <2> QED BY <2>3, <2>6, <2>7
<1>3. Nat \subseteq T
    <2> HIDE DEF T
    <2> QED BY <1>1, <1>2, Induction
<1> QED BY <1>3

(* A single sequence flattens to itself.                                    *)
LEMMA FlattenOne ==
    ASSUME NEW S, NEW x \in Seq(S)
    PROVE  FlattenSeq(<<x>>) = x
<1>1. <<x>> = Append(<<>>, x) /\ <<>> \in Seq(Seq(S))
    OBVIOUS
<1>2. FlattenSeq(<<>>) \in Seq(S)
    <2>1. <<>> \in Seq(S)
        OBVIOUS
    <2> QED BY <2>1, FlattenEmpty
<1>3. FlattenSeq(Append(<<>>, x)) = FlattenSeq(<<>>) \o x
    BY <1>1, <1>2, FlattenAppend
<1> QED BY <1>1, <1>3, FlattenEmpty, ConcatEmptySeq

-----------------------------------------------------------------------------
(* Frames.                                                                  *)

Char == {"a", "r", "n", "backslash", "letter"}
Text == Seq({"a", "r", "n"})

Escaped(char) == IF char = "a" THEN <<"a">> ELSE <<"backslash", "letter">>
Escapes(text, n) == [i \in 1..n |-> Escaped(text[i])]
LineEnds(text, n) == {i \in 1..n : text[i] \in {"r", "n"}}

(* Each character of a text becomes one or two.                             *)
LEMMA EscapesType ==
    ASSUME NEW text \in Text, NEW n \in 0..Len(text)
    PROVE  /\ Escapes(text, n) \in Seq(Seq(Char)) /\ Len(Escapes(text, n)) = n
           /\ \A i \in 1..n : Escapes(text, n)[i] = Escaped(text[i])
<1>1. \A char : Escaped(char) \in Seq(Char)
    <2>1. <<"a">> \in Seq(Char) /\ <<"backslash", "letter">> \in Seq(Char)
        BY DEF Char
    <2> QED BY <2>1 DEF Escaped
<1>2. n \in Nat
    BY DEF Text
<1>3. \A i \in 1..n : Escaped(text[i]) \in Seq(Char)
    BY <1>1
<1> QED BY <1>2, <1>3, IsASeq DEF Escapes

(* The frame of a text is as long as newline_frame_size says.               *)
LEMMA FrameSize ==
    ASSUME NEW text \in Text
    PROVE  /\ append_frame(text) \in Seq(Char)
           /\ Len(append_frame(text)) = newline_frame_size(text)
           /\ newline_frame_size(text) \in Nat
<1> DEFINE Size(n) == Len(FlattenSeq(Escapes(text, n)))
           T == {n \in Nat : n <= Len(text) =>
                   /\ IsFiniteSet(LineEnds(text, n))
                   /\ Size(n) = n + Cardinality(LineEnds(text, n))}
<1>0. Len(text) \in Nat /\ \A i \in 1..Len(text) : text[i] \in {"a", "r", "n"}
    BY DEF Text
<1>1. 0 \in T
    <2>1. Escapes(text, 0) = <<>> /\ LineEnds(text, 0) = {}
        BY DEF Escapes, LineEnds
    <2>2. Size(0) = 0
        BY <2>1, FlattenEmpty
    <2>3. IsFiniteSet(LineEnds(text, 0)) /\ Cardinality(LineEnds(text, 0)) = 0
        BY <2>1, FS_EmptySet
    <2> HIDE DEF Size
    <2> QED BY <2>2, <2>3
<1>2. ASSUME NEW n \in Nat, n \in T
      PROVE  n + 1 \in T
    <2> SUFFICES ASSUME n + 1 <= Len(text)
                 PROVE  /\ IsFiniteSet(LineEnds(text, n + 1))
                        /\ Size(n + 1) = n + 1 + Cardinality(LineEnds(text, n + 1))
        OBVIOUS
    <2> DEFINE c == text[n + 1]
    <2>1. /\ IsFiniteSet(LineEnds(text, n)) /\ Cardinality(LineEnds(text, n)) \in Nat
          /\ Size(n) = n + Cardinality(LineEnds(text, n))
        BY <1>0, <1>2, FS_CardinalityType
    <2>2. n \in 0..Len(text) /\ n + 1 \in 0..Len(text) /\ c \in {"a", "r", "n"}
        BY <1>0
    <2>3. /\ Escapes(text, n) \in Seq(Seq(Char)) /\ Len(Escapes(text, n)) = n
          /\ Escaped(c) \in Seq(Char)
        BY <2>2, EscapesType DEF Escaped, Char
    <2>4. Escapes(text, n + 1) = Append(Escapes(text, n), Escaped(c))
        BY <2>3 DEF Escapes
    <2>5. FlattenSeq(Escapes(text, n)) \in Seq(Char)
        BY <2>3, FlattenType
    <2>6. Size(n + 1) = Size(n) + Len(Escaped(c))
        <3>1. FlattenSeq(Escapes(text, n + 1)) = FlattenSeq(Escapes(text, n)) \o Escaped(c)
            BY <2>3, <2>4, <2>5, FlattenAppend
        <3> QED BY <2>3, <2>5, <3>1, ConcatProperties
    <2>7. CASE c = "a"
        <3>1. LineEnds(text, n + 1) = LineEnds(text, n)
            BY <2>7 DEF LineEnds
        <3>2. Len(Escaped(c)) = 1
            BY <2>7 DEF Escaped
        <3> QED BY <2>1, <2>6, <3>1, <3>2
    <2>8. CASE c # "a"
        <3>1. LineEnds(text, n + 1) = LineEnds(text, n) \cup {n + 1} /\ n + 1 \notin LineEnds(text, n)
            BY <2>2, <2>8 DEF LineEnds
        <3>2. Len(Escaped(c)) = 2
            BY <2>8 DEF Escaped
        <3>3. /\ IsFiniteSet(LineEnds(text, n + 1))
              /\ Cardinality(LineEnds(text, n + 1)) = Cardinality(LineEnds(text, n)) + 1
            BY <2>1, <3>1, FS_AddElement
        <3> QED BY <2>1, <2>6, <3>2, <3>3
    <2> QED BY <2>7, <2>8
<1>3. Len(text) \in T
    <2> HIDE DEF T
    <2> QED BY <1>0, <1>1, <1>2, Induction
<1>4. /\ FlattenSeq(Escapes(text, Len(text))) \in Seq(Char)
      /\ Len(FlattenSeq(Escapes(text, Len(text)))) = newline_frame_size(text) - 1
      /\ newline_frame_size(text) \in Nat
    <2>1. /\ IsFiniteSet(LineEnds(text, Len(text))) /\ Cardinality(LineEnds(text, Len(text))) \in Nat
          /\ Size(Len(text)) = Len(text) + Cardinality(LineEnds(text, Len(text)))
        BY <1>0, <1>3, FS_CardinalityType
    <2>2. newline_frame_size(text) = Len(text) + 1 + Cardinality(LineEnds(text, Len(text)))
        BY DEF newline_frame_size, LineEnds
    <2>3. FlattenSeq(Escapes(text, Len(text))) \in Seq(Char)
        BY <1>0, EscapesType, FlattenType
    <2> QED BY <1>0, <2>1, <2>2, <2>3
<1>5. append_frame(text) = FlattenSeq(Escapes(text, Len(text))) \o <<"n">>
    BY DEF append_frame, Escapes, Escaped
<1>6. <<"n">> \in Seq(Char) /\ Len(<<"n">>) = 1
    BY DEF Char
<1> QED BY <1>4, <1>5, <1>6

-----------------------------------------------------------------------------
(* What a worker has rendered, in the places where it may be.               *)
Content(s, batch, datagram, whole, part) ==
    FlattenSeq(s \o batch) \o datagram \o whole \o part

(* Part by part.                                                            *)
LEMMA ContentIs ==
    ASSUME NEW S, NEW s \in Seq(Seq(S)), NEW batch \in Seq(Seq(S)), NEW d \in Seq(S),
           NEW whole \in Seq(S), NEW part \in Seq(S)
    PROVE  /\ FlattenSeq(s) \in Seq(S) /\ FlattenSeq(batch) \in Seq(S)
           /\ Content(s, batch, d, whole, part) =
                Joined(Joined(Joined(Joined(FlattenSeq(s), FlattenSeq(batch)), d), whole), part)
<1>1. FlattenSeq(s) \in Seq(S) /\ FlattenSeq(batch) \in Seq(S)
    BY FlattenType
<1>2. FlattenSeq(s \o batch) = FlattenSeq(s) \o FlattenSeq(batch)
    BY FlattenConcat
<1> QED BY <1>1, <1>2 DEF Content, Joined

(* An event at the end.                                                     *)
LEMMA AppendJoined ==
    ASSUME NEW S, NEW a \in Seq(S), NEW e \in S
    PROVE  /\ More(a, e) = Joined(a, One(e)) /\ More(a, e) \in Seq(S)
           /\ One(e) \in Seq(S)
<1>1. Append(a, e) = a \o <<e>> /\ <<e>> \in Seq(S) /\ Append(a, e) \in Seq(S)
    OBVIOUS
<1> QED BY <1>1 DEF Joined, One, More

(* Flattening, in the same terms.                                           *)
LEMMA FlattenJoined ==
    ASSUME NEW S, NEW batch \in Seq(Seq(S)), NEW d \in Seq(S)
    PROVE  /\ More(batch, d) \in Seq(Seq(S)) /\ One(d) \in Seq(Seq(S))
           /\ FlattenSeq(More(batch, d)) = Joined(FlattenSeq(batch), d)
           /\ FlattenSeq(One(d)) = d
<1>1. Append(batch, d) \in Seq(Seq(S)) /\ <<d>> \in Seq(Seq(S))
    OBVIOUS
<1>2. FlattenSeq(Append(batch, d)) = FlattenSeq(batch) \o d
    BY FlattenType, FlattenAppend
<1>3. FlattenSeq(<<d>>) = d
    BY FlattenOne
<1> QED BY <1>1, <1>2, <1>3 DEF Joined, One, More

(* Moving from one place to the next changes nothing.                       *)
LEMMA ContentMoves ==
    ASSUME NEW S, NEW s \in Seq(Seq(S)), NEW batch \in Seq(Seq(S)), NEW d \in Seq(S),
           NEW part \in Seq(S)
    PROVE  /\ Content(s, batch, Nil, d, part) = Content(s, batch, d, Nil, part)
           /\ Content(s, batch, Nil, Nil, part) = Content(s, batch, part, Nil, Nil)
           /\ Content(s, More(batch, d), Nil, Nil, part) = Content(s, batch, d, Nil, part)
<1> DEFINE F == FlattenSeq(s)
           B == FlattenSeq(batch)
           X == Joined(F, B)
<1>0. F \in Seq(S) /\ B \in Seq(S) /\ X \in Seq(S) /\ Nil \in Seq(S)
    BY FlattenType, JoinNil, Regroup
<1>1. Content(s, batch, Nil, d, part) = Joined(Joined(Joined(X, Nil), d), part)
    BY <1>0, ContentIs
<1>2. Content(s, batch, d, Nil, part) = Joined(Joined(Joined(X, d), Nil), part)
    BY <1>0, ContentIs
<1>3. Content(s, batch, Nil, Nil, part) = Joined(Joined(Joined(X, Nil), Nil), part)
    BY <1>0, ContentIs
<1>4. Content(s, batch, part, Nil, Nil) = Joined(Joined(Joined(X, part), Nil), Nil)
    BY <1>0, ContentIs
<1>5. Content(s, More(batch, d), Nil, Nil, part)
          = Joined(Joined(Joined(Joined(F, Joined(B, d)), Nil), Nil), part)
    <2>1. More(batch, d) \in Seq(Seq(S)) /\ FlattenSeq(More(batch, d)) = Joined(B, d)
        BY FlattenJoined
    <2>2. Content(s, More(batch, d), Nil, Nil, part)
          = Joined(Joined(Joined(Joined(F, FlattenSeq(More(batch, d))), Nil), Nil), part)
        BY <1>0, <2>1, ContentIs
    <2> QED BY <2>1, <2>2
<1> HIDE DEF F, B
<1>6. /\ Joined(X, d) \in Seq(S) /\ Joined(X, part) \in Seq(S)
      /\ Joined(F, Joined(B, d)) = Joined(X, d)
      /\ \A a \in Seq(S) : Joined(a, Nil) = a
    BY <1>0, JoinNil, Regroup
<1> QED BY <1>0, <1>1, <1>2, <1>3, <1>4, <1>5, <1>6

(* Nor does sending.                                                        *)
LEMMA ContentSent ==
    ASSUME NEW S, NEW s \in Seq(Seq(S)), NEW batch \in Seq(Seq(S)), NEW d, NEW whole, NEW part
    PROVE  Content(s \o batch, <<>>, d, whole, part) = Content(s, batch, d, whole, part)
<1>1. (s \o batch) \o <<>> = s \o batch
    OBVIOUS
<1> QED BY <1>1 DEF Content

(* A new event comes at the end.                                            *)
LEMMA ContentGrows ==
    ASSUME NEW S, NEW s \in Seq(Seq(S)), NEW batch \in Seq(Seq(S)), NEW d \in Seq(S), NEW e \in S
    PROVE  /\ Content(s, batch, d, Nil, One(e)) = More(Content(s, batch, d, Nil, Nil), e)
           /\ Content(s, batch, More(d, e), Nil, Nil)
                = More(Content(s, batch, d, Nil, Nil), e)
           /\ Content(s, More(batch, One(e)), Nil, Nil, Nil)
                = More(Content(s, batch, Nil, Nil, Nil), e)
           /\ Content(s, One(More(FlattenSeq(batch), e)), Nil, Nil, Nil)
                = More(Content(s, batch, Nil, Nil, Nil), e)
           /\ Content(More(s, One(e)), Nil, Nil, Nil, Nil)
                = More(Content(s, Nil, Nil, Nil, Nil), e)
<1> DEFINE F == FlattenSeq(s)
           B == FlattenSeq(batch)
           X == Joined(F, B)
<1>0. /\ F \in Seq(S) /\ B \in Seq(S) /\ X \in Seq(S) /\ Nil \in Seq(S) /\ One(e) \in Seq(S)
      /\ Nil \in Seq(Seq(S)) /\ FlattenSeq(Nil) = Nil
    BY FlattenType, JoinNil, AppendJoined, Regroup, FlattenEmpty DEF Nil
<1>1. \A t \in Seq(Seq(S)) : \A p, q \in Seq(S) :
          /\ Content(s, t, p, Nil, q) = Joined(Joined(Joined(Joined(F, FlattenSeq(t)), p), Nil), q)
          /\ Content(t, Nil, Nil, Nil, Nil)
             = Joined(Joined(Joined(Joined(FlattenSeq(t), Nil), Nil), Nil), Nil)
    <2> SUFFICES ASSUME NEW t \in Seq(Seq(S)), NEW p \in Seq(S), NEW q \in Seq(S)
                 PROVE  /\ Content(s, t, p, Nil, q)
                             = Joined(Joined(Joined(Joined(F, FlattenSeq(t)), p), Nil), q)
                        /\ Content(t, Nil, Nil, Nil, Nil)
                             = Joined(Joined(Joined(Joined(FlattenSeq(t), Nil), Nil), Nil), Nil)
        OBVIOUS
    <2>1. Content(s, t, p, Nil, q) = Joined(Joined(Joined(Joined(F, FlattenSeq(t)), p), Nil), q)
        BY <1>0, ContentIs
    <2>2. Content(t, Nil, Nil, Nil, Nil)
             = Joined(Joined(Joined(Joined(FlattenSeq(t), FlattenSeq(Nil)), Nil), Nil), Nil)
        BY <1>0, ContentIs
    <2> QED BY <1>0, <2>1, <2>2
<1>2. \A a \in Seq(S) : Joined(a, Nil) = a /\ More(a, e) = Joined(a, One(e)) /\ More(a, e) \in Seq(S)
    BY AppendJoined, JoinNil
<1>3. \A a, b \in Seq(S) : Joined(a, b) \in Seq(S) /\ Joined(Joined(a, b), One(e)) = Joined(a, Joined(b, One(e)))
    <2> SUFFICES ASSUME NEW a \in Seq(S), NEW b \in Seq(S)
                 PROVE  /\ Joined(a, b) \in Seq(S)
                        /\ Joined(Joined(a, b), One(e)) = Joined(a, Joined(b, One(e)))
        OBVIOUS
    <2>1. Joined(a, b) \in Seq(S)
          /\ \A c \in Seq(S) : Joined(Joined(a, b), c) = Joined(a, Joined(b, c))
        BY Regroup
    <2>2. One(e) \in Seq(S)
        BY <1>0
    <2> QED BY <2>1, <2>2
<1>4. Content(s, batch, d, Nil, Nil) = Joined(X, d) /\ Content(s, batch, Nil, Nil, Nil) = X
    BY <1>0, <1>1, <1>2, <1>3
<1>5. Content(s, batch, d, Nil, One(e)) = More(Joined(X, d), e)
    BY <1>0, <1>1, <1>2, <1>3
<1>6. Content(s, batch, More(d, e), Nil, Nil) = More(Joined(X, d), e)
    BY <1>0, <1>1, <1>2, <1>3
<1>7. Content(s, More(batch, One(e)), Nil, Nil, Nil) = More(X, e)
    <2>1. More(batch, One(e)) \in Seq(Seq(S)) /\ FlattenSeq(More(batch, One(e))) = Joined(B, One(e))
        BY <1>0, FlattenJoined
    <2>2. Content(s, More(batch, One(e)), Nil, Nil, Nil)
          = Joined(Joined(Joined(Joined(F, Joined(B, One(e))), Nil), Nil), Nil)
        BY <1>0, <1>1, <2>1
    <2> QED BY <1>0, <1>2, <1>3, <2>2
<1>8. Content(s, One(More(B, e)), Nil, Nil, Nil) = More(X, e)
    <2>1. One(More(B, e)) \in Seq(Seq(S)) /\ FlattenSeq(One(More(B, e))) = Joined(B, One(e))
        BY <1>0, <1>2, FlattenJoined
    <2>2. Content(s, One(More(B, e)), Nil, Nil, Nil)
          = Joined(Joined(Joined(Joined(F, Joined(B, One(e))), Nil), Nil), Nil)
        BY <1>0, <1>1, <2>1
    <2> QED BY <1>0, <1>2, <1>3, <2>2
<1>9. Content(More(s, One(e)), Nil, Nil, Nil, Nil)
          = More(Content(s, Nil, Nil, Nil, Nil), e)
    <2>1. More(s, One(e)) \in Seq(Seq(S)) /\ FlattenSeq(More(s, One(e))) = Joined(F, One(e))
        BY <1>0, FlattenJoined
    <2>2. Content(More(s, One(e)), Nil, Nil, Nil, Nil)
          = Joined(Joined(Joined(Joined(Joined(F, One(e)), Nil), Nil), Nil), Nil)
        BY <1>0, <1>1, <2>1
    <2>3. Content(s, Nil, Nil, Nil, Nil) = F
        BY <1>0, <1>1, <1>2
    <2> QED BY <1>0, <1>2, <1>3, <2>2, <2>3
<1> QED BY <1>4, <1>5, <1>6, <1>7, <1>8, <1>9

-----------------------------------------------------------------------------
(* Types.                                                                   *)

Places == {"build", "packet", "events", "close", "paced", "wait", "done", "threw"}

TypeInv ==
    /\ kind \in Kinds /\ target_eps \in Nat /\ items \in Catalogs
    /\ N \in Nat \ {0} /\ (target_eps > 0 => N <= target_eps)
    /\ next \in Nat /\ wraps \in Nat
    /\ current \in [Workers -> 0..(Len(items) - 1)]
    /\ remaining \in [Workers -> Nat] /\ position \in [Workers -> 0..(Span - 1)]
    /\ place \in [Workers -> Places]
    /\ packet \in [Workers -> Seq(Events)] /\ packets \in [Workers -> Seq(Seq(Events))]
    /\ pending_packet \in [Workers -> Seq(Events)]
    /\ pending_payload \in [Workers -> Seq(Events)]
    /\ due \in [Workers -> Nat] /\ now \in Nat /\ stop \in BOOLEAN
    /\ picks \in [Workers -> Seq(Events)] /\ sent \in [Workers -> Seq(Seq(Events))]
    /\ batches \in [Workers -> Nat]

(* A quotient is a natural number, a remainder below the divisor.           *)
LEMMA Quotient ==
    ASSUME NEW a \in Nat, NEW b \in Nat \ {0}
    PROVE  a \div b \in Nat /\ a % b \in 0..(b - 1) /\ a = b * (a \div b) + (a % b)
OBVIOUS

(* There is a worker, and no more of them than the target has events.       *)
LEMMA WorkerCount ==
    ASSUME NEW k, NEW target \in Nat, NEW parallel \in BOOLEAN
    PROVE  /\ worker_count(k, target, parallel) \in Nat \ {0}
           /\ target > 0 => worker_count(k, target, parallel) <= target
<1>1. \A x \in Nat : Clamp(x, 1, 64) \in Nat \ {0}
    BY DEF Clamp
<1>2. optimal_worker_count(k) \in Nat
    <2>1. \A x \in Nat : /\ Clamp(x, 1, 16) \in Nat /\ Clamp(x, 2, UdpWorkers) \in Nat
                         /\ Least(Detected, x) \in Nat
        BY SendLoopAssumption DEF Clamp, Least
    <2>2. Detected \in Nat /\ (Detected + 3) \div 4 \in Nat /\ (Detected > 2 => Detected - 1 \in Nat)
        BY SendLoopAssumption
    <2>3. CASE k = "file"
        BY <2>3 DEF optimal_worker_count
    <2>4. CASE k = "stream"
        BY <2>1, <2>2, <2>4 DEF optimal_worker_count
    <2>5. CASE k \notin {"file", "stream"}
        BY <2>1, <2>2, <2>5 DEF optimal_worker_count
    <2> QED BY <2>3, <2>4, <2>5
<1> QED BY <1>1, <1>2 DEF worker_count, Least

(* The share of a worker, and what follows from it.                         *)
LEMMA Quota ==
    ASSUME TypeInv, NEW w \in Workers
    PROVE  /\ quota_for_worker(w) \in Nat /\ event_limit(w) \in Nat \ {0}
           /\ target_eps > 0 => quota_for_worker(w) # 0
<1>1. N \in Nat \ {0} /\ target_eps \in Nat /\ w \in 1..N /\ (target_eps > 0 => N <= target_eps)
    BY DEF TypeInv, Workers
<1>2. target_eps \div N \in Nat /\ target_eps % N \in Nat
    BY <1>1
<1>3. quota_for_worker(w) \in Nat
    BY <1>1, <1>2 DEF quota_for_worker
<1>4. target_eps > 0 => target_eps \div N # 0
    BY <1>1
<1>5. target_eps > 0 => quota_for_worker(w) # 0
    BY <1>1, <1>2, <1>4 DEF quota_for_worker
<1>6. Divisor[kind] \in Nat \ {0} /\ MaxEvents[kind] \in Nat \ {0}
    BY SendLoopAssumption DEF TypeInv
<1>7. quota_for_worker(w) \div Divisor[kind] \in Nat
    BY <1>3, <1>6, Quotient
<1>8. event_limit(w) \in Nat \ {0}
    BY <1>6, <1>7 DEF event_limit, Clamp
<1> QED BY <1>3, <1>5, <1>8

(* Rendering an event: the history grows, the cursors go on.                *)
LEMMA PickStep ==
    ASSUME TypeInv, NEW w \in Workers, NEW event \in Events, Pick(w, event)
    PROVE  /\ picks' = [picks EXCEPT ![w] = Append(@, event)]
           /\ picks' \in [Workers -> Seq(Events)]
           /\ next' \in Nat /\ wraps' \in Nat
           /\ current' = [current EXCEPT ![w] = current'[w]] /\ current'[w] \in 0..(Len(items) - 1)
           /\ remaining' = [remaining EXCEPT ![w] = remaining'[w]] /\ remaining'[w] \in Nat
           /\ position' = [position EXCEPT ![w] = position'[w]] /\ position'[w] \in 0..(Span - 1)
<1>0. /\ Span \in Nat \ {0} /\ Width \in Nat \ {0} /\ Reservation \in Nat \ {0}
      /\ Len(items) \in Nat \ {0} /\ N \in Nat \ {0}
      /\ next \in Nat /\ wraps \in Nat /\ current[w] \in 0..(Len(items) - 1)
      /\ remaining[w] \in Nat /\ position[w] \in 0..(Span - 1) /\ picks[w] \in Seq(Events)
    <2>1. items \in Seq(Seq({"a", "r", "n"})) /\ items # <<>>
        BY SendLoopAssumption DEF TypeInv
    <2> QED BY <2>1, SendLoopAssumption DEF TypeInv
<1>1. picks' = [picks EXCEPT ![w] = Append(@, event)]
    BY DEF Pick
<1>2. picks' \in [Workers -> Seq(Events)]
    BY <1>0, <1>1 DEF TypeInv
<1>3. next_position(w) \in 0..(Span - 1)
    <2>1. N % Span \in 0..(Span - 1)
        BY <1>0, Quotient
    <2> QED BY <1>0, <2>1 DEF next_position
<1>4. /\ position' = [position EXCEPT ![w] = position'[w]] /\ position'[w] = next_position(w)
    BY DEF Pick, TypeInv
<1>5. CASE remaining[w] = 0
    <2> DEFINE size == IF high_rate(w) THEN Reservation ELSE 1
    <2>1. size \in Nat \ {0} /\ Reserve(w)
        BY <1>0, <1>5 DEF Pick
    <2> HIDE DEF size
    <2>2. (next + size) % Width \in Nat /\ (next + 1) % Len(items) \in 0..(Len(items) - 1)
        <3>1. next + size \in Nat /\ next + 1 \in Nat
            BY <1>0, <2>1
        <3> QED BY <1>0, <3>1
    <2>3. \/ /\ current' = [current EXCEPT ![w] = 0]
             /\ remaining' = [remaining EXCEPT ![w] = size - 1]
             /\ UNCHANGED <<next, wraps>>
          \/ /\ next' = (next + size) % Width
             /\ (wraps' = wraps + 1 \/ wraps' = wraps)
             /\ current' = [current EXCEPT ![w] = (next + 1) % Len(items)]
             /\ remaining' = [remaining EXCEPT ![w] = size - 1]
        BY <2>1 DEF Reserve, size
    <2>4. /\ current' = [current EXCEPT ![w] = current'[w]] /\ current'[w] \in 0..(Len(items) - 1)
          /\ remaining' = [remaining EXCEPT ![w] = remaining'[w]] /\ remaining'[w] \in Nat
        <3>1. \/ /\ current' = [current EXCEPT ![w] = 0] /\ 0 \in 0..(Len(items) - 1)
                 /\ remaining' = [remaining EXCEPT ![w] = size - 1] /\ size - 1 \in Nat
              \/ /\ current' = [current EXCEPT ![w] = (next + 1) % Len(items)]
                 /\ (next + 1) % Len(items) \in 0..(Len(items) - 1)
                 /\ remaining' = [remaining EXCEPT ![w] = size - 1] /\ size - 1 \in Nat
            <4>1. 0 \in 0..(Len(items) - 1) /\ size - 1 \in Nat
                BY <1>0, <2>1
            <4> QED BY <2>2, <2>3, <4>1, Zenon
        <3>2. current \in [Workers -> 0..(Len(items) - 1)] /\ remaining \in [Workers -> Nat]
            BY DEF TypeInv
        <3>3. \A c : current' = [current EXCEPT ![w] = c] => current'[w] = c
            BY <3>2
        <3>4. \A c : remaining' = [remaining EXCEPT ![w] = c] => remaining'[w] = c
            BY <3>2
        <3> QED BY <3>1, <3>3, <3>4
    <2>5. next' \in Nat /\ wraps' \in Nat
        BY <1>0, <2>2, <2>3
    <2> QED BY <1>1, <1>2, <1>3, <1>4, <2>4, <2>5
<1>6. CASE remaining[w] # 0
    <2>1. /\ current' = [current EXCEPT ![w] = IF @ + 1 = Len(items) THEN 0 ELSE @ + 1]
          /\ remaining' = [remaining EXCEPT ![w] = @ - 1]
          /\ UNCHANGED <<next, wraps>>
        BY <1>6 DEF Pick
    <2>2. (IF current[w] + 1 = Len(items) THEN 0 ELSE current[w] + 1) \in 0..(Len(items) - 1)
        BY <1>0
    <2>3. /\ current' = [current EXCEPT ![w] = current'[w]] /\ current'[w] \in 0..(Len(items) - 1)
          /\ remaining' = [remaining EXCEPT ![w] = remaining'[w]] /\ remaining'[w] \in Nat
        BY <1>0, <1>6, <2>1, <2>2 DEF TypeInv
    <2> QED BY <1>0, <1>1, <1>2, <1>3, <1>4, <2>1, <2>3
<1> QED BY <1>5, <1>6

(* A worker changes nothing but its own entry, and keeps the types.         *)
Own(old, new, w, type) == new = [old EXCEPT ![w] = new[w]] /\ new[w] \in type

(* As it is when an entry is assigned.                                      *)
LEMMA OwnEntry ==
    ASSUME NEW type, NEW old \in [Workers -> type], NEW new, NEW w \in Workers, NEW x \in type,
           new = old \/ new = [old EXCEPT ![w] = x]
    PROVE  Own(old, new, w, type)
BY DEF Own

(* The other entries stay, and the types.                                   *)
LEMMA OwnType ==
    ASSUME NEW type, NEW old \in [Workers -> type], NEW new, NEW w \in Workers,
           Own(old, new, w, type)
    PROVE  new \in [Workers -> type] /\ \A q \in Workers : q # w => new[q] = old[q]
BY DEF Own

OwnStep(w) ==
    /\ Own(current, current', w, 0..(Len(items) - 1))
    /\ Own(remaining, remaining', w, Nat) /\ Own(position, position', w, 0..(Span - 1))
    /\ Own(picks, picks', w, Seq(Events)) /\ Own(place, place', w, Places)
    /\ Own(packet, packet', w, Seq(Events)) /\ Own(packets, packets', w, Seq(Seq(Events)))
    /\ Own(pending_packet, pending_packet', w, Seq(Events))
    /\ Own(pending_payload, pending_payload', w, Seq(Events))
    /\ Own(due, due', w, Nat) /\ Own(sent, sent', w, Seq(Seq(Events)))
    /\ Own(batches, batches', w, Nat)

(* The entries of a worker have their types.                                *)
LEMMA Entries ==
    ASSUME TypeInv, NEW w \in Workers
    PROVE  /\ current[w] \in 0..(Len(items) - 1) /\ remaining[w] \in Nat
           /\ position[w] \in 0..(Span - 1) /\ picks[w] \in Seq(Events) /\ place[w] \in Places
           /\ packet[w] \in Seq(Events) /\ packets[w] \in Seq(Seq(Events))
           /\ pending_packet[w] \in Seq(Events) /\ pending_payload[w] \in Seq(Events)
           /\ due[w] \in Nat /\ sent[w] \in Seq(Seq(Events)) /\ batches[w] \in Nat
BY DEF TypeInv

(* An entry left alone.                                                     *)
LEMMA OwnSame ==
    ASSUME TypeInv, NEW w \in Workers
    PROVE  /\ UNCHANGED cursor =>
                /\ Own(current, current', w, 0..(Len(items) - 1))
                /\ Own(remaining, remaining', w, Nat) /\ Own(position, position', w, 0..(Span - 1))
                /\ Own(picks, picks', w, Seq(Events)) /\ next' \in Nat /\ wraps' \in Nat
           /\ place' = place => Own(place, place', w, Places)
           /\ packet' = packet => Own(packet, packet', w, Seq(Events))
           /\ packets' = packets => Own(packets, packets', w, Seq(Seq(Events)))
           /\ pending_packet' = pending_packet =>
                Own(pending_packet, pending_packet', w, Seq(Events))
           /\ pending_payload' = pending_payload =>
                Own(pending_payload, pending_payload', w, Seq(Events))
           /\ due' = due => Own(due, due', w, Nat)
           /\ sent' = sent => Own(sent, sent', w, Seq(Seq(Events)))
           /\ batches' = batches => Own(batches, batches', w, Nat)
BY DEF TypeInv, cursor, Own

(* A worker goes from place to place.                                       *)
LEMMA OwnPlace ==
    ASSUME TypeInv, NEW w \in Workers, NEW to \in Places, Goes(w, to)
    PROVE  Own(place, place', w, Places) /\ place'[w] = to
BY DEF TypeInv, Goes, Own

(* Puts events where it keeps them.                                         *)
LEMMA OwnPacket ==
    ASSUME TypeInv, NEW w \in Workers
    PROVE  /\ Nil \in Seq(Events)
           /\ packet' = packet => Own(packet, packet', w, Seq(Events))
           /\ pending_packet' = pending_packet =>
                Own(pending_packet, pending_packet', w, Seq(Events))
           /\ pending_payload' = pending_payload =>
                Own(pending_payload, pending_payload', w, Seq(Events))
           /\ \A x \in Seq(Events) :
                /\ packet' = [packet EXCEPT ![w] = x] =>
                      Own(packet, packet', w, Seq(Events)) /\ packet'[w] = x
                /\ pending_packet' = [pending_packet EXCEPT ![w] = x] =>
                      /\ Own(pending_packet, pending_packet', w, Seq(Events))
                      /\ pending_packet'[w] = x
                /\ pending_payload' = [pending_payload EXCEPT ![w] = x] =>
                      /\ Own(pending_payload, pending_payload', w, Seq(Events))
                      /\ pending_payload'[w] = x
           /\ packets' = packets => Own(packets, packets', w, Seq(Seq(Events)))
           /\ \A x \in Seq(Seq(Events)) : packets' = [packets EXCEPT ![w] = x] =>
                Own(packets, packets', w, Seq(Seq(Events))) /\ packets'[w] = x
<1>1. Nil \in Seq(Events)
    BY JoinNil
<1> QED BY <1>1 DEF TypeInv, Own

(* And renders an event.                                                    *)
LEMMA OwnPick ==
    ASSUME TypeInv, NEW w \in Workers, NEW event \in Events, Pick(w, event)
    PROVE  /\ Own(current, current', w, 0..(Len(items) - 1))
           /\ Own(remaining, remaining', w, Nat) /\ Own(position, position', w, 0..(Span - 1))
           /\ Own(picks, picks', w, Seq(Events)) /\ next' \in Nat /\ wraps' \in Nat
           /\ picks'[w] = Append(picks[w], event)
<1>0. /\ picks' = [picks EXCEPT ![w] = Append(@, event)] /\ picks' \in [Workers -> Seq(Events)]
    BY PickStep
<1>1. picks' = [picks EXCEPT ![w] = picks'[w]] /\ picks'[w] = Append(picks[w], event)
    <2>1. picks \in [Workers -> Seq(Events)]
        BY DEF TypeInv
    <2> QED BY <1>0, <2>1
<1>2. picks'[w] \in Seq(Events)
    BY <1>0
<1> QED BY <1>1, <1>2, PickStep DEF Own

(* One step of a worker touches the cursor and its own entries.             *)
LEMMA StepOwn ==
    ASSUME TypeInv, NEW w \in Workers, Step(w)
    PROVE  /\ OwnStep(w) /\ next' \in Nat /\ wraps' \in Nat
           /\ UNCHANGED <<config, now, stop>>
<1>0. /\ packet[w] \in Seq(Events) /\ packets[w] \in Seq(Seq(Events))
      /\ pending_packet[w] \in Seq(Events) /\ pending_payload[w] \in Seq(Events)
      /\ due[w] \in Nat /\ sent[w] \in Seq(Seq(Events)) /\ batches[w] \in Nat
      /\ now \in Nat /\ next \in Nat /\ wraps \in Nat
    BY Entries DEF TypeInv
<1>1. FlattenSeq(packets[w]) \in Seq(Events)
    BY <1>0, FlattenType
<1>2. CASE StartBatch(w)
    <2>1. Own(place, place', w, Places)
        BY <1>2, OwnPlace DEF StartBatch, Places
    <2>2. /\ Own(packets, packets', w, Seq(Seq(Events)))
          /\ Own(packet, packet', w, Seq(Events))
        BY <1>2 DEF StartBatch, TypeInv, Own
    <2> QED BY <1>0, <1>2, <2>1, <2>2, OwnSame DEF StartBatch, OwnStep, pacing, output, cursor
<1>3. CASE StartPacket(w)
    <2>1. Own(place, place', w, Places)
        BY <1>3, OwnPlace DEF StartPacket, Places
    <2>2. /\ packet' = packet \/ packet' = [packet EXCEPT ![w] = pending_packet[w]]
             \/ packet' = [packet EXCEPT ![w] = pending_payload[w]]
          /\ pending_packet' = pending_packet
             \/ pending_packet' = [pending_packet EXCEPT ![w] = <<>>]
          /\ pending_payload' = pending_payload
             \/ pending_payload' = [pending_payload EXCEPT ![w] = <<>>]
        BY <1>3, Zenon DEF StartPacket
    <2>3. Own(packet, packet', w, Seq(Events))
        BY <1>0, <2>2, OwnPacket
    <2>4. Own(pending_packet, pending_packet', w, Seq(Events))
        BY <2>2, OwnPacket DEF Nil
    <2>5. Own(pending_payload, pending_payload', w, Seq(Events))
        BY <2>2, OwnPacket DEF Nil
    <2> QED BY <1>0, <1>3, <2>1, <2>3, <2>4, <2>5, OwnSame DEF StartPacket, OwnStep, pacing, output, cursor
<1>4. CASE PackEvent(w)
    <2>1. PICK event \in Events : Pick(w, event)
              /\ \/ Goes(w, "threw") /\ UNCHANGED <<packet, pending_payload>>
                 \/ /\ pending_payload' = [pending_payload EXCEPT ![w] = <<event>>]
                    /\ Goes(w, "close") /\ UNCHANGED packet
                 \/ /\ packet' = [packet EXCEPT ![w] = Append(@, event)]
                    /\ UNCHANGED <<place, pending_payload>>
        BY <1>4, Zenon DEF PackEvent
    <2>2. Own(place, place', w, Places)
        BY <2>1, OwnPlace, OwnSame DEF Places
    <2>3. Own(packet, packet', w, Seq(Events))
        <3>1. More(packet[w], event) \in Seq(Events)
            BY <1>0, AppendJoined
        <3> QED BY <2>1, <3>1, OwnPacket DEF More
    <2>4. Own(pending_payload, pending_payload', w, Seq(Events))
        <3>1. One(event) \in Seq(Events)
            BY <1>0, AppendJoined
        <3> QED BY <2>1, <3>1, OwnPacket DEF One
    <2> QED BY <1>0, <1>4, <2>1, <2>2, <2>3, <2>4, OwnSame, OwnPick DEF PackEvent, OwnStep, pacing, output
<1>5. CASE PacketFull(w)
    <2>1. Own(place, place', w, Places)
        BY <1>5, OwnPlace DEF PacketFull, Places
    <2> QED BY <1>0, <1>5, <2>1, OwnSame DEF PacketFull, OwnStep, building, pacing, output, cursor
<1>6. CASE ClosePacket(w)
    <2>1. Own(place, place', w, Places)
        BY <1>6, OwnPlace DEF ClosePacket, Places
    <2>2. /\ packet' = [packet EXCEPT ![w] = <<>>]
          /\ packets' = packets \/ packets' = [packets EXCEPT ![w] = Append(@, packet[w])]
          /\ pending_packet' = pending_packet
             \/ pending_packet' = [pending_packet EXCEPT ![w] = packet[w]]
        BY <1>6, Zenon DEF ClosePacket
    <2>3. Own(packet, packet', w, Seq(Events))
        BY <2>2, OwnPacket DEF Nil
    <2>4. Own(pending_packet, pending_packet', w, Seq(Events))
        BY <1>0, <2>2, OwnPacket
    <2>5. Own(packets, packets', w, Seq(Seq(Events)))
        <3>1. More(packets[w], packet[w]) \in Seq(Seq(Events))
            BY <1>0, FlattenJoined
        <3> QED BY <2>2, <3>1, OwnPacket DEF More
    <2> QED BY <1>0, <1>6, <2>1, <2>3, <2>4, <2>5, OwnSame DEF ClosePacket, OwnStep, pacing, output, cursor
<1>7. CASE AddEvent(w)
    <2>1. PICK event \in Events :
              /\ Pick(w, event)
              /\ packets' = [packets EXCEPT ![w] =
                               IF kind = "datagrams" THEN Append(@, <<event>>)
                               ELSE <<FlattenSeq(@) \o <<event>> >>]
        BY <1>7 DEF AddEvent
    <2>2. Own(packets, packets', w, Seq(Seq(Events)))
        BY <1>0, <1>1, <2>1 DEF TypeInv, Own
    <2> QED BY <1>0, <1>7, <2>1, <2>2, OwnSame, OwnPick DEF AddEvent, OwnStep, pacing, output
<1>8. CASE EventsReady(w)
    <2>1. Own(place, place', w, Places)
        BY <1>8, OwnPlace DEF EventsReady, Places
    <2> QED BY <1>0, <1>8, <2>1, OwnSame DEF EventsReady, OwnStep, building, pacing, output, cursor
<1>9. CASE Pace(w)
    <2>1. Own(place, place', w, Places)
        BY <1>9, OwnPlace DEF Pace, Places
    <2>2. Own(due, due', w, Nat)
        <3> DEFINE quota == quota_for_worker(w)
                   events == IF single(w) THEN 1 ELSE EventsOf(w)
                   when == IF quota = 0 THEN due[w] ELSE due[w] + (Second * events) \div quota
        <3>1. quota \in Nat /\ events \in Nat /\ Second \in Nat
            BY <1>1, Quota, SendLoopAssumption DEF EventsOf
        <3> HIDE DEF quota, events
        <3>2. Second * events \in Nat
            BY <3>1
        <3>3. quota # 0 => (Second * events) \div quota \in Nat
            BY <3>1, <3>2, Quotient
        <3>4. due' = [due EXCEPT ![w] = now] \/ due' = [due EXCEPT ![w] = when]
            BY <1>9 DEF Pace, quota, events
        <3>5. when \in Nat
            BY <1>0, <3>3
        <3> HIDE DEF when
        <3> QED BY <1>0, <3>4, <3>5 DEF TypeInv, Own
    <2> QED BY <1>0, <1>9, <2>1, <2>2, OwnSame DEF Pace, OwnStep, building, output, cursor
<1>10. CASE Send(w)
    <2>1. Own(place, place', w, Places)
        BY <1>10, OwnPlace DEF Send, Places
    <2>2. /\ Own(packets, packets', w, Seq(Seq(Events)))
          /\ Own(sent, sent', w, Seq(Seq(Events)))
          /\ Own(batches, batches', w, Nat)
        BY <1>0, <1>10 DEF Send, TypeInv, Own
    <2> QED BY <1>0, <1>10, <2>1, <2>2, OwnSame DEF Send, OwnStep, pacing, cursor
<1>11. CASE SendSingle(w)
    <2>1. PICK event \in Events :
              Pick(w, event) /\ sent' = [sent EXCEPT ![w] = Append(@, <<event>>)]
        BY <1>11 DEF SendSingle
    <2>2. Own(place, place', w, Places)
        BY <1>11, OwnPlace DEF SendSingle, Places
    <2>3. /\ Own(sent, sent', w, Seq(Seq(Events)))
          /\ Own(batches, batches', w, Nat)
        BY <1>0, <1>11, <2>1 DEF SendSingle, TypeInv, Own
    <2> QED BY <1>0, <1>11, <2>1, <2>2, <2>3, OwnSame, OwnPick DEF SendSingle, OwnStep, building, pacing
<1>12. CASE Stops(w)
    <2>1. Own(place, place', w, Places)
        BY <1>12, OwnPlace DEF Stops, Places
    <2> QED BY <1>0, <1>12, <2>1, OwnSame DEF Stops, OwnStep, building, pacing, output, cursor
<1> QED
    BY <1>2, <1>3, <1>4, <1>5, <1>6, <1>7, <1>8, <1>9, <1>10, <1>11, <1>12 DEF Step

(* What one worker does leaves the entries of the others alone.             *)
LEMMA OtherEntries ==
    ASSUME TypeInv, NEW w \in Workers, OwnStep(w), NEW q \in Workers, q # w
    PROVE  /\ current'[q] = current[q] /\ remaining'[q] = remaining[q]
           /\ position'[q] = position[q] /\ picks'[q] = picks[q] /\ place'[q] = place[q]
           /\ packet'[q] = packet[q] /\ packets'[q] = packets[q]
           /\ pending_packet'[q] = pending_packet[q]
           /\ pending_payload'[q] = pending_payload[q]
           /\ due'[q] = due[q] /\ sent'[q] = sent[q] /\ batches'[q] = batches[q]
<1>1. /\ current'[q] = current[q] /\ remaining'[q] = remaining[q]
      /\ position'[q] = position[q] /\ picks'[q] = picks[q] /\ place'[q] = place[q]
    BY DEF OwnStep, Own, TypeInv
<1>2. /\ packet'[q] = packet[q] /\ packets'[q] = packets[q]
      /\ pending_packet'[q] = pending_packet[q]
      /\ pending_payload'[q] = pending_payload[q]
    BY DEF OwnStep, Own, TypeInv
<1>3. due'[q] = due[q] /\ sent'[q] = sent[q] /\ batches'[q] = batches[q]
    BY DEF OwnStep, Own, TypeInv
<1> QED BY <1>1, <1>2, <1>3

(* The types are kept by every step.                                        *)
LEMMA TypeStep ==
    ASSUME TypeInv, [Next]_vars
    PROVE  TypeInv'
<1>1. CASE Tick
    <2>1. /\ now' = now + 1
          /\ UNCHANGED <<config, cursor, place, building, due, stop, output>>
        BY <1>1 DEF Tick
    <2>2. Workers' = Workers /\ Events' = Events
        BY <2>1 DEF Workers, Events, config
    <2> QED BY <2>1, <2>2 DEF TypeInv, config, cursor, building, output
<1>2. CASE RequestStop
    <2>1. /\ stop' = TRUE
          /\ UNCHANGED <<config, cursor, place, building, due, now, output>>
        BY <1>2 DEF RequestStop
    <2>2. Workers' = Workers /\ Events' = Events
        BY <2>1 DEF Workers, Events, config
    <2> QED BY <2>1, <2>2 DEF TypeInv, config, cursor, building, output
<1>3. CASE UNCHANGED vars
    BY <1>3 DEF vars, TypeInv, Workers, Events, config, cursor, building, pacing, output
<1>4. ASSUME NEW w \in Workers, Step(w)
      PROVE  TypeInv'
    <2>1. /\ OwnStep(w) /\ next' \in Nat /\ wraps' \in Nat
          /\ UNCHANGED <<config, now, stop>>
        BY <1>4, StepOwn
    <2>2. Workers' = Workers /\ Events' = Events
        BY <2>1 DEF Workers, Events, config
    <2>3. /\ current' \in [Workers -> 0..(Len(items) - 1)]
          /\ remaining' \in [Workers -> Nat] /\ position' \in [Workers -> 0..(Span - 1)]
          /\ place' \in [Workers -> Places]
        BY <2>1, OwnType DEF TypeInv, OwnStep
    <2>4. /\ packet' \in [Workers -> Seq(Events)] /\ packets' \in [Workers -> Seq(Seq(Events))]
          /\ pending_packet' \in [Workers -> Seq(Events)]
          /\ pending_payload' \in [Workers -> Seq(Events)]
        BY <2>1, OwnType DEF TypeInv, OwnStep
    <2>5. /\ due' \in [Workers -> Nat] /\ picks' \in [Workers -> Seq(Events)]
          /\ sent' \in [Workers -> Seq(Seq(Events))] /\ batches' \in [Workers -> Nat]
        BY <2>1, OwnType DEF TypeInv, OwnStep
    <2> QED BY <2>1, <2>2, <2>3, <2>4, <2>5 DEF TypeInv, config
<1> QED BY <1>1, <1>2, <1>3, <1>4 DEF Next

-----------------------------------------------------------------------------
(* Where an event may be while a worker is in a place.                      *)
WorkInv(w) ==
    /\ place[w] = "build" => packets[w] = <<>>
    /\ place[w] \notin {"events", "close", "threw"} => packet[w] = <<>>
    /\ place[w] \in {"events", "close"} => pending_packet[w] = <<>>
    /\ place[w] = "events" => pending_payload[w] = <<>>
    /\ place[w] = "packet" /\ pending_packet[w] # <<>> => packets[w] = <<>>
    /\ kind # "packed" =>
          /\ place[w] \notin {"packet", "close", "threw"}
          /\ packet[w] = <<>> /\ pending_packet[w] = <<>> /\ pending_payload[w] = <<>>
    /\ single(w) => packets[w] = <<>> /\ place[w] \in {"build", "paced", "wait", "done"}

(* NothingLost for one worker.                                              *)
LostInv(w) ==
    place[w] # "threw" =>
        picks[w] = Content(sent[w], packets[w], packet[w], pending_packet[w], pending_payload[w])

(* What events take when they are rendered, by configuration.               *)
Frame(k, texts, e) == IF k = "datagrams" THEN texts[e.item] ELSE append_frame(texts[e.item])
BytesOf(k, texts, events) == Len(FlattenSeq([i \in 1..Len(events) |-> Frame(k, texts, events[i])]))

(* A datagram as DatagramsFit wants it.                                     *)
Fits(k, texts, datagram) ==
    /\ BytesOf(k, texts, datagram) <= DatagramTarget \/ Len(datagram) = 1
    /\ BytesOf(k, texts, datagram) <= MaximumPayload
    /\ Len(datagram) \in 1..EventLimit
AllFit(k, texts, batch) == \A i \in DOMAIN batch : Fits(k, texts, batch[i])

(* What a worker that packs has sent and holds.                             *)
PackInv(w) ==
    kind = "packed" =>
        /\ AllFit(kind, items, sent[w]) /\ AllFit(kind, items, packets[w])
        /\ packet[w] # <<>> => Fits(kind, items, packet[w])
        /\ pending_packet[w] # <<>> =>
              /\ Fits(kind, items, pending_packet[w])
              /\ Len(pending_packet[w]) <= event_limit(w)
        /\ pending_payload[w] # <<>> =>
              Fits(kind, items, pending_payload[w]) /\ Len(pending_payload[w]) = 1
        /\ EventsOf(w) + Len(packet[w]) <= event_limit(w)
        /\ place[w] = "events" => packet[w] # <<>> \/ EventsOf(w) < event_limit(w)
        /\ place[w] = "close" => packet[w] # <<>>
        /\ Len(packets[w]) > 1 => BytesOf(kind, items, FlattenSeq(packets[w])) <= BatchTarget

(* The time stamp to come is the next of the worker's own.                  *)
DealtInv(w) ==
    /\ position[w] = ((w - 1) + Len(picks[w]) * N) % Span
    /\ \A k \in DOMAIN picks[w] : picks[w][k].at = ((w - 1) + (k - 1) * N) % Span

(* The events that left, and the batch that waits, are within the quota of the
   time that the pacer has dealt out, but for what it rounds off.           *)
Out(w) == Len(FlattenSeq(sent[w]))
Batch(w) == IF single(w) THEN 1 ELSE EventsOf(w)
RateInv(w) ==
    target_eps > 0 =>
        /\ Second * Out(w) <= quota_for_worker(w) * (due[w] + batches[w])
        /\ place[w] = "wait" =>
              Second * (Out(w) + Batch(w)) <= quota_for_worker(w) * (due[w] + batches[w] + 1)
        /\ Second * Out(w) <= quota_for_worker(w) * (now + batches[w])

(* What the configuration fixes.                                            *)
LEMMA Config ==
    ASSUME UNCHANGED config, NEW w
    PROVE  /\ Workers' = Workers /\ single(w)' = single(w)
           /\ event_limit(w)' = event_limit(w) /\ quota_for_worker(w)' = quota_for_worker(w)
BY DEF config, Workers, single, event_limit, quota_for_worker

(* What each action does with the entries of its worker.                    *)
LEMMA StartBatchDoes ==
    ASSUME TypeInv, NEW w \in Workers, StartBatch(w)
    PROVE  /\ place[w] = "build" /\ packets'[w] = <<>> /\ packet'[w] = <<>>
           /\ place'[w] = (IF kind = "packed" THEN "packet"
                           ELSE IF single(w) THEN "paced" ELSE "events")
           /\ UNCHANGED <<config, cursor, pending_packet, pending_payload, pacing, output>>
BY DEF StartBatch, TypeInv, Goes

(* A leftover becomes the datagram.                                         *)
LEMMA StartPacketDoes ==
    ASSUME TypeInv, NEW w \in Workers, StartPacket(w)
    PROVE  /\ place[w] = "packet"
           /\ \/ /\ pending_packet[w] # <<>> /\ place'[w] = "close"
                 /\ packet'[w] = pending_packet[w] /\ pending_packet'[w] = <<>>
                 /\ UNCHANGED pending_payload
              \/ /\ pending_packet[w] = <<>> /\ place'[w] = "events"
                 /\ packet'[w] = pending_payload[w] /\ pending_payload'[w] = <<>>
                 /\ EventsOf(w) < event_limit(w) /\ UNCHANGED pending_packet
              \/ place'[w] = "paced" /\ UNCHANGED <<packet, pending_packet, pending_payload>>
           /\ UNCHANGED <<config, cursor, packets, pacing, output>>
<1>1. \A x : packet' = [packet EXCEPT ![w] = x] => packet'[w] = x
    BY DEF TypeInv
<1>2. \A x : pending_packet' = [pending_packet EXCEPT ![w] = x] => pending_packet'[w] = x
    BY DEF TypeInv
<1>3. \A x : pending_payload' = [pending_payload EXCEPT ![w] = x] => pending_payload'[w] = x
    BY DEF TypeInv
<1>4. \A x : Goes(w, x) => place'[w] = x
    BY DEF TypeInv, Goes
<1> QED BY <1>1, <1>2, <1>3, <1>4, Zenon DEF StartPacket

(* The event joins the datagram, waits, or is too large.                    *)
LEMMA PackEventDoes ==
    ASSUME TypeInv, NEW w \in Workers, PackEvent(w)
    PROVE  \E event \in Events :
              LET size == newline_frame_size(items[event.item])
              IN  /\ Pick(w, event) /\ place[w] = "events" /\ kind = "packed"
                  /\ Len(packet[w]) < EventLimit
                  /\ EventsOf(w) + Len(packet[w]) < event_limit(w)
                  /\ \/ place'[w] = "threw" /\ UNCHANGED <<packet, pending_payload>>
                     \/ /\ place'[w] = "close" /\ packet[w] # <<>> /\ ~(size > MaximumPayload)
                        /\ pending_payload'[w] = <<event>> /\ UNCHANGED packet
                     \/ /\ packet'[w] = Append(packet[w], event)
                        /\ packet[w] = <<>> \/ ~(Bytes(packet[w]) + size > DatagramTarget)
                        /\ ~(size > MaximumPayload)
                        /\ UNCHANGED <<place, pending_payload>>
                  /\ UNCHANGED <<config, packets, pending_packet, pacing, output>>
<1>1. \A x : packet' = [packet EXCEPT ![w] = x] => packet'[w] = x
    BY DEF TypeInv
<1>2. \A x : pending_payload' = [pending_payload EXCEPT ![w] = x] => pending_payload'[w] = x
    BY DEF TypeInv
<1>3. \A x : Goes(w, x) => place'[w] = x
    BY DEF TypeInv, Goes
<1> QED BY <1>1, <1>2, <1>3, Zenon DEF PackEvent

(* The datagram joins the batch, or waits.                                  *)
LEMMA ClosePacketDoes ==
    ASSUME TypeInv, NEW w \in Workers, ClosePacket(w)
    PROVE  /\ place[w] = "close" /\ packet'[w] = <<>>
           /\ \/ /\ packets[w] # <<>> /\ place'[w] = "paced"
                 /\ pending_packet'[w] = packet[w] /\ UNCHANGED packets
              \/ /\ packets[w] = <<>> \/ ~(Bytes(FlattenSeq(packets[w]) \o packet[w]) > BatchTarget)
                 /\ place'[w] = "packet" /\ UNCHANGED pending_packet
                 /\ packets'[w] = Append(packets[w], packet[w])
           /\ UNCHANGED <<config, cursor, pending_payload, pacing, output>>
<1>1. \A x : packet' = [packet EXCEPT ![w] = x] => packet'[w] = x
    BY DEF TypeInv
<1>2. \A x : pending_packet' = [pending_packet EXCEPT ![w] = x] => pending_packet'[w] = x
    BY DEF TypeInv
<1>3. \A x : packets' = [packets EXCEPT ![w] = x] => packets'[w] = x
    BY DEF TypeInv
<1>4. \A x : Goes(w, x) => place'[w] = x
    BY DEF TypeInv, Goes
<1> QED BY <1>1, <1>2, <1>3, <1>4, Zenon DEF ClosePacket

(* The event joins the batch.                                               *)
LEMMA AddEventDoes ==
    ASSUME TypeInv, NEW w \in Workers, AddEvent(w)
    PROVE  \E event \in Events :
              /\ Pick(w, event) /\ place[w] = "events" /\ kind # "packed"
              /\ packets'[w] = Append(packets[w], <<event>>)
                 \/ packets'[w] = <<FlattenSeq(packets[w]) \o <<event>> >>
              /\ UNCHANGED <<config, place, packet, pending_packet, pending_payload, pacing, output>>
<1>1. \A x : packets' = [packets EXCEPT ![w] = x] => packets'[w] = x
    BY DEF TypeInv
<1> QED BY <1>1, Zenon DEF AddEvent

(* The batch leaves.                                                        *)
LEMMA SendDoes ==
    ASSUME TypeInv, NEW w \in Workers, Send(w)
    PROVE  /\ place[w] = "wait" /\ ~single(w) /\ place'[w] = "build"
           /\ quota_for_worker(w) = 0 \/ now >= due[w]
           /\ sent'[w] = sent[w] \o packets[w] /\ packets'[w] = <<>>
           /\ batches'[w] = batches[w] + 1
           /\ UNCHANGED <<config, cursor, packet, pending_packet, pending_payload, pacing>>
BY DEF Send, Due, TypeInv, Goes

(* The event leaves at once.                                                *)
LEMMA SendSingleDoes ==
    ASSUME TypeInv, NEW w \in Workers, SendSingle(w)
    PROVE  \E event \in Events :
              /\ Pick(w, event) /\ place[w] = "wait" /\ single(w) /\ place'[w] = "build"
              /\ quota_for_worker(w) = 0 \/ now >= due[w]
              /\ sent'[w] = Append(sent[w], <<event>>) /\ batches'[w] = batches[w] + 1
              /\ UNCHANGED <<config, building, pacing>>
<1>1. \A x : sent' = [sent EXCEPT ![w] = x] => sent'[w] = x
    BY DEF TypeInv
<1>2. \A x : batches' = [batches EXCEPT ![w] = x] => batches'[w] = x
    BY DEF TypeInv
<1>3. \A x : Goes(w, x) => place'[w] = x
    BY DEF TypeInv, Goes
<1> QED BY <1>1, <1>2, <1>3, Zenon DEF SendSingle, Due

(* The others only go to another place.                                     *)
LEMMA OthersDo ==
    ASSUME TypeInv, NEW w \in Workers
    PROVE  /\ PacketFull(w) => /\ place[w] = "events" /\ kind = "packed" /\ place'[w] = "close"
                               /\ \/ Len(packet[w]) = EventLimit
                                  \/ EventsOf(w) + Len(packet[w]) >= event_limit(w)
                               /\ UNCHANGED <<config, cursor, building, pacing, output>>
           /\ EventsReady(w) => /\ place[w] = "events" /\ kind # "packed" /\ place'[w] = "paced"
                                /\ UNCHANGED <<config, cursor, building, pacing, output>>
           /\ Pace(w) => /\ place[w] = "paced" /\ place'[w] = "wait"
                         /\ UNCHANGED <<config, cursor, building, now, stop, output>>
           /\ Stops(w) => /\ place[w] \in {"build", "wait"} /\ place'[w] = "done"
                          /\ UNCHANGED <<config, cursor, building, pacing, output>>
<1>1. \A x : Goes(w, x) => place'[w] = x
    BY DEF TypeInv, Goes
<1> QED BY <1>1, Zenon DEF PacketFull, EventsReady, Pace, Stops

-----------------------------------------------------------------------------
(* Nothing is lost.                                                         *)

(* A worker keeps its events where they belong.                             *)
LEMMA WorkStep ==
    ASSUME TypeInv, NEW w \in Workers, Step(w), WorkInv(w)
    PROVE  WorkInv(w)'
<1>0. single(w) => kind # "packed"
    BY DEF single
<1>1. CASE StartBatch(w)
    BY <1>0, <1>1, StartBatchDoes, Config DEF WorkInv, config
<1>2. CASE StartPacket(w)
    BY <1>0, <1>2, StartPacketDoes, Config DEF WorkInv, config
<1>3. CASE PackEvent(w)
    BY <1>0, <1>3, PackEventDoes, Config DEF WorkInv, config
<1>4. CASE PacketFull(w)
    BY <1>0, <1>4, OthersDo, Config DEF WorkInv, config, building
<1>5. CASE ClosePacket(w)
    BY <1>0, <1>5, ClosePacketDoes, Config DEF WorkInv, config
<1>6. CASE AddEvent(w)
    BY <1>0, <1>6, AddEventDoes, Config DEF WorkInv, config
<1>7. CASE EventsReady(w)
    BY <1>0, <1>7, OthersDo, Config DEF WorkInv, config, building
<1>8. CASE Pace(w)
    BY <1>0, <1>8, OthersDo, Config DEF WorkInv, config, building
<1>9. CASE Send(w)
    BY <1>0, <1>9, SendDoes, Config DEF WorkInv, config
<1>10. CASE SendSingle(w)
    BY <1>0, <1>10, SendSingleDoes, Config DEF WorkInv, config, building
<1>11. CASE Stops(w)
    BY <1>0, <1>11, OthersDo, Config DEF WorkInv, config, building
<1> QED
    BY <1>1, <1>2, <1>3, <1>4, <1>5, <1>6, <1>7, <1>8, <1>9, <1>10, <1>11 DEF Step

(* What it rendered stays accounted for.                                    *)
LEMMA LostStep ==
    ASSUME TypeInv, NEW w \in Workers, Step(w), WorkInv(w), LostInv(w)
    PROVE  LostInv(w)'
<1> DEFINE Held == Content(sent[w], packets[w], packet[w], pending_packet[w], pending_payload[w])
           S == Events
<1>0. /\ packet[w] \in Seq(S) /\ packets[w] \in Seq(Seq(S)) /\ picks[w] \in Seq(S)
      /\ pending_packet[w] \in Seq(S) /\ pending_payload[w] \in Seq(S)
      /\ sent[w] \in Seq(Seq(S))
    BY Entries
<1> HIDE DEF S
<1>1. CASE StartBatch(w)
    BY <1>1, StartBatchDoes DEF WorkInv, LostInv, cursor, output
<1>2. CASE StartPacket(w)
    <2>1. /\ UNCHANGED <<picks, sent, packets>> /\ picks[w] = Held
          /\ packet[w] = Nil /\ place[w] = "packet"
        BY <1>2, StartPacketDoes DEF WorkInv, LostInv, cursor, output, Nil
    <2>2. CASE pending_packet[w] # <<>> /\ packet'[w] = pending_packet[w]
               /\ pending_packet'[w] = Nil /\ UNCHANGED pending_payload
        <3>1. Content(sent[w], packets[w], Nil, pending_packet[w], pending_payload[w])
              = Content(sent[w], packets[w], pending_packet[w], Nil, pending_payload[w])
            BY <1>0, ContentMoves
        <3> QED BY <2>1, <2>2, <3>1 DEF LostInv
    <2>3. CASE pending_packet[w] = Nil /\ packet'[w] = pending_payload[w]
               /\ pending_payload'[w] = Nil /\ UNCHANGED pending_packet
        <3>1. Content(sent[w], packets[w], Nil, Nil, pending_payload[w])
              = Content(sent[w], packets[w], pending_payload[w], Nil, Nil)
            BY <1>0, ContentMoves
        <3> QED BY <2>1, <2>3, <3>1 DEF LostInv
    <2>4. CASE UNCHANGED <<packet, pending_packet, pending_payload>>
        BY <2>1, <2>4 DEF LostInv
    <2> QED BY <1>2, <2>2, <2>3, <2>4, StartPacketDoes DEF Nil
<1>3. CASE PackEvent(w)
    <2>1. PICK event \in Events :
              /\ Pick(w, event) /\ place[w] = "events"
              /\ \/ place'[w] = "threw"
                 \/ pending_payload'[w] = One(event) /\ UNCHANGED packet
                 \/ packet'[w] = More(packet[w], event) /\ UNCHANGED pending_payload
              /\ UNCHANGED <<packets, pending_packet, sent>>
        BY <1>3, PackEventDoes DEF output, One, More
    <2>2. /\ picks'[w] = More(picks[w], event) /\ picks[w] = Held
          /\ pending_packet[w] = Nil /\ pending_payload[w] = Nil
        BY <2>1, OwnPick DEF WorkInv, LostInv, Nil, More
    <2>3. /\ Content(sent[w], packets[w], packet[w], Nil, One(event))
             = More(Content(sent[w], packets[w], packet[w], Nil, Nil), event)
          /\ Content(sent[w], packets[w], More(packet[w], event), Nil, Nil)
             = More(Content(sent[w], packets[w], packet[w], Nil, Nil), event)
        <3>1. event \in S
            BY <2>1 DEF S
        <3> QED BY <1>0, <3>1, ContentGrows
    <2> QED BY <2>1, <2>2, <2>3 DEF LostInv
<1>4. CASE PacketFull(w)
    BY <1>4, OthersDo DEF LostInv, cursor, building, output
<1>5. CASE ClosePacket(w)
    <2>1. /\ UNCHANGED <<picks, sent, pending_payload>> /\ picks[w] = Held
          /\ packet'[w] = Nil /\ pending_packet[w] = Nil
        BY <1>5, ClosePacketDoes DEF WorkInv, LostInv, cursor, output, Nil
    <2>2. CASE pending_packet'[w] = packet[w] /\ UNCHANGED packets
        <3>1. Content(sent[w], packets[w], Nil, packet[w], pending_payload[w])
              = Content(sent[w], packets[w], packet[w], Nil, pending_payload[w])
            BY <1>0, ContentMoves
        <3> QED BY <2>1, <2>2, <3>1 DEF LostInv
    <2>3. CASE packets'[w] = More(packets[w], packet[w]) /\ UNCHANGED pending_packet
        <3>1. Content(sent[w], More(packets[w], packet[w]), Nil, Nil, pending_payload[w])
              = Content(sent[w], packets[w], packet[w], Nil, pending_payload[w])
            BY <1>0, ContentMoves
        <3> QED BY <2>1, <2>3, <3>1 DEF LostInv
    <2> QED BY <1>5, <2>2, <2>3, ClosePacketDoes DEF More
<1>6. CASE AddEvent(w)
    <2>1. PICK event \in Events :
              /\ Pick(w, event) /\ place[w] = "events" /\ kind # "packed"
              /\ packets'[w] = More(packets[w], One(event))
                 \/ packets'[w] = One(More(FlattenSeq(packets[w]), event))
              /\ UNCHANGED <<packet, pending_packet, pending_payload, sent>>
        <3>1. PICK event \in Events :
                  /\ Pick(w, event) /\ place[w] = "events" /\ kind # "packed"
                  /\ packets'[w] = Append(packets[w], <<event>>)
                     \/ packets'[w] = <<FlattenSeq(packets[w]) \o <<event>> >>
                  /\ UNCHANGED <<packet, pending_packet, pending_payload, sent>>
            BY <1>6, AddEventDoes DEF output
        <3>2. More(FlattenSeq(packets[w]), event) = Joined(FlattenSeq(packets[w]), One(event))
            <4>1. FlattenSeq(packets[w]) \in Seq(S) /\ event \in S
                BY <1>0, FlattenType DEF S
            <4> QED BY <4>1, AppendJoined
        <3> QED BY <3>1, <3>2 DEF More, One, Joined
    <2>2. /\ picks'[w] = More(picks[w], event) /\ picks[w] = Held /\ packet[w] = Nil
          /\ pending_packet[w] = Nil /\ pending_payload[w] = Nil
        BY <2>1, OwnPick DEF WorkInv, LostInv, Nil, More
    <2>3. /\ Content(sent[w], More(packets[w], One(event)), Nil, Nil, Nil)
             = More(Content(sent[w], packets[w], Nil, Nil, Nil), event)
          /\ Content(sent[w], One(More(FlattenSeq(packets[w]), event)), Nil, Nil, Nil)
             = More(Content(sent[w], packets[w], Nil, Nil, Nil), event)
        <3>1. event \in S /\ Nil \in Seq(S)
            BY <2>1, JoinNil DEF S
        <3> QED BY <1>0, <3>1, ContentGrows
    <2> QED BY <2>1, <2>2, <2>3 DEF LostInv
<1>7. CASE EventsReady(w)
    BY <1>7, OthersDo DEF LostInv, cursor, building, output
<1>8. CASE Pace(w)
    BY <1>8, OthersDo DEF LostInv, cursor, building, output
<1>9. CASE Send(w)
    <2>1. /\ sent'[w] = sent[w] \o packets[w] /\ packets'[w] = <<>>
          /\ UNCHANGED <<picks, packet, pending_packet, pending_payload>> /\ picks[w] = Held
        BY <1>9, SendDoes DEF LostInv, cursor
    <2>2. Content(sent[w] \o packets[w], <<>>, packet[w], pending_packet[w], pending_payload[w])
          = Held
        BY <1>0, ContentSent
    <2> QED BY <2>1, <2>2 DEF LostInv
<1>10. CASE SendSingle(w)
    <2>1. PICK event \in Events :
              /\ Pick(w, event) /\ place[w] = "wait" /\ single(w)
              /\ sent'[w] = More(sent[w], One(event))
              /\ UNCHANGED <<packets, packet, pending_packet, pending_payload>>
        BY <1>10, SendSingleDoes DEF building, More, One
    <2>2. /\ picks'[w] = More(picks[w], event) /\ picks[w] = Held
          /\ packets[w] = Nil /\ packet[w] = Nil
          /\ pending_packet[w] = Nil /\ pending_payload[w] = Nil
        BY <2>1, OwnPick DEF WorkInv, LostInv, Nil, More, single
    <2>3. Content(More(sent[w], One(event)), Nil, Nil, Nil, Nil)
          = More(Content(sent[w], Nil, Nil, Nil, Nil), event)
        <3>1. event \in S /\ Nil \in Seq(S) /\ Nil \in Seq(Seq(S))
            BY <2>1, JoinNil DEF S
        <3> QED BY <1>0, <3>1, ContentGrows
    <2> QED BY <2>1, <2>2, <2>3 DEF LostInv
<1>11. CASE Stops(w)
    BY <1>11, OthersDo DEF LostInv, cursor, building, output
<1> QED
    BY <1>1, <1>2, <1>3, <1>4, <1>5, <1>6, <1>7, <1>8, <1>9, <1>10, <1>11 DEF Step

-----------------------------------------------------------------------------
(* Datagrams and batches fit.                                               *)

(* The bytes are those of the configuration.                                *)
LEMMA BytesIs == \A events : Bytes(events) = BytesOf(kind, items, events)
BY DEF Bytes, BytesOf, Frame

(* An event more takes its frame more.                                      *)
LEMMA BytesMore ==
    ASSUME TypeInv, kind = "packed"
    PROVE  /\ BytesOf(kind, items, Nil) = 0
           /\ \A e \in Events : newline_frame_size(items[e.item]) \in Nat
           /\ \A events \in Seq(Events) :
                /\ BytesOf(kind, items, events) \in Nat
                /\ \A e \in Events :
                      BytesOf(kind, items, More(events, e))
                        = BytesOf(kind, items, events) + newline_frame_size(items[e.item])
<1> DEFINE Frames(events) == [i \in 1..Len(events) |-> Frame(kind, items, events[i])]
<1>1. \A e \in Events : items[e.item] \in Text
    <2>1. items \in Seq(Seq({"a", "r", "n"}))
        BY SendLoopAssumption DEF TypeInv
    <2> QED BY <2>1 DEF Events, Text
<1>2. ASSUME NEW e \in Events
      PROVE  /\ Frame(kind, items, e) \in Seq(Char)
             /\ Len(Frame(kind, items, e)) = newline_frame_size(items[e.item])
             /\ newline_frame_size(items[e.item]) \in Nat
    BY <1>1, FrameSize DEF Frame
<1>3. ASSUME NEW events \in Seq(Events)
      PROVE  /\ Frames(events) \in Seq(Seq(Char))
             /\ Len(Frames(events)) = Len(events)
    <2>1. Len(events) \in Nat /\ \A i \in 1..Len(events) : Frame(kind, items, events[i]) \in Seq(Char)
        BY <1>2
    <2> QED BY <2>1, IsASeq
<1>4. ASSUME NEW events \in Seq(Events)
      PROVE  FlattenSeq(Frames(events)) \in Seq(Char) /\ BytesOf(kind, items, events) \in Nat
    <2>1. FlattenSeq(Frames(events)) \in Seq(Char)
        <3> HIDE DEF Frames
        <3> QED BY <1>3, FlattenType
    <2> QED BY <2>1 DEF BytesOf
<1>5. ASSUME NEW events \in Seq(Events), NEW e \in Events
      PROVE  BytesOf(kind, items, More(events, e))
               = BytesOf(kind, items, events) + newline_frame_size(items[e.item])
    <2>1. Append(events, e) \in Seq(Events) /\ Len(Append(events, e)) = Len(events) + 1
          /\ Len(events) \in Nat
          /\ \A i \in 1..Len(events) : Append(events, e)[i] = events[i]
          /\ Append(events, e)[Len(events) + 1] = e
        OBVIOUS
    <2> DEFINE more == Append(events, e)
    <2>2. /\ Frames(events) \in Seq(Seq(Char)) /\ Len(Frames(events)) = Len(events)
          /\ Frames(more) \in Seq(Seq(Char)) /\ Len(Frames(more)) = Len(events) + 1
        BY <1>3, <2>1
    <2>3. Frames(more) = Append(Frames(events), Frame(kind, items, e))
        <3> HIDE DEF more
        <3>1. Frames(more)[Len(events) + 1] = Frame(kind, items, e)
            BY <2>1 DEF more
        <3>2. \A i \in 1..Len(events) : Frames(more)[i] = Frames(events)[i]
            BY <2>1 DEF more
        <3> HIDE DEF Frames
        <3> QED BY <1>2, <2>1, <2>2, <3>1, <3>2
    <2>4. FlattenSeq(Frames(more)) = FlattenSeq(Frames(events)) \o Frame(kind, items, e)
        <3> HIDE DEF more, Frames
        <3> QED BY <1>2, <1>4, <2>2, <2>3, FlattenAppend
    <2>5. Len(FlattenSeq(Frames(more))) = Len(FlattenSeq(Frames(events))) + newline_frame_size(items[e.item])
        <3> HIDE DEF more, Frames
        <3> QED BY <1>2, <1>4, <2>4, ConcatProperties
    <2> QED BY <2>5 DEF BytesOf, More
<1>6. BytesOf(kind, items, Nil) = 0
    <2>1. Frames(<<>>) = <<>>
        OBVIOUS
    <2> QED BY <2>1, FlattenEmpty DEF BytesOf, Nil
<1> QED BY <1>2, <1>4, <1>5, <1>6

(* Sequences of datagrams that fit.                                         *)
LEMMA AllFitMore ==
    ASSUME TypeInv, NEW S, NEW s \in Seq(S), AllFit(kind, items, s)
    PROVE  /\ \A d \in S : Fits(kind, items, d) => AllFit(kind, items, Append(s, d))
           /\ \A t \in Seq(S) : AllFit(kind, items, t) => AllFit(kind, items, s \o t)
           /\ AllFit(kind, items, <<>>)
<1>1. ASSUME NEW d \in S, Fits(kind, items, d)
      PROVE  AllFit(kind, items, Append(s, d))
    <2>1. \A i \in DOMAIN Append(s, d) : Append(s, d)[i] = d \/ (i \in DOMAIN s /\ Append(s, d)[i] = s[i])
        OBVIOUS
    <2> QED BY <1>1, <2>1 DEF AllFit
<1>2. ASSUME NEW t \in Seq(S), AllFit(kind, items, t)
      PROVE  AllFit(kind, items, s \o t)
    <2>1. ASSUME NEW i \in DOMAIN (s \o t)
          PROVE  Fits(kind, items, (s \o t)[i])
        <3>1. /\ i \in 1..(Len(s) + Len(t)) /\ Len(s) \in Nat /\ Len(t) \in Nat
              /\ (s \o t)[i] = IF i <= Len(s) THEN s[i] ELSE t[i - Len(s)]
            OBVIOUS
        <3>2. CASE i <= Len(s)
            BY <3>1, <3>2 DEF AllFit
        <3>3. CASE ~(i <= Len(s))
            <4>1. i - Len(s) \in DOMAIN t /\ (s \o t)[i] = t[i - Len(s)]
                BY <3>1, <3>3
            <4> QED BY <1>2, <4>1 DEF AllFit
        <3> QED BY <3>2, <3>3
    <2> QED BY <2>1 DEF AllFit
<1>3. AllFit(kind, items, <<>>)
    BY DEF AllFit
<1> QED BY <1>1, <1>2, <1>3

(* Packing keeps to the targets and limits.                                 *)
LEMMA PackStep ==
    ASSUME TypeInv, NEW w \in Workers, Step(w), WorkInv(w), PackInv(w)
    PROVE  PackInv(w)'
<1> SUFFICES ASSUME kind = "packed", kind' = kind, items' = items
             PROVE  PackInv(w)'
    BY StepOwn DEF PackInv, config
<1> DEFINE S == Events
<1>0. /\ packet[w] \in Seq(S) /\ packets[w] \in Seq(Seq(S)) /\ sent[w] \in Seq(Seq(S))
      /\ pending_packet[w] \in Seq(S) /\ pending_payload[w] \in Seq(S)
      /\ EventsOf(w) \in Nat /\ event_limit(w) \in Nat \ {0}
      /\ FlattenSeq(packets[w]) \in Seq(S)
      /\ FlattenSeq(<<>>) = <<>> /\ \A a \in Seq(S) : Len(a) \in Nat /\ (a # <<>> => Len(a) > 0)
      /\ ~single(w)
    BY Entries, FlattenType, FlattenEmpty, Quota DEF EventsOf, single
<1> HIDE DEF S
<1>1. UNCHANGED packets => EventsOf(w)' = EventsOf(w)
    BY DEF EventsOf
<1>2. event_limit(w)' = event_limit(w)
    BY StepOwn, Config
<1>3. packets'[w] = <<>> => EventsOf(w)' = 0
    BY <1>0 DEF EventsOf
<1>4. CASE StartBatch(w)
    <2>1. AllFit(kind, items, <<>>)
        BY DEF AllFit
    <2> QED BY <1>0, <1>2, <1>3, <1>4, <2>1, StartBatchDoes DEF PackInv, output
<1>5. CASE StartPacket(w)
    <2>1. /\ UNCHANGED <<sent, packets>> /\ place[w] = "packet" /\ packet[w] = <<>>
        BY <1>5, StartPacketDoes DEF WorkInv, output
    <2>2. CASE /\ pending_packet[w] # <<>> /\ place'[w] = "close"
               /\ packet'[w] = pending_packet[w] /\ pending_packet'[w] = <<>>
               /\ UNCHANGED pending_payload
        <3>1. EventsOf(w) = 0
            BY <1>0, <2>1, <2>2 DEF WorkInv, EventsOf
        <3>2. Len(pending_packet[w]) \in Nat /\ EventsOf(w)' = 0
            BY <1>0, <1>1, <2>1, <3>1
        <3> QED BY <1>0, <1>2, <2>1, <2>2, <3>2 DEF PackInv
    <2>3. CASE /\ place'[w] = "events" /\ packet'[w] = pending_payload[w]
               /\ pending_payload'[w] = <<>> /\ EventsOf(w) < event_limit(w)
               /\ UNCHANGED pending_packet
        <3>1. Len(pending_payload[w]) \in Nat /\ Len(pending_payload[w]) <= 1
            <4>1. CASE pending_payload[w] = <<>>
                BY <4>1
            <4>2. CASE pending_payload[w] # <<>>
                <5>1. Len(pending_payload[w]) = 1
                    BY <4>2 DEF PackInv
                <5> QED BY <5>1
            <4> QED BY <4>1, <4>2
        <3> QED BY <1>0, <1>1, <1>2, <2>1, <2>3, <3>1 DEF PackInv
    <2>4. CASE place'[w] = "paced" /\ UNCHANGED <<packet, pending_packet, pending_payload>>
        BY <1>0, <1>1, <1>2, <2>1, <2>4 DEF PackInv
    <2> QED BY <1>5, <2>2, <2>3, <2>4, StartPacketDoes
<1>6. CASE PackEvent(w)
    <2>1. PICK event \in Events :
              LET size == newline_frame_size(items[event.item])
              IN  /\ place[w] = "events" /\ Len(packet[w]) < EventLimit
                  /\ EventsOf(w) + Len(packet[w]) < event_limit(w)
                  /\ \/ place'[w] = "threw" /\ UNCHANGED <<packet, pending_payload>>
                     \/ /\ place'[w] = "close" /\ packet[w] # <<>> /\ ~(size > MaximumPayload)
                        /\ pending_payload'[w] = <<event>> /\ UNCHANGED packet
                     \/ /\ packet'[w] = Append(packet[w], event)
                        /\ packet[w] = <<>> \/ ~(Bytes(packet[w]) + size > DatagramTarget)
                        /\ ~(size > MaximumPayload)
                        /\ UNCHANGED <<place, pending_payload>>
                  /\ UNCHANGED <<packets, pending_packet, sent>>
        BY <1>6, PackEventDoes DEF output
    <2> DEFINE size == newline_frame_size(items[event.item])
    <2>2. event \in S /\ size \in Nat /\ BytesOf(kind, items, packet[w]) \in Nat
          /\ BytesOf(kind, items, Append(packet[w], event)) = BytesOf(kind, items, packet[w]) + size
          /\ BytesOf(kind, items, <<event>>) = size
        <3>1. event \in S /\ packet[w] \in Seq(Events) /\ Nil \in Seq(Events)
            BY <1>0, <2>1, JoinNil DEF S
        <3>2. One(event) = More(Nil, event)
            BY DEF One, More, Nil
        <3>3. BytesOf(kind, items, Nil) = 0 /\ size \in Nat
            BY BytesMore
        <3>4. BytesOf(kind, items, More(packet[w], event)) = BytesOf(kind, items, packet[w]) + size
              /\ BytesOf(kind, items, packet[w]) \in Nat
            BY <3>1, BytesMore
        <3>5. BytesOf(kind, items, More(Nil, event)) = BytesOf(kind, items, Nil) + size
            BY <3>1, BytesMore
        <3>6. BytesOf(kind, items, One(event)) = size
            BY <3>2, <3>3, <3>5
        <3> QED BY <3>1, <3>3, <3>4, <3>6 DEF More, One
    <2> HIDE DEF size
    <2>3. /\ Bytes(packet[w]) = BytesOf(kind, items, packet[w])
          /\ DatagramTarget \in Nat /\ MaximumPayload \in Nat /\ DatagramTarget <= MaximumPayload
          /\ EventLimit \in Nat \ {0}
        BY BytesIs, SendLoopAssumption
    <2>4. CASE place'[w] = "threw" /\ UNCHANGED <<packet, pending_payload>>
        BY <1>0, <1>1, <1>2, <2>1, <2>4 DEF PackInv
    <2>5. CASE /\ place'[w] = "close" /\ packet[w] # <<>> /\ ~(size > MaximumPayload)
               /\ pending_payload'[w] = <<event>> /\ UNCHANGED packet
        <3>1. Fits(kind, items, <<event>>) /\ Len(<<event>>) = 1
            BY <2>2, <2>3, <2>5 DEF Fits
        <3> QED BY <1>0, <1>1, <1>2, <2>1, <2>5, <3>1 DEF PackInv
    <2>6. CASE /\ packet'[w] = Append(packet[w], event)
               /\ packet[w] = <<>> \/ ~(Bytes(packet[w]) + size > DatagramTarget)
               /\ ~(size > MaximumPayload)
               /\ UNCHANGED <<place, pending_payload>>
        <3>1. Len(Append(packet[w], event)) = Len(packet[w]) + 1 /\ Append(packet[w], event) # <<>>
              /\ Len(packet[w]) \in Nat
            <4>1. packet[w] \in Seq(S) /\ event \in S
                BY <1>0, <2>2
            <4> QED BY <4>1
        <3>2. packet[w] = <<>> => Append(packet[w], event) = <<event>> /\ Len(packet[w]) = 0
            BY <2>2
        <3>3. Fits(kind, items, Append(packet[w], event))
            <4>1. CASE packet[w] = <<>>
                <5>1. Len(<<event>>) = 1 /\ 1 \in 1..EventLimit /\ size <= MaximumPayload
                    BY <2>2, <2>3, <2>6
                <5>2. Fits(kind, items, <<event>>)
                    BY <2>2, <5>1 DEF Fits
                <5> QED BY <3>2, <4>1, <5>2
            <4>2. CASE packet[w] # <<>>
                <5> DEFINE b == BytesOf(kind, items, packet[w])
                <5>1. b + size <= DatagramTarget /\ b + size <= MaximumPayload
                    <6>1. b \in Nat /\ ~(b + size > DatagramTarget)
                        BY <2>2, <2>3, <2>6, <4>2
                    <6> HIDE DEF b
                    <6> QED BY <2>2, <2>3, <6>1
                <5>2. Len(packet[w]) + 1 \in 1..EventLimit
                    BY <2>1, <2>3, <3>1
                <5> QED BY <2>2, <3>1, <5>1, <5>2 DEF Fits
            <4> QED BY <4>1, <4>2
        <3>4. EventsOf(w) + (Len(packet[w]) + 1) <= event_limit(w)
            BY <1>0, <2>1, <3>1
        <3> QED BY <1>0, <1>1, <1>2, <2>1, <2>6, <3>1, <3>3, <3>4 DEF PackInv
    <2> QED BY <2>1, <2>4, <2>5, <2>6 DEF size
<1>7. CASE PacketFull(w)
    <2>1. packet[w] # <<>>
        <3>1. Len(<<>>) = 0 /\ EventLimit # 0
            BY SendLoopAssumption
        <3>2. /\ place[w] = "events"
              /\ Len(packet[w]) = EventLimit \/ EventsOf(w) + Len(packet[w]) >= event_limit(w)
            BY <1>7, OthersDo
        <3> QED BY <1>0, <3>1, <3>2 DEF PackInv
    <2> QED BY <1>1, <1>2, <1>7, <2>1, OthersDo DEF PackInv, building, output
<1>8. CASE ClosePacket(w)
    <2>1. /\ place[w] = "close" /\ packet'[w] = <<>> /\ UNCHANGED <<sent, pending_payload>>
          /\ packet[w] # <<>> /\ pending_packet[w] = <<>>
          /\ EventsOf(w) + Len(packet[w]) <= event_limit(w)
          /\ Fits(kind, items, packet[w]) /\ Len(packet[w]) \in Nat /\ Len(<<>>) = 0
        BY <1>0, <1>8, ClosePacketDoes DEF WorkInv, PackInv, output
    <2>2. CASE place'[w] = "paced" /\ pending_packet'[w] = packet[w] /\ UNCHANGED packets
        <3>1. Len(packet[w]) <= event_limit(w) /\ EventsOf(w) + 0 <= event_limit(w)
            BY <1>0, <2>1
        <3> QED BY <1>0, <1>1, <1>2, <2>1, <2>2, <3>1 DEF PackInv
    <2>3. CASE /\ packets[w] = <<>> \/ ~(Bytes(FlattenSeq(packets[w]) \o packet[w]) > BatchTarget)
               /\ place'[w] = "packet" /\ UNCHANGED pending_packet
               /\ packets'[w] = Append(packets[w], packet[w])
        <3> DEFINE more == Append(packets[w], packet[w])
                   flat == FlattenSeq(packets[w]) \o packet[w]
        <3>1. FlattenSeq(more) = flat
            BY <1>0, FlattenAppend
        <3>2. Len(flat) = EventsOf(w) + Len(packet[w])
            BY <1>0 DEF EventsOf
        <3>3. AllFit(kind, items, more)
            BY <1>0, <2>1, AllFitMore DEF PackInv
        <3>4. packets[w] = <<>> => Len(more) = 1
            BY <1>0
        <3>5. Len(more) > 1 => BytesOf(kind, items, flat) <= BatchTarget
            <4>1. flat \in Seq(S)
                BY <1>0
            <4>2. BytesOf(kind, items, flat) \in Nat /\ Bytes(flat) = BytesOf(kind, items, flat)
                  /\ BatchTarget \in Nat
                BY <4>1, BytesMore, BytesIs, SendLoopAssumption DEF S
            <4>3. packets[w] = <<>> \/ ~(Bytes(flat) > BatchTarget)
                BY <2>3, Zenon
            <4> HIDE DEF more, flat
            <4>4. CASE packets[w] = <<>>
                <5>1. Len(more) = 1
                    BY <3>4, <4>4
                <5> QED BY <5>1
            <4>5. CASE packets[w] # <<>>
                <5>1. ~(Bytes(flat) > BatchTarget)
                    BY <4>3, <4>5, Zenon
                <5>2. ~(BytesOf(kind, items, flat) > BatchTarget)
                    BY <4>2, <5>1
                <5> QED BY <4>2, <5>2
            <4> QED BY <4>4, <4>5
        <3> HIDE DEF more, flat
        <3>6. packets'[w] = more
            BY <2>3 DEF more
        <3>7. EventsOf(w)' + 0 <= event_limit(w)
            <4>1. EventsOf(w)' = Len(FlattenSeq(packets'[w]))
                BY DEF EventsOf
            <4> QED BY <1>0, <2>1, <3>1, <3>2, <3>6, <4>1
        <3> QED BY <1>2, <2>1, <2>3, <3>1, <3>3, <3>5, <3>6, <3>7 DEF PackInv
    <2> QED BY <1>8, <2>2, <2>3, ClosePacketDoes
<1>9. CASE Pace(w)
    BY <1>1, <1>2, <1>9, OthersDo DEF PackInv, building, output
<1>10. CASE Send(w)
    <2>1. /\ place'[w] = "build" /\ sent'[w] = sent[w] \o packets[w] /\ packets'[w] = <<>>
          /\ UNCHANGED <<packet, pending_packet, pending_payload>>
        BY <1>10, SendDoes
    <2>2. AllFit(kind, items, sent[w] \o packets[w]) /\ AllFit(kind, items, <<>>)
        BY <1>0, AllFitMore DEF PackInv
    <2>3. EventsOf(w)' + Len(packet[w]) <= event_limit(w)
        BY <1>0, <1>3, <2>1 DEF PackInv
    <2> QED BY <1>2, <2>1, <2>2, <2>3 DEF PackInv
<1>11. CASE Stops(w)
    BY <1>1, <1>2, <1>11, OthersDo DEF PackInv, building, output
<1>12. ~AddEvent(w) /\ ~EventsReady(w) /\ ~SendSingle(w)
    BY <1>0 DEF AddEvent, EventsReady, SendSingle
<1> QED
    BY <1>4, <1>5, <1>6, <1>7, <1>8, <1>9, <1>10, <1>11, <1>12 DEF Step

-----------------------------------------------------------------------------
(* The time stamps are dealt out.                                           *)

(* A remainder is what it is the remainder of, up to the divisor.           *)
LEMMA Remainder ==
    ASSUME NEW d \in Nat \ {0}, NEW x \in 0..(d - 1), NEW q \in Nat
    PROVE  (d * q + x) % d = x
<1> DEFINE a == d * q + x
           p == a \div d
           r == a % d
<1>1. d * q \in Nat /\ a \in Nat
    OBVIOUS
<1>2. p \in Nat /\ r \in 0..(d - 1) /\ a = d * p + r
    <2> HIDE DEF a
    <2> QED BY <1>1, Quotient
<1>3. a = d * q + x
    OBVIOUS
<1> HIDE DEF a, p, r
<1>4. d * p \in Nat /\ d * (p + 1) = d * p + d /\ d * (q + 1) = d * q + d
    BY <1>2
<1>5. CASE p = q
    BY <1>1, <1>2, <1>3, <1>5 DEF a, r
<1>6. CASE p < q
    <2>1. d * (p + 1) <= d * q
        BY <1>2, <1>6
    <2> QED BY <1>1, <1>2, <1>3, <1>4, <2>1
<1>7. CASE q < p
    <2>1. d * (q + 1) <= d * p
        BY <1>2, <1>7
    <2> QED BY <1>1, <1>2, <1>3, <1>4, <2>1
<1> QED BY <1>2, <1>5, <1>6, <1>7

(* One subtraction replaces the remainder of a sum.                         *)
LEMMA RemainderOfSum ==
    ASSUME NEW d \in Nat \ {0}, NEW a \in Nat, NEW b \in Nat
    PROVE  LET s == (a % d) + (b % d)
           IN  (IF s >= d THEN s - d ELSE s) = (a + b) % d
<1> DEFINE p == a \div d
           x == a % d
           q == b \div d
           y == b % d
<1>1. /\ p \in Nat /\ x \in 0..(d - 1) /\ a = d * p + x
      /\ q \in Nat /\ y \in 0..(d - 1) /\ b = d * q + y
    BY Quotient
<1> HIDE DEF p, x, q, y
<1>2. /\ d * p \in Nat /\ d * q \in Nat
      /\ d * (p + q) = d * p + d * q /\ d * (p + q + 1) = d * p + d * q + d
    BY <1>1
<1>3. CASE x + y >= d
    <2>1. (x + y) - d \in 0..(d - 1) /\ p + q + 1 \in Nat
        BY <1>1, <1>3
    <2>2. (d * (p + q + 1) + ((x + y) - d)) % d = (x + y) - d
        BY <2>1, Remainder
    <2>3. a + b = d * (p + q + 1) + ((x + y) - d)
        BY <1>1, <1>2
    <2> QED BY <1>3, <2>2, <2>3 DEF x, y
<1>4. CASE ~(x + y >= d)
    <2>1. x + y \in 0..(d - 1) /\ p + q \in Nat
        BY <1>1, <1>4
    <2>2. (d * (p + q) + (x + y)) % d = x + y
        BY <2>1, Remainder
    <2>3. a + b = d * (p + q) + (x + y)
        BY <1>1, <1>2
    <2> QED BY <1>4, <2>2, <2>3 DEF x, y
<1> QED BY <1>3, <1>4

(* An event that is rendered takes the time stamp to come.                  *)
LEMMA DealtPick ==
    ASSUME TypeInv, NEW w \in Workers, DealtInv(w), NEW event \in Events, Pick(w, event),
           UNCHANGED config
    PROVE  DealtInv(w)'
<1> DEFINE L == Len(picks[w])
           a == (w - 1) + L * N
<1>0. /\ picks[w] \in Seq(Events) /\ L \in Nat /\ N \in Nat \ {0} /\ w - 1 \in Nat
      /\ Span \in Nat \ {0}
    BY Entries, SendLoopAssumption DEF TypeInv, Workers
<1>1. L * N \in Nat /\ (L + 1) * N = L * N + N /\ a \in Nat
    BY <1>0
<1>2. /\ event.at = position[w] /\ position'[w] = next_position(w)
      /\ picks'[w] = Append(picks[w], event)
    <2>1. event.at = position[w]
        BY DEF Pick
    <2>2. position'[w] = next_position(w)
        BY DEF Pick, TypeInv
    <2> QED BY <2>1, <2>2, OwnPick
<1>3. position[w] = a % Span
    BY DEF DealtInv
<1>4. next_position(w) = (a + N) % Span
    <2> HIDE DEF a
    <2>1. LET s == (a % Span) + (N % Span)
          IN  (IF s >= Span THEN s - Span ELSE s) = (a + N) % Span
        BY <1>0, <1>1, RemainderOfSum
    <2> QED BY <1>3, <2>1 DEF next_position
<1>5. a + N = (w - 1) + (L + 1) * N
    BY <1>0, <1>1
<1>6. /\ Len(picks'[w]) = L + 1 /\ picks'[w][L + 1] = event
      /\ \A k \in DOMAIN picks'[w] : k = L + 1 \/ (k \in DOMAIN picks[w] /\ picks'[w][k] = picks[w][k])
    BY <1>0, <1>2
<1>7. position'[w] = ((w - 1) + Len(picks'[w]) * N) % Span
    BY <1>2, <1>4, <1>5, <1>6
<1>8. ASSUME NEW k \in DOMAIN picks'[w]
      PROVE  picks'[w][k].at = ((w - 1) + (k - 1) * N) % Span
    <2>1. CASE k = L + 1
        <3>1. k - 1 = L
            BY <1>0, <2>1
        <3>2. picks'[w][k].at = a % Span
            BY <1>2, <1>3, <1>6, <2>1
        <3> QED BY <3>1, <3>2
    <2>2. CASE k # L + 1
        BY <1>6, <2>2 DEF DealtInv
    <2> QED BY <2>1, <2>2
<1>9. N' = N
    BY DEF config
<1> QED BY <1>7, <1>8, <1>9 DEF DealtInv

(* Each event has the second that was next.                                 *)
LEMMA DealtStep ==
    ASSUME TypeInv, NEW w \in Workers, Step(w), DealtInv(w)
    PROVE  DealtInv(w)'
<1>0. UNCHANGED config
    BY StepOwn
<1>1. CASE \E event \in Events : Pick(w, event)
    BY <1>0, <1>1, DealtPick
<1>2. CASE UNCHANGED cursor
    BY <1>0, <1>2 DEF DealtInv, cursor, config
<1>3. (\E event \in Events : Pick(w, event)) \/ UNCHANGED cursor
    BY Zenon DEF Step, StartBatch, StartPacket, PackEvent, PacketFull, ClosePacket, AddEvent,
                 EventsReady, Pace, Send, SendSingle, Stops
<1> QED BY <1>1, <1>2, <1>3

-----------------------------------------------------------------------------
(* Sums over the workers, by induction on the sets of them.                 *)

Chosen(s) == CHOOSE x \in s : TRUE
SumBody(f, g, s) == IF s = {} THEN 0 ELSE f[Chosen(s)] + g[s \ {Chosen(s)}]
Sums(f, T) == CHOOSE g : g = [s \in SUBSET T |-> SumBody(f, g, s)]

(* SumFunction is the sum over all of the domain.                           *)
LEMMA SumIs ==
    ASSUME NEW f, NEW T, DOMAIN f = T
    PROVE  SumFunction(f) = Sums(f, T)[T]
BY DEF SumFunction, SumFunctionOnSet, FoldFunctionOnSet, MapThenFoldSet, Sums, SumBody, Chosen

(* A set without its chosen element is smaller by one.                      *)
LEMMA SmallerSet ==
    ASSUME NEW T, IsFiniteSet(T), NEW s \in SUBSET T, s # {}
    PROVE  /\ Chosen(s) \in s /\ s \ {Chosen(s)} \in SUBSET T
           /\ Cardinality(s) \in Nat /\ Cardinality(s) <= Cardinality(T)
           /\ Cardinality(s \ {Chosen(s)}) = Cardinality(s) - 1
           /\ Cardinality(s \ {Chosen(s)}) \in Nat /\ IsFiniteSet(s)
<1>1. Chosen(s) \in s
    BY DEF Chosen
<1>2. IsFiniteSet(s) /\ Cardinality(s) <= Cardinality(T)
    BY FS_Subset
<1> QED BY <1>1, <1>2, FS_RemoveElement, FS_CardinalityType

(* What a set has as soon as it has it without its chosen element.          *)
LEMMA SetInduction ==
    ASSUME NEW T, IsFiniteSet(T), NEW C,
           \A s \in SUBSET T : (s # {} => s \ {Chosen(s)} \in C) => s \in C
    PROVE  SUBSET T \subseteq C
<1> DEFINE Sizes == {Cardinality(s) : s \in (SUBSET T) \ C}
<1> SUFFICES ASSUME (SUBSET T) \ C # {} PROVE FALSE
    OBVIOUS
<1>1. Sizes \in SUBSET Nat /\ Sizes # {}
    BY FS_Subset, FS_CardinalityType
<1>2. PICK m \in Sizes : \A k \in Sizes : ~(k < m)
    <2> HIDE DEF Sizes
    <2> QED BY <1>1, LeastElement
<1>3. PICK s \in (SUBSET T) \ C : m = Cardinality(s)
    BY <1>2
<1>4. s # {} /\ s \ {Chosen(s)} \notin C
    OBVIOUS
<1>5. Cardinality(s \ {Chosen(s)}) \in Sizes /\ Cardinality(s \ {Chosen(s)}) < m
    BY <1>3, <1>4, SmallerSet
<1> QED BY <1>2, <1>5

(* These sums exist.                                                        *)
LEMMA SumsDefined ==
    ASSUME NEW T, IsFiniteSet(T), NEW f
    PROVE  \A s \in SUBSET T : Sums(f, T)[s] = SumBody(f, Sums(f, T), s)
<1> DEFINE Good(g, n) == \A s \in SUBSET T : Cardinality(s) <= n => g[s] = SumBody(f, g, s)
           Maps == {n \in Nat : \E g : Good(g, n)}
<1>0. Cardinality(T) \in Nat
    BY FS_CardinalityType
<1>1. 0 \in Maps
    <2> DEFINE g == [s \in SUBSET T |-> 0]
    <2>1. ASSUME NEW s \in SUBSET T, Cardinality(s) <= 0, s # {}
          PROVE  FALSE
        <3> DEFINE r == s \ {Chosen(s)}
        <3>1. /\ Cardinality(s) \in Nat /\ Cardinality(r) \in Nat
              /\ Cardinality(r) = Cardinality(s) - 1
            BY <2>1, SmallerSet
        <3> QED BY <2>1, <3>1
    <2>2. Good(g, 0)
        BY <2>1 DEF SumBody
    <2> QED BY <2>2
<1>2. ASSUME NEW n \in Nat, n \in Maps
      PROVE  n + 1 \in Maps
    <2>1. PICK g : Good(g, n)
        BY <1>2
    <2> DEFINE h == [s \in SUBSET T |-> SumBody(f, g, s)]
    <2>2. ASSUME NEW s \in SUBSET T, Cardinality(s) <= n + 1
          PROVE  h[s] = SumBody(f, h, s)
        <3>1. CASE s = {}
            BY <3>1 DEF SumBody
        <3>2. CASE s # {}
            <4> DEFINE r == s \ {Chosen(s)}
            <4>1. r \in SUBSET T /\ Cardinality(r) <= n
                BY <2>2, <3>2, SmallerSet
            <4>2. h[r] = g[r]
                BY <2>1, <4>1
            <4> QED BY <3>2, <4>2 DEF SumBody
        <3> QED BY <3>1, <3>2
    <2>3. Good(h, n + 1)
        BY <2>2
    <2> HIDE DEF Good
    <2> QED BY <2>3
<1>3. Cardinality(T) \in Maps
    BY <1>0, <1>1, <1>2, Induction
<1>4. PICK g : Good(g, Cardinality(T))
    BY <1>3
<1> DEFINE h == [s \in SUBSET T |-> g[s]]
<1>5. h = [s \in SUBSET T |-> SumBody(f, h, s)]
    <2>1. ASSUME NEW s \in SUBSET T
          PROVE  h[s] = SumBody(f, h, s)
        <3>0. g[s] = SumBody(f, g, s)
            BY <1>4, FS_Subset
        <3>1. CASE s = {}
            BY <3>0, <3>1 DEF SumBody
        <3>2. CASE s # {}
            BY <3>0, <3>2, SmallerSet DEF SumBody
        <3> QED BY <3>1, <3>2
    <2> QED BY <2>1
<1> HIDE DEF h
<1>6. Sums(f, T) = [s \in SUBSET T |-> SumBody(f, Sums(f, T), s)]
    BY <1>5 DEF Sums
<1> QED BY <1>6

(* What holds of the terms holds of the sums: a bound.                      *)
LEMMA SumsBound ==
    ASSUME NEW T, IsFiniteSet(T), NEW a \in Int, NEW b \in Int,
           NEW f \in [T -> Int], NEW g \in [T -> Int], NEW h \in [T -> Int],
           \A x \in T : a * f[x] <= b * g[x] + h[x]
    PROVE  /\ SumFunction(f) \in Int /\ SumFunction(g) \in Int /\ SumFunction(h) \in Int
           /\ a * SumFunction(f) <= b * SumFunction(g) + SumFunction(h)
<1> DEFINE F == Sums(f, T)
           G == Sums(g, T)
           H == Sums(h, T)
           Good(s) == /\ F[s] \in Int /\ G[s] \in Int /\ H[s] \in Int
                      /\ a * F[s] <= b * G[s] + H[s]
           C == {s \in SUBSET T : Good(s)}
<1>0. \A s \in SUBSET T : /\ F[s] = SumBody(f, F, s) /\ G[s] = SumBody(g, G, s)
                          /\ H[s] = SumBody(h, H, s)
    BY SumsDefined
<1> HIDE DEF F, G, H
<1>1. ASSUME NEW s \in SUBSET T, s = {}
      PROVE  Good(s)
    <2>1. F[s] = 0 /\ G[s] = 0 /\ H[s] = 0
        BY <1>0, <1>1 DEF SumBody
    <2> QED BY <2>1
<1>2. ASSUME NEW s \in SUBSET T, s # {}, Good(s \ {Chosen(s)})
      PROVE  Good(s)
    <2> DEFINE x == Chosen(s)
               r == s \ {x}
    <2>1. x \in T /\ r \in SUBSET T
        BY <1>2, SmallerSet
    <2>2. F[s] = f[x] + F[r] /\ G[s] = g[x] + G[r] /\ H[s] = h[x] + H[r]
        BY <1>0, <1>2 DEF SumBody
    <2>3. f[x] \in Int /\ g[x] \in Int /\ h[x] \in Int /\ a * f[x] <= b * g[x] + h[x]
        BY <2>1
    <2>4. /\ F[r] \in Int /\ G[r] \in Int /\ H[r] \in Int
          /\ a * F[r] <= b * G[r] + H[r]
        BY <1>2
    <2> HIDE DEF x, r
    <2>5. a * (f[x] + F[r]) = a * f[x] + a * F[r] /\ b * (g[x] + G[r]) = b * g[x] + b * G[r]
          /\ a * f[x] \in Int /\ a * F[r] \in Int /\ b * g[x] \in Int /\ b * G[r] \in Int
        BY <2>3, <2>4
    <2> QED BY <2>2, <2>3, <2>4, <2>5
<1>3. SUBSET T \subseteq C
    <2>1. \A s \in SUBSET T : (s # {} => s \ {Chosen(s)} \in C) => s \in C
        BY <1>1, <1>2
    <2> HIDE DEF C
    <2> QED BY <2>1, SetInduction
<1>4. Good(T)
    BY <1>3
<1> QED BY <1>4, SumIs DEF F, G, H

(* A sum of integers is one.                                                *)
LEMMA SumsInt ==
    ASSUME NEW T, IsFiniteSet(T), NEW f \in [T -> Int]
    PROVE  SumFunction(f) \in Int
<1>1. PICK a \in Int : a = 0
    OBVIOUS
<1> DEFINE z == [x \in T |-> 0]
<1>2. z \in [T -> Int]
    OBVIOUS
<1>3. \A x \in T : a * z[x] <= a * f[x] + z[x]
    BY <1>1
<1> HIDE DEF z
<1> QED BY <1>2, <1>3, SumsBound

(* A term that is larger by one on some elements.                           *)
LEMMA SumsCount ==
    ASSUME NEW T, IsFiniteSet(T), NEW q \in Nat, NEW M \in SUBSET T, NEW f,
           f = [x \in T |-> q + (IF x \in M THEN 1 ELSE 0)]
    PROVE  SumFunction(f) = q * Cardinality(T) + Cardinality(M)
<1> DEFINE F == Sums(f, T)
           Good(s) == F[s] = q * Cardinality(s) + Cardinality(s \cap M)
           C == {s \in SUBSET T : Good(s)}
<1>0. \A s \in SUBSET T : F[s] = SumBody(f, F, s)
    BY SumsDefined
<1> HIDE DEF F
<1>1. ASSUME NEW s \in SUBSET T, s = {}
      PROVE  Good(s)
    <2>1. F[s] = 0
        BY <1>0, <1>1 DEF SumBody
    <2>2. Cardinality(s) = 0 /\ Cardinality(s \cap M) = 0
        BY <1>1, FS_EmptySet
    <2> QED BY <2>1, <2>2
<1>2. ASSUME NEW s \in SUBSET T, s # {}, Good(s \ {Chosen(s)})
      PROVE  Good(s)
    <2> DEFINE x == Chosen(s)
               r == s \ {x}
    <2>1. /\ x \in s /\ x \in T /\ r \in SUBSET T /\ IsFiniteSet(s)
          /\ Cardinality(s) \in Nat /\ Cardinality(r) \in Nat /\ Cardinality(r) = Cardinality(s) - 1
        BY <1>2, SmallerSet
    <2>2. F[s] = f[x] + F[r]
        BY <1>0, <1>2 DEF SumBody
    <2>3. F[r] = q * Cardinality(r) + Cardinality(r \cap M)
        BY <1>2
    <2>4. IsFiniteSet(s \cap M) /\ IsFiniteSet(r \cap M)
        BY <2>1, FS_Subset
    <2>5. Cardinality(s \cap M) \in Nat /\ Cardinality(r \cap M) \in Nat
        BY <2>4, FS_CardinalityType
    <2>6. f[x] = q + (IF x \in M THEN 1 ELSE 0)
        BY <2>1
    <2>7. Cardinality(s \cap M) = Cardinality(r \cap M) + (IF x \in M THEN 1 ELSE 0)
        <3> DEFINE sm == s \cap M
                   rm == r \cap M
        <3>1. CASE x \in M
            <4>1. rm = sm \ {x} /\ x \in sm
                BY <2>1, <3>1
            <4> HIDE DEF sm, rm, x
            <4>2. Cardinality(sm \ {x}) = Cardinality(sm) - 1
                BY <2>4, <4>1, FS_RemoveElement DEF sm
            <4>3. Cardinality(rm) = Cardinality(sm) - 1
                BY <4>1, <4>2
            <4>4. Cardinality(sm) \in Nat
                BY <2>5 DEF sm
            <4>5. Cardinality(sm) = Cardinality(rm) + 1
                BY <4>3, <4>4
            <4> QED BY <3>1, <4>5 DEF sm, rm
        <3>2. CASE x \notin M
            <4>1. rm = sm
                BY <3>2
            <4>2. Cardinality(sm) \in Nat
                BY <2>5
            <4> HIDE DEF sm, rm, x
            <4>3. Cardinality(sm) = Cardinality(rm) + 0
                BY <4>1, <4>2
            <4> QED BY <3>2, <4>3 DEF sm, rm
        <3> QED BY <3>1, <3>2
    <2> HIDE DEF x, r
    <2>8. q * Cardinality(s) = q * Cardinality(r) + q /\ q * Cardinality(r) \in Nat
        <3>1. Cardinality(s) = Cardinality(r) + 1
            BY <2>1
        <3> QED BY <2>1, <3>1
    <2> QED BY <2>2, <2>3, <2>5, <2>6, <2>7, <2>8
<1>3. SUBSET T \subseteq C
    <2>1. \A s \in SUBSET T : (s # {} => s \ {Chosen(s)} \in C) => s \in C
        BY <1>1, <1>2
    <2> HIDE DEF C
    <2> QED BY <2>1, SetInduction
<1>4. F[T] = q * Cardinality(T) + Cardinality(M)
    <2>1. Good(T) /\ T \cap M = M
        BY <1>3
    <2> QED BY <2>1
<1> QED BY <1>4, SumIs DEF F

-----------------------------------------------------------------------------
(* The rate is held.                                                        *)

(* The pacer deals out the time of a batch, less than a tick too little.    *)
LEMMA Paced ==
    ASSUME NEW quota \in Nat \ {0}, NEW out \in Nat, NEW batch \in Nat, NEW old \in Nat,
           NEW count \in Nat, NEW new \in Nat, Second * out <= quota * (old + count),
           new >= old + (Second * batch) \div quota
    PROVE  /\ Second * out <= quota * (new + count)
           /\ Second * (out + batch) <= quota * (new + count + 1)
<1> DEFINE a == Second * batch
           m == a \div quota
           r == a % quota
<1>0. Second \in Nat /\ a \in Nat /\ Second * out \in Nat /\ Second * (out + batch) = Second * out + a
    BY SendLoopAssumption
<1>1. m \in Nat /\ r \in 0..(quota - 1) /\ a = quota * m + r
    <2> HIDE DEF a
    <2> QED BY <1>0, Quotient
<1>2. new >= old + m
    OBVIOUS
<1> HIDE DEF a, m, r
<1>3. PICK d \in Nat : new = old + m + d
    <2>1. new - (old + m) \in Nat /\ new = old + m + (new - (old + m))
        BY <1>1, <1>2
    <2> QED BY <2>1
<1>4. /\ quota * (new + count) = quota * (old + count) + quota * m + quota * d
      /\ quota * (new + count + 1) = quota * (old + count) + quota * m + quota * d + quota
      /\ quota * m \in Nat /\ quota * d \in Nat /\ quota * (old + count) \in Nat
    BY <1>1, <1>3
<1> QED BY <1>0, <1>1, <1>4

(* A later time and more batches allow as much.                             *)
LEMMA Allows ==
    ASSUME NEW quota \in Nat, NEW a \in Nat, NEW b \in Nat, a <= b
    PROVE  quota * a <= quota * b /\ quota * a \in Nat /\ quota * b \in Nat
<1>1. PICK d \in Nat : b = a + d
    <2>1. b - a \in Nat /\ b = a + (b - a)
        OBVIOUS
    <2> QED BY <2>1
<1>2. quota * b = quota * a + quota * d /\ quota * a \in Nat /\ quota * d \in Nat
    BY <1>1
<1> QED BY <1>2

(* The pacer lets no batch go before its time.                              *)
LEMMA RateStep ==
    ASSUME TypeInv, NEW w \in Workers, Step(w), WorkInv(w), RateInv(w)
    PROVE  RateInv(w)'
<1> SUFFICES ASSUME target_eps > 0 PROVE RateInv(w)'
    BY StepOwn DEF RateInv, config
<1> DEFINE quota == quota_for_worker(w)
           allowed == due[w] + batches[w]
<1>0. /\ quota \in Nat \ {0} /\ Out(w) \in Nat /\ Batch(w) \in Nat
      /\ due[w] \in Nat /\ batches[w] \in Nat /\ now \in Nat /\ Second \in Nat
      /\ packets[w] \in Seq(Seq(Events)) /\ sent[w] \in Seq(Seq(Events))
      /\ FlattenSeq(packets[w]) \in Seq(Events) /\ FlattenSeq(sent[w]) \in Seq(Events)
    <2>1. /\ packets[w] \in Seq(Seq(Events)) /\ sent[w] \in Seq(Seq(Events))
          /\ due[w] \in Nat /\ batches[w] \in Nat /\ now \in Nat
        BY Entries DEF TypeInv
    <2>2. FlattenSeq(packets[w]) \in Seq(Events) /\ FlattenSeq(sent[w]) \in Seq(Events)
        BY <2>1, FlattenType
    <2> QED BY <2>1, <2>2, Quota, SendLoopAssumption DEF Out, Batch, EventsOf
<1>1. /\ UNCHANGED config /\ quota_for_worker(w)' = quota /\ single(w)' = single(w)
      /\ now' = now
    BY StepOwn, Config
<1>2. /\ Second * Out(w) <= quota * (due[w] + batches[w])
      /\ place[w] = "wait" => Second * (Out(w) + Batch(w)) <= quota * (due[w] + batches[w] + 1)
      /\ Second * Out(w) <= quota * (now + batches[w])
    BY DEF RateInv
<1>3. UNCHANGED sent => Out(w)' = Out(w)
    BY DEF Out
<1> HIDE DEF quota
<1>4. CASE UNCHANGED <<sent, due, batches>> /\ place'[w] # "wait"
    BY <1>1, <1>2, <1>3, <1>4 DEF RateInv
<1>5. CASE Pace(w)
    <2>1. /\ UNCHANGED <<sent, batches, packets>> /\ place[w] = "paced" /\ place'[w] = "wait"
        BY <1>5, OthersDo DEF output, building
    <2>2. Batch(w)' = Batch(w)
        BY <1>1, <2>1 DEF Batch, EventsOf
    <2>3. /\ due'[w] \in Nat
          /\ due'[w] >= due[w] + (Second * Batch(w)) \div quota
        <3> DEFINE events == IF single(w) THEN 1 ELSE EventsOf(w)
                   when == due[w] + (Second * events) \div quota
        <3>1. due' = [due EXCEPT ![w] = IF when + Second < now THEN now ELSE when]
            <4>1. due' = [due EXCEPT ![w] =
                            IF quota # 0 /\ (IF quota = 0 THEN due[w] ELSE when) + Second < now
                            THEN now ELSE (IF quota = 0 THEN due[w] ELSE when)]
                BY <1>5 DEF Pace, quota
            <4> QED BY <1>0, <4>1
        <3>2. events = Batch(w)
            BY DEF Batch
        <3>3. Second * Batch(w) \in Nat
            BY <1>0
        <3>4. when \in Nat
            <4>1. (Second * Batch(w)) \div quota \in Nat
                BY <1>0, <3>3, Quotient
            <4> QED BY <1>0, <3>2, <4>1
        <3> HIDE DEF when
        <3>5. due'[w] = IF when + Second < now THEN now ELSE when
            BY <3>1 DEF TypeInv
        <3>6. due'[w] \in Nat /\ due'[w] >= when
            BY <1>0, <3>4, <3>5
        <3> QED BY <3>2, <3>6 DEF when
    <2>4. /\ Second * Out(w) <= quota * (due'[w] + batches[w])
          /\ Second * (Out(w) + Batch(w)) <= quota * (due'[w] + batches[w] + 1)
        <3> DEFINE old == due[w]
                   count == batches[w]
                   out == Out(w)
                   batch == Batch(w)
        <3>1. PICK new : new = due'[w]
            OBVIOUS
        <3>2. /\ new \in Nat /\ old \in Nat /\ count \in Nat /\ out \in Nat /\ batch \in Nat
              /\ Second * out <= quota * (old + count)
              /\ new >= old + (Second * batch) \div quota
            BY <1>0, <1>2, <2>3, <3>1
        <3> HIDE DEF old, count, out, batch
        <3>3. /\ Second * out <= quota * (new + count)
              /\ Second * (out + batch) <= quota * (new + count + 1)
            BY <1>0, <3>2, Paced
        <3> QED BY <3>1, <3>3 DEF count, out, batch
    <2> QED BY <1>1, <1>2, <1>3, <2>1, <2>2, <2>4 DEF RateInv
<1>6. ASSUME place[w] = "wait", place'[w] = "build", now >= due[w], UNCHANGED due,
             batches'[w] = batches[w] + 1, Out(w)' = Out(w) + Batch(w)
      PROVE  RateInv(w)'
    <2> DEFINE out == Out(w) + Batch(w)
               count == batches[w] + 1
               d == due[w]
    <2>0. due[w] \in Nat /\ batches[w] \in Nat /\ now \in Nat /\ due[w] <= now
        BY <1>0, <1>6
    <2>1. Second * out <= quota * (d + count)
        <3>1. d + count = due[w] + batches[w] + 1
            BY <2>0
        <3> QED BY <1>2, <1>6, <3>1
    <2>2. quota * (d + count) <= quota * (now + count) /\ quota * (d + count) \in Nat
          /\ quota * (now + count) \in Nat
        <3>1. d + count \in Nat /\ now + count \in Nat /\ d + count <= now + count
            BY <2>0
        <3> HIDE DEF d, count
        <3> QED BY <1>0, <3>1, Allows
    <2>3. Second * out \in Nat
        <3>1. out \in Nat
            BY <1>0
        <3> HIDE DEF out
        <3> QED BY <1>0, <3>1
    <2>4. Second * out <= quota * (now + count)
        <3> HIDE DEF out, d, count
        <3> QED BY <2>1, <2>2, <2>3
    <2>5. due'[w] = d /\ batches'[w] = count /\ Out(w)' = out
        BY <1>6
    <2> HIDE DEF out, d, count
    <2> QED BY <1>1, <1>6, <2>1, <2>4, <2>5 DEF RateInv
<1>7. CASE Send(w)
    <2>1. /\ place[w] = "wait" /\ ~single(w) /\ place'[w] = "build"
          /\ quota_for_worker(w) = 0 \/ now >= due[w]
          /\ sent'[w] = sent[w] \o packets[w] /\ batches'[w] = batches[w] + 1
          /\ UNCHANGED due
        BY <1>7, SendDoes DEF pacing
    <2>2. Out(w)' = Out(w) + Batch(w)
        <3>1. FlattenSeq(sent[w] \o packets[w]) = FlattenSeq(sent[w]) \o FlattenSeq(packets[w])
            BY <1>0, FlattenConcat
        <3>2. Len(FlattenSeq(sent[w] \o packets[w])) = Out(w) + EventsOf(w)
            BY <1>0, <3>1, ConcatProperties DEF Out, EventsOf
        <3>3. Out(w)' = Len(FlattenSeq(sent'[w]))
            BY DEF Out
        <3> QED BY <2>1, <3>2, <3>3 DEF Batch
    <2> QED BY <1>0, <1>6, <2>1, <2>2 DEF quota
<1>8. CASE SendSingle(w)
    <2>1. PICK event \in Events :
              /\ place[w] = "wait" /\ single(w) /\ place'[w] = "build"
              /\ quota_for_worker(w) = 0 \/ now >= due[w]
              /\ sent'[w] = Append(sent[w], <<event>>) /\ batches'[w] = batches[w] + 1
              /\ UNCHANGED due
        BY <1>8, SendSingleDoes DEF pacing
    <2>2. Out(w)' = Out(w) + Batch(w)
        <3>1. <<event>> \in Seq(Events) /\ Len(<<event>>) = 1
            OBVIOUS
        <3>2. FlattenSeq(Append(sent[w], <<event>>)) = FlattenSeq(sent[w]) \o <<event>>
            BY <1>0, <3>1, FlattenAppend
        <3>3. Len(FlattenSeq(Append(sent[w], <<event>>))) = Out(w) + 1
            BY <1>0, <3>1, <3>2, ConcatProperties DEF Out
        <3>4. Out(w)' = Len(FlattenSeq(sent'[w]))
            BY DEF Out
        <3> QED BY <2>1, <3>3, <3>4 DEF Batch
    <2> QED BY <1>0, <1>6, <2>1, <2>2 DEF quota
<1>9. ~Pace(w) /\ ~Send(w) /\ ~SendSingle(w) =>
          UNCHANGED <<sent, due, batches>> /\ place'[w] # "wait"
    <2>1. CASE StartBatch(w)
        BY <2>1, StartBatchDoes DEF output, pacing
    <2>2. CASE StartPacket(w)
        BY <2>2, StartPacketDoes DEF output, pacing
    <2>3. CASE PackEvent(w)
        BY <2>3, PackEventDoes DEF output, pacing
    <2>4. CASE ClosePacket(w)
        BY <2>4, ClosePacketDoes DEF output, pacing
    <2>5. CASE AddEvent(w)
        BY <2>5, AddEventDoes DEF output, pacing
    <2>6. CASE PacketFull(w) \/ EventsReady(w) \/ Stops(w)
        BY <2>6, OthersDo DEF output, pacing
    <2> QED BY <2>1, <2>2, <2>3, <2>4, <2>5, <2>6 DEF Step
<1> QED BY <1>4, <1>5, <1>7, <1>8, <1>9

-----------------------------------------------------------------------------
(* The items are taken in turn.                                             *)

(* How many of the first n turns are those of index r, of l.                *)
Share(l, n, r) == n \div l + (IF r < n % l THEN 1 ELSE 0)

(* And of the count turns that follow the first ones.                       *)
Window(l, from, count, r) == Share(l, from + count, r) - Share(l, from, r)

(* The events of item i that a worker rendered, and has reserved.           *)
ItemsIn(events, i) == Cardinality({k \in DOMAIN events : events[k].item = i})
Taken(l, events, from, count, i) == ItemsIn(events, i) + Window(l, from, count, i - 1)
TakenBy(i) == [w \in Workers |-> Taken(Len(items), picks[w], current[w], remaining[w], i)]

(* What the workers took and what the counter says differ from item to item by
   the overflows at most.                                                   *)
Turn(i) == SumFunction(TakenBy(i)) - Share(Len(items), next, i - 1)
TurnInv ==
    Len(items) > 1 => \A i, j \in 1..Len(items) : Turn(i) - Turn(j) <= wraps

(* A quotient and a remainder are what they are of a sum.                   *)
LEMMA QuotientUnique ==
    ASSUME NEW d \in Nat \ {0}, NEW x \in 0..(d - 1), NEW q \in Nat
    PROVE  (d * q + x) \div d = q /\ (d * q + x) % d = x
<1> DEFINE a == d * q + x
           p == a \div d
<1>1. a \in Nat /\ a % d = x /\ a = d * q + x
    BY Remainder
<1>2. p \in Nat /\ a = d * p + (a % d)
    <2> HIDE DEF a
    <2> QED BY <1>1, Quotient
<1>3. d * p = d * q
    <2> HIDE DEF a, p
    <2> QED BY <1>1, <1>2
<1>4. p = q
    <2> HIDE DEF a, p
    <2>1. CASE p < q
        <3>1. PICK e \in Nat : q = p + 1 + e
            <4>1. q - (p + 1) \in Nat /\ q = p + 1 + (q - (p + 1))
                BY <1>2, <2>1
            <4> QED BY <4>1
        <3>2. d * q = d * p + d + d * e /\ d * e \in Nat /\ d * p \in Nat
            BY <1>2, <3>1
        <3> QED BY <1>3, <3>2
    <2>2. CASE q < p
        <3>1. PICK e \in Nat : p = q + 1 + e
            <4>1. p - (q + 1) \in Nat /\ p = q + 1 + (p - (q + 1))
                BY <1>2, <2>2
            <4> QED BY <4>1
        <3>2. d * p = d * q + d + d * e /\ d * e \in Nat /\ d * q \in Nat
            BY <1>2, <3>1
        <3> QED BY <1>3, <3>2
    <2> QED BY <1>2, <2>1, <2>2
<1> QED BY <1>1, <1>4

(* The next turn is the one of the remainder.                               *)
LEMMA ShareNext ==
    ASSUME NEW l \in Nat \ {0}, NEW n \in Nat, NEW r \in 0..(l - 1)
    PROVE  /\ Share(l, n, r) \in Nat
           /\ Share(l, n + 1, r) = Share(l, n, r) + (IF n % l = r THEN 1 ELSE 0)
<1> DEFINE q == n \div l
           x == n % l
<1>1. q \in Nat /\ x \in 0..(l - 1) /\ n = l * q + x
    BY Quotient
<1>2. Share(l, n, r) = q + (IF r < x THEN 1 ELSE 0)
    BY DEF Share
<1> HIDE DEF q, x
<1>3. CASE x + 1 < l
    <2>1. n + 1 = l * q + (x + 1) /\ x + 1 \in 0..(l - 1)
        BY <1>1, <1>3
    <2>2. (n + 1) \div l = q /\ (n + 1) % l = x + 1
        BY <1>1, <2>1, QuotientUnique
    <2>3. Share(l, n + 1, r) = q + (IF r < x + 1 THEN 1 ELSE 0)
        BY <2>2 DEF Share
    <2> QED BY <1>1, <1>2, <2>3 DEF x
<1>4. CASE x = l - 1
    <2>1. n + 1 = l * (q + 1) + 0 /\ 0 \in 0..(l - 1) /\ q + 1 \in Nat
        BY <1>1, <1>4
    <2>2. (n + 1) \div l = q + 1 /\ (n + 1) % l = 0
        <3>1. PICK k \in Nat : k = q + 1
            BY <2>1
        <3>2. (l * k + 0) \div l = k /\ (l * k + 0) % l = 0
            BY <2>1, QuotientUnique
        <3> QED BY <2>1, <3>1, <3>2
    <2>3. Share(l, n + 1, r) = q + 1 + (IF r < 0 THEN 1 ELSE 0)
        BY <2>2 DEF Share
    <2> QED BY <1>1, <1>2, <1>4, <2>3 DEF x
<1> QED BY <1>1, <1>3, <1>4

(* The turns from a remainder on are those from the number on.              *)
LEMMA ShareShift ==
    ASSUME NEW l \in Nat \ {0}, NEW n \in Nat, NEW m \in Nat, NEW r \in 0..(l - 1)
    PROVE  Window(l, n, m, r) = Window(l, n % l, m, r)
<1> DEFINE q == n \div l
           x == n % l
           b == x + m
           p == b \div l
           y == b % l
<1>1. q \in Nat /\ x \in 0..(l - 1) /\ n = l * q + x
    BY Quotient
<1>2. b \in Nat
    BY <1>1
<1>3. p \in Nat /\ y \in 0..(l - 1) /\ b = l * p + y
    <2> HIDE DEF b
    <2> QED BY <1>2, Quotient
<1>4. b = x + m
    OBVIOUS
<1> HIDE DEF q, x, b, p, y
<1>5. n + m = l * (q + p) + y /\ q + p \in Nat
    <2>1. l * (q + p) = l * q + l * p /\ l * q \in Nat /\ l * p \in Nat
        BY <1>1, <1>3
    <2> QED BY <1>1, <1>3, <1>4, <2>1
<1>6. (n + m) \div l = q + p /\ (n + m) % l = y
    <2>1. PICK k \in Nat : k = q + p
        BY <1>5
    <2>2. (l * k + y) \div l = k /\ (l * k + y) % l = y
        BY <1>3, QuotientUnique
    <2> QED BY <1>5, <2>1, <2>2
<1>7. x \div l = 0 /\ x % l = x
    <2>1. x = l * 0 + x
        BY <1>1
    <2> QED BY <1>1, <2>1, QuotientUnique
<1>8. Share(l, n + m, r) = q + p + (IF r < y THEN 1 ELSE 0)
    BY <1>6 DEF Share
<1>9. Share(l, b, r) = p + (IF r < y THEN 1 ELSE 0)
    BY DEF Share, p, y
<1>10. Share(l, n, r) = q + (IF r < x THEN 1 ELSE 0)
    BY DEF Share, q, x
<1>11. Share(l, x, r) = 0 + (IF r < x THEN 1 ELSE 0)
    BY <1>7 DEF Share
<1>12. Share(l, n + m, r) - Share(l, n, r) = Share(l, b, r) - Share(l, x, r)
    BY <1>1, <1>3, <1>8, <1>9, <1>10, <1>11
<1> QED BY <1>12 DEF b, x, Window

(* Two items share any number of turns equally, but for one.                *)
LEMMA ShareFair ==
    ASSUME NEW l \in Nat \ {0}, NEW a \in Nat, NEW b \in Nat,
           NEW r \in 0..(l - 1), NEW s \in 0..(l - 1)
    PROVE  (Share(l, a, r) - Share(l, b, r)) - (Share(l, a, s) - Share(l, b, s)) <= 1
<1>1. /\ a \div l \in Nat /\ a % l \in 0..(l - 1) /\ b \div l \in Nat /\ b % l \in 0..(l - 1)
    BY Quotient
<1> DEFINE p == a \div l
           x == a % l
           q == b \div l
           y == b % l
<1>2. /\ Share(l, a, r) = p + (IF r < x THEN 1 ELSE 0)
      /\ Share(l, b, r) = q + (IF r < y THEN 1 ELSE 0)
      /\ Share(l, a, s) = p + (IF s < x THEN 1 ELSE 0)
      /\ Share(l, b, s) = q + (IF s < y THEN 1 ELSE 0)
    BY DEF Share
<1>3. p \in Nat /\ q \in Nat /\ x \in 0..(l - 1) /\ y \in 0..(l - 1)
    BY <1>1
<1> HIDE DEF p, q, x, y
<1> QED BY <1>2, <1>3

(* An event more of one item.                                               *)
LEMMA ItemsMore ==
    ASSUME TypeInv, NEW events \in Seq(Events), NEW event \in Events, NEW i
    PROVE  /\ ItemsIn(events, i) \in Nat /\ ItemsIn(<<>>, i) = 0
           /\ ItemsIn(Append(events, event), i)
                = ItemsIn(events, i) + (IF event.item = i THEN 1 ELSE 0)
<1> DEFINE more == Append(events, event)
           A == {k \in DOMAIN events : events[k].item = i}
           B == {k \in DOMAIN more : more[k].item = i}
           n == Len(events) + 1
<1>1. /\ Len(events) \in Nat /\ DOMAIN events = 1..Len(events) /\ DOMAIN more = 1..n
      /\ more[n] = event /\ \A k \in 1..Len(events) : more[k] = events[k]
    OBVIOUS
<1>2. IsFiniteSet(A)
    <2>1. A \subseteq 1..Len(events) /\ IsFiniteSet(1..Len(events))
        BY <1>1, FS_Interval
    <2> QED BY <2>1, FS_Subset
<1>3. Cardinality(A) \in Nat
    BY <1>2, FS_CardinalityType
<1>4. n \notin A
    BY <1>1
<1>5. ASSUME event.item = i
      PROVE  ItemsIn(more, i) = ItemsIn(events, i) + 1
    <2>1. B = A \cup {n}
        BY <1>1, <1>5
    <2> HIDE DEF A, B, n
    <2>2. Cardinality(A \cup {n}) = Cardinality(A) + 1
        BY <1>2, <1>4, FS_AddElement
    <2>3. Cardinality(B) = Cardinality(A) + 1
        BY <2>1, <2>2
    <2> QED BY <2>3 DEF ItemsIn, A, B
<1>6. ASSUME event.item # i
      PROVE  ItemsIn(more, i) = ItemsIn(events, i) + 0
    <2>1. B = A
        BY <1>1, <1>6
    <2> HIDE DEF A, B, n
    <2>2. Cardinality(B) = Cardinality(A) + 0
        BY <1>3, <2>1
    <2> QED BY <2>2 DEF ItemsIn, A, B
<1>7. ItemsIn(<<>>, i) = 0
    <2>1. {k \in DOMAIN <<>> : <<>>[k].item = i} = {}
        OBVIOUS
    <2> QED BY <2>1, FS_EmptySet DEF ItemsIn
<1>8. ItemsIn(events, i) \in Nat
    BY <1>3 DEF ItemsIn
<1> QED BY <1>5, <1>6, <1>7, <1>8

(* Changing one term changes the sum by the difference.                     *)
LEMMA SumsChange ==
    ASSUME NEW T, IsFiniteSet(T), NEW f \in [T -> Int], NEW h \in [T -> Int], NEW w \in T,
           \A x \in T : x # w => h[x] = f[x]
    PROVE  SumFunction(f) \in Int /\ SumFunction(h) = SumFunction(f) + (h[w] - f[w])
<1> DEFINE one == [x \in T |-> 0 + (IF x \in {w} THEN 1 ELSE 0)]
           d == h[w] - f[w]
           e == f[w] - h[w]
<1>1. one \in [T -> Int] /\ d \in Int /\ e \in Int
    OBVIOUS
<1>2. SumFunction(one) = 1
    <2>1. SumFunction(one) = 0 * Cardinality(T) + Cardinality({w})
        <3>1. {w} \in SUBSET T
            OBVIOUS
        <3> QED BY <3>1, SumsCount
    <2>2. Cardinality({w}) = 1 /\ Cardinality(T) \in Nat
        BY FS_Singleton, FS_CardinalityType
    <2> HIDE DEF one
    <2> QED BY <2>1, <2>2
<1> HIDE DEF one
<1>3. \A x \in T : one[x] \in Int /\ h[x] = f[x] + d * one[x]
    <2> SUFFICES ASSUME NEW x \in T
                 PROVE  one[x] \in Int /\ h[x] = f[x] + d * one[x]
        OBVIOUS
    <2>1. CASE x = w
        <3>1. one[x] = 1 /\ h[x] \in Int /\ f[x] \in Int /\ d = h[x] - f[x]
            BY <2>1 DEF one
        <3> HIDE DEF d
        <3> QED BY <3>1
    <2>2. CASE x # w
        <3>1. one[x] = 0 /\ h[x] \in Int /\ h[x] = f[x]
            BY <2>2 DEF one
        <3> HIDE DEF d
        <3> QED BY <1>1, <3>1
    <2> QED BY <2>1, <2>2
<1> HIDE DEF d, e
<1>4. PICK a \in Int : a = 1
    OBVIOUS
<1>5. /\ a * SumFunction(h) <= d * SumFunction(one) + SumFunction(f)
    <2>1. \A x \in T : a * h[x] <= d * one[x] + f[x]
        <3> SUFFICES ASSUME NEW x \in T PROVE a * h[x] <= d * one[x] + f[x]
            OBVIOUS
        <3>1. h[x] \in Int /\ f[x] \in Int /\ one[x] \in Int /\ d * one[x] \in Int
              /\ h[x] = f[x] + d * one[x]
            BY <1>1, <1>3
        <3> QED BY <1>4, <3>1
    <2> QED BY <1>1, <2>1, SumsBound
<1>6. a * SumFunction(f) <= e * SumFunction(one) + SumFunction(h)
    <2>1. \A x \in T : a * f[x] <= e * one[x] + h[x]
        <3> SUFFICES ASSUME NEW x \in T PROVE a * f[x] <= e * one[x] + h[x]
            OBVIOUS
        <3>1. h[x] \in Int /\ f[x] \in Int /\ one[x] \in Int /\ d * one[x] \in Int
              /\ h[x] = f[x] + d * one[x] /\ e * one[x] = 0 - d * one[x]
            <4>1. h[x] \in Int /\ f[x] \in Int /\ one[x] \in Int /\ h[x] = f[x] + d * one[x]
                BY <1>3
            <4>2. e = 0 - d
                <5>1. f[w] \in Int /\ h[w] \in Int
                    OBVIOUS
                <5> QED BY <5>1 DEF d, e
            <4>3. (0 - d) * one[x] = 0 - d * one[x] /\ d * one[x] \in Int
                BY <1>1, <4>1
            <4> QED BY <4>1, <4>2, <4>3
        <3> QED BY <1>4, <3>1
    <2> QED BY <1>1, <2>1, SumsBound
<1>7. d = h[w] - f[w] /\ e = f[w] - h[w] /\ h[w] \in Int /\ f[w] \in Int
    BY DEF d, e
<1>8. SumFunction(h) \in Int /\ SumFunction(f) \in Int
    BY SumsInt
<1>9. /\ SumFunction(h) <= d + SumFunction(f) /\ SumFunction(f) <= e + SumFunction(h)
    BY <1>1, <1>2, <1>4, <1>5, <1>6, <1>8
<1> QED BY <1>7, <1>8, <1>9

(* A worker rendered a number of events of an item.                         *)
LEMMA RenderedType ==
    ASSUME TypeInv, NEW w \in Workers, NEW i
    PROVE  Rendered(w, i) \in Nat
<1>1. picks[w] \in Seq(Events)
    BY Entries
<1>2. DOMAIN picks[w] = 1..Len(picks[w]) /\ Len(picks[w]) \in Nat
    BY <1>1
<1>3. IsFiniteSet(DOMAIN picks[w])
    BY <1>2, FS_Interval
<1>4. Cardinality({k \in DOMAIN picks[w] : picks[w][k].item = i}) \in Nat
    BY <1>3, FS_Subset, FS_CardinalityType
<1> QED BY <1>4 DEF Rendered

(* The terms are integers, and so is the sum.                               *)
LEMMA TakenType ==
    ASSUME TypeInv, NEW i \in 1..Len(items)
    PROVE  /\ TakenBy(i) \in [Workers -> Int] /\ IsFiniteSet(Workers)
           /\ Len(items) \in Nat \ {0} /\ i - 1 \in 0..(Len(items) - 1)
           /\ SumFunction(TakenBy(i)) \in Int
<1>1. Len(items) \in Nat \ {0}
    <2>1. items \in Seq(Seq({"a", "r", "n"})) /\ items # <<>>
        BY SendLoopAssumption DEF TypeInv
    <2> QED BY <2>1
<1>2. i - 1 \in 0..(Len(items) - 1)
    BY <1>1
<1>3. ASSUME NEW w \in Workers
      PROVE  Taken(Len(items), picks[w], current[w], remaining[w], i) \in Int
    <2>1. current[w] \in Nat /\ remaining[w] \in Nat /\ current[w] + remaining[w] \in Nat
        BY <1>1, Entries
    <2>2. Window(Len(items), current[w], remaining[w], i - 1) \in Int
        <3>1. /\ Share(Len(items), current[w] + remaining[w], i - 1) \in Nat
              /\ Share(Len(items), current[w], i - 1) \in Nat
            BY <1>1, <1>2, <2>1, ShareNext
        <3> QED BY <3>1 DEF Window
    <2>3. ItemsIn(picks[w], i) \in Nat
        BY RenderedType DEF ItemsIn, Rendered
    <2> QED BY <2>2, <2>3 DEF Taken
<1>4. TakenBy(i) \in [Workers -> Int]
    BY <1>3 DEF TakenBy
<1>5. IsFiniteSet(Workers)
    BY FS_Interval DEF Workers, TypeInv
<1> QED BY <1>1, <1>2, <1>4, <1>5, SumsInt

(* The number after another, and the index after another.                   *)
After(m, k) == m = k + 1
Wraps(l, d, c) == d = IF c + 1 = l THEN 0 ELSE c + 1
Leads(l, b, n) == b = (n + 1) % l

(* The first turn of a window, and the others.                              *)
LEMMA WindowNext ==
    ASSUME NEW l \in Nat \ {0}, NEW n \in Nat, NEW k \in Nat, NEW m \in Nat, After(m, k),
           NEW r \in 0..(l - 1), NEW b \in Nat, Leads(l, b, n)
    PROVE  /\ Window(l, n, m, r) = (IF n % l = r THEN 1 ELSE 0) + Window(l, b, k, r)
           /\ Window(l, n, m, r) \in Int /\ Window(l, b, k, r) \in Int
<1>0. PICK a \in Nat : a = n + 1
    OBVIOUS
<1>1. Window(l, a, k, r) = Window(l, a % l, k, r)
    BY ShareShift
<1>2. /\ Share(l, a, r) = Share(l, n, r) + (IF n % l = r THEN 1 ELSE 0)
      /\ Share(l, n, r) \in Nat
    BY <1>0, ShareNext
<1>3. n + m = a + k /\ n + m \in Nat /\ b + k \in Nat /\ b = a % l
    BY <1>0 DEF After, Leads
<1>4. Share(l, n + m, r) \in Nat /\ Share(l, b + k, r) \in Nat /\ Share(l, b, r) \in Nat
    BY <1>3, ShareNext
<1>5. Window(l, n, m, r) = Share(l, n + m, r) - Share(l, n, r)
    BY DEF Window
<1>6. Window(l, a, k, r) = Share(l, n + m, r) - Share(l, a, r)
    BY <1>3 DEF Window
<1>7. Window(l, b, k, r) \in Int
    BY <1>4 DEF Window
<1> HIDE DEF Window
<1> QED BY <1>1, <1>2, <1>3, <1>4, <1>5, <1>6, <1>7

(* An event from the worker's reservation: what it took stays the same.     *)
LEMMA TakenReserved ==
    ASSUME NEW l \in Nat \ {0}, NEW c \in 0..(l - 1), NEW k \in Nat, NEW m \in Nat, After(m, k),
           NEW r \in 0..(l - 1), NEW d \in 0..(l - 1), Wraps(l, d, c)
    PROVE  /\ Window(l, c, m, r) = (IF c = r THEN 1 ELSE 0) + Window(l, d, k, r)
           /\ Window(l, c, m, r) \in Int /\ Window(l, d, k, r) \in Int
<1>0. d = IF c + 1 = l THEN 0 ELSE c + 1
    BY DEF Wraps
<1>1. PICK a \in Nat : a = c + 1
    OBVIOUS
<1>2. c % l = c /\ a % l = d
    <2>1. c = l * 0 + c /\ 0 \in 0..(l - 1) /\ (c + 1 = l => c + 1 = l * 1 + 0)
        OBVIOUS
    <2>2. c % l = c
        BY <2>1, Remainder
    <2>3. CASE c + 1 = l
        <3>1. (l * 1 + 0) % l = 0
            BY <2>1, Remainder
        <3> QED BY <1>0, <1>1, <2>1, <2>2, <2>3, <3>1
    <2>4. CASE c + 1 # l
        <3>1. c + 1 \in 0..(l - 1)
            BY <2>4
        <3>2. PICK x \in 0..(l - 1) : x = c + 1
            BY <3>1
        <3>3. (l * 0 + x) % l = x /\ l * 0 + x = x
            BY Remainder
        <3> QED BY <1>0, <1>1, <2>2, <2>4, <3>2, <3>3
    <2> QED BY <2>3, <2>4
<1>3. c \in Nat /\ d \in Nat /\ Leads(l, d, c)
    BY <1>1, <1>2 DEF Leads
<1>4. /\ Window(l, c, m, r) = (IF c % l = r THEN 1 ELSE 0) + Window(l, d, k, r)
      /\ Window(l, c, m, r) \in Int /\ Window(l, d, k, r) \in Int
    BY <1>3, WindowNext
<1> QED BY <1>2, <1>4

(* What a worker takes is what the sum gains.                               *)
LEMMA TurnSum ==
    ASSUME TypeInv, NEW w \in Workers, OwnStep(w), UNCHANGED config,
           NEW i \in 1..Len(items), NEW gain \in Int,
           Taken(Len(items), picks'[w], current'[w], remaining'[w], i)
             = Taken(Len(items), picks[w], current[w], remaining[w], i) + gain
    PROVE  SumFunction(TakenBy(i)') = SumFunction(TakenBy(i)) + gain
<1> DEFINE f == TakenBy(i)
<1>1. PICK h : h = TakenBy(i)'
    OBVIOUS
<1>2. h = [q \in Workers |-> Taken(Len(items), picks'[q], current'[q], remaining'[q], i)]
    BY <1>1 DEF TakenBy, config, Workers
<1>3. f \in [Workers -> Int] /\ IsFiniteSet(Workers)
    BY TakenType
<1>4. \A q \in Workers : q # w => h[q] = f[q]
    BY <1>2, OtherEntries DEF TakenBy
<1>5. h[w] = f[w] + gain
    BY <1>2 DEF TakenBy
<1> HIDE DEF f
<1>6. h \in [Workers -> Int]
    <2>1. \A q \in Workers : h[q] \in Int
        BY <1>3, <1>4, <1>5
    <2> QED BY <1>2, <2>1
<1>7. SumFunction(f) \in Int /\ SumFunction(h) = SumFunction(f) + (h[w] - f[w])
    BY <1>3, <1>4, <1>6, SumsChange
<1>8. SumFunction(h) = SumFunction(f) + gain
    <2>1. f[w] \in Int /\ h[w] - f[w] = gain
        BY <1>3, <1>5
    <2> QED BY <1>7, <2>1
<1> QED BY <1>1, <1>8 DEF f

(* An event rendered is the turn of its item.                               *)
LEMMA TurnPick ==
    ASSUME TypeInv, NEW w \in Workers, OwnStep(w), UNCHANGED config, TurnInv,
           NEW event \in Events, Pick(w, event)
    PROVE  TurnInv'
<1> DEFINE l == Len(items)
           c == current[w]
           m == remaining[w]
           Old(i) == Taken(l, picks[w], c, m, i)
           New(i) == Taken(l, picks'[w], current'[w], remaining'[w], i)
           Sum(i) == SumFunction(TakenBy(i))
           More1(i) == IF event.item = i THEN 1 ELSE 0
<1> SUFFICES ASSUME l > 1, NEW i \in 1..l, NEW j \in 1..l
             PROVE  (Turn(i) - Turn(j) <= wraps)'
    BY DEF TurnInv, config
<1>0. /\ l \in Nat \ {0} /\ c \in 0..(l - 1) /\ m \in Nat /\ next \in Nat /\ wraps \in Nat
      /\ picks[w] \in Seq(Events) /\ Len(items) > 1
    BY TakenType, Entries DEF TypeInv
<1>1. Turn(i) - Turn(j) <= wraps
    BY <1>0 DEF TurnInv
<1>10. Len(items) # 1 /\ (m = 0 => ~(m > 0))
    <2>1. \A k \in Nat : (k > 1 => k # 1) /\ (k = 0 => ~(k > 0))
        OBVIOUS
    <2> HIDE DEF m
    <2> QED BY <1>0, <2>1, Zenon
<1>2. /\ picks'[w] = Append(picks[w], event) /\ event.item = Selected(w)
    BY OwnPick DEF Pick
<1>3. \A x \in 1..l : /\ ItemsIn(picks[w], x) \in Nat
                      /\ ItemsIn(picks'[w], x) = ItemsIn(picks[w], x) + More1(x)
    BY <1>0, <1>2, ItemsMore
<1>4. \A x \in 1..l : Sum(x) \in Int /\ x - 1 \in 0..(l - 1)
    BY TakenType
<1>5. \A x \in 1..l : \A y \in Nat : Share(l, y, x - 1) \in Nat
    BY <1>0, <1>4, ShareNext
<1>6. ASSUME NEW x \in 1..l
      PROVE  Turn(x) = Sum(x) - Share(l, next, x - 1)
             /\ Turn(x)' = SumFunction(TakenBy(x)') - Share(l, next', x - 1)
    BY DEF Turn, config
<1>7. CASE m # 0
    <2>1. /\ event.item = 1 + c /\ UNCHANGED <<next, wraps>>
          /\ current'[w] = (IF c + 1 = l THEN 0 ELSE c + 1) /\ remaining'[w] = m - 1
        <3>1. /\ current' = [current EXCEPT ![w] = IF @ + 1 = Len(items) THEN 0 ELSE @ + 1]
              /\ remaining' = [remaining EXCEPT ![w] = @ - 1]
              /\ UNCHANGED <<next, wraps>>
            BY <1>7 DEF Pick
        <3>2. current'[w] = (IF c + 1 = l THEN 0 ELSE c + 1) /\ remaining'[w] = m - 1
            BY <3>1 DEF TypeInv
        <3>3. event.item = 1 + c
            <4>1. m > 0
                BY <1>0, <1>7
            <4> QED BY <1>2, <4>1 DEF Selected
        <3> QED BY <3>1, <3>2, <3>3
    <2>2. ASSUME NEW x \in 1..l
          PROVE  SumFunction(TakenBy(x)') = Sum(x)
        <3> DEFINE d == IF c + 1 = l THEN 0 ELSE c + 1
                   r == x - 1
                   one == IF c = r THEN 1 ELSE 0
        <3>1. PICK e \in 0..(l - 1), k \in Nat : e = d /\ k = m - 1 /\ m = k + 1
            <4>1. d \in 0..(l - 1) /\ m - 1 \in Nat /\ m = (m - 1) + 1
                BY <1>0, <1>7
            <4> QED BY <4>1
        <3>2. one = More1(x) /\ one \in Nat
            BY <1>0, <2>1
        <3>3. /\ Window(l, c, m, r) = one + Window(l, e, k, r)
              /\ Window(l, c, m, r) \in Int /\ Window(l, e, k, r) \in Int
            <4>1. Wraps(l, e, c) /\ After(m, k) /\ r \in 0..(l - 1)
                BY <1>4, <3>1 DEF Wraps, After
            <4> HIDE DEF l, c, m, r, d
            <4> QED BY <1>0, <4>1, TakenReserved
        <3>4. Old(x) = ItemsIn(picks[w], x) + Window(l, c, m, r)
            BY DEF Taken
        <3>5. New(x) = ItemsIn(picks'[w], x) + Window(l, e, k, r)
            BY <2>1, <3>1 DEF Taken
        <3>6. ItemsIn(picks[w], x) \in Nat
              /\ ItemsIn(picks'[w], x) = ItemsIn(picks[w], x) + More1(x)
            BY <1>3
        <3>7. New(x) = Old(x) + 0
            <4> HIDE DEF New, Old, d, r, l, c, m, More1, one
            <4> QED BY <3>2, <3>3, <3>4, <3>5, <3>6
        <3>8. SumFunction(TakenBy(x)') = Sum(x) + 0
            BY <3>7, TurnSum
        <3> HIDE DEF Sum
        <3> QED BY <1>4, <3>8
    <2>3. Turn(i)' = Turn(i) /\ Turn(j)' = Turn(j) /\ wraps' = wraps
        BY <1>6, <2>1, <2>2
    <2> QED BY <1>1, <2>3
<1>8. CASE m = 0
    <2> DEFINE size == IF high_rate(w) THEN Reservation ELSE 1
    <2>1. /\ event.item = 1 + (next % l) /\ size \in Nat \ {0}
          /\ current'[w] = (next + 1) % l /\ remaining'[w] = size - 1
          /\ next' = (next + size) % Width
          /\ wraps' = IF next + size >= Width THEN wraps + 1 ELSE wraps
        <3>0. Reserve(w) /\ Len(items) # 1
            BY <1>8, <1>10, Zenon DEF Pick
        <3>1. /\ next' = (next + size) % Width
              /\ wraps' = IF next + size >= Width THEN wraps + 1 ELSE wraps
              /\ current' = [current EXCEPT ![w] = (next + 1) % Len(items)]
              /\ remaining' = [remaining EXCEPT ![w] = size - 1]
            BY <3>0, Zenon DEF Reserve
        <3>2. current'[w] = (next + 1) % l /\ remaining'[w] = size - 1
            BY <3>1 DEF TypeInv
        <3>3. event.item = 1 + (next % l)
            <4>1. ~(remaining[w] > 0) /\ Len(items) # 1
                BY <1>8, <1>10, Zenon
            <4> QED BY <1>2, <4>1, Zenon DEF Selected
        <3>4. size \in Nat \ {0}
            BY SendLoopAssumption
        <3> QED BY <3>1, <3>2, <3>3, <3>4
    <2> HIDE DEF size
    <2>2. ASSUME NEW x \in 1..l
          PROVE  /\ SumFunction(TakenBy(x)')
                      = Sum(x) + (Share(l, next + size, x - 1) - Share(l, next, x - 1))
                 /\ Share(l, next + size, x - 1) \in Nat /\ Share(l, next, x - 1) \in Nat
        <3> DEFINE r == x - 1
                   gain == Share(l, next + size, r) - Share(l, next, r)
                   one == IF next % l = r THEN 1 ELSE 0
        <3>1. PICK k \in Nat, b \in Nat : k = size - 1 /\ size = k + 1 /\ b = (next + 1) % l
            <4>1. size - 1 \in Nat /\ size = (size - 1) + 1 /\ next + 1 \in Nat
                BY <1>0, <2>1
            <4>2. (next + 1) % l \in Nat
                BY <1>0, <4>1, Quotient
            <4> QED BY <4>1, <4>2
        <3>2. Share(l, next + size, r) \in Nat /\ Share(l, next, r) \in Nat
            <4>1. next + size \in Nat
                BY <1>0, <2>1
            <4> QED BY <1>0, <1>5, <4>1
        <3>3. one = More1(x) /\ one \in Nat
            <4>1. next % l \in Nat
                BY <1>0, Quotient
            <4> QED BY <2>1, <4>1
        <3>4. /\ Window(l, next, size, r) = one + Window(l, b, k, r)
              /\ Window(l, next, size, r) \in Int /\ Window(l, b, k, r) \in Int
            <4>1. After(size, k) /\ Leads(l, b, next) /\ r \in 0..(l - 1)
                BY <1>4, <3>1 DEF After, Leads
            <4>2. size \in Nat
                BY <2>1
            <4> HIDE DEF l, r
            <4> QED BY <1>0, <4>1, <4>2, WindowNext
        <3>5. Window(l, c, m, r) = 0
            <4>1. PICK e \in Nat : e = c
                BY <1>0
            <4>2. Window(l, e, 0, r) = Share(l, e + 0, r) - Share(l, e, r) /\ e + 0 = e
                BY DEF Window
            <4>3. Share(l, e, r) \in Nat
                BY <1>5
            <4> HIDE DEF l, r
            <4>4. Window(l, e, 0, r) = 0
                BY <4>2, <4>3
            <4> QED BY <1>8, <4>1, <4>4
        <3>6. Old(x) = ItemsIn(picks[w], x) + Window(l, c, m, r)
            BY DEF Taken
        <3>7. New(x) = ItemsIn(picks'[w], x) + Window(l, b, k, r)
            BY <2>1, <3>1 DEF Taken
        <3>10. gain = Window(l, next, size, r)
            BY DEF Window
        <3>8. New(x) = Old(x) + gain /\ gain \in Int
            <4>1. ItemsIn(picks[w], x) \in Nat
                  /\ ItemsIn(picks'[w], x) = ItemsIn(picks[w], x) + More1(x)
                BY <1>3
            <4> HIDE DEF New, Old, r, l, c, m, More1, one, gain
            <4> QED BY <3>3, <3>4, <3>5, <3>6, <3>7, <3>10, <4>1
        <3>9. SumFunction(TakenBy(x)') = Sum(x) + gain
            BY <3>8, TurnSum
        <3> QED BY <3>2, <3>9
    <2>3. PICK n : n = next'
        OBVIOUS
    <2>4. n \in Nat /\ next + size \in Nat
        <3>1. next + size \in Nat /\ Width \in Nat \ {0}
            BY <1>0, <2>1, SendLoopAssumption
        <3>2. PICK k \in Nat : k = next + size
            BY <3>1
        <3>3. k % Width \in Nat
            BY <3>1, Quotient
        <3>4. n = k % Width
            BY <2>1, <2>3, <3>2
        <3> QED BY <3>1, <3>3, <3>4
    <2>5. ASSUME NEW x \in 1..l
          PROVE  /\ Turn(x)' = Turn(x) + (Share(l, next + size, x - 1) - Share(l, n, x - 1))
                 /\ Turn(x) \in Int /\ Share(l, next + size, x - 1) \in Nat
                 /\ Share(l, n, x - 1) \in Nat
        <3> DEFINE a == Share(l, next, x - 1)
                   b == Share(l, next + size, x - 1)
                   e == Share(l, n, x - 1)
                   t == SumFunction(TakenBy(x)')
        <3>1. /\ t = Sum(x) + (b - a) /\ a \in Nat /\ b \in Nat /\ e \in Nat /\ Sum(x) \in Int
            BY <1>4, <1>5, <2>2, <2>4
        <3>2. Turn(x) = Sum(x) - a /\ Turn(x)' = t - e
            BY <1>6, <2>3
        <3> HIDE DEF a, b, e, t, Sum
        <3>3. Turn(x)' = Turn(x) + (b - e) /\ Turn(x) \in Int
            BY <3>1, <3>2
        <3> QED BY <3>1, <3>3 DEF b, e
    <2>6. CASE next + size >= Width
        <3>1. (Share(l, next + size, i - 1) - Share(l, n, i - 1))
                - (Share(l, next + size, j - 1) - Share(l, n, j - 1)) <= 1
            BY <1>0, <1>4, <2>4, ShareFair
        <3>2. wraps' = wraps + 1
            BY <2>1, <2>6
        <3> DEFINE a(x) == Share(l, next + size, x - 1)
                   b(x) == Share(l, n, x - 1)
        <3>3. /\ Turn(i)' = Turn(i) + (a(i) - b(i)) /\ Turn(j)' = Turn(j) + (a(j) - b(j))
              /\ Turn(i) \in Int /\ Turn(j) \in Int /\ a(i) \in Nat /\ a(j) \in Nat
              /\ b(i) \in Nat /\ b(j) \in Nat
            BY <2>5
        <3>4. (a(i) - b(i)) - (a(j) - b(j)) <= 1
            BY <3>1
        <3> HIDE DEF a, b
        <3>5. wraps \in Nat
            BY <1>0
        <3>6. PICK x, y : x = Turn(i)' /\ y = Turn(j)'
            OBVIOUS
        <3>7. x = Turn(i) + (a(i) - b(i)) /\ y = Turn(j) + (a(j) - b(j))
            BY <3>3, <3>6, Zenon
        <3>8. /\ Turn(i) \in Int /\ Turn(j) \in Int /\ a(i) \in Nat /\ a(j) \in Nat
              /\ b(i) \in Nat /\ b(j) \in Nat
            BY <3>3, Zenon
        <3>9. x - y <= wraps + 1
            <4>1. PICK p \in Int, q \in Int, k \in Nat : p = Turn(i) /\ q = Turn(j) /\ k = wraps
                BY <3>5, <3>8, Zenon
            <4>2. PICK ai \in Nat, aj \in Nat, bi \in Nat, bj \in Nat :
                      ai = a(i) /\ aj = a(j) /\ bi = b(i) /\ bj = b(j)
                BY <3>8, Zenon
            <4>3. /\ p - q <= k /\ (ai - bi) - (aj - bj) <= 1
                  /\ x = p + (ai - bi) /\ y = q + (aj - bj)
                BY <1>1, <3>4, <3>7, <4>1, <4>2
            <4>4. x - y <= k + 1
                BY <4>3
            <4> QED BY <4>1, <4>4
        <3> QED BY <3>2, <3>6, <3>9
    <2>7. CASE ~(next + size >= Width)
        <3>1. n = next + size
            <4>1. PICK k : k = next + size
                OBVIOUS
            <4>2. Width \in Nat \ {0} /\ k \in 0..(Width - 1)
                BY <2>4, <2>7, <4>1, SendLoopAssumption
            <4>3. (Width * 0 + k) % Width = k /\ Width * 0 + k = k
                BY <4>2, Remainder
            <4> QED BY <2>1, <2>3, <4>1, <4>3
        <3>2. wraps' = wraps
            BY <2>1, <2>7
        <3>3. Turn(i)' = Turn(i) /\ Turn(j)' = Turn(j)
            <4> HIDE DEF l
            <4> QED BY <2>5, <3>1
        <3> QED BY <1>1, <3>2, <3>3
    <2> QED BY <2>6, <2>7
<1> QED BY <1>7, <1>8

(* The other actions leave the turns alone.                                 *)
LEMMA TurnStep ==
    ASSUME TypeInv, NEW w \in Workers, Step(w), TurnInv
    PROVE  TurnInv'
<1>0. UNCHANGED config /\ OwnStep(w)
    BY StepOwn
<1>1. CASE \E event \in Events : Pick(w, event)
    BY <1>0, <1>1, TurnPick
<1>2. CASE UNCHANGED cursor
    BY <1>0, <1>2 DEF TurnInv, Turn, TakenBy, cursor, config, Workers
<1>3. (\E event \in Events : Pick(w, event)) \/ UNCHANGED cursor
    BY Zenon DEF Step, StartBatch, StartPacket, PackEvent, PacketFull, ClosePacket, AddEvent,
                 EventsReady, Pace, Send, SendSingle, Stops
<1> QED BY <1>1, <1>2, <1>3

-----------------------------------------------------------------------------
(* The invariant.                                                           *)

WorkerInv(w) == WorkInv(w) /\ LostInv(w) /\ PackInv(w) /\ DealtInv(w) /\ RateInv(w)
IInv == TypeInv /\ (\A w \in Workers : WorkerInv(w)) /\ TurnInv

(* What holds of a worker holds as long as its entries stay.                *)
LEMMA WorkerSame ==
    ASSUME TypeInv, NEW q \in Workers, WorkerInv(q), UNCHANGED config,
           now' \in Nat, now <= now',
           position'[q] = position[q], picks'[q] = picks[q], place'[q] = place[q],
           packet'[q] = packet[q], packets'[q] = packets[q],
           pending_packet'[q] = pending_packet[q], pending_payload'[q] = pending_payload[q],
           due'[q] = due[q], sent'[q] = sent[q], batches'[q] = batches[q]
    PROVE  WorkerInv(q)'
<1>1. /\ single(q)' = single(q) /\ event_limit(q)' = event_limit(q)
      /\ quota_for_worker(q)' = quota_for_worker(q)
      /\ EventsOf(q)' = EventsOf(q) /\ Out(q)' = Out(q) /\ Batch(q)' = Batch(q)
      /\ kind' = kind /\ items' = items /\ target_eps' = target_eps /\ N' = N
    <2>1. EventsOf(q)' = EventsOf(q) /\ Out(q)' = Out(q)
        BY DEF EventsOf, Out
    <2> QED BY <2>1, Config DEF Batch, config
<1>2. WorkInv(q)'
    BY <1>1 DEF WorkInv, WorkerInv
<1>3. LostInv(q)'
    BY <1>1 DEF LostInv, WorkerInv
<1>4. PackInv(q)'
    BY <1>1 DEF PackInv, WorkerInv
<1>5. DealtInv(q)'
    BY <1>1 DEF DealtInv, WorkerInv
<1>6. RateInv(q)'
    <2> SUFFICES ASSUME target_eps > 0
                 PROVE  RateInv(q)'
        BY <1>1 DEF RateInv
    <2>1. /\ Second * Out(q) <= quota_for_worker(q) * (due[q] + batches[q])
          /\ place[q] = "wait" =>
                Second * (Out(q) + Batch(q)) <= quota_for_worker(q) * (due[q] + batches[q] + 1)
          /\ Second * Out(q) <= quota_for_worker(q) * (now + batches[q])
        BY DEF RateInv, WorkerInv
    <2>2. PICK t \in Nat : t = now'
        OBVIOUS
    <2>3. /\ quota_for_worker(q) \in Nat /\ now \in Nat /\ batches[q] \in Nat
          /\ Second * Out(q) \in Int
        <3>1. FlattenSeq(sent[q]) \in Seq(Events)
            BY Entries, FlattenType
        <3>2. Out(q) \in Nat /\ Second \in Nat
            BY <3>1, SendLoopAssumption DEF Out
        <3>3. now \in Nat
            BY DEF TypeInv
        <3>4. quota_for_worker(q) \in Nat /\ batches[q] \in Nat
            BY Quota, Entries
        <3> QED BY <3>2, <3>3, <3>4
    <2>4. PICK a \in Nat, b \in Nat : a = now + batches[q] /\ b = t + batches[q] /\ a <= b
        <3>1. now <= t
            BY <2>2
        <3>2. now + batches[q] \in Nat /\ t + batches[q] \in Nat
              /\ now + batches[q] <= t + batches[q]
            BY <2>3, <3>1
        <3> QED BY <3>2
    <2>5. /\ quota_for_worker(q) * a <= quota_for_worker(q) * b
          /\ quota_for_worker(q) * a \in Nat /\ quota_for_worker(q) * b \in Nat
        BY <2>3, <2>4, Allows
    <2>6. Second * Out(q) <= quota_for_worker(q) * (t + batches[q])
        BY <2>1, <2>3, <2>4, <2>5
    <2>7. Second * Out(q) <= quota_for_worker(q) * (now' + batches[q])
        BY <2>2, <2>6
    <2> QED BY <1>1, <2>1, <2>7 DEF RateInv
<1> QED BY <1>2, <1>3, <1>4, <1>5, <1>6 DEF WorkerInv

(* Time and the request to stop change nothing of it, nor does a worker for
   the others.                                                              *)
LEMMA StepKeeps ==
    ASSUME IInv, [Next]_vars
    PROVE  IInv'
<1>0. TypeInv /\ (\A w \in Workers : WorkerInv(w)) /\ TurnInv /\ now \in Nat
    BY DEF IInv, TypeInv
<1>1. TypeInv'
    BY <1>0, TypeStep
<1>2. CASE /\ UNCHANGED <<config, cursor, place, building, due, output>>
           /\ now' \in Nat /\ now <= now'
    <2>1. Workers' = Workers
        BY <1>2 DEF config, Workers
    <2>2. ASSUME NEW q \in Workers
          PROVE  WorkerInv(q)'
        <3>1. UNCHANGED config
            BY <1>2
        <3>2. /\ position'[q] = position[q] /\ picks'[q] = picks[q] /\ place'[q] = place[q]
              /\ packet'[q] = packet[q] /\ packets'[q] = packets[q]
              /\ pending_packet'[q] = pending_packet[q]
              /\ pending_payload'[q] = pending_payload[q]
              /\ due'[q] = due[q] /\ sent'[q] = sent[q] /\ batches'[q] = batches[q]
            BY <1>2 DEF cursor, building, output
        <3> QED BY <1>0, <1>2, <3>1, <3>2, WorkerSame
    <2>3. TurnInv'
        BY <1>0, <1>2 DEF TurnInv, Turn, TakenBy, cursor, config, Workers
    <2> QED BY <1>1, <2>1, <2>2, <2>3 DEF IInv
<1>3. CASE Tick
    BY <1>0, <1>2, <1>3 DEF Tick
<1>4. CASE RequestStop
    BY <1>0, <1>2, <1>4 DEF RequestStop
<1>5. CASE UNCHANGED vars
    BY <1>0, <1>2, <1>5 DEF vars, pacing
<1>6. ASSUME NEW w \in Workers, Step(w)
      PROVE  IInv'
    <2>1. OwnStep(w) /\ UNCHANGED config /\ now' \in Nat /\ now <= now'
        BY <1>0, <1>6, StepOwn
    <2>2. Workers' = Workers
        BY <2>1 DEF config, Workers
    <2>3. WorkerInv(w)'
        <3>1. WorkInv(w) /\ LostInv(w) /\ PackInv(w) /\ DealtInv(w) /\ RateInv(w)
            BY <1>0 DEF WorkerInv
        <3>2. WorkInv(w)' /\ LostInv(w)'
            BY <1>0, <1>6, <3>1, WorkStep, LostStep
        <3>3. PackInv(w)' /\ DealtInv(w)'
            BY <1>0, <1>6, <3>1, PackStep, DealtStep
        <3>4. RateInv(w)'
            BY <1>0, <1>6, <3>1, RateStep
        <3> QED BY <3>2, <3>3, <3>4 DEF WorkerInv
    <2>4. ASSUME NEW q \in Workers, q # w
          PROVE  WorkerInv(q)'
        BY <1>0, <2>1, <2>4, OtherEntries, WorkerSame
    <2>5. TurnInv'
        BY <1>0, <1>6, TurnStep
    <2> QED BY <1>1, <2>2, <2>3, <2>4, <2>5 DEF IInv
<1> QED BY <1>3, <1>4, <1>5, <1>6 DEF Next

(* At the start nothing was rendered and nothing is held.                   *)
LEMMA InitTypes ==
    ASSUME Init
    PROVE  TypeInv
<1>1. kind \in Kinds /\ target_eps \in Nat /\ items \in Catalogs
    BY SendLoopAssumption DEF Init
<1>2. N \in Nat \ {0} /\ (target_eps > 0 => N <= target_eps)
    BY <1>1, WorkerCount DEF Init
<1>3. Len(items) \in Nat \ {0}
    <2>1. items \in Seq(Seq({"a", "r", "n"})) /\ items # <<>>
        BY <1>1, SendLoopAssumption
    <2> QED BY <2>1
<1>4. /\ current \in [Workers -> 0..(Len(items) - 1)] /\ remaining \in [Workers -> Nat]
      /\ due \in [Workers -> Nat] /\ batches \in [Workers -> Nat]
      /\ place \in [Workers -> Places]
    BY <1>3 DEF Init, Places
<1>5. position \in [Workers -> 0..(Span - 1)]
    <2>1. ASSUME NEW w \in Workers
          PROVE  (w - 1) % Span \in 0..(Span - 1)
        <3>1. w - 1 \in Nat /\ Span \in Nat \ {0}
            BY <1>2, SendLoopAssumption DEF Workers
        <3> QED BY <3>1, Quotient
    <2> QED BY <2>1 DEF Init
<1>6. /\ Nil \in Seq(Events) /\ Nil \in Seq(Seq(Events))
    BY JoinNil
<1>7. /\ packet = [w \in Workers |-> Nil] /\ packets = [w \in Workers |-> Nil]
      /\ pending_packet = packet /\ pending_payload = packet /\ picks = packet /\ sent = packet
    BY DEF Init, Nil
<1>8. /\ packet \in [Workers -> Seq(Events)] /\ packets \in [Workers -> Seq(Seq(Events))]
      /\ pending_packet \in [Workers -> Seq(Events)] /\ picks \in [Workers -> Seq(Events)]
      /\ pending_payload \in [Workers -> Seq(Events)] /\ sent \in [Workers -> Seq(Seq(Events))]
    BY <1>6, <1>7
<1>9. next = 0 /\ wraps = 0 /\ now = 0 /\ stop = FALSE
    BY DEF Init
<1> QED BY <1>1, <1>2, <1>4, <1>5, <1>8, <1>9 DEF TypeInv

(* No worker has rendered or holds an event.                                *)
LEMMA InitWorker ==
    ASSUME Init, TypeInv, NEW w \in Workers
    PROVE  WorkerInv(w)
<1>1. /\ place[w] = "build" /\ packet[w] = <<>> /\ packets[w] = <<>> /\ pending_packet[w] = <<>>
      /\ pending_payload[w] = <<>> /\ picks[w] = <<>> /\ sent[w] = <<>>
      /\ due[w] = 0 /\ batches[w] = 0 /\ now = 0 /\ position[w] = (w - 1) % Span
    BY DEF Init
<1>2. EventsOf(w) = 0 /\ Out(w) = 0
    <2>1. Len(<<>>) = 0
        OBVIOUS
    <2> QED BY <1>1, <2>1, FlattenEmpty DEF EventsOf, Out
<1>3. WorkInv(w)
    BY <1>1 DEF WorkInv
<1>4. LostInv(w)
    <2>1. Nil \in Seq(Seq(Events)) /\ Nil \in Seq(Events) /\ Joined(Nil, Nil) = Nil
        BY JoinNil
    <2>2. Content(Nil, Nil, Nil, Nil, Nil) =
             Joined(Joined(Joined(Joined(FlattenSeq(Nil), FlattenSeq(Nil)), Nil), Nil), Nil)
        BY <2>1, ContentIs
    <2>3. FlattenSeq(Nil) = Nil
        BY FlattenEmpty DEF Nil
    <2>4. Content(Nil, Nil, Nil, Nil, Nil) = Nil
        BY <2>1, <2>2, <2>3, Zenon
    <2> QED BY <1>1, <2>4, Zenon DEF LostInv, Nil
<1>5. PackInv(w)
    <2>1. DOMAIN <<>> = {} /\ Len(<<>>) = 0
        OBVIOUS
    <2>2. AllFit(kind, items, <<>>)
        BY <2>1 DEF AllFit
    <2>3. event_limit(w) \in Nat
        BY Quota
    <2>4. EventsOf(w) + Len(packet[w]) <= event_limit(w)
        BY <1>1, <1>2, <2>1, <2>3
    <2>5. ~(Len(packets[w]) > 1)
        BY <1>1, <2>1
    <2> QED BY <1>1, <2>2, <2>4, <2>5, Zenon DEF PackInv
<1>6. DealtInv(w)
    <2>1. N \in Nat /\ w - 1 \in Nat
        BY DEF TypeInv, Workers
    <2>2. Len(<<>>) = 0 /\ DOMAIN <<>> = {}
        OBVIOUS
    <2>3. (w - 1) + Len(picks[w]) * N = w - 1
        <3>1. Len(picks[w]) = 0
            BY <1>1, <2>2
        <3> QED BY <2>1, <3>1
    <2>4. DOMAIN picks[w] = {}
        BY <1>1, <2>2
    <2> QED BY <1>1, <2>3, <2>4 DEF DealtInv
<1>7. RateInv(w)
    <2>1. quota_for_worker(w) \in Nat /\ Second \in Nat
        BY Quota, SendLoopAssumption
    <2>2. /\ Second * 0 <= quota_for_worker(w) * (0 + 0)
        BY <2>1
    <2> QED BY <1>1, <1>2, <2>2 DEF RateInv
<1> QED BY <1>3, <1>4, <1>5, <1>6, <1>7 DEF WorkerInv

(* No turn was taken.                                                       *)
LEMMA InitTurn ==
    ASSUME Init, TypeInv
    PROVE  TurnInv
<1> SUFFICES ASSUME NEW i \in 1..Len(items), NEW j \in 1..Len(items)
             PROVE  Turn(i) - Turn(j) <= wraps
    BY DEF TurnInv
<1>1. ASSUME NEW x \in 1..Len(items)
      PROVE  Turn(x) = 0
    <2>0. Len(items) \in Nat \ {0} /\ x - 1 \in 0..(Len(items) - 1) /\ IsFiniteSet(Workers)
        BY TakenType
    <2>1. PICK l \in Nat \ {0}, r \in Nat : l = Len(items) /\ r = x - 1 /\ r \in 0..(l - 1)
        BY <2>0
    <2>2. Share(l, 0, r) = 0
        <3>1. 0 \div l = 0 /\ 0 % l = 0
            <4>1. (l * 0 + 0) \div l = 0 /\ (l * 0 + 0) % l = 0 /\ l * 0 + 0 = 0
                BY QuotientUnique
            <4> QED BY <4>1
        <3> QED BY <3>1 DEF Share
    <2>3. Window(l, 0, 0, r) = 0
        <3>1. 0 + 0 = 0
            OBVIOUS
        <3> QED BY <2>2, <3>1 DEF Window
    <2>4. ItemsIn(<<>>, x) = 0
        <3>1. {k \in DOMAIN <<>> : <<>>[k].item = x} = {}
            OBVIOUS
        <3> QED BY <3>1, FS_EmptySet DEF ItemsIn
    <2>5. \A w \in Workers : picks[w] = <<>> /\ current[w] = 0 /\ remaining[w] = 0
        BY DEF Init
    <2>6. \A w \in Workers : Taken(Len(items), picks[w], current[w], remaining[w], x) = 0
        BY <2>1, <2>3, <2>4, <2>5 DEF Taken
    <2>7. TakenBy(x) = [w \in Workers |-> 0 + (IF w \in {} THEN 1 ELSE 0)]
        BY <2>6 DEF TakenBy
    <2>8. SumFunction(TakenBy(x)) = 0
        <3>1. {} \in SUBSET Workers
            OBVIOUS
        <3>2. PICK f : f = TakenBy(x)
            OBVIOUS
        <3>3. SumFunction(f) = 0 * Cardinality(Workers) + Cardinality({})
            BY <2>0, <2>7, <3>1, <3>2, SumsCount
        <3>4. Cardinality({}) = 0 /\ Cardinality(Workers) \in Nat
            BY <2>0, FS_EmptySet, FS_CardinalityType
        <3> QED BY <3>2, <3>3, <3>4
    <2>9. next = 0
        BY DEF Init
    <2> QED BY <2>1, <2>2, <2>8, <2>9 DEF Turn
<1>2. wraps = 0
    BY DEF Init
<1> QED BY <1>1, <1>2

(* Every state satisfies it: the worker's places, its share of the events, of
   the seconds and of the rate, and the turns of the items.                 *)
THEOREM Inductive == Spec => []IInv
<1>1. Init => IInv
    BY InitTypes, InitWorker, InitTurn DEF IInv
<1>2. IInv /\ [Next]_vars => IInv'
    BY StepKeeps
<1> QED BY <1>1, <1>2, PTL DEF Spec

(* Variables have their types, and there are no more workers than events in the
   target.                                                                  *)
THEOREM TypeCorrect == Spec => []TypeInv
BY Inductive, PTL DEF IInv

(* Packing neither loses, nor repeats, nor reorders an event, whatever the
   limits and the payloads: what a worker rendered is what it sent, holds or
   keeps for its next turn.                                                  *)
THEOREM NothingLostCorrect == Spec => []NothingLost
<1>1. IInv => NothingLost
    BY DEF IInv, WorkerInv, LostInv, Content, NothingLost
<1> QED BY <1>1, Inductive, PTL

(* A packed datagram stays below its target unless it is a single event, and
   below what UDP carries; a batch below its own target and within the rate. *)
THEOREM DatagramsFitCorrect == Spec => []DatagramsFit
<1>1. ASSUME IInv, kind = "packed", NEW w \in Workers
      PROVE  /\ \A i \in DOMAIN sent[w] :
                   /\ Bytes(sent[w][i]) <= DatagramTarget \/ Len(sent[w][i]) = 1
                   /\ Bytes(sent[w][i]) <= MaximumPayload
                   /\ Len(sent[w][i]) \in 1..EventLimit
             /\ Len(packets[w]) > 1 => Bytes(FlattenSeq(packets[w])) <= BatchTarget
             /\ EventsOf(w) <= event_limit(w)
    <2>1. PackInv(w) /\ TypeInv
        BY <1>1 DEF IInv, WorkerInv
    <2>2. \A i \in DOMAIN sent[w] : Fits(kind, items, sent[w][i])
        BY <1>1, <2>1 DEF PackInv, AllFit
    <2>3. \A i \in DOMAIN sent[w] :
             /\ Bytes(sent[w][i]) <= DatagramTarget \/ Len(sent[w][i]) = 1
             /\ Bytes(sent[w][i]) <= MaximumPayload
             /\ Len(sent[w][i]) \in 1..EventLimit
        BY <2>2, BytesIs DEF Fits
    <2>4. Len(packets[w]) > 1 => Bytes(FlattenSeq(packets[w])) <= BatchTarget
        BY <1>1, <2>1, BytesIs DEF PackInv
    <2>5. EventsOf(w) <= event_limit(w)
        <3>1. packet[w] \in Seq(Events) /\ packets[w] \in Seq(Seq(Events))
            BY <2>1, Entries
        <3>2. FlattenSeq(packets[w]) \in Seq(Events)
            BY <3>1, FlattenType
        <3>3. EventsOf(w) \in Nat /\ Len(packet[w]) \in Nat /\ event_limit(w) \in Nat
            BY <2>1, <3>1, <3>2, Quota DEF EventsOf
        <3>4. EventsOf(w) + Len(packet[w]) <= event_limit(w)
            BY <1>1, <2>1 DEF PackInv
        <3> QED BY <3>3, <3>4
    <2> QED BY <2>3, <2>4, <2>5
<1>2. IInv => DatagramsFit
    BY <1>1 DEF DatagramsFit
<1> QED BY <1>2, Inductive, PTL

(* The k-th event of a worker has the k-th second of its own, whatever the
   number of workers and the length of the range.                            *)
THEOREM TimestampsDealtCorrect == Spec => []TimestampsDealt
<1>1. IInv => TimestampsDealt
    BY DEF IInv, WorkerInv, DealtInv, TimestampsDealt
<1> QED BY <1>1, Inductive, PTL

(* The quotas of the workers are the target.                                *)
LEMMA QuotasAddUp ==
    ASSUME TypeInv, target_eps > 0
    PROVE  /\ [w \in Workers |-> quota_for_worker(w)] \in [Workers -> Int]
           /\ SumFunction([w \in Workers |-> quota_for_worker(w)]) = target_eps
<1> DEFINE q == target_eps \div N
           r == target_eps % N
           M == {w \in Workers : w - 1 < r}
           f == [w \in Workers |-> quota_for_worker(w)]
<1>1. q \in Nat /\ r \in 0..(N - 1) /\ target_eps = N * q + r /\ N \in Nat \ {0}
    BY Quotient DEF TypeInv
<1>2. M = 1..r /\ M \in SUBSET Workers
    <2> HIDE DEF r
    <2> QED BY <1>1 DEF Workers
<1>3. f = [w \in Workers |-> q + (IF w \in M THEN 1 ELSE 0)]
    <2>1. target_eps # 0
        OBVIOUS
    <2> QED BY <2>1 DEF quota_for_worker
<1>4. IsFiniteSet(Workers) /\ Cardinality(Workers) = N /\ Cardinality(M) = r
    <2> HIDE DEF r, M
    <2>1. IsFiniteSet(1..N) /\ Cardinality(1..N) = N /\ Cardinality(1..r) = r
        BY <1>1, FS_Interval
    <2> QED BY <1>2, <2>1 DEF Workers
<1>5. f \in [Workers -> Int]
    BY Quota
<1> HIDE DEF q, r, M, f
<1>6. SumFunction(f) = q * Cardinality(Workers) + Cardinality(M)
    BY <1>1, <1>2, <1>3, <1>4, SumsCount
<1>7. SumFunction(f) = target_eps
    BY <1>1, <1>4, <1>6
<1> QED BY <1>5, <1>7 DEF f

(* No more events leave than the target allows for the time that has passed,
   but for less than a tick for each batch, whatever the number of workers.  *)
THEOREM RateHeldCorrect == Spec => []RateHeld
<1>1. ASSUME IInv, target_eps > 0
      PROVE  Second * SumFunction([w \in Workers |-> Len(FlattenSeq(sent[w]))])
                <= target_eps * now
                   + SumFunction([w \in Workers |-> quota_for_worker(w) * batches[w]])
    <2> DEFINE f == [w \in Workers |-> Len(FlattenSeq(sent[w]))]
               g == [w \in Workers |-> quota_for_worker(w)]
               h == [w \in Workers |-> quota_for_worker(w) * batches[w]]
    <2>0. TypeInv /\ now \in Int /\ Second \in Int /\ now \in Nat /\ target_eps \in Nat
        BY <1>1, SendLoopAssumption DEF IInv, TypeInv
    <2>1. ASSUME NEW w \in Workers
          PROVE  /\ f[w] \in Int /\ g[w] \in Int /\ h[w] \in Int
                 /\ Second * f[w] <= now * g[w] + h[w]
        <3>1. /\ quota_for_worker(w) \in Nat /\ batches[w] \in Nat
              /\ FlattenSeq(sent[w]) \in Seq(Events)
            BY <2>0, Quota, Entries, FlattenType
        <3>2. Second * Out(w) <= quota_for_worker(w) * (now + batches[w])
            BY <1>1 DEF IInv, WorkerInv, RateInv
        <3>3. Out(w) \in Nat /\ f[w] = Out(w)
            BY <3>1 DEF Out
        <3>4. g[w] = quota_for_worker(w) /\ h[w] = quota_for_worker(w) * batches[w]
            OBVIOUS
        <3>5. /\ quota_for_worker(w) * (now + batches[w])
                   = now * quota_for_worker(w) + quota_for_worker(w) * batches[w]
              /\ quota_for_worker(w) * batches[w] \in Int
            BY <2>0, <3>1
        <3> HIDE DEF f, g, h
        <3> QED BY <3>1, <3>2, <3>3, <3>4, <3>5
    <2>2. f \in [Workers -> Int] /\ g \in [Workers -> Int] /\ h \in [Workers -> Int]
        BY <2>1
    <2>3. IsFiniteSet(Workers)
        BY <2>0, FS_Interval DEF Workers, TypeInv
    <2>4. SumFunction(g) = target_eps
        BY <1>1, <2>0, QuotasAddUp
    <2> HIDE DEF f, g, h
    <2>5. Second * SumFunction(f) <= now * SumFunction(g) + SumFunction(h)
          /\ SumFunction(h) \in Int
        BY <2>0, <2>1, <2>2, <2>3, SumsBound
    <2>6. now * target_eps = target_eps * now
        BY <2>0
    <2>7. Second * SumFunction(f) <= target_eps * now + SumFunction(h)
        BY <2>4, <2>5, <2>6
    <2> QED BY <2>7 DEF f, h
<1>2. IInv => RateHeld
    BY <1>1 DEF RateHeld
<1> QED BY <1>2, Inductive, PTL

(* The sum of differences is the difference of the sums.                    *)
SumsDiffer(f, g, d) == /\ SumFunction(f) \in Int /\ SumFunction(g) \in Int
                       /\ SumFunction(d) = SumFunction(f) - SumFunction(g)

LEMMA SumsDifference ==
    ASSUME NEW T, IsFiniteSet(T), NEW f \in [T -> Int], NEW g \in [T -> Int],
           NEW d \in [T -> Int], \A x \in T : d[x] = f[x] - g[x]
    PROVE  SumsDiffer(f, g, d)
<1>1. PICK a \in Int, b \in Int : a = 1 /\ b = -1
    OBVIOUS
<1>2. \A x \in T : a * f[x] <= a * g[x] + d[x] /\ a * d[x] <= b * g[x] + f[x]
    <2> SUFFICES ASSUME NEW x \in T
                 PROVE  a * f[x] <= a * g[x] + d[x] /\ a * d[x] <= b * g[x] + f[x]
        OBVIOUS
    <2>1. f[x] \in Int /\ g[x] \in Int /\ d[x] \in Int /\ d[x] = f[x] - g[x]
        OBVIOUS
    <2> QED BY <1>1, <2>1
<1>3. /\ SumFunction(f) \in Int /\ SumFunction(g) \in Int /\ SumFunction(d) \in Int
      /\ a * SumFunction(f) <= a * SumFunction(g) + SumFunction(d)
    BY <1>2, SumsBound
<1>4. a * SumFunction(d) <= b * SumFunction(g) + SumFunction(f)
    BY <1>2, SumsBound
<1> QED BY <1>1, <1>3, <1>4 DEF SumsDiffer

(* The workers together take the items in turn, however many they are, however
   long their reservations and the list: two items were rendered equally often
   but for one, one for each reservation in use and one for each overflow.   *)
THEOREM BalancedCorrect == Spec => []Balanced
<1>1. ASSUME IInv, Len(items) > 1, NEW i \in 1..Len(items), NEW j \in 1..Len(items)
      PROVE  Count(i) - Count(j) <= 1 + wraps + Cardinality({w \in Workers : remaining[w] > 0})
    <2> DEFINE l == Len(items)
               Busy == {w \in Workers : remaining[w] > 0}
               Ri == [w \in Workers |-> Rendered(w, i)]
               Rj == [w \in Workers |-> Rendered(w, j)]
               Ti == TakenBy(i)
               Tj == TakenBy(j)
               W(w, x) == Window(l, current[w], remaining[w], x - 1)
               d == [w \in Workers |-> Rendered(w, i) - Rendered(w, j)]
               t == [w \in Workers |-> Ti[w] - Tj[w]]
               busy == [w \in Workers |-> 0 + (IF w \in Busy THEN 1 ELSE 0)]
    <2>0. /\ TypeInv /\ TurnInv /\ l \in Nat \ {0} /\ IsFiniteSet(Workers)
          /\ i - 1 \in 0..(l - 1) /\ j - 1 \in 0..(l - 1) /\ next \in Nat /\ wraps \in Nat
          /\ TakenBy(i) \in [Workers -> Int] /\ TakenBy(j) \in [Workers -> Int]
        <3>1. TypeInv /\ TurnInv
            BY <1>1 DEF IInv
        <3> QED BY <3>1, TakenType DEF TypeInv
    <2>1. ASSUME NEW w \in Workers
          PROVE  /\ Rendered(w, i) \in Int /\ Rendered(w, j) \in Int
                 /\ W(w, i) \in Int /\ W(w, j) \in Int
                 /\ TakenBy(i)[w] = Rendered(w, i) + W(w, i)
                 /\ TakenBy(j)[w] = Rendered(w, j) + W(w, j)
                 /\ W(w, j) - W(w, i) <= (IF w \in Busy THEN 1 ELSE 0)
        <3>1. current[w] \in Nat /\ remaining[w] \in Nat /\ picks[w] \in Seq(Events)
            BY <2>0, Entries
        <3>2. PICK a \in Nat, c \in Nat, m \in Nat :
                  a = c + m /\ c = current[w] /\ m = remaining[w]
            BY <3>1
        <3>3. /\ Share(l, a, i - 1) \in Nat /\ Share(l, c, i - 1) \in Nat
              /\ Share(l, a, j - 1) \in Nat /\ Share(l, c, j - 1) \in Nat
            BY <2>0, ShareNext
        <3>4. (Share(l, a, j - 1) - Share(l, c, j - 1))
                - (Share(l, a, i - 1) - Share(l, c, i - 1)) <= 1
            BY <2>0, ShareFair
        <3>5. /\ W(w, i) = Share(l, a, i - 1) - Share(l, c, i - 1)
              /\ W(w, j) = Share(l, a, j - 1) - Share(l, c, j - 1)
            BY <3>2 DEF Window
        <3>6. Rendered(w, i) \in Nat /\ Rendered(w, j) \in Nat
            BY <2>0, RenderedType
        <3>7. /\ TakenBy(i)[w] = Rendered(w, i) + W(w, i)
              /\ TakenBy(j)[w] = Rendered(w, j) + W(w, j)
            BY DEF TakenBy, Taken, ItemsIn, Rendered
        <3>8. w \in Busy <=> m > 0
            BY <3>2
        <3>9. m = 0 => a = c
            BY <3>2
        <3> HIDE DEF l, W, Busy
        <3>10. W(w, j) - W(w, i) <= (IF w \in Busy THEN 1 ELSE 0)
            <4>1. CASE m > 0
                BY <3>3, <3>4, <3>5, <3>8, <4>1
            <4>2. CASE m = 0
                <5>1. W(w, i) = 0 /\ W(w, j) = 0
                    BY <3>3, <3>5, <3>9, <4>2
                <5> QED BY <5>1
            <4> QED BY <4>1, <4>2
        <3>11. W(w, i) \in Int /\ W(w, j) \in Int
            BY <3>3, <3>5
        <3> QED BY <3>6, <3>7, <3>10, <3>11
    <2>2. /\ Ri \in [Workers -> Int] /\ Rj \in [Workers -> Int]
        BY <2>1
    <2>3. d \in [Workers -> Int] /\ t \in [Workers -> Int] /\ busy \in [Workers -> Int]
        <3>1. d \in [Workers -> Int]
            BY <2>1
        <3>2. t \in [Workers -> Int]
            BY <2>0
        <3>3. busy \in [Workers -> Int]
            OBVIOUS
        <3> QED BY <3>1, <3>2, <3>3
    <2>4. \A w \in Workers : d[w] = Ri[w] - Rj[w]
        OBVIOUS
    <2>5. \A w \in Workers : t[w] = Ti[w] - Tj[w]
        OBVIOUS
    <2>6. ASSUME NEW w \in Workers
          PROVE  d[w] <= t[w] + busy[w]
        <3>1. /\ d[w] = Rendered(w, i) - Rendered(w, j) /\ t[w] = Ti[w] - Tj[w]
              /\ busy[w] = (IF w \in Busy THEN 1 ELSE 0) /\ busy[w] \in Int
            OBVIOUS
        <3> HIDE DEF d, t, busy, W
        <3>2. W(w, j) - W(w, i) <= busy[w]
            BY <2>1, <3>1
        <3> QED BY <2>1, <3>1, <3>2
    <2>7. SumFunction(d) = Count(i) - Count(j) /\ Count(i) \in Int /\ Count(j) \in Int
        <3>1. SumFunction(Ri) = Count(i) /\ SumFunction(Rj) = Count(j)
            BY DEF Count
        <3> HIDE DEF Ri, Rj, d
        <3>2. /\ SumFunction(Ri) \in Int /\ SumFunction(Rj) \in Int
              /\ SumFunction(d) = SumFunction(Ri) - SumFunction(Rj)
            <4>1. /\ d \in [Workers -> Int] /\ Ri \in [Workers -> Int]
                  /\ Rj \in [Workers -> Int] /\ IsFiniteSet(Workers)
                BY <2>0, <2>2, <2>3
            <4>2. SumsDiffer(Ri, Rj, d)
                BY <2>4, <4>1, SumsDifference
            <4> QED BY <4>2 DEF SumsDiffer
        <3> QED BY <3>1, <3>2
    <2>8. /\ SumFunction(t) = SumFunction(Ti) - SumFunction(Tj)
          /\ SumFunction(Ti) \in Int /\ SumFunction(Tj) \in Int
        <3> HIDE DEF t, Ti, Tj
        <3>1. /\ t \in [Workers -> Int] /\ Ti \in [Workers -> Int]
              /\ Tj \in [Workers -> Int] /\ IsFiniteSet(Workers)
            BY <2>0, <2>3 DEF Ti, Tj
        <3>2. SumsDiffer(Ti, Tj, t)
            BY <2>5, <3>1, SumsDifference
        <3> QED BY <3>2 DEF SumsDiffer
    <2>9. SumFunction(busy) = Cardinality(Busy) /\ Cardinality(Busy) \in Nat
        <3>1. Busy \in SUBSET Workers
            OBVIOUS
        <3>2. Cardinality(Busy) \in Nat /\ Cardinality(Workers) \in Nat
            BY <2>0, <3>1, FS_Subset, FS_CardinalityType
        <3>3. SumFunction(busy) = 0 * Cardinality(Workers) + Cardinality(Busy)
            <4> HIDE DEF Busy
            <4> QED BY <2>0, <3>1, SumsCount
        <3> HIDE DEF busy, Busy
        <3> QED BY <3>2, <3>3
    <2>10. SumFunction(d) <= SumFunction(t) + SumFunction(busy)
        <3> HIDE DEF d, t, busy
        <3>1. PICK a \in Int : a = 1
            OBVIOUS
        <3>2. \A w \in Workers : a * d[w] <= a * t[w] + busy[w]
            <4> SUFFICES ASSUME NEW w \in Workers
                         PROVE  a * d[w] <= a * t[w] + busy[w]
                OBVIOUS
            <4>1. d[w] \in Int /\ t[w] \in Int /\ busy[w] \in Int
                BY <2>3
            <4> QED BY <2>6, <3>1, <4>1
        <3>3. /\ SumFunction(d) \in Int /\ SumFunction(t) \in Int /\ SumFunction(busy) \in Int
              /\ a * SumFunction(d) <= a * SumFunction(t) + SumFunction(busy)
            <4>1. /\ d \in [Workers -> Int] /\ t \in [Workers -> Int]
                  /\ busy \in [Workers -> Int] /\ IsFiniteSet(Workers)
                BY <2>0, <2>3
            <4> QED BY <3>2, <4>1, SumsBound, Zenon
        <3> QED BY <3>1, <3>3
    <2>11. Turn(i) - Turn(j) <= wraps
        BY <1>1, <2>0 DEF TurnInv
    <2>12. /\ Turn(i) = SumFunction(Ti) - Share(l, next, i - 1)
           /\ Turn(j) = SumFunction(Tj) - Share(l, next, j - 1)
        BY DEF Turn
    <2>13. /\ Share(l, next, i - 1) \in Nat /\ Share(l, next, j - 1) \in Nat
           /\ Share(l, next, i - 1) - Share(l, next, j - 1) <= 1
        <3>1. /\ Share(l, next, i - 1) \in Nat /\ Share(l, next, j - 1) \in Nat
              /\ Share(l, 0, i - 1) \in Nat /\ Share(l, 0, j - 1) \in Nat
            BY <2>0, ShareNext
        <3>2. Share(l, 0, i - 1) = Share(l, 0, j - 1)
            <4>1. 0 % l = 0 /\ 0 \div l \in Nat
                <5>1. (l * 0 + 0) % l = 0 /\ (l * 0 + 0) \div l = 0 /\ l * 0 + 0 = 0
                    BY <2>0, QuotientUnique
                <5> QED BY <5>1
            <4>2. ~(i - 1 < 0) /\ ~(j - 1 < 0)
                BY <2>0
            <4> QED BY <4>1, <4>2 DEF Share
        <3>3. (Share(l, next, i - 1) - Share(l, 0, i - 1))
                - (Share(l, next, j - 1) - Share(l, 0, j - 1)) <= 1
            BY <2>0, ShareFair
        <3> HIDE DEF l
        <3> QED BY <3>1, <3>2, <3>3
    <2>14. SumFunction(Ti) - SumFunction(Tj) <= wraps + 1
        <3> HIDE DEF l
        <3> QED BY <2>0, <2>8, <2>11, <2>12, <2>13
    <2>15. Count(i) - Count(j) <= 1 + wraps + Cardinality(Busy)
        <3> HIDE DEF d, t, busy, Busy, Ri, Rj, Ti, Tj
        <3> QED BY <2>0, <2>7, <2>8, <2>9, <2>10, <2>14
    <2> QED BY <2>15
<1>2. ASSUME IInv, ~(Len(items) > 1), NEW i \in 1..Len(items), NEW j \in 1..Len(items)
      PROVE  Count(i) - Count(j) <= 1 + wraps + Cardinality({w \in Workers : remaining[w] > 0})
    <2>0. TypeInv /\ IsFiniteSet(Workers) /\ Len(items) \in Nat
        BY <1>2, TakenType DEF IInv
    <2>1. i = j
        BY <1>2, <2>0
    <2>2. Count(i) \in Int
        <3>1. \A w \in Workers : Rendered(w, i) \in Int
            BY <2>0, RenderedType
        <3>2. [w \in Workers |-> Rendered(w, i)] \in [Workers -> Int]
            BY <3>1
        <3> QED BY <2>0, <3>2, SumsInt DEF Count
    <2>3. Cardinality({w \in Workers : remaining[w] > 0}) \in Nat
        BY <2>0, FS_Subset, FS_CardinalityType
    <2>4. wraps \in Nat
        BY <2>0 DEF TypeInv
    <2> QED BY <2>1, <2>2, <2>3, <2>4
<1>3. IInv => Balanced
    BY <1>1, <1>2 DEF Balanced
<1> QED BY <1>3, Inductive, PTL

===============================================================================
