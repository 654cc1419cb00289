----------------------------- MODULE CliProofs -----------------------------
(***************************************************************************)
(* Theorems about the command line, for any administrators, names of any   *)
(* length and any pool: which spellings meet in one entry, that a name as  *)
(* it is kept can be typed again, and that nothing changes in silence.     *)
(***************************************************************************)
EXTENDS Cli, DataLemmas

----------------------------------------------------------------------------
(* Sequences joined one after the other. *)

\* f holds the first members of ss joined, as far as n.
Joins(f, ss, n) ==
    /\ DOMAIN f = 0 .. n
    /\ f[0] = <<>>
    /\ \A k \in 1 .. n : f[k] = f[k - 1] \o ss[k]

\* Joined sequences over a set are sequences over it.
LEMMA JoinsType ==
    ASSUME NEW S, NEW ss \in Seq(Seq(S)), NEW n \in 0 .. Len(ss),
           NEW f, Joins(f, ss, n)
    PROVE  \A k \in 0 .. n : f[k] \in Seq(S)
<1> DEFINE T == {k \in 0 .. n : f[k] \notin Seq(S)}
<1>0. Len(ss) \in Nat /\ n \in Nat /\ \A k \in 1 .. n : ss[k] \in Seq(S)
    <2>1. Len(ss) \in Nat
        BY LenProperties
    <2>2. \A k \in 1 .. n : k \in 1 .. Len(ss)
        BY <2>1
    <2> QED BY <2>1, <2>2, ElementOfSeq
<1>1. SUFFICES ASSUME T # {} PROVE FALSE
    OBVIOUS
<1>2. PICK k \in T : \A m \in T : k <= m
    <2>1. T \subseteq Nat
        BY <1>0
    <2> HIDE DEF T
    <2> QED BY <1>1, <2>1, SmallestExists
<1>3. k # 0
    <2>1. f[0] \in Seq(S)
        BY EmptySeq DEF Joins
    <2> QED BY <2>1
<1>4. k \in 1 .. n /\ k - 1 \in 0 .. n /\ ~(k <= k - 1)
    BY <1>0, <1>3
<1>5. f[k - 1] \in Seq(S)
    BY <1>2, <1>4
<1>6. f[k] = f[k - 1] \o ss[k] /\ ss[k] \in Seq(S)
    BY <1>0, <1>4 DEF Joins
<1>7. f[k] \in Seq(S)
    BY <1>5, <1>6, ConcatProperties
<1> QED BY <1>7

\* They exist.
LEMMA JoinsExist ==
    ASSUME NEW S, NEW ss \in Seq(Seq(S))
    PROVE  \A n \in 0 .. Len(ss) : \E f : Joins(f, ss, n)
<1> DEFINE T == {n \in 0 .. Len(ss) : ~\E f : Joins(f, ss, n)}
<1>0. Len(ss) \in Nat
    BY LenProperties
<1>1. SUFFICES ASSUME T # {} PROVE FALSE
    OBVIOUS
<1>2. PICK n \in T : \A m \in T : n <= m
    <2>1. T \subseteq Nat
        BY <1>0
    <2> HIDE DEF T
    <2> QED BY <1>1, <2>1, SmallestExists
<1>3. n # 0
    <2>1. Joins([k \in 0 .. 0 |-> <<>>], ss, 0)
        BY DEF Joins
    <2> QED BY <2>1
<1>4. n - 1 \in 0 .. Len(ss) /\ n \in 1 .. Len(ss) /\ ~(n <= n - 1) /\ n \in Nat
    BY <1>0, <1>3
<1>5. PICK f : Joins(f, ss, n - 1)
    BY <1>2, <1>4
<1> DEFINE g == [k \in 0 .. n |-> IF k = n THEN f[n - 1] \o ss[n] ELSE f[k]]
<1>6. DOMAIN g = 0 .. n
    OBVIOUS
<1>7. g[0] = <<>>
    BY <1>4, <1>5 DEF Joins
<1>8. ASSUME NEW k \in 1 .. n PROVE g[k] = g[k - 1] \o ss[k]
    <2>1. k \in 0 .. n /\ k - 1 \in 0 .. n /\ k - 1 # n
        BY <1>4
    <2>2. g[k - 1] = f[k - 1]
        BY <2>1
    <2>3. CASE k = n
        BY <2>1, <2>2, <2>3
    <2>4. CASE k # n
        <3>1. k \in 1 .. n - 1
            BY <1>4, <2>4
        <3>2. g[k] = f[k] /\ f[k] = f[k - 1] \o ss[k]
            BY <1>5, <2>1, <2>4, <3>1 DEF Joins
        <3> QED BY <2>2, <3>2
    <2> QED BY <2>3, <2>4
<1>9. Joins(g, ss, n)
    <2> HIDE DEF g
    <2> QED BY <1>6, <1>7, <1>8 DEF Joins
<1> QED BY <1>2, <1>9

\* FlattenSeq joins them all.
LEMMA FlattenFacts ==
    ASSUME NEW S, NEW ss \in Seq(Seq(S))
    PROVE  \E f : /\ Joins(f, ss, Len(ss)) /\ FlattenSeq(ss) = f[Len(ss)]
                  /\ \A k \in 0 .. Len(ss) : f[k] \in Seq(S)
<1> DEFINE Is(g) == g = [i \in 1 .. Len(ss) |->
                             IF i = 1 THEN ss[i] ELSE g[i - 1] \o ss[i]]
           g == CHOOSE g : Is(g)
<1>0. Len(ss) \in Nat /\ Len(ss) \in 0 .. Len(ss)
    BY LenProperties
<1>1. PICK f : Joins(f, ss, Len(ss))
    BY <1>0, JoinsExist
<1>2. \A k \in 0 .. Len(ss) : f[k] \in Seq(S)
    BY <1>0, <1>1, JoinsType
<1>3. FlattenSeq(ss) = f[Len(ss)]
    <2>1. CASE Len(ss) = 0
        <3>1. ss = <<>>
            BY <2>1, EmptySeq
        <3>2. FlattenSeq(ss) = ss
            BY <2>1 DEF FlattenSeq
        <3> QED BY <1>1, <2>1, <3>1, <3>2 DEF Joins
    <2>2. CASE Len(ss) # 0
        <3> DEFINE h == [i \in 1 .. Len(ss) |-> f[i]]
        <3>1. Is(h)
            <4>1. ASSUME NEW i \in 1 .. Len(ss)
                  PROVE  h[i] = IF i = 1 THEN ss[i] ELSE h[i - 1] \o ss[i]
                <5>1. f[i] = f[i - 1] \o ss[i] /\ h[i] = f[i]
                    BY <1>1 DEF Joins
                <5>2. CASE i = 1
                    <6>1. ss[i] \in Seq(S)
                        BY ElementOfSeq
                    <6>2. f[i - 1] = <<>>
                        BY <1>1, <5>2 DEF Joins
                    <6> QED BY <5>1, <5>2, <6>1, <6>2, ConcatEmptySeq
                <5>3. CASE i # 1
                    <6>1. i - 1 \in 1 .. Len(ss)
                        BY <1>0, <5>3
                    <6> QED BY <5>1, <5>3, <6>1
                <5> QED BY <5>2, <5>3
            <4> QED BY <4>1
        <3>2. Is(g)
            <4> HIDE DEF Is
            <4> QED BY <3>1
        <3>3. FlattenSeq(ss) = g[Len(ss)]
            BY <2>2 DEF FlattenSeq
        <3> DEFINE T == {k \in 1 .. Len(ss) : g[k] # f[k]}
        <3>4. T = {}
            <4>1. SUFFICES ASSUME T # {} PROVE FALSE
                OBVIOUS
            <4>2. PICK k \in T : \A m \in T : k <= m
                <5> HIDE DEF g, h
                <5>1. T \subseteq Nat
                    BY <1>0
                <5> HIDE DEF T
                <5> QED BY <4>1, <5>1, SmallestExists
            <4>3. h[k] = f[k] /\ h[k] = IF k = 1 THEN ss[k] ELSE h[k - 1] \o ss[k]
                BY <3>1
            <4>4. g[k] = IF k = 1 THEN ss[k] ELSE g[k - 1] \o ss[k]
                <5> HIDE DEF g
                <5> QED BY <3>2
            <4>5. k # 1 => (g[k - 1] = f[k - 1] /\ h[k - 1] = f[k - 1])
                <5>1. k # 1 => (k - 1 \in 1 .. Len(ss) /\ ~(k <= k - 1))
                    BY <1>0
                <5> HIDE DEF g
                <5> QED BY <4>2, <5>1
            <4> HIDE DEF g, h
            <4> QED BY <4>3, <4>4, <4>5
        <3>5. Len(ss) \in 1 .. Len(ss)
            BY <1>0, <2>2
        <3> HIDE DEF g
        <3>6. g[Len(ss)] = f[Len(ss)]
            BY <3>4, <3>5
        <3> QED BY <3>3, <3>6
    <2> QED BY <2>1, <2>2
<1> QED BY <1>1, <1>2, <1>3

\* One more piece is joined to the others.
LEMMA FlattenAppend ==
    ASSUME NEW S, NEW ss \in Seq(Seq(S)), NEW t \in Seq(S)
    PROVE  /\ FlattenSeq(ss) \in Seq(S) /\ FlattenSeq(Append(ss, t)) \in Seq(S)
           /\ FlattenSeq(Append(ss, t)) = FlattenSeq(ss) \o t
<1> DEFINE tt == Append(ss, t)
<1>1. tt \in Seq(Seq(S)) /\ Len(ss) \in Nat /\ Len(tt) = Len(ss) + 1 /\ tt[Len(ss) + 1] = t
      /\ \A k \in 1 .. Len(ss) : tt[k] = ss[k]
    BY AtBack
<1> HIDE DEF tt
<1>2. PICK f : /\ Joins(f, ss, Len(ss)) /\ FlattenSeq(ss) = f[Len(ss)]
               /\ \A k \in 0 .. Len(ss) : f[k] \in Seq(S)
    BY FlattenFacts
<1>3. PICK g : /\ Joins(g, tt, Len(tt)) /\ FlattenSeq(tt) = g[Len(tt)]
               /\ \A k \in 0 .. Len(tt) : g[k] \in Seq(S)
    BY <1>1, FlattenFacts
<1> DEFINE T == {k \in 0 .. Len(ss) : g[k] # f[k]}
<1>4. T = {}
    <2>1. SUFFICES ASSUME T # {} PROVE FALSE
        OBVIOUS
    <2>2. PICK k \in T : \A m \in T : k <= m
        <3>1. T \subseteq Nat
            BY <1>1
        <3> HIDE DEF T
        <3> QED BY <2>1, <3>1, SmallestExists
    <2>3. k # 0
        BY <1>2, <1>3 DEF Joins
    <2>4. k - 1 \in 0 .. Len(ss) /\ k \in 1 .. Len(ss) /\ k \in 1 .. Len(tt) /\ ~(k <= k - 1)
        BY <1>1, <2>3
    <2>5. g[k - 1] = f[k - 1]
        BY <2>2, <2>4
    <2>6. g[k] = g[k - 1] \o ss[k] /\ f[k] = f[k - 1] \o ss[k]
        BY <1>1, <1>2, <1>3, <2>4 DEF Joins
    <2> QED BY <2>2, <2>5, <2>6
<1>5. Len(ss) \in 0 .. Len(ss) /\ Len(tt) \in 0 .. Len(tt) /\ Len(tt) \in 1 .. Len(tt)
      /\ Len(tt) - 1 = Len(ss)
    BY <1>1
<1>6. g[Len(ss)] = f[Len(ss)]
    BY <1>4, <1>5
<1>7. g[Len(tt)] = g[Len(ss)] \o t
    BY <1>1, <1>3, <1>5 DEF Joins
<1>8. FlattenSeq(tt) = FlattenSeq(ss) \o t
    BY <1>2, <1>3, <1>6, <1>7
<1>9. FlattenSeq(ss) \in Seq(S) /\ FlattenSeq(tt) \in Seq(S)
    BY <1>2, <1>3, <1>5
<1> QED BY <1>8, <1>9 DEF tt

\* What is in a piece is in the whole.
LEMMA FlattenHas ==
    ASSUME NEW S, NEW ss \in Seq(Seq(S)), NEW i \in 1 .. Len(ss), NEW j \in 1 .. Len(ss[i])
    PROVE  \E m \in 1 .. Len(FlattenSeq(ss)) : FlattenSeq(ss)[m] = ss[i][j]
<1> DEFINE Has(s) == \E m \in 1 .. Len(s) : s[m] = ss[i][j]
<1>1. PICK f : /\ Joins(f, ss, Len(ss)) /\ FlattenSeq(ss) = f[Len(ss)]
               /\ \A k \in 0 .. Len(ss) : f[k] \in Seq(S)
    BY FlattenFacts
<1>2. Len(ss) \in Nat /\ i \in Nat /\ i >= 1 /\ i <= Len(ss)
    BY LenProperties
<1> DEFINE T == {k \in i .. Len(ss) : ~Has(f[k])}
<1>3. T = {}
    <2>1. SUFFICES ASSUME T # {} PROVE FALSE
        OBVIOUS
    <2>2. PICK k \in T : \A m \in T : k <= m
        <3>1. T \subseteq Nat
            BY <1>2
        <3> HIDE DEF T
        <3> QED BY <2>1, <3>1, SmallestExists
    <2>3. k \in 1 .. Len(ss) /\ k - 1 \in 0 .. Len(ss) /\ k \in 0 .. Len(ss) /\ ~(k <= k - 1)
          /\ ss[k] \in Seq(S)
        <3>1. k \in 1 .. Len(ss) /\ k - 1 \in 0 .. Len(ss) /\ k \in 0 .. Len(ss) /\ ~(k <= k - 1)
            BY <1>2
        <3> QED BY <3>1, ElementOfSeq
    <2>4. f[k - 1] \in Seq(S) /\ f[k] = f[k - 1] \o ss[k]
        BY <1>1, <2>3 DEF Joins
    <2> DEFINE a == Len(f[k - 1])  b == Len(ss[k])
    <2>5. /\ a \in Nat /\ b \in Nat /\ Len(f[k]) = a + b
          /\ \A m \in 1 .. a + b : f[k][m] = IF m <= a THEN f[k - 1][m] ELSE ss[k][m - a]
        <3>1. a \in Nat /\ b \in Nat
            BY <2>3, <2>4, LenProperties
        <3> DEFINE u == f[k - 1]  v == ss[k]
        <3>2. u \in Seq(S) /\ v \in Seq(S) /\ f[k] = u \o v
            BY <2>3, <2>4
        <3> HIDE DEF u, v
        <3>3. /\ Len(u \o v) = Len(u) + Len(v)
              /\ \A m \in 1 .. Len(u) + Len(v) :
                    (u \o v)[m] = IF m <= Len(u) THEN u[m] ELSE v[m - Len(u)]
            BY <3>2, ConcatProperties
        <3> QED BY <3>1, <3>2, <3>3 DEF u, v
    <2>6. CASE k = i
        <3>1. j \in 1 .. b /\ ss[k][j] = ss[i][j]
            BY <2>6
        <3> HIDE DEF a, b
        <3>2. a + j \in 1 .. a + b /\ ~(a + j <= a) /\ (a + j) - a = j
            BY <2>5, <3>1
        <3>3. f[k][a + j] = ss[i][j]
            BY <2>5, <3>1, <3>2
        <3>4. Has(f[k])
            BY <2>5, <3>2, <3>3
        <3> HIDE DEF Has
        <3> QED BY <2>2, <3>4
    <2>7. CASE k # i
        <3>1. k - 1 \in i .. Len(ss)
            BY <1>2, <2>7
        <3>2. Has(f[k - 1])
            <4> HIDE DEF Has
            <4> QED BY <2>2, <2>3, <3>1
        <3>3. PICK m \in 1 .. a : f[k - 1][m] = ss[i][j]
            BY <3>2
        <3> HIDE DEF a, b
        <3>4. m \in 1 .. a + b /\ m <= a
            BY <2>5
        <3>5. Has(f[k])
            BY <2>5, <3>3, <3>4
        <3> HIDE DEF Has
        <3> QED BY <2>2, <3>5
    <2> QED BY <2>6, <2>7
<1>4. Len(ss) \in i .. Len(ss)
    BY <1>2
<1>5. Has(f[Len(ss)])
    <2> HIDE DEF Has
    <2> QED BY <1>3, <1>4
<1> QED BY <1>1, <1>5

----------------------------------------------------------------------------
(* Names in snake case. *)

\* The characters of names in snake case, those that no regular expression of
\* the server rejects, and both without the digits.
Lowered == Characters \ UpperLetters
NoDigits == Characters \ Digits
Addable == LowerLetters \cup UpperLetters \cup Digits \cup {"_"}

\* What to_snake_case makes of the characters of a name, one after the other.
Pieces(s) == [i \in DOMAIN s |-> SnakePiece(s, i)]

\* Every character becomes one or two, none in upper case, and none is a digit
\* or a character no name may have if the one it comes from is not.
LEMMA PieceType ==
    ASSUME NEW s \in Seq(Characters), NEW i \in 1 .. Len(s)
    PROVE  /\ s[i] \in Characters
           /\ SnakePiece(s, i) \in Seq(Lowered)
           /\ s[i] \notin Digits => SnakePiece(s, i) \in Seq(NoDigits)
           /\ s[i] \in Addable => SnakePiece(s, i) \in Seq(Addable)
           /\ s[i] \in Digits => SnakePiece(s, i) = <<s[i]>>
           /\ Len(SnakePiece(s, i)) # 0
<1>1. s[i] \in Characters
    BY ElementOfSeq
<1>0. \A S : \A x \in S : <<x>> \in Seq(S) /\ Len(<<x>>) = 1
    OBVIOUS
<1>0a. ASSUME NEW S, NEW x \in S, NEW y \in S
      PROVE  <<x, y>> \in Seq(S)
    OBVIOUS
<1>0b. {"_", "a"} \subseteq Lowered /\ {"_", "a"} \subseteq NoDigits /\ {"_", "a"} \subseteq Addable
    BY DEF Characters, UpperLetters, LowerLetters, Digits, Lowered, NoDigits, Addable
<1>2. CASE s[i] \in UpperLetters
    <2>1. SnakePiece(s, i) = <<"a">> \/ SnakePiece(s, i) = <<"_", "a">>
        BY <1>2 DEF SnakePiece, ToLower, UpperLetters
    <2>2. s[i] \notin Digits
        BY <1>2 DEF UpperLetters, Digits
    <2>3. CASE SnakePiece(s, i) = <<"a">>
        <3>1. /\ <<"a">> \in Seq(Lowered) /\ <<"a">> \in Seq(NoDigits)
              /\ <<"a">> \in Seq(Addable) /\ Len(<<"a">>) = 1
            BY <1>0, <1>0b
        <3> QED BY <1>1, <2>2, <2>3, <3>1
    <2>4. CASE SnakePiece(s, i) = <<"_", "a">>
        <3>1. /\ <<"_", "a">> \in Seq(Lowered) /\ <<"_", "a">> \in Seq(NoDigits)
              /\ <<"_", "a">> \in Seq(Addable)
            <4>1. <<"_", "a">> \in Seq(Lowered)
                BY <1>0a, <1>0b
            <4>2. <<"_", "a">> \in Seq(NoDigits)
                BY <1>0a, <1>0b
            <4>3. <<"_", "a">> \in Seq(Addable)
                BY <1>0a, <1>0b
            <4> QED BY <4>1, <4>2, <4>3
        <3>2. Len(<<"_", "a">>) = 2
            OBVIOUS
        <3>3. /\ SnakePiece(s, i) \in Seq(Lowered) /\ SnakePiece(s, i) \in Seq(NoDigits)
              /\ SnakePiece(s, i) \in Seq(Addable) /\ Len(SnakePiece(s, i)) = 2
            BY <2>4, <3>1, <3>2, Zenon
        <3> QED BY <1>1, <2>2, <3>3
    <2> QED BY <2>1, <2>3, <2>4
<1>3. CASE s[i] \notin UpperLetters
    <2>1. SnakePiece(s, i) = <<s[i]>>
        BY <1>3 DEF SnakePiece
    <2>2. s[i] \in Lowered /\ (s[i] \notin Digits => s[i] \in NoDigits)
        BY <1>1, <1>3 DEF Lowered, NoDigits
    <2> QED BY <1>1, <1>0, <2>1, <2>2
<1> QED BY <1>2, <1>3

\* So the pieces are sequences over those characters.
LEMMA PiecesType ==
    ASSUME NEW s \in Seq(Characters)
    PROVE  /\ Len(s) \in Nat /\ DOMAIN s = 1 .. Len(s)
           /\ Pieces(s) \in Seq(Seq(Lowered)) /\ Len(Pieces(s)) = Len(s)
           /\ \A i \in 1 .. Len(s) : Pieces(s)[i] = SnakePiece(s, i)
           /\ ~HasDigit(s) => Pieces(s) \in Seq(Seq(NoDigits))
           /\ AddableName(s) => Pieces(s) \in Seq(Seq(Addable))
           /\ ToSnakeCase(s) = FlattenSeq(Pieces(s))
<1>1. Len(s) \in Nat /\ DOMAIN s = 1 .. Len(s)
    BY LenProperties
<1>2. \A i \in 1 .. Len(s) :
        /\ SnakePiece(s, i) \in Seq(Lowered)
        /\ s[i] \notin Digits => SnakePiece(s, i) \in Seq(NoDigits)
        /\ s[i] \in Addable => SnakePiece(s, i) \in Seq(Addable)
    BY PieceType
<1> DEFINE p == [i \in 1 .. Len(s) |-> SnakePiece(s, i)]
<1>3. Pieces(s) = p
    BY <1>1 DEF Pieces
<1>4. p \in Seq(Seq(Lowered)) /\ Len(p) = Len(s)
    BY <1>1, <1>2
<1>5. ASSUME ~HasDigit(s) PROVE p \in Seq(Seq(NoDigits))
    <2>1. \A i \in 1 .. Len(s) : SnakePiece(s, i) \in Seq(NoDigits)
        BY <1>1, <1>2, <1>5 DEF HasDigit
    <2> QED BY <1>1, <2>1
<1>6. ASSUME AddableName(s) PROVE p \in Seq(Seq(Addable))
    <2>1. \A i \in 1 .. Len(s) : SnakePiece(s, i) \in Seq(Addable)
        BY <1>1, <1>2, <1>6 DEF AddableName, Addable
    <2> QED BY <1>1, <2>1
<1>7. ToSnakeCase(s) = FlattenSeq(Pieces(s))
    BY DEF ToSnakeCase, Pieces
<1> QED BY <1>1, <1>3, <1>4, <1>5, <1>6, <1>7

\* to_snake_case leaves no upper case letter, adds no digit and keeps a name
\* that can be added one that can be added.
LEMMA SnakeType ==
    ASSUME NEW s \in Seq(Characters)
    PROVE  /\ ToSnakeCase(s) \in Seq(Lowered) /\ ToSnakeCase(s) \in Seq(Characters)
           /\ ~HasDigit(s) => ToSnakeCase(s) \in Seq(NoDigits)
           /\ AddableName(s) => ToSnakeCase(s) \in Seq(Addable)
<1>1. \A S : Pieces(s) \in Seq(Seq(S)) => ToSnakeCase(s) \in Seq(S)
    <2>1. SUFFICES ASSUME NEW S, Pieces(s) \in Seq(Seq(S)) PROVE ToSnakeCase(s) \in Seq(S)
        OBVIOUS
    <2>2. PICK f : /\ FlattenSeq(Pieces(s)) = f[Len(Pieces(s))]
                   /\ \A k \in 0 .. Len(Pieces(s)) : f[k] \in Seq(S)
        BY <2>1, FlattenFacts
    <2>3. Len(Pieces(s)) \in 0 .. Len(Pieces(s))
        BY <2>1, LenProperties
    <2> QED BY <2>2, <2>3, PiecesType
<1>2. ToSnakeCase(s) \in Seq(Lowered)
    BY <1>1, PiecesType
<1>3. ToSnakeCase(s) \in Seq(Characters)
    <2>1. Lowered \subseteq Characters
        BY DEF Lowered
    <2> QED BY <1>2, <2>1, SeqMonotonic
<1> QED BY <1>1, <1>2, <1>3, PiecesType

\* A digit of a name stays in it.
LEMMA SnakeKeepsDigits ==
    ASSUME NEW s \in Seq(Characters), HasDigit(s)
    PROVE  HasDigit(ToSnakeCase(s))
<1>1. PICK i \in 1 .. Len(s) : s[i] \in Digits
    BY PiecesType DEF HasDigit
<1>2. Pieces(s)[i] = <<s[i]>>
    BY <1>1, PieceType, PiecesType
<1>3. Len(Pieces(s)[i]) = 1 /\ Pieces(s)[i][1] = s[i]
    BY <1>2
<1>4. \E m \in 1 .. Len(FlattenSeq(Pieces(s))) : FlattenSeq(Pieces(s))[m] = Pieces(s)[i][1]
    <2>1. i \in 1 .. Len(Pieces(s)) /\ 1 \in 1 .. Len(Pieces(s)[i])
        BY <1>3, PiecesType
    <2>2. Pieces(s) \in Seq(Seq(Lowered))
        BY PiecesType
    <2> QED BY <2>1, <2>2, FlattenHas
<1>5. DOMAIN ToSnakeCase(s) = 1 .. Len(ToSnakeCase(s))
    BY SnakeType, LenProperties
<1> QED BY <1>1, <1>3, <1>4, <1>5, PiecesType DEF HasDigit

\* Nor does it gain one.
LEMMA SnakeDigits ==
    ASSUME NEW s \in Seq(Characters)
    PROVE  HasDigit(ToSnakeCase(s)) <=> HasDigit(s)
<1>1. ASSUME ~HasDigit(s) PROVE ~HasDigit(ToSnakeCase(s))
    <2>1. ToSnakeCase(s) \in Seq(NoDigits)
        BY <1>1, SnakeType
    <2>2. \A i \in DOMAIN ToSnakeCase(s) : ToSnakeCase(s)[i] \in NoDigits
        BY <2>1, LenProperties, ElementOfSeq
    <2> QED BY <2>2 DEF HasDigit, NoDigits
<1> QED BY <1>1, SnakeKeepsDigits

\* A name that can be added is one that can be added in snake case as well.
LEMMA SnakeAddable ==
    ASSUME NEW s \in Seq(Characters), AddableName(s)
    PROVE  AddableName(ToSnakeCase(s))
<1>1. ToSnakeCase(s) \in Seq(Addable)
    BY SnakeType
<1>2. \A i \in DOMAIN ToSnakeCase(s) : ToSnakeCase(s)[i] \in Addable
    BY <1>1, LenProperties, ElementOfSeq
<1>3. 1 \in 1 .. Len(s)
    <2>1. Len(s) \in Nat \ {0}
        BY EmptySeq DEF AddableName
    <2> QED BY <2>1
<1>4. 1 \in 1 .. Len(Pieces(s)) /\ 1 \in 1 .. Len(Pieces(s)[1])
    <2>1. Pieces(s)[1] = SnakePiece(s, 1) /\ Len(Pieces(s)[1]) # 0 /\ Pieces(s)[1] \in Seq(Lowered)
        BY <1>3, PieceType, PiecesType
    <2>2. Len(Pieces(s)[1]) \in Nat
        BY <2>1, LenProperties
    <2> QED BY <1>3, <2>1, <2>2, PiecesType
<1>5. \E m \in 1 .. Len(FlattenSeq(Pieces(s))) : FlattenSeq(Pieces(s))[m] = Pieces(s)[1][1]
    <2>1. Pieces(s) \in Seq(Seq(Lowered))
        BY PiecesType
    <2> QED BY <1>4, <2>1, FlattenHas
<1>6. ToSnakeCase(s) # <<>>
    BY <1>5, PiecesType, EmptySeq
<1> QED BY <1>2, <1>6 DEF AddableName, Addable

\* What a character becomes that follows u.
After(u, c) ==
    IF c \in UpperLetters
    THEN IF u # <<>> /\ u[Len(u)] \in LowerLetters
         THEN <<"_", ToLower(c)>>
         ELSE <<ToLower(c)>>
    ELSE <<c>>

\* to_snake_case goes over a name once: what it makes of a character depends on
\* those before it, not on those that follow.
LEMMA SnakeAppend ==
    ASSUME NEW u \in Seq(Characters), NEW c \in Characters
    PROVE  /\ ToSnakeCase(Append(u, c)) = ToSnakeCase(u) \o After(u, c)
           /\ ToSnakeCase(u) \in Seq(Lowered) /\ After(u, c) \in Seq(Lowered)
<1> DEFINE t == Append(u, c)
<1>1. /\ t \in Seq(Characters) /\ Len(u) \in Nat /\ Len(t) = Len(u) + 1
      /\ \A i \in 1 .. Len(u) : t[i] = u[i]
      /\ t[Len(u) + 1] = c
    BY AtBack
<1> HIDE DEF t
<1> DEFINE n == Len(u)
<1>2. Len(t) \in 1 .. Len(t) /\ Len(t) > 0 /\ Len(t) - 1 = n
    BY <1>1
<1>3. u # <<>> <=> Len(t) > 1
    BY <1>1, EmptySeq
<1>4. SnakePiece(t, Len(t)) = After(u, c)
    <2>1. t[Len(t)] = c /\ (Len(t) > 1 => t[Len(t) - 1] = u[n])
        BY <1>1, <1>2
    <2> QED BY <1>1, <1>2, <1>3, <2>1 DEF SnakePiece, After
<1>5. After(u, c) \in Seq(Lowered)
    BY <1>1, <1>2, <1>4, PieceType
<1>6. \A i \in 1 .. n : SnakePiece(t, i) = SnakePiece(u, i)
    <2>1. SUFFICES ASSUME NEW i \in 1 .. n PROVE SnakePiece(t, i) = SnakePiece(u, i)
        OBVIOUS
    <2>2. t[i] = u[i] /\ (i > 1 => t[i - 1] = u[i - 1])
        BY <1>1
    <2> QED BY <2>2 DEF SnakePiece
<1>7. /\ Pieces(u) \in Seq(Seq(Lowered)) /\ Len(Pieces(u)) = n
      /\ \A i \in 1 .. n : Pieces(u)[i] = SnakePiece(u, i)
      /\ ToSnakeCase(u) = FlattenSeq(Pieces(u))
    BY PiecesType
<1>8. /\ Pieces(t) \in Seq(Seq(Lowered)) /\ Len(Pieces(t)) = n + 1
      /\ \A i \in 1 .. n + 1 : Pieces(t)[i] = SnakePiece(t, i)
      /\ ToSnakeCase(t) = FlattenSeq(Pieces(t))
    BY <1>1, PiecesType
<1> DEFINE a == Append(Pieces(u), After(u, c))
<1>9. /\ a \in Seq(Seq(Lowered)) /\ Len(a) = n + 1 /\ a[n + 1] = After(u, c)
      /\ \A i \in 1 .. n : a[i] = Pieces(u)[i]
    <2> DEFINE pu == Pieces(u)  x == After(u, c)
    <2> HIDE DEF pu, x
    <2>1. pu \in Seq(Seq(Lowered)) /\ x \in Seq(Lowered) /\ Len(pu) = n
        BY <1>5, <1>7 DEF pu, x
    <2>2. /\ Append(pu, x) \in Seq(Seq(Lowered)) /\ Len(Append(pu, x)) = Len(pu) + 1
          /\ \A i \in 1 .. Len(pu) : Append(pu, x)[i] = pu[i]
          /\ Append(pu, x)[Len(pu) + 1] = x
        BY <2>1, AppendProperties
    <2> QED BY <2>1, <2>2 DEF pu, x
<1>10. Pieces(t) = a
    <2>1. ASSUME NEW i \in 1 .. n + 1 PROVE Pieces(t)[i] = a[i]
        <3>1. CASE i = n + 1
            BY <1>1, <1>4, <1>8, <1>9, <3>1
        <3>2. CASE i # n + 1
            <4>1. i \in 1 .. n
                BY <1>1, <3>2
            <4> QED BY <1>6, <1>7, <1>8, <1>9, <4>1
        <3> QED BY <3>1, <3>2
    <2> HIDE DEF a
    <2> QED BY <1>8, <1>9, <2>1, SeqEqual
<1>11. FlattenSeq(a) = FlattenSeq(Pieces(u)) \o After(u, c)
    BY <1>5, <1>7, FlattenAppend
<1>12. ToSnakeCase(t) = ToSnakeCase(u) \o After(u, c)
    BY <1>7, <1>8, <1>10, <1>11
<1>13. ToSnakeCase(u) \in Seq(Lowered)
    BY SnakeType
<1> QED BY <1>5, <1>12, <1>13 DEF t

\* A sequence without its last member, and with it again.
LEMMA PrefixFacts ==
    ASSUME NEW S, NEW v \in Seq(S), NEW k \in 1 .. Len(v)
    PROVE  /\ SubSeq(v, 1, k - 1) \in Seq(S) /\ v[k] \in S
           /\ SubSeq(v, 1, k) = Append(SubSeq(v, 1, k - 1), v[k])
           /\ SubSeq(v, 1, k - 1) \o <<v[k]>> = SubSeq(v, 1, k)
<1>1. Len(v) \in Nat /\ v[k] \in S /\ 1 \in 1 .. Len(v) /\ k \in 1 .. Len(v) /\ k \in Int
      /\ \A i \in 1 .. k - 1 : v[i] \in S
    <2>1. Len(v) \in Nat
        BY LenProperties
    <2>2. \A i \in 1 .. k - 1 : i \in 1 .. Len(v)
        BY <2>1
    <2> QED BY <2>1, <2>2, ElementOfSeq
<1>2. SubSeq(v, 1, k - 1) \in Seq(S)
    BY <1>1, SubSeqProperties
<1>3. SubSeq(v, 1, k) = SubSeq(v, 1, k - 1) \o <<v[k]>>
    BY <1>1, SubSeqRecursiveSecond
<1>4. Append(SubSeq(v, 1, k - 1), v[k]) = SubSeq(v, 1, k - 1) \o <<v[k]>>
    BY <1>1, <1>2, AppendIsConcat
<1> QED BY <1>1, <1>2, <1>3, <1>4

\* Appending to a concatenation appends to its end.
LEMMA ConcatAppend ==
    ASSUME NEW S, NEW u \in Seq(S), NEW v \in Seq(S), NEW x \in S
    PROVE  u \o Append(v, x) = Append(u \o v, x)
<1>1. <<x>> \in Seq(S) /\ u \o v \in Seq(S)
    BY ConcatProperties
<1>2. Append(v, x) = v \o <<x>> /\ Append(u \o v, x) = (u \o v) \o <<x>>
    BY <1>1, AppendIsConcat
<1>3. (u \o v) \o <<x>> = u \o (v \o <<x>>)
    BY <1>1, ConcatAssociative
<1> QED BY <1>2, <1>3

\* What has no upper case letter is left as it is, whatever it follows.
LEMMA SnakeLower ==
    ASSUME NEW u \in Seq(Characters), NEW v \in Seq(Lowered)
    PROVE  ToSnakeCase(u \o v) = ToSnakeCase(u) \o v
<1> DEFINE P(k) == SubSeq(v, 1, k)
           Same(k) == ToSnakeCase(u \o P(k)) = ToSnakeCase(u) \o P(k)
           T == {k \in 0 .. Len(v) : ~Same(k)}
<1>0. Len(v) \in Nat /\ Lowered \subseteq Characters
    BY LenProperties DEF Lowered
<1>1. T = {}
    <2>1. SUFFICES ASSUME T # {} PROVE FALSE
        OBVIOUS
    <2>2. PICK k \in T : \A m \in T : k <= m
        <3> HIDE DEF Same
        <3>1. T \subseteq Nat
            BY <1>0
        <3> HIDE DEF T
        <3> QED BY <2>1, <3>1, SmallestExists
    <2>3. Same(0)
        <3>1. P(0) = <<>>
            BY SubSeqEmpty
        <3>2. ToSnakeCase(u) \in Seq(Lowered)
            BY SnakeType
        <3> QED BY <3>1, <3>2, ConcatEmptySeq
    <2> HIDE DEF Same
    <2>4. k \in 1 .. Len(v) /\ k - 1 \in 0 .. Len(v) /\ ~(k <= k - 1)
        BY <1>0, <2>2, <2>3
    <2>5. Same(k - 1)
        BY <2>2, <2>4
    <2>6. /\ P(k - 1) \in Seq(Lowered) /\ v[k] \in Lowered
          /\ P(k) = Append(P(k - 1), v[k]) /\ P(k) = P(k - 1) \o <<v[k]>>
        BY <2>4, PrefixFacts
    <2> HIDE DEF P
    <2>7. P(k - 1) \in Seq(Characters) /\ v[k] \in Characters
        BY <1>0, <2>6, SeqMonotonic
    <2>8. u \o P(k) = Append(u \o P(k - 1), v[k])
        BY <2>6, <2>7, ConcatAppend
    <2>9. u \o P(k - 1) \in Seq(Characters)
        BY <2>7, ConcatProperties
    <2>10. After(u \o P(k - 1), v[k]) = <<v[k]>>
        BY <2>6 DEF After, Lowered
    <2>11. ToSnakeCase(u \o P(k)) = ToSnakeCase(u \o P(k - 1)) \o <<v[k]>>
        BY <2>7, <2>8, <2>9, <2>10, SnakeAppend
    <2>12. ToSnakeCase(u \o P(k - 1)) = ToSnakeCase(u) \o P(k - 1)
        BY <2>5 DEF Same
    <2>13. (ToSnakeCase(u) \o P(k - 1)) \o <<v[k]>> = ToSnakeCase(u) \o (P(k - 1) \o <<v[k]>>)
        <3>1. ToSnakeCase(u) \in Seq(Lowered) /\ <<v[k]>> \in Seq(Lowered)
            BY <2>6, SnakeType
        <3> DEFINE x == ToSnakeCase(u)  y == P(k - 1)  z == <<v[k]>>
        <3>2. x \in Seq(Lowered) /\ y \in Seq(Lowered) /\ z \in Seq(Lowered)
            BY <2>6, <3>1
        <3> HIDE DEF x, y, z
        <3>3. (x \o y) \o z = x \o (y \o z)
            BY <3>2, ConcatAssociative, SMTT(40)
        <3> QED BY <3>3 DEF x, y, z
    <2>14. Same(k)
        BY <2>6, <2>11, <2>12, <2>13 DEF Same
    <2> QED BY <2>2, <2>14
<1>2. Len(v) \in 0 .. Len(v)
    BY <1>0
<1>3. Same(Len(v))
    <2> HIDE DEF Same
    <2> QED BY <1>1, <1>2
<1>4. P(Len(v)) = v
    BY SubSeqFull
<1> QED BY <1>3, <1>4

\* Nothing comes of nothing.
LEMMA SnakeEmpty == ToSnakeCase(<<>>) = <<>>
<1>1. <<>> \in Seq(Characters)
    BY EmptySeq
<1>2. Len(Pieces(<<>>)) = 0 /\ ToSnakeCase(<<>>) = FlattenSeq(Pieces(<<>>))
      /\ Pieces(<<>>) \in Seq(Seq(Lowered))
    BY <1>1, PiecesType, EmptySeq
<1>3. Pieces(<<>>) = <<>>
    BY <1>2, EmptySeq
<1> QED BY <1>2, <1>3 DEF FlattenSeq

\* A name in snake case is left as it is.
LEMMA SnakeFixed ==
    ASSUME NEW v \in Seq(Lowered)
    PROVE  ToSnakeCase(v) = v
<1>1. <<>> \in Seq(Characters) /\ <<>> \o v = v
    BY ConcatEmptySeq, EmptySeq
<1>2. ToSnakeCase(<<>> \o v) = ToSnakeCase(<<>>) \o v
    BY <1>1, SnakeLower
<1> QED BY <1>1, <1>2, SnakeEmpty

\* So a second application changes nothing.
LEMMA SnakeIdempotent ==
    ASSUME NEW s \in Seq(Characters)
    PROVE  ToSnakeCase(ToSnakeCase(s)) = ToSnakeCase(s)
BY SnakeType, SnakeFixed

----------------------------------------------------------------------------
(* Spellings. *)

\* A word is written in lower case letters and digits, a letter first, and its
\* first letter alone is capitalised.
LEMMA WordFacts ==
    ASSUME NEW w \in Words
    PROVE  /\ w \in Seq(Lowered) /\ w # <<>> /\ Len(w) \in Nat \ {0} /\ Tail(w) \in Seq(Lowered)
           /\ <<"a">> \o Tail(w) = w
           /\ Capitalised(w) \in Seq(Characters) /\ Len(Capitalised(w)) = Len(w)
           /\ Capitalised(w)[Len(w)] \in LowerLetters <=> EndsLower(w, TRUE)
           /\ w[Len(w)] \in LowerLetters <=> EndsLower(w, FALSE)
<1>1. w \in Seq(Lowered) /\ w # <<>> /\ w[1] = "a"
    <2>1. PICK m \in 0 .. MaxWordLength : w \in [1 .. m -> LowerLetters \cup Digits]
        BY DEF Words, SeqOf
    <2>2. m \in Nat
        BY WordAssumption
    <2>3. LowerLetters \cup Digits \subseteq Lowered
        BY DEF Lowered, Characters, LowerLetters, UpperLetters, Digits
    <2>4. w \in [1 .. m -> Lowered]
        BY <2>1, <2>3
    <2> QED BY <2>2, <2>4 DEF Words, LowerLetters
<1>2. Len(w) \in Nat \ {0}
    BY <1>1, EmptySeq
<1>3. /\ Tail(w) \in Seq(Lowered) /\ Len(Tail(w)) = Len(w) - 1
      /\ \A i \in 1 .. Len(Tail(w)) : Tail(w)[i] = w[i + 1]
    BY <1>1, HeadTailProperties
<1> DEFINE t == Tail(w)  n == Len(w)
<1> HIDE DEF t
<1>4. "a" \in Lowered /\ "a" \in Characters /\ "A" \in Characters /\ Lowered \subseteq Characters
    BY DEF Lowered, Characters, LowerLetters, UpperLetters, Digits
<1>5. t \in Seq(Characters) /\ t \in Seq(Lowered) /\ Len(t) = n - 1
      /\ \A i \in 1 .. n - 1 : t[i] = w[i + 1]
    <2>1. t \in Seq(Lowered) /\ Len(t) = n - 1 /\ \A i \in 1 .. n - 1 : t[i] = w[i + 1]
        BY <1>3 DEF t
    <2> QED BY <1>4, <2>1, SeqMonotonic
<1> HIDE DEF n
<1>6. ASSUME NEW c \in Characters
      PROVE  /\ <<c>> \o t \in Seq(Characters) /\ Len(<<c>> \o t) = n
             /\ \A i \in 1 .. n : (<<c>> \o t)[i] = IF i = 1 THEN c ELSE w[i]
    <2> DEFINE s == <<c>>
    <2>1. s \in Seq(Characters) /\ Len(s) = 1 /\ s[1] = c
        OBVIOUS
    <2> HIDE DEF s
    <2>2. /\ s \o t \in Seq(Characters) /\ Len(s \o t) = Len(s) + Len(t)
          /\ \A i \in 1 .. Len(s) + Len(t) :
                (s \o t)[i] = IF i <= Len(s) THEN s[i] ELSE t[i - Len(s)]
        <3>1. s \in Seq(Characters) /\ t \in Seq(Characters)
            BY <1>5, <2>1
        <3> QED BY <3>1, ConcatProperties, Zenon
    <2>3. Len(s) + Len(t) = n
        BY <1>2, <1>5, <2>1 DEF n
    <2>4. ASSUME NEW i \in 1 .. n PROVE (s \o t)[i] = IF i = 1 THEN c ELSE w[i]
        <3>1. CASE i = 1
            BY <1>2, <2>1, <2>2, <2>3, <3>1 DEF n
        <3>2. CASE i # 1
            <4>1. ~(i <= 1) /\ i - 1 \in 1 .. n - 1 /\ (i - 1) + 1 = i
                BY <1>2, <3>2 DEF n
            <4> QED BY <1>5, <2>1, <2>2, <2>3, <4>1
        <3> QED BY <3>1, <3>2
    <2> QED BY <2>2, <2>3, <2>4 DEF s
<1>7. <<"a">> \o t = w
    <2> DEFINE s == <<"a">> \o t
    <2>1. s \in Seq(Characters) /\ Len(s) = n /\ \A i \in 1 .. n : s[i] = w[i]
        BY <1>1, <1>4, <1>6
    <2>2. w \in Seq(Characters)
        BY <1>1, <1>4, SeqMonotonic
    <2> HIDE DEF s
    <2>3. s = w
        BY <2>1, <2>2, SeqEqual DEF n
    <2> QED BY <2>3 DEF s
<1>8. Capitalised(w) = <<"A">> \o t
    BY DEF Capitalised, t
<1>9. /\ Capitalised(w) \in Seq(Characters) /\ Len(Capitalised(w)) = n
      /\ Capitalised(w)[n] = IF n = 1 THEN "A" ELSE w[n]
    BY <1>2, <1>4, <1>6, <1>8 DEF n
<1>10. Capitalised(w)[n] \in LowerLetters <=> EndsLower(w, TRUE)
    BY <1>2, <1>9 DEF EndsLower, LowerLetters, n
<1>11. w[n] \in LowerLetters <=> EndsLower(w, FALSE)
    BY DEF EndsLower, n
<1> QED BY <1>1, <1>2, <1>3, <1>7, <1>9, <1>10, <1>11 DEF n, t

\* A list of words has at least one.
LEMMA WordListFacts ==
    ASSUME NEW ws \in WordLists
    PROVE  /\ ws \in Seq(Words) /\ Len(ws) \in Nat \ {0} /\ DOMAIN ws = 1 .. Len(ws)
           /\ \A i \in 1 .. Len(ws) : ws[i] \in Words
<1>1. PICK m \in 0 .. MaxWords : ws \in [1 .. m -> Words]
    BY DEF WordLists, SeqOf
<1>2. m \in Nat
    BY WordAssumption
<1>3. ws \in Seq(Words) /\ ws # <<>>
    BY <1>1, <1>2 DEF WordLists
<1> QED BY <1>3, EmptySeq, LenProperties, ElementOfSeq

\* Two sequences of one member make one of two.
LEMMA Pairs ==
    ASSUME NEW S, NEW x \in S, NEW y \in S
    PROVE  /\ <<x>> \in Seq(S) /\ Len(<<x>>) = 1 /\ <<x>>[1] = x
           /\ <<x>> \o <<y>> = <<x, y>>
<1> DEFINE s == <<x>>  t == <<y>>  u == <<x, y>>
<1>1. /\ s \in Seq(S) /\ Len(s) = 1 /\ s[1] = x
      /\ t \in Seq(S) /\ Len(t) = 1 /\ t[1] = y
      /\ u \in Seq(S) /\ Len(u) = 2 /\ u[1] = x /\ u[2] = y
    OBVIOUS
<1> HIDE DEF s, t, u
<1>2. s \o t \in Seq(S) /\ Len(s \o t) = 2 /\ (s \o t)[1] = x /\ (s \o t)[2] = y
    <2>1. /\ s \o t \in Seq(S) /\ Len(s \o t) = Len(s) + Len(t)
          /\ \A i \in 1 .. Len(s) + Len(t) :
                (s \o t)[i] = IF i <= Len(s) THEN s[i] ELSE t[i - Len(s)]
        BY <1>1, ConcatProperties
    <2> QED BY <1>1, <2>1
<1>3. u = s \o t
    BY <1>1, <1>2, SeqEqual
<1> QED BY <1>1, <1>3 DEF s, t, u

\* The underscore that to_snake_case puts before a capital that follows u.
Glue(u) == IF u # <<>> /\ u[Len(u)] \in LowerLetters THEN <<"_">> ELSE <<>>

\* A capitalised word becomes the word, after an underscore if it has one.
LEMMA SnakeCapitalised ==
    ASSUME NEW u \in Seq(Characters), NEW w \in Words
    PROVE  /\ ToSnakeCase(u \o Capitalised(w)) = ToSnakeCase(u) \o (Glue(u) \o w)
           /\ Glue(u) \in Seq(Lowered)
<1> DEFINE t == Tail(w)  U == ToSnakeCase(u)  G == Glue(u)
<1>1. /\ w \in Seq(Lowered) /\ t \in Seq(Lowered) /\ <<"a">> \o t = w
      /\ Capitalised(w) = <<"A">> \o t
    BY WordFacts DEF Capitalised
<1>2. "a" \in Lowered /\ "_" \in Lowered /\ "A" \in Characters /\ Lowered \subseteq Characters
    BY DEF Lowered, Characters, LowerLetters, UpperLetters, Digits
<1>3. U \in Seq(Lowered)
    BY SnakeType
<1>4. G \in Seq(Lowered)
    <2>1. <<>> \in Seq(Lowered) /\ <<"_">> \in Seq(Lowered)
        BY <1>2, EmptySeq, Pairs
    <2>2. G = <<>> \/ G = <<"_">>
        BY Zenon DEF Glue
    <2> HIDE DEF G
    <2> QED BY <2>1, <2>2, Zenon
<1>5. After(u, "A") = G \o <<"a">>
    <2>1. After(u, "A") = IF u # <<>> /\ u[Len(u)] \in LowerLetters THEN <<"_", "a">> ELSE <<"a">>
        BY DEF After, ToLower, UpperLetters
    <2>2. <<"a">> \in Seq(Lowered)
        BY <1>2, Pairs
    <2>3. <<>> \o <<"a">> = <<"a">>
        BY <2>2, ConcatEmptySeq
    <2>4. <<"_">> \o <<"a">> = <<"_", "a">>
        BY <1>2, Pairs
    <2> QED BY <2>1, <2>3, <2>4, Zenon DEF Glue
<1> DEFINE a == <<"a">>  A == <<"A">>
<1>6. a \in Seq(Lowered) /\ A \in Seq(Characters) /\ t \in Seq(Characters)
    <2>1. t \in Seq(Characters)
        BY <1>1, <1>2, SeqMonotonic
    <2>2. <<"a">> \in Seq(Lowered) /\ <<"A">> \in Seq(Characters)
        BY <1>2, Pairs
    <2> HIDE DEF t
    <2> QED BY <2>1, <2>2, Zenon
<1>7. u \o A = Append(u, "A")
    BY <1>2, AppendIsConcat
<1>8. ToSnakeCase(u \o A) = U \o (G \o a)
    <2>1. ToSnakeCase(Append(u, "A")) = U \o After(u, "A")
        BY <1>2, SnakeAppend
    <2> HIDE DEF G, U
    <2> QED BY <1>5, <1>7, <2>1, Zenon
<1> HIDE DEF t, U, G, a, A
<1>9. u \o (A \o t) = (u \o A) \o t /\ u \o A \in Seq(Characters)
    <2>1. u \o (A \o t) = (u \o A) \o t
        BY <1>6, ConcatAssociative, SMTT(40)
    <2>2. u \o A \in Seq(Characters)
        BY <1>6, ConcatProperties, Zenon
    <2> QED BY <2>1, <2>2
<1>10. ToSnakeCase((u \o A) \o t) = (U \o (G \o a)) \o t
    BY <1>1, <1>8, <1>9, SnakeLower
<1>11. (U \o (G \o a)) \o t = U \o (G \o (a \o t))
    <2>1. /\ U \in Seq(Lowered) /\ G \in Seq(Lowered)
          /\ a \in Seq(Lowered) /\ t \in Seq(Lowered)
        BY <1>1, <1>3, <1>4, <1>6
    <2>2. G \o a \in Seq(Lowered)
        BY <2>1, ConcatProperties
    <2>3. (U \o (G \o a)) \o t = U \o ((G \o a) \o t)
        <3> DEFINE y == G \o a
        <3> HIDE DEF y
        <3>1. (U \o y) \o t = U \o (y \o t)
            <4>1. y \in Seq(Lowered)
                BY <2>2 DEF y
            <4> QED BY <2>1, <4>1, ConcatAssociative, SMTT(40)
        <3> QED BY <3>1 DEF y
    <2>4. (G \o a) \o t = G \o (a \o t)
        BY <2>1, ConcatAssociative, SMTT(40)
    <2> QED BY <2>3, <2>4
<1>12. a \o t = w /\ Capitalised(w) = A \o t
    BY <1>1 DEF a, A
<1>13. ToSnakeCase(u \o Capitalised(w)) = U \o (G \o w)
    BY <1>9, <1>10, <1>11, <1>12
<1> QED BY <1>4, <1>13 DEF U, G

\* A concatenation ends as its second part does.
LEMMA ConcatEnd ==
    ASSUME NEW S, NEW u \in Seq(S), NEW v \in Seq(S), v # <<>>
    PROVE  /\ u \o v \in Seq(S) /\ u \o v # <<>> /\ Len(u) \in Nat /\ Len(v) \in Nat
           /\ Len(u \o v) = Len(u) + Len(v)
           /\ (u \o v)[Len(u \o v)] = v[Len(v)]
<1>1. Len(u) \in Nat /\ Len(v) \in Nat \ {0}
    BY EmptySeq, LenProperties
<1>2. /\ u \o v \in Seq(S) /\ Len(u \o v) = Len(u) + Len(v)
      /\ \A i \in 1 .. Len(u) + Len(v) :
            (u \o v)[i] = IF i <= Len(u) THEN u[i] ELSE v[i - Len(u)]
    BY ConcatProperties
<1> DEFINE w == u \o v  m == Len(u)  n == Len(v)
<1> HIDE DEF w, m, n
<1>3. m \in Nat /\ n \in Nat \ {0} /\ m + n \in 1 .. m + n /\ ~(m + n <= m) /\ (m + n) - m = n
    BY <1>1 DEF m, n
<1>4. w[m + n] = v[n]
    BY <1>2, <1>3 DEF w, m, n
<1>5. w # <<>>
    BY <1>2, <1>3, EmptySeq DEF w, m, n
<1> QED BY <1>1, <1>2, <1>4, <1>5 DEF w, m, n

\* The words of camelCase, and of PascalCase if the first one is capitalised.
CapitalPieces(ws, first) ==
    [i \in DOMAIN ws |-> IF i = 1 /\ ~first THEN ws[i] ELSE Capitalised(ws[i])]

\* The words of snake_case.
ScorePieces(ws) == [i \in DOMAIN ws |-> IF i = 1 THEN ws[i] ELSE <<"_">> \o ws[i]]

\* Does every word before the k-th show where it ends?
Shown(ws, first, k) == \A i \in 1 .. k - 1 : EndsLower(ws[i], first \/ i > 1)

\* The spelling in snake case has nothing that to_snake_case would change.
LEMMA SnakeSpellingFacts ==
    ASSUME NEW ws \in WordLists
    PROVE  /\ ScorePieces(ws) \in Seq(Seq(Lowered)) /\ Len(ScorePieces(ws)) = Len(ws)
           /\ \A i \in 1 .. Len(ws) : ScorePieces(ws)[i] =
                    IF i = 1 THEN ws[i] ELSE <<"_">> \o ws[i]
           /\ SnakeSpelling(ws) = FlattenSeq(ScorePieces(ws))
           /\ SnakeSpelling(ws) \in Seq(Lowered)
<1> DEFINE n == Len(ws)
           p == [i \in 1 .. n |-> IF i = 1 THEN ws[i] ELSE <<"_">> \o ws[i]]
<1>1. n \in Nat /\ DOMAIN ws = 1 .. n /\ \A i \in 1 .. n : ws[i] \in Seq(Lowered)
    BY WordListFacts, WordFacts
<1>2. ScorePieces(ws) = p
    BY <1>1 DEF ScorePieces
<1>3. <<"_">> \in Seq(Lowered)
    <2>1. "_" \in Lowered
        BY DEF Lowered, Characters, LowerLetters, UpperLetters, Digits
    <2> QED BY <2>1, Pairs
<1>4. \A i \in 1 .. n : p[i] \in Seq(Lowered)
    <2>1. SUFFICES ASSUME NEW i \in 1 .. n PROVE p[i] \in Seq(Lowered)
        OBVIOUS
    <2>2. <<"_">> \o ws[i] \in Seq(Lowered)
        BY <1>1, <1>3, ConcatProperties
    <2> QED BY <1>1, <2>2
<1>5. p \in Seq(Seq(Lowered)) /\ Len(p) = n
    <2>1. p \in [1 .. n -> Seq(Lowered)]
        BY <1>4
    <2> HIDE DEF p
    <2> QED BY <1>1, <2>1
<1>6. SnakeSpelling(ws) = FlattenSeq(p)
    BY <1>1 DEF SnakeSpelling
<1>7. FlattenSeq(p) \in Seq(Lowered)
    <2> HIDE DEF p
    <2>1. PICK f : FlattenSeq(p) = f[Len(p)] /\ \A k \in 0 .. Len(p) : f[k] \in Seq(Lowered)
        BY <1>5, FlattenFacts
    <2>2. Len(p) \in 0 .. Len(p)
        BY <1>1, <1>5
    <2> QED BY <2>1, <2>2
<1> QED BY <1>2, <1>5, <1>6, <1>7

\* So have the words that are capitalised, each a sequence of characters.
LEMMA CapitalPiecesFacts ==
    ASSUME NEW ws \in WordLists, NEW first \in BOOLEAN
    PROVE  /\ CapitalPieces(ws, first) \in Seq(Seq(Characters))
           /\ Len(CapitalPieces(ws, first)) = Len(ws)
           /\ \A i \in 1 .. Len(ws) : CapitalPieces(ws, first)[i] =
                    IF i = 1 /\ ~first THEN ws[i] ELSE Capitalised(ws[i])
<1> DEFINE n == Len(ws)
           p == [i \in 1 .. n |-> IF i = 1 /\ ~first THEN ws[i] ELSE Capitalised(ws[i])]
<1>1. n \in Nat /\ DOMAIN ws = 1 .. n
      /\ \A i \in 1 .. n : ws[i] \in Seq(Characters) /\ Capitalised(ws[i]) \in Seq(Characters)
    <2>1. Lowered \subseteq Characters
        BY DEF Lowered
    <2>2. \A i \in 1 .. n : ws[i] \in Seq(Lowered) /\ Capitalised(ws[i]) \in Seq(Characters)
        BY WordListFacts, WordFacts
    <2> QED BY <2>1, <2>2, WordListFacts, SeqMonotonic
<1>2. CapitalPieces(ws, first) = p
    BY <1>1 DEF CapitalPieces
<1>3. p \in [1 .. n -> Seq(Characters)]
    BY <1>1
<1>4. p \in Seq(Seq(Characters)) /\ Len(p) = n
    <2> HIDE DEF p
    <2> QED BY <1>1, <1>3
<1> QED BY <1>2, <1>4

\* A word adds as much to the name in snake case as to the spelling in snake
\* case, or an underscore less if the word before it does not show its end.
LEMMA WordAdds ==
    ASSUME NEW u \in Seq(Characters), u # <<>>, NEW w \in Words, NEW g \in Seq(Lowered)
    PROVE  LET U == ToSnakeCase(u)
               V == ToSnakeCase(u \o Capitalised(w))
               h == g \o (<<"_">> \o w)
               marked == u[Len(u)] \in LowerLetters
           IN  /\ V \in Seq(Lowered) /\ h \in Seq(Lowered)
               /\ Len(U) \in Nat /\ Len(V) \in Nat /\ Len(g) \in Nat /\ Len(w) \in Nat
               /\ Len(h) = Len(g) + 1 + Len(w)
               /\ marked => (Len(V) = Len(U) + 1 + Len(w) /\ (U = g => V = h))
               /\ ~marked => Len(V) = Len(U) + Len(w)
<1> DEFINE U == ToSnakeCase(u)
           V == ToSnakeCase(u \o Capitalised(w))
           h == g \o (<<"_">> \o w)
           marked == u[Len(u)] \in LowerLetters
           bar == <<"_">>
<1>1. w \in Seq(Lowered) /\ w # <<>>
    BY WordFacts
<1>2. V = U \o (Glue(u) \o w)
    BY SnakeCapitalised
<1>3. bar \in Seq(Lowered) /\ Len(bar) = 1
    <2>1. "_" \in Lowered
        BY DEF Lowered, Characters, LowerLetters, UpperLetters, Digits
    <2> QED BY <2>1, Pairs
<1>4. U \in Seq(Lowered)
    BY SnakeType
<1>5. marked => Glue(u) = bar
    BY DEF Glue
<1>6. ~marked => Glue(u) = <<>>
    BY DEF Glue
<1>7. h = g \o (bar \o w)
    OBVIOUS
<1> HIDE DEF U, V, h, marked, bar
<1>8. /\ bar \o w \in Seq(Lowered) /\ bar \o w # <<>> /\ Len(w) \in Nat
      /\ Len(bar \o w) = Len(bar) + Len(w)
    BY <1>1, <1>3, ConcatEnd
<1>9. h \in Seq(Lowered) /\ Len(g) \in Nat /\ Len(h) = Len(g) + Len(bar \o w)
    BY <1>7, <1>8, ConcatEnd
<1>10. Len(h) = Len(g) + 1 + Len(w)
    BY <1>3, <1>8, <1>9
<1>11. Len(U) \in Nat
    BY <1>4, LenProperties
<1>12. CASE marked
    <2>1. V = U \o (bar \o w)
        BY <1>2, <1>5, <1>12
    <2>2. V \in Seq(Lowered) /\ Len(V) = Len(U) + Len(bar \o w)
        BY <1>4, <1>8, <2>1, ConcatEnd
    <2>3. Len(V) = Len(U) + 1 + Len(w) /\ Len(V) \in Nat
        BY <1>3, <1>8, <1>11, <2>2
    <2>4. U = g => V = h
        BY <1>7, <2>1
    <2> QED BY <1>8, <1>9, <1>10, <1>11, <1>12, <2>2, <2>3, <2>4 DEF U, V, h, marked, bar
<1>13. CASE ~marked
    <2>1. <<>> \o w = w
        BY <1>1, ConcatEmptySeq
    <2>2. V = U \o w
        BY <1>2, <1>6, <1>13, <2>1
    <2>3. V \in Seq(Lowered) /\ Len(V) = Len(U) + Len(w)
        BY <1>1, <1>4, <2>2, ConcatEnd
    <2>4. Len(V) \in Nat
        BY <2>3, LenProperties
    <2> QED BY <1>8, <1>9, <1>10, <1>11, <1>13, <2>3, <2>4 DEF U, V, h, marked, bar
<1> QED BY <1>12, <1>13

\* Words that are told apart by capitals alone become the spelling in snake case
\* exactly if all but the last show where they end.  What does not is shorter by
\* an underscore each time, which nothing that follows makes up for.
LEMMA CapitalsMeet ==
    ASSUME NEW ws \in WordLists, NEW first \in BOOLEAN
    PROVE  /\ FlattenSeq(CapitalPieces(ws, first)) \in Seq(Characters)
           /\ ToSnakeCase(FlattenSeq(CapitalPieces(ws, first))) = SnakeSpelling(ws)
                <=> Shown(ws, first, Len(ws))
<1> DEFINE n == Len(ws)
           p == CapitalPieces(ws, first)
           q == ScorePieces(ws)
<1>1. n \in Nat \ {0} /\ \A i \in 1 .. n : ws[i] \in Words
    BY WordListFacts
<1>2. /\ p \in Seq(Seq(Characters)) /\ Len(p) = n
      /\ \A i \in 1 .. n : p[i] = IF i = 1 /\ ~first THEN ws[i] ELSE Capitalised(ws[i])
    BY CapitalPiecesFacts
<1>3. /\ q \in Seq(Seq(Lowered)) /\ Len(q) = n /\ SnakeSpelling(ws) = FlattenSeq(q)
      /\ \A i \in 1 .. n : q[i] = IF i = 1 THEN ws[i] ELSE <<"_">> \o ws[i]
    BY SnakeSpellingFacts
<1> HIDE DEF p, q
<1>4. PICK f : /\ Joins(f, p, n) /\ FlattenSeq(p) = f[n]
               /\ \A k \in 0 .. n : f[k] \in Seq(Characters)
    BY <1>2, FlattenFacts
<1>5. PICK g : /\ Joins(g, q, n) /\ FlattenSeq(q) = g[n]
               /\ \A k \in 0 .. n : g[k] \in Seq(Lowered)
    BY <1>3, FlattenFacts
<1>6. \A k \in 1 .. n :
        /\ f[k] = f[k - 1] \o p[k] /\ g[k] = g[k - 1] \o q[k]
        /\ f[k] \in Seq(Characters) /\ g[k] \in Seq(Lowered) /\ p[k] \in Seq(Characters)
    <2>1. \A k \in 1 .. n : p[k] \in Seq(Characters)
        BY <1>2, ElementOfSeq
    <2>2. \A k \in 1 .. n : k \in 0 .. n
        OBVIOUS
    <2> QED BY <1>4, <1>5, <2>1, <2>2 DEF Joins
<1> DEFINE Ends(k) ==
             /\ f[k] # <<>>
             /\ f[k][Len(f[k])] \in LowerLetters <=> EndsLower(ws[k], first \/ k > 1)
           Compared(k) ==
             /\ Shown(ws, first, k) => ToSnakeCase(f[k]) = g[k]
             /\ Len(ToSnakeCase(f[k])) <= Len(g[k])
             /\ ~Shown(ws, first, k) => Len(ToSnakeCase(f[k])) < Len(g[k])
<1>7. \A k \in 1 .. n : Ends(k)
    <2>1. SUFFICES ASSUME NEW k \in 1 .. n PROVE Ends(k)
        OBVIOUS
    <2>2. /\ Len(p[k]) = Len(ws[k]) /\ Len(ws[k]) \in Nat \ {0}
          /\ p[k][Len(p[k])] \in LowerLetters <=> EndsLower(ws[k], first \/ k > 1)
        <3>1. CASE k = 1 /\ ~first
            <4>1. p[k] = ws[k]
                BY <1>2, <3>1
            <4>2. (first \/ k > 1) = FALSE
                BY <3>1
            <4> QED BY <1>1, <4>1, <4>2, WordFacts
        <3>2. CASE ~(k = 1 /\ ~first)
            <4>1. p[k] = Capitalised(ws[k])
                BY <1>2, <3>2
            <4>2. (first \/ k > 1) = TRUE
                BY <3>2
            <4> QED BY <1>1, <4>1, <4>2, WordFacts
        <3> QED BY <3>1, <3>2
    <2>3. p[k] # <<>> /\ p[k] \in Seq(Characters)
        BY <1>6, <2>2, EmptySeq
    <2>4. k - 1 \in 0 .. n
        BY <1>1
    <2>5. f[k - 1] \in Seq(Characters)
        BY <1>4, <2>4
    <2>6. f[k] # <<>> /\ f[k][Len(f[k])] = p[k][Len(p[k])]
        <3> DEFINE x == f[k - 1]  y == p[k]
        <3>1. x \in Seq(Characters) /\ y \in Seq(Characters) /\ y # <<>> /\ f[k] = x \o y
            BY <1>6, <2>3, <2>5
        <3> HIDE DEF x, y
        <3>2. f[k] # <<>> /\ f[k][Len(f[k])] = y[Len(y)]
            BY <3>1, ConcatEnd
        <3> QED BY <3>2 DEF y
    <2> QED BY <2>2, <2>6
<1> HIDE DEF Ends
<1>8. Compared(1)
    <2>1. 1 \in 1 .. n
        BY <1>1
    <2>2. f[0] = <<>> /\ g[0] = <<>>
        BY <1>4, <1>5 DEF Joins
    <2>2a. f[1] = f[0] \o p[1] /\ g[1] = g[0] \o q[1]
        <3>1. ASSUME NEW k \in 1 .. n, k = 1
              PROVE  f[k] = f[0] \o p[k] /\ g[k] = g[0] \o q[k]
            <4>1. k - 1 = 0
                BY <3>1
            <4>2. f[k] = f[k - 1] \o p[k] /\ g[k] = g[k - 1] \o q[k]
                BY <1>6
            <4> QED BY <4>1, <4>2, Zenon
        <3> QED BY <2>1, <3>1, Zenon
    <2>3. ws[1] \in Words /\ ws[1] \in Seq(Lowered) /\ Len(ws[1]) \in Nat /\ Lowered \subseteq Characters
        BY <1>1, <2>1, WordFacts DEF Lowered
    <2>4. g[1] = ws[1]
        <3>1. q[1] = ws[1]
            BY <1>3, <2>1
        <3>2. <<>> \o ws[1] = ws[1]
            BY <2>3, ConcatEmptySeq
        <3> QED BY <2>2, <2>2a, <3>1, <3>2, Zenon
    <2>5. ToSnakeCase(f[1]) = ws[1]
        <3>1. f[1] = <<>> \o p[1] /\ p[1] \in Seq(Characters)
            <4>1. p[1] \in Seq(Characters)
                BY <1>6, <2>1
            <4> QED BY <2>2, <2>2a, <4>1, Zenon
        <3>2. CASE first
            <4>1. p[1] = Capitalised(ws[1])
                BY <1>2, <2>1, <3>2
            <4>2. <<>> \in Seq(Characters)
                BY EmptySeq
            <4>3. ToSnakeCase(<<>> \o Capitalised(ws[1])) = ToSnakeCase(<<>>) \o (Glue(<<>>) \o ws[1])
                BY <2>3, <4>2, SnakeCapitalised
            <4>4. Glue(<<>>) = <<>>
                BY DEF Glue
            <4>5. <<>> \o ws[1] = ws[1]
                BY <2>3, ConcatEmptySeq
            <4> QED BY <3>1, <4>1, <4>3, <4>4, <4>5, SnakeEmpty
        <3>3. CASE ~first
            <4>1. p[1] = ws[1]
                BY <1>2, <2>1, <3>3
            <4>2. f[1] = ws[1]
                BY <2>3, <3>1, <4>1, ConcatEmptySeq
            <4> QED BY <2>3, <4>2, SnakeFixed
        <3> QED BY <3>2, <3>3
    <2>6. Shown(ws, first, 1)
        BY DEF Shown
    <2> QED BY <2>3, <2>4, <2>5, <2>6
<1>9. ASSUME NEW k \in 2 .. n, Compared(k - 1) PROVE Compared(k)
    <2>1. k - 1 \in 1 .. n /\ k \in 1 .. n /\ k # 1 /\ k - 1 \in Nat
        BY <1>1
    <2>2. Ends(k - 1)
        BY <1>7, <2>1
    <2> DEFINE u == f[k - 1]  w == ws[k]  G == g[k - 1]
               U == ToSnakeCase(u)
               V == ToSnakeCase(u \o Capitalised(w))
               h == G \o (<<"_">> \o w)
               marked == u[Len(u)] \in LowerLetters
    <2>3. /\ u \in Seq(Characters) /\ u # <<>> /\ w \in Words /\ G \in Seq(Lowered)
          /\ marked <=> EndsLower(ws[k - 1], first \/ k - 1 > 1)
        BY <1>1, <1>6, <2>1, <2>2 DEF Ends
    <2>4. f[k] = u \o Capitalised(w) /\ g[k] = h
        BY <1>2, <1>3, <1>6, <2>1
    <2>5. /\ Len(U) \in Nat /\ Len(V) \in Nat /\ Len(G) \in Nat /\ Len(w) \in Nat
          /\ Len(h) = Len(G) + 1 + Len(w)
          /\ marked => (Len(V) = Len(U) + 1 + Len(w) /\ (U = G => V = h))
          /\ ~marked => Len(V) = Len(U) + Len(w)
        BY <2>3, WordAdds
    <2>6. Shown(ws, first, k) <=> (Shown(ws, first, k - 1) /\ marked)
        <3>1. \A i \in 1 .. k - 1 : i \in 1 .. (k - 1) - 1 \/ i = k - 1
            BY <2>1
        <3>2. \A i \in 1 .. (k - 1) - 1 : i \in 1 .. k - 1
            BY <2>1
        <3>3. k - 1 \in 1 .. k - 1
            BY <2>1
        <3> HIDE DEF marked
        <3> QED BY <2>3, <3>1, <3>2, <3>3 DEF Shown
    <2>7. /\ Shown(ws, first, k - 1) => U = G
          /\ Len(U) <= Len(G)
          /\ ~Shown(ws, first, k - 1) => Len(U) < Len(G)
        BY <1>9
    <2>8. Compared(k) <=>
             /\ Shown(ws, first, k) => V = h
             /\ Len(V) <= Len(h)
             /\ ~Shown(ws, first, k) => Len(V) < Len(h)
        BY <2>4
    <2> HIDE DEF Compared, u, w, G, U, V, h, marked
    <2> DEFINE a == Len(U)  b == Len(V)  c == Len(G)  d == Len(h)  e == Len(w)
    <2>9. /\ a \in Nat /\ b \in Nat /\ c \in Nat /\ e \in Nat
          /\ d = c + 1 + e /\ (marked => b = a + 1 + e) /\ (~marked => b = a + e)
          /\ a <= c /\ (~Shown(ws, first, k - 1) => a < c)
        BY <2>5, <2>7
    <2>10. Shown(ws, first, k) => V = h
        BY <2>5, <2>6, <2>7
    <2> HIDE DEF a, b, c, d, e
    <2>11. b <= d
        BY <2>9
    <2>12. ~Shown(ws, first, k) => b < d
        BY <2>6, <2>9
    <2> QED BY <2>8, <2>10, <2>11, <2>12 DEF b, d
<1> DEFINE T == {k \in 1 .. n : ~Compared(k)}
<1>10. T = {}
    <2> HIDE DEF Compared
    <2>1. SUFFICES ASSUME T # {} PROVE FALSE
        OBVIOUS
    <2>2. PICK k \in T : \A m \in T : k <= m
        <3>1. T \subseteq Nat
            BY <1>1
        <3> HIDE DEF T
        <3> QED BY <2>1, <3>1, SmallestExists
    <2>3. k # 1 /\ ~Compared(k)
        BY <1>8, <2>2
    <2>4. k \in 2 .. n /\ k - 1 \in 1 .. n /\ ~(k <= k - 1)
        BY <1>1, <2>3
    <2>5. Compared(k - 1)
        BY <2>2, <2>4
    <2> QED BY <1>9, <2>3, <2>4, <2>5
<1>11. n \in 1 .. n
    BY <1>1
<1>12. Compared(n) /\ f[n] \in Seq(Characters)
    <2> HIDE DEF Compared
    <2> QED BY <1>6, <1>10, <1>11
<1>13. ToSnakeCase(f[n]) \in Seq(Lowered) /\ Len(ToSnakeCase(f[n])) \in Nat
    BY <1>12, SnakeType, LenProperties
<1>14. ToSnakeCase(f[n]) = g[n] <=> Shown(ws, first, n)
    BY <1>12, <1>13
<1> QED BY <1>3, <1>4, <1>5, <1>12, <1>14 DEF p

\* An underscore that is there already is enough.
LEMMA ScoredWordAdds ==
    ASSUME NEW u \in Seq(Characters), NEW w \in Words
    PROVE  /\ u \o (<<"_">> \o Capitalised(w)) \in Seq(Characters)
           /\ ToSnakeCase(u \o (<<"_">> \o Capitalised(w))) = ToSnakeCase(u) \o (<<"_">> \o w)
<1> DEFINE bar == <<"_">>  c == Capitalised(w)  x == u \o bar
<1>1. Lowered \subseteq Characters /\ "_" \in Lowered /\ "_" \notin LowerLetters
    BY DEF Lowered, Characters, LowerLetters, UpperLetters, Digits
<1>2. w \in Seq(Lowered) /\ c \in Seq(Characters)
    BY WordFacts
<1>3. bar \in Seq(Lowered) /\ bar \in Seq(Characters) /\ Len(bar) = 1
    <2>1. "_" \in Characters
        BY <1>1
    <2> QED BY <1>1, <2>1, Pairs
<1>3a. bar[Len(bar)] = "_"
    <2>1. bar[1] = "_"
        OBVIOUS
    <2> HIDE DEF bar
    <2> QED BY <1>3, <2>1
<1>4. ToSnakeCase(x \o c) = ToSnakeCase(x) \o (Glue(x) \o w)
    <2>1. x \in Seq(Characters)
        BY <1>3, ConcatProperties
    <2> QED BY <2>1, SnakeCapitalised
<1> HIDE DEF bar, c
<1>5. bar # <<>>
    BY <1>3, EmptySeq
<1>6. x \in Seq(Characters) /\ x[Len(x)] = "_"
    <2>1. x \in Seq(Characters) /\ x[Len(x)] = bar[Len(bar)]
        BY <1>3, <1>5, ConcatEnd
    <2> QED BY <1>3a, <2>1
<1>7. Glue(x) = <<>>
    BY <1>1, <1>6 DEF Glue
<1>8. ToSnakeCase(x) = ToSnakeCase(u) \o bar
    BY <1>3, SnakeLower
<1>9. <<>> \o w = w
    BY <1>2, ConcatEmptySeq
<1>10. ToSnakeCase(x \o c) = (ToSnakeCase(u) \o bar) \o w
    <2> HIDE DEF x
    <2> QED BY <1>4, <1>7, <1>8, <1>9, Zenon
<1>11. x \o c = u \o (bar \o c) /\ bar \o c \in Seq(Characters)
    <2>1. x \o c = u \o (bar \o c)
        BY <1>2, <1>3, ConcatAssociative, SMTT(40)
    <2>2. bar \o c \in Seq(Characters)
        BY <1>2, <1>3, ConcatProperties
    <2> QED BY <2>1, <2>2
<1>12. u \o (bar \o c) \in Seq(Characters)
    BY <1>11, ConcatProperties
<1> DEFINE U == ToSnakeCase(u)
<1>13. U \in Seq(Lowered)
    BY SnakeType
<1>14. (U \o bar) \o w = U \o (bar \o w)
    <2> HIDE DEF U
    <2> QED BY <1>2, <1>3, <1>13, ConcatAssociative, SMTT(40)
<1>15. ToSnakeCase(u \o (bar \o c)) = U \o (bar \o w)
    <2> HIDE DEF x
    <2> QED BY <1>10, <1>11, <1>14, Zenon
<1> QED BY <1>12, <1>15 DEF bar, c

\* Capitalised words with underscores between them always become the spelling in
\* snake case.
LEMMA ScoresMeet ==
    ASSUME NEW ws \in WordLists
    PROVE  /\ PascalSnakeSpelling(ws) \in Seq(Characters)
           /\ ToSnakeCase(PascalSnakeSpelling(ws)) = SnakeSpelling(ws)
<1> DEFINE n == Len(ws)
           cs == [i \in 1 .. n |-> Capitalised(ws[i])]
           p == [i \in 1 .. n |-> IF i = 1 THEN Capitalised(ws[i])
                                           ELSE <<"_">> \o Capitalised(ws[i])]
           q == ScorePieces(ws)
<1>1. n \in Nat \ {0} /\ DOMAIN ws = 1 .. n /\ \A i \in 1 .. n : ws[i] \in Words
    BY WordListFacts
<1>2. PascalSnakeSpelling(ws) = FlattenSeq(p)
    <2>1. PascalSnakeSpelling(ws) = SnakeSpelling(cs)
        BY <1>1 DEF PascalSnakeSpelling
    <2>2. DOMAIN cs = 1 .. n
        OBVIOUS
    <2>3. [i \in DOMAIN cs |-> IF i = 1 THEN cs[i] ELSE <<"_">> \o cs[i]] = p
        BY <2>2
    <2> QED BY <2>1, <2>3 DEF SnakeSpelling
<1>3. <<"_">> \in Seq(Characters)
    <2>1. "_" \in Characters
        BY DEF Characters
    <2> QED BY <2>1, Pairs
<1>4. p \in Seq(Seq(Characters)) /\ Len(p) = n
    <2>1. \A i \in 1 .. n : Capitalised(ws[i]) \in Seq(Characters)
        BY <1>1, WordFacts
    <2>2. \A i \in 1 .. n : <<"_">> \o Capitalised(ws[i]) \in Seq(Characters)
        BY <1>3, <2>1, ConcatProperties
    <2>3. p \in [1 .. n -> Seq(Characters)]
        BY <2>1, <2>2
    <2> HIDE DEF p
    <2> QED BY <1>1, <2>3
<1>5. \A i \in 1 .. n : p[i] = IF i = 1 THEN Capitalised(ws[i])
                                      ELSE <<"_">> \o Capitalised(ws[i])
    OBVIOUS
<1>6. /\ q \in Seq(Seq(Lowered)) /\ Len(q) = n /\ SnakeSpelling(ws) = FlattenSeq(q)
      /\ \A i \in 1 .. n : q[i] = IF i = 1 THEN ws[i] ELSE <<"_">> \o ws[i]
    BY SnakeSpellingFacts
<1> HIDE DEF p, q, cs
<1>7. PICK f : /\ Joins(f, p, n) /\ FlattenSeq(p) = f[n]
               /\ \A k \in 0 .. n : f[k] \in Seq(Characters)
    BY <1>4, FlattenFacts
<1>8. PICK g : /\ Joins(g, q, n) /\ FlattenSeq(q) = g[n]
               /\ \A k \in 0 .. n : g[k] \in Seq(Lowered)
    BY <1>6, FlattenFacts
<1>9. \A k \in 1 .. n : f[k] = f[k - 1] \o p[k] /\ g[k] = g[k - 1] \o q[k]
    BY <1>7, <1>8 DEF Joins
<1> DEFINE T == {k \in 1 .. n : ToSnakeCase(f[k]) # g[k]}
<1>10. T = {}
    <2>1. SUFFICES ASSUME T # {} PROVE FALSE
        OBVIOUS
    <2>2. PICK k \in T : \A m \in T : k <= m
        <3>1. T \subseteq Nat
            BY <1>1
        <3> HIDE DEF T
        <3> QED BY <2>1, <3>1, SmallestExists
    <2>3. k \in 1 .. n /\ k - 1 \in 0 .. n /\ (k # 1 => k - 1 \in 1 .. n) /\ ~(k <= k - 1)
        BY <1>1
    <2> DEFINE u == f[k - 1]  w == ws[k]
    <2>4. u \in Seq(Characters) /\ w \in Words /\ f[k] = u \o p[k] /\ g[k] = g[k - 1] \o q[k]
        BY <1>1, <1>7, <1>9, <2>3
    <2>5. CASE k = 1
        <3>1. k - 1 = 0 /\ p[k] = Capitalised(w) /\ q[k] = w
            <4>1. k - 1 = 0
                BY <2>5
            <4>2. p[k] = Capitalised(w)
                BY <1>5, <2>3, <2>5, Zenon
            <4>3. q[k] = w
                BY <1>6, <2>3, <2>5, Zenon
            <4> QED BY <4>1, <4>2, <4>3
        <3>2. u = <<>> /\ g[k - 1] = <<>>
            BY <1>7, <1>8, <3>1 DEF Joins
        <3>3. ToSnakeCase(f[k]) = ToSnakeCase(u) \o (Glue(u) \o w)
            BY <2>4, <3>1, SnakeCapitalised
        <3>4. ToSnakeCase(u) = <<>> /\ Glue(u) = <<>>
            BY <3>2, SnakeEmpty DEF Glue
        <3>5. <<>> \o w = w
            BY <2>4, WordFacts, ConcatEmptySeq
        <3>6. ToSnakeCase(f[k]) = w /\ g[k] = w
            <4> HIDE DEF u, w
            <4> QED BY <2>4, <3>1, <3>2, <3>3, <3>4, <3>5, Zenon
        <3> QED BY <2>2, <3>6
    <2>6. CASE k # 1
        <3>1. p[k] = <<"_">> \o Capitalised(w) /\ q[k] = <<"_">> \o w
            BY <1>5, <1>6, <2>3, <2>6
        <3>2. ToSnakeCase(f[k]) = ToSnakeCase(u) \o (<<"_">> \o w)
            <4>1. u \in Seq(Characters) /\ w \in Words /\ f[k] = u \o (<<"_">> \o Capitalised(w))
                <5> HIDE DEF u, w
                <5> QED BY <2>4, <3>1, Zenon
            <4> HIDE DEF u, w
            <4> QED BY <4>1, ScoredWordAdds, Zenon
        <3>3. ToSnakeCase(u) = g[k - 1]
            BY <2>2, <2>3, <2>6
        <3>4. ToSnakeCase(f[k]) = g[k]
            <4> HIDE DEF u, w
            <4> QED BY <2>4, <3>1, <3>2, <3>3, Zenon
        <3> QED BY <2>2, <3>4
    <2> QED BY <2>5, <2>6
<1>11. n \in 1 .. n /\ n \in 0 .. n
    BY <1>1
<1>12. ToSnakeCase(f[n]) = g[n] /\ f[n] \in Seq(Characters)
    BY <1>7, <1>10, <1>11
<1> QED BY <1>2, <1>6, <1>7, <1>8, <1>12

\* However a name is spelled, it is a sequence of characters, and to_snake_case
\* makes the spelling in snake case of it exactly if it shows where the words end:
\* the rule of readme.md, for names of any number of words of any length.
THEOREM SpellingRule ==
    ASSUME NEW ws \in WordLists, NEW style \in Styles
    PROVE  /\ Spelled(style, ws) \in Seq(Characters)
           /\ ToSnakeCase(Spelled(style, ws)) = SnakeSpelling(ws) <=> Separated(style, ws)
<1> DEFINE n == Len(ws)
<1>1. n \in Nat \ {0} /\ DOMAIN ws = 1 .. n
    BY WordListFacts
<1>2. CASE style = "snake_case"
    <2>1. Spelled(style, ws) = SnakeSpelling(ws)
        BY <1>2 DEF Spelled
    <2>2. Separated(style, ws)
        BY <1>2 DEF Separated
    <2>3. SnakeSpelling(ws) \in Seq(Lowered) /\ ToSnakeCase(SnakeSpelling(ws)) = SnakeSpelling(ws)
        BY SnakeSpellingFacts, SnakeFixed
    <2>4. SnakeSpelling(ws) \in Seq(Characters)
        <3>1. Lowered \subseteq Characters
            BY DEF Lowered
        <3> QED BY <2>3, <3>1, SeqMonotonic
    <2> QED BY <2>1, <2>2, <2>3, <2>4
<1>3. CASE style = "Pascal_Case"
    <2>1. Spelled(style, ws) = PascalSnakeSpelling(ws)
        BY <1>3 DEF Spelled
    <2>2. Separated(style, ws)
        BY <1>3 DEF Separated
    <2> QED BY <2>1, <2>2, ScoresMeet
<1>4. CASE style = "camelCase"
    <2>1. Spelled(style, ws) = CamelSpelling(ws)
        BY <1>4 DEF Spelled
    <2>2. CapitalPieces(ws, FALSE) =
            [i \in DOMAIN ws |-> IF i = 1 THEN ws[i] ELSE Capitalised(ws[i])]
        BY DEF CapitalPieces
    <2>3. CamelSpelling(ws) = FlattenSeq(CapitalPieces(ws, FALSE))
        BY <2>2 DEF CamelSpelling
    <2>4. Separated(style, ws) <=> Shown(ws, FALSE, n)
        BY <1>4 DEF Separated, Shown
    <2> QED BY <2>1, <2>3, <2>4, CapitalsMeet
<1>5. CASE style = "PascalCase"
    <2>1. Spelled(style, ws) = PascalSpelling(ws)
        BY <1>5 DEF Spelled
    <2>2. CapitalPieces(ws, TRUE) = [i \in DOMAIN ws |-> Capitalised(ws[i])]
        BY DEF CapitalPieces
    <2>3. PascalSpelling(ws) = FlattenSeq(CapitalPieces(ws, TRUE))
        BY <2>2 DEF PascalSpelling
    <2>4. Separated(style, ws) <=> Shown(ws, TRUE, n)
        BY <1>5 DEF Separated, Shown, EndsLower
    <2> QED BY <2>1, <2>3, <2>4, CapitalsMeet
<1> QED BY <1>2, <1>3, <1>4, <1>5 DEF Styles

\* A name that is kept is what some name rmUser accepts stands for, exactly if it
\* has no digit: newUser's syntax takes digits, readme.md's example of both
\* commands has one, and rmUser's takes none.
THEOREM RemovalRule ==
    ASSUME NEW n \in Seq(Characters), AddableName(n), ToSnakeCase(n) = n
    PROVE  (\E s \in Seq(Characters) : RemovableName(s) /\ ToSnakeCase(s) = n)
                <=> ~HasDigit(n)
<1>1. ASSUME NEW s \in Seq(Characters), RemovableName(s), ToSnakeCase(s) = n
      PROVE  ~HasDigit(n)
    <2>1. ~HasDigit(s)
        BY <1>1 DEF RemovableName, HasDigit, LowerLetters, UpperLetters, Digits
    <2> QED BY <1>1, <2>1, SnakeDigits
<1>2. ASSUME ~HasDigit(n) PROVE RemovableName(n)
    BY <1>2 DEF AddableName, RemovableName, HasDigit
<1> QED BY <1>1, <1>2

----------------------------------------------------------------------------
(* The inductive invariant. *)

\* A name in the form in which the tables keep it.
Kept(n) == AddableName(n) /\ ToSnakeCase(n) = n

\* Whatever may be typed for a name is a sequence of characters.
LEMMA SpellingsType ==
    ASSUME words \in WordLists
    PROVE  Spellings \subseteq Seq(Characters)
<1>1. \A style \in Styles : Spelled(style, words) \in Seq(Characters)
    BY SpellingRule
<1> QED BY <1>1, NameAssumption DEF Spellings

\* A name that is accepted is kept in snake case.
LEMMA AcceptedIsKept ==
    ASSUME NEW s \in Seq(Characters), AddableName(s)
    PROVE  ToSnakeCase(s) \in Seq(Characters) /\ Kept(ToSnakeCase(s))
BY SnakeType, SnakeAddable, SnakeIdempotent DEF Kept

\* A line that is read for a command has what the command needs.
LEMMA LineType ==
    ASSUME NEW l \in Lines \cup {NoLine}
    PROVE  /\ l.verb \in {"newDoor", "newUser"} => l.name \in Spellings
           /\ l.verb = "rmUser" => l.name \in Spellings
<1>1. CASE l \in [verb : {"newDoor", "newUser"}, name : Spellings, number : Numbers]
    BY <1>1
<1>2. CASE l \in [verb : {"rmUser", "rmDoor"}, name : Spellings]
    BY <1>2
<1>3. CASE l \in [verb : {"getLog", "other"}]
    BY <1>3
<1>4. CASE l = NoLine
    BY <1>4 DEF NoLine
<1> QED BY <1>1, <1>2, <1>3, <1>4 DEF Lines

\* The type invariant of what the administrators do, and of the tables.
SessionsOK ==
    /\ words \in WordLists
    /\ threads \in 0 .. PoolSize
    /\ session \in [Admins -> {"none", "open", "asked", "silent", "answered"}]
    /\ line \in [Admins -> Lines \cup {NoLine}]

TablesOK ==
    /\ typedDoors \subseteq Spellings
    /\ doors \subseteq Seq(Characters) /\ users \subseteq Seq(Characters)
    /\ card \in [Admins -> Seq(Characters) \cup {NoName}]
    /\ \A n \in doors : Kept(n)
    /\ \A n \in users : Kept(n)
    /\ \A b \in Admins : card[b] # NoName => Kept(card[b])
    /\ DoorsAsTyped

LEMMA IndInvParts == IndInv <=> SessionsOK /\ TablesOK
<1>1. \A n \in Seq(Characters) : n # NoName
    BY NameAssumption
<1>2. ASSUME doors \cup users \subseteq Seq(Characters)
      PROVE  (\A n \in doors \cup users \cup {card[a] : a \in Admins} :
                    n # NoName => AddableName(n) /\ ToSnakeCase(n) = n)
             <=> /\ \A n \in doors : Kept(n)
                 /\ \A n \in users : Kept(n)
                 /\ \A b \in Admins : card[b] # NoName => Kept(card[b])
    BY <1>1, <1>2 DEF Kept
<1> QED BY <1>2 DEF IndInv, TypeOK, SessionsOK, TablesOK

\* The same of the next state.
LEMMA IndInvPartsNext == SessionsOK' /\ TablesOK' => IndInv'
<1>1. \A n \in Seq(Characters) : n # NoName
    BY NameAssumption
<1>2. ASSUME TablesOK'
      PROVE  \A n \in doors' \cup users' \cup {card'[a] : a \in Admins} :
                    n # NoName => AddableName(n) /\ ToSnakeCase(n) = n
    BY <1>1, <1>2 DEF Kept, TablesOK
<1> QED BY <1>2 DEF IndInv, TypeOK, SessionsOK, TablesOK

LEMMA InitIndInv == Init => IndInv
<1>1. ASSUME Init PROVE SessionsOK
    BY <1>1, PoolAssumption DEF Init, SessionsOK
<1>2. ASSUME Init PROVE TablesOK
    BY <1>2 DEF Init, TablesOK, DoorsAsTyped
<1> QED BY <1>1, <1>2, IndInvParts

\* What may be typed, and the lines, stay what they are.
LEMMA LinesStay ==
    ASSUME UNCHANGED words
    PROVE  Spellings' = Spellings /\ Lines' = Lines
BY DEF Spellings, Lines

\* A line that is dealt with leaves its connection well typed.
LEMMA DoneType ==
    ASSUME SessionsOK, NEW a \in Admins, UNCHANGED words, threads' \in 0 .. PoolSize,
           NEW outcome \in {"none", "answered", "silent"}, Done(a, outcome)
    PROVE  SessionsOK'
<1>1. NoLine \in Lines \cup {NoLine} /\ Lines' = Lines
    BY LinesStay
<1>2. line' \in [Admins -> Lines \cup {NoLine}]
    BY <1>1 DEF SessionsOK, Done
<1>3. session' \in [Admins -> {"none", "open", "asked", "silent", "answered"}]
    BY DEF SessionsOK, Done
<1> QED BY <1>1, <1>2, <1>3 DEF SessionsOK

\* Tables and cards that no step touches stay as they are.
LEMMA TablesStay ==
    ASSUME TablesOK, UNCHANGED <<words, card, tables>>
    PROVE  TablesOK'
<1>1. Spellings' = Spellings
    BY LinesStay
<1> QED BY <1>1 DEF TablesOK, DoorsAsTyped, tables

\* A command that changed the tables leaves its connection well typed, whether its
\* thread ends or not.
LEMMA SavedType ==
    ASSUME SessionsOK, NEW a \in Admins, UNCHANGED words, threads > 0,
           NEW otherwise \in {"none", "answered", "silent"}, Saved(a, otherwise)
    PROVE  SessionsOK'
<1>1. threads - 1 \in 0 .. PoolSize /\ threads \in 0 .. PoolSize
    BY PoolAssumption DEF SessionsOK
<1>2. threads' \in 0 .. PoolSize
    BY <1>1 DEF Saved
<1> QED BY <1>2, DoneType DEF Saved

\* What a handler may rely on.
LEMMA ReadsFacts ==
    ASSUME IndInv, NEW a \in Admins
    PROVE  /\ threads \in Nat /\ PoolSize \in Nat
           /\ \A verb : Reads(a, verb) => session[a] = "asked" /\ threads > 0
           /\ Accepted(a, "newDoor") \/ Accepted(a, "newUser") =>
                 /\ line[a].name \in Spellings
                 /\ AddableName(line[a].name)
                 /\ ToSnakeCase(line[a].name) \in Seq(Characters)
                 /\ Kept(ToSnakeCase(line[a].name))
<1>1. threads \in Nat /\ PoolSize \in Nat /\ line[a] \in Lines \cup {NoLine} /\ words \in WordLists
    BY IndInvParts, PoolAssumption DEF SessionsOK
<1>2. ASSUME Accepted(a, "newDoor") \/ Accepted(a, "newUser")
      PROVE  line[a].name \in Spellings /\ AddableName(line[a].name)
    <2>1. line[a].verb \in {"newDoor", "newUser"} /\ AddableName(line[a].name)
        BY <1>2 DEF Accepted, Reads
    <2> QED BY <1>1, <2>1, LineType
<1>3. ASSUME Accepted(a, "newDoor") \/ Accepted(a, "newUser")
      PROVE  ToSnakeCase(line[a].name) \in Seq(Characters) /\ Kept(ToSnakeCase(line[a].name))
    BY <1>1, <1>2, <1>3, SpellingsType, AcceptedIsKept
<1> QED BY <1>1, <1>2, <1>3 DEF Reads

\* An administrator who comes, sends a line or goes.
LEMMA AdminStep ==
    ASSUME IndInv, NEW a \in Admins, Connect(a) \/ SendLine(a) \/ Leave(a)
    PROVE  IndInv'
<1>1. SessionsOK /\ TablesOK
    BY IndInvParts
<1>2. CASE Connect(a)
    <2>1. SessionsOK'
        BY <1>1, <1>2, LinesStay DEF Connect, SessionsOK
    <2>2. TablesOK'
        BY <1>1, <1>2, TablesStay DEF Connect
    <2> QED BY <2>1, <2>2, IndInvPartsNext
<1>3. CASE SendLine(a)
    <2>1. PICK l \in Lines : line' = [line EXCEPT ![a] = l]
        BY <1>3 DEF SendLine
    <2>2. line' \in [Admins -> Lines \cup {NoLine}]
        BY <1>1, <2>1 DEF SessionsOK
    <2>3. SessionsOK'
        BY <1>1, <1>3, <2>2, LinesStay DEF SendLine, SessionsOK
    <2>4. TablesOK'
        BY <1>1, <1>3, TablesStay DEF SendLine
    <2> QED BY <2>3, <2>4, IndInvPartsNext
<1>4. CASE Leave(a)
    <2>1. SessionsOK'
        BY <1>1, <1>4, LinesStay DEF Leave, SessionsOK
    <2>2. card' \in [Admins -> Seq(Characters) \cup {NoName}]
          /\ \A b \in Admins : card'[b] # NoName => Kept(card'[b])
        BY <1>1, <1>4 DEF Leave, TablesOK
    <2>3. TablesOK'
        BY <1>1, <1>4, <2>2, LinesStay DEF Leave, TablesOK, DoorsAsTyped, tables
    <2> QED BY <2>1, <2>3, IndInvPartsNext
<1> QED BY <1>2, <1>3, <1>4

\* A handler that leaves the tables alone.
LEMMA QuietHandler ==
    ASSUME IndInv, NEW a \in Admins,
           \/ WrongSyntax(a) \/ NumberTooLarge(a) \/ RmUnknownUser(a)
           \/ GetLog(a) \/ UnknownCommand(a)
    PROVE  IndInv'
<1>1. SessionsOK /\ TablesOK
    BY IndInvParts
<1>2. UNCHANGED <<words, card, tables>>
    BY DEF WrongSyntax, NumberTooLarge, RmUnknownUser, GetLog, UnknownCommand
<1>3. threads' \in 0 .. PoolSize
    <2>1. CASE NumberTooLarge(a)
        <3>1. threads > 0 /\ threads' = threads - 1
            BY <2>1, ReadsFacts DEF NumberTooLarge, Accepted, Reads
        <3> QED BY <1>1, <3>1, PoolAssumption DEF SessionsOK
    <2>2. CASE ~NumberTooLarge(a)
        BY <1>1, <2>2 DEF SessionsOK, WrongSyntax, RmUnknownUser, GetLog, UnknownCommand
    <2> QED BY <2>1, <2>2
<1>4. \E outcome \in {"none", "answered", "silent"} : Done(a, outcome)
    BY DEF WrongSyntax, NumberTooLarge, RmUnknownUser, GetLog, UnknownCommand
<1>5. SessionsOK'
    BY <1>1, <1>2, <1>3, <1>4, DoneType
<1>6. TablesOK'
    BY <1>1, <1>2, TablesStay
<1> QED BY <1>5, <1>6, IndInvPartsNext

\* newDoor keeps the door in snake case.
LEMMA NewDoorStep ==
    ASSUME IndInv, NEW a \in Admins, NewDoor(a)
    PROVE  IndInv'
<1> DEFINE s == line[a].name  n == ToSnakeCase(s)
<1>1. SessionsOK /\ TablesOK
    BY IndInvParts
<1>2. s \in Spellings /\ AddableName(s) /\ n \in Seq(Characters) /\ Kept(n)
    BY ReadsFacts DEF NewDoor
<1>3. /\ doors' = doors \cup {n} /\ typedDoors' = typedDoors \cup {s} /\ Saved(a, "none")
      /\ UNCHANGED <<words, card, users>> /\ threads > 0
    BY ReadsFacts DEF NewDoor, Accepted, Reads
<1>4. SessionsOK'
    BY <1>1, <1>3, SavedType
<1> HIDE DEF s
<1>5. DoorsAsTyped'
    <2>1. doors = {ToSnakeCase(t) : t \in typedDoors} /\ \A t \in typedDoors : AddableName(t)
        BY <1>1 DEF TablesOK, DoorsAsTyped
    <2>2. doors' = {ToSnakeCase(t) : t \in typedDoors'}
        BY <1>3, <2>1
    <2>3. \A t \in typedDoors' : AddableName(t)
        BY <1>2, <1>3, <2>1
    <2> QED BY <2>2, <2>3 DEF DoorsAsTyped
<1> HIDE DEF n
<1>6. TablesOK'
    BY <1>1, <1>2, <1>3, <1>5, LinesStay DEF TablesOK
<1> QED BY <1>4, <1>6, IndInvPartsNext

\* newUser keeps the name in snake case until the card arrives.
LEMMA NewUserStep ==
    ASSUME IndInv, NEW a \in Admins, NewUser(a)
    PROVE  IndInv'
<1> DEFINE n == ToSnakeCase(line[a].name)
<1>1. SessionsOK /\ TablesOK
    BY IndInvParts
<1>2. n \in Seq(Characters) /\ Kept(n)
    BY ReadsFacts DEF NewUser
<1>3. /\ card' = [card EXCEPT ![a] = n] /\ Done(a, "silent")
      /\ UNCHANGED <<words, threads, tables>>
    BY DEF NewUser
<1>4. SessionsOK'
    <2>1. threads' \in 0 .. PoolSize
        BY <1>1, <1>3 DEF SessionsOK
    <2> QED BY <1>1, <1>3, <2>1, DoneType
<1> HIDE DEF n
<1>5. card' \in [Admins -> Seq(Characters) \cup {NoName}]
      /\ \A b \in Admins : card'[b] # NoName => Kept(card'[b])
    BY <1>1, <1>2, <1>3 DEF TablesOK
<1>6. TablesOK'
    BY <1>1, <1>3, <1>5, LinesStay DEF TablesOK, DoorsAsTyped, tables
<1> QED BY <1>4, <1>6, IndInvPartsNext

\* The card adds its user, and rmUser removes one.
LEMMA UserStep ==
    ASSUME IndInv, NEW a \in Admins, StoreCard(a) \/ RmUser(a)
    PROVE  IndInv'
<1>1. SessionsOK /\ TablesOK
    BY IndInvParts
<1>2. /\ UNCHANGED <<words, doors, typedDoors>> /\ threads > 0
      /\ Saved(a, "silent") \/ Saved(a, "none")
    BY DEF StoreCard, RmUser, Reads
<1>3. SessionsOK'
    BY <1>1, <1>2, SavedType
<1>4. users' \subseteq Seq(Characters) /\ \A n \in users' : Kept(n)
    BY <1>1 DEF TablesOK, StoreCard, RmUser
<1>5. card' \in [Admins -> Seq(Characters) \cup {NoName}]
      /\ \A b \in Admins : card'[b] # NoName => Kept(card'[b])
    BY <1>1 DEF TablesOK, StoreCard, RmUser
<1>6. TablesOK'
    BY <1>1, <1>2, <1>4, <1>5, LinesStay DEF TablesOK, DoorsAsTyped
<1> QED BY <1>3, <1>6, IndInvPartsNext

LEMMA NextIndInv == IndInv /\ [Next]_vars => IndInv'
<1>1. ASSUME IndInv, UNCHANGED vars PROVE IndInv'
    <2>1. UNCHANGED <<words, card, tables>> /\ UNCHANGED <<threads, session, line>>
        BY <1>1 DEF vars
    <2>2. SessionsOK'
        BY <1>1, <2>1, IndInvParts, LinesStay DEF SessionsOK
    <2> QED BY <1>1, <2>1, <2>2, IndInvParts, IndInvPartsNext, TablesStay
<1>2. ASSUME IndInv, Next PROVE IndInv'
    <2>1. PICK a \in Admins :
            Connect(a) \/ SendLine(a) \/ Handle(a) \/ StoreCard(a) \/ Leave(a)
        BY <1>2 DEF Next
    <2>2. CASE Handle(a)
        BY <1>2, <2>2, QuietHandler, NewDoorStep, NewUserStep, UserStep DEF Handle
    <2> QED BY <1>2, <2>1, <2>2, AdminStep, UserStep
<1> QED BY <1>1, <1>2

----------------------------------------------------------------------------
(* What holds of every behaviour. *)

\* The doors are the names accepted for them, in snake case.
THEOREM Inductive == Spec => []IndInv
<1> QED BY InitIndInv, NextIndInv, PTL DEF Spec

\* Every variable has its type, and every name that is kept is in snake case.
THEOREM TypeCorrect == Spec => []TypeOK
<1>1. IndInv => TypeOK
    BY DEF IndInv
<1> QED BY <1>1, Inductive, PTL

\* The spellings of a name share one entry exactly when all of them show where its
\* words end, whatever the name.
THEOREM Meet == Spec => []SpellingsMeet
<1>1. ASSUME IndInv PROVE SpellingsMeet
    <2>1. SUFFICES ASSUME typedDoors # {}
                   PROVE  doors = {SnakeSpelling(words)}
                            <=> \A style \in Styles :
                                    Spelled(style, words) \in typedDoors => Separated(style, words)
        BY DEF SpellingsMeet
    <2>2. words \in WordLists /\ typedDoors \subseteq Spellings
          /\ doors = {ToSnakeCase(s) : s \in typedDoors} /\ \A s \in typedDoors : AddableName(s)
        BY <1>1, IndInvParts DEF SessionsOK, TablesOK, DoorsAsTyped
    <2>3. \A style \in Styles :
            ToSnakeCase(Spelled(style, words)) = SnakeSpelling(words) <=> Separated(style, words)
        BY <2>2, SpellingRule
    <2>4. \A s \in typedDoors : \E style \in Styles : s = Spelled(style, words)
        BY <2>2, NameAssumption DEF Spellings
    <2>5. ASSUME doors = {SnakeSpelling(words)}, NEW style \in Styles,
                 Spelled(style, words) \in typedDoors
          PROVE  Separated(style, words)
        <3>1. ToSnakeCase(Spelled(style, words)) = SnakeSpelling(words)
            BY <2>2, <2>5
        <3> QED BY <2>3, <3>1
    <2>6. ASSUME \A style \in Styles :
                    Spelled(style, words) \in typedDoors => Separated(style, words)
          PROVE  doors = {SnakeSpelling(words)}
        <3>1. \A s \in typedDoors : ToSnakeCase(s) = SnakeSpelling(words)
            BY <2>3, <2>4, <2>6
        <3> QED BY <2>1, <2>2, <3>1
    <2> QED BY <2>5, <2>6
<1> QED BY <1>1, Inductive, PTL

\* A door is found under the name typed for it exactly if that was in snake case.
THEOREM Found == Spec => []FoundAsTyped
<1>1. ASSUME IndInv PROVE FoundAsTyped
    <2>1. SUFFICES ASSUME NEW s \in typedDoors PROVE s \in doors <=> ToSnakeCase(s) = s
        BY DEF FoundAsTyped, FindsDoor
    <2>2. doors = {ToSnakeCase(t) : t \in typedDoors} /\ \A n \in doors : Kept(n)
        BY <1>1, IndInvParts DEF TablesOK, DoorsAsTyped
    <2>3. ToSnakeCase(s) \in doors
        BY <2>2
    <2>4. s \in doors => ToSnakeCase(s) = s
        BY <2>2 DEF Kept
    <2> QED BY <2>3, <2>4
<1> QED BY <1>1, Inductive, PTL
=============================================================================
