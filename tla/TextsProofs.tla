---------------------------- MODULE TextsProofs ----------------------------
EXTENDS Texts, WellFoundedInduction, TLAPS

\* A set of naturals has a least element ...
LEMMA Least ==
    ASSUME NEW S \in SUBSET Nat, S # {}
    PROVE  \E x \in S : \A y \in S : x <= y
<1> DEFINE Less == {ss \in Nat \X Nat : ss[1] < ss[2]}
<1>1. IsWellFoundedOn(Less, Nat)
  BY NatLessThanWellFounded, Zenon DEF OpToRel
<1> HIDE DEF Less
<1>2. PICK x \in S : \A y \in S : ~ (<<y, x>> \in Less)
  BY <1>1, WFMin
<1>3. \A y \in S : ~ (y < x)
  <2>1. \A y \in S : <<y, x>> \in Nat \X Nat
    OBVIOUS
  <2> QED
    BY <1>2, <2>1 DEF Less
<1> QED
  BY <1>3

\* ... so that a set that has 0 and the successors of what it has is Nat.
LEMMA Induction ==
    ASSUME NEW S \in SUBSET Nat, 0 \in S, \A n \in S : n + 1 \in S
    PROVE  S = Nat
<1>1. CASE Nat \ S = {}
  BY <1>1
<1>2. CASE Nat \ S # {}
  <2>1. PICK x \in Nat \ S : \A y \in Nat \ S : x <= y
    BY <1>2, Least
  <2>2. x # 0 /\ x - 1 \in Nat
    BY <2>1
  <2>3. x - 1 \in S
    BY <2>1, <2>2
  <2>4. (x - 1) + 1 \in S
    BY <2>3
  <2> QED
    BY <2>1, <2>4
<1> QED
  BY <1>1, <1>2

\* Every functional whose value at a point is settled by values at points of less
\* measure has a fixed point: a function that is defined by recursion exists.
SettledByLess(F, D, T, measure) ==
    \A g, h \in [D -> T], d \in D :
       (\A e \in D : measure[e] < measure[d] => g[e] = h[e]) => F[g][d] = F[h][d]

HasFixedPoint(F, S) == \E g \in S : F[g] = g

LEMMA FixedPoint ==
    ASSUME NEW D, NEW T, T # {}, NEW measure \in [D -> Nat], NEW bound \in Nat,
           \A d \in D : measure[d] < bound,
           NEW F \in [[D -> T] -> [D -> T]], SettledByLess(F, D, T, measure)
    PROVE  HasFixedPoint(F, [D -> T])
<1> DEFINE Fixed(g, m) == \A d \in D : measure[d] < m => F[g][d] = g[d]
           S == {m \in Nat : \E g \in [D -> T] : Fixed(g, m)}
<1>1. 0 \in S
  <2>1. PICK t \in T : TRUE
    OBVIOUS
  <2>2. [d \in D |-> t] \in [D -> T]
    OBVIOUS
  <2>3. Fixed([d \in D |-> t], 0)
    OBVIOUS
  <2> QED
    BY <2>2, <2>3
<1>2. ASSUME NEW m \in S
      PROVE  m + 1 \in S
  <2>1. PICK g \in [D -> T] : Fixed(g, m)
    OBVIOUS
  <2>2. F[g] \in [D -> T]
    OBVIOUS
  <2>3. ASSUME NEW d \in D, measure[d] < m + 1
        PROVE  F[F[g]][d] = F[g][d]
    <3>1. \A e \in D : measure[e] < measure[d] => F[g][e] = g[e]
      BY <2>1, <2>3
    <3> QED
      BY <2>2, <3>1 DEF SettledByLess
  <2>4. Fixed(F[g], m + 1)
    BY <2>3
  <2> QED
    BY <2>2, <2>4
<1>3. bound \in S
  <2> HIDE DEF S
  <2>1. S \subseteq Nat
    BY DEF S
  <2> QED
    BY <1>1, <1>2, <2>1, Induction
<1>4. PICK g \in [D -> T] : Fixed(g, bound)
  BY <1>3
<1>5. \A d \in D : F[g][d] = g[d]
  BY <1>4
<1>6. F[g] = g
  BY <1>5
<1> QED
  BY <1>6 DEF HasFixedPoint

\* ... such as a function on 0 .. n whose value depends on the value before.
SettledByLast(F, n, T) ==
    \A g, h \in [0 .. n -> T], d \in 0 .. n :
       (d > 0 => g[d - 1] = h[d - 1]) => F[g][d] = F[h][d]

LEMMA Chain ==
    ASSUME NEW n \in Nat, NEW T, T # {}, NEW F \in [[0 .. n -> T] -> [0 .. n -> T]],
           SettledByLast(F, n, T)
    PROVE  HasFixedPoint(F, [0 .. n -> T])
<1> DEFINE D == 0 .. n
           measure == [d \in D |-> d]
<1>1. measure \in [D -> Nat] /\ n + 1 \in Nat /\ \A d \in D : measure[d] < n + 1
  OBVIOUS
<1>2. ASSUME NEW g \in [D -> T], NEW h \in [D -> T], NEW d \in D,
             \A e \in D : measure[e] < measure[d] => g[e] = h[e]
      PROVE  F[g][d] = F[h][d]
  <2>1. d > 0 => d - 1 \in D /\ measure[d - 1] < measure[d]
    OBVIOUS
  <2>2. d > 0 => g[d - 1] = h[d - 1]
    BY <1>2, <2>1
  <2> QED
    BY <2>2 DEF SettledByLast
<1>3. F \in [[D -> T] -> [D -> T]]
  OBVIOUS
<1> HIDE DEF D, measure
<1>4. SettledByLess(F, D, T, measure)
  BY <1>2 DEF SettledByLess
<1>5. HasFixedPoint(F, [D -> T])
  BY <1>1, <1>3, <1>4, FixedPoint
<1> QED
  BY <1>5 DEF D
-----------------------------------------------------------------------------
(***************************************************************************)
(* splitStatements.  First, the recursive functions are what they say.     *)
(***************************************************************************)
Regions == {"code", "dash", "literal", "comment"}

LEMMA RegionIs ==
    ASSUME NEW C, NEW file \in Seq(C)
    PROVE  Region(file) = [k \in 0 .. Len(file) |->
              IF k = 0 THEN "code" ELSE NextRegion(Region(file)[k - 1], file[k])]
<1> DEFINE D == 0 .. Len(file)
           E(g) == [k \in D |-> IF k = 0 THEN "code" ELSE NextRegion(g[k - 1], file[k])]
           F == [g \in [D -> Regions] |-> E(g)]
<1>1. Region(file) = CHOOSE g : g = E(g)
  BY DEF Region
<1>2. \E g : g = E(g)
  <2>1. F \in [[D -> Regions] -> [D -> Regions]]
    BY DEF NextRegion, Regions
  <2>2. ASSUME NEW g \in [D -> Regions], NEW h \in [D -> Regions], NEW d \in D,
               d > 0 => g[d - 1] = h[d - 1]
        PROVE  F[g][d] = F[h][d]
    BY <2>2
  <2>3. Len(file) \in Nat /\ Regions # {}
    BY DEF Regions
  <2>4. SettledByLast(F, Len(file), Regions)
    BY <2>2 DEF SettledByLast
  <2> HIDE DEF F
  <2>5. HasFixedPoint(F, [D -> Regions])
    BY <2>1, <2>3, <2>4, Chain
  <2> QED
    BY <2>5 DEF HasFixedPoint, F
<1> HIDE DEF E
<1>3. Region(file) = E(Region(file))
  BY <1>1, <1>2, Zenon
<1> QED
  BY <1>3 DEF E

LEMMA RegionFacts ==
    ASSUME NEW C, NEW file \in Seq(C)
    PROVE  /\ Region(file)[0] = "code"
           /\ \A k \in 1 .. Len(file) :
                 Region(file)[k] = NextRegion(Region(file)[k - 1], file[k])
<1> DEFINE R == Region(file)
<1>1. R = [k \in 0 .. Len(file) |-> IF k = 0 THEN "code" ELSE NextRegion(R[k - 1], file[k])]
  BY RegionIs
<1> HIDE DEF R
<1>2. 0 \in 0 .. Len(file) /\ \A k \in 1 .. Len(file) : k \in 0 .. Len(file) /\ k # 0
  OBVIOUS
<1>3. R[0] = "code" /\ \A k \in 1 .. Len(file) : R[k] = NextRegion(R[k - 1], file[k])
  BY <1>1, <1>2
<1> QED
  BY <1>3 DEF R

LEMMA RunesAtIs ==
    ASSUME NEW C, NEW file \in Seq(C), NEW at
    PROVE  RunesAt(file, at) = [k \in 0 .. Len(file) |->
              IF k = 0 THEN <<>>
              ELSE IF k \in at THEN Append(RunesAt(file, at)[k - 1], file[k])
                   ELSE RunesAt(file, at)[k - 1]]
<1> DEFINE D == 0 .. Len(file)
           E(g) == [k \in D |->
                      IF k = 0 THEN <<>>
                      ELSE IF k \in at THEN Append(g[k - 1], file[k]) ELSE g[k - 1]]
           F == [g \in [D -> Seq(C)] |-> E(g)]
<1>1. RunesAt(file, at) = CHOOSE g : g = E(g)
  BY DEF RunesAt
<1>2. \E g : g = E(g)
  <2>1. F \in [[D -> Seq(C)] -> [D -> Seq(C)]]
    <3>1. ASSUME NEW g \in [D -> Seq(C)], NEW k \in D
          PROVE  E(g)[k] \in Seq(C)
      <4>1. CASE k = 0
        BY <4>1
      <4>2. CASE k # 0
        <5>1. k - 1 \in D /\ k \in 1 .. Len(file)
          BY <4>2
        <5>2. g[k - 1] \in Seq(C) /\ file[k] \in C
          BY <5>1
        <5> QED
          BY <4>2, <5>2
      <4> QED
        BY <4>1, <4>2
    <3> QED
      BY <3>1
  <2>2. ASSUME NEW g \in [D -> Seq(C)], NEW h \in [D -> Seq(C)], NEW d \in D,
               d > 0 => g[d - 1] = h[d - 1]
        PROVE  F[g][d] = F[h][d]
    BY <2>2
  <2>3. Len(file) \in Nat /\ Seq(C) # {}
    <3>1. <<>> \in Seq(C)
      OBVIOUS
    <3> QED
      BY <3>1
  <2>4. SettledByLast(F, Len(file), Seq(C))
    BY <2>2 DEF SettledByLast
  <2> HIDE DEF F
  <2>5. HasFixedPoint(F, [D -> Seq(C)])
    BY <2>1, <2>3, <2>4, Chain
  <2> QED
    BY <2>5 DEF HasFixedPoint, F
<1> HIDE DEF E
<1>3. RunesAt(file, at) = E(RunesAt(file, at))
  BY <1>1, <1>2, Zenon
<1> QED
  BY <1>3 DEF E

LEMMA RunesAtFacts ==
    ASSUME NEW C, NEW file \in Seq(C), NEW at
    PROVE  /\ RunesAt(file, at)[0] = <<>>
           /\ \A k \in 1 .. Len(file) :
                 RunesAt(file, at)[k] = IF k \in at THEN Append(RunesAt(file, at)[k - 1], file[k])
                                        ELSE RunesAt(file, at)[k - 1]
<1> DEFINE R == RunesAt(file, at)
<1>1. R = [k \in 0 .. Len(file) |->
              IF k = 0 THEN <<>>
              ELSE IF k \in at THEN Append(R[k - 1], file[k]) ELSE R[k - 1]]
  BY RunesAtIs
<1> HIDE DEF R
<1>2. 0 \in 0 .. Len(file) /\ \A k \in 1 .. Len(file) : k \in 0 .. Len(file) /\ k # 0
  OBVIOUS
<1>3. /\ R[0] = <<>>
      /\ \A k \in 1 .. Len(file) :
            R[k] = IF k \in at THEN Append(R[k - 1], file[k]) ELSE R[k - 1]
  BY <1>1, <1>2
<1> QED
  BY <1>3 DEF R

LEMMA RunesAtType ==
    ASSUME NEW C, NEW file \in Seq(C), NEW at
    PROVE  \A k \in 0 .. Len(file) : RunesAt(file, at)[k] \in Seq(C)
<1> DEFINE R == RunesAt(file, at)
           S == {k \in Nat : k <= Len(file) => R[k] \in Seq(C)}
<1>1. /\ R[0] = <<>>
      /\ \A k \in 1 .. Len(file) :
            R[k] = IF k \in at THEN Append(R[k - 1], file[k]) ELSE R[k - 1]
  BY RunesAtFacts
<1> HIDE DEF R
<1>2. 0 \in S
  <2>1. <<>> \in Seq(C)
    OBVIOUS
  <2> QED
    BY <1>1, <2>1
<1>3. ASSUME NEW k \in S
      PROVE  k + 1 \in S
  <2>1. SUFFICES ASSUME k + 1 <= Len(file)
                 PROVE  R[k + 1] \in Seq(C)
    OBVIOUS
  <2>2. R[k] \in Seq(C) /\ k + 1 \in 1 .. Len(file) /\ (k + 1) - 1 = k
    BY <2>1
  <2>3. Append(R[k], file[k + 1]) \in Seq(C)
    BY <2>2
  <2>4. R[k + 1] \in {Append(R[k], file[k + 1]), R[k]}
    BY <1>1, <2>2
  <2> QED
    BY <2>2, <2>3, <2>4
<1>4. S = Nat
  <2> HIDE DEF S
  <2>1. S \in SUBSET Nat
    BY DEF S
  <2> QED
    BY <1>2, <1>3, <2>1, Induction
<1>5. \A k \in 0 .. Len(file) : R[k] \in Seq(C)
  BY <1>4
<1> QED
  BY <1>5 DEF R

\* Nothing is taken where there is no position.
LEMMA RunesAtNone ==
    ASSUME NEW C, NEW file \in Seq(C), NEW at, NEW n \in 0 .. Len(file),
           \A k \in 1 .. n : k \notin at
    PROVE  RunesAt(file, at)[n] = <<>>
<1> DEFINE R == RunesAt(file, at)
           S == {k \in Nat : k <= n => R[k] = <<>>}
<1>1. /\ R[0] = <<>>
      /\ \A k \in 1 .. Len(file) :
            R[k] = IF k \in at THEN Append(R[k - 1], file[k]) ELSE R[k - 1]
  BY RunesAtFacts
<1> HIDE DEF R
<1>2. 0 \in S
  BY <1>1
<1>3. ASSUME NEW k \in S
      PROVE  k + 1 \in S
  <2>1. SUFFICES ASSUME k + 1 <= n
                 PROVE  R[k + 1] = <<>>
    OBVIOUS
  <2>2. R[k] = <<>> /\ k + 1 \in 1 .. Len(file) /\ (k + 1) - 1 = k /\ k + 1 \notin at
    BY <2>1
  <2> QED
    BY <1>1, <2>2
<1>4. S = Nat
  <2> HIDE DEF S
  <2>1. S \in SUBSET Nat
    BY DEF S
  <2> QED
    BY <1>2, <1>3, <2>1, Induction
<1>5. R[n] = <<>>
  BY <1>4
<1> QED
  BY <1>5 DEF R

LEMMA PiecesIs ==
    ASSUME NEW C, NEW file \in Seq(C)
    PROVE  Pieces(file) = [e \in 0 .. Len(file) + 1 |->
              IF e = 0 THEN <<>>
              ELSE IF /\ e \in Separators(file) \cup {Len(file) + 1}
                      /\ TrimSpace(Piece(file, e)) # <<>>
                   THEN Append(Pieces(file)[e - 1], TrimSpace(Piece(file, e)))
                   ELSE Pieces(file)[e - 1]]
<1> DEFINE D == 0 .. Len(file) + 1
           ends == Separators(file) \cup {Len(file) + 1}
           text(e) == TrimSpace(Piece(file, e))
           T == Seq({text(e) : e \in D})
           E(g) == [e \in D |->
                      IF e = 0 THEN <<>>
                      ELSE IF e \in ends /\ text(e) # <<>>
                           THEN Append(g[e - 1], text(e)) ELSE g[e - 1]]
           F == [g \in [D -> T] |-> E(g)]
<1>1. Pieces(file) = CHOOSE g : g = E(g)
  BY DEF Pieces
<1> HIDE DEF ends, text
<1>2. \E g : g = E(g)
  <2>1. F \in [[D -> T] -> [D -> T]]
    <3>1. ASSUME NEW g \in [D -> T], NEW e \in D
          PROVE  E(g)[e] \in T
      <4>1. CASE e = 0
        BY <4>1
      <4>2. CASE e # 0
        <5>1. e - 1 \in D
          BY <4>2
        <5>2. g[e - 1] \in T /\ text(e) \in {text(x) : x \in D}
          BY <5>1
        <5> QED
          BY <4>2, <5>2
      <4> QED
        BY <4>1, <4>2
    <3> QED
      BY <3>1
  <2>2. ASSUME NEW g \in [D -> T], NEW h \in [D -> T], NEW d \in D,
               d > 0 => g[d - 1] = h[d - 1]
        PROVE  F[g][d] = F[h][d]
    BY <2>2
  <2>3. Len(file) + 1 \in Nat /\ T # {}
    <3>1. <<>> \in T
      OBVIOUS
    <3> HIDE DEF T
    <3>2. T # {}
      BY <3>1
    <3> QED
      BY <3>2
  <2>4. SettledByLast(F, Len(file) + 1, T)
    BY <2>2 DEF SettledByLast
  <2> HIDE DEF F, T
  <2>5. HasFixedPoint(F, [D -> T])
    BY <2>1, <2>3, <2>4, Chain
  <2> QED
    BY <2>5 DEF HasFixedPoint, F
<1> HIDE DEF E
<1>3. Pieces(file) = E(Pieces(file))
  BY <1>1, <1>2, Zenon
<1> QED
  BY <1>3 DEF E, ends, text

LEMMA PiecesFacts ==
    ASSUME NEW C, NEW file \in Seq(C)
    PROVE  /\ Pieces(file)[0] = <<>>
           /\ \A e \in 1 .. Len(file) + 1 :
                 Pieces(file)[e] =
                    IF /\ e \in Separators(file) \cup {Len(file) + 1}
                       /\ TrimSpace(Piece(file, e)) # <<>>
                    THEN Append(Pieces(file)[e - 1], TrimSpace(Piece(file, e)))
                    ELSE Pieces(file)[e - 1]
<1> DEFINE P == Pieces(file)
           ends == Separators(file) \cup {Len(file) + 1}
           text(e) == TrimSpace(Piece(file, e))
<1>1. P = [e \in 0 .. Len(file) + 1 |->
              IF e = 0 THEN <<>>
              ELSE IF e \in ends /\ text(e) # <<>>
                   THEN Append(P[e - 1], text(e)) ELSE P[e - 1]]
  BY PiecesIs
<1> HIDE DEF P, ends, text
<1>2. 0 \in 0 .. Len(file) + 1
      /\ \A k \in 1 .. Len(file) + 1 : k \in 0 .. Len(file) + 1 /\ k # 0
  OBVIOUS
<1>3. /\ P[0] = <<>>
      /\ \A e \in 1 .. Len(file) + 1 :
            P[e] = IF e \in ends /\ text(e) # <<>> THEN Append(P[e - 1], text(e)) ELSE P[e - 1]
  BY <1>1, <1>2
<1> QED
  BY <1>3 DEF P, ends, text
-----------------------------------------------------------------------------
\* What stands before a position, from what stands before the position in front of it.
LEMMA FirstPiece ==
    ASSUME NEW C, NEW file \in Seq(C)
    PROVE  Piece(file, 1) = <<>> /\ Pieces(file)[0] = <<>>
BY RunesAtFacts, PiecesFacts DEF Piece

LEMMA PieceType ==
    ASSUME NEW C, NEW file \in Seq(C), NEW e \in 1 .. Len(file) + 1
    PROVE  Piece(file, e) \in Seq(C)
<1>1. e - 1 \in 0 .. Len(file)
  OBVIOUS
<1> QED
  BY <1>1, RunesAtType DEF Piece

LEMMA Positions ==
    ASSUME NEW C, NEW file \in Seq(C)
    PROVE  /\ DOMAIN file = 1 .. Len(file)
           /\ Separators(file) \subseteq 1 .. Len(file)
           /\ Comments(file) \subseteq 1 .. Len(file)
<1>1. DOMAIN file = 1 .. Len(file)
  OBVIOUS
<1>2. Separators(file) \subseteq DOMAIN file /\ Comments(file) \subseteq DOMAIN file
  BY Zenon DEF Separators, Comments
<1> QED
  BY <1>1, <1>2

Open(file, e) ==
    {k \in DOMAIN file \ Comments(file) : \A s \in Separators(file) : s < e => s < k}

LEMMA NoSeparator ==
    ASSUME NEW C, NEW file \in Seq(C), NEW k \in 1 .. Len(file), k \notin Separators(file)
    PROVE  /\ Pieces(file)[k] = Pieces(file)[k - 1]
           /\ Piece(file, k + 1) = IF k \in Comments(file) THEN Piece(file, k)
                                   ELSE Append(Piece(file, k), file[k])
<1>1. k \in 1 .. Len(file) + 1 /\ k # Len(file) + 1
  OBVIOUS
<1>2. Pieces(file)[k] = Pieces(file)[k - 1]
  BY <1>1, PiecesFacts
<1>3. Separators(file) \subseteq 1 .. Len(file)
  BY Positions
<1>4. Open(file, k + 1) = Open(file, k)
  BY <1>3 DEF Open
<1>5. k \in Open(file, k) <=> k \notin Comments(file)
  BY <1>3 DEF Open
<1>6. /\ Piece(file, k) = RunesAt(file, Open(file, k))[k - 1]
      /\ Piece(file, k + 1) = RunesAt(file, Open(file, k))[k]
  <2>1. (k + 1) - 1 = k
    OBVIOUS
  <2>2. Piece(file, k + 1) = RunesAt(file, Open(file, k + 1))[(k + 1) - 1]
    BY DEF Piece, Open
  <2> QED
    BY <1>4, <2>1, <2>2 DEF Piece, Open
<1>7. RunesAt(file, Open(file, k))[k] =
         IF k \in Open(file, k) THEN Append(RunesAt(file, Open(file, k))[k - 1], file[k])
         ELSE RunesAt(file, Open(file, k))[k - 1]
  BY RunesAtFacts
<1> QED
  BY <1>2, <1>5, <1>6, <1>7

LEMMA AtSeparator ==
    ASSUME NEW C, NEW file \in Seq(C), NEW k \in 1 .. Len(file), k \in Separators(file)
    PROVE  /\ Pieces(file)[k] = IF TrimSpace(Piece(file, k)) = <<>> THEN Pieces(file)[k - 1]
                                ELSE Append(Pieces(file)[k - 1], TrimSpace(Piece(file, k)))
           /\ Piece(file, k + 1) = <<>>
<1>1. k \in 1 .. Len(file) + 1
  OBVIOUS
<1>2. Pieces(file)[k] = IF TrimSpace(Piece(file, k)) = <<>> THEN Pieces(file)[k - 1]
                        ELSE Append(Pieces(file)[k - 1], TrimSpace(Piece(file, k)))
  BY <1>1, PiecesFacts
<1>3. \A x \in 1 .. k : x \notin Open(file, k + 1)
  BY DEF Open
<1>4. RunesAt(file, Open(file, k + 1))[k] = <<>>
  BY <1>3, RunesAtNone
<1>5. Piece(file, k + 1) = <<>>
  <2>1. (k + 1) - 1 = k
    OBVIOUS
  <2>2. Piece(file, k + 1) = RunesAt(file, Open(file, k + 1))[(k + 1) - 1]
    BY DEF Piece, Open
  <2> QED
    BY <1>4, <2>1, <2>2
<1> QED
  BY <1>2, <1>5

LEMMA AtTheEnd ==
    ASSUME NEW C, NEW file \in Seq(C)
    PROVE  LET e == Len(file) + 1
           IN  Statements(file) = IF TrimSpace(Piece(file, e)) = <<>> THEN Pieces(file)[e - 1]
                                  ELSE Append(Pieces(file)[e - 1], TrimSpace(Piece(file, e)))
<1> DEFINE e == Len(file) + 1
<1>1. e \in 1 .. Len(file) + 1 /\ e \in Separators(file) \cup {Len(file) + 1}
  OBVIOUS
<1>2. Pieces(file)[e] = IF TrimSpace(Piece(file, e)) = <<>> THEN Pieces(file)[e - 1]
                        ELSE Append(Pieces(file)[e - 1], TrimSpace(Piece(file, e)))
  BY <1>1, PiecesFacts
<1> QED
  BY <1>2 DEF Statements
-----------------------------------------------------------------------------
(***************************************************************************)
(* The loop of splitStatements.  Its memory says where the last rune that  *)
(* it has dealt with stands; a dash it has taken is not the first of two.  *)
(***************************************************************************)
Memory(file, k, collected, found, str, cmt) ==
    LET before == Region(file)[k - 1]
    IN  /\ k \in 1 .. Len(file) + 1
        /\ collected = Piece(file, k)
        /\ found = Pieces(file)[k - 1]
        /\ str \in BOOLEAN /\ cmt \in BOOLEAN
        /\ before \in Regions
        /\ cmt <=> before = "comment"
        /\ str <=> before = "literal"
        /\ before = "dash" /\ k <= Len(file) => file[k] # "-"

\* (Kept apart, for Zenon: the SMT backend cannot read this character.)
IsSemicolon(rune) == rune = ";"

SplitInv ==
    task.call = "split" =>
       /\ task.text \in Seq(FileChars)
       /\ answer = "running" => Memory(task.text, i, cur, out, inStr, inLnCmt)
       /\ answer = "done" => out = Statements(task.text)

\* One rune further, when it is kept ...
LEMMA Kept ==
    ASSUME NEW C, NEW file \in Seq(C), NEW k \in 1 .. Len(file), NEW found,
           Memory(file, k, Piece(file, k), found, FALSE, FALSE)
           \/ Memory(file, k, Piece(file, k), found, TRUE, FALSE)
           \/ Memory(file, k, Piece(file, k), found, FALSE, TRUE),
           k \notin Separators(file), k \notin Comments(file),
           NEW str \in BOOLEAN,
           str <=> Region(file)[k] = "literal",
           Region(file)[k] \in Regions \ {"comment"},
           Region(file)[k] = "dash" /\ k < Len(file) => file[k + 1] # "-"
    PROVE  Memory(file, k + 1, Append(Piece(file, k), file[k]), found, str, FALSE)
<1>1. found = Pieces(file)[k - 1] /\ (k + 1) - 1 = k /\ k + 1 \in 1 .. Len(file) + 1
  BY DEF Memory
<1>2. found = Pieces(file)[k] /\ Append(Piece(file, k), file[k]) = Piece(file, k + 1)
  BY <1>1, NoSeparator
<1> QED
  BY <1>1, <1>2 DEF Memory

\* ... and when it belongs to a comment.
LEMMA Skipped ==
    ASSUME NEW C, NEW file \in Seq(C), NEW k \in 1 .. Len(file),
           k \in Comments(file), k \notin Separators(file), Region(file)[k] = "comment"
    PROVE  Memory(file, k + 1, Piece(file, k), Pieces(file)[k - 1], FALSE, TRUE)
<1>1. (k + 1) - 1 = k /\ k + 1 \in 1 .. Len(file) + 1
  OBVIOUS
<1>2. Pieces(file)[k - 1] = Pieces(file)[k] /\ Piece(file, k) = Piece(file, k + 1)
  BY NoSeparator
<1> QED
  BY <1>1, <1>2 DEF Memory, Regions
-----------------------------------------------------------------------------
LEMMA CommentAdvances ==
    ASSUME NEW C, NEW file \in Seq(C), NEW k \in 1 .. Len(file), NEW c, NEW o,
           Memory(file, k, c, o, FALSE, TRUE)
    PROVE  Memory(file, k + 1, IF file[k] = "\n" THEN Append(c, file[k]) ELSE c, o, FALSE,
                  file[k] # "\n")
<1>1. c = Piece(file, k) /\ o = Pieces(file)[k - 1] /\ Region(file)[k - 1] = "comment"
  BY DEF Memory
<1>2. Region(file)[k] = IF file[k] = "\n" THEN "code" ELSE "comment"
  BY <1>1, RegionFacts DEF NextRegion
<1>3. k \in DOMAIN file
  OBVIOUS
<1>4. CASE file[k] = "\n"
  <2>1. k \notin Separators(file) /\ k \notin Comments(file)
    BY <1>2, <1>4, Zenon DEF Separators, Comments
  <2> QED
    BY <1>1, <1>2, <1>4, <2>1, Kept DEF Regions
<1>5. CASE file[k] # "\n"
  <2>1. k \notin Separators(file) /\ k \in Comments(file)
    BY <1>2, <1>3, <1>5, Zenon DEF Separators, Comments
  <2> QED
    BY <1>1, <1>2, <1>5, <2>1, Skipped
<1> QED
  BY <1>4, <1>5

LEMMA LiteralAdvances ==
    ASSUME NEW C, NEW file \in Seq(C), NEW k \in 1 .. Len(file), NEW c, NEW o,
           Memory(file, k, c, o, TRUE, FALSE)
    PROVE  /\ file[k] # "'" => Memory(file, k + 1, Append(c, file[k]), o, TRUE, FALSE)
           /\ file[k] = "'" => Memory(file, k + 1, Append(c, file[k]), o, FALSE, FALSE)
<1>1. c = Piece(file, k) /\ o = Pieces(file)[k - 1] /\ Region(file)[k - 1] = "literal"
  BY DEF Memory
<1>2. Region(file)[k] = IF file[k] = "'" THEN "code" ELSE "literal"
  BY <1>1, RegionFacts DEF NextRegion
<1>3. k \notin Separators(file) /\ k \notin Comments(file)
  <2>1. CASE file[k] = "'"
    BY <1>2, <2>1, Zenon DEF Separators, Comments
  <2>2. CASE file[k] # "'"
    BY <1>2, <2>2, Zenon DEF Separators, Comments
  <2> QED
    BY <2>1, <2>2
<1> QED
  BY <1>1, <1>2, <1>3, Kept DEF Regions

LEMMA QuoteAdvances ==
    ASSUME NEW C, NEW file \in Seq(C), NEW k \in 1 .. Len(file), NEW c, NEW o,
           Memory(file, k, c, o, FALSE, FALSE), file[k] = "'"
    PROVE  Memory(file, k + 1, Append(c, "'"), o, TRUE, FALSE)
<1>1. c = Piece(file, k) /\ o = Pieces(file)[k - 1]
      /\ Region(file)[k - 1] \in {"code", "dash"}
  BY DEF Memory, Regions
<1>2. Region(file)[k] = "literal"
  BY <1>1, RegionFacts DEF NextRegion
<1>3. k \notin Separators(file) /\ k \notin Comments(file)
  BY <1>2, Zenon DEF Separators, Comments
<1> QED
  BY <1>1, <1>2, <1>3, Kept DEF Regions

LEMMA CodeAdvances ==
    ASSUME NEW C, NEW file \in Seq(C), NEW k \in 1 .. Len(file), NEW c, NEW o,
           Memory(file, k, c, o, FALSE, FALSE), file[k] # "'", ~ IsSemicolon(file[k]),
           ~ (file[k] = "-" /\ k < Len(file) /\ file[k + 1] = "-")
    PROVE  Memory(file, k + 1, Append(c, file[k]), o, FALSE, FALSE)
<1>1. /\ c = Piece(file, k) /\ o = Pieces(file)[k - 1]
      /\ Region(file)[k - 1] \in {"code", "dash"}
      /\ Region(file)[k - 1] = "dash" => file[k] # "-"
  <2>1. k <= Len(file)
    OBVIOUS
  <2> QED
    BY <2>1, Zenon DEF Memory, Regions
<1>2. Region(file)[k] = IF file[k] = "-" THEN "dash" ELSE "code"
  BY <1>1, RegionFacts DEF NextRegion
<1>3. k \notin Separators(file)
  BY Zenon DEF Separators, IsSemicolon
<1>4. k < Len(file) /\ Region(file)[k] = "dash" => Region(file)[k + 1] # "comment"
  <2> SUFFICES ASSUME k < Len(file), Region(file)[k] = "dash"
               PROVE  Region(file)[k + 1] # "comment"
    OBVIOUS
  <2>1. k + 1 \in 1 .. Len(file) /\ (k + 1) - 1 = k /\ file[k + 1] # "-"
    BY <1>2
  <2>2. Region(file)[k + 1] = NextRegion("dash", file[k + 1])
    BY <2>1, RegionFacts
  <2> QED
    BY <2>1, <2>2 DEF NextRegion
<1>5. k \notin Comments(file)
  BY <1>2, <1>4 DEF Comments
<1>6. Region(file)[k] = "dash" /\ k < Len(file) => file[k + 1] # "-"
  BY <1>2
<1> QED
  BY <1>1, <1>2, <1>3, <1>5, <1>6, Kept DEF Regions

LEMMA CommentOpens ==
    ASSUME NEW C, NEW file \in Seq(C), NEW k \in 1 .. Len(file), NEW c, NEW o,
           Memory(file, k, c, o, FALSE, FALSE),
           file[k] = "-", k < Len(file), file[k + 1] = "-"
    PROVE  Memory(file, k + 2, c, o, FALSE, TRUE)
<1>1. /\ c = Piece(file, k) /\ o = Pieces(file)[k - 1]
      /\ Region(file)[k - 1] = "code"
  BY DEF Memory, Regions
<1>2. Region(file)[k] = "dash"
  BY <1>1, RegionFacts DEF NextRegion
<1>3. k + 1 \in 1 .. Len(file) /\ (k + 1) - 1 = k /\ (k + 1) + 1 = k + 2
  OBVIOUS
<1>4. Region(file)[k + 1] = "comment"
  <2>1. Region(file)[k + 1] = NextRegion(Region(file)[(k + 1) - 1], file[k + 1])
    BY <1>3, RegionFacts
  <2> QED
    BY <1>2, <1>3, <2>1 DEF NextRegion
<1>5. /\ k \notin Separators(file) /\ k + 1 \notin Separators(file)
      /\ k \in Comments(file) /\ k + 1 \in Comments(file)
  <2>1. k \in DOMAIN file /\ k + 1 \in DOMAIN file
    BY <1>3
  <2>2. k \notin Separators(file) /\ k + 1 \notin Separators(file)
    BY <1>2, <1>4, Zenon DEF Separators
  <2> QED
    BY <1>2, <1>4, <2>1, <2>2, Zenon DEF Comments
<1>6. Piece(file, k + 1) = Piece(file, k) /\ Pieces(file)[k] = Pieces(file)[k - 1]
  BY <1>5, NoSeparator
<1>7. Memory(file, (k + 1) + 1, Piece(file, k + 1), Pieces(file)[(k + 1) - 1], FALSE, TRUE)
  BY <1>3, <1>4, <1>5, Skipped
<1> QED
  BY <1>1, <1>3, <1>6, <1>7

LEMMA StatementEnds ==
    ASSUME NEW C, NEW file \in Seq(C), NEW k \in 1 .. Len(file), NEW c, NEW o,
           Memory(file, k, c, o, FALSE, FALSE), IsSemicolon(file[k])
    PROVE  Memory(file, k + 1, <<>>,
                  IF TrimSpace(c) = <<>> THEN o ELSE Append(o, TrimSpace(c)), FALSE, FALSE)
<1>1. /\ c = Piece(file, k) /\ o = Pieces(file)[k - 1]
      /\ Region(file)[k - 1] \in {"code", "dash"}
  BY DEF Memory, Regions
<1>2. Region(file)[k] = "code"
  <2>1. Region(file)[k] = NextRegion(Region(file)[k - 1], file[k])
    BY RegionFacts
  <2>2. file[k] # "'" /\ file[k] # "-"
    BY Zenon DEF IsSemicolon
  <2> QED
    BY <1>1, <2>1, <2>2 DEF NextRegion
<1>3. k \in Separators(file)
  <2>1. k \in DOMAIN file
    OBVIOUS
  <2> QED
    BY <1>1, <1>2, <2>1, Zenon DEF Separators, IsSemicolon
<1>4. (k + 1) - 1 = k /\ k + 1 \in 1 .. Len(file) + 1
  OBVIOUS
<1> QED
  BY <1>1, <1>2, <1>3, <1>4, AtSeparator DEF Memory, Regions
-----------------------------------------------------------------------------
Loop == Memory(task.text, i, cur, out, inStr, inLnCmt)

LEMMA LoopStands ==
    ASSUME SplitInv, Splitting
    PROVE  /\ task.text \in Seq(FileChars) /\ Loop /\ i \in 1 .. Len(task.text)
           /\ inStr \in BOOLEAN /\ inLnCmt \in BOOLEAN /\ ~ (inStr /\ inLnCmt)
BY DEF SplitInv, Splitting, Loop, Memory

LEMMA InCommentStep == ASSUME SplitInv, InComment PROVE SplitInv'
<1>1. /\ task.text \in Seq(FileChars) /\ Loop /\ i \in 1 .. Len(task.text)
      /\ inLnCmt = TRUE /\ inStr = FALSE /\ task' = task /\ answer' = "running"
  BY LoopStands DEF InComment, Splitting
<1>2. Memory(task.text, i + 1,
             IF task.text[i] = "\n" THEN Append(cur, task.text[i]) ELSE cur,
             out, FALSE, task.text[i] # "\n")
  BY <1>1, CommentAdvances DEF Loop
<1>3. Memory(task.text, i', cur', out', inStr', inLnCmt')
  BY <1>1, <1>2 DEF InComment, Rune
<1> QED
  BY <1>1, <1>3 DEF SplitInv

LEMMA InStringStep == ASSUME SplitInv, InString PROVE SplitInv'
<1>1. /\ task.text \in Seq(FileChars) /\ Loop /\ i \in 1 .. Len(task.text)
      /\ inLnCmt = FALSE /\ inStr = TRUE /\ task' = task /\ answer' = "running"
      /\ out' = out /\ inLnCmt' = FALSE
  BY LoopStands DEF InString, Splitting
<1>2. /\ task.text[i] # "'" => Memory(task.text, i + 1, Append(cur, task.text[i]), out, TRUE, FALSE)
      /\ task.text[i] = "'" => Memory(task.text, i + 1, Append(cur, task.text[i]), out, FALSE, FALSE)
  BY <1>1, LiteralAdvances DEF Loop
<1>3. CASE task.text[i] = "'" /\ i < Len(task.text) /\ task.text[i + 1] = "'"
  <2>1. inStr' = TRUE /\ cur' = cur \o <<"'", "'">> /\ i' = i + 2
    BY <1>3 DEF InString, Rune, NextIs
  <2>2. i + 1 \in 1 .. Len(task.text)
    BY <1>1, <1>3
  <2>3. Memory(task.text, (i + 1) + 1, Append(Append(cur, task.text[i]), "'"), out, TRUE, FALSE)
    BY <1>1, <1>2, <1>3, <2>2, QuoteAdvances
  <2>4. Append(Append(cur, task.text[i]), "'") = cur'
    <3>1. cur \in Seq(FileChars)
      BY <1>1, PieceType DEF Loop, Memory
    <3> QED
      BY <1>3, <2>1, <3>1
  <2>5. (i + 1) + 1 = i'
    BY <1>1, <2>1
  <2>6. Memory(task.text, i', cur', out', inStr', inLnCmt')
    BY <1>1, <2>1, <2>3, <2>4, <2>5
  <2> QED
    BY <1>1, <2>6 DEF SplitInv
<1>4. CASE ~ (task.text[i] = "'" /\ i < Len(task.text) /\ task.text[i + 1] = "'")
  <2>1. inStr' = (task.text[i] # "'") /\ cur' = Append(cur, task.text[i]) /\ i' = i + 1
    BY <1>4 DEF InString, Rune, NextIs
  <2>2. Memory(task.text, i', cur', out', inStr', inLnCmt')
    BY <1>1, <1>2, <2>1
  <2> QED
    BY <1>1, <2>2 DEF SplitInv
<1> QED
  BY <1>3, <1>4

LEMMA StartCommentStep == ASSUME SplitInv, StartComment PROVE SplitInv'
<1>1. /\ task.text \in Seq(FileChars) /\ Loop /\ i \in 1 .. Len(task.text)
      /\ inLnCmt = FALSE /\ inStr = FALSE /\ task' = task /\ answer' = "running"
  BY LoopStands DEF StartComment, InCode, Splitting
<1>2. task.text[i] = "-" /\ i < Len(task.text) /\ task.text[i + 1] = "-"
  BY DEF StartComment, Rune, NextIs
<1>3. Memory(task.text, i + 2, cur, out, FALSE, TRUE)
  BY <1>1, <1>2, CommentOpens DEF Loop
<1>4. Memory(task.text, i', cur', out', inStr', inLnCmt')
  BY <1>1, <1>3 DEF StartComment
<1> QED
  BY <1>1, <1>4 DEF SplitInv

LEMMA EndStatementStep == ASSUME SplitInv, EndStatement PROVE SplitInv'
<1>1. /\ task.text \in Seq(FileChars) /\ Loop /\ i \in 1 .. Len(task.text)
      /\ inLnCmt = FALSE /\ inStr = FALSE /\ task' = task /\ answer' = "running"
      /\ IsSemicolon(task.text[i])
      /\ out' = WithStatement /\ cur' = <<>> /\ i' = i + 1
      /\ inStr' = inStr /\ inLnCmt' = inLnCmt
  <2>1. /\ InCode /\ IsSemicolon(Rune) /\ task' = task /\ answer' = answer
        /\ out' = WithStatement /\ cur' = <<>> /\ i' = i + 1
        /\ inStr' = inStr /\ inLnCmt' = inLnCmt
    BY Zenon DEF EndStatement, IsSemicolon
  <2> HIDE DEF EndStatement
  <2> QED
    BY <2>1, LoopStands DEF InCode, Splitting, Rune
<1>2. Memory(task.text, i + 1, <<>>,
             IF TrimSpace(cur) = <<>> THEN out ELSE Append(out, TrimSpace(cur)), FALSE, FALSE)
  BY <1>1, StatementEnds DEF Loop
<1>3. Memory(task.text, i', cur', out', inStr', inLnCmt')
  BY <1>1, <1>2 DEF WithStatement
<1> QED
  BY <1>1, <1>3 DEF SplitInv

LEMMA TakeStep == ASSUME SplitInv, Take PROVE SplitInv'
<1>1. /\ task.text \in Seq(FileChars) /\ Loop /\ i \in 1 .. Len(task.text)
      /\ inLnCmt = FALSE /\ inStr = FALSE /\ task' = task /\ answer' = "running"
  <2>1. InCode /\ task' = task /\ answer' = answer
    BY Zenon DEF Take
  <2> QED
    BY <2>1, LoopStands DEF InCode, Splitting
<1>2. /\ ~ IsSemicolon(task.text[i])
      /\ ~ (task.text[i] = "-" /\ i < Len(task.text) /\ task.text[i + 1] = "-")
      /\ inStr' = (task.text[i] = "'") /\ cur' = Append(cur, task.text[i]) /\ i' = i + 1
      /\ out' = out /\ inLnCmt' = inLnCmt
  BY Zenon DEF Take, Rune, NextIs, IsSemicolon
<1>3. CASE task.text[i] = "'"
  <2>1. Memory(task.text, i + 1, Append(cur, "'"), out, TRUE, FALSE)
    BY <1>1, <1>3, QuoteAdvances DEF Loop
  <2>2. Memory(task.text, i', cur', out', inStr', inLnCmt')
    BY <1>1, <1>2, <1>3, <2>1
  <2> QED
    BY <1>1, <2>2 DEF SplitInv
<1>4. CASE task.text[i] # "'"
  <2>1. Memory(task.text, i + 1, Append(cur, task.text[i]), out, FALSE, FALSE)
    BY <1>1, <1>2, <1>4, CodeAdvances DEF Loop
  <2>2. Memory(task.text, i', cur', out', inStr', inLnCmt')
    BY <1>1, <1>2, <1>4, <2>1
  <2> QED
    BY <1>1, <2>2 DEF SplitInv
<1> QED
  BY <1>3, <1>4

LEMMA EndOfFileStep == ASSUME SplitInv, EndOfFile PROVE SplitInv'
<1>1. /\ task.text \in Seq(FileChars) /\ Loop /\ i > Len(task.text)
      /\ task' = task /\ answer' = "done"
  BY DEF EndOfFile, SplitInv, Loop
<1>2. i = Len(task.text) + 1 /\ cur = Piece(task.text, i) /\ out = Pieces(task.text)[i - 1]
  BY <1>1 DEF Loop, Memory
<1>3. out' = Statements(task.text)
  BY <1>1, <1>2, AtTheEnd DEF EndOfFile, WithStatement
<1> QED
  BY <1>1, <1>3 DEF SplitInv
-----------------------------------------------------------------------------
LEMMA UptoIs ==
    ASSUME NEW chars, NEW n \in Nat, NEW s \in Upto(chars, n)
    PROVE  s \in Seq(chars)
<1>1. PICK k \in 0 .. n : s \in [1 .. k -> chars]
  BY DEF Upto
<1> QED
  BY <1>1

LEMMA InitSplit == Init => SplitInv
<1> SUFFICES ASSUME Init, task.call = "split"
             PROVE  /\ task.text \in Seq(FileChars)
                    /\ answer = "running" /\ Loop
  BY DEF SplitInv, Loop
<1>1. /\ i = 1 /\ cur = <<>> /\ out = <<>> /\ inStr = FALSE /\ inLnCmt = FALSE
      /\ answer = "running"
  BY DEF Init
<1>2. task.text \in Seq(FileChars)
  <2>1. PICK s \in Upto(FileChars, MaxFile) :
               task = [call |-> "split", text |-> s, with |-> <<>>]
    BY DEF Init
  <2> QED
    BY <2>1, UptoIs, TextsBounds
<1>3. Piece(task.text, 1) = <<>> /\ Pieces(task.text)[0] = <<>>
  BY <1>2, FirstPiece
<1>4. Region(task.text)[0] = "code"
  BY <1>2, RegionFacts
<1>5. 1 \in 1 .. Len(task.text) + 1 /\ 1 - 1 = 0
  BY <1>2
<1> QED
  BY <1>1, <1>2, <1>3, <1>4, <1>5 DEF Loop, Memory, Regions

LEMMA SplitStep == SplitInv /\ [Next]_textVars => SplitInv'
<1> SUFFICES ASSUME SplitInv, [Next]_textVars
             PROVE  SplitInv'
  OBVIOUS
<1>1. CASE UNCHANGED textVars
  BY <1>1 DEF SplitInv, textVars
<1>2. CASE Search
  <2>1. task' = task /\ task.call = "search"
    BY <1>2 DEF Search
  <2> QED
    BY <2>1 DEF SplitInv
<1>3. CASE Match
  <2>1. task' = task /\ task.call = "match"
    BY <1>3 DEF Match
  <2> QED
    BY <2>1 DEF SplitInv
<1> QED
  BY <1>1, <1>2, <1>3, InCommentStep, InStringStep, StartCommentStep, EndStatementStep,
     TakeStep, EndOfFileStep, Zenon DEF Next

\* splitStatements cuts every migration file, of any length, at the semicolons of its
\* code and nowhere else: Migrate executes the statements the file is written in.
THEOREM SplitsAtSemicolonsOfCodeCorrect == Spec => []SplitsAtSemicolonsOfCode
<1>1. SplitInv => SplitsAtSemicolonsOfCode
  BY DEF SplitInv, SplitsAtSemicolonsOfCode
<1> QED
  BY <1>1, InitSplit, SplitStep, PTL DEF Spec
-----------------------------------------------------------------------------
(***************************************************************************)
(* escapeLike and LIKE.                                                    *)
(***************************************************************************)
Wildcards    == {"\\", "%", "_"}
PatternChars == QueryChars \cup Wildcards

\* What Begins says of position k of the pattern, given what it says of the next two.
BeginsAt(p, s, from, k) ==
    IF k > Len(p) THEN {Len(s) + 1}
    ELSE CASE p[k] = "%"  -> {j \in 1 .. Len(s) + 1 : \E e \in from[k + 1] : j <= e}
           [] p[k] = "_"  -> {j \in 1 .. Len(s) : j + 1 \in from[k + 1]}
           [] p[k] = "\\" -> {j \in 1 .. Len(s) : /\ k < Len(p)
                                                 /\ Same(p[k + 1], s[j])
                                                 /\ j + 1 \in from[k + 2]}
           [] OTHER       -> {j \in 1 .. Len(s) : /\ Same(p[k], s[j])
                                                 /\ j + 1 \in from[k + 1]}

LEMMA BeginsIs ==
    ASSUME NEW p \in Seq(PatternChars), NEW s \in Seq(NameChars)
    PROVE  Begins(p, s) = [k \in 1 .. Len(p) + 1 |-> BeginsAt(p, s, Begins(p, s), k)]
<1> DEFINE K == 1 .. Len(p) + 1
           T == SUBSET (1 .. Len(s) + 1)
           E(g) == [k \in K |-> BeginsAt(p, s, g, k)]
           F == [g \in [K -> T] |-> E(g)]
           measure == [k \in K |-> Len(p) + 1 - k]
<1>1. Begins(p, s) = CHOOSE g : g = E(g)
  BY Zenon DEF Begins, BeginsAt
<1>2. \E g : g = E(g)
  <2>1. F \in [[K -> T] -> [K -> T]]
    <3>1. ASSUME NEW g \in [K -> T], NEW k \in K
          PROVE  BeginsAt(p, s, g, k) \in T
      <4>1. {Len(s) + 1} \in T
        OBVIOUS
      <4>2. {j \in 1 .. Len(s) + 1 : \E e \in g[k + 1] : j <= e} \in T
        OBVIOUS
      <4>3. \A X : {j \in 1 .. Len(s) : j + 1 \in X} \in T
        OBVIOUS
      <4>4. {j \in 1 .. Len(s) : k < Len(p) /\ Same(p[k + 1], s[j]) /\ j + 1 \in g[k + 2]} \in T
        OBVIOUS
      <4>5. {j \in 1 .. Len(s) : Same(p[k], s[j]) /\ j + 1 \in g[k + 1]} \in T
        OBVIOUS
      <4> HIDE DEF T
      <4> QED
        BY <4>1, <4>2, <4>3, <4>4, <4>5 DEF BeginsAt
    <3> QED
      BY <3>1
  <2>2. ASSUME NEW g \in [K -> T], NEW h \in [K -> T], NEW k \in K,
               \A e \in K : measure[e] < measure[k] => g[e] = h[e]
        PROVE  F[g][k] = F[h][k]
    <3>1. k <= Len(p) => g[k + 1] = h[k + 1]
      <4> SUFFICES ASSUME k <= Len(p) PROVE g[k + 1] = h[k + 1]
        OBVIOUS
      <4>1. k + 1 \in K /\ measure[k + 1] < measure[k]
        OBVIOUS
      <4> QED
        BY <2>2, <4>1
    <3>2. k < Len(p) => g[k + 2] = h[k + 2]
      <4> SUFFICES ASSUME k < Len(p) PROVE g[k + 2] = h[k + 2]
        OBVIOUS
      <4>1. k + 2 \in K /\ measure[k + 2] < measure[k]
        OBVIOUS
      <4> QED
        BY <2>2, <4>1
    <3>3. BeginsAt(p, s, g, k) = BeginsAt(p, s, h, k)
      <4>1. k > Len(p) \/ (k <= Len(p) /\ ~ (k > Len(p)))
        OBVIOUS
      <4>2. CASE k > Len(p)
        BY <4>2 DEF BeginsAt
      <4>3. CASE k <= Len(p) /\ ~ (k > Len(p))
        <5>1. {j \in 1 .. Len(s) : k < Len(p) /\ Same(p[k + 1], s[j]) /\ j + 1 \in g[k + 2]}
              = {j \in 1 .. Len(s) : k < Len(p) /\ Same(p[k + 1], s[j]) /\ j + 1 \in h[k + 2]}
          BY <3>2
        <5> QED
          BY <3>1, <4>3, <5>1 DEF BeginsAt
      <4> QED
        BY <4>1, <4>2, <4>3
    <3> QED
      BY <3>3
  <2>3. /\ measure \in [K -> Nat] /\ Len(p) + 1 \in Nat
        /\ \A k \in K : measure[k] < Len(p) + 1
    OBVIOUS
  <2>4. T # {}
    OBVIOUS
  <2> HIDE DEF measure, F, K, T
  <2>5. SettledByLess(F, K, T, measure)
    BY <2>2 DEF SettledByLess
  <2>6. HasFixedPoint(F, [K -> T])
    BY <2>1, <2>3, <2>4, <2>5, FixedPoint
  <2> HIDE DEF E
  <2> QED
    BY <2>6 DEF HasFixedPoint, F
<1> HIDE DEF E
<1>3. Begins(p, s) = E(Begins(p, s))
  BY <1>1, <1>2, Zenon
<1> QED
  BY <1>3 DEF E

LEMMA BeginsIn ==
    ASSUME NEW p \in Seq(PatternChars), NEW s \in Seq(NameChars), NEW k \in 1 .. Len(p) + 1
    PROVE  Begins(p, s)[k] = BeginsAt(p, s, Begins(p, s), k)
<1> DEFINE B == Begins(p, s)
<1>1. B = [x \in 1 .. Len(p) + 1 |-> BeginsAt(p, s, B, x)]
  BY BeginsIs
<1> HIDE DEF B
<1>2. B[k] = BeginsAt(p, s, B, k)
  BY <1>1
<1> QED
  BY <1>2 DEF B

LEMMA BeginsAtTheEnd ==
    ASSUME NEW p \in Seq(PatternChars), NEW s \in Seq(NameChars)
    PROVE  Begins(p, s)[Len(p) + 1] = {Len(s) + 1}
<1>1. Len(p) + 1 \in 1 .. Len(p) + 1 /\ Len(p) + 1 > Len(p)
  OBVIOUS
<1>2. Begins(p, s)[Len(p) + 1] = BeginsAt(p, s, Begins(p, s), Len(p) + 1)
  BY <1>1, BeginsIn
<1> QED
  BY <1>1, <1>2, Zenon DEF BeginsAt

LEMMA BeginsInside ==
    ASSUME NEW p \in Seq(PatternChars), NEW s \in Seq(NameChars), NEW k \in 1 .. Len(p)
    PROVE  Begins(p, s)[k] = BeginsAt(p, s, Begins(p, s), k) /\ ~ (k > Len(p))
<1>1. k \in 1 .. Len(p) + 1 /\ ~ (k > Len(p))
  OBVIOUS
<1> QED
  BY <1>1, BeginsIn

\* Where in name the character c stands immediately before a position of X.
Before(c, name, X) == {j \in 1 .. Len(name) : Same(c, name[j]) /\ j + 1 \in X}

LEMMA BeginsAtPercent ==
    ASSUME NEW p \in Seq(PatternChars), NEW s \in Seq(NameChars), NEW k \in 1 .. Len(p), p[k] = "%"
    PROVE  Begins(p, s)[k] = {j \in 1 .. Len(s) + 1 : \E e \in Begins(p, s)[k + 1] : j <= e}
<1> DEFINE B == Begins(p, s)
<1>1. B[k] = BeginsAt(p, s, B, k) /\ ~ (k > Len(p))
  BY BeginsInside
<1> HIDE DEF B
<1>2. BeginsAt(p, s, B, k) = {j \in 1 .. Len(s) + 1 : \E e \in B[k + 1] : j <= e}
  BY <1>1 DEF BeginsAt
<1> QED
  BY <1>1, <1>2 DEF B

LEMMA BeginsAtBackslash ==
    ASSUME NEW p \in Seq(PatternChars), NEW s \in Seq(NameChars), NEW k \in 1 .. Len(p),
           p[k] = "\\", k < Len(p)
    PROVE  Begins(p, s)[k] = Before(p[k + 1], s, Begins(p, s)[k + 2])
<1> DEFINE B == Begins(p, s)
<1>1. B[k] = BeginsAt(p, s, B, k) /\ ~ (k > Len(p))
  BY BeginsInside
<1> HIDE DEF B
<1>2. p[k] # "%" /\ p[k] # "_"
  OBVIOUS
<1>3. BeginsAt(p, s, B, k) =
         {j \in 1 .. Len(s) : k < Len(p) /\ Same(p[k + 1], s[j]) /\ j + 1 \in B[k + 2]}
  BY <1>1, <1>2 DEF BeginsAt
<1>4. B[k] = Before(p[k + 1], s, B[k + 2])
  BY <1>1, <1>3 DEF Before
<1> QED
  BY <1>4 DEF B

LEMMA BeginsAtOther ==
    ASSUME NEW p \in Seq(PatternChars), NEW s \in Seq(NameChars), NEW k \in 1 .. Len(p),
           p[k] # "%", p[k] # "_", p[k] # "\\"
    PROVE  Begins(p, s)[k] = Before(p[k], s, Begins(p, s)[k + 1])
<1> DEFINE B == Begins(p, s)
<1>1. B[k] = BeginsAt(p, s, B, k) /\ ~ (k > Len(p))
  BY BeginsInside
<1> HIDE DEF B
<1>2. BeginsAt(p, s, B, k) = {j \in 1 .. Len(s) : Same(p[k], s[j]) /\ j + 1 \in B[k + 1]}
  BY <1>1 DEF BeginsAt
<1>3. B[k] = Before(p[k], s, B[k + 1])
  BY <1>1, <1>2 DEF Before
<1> QED
  BY <1>3 DEF B

\* What SequencesExt calls flatten: the concatenation of the first n sequences.
Flattened(seqs) ==
    LET flatten[m \in 1 .. Len(seqs)] ==
          IF m = 1 THEN seqs[m] ELSE flatten[m - 1] \o seqs[m]
    IN  flatten

LEMMA FlattenedIs ==
    ASSUME NEW C, NEW seqs \in Seq(Seq(C)), Len(seqs) >= 1
    PROVE  Flattened(seqs) = [m \in 1 .. Len(seqs) |->
              IF m = 1 THEN seqs[m] ELSE Flattened(seqs)[m - 1] \o seqs[m]]
<1> DEFINE K == 1 .. Len(seqs)
           V(g, m) == IF m = 1 THEN seqs[m] ELSE g[m - 1] \o seqs[m]
           E(g) == [m \in K |-> V(g, m)]
           F == [g \in [K -> Seq(C)] |-> E(g)]
           measure == [m \in K |-> m]
<1>1. Flattened(seqs) = CHOOSE g : g = E(g)
  BY DEF Flattened
<1>2. \E g : g = E(g)
  <2>1. F \in [[K -> Seq(C)] -> [K -> Seq(C)]]
    <3>1. ASSUME NEW g \in [K -> Seq(C)], NEW m \in K
          PROVE  V(g, m) \in Seq(C)
      <4>1. m # 1 => m - 1 \in K
        OBVIOUS
      <4>2. seqs[m] \in Seq(C)
        OBVIOUS
      <4>3. m # 1 => g[m - 1] \in Seq(C)
        <5> HIDE DEF K
        <5> QED
          BY <4>1
      <4> QED
        BY <4>2, <4>3
    <3> HIDE DEF V
    <3> QED
      BY <3>1
  <2>2. ASSUME NEW g \in [K -> Seq(C)], NEW h \in [K -> Seq(C)], NEW m \in K,
               \A e \in K : measure[e] < measure[m] => g[e] = h[e]
        PROVE  F[g][m] = F[h][m]
    <3>1. m # 1 => m - 1 \in K /\ measure[m - 1] < measure[m]
      OBVIOUS
    <3>2. m # 1 => g[m - 1] = h[m - 1]
      BY <2>2, <3>1
    <3>3. V(g, m) = V(h, m)
      BY <3>2
    <3> HIDE DEF V
    <3> QED
      BY <3>3
  <2>3. /\ measure \in [K -> Nat] /\ Len(seqs) + 1 \in Nat
        /\ \A m \in K : measure[m] < Len(seqs) + 1
    OBVIOUS
  <2>4. Seq(C) # {}
    <3>1. <<>> \in Seq(C)
      OBVIOUS
    <3> QED
      BY <3>1
  <2> HIDE DEF measure, F, K
  <2>5. SettledByLess(F, K, Seq(C), measure)
    BY <2>2 DEF SettledByLess
  <2>6. HasFixedPoint(F, [K -> Seq(C)])
    BY <2>1, <2>3, <2>4, <2>5, FixedPoint
  <2> HIDE DEF E
  <2> QED
    BY <2>6 DEF HasFixedPoint, F
<1> HIDE DEF E
<1>3. Flattened(seqs) = E(Flattened(seqs))
  BY <1>1, <1>2, Zenon
<1> QED
  BY <1>3 DEF E

LEMMA FlattenIs ==
    ASSUME NEW C, NEW seqs \in Seq(Seq(C)), Len(seqs) >= 1
    PROVE  LET flat == Flattened(seqs)
           IN  /\ FlattenSeq(seqs) = flat[Len(seqs)]
               /\ flat[1] = seqs[1]
               /\ \A m \in 2 .. Len(seqs) : flat[m] = flat[m - 1] \o seqs[m]
<1> DEFINE flat == Flattened(seqs)
<1>1. flat = [m \in 1 .. Len(seqs) |-> IF m = 1 THEN seqs[m] ELSE flat[m - 1] \o seqs[m]]
  BY FlattenedIs
<1>2. FlattenSeq(seqs) = flat[Len(seqs)]
  <2>1. Len(seqs) # 0
    OBVIOUS
  <2> QED
    BY <2>1, Zenon DEF FlattenSeq, Flattened
<1> HIDE DEF flat
<1>3. 1 \in 1 .. Len(seqs) /\ \A m \in 2 .. Len(seqs) : m \in 1 .. Len(seqs) /\ m # 1
  OBVIOUS
<1>4. flat[1] = seqs[1] /\ \A m \in 2 .. Len(seqs) : flat[m] = flat[m - 1] \o seqs[m]
  BY <1>1, <1>3
<1> QED
  BY <1>2, <1>4 DEF flat
-----------------------------------------------------------------------------
LEMMA EscapedIs ==
    ASSUME NEW c \in QueryChars
    PROVE  /\ Escaped(c) \in Seq(PatternChars)
           /\ c \in Wildcards => /\ Len(Escaped(c)) = 2
                                 /\ Escaped(c)[1] = "\\" /\ Escaped(c)[2] = c
           /\ c \notin Wildcards => Len(Escaped(c)) = 1 /\ Escaped(c)[1] = c
<1>1. CASE c \in Wildcards
  <2>1. Escaped(c) = <<"\\", c>>
    BY <1>1 DEF Escaped, Wildcards
  <2>2. "\\" \in PatternChars /\ c \in PatternChars
    BY DEF Wildcards, PatternChars
  <2>3. <<"\\", c>> \in Seq(PatternChars)
    BY <2>2
  <2> QED
    BY <1>1, <2>1, <2>3
<1>2. CASE c \notin Wildcards
  <2>1. Escaped(c) = <<c>>
    BY <1>2 DEF Escaped, Wildcards
  <2>2. c \in PatternChars
    BY DEF PatternChars
  <2>3. <<c>> \in Seq(PatternChars)
    BY <2>2
  <2> QED
    BY <1>2, <2>1, <2>3
<1> QED
  BY <1>1, <1>2

Starts(a, b) == Len(a) <= Len(b) /\ \A x \in 1 .. Len(a) : b[x] = a[x]

LEMMA ConcatStarts ==
    ASSUME NEW C, NEW a \in Seq(C), NEW b \in Seq(C)
    PROVE  Starts(a, a \o b)
BY DEF Starts

LEMMA StartsTwice ==
    ASSUME NEW C, NEW a \in Seq(C), NEW b \in Seq(C), NEW c \in Seq(C),
           Starts(a, b), Starts(b, c)
    PROVE  Starts(a, c)
BY DEF Starts

\* What is flattened first is in front.
LEMMA FlattenedStarts ==
    ASSUME NEW C, NEW seqs \in Seq(Seq(C)), Len(seqs) >= 1
    PROVE  LET flat == Flattened(seqs)
           IN  \A m \in 1 .. Len(seqs) :
                  flat[m] \in Seq(C) /\ Starts(flat[m], flat[Len(seqs)])
<1> DEFINE flat == Flattened(seqs)
           N == Len(seqs)
           S == {m \in Nat : 1 <= m /\ m <= N => flat[m] \in Seq(C)}
           U == {d \in Nat : d < N => Starts(flat[N - d], flat[N])}
<1>1. /\ flat[1] = seqs[1]
      /\ \A m \in 2 .. N : flat[m] = flat[m - 1] \o seqs[m]
  BY FlattenIs
<1>2. N \in Nat /\ N >= 1 /\ \A m \in 1 .. N : seqs[m] \in Seq(C)
  OBVIOUS
<1> HIDE DEF flat, N
<1>3. \A m \in 1 .. N : flat[m] \in Seq(C)
  <2>1. 0 \in S
    OBVIOUS
  <2>2. ASSUME NEW m \in S
        PROVE  m + 1 \in S
    <3>1. SUFFICES ASSUME m + 1 <= N
                   PROVE  flat[m + 1] \in Seq(C)
      OBVIOUS
    <3>2. CASE m = 0
      BY <1>1, <1>2, <3>2
    <3>3. CASE m # 0
      <4>1. m + 1 \in 2 .. N /\ (m + 1) - 1 = m
        BY <1>2, <3>1, <3>3
      <4>2. m + 1 \in 1 .. N
        BY <1>2, <4>1
      <4>3. flat[m] \in Seq(C)
        BY <1>2, <3>1, <3>3
      <4>4. seqs[m + 1] \in Seq(C)
        BY <1>2, <4>2
      <4>5. flat[m + 1] = flat[m] \o seqs[m + 1]
        BY <1>1, <4>1
      <4> QED
        BY <4>3, <4>4, <4>5
    <3> QED
      BY <3>2, <3>3
  <2>3. S = Nat
    <3> HIDE DEF S
    <3>1. S \in SUBSET Nat
      BY DEF S
    <3> QED
      BY <2>1, <2>2, <3>1, Induction
  <2> QED
    BY <2>3
<1>4. \A m \in 1 .. N : Starts(flat[m], flat[N])
  <2>1. 0 \in U
    <3>1. N - 0 = N /\ flat[N] \in Seq(C)
      BY <1>2, <1>3
    <3>2. Starts(flat[N], flat[N])
      BY <3>1 DEF Starts
    <3> QED
      BY <3>1, <3>2
  <2>2. ASSUME NEW d \in U
        PROVE  d + 1 \in U
    <3>1. SUFFICES ASSUME d + 1 < N
                   PROVE  Starts(flat[N - (d + 1)], flat[N])
      OBVIOUS
    <3> DEFINE m == N - (d + 1)
    <3>2. m \in 1 .. N /\ m + 1 \in 2 .. N /\ m + 1 \in 1 .. N /\ (m + 1) - 1 = m
          /\ m + 1 = N - d /\ d < N
      BY <1>2, <3>1
    <3> HIDE DEF m
    <3>3. flat[m + 1] = flat[m] \o seqs[m + 1]
      BY <1>1, <3>2
    <3>4. flat[m] \in Seq(C) /\ flat[m + 1] \in Seq(C) /\ seqs[m + 1] \in Seq(C)
          /\ flat[N] \in Seq(C)
      BY <1>2, <1>3, <3>2
    <3>5. Starts(flat[m], flat[m + 1])
      BY <3>3, <3>4, ConcatStarts
    <3>6. Starts(flat[m + 1], flat[N])
      BY <3>2
    <3>7. Starts(flat[m], flat[N])
      BY <3>4, <3>5, <3>6, StartsTwice
    <3> QED
      BY <3>7 DEF m
  <2>3. U = Nat
    <3> HIDE DEF U
    <3>1. U \in SUBSET Nat
      BY DEF U
    <3> QED
      BY <2>1, <2>2, <3>1, Induction
  <2>4. ASSUME NEW m \in 1 .. N
        PROVE  Starts(flat[m], flat[N])
    <3>1. N - m \in Nat /\ N - m < N /\ N - (N - m) = m
      BY <1>2
    <3>2. N - m \in U
      <4> HIDE DEF U
      <4> QED
        BY <2>3, <3>1
    <3> QED
      BY <3>1, <3>2
  <2> QED
    BY <2>4
<1> QED
  BY <1>3, <1>4 DEF flat, N

\* In the pattern p of s, the m-th character of s stands at q[m], behind a backslash if
\* it is a wildcard.
LaidOut(s, p, q) ==
    /\ p[1] = "%" /\ q[1] = 2
    /\ Len(p) = q[Len(s) + 1] /\ p[Len(p)] = "%"
    /\ \A m \in 1 .. Len(s) :
          /\ q[m] >= 2 /\ q[m + 1] <= Len(p)
          /\ s[m] \in Wildcards    => /\ q[m + 1] = q[m] + 2
                                     /\ p[q[m]] = "\\" /\ p[q[m] + 1] = s[m]
          /\ s[m] \notin Wildcards => q[m + 1] = q[m] + 1 /\ p[q[m]] = s[m]

LEMMA PatternIsLaidOut ==
    ASSUME NEW s \in Seq(QueryChars), Len(s) >= 1
    PROVE  /\ EscapeLike(s) \in Seq(PatternChars)
           /\ \E q \in [1 .. Len(s) + 1 -> Nat] : LaidOut(s, EscapeLike(s), q)
<1> DEFINE N == Len(s)
           seqs == [k \in DOMAIN s |-> Escaped(s[k])]
           flat == Flattened(seqs)
           p == EscapeLike(s)
           before(m) == IF m = 1 THEN 0 ELSE Len(flat[m - 1])
           q == [m \in 1 .. N + 1 |-> before(m) + 2]
<1>1. N \in Nat /\ N >= 1 /\ DOMAIN s = 1 .. N /\ \A m \in 1 .. N : s[m] \in QueryChars
  OBVIOUS
<1>2. seqs \in Seq(Seq(PatternChars)) /\ Len(seqs) = N /\ \A m \in 1 .. N : seqs[m] = Escaped(s[m])
  <2>1. \A m \in 1 .. N : Escaped(s[m]) \in Seq(PatternChars)
    BY <1>1, EscapedIs
  <2> HIDE DEF N
  <2>2. seqs = [m \in 1 .. N |-> Escaped(s[m])]
    BY <1>1
  <2> HIDE DEF seqs
  <2> QED
    BY <1>1, <2>1, <2>2
<1>3. p = (<<"%">> \o FlattenSeq(seqs)) \o <<"%">>
  BY DEF EscapeLike
<1> HIDE DEF N, seqs, p
<1>4. /\ FlattenSeq(seqs) = flat[N] /\ flat[1] = seqs[1]
      /\ \A m \in 2 .. N : flat[m] = flat[m - 1] \o seqs[m]
  BY <1>1, <1>2, FlattenIs
<1>5. \A m \in 1 .. N : flat[m] \in Seq(PatternChars) /\ Starts(flat[m], flat[N])
  BY <1>1, <1>2, FlattenedStarts
<1> HIDE DEF flat
<1>6. flat[N] \in Seq(PatternChars) /\ "%" \in PatternChars
  <2>1. N \in 1 .. N
    BY <1>1
  <2>2. flat[N] \in Seq(PatternChars)
    BY <1>5, <2>1
  <2> QED
    BY <2>2 DEF PatternChars, Wildcards
<1>7. /\ p \in Seq(PatternChars) /\ p[1] = "%" /\ Len(p) = Len(flat[N]) + 2 /\ p[Len(p)] = "%"
      /\ \A x \in 1 .. Len(flat[N]) : p[x + 1] = flat[N][x]
  <2> DEFINE f == flat[N]
  <2>1. p = (<<"%">> \o f) \o <<"%">> /\ f \in Seq(PatternChars)
    BY <1>3, <1>4, <1>6
  <2> HIDE DEF f
  <2>2. p \in Seq(PatternChars) /\ Len(p) = Len(f) + 2
    BY <1>6, <2>1
  <2>3. p[1] = "%" /\ p[Len(p)] = "%"
    BY <1>6, <2>1, <2>2
  <2>4. \A x \in 1 .. Len(f) : p[x + 1] = f[x]
    BY <1>6, <2>1, <2>2
  <2> QED
    BY <2>2, <2>3, <2>4 DEF f
<1>8. ASSUME NEW m \in 1 .. N
      PROVE  /\ before(m) \in Nat
             /\ Len(flat[m]) = before(m) + Len(seqs[m])
             /\ \A x \in 1 .. Len(seqs[m]) : flat[m][before(m) + x] = seqs[m][x]
  <2>1. seqs[m] \in Seq(PatternChars)
    BY <1>1, <1>2, EscapedIs DEF PatternChars
  <2>2. CASE m = 1
    BY <1>4, <2>1, <2>2
  <2>3. CASE m # 1
    <3>1. m \in 2 .. N /\ m - 1 \in 1 .. N
      BY <1>1, <2>3
    <3> DEFINE a == flat[m - 1]
               b == seqs[m]
    <3>2. a \in Seq(PatternChars) /\ b \in Seq(PatternChars) /\ flat[m] = a \o b /\ before(m) = Len(a)
      BY <1>4, <1>5, <2>1, <2>3, <3>1
    <3> HIDE DEF a, b, before
    <3>3. /\ Len(a) \in Nat /\ Len(a \o b) = Len(a) + Len(b)
          /\ \A x \in 1 .. Len(b) : (a \o b)[Len(a) + x] = b[x]
      BY <3>2
    <3> QED
      BY <3>2, <3>3 DEF b
  <2> QED
    BY <2>2, <2>3
<1>9. before(N + 1) = Len(flat[N])
  BY <1>1
<1>10. \A m \in 1 .. N : before(m + 1) = Len(flat[m])
  BY <1>1
<1> HIDE DEF before
<1>11. q \in [1 .. N + 1 -> Nat] /\ q[1] = 2 /\ Len(p) = q[N + 1]
  <2>1. before(1) = 0
    BY DEF before
  <2>2. \A m \in 1 .. N + 1 : before(m) \in Nat
    BY <1>1, <1>6, <1>8, <1>9
  <2> QED
    BY <1>1, <1>7, <1>9, <2>1, <2>2
<1>12. ASSUME NEW m \in 1 .. N
       PROVE  /\ q[m] >= 2 /\ q[m + 1] <= Len(p)
              /\ q[m + 1] = q[m] + Len(seqs[m])
              /\ \A x \in 1 .. Len(seqs[m]) : p[q[m] + x - 1] = seqs[m][x]
  <2>1. m \in 1 .. N + 1 /\ m + 1 \in 1 .. N + 1
    BY <1>1
  <2>2. q[m] = before(m) + 2 /\ q[m + 1] = Len(flat[m]) + 2
    BY <1>10, <2>1
  <2> HIDE DEF q
  <2>3. /\ before(m) \in Nat /\ Len(flat[m]) = before(m) + Len(seqs[m])
        /\ \A x \in 1 .. Len(seqs[m]) : flat[m][before(m) + x] = seqs[m][x]
    BY <1>8
  <2>4. Len(seqs[m]) \in Nat /\ Len(flat[m]) \in Nat /\ Len(flat[N]) \in Nat
    <3>1. seqs[m] \in Seq(PatternChars)
      BY <1>1, <1>2, EscapedIs DEF PatternChars
    <3> QED
      BY <1>5, <1>6, <3>1
  <2>5. /\ Len(flat[m]) <= Len(flat[N])
        /\ \A x \in 1 .. Len(flat[m]) : flat[N][x] = flat[m][x]
    BY <1>5 DEF Starts
  <2>6. ASSUME NEW x \in 1 .. Len(seqs[m])
        PROVE  p[q[m] + x - 1] = seqs[m][x]
    <3>1. before(m) + x \in 1 .. Len(flat[m]) /\ before(m) + x \in 1 .. Len(flat[N])
      BY <2>3, <2>4, <2>5
    <3>2. q[m] + x - 1 = (before(m) + x) + 1
      BY <2>2, <2>3
    <3>3. p[(before(m) + x) + 1] = flat[N][before(m) + x]
      BY <1>7, <3>1
    <3>4. flat[N][before(m) + x] = flat[m][before(m) + x]
      BY <2>5, <3>1
    <3> QED
      BY <2>3, <3>2, <3>3, <3>4
  <2>7. Len(p) = Len(flat[N]) + 2
    BY <1>7
  <2>8. q[m] >= 2 /\ q[m + 1] <= Len(p)
    BY <2>2, <2>3, <2>4, <2>5, <2>7
  <2>9. q[m + 1] = q[m] + Len(seqs[m])
    BY <2>2, <2>3, <2>4
  <2> QED
    BY <2>6, <2>8, <2>9
<1>13. LaidOut(s, p, q)
  <2>1. ASSUME NEW m \in 1 .. N
        PROVE  /\ q[m] >= 2 /\ q[m + 1] <= Len(p)
               /\ s[m] \in Wildcards    => /\ q[m + 1] = q[m] + 2
                                          /\ p[q[m]] = "\\" /\ p[q[m] + 1] = s[m]
               /\ s[m] \notin Wildcards => q[m + 1] = q[m] + 1 /\ p[q[m]] = s[m]
    <3>1. q[m] + 1 - 1 = q[m] /\ q[m] + 2 - 1 = q[m] + 1
      BY <1>1, <1>11
    <3>2. /\ q[m + 1] = q[m] + Len(seqs[m])
          /\ \A x \in 1 .. Len(seqs[m]) : p[q[m] + x - 1] = seqs[m][x]
      BY <1>12
    <3>3. seqs[m] = Escaped(s[m])
      BY <1>2
    <3>4. CASE s[m] \in Wildcards
      <4>1. Len(seqs[m]) = 2 /\ seqs[m][1] = "\\" /\ seqs[m][2] = s[m]
        BY <1>1, <3>3, <3>4, EscapedIs
      <4>2. 1 \in 1 .. Len(seqs[m]) /\ 2 \in 1 .. Len(seqs[m])
        BY <4>1
      <4> HIDE DEF q
      <4>3. p[q[m]] = "\\" /\ p[q[m] + 1] = s[m]
        BY <3>1, <3>2, <4>1, <4>2
      <4> QED
        BY <1>12, <3>2, <3>4, <4>1, <4>3
    <3>5. CASE s[m] \notin Wildcards
      <4>1. Len(seqs[m]) = 1 /\ seqs[m][1] = s[m]
        BY <1>1, <3>3, <3>5, EscapedIs
      <4>2. 1 \in 1 .. Len(seqs[m])
        BY <4>1
      <4> HIDE DEF q
      <4>3. p[q[m]] = s[m]
        BY <3>1, <3>2, <4>1, <4>2
      <4> QED
        BY <1>12, <3>2, <3>5, <4>1, <4>3
    <3> QED
      BY <3>4, <3>5
  <2> HIDE DEF q
  <2> QED
    BY <1>7, <1>11, <2>1 DEF LaidOut, N
<1> QED
  <2> HIDE DEF q
  <2> QED
    BY <1>7, <1>11, <1>13 DEF p, N

LEMMA LaidOutCharacter ==
    ASSUME NEW s \in Seq(QueryChars), NEW p \in Seq(PatternChars),
           NEW q \in [1 .. Len(s) + 1 -> Nat], LaidOut(s, p, q), NEW m \in 1 .. Len(s)
    PROVE  /\ q[m] \in 1 .. Len(p)
           /\ s[m] \in Wildcards    => /\ q[m] < Len(p) /\ q[m] + 2 = q[m + 1]
                                      /\ p[q[m]] = "\\" /\ p[q[m] + 1] = s[m]
           /\ s[m] \notin Wildcards => q[m] + 1 = q[m + 1] /\ p[q[m]] = s[m]
<1>1. m \in 1 .. Len(s) + 1 /\ m + 1 \in 1 .. Len(s) + 1
  OBVIOUS
<1>2. q[m] \in Nat /\ q[m + 1] \in Nat /\ Len(p) \in Nat
  BY <1>1
<1>3. /\ q[m] >= 2 /\ q[m + 1] <= Len(p)
      /\ s[m] \in Wildcards    => q[m + 1] = q[m] + 2 /\ p[q[m]] = "\\" /\ p[q[m] + 1] = s[m]
      /\ s[m] \notin Wildcards => q[m + 1] = q[m] + 1 /\ p[q[m]] = s[m]
  BY DEF LaidOut
<1>4. q[m + 1] = q[m] + 2 \/ q[m + 1] = q[m] + 1
  BY <1>3
<1>5. q[m] \in 1 .. Len(p)
  BY <1>2, <1>3, <1>4
<1>6. q[m + 1] = q[m] + 2 => q[m] < Len(p)
  BY <1>2, <1>3
<1> QED
  BY <1>3, <1>5, <1>6

\* Where in name the characters of s from the m-th on stand.
From(s, name, m) ==
    {j \in 1 .. Len(name) + 1 :
        /\ j + (Len(s) + 1 - m) <= Len(name) + 1
        /\ \A x \in m .. Len(s) : Same(s[x], name[j + (x - m)])}

LEMMA FromBefore ==
    ASSUME NEW s \in Seq(QueryChars), NEW name \in Seq(NameChars), NEW m \in 1 .. Len(s)
    PROVE  From(s, name, m) = Before(s[m], name, From(s, name, m + 1))
<1> DEFINE N == Len(s)
           L == Len(name)
           R == {j \in 1 .. L : Same(s[m], name[j]) /\ j + 1 \in From(s, name, m + 1)}
<1>1. N \in Nat /\ L \in Nat /\ m \in 1 .. N
  OBVIOUS
<1>2. ASSUME NEW j \in From(s, name, m)
      PROVE  j \in R
  <2>1. /\ j \in 1 .. L + 1 /\ j + (N + 1 - m) <= L + 1
        /\ \A x \in m .. N : Same(s[x], name[j + (x - m)])
    BY DEF From
  <2> HIDE DEF N, L
  <2>2. j \in 1 .. L /\ j + 1 \in 1 .. L + 1 /\ (j + 1) + (N + 1 - (m + 1)) <= L + 1
    BY <1>1, <2>1
  <2>3. Same(s[m], name[j])
    <3>1. m \in m .. N /\ j + (m - m) = j
      BY <1>1, <2>1
    <3> QED
      BY <2>1, <3>1
  <2>4. ASSUME NEW x \in (m + 1) .. N
        PROVE  Same(s[x], name[(j + 1) + (x - (m + 1))])
    <3>1. x \in m .. N /\ (j + 1) + (x - (m + 1)) = j + (x - m)
      BY <1>1, <2>1
    <3> QED
      BY <2>1, <3>1
  <2>5. j + 1 \in From(s, name, m + 1)
    BY <2>2, <2>4 DEF From, N, L
  <2> QED
    BY <2>2, <2>3, <2>5
<1>3. ASSUME NEW j \in R
      PROVE  j \in From(s, name, m)
  <2>1. j \in 1 .. L /\ Same(s[m], name[j]) /\ j + 1 \in From(s, name, m + 1)
    OBVIOUS
  <2>2. /\ (j + 1) + (N + 1 - (m + 1)) <= L + 1
        /\ \A x \in (m + 1) .. N : Same(s[x], name[(j + 1) + (x - (m + 1))])
    BY <2>1 DEF From
  <2> HIDE DEF N, L, R
  <2>3. j \in 1 .. L + 1 /\ j + (N + 1 - m) <= L + 1
    BY <1>1, <2>1, <2>2
  <2>4. ASSUME NEW x \in m .. N
        PROVE  Same(s[x], name[j + (x - m)])
    <3>1. CASE x = m
      <4>1. j + (x - m) = j
        BY <1>1, <2>1, <3>1
      <4> QED
        BY <2>1, <3>1, <4>1
    <3>2. CASE x # m
      <4>1. x \in (m + 1) .. N /\ (j + 1) + (x - (m + 1)) = j + (x - m)
        BY <1>1, <2>1, <3>2
      <4> QED
        BY <2>2, <4>1
    <3> QED
      BY <3>1, <3>2
  <2> QED
    BY <2>3, <2>4 DEF From, N, L
<1> HIDE DEF R
<1>4. From(s, name, m) = R
  BY <1>2, <1>3
<1> QED
  BY <1>4 DEF R, Before

LEMMA LikesOneMore ==
    ASSUME NEW s \in Seq(QueryChars), NEW name \in Seq(NameChars),
           NEW p \in Seq(PatternChars), NEW q \in [1 .. Len(s) + 1 -> Nat], LaidOut(s, p, q),
           NEW m \in 1 .. Len(s)
    PROVE  Begins(p, name)[q[m]] = Before(s[m], name, Begins(p, name)[q[m + 1]])
<1> DEFINE R == Begins(p, name)
           k == q[m]
           next == q[m + 1]
<1>1. /\ k \in 1 .. Len(p)
      /\ s[m] \in Wildcards    => /\ k < Len(p) /\ k + 2 = next
                                 /\ p[k] = "\\" /\ p[k + 1] = s[m]
      /\ s[m] \notin Wildcards => k + 1 = next /\ p[k] = s[m]
  BY LaidOutCharacter
<1> HIDE DEF k, next
<1>2. CASE s[m] \in Wildcards
  <2>1. R[k] = Before(p[k + 1], name, R[k + 2])
    BY <1>1, <1>2, BeginsAtBackslash
  <2> HIDE DEF R
  <2>2. R[k] = Before(s[m], name, R[next])
    BY <1>1, <1>2, <2>1
  <2> QED
    BY <2>2 DEF R, k, next
<1>3. CASE s[m] \notin Wildcards
  <2>1. p[k] # "%" /\ p[k] # "_" /\ p[k] # "\\"
    BY <1>1, <1>3 DEF Wildcards
  <2>2. R[k] = Before(p[k], name, R[k + 1])
    BY <1>1, <2>1, BeginsAtOther
  <2> HIDE DEF R
  <2>3. R[k] = Before(s[m], name, R[next])
    BY <1>1, <1>3, <2>2
  <2> QED
    BY <2>3 DEF R, k, next
<1> QED
  BY <1>2, <1>3

\* LIKE finds the characters of the text behind one another, each as itself.
LEMMA LikesTheRest ==
    ASSUME NEW s \in Seq(QueryChars), NEW name \in Seq(NameChars),
           NEW p \in Seq(PatternChars), NEW q \in [1 .. Len(s) + 1 -> Nat], LaidOut(s, p, q),
           Len(p) >= 1
    PROVE  \A m \in 1 .. Len(s) + 1 : Begins(p, name)[q[m]] = From(s, name, m)
<1> DEFINE N == Len(s)
           L == Len(name)
           R == Begins(p, name)
           U == {d \in Nat : d <= N => R[q[N + 1 - d]] = From(s, name, N + 1 - d)}
<1>1. N \in Nat /\ L \in Nat /\ Len(p) \in Nat
  OBVIOUS
<1>2. 0 \in U
  <2>1. Len(p) \in 1 .. Len(p) /\ p[Len(p)] = "%" /\ q[N + 1] = Len(p)
    BY <1>1 DEF LaidOut
  <2>2. /\ R[Len(p) + 1] = {L + 1}
        /\ R[Len(p)] = {j \in 1 .. L + 1 : \E e \in R[Len(p) + 1] : j <= e}
    BY <2>1, BeginsAtTheEnd, BeginsAtPercent
  <2> HIDE DEF N, L, R
  <2>3. R[Len(p)] = 1 .. L + 1
    BY <1>1, <2>2
  <2>4. From(s, name, N + 1) = 1 .. L + 1
    BY <1>1 DEF From, N, L
  <2>5. N + 1 - 0 = N + 1
    BY <1>1
  <2> QED
    BY <2>1, <2>3, <2>4, <2>5
<1>3. ASSUME NEW d \in U
      PROVE  d + 1 \in U
  <2>1. SUFFICES ASSUME d + 1 <= N
                 PROVE  R[q[N + 1 - (d + 1)]] = From(s, name, N + 1 - (d + 1))
    OBVIOUS
  <2> DEFINE m == N + 1 - (d + 1)
  <2>2. m \in 1 .. N /\ m + 1 = N + 1 - d /\ d <= N
    BY <1>1, <2>1
  <2>3. R[q[m + 1]] = From(s, name, m + 1)
    BY <2>2
  <2> HIDE DEF m
  <2>4. m \in 1 .. Len(s)
    BY <2>2
  <2>5. R[q[m]] = Before(s[m], name, R[q[m + 1]])
    BY <2>4, LikesOneMore
  <2>6. R[q[m]] = From(s, name, m)
    BY <2>3, <2>4, <2>5, FromBefore
  <2> QED
    BY <2>6 DEF m
<1>4. U = Nat
  <2> HIDE DEF U
  <2>1. U \in SUBSET Nat
    BY DEF U
  <2> QED
    BY <1>2, <1>3, <2>1, Induction
<1>5. ASSUME NEW m \in 1 .. N + 1
      PROVE  R[q[m]] = From(s, name, m)
  <2>1. N + 1 - m \in Nat /\ N + 1 - m <= N /\ N + 1 - (N + 1 - m) = m
    BY <1>1
  <2>2. N + 1 - m \in U
    <3> HIDE DEF U
    <3> QED
      BY <1>4, <2>1
  <2> QED
    BY <2>1, <2>2
<1> QED
  BY <1>5

LEMMA LikesWhatOccurs ==
    ASSUME NEW s \in Seq(QueryChars), Len(s) >= 1, NEW name \in Seq(NameChars)
    PROVE  Likes(EscapeLike(s), name) <=> OccursIn(s, name)
<1> DEFINE p == EscapeLike(s)
           N == Len(s)
           L == Len(name)
<1>1. PICK q \in [1 .. Len(s) + 1 -> Nat] : LaidOut(s, p, q)
  BY PatternIsLaidOut
<1>2. p \in Seq(PatternChars)
  BY PatternIsLaidOut
<1> HIDE DEF p
<1>3. N \in Nat /\ N >= 1 /\ L \in Nat /\ 1 \in 1 .. N + 1
  OBVIOUS
<1>4. Len(p) >= 1 /\ 1 \in 1 .. Len(p) /\ p[1] = "%" /\ q[1] = 2
  <2>1. 1 \in 1 .. Len(s)
    BY <1>3
  <2>2. q[1] \in 1 .. Len(p)
    BY <1>1, <1>2, <2>1, LaidOutCharacter
  <2>3. p[1] = "%" /\ q[1] = 2
    BY <1>1 DEF LaidOut
  <2> QED
    BY <1>2, <2>2, <2>3
<1>5. Begins(p, name)[2] = From(s, name, 1)
  <2>1. Begins(p, name)[q[1]] = From(s, name, 1)
    BY <1>1, <1>2, <1>3, <1>4, LikesTheRest
  <2> QED
    BY <1>4, <2>1
<1>6. Begins(p, name)[1] = {j \in 1 .. L + 1 : \E e \in Begins(p, name)[1 + 1] : j <= e}
  BY <1>2, <1>4, BeginsAtPercent
<1>7. Likes(p, name) <=> \E e \in From(s, name, 1) : 1 <= e
  <2>1. 1 \in 1 .. L + 1 /\ 1 + 1 = 2
    BY <1>3
  <2> QED
    BY <1>5, <1>6, <2>1 DEF Likes
<1>8. ASSUME NEW e \in From(s, name, 1)
      PROVE  OccursIn(s, name)
  <2>1. e \in 1 .. L + 1 /\ e + (N + 1 - 1) <= L + 1
        /\ \A x \in 1 .. N : Same(s[x], name[e + (x - 1)])
    BY DEF From
  <2>2. e - 1 \in 0 .. L - N
    BY <1>3, <2>1
  <2>3. ASSUME NEW n \in DOMAIN s
        PROVE  Same(s[n], name[(e - 1) + n])
    <3>1. n \in 1 .. N
      OBVIOUS
    <3>2. (e - 1) + n = e + (n - 1)
      BY <1>3, <2>1, <3>1
    <3> QED
      BY <2>1, <3>1, <3>2
  <2> QED
    BY <2>2, <2>3 DEF OccursIn
<1>9. ASSUME OccursIn(s, name)
      PROVE  \E e \in From(s, name, 1) : 1 <= e
  <2>1. PICK k \in 0 .. L - N : \A n \in DOMAIN s : Same(s[n], name[k + n])
    BY <1>9 DEF OccursIn
  <2>2. k + 1 \in 1 .. L + 1 /\ (k + 1) + (N + 1 - 1) <= L + 1 /\ 1 <= k + 1
    BY <1>3
  <2>3. ASSUME NEW x \in 1 .. N
        PROVE  Same(s[x], name[(k + 1) + (x - 1)])
    <3>1. x \in DOMAIN s /\ (k + 1) + (x - 1) = k + x
      BY <2>1
    <3> QED
      BY <2>1, <3>1
  <2>4. k + 1 \in From(s, name, 1)
    BY <2>2, <2>3 DEF From
  <2> QED
    BY <2>2, <2>4
<1>10. \A e \in From(s, name, 1) : 1 <= e
  BY DEF From
<1> QED
  BY <1>7, <1>8, <1>9, <1>10 DEF p
-----------------------------------------------------------------------------
LEMMA SameTask == [Next]_textVars => task' = task
<1>1. UNCHANGED textVars => task' = task
  BY DEF textVars
<1>2. InComment \/ InString \/ StartComment => task' = task
  BY Zenon DEF InComment, InString, StartComment
<1>3. EndStatement \/ Take \/ EndOfFile => task' = task
  BY Zenon DEF EndStatement, Take, EndOfFile
<1>4. Search \/ Match => task' = task
  BY Zenon DEF Search, Match
<1> QED
  BY <1>1, <1>2, <1>3, <1>4, Zenon DEF Next

SearchInv ==
    task.call = "search" =>
       /\ task.text \in Seq(QueryChars) /\ Len(task.text) >= 1
       /\ task.with \in Seq(NameChars)
       /\ answer # "running" => (answer = "yes" <=> OccursIn(task.text, task.with))

LEMMA InitSearch == Init => SearchInv
<1> SUFFICES ASSUME Init, task.call = "search"
             PROVE  /\ task.text \in Seq(QueryChars) /\ Len(task.text) >= 1
                    /\ task.with \in Seq(NameChars) /\ answer = "running"
  BY DEF SearchInv
<1>1. PICK s \in Upto(QueryChars, MaxQuery), name \in Upto(NameChars, MaxName) :
             s # <<>> /\ task = [call |-> "search", text |-> s, with |-> name]
  BY DEF Init
<1>2. s \in Seq(QueryChars) /\ name \in Seq(NameChars)
  BY UptoIs, TextsBounds
<1>3. Len(s) >= 1
  BY <1>1, <1>2
<1> QED
  BY <1>1, <1>2, <1>3 DEF Init

LEMMA SearchStep == SearchInv /\ [Next]_textVars => SearchInv'
<1> SUFFICES ASSUME SearchInv, [Next]_textVars, task.call = "search", task' = task
             PROVE  SearchInv'
  BY SameTask DEF SearchInv
<1>1. CASE UNCHANGED textVars
  BY <1>1 DEF SearchInv, textVars
<1>2. CASE Search
  <2>1. answer' = IF Likes(EscapeLike(task.text), task.with) THEN "yes" ELSE "no"
    BY <1>2 DEF Search
  <2>2. Likes(EscapeLike(task.text), task.with) <=> OccursIn(task.text, task.with)
    BY LikesWhatOccurs DEF SearchInv
  <2> QED
    BY <2>1, <2>2 DEF SearchInv
<1>3. ~ (InComment \/ InString \/ StartComment \/ EndStatement \/ Take \/ EndOfFile \/ Match)
  <2>1. task.call # "split" /\ task.call # "match"
    OBVIOUS
  <2> QED
    BY <2>1, Zenon DEF InComment, InString, StartComment, EndStatement, Take, EndOfFile, Match,
       InCode, Splitting
<1> QED
  BY <1>1, <1>2, <1>3, Zenon DEF Next

\* The pattern of ListFilter finds the names in which the text of a search occurs, for
\* every text and every name: no character of the text is read as a wildcard.
THEOREM SearchIsForTheTextCorrect == Spec => []SearchIsForTheText
<1>1. SearchInv => SearchIsForTheText
  BY DEF SearchInv, SearchIsForTheText
<1> QED
  BY <1>1, InitSearch, SearchStep, PTL DEF Spec

(***************************************************************************)
(* etagMatches.  Its texts are cut out of the header: each is the part of  *)
(* it from one position to another.                                        *)
(***************************************************************************)
LEMMA MinIs ==
    ASSUME NEW S \in SUBSET Nat, S # {}
    PROVE  Min(S) \in S /\ \A y \in S : Min(S) <= y
<1>1. \E x \in S : \A y \in S : x <= y
  BY Least
<1> QED
  BY <1>1 DEF Min

LEMMA MaxIs ==
    ASSUME NEW n \in Nat, NEW S \in SUBSET (1 .. n), S # {}
    PROVE  Max(S) \in S /\ \A y \in S : y <= Max(S)
<1> DEFINE U == {n - x : x \in S}
<1>1. U \in SUBSET Nat /\ U # {}
  OBVIOUS
<1> HIDE DEF U
<1>2. PICK u \in U : \A y \in U : u <= y
  BY <1>1, Least
<1>3. PICK x \in S : u = n - x
  BY <1>2 DEF U
<1>4. \A y \in S : x >= y
  <2>1. \A y \in S : n - y \in U
    BY DEF U
  <2>2. \A y \in S : n - x <= n - y
    BY <1>2, <1>3, <2>1
  <2> QED
    BY <2>2
<1>5. Max(S) \in S /\ \A y \in S : Max(S) >= y
  BY <1>4 DEF Max
<1> QED
  BY <1>5

LEMMA CutOut ==
    ASSUME NEW C, NEW s \in Seq(C), NEW x \in 1 .. Len(s) + 1, NEW y \in x - 1 .. Len(s)
    PROVE  /\ SubSeq(s, x, y) \in Seq(C)
           /\ Len(SubSeq(s, x, y)) = y - x + 1
           /\ \A k \in 1 .. y - x + 1 : SubSeq(s, x, y)[k] = s[x + k - 1]
<1>1. x \in Int /\ y \in Int /\ Len(s) \in Nat /\ x >= 1 /\ y <= Len(s) /\ y >= x - 1
  OBVIOUS
<1>2. SubSeq(s, x, y) = [k \in 1 .. (1 + y) - x |-> s[k + x - 1]]
  BY <1>1
<1>3. (1 + y) - x = y - x + 1 /\ y - x + 1 \in Nat
  BY <1>1
<1>4. \A k \in 1 .. y - x + 1 : k + x - 1 \in 1 .. Len(s) /\ k + x - 1 = x + k - 1
  BY <1>1
<1>5. \A k \in 1 .. y - x + 1 : s[k + x - 1] \in C
  BY <1>4
<1> QED
  BY <1>2, <1>3, <1>4, <1>5

LEMMA CutOutTwice ==
    ASSUME NEW C, NEW s \in Seq(C), NEW x \in 1 .. Len(s) + 1, NEW y \in x - 1 .. Len(s),
           NEW l \in 1 .. (y - x + 1) + 1, NEW h \in l - 1 .. y - x + 1
    PROVE  SubSeq(SubSeq(s, x, y), l, h) = SubSeq(s, x + l - 1, x + h - 1)
<1> DEFINE t == SubSeq(s, x, y)
<1>1. t \in Seq(C) /\ Len(t) = y - x + 1 /\ \A k \in 1 .. y - x + 1 : t[k] = s[x + k - 1]
  BY CutOut
<1> HIDE DEF t
<1>2. x \in Int /\ y \in Int /\ Len(s) \in Nat /\ x >= 1 /\ y <= Len(s) /\ y >= x - 1
      /\ l \in Int /\ h \in Int /\ l >= 1 /\ h >= l - 1 /\ h <= y - x + 1
  OBVIOUS
<1>3. /\ SubSeq(t, l, h) \in Seq(C) /\ Len(SubSeq(t, l, h)) = h - l + 1
      /\ \A k \in 1 .. h - l + 1 : SubSeq(t, l, h)[k] = t[l + k - 1]
  <2>1. l \in 1 .. Len(t) + 1 /\ h \in l - 1 .. Len(t)
    BY <1>1, <1>2
  <2> QED
    BY <1>1, <2>1, CutOut
<1>4. /\ SubSeq(s, x + l - 1, x + h - 1) \in Seq(C)
      /\ Len(SubSeq(s, x + l - 1, x + h - 1)) = h - l + 1
      /\ \A k \in 1 .. h - l + 1 : SubSeq(s, x + l - 1, x + h - 1)[k] = s[x + l - 1 + k - 1]
  <2> DEFINE a == x + l - 1
             b == x + h - 1
  <2>1. a \in 1 .. Len(s) + 1 /\ b \in a - 1 .. Len(s) /\ b - a + 1 = h - l + 1
    BY <1>2
  <2> HIDE DEF a, b
  <2>2. /\ SubSeq(s, a, b) \in Seq(C) /\ Len(SubSeq(s, a, b)) = b - a + 1
        /\ \A k \in 1 .. b - a + 1 : SubSeq(s, a, b)[k] = s[a + k - 1]
    BY <2>1, CutOut
  <2> QED
    BY <2>1, <2>2 DEF a, b
<1>5. ASSUME NEW k \in 1 .. h - l + 1
      PROVE  SubSeq(t, l, h)[k] = SubSeq(s, x + l - 1, x + h - 1)[k]
  <2>1. l + k - 1 \in 1 .. y - x + 1 /\ x + (l + k - 1) - 1 = x + l - 1 + k - 1
    BY <1>2
  <2> QED
    BY <1>1, <1>3, <1>4, <2>1
<1> DEFINE u == SubSeq(t, l, h)
           v == SubSeq(s, x + l - 1, x + h - 1)
<1>6. u \in Seq(C) /\ v \in Seq(C) /\ Len(u) = Len(v) /\ \A k \in 1 .. Len(u) : u[k] = v[k]
  BY <1>3, <1>4, <1>5
<1> HIDE DEF u, v
<1>7. u = v
  BY <1>6
<1> QED
  BY <1>7 DEF u, v, t
-----------------------------------------------------------------------------
\* l and h are where the text between x and y begins and ends, but for blanks.
Tight(s, x, y, l, h) ==
    /\ l \in x .. y + 1 /\ h \in l - 1 .. y
    /\ \A k \in x .. l - 1 : s[k] \in Blank
    /\ \A k \in h + 1 .. y : s[k] \in Blank
    /\ l <= h => s[l] \notin Blank /\ s[h] \notin Blank

LEMMA TrimIsTight ==
    ASSUME NEW C, NEW t \in Seq(C)
    PROVE  \E l, h \in 0 .. Len(t) + 1 :
              Tight(t, 1, Len(t), l, h) /\ TrimSpace(t) = SubSeq(t, l, h)
<1> DEFINE ink == {k \in DOMAIN t : t[k] \notin Blank}
           n == Len(t)
<1>1. n \in Nat /\ DOMAIN t = 1 .. n
  OBVIOUS
<1>2. CASE ink = {}
  <2>1. TrimSpace(t) = <<>>
    BY <1>2 DEF TrimSpace
  <2>2. SubSeq(t, 1, 0) = <<>>
    OBVIOUS
  <2>3. Tight(t, 1, n, 1, 0)
    BY <1>1, <1>2 DEF Tight
  <2>4. 1 \in 0 .. n + 1 /\ 0 \in 0 .. n + 1
    BY <1>1
  <2> QED
    BY <2>1, <2>2, <2>3, <2>4
<1>3. CASE ink # {}
  <2>1. TrimSpace(t) = SubSeq(t, Min(ink), Max(ink))
    BY <1>3 DEF TrimSpace
  <2>2. ink \in SUBSET (1 .. n) /\ ink \in SUBSET Nat
    BY <1>1
  <2>3. \A k \in 1 .. n : k \in ink <=> t[k] \notin Blank
    BY <1>1
  <2> HIDE DEF ink
  <2>4. PICK l \in ink : l = Min(ink) /\ \A k \in ink : l <= k
    BY <1>3, <2>2, MinIs
  <2>5. PICK h \in ink : h = Max(ink) /\ \A k \in ink : k <= h
    BY <1>1, <1>3, <2>2, MaxIs
  <2>6. l \in 1 .. n /\ h \in 1 .. n /\ l <= h /\ t[l] \notin Blank /\ t[h] \notin Blank
    BY <2>2, <2>3, <2>4
  <2>7. \A k \in 1 .. l - 1 : t[k] \in Blank
    <3>1. \A k \in 1 .. l - 1 : k \in 1 .. n /\ ~ (l <= k)
      BY <1>1, <2>6
    <3> QED
      BY <2>3, <2>4, <3>1
  <2>8. \A k \in h + 1 .. n : t[k] \in Blank
    <3>1. \A k \in h + 1 .. n : k \in 1 .. n /\ ~ (k <= h)
      BY <1>1, <2>6
    <3> QED
      BY <2>3, <2>5, <3>1
  <2>9. Tight(t, 1, n, l, h)
    BY <1>1, <2>6, <2>7, <2>8 DEF Tight
  <2>10. TrimSpace(t) = SubSeq(t, l, h)
    BY <2>1, <2>4, <2>5
  <2>11. l \in 0 .. n + 1 /\ h \in 0 .. n + 1
    BY <1>1, <2>6
  <2> QED
    BY <2>9, <2>10, <2>11
<1> QED
  BY <1>2, <1>3

LEMMA TightOnce ==
    ASSUME NEW s, NEW x \in Int, NEW y \in Int, NEW l \in Int, NEW h \in Int,
           NEW k \in Int, NEW m \in Int,
           Tight(s, x, y, l, h), Tight(s, x, y, k, m), l <= h
    PROVE  k = l /\ m = h
<1>1. /\ l \in x .. y + 1 /\ h \in l - 1 .. y /\ k \in x .. y + 1 /\ m \in k - 1 .. y
      /\ s[l] \notin Blank /\ s[h] \notin Blank
  BY DEF Tight
<1>2. ~ (l < k)
  <2>1. l < k => l \in x .. k - 1
    BY <1>1
  <2> QED
    BY <1>1, <2>1 DEF Tight
<1>3. ~ (m < h)
  <2>1. m < h => h \in m + 1 .. y
    BY <1>1
  <2> QED
    BY <1>1, <2>1 DEF Tight
<1>4. k <= m
  BY <1>1, <1>2, <1>3
<1>5. s[k] \notin Blank /\ s[m] \notin Blank
  BY <1>4 DEF Tight
<1>6. ~ (k < l)
  <2>1. k < l => k \in x .. l - 1
    BY <1>1
  <2> QED
    BY <1>5, <2>1 DEF Tight
<1>7. ~ (h < m)
  <2>1. h < m => m \in h + 1 .. y
    BY <1>1
  <2> QED
    BY <1>5, <2>1 DEF Tight
<1> QED
  BY <1>2, <1>3, <1>6, <1>7

LEMMA TrimCutsTight ==
    ASSUME NEW C, NEW s \in Seq(C), NEW x \in 1 .. Len(s) + 1, NEW y \in x - 1 .. Len(s)
    PROVE  \E l, h \in Int :
              Tight(s, x, y, l, h) /\ TrimSpace(SubSeq(s, x, y)) = SubSeq(s, l, h)
<1> DEFINE t == SubSeq(s, x, y)
<1>1. t \in Seq(C) /\ Len(t) = y - x + 1 /\ \A k \in 1 .. y - x + 1 : t[k] = s[x + k - 1]
  BY CutOut
<1>2. x \in Int /\ y \in Int /\ x >= 1 /\ y >= x - 1
  OBVIOUS
<1> HIDE DEF t
<1>3. PICK a, b \in 0 .. Len(t) + 1 : Tight(t, 1, Len(t), a, b) /\ TrimSpace(t) = SubSeq(t, a, b)
  BY <1>1, TrimIsTight
<1>4. /\ a \in 1 .. (y - x + 1) + 1 /\ b \in a - 1 .. y - x + 1
      /\ \A k \in 1 .. a - 1 : t[k] \in Blank
      /\ \A k \in b + 1 .. y - x + 1 : t[k] \in Blank
      /\ a <= b => t[a] \notin Blank /\ t[b] \notin Blank
  BY <1>1, <1>3 DEF Tight
<1> DEFINE l == x + a - 1
           h == x + b - 1
<1>5. SubSeq(t, a, b) = SubSeq(s, l, h)
  <2>1. a \in 1 .. (y - x + 1) + 1 /\ b \in a - 1 .. y - x + 1
    BY <1>4
  <2>2. SubSeq(SubSeq(s, x, y), a, b) = SubSeq(s, x + a - 1, x + b - 1)
    BY <2>1, CutOutTwice
  <2> QED
    BY <2>2 DEF t
<1>6. l \in Int /\ h \in Int /\ l \in x .. y + 1 /\ h \in l - 1 .. y
  BY <1>2, <1>4
<1>7. ASSUME NEW k \in x .. l - 1
      PROVE  s[k] \in Blank
  <2>1. k - x + 1 \in 1 .. a - 1 /\ k - x + 1 \in 1 .. y - x + 1 /\ x + (k - x + 1) - 1 = k
    BY <1>2, <1>4
  <2> QED
    BY <1>1, <1>4, <2>1
<1>8. ASSUME NEW k \in h + 1 .. y
      PROVE  s[k] \in Blank
  <2>1. k - x + 1 \in b + 1 .. y - x + 1 /\ k - x + 1 \in 1 .. y - x + 1
        /\ x + (k - x + 1) - 1 = k
    BY <1>2, <1>4
  <2> QED
    BY <1>1, <1>4, <2>1
<1>9. l <= h => s[l] \notin Blank /\ s[h] \notin Blank
  <2>1. l <= h => a <= b /\ a \in 1 .. y - x + 1 /\ b \in 1 .. y - x + 1
    BY <1>2, <1>4
  <2> QED
    BY <1>1, <1>4, <2>1
<1> HIDE DEF l, h
<1>10. Tight(s, x, y, l, h)
  BY <1>6, <1>7, <1>8, <1>9 DEF Tight
<1>11. TrimSpace(t) = SubSeq(s, l, h)
  BY <1>3, <1>5
<1> QED
  BY <1>6, <1>10, <1>11 DEF t
-----------------------------------------------------------------------------
\* (Kept apart, for Zenon, as the semicolon is.)
IsComma(part) == part = ","

\* From behind a to before b there is one element of the list from lo to hi.
Element(s, lo, hi, a, b) ==
    /\ a \in lo - 1 .. hi /\ b \in a + 1 .. hi + 1
    /\ a = lo - 1 \/ IsComma(s[a])
    /\ b = hi + 1 \/ IsComma(s[b])
    /\ \A k \in a + 1 .. b - 1 : ~ IsComma(s[k])

LEMMA BetweenEnds ==
    ASSUME NEW C, NEW t \in Seq(C), NEW ends,
           \A k : k \in ends <=> \/ k = 0 \/ k = Len(t) + 1
                                \/ (k \in 1 .. Len(t) /\ IsComma(t[k]))
    PROVE  \A a, b : /\ a \in ends /\ b \in ends
                     /\ a < b /\ ~ \E k \in ends : a < k /\ k < b
                     <=> a \in Int /\ b \in Int /\ Element(t, 1, Len(t), a, b)
<1> DEFINE n == Len(t)
<1>1. n \in Nat
  OBVIOUS
<1>2. ends \subseteq 0 .. n + 1
  BY <1>1
<1>3. \A k \in 1 .. n : k \in ends <=> IsComma(t[k])
  BY <1>1
<1>4. 0 \in ends /\ n + 1 \in ends
  OBVIOUS
<1> HIDE DEF n
<1>5. ASSUME NEW a \in ends, NEW b \in ends, a < b, ~ \E k \in ends : a < k /\ k < b
      PROVE  Element(t, 1, n, a, b) /\ a \in Int /\ b \in Int
  <2>1. a \in 0 .. n + 1 /\ b \in 0 .. n + 1
    BY <1>2
  <2>2. a \in 0 .. n /\ b \in a + 1 .. n + 1
    BY <1>1, <1>5, <2>1
  <2>3. a = 1 - 1 \/ IsComma(t[a])
    <3>1. a = 0 \/ a \in 1 .. n
      BY <1>1, <2>2
    <3> QED
      BY <1>3, <3>1
  <2>4. b = n + 1 \/ IsComma(t[b])
    <3>1. b = n + 1 \/ b \in 1 .. n
      BY <1>1, <2>2
    <3> QED
      BY <1>3, <3>1
  <2>5. ASSUME NEW k \in a + 1 .. b - 1
        PROVE  ~ IsComma(t[k])
    <3>1. k \in 1 .. n /\ a < k /\ k < b
      BY <1>1, <2>2
    <3> QED
      BY <1>3, <1>5, <3>1
  <2>6. 1 - 1 = 0 /\ a \in Int /\ b \in Int
    BY <2>1
  <2> QED
    BY <2>2, <2>3, <2>4, <2>5, <2>6 DEF Element
<1>6. ASSUME NEW a \in Int, NEW b \in Int, Element(t, 1, n, a, b)
      PROVE  a \in ends /\ b \in ends /\ a < b /\ ~ \E k \in ends : a < k /\ k < b
  <2>1. /\ a \in 1 - 1 .. n /\ b \in a + 1 .. n + 1
        /\ a = 1 - 1 \/ IsComma(t[a])
        /\ b = n + 1 \/ IsComma(t[b])
        /\ \A k \in a + 1 .. b - 1 : ~ IsComma(t[k])
    BY <1>6 DEF Element
  <2>2. a < b /\ a \in 0 .. n /\ (a = 0 \/ a \in 1 .. n) /\ (b = n + 1 \/ b \in 1 .. n)
    BY <1>1, <2>1
  <2>3. a \in ends /\ b \in ends
    BY <1>3, <1>4, <2>1, <2>2
  <2>4. ASSUME NEW k \in ends, a < k, k < b
        PROVE  FALSE
    <3>1. k \in 0 .. n + 1
      BY <1>2
    <3>2. k \in 1 .. n /\ k \in a + 1 .. b - 1
      BY <1>1, <2>1, <2>2, <2>4, <3>1
    <3> QED
      BY <1>3, <2>1, <3>2
  <2> QED
    BY <2>2, <2>3, <2>4
<1> QED
  BY <1>5, <1>6 DEF n

LEMMA CandidatesAre ==
    ASSUME NEW C, NEW t \in Seq(C), NEW c
    PROVE  c \in Candidates(t) <=>
              \E a, b \in Int : Element(t, 1, Len(t), a, b) /\ c = SubSeq(t, a + 1, b - 1)
<1> DEFINE ends == {0, Len(t) + 1} \cup {k \in DOMAIN t : t[k] = ","}
           Adjacent(a, b) == a < b /\ ~ \E k \in ends : a < k /\ k < b
<1>1. \A k : k \in ends <=> \/ k = 0 \/ k = Len(t) + 1
                           \/ (k \in 1 .. Len(t) /\ IsComma(t[k]))
  <2>1. DOMAIN t = 1 .. Len(t)
    OBVIOUS
  <2> QED
    BY <2>1, Zenon DEF IsComma
<1>2. Candidates(t) = {SubSeq(t, ab[1] + 1, ab[2] - 1) : ab \in
                         {ab \in ends \X ends : Adjacent(ab[1], ab[2])}}
  BY Zenon DEF Candidates
<1> HIDE DEF ends
<1>3. \A a, b : a \in ends /\ b \in ends /\ Adjacent(a, b)
                <=> a \in Int /\ b \in Int /\ Element(t, 1, Len(t), a, b)
  BY <1>1, BetweenEnds
<1> HIDE DEF Adjacent
<1>4. ASSUME c \in Candidates(t)
      PROVE  \E a, b \in Int : Element(t, 1, Len(t), a, b) /\ c = SubSeq(t, a + 1, b - 1)
  <2>1. PICK ab \in ends \X ends :
               Adjacent(ab[1], ab[2]) /\ c = SubSeq(t, ab[1] + 1, ab[2] - 1)
    BY <1>2, <1>4
  <2>2. ab[1] \in ends /\ ab[2] \in ends
    OBVIOUS
  <2> QED
    BY <1>3, <2>1, <2>2
<1>5. ASSUME NEW a \in Int, NEW b \in Int, Element(t, 1, Len(t), a, b),
             c = SubSeq(t, a + 1, b - 1)
      PROVE  c \in Candidates(t)
  <2>1. a \in ends /\ b \in ends /\ Adjacent(a, b)
    BY <1>3, <1>5
  <2>2. PICK ab : ab = <<a, b>>
    OBVIOUS
  <2>3. ab \in ends \X ends /\ ab[1] = a /\ ab[2] = b
    BY <2>1, <2>2
  <2> QED
    BY <1>2, <1>5, <2>1, <2>3
<1> QED
  BY <1>4, <1>5

\* The elements of a part of the header, where they stand in the header.
LEMMA ElementMoves ==
    ASSUME NEW s, NEW t, NEW lo \in Int, NEW hi \in Int,
           \A k \in 1 .. hi - lo + 1 : t[k] = s[lo + k - 1],
           NEW a \in Int, NEW b \in Int
    PROVE  Element(t, 1, hi - lo + 1, a, b) <=> Element(s, lo, hi, a + lo - 1, b + lo - 1)
<1> DEFINE n == hi - lo + 1
           c == a + lo - 1
           d == b + lo - 1
<1>1. (a \in 1 - 1 .. n /\ b \in a + 1 .. n + 1) <=> (c \in lo - 1 .. hi /\ d \in c + 1 .. hi + 1)
  OBVIOUS
<1>2. (a = 1 - 1 <=> c = lo - 1) /\ (b = n + 1 <=> d = hi + 1)
  OBVIOUS
<1>3. a \in 1 .. n => t[a] = s[c]
  <2>1. lo + a - 1 = c
    OBVIOUS
  <2> QED
    BY <2>1
<1>4. b \in 1 .. n => t[b] = s[d]
  <2>1. lo + b - 1 = d
    OBVIOUS
  <2> QED
    BY <2>1
<1>5. ASSUME a \in 1 - 1 .. n, b \in a + 1 .. n + 1
      PROVE  (\A k \in a + 1 .. b - 1 : ~ IsComma(t[k]))
             <=> (\A k \in c + 1 .. d - 1 : ~ IsComma(s[k]))
  <2>1. ASSUME NEW k \in a + 1 .. b - 1
        PROVE  k + lo - 1 \in c + 1 .. d - 1 /\ t[k] = s[k + lo - 1]
    <3>1. k \in 1 .. n /\ lo + k - 1 = k + lo - 1
      BY <1>5
    <3>2. t[k] = s[lo + k - 1]
      BY <3>1
    <3>3. k + lo - 1 \in c + 1 .. d - 1
      BY <1>5
    <3> QED
      BY <3>1, <3>2, <3>3
  <2>2. ASSUME NEW k \in c + 1 .. d - 1
        PROVE  k - lo + 1 \in a + 1 .. b - 1 /\ s[k] = t[k - lo + 1]
    <3>1. k - lo + 1 \in 1 .. n /\ lo + (k - lo + 1) - 1 = k
      BY <1>5
    <3>2. t[k - lo + 1] = s[lo + (k - lo + 1) - 1]
      BY <3>1
    <3>3. k - lo + 1 \in a + 1 .. b - 1
      BY <1>5
    <3> QED
      BY <3>1, <3>2, <3>3
  <2> HIDE DEF c, d, n
  <2> QED
    BY <2>1, <2>2
<1>6. ASSUME a \in 1 - 1 .. n, b \in a + 1 .. n + 1
      PROVE  /\ a = 1 - 1 \/ a \in 1 .. n
             /\ b = n + 1 \/ b \in 1 .. n
  BY <1>6
<1> HIDE DEF c, d, n
<1>7. Element(t, 1, n, a, b) <=> Element(s, lo, hi, c, d)
  BY <1>1, <1>2, <1>3, <1>4, <1>5, <1>6 DEF Element
<1> QED
  BY <1>7 DEF c, d, n

LEMMA CandidatesOfPart ==
    ASSUME NEW C, NEW s \in Seq(C), NEW lo \in 1 .. Len(s) + 1, NEW hi \in lo - 1 .. Len(s),
           NEW c
    PROVE  c \in Candidates(SubSeq(s, lo, hi)) <=>
              \E a, b \in Int : Element(s, lo, hi, a, b) /\ c = SubSeq(s, a + 1, b - 1)
<1> DEFINE t == SubSeq(s, lo, hi)
           n == hi - lo + 1
<1>1. t \in Seq(C) /\ Len(t) = n /\ \A k \in 1 .. n : t[k] = s[lo + k - 1]
  BY CutOut
<1>2. lo \in Int /\ hi \in Int /\ n \in Nat /\ lo >= 1 /\ hi >= lo - 1
  OBVIOUS
<1>3. c \in Candidates(t) <=>
         \E a, b \in Int : Element(t, 1, n, a, b) /\ c = SubSeq(t, a + 1, b - 1)
  <2> HIDE DEF n, t
  <2> QED
    BY <1>1, CandidatesAre
<1>4. ASSUME NEW a \in Int, NEW b \in Int
      PROVE  Element(t, 1, n, a, b) <=> Element(s, lo, hi, a + lo - 1, b + lo - 1)
  <2> HIDE DEF t
  <2> QED
    BY <1>1, <1>2, ElementMoves
<1>5. ASSUME NEW a \in Int, NEW b \in Int, Element(t, 1, n, a, b)
      PROVE  SubSeq(t, a + 1, b - 1) = SubSeq(s, a + lo, b + lo - 2)
  <2>1. a \in 0 .. n /\ b \in a + 1 .. n + 1
    <3>1. a \in 1 - 1 .. n /\ b \in a + 1 .. n + 1
      BY <1>5 DEF Element
    <3> QED
      BY <3>1
  <2> DEFINE x == a + 1
             y == b - 1
  <2>2. x \in 1 .. (hi - lo + 1) + 1 /\ y \in x - 1 .. hi - lo + 1
    BY <1>2, <2>1
  <2>3. lo + x - 1 = a + lo /\ lo + y - 1 = b + lo - 2
    BY <1>2, <2>1
  <2> HIDE DEF x, y
  <2>4. SubSeq(SubSeq(s, lo, hi), x, y) = SubSeq(s, lo + x - 1, lo + y - 1)
    BY <2>2, CutOutTwice
  <2> QED
    BY <2>3, <2>4 DEF x, y
<1> HIDE DEF t, n
<1>6. ASSUME c \in Candidates(t)
      PROVE  \E a, b \in Int : Element(s, lo, hi, a, b) /\ c = SubSeq(s, a + 1, b - 1)
  <2>1. PICK a, b \in Int : Element(t, 1, n, a, b) /\ c = SubSeq(t, a + 1, b - 1)
    BY <1>3, <1>6
  <2>2. Element(s, lo, hi, a + lo - 1, b + lo - 1) /\ c = SubSeq(s, a + lo, b + lo - 2)
    BY <1>4, <1>5, <2>1
  <2>3. (a + lo - 1) + 1 = a + lo /\ (b + lo - 1) - 1 = b + lo - 2
        /\ a + lo - 1 \in Int /\ b + lo - 1 \in Int
    BY <1>2
  <2> QED
    BY <2>2, <2>3
<1>7. ASSUME NEW a \in Int, NEW b \in Int, Element(s, lo, hi, a, b),
             c = SubSeq(s, a + 1, b - 1)
      PROVE  c \in Candidates(t)
  <2> DEFINE x == a - lo + 1
             y == b - lo + 1
  <2>1. x \in Int /\ y \in Int /\ x + lo - 1 = a /\ y + lo - 1 = b
        /\ x + lo = a + 1 /\ y + lo - 2 = b - 1
    BY <1>2
  <2> HIDE DEF x, y
  <2>2. Element(t, 1, n, x, y)
    BY <1>4, <1>7, <2>1
  <2>3. c = SubSeq(t, x + 1, y - 1)
    BY <1>5, <1>7, <2>1, <2>2
  <2> QED
    BY <1>3, <2>1, <2>2, <2>3
<1> QED
  BY <1>6, <1>7 DEF t
-----------------------------------------------------------------------------
LEMMA ETagFacts ==
    /\ ETag \in Seq(HeaderParts) /\ Len(ETag) >= 2
    /\ ETag[1] \notin Blank /\ ETag[1] # "W/" /\ ETag[Len(ETag)] \notin Blank
    /\ \A k \in 1 .. Len(ETag) : ~ IsComma(ETag[k])
<1>1. ETag \in Seq(HeaderParts) /\ Len(ETag) >= 2
  BY ETagIsQuoted, Zenon
<1>2. ETag[1] = "\"" /\ ETag[Len(ETag)] = "\"" /\ \A k \in DOMAIN ETag : ~ IsComma(ETag[k])
  BY ETagIsQuoted, Zenon DEF IsComma
<1>3. DOMAIN ETag = 1 .. Len(ETag)
  BY <1>1
<1>4. "\"" \notin Blank /\ "\"" # "W/"
  BY Zenon DEF Blank
<1> QED
  BY <1>1, <1>2, <1>3, <1>4, Zenon

LEMMA InkOfAList ==
    /\ \A part : IsComma(part) => part \notin Blank /\ part # "W/"
    /\ "W/" \notin Blank
BY Zenon DEF IsComma, Blank

LEMMA TailCutsOut ==
    ASSUME NEW C, NEW s \in Seq(C), NEW l \in 1 .. Len(s), NEW h \in l .. Len(s)
    PROVE  /\ SubSeq(s, l, h) # <<>> /\ Head(SubSeq(s, l, h)) = s[l]
           /\ Tail(SubSeq(s, l, h)) = SubSeq(s, l + 1, h)
<1> DEFINE w == SubSeq(s, l, h)
<1>1. l \in 1 .. Len(s) + 1 /\ h \in l - 1 .. Len(s) /\ l + 1 \in 1 .. Len(s) + 1
      /\ h \in (l + 1) - 1 .. Len(s)
  OBVIOUS
<1>2. /\ w \in Seq(C) /\ Len(w) = h - l + 1
      /\ \A k \in 1 .. h - l + 1 : w[k] = s[l + k - 1]
  BY <1>1, CutOut
<1> HIDE DEF w
<1>3. 1 \in 1 .. h - l + 1 /\ l + 1 - 1 = l
  OBVIOUS
<1>4. w # <<>> /\ Head(w) = s[l]
  BY <1>2, <1>3
<1> DEFINE u == Tail(w)
           v == SubSeq(s, l + 1, h)
<1>5. u \in Seq(C) /\ Len(u) = h - l /\ \A k \in 1 .. h - l : u[k] = w[k + 1]
  BY <1>2, <1>4
<1>6. /\ v \in Seq(C) /\ Len(v) = h - (l + 1) + 1
      /\ \A k \in 1 .. h - (l + 1) + 1 : v[k] = s[(l + 1) + k - 1]
  BY <1>1, CutOut
<1> HIDE DEF u, v
<1>7. ASSUME NEW k \in 1 .. h - l
      PROVE  u[k] = v[k]
  <2>1. k + 1 \in 1 .. h - l + 1 /\ k \in 1 .. h - (l + 1) + 1
        /\ l + (k + 1) - 1 = (l + 1) + k - 1
    OBVIOUS
  <2> QED
    BY <1>2, <1>5, <1>6, <2>1
<1>8. Len(u) = Len(v)
  BY <1>5, <1>6
<1>9. u = v
  BY <1>5, <1>6, <1>7, <1>8
<1> QED
  BY <1>4, <1>9 DEF u, v, w

\* An element that matches is the etag, behind W/ or not, among blanks and commas.
LEMMA GivenIsListed ==
    ASSUME NEW s \in Seq(HeaderParts),
           NEW lo \in Int, NEW hi \in Int, Tight(s, 1, Len(s), lo, hi),
           NEW a \in Int, NEW b \in Int, Element(s, lo, hi, a, b),
           NEW l \in Int, NEW h \in Int, Tight(s, a + 1, b - 1, l, h),
           Strong(SubSeq(s, l, h)) = ETag
    PROVE  ListedIn(ETag, s)
<1> DEFINE n == Len(s)
<1>1. n \in Nat
  OBVIOUS
<1>2. lo \in 1 .. n + 1 /\ hi \in lo - 1 .. n
      /\ (\A k \in 1 .. lo - 1 : s[k] \in Blank) /\ (\A k \in hi + 1 .. n : s[k] \in Blank)
  BY DEF Tight
<1>3. a \in lo - 1 .. hi /\ b \in a + 1 .. hi + 1
      /\ (a = lo - 1 \/ IsComma(s[a])) /\ (b = hi + 1 \/ IsComma(s[b]))
  BY DEF Element
<1>4. l \in a + 1 .. (b - 1) + 1 /\ h \in l - 1 .. b - 1
      /\ (\A k \in a + 1 .. l - 1 : s[k] \in Blank)
      /\ (\A k \in h + 1 .. b - 1 : s[k] \in Blank)
  BY DEF Tight
<1> HIDE DEF n
<1>5. l \in 1 .. n + 1 /\ h \in l - 1 .. n
  BY <1>1, <1>2, <1>3, <1>4
<1>6. l <= h
  <2>1. SUFFICES ASSUME h = l - 1 PROVE FALSE
    BY <1>5
  <2>2. Len(SubSeq(s, l, h)) = 0 /\ SubSeq(s, l, h) \in Seq(HeaderParts)
    <3>1. l \in 1 .. Len(s) + 1 /\ h \in l - 1 .. Len(s) /\ h - l + 1 = 0
      BY <1>5, <2>1 DEF n
    <3> QED
      BY <3>1, CutOut
  <2>3. SubSeq(s, l, h) = <<>>
    BY <2>2
  <2>4. ETag = <<>>
    BY <2>3 DEF Strong
  <2> QED
    BY <2>4, ETagFacts
<1>7. PICK from \in l - 1 .. l : SubSeq(s, from + 1, h) = ETag /\ (from = l => s[l] = "W/")
  <2> DEFINE w == SubSeq(s, l, h)
  <2>1. w # <<>> /\ Head(w) = s[l] /\ Tail(w) = SubSeq(s, l + 1, h)
    <3>1. l \in 1 .. Len(s) /\ h \in l .. Len(s)
      BY <1>1, <1>5, <1>6 DEF n
    <3> QED
      BY <3>1, TailCutsOut
  <2>2. CASE s[l] = "W/"
    <3>1. ETag = SubSeq(s, l + 1, h)
      BY <2>1, <2>2 DEF Strong
    <3>2. l \in l - 1 .. l
      OBVIOUS
    <3> QED
      BY <2>2, <3>1, <3>2
  <2>3. CASE s[l] # "W/"
    <3>1. ETag = SubSeq(s, l, h)
      BY <2>1, <2>3 DEF Strong
    <3>2. l - 1 \in l - 1 .. l /\ (l - 1) + 1 = l /\ l - 1 # l
      OBVIOUS
    <3> QED
      BY <3>1, <3>2
  <2> QED
    BY <2>2, <2>3
<1>8. from \in 0 .. n /\ h \in 0 .. n /\ from \in Int
  BY <1>1, <1>5, <1>6
<1>9. \E x \in 0 .. from : /\ x = 0 \/ s[x] = ","
                           /\ \A k \in x + 1 .. from :
                                 s[k] \in Blank \/ (k = from /\ s[k] = "W/")
  <2>1. ASSUME NEW k \in a + 1 .. from
        PROVE  s[k] \in Blank \/ (k = from /\ s[k] = "W/")
    <3>1. k \in a + 1 .. l - 1 \/ (k = l /\ k = from)
      BY <1>4, <1>7, <1>8
    <3>2. CASE k \in a + 1 .. l - 1
      BY <1>4, <3>2
    <3>3. CASE k = l /\ k = from
      <4>1. from = l
        BY <3>3
      <4>2. s[l] = "W/"
        BY <1>7, <4>1
      <4> QED
        BY <3>3, <4>2
    <3> QED
      BY <3>1, <3>2, <3>3
  <2>2. CASE a = lo - 1
    <3>1. \A k \in 0 + 1 .. from : k \in 1 .. lo - 1 \/ k \in a + 1 .. from
      BY <1>2, <2>2
    <3>2. 0 \in 0 .. from
      BY <1>8
    <3> QED
      BY <1>2, <2>1, <3>1, <3>2
  <2>3. CASE a # lo - 1
    <3>1. a \in 0 .. from
      BY <1>2, <1>3, <1>4, <1>7, <1>8
    <3>2. s[a] = ","
      BY <1>3, <2>3, Zenon DEF IsComma
    <3> QED
      BY <2>1, <3>1, <3>2, Zenon
  <2> QED
    BY <2>2, <2>3
<1>10. \E x \in h + 1 .. n + 1 : /\ x = n + 1 \/ s[x] = ","
                                 /\ \A k \in h + 1 .. x - 1 : s[k] \in Blank
  <2>1. CASE b = hi + 1
    <3>1. \A k \in h + 1 .. (n + 1) - 1 : k \in h + 1 .. b - 1 \/ k \in hi + 1 .. n
      BY <1>1, <1>2, <1>3, <2>1
    <3>2. n + 1 \in h + 1 .. n + 1
      BY <1>1, <1>8
    <3> QED
      BY <1>2, <1>4, <3>1, <3>2
  <2>2. CASE b # hi + 1
    <3>1. b \in h + 1 .. n + 1
      BY <1>1, <1>2, <1>3, <1>4, <2>2
    <3>2. s[b] = ","
      BY <1>3, <2>2, Zenon DEF IsComma
    <3> QED
      BY <1>4, <3>1, <3>2, Zenon
  <2> QED
    BY <2>1, <2>2
<1>11. from \in 0 .. Len(s) /\ h \in 0 .. Len(s) /\ SubSeq(s, from + 1, h) = ETag
  <2>1. from \in 0 .. Len(s) /\ h \in 0 .. Len(s)
    BY <1>8 DEF n
  <2>2. SubSeq(s, from + 1, h) = ETag
    BY <1>7
  <2> QED
    BY <2>1, <2>2
<1> QED
  BY <1>9, <1>10, <1>11, Zenon DEF ListedIn, n

\* The etag among blanks and commas, behind W/ or not, is an element that matches.
LEMMA ListedIsGiven ==
    ASSUME NEW s \in Seq(HeaderParts), ListedIn(ETag, s),
           NEW lo \in Int, NEW hi \in Int, Tight(s, 1, Len(s), lo, hi)
    PROVE  /\ lo <= hi
           /\ \E a, b, l, h \in Int :
                 /\ Element(s, lo, hi, a, b)
                 /\ Tight(s, a + 1, b - 1, l, h) /\ l <= h
                 /\ Strong(SubSeq(s, l, h)) = ETag
<1> DEFINE n == Len(s)
           M == Len(ETag)
<1>1. n \in Nat /\ M \in Nat /\ M >= 2
  BY ETagFacts
<1>2. lo \in 1 .. n + 1 /\ hi \in lo - 1 .. n
      /\ (\A k \in 1 .. lo - 1 : s[k] \in Blank) /\ (\A k \in hi + 1 .. n : s[k] \in Blank)
  BY DEF Tight
<1>3. PICK A, B \in 0 .. n :
        /\ SubSeq(s, A + 1, B) = ETag
        /\ \E x \in 0 .. A : /\ x = 0 \/ s[x] = ","
                            /\ \A k \in x + 1 .. A : s[k] \in Blank \/ (k = A /\ s[k] = "W/")
        /\ \E y \in B + 1 .. n + 1 : /\ y = n + 1 \/ s[y] = ","
                                     /\ \A k \in B + 1 .. y - 1 : s[k] \in Blank
  BY Zenon DEF ListedIn
<1>4. PICK x \in 0 .. A : /\ x = 0 \/ IsComma(s[x])
                          /\ \A k \in x + 1 .. A : s[k] \in Blank \/ (k = A /\ s[k] = "W/")
  BY <1>3, Zenon DEF IsComma
<1>5. PICK y \in B + 1 .. n + 1 : /\ y = n + 1 \/ IsComma(s[y])
                                  /\ \A k \in B + 1 .. y - 1 : s[k] \in Blank
  BY <1>3, Zenon DEF IsComma
<1>6. SubSeq(s, A + 1, B) = ETag
  BY <1>3, Zenon
<1>7. A < B
  <2>1. SUFFICES ASSUME ~ (A < B) PROVE FALSE
    OBVIOUS
  <2>2. Len(SubSeq(s, A + 1, B)) = 0
    BY <1>1, <2>1
  <2> QED
    BY <1>1, <1>6, <2>2
<1>8. A + 1 \in 1 .. n + 1 /\ B \in (A + 1) - 1 .. n
  BY <1>1, <1>7
<1>9. M = B - A /\ \A k \in 1 .. M : ETag[k] = s[A + k]
  <2>1. /\ Len(SubSeq(s, A + 1, B)) = B - (A + 1) + 1
        /\ \A k \in 1 .. B - (A + 1) + 1 : SubSeq(s, A + 1, B)[k] = s[(A + 1) + k - 1]
    BY <1>8, CutOut
  <2>2. B - (A + 1) + 1 = B - A /\ \A k \in Int : (A + 1) + k - 1 = A + k
    BY <1>8
  <2>3. M = B - A
    BY <1>6, <2>1, <2>2 DEF M
  <2>4. ASSUME NEW k \in 1 .. M
        PROVE  ETag[k] = s[A + k]
    <3>1. k \in 1 .. B - (A + 1) + 1 /\ (A + 1) + k - 1 = A + k
      BY <2>2, <2>3, <2>4
    <3>2. SubSeq(s, A + 1, B)[k] = s[A + k]
      BY <2>1, <3>1
    <3> QED
      BY <1>6, <3>2
  <2> QED
    BY <2>3, <2>4
<1> HIDE DEF n, M
<1>10. /\ s[A + 1] \notin Blank /\ s[A + 1] # "W/" /\ s[B] \notin Blank
       /\ \A k \in A + 1 .. B : ~ IsComma(s[k])
  <2>1. 1 \in 1 .. M /\ M \in 1 .. M /\ A + M = B
    BY <1>1, <1>9
  <2>2. ETag[1] = s[A + 1] /\ ETag[M] = s[B]
    BY <1>9, <2>1
  <2>3. ASSUME NEW k \in A + 1 .. B
        PROVE  ~ IsComma(s[k])
    <3>1. k - A \in 1 .. M /\ A + (k - A) = k
      BY <1>9
    <3>2. ~ IsComma(ETag[k - A])
      BY <3>1, ETagFacts DEF M
    <3> QED
      BY <1>9, <3>1, <3>2
  <2> QED
    BY <2>2, <2>3, ETagFacts, Zenon DEF M
<1>11. lo <= A + 1 /\ B <= hi
  <2>1. ~ (A + 1 \in 1 .. lo - 1) /\ ~ (B \in hi + 1 .. n)
    BY <1>2, <1>10
  <2> QED
    BY <1>1, <1>2, <1>7, <1>8, <2>1
<1> DEFINE a == IF x = 0 THEN lo - 1 ELSE x
           b == IF y = n + 1 THEN hi + 1 ELSE y
<1>12. x # 0 => lo <= x
  <2>1. x # 0 => ~ (x \in 1 .. lo - 1)
    BY <1>2, <1>4, InkOfAList
  <2> QED
    BY <1>2, <2>1
<1>13. y # n + 1 => y <= hi
  <2>1. y # n + 1 => ~ (y \in hi + 1 .. n)
    BY <1>2, <1>5, InkOfAList
  <2> QED
    BY <1>1, <1>2, <1>5, <2>1
<1>14. a \in Int /\ a >= x /\ a \in lo - 1 .. A /\ (a = lo - 1 \/ IsComma(s[a]))
  <2>1. CASE x = 0
    BY <1>1, <1>2, <1>8, <1>11, <2>1
  <2>2. CASE x # 0
    <3>1. a = x
      BY <2>2
    <3> QED
      BY <1>2, <1>4, <1>12, <2>2, <3>1
  <2> QED
    BY <2>1, <2>2
<1>15. b \in Int /\ b <= y /\ b \in B + 1 .. hi + 1 /\ (b = hi + 1 \/ IsComma(s[b]))
  <2>1. CASE y = n + 1
    BY <1>1, <1>2, <1>8, <1>11, <2>1
  <2>2. CASE y # n + 1
    <3>1. b = y
      BY <2>2
    <3> QED
      BY <1>1, <1>2, <1>5, <1>8, <1>13, <2>2, <3>1
  <2> QED
    BY <2>1, <2>2
<1> HIDE DEF a, b
<1>16. Element(s, lo, hi, a, b)
  <2>1. a \in lo - 1 .. hi /\ b \in a + 1 .. hi + 1
    BY <1>2, <1>7, <1>8, <1>11, <1>14, <1>15
  <2>2. ASSUME NEW k \in a + 1 .. b - 1
        PROVE  ~ IsComma(s[k])
    <3>1. k \in x + 1 .. A \/ k \in A + 1 .. B \/ k \in B + 1 .. y - 1
      BY <1>1, <1>8, <1>14, <1>15
    <3>2. CASE k \in x + 1 .. A
      <4>1. s[k] \in Blank \/ s[k] = "W/"
        BY <1>4, <3>2
      <4> QED
        BY <4>1, InkOfAList
    <3>3. CASE k \in B + 1 .. y - 1
      BY <1>5, <3>3, InkOfAList
    <3> QED
      BY <1>10, <3>1, <3>2, <3>3
  <2> QED
    BY <1>14, <1>15, <2>1, <2>2 DEF Element
<1>17. CASE A > a /\ s[A] = "W/"
  <2>1. A \in a + 1 .. (b - 1) + 1 /\ B \in A - 1 .. b - 1 /\ A <= B /\ A \in Int /\ B \in Int
    BY <1>1, <1>7, <1>8, <1>14, <1>15, <1>17
  <2>2. ASSUME NEW k \in a + 1 .. A - 1
        PROVE  s[k] \in Blank
    <3>1. k \in x + 1 .. A /\ k # A
      BY <1>8, <1>14
    <3> QED
      BY <1>4, <3>1
  <2>3. ASSUME NEW k \in B + 1 .. b - 1
        PROVE  s[k] \in Blank
    <3>1. k \in B + 1 .. y - 1
      BY <1>8, <1>15
    <3> QED
      BY <1>5, <3>1
  <2>4. s[A] \notin Blank
    BY <1>17, InkOfAList
  <2>5. Tight(s, a + 1, b - 1, A, B)
    BY <1>10, <2>1, <2>2, <2>3, <2>4 DEF Tight
  <2>6. Strong(SubSeq(s, A, B)) = ETag
    <3>1. A \in 1 .. Len(s) /\ B \in A .. Len(s)
      BY <1>1, <1>2, <1>7, <1>8, <1>14, <1>17 DEF n
    <3>2. /\ SubSeq(s, A, B) # <<>> /\ Head(SubSeq(s, A, B)) = s[A]
          /\ Tail(SubSeq(s, A, B)) = SubSeq(s, A + 1, B)
      BY <3>1, TailCutsOut
    <3> QED
      BY <1>6, <1>17, <3>2, Zenon DEF Strong
  <2> QED
    BY <1>7, <1>11, <1>14, <1>15, <1>16, <2>1, <2>5, <2>6
<1>18. CASE ~ (A > a /\ s[A] = "W/")
  <2>1. A + 1 \in a + 1 .. (b - 1) + 1 /\ B \in (A + 1) - 1 .. b - 1 /\ A + 1 <= B
        /\ A + 1 \in Int /\ B \in Int
    BY <1>1, <1>7, <1>8, <1>14, <1>15
  <2>2. ASSUME NEW k \in a + 1 .. (A + 1) - 1
        PROVE  s[k] \in Blank
    <3>1. k \in x + 1 .. A /\ (k = A => A > a)
      BY <1>8, <1>14
    <3>2. s[k] \in Blank \/ (k = A /\ s[k] = "W/")
      BY <1>4, <3>1
    <3> QED
      BY <1>18, <3>1, <3>2
  <2>3. ASSUME NEW k \in B + 1 .. b - 1
        PROVE  s[k] \in Blank
    <3>1. k \in B + 1 .. y - 1
      BY <1>8, <1>15
    <3> QED
      BY <1>5, <3>1
  <2>4. Tight(s, a + 1, b - 1, A + 1, B)
    BY <1>10, <2>1, <2>2, <2>3 DEF Tight
  <2>5. Strong(SubSeq(s, A + 1, B)) = ETag
    <3>1. A + 1 \in 1 .. Len(s) /\ B \in A + 1 .. Len(s)
      BY <1>1, <1>7, <1>8 DEF n
    <3>2. Head(SubSeq(s, A + 1, B)) = s[A + 1]
      BY <3>1, TailCutsOut
    <3> QED
      BY <1>6, <1>10, <3>2, Zenon DEF Strong
  <2> QED
    BY <1>7, <1>11, <1>14, <1>15, <1>16, <2>1, <2>4, <2>5
<1> QED
  BY <1>17, <1>18

LEMMA MatchesWhatIsListedIn ==
    ASSUME NEW s \in Seq(HeaderParts)
    PROVE  ETagMatches(s, ETag) <=> TrimSpace(s) = <<"*">> \/ ListedIn(ETag, s)
<1> DEFINE given == TrimSpace(s)
<1>1. PICK lo, hi \in 0 .. Len(s) + 1 : Tight(s, 1, Len(s), lo, hi) /\ given = SubSeq(s, lo, hi)
  BY TrimIsTight
<1>2. lo \in Int /\ hi \in Int /\ lo \in 1 .. Len(s) + 1 /\ hi \in lo - 1 .. Len(s)
  BY <1>1 DEF Tight
<1> HIDE DEF given
<1>3. \A c : c \in Candidates(given) <=>
               \E a, b \in Int : Element(s, lo, hi, a, b) /\ c = SubSeq(s, a + 1, b - 1)
  BY <1>1, <1>2, CandidatesOfPart
<1>4. ASSUME NEW a \in Int, NEW b \in Int, Element(s, lo, hi, a, b)
      PROVE  a + 1 \in 1 .. Len(s) + 1 /\ b - 1 \in (a + 1) - 1 .. Len(s)
  <2>1. a \in lo - 1 .. hi /\ b \in a + 1 .. hi + 1
    BY <1>4 DEF Element
  <2> QED
    BY <1>2, <2>1
<1>5. ASSUME NEW c \in Candidates(given), Strong(TrimSpace(c)) = ETag
      PROVE  ListedIn(ETag, s)
  <2>1. PICK a, b \in Int : Element(s, lo, hi, a, b) /\ c = SubSeq(s, a + 1, b - 1)
    BY <1>3
  <2>2. PICK l, h \in Int : Tight(s, a + 1, b - 1, l, h) /\ TrimSpace(c) = SubSeq(s, l, h)
    BY <1>4, <2>1, TrimCutsTight
  <2> QED
    BY <1>1, <1>2, <1>5, <2>1, <2>2, GivenIsListed
<1>6. ASSUME ListedIn(ETag, s)
      PROVE  given # <<>> /\ \E c \in Candidates(given) : Strong(TrimSpace(c)) = ETag
  <2>1. lo <= hi
    BY <1>1, <1>2, <1>6, ListedIsGiven
  <2>2. PICK a, b, l, h \in Int :
               /\ Element(s, lo, hi, a, b)
               /\ Tight(s, a + 1, b - 1, l, h) /\ l <= h
               /\ Strong(SubSeq(s, l, h)) = ETag
    BY <1>1, <1>2, <1>6, ListedIsGiven
  <2>3. SubSeq(s, a + 1, b - 1) \in Candidates(given)
    BY <1>3, <2>2
  <2>4. PICK k, m \in Int : /\ Tight(s, a + 1, b - 1, k, m)
                            /\ TrimSpace(SubSeq(s, a + 1, b - 1)) = SubSeq(s, k, m)
    BY <1>4, <2>2, TrimCutsTight
  <2>5. k = l /\ m = h
    BY <2>2, <2>4, TightOnce
  <2>6. given # <<>>
    <3>1. Len(given) = hi - lo + 1
      BY <1>1, <1>2, CutOut
    <3>2. Len(given) # 0
      BY <1>2, <2>1, <3>1
    <3> QED
      BY <3>2
  <2> QED
    BY <2>2, <2>3, <2>4, <2>5, <2>6
<1> QED
  BY <1>5, <1>6, Zenon DEF ETagMatches, given

MatchInv ==
    task.call = "match" =>
       /\ task.text \in Seq(HeaderParts) /\ task.with = ETag
       /\ answer # "running" =>
             (answer = "yes" <=> TrimSpace(task.text) = <<"*">> \/ ListedIn(task.with, task.text))

LEMMA InitMatch == Init => MatchInv
<1> SUFFICES ASSUME Init, task.call = "match"
             PROVE  /\ task.text \in Seq(HeaderParts) /\ task.with = ETag
                    /\ answer = "running"
  BY DEF MatchInv
<1>1. PICK s \in Upto(HeaderParts, MaxHeader) :
             task = [call |-> "match", text |-> s, with |-> ETag]
  BY DEF Init
<1>2. s \in Seq(HeaderParts)
  BY UptoIs, TextsBounds
<1> QED
  BY <1>1, <1>2 DEF Init

LEMMA MatchStep == MatchInv /\ [Next]_textVars => MatchInv'
<1> SUFFICES ASSUME MatchInv, [Next]_textVars, task.call = "match", task' = task
             PROVE  MatchInv'
  BY SameTask DEF MatchInv
<1>1. CASE UNCHANGED textVars
  BY <1>1 DEF MatchInv, textVars
<1>2. CASE Match
  <2>1. answer' = IF ETagMatches(task.text, task.with) THEN "yes" ELSE "no"
    BY <1>2 DEF Match
  <2>2. ETagMatches(task.text, task.with) <=>
           TrimSpace(task.text) = <<"*">> \/ ListedIn(task.with, task.text)
    BY MatchesWhatIsListedIn DEF MatchInv
  <2> QED
    BY <2>1, <2>2 DEF MatchInv
<1>3. ~ (InComment \/ InString \/ StartComment \/ EndStatement \/ Take \/ EndOfFile \/ Search)
  <2>1. task.call # "split" /\ task.call # "search"
    OBVIOUS
  <2> QED
    BY <2>1, Zenon DEF InComment, InString, StartComment, EndStatement, Take, EndOfFile, Search,
       InCode, Splitting
<1> QED
  BY <1>1, <1>2, <1>3, Zenon DEF Next

\* A request is answered 304 for the ETag that its header lists between commas and blanks,
\* weak or not, or for the wildcard, and for no other: for every header of every length.
THEOREM MatchesWhatIsListedCorrect == Spec => []MatchesWhatIsListed
<1>1. MatchInv => MatchesWhatIsListed
  BY DEF MatchInv, MatchesWhatIsListed
<1> QED
  BY <1>1, InitMatch, MatchStep, PTL DEF Spec
=============================================================================
