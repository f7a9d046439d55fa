----------------------------- MODULE YakuProofs ------------------------------
(***************************************************************************)
(* What splitSets returns, by induction on the number of sets: every       *)
(* decomposition it gives is one of the tally, and it gives one whenever   *)
(* there is one.  From that, what CheckWin reads in a complete hand: the   *)
(* hand, the yaku of its tiles and a value whose payments agree, for every *)
(* deck, hand and indicator and not only for those of MCHand.              *)
(***************************************************************************)
EXTENDS Hand, SequenceTheorems, FiniteSetTheorems, NaturalsInduction, TLAPS

-----------------------------------------------------------------------------
(* Induction and recursion over the numbers, stated for sets.              *)

\* A set of numbers that holds 0 and the successor of each holds them all.
LEMMA NatSets ==
  ASSUME NEW S \in SUBSET Nat, 0 \in S, \A n \in Nat : n \in S => n + 1 \in S
  PROVE  S = Nat
<1> SUFFICES ASSUME Nat \ S # {} PROVE FALSE
  OBVIOUS
<1>1. PICK x \in Nat \ S : \A y \in Nat \ S : ~(<<y, x>> \in OpToRel(<, Nat))
  BY NatLessThanWellFounded, WFMin
<1>2. x # 0 /\ x - 1 \in Nat
  OBVIOUS
<1>3. x - 1 \in S
  <2>1. <<x - 1, x>> \in OpToRel(<, Nat)
    BY <1>2 DEF OpToRel
  <2> QED
    BY <1>1, <1>2, <2>1
<1> QED
  BY <1>2, <1>3

\* A step taken again and again from a beginning.
Ladder(D, base, step, h) ==
  h \in [Nat -> D] /\ h[0] = base /\ \A n \in Nat : h[n + 1] = step[h[n]]

LEMMA Iterated ==
  ASSUME NEW D, NEW base \in D, NEW step \in [D -> D]
  PROVE  \E h : Ladder(D, base, step, h)
<1> DEFINE Runs(n, g) == /\ g \in [0 .. n -> D]
                         /\ g[0] = base
                         /\ \A i \in 0 .. n - 1 : g[i + 1] = step[g[i]]
<1>1. ASSUME NEW m \in Nat, NEW n \in Nat, NEW g, NEW f, Runs(m, g), Runs(n, f)
      PROVE  \A i \in Nat : i <= m /\ i <= n => g[i] = f[i]
  <2>1. PICK S : S = {i \in Nat : i <= m /\ i <= n => g[i] = f[i]}
    OBVIOUS
  <2>2. 0 \in S
    BY <1>1, <2>1
  <2>3. ASSUME NEW i \in Nat, i \in S PROVE i + 1 \in S
    <3> SUFFICES ASSUME i + 1 <= m, i + 1 <= n PROVE g[i + 1] = f[i + 1]
      BY <2>1
    <3>1. g[i] = f[i]
      BY <2>1, <2>3
    <3>2. i \in 0 .. m - 1 /\ i \in 0 .. n - 1
      OBVIOUS
    <3> QED
      BY <1>1, <3>1, <3>2
  <2>4. S = Nat
    BY <2>1, <2>2, <2>3, NatSets
  <2> QED
    BY <2>1, <2>4
<1>2. \A n \in Nat : \E g : Runs(n, g)
  <2>1. PICK S : S = {n \in Nat : \E g : Runs(n, g)}
    OBVIOUS
  <2>2. 0 \in S
    <3>1. Runs(0, [i \in 0 .. 0 |-> base])
      OBVIOUS
    <3> QED
      BY <2>1, <3>1
  <2>3. ASSUME NEW n \in Nat, n \in S PROVE n + 1 \in S
    <3>1. PICK g : Runs(n, g)
      BY <2>1, <2>3
    <3>2. PICK f : f = [i \in 0 .. n + 1 |-> IF i <= n THEN g[i] ELSE step[g[n]]]
      OBVIOUS
    <3>3. f \in [0 .. n + 1 -> D]
      BY <3>1, <3>2
    <3>4. f[0] = base
      BY <3>1, <3>2
    <3>5. \A i \in 0 .. (n + 1) - 1 : f[i + 1] = step[f[i]]
      BY <3>1, <3>2
    <3>6. Runs(n + 1, f)
      BY <3>3, <3>4, <3>5
    <3> QED
      BY <2>1, <3>6
  <2>4. S = Nat
    BY <2>1, <2>2, <2>3, NatSets
  <2> QED
    BY <2>1, <2>4
<1>3. PICK r : r = [n \in Nat |-> CHOOSE g : Runs(n, g)]
  OBVIOUS
<1>4. \A n \in Nat : Runs(n, r[n])
  BY <1>2, <1>3
<1>5. PICK h : h = [n \in Nat |-> r[n][n]]
  OBVIOUS
<1>6. h \in [Nat -> D]
  BY <1>4, <1>5
<1>7. h[0] = base
  BY <1>4, <1>5
<1>8. ASSUME NEW n \in Nat PROVE h[n + 1] = step[h[n]]
  <2>1. PICK m \in Nat : m = n + 1
    OBVIOUS
  <2>2. Runs(n, r[n]) /\ Runs(m, r[m])
    BY <1>4
  <2>3. r[m][n] = r[n][n]
    <3> HIDE DEF Runs
    <3>1. \A i \in Nat : i <= n /\ i <= m => r[n][i] = r[m][i]
      BY <1>1, <2>2
    <3> QED
      BY <2>1, <3>1
  <2>4. r[m][n + 1] = step[r[m][n]]
    BY <2>1, <2>2
  <2> QED
    BY <1>5, <2>1, <2>3, <2>4
<1> QED
  BY <1>6, <1>7, <1>8 DEF Ladder

-----------------------------------------------------------------------------
(* The recursion of splitSets.                                             *)

SetOf == [run : BOOLEAN, tile : Tile]

\* The lowest tile of what is left.
LEMMA LowestIs ==
  ASSUME NEW c \in Tally, Remaining(c) # {}
  PROVE  /\ Lowest(c) \in Tile
         /\ c[Lowest(c)] > 0
         /\ \A u \in Tile : c[u] > 0 => Lowest(c) <= u
<1>1. Remaining(c) \in SUBSET Nat
  BY YakuAssumption DEF Remaining, Tile
<1>2. PICK t \in Remaining(c) :
        \A u \in Remaining(c) : ~(<<u, t>> \in OpToRel(<, Nat))
  <2>1. PICK L \in SUBSET Nat : L = Remaining(c) /\ L # {}
    BY <1>1
  <2>2. \E t \in L : \A u \in L : ~(<<u, t>> \in OpToRel(<, Nat))
    BY <2>1, NatLessThanWellFounded, WFMin
  <2> QED
    BY <2>1, <2>2
<1>3. \A u \in Remaining(c) : ~(u < t)
  BY <1>1, <1>2 DEF OpToRel
<1>4. \A u \in Remaining(c) : t <= u
  BY <1>1, <1>3
<1>5. Lowest(c) \in Remaining(c) /\ \A u \in Remaining(c) : Lowest(c) <= u
  BY <1>4 DEF Lowest
<1> QED
  BY <1>5 DEF Remaining

\* What is taken is there.
LEMMA TakenIsTally ==
  ASSUME NEW c \in Tally, NEW t \in Tile
  PROVE  /\ FitsRun(c, t) => Take(c, [run |-> TRUE, tile |-> t]) \in Tally
         /\ c[t] >= 3 => Take(c, [run |-> FALSE, tile |-> t]) \in Tally
BY DEF Take, Tally, FitsRun, Run

\* One level of the recursion stays among sequences of sets.
LEMMA LevelType ==
  ASSUME NEW g \in [Tally -> SUBSET Seq(SetOf)], NEW c \in Tally
  PROVE  SplitLowest(g, c) \in SUBSET Seq(SetOf)
<1>1. CASE Remaining(c) = {}
  BY <1>1 DEF SplitLowest
<1>2. CASE Remaining(c) # {}
  <2>1. PICK t \in Tile : t = Lowest(c)
    BY <1>2, LowestIs
  <2>2. ASSUME NEW set \in SetOf, Take(c, set) \in Tally
        PROVE  {<<set>> \o s : s \in g[Take(c, set)]} \in SUBSET Seq(SetOf)
    <3>1. \A s \in g[Take(c, set)] : s \in Seq(SetOf)
      BY <2>2
    <3> QED
      BY <3>1
  <2>3. [run |-> TRUE, tile |-> t] \in SetOf /\ [run |-> FALSE, tile |-> t] \in SetOf
    BY DEF SetOf
  <2>4. FitsRun(c, t) => {<<[run |-> TRUE, tile |-> t]>> \o s :
            s \in g[Take(c, [run |-> TRUE, tile |-> t])]} \in SUBSET Seq(SetOf)
    BY <2>2, <2>3, TakenIsTally
  <2>5. c[t] >= 3 => {<<[run |-> FALSE, tile |-> t]>> \o s :
            s \in g[Take(c, [run |-> FALSE, tile |-> t])]} \in SUBSET Seq(SetOf)
    BY <2>2, <2>3, TakenIsTally
  <2> QED
    BY <2>1, <2>4, <2>5 DEF SplitLowest
<1> QED
  BY <1>1, <1>2

\* SplitSets is what its definition asks for.
LEMMA SplitSetsIs ==
  /\ SplitSets \in [Nat -> [Tally -> SUBSET Seq(SetOf)]]
  /\ \A c \in Tally : SplitSets[0][c] = IF Remaining(c) = {} THEN {<< >>} ELSE {}
  /\ \A n \in Nat, c \in Tally : SplitSets[n + 1][c] = SplitLowest(SplitSets[n], c)
<1>1. PICK D : D = [Tally -> SUBSET Seq(SetOf)]
  OBVIOUS
<1>2. PICK base \in D : base = [c \in Tally |-> IF Remaining(c) = {} THEN {<< >>} ELSE {}]
  <2>1. << >> \in Seq(SetOf)
    OBVIOUS
  <2> QED
    BY <1>1, <2>1
<1>3. PICK step \in [D -> D] : step = [g \in D |-> [c \in Tally |-> SplitLowest(g, c)]]
  BY <1>1, LevelType
<1>4. PICK h : /\ h \in [Nat -> D]
               /\ h[0] = base
               /\ \A n \in Nat : h[n + 1] = step[h[n]]
  BY Iterated DEF Ladder
<1>5. ASSUME NEW n \in Nat
      PROVE  h[n] = IF n = 0 THEN [c \in Tally |-> IF Remaining(c) = {} THEN {<< >>} ELSE {}]
                             ELSE [c \in Tally |-> SplitLowest(h[n - 1], c)]
  <2>1. CASE n = 0
    BY <1>2, <1>4, <2>1
  <2>2. CASE n # 0
    <3>1. PICK m \in Nat : m = n - 1
      BY <2>2
    <3>2. h[n] = step[h[m]]
      BY <1>4, <3>1
    <3>3. h[m] \in D
      BY <1>4, <3>1
    <3>4. step[h[m]] = [c \in Tally |-> SplitLowest(h[m], c)]
      BY <1>3, <3>3
    <3> QED
      BY <2>2, <3>1, <3>2, <3>4
  <2> QED
    BY <2>1, <2>2
<1>6. h = [n \in Nat |->
             IF n = 0 THEN [c \in Tally |-> IF Remaining(c) = {} THEN {<< >>} ELSE {}]
                      ELSE [c \in Tally |-> SplitLowest(h[n - 1], c)]]
  BY <1>4, <1>5
<1>7. SplitSets = [n \in Nat |->
             IF n = 0 THEN [c \in Tally |-> IF Remaining(c) = {} THEN {<< >>} ELSE {}]
                      ELSE [c \in Tally |-> SplitLowest(SplitSets[n - 1], c)]]
  BY <1>6 DEF SplitSets
<1>8. \A c \in Tally : SplitSets[0][c] = IF Remaining(c) = {} THEN {<< >>} ELSE {}
  BY <1>7
<1>9. ASSUME NEW n \in Nat, NEW c \in Tally
      PROVE  SplitSets[n + 1][c] = SplitLowest(SplitSets[n], c)
  <2>1. PICK m \in Nat : m = n + 1 /\ m # 0 /\ m - 1 = n
    OBVIOUS
  <2>2. SplitSets[m] = [d \in Tally |-> SplitLowest(SplitSets[m - 1], d)]
    BY <1>7, <2>1
  <2> QED
    BY <2>1, <2>2
<1>10. PICK S : S = {n \in Nat : SplitSets[n] \in D}
  OBVIOUS
<1>11. 0 \in S
  BY <1>2, <1>7, <1>10
<1>12. ASSUME NEW n \in Nat, n \in S
       PROVE  n + 1 \in S
  <2>1. PICK m \in Nat : m = n + 1 /\ m # 0 /\ m - 1 = n
    OBVIOUS
  <2>2. SplitSets[m] = [d \in Tally |-> SplitLowest(SplitSets[n], d)]
    BY <1>7, <2>1
  <2>3. SplitSets[n] \in D
    BY <1>10, <1>12
  <2>4. SplitSets[m] = step[SplitSets[n]]
    BY <1>3, <2>2, <2>3
  <2> QED
    BY <1>10, <2>1, <2>3, <2>4
<1>13. S = Nat
  BY <1>10, <1>11, <1>12, NatSets
<1>14. SplitSets \in [Nat -> D]
  BY <1>7, <1>10, <1>13
<1> QED
  BY <1>1, <1>8, <1>9, <1>14

-----------------------------------------------------------------------------
(* What a tally is taken apart into.                                       *)

Fits(c, x) == IF x.run THEN \A u \in Run(x.tile) : c[u] > 0 ELSE c[x.tile] >= 3

\* The sets s take the tally c apart: each is there when its turn comes, and in
\* the end nothing is left.
Apart(c, s) ==
  \E p \in [0 .. Len(s) -> Tally] :
    /\ p[0] = c
    /\ p[Len(s)] = [t \in Tile |-> 0]
    /\ \A i \in 1 .. Len(s) : Fits(p[i - 1], s[i]) /\ p[i] = Take(p[i - 1], s[i])

\* A sequence does not leave its suit.
LEMMA RunInSuit ==
  ASSUME NEW t \in Tile, ~IsHonor(t), t % Ranks < Ranks - 2
  PROVE  /\ Run(t) \subseteq Tile
         /\ \A u \in Run(t) : ~IsHonor(u) /\ u \div Ranks = t \div Ranks
<1>1. /\ NumSuits \in Nat /\ Ranks \in Nat /\ NumHonors \in Nat /\ t \in Nat
      /\ NumSuits * Ranks \in Nat /\ t < NumSuits * Ranks
  BY YakuAssumption DEF Tile, IsHonor
<1>2. Ranks # 0
  BY <1>1
<1>3. PICK d \in Nat : d = t \div Ranks
  BY <1>1, <1>2
<1>4. PICK m \in Nat : m = t % Ranks /\ m < Ranks - 2
  BY <1>1, <1>2
<1>5. t = d * Ranks + m
  BY <1>1, <1>2, <1>3, <1>4
<1>6. PICK x \in Nat : x = d * Ranks
  BY <1>1
<1>7. PICK z \in Nat : z = NumSuits * Ranks
  BY <1>1
<1>8. x + Ranks <= z
  <2>1. CASE d < NumSuits
    <3>1. PICK e \in Nat : NumSuits = (d + 1) + e
      <4>1. NumSuits - (d + 1) \in Nat /\ NumSuits = (d + 1) + (NumSuits - (d + 1))
        BY <1>1, <2>1
      <4> QED
        BY <4>1
    <3>2. NumSuits * Ranks = d * Ranks + Ranks + e * Ranks /\ e * Ranks \in Nat
      BY <1>1, <3>1
    <3>3. PICK y \in Nat : y = e * Ranks
      BY <3>2
    <3>4. z = x + Ranks + y
      BY <1>6, <1>7, <3>2, <3>3
    <3> QED
      BY <1>1, <3>4
  <2>2. CASE ~(d < NumSuits)
    <3>1. PICK e \in Nat : d = NumSuits + e
      <4>1. d - NumSuits \in Nat /\ d = NumSuits + (d - NumSuits)
        BY <1>1, <2>2
      <4> QED
        BY <4>1
    <3>2. d * Ranks = NumSuits * Ranks + e * Ranks /\ e * Ranks \in Nat
      BY <1>1, <3>1
    <3>3. PICK y \in Nat : y = e * Ranks
      BY <3>2
    <3>4. x = z + y
      BY <1>6, <1>7, <3>2, <3>3
    <3> QED
      BY <1>1, <1>5, <1>6, <1>7, <3>4
  <2> QED
    BY <2>1, <2>2
<1>9. ASSUME NEW u \in Run(t)
      PROVE  u \in Tile /\ ~IsHonor(u) /\ u \div Ranks = d
  <2>1. PICK r \in 0 .. Ranks - 1 : u = x + r /\ u \in Nat
    <3>1. u \in {t, t + 1, t + 2}
      BY DEF Run
    <3>2. u - x \in 0 .. Ranks - 1 /\ u = x + (u - x) /\ u \in Nat
      BY <1>1, <1>4, <1>5, <1>6, <3>1
    <3> QED
      BY <3>2
  <2>2. u < z
    BY <1>1, <1>8, <2>1
  <2>3. u \in Tile /\ ~IsHonor(u)
    BY <1>1, <1>7, <2>1, <2>2 DEF Tile, IsHonor
  <2>4. u = Ranks * d + r
    BY <1>1, <1>6, <2>1
  <2>5. u \div Ranks = d
    BY <1>1, <1>2, <2>1, <2>4
  <2> QED
    BY <2>3, <2>5
<1> QED
  BY <1>3, <1>9

LEMMA FitsTally ==
  ASSUME NEW c \in Tally, NEW x \in Shape, Fits(c, x)
  PROVE  Take(c, x) \in Tally /\ c[x.tile] > 0
<1>1. x.tile \in Tile /\ x.run \in BOOLEAN
  BY DEF Shape, SetOf
<1>2. x.tile \in Run(x.tile)
  BY DEF Run
<1>3. c[x.tile] \in Nat
  BY <1>1 DEF Tally
<1> QED
  BY <1>1, <1>2, <1>3 DEF Fits, Take, Tally

\* One set more, and one less.
LEMMA ApartMore ==
  ASSUME NEW c \in Tally, NEW x \in Shape, Fits(c, x), NEW s \in Seq(Shape),
         Apart(Take(c, x), s)
  PROVE  /\ <<x>> \o s \in Seq(Shape)
         /\ Len(<<x>> \o s) = Len(s) + 1
         /\ Apart(c, <<x>> \o s)
<1>1. PICK n \in Nat : n = Len(s) /\ DOMAIN s = 1 .. n
  BY LenProperties
<1>2. PICK r : r = <<x>> \o s
  OBVIOUS
<1>3. /\ r \in Seq(Shape) /\ Len(r) = n + 1 /\ r[1] = x
      /\ \A i \in 1 .. n : r[i + 1] = s[i]
  <2>1. <<x>> \in Seq(Shape) /\ Len(<<x>>) = 1 /\ <<x>>[1] = x
    OBVIOUS
  <2>2. /\ <<x>> \o s \in Seq(Shape)
        /\ Len(<<x>> \o s) = Len(<<x>>) + Len(s)
        /\ \A i \in 1 .. Len(<<x>>) + Len(s) :
             (<<x>> \o s)[i] = IF i <= Len(<<x>>) THEN <<x>>[i] ELSE s[i - Len(<<x>>)]
    BY <2>1, ConcatProperties
  <2> QED
    BY <1>1, <1>2, <2>1, <2>2
<1>4. PICK p \in [0 .. n -> Tally] :
        /\ p[0] = Take(c, x)
        /\ p[n] = [t \in Tile |-> 0]
        /\ \A i \in 1 .. n : Fits(p[i - 1], s[i]) /\ p[i] = Take(p[i - 1], s[i])
  BY <1>1 DEF Apart
<1>5. PICK q : q = [i \in 0 .. n + 1 |-> IF i = 0 THEN c ELSE p[i - 1]]
  OBVIOUS
<1>6. q \in [0 .. n + 1 -> Tally] /\ q[0] = c /\ q[n + 1] = [t \in Tile |-> 0]
  BY <1>4, <1>5
<1>7. ASSUME NEW i \in 1 .. n + 1
      PROVE  Fits(q[i - 1], r[i]) /\ q[i] = Take(q[i - 1], r[i])
  <2>1. CASE i = 1
    BY <1>3, <1>4, <1>5, <2>1
  <2>2. CASE i # 1
    <3>1. PICK j \in 1 .. n : j = i - 1 /\ i = j + 1
      <4>1. i - 1 \in 1 .. n /\ i = (i - 1) + 1
        BY <2>2
      <4> QED
        BY <4>1
    <3>2. q[i] = p[j] /\ q[i - 1] = p[j - 1] /\ r[i] = s[j]
      BY <1>3, <1>5, <3>1
    <3> QED
      BY <1>4, <3>2
  <2> QED
    BY <2>1, <2>2
<1>8. Apart(c, r)
  BY <1>3, <1>6, <1>7, ZenonT(40) DEF Apart
<1> QED
  BY <1>1, <1>2, <1>3, <1>8

LEMMA ApartLess ==
  ASSUME NEW c \in Tally, NEW s \in Seq(Shape), s # << >>, Apart(c, s)
  PROVE  /\ s[1] \in Shape /\ Fits(c, s[1])
         /\ Tail(s) \in Seq(Shape) /\ Len(Tail(s)) = Len(s) - 1
         /\ Apart(Take(c, s[1]), Tail(s))
<1>1. PICK n \in Nat : Len(s) = n + 1 /\ DOMAIN s = 1 .. n + 1
  <2>1. PICK l \in Nat : l = Len(s) /\ DOMAIN s = 1 .. l
    BY LenProperties
  <2>2. l # 0
    BY <2>1, EmptySeq
  <2>3. l - 1 \in Nat /\ l = (l - 1) + 1
    BY <2>2
  <2> QED
    BY <2>1, <2>3
<1>2. PICK r : r = Tail(s)
  OBVIOUS
<1>3. /\ r \in Seq(Shape) /\ Len(r) = n
      /\ \A i \in 1 .. n : r[i] = s[i + 1]
  BY <1>1, <1>2, HeadTailProperties
<1>4. PICK p \in [0 .. n + 1 -> Tally] :
        /\ p[0] = c
        /\ p[n + 1] = [t \in Tile |-> 0]
        /\ \A i \in 1 .. n + 1 : Fits(p[i - 1], s[i]) /\ p[i] = Take(p[i - 1], s[i])
  BY <1>1 DEF Apart
<1>5. PICK q : q = [i \in 0 .. n |-> p[i + 1]]
  OBVIOUS
<1>6. q \in [0 .. n -> Tally] /\ q[n] = [t \in Tile |-> 0]
  BY <1>4, <1>5
<1>7. s[1] \in Shape /\ Fits(c, s[1]) /\ q[0] = Take(c, s[1])
  <2>1. 1 \in 1 .. n + 1 /\ 1 - 1 = 0 /\ 0 + 1 = 1 /\ 0 \in 0 .. n
    OBVIOUS
  <2>2. Fits(p[1 - 1], s[1]) /\ p[1] = Take(p[1 - 1], s[1])
    BY <1>4, <2>1
  <2>3. s[1] \in Shape
    BY <1>1, <2>1, ElementOfSeq
  <2>4. q[0] = p[0 + 1]
    BY <1>5, <2>1
  <2> QED
    BY <1>4, <2>1, <2>2, <2>3, <2>4
<1>8. ASSUME NEW i \in 1 .. n
      PROVE  Fits(q[i - 1], r[i]) /\ q[i] = Take(q[i - 1], r[i])
  <2>1. PICK j \in 1 .. n + 1 : j = i + 1 /\ j - 1 = i
    OBVIOUS
  <2>2. q[i] = p[j] /\ q[i - 1] = p[j - 1] /\ r[i] = s[j]
    BY <1>3, <1>5, <2>1
  <2> QED
    BY <1>4, <2>2
<1>9. Apart(Take(c, s[1]), r)
  BY <1>3, <1>6, <1>7, <1>8 DEF Apart
<1> QED
  BY <1>1, <1>2, <1>3, <1>7, <1>9

LEMMA ApartEmpty ==
  ASSUME NEW c \in Tally
  PROVE  Apart(c, << >>) <=> c = [t \in Tile |-> 0]
<1>1. Len(<< >>) = 0
  BY EmptySeq
<1>2. Apart(c, << >>) => c = [t \in Tile |-> 0]
  BY <1>1 DEF Apart
<1>3. ASSUME c = [t \in Tile |-> 0]
      PROVE  Apart(c, << >>)
  <2>1. PICK p : p = [i \in 0 .. 0 |-> c]
    OBVIOUS
  <2>2. p \in [0 .. 0 -> Tally] /\ p[0] = c
    BY <2>1
  <2> QED
    BY <1>1, <1>3, <2>2 DEF Apart
<1> QED
  BY <1>2, <1>3

-----------------------------------------------------------------------------
(* What splitSets returns.                                                 *)

\* A result at one level is a set at the lowest tile and a result below it.
LEMMA LevelGives ==
  ASSUME NEW g \in [Tally -> SUBSET Seq(SetOf)], NEW c \in Tally,
         NEW s \in SplitLowest(g, c)
  PROVE  \E x \in Shape : \E r \in g[Take(c, x)] : Fits(c, x) /\ s = <<x>> \o r
<1>1. Remaining(c) # {}
  BY DEF SplitLowest
<1>2. PICK t \in Tile : t = Lowest(c)
  BY <1>1, LowestIs
<1>3. \/ /\ FitsRun(c, t)
         /\ s \in {<<[run |-> TRUE, tile |-> t]>> \o r :
                     r \in g[Take(c, [run |-> TRUE, tile |-> t])]}
      \/ /\ c[t] >= 3
         /\ s \in {<<[run |-> FALSE, tile |-> t]>> \o r :
                     r \in g[Take(c, [run |-> FALSE, tile |-> t])]}
  BY <1>1, <1>2 DEF SplitLowest
<1>4. CASE /\ FitsRun(c, t)
           /\ s \in {<<[run |-> TRUE, tile |-> t]>> \o r :
                       r \in g[Take(c, [run |-> TRUE, tile |-> t])]}
  <2>1. PICK x : x = [run |-> TRUE, tile |-> t]
    OBVIOUS
  <2>2. x \in Shape /\ Fits(c, x)
    BY <1>4, <2>1 DEF Shape, SetOf, Fits, FitsRun
  <2>3. \E r \in g[Take(c, x)] : s = <<x>> \o r
    BY <1>4, <2>1
  <2> QED
    BY <2>2, <2>3
<1>5. CASE /\ c[t] >= 3
           /\ s \in {<<[run |-> FALSE, tile |-> t]>> \o r :
                       r \in g[Take(c, [run |-> FALSE, tile |-> t])]}
  <2>1. PICK x : x = [run |-> FALSE, tile |-> t]
    OBVIOUS
  <2>2. x \in Shape /\ Fits(c, x)
    BY <1>5, <2>1 DEF Shape, SetOf, Fits
  <2>3. \E r \in g[Take(c, x)] : s = <<x>> \o r
    BY <1>5, <2>1
  <2> QED
    BY <2>2, <2>3
<1> QED
  BY <1>3, <1>4, <1>5

LEMMA NothingLeft ==
  ASSUME NEW c \in Tally
  PROVE  Remaining(c) = {} <=> c = [t \in Tile |-> 0]
BY DEF Remaining, Tally

\* Whatever splitSets returns takes the tally apart, into as many sets as were
\* asked for and each within a suit: no tile is used twice, none is left over
\* and none is made up, for every deck, number of sets and tally.
THEOREM SplitSound ==
  ASSUME NEW need \in Nat, NEW c \in Tally, NEW s \in SplitSets[need][c]
  PROVE  s \in Seq(Shape) /\ Len(s) = need /\ Apart(c, s)
<1>1. PICK S : S = {n \in Nat : \A d \in Tally : \A r \in SplitSets[n][d] :
                      r \in Seq(Shape) /\ Len(r) = n /\ Apart(d, r)}
  OBVIOUS
<1>2. 0 \in S
  <2>1. ASSUME NEW d \in Tally, NEW r \in SplitSets[0][d]
        PROVE  r \in Seq(Shape) /\ Len(r) = 0 /\ Apart(d, r)
    <3>1. r = << >> /\ Remaining(d) = {}
      BY SplitSetsIs
    <3> QED
      BY <3>1, ApartEmpty, NothingLeft, EmptySeq
  <2> QED
    BY <1>1, <2>1
<1>3. ASSUME NEW n \in Nat, n \in S
      PROVE  n + 1 \in S
  <2>1. ASSUME NEW d \in Tally, NEW r \in SplitSets[n + 1][d]
        PROVE  r \in Seq(Shape) /\ Len(r) = n + 1 /\ Apart(d, r)
    <3>1. PICK g \in [Tally -> SUBSET Seq(SetOf)] : g = SplitSets[n]
      BY SplitSetsIs
    <3>2. r \in SplitLowest(g, d)
      BY <3>1, SplitSetsIs
    <3>3. PICK x \in Shape : \E q \in g[Take(d, x)] : Fits(d, x) /\ r = <<x>> \o q
      BY <3>2, LevelGives
    <3>4. PICK q \in g[Take(d, x)] : Fits(d, x) /\ r = <<x>> \o q
      BY <3>3
    <3>5. Take(d, x) \in Tally
      BY <3>4, FitsTally
    <3>6. q \in Seq(Shape) /\ Len(q) = n /\ Apart(Take(d, x), q)
      BY <1>1, <1>3, <3>1, <3>4, <3>5
    <3> QED
      BY <3>4, <3>6, ApartMore
  <2> QED
    BY <1>1, <2>1
<1>4. S = Nat
  BY <1>1, <1>2, <1>3, NatSets
<1> QED
  BY <1>1, <1>4

-----------------------------------------------------------------------------
(* What splitSets finds.                                                   *)

\* Sets that are taken one after the other can be taken the other way round.
LEMMA TakenEitherWay ==
  ASSUME NEW c \in Tally, NEW x \in Shape, NEW y \in Shape,
         Fits(c, y), Fits(Take(c, y), x)
  PROVE  /\ Fits(c, x) /\ Fits(Take(c, x), y)
         /\ Take(Take(c, x), y) = Take(Take(c, y), x)
<1>1. /\ x.tile \in Tile /\ x.run \in BOOLEAN
      /\ y.tile \in Tile /\ y.run \in BOOLEAN
  BY DEF Shape, SetOf
<1>2. /\ x.run => Run(x.tile) \subseteq Tile
      /\ y.run => Run(y.tile) \subseteq Tile
  BY <1>1, RunInSuit DEF Shape
<1>3. \A u \in Tile : c[u] \in Nat
  BY DEF Tally
<1>4. \A u \in Tile :
        /\ Take(c, y)[u] = IF y.run THEN IF u \in Run(y.tile) THEN c[u] - 1 ELSE c[u]
                                    ELSE IF u = y.tile THEN c[u] - 3 ELSE c[u]
        /\ Take(c, x)[u] = IF x.run THEN IF u \in Run(x.tile) THEN c[u] - 1 ELSE c[u]
                                    ELSE IF u = x.tile THEN c[u] - 3 ELSE c[u]
  BY DEF Take
<1>5. Fits(c, x)
  BY <1>1, <1>2, <1>3, <1>4 DEF Fits
<1>6. Fits(Take(c, x), y)
  <2>1. CASE x.run /\ y.run
    BY <1>1, <1>2, <1>3, <1>4, <2>1 DEF Fits
  <2>2. CASE x.run /\ ~y.run
    BY <1>1, <1>2, <1>3, <1>4, <2>2 DEF Fits
  <2>3. CASE ~x.run /\ y.run
    BY <1>1, <1>2, <1>3, <1>4, <2>3 DEF Fits
  <2>4. CASE ~x.run /\ ~y.run
    BY <1>1, <1>2, <1>3, <1>4, <2>4 DEF Fits
  <2> QED
    BY <1>1, <2>1, <2>2, <2>3, <2>4
<1>7. \A u \in Tile : Take(Take(c, x), y)[u] = Take(Take(c, y), x)[u]
  BY <1>1, <1>3, <1>4 DEF Take
<1>8. Take(Take(c, x), y) = Take(Take(c, y), x)
  BY <1>7 DEF Take
<1> QED
  BY <1>5, <1>6, <1>8

\* Of sets that take a tally apart, one can be taken first that begins at the
\* lowest tile.
LEMMA LowestFirst ==
  ASSUME NEW n \in Nat, NEW c \in Tally, NEW s \in Seq(Shape), Len(s) = n + 1,
         Apart(c, s), NEW l \in Tile, c[l] > 0, \A u \in Tile : c[u] > 0 => l <= u
  PROVE  \E x \in Shape : \E r \in Seq(Shape) :
           x.tile = l /\ Fits(c, x) /\ Len(r) = n /\ Apart(Take(c, x), r)
<1> DEFINE First(m, d) ==
             \E x \in Shape : \E r \in Seq(Shape) :
               x.tile = l /\ Fits(d, x) /\ Len(r) = m /\ Apart(Take(d, x), r)
           Of(m, d, q) == /\ Len(q) = m + 1 /\ Apart(d, q)
                          /\ d[l] > 0 /\ \A u \in Tile : d[u] > 0 => l <= u
<1>1. ASSUME NEW m \in Nat, NEW d \in Tally, NEW q \in Seq(Shape), Of(m, d, q)
      PROVE  /\ q[1] \in Shape /\ Fits(d, q[1]) /\ Take(d, q[1]) \in Tally
             /\ Tail(q) \in Seq(Shape) /\ Len(Tail(q)) = m
             /\ Apart(Take(d, q[1]), Tail(q))
             /\ q[1].tile # l => Take(d, q[1])[l] = d[l]
             /\ \A u \in Tile : Take(d, q[1])[u] > 0 => l <= u
  <2>1. q # << >>
    BY <1>1, EmptySeq
  <2>2. PICK y : y = q[1]
    OBVIOUS
  <2>3. /\ y \in Shape /\ Fits(d, y) /\ Tail(q) \in Seq(Shape)
        /\ Len(Tail(q)) = m /\ Apart(Take(d, y), Tail(q))
    <3>1. Len(q) - 1 = m
      BY <1>1
    <3> QED
      BY <1>1, <2>1, <2>2, <3>1, ApartLess
  <2>4. Take(d, y) \in Tally /\ d[y.tile] > 0
    BY <2>3, FitsTally
  <2>5. y.tile \in Tile /\ l <= y.tile /\ l \in Int /\ y.tile \in Int
    BY <1>1, <2>3, <2>4, YakuAssumption DEF Shape, SetOf, Tile
  <2>6. ASSUME y.tile # l PROVE Take(d, y)[l] = d[l]
    <3>1. l \notin Run(y.tile)
      BY <2>5, <2>6 DEF Run
    <3> QED
      BY <2>6, <3>1 DEF Take
  <2>7. \A u \in Tile : Take(d, y)[u] > 0 => l <= u
    <3>1. \A u \in Tile : d[u] \in Nat
      BY DEF Tally
    <3>2. \A u \in Tile : Take(d, y)[u] > 0 => d[u] > 0
      BY <3>1 DEF Take
    <3> QED
      BY <1>1, <3>2
  <2> QED
    BY <2>2, <2>3, <2>4, <2>6, <2>7
<1>2. PICK S : S = {m \in Nat : \A d \in Tally, q \in Seq(Shape) :
                                  Of(m, d, q) => First(m, d)}
  OBVIOUS
<1>3. ASSUME NEW m \in Nat, NEW d \in Tally, NEW q \in Seq(Shape), Of(m, d, q),
             q[1].tile = l
      PROVE  First(m, d)
  <2>1. PICK x \in Shape : x = q[1] /\ Fits(d, x)
    <3> HIDE DEF Of
    <3> QED
      BY <1>1, <1>3
  <2>2. PICK r \in Seq(Shape) : r = Tail(q) /\ Len(r) = m /\ Apart(Take(d, x), r)
    <3> HIDE DEF Of
    <3> QED
      BY <1>1, <1>3, <2>1
  <2> QED
    BY <1>3, <2>1, <2>2
<1>4. 0 \in S
  <2>1. ASSUME NEW d \in Tally, NEW q \in Seq(Shape), Of(0, d, q)
        PROVE  First(0, d)
    <3>1. CASE q[1].tile = l
      BY <1>3, <2>1, <3>1
    <3>2. CASE q[1].tile # l
      <4>1. Take(d, q[1])[l] = d[l] /\ Take(d, q[1]) \in Tally
        <5> HIDE DEF Of
        <5> QED
          BY <1>1, <2>1, <3>2
      <4>2. Tail(q) = << >> /\ Apart(Take(d, q[1]), Tail(q))
        <5>1. Tail(q) \in Seq(Shape) /\ Len(Tail(q)) = 0 /\ Apart(Take(d, q[1]), Tail(q))
          <6> HIDE DEF Of
          <6> QED
            BY <1>1, <2>1
        <5> QED
          BY <5>1, EmptySeq
      <4>3. Take(d, q[1]) = [t \in Tile |-> 0]
        BY <4>1, <4>2, ApartEmpty
      <4> QED
        BY <2>1, <4>1, <4>3
    <3> QED
      BY <3>1, <3>2
  <2> QED
    BY <1>2, <2>1
<1>5. ASSUME NEW m \in Nat, m \in S
      PROVE  m + 1 \in S
  <2>1. ASSUME NEW d \in Tally, NEW q \in Seq(Shape), Of(m + 1, d, q)
        PROVE  First(m + 1, d)
    <3>1. CASE q[1].tile = l
      <4>1. m + 1 \in Nat
        OBVIOUS
      <4> HIDE DEF Of, First
      <4> QED
        BY <1>3, <2>1, <3>1, <4>1
    <3>2. CASE q[1].tile # l
      <4>1. PICK k \in Nat : k = m + 1
        OBVIOUS
      <4>2. PICK y : y = q[1]
        OBVIOUS
      <4>3. PICK p : p = Tail(q)
        OBVIOUS
      <4>4. /\ y \in Shape /\ Fits(d, y) /\ Take(d, y) \in Tally
            /\ p \in Seq(Shape) /\ Len(p) = m + 1
            /\ Apart(Take(d, y), p)
            /\ Take(d, y)[l] = d[l]
            /\ \A u \in Tile : Take(d, y)[u] > 0 => l <= u
        <5>1. Of(k, d, q)
          BY <2>1, <4>1
        <5> HIDE DEF Of
        <5> QED
          BY <1>1, <3>2, <4>1, <4>2, <4>3, <5>1
      <4>5. Of(m, Take(d, y), p)
        BY <2>1, <4>4
      <4>6. First(m, Take(d, y))
        <5> HIDE DEF Of, First
        <5> QED
          BY <1>2, <1>5, <4>4, <4>5
      <4>7. PICK x \in Shape : \E r \in Seq(Shape) :
              /\ x.tile = l /\ Fits(Take(d, y), x) /\ Len(r) = m
              /\ Apart(Take(Take(d, y), x), r)
        BY <4>6
      <4>8. PICK r \in Seq(Shape) :
              /\ x.tile = l /\ Fits(Take(d, y), x) /\ Len(r) = m
              /\ Apart(Take(Take(d, y), x), r)
        BY <4>7
      <4>9. /\ Fits(d, x) /\ Fits(Take(d, x), y)
            /\ Take(Take(d, x), y) = Take(Take(d, y), x)
        BY <4>4, <4>8, TakenEitherWay
      <4>10. Take(d, x) \in Tally
        BY <4>9, FitsTally
      <4>11. /\ <<y>> \o r \in Seq(Shape) /\ Len(<<y>> \o r) = m + 1
             /\ Apart(Take(d, x), <<y>> \o r)
        BY <4>4, <4>8, <4>9, <4>10, ApartMore
      <4> QED
        BY <4>8, <4>9, <4>11
    <3> QED
      BY <3>1, <3>2
  <2> QED
    BY <1>2, <2>1
<1>6. S = Nat
  BY <1>2, <1>4, <1>5, NatSets
<1>7. Of(n, c, s)
  OBVIOUS
<1>8. First(n, c)
  <2> HIDE DEF Of, First
  <2> QED
    BY <1>2, <1>6, <1>7
<1> QED
  BY <1>8

\* Whenever a tally can be taken apart into sets, in whatever order they are
\* thought of, splitSets finds a way: taking the lowest tile first and a
\* sequence before a triplet, with backtracking, misses none.
THEOREM SplitFound ==
  ASSUME NEW c \in Tally, NEW s \in Seq(Shape), Apart(c, s)
  PROVE  SplitSets[Len(s)][c] # {}
<1>1. PICK S : S = {n \in Nat : \A d \in Tally, q \in Seq(Shape) :
                      Len(q) = n /\ Apart(d, q) => SplitSets[n][d] # {}}
  OBVIOUS
<1>2. 0 \in S
  <2>1. ASSUME NEW d \in Tally, NEW q \in Seq(Shape), Len(q) = 0, Apart(d, q)
        PROVE  SplitSets[0][d] # {}
    <3>1. q = << >>
      BY <2>1, EmptySeq
    <3>2. Remaining(d) = {}
      BY <2>1, <3>1, ApartEmpty, NothingLeft
    <3> QED
      BY <3>2, SplitSetsIs
  <2> QED
    BY <1>1, <2>1
<1>3. ASSUME NEW n \in Nat, n \in S
      PROVE  n + 1 \in S
  <2>1. ASSUME NEW d \in Tally, NEW q \in Seq(Shape), Len(q) = n + 1, Apart(d, q)
        PROVE  SplitSets[n + 1][d] # {}
    <3>1. Remaining(d) # {}
      <4>1. q # << >>
        BY <2>1, EmptySeq
      <4>2. q[1] \in Shape /\ Fits(d, q[1])
        BY <2>1, <4>1, ApartLess
      <4>3. q[1].tile \in Tile /\ d[q[1].tile] > 0
        BY <4>2, FitsTally DEF Shape, SetOf
      <4> QED
        BY <4>3 DEF Remaining
    <3>2. PICK t \in Tile : t = Lowest(d) /\ d[t] > 0 /\ \A u \in Tile : d[u] > 0 => t <= u
      BY <3>1, LowestIs
    <3>3. PICK x \in Shape : \E r \in Seq(Shape) :
            x.tile = t /\ Fits(d, x) /\ Len(r) = n /\ Apart(Take(d, x), r)
      BY <2>1, <3>2, LowestFirst
    <3>4. PICK r \in Seq(Shape) :
            x.tile = t /\ Fits(d, x) /\ Len(r) = n /\ Apart(Take(d, x), r)
      BY <3>3
    <3>5. PICK g : g = SplitSets[n]
      OBVIOUS
    <3>6. g[Take(d, x)] # {}
      <4>1. Take(d, x) \in Tally
        BY <3>4, FitsTally
      <4> QED
        BY <1>1, <1>3, <3>4, <3>5, <4>1
    <3>7. SplitLowest(g, d) # {}
      <4>1. CASE x.run
        <5>1. x = [run |-> TRUE, tile |-> t]
          BY <3>4, <4>1 DEF Shape, SetOf
        <5>2. FitsRun(d, t)
          BY <3>4, <4>1 DEF Shape, Fits, FitsRun
        <5>3. {<<x>> \o y : y \in g[Take(d, x)]} # {}
          BY <3>6
        <5> QED
          BY <3>1, <3>2, <5>1, <5>2, <5>3 DEF SplitLowest
      <4>2. CASE ~x.run
        <5>1. x = [run |-> FALSE, tile |-> t]
          BY <3>4, <4>2 DEF Shape, SetOf
        <5>2. d[t] >= 3
          BY <3>4, <4>2 DEF Fits
        <5>3. {<<x>> \o y : y \in g[Take(d, x)]} # {}
          BY <3>6
        <5> QED
          BY <3>1, <3>2, <5>1, <5>2, <5>3 DEF SplitLowest
      <4> QED
        BY <4>1, <4>2
    <3> QED
      BY <3>5, <3>7, SplitSetsIs
  <2> QED
    BY <1>1, <2>1
<1>4. S = Nat
  BY <1>1, <1>2, <1>3, NatSets
<1>5. Len(s) \in Nat
  BY LenProperties
<1> QED
  BY <1>1, <1>4, <1>5

-----------------------------------------------------------------------------
(* The payments of a win.                                                  *)

\* The limit table never pays less than the 2000 base points do.
LEMMA LimitsPay ==
  ASSUME NEW han \in Nat
  PROVE  /\ LimitPayment(han).nonDealer \in {8000, 12000, 16000, 24000, 32000}
         /\ 2 * LimitPayment(han).dealer = 3 * LimitPayment(han).nonDealer
         /\ LimitPayment(han + 1).nonDealer >= LimitPayment(han).nonDealer
         /\ LimitPayment(han).dealer \in Nat
         /\ LimitPayment(han).nonDealer \in Nat
<1>1. CASE han \in 0 .. 15
  BY <1>1, SMT DEF LimitPayment
<1>2. CASE han > 15
  BY <1>2, SMT DEF LimitPayment
<1> QED BY <1>1, <1>2

LEMMA BaseType ==
  ASSUME NEW han \in Nat, NEW fu \in Nat
  PROVE  /\ BasePoints(han, fu) \in Nat
         /\ BasePoints(han, fu) <= 2000
<1>1. Shifted(han) \in {8, 16, 32, 64} BY DEF Shifted
<1>2. CASE Shifted(han) = 8 BY <1>2, SMT DEF BasePoints
<1>3. CASE Shifted(han) = 16 BY <1>3, SMT DEF BasePoints
<1>4. CASE Shifted(han) = 32 BY <1>4, SMT DEF BasePoints
<1>5. CASE Shifted(han) = 64 BY <1>5, SMT DEF BasePoints
<1> QED BY <1>1, <1>2, <1>3, <1>4, <1>5

LEMMA BaseGrows ==
  ASSUME NEW han \in 1 .. 3, NEW fu \in Nat
  PROVE  BasePoints(han + 1, fu) >= BasePoints(han, fu)
<1>1. CASE han = 1 BY <1>1, SMT DEF BasePoints, Shifted
<1>2. CASE han = 2 BY <1>2, SMT DEF BasePoints, Shifted
<1>3. CASE han = 3 BY <1>3, SMT DEF BasePoints, Shifted
<1> QED BY <1>1, <1>2, <1>3

\* For every number of han and fu, the losers of a self-drawn win together pay
\* the ron of the same value and at most 200 points more (TsumoPayment rounds
\* each share up, RonPayment the whole).
THEOREM SplitsAgree ==
  ASSUME NEW han \in Nat, NEW fu \in Nat, NEW dealer \in BOOLEAN
  PROVE  SplitAgrees(han, fu, dealer)
<1>1. CASE han >= 5
  <2> DEFINE nd == LimitPayment(han).nonDealer
             d == LimitPayment(han).dealer
  <2>1. nd \in {8000, 12000, 16000, 24000, 32000} /\ 2 * d = 3 * nd /\ d \in Nat
    BY LimitsPay
  <2> HIDE DEF nd, d
  <2>2. /\ RoundUp(nd \div 2) = nd \div 2
        /\ RoundUp(nd \div 4) = nd \div 4
        /\ 2 * (nd \div 2) = nd
        /\ 4 * (nd \div 4) = nd
        /\ nd \div 2 \in Nat
        /\ nd \div 4 \in Nat
    BY <2>1, SMT DEF RoundUp
  <2>3. CASE dealer
    BY <1>1, <2>1, <2>2, <2>3, SMT DEF SplitAgrees, TsumoPayment, RonPayment, nd, d
  <2>4. CASE ~dealer
    BY <1>1, <2>1, <2>2, <2>4, SMT DEF SplitAgrees, TsumoPayment, RonPayment, nd, d
  <2> QED BY <2>3, <2>4
<1>2. CASE ~(han >= 5)
  <2> DEFINE b == BasePoints(han, fu)
  <2>1. b \in Nat /\ b <= 2000 BY BaseType
  <2> HIDE DEF b
  <2>2. 3 * RoundUp(b * 2) \in RoundUp(b * 6) .. RoundUp(b * 6) + 200
    BY <2>1, SMT DEF RoundUp
  <2>3. RoundUp(b * 2) + 2 * RoundUp(b) \in RoundUp(b * 4) .. RoundUp(b * 4) + 200
    BY <2>1, SMT DEF RoundUp
  <2>4. CASE dealer
    BY <1>2, <2>2, <2>4 DEF SplitAgrees, TsumoPayment, RonPayment, b
  <2>5. CASE ~dealer
    BY <1>2, <2>3, <2>5 DEF SplitAgrees, TsumoPayment, RonPayment, b
  <2> QED BY <2>4, <2>5
<1> QED BY <1>1, <1>2

\* For every value of at least one han, one han more never pays less, through
\* the base points, their cap and the limit table (RonPayment).
THEOREM HanNeverCosts ==
  ASSUME NEW han \in Nat \ {0}, NEW fu \in Nat, NEW dealer \in BOOLEAN
  PROVE  HanPays(han, fu, dealer)
<1>1. CASE han >= 5
  <2> DEFINE a == LimitPayment(han)
             z == LimitPayment(han + 1)
  <2>1. /\ 2 * a.dealer = 3 * a.nonDealer
        /\ 2 * z.dealer = 3 * z.nonDealer
        /\ z.nonDealer >= a.nonDealer
        /\ a.dealer \in Nat /\ z.dealer \in Nat
        /\ a.nonDealer \in Nat /\ z.nonDealer \in Nat
    <3>1. han \in Nat /\ han + 1 \in Nat OBVIOUS
    <3> HIDE DEF a, z
    <3> QED BY <3>1, LimitsPay DEF a, z
  <2>2. han + 1 >= 5 BY <1>1
  <2>3. /\ RonPayment(han, fu, dealer) = IF dealer THEN a.dealer ELSE a.nonDealer
        /\ RonPayment(han + 1, fu, dealer) = IF dealer THEN z.dealer ELSE z.nonDealer
    BY <1>1, <2>2 DEF RonPayment
  <2> HIDE DEF a, z
  <2> QED BY <2>1, <2>3, SMT DEF HanPays
<1>2. CASE han = 4
  <2>1. BasePoints(4, fu) \in Nat /\ BasePoints(4, fu) <= 2000 BY BaseType
  <2>2. LimitPayment(5) = [nonDealer |-> 8000, dealer |-> 12000]
    BY SMT DEF LimitPayment
  <2>3. /\ RoundUp(BasePoints(4, fu) * 6) <= 12000
        /\ RoundUp(BasePoints(4, fu) * 4) <= 8000
    BY <2>1, SMT DEF RoundUp
  <2> QED BY <1>2, <2>2, <2>3, SMT DEF HanPays, RonPayment
<1>3. CASE han \in 1 .. 3
  <2> DEFINE b == BasePoints(han, fu)
             c == BasePoints(han + 1, fu)
  <2>1. b \in Nat /\ b <= 2000 /\ c \in Nat /\ c <= 2000 /\ c >= b
    <3>1. han \in Nat /\ han + 1 \in Nat BY <1>3
    <3>2. c >= b BY <1>3, BaseGrows
    <3> QED BY <3>1, <3>2, BaseType
  <2>2. /\ RoundUp(c * 6) >= RoundUp(b * 6)
        /\ RoundUp(c * 4) >= RoundUp(b * 4)
    <3> HIDE DEF b, c
    <3> QED BY <2>1, SMT DEF RoundUp
  <2> QED BY <1>3, <2>2 DEF HanPays, RonPayment
<1> QED BY <1>1, <1>2, <1>3

-----------------------------------------------------------------------------
(* The tiles of a pair and sets.                                           *)

\* The places from a to b that hold t.
Places(w, a, b, t) == {j \in a .. b : w[j] = t}

\* The places of the tiles after the pair and the first k sets.
After(w, k, t) == Cardinality(Places(w, 3 * k + 3, Len(w), t))

\* How many of a set's tiles are t.
Uses(x, t) == IF x.run THEN IF t \in Run(x.tile) THEN 1 ELSE 0
                       ELSE IF t = x.tile THEN 3 ELSE 0

LEMMA PlacesFinite ==
  ASSUME NEW w, NEW a \in Int, NEW b \in Int, NEW t
  PROVE  /\ IsFiniteSet(Places(w, a, b, t))
         /\ Cardinality(Places(w, a, b, t)) \in Nat
<1>1. Places(w, a, b, t) \in SUBSET (a .. b)
  BY DEF Places
<1>2. IsFiniteSet(a .. b)
  BY FS_Interval
<1>3. IsFiniteSet(Places(w, a, b, t))
  BY <1>1, <1>2, FS_Subset
<1> QED
  BY <1>3, FS_CardinalityType

LEMMA PlacesSplit ==
  ASSUME NEW w, NEW a \in Int, NEW b \in Int, NEW c \in Int, NEW t,
         a <= b + 1, b <= c
  PROVE  Cardinality(Places(w, a, c, t))
           = Cardinality(Places(w, a, b, t)) + Cardinality(Places(w, b + 1, c, t))
<1>1. PICK d \in Int : d = b + 1
  OBVIOUS
<1>2. PICK S : S = Places(w, a, b, t)
  OBVIOUS
<1>3. PICK T : T = Places(w, d, c, t)
  OBVIOUS
<1>4. IsFiniteSet(S) /\ IsFiniteSet(T) /\ Cardinality(S) \in Nat /\ Cardinality(T) \in Nat
  BY <1>2, <1>3, PlacesFinite
<1>5. S \cap T = {} /\ Places(w, a, c, t) = S \cup T
  BY <1>1, <1>2, <1>3 DEF Places
<1>6. Cardinality(S \cup T) = Cardinality(S) + Cardinality(T) - Cardinality(S \cap T)
  BY <1>4, FS_Union
<1>7. Cardinality(S \cap T) = 0
  BY <1>5, FS_EmptySet
<1> QED
  BY <1>1, <1>2, <1>3, <1>4, <1>5, <1>6, <1>7

\* Three places in a row.
LEMMA ThreePlaces ==
  ASSUME NEW w, NEW a \in Int, NEW t
  PROVE  /\ w[a] = t /\ w[a + 1] = t /\ w[a + 2] = t
              => Cardinality(Places(w, a, a + 2, t)) = 3
         /\ w[a] # t /\ w[a + 1] # t /\ w[a + 2] # t
              => Cardinality(Places(w, a, a + 2, t)) = 0
         /\ (\E i \in a .. a + 2 : w[i] = t /\ \A j \in a .. a + 2 : j # i => w[j] # t)
              => Cardinality(Places(w, a, a + 2, t)) = 1
<1>1. ASSUME w[a] = t, w[a + 1] = t, w[a + 2] = t
      PROVE  Cardinality(Places(w, a, a + 2, t)) = 3
  <2>1. \A j \in a .. a + 2 : j = a \/ j = a + 1 \/ j = a + 2
    OBVIOUS
  <2>2. Places(w, a, a + 2, t) = a .. a + 2
    BY <1>1, <2>1 DEF Places
  <2>3. Cardinality(a .. a + 2) = IF a > a + 2 THEN 0 ELSE (a + 2) - a + 1
    BY FS_Interval
  <2> QED
    BY <2>2, <2>3
<1>2. ASSUME w[a] # t, w[a + 1] # t, w[a + 2] # t
      PROVE  Cardinality(Places(w, a, a + 2, t)) = 0
  <2>1. \A j \in a .. a + 2 : j = a \/ j = a + 1 \/ j = a + 2
    OBVIOUS
  <2>2. Places(w, a, a + 2, t) = {}
    BY <1>2, <2>1 DEF Places
  <2> QED
    BY <2>2, FS_EmptySet
<1>3. ASSUME NEW i \in a .. a + 2, w[i] = t, \A j \in a .. a + 2 : j # i => w[j] # t
      PROVE  Cardinality(Places(w, a, a + 2, t)) = 1
  <2>1. Places(w, a, a + 2, t) = {i}
    BY <1>3 DEF Places
  <2> QED
    BY <2>1, FS_Singleton
<1> QED
  BY <1>1, <1>2, <1>3

\* What the tiles are.
LEMMA TilesInAre ==
  ASSUME NEW q \in Tile, NEW s \in Seq(Shape)
  PROVE  /\ TilesIn(q, s) \in Seq(Tile)
         /\ Len(TilesIn(q, s)) = 2 + 3 * Len(s)
         /\ TilesIn(q, s)[1] = q /\ TilesIn(q, s)[2] = q
         /\ \A k \in 0 .. Len(s) - 1 :
              /\ TilesIn(q, s)[3 * k + 3] = s[k + 1].tile
              /\ TilesIn(q, s)[3 * k + 4] = s[k + 1].tile + IF s[k + 1].run THEN 1 ELSE 0
              /\ TilesIn(q, s)[3 * k + 5] = s[k + 1].tile + IF s[k + 1].run THEN 2 ELSE 0
<1>1. PICK n \in Nat : n = Len(s) /\ s \in [1 .. n -> Shape]
  BY LenProperties
<1>2. PICK w : w = TilesIn(q, s)
  OBVIOUS
<1>3. w = [j \in 1 .. 2 + 3 * n |->
             IF j <= 2 THEN q ELSE TilesOf(s[j \div 3])[(j % 3) + 1]]
  BY <1>1, <1>2 DEF TilesIn
<1>4. w[1] = q /\ w[2] = q
  BY <1>1, <1>3
<1>5. ASSUME NEW k \in 0 .. n - 1
      PROVE  /\ s[k + 1] \in Shape
             /\ s[k + 1].tile \in Tile /\ s[k + 1].tile \in Nat
             /\ w[3 * k + 3] = s[k + 1].tile
             /\ w[3 * k + 4] = s[k + 1].tile + IF s[k + 1].run THEN 1 ELSE 0
             /\ w[3 * k + 5] = s[k + 1].tile + IF s[k + 1].run THEN 2 ELSE 0
  <2>1. PICK x \in Shape : x = s[k + 1]
    BY <1>1
  <2>2. x.tile \in Tile /\ x.tile \in Nat /\ x.run \in BOOLEAN
    BY YakuAssumption DEF Shape, Tile
  <2>3. /\ (3 * k + 3) \div 3 = k + 1 /\ (3 * k + 3) % 3 = 0
        /\ (3 * k + 4) \div 3 = k + 1 /\ (3 * k + 4) % 3 = 1
        /\ (3 * k + 5) \div 3 = k + 1 /\ (3 * k + 5) % 3 = 2
    BY <1>1
  <2>4. /\ 3 * k + 3 \in 1 .. 2 + 3 * n /\ ~(3 * k + 3 <= 2)
        /\ 3 * k + 4 \in 1 .. 2 + 3 * n /\ ~(3 * k + 4 <= 2)
        /\ 3 * k + 5 \in 1 .. 2 + 3 * n /\ ~(3 * k + 5 <= 2)
    BY <1>1
  <2>5. /\ w[3 * k + 3] = TilesOf(x)[0 + 1]
        /\ w[3 * k + 4] = TilesOf(x)[1 + 1]
        /\ w[3 * k + 5] = TilesOf(x)[2 + 1]
    BY <1>3, <2>1, <2>3, <2>4
  <2>6. /\ TilesOf(x)[1] = x.tile
        /\ TilesOf(x)[2] = x.tile + IF x.run THEN 1 ELSE 0
        /\ TilesOf(x)[3] = x.tile + IF x.run THEN 2 ELSE 0
    BY <2>2 DEF TilesOf
  <2> QED
    BY <2>1, <2>2, <2>5, <2>6
<1>6. \A j \in 1 .. 2 + 3 * n : w[j] \in Tile
  <2>1. ASSUME NEW j \in 1 .. 2 + 3 * n PROVE w[j] \in Tile
    <3>1. CASE j <= 2
      BY <1>3, <3>1
    <3>2. CASE j > 2
      <4>1. PICK k \in 0 .. n - 1 : j = 3 * k + 3 \/ j = 3 * k + 4 \/ j = 3 * k + 5
        <5>1. /\ (j \div 3) - 1 \in 0 .. n - 1
              /\ \/ j = 3 * ((j \div 3) - 1) + 3
                 \/ j = 3 * ((j \div 3) - 1) + 4
                 \/ j = 3 * ((j \div 3) - 1) + 5
          BY <1>1, <3>2
        <5> QED
          BY <5>1
      <4>2. PICK x \in Shape : x = s[k + 1]
        BY <1>5
      <4>3. x.tile \in Tile /\ x.tile \in Nat
        BY <1>5, <4>2
      <4>4. x.run => x.tile + 1 \in Tile /\ x.tile + 2 \in Tile
        BY <4>3, RunInSuit DEF Shape, Run
      <4> QED
        <5>1. CASE x.run
          <6>1. w[j] \in {x.tile, x.tile + 1, x.tile + 2}
            BY <1>5, <4>1, <4>2, <5>1
          <6> QED
            BY <4>3, <4>4, <5>1, <6>1
        <5>2. CASE ~x.run
          <6>1. w[j] = x.tile + 0
            BY <1>5, <4>1, <4>2, <4>3, <5>2
          <6> QED
            BY <4>3, <6>1
        <5> QED
          BY <5>1, <5>2
    <3> QED
      BY <3>1, <3>2
  <2> QED
    BY <2>1
<1>7. w \in [1 .. 2 + 3 * n -> Tile] /\ 2 + 3 * n \in Nat
  BY <1>1, <1>3, <1>6
<1>8. w \in Seq(Tile) /\ Len(w) = 2 + 3 * n
  BY <1>7
<1> QED
  BY <1>1, <1>2, <1>4, <1>5, <1>8

\* Each set adds its own tiles to those after it.
LEMMA AfterSet ==
  ASSUME NEW q \in Tile, NEW s \in Seq(Shape), NEW k \in 0 .. Len(s) - 1, NEW t \in Tile
  PROVE  After(TilesIn(q, s), k, t) = After(TilesIn(q, s), k + 1, t) + Uses(s[k + 1], t)
<1>1. PICK n \in Nat : n = Len(s) /\ s \in [1 .. n -> Shape]
  BY LenProperties
<1>2. PICK w : w = TilesIn(q, s) /\ Len(w) = 2 + 3 * n
  BY <1>1, TilesInAre
<1>3. PICK x \in Shape : x = s[k + 1]
  BY <1>1
<1>4. PICK a \in Int : a = 3 * k + 3
  OBVIOUS
<1>5. x.tile \in Nat /\ x.run \in BOOLEAN /\ t \in Nat
  BY YakuAssumption DEF Shape, Tile
<1>6. /\ w[a] = x.tile
      /\ w[a + 1] = x.tile + IF x.run THEN 1 ELSE 0
      /\ w[a + 2] = x.tile + IF x.run THEN 2 ELSE 0
  <2>1. a + 1 = 3 * k + 4 /\ a + 2 = 3 * k + 5
    BY <1>4
  <2> QED
    <3>1. /\ w[3 * k + 3] = s[k + 1].tile
          /\ w[3 * k + 4] = s[k + 1].tile + IF s[k + 1].run THEN 1 ELSE 0
          /\ w[3 * k + 5] = s[k + 1].tile + IF s[k + 1].run THEN 2 ELSE 0
      BY <1>2, TilesInAre
    <3> QED
      BY <1>3, <1>4, <2>1, <3>1
<1>7. Cardinality(Places(w, a, a + 2, t)) = Uses(x, t)
  <2>1. CASE ~x.run
    BY <1>5, <1>6, <2>1, ThreePlaces DEF Uses
  <2>2. CASE x.run /\ t \in Run(x.tile)
    <3>1. PICK i \in a .. a + 2 : w[i] = t /\ \A j \in a .. a + 2 : j # i => w[j] # t
      <4>1. PICK d \in 0 .. 2 : t = x.tile + d
        <5>1. t = x.tile + 0 \/ t = x.tile + 1 \/ t = x.tile + 2
          BY <1>5, <2>2 DEF Run
        <5> QED
          BY <5>1
      <4>2. \A e \in 0 .. 2 : w[a + e] = x.tile + e
        BY <1>5, <1>6, <2>2
      <4>3. a + d \in a .. a + 2 /\ w[a + d] = t
        BY <4>1, <4>2
      <4>4. \A j \in a .. a + 2 : j # a + d => w[j] # t
        <5>1. ASSUME NEW j \in a .. a + 2, j # a + d PROVE w[j] # t
          <6>1. PICK e \in 0 .. 2 : j = a + e /\ e # d
            <7>1. j - a \in 0 .. 2 /\ j = a + (j - a)
              OBVIOUS
            <7> QED
              BY <5>1, <7>1
          <6> QED
            <7>1. w[j] = x.tile + e
              BY <4>2, <6>1
            <7> QED
              BY <1>5, <4>1, <6>1, <7>1
        <5> QED
          BY <5>1
      <4> QED
        BY <4>3, <4>4
    <3>2. Cardinality(Places(w, a, a + 2, t)) = 1
      BY <3>1, ThreePlaces
    <3> QED
      BY <2>2, <3>2 DEF Uses
  <2>3. CASE x.run /\ t \notin Run(x.tile)
    <3>1. w[a] # t /\ w[a + 1] # t /\ w[a + 2] # t
      BY <1>5, <1>6, <2>3 DEF Run
    <3>2. Cardinality(Places(w, a, a + 2, t)) = 0
      BY <3>1, ThreePlaces
    <3> QED
      BY <2>3, <3>2 DEF Uses
  <2> QED
    BY <1>5, <2>1, <2>2, <2>3
<1>8. Cardinality(Places(w, a, Len(w), t))
        = Cardinality(Places(w, a, a + 2, t))
            + Cardinality(Places(w, (a + 2) + 1, Len(w), t))
  <2>1. a + 2 \in Int /\ Len(w) \in Int /\ a <= (a + 2) + 1 /\ a + 2 <= Len(w)
    BY <1>1, <1>2, <1>4
  <2> QED
    BY <2>1, PlacesSplit
<1>9. (a + 2) + 1 = 3 * (k + 1) + 3 /\ (a + 2) + 1 \in Int /\ Len(w) \in Int
  BY <1>1, <1>2, <1>4
<1>10. Cardinality(Places(w, (a + 2) + 1, Len(w), t)) \in Nat
  BY <1>9, PlacesFinite
<1>11. Uses(x, t) \in Nat
  BY DEF Uses
<1> QED
  BY <1>2, <1>3, <1>4, <1>7, <1>8, <1>9, <1>10, <1>11 DEF After

\* No tiles come after the last set, and before the first is the pair.
LEMMA AfterEnds ==
  ASSUME NEW q \in Tile, NEW s \in Seq(Shape), NEW t \in Tile
  PROVE  /\ \A k \in 0 .. Len(s) : After(TilesIn(q, s), k, t) \in Nat
         /\ After(TilesIn(q, s), Len(s), t) = 0
         /\ Count(TilesIn(q, s), t)
              = After(TilesIn(q, s), 0, t) + IF t = q THEN 2 ELSE 0
<1>1. PICK n \in Nat : n = Len(s)
  BY LenProperties
<1>2. PICK w : w = TilesIn(q, s) /\ w \in Seq(Tile) /\ Len(w) = 2 + 3 * n
  BY <1>1, TilesInAre
<1>3. \A k \in 0 .. n : After(w, k, t) \in Nat
  BY <1>2, PlacesFinite DEF After
<1>4. After(w, n, t) = 0
  <2>1. Places(w, 3 * n + 3, Len(w), t) = {}
    BY <1>2 DEF Places
  <2> QED
    BY <2>1, FS_EmptySet DEF After
<1>5. Cardinality(Places(w, 1, 2, t)) = IF t = q THEN 2 ELSE 0
  <2>1. w[1] = q /\ w[2] = q
    BY <1>2, TilesInAre
  <2>2. CASE t = q
    <3>1. PICK a \in Int : a = 1
      OBVIOUS
    <3>2. Places(w, 1, 2, t) = a .. a + 1
      BY <2>1, <2>2, <3>1 DEF Places
    <3>3. Cardinality(a .. a + 1) = 2
      BY FS_Interval
    <3> QED
      BY <2>2, <3>2, <3>3
  <2>3. CASE t # q
    <3>1. Places(w, 1, 2, t) = {}
      BY <2>1, <2>3 DEF Places
    <3> QED
      BY <2>3, <3>1, FS_EmptySet
  <2> QED
    BY <2>2, <2>3
<1>6. Cardinality(Places(w, 1, Len(w), t))
        = Cardinality(Places(w, 1, 2, t)) + Cardinality(Places(w, 2 + 1, Len(w), t))
  <2>1. 1 <= 2 + 1 /\ 2 <= Len(w) /\ Len(w) \in Int
    BY <1>2
  <2> QED
    BY <2>1, PlacesSplit
<1>7. Count(w, t) = Cardinality(Places(w, 1, Len(w), t))
  <2>1. DOMAIN w = 1 .. Len(w)
    BY <1>2, LenProperties
  <2> QED
    BY <2>1 DEF Count, Places
<1>8. After(w, 0, t) = Cardinality(Places(w, 2 + 1, Len(w), t)) /\ After(w, 0, t) \in Nat
  <2>1. 3 * 0 + 3 = 2 + 1
    OBVIOUS
  <2>2. After(w, 0, t) = Cardinality(Places(w, 3 * 0 + 3, Len(w), t))
    BY DEF After
  <2>3. After(w, 0, t) = Cardinality(Places(w, 2 + 1, Len(w), t))
    BY <2>1, <2>2
  <2> QED
    BY <1>3, <2>3
<1> QED
  BY <1>1, <1>2, <1>3, <1>4, <1>5, <1>6, <1>7, <1>8

\* A tally is taken apart into sets exactly when it is the tally of their tiles.
LEMMA ApartIs ==
  ASSUME NEW q \in Tile, NEW s \in Seq(Shape), NEW c \in Tally
  PROVE  Apart(c, s) <=> \A t \in Tile : c[t] = After(TilesIn(q, s), 0, t)
<1>1. PICK n \in Nat : n = Len(s) /\ s \in [1 .. n -> Shape]
  BY LenProperties
<1>2. PICK w : w = TilesIn(q, s)
  OBVIOUS
<1>3. ASSUME NEW k \in 0 .. n - 1, NEW t \in Tile
      PROVE  /\ After(w, k, t) = After(w, k + 1, t) + Uses(s[k + 1], t)
             /\ After(w, k + 1, t) \in Nat
             /\ Uses(s[k + 1], t) \in Nat
             /\ s[k + 1] \in Shape
  <2>1. k + 1 \in 0 .. n /\ k + 1 \in 1 .. n
    BY <1>1
  <2>2. After(w, k, t) = After(w, k + 1, t) + Uses(s[k + 1], t)
    BY <1>1, <1>2, AfterSet
  <2>3. After(w, k + 1, t) \in Nat
    BY <1>1, <1>2, <2>1, AfterEnds
  <2> QED
    BY <1>1, <2>1, <2>2, <2>3 DEF Uses
<1>4. ASSUME NEW t \in Tile
      PROVE  After(w, n, t) = 0 /\ \A k \in 0 .. n : After(w, k, t) \in Nat
  BY <1>1, <1>2, AfterEnds
<1>5. ASSUME \A t \in Tile : c[t] = After(w, 0, t)
      PROVE  Apart(c, s)
  <2>1. PICK p : p = [k \in 0 .. n |-> [t \in Tile |-> After(w, k, t)]]
    OBVIOUS
  <2>2. p \in [0 .. n -> Tally]
    BY <1>4, <2>1 DEF Tally
  <2>3. p[0] = c
    <3>1. p[0] = [t \in Tile |-> After(w, 0, t)]
      BY <1>1, <2>1
    <3>2. c = [t \in Tile |-> c[t]]
      BY DEF Tally
    <3> QED
      BY <1>5, <3>1, <3>2
  <2>4. p[n] = [t \in Tile |-> 0]
    BY <1>1, <1>4, <2>1
  <2>5. ASSUME NEW i \in 1 .. n
        PROVE  Fits(p[i - 1], s[i]) /\ p[i] = Take(p[i - 1], s[i])
    <3>1. PICK k \in 0 .. n - 1 : k = i - 1 /\ i = k + 1
      <4>1. i - 1 \in 0 .. n - 1 /\ i = (i - 1) + 1
        OBVIOUS
      <4> QED
        BY <4>1
    <3>2. PICK x \in Shape : x = s[i]
      BY <1>1
    <3>3. PICK a \in Tally : a = p[k]
      BY <2>2
    <3>4. PICK b \in Tally : b = p[i]
      BY <2>2
    <3>5. \A t \in Tile : a[t] = b[t] + Uses(x, t) /\ b[t] \in Nat
      <4>1. \A t \in Tile : a[t] = After(w, k, t) /\ b[t] = After(w, k + 1, t)
        BY <2>1, <3>1, <3>3, <3>4
      <4> QED
        BY <1>3, <3>1, <3>2, <4>1
    <3>6. Fits(a, x)
      <4>1. x.tile \in Tile /\ (x.run => Run(x.tile) \subseteq Tile)
        BY RunInSuit DEF Shape
      <4> QED
        BY <3>5, <4>1 DEF Fits, Uses
    <3>7. b = Take(a, x)
      <4>1. \A t \in Tile : b[t] = IF x.run THEN IF t \in Run(x.tile) THEN a[t] - 1 ELSE a[t]
                                            ELSE IF t = x.tile THEN a[t] - 3 ELSE a[t]
        BY <3>5 DEF Uses
      <4>2. b = [t \in Tile |-> b[t]]
        BY DEF Tally
      <4> QED
        BY <4>1, <4>2 DEF Take
    <3> QED
      BY <3>1, <3>2, <3>3, <3>4, <3>6, <3>7
  <2> QED
    BY <1>1, <2>2, <2>3, <2>4, <2>5 DEF Apart
<1>6. ASSUME Apart(c, s), NEW u \in Tile
      PROVE  c[u] = After(w, 0, u)
  <2>1. PICK p \in [0 .. n -> Tally] :
          /\ p[0] = c
          /\ p[n] = [t \in Tile |-> 0]
          /\ \A i \in 1 .. n : Fits(p[i - 1], s[i]) /\ p[i] = Take(p[i - 1], s[i])
    BY <1>1, <1>6 DEF Apart
  <2>2. ASSUME NEW k \in 0 .. n - 1
        PROVE  p[k][u] = p[k + 1][u] + Uses(s[k + 1], u)
    <3>1. PICK i \in 1 .. n : i = k + 1 /\ i - 1 = k
      OBVIOUS
    <3>2. p[i] = Take(p[k], s[i])
      BY <2>1, <3>1
    <3>3. p[k][u] \in Nat
      BY <2>1 DEF Tally
    <3>4. p[i][u] = IF s[i].run THEN IF u \in Run(s[i].tile) THEN p[k][u] - 1 ELSE p[k][u]
                                ELSE IF u = s[i].tile THEN p[k][u] - 3 ELSE p[k][u]
      BY <3>2 DEF Take
    <3> QED
      BY <3>1, <3>3, <3>4 DEF Uses
  <2>3. PICK S : S = {m \in Nat : m <= n => p[n - m][u] = After(w, n - m, u)}
    OBVIOUS
  <2>4. 0 \in S
    <3>1. n - 0 = n
      BY <1>1
    <3> QED
      BY <1>4, <2>1, <2>3, <3>1
  <2>5. ASSUME NEW m \in Nat, m \in S
        PROVE  m + 1 \in S
    <3> SUFFICES ASSUME m + 1 <= n
                 PROVE  p[n - (m + 1)][u] = After(w, n - (m + 1), u)
      BY <2>3
    <3>1. PICK k \in 0 .. n - 1 : k = n - (m + 1) /\ n - m = k + 1
      <4>1. n - (m + 1) \in 0 .. n - 1 /\ n - m = (n - (m + 1)) + 1
        OBVIOUS
      <4> QED
        BY <4>1
    <3>2. p[k + 1][u] = After(w, k + 1, u)
      BY <2>3, <2>5, <3>1
    <3> QED
      BY <1>3, <2>2, <3>1, <3>2
  <2>6. S = Nat
    BY <2>3, <2>4, <2>5, NatSets
  <2>7. n \in S /\ n - n = 0
    BY <2>6
  <2> QED
    BY <2>1, <2>3, <2>7
<1> QED
  BY <1>2, <1>5, <1>6

\* The tally of a pair and sets, with and without the pair.
LEMMA TallyOfTiles ==
  ASSUME NEW q \in Tile, NEW s \in Seq(Shape)
  PROVE  /\ CountTiles(TilesIn(q, s)) \in Tally
         /\ CountTiles(TilesIn(q, s))[q] >= 2
         /\ Apart([CountTiles(TilesIn(q, s)) EXCEPT ![q] = @ - 2], s)
<1>1. PICK w : w = TilesIn(q, s)
  OBVIOUS
<1>2. \A t \in Tile : /\ After(w, 0, t) \in Nat
                      /\ Count(w, t) = After(w, 0, t) + IF t = q THEN 2 ELSE 0
  <2>1. 0 \in 0 .. Len(s)
    BY LenProperties
  <2> QED
    BY <1>1, <2>1, AfterEnds
<1>3. PICK c : c = CountTiles(w)
  OBVIOUS
<1>4. c \in Tally /\ \A t \in Tile : c[t] = After(w, 0, t) + IF t = q THEN 2 ELSE 0
  BY <1>2, <1>3 DEF CountTiles, Tally
<1>5. c[q] >= 2
  BY <1>2, <1>4
<1>6. PICK d : d = [c EXCEPT ![q] = @ - 2]
  OBVIOUS
<1>7. d \in Tally /\ \A t \in Tile : d[t] = After(w, 0, t)
  BY <1>2, <1>4, <1>5, <1>6 DEF Tally
<1>8. Apart(d, s)
  BY <1>1, <1>7, ApartIs
<1> QED
  BY <1>1, <1>3, <1>4, <1>5, <1>6, <1>8

\* Sets that take a tally without its pair apart have exactly its tiles.
LEMMA TilesOfApart ==
  ASSUME NEW c \in Tally, NEW q \in Tile, c[q] >= 2, NEW s \in Seq(Shape),
         Apart([c EXCEPT ![q] = @ - 2], s)
  PROVE  CountTiles(TilesIn(q, s)) = c
<1>1. PICK w : w = TilesIn(q, s)
  OBVIOUS
<1>2. PICK d : d = [c EXCEPT ![q] = @ - 2]
  OBVIOUS
<1>3. d \in Tally /\ \A t \in Tile : c[t] = d[t] + IF t = q THEN 2 ELSE 0
  BY <1>2 DEF Tally
<1>4. \A t \in Tile : d[t] = After(w, 0, t)
  <2>1. Apart(d, s)
    BY <1>2
  <2> QED
    BY <1>1, <1>3, <2>1, ApartIs
<1>5. \A t \in Tile : Count(w, t) = After(w, 0, t) + IF t = q THEN 2 ELSE 0
  BY <1>1, AfterEnds
<1>6. \A t \in Tile : Count(w, t) = c[t]
  BY <1>3, <1>4, <1>5
<1>7. c = [t \in Tile |-> c[t]]
  BY DEF Tally
<1> QED
  BY <1>1, <1>6, <1>7 DEF CountTiles

-----------------------------------------------------------------------------
(* What Analyze reads in a complete hand.                                  *)

\* Analyze returns something, and what it returns is the special shape or a
\* pair and sets of the right shape with exactly the tiles it was given.
THEOREM CompleteHandsAreRead ==
  ASSUME NEW h \in Hands
  PROVE  /\ Analyze(ConcealedTiles(h), Len(h.open)) # {}
         /\ \A a \in Analyze(ConcealedTiles(h), Len(h.open)) :
              \/ a = [pair |-> NoTile, melds |-> << >>]
              \/ /\ a.pair \in Tile
                 /\ a.melds \in Seq(Shape)
                 /\ Len(a.melds) = Len(h.closed)
                 /\ CountTiles(TilesIn(a.pair, a.melds)) = CountTiles(ConcealedTiles(h))
<1>1. /\ h.pair \in Tile /\ h.closed \in Seq(Shape)
      /\ Len(h.closed) + Len(h.open) = Sets
      /\ Len(h.closed) \in Nat /\ Len(h.open) \in Nat
  BY HandAssumption, LenProperties
<1>2. PICK hand : hand = ConcealedTiles(h)
  OBVIOUS
<1>3. PICK open \in Nat : open = Len(h.open)
  BY <1>1
<1>4. PICK n \in Nat : n = Len(h.closed) /\ Sets = n + open /\ Sets - open = n
  <2>1. PICK n \in Nat : n = Len(h.closed)
    BY <1>1
  <2>2. Sets = n + open
    BY <1>1, <1>3, <2>1
  <2>3. Sets - open = n
    BY <2>2
  <2> QED
    BY <2>1, <2>2, <2>3
<1>5. Len(hand) = HandLen + 1 - 3 * open
  <2>1. Len(hand) = 2 + 3 * n
    BY <1>1, <1>2, <1>4, TilesInAre DEF ConcealedTiles
  <2> QED
    <3>1. PICK all \in Nat : all = Sets
      BY <1>4
    <3>2. HandLen + 1 - 3 * open = 3 * all + 1 + 1 - 3 * open
      BY <3>1 DEF HandLen
    <3>3. all = n + open
      BY <1>4, <3>1
    <3> QED
      BY <2>1, <3>2, <3>3
<1>6. PICK c \in Tally : c = CountTiles(hand)
  BY <1>1, <1>2, TallyOfTiles DEF ConcealedTiles
<1>7. CASE open = 0 /\ (IsKokushi(hand) \/ IsChiitoitsu(hand))
  <2>1. Analyze(hand, open) = {[pair |-> NoTile, melds |-> << >>]}
    BY <1>5, <1>7 DEF Analyze
  <2> QED
    BY <1>2, <1>3, <2>1
<1>8. CASE ~(open = 0 /\ (IsKokushi(hand) \/ IsChiitoitsu(hand)))
  <2>1. Analyze(hand, open) =
          UNION {{[pair |-> p, melds |-> m] :
                    m \in SplitSets[n][[c EXCEPT ![p] = @ - 2]]} :
                  p \in {t \in Tile : c[t] >= 2}}
    <3>1. Analyze(hand, open) =
            LET d == CountTiles(hand)
            IN  UNION {{[pair |-> p, melds |-> m] :
                          m \in SplitSets[Sets - open][[d EXCEPT ![p] = @ - 2]]} :
                        p \in {t \in Tile : d[t] >= 2}}
      BY <1>5, <1>8 DEF Analyze
    <3> QED
      BY <1>4, <1>6, <3>1
  <2>2. Analyze(hand, open) # {}
    <3>1. /\ c[h.pair] >= 2
          /\ Apart([c EXCEPT ![h.pair] = @ - 2], h.closed)
      BY <1>1, <1>2, <1>6, TallyOfTiles DEF ConcealedTiles
    <3>2. [c EXCEPT ![h.pair] = @ - 2] \in Tally
      BY <1>1, <3>1 DEF Tally
    <3>3. SplitSets[n][[c EXCEPT ![h.pair] = @ - 2]] # {}
      BY <1>1, <1>4, <3>1, <3>2, SplitFound
    <3>4. PICK m \in SplitSets[n][[c EXCEPT ![h.pair] = @ - 2]] : TRUE
      BY <3>3
    <3>5. [pair |-> h.pair, melds |-> m] \in Analyze(hand, open)
      <4>1. [pair |-> h.pair, melds |-> m] \in
              {[pair |-> h.pair, melds |-> x] :
                 x \in SplitSets[n][[c EXCEPT ![h.pair] = @ - 2]]}
        BY <3>4
      <4>2. h.pair \in {t \in Tile : c[t] >= 2}
        BY <1>1, <3>1
      <4> DEFINE Of(p) == {[pair |-> p, melds |-> x] :
                             x \in SplitSets[n][[c EXCEPT ![p] = @ - 2]]}
      <4>3. [pair |-> h.pair, melds |-> m] \in Of(h.pair)
        BY <4>1
      <4>4. Analyze(hand, open) = UNION {Of(p) : p \in {t \in Tile : c[t] >= 2}}
        BY <2>1
      <4> HIDE DEF Of
      <4> QED
        BY <4>2, <4>3, <4>4
    <3> QED
      BY <3>5
  <2>3. ASSUME NEW a \in Analyze(hand, open)
        PROVE  /\ a.pair \in Tile
               /\ a.melds \in Seq(Shape)
               /\ Len(a.melds) = n
               /\ CountTiles(TilesIn(a.pair, a.melds)) = c
    <3>1. PICK p \in {t \in Tile : c[t] >= 2} :
            a \in {[pair |-> p, melds |-> m] : m \in SplitSets[n][[c EXCEPT ![p] = @ - 2]]}
      BY <2>1
    <3>2. PICK m \in SplitSets[n][[c EXCEPT ![p] = @ - 2]] : a = [pair |-> p, melds |-> m]
      BY <3>1
    <3>3. [c EXCEPT ![p] = @ - 2] \in Tally
      BY <3>1 DEF Tally
    <3>4. m \in Seq(Shape) /\ Len(m) = n /\ Apart([c EXCEPT ![p] = @ - 2], m)
      BY <3>3, SplitSound
    <3>5. CountTiles(TilesIn(p, m)) = c
      BY <3>1, <3>4, TilesOfApart
    <3> QED
      BY <3>1, <3>2, <3>4, <3>5
  <2> QED
    BY <1>2, <1>3, <1>4, <1>6, <2>2, <2>3
<1> QED
  BY <1>7, <1>8

Meld == [run : BOOLEAN, tile : Tile, open : BOOLEAN]

ClosedSets(m) == [i \in DOMAIN m |-> Closed(m[i])]

\* What the reading of a hand consists of: the open sets and then others.
LEMMA MeldsAre ==
  ASSUME NEW h \in Hands, NEW m \in Seq(Shape), Len(m) = Len(h.closed)
  PROVE  /\ OpenSets(h) \o ClosedSets(m) \in Seq(Meld)
         /\ Len(OpenSets(h) \o ClosedSets(m)) = Sets
         /\ Len(h.open) \in Nat /\ Len(m) \in Nat /\ Len(h.open) + Len(m) = Sets
         /\ DOMAIN h.open = 1 .. Len(h.open)
         /\ \A i \in 1 .. Len(h.open) :
              /\ (OpenSets(h) \o ClosedSets(m))[i] = OpenSets(h)[i]
              /\ OpenSets(h)[i] = [run |-> FALSE, tile |-> h.open[i], open |-> TRUE]
              /\ h.open[i] \in Tile
         /\ \A i \in 1 .. Len(m) :
              (OpenSets(h) \o ClosedSets(m))[Len(h.open) + i] = Closed(m[i])
<1>1. PICK a \in Nat : a = Len(h.open) /\ h.open \in [1 .. a -> Tile]
  BY HandAssumption, LenProperties
<1>2. PICK b \in Nat : b = Len(m) /\ m \in [1 .. b -> Shape]
  BY LenProperties
<1>3. a + b = Sets
  <2>1. Len(h.closed) + Len(h.open) = Sets
    BY HandAssumption
  <2> QED
    <3>1. Len(h.closed) = b /\ Len(h.open) = a
      BY <1>1, <1>2
    <3>2. b + a = Sets
      BY <2>1, <3>1
    <3> QED
      BY <3>2
<1>4. PICK o : o = OpenSets(h)
  OBVIOUS
<1>5. PICK c : c = ClosedSets(m)
  OBVIOUS
<1>6. o = [i \in 1 .. a |-> [run |-> FALSE, tile |-> h.open[i], open |-> TRUE]]
  BY <1>1, <1>4 DEF OpenSets
<1>7. o \in Seq(Meld) /\ Len(o) = a
  <2>1. o \in [1 .. a -> Meld]
    BY <1>1, <1>6 DEF Meld
  <2> QED
    BY <2>1
<1>8. c = [i \in 1 .. b |-> Closed(m[i])]
  BY <1>2, <1>5 DEF ClosedSets
<1>9. c \in Seq(Meld) /\ Len(c) = b
  <2>1. c \in [1 .. b -> Meld]
    BY <1>2, <1>8 DEF Meld, Closed, Shape
  <2> QED
    BY <2>1
<1>10. /\ o \o c \in Seq(Meld)
       /\ Len(o \o c) = a + b
       /\ \A i \in 1 .. a + b : (o \o c)[i] = IF i <= a THEN o[i] ELSE c[i - a]
  <2>1. /\ o \o c \in Seq(Meld)
        /\ Len(o \o c) = Len(o) + Len(c)
        /\ \A i \in 1 .. Len(o) + Len(c) :
             (o \o c)[i] = IF i <= Len(o) THEN o[i] ELSE c[i - Len(o)]
    BY <1>7, <1>9, ConcatProperties
  <2> QED
    BY <1>7, <1>9, <2>1
<1>11. \A i \in 1 .. a : (o \o c)[i] = o[i]
  BY <1>10
<1>12. ASSUME NEW i \in 1 .. b PROVE (o \o c)[a + i] = Closed(m[i])
  <2>1. a + i \in 1 .. a + b /\ ~(a + i <= a) /\ (a + i) - a = i
    OBVIOUS
  <2>2. (o \o c)[a + i] = c[(a + i) - a]
    BY <1>10, <2>1
  <2> QED
    BY <1>8, <2>1, <2>2
<1>13. DOMAIN h.open = 1 .. a
  BY <1>1
<1>14. \A i \in 1 .. a : /\ o[i] = [run |-> FALSE, tile |-> h.open[i], open |-> TRUE]
                         /\ h.open[i] \in Tile
  BY <1>1, <1>6
<1> QED
  BY <1>1, <1>2, <1>3, <1>4, <1>5, <1>10, <1>11, <1>12, <1>13, <1>14

\* A reading is the special shape, or the open sets and sets made of exactly
\* the concealed tiles.
LEMMA ReadingsAre ==
  ASSUME NEW h \in Hands
  PROVE  /\ Readings(h) # {}
         /\ \A x \in Readings(h) :
              \/ x.pair = NoTile
              \/ /\ x.pair \in Tile
                 /\ \E m \in Seq(Shape) :
                      /\ Len(m) = Len(h.closed)
                      /\ x.melds = OpenSets(h) \o ClosedSets(m)
                      /\ CountTiles(TilesIn(x.pair, m)) = CountTiles(ConcealedTiles(h))
<1>1. PICK A : A = Analyze(ConcealedTiles(h), Len(h.open))
  OBVIOUS
<1>2. Readings(h) = {[pair |-> a.pair, melds |-> OpenSets(h) \o ClosedSets(a.melds)] : a \in A}
  BY <1>1 DEF Readings, ClosedSets
<1>3. A # {}
  BY <1>1, CompleteHandsAreRead
<1>4. ASSUME NEW x \in Readings(h), x.pair # NoTile
      PROVE  /\ x.pair \in Tile
             /\ \E m \in Seq(Shape) :
                  /\ Len(m) = Len(h.closed)
                  /\ x.melds = OpenSets(h) \o ClosedSets(m)
                  /\ CountTiles(TilesIn(x.pair, m)) = CountTiles(ConcealedTiles(h))
  <2>1. PICK a \in A : x = [pair |-> a.pair, melds |-> OpenSets(h) \o ClosedSets(a.melds)]
    BY <1>2
  <2>2. x.pair = a.pair /\ x.melds = OpenSets(h) \o ClosedSets(a.melds)
    BY <2>1
  <2>3. a # [pair |-> NoTile, melds |-> << >>]
    BY <1>4, <2>2
  <2>4. /\ a.pair \in Tile
        /\ a.melds \in Seq(Shape)
        /\ Len(a.melds) = Len(h.closed)
        /\ CountTiles(TilesIn(a.pair, a.melds)) = CountTiles(ConcealedTiles(h))
    BY <1>1, <2>3, CompleteHandsAreRead
  <2> QED
    BY <2>2, <2>4
<1> QED
  BY <1>2, <1>3, <1>4

\* The reading that CheckWin scores.
Scored(h) == CHOOSE x \in Readings(h) : \A y \in Readings(h) : x.pair <= y.pair

\* There is a reading with the lowest pair.
LEMMA ScoredIsRead == ASSUME NEW h \in Hands PROVE Scored(h) \in Readings(h)
<1>1. \A x \in Readings(h) : x.pair + 1 \in Nat /\ x.pair \in Int
  BY ReadingsAre, YakuAssumption DEF NoTile, Tile
<1>2. PICK P : P = {x.pair + 1 : x \in Readings(h)}
  OBVIOUS
<1>3. P \in SUBSET Nat /\ P # {}
  BY <1>1, <1>2, ReadingsAre
<1>4. PICK p \in P : \A q \in P : ~(<<q, p>> \in OpToRel(<, Nat))
  BY <1>3, NatLessThanWellFounded, WFMin
<1>5. \A q \in P : ~(q < p)
  BY <1>3, <1>4 DEF OpToRel
<1>6. PICK x \in Readings(h) : p = x.pair + 1
  BY <1>2
<1>7. \A y \in Readings(h) : x.pair <= y.pair
  <2>1. ASSUME NEW y \in Readings(h) PROVE x.pair <= y.pair
    <3>1. ~(y.pair + 1 < x.pair + 1)
      BY <1>2, <1>5, <1>6
    <3> QED
      BY <1>1, <3>1
  <2> QED
    BY <2>1
<1> QED
  BY <1>7 DEF Scored

\* What CheckWin returns for a complete hand.
LEMMA CheckWinReads ==
  ASSUME NEW h \in Hands, NEW seat, NEW tsumo, NEW ind
  PROVE  /\ Scored(h).pair = NoTile => CheckWin(h, seat, tsumo, ind).kind = "panic"
         /\ Scored(h).pair # NoTile =>
              /\ CheckWin(h, seat, tsumo, ind).kind = "win"
              /\ CheckWin(h, seat, tsumo, ind).reading = Scored(h)
<1>1. Readings(h) # {}
  BY ReadingsAre
<1> QED
  BY <1>1 DEF CheckWin, Scored

LEMMA CheckWinFans ==
  ASSUME NEW h \in Hands, NEW seat, NEW tsumo, NEW ind, Scored(h).pair # NoTile
  PROVE  CheckWin(h, seat, tsumo, ind).fans
           = Calc(Scored(h), ConcealedTiles(h), Ctx(seat, tsumo))
<1>1. Readings(h) # {}
  BY ReadingsAre
<1> QED
  BY <1>1 DEF CheckWin, Scored

-----------------------------------------------------------------------------
(* The inductive invariant: a hand that has been asked about has the win   *)
(* that CheckWin makes of it.                                              *)

Asked ==
  /\ held \in Hands
  /\ \/ win = Unasked
     \/ \E seat \in 0 .. 3, tsumo \in BOOLEAN, ind \in Indicators :
          win = CheckWin(held, seat, tsumo, ind)

\* A hand is asked about once, and keeps what CheckWin answered (Declare).
THEOREM AlwaysAsked == Spec => []Asked
<1>1. Init => Asked
  BY DEF Init, Asked
<1>2. Asked /\ [Next]_vars => Asked'
  <2> SUFFICES ASSUME Asked, [Next]_vars PROVE Asked'
    OBVIOUS
  <2>1. CASE Next
    <3>1. PICK seat \in 0 .. 3, tsumo \in BOOLEAN, ind \in Indicators :
            Declare(seat, tsumo, ind)
      BY <2>1 DEF Next
    <3>2. held' = held /\ win' = CheckWin(held, seat, tsumo, ind)
      BY <3>1 DEF Declare
    <3>3. win' = CheckWin(held', seat, tsumo, ind)
      BY <3>2
    <3> QED
      BY <3>2, <3>3 DEF Asked
  <2>2. CASE UNCHANGED vars
    BY <2>2 DEF Asked, vars
  <2> QED
    BY <2>1, <2>2
<1> QED
  BY <1>1, <1>2, PTL DEF Spec

\* The closed sets of a reading of sets m, and their tiles.
LEMMA SplitIs ==
  ASSUME NEW h \in Hands, held = h, NEW q \in Tile, NEW m \in Seq(Shape),
         Len(m) = Len(h.closed),
         NEW r, r.melds = OpenSets(h) \o ClosedSets(m)
  PROVE  /\ \A x \in Range(Split(r)) : \E y \in Shape : x = Closed(y)
         /\ TilesIn(q, Split(r)) = TilesIn(q, m)
<1>1. PICK s : s = r.melds
  OBVIOUS
<1>2. PICK a \in Nat : a = Len(h.open)
  BY MeldsAre
<1>3. PICK b \in Nat : b = Len(m) /\ m \in [1 .. b -> Shape]
  BY LenProperties
<1>4. s \in Seq(Meld) /\ Len(s) = a + b
  BY <1>1, <1>2, <1>3, MeldsAre, ZenonT(40)
<1>5. \A i \in 1 .. b : s[a + i] = Closed(m[i])
  BY <1>1, <1>2, <1>3, MeldsAre, ZenonT(40)
<1>6. PICK z : z = Split(r)
  OBVIOUS
<1>7. z = SubSeq(s, a + 1, a + b)
  BY <1>1, <1>2, <1>4, <1>6 DEF Split
<1>8. /\ z \in Seq(Meld) /\ Len(z) = b
      /\ \A i \in 1 .. b : z[i] = Closed(m[i])
  <2>1. \A i \in a + 1 .. a + b : s[i] \in Meld
    BY <1>4, ElementOfSeq
  <2>2. /\ z \in Seq(Meld)
        /\ Len(z) = IF a + 1 <= a + b THEN (a + b) - (a + 1) + 1 ELSE 0
        /\ \A i \in 1 .. (a + b) - (a + 1) + 1 : z[i] = s[(a + 1) + i - 1]
    BY <1>7, <2>1, SubSeqProperties
  <2>3. Len(z) = b
    BY <2>2
  <2>4. ASSUME NEW i \in 1 .. b PROVE z[i] = Closed(m[i])
    <3>1. i \in 1 .. (a + b) - (a + 1) + 1 /\ (a + 1) + i - 1 = a + i
      OBVIOUS
    <3> QED
      BY <1>5, <2>2, <3>1
  <2> QED
    BY <2>2, <2>3, <2>4
<1>9. \A x \in Range(z) : \E y \in Shape : x = Closed(y)
  <2>1. DOMAIN z = 1 .. b
    BY <1>8, LenProperties
  <2> QED
    BY <1>3, <1>8, <2>1 DEF Range
<1>10. TilesIn(q, z) = TilesIn(q, m)
  <2>1. ASSUME NEW j \in 1 .. 2 + 3 * b, ~(j <= 2)
        PROVE  TilesOf(z[j \div 3])[(j % 3) + 1] = TilesOf(m[j \div 3])[(j % 3) + 1]
    <3>1. j \div 3 \in 1 .. b
      BY <2>1
    <3>2. z[j \div 3] = Closed(m[j \div 3])
      BY <1>8, <3>1
    <3>3. TilesOf(z[j \div 3]) = TilesOf(m[j \div 3])
      BY <3>2 DEF TilesOf, Closed
    <3> QED
      BY <3>3
  <2> QED
    BY <1>3, <1>8, <2>1 DEF TilesIn
<1> QED
  BY <1>6, <1>9, <1>10

\* A pair and sets always win, and what is read in them is the open sets as
\* they were called and sets of exactly the concealed tiles, each within a
\* suit (Analyze, splitSets, CheckWin), for every deck and every hand.
THEOREM HandIsRead == Spec => []ReadingIsTheHand
<1>1. Asked => ReadingIsTheHand
  <2> SUFFICES ASSUME Asked PROVE ReadingIsTheHand
    OBVIOUS
  <2>1. PICK h \in Hands : h = held
    BY DEF Asked
  <2>2. CASE win = Unasked
    BY <2>2 DEF ReadingIsTheHand, Won, Unasked
  <2>3. ASSUME NEW seat \in 0 .. 3, NEW tsumo \in BOOLEAN, NEW ind \in Indicators,
               win = CheckWin(h, seat, tsumo, ind)
        PROVE  ReadingIsTheHand
    <3>1. CASE Scored(h).pair = NoTile
      <4>1. win.kind = "panic"
        BY <2>3, <3>1, CheckWinReads
      <4> QED
        BY <4>1 DEF ReadingIsTheHand, Won
    <3>2. CASE Scored(h).pair # NoTile
      <4>1. PICK r : r = Scored(h) /\ r \in Readings(h) /\ r.pair # NoTile
        BY <3>2, ScoredIsRead
      <4>2. win.kind = "win" /\ win.reading = r
        <5>1. win.kind = "win" /\ win.reading = Scored(h)
          <6>1. /\ CheckWin(h, seat, tsumo, ind).kind = "win"
                /\ CheckWin(h, seat, tsumo, ind).reading = Scored(h)
            BY <3>2, CheckWinReads
          <6> QED
            BY <2>3, <6>1
        <5> QED
          BY <4>1, <5>1
      <4>3. r.pair \in Tile
        BY <4>1, ReadingsAre
      <4>4. PICK m \in Seq(Shape) :
              /\ Len(m) = Len(h.closed)
              /\ r.melds = OpenSets(h) \o ClosedSets(m)
              /\ CountTiles(TilesIn(r.pair, m)) = CountTiles(ConcealedTiles(h))
        BY <4>1, ReadingsAre
      <4>5. Len(r.melds) = Sets /\ \A i \in DOMAIN h.open : r.melds[i] = OpenSets(h)[i]
        BY <4>4, MeldsAre, ZenonT(40)
      <4>6. /\ \A x \in Range(Split(r)) : \E y \in Shape : x = Closed(y)
            /\ TilesIn(r.pair, Split(r)) = TilesIn(r.pair, m)
        BY <2>1, <4>3, <4>4, SplitIs
      <4>7. ASSUME NEW x \in Range(Split(r))
            PROVE  ~x.open /\ (x.run => ~IsHonor(x.tile) /\ Suit(x.tile) = Suit(x.tile + 2))
        <5>1. PICK y \in Shape : x = Closed(y)
          BY <4>6
        <5>2. x.open = FALSE /\ x.run = y.run /\ x.tile = y.tile /\ y.tile \in Tile
          BY <5>1 DEF Closed, Shape
        <5>3. y.run => ~IsHonor(y.tile) /\ y.tile % Ranks < Ranks - 2
          BY DEF Shape
        <5>4. y.run => Suit(y.tile) = Suit(y.tile + 2)
          BY <5>2, <5>3, RunInSuit DEF Run, Suit
        <5> QED
          BY <5>2, <5>3, <5>4
      <4> QED
        BY <2>1, <4>2, <4>4, <4>5, <4>6, <4>7 DEF ReadingIsTheHand, Won
    <3> QED
      BY <3>1, <3>2
  <2> QED
    BY <2>1, <2>2, <2>3 DEF Asked
<1> QED
  BY <1>1, AlwaysAsked, PTL

-----------------------------------------------------------------------------
(* The yaku of a scored reading.                                           *)

\* What a scored reading is.
LEMMA ScoredIs ==
  ASSUME NEW h \in Hands, NEW r, r = Scored(h), r.pair # NoTile
  PROVE  /\ r.pair \in Tile
         /\ r.melds \in Seq(Meld) /\ Len(r.melds) = Sets /\ r.melds # << >>
         /\ \A m \in Range(r.melds) :
              /\ m.tile \in Tile /\ m.run \in BOOLEAN /\ m.open \in BOOLEAN
              /\ m.run => ~IsHonor(m.tile) /\ m.tile % Ranks < Ranks - 2
         /\ ~IsKokushi(ConcealedTiles(h))
<1>1. r \in Readings(h)
  BY ScoredIsRead
<1>2. r.pair \in Tile
  BY <1>1, ReadingsAre
<1>3. PICK n \in Seq(Shape) :
        Len(n) = Len(h.closed) /\ r.melds = OpenSets(h) \o ClosedSets(n)
  BY <1>1, ReadingsAre
<1>4. PICK s : s = r.melds
  OBVIOUS
<1>5. PICK a \in Nat : a = Len(h.open)
  BY <1>3, MeldsAre
<1>6. PICK b \in Nat : b = Len(n) /\ n \in [1 .. b -> Shape]
  BY LenProperties
<1>7. s \in Seq(Meld) /\ Len(s) = Sets /\ a + b = Sets
  BY <1>3, <1>4, <1>5, <1>6, MeldsAre, ZenonT(40)
<1>8. DOMAIN s = 1 .. a + b /\ s # << >>
  <2>1. DOMAIN s = 1 .. Len(s)
    BY <1>7, LenProperties
  <2>2. s # << >>
    BY <1>7, YakuAssumption, EmptySeq
  <2> QED
    BY <1>7, <2>1, <2>2
<1>9. ASSUME NEW i \in 1 .. a + b
      PROVE  /\ s[i].tile \in Tile /\ s[i].run \in BOOLEAN /\ s[i].open \in BOOLEAN
             /\ s[i].run => ~IsHonor(s[i].tile) /\ s[i].tile % Ranks < Ranks - 2
  <2>1. CASE i <= a
    <3>1. i \in 1 .. a
      BY <2>1
    <3>2. s[i] = [run |-> FALSE, tile |-> h.open[i], open |-> TRUE] /\ h.open[i] \in Tile
      BY <1>3, <1>4, <1>5, <3>1, MeldsAre
    <3> QED
      BY <3>2
  <2>2. CASE ~(i <= a)
    <3>1. PICK j \in 1 .. b : i = a + j
      <4>1. i - a \in 1 .. b /\ i = a + (i - a)
        BY <2>2
      <4> QED
        BY <4>1
    <3>2. s[a + j] = Closed(n[j])
      BY <1>3, <1>4, <1>5, <1>6, MeldsAre
    <3>3. PICK y \in Shape : y = n[j]
      BY <1>6
    <3> QED
      BY <3>1, <3>2, <3>3 DEF Closed, Shape
  <2> QED
    BY <2>1, <2>2
<1>10. \A m \in Range(s) :
         /\ m.tile \in Tile /\ m.run \in BOOLEAN /\ m.open \in BOOLEAN
         /\ m.run => ~IsHonor(m.tile) /\ m.tile % Ranks < Ranks - 2
  BY <1>8, <1>9 DEF Range
<1>11. ~IsKokushi(ConcealedTiles(h))
  <2> SUFFICES ASSUME IsKokushi(ConcealedTiles(h)) PROVE FALSE
    OBVIOUS
  <2>1. PICK hand : hand = ConcealedTiles(h)
    OBVIOUS
  <2>2. Len(hand) = HandLen + 1
    BY <2>1 DEF IsKokushi
  <2>3. Analyze(hand, a) # {}
    BY <1>5, <2>1, CompleteHandsAreRead
  <2>4. Len(hand) = HandLen + 1 - 3 * a
    BY <2>3 DEF Analyze
  <2>5. a = 0
    <3>1. HandLen \in Nat
      BY YakuAssumption DEF HandLen
    <3> QED
      BY <2>2, <2>4, <3>1
  <2>6. Analyze(hand, a) = {[pair |-> NoTile, melds |-> << >>]}
    BY <2>1, <2>4, <2>5 DEF Analyze
  <2>7. \A x \in Readings(h) : x.pair = NoTile
    BY <1>5, <2>1, <2>6 DEF Readings
  <2> QED
    BY <1>1, <2>7
<1> QED
  BY <1>2, <1>4, <1>7, <1>8, <1>10, <1>11

\* The yaku of a scored reading.
LEMMA ScoredCounts ==
  ASSUME NEW h \in Hands, NEW r, r = Scored(h), r.pair # NoTile, NEW c
  PROVE  Calc(r, ConcealedTiles(h), c) =
           IF FourConcealedTriplets(r) THEN {Fan("suuankou", 13)}
           ELSE Regular(r, ConcealedTiles(h), c)
<1>1. r.melds # << >> /\ ~IsKokushi(ConcealedTiles(h))
  BY ScoredIs
<1>2. FourConcealedTriplets(r) => Yakuman(r, ConcealedTiles(h)) = {Fan("suuankou", 13)}
  BY <1>1 DEF Yakuman
<1>3. ~FourConcealedTriplets(r) => Yakuman(r, ConcealedTiles(h)) = {}
  BY <1>1 DEF Yakuman
<1> QED
  BY <1>1, <1>2, <1>3 DEF Calc

Menzen(r) == \A m \in Range(r.melds) : ~m.open

RunsIn(r) == Cardinality({i \in DOMAIN r.melds : r.melds[i].run})

EndsOnly(r) == Chanta(r, FALSE)

TerminalsOnly(r) == Chanta(r, TRUE)

Worth(r, closed, open) == IF Menzen(r) THEN closed ELSE open

\* The yaku one by one.
LEMMA RegularIs ==
  ASSUME NEW r, NEW hand, NEW c, NEW f
  PROVE  f \in Regular(r, hand, c) <=>
           \/ c.riichi /\ c.daburi /\ f = Fan("daburi", 2)
           \/ c.riichi /\ ~c.daburi /\ f = Fan("riichi", 1)
           \/ c.riichi /\ c.ippatsu /\ f = Fan("ippatsu", 1)
           \/ Drawn(c, Menzen(r)) /\ f = Fan("menzenTsumo", 1)
           \/ c.rinshan /\ f = Fan("rinshan", 1)
           \/ c.chankan /\ f = Fan("chankan", 1)
           \/ /\ Menzen(r) /\ ~c.zimo /\ RunsIn(r) = 4
              /\ IsHonor(r.pair) \/ IsTerminal(r.pair)
              /\ f = Fan("pinfu", 1)
           \/ Tanyao(r) /\ f = Fan("tanyao", 1)
           \/ f \in Yakuhai(r, c)
           \/ RunsIn(r) = 0 /\ Len(r.melds) = 4 /\ f = Fan("toitoi", 2)
           \/ EndsOnly(r) /\ f = Fan("chanta", Worth(r, 2, 1))
           \/ TerminalsOnly(r) /\ f = Fan("junchan", Worth(r, 3, 2))
           \/ Honitsu(hand) /\ f = Fan("honitsu", Worth(r, 3, 2))
           \/ Chinitsu(r, hand) /\ f = Fan("chinitsu", Worth(r, 6, 5))
           \/ /\ SanshokuDoujun(r)
              /\ f = Fan(IF Menzen(r) THEN "sanshoku" ELSE "sanshokuOpen", Worth(r, 2, 1))
           \/ Ittsu(r) /\ f = Fan("ittsu", Worth(r, 2, 1))
<1>1. f \in Regular(r, hand, c) <=>
           \/ f \in When(c.riichi /\ c.daburi, "daburi", 2)
           \/ f \in When(c.riichi /\ ~c.daburi, "riichi", 1)
           \/ f \in When(c.riichi /\ c.ippatsu, "ippatsu", 1)
           \/ f \in When(Drawn(c, Menzen(r)), "menzenTsumo", 1)
           \/ f \in When(c.rinshan, "rinshan", 1)
           \/ f \in When(c.chankan, "chankan", 1)
           \/ f \in When(/\ Menzen(r) /\ ~c.zimo /\ RunsIn(r) = 4
                         /\ IsHonor(r.pair) \/ IsTerminal(r.pair), "pinfu", 1)
           \/ f \in When(Tanyao(r), "tanyao", 1)
           \/ f \in Yakuhai(r, c)
           \/ f \in When(RunsIn(r) = 0 /\ Len(r.melds) = 4, "toitoi", 2)
           \/ f \in When(EndsOnly(r), "chanta", Worth(r, 2, 1))
           \/ f \in When(TerminalsOnly(r), "junchan", Worth(r, 3, 2))
           \/ f \in When(Honitsu(hand), "honitsu", Worth(r, 3, 2))
           \/ f \in When(Chinitsu(r, hand), "chinitsu", Worth(r, 6, 5))
           \/ f \in When(SanshokuDoujun(r),
                         IF Menzen(r) THEN "sanshoku" ELSE "sanshokuOpen", Worth(r, 2, 1))
           \/ f \in When(Ittsu(r), "ittsu", Worth(r, 2, 1))
  BY DEF Regular, Menzen, RunsIn, Worth, EndsOnly, TerminalsOnly
<1> QED
  BY <1>1, Zenon DEF When

LEMMA YakuhaiNames ==
  ASSUME NEW r, NEW c, NEW f, f \in Yakuhai(r, c)
  PROVE  f.name \in {"haku", "hatsu", "chun", "yakuhaiSeat", "yakuhaiRound"}
BY DEF Yakuhai, When, Fan

\* The names of three yaku stand for the conditions that count them.
LEMMA EndNames ==
  ASSUME NEW r, NEW hand, NEW c
  PROVE  /\ (\E f \in Regular(r, hand, c) : f.name = "tanyao") <=> Tanyao(r)
         /\ (\E f \in Regular(r, hand, c) : f.name = "chanta") <=> EndsOnly(r)
         /\ (\E f \in Regular(r, hand, c) : f.name = "junchan") <=> TerminalsOnly(r)
<1>0. \A n, k : Fan(n, k).name = n
  BY DEF Fan
<1>1. ASSUME NEW f \in Regular(r, hand, c), f.name \in {"tanyao", "chanta", "junchan"}
      PROVE  \/ Tanyao(r) /\ f.name = "tanyao"
             \/ EndsOnly(r) /\ f.name = "chanta"
             \/ TerminalsOnly(r) /\ f.name = "junchan"
  <2>1. f \notin Yakuhai(r, c)
    BY <1>1, YakuhaiNames
  <2>2. \/ f.name \in {"daburi", "riichi", "ippatsu", "menzenTsumo", "rinshan",
                       "chankan", "pinfu", "toitoi", "honitsu", "chinitsu",
                       "sanshoku", "sanshokuOpen", "ittsu"}
        \/ Tanyao(r) /\ f = Fan("tanyao", 1)
        \/ EndsOnly(r) /\ f = Fan("chanta", Worth(r, 2, 1))
        \/ TerminalsOnly(r) /\ f = Fan("junchan", Worth(r, 3, 2))
    <3>1. \/ f = Fan("daburi", 2) \/ f = Fan("riichi", 1) \/ f = Fan("ippatsu", 1)
          \/ f = Fan("menzenTsumo", 1) \/ f = Fan("rinshan", 1)
          \/ f = Fan("chankan", 1) \/ f = Fan("pinfu", 1) \/ f = Fan("toitoi", 2)
          \/ f = Fan("honitsu", Worth(r, 3, 2))
          \/ f = Fan("chinitsu", Worth(r, 6, 5))
          \/ f = Fan("sanshoku", Worth(r, 2, 1)) \/ f = Fan("sanshokuOpen", Worth(r, 2, 1))
          \/ f = Fan("ittsu", Worth(r, 2, 1))
          \/ Tanyao(r) /\ f = Fan("tanyao", 1)
          \/ EndsOnly(r) /\ f = Fan("chanta", Worth(r, 2, 1))
          \/ TerminalsOnly(r) /\ f = Fan("junchan", Worth(r, 3, 2))
      BY <1>1, <2>1, RegularIs, Zenon
    <3> QED
      BY <1>0, <3>1
  <2> QED
    BY <1>0, <1>1, <2>2
<1>2. /\ Tanyao(r) => Fan("tanyao", 1) \in Regular(r, hand, c)
      /\ EndsOnly(r) => Fan("chanta", Worth(r, 2, 1)) \in Regular(r, hand, c)
      /\ TerminalsOnly(r) => Fan("junchan", Worth(r, 3, 2)) \in Regular(r, hand, c)
  BY RegularIs
<1> QED
  BY <1>0, <1>1, <1>2

\* Of the tiles of a sequence the first and the last may be terminals.
LEMMA RunEnds ==
  ASSUME NEW t \in Tile, ~IsHonor(t), t % Ranks < Ranks - 2
  PROVE  /\ ~IsHonor(t + 1) /\ ~IsHonor(t + 2)
         /\ IsTerminal(t) <=> t % Ranks = 0
         /\ ~IsTerminal(t + 1)
         /\ IsTerminal(t + 2) <=> t % Ranks = Ranks - 3
<1>1. ~IsHonor(t + 1) /\ ~IsHonor(t + 2)
  BY RunInSuit DEF Run
<1>2. Ranks \in Nat /\ t \in Nat /\ Ranks # 0
  <2>1. NumSuits * Ranks \in Nat /\ Ranks \in Nat /\ NumHonors \in Nat
    BY YakuAssumption
  <2>2. t \in Nat /\ t < NumSuits * Ranks
    BY <2>1 DEF Tile, IsHonor
  <2>3. CASE Ranks = 0
    <3>1. NumSuits * Ranks = 0
      BY <2>3, YakuAssumption
    <3> QED
      BY <2>2, <3>1
  <2> QED
    BY <2>1, <2>2, <2>3
<1>3. PICK d \in Nat : d = t \div Ranks
  BY <1>2
<1>4. PICK m \in Nat : m = t % Ranks /\ m < Ranks - 2
  BY <1>2
<1>5. t = d * Ranks + m
  BY <1>2, <1>3, <1>4
<1>6. (t + 1) % Ranks = m + 1 /\ (t + 2) % Ranks = m + 2
  <2>1. ASSUME NEW u \in Nat, NEW k \in 0 .. Ranks - 1, u = Ranks * d + k
        PROVE  u % Ranks = k
    BY <1>2, <2>1
  <2>2. t + 1 = Ranks * d + (m + 1) /\ m + 1 \in 0 .. Ranks - 1 /\ t + 1 \in Nat
    BY <1>2, <1>4, <1>5
  <2>3. t + 2 = Ranks * d + (m + 2) /\ m + 2 \in 0 .. Ranks - 1 /\ t + 2 \in Nat
    BY <1>2, <1>4, <1>5
  <2> QED
    BY <2>1, <2>2, <2>3
<1> QED
  BY <1>1, <1>2, <1>4, <1>6 DEF IsTerminal

\* What the groups of a reading consist of.
LEMMA GroupsAre ==
  ASSUME NEW r, NEW P, r.pair \in Int,
         \A m \in Range(r.melds) : m.run \in BOOLEAN /\ m.tile \in Int
  PROVE  /\ \A g \in Groups(r) : \A t \in Range(g) : t \in Int
         /\ (\A g \in Groups(r) : \A t \in Range(g) : t \notin P) <=>
              /\ r.pair \notin P
              /\ \A m \in Range(r.melds) :
                   /\ m.tile \notin P
                   /\ m.run => m.tile + 1 \notin P /\ m.tile + 2 \notin P
         /\ (\A g \in Groups(r) : \E t \in Range(g) : t \in P) <=>
              /\ r.pair \in P
              /\ \A m \in Range(r.melds) :
                   \/ m.tile \in P
                   \/ m.run /\ (m.tile + 1 \in P \/ m.tile + 2 \in P)
<1>1. \A x : Range(<<x>>) = {x}
  BY DEF Range
<1>2. ASSUME NEW m \in Range(r.melds)
      PROVE  Range(TilesOf(m)) = IF m.run THEN {m.tile, m.tile + 1, m.tile + 2}
                                          ELSE {m.tile}
  <2>1. \A x, y, z : Range(<<x, y, z>>) = {x, y, z}
    BY DEF Range
  <2> QED
    <3>1. m.run => TilesOf(m) = <<m.tile, m.tile + 1, m.tile + 2>>
      BY DEF TilesOf
    <3>2. ~m.run => TilesOf(m) = <<m.tile, m.tile, m.tile>>
      BY DEF TilesOf
    <3> QED
      BY <2>1, <3>1, <3>2
<1>3. \A g : g \in Groups(r) <=> g = <<r.pair>> \/ \E m \in Range(r.melds) : g = TilesOf(m)
  BY DEF Groups
<1>4. (\A g \in Groups(r) : \A t \in Range(g) : t \notin P) <=>
        /\ \A t \in Range(<<r.pair>>) : t \notin P
        /\ \A m \in Range(r.melds) : \A t \in Range(TilesOf(m)) : t \notin P
  BY <1>3
<1>5. (\A g \in Groups(r) : \E t \in Range(g) : t \in P) <=>
        /\ \E t \in Range(<<r.pair>>) : t \in P
        /\ \A m \in Range(r.melds) : \E t \in Range(TilesOf(m)) : t \in P
  BY <1>3
<1>6. \A m \in Range(r.melds) : \A t \in Range(TilesOf(m)) : t \in Int
  BY <1>2
<1>7. \A g \in Groups(r) : \A t \in Range(g) : t \in Int
  BY <1>1, <1>3, <1>6
<1> QED
  BY <1>1, <1>2, <1>4, <1>5, <1>7

\* Tanyao, chanta and junchan mean what they mean of the tiles themselves,
\* although the code looks at the first tile of a set, for every deck and
\* every hand (tanyao, chanta).
THEOREM EndsMeanTiles == Spec => []EndsAreRead
<1>1. Asked => EndsAreRead
  <2> SUFFICES ASSUME Asked, Won, ~HasFan("suuankou")
               PROVE  /\ HasFan("tanyao") <=>
                           \A g \in Groups(win.reading) : \A t \in Range(g) : ~IsEnd(t)
                      /\ HasFan("chanta") <=>
                           \A g \in Groups(win.reading) : \E t \in Range(g) : IsEnd(t)
                      /\ HasFan("junchan") <=>
                           \A g \in Groups(win.reading) : \E t \in Range(g) : IsTerminal(t)
    BY DEF EndsAreRead
  <2>1. PICK h \in Hands : h = held
    BY DEF Asked
  <2>2. PICK seat, tsumo, ind : win = CheckWin(h, seat, tsumo, ind)
    BY <2>1 DEF Asked, Won, Unasked
  <2>3. PICK r : r = Scored(h)
    OBVIOUS
  <2>4. r.pair # NoTile
    BY <2>2, <2>3, CheckWinReads DEF Won
  <2>5. win.reading = r
    BY <2>2, <2>3, <2>4, CheckWinReads
  <2>6. PICK c : c = Ctx(seat, tsumo)
    OBVIOUS
  <2>7. PICK hand : hand = ConcealedTiles(h)
    OBVIOUS
  <2>8. win.fans = Regular(r, hand, c)
    <3>1. win.fans = Calc(r, hand, c)
      <4>1. CheckWin(h, seat, tsumo, ind).fans
              = Calc(Scored(h), ConcealedTiles(h), Ctx(seat, tsumo))
        BY <2>3, <2>4, CheckWinFans
      <4> QED
        BY <2>2, <2>3, <2>6, <2>7, <4>1
    <3>2. Calc(r, hand, c) = IF FourConcealedTriplets(r) THEN {Fan("suuankou", 13)}
                                                         ELSE Regular(r, hand, c)
      BY <2>3, <2>4, <2>7, ScoredCounts
    <3>3. ~FourConcealedTriplets(r)
      <4>1. Fan("suuankou", 13).name = "suuankou"
        BY DEF Fan
      <4>2. Fan("suuankou", 13) \notin win.fans
        BY <4>1 DEF HasFan
      <4> QED
        BY <3>1, <3>2, <4>2
    <3> QED
      BY <3>1, <3>2, <3>3
  <2>9. /\ HasFan("tanyao") <=> Tanyao(r)
        /\ HasFan("chanta") <=> EndsOnly(r)
        /\ HasFan("junchan") <=> TerminalsOnly(r)
    BY <2>8, EndNames DEF HasFan
  <2>10. /\ r.pair \in Tile
         /\ \A m \in Range(r.melds) :
              /\ m.tile \in Tile /\ m.run \in BOOLEAN
              /\ m.run => ~IsHonor(m.tile) /\ m.tile % Ranks < Ranks - 2
    BY <2>3, <2>4, ScoredIs
  <2>11. \A m \in Range(r.melds) : m.run =>
           /\ ~IsHonor(m.tile) /\ ~IsHonor(m.tile + 1) /\ ~IsHonor(m.tile + 2)
           /\ IsTerminal(m.tile) <=> m.tile % Ranks = 0
           /\ ~IsTerminal(m.tile + 1)
           /\ IsTerminal(m.tile + 2) <=> m.tile % Ranks = Ranks - 3
    BY <2>10, RunEnds
  <2>12. \A m \in Range(r.melds) : m.run \in BOOLEAN /\ m.tile \in Int
    BY <2>10, YakuAssumption DEF Tile
  <2>13. r.pair \in Int /\ \A g \in Groups(r) : \A t \in Range(g) : t \in Int
    <3>1. r.pair \in Int
      BY <2>10, YakuAssumption DEF Tile
    <3> QED
      BY <2>12, <3>1, GroupsAre
  <2>14. Tanyao(r) <=> \A g \in Groups(r) : \A t \in Range(g) : ~IsEnd(t)
    <3>1. PICK P : P = {u \in Int : IsEnd(u)}
      OBVIOUS
    <3>2. (\A g \in Groups(r) : \A t \in Range(g) : t \notin P) <=>
            /\ r.pair \notin P
            /\ \A m \in Range(r.melds) :
                 /\ m.tile \notin P
                 /\ m.run => m.tile + 1 \notin P /\ m.tile + 2 \notin P
      BY <2>12, <2>13, GroupsAre
    <3>3. (\A g \in Groups(r) : \A t \in Range(g) : t \notin P) <=>
            \A g \in Groups(r) : \A t \in Range(g) : ~IsEnd(t)
      BY <2>13, <3>1
    <3>4. \A u \in Int : u \notin P <=> ~IsHonor(u) /\ ~IsTerminal(u)
      BY <3>1 DEF IsEnd
    <3>5. Tanyao(r) <=>
            /\ r.pair \notin P
            /\ \A m \in Range(r.melds) :
                 m.tile \notin P /\ ~(m.run /\ m.tile % Ranks \in {0, Ranks - 3})
      BY <2>12, <2>13, <3>4 DEF Tanyao, EndRun
    <3>6. ASSUME NEW m \in Range(r.melds), m.tile \notin P
          PROVE  (m.run => m.tile + 1 \notin P /\ m.tile + 2 \notin P)
                   <=> ~(m.run /\ m.tile % Ranks \in {0, Ranks - 3})
      BY <2>11, <2>12, <3>4, <3>6
    <3> QED
      BY <3>2, <3>3, <3>5, <3>6
  <2>15. EndsOnly(r) <=> \A g \in Groups(r) : \E t \in Range(g) : IsEnd(t)
    <3>1. PICK P : P = {u \in Int : IsEnd(u)}
      OBVIOUS
    <3>2. (\A g \in Groups(r) : \E t \in Range(g) : t \in P) <=>
            /\ r.pair \in P
            /\ \A m \in Range(r.melds) :
                 \/ m.tile \in P
                 \/ m.run /\ (m.tile + 1 \in P \/ m.tile + 2 \in P)
      BY <2>12, <2>13, GroupsAre
    <3>3. (\A g \in Groups(r) : \E t \in Range(g) : t \in P) <=>
            \A g \in Groups(r) : \E t \in Range(g) : IsEnd(t)
      BY <2>13, <3>1
    <3>4. \A u \in Int : u \in P <=> IsHonor(u) \/ IsTerminal(u)
      BY <3>1 DEF IsEnd
    <3>5. EndsOnly(r) <=>
            /\ r.pair \in P
            /\ \A m \in Range(r.melds) :
                 IF m.run THEN m.tile % Ranks \in {0, Ranks - 3} ELSE m.tile \in P
      BY <2>12, <2>13, <3>4 DEF EndsOnly, Chanta, EndRun
    <3>6. ASSUME NEW m \in Range(r.melds)
          PROVE  (m.tile \in P \/ (m.run /\ (m.tile + 1 \in P \/ m.tile + 2 \in P)))
                   <=> IF m.run THEN m.tile % Ranks \in {0, Ranks - 3} ELSE m.tile \in P
      BY <2>11, <2>12, <3>4
    <3> QED
      BY <3>2, <3>3, <3>5, <3>6
  <2>16. TerminalsOnly(r) <=> \A g \in Groups(r) : \E t \in Range(g) : IsTerminal(t)
    <3>1. PICK P : P = {u \in Int : IsTerminal(u)}
      OBVIOUS
    <3>2. (\A g \in Groups(r) : \E t \in Range(g) : t \in P) <=>
            /\ r.pair \in P
            /\ \A m \in Range(r.melds) :
                 \/ m.tile \in P
                 \/ m.run /\ (m.tile + 1 \in P \/ m.tile + 2 \in P)
      BY <2>12, <2>13, GroupsAre
    <3>3. (\A g \in Groups(r) : \E t \in Range(g) : t \in P) <=>
            \A g \in Groups(r) : \E t \in Range(g) : IsTerminal(t)
      BY <2>13, <3>1
    <3>4. \A u \in Int : u \in P <=> IsTerminal(u)
      BY <3>1
    <3>5. TerminalsOnly(r) <=>
            /\ r.pair \in P
            /\ \A m \in Range(r.melds) :
                 IF m.run THEN m.tile % Ranks \in {0, Ranks - 3} ELSE m.tile \in P
      BY <2>12, <2>13, <3>4 DEF TerminalsOnly, Chanta, EndRun
    <3>6. ASSUME NEW m \in Range(r.melds)
          PROVE  (m.tile \in P \/ (m.run /\ (m.tile + 1 \in P \/ m.tile + 2 \in P)))
                   <=> IF m.run THEN m.tile % Ranks \in {0, Ranks - 3} ELSE m.tile \in P
      BY <2>11, <2>12, <3>4
    <3> QED
      BY <3>2, <3>3, <3>5, <3>6
  <2> QED
    BY <2>5, <2>9, <2>14, <2>15, <2>16
<1> QED
  BY <1>1, AlwaysAsked, PTL

-----------------------------------------------------------------------------
(* Sums over a finite set.                                                 *)

Picked(s) == CHOOSE x \in s : TRUE

\* g sums w over every part of S, as the folds of the library do.
Sums(S, w, g) ==
  g = [s \in SUBSET S |-> IF s = {} THEN 0 ELSE w[Picked(s)] + g[s \ {Picked(s)}]]

\* What is left of a part when a member is taken out.
LEMMA PickedIs ==
  ASSUME NEW S, IsFiniteSet(S), NEW s \in SUBSET S, s # {}
  PROVE  /\ Picked(s) \in s
         /\ \A x \in s : /\ s \ {x} \in SUBSET S
                         /\ Cardinality(s) \in Nat
                         /\ Cardinality(s \ {x}) \in Nat
                         /\ Cardinality(s) = Cardinality(s \ {x}) + 1
<1>1. Picked(s) \in s
  BY DEF Picked
<1>2. IsFiniteSet(s)
  BY FS_Subset
<1>3. ASSUME NEW x \in s
      PROVE  /\ s \ {x} \in SUBSET S
             /\ Cardinality(s) \in Nat
             /\ Cardinality(s \ {x}) \in Nat
             /\ Cardinality(s) = Cardinality(s \ {x}) + 1
  <2>1. Cardinality(s) \in Nat /\ IsFiniteSet(s \ {x})
    BY <1>2, FS_CardinalityType, FS_RemoveElement
  <2>2. Cardinality(s \ {x}) \in Nat
    BY <2>1, FS_CardinalityType
  <2>3. Cardinality(s \ {x}) = Cardinality(s) - 1
    BY <1>2, FS_RemoveElement
  <2> QED
    BY <2>1, <2>2, <2>3
<1> QED
  BY <1>1, <1>3

\* There is such a g: the sums of parts of at most n members are known after
\* n rounds.
LEMMA SumsExist ==
  ASSUME NEW S, IsFiniteSet(S), NEW w \in [S -> Nat]
  PROVE  \E g : Sums(S, w, g)
<1>1. PICK D : D = [SUBSET S -> Nat]
  OBVIOUS
<1>2. PICK base \in D : base = [s \in SUBSET S |-> 0]
  BY <1>1
<1>3. PICK step \in [D -> D] :
        step = [g \in D |-> [s \in SUBSET S |->
                  IF s = {} THEN 0 ELSE w[Picked(s)] + g[s \ {Picked(s)}]]]
  <2>1. ASSUME NEW g \in D, NEW s \in SUBSET S, s # {}
        PROVE  w[Picked(s)] + g[s \ {Picked(s)}] \in Nat
    <3>1. Picked(s) \in S /\ s \ {Picked(s)} \in SUBSET S
      BY <2>1, PickedIs
    <3>2. w[Picked(s)] \in Nat /\ g[s \ {Picked(s)}] \in Nat
      BY <1>1, <3>1
    <3> QED
      BY <3>2
  <2> QED
    BY <1>1, <2>1
<1>4. PICK h : Ladder(D, base, step, h)
  BY Iterated
<1>5. ASSUME NEW n \in Nat, NEW s \in SUBSET S
      PROVE  h[n + 1][s] = IF s = {} THEN 0
                           ELSE w[Picked(s)] + h[n][s \ {Picked(s)}]
  <2>1. h[n + 1] = step[h[n]] /\ h[n] \in D
    BY <1>4 DEF Ladder
  <2> QED
    BY <1>3, <2>1
<1>6. PICK K : K = {n \in Nat : \A s \in SUBSET S :
                      Cardinality(s) <= n => h[n + 1][s] = h[n][s]}
  OBVIOUS
<1>7. 0 \in K
  <2>1. ASSUME NEW s \in SUBSET S, Cardinality(s) <= 0 PROVE s = {}
    <3>1. IsFiniteSet(s)
      BY FS_Subset
    <3>2. Cardinality(s) = 0
      BY <2>1, <3>1, FS_CardinalityType
    <3> QED
      BY <3>1, <3>2, FS_EmptySet
  <2>2. h[0][{}] = 0 /\ h[0 + 1][{}] = 0
    <3>1. h[0][{}] = 0
      BY <1>2, <1>4 DEF Ladder
    <3>2. h[0 + 1][{}] = 0
      BY <1>5
    <3> QED
      BY <3>1, <3>2
  <2>3. \A s \in SUBSET S : Cardinality(s) <= 0 => h[0 + 1][s] = h[0][s]
    BY <2>1, <2>2
  <2> QED
    BY <1>6, <2>3
<1>8. ASSUME NEW n \in Nat, n \in K PROVE n + 1 \in K
  <2>1. ASSUME NEW s \in SUBSET S, Cardinality(s) <= n + 1
        PROVE  h[(n + 1) + 1][s] = h[n + 1][s]
    <3>1. CASE s = {}
      <4>1. h[(n + 1) + 1][{}] = 0
        BY <1>5, n + 1 \in Nat
      <4>2. h[n + 1][{}] = 0
        BY <1>5
      <4> QED
        BY <3>1, <4>1, <4>2
    <3>2. CASE s # {}
      <4>1. PICK x : x = Picked(s)
        OBVIOUS
      <4>2. /\ s \ {x} \in SUBSET S
            /\ Cardinality(s \ {x}) <= n
        <5>1. /\ x \in s /\ s \ {x} \in SUBSET S
              /\ Cardinality(s) \in Nat
              /\ Cardinality(s \ {x}) \in Nat
              /\ Cardinality(s) = Cardinality(s \ {x}) + 1
          BY <3>2, <4>1, PickedIs
        <5> QED
          BY <2>1, <5>1
      <4>3. h[n + 1][s \ {x}] = h[n][s \ {x}]
        BY <1>6, <1>8, <4>2
      <4>4. h[(n + 1) + 1][s] = w[x] + h[n + 1][s \ {x}]
        BY <1>5, <3>2, <4>1, n + 1 \in Nat
      <4>5. h[n + 1][s] = w[x] + h[n][s \ {x}]
        BY <1>5, <3>2, <4>1
      <4> QED
        BY <4>3, <4>4, <4>5
    <3> QED
      BY <3>1, <3>2
  <2> QED
    BY <1>6, <2>1, n + 1 \in Nat
<1>9. K = Nat
  BY <1>6, <1>7, <1>8, NatSets
<1>10. PICK N \in Nat : N = Cardinality(S)
  BY FS_CardinalityType
<1>11. \A s \in SUBSET S : Cardinality(s) <= N
  BY <1>10, FS_Subset
<1>12. \A s \in SUBSET S : h[N + 1][s] = h[N][s]
  BY <1>6, <1>9, <1>11
<1>13. PICK g \in D : g = h[N]
  BY <1>4 DEF Ladder
<1>14. \A s \in SUBSET S : g[s] = IF s = {} THEN 0 ELSE w[Picked(s)] + g[s \ {Picked(s)}]
  BY <1>5, <1>12, <1>13
<1>15. g = [s \in SUBSET S |-> IF s = {} THEN 0 ELSE w[Picked(s)] + g[s \ {Picked(s)}]]
  BY <1>1, <1>14
<1> QED
  BY <1>15 DEF Sums

\* The sum of a function is that of its domain under such a g.
LEMMA SumIs ==
  ASSUME NEW S, IsFiniteSet(S), NEW w \in [S -> Nat]
  PROVE  \E g : Sums(S, w, g) /\ SumFunction(w) = g[S]
<1>1. PICK g : g = CHOOSE f : f = [s \in SUBSET S |-> IF s = {} THEN 0
                                  ELSE w[CHOOSE x \in s : TRUE]
                                       + f[s \ {CHOOSE x \in s : TRUE}]]
  OBVIOUS
<1>2. Sums(S, w, g)
  <2>1. \E f : f = [s \in SUBSET S |-> IF s = {} THEN 0
                        ELSE w[CHOOSE x \in s : TRUE] + f[s \ {CHOOSE x \in s : TRUE}]]
    <3>1. \E f : Sums(S, w, f)
      BY SumsExist
    <3> QED
      BY <3>1, Zenon DEF Sums, Picked
  <2>2. g = [s \in SUBSET S |-> IF s = {} THEN 0
               ELSE w[CHOOSE x \in s : TRUE] + g[s \ {CHOOSE x \in s : TRUE}]]
    BY <1>1, <2>1, Zenon
  <2> QED
    BY <2>2 DEF Sums, Picked
<1>3. SumFunction(w) = g[S]
  <2>1. DOMAIN w = S
    OBVIOUS
  <2>2. SumFunctionOnSet(w, S) = g[S]
    BY <1>1 DEF SumFunctionOnSet, FoldFunctionOnSet, MapThenFoldSet
  <2> QED
    BY <2>1, <2>2 DEF SumFunction
<1> QED
  BY <1>2, <1>3

\* Sums are numbers, and any member may be taken out first.
LEMMA SumsGive ==
  ASSUME NEW S, IsFiniteSet(S), NEW w \in [S -> Nat], NEW g, Sums(S, w, g)
  PROVE  /\ g[{}] = 0
         /\ \A s \in SUBSET S : g[s] \in Nat
         /\ \A s \in SUBSET S : \A x \in s : g[s] = w[x] + g[s \ {x}]
<1>1. g[{}] = 0
  BY DEF Sums
<1>2. \A s \in SUBSET S : s # {} => g[s] = w[Picked(s)] + g[s \ {Picked(s)}]
  BY DEF Sums
<1>3. PICK K : K = {n \in Nat : \A s \in SUBSET S : Cardinality(s) <= n =>
                      /\ g[s] \in Nat
                      /\ \A x \in s : g[s] = w[x] + g[s \ {x}]}
  OBVIOUS
<1>4. 0 \in K
  <2>1. ASSUME NEW s \in SUBSET S, Cardinality(s) <= 0 PROVE s = {}
    <3>1. IsFiniteSet(s)
      BY FS_Subset
    <3>2. Cardinality(s) = 0
      BY <2>1, <3>1, FS_CardinalityType
    <3> QED
      BY <3>1, <3>2, FS_EmptySet
  <2>2. \A s \in SUBSET S : Cardinality(s) <= 0 =>
                      /\ g[s] \in Nat
                      /\ \A x \in s : g[s] = w[x] + g[s \ {x}]
    BY <1>1, <2>1
  <2> QED
    BY <1>3, <2>2
<1>5. ASSUME NEW n \in Nat, n \in K PROVE n + 1 \in K
  <2>0. ASSUME NEW s \in SUBSET S, Cardinality(s) <= n
        PROVE  g[s] \in Nat /\ \A x \in s : g[s] = w[x] + g[s \ {x}]
    BY <1>3, <1>5, <2>0
  <2>1. ASSUME NEW s \in SUBSET S, Cardinality(s) <= n + 1
        PROVE  g[s] \in Nat /\ \A x \in s : g[s] = w[x] + g[s \ {x}]
    <3>1. CASE s = {}
      BY <1>1, <3>1
    <3>2. CASE s # {}
      <4>1. PICK y : y = Picked(s) /\ y \in s
        BY <3>2, PickedIs
      <4>2. ASSUME NEW x \in s
            PROVE  s \ {x} \in SUBSET S /\ Cardinality(s \ {x}) <= n /\ w[x] \in Nat
        <5>1. /\ s \ {x} \in SUBSET S
              /\ Cardinality(s) \in Nat
              /\ Cardinality(s \ {x}) \in Nat
              /\ Cardinality(s) = Cardinality(s \ {x}) + 1
          BY <3>2, PickedIs
        <5> QED
          BY <2>1, <5>1
      <4>3. g[s] = w[y] + g[s \ {y}]
        BY <1>2, <3>2, <4>1
      <4>4. ASSUME NEW x \in s PROVE g[s] = w[x] + g[s \ {x}]
        <5>1. CASE x = y
          BY <4>3, <5>1
        <5>2. CASE x # y
          <6>1. x \in s \ {y} /\ y \in s \ {x}
            BY <4>1, <5>2
          <6>2. PICK u : u = (s \ {y}) \ {x}
            OBVIOUS
          <6>3. u = (s \ {x}) \ {y} /\ u \in SUBSET S
            BY <6>2
          <6>4. g[s \ {y}] = w[x] + g[u]
            BY <2>0, <4>1, <4>2, <6>1, <6>2
          <6>5. g[s \ {x}] = w[y] + g[u]
            BY <2>0, <4>2, <6>1, <6>3
          <6>6. g[u] \in Nat
            <7>1. g[s \ {x}] \in Nat /\ s \ {x} \in SUBSET S /\ s \ {x} # {}
              BY <2>0, <4>2, <6>1
            <7>2. Cardinality(s \ {x}) <= n
              BY <4>2
            <7>3. /\ Cardinality(s \ {x}) \in Nat
                  /\ Cardinality((s \ {x}) \ {y}) \in Nat
                  /\ Cardinality(s \ {x}) = Cardinality((s \ {x}) \ {y}) + 1
              BY <6>1, <7>1, PickedIs
            <7>4. Cardinality(u) <= n
              BY <6>3, <7>2, <7>3
            <7> QED
              BY <2>0, <6>3, <7>4
          <6>7. w[x] \in Nat /\ w[y] \in Nat
            BY <4>1, <4>2
          <6> QED
            BY <4>3, <6>4, <6>5, <6>6, <6>7
        <5> QED
          BY <5>1, <5>2
      <4>5. g[s] \in Nat
        BY <2>0, <4>1, <4>2, <4>3
      <4> QED
        BY <4>4, <4>5
    <3> QED
      BY <3>1, <3>2
  <2> QED
    BY <1>3, <2>1, n + 1 \in Nat
<1>6. K = Nat
  BY <1>3, <1>4, <1>5, NatSets
<1>7. ASSUME NEW s \in SUBSET S
      PROVE  g[s] \in Nat /\ \A x \in s : g[s] = w[x] + g[s \ {x}]
  <2>1. Cardinality(s) \in Nat
    BY FS_Subset, FS_CardinalityType
  <2>2. Cardinality(s) <= Cardinality(s)
    BY <2>1
  <2> QED
    BY <1>3, <1>6, <2>1, <2>2
<1> QED
  BY <1>1, <1>7

\* Two functions that agree on a set have the same sum over it.
LEMMA SumsAgree ==
  ASSUME NEW S, IsFiniteSet(S), NEW w \in [S -> Nat], NEW g, Sums(S, w, g),
         NEW T, IsFiniteSet(T), NEW v \in [T -> Nat], NEW h, Sums(T, v, h),
         NEW C \in SUBSET S, C \in SUBSET T, \A x \in C : w[x] = v[x]
  PROVE  g[C] = h[C]
<1>1. PICK K : K = {n \in Nat : \A s \in SUBSET C : Cardinality(s) <= n => g[s] = h[s]}
  OBVIOUS
<1>2. \A s \in SUBSET C : s \in SUBSET S /\ s \in SUBSET T
  OBVIOUS
<1>3. 0 \in K
  <2>1. ASSUME NEW s \in SUBSET C, Cardinality(s) <= 0 PROVE s = {}
    <3>1. IsFiniteSet(s)
      BY <1>2, FS_Subset
    <3>2. Cardinality(s) = 0
      BY <2>1, <3>1, FS_CardinalityType
    <3> QED
      BY <3>1, <3>2, FS_EmptySet
  <2>2. g[{}] = 0 /\ h[{}] = 0
    BY SumsGive
  <2>3. \A s \in SUBSET C : Cardinality(s) <= 0 => g[s] = h[s]
    BY <2>1, <2>2
  <2> QED
    BY <1>1, <2>3
<1>4. ASSUME NEW n \in Nat, n \in K PROVE n + 1 \in K
  <2>1. ASSUME NEW s \in SUBSET C, Cardinality(s) <= n + 1 PROVE g[s] = h[s]
    <3>1. CASE s = {}
      BY <3>1, SumsGive
    <3>2. CASE s # {}
      <4>1. PICK x \in s : TRUE
        BY <3>2
      <4>2. g[s] = w[x] + g[s \ {x}] /\ h[s] = v[x] + h[s \ {x}]
        BY <1>2, SumsGive
      <4>3. Cardinality(s \ {x}) <= n
        <5>1. /\ Cardinality(s) \in Nat
              /\ Cardinality(s \ {x}) \in Nat
              /\ Cardinality(s) = Cardinality(s \ {x}) + 1
          BY <1>2, <3>2, PickedIs
        <5> QED
          BY <2>1, <5>1
      <4>4. g[s \ {x}] = h[s \ {x}]
        <5>1. s \ {x} \in SUBSET C
          OBVIOUS
        <5> QED
          BY <1>1, <1>4, <4>3, <5>1
      <4> QED
        BY <4>2, <4>4
    <3> QED
      BY <3>1, <3>2
  <2> QED
    BY <1>1, <2>1, n + 1 \in Nat
<1>5. K = Nat
  BY <1>1, <1>3, <1>4, NatSets
<1>6. Cardinality(C) \in Nat
  BY FS_Subset, FS_CardinalityType
<1>7. Cardinality(C) <= Cardinality(C)
  BY <1>6
<1> QED
  BY <1>1, <1>5, <1>6, <1>7

LEMMA SumIsNat ==
  ASSUME NEW S, IsFiniteSet(S), NEW w \in [S -> Nat]
  PROVE  SumFunction(w) \in Nat
BY SumIs, SumsGive

LEMMA SumsTake ==
  ASSUME NEW S, IsFiniteSet(S), NEW w \in [S -> Nat], NEW g, Sums(S, w, g),
         NEW s \in SUBSET S, NEW x \in s
  PROVE  g[s] = w[x] + g[s \ {x}]
BY SumsGive

\* A member exchanged for one that is worth no more.
LEMMA SumExchanged ==
  ASSUME NEW A, IsFiniteSet(A), NEW w \in [A -> Nat],
         NEW B, IsFiniteSet(B), NEW v \in [B -> Nat],
         NEW a \in A, NEW b, A \ {a} = B \ {b},
         \A x \in A \ {a} : w[x] = v[x],
         b \in B => v[b] <= w[a]
  PROVE  SumFunction(v) <= SumFunction(w)
<1>1. PICK g : Sums(A, w, g) /\ SumFunction(w) = g[A]
  BY SumIs
<1>2. PICK h : Sums(B, v, h) /\ SumFunction(v) = h[B]
  BY SumIs
<1>3. PICK C : C = A \ {a} /\ C = B \ {b} /\ C \in SUBSET A /\ C \in SUBSET B
  OBVIOUS
<1>4. g[C] = h[C] /\ g[C] \in Nat
  <2>1. g[C] = h[C]
    BY <1>1, <1>2, <1>3, SumsAgree
  <2> QED
    BY <1>1, <1>3, <2>1, SumsGive
<1>5. g[A] = w[a] + g[C] /\ w[a] \in Nat
  BY <1>1, <1>3, SumsGive
<1>6. CASE b \in B
  <2>1. h[B] = v[b] + h[C] /\ v[b] \in Nat
    <3>1. h[B] = v[b] + h[B \ {b}]
      <4>1. IsFiniteSet(B) /\ v \in [B -> Nat] /\ Sums(B, v, h)
        BY <1>2
      <4>2. B \in SUBSET B /\ b \in B
        BY <1>6
      <4> QED
        BY ONLY <4>1, <4>2, SumsTake
    <3> QED
      BY <1>3, <1>6, <3>1
  <2> QED
    BY <1>1, <1>2, <1>4, <1>5, <1>6, <2>1
<1>7. CASE b \notin B
  <2>1. B = C
    BY <1>3, <1>7
  <2> QED
    BY <1>1, <1>2, <1>4, <1>5, <2>1
<1> QED
  BY <1>6, <1>7

-----------------------------------------------------------------------------
(* What a win is worth.                                                    *)

\* The fans a reading may count, one way or the other.
AnyFan(r) ==
  << Fan("daburi", 2), Fan("riichi", 1), Fan("ippatsu", 1), Fan("menzenTsumo", 1),
     Fan("rinshan", 1), Fan("chankan", 1), Fan("pinfu", 1), Fan("tanyao", 1),
     Fan("haku", 1), Fan("hatsu", 1), Fan("chun", 1), Fan("yakuhaiSeat", 1),
     Fan("yakuhaiRound", 1), Fan("toitoi", 2), Fan("chanta", Worth(r, 2, 1)),
     Fan("junchan", Worth(r, 3, 2)), Fan("honitsu", Worth(r, 3, 2)),
     Fan("chinitsu", Worth(r, 6, 5)),
     Fan(IF Menzen(r) THEN "sanshoku" ELSE "sanshokuOpen", Worth(r, 2, 1)),
     Fan("ittsu", Worth(r, 2, 1)), Fan("suuankou", 13) >>

\* The fans that Regular counts are among those.
LEMMA FansAreAny ==
  ASSUME NEW r, NEW hand, NEW c, NEW f \in Regular(r, hand, c)
  PROVE  \E i \in 1 .. 20 : f = AnyFan(r)[i]
<1>1. PICK q : q = AnyFan(r)
  OBVIOUS
<1>2. /\ q[1] = Fan("daburi", 2) /\ q[2] = Fan("riichi", 1) /\ q[3] = Fan("ippatsu", 1)
      /\ q[4] = Fan("menzenTsumo", 1) /\ q[5] = Fan("rinshan", 1)
      /\ q[6] = Fan("chankan", 1) /\ q[7] = Fan("pinfu", 1) /\ q[8] = Fan("tanyao", 1)
      /\ q[9] = Fan("haku", 1) /\ q[10] = Fan("hatsu", 1) /\ q[11] = Fan("chun", 1)
      /\ q[12] = Fan("yakuhaiSeat", 1) /\ q[13] = Fan("yakuhaiRound", 1)
      /\ q[14] = Fan("toitoi", 2) /\ q[15] = Fan("chanta", Worth(r, 2, 1))
      /\ q[16] = Fan("junchan", Worth(r, 3, 2)) /\ q[17] = Fan("honitsu", Worth(r, 3, 2))
      /\ q[18] = Fan("chinitsu", Worth(r, 6, 5))
      /\ q[19] = Fan(IF Menzen(r) THEN "sanshoku" ELSE "sanshokuOpen", Worth(r, 2, 1))
      /\ q[20] = Fan("ittsu", Worth(r, 2, 1))
  BY <1>1 DEF AnyFan
<1>3. CASE f \in Yakuhai(r, c)
  <2>1. \/ f = Fan("haku", 1) \/ f = Fan("hatsu", 1) \/ f = Fan("chun", 1)
        \/ f = Fan("yakuhaiSeat", 1) \/ f = Fan("yakuhaiRound", 1)
    BY <1>3 DEF Yakuhai, When
  <2>2. \E i \in {9, 10, 11, 12, 13} : f = q[i]
    BY <1>2, <2>1
  <2> QED
    BY <1>1, <2>2
<1>4. CASE f \notin Yakuhai(r, c)
  <2>1. \/ f = q[1] \/ f = q[2] \/ f = q[3] \/ f = q[4] \/ f = q[5] \/ f = q[6]
        \/ f = q[7] \/ f = q[8] \/ f = q[14] \/ f = q[15] \/ f = q[16] \/ f = q[17]
        \/ f = q[18] \/ f = q[19] \/ f = q[20]
    <3>1. \/ f = Fan("daburi", 2) \/ f = Fan("riichi", 1) \/ f = Fan("ippatsu", 1)
          \/ f = Fan("menzenTsumo", 1) \/ f = Fan("rinshan", 1)
          \/ f = Fan("chankan", 1) \/ f = Fan("pinfu", 1) \/ f = Fan("tanyao", 1)
          \/ f = Fan("toitoi", 2) \/ f = Fan("chanta", Worth(r, 2, 1))
          \/ f = Fan("junchan", Worth(r, 3, 2)) \/ f = Fan("honitsu", Worth(r, 3, 2))
          \/ f = Fan("chinitsu", Worth(r, 6, 5))
          \/ f = Fan(IF Menzen(r) THEN "sanshoku" ELSE "sanshokuOpen", Worth(r, 2, 1))
          \/ f = Fan("ittsu", Worth(r, 2, 1))
      BY <1>4, RegularIs, Zenon
    <3> QED
      BY <1>2, <3>1, Zenon
  <2> QED
    BY <1>1, <2>1
<1> QED
  BY <1>3, <1>4

\* The fans of a win are finitely many, and each is worth some han.
LEMMA FansCount ==
  ASSUME NEW h \in Hands, NEW r, r = Scored(h), r.pair # NoTile,
         NEW c, NEW fans, fans = Calc(r, ConcealedTiles(h), c)
  PROVE  /\ IsFiniteSet(fans)
         /\ \A f \in fans : f.han \in Nat
<1>1. PICK q : q = AnyFan(r)
  OBVIOUS
<1>2. DOMAIN q = 1 .. 21 /\ q[21] = Fan("suuankou", 13)
  BY <1>1 DEF AnyFan
<1>3. \A i \in 1 .. 21 : q[i].han \in Nat
  <2>1. \A n, k : Fan(n, k).han = k
    BY DEF Fan
  <2>2. Worth(r, 2, 1) \in Nat /\ Worth(r, 3, 2) \in Nat /\ Worth(r, 6, 5) \in Nat
    BY DEF Worth
  <2>3. \A i \in 1 .. 21 : \E n : \E k \in Nat : q[i] = Fan(n, k)
    BY <1>1, <2>2 DEF AnyFan
  <2> QED
    BY <2>1, <2>3
<1>4. fans \subseteq {q[i] : i \in 1 .. 21}
  <2>1. CASE FourConcealedTriplets(r)
    BY <1>2, <2>1, ScoredCounts
  <2>2. CASE ~FourConcealedTriplets(r)
    <3>1. fans = Regular(r, ConcealedTiles(h), c)
      BY <2>2, ScoredCounts
    <3>2. \A f \in fans : \E i \in 1 .. 20 : f = q[i]
      BY <1>1, <3>1, FansAreAny
    <3> QED
      BY <3>2
  <2> QED
    BY <2>1, <2>2
<1>5. IsFiniteSet({q[i] : i \in 1 .. 21})
  <2>1. PICK T : T = {q[i] : i \in 1 .. 21}
    OBVIOUS
  <2>2. PICK s : s = [i \in 1 .. 21 |-> q[i]]
    OBVIOUS
  <2>3. s \in Surjection(1 .. 21, T)
    BY <2>1, <2>2 DEF Surjection
  <2>4. IsFiniteSet(1 .. 21)
    <3>1. 1 \in Int /\ 21 \in Int
      OBVIOUS
    <3> QED
      BY <3>1, FS_Interval
  <2> QED
    BY <2>1, <2>3, <2>4, FS_Surjection
<1>6. IsFiniteSet(fans)
  BY <1>4, <1>5, FS_Subset
<1> QED
  BY <1>3, <1>4, <1>6

HanOf(fans) == [f \in fans |-> f.han]

\* What CheckWin adds up.
LEMMA CheckWinHan ==
  ASSUME NEW h \in Hands, NEW seat, NEW tsumo, NEW ind, Scored(h).pair # NoTile
  PROVE  CheckWin(h, seat, tsumo, ind).han
           = SumFunction(HanOf(Calc(Scored(h), ConcealedTiles(h), Ctx(seat, tsumo))))
             + CountDora(ConcealedTiles(h), ind)
<1>1. Readings(h) # {}
  BY ReadingsAre
<1> QED
  BY <1>1 DEF CheckWin, Scored, HanOf

LEMMA CheckWinTold ==
  ASSUME NEW h \in Hands, NEW seat, NEW tsumo, NEW ind, Scored(h).pair # NoTile,
         NEW w, w = CheckWin(h, seat, tsumo, ind)
  PROVE  w.seat = seat /\ w.indicators = ind
<1>1. Readings(h) # {}
  BY ReadingsAre
<1> QED
  BY <1>1 DEF CheckWin, Scored

LEMMA CheckWinDrawn ==
  ASSUME NEW h \in Hands, NEW seat, NEW ind, Scored(h).pair # NoTile,
         NEW w, w = CheckWin(h, seat, FALSE, ind)
  PROVE  w.tsumo = FALSE
<1>1. Readings(h) # {}
  BY ReadingsAre
<1> QED
  BY <1>1 DEF CheckWin, Scored

LEMMA CheckWinFu ==
  ASSUME NEW h \in Hands, NEW seat, NEW tsumo, NEW ind, Scored(h).pair # NoTile
  PROVE  \E closed \in BOOLEAN :
           CheckWin(h, seat, tsumo, ind).fu = Fu(Scored(h), Ctx(seat, tsumo), closed)
<1>1. Readings(h) # {}
  BY ReadingsAre
<1>2. PICK closed \in BOOLEAN : closed = (~tsumo /\ h.open = << >>)
  OBVIOUS
<1>3. CheckWin(h, seat, tsumo, ind).fu = Fu(Scored(h), Ctx(seat, tsumo), closed)
  BY <1>1, <1>2 DEF CheckWin, Scored
<1> QED
  BY <1>3

\* The dora of a hand are a number.
LEMMA DoraIsNat ==
  ASSUME NEW h \in Hands, NEW ind \in Indicators
  PROVE  CountDora(ConcealedTiles(h), ind) \in Nat
<1>1. PICK hand : hand = ConcealedTiles(h)
  OBVIOUS
<1>2. PICK a \in Nat : DOMAIN hand = 1 .. a
  <2>1. Len(h.closed) \in Nat
    BY HandAssumption, LenProperties
  <2>2. DOMAIN hand = 1 .. 2 + 3 * Len(h.closed)
    BY <1>1 DEF ConcealedTiles, TilesIn
  <2> QED
    BY <2>1, <2>2
<1>3. PICK b \in Nat : DOMAIN ind = 1 .. b
  BY HandAssumption, LenProperties
<1>4. IsFiniteSet((1 .. a) \X (1 .. b))
  <2>1. 1 \in Int /\ a \in Int /\ b \in Int
    OBVIOUS
  <2>2. IsFiniteSet(1 .. a) /\ IsFiniteSet(1 .. b)
    BY <2>1, FS_Interval
  <2> QED
    BY <2>2, FS_Product
<1>5. PICK P : P = {p \in (DOMAIN hand) \X (DOMAIN ind) : hand[p[1]] = Dora(ind[p[2]])}
  OBVIOUS
<1>6. Cardinality(P) \in Nat
  <2>1. P \subseteq (1 .. a) \X (1 .. b)
    BY <1>2, <1>3, <1>5
  <2> QED
    BY <1>4, <2>1, FS_Subset, FS_CardinalityType
<1> QED
  BY <1>1, <1>5, <1>6 DEF CountDora

\* A reading is worth some fu: those of its triplets are numbers.
LEMMA FuIsNat ==
  ASSUME NEW h \in Hands, NEW r, r = Scored(h), r.pair # NoTile,
         NEW c, c.zimo \in BOOLEAN, NEW closed \in BOOLEAN
  PROVE  Fu(r, c, closed) \in Nat
<1>1. PICK I : I = {j \in DOMAIN r.melds : ~r.melds[j].run}
  OBVIOUS
<1>2. PICK w : w = [i \in I |-> TripletFu(r.melds[i])]
  OBVIOUS
<1>3. IsFiniteSet(I)
  <2>1. PICK n \in Nat : DOMAIN r.melds = 1 .. n
    BY ScoredIs, LenProperties
  <2>2. 1 \in Int /\ n \in Int /\ I \subseteq 1 .. n
    BY <1>1, <2>1
  <2>3. IsFiniteSet(1 .. n)
    BY <2>2, FS_Interval
  <2> QED
    BY <2>2, <2>3, FS_Subset
<1>4. w \in [I -> Nat]
  <2>1. \A m : TripletFu(m) \in Nat
    BY DEF TripletFu
  <2> QED
    BY <1>2, <2>1
<1>5. SumFunction(w) \in Nat
  BY <1>3, <1>4, SumIsNat
<1>6. FuSum(r, c, closed) \in Nat
  <2>1. FuSum(r, c, closed) = 20 + (IF c.zimo THEN 2 ELSE 0)
                                 + (IF closed THEN 10 ELSE 0)
                                 + (IF IsHonor(r.pair) THEN 2 ELSE 0)
                                 + SumFunction(w)
    BY <1>1, <1>2 DEF FuSum
  <2> QED
    BY <1>5, <2>1
<1> QED
  BY <1>6 DEF Fu

LEMMA HanOfFans ==
  ASSUME NEW fans, \A f \in fans : f.han \in Nat
  PROVE  HanOf(fans) \in [fans -> Nat] /\ \A f \in fans : HanOf(fans)[f] = f.han
BY DEF HanOf

\* For every hand that can be complete, and not only for those of MCHand, the
\* payments of its value agree: SplitsAgree and HanNeverCosts apply, as what
\* CheckWin makes of a hand are numbers of han and fu.
THEOREM ValuesArePaid == Spec => []PaymentsAgree
<1>1. Asked => PaymentsAgree
  <2> SUFFICES ASSUME Asked, Won, win.han >= 1
               PROVE  \A dealer \in BOOLEAN : /\ SplitAgrees(win.han, win.fu, dealer)
                                              /\ HanPays(win.han, win.fu, dealer)
    BY DEF PaymentsAgree
  <2>1. PICK h \in Hands : h = held
    BY DEF Asked
  <2>2. PICK seat \in 0 .. 3, tsumo \in BOOLEAN, ind \in Indicators :
          win = CheckWin(h, seat, tsumo, ind)
    BY <2>1 DEF Asked, Won, Unasked
  <2>3. PICK r : r = Scored(h)
    OBVIOUS
  <2>4. r.pair # NoTile
    BY <2>2, <2>3, CheckWinReads DEF Won
  <2>5. PICK fans : fans = Calc(r, ConcealedTiles(h), Ctx(seat, tsumo))
    OBVIOUS
  <2>6. IsFiniteSet(fans) /\ HanOf(fans) \in [fans -> Nat]
    BY <2>3, <2>4, <2>5, FansCount, HanOfFans
  <2>7. SumFunction(HanOf(fans)) \in Nat
    BY <2>6, SumIsNat
  <2>8. win.han = SumFunction(HanOf(fans)) + CountDora(ConcealedTiles(h), ind)
    BY <2>2, <2>3, <2>4, <2>5, CheckWinHan
  <2>9. win.han \in Nat \ {0}
    BY <2>7, <2>8, DoraIsNat
  <2>10. win.fu \in Nat
    <3>1. PICK closed \in BOOLEAN : win.fu = Fu(r, Ctx(seat, tsumo), closed)
      BY <2>2, <2>3, <2>4, CheckWinFu
    <3>2. Ctx(seat, tsumo).zimo \in BOOLEAN
      BY DEF Ctx
    <3> QED
      BY <2>3, <2>4, <3>1, <3>2, FuIsNat
  <2> QED
    BY <2>9, <2>10, SplitsAgree, HanNeverCosts
<1> QED
  BY <1>1, AlwaysAsked, PTL

-----------------------------------------------------------------------------
(* The same reading drawn and completed by a discard.                      *)

MenzenTsumo == Fan("menzenTsumo", 1)

Pinfu == Fan("pinfu", 1)

\* The yaku that do not depend on how the last tile came.
Lasting(r, hand, c, f) ==
  \/ Tanyao(r) /\ f = Fan("tanyao", 1)
  \/ f \in Yakuhai(r, c)
  \/ RunsIn(r) = 0 /\ Len(r.melds) = 4 /\ f = Fan("toitoi", 2)
  \/ EndsOnly(r) /\ f = Fan("chanta", Worth(r, 2, 1))
  \/ TerminalsOnly(r) /\ f = Fan("junchan", Worth(r, 3, 2))
  \/ Honitsu(hand) /\ f = Fan("honitsu", Worth(r, 3, 2))
  \/ Chinitsu(r, hand) /\ f = Fan("chinitsu", Worth(r, 6, 5))
  \/ /\ SanshokuDoujun(r)
     /\ f = Fan(IF Menzen(r) THEN "sanshoku" ELSE "sanshokuOpen", Worth(r, 2, 1))
  \/ Ittsu(r) /\ f = Fan("ittsu", Worth(r, 2, 1))

\* What CheckWin counts of a drawn hand, and of one completed by a discard.
LEMMA CountedIs ==
  ASSUME NEW r, NEW hand, NEW seat, NEW f
  PROVE  /\ f \in Regular(r, hand, Ctx(seat, TRUE)) <=>
              \/ Menzen(r) /\ f = MenzenTsumo
              \/ Lasting(r, hand, Ctx(seat, TRUE), f)
         /\ f \in Regular(r, hand, Ctx(seat, FALSE)) <=>
              \/ /\ Menzen(r) /\ RunsIn(r) = 4
                 /\ IsHonor(r.pair) \/ IsTerminal(r.pair)
                 /\ f = Pinfu
              \/ Lasting(r, hand, Ctx(seat, TRUE), f)
<1>1. PICK d : d = Ctx(seat, TRUE)
  OBVIOUS
<1>2. PICK c : c = Ctx(seat, FALSE)
  OBVIOUS
<1>3. /\ d.riichi = FALSE /\ d.rinshan = FALSE /\ d.chankan = FALSE /\ d.zimo = TRUE
      /\ c.riichi = FALSE /\ c.rinshan = FALSE /\ c.chankan = FALSE /\ c.zimo = FALSE
      /\ c.seatWind = d.seatWind /\ c.roundWind = d.roundWind
  BY <1>1, <1>2 DEF Ctx
<1>4. Yakuhai(r, c) = Yakuhai(r, d)
  BY <1>3 DEF Yakuhai
<1>5. f \in Regular(r, hand, d) <=>
        \/ Menzen(r) /\ f = MenzenTsumo
        \/ Lasting(r, hand, d, f)
  BY <1>3, RegularIs, Zenon DEF Lasting, Drawn, MenzenTsumo
<1>6. f \in Regular(r, hand, c) <=>
        \/ /\ Menzen(r) /\ RunsIn(r) = 4
           /\ IsHonor(r.pair) \/ IsTerminal(r.pair)
           /\ f = Pinfu
        \/ Lasting(r, hand, c, f)
  BY <1>3, RegularIs, Zenon DEF Lasting, Drawn, Pinfu
<1>7. Lasting(r, hand, c, f) <=> Lasting(r, hand, d, f)
  BY <1>4, Zenon DEF Lasting
<1> QED
  BY <1>1, <1>2, <1>5, <1>6, <1>7

\* Neither menzenTsumo nor pinfu is among them.
LEMMA LastingIsOther ==
  ASSUME NEW r, NEW hand, NEW c
  PROVE  ~Lasting(r, hand, c, MenzenTsumo) /\ ~Lasting(r, hand, c, Pinfu)
<1>1. \A n, k : Fan(n, k).name = n
  BY DEF Fan
<1>2. MenzenTsumo.name = "menzenTsumo" /\ Pinfu.name = "pinfu"
  BY <1>1 DEF MenzenTsumo, Pinfu
<1>3. ASSUME NEW f, Lasting(r, hand, c, f)
      PROVE  f.name \notin {"menzenTsumo", "pinfu"}
  <2>1. \/ f \in Yakuhai(r, c)
        \/ f = Fan("tanyao", 1) \/ f = Fan("toitoi", 2)
        \/ f = Fan("chanta", Worth(r, 2, 1)) \/ f = Fan("junchan", Worth(r, 3, 2))
        \/ f = Fan("honitsu", Worth(r, 3, 2)) \/ f = Fan("chinitsu", Worth(r, 6, 5))
        \/ f = Fan(IF Menzen(r) THEN "sanshoku" ELSE "sanshokuOpen", Worth(r, 2, 1))
        \/ f = Fan("ittsu", Worth(r, 2, 1))
    BY <1>3, Zenon DEF Lasting
  <2> QED
    BY <1>1, <2>1, YakuhaiNames
<1> QED
  BY <1>2, <1>3

\* A reading counts no less han drawn than completed by a discard.
LEMMA DrawCountsMore ==
  ASSUME NEW h \in Hands, NEW r, r = Scored(h), r.pair # NoTile, NEW seat
  PROVE  SumFunction(HanOf(Calc(r, ConcealedTiles(h), Ctx(seat, FALSE))))
           <= SumFunction(HanOf(Calc(r, ConcealedTiles(h), Ctx(seat, TRUE))))
<1>1. PICK hand : hand = ConcealedTiles(h)
  OBVIOUS
<1>2. PICK A : A = Calc(r, hand, Ctx(seat, TRUE))
  OBVIOUS
<1>3. PICK B : B = Calc(r, hand, Ctx(seat, FALSE))
  OBVIOUS
<1>4. IsFiniteSet(A) /\ HanOf(A) \in [A -> Nat] /\ \A f \in A : HanOf(A)[f] = f.han
  BY <1>1, <1>2, FansCount, HanOfFans
<1>5. IsFiniteSet(B) /\ HanOf(B) \in [B -> Nat] /\ \A f \in B : HanOf(B)[f] = f.han
  BY <1>1, <1>3, FansCount, HanOfFans
<1>6. CASE A = B
  <2>1. SumFunction(HanOf(A)) \in Nat
    BY <1>4, SumIsNat
  <2>2. SumFunction(HanOf(B)) <= SumFunction(HanOf(A))
    BY <1>6, <2>1
  <2> QED
    BY <1>1, <1>2, <1>3, <2>2
<1>7. CASE A # B
  <2>1. ~FourConcealedTriplets(r)
    BY <1>1, <1>2, <1>3, <1>7, ScoredCounts
  <2>2. A = Regular(r, hand, Ctx(seat, TRUE)) /\ B = Regular(r, hand, Ctx(seat, FALSE))
    BY <1>1, <1>2, <1>3, <2>1, ScoredCounts
  <2>3. Menzen(r)
    <3>1. ASSUME ~Menzen(r) PROVE \A f : f \in A <=> f \in B
      BY <2>2, <3>1, CountedIs
    <3> QED
      BY <1>7, <3>1
  <2>4. MenzenTsumo \in A
    BY <2>2, <2>3, CountedIs
  <2>5. A \ {MenzenTsumo} = B \ {Pinfu}
    <3>1. \A f : f \in A \ {MenzenTsumo} <=> Lasting(r, hand, Ctx(seat, TRUE), f)
      BY <2>2, CountedIs, LastingIsOther
    <3>2. \A f : f \in B \ {Pinfu} <=> Lasting(r, hand, Ctx(seat, TRUE), f)
      BY <2>2, CountedIs, LastingIsOther
    <3> QED
      BY <3>1, <3>2
  <2>6. MenzenTsumo.han = 1 /\ Pinfu.han = 1
    BY DEF MenzenTsumo, Pinfu, Fan
  <2>7. \A x \in A \ {MenzenTsumo} : HanOf(A)[x] = HanOf(B)[x]
    BY <1>4, <1>5, <2>5
  <2>8. Pinfu \in B => HanOf(B)[Pinfu] <= HanOf(A)[MenzenTsumo]
    BY <1>4, <1>5, <2>4, <2>6
  <2>9. SumFunction(HanOf(B)) <= SumFunction(HanOf(A))
    BY <1>4, <1>5, <2>4, <2>5, <2>7, <2>8, SumExchanged
  <2> QED
    BY <1>1, <1>2, <1>3, <2>9
<1> QED
  BY <1>6, <1>7

\* A complete hand drawn is worth at least the han it is worth on a discard
\* (Calc): closed, it counts menzenTsumo for the pinfu it may lose.
THEOREM DrawsPay == Spec => []DrawIsWorthRon
<1>1. Asked => DrawIsWorthRon
  <2> SUFFICES ASSUME Asked, Won, win.tsumo
               PROVE  win.han >= CheckWin(held, win.seat, FALSE, win.indicators).han
    BY DEF DrawIsWorthRon
  <2>1. PICK h \in Hands : h = held
    BY DEF Asked
  <2>2. PICK seat \in 0 .. 3, tsumo \in BOOLEAN, ind \in Indicators :
          win = CheckWin(h, seat, tsumo, ind)
    BY <2>1 DEF Asked, Won, Unasked
  <2>3. PICK r : r = Scored(h)
    OBVIOUS
  <2>4. r.pair # NoTile
    BY <2>2, <2>3, CheckWinReads DEF Won
  <2>5. tsumo = TRUE /\ win.seat = seat /\ win.indicators = ind
    <3>1. win.seat = seat /\ win.indicators = ind
      BY <2>2, <2>3, <2>4, CheckWinTold
    <3>2. CASE tsumo = TRUE
      BY <3>1, <3>2
    <3>3. CASE tsumo = FALSE
      <4>1. win = CheckWin(h, seat, FALSE, ind)
        BY <2>2, <3>3
      <4>2. win.tsumo = FALSE
        BY <2>3, <2>4, <4>1, CheckWinDrawn
      <4> QED
        BY <4>2
    <3> QED
      BY <3>2, <3>3
  <2>6. PICK A : A = HanOf(Calc(r, ConcealedTiles(h), Ctx(seat, TRUE)))
    OBVIOUS
  <2>7. PICK B : B = HanOf(Calc(r, ConcealedTiles(h), Ctx(seat, FALSE)))
    OBVIOUS
  <2>8. win.han = SumFunction(A) + CountDora(ConcealedTiles(h), ind)
    <3>1. win = CheckWin(h, seat, TRUE, ind)
      BY <2>2, <2>5
    <3> QED
      BY <2>3, <2>4, <2>6, <3>1, CheckWinHan
  <2>14. PICK ron : ron = CheckWin(h, seat, FALSE, ind).han
    OBVIOUS
  <2>9. ron = SumFunction(B) + CountDora(ConcealedTiles(h), ind)
    BY <2>14, <2>3, <2>4, <2>7, CheckWinHan
  <2>10. SumFunction(B) <= SumFunction(A)
    BY <2>3, <2>4, <2>6, <2>7, DrawCountsMore
  <2>11. SumFunction(A) \in Nat /\ SumFunction(B) \in Nat
    BY <2>3, <2>4, <2>6, <2>7, FansCount, HanOfFans, SumIsNat
  <2>12. CountDora(ConcealedTiles(h), ind) \in Nat
    BY DoraIsNat
  <2>13. win.han >= ron
    BY <2>8, <2>9, <2>10, <2>11, <2>12
  <2> QED
    BY <2>1, <2>5, <2>13, <2>14
<1> QED
  BY <1>1, AlwaysAsked, PTL
=============================================================================
