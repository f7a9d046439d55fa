------------------------------- MODULE DealProofs -------------------------------
(***************************************************************************)
(* Theorems about Deal, for all kinds, presets and sizes: every tile of a  *)
(* wall is one the preset pins or a tile of the deck of its own, and a     *)
(* wall has its length and shows the indicators that are prescribed.       *)
(***************************************************************************)
EXTENDS Deal, SequenceTheorems, FiniteSetTheorems, TLAPS

-----------------------------------------------------------------------------
(* What a wall is made of. *)

PinSet == [hands : [Seats -> Seq(Kinds)], extra : Kinds \cup {Blank},
           prefix : Seq(Kinds), dora : Seq(Kinds)]

WallSet == [hands : [Seats -> Seq(Kinds)], extra : Kinds, wall : Seq(Kinds),
            dead : Seq(Kinds)]

Draws == DeckSize - DeadWallSize - Dealt

\* The indicators the dead wall has room for.
Fits(dora) == {i \in DOMAIN dora : Slot(i) <= DeadWallSize}

\* The tile of the deck that lies at a place of a wall where nothing is pinned:
\* in a hand, the extra tile, a draw, or in the dead wall.
Pos(r, i) ==
  IF r <= NumPlayers THEN (r - 1) * HandSize + i
  ELSE IF r = NumPlayers + 1 THEN Dealt
  ELSE IF r = NumPlayers + 2 THEN Dealt + i
  ELSE (DeckSize - DeadWallSize) + i

HandsLaid(w, p, deck) ==
  \A s \in Seats : \/ w.hands[s] = p.hands[s]
                   \/ /\ Len(w.hands[s]) = HandSize
                      /\ \A i \in 1 .. HandSize : w.hands[s][i] = deck[Pos(s, i)]

DrawsLaid(w, p, deck) ==
  /\ Len(w.wall) = Draws
  /\ \A i \in 1 .. Draws :
       \/ i \in DOMAIN p.prefix /\ w.wall[i] = p.prefix[i]
       \/ w.wall[i] = deck[Pos(NumPlayers + 2, i)]

DeadLaid(w, p, deck, order) ==
  /\ Len(w.dead) = DeadWallSize
  /\ order \in [Fits(p.dora) -> Fits(p.dora)]
  /\ \A h, i \in Fits(p.dora) : order[h] = order[i] => h = i
  /\ \A j \in 1 .. DeadWallSize :
       \/ \E h \in Fits(p.dora) : j = Slot(h) /\ w.dead[j] = p.dora[order[h]]
       \/ /\ \A h \in Fits(p.dora) : j # Slot(h)
          /\ w.dead[j] = deck[Pos(NumPlayers + 3, j)]

\* w is a wall cut from a deck, with what p pins laid over it.
Made(w, p) ==
  /\ w \in WallSet
  /\ p \in PinSet
  /\ \E deck \in Decks :
       /\ HandsLaid(w, p, deck)
       /\ w.extra \in {p.extra, deck[Dealt]}
       /\ DrawsLaid(w, p, deck)
       /\ \E order : DeadLaid(w, p, deck, order)

DealInv ==
  /\ \A id \in DOMAIN store : store[id] \in PinSet
  /\ wall # NoWall => Made(wall, pins)

-----------------------------------------------------------------------------
(* The cut. *)

SizeFacts ==
  /\ DeckSize \in Nat /\ Dealt \in Nat \ {0} /\ Draws \in Nat /\ DeadWallSize \in Nat
  /\ NumPlayers \in Nat /\ HandSize \in Nat /\ NumPlayers * HandSize \in Nat
  /\ Dealt = NumPlayers * HandSize + 1
  /\ DeckSize = Dealt + Draws + DeadWallSize

LEMMA Sizes ==
  ASSUME DealAssumption
  PROVE  SizeFacts
<1>1. /\ Cardinality(Kinds) \in Nat /\ Copies \in Nat
      /\ NumPlayers \in Nat /\ HandSize \in Nat /\ DeadWallSize \in Nat
  BY FS_CardinalityType DEF DealAssumption
<1>2. DeckSize \in Nat
  BY <1>1 DEF DeckSize
<1>3. NumPlayers * HandSize \in Nat
  BY <1>1
<1>4. Dealt \in Nat \ {0} /\ Dealt = NumPlayers * HandSize + 1
  BY <1>3 DEF Dealt
<1>5. Dealt + DeadWallSize <= DeckSize
  BY DEF DealAssumption
<1> QED
  BY <1>1, <1>2, <1>3, <1>4, <1>5 DEF Draws, SizeFacts

USE DEF SizeFacts

\* Two places of two hands are not one of the deck, and none of the hands'
\* lies beyond them.
LEMMA HandPos ==
  ASSUME DealAssumption, NEW r \in Seats, NEW i \in 1 .. HandSize
  PROVE  /\ Pos(r, i) \in 1 .. NumPlayers * HandSize
         /\ \A q \in Seats, j \in 1 .. HandSize :
              Pos(r, i) = Pos(q, j) => r = q /\ i = j
<1>0. SizeFacts
  BY Sizes
<1>1. /\ NumPlayers \in Nat /\ HandSize \in Nat /\ r \in 1 .. NumPlayers
      /\ Seats = 1 .. NumPlayers
  BY <1>0 DEF Seats
<1>2. ASSUME NEW a \in Nat, NEW b \in Nat, a < b
      PROVE  a * HandSize + HandSize <= b * HandSize
  <2>1. PICK d \in Nat : b = (a + 1) + d
    <3>1. b - (a + 1) \in Nat /\ b = (a + 1) + (b - (a + 1))
      BY <1>2
    <3> QED
      BY <3>1
  <2>2. b * HandSize = a * HandSize + HandSize + d * HandSize
    BY <1>1, <2>1
  <2>3. d * HandSize \in Nat /\ a * HandSize \in Nat
    BY <1>1
  <2>4. PICK x \in Nat : x = a * HandSize
    BY <2>3
  <2>5. PICK y \in Nat : y = d * HandSize
    BY <2>3
  <2>6. PICK z : z = b * HandSize
    OBVIOUS
  <2>7. z = x + HandSize + y
    BY <2>2, <2>4, <2>5, <2>6
  <2>8. x + HandSize <= z
    BY <1>1, <2>7
  <2> QED
    BY <2>4, <2>6, <2>8
<1>3. \A q \in Seats, j \in 1 .. HandSize :
        /\ Pos(q, j) = (q - 1) * HandSize + j
        /\ q - 1 \in Nat /\ (q - 1) * HandSize \in Nat
  BY <1>1 DEF Pos
<1>4. Pos(r, i) \in 1 .. NumPlayers * HandSize
  <2>1. (r - 1) * HandSize + HandSize <= NumPlayers * HandSize
    BY <1>1, <1>2
  <2>2. PICK x \in Nat : x = (r - 1) * HandSize
    BY <1>3
  <2>3. PICK z \in Nat : z = NumPlayers * HandSize
    BY <1>0
  <2>4. x + i \in 1 .. z
    BY <1>1, <2>1, <2>2, <2>3
  <2> QED
    BY <1>3, <2>2, <2>3, <2>4
<1>5. ASSUME NEW q \in Seats, NEW j \in 1 .. HandSize, Pos(r, i) = Pos(q, j)
      PROVE  r = q /\ i = j
  <2>1. PICK a \in Nat : a = (r - 1) * HandSize
    BY <1>3
  <2>2. PICK b \in Nat : b = (q - 1) * HandSize
    BY <1>3
  <2>3. a + i = b + j
    BY <1>3, <1>5, <2>1, <2>2
  <2>4. ~(r - 1 < q - 1)
    <3>1. r - 1 < q - 1 => a + HandSize <= b
      BY <1>2, <1>3, <2>1, <2>2
    <3> QED
      BY <1>1, <2>3, <3>1
  <2>5. ~(q - 1 < r - 1)
    <3>1. q - 1 < r - 1 => b + HandSize <= a
      BY <1>2, <1>3, <2>1, <2>2
    <3> QED
      BY <1>1, <2>3, <3>1
  <2>6. r = q
    BY <1>1, <2>4, <2>5
  <2> QED
    BY <2>1, <2>2, <2>3, <2>6
<1> QED
  BY <1>4, <1>5

\* What the deck is cut into.
LEMMA CutShape ==
  ASSUME DealAssumption, NEW deck \in Decks
  PROVE  /\ deck \in [1 .. DeckSize -> Kinds]
         /\ Cut(deck) \in WallSet
         /\ \A s \in Seats :
              /\ Len(Cut(deck).hands[s]) = HandSize
              /\ \A i \in 1 .. HandSize : Cut(deck).hands[s][i] = deck[Pos(s, i)]
         /\ Cut(deck).extra = deck[Dealt]
         /\ Len(Cut(deck).wall) = Draws
         /\ \A i \in 1 .. Draws : Cut(deck).wall[i] = deck[Pos(NumPlayers + 2, i)]
         /\ Len(Cut(deck).dead) = DeadWallSize
         /\ \A i \in 1 .. DeadWallSize :
              Cut(deck).dead[i] = deck[Pos(NumPlayers + 3, i)]
<1>0. SizeFacts
  BY Sizes
<1>1. deck \in [1 .. DeckSize -> Kinds]
  BY DEF Decks
<1>2. PICK count : count = DeckSize - DeadWallSize
  OBVIOUS
<1>3. count \in Nat /\ count = Dealt + Draws /\ count <= DeckSize
  BY <1>2, <1>0
<1>4. PICK w : w = Cut(deck)
  OBVIOUS
<1>5. w = [hands |-> [s \in Seats |->
                        SubSeq(deck, (s - 1) * HandSize + 1, s * HandSize)],
           extra |-> deck[Dealt],
           wall |-> SubSeq(deck, Dealt + 1, count),
           dead |-> SubSeq(deck, count + 1, DeckSize)]
  BY <1>2, <1>4 DEF Cut
<1>6. ASSUME NEW s \in Seats
      PROVE  /\ w.hands[s] \in Seq(Kinds)
             /\ Len(w.hands[s]) = HandSize
             /\ \A i \in 1 .. HandSize : w.hands[s][i] = deck[Pos(s, i)]
  <2>1. PICK a \in Int : a = (s - 1) * HandSize + 1
    BY <1>0 DEF Seats
  <2>2. PICK b \in Int : b = s * HandSize
    BY <1>0 DEF Seats
  <2>3. b - a + 1 = HandSize /\ HandSize \in Nat
    <3>1. s * HandSize = (s - 1) * HandSize + HandSize /\ (s - 1) * HandSize \in Int
      BY <1>0 DEF Seats
    <3>2. PICK x \in Int : x = (s - 1) * HandSize
      BY <3>1
    <3>3. a = x + 1 /\ b = x + HandSize
      BY <2>1, <2>2, <3>1, <3>2
    <3> QED
      BY <3>3, <1>0
  <2>4. \A i \in 1 .. HandSize : a + i - 1 = Pos(s, i)
    BY <2>1, <1>0 DEF Pos, Seats
  <2>5. \A i \in 1 .. HandSize : a + i - 1 \in 1 .. DeckSize
    BY <2>4, HandPos, <1>0
  <2>6. \A j \in a .. b : deck[j] \in Kinds
    <3>1. \A j \in a .. b : j \in 1 .. DeckSize
      <4>1. ASSUME NEW j \in a .. b
            PROVE  j \in 1 .. DeckSize
        <5>1. PICK i \in 1 .. HandSize : j = a + i - 1
          <6>1. (j - a) + 1 \in 1 .. HandSize /\ j = a + ((j - a) + 1) - 1
            BY <2>3
          <6> QED
            BY <6>1
        <5> QED
          BY <2>5, <5>1
      <4> QED
        BY <4>1
    <3> QED
      BY <1>1, <3>1
  <2>7. PICK q : q = SubSeq(deck, a, b)
    OBVIOUS
  <2>8. /\ q \in Seq(Kinds) /\ Len(q) = IF a <= b THEN b - a + 1 ELSE 0
        /\ \A i \in 1 .. b - a + 1 : q[i] = deck[a + i - 1]
    BY <2>6, <2>7, SubSeqProperties
  <2>9. w.hands[s] = q
    BY <1>5, <2>1, <2>2, <2>7
  <2> QED
    BY <2>3, <2>4, <2>8, <2>9
<1>7. /\ w.wall \in Seq(Kinds) /\ Len(w.wall) = Draws
      /\ \A i \in 1 .. Draws : w.wall[i] = deck[Pos(NumPlayers + 2, i)]
  <2>1. PICK a \in Int : a = Dealt + 1
    BY <1>0
  <2>2. count - a + 1 = Draws
    BY <1>3, <2>1, <1>0
  <2>3. \A j \in a .. count : deck[j] \in Kinds
    BY <1>1, <1>3, <2>1, <1>0
  <2>4. PICK q : q = SubSeq(deck, a, count)
    OBVIOUS
  <2>5. /\ q \in Seq(Kinds) /\ Len(q) = IF a <= count THEN count - a + 1 ELSE 0
        /\ \A i \in 1 .. count - a + 1 : q[i] = deck[a + i - 1]
    BY <1>3, <2>3, <2>4, SubSeqProperties
  <2>6. \A i \in 1 .. Draws : a + i - 1 = Pos(NumPlayers + 2, i)
    BY <2>1, <1>0 DEF Pos
  <2>7. w.wall = q
    BY <1>5, <2>1, <2>4
  <2>8. Len(q) = Draws
    BY <1>3, <2>1, <2>2, <2>5, <1>0
  <2>9. \A i \in 1 .. Draws : q[i] = deck[Pos(NumPlayers + 2, i)]
    BY <2>2, <2>5, <2>6
  <2> QED
    BY <2>5, <2>7, <2>8, <2>9
<1>8. /\ w.dead \in Seq(Kinds) /\ Len(w.dead) = DeadWallSize
      /\ \A i \in 1 .. DeadWallSize : w.dead[i] = deck[Pos(NumPlayers + 3, i)]
  <2>1. PICK a \in Int : a = count + 1
    BY <1>3
  <2>2. DeckSize - a + 1 = DeadWallSize /\ DeckSize \in Int
    BY <1>2, <1>3, <2>1, <1>0
  <2>3. \A j \in a .. DeckSize : deck[j] \in Kinds
    BY <1>1, <1>3, <2>1, <1>0
  <2>4. PICK q : q = SubSeq(deck, a, DeckSize)
    OBVIOUS
  <2>5. /\ q \in Seq(Kinds) /\ Len(q) = IF a <= DeckSize THEN DeckSize - a + 1 ELSE 0
        /\ \A i \in 1 .. DeckSize - a + 1 : q[i] = deck[a + i - 1]
    BY <2>2, <2>3, <2>4, SubSeqProperties
  <2>6. \A i \in 1 .. DeadWallSize : a + i - 1 = Pos(NumPlayers + 3, i)
    BY <1>2, <2>1, <1>0 DEF Pos
  <2>7. w.dead = q
    BY <1>5, <2>1, <2>4
  <2>8. Len(q) = DeadWallSize
    BY <2>1, <2>2, <2>5, <1>0
  <2>9. \A i \in 1 .. DeadWallSize : q[i] = deck[Pos(NumPlayers + 3, i)]
    BY <2>2, <2>5, <2>6
  <2> QED
    BY <2>5, <2>7, <2>8, <2>9
<1>9. w.extra = deck[Dealt] /\ w.extra \in Kinds
  BY <1>1, <1>5, <1>0
<1>10. w \in WallSet
  <2>1. w.hands \in [Seats -> Seq(Kinds)]
    BY <1>5, <1>6
  <2> QED
    BY <1>5, <1>7, <1>8, <1>9, <2>1 DEF WallSet
<1> QED
  BY <1>1, <1>4, <1>6, <1>7, <1>8, <1>9, <1>10

-----------------------------------------------------------------------------
(* What is laid over it. *)

LEMMA NothingPinned == NoPins \in PinSet /\ Fits(NoPins.dora) = {}
<1>1. << >> \in Seq(Kinds) /\ DOMAIN << >> = {}
  BY EmptySeq
<1> QED
  BY <1>1 DEF NoPins, PinSet, Fits

\* A wall nothing is pinned in.
LEMMA RandomMade ==
  ASSUME DealAssumption, NEW deck \in Decks
  PROVE  Made(Cut(deck), NoPins)
<1>1. PICK w : w = Cut(deck)
  OBVIOUS
<1>2. /\ deck \in [1 .. DeckSize -> Kinds]
      /\ w \in WallSet
      /\ \A s \in Seats : /\ Len(w.hands[s]) = HandSize
                          /\ \A i \in 1 .. HandSize : w.hands[s][i] = deck[Pos(s, i)]
      /\ w.extra = deck[Dealt]
      /\ Len(w.wall) = Draws
      /\ \A i \in 1 .. Draws : w.wall[i] = deck[Pos(NumPlayers + 2, i)]
      /\ Len(w.dead) = DeadWallSize
      /\ \A i \in 1 .. DeadWallSize : w.dead[i] = deck[Pos(NumPlayers + 3, i)]
  BY <1>1, CutShape
<1>3. HandsLaid(w, NoPins, deck)
  BY <1>2 DEF HandsLaid
<1>4. DrawsLaid(w, NoPins, deck)
  BY <1>2 DEF DrawsLaid
<1>5. DeadLaid(w, NoPins, deck, [h \in {} |-> 0])
  BY <1>2, NothingPinned DEF DeadLaid
<1> QED
  BY <1>1, <1>2, <1>3, <1>4, <1>5, NothingPinned DEF Made

\* The draws of a preset, and behind them those of the deck.
LEMMA DrawsOver ==
  ASSUME NEW prefix \in Seq(Kinds), NEW base \in Seq(Kinds), Len(prefix) <= Len(base),
         NEW draws, draws = prefix \o SubSeq(base, Len(prefix) + 1, Len(base))
  PROVE  /\ draws \in Seq(Kinds)
         /\ Len(draws) = Len(base)
         /\ \A i \in 1 .. Len(base) :
              \/ i \in DOMAIN prefix /\ draws[i] = prefix[i]
              \/ draws[i] = base[i]
<1>1. PICK m \in Nat : m = Len(prefix)
  BY LenProperties
<1>2. PICK n \in Nat : n = Len(base)
  BY LenProperties
<1>3. PICK a \in Int : a = m + 1
  BY <1>1
<1>4. PICK rest : rest = SubSeq(base, a, n)
  OBVIOUS
<1>5. DOMAIN base = 1 .. n /\ DOMAIN prefix = 1 .. m
  BY <1>1, <1>2, LenProperties
<1>6. \A i \in a .. n : base[i] \in Kinds
  BY <1>1, <1>3, <1>5, ElementOfSeq
<1>7. /\ rest \in Seq(Kinds)
      /\ Len(rest) = IF a <= n THEN n - a + 1 ELSE 0
      /\ \A i \in 1 .. n - a + 1 : rest[i] = base[a + i - 1]
  BY <1>2, <1>3, <1>4, <1>6, SubSeqProperties
<1>8. Len(rest) = n - m
  BY <1>1, <1>2, <1>3, <1>7
<1>9. draws = prefix \o rest
  BY <1>1, <1>2, <1>3, <1>4
<1>10. /\ draws \in Seq(Kinds)
       /\ Len(draws) = m + Len(rest)
       /\ \A i \in 1 .. m + Len(rest) :
            draws[i] = IF i <= m THEN prefix[i] ELSE rest[i - m]
  <2>1. PICK l \in Nat : l = Len(rest)
    BY <1>7, LenProperties
  <2>2. /\ prefix \o rest \in Seq(Kinds)
        /\ Len(prefix \o rest) = Len(prefix) + Len(rest)
        /\ \A i \in 1 .. Len(prefix) + Len(rest) :
             (prefix \o rest)[i] = IF i <= Len(prefix) THEN prefix[i]
                                                      ELSE rest[i - Len(prefix)]
    BY <1>7, ConcatProperties
  <2> QED
    BY <1>1, <1>9, <2>2
<1>11. ASSUME NEW i \in 1 .. n, ~(i <= m)
       PROVE  draws[i] = base[i]
  <2>1. PICK j : j = i - m
    OBVIOUS
  <2>2. j \in 1 .. n - a + 1 /\ a + j - 1 = i
    BY <1>1, <1>2, <1>3, <1>11, <2>1
  <2>3. rest[j] = base[i]
    BY <1>7, <2>2
  <2> QED
    BY <1>8, <1>10, <1>11, <2>1, <2>3
<1> QED
  BY <1>1, <1>2, <1>5, <1>8, <1>10, <1>11

\* The dead wall around the indicators of a preset: those it has room for are
\* in their slots in some order, and elsewhere it is as it was.
Around(dead, dora, base) ==
  /\ dead \in Seq(Kinds)
  /\ Len(dead) = DeadWallSize
  /\ \E order \in [Fits(dora) -> Fits(dora)] :
       /\ \A h, i \in Fits(dora) : order[h] = order[i] => h = i
       /\ \A j \in 1 .. DeadWallSize :
            \/ \E h \in Fits(dora) : j = Slot(h) /\ dead[j] = dora[order[h]]
            \/ (\A h \in Fits(dora) : j # Slot(h)) /\ dead[j] = base[j]

LEMMA DeadOver ==
  ASSUME DealAssumption, NEW dora \in Seq(Kinds), NEW base \in Seq(Kinds), Len(base) = DeadWallSize,
         NEW dead \in DeadWalls(dora, base)
  PROVE  Around(dead, dora, base)
<1>0. SizeFacts
  BY Sizes
<1>1. PICK held : held = Fits(dora)
  OBVIOUS
<1>2. held = {i \in DOMAIN dora : Slot(i) <= Len(base)} /\ held \subseteq DOMAIN dora
  BY <1>1 DEF Fits
<1>3. DOMAIN base = 1 .. DeadWallSize
  BY LenProperties
<1>4. PICK order \in {f \in [held -> held] : IsInjective(f)} :
        dead = [j \in DOMAIN base |-> IF \E i \in held : Slot(i) = j
                                        THEN dora[order[CHOOSE i \in held : Slot(i) = j]]
                                        ELSE base[j]]
  <2> DEFINE H == {i \in DOMAIN dora : Slot(i) <= Len(base)}
  <2>1. \E order \in {f \in [H -> H] : IsInjective(f)} :
          dead = [j \in DOMAIN base |-> IF \E i \in H : Slot(i) = j
                                          THEN dora[order[CHOOSE i \in H : Slot(i) = j]]
                                          ELSE base[j]]
    BY DEF DeadWalls
  <2>2. H = held
    BY <1>2
  <2> HIDE DEF H
  <2> QED
    BY <2>1, <2>2
<1>5. order \in [held -> held] /\ \A h, i \in held : order[h] = order[i] => h = i
  BY <1>4 DEF IsInjective
<1>6. \A h \in held : dora[order[h]] \in Kinds
  BY <1>2, <1>5, ElementOfSeq, LenProperties
<1>7. ASSUME NEW j \in 1 .. DeadWallSize
      PROVE  /\ dead[j] \in Kinds
             /\ \/ \E h \in held : j = Slot(h) /\ dead[j] = dora[order[h]]
                \/ (\A h \in held : j # Slot(h)) /\ dead[j] = base[j]
  <2>1. CASE \E h \in held : Slot(h) = j
    <3>1. PICK h : h = CHOOSE i \in held : Slot(i) = j
      OBVIOUS
    <3>2. h \in held /\ Slot(h) = j
      BY <2>1, <3>1
    <3>3. dead[j] = dora[order[h]]
      BY <1>3, <1>4, <2>1, <3>1
    <3> QED
      BY <1>6, <3>2, <3>3
  <2>2. CASE \A h \in held : Slot(h) # j
    <3>1. dead[j] = base[j]
      BY <1>3, <1>4, <2>2
    <3>2. base[j] \in Kinds
      BY <1>3, ElementOfSeq
    <3> QED
      BY <2>2, <3>1, <3>2
  <2> QED
    BY <2>1, <2>2
<1>8. DOMAIN dead = 1 .. DeadWallSize
  BY <1>3, <1>4
<1>9. dead \in [1 .. DeadWallSize -> Kinds]
  BY <1>3, <1>4, <1>7, <1>8
<1>10. dead \in Seq(Kinds) /\ Len(dead) = DeadWallSize
  BY <1>9, <1>0, IsASeq, LenProperties
<1> QED
  BY <1>1, <1>5, <1>7, <1>10 DEF Around

\* A wall some of which is pinned.
LEMMA PresetMade ==
  ASSUME DealAssumption, NEW deck \in Decks, NEW p \in PinSet, Len(p.prefix) <= Len(Cut(deck).wall),
         NEW dead \in DeadWalls(p.dora, Cut(deck).dead)
  PROVE  Made(Laid(p, Cut(deck), dead), p)
<1>1. PICK base : base = Cut(deck)
  OBVIOUS
<1>2. /\ deck \in [1 .. DeckSize -> Kinds]
      /\ base \in WallSet
      /\ \A s \in Seats : /\ Len(base.hands[s]) = HandSize
                          /\ \A i \in 1 .. HandSize : base.hands[s][i] = deck[Pos(s, i)]
      /\ base.extra = deck[Dealt]
      /\ Len(base.wall) = Draws
      /\ \A i \in 1 .. Draws : base.wall[i] = deck[Pos(NumPlayers + 2, i)]
      /\ Len(base.dead) = DeadWallSize
      /\ \A i \in 1 .. DeadWallSize : base.dead[i] = deck[Pos(NumPlayers + 3, i)]
  BY <1>1, CutShape
<1>3. PICK w : w = Laid(p, base, dead)
  OBVIOUS
<1>4. /\ p.hands \in [Seats -> Seq(Kinds)] /\ p.extra \in Kinds \cup {Blank}
      /\ p.prefix \in Seq(Kinds) /\ p.dora \in Seq(Kinds)
      /\ base.hands \in [Seats -> Seq(Kinds)] /\ base.extra \in Kinds
      /\ base.wall \in Seq(Kinds) /\ base.dead \in Seq(Kinds)
  BY <1>2 DEF PinSet, WallSet
<1>5. /\ w = [hands |-> w.hands, extra |-> w.extra, wall |-> w.wall, dead |-> w.dead]
      /\ w.hands = [s \in Seats |-> IF p.hands[s] = << >> THEN base.hands[s]
                                                          ELSE p.hands[s]]
      /\ w.extra = IF p.extra = Blank THEN base.extra ELSE p.extra
      /\ w.wall = p.prefix \o SubSeq(base.wall, Len(p.prefix) + 1, Len(base.wall))
      /\ w.dead = dead
  BY <1>3 DEF Laid
<1>6. w.hands \in [Seats -> Seq(Kinds)] /\ HandsLaid(w, p, deck)
  BY <1>2, <1>4, <1>5 DEF HandsLaid
<1>7. w.extra \in Kinds /\ w.extra \in {p.extra, deck[Dealt]}
  BY <1>2, <1>4, <1>5
<1>8. PICK draws : draws = w.wall
  OBVIOUS
<1>9. Len(p.prefix) <= Len(base.wall)
  BY <1>1
<1>10. /\ draws \in Seq(Kinds)
       /\ Len(draws) = Len(base.wall)
       /\ \A i \in 1 .. Len(base.wall) :
            \/ i \in DOMAIN p.prefix /\ draws[i] = p.prefix[i]
            \/ draws[i] = base.wall[i]
  <2>1. PICK f \in Seq(Kinds) : f = p.prefix
    BY <1>4
  <2>2. PICK b \in Seq(Kinds) : b = base.wall
    BY <1>4
  <2>3. Len(f) <= Len(b) /\ draws = f \o SubSeq(b, Len(f) + 1, Len(b))
    BY <1>5, <1>8, <1>9, <2>1, <2>2
  <2>4. /\ draws \in Seq(Kinds)
        /\ Len(draws) = Len(b)
        /\ \A i \in 1 .. Len(b) : \/ i \in DOMAIN f /\ draws[i] = f[i]
                                  \/ draws[i] = b[i]
    BY <2>3, DrawsOver
  <2> QED
    BY <2>1, <2>2, <2>4
<1>11. w.wall \in Seq(Kinds) /\ DrawsLaid(w, p, deck)
  BY <1>2, <1>8, <1>10 DEF DrawsLaid
<1>12. dead \in DeadWalls(p.dora, base.dead)
  BY <1>1
<1>13. PICK d \in Seq(Kinds) : d = p.dora
  BY <1>4
<1>14. PICK order : dead \in Seq(Kinds) /\ DeadLaid(w, p, deck, order)
  <2>1. PICK b \in Seq(Kinds) : b = base.dead
    BY <1>4
  <2>2. Len(b) = DeadWallSize /\ dead \in DeadWalls(d, b)
    BY <1>2, <1>12, <1>13, <2>1
  <2>3. Around(dead, d, b)
    BY <2>2, DeadOver
  <2>4. PICK order \in [Fits(d) -> Fits(d)] :
          /\ \A h, i \in Fits(d) : order[h] = order[i] => h = i
          /\ \A j \in 1 .. DeadWallSize :
               \/ \E h \in Fits(d) : j = Slot(h) /\ dead[j] = d[order[h]]
               \/ (\A h \in Fits(d) : j # Slot(h)) /\ dead[j] = b[j]
    BY <2>3 DEF Around
  <2>5. dead \in Seq(Kinds) /\ Len(dead) = DeadWallSize
    BY <2>3 DEF Around
  <2>6. DeadLaid(w, p, deck, order)
    BY <1>2, <1>5, <1>13, <2>1, <2>4, <2>5 DEF DeadLaid
  <2> QED
    BY <2>5, <2>6
<1>15. w \in WallSet
  BY <1>4, <1>5, <1>6, <1>7, <1>11, <1>14 DEF WallSet
<1> QED
  BY <1>1, <1>3, <1>6, <1>7, <1>11, <1>14, <1>15 DEF Made

-----------------------------------------------------------------------------
(* The store and the walls of a behaviour. *)

LEMMA InitDeal == Init => DealInv
BY DEF Init, DealInv

LEMMA NextDeal ==
  ASSUME DealAssumption
  PROVE  DealInv /\ [Next]_vars => DealInv'
<1> SUFFICES ASSUME DealInv, [Next]_vars
             PROVE  DealInv'
  OBVIOUS
<1>1. CASE UNCHANGED vars
  <2>1. wall' = wall /\ pins' = pins /\ store' = store
    BY <1>1 DEF vars
  <2> QED
    BY <2>1 DEF DealInv
<1>2. ASSUME NEW id \in Ids, BuildWall(id)
      PROVE  DealInv'
  <2>1. PICK deck \in Decks :
          \/ wall' = Cut(deck) /\ pins' = NoPins
          \/ /\ id \in DOMAIN store
             /\ Len(store[id].prefix) <= Len(Cut(deck).wall)
             /\ \E dead \in DeadWalls(store[id].dora, Cut(deck).dead) :
                  wall' = Laid(store[id], Cut(deck), dead)
             /\ pins' = store[id]
    BY <1>2 DEF BuildWall
  <2>2. Made(wall', pins')
    <3>1. CASE wall' = Cut(deck) /\ pins' = NoPins
      BY <3>1, RandomMade
    <3>2. CASE /\ id \in DOMAIN store
               /\ Len(store[id].prefix) <= Len(Cut(deck).wall)
               /\ \E dead \in DeadWalls(store[id].dora, Cut(deck).dead) :
                    wall' = Laid(store[id], Cut(deck), dead)
               /\ pins' = store[id]
      <4>1. PICK p \in PinSet : p = store[id]
        BY <3>2 DEF DealInv
      <4>2. PICK dead \in DeadWalls(p.dora, Cut(deck).dead) :
              wall' = Laid(p, Cut(deck), dead)
        BY <3>2, <4>1
      <4>3. Made(Laid(p, Cut(deck), dead), p)
        BY <3>2, <4>1, PresetMade
      <4> QED
        BY <3>2, <4>1, <4>2, <4>3
    <3> QED
      BY <2>1, <3>1, <3>2
  <2>3. store' = store
    BY <1>2 DEF BuildWall
  <2> QED
    BY <2>2, <2>3 DEF DealInv
<1>3. CASE NewRound
  BY <1>3 DEF NewRound, DealInv
<1>4. ASSUME NEW p \in Presets, NEW id, Upsert(p, id)
      PROVE  DealInv'
  <2>1. p \in PinSet
    BY DEF DealAssumption, PinSet
  <2> QED
    BY <1>4, <2>1 DEF Upsert, DealInv, Made, HandsLaid, DrawsLaid, DeadLaid
<1>5. ASSUME NEW p \in Presets, Unnamed(p)
      PROVE  DealInv'
  BY <1>4, <1>5 DEF Unnamed
<1>6. ASSUME NEW id \in Ids, Delete(id)
      PROVE  DealInv'
  BY <1>6 DEF Delete, DealInv, Made, HandsLaid, DrawsLaid, DeadLaid
<1> QED
  BY <1>1, <1>2, <1>3, <1>4, <1>5, <1>6 DEF Next

-----------------------------------------------------------------------------
(* Counting. *)

\* A relation that leads from all of S to T, and never twice to the same.
LEMMA Matched ==
  ASSUME NEW S, NEW T, IsFiniteSet(T), NEW R,
         \A x \in S : \E y \in T : <<x, y>> \in R,
         \A x, z \in S, y \in T : <<x, y>> \in R /\ <<z, y>> \in R => x = z
  PROVE  IsFiniteSet(S) /\ Cardinality(S) <= Cardinality(T)
<1>1. PICK f : f = [x \in S |-> CHOOSE y \in T : <<x, y>> \in R]
  OBVIOUS
<1>2. \A x \in S : f[x] \in T /\ <<x, f[x]>> \in R
  BY <1>1
<1>3. f \in [S -> T] /\ DOMAIN f = S
  BY <1>1, <1>2
<1>4. \A x, z \in S : f[x] = f[z] => x = z
  BY <1>2
<1>5. f \in Injection(S, T)
  BY <1>3, <1>4 DEF Injection, IsInjective
<1> QED
  BY <1>5, FS_Injection

\* The rows of a wall, and the tiles they are of.
Layout(rows, hands, extra, draws, dead, S) ==
  /\ DOMAIN rows = 1 .. NumPlayers + 3
  /\ \A s \in Seats : rows[s] = hands[s]
  /\ rows[NumPlayers + 1] = <<extra>>
  /\ rows[NumPlayers + 2] = draws
  /\ rows[NumPlayers + 3] = dead
  /\ \A r \in DOMAIN rows : rows[r] \in Seq(S)

LEMMA RowsShape ==
  ASSUME DealAssumption, NEW S, NEW hands \in [Seats -> Seq(S)], NEW extra \in S, NEW draws \in Seq(S),
         NEW dead \in Seq(S), NEW rows, rows = Rows(hands, extra, draws, dead)
  PROVE  Layout(rows, hands, extra, draws, dead, S)
<1>0. SizeFacts
  BY Sizes
<1>1. PICK tail : tail = <<<<extra>>, draws, dead>>
  OBVIOUS
<1>2. <<extra>> \in Seq(S)
  OBVIOUS
<1>3. /\ tail \in Seq(Seq(S)) /\ Len(tail) = 3
      /\ tail[1] = <<extra>> /\ tail[2] = draws /\ tail[3] = dead
  BY <1>1, <1>2
<1>4. NumPlayers \in Nat /\ Seats = 1 .. NumPlayers
  BY <1>0 DEF Seats
<1>5. hands \in Seq(Seq(S)) /\ Len(hands) = NumPlayers
  BY <1>4, IsASeq, LenProperties
<1>6. rows = hands \o tail
  BY <1>1 DEF Rows
<1>7. /\ hands \o tail \in Seq(Seq(S))
      /\ Len(hands \o tail) = NumPlayers + 3
      /\ \A r \in 1 .. NumPlayers + 3 :
           (hands \o tail)[r] = IF r <= NumPlayers THEN hands[r] ELSE tail[r - NumPlayers]
  <2>1. /\ hands \o tail \in Seq(Seq(S))
        /\ Len(hands \o tail) = Len(hands) + Len(tail)
        /\ \A r \in 1 .. Len(hands) + Len(tail) :
             (hands \o tail)[r] = IF r <= Len(hands) THEN hands[r] ELSE tail[r - Len(hands)]
    BY <1>3, <1>5, ConcatProperties
  <2> QED
    BY <1>3, <1>5, <2>1
<1>8. DOMAIN rows = 1 .. NumPlayers + 3
  BY <1>6, <1>7, LenProperties
<1>9. \A r \in 1 .. NumPlayers + 3 :
        rows[r] = IF r <= NumPlayers THEN hands[r] ELSE tail[r - NumPlayers]
  BY <1>6, <1>7
<1>10. \A s \in Seats : rows[s] = hands[s]
  BY <1>4, <1>9
<1>11. /\ rows[NumPlayers + 1] = tail[1]
       /\ rows[NumPlayers + 2] = tail[2]
       /\ rows[NumPlayers + 3] = tail[3]
  <2>1. /\ NumPlayers + 1 \in 1 .. NumPlayers + 3 /\ ~(NumPlayers + 1 <= NumPlayers)
        /\ NumPlayers + 2 \in 1 .. NumPlayers + 3 /\ ~(NumPlayers + 2 <= NumPlayers)
        /\ NumPlayers + 3 \in 1 .. NumPlayers + 3 /\ ~(NumPlayers + 3 <= NumPlayers)
        /\ (NumPlayers + 1) - NumPlayers = 1
        /\ (NumPlayers + 2) - NumPlayers = 2
        /\ (NumPlayers + 3) - NumPlayers = 3
    BY <1>4
  <2> QED
    BY <1>9, <2>1
<1>12. rows \in Seq(Seq(S))
  BY <1>6, <1>7
<1>13. \A r \in DOMAIN rows : rows[r] \in Seq(S)
  BY <1>12, ElementOfSeq, LenProperties
<1> QED
  BY <1>3, <1>8, <1>10, <1>11, <1>13 DEF Layout

\* The places of a kind in the rows of a wall, and that there are finitely many.
Listed(places, rows, k) ==
  /\ IsFiniteSet(places)
  /\ \A r, i : <<r, i>> \in places <=>
                 r \in DOMAIN rows /\ i \in DOMAIN rows[r] /\ rows[r][i] = k
  /\ \A x \in places : \E r \in DOMAIN rows : \E i \in DOMAIN rows[r] :
       x = <<r, i>> /\ rows[r][i] = k

LEMMA PlacesShape ==
  ASSUME NEW S, NEW rows, NEW m \in Nat, DOMAIN rows = 1 .. m,
         \A r \in DOMAIN rows : rows[r] \in Seq(S), NEW k
  PROVE  Listed(Places(rows, k), rows, k)
<1>1. PICK f : f = [r \in DOMAIN rows |-> {r} \X {i \in DOMAIN rows[r] : rows[r][i] = k}]
  OBVIOUS
<1>2. PICK F : F = {f[r] : r \in DOMAIN rows}
  OBVIOUS
<1>3. Places(rows, k) = UNION F
  BY <1>1, <1>2 DEF Places
<1>4. IsFiniteSet(F)
  <2>1. IsFiniteSet(DOMAIN rows)
    BY FS_Interval
  <2>2. f \in Surjection(DOMAIN rows, F)
    BY <1>1, <1>2 DEF Surjection
  <2> QED
    BY <2>1, <2>2, FS_Surjection
<1>5. \A T \in F : IsFiniteSet(T)
  <2>1. ASSUME NEW r \in DOMAIN rows
        PROVE  IsFiniteSet(f[r])
    <3>1. PICK D : D = {i \in DOMAIN rows[r] : rows[r][i] = k}
      OBVIOUS
    <3>2. PICK n \in Nat : DOMAIN rows[r] = 1 .. n
      BY LenProperties
    <3>3. IsFiniteSet(1 .. n)
      BY <3>2, FS_Interval
    <3>4. IsFiniteSet(D)
      BY <3>1, <3>2, <3>3, FS_Subset
    <3>5. IsFiniteSet({r})
      BY FS_Singleton
    <3>6. IsFiniteSet({r} \X D)
      BY <3>4, <3>5, FS_Product
    <3> QED
      BY <1>1, <3>1, <3>6
  <2> QED
    BY <1>2, <2>1
<1>6. IsFiniteSet(Places(rows, k))
  BY <1>3, <1>4, <1>5, FS_UNION
<1>7. \A x \in Places(rows, k) : \E r \in DOMAIN rows : \E i \in DOMAIN rows[r] :
        x = <<r, i>> /\ rows[r][i] = k
  BY DEF Places
<1>8. \A r \in DOMAIN rows : \A i \in DOMAIN rows[r] :
        rows[r][i] = k => <<r, i>> \in Places(rows, k)
  BY DEF Places
<1>9. \A r, i : <<r, i>> \in Places(rows, k) =>
                  r \in DOMAIN rows /\ i \in DOMAIN rows[r] /\ rows[r][i] = k
  BY <1>7
<1> QED
  BY <1>6, <1>7, <1>8, <1>9 DEF Listed

-----------------------------------------------------------------------------
(* No tile of the deck is in a wall twice. *)

\* The place <<r, i>> of a wall holds what the preset has at <<q, j>>.
From(r, i, q, j, dora, order) ==
  /\ r = q
  /\ IF r = NumPlayers + 3 THEN \E h \in Fits(dora) : i = Slot(h) /\ j = order[h]
                           ELSE i = j

LEMMA ExtraPinned ==
  ASSUME DealAssumption, NEW w, NEW p, Made(w, p), NEW k \in Kinds
  PROVE  Cardinality(Places(Rows(w.hands, w.extra, w.wall, w.dead), k)) <=
           Copies + Cardinality(Places(Rows(p.hands, p.extra, p.prefix, p.dora), k))
<1>0. SizeFacts
  BY Sizes
<1>1. PICK deck \in Decks : /\ HandsLaid(w, p, deck)
                            /\ w.extra \in {p.extra, deck[Dealt]}
                            /\ DrawsLaid(w, p, deck)
                            /\ \E order : DeadLaid(w, p, deck, order)
  BY DEF Made
<1>2. PICK order : DeadLaid(w, p, deck, order)
  BY <1>1
<1>3. deck \in [1 .. DeckSize -> Kinds]
  BY DEF Decks
<1>4. PICK S : S = Kinds \cup {Blank}
  OBVIOUS
<1>5. /\ w.hands \in [Seats -> Seq(Kinds)] /\ w.extra \in Kinds
      /\ w.wall \in Seq(Kinds) /\ w.dead \in Seq(Kinds)
  BY DEF Made, WallSet
<1>6. /\ p.hands \in [Seats -> Seq(S)] /\ p.extra \in S
      /\ p.prefix \in Seq(S) /\ p.dora \in Seq(S)
  <2>1. /\ p.hands \in [Seats -> Seq(Kinds)] /\ p.extra \in S
        /\ p.prefix \in Seq(Kinds) /\ p.dora \in Seq(Kinds)
    BY <1>4 DEF Made, PinSet
  <2>2. \A q \in Seq(Kinds) : q \in Seq(S)
    BY <1>4, LenProperties, ElementOfSeq, IsASeq
  <2> QED
    BY <2>1, <2>2
<1>7. PICK N \in Nat : N = NumPlayers
  BY <1>0
<1>8. PICK rows : rows = Rows(w.hands, w.extra, w.wall, w.dead)
  OBVIOUS
<1>9. PICK pinned : pinned = Rows(p.hands, p.extra, p.prefix, p.dora)
  OBVIOUS
<1>10. /\ DOMAIN rows = 1 .. N + 3
       /\ \A s \in Seats : rows[s] = w.hands[s]
       /\ rows[N + 1] = <<w.extra>>
       /\ rows[N + 2] = w.wall
       /\ rows[N + 3] = w.dead
       /\ \A r \in DOMAIN rows : rows[r] \in Seq(Kinds)
  <2>1. PICK hands \in [Seats -> Seq(Kinds)] : hands = w.hands
    BY <1>5
  <2>2. PICK extra \in Kinds : extra = w.extra
    BY <1>5
  <2>3. PICK draws \in Seq(Kinds) : draws = w.wall
    BY <1>5
  <2>4. PICK dead \in Seq(Kinds) : dead = w.dead
    BY <1>5
  <2>5. rows = Rows(hands, extra, draws, dead)
    BY <1>8, <2>1, <2>2, <2>3, <2>4
  <2>6. Layout(rows, hands, extra, draws, dead, Kinds)
    BY <2>5, RowsShape
  <2> QED
    BY <1>7, <2>1, <2>2, <2>3, <2>4, <2>6 DEF Layout
<1>11. /\ DOMAIN pinned = 1 .. N + 3
       /\ \A s \in Seats : pinned[s] = p.hands[s]
       /\ pinned[N + 1] = <<p.extra>>
       /\ pinned[N + 2] = p.prefix
       /\ pinned[N + 3] = p.dora
       /\ \A r \in DOMAIN pinned : pinned[r] \in Seq(S)
  <2>1. PICK hands \in [Seats -> Seq(S)] : hands = p.hands
    BY <1>6
  <2>2. PICK extra \in S : extra = p.extra
    BY <1>6
  <2>3. PICK draws \in Seq(S) : draws = p.prefix
    BY <1>6
  <2>4. PICK dead \in Seq(S) : dead = p.dora
    BY <1>6
  <2>5. pinned = Rows(hands, extra, draws, dead)
    BY <1>9, <2>1, <2>2, <2>3, <2>4
  <2>6. Layout(pinned, hands, extra, draws, dead, S)
    BY <2>5, RowsShape
  <2> QED
    BY <1>7, <2>1, <2>2, <2>3, <2>4, <2>6 DEF Layout
<1>12. PICK A : A = Places(rows, k)
  OBVIOUS
<1>13. /\ IsFiniteSet(A)
       /\ \A r, i : <<r, i>> \in A <=>
                      r \in DOMAIN rows /\ i \in DOMAIN rows[r] /\ rows[r][i] = k
       /\ \A x \in A : \E r \in DOMAIN rows : \E i \in DOMAIN rows[r] :
            x = <<r, i>> /\ rows[r][i] = k
  <2>1. PICK m \in Nat : m = N + 3
    OBVIOUS
  <2>2. DOMAIN rows = 1 .. m
    BY <1>10, <2>1
  <2> QED
    <3>1. Listed(A, rows, k)
      BY <1>10, <1>12, <2>2, PlacesShape
    <3> QED
      BY <3>1 DEF Listed
<1>14. PICK B : B = Places(pinned, k)
  OBVIOUS
<1>15. /\ IsFiniteSet(B)
       /\ \A r, i : <<r, i>> \in B <=>
                      r \in DOMAIN pinned /\ i \in DOMAIN pinned[r] /\ pinned[r][i] = k
       /\ \A x \in B : \E r \in DOMAIN pinned : \E i \in DOMAIN pinned[r] :
            x = <<r, i>> /\ pinned[r][i] = k
  <2>1. PICK m \in Nat : m = N + 3
    OBVIOUS
  <2>2. DOMAIN pinned = 1 .. m
    BY <1>11, <2>1
  <2> QED
    <3>1. Listed(B, pinned, k)
      BY <1>11, <1>14, <2>2, PlacesShape
    <3> QED
      BY <3>1 DEF Listed
<1>16. PICK D : D = {j \in DOMAIN deck : deck[j] = k}
  OBVIOUS
<1>17. IsFiniteSet(D) /\ Cardinality(D) = Copies /\ Copies \in Nat
  <2>1. IsFiniteSet(1 .. DeckSize)
    BY <1>0, FS_Interval
  <2>2. IsFiniteSet(D)
    BY <1>3, <1>16, <2>1, FS_Subset
  <2> QED
    BY <1>16, <2>2 DEF DealAssumption, Decks, Copied
\* A place holds what is pinned there, or the tile of the deck that is cut there.
<1>18. ASSUME NEW r \in DOMAIN rows, NEW i \in DOMAIN rows[r], rows[r][i] = k
       PROVE  \/ \E q, j : <<q, j>> \in B /\ From(r, i, q, j, p.dora, order)
              \/ /\ Pos(r, i) \in D
                 /\ r \in Seats => i \in 1 .. HandSize
                 /\ r = N + 1 => i = 1
                 /\ r = N + 2 => i \in 1 .. Draws
                 /\ r = N + 3 => i \in 1 .. DeadWallSize
  <2>1. CASE r \in Seats
    <3>1. r \in 1 .. N /\ r # N + 3
      BY <1>7, <2>1 DEF Seats
    <3>2. CASE w.hands[r] = p.hands[r]
      <4>1. <<r, i>> \in B
        BY <1>10, <1>11, <1>15, <1>18, <2>1, <3>1, <3>2
      <4> QED
        BY <1>7, <3>1, <4>1 DEF From
    <3>3. CASE /\ Len(w.hands[r]) = HandSize
               /\ \A n \in 1 .. HandSize : w.hands[r][n] = deck[Pos(r, n)]
      <4>1. i \in 1 .. HandSize
        BY <1>5, <1>10, <2>1, <3>3, LenProperties
      <4>2. Pos(r, i) \in 1 .. NumPlayers * HandSize
        BY <2>1, <4>1, HandPos
      <4>3. Pos(r, i) \in 1 .. DeckSize
        BY <4>2, <1>0
      <4>4. deck[Pos(r, i)] = k
        BY <1>10, <1>18, <2>1, <3>3, <4>1
      <4> QED
        BY <1>3, <1>16, <3>1, <4>1, <4>3, <4>4
    <3> QED
      BY <1>1, <2>1, <3>2, <3>3 DEF HandsLaid
  <2>2. CASE r = N + 1
    <3>1. i = 1 /\ w.extra = k
      BY <1>10, <1>18, <2>2
    <3>2. r \notin Seats /\ Pos(r, i) = Dealt /\ Dealt \in 1 .. DeckSize
      BY <1>7, <2>2, <1>0 DEF Pos, Seats
    <3>3. CASE w.extra = p.extra
      <4>1. <<r, i>> \in B
        BY <1>11, <1>15, <2>2, <3>1, <3>3
      <4> QED
        BY <1>7, <2>2, <4>1 DEF From
    <3>4. CASE w.extra = deck[Dealt]
      BY <1>3, <1>16, <2>2, <3>1, <3>2, <3>4
    <3> QED
      BY <1>1, <3>3, <3>4
  <2>3. CASE r = N + 2
    <3>1. i \in 1 .. Draws /\ w.wall[i] = k
      BY <1>1, <1>5, <1>10, <1>18, <2>3, <1>0, LenProperties DEF DrawsLaid
    <3>2. CASE i \in DOMAIN p.prefix /\ w.wall[i] = p.prefix[i]
      <4>1. <<r, i>> \in B
        BY <1>11, <1>15, <2>3, <3>1, <3>2
      <4> QED
        BY <1>7, <2>3, <4>1 DEF From
    <3>3. CASE w.wall[i] = deck[Pos(NumPlayers + 2, i)]
      <4>1. r \notin Seats /\ Pos(r, i) \in 1 .. DeckSize
        BY <1>7, <2>3, <3>1, <1>0 DEF Pos, Seats
      <4> QED
        BY <1>3, <1>7, <1>16, <2>3, <3>1, <3>3, <4>1
    <3> QED
      BY <1>1, <3>1, <3>2, <3>3 DEF DrawsLaid
  <2>4. CASE r = N + 3
    <3>1. i \in 1 .. DeadWallSize /\ w.dead[i] = k
      BY <1>2, <1>5, <1>10, <1>18, <2>4, LenProperties DEF DeadLaid
    <3>2. ASSUME NEW h \in Fits(p.dora), i = Slot(h), w.dead[i] = p.dora[order[h]]
          PROVE  \E q, j : <<q, j>> \in B /\ From(r, i, q, j, p.dora, order)
      <4>1. order[h] \in DOMAIN p.dora
        BY <1>2, <3>2 DEF DeadLaid, Fits
      <4>2. <<r, order[h]>> \in B
        BY <1>11, <1>15, <2>4, <3>1, <3>2, <4>1
      <4>3. From(r, i, r, order[h], p.dora, order)
        BY <1>7, <2>4, <3>2 DEF From
      <4> QED
        BY <4>2, <4>3
    <3>3. CASE w.dead[i] = deck[Pos(NumPlayers + 3, i)]
      <4>1. r \notin Seats /\ Pos(r, i) \in 1 .. DeckSize
        BY <1>7, <2>4, <3>1, <1>0 DEF Pos, Seats
      <4> QED
        BY <1>3, <1>7, <1>16, <2>4, <3>1, <3>3, <4>1
    <3> QED
      BY <1>2, <3>1, <3>2, <3>3 DEF DeadLaid
  <2>5. r \in Seats \/ r = N + 1 \/ r = N + 2 \/ r = N + 3
    BY <1>7, <1>10 DEF Seats
  <2> QED
    BY <2>1, <2>2, <2>3, <2>4, <2>5
<1>19. PICK A1 : A1 = {x \in A : \E q, j : <<q, j>> \in B /\ From(x[1], x[2], q, j, p.dora, order)}
  OBVIOUS
\* What is pinned is laid once.
<1>20. IsFiniteSet(A1) /\ Cardinality(A1) <= Cardinality(B)
  <2>1. PICK R : R = {z \in A \X B : From(z[1][1], z[1][2], z[2][1], z[2][2], p.dora, order)}
    OBVIOUS
  <2>2. \A x \in A1 : \E y \in B : <<x, y>> \in R
    BY <1>19, <2>1
  <2>3. ASSUME NEW x \in A1, NEW z \in A1, NEW y \in B, <<x, y>> \in R, <<z, y>> \in R
        PROVE  x = z
    <3>1. /\ From(x[1], x[2], y[1], y[2], p.dora, order)
          /\ From(z[1], z[2], y[1], y[2], p.dora, order)
      BY <2>1, <2>3
    <3>2. x = <<x[1], x[2]>> /\ z = <<z[1], z[2]>>
      BY <1>13, <1>19
    <3>3. x[1] = z[1]
      BY <3>1 DEF From
    <3>4. x[2] = z[2]
      BY <1>2, <3>1 DEF From, DeadLaid
    <3> QED
      BY <3>2, <3>3, <3>4
  <2> QED
    BY <1>15, <2>2, <2>3, Matched
\* No other tile of the deck is laid twice.
<1>21. PICK A2 : A2 = A \ A1
  OBVIOUS
<1>22. \A x \in A2 : \E r \in 1 .. N + 3, i \in Nat :
         /\ x = <<r, i>>
         /\ Pos(r, i) \in D
         /\ r \in Seats => i \in 1 .. HandSize
         /\ r = N + 1 => i = 1
         /\ r = N + 2 => i \in 1 .. Draws
         /\ r = N + 3 => i \in 1 .. DeadWallSize
  <2>1. ASSUME NEW x \in A2
        PROVE  \E r \in 1 .. N + 3, i \in Nat :
                 /\ x = <<r, i>>
                 /\ Pos(r, i) \in D
                 /\ r \in Seats => i \in 1 .. HandSize
                 /\ r = N + 1 => i = 1
                 /\ r = N + 2 => i \in 1 .. Draws
                 /\ r = N + 3 => i \in 1 .. DeadWallSize
    <3>1. PICK r \in DOMAIN rows : \E i \in DOMAIN rows[r] : x = <<r, i>> /\ rows[r][i] = k
      BY <1>13, <1>21
    <3>2. PICK i \in DOMAIN rows[r] : x = <<r, i>> /\ rows[r][i] = k
      BY <3>1
    <3>3. i \in Nat
      BY <1>10, LenProperties
    <3>4. ~\E q, j : <<q, j>> \in B /\ From(r, i, q, j, p.dora, order)
      BY <1>19, <1>21, <3>2
    <3> QED
      BY <1>10, <1>18, <3>2, <3>3, <3>4
  <2> QED
    BY <2>1
<1>23. IsFiniteSet(A2) /\ Cardinality(A2) <= Copies
  <2>1. PICK R : R = {z \in A \X D : z[2] = Pos(z[1][1], z[1][2])}
    OBVIOUS
  <2>2. \A x \in A2 : \E y \in D : <<x, y>> \in R
    BY <1>21, <1>22, <2>1
  <2>3. ASSUME NEW x \in A2, NEW z \in A2, NEW y \in D, <<x, y>> \in R, <<z, y>> \in R
        PROVE  x = z
    <3>1. PICK r \in 1 .. N + 3, i \in Nat :
            /\ x = <<r, i>>
            /\ r \in Seats => i \in 1 .. HandSize
            /\ r = N + 1 => i = 1
            /\ r = N + 2 => i \in 1 .. Draws
            /\ r = N + 3 => i \in 1 .. DeadWallSize
      BY <1>22
    <3>2. PICK q \in 1 .. N + 3, j \in Nat :
            /\ z = <<q, j>>
            /\ q \in Seats => j \in 1 .. HandSize
            /\ q = N + 1 => j = 1
            /\ q = N + 2 => j \in 1 .. Draws
            /\ q = N + 3 => j \in 1 .. DeadWallSize
      BY <1>22
    <3>3. Pos(r, i) = Pos(q, j)
      BY <2>1, <2>3, <3>1, <3>2
    <3>4. Seats = 1 .. N /\ Dealt \in Nat /\ Draws \in Nat
      BY <1>7, <1>0 DEF Seats
    <3>5. CASE r \in Seats /\ q \in Seats
      BY <3>1, <3>2, <3>3, <3>5, HandPos
    <3>6. \A s \in Seats, n \in 1 .. HandSize : Pos(s, n) \in Int /\ Pos(s, n) < Dealt
      <4>1. \A s \in Seats, n \in 1 .. HandSize : Pos(s, n) \in 1 .. NumPlayers * HandSize
        BY HandPos
      <4> QED
        BY <4>1, <1>0
    <3>7. /\ r \in Seats => Pos(r, i) \in Int /\ Pos(r, i) < Dealt
          /\ r = N + 1 => Pos(r, i) = Dealt
          /\ r = N + 2 => Pos(r, i) = Dealt + i
          /\ r = N + 3 => Pos(r, i) = (Dealt + Draws) + i
      BY <1>7, <3>1, <3>6, <1>0 DEF Pos
    <3>8. /\ q \in Seats => Pos(q, j) \in Int /\ Pos(q, j) < Dealt
          /\ q = N + 1 => Pos(q, j) = Dealt
          /\ q = N + 2 => Pos(q, j) = Dealt + j
          /\ q = N + 3 => Pos(q, j) = (Dealt + Draws) + j
      BY <1>7, <3>2, <3>6, <1>0 DEF Pos
    <3>9. /\ r \in Seats \/ r = N + 1 \/ r = N + 2 \/ r = N + 3
          /\ q \in Seats \/ q = N + 1 \/ q = N + 2 \/ q = N + 3
      BY <3>4
    <3>10. CASE ~(r \in Seats /\ q \in Seats)
      <4>1. r = q /\ i = j
        BY <3>1, <3>2, <3>3, <3>4, <3>7, <3>8, <3>9, <3>10
      <4> QED
        BY <3>1, <3>2, <4>1
    <3> QED
      BY <3>5, <3>10
  <2> QED
    BY <1>17, <2>2, <2>3, Matched
<1>24. Cardinality(A) <= Cardinality(A1) + Cardinality(A2)
  <2>1. A = A1 \cup A2
    BY <1>19, <1>21
  <2>2. IsFiniteSet(A1 \cap A2)
    BY <1>20, FS_Subset
  <2> QED
    <3>1. Cardinality(A) = Cardinality(A1) + Cardinality(A2) - Cardinality(A1 \cap A2)
      BY <1>20, <1>23, <2>1, FS_Union
    <3>2. PICK x \in Nat : x = Cardinality(A1 \cap A2)
      BY <2>2, FS_CardinalityType
    <3>3. PICK y \in Nat : y = Cardinality(A1)
      BY <1>20, FS_CardinalityType
    <3>4. PICK z \in Nat : z = Cardinality(A2)
      BY <1>23, FS_CardinalityType
    <3> QED
      BY <3>1, <3>2, <3>3, <3>4
<1>25. Cardinality(A) <= Copies + Cardinality(B)
  BY <1>13, <1>15, <1>17, <1>20, <1>23, <1>24, FS_CardinalityType
<1> QED
  BY <1>8, <1>9, <1>12, <1>14, <1>25

\* A deck has no tile of a kind more than once, and a wall is made of one deck
\* and of what the preset pins: more tiles of a kind than a deck has are all
\* pinned, whatever the sizes, the kinds and the presets, and whatever the
\* console does between a wall and the next.
THEOREM NoTileTwice ==
  ASSUME DealAssumption
  PROVE  Spec => []ExtraCopiesArePinned
<1>1. DealInv => ExtraCopiesArePinned
  BY ExtraPinned DEF DealInv, ExtraCopiesArePinned
<1> QED
  BY <1>1, InitDeal, NextDeal, PTL DEF Spec

-----------------------------------------------------------------------------
(* The indicators a preset prescribes. *)

\* The slots a dead wall has for indicators are the first ones.
LEMMA SlotsOf ==
  ASSUME DealAssumption
  PROVE  \E m \in 0 .. 5 :
           /\ {n \in 1 .. 5 : Slot(n) <= DeadWallSize} = 1 .. m
           /\ \A n \in Nat \ {0} : Slot(n) <= DeadWallSize <=> n <= m
<1>0. SizeFacts
  BY Sizes
<1>1. PICK L \in Nat : L = DeadWallSize /\ L <= 14
  BY <1>0 DEF DealAssumption
<1>2. PICK m \in 0 .. 5 : \A n \in Nat \ {0} : 2 * n + 3 <= L <=> n <= m
  <2>1. CASE L < 5
    <3>1. \A n \in Nat \ {0} : 2 * n + 3 <= L <=> n <= 0
      BY <2>1
    <3> QED
      BY <3>1
  <2>2. CASE L \in 5 .. 6
    <3>1. \A n \in Nat \ {0} : 2 * n + 3 <= L <=> n <= 1
      BY <2>2
    <3> QED
      BY <3>1
  <2>3. CASE L \in 7 .. 8
    <3>1. \A n \in Nat \ {0} : 2 * n + 3 <= L <=> n <= 2
      BY <2>3
    <3> QED
      BY <3>1
  <2>4. CASE L \in 9 .. 10
    <3>1. \A n \in Nat \ {0} : 2 * n + 3 <= L <=> n <= 3
      BY <2>4
    <3> QED
      BY <3>1
  <2>5. CASE L \in 11 .. 12
    <3>1. \A n \in Nat \ {0} : 2 * n + 3 <= L <=> n <= 4
      BY <2>5
    <3> QED
      BY <3>1
  <2>6. CASE L \in 13 .. 14
    <3>1. \A n \in Nat \ {0} : 2 * n + 3 <= L <=> n <= 5
      BY <2>6
    <3> QED
      BY <3>1
  <2> QED
    BY <1>1, <2>1, <2>2, <2>3, <2>4, <2>5, <2>6
<1>3. \A n \in Nat \ {0} : Slot(n) <= DeadWallSize <=> n <= m
  BY <1>1, <1>2 DEF Slot
<1>4. {n \in 1 .. 5 : Slot(n) <= DeadWallSize} = 1 .. m
  BY <1>3
<1> QED
  BY <1>3, <1>4

\* The copies of a tile in the beginning of a sequence.
LEMMA CopiedInPrefix ==
  ASSUME NEW S, NEW q \in Seq(S), NEW n \in Nat, n <= Len(q), NEW k
  PROVE  Copied(SubSeq(q, 1, n), k) = Cardinality({i \in 1 .. n : q[i] = k})
<1>1. PICK l \in Nat : l = Len(q) /\ DOMAIN q = 1 .. l
  BY LenProperties
<1>2. \A i \in 1 .. n : q[i] \in S
  BY <1>1, ElementOfSeq
<1>3. PICK b : b = SubSeq(q, 1, n)
  OBVIOUS
<1>4. /\ b \in Seq(S)
      /\ Len(b) = IF 1 <= n THEN n - 1 + 1 ELSE 0
      /\ \A i \in 1 .. n - 1 + 1 : b[i] = q[1 + i - 1]
  BY <1>2, <1>3, SubSeqProperties
<1>5. Len(b) = n /\ \A i \in 1 .. n : b[i] = q[i]
  BY <1>4
<1>6. DOMAIN b = 1 .. n
  BY <1>4, <1>5, LenProperties
<1>7. {i \in DOMAIN b : b[i] = k} = {i \in 1 .. n : q[i] = k}
  BY <1>5, <1>6
<1> QED
  BY <1>3, <1>7 DEF Copied

LEMMA Prescribed ==
  ASSUME DealAssumption, NEW w, NEW p, Made(w, p)
  PROVE  /\ Len(w.wall) = DeckSize - DeadWallSize - Dealt
         /\ Len(w.dead) = DeadWallSize
         /\ LET shown == Shown(w.dead)
                n == IF Len(shown) <= Len(p.dora) THEN Len(shown) ELSE Len(p.dora)
            IN  \A k \in Kinds : Copied(SubSeq(shown, 1, n), k) =
                                  Copied(SubSeq(p.dora, 1, n), k)
<1>0. SizeFacts
  BY Sizes
<1>1. PICK deck \in Decks : DrawsLaid(w, p, deck) /\ \E order : DeadLaid(w, p, deck, order)
  BY DEF Made
<1>2. PICK order : DeadLaid(w, p, deck, order)
  BY <1>1
<1>3. /\ Len(w.wall) = DeckSize - DeadWallSize - Dealt
      /\ Len(w.dead) = DeadWallSize
  BY <1>1, <1>2 DEF DrawsLaid, DeadLaid, Draws
<1>4. PICK dead \in Seq(Kinds) : dead = w.dead
  BY DEF Made, WallSet
<1>5. PICK dora \in Seq(Kinds) : dora = p.dora
  BY DEF Made, PinSet
<1>6. PICK m \in 0 .. 5 : /\ {n \in 1 .. 5 : Slot(n) <= DeadWallSize} = 1 .. m
                          /\ \A n \in Nat \ {0} : Slot(n) <= DeadWallSize <=> n <= m
  BY SlotsOf
<1>7. PICK shown : shown = Shown(dead)
  OBVIOUS
<1>8. shown = [i \in 1 .. m |-> dead[Slot(i)]]
  <2>1. Cardinality(1 .. m) = m
    <3>1. 1 \in Int /\ m \in Int /\ m >= 0
      BY <1>6
    <3>2. Cardinality(1 .. m) = IF 1 > m THEN 0 ELSE m - 1 + 1
      BY <3>1, FS_Interval
    <3> QED
      BY <3>1, <3>2
  <2>2. {n \in 1 .. 5 : Slot(n) <= Len(dead)} = 1 .. m
    BY <1>3, <1>4, <1>6
  <2> QED
    BY <1>7, <2>1, <2>2 DEF Shown
<1>9. shown \in Seq(Kinds) /\ Len(shown) = m
  <2>1. \A i \in 1 .. m : Slot(i) \in 1 .. DeadWallSize
    BY <1>6, <1>0 DEF Slot
  <2>2. DOMAIN dead = 1 .. DeadWallSize
    BY <1>3, <1>4, LenProperties
  <2>3. \A i \in 1 .. m : dead[Slot(i)] \in Kinds
    BY <2>1, <2>2, ElementOfSeq, <1>3, <1>4
  <2>4. shown \in [1 .. m -> Kinds]
    BY <1>8, <2>3
  <2> QED
    BY <2>4, IsASeq, LenProperties
<1>10. PICK l \in Nat : l = Len(dora) /\ DOMAIN dora = 1 .. l
  BY LenProperties
<1>11. PICK n \in Nat : n = IF m <= l THEN m ELSE l
  OBVIOUS
<1>12. Fits(dora) = 1 .. n
  BY <1>6, <1>10, <1>11 DEF Fits
<1>13. /\ order \in [1 .. n -> 1 .. n]
       /\ \A h, i \in 1 .. n : order[h] = order[i] => h = i
       /\ \A j \in 1 .. DeadWallSize :
            \/ \E h \in 1 .. n : j = Slot(h) /\ dead[j] = dora[order[h]]
            \/ \A h \in 1 .. n : j # Slot(h)
  BY <1>2, <1>4, <1>5, <1>12 DEF DeadLaid
<1>14. \A i \in 1 .. n : shown[i] = dora[order[i]]
  <2>1. ASSUME NEW i \in 1 .. n
        PROVE  shown[i] = dora[order[i]]
    <3>1. i \in 1 .. m
      BY <1>11
    <3>2. Slot(i) \in 1 .. DeadWallSize
      BY <1>6, <3>1, <1>0 DEF Slot
    <3>3. PICK h \in 1 .. n : Slot(i) = Slot(h) /\ dead[Slot(i)] = dora[order[h]]
      BY <1>13, <3>2
    <3>4. h = i
      BY <3>3 DEF Slot
    <3> QED
      BY <1>8, <3>1, <3>3, <3>4
  <2> QED
    BY <2>1
<1>15. ASSUME NEW k \in Kinds
       PROVE  Copied(SubSeq(shown, 1, n), k) = Copied(SubSeq(dora, 1, n), k)
  <2>1. Copied(SubSeq(shown, 1, n), k) = Cardinality({i \in 1 .. n : shown[i] = k})
    BY <1>9, <1>11, CopiedInPrefix
  <2>2. Copied(SubSeq(dora, 1, n), k) = Cardinality({i \in 1 .. n : dora[i] = k})
    BY <1>10, <1>11, CopiedInPrefix
  <2>3. PICK N : N = 1 .. n
    OBVIOUS
  <2>4. IsFiniteSet(N)
    BY <2>3, FS_Interval
  <2>5. PICK T : T = {i \in N : dora[i] = k}
    OBVIOUS
  <2>6. PICK U : U = {i \in N : shown[i] = k}
    OBVIOUS
  <2>7. order \in Injection(N, N)
    BY <1>13, <2>3 DEF Injection, IsInjective
  <2>8. order \in Surjection(N, N)
    BY <2>4, <2>7, FS_Injection
  <2>9. \A t \in N : \E i \in N : order[i] = t
    BY <2>8 DEF Surjection
  <2>10. \A i \in N : i \in U <=> order[i] \in T
    BY <1>13, <1>14, <2>3, <2>5, <2>6
  <2>11. PICK f : f = [i \in U |-> order[i]]
    OBVIOUS
  <2>12. f \in [U -> T] /\ DOMAIN f = U
    BY <2>6, <2>10, <2>11
  <2>13. f \in Injection(U, T)
    BY <1>13, <2>3, <2>6, <2>11, <2>12 DEF Injection, IsInjective
  <2>14. \A t \in T : \E i \in U : f[i] = t
    BY <2>5, <2>6, <2>9, <2>10, <2>11
  <2>15. f \in Surjection(U, T)
    BY <2>12, <2>14 DEF Surjection
  <2>16. IsFiniteSet(T)
    BY <2>4, <2>5, FS_Subset
  <2>17. Cardinality(U) = Cardinality(T)
    BY <2>13, <2>15, <2>16, FS_Injection
  <2> QED
    BY <2>1, <2>2, <2>3, <2>5, <2>6, <2>17
<1> QED
  BY <1>3, <1>4, <1>5, <1>7, <1>9, <1>10, <1>11, <1>15

\* However a preset pins it, a wall has as many draws and as long a dead wall as
\* a random one, and the indicators that are prescribed are those that are shown
\* first, in some order: for all presets and sizes the code allows.
THEOREM PinsAreKept ==
  ASSUME DealAssumption
  PROVE  Spec => []PinsHold
<1>1. DealInv => PinsHold
  BY Prescribed DEF DealInv, PinsHold
<1> QED
  BY <1>1, InitDeal, NextDeal, PTL DEF Spec
=============================================================================
