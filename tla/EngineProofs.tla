---------------------------- MODULE EngineProofs ----------------------------
(***************************************************************************)
(* Lemmas about the operators of Engine and Yaku, for every deck and hand  *)
(* length.                                                                 *)
(***************************************************************************)
EXTENDS Engine, SequenceTheorems, FiniteSetTheorems, TLAPS

(* removeTile and the two loops that drop tiles from a hand: the hand is   *)
(* shorter by one tile and still a sequence of tiles.                      *)
LEMMA WithoutShorter ==
  ASSUME NEW h \in Seq(Tile), NEW t, Holds(h, t)
  PROVE  /\ Without(h, t) \in Seq(Tile)
         /\ Len(Without(h, t)) = Len(h) - 1
<1> DEFINE k == CHOOSE i \in DOMAIN h : h[i] = t
           front == SubSeq(h, 1, k - 1)
           back == SubSeq(h, k + 1, Len(h))
<1>1. k \in 1 .. Len(h)
  BY LenProperties DEF Holds, Range
<1>2. Len(h) \in Nat /\ \A i \in 1 .. Len(h) : h[i] \in Tile
  OBVIOUS
<1> HIDE DEF k
<1>3. front \in Seq(Tile) /\ Len(front) = k - 1
  BY <1>1, <1>2, SubSeqProperties
<1>4. back \in Seq(Tile) /\ Len(back) = Len(h) - k
  BY <1>1, <1>2, SubSeqProperties
<1>5. front \o back \in Seq(Tile) /\ Len(front \o back) = Len(front) + Len(back)
  BY <1>3, <1>4, ConcatProperties
<1>6. Without(h, t) = front \o back
  BY DEF Without, RemoveAt, k
<1> HIDE DEF front, back
<1>7. Len(front) + Len(back) = Len(h) - 1
  BY <1>1, <1>2, <1>3, <1>4
<1> QED
  BY <1>5, <1>6, <1>7

(* Call takes from the hand one tile less than the meld has.               *)
LEMMA MeldedShorter ==
  ASSUME NEW h \in Seq(Tile), NEW t, NEW type \in MeldTypes, CanMeld(h, t, type)
  PROVE  /\ WithoutMelded(h, t, type) \in Seq(Tile)
         /\ Len(WithoutMelded(h, t, type)) = Len(h) - (MeldSize(type) - 1)
<1> DEFINE one == Without(h, t)
           two == Without(one, t)
<1>1. one \in Seq(Tile) /\ Len(one) = Len(h) - 1
  BY WithoutShorter DEF CanMeld
<1>2. Holds(one, t)
  BY DEF CanMeld
<1> HIDE DEF one
<1>3. two \in Seq(Tile) /\ Len(two) = Len(one) - 1
  BY <1>1, <1>2, WithoutShorter
<1>4. CASE type = "daiminkan"
  <2>1. Holds(two, t)
    BY <1>4 DEF CanMeld, one
  <2> HIDE DEF two
  <2>2. Without(two, t) \in Seq(Tile) /\ Len(Without(two, t)) = Len(two) - 1
    BY <1>3, <2>1, WithoutShorter
  <2>3. WithoutMelded(h, t, type) = Without(two, t)
    BY <1>4 DEF WithoutMelded, two, one
  <2> QED
    BY <1>1, <1>3, <1>4, <2>2, <2>3, LenProperties DEF MeldSize
<1>5. CASE type = "pon"
  <2>1. WithoutMelded(h, t, type) = two
    BY <1>5 DEF WithoutMelded, one
  <2> QED
    BY <1>1, <1>3, <1>5, <2>1, LenProperties DEF MeldSize
<1> QED
  BY <1>4, <1>5 DEF MeldTypes

(* One more meld is one more pon exactly when it is a pon.                 *)
LEMMA PonsAppended ==
  ASSUME NEW m \in Seq(Meld), NEW x \in Meld
  PROVE  /\ PonsIn(m) \in Nat
         /\ PonsIn(Append(m, x)) = PonsIn(m) + IF x.type = "pon" THEN 1 ELSE 0
<1> DEFINE P == {i \in DOMAIN m : m[i].type = "pon"}
           Q == {i \in DOMAIN Append(m, x) : Append(m, x)[i].type = "pon"}
           n == Len(m) + 1
<1>1. Len(m) \in Nat /\ DOMAIN m = 1 .. Len(m)
  OBVIOUS
<1>2. IsFiniteSet(P) /\ Cardinality(P) \in Nat
  <2>1. IsFiniteSet(1 .. Len(m))
    BY <1>1, FS_Interval
  <2> QED
    BY <1>1, <2>1, FS_Subset, FS_CardinalityType
<1>3. /\ DOMAIN Append(m, x) = 1 .. n
      /\ Append(m, x)[n] = x
      /\ \A i \in 1 .. Len(m) : Append(m, x)[i] = m[i]
  BY <1>1
<1>4. Q = IF x.type = "pon" THEN P \cup {n} ELSE P
  BY <1>1, <1>3
<1>5. n \notin P
  BY <1>1
<1>6. PonsIn(m) = Cardinality(P) /\ PonsIn(Append(m, x)) = Cardinality(Q)
  BY DEF PonsIn
<1> HIDE DEF P, Q, n
<1>7. Cardinality(P \cup {n}) = Cardinality(P) + 1
  BY <1>2, <1>5, FS_AddElement
<1> QED
  BY <1>2, <1>4, <1>6, <1>7

(* The payments are numbers of points, whatever the hand is worth.         *)
LEMMA PaymentTypes ==
  ASSUME NEW han \in Nat, NEW fu \in Nat, NEW dealer \in BOOLEAN
  PROVE  /\ RonPayment(han, fu, dealer) \in Nat
         /\ TsumoPayment(han, fu, dealer).dealer \in Nat
         /\ TsumoPayment(han, fu, dealer).nonDealer \in Nat
<1>1. LimitPayment(han).dealer \in Nat /\ LimitPayment(han).nonDealer \in Nat
  BY DEF LimitPayment
<1>2. Shifted(han) \in Nat
  BY DEF Shifted
<1>3. BasePoints(han, fu) \in Nat
  BY <1>2 DEF BasePoints
<1>4. \A p \in Nat : RoundUp(p) \in Nat
  BY DEF RoundUp
<1>5. \A p \in Nat : p \div 2 \in Nat /\ p \div 4 \in Nat
  OBVIOUS
<1> QED
  BY <1>1, <1>3, <1>4, <1>5 DEF RonPayment, TsumoPayment
-----------------------------------------------------------------------------
(* Types.                                                                  *)

LEMMA SeatFacts ==
  /\ Dealer \in Seat
  /\ Seat = {0, 1, 2, 3}
  /\ \A s \in Seat : NextSeat(s) \in Seat
  /\ \A s \in Seat, i \in 1 .. (NumPlayers - 1) :
       (NextSeat(s) + i - 1) % NumPlayers \in Seat
<1>1. Dealer \in Seat /\ Seat = {0, 1, 2, 3}
  BY DEF Dealer, Seat, NumPlayers
<1>2. \A s \in Seat : NextSeat(s) \in Seat
  BY DEF Seat, NumPlayers, NextSeat
<1>3. ASSUME NEW s \in Seat, NEW i \in 1 .. (NumPlayers - 1)
      PROVE  (NextSeat(s) + i - 1) % NumPlayers \in Seat
  <2>1. NextSeat(s) + i - 1 \in Int
    BY <1>2 DEF Seat, NumPlayers
  <2>2. \A n \in Int : n % 4 \in 0 .. 3
    OBVIOUS
  <2> QED
    BY <2>1, <2>2 DEF Seat, NumPlayers
<1> QED
  BY <1>1, <1>2, <1>3

LEMMA Updated ==
  ASSUME NEW S, NEW f \in [Seat -> S], NEW s \in Seat, NEW v \in S
  PROVE  [f EXCEPT ![s] = v] \in [Seat -> S]
OBVIOUS

LEMMA SumType == ASSUME NEW f \in [Seat -> Int] PROVE Sum(f) \in Int
BY SeatFacts DEF Sum

\* The settlements keep the scores numbers.
LEMMA TsumoType ==
  ASSUME NEW s \in Seat, NEW v \in Values, scores \in [Seat -> Int],
         ResolveTsumo(s, v)
  PROVE  scores' \in [Seat -> Int]
<1>1. v.han \in Nat /\ v.fu \in Nat
  BY EngineAssumption
<1>2. \A i \in Seat : TsumoShare(i, s, v) \in Int
  <2>1. (s = Dealer) \in BOOLEAN
    OBVIOUS
  <2>2. /\ TsumoPayment(v.han, v.fu, s = Dealer).dealer \in Nat
        /\ TsumoPayment(v.han, v.fu, s = Dealer).nonDealer \in Nat
    BY <1>1, <2>1, PaymentTypes
  <2> QED
    BY <2>2 DEF TsumoShare
<1> DEFINE share == [i \in Seat |-> TsumoShare(i, s, v)]
<1>3. share \in [Seat -> Int]
  BY <1>2
<1>4. Sum(share) \in Int
  BY <1>3, SumType
<1>5. CASE v.han <= 0
  BY <1>5 DEF ResolveTsumo
<1>6. CASE ~(v.han <= 0)
  <2>1. scores' = [i \in Seat |-> IF i = s THEN scores[i] + Sum(share)
                                           ELSE scores[i] - share[i]]
    BY <1>6 DEF ResolveTsumo
  <2> HIDE DEF share
  <2> QED
    BY <1>3, <1>4, <2>1
<1> QED
  BY <1>5, <1>6

LEMMA RonType ==
  ASSUME NEW s \in Seat, NEW from \in Seat, NEW v \in Values,
         scores \in [Seat -> Int], ResolveRon(s, from, v)
  PROVE  scores' \in [Seat -> Int]
<1>1. v.han \in Nat /\ v.fu \in Nat
  BY EngineAssumption
<1>2. RonShare(from, s, v) \in Int
  <2>1. RonPayment(v.han, v.fu, s = Dealer) \in Nat
    BY <1>1, PaymentTypes
  <2> QED
    BY <2>1 DEF RonShare
<1>3. CASE v.han <= 0
  BY <1>3 DEF ResolveRon
<1>4. CASE ~(v.han <= 0)
  BY <1>2, <1>4 DEF ResolveRon
<1> QED
  BY <1>3, <1>4

\* Each operation keeps the types of the round.
LEMMA StartType == ASSUME EngineTypeOK, Start PROVE EngineTypeOK'
<1> USE DEF EngineTypeOK
<1>1. wall.DealerExtra \in Tile
  BY EngineAssumption DEF Wall
<1>2. Append(hand[Dealer], wall.DealerExtra) \in Seq(Tile)
  BY <1>1, SeatFacts, AppendProperties
<1>3. hand' \in [Seat -> Seq(Tile)]
  BY <1>2, SeatFacts, Updated DEF Start
<1> QED
  BY <1>3, SeatFacts DEF Start

LEMMA DrawType ==
  ASSUME EngineTypeOK, Draw
  PROVE  EngineTypeOK' /\ Head(leftWall) \in Tile
<1> USE DEF EngineTypeOK
<1>1. Head(leftWall) \in Tile /\ Tail(leftWall) \in Seq(Tile)
  BY HeadTailProperties DEF Draw
<1>2. Append(hand[current], Head(leftWall)) \in Seq(Tile)
  BY <1>1, AppendProperties
<1>3. hand' \in [Seat -> Seq(Tile)]
  BY <1>2, Updated DEF Draw
<1> QED
  BY <1>1, <1>3 DEF Draw

LEMMA DiscardType ==
  ASSUME EngineTypeOK, NEW t, Discard(t)
  PROVE  EngineTypeOK' /\ t \in Tile
<1> USE DEF EngineTypeOK
<1>1. Holds(hand[current], t)
  BY DEF Discard, CanDiscard
<1>2. t \in Tile
  BY <1>1 DEF Holds, Range
<1>3. Without(hand[current], t) \in Seq(Tile)
  BY <1>1, WithoutShorter
<1>4. hand' \in [Seat -> Seq(Tile)]
  BY <1>3, Updated DEF Discard
<1>5. Append(discards[current], t) \in Seq(Tile)
  BY <1>2, AppendProperties
<1>6. discards' \in [Seat -> Seq(Tile)]
  BY <1>5, Updated DEF Discard
<1> QED
  BY <1>2, <1>4, <1>6, SeatFacts DEF Discard

LEMMA RiichiType ==
  ASSUME EngineTypeOK, NEW t, DeclareRiichi(t)
  PROVE  EngineTypeOK' /\ t \in Tile
<1> USE DEF EngineTypeOK
<1>1. Holds(hand[current], t)
  BY DEF DeclareRiichi, CanRiichi
<1>2. t \in Tile
  BY <1>1 DEF Holds, Range
<1>3. Without(hand[current], t) \in Seq(Tile)
  BY <1>1, WithoutShorter
<1>4. hand' \in [Seat -> Seq(Tile)]
  BY <1>3, Updated DEF DeclareRiichi
<1>5. Append(discards[current], t) \in Seq(Tile)
  BY <1>2, AppendProperties
<1>6. discards' \in [Seat -> Seq(Tile)]
  BY <1>5, Updated DEF DeclareRiichi
<1>7. scores' \in [Seat -> Int] /\ riichiStick' \in Nat
  <2>1. scores[current] - 1000 \in Int
    OBVIOUS
  <2> QED
    BY <2>1, Updated DEF DeclareRiichi
<1>8. riichi' \in [Seat -> BOOLEAN]
  BY Updated DEF DeclareRiichi
<1>9. doubleRiichi' \in [Seat -> BOOLEAN]
  <2>1. (doubleRiichi[current] \/ (discards[current] = << >> /\ ~AnyMeld))
          \in BOOLEAN
    OBVIOUS
  <2> QED
    BY <2>1, Updated DEF DeclareRiichi
<1>10. current' \in Seat /\ UNCHANGED <<wall, melds, winner, leftWall, phase>>
  BY SeatFacts, ZenonT(30) DEF DeclareRiichi
<1> QED
  BY <1>2, <1>4, <1>6, <1>7, <1>8, <1>9, <1>10

LEMMA CallType ==
  ASSUME EngineTypeOK, NEW s \in Seat, NEW t \in Tile, NEW type \in MeldTypes,
         Call(s, t, type)
  PROVE  EngineTypeOK'
<1> USE DEF EngineTypeOK
<1>1. WithoutMelded(hand[s], t, type) \in Seq(Tile)
  BY MeldedShorter DEF Call
<1>2. hand' \in [Seat -> Seq(Tile)]
  BY <1>1, Updated DEF Call
<1>3. [type |-> type, tile |-> t] \in Meld
  BY DEF Meld
<1>4. Append(melds[s], [type |-> type, tile |-> t]) \in Seq(Meld)
  BY <1>3, AppendProperties
<1>5. melds' \in [Seat -> Seq(Meld)]
  BY <1>4, Updated DEF Call
<1> QED
  BY <1>2, <1>5 DEF Call
-----------------------------------------------------------------------------
(* Points.                                                                 *)

\* Adding to one seat's points adds to their sum.
LEMMA SumAdded ==
  ASSUME NEW f \in [Seat -> Int], NEW s \in Seat, NEW d \in Int
  PROVE  Sum([f EXCEPT ![s] = @ + d]) = Sum(f) + d
<1>1. /\ f[0] \in Int /\ f[1] \in Int /\ f[2] \in Int /\ f[3] \in Int
      /\ s = 0 \/ s = 1 \/ s = 2 \/ s = 3
  BY SeatFacts
<1>2. \A i \in Seat : [f EXCEPT ![s] = @ + d][i] = IF i = s THEN f[i] + d ELSE f[i]
  OBVIOUS
<1> QED
  BY <1>1, <1>2, SeatFacts DEF Sum

\* A declaration takes a stick's worth from the declarer.
LEMMA RiichiPays ==
  ASSUME EngineTypeOK, NEW t, DeclareRiichi(t)
  PROVE  Sum(scores') + 1000 * riichiStick' = Sum(scores) + 1000 * riichiStick
<1>1. scores \in [Seat -> Int] /\ current \in Seat /\ riichiStick \in Nat
  BY DEF EngineTypeOK
<1> DEFINE d == -1000
<1>2. d \in Int
  OBVIOUS
<1>3. scores' = [scores EXCEPT ![current] = @ + d]
  BY <1>1, ZenonT(30) DEF DeclareRiichi
<1> HIDE DEF d
<1>4. Sum(scores') = Sum(scores) + d
  BY <1>1, <1>2, <1>3, SumAdded
<1>5. riichiStick' = riichiStick + 1
  BY DEF DeclareRiichi
<1>6. Sum(scores) \in Int
  BY <1>1, SumType
<1> QED
  BY <1>1, <1>4, <1>5, <1>6 DEF d

\* What a ron takes from the discarder it gives to the winner.
LEMMA RonKeepsSum ==
  ASSUME NEW s \in Seat, NEW from \in Seat \ {s}, NEW v \in Values,
         scores \in [Seat -> Int], ResolveRon(s, from, v)
  PROVE  Sum(scores') = Sum(scores)
<1> DEFINE due == RonShare(from, s, v)
           paid == [scores EXCEPT ![from] = @ - due]
<1>1. due \in Int
  <2>1. v.han \in Nat /\ v.fu \in Nat /\ (s = Dealer) \in BOOLEAN
    BY EngineAssumption
  <2>2. RonPayment(v.han, v.fu, s = Dealer) \in Nat
    BY <2>1, PaymentTypes
  <2> QED
    BY <2>2 DEF RonShare
<1> HIDE DEF due
<1>2. paid \in [Seat -> Int] /\ Sum(paid) = Sum(scores) + (-due)
  <2>1. -due \in Int
    BY <1>1
  <2>2. Sum([scores EXCEPT ![from] = @ + (-due)]) = Sum(scores) + (-due)
    BY <2>1, SumAdded
  <2>3. paid = [scores EXCEPT ![from] = @ + (-due)]
    BY <1>1
  <2> QED
    BY <1>1, <2>2, <2>3
<1>3. Sum([paid EXCEPT ![s] = @ + due]) = Sum(paid) + due
  <2> HIDE DEF paid
  <2> QED
    BY <1>1, <1>2, SumAdded
<1>4. CASE v.han <= 0
  BY <1>4 DEF ResolveRon
<1>5. CASE ~(v.han <= 0)
  <2>1. scores' = [paid EXCEPT ![s] = @ + due]
    <3>1. scores' = [scores EXCEPT ![from] = @ - due, ![s] = @ + due]
      BY <1>5 DEF ResolveRon, due
    <3> QED
      BY <1>1, <3>1
  <2>2. Sum(scores) \in Int
    BY SumType
  <2> QED
    BY <1>1, <1>2, <1>3, <2>1, <2>2
<1> QED
  BY <1>4, <1>5

\* The winner of a self-drawn tile gets what the others pay.
LEMMA TsumoKeepsSum ==
  ASSUME NEW s \in Seat, NEW v \in Values, scores \in [Seat -> Int],
         ResolveTsumo(s, v)
  PROVE  Sum(scores') = Sum(scores)
<1> DEFINE share == [i \in Seat |-> TsumoShare(i, s, v)]
<1>1. \A i \in Seat : TsumoShare(i, s, v) \in Int
  <2>1. v.han \in Nat /\ v.fu \in Nat /\ (s = Dealer) \in BOOLEAN
    BY EngineAssumption
  <2>2. /\ TsumoPayment(v.han, v.fu, s = Dealer).dealer \in Nat
        /\ TsumoPayment(v.han, v.fu, s = Dealer).nonDealer \in Nat
    BY <2>1, PaymentTypes
  <2> QED
    BY <2>2 DEF TsumoShare
<1>2. share \in [Seat -> Int] /\ share[s] = 0
  BY <1>1 DEF TsumoShare
<1>3. CASE v.han <= 0
  BY <1>3 DEF ResolveTsumo
<1>4. CASE ~(v.han <= 0)
  <2>1. scores' = [i \in Seat |-> IF i = s THEN scores[i] + Sum(share)
                                           ELSE scores[i] - share[i]]
    BY <1>4 DEF ResolveTsumo
  <2> HIDE DEF share
  <2>2. \A i \in Seat : scores[i] \in Int /\ share[i] \in Int
    BY <1>2
  <2>3. Sum(share) \in Int
    BY <1>2, SumType
  <2>4. \A i \in Seat : scores'[i] = IF i = s THEN scores[i] + Sum(share)
                                              ELSE scores[i] - share[i]
    BY <2>1
  <2>5. s = 0 \/ s = 1 \/ s = 2 \/ s = 3
    BY SeatFacts
  <2> QED
    BY <1>2, <2>2, <2>3, <2>4, <2>5, SeatFacts DEF Sum
<1> QED
  BY <1>3, <1>4
-----------------------------------------------------------------------------
(* The copies of a tile in hands, piles and melds.                         *)

\* A sequence's copies of a tile are finitely many.
LEMMA CountType ==
  ASSUME NEW S, NEW h \in Seq(S), NEW t
  PROVE  /\ IsFiniteSet({i \in DOMAIN h : h[i] = t})
         /\ Count(h, t) \in Nat
<1>1. DOMAIN h = 1 .. Len(h) /\ Len(h) \in Nat
  OBVIOUS
<1>2. IsFiniteSet(1 .. Len(h))
  BY <1>1, FS_Interval
<1>3. {i \in DOMAIN h : h[i] = t} \in SUBSET (1 .. Len(h))
  BY <1>1
<1> QED
  BY <1>2, <1>3, FS_Subset, FS_CardinalityType DEF Count

LEMMA CountEmpty ==
  ASSUME NEW t PROVE Count(<< >>, t) = 0
<1>1. {i \in DOMAIN << >> : << >>[i] = t} = {}
  OBVIOUS
<1> QED
  BY <1>1, FS_EmptySet DEF Count

LEMMA CountOne ==
  ASSUME NEW x, NEW t PROVE Count(<<x>>, t) = IF x = t THEN 1 ELSE 0
<1> DEFINE P == {i \in DOMAIN <<x>> : <<x>>[i] = t}
<1>1. P = IF x = t THEN {1} ELSE {}
  OBVIOUS
<1>2. Cardinality({1}) = 1 /\ Cardinality({}) = 0
  BY FS_Singleton, FS_EmptySet
<1>3. Count(<<x>>, t) = Cardinality(P)
  BY DEF Count
<1> HIDE DEF P
<1> QED
  BY <1>1, <1>2, <1>3

LEMMA CountAppended ==
  ASSUME NEW S, NEW h \in Seq(S), NEW x \in S, NEW t
  PROVE  Count(Append(h, x), t) = Count(h, t) + IF x = t THEN 1 ELSE 0
<1> DEFINE P == {i \in DOMAIN h : h[i] = t}
           Q == {i \in DOMAIN Append(h, x) : Append(h, x)[i] = t}
           n == Len(h) + 1
<1>1. Len(h) \in Nat /\ DOMAIN h = 1 .. Len(h)
  OBVIOUS
<1>2. IsFiniteSet(P) /\ Count(h, t) = Cardinality(P) /\ Cardinality(P) \in Nat
  BY CountType DEF Count
<1>3. /\ DOMAIN Append(h, x) = 1 .. n
      /\ Append(h, x)[n] = x
      /\ \A i \in 1 .. Len(h) : Append(h, x)[i] = h[i]
  BY <1>1
<1>4. Q = IF x = t THEN P \cup {n} ELSE P
  BY <1>1, <1>3
<1>5. n \notin P
  BY <1>1
<1>6. Count(Append(h, x), t) = Cardinality(Q)
  BY DEF Count
<1> HIDE DEF P, Q, n
<1>7. Cardinality(P \cup {n}) = Cardinality(P) + 1
  BY <1>2, <1>5, FS_AddElement
<1> QED
  BY <1>2, <1>4, <1>6, <1>7

\* A sequence without its k-th element has one copy less of that.
LEMMA CountRemoved ==
  ASSUME NEW h \in Seq(Tile), NEW k \in 1 .. Len(h), NEW w \in Seq(Tile),
         Len(w) = Len(h) - 1,
         \A j \in 1 .. Len(w) : w[j] = IF j < k THEN h[j] ELSE h[j + 1],
         NEW t
  PROVE  Count(w, t) = Count(h, t) - IF h[k] = t THEN 1 ELSE 0
<1> DEFINE H == {i \in DOMAIN h : h[i] = t}
           P == H \ {k}
           Q == {j \in DOMAIN w : w[j] = t}
           f == [i \in P |-> IF i < k THEN i ELSE i - 1]
<1>1. /\ Len(h) \in Nat /\ DOMAIN h = 1 .. Len(h)
      /\ Len(w) \in Nat /\ DOMAIN w = 1 .. Len(w) /\ k \in Nat
  OBVIOUS
<1>2. IsFiniteSet(H) /\ Count(h, t) = Cardinality(H) /\ Cardinality(H) \in Nat
  BY CountType DEF Count
<1>3. IsFiniteSet(P)
      /\ Cardinality(P) = IF h[k] = t THEN Cardinality(H) - 1 ELSE Cardinality(H)
  <2>1. k \in H <=> h[k] = t
    BY <1>1
  <2> HIDE DEF H
  <2> QED
    BY <1>2, <2>1, FS_RemoveElement
<1>4. f \in Bijection(P, Q)
  <2>1. ASSUME NEW i \in P PROVE f[i] \in Q
    <3>1. i \in 1 .. Len(h) /\ h[i] = t /\ i # k
      BY <1>1
    <3>2. CASE i < k
      BY <1>1, <3>1, <3>2
    <3>3. CASE ~(i < k)
      <4>1. i - 1 \in 1 .. Len(w) /\ ~(i - 1 < k) /\ (i - 1) + 1 = i
        BY <1>1, <3>1, <3>3
      <4>2. w[i - 1] = h[i]
        BY <4>1
      <4> QED
        BY <1>1, <3>1, <3>3, <4>1, <4>2
    <3> QED
      BY <3>2, <3>3
  <2>2. ASSUME NEW i \in P, NEW j \in P, f[i] = f[j] PROVE i = j
    <3>1. i \in 1 .. Len(h) /\ i # k /\ j \in 1 .. Len(h) /\ j # k
      BY <1>1
    <3> QED
      BY <1>1, <2>2, <3>1
  <2>3. ASSUME NEW j \in Q PROVE \E i \in P : f[i] = j
    <3>1. j \in 1 .. Len(w) /\ w[j] = t
      BY <1>1
    <3>2. CASE j < k
      <4>1. j \in P /\ f[j] = j
        BY <1>1, <3>1, <3>2
      <4> QED
        BY <4>1
    <3>3. CASE ~(j < k)
      <4>1. j + 1 \in 1 .. Len(h) /\ ~(j + 1 < k) /\ j + 1 # k /\ (j + 1) - 1 = j
        BY <1>1, <3>1, <3>3
      <4>2. h[j + 1] = t
        BY <3>1, <3>3
      <4>3. j + 1 \in P
        BY <1>1, <4>1, <4>2
      <4>4. f[j + 1] = j
        BY <4>1, <4>3
      <4> QED
        BY <4>3, <4>4
    <3> QED
      BY <3>2, <3>3
  <2>4. f \in [P -> Q]
    BY <2>1
  <2> HIDE DEF f, P, Q
  <2> QED
    BY <2>2, <2>3, <2>4 DEF Bijection, Injection, Surjection, IsInjective
<1>5. Cardinality(Q) = Cardinality(P)
  <2> HIDE DEF f, P, Q
  <2> QED
    BY <1>3, <1>4, FS_Bijection DEF ExistsBijection
<1>6. Count(w, t) = Cardinality(Q)
  BY DEF Count
<1> HIDE DEF H, P, Q
<1> QED
  BY <1>2, <1>3, <1>5, <1>6

LEMMA CountHeadTail ==
  ASSUME NEW h \in Seq(Tile), h # << >>, NEW t
  PROVE  Count(Tail(h), t) = Count(h, t) - IF Head(h) = t THEN 1 ELSE 0
<1>1. /\ Tail(h) \in Seq(Tile) /\ Len(Tail(h)) = Len(h) - 1 /\ 1 \in 1 .. Len(h)
      /\ Head(h) = h[1]
      /\ \A j \in 1 .. Len(Tail(h)) : Tail(h)[j] = h[j + 1] /\ ~(j < 1)
  BY HeadTailProperties
<1> DEFINE w == Tail(h)
<1> HIDE DEF w
<1>2. /\ w \in Seq(Tile) /\ Len(w) = Len(h) - 1
      /\ \A j \in 1 .. Len(w) : w[j] = IF j < 1 THEN h[j] ELSE h[j + 1]
  BY <1>1 DEF w
<1>3. Count(w, t) = Count(h, t) - IF h[1] = t THEN 1 ELSE 0
  <2>1. PICK k \in 1 .. Len(h) : k = 1
    BY <1>1
  <2>2. w \in Seq(Tile) /\ Len(w) = Len(h) - 1
    BY <1>2
  <2>3. \A j \in 1 .. Len(w) : w[j] = IF j < k THEN h[j] ELSE h[j + 1]
    BY <1>2, <2>1
  <2>4. Count(w, t) = Count(h, t) - IF h[k] = t THEN 1 ELSE 0
    BY <2>2, <2>3, CountRemoved
  <2> QED
    BY <2>1, <2>4
<1> QED
  BY <1>1, <1>3 DEF w

\* removeTile takes one copy of the tile, and of no other.
LEMMA CountWithout ==
  ASSUME NEW h \in Seq(Tile), NEW x, Holds(h, x), NEW t
  PROVE  Count(Without(h, x), t) = Count(h, t) - IF x = t THEN 1 ELSE 0
<1> DEFINE k == CHOOSE i \in DOMAIN h : h[i] = x
           front == SubSeq(h, 1, k - 1)
           back == SubSeq(h, k + 1, Len(h))
           w == front \o back
<1>1. k \in 1 .. Len(h) /\ h[k] = x
  BY LenProperties DEF Holds, Range
<1>2. Len(h) \in Nat /\ \A i \in 1 .. Len(h) : h[i] \in Tile
  OBVIOUS
<1> HIDE DEF k
<1>3. /\ front \in Seq(Tile) /\ Len(front) = k - 1
      /\ \A j \in 1 .. k - 1 : front[j] = h[j]
  BY <1>1, <1>2, SubSeqProperties
<1>4. /\ back \in Seq(Tile) /\ Len(back) = Len(h) - k
      /\ \A j \in 1 .. Len(h) - k : back[j] = h[k + j]
  BY <1>1, <1>2, SubSeqProperties
<1>5. Without(h, x) = w
  BY DEF Without, RemoveAt, k
<1> HIDE DEF front, back
<1>6. /\ w \in Seq(Tile) /\ Len(w) = Len(h) - 1
      /\ \A j \in 1 .. Len(w) : w[j] = IF j <= Len(front) THEN front[j]
                                                          ELSE back[j - Len(front)]
  <2>1. /\ w \in Seq(Tile) /\ Len(w) = Len(front) + Len(back)
        /\ \A j \in 1 .. Len(front) + Len(back) :
             w[j] = IF j <= Len(front) THEN front[j] ELSE back[j - Len(front)]
    BY <1>3, <1>4, ConcatProperties
  <2> QED
    BY <1>1, <1>2, <1>3, <1>4, <2>1
<1> HIDE DEF w
<1>7. ASSUME NEW j \in 1 .. Len(w)
      PROVE  w[j] = IF j < k THEN h[j] ELSE h[j + 1]
  <2>1. CASE j < k
    BY <1>1, <1>3, <1>6, <2>1
  <2>2. CASE ~(j < k)
    <3>1. j - (k - 1) \in 1 .. Len(h) - k /\ k + (j - (k - 1)) = j + 1
      BY <1>1, <1>2, <1>6, <2>2
    <3>2. w[j] = back[j - (k - 1)]
      BY <1>1, <1>3, <1>6, <2>2
    <3> QED
      BY <1>4, <2>2, <3>1, <3>2
  <2> QED
    BY <2>1, <2>2
<1>8. Count(w, t) = Count(h, t) - IF h[k] = t THEN 1 ELSE 0
  <2>1. w \in Seq(Tile) /\ Len(w) = Len(h) - 1
    BY <1>6
  <2>2. \A j \in 1 .. Len(w) : w[j] = IF j < k THEN h[j] ELSE h[j + 1]
    BY <1>7
  <2>3. k \in 1 .. Len(h)
    BY <1>1
  <2> QED
    BY <2>1, <2>2, <2>3, CountRemoved
<1> QED
  BY <1>1, <1>5, <1>8

\* The melds of a size and a tile, one of which a claim adds.
MeldsOf(m, t, n) ==
  Cardinality({i \in DOMAIN m : m[i].tile = t /\ MeldSize(m[i].type) = n})

MeldTiles(m, t) == 3 * MeldsOf(m, t, 3) + 4 * MeldsOf(m, t, 4)

LEMMA MeldsAppended ==
  ASSUME NEW m \in Seq(Meld), NEW x \in Meld, NEW t, NEW n
  PROVE  /\ MeldsOf(m, t, n) \in Nat
         /\ MeldsOf(Append(m, x), t, n)
              = MeldsOf(m, t, n) + IF x.tile = t /\ MeldSize(x.type) = n THEN 1 ELSE 0
<1> DEFINE P == {i \in DOMAIN m : m[i].tile = t /\ MeldSize(m[i].type) = n}
           a == Append(m, x)
           Q == {i \in DOMAIN a : a[i].tile = t /\ MeldSize(a[i].type) = n}
           k == Len(m) + 1
<1>1. Len(m) \in Nat /\ DOMAIN m = 1 .. Len(m)
  OBVIOUS
<1>2. IsFiniteSet(P) /\ Cardinality(P) \in Nat
  <2>1. IsFiniteSet(1 .. Len(m))
    BY <1>1, FS_Interval
  <2> QED
    BY <1>1, <2>1, FS_Subset, FS_CardinalityType
<1>3. DOMAIN a = 1 .. k /\ a[k] = x /\ \A i \in 1 .. Len(m) : a[i] = m[i]
  BY <1>1
<1> HIDE DEF a
<1>4. Q = IF x.tile = t /\ MeldSize(x.type) = n THEN P \cup {k} ELSE P
  BY <1>1, <1>3
<1>5. k \notin P
  BY <1>1
<1>6. MeldsOf(m, t, n) = Cardinality(P) /\ MeldsOf(a, t, n) = Cardinality(Q)
  BY DEF MeldsOf
<1> HIDE DEF P, Q, k
<1>7. Cardinality(P \cup {k}) = Cardinality(P) + 1
  BY <1>2, <1>5, FS_AddElement
<1> QED
  BY <1>2, <1>4, <1>6, <1>7 DEF a

\* A claim counts all of it in the meld.
LEMMA MeldTilesAppended ==
  ASSUME NEW m \in Seq(Meld), NEW type \in MeldTypes, NEW x \in Tile, NEW t
  PROVE  /\ MeldTiles(m, t) \in Nat
         /\ MeldTiles(Append(m, [type |-> type, tile |-> x]), t)
              = MeldTiles(m, t) + IF x = t THEN MeldSize(type) ELSE 0
<1> DEFINE y == [type |-> type, tile |-> x]
<1>1. y \in Meld /\ y.type = type /\ y.tile = x
  BY DEF Meld
<1> HIDE DEF y
<1>2. /\ MeldsOf(m, t, 3) \in Nat /\ MeldsOf(m, t, 4) \in Nat
      /\ MeldsOf(Append(m, y), t, 3)
           = MeldsOf(m, t, 3) + IF x = t /\ MeldSize(type) = 3 THEN 1 ELSE 0
      /\ MeldsOf(Append(m, y), t, 4)
           = MeldsOf(m, t, 4) + IF x = t /\ MeldSize(type) = 4 THEN 1 ELSE 0
  BY <1>1, MeldsAppended
<1>3. MeldSize(type) = 3 \/ MeldSize(type) = 4
  BY DEF MeldSize
<1>4. MeldTiles(Append(m, y), t)
        = MeldTiles(m, t) + IF x = t THEN MeldSize(type) ELSE 0
  BY <1>2, <1>3 DEF MeldTiles
<1> QED
  BY <1>2, <1>4 DEF MeldTiles, y

LEMMA CountMelded ==
  ASSUME NEW h \in Seq(Tile), NEW x, NEW type \in MeldTypes, CanMeld(h, x, type),
         NEW t
  PROVE  Count(WithoutMelded(h, x, type), t)
           = Count(h, t) - IF x = t THEN MeldSize(type) - 1 ELSE 0
<1> DEFINE one == Without(h, x)
           two == Without(one, x)
<1>0. Count(h, t) \in Nat
  BY CountType
<1>1. one \in Seq(Tile) /\ Count(one, t) = Count(h, t) - IF x = t THEN 1 ELSE 0
  BY WithoutShorter, CountWithout DEF CanMeld
<1>2. Holds(one, x)
  BY DEF CanMeld
<1> HIDE DEF one
<1>3. two \in Seq(Tile) /\ Count(two, t) = Count(one, t) - IF x = t THEN 1 ELSE 0
  BY <1>1, <1>2, WithoutShorter, CountWithout
<1>4. CASE type = "daiminkan"
  <2>1. Holds(two, x)
    BY <1>4 DEF CanMeld, one
  <2>2. WithoutMelded(h, x, type) = Without(two, x)
    BY <1>4 DEF WithoutMelded, one
  <2> HIDE DEF two
  <2>3. Count(Without(two, x), t) = Count(two, t) - IF x = t THEN 1 ELSE 0
    BY <1>3, <2>1, CountWithout
  <2> QED
    BY <1>0, <1>1, <1>3, <1>4, <2>2, <2>3 DEF MeldSize
<1>5. CASE type = "pon"
  <2>1. WithoutMelded(h, x, type) = two
    BY <1>5 DEF WithoutMelded, one
  <2> HIDE DEF two
  <2> QED
    BY <1>0, <1>1, <1>3, <1>5, <2>1 DEF MeldSize
<1> QED
  BY <1>4, <1>5 DEF MeldTypes

\* The copies of a tile the seats have among them.
OnTable(t) == Sum([s \in Seat |-> AtSeat(s, t)])

LEMMA AtSeatType ==
  ASSUME EngineTypeOK, NEW t
  PROVE  /\ [s \in Seat |-> AtSeat(s, t)] \in [Seat -> Int]
         /\ OnTable(t) \in Int
         /\ \A s \in Seat : /\ Count(hand[s], t) \in Nat /\ Count(discards[s], t) \in Nat
                            /\ MeldTiles(melds[s], t) \in Nat
                            /\ AtSeat(s, t) = Count(hand[s], t) + Count(discards[s], t)
                                                + MeldTiles(melds[s], t)
<1>1. ASSUME NEW s \in Seat
      PROVE  /\ Count(hand[s], t) \in Nat /\ Count(discards[s], t) \in Nat
             /\ MeldTiles(melds[s], t) \in Nat
             /\ AtSeat(s, t) = Count(hand[s], t) + Count(discards[s], t)
                                 + MeldTiles(melds[s], t)
  <2>1. hand[s] \in Seq(Tile) /\ discards[s] \in Seq(Tile) /\ melds[s] \in Seq(Meld)
    BY DEF EngineTypeOK
  <2>2. Count(hand[s], t) \in Nat /\ Count(discards[s], t) \in Nat
    BY <2>1, CountType
  <2>3. MeldsOf(melds[s], t, 3) \in Nat /\ MeldsOf(melds[s], t, 4) \in Nat
    <3>1. ASSUME NEW n PROVE MeldsOf(melds[s], t, n) \in Nat
      <4>0. Len(melds[s]) \in Nat /\ DOMAIN melds[s] = 1 .. Len(melds[s])
        BY <2>1
      <4>1. IsFiniteSet(1 .. Len(melds[s]))
        BY <4>0, FS_Interval
      <4>2. {i \in DOMAIN melds[s] : /\ melds[s][i].tile = t
                                     /\ MeldSize(melds[s][i].type) = n}
              \in SUBSET (1 .. Len(melds[s]))
        BY <4>0
      <4> QED
        BY <4>1, <4>2, FS_Subset, FS_CardinalityType DEF MeldsOf
    <3> QED
      BY <3>1
  <2>4. InMelds(s, t) = MeldTiles(melds[s], t)
    BY DEF InMelds, MeldTiles, MeldsOf
  <2> QED
    BY <2>2, <2>3, <2>4 DEF AtSeat, MeldTiles
<1>2. \A s \in Seat : AtSeat(s, t) \in Int
  BY <1>1
<1> QED
  BY <1>1, <1>2, SumType DEF OnTable

\* What changes at one seat changes the sum.
LEMMA OneSeatChanges ==
  ASSUME EngineTypeOK, EngineTypeOK', NEW t, NEW c \in Seat, NEW d \in Int,
         \A s \in Seat \ {c} : UNCHANGED <<hand[s], discards[s], melds[s]>>,
         Count(hand'[c], t) + Count(discards'[c], t) + MeldTiles(melds'[c], t)
           = Count(hand[c], t) + Count(discards[c], t) + MeldTiles(melds[c], t) + d
  PROVE  OnTable(t)' = OnTable(t) + d
<1> DEFINE f == [s \in Seat |-> AtSeat(s, t)]
           g == [s \in Seat |-> AtSeat(s, t)']
<1>1. /\ f \in [Seat -> Int]
      /\ \A s \in Seat : AtSeat(s, t) = Count(hand[s], t) + Count(discards[s], t)
                                          + MeldTiles(melds[s], t)
  BY AtSeatType
<1>2. \A s \in Seat : AtSeat(s, t)' = Count(hand'[s], t) + Count(discards'[s], t)
                                        + MeldTiles(melds'[s], t)
  <2>1. ASSUME NEW s \in Seat PROVE InMelds(s, t)' = MeldTiles(melds'[s], t)
    BY DEF InMelds, MeldTiles, MeldsOf
  <2> QED
    BY <2>1 DEF AtSeat
<1>3. \A s \in Seat : g[s] = IF s = c THEN f[s] + d ELSE f[s]
  BY <1>1, <1>2
<1>4. g = [f EXCEPT ![c] = @ + d]
  BY <1>1, <1>3
<1>5. OnTable(t)' = Sum(g)
  BY DEF OnTable, Sum
<1> HIDE DEF f, g
<1>6. Sum(g) = Sum(f) + d
  BY <1>1, <1>4, SumAdded
<1> QED
  BY <1>5, <1>6 DEF OnTable, f

-----------------------------------------------------------------------------
(* Where the tiles go. *)

\* Engine.Start, Draw, Discard, DeclareRiichi and Call move tiles between the
\* wall and the seats.
LEMMA StartMoves ==
  ASSUME EngineTypeOK, Start, NEW t
  PROVE  OnTable(t)' + Count(leftWall', t)
           = OnTable(t) + Count(leftWall, t) + Count(<<wall.DealerExtra>>, t)
<1> DEFINE x == wall.DealerExtra
           d == IF x = t THEN 1 ELSE 0
<1>1. x \in Tile /\ hand[Dealer] \in Seq(Tile) /\ Dealer \in Seat /\ leftWall \in Seq(Tile)
  BY EngineAssumption, SeatFacts DEF EngineTypeOK, Wall
<1>2. /\ hand' = [hand EXCEPT ![Dealer] = Append(@, x)]
      /\ UNCHANGED <<melds, discards, leftWall>>
  BY DEF Start
<1>3. EngineTypeOK' /\ hand \in [Seat -> Seq(Tile)]
  BY StartType DEF EngineTypeOK
<1>4. /\ hand'[Dealer] = Append(hand[Dealer], x)
      /\ \A s \in Seat \ {Dealer} : hand'[s] = hand[s]
  BY <1>1, <1>2, <1>3
<1> HIDE DEF x
<1>5. Count(<<x>>, t) = d
  BY CountOne
<1>6. Count(hand'[Dealer], t) = Count(hand[Dealer], t) + d
  BY <1>1, <1>4, CountAppended
<1>7. /\ Count(hand[Dealer], t) \in Nat /\ Count(discards[Dealer], t) \in Nat
      /\ MeldTiles(melds[Dealer], t) \in Nat /\ OnTable(t) \in Int
      /\ Count(leftWall, t) \in Nat /\ d \in Int
  <2>1. OnTable(t) \in Int
    BY AtSeatType
  <2>2. Count(leftWall, t) \in Nat
    BY <1>1, CountType
  <2>3. \A s \in Seat : /\ Count(hand[s], t) \in Nat /\ Count(discards[s], t) \in Nat
                        /\ MeldTiles(melds[s], t) \in Nat
    BY AtSeatType
  <2>4. d \in Int
    OBVIOUS
  <2> QED
    BY <1>1, <2>1, <2>2, <2>3, <2>4
<1> HIDE DEF d
<1>8. OnTable(t)' = OnTable(t) + d
  <2>1. Count(hand'[Dealer], t) + Count(discards'[Dealer], t)
          + MeldTiles(melds'[Dealer], t)
        = Count(hand[Dealer], t) + Count(discards[Dealer], t)
            + MeldTiles(melds[Dealer], t) + d
    BY <1>2, <1>6, <1>7
  <2>2. \A s \in Seat \ {Dealer} : UNCHANGED <<hand[s], discards[s], melds[s]>>
    BY <1>2, <1>4
  <2> QED
    BY <1>1, <1>3, <1>7, <2>1, <2>2, OneSeatChanges
<1> QED
  BY <1>2, <1>5, <1>7, <1>8 DEF x

LEMMA DrawMoves ==
  ASSUME EngineTypeOK, Draw, NEW t
  PROVE  OnTable(t)' + Count(leftWall', t) = OnTable(t) + Count(leftWall, t)
<1> DEFINE x == Head(leftWall)
           d == IF x = t THEN 1 ELSE 0
<1>1. /\ leftWall \in Seq(Tile) /\ leftWall # << >> /\ current \in Seat
      /\ hand \in [Seat -> Seq(Tile)] /\ hand[current] \in Seq(Tile)
  BY DEF Draw, EngineTypeOK
<1>2. /\ hand' = [hand EXCEPT ![current] = Append(@, x)]
      /\ leftWall' = Tail(leftWall)
      /\ UNCHANGED <<melds, discards>>
  BY DEF Draw
<1>3. EngineTypeOK' /\ x \in Tile
  BY DrawType
<1>4. Count(leftWall', t) = Count(leftWall, t) - d
  BY <1>1, <1>2, CountHeadTail
<1> HIDE DEF x
<1>5. /\ hand'[current] = Append(hand[current], x)
      /\ \A s \in Seat \ {current} : hand'[s] = hand[s]
  BY <1>1, <1>2
<1>6. Count(hand'[current], t) = Count(hand[current], t) + d
  BY <1>1, <1>3, <1>5, CountAppended
<1>7. /\ Count(hand[current], t) \in Nat /\ Count(discards[current], t) \in Nat
      /\ MeldTiles(melds[current], t) \in Nat /\ OnTable(t) \in Int
      /\ Count(leftWall, t) \in Nat /\ d \in Int
  <2>1. OnTable(t) \in Int
    BY AtSeatType
  <2>2. Count(leftWall, t) \in Nat
    BY <1>1, CountType
  <2>3. \A s \in Seat : /\ Count(hand[s], t) \in Nat /\ Count(discards[s], t) \in Nat
                        /\ MeldTiles(melds[s], t) \in Nat
    BY AtSeatType
  <2>4. d \in Int
    OBVIOUS
  <2> QED
    BY <1>1, <2>1, <2>2, <2>3, <2>4
<1> HIDE DEF d
<1>8. OnTable(t)' = OnTable(t) + d
  <2>1. Count(hand'[current], t) + Count(discards'[current], t)
          + MeldTiles(melds'[current], t)
        = Count(hand[current], t) + Count(discards[current], t)
            + MeldTiles(melds[current], t) + d
    BY <1>2, <1>6, <1>7
  <2>2. \A s \in Seat \ {current} : UNCHANGED <<hand[s], discards[s], melds[s]>>
    BY <1>2, <1>5
  <2> QED
    BY <1>1, <1>3, <1>7, <2>1, <2>2, OneSeatChanges
<1> QED
  BY <1>4, <1>7, <1>8

\* The discard and the declaration take the tile to the pile.
LEMMA ThrowMoves ==
  ASSUME EngineTypeOK, NEW x, Discard(x) \/ DeclareRiichi(x), NEW t
  PROVE  OnTable(t)' + Count(leftWall', t) = OnTable(t) + Count(leftWall, t)
<1> DEFINE d == IF x = t THEN 1 ELSE 0
<1>1. /\ current \in Seat /\ hand \in [Seat -> Seq(Tile)]
      /\ discards \in [Seat -> Seq(Tile)] /\ leftWall \in Seq(Tile)
      /\ hand[current] \in Seq(Tile) /\ discards[current] \in Seq(Tile)
  BY DEF EngineTypeOK
<1>2. /\ hand' = [hand EXCEPT ![current] = Without(@, x)]
      /\ discards' = [discards EXCEPT ![current] = Append(@, x)]
      /\ UNCHANGED <<melds, leftWall>>
      /\ Holds(hand[current], x)
  BY DEF Discard, CanDiscard, DeclareRiichi, CanRiichi
<1>3. EngineTypeOK' /\ x \in Tile
  BY DiscardType, RiichiType
<1>4. /\ hand'[current] = Without(hand[current], x)
      /\ discards'[current] = Append(discards[current], x)
      /\ \A s \in Seat \ {current} : hand'[s] = hand[s] /\ discards'[s] = discards[s]
  BY <1>1, <1>2
<1>5. Count(hand'[current], t) = Count(hand[current], t) - d
  BY <1>1, <1>2, <1>4, CountWithout
<1>6. Count(discards'[current], t) = Count(discards[current], t) + d
  BY <1>1, <1>3, <1>4, CountAppended
<1>7. /\ Count(hand[current], t) \in Nat /\ Count(discards[current], t) \in Nat
      /\ MeldTiles(melds[current], t) \in Nat /\ OnTable(t) \in Int
      /\ Count(leftWall, t) \in Nat /\ d \in Int /\ 0 \in Int
  <2>1. OnTable(t) \in Int
    BY AtSeatType
  <2>2. Count(leftWall, t) \in Nat
    BY <1>1, CountType
  <2>3. \A s \in Seat : /\ Count(hand[s], t) \in Nat /\ Count(discards[s], t) \in Nat
                        /\ MeldTiles(melds[s], t) \in Nat
    BY AtSeatType
  <2>4. d \in Int
    OBVIOUS
  <2> QED
    BY <1>1, <2>1, <2>2, <2>3, <2>4
<1> HIDE DEF d
<1>8. OnTable(t)' = OnTable(t) + 0
  <2>1. Count(hand'[current], t) + Count(discards'[current], t)
          + MeldTiles(melds'[current], t)
        = Count(hand[current], t) + Count(discards[current], t)
            + MeldTiles(melds[current], t) + 0
    BY <1>2, <1>5, <1>6, <1>7
  <2>2. \A s \in Seat \ {current} : UNCHANGED <<hand[s], discards[s], melds[s]>>
    BY <1>2, <1>4
  <2> QED
    BY <1>1, <1>3, <1>7, <2>1, <2>2, OneSeatChanges
<1> QED
  BY <1>2, <1>7, <1>8

\* A claim takes all but one of its tiles from the hand: the meld has one copy
\* more than that.
LEMMA CallMoves ==
  ASSUME EngineTypeOK, NEW q \in Seat, NEW x \in Tile, NEW type \in MeldTypes,
         Call(q, x, type), NEW t
  PROVE  OnTable(t)' + Count(leftWall', t)
           = OnTable(t) + Count(leftWall, t) + IF x = t THEN 1 ELSE 0
<1> DEFINE d == IF x = t THEN MeldSize(type) - 1 ELSE 0
           e == IF x = t THEN 1 ELSE 0
           m == [type |-> type, tile |-> x]
<1>1. /\ hand \in [Seat -> Seq(Tile)] /\ melds \in [Seat -> Seq(Meld)]
      /\ leftWall \in Seq(Tile)
      /\ hand[q] \in Seq(Tile) /\ melds[q] \in Seq(Meld)
  BY DEF EngineTypeOK
<1>2. /\ hand' = [hand EXCEPT ![q] = WithoutMelded(@, x, type)]
      /\ melds' = [melds EXCEPT ![q] = Append(@, m)]
      /\ UNCHANGED <<discards, leftWall>>
      /\ CanMeld(hand[q], x, type)
  BY DEF Call
<1>3. EngineTypeOK'
  BY CallType
<1>4. Count(WithoutMelded(hand[q], x, type), t) = Count(hand[q], t) - d
  BY <1>1, <1>2, CountMelded
<1>5. MeldTiles(Append(melds[q], m), t) = MeldTiles(melds[q], t) + d + e
  <2>1. MeldTiles(Append(melds[q], m), t)
          = MeldTiles(melds[q], t) + IF x = t THEN MeldSize(type) ELSE 0
    BY <1>1, MeldTilesAppended
  <2>2. MeldTiles(melds[q], t) \in Nat /\ MeldSize(type) \in Nat
    BY <1>1, MeldTilesAppended DEF MeldSize
  <2> QED
    BY <2>1, <2>2
<1> HIDE DEF m
<1>6. /\ hand'[q] = WithoutMelded(hand[q], x, type)
      /\ melds'[q] = Append(melds[q], m)
      /\ \A s \in Seat \ {q} : hand'[s] = hand[s] /\ melds'[s] = melds[s]
  BY <1>1, <1>2
<1>7. /\ Count(hand[q], t) \in Nat /\ Count(discards[q], t) \in Nat
      /\ MeldTiles(melds[q], t) \in Nat /\ OnTable(t) \in Int
      /\ Count(leftWall, t) \in Nat /\ d \in Int /\ e \in Int
  <2>1. OnTable(t) \in Int
    BY AtSeatType
  <2>2. Count(leftWall, t) \in Nat
    BY <1>1, CountType
  <2>3. \A s \in Seat : /\ Count(hand[s], t) \in Nat /\ Count(discards[s], t) \in Nat
                        /\ MeldTiles(melds[s], t) \in Nat
    BY AtSeatType
  <2>4. d \in Int
    BY DEF MeldSize
  <2> QED
    BY <1>1, <2>1, <2>2, <2>3, <2>4
<1> HIDE DEF d, e
<1>8. OnTable(t)' = OnTable(t) + e
  <2>1. Count(hand'[q], t) + Count(discards'[q], t) + MeldTiles(melds'[q], t)
        = Count(hand[q], t) + Count(discards[q], t) + MeldTiles(melds[q], t) + e
    BY <1>2, <1>4, <1>5, <1>6, <1>7
  <2>2. \A s \in Seat \ {q} : UNCHANGED <<hand[s], discards[s], melds[s]>>
    BY <1>2, <1>6
  <2> QED
    BY <1>3, <1>7, <2>1, <2>2, OneSeatChanges
<1> QED
  BY <1>2, <1>7, <1>8 DEF e
=============================================================================
