-------------------------------- MODULE Yaku --------------------------------
(***************************************************************************)
(* The pure hand algorithms of package yaku: decomposition of a hand into  *)
(* a pair and sets (mentsu.go) and the payments of a win (score.go).       *)
(*                                                                         *)
(* A tile is its count slot T.index(): the numbered suits first, Ranks     *)
(* slots each, then the honors.  The deck of the program is NumSuits = 3,  *)
(* Ranks = 9, NumHonors = 7, Sets = 4: 34 kinds and hands of 13 + 1 tiles. *)
(* The red fives of tiles.go are left out: no wall the server builds       *)
(* contains one.                                                           *)
(***************************************************************************)
EXTENDS Integers, Sequences, FiniteSets

CONSTANTS NumSuits,   \* numbered suits
          Ranks,      \* ranks of a numbered suit
          NumHonors,  \* honor kinds
          Sets        \* sets of a complete hand beside its pair

ASSUME YakuAssumption == /\ NumSuits \in Nat
                         /\ Ranks \in Nat
                         /\ NumHonors \in Nat
                         /\ Sets \in Nat \ {0}

Tile == 0 .. (NumSuits * Ranks + NumHonors - 1)

\* The tile "" of the code: no tile at all.
NoTile == -1

\* Tiles a seat holds between two turns (13 in the code).
HandLen == 3 * Sets + 1

IsHonor(t) == t >= NumSuits * Ranks

IsTerminal(t) == ~IsHonor(t) /\ t % Ranks \in {0, Ranks - 1}

Count(h, t) == Cardinality({i \in DOMAIN h : h[i] = t})

Tally == [Tile -> Nat]

CountTiles(h) == [t \in Tile |-> Count(h, t)]

-----------------------------------------------------------------------------
(* Decomposition.                                                          *)

IsKokushi(h) ==
  LET c == CountTiles(h)
      Ends == {t \in Tile : IsHonor(t) \/ IsTerminal(t)}
  IN  /\ Len(h) = HandLen + 1
      /\ \A t \in Tile \ Ends : c[t] = 0
      /\ \A t \in Ends : c[t] \in {1, 2}
      /\ Cardinality({t \in Ends : c[t] = 2}) = 1

IsChiitoitsu(h) ==
  LET c == CountTiles(h)
  IN  /\ \A t \in Tile : c[t] \in {0, 2}
      /\ 2 * Cardinality({t \in Tile : c[t] = 2}) = HandLen + 1

\* Mentsu, as a closed hand may hold it: a sequence lies within a suit.
Shape == {x \in [run : BOOLEAN, tile : Tile] :
            x.run => ~IsHonor(x.tile) /\ x.tile % Ranks < Ranks - 2}

\* The tiles a set consists of, and its removal from a tally.
Run(t) == {t, t + 1, t + 2}

Take(c, set) == [u \in Tile |->
                   IF set.run THEN IF u \in Run(set.tile) THEN c[u] - 1 ELSE c[u]
                              ELSE IF u = set.tile THEN c[u] - 3 ELSE c[u]]

\* Mutant: a sequence may go from one suit into the next.
FitsRunAcross(c, t) == ~IsHonor(t) /\ \A u \in Run(t) : c[u] > 0

FitsRun(c, t) == /\ ~IsHonor(t)
                 /\ t % Ranks < Ranks - 2
                 /\ \A u \in Run(t) : c[u] > 0

Remaining(c) == {t \in Tile : c[t] > 0}

Lowest(c) == CHOOSE t \in Remaining(c) : \A u \in Remaining(c) : t <= u

\* The lowest tile left is tried as the start of a sequence, then as a
\* triplet; the first split that consumes the whole tally is kept.  smaller is
\* what is found for one set less.
SplitLowest(smaller, c) ==
  LET t == Lowest(c)
      From(set) == {<<set>> \o s : s \in smaller[Take(c, set)]}
      runs == IF FitsRun(c, t) THEN From([run |-> TRUE, tile |-> t]) ELSE {}
      triplets == IF c[t] >= 3 THEN From([run |-> FALSE, tile |-> t]) ELSE {}
  IN  IF Remaining(c) = {} THEN {}
      ELSE IF runs # {} THEN runs ELSE triplets

\* The value is the set of at most one sequence of sets.
SplitSets[need \in Nat] ==
  IF need = 0 THEN [c \in Tally |-> IF Remaining(c) = {} THEN {<< >>} ELSE {}]
              ELSE [c \in Tally |-> SplitLowest(SplitSets[need - 1], c)]

\* hand: the concealed tiles with the winning one; open: how many melds the
\* seat has called.  The special shapes are results without a pair.
Analyze(hand, open) ==
  IF Len(hand) # HandLen + 1 - 3 * open THEN {}
  ELSE IF open = 0 /\ (IsKokushi(hand) \/ IsChiitoitsu(hand))
  THEN {[pair |-> NoTile, melds |-> << >>]}
  ELSE LET c == CountTiles(hand)
       IN  UNION {{[pair |-> p, melds |-> m] :
                     m \in SplitSets[Sets - open][[c EXCEPT ![p] = @ - 2]]} :
                   p \in {t \in Tile : c[t] >= 2}}

-----------------------------------------------------------------------------
(* Payments.  han is at least 1 here: the callers return early otherwise.  *)

LimitPayment(han) ==
  CASE han >= 13 -> [nonDealer |-> 32000, dealer |-> 48000]
    [] han \in 11 .. 12 -> [nonDealer |-> 24000, dealer |-> 36000]
    [] han \in 8 .. 10 -> [nonDealer |-> 16000, dealer |-> 24000]
    [] han \in 6 .. 7 -> [nonDealer |-> 12000, dealer |-> 18000]
    [] OTHER -> [nonDealer |-> 8000, dealer |-> 12000]

\* 1 << (2 + han) for the han below the limit table.
Shifted(han) == CASE han = 1 -> 8 [] han = 2 -> 16 [] han = 3 -> 32 [] OTHER -> 64

BasePoints(han, fu) ==
  IF han >= 5 \/ (han >= 4 /\ fu >= 40) \/ fu * Shifted(han) > 2000
  THEN 2000
  ELSE fu * Shifted(han)

\* Mutant: payments are cut to hundreds.
RoundDown(p) == (p \div 100) * 100

RoundUp(p) == ((p + 99) \div 100) * 100

RonPayment(han, fu, byDealer) ==
  IF han >= 5
  THEN IF byDealer THEN LimitPayment(han).dealer ELSE LimitPayment(han).nonDealer
  ELSE RoundUp(BasePoints(han, fu) * IF byDealer THEN 6 ELSE 4)

\* What the dealer and what each other loser pays for a self-drawn win.
TsumoPayment(han, fu, winnerDealer) ==
  LET half == IF han >= 5 THEN RoundUp(LimitPayment(han).nonDealer \div 2)
                          ELSE RoundUp(BasePoints(han, fu) * 2)
      quarter == IF han >= 5 THEN RoundUp(LimitPayment(han).nonDealer \div 4)
                             ELSE RoundUp(BasePoints(han, fu))
  IN  IF winnerDealer THEN [dealer |-> 0, nonDealer |-> half]
                      ELSE [dealer |-> half, nonDealer |-> quarter]

-----------------------------------------------------------------------------
(* What is asked of the payments of one value, see Hand and YakuProofs.    *)

\* A self-drawn win brings what a ron would, up to the rounding of each share.
SplitAgrees(han, fu, dealer) ==
  LET t == TsumoPayment(han, fu, dealer)
      total == IF dealer THEN 3 * t.nonDealer ELSE t.dealer + 2 * t.nonDealer
      ron == RonPayment(han, fu, dealer)
  IN  total \in ron .. ron + 200

\* One han more never pays less.
HanPays(han, fu, dealer) ==
  RonPayment(han + 1, fu, dealer) >= RonPayment(han, fu, dealer)
=============================================================================
