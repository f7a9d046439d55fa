------------------------------- MODULE MCHand --------------------------------
(***************************************************************************)
(* Hand for TLC with the deck of the program: slots 0-8 are 1m-9m, 9-17    *)
(* 1p-9p, 18-26 1s-9s, 27-33 the honors.  The sets are chosen so that all  *)
(* yaku occur, and so that their tiles regroup: three sequences from 1m    *)
(* are also three triplets, a triplet of 9m stands before sequences of p.  *)
(***************************************************************************)
EXTENDS Hand

R(t) == [run |-> TRUE, tile |-> t]
K(t) == [run |-> FALSE, tile |-> t]

\* The tiles of the first sets are closed, those of the others open triplets.
Shapes == <<R(0), R(1), R(3), R(6), R(9), R(18),
            K(0), K(1), K(2), K(8), K(27), K(8), K(17), K(31)>>

IsOpen(k) == k > 11

Pairs == {1, 8, 11, 27, 31}

\* An open set takes its fourth tile out of play.
Needed(h, t) ==
  Count(ConcealedTiles(h), t) + 4 * Count(h.open, t)

InDeck(h) ==
  \A t \in Range(ConcealedTiles(h)) \cup Range(h.open) : Needed(h, t) <= 4

Choices4 == {q \in [1 .. Sets -> DOMAIN Shapes] :
              \A i \in 1 .. Sets - 1 : q[i] <= q[i + 1]}

\* Choices put the closed sets before the open ones.
MadeOf(p, q) ==
  LET n == Cardinality({i \in 1 .. Sets : ~IsOpen(q[i])})
  IN  [pair |-> p,
       closed |-> [i \in 1 .. n |-> Shapes[q[i]]],
       open |-> [i \in 1 .. Sets - n |-> Shapes[q[n + i]].tile]]

MCHands == {h \in {MadeOf(p, q) : p \in Pairs, q \in Choices4} : InDeck(h)}

\* An indicator of 1m, and one of the last honor.
MCIndicators == {<<0>>, <<33>>}
=============================================================================
