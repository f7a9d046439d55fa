------------------------------- MODULE MCDrive -------------------------------
(***************************************************************************)
(* Drive for TLC: one suit of four ranks and two honors (slots 4 and 5),   *)
(* four copies each, and hands of one set and a pair.  Three tiles are left *)
(* to draw: the human seat acts a second time after seat 3 claimed its     *)
(* first discard.                                                          *)
(***************************************************************************)
EXTENDS Drive

Deal(h0, h1, h2, h3, extra, rest) ==
  [Hands |-> [s \in Seat |-> <<h0, h1, h2, h3>>[s + 1]],
   DealerExtra |-> extra, Wall |-> rest]

MCWalls ==
  {\* A pon of 4, a daiminkan of 5 or a ron on 0 within the first turns.
   Deal(<<0, 1, 2, 4>>, <<4, 4, 0, 1>>, <<1, 1, 2, 2>>, <<5, 5, 5, 0>>,
        5, <<0, 3, 3>>),
   \* Seat 2 waits for the thirteen-orphans shape, seat 0 for a 4.
   Deal(<<0, 1, 2, 4>>, <<4, 4, 2, 1>>, <<0, 3, 4, 5>>, <<5, 5, 5, 2>>,
        1, <<2, 3, 0>>)}

\* A hand without yaku, and one worth more than a discarder owns.
MCValues == {[han |-> 0, fu |-> 30], [han |-> 13, fu |-> 30]}
=============================================================================
