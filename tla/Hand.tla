-------------------------------- MODULE Hand --------------------------------
(***************************************************************************)
(* The value of a winning hand: the yaku, the fu and the dora of package   *)
(* yaku, and engine.CheckWin, which puts them together.  The engine asks   *)
(* for it after a draw (tsumo) and after a discard (ron); here a hand that *)
(* is complete lies on the table and any seat may declare it, once.        *)
(*                                                                         *)
(* Only daiminkan leaves a hand that can still be completed (see           *)
(* HandAccount of Drive): the open sets are triplets, given by their       *)
(* tiles, and the fourth tile of each is out of play.                      *)
(***************************************************************************)
EXTENDS Yaku, SequencesExt

CONSTANTS Hands,      \* complete hands: a pair, closed sets, open triplets
          Indicators  \* the dora indicators a round may show

VARIABLES held,  \* the hand, as the pair and sets it was made from
          win    \* what CheckWin made of it

vars == <<held, win>>

ASSUME HandAssumption ==
  /\ \A h \in Hands : /\ h.pair \in Tile
                      /\ h.closed \in Seq(Shape)
                      /\ h.open \in Seq(Tile)
                      /\ Len(h.closed) + Len(h.open) = Sets
  /\ \A i \in Indicators : i \in Seq(Tile)

Suit(t) == t \div Ranks

Honor(n) == NumSuits * Ranks + n

\* The first and the last sequence of a suit.
EndRun(t) == t % Ranks \in {0, Ranks - 3}

RunAt(melds, t) == \E m \in Range(melds) : m.run /\ m.tile = t

TripletOf(melds, t) == \E m \in Range(melds) : ~m.run /\ m.tile = t

-----------------------------------------------------------------------------
(* The yaku of a reading r of a hand.                                      *)

\* Mutant: the last sequence of a suit is taken for simple tiles.
TanyaoLow(r) ==
  LET Simple(t) == ~IsHonor(t) /\ ~IsTerminal(t)
  IN  Simple(r.pair) /\ \A m \in Range(r.melds) : Simple(m.tile)

Tanyao(r) ==
  LET Simple(t) == ~IsHonor(t) /\ ~IsTerminal(t)
  IN  /\ Simple(r.pair)
      /\ \A m \in Range(r.melds) : Simple(m.tile) /\ ~(m.run /\ EndRun(m.tile))

\* With jun, terminals only.
Chanta(r, jun) ==
  LET End(t) == IsTerminal(t) \/ (~jun /\ IsHonor(t))
  IN  /\ End(r.pair)
      /\ \A m \in Range(r.melds) : IF m.run THEN EndRun(m.tile) ELSE End(m.tile)

\* The numbered suits among the concealed tiles.
SuitsOf(hand) == {Suit(t) : t \in {u \in Range(hand) : ~IsHonor(u)}}

Honitsu(hand) ==
  (\E t \in Range(hand) : IsHonor(t)) /\ Cardinality(SuitsOf(hand)) <= 1

Chinitsu(r, hand) ==
  /\ \A t \in Range(hand) \cup {m.tile : m \in Range(r.melds)} : ~IsHonor(t)
  /\ Cardinality(SuitsOf(hand)) = 1

SanshokuDoujun(r) ==
  \E m \in Range(r.melds) :
    /\ m.run
    /\ Cardinality({s \in 0 .. NumSuits - 1 :
                      RunAt(r.melds, s * Ranks + (m.tile % Ranks))}) = 3

\* Sequences from 1, 4 and 7, of whatever suits.
Ittsu(r) ==
  \A k \in {0, 3, 6} : \E m \in Range(r.melds) : m.run /\ m.tile % Ranks = k

FourConcealedTriplets(r) ==
  Len(r.melds) = 4 /\ \A m \in Range(r.melds) : ~m.run /\ ~m.open

Fan(name, han) == [name |-> name, han |-> han]

When(counts, name, han) == IF counts THEN {Fan(name, han)} ELSE {}

Yakuhai(r, c) ==
  UNION {When(TripletOf(r.melds, Honor(4)), "haku", 1),
         When(TripletOf(r.melds, Honor(5)), "hatsu", 1),
         When(TripletOf(r.melds, Honor(6)), "chun", 1),
         When(TripletOf(r.melds, Honor(c.seatWind)), "yakuhaiSeat", 1),
         When(TripletOf(r.melds, Honor(c.roundWind)), "yakuhaiRound", 1)}

\* Mutant: the condition on the open sets inverted.
DrawnOpen(c, menzen) == c.zimo /\ ~menzen

Drawn(c, menzen) == c.zimo /\ menzen

\* The yaku that add up.  Pinfu asks for a pair that is no simple tile.
Regular(r, hand, c) ==
  LET menzen == \A m \in Range(r.melds) : ~m.open
      runs == Cardinality({i \in DOMAIN r.melds : r.melds[i].run})
      Worth(closed, open) == IF menzen THEN closed ELSE open
  IN  UNION {When(c.riichi /\ c.daburi, "daburi", 2),
             When(c.riichi /\ ~c.daburi, "riichi", 1),
             When(c.riichi /\ c.ippatsu, "ippatsu", 1),
             When(Drawn(c, menzen), "menzenTsumo", 1),
             When(c.rinshan, "rinshan", 1),
             When(c.chankan, "chankan", 1),
             When(/\ menzen /\ ~c.zimo /\ runs = 4
                  /\ IsHonor(r.pair) \/ IsTerminal(r.pair), "pinfu", 1),
             When(Tanyao(r), "tanyao", 1),
             Yakuhai(r, c),
             When(runs = 0 /\ Len(r.melds) = 4, "toitoi", 2),
             When(Chanta(r, FALSE), "chanta", Worth(2, 1)),
             When(Chanta(r, TRUE), "junchan", Worth(3, 2)),
             When(Honitsu(hand), "honitsu", Worth(3, 2)),
             When(Chinitsu(r, hand), "chinitsu", Worth(6, 5)),
             When(SanshokuDoujun(r), IF menzen THEN "sanshoku" ELSE "sanshokuOpen",
                  Worth(2, 1)),
             When(Ittsu(r), "ittsu", Worth(2, 1))}

Yakuman(r, hand) ==
  CASE IsKokushi(hand) -> {Fan("kokushi", 13)}
    [] ~IsKokushi(hand) /\ FourConcealedTriplets(r) -> {Fan("suuankou", 13)}
    [] OTHER -> {}

\* A yakuman replaces everything else.
Calc(r, hand, c) ==
  IF r.melds = << >> /\ IsChiitoitsu(hand) THEN {Fan("chiitoitsu", 2)}
  ELSE IF Yakuman(r, hand) # {} THEN Yakuman(r, hand)
  ELSE Regular(r, hand, c)

-----------------------------------------------------------------------------
(* Fu and dora.                                                            *)

\* CheckWin gives every open set three tiles, so that no set counts as a quad.
TripletFu(m) ==
  2 * (IF IsTerminal(m.tile) \/ IsHonor(m.tile) THEN 2 ELSE 1)
    * (IF m.open THEN 1 ELSE 2)

\* A pair of any honors counts, as that of a wind would.
FuSum(r, c, winOnClosed) ==
  20 + (IF c.zimo THEN 2 ELSE 0)
     + (IF winOnClosed THEN 10 ELSE 0)
     + (IF IsHonor(r.pair) THEN 2 ELSE 0)
     + SumFunction([i \in {j \in DOMAIN r.melds : ~r.melds[j].run} |->
                      TripletFu(r.melds[i])])

Fu(r, c, winOnClosed) == ((FuSum(r, c, winOnClosed) + 9) \div 10) * 10

\* The tile an indicator points at: winds and dragons make one circle.
Dora(ind) ==
  IF IsHonor(ind) THEN Honor((ind - Honor(0) + 1) % NumHonors)
                  ELSE Suit(ind) * Ranks + (((ind % Ranks) + 1) % Ranks)

CountDora(hand, indicators) ==
  Cardinality({p \in (DOMAIN hand) \X (DOMAIN indicators) :
                 hand[p[1]] = Dora(indicators[p[2]])})

-----------------------------------------------------------------------------
(* The win.                                                                *)

TilesOf(m) == IF m.run THEN <<m.tile, m.tile + 1, m.tile + 2>>
                       ELSE <<m.tile, m.tile, m.tile>>

\* A pair and then the tiles of some sets, three each.
TilesIn(pair, sets) ==
  [j \in 1 .. 2 + 3 * Len(sets) |->
     IF j <= 2 THEN pair ELSE TilesOf(sets[j \div 3])[(j % 3) + 1]]

ConcealedTiles(h) == TilesIn(h.pair, h.closed)

OpenSets(h) ==
  [i \in DOMAIN h.open |-> [run |-> FALSE, tile |-> h.open[i], open |-> TRUE]]

Closed(x) == [run |-> x.run, tile |-> x.tile, open |-> FALSE]

\* What Analyze returns, the open sets put before the others.
Readings(h) ==
  {[pair |-> a.pair,
    melds |-> OpenSets(h) \o [i \in DOMAIN a.melds |-> Closed(a.melds[i])]] :
     a \in Analyze(ConcealedTiles(h), Len(h.open))}

Unasked == [kind |-> "unasked"]

\* Ctx, as CheckWin fills it: riichi and the wins of a kan are never told, and
\* daburi counts for nothing without riichi.
Ctx(seat, tsumo) ==
  [zimo |-> tsumo, seatWind |-> seat, roundWind |-> 0,
   riichi |-> FALSE, daburi |-> FALSE, ippatsu |-> FALSE,
   rinshan |-> FALSE, chankan |-> FALSE]

\* The reading with the lowest pair is scored.  A reading without pair has no
\* fu: the first character of its name is read, and there is none.
CheckWin(h, seat, tsumo, indicators) ==
  LET hand == ConcealedTiles(h)
      rs == Readings(h)
      r == CHOOSE x \in rs : \A y \in rs : x.pair <= y.pair
      c == Ctx(seat, tsumo)
      fans == Calc(r, hand, c)
  IN  IF rs = {} THEN [kind |-> "none"]
      ELSE IF r.pair = NoTile THEN [kind |-> "panic"]
      ELSE [kind |-> "win", reading |-> r, fans |-> fans, seat |-> seat,
            tsumo |-> tsumo, indicators |-> indicators,
            han |-> SumFunction([f \in fans |-> f.han])
                    + CountDora(hand, indicators),
            fu |-> Fu(r, c, ~tsumo /\ h.open = << >>)]

Init == held \in Hands /\ win = Unasked

Declare(seat, tsumo, indicators) ==
  /\ win = Unasked
  /\ win' = CheckWin(held, seat, tsumo, indicators)
  /\ UNCHANGED held

Next == \E seat \in 0 .. 3, tsumo \in BOOLEAN, i \in Indicators :
          Declare(seat, tsumo, i)

Spec == Init /\ [][Next]_vars

-----------------------------------------------------------------------------
(* Properties.                                                             *)

Won == win.kind = "win"

HasFan(name) == \E f \in win.fans : f.name = name

\* The melds of a reading that Analyze made of the concealed tiles.
Split(r) == SubSeq(r.melds, Len(held.open) + 1, Len(r.melds))

\* A pair and sets always win, however their tiles regroup, and whatever
\* Analyze reads in them is the open sets, as they were called, and sets of
\* the right shape made of exactly the concealed tiles (splitSets backtracks
\* and never leaves a suit).  A hand that is also seven pairs is read as those.
ReadingIsTheHand ==
  /\ win.kind # "none"
  /\ Won =>
       /\ Len(win.reading.melds) = Sets
       /\ \A i \in DOMAIN held.open : win.reading.melds[i] = OpenSets(held)[i]
       /\ \A m \in Range(Split(win.reading)) :
            ~m.open /\ (m.run => ~IsHonor(m.tile) /\ Suit(m.tile) = Suit(m.tile + 2))
       /\ CountTiles(TilesIn(win.reading.pair, Split(win.reading)))
            = CountTiles(ConcealedTiles(held))

IsEnd(t) == IsHonor(t) \/ IsTerminal(t)

Groups(r) == {<<r.pair>>} \cup {TilesOf(m) : m \in Range(r.melds)}

\* Tanyao, chanta and junchan mean what they mean of the tiles themselves,
\* although the code looks at one tile of a set: no end tile at all, an end
\* tile in every group, a terminal in every group (tanyao, chanta).
EndsAreRead ==
  Won /\ ~HasFan("suuankou") =>
    LET groups == Groups(win.reading)
    IN  /\ HasFan("tanyao") <=> \A g \in groups : \A t \in Range(g) : ~IsEnd(t)
        /\ HasFan("chanta") <=> \A g \in groups : \E t \in Range(g) : IsEnd(t)
        /\ HasFan("junchan") <=> \A g \in groups : \E t \in Range(g) : IsTerminal(t)

\* The hand a seat draws complete is worth at least the han of the same hand
\* completed by a discard: pinfu, lost by the draw, is made up for (Calc).
DrawIsWorthRon ==
  Won /\ win.tsumo =>
    win.han >= CheckWin(held, win.seat, FALSE, win.indicators).han

\* For any value a hand really gets, what the three losers of a self-drawn
\* win pay together is the ron of the same value, up to the rounding of each
\* payment, and a han more never pays less across the limits (RonPayment,
\* TsumoPayment).
PaymentsAgree ==
  Won /\ win.han >= 1 =>
    \A dealer \in BOOLEAN :
      /\ SplitAgrees(win.han, win.fu, dealer)
      /\ HanPays(win.han, win.fu, dealer)
=============================================================================
