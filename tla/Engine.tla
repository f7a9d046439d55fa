------------------------------- MODULE Engine -------------------------------
(***************************************************************************)
(* One round of package engine (round.go, win.go): the hands, the live     *)
(* wall, the scores, and the operations the callers apply to them.  Each   *)
(* operation is one action, enabled where the code returns no error; the   *)
(* guard an operation checks has a name of its own, for the callers that   *)
(* act on the error.                                                       *)
(*                                                                         *)
(* A hand is a sequence used as a bag: the order SortHand gives it is seen *)
(* by nothing but the choice of a fallback discard.  Neither the dora      *)
(* indicators nor the yaku of a hand are kept: the han and fu of a win     *)
(* range over the constant Values.                                         *)
(***************************************************************************)
EXTENDS Yaku, SequencesExt

CONSTANTS Walls,         \* the prescribed walls a round may be dealt from
          InitialScore,
          Values         \* the [han, fu] a winning hand may be worth

NumPlayers == 4

Seat == 0 .. NumPlayers - 1

Dealer == 0

\* Mutant: the turn does not come round.
NextSeatUnbounded(s) == s + 1

NextSeat(s) == (s + 1) % NumPlayers

Wall == [Hands : [Seat -> Seq(Tile)], DealerExtra : Tile, Wall : Seq(Tile)]

ASSUME EngineAssumption ==
  /\ Walls \subseteq Wall
  /\ \A w \in Walls, s \in Seat : Len(w.Hands[s]) = HandLen
  /\ InitialScore \in Nat
  /\ Values \subseteq [han : Nat, fu : Nat]

MeldTypes == {"pon", "daiminkan"}

Meld == [type : MeldTypes, tile : Tile]

MeldSize(type) == IF type = "daiminkan" THEN 4 ELSE 3

VARIABLES wall,          \* r.Wall, as prescribed
          hand, melds, riichi, discards,     \* r.Players
          scores, riichiStick, winner,
          leftWall, current, phase, doubleRiichi

seatVars == <<hand, melds, riichi, discards, doubleRiichi>>

engineVars == <<wall, seatVars, scores, riichiStick, winner, leftWall,
                current, phase>>

EngineTypeOK ==
  /\ wall \in Walls
  /\ hand \in [Seat -> Seq(Tile)]
  /\ melds \in [Seat -> Seq(Meld)]
  /\ riichi \in [Seat -> BOOLEAN]
  /\ discards \in [Seat -> Seq(Tile)]
  /\ doubleRiichi \in [Seat -> BOOLEAN]
  /\ scores \in [Seat -> Int]
  /\ riichiStick \in Nat
  /\ winner \in Seat \cup {-1}
  /\ leftWall \in Seq(Tile)
  /\ current \in Seat
  /\ phase \in {"dealing", "playing", "ended"}

NewRound(w) ==
  /\ wall = w
  /\ hand = w.Hands
  /\ melds = [s \in Seat |-> << >>]
  /\ riichi = [s \in Seat |-> FALSE]
  /\ discards = [s \in Seat |-> << >>]
  /\ doubleRiichi = [s \in Seat |-> FALSE]
  /\ scores = [s \in Seat |-> InitialScore]
  /\ riichiStick = 0
  /\ winner = -1
  /\ leftWall = w.Wall
  /\ current = Dealer
  /\ phase = "dealing"

-----------------------------------------------------------------------------
(* Hands.                                                                  *)

Holds(h, t) == t \in Range(h)

\* h without one copy of t, which it holds.
Without(h, t) == RemoveAt(h, CHOOSE i \in DOMAIN h : h[i] = t)

\* Taking from a hand the tiles a claim of t melds with the claimed one.
CanMeld(h, t, type) ==
  /\ Holds(h, t)
  /\ Holds(Without(h, t), t)
  /\ type = "daiminkan" => Holds(Without(Without(h, t), t), t)

\* Mutant: a daiminkan takes two tiles, like a pon.
WithoutPair(h, t, type) == Without(Without(h, t), t)

WithoutMelded(h, t, type) ==
  LET kept == Without(Without(h, t), t)
  IN  IF type = "daiminkan" THEN Without(kept, t) ELSE kept

\* What the check of a 14-tile hand comes to.  The special shapes have no
\* pair, and the fu count indexes into the pair's name: the process panics.
CheckWin(h, s) ==
  LET results == Analyze(h, Len(melds[s]))
  IN  IF results = {} THEN "none"
      ELSE IF \E r \in results : r.pair = NoTile THEN "panic"
      ELSE "win"

\* ContainedTiles, checked: the seat's hand completed by a discard of t.  An
\* empty tile name has no slot, but is only looked at in a hand of full length.
CheckRon(s, t) ==
  LET h == Append(hand[s], t)
  IN  IF t # NoTile THEN CheckWin(h, s)
      ELSE IF Len(h) = HandLen + 1 - 3 * Len(melds[s]) THEN "panic"
      ELSE "none"

\* Mutant: riichi is not looked at.
CandidatesInRiichi(s, t) ==
  {type \in MeldTypes : Count(hand[s], t) >= MeldSize(type) - 1}

Candidates(s, t) ==
  IF riichi[s] \/ t = NoTile THEN {}
  ELSE {type \in MeldTypes : Count(hand[s], t) >= MeldSize(type) - 1}

\* Mutant: only the declarer's own melds are looked at.
OwnMeld == melds[current] # << >>

PonsIn(m) == Cardinality({i \in DOMAIN m : m[i].type = "pon"})

AnyMeld == \E s \in Seat : melds[s] # << >>

Current == IF phase = "ended" THEN -1 ELSE current

-----------------------------------------------------------------------------
(* Operations.                                                             *)

Start ==
  /\ phase = "dealing"
  /\ hand' = [hand EXCEPT ![Dealer] = Append(@, wall.DealerExtra)]
  /\ phase' = "playing"
  /\ current' = Dealer
  /\ UNCHANGED <<wall, melds, riichi, discards, doubleRiichi, scores,
                 riichiStick, winner, leftWall>>

Draw ==
  /\ leftWall # << >>
  /\ hand' = [hand EXCEPT ![current] = Append(@, Head(leftWall))]
  /\ leftWall' = Tail(leftWall)
  /\ UNCHANGED <<wall, melds, riichi, discards, doubleRiichi, scores,
                 riichiStick, winner, current, phase>>

CanDiscard(t) == phase = "playing" /\ Holds(hand[current], t)

Discard(t) ==
  /\ CanDiscard(t)
  /\ hand' = [hand EXCEPT ![current] = Without(@, t)]
  /\ discards' = [discards EXCEPT ![current] = Append(@, t)]
  /\ current' = NextSeat(current)
  /\ UNCHANGED <<wall, melds, riichi, doubleRiichi, scores, riichiStick,
                 winner, leftWall, phase>>

\* Neither the phase, nor an earlier declaration, nor the score is looked at.
CanRiichi(t) == melds[current] = << >> /\ Holds(hand[current], t)

DeclareRiichi(t) ==
  /\ CanRiichi(t)
  /\ doubleRiichi' = [doubleRiichi EXCEPT ![current] =
                        @ \/ (discards[current] = << >> /\ ~AnyMeld)]
  /\ riichi' = [riichi EXCEPT ![current] = TRUE]
  /\ hand' = [hand EXCEPT ![current] = Without(@, t)]
  /\ discards' = [discards EXCEPT ![current] = Append(@, t)]
  /\ riichiStick' = riichiStick + 1
  /\ scores' = [scores EXCEPT ![current] = @ - 1000]
  /\ current' = NextSeat(current)
  /\ UNCHANGED <<wall, melds, winner, leftWall, phase>>

\* Mutant: the claim does not take the turn.
CallWithoutTurn(s, t, type) ==
  /\ CanMeld(hand[s], t, type)
  /\ hand' = [hand EXCEPT ![s] = WithoutMelded(@, t, type)]
  /\ melds' = [melds EXCEPT ![s] = Append(@, [type |-> type, tile |-> t])]
  /\ UNCHANGED <<wall, riichi, discards, doubleRiichi, scores, riichiStick,
                 winner, leftWall, current, phase>>

\* The claimed tile stays in the pile of the seat that threw it.
Call(s, t, type) ==
  /\ CanMeld(hand[s], t, type)
  /\ hand' = [hand EXCEPT ![s] = WithoutMelded(@, t, type)]
  /\ melds' = [melds EXCEPT ![s] = Append(@, [type |-> type, tile |-> t])]
  /\ current' = s
  /\ UNCHANGED <<wall, riichi, discards, doubleRiichi, scores, riichiStick,
                 winner, leftWall, phase>>

\* End and the two settlements write disjoint variables: a caller conjoins
\* them and frames the rest.
End(s) == winner' = s /\ phase' = "ended"

Sum(f) == f[0] + f[1] + f[2] + f[3]

\* What seat i pays when seat s wins by a self-drawn tile.
TsumoShare(i, s, value) ==
  LET due == TsumoPayment(value.han, value.fu, s = Dealer)
  IN  IF i = s THEN 0 ELSE IF i = Dealer THEN due.dealer ELSE due.nonDealer

ResolveTsumo(s, value) ==
  IF value.han <= 0 THEN UNCHANGED scores
  ELSE LET share == [i \in Seat |-> TsumoShare(i, s, value)]
       IN  scores' = [i \in Seat |-> IF i = s THEN scores[i] + Sum(share)
                                              ELSE scores[i] - share[i]]

\* The discarder pays no more than it has.
RonShare(from, s, value) ==
  LET due == RonPayment(value.han, value.fu, s = Dealer)
  IN  IF due > scores[from] THEN scores[from] ELSE due

\* Mutant: the winner is paid in full by a discarder who cannot.
ResolveRonInFull(s, from, value) ==
  IF value.han <= 0 THEN UNCHANGED scores
  ELSE scores' = [scores EXCEPT ![from] = @ - RonShare(from, s, value),
                                ![s] = @ + RonPayment(value.han, value.fu,
                                                      s = Dealer)]

ResolveRon(s, from, value) ==
  IF value.han <= 0 THEN UNCHANGED scores
  ELSE scores' = [scores EXCEPT ![from] = @ - RonShare(from, s, value),
                                ![s] = @ + RonShare(from, s, value)]

-----------------------------------------------------------------------------
(* What the operations keep, whoever calls them.                           *)

\* Points: ResolveTsumo, ResolveRon and DeclareRiichi move points between the
\* seats and the table's sticks and never create or lose any.
PointsConserved == Sum(scores) + 1000 * riichiStick = NumPlayers * InitialScore

\* Copies of a tile in the melds of seat s, which hold what was claimed too.
InMelds(s, t) ==
  LET Of(n) == Cardinality({i \in DOMAIN melds[s] :
                              melds[s][i].tile = t /\ MeldSize(melds[s][i].type) = n})
  IN  3 * Of(3) + 4 * Of(4)

AtSeat(s, t) == Count(hand[s], t) + Count(discards[s], t) + InMelds(s, t)

Dealt(t) == Sum([s \in Seat |-> Count(wall.Hands[s], t)]) + Count(wall.Wall, t)
            + Count(<<wall.DealerExtra>>, t)
=============================================================================
