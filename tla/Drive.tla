-------------------------------- MODULE Drive --------------------------------
(***************************************************************************)
(* The goroutine that plays one round: startRound (game/round.go), then    *)
(* runRound, playTurns, askCalls, decidePlay and applyPlay (game/loop.go)  *)
(* pushing what happens to the client through drive.go.  It alone touches  *)
(* the round, so a step here is the code between two points where it waits *)
(* or may return an error; a push fails when the client's connection is    *)
(* gone, and ends the drive.                                               *)
(***************************************************************************)
EXTENDS Engine

CONSTANTS Humans,    \* seats without a bot; botForSeats leaves seat 0
          SelfOps,   \* what ChooseSelfAction of the bots may answer
          Claims     \* whether ChooseCall of the bots may answer a meld

ASSUME DriveAssumption == /\ Humans \subseteq Seat
                          /\ SelfOps \subseteq {"riichi", "tsumo"}
                          /\ Claims \in BOOLEAN

VARIABLES pc,        \* where the drive is
          seat,      \* the loop's own idea of whose turn it is
          first,     \* the dealer's first turn, which draws nothing
          step,      \* the number of the next push
          decision,  \* d of playTurns: operation and tile
          log,       \* what the client has been told, in order
          saved,     \* the record of the round in the paipu store
          credited   \* the round counts for the achievement

loopVars == <<seat, first, step, decision>>

driveVars == <<pc, loopVars, log, saved, credited>>

vars == <<engineVars, driveVars>>

Ops == {"discard", "riichi", "tsumo"}

Decision == [op : Ops, tile : Tile \cup {NoTile}]

Event == [name : {"NewRound", "DealTile", "DiscardTile", "ChiPengGang",
                  "Hule", "LiuJu"},
          seat : Seat \cup {-1}, tile : Tile \cup {NoTile}, step : Nat]

Unsaved == [winner |-> -2, scores |-> << >>]

Record == [winner : Seat \cup {-1}, scores : [Seat -> Int]]

Ended == {"done", "failed", "crashed"}

DriveTypeOK ==
  /\ pc \in {"start", "turn", "decide", "apply", "poll", "claim", "archive",
             "credit"} \cup Ended
  /\ seat \in Seat
  /\ first \in BOOLEAN
  /\ step \in Nat
  /\ decision \in Decision
  /\ log \in Seq(Event)
  /\ saved \in Record \cup {Unsaved}
  /\ credited \in BOOLEAN

TypeOK == EngineTypeOK /\ DriveTypeOK

Init ==
  /\ \E w \in Walls : NewRound(w)
  /\ pc = "start"
  /\ seat = 0
  /\ first = TRUE
  /\ step = 0
  /\ decision = [op |-> "discard", tile |-> NoTile]
  /\ log = << >>
  /\ saved = Unsaved
  /\ credited = FALSE

\* ActionNotify: the drive goes on at label next, or has lost its client.
Push(name, s, t, next) ==
  \/ /\ log' = Append(log, [name |-> name, seat |-> s, tile |-> t, step |-> step])
     /\ pc' = next
  \/ /\ UNCHANGED log
     /\ pc' = "failed"

StartRound ==
  /\ pc = "start"
  /\ Start
  /\ Push("NewRound", Dealer, NoTile, "turn")
  /\ step' = 1
  /\ UNCHANGED <<seat, first, decision, saved, credited>>

-----------------------------------------------------------------------------
(* playTurns: the head of the loop.                                        *)

\* Mutant: the loop does not notice that the round was won.
PlayableByWall == leftWall # << >>

Playable == leftWall # << >> /\ Current # -1

FirstTurn ==
  /\ pc = "turn"
  /\ Playable
  /\ first
  /\ first' = FALSE
  /\ pc' = "decide"
  /\ UNCHANGED <<engineVars, seat, step, decision, log, saved, credited>>

\* Mutant: the dealer draws on its first turn too.
DrawOnFirst ==
  /\ pc = "turn"
  /\ Playable
  /\ Draw
  /\ Push("DealTile", seat, Head(leftWall), "decide")
  /\ step' = step + 1
  /\ UNCHANGED <<seat, first, decision, saved, credited>>

\* Mutant: a draw is not counted.
DrawUncounted ==
  /\ pc = "turn"
  /\ Playable
  /\ ~first
  /\ Draw
  /\ Push("DealTile", seat, Head(leftWall), "decide")
  /\ UNCHANGED <<seat, first, step, decision, saved, credited>>

DrawTile ==
  /\ pc = "turn"
  /\ Playable
  /\ ~first
  /\ Draw
  /\ Push("DealTile", seat, Head(leftWall), "decide")
  /\ step' = step + 1
  /\ UNCHANGED <<seat, first, decision, saved, credited>>

\* Mutant: the winner is left as it is.
LeaveLoopUnended ==
  /\ pc = "turn"
  /\ ~Playable
  /\ phase' = "ended"
  /\ Push("LiuJu", -1, NoTile, "archive")
  /\ UNCHANGED <<wall, seatVars, scores, riichiStick, winner, leftWall, current,
                 loopVars, saved, credited>>

\* Left by the wall or by a ron alike.
LeaveLoop ==
  /\ pc = "turn"
  /\ ~Playable
  /\ End(-1)
  /\ Push("LiuJu", -1, NoTile, "archive")
  /\ UNCHANGED <<wall, seatVars, scores, riichiStick, leftWall, current,
                 loopVars, saved, credited>>

-----------------------------------------------------------------------------
(* decidePlay.                                                             *)

Decide(op, t) ==
  /\ pc = "decide"
  /\ decision' = [op |-> op, tile |-> t]
  /\ pc' = "apply"
  /\ UNCHANGED <<engineVars, seat, first, step, log, saved, credited>>

\* A client may name any operation and any tile, or none.
DecideHuman ==
  /\ seat \in Humans
  /\ \E op \in Ops, t \in Tile \cup {NoTile} : Decide(op, t)

DecideBot ==
  /\ seat \notin Humans
  /\ \/ \E t \in Range(hand[seat]) : Decide("discard", t)
     \/ /\ "riichi" \in SelfOps
        /\ \E t \in Range(hand[seat]) : Decide("riichi", t)
     \/ /\ "tsumo" \in SelfOps
        /\ Decide("tsumo", NoTile)

-----------------------------------------------------------------------------
(* applyPlay.                                                              *)

\* The tile that leaves the hand: a tsumo that wins nothing falls back to a
\* tile of the hand, and the caller's decision keeps naming the other one.
Thrown == IF decision.op = "tsumo" THEN Range(hand[seat]) ELSE {decision.tile}

Allowed(t) == IF decision.op = "riichi" THEN CanRiichi(t) ELSE CanDiscard(t)

NoWin == decision.op = "tsumo" => CheckWin(hand[seat], seat) = "none"

\* Mutant: the client is told the tile it had asked for.
ThrowTellsDecision ==
  /\ pc = "apply"
  /\ NoWin
  /\ \E t \in Thrown : /\ IF decision.op = "riichi" THEN DeclareRiichi(t)
                                                    ELSE Discard(t)
                       /\ Push("DiscardTile", seat, decision.tile, "poll")
  /\ step' = step + 1
  /\ UNCHANGED <<seat, first, decision, saved, credited>>

Throw ==
  /\ pc = "apply"
  /\ NoWin
  /\ \E t \in Thrown : /\ IF decision.op = "riichi" THEN DeclareRiichi(t)
                                                    ELSE Discard(t)
                       /\ Push("DiscardTile", seat, t, "poll")
  /\ step' = step + 1
  /\ UNCHANGED <<seat, first, decision, saved, credited>>

Reject ==
  /\ pc = "apply"
  /\ NoWin
  /\ \A t \in Thrown : ~Allowed(t)
  /\ pc' = "failed"
  /\ UNCHANGED <<engineVars, loopVars, log, saved, credited>>

WinTsumo ==
  /\ pc = "apply"
  /\ decision.op = "tsumo"
  /\ CheckWin(hand[seat], seat) = "win"
  /\ End(seat)
  /\ \E v \in Values : ResolveTsumo(seat, v)
  /\ Push("Hule", seat, NoTile, "archive")
  /\ UNCHANGED <<wall, seatVars, riichiStick, leftWall, current, loopVars,
                 saved, credited>>

-----------------------------------------------------------------------------
(* askCalls: the seats after the discarder are polled in order, for a ron  *)
(* first.                                                                  *)

Polled(i) == (NextSeat(seat) + i - 1) % NumPlayers

RonCheck(i) == IF riichi[Polled(i)] THEN "none"
                                    ELSE CheckRon(Polled(i), decision.tile)

\* The poll stops at the i-th seat: it wins, or its check panics.  A human
\* seat is checked, and its win passed over.
StopsAt(i) == \/ RonCheck(i) = "panic"
              \/ RonCheck(i) = "win" /\ Polled(i) \notin Humans

FirstStop(i) == StopsAt(i) /\ \A j \in 1 .. (i - 1) : ~StopsAt(j)

WinRon ==
  /\ pc = "poll"
  /\ \E i \in 1 .. (NumPlayers - 1) :
       /\ FirstStop(i)
       /\ RonCheck(i) = "win"
       /\ End(Polled(i))
       /\ \E v \in Values : ResolveRon(Polled(i), seat, v)
       /\ Push("Hule", Polled(i), decision.tile, "turn")
       /\ seat' = Polled(i)
  /\ UNCHANGED <<wall, seatVars, riichiStick, leftWall, current, first, step,
                 decision, saved, credited>>

\* A panic in the drive's goroutine ends the process.
Panic ==
  /\ \/ /\ pc = "poll"
        /\ \E i \in 1 .. (NumPlayers - 1) : FirstStop(i) /\ RonCheck(i) = "panic"
     \/ /\ pc = "apply"
        /\ decision.op = "tsumo"
        /\ CheckWin(hand[seat], seat) = "panic"
  /\ pc' = "crashed"
  /\ UNCHANGED <<engineVars, loopVars, log, saved, credited>>

\* Mutant: a human seat that could win is waited for.
NoRonWaits ==
  /\ pc = "poll"
  /\ \A i \in 1 .. (NumPlayers - 1) : RonCheck(i) = "none"
  /\ pc' = "claim"
  /\ UNCHANGED <<engineVars, loopVars, log, saved, credited>>

NoRon ==
  /\ pc = "poll"
  /\ \A i \in 1 .. (NumPlayers - 1) : ~StopsAt(i)
  /\ pc' = "claim"
  /\ UNCHANGED <<engineVars, loopVars, log, saved, credited>>

\* A bot may decline, so that any seat with a candidate may be the one.
ClaimMeld ==
  /\ pc = "claim"
  /\ Claims
  /\ \E i \in 1 .. (NumPlayers - 1) :
       /\ Polled(i) \notin Humans
       /\ \E type \in Candidates(Polled(i), decision.tile) :
            /\ Call(Polled(i), decision.tile, type)
            /\ Push("ChiPengGang", Polled(i), decision.tile, "turn")
       /\ seat' = Polled(i)
  /\ UNCHANGED <<first, step, decision, saved, credited>>

NoClaim ==
  /\ pc = "claim"
  /\ pc' = "turn"
  /\ seat' = NextSeat(seat)
  /\ UNCHANGED <<engineVars, first, step, decision, log, saved, credited>>

-----------------------------------------------------------------------------
(* archive.                                                                *)

SaveRecord ==
  /\ pc = "archive"
  /\ \/ /\ saved' = [winner |-> winner, scores |-> scores]
        /\ pc' = "credit"
     \/ /\ UNCHANGED saved
        /\ pc' = "failed"
  /\ UNCHANGED <<engineVars, loopVars, log, credited>>

\* Mutant: the achievement is counted first, and stands for the record.
CreditFirst ==
  /\ pc = "archive"
  /\ credited' = TRUE
  /\ pc' = "done"
  /\ UNCHANGED <<engineVars, loopVars, log, saved>>

CreditRound ==
  /\ pc = "credit"
  /\ \/ credited' = TRUE /\ pc' = "done"
     \/ UNCHANGED credited /\ pc' = "failed"
  /\ UNCHANGED <<engineVars, loopVars, log, saved>>

Next == \/ StartRound \/ FirstTurn \/ DrawTile \/ LeaveLoop
        \/ DecideHuman \/ DecideBot
        \/ Throw \/ Reject \/ WinTsumo
        \/ WinRon \/ Panic \/ NoRon \/ ClaimMeld \/ NoClaim
        \/ SaveRecord \/ CreditRound

Spec == Init /\ [][Next]_vars

Fairness == WF_vars(Next)

\* The client answers every turn of its seat, and the goroutine is scheduled.
FairSpec == Spec /\ Fairness

-----------------------------------------------------------------------------
(* Properties.                                                             *)

InPlay == pc \in {"turn", "decide", "apply", "poll", "claim"}

\* The turn playTurns keeps in a local variable, moved by applyPlay's and
\* askCalls' results, is the engine's own: Draw, Discard and DeclareRiichi
\* take no seat and act on r.current, so that the pushes, the bot asked and
\* the hand changed are the same seat's.
SeatIsCurrent ==
  pc \in {"turn", "decide", "apply"} /\ phase = "playing" => seat = current

Pons(s) == PonsIn(melds[s])

\* Who holds a drawn tile: nobody else does while a discard is polled.
HasDrawn(s) == \/ pc \in {"decide", "apply"} /\ s = seat
               \/ pc = "turn" /\ first /\ s = Dealer

\* Between turns a hand and its melds make up HandLen tiles, three to a meld,
\* and one more for every pon: playTurns draws for a caller whatever it
\* called, so that a pon, two tiles for one turn, is never paid back.
HandAccount ==
  InPlay => \A s \in Seat :
              Len(hand[s]) + 3 * Len(melds[s])
                = HandLen + Pons(s) + IF HasDrawn(s) THEN 1 ELSE 0

\* A hand that decides has the length CheckWin reads, fourteen tiles less three
\* a meld, as the comment of Analyze and the test of an open hand have it.
OpenHandsCanWin ==
  pc = "decide" => Len(hand[seat]) = HandLen + 1 - 3 * Len(melds[seat])

\* The claims of a tile told so far.  One is fresh that takes the tile of the
\* discard told just before it, which its pile goes on showing.
ClaimsOf(t) == {j \in DOMAIN log : log[j].name = "ChiPengGang" /\ log[j].tile = t}

Fresh(j) == log[j - 1].name = "DiscardTile" /\ log[j - 1].tile = log[j].tile

\* askCalls is given the tile the decision names: a claim takes the tile freshly
\* discarded, as its comment has it.
ClaimsFreshDiscard ==
  \A j \in DOMAIN log : log[j].name = "ChiPengGang" => Fresh(j)

\* Copies of a tile in the live wall, the hands, the melds and the piles, those
\* left in a pile by the claim that took them apart.
Copies(t) == Sum([s \in Seat |-> AtSeat(s, t)]) + Count(leftWall, t)
               - Cardinality({j \in ClaimsOf(t) : Fresh(j)})

\* Tiles: from the dealer's extra tile on, the table has the tiles of the
\* prescribed wall, each in one place, and one copy too many for every claim of
\* a tile nobody had just thrown: whoever holds that tile holds it still (Draw,
\* Discard, DeclareRiichi and Call, against what askCalls claims).
TilesConserved ==
  phase # "dealing" /\ pc # "failed" =>
    \A t \in Tile :
      Copies(t) = Dealt(t) + Cardinality({j \in ClaimsOf(t) : ~Fresh(j)})

\* DeclareRiichi refuses an open hand, and Candidates offers nothing to a seat
\* in riichi: whatever the order of declarations and claims, no seat is both.
RiichiStaysClosed == \A s \in Seat : riichi[s] => melds[s] = << >>

\* A double riichi is one declared before anybody called a meld: the seat's
\* first discard was pushed before the first claim.
DaburiPrecedesCalls ==
  \A s \in Seat, i, j \in DOMAIN log :
    /\ doubleRiichi[s]
    /\ log[i].name = "DiscardTile" /\ log[i].seat = s
    /\ log[j].name = "ChiPengGang"
    /\ \A k \in 1 .. (i - 1) : ~(log[k].name = "DiscardTile" /\ log[k].seat = s)
    => i < j

\* The pushes of a kind about seat s, by their places in the log.
Told(name, s) == {i \in DOMAIN log : log[i].name = name /\ log[i].seat = s}

\* The k-th push of the kind about s names the k-th of the tiles, and no tile
\* is left.
Shows(name, s, tiles) ==
  /\ Cardinality(Told(name, s)) = Len(tiles)
  /\ \A i \in Told(name, s) :
       log[i].tile = tiles[Cardinality({j \in Told(name, s) : j <= i})]

Melded(s) == [i \in 1 .. Len(melds[s]) |-> melds[s][i].tile]

Deals == {i \in DOMAIN log : log[i].name = "DealTile"}

\* What the client can add up from the pushes is the table: each seat's pile
\* and melds in order, and the tiles gone from the wall (drive.go).
TableTold ==
  pc # "failed" =>
    /\ \A s \in Seat : Shows("DiscardTile", s, discards[s])
    /\ \A s \in Seat : Shows("ChiPengGang", s, Melded(s))
    /\ Cardinality(Deals) + Len(leftWall) = Len(wall.Wall)

\* Step numbers never go back, and two pushes share one only where the loop
\* does not count: what follows a claim, and the exhaustion after a ron.
StepsOrdered ==
  \A i, j \in DOMAIN log :
    i < j => \/ log[i].step < log[j].step
             \/ /\ log[i].step = log[j].step
                /\ j = i + 1
                /\ \/ log[i].name = "ChiPengGang"
                   \/ log[i].name = "Hule" /\ log[j].name = "LiuJu"

\* Only a round whose outcome the client was told is archived, with the scores
\* it settled on and the winner of the last thing pushed.
ArchiveMatchesLastPush ==
  saved # Unsaved =>
    /\ saved.scores = scores
    /\ Last(log).name \in {"Hule", "LiuJu"}
    /\ saved.winner = Last(log).seat

\* End freezes the phase: no tile, meld or point moves afterwards, although
\* neither Draw, Call nor DeclareRiichi looks at the phase.
FrozenAfterEnd ==
  [][phase = "ended" => UNCHANGED <<seatVars, scores, riichiStick, leftWall,
                                    current>>]_vars

\* Every round comes to an end, claims or not, with a client that answers.
RoundEnds == <>(pc \in Ended)

Stage == CASE pc = "start" -> "dealt"
           [] pc = "decide" /\ seat \in Humans -> "asking"
           [] pc = "archive" -> "settled"
           [] pc = "credit" -> "recorded"
           [] pc = "done" -> "done"
           [] pc \in {"failed", "crashed"} -> "lost"
           [] OTHER -> "playing"

Life == INSTANCE Lifecycle WITH stage <- Stage, saved <- saved # Unsaved

\* The drive of a round keeps what Lifecycle promises: the client is told
\* first, a settlement is told before it is stored, stored before it is
\* credited, and nothing follows a failure.
ImplementsLifecycle == Life!Spec

\* The winner announced is the winner the round is archived with, as the
\* comment of Round.Winner has it.
RonIsArchived ==
  \A i \in DOMAIN log :
    log[i].name = "Hule" /\ saved # Unsaved => saved.winner = log[i].seat
=============================================================================
