----------------------------- MODULE DriveProofs -----------------------------
(***************************************************************************)
(* The safety of a round's drive, for every deck, wall, hand length, set   *)
(* of human seats and behaviour of the bots.                               *)
(***************************************************************************)
EXTENDS Drive, EngineProofs

\* Where the loop is fixes the engine's phase and whose turn it is.
Control ==
  /\ pc = "start" => /\ phase = "dealing"
                     /\ seat = Dealer
                     /\ first
                     /\ hand = wall.Hands
                     /\ melds = [s \in Seat |-> << >>]
                     /\ log = << >>
  /\ phase = "dealing" => pc = "start"
  /\ pc \in {"decide", "apply", "poll", "claim"} => phase = "playing"
  /\ pc \in {"archive", "credit"} => phase = "ended"
  /\ pc \in {"poll", "claim"} => current = NextSeat(seat)
  /\ first => pc \notin {"decide", "apply", "poll", "claim"}
  /\ pc = "turn" /\ first => seat = Dealer /\ phase = "playing"

\* Nothing is played after a win has been announced.
HuleEnds == (\E i \in DOMAIN log : log[i].name = "Hule") => phase = "ended"

\* The pushes so far against the number of the next one.
StepCount ==
  /\ pc = "start" => step = 0 /\ log = << >>
  /\ \A i \in DOMAIN log : log[i].step <= step
  /\ pc = "turn" /\ first => \A i \in DOMAIN log : log[i].step < step
  /\ pc \in {"decide", "apply", "poll", "claim"} =>
       \A i \in DOMAIN log : log[i].step < step
  /\ pc = "turn" =>
       \A i \in DOMAIN log :
         log[i].step = step =>
           i = Len(log) /\ log[i].name \in {"ChiPengGang", "Hule"}

\* The record, once saved, is of the round as it ended.
Archiving ==
  /\ pc \in {"archive", "credit"} =>
       /\ log # << >>
       /\ Last(log).name \in {"Hule", "LiuJu"}
       /\ Last(log).seat = winner
  /\ saved # Unsaved =>
       /\ pc \in {"credit", "done", "failed"}
       /\ saved = [winner |-> winner, scores |-> scores]
       /\ log # << >>
       /\ Last(log).name \in {"Hule", "LiuJu"}
       /\ Last(log).seat = winner

-----------------------------------------------------------------------------
(* Types.                                                                  *)

\* A push appends one event of the current step, or loses the client.
LEMMA Pushed ==
  ASSUME NEW name, NEW s, NEW t, NEW next, Push(name, s, t, next),
         log \in Seq(Event), step \in Nat,
         [name |-> name, seat |-> s, tile |-> t, step |-> step] \in Event
  PROVE  /\ log' \in Seq(Event)
         /\ pc' \in {next, "failed"}
         /\ \/ log' = log
            \/ log' = Append(log, [name |-> name, seat |-> s, tile |-> t,
                                   step |-> step])
<1> DEFINE e == [name |-> name, seat |-> s, tile |-> t, step |-> step]
<1>1. \/ log' = Append(log, e) /\ pc' = next
      \/ log' = log /\ pc' = "failed"
  BY DEF Push
<1>2. e \in Event
  OBVIOUS
<1> HIDE DEF e
<1>3. Append(log, e) \in Seq(Event)
  BY <1>2, AppendProperties
<1>4. log' \in Seq(Event) /\ pc' \in {next, "failed"}
  BY <1>1, <1>3
<1> QED
  BY <1>1, <1>4 DEF e

LEMMA InitType == Init => TypeOK
<1> SUFFICES ASSUME Init PROVE TypeOK
  OBVIOUS
<1>1. PICK w \in Walls : NewRound(w)
  BY DEF Init
<1>2. /\ w.Hands \in [Seat -> Seq(Tile)]
      /\ w.Wall \in Seq(Tile)
      /\ InitialScore \in Nat
  BY EngineAssumption DEF Wall
<1>3. EngineTypeOK
  BY <1>1, <1>2, SeatFacts DEF NewRound, EngineTypeOK
<1>4. DriveTypeOK
  <2>1. decision \in Decision
    BY DEF Init, Decision, Ops
  <2>2. log \in Seq(Event) /\ seat \in Seat
    BY SeatFacts DEF Init, Dealer
  <2> QED
    BY <2>1, <2>2 DEF Init, DriveTypeOK
<1> QED
  BY <1>3, <1>4 DEF TypeOK

LEMMA NextType == TypeOK /\ [Next]_vars => TypeOK'
<1> SUFFICES ASSUME TypeOK, [Next]_vars
             PROVE  EngineTypeOK' /\ DriveTypeOK'
  BY DEF TypeOK
<1> USE DEF TypeOK, DriveTypeOK
<1>0. UNCHANGED engineVars => EngineTypeOK'
  BY DEF engineVars, seatVars, EngineTypeOK
<1>1. CASE StartRound
  <2>1. EngineTypeOK'
    BY <1>1, StartType DEF StartRound
  <2>2. log' \in Seq(Event) /\ pc' \in {"turn", "failed"}
    BY <1>1, Pushed, SeatFacts DEF StartRound, Event
  <2> QED
    BY <1>1, <2>1, <2>2 DEF StartRound, Ended
<1>2. CASE FirstTurn
  BY <1>0, <1>2 DEF FirstTurn
<1>3. CASE DrawTile
  <2>1. EngineTypeOK' /\ Head(leftWall) \in Tile
    BY <1>3, DrawType DEF DrawTile
  <2>2. log' \in Seq(Event) /\ pc' \in {"decide", "failed"}
    BY <1>3, <2>1, Pushed DEF DrawTile, Event
  <2> QED
    BY <1>3, <2>1, <2>2 DEF DrawTile, Ended
<1>4. CASE LeaveLoop
  <2>1. log' \in Seq(Event) /\ pc' \in {"archive", "failed"}
    BY <1>4, Pushed DEF LeaveLoop, Event
  <2> QED
    BY <1>4, <2>1 DEF LeaveLoop, End, seatVars, loopVars, Ended, EngineTypeOK
<1>5. CASE DecideHuman \/ DecideBot
  <2>1. \E op \in Ops, t \in Tile \cup {NoTile} : Decide(op, t)
    <3>1. Range(hand[seat]) \subseteq Tile
      BY DEF Range, EngineTypeOK
    <3> QED
      BY <1>5, <3>1 DEF DecideHuman, DecideBot, Ops
  <2> QED
    BY <1>0, <2>1 DEF Decide, Decision
<1>6. CASE Throw
  <2>1. PICK t \in Thrown : /\ DeclareRiichi(t) \/ Discard(t)
                            /\ Push("DiscardTile", seat, t, "poll")
    BY <1>6 DEF Throw
  <2>2. EngineTypeOK' /\ t \in Tile
    BY <2>1, DiscardType, RiichiType
  <2>3. log' \in Seq(Event) /\ pc' \in {"poll", "failed"}
    BY <2>1, <2>2, Pushed DEF Event
  <2> QED
    BY <1>6, <2>2, <2>3 DEF Throw, Ended
<1>7. CASE Reject
  BY <1>0, <1>7 DEF Reject, loopVars, Ended
<1>8. CASE WinTsumo
  <2>1. log' \in Seq(Event) /\ pc' \in {"archive", "failed"}
    BY <1>8, Pushed DEF WinTsumo, Event
  <2>2. scores' \in [Seat -> Int]
    BY <1>8, TsumoType DEF WinTsumo, EngineTypeOK
  <2> QED
    BY <1>8, <2>1, <2>2 DEF WinTsumo, End, seatVars, loopVars, Ended, EngineTypeOK
<1>9. CASE WinRon
  <2>1. PICK i \in 1 .. (NumPlayers - 1) :
          /\ End(Polled(i))
          /\ \E v \in Values : ResolveRon(Polled(i), seat, v)
          /\ Push("Hule", Polled(i), decision.tile, "turn")
          /\ seat' = Polled(i)
    BY <1>9 DEF WinRon
  <2>2. Polled(i) \in Seat
    BY SeatFacts DEF Polled
  <2>3. log' \in Seq(Event) /\ pc' \in {"turn", "failed"}
    BY <2>1, <2>2, Pushed DEF Event, Decision
  <2>4. scores' \in [Seat -> Int]
    BY <2>1, <2>2, RonType DEF EngineTypeOK
  <2> QED
    BY <1>9, <2>1, <2>2, <2>3, <2>4 DEF WinRon, End, seatVars, Ended, EngineTypeOK
<1>10. CASE Panic
  BY <1>0, <1>10 DEF Panic, loopVars, Ended
<1>11. CASE NoRon
  BY <1>0, <1>11 DEF NoRon, loopVars
<1>12. CASE ClaimMeld
  <2>1. PICK i \in 1 .. (NumPlayers - 1), type \in MeldTypes :
          /\ decision.tile # NoTile
          /\ Call(Polled(i), decision.tile, type)
          /\ Push("ChiPengGang", Polled(i), decision.tile, "turn")
          /\ seat' = Polled(i)
    BY <1>12 DEF ClaimMeld, Candidates
  <2>2. Polled(i) \in Seat /\ decision.tile \in Tile
    BY <2>1, SeatFacts DEF Polled, Decision
  <2>3. EngineTypeOK'
    BY <2>1, <2>2, CallType
  <2>4. log' \in Seq(Event) /\ pc' \in {"turn", "failed"}
    BY <2>1, <2>2, Pushed DEF Event
  <2> QED
    BY <1>12, <2>1, <2>2, <2>3, <2>4 DEF ClaimMeld, Ended
<1>13. CASE NoClaim
  BY <1>0, <1>13, SeatFacts DEF NoClaim
<1>14. CASE SaveRecord
  <2>1. [winner |-> winner, scores |-> scores] \in Record
    BY DEF Record, EngineTypeOK
  <2> QED
    BY <1>0, <1>14, <2>1 DEF SaveRecord, loopVars, Ended
<1>15. CASE CreditRound
  BY <1>0, <1>15 DEF CreditRound, loopVars, Ended
<1>16. CASE UNCHANGED vars
  BY <1>0, <1>16 DEF vars, driveVars, loopVars
<1> QED
  BY <1>1, <1>2, <1>3, <1>4, <1>5, <1>6, <1>7, <1>8, <1>9, <1>10, <1>11,
     <1>12, <1>13, <1>14, <1>15, <1>16 DEF Next

\* Every variable of the engine and of the drive keeps its type.
THEOREM TypeCorrect == Spec => []TypeOK
<1>1. Init => TypeOK
  BY InitType
<1>2. TypeOK /\ [Next]_vars => TypeOK'
  BY NextType
<1> QED
  BY <1>1, <1>2, PTL DEF Spec

-----------------------------------------------------------------------------
(* Control.                                                                *)

LEMMA InitControl == Init => Control /\ SeatIsCurrent
BY DEF Init, NewRound, Control, SeatIsCurrent, Dealer

LEMMA NextControl ==
  TypeOK /\ Control /\ SeatIsCurrent /\ [Next]_vars
    => Control' /\ SeatIsCurrent'
<1> SUFFICES ASSUME TypeOK, Control, SeatIsCurrent, [Next]_vars
             PROVE  Control' /\ SeatIsCurrent'
  OBVIOUS
<1> USE DEF Control, SeatIsCurrent
<1>0. /\ phase \in {"dealing", "playing", "ended"}
      /\ pc \in {"turn", "decide", "apply"} /\ phase # "ended"
           => phase = "playing" /\ seat = current
  BY DEF TypeOK, EngineTypeOK
<1>1. CASE StartRound
  BY <1>1 DEF StartRound, Start, Push
<1>2. CASE FirstTurn
  BY <1>0, <1>2 DEF FirstTurn, Playable, Current, engineVars, seatVars
<1>3. CASE DrawTile
  BY <1>0, <1>3 DEF DrawTile, Draw, Playable, Current, Push
<1>4. CASE LeaveLoop
  BY <1>4 DEF LeaveLoop, End, Push, loopVars, seatVars
<1>5. CASE DecideHuman \/ DecideBot
  BY <1>5 DEF DecideHuman, DecideBot, Decide, engineVars, seatVars
<1>6. CASE Throw
  <2>1. PICK t \in Thrown : /\ DeclareRiichi(t) \/ Discard(t)
                            /\ Push("DiscardTile", seat, t, "poll")
    BY <1>6 DEF Throw
  <2>2. current' = NextSeat(current) /\ phase' = phase
    BY <2>1 DEF DeclareRiichi, Discard
  <2> QED
    BY <1>0, <1>6, <2>1, <2>2 DEF Throw, Push
<1>7. CASE Reject
  BY <1>7 DEF Reject, engineVars, seatVars, loopVars
<1>8. CASE WinTsumo
  BY <1>8 DEF WinTsumo, End, Push, seatVars, loopVars
<1>9. CASE WinRon
  BY <1>9 DEF WinRon, End, Push, seatVars
<1>10. CASE Panic
  BY <1>10 DEF Panic, engineVars, seatVars, loopVars
<1>11. CASE NoRon
  BY <1>11 DEF NoRon, engineVars, seatVars, loopVars
<1>12. CASE ClaimMeld
  BY <1>12 DEF ClaimMeld, Call, Push
<1>13. CASE NoClaim
  BY <1>13 DEF NoClaim, engineVars, seatVars
<1>14. CASE SaveRecord
  BY <1>14 DEF SaveRecord, engineVars, seatVars, loopVars
<1>15. CASE CreditRound
  BY <1>15 DEF CreditRound, engineVars, seatVars, loopVars
<1>16. CASE UNCHANGED vars
  BY <1>16 DEF vars, driveVars, engineVars, seatVars, loopVars
<1> QED
  BY <1>1, <1>2, <1>3, <1>4, <1>5, <1>6, <1>7, <1>8, <1>9, <1>10, <1>11,
     <1>12, <1>13, <1>14, <1>15, <1>16 DEF Next

\* While a round is in play, the seat the loop asks and draws for is the one
\* whose hand Draw, Discard and DeclareRiichi change.
THEOREM TurnAgreed == Spec => []SeatIsCurrent
<1>1. Init => TypeOK /\ Control /\ SeatIsCurrent
  BY InitType, InitControl
<1>2. TypeOK /\ Control /\ SeatIsCurrent /\ [Next]_vars
        => (TypeOK /\ Control /\ SeatIsCurrent)'
  BY NextType, NextControl
<1> QED
  BY <1>1, <1>2, PTL DEF Spec
-----------------------------------------------------------------------------
(* Points.                                                                 *)

\* The seats polled are the three others.
LEMMA PolledOthers ==
  ASSUME seat \in Seat, NEW i \in 1 .. (NumPlayers - 1)
  PROVE  Polled(i) \in Seat \ {seat}
<1>1. Polled(i) = (((seat + 1) % 4) + i - 1) % 4
  BY DEF Polled, NextSeat, NumPlayers
<1>2. seat \in {0, 1, 2, 3} /\ i \in {1, 2, 3}
  BY SeatFacts DEF NumPlayers
<1>3. (seat + 1) % 4 = IF seat = 3 THEN 0 ELSE seat + 1
  BY <1>2
<1>4. \A n \in 0 .. 5 : n % 4 = IF n > 3 THEN n - 4 ELSE n
  OBVIOUS
<1> QED
  BY <1>1, <1>2, <1>3, <1>4, SeatFacts

LEMMA InitPoints == Init => PointsConserved
<1> SUFFICES ASSUME Init PROVE PointsConserved
  OBVIOUS
<1>1. scores = [s \in Seat |-> InitialScore] /\ riichiStick = 0
  BY DEF Init, NewRound
<1>2. InitialScore \in Nat
  BY EngineAssumption
<1> QED
  BY <1>1, <1>2, SeatFacts DEF PointsConserved, Sum, NumPlayers

LEMMA NextPoints ==
  TypeOK /\ PointsConserved /\ [Next]_vars => PointsConserved'
<1> SUFFICES ASSUME TypeOK, PointsConserved, [Next]_vars
             PROVE  Sum(scores') + 1000 * riichiStick'
                      = Sum(scores) + 1000 * riichiStick
  BY DEF PointsConserved, Sum
<1>0. scores \in [Seat -> Int] /\ seat \in Seat
  BY DEF TypeOK, EngineTypeOK, DriveTypeOK
<1>1. CASE UNCHANGED <<scores, riichiStick>>
  BY <1>1
<1>2. CASE Throw
  <2>1. PICK t \in Thrown : DeclareRiichi(t) \/ Discard(t)
    BY <1>2 DEF Throw
  <2>2. CASE Discard(t)
    BY <1>1, <2>2 DEF Discard
  <2>3. CASE DeclareRiichi(t)
    BY <2>3, RiichiPays DEF TypeOK
  <2> QED
    BY <2>1, <2>2, <2>3
<1>3. CASE WinTsumo
  <2>1. Sum(scores') = Sum(scores)
    BY <1>0, <1>3, TsumoKeepsSum DEF WinTsumo
  <2> QED
    BY <1>3, <2>1 DEF WinTsumo
<1>4. CASE WinRon
  <2>1. PICK i \in 1 .. (NumPlayers - 1), v \in Values :
          ResolveRon(Polled(i), seat, v)
    BY <1>4 DEF WinRon
  <2>2. Polled(i) \in Seat /\ seat \in Seat \ {Polled(i)}
    BY <1>0, PolledOthers
  <2>3. Sum(scores') = Sum(scores)
    BY <1>0, <2>1, <2>2, RonKeepsSum
  <2> QED
    BY <1>4, <2>3 DEF WinRon
<1>5. CASE StartRound \/ FirstTurn \/ DrawTile \/ LeaveLoop
  BY <1>1, <1>5 DEF StartRound, Start, FirstTurn, DrawTile, Draw, LeaveLoop,
                    engineVars
<1>6. CASE DecideHuman \/ DecideBot
  BY <1>1, <1>6 DEF DecideHuman, DecideBot, Decide, engineVars
<1>7. CASE Reject \/ Panic \/ NoRon \/ NoClaim \/ SaveRecord \/ CreditRound
  BY <1>1, <1>7 DEF Reject, Panic, NoRon, NoClaim, SaveRecord, CreditRound,
                    engineVars
<1>8. CASE ClaimMeld
  BY <1>1, <1>8 DEF ClaimMeld, Call
<1>9. CASE UNCHANGED vars
  BY <1>1, <1>9 DEF vars, engineVars
<1> QED
  BY <1>2, <1>3, <1>4, <1>5, <1>6, <1>7, <1>8, <1>9 DEF Next

\* The points of the seats and of the sticks on the table always add up to
\* what the round began with, for every payment table the wins may draw on.
THEOREM PointsKept == Spec => []PointsConserved
<1>1. Init => TypeOK /\ PointsConserved
  BY InitType, InitPoints
<1>2. TypeOK /\ PointsConserved /\ [Next]_vars => (TypeOK /\ PointsConserved)'
  BY NextType, NextPoints
<1> QED
  BY <1>1, <1>2, PTL DEF Spec
-----------------------------------------------------------------------------
(* Riichi.                                                                 *)

LEMMA InitRiichi == Init => RiichiStaysClosed
BY DEF Init, NewRound, RiichiStaysClosed

LEMMA NextRiichi ==
  TypeOK /\ RiichiStaysClosed /\ [Next]_vars => RiichiStaysClosed'
<1> SUFFICES ASSUME TypeOK, RiichiStaysClosed, [Next]_vars
             PROVE  RiichiStaysClosed'
  OBVIOUS
<1>0. /\ riichi \in [Seat -> BOOLEAN] /\ melds \in [Seat -> Seq(Meld)]
      /\ seat \in Seat /\ current \in Seat
  BY DEF TypeOK, EngineTypeOK, DriveTypeOK
<1>1. CASE UNCHANGED <<riichi, melds>>
  BY <1>1 DEF RiichiStaysClosed
<1>2. CASE Throw
  <2>1. PICK t \in Thrown : DeclareRiichi(t) \/ Discard(t)
    BY <1>2 DEF Throw
  <2>2. CASE Discard(t)
    BY <1>1, <2>2 DEF Discard
  <2>3. CASE DeclareRiichi(t)
    BY <1>0, <2>3 DEF DeclareRiichi, CanRiichi, RiichiStaysClosed
  <2> QED
    BY <2>1, <2>2, <2>3
<1>3. CASE ClaimMeld
  <2>1. PICK i \in 1 .. (NumPlayers - 1), type \in MeldTypes :
          /\ ~riichi[Polled(i)]
          /\ Call(Polled(i), decision.tile, type)
    BY <1>3 DEF ClaimMeld, Candidates
  <2>2. \A s \in Seat : s # Polled(i) => melds'[s] = melds[s]
    BY <1>0, <2>1 DEF Call
  <2> QED
    BY <1>0, <2>1, <2>2 DEF Call, RiichiStaysClosed
<1>4. CASE Next /\ ~Throw /\ ~ClaimMeld
  BY <1>1, <1>4
     DEF Next, StartRound, Start, FirstTurn, DrawTile, Draw, LeaveLoop,
         DecideHuman, DecideBot, Decide, Reject, WinTsumo, WinRon, Panic,
         NoRon, NoClaim, SaveRecord, CreditRound, engineVars, seatVars
<1>5. CASE UNCHANGED vars
  BY <1>1, <1>5 DEF vars, engineVars, seatVars
<1> QED
  BY <1>2, <1>3, <1>4, <1>5

\* A seat in riichi has a closed hand.
THEOREM RiichiClosed == Spec => []RiichiStaysClosed
<1>1. Init => TypeOK /\ RiichiStaysClosed
  BY InitType, InitRiichi
<1>2. TypeOK /\ RiichiStaysClosed /\ [Next]_vars
        => (TypeOK /\ RiichiStaysClosed)'
  BY NextType, NextRiichi
<1> QED
  BY <1>1, <1>2, PTL DEF Spec
-----------------------------------------------------------------------------
(* Hands.                                                                  *)

LEMMA InitHands == Init => HandAccount
BY DEF Init, HandAccount, InPlay

\* The lengths the account adds up.
LEMMA AccountType ==
  ASSUME EngineTypeOK, NEW s \in Seat
  PROVE  Len(hand[s]) \in Nat /\ Len(melds[s]) \in Nat /\ Pons(s) \in Nat
<1>1. hand[s] \in Seq(Tile) /\ melds[s] \in Seq(Meld)
  BY DEF EngineTypeOK
<1>2. Pons(s) \in Nat
  <2>1. IsFiniteSet(DOMAIN melds[s])
    <3> DEFINE n == Len(melds[s])
    <3>1. DOMAIN melds[s] = 1 .. n /\ n \in Int /\ 1 \in Int
      BY <1>1
    <3>2. IsFiniteSet(1 .. n)
      BY <3>1, FS_Interval
    <3> QED
      BY <3>1, <3>2
  <2>2. IsFiniteSet({i \in DOMAIN melds[s] : melds[s][i].type = "pon"})
    BY <2>1, FS_Subset
  <2> QED
    BY <2>2, FS_CardinalityType DEF Pons, PonsIn
<1> QED
  BY <1>1, <1>2

\* A hand without melds and without pons.
LEMMA NoPons == PonsIn(<< >>) = 0
<1>1. {i \in DOMAIN << >> : << >>[i].type = "pon"} = {}
  OBVIOUS
<1> QED
  BY <1>1, FS_EmptySet DEF PonsIn

LEMMA NextHands ==
  /\ TypeOK /\ Control /\ SeatIsCurrent /\ HandAccount
  /\ [Next]_vars
  => HandAccount'
<1> SUFFICES ASSUME TypeOK, Control, SeatIsCurrent, HandAccount, [Next]_vars,
                    InPlay', NEW s \in Seat
             PROVE  Len(hand'[s]) + 3 * Len(melds'[s])
                      = HandLen + PonsIn(melds'[s])
                          + IF HasDrawn(s)' THEN 1 ELSE 0
  BY DEF HandAccount, Pons
<1> USE DEF InPlay
<1>0. /\ hand \in [Seat -> Seq(Tile)] /\ melds \in [Seat -> Seq(Meld)]
      /\ seat \in Seat /\ current \in Seat /\ HandLen \in Nat
      /\ phase \in {"dealing", "playing", "ended"}
      /\ Len(hand[s]) \in Nat /\ Len(melds[s]) \in Nat /\ PonsIn(melds[s]) \in Nat
  <2>1. /\ hand \in [Seat -> Seq(Tile)] /\ melds \in [Seat -> Seq(Meld)]
        /\ seat \in Seat /\ current \in Seat
        /\ phase \in {"dealing", "playing", "ended"}
    BY DEF TypeOK, EngineTypeOK, DriveTypeOK
  <2>2. HandLen \in Nat
    BY YakuAssumption DEF HandLen
  <2>3. /\ Len(hand[s]) \in Nat /\ Len(melds[s]) \in Nat
        /\ PonsIn(melds[s]) \in Nat
    BY AccountType DEF Pons, TypeOK
  <2> QED
    BY <2>1, <2>2, <2>3
<1>1. pc # "start" => Len(hand[s]) + 3 * Len(melds[s])
                        = HandLen + PonsIn(melds[s])
                            + IF HasDrawn(s) THEN 1 ELSE 0
  <2>1. pc \in {"archive", "credit"} \cup Ended => ~InPlay'
    <3> SUFFICES ASSUME pc \in {"archive", "credit"} \cup Ended PROVE ~InPlay'
      OBVIOUS
    <3>1. SaveRecord \/ CreditRound \/ UNCHANGED vars
      <4>1. ~(StartRound \/ FirstTurn \/ DrawTile \/ LeaveLoop)
        BY DEF Ended, StartRound, FirstTurn, DrawTile, LeaveLoop
      <4>2. ~(DecideHuman \/ DecideBot \/ Throw \/ Reject \/ WinTsumo)
        BY DEF Ended, DecideHuman, DecideBot, Decide, Throw, Reject, WinTsumo
      <4>3. ~(WinRon \/ Panic \/ NoRon \/ ClaimMeld \/ NoClaim)
        BY DEF Ended, WinRon, Panic, NoRon, ClaimMeld, NoClaim
      <4> QED
        BY <4>1, <4>2, <4>3 DEF Next
    <3> QED
      BY <3>1 DEF Ended, SaveRecord, CreditRound, vars, driveVars
  <2> QED
    BY <2>1 DEF HandAccount, Pons, TypeOK, DriveTypeOK
<1>2. pc \in {"turn", "decide", "apply"} /\ phase # "ended" => seat = current
  BY <1>0 DEF SeatIsCurrent, Control
<1>3. CASE StartRound
  <2>1. /\ hand = wall.Hands /\ melds = [i \in Seat |-> << >>]
        /\ first /\ seat = Dealer /\ wall \in Walls
    BY <1>3 DEF StartRound, Control, TypeOK, EngineTypeOK
  <2>2. Len(hand[s]) = HandLen
    BY <2>1, EngineAssumption
  <2>3. hand'[s] = IF s = Dealer THEN Append(hand[s], wall.DealerExtra) ELSE hand[s]
    BY <1>0, <1>3 DEF StartRound, Start
  <2>4. Len(hand'[s]) = HandLen + IF s = Dealer THEN 1 ELSE 0
    <3>1. wall.DealerExtra \in Tile
      BY <2>1, EngineAssumption DEF Wall
    <3>2. Len(Append(hand[s], wall.DealerExtra)) = Len(hand[s]) + 1
      BY <1>0, <3>1, AppendProperties
    <3> QED
      BY <1>0, <2>2, <2>3, <3>2
  <2>5. melds'[s] = << >> /\ first' /\ pc' = "turn"
    BY <1>3, <2>1 DEF StartRound, Start, Push
  <2>6. HasDrawn(s)' <=> s = Dealer
    BY <2>5 DEF HasDrawn
  <2> QED
    BY <1>0, <2>4, <2>5, <2>6, NoPons
<1>4. CASE FirstTurn
  <2>1. HasDrawn(s)' <=> HasDrawn(s)
    BY <1>0, <1>4 DEF FirstTurn, Control, HasDrawn
  <2> QED
    BY <1>0, <1>1, <1>4, <2>1 DEF FirstTurn, engineVars, seatVars
<1>5. CASE DrawTile
  <2>1. seat = current /\ ~first /\ pc = "turn" /\ pc' = "decide" /\ seat' = seat
    BY <1>2, <1>5 DEF DrawTile, Playable, Current, Push
  <2>2. Head(leftWall) \in Tile
    BY <1>5, DrawType DEF DrawTile, TypeOK
  <2>3. hand'[s] = IF s = seat THEN Append(hand[s], Head(leftWall)) ELSE hand[s]
    BY <1>0, <1>5, <2>1 DEF DrawTile, Draw
  <2>4. Len(hand'[s]) = Len(hand[s]) + IF s = seat THEN 1 ELSE 0
    <3>1. Len(Append(hand[s], Head(leftWall))) = Len(hand[s]) + 1
      BY <1>0, <2>2, AppendProperties
    <3> QED
      BY <1>0, <2>3, <3>1
  <2>5. melds' = melds
    BY <1>5 DEF DrawTile, Draw
  <2>6. ~HasDrawn(s) /\ (HasDrawn(s)' <=> s = seat)
    BY <2>1 DEF HasDrawn
  <2>7. Len(hand[s]) + 3 * Len(melds[s]) = HandLen + PonsIn(melds[s])
    BY <1>0, <1>1, <2>1, <2>6
  <2>8. CASE s = seat
    BY <1>0, <2>4, <2>5, <2>6, <2>7, <2>8
  <2>9. CASE s # seat
    BY <1>0, <2>4, <2>5, <2>6, <2>7, <2>9
  <2> QED
    BY <2>8, <2>9
<1>6. CASE DecideHuman \/ DecideBot
  <2>1. HasDrawn(s)' <=> HasDrawn(s)
    BY <1>6 DEF DecideHuman, DecideBot, Decide, HasDrawn
  <2> QED
    BY <1>0, <1>1, <1>6, <2>1
       DEF DecideHuman, DecideBot, Decide, engineVars, seatVars
<1>7. CASE Throw
  <2>1. PICK t \in Thrown : /\ DeclareRiichi(t) \/ Discard(t)
                            /\ Push("DiscardTile", seat, t, "poll")
    BY <1>7 DEF Throw
  <2>2. seat = current /\ pc = "apply" /\ pc' = "poll" /\ seat' = seat
    BY <1>2, <1>7, <2>1 DEF Throw, Push, Control
  <2>3. /\ Holds(hand[seat], t) /\ melds' = melds
        /\ hand'[s] = IF s = seat THEN Without(hand[s], t) ELSE hand[s]
    BY <1>0, <2>1, <2>2 DEF DeclareRiichi, CanRiichi, Discard, CanDiscard
  <2>4. Len(hand'[s]) = Len(hand[s]) - IF s = seat THEN 1 ELSE 0
    BY <1>0, <2>3, WithoutShorter
  <2>5. ~HasDrawn(s)' /\ (HasDrawn(s) <=> s = seat)
    BY <2>2 DEF HasDrawn
  <2>6. Len(hand[s]) + 3 * Len(melds[s])
          = HandLen + PonsIn(melds[s]) + IF s = seat THEN 1 ELSE 0
    BY <1>1, <2>2, <2>5
  <2>7. CASE s = seat
    <3>1. Len(hand'[s]) = Len(hand[s]) - 1
      BY <1>0, <2>4, <2>7
    <3>2. Len(hand[s]) + 3 * Len(melds[s]) = HandLen + PonsIn(melds[s]) + 1
      BY <1>0, <2>6, <2>7
    <3>3. melds'[s] = melds[s]
      BY <2>3
    <3> QED
      BY <1>0, <2>5, <3>1, <3>2, <3>3
  <2>8. CASE s # seat
    BY <1>0, <2>3, <2>4, <2>5, <2>6, <2>8
  <2> QED
    BY <2>7, <2>8
<1>8. CASE WinRon \/ NoRon \/ NoClaim
  <2>1. /\ pc \in {"poll", "claim"} /\ pc' \in {"turn", "claim", "failed"}
        /\ first' = first /\ melds' = melds /\ hand' = hand
    BY <1>8 DEF WinRon, NoRon, NoClaim, Push, engineVars, seatVars, loopVars
  <2>2. ~HasDrawn(s)' /\ ~HasDrawn(s)
    BY <2>1 DEF Control, HasDrawn
  <2>3. Len(hand[s]) + 3 * Len(melds[s]) = HandLen + PonsIn(melds[s])
    BY <1>0, <1>1, <2>1, <2>2
  <2> QED
    BY <1>0, <2>1, <2>2, <2>3
<1>10. CASE ClaimMeld
  <2>1. PICK i \in 1 .. (NumPlayers - 1), type \in MeldTypes :
          /\ decision.tile # NoTile
          /\ Call(Polled(i), decision.tile, type)
          /\ Push("ChiPengGang", Polled(i), decision.tile, "turn")
    BY <1>10 DEF ClaimMeld, Candidates
  <2> DEFINE t == decision.tile
             q == Polled(i)
             x == [type |-> type, tile |-> t]
  <2>2. q \in Seat /\ t \in Tile /\ x \in Meld /\ pc' = "turn" /\ pc = "claim"
    BY <1>0, <1>10, <2>1, PolledOthers
       DEF ClaimMeld, Push, Decision, Meld, TypeOK, DriveTypeOK
  <2> HIDE DEF t, q, x
  <2>3. /\ CanMeld(hand[q], t, type)
        /\ hand' = [hand EXCEPT ![q] = WithoutMelded(@, t, type)]
        /\ melds' = [melds EXCEPT ![q] = Append(@, x)]
    BY <2>1 DEF Call, t, q, x
  <2>4. ~first' /\ first' = first
    BY <1>10 DEF ClaimMeld, Control
  <2>5. ~HasDrawn(s)' /\ ~HasDrawn(s)
    BY <2>2, <2>4 DEF HasDrawn
  <2>6. Len(hand[s]) + 3 * Len(melds[s]) = HandLen + PonsIn(melds[s])
    BY <1>0, <1>1, <2>2, <2>5
  <2>7. CASE s # q
    <3>1. hand'[s] = hand[s] /\ melds'[s] = melds[s]
      BY <1>0, <2>2, <2>3, <2>7
    <3> QED
      BY <1>0, <2>5, <2>6, <3>1
  <2>8. CASE s = q
    <3>1. /\ hand'[s] = WithoutMelded(hand[s], t, type)
          /\ melds'[s] = Append(melds[s], x)
      BY <1>0, <2>3, <2>8
    <3>2. Len(hand'[s]) = Len(hand[s]) - (MeldSize(type) - 1)
      BY <1>0, <2>3, <2>8, <3>1, MeldedShorter
    <3>3. Len(melds'[s]) = Len(melds[s]) + 1
      BY <1>0, <2>2, <3>1, AppendProperties
    <3>4. PonsIn(melds'[s]) = PonsIn(melds[s]) + IF type = "pon" THEN 1 ELSE 0
      <4>1. x.type = type
        BY DEF x
      <4> QED
        BY <1>0, <2>2, <3>1, <4>1, PonsAppended
    <3>5. \/ type = "pon" /\ MeldSize(type) = 3
          \/ type # "pon" /\ MeldSize(type) = 4
      BY DEF MeldSize, MeldTypes
    <3>6. Len(hand'[s]) + 3 * Len(melds'[s]) = HandLen + PonsIn(melds'[s])
      <4> DEFINE l == Len(hand[s])
                 m == Len(melds[s])
                 p == PonsIn(melds[s])
      <4>1. \/ Len(hand'[s]) = l - 2 /\ PonsIn(melds'[s]) = p + 1
            \/ Len(hand'[s]) = l - 3 /\ PonsIn(melds'[s]) = p + 0
        BY <1>0, <3>2, <3>4, <3>5
      <4>2. l \in Nat /\ m \in Nat /\ p \in Nat /\ HandLen \in Nat
        BY <1>0
      <4>3. l + 3 * m = HandLen + p /\ Len(melds'[s]) = m + 1
        BY <2>6, <3>3
      <4> HIDE DEF l, m, p
      <4>4. /\ (l - 2) + 3 * (m + 1) = HandLen + (p + 1)
            /\ (l - 3) + 3 * (m + 1) = HandLen + (p + 0)
        BY <4>2, <4>3
      <4> QED
        BY <4>1, <4>3, <4>4
    <3>7. PonsIn(melds'[s]) \in Nat
      BY <1>0, <3>4
    <3>8. HandLen + PonsIn(melds'[s]) + (IF HasDrawn(s)' THEN 1 ELSE 0)
            = HandLen + PonsIn(melds'[s])
      BY <1>0, <2>5, <3>7
    <3> QED
      BY <3>6, <3>8
  <2> QED
    BY <2>7, <2>8
<1>11. CASE LeaveLoop \/ Reject \/ WinTsumo \/ Panic \/ SaveRecord \/ CreditRound
  BY <1>11 DEF LeaveLoop, Reject, WinTsumo, Panic, SaveRecord, CreditRound, Push
<1>12. CASE UNCHANGED vars
  <2>1. pc # "start" /\ (HasDrawn(s)' <=> HasDrawn(s))
    BY <1>12 DEF vars, driveVars, loopVars, HasDrawn
  <2> QED
    BY <1>0, <1>1, <1>12, <2>1 DEF vars, engineVars, seatVars
<1> QED
  BY <1>3, <1>4, <1>5, <1>6, <1>7, <1>8, <1>10, <1>11, <1>12 DEF Next

\* The tiles of every seat, between turns and during one, whatever was called.
THEOREM HandsAccounted == Spec => []HandAccount
<1> DEFINE I == TypeOK /\ Control /\ SeatIsCurrent /\ HandAccount
<1>1. Init => I
  BY InitType, InitControl, InitHands
<1>2. I /\ [Next]_vars => I'
  BY NextType, NextControl, NextHands, SMTT(30)
<1> QED
  BY <1>1, <1>2, PTL DEF Spec
-----------------------------------------------------------------------------
(* Wins.                                                                   *)

\* A push leaves the log as it was but for one more event.
LEMMA LogGrows ==
  ASSUME NEW name, NEW s, NEW t, NEW next, Push(name, s, t, next),
         log \in Seq(Event),
         [name |-> name, seat |-> s, tile |-> t, step |-> step] \in Event,
         log' # log
  PROVE  /\ pc' = next /\ Len(log) \in Nat /\ Len(log') = Len(log) + 1
         /\ DOMAIN log = 1 .. Len(log) /\ DOMAIN log' = 1 .. Len(log')
         /\ \A i \in DOMAIN log : log'[i] = log[i]
         /\ log' # << >> /\ Last(log') = log'[Len(log')]
         /\ log'[Len(log')].name = name
         /\ log'[Len(log')].seat = s
         /\ log'[Len(log')].step = step
<1> DEFINE e == [name |-> name, seat |-> s, tile |-> t, step |-> step]
<1>1. log' = Append(log, e) /\ pc' = next
  BY DEF Push
<1>2. e \in Event /\ e.name = name /\ e.seat = s /\ e.step = step
  OBVIOUS
<1> HIDE DEF e
<1>3. Append(log, e) \in Seq(Event) /\ Len(Append(log, e)) = Len(log) + 1
  BY <1>2, AppendProperties
<1>4. Append(log, e)[Len(log) + 1] = e /\ Len(log) \in Nat
  BY <1>2, AppendProperties
<1>5. \A i \in 1 .. Len(log) : Append(log, e)[i] = log[i]
  BY <1>2, AppendProperties
<1>6. /\ log' \in Seq(Event) /\ Len(log') = Len(log) + 1
      /\ log'[Len(log')] = e
      /\ \A i \in 1 .. Len(log) : log'[i] = log[i]
  BY <1>1, <1>3, <1>4, <1>5
<1>7. DOMAIN log = 1 .. Len(log) /\ DOMAIN log' = 1 .. Len(log')
  BY <1>6
<1>8. log' # << >> /\ Last(log') = log'[Len(log')]
  <2>1. Len(log') # 0
    BY <1>4, <1>6
  <2> QED
    BY <2>1 DEF Last
<1> QED
  BY <1>1, <1>2, <1>4, <1>6, <1>7, <1>8

\* Every push of the drive is one event of the log's kind.
LEMMA Pushes ==
  ASSUME TypeOK, Next, log' # log
  PROVE  \E name \in {"NewRound", "DealTile", "DiscardTile", "ChiPengGang",
                      "Hule", "LiuJu"},
            s \in Seat \cup {-1}, t \in Tile \cup {NoTile},
            next \in {"turn", "decide", "poll", "archive"} :
           /\ Push(name, s, t, next)
           /\ name = "Hule" => WinTsumo \/ WinRon
<1>0. /\ seat \in Seat /\ decision.tile \in Tile \cup {NoTile}
      /\ \A i \in 1 .. (NumPlayers - 1) : Polled(i) \in Seat
  BY PolledOthers DEF TypeOK, DriveTypeOK, Decision
<1>1. CASE StartRound
  BY <1>1, SeatFacts DEF StartRound
<1>2. CASE DrawTile
  <2>1. Head(leftWall) \in Tile
    BY <1>2, DrawType DEF DrawTile, TypeOK
  <2> QED
    BY <1>0, <1>2, <2>1 DEF DrawTile
<1>3. CASE LeaveLoop
  BY <1>3 DEF LeaveLoop
<1>4. CASE Throw
  <2>1. PICK t \in Thrown : /\ DeclareRiichi(t) \/ Discard(t)
                            /\ Push("DiscardTile", seat, t, "poll")
    BY <1>4 DEF Throw
  <2>2. t \in Tile
    BY <2>1, DiscardType, RiichiType DEF TypeOK
  <2> QED
    BY <1>0, <2>1, <2>2
<1>5. CASE WinTsumo
  BY <1>0, <1>5 DEF WinTsumo
<1>6. CASE WinRon
  BY <1>0, <1>6 DEF WinRon
<1>7. CASE ClaimMeld
  BY <1>0, <1>7 DEF ClaimMeld
<1>8. CASE FirstTurn \/ DecideHuman \/ DecideBot \/ Reject \/ Panic \/ NoRon
             \/ NoClaim \/ SaveRecord \/ CreditRound
  BY <1>8 DEF FirstTurn, DecideHuman, DecideBot, Decide, Reject, Panic, NoRon,
              NoClaim, SaveRecord, CreditRound
<1> QED
  BY <1>1, <1>2, <1>3, <1>4, <1>5, <1>6, <1>7, <1>8 DEF Next

LEMMA InitWins == Init => HuleEnds
BY DEF Init, HuleEnds

LEMMA NextWins == TypeOK /\ Control /\ HuleEnds /\ [Next]_vars => HuleEnds'
<1> SUFFICES ASSUME TypeOK, Control, HuleEnds, [Next]_vars
             PROVE  HuleEnds'
  OBVIOUS
<1> USE DEF HuleEnds
<1>1. CASE UNCHANGED vars
  BY <1>1 DEF vars, driveVars, engineVars
<1>2. CASE Next
  <2>1. phase = "ended" => phase' = "ended"
    <3>1. CASE \/ FirstTurn \/ DecideHuman \/ DecideBot \/ Reject \/ Panic
               \/ NoRon \/ NoClaim \/ SaveRecord \/ CreditRound
      BY <3>1 DEF FirstTurn, DecideHuman, DecideBot, Decide, Reject, Panic, NoRon,
                  NoClaim, SaveRecord, CreditRound, engineVars
    <3>2. CASE StartRound \/ DrawTile \/ LeaveLoop \/ WinTsumo \/ WinRon
      BY <3>2 DEF StartRound, Start, DrawTile, Draw, LeaveLoop, WinTsumo, WinRon,
                  End
    <3>3. CASE Throw
      BY <3>3 DEF Throw, DeclareRiichi, Discard
    <3>4. CASE ClaimMeld
      BY <3>4 DEF ClaimMeld, Call
    <3> QED
      BY <1>2, <3>1, <3>2, <3>3, <3>4 DEF Next
  <2>2. CASE log' = log
    BY <2>1, <2>2
  <2>3. CASE log' # log
    <3>1. PICK name \in {"NewRound", "DealTile", "DiscardTile", "ChiPengGang",
                         "Hule", "LiuJu"},
               s \in Seat \cup {-1}, t \in Tile \cup {NoTile},
               next \in {"turn", "decide", "poll", "archive"} :
             /\ Push(name, s, t, next)
             /\ name = "Hule" => WinTsumo \/ WinRon
      BY <1>2, <2>3, Pushes
    <3>2. [name |-> name, seat |-> s, tile |-> t, step |-> step] \in Event
      BY DEF Event, TypeOK, DriveTypeOK
    <3>3. /\ Len(log) \in Nat /\ Len(log') = Len(log) + 1
          /\ DOMAIN log = 1 .. Len(log) /\ DOMAIN log' = 1 .. Len(log')
          /\ \A i \in DOMAIN log : log'[i] = log[i]
          /\ log'[Len(log')].name = name
      BY <2>3, <3>1, <3>2, LogGrows DEF TypeOK, DriveTypeOK
    <3>4. \A i \in DOMAIN log' : i \in DOMAIN log \/ i = Len(log')
      BY <3>3
    <3>5. CASE name # "Hule"
      BY <2>1, <3>3, <3>4, <3>5
    <3>6. CASE name = "Hule"
      BY <3>1, <3>6 DEF WinTsumo, WinRon, End
    <3> QED
      BY <3>5, <3>6
  <2> QED
    BY <2>2, <2>3
<1> QED
  BY <1>1, <1>2

-----------------------------------------------------------------------------
(* The end of the round.                                                   *)

\* A round that has ended is no longer played.
LEMMA EndedStays ==
  TypeOK /\ Control /\ [Next]_vars
    => (phase = "ended" => UNCHANGED <<seatVars, scores, riichiStick, leftWall,
                                       current>>)
<1> SUFFICES ASSUME Control, [Next]_vars, phase = "ended"
             PROVE  UNCHANGED <<seatVars, scores, riichiStick, leftWall, current>>
  OBVIOUS
<1>1. pc \notin {"start", "decide", "apply", "poll", "claim"} /\ ~Playable
  BY DEF Control, Playable, Current
<1>2. CASE LeaveLoop
  BY <1>2 DEF LeaveLoop
<1>3. CASE SaveRecord \/ CreditRound
  BY <1>3 DEF SaveRecord, CreditRound, engineVars
<1>4. CASE Next /\ ~LeaveLoop /\ ~SaveRecord /\ ~CreditRound
  BY <1>1, <1>4
     DEF Next, StartRound, FirstTurn, DrawTile, DecideHuman, DecideBot, Decide,
         Throw, Reject, WinTsumo, WinRon, Panic, NoRon, ClaimMeld, NoClaim
<1>5. CASE UNCHANGED vars
  BY <1>5 DEF vars, engineVars
<1> QED
  BY <1>2, <1>3, <1>4, <1>5

\* From End on, no tile, meld or point of the round moves.
THEOREM EndFreezes == Spec => FrozenAfterEnd
<1> DEFINE I == TypeOK /\ Control /\ SeatIsCurrent
           A == phase = "ended" => UNCHANGED <<seatVars, scores, riichiStick,
                                               leftWall, current>>
<1>1. Init => I
  BY InitType, InitControl
<1>2. I /\ [Next]_vars => I'
  BY NextType, NextControl
<1>3. I /\ [Next]_vars => [A]_vars
  BY EndedStays
<1>4. Spec => [][A]_vars
  BY <1>1, <1>2, <1>3, PTL DEF Spec
<1> QED
  BY <1>4 DEF FrozenAfterEnd

LEMMA InitArchive == Init => Archiving
BY DEF Init, Archiving

LEMMA NextArchive ==
  TypeOK /\ Control /\ Archiving /\ [Next]_vars => Archiving'
<1> SUFFICES ASSUME TypeOK, Control, Archiving, [Next]_vars PROVE Archiving'
  OBVIOUS
<1> USE DEF Archiving
<1>1. CASE LeaveLoop
  <2>1. /\ Push("LiuJu", -1, NoTile, "archive") /\ winner' = -1 /\ saved = Unsaved
        /\ UNCHANGED saved
    BY <1>1 DEF LeaveLoop, End
  <2>2. [name |-> "LiuJu", seat |-> -1, tile |-> NoTile, step |-> step] \in Event
    BY DEF Event, TypeOK, DriveTypeOK
  <2>3. log' # log => log' # << >> /\ Last(log').name = "LiuJu" /\ Last(log').seat = -1
    BY <2>1, <2>2, LogGrows DEF TypeOK, DriveTypeOK
  <2>4. pc' = "archive" => log' # log
    <3>1. log' = Append(log, [name |-> "LiuJu", seat |-> -1, tile |-> NoTile,
                              step |-> step]) => log' # log
      BY <2>2, AppendProperties DEF TypeOK, DriveTypeOK
    <3> QED
      BY <2>1, <3>1 DEF Push
  <2> QED
    BY <1>1, <2>1, <2>3, <2>4 DEF Push
<1>2. CASE WinTsumo
  <2>1. /\ Push("Hule", seat, NoTile, "archive") /\ winner' = seat /\ saved = Unsaved
        /\ UNCHANGED saved
    BY <1>2 DEF WinTsumo, End
  <2>2. [name |-> "Hule", seat |-> seat, tile |-> NoTile, step |-> step] \in Event
    BY DEF Event, TypeOK, DriveTypeOK
  <2>3. log' # log => log' # << >> /\ Last(log').name = "Hule" /\ Last(log').seat = seat
    BY <2>1, <2>2, LogGrows DEF TypeOK, DriveTypeOK
  <2>4. pc' = "archive" => log' # log
    <3>1. log' = Append(log, [name |-> "Hule", seat |-> seat, tile |-> NoTile,
                              step |-> step]) => log' # log
      BY <2>2, AppendProperties DEF TypeOK, DriveTypeOK
    <3> QED
      BY <2>1, <3>1 DEF Push
  <2> QED
    BY <1>2, <2>1, <2>3, <2>4 DEF Push
<1>3. CASE SaveRecord
  BY <1>3 DEF SaveRecord, engineVars
<1>4. CASE CreditRound
  BY <1>4 DEF CreditRound, engineVars
<1>5. CASE Next /\ ~LeaveLoop /\ ~WinTsumo /\ ~SaveRecord /\ ~CreditRound
  BY <1>5
     DEF Next, StartRound, FirstTurn, DrawTile, DecideHuman, DecideBot, Decide,
         Throw, Reject, WinRon, Panic, NoRon, ClaimMeld, NoClaim, Push
<1>6. CASE UNCHANGED vars
  BY <1>6 DEF vars, driveVars, engineVars
<1> QED
  BY <1>1, <1>2, <1>3, <1>4, <1>5, <1>6

\* A record in the store is that of the settlement last pushed.
THEOREM ArchiveFaithful == Spec => []ArchiveMatchesLastPush
<1> DEFINE I == TypeOK /\ Control /\ SeatIsCurrent /\ Archiving
<1>1. Init => I
  BY InitType, InitControl, InitArchive
<1>2. I /\ [Next]_vars => I'
  BY NextType, NextControl, NextArchive
<1>3. I => ArchiveMatchesLastPush
  BY DEF Archiving, ArchiveMatchesLastPush
<1> QED
  BY <1>1, <1>2, <1>3, PTL DEF Spec
-----------------------------------------------------------------------------
(* Step numbers.                                                           *)

\* One more event, of the current step, keeps the order of the steps where
\* all the others come before that step but for a last one that shares it.
LEMMA OrderKept ==
  ASSUME TypeOK, StepCount, StepsOrdered,
         NEW name, NEW s, NEW t, NEW next, Push(name, s, t, next), log' # log,
         [name |-> name, seat |-> s, tile |-> t, step |-> step] \in Event,
         \A i \in DOMAIN log :
           log[i].step = step =>
             /\ i = Len(log)
             /\ \/ log[i].name = "ChiPengGang"
                \/ log[i].name = "Hule" /\ name = "LiuJu"
  PROVE  /\ StepsOrdered'
         /\ \A i \in DOMAIN log' : log'[i].step \in Nat /\ log'[i].step <= step
         /\ \A i \in DOMAIN log' : \/ i = Len(log') /\ log'[i].name = name
                                   \/ i \in DOMAIN log /\ log'[i] = log[i]
<1>1. log \in Seq(Event) /\ step \in Nat
  BY DEF TypeOK, DriveTypeOK
<1>2. /\ Len(log) \in Nat /\ Len(log') = Len(log) + 1
      /\ DOMAIN log = 1 .. Len(log) /\ DOMAIN log' = 1 .. Len(log')
      /\ \A i \in DOMAIN log : log'[i] = log[i]
      /\ log'[Len(log')].name = name /\ log'[Len(log')].step = step
  BY <1>1, LogGrows
<1>3. \A i \in DOMAIN log' : i \in DOMAIN log \/ i = Len(log')
  BY <1>2
<1>4. \A i \in DOMAIN log : log[i].step \in Nat /\ log[i].step <= step
  <2>1. \A i \in DOMAIN log : log[i] \in Event
    BY <1>1
  <2> QED
    BY <2>1 DEF StepCount, Event
<1>5. \A i \in DOMAIN log' : log'[i].step \in Nat /\ log'[i].step <= step
  BY <1>1, <1>2, <1>3, <1>4
<1>6. ASSUME NEW i \in DOMAIN log', NEW j \in DOMAIN log', i < j
      PROVE  \/ log'[i].step < log'[j].step
             \/ /\ log'[i].step = log'[j].step
                /\ j = i + 1
                /\ \/ log'[i].name = "ChiPengGang"
                   \/ log'[i].name = "Hule" /\ log'[j].name = "LiuJu"
  <2>1. i \in DOMAIN log
    BY <1>2, <1>6
  <2>2. CASE j \in DOMAIN log
    BY <1>2, <1>6, <2>1, <2>2 DEF StepsOrdered
  <2>3. CASE j = Len(log')
    <3>1. log'[j].step = step /\ log'[j].name = name /\ log'[i] = log[i]
      BY <1>2, <2>1, <2>3
    <3>2. CASE log[i].step = step
      BY <1>2, <2>1, <2>3, <3>1, <3>2
    <3>3. CASE log[i].step # step
      <4>1. log[i].step < step
        BY <1>1, <1>4, <2>1, <3>3
      <4> QED
        BY <3>1, <4>1
    <3> QED
      BY <3>2, <3>3
  <2> QED
    BY <1>3, <2>2, <2>3
<1>7. StepsOrdered'
  BY <1>6 DEF StepsOrdered
<1>8. ASSUME NEW i \in DOMAIN log'
      PROVE  \/ i = Len(log') /\ log'[i].name = name
             \/ i \in DOMAIN log /\ log'[i] = log[i]
  <2>1. CASE i \in DOMAIN log
    BY <1>2, <2>1
  <2>2. CASE i = Len(log')
    <3>1. log'[i] = log'[Len(log')]
      BY <2>2
    <3>2. log'[Len(log')].name = name
      BY <1>2
    <3> QED
      BY <2>2, <3>1, <3>2
  <2> QED
    BY <1>3, <2>1, <2>2
<1> QED
  BY <1>5, <1>7, <1>8

LEMMA InitSteps == Init => StepCount /\ StepsOrdered
BY DEF Init, StepCount, StepsOrdered

LEMMA NextSteps ==
  /\ TypeOK /\ Control /\ HuleEnds /\ StepCount /\ StepsOrdered
  /\ [Next]_vars
  => StepCount' /\ StepsOrdered'
<1> SUFFICES ASSUME TypeOK, Control, HuleEnds, StepCount, StepsOrdered, [Next]_vars
             PROVE  StepCount' /\ StepsOrdered'
  OBVIOUS
<1>0. /\ log \in Seq(Event) /\ step \in Nat
      /\ \A i \in DOMAIN log : log[i].step \in Nat
  <2>1. log \in Seq(Event) /\ step \in Nat
    BY DEF TypeOK, DriveTypeOK
  <2>2. \A i \in DOMAIN log : log[i] \in Event
    BY <2>1
  <2> QED
    BY <2>1, <2>2 DEF Event
<1>1. CASE UNCHANGED log /\ step' \in {step, step + 1} /\ pc' = "failed"
  BY <1>0, <1>1 DEF StepCount, StepsOrdered
<1>2. CASE UNCHANGED <<log, step>> /\ pc' # "start" /\ (pc' = "turn" => pc = "claim")
             /\ (pc' \in {"decide", "apply", "poll", "claim"}
                   => pc \in {"decide", "apply", "poll", "claim"})
  BY <1>0, <1>2 DEF StepCount, StepsOrdered
<1>3. CASE FirstTurn
  BY <1>0, <1>3 DEF FirstTurn, StepCount, StepsOrdered
<1>4. CASE StartRound
  <2>1. CASE log' = log
    BY <1>1, <1>4, <2>1 DEF StartRound, Push, StepCount
  <2>2. CASE log' # log
    <3>1. [name |-> "NewRound", seat |-> Dealer, tile |-> NoTile, step |-> step]
            \in Event
      BY <1>0, SeatFacts DEF Event
    <3>2. /\ Push("NewRound", Dealer, NoTile, "turn") /\ log = << >> /\ step = 0
          /\ step' = 1
      BY <1>4 DEF StartRound, StepCount
    <3>3. /\ StepsOrdered'
          /\ \A i \in DOMAIN log' : log'[i].step \in Nat /\ log'[i].step <= step
      BY <2>2, <3>1, <3>2, OrderKept
    <3>4. pc' = "turn"
      BY <2>2, <3>2 DEF Push
    <3> QED
      BY <3>2, <3>3, <3>4 DEF StepCount
  <2> QED
    BY <2>1, <2>2
<1>5. CASE DrawTile
  <2>1. CASE log' = log
    BY <1>1, <1>5, <2>1 DEF DrawTile, Push, StepCount
  <2>2. CASE log' # log
    <3>1. Head(leftWall) \in Tile /\ seat \in Seat
      BY <1>5, DrawType DEF DrawTile, TypeOK, DriveTypeOK
    <3>2. [name |-> "DealTile", seat |-> seat, tile |-> Head(leftWall),
           step |-> step] \in Event
      BY <1>0, <3>1 DEF Event
    <3>3. /\ Push("DealTile", seat, Head(leftWall), "decide") /\ step' = step + 1
          /\ pc = "turn" /\ phase # "ended"
      BY <1>5 DEF DrawTile, Playable, Current
    <3>4. \A i \in DOMAIN log : log[i].step = step =>
                                  i = Len(log) /\ log[i].name = "ChiPengGang"
      BY <3>3 DEF StepCount, HuleEnds
    <3>5. /\ StepsOrdered'
          /\ \A i \in DOMAIN log' : log'[i].step \in Nat /\ log'[i].step <= step
      BY <2>2, <3>2, <3>3, <3>4, OrderKept
    <3>6. pc' = "decide"
      BY <2>2, <3>3 DEF Push
    <3> QED
      BY <1>0, <3>3, <3>5, <3>6 DEF StepCount
  <2> QED
    BY <2>1, <2>2
<1>6. CASE LeaveLoop
  <2>1. /\ Push("LiuJu", -1, NoTile, "archive") /\ step' = step /\ pc = "turn"
    BY <1>6 DEF LeaveLoop, loopVars
  <2>2. CASE log' = log
    BY <1>0, <2>1, <2>2 DEF Push, StepCount, StepsOrdered
  <2>3. CASE log' # log
    <3>1. [name |-> "LiuJu", seat |-> -1, tile |-> NoTile, step |-> step] \in Event
      BY <1>0 DEF Event
    <3>2. \A i \in DOMAIN log :
            log[i].step = step =>
              /\ i = Len(log)
              /\ \/ log[i].name = "ChiPengGang"
                 \/ log[i].name = "Hule"
      BY <2>1 DEF StepCount
    <3>3. /\ StepsOrdered'
          /\ \A i \in DOMAIN log' : log'[i].step \in Nat /\ log'[i].step <= step
      BY <2>1, <2>3, <3>1, <3>2, OrderKept
    <3>4. pc' = "archive"
      BY <2>1, <2>3 DEF Push
    <3> QED
      BY <2>1, <3>3, <3>4 DEF StepCount
  <2> QED
    BY <2>2, <2>3
<1>7. CASE Throw
  <2>1. PICK t \in Thrown : /\ DeclareRiichi(t) \/ Discard(t)
                            /\ Push("DiscardTile", seat, t, "poll")
    BY <1>7 DEF Throw
  <2>2. pc = "apply" /\ step' = step + 1
    BY <1>7 DEF Throw
  <2>3. CASE log' = log
    BY <1>1, <2>1, <2>2, <2>3 DEF Push, StepCount
  <2>4. CASE log' # log
    <3>1. t \in Tile /\ seat \in Seat
      BY <2>1, DiscardType, RiichiType DEF TypeOK, DriveTypeOK
    <3>2. [name |-> "DiscardTile", seat |-> seat, tile |-> t, step |-> step] \in Event
      BY <1>0, <3>1 DEF Event
    <3>3. \A i \in DOMAIN log : log[i].step # step
      BY <1>0, <2>2 DEF StepCount
    <3>4. /\ StepsOrdered'
          /\ \A i \in DOMAIN log' : log'[i].step \in Nat /\ log'[i].step <= step
      BY <2>1, <2>4, <3>2, <3>3, OrderKept
    <3>5. pc' = "poll"
      BY <2>1, <2>4 DEF Push
    <3> QED
      BY <1>0, <2>2, <3>4, <3>5 DEF StepCount
  <2> QED
    BY <2>3, <2>4
<1>8. CASE WinTsumo \/ WinRon \/ ClaimMeld
  <2>1. PICK name \in {"Hule", "ChiPengGang"}, s \in Seat, t \in Tile \cup {NoTile},
             next \in {"archive", "turn"} :
          Push(name, s, t, next)
    <3>1. /\ seat \in Seat /\ decision.tile \in Tile \cup {NoTile}
          /\ \A i \in 1 .. (NumPlayers - 1) : Polled(i) \in Seat
      BY PolledOthers DEF TypeOK, DriveTypeOK, Decision
    <3> QED
      BY <1>8, <3>1 DEF WinTsumo, WinRon, ClaimMeld
  <2>2. pc \in {"apply", "poll", "claim"} /\ step' = step /\ first' = first
    BY <1>8 DEF WinTsumo, WinRon, ClaimMeld, loopVars
  <2>3. ~first
    BY <2>2 DEF Control
  <2>4. CASE log' = log
    BY <1>1, <2>1, <2>2, <2>4 DEF Push, StepCount
  <2>5. CASE log' # log
    <3>1. [name |-> name, seat |-> s, tile |-> t, step |-> step] \in Event
      BY <1>0 DEF Event
    <3>2. \A i \in DOMAIN log : log[i].step # step
      BY <1>0, <2>2 DEF StepCount
    <3>3. /\ StepsOrdered'
          /\ \A i \in DOMAIN log' : log'[i].step \in Nat /\ log'[i].step <= step
          /\ \A i \in DOMAIN log' : \/ i = Len(log') /\ log'[i].name = name
                                    \/ i \in DOMAIN log /\ log'[i] = log[i]
      BY <2>1, <2>5, <3>1, <3>2, OrderKept
    <3>4. pc' = next
      BY <2>1, <2>5 DEF Push
    <3> QED
      BY <2>2, <2>3, <3>2, <3>3, <3>4 DEF StepCount
  <2> QED
    BY <2>4, <2>5
<1>9. CASE DecideHuman \/ DecideBot \/ Reject \/ Panic \/ NoRon \/ NoClaim
             \/ SaveRecord \/ CreditRound
  BY <1>2, <1>9
     DEF DecideHuman, DecideBot, Decide, Reject, Panic, NoRon, NoClaim,
         SaveRecord, CreditRound, loopVars
<1>10. CASE UNCHANGED vars
  BY <1>10 DEF vars, driveVars, loopVars, StepCount, StepsOrdered
<1> QED
  BY <1>3, <1>4, <1>5, <1>6, <1>7, <1>8, <1>9, <1>10 DEF Next

\* The numbers of the pushes never go back; only what follows a claim, and the
\* exhaustion announced after a ron, share one with the push before.
THEOREM StepsKept == Spec => []StepsOrdered
<1> DEFINE I == /\ TypeOK /\ Control /\ SeatIsCurrent
                /\ HuleEnds /\ StepCount /\ StepsOrdered
<1>1. Init => I
  BY InitType, InitControl, InitWins, InitSteps
<1>2. I /\ [Next]_vars => I'
  BY NextType, NextControl, NextWins, NextSteps
<1> QED
  BY <1>1, <1>2, PTL DEF Spec
-----------------------------------------------------------------------------
(* The drive implements the life cycle of a round.                         *)

LEMMA InitStage == Init => Life!Init
<1> SUFFICES ASSUME Init PROVE Life!Init
  OBVIOUS
<1>1. Stage = "dealt" /\ (saved # Unsaved) = FALSE /\ credited = FALSE
  BY DEF Init, Stage
<1> QED
  BY <1>1 DEF Life!Init

\* Every step of the drive is one of the life cycle's, or does not touch it.
LEMMA NextStage == TypeOK /\ [Next]_vars => [Life!Next]_(Life!lifeVars)
<1> SUFFICES ASSUME TypeOK, [Next]_vars
             PROVE  Life!Next \/ UNCHANGED <<Stage, saved # Unsaved, credited>>
  BY DEF Life!lifeVars
<1> USE DEF Stage
<1>1. CASE StartRound
  <2>1. CASE pc' = "turn"
    BY <1>1, <2>1 DEF StartRound, Life!Next, Life!Announce, Life!Move
  <2>2. CASE pc' = "failed"
    BY <1>1, <2>2 DEF StartRound, Life!Next, Life!Lose
  <2> QED
    BY <1>1, <2>1, <2>2 DEF StartRound, Push
<1>2. CASE FirstTurn \/ DrawTile
  <2>1. pc = "turn" /\ pc' \in {"decide", "failed"} /\ UNCHANGED <<seat, saved, credited>>
    BY <1>2 DEF FirstTurn, DrawTile, Push
  <2>2. CASE pc' = "failed"
    BY <2>1, <2>2 DEF Life!Next, Life!Lose
  <2>3. CASE pc' = "decide" /\ seat \in Humans
    BY <2>1, <2>3 DEF Life!Next, Life!Ask, Life!Move
  <2>4. CASE pc' = "decide" /\ seat \notin Humans
    BY <2>1, <2>4
  <2> QED
    BY <2>1, <2>2, <2>3, <2>4
<1>3. CASE LeaveLoop \/ WinTsumo
  <2>1. /\ pc \in {"turn", "apply"} /\ pc' \in {"archive", "failed"}
        /\ UNCHANGED <<saved, credited>>
    BY <1>3 DEF LeaveLoop, WinTsumo, Push
  <2>2. CASE pc' = "failed"
    BY <2>1, <2>2 DEF Life!Next, Life!Lose
  <2>3. CASE pc' = "archive"
    BY <2>1, <2>3 DEF Life!Next, Life!Settle, Life!Move
  <2> QED
    BY <2>1, <2>2, <2>3
<1>4. CASE DecideHuman
  <2>1. /\ pc = "decide" /\ seat \in Humans /\ pc' = "apply"
        /\ UNCHANGED <<saved, credited>>
    BY <1>4 DEF DecideHuman, Decide
  <2> QED
    BY <2>1 DEF Life!Next, Life!Answer, Life!Move
<1>5. CASE DecideBot
  BY <1>5 DEF DecideBot, Decide
<1>6. CASE Throw \/ Reject \/ WinRon \/ Panic \/ NoRon \/ ClaimMeld \/ NoClaim
  <2>1. /\ pc \in {"apply", "poll", "claim"}
        /\ pc' \in {"turn", "poll", "claim", "failed", "crashed"}
        /\ UNCHANGED <<saved, credited>>
    BY <1>6 DEF Throw, Reject, WinRon, Panic, NoRon, ClaimMeld, NoClaim, Push
  <2>2. CASE pc' \in {"failed", "crashed"}
    BY <2>1, <2>2 DEF Life!Next, Life!Lose
  <2>3. CASE pc' \in {"turn", "poll", "claim"}
    BY <2>1, <2>3
  <2> QED
    BY <2>1, <2>2, <2>3
<1>7. CASE SaveRecord
  <2>1. CASE pc' = "failed"
    BY <1>7, <2>1 DEF SaveRecord, Life!Next, Life!Lose
  <2>2. CASE pc' = "credit"
    <3>1. saved' = [winner |-> winner, scores |-> scores]
      BY <1>7, <2>2 DEF SaveRecord
    <3>2. winner # -2
      BY SeatFacts DEF TypeOK, EngineTypeOK
    <3>3. saved'.winner # Unsaved.winner
      BY <3>1, <3>2 DEF Unsaved
    <3>4. (saved' # Unsaved) = TRUE
      BY <3>3
    <3> QED
      BY <1>7, <2>2, <3>4 DEF SaveRecord, Life!Next, Life!Record, Life!Move
  <2> QED
    BY <1>7, <2>1, <2>2 DEF SaveRecord
<1>8. CASE CreditRound
  <2>1. CASE pc' = "failed"
    BY <1>8, <2>1 DEF CreditRound, Life!Next, Life!Lose
  <2>2. CASE pc' = "done"
    BY <1>8, <2>2 DEF CreditRound, Life!Next, Life!Credit, Life!Move
  <2> QED
    BY <1>8, <2>1, <2>2 DEF CreditRound
<1>9. CASE UNCHANGED vars
  BY <1>9 DEF vars, driveVars, loopVars
<1> QED
  BY <1>1, <1>2, <1>3, <1>4, <1>5, <1>6, <1>7, <1>8, <1>9 DEF Next

\* The drive of a round implements Lifecycle.
THEOREM LifecycleImplemented == Spec => ImplementsLifecycle
<1>1. Init => TypeOK /\ Life!Init
  BY InitType, InitStage
<1>2. TypeOK /\ [Next]_vars => TypeOK'
  BY NextType
<1>3. TypeOK /\ [Next]_vars => [Life!Next]_(Life!lifeVars)
  BY NextStage
<1>4. Spec => Life!Spec
  BY <1>1, <1>2, <1>3, PTL DEF Spec, Life!Spec
<1> QED
  BY <1>4 DEF ImplementsLifecycle
-----------------------------------------------------------------------------
(* Pushes.                                                                 *)

\* A push that fails leaves the log, one that does not adds an event to it.
LEMMA Grown ==
  ASSUME TypeOK,
         NEW name \in {"NewRound", "DealTile", "DiscardTile", "ChiPengGang",
                       "Hule", "LiuJu"},
         NEW s \in Seat \cup {-1}, NEW t \in Tile \cup {NoTile}, NEW next,
         Push(name, s, t, next)
  PROVE  \/ log' = log /\ pc' = "failed"
         \/ /\ pc' = next /\ Len(log) \in Nat /\ Len(log') = Len(log) + 1
            /\ DOMAIN log = 1 .. Len(log) /\ DOMAIN log' = 1 .. Len(log')
            /\ \A i \in DOMAIN log : log'[i] = log[i]
            /\ log'[Len(log')].name = name
            /\ log'[Len(log')].seat = s
            /\ log'[Len(log')].tile = t
<1> DEFINE e == [name |-> name, seat |-> s, tile |-> t, step |-> step]
<1>1. CASE UNCHANGED log /\ pc' = "failed"
  BY <1>1
<1>2. CASE log' = Append(log, e) /\ pc' = next
  <2>1. /\ e \in Event /\ e.name = name /\ e.seat = s /\ e.tile = t
        /\ log \in Seq(Event)
    BY DEF Event, TypeOK, DriveTypeOK
  <2> HIDE DEF e
  <2>2. /\ Len(log') = Len(log) + 1 /\ log'[Len(log) + 1] = e
        /\ log' \in Seq(Event)
        /\ \A i \in 1 .. Len(log) : log'[i] = log[i]
    BY <1>2, <2>1, AppendProperties
  <2>3. Len(log) \in Nat /\ DOMAIN log = 1 .. Len(log) /\ DOMAIN log' = 1 .. Len(log')
    BY <2>1, <2>2
  <2> QED
    BY <1>2, <2>1, <2>2, <2>3
<1> QED
  BY <1>1, <1>2 DEF Push

\* What the seat of a turn, of a discard and of a claim is.
LEMMA ThrowIs ==
  ASSUME TypeOK, Control, SeatIsCurrent, Throw
  PROVE  \E t \in Tile :
           /\ Discard(t) \/ DeclareRiichi(t)
           /\ Push("DiscardTile", seat, t, "poll")
           /\ seat = current /\ seat \in Seat
           /\ discards' = [discards EXCEPT ![seat] = Append(@, t)]
           /\ UNCHANGED <<melds, leftWall, wall>>
<1>1. PICK t \in Thrown : /\ Discard(t) \/ DeclareRiichi(t)
                          /\ Push("DiscardTile", seat, t, "poll")
  BY DEF Throw
<1>2. seat = current /\ seat \in Seat
  BY DEF Throw, Control, SeatIsCurrent, TypeOK, DriveTypeOK
<1>3. t \in Tile
  BY <1>1, DiscardType, RiichiType DEF TypeOK
<1> QED
  BY <1>1, <1>2, <1>3 DEF Discard, DeclareRiichi

LEMMA ClaimIs ==
  ASSUME TypeOK, ClaimMeld
  PROVE  \E q \in Seat, t \in Tile, type \in MeldTypes :
           /\ Call(q, t, type)
           /\ Push("ChiPengGang", q, t, "turn")
<1>1. PICK i \in 1 .. (NumPlayers - 1), type \in MeldTypes :
        /\ decision.tile # NoTile
        /\ Call(Polled(i), decision.tile, type)
        /\ Push("ChiPengGang", Polled(i), decision.tile, "turn")
  BY DEF ClaimMeld, Candidates
<1>2. Polled(i) \in Seat /\ decision.tile \in Tile
  BY <1>1, SeatFacts DEF Polled, TypeOK, DriveTypeOK, Decision
<1> QED
  BY <1>1, <1>2

\* The actions that push something else, and those that push nothing.
LEMMA OthersPush ==
  ASSUME TypeOK, StartRound \/ LeaveLoop \/ WinTsumo \/ WinRon
  PROVE  /\ \E name \in {"NewRound", "Hule", "LiuJu"}, s \in Seat \cup {-1},
              t \in Tile \cup {NoTile}, next \in {"turn", "archive"} :
              Push(name, s, t, next)
         /\ UNCHANGED <<melds, discards, doubleRiichi, leftWall, wall>>
<1>0. /\ seat \in Seat /\ decision.tile \in Tile \cup {NoTile}
      /\ \A i \in 1 .. (NumPlayers - 1) : Polled(i) \in Seat
  BY PolledOthers DEF TypeOK, DriveTypeOK, Decision
<1>1. CASE StartRound
  BY <1>1, SeatFacts DEF StartRound, Start
<1>2. CASE LeaveLoop
  BY <1>2 DEF LeaveLoop, seatVars
<1>3. CASE WinTsumo
  BY <1>0, <1>3 DEF WinTsumo, seatVars
<1>4. CASE WinRon
  BY <1>0, <1>4 DEF WinRon, seatVars
<1> QED
  BY <1>1, <1>2, <1>3, <1>4

LEMMA SilentSteps ==
  ASSUME \/ FirstTurn \/ DecideHuman \/ DecideBot \/ Reject \/ Panic \/ NoRon
         \/ NoClaim \/ SaveRecord \/ CreditRound
  PROVE  UNCHANGED <<log, engineVars>> /\ pc # "failed"
BY DEF FirstTurn, DecideHuman, DecideBot, Decide, Reject, Panic, NoRon, NoClaim,
       SaveRecord, CreditRound

-----------------------------------------------------------------------------
(* Double riichi. *)

\* What the log of a drive that has its client tells of claims, piles and
\* double declarations.
LogShows ==
  pc # "failed" =>
    /\ \A i \in DOMAIN log : log[i].name = "ChiPengGang" => AnyMeld
    /\ \A i \in DOMAIN log, s \in Seat :
         log[i].name = "DiscardTile" /\ log[i].seat = s => discards[s] # << >>
    /\ \A s \in Seat : doubleRiichi[s] =>
         \E i \in DOMAIN log : log[i].name = "DiscardTile" /\ log[i].seat = s

LEMMA InitDaburi == Init => LogShows /\ DaburiPrecedesCalls
BY DEF Init, NewRound, LogShows, DaburiPrecedesCalls

LEMMA NextDaburi ==
  /\ TypeOK /\ Control /\ SeatIsCurrent /\ LogShows /\ DaburiPrecedesCalls
  /\ [Next]_vars
  => LogShows' /\ DaburiPrecedesCalls'
<1> SUFFICES ASSUME TypeOK, Control, SeatIsCurrent, LogShows, DaburiPrecedesCalls,
                    [Next]_vars
             PROVE  LogShows' /\ DaburiPrecedesCalls'
  OBVIOUS
<1>0. /\ melds \in [Seat -> Seq(Meld)] /\ discards \in [Seat -> Seq(Tile)]
      /\ doubleRiichi \in [Seat -> BOOLEAN] /\ current \in Seat
  BY DEF TypeOK, EngineTypeOK
<1>1. CASE UNCHANGED <<log, melds, discards, doubleRiichi>> /\ pc # "failed"
  BY <1>1 DEF LogShows, DaburiPrecedesCalls, AnyMeld
<1>2. CASE UNCHANGED <<melds, discards, doubleRiichi>>
             /\ \E name \in {"NewRound", "DealTile", "Hule", "LiuJu"},
                   s \in Seat \cup {-1}, t \in Tile \cup {NoTile},
                   next \in {"turn", "decide", "archive"} :
                  Push(name, s, t, next)
             /\ pc # "failed"
  <2>1. PICK name \in {"NewRound", "DealTile", "Hule", "LiuJu"},
             s \in Seat \cup {-1}, t \in Tile \cup {NoTile},
             next \in {"turn", "decide", "archive"} :
          Push(name, s, t, next)
    BY <1>2
  <2>2. CASE log' = log
    BY <1>1, <1>2, <2>2
  <2>3. CASE log' # log
    <3>1. /\ Len(log) \in Nat /\ Len(log') = Len(log) + 1
          /\ DOMAIN log = 1 .. Len(log) /\ DOMAIN log' = 1 .. Len(log')
          /\ \A i \in DOMAIN log : log'[i] = log[i]
          /\ log'[Len(log')].name \notin {"DiscardTile", "ChiPengGang"}
      BY <2>1, <2>3, Grown
    <3>2. \A i \in DOMAIN log' :
            log'[i].name \in {"DiscardTile", "ChiPengGang"}
              => i \in DOMAIN log /\ log'[i] = log[i]
      BY <3>1
    <3>3. \A i \in DOMAIN log : i \in DOMAIN log' /\ log'[i] = log[i]
      BY <3>1
    <3>4. LogShows'
      BY <1>2, <3>2, <3>3 DEF LogShows, AnyMeld
    <3>5. DaburiPrecedesCalls'
      BY <1>2, <3>2, <3>3, <3>1 DEF DaburiPrecedesCalls
    <3> QED
      BY <3>4, <3>5
  <2> QED
    BY <2>2, <2>3
<1>3. CASE Throw
  <2>1. PICK t \in Tile :
          /\ Discard(t) \/ DeclareRiichi(t)
          /\ Push("DiscardTile", seat, t, "poll")
          /\ seat = current /\ seat \in Seat
          /\ discards' = [discards EXCEPT ![seat] = Append(@, t)]
          /\ UNCHANGED <<melds, leftWall, wall>>
    BY <1>3, ThrowIs
  <2>2. /\ \A s \in Seat : doubleRiichi'[s] =>
             doubleRiichi[s] \/ (s = seat /\ discards[seat] = << >> /\ ~AnyMeld)
        /\ AnyMeld' = AnyMeld
    <3>1. AnyMeld' = AnyMeld
      BY <2>1 DEF AnyMeld
    <3>2. CASE Discard(t)
      <4>1. doubleRiichi' = doubleRiichi
        BY <3>2 DEF Discard
      <4> QED
        BY <3>1, <4>1, Zenon
    <3>3. CASE DeclareRiichi(t)
      <4> DEFINE b == discards[seat] = << >> /\ ~AnyMeld
      <4>1. doubleRiichi' = [doubleRiichi EXCEPT ![seat] = @ \/ b]
        BY <2>1, <3>3 DEF DeclareRiichi
      <4> HIDE DEF b
      <4>2. ASSUME NEW s \in Seat, doubleRiichi'[s]
            PROVE  doubleRiichi[s] \/ (s = seat /\ b)
        <5>1. CASE s = seat
          BY <1>0, <4>1, <4>2, <5>1, Zenon
        <5>2. CASE s # seat
          BY <1>0, <4>1, <4>2, <5>2, Zenon
        <5> QED
          BY <5>1, <5>2
      <4> QED
        BY <3>1, <4>2, Zenon DEF b
    <3> QED
      BY <2>1, <3>2, <3>3
  <2>3. /\ \A s \in Seat : discards[s] # << >> => discards'[s] # << >>
        /\ discards'[seat] # << >>
    <3>1. discards'[seat] = Append(discards[seat], t) /\ discards[seat] \in Seq(Tile)
      BY <1>0, <2>1
    <3>2. discards'[seat] # << >>
      BY <3>1, AppendProperties
    <3> QED
      BY <1>0, <2>1, <3>2
  <2>4. pc # "failed"
    BY <1>3 DEF Throw
  <2>5. CASE log' = log /\ pc' = "failed"
    <3>1. LogShows'
      BY <2>5 DEF LogShows
    <3>2. DaburiPrecedesCalls'
      BY <2>2, <2>4, <2>5 DEF DaburiPrecedesCalls, LogShows
    <3> QED
      BY <3>1, <3>2
  <2>6. CASE ~(log' = log /\ pc' = "failed")
    <3> DEFINE n == Len(log')
    <3>1. /\ Len(log) \in Nat /\ n = Len(log) + 1
          /\ DOMAIN log = 1 .. Len(log) /\ DOMAIN log' = 1 .. n
          /\ \A i \in DOMAIN log : log'[i] = log[i]
          /\ log'[n].name = "DiscardTile" /\ log'[n].seat = seat
      BY <2>1, <2>6, Grown
    <3> HIDE DEF n
    <3>2. \A i \in DOMAIN log' : i = n \/ (i \in DOMAIN log /\ log'[i] = log[i])
      BY <3>1
    <3>3. n \in DOMAIN log' /\ \A i \in DOMAIN log : i \in DOMAIN log' /\ i < n
      <4>1. n \in 1 .. n
        BY <3>1
      <4>2. \A i \in 1 .. Len(log) : i \in 1 .. n /\ i < n
        BY <3>1
      <4> QED
        BY <3>1, <4>1, <4>2
    <3>4. LogShows'
      <4>1. ASSUME NEW i \in DOMAIN log', log'[i].name = "ChiPengGang"
            PROVE  AnyMeld'
        BY <2>2, <2>4, <3>1, <3>2, <4>1 DEF LogShows
      <4>2. ASSUME NEW i \in DOMAIN log', NEW s \in Seat,
                   log'[i].name = "DiscardTile", log'[i].seat = s
            PROVE  discards'[s] # << >>
        BY <2>3, <2>4, <3>1, <3>2, <4>2 DEF LogShows
      <4>3. ASSUME NEW s \in Seat, doubleRiichi'[s]
            PROVE  \E i \in DOMAIN log' : /\ log'[i].name = "DiscardTile"
                                          /\ log'[i].seat = s
        <5>1. CASE s = seat
          BY <3>1, <3>3, <5>1
        <5>2. CASE s # seat
          <6>1. PICK i \in DOMAIN log : log[i].name = "DiscardTile" /\ log[i].seat = s
            BY <2>2, <2>4, <4>3, <5>2 DEF LogShows
          <6> QED
            BY <3>1, <3>3, <6>1
        <5> QED
          BY <5>1, <5>2
      <4> QED
        BY <4>1, <4>2, <4>3 DEF LogShows
    <3>5. ASSUME NEW s \in Seat, NEW i \in DOMAIN log', NEW j \in DOMAIN log',
                 doubleRiichi'[s],
                 log'[i].name = "DiscardTile", log'[i].seat = s,
                 log'[j].name = "ChiPengGang",
                 \A k \in 1 .. (i - 1) : ~(/\ log'[k].name = "DiscardTile"
                                           /\ log'[k].seat = s)
          PROVE  i < j
      <4>1. j \in DOMAIN log /\ log[j].name = "ChiPengGang"
        BY <3>1, <3>2, <3>5
      <4>2. doubleRiichi[s]
        BY <2>2, <2>4, <3>5, <4>1 DEF LogShows
      <4>3. CASE i = n
        <5>1. PICK k \in DOMAIN log : log[k].name = "DiscardTile" /\ log[k].seat = s
          BY <2>4, <4>2 DEF LogShows
        <5>2. k \in 1 .. (i - 1) /\ log'[k] = log[k]
          BY <3>1, <4>3, <5>1
        <5> QED
          BY <3>5, <5>1, <5>2
      <4>4. CASE i # n
        <5>1. i \in DOMAIN log /\ log'[i] = log[i]
          BY <3>2, <4>4
        <5>2. \A k \in 1 .. (i - 1) : log'[k] = log[k]
          BY <3>1, <5>1
        <5> QED
          BY <3>5, <4>1, <4>2, <5>1, <5>2 DEF DaburiPrecedesCalls
      <4> QED
        BY <4>3, <4>4
    <3> QED
      BY <3>4, <3>5 DEF DaburiPrecedesCalls
  <2> QED
    BY <2>5, <2>6
<1>4. CASE ClaimMeld
  <2>1. PICK q \in Seat, t \in Tile, type \in MeldTypes :
          Call(q, t, type) /\ Push("ChiPengGang", q, t, "turn")
    BY <1>4, ClaimIs
  <2>2. /\ UNCHANGED <<discards, doubleRiichi>> /\ melds'[q] # << >>
        /\ AnyMeld' /\ pc # "failed"
    <3>1. /\ UNCHANGED <<discards, doubleRiichi>> /\ pc # "failed"
          /\ melds'[q] = Append(melds[q], [type |-> type, tile |-> t])
      BY <1>0, <1>4, <2>1 DEF Call, ClaimMeld
    <3>2. melds'[q] # << >>
      <4>1. melds[q] \in Seq(Meld) /\ [type |-> type, tile |-> t] \in Meld
        BY <1>0 DEF Meld
      <4> QED
        BY <3>1, <4>1, AppendProperties
    <3> QED
      BY <3>1, <3>2 DEF AnyMeld
  <2>3. CASE log' = log /\ pc' = "failed"
    BY <2>2, <2>3 DEF LogShows, DaburiPrecedesCalls
  <2>4. CASE ~(log' = log /\ pc' = "failed")
    <3> DEFINE n == Len(log')
    <3>1. /\ Len(log) \in Nat /\ n = Len(log) + 1
          /\ DOMAIN log = 1 .. Len(log) /\ DOMAIN log' = 1 .. n
          /\ \A i \in DOMAIN log : log'[i] = log[i]
          /\ log'[n].name = "ChiPengGang"
      BY <2>1, <2>4, Grown
    <3> HIDE DEF n
    <3>2. \A i \in DOMAIN log' : log'[i].name = "DiscardTile"
                                   => i \in DOMAIN log /\ log'[i] = log[i]
      BY <3>1
    <3>3. \A i \in DOMAIN log : i \in DOMAIN log' /\ log'[i] = log[i] /\ i < n
      BY <3>1
    <3>4. LogShows'
      BY <2>2, <3>2, <3>3 DEF LogShows
    <3>5. ASSUME NEW s \in Seat, NEW i \in DOMAIN log', NEW j \in DOMAIN log',
                 doubleRiichi'[s],
                 log'[i].name = "DiscardTile", log'[i].seat = s,
                 log'[j].name = "ChiPengGang",
                 \A k \in 1 .. (i - 1) : ~(/\ log'[k].name = "DiscardTile"
                                           /\ log'[k].seat = s)
          PROVE  i < j
      <4>1. i \in DOMAIN log /\ log'[i] = log[i]
        BY <3>2, <3>5
      <4>2. CASE j = n
        BY <3>3, <4>1, <4>2
      <4>3. CASE j # n
        <5>1. j \in DOMAIN log /\ log'[j] = log[j]
          BY <3>1, <4>3
        <5>2. \A k \in 1 .. (i - 1) : log'[k] = log[k]
          BY <3>1, <4>1
        <5> QED
          BY <2>2, <3>5, <4>1, <5>1, <5>2 DEF DaburiPrecedesCalls
      <4> QED
        BY <4>2, <4>3
    <3> QED
      BY <3>4, <3>5 DEF DaburiPrecedesCalls
  <2> QED
    BY <2>3, <2>4
<1>5. CASE DrawTile
  <2>1. Head(leftWall) \in Tile /\ seat \in Seat
    BY <1>5, DrawType DEF DrawTile, TypeOK, DriveTypeOK
  <2>2. /\ UNCHANGED <<melds, discards, doubleRiichi>> /\ pc # "failed"
        /\ Push("DealTile", seat, Head(leftWall), "decide")
    BY <1>5 DEF DrawTile, Draw
  <2> QED
    BY <1>2, <2>1, <2>2
<1>6. CASE StartRound \/ LeaveLoop \/ WinTsumo \/ WinRon
  <2>1. pc # "failed"
    BY <1>6 DEF StartRound, LeaveLoop, WinTsumo, WinRon
  <2> QED
    BY <1>2, <1>6, <2>1, OthersPush
<1>7. CASE \/ FirstTurn \/ DecideHuman \/ DecideBot \/ Reject \/ Panic \/ NoRon
           \/ NoClaim \/ SaveRecord \/ CreditRound
  BY <1>1, <1>7, SilentSteps DEF engineVars, seatVars
<1>8. CASE UNCHANGED vars
  BY <1>8 DEF vars, driveVars, engineVars, seatVars, LogShows, DaburiPrecedesCalls,
              AnyMeld
<1> QED
  BY <1>3, <1>4, <1>5, <1>6, <1>7, <1>8 DEF Next

\* A double riichi is one the client saw before any claim, whatever order the
\* seats declare and claim in.
THEOREM DaburiInTime == Spec => []DaburiPrecedesCalls
<1> DEFINE I == /\ TypeOK /\ Control /\ SeatIsCurrent
                /\ LogShows /\ DaburiPrecedesCalls
<1>1. Init => I
  BY InitType, InitControl, InitDaburi
<1>2. I /\ [Next]_vars => I'
  BY NextType, NextControl, NextDaburi
<1> QED
  BY <1>1, <1>2, PTL DEF Spec
-----------------------------------------------------------------------------
(* What the client adds up.                                                *)

LEMMA ToldFinite ==
  ASSUME log \in Seq(Event), NEW name, NEW s
  PROVE  /\ Told(name, s) \subseteq 1 .. Len(log) /\ IsFiniteSet(Told(name, s))
         /\ Cardinality(Told(name, s)) \in Nat
         /\ \A i : /\ {j \in Told(name, s) : j <= i} \subseteq Told(name, s)
                   /\ Cardinality({j \in Told(name, s) : j <= i}) \in Nat
                   /\ Cardinality({j \in Told(name, s) : j <= i})
                        <= Cardinality(Told(name, s))
<1>1. DOMAIN log = 1 .. Len(log) /\ Len(log) \in Nat
  OBVIOUS
<1>2. Told(name, s) \subseteq 1 .. Len(log)
  BY <1>1 DEF Told
<1>3. IsFiniteSet(Told(name, s))
  <2>1. IsFiniteSet(1 .. Len(log))
    BY <1>1, FS_Interval
  <2> QED
    BY <1>2, <2>1, FS_Subset
<1>4. \A i : {j \in Told(name, s) : j <= i} \subseteq Told(name, s)
  OBVIOUS
<1> QED
  BY <1>2, <1>3, <1>4, FS_Subset, FS_CardinalityType

\* The log grows by one event; n is its place.
LEMMA ToldGrows ==
  ASSUME log \in Seq(Event), NEW name, NEW s,
         Len(log') = Len(log) + 1, DOMAIN log' = 1 .. Len(log'),
         \A i \in DOMAIN log : log'[i] = log[i]
  PROVE  /\ log'[Len(log')].name = name /\ log'[Len(log')].seat = s
              => Told(name, s)' = Told(name, s) \cup {Len(log')}
         /\ log'[Len(log')].name # name \/ log'[Len(log')].seat # s
              => Told(name, s)' = Told(name, s)
<1>1. DOMAIN log = 1 .. Len(log) /\ Len(log) \in Nat
  OBVIOUS
<1> DEFINE n == Len(log')
           A == {i \in 1 .. Len(log) : log[i].name = name /\ log[i].seat = s}
           B == {i \in 1 .. n : log'[i].name = name /\ log'[i].seat = s}
<1>2. n = Len(log) + 1 /\ \A i \in 1 .. Len(log) : log'[i] = log[i]
  BY <1>1
<1> HIDE DEF n
<1>3. B = IF log'[n].name = name /\ log'[n].seat = s THEN A \cup {n} ELSE A
  BY <1>1, <1>2
<1>4. Told(name, s) = A /\ Told(name, s)' = B
  BY <1>1 DEF Told, n
<1> HIDE DEF A, B
<1> QED
  BY <1>3, <1>4 DEF n

\* Shows, of a log and the places of its pushes of the kind.
Pictures(events, told, tiles) ==
  /\ Cardinality(told) = Len(tiles)
  /\ \A i \in told : events[i].tile = tiles[Cardinality({j \in told : j <= i})]

\* An event of another kind or seat, or none, shows what was shown.
LEMMA ShowsSame ==
  ASSUME NEW name, NEW s, NEW tiles, Shows(name, s, tiles),
         Told(name, s)' = Told(name, s),
         \A i \in DOMAIN log : log'[i] = log[i]
  PROVE  Pictures(log', Told(name, s)', tiles)
<1>1. \A i \in Told(name, s) : log'[i] = log[i]
  BY DEF Told
<1> QED
  BY <1>1 DEF Shows, Pictures

\* An event of the kind shows one tile more.
LEMMA ShowsMore ==
  ASSUME NEW name, NEW s, NEW tiles \in Seq(Tile), NEW more \in Seq(Tile),
         Shows(name, s, tiles),
         log \in Seq(Event),
         Len(log') = Len(log) + 1,
         Told(name, s)' = Told(name, s) \cup {Len(log')},
         \A i \in DOMAIN log : log'[i] = log[i],
         Len(more) = Len(tiles) + 1,
         \A c \in 1 .. Len(tiles) : more[c] = tiles[c],
         more[Len(more)] = log'[Len(log')].tile
  PROVE  Pictures(log', Told(name, s)', more)
<1> DEFINE A == Told(name, s)
           n == Len(log')
           B == A \cup {n}
<1>0. B = Told(name, s)' /\ Len(log) \in Nat /\ Len(tiles) \in Nat
  OBVIOUS
<1>1. /\ A \subseteq 1 .. Len(log) /\ IsFiniteSet(A) /\ Cardinality(A) \in Nat
      /\ \A i : /\ {j \in A : j <= i} \subseteq A
                /\ Cardinality({j \in A : j <= i}) \in Nat
                /\ Cardinality({j \in A : j <= i}) <= Cardinality(A)
  BY ToldFinite
<1>2. /\ Cardinality(A) = Len(tiles)
      /\ \A i \in A : log[i].tile = tiles[Cardinality({j \in A : j <= i})]
      /\ \A i \in A : log'[i] = log[i]
  BY DEF Shows, Told
<1>3. n = Len(log) + 1
  OBVIOUS
<1>a. more[Len(more)] = log'[n].tile
  OBVIOUS
<1> HIDE DEF A, n
<1>4. n \notin A /\ \A i \in A : ~(n <= i) /\ i <= i /\ i <= n
  BY <1>0, <1>1, <1>3
<1>5. Cardinality(B) = Len(tiles) + 1
  BY <1>1, <1>2, <1>4, FS_AddElement
<1>6. ASSUME NEW i \in A
      PROVE  log'[i].tile = more[Cardinality({j \in B : j <= i})]
  <2> DEFINE C == {j \in A : j <= i}
  <2>1. {j \in B : j <= i} = C
    BY <1>4
  <2>2. Cardinality(C) \in 1 .. Len(tiles)
    <3>1. i \in C /\ IsFiniteSet(C)
      BY <1>1, <1>4, FS_Subset
    <3>2. Cardinality(C) # 0
      BY <3>1, FS_EmptySet
    <3>3. Cardinality(C) \in Nat /\ Cardinality(C) <= Len(tiles)
      BY <1>1, <1>2
    <3> HIDE DEF C
    <3> QED
      BY <1>0, <3>2, <3>3
  <2>3. log'[i].tile = tiles[Cardinality(C)]
    BY <1>2
  <2> HIDE DEF C
  <2>4. more[Cardinality(C)] = tiles[Cardinality(C)]
    BY <2>2
  <2> QED
    BY <2>1, <2>3, <2>4
<1>7. log'[n].tile = more[Cardinality({j \in B : j <= n})]
  <2>1. n <= n
    BY <1>0, <1>3
  <2>2. {j \in B : j <= n} = B
    BY <1>4, <2>1
  <2> QED
    BY <1>5, <1>a, <2>2
<1> HIDE DEF B
<1>8. \A i \in B : i \in A \/ i = n
  BY DEF B
<1> QED
  BY <1>0, <1>5, <1>6, <1>7, <1>8 DEF Pictures

LEMMA DealsGrow ==
  ASSUME log \in Seq(Event),
         Len(log') = Len(log) + 1, DOMAIN log' = 1 .. Len(log'),
         \A i \in DOMAIN log : log'[i] = log[i]
  PROVE  /\ Cardinality(Deals) \in Nat
         /\ IF log'[Len(log')].name = "DealTile"
            THEN Cardinality(Deals') = Cardinality(Deals) + 1
            ELSE Deals' = Deals
<1>1. DOMAIN log = 1 .. Len(log) /\ Len(log) \in Nat
  OBVIOUS
<1> DEFINE n == Len(log')
           A == {i \in 1 .. Len(log) : log[i].name = "DealTile"}
           B == {i \in 1 .. n : log'[i].name = "DealTile"}
<1>2. n = Len(log) + 1 /\ \A i \in 1 .. Len(log) : log'[i] = log[i]
  BY <1>1
<1> HIDE DEF n
<1>3. B = IF log'[n].name = "DealTile" THEN A \cup {n} ELSE A
  BY <1>1, <1>2
<1>4. IsFiniteSet(A) /\ n \notin A
  <2>1. IsFiniteSet(1 .. Len(log))
    BY <1>1, FS_Interval
  <2>2. A \subseteq 1 .. Len(log)
    OBVIOUS
  <2>3. n \notin A
    BY <1>1, <1>2
  <2> QED
    BY <2>1, <2>2, <2>3, FS_Subset
<1>5. Deals = A /\ Deals' = B
  BY <1>1 DEF Deals, n
<1> HIDE DEF A, B
<1>6. Cardinality(A) \in Nat /\ Cardinality(A \cup {n}) = Cardinality(A) + 1
  BY <1>4, FS_CardinalityType, FS_AddElement
<1> QED
  BY <1>3, <1>5, <1>6 DEF n

\* The tiles of a seat's melds, of which a claim adds one.
LEMMA MeldedType ==
  ASSUME NEW m \in Seq(Meld)
  PROVE  LET f == [i \in 1 .. Len(m) |-> m[i].tile]
         IN  /\ f \in Seq(Tile) /\ Len(f) = Len(m) /\ Len(m) \in Nat
             /\ \A i \in 1 .. Len(m) : f[i] = m[i].tile
<1>1. Len(m) \in Nat /\ \A i \in 1 .. Len(m) : m[i].tile \in Tile
  <2>1. \A i \in 1 .. Len(m) : m[i] \in Meld
    OBVIOUS
  <2> QED
    BY <2>1 DEF Meld
<1> QED
  BY <1>1

LEMMA InitTable == Init => TableTold
<1> SUFFICES ASSUME Init PROVE TableTold
  OBVIOUS
<1>1. /\ log = << >> /\ leftWall = wall.Wall /\ melds \in [Seat -> Seq(Meld)]
      /\ wall \in Walls
      /\ melds = [s \in Seat |-> << >>] /\ discards = [s \in Seat |-> << >>]
  BY DEF Init, NewRound
<1>2. \A name, s : Told(name, s) = {}
  BY <1>1 DEF Told
<1>3. Deals = {}
  BY <1>1 DEF Deals
<1>4. ASSUME NEW s \in Seat PROVE Len(discards[s]) = 0 /\ Len(Melded(s)) = 0
  <2>1. melds[s] = << >> /\ discards[s] = << >>
    BY <1>1
  <2>2. Len(Melded(s)) = Len(melds[s])
    BY <1>1, MeldedType DEF Melded
  <2> QED
    BY <2>1, <2>2
<1>5. Len(leftWall) \in Nat
  BY <1>1, EngineAssumption DEF Wall
<1> QED
  <2>1. Cardinality({}) = 0
    BY FS_EmptySet
  <2>2. \A s \in Seat : Shows("DiscardTile", s, discards[s])
    BY <1>2, <1>4, <2>1 DEF Shows
  <2>3. \A s \in Seat : Shows("ChiPengGang", s, Melded(s))
    BY <1>2, <1>4, <2>1 DEF Shows
  <2>4. Cardinality(Deals) + Len(leftWall) = Len(wall.Wall)
    BY <1>1, <1>3, <1>5, <2>1
  <2> QED
    BY <2>2, <2>3, <2>4 DEF TableTold

LEMMA NextTable ==
  TypeOK /\ Control /\ SeatIsCurrent /\ TableTold /\ [Next]_vars => TableTold'
<1> SUFFICES ASSUME TypeOK, Control, SeatIsCurrent, TableTold, [Next]_vars,
                    pc' # "failed"
             PROVE  TableTold'
  BY DEF TableTold
<1>0. /\ melds \in [Seat -> Seq(Meld)] /\ discards \in [Seat -> Seq(Tile)]
      /\ leftWall \in Seq(Tile) /\ log \in Seq(Event)
  BY DEF TypeOK, EngineTypeOK, DriveTypeOK
<1>1. CASE UNCHANGED <<log, melds, discards, leftWall, wall>> /\ pc # "failed"
  <2>1. /\ \A name, s : Told(name, s)' = Told(name, s)
        /\ \A s : Melded(s)' = Melded(s)
        /\ Deals' = Deals
    BY <1>1 DEF Told, Melded, Deals
  <2>2. ASSUME NEW name, NEW s, NEW tiles, Shows(name, s, tiles)
        PROVE  Pictures(log', Told(name, s)', tiles)
    BY <1>1, <2>1, <2>2, ShowsSame
  <2>3. ASSUME NEW s \in Seat PROVE Shows("DiscardTile", s, discards[s])'
    <3>1. Pictures(log', Told("DiscardTile", s)', discards'[s])
      BY <1>1, <2>2 DEF TableTold
    <3> QED
      BY <3>1 DEF Shows, Pictures
  <2>4. ASSUME NEW s \in Seat PROVE Shows("ChiPengGang", s, Melded(s))'
    <3>1. Pictures(log', Told("ChiPengGang", s)', Melded(s)')
      BY <1>1, <2>1, <2>2 DEF TableTold
    <3> QED
      BY <3>1 DEF Shows, Pictures
  <2> QED
    BY <1>1, <2>1, <2>3, <2>4 DEF TableTold
<1> DEFINE n == Len(log')
           Grows == /\ Len(log) \in Nat /\ n = Len(log) + 1
                    /\ DOMAIN log = 1 .. Len(log) /\ DOMAIN log' = 1 .. n
                    /\ \A i \in DOMAIN log : log'[i] = log[i]
           Kept(name, s) == Told(name, s)' = Told(name, s)
\* The three parts, each kept when its event is not the one pushed.
<1>2. ASSUME Grows, pc # "failed", NEW s \in Seat, UNCHANGED discards[s],
             log'[n].name # "DiscardTile" \/ log'[n].seat # s
      PROVE  Shows("DiscardTile", s, discards[s])'
  <2>1. Shows("DiscardTile", s, discards[s])
    BY <1>2 DEF TableTold
  <2>2. Kept("DiscardTile", s)
    BY <1>0, <1>2, ToldGrows
  <2>3. Pictures(log', Told("DiscardTile", s)', discards'[s])
    BY <1>2, <2>1, <2>2, ShowsSame
  <2> QED
    BY <2>3 DEF Shows, Pictures
<1>3. ASSUME Grows, pc # "failed", NEW s \in Seat, UNCHANGED melds[s],
             log'[n].name # "ChiPengGang" \/ log'[n].seat # s
      PROVE  Shows("ChiPengGang", s, Melded(s))'
  <2>1. Shows("ChiPengGang", s, Melded(s))
    BY <1>3 DEF TableTold
  <2>2. Kept("ChiPengGang", s)
    BY <1>0, <1>3, ToldGrows
  <2>3. Melded(s)' = Melded(s)
    BY <1>3 DEF Melded
  <2>4. Pictures(log', Told("ChiPengGang", s)', Melded(s)')
    BY <1>3, <2>1, <2>2, <2>3, ShowsSame
  <2> QED
    BY <2>4 DEF Shows, Pictures
<1>4. ASSUME Grows, pc # "failed", UNCHANGED <<leftWall, wall>>,
             log'[n].name # "DealTile"
      PROVE  (Cardinality(Deals) + Len(leftWall) = Len(wall.Wall))'
  <2>1. Deals' = Deals
    BY <1>0, <1>4, DealsGrow
  <2> QED
    BY <1>4, <2>1 DEF TableTold
<1>5. CASE /\ UNCHANGED <<melds, discards, leftWall, wall>> /\ pc # "failed"
           /\ \E name \in {"NewRound", "Hule", "LiuJu"},
                 s \in Seat \cup {-1}, t \in Tile \cup {NoTile},
                 next \in {"turn", "archive"} :
                Push(name, s, t, next)
  <2>1. PICK name \in {"NewRound", "Hule", "LiuJu"},
             s \in Seat \cup {-1}, t \in Tile \cup {NoTile},
             next \in {"turn", "archive"} :
          Push(name, s, t, next)
    BY <1>5
  <2>2. Grows /\ log'[n].name \notin {"DealTile", "DiscardTile", "ChiPengGang"}
    BY <2>1, Grown
  <2> HIDE DEF Grows, n
  <2> QED
    BY <1>2, <1>3, <1>4, <1>5, <2>2 DEF TableTold
<1>6. CASE DrawTile
  <2>1. Head(leftWall) \in Tile /\ seat \in Seat
    BY <1>6, DrawType DEF DrawTile, TypeOK, DriveTypeOK
  <2>2. /\ UNCHANGED <<melds, discards, wall>> /\ pc # "failed"
        /\ Push("DealTile", seat, Head(leftWall), "decide")
        /\ leftWall # << >> /\ leftWall' = Tail(leftWall)
    BY <1>6 DEF DrawTile, Draw
  <2>3. Grows /\ log'[n].name = "DealTile"
    BY <2>1, <2>2, Grown
  <2>4. (Cardinality(Deals) + Len(leftWall) = Len(wall.Wall))'
    <3>1. Cardinality(Deals) \in Nat /\ Cardinality(Deals') = Cardinality(Deals) + 1
      BY <1>0, <2>3, DealsGrow
    <3>2. Len(leftWall) \in Nat /\ Len(leftWall') = Len(leftWall) - 1
      BY <1>0, <2>2, HeadTailProperties
    <3> QED
      BY <2>2, <3>1, <3>2 DEF TableTold
  <2> HIDE DEF Grows, n
  <2> QED
    BY <1>2, <1>3, <2>2, <2>3, <2>4 DEF TableTold
<1>7. CASE Throw
  <2>1. PICK t \in Tile :
          /\ Push("DiscardTile", seat, t, "poll")
          /\ seat \in Seat
          /\ discards' = [discards EXCEPT ![seat] = Append(@, t)]
          /\ UNCHANGED <<melds, leftWall, wall>>
    BY <1>7, ThrowIs
  <2>2. pc # "failed"
    BY <1>7 DEF Throw
  <2>3. /\ Grows
        /\ log'[n].name = "DiscardTile" /\ log'[n].seat = seat /\ log'[n].tile = t
    BY <2>1, Grown
  <2>4. PICK q \in Seat : q = seat
    BY <2>1
  <2>5. Shows("DiscardTile", q, discards[q])'
    <3>1. /\ discards[q] \in Seq(Tile) /\ discards'[q] \in Seq(Tile)
          /\ Len(discards'[q]) = Len(discards[q]) + 1
          /\ \A c \in 1 .. Len(discards[q]) : discards'[q][c] = discards[q][c]
          /\ discards'[q][Len(discards'[q])] = t
      <4>1. discards'[q] = Append(discards[q], t) /\ discards[q] \in Seq(Tile)
        BY <1>0, <2>1, <2>4
      <4> QED
        BY <4>1, AppendProperties
    <3>2. Told("DiscardTile", q)' = Told("DiscardTile", q) \cup {n}
      BY <1>0, <2>3, <2>4, ToldGrows
    <3>3. Shows("DiscardTile", q, discards[q])
      BY <2>2 DEF TableTold
    <3>4. Pictures(log', Told("DiscardTile", q)', discards'[q])
      BY <1>0, <2>3, <3>1, <3>2, <3>3, ShowsMore
    <3> QED
      BY <3>4 DEF Shows, Pictures
  <2>6. \A s \in Seat \ {q} : discards'[s] = discards[s]
    BY <1>0, <2>1, <2>4
  <2> HIDE DEF Grows, n
  <2>7. \A s \in Seat : Shows("DiscardTile", s, discards[s])'
    BY <1>2, <2>2, <2>3, <2>4, <2>5, <2>6
  <2> QED
    BY <1>3, <1>4, <2>1, <2>2, <2>3, <2>7 DEF TableTold
<1>8. CASE ClaimMeld
  <2>1. PICK q \in Seat, t \in Tile, type \in MeldTypes :
          Call(q, t, type) /\ Push("ChiPengGang", q, t, "turn")
    BY <1>8, ClaimIs
  <2>2. /\ pc # "failed" /\ UNCHANGED <<discards, leftWall, wall>>
        /\ melds' = [melds EXCEPT ![q] = Append(@, [type |-> type, tile |-> t])]
    BY <1>8, <2>1 DEF ClaimMeld, Call
  <2>3. /\ Grows
        /\ log'[n].name = "ChiPengGang" /\ log'[n].seat = q /\ log'[n].tile = t
    BY <2>1, Grown
  <2>4. melds' \in [Seat -> Seq(Meld)]
    BY <2>1, CallType DEF TypeOK, EngineTypeOK
  <2>5. Shows("ChiPengGang", q, Melded(q))'
    <3>1. /\ melds[q] \in Seq(Meld) /\ Len(melds'[q]) = Len(melds[q]) + 1
          /\ Len(melds[q]) \in Nat
          /\ \A c \in 1 .. Len(melds[q]) : melds'[q][c] = melds[q][c]
          /\ melds'[q][Len(melds'[q])].tile = t
      <4> DEFINE m == [type |-> type, tile |-> t]
      <4>1. melds'[q] = Append(melds[q], m) /\ melds[q] \in Seq(Meld)
        BY <1>0, <2>2
      <4>2. m \in Meld /\ m.tile = t
        BY DEF Meld
      <4> HIDE DEF m
      <4> QED
        BY <4>1, <4>2, AppendProperties
    <3>2. /\ Melded(q) \in Seq(Tile) /\ Len(Melded(q)) = Len(melds[q])
          /\ \A i \in 1 .. Len(melds[q]) : Melded(q)[i] = melds[q][i].tile
      BY <1>0, MeldedType DEF Melded
    <3>3. /\ Melded(q)' \in Seq(Tile) /\ Len(Melded(q)') = Len(melds'[q])
          /\ \A i \in 1 .. Len(melds'[q]) : Melded(q)'[i] = melds'[q][i].tile
      BY <2>4, MeldedType DEF Melded
    <3>4. /\ Len(Melded(q)') = Len(Melded(q)) + 1
          /\ \A c \in 1 .. Len(Melded(q)) : Melded(q)'[c] = Melded(q)[c]
          /\ Melded(q)'[Len(Melded(q)')] = t
      <4>1. \A c \in 1 .. Len(melds[q]) : c \in 1 .. Len(melds'[q])
        BY <3>1
      <4>2. Len(melds'[q]) \in 1 .. Len(melds'[q])
        BY <3>1
      <4>3. \A c \in 1 .. Len(Melded(q)) : Melded(q)'[c] = Melded(q)[c]
        BY <3>1, <3>2, <3>3, <4>1
      <4> QED
        BY <3>1, <3>2, <3>3, <4>2, <4>3
    <3>5. Told("ChiPengGang", q)' = Told("ChiPengGang", q) \cup {n}
      BY <1>0, <2>3, ToldGrows
    <3>6. Shows("ChiPengGang", q, Melded(q))
      BY <2>1, <2>2 DEF TableTold
    <3>7. Pictures(log', Told("ChiPengGang", q)', Melded(q)')
      BY <1>0, <2>3, <3>2, <3>3, <3>4, <3>5, <3>6, ShowsMore
    <3> QED
      BY <3>7 DEF Shows, Pictures
  <2>6. \A s \in Seat \ {q} : melds'[s] = melds[s]
    BY <1>0, <2>2
  <2> HIDE DEF Grows, n
  <2>7. \A s \in Seat : Shows("ChiPengGang", s, Melded(s))'
    BY <1>3, <2>2, <2>3, <2>5, <2>6
  <2> QED
    BY <1>2, <1>4, <2>2, <2>3, <2>7 DEF TableTold
<1>9. CASE StartRound \/ LeaveLoop \/ WinTsumo \/ WinRon
  <2>1. pc # "failed"
    BY <1>9 DEF StartRound, LeaveLoop, WinTsumo, WinRon
  <2> QED
    BY <1>5, <1>9, <2>1, OthersPush
<1>10. CASE \/ FirstTurn \/ DecideHuman \/ DecideBot \/ Reject \/ Panic \/ NoRon
            \/ NoClaim \/ SaveRecord \/ CreditRound
  BY <1>1, <1>10, SilentSteps DEF engineVars, seatVars
<1>11. CASE UNCHANGED vars
  BY <1>1, <1>11 DEF vars, driveVars, engineVars, seatVars
<1> QED
  BY <1>6, <1>7, <1>8, <1>9, <1>10, <1>11 DEF Next

\* While its connection lasts, the client that adds up the pushes has the
\* table: the piles, the melds and what is left of the wall.
THEOREM TableShown == Spec => []TableTold
<1> DEFINE I == TypeOK /\ Control /\ SeatIsCurrent /\ TableTold
<1>1. Init => I
  BY InitType, InitControl, InitTable
<1>2. I /\ [Next]_vars => I'
  BY NextType, NextControl, NextTable
<1> QED
  BY <1>1, <1>2, PTL DEF Spec
-----------------------------------------------------------------------------
(* Tiles.                                                                  *)

\* Every copy of every tile is accounted for, the extra tile of the dealer
\* among the undealt ones until the round starts.
Undealt(t) == IF phase = "dealing" THEN Count(<<wall.DealerExtra>>, t) ELSE 0

Claimed(t) == Cardinality(ClaimsOf(t))

AllAccounted ==
  pc # "failed" =>
    \A t \in Tile :
      OnTable(t) + Count(leftWall, t) + Undealt(t) = Dealt(t) + Claimed(t)

\* A push adds to the claims of a tile only when it is one.
LEMMA ClaimsGrow ==
  ASSUME NEW t, log \in Seq(Event),
         Len(log') = Len(log) + 1, DOMAIN log' = 1 .. Len(log'),
         \A i \in DOMAIN log : log'[i] = log[i]
  PROVE  /\ Claimed(t) \in Nat
         /\ IF log'[Len(log')].name = "ChiPengGang" /\ log'[Len(log')].tile = t
            THEN Claimed(t)' = Claimed(t) + 1
            ELSE Claimed(t)' = Claimed(t)
<1>1. DOMAIN log = 1 .. Len(log) /\ Len(log) \in Nat
  OBVIOUS
<1> DEFINE n == Len(log')
           A == {i \in 1 .. Len(log) : log[i].name = "ChiPengGang" /\ log[i].tile = t}
           B == {i \in 1 .. n : log'[i].name = "ChiPengGang" /\ log'[i].tile = t}
<1>2. n = Len(log) + 1 /\ \A i \in 1 .. Len(log) : log'[i] = log[i]
  BY <1>1
<1> HIDE DEF n
<1>3. B = IF log'[n].name = "ChiPengGang" /\ log'[n].tile = t THEN A \cup {n} ELSE A
  BY <1>1, <1>2
<1>4. IsFiniteSet(A) /\ n \notin A
  <2>1. IsFiniteSet(1 .. Len(log))
    BY <1>1, FS_Interval
  <2>2. A \subseteq 1 .. Len(log)
    OBVIOUS
  <2>3. n \notin A
    BY <1>1, <1>2
  <2> QED
    BY <2>1, <2>2, <2>3, FS_Subset
<1>5. Claimed(t) = Cardinality(A) /\ Claimed(t)' = Cardinality(B)
  BY <1>1 DEF Claimed, ClaimsOf, n
<1> HIDE DEF A, B
<1>6. Cardinality(A) \in Nat /\ Cardinality(A \cup {n}) = Cardinality(A) + 1
  BY <1>4, FS_CardinalityType, FS_AddElement
<1> QED
  BY <1>3, <1>5, <1>6 DEF n

\* A push that is no claim leaves their number.
LEMMA ClaimsSame ==
  ASSUME TypeOK, NEW t,
         NEW name \in {"NewRound", "DealTile", "DiscardTile", "Hule", "LiuJu"},
         NEW s \in Seat \cup {-1}, NEW x \in Tile \cup {NoTile}, NEW next,
         Push(name, s, x, next), pc' # "failed"
  PROVE  Claimed(t)' = Claimed(t)
<1>1. /\ Len(log') = Len(log) + 1 /\ DOMAIN log' = 1 .. Len(log')
      /\ \A i \in DOMAIN log : log'[i] = log[i]
      /\ log'[Len(log')].name = name
  BY Grown
<1>2. log \in Seq(Event) /\ name # "ChiPengGang"
  BY DEF TypeOK, DriveTypeOK
<1> QED
  BY <1>1, <1>2, ClaimsGrow

\* The claims of a tile are the fresh ones and the others.
LEMMA ClaimsSplit ==
  ASSUME TypeOK, NEW t
  PROVE  /\ Cardinality({j \in ClaimsOf(t) : Fresh(j)}) \in Nat
         /\ Cardinality({j \in ClaimsOf(t) : ~Fresh(j)}) \in Nat
         /\ Claimed(t) = Cardinality({j \in ClaimsOf(t) : Fresh(j)})
                           + Cardinality({j \in ClaimsOf(t) : ~Fresh(j)})
<1> DEFINE C == ClaimsOf(t)
           A == {j \in C : Fresh(j)}
           B == {j \in C : ~Fresh(j)}
<1>1. log \in Seq(Event)
  BY DEF TypeOK, DriveTypeOK
<1>2. Len(log) \in Nat /\ DOMAIN log = 1 .. Len(log)
  BY <1>1
<1>3. IsFiniteSet(1 .. Len(log))
  BY <1>2, FS_Interval
<1>4. C \subseteq 1 .. Len(log)
  BY <1>2 DEF ClaimsOf
<1>5. IsFiniteSet(C)
  BY <1>3, <1>4, FS_Subset
<1>6. Claimed(t) = Cardinality(C)
  BY DEF Claimed
<1> HIDE DEF C
<1>7. A \subseteq C /\ B \subseteq C /\ A \cup B = C /\ A \cap B = {}
  OBVIOUS
<1>8. IsFiniteSet(A) /\ IsFiniteSet(B)
  BY <1>5, <1>7, FS_Subset
<1>9. Cardinality(A) \in Nat /\ Cardinality(B) \in Nat
  BY <1>8, FS_CardinalityType
<1> HIDE DEF A, B
<1>10. Cardinality(A \cup B) = Cardinality(A) + Cardinality(B) - Cardinality(A \cap B)
  BY <1>8, FS_Union
<1>11. Cardinality(A \cap B) = 0
  BY <1>7, FS_EmptySet
<1>12. Cardinality(C) = Cardinality(A) + Cardinality(B)
  BY <1>7, <1>9, <1>10, <1>11
<1> QED
  BY <1>6, <1>9, <1>12 DEF A, B, C

LEMMA DealtType ==
  ASSUME EngineTypeOK, NEW t
  PROVE  Dealt(t) \in Int
<1>1. wall.Hands \in [Seat -> Seq(Tile)] /\ wall.Wall \in Seq(Tile)
      /\ wall.DealerExtra \in Tile
  BY EngineAssumption DEF EngineTypeOK, Wall
<1>2. \A s \in Seat : Count(wall.Hands[s], t) \in Nat
  BY <1>1, CountType
<1>3. Count(wall.Wall, t) \in Nat
  BY <1>1, CountType
<1>4. Count(<<wall.DealerExtra>>, t) \in Int
  BY CountOne
<1>5. Sum([s \in Seat |-> Count(wall.Hands[s], t)]) \in Int
  BY <1>2, SumType
<1> QED
  BY <1>3, <1>4, <1>5 DEF Dealt

LEMMA InitAccounts == Init => AllAccounted
<1> SUFFICES ASSUME Init, NEW t \in Tile
             PROVE  OnTable(t) + Count(leftWall, t) + Undealt(t)
                      = Dealt(t) + Claimed(t)
  BY DEF AllAccounted
<1>1. /\ leftWall = wall.Wall /\ hand = wall.Hands /\ phase = "dealing"
      /\ melds = [s \in Seat |-> << >>] /\ discards = [s \in Seat |-> << >>]
  BY DEF Init, NewRound
<1>2. EngineTypeOK
  BY InitType DEF TypeOK
<1>3. ASSUME NEW s \in Seat PROVE AtSeat(s, t) = Count(wall.Hands[s], t)
  <2>1. melds[s] = << >> /\ discards[s] = << >> /\ hand[s] = wall.Hands[s]
    BY <1>1
  <2>2. \A n : {i \in DOMAIN melds[s] : melds[s][i].tile = t
                                        /\ MeldSize(melds[s][i].type) = n} = {}
    BY <2>1
  <2>3. InMelds(s, t) = 0
    <3>1. MeldsOf(melds[s], t, 3) = 0 /\ MeldsOf(melds[s], t, 4) = 0
      BY <2>2, FS_EmptySet DEF MeldsOf
    <3> QED
      BY <3>1 DEF InMelds, MeldsOf
  <2>4. Count(discards[s], t) = 0
    BY <2>1, CountEmpty
  <2>5. Count(hand[s], t) \in Nat
    BY <1>2, AtSeatType
  <2> QED
    BY <2>1, <2>3, <2>4, <2>5 DEF AtSeat
<1>4. OnTable(t) = Sum([s \in Seat |-> Count(wall.Hands[s], t)])
  BY <1>3, SeatFacts DEF OnTable, Sum
<1>5. Claimed(t) = 0
  <2>1. ClaimsOf(t) = {}
    BY DEF Init, ClaimsOf
  <2> QED
    BY <2>1, FS_EmptySet DEF Claimed
<1>6. Dealt(t) \in Int
  BY <1>2, DealtType
<1>7. OnTable(t) + Count(leftWall, t) + Undealt(t) = Dealt(t)
  BY <1>1, <1>4 DEF Undealt, Dealt
<1> QED
  BY <1>5, <1>6, <1>7

LEMMA NextAccounts ==
  TypeOK /\ Control /\ SeatIsCurrent /\ AllAccounted /\ [Next]_vars => AllAccounted'
<1> SUFFICES ASSUME TypeOK, Control, SeatIsCurrent, AllAccounted, [Next]_vars,
                    pc' # "failed", NEW t \in Tile
             PROVE  (OnTable(t) + Count(leftWall, t) + Undealt(t)
                       = Dealt(t) + Claimed(t))'
  BY DEF AllAccounted
<1>0. /\ OnTable(t) \in Int /\ Count(leftWall, t) \in Nat /\ Dealt(t) \in Int
      /\ Claimed(t) \in Nat
      /\ EngineTypeOK /\ leftWall \in Seq(Tile) /\ log \in Seq(Event)
  <2>1. EngineTypeOK /\ leftWall \in Seq(Tile) /\ log \in Seq(Event)
    BY DEF TypeOK, EngineTypeOK, DriveTypeOK
  <2>2. OnTable(t) \in Int
    BY <2>1, AtSeatType
  <2>3. Count(leftWall, t) \in Nat
    BY <2>1, CountType
  <2>4. Dealt(t) \in Int
    BY <2>1, DealtType
  <2>5. Claimed(t) \in Nat
    <3>1. Claimed(t) = Cardinality({j \in ClaimsOf(t) : Fresh(j)})
                         + Cardinality({j \in ClaimsOf(t) : ~Fresh(j)})
      BY ClaimsSplit
    <3>2. /\ Cardinality({j \in ClaimsOf(t) : Fresh(j)}) \in Nat
          /\ Cardinality({j \in ClaimsOf(t) : ~Fresh(j)}) \in Nat
      BY ClaimsSplit
    <3> QED
      BY <3>1, <3>2
  <2> QED
    BY <2>1, <2>2, <2>3, <2>4, <2>5
\* What a step moves, and what it tells, comes to the same.
<1>1. ASSUME phase # "dealing", phase' # "dealing", wall' = wall, pc # "failed",
             NEW d \in Int,
             OnTable(t)' + Count(leftWall', t) = OnTable(t) + Count(leftWall, t) + d,
             Claimed(t)' = Claimed(t) + d
      PROVE  (OnTable(t) + Count(leftWall, t) + Undealt(t) = Dealt(t) + Claimed(t))'
  <2>1. Dealt(t)' = Dealt(t)
    BY <1>1 DEF Dealt
  <2>2. Undealt(t) = 0 /\ Undealt(t)' = 0
    BY <1>1 DEF Undealt
  <2>3. OnTable(t) + Count(leftWall, t) + Undealt(t) = Dealt(t) + Claimed(t)
    BY <1>1 DEF AllAccounted
  <2>4. OnTable(t) + Count(leftWall, t) = Dealt(t) + Claimed(t)
    BY <1>0, <2>2, <2>3
  <2>5. OnTable(t)' + Count(leftWall', t) = Dealt(t) + Claimed(t)'
    BY <1>0, <1>1, <2>4
  <2>6. OnTable(t)' + Count(leftWall', t) + 0 = Dealt(t) + Claimed(t)'
    BY <1>0, <1>1, <2>4
  <2> QED
    BY <2>1, <2>2, <2>6
<1>2. ASSUME UNCHANGED <<hand, discards, melds, leftWall, wall>>,
             phase = "dealing" <=> phase' = "dealing", pc # "failed",
             Claimed(t)' = Claimed(t)
      PROVE  (OnTable(t) + Count(leftWall, t) + Undealt(t) = Dealt(t) + Claimed(t))'
  <2>1. OnTable(t)' = OnTable(t)
    BY <1>2 DEF OnTable, Sum, AtSeat, InMelds
  <2>2. Dealt(t)' = Dealt(t) /\ Undealt(t)' = Undealt(t)
    BY <1>2 DEF Dealt, Undealt
  <2>3. OnTable(t) + Count(leftWall, t) + Undealt(t) = Dealt(t) + Claimed(t)
    BY <1>2 DEF AllAccounted
  <2> QED
    BY <1>2, <2>1, <2>2, <2>3
<1>3. CASE StartRound
  <2>1. Start /\ pc = "start" /\ Push("NewRound", Dealer, NoTile, "turn")
    BY <1>3 DEF StartRound
  <2>2. OnTable(t)' + Count(leftWall', t)
          = OnTable(t) + Count(leftWall, t) + Count(<<wall.DealerExtra>>, t)
    BY <1>0, <2>1, StartMoves
  <2>3. phase = "dealing" /\ phase' = "playing" /\ wall' = wall
    BY <2>1 DEF Start
  <2>4. /\ Dealt(t)' = Dealt(t)
        /\ Undealt(t) = Count(<<wall.DealerExtra>>, t) /\ Undealt(t)' = 0
    BY <2>3 DEF Dealt, Undealt
  <2>5. Claimed(t)' = Claimed(t)
    BY <2>1, ClaimsSame, SeatFacts
  <2>6. OnTable(t) + Count(leftWall, t) + Undealt(t) = Dealt(t) + Claimed(t)
    BY <2>1 DEF AllAccounted
  <2>7. OnTable(t)' + Count(leftWall', t) = Dealt(t) + Claimed(t)
    BY <2>2, <2>4, <2>6
  <2>8. OnTable(t)' + Count(leftWall', t) + 0 = Dealt(t) + Claimed(t)
    BY <1>0, <2>7
  <2> QED
    BY <2>4, <2>5, <2>8
<1>4. CASE DrawTile
  <2>1. Draw /\ pc = "turn" /\ Push("DealTile", seat, Head(leftWall), "decide")
    BY <1>4 DEF DrawTile
  <2>2. Head(leftWall) \in Tile /\ seat \in Seat
    BY <2>1, DrawType DEF TypeOK, DriveTypeOK
  <2>3. phase # "dealing" /\ phase' = phase /\ wall' = wall
    BY <2>1 DEF Draw, Control
  <2>4. OnTable(t)' + Count(leftWall', t) = OnTable(t) + Count(leftWall, t)
    BY <1>0, <2>1, DrawMoves
  <2>5. Claimed(t)' = Claimed(t)
    BY <2>1, <2>2, ClaimsSame
  <2>6. /\ OnTable(t)' + Count(leftWall', t) = OnTable(t) + Count(leftWall, t) + 0
        /\ Claimed(t)' = Claimed(t) + 0
    BY <1>0, <2>4, <2>5
  <2> QED
    BY <1>1, <2>1, <2>3, <2>6
<1>5. CASE Throw
  <2>1. PICK x \in Tile : /\ Discard(x) \/ DeclareRiichi(x)
                          /\ Push("DiscardTile", seat, x, "poll")
                          /\ seat \in Seat
    BY <1>5, ThrowIs
  <2>2. pc = "apply" /\ phase # "dealing"
    BY <1>5 DEF Throw, Control
  <2>3. phase' = phase /\ wall' = wall
    BY <2>1 DEF Discard, DeclareRiichi
  <2>4. OnTable(t)' + Count(leftWall', t) = OnTable(t) + Count(leftWall, t)
    BY <1>0, <2>1, ThrowMoves
  <2>5. Claimed(t)' = Claimed(t)
    BY <2>1, ClaimsSame
  <2>6. /\ OnTable(t)' + Count(leftWall', t) = OnTable(t) + Count(leftWall, t) + 0
        /\ Claimed(t)' = Claimed(t) + 0
    BY <1>0, <2>4, <2>5
  <2> QED
    BY <1>1, <2>2, <2>3, <2>6
<1>6. CASE ClaimMeld
  <2>1. PICK q \in Seat, x \in Tile, type \in MeldTypes :
          Call(q, x, type) /\ Push("ChiPengGang", q, x, "turn")
    BY <1>6, ClaimIs
  <2>2. pc = "claim" /\ phase # "dealing"
    BY <1>6 DEF ClaimMeld, Control
  <2>3. phase' = phase /\ wall' = wall
    BY <2>1 DEF Call
  <2> DEFINE d == IF x = t THEN 1 ELSE 0
  <2>4. OnTable(t)' + Count(leftWall', t) = OnTable(t) + Count(leftWall, t) + d
    BY <1>0, <2>1, CallMoves
  <2>5. Claimed(t)' = Claimed(t) + d
    <3>1. /\ Len(log') = Len(log) + 1 /\ DOMAIN log' = 1 .. Len(log')
          /\ \A i \in DOMAIN log : log'[i] = log[i]
          /\ log'[Len(log')].name = "ChiPengGang" /\ log'[Len(log')].tile = x
      BY <2>1, Grown
    <3>2. IF x = t THEN Claimed(t)' = Claimed(t) + 1 ELSE Claimed(t)' = Claimed(t)
      BY <1>0, <3>1, ClaimsGrow
    <3> QED
      BY <1>0, <3>2
  <2>6. d \in Int
    OBVIOUS
  <2> HIDE DEF d
  <2> QED
    BY <1>1, <2>2, <2>3, <2>4, <2>5, <2>6
<1>7. CASE LeaveLoop \/ WinTsumo \/ WinRon
  <2>1. phase # "dealing" /\ phase' = "ended" /\ pc # "failed"
    BY <1>7 DEF LeaveLoop, WinTsumo, WinRon, End, Control
  <2>2. UNCHANGED <<hand, discards, melds, leftWall, wall>>
    BY <1>7 DEF LeaveLoop, WinTsumo, WinRon, seatVars
  <2>3. Claimed(t)' = Claimed(t)
    <3>1. PICK name \in {"NewRound", "Hule", "LiuJu"}, s \in Seat \cup {-1},
               x \in Tile \cup {NoTile}, next \in {"turn", "archive"} :
               Push(name, s, x, next)
      BY <1>7, OthersPush
    <3> QED
      BY <3>1, ClaimsSame
  <2> QED
    BY <1>2, <2>1, <2>2, <2>3
<1>8. CASE /\ UNCHANGED <<log, engineVars>>
           /\ pc # "failed"
  <2>1. Claimed(t)' = Claimed(t)
    BY <1>8 DEF Claimed, ClaimsOf
  <2>2. UNCHANGED <<hand, discards, melds, leftWall, wall, phase>>
    BY <1>8 DEF engineVars, seatVars
  <2> QED
    BY <1>2, <1>8, <2>1, <2>2
<1>9. CASE \/ FirstTurn \/ DecideHuman \/ DecideBot \/ Reject \/ Panic \/ NoRon
           \/ NoClaim \/ SaveRecord \/ CreditRound
  BY <1>8, <1>9, SilentSteps
<1>10. CASE UNCHANGED vars
  BY <1>8, <1>10 DEF vars, driveVars
<1> QED
  BY <1>3, <1>4, <1>5, <1>6, <1>7, <1>9, <1>10 DEF Next

\* From the dealer's extra tile on, no tile of the wall is lost, and one is
\* there once more than it was dealt for every claim of a tile that nobody had
\* just thrown and for no other reason, whatever is drawn, thrown, declared and
\* claimed, for every deck and every wall.
THEOREM TilesKept == Spec => []TilesConserved
<1> DEFINE I == TypeOK /\ Control /\ SeatIsCurrent /\ AllAccounted
<1>1. Init => I
  BY InitType, InitControl, InitAccounts
<1>2. I /\ [Next]_vars => I'
  BY NextType, NextControl, NextAccounts
<1>3. I => TilesConserved
  <2> SUFFICES ASSUME I, phase # "dealing", pc # "failed", NEW t \in Tile
               PROVE  Copies(t)
                        = Dealt(t) + Cardinality({j \in ClaimsOf(t) : ~Fresh(j)})
    BY DEF TilesConserved
  <2> DEFINE fresh == Cardinality({j \in ClaimsOf(t) : Fresh(j)})
             astray == Cardinality({j \in ClaimsOf(t) : ~Fresh(j)})
  <2>1. OnTable(t) \in Int /\ Count(leftWall, t) \in Nat /\ Dealt(t) \in Int
    <3>1. EngineTypeOK /\ leftWall \in Seq(Tile)
      BY DEF TypeOK, EngineTypeOK
    <3> QED
      BY <3>1, AtSeatType, CountType, DealtType
  <2>2. OnTable(t) + Count(leftWall, t) + 0 = Dealt(t) + Claimed(t)
    BY DEF AllAccounted, Undealt
  <2>3. fresh \in Nat /\ astray \in Nat /\ Claimed(t) = fresh + astray
    BY ClaimsSplit
  <2>4. Copies(t) = OnTable(t) + Count(leftWall, t) - fresh
    BY DEF Copies, OnTable
  <2> HIDE DEF fresh, astray
  <2>5. OnTable(t) + Count(leftWall, t) - fresh = Dealt(t) + astray
    BY <2>1, <2>2, <2>3
  <2> QED
    BY <2>4, <2>5 DEF astray
<1> QED
  BY <1>1, <1>2, <1>3, PTL DEF Spec
=============================================================================
