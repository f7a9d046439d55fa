# A TLA+ model of the gosoul server

The server plays Japanese mahjong with the official client over WebSockets: a
lobby (accounts, rooms, shop, lottery), a game surface that drives one round per
session in a goroutine of its own, a SQLite store, a GM console and a proxy.
This directory holds TLA+ modules translated from the Go code, the TLC
configurations that check them, and theorems that TLAPS checks. Paths below are
relative to the root of the repository.

    tlc -config Drive.cfg MCDrive.tla     model-checks a run (see PROJECT.json)
    tlapm DriveProofs.tla                 checks the proofs

## 1. The system

| component | state it keeps | operations | talks to |
|---|---|---|---|
| round engine (`internal/game/engine`) | hands, melds, piles, riichi, scores, sticks, live wall, current seat, phase, winner | `NewRound`, `Start`, `Draw`, `Discard`, `DeclareRiichi`, `Candidates`, `Call`, `End`, `ResolveRon`, `ResolveTsumo` | yaku (win check, payments) |
| yaku (`internal/game/yaku`) | none | `Analyze`, `Calc`, `Fu`, `CountDora`, payments | engine (`CheckWin`) |
| round drive (`game/loop.go`, `drive.go`, `round.go`) | the loop's seat, step number and decision; the pushes made | `startRound`, `playTurns`, `decidePlay`, `applyPlay`, `askCalls`, `archive` | engine, bots, client pushes, paipu store, achievement hook |
| game surface (`game/session.go`, `handlers.go`) | `sessions` by connection, a drive per session, a one-slot channel per human seat | `authGame`, `enterGame`, `inputOperation` | read loop on one side, drives on the other |
| transport, router (`internal/transport`, `internal/router`) | per connection: a read loop with a deadline, a mutex for writers, a pinger with a ticker | `serve`, `pingLoop`, `Dispatch`, `Respond`, `Notify`, `Close` | every handler and drive |
| rooms (`internal/room`) | `rooms`, `member`, `nextID`, no lock | `Create`, `Join`, `Leave`, `SetReady`, `AddRobot`, `Start` | lobby handlers, the account table |
| accounts (`internal/user`, `internal/storage`) | tables accounts, currencies, characters, achievements, paipu; the account of a connection | `Signup`, `SignupByToken`, `Login`, `LoginByToken`, `Grant`, `GrantCharacter`, `SetAchievement`, ... | lobby, GM console, shop, lottery, drives |
| shop, gacha | none of their own | `Purchase`, `Open` | accounts |
| GM console (`internal/admin`) | none | `createAccount`, `grantAccount` | accounts |
| matchmaking (`lobby/handlers.go`) | a timer goroutine per request | `matchGame`, `cancelMatch` | client |
| bots (`game/ai`) | the mjai bridge keeps a subprocess | `ChooseSelfAction`, `ChooseCall` | drive |
| walls (`internal/deal`) | the presets, under a lock | `BuildWall` of `RandomSource` and `PresetSource`; `Upsert`, `Delete` of the store | engine, GM console |
| protocol, gateway, configuration, simclient | registries, certificates | encoding, proxying | not concurrent with the above in any way that matters |

What is hard in it:

- **One seat, two variables.** The loop keeps its own `seat`; the engine keeps
  `current`, and `Draw`, `Discard` and `DeclareRiichi` act on the latter. Every
  claim, ron and riichi has to move both.
- **Operations that check little.** `Draw`, `Call` and `DeclareRiichi` look at
  neither the phase nor each other's conditions: only the order of the loop's
  calls keeps the round legal.
- **Goroutines without locks.** `sessions`, `drive.humans`, `rooms` and `member`
  are plain maps, used by the goroutine of every connection (and, for `humans`,
  by the drive).
- **A read loop that blocks.** A handler sends into a channel of one slot whose
  reader may be gone, on the only goroutine that reads the connection.
- **Deadlines set by others.** The socket has one write deadline, which each write
  moves for itself and which stays behind for whoever writes next without one;
  only pongs move the read deadline.
- **Several statements, no transaction.** Signup, purchases, draws and credits
  are sequences of SQL statements that other goroutines, errors and crashes
  come between.
- **Asynchronous ends.** A client that leaves, a push that fails, a store that
  fails, a panic in a drive: each ends a round at another point.

What makes each part correct: points and tiles are conserved; the client is told
what the table is; a round is settled, then told, then stored, then credited;
an input is taken once, in order, by the round it was meant for; the room an
account is told it sits in is one it sits in; nothing is delivered that was not
paid for, and a count of rounds is the number of rounds; a connection is ended for
a cause, and a wall holds no tile more often than its deck but where a preset
pins it. PROJECT.json lists the
hazards line by line, each with the properties that watch it.

## 2. The modules

| module | models | composed with |
|---|---|---|
| `Yaku` | tiles as slots, `Analyze` (the decomposition found per pair), the payments | |
| `Hand` | the yaku, fu and dora of a complete hand, and `CheckWin` | extends `Yaku` |
| `Engine` | one action per operation of `Round` | extends `Yaku` |
| `Drive` | the goroutine of a round | extends `Engine`; every step of the engine is part of a step of the drive |
| `Lifecycle` | abstract: what a round promises to the store, the hook and the client | implemented by `Drive`, and by each drive of `Session` |
| `Session` | read loops, handlers, session map, channels, goroutines of the drives | stands on `Lifecycle` for what a round does |
| `Transport` | one connection in time: deadlines, pings, the mutex of the writers, Dispatch, `matchGame` | `Session` stands on it for what ends a connection |
| `Room` | the room service under concurrent handlers | |
| `Accounts` | the operations on accounts, statement by statement | |
| `Deal` | random walls, presets and their store | builds the walls that `Engine` is given as a constant |
| `MCDrive`, `MCHand`, `MCAccounts` | values for TLC: walls, hands, prices | |
| `YakuProofs`, `EngineProofs`, `DriveProofs`, `SessionProofs`, `TransportProofs`, `RoomProofs`, `AccountsProofs`, `DealProofs` | lemmas and theorems | each extends the module it is named for, `YakuProofs` also `Hand` |

### Engine and Drive

The variables of `Engine` are the fields of `Round` and its `Players`. A hand is
a sequence used as a bag; that `SortHand` orders it is seen only by the choice
of the fallback discard, which the model lets be any tile of the hand. An
operation is enabled where the code returns no error; where a caller acts on the
error, its guard has a name (`CanDiscard`, `CanRiichi`, `CanMeld`). `Effective` is
called by tests alone and is left out. The han and fu of a win range over the
constant `Values`, whatever `Hand` would make of them; red fives and dora are left out,
as no step depends on them.

In `Drive`, `pc` is the place in `loop.go` between two points where the goroutine
waits, pushes, or may return an error: `turn` is the head of `playTurns`,
`decide` is `decidePlay`, `apply` is `applyPlay`, `poll` and `claim` are the two halves of
`askCalls`, `archive` and `credit` the two halves of `archive`. `Push` is
`ActionNotify`: it may fail, and the drive then ends. The variable `log` holds the
pushes made; `saved` and `credited` stand for the store and the hook. A client
may answer any operation with any tile, or none; a bot any that `SelfOps` and
`Claims` allow, which covers the built-in bots and whatever a bridge may
send. A panic in `Fu` (a hand won in a shape without a pair) is the action `Panic`.

### Hand

A state is a complete hand and, after `Declare`, what `CheckWin` made of it for a seat,
by a draw or on a discard. A hand remembers the pair, the closed sets and the open triplets
it was put together from (`held`); the code sees of it the open sets and the other tiles
(`ConcealedTiles`). A fan is a name and a number of han, the result of `Calc` a set of them; each yaku with
a function of its own in `yaku.go` has an operator of that name. The context fields
that `CheckWin` never sets (riichi, ippatsu, rinshan, chankan) stay in `Regular` and are
false. `SplitSets` in `Yaku` is the backtracking of `splitSets` as a recursive function of
the number of sets still needed: the first result there is of a tally, or none.

### Session

A connection has a socket (`link`), a read loop (`loop`) and, through `sessions`,
a session; sessions and drives are numbered in the order they were made. The
write to `h.sessions` and the registration of a channel in `drive.humans` are steps
of their own, because another goroutine may meet them: the Go runtime then ends
the process (`SessionsRace`, `HumansRace`), and so does a panic in a drive. A drive
in `Session` is its stage in `Lifecycle` plus its channel: `Drive` shows that the
round's own steps are of that kind. Its turns are bounded by the constant
`MaxTurns` as the wall bounds those of a round. Frames, responses and the wall
clock are those of `Transport`; here an open connection may at any time be gone.

### Transport

One connection, since connections share nothing. Time is counted in units
(`Tick`), a deadline is the time it has left, and a goroutine that can run does so
before time passes. `todo` is what the handler in hand has yet to do: write an
answer, fail and have `Dispatch` answer in its place (`<<"sorry">>`), write an answer and then a
push (`enterGame`), start the goroutine of `matchGame`, or hand an input to a drive and then
answer (`deliver`, of `inputOperation`). A handler may fail in a write, which breaks the socket, or
without one (`HandlerFails`: an answer or push that cannot be encoded, a round that cannot be
started), which leaves it as it is; `Dispatched` is what `Dispatch` makes of either. `Delivered` comes at once, later
or never: that a drive may never take an input is what `session_stuck` shows. `Write` is everybody's: it fails on
a broken socket or one whose deadline has passed, goes into the client's window, or
waits with the mutex (`lock`) until the client reads or the deadline passes. `Ping`
differs from the others in that `pingLoop` sets no deadline of its own. `Pong` is the handler
that moves the read deadline; it runs in the read loop, between two requests.
`slow` records that a write has had to wait, for the properties. What gorilla's
socket does after a failed write (every later one fails) is modelled from how the
code uses it. `unwritten` remembers, for the properties, that the handler in hand has failed
without a write. The frames themselves and the log are left out.

### Deal

`Cut` is `RandomSource.BuildWall` after the shuffle, which may return any permutation
of the deck (`Decks`); `Laid` and `DeadWalls` are `PresetSource`. A tile is its kind, so that
three players are a smaller set of kinds. `BuildWall` reads the preset of an id as
the factory does; `Upsert`, `Unnamed` (an id from the number of presets) and
`Delete` are the console's. The lock of the store makes each of them one step. `pins`
remembers the preset a wall was built from, for the properties.

### Room

`room` holds all rooms ever made, each with its id, and `rooms` those in the table, so that a
join that still holds a dropped room is seen to change it, and so is a room that
another has replaced. `Join` is two steps (`Join`, `TakeSeat`), since it asks the database for a nickname after
its checks, and so is `Create` (`Create`, `PutRoom`), which reads `nextID` for the room and
counts it up later, from what it then reads or from what it had read; the other operations are
one step. A request may name any account and any room. `crossed` records the rooms
changed while a join was between its steps, and `overlapped` that two connections were creating
rooms at one moment; `Shared` is that another room has the id of this one; `Race` is two handlers writing one
slice of players, after which it may lack an entry or repeat one; `Restart` is the
end of the process, by the runtime on a concurrent map access or otherwise.

### Accounts

An operation is a sequence of statements, `todo[t]`, and every SQL statement is an
action: `Lookup`, `InsertAccount`, `InsertRow`, `AddTo`, `CheckBalance`, `AddCharacter`,
`ReadProgress`, `SetProgress`. `LoginAs` sets the account of a connection, `who[t]`, for which
its later requests are made; so does a visitor's signup. The console grants amounts of any
sign to any account (`GrantAccount`), and a drive credits whatever account id its client sent
(`Increment`), one of no account included. The schema forbids that row, but foreign keys are on
in the first connection of the pool only: `RefuseProgress` is the statement on that one,
`SetProgress` the statement on any other, of which there may be one once two
operations have run at once (`pooled`). `Fail` is the error of any of them (`must` says whether
the code gives up or goes on), `Crash` the end of the process between two. The
tables survive, logins do not. What makes a password or a token right, login times, levels and profiles are left out. The
variables `owed`, `failed`, `overlapped`, `taken` (what the console took away), `made`, `credited` and `raced` record
history for the properties, and no guard reads them; `owed[t][a]` is how many copies or draws
the operation of goroutine `t` has charged account `a` for and not delivered.

## 3. The runs

| run | instance | what it shows |
|---|---|---|
| `drive` | two prescribed walls, one suit of four ranks and two honors, hands of one set and a pair, seat 0 human, bots that may do anything | 13 properties of one round: `PointsConserved`, `TilesConserved`, `SeatIsCurrent`, `HandAccount`, `RiichiStaysClosed`, `DaburiPrecedesCalls`, `TableTold`, `StepsOrdered`, `ArchiveMatchesLastPush`, `FrozenAfterEnd`, `RoundEnds`, `ImplementsLifecycle` and the types |
| `drive_ron` | the same | finding: a round won by ron is archived with winner -1 |
| `drive_claim` | the same | finding: a seat claims a tile that nobody has thrown |
| `drive_open` | the same | finding: after a pon a hand is too long to win |
| `session` | two connections, two sessions, two inputs of each, two turns per round | at most one drive per session; inputs taken once, in order, and by the round of the newest session; drives keep their life cycle; an accepted input is played unless the round ends |
| `session_stuck` | one connection, three inputs | finding: the second input after the end of a round blocks the connection for good |
| `transport` | units of ten seconds: the write wait is 1, the read deadline 6, the ping period 5; a window of one frame, one match | every request is answered, and twice only where a handler failed outside a write; a connection ends for a cause only; a silent client is noticed unless the read loop is held up for good; a match that was answered is announced |
| `transport_quiet` | the same | finding: the server's own ping ends a quiet connection |
| `room` | two connections, two rooms of two seats, an ordinary account and one whose id (1001) is that of a robot, creations and joins in two steps against every other handler | rooms share an id only when two creations overlapped; membership, seats and table agree but for a room that another replaced; a room keeps its limit unless handlers cross |
| `accounts` | two goroutines, four operations, two names, two goods | no operation delivers what it has not charged, and none that is over owes anything unless a statement failed; an overdraft beyond what the GM took needs two overlapping operations, an answered signup left a wallet, credits made in turn add up |
| `overdraft` | one account | finding: two purchases that overlap take the balance below zero |
| `hand` | the deck of the program, 5123 complete hands of 14 shapes of sets and 5 pairs, all seats, drawn or on a discard | `Analyze` finds and reads every hand, the ends of sets and hands mean what they mean of the tiles, a draw is worth its ron, the payments of what the hands get agree |

Bounds, and why they are enough:

- *Drive.* The claims, a ron, a tsumo, a riichi and a panic all happen within the
  first turns of the chosen walls: the first holds a pon of one tile, a
  daiminkan of another and a ron; the second the special shape. Three tiles
  are left to draw, so that the human seat acts again after a claim. Nothing
  in the code depends on the number of tiles or seats beyond that, and all properties
  but `RoundEnds` are proved for all walls.
- *Session.* Two sessions of a connection are what it takes for an old drive to
  run beside a new one, and two connections for one to meet the other's write of
  the map; two inputs fill the slot and block the read loop, and none is read
  while it is blocked. Bounds: `MaxSessions`, `MaxInputs`, `MaxTurns`. The safety
  properties are proved for any bounds.
- *Transport.* The waits of the code, 10, 60 and 50 seconds, are exact in units of
  ten; the 1.2 seconds of a match are rounded up to one. With units of five
  seconds and a window of two frames (waits 2, 12 and 10) the same properties hold
  in eight million states. That a connection ends for a cause is proved for all
  waits. `Matches` bounds the requests for a match; ages stop at `PongWait`.
- *Room.* Two rooms are needed for a member of one to enter another, and for two to share an
  id; two seats for a room to be full. States after a data race are checked but not
  continued (state constraint `Unspoiled`), nor are those after two joins are under way at once
  (`OneJoin`); the proofs have neither restriction. `MaxRooms` bounds the rooms made.
- *Accounts.* A signup, a login and two more, or a signup and three operations of
  two goroutines contain every pair of overlapping operations and one that
  follows them. Prices and the allowance are one unit, so that two operations
  that overlap spend more than there is; the GM's grant adds gold and takes a diamond, and may do so between a
  check and its charge. One id more than there are names is that of no account.
  Bounds: `MaxCopies`, `MaxRequests`.
- *Hand.* The sets are chosen so that every yaku the server can count occurs (but
  for hatsu and chun, which are haku with another tile), so that three
  sequences are also three triplets, sets of two suits touch in the order of the
  slots, and some hands are also seven pairs. Open sets are triplets, because only
  a daiminkan leaves a hand that can be completed.

Deadlock checking is off in the runs whose system may stop: a round ends, a client
may say nothing more, and the bounds stop the environment.

**Fairness.** `RoundEnds` assumes weak fairness of the drive's next step: the
goroutine is scheduled, bots answer, and the client answers every turn of its
seat (a drive that waits for a client that left waits for ever; see the hazard at
`game/round.go:73`). In `Session` each read loop's internal steps and each drive's
steps are weakly fair, as the Go scheduler gives every runnable goroutine its
turn; clients owe nothing, not even to leave. A `TakeInput` with an empty channel
is not enabled, so that no fairness makes a client answer. In `Transport` the read
loop's end, the start of a match's goroutine and the end of a wait are weakly fair. Those that
compete for the mutex (`HandlerWrites`, `Ping`, `Notify`) and the clock (`Tick`), which
waits for all of them, are strongly fair: pushes and requests may come first
again and again, but Go's mutex hands over to a waiter that has starved for a
millisecond, and time does not stand still. The client's reading, its
pongs and its requests have no fairness, nor has `Delivered`, since a drive may never take an
input, nor `HandlerFails`. `Room`, `Accounts` and `Deal` have safety
properties only, and no fairness.

Every property of a passing run has a mutant: an operator, marked `Mutant` in the
module, that changes one definition the way a slip in the code would, and under
which TLC finds the property violated.

## 4. What the runs found

The six violation runs are disagreements between the code and what its own
comments, tests and schema say; PROJECT.json quotes them. In short:

- `playTurns` runs `End(-1)` after a ron too, and the record loses its winner (`game/loop.go:94`).
- A tsumo that is refused falls back to a discard whose tile is written to a copy of the
  decision, and the poll that follows uses the tile of the original: a seat may claim a tile that lies
  in no pile, and hold one more copy of it (`game/loop.go:86`, `:242`).
- The loop draws for a caller after a pon as after a kan, so that a seat that has called a pon holds
  one tile too many for the rest of the round and can never win, although the engine reads
  and tests such hands (`game/loop.go:61`).
- `Deliver` blocks on a channel nobody reads (`game/drive.go:69`).
- `Charge` never fails on an insufficient balance (`storage/repos.go:124`).
- The ping of a connection to which nothing was written for ten seconds fails on an old
  deadline, and the connection with it (`transport/server.go:180`).

Seen while modelling, and part of the models as the code has it, but without a run:

- `Dispatch` answers a second time for a handler that fails after its answer, on a socket
  that works (`router/router.go:64`); `OneAnswerEach` says when.
- Two creations at one moment may give two rooms one id (`room/service.go:80`); no comment
  speaks of concurrent use.
- The console may take a balance below zero (`admin/server.go:109`).
- An input that comes before the seat's channel exists is refused with the error for
  a complete drive, answered ok, and lost (`game/drive.go:65`, `game/handlers.go:111`).
- `Create` ignores the room the account sits in, and `Leave` forgets the account's
  room whichever room it leaves, so that an account may sit in rooms of which `RoomOf`
  knows one or none (`room/service.go:90`, `:146`).
- `Analyze` keeps one decomposition per pair, where its comment speaks of every one
  (`yaku/mentsu.go:42`, `:17`): three sequences that are also three triplets are read in one way.
- A round of an account that does not exist is credited on any connection to the database but the
  first, although the schema refers the row to the accounts (`storage/store.go:42`,
  `game/handlers.go:21`).
- A preset's wall is not what the comment of `Preset` promises: it is filled from a whole deck and not
  from a remainder, so that a pinned tile may be there once more (`deal/preset.go:98`, against `:21`),
  and its indicators are shuffled among their slots and not in index order (`:143`, against
  `:19`). `NoTileTwice` and `PinsAreKept` say how far the wall is then from the comment, and what is left
  of it. A pinned prefix longer than the wall panics (`:125`).
- Sessions are never deleted from `h.sessions`, and a preset without an id may replace another
  after a `Delete` (`deal/preset.go:51`).
- `engine/wall.go:28` says that each kan reveals the next indicator, but `NewRound` takes
  all five at once.

`Hand` states the yaku as the code counts them, also where the rules of the game
differ and no comment settles it: `CheckWin` sets neither riichi nor ippatsu, so that a
declared riichi is worth nothing; pinfu is counted with a pair of honors or terminals
and not with one of simple tiles (`yaku.go:84`, whose comment says "non-valued pair");
a junchan hand also counts chanta; `ittsu` takes its three sequences from any suits;
the flushes and the dora look at the concealed tiles only; the reading scored is the
one with the lowest pair, not the best.

## 5. What is proved

All theorems hold for every value of the constants that satisfies the assumption
named in the module (in `Deal`, which no run instantiates, a hypothesis of the theorems): any decks, walls, connections, accounts, prices and waits, and
without the bounds of the runs mattering.

`DriveProofs`, over `EngineProofs`, for every deck (`NumSuits`, `Ranks`, `NumHonors`, `Sets`), set of
walls, initial score, set of win values, set of human seats and behaviour of
bots and client:

| theorem | property | argument |
|---|---|---|
| `TypeCorrect` | `TypeOK` | inductive as it stands; one lemma per engine operation in `EngineProofs` |
| `TurnAgreed` | `SeatIsCurrent` | with `Control`: where the loop is fixes the phase, and in `poll` and `claim` the engine is already one seat ahead |
| `PointsKept` | `PointsConserved` | every settlement is a transfer: `RonKeepsSum`, `TsumoKeepsSum`, `RiichiPays` |
| `RiichiClosed` | `RiichiStaysClosed` | `Candidates` offers nothing in riichi, `CanRiichi` wants no meld; with `Control`, the declaring seat is the loop's |
| `HandsAccounted` | `HandAccount` | with `Control`, which says who holds a drawn tile; `MeldedShorter`, `WithoutShorter`, `PonsAppended` count tiles |
| `EndFreezes` | `FrozenAfterEnd` | an action property, from `Control` |
| `ArchiveFaithful` | `ArchiveMatchesLastPush` | with `Archiving`: the last push is the one that settled, from the moment the loop is left |
| `StepsKept` | `StepsOrdered` | with `StepCount`, the relation between the numbers pushed and the next one |
| `TilesKept` | `TilesConserved` | `AllAccounted`: for every tile, the copies in hands, piles, melds, live wall and the dealer's undealt tile are those of the wall and one more for each claim told (`Claimed`); per operation, `StartMoves`, `DrawMoves`, `ThrowMoves` and `CallMoves` say where a tile goes, over `CountWithout` and `CountAppended`; `ClaimsSplit` tells the claims of a fresh discard, which their pile still shows, from the others |
| `DaburiInTime` | `DaburiPrecedesCalls` | with `LogShows`: a claim on the log has a meld on the table, a discard on the log a tile in the pile, and a double riichi a discard on the log |
| `TableShown` | `TableTold` | inductive with `Control` and the types; `ShowsMore` and `ShowsSame` say what one more push, or one of another kind, does to what the client adds up |
| `LifecycleImplemented` | `ImplementsLifecycle` | initial states map to initial states, and each action to a step of `Lifecycle` or a stutter |

Few of these are inductive as they stand: after `askCalls`, for
instance, the engine's seat and the loop's seat differ until the loop moves on, and
only `Control` says by how much.

`SessionProofs`, for any number of connections, sessions, inputs and turns:

| theorem | property | argument |
|---|---|---|
| `SessionTypes` | `TypeOK` | needs `Sender` and `Dealt`: the drive a handler writes to exists |
| `OneDrive` | `OneDrivePerSession` | `Owned`: a session and its drive name each other |
| `OrderKept` | `InputsInOrder` | with `Sender`: a blocked read loop belongs to the drive's own connection, of which there is one |
| `SessionFollowed` | `InputsFollowSession` | with `Succession` (drives of a connection start in the order of its sessions), `Current` (`h.sessions` holds the newest) and `InputsStayOnConnection` (what was delivered was read before) |
| `EveryDriveLives` | `DrivesImplementLifecycle` | each step is a step of `Lifecycle` or a stutter of every drive |

The inductive invariant `SessionInv` joins these with `Storing`: between `authGame` and
its write of the map, the handler holds a session newer than all others of the connection.

`TransportProofs`, for any waits with a ping period below the read deadline:
`TypeCorrect`; `EveryRequestAnswered` (`OneAnswerEach`) by `Answering`, which says for each thing a handler
may have left to do how many answers there are: a handler that fails after its answer has broken the socket,
and the second envelope fails with it, or has failed outside a write (`unwritten`); `DropsHaveCause` (`DroppedForCause`) by `Timely`: as long as no write failed or
waited, the read deadline is at least the slack ahead of the oldest unanswered ping, or, with no ping
out, of the next one.

`RoomProofs`, for any accounts, rooms, limits and joins under way, data races and restarts included:
`TypeCorrect`, `MembersAreSeated`, `KeptIffSeated`, `SharedOnlyByOverlap` (`IdsDiffer`), `LimitsKept`. The properties become inductive
with `Joins`: while nobody else has changed the room of a join under way, it is open,
has a seat, does not seat the account yet, and no other join aims at it; and with `Numbered`:
until two creations overlap, `nextID` is above every id there is.

`AccountsProofs`, for any names, goods, prices, allowances and goroutines, with any
statement failing and the process ending anywhere: `TypeCorrect`; `OverdraftsOverlap`
(`OverdraftNeedsOverlap`), `SignupsLeaveWallets` (`AnsweredHasWallet`), `CreditsKept`
(`CreditsAddUp`) and `DeliveriesPaid` (`RewardIsPaid`). `Plans` says what a goroutine may have left to do: a charge comes
directly after the check of the same amount, a row first, a credit alone. From that,
`Covered` (a charge under way is covered and alone, unless two have overlapped), `Rows` (an answer comes
after the row, and one goroutine at most is about to insert the row of an account) and `Credits` (a credit under way is
alone, and has read what there is) are kept statement by statement. `AllPaid` is the invariant
behind `DeliveriesPaid`: what an operation owes, followed through the statements it has left
(`Balances`), never falls below zero, is nothing wherever it may still be refused, and ends at
nothing unless a statement failed. `RequestPaid` shows it of each operation as it begins,
and `PaidMoves` of each statement that is done.

`DealProofs`, for any kinds, copies, sizes up to a dead wall of 14 and presets, and whatever the
console does in between: `NoTileTwice` (`ExtraCopiesArePinned`) and `PinsAreKept` (`PinsHold`). The
invariant `DealInv` says of which deck a wall was cut and with what laid over it (`Made`): every
place holds what the preset has there, or the tile of the deck that the cut puts there.
`NoTileTwice` counts by it: the places that hold what is pinned map one to one to places of
the preset (the indicators by the order of the shuffle), the others one to one to places of the
deck (`HandPos`: no two places of a wall are cut from one of the deck). `PinsAreKept` is the
shuffle again: the slots the dead wall has are the first ones (`SlotsOf`), and the indicators
that fit are permuted among them. Both theorems assume `DealAssumption`, which bounds the dead wall, among others, because the round shows
five indicators: with a longer one a sixth pin would be laid in a slot that is never shown.

`YakuProofs`, for any deck, any complete hands and any indicators, proves all four invariants
that `hand` checks, and what they rest on:

- *The search.* `SplitSound`: what `SplitSets` returns are as many sets as were asked for, each
  within its suit, that make up exactly the tally. `SplitFound`: where a tally can be taken apart,
  it returns something, although it tries a sequence at the lowest tile first. Sets taken one after the other
  can be taken in any order (`TakenEitherWay`), so some decomposition begins at the lowest tile
  (`LowestFirst`), and the triplet is tried when no sequence leads on. Both are inductions on the number of sets, for which `NatSets` states the induction over numbers about a set.
- *The reading.* `CompleteHandsAreRead`: `Analyze` returns something for every pair and
  sets, and nothing but the special shape or a pair and sets of exactly those tiles. The tiles
  of `TilesIn` are counted set by set (`AfterSet`, `TallyOfTiles`). `HandIsRead` (`ReadingIsTheHand`)
  follows with `Asked`, the inductive invariant: a hand is asked about once and keeps
  the answer of `CheckWin` (`AlwaysAsked`).
- *The yaku.* `RegularIs` takes the union of `Calc` apart into its sixteen conditions.
  `EndsMeanTiles` (`EndsAreRead`) then rests on where the ends of a suit lie in a sequence (`RunEnds`).
- *The value.* `SplitsAgree`: the shares of a self-drawn win sum to the ron of the same value and
  at most 200 more (the rounding of up to three shares). `HanNeverCosts`: a han more never pays
  less; below five han the cap on the base points is the case split, above it the limit
  table. Both are for all han and fu in the naturals. That `CheckWin` makes naturals of every hand
  needs its sums: `SumIs` and `SumsGive` say of `SumFunction` that it is the sum over a finite
  set, from which any member may be taken out first. With them `ValuesArePaid` (`PaymentsAgree`)
  and `DrawsPay` (`DrawIsWorthRon`): drawn and completed by a discard, a hand counts the same fans but for
  menzenTsumo, exchanged for a pinfu that is worth no more (`CountedIs`, `SumExchanged`).

Only model-checked: the liveness properties `RoundEnds`, `DeliveredIsPlayed`,
`EveryMatchStarts` and `SilentIsDropped`, as liveness and `ENABLED` are out of the prover's
reach. Every invariant and action property of a passing run is stated by a theorem. The
properties of the violation runs are false of the code, and nothing is proved of them.

## 6. What is not modelled

- *The mjai bridge* (`game/ai/mjai.go`): `botForSeats` makes built-in bots only, and the
  drives pass `context.Background()`, so that neither the bridge nor the timeout of a
  question is ever reached. Any bot that keeps to `SelfOps` and `Claims` is covered by `Drive`.
- *Protocol* (`internal/protocol`): a dynamic registry over a third-party protobuf, and the
  XOR of actions, which are byte conversions without state that the repository's tests compare
  with the reference.
- *Gateway*: a proxy on a third-party library and the certificates it writes; it keeps no
  state of the game and shares none with the server but the address.
- *Configuration and start*: a file and the environment, read once before anything runs.
- *Simulation client* (`cmd/simclient`): a tool outside the server.
- *Migrations*: run once before any listener, each in a transaction with its version. *Record store*:
  one upsert under a fresh uuid; that it may fail is in `Drive` and `Session`.
- *Read models and constants*: the lobby handlers that answer constants, `dto.go`, which
  lays out messages, `Home` and `List`.
- Red fives, which no wall of the server holds, and `Tenpai` and `Effective`, which only tests call.
- Sessions are never deleted from `h.sessions` (`game/handlers.go:41`) and a drive whose client has left
  is never ended (`game/round.go:73`): there is no code to model.

## 7. Plan

Done: all modules of section 2, and every safety property of `Drive`, `Session`, `Transport`, `Room`,
`Accounts`, `Deal` and `Hand` as a theorem. What is left, in this order:

1. What `Analyze` finds: that a hand with one decomposition for each pair has every one of
   them returned.
2. An abstract ledger that a purchase implements: pay, then deliver or lose.
3. `Session` over `Transport`: one connection of each, so that when a handler is blocked is
   derived from the drive's channel (at present `Transport` lets `Delivered` come or not, and
   `Session` says when it does).
4. A run of `Deal`, which has proofs alone: the presets of the console are the part of the system
   that matters least to the game, and the one with the fewest steps.
5. The mjai bridge, once something starts it.
