--------------------------------- MODULE Room ---------------------------------
(***************************************************************************)
(* The friend rooms of the lobby: package room, driven by the handlers of  *)
(* lobby/handlers.go.  The service has no lock, and every connection runs  *)
(* its handlers in a goroutine of its own.  Join asks the account's        *)
(* nickname of the database between its checks and the seat it adds, so    *)
(* that it is two steps here.  Create asks before it reads anything, but   *)
(* reads nextID for the room before it counts it up: two steps as well, so *)
(* that two rooms may get one id, and the second takes the place of the    *)
(* first in the table.  A room of the model is therefore what the code has *)
(* a pointer to, and its id a field of it.                                 *)
(*                                                                         *)
(* Handlers that touch the service at one moment race: of the players      *)
(* slice an entry may be lost or repeated, or the runtime notices two      *)
(* accesses to a map and ends the process.  A request carries any account, *)
(* as several connections may be logged in to one.                         *)
(***************************************************************************)
EXTENDS Integers, SequencesExt

CONSTANTS Conns,     \* connections whose handlers overlap others
          Accounts,  \* account ids; 0 is a guest
          Limits,    \* player counts a client may ask for
          MaxRooms   \* bound: rooms created

ASSUME RoomAssumption == /\ Accounts \subseteq Nat
                         /\ Limits \subseteq Nat \ {0}
                         /\ MaxRooms \in Nat

VARIABLES room,       \* the rooms created so far
          rooms,      \* s.rooms: those in the table, which is by id
          member,     \* s.member: account to the id of a room, 0 for none
          nextID,     \* s.nextID
          creating,   \* per connection, the room that has read its id
          joining,    \* per connection, the join that asks for a nickname
          torn,       \* rooms whose players a data race has spoiled
          crossed,    \* rooms changed while a join was between its two steps
          overlapped  \* whether two rooms were ever created at one moment

vars == <<room, rooms, member, nextID, creating, joining, torn, crossed,
          overlapped>>

Player == [account : Nat, ready : BOOLEAN, robot : BOOLEAN]

Room == [id : Nat \ {0}, owner : Accounts, players : Seq(Player),
         limit : Limits, started : BOOLEAN]

NoJoin == [room |-> 0, account |-> 0]

NoCreate == [id |-> 0, owner |-> 0]

TypeOK ==
  /\ room \in Seq(Room)
  /\ \A r \in DOMAIN room : room[r].id <= r
  /\ rooms \subseteq DOMAIN room
  /\ member \in [Accounts -> 0 .. Len(room)]
  /\ nextID \in 1 .. Len(room) + 1
  /\ creating \in [Conns -> [id : 0 .. Len(room) + 1,
                           owner : Accounts \cup {0}]]
  /\ joining \in [Conns -> [room : 0 .. Len(room),
                          account : Accounts \cup {0}]]
  /\ torn \subseteq DOMAIN room
  /\ crossed \subseteq DOMAIN room
  /\ overlapped \in BOOLEAN

Init ==
  /\ room = << >>
  /\ rooms = {}
  /\ member = [a \in Accounts |-> 0]
  /\ nextID = 1
  /\ creating = [c \in Conns |-> NoCreate]
  /\ joining = [c \in Conns |-> NoJoin]
  /\ torn = {}
  /\ crossed = {}
  /\ overlapped = FALSE

Human(a) == [account |-> a, ready |-> FALSE, robot |-> FALSE]

Seated(a, r) == \E p \in Range(room[r].players) : p.account = a

Joining(r) == \E c \in Conns : joining[c].room = r

\* The read loop of a connection runs one handler at a time.
Idle(c) == joining[c] = NoJoin /\ creating[c] = NoCreate

\* Handler steps that change a room some join is about to change too.
Cross(r) == crossed' = IF Joining(r) THEN crossed \cup {r} ELSE crossed

-----------------------------------------------------------------------------
(* The operations, and the handlers that reach them.                       *)

\* Rooms that have their id and are not in the table.
HalfMade == Cardinality({c \in Conns : creating[c] # NoCreate})

\* Mutant: rooms are numbered by those in the table.
CreateNumbered(c, a) ==
  /\ Idle(c)
  /\ Len(room) + HalfMade < MaxRooms
  /\ creating' = [creating EXCEPT ![c] = [id |-> Cardinality(rooms) + 1,
                                         owner |-> a]]
  /\ overlapped' = (overlapped \/ \E e \in Conns : creating[e] # NoCreate)
  /\ UNCHANGED <<room, rooms, member, nextID, joining, torn, crossed>>

\* Create, up to the id; whoever creates a room may be seated in another.
Create(c, a) ==
  /\ Idle(c)
  /\ Len(room) + HalfMade < MaxRooms
  /\ creating' = [creating EXCEPT ![c] = [id |-> nextID, owner |-> a]]
  /\ overlapped' = (overlapped \/ \E e \in Conns : creating[e] # NoCreate)
  /\ UNCHANGED <<room, rooms, member, nextID, joining, torn, crossed>>

\* Create, from the id on.  The increment reads nextID again, or adds to what
\* was read for the room: what another has stored meanwhile is lost.
PutRoom(c, limit) ==
  LET new == creating[c]
  IN  /\ new # NoCreate
      /\ room' = Append(room, [id |-> new.id, owner |-> new.owner,
                               players |-> <<Human(new.owner)>>,
                               limit |-> limit, started |-> FALSE])
      /\ nextID' \in {nextID + 1, new.id + 1}
      /\ rooms' = {r \in rooms : room[r].id # new.id} \cup {Len(room')}
      /\ member' = [member EXCEPT ![new.owner] = new.id]
      /\ creating' = [creating EXCEPT ![c] = NoCreate]
      /\ UNCHANGED <<joining, torn, crossed, overlapped>>

\* Mutant: a full room takes one more.
JoinFull(c, a, r) ==
  /\ Idle(c)
  /\ r \in rooms
  /\ ~room[r].started
  /\ ~Seated(a, r)
  /\ Len(room[r].players) <= room[r].limit
  /\ joining' = [joining EXCEPT ![c] = [room |-> r, account |-> a]]
  /\ Cross(r)
  /\ UNCHANGED <<room, rooms, member, nextID, creating, torn, overlapped>>

\* Join, up to the nickname; it may sit in another room.
Join(c, a, r) ==
  /\ Idle(c)
  /\ r \in rooms
  /\ ~room[r].started
  /\ ~Seated(a, r)
  /\ Len(room[r].players) < room[r].limit
  /\ joining' = [joining EXCEPT ![c] = [room |-> r, account |-> a]]
  /\ Cross(r)
  /\ UNCHANGED <<room, rooms, member, nextID, creating, torn, overlapped>>

\* Join, from the nickname on: the room is the one found before.
TakeSeat(c) ==
  LET j == joining[c]
  IN  /\ j # NoJoin
      /\ room' = [room EXCEPT ![j.room].players = Append(@, Human(j.account))]
      /\ member' = [member EXCEPT ![j.account] = room[j.room].id]
      /\ joining' = [joining EXCEPT ![c] = NoJoin]
      /\ UNCHANGED <<rooms, nextID, creating, torn, crossed, overlapped>>

\* The increasing sequences of all members of a set of numbers: one.
InOrder(K) == {h \in [1 .. Cardinality(K) -> K] :
                 /\ \A k \in K : \E i \in DOMAIN h : h[i] = k
                 /\ \A i, j \in DOMAIN h : i < j => h[i] < h[j]}

\* Mutant: the membership is left as it is.
LeaveMember(a, r) ==
  /\ r \in rooms
  /\ room' = [room EXCEPT ![r].players =
                SelectSeq(@, LAMBDA p : p.account # a)]
  /\ rooms' = IF room'[r].players = << >> THEN rooms \ {r} ELSE rooms
  /\ Cross(r)
  /\ UNCHANGED <<member, nextID, creating, joining, torn, overlapped>>

\* Mutant: a room is dropped when its owner leaves.
LeaveOwner(a, r) ==
  /\ r \in rooms
  /\ room' = [room EXCEPT ![r].players =
                SelectSeq(@, LAMBDA p : p.account # a)]
  /\ member' = [member EXCEPT ![a] = 0]
  /\ rooms' = IF room[r].owner = a THEN rooms \ {r} ELSE rooms
  /\ Cross(r)
  /\ UNCHANGED <<nextID, creating, joining, torn, overlapped>>

\* The room left need not be the one the account sits in; the owner may be
\* the one who leaves.
Leave(a, r) ==
  /\ r \in rooms
  /\ LET old == room[r].players
         kept == {i \in DOMAIN old : old[i].account # a}
     IN  \E h \in InOrder(kept) :
           /\ room' = [room EXCEPT ![r].players =
                         [i \in DOMAIN h |-> old[h[i]]]]
           /\ rooms' = IF kept = {} THEN rooms \ {r} ELSE rooms
  /\ member' = [member EXCEPT ![a] = 0]
  /\ Cross(r)
  /\ UNCHANGED <<nextID, creating, joining, torn, overlapped>>

\* readyPlay: the flag of the first seat of the account in its room.
SetReady(a, ready) ==
  \E r \in rooms :
    LET At(i) == room[r].players[i].account = a
    IN  /\ room[r].id = member[a]
        /\ \E i \in DOMAIN room[r].players :
             /\ At(i)
             /\ \A k \in 1 .. (i - 1) : ~At(k)
             /\ room' = [room EXCEPT ![r].players[i].ready = ready]
        /\ UNCHANGED <<rooms, member, nextID, creating, joining, torn, crossed,
                       overlapped>>

\* robotID: the first number from 1000 times the room's id on that no player
\* of the room has.
RobotIDs(r) ==
  LET low == 1000 * room[r].id + 1
  IN  {n \in low .. low + Len(room[r].players) :
         /\ ~Seated(n, r)
         /\ \A m \in low .. n - 1 : Seated(m, r)}

\* Any room may be named, started or not.
AddRobot(r) ==
  /\ r \in rooms
  /\ Len(room[r].players) < room[r].limit
  /\ \E n \in RobotIDs(r) :
       room' = [room EXCEPT ![r].players =
                  Append(@, [account |-> n, ready |-> FALSE, robot |-> TRUE])]
  /\ Cross(r)
  /\ UNCHANGED <<rooms, member, nextID, creating, joining, torn, overlapped>>

\* Anybody may start any room, whoever is ready.
Start(r) ==
  /\ r \in rooms
  /\ room' = [room EXCEPT ![r].started = TRUE]
  /\ Cross(r)
  /\ UNCHANGED <<rooms, member, nextID, creating, joining, torn, overlapped>>

Spoiled(players) == {RemoveAt(players, i) : i \in DOMAIN players}
                    \cup {Append(players, Last(players))}

\* Two handlers write the players of a room at one moment.  An append to a
\* slice read before the other's write loses its entry; one to a slice that
\* Leave has moved down in place repeats the last.  Bound: once per room.
Race(r) ==
  /\ r \in rooms \ torn
  /\ room[r].players # << >>
  /\ \E players \in Spoiled(room[r].players) :
       room' = [room EXCEPT ![r].players = players]
  /\ torn' = torn \cup {r}
  /\ UNCHANGED <<rooms, member, nextID, creating, joining, crossed,
                 overlapped>>

\* Mutant: the membership outlives the rooms.
RestartMember ==
  /\ room' = << >>
  /\ rooms' = {}
  /\ member' = member
  /\ nextID' = 1
  /\ creating' = [c \in Conns |-> NoCreate]
  /\ joining' = [c \in Conns |-> NoJoin]
  /\ torn' = {}
  /\ crossed' = {}
  /\ overlapped' = FALSE

\* The runtime ends the process, which is started again: rooms are not stored.
Restart ==
  /\ room' = << >>
  /\ rooms' = {}
  /\ member' = [a \in Accounts |-> 0]
  /\ nextID' = 1
  /\ creating' = [c \in Conns |-> NoCreate]
  /\ joining' = [c \in Conns |-> NoJoin]
  /\ torn' = {}
  /\ crossed' = {}
  /\ overlapped' = FALSE

Next ==
  \/ \E c \in Conns, a \in Accounts : Create(c, a)
  \/ \E c \in Conns, limit \in Limits : PutRoom(c, limit)
  \/ \E a \in Accounts, r \in DOMAIN room :
       \/ \E c \in Conns : Join(c, a, r)
       \/ Leave(a, r)
  \/ \E c \in Conns : TakeSeat(c)
  \/ \E a \in Accounts, ready \in BOOLEAN : SetReady(a, ready)
  \/ \E r \in DOMAIN room : AddRobot(r) \/ Start(r) \/ Race(r)
  \/ Restart

\* Bound, a state constraint: what follows a data race is not explored.
Unspoiled == torn = {}

\* Bound, a state constraint: nor is what follows a second join begun before the
\* first is over.
OneJoin ==
  \A c, d \in Conns : joining[c] # NoJoin /\ joining[d] # NoJoin => c = d

Spec == Init /\ [][Next]_vars

-----------------------------------------------------------------------------
(* Properties.                                                             *)

\* Rooms that have one id: only the last of them to be put is in the table.
Shared(r) == \E s \in DOMAIN room \ {r} : room[s].id = room[r].id

\* The ids of rooms are not guarded (service.go:80, :88), and it takes two
\* Creates at one moment for two rooms to get the same: whoever creates alone
\* has an id of its own, however many rooms have come and gone.  Once two have
\* overlapped, a lost increment may hit a later Create, too.
IdsDiffer ==
  ~overlapped => \A r \in DOMAIN room : ~Shared(r)

\* What fetchRoom shows an account is a room it sits in, and readyPlay finds
\* its seat there: s.member and the players of the rooms are changed apart, in
\* four operations (room/service.go), and neither a second room, nor a wrong
\* id, nor another handler between the steps of a join makes them lie.  Only a
\* room that took the place of another with its id does.
MemberIsSeated ==
  \A a \in Accounts, r \in rooms \ torn :
    room[r].id = member[a] => Shared(r) \/ Seated(a, r)

\* The table and the seats agree on when a room is over: no empty room is kept
\* (Leave), and none is dropped while somebody sits in it, unless a join was
\* under way when it emptied, or another room was put in its place.
KeptWhileSeated ==
  \A r \in DOMAIN room \ (torn \cup crossed) :
    (r \in rooms <=> room[r].players # << >>) \/ Shared(r)

\* Without another handler between the check and the seat of a join
\* (service.go), a room never holds more players than its limit, nor an
\* account or a robot twice, even when an account has the id of a robot.
SeatsWithinLimit ==
  \A r \in DOMAIN room \ (torn \cup crossed) :
    /\ Len(room[r].players) <= room[r].limit
    /\ \A i, j \in DOMAIN room[r].players :
         room[r].players[i].account = room[r].players[j].account => i = j
=============================================================================
