------------------------------ MODULE RoomProofs ------------------------------
(***************************************************************************)
(* Theorems about Room, for all accounts, limits and numbers of rooms: the *)
(* types, that ids differ, that members are seated, and, outside the rooms *)
(* two handlers have raced in, that the table, the seats and the limits    *)
(* agree.                                                                  *)
(***************************************************************************)
EXTENDS Room, SequenceTheorems, FiniteSetTheorems, TLAPS

-----------------------------------------------------------------------------
(* The inductive invariant. *)

\* A join under way is for a room of the past or the present; if nobody else
\* has changed that room since, it is open, with a seat for the account, and
\* nobody else is about to join it.
Joins ==
  \A c \in Conns :
    joining[c] # NoJoin =>
      LET r == joining[c].room
      IN  /\ r \in DOMAIN room
          /\ joining[c].account \in Accounts
          /\ r \notin torn \cup crossed =>
               /\ Shared(r) \/ r \in rooms
               /\ Len(room[r].players) < room[r].limit
               /\ ~Seated(joining[c].account, r)
               /\ \A e \in Conns \ {c} : joining[e].room # r

\* Whoever creates a room alone holds the number that comes next, and no room
\* has it yet; s.member holds ids of rooms.
Numbered ==
  /\ \A a \in Accounts : member[a] # 0 =>
       \E r \in DOMAIN room : room[r].id = member[a]
  /\ \A c \in Conns : creating[c] # NoCreate =>
       creating[c].id # 0 /\ creating[c].owner \in Accounts
  /\ ~overlapped =>
       /\ \A r \in DOMAIN room : room[r].id < nextID
       /\ \A c \in Conns : creating[c] # NoCreate => creating[c].id = nextID
       /\ \A c, e \in Conns :
            creating[c] # NoCreate /\ creating[e] # NoCreate => c = e

RoomInv ==
  /\ TypeOK /\ Joins /\ Numbered /\ IdsDiffer
  /\ MemberIsSeated /\ KeptWhileSeated /\ SeatsWithinLimit

\* What the types say of a room.
LEMMA RoomFacts ==
  ASSUME TypeOK
  PROVE  /\ Len(room) \in Nat /\ DOMAIN room = 1 .. Len(room)
         /\ \A r \in DOMAIN room :
              /\ room[r] \in Room
              /\ room[r].id \in Nat \ {0} /\ room[r].id <= r
              /\ room[r].owner \in Accounts
              /\ room[r].players \in Seq(Player)
              /\ room[r].limit \in Nat \ {0}
              /\ room[r].started \in BOOLEAN
              /\ Len(room[r].players) \in Nat
              /\ DOMAIN room[r].players = 1 .. Len(room[r].players)
              /\ \A i \in DOMAIN room[r].players : room[r].players[i].account \in Nat
         /\ \A r \in rooms : r \in DOMAIN room
  <1>1. /\ room \in Seq(Room) /\ rooms \subseteq DOMAIN room
        /\ Len(room) \in Nat /\ DOMAIN room = 1 .. Len(room)
    BY DEF TypeOK
  <1>2. ASSUME NEW r \in DOMAIN room
        PROVE  /\ room[r] \in Room
               /\ room[r].id \in Nat \ {0} /\ room[r].id <= r
               /\ room[r].owner \in Accounts
               /\ room[r].players \in Seq(Player)
               /\ room[r].limit \in Limits
               /\ room[r].started \in BOOLEAN
    <2>1. room[r] \in Room
      BY <1>1
    <2>2. QED
      BY <2>1 DEF Room, TypeOK
  <1>3. ASSUME NEW r \in DOMAIN room
        PROVE  /\ Len(room[r].players) \in Nat
               /\ DOMAIN room[r].players = 1 .. Len(room[r].players)
               /\ \A i \in DOMAIN room[r].players :
                    room[r].players[i].account \in Nat
    <2>1. PICK p \in Seq(Player) : p = room[r].players
      BY <1>2
    <2>2. /\ Len(p) \in Nat /\ DOMAIN p = 1 .. Len(p)
          /\ \A i \in DOMAIN p : p[i] \in Player
      BY <2>1
    <2>3. \A i \in DOMAIN p : p[i].account \in Nat
      BY <2>2 DEF Player
    <2>4. QED
      BY <2>1, <2>2, <2>3, Zenon
  <1>4. \A r \in DOMAIN room : room[r].limit \in Nat \ {0}
    BY <1>2, RoomAssumption
  <1>5. QED
    BY <1>1, <1>2, <1>3, <1>4, Zenon

\* Most steps leave the ids of the rooms as they are.
SameIds ==
  /\ DOMAIN room' = DOMAIN room
  /\ \A r \in DOMAIN room : room'[r].id = room[r].id

LEMMA SharedKept ==
  ASSUME SameIds
  PROVE  \A r \in DOMAIN room : Shared(r)' <=> Shared(r)
  BY DEF SameIds, Shared

LEMMA NumbersKept ==
  ASSUME RoomInv, SameIds, UNCHANGED <<nextID, creating, overlapped>>,
         \A a \in Accounts :
           \/ member'[a] \in {0, member[a]}
           \/ \E r \in DOMAIN room : room[r].id = member'[a]
  PROVE  Numbered' /\ IdsDiffer'
  <1>1. \A r \in DOMAIN room : Shared(r)' <=> Shared(r)
    BY SharedKept
  <1>2. Numbered'
    BY DEF RoomInv, Numbered, SameIds
  <1>3. IdsDiffer'
    BY <1>1 DEF RoomInv, IdsDiffer, SameIds
  <1>4. QED
    BY <1>2, <1>3

\* A step that gives one room new players.
LEMMA NewPlayers ==
  ASSUME TypeOK, NEW r \in DOMAIN room, NEW players \in Seq(Player),
         room' = [room EXCEPT ![r].players = players]
  PROVE  /\ room' \in Seq(Room) /\ Len(room') = Len(room)
         /\ DOMAIN room' = DOMAIN room
         /\ room'[r].players = players
         /\ room'[r].limit = room[r].limit
         /\ SameIds
         /\ \A k \in DOMAIN room \ {r} : room'[k] = room[k]
  <1> DEFINE x == [room[r] EXCEPT !.players = players]
  <1>1. room \in Seq(Room) /\ room[r] \in Room
    BY RoomFacts DEF TypeOK
  <1>2. /\ x \in Room /\ x.players = players /\ x.limit = room[r].limit
        /\ x.id = room[r].id
    BY <1>1 DEF Room
  <1>3. room' = [room EXCEPT ![r] = x]
    BY <1>1
  <1> HIDE DEF x
  <1>4. /\ room' \in Seq(Room) /\ Len(room') = Len(room)
        /\ DOMAIN room' = DOMAIN room
        /\ room'[r] = x
        /\ \A k \in DOMAIN room \ {r} : room'[k] = room[k]
    BY <1>1, <1>2, <1>3, ExceptSeq
  <1>5. QED
    BY <1>2, <1>4 DEF SameIds

LEMMA HumanType ==
  ASSUME NEW a \in Nat
  PROVE  Human(a) \in Player /\ Human(a).account = a
  BY DEF Human, Player

\* A seat is an index of the players.
LEMMA SeatedAt ==
  ASSUME NEW a, NEW r
  PROVE  Seated(a, r) <=> \E i \in DOMAIN room[r].players :
                              room[r].players[i].account = a
  BY DEF Seated, Range

LEMMA InitRoom == Init => RoomInv
  <1> SUFFICES ASSUME Init PROVE RoomInv
    OBVIOUS
  <1>1. DOMAIN room = {} /\ Len(room) = 0 /\ room \in Seq(Room)
    BY DEF Init
  <1>2. TypeOK
    <2>1. NoCreate \in [id : 0 .. Len(room) + 1, owner : Accounts \cup {0}]
      BY <1>1 DEF NoCreate
    <2>2. NoJoin \in [room : 0 .. Len(room), account : Accounts \cup {0}]
      BY <1>1 DEF NoJoin
    <2>3. /\ creating \in [Conns -> [id : 0 .. Len(room) + 1,
                                    owner : Accounts \cup {0}]]
          /\ joining \in [Conns -> [room : 0 .. Len(room),
                                   account : Accounts \cup {0}]]
      BY <2>1, <2>2 DEF Init
    <2>4. /\ member \in [Accounts -> 0 .. Len(room)]
          /\ nextID \in 1 .. Len(room) + 1
      BY <1>1 DEF Init
    <2>5. /\ rooms \subseteq DOMAIN room /\ torn \subseteq DOMAIN room
          /\ crossed \subseteq DOMAIN room /\ overlapped \in BOOLEAN
          /\ \A r \in DOMAIN room : room[r].id <= r
      BY <1>1 DEF Init
    <2>6. QED
      BY <1>1, <2>3, <2>4, <2>5 DEF TypeOK
  <1>3. Joins /\ Numbered
    BY <1>1 DEF Init, Joins, Numbered
  <1>4. IdsDiffer /\ MemberIsSeated /\ KeptWhileSeated /\ SeatsWithinLimit
    BY <1>1 DEF Init, IdsDiffer, MemberIsSeated, KeptWhileSeated,
       SeatsWithinLimit
  <1>5. QED
    BY <1>2, <1>3, <1>4 DEF RoomInv

\* What the two invariants say of one room.
Sound(r) ==
  /\ (r \in rooms <=> room[r].players # << >>) \/ Shared(r)
  /\ Len(room[r].players) <= room[r].limit
  /\ \A i, j \in DOMAIN room[r].players :
       room[r].players[i].account = room[r].players[j].account => i = j

LEMMA AllSound ==
  KeptWhileSeated /\ SeatsWithinLimit
  <=> \A r \in DOMAIN room \ (torn \cup crossed) : Sound(r)
  BY Zenon DEF KeptWhileSeated, SeatsWithinLimit, Sound

\* A step that changes one room at most has that room to answer for.
LEMMA OneRoom ==
  ASSUME RoomInv, NEW r, SameIds,
         \A k \in DOMAIN room \ {r} : room'[k] = room[k],
         \A k \in DOMAIN room \ {r} : k \in rooms' <=> k \in rooms,
         torn \subseteq torn', crossed \subseteq crossed',
         r \in DOMAIN room \ (torn' \cup crossed') => Sound(r)'
  PROVE  KeptWhileSeated' /\ SeatsWithinLimit'
  <1>0. DOMAIN room' = DOMAIN room
    BY DEF SameIds
  <1>1. ASSUME NEW k \in DOMAIN room' \ (torn' \cup crossed')
        PROVE  Sound(k)'
    <2>1. CASE k = r
      BY <1>0, <2>1
    <2>2. CASE k # r
      <3>1. Sound(k)
        BY <1>0, <2>2, AllSound DEF RoomInv
      <3>2. room'[k] = room[k] /\ (k \in rooms' <=> k \in rooms)
        BY <1>0, <2>2
      <3>3. k \in DOMAIN room /\ (Shared(k)' <=> Shared(k))
        BY SharedKept DEF SameIds
      <3>4. QED
        BY <3>1, <3>2, <3>3 DEF Sound
    <2>3. QED
      BY <2>1, <2>2
  <1>2. QED
    BY <1>1, Zenon DEF KeptWhileSeated, SeatsWithinLimit, Sound

LEMMA NoRoom ==
  ASSUME RoomInv, room' = room, rooms' = rooms,
         torn \subseteq torn', crossed \subseteq crossed'
  PROVE  KeptWhileSeated' /\ SeatsWithinLimit'
  <1>1. ASSUME NEW k \in DOMAIN room' \ (torn' \cup crossed')
        PROVE  Sound(k)'
    <2>1. Sound(k)
      BY <1>1, AllSound DEF RoomInv
    <2>2. QED
      BY <2>1 DEF Sound, Shared
  <1>2. QED
    BY <1>1, Zenon DEF KeptWhileSeated, SeatsWithinLimit, Sound

-----------------------------------------------------------------------------
(* The steps. *)

\* The room's number is read, and no more.
LEMMA CreateKeeps ==
  ASSUME RoomInv, NEW c \in Conns, NEW a \in Accounts, Create(c, a)
  PROVE  RoomInv'
  <1>1. /\ creating' = [creating EXCEPT ![c] = [id |-> nextID, owner |-> a]]
        /\ creating[c] = NoCreate
        /\ overlapped' = (overlapped \/ \E e \in Conns : creating[e] # NoCreate)
        /\ UNCHANGED <<room, rooms, member, nextID, joining, torn, crossed>>
    BY DEF Create, Idle
  <1>2. nextID \in 1 .. Len(room) + 1 /\ Len(room) \in Nat
    BY RoomFacts DEF RoomInv, TypeOK
  <1>3. /\ creating'[c] = [id |-> nextID, owner |-> a]
        /\ \A e \in Conns \ {c} : creating'[e] = creating[e]
    BY <1>1 DEF RoomInv, TypeOK
  <1>4. TypeOK'
    <2>1. [id |-> nextID, owner |-> a]
            \in [id : 0 .. Len(room) + 1, owner : Accounts \cup {0}]
      BY <1>2
    <2>2. creating' \in [Conns -> [id : 0 .. Len(room) + 1,
                                  owner : Accounts \cup {0}]]
      BY <1>1, <2>1 DEF RoomInv, TypeOK
    <2>3. overlapped' \in BOOLEAN
      BY <1>1
    <2>4. QED
      BY <1>1, <2>2, <2>3 DEF RoomInv, TypeOK
  <1>5. Joins'
    BY <1>1 DEF RoomInv, Joins, Seated, Shared
  <1>6. Numbered' /\ IdsDiffer'
    <2>1. ASSUME NEW e \in Conns, creating'[e] # NoCreate
          PROVE  creating'[e].id # 0 /\ creating'[e].owner \in Accounts
      BY <1>2, <1>3, <2>1 DEF RoomInv, Numbered
    <2>2. ASSUME ~overlapped'
          PROVE  /\ ~overlapped
                 /\ \A e \in Conns \ {c} : creating'[e] = NoCreate
      BY <1>1, <1>3, <2>2
    <2>3. ASSUME ~overlapped', NEW e \in Conns, creating'[e] # NoCreate
          PROVE  e = c /\ creating'[e].id = nextID
      BY <1>3, <2>2, <2>3
    <2>4. ~overlapped' => \A r \in DOMAIN room : room[r].id < nextID
      BY <2>2 DEF RoomInv, Numbered
    <2>5. IdsDiffer'
      BY <1>1, <2>2 DEF RoomInv, IdsDiffer, Shared
    <2>6. /\ \A b \in Accounts : member'[b] # 0 =>
                \E r \in DOMAIN room' : room'[r].id = member'[b]
          /\ room' = room /\ nextID' = nextID
      BY <1>1 DEF RoomInv, Numbered
    <2>7. QED
      BY <2>1, <2>3, <2>4, <2>5, <2>6, Zenon DEF Numbered
  <1>7. MemberIsSeated'
    BY <1>1 DEF RoomInv, MemberIsSeated, Seated, Shared
  <1>8. KeptWhileSeated' /\ SeatsWithinLimit'
    BY <1>1, NoRoom
  <1>9. QED
    BY <1>4, <1>5, <1>6, <1>7, <1>8 DEF RoomInv

\* A new room, and its owner in it, wherever else that account sits, and
\* whichever room has to leave the table for it.
LEMMA PutRoomKeeps ==
  ASSUME RoomInv, NEW c \in Conns, NEW limit \in Limits, PutRoom(c, limit)
  PROVE  RoomInv'
  <1>a. PICK a \in Accounts : a = creating[c].owner
    BY DEF PutRoom, RoomInv, Numbered
  <1>b. PICK id \in Nat : id = creating[c].id /\ id # 0 /\ id <= Len(room) + 1
    BY DEF PutRoom, RoomInv, Numbered, TypeOK
  <1> DEFINE x == [id |-> id, owner |-> a, players |-> <<Human(a)>>,
                    limit |-> limit, started |-> FALSE]
  <1>0. PICK n \in Nat : n = Len(room) + 1
    BY RoomFacts DEF RoomInv
  <1>1. /\ room \in Seq(Room) /\ Len(room) \in Nat /\ DOMAIN room = 1 .. Len(room)
        /\ \A r \in rooms : r \in DOMAIN room
    BY RoomFacts DEF RoomInv, TypeOK
  <1>2. Human(a) \in Player /\ Human(a).account = a
    BY HumanType, RoomAssumption
  <1>3. x \in Room /\ x.players = <<Human(a)>> /\ x.limit = limit /\ x.id = id
    BY <1>2, <1>b DEF Room
  <1> HIDE DEF x
  <1>4. room' = Append(room, x) /\ UNCHANGED <<joining, torn, crossed, overlapped>>
    BY <1>a, <1>b DEF PutRoom, x
  <1>5. /\ room' \in Seq(Room) /\ Len(room') = n /\ DOMAIN room' = 1 .. n
        /\ \A k \in DOMAIN room : room'[k] = room[k]
        /\ room'[n] = x
    BY <1>0, <1>1, <1>3, <1>4, AppendProperties
  <1>6. /\ rooms' = {r \in rooms : room[r].id # id} \cup {n}
        /\ member' = [member EXCEPT ![a] = id]
        /\ creating' = [creating EXCEPT ![c] = NoCreate]
        /\ nextID' \in {nextID + 1, id + 1}
    BY <1>5, <1>a, <1>b DEF PutRoom
  <1>7. n \notin DOMAIN room /\ DOMAIN room' = DOMAIN room \cup {n}
    BY <1>0, <1>1, <1>5
  <1>8. TypeOK'
    <2>1. member' \in [Accounts -> 0 .. n]
      BY <1>0, <1>1, <1>6, <1>b DEF RoomInv, TypeOK
    <2>2. joining' \in [Conns -> [room : 0 .. n, account : Accounts \cup {0}]]
      <3>1. 0 .. Len(room) \subseteq 0 .. n
        BY <1>0, <1>1
      <3>2. joining \in [Conns -> [room : 0 .. Len(room), account : Accounts \cup {0}]]
        BY DEF RoomInv, TypeOK
      <3>3. QED
        BY <1>4, <3>1, <3>2
    <2>3. /\ rooms' \subseteq DOMAIN room' /\ torn' \subseteq DOMAIN room'
          /\ crossed' \subseteq DOMAIN room'
      BY <1>4, <1>6, <1>7 DEF RoomInv, TypeOK
    <2>4. creating' \in [Conns -> [id : 0 .. n + 1, owner : Accounts \cup {0}]]
      <3>1. 0 .. Len(room) + 1 \subseteq 0 .. n + 1
        BY <1>0, <1>1
      <3>2. creating \in [Conns -> [id : 0 .. Len(room) + 1, owner : Accounts \cup {0}]]
        BY DEF RoomInv, TypeOK
      <3>3. NoCreate \in [id : 0 .. n + 1, owner : Accounts \cup {0}]
        BY DEF NoCreate
      <3>4. QED
        BY <1>6, <3>1, <3>2, <3>3
    <2>5. nextID' \in 1 .. n + 1
      BY <1>0, <1>1, <1>6, <1>b DEF RoomInv, TypeOK
    <2>6. \A r \in DOMAIN room' : room'[r].id <= r
      BY <1>0, <1>3, <1>5, <1>7, <1>b DEF RoomInv, TypeOK
    <2>7. overlapped' \in BOOLEAN
      BY <1>4 DEF RoomInv, TypeOK
    <2>8. QED
      BY <1>5, <2>1, <2>2, <2>3, <2>4, <2>5, <2>6, <2>7 DEF TypeOK
  <1>s. /\ \A r \in DOMAIN room : Shared(r) => Shared(r)'
        /\ \A r \in DOMAIN room : room[r].id = id => Shared(r)'
    BY <1>3, <1>5, <1>7 DEF Shared
  <1>t. \A r \in DOMAIN room : Shared(r)' \/ (r \in rooms' <=> r \in rooms)
    <2>1. ASSUME NEW r \in DOMAIN room, room[r].id # id
          PROVE  r \in rooms' <=> r \in rooms
      BY <1>6, <1>7, <2>1
    <2>2. QED
      BY <1>s, <2>1, Zenon
  <1>9. Joins'
    <2>1. ASSUME NEW e \in Conns, joining[e] # NoJoin
          PROVE  LET k == joining[e].room
                 IN  /\ k \in DOMAIN room'
                     /\ joining[e].account \in Accounts
                     /\ k \notin torn \cup crossed =>
                          /\ Shared(k)' \/ k \in rooms'
                          /\ Len(room'[k].players) < room'[k].limit
                          /\ ~Seated(joining[e].account, k)'
                          /\ \A f \in Conns \ {e} : joining[f].room # k
      <3>1. PICK k \in DOMAIN room : k = joining[e].room
        BY <2>1 DEF RoomInv, Joins
      <3>2. PICK b : b = joining[e].account
        OBVIOUS
      <3>3. /\ b \in Accounts
            /\ k \notin torn \cup crossed =>
                 /\ Shared(k) \/ k \in rooms
                 /\ Len(room[k].players) < room[k].limit
                 /\ ~Seated(b, k)
                 /\ \A f \in Conns \ {e} : joining[f].room # k
        BY <2>1, <3>1, <3>2, Zenon DEF RoomInv, Joins
      <3>4. room'[k] = room[k] /\ k \in DOMAIN room'
        BY <1>5, <1>7
      <3>5. Seated(b, k)' <=> Seated(b, k)
        BY <3>4 DEF Seated
      <3>6. Shared(k) \/ k \in rooms => Shared(k)' \/ k \in rooms'
        BY <1>s, <1>t, Zenon
      <3>7. k \notin torn \cup crossed =>
              /\ Shared(k)' \/ k \in rooms'
              /\ Len(room'[k].players) < room'[k].limit
              /\ ~Seated(b, k)'
              /\ \A f \in Conns \ {e} : joining[f].room # k
        BY <3>3, <3>4, <3>5, <3>6
      <3>8. QED
        BY <1>4, <3>1, <3>2, <3>3, <3>4, <3>7, Zenon DEF Seated
    <2>2. QED
      BY <1>4, <2>1, Zenon DEF Joins, Seated
  <1>n. Numbered' /\ IdsDiffer'
    <2>0. /\ creating'[c] = NoCreate
          /\ \A e \in Conns \ {c} : creating'[e] = creating[e]
      BY <1>6 DEF RoomInv, TypeOK
    <2>1. ASSUME NEW e \in Conns, creating'[e] # NoCreate
          PROVE  /\ e # c /\ creating'[e] = creating[e]
                 /\ creating'[e].id # 0 /\ creating'[e].owner \in Accounts
      BY <2>0, <2>1 DEF RoomInv, Numbered
    <2>2. ASSUME ~overlapped'
          PROVE  /\ id = nextID /\ nextID' = nextID + 1 /\ nextID \in Nat
                 /\ \A e \in Conns : creating'[e] = NoCreate
                 /\ \A r \in DOMAIN room : room[r].id < nextID
                 /\ IdsDiffer /\ ~overlapped
      <3>1. ~overlapped /\ creating[c] # NoCreate
        BY <1>4, <2>2 DEF PutRoom
      <3>2. nextID \in Nat
        BY <1>1 DEF RoomInv, TypeOK
      <3>3. id = nextID /\ \A e \in Conns \ {c} : creating[e] = NoCreate
        BY <1>b, <3>1 DEF RoomInv, Numbered
      <3>4. QED
        BY <1>6, <2>0, <3>1, <3>2, <3>3 DEF RoomInv, Numbered
    <2>3. ASSUME ~overlapped', NEW r \in DOMAIN room'
          PROVE  room'[r].id < nextID' /\ ~Shared(r)'
      <3>1. \A k \in DOMAIN room : /\ room'[k].id = room[k].id
                                   /\ room[k].id \in Nat
                                   /\ room[k].id < nextID
        BY <1>5, <2>2, <2>3, RoomFacts DEF RoomInv
      <3>2. room'[n].id = nextID
        BY <1>3, <1>5, <2>2, <2>3
      <3>3. \A k \in DOMAIN room : ~Shared(k)
        BY <2>2, <2>3 DEF IdsDiffer
      <3>4. ASSUME NEW s \in DOMAIN room' \ {r} PROVE room'[s].id # room'[r].id
        <4>1. CASE r = n
          BY <1>7, <2>2, <2>3, <3>1, <3>2, <4>1
        <4>2. CASE s = n
          BY <1>7, <2>2, <2>3, <3>1, <3>2, <4>2
        <4>3. CASE r # n /\ s # n
          BY <1>7, <3>1, <3>3, <4>3 DEF Shared
        <4>4. QED
          BY <4>1, <4>2, <4>3
      <3>5. room'[r].id < nextID'
        BY <1>7, <2>2, <2>3, <3>1, <3>2
      <3>6. QED
        BY <3>4, <3>5 DEF Shared
    <2>4. IdsDiffer'
      BY <2>3 DEF IdsDiffer
    <2>5. ASSUME NEW b \in Accounts, member'[b] # 0
          PROVE  \E r \in DOMAIN room' : room'[r].id = member'[b]
      <3>1. CASE b = a
        BY <1>3, <1>5, <1>6, <1>7, <3>1 DEF RoomInv, TypeOK
      <3>2. CASE b # a
        <4>1. member'[b] = member[b]
          BY <1>6, <3>2 DEF RoomInv, TypeOK
        <4>2. PICK r \in DOMAIN room : room[r].id = member[b]
          BY <2>5, <4>1 DEF RoomInv, Numbered
        <4>3. QED
          BY <1>5, <1>7, <4>1, <4>2
      <3>3. QED
        BY <3>1, <3>2
    <2>6. QED
      BY <2>1, <2>2, <2>3, <2>4, <2>5, Zenon DEF Numbered
  <1>10. MemberIsSeated'
    <2>1. ASSUME NEW b \in Accounts, NEW r \in rooms' \ torn',
                 room'[r].id = member'[b], ~Shared(r)'
          PROVE  Seated(b, r)'
      <3>1. CASE b = a
        <4>1. member'[b] = id
          BY <1>6, <3>1 DEF RoomInv, TypeOK
        <4>2. r = n
          BY <1>1, <1>5, <1>6, <2>1, <4>1
        <4>3. Human(a) \in Range(<<Human(a)>>)
          BY DEF Range
        <4>4. QED
          BY <1>2, <1>3, <1>5, <3>1, <4>2, <4>3 DEF Seated
      <3>2. CASE b # a
        <4>1. member'[b] = member[b]
          BY <1>6, <3>2 DEF RoomInv, TypeOK
        <4>2. CASE r = n
          <5>1. member[b] = id
            BY <1>3, <1>5, <2>1, <4>1, <4>2
          <5>2. PICK s \in DOMAIN room : room[s].id = id
            BY <1>b, <5>1 DEF RoomInv, Numbered
          <5>3. Shared(r)'
            BY <1>3, <1>5, <1>7, <4>2, <5>2 DEF Shared
          <5>4. QED
            BY <2>1, <5>3
        <4>3. CASE r # n
          <5>1. r \in rooms \ torn /\ room'[r] = room[r]
            <6>1. r \in rooms /\ r \notin torn
              BY <1>4, <1>6, <2>1, <4>3
            <6>2. QED
              BY <1>1, <1>5, <6>1
          <5>2. ~Shared(r)
            BY <1>1, <1>s, <2>1, <5>1, Zenon
          <5>3. Seated(b, r)
            BY <2>1, <4>1, <5>1, <5>2 DEF RoomInv, MemberIsSeated
          <5>4. QED
            BY <5>1, <5>3 DEF Seated
        <4>4. QED
          BY <4>2, <4>3
      <3>3. QED
        BY <3>1, <3>2
    <2>2. QED
      BY <2>1, Zenon DEF MemberIsSeated
  <1>11. KeptWhileSeated' /\ SeatsWithinLimit'
    <2>1. Sound(n)'
      <3>1. room'[n].players = <<Human(a)>> /\ room'[n].limit = limit
        BY <1>3, <1>5
      <3>2. n \in rooms' /\ limit \in Nat /\ limit >= 1
        BY <1>6, RoomAssumption
      <3>3. /\ Len(<<Human(a)>>) = 1 /\ DOMAIN <<Human(a)>> = {1}
            /\ <<Human(a)>> # << >>
        OBVIOUS
      <3>4. /\ \A i, j \in DOMAIN room'[n].players : i = j
            /\ room'[n].players # << >>
            /\ Len(room'[n].players) <= room'[n].limit
        BY <3>1, <3>2, <3>3
      <3>5. QED
        BY <3>2, <3>4, Zenon DEF Sound
    <2>2. ASSUME NEW k \in DOMAIN room' \ (torn' \cup crossed') PROVE Sound(k)'
      <3>1. CASE k = n
        BY <2>1, <3>1
      <3>2. CASE k # n
        <4>1. Sound(k)
          BY <1>4, <1>7, <3>2, AllSound DEF RoomInv
        <4>2. /\ room'[k] = room[k]
              /\ Shared(k)' \/ ((k \in rooms' <=> k \in rooms) /\ ~Shared(k))
          <5>1. k \in DOMAIN room
            BY <1>7, <3>2
          <5>2. QED
            BY <1>5, <1>s, <1>t, <5>1, Zenon
        <4>3. QED
          BY <4>1, <4>2 DEF Sound
      <3>3. QED
        BY <3>1, <3>2
    <2>3. QED
      BY <2>2, Zenon DEF KeptWhileSeated, SeatsWithinLimit, Sound
  <1>12. QED
    BY <1>8, <1>9, <1>10, <1>11, <1>n DEF RoomInv

\* A join whose room has not been changed sees it at its second step as it
\* was at its first; this one changes nothing but what is crossed.
LEMMA JoinKeeps ==
  ASSUME RoomInv, NEW c \in Conns, NEW a \in Accounts, NEW r \in DOMAIN room,
         Join(c, a, r)
  PROVE  RoomInv'
  <1>1. /\ r \in rooms /\ ~Seated(a, r)
        /\ Len(room[r].players) < room[r].limit
        /\ joining[c] = NoJoin
        /\ UNCHANGED <<nextID, creating, overlapped>>
        /\ joining' = [joining EXCEPT ![c] = [room |-> r, account |-> a]]
        /\ crossed' = IF Joining(r) THEN crossed \cup {r} ELSE crossed
        /\ room' = room /\ rooms' = rooms /\ member' = member /\ torn' = torn
    BY DEF Join, Cross, Idle
  <1>2. r \in 0 .. Len(room)
    BY RoomFacts DEF RoomInv
  <1>3. TypeOK'
    <2>1. [room |-> r, account |-> a] \in [room : 0 .. Len(room), account : Accounts \cup {0}]
      BY <1>2
    <2>2. joining \in [Conns -> [room : 0 .. Len(room), account : Accounts \cup {0}]]
      BY DEF RoomInv, TypeOK
    <2>3. joining' \in [Conns -> [room : 0 .. Len(room), account : Accounts \cup {0}]]
      BY <1>1, <2>1, <2>2
    <2>4. crossed' \subseteq DOMAIN room
      BY <1>1 DEF RoomInv, TypeOK
    <2>5. QED
      BY <1>1, <2>3, <2>4 DEF RoomInv, TypeOK
  <1>4. joining'[c].room = r /\ joining'[c].account = a
        /\ \A e \in Conns \ {c} : joining'[e] = joining[e]
    BY <1>1 DEF RoomInv, TypeOK
  <1>5. crossed \subseteq crossed' /\ (Joining(r) => r \in crossed')
    BY <1>1
  <1>6. Joins'
    <2>1. ASSUME NEW e \in Conns, joining'[e] # NoJoin
          PROVE  LET k == joining'[e].room
                 IN  /\ k \in DOMAIN room
                     /\ joining'[e].account \in Accounts
                     /\ k \notin torn \cup crossed' =>
                          /\ Shared(k) \/ k \in rooms
                          /\ Len(room[k].players) < room[k].limit
                          /\ ~Seated(joining'[e].account, k)
                          /\ \A f \in Conns \ {e} : joining'[f].room # k
      <3>1. CASE e = c
        BY <1>1, <1>4, <1>5, <3>1 DEF Joining
      <3>2. CASE e # c
        <4>1. joining[e] = joining'[e] /\ joining[e] # NoJoin
          BY <1>4, <2>1, <3>2
        <4>2. CASE joining[e].room = r
          <5>1. Joining(r)
            BY <4>2 DEF Joining
          <5>2. QED
            BY <1>1, <1>5, <4>1, <4>2, <5>1 DEF RoomInv, Joins
        <4>3. CASE joining[e].room # r
          BY <1>4, <1>5, <4>1, <4>3, Zenon DEF RoomInv, Joins
        <4>4. QED
          BY <4>2, <4>3
      <3>3. QED
        BY <3>1, <3>2
    <2>2. QED
      BY <1>1, <2>1, Zenon DEF Joins, Seated, Shared
  <1>7. MemberIsSeated'
    BY <1>1 DEF RoomInv, MemberIsSeated, Seated, Shared
  <1>8. KeptWhileSeated' /\ SeatsWithinLimit'
    BY <1>1, <1>5, NoRoom
  <1>9. Numbered' /\ IdsDiffer'
    BY <1>1, NumbersKept DEF SameIds
  <1>10. QED
    BY <1>3, <1>6, <1>7, <1>8, <1>9 DEF RoomInv

\* One seat more.
LEMMA Grow ==
  ASSUME NEW p \in Seq(Player), NEW x \in Player, NEW q, q = Append(p, x)
  PROVE  /\ q \in Seq(Player) /\ Len(q) = Len(p) + 1 /\ q # << >>
         /\ \A b : (\E i \in DOMAIN q : q[i].account = b)
                   <=> \/ b = x.account
                       \/ \E i \in DOMAIN p : p[i].account = b
         /\ (/\ \A i, j \in DOMAIN p : p[i].account = p[j].account => i = j
             /\ \A i \in DOMAIN p : p[i].account # x.account)
            => \A i, j \in DOMAIN q : q[i].account = q[j].account => i = j
  <1>1. /\ q \in Seq(Player) /\ Len(q) = Len(p) + 1 /\ Len(p) \in Nat
        /\ DOMAIN p = 1 .. Len(p) /\ DOMAIN q = 1 .. Len(p) + 1
        /\ \A i \in 1 .. Len(p) : q[i] = p[i]
        /\ q[Len(p) + 1] = x
    BY AppendProperties
  <1>2. q # << >>
    BY <1>1
  <1>3. \A b : (\E i \in DOMAIN q : q[i].account = b)
               <=> \/ b = x.account
                   \/ \E i \in DOMAIN p : p[i].account = b
    <2>1. DOMAIN q = DOMAIN p \cup {Len(p) + 1}
      BY <1>1
    <2>2. QED
      BY <1>1, <2>1, Zenon
  <1>4. (/\ \A i, j \in DOMAIN p : p[i].account = p[j].account => i = j
         /\ \A i \in DOMAIN p : p[i].account # x.account)
        => \A i, j \in DOMAIN q : q[i].account = q[j].account => i = j
    <2>1. DOMAIN q = DOMAIN p \cup {Len(p) + 1}
      BY <1>1
    <2>2. QED
      BY <1>1, <2>1, ZenonT(60)
  <1>5. QED
    BY <1>1, <1>2, <1>3, <1>4, Zenon

\* What is left of the players p when those of an account go, K their places.
Left(p, K, a, q) ==
  /\ q \in Seq(Player) /\ Len(q) <= Len(p)
  /\ K = {} <=> q = << >>
  /\ \A b : b # a /\ (\E i \in DOMAIN p : p[i].account = b)
            => \E i \in DOMAIN q : q[i].account = b
  /\ (\A i, j \in DOMAIN p : p[i].account = p[j].account => i = j)
     => \A i, j \in DOMAIN q : q[i].account = q[j].account => i = j

LEMMA Shrink ==
  ASSUME NEW p \in Seq(Player), NEW a,
         NEW K \in SUBSET DOMAIN p, \A i \in DOMAIN p : i \in K <=> p[i].account # a,
         NEW h \in InOrder(K),
         NEW q \in [DOMAIN h -> Player], \A i \in DOMAIN h : q[i] = p[h[i]]
  PROVE  Left(p, K, a, q)
  <1>0. Len(p) \in Nat /\ DOMAIN p = 1 .. Len(p) /\ \A i \in DOMAIN p : p[i] \in Player
    OBVIOUS
  <1>1. IsFiniteSet(K) /\ Cardinality(K) \in Nat /\ Cardinality(K) <= Len(p)
    <2>1. /\ IsFiniteSet(1 .. Len(p)) /\ Cardinality(1 .. Len(p)) = Len(p)
      <3>1. PICK m \in Nat : m = Len(p)
        BY <1>0
      <3>2. /\ IsFiniteSet(1 .. m)
            /\ Cardinality(1 .. m) = IF 1 > m THEN 0 ELSE m - 1 + 1
        BY FS_Interval
      <3>3. Cardinality(1 .. m) = m
        BY <3>2
      <3>4. QED
        BY <3>1, <3>2, <3>3
    <2>2. K \in SUBSET (1 .. Len(p))
      BY <1>0
    <2>3. QED
      BY <2>1, <2>2, FS_Subset, FS_CardinalityType
  <1>2. /\ h \in [1 .. Cardinality(K) -> K]
        /\ \A k \in K : \E i \in DOMAIN h : h[i] = k
        /\ \A i, j \in DOMAIN h : i < j => h[i] < h[j]
    BY DEF InOrder
  <1>3. K = {} <=> Cardinality(K) = 0
    BY <1>1, FS_EmptySet
  <1>4. PICK n \in Nat : n = Cardinality(K)
    BY <1>1
  <1>5. DOMAIN h = 1 .. n /\ \A i \in 1 .. n : h[i] \in K
    BY <1>2, <1>4
  <1>6. /\ \A k \in K : k \in 1 .. Len(p) /\ p[k] \in Player /\ p[k].account # a
        /\ \A k \in 1 .. Len(p) : p[k].account # a => k \in K
    BY <1>0
  <1>7. \A i, j \in 1 .. n : h[i] = h[j] => i = j
    BY <1>2, <1>5, <1>6
  <1>8. n <= Len(p) /\ (K = {} <=> n = 0)
    BY <1>1, <1>3, <1>4
  <1>9. \A k \in K : \E i \in 1 .. n : h[i] = k
    BY <1>2, <1>5
  <1>10. /\ q \in Seq(Player) /\ Len(q) = n /\ DOMAIN q = 1 .. n
         /\ \A i \in 1 .. n : q[i] = p[h[i]]
    BY <1>5
  <1>11. K = {} <=> q = << >>
    BY <1>8, <1>10
  <1>12. \A b : b # a /\ (\E i \in DOMAIN p : p[i].account = b)
                => \E i \in DOMAIN q : q[i].account = b
    <2>1. ASSUME NEW b, b # a, NEW i \in DOMAIN p, p[i].account = b
          PROVE  \E j \in DOMAIN q : q[j].account = b
      <3>1. i \in K
        BY <1>0, <1>6, <2>1
      <3>2. PICK j \in 1 .. n : h[j] = i
        BY <1>9, <3>1
      <3>3. QED
        BY <1>10, <2>1, <3>2
    <2>2. QED
      BY <2>1
  <1>13. (\A i, j \in DOMAIN p : p[i].account = p[j].account => i = j)
         => \A i, j \in DOMAIN q : q[i].account = q[j].account => i = j
    <2>1. ASSUME \A i, j \in DOMAIN p : p[i].account = p[j].account => i = j,
                 NEW i \in DOMAIN q, NEW j \in DOMAIN q,
                 q[i].account = q[j].account
          PROVE  i = j
      <3>1. /\ h[i] \in DOMAIN p /\ h[j] \in DOMAIN p
            /\ q[i] = p[h[i]] /\ q[j] = p[h[j]]
        BY <1>0, <1>5, <1>6, <1>10
      <3>2. h[i] = h[j]
        BY <2>1, <3>1
      <3>3. QED
        BY <1>7, <1>10, <3>2
    <2>2. QED
      BY <2>1
  <1>14. QED
    BY <1>8, <1>10, <1>11, <1>12, <1>13 DEF Left

\* The room of a seated member is left alone, or keeps its seats.
LEMMA MembersKept ==
  ASSUME RoomInv, NEW r, SameIds,
         \A k \in DOMAIN room \ {r} : room'[k] = room[k],
         torn \subseteq torn', rooms' \subseteq rooms,
         NEW b \in Accounts, member'[b] = member[b],
         \A i \in DOMAIN room[r].players : room[r].players[i].account = b =>
            \E j \in DOMAIN room'[r].players : room'[r].players[j].account = b,
         NEW k \in rooms' \ torn', room'[k].id = member'[b], ~Shared(k)'
  PROVE  Seated(b, k)'
  <1>1. k \in rooms \ torn /\ k \in DOMAIN room
    BY RoomFacts DEF RoomInv
  <1>2. room[k].id = member[b] /\ ~Shared(k)
    BY <1>1, SharedKept DEF SameIds
  <1>3. PICK i \in DOMAIN room[k].players : room[k].players[i].account = b
    BY <1>1, <1>2, SeatedAt DEF RoomInv, MemberIsSeated
  <1>4. \E j \in DOMAIN room'[k].players : room'[k].players[j].account = b
    BY <1>1, <1>3
  <1>5. QED
    BY <1>4 DEF Seated, Range

\* Types of a step that changes one room at most.
LEMMA OneRoomTypes ==
  ASSUME TypeOK, room' \in Seq(Room), Len(room') = Len(room),
         SameIds, rooms' \subseteq rooms,
         UNCHANGED <<nextID, creating, overlapped>>,
         member' \in [Accounts -> 0 .. Len(room)],
         joining' \in [Conns -> [room : 0 .. Len(room), account : Accounts \cup {0}]],
         torn' \subseteq DOMAIN room, crossed' \subseteq DOMAIN room
  PROVE  TypeOK'
  BY DEF TypeOK, SameIds

\* A step that crosses the joins under way leaves nothing to be said of them.
LEMMA CrossedJoins ==
  ASSUME RoomInv, NEW r, joining' = joining, SameIds,
         \A k \in DOMAIN room \ {r} : room'[k] = room[k],
         \A k \in DOMAIN room \ {r} : k \in rooms' <=> k \in rooms,
         torn' = torn, Cross(r)
  PROVE  Joins' /\ crossed \subseteq crossed'
  <1>1. crossed \subseteq crossed' /\ (Joining(r) => r \in crossed')
    BY DEF Cross
  <1>2. ASSUME NEW c \in Conns, joining[c] # NoJoin
        PROVE  LET k == joining[c].room
               IN  /\ k \in DOMAIN room'
                   /\ joining[c].account \in Accounts
                   /\ k \notin torn \cup crossed' =>
                        /\ Shared(k)' \/ k \in rooms'
                        /\ Len(room'[k].players) < room'[k].limit
                        /\ ~ \E p \in Range(room'[k].players) :
                                p.account = joining[c].account
                        /\ \A e \in Conns \ {c} : joining[e].room # k
    <2>1. PICK k \in DOMAIN room : k = joining[c].room
      BY <1>2 DEF RoomInv, Joins
    <2>2. CASE k = r
      <3>1. k \in crossed'
        BY <1>1, <2>1, <2>2 DEF Joining
      <3>2. QED
        BY <1>2, <2>1, <3>1 DEF RoomInv, Joins, SameIds
    <2>3. CASE k # r
      <3>1. room'[k] = room[k] /\ (k \in rooms' <=> k \in rooms)
        BY <2>3
      <3>2. (Shared(k)' <=> Shared(k)) /\ k \in DOMAIN room'
        BY SharedKept DEF SameIds
      <3>3. QED
        BY <1>1, <1>2, <2>1, <3>1, <3>2 DEF RoomInv, Joins, Seated
    <2>4. QED
      BY <2>2, <2>3
  <1>3. QED
    BY <1>1, <1>2, Zenon DEF Joins, Seated

\* A room with one player more is a sound one, if there was a seat for a
\* player it did not have.
LEMMA RoomGrows ==
  ASSUME RoomInv, NEW r \in DOMAIN room, NEW x \in Player,
         room' = [room EXCEPT ![r].players = Append(room[r].players, x)]
  PROVE  /\ room' \in Seq(Room) /\ Len(room') = Len(room)
         /\ DOMAIN room' = DOMAIN room /\ SameIds
         /\ \A k \in DOMAIN room \ {r} : room'[k] = room[k]
         /\ \A b : (\E i \in DOMAIN room'[r].players :
                      room'[r].players[i].account = b)
                   <=> \/ b = x.account
                       \/ \E i \in DOMAIN room[r].players :
                            room[r].players[i].account = b
         /\ (/\ r \notin torn \cup crossed
             /\ Len(room[r].players) < room[r].limit
             /\ ~Seated(x.account, r))
            => /\ room'[r].players # << >>
               /\ Len(room'[r].players) <= room'[r].limit
               /\ \A i, j \in DOMAIN room'[r].players :
                    room'[r].players[i].account = room'[r].players[j].account
                    => i = j
  <1>1. /\ room[r].players \in Seq(Player) /\ Len(room[r].players) \in Nat
        /\ room[r].limit \in Nat
    BY RoomFacts DEF RoomInv
  <1>2. Append(room[r].players, x) \in Seq(Player)
    BY <1>1
  <1>3. /\ room' \in Seq(Room) /\ Len(room') = Len(room)
        /\ DOMAIN room' = DOMAIN room /\ SameIds
        /\ room'[r].players = Append(room[r].players, x)
        /\ room'[r].limit = room[r].limit
        /\ \A k \in DOMAIN room \ {r} : room'[k] = room[k]
    BY <1>2, NewPlayers DEF RoomInv
  <1>4. /\ Len(room'[r].players) = Len(room[r].players) + 1
        /\ room'[r].players # << >>
        /\ \A b : (\E i \in DOMAIN room'[r].players :
                     room'[r].players[i].account = b)
                  <=> \/ b = x.account
                      \/ \E i \in DOMAIN room[r].players :
                           room[r].players[i].account = b
        /\ (/\ \A i, j \in DOMAIN room[r].players :
                 room[r].players[i].account = room[r].players[j].account
                 => i = j
            /\ \A i \in DOMAIN room[r].players :
                 room[r].players[i].account # x.account)
           => \A i, j \in DOMAIN room'[r].players :
                room'[r].players[i].account = room'[r].players[j].account
                => i = j
    <2>1. PICK p \in Seq(Player) : p = room[r].players
      BY <1>1
    <2>2. PICK q : q = room'[r].players
      OBVIOUS
    <2>3. q = Append(p, x)
      BY <1>3, <2>1, <2>2
    <2>4. /\ Len(q) = Len(p) + 1
          /\ q # << >>
          /\ \A b : (\E i \in DOMAIN q : q[i].account = b)
                    <=> \/ b = x.account
                        \/ \E i \in DOMAIN p : p[i].account = b
          /\ (/\ \A i, j \in DOMAIN p : p[i].account = p[j].account => i = j
              /\ \A i \in DOMAIN p : p[i].account # x.account)
             => \A i, j \in DOMAIN q : q[i].account = q[j].account => i = j
      BY <2>3, Grow, SMTT(60)
    <2>5. Len(room'[r].players) = Len(room[r].players) + 1
      BY <2>1, <2>2, <2>4
    <2>6. room'[r].players # << >>
      BY <2>2, <2>4
    <2>7. \A b : (\E i \in DOMAIN room'[r].players :
                    room'[r].players[i].account = b)
                 <=> \E i \in DOMAIN q : q[i].account = b
      BY <2>2, Zenon
    <2>8. \A b : (\E i \in DOMAIN room[r].players :
                    room[r].players[i].account = b)
                 <=> \E i \in DOMAIN p : p[i].account = b
      BY <2>1, Zenon
    <2>9. (/\ \A i, j \in DOMAIN room[r].players :
                room[r].players[i].account = room[r].players[j].account
                => i = j
           /\ \A i \in DOMAIN room[r].players :
                room[r].players[i].account # x.account)
          => (/\ \A i, j \in DOMAIN p : p[i].account = p[j].account => i = j
              /\ \A i \in DOMAIN p : p[i].account # x.account)
      BY <2>1, Zenon
    <2>10. (\A i, j \in DOMAIN q : q[i].account = q[j].account => i = j)
           => \A i, j \in DOMAIN room'[r].players :
                room'[r].players[i].account = room'[r].players[j].account
                => i = j
      <3>1. ASSUME \A i, j \in DOMAIN q : q[i].account = q[j].account => i = j,
                   NEW i \in DOMAIN room'[r].players,
                   NEW j \in DOMAIN room'[r].players,
                   room'[r].players[i].account = room'[r].players[j].account
            PROVE  i = j
        <4>1. i \in DOMAIN q /\ j \in DOMAIN q
          BY <2>2
        <4>2. q[i].account = q[j].account
          BY <2>2, <3>1
        <4>3. QED
          BY <3>1, <4>1, <4>2
      <3>2. QED
        BY <3>1
    <2>11. QED
      BY <2>4, <2>5, <2>6, <2>7, <2>8, <2>9, <2>10, Zenon
  <1>5. ASSUME r \notin torn \cup crossed,
               Len(room[r].players) < room[r].limit, ~Seated(x.account, r)
        PROVE  /\ Len(room'[r].players) <= room'[r].limit
               /\ \A i, j \in DOMAIN room'[r].players :
                    room'[r].players[i].account = room'[r].players[j].account
                    => i = j
    <2>1. Sound(r)
      BY <1>5, AllSound DEF RoomInv
    <2>2. \A i \in DOMAIN room[r].players :
            room[r].players[i].account # x.account
      BY <1>5, SeatedAt, Zenon
    <2>3. \A i, j \in DOMAIN room[r].players :
            room[r].players[i].account = room[r].players[j].account => i = j
      BY <2>1, Zenon DEF Sound
    <2>4. \A i, j \in DOMAIN room'[r].players :
            room'[r].players[i].account = room'[r].players[j].account => i = j
      BY <1>4, <2>2, <2>3, Zenon
    <2>5. Len(room'[r].players) <= room'[r].limit
      BY <1>1, <1>3, <1>4, <1>5
    <2>6. QED
      BY <2>4, <2>5
  <1>6. QED
    BY <1>3, <1>4, <1>5, Zenon

\* The second step of a join: the account takes the seat, wherever the room
\* has gone since.
LEMMA TakeSeatKeeps ==
  ASSUME RoomInv, NEW c \in Conns, TakeSeat(c)
  PROVE  RoomInv'
  <1>1. PICK r \in DOMAIN room : r = joining[c].room
    BY DEF RoomInv, Joins, TakeSeat
  <1>2. PICK a \in Accounts : a = joining[c].account
    BY DEF RoomInv, Joins, TakeSeat
  <1>3. PICK x \in Player : x = Human(a) /\ x.account = a
    BY HumanType, RoomAssumption
  <1>4. /\ room' = [room EXCEPT ![r].players = Append(room[r].players, x)]
        /\ member' = [member EXCEPT ![a] = room[r].id]
        /\ joining' = [joining EXCEPT ![c] = NoJoin]
        /\ rooms' = rooms /\ torn' = torn /\ crossed' = crossed
        /\ UNCHANGED <<nextID, creating, overlapped>>
    BY <1>1, <1>2, <1>3 DEF TakeSeat
  <1>5. Len(room) \in Nat /\ DOMAIN room = 1 .. Len(room)
    BY RoomFacts DEF RoomInv
  <1>6. /\ room' \in Seq(Room) /\ Len(room') = Len(room)
        /\ DOMAIN room' = DOMAIN room /\ SameIds
        /\ \A k \in DOMAIN room \ {r} : room'[k] = room[k]
        /\ \A b : (\E i \in DOMAIN room'[r].players :
                     room'[r].players[i].account = b)
                  <=> \/ b = a
                      \/ \E i \in DOMAIN room[r].players :
                           room[r].players[i].account = b
        /\ (/\ r \notin torn \cup crossed
            /\ Len(room[r].players) < room[r].limit
            /\ ~Seated(a, r))
           => /\ room'[r].players # << >>
              /\ Len(room'[r].players) <= room'[r].limit
              /\ \A i, j \in DOMAIN room'[r].players :
                   room'[r].players[i].account = room'[r].players[j].account
                   => i = j
    <2>1. a = x.account
      BY <1>3
    <2>2. /\ room' \in Seq(Room) /\ Len(room') = Len(room)
          /\ DOMAIN room' = DOMAIN room /\ SameIds
          /\ \A k \in DOMAIN room \ {r} : room'[k] = room[k]
          /\ \A b : (\E i \in DOMAIN room'[r].players :
                       room'[r].players[i].account = b)
                    <=> \/ b = x.account
                        \/ \E i \in DOMAIN room[r].players :
                             room[r].players[i].account = b
          /\ (/\ r \notin torn \cup crossed
              /\ Len(room[r].players) < room[r].limit
              /\ ~Seated(x.account, r))
             => /\ room'[r].players # << >>
                /\ Len(room'[r].players) <= room'[r].limit
                /\ \A i, j \in DOMAIN room'[r].players :
                     room'[r].players[i].account = room'[r].players[j].account
                     => i = j
      BY <1>4, RoomGrows
    <2>3. QED
      BY <2>1, <2>2, Zenon
  <1>7. TypeOK'
    <2>1. member' \in [Accounts -> 0 .. Len(room)]
      <3>1. room[r].id \in 0 .. Len(room)
        BY <1>5, RoomFacts DEF RoomInv
      <3>2. QED
        BY <1>4, <3>1 DEF RoomInv, TypeOK
    <2>2. NoJoin \in [room : 0 .. Len(room), account : Accounts \cup {0}]
      BY <1>5 DEF NoJoin
    <2>3. joining' \in [Conns -> [room : 0 .. Len(room), account : Accounts \cup {0}]]
      BY <1>4, <2>2 DEF RoomInv, TypeOK
    <2>4. rooms' \subseteq rooms /\ torn' \subseteq DOMAIN room /\ crossed' \subseteq DOMAIN room
      BY <1>4 DEF RoomInv, TypeOK
    <2>5. QED
      BY <1>4, <1>6, <2>1, <2>3, <2>4, OneRoomTypes DEF RoomInv
  <1>8. /\ joining'[c] = NoJoin
        /\ \A e \in Conns \ {c} : joining'[e] = joining[e]
    BY <1>4 DEF RoomInv, TypeOK
  <1>9. r \notin torn \cup crossed =>
          /\ Shared(r) \/ r \in rooms
          /\ Len(room[r].players) < room[r].limit
          /\ ~Seated(a, r)
          /\ \A e \in Conns \ {c} : joining[e].room # r
    BY <1>1, <1>2, Zenon DEF RoomInv, Joins, TakeSeat
  <1>10. Joins'
    <2>1. ASSUME NEW e \in Conns, joining'[e] # NoJoin
          PROVE  LET k == joining'[e].room
                 IN  /\ k \in DOMAIN room'
                     /\ joining'[e].account \in Accounts
                     /\ k \notin torn' \cup crossed' =>
                          /\ \/ k \in rooms'
                             \/ \E s \in DOMAIN room' \ {k} :
                                  room'[s].id = room'[k].id
                          /\ Len(room'[k].players) < room'[k].limit
                          /\ ~ \E p \in Range(room'[k].players) :
                                  p.account = joining'[e].account
                          /\ \A f \in Conns \ {e} : joining'[f].room # k
      <3>1. e # c /\ joining'[e] = joining[e] /\ joining[e] # NoJoin
        BY <1>8, <2>1
      <3>2. PICK k \in DOMAIN room : k = joining[e].room
        BY <3>1 DEF RoomInv, Joins
      <3>3. PICK b \in Accounts : b = joining[e].account
        BY <3>1 DEF RoomInv, Joins
      <3>4. k \notin torn \cup crossed =>
              /\ Shared(k) \/ k \in rooms
              /\ Len(room[k].players) < room[k].limit
              /\ ~Seated(b, k)
              /\ \A f \in Conns \ {e} : joining[f].room # k
        BY <3>1, <3>2, <3>3, Zenon DEF RoomInv, Joins
      <3>5. CASE k = r
        <4>1. k \in torn \cup crossed
          BY <1>1, <3>1, <3>4, <3>5
        <4>2. QED
          BY <1>4, <1>6, <3>1, <3>2, <3>3, <4>1
      <3>6. CASE k # r
        <4>1. room'[k] = room[k]
          BY <1>6, <3>6
        <4>2. k # 0
          BY <1>5
        <4>3. ASSUME k \notin torn \cup crossed, NEW f \in Conns \ {e}
              PROVE  joining'[f].room # k
          <5>1. CASE f = c
            BY <1>8, <4>2, <5>1 DEF NoJoin
          <5>2. CASE f # c
            BY <1>8, <3>4, <4>3, <5>2
          <5>3. QED
            BY <5>1, <5>2
        <4>4. k \notin torn \cup crossed =>
                ~ \E p \in Range(room[k].players) : p.account = b
          BY <3>4, Zenon DEF Seated
        <4>5. joining'[e].room = k /\ joining'[e].account = b
          BY <3>1, <3>2, <3>3
        <4>6. k \in DOMAIN room' /\ rooms' = rooms /\ torn' \cup crossed' = torn \cup crossed
          BY <1>4, <1>6
        <4>7. Shared(k)' <=> Shared(k)
          BY <1>6, SharedKept
        <4>8. QED
          BY <3>4, <4>1, <4>3, <4>4, <4>5, <4>6, <4>7, Zenon DEF Shared
      <3>7. QED
        BY <3>5, <3>6
    <2>2. QED
      BY <2>1, Zenon DEF Joins, Seated, Shared
  <1>11. MemberIsSeated'
    <2>1. ASSUME NEW b \in Accounts, NEW k \in rooms' \ torn',
                 room'[k].id = member'[b], ~Shared(k)'
          PROVE  Seated(b, k)'
      <3>1. CASE b = a
        <4>1. room'[k].id = room'[r].id /\ k \in DOMAIN room'
          <5>1. member'[a] = room[r].id
            BY <1>4 DEF RoomInv, TypeOK
          <5>2. room'[r].id = room[r].id
            BY <1>6 DEF SameIds
          <5>3. k \in rooms
            BY <1>4, <2>1
          <5>4. k \in DOMAIN room'
            BY <1>6, <5>3 DEF RoomInv, TypeOK
          <5>5. QED
            BY <2>1, <3>1, <5>1, <5>2, <5>4
        <4>2. k = r
          BY <1>6, <2>1, <4>1 DEF Shared
        <4>3. \E i \in DOMAIN room'[r].players : room'[r].players[i].account = a
          BY <1>6, Zenon
        <4>4. QED
          BY <3>1, <4>2, <4>3 DEF Seated, Range
      <3>2. CASE b # a
        <4>1. member'[b] = member[b]
          BY <1>4, <3>2 DEF RoomInv, TypeOK
        <4>2. \A i \in DOMAIN room[r].players : room[r].players[i].account = b =>
                 \E j \in DOMAIN room'[r].players : room'[r].players[j].account = b
          BY <1>6, Zenon
        <4>3. /\ \A l \in DOMAIN room \ {r} : room'[l] = room[l]
              /\ torn \subseteq torn' /\ rooms' \subseteq rooms /\ SameIds
          BY <1>4, <1>6
        <4>4. QED
          BY <2>1, <4>1, <4>2, <4>3, MembersKept
      <3>3. QED
        BY <3>1, <3>2
    <2>2. QED
      BY <2>1, Zenon DEF MemberIsSeated
  <1>12. KeptWhileSeated' /\ SeatsWithinLimit'
    <2>1. ASSUME r \in DOMAIN room \ (torn' \cup crossed') PROVE Sound(r)'
      <3>1. r \notin torn \cup crossed
        BY <1>4, <2>1
      <3>2. /\ Shared(r)' \/ r \in rooms'
            /\ room'[r].players # << >>
            /\ Len(room'[r].players) <= room'[r].limit
            /\ \A i, j \in DOMAIN room'[r].players :
                 room'[r].players[i].account = room'[r].players[j].account
                 => i = j
        BY <1>1, <1>4, <1>6, <1>9, <3>1, SharedKept, Zenon
      <3>3. QED
        BY <3>2, Zenon DEF Sound
    <2>2. QED
      BY <1>4, <1>6, <2>1, OneRoom
  <1>13. Numbered' /\ IdsDiffer'
    <2>1. \A b \in Accounts :
            member'[b] \in {0, member[b]} \/ member'[b] = room[r].id
      BY <1>4 DEF RoomInv, TypeOK
    <2>2. QED
      BY <1>4, <1>6, <2>1, NumbersKept
  <1>14. QED
    BY <1>7, <1>10, <1>11, <1>12, <1>13 DEF RoomInv

\* One robot more, with a number none of the players has.
LEMMA AddRobotKeeps ==
  ASSUME RoomInv, NEW r \in DOMAIN room, AddRobot(r)
  PROVE  RoomInv'
  <1>1. PICK n \in RobotIDs(r) :
          room' = [room EXCEPT ![r].players =
                    Append(@, [account |-> n, ready |-> FALSE, robot |-> TRUE])]
    BY DEF AddRobot
  <1>2. /\ r \in rooms /\ Len(room[r].players) < room[r].limit
        /\ rooms' = rooms /\ member' = member /\ joining' = joining /\ torn' = torn
        /\ Cross(r) /\ UNCHANGED <<nextID, creating, overlapped>>
        /\ crossed' = IF Joining(r) THEN crossed \cup {r} ELSE crossed
    BY DEF AddRobot, Cross
  <1>3. n \in Nat /\ ~Seated(n, r)
    <2>1. /\ Len(room) \in Nat /\ DOMAIN room = 1 .. Len(room)
          /\ Len(room[r].players) \in Nat
      BY RoomFacts DEF RoomInv
    <2>2. /\ n \in 1000 * room[r].id + 1 .. 1000 * room[r].id + 1 + Len(room[r].players)
          /\ ~Seated(n, r)
      BY DEF RobotIDs
    <2>3. PICK k \in Nat : k = room[r].id
      BY RoomFacts DEF RoomInv
    <2>4. n \in Nat
      BY <2>1, <2>2, <2>3
    <2>5. QED
      BY <2>2, <2>4
  <1>4. PICK x \in Player : /\ x = [account |-> n, ready |-> FALSE, robot |-> TRUE]
                            /\ x.account = n
    <2>1. [account |-> n, ready |-> FALSE, robot |-> TRUE] \in Player
      BY <1>3 DEF Player
    <2>2. [account |-> n, ready |-> FALSE, robot |-> TRUE].account = n
      OBVIOUS
    <2>3. QED
      BY <2>1, <2>2
  <1>5. /\ room' \in Seq(Room) /\ Len(room') = Len(room)
        /\ DOMAIN room' = DOMAIN room /\ SameIds
        /\ \A k \in DOMAIN room \ {r} : room'[k] = room[k]
        /\ \A b : (\E i \in DOMAIN room'[r].players :
                     room'[r].players[i].account = b)
                  <=> \/ b = x.account
                      \/ \E i \in DOMAIN room[r].players :
                           room[r].players[i].account = b
        /\ (/\ r \notin torn \cup crossed
            /\ Len(room[r].players) < room[r].limit
            /\ ~Seated(x.account, r))
           => /\ room'[r].players # << >>
              /\ Len(room'[r].players) <= room'[r].limit
              /\ \A i, j \in DOMAIN room'[r].players :
                   room'[r].players[i].account = room'[r].players[j].account
                   => i = j
    <2>1. room' = [room EXCEPT ![r].players = Append(room[r].players, x)]
      BY <1>1, <1>4
    <2>2. QED
      BY <2>1, RoomGrows
  <1>6. TypeOK'
    <2>1. crossed' \subseteq DOMAIN room
      BY <1>2 DEF RoomInv, TypeOK
    <2>2. QED
      BY <1>2, <1>5, <2>1, OneRoomTypes DEF RoomInv, TypeOK
  <1>7. Joins' /\ crossed \subseteq crossed'
    BY <1>2, <1>5, CrossedJoins
  <1>8. MemberIsSeated'
    <2>1. ASSUME NEW b \in Accounts, NEW k \in rooms' \ torn',
                 room'[k].id = member'[b], ~Shared(k)'
          PROVE  Seated(b, k)'
      <3>1. \A i \in DOMAIN room[r].players : room[r].players[i].account = b =>
               \E j \in DOMAIN room'[r].players : room'[r].players[j].account = b
        BY <1>5, Zenon
      <3>2. QED
        BY <1>2, <1>5, <2>1, <3>1, MembersKept
    <2>2. QED
      BY <2>1, Zenon DEF MemberIsSeated
  <1>9. KeptWhileSeated' /\ SeatsWithinLimit'
    <2>1. ASSUME r \in DOMAIN room \ (torn' \cup crossed') PROVE Sound(r)'
      <3>1. r \notin torn \cup crossed /\ ~Seated(x.account, r)
        BY <1>2, <1>3, <1>4, <1>7, <2>1
      <3>2. /\ r \in rooms'
            /\ room'[r].players # << >>
            /\ Len(room'[r].players) <= room'[r].limit
            /\ \A i, j \in DOMAIN room'[r].players :
                 room'[r].players[i].account = room'[r].players[j].account
                 => i = j
        BY <1>2, <1>5, <3>1, Zenon
      <3>3. QED
        BY <3>2, Zenon DEF Sound
    <2>2. QED
      BY <1>2, <1>5, <1>7, <2>1, OneRoom
  <1>10. Numbered' /\ IdsDiffer'
    BY <1>2, <1>5, NumbersKept
  <1>11. QED
    BY <1>6, <1>7, <1>8, <1>9, <1>10 DEF RoomInv

\* One player leaves; the others keep their order, and the room goes with the
\* last.
LEMMA LeaveKeeps ==
  ASSUME RoomInv, NEW a \in Accounts, NEW r \in DOMAIN room, Leave(a, r)
  PROVE  RoomInv'
  <1>1. PICK p \in Seq(Player) : p = room[r].players
    BY RoomFacts DEF RoomInv
  <1>2. PICK K : K = {i \in DOMAIN p : p[i].account # a}
    OBVIOUS
  <1>3. PICK h \in InOrder(K) :
          room' = [room EXCEPT ![r].players = [i \in DOMAIN h |-> p[h[i]]]]
    <2>1. PICK h \in InOrder({i \in DOMAIN room[r].players :
                                room[r].players[i].account # a}) :
            room' = [room EXCEPT ![r].players =
                       [i \in DOMAIN h |-> room[r].players[h[i]]]]
      BY Zenon DEF Leave
    <2>2. h \in InOrder(K)
      BY <1>1, <1>2, <2>1, Zenon
    <2>3. [i \in DOMAIN h |-> room[r].players[h[i]]] = [i \in DOMAIN h |-> p[h[i]]]
      BY <1>1, Zenon
    <2>4. QED
      BY <2>1, <2>2, <2>3, Zenon
  <1>4. PICK q : q = [i \in DOMAIN h |-> p[h[i]]]
    OBVIOUS
  <1>5. /\ r \in rooms
        /\ rooms' = IF K = {} THEN rooms \ {r} ELSE rooms
        /\ member' = [member EXCEPT ![a] = 0]
        /\ joining' = joining /\ torn' = torn
        /\ Cross(r) /\ UNCHANGED <<nextID, creating, overlapped>>
        /\ crossed' = IF Joining(r) THEN crossed \cup {r} ELSE crossed
    BY <1>1, <1>2 DEF Leave, Cross
  <1>6. /\ q \in Seq(Player) /\ Len(q) <= Len(p)
        /\ K = {} <=> q = << >>
        /\ \A b : b # a /\ (\E i \in DOMAIN p : p[i].account = b)
                  => \E i \in DOMAIN q : q[i].account = b
        /\ (\A i, j \in DOMAIN p : p[i].account = p[j].account => i = j)
           => \A i, j \in DOMAIN q : q[i].account = q[j].account => i = j
    <2>1. /\ K \in SUBSET DOMAIN p /\ h \in InOrder(K)
          /\ \A i \in DOMAIN p : i \in K <=> p[i].account # a
          /\ \A i \in DOMAIN h : q[i] = p[h[i]]
          /\ q \in [DOMAIN h -> Player]
      <3>1. /\ K \in SUBSET DOMAIN p
            /\ \A i \in DOMAIN p : i \in K <=> p[i].account # a
        BY <1>2
      <3>2. \A i \in DOMAIN h : h[i] \in K
        BY DEF InOrder
      <3>3. QED
        BY <1>4, <3>1, <3>2
    <2>2. Left(p, K, a, q)
      BY <2>1, Shrink, Zenon
    <2>3. QED
      BY <2>2 DEF Left
  <1>7. /\ room' \in Seq(Room) /\ Len(room') = Len(room)
        /\ DOMAIN room' = DOMAIN room /\ SameIds
        /\ room'[r].players = q
        /\ room'[r].limit = room[r].limit
        /\ \A k \in DOMAIN room \ {r} : room'[k] = room[k]
    <2>1. room' = [room EXCEPT ![r].players = q]
      BY <1>3, <1>4, Zenon
    <2>2. QED
      BY <1>6, <2>1, NewPlayers DEF RoomInv
  <1>8. rooms' \subseteq rooms /\ \A k \in DOMAIN room \ {r} : k \in rooms' <=> k \in rooms
    BY <1>5
  <1>9. TypeOK'
    <2>1. member' \in [Accounts -> 0 .. Len(room)]
      BY <1>5, RoomFacts DEF RoomInv, TypeOK
    <2>2. crossed' \subseteq DOMAIN room
      BY <1>5 DEF RoomInv, TypeOK
    <2>3. QED
      BY <1>5, <1>7, <1>8, <2>1, <2>2, OneRoomTypes DEF RoomInv, TypeOK
  <1>10. Joins' /\ crossed \subseteq crossed'
    BY <1>5, <1>7, <1>8, CrossedJoins
  <1>11. MemberIsSeated'
    <2>1. ASSUME NEW b \in Accounts, NEW k \in rooms' \ torn',
                 room'[k].id = member'[b], ~Shared(k)'
          PROVE  Seated(b, k)'
      <3>1. b # a /\ member'[b] = member[b]
        <4>1. room'[k].id # 0
          BY <1>7, <1>8, <2>1, RoomFacts DEF RoomInv, SameIds
        <4>2. member'[a] = 0 /\ (b # a => member'[b] = member[b])
          BY <1>5 DEF RoomInv, TypeOK
        <4>3. QED
          BY <2>1, <4>1, <4>2
      <3>2. \A i \in DOMAIN room[r].players : room[r].players[i].account = b =>
               \E j \in DOMAIN room'[r].players : room'[r].players[j].account = b
        <4>1. (\E i \in DOMAIN p : p[i].account = b)
              => \E i \in DOMAIN q : q[i].account = b
          BY <1>6, <3>1, Zenon
        <4>2. QED
          BY <1>1, <1>7, <4>1, Zenon
      <3>3. QED
        BY <1>5, <1>7, <1>8, <2>1, <3>1, <3>2, MembersKept
    <2>2. QED
      BY <2>1, Zenon DEF MemberIsSeated
  <1>12. KeptWhileSeated' /\ SeatsWithinLimit'
    <2>1. ASSUME r \in DOMAIN room \ (torn' \cup crossed') PROVE Sound(r)'
      <3>1. Sound(r)
        BY <1>5, <1>10, <2>1, AllSound DEF RoomInv
      <3>2. \A i, j \in DOMAIN q : q[i].account = q[j].account => i = j
        BY <1>1, <1>6, <3>1, Zenon DEF Sound
      <3>3. \A i, j \in DOMAIN room'[r].players :
              room'[r].players[i].account = room'[r].players[j].account => i = j
        <4>1. ASSUME NEW i \in DOMAIN room'[r].players,
                     NEW j \in DOMAIN room'[r].players,
                     room'[r].players[i].account = room'[r].players[j].account
              PROVE  i = j
          <5>1. i \in DOMAIN q /\ j \in DOMAIN q /\ q[i].account = q[j].account
            BY <1>7, <4>1
          <5>2. QED
            BY <3>2, <5>1
        <4>2. QED
          BY <4>1
      <3>4. Len(room'[r].players) <= room'[r].limit
        <4>1. Len(p) \in Nat /\ Len(q) \in Nat /\ room[r].limit \in Nat
              /\ Len(p) <= room[r].limit
          BY <1>1, <1>6, <3>1, RoomFacts DEF RoomInv, Sound
        <4>2. QED
          BY <1>6, <1>7, <4>1
      <3>5. r \in rooms' <=> room'[r].players # << >>
        BY <1>5, <1>6, <1>7
      <3>6. QED
        BY <3>3, <3>4, <3>5, Zenon DEF Sound
    <2>2. QED
      BY <1>5, <1>7, <1>8, <1>10, <2>1, OneRoom
  <1>13. Numbered' /\ IdsDiffer'
    <2>1. \A b \in Accounts : member'[b] \in {0, member[b]}
      BY <1>5 DEF RoomInv, TypeOK
    <2>2. QED
      BY <1>5, <1>7, <2>1, NumbersKept
  <1>14. QED
    BY <1>9, <1>10, <1>11, <1>12, <1>13 DEF RoomInv

\* A step that leaves the accounts of a room where they sit.
LEMMA SameSeats ==
  ASSUME RoomInv, NEW r \in DOMAIN room,
         room' \in Seq(Room), Len(room') = Len(room), SameIds,
         UNCHANGED <<nextID, creating, overlapped>>,
         \A k \in DOMAIN room \ {r} : room'[k] = room[k],
         Len(room'[r].players) = Len(room[r].players),
         room'[r].limit = room[r].limit,
         \A i \in DOMAIN room[r].players :
            room'[r].players[i].account = room[r].players[i].account,
         rooms' = rooms, member' = member, joining' = joining, torn' = torn,
         crossed \subseteq crossed', crossed' \subseteq DOMAIN room
  PROVE  RoomInv'
  <1>1. TypeOK'
    BY OneRoomTypes DEF RoomInv, TypeOK
  <1>a. /\ DOMAIN room' = DOMAIN room
        /\ \A k \in DOMAIN room : Shared(k)' <=> Shared(k)
    BY SharedKept DEF SameIds
  <1>2. /\ DOMAIN room'[r].players = DOMAIN room[r].players
        /\ room'[r].players # << >> <=> room[r].players # << >>
    <2>1. room'[r] \in Room /\ room[r] \in Room
      BY <1>a DEF RoomInv, TypeOK
    <2>2. PICK p \in Seq(Player) : p = room[r].players
      BY <2>1 DEF Room
    <2>3. PICK q \in Seq(Player) : q = room'[r].players
      BY <2>1 DEF Room
    <2>4. Len(q) = Len(p)
      BY <2>2, <2>3
    <2>5. DOMAIN q = DOMAIN p /\ (q # << >> <=> p # << >>)
      BY <2>4
    <2>6. QED
      BY <2>2, <2>3, <2>5
  <1>3. \A k \in DOMAIN room : \A b :
          (\E i \in DOMAIN room'[k].players : room'[k].players[i].account = b)
          <=> \E i \in DOMAIN room[k].players : room[k].players[i].account = b
    BY <1>2
  <1>4. \A k \in DOMAIN room : \A b :
          (\E p \in Range(room'[k].players) : p.account = b) <=> Seated(b, k)
    BY <1>3 DEF Seated, Range
  <1>5. \A k \in DOMAIN room : /\ Len(room'[k].players) = Len(room[k].players)
                               /\ room'[k].limit = room[k].limit
    OBVIOUS
  <1>6. Joins'
    <2>1. ASSUME NEW c \in Conns, joining[c] # NoJoin
          PROVE  LET k == joining[c].room
                 IN  /\ k \in DOMAIN room'
                     /\ joining[c].account \in Accounts
                     /\ k \notin torn \cup crossed' =>
                          /\ Shared(k)' \/ k \in rooms
                          /\ Len(room'[k].players) < room'[k].limit
                          /\ ~ \E p \in Range(room'[k].players) :
                                  p.account = joining[c].account
                          /\ \A e \in Conns \ {c} : joining[e].room # k
      BY <1>4, <1>5, <1>a, <2>1, Zenon DEF RoomInv, Joins
    <2>2. QED
      BY <2>1, Zenon DEF Joins, Seated
  <1>7. MemberIsSeated'
    <2>1. ASSUME NEW b \in Accounts, NEW k \in rooms' \ torn',
                 room'[k].id = member'[b], ~Shared(k)'
          PROVE  Seated(b, k)'
      <3>1. /\ k \in DOMAIN room /\ k \in rooms \ torn
            /\ room[k].id = member[b] /\ ~Shared(k)
        BY <1>a, <2>1, RoomFacts DEF RoomInv, SameIds
      <3>2. Seated(b, k)
        BY <3>1 DEF RoomInv, MemberIsSeated
      <3>3. QED
        BY <1>4, <3>1, <3>2 DEF Seated
    <2>2. QED
      BY <2>1, Zenon DEF MemberIsSeated
  <1>8. KeptWhileSeated' /\ SeatsWithinLimit'
    <2>1. ASSUME r \in DOMAIN room \ (torn' \cup crossed') PROVE Sound(r)'
      <3>1. Sound(r)
        BY <2>1, AllSound DEF RoomInv
      <3>2. \A i, j \in DOMAIN room'[r].players :
              room'[r].players[i].account = room'[r].players[j].account => i = j
        BY <1>2, <3>1 DEF Sound
      <3>3. Len(room'[r].players) <= room'[r].limit
        BY <3>1 DEF Sound
      <3>4. (r \in rooms' <=> room'[r].players # << >>) \/ Shared(r)'
        BY <1>2, <1>a, <3>1 DEF Sound
      <3>5. QED
        BY <3>2, <3>3, <3>4, Zenon DEF Sound
    <2>2. QED
      BY <2>1, OneRoom
  <1>9. Numbered' /\ IdsDiffer'
    BY NumbersKept
  <1>10. QED
    BY <1>1, <1>6, <1>7, <1>8, <1>9 DEF RoomInv

LEMMA SetReadyKeeps ==
  ASSUME RoomInv, NEW a \in Accounts, NEW ready \in BOOLEAN, SetReady(a, ready)
  PROVE  RoomInv'
  <1>1. PICK r \in DOMAIN room :
          /\ \E i \in DOMAIN room[r].players :
               room' = [room EXCEPT ![r].players[i].ready = ready]
          /\ UNCHANGED <<rooms, member, nextID, creating, joining, torn, crossed,
                         overlapped>>
    BY RoomFacts DEF RoomInv, SetReady
  <1>2. PICK p \in Seq(Player) : p = room[r].players
    BY RoomFacts DEF RoomInv
  <1>3. PICK i \in DOMAIN p : room' = [room EXCEPT ![r].players[i].ready = ready]
    BY <1>1, <1>2
  <1>4. PICK x : x = [p[i] EXCEPT !.ready = ready]
    OBVIOUS
  <1>5. p[i] \in Player
    BY <1>2
  <1>6. x \in Player /\ x.account = p[i].account
    BY <1>4, <1>5 DEF Player
  <1>7. PICK q : q = [p EXCEPT ![i] = x]
    OBVIOUS
  <1>8. /\ q \in Seq(Player) /\ Len(q) = Len(p)
        /\ \A j \in DOMAIN p : q[j].account = p[j].account
    <2>1. /\ q \in Seq(Player) /\ Len(q) = Len(p)
          /\ q[i] = x /\ \A j \in DOMAIN p \ {i} : q[j] = p[j]
      BY <1>6, <1>7, ExceptSeq
    <2>2. QED
      BY <1>6, <2>1
  <1>9. room' = [room EXCEPT ![r].players = q]
    BY <1>2, <1>3, <1>4, <1>7
  <1>10. /\ room' \in Seq(Room) /\ Len(room') = Len(room)
         /\ DOMAIN room' = DOMAIN room /\ SameIds
         /\ room'[r].players = q
         /\ room'[r].limit = room[r].limit
         /\ \A k \in DOMAIN room \ {r} : room'[k] = room[k]
    BY <1>8, <1>9, NewPlayers DEF RoomInv
  <1>11. /\ Len(room'[r].players) = Len(room[r].players)
         /\ \A j \in DOMAIN room[r].players :
              room'[r].players[j].account = room[r].players[j].account
    BY <1>2, <1>8, <1>10
  <1>12. QED
    BY <1>1, <1>10, <1>11, SameSeats DEF RoomInv, TypeOK

LEMMA StartKeeps ==
  ASSUME RoomInv, NEW r \in DOMAIN room, Start(r)
  PROVE  RoomInv'
  <1>1. /\ room' = [room EXCEPT ![r].started = TRUE]
        /\ UNCHANGED <<rooms, member, nextID, creating, joining, torn, overlapped>>
        /\ crossed' = IF Joining(r) THEN crossed \cup {r} ELSE crossed
    BY DEF Start, Cross
  <1>2. room \in Seq(Room) /\ room[r] \in Room
    BY RoomFacts DEF RoomInv, TypeOK
  <1>3. PICK x : x = [room[r] EXCEPT !.started = TRUE]
    OBVIOUS
  <1>4. /\ x \in Room /\ x.players = room[r].players
        /\ x.limit = room[r].limit /\ x.id = room[r].id
    BY <1>2, <1>3 DEF Room
  <1>5. room' = [room EXCEPT ![r] = x]
    BY <1>1, <1>3
  <1>6. /\ room' \in Seq(Room) /\ Len(room') = Len(room)
        /\ DOMAIN room' = DOMAIN room
        /\ room'[r] = x
        /\ \A k \in DOMAIN room \ {r} : room'[k] = room[k]
    BY <1>2, <1>4, <1>5, ExceptSeq
  <1>7. room'[r].players = room[r].players /\ room'[r].limit = room[r].limit
    BY <1>4, <1>6
  <1>i. SameIds
    BY <1>4, <1>6 DEF SameIds
  <1>8. crossed \subseteq crossed' /\ crossed' \subseteq DOMAIN room
    BY <1>1 DEF RoomInv, TypeOK
  <1>9. QED
    BY <1>1, <1>6, <1>7, <1>8, <1>i, SameSeats

\* What two handlers leave when they race is some players; nothing more is
\* said of the room.
LEMMA RaceKeeps ==
  ASSUME RoomInv, NEW r \in DOMAIN room, Race(r)
  PROVE  RoomInv'
  <1>1. PICK p \in Seq(Player) : p = room[r].players
    BY RoomFacts DEF RoomInv
  <1>2. PICK q \in Spoiled(p) : room' = [room EXCEPT ![r].players = q]
    BY <1>1 DEF Race
  <1>3. /\ UNCHANGED <<rooms, member, nextID, creating, joining, crossed, overlapped>>
        /\ torn' = torn \cup {r}
        /\ p # << >>
    BY <1>1 DEF Race
  <1>4. q \in Seq(Player)
    <2>1. Len(p) \in Nat /\ DOMAIN p = 1 .. Len(p) /\ Len(p) # 0
          /\ \A i \in 1 .. Len(p) : p[i] \in Player
      BY <1>3
    <2>2. CASE q = Append(p, Last(p))
      <3>1. Last(p) \in Player
        BY <2>1 DEF Last
      <3>2. QED
        BY <2>2, <3>1
    <2>3. CASE \E i \in DOMAIN p : q = RemoveAt(p, i)
      <3>1. PICK i \in 1 .. Len(p) :
              q = SubSeq(p, 1, i - 1) \o SubSeq(p, i + 1, Len(p))
        BY <2>1, <2>3, Zenon DEF RemoveAt
      <3>2. /\ i - 1 \in Int /\ i + 1 \in Int /\ Len(p) \in Int
            /\ \A j \in 1 .. i - 1 : p[j] \in Player
            /\ \A j \in i + 1 .. Len(p) : p[j] \in Player
        BY <2>1
      <3>3. /\ SubSeq(p, 1, i - 1) \in Seq(Player)
            /\ SubSeq(p, i + 1, Len(p)) \in Seq(Player)
        BY <3>2, SubSeqProperties
      <3>4. QED
        BY <3>1, <3>3, ConcatProperties
    <2>4. QED
      BY <1>2, <2>2, <2>3 DEF Spoiled
  <1>5. /\ room' \in Seq(Room) /\ Len(room') = Len(room)
        /\ DOMAIN room' = DOMAIN room /\ SameIds
        /\ \A k \in DOMAIN room \ {r} : room'[k] = room[k]
    BY <1>2, <1>4, NewPlayers DEF RoomInv
  <1>6. TypeOK'
    <2>1. torn' \subseteq DOMAIN room
      BY <1>3 DEF RoomInv, TypeOK
    <2>2. QED
      BY <1>3, <1>5, <2>1, OneRoomTypes DEF RoomInv, TypeOK
  <1>a. \A k \in DOMAIN room : Shared(k)' <=> Shared(k)
    BY <1>5, SharedKept
  <1>7. Joins'
    <2>1. ASSUME NEW c \in Conns, joining[c] # NoJoin
          PROVE  LET k == joining[c].room
                 IN  /\ k \in DOMAIN room'
                     /\ joining[c].account \in Accounts
                     /\ k \notin torn' \cup crossed =>
                          /\ Shared(k)' \/ k \in rooms
                          /\ Len(room'[k].players) < room'[k].limit
                          /\ ~ \E s \in Range(room'[k].players) :
                                  s.account = joining[c].account
                          /\ \A e \in Conns \ {c} : joining[e].room # k
      <3>1. PICK k \in DOMAIN room : k = joining[c].room
        BY <2>1 DEF RoomInv, Joins
      <3>2. CASE k = r
        BY <1>3, <1>5, <2>1, <3>1, <3>2 DEF RoomInv, Joins
      <3>3. CASE k # r
        <4>1. room'[k] = room[k]
          BY <1>5, <3>3
        <4>2. QED
          BY <1>3, <1>5, <1>a, <2>1, <3>1, <4>1 DEF RoomInv, Joins, Seated
      <3>4. QED
        BY <3>2, <3>3
    <2>2. QED
      BY <1>3, <2>1, Zenon DEF Joins, Seated
  <1>8. MemberIsSeated'
    <2>1. ASSUME NEW b \in Accounts, NEW k \in rooms' \ torn',
                 room'[k].id = member'[b], ~Shared(k)'
          PROVE  Seated(b, k)'
      <3>1. /\ k \in rooms \ torn /\ k # r /\ k \in DOMAIN room
        BY <1>3, <2>1, RoomFacts DEF RoomInv
      <3>2. room'[k] = room[k] /\ ~Shared(k)
        BY <1>5, <1>a, <2>1, <3>1
      <3>3. Seated(b, k)
        BY <1>3, <2>1, <3>1, <3>2 DEF RoomInv, MemberIsSeated
      <3>4. QED
        BY <3>2, <3>3 DEF Seated
    <2>2. QED
      BY <2>1, Zenon DEF MemberIsSeated
  <1>9. KeptWhileSeated' /\ SeatsWithinLimit'
    BY <1>3, <1>5, OneRoom
  <1>10. Numbered' /\ IdsDiffer'
    BY <1>3, <1>5, NumbersKept
  <1>11. QED
    BY <1>6, <1>7, <1>8, <1>9, <1>10 DEF RoomInv

LEMMA RestartKeeps == Restart => RoomInv'
  <1>1. Restart => Init'
    BY DEF Restart, Init
  <1>2. QED
    BY <1>1, InitRoom, PTL

LEMMA NextRoom == RoomInv /\ [Next]_vars => RoomInv'
  <1> SUFFICES ASSUME RoomInv, [Next]_vars PROVE RoomInv'
    OBVIOUS
  <1>1. ASSUME NEW c \in Conns, NEW a \in Accounts, Create(c, a)
        PROVE  RoomInv'
    BY <1>1, CreateKeeps
  <1>p. ASSUME NEW c \in Conns, NEW limit \in Limits, PutRoom(c, limit)
        PROVE  RoomInv'
    BY <1>p, PutRoomKeeps
  <1>2. ASSUME NEW a \in Accounts, NEW r \in DOMAIN room, NEW c \in Conns,
               Join(c, a, r)
        PROVE  RoomInv'
    BY <1>2, JoinKeeps
  <1>3. ASSUME NEW a \in Accounts, NEW r \in DOMAIN room, Leave(a, r)
        PROVE  RoomInv'
    BY <1>3, LeaveKeeps
  <1>4. ASSUME NEW c \in Conns, TakeSeat(c) PROVE RoomInv'
    BY <1>4, TakeSeatKeeps
  <1>5. ASSUME NEW a \in Accounts, NEW ready \in BOOLEAN, SetReady(a, ready)
        PROVE  RoomInv'
    BY <1>5, SetReadyKeeps
  <1>6. ASSUME NEW r \in DOMAIN room, AddRobot(r) PROVE RoomInv'
    BY <1>6, AddRobotKeeps
  <1>7. ASSUME NEW r \in DOMAIN room, Start(r) PROVE RoomInv'
    BY <1>7, StartKeeps
  <1>8. ASSUME NEW r \in DOMAIN room, Race(r) PROVE RoomInv'
    BY <1>8, RaceKeeps
  <1>9. ASSUME Restart PROVE RoomInv'
    BY <1>9, RestartKeeps
  <1>10. ASSUME UNCHANGED vars PROVE RoomInv'
    BY <1>10 DEF vars, RoomInv, TypeOK, Joins, Numbered, IdsDiffer, Shared,
       Seated, MemberIsSeated, KeptWhileSeated, SeatsWithinLimit
  <1>11. QED
    BY <1>1, <1>p, <1>2, <1>3, <1>4, <1>5, <1>6, <1>7, <1>8, <1>9, <1>10, Zenon DEF Next

LEMMA RoomAlways == Spec => []RoomInv
  BY InitRoom, NextRoom, PTL DEF Spec

-----------------------------------------------------------------------------
(* The theorems. *)

\* The table and the joins under way never name a room that was not created
\* (service.go), nor does s.member.
THEOREM TypeCorrect == Spec => []TypeOK
  <1>1. RoomInv => TypeOK
    BY DEF RoomInv
  <1>2. QED
    BY <1>1, RoomAlways, PTL

\* However many rooms come and go on however many connections, two rooms have
\* one id (service.go:80, :88) only once two Creates have met.
THEOREM SharedOnlyByOverlap == Spec => []IdsDiffer
  <1>1. RoomInv => IdsDiffer
    BY DEF RoomInv
  <1>2. QED
    BY <1>1, RoomAlways, PTL

\* For any number of rooms and connections, a member of a room of the table
\* sits in it, whichever joins and rooms are half made, unless the room has
\* taken the place of another with its id.
THEOREM MembersAreSeated == Spec => []MemberIsSeated
  <1>1. RoomInv => MemberIsSeated
    BY DEF RoomInv
  <1>2. QED
    BY <1>1, RoomAlways, PTL

\* A room leaves the table when its last player does, and never before, but
\* for the rooms changed during a join, those two handlers changed at once,
\* and those whose id was given twice.
THEOREM KeptIffSeated == Spec => []KeptWhileSeated
  <1>1. RoomInv => KeptWhileSeated
    BY DEF RoomInv
  <1>2. QED
    BY <1>1, RoomAlways, PTL

\* No room hit by neither kind of race holds more players than it may, or one
\* twice, however many accounts and robots there are, whatever its id.
THEOREM LimitsKept == Spec => []SeatsWithinLimit
  <1>1. RoomInv => SeatsWithinLimit
    BY DEF RoomInv
  <1>2. QED
    BY <1>1, RoomAlways, PTL
=============================================================================
