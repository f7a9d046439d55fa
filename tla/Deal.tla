---------------------------------- MODULE Deal ----------------------------------
(***************************************************************************)
(* The walls of package deal: a shuffled deck cut into hands, the dealer's *)
(* extra tile, the draws and the dead wall, and the presets of the GM      *)
(* console that pin parts of it.  A preset is read when the wall is built, *)
(* with the store's lock; the console may replace it before and after.     *)
(*                                                                         *)
(* A tile is its kind: three players have fewer kinds.  Sizes are          *)
(* parameters: in the code 13 tiles a hand, 14 in the dead wall, 4 of a    *)
(* kind.                                                                   *)
(***************************************************************************)
EXTENDS Integers, SequencesExt

CONSTANTS Kinds, Copies, NumPlayers, HandSize, DeadWallSize,
          Presets,   \* what the console may register
          MaxId      \* bound: ids are preset-1 to preset-MaxId, and 0 any other

Ids == 0 .. MaxId
Seats == 1 .. NumPlayers
Blank == "blank"   \* the empty string

Dealt == NumPlayers * HandSize + 1
DeckSize == Copies * Cardinality(Kinds)

\* What the theorems assume of the constants.
DealAssumption ==
  /\ IsFiniteSet(Kinds) /\ Blank \notin Kinds
  /\ Copies \in Nat /\ NumPlayers \in Nat /\ HandSize \in Nat
  /\ DeadWallSize \in Nat /\ MaxId \in Nat
  /\ Dealt + DeadWallSize <= DeckSize
  /\ DeadWallSize <= 14
  /\ Presets \subseteq [hands : [Seats -> Seq(Kinds)], extra : Kinds \cup {Blank},
                        prefix : Seq(Kinds), dora : Seq(Kinds)]

VARIABLES store,   \* the presets registered, by id
          wall,    \* the wall built for the round about to start
          pins     \* history: the preset it was built from

vars == <<store, wall, pins>>

NoWall == [hands |-> << >>, extra |-> Blank, wall |-> << >>, dead |-> << >>]
NoPins == [hands |-> [s \in Seats |-> << >>], extra |-> Blank,
           prefix |-> << >>, dora |-> << >>]

Copied(seq, k) == Cardinality({i \in DOMAIN seq : seq[i] = k})

Init == store = << >> /\ wall = NoWall /\ pins = NoPins

-----------------------------------------------------------------------------
(* A random wall. *)

\* What buildDeck and the shuffle may return.
Decks == {d \in [1 .. DeckSize -> Kinds] : \A k \in Kinds : Copied(d, k) = Copies}

\* The deck is cut: hands, the extra tile, the draws, the dead wall.
Cut(deck) ==
  LET drawCount == DeckSize - DeadWallSize
  IN  [hands |-> [s \in Seats |-> SubSeq(deck, (s - 1) * HandSize + 1, s * HandSize)],
       extra |-> deck[Dealt],
       wall |-> SubSeq(deck, Dealt + 1, drawCount),
       dead |-> SubSeq(deck, drawCount + 1, DeckSize)]

-----------------------------------------------------------------------------
(* A preset wall. *)

\* Where the i-th indicator lies in the dead wall.
Slot(i) == 2 * i + 3

\* DoraIndicatorAt, in order, of all the indicators the dead wall has.
Shown(dead) ==
  [i \in 1 .. Cardinality({n \in 1 .. 5 : Slot(n) <= Len(dead)}) |-> dead[Slot(i)]]

\* The dead wall around the indicators: those it has room for are laid in their
\* slots and shuffled among these, and the rest is the base's.
DeadWalls(dora, base) ==
  LET held == {i \in DOMAIN dora : Slot(i) <= Len(base)}
  IN  {[j \in DOMAIN base |-> IF \E i \in held : Slot(i) = j
                                THEN dora[order[CHOOSE i \in held : Slot(i) = j]]
                                ELSE base[j]] :
         order \in {f \in [held -> held] : IsInjective(f)}}

\* What the preset pins, and the base's for the rest.
Laid(p, base, dead) ==
  [hands |-> [s \in Seats |-> IF p.hands[s] = << >> THEN base.hands[s] ELSE p.hands[s]],
   extra |-> IF p.extra = Blank THEN base.extra ELSE p.extra,
   wall  |-> p.prefix \o SubSeq(base.wall, Len(p.prefix) + 1, Len(base.wall)),
   dead  |-> dead]

\* A round is about to start with the factory of an id.  A preset that is
\* missing is a random wall; one with more draws than there are panics.
BuildWall(id) ==
  /\ wall = NoWall
  /\ UNCHANGED store
  /\ \E deck \in Decks :
       LET base == Cut(deck)
       IN  \/ /\ id \notin DOMAIN store
              /\ wall' = base
              /\ pins' = NoPins
           \/ /\ id \in DOMAIN store
              /\ Len(store[id].prefix) <= Len(base.wall)
              /\ \E dead \in DeadWalls(store[id].dora, base.dead) :
                   wall' = Laid(store[id], base, dead)
              /\ pins' = store[id]

\* The round takes the wall.
NewRound == wall # NoWall /\ wall' = NoWall /\ pins' = NoPins /\ UNCHANGED store

-----------------------------------------------------------------------------
(* The console. *)

\* A preset without an id is numbered by the presets there are, which may
\* replace one after a Delete.
Upsert(p, id) ==
  /\ store' = [i \in DOMAIN store \cup {id} |-> IF i = id THEN p ELSE store[i]]
  /\ UNCHANGED <<wall, pins>>

Unnamed(p) ==
  LET n == Cardinality(DOMAIN store) + 1 IN n <= MaxId /\ Upsert(p, n)

Delete(id) ==
  /\ store' = [i \in DOMAIN store \ {id} |-> store[i]]
  /\ UNCHANGED <<wall, pins>>

Next ==
  \/ \E id \in Ids : BuildWall(id) \/ Delete(id)
  \/ NewRound
  \/ \E p \in Presets : Unnamed(p) \/ \E id \in Ids : Upsert(p, id)

Spec == Init /\ [][Next]_vars

-----------------------------------------------------------------------------
(* Properties. *)

\* The tiles of a wall, or those a preset pins, row by row.
Rows(hands, extra, draws, dead) == hands \o <<<<extra>>, draws, dead>>

\* Where the tiles of kind k lie in them.
Places(rows, k) ==
  UNION {{r} \X {i \in DOMAIN rows[r] : rows[r][i] = k} : r \in DOMAIN rows}

\* How illegal a preset's wall may be, since it is filled from a whole deck and
\* not from a remainder: it has as many tiles too many as the preset pins, and
\* no others.  What is not pinned holds no tile twice.
ExtraCopiesArePinned ==
  wall # NoWall =>
    \A k \in Kinds :
      Cardinality(Places(Rows(wall.hands, wall.extra, wall.wall, wall.dead), k)) <=
        Copies +
        Cardinality(Places(Rows(pins.hands, pins.extra, pins.prefix, pins.dora), k))

\* However it is pinned, a wall has the draws and the dead wall of a random
\* one, and the indicators it prescribes are those the round shows first, in an
\* order of the shuffle's choosing.
PinsHold ==
  wall # NoWall =>
    /\ Len(wall.wall) = DeckSize - DeadWallSize - Dealt
    /\ Len(wall.dead) = DeadWallSize
    /\ LET shown == Shown(wall.dead)
           n == IF Len(shown) <= Len(pins.dora) THEN Len(shown) ELSE Len(pins.dora)
       IN  \A k \in Kinds : Copied(SubSeq(shown, 1, n), k) =
                             Copied(SubSeq(pins.dora, 1, n), k)
=============================================================================
