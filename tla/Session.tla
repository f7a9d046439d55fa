------------------------------- MODULE Session -------------------------------
(***************************************************************************)
(* The game surface of a connection: the read loop of the transport        *)
(* (transport/server.go), which runs one handler at a time, the handlers   *)
(* of the game (game/handlers.go, game/round.go), the session each         *)
(* connection has authenticated, and the goroutines that drive the rounds. *)
(* The rounds themselves are those of Drive, as far as Lifecycle shows     *)
(* them: here a drive asks for turns, takes what the read loop delivered   *)
(* through a channel of one slot (game/drive.go), and ends.                *)
(*                                                                         *)
(* A client says anything at any time; an inputOperation is the number it  *)
(* has on its connection.  The two maps shared between goroutines without  *)
(* a lock, handlers.sessions and drive.humans, are written in two steps: a *)
(* goroutine that comes between them may kill the process.                 *)
(***************************************************************************)
EXTENDS Integers, SequencesExt

CONSTANTS Conns,        \* connections
          Games,        \* game uuids a client may name
          MaxSessions,  \* bound: authGame calls
          MaxInputs,    \* bound: inputOperations of a connection
          MaxTurns      \* turns a round may give its human seat

ASSUME SessionAssumption == /\ MaxSessions \in Nat
                            /\ MaxInputs \in Nat
                            /\ MaxTurns \in Nat \ {0}

VARIABLES up,        \* the process runs
          link,      \* the socket of a connection, as its writers find it
          loop,      \* what the read loop of a connection does
          sending,   \* the input a read loop is blocked on, and its drive
          sessions,  \* h.sessions: 0, or an index into session
          session,   \* the sessions authenticated so far
          drives,    \* the drives created so far
          inputs     \* how many inputOperations a connection has read

vars == <<up, link, loop, sending, sessions, session, drives, inputs>>

Session == [conn : Conns, game : Games, drv : Nat]

Idle == [drv |-> 0, input |-> 0]

\* A drive is dealt when startRound has built it, registering while HumanIn
\* adds the channel of the human seat.
Stages == {"dealt", "playing", "registering", "asking", "settled", "recorded",
           "done", "lost"}

Drv == [owner : Nat, stage : Stages, turns : Nat, registered : BOOLEAN,
        delivered : Seq(Nat), box : Seq(Nat), taken : Seq(Nat),
        saved : BOOLEAN, credited : BOOLEAN]

TypeOK ==
  /\ up \in BOOLEAN
  /\ link \in [Conns -> {"open", "gone", "broken"}]
  /\ loop \in [Conns -> {"idle", "storing", "starting", "sending", "exited"}]
  /\ sending \in [Conns -> [drv : 0 .. Len(drives), input : Nat]]
  /\ sessions \in [Conns -> 0 .. Len(session)]
  /\ session \in Seq(Session)
  /\ \A k \in DOMAIN session : session[k].drv \in 0 .. Len(drives)
  /\ drives \in Seq(Drv)
  /\ \A d \in DOMAIN drives : /\ drives[d].owner \in DOMAIN session
                              /\ Len(drives[d].box) <= 1
  /\ inputs \in [Conns -> 0 .. MaxInputs]

Init ==
  /\ up = TRUE
  /\ link = [c \in Conns |-> "open"]
  /\ loop = [c \in Conns |-> "idle"]
  /\ sending = [c \in Conns |-> Idle]
  /\ sessions = [c \in Conns |-> 0]
  /\ session = << >>
  /\ drives = << >>
  /\ inputs = [c \in Conns |-> 0]

ConnOf(d) == session[drives[d].owner].conn

Over(d) == drives[d].stage \in {"done", "lost"}

-----------------------------------------------------------------------------
(* The handlers.  A response that cannot be written changes nothing.       *)

\* authGame makes a new session, whatever the connection had before.
AuthGame(c, g) ==
  /\ loop[c] = "idle"
  /\ Len(session) < MaxSessions
  /\ session' = Append(session, [conn |-> c, game |-> g, drv |-> 0])
  /\ loop' = [loop EXCEPT ![c] = "storing"]
  /\ UNCHANGED <<link, sending, sessions, drives, inputs>>

\* The write of h.sessions.
StoreSession(c) ==
  /\ loop[c] = "storing"
  /\ sessions' = [sessions EXCEPT ![c] = Max({k \in DOMAIN session :
                                                session[k].conn = c})]
  /\ loop' = [loop EXCEPT ![c] = "idle"]
  /\ UNCHANGED <<link, sending, session, drives, inputs>>

NewDrive(k) ==
  [owner |-> k, stage |-> "dealt", turns |-> 0, registered |-> FALSE,
   delivered |-> << >>, box |-> << >>, taken |-> << >>,
   saved |-> FALSE, credited |-> FALSE]

\* Mutant: a round is started although the session has one.
EnterGameAgain(c) ==
  /\ loop[c] = "idle"
  /\ link[c] # "broken"
  /\ sessions[c] # 0
  /\ Len(drives) < MaxSessions + 1
  /\ drives' = Append(drives, NewDrive(sessions[c]))
  /\ session' = [session EXCEPT ![sessions[c]].drv = Len(drives')]
  /\ loop' = [loop EXCEPT ![c] = "starting"]
  /\ UNCHANGED <<link, sending, sessions, inputs>>

\* enterGame, where it starts a round: the response was written, and the
\* session exists and has none.
EnterGame(c) ==
  /\ loop[c] = "idle"
  /\ link[c] # "broken"
  /\ sessions[c] # 0
  /\ session[sessions[c]].drv = 0
  /\ drives' = Append(drives, NewDrive(sessions[c]))
  /\ session' = [session EXCEPT ![sessions[c]].drv = Len(drives')]
  /\ loop' = [loop EXCEPT ![c] = "starting"]
  /\ UNCHANGED <<link, sending, sessions, inputs>>

\* startRound pushes NewRound; the goroutine is started only if it could.
StartRound(c) ==
  /\ loop[c] = "starting"
  /\ drives' = [drives EXCEPT ![session[sessions[c]].drv].stage =
                  IF link[c] = "broken" THEN "lost" ELSE "playing"]
  /\ loop' = [loop EXCEPT ![c] = "idle"]
  /\ UNCHANGED <<link, sending, sessions, session, inputs>>

\* Mutant: a delivery to a full channel gives up.
DeliverOrGiveUp(c, d) ==
  /\ drives[d].registered
  /\ drives' = [drives EXCEPT ![d].box = IF @ = << >> THEN <<inputs[c] + 1>> ELSE @,
                              ![d].delivered = Append(@, inputs[c] + 1)]
  /\ UNCHANGED <<loop, sending>>

\* inputOperation reads h.sessions and calls Deliver: the drive has no channel
\* for the seat yet, or the channel has room, or the read loop blocks.
Deliver(c, d) ==
  LET i == inputs[c] + 1
  IN  \/ /\ ~drives[d].registered
         /\ UNCHANGED <<drives, loop, sending>>
      \/ /\ drives[d].registered
         /\ drives[d].box = << >>
         /\ drives' = [drives EXCEPT ![d].box = <<i>>,
                                     ![d].delivered = Append(@, i)]
         /\ UNCHANGED <<loop, sending>>
      \/ /\ drives[d].registered
         /\ drives[d].box # << >>
         /\ drives' = [drives EXCEPT ![d].delivered = Append(@, i)]
         /\ loop' = [loop EXCEPT ![c] = "sending"]
         /\ sending' = [sending EXCEPT ![c] = [drv |-> d, input |-> i]]

\* Mutant: the drive the connection first found is kept.
InputToFirst(c) ==
  /\ loop[c] = "idle"
  /\ inputs[c] < MaxInputs
  /\ inputs' = [inputs EXCEPT ![c] = @ + 1]
  /\ \E d \in DOMAIN drives : ConnOf(d) = c /\ Deliver(c, d)
  /\ UNCHANGED <<link, sessions, session>>

InputOperation(c) ==
  /\ loop[c] = "idle"
  /\ inputs[c] < MaxInputs
  /\ inputs' = [inputs EXCEPT ![c] = @ + 1]
  /\ sessions[c] # 0
  /\ session[sessions[c]].drv # 0
  /\ Deliver(c, session[sessions[c]].drv)
  /\ UNCHANGED <<link, sessions, session>>

\* Mutant: the channel takes what it is given.
UnblockUnbounded(c) ==
  LET d == sending[c].drv
  IN  /\ loop[c] = "sending"
      /\ drives' = [drives EXCEPT ![d].box = Append(@, sending[c].input)]
      /\ loop' = [loop EXCEPT ![c] = "idle"]
      /\ sending' = [sending EXCEPT ![c] = Idle]
      /\ UNCHANGED <<link, sessions, session, inputs>>

\* The channel has room again: the handler goes on and answers.
Unblock(c) ==
  LET d == sending[c].drv
  IN  /\ loop[c] = "sending"
      /\ drives[d].box = << >>
      /\ drives' = [drives EXCEPT ![d].box = <<sending[c].input>>]
      /\ loop' = [loop EXCEPT ![c] = "idle"]
      /\ sending' = [sending EXCEPT ![c] = Idle]
      /\ UNCHANGED <<link, sessions, session, inputs>>

-----------------------------------------------------------------------------
(* The connection.                                                         *)

\* The client leaves, or its pongs go unread for too long.
Leave(c) ==
  /\ link[c] = "open"
  /\ link' = [link EXCEPT ![c] = "gone"]
  /\ UNCHANGED <<loop, sending, sessions, session, drives, inputs>>

\* A write fails, a ping if nothing else is written; so do all the later ones.
Break(c) ==
  /\ link[c] = "gone"
  /\ link' = [link EXCEPT ![c] = "broken"]
  /\ UNCHANGED <<loop, sending, sessions, session, drives, inputs>>

\* ReadMessage fails, which a blocked read loop has yet to find out; serve
\* closes the socket.  The session stays in h.sessions.
ExitLoop(c) ==
  /\ link[c] # "open"
  /\ loop[c] = "idle"
  /\ loop' = [loop EXCEPT ![c] = "exited"]
  /\ link' = [link EXCEPT ![c] = "broken"]
  /\ UNCHANGED <<sending, sessions, session, drives, inputs>>

-----------------------------------------------------------------------------
(* The goroutine of a drive.                                               *)

loopVars == <<link, loop, sending, sessions, session, inputs>>

Goes(d, from, to) ==
  /\ drives[d].stage = from
  /\ drives' = [drives EXCEPT ![d].stage = to]
  /\ UNCHANGED loopVars

\* Mutant: HumanIn makes a channel every time.
AskAnew(d) ==
  /\ drives[d].stage = "playing"
  /\ drives[d].turns < MaxTurns
  /\ link[ConnOf(d)] # "broken" \/ drives[d].turns = 0
  /\ drives' = [drives EXCEPT ![d].stage = "registering",
                              ![d].box = << >>,
                              ![d].turns = @ + 1]
  /\ UNCHANGED loopVars

\* decidePlay of the human seat, which as the dealer is asked first and before
\* anything but NewRound is pushed.  HumanIn makes its channel the first time.
Ask(d) ==
  /\ drives[d].stage = "playing"
  /\ drives[d].turns < MaxTurns
  /\ link[ConnOf(d)] # "broken" \/ drives[d].turns = 0
  /\ drives' = [drives EXCEPT ![d].stage = IF drives[d].registered THEN "asking"
                                                            ELSE "registering",
                              ![d].turns = @ + 1]
  /\ UNCHANGED loopVars

Register(d) ==
  /\ drives[d].stage = "registering"
  /\ drives' = [drives EXCEPT ![d].stage = "asking", ![d].registered = TRUE]
  /\ UNCHANGED loopVars

\* The receive from the channel; its context is never cancelled.
TakeInput(d) ==
  /\ drives[d].stage = "asking"
  /\ drives[d].box # << >>
  /\ drives' = [drives EXCEPT ![d].stage = "playing",
                              ![d].box = << >>,
                              ![d].taken = @ \o drives[d].box]
  /\ UNCHANGED loopVars

\* The last push, of a win or of the exhausted wall, was written.
Settle(d) == /\ drives[d].turns > 0
             /\ link[ConnOf(d)] # "broken"
             /\ Goes(d, "playing", "settled")

\* A push fails, or the discard a client asked for is refused.
FailRound(d) == drives[d].turns > 0 /\ Goes(d, "playing", "lost")

SaveRecord(d) ==
  /\ drives[d].stage = "settled"
  /\ drives' = [drives EXCEPT ![d].stage = "recorded", ![d].saved = TRUE]
  /\ UNCHANGED loopVars

\* Mutant: the achievement does not wait for the record.
CreditSettled(d) ==
  /\ drives[d].stage = "settled"
  /\ drives' = [drives EXCEPT ![d].stage = "done", ![d].credited = TRUE]
  /\ UNCHANGED loopVars

CreditRound(d) ==
  /\ drives[d].stage = "recorded"
  /\ drives' = [drives EXCEPT ![d].stage = "done", ![d].credited = TRUE]
  /\ UNCHANGED loopVars

\* The paipu store or the achievement hook returns an error.
FailArchive(d) == Goes(d, "settled", "lost") \/ Goes(d, "recorded", "lost")

-----------------------------------------------------------------------------
(* The process dies: a map found while another goroutine writes it, or a   *)
(* panic in a drive.                                                       *)

Die == up' = FALSE /\ UNCHANGED <<link, loop, sending, sessions, session,
                                  drives, inputs>>

SessionsRace ==
  /\ \E c, e \in Conns : /\ loop[c] = "storing"
                         /\ e # c
                         /\ loop[e] = "idle" \/ loop[e] = "storing"
  /\ Die

HumansRace ==
  /\ \E c \in Conns : /\ loop[c] = "idle"
                      /\ sessions[c] # 0
                      /\ session[sessions[c]].drv # 0
                      /\ drives[session[sessions[c]].drv].stage = "registering"
  /\ Die

PanicInDrive ==
  /\ \E d \in DOMAIN drives : drives[d].stage = "playing" /\ drives[d].turns > 0
  /\ Die

-----------------------------------------------------------------------------
LoopStep(c) == StoreSession(c) \/ StartRound(c) \/ Unblock(c)

DriveStep(d) == \/ Ask(d) \/ Register(d) \/ TakeInput(d)
                \/ Settle(d) \/ FailRound(d)
                \/ SaveRecord(d) \/ CreditRound(d) \/ FailArchive(d)

Running ==
  \/ \E c \in Conns : \/ \E g \in Games : AuthGame(c, g)
                      \/ EnterGame(c)
                      \/ InputOperation(c)
                      \/ LoopStep(c)
                      \/ Leave(c)
                      \/ Break(c)
                      \/ ExitLoop(c)
  \/ \E d \in DOMAIN drives : DriveStep(d)

Next == up /\ \/ Running /\ UNCHANGED up
              \/ SessionsRace
              \/ HumansRace
              \/ PanicInDrive

Spec == Init /\ [][Next]_vars

\* The numbers a drive may have.
Drives == 1 .. MaxSessions

\* The goroutines are scheduled; nothing makes a client speak or leave.
Fairness ==
  /\ \A c \in Conns : WF_vars(up /\ LoopStep(c) /\ UNCHANGED up)
  /\ \A d \in Drives :
       WF_vars(up /\ d \in DOMAIN drives /\ DriveStep(d) /\ UNCHANGED up)

FairSpec == Spec /\ Fairness

-----------------------------------------------------------------------------
(* Properties.                                                             *)

\* A session has at most one round: two enterGames, even across a push that
\* fails, never start two goroutines that take the same client's inputs.
OneDrivePerSession ==
  \A d, e \in DOMAIN drives : drives[d].owner = drives[e].owner => d = e

Blocked(d) == {c \in Conns : loop[c] = "sending" /\ sending[c].drv = d}

\* What Deliver accepted for a drive reaches it once and in the order read,
\* whether it went through the channel's slot or through a blocked handler.
InputsInOrder ==
  \A d \in DOMAIN drives :
    drives[d].delivered
      = drives[d].taken \o drives[d].box
          \o (IF Blocked(d) = {} THEN << >>
              ELSE <<sending[CHOOSE c \in Blocked(d) : TRUE].input>>)

\* Once a client has authenticated again, its inputs go to the new session's
\* round: the old one, still running, gets none that was read later.
InputsFollowSession ==
  \A d, e \in DOMAIN drives :
    ConnOf(d) = ConnOf(e) /\ d < e =>
      \A i \in Range(drives[d].delivered), j \in Range(drives[e].delivered) : i < j

LifeStage(d) == IF d \notin DOMAIN drives THEN "dealt"
                ELSE IF drives[d].stage = "registering" THEN "playing"
                ELSE drives[d].stage

Life(d) == INSTANCE Lifecycle
             WITH stage <- LifeStage(d),
                  saved <- d \in DOMAIN drives /\ drives[d].saved,
                  credited <- d \in DOMAIN drives /\ drives[d].credited

\* Every drive keeps the life cycle of a round, which Drive implements too.
DrivesImplementLifecycle ==
  /\ \A d \in Drives : Life(d)!Init
  /\ [][\A d \in Drives : [Life(d)!Next]_(Life(d)!lifeVars)]_vars

Unplayed(d, i) == /\ d \in DOMAIN drives
                  /\ i \in Range(drives[d].delivered) \ Range(drives[d].taken)
                  /\ up /\ ~Over(d)

\* An input Deliver accepted is played, unless the round ends first.
DeliveredIsPlayed ==
  \A d \in Drives, i \in 1 .. MaxInputs : Unplayed(d, i) ~> ~Unplayed(d, i)

\* The client is kept moving: the handler of an input comes back.
HandlerReturns ==
  \A c \in Conns : up /\ loop[c] = "sending" ~> ~(up /\ loop[c] = "sending")
=============================================================================
