------------------------------ MODULE Transport ------------------------------
(***************************************************************************)
(* One WebSocket connection of package transport: the read loop and its    *)
(* deadline, the pinger, and everybody who writes, one at a time under the *)
(* mutex of the session: the handler the read loop runs, the goroutine of  *)
(* a round, and the goroutines matchGame leaves behind.  Connections share *)
(* nothing, so that there is one.                                          *)
(*                                                                         *)
(* Time passes in units (Tick) and a deadline is kept as the time it has   *)
(* left.  A goroutine that can run does so before time passes.  The socket *)
(* is a library's: it takes frames until the client's window is full, and  *)
(* after a write has failed it fails every later one.                      *)
(***************************************************************************)
EXTENDS Integers, Sequences

CONSTANTS WriteWait, PongWait, PingPeriod,
          Window,   \* frames the socket takes that the client has not read
          Matches   \* requests for a match the client may make

ASSUME TransportAssumption ==
  /\ WriteWait \in Nat \ {0} /\ PongWait \in Nat \ {0}
  /\ PingPeriod \in Nat \ {0} /\ Window \in Nat \ {0}
  /\ PingPeriod < PongWait
  /\ Matches \cap {"reader", "pinger", "drive"} = {}

VARIABLES open,      \* serve has not returned
          left,      \* the client has closed its end, or lost it
          todo,      \* what the handler in hand has left to do
          answers,   \* answers written to the request in hand, Never without one
          readLeft,  \* until the read deadline
          writeLeft, \* until the write deadline of the socket, or Never
          broken,    \* a write has failed: so will all others
          lock,      \* who waits in a write with the mutex, or "nobody"
          unread,    \* frames in the client's window
          pingLeft,  \* until the ticker fires
          pingDue,   \* it has, and the pinger has not taken it
          pinging,   \* the pinger runs
          unseen,    \* age of the oldest ping the client has not read
          answering, \* age of the oldest ping whose pong is under way
          match,     \* per request for a match, what became of it
          slow,      \* history: a write has had to wait for the client
          unwritten  \* history: the handler in hand failed, but in no write

Never == -1        \* no deadline, no ping, no request
Nobody == "nobody"

socket == <<writeLeft, broken, lock, unread, slow>>
pings == <<pingLeft, pingDue, pinging, unseen, answering>>
request == <<todo, answers, unwritten>>
vars == <<open, left, request, readLeft, socket, pings, match>>

\* What a handler does, in order: those that only answer, those that fail and
\* leave the answer to Dispatch, enterGame and the login, matchGame, and
\* inputOperation, which hands an input to a drive before it answers.
Handlers ==
  {<<"answer">>, <<"sorry">>, <<"answer", "push">>, <<"answer", "match">>,
   <<"deliver", "answer">>}

Ages == {Never} \cup 0 .. PongWait

\* Types.
TypeOK ==
  /\ open \in BOOLEAN /\ left \in BOOLEAN /\ broken \in BOOLEAN
  /\ pingDue \in BOOLEAN /\ pinging \in BOOLEAN /\ slow \in BOOLEAN
  /\ todo \in Handlers \cup {<<"push">>, <<"match">>, << >>}
  /\ answers \in {Never} \cup 0 .. 2
  /\ unwritten \in BOOLEAN
  /\ readLeft \in 0 .. PongWait
  /\ writeLeft \in {Never} \cup 0 .. WriteWait
  /\ lock \in {Nobody, "reader", "pinger", "drive"} \cup Matches
  /\ unread \in 0 .. Window
  /\ pingLeft \in 1 .. PingPeriod
  /\ unseen \in Ages /\ answering \in Ages
  /\ match \in [Matches -> {"none", "asleep", "due", "told", "lost"}]

Init ==
  /\ open = TRUE /\ left = FALSE /\ todo = << >>
  /\ answers = Never /\ unwritten = FALSE
  /\ readLeft = PongWait
  /\ writeLeft = Never /\ broken = FALSE /\ lock = Nobody /\ unread = 0
  /\ pingLeft = PingPeriod /\ pingDue = FALSE /\ pinging = TRUE
  /\ unseen = Never /\ answering = Never
  /\ match = [m \in Matches |-> "none"]
  /\ slow = FALSE

Reading == open /\ todo = << >>
Doing(what) == todo # << >> /\ Head(todo) = what
Writing == Doing("answer") \/ Doing("push") \/ Doing("sorry")

-----------------------------------------------------------------------------
(* Writing. *)

\* Mutant: Dispatch adds its envelope whether the handler failed or not.
DispatchedAlways(ok) ==
  IF todo = <<"sorry">> THEN << >>
  ELSE IF ok /\ Len(todo) > 1 THEN Tail(todo) ELSE <<"sorry">>

\* Mutant: the handler goes on after an error.
DispatchedGoesOn(ok) ==
  IF ok \/ todo = <<"sorry">> THEN Tail(todo) ELSE <<"sorry">> \o Tail(todo)

\* A handler that fails returns the error, and Dispatch answers in its place,
\* whatever was answered before.
Dispatched(ok) ==
  IF ok \/ todo = <<"sorry">> THEN Tail(todo) ELSE <<"sorry">>

\* What a writer does once its write has returned.
Returned(by, ok) ==
  /\ todo' = IF by = "reader" THEN Dispatched(ok) ELSE todo
  /\ answers' = IF by = "reader" /\ ok /\ Head(todo) # "push"
                  THEN answers + 1 ELSE answers
  /\ pinging' = IF by = "pinger" THEN ok ELSE pinging
  /\ unseen' = IF by = "pinger" /\ ok /\ unseen = Never THEN 0 ELSE unseen
  /\ match' = IF by \in Matches
                THEN [match EXCEPT ![by] = IF ok THEN "told" ELSE "lost"]
                ELSE match

Fails(by) == broken' = TRUE /\ Returned(by, FALSE) /\ UNCHANGED <<unread, slow>>

\* WriteMessage with d left to the deadline: it fails, or the socket takes the
\* frame, or the writer waits with the mutex.
WriteMessage(by, d) ==
  /\ lock = Nobody
  /\ writeLeft' = d
  /\ \/ /\ broken \/ ~open \/ left \/ d = 0
        /\ Fails(by)
        /\ lock' = lock
     \/ /\ ~broken /\ open /\ d # 0
        /\ unread < Window
        /\ unread' = unread + 1
        /\ Returned(by, TRUE)
        /\ UNCHANGED <<broken, lock, slow>>
     \/ /\ ~broken /\ open /\ d # 0
        /\ unread = Window
        /\ lock' = by
        /\ slow' = TRUE
        /\ UNCHANGED <<todo, answers, broken, unread, pinging, unseen, match>>
  /\ UNCHANGED <<open, left, unwritten, readLeft, pingLeft, answering>>

\* write sets the deadline anew; pingLoop does not, and takes what the last
\* write has left of it.
Write(by) == WriteMessage(by, WriteWait) /\ UNCHANGED pingDue

Ping == pingDue /\ pinging /\ pingDue' = FALSE /\ WriteMessage("pinger", writeLeft)

\* The wait is over: there is room, or the deadline has passed, or the socket
\* has been closed at one end.
Unblock ==
  /\ lock # Nobody
  /\ lock' = Nobody
  /\ \/ /\ open /\ unread < Window
        /\ unread' = unread + 1
        /\ Returned(lock, TRUE)
        /\ UNCHANGED <<broken, slow>>
     \/ /\ ~open \/ left \/ writeLeft = 0
        /\ Fails(lock)
  /\ UNCHANGED <<open, left, unwritten, readLeft, writeLeft, pingLeft, pingDue,
                 answering>>

-----------------------------------------------------------------------------
(* The read loop. *)

\* A request comes in; a match is asked for while the bound allows.
Request ==
  /\ Reading /\ ~left /\ readLeft > 0
  /\ todo' \in Handlers
  /\ todo' = <<"answer", "match">> => \E m \in Matches : match[m] = "none"
  /\ answers' = 0 /\ unwritten' = FALSE
  /\ UNCHANGED <<open, left, readLeft, socket, pings, match>>

\* The handler writes an answer or a push, or Dispatch its envelope.
HandlerWrites == Writing /\ Write("reader")

\* The answer or the push cannot be encoded, or the round that it is to show
\* cannot be started: an error, and nothing written.
HandlerFails ==
  /\ lock # "reader"
  /\ Doing("answer") \/ Doing("push")
  /\ todo' = Dispatched(FALSE)
  /\ unwritten' = TRUE
  /\ UNCHANGED <<open, left, answers, readLeft, socket, pings, match>>

\* The drive has room for the input: at once, later, or never.
Delivered ==
  /\ Doing("deliver")
  /\ todo' = Tail(todo)
  /\ UNCHANGED <<open, left, answers, unwritten, readLeft, socket, pings, match>>

\* matchGame has answered, and starts the goroutine that will tell the client.
\* cancelMatch is a handler that only answers.
MatchGame ==
  /\ todo = <<"match">>
  /\ todo' = << >>
  /\ \E m \in Matches : /\ match[m] = "none"
                        /\ match' = [match EXCEPT ![m] = "asleep"]
  /\ UNCHANGED <<open, left, answers, unwritten, readLeft, socket, pings>>

\* Mutant: the pong handler forgets the deadline.
PongForgets ==
  /\ Reading /\ readLeft > 0 /\ answering # Never
  /\ answering' = Never
  /\ UNCHANGED <<open, left, request, readLeft, socket, pingLeft, pingDue,
                 pinging, unseen, match>>

\* The pong handler, called by the read loop.
Pong ==
  /\ Reading /\ readLeft > 0 /\ answering # Never
  /\ answering' = Never
  /\ readLeft' = PongWait
  /\ UNCHANGED <<open, left, request, socket, pingLeft, pingDue, pinging, unseen,
                 match>>

\* Mutant: a read that timed out is tried again.
ReadEndsByClient ==
  /\ Reading
  /\ left
  /\ open' = FALSE
  /\ UNCHANGED <<left, request, readLeft, socket, pings, match>>

\* The read fails, and serve closes the socket.
ReadEnds ==
  /\ Reading
  /\ left \/ readLeft = 0
  /\ open' = FALSE
  /\ UNCHANGED <<left, request, readLeft, socket, pings, match>>

-----------------------------------------------------------------------------
(* The others. *)

\* A round pushes an action, at any time.
Push == Write("drive")

\* Mutant: a goroutine that finds the mutex taken gives up.
NotifyOrSkip(m) ==
  /\ match[m] \in {"asleep", "due"}
  /\ \/ Write(m)
     \/ /\ lock # Nobody
        /\ match' = [match EXCEPT ![m] = "lost"]
        /\ UNCHANGED <<open, left, request, readLeft, socket, pings>>

\* The goroutine of matchGame has slept for 1.2 seconds.
Notify(m) == match[m] \in {"asleep", "due"} /\ Write(m)

\* The client reads what it was sent; its pong for the last ping goes out.
ClientReads ==
  /\ ~left /\ unread > 0
  /\ unread' = 0
  /\ unseen' = Never
  /\ answering' = IF answering = Never THEN unseen ELSE answering
  /\ UNCHANGED <<open, left, request, readLeft, writeLeft, broken, lock, pingLeft,
                 pingDue, pinging, match, slow>>

Leave ==
  /\ ~left
  /\ left' = TRUE
  /\ UNCHANGED <<open, request, readLeft, socket, pings, match>>

\* Nobody can run: all wait for the client, the mutex, the clock or a drive.
Quiet ==
  /\ Reading => readLeft > 0 /\ ~left
  /\ IF lock = Nobody
       THEN /\ todo = << >> \/ Doing("deliver")
            /\ ~(pingDue /\ pinging)
            /\ \A m \in Matches : match[m] # "due"
       ELSE open /\ ~left /\ unread = Window /\ writeLeft # 0

Less(t) == IF t > 0 THEN t - 1 ELSE t
Older(a) == IF a = Never \/ a = PongWait THEN a ELSE a + 1

Tick ==
  /\ Quiet
  /\ readLeft' = Less(readLeft)
  /\ writeLeft' = Less(writeLeft)
  /\ pingLeft' = IF pingLeft = 1 THEN PingPeriod ELSE pingLeft - 1
  /\ pingDue' = (pingDue \/ pingLeft = 1)
  /\ unseen' = Older(unseen)
  /\ answering' = Older(answering)
  /\ match' = [m \in Matches |-> IF match[m] = "asleep" THEN "due" ELSE match[m]]
  /\ UNCHANGED <<open, left, request, broken, lock, unread, pinging, slow>>

Next ==
  \/ Request \/ HandlerWrites \/ HandlerFails \/ Delivered \/ MatchGame
  \/ Pong \/ ReadEnds
  \/ Ping \/ Unblock \/ Push \/ ClientReads \/ Leave \/ Tick
  \/ \E m \in Matches : Notify(m)

\* The server's goroutines run and time passes, however often a push or a
\* request comes first.  The client owes nothing, and nor does a drive, whose input
\* a handler may wait to hand over for good (HandlerReturns of Session).
Fairness ==
  /\ SF_vars(HandlerWrites) /\ WF_vars(MatchGame) /\ WF_vars(ReadEnds)
  /\ SF_vars(Ping) /\ WF_vars(Unblock) /\ SF_vars(Tick)
  /\ \A m \in Matches : SF_vars(Notify(m))

Spec == Init /\ [][Next]_vars /\ Fairness

-----------------------------------------------------------------------------
(* Properties. *)

\* Each request is answered, and once, as long as the socket takes answers: a
\* handler that fails after its answer is answered for again by Dispatch, which
\* goes unnoticed only if it was a write that failed.
OneAnswerEach ==
  /\ todo = << >> => answers # 0 \/ broken
  /\ answers > 1 => answers = 2 /\ unwritten

\* serve ends only because the client left, or because a ping had no pong, or one
\* that a handler kept the read loop from taking, for the time between pingPeriod
\* and pongWait, or because a write had failed, or had kept the pinger waiting.
Unanswered ==
  \E a \in {unseen, answering} : a # Never /\ a >= PongWait - PingPeriod

DroppedForCause == ~open => left \/ Unanswered \/ broken \/ slow

\* A connection is served until it drops: the client left, took no frames for a
\* while, or did not answer a ping.
ServedUntilDropped == ~open => left \/ Unanswered \/ slow

\* Each match that was answered is announced, cancelled or not, unless the
\* connection has come to its end.
EveryMatchStarts ==
  \A m \in Matches :
    match[m] = "asleep" ~> match[m] = "told" \/ broken \/ left \/ ~open

\* The read loop's handler waits for a drive, or the pinger, with the mutex, for
\* room that no deadline limits, since nothing was written before it.
Stuck == Doing("deliver") \/ (lock = "pinger" /\ writeLeft = Never)

\* A connection whose client sends no pongs any more is closed, whatever else it
\* sends, since requests do not move the read deadline: unless the read loop can
\* not notice, the last request being an input that no drive takes or takes late.
SilentIsDropped == []<><<Pong>>_vars \/ <>(~open) \/ <>[]Stuck
=============================================================================
