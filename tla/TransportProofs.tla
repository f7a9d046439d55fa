--------------------------- MODULE TransportProofs ---------------------------
(***************************************************************************)
(* Theorems about Transport, for all waits and windows: its types, how     *)
(* often a request is answered, and why a connection is dropped.           *)
(***************************************************************************)
EXTENDS Transport, TLAPS

-----------------------------------------------------------------------------
(* Handlers: what is left of one. *)

Rests == Handlers \cup {<<"push">>, <<"match">>, << >>}

\* What a handler has left after a write: the rest, the envelope, or nothing.
LEMMA RestAfter ==
  ASSUME todo \in Rests, Writing, NEW ok \in BOOLEAN
  PROVE  /\ Dispatched(ok) \in {<< >>, <<"push">>, <<"match">>, <<"sorry">>}
         /\ ok /\ ~Doing("answer") => Dispatched(ok) = << >>
         /\ ok => Dispatched(ok) # <<"sorry">>
         /\ ~ok => Dispatched(ok) = IF todo = <<"sorry">> THEN << >> ELSE <<"sorry">>
  <1>1. CASE todo = <<"answer">>
    BY <1>1, SMT DEF Dispatched, Doing
  <1>2. CASE todo = <<"sorry">>
    BY <1>2, SMT DEF Dispatched, Doing
  <1>3. CASE todo = <<"answer", "push">>
    BY <1>3, SMT DEF Dispatched, Doing
  <1>4. CASE todo = <<"answer", "match">>
    BY <1>4, SMT DEF Dispatched, Doing
  <1>5. CASE todo = <<"push">>
    BY <1>5, SMT DEF Dispatched, Doing
  <1>6. QED
    BY <1>1, <1>2, <1>3, <1>4, <1>5, SMT DEF Rests, Handlers, Writing, Doing

-----------------------------------------------------------------------------
(* Types and answers. *)

\* A handler that has yet to answer has not, one with more to do has, and one
\* that has failed after its answer has broken the socket or written nothing.
Asked ==
  /\ todo = << >> => answers # 0 \/ broken
  /\ Doing("answer") \/ Doing("deliver") => answers = 0
  /\ Doing("push") \/ Doing("match") => answers = 1
  /\ Doing("sorry") => answers = 0 \/ (answers = 1 /\ (broken \/ unwritten))
  /\ answers = 2 => unwritten

\* Who waits in a write found the socket whole; and what the read loop waits in
\* is a write.
Answering ==
  /\ Asked
  /\ lock # Nobody => ~broken
  /\ lock = "reader" => Writing

Writers == {"reader", "pinger", "drive"} \cup Matches

AnswerInv == TypeOK /\ Answering

LEMMA InitAnswers == Init => AnswerInv
  <1> SUFFICES ASSUME Init PROVE AnswerInv
    OBVIOUS
  <1>1. /\ unread \in 0 .. Window /\ pingLeft \in 1 .. PingPeriod
        /\ readLeft \in 0 .. PongWait /\ answers = Never
        /\ match \in [Matches -> {"none", "asleep", "due", "told", "lost"}]
    BY TransportAssumption, SMT DEF Init
  <1>2. /\ lock = Nobody /\ todo = << >> /\ writeLeft = Never
        /\ unseen = Never /\ answering = Never /\ unwritten \in BOOLEAN
        /\ open \in BOOLEAN /\ left \in BOOLEAN /\ broken \in BOOLEAN
        /\ pingDue \in BOOLEAN /\ pinging \in BOOLEAN /\ slow \in BOOLEAN
    BY Zenon DEF Init
  <1>3. TypeOK
    BY <1>1, <1>2, Zenon DEF TypeOK, Ages
  <1>4. Answering
    BY <1>1, <1>2, SMT DEF Answering, Asked, Nobody, Doing, Never
  <1>5. QED
    BY <1>3, <1>4 DEF AnswerInv

\* The state a writer leaves, whether its write succeeded or not.
LEMMA AfterReturn ==
  ASSUME AnswerInv,
         NEW by \in Writers, NEW ok \in BOOLEAN, Returned(by, ok),
         by = "reader" => Writing,
         unwritten' = unwritten,
         ok => broken' = broken /\ ~broken,
         ~ok => broken' = TRUE
  PROVE  /\ todo' \in Rests
         /\ answers' \in {Never} \cup 0 .. 2
         /\ pinging' \in BOOLEAN
         /\ unseen' \in Ages
         /\ match' \in [Matches -> {"none", "asleep", "due", "told", "lost"}]
         /\ Asked'
  <1>1. /\ todo \in Rests /\ answers \in {Never} \cup 0 .. 2
        /\ broken \in BOOLEAN /\ unwritten \in BOOLEAN /\ Asked
    BY Zenon DEF AnswerInv, TypeOK, Answering, Rests
  <1>2. CASE by = "reader"
    <2>1. /\ todo' = Dispatched(ok)
          /\ answers' = IF ok /\ Head(todo) # "push" THEN answers + 1 ELSE answers
      BY <1>2, SMT DEF Returned
    <2>2. /\ Dispatched(ok) \in {<< >>, <<"push">>, <<"match">>, <<"sorry">>}
          /\ ok /\ ~Doing("answer") => Dispatched(ok) = << >>
          /\ ok => Dispatched(ok) # <<"sorry">>
          /\ ~ok => Dispatched(ok) = IF todo = <<"sorry">> THEN << >> ELSE <<"sorry">>
      BY <1>1, <1>2, RestAfter
    <2>3. todo' \in Rests
      BY <2>1, <2>2 DEF Rests, Handlers
    <2>4. answers \in 0 .. 1 /\ answers' \in 0 .. 2
      BY <1>1, <1>2, <2>1, SMT DEF Asked, Writing, Never
    <2>5. Asked'
      <3>1. CASE ok /\ Doing("answer")
        <4>1. answers' = 1 /\ todo' # <<"sorry">>
          <5>1. answers = 0 /\ Head(todo) # "push"
            BY <1>1, <3>1, SMT DEF Asked, Doing
          <5>2. answers' = 1
            BY <2>1, <3>1, <5>1, SMT
          <5>3. QED
            BY <2>1, <2>2, <3>1, <5>2, Zenon
        <4>2. todo' \in {<< >>, <<"push">>, <<"match">>}
          BY <2>1, <2>2, <4>1
        <4>3. QED
          BY <4>1, <4>2, SMT DEF Asked, Doing
      <3>2. CASE ok /\ Doing("push")
        <4>1. answers' = 1 /\ todo' = << >>
          <5>1. answers = 1 /\ Head(todo) = "push" /\ ~Doing("answer")
            BY <1>1, <3>2, SMT DEF Asked, Doing
          <5>2. answers' = 1
            BY <2>1, <5>1, SMT
          <5>3. QED
            BY <2>1, <2>2, <3>2, <5>1, <5>2, Zenon
        <4>2. QED
          BY <4>1, SMT DEF Asked, Doing
      <3>3. CASE ok /\ Doing("sorry")
        <4>1. /\ todo' = << >> /\ answers' = answers + 1
              /\ answers = 0 \/ (answers = 1 /\ unwritten)
          <5>1. /\ answers = 0 \/ (answers = 1 /\ (broken \/ unwritten))
                /\ Head(todo) = "sorry" /\ ~Doing("answer")
            BY <1>1, <3>3, SMT DEF Asked, Doing
          <5>2. answers' = answers + 1
            BY <2>1, <3>3, <5>1, SMT
          <5>3. ~broken
            BY <3>3, Zenon
          <5>4. QED
            BY <2>1, <2>2, <3>3, <5>1, <5>2, <5>3, Zenon
        <4>2. QED
          BY <4>1, SMT DEF Asked, Doing
      <3>4. CASE ~ok
        <4>1. answers' = answers /\ broken' = TRUE /\ todo' \in {<< >>, <<"sorry">>}
          BY <2>1, <2>2, <3>4
        <4>2. QED
          BY <2>4, <4>1, SMT DEF Asked, Doing
      <3>5. QED
        BY <1>2, <3>1, <3>2, <3>3, <3>4, Zenon DEF Writing
    <2>6. /\ pinging' = pinging /\ unseen' = unseen
      BY <1>2, SMT DEF Returned
    <2>7. match' = match
      BY <1>2, TransportAssumption, SMT DEF Returned
    <2>8. /\ pinging \in BOOLEAN /\ unseen \in Ages
          /\ match \in [Matches -> {"none", "asleep", "due", "told", "lost"}]
      BY DEF AnswerInv, TypeOK
    <2>9. answers' \in {Never} \cup 0 .. 2
      BY <2>4
    <2>10. QED
      BY <2>3, <2>5, <2>6, <2>7, <2>8, <2>9, Zenon
  <1>3. CASE by # "reader"
    <2>1. todo' = todo /\ answers' = answers
      BY <1>3, SMT DEF Returned
    <2>2. pinging' \in BOOLEAN /\ unseen' \in Ages
      BY TransportAssumption, SMT DEF Returned, AnswerInv, TypeOK, Ages, Never
    <2>3. match' \in [Matches -> {"none", "asleep", "due", "told", "lost"}]
      BY SMT DEF Returned, AnswerInv, TypeOK
    <2>4. broken => broken'
      BY Zenon
    <2>5. Asked'
      BY <1>1, <2>1, <2>4, SMT DEF Asked, Doing
    <2>6. QED
      BY <1>1, <2>1, <2>2, <2>3, <2>5
  <1>4. QED
    BY <1>2, <1>3

\* A write, with the deadline set anew or what is left of it.
LEMMA WriteAnswers ==
  ASSUME AnswerInv,
         NEW by \in Writers, NEW d \in {Never} \cup 0 .. WriteWait,
         WriteMessage(by, d), pingDue' \in BOOLEAN,
         by = "reader" => Writing
  PROVE  AnswerInv'
  <1>1. /\ open' = open /\ left' = left /\ readLeft' = readLeft
        /\ pingLeft' = pingLeft /\ answering' = answering /\ writeLeft' = d
        /\ lock = Nobody /\ unwritten' = unwritten
    BY SMT DEF WriteMessage
  <1>2. CASE /\ broken \/ ~open \/ left \/ d = 0
             /\ Fails(by)
             /\ lock' = lock
    <2>1. broken' = TRUE /\ Returned(by, FALSE) /\ unread' = unread /\ slow' = slow
      BY <1>2, SMT DEF Fails, Returned
    <2>2. /\ todo' \in Rests
          /\ answers' \in {Never} \cup 0 .. 2
          /\ pinging' \in BOOLEAN
          /\ unseen' \in Ages
          /\ match' \in [Matches -> {"none", "asleep", "due", "told", "lost"}]
          /\ Asked'
      BY <1>1, <2>1, AfterReturn
    <2>3. TypeOK'
      BY <1>1, <1>2, <2>1, <2>2, SMT DEF AnswerInv, TypeOK, Rests, Nobody
    <2>4. Answering'
      BY <1>1, <1>2, <2>2, SMT DEF Answering, Nobody
    <2>5. QED
      BY <2>3, <2>4 DEF AnswerInv
  <1>3. CASE /\ ~broken /\ open /\ d # 0
             /\ unread < Window
             /\ unread' = unread + 1
             /\ Returned(by, TRUE)
             /\ UNCHANGED <<broken, lock, slow>>
    <2>1. /\ todo' \in Rests
          /\ answers' \in {Never} \cup 0 .. 2
          /\ pinging' \in BOOLEAN
          /\ unseen' \in Ages
          /\ match' \in [Matches -> {"none", "asleep", "due", "told", "lost"}]
          /\ Asked'
      BY <1>1, <1>3, AfterReturn
    <2>2. TypeOK'
      BY <1>1, <1>3, <2>1, TransportAssumption, SMT DEF AnswerInv, TypeOK, Rests, Nobody
    <2>3. Answering'
      BY <1>1, <1>3, <2>1, SMT DEF Answering, Nobody
    <2>4. QED
      BY <2>2, <2>3 DEF AnswerInv
  <1>4. CASE /\ ~broken /\ open /\ d # 0
             /\ unread = Window
             /\ lock' = by
             /\ slow' = TRUE
             /\ UNCHANGED <<todo, answers, broken, unread, pinging, unseen, match>>
    <2>1. TypeOK'
      BY <1>1, <1>4, SMT DEF AnswerInv, TypeOK, Writers
    <2>2. Answering'
      BY <1>1, <1>4, SMT DEF AnswerInv, Answering, Asked, Writing, Doing
    <2>3. QED
      BY <2>1, <2>2 DEF AnswerInv
  <1>5. QED
    BY <1>2, <1>3, <1>4, Zenon DEF WriteMessage

LEMMA UnblockAnswers ==
  ASSUME AnswerInv, Unblock
  PROVE  AnswerInv'
  <1>1. /\ open' = open /\ left' = left /\ readLeft' = readLeft
        /\ pingLeft' = pingLeft /\ answering' = answering
        /\ writeLeft' = writeLeft /\ pingDue' = pingDue
        /\ lock # Nobody /\ lock' = Nobody /\ unwritten' = unwritten
    BY SMT DEF Unblock
  <1>2. /\ lock \in Writers /\ ~broken
        /\ lock = "reader" => Writing
    BY <1>1, SMT DEF AnswerInv, TypeOK, Answering, Writers
  <1>3. PICK by \in Writers : by = lock
    BY <1>2
  <1>4. CASE /\ open /\ unread < Window
             /\ unread' = unread + 1
             /\ Returned(by, TRUE)
             /\ UNCHANGED <<broken, slow>>
    <2>1. /\ todo' \in Rests
          /\ answers' \in {Never} \cup 0 .. 2
          /\ pinging' \in BOOLEAN
          /\ unseen' \in Ages
          /\ match' \in [Matches -> {"none", "asleep", "due", "told", "lost"}]
          /\ Asked'
      BY <1>1, <1>2, <1>3, <1>4, AfterReturn
    <2>2. TypeOK'
      BY <1>1, <1>4, <2>1, TransportAssumption, SMT DEF AnswerInv, TypeOK, Rests, Nobody
    <2>3. Answering'
      BY <1>1, <1>4, <2>1, SMT DEF Answering, Nobody
    <2>4. QED
      BY <2>2, <2>3 DEF AnswerInv
  <1>5. CASE (~open \/ left \/ writeLeft = 0) /\ Fails(by)
    <2>1. broken' = TRUE /\ Returned(by, FALSE) /\ unread' = unread /\ slow' = slow
      BY <1>5, SMT DEF Fails, Returned
    <2>2. /\ todo' \in Rests
          /\ answers' \in {Never} \cup 0 .. 2
          /\ pinging' \in BOOLEAN
          /\ unseen' \in Ages
          /\ match' \in [Matches -> {"none", "asleep", "due", "told", "lost"}]
          /\ Asked'
      BY <1>1, <1>2, <1>3, <2>1, AfterReturn
    <2>3. TypeOK'
      BY <1>1, <2>1, <2>2, SMT DEF AnswerInv, TypeOK, Rests, Nobody
    <2>4. Answering'
      BY <1>1, <2>2, SMT DEF Answering, Nobody
    <2>5. QED
      BY <2>3, <2>4 DEF AnswerInv
  <1>6. QED
    BY <1>3, <1>4, <1>5, Zenon DEF Unblock

\* A handler that fails before it has answered, or after, without a write.
LEMMA FailsAnswers ==
  ASSUME AnswerInv, HandlerFails
  PROVE  AnswerInv'
  <1>1. /\ open' = open /\ left' = left /\ readLeft' = readLeft
        /\ writeLeft' = writeLeft /\ broken' = broken /\ lock' = lock
        /\ unread' = unread /\ slow' = slow /\ pingLeft' = pingLeft
        /\ pingDue' = pingDue /\ pinging' = pinging /\ unseen' = unseen
        /\ answering' = answering /\ match' = match /\ answers' = answers
        /\ unwritten' = TRUE /\ lock # "reader" /\ todo' = Dispatched(FALSE)
        /\ Doing("answer") \/ Doing("push")
    BY SMT DEF HandlerFails, socket, pings
  <1>2. todo' = <<"sorry">>
    BY <1>1, SMT DEF Dispatched, Doing
  <1>3. TypeOK'
    <2>1. todo' \in Handlers /\ unwritten' \in BOOLEAN
      BY <1>1, <1>2 DEF Handlers
    <2>2. QED
      BY <1>1, <2>1, Zenon DEF AnswerInv, TypeOK
  <1>4. Asked'
    <2>1. answers = 0 \/ answers = 1
      BY <1>1, SMT DEF AnswerInv, Answering, Asked
    <2>2. ~Doing("answer")' /\ ~Doing("deliver")' /\ ~Doing("push")' /\ ~Doing("match")'
      BY <1>2, SMT DEF Doing
    <2>3. unwritten'
      BY <1>1
    <2>4. todo' # << >>
      BY <1>2, SMT
    <2>5. /\ answers' = 0 \/ answers' = 1
          /\ answers' # 2
      BY <1>1, <2>1, SMT
    <2>6. QED
      BY <2>2, <2>3, <2>4, <2>5, Zenon DEF Asked
  <1>5. QED
    BY <1>1, <1>3, <1>4, SMT DEF AnswerInv, Answering

\* A drive takes the input: the answer is left.
LEMMA DeliveredAnswers ==
  ASSUME AnswerInv, Delivered
  PROVE  AnswerInv'
  <1>1. /\ open' = open /\ left' = left /\ readLeft' = readLeft
        /\ writeLeft' = writeLeft /\ broken' = broken /\ lock' = lock
        /\ unread' = unread /\ slow' = slow /\ pingLeft' = pingLeft
        /\ pingDue' = pingDue /\ pinging' = pinging /\ unseen' = unseen
        /\ answering' = answering /\ match' = match /\ answers' = answers
        /\ unwritten' = unwritten /\ todo' = Tail(todo) /\ Doing("deliver")
    BY SMT DEF Delivered, socket, pings
  <1>2. todo' = <<"answer">>
    <2>1. todo \in Rests
      BY Zenon DEF AnswerInv, TypeOK, Rests
    <2>2. todo = <<"deliver", "answer">>
      BY <1>1, <2>1, SMT DEF Rests, Handlers, Doing
    <2>3. QED
      BY <1>1, <2>2, SMT
  <1>3. TypeOK'
    <2>1. todo' \in Handlers
      BY <1>2 DEF Handlers
    <2>2. QED
      BY <1>1, <2>1, SMT DEF AnswerInv, TypeOK
  <1>4. Asked'
    BY <1>1, <1>2, SMT DEF AnswerInv, Answering, Asked, Doing
  <1>5. lock # "reader"
    BY <1>1, SMT DEF AnswerInv, Answering, Writing, Doing
  <1>6. QED
    BY <1>1, <1>3, <1>4, <1>5, SMT DEF AnswerInv, Answering

\* A request begins with no answers.
LEMMA RequestAnswers ==
  ASSUME AnswerInv, Request
  PROVE  AnswerInv'
  <1>1. /\ open' = open /\ left' = left /\ readLeft' = readLeft
        /\ writeLeft' = writeLeft /\ broken' = broken /\ lock' = lock
        /\ unread' = unread /\ slow' = slow /\ pingLeft' = pingLeft
        /\ pingDue' = pingDue /\ pinging' = pinging /\ unseen' = unseen
        /\ answering' = answering /\ match' = match
        /\ todo = << >> /\ todo' \in Handlers /\ answers' = 0
        /\ unwritten' = FALSE
    BY SMT DEF Request, Reading, socket, pings
  <1>2. TypeOK'
    <2>1. answers' \in {Never} \cup 0 .. 2
      BY <1>1, SMT
    <2>2. unwritten' \in BOOLEAN
      BY <1>1
    <2>3. QED
      BY <1>1, <2>1, <2>2, Zenon DEF AnswerInv, TypeOK
  <1>3. Asked'
    BY <1>1, SMT DEF Asked, Doing, Handlers
  <1>5. lock # "reader"
    BY <1>1, SMT DEF AnswerInv, Answering, Writing, Doing
  <1>6. Answering'
    BY <1>1, <1>3, <1>5, SMT DEF AnswerInv, Answering
  <1>4. QED
    BY <1>2, <1>6 DEF AnswerInv

LEMMA MatchGameAnswers ==
  ASSUME AnswerInv, MatchGame
  PROVE  AnswerInv'
  <1>1. /\ open' = open /\ left' = left /\ readLeft' = readLeft
        /\ writeLeft' = writeLeft /\ broken' = broken /\ lock' = lock
        /\ unread' = unread /\ slow' = slow /\ pingLeft' = pingLeft
        /\ pingDue' = pingDue /\ pinging' = pinging /\ unseen' = unseen
        /\ answering' = answering /\ answers' = answers /\ unwritten' = unwritten
        /\ todo = <<"match">> /\ todo' = << >>
    BY SMT DEF MatchGame, socket, pings
  <1>2. match' \in [Matches -> {"none", "asleep", "due", "told", "lost"}]
    BY SMT DEF MatchGame, AnswerInv, TypeOK
  <1>3. TypeOK'
    BY <1>1, <1>2, SMT DEF AnswerInv, TypeOK
  <1>4. Answering'
    BY <1>1, SMT DEF AnswerInv, Answering, Asked, Writing, Doing
  <1>5. QED
    BY <1>3, <1>4 DEF AnswerInv

\* The steps that touch no handler.
LEMMA OtherAnswers ==
  ASSUME AnswerInv, Pong \/ ReadEnds \/ ClientReads \/ Leave \/ Tick
  PROVE  AnswerInv'
  <1>1. /\ todo' = todo /\ answers' = answers /\ broken' = broken /\ lock' = lock
        /\ pinging' = pinging /\ unwritten' = unwritten
    BY SMT DEF Pong, ReadEnds, ClientReads, Leave, Tick, request, socket, pings
  <1>2. Answering'
    BY <1>1, SMT DEF AnswerInv, Answering, Asked, Writing, Doing
  <1>3. TypeOK'
    <2>1. CASE Pong
      BY <1>1, <2>1, TransportAssumption, SMT
      DEF Pong, socket, AnswerInv, TypeOK, Ages
    <2>2. CASE ReadEnds
      <3>1. /\ open' = FALSE /\ left' = left /\ readLeft' = readLeft
            /\ writeLeft' = writeLeft /\ unread' = unread /\ slow' = slow
            /\ pingLeft' = pingLeft /\ pingDue' = pingDue /\ unseen' = unseen
            /\ answering' = answering /\ match' = match
        BY <2>2, SMT DEF ReadEnds, socket, pings
      <3>2. QED
        BY <1>1, <3>1 DEF AnswerInv, TypeOK
    <2>3. CASE ClientReads
      BY <1>1, <2>3, TransportAssumption, SMT
      DEF ClientReads, AnswerInv, TypeOK, Ages
    <2>4. CASE Leave
      BY <1>1, <2>4, SMT DEF Leave, socket, pings, AnswerInv, TypeOK
    <2>5. CASE Tick
      <3>1. /\ readLeft' \in 0 .. PongWait
            /\ writeLeft' \in {Never} \cup 0 .. WriteWait
            /\ pingLeft' \in 1 .. PingPeriod
            /\ pingDue' \in BOOLEAN
        BY <2>5, TransportAssumption, SMT DEF Tick, Less, AnswerInv, TypeOK, Never
      <3>2. unseen' \in Ages /\ answering' \in Ages
        BY <2>5, TransportAssumption, SMT DEF Tick, Older, AnswerInv, TypeOK, Ages, Never
      <3>3. match' \in [Matches -> {"none", "asleep", "due", "told", "lost"}]
        BY <2>5, SMT DEF Tick, AnswerInv, TypeOK
      <3>4. QED
        BY <1>1, <2>5, <3>1, <3>2, <3>3, SMT DEF Tick, AnswerInv, TypeOK
    <2>6. QED
      BY <2>1, <2>2, <2>3, <2>4, <2>5
  <1>4. QED
    BY <1>2, <1>3 DEF AnswerInv

LEMMA NextAnswers == AnswerInv /\ [Next]_vars => AnswerInv'
  <1> SUFFICES ASSUME AnswerInv, [Next]_vars PROVE AnswerInv'
    OBVIOUS
  <1>1. CASE UNCHANGED vars
    <2>1. TypeOK'
      BY <1>1, SMT DEF vars, request, socket, pings, AnswerInv, TypeOK
    <2>2. Answering'
      BY <1>1, SMT DEF vars, request, socket, pings, AnswerInv, Answering, Asked,
                       Writing, Doing
    <2>3. QED
      BY <2>1, <2>2 DEF AnswerInv
  <1>2. CASE Request
    BY <1>2, RequestAnswers
  <1>3. WriteWait \in {Never} \cup 0 .. WriteWait
    BY TransportAssumption, SMT
  <1>4. ASSUME NEW by \in Writers, Write(by), by = "reader" => Writing
        PROVE  AnswerInv'
    <2>1. WriteMessage(by, WriteWait) /\ pingDue' = pingDue
      BY <1>4, Zenon DEF Write
    <2>2. pingDue' \in BOOLEAN
      BY <2>1 DEF AnswerInv, TypeOK
    <2>3. QED
      BY <1>3, <1>4, <2>1, <2>2, WriteAnswers
  <1>5. CASE HandlerWrites
    BY <1>4, <1>5, Zenon DEF HandlerWrites, Writers
  <1>6. CASE Ping
    <2>1. WriteMessage("pinger", writeLeft) /\ pingDue' \in BOOLEAN
      BY <1>6, Zenon DEF Ping
    <2>2. writeLeft \in {Never} \cup 0 .. WriteWait
      BY DEF AnswerInv, TypeOK
    <2>3. "pinger" \in Writers /\ "pinger" # "reader"
      BY DEF Writers
    <2>4. QED
      BY <2>1, <2>2, <2>3, WriteAnswers
  <1>7. CASE Push
    <2>1. Write("drive") /\ "drive" \in Writers /\ "drive" # "reader"
      BY <1>7 DEF Push, Writers
    <2>2. QED
      BY <1>4, <2>1
  <1>8. ASSUME NEW m \in Matches, Notify(m) PROVE AnswerInv'
    <2>1. m \in Writers /\ m # "reader"
      BY TransportAssumption DEF Writers
    <2>2. QED
      BY <1>4, <1>8, <2>1, Zenon DEF Notify
  <1>9. CASE Unblock
    BY <1>9, UnblockAnswers
  <1>10. CASE MatchGame
    BY <1>10, MatchGameAnswers
  <1>11. CASE Pong \/ ReadEnds \/ ClientReads \/ Leave \/ Tick
    BY <1>11, OtherAnswers
  <1>12. CASE HandlerFails
    BY <1>12, FailsAnswers
  <1>13. CASE Delivered
    BY <1>13, DeliveredAnswers
  <1>14. QED
    BY <1>1, <1>2, <1>5, <1>6, <1>7, <1>8, <1>9, <1>10, <1>11, <1>12, <1>13, Zenon
    DEF Next

THEOREM AnswersKept == Spec => []AnswerInv
  BY InitAnswers, NextAnswers, PTL DEF Spec

\* The types: every variable of a connection keeps to its range, whatever the
\* client sends, reads or leaves unread.
THEOREM TypeCorrect == Spec => []TypeOK
  <1>1. AnswerInv => TypeOK
    BY DEF AnswerInv
  <1>2. QED
    BY <1>1, AnswersKept, PTL

\* Every request is answered while the socket takes answers, and a second time
\* only if its handler failed after its answer without a write having failed:
\* after one that did, the answer that Dispatch adds fails as well.
THEOREM EveryRequestAnswered == Spec => []OneAnswerEach
  <1>1. AnswerInv => OneAnswerEach
    BY SMT DEF AnswerInv, TypeOK, Answering, Asked, OneAnswerEach, Never
  <1>2. QED
    BY <1>1, AnswersKept, PTL

-----------------------------------------------------------------------------
(* Time. *)

\* While no write has failed or waited, the read deadline is no nearer than the
\* next ping leaves it, or, with a ping under way, than the age of the oldest.
Timely ==
  /\ pingDue => pingLeft = PingPeriod
  /\ unseen = Never /\ answering = Never =>
       readLeft >= PongWait - PingPeriod + (IF pingDue THEN 0 ELSE pingLeft)
  /\ answering # Never => readLeft + answering >= PongWait - PingPeriod
  /\ answering = Never /\ unseen # Never => readLeft + unseen >= PongWait - PingPeriod

\* Who waits in a write has made it slow; only a failure stops the pinger; and
\* pongs go out in the order of the pings.
Causes ==
  /\ lock # Nobody => slow
  /\ ~pinging => broken
  /\ unseen # Never /\ answering # Never => answering >= unseen

TimeInv ==
  /\ AnswerInv
  /\ Causes
  /\ open /\ ~broken /\ ~slow => Timely
  /\ DroppedForCause

LEMMA TimeFacts ==
  ASSUME TypeOK
  PROVE  /\ readLeft \in Nat /\ readLeft <= PongWait
         /\ pingLeft \in Nat /\ pingLeft >= 1 /\ pingLeft <= PingPeriod
         /\ unseen \in Int /\ unseen >= Never /\ unseen <= PongWait
         /\ answering \in Int /\ answering >= Never /\ answering <= PongWait
         /\ PongWait \in Nat /\ PingPeriod \in Nat /\ Never = -1
         /\ PingPeriod >= 1 /\ PingPeriod < PongWait
  BY TransportAssumption, SMT DEF TypeOK, Ages, Never

LEMMA InitTimely == Init => TimeInv
  <1> SUFFICES ASSUME Init PROVE TimeInv
    OBVIOUS
  <1>1. AnswerInv
    BY InitAnswers
  <1>2. Causes /\ DroppedForCause
    BY SMT DEF Init, Causes, DroppedForCause, Nobody, Never
  <1>3. Timely
    BY TransportAssumption, SMT DEF Init, Timely, Never
  <1>4. QED
    BY <1>1, <1>2, <1>3 DEF TimeInv

LEMMA SameTimely ==
  ASSUME Timely, readLeft' = readLeft, pingLeft' = pingLeft, pingDue' = pingDue,
         unseen' = unseen, answering' = answering
  PROVE  Timely'
  BY SMT DEF Timely

\* A step that leaves the clocks, the pings and the socket alone.
LEMMA SameTime ==
  ASSUME TimeInv, AnswerInv',
         open' = open, left' = left, readLeft' = readLeft, broken' = broken,
         lock' = lock, slow' = slow, pingLeft' = pingLeft, pingDue' = pingDue,
         pinging' = pinging, unseen' = unseen, answering' = answering
  PROVE  TimeInv'
  <1>1. Causes'
    BY SMT DEF TimeInv, Causes
  <1>2. (open /\ ~broken /\ ~slow => Timely)'
    BY SMT DEF TimeInv, Timely
  <1>3. DroppedForCause'
    BY SMT DEF TimeInv, DroppedForCause, Unanswered
  <1>4. QED
    BY <1>1, <1>2, <1>3 DEF TimeInv

\* What a writer's return means for the pings.
LEMMA ReturnedPings ==
  ASSUME NEW by, NEW ok \in BOOLEAN, Returned(by, ok)
  PROVE  /\ by # "pinger" => pinging' = pinging /\ unseen' = unseen
         /\ by = "pinger" /\ ok => /\ pinging' = TRUE
                                   /\ unseen' = IF unseen = Never THEN 0 ELSE unseen
         /\ ~ok => unseen' = unseen
  BY SMT DEF Returned

\* The write fails, succeeds or waits.
Outcome(by) ==
  \/ broken' = TRUE /\ slow' = slow /\ lock' = lock /\ unseen' = unseen
  \/ /\ broken' = broken /\ slow' = slow /\ lock' = lock
     /\ IF by = "pinger"
          THEN pinging' = TRUE /\ unseen' = IF unseen = Never THEN 0 ELSE unseen
          ELSE pinging' = pinging /\ unseen' = unseen
  \/ /\ broken' = broken /\ slow' = TRUE /\ lock' = by
     /\ pinging' = pinging /\ unseen' = unseen

LEMMA WriteOutcomes ==
  ASSUME NEW by, NEW d, WriteMessage(by, d)
  PROVE  Outcome(by)
  <1>1. CASE Fails(by) /\ lock' = lock
    <2>1. broken' = TRUE /\ Returned(by, FALSE) /\ UNCHANGED <<unread, slow>>
      BY <1>1, Zenon DEF Fails
    <2>2. unseen' = unseen
      BY <2>1, ReturnedPings
    <2>3. slow' = slow
      BY <2>1
    <2>4. QED
      BY <1>1, <2>1, <2>2, <2>3, Zenon DEF Outcome
  <1>2. CASE Returned(by, TRUE) /\ UNCHANGED <<broken, lock, slow>>
    <2>1. IF by = "pinger"
            THEN pinging' = TRUE /\ unseen' = IF unseen = Never THEN 0 ELSE unseen
            ELSE pinging' = pinging /\ unseen' = unseen
      BY <1>2, ReturnedPings, Zenon
    <2>2. broken' = broken /\ lock' = lock /\ slow' = slow
      BY <1>2
    <2>3. QED
      BY <2>1, <2>2, Zenon DEF Outcome
  <1>3. CASE /\ lock' = by /\ slow' = TRUE
             /\ UNCHANGED <<todo, answers, broken, unread, pinging, unseen, match>>
    BY <1>3, SMT DEF Outcome
  <1>4. QED
    BY <1>1, <1>2, <1>3, Zenon DEF WriteMessage

\* A write that fails or has to wait breaks the socket or makes it slow; one
\* that succeeds is a ping or changes nothing here.
LEMMA WriteTimely ==
  ASSUME TimeInv, AnswerInv',
         NEW by, NEW d, WriteMessage(by, d),
         pingDue' = IF by = "pinger" THEN FALSE ELSE pingDue,
         by = "pinger" => pingDue
  PROVE  TimeInv'
  <1>0. Outcome(by)
    BY WriteOutcomes, Zenon
  <1>1. /\ open' = open /\ left' = left /\ readLeft' = readLeft
        /\ pingLeft' = pingLeft /\ answering' = answering
    BY SMT DEF WriteMessage
  <1>2. /\ unseen' = unseen \/ (unseen = Never /\ unseen' = 0)
        /\ broken => broken'
        /\ slow => slow'
        /\ lock' # Nobody => slow'
        /\ ~pinging' => broken' \/ ~pinging
    <2>1. lock = Nobody
      BY Zenon DEF WriteMessage
    <2>2. broken \in BOOLEAN /\ slow \in BOOLEAN /\ pinging \in BOOLEAN
      BY DEF TimeInv, AnswerInv, TypeOK
    <2>3. QED
      BY <1>0, <2>1, <2>2, SMT DEF Outcome
  <1>3. Causes'
    <2>1. answering \in Int /\ (answering # Never => answering >= 0)
      BY TimeFacts, SMT DEF TimeInv, AnswerInv
    <2>2. QED
      BY <1>1, <1>2, <2>1, SMT DEF TimeInv, Causes, Never
  <1>4. ASSUME open', ~broken', ~slow' PROVE Timely'
    <2>1. Timely
      BY <1>1, <1>2, <1>4 DEF TimeInv
    <2>2. CASE by = "pinger"
      <3>1. /\ pingDue /\ pingDue' = FALSE
            /\ unseen' = IF unseen = Never THEN 0 ELSE unseen
        BY <1>0, <1>4, <2>2, SMT DEF Outcome
      <3>2. QED
        BY <1>1, <2>1, <3>1, TimeFacts, SMT DEF TimeInv, AnswerInv, Timely
    <2>3. CASE by # "pinger"
      <3>1. pingDue' = pingDue
        BY <2>3, Zenon
      <3>2. unseen' = unseen
        <4>1. \/ unseen' = unseen
              \/ IF by = "pinger"
                   THEN pinging' = TRUE /\ unseen' = IF unseen = Never THEN 0 ELSE unseen
                   ELSE pinging' = pinging /\ unseen' = unseen
          BY <1>0, Zenon DEF Outcome
        <4>2. QED
          BY <2>3, <4>1, Zenon
      <3>3. QED
        BY <1>1, <2>1, <3>1, <3>2, SameTimely, Zenon
    <2>4. QED
      BY <2>2, <2>3
  <1>5. DroppedForCause'
    BY <1>1, <1>2, SMT DEF TimeInv, DroppedForCause, Unanswered, Never
  <1>6. QED
    BY <1>3, <1>4, <1>5 DEF TimeInv

LEMMA UnblockTimely ==
  ASSUME TimeInv, AnswerInv', Unblock
  PROVE  TimeInv'
  <1>1. /\ open' = open /\ left' = left /\ answering' = answering
        /\ lock # Nobody /\ lock' = Nobody
    BY SMT DEF Unblock
  <1>2. /\ unseen' = unseen \/ (unseen = Never /\ unseen' = 0)
        /\ slow' = slow
        /\ broken => broken'
        /\ ~pinging' => broken' \/ ~pinging
    <2>1. CASE Fails(lock)
      <3>1. broken' = TRUE /\ Returned(lock, FALSE) /\ UNCHANGED <<unread, slow>>
        BY <2>1, Zenon DEF Fails
      <3>2. unseen' = unseen
        BY <3>1, ReturnedPings
      <3>3. slow' = slow
        BY <3>1
      <3>4. QED
        BY <3>1, <3>2, <3>3, Zenon
    <2>2. CASE Returned(lock, TRUE) /\ UNCHANGED <<broken, slow>>
      <3>1. /\ lock # "pinger" => pinging' = pinging /\ unseen' = unseen
            /\ lock = "pinger" => /\ pinging' = TRUE
                                  /\ unseen' = IF unseen = Never THEN 0 ELSE unseen
        BY <2>2, ReturnedPings, Zenon
      <3>2. broken' = broken /\ slow' = slow
        BY <2>2
      <3>3. pinging \in BOOLEAN /\ broken \in BOOLEAN
        BY DEF TimeInv, AnswerInv, TypeOK
      <3>4. QED
        BY <3>1, <3>2, <3>3, SMT
    <2>3. QED
      BY <2>1, <2>2, Zenon DEF Unblock
  <1>3. slow
    BY <1>1, SMT DEF TimeInv, Causes
  <1>4. Causes'
    <2>1. answering \in Int /\ (answering # Never => answering >= 0)
      BY TimeFacts, SMT DEF TimeInv, AnswerInv
    <2>2. QED
      BY <1>1, <1>2, <2>1, SMT DEF TimeInv, Causes, Never
  <1>5. DroppedForCause'
    BY <1>2, <1>3, SMT DEF DroppedForCause
  <1>6. QED
    BY <1>2, <1>3, <1>4, <1>5 DEF TimeInv

\* The pong of the oldest ping: the read deadline is set anew.
LEMMA PongTimely ==
  ASSUME TimeInv, AnswerInv', Pong
  PROVE  TimeInv'
  <1>1. /\ open /\ open' = open /\ left' = left /\ broken' = broken
        /\ lock' = lock /\ slow' = slow /\ pingLeft' = pingLeft
        /\ pingDue' = pingDue /\ pinging' = pinging /\ unseen' = unseen
        /\ answering' = Never /\ readLeft' = PongWait
    BY SMT DEF Pong, Reading, socket
  <1>2. Causes'
    BY <1>1, SMT DEF TimeInv, Causes
  <1>3. ASSUME Timely PROVE Timely'
    <2>1. unseen # Never => unseen >= 0
      BY TimeFacts, SMT DEF TimeInv, AnswerInv
    <2>2. QED
      BY <1>1, <1>3, <2>1, TimeFacts, SMT DEF TimeInv, AnswerInv, Timely
  <1>4. DroppedForCause'
    BY <1>1, SMT DEF DroppedForCause
  <1>5. QED
    BY <1>1, <1>2, <1>3, <1>4 DEF TimeInv

\* The read deadline passes only with a ping unanswered.
LEMMA ReadEndsTimely ==
  ASSUME TimeInv, AnswerInv', ReadEnds
  PROVE  TimeInv'
  <1>1. /\ open /\ open' = FALSE /\ left' = left /\ readLeft' = readLeft
        /\ broken' = broken /\ lock' = lock /\ slow' = slow
        /\ pinging' = pinging /\ unseen' = unseen /\ answering' = answering
        /\ left \/ readLeft = 0
    BY SMT DEF ReadEnds, Reading, request, socket, pings
  <1>2. Causes'
    BY <1>1, SMT DEF TimeInv, Causes
  <1>3. ASSUME ~left, ~broken, ~slow PROVE Unanswered
    <2>1. Timely
      BY <1>1, <1>3 DEF TimeInv
    <2>2. unseen # Never \/ answering # Never
      BY <1>1, <1>3, <2>1, TimeFacts, SMT DEF TimeInv, AnswerInv, Timely
    <2>3. CASE answering # Never
      BY <1>1, <1>3, <2>1, <2>3, TimeFacts, SMT
      DEF TimeInv, AnswerInv, Timely, Unanswered
    <2>4. CASE answering = Never
      BY <1>1, <1>3, <2>1, <2>2, <2>4, TimeFacts, SMT
      DEF TimeInv, AnswerInv, Timely, Unanswered
    <2>5. QED
      BY <2>3, <2>4
  <1>4. DroppedForCause'
    BY <1>1, <1>3, SMT DEF DroppedForCause, Unanswered
  <1>5. QED
    BY <1>1, <1>2, <1>4 DEF TimeInv

\* The client reads: the oldest ping stays the oldest.
LEMMA ReadsTimely ==
  ASSUME TimeInv, AnswerInv', ClientReads
  PROVE  TimeInv'
  <1>1. /\ open' = open /\ left' = left /\ readLeft' = readLeft
        /\ broken' = broken /\ lock' = lock /\ slow' = slow
        /\ pingLeft' = pingLeft /\ pingDue' = pingDue /\ pinging' = pinging
        /\ unseen' = Never
        /\ answering' = IF answering = Never THEN unseen ELSE answering
    BY SMT DEF ClientReads
  <1>2. Causes'
    BY <1>1, SMT DEF TimeInv, Causes
  <1>3. ASSUME Timely PROVE Timely'
    BY <1>1, <1>3, SMT DEF Timely
  <1>4. Unanswered => Unanswered'
    BY <1>1, TimeFacts, SMT DEF TimeInv, AnswerInv, Causes, Unanswered
  <1>5. DroppedForCause'
    BY <1>1, <1>4, SMT DEF TimeInv, DroppedForCause
  <1>6. QED
    BY <1>1, <1>2, <1>3, <1>5 DEF TimeInv

\* The client leaves.
LEMMA LeaveTimely ==
  ASSUME TimeInv, AnswerInv', Leave
  PROVE  TimeInv'
  <1>1. /\ open' = open /\ left' = TRUE /\ readLeft' = readLeft
        /\ broken' = broken /\ lock' = lock /\ slow' = slow
        /\ pingLeft' = pingLeft /\ pingDue' = pingDue /\ pinging' = pinging
        /\ unseen' = unseen /\ answering' = answering
    BY SMT DEF Leave, socket, pings
  <1>2. Causes'
    BY <1>1, SMT DEF TimeInv, Causes
  <1>3. (open /\ ~broken /\ ~slow => Timely)'
    BY <1>1, SMT DEF TimeInv, Timely
  <1>4. DroppedForCause'
    BY <1>1, SMT DEF DroppedForCause
  <1>5. QED
    BY <1>2, <1>3, <1>4 DEF TimeInv

\* A unit of time: what the read deadline loses, the next ping comes nearer by,
\* or the oldest ages by.
LEMMA TickTimely ==
  ASSUME TimeInv, AnswerInv', Tick
  PROVE  TimeInv'
  <1>1. /\ open' = open /\ left' = left /\ broken' = broken /\ lock' = lock
        /\ slow' = slow /\ pinging' = pinging /\ todo' = todo
        /\ readLeft' = Less(readLeft)
        /\ pingLeft' = IF pingLeft = 1 THEN PingPeriod ELSE pingLeft - 1
        /\ pingDue' = (pingDue \/ pingLeft = 1)
        /\ unseen' = Older(unseen) /\ answering' = Older(answering)
    BY SMT DEF Tick, request
  <1>2. /\ unseen = Never <=> unseen' = Never
        /\ answering = Never <=> answering' = Never
        /\ unseen' >= unseen /\ answering' >= answering
        /\ unseen' \in Int /\ answering' \in Int
    BY <1>1, TimeFacts, SMT DEF TimeInv, AnswerInv, Older
  <1>3. Causes'
    <2>1. unseen # Never /\ answering # Never => answering' >= unseen'
      BY <1>1, TimeFacts, SMT DEF TimeInv, AnswerInv, Causes, Older
    <2>2. QED
      BY <1>1, <1>2, <2>1, SMT DEF TimeInv, Causes
  <1>4. ASSUME open, ~broken, ~slow PROVE Timely'
    <2>1. Timely
      BY <1>4 DEF TimeInv
    <2>2. lock = Nobody /\ pinging
      BY <1>4 DEF TimeInv, Causes
    <2>3. ~pingDue
      BY <1>4, <2>2, SMT DEF Tick, Quiet
    <2>4. readLeft' >= readLeft - 1 /\ readLeft' \in Nat
      BY <1>1, TimeFacts, SMT DEF TimeInv, AnswerInv, Less
    <2>5. (IF pingDue' THEN 0 ELSE pingLeft') = pingLeft - 1
      <3>1. CASE pingLeft = 1
        <4>1. pingDue'
          BY <1>1, <3>1
        <4>2. QED
          BY <3>1, <4>1, SMT
      <3>2. CASE pingLeft # 1
        <4>1. ~pingDue' /\ pingLeft' = pingLeft - 1
          BY <1>1, <2>3, <3>2
        <4>2. QED
          BY <4>1
      <3>3. QED
        BY <3>1, <3>2
    <2>6. unseen' = Never /\ answering' = Never =>
            readLeft' >= PongWait - PingPeriod + (IF pingDue' THEN 0 ELSE pingLeft')
      BY <1>2, <2>1, <2>3, <2>4, <2>5, TimeFacts, SMT DEF TimeInv, AnswerInv, Timely
    <2>7. answering' # Never => readLeft' + answering' >= PongWait - PingPeriod
      BY <1>1, <1>2, <2>1, <2>4, TimeFacts, SMT
      DEF TimeInv, AnswerInv, Timely, Older
    <2>8. answering' = Never /\ unseen' # Never =>
            readLeft' + unseen' >= PongWait - PingPeriod
      BY <1>1, <1>2, <2>1, <2>4, TimeFacts, SMT
      DEF TimeInv, AnswerInv, Timely, Older
    <2>9. pingDue' => pingLeft' = PingPeriod
      BY <1>1, <2>3, Zenon
    <2>10. QED
      BY <2>5, <2>6, <2>7, <2>8, <2>9, Zenon DEF Timely
  <1>5. ASSUME Unanswered PROVE Unanswered'
    <2>1. CASE unseen # Never /\ unseen >= PongWait - PingPeriod
      <3>1. unseen' # Never /\ unseen' >= PongWait - PingPeriod
        BY <1>2, <2>1, TimeFacts, SMT DEF TimeInv, AnswerInv
      <3>2. QED
        BY <3>1, Zenon DEF Unanswered
    <2>2. CASE answering # Never /\ answering >= PongWait - PingPeriod
      <3>1. answering' # Never /\ answering' >= PongWait - PingPeriod
        BY <1>2, <2>2, TimeFacts, SMT DEF TimeInv, AnswerInv
      <3>2. QED
        BY <3>1, Zenon DEF Unanswered
    <2>3. PICK a \in {unseen, answering} : a # Never /\ a >= PongWait - PingPeriod
      BY <1>5, Zenon DEF Unanswered
    <2>4. QED
      BY <2>1, <2>2, <2>3
  <1>6. DroppedForCause'
    BY <1>1, <1>5, SMT DEF TimeInv, DroppedForCause
  <1>7. QED
    BY <1>1, <1>3, <1>4, <1>6 DEF TimeInv

LEMMA NextTimely == TimeInv /\ [Next]_vars => TimeInv'
  <1> SUFFICES ASSUME TimeInv, [Next]_vars PROVE TimeInv'
    OBVIOUS
  <1>1. AnswerInv'
    BY NextAnswers DEF TimeInv
  <1>2. CASE Request \/ HandlerFails \/ Delivered \/ MatchGame \/ UNCHANGED vars
    <2>1. /\ open' = open /\ left' = left /\ readLeft' = readLeft
          /\ broken' = broken /\ lock' = lock /\ slow' = slow
          /\ pingLeft' = pingLeft /\ pingDue' = pingDue /\ pinging' = pinging
          /\ unseen' = unseen /\ answering' = answering
      <3>1. CASE Request
        BY <3>1, SMT DEF Request, socket, pings
      <3>2. CASE HandlerFails
        BY <3>2, SMT DEF HandlerFails, socket, pings
      <3>3. CASE Delivered
        BY <3>3, SMT DEF Delivered, socket, pings
      <3>4. CASE MatchGame
        BY <3>4, SMT DEF MatchGame, socket, pings
      <3>5. CASE UNCHANGED vars
        BY <3>5, SMT DEF vars, socket, pings
      <3>6. QED
        BY <1>2, <3>1, <3>2, <3>3, <3>4, <3>5, Zenon
    <2>2. QED
      BY <1>1, <2>1, SameTime
  <1>3. ASSUME NEW by, Write(by), by # "pinger" PROVE TimeInv'
    <2>1. WriteMessage(by, WriteWait) /\ pingDue' = pingDue
      BY <1>3, Zenon DEF Write
    <2>2. pingDue' = IF by = "pinger" THEN FALSE ELSE pingDue
      BY <1>3, <2>1
    <2>3. QED
      BY <1>1, <1>3, <2>1, <2>2, WriteTimely, Zenon
  <1>4. CASE HandlerWrites \/ Push \/ \E m \in Matches : Notify(m)
    <2>1. \A m \in Matches : m # "pinger"
      BY TransportAssumption
    <2>2. "reader" # "pinger" /\ "drive" # "pinger"
      OBVIOUS
    <2>3. QED
      BY <1>3, <1>4, <2>1, <2>2, Zenon DEF HandlerWrites, Push, Notify
  <1>5. CASE Ping
    <2>1. /\ pingDue /\ WriteMessage("pinger", writeLeft)
          /\ pingDue' = IF "pinger" = "pinger" THEN FALSE ELSE pingDue
      BY <1>5, Zenon DEF Ping
    <2>2. QED
      BY <1>1, <2>1, WriteTimely, Zenon
  <1>6. QED
    BY <1>1, <1>2, <1>4, <1>5, UnblockTimely, PongTimely, ReadEndsTimely,
       ReadsTimely, LeaveTimely, TickTimely, Zenon DEF Next

\* A connection is dropped only because its client left, left a ping unanswered
\* for the slack between the two periods, or took no frames, or because a write
\* had failed: the last is what an idle connection comes to at its first ping.
THEOREM DropsHaveCause == Spec => []DroppedForCause
  <1>1. TimeInv => DroppedForCause
    BY DEF TimeInv
  <1>2. QED
    BY <1>1, InitTimely, NextTimely, PTL DEF Spec
=============================================================================
