---------------------------- MODULE SessionProofs ----------------------------
(***************************************************************************)
(* The safety of the game surface, for every set of connections and games  *)
(* and every number of sessions, inputs and turns.                         *)
(***************************************************************************)
EXTENDS Session, SequenceTheorems, TLAPS

\* authGame has made a session newer than the others of its connection, until
\* it is stored.
Storing ==
  \A c \in Conns :
    loop[c] = "storing" =>
      \E m \in DOMAIN session :
        /\ session[m].conn = c
        /\ \A k \in DOMAIN session : session[k].conn = c => k <= m

\* h.sessions holds the newest session of each connection.
Current ==
  \A c \in Conns :
    /\ sessions[c] # 0 => session[sessions[c]].conn = c
    /\ loop[c] # "storing" =>
         \A k \in DOMAIN session : session[k].conn = c => k <= sessions[c]

\* A session and its round know each other.
Owned ==
  /\ \A d \in DOMAIN drives : session[drives[d].owner].drv = d
  /\ \A k \in DOMAIN session :
       session[k].drv # 0 => drives[session[k].drv].owner = k

\* The rounds of a connection are started in the order of its sessions.
Succession ==
  \A d, e \in DOMAIN drives :
    ConnOf(d) = ConnOf(e) /\ d < e => drives[d].owner < drives[e].owner

\* A round waits to be announced by the handler that dealt it.
Dealt ==
  \A c \in Conns :
    loop[c] = "starting" =>
      /\ sessions[c] # 0
      /\ session[sessions[c]].drv # 0
      /\ drives[session[sessions[c]].drv].stage = "dealt"

\* A read loop is blocked on a round of its own connection.
Sender ==
  \A c \in Conns :
    loop[c] = "sending" => /\ sending[c].drv \in DOMAIN drives
                           /\ ConnOf(sending[c].drv) = c

Links == Storing /\ Current /\ Owned /\ Succession

\* A round takes the inputs of the connection that started it and no others.
InputsStayOnConnection ==
  \A d \in DOMAIN drives :
    Range(drives[d].delivered) \subseteq 1 .. inputs[ConnOf(d)]

SessionInv ==
  /\ TypeOK /\ Links /\ Dealt /\ Sender
  /\ InputsInOrder /\ InputsStayOnConnection /\ InputsFollowSession
-----------------------------------------------------------------------------
(* Types.                                                                  *)

LEMMA InitSession == Init => SessionInv
<1> SUFFICES ASSUME Init PROVE SessionInv
  OBVIOUS
<1> USE SessionAssumption DEF Init
<1>1. TypeOK
  BY DEF TypeOK, Idle
<1>2. Links
  BY DEF Links, Storing, Current, Owned, Succession
<1>3. Dealt /\ Sender
  BY DEF Dealt, Sender
<1>4. InputsInOrder /\ InputsStayOnConnection /\ InputsFollowSession
  BY DEF InputsInOrder, InputsStayOnConnection, InputsFollowSession
<1> QED
  BY <1>1, <1>2, <1>3, <1>4 DEF SessionInv

(* The newest session of a connection, as StoreSession computes it.        *)
LEMMA Newest ==
  ASSUME NEW c \in Conns, loop[c] = "storing", TypeOK, Storing,
         NEW m, m = Max({k \in DOMAIN session : session[k].conn = c})
  PROVE  /\ m \in DOMAIN session
         /\ session[m].conn = c
         /\ \A k \in DOMAIN session : session[k].conn = c => k <= m
<1> DEFINE S == {k \in DOMAIN session : session[k].conn = c}
<1>1. \E n \in S : \A k \in S : n >= k
  BY DEF Storing, TypeOK
<1>2. Max(S) \in S /\ \A k \in S : Max(S) >= k
  BY <1>1 DEF Max
<1> QED
  BY <1>2 DEF TypeOK

LEMMA NewDriveType ==
  ASSUME NEW k \in Nat
  PROVE  NewDrive(k) \in Drv
BY DEF NewDrive, Drv, Stages

(* What the types say of an index.                                         *)
LEMMA TypeFacts ==
  ASSUME TypeOK
  PROVE  /\ drives \in Seq(Drv) /\ session \in Seq(Session)
         /\ Len(drives) \in Nat /\ DOMAIN drives = 1 .. Len(drives)
         /\ Len(session) \in Nat /\ DOMAIN session = 1 .. Len(session)
         /\ \A d \in DOMAIN drives : /\ drives[d] \in Drv
                                     /\ drives[d].owner \in DOMAIN session
                                     /\ drives[d].stage \in Stages
                                     /\ Len(drives[d].box) <= 1
         /\ \A k \in DOMAIN session : /\ session[k] \in Session
                                      /\ session[k].conn \in Conns
                                      /\ session[k].drv \in 0 .. Len(drives)
         /\ \A c \in Conns : /\ sessions[c] \in 0 .. Len(session)
                             /\ inputs[c] \in 0 .. MaxInputs
<1>1. /\ drives \in Seq(Drv) /\ session \in Seq(Session)
      /\ Len(drives) \in Nat /\ DOMAIN drives = 1 .. Len(drives)
      /\ Len(session) \in Nat /\ DOMAIN session = 1 .. Len(session)
  BY DEF TypeOK
<1>2. /\ \A d \in DOMAIN drives : drives[d] \in Drv
      /\ \A k \in DOMAIN session : session[k] \in Session
  BY <1>1
<1>3. \A d \in DOMAIN drives : drives[d].stage \in Stages
  BY <1>2 DEF Drv
<1>4. \A k \in DOMAIN session : session[k].conn \in Conns
  BY <1>2 DEF Session
<1> QED
  BY <1>1, <1>2, <1>3, <1>4 DEF TypeOK

(* A step that changes one drive leaves the others as they are.            *)
LEMMA DriveChanged ==
  ASSUME drives \in Seq(Drv), NEW d \in DOMAIN drives, NEW x \in Drv,
         drives' = [drives EXCEPT ![d] = x]
  PROVE  /\ drives' \in Seq(Drv)
         /\ DOMAIN drives' = DOMAIN drives
         /\ Len(drives') = Len(drives)
         /\ \A e \in DOMAIN drives \ {d} : drives'[e] = drives[e]
         /\ drives'[d] = x
<1>1. d \in 1 .. Len(drives) /\ DOMAIN drives = 1 .. Len(drives)
  OBVIOUS
<1>2. /\ [drives EXCEPT ![d] = x] \in Seq(Drv)
      /\ Len([drives EXCEPT ![d] = x]) = Len(drives)
  BY <1>1, ExceptSeq
<1> QED
  BY <1>1, <1>2

(* A step of a drive's goroutine changes its own drive alone, and neither  *)
(* its owner nor what was delivered to it.                                 *)
LEMMA DriveSteps ==
  ASSUME TypeOK, NEW d \in DOMAIN drives, DriveStep(d)
  PROVE  /\ UNCHANGED loopVars
         /\ drives' \in Seq(Drv)
         /\ DOMAIN drives' = DOMAIN drives
         /\ Len(drives') = Len(drives)
         /\ \A e \in DOMAIN drives \ {d} : drives'[e] = drives[e]
         /\ drives'[d].owner = drives[d].owner
         /\ drives'[d].delivered = drives[d].delivered
         /\ drives[d].stage # "dealt"
         /\ Len(drives'[d].box) <= 1
         /\ drives'[d].taken \o drives'[d].box = drives[d].taken \o drives[d].box
<1> DEFINE Moved(x) == /\ x.owner = drives[d].owner
                       /\ x.delivered = drives[d].delivered
                       /\ Len(x.box) <= 1
                       /\ x.taken \o x.box = drives[d].taken \o drives[d].box
<1>1. /\ drives \in Seq(Drv) /\ drives[d] \in Drv /\ Len(drives[d].box) <= 1
      /\ drives[d].turns \in Nat
  <2>1. drives \in Seq(Drv) /\ drives[d] \in Drv /\ Len(drives[d].box) <= 1
    BY DEF TypeOK
  <2> QED
    BY <2>1 DEF Drv
<1>3. CASE Ask(d)
  <2> DEFINE x == [drives[d] EXCEPT !.stage = IF drives[d].registered
                                                THEN "asking" ELSE "registering",
                                    !.turns = @ + 1]
  <2>1. drives[d].turns + 1 \in Nat
    BY <1>1
  <2>2. x \in Drv /\ Moved(x)
    BY <1>1, <2>1 DEF Drv, Stages
  <2>3. drives' = [drives EXCEPT ![d] = x] /\ drives[d].stage # "dealt" /\ UNCHANGED loopVars
    BY <1>3, <1>1 DEF Ask, Drv
  <2> QED
    BY <1>1, DriveChanged, <2>2, <2>3
<1>4. CASE Register(d)
  <2> DEFINE x == [drives[d] EXCEPT !.stage = "asking", !.registered = TRUE]
  <2>1. x \in Drv /\ Moved(x)
    BY <1>1 DEF Drv, Stages
  <2>2. drives' = [drives EXCEPT ![d] = x] /\ drives[d].stage # "dealt" /\ UNCHANGED loopVars
    BY <1>4, <1>1 DEF Register, Drv
  <2> QED
    BY <1>1, DriveChanged, <2>1, <2>2
<1>5. CASE TakeInput(d)
  <2> DEFINE t == drives[d].taken \o drives[d].box
             x == [drives[d] EXCEPT !.stage = "playing", !.box = << >>, !.taken = t]
  <2>1. drives[d].taken \in Seq(Nat) /\ drives[d].box \in Seq(Nat)
    BY <1>1 DEF Drv
  <2>2. t \in Seq(Nat)
    BY <2>1, ConcatProperties
  <2>3. t \o << >> = t
    BY <2>2, ConcatEmptySeq
  <2>4. drives' = [drives EXCEPT ![d] = x] /\ drives[d].stage # "dealt" /\ UNCHANGED loopVars
    BY <1>5, <1>1 DEF TakeInput, Drv
  <2>5. t = drives[d].taken \o drives[d].box
    OBVIOUS
  <2>8. << >> \in Seq(Nat) /\ "playing" \in Stages
    BY DEF Stages
  <2> HIDE DEF t
  <2>6. /\ x \in Drv /\ x.box = << >> /\ x.taken = t
        /\ x.owner = drives[d].owner /\ x.delivered = drives[d].delivered
    BY <1>1, <2>2, <2>8 DEF Drv
  <2> HIDE DEF x
  <2>7. Moved(x)
    BY <2>3, <2>5, <2>6
  <2> QED
    BY <1>1, DriveChanged, <2>4, <2>6, <2>7
<1>6. ASSUME NEW from \in Stages, NEW to \in Stages, from # "dealt",
             Goes(d, from, to)
      PROVE  /\ \E x \in Drv : drives' = [drives EXCEPT ![d] = x] /\ Moved(x)
             /\ drives[d].stage # "dealt"
             /\ UNCHANGED loopVars
  <2> DEFINE x == [drives[d] EXCEPT !.stage = to]
  <2>1. x \in Drv /\ Moved(x)
    BY <1>1 DEF Drv
  <2>2. drives' = [drives EXCEPT ![d] = x] /\ drives[d].stage # "dealt" /\ UNCHANGED loopVars
    BY <1>6, <1>1 DEF Goes, Drv
  <2> QED
    BY <2>1, <2>2
<1>7. CASE Settle(d) \/ FailRound(d) \/ FailArchive(d)
  <2>1. /\ \E x \in Drv : drives' = [drives EXCEPT ![d] = x] /\ Moved(x)
        /\ drives[d].stage # "dealt"
        /\ UNCHANGED loopVars
    BY <1>6, <1>7 DEF Settle, FailRound, FailArchive, Stages
  <2> QED
    BY <1>1, DriveChanged, <2>1
<1>8. CASE SaveRecord(d)
  <2> DEFINE x == [drives[d] EXCEPT !.stage = "recorded", !.saved = TRUE]
  <2>1. x \in Drv /\ Moved(x)
    BY <1>1 DEF Drv, Stages
  <2>2. drives' = [drives EXCEPT ![d] = x] /\ drives[d].stage # "dealt" /\ UNCHANGED loopVars
    BY <1>8, <1>1 DEF SaveRecord, Drv
  <2> QED
    BY <1>1, DriveChanged, <2>1, <2>2
<1>9. CASE CreditRound(d)
  <2> DEFINE x == [drives[d] EXCEPT !.stage = "done", !.credited = TRUE]
  <2>1. x \in Drv /\ Moved(x)
    BY <1>1 DEF Drv, Stages
  <2>2. drives' = [drives EXCEPT ![d] = x] /\ drives[d].stage # "dealt" /\ UNCHANGED loopVars
    BY <1>9, <1>1 DEF CreditRound, Drv
  <2> QED
    BY <1>1, DriveChanged, <2>1, <2>2
<1> QED
  BY <1>3, <1>4, <1>5, <1>7, <1>8, <1>9 DEF DriveStep

(* What Deliver does to the drive it is called for, and to no other.       *)
LEMMA Delivery ==
  ASSUME TypeOK, NEW c \in Conns, NEW d \in DOMAIN drives, Deliver(c, d)
  PROVE  /\ drives' \in Seq(Drv)
         /\ DOMAIN drives' = DOMAIN drives
         /\ Len(drives') = Len(drives)
         /\ \A e \in DOMAIN drives \ {d} : drives'[e] = drives[e]
         /\ Len(drives'[d].box) <= 1
         /\ drives'[d].owner = drives[d].owner
         /\ drives'[d].stage = drives[d].stage
         /\ drives'[d].saved = drives[d].saved
         /\ drives'[d].credited = drives[d].credited
         /\ drives'[d].taken = drives[d].taken
         /\ \/ /\ drives' = drives
               /\ UNCHANGED <<loop, sending>>
            \/ /\ drives'[d].delivered = Append(drives[d].delivered, inputs[c] + 1)
               /\ \/ /\ drives[d].box = << >>
                     /\ drives'[d].box = <<inputs[c] + 1>>
                     /\ UNCHANGED <<loop, sending>>
                  \/ /\ drives'[d].box = drives[d].box
                     /\ loop' = [loop EXCEPT ![c] = "sending"]
                     /\ sending' = [sending EXCEPT ![c] =
                                      [drv |-> d, input |-> inputs[c] + 1]]
<1> DEFINE i == inputs[c] + 1
<1>1. /\ drives \in Seq(Drv) /\ drives[d] \in Drv /\ Len(drives[d].box) <= 1
      /\ i \in Nat
  BY SessionAssumption DEF TypeOK
<1>2. drives[d].delivered \in Seq(Nat)
  BY <1>1 DEF Drv
<1> DEFINE a == Append(drives[d].delivered, i)
           b == <<i>>
<1>3. a \in Seq(Nat) /\ b \in Seq(Nat) /\ Len(b) = 1
  BY <1>1, <1>2, AppendProperties
<1>4. CASE ~drives[d].registered
  BY <1>1, <1>4 DEF Deliver
<1>5. CASE drives[d].registered /\ drives[d].box = << >>
  <2> DEFINE x == [drives[d] EXCEPT !.box = b, !.delivered = a]
  <2>1. /\ drives' = [drives EXCEPT ![d] = x]
        /\ UNCHANGED <<loop, sending>>
    BY <1>1, <1>5 DEF Deliver, Drv
  <2>2. a = Append(drives[d].delivered, inputs[c] + 1) /\ b = <<inputs[c] + 1>>
    OBVIOUS
  <2> HIDE DEF a, b
  <2>3. /\ x \in Drv /\ x.box = b /\ x.delivered = a
        /\ x.owner = drives[d].owner /\ x.stage = drives[d].stage
        /\ x.saved = drives[d].saved /\ x.credited = drives[d].credited
        /\ x.taken = drives[d].taken
    BY <1>1, <1>3 DEF Drv
  <2> HIDE DEF x
  <2>4. /\ drives' \in Seq(Drv)
        /\ DOMAIN drives' = DOMAIN drives
        /\ Len(drives') = Len(drives)
        /\ \A e \in DOMAIN drives \ {d} : drives'[e] = drives[e]
        /\ drives'[d] = x
    BY <1>1, DriveChanged, <2>1, <2>3
  <2>5. /\ drives'[d].delivered = Append(drives[d].delivered, inputs[c] + 1)
        /\ drives'[d].box = <<inputs[c] + 1>>
    BY <2>2, <2>3, <2>4
  <2>6. Len(drives'[d].box) <= 1
    BY <2>5
  <2> QED
    BY <1>5, <2>1, <2>3, <2>4, <2>5, <2>6
<1>6. CASE drives[d].registered /\ drives[d].box # << >>
  <2> DEFINE x == [drives[d] EXCEPT !.delivered = a]
  <2>1. /\ drives' = [drives EXCEPT ![d] = x]
        /\ loop' = [loop EXCEPT ![c] = "sending"]
        /\ sending' = [sending EXCEPT ![c] = [drv |-> d, input |-> inputs[c] + 1]]
    BY <1>1, <1>6 DEF Deliver, Drv
  <2>2. a = Append(drives[d].delivered, inputs[c] + 1)
    OBVIOUS
  <2> HIDE DEF a
  <2>3. /\ x \in Drv /\ x.box = drives[d].box /\ x.delivered = a
        /\ x.owner = drives[d].owner /\ x.stage = drives[d].stage
        /\ x.saved = drives[d].saved /\ x.credited = drives[d].credited
        /\ x.taken = drives[d].taken
    BY <1>1, <1>3 DEF Drv
  <2> HIDE DEF x
  <2>4. /\ drives' \in Seq(Drv)
        /\ DOMAIN drives' = DOMAIN drives
        /\ Len(drives') = Len(drives)
        /\ \A e \in DOMAIN drives \ {d} : drives'[e] = drives[e]
        /\ drives'[d] = x
    BY <1>1, DriveChanged, <2>1, <2>3
  <2> QED
    BY <1>1, <1>6, <2>1, <2>2, <2>3, <2>4
<1> QED
  BY <1>1, <1>4, <1>5, <1>6 DEF Drv

(* The blocked handler goes on: its input is in the channel.               *)
LEMMA Unblocked ==
  ASSUME TypeOK, Sender, NEW c \in Conns, Unblock(c),
         NEW d, d = sending[c].drv
  PROVE  /\ d \in DOMAIN drives
         /\ drives' \in Seq(Drv)
         /\ DOMAIN drives' = DOMAIN drives
         /\ Len(drives') = Len(drives)
         /\ \A e \in DOMAIN drives \ {d} : drives'[e] = drives[e]
         /\ drives[d].box = << >>
         /\ drives'[d].box = <<sending[c].input>>
         /\ drives'[d].owner = drives[d].owner
         /\ drives'[d].stage = drives[d].stage
         /\ drives'[d].saved = drives[d].saved
         /\ drives'[d].credited = drives[d].credited
         /\ drives'[d].taken = drives[d].taken
         /\ drives'[d].delivered = drives[d].delivered
<1> DEFINE b == <<sending[c].input>>
<1>1. d \in DOMAIN drives /\ sending[c].input \in Nat
  BY DEF TypeOK, Sender, Unblock
<1>2. drives \in Seq(Drv) /\ drives[d] \in Drv
  BY <1>1 DEF TypeOK
<1>3. b \in Seq(Nat)
  BY <1>1
<1> DEFINE x == [drives[d] EXCEPT !.box = b]
<1>4. drives' = [drives EXCEPT ![d] = x] /\ drives[d].box = << >>
  BY <1>2 DEF Unblock, Drv
<1>5. b = <<sending[c].input>>
  OBVIOUS
<1> HIDE DEF b
<1>6. /\ x \in Drv /\ x.box = b /\ x.delivered = drives[d].delivered
      /\ x.owner = drives[d].owner /\ x.stage = drives[d].stage
      /\ x.saved = drives[d].saved /\ x.credited = drives[d].credited
      /\ x.taken = drives[d].taken
  BY <1>2, <1>3 DEF Drv
<1> HIDE DEF x
<1>7. /\ drives' \in Seq(Drv)
      /\ DOMAIN drives' = DOMAIN drives
      /\ Len(drives') = Len(drives)
      /\ \A e \in DOMAIN drives \ {d} : drives'[e] = drives[e]
      /\ drives'[d] = x
  BY <1>1, <1>2, <1>4, <1>6, DriveChanged
<1> QED
  BY <1>1, <1>4, <1>5, <1>6, <1>7

(* startRound, once it has pushed NewRound or failed to.                   *)
LEMMA Started ==
  ASSUME TypeOK, Dealt, NEW c \in Conns, StartRound(c),
         NEW d, d = session[sessions[c]].drv
  PROVE  /\ d \in DOMAIN drives
         /\ drives[d].stage = "dealt"
         /\ \E to \in {"playing", "lost"} :
              /\ drives' = [drives EXCEPT ![d] = [drives[d] EXCEPT !.stage = to]]
              /\ [drives[d] EXCEPT !.stage = to] \in Drv
         /\ drives' \in Seq(Drv)
         /\ DOMAIN drives' = DOMAIN drives
         /\ Len(drives') = Len(drives)
         /\ \A e \in DOMAIN drives \ {d} : drives'[e] = drives[e]
         /\ drives'[d].stage \in {"playing", "lost"}
         /\ drives'[d].owner = drives[d].owner
         /\ drives'[d].box = drives[d].box
         /\ drives'[d].saved = drives[d].saved
         /\ drives'[d].credited = drives[d].credited
         /\ drives'[d].taken = drives[d].taken
         /\ drives'[d].delivered = drives[d].delivered
<1> DEFINE to == IF link[c] = "broken" THEN "lost" ELSE "playing"
           x == [drives[d] EXCEPT !.stage = to]
<1>1. d \in DOMAIN drives /\ drives[d].stage = "dealt"
  BY DEF TypeOK, Dealt, StartRound
<1>2. drives \in Seq(Drv) /\ drives[d] \in Drv
  BY <1>1 DEF TypeOK
<1>3. to \in {"playing", "lost"}
  OBVIOUS
<1>4. drives' = [drives EXCEPT ![d] = x]
  BY <1>2 DEF StartRound, Drv
<1> HIDE DEF to
<1>6. /\ x \in Drv /\ x.box = drives[d].box /\ x.delivered = drives[d].delivered
      /\ x.owner = drives[d].owner /\ x.stage = to
      /\ x.saved = drives[d].saved /\ x.credited = drives[d].credited
      /\ x.taken = drives[d].taken
  BY <1>2, <1>3 DEF Drv, Stages
<1>8. \E y \in {"playing", "lost"} :
        /\ drives' = [drives EXCEPT ![d] = [drives[d] EXCEPT !.stage = y]]
        /\ [drives[d] EXCEPT !.stage = y] \in Drv
  BY <1>3, <1>4, <1>6
<1> HIDE DEF x
<1>7. /\ drives' \in Seq(Drv)
      /\ DOMAIN drives' = DOMAIN drives
      /\ Len(drives') = Len(drives)
      /\ \A e \in DOMAIN drives \ {d} : drives'[e] = drives[e]
      /\ drives'[d] = x
  BY <1>1, <1>2, <1>4, <1>6, DriveChanged
<1> QED
  BY <1>1, <1>3, <1>6, <1>7, <1>8

\* Every variable but up is left alone.
Quiet == UNCHANGED <<link, loop, sending, sessions, session, drives, inputs>>

(* What a step may be.                                                     *)
LEMMA Steps ==
  ASSUME [Next]_vars
  PROVE  \/ Quiet /\ (up' = up \/ up' = FALSE)
         \/ /\ up' = up
            /\ \/ \E c \in Conns : \/ \E g \in Games : AuthGame(c, g)
                                  \/ EnterGame(c)
                                  \/ InputOperation(c)
                                  \/ StoreSession(c)
                                  \/ StartRound(c)
                                  \/ Unblock(c)
                                  \/ Leave(c) \/ Break(c)
                                  \/ ExitLoop(c)
               \/ \E d \in DOMAIN drives : DriveStep(d)
<1>1. CASE UNCHANGED vars
  BY <1>1 DEF vars, Quiet
<1>2. CASE SessionsRace \/ HumansRace \/ PanicInDrive
  BY <1>2 DEF SessionsRace, HumansRace, PanicInDrive, Die, Quiet
<1>3. CASE Running /\ UNCHANGED up
  BY <1>3 DEF Running, LoopStep
<1> QED
  BY <1>1, <1>2, <1>3 DEF Next

LEMMA NextType == TypeOK /\ Storing /\ Dealt /\ Sender /\ [Next]_vars => TypeOK'
<1> SUFFICES ASSUME TypeOK, Storing, Dealt, Sender, [Next]_vars PROVE TypeOK'
  OBVIOUS
<1>0. up' \in BOOLEAN
  BY Steps DEF TypeOK, Quiet
<1>a. /\ drives \in Seq(Drv) /\ session \in Seq(Session)
      /\ Len(drives) \in Nat /\ DOMAIN drives = 1 .. Len(drives)
      /\ Len(session) \in Nat /\ DOMAIN session = 1 .. Len(session)
  BY TypeFacts
<1>b. \A d \in DOMAIN drives : /\ drives[d] \in Drv
                              /\ drives[d].owner \in DOMAIN session
                              /\ drives[d].stage \in Stages
                              /\ Len(drives[d].box) <= 1
  BY TypeFacts
<1>c. \A k \in DOMAIN session : /\ session[k] \in Session
                               /\ session[k].drv \in 0 .. Len(drives)
  BY TypeFacts
<1> DEFINE Typed ==
             /\ link' \in [Conns -> {"open", "gone", "broken"}]
             /\ loop' \in [Conns -> {"idle", "storing", "starting", "sending", "exited"}]
             /\ sending' \in [Conns -> [drv : 0 .. Len(drives'), input : Nat]]
             /\ sessions' \in [Conns -> 0 .. Len(session')]
             /\ session' \in Seq(Session)
             /\ \A k \in DOMAIN session' : session'[k].drv \in 0 .. Len(drives')
             /\ drives' \in Seq(Drv)
             /\ \A d \in DOMAIN drives' : /\ drives'[d].owner \in DOMAIN session'
                                          /\ Len(drives'[d].box) <= 1
             /\ inputs' \in [Conns -> 0 .. MaxInputs]
<1>1. ASSUME Quiet PROVE Typed
  BY <1>1 DEF TypeOK, Quiet
<1>2. ASSUME NEW c \in Conns, NEW g \in Games, AuthGame(c, g) PROVE Typed
  <2> DEFINE x == [conn |-> c, game |-> g, drv |-> 0]
  <2>1. x \in Session /\ x.drv = 0
    BY DEF Session
  <2>2. session \in Seq(Session) /\ session' = Append(session, x)
    BY <1>2 DEF AuthGame, TypeOK
  <2> HIDE DEF x
  <2>3. /\ session' \in Seq(Session) /\ Len(session') = Len(session) + 1
        /\ \A k \in DOMAIN session : session'[k] = session[k]
        /\ session'[Len(session) + 1] = x
        /\ DOMAIN session' = 1 .. Len(session) + 1
        /\ DOMAIN session = 1 .. Len(session) /\ Len(session) \in Nat
    BY <2>1, <2>2, AppendProperties
  <2>4. \A k \in DOMAIN session' : session'[k].drv \in 0 .. Len(drives)
    BY <1>a, <1>c, <2>1, <2>3
  <2>5. sessions \in [Conns -> 0 .. Len(session')]
    BY <2>3 DEF TypeOK
  <2> QED
    BY <1>2, <2>3, <2>4, <2>5 DEF AuthGame, TypeOK
<1>3. ASSUME NEW c \in Conns, EnterGame(c) PROVE Typed
  <2> DEFINE m == sessions[c]
             x == NewDrive(m)
  <2>1. m \in DOMAIN session /\ session \in Seq(Session) /\ m \in Nat
    BY <1>3 DEF EnterGame, TypeOK
  <2>2. drives \in Seq(Drv) /\ x \in Drv /\ drives' = Append(drives, x)
    BY <1>3, <2>1, NewDriveType DEF EnterGame, TypeOK
  <2>3. x.owner = m /\ Len(x.box) <= 1
    BY DEF NewDrive
  <2> HIDE DEF x
  <2>4. /\ drives' \in Seq(Drv) /\ Len(drives') = Len(drives) + 1
        /\ \A e \in DOMAIN drives : drives'[e] = drives[e]
        /\ drives'[Len(drives) + 1] = x
        /\ DOMAIN drives' = 1 .. Len(drives) + 1
        /\ DOMAIN drives = 1 .. Len(drives) /\ Len(drives) \in Nat
    BY <2>2, AppendProperties
  <2>5. session' = [session EXCEPT ![m] = [session[m] EXCEPT !.drv = Len(drives')]]
    BY <1>3, <2>1 DEF EnterGame, Session
  <2>a. session[m] \in Session /\ Len(drives') \in Nat
    BY <1>c, <2>1, <2>4
  <2>6. [session[m] EXCEPT !.drv = Len(drives')] \in Session
    BY <2>a DEF Session
  <2>7. /\ session' \in Seq(Session) /\ Len(session') = Len(session)
        /\ DOMAIN session' = DOMAIN session
        /\ \A k \in DOMAIN session : k # m => session'[k] = session[k]
        /\ session'[m] = [session[m] EXCEPT !.drv = Len(drives')]
    BY <2>1, <2>5, <2>6, ExceptSeq
  <2>8. session'[m].drv = Len(drives')
    BY <2>1, <2>7 DEF Session
  <2>9. \A k \in DOMAIN session' : session'[k].drv \in 0 .. Len(drives')
    <3>1. \A k \in DOMAIN session : k # m => session'[k].drv \in 0 .. Len(drives')
      BY <1>a, <1>c, <2>4, <2>7
    <3>2. Len(drives') \in 0 .. Len(drives')
      BY <2>4
    <3> QED
      BY <2>7, <2>8, <3>1, <3>2
  <2>10. \A d \in DOMAIN drives' : /\ drives'[d].owner \in DOMAIN session'
                                   /\ Len(drives'[d].box) <= 1
    BY <1>a, <1>b, <2>1, <2>3, <2>4, <2>7
  <2>11. sending' \in [Conns -> [drv : 0 .. Len(drives'), input : Nat]]
    BY <1>3, <2>4 DEF EnterGame, TypeOK
  <2> QED
    BY <1>3, <2>4, <2>7, <2>9, <2>10, <2>11 DEF EnterGame, TypeOK
<1>4. ASSUME NEW c \in Conns, InputOperation(c) PROVE Typed
  <2> DEFINE d == session[sessions[c]].drv
  <2>1. d \in DOMAIN drives /\ Deliver(c, d) /\ UNCHANGED <<link, sessions, session>>
    BY <1>4 DEF InputOperation, TypeOK
  <2>2. inputs' \in [Conns -> 0 .. MaxInputs] /\ inputs[c] + 1 \in Nat
    BY <1>4, SessionAssumption DEF InputOperation, TypeOK
  <2> HIDE DEF d
  <2>5. loop' \in [Conns -> {"idle", "storing", "starting", "sending", "exited"}]
    BY <2>1, Delivery DEF TypeOK
  <2>6. d \in 0 .. Len(drives)
    BY <2>1 DEF TypeOK
  <2>b. \/ sending' = sending
        \/ sending' = [sending EXCEPT ![c] = [drv |-> d, input |-> inputs[c] + 1]]
    BY <2>1, Delivery
  <2>7. sending' \in [Conns -> [drv : 0 .. Len(drives), input : Nat]]
    <3>1. [drv |-> d, input |-> inputs[c] + 1] \in [drv : 0 .. Len(drives), input : Nat]
      BY <2>2, <2>6
    <3>2. sending \in [Conns -> [drv : 0 .. Len(drives), input : Nat]]
      BY DEF TypeOK
    <3> QED
      BY <2>b, <3>1, <3>2
  <2>8. \A e \in DOMAIN drives' : /\ drives'[e].owner \in DOMAIN session'
                                  /\ Len(drives'[e].box) <= 1
    BY <1>b, <2>1, Delivery
  <2> QED
    BY <2>1, <2>2, <2>5, <2>7, <2>8, Delivery DEF TypeOK
<1>5. ASSUME NEW c \in Conns, StoreSession(c) PROVE Typed
  <2>1. Max({k \in DOMAIN session : session[k].conn = c}) \in 0 .. Len(session)
    BY <1>a, <1>5, Newest, SMTT(30) DEF StoreSession
  <2> QED
    BY <1>5, <2>1 DEF StoreSession, TypeOK
<1>6. ASSUME NEW c \in Conns, StartRound(c) PROVE Typed
  <2>1. \A e \in DOMAIN drives' : /\ drives'[e].owner \in DOMAIN session
                                  /\ Len(drives'[e].box) <= 1
    BY <1>b, <1>6, Started
  <2> QED
    BY <1>6, <2>1, Started DEF StartRound, TypeOK
<1>7. ASSUME NEW c \in Conns, Unblock(c) PROVE Typed
  <2>1. \A e \in DOMAIN drives' : /\ drives'[e].owner \in DOMAIN session
                                  /\ Len(drives'[e].box) <= 1
    <3>0. PICK d : d = sending[c].drv
      OBVIOUS
    <3>1. Len(<<sending[c].input>>) = 1
      OBVIOUS
    <3>2. /\ DOMAIN drives' = DOMAIN drives
          /\ \A e \in DOMAIN drives \ {d} : drives'[e] = drives[e]
          /\ drives'[d].owner = drives[d].owner
      BY <1>7, <3>0, Unblocked
    <3>3. drives'[d].box = <<sending[c].input>>
      BY <1>7, <3>0, Unblocked, Zenon
    <3>4. Len(drives'[d].box) = 1
      BY <3>1, <3>3
    <3>5. Len(drives'[d].box) <= 1
      BY <3>4
    <3>6. ASSUME NEW e \in DOMAIN drives'
          PROVE  drives'[e].owner \in DOMAIN session /\ Len(drives'[e].box) <= 1
      <4>1. CASE e = d
        BY <1>b, <3>2, <3>5, <4>1
      <4>2. CASE e # d
        BY <1>b, <3>2, <4>2
      <4> QED
        BY <4>1, <4>2
    <3> QED
      BY <3>6
  <2>2. Idle \in [drv : 0 .. Len(drives), input : Nat]
    BY DEF TypeOK, Idle
  <2>3. sending' \in [Conns -> [drv : 0 .. Len(drives), input : Nat]]
    BY <1>7, <2>2 DEF TypeOK, Unblock
  <2> QED
    BY <1>7, <2>1, <2>3, Unblocked DEF Unblock, TypeOK
<1>8. ASSUME NEW c \in Conns, Leave(c) \/ Break(c) \/ ExitLoop(c) PROVE Typed
  BY <1>8 DEF TypeOK, Leave, Break, ExitLoop
<1>9. ASSUME NEW d \in DOMAIN drives, DriveStep(d) PROVE Typed
  <2>1. \A e \in DOMAIN drives' : /\ drives'[e].owner \in DOMAIN session
                                  /\ Len(drives'[e].box) <= 1
    BY <1>b, <1>9, DriveSteps
  <2> QED
    BY <1>9, <2>1, DriveSteps DEF loopVars, TypeOK
<1>10. Typed
  BY <1>1, <1>2, <1>3, <1>4, <1>5, <1>6, <1>7, <1>8, <1>9, Steps
<1> QED
  BY <1>0, <1>10 DEF TypeOK

-----------------------------------------------------------------------------
(* Sessions and their rounds.                                              *)

(* A step that makes no session and no round keeps the links.              *)
LEMMA LinksKept ==
  ASSUME TypeOK, Links,
         session' = session, sessions' = sessions,
         DOMAIN drives' = DOMAIN drives,
         \A d \in DOMAIN drives : drives'[d].owner = drives[d].owner,
         \A c \in Conns : loop'[c] = "storing" <=> loop[c] = "storing"
  PROVE  Links'
<1>1. \A d \in DOMAIN drives : ConnOf(d)' = ConnOf(d)
  BY DEF ConnOf
<1>2. Storing'
  BY DEF Links, Storing
<1>3. Current'
  BY DEF Links, Current
<1>4. Owned'
  BY TypeFacts DEF Links, Owned
<1>5. Succession'
  BY <1>1 DEF Links, Succession
<1> QED
  BY <1>2, <1>3, <1>4, <1>5 DEF Links

(* authGame: the new session is the newest of its connection, and has no   *)
(* round.                                                                  *)
LEMMA AuthLinks ==
  ASSUME TypeOK, Links, NEW c \in Conns, NEW g \in Games, AuthGame(c, g)
  PROVE  Links'
<1> DEFINE n == Len(session) + 1
<1>1. /\ Len(session) \in Nat /\ DOMAIN session = 1 .. Len(session)
      /\ DOMAIN session' = 1 .. n
      /\ \A k \in DOMAIN session : session'[k] = session[k]
      /\ session'[n].conn = c /\ session'[n].drv = 0
  <2> DEFINE x == [conn |-> c, game |-> g, drv |-> 0]
  <2>1. x \in Session /\ x.conn = c /\ x.drv = 0
    BY DEF Session
  <2>2. session \in Seq(Session) /\ session' = Append(session, x)
    BY DEF AuthGame, TypeOK
  <2> HIDE DEF x
  <2> QED
    BY <2>1, <2>2, AppendProperties
<1>2. /\ UNCHANGED <<sessions, drives>>
      /\ \A e \in Conns : e # c => loop'[e] = loop[e]
      /\ loop'[c] = "storing"
  BY DEF AuthGame, TypeOK
<1>3. \A e \in Conns : sessions[e] \in 0 .. Len(session)
  BY TypeFacts
<1>4. \A d \in DOMAIN drives : drives[d].owner \in DOMAIN session
  BY TypeFacts
<1> HIDE DEF n
<1>5. n \in DOMAIN session' /\ n \notin DOMAIN session
      /\ \A k \in DOMAIN session' : k <= n /\ (k # n => k \in DOMAIN session)
  BY <1>1 DEF n
<1>10. \A k \in DOMAIN session : k \in DOMAIN session'
  BY <1>1 DEF n
<1>6. Storing'
  <2>1. ASSUME NEW e \in Conns, loop'[e] = "storing"
        PROVE  \E m \in DOMAIN session' :
                 /\ session'[m].conn = e
                 /\ \A k \in DOMAIN session' : session'[k].conn = e => k <= m
    <3>1. CASE e = c
      BY <1>1, <1>5, <3>1
    <3>2. CASE e # c
      <4>1. PICK m \in DOMAIN session :
              /\ session[m].conn = e
              /\ \A k \in DOMAIN session : session[k].conn = e => k <= m
        BY <1>2, <2>1, <3>2 DEF Links, Storing
      <4>2. m \in DOMAIN session' /\ session'[m].conn = e
        BY <1>1, <1>10, <4>1
      <4>3. \A k \in DOMAIN session' : session'[k].conn = e => k <= m
        BY <1>1, <1>5, <3>2, <4>1
      <4> QED
        BY <4>2, <4>3
    <3> QED
      BY <3>1, <3>2
  <2> QED
    BY <2>1 DEF Storing
<1>7. Current'
  <2>1. ASSUME NEW e \in Conns, sessions'[e] # 0
        PROVE  session'[sessions'[e]].conn = e
    BY <1>1, <1>2, <1>3, <2>1 DEF Links, Current
  <2>2. ASSUME NEW e \in Conns, loop'[e] # "storing",
               NEW k \in DOMAIN session', session'[k].conn = e
        PROVE  k <= sessions'[e]
    BY <1>1, <1>2, <1>5, <2>2 DEF Links, Current
  <2> QED
    BY <2>1, <2>2 DEF Current
<1>8. Owned'
  <2>1. \A k \in DOMAIN session' : session'[k].drv # 0 => k \in DOMAIN session
    BY <1>1, <1>5
  <2> QED
    BY <1>1, <1>2, <1>4, <2>1 DEF Links, Owned
<1>9. Succession'
  <2>1. \A d \in DOMAIN drives : ConnOf(d)' = ConnOf(d)
    BY <1>1, <1>2, <1>4 DEF ConnOf
  <2> QED
    BY <1>2, <2>1 DEF Links, Succession
<1> QED
  BY <1>6, <1>7, <1>8, <1>9 DEF Links

(* The write of h.sessions: what is stored is the newest session.          *)
LEMMA StoreLinks ==
  ASSUME TypeOK, Links, NEW c \in Conns, StoreSession(c)
  PROVE  Links'
<1> DEFINE m == Max({k \in DOMAIN session : session[k].conn = c})
<1>1. /\ m \in DOMAIN session /\ session[m].conn = c
      /\ \A k \in DOMAIN session : session[k].conn = c => k <= m
  BY Newest DEF StoreSession, Links
<1>2. /\ UNCHANGED <<session, drives>>
      /\ sessions'[c] = m /\ loop'[c] = "idle"
      /\ \A e \in Conns : e # c => /\ sessions'[e] = sessions[e]
                                   /\ loop'[e] = loop[e]
  BY DEF StoreSession, TypeOK
<1> HIDE DEF m
<1>3. Storing'
  BY <1>2 DEF Links, Storing
<1>4. Current'
  <2>1. ASSUME NEW e \in Conns, sessions'[e] # 0
        PROVE  session'[sessions'[e]].conn = e
    BY <1>1, <1>2, <2>1 DEF Links, Current
  <2>2. ASSUME NEW e \in Conns, loop'[e] # "storing",
               NEW k \in DOMAIN session', session'[k].conn = e
        PROVE  k <= sessions'[e]
    BY <1>1, <1>2, <2>2 DEF Links, Current
  <2> QED
    BY <2>1, <2>2 DEF Current
<1>5. Owned' /\ Succession'
  BY <1>2 DEF Links, Owned, Succession, ConnOf
<1> QED
  BY <1>3, <1>4, <1>5 DEF Links

(* What enterGame appends: a round of the connection's newest session.     *)
LEMMA Entered ==
  ASSUME TypeOK, NEW c \in Conns, EnterGame(c),
         NEW m \in Nat, m = sessions[c], NEW n \in Nat, n = Len(drives) + 1
  PROVE  /\ m \in DOMAIN session /\ m # 0 /\ session[m].drv = 0
         /\ n \in Nat \ {0} /\ n \notin DOMAIN drives
         /\ DOMAIN drives' = DOMAIN drives \cup {n}
         /\ \A d \in DOMAIN drives : drives'[d] = drives[d] /\ d < n
         /\ drives'[n] = NewDrive(m)
         /\ DOMAIN session' = DOMAIN session
         /\ \A k \in DOMAIN session \ {m} : session'[k].drv = session[k].drv
         /\ \A k \in DOMAIN session : session'[k].conn = session[k].conn
         /\ session'[m].drv = n
<1> DEFINE x == NewDrive(m)
<1>1. /\ drives \in Seq(Drv) /\ session \in Seq(Session)
      /\ Len(drives) \in Nat /\ DOMAIN drives = 1 .. Len(drives)
      /\ Len(session) \in Nat /\ DOMAIN session = 1 .. Len(session)
      /\ sessions[c] \in 0 .. Len(session)
      /\ \A k \in DOMAIN session : session[k] \in Session
  BY TypeFacts
<1>2. m \in DOMAIN session /\ m # 0 /\ m \in Nat /\ session[m].drv = 0
  BY <1>1 DEF EnterGame
<1>3. x \in Drv /\ drives' = Append(drives, x)
  BY <1>2, NewDriveType DEF EnterGame
<1>4. x = NewDrive(m)
  OBVIOUS
<1> HIDE DEF x
<1>5. /\ Len(drives') = n /\ DOMAIN drives' = 1 .. n
      /\ \A d \in DOMAIN drives : drives'[d] = drives[d]
      /\ drives'[n] = x
  BY <1>1, <1>3, AppendProperties
<1>6. session' = [session EXCEPT ![m] = [session[m] EXCEPT !.drv = n]]
  BY <1>1, <1>2, <1>5 DEF EnterGame, Session
<1>7. /\ DOMAIN session' = DOMAIN session
      /\ \A k \in DOMAIN session : k # m => session'[k] = session[k]
      /\ session'[m] = [session[m] EXCEPT !.drv = n]
  BY <1>2, <1>6
<1>8. session'[m].drv = n /\ session'[m].conn = session[m].conn
  BY <1>1, <1>2, <1>7 DEF Session
<1>9. /\ n \in Nat \ {0} /\ n \notin DOMAIN drives
      /\ DOMAIN drives' = DOMAIN drives \cup {n}
      /\ \A d \in DOMAIN drives : d < n
  BY <1>1, <1>5
<1> QED
  BY <1>2, <1>4, <1>5, <1>7, <1>8, <1>9

(* enterGame: a session gets its round when it has none, and is the newest *)
(* of its connection.                                                      *)
LEMMA EnterLinks ==
  ASSUME TypeOK, Links, NEW c \in Conns, EnterGame(c)
  PROVE  Links'
<1>0. PICK m \in Nat, n \in Nat : m = sessions[c] /\ n = Len(drives) + 1
  BY TypeFacts
<1>1. /\ m \in DOMAIN session /\ m # 0
      /\ n \in Nat \ {0} /\ n \notin DOMAIN drives
      /\ DOMAIN drives' = DOMAIN drives \cup {n}
      /\ \A d \in DOMAIN drives : drives'[d] = drives[d] /\ d < n
      /\ drives'[n] = NewDrive(m)
  BY <1>0, Entered
<1>14. \A k \in DOMAIN session \ {m} : session'[k].drv = session[k].drv
  BY <1>0, Entered, ZenonT(40)
<1>12. session[m].drv = 0
  BY <1>0, Entered, Zenon
<1>13. DOMAIN session' = DOMAIN session
  BY <1>0, Entered
<1>2. /\ \A k \in DOMAIN session : session'[k].conn = session[k].conn
      /\ session'[m].drv = n
  BY <1>0, Entered, ZenonT(40)
<1>3. drives'[n].owner = m
  BY <1>1 DEF NewDrive
<1>4. /\ UNCHANGED sessions /\ loop[c] = "idle" /\ m = sessions[c]
      /\ \A e \in Conns : loop'[e] = "storing" <=> loop[e] = "storing"
  BY <1>0 DEF EnterGame, TypeOK
<1>5. \A d \in DOMAIN drives : d # 0 /\ drives[d].owner \in DOMAIN session
  BY TypeFacts
<1>6. \A e \in Conns : sessions[e] # 0 => sessions[e] \in DOMAIN session
  BY TypeFacts
<1>7. \A k \in DOMAIN session : k \in Nat /\ session[k].drv \in Nat
                               /\ (session[k].drv # 0 => session[k].drv \in DOMAIN drives)
  BY TypeFacts
<1>8. Storing' /\ Current'
  <2>1. Storing'
    BY <1>2, <1>13, <1>4 DEF Links, Storing
  <2>2. Current'
    BY <1>2, <1>13, <1>4, <1>6 DEF Links, Current
  <2> QED
    BY <2>1, <2>2
<1>9. \A d \in DOMAIN drives : drives[d].owner # m
  BY <1>12, <1>5 DEF Links, Owned
<1>10. Owned'
  <2>1. \A d \in DOMAIN drives' : session'[drives'[d].owner].drv = d
    BY <1>1, <1>14, <1>2, <1>3, <1>5, <1>9 DEF Links, Owned
  <2>2. \A k \in DOMAIN session' :
          session'[k].drv # 0 => drives'[session'[k].drv].owner = k
    BY <1>1, <1>13, <1>14, <1>2, <1>3, <1>7 DEF Links, Owned
  <2> QED
    BY <2>1, <2>2 DEF Owned
<1>11. Succession'
  <2>1. \A d \in DOMAIN drives : ConnOf(d)' = ConnOf(d)
    BY <1>1, <1>2, <1>5 DEF ConnOf
  <2>2. ConnOf(n)' = c
    <3>1. session[m].conn = c
      BY <1>1, <1>4 DEF Links, Current
    <3>2. ConnOf(n)' = session'[drives'[n].owner].conn
      BY DEF ConnOf
    <3> QED
      BY <1>1, <1>2, <1>3, <3>1, <3>2
  <2>3. \A d \in DOMAIN drives : ConnOf(d) = c => drives[d].owner < m
    BY <1>1, <1>4, <1>5, <1>7, <1>9 DEF ConnOf, Links, Current
  <2>4. ASSUME NEW d \in DOMAIN drives', NEW e \in DOMAIN drives',
               ConnOf(d)' = ConnOf(e)', d < e
        PROVE  drives'[d].owner < drives'[e].owner
    <3>1. d \in DOMAIN drives /\ d # n
      <4>1. n \in Nat /\ \A k \in DOMAIN drives : k \in Nat /\ k < n
        BY <1>1, TypeFacts
      <4> QED
        BY <1>1, <2>4, <4>1
    <3>2. CASE e \in DOMAIN drives
      <4>1. ConnOf(d) = ConnOf(e)
        BY <2>1, <2>4, <3>1, <3>2
      <4>2. drives[d].owner < drives[e].owner
        BY <2>4, <3>1, <3>2, <4>1 DEF Links, Succession
      <4> QED
        BY <1>1, <3>1, <3>2, <4>2
    <3>3. CASE e = n
      <4>1. ConnOf(d) = c
        BY <2>1, <2>2, <2>4, <3>1, <3>3
      <4> QED
        BY <1>1, <1>3, <2>3, <3>1, <3>3, <4>1
    <3> QED
      BY <1>1, <3>2, <3>3
  <2> QED
    BY <2>4 DEF Succession
<1> QED
  BY <1>8, <1>10, <1>11 DEF Links

LEMMA NextLinks == TypeOK /\ Links /\ Dealt /\ Sender /\ [Next]_vars => Links'
<1> SUFFICES ASSUME TypeOK, Links, Dealt, Sender, [Next]_vars PROVE Links'
  OBVIOUS
<1>1. ASSUME Quiet PROVE Links'
  BY <1>1, LinksKept DEF Quiet
<1>2. ASSUME NEW c \in Conns, NEW g \in Games, AuthGame(c, g) PROVE Links'
  BY <1>2, AuthLinks
<1>3. ASSUME NEW c \in Conns, EnterGame(c) PROVE Links'
  BY <1>3, EnterLinks
<1>4. ASSUME NEW c \in Conns, InputOperation(c) PROVE Links'
  <2> DEFINE d == session[sessions[c]].drv
  <2>1. /\ d \in DOMAIN drives /\ Deliver(c, d)
        /\ UNCHANGED <<sessions, session>> /\ loop[c] = "idle"
    BY <1>4, TypeFacts DEF InputOperation
  <2> HIDE DEF d
  <2>2. loop' = loop \/ loop' = [loop EXCEPT ![c] = "sending"]
    BY <2>1, Delivery
  <2>3. \A e \in Conns : loop'[e] = "storing" <=> loop[e] = "storing"
    BY <2>1, <2>2 DEF TypeOK
  <2>4. /\ DOMAIN drives' = DOMAIN drives
        /\ \A e \in DOMAIN drives : drives'[e].owner = drives[e].owner
    BY <2>1, Delivery
  <2> QED
    BY <2>1, <2>3, <2>4, LinksKept
<1>5. ASSUME NEW c \in Conns, StoreSession(c) PROVE Links'
  BY <1>5, StoreLinks
<1>6. ASSUME NEW c \in Conns, StartRound(c) PROVE Links'
  <2>1. \A e \in Conns : loop'[e] = "storing" <=> loop[e] = "storing"
    BY <1>6 DEF StartRound, TypeOK
  <2>2. /\ DOMAIN drives' = DOMAIN drives
        /\ \A e \in DOMAIN drives : drives'[e].owner = drives[e].owner
    BY <1>6, Started
  <2> QED
    BY <1>6, <2>1, <2>2, LinksKept DEF StartRound
<1>7. ASSUME NEW c \in Conns, Unblock(c) PROVE Links'
  <2>1. \A e \in Conns : loop'[e] = "storing" <=> loop[e] = "storing"
    BY <1>7 DEF Unblock, TypeOK
  <2>2. /\ DOMAIN drives' = DOMAIN drives
        /\ \A e \in DOMAIN drives : drives'[e].owner = drives[e].owner
    BY <1>7, Unblocked
  <2> QED
    BY <1>7, <2>1, <2>2, LinksKept DEF Unblock
<1>8. ASSUME NEW c \in Conns, Leave(c) \/ Break(c) \/ ExitLoop(c) PROVE Links'
  <2>1. \A e \in Conns : loop'[e] = "storing" <=> loop[e] = "storing"
    BY <1>8 DEF Leave, Break, ExitLoop, TypeOK
  <2> QED
    BY <1>8, <2>1, LinksKept DEF Leave, Break, ExitLoop
<1>9. ASSUME NEW d \in DOMAIN drives, DriveStep(d) PROVE Links'
  BY <1>9, DriveSteps, LinksKept DEF loopVars
<1> QED
  BY <1>1, <1>2, <1>3, <1>4, <1>5, <1>6, <1>7, <1>8, <1>9, Steps

(* A round stays with the connection that started it.                      *)
LEMMA ConnKept ==
  ASSUME TypeOK, Dealt, Sender, [Next]_vars
  PROVE  \A d \in DOMAIN drives : d \in DOMAIN drives' /\ ConnOf(d)' = ConnOf(d)
<1> DEFINE Kept == \A d \in DOMAIN drives : d \in DOMAIN drives' /\ ConnOf(d)' = ConnOf(d)
<1>0. \A d \in DOMAIN drives : drives[d].owner \in DOMAIN session
  BY TypeFacts
<1>1. ASSUME DOMAIN drives' = DOMAIN drives, session' = session,
             \A d \in DOMAIN drives : drives'[d].owner = drives[d].owner
      PROVE  Kept
  BY <1>1 DEF ConnOf
<1>2. ASSUME Quiet PROVE Kept
  BY <1>1, <1>2 DEF Quiet
<1>3. ASSUME NEW c \in Conns, NEW g \in Games, AuthGame(c, g) PROVE Kept
  <2> DEFINE x == [conn |-> c, game |-> g, drv |-> 0]
  <2>1. x \in Session
    BY DEF Session
  <2>2. session \in Seq(Session) /\ session' = Append(session, x) /\ drives' = drives
    BY <1>3 DEF AuthGame, TypeOK
  <2> HIDE DEF x
  <2>3. \A k \in DOMAIN session : session'[k] = session[k]
    BY <2>1, <2>2, AppendProperties
  <2> QED
    BY <1>0, <2>2, <2>3 DEF ConnOf
<1>4. ASSUME NEW c \in Conns, EnterGame(c) PROVE Kept
  <2>0. PICK m \in Nat, n \in Nat : m = sessions[c] /\ n = Len(drives) + 1
    BY TypeFacts
  <2>1. /\ DOMAIN drives' = DOMAIN drives \cup {n}
        /\ \A d \in DOMAIN drives : drives'[d] = drives[d] /\ d < n
    BY <1>4, <2>0, Entered
  <2>2. \A k \in DOMAIN session : session'[k].conn = session[k].conn
    BY <1>4, <2>0, Entered, Zenon
  <2> QED
    BY <1>0, <2>1, <2>2 DEF ConnOf
<1>5. ASSUME NEW c \in Conns, InputOperation(c) PROVE Kept
  <2> DEFINE d == session[sessions[c]].drv
  <2>1. d \in DOMAIN drives /\ Deliver(c, d) /\ UNCHANGED session
    BY <1>5, TypeFacts DEF InputOperation
  <2> HIDE DEF d
  <2>2. /\ DOMAIN drives' = DOMAIN drives
        /\ \A e \in DOMAIN drives : drives'[e].owner = drives[e].owner
    BY <2>1, Delivery
  <2> QED
    BY <1>1, <2>1, <2>2
<1>6. ASSUME NEW c \in Conns, StoreSession(c) PROVE Kept
  BY <1>1, <1>6 DEF StoreSession
<1>7. ASSUME NEW c \in Conns, StartRound(c) PROVE Kept
  <2>1. /\ DOMAIN drives' = DOMAIN drives
        /\ \A e \in DOMAIN drives : drives'[e].owner = drives[e].owner
    BY <1>7, Started
  <2> QED
    BY <1>1, <1>7, <2>1 DEF StartRound
<1>8. ASSUME NEW c \in Conns, Unblock(c) PROVE Kept
  <2>1. /\ DOMAIN drives' = DOMAIN drives
        /\ \A e \in DOMAIN drives : drives'[e].owner = drives[e].owner
    BY <1>8, Unblocked
  <2> QED
    BY <1>1, <1>8, <2>1 DEF Unblock
<1>9. ASSUME NEW c \in Conns, Leave(c) \/ Break(c) \/ ExitLoop(c) PROVE Kept
  BY <1>1, <1>9 DEF Leave, Break, ExitLoop
<1>10. ASSUME NEW d \in DOMAIN drives, DriveStep(d) PROVE Kept
  BY <1>1, <1>10, DriveSteps DEF loopVars
<1> QED
  BY <1>2, <1>3, <1>4, <1>5, <1>6, <1>7, <1>8, <1>9, <1>10, Steps

(* The round inputOperation finds is of its connection, and the newest.    *)
LEMMA Addressed ==
  ASSUME TypeOK, Links, NEW c \in Conns, InputOperation(c),
         NEW d, d = session[sessions[c]].drv
  PROVE  /\ d \in DOMAIN drives /\ ConnOf(d) = c
         /\ \A e \in DOMAIN drives : ConnOf(e) = c => e <= d
<1> DEFINE m == sessions[c]
<1>1. /\ m \in DOMAIN session /\ m # 0 /\ session[m].drv = d /\ d # 0
      /\ d \in DOMAIN drives /\ d \in Nat /\ m \in Nat /\ loop[c] = "idle"
  BY TypeFacts DEF InputOperation
<1>2. \A e \in DOMAIN drives : /\ e \in Nat /\ drives[e].owner \in DOMAIN session
                               /\ drives[e].owner \in Nat
  BY TypeFacts
<1> HIDE DEF m
<1>3. drives[d].owner = m
  BY <1>1 DEF Links, Owned
<1>4. session[m].conn = c /\ \A k \in DOMAIN session : session[k].conn = c => k <= m
  BY <1>1 DEF Links, Current, m
<1>5. ConnOf(d) = c
  BY <1>3, <1>4 DEF ConnOf
<1>6. ASSUME NEW e \in DOMAIN drives, ConnOf(e) = c, d < e PROVE FALSE
  <2>1. drives[d].owner < drives[e].owner
    BY <1>1, <1>5, <1>6 DEF Links, Succession
  <2>2. drives[e].owner <= m
    BY <1>2, <1>4, <1>6 DEF ConnOf
  <2> QED
    BY <1>1, <1>2, <1>3, <2>1, <2>2
<1> QED
  BY <1>1, <1>2, <1>5, <1>6

LEMMA NextDealt == TypeOK /\ Links /\ Dealt /\ Sender /\ [Next]_vars => Dealt'
<1> SUFFICES ASSUME TypeOK, Links, Dealt, Sender, [Next]_vars,
                    NEW e \in Conns, loop'[e] = "starting"
             PROVE  /\ sessions'[e] # 0
                    /\ session'[sessions'[e]].drv # 0
                    /\ drives'[session'[sessions'[e]].drv].stage = "dealt"
  BY DEF Dealt
<1> DEFINE Waits == /\ sessions'[e] # 0
                    /\ session'[sessions'[e]].drv # 0
                    /\ drives'[session'[sessions'[e]].drv].stage = "dealt"
<1>a. /\ sessions[e] # 0 => sessions[e] \in DOMAIN session
      /\ \A k \in DOMAIN session :
           session[k].drv # 0 => session[k].drv \in DOMAIN drives
  BY TypeFacts
<1>1. ASSUME UNCHANGED <<session, sessions>>, loop[e] = "starting",
             \A d \in DOMAIN drives :
               drives[d].stage = "dealt" => drives'[d].stage = "dealt"
      PROVE  Waits
  BY <1>1, <1>a DEF Dealt
<1>2. ASSUME Quiet PROVE Waits
  BY <1>1, <1>2 DEF Quiet
<1>3. ASSUME NEW c \in Conns, NEW g \in Games, AuthGame(c, g) PROVE Waits
  <2> DEFINE x == [conn |-> c, game |-> g, drv |-> 0]
  <2>1. x \in Session
    BY DEF Session
  <2>2. /\ session \in Seq(Session) /\ session' = Append(session, x)
        /\ drives' = drives /\ sessions' = sessions
        /\ loop[e] = "starting"
    BY <1>3 DEF AuthGame, TypeOK
  <2> HIDE DEF x
  <2>3. \A k \in DOMAIN session : session'[k] = session[k]
    BY <2>1, <2>2, AppendProperties
  <2> QED
    BY <1>a, <2>2, <2>3 DEF Dealt
<1>4. ASSUME NEW c \in Conns, EnterGame(c) PROVE Waits
  <2>0. PICK m \in Nat, n \in Nat : m = sessions[c] /\ n = Len(drives) + 1
    BY TypeFacts
  <2>1. /\ DOMAIN drives' = DOMAIN drives \cup {n}
        /\ \A d \in DOMAIN drives : drives'[d] = drives[d] /\ d < n
        /\ drives'[n] = NewDrive(m)
        /\ n \in Nat \ {0} /\ m # 0
    BY <1>4, <2>0, Entered
  <2>2. session'[m].drv = n
    BY <1>4, <2>0, Entered, ZenonT(60)
  <2>6. \A k \in DOMAIN session \ {m} : session'[k].drv = session[k].drv
    BY <1>4, <2>0, Entered, ZenonT(40)
  <2>3. sessions' = sessions
    BY <1>4 DEF EnterGame
  <2>4. CASE e = c
    BY <2>0, <2>1, <2>2, <2>3, <2>4 DEF NewDrive
  <2>5. CASE e # c
    <3>1. loop[e] = "starting"
      BY <1>4, <2>5 DEF EnterGame, TypeOK
    <3>2. sessions[e] # m
      BY <2>0, <2>1, <2>5, <3>1 DEF Dealt, Links, Current
    <3>3. /\ sessions[e] # 0 /\ session[sessions[e]].drv # 0
          /\ drives[session[sessions[e]].drv].stage = "dealt"
      BY <3>1 DEF Dealt
    <3>4. session'[sessions[e]].drv = session[sessions[e]].drv
      BY <1>a, <2>6, <3>2, <3>3
    <3> QED
      BY <1>a, <2>1, <2>3, <3>3, <3>4
  <2> QED
    BY <2>4, <2>5
<1>5. ASSUME NEW c \in Conns, InputOperation(c) PROVE Waits
  <2>0. PICK d : d = session[sessions[c]].drv
    OBVIOUS
  <2>1. /\ d \in DOMAIN drives /\ Deliver(c, d) /\ UNCHANGED <<session, sessions>>
        /\ loop[c] = "idle"
    BY <1>5, <2>0, TypeFacts DEF InputOperation
  <2>2. loop' = loop \/ loop' = [loop EXCEPT ![c] = "sending"]
    BY <2>1, Delivery
  <2>3. loop[e] = "starting"
    BY <2>1, <2>2 DEF TypeOK
  <2>4. \A f \in DOMAIN drives : drives'[f].stage = drives[f].stage
    BY <2>1, Delivery
  <2> QED
    BY <1>1, <2>1, <2>3, <2>4
<1>6. ASSUME NEW c \in Conns, StoreSession(c) PROVE Waits
  <2>1. e # c /\ loop[e] = "starting" /\ sessions'[e] = sessions[e]
    BY <1>6 DEF StoreSession, TypeOK
  <2> QED
    BY <1>6, <2>1 DEF StoreSession, Dealt
<1>7. ASSUME NEW c \in Conns, StartRound(c) PROVE Waits
  <2>0. PICK d : d = session[sessions[c]].drv
    OBVIOUS
  <2>1. /\ e # c /\ loop[e] = "starting" /\ loop[c] = "starting"
        /\ UNCHANGED <<session, sessions>>
    BY <1>7 DEF StartRound, TypeOK
  <2>2. \A f \in DOMAIN drives \ {d} : drives'[f] = drives[f]
    BY <1>7, <2>0, Started, Zenon
  <2>3. /\ sessions[e] # 0 /\ session[sessions[e]].drv # 0
        /\ drives[session[sessions[e]].drv].stage = "dealt"
    BY <2>1 DEF Dealt
  <2>4. /\ session[sessions[e]].conn = e /\ session[sessions[c]].conn = c
        /\ d # 0 /\ sessions[c] # 0
    BY <2>0, <2>1, <2>3 DEF Dealt, Links, Current
  <2>5. session[sessions[e]].drv # d
    <3>1. sessions[e] \in DOMAIN session /\ sessions[c] \in DOMAIN session
      BY <2>3, <2>4, TypeFacts
    <3>2. /\ drives[session[sessions[e]].drv].owner = sessions[e]
          /\ drives[d].owner = sessions[c]
      BY <2>0, <2>3, <2>4, <3>1 DEF Links, Owned
    <3> QED
      BY <2>1, <2>4, <3>2
  <2> QED
    BY <1>a, <2>1, <2>2, <2>3, <2>5
<1>8. ASSUME NEW c \in Conns, Unblock(c) PROVE Waits
  <2>1. loop[e] = "starting" /\ UNCHANGED <<session, sessions>>
    BY <1>8 DEF Unblock, TypeOK
  <2>2. \A f \in DOMAIN drives : drives'[f].stage = drives[f].stage
    <3>0. PICK d : d = sending[c].drv
      OBVIOUS
    <3>1. /\ \A f \in DOMAIN drives \ {d} : drives'[f] = drives[f]
          /\ drives'[d].stage = drives[d].stage
      BY <1>8, <3>0, Unblocked
    <3> QED
      BY <3>1
  <2> QED
    BY <1>1, <2>1, <2>2
<1>9. ASSUME NEW c \in Conns, Leave(c) \/ Break(c) \/ ExitLoop(c) PROVE Waits
  <2>1. /\ loop[e] = "starting" /\ UNCHANGED <<session, sessions, drives>>
    BY <1>9 DEF Leave, Break, ExitLoop, TypeOK
  <2> QED
    BY <1>1, <2>1
<1>10. ASSUME NEW d \in DOMAIN drives, DriveStep(d) PROVE Waits
  <2>1. /\ UNCHANGED loopVars /\ drives[d].stage # "dealt"
        /\ \A f \in DOMAIN drives \ {d} : drives'[f] = drives[f]
    BY <1>10, DriveSteps
  <2> QED
    BY <1>1, <2>1 DEF loopVars
<1> QED
  BY <1>2, <1>3, <1>4, <1>5, <1>6, <1>7, <1>8, <1>9, <1>10, Steps

LEMMA NextSender == TypeOK /\ Links /\ Dealt /\ Sender /\ [Next]_vars => Sender'
<1> SUFFICES ASSUME TypeOK, Links, Dealt, Sender, [Next]_vars,
                    NEW e \in Conns, loop'[e] = "sending"
             PROVE  /\ sending'[e].drv \in DOMAIN drives'
                    /\ session'[drives'[sending'[e].drv].owner].conn = e
  BY DEF Sender, ConnOf
<1> DEFINE Sends == /\ sending'[e].drv \in DOMAIN drives'
                    /\ session'[drives'[sending'[e].drv].owner].conn = e
<1>a. \A d \in DOMAIN drives : d \in DOMAIN drives' /\ ConnOf(d)' = ConnOf(d)
  BY ConnKept
<1>1. ASSUME loop[e] = "sending", sending'[e] = sending[e] PROVE Sends
  BY <1>1, <1>a DEF Sender, ConnOf
<1>2. ASSUME Quiet PROVE Sends
  BY <1>1, <1>2 DEF Quiet
<1>3. ASSUME NEW c \in Conns, InputOperation(c) PROVE Sends
  <2>0. PICK d : d = session[sessions[c]].drv
    OBVIOUS
  <2>1. d \in DOMAIN drives /\ ConnOf(d) = c
    BY <1>3, <2>0, Addressed
  <2>2. Deliver(c, d)
    BY <1>3, <2>0 DEF InputOperation
  <2>3. \/ UNCHANGED <<loop, sending>>
        \/ /\ loop' = [loop EXCEPT ![c] = "sending"]
           /\ sending' = [sending EXCEPT ![c] = [drv |-> d, input |-> inputs[c] + 1]]
    BY <2>2 DEF Deliver
  <2>4. CASE UNCHANGED <<loop, sending>>
    BY <1>1, <2>4
  <2>5. CASE /\ loop' = [loop EXCEPT ![c] = "sending"]
             /\ sending' = [sending EXCEPT ![c] = [drv |-> d, input |-> inputs[c] + 1]]
    <3>1. CASE e = c
      <4>1. sending'[e].drv = d
        BY <2>5, <3>1 DEF TypeOK
      <4>2. ConnOf(d)' = session'[drives'[d].owner].conn
        BY DEF ConnOf
      <4> QED
        BY <1>a, <2>1, <3>1, <4>1, <4>2
    <3>2. CASE e # c
      BY <1>1, <2>5, <3>2 DEF TypeOK
    <3> QED
      BY <3>1, <3>2
  <2> QED
    BY <2>3, <2>4, <2>5
<1>4. ASSUME NEW c \in Conns, Unblock(c) PROVE Sends
  BY <1>1, <1>4 DEF Unblock, TypeOK
<1>5. ASSUME NEW c \in Conns, NEW g \in Games,
             \/ AuthGame(c, g) \/ EnterGame(c) \/ StoreSession(c) \/ StartRound(c)
             \/ Leave(c) \/ Break(c) \/ ExitLoop(c)
      PROVE  Sends
  BY <1>1, <1>5 DEF AuthGame, EnterGame, StoreSession, StartRound, Leave, Break,
                    ExitLoop, TypeOK
<1>6. ASSUME NEW c \in Conns,
             \/ EnterGame(c) \/ StoreSession(c) \/ StartRound(c)
             \/ Leave(c) \/ Break(c) \/ ExitLoop(c)
      PROVE  Sends
  BY <1>1, <1>6 DEF EnterGame, StoreSession, StartRound, Leave, Break, ExitLoop, TypeOK
<1>7. ASSUME NEW d \in DOMAIN drives, DriveStep(d) PROVE Sends
  BY <1>1, <1>7, DriveSteps DEF loopVars
<1> QED
  BY <1>2, <1>3, <1>4, <1>5, <1>6, <1>7, Steps

-----------------------------------------------------------------------------
(* Inputs.                                                                 *)

\* The numbers of the inputs a round has been delivered.
Got(d) == IF d \in DOMAIN drives THEN Range(drives[d].delivered) ELSE {}

LEMMA RangeAppended ==
  ASSUME NEW s \in Seq(Nat), NEW i \in Nat
  PROVE  Range(Append(s, i)) = Range(s) \cup {i}
<1>1. /\ DOMAIN Append(s, i) = 1 .. Len(s) + 1 /\ Len(s) \in Nat
      /\ \A k \in 1 .. Len(s) : Append(s, i)[k] = s[k]
      /\ Append(s, i)[Len(s) + 1] = i
      /\ DOMAIN s = 1 .. Len(s)
  OBVIOUS
<1>2. 1 .. Len(s) + 1 = (1 .. Len(s)) \cup {Len(s) + 1}
  BY <1>1
<1> QED
  BY <1>1, <1>2 DEF Range

(* A step delivers nothing, or the next input of a connection to the       *)
(* newest of its rounds.                                                   *)
LEMMA GotSteps ==
  ASSUME TypeOK, Links, Dealt, Sender, [Next]_vars
  PROVE  \/ /\ \A d : Got(d)' = Got(d)
            /\ \A c \in Conns : inputs'[c] >= inputs[c]
         \/ \E c \in Conns, d \in DOMAIN drives :
              /\ ConnOf(d) = c
              /\ \A e \in DOMAIN drives : ConnOf(e) = c => e <= d
              /\ inputs'[c] = inputs[c] + 1
              /\ \A e \in Conns \ {c} : inputs'[e] = inputs[e]
              /\ DOMAIN drives' = DOMAIN drives
              /\ Got(d)' = Got(d) \cup {inputs[c] + 1}
              /\ \A e \in DOMAIN drives \ {d} : Got(e)' = Got(e)
<1> DEFINE Same == /\ \A d : Got(d)' = Got(d)
                   /\ \A c \in Conns : inputs'[c] >= inputs[c]
<1>a. \A c \in Conns : inputs[c] \in Nat
  BY TypeFacts
<1>b. \A d \in DOMAIN drives : drives[d].delivered \in Seq(Nat)
  BY TypeFacts DEF Drv
<1>1. ASSUME DOMAIN drives' = DOMAIN drives, inputs' = inputs,
             \A d \in DOMAIN drives : drives'[d].delivered = drives[d].delivered
      PROVE  Same
  BY <1>1, <1>a DEF Got
<1>2. ASSUME Quiet PROVE Same
  BY <1>1, <1>2 DEF Quiet
<1>3. ASSUME NEW c \in Conns, NEW g \in Games, AuthGame(c, g) PROVE Same
  BY <1>1, <1>3 DEF AuthGame
<1>4. ASSUME NEW c \in Conns, EnterGame(c) PROVE Same
  <2>0. PICK m \in Nat, n \in Nat : m = sessions[c] /\ n = Len(drives) + 1
    BY TypeFacts
  <2>1. /\ DOMAIN drives' = DOMAIN drives \cup {n}
        /\ \A d \in DOMAIN drives : drives'[d] = drives[d] /\ d < n
        /\ drives'[n] = NewDrive(m)
        /\ n \notin DOMAIN drives
    BY <1>4, <2>0, Entered
  <2>2. Range(drives'[n].delivered) = {}
    BY <2>1 DEF NewDrive, Range
  <2>3. inputs' = inputs
    BY <1>4 DEF EnterGame
  <2> QED
    BY <1>a, <2>1, <2>2, <2>3 DEF Got
<1>5. ASSUME NEW c \in Conns, StoreSession(c) \/ Leave(c) \/ Break(c) \/ ExitLoop(c)
      PROVE  Same
  BY <1>1, <1>5 DEF StoreSession, Leave, Break, ExitLoop
<1>6. ASSUME NEW c \in Conns, StartRound(c) PROVE Same
  <2>1. /\ DOMAIN drives' = DOMAIN drives
        /\ \A d \in DOMAIN drives : drives'[d].delivered = drives[d].delivered
    <3>0. PICK d : d = session[sessions[c]].drv
      OBVIOUS
    <3> QED
      BY <1>6, <3>0, Started
  <2> QED
    BY <1>1, <1>6, <2>1 DEF StartRound
<1>7. ASSUME NEW c \in Conns, Unblock(c) PROVE Same
  <2>1. /\ DOMAIN drives' = DOMAIN drives
        /\ \A d \in DOMAIN drives : drives'[d].delivered = drives[d].delivered
    <3>0. PICK d : d = sending[c].drv
      OBVIOUS
    <3> QED
      BY <1>7, <3>0, Unblocked
  <2> QED
    BY <1>1, <1>7, <2>1 DEF Unblock
<1>8. ASSUME NEW d \in DOMAIN drives, DriveStep(d) PROVE Same
  BY <1>1, <1>8, DriveSteps DEF loopVars
<1>9. ASSUME NEW c \in Conns, InputOperation(c)
      PROVE  \/ Same
             \/ \E d \in DOMAIN drives :
                  /\ ConnOf(d) = c
                  /\ \A e \in DOMAIN drives : ConnOf(e) = c => e <= d
                  /\ inputs'[c] = inputs[c] + 1
                  /\ \A e \in Conns \ {c} : inputs'[e] = inputs[e]
                  /\ DOMAIN drives' = DOMAIN drives
                  /\ Got(d)' = Got(d) \cup {inputs[c] + 1}
                  /\ \A e \in DOMAIN drives \ {d} : Got(e)' = Got(e)
  <2>0. PICK d : d = session[sessions[c]].drv
    OBVIOUS
  <2>1. /\ d \in DOMAIN drives /\ ConnOf(d) = c
        /\ \A e \in DOMAIN drives : ConnOf(e) = c => e <= d
    BY <1>9, <2>0, Addressed
  <2>2. Deliver(c, d) /\ inputs' = [inputs EXCEPT ![c] = @ + 1]
    BY <1>9, <2>0 DEF InputOperation
  <2>3. /\ DOMAIN drives' = DOMAIN drives
        /\ \A e \in DOMAIN drives \ {d} : drives'[e] = drives[e]
        /\ \/ drives' = drives
           \/ drives'[d].delivered = Append(drives[d].delivered, inputs[c] + 1)
    BY <2>1, <2>2, Delivery
  <2>4. /\ inputs'[c] = inputs[c] + 1
        /\ \A e \in Conns \ {c} : inputs'[e] = inputs[e]
    BY <2>2 DEF TypeOK
  <2>5. CASE drives' = drives
    <3>1. \A e \in Conns : inputs'[e] >= inputs[e]
      BY <1>a, <2>4
    <3> QED
      BY <2>5, <3>1 DEF Got
  <2>6. CASE drives'[d].delivered = Append(drives[d].delivered, inputs[c] + 1)
    <3>1. Range(drives'[d].delivered)
            = Range(drives[d].delivered) \cup {inputs[c] + 1}
      BY <1>a, <1>b, <2>1, <2>6, RangeAppended
    <3>2. Got(d)' = Got(d) \cup {inputs[c] + 1}
      BY <2>1, <2>3, <3>1 DEF Got
    <3>3. \A e \in DOMAIN drives \ {d} : Got(e)' = Got(e)
      BY <2>3 DEF Got
    <3> QED
      BY <2>1, <2>3, <2>4, <3>2, <3>3
  <2> QED
    BY <2>3, <2>5, <2>6
<1>10. \/ Same
       \/ \E c \in Conns, d \in DOMAIN drives :
            /\ ConnOf(d) = c
            /\ \A e \in DOMAIN drives : ConnOf(e) = c => e <= d
            /\ inputs'[c] = inputs[c] + 1
            /\ \A e \in Conns \ {c} : inputs'[e] = inputs[e]
            /\ DOMAIN drives' = DOMAIN drives
            /\ Got(d)' = Got(d) \cup {inputs[c] + 1}
            /\ \A e \in DOMAIN drives \ {d} : Got(e)' = Got(e)
  <2> HIDE DEF Same
  <2> QED
    BY <1>2, <1>3, <1>4, <1>5, <1>6, <1>7, <1>8, <1>9, Steps
<1> QED
  BY <1>10

LEMMA NextInputs ==
  /\ TypeOK /\ Links /\ Dealt /\ Sender
  /\ InputsStayOnConnection /\ InputsFollowSession
  /\ [Next]_vars
  => InputsStayOnConnection' /\ InputsFollowSession'
<1> SUFFICES ASSUME TypeOK, Links, Dealt, Sender, [Next]_vars,
                    InputsStayOnConnection, InputsFollowSession
             PROVE  InputsStayOnConnection' /\ InputsFollowSession'
  OBVIOUS
<1>a. \A d \in DOMAIN drives : d \in DOMAIN drives' /\ ConnOf(d)' = ConnOf(d)
  BY ConnKept
<1>b. \A d \in DOMAIN drives : ConnOf(d) \in Conns /\ d \in Nat
  BY TypeFacts DEF ConnOf
<1>c. \A c \in Conns : inputs[c] \in Nat
  BY TypeFacts
<1>d. \A d : Got(d) # {} => d \in DOMAIN drives
  BY DEF Got
<1>e. \A d \in DOMAIN drives : Got(d) \subseteq 1 .. inputs[ConnOf(d)]
  BY DEF InputsStayOnConnection, Got
<1>f. \A d, e \in DOMAIN drives :
        ConnOf(d) = ConnOf(e) /\ d < e => \A i \in Got(d), j \in Got(e) : i < j
  BY DEF InputsFollowSession, Got
<1>g. \A d \in DOMAIN drives' : Got(d)' = Range(drives'[d].delivered)
  BY DEF Got
<1>1. CASE /\ \A d : Got(d)' = Got(d)
           /\ \A c \in Conns : inputs'[c] >= inputs[c]
  <2>1. ASSUME NEW d \in DOMAIN drives', NEW i \in Got(d)'
        PROVE  i \in 1 .. inputs'[ConnOf(d)']
    <3>1. i \in Got(d) /\ d \in DOMAIN drives
      BY <1>1, <1>d, <2>1
    <3>2. inputs'[ConnOf(d)] >= inputs[ConnOf(d)] /\ inputs[ConnOf(d)] \in Nat
      BY <1>1, <1>b, <1>c, <3>1
    <3>3. i \in 1 .. inputs[ConnOf(d)]
      BY <1>e, <3>1
    <3>4. inputs' \in [Conns -> 0 .. MaxInputs]
      BY NextType DEF TypeOK, Links
    <3> QED
      BY <1>a, <1>b, <3>1, <3>2, <3>3, <3>4, SessionAssumption
  <2>2. ASSUME NEW d \in DOMAIN drives', NEW e \in DOMAIN drives',
               ConnOf(d)' = ConnOf(e)', d < e, NEW i \in Got(d)', NEW j \in Got(e)'
        PROVE  i < j
    <3>1. i \in Got(d) /\ j \in Got(e) /\ d \in DOMAIN drives /\ e \in DOMAIN drives
      BY <1>1, <1>d, <2>2
    <3> QED
      BY <1>a, <1>f, <2>2, <3>1
  <2>3. InputsStayOnConnection'
    BY <1>g, <2>1 DEF InputsStayOnConnection
  <2>4. InputsFollowSession'
    BY <1>g, <2>2 DEF InputsFollowSession
  <2> QED
    BY <2>3, <2>4
<1>2. ASSUME NEW c \in Conns, NEW d \in DOMAIN drives,
             ConnOf(d) = c,
             \A e \in DOMAIN drives : ConnOf(e) = c => e <= d,
             inputs'[c] = inputs[c] + 1,
             \A e \in Conns \ {c} : inputs'[e] = inputs[e],
             DOMAIN drives' = DOMAIN drives,
             Got(d)' = Got(d) \cup {inputs[c] + 1},
             \A e \in DOMAIN drives \ {d} : Got(e)' = Got(e)
      PROVE  InputsStayOnConnection' /\ InputsFollowSession'
  <2>1. \A e \in DOMAIN drives : \A i \in Got(e) : i \in Int /\ 1 <= i /\ i <= inputs[ConnOf(e)]
    BY <1>b, <1>c, <1>e
  <2>2. ASSUME NEW e \in DOMAIN drives', NEW i \in Got(e)'
        PROVE  i \in 1 .. inputs'[ConnOf(e)']
    <3>1. e \in DOMAIN drives /\ ConnOf(e)' = ConnOf(e) /\ ConnOf(e) \in Conns
      BY <1>2, <1>a, <1>b
    <3>2. CASE e = d
      <4>1. i \in Got(d) \/ i = inputs[c] + 1
        BY <1>2, <2>2, <3>2
      <4> QED
        BY <1>2, <1>c, <2>1, <3>1, <3>2, <4>1
    <3>3. CASE e # d
      <4>1. i \in Got(e)
        BY <1>2, <2>2, <3>1, <3>3
      <4> QED
        BY <1>2, <1>c, <2>1, <3>1, <4>1
    <3> QED
      BY <3>2, <3>3
  <2>3. ASSUME NEW a \in DOMAIN drives', NEW b \in DOMAIN drives',
               ConnOf(a)' = ConnOf(b)', a < b, NEW i \in Got(a)', NEW j \in Got(b)'
        PROVE  i < j
    <3>1. /\ a \in DOMAIN drives /\ b \in DOMAIN drives
          /\ ConnOf(a) = ConnOf(b) /\ a \in Nat /\ b \in Nat
      BY <1>2, <1>a, <1>b, <2>3
    <3>2. a # d
      BY <1>2, <2>3, <3>1
    <3>3. i \in Got(a)
      BY <1>2, <2>3, <3>1, <3>2
    <3>4. CASE b # d
      BY <1>2, <1>f, <2>3, <3>1, <3>3, <3>4
    <3>5. CASE b = d
      <4>1. j \in Got(d) \/ j = inputs[c] + 1
        BY <1>2, <2>3, <3>5
      <4>2. CASE j \in Got(d)
        BY <1>f, <2>3, <3>1, <3>3, <3>5, <4>2
      <4>3. CASE j = inputs[c] + 1
        <5>1. ConnOf(a) = c
          BY <1>2, <3>1, <3>5
        <5>2. i \in Int /\ i <= inputs[c]
          BY <2>1, <3>1, <3>3, <5>1
        <5> QED
          BY <1>c, <4>3, <5>2
      <4> QED
        BY <4>1, <4>2, <4>3
    <3> QED
      BY <3>4, <3>5
  <2>4. InputsStayOnConnection'
    BY <1>g, <2>2 DEF InputsStayOnConnection
  <2>5. InputsFollowSession'
    BY <1>g, <2>3 DEF InputsFollowSession
  <2> QED
    BY <2>4, <2>5
<1> QED
  BY <1>1, <1>2, GotSteps

(* The queue of a round: what it took, its channel, and the input a read   *)
(* loop is blocked with.                                                   *)
Held(d) == IF Blocked(d) = {} THEN << >>
           ELSE <<sending[CHOOSE c \in Blocked(d) : TRUE].input>>

\* Only the read loop of its own connection can be blocked on a round.
LEMMA BlockedIs ==
  ASSUME TypeOK, Sender, NEW d \in DOMAIN drives
  PROVE  Blocked(d) \in {{}, {ConnOf(d)}}
BY DEF Blocked, Sender

LEMMA HeldIs ==
  ASSUME TypeOK, Sender, NEW d \in DOMAIN drives
  PROVE  /\ Blocked(d) = {} => Held(d) = << >>
         /\ \A c : Blocked(d) = {c} => Held(d) = <<sending[c].input>>
<1>1. ASSUME NEW c, Blocked(d) = {c} PROVE (CHOOSE e \in Blocked(d) : TRUE) = c
  BY <1>1
<1> QED
  BY <1>1 DEF Held

LEMMA NextOrder ==
  TypeOK /\ Links /\ Dealt /\ Sender /\ InputsInOrder /\ [Next]_vars => InputsInOrder'
<1> SUFFICES ASSUME TypeOK, Links, Dealt, Sender, InputsInOrder, [Next]_vars,
                    NEW d \in DOMAIN drives'
             PROVE  drives'[d].delivered = drives'[d].taken \o drives'[d].box \o Held(d)'
  BY DEF InputsInOrder, Held
<1> DEFINE Ordered == drives'[d].delivered = drives'[d].taken \o drives'[d].box \o Held(d)'
<1>a. d \in DOMAIN drives =>
        /\ drives[d].delivered = drives[d].taken \o drives[d].box \o Held(d)
        /\ drives[d].delivered \in Seq(Nat)
        /\ drives[d].taken \in Seq(Nat)
        /\ drives[d].box \in Seq(Nat)
  <2>1. d \in DOMAIN drives =>
          drives[d].delivered = drives[d].taken \o drives[d].box \o Held(d)
    BY DEF InputsInOrder, Held
  <2>2. d \in DOMAIN drives => drives[d] \in Drv
    BY TypeFacts
  <2>3. d \in DOMAIN drives => /\ drives[d].delivered \in Seq(Nat)
                               /\ drives[d].taken \in Seq(Nat)
                               /\ drives[d].box \in Seq(Nat)
    BY <2>2 DEF Drv
  <2> QED
    BY <2>1, <2>3
<1>b. TypeOK' /\ Sender'
  BY NextType, NextSender DEF Links
<1>1. ASSUME d \in DOMAIN drives, Held(d)' = Held(d),
             drives'[d].delivered = drives[d].delivered,
             drives'[d].taken \o drives'[d].box = drives[d].taken \o drives[d].box
      PROVE  Ordered
  BY <1>1, <1>a
<1>2. ASSUME \A c \in Conns : /\ loop'[c] = "sending" <=> loop[c] = "sending"
                              /\ sending'[c] = sending[c]
      PROVE  Held(d)' = Held(d)
  <2>1. Blocked(d)' = Blocked(d)
    BY <1>2 DEF Blocked
  <2>2. CASE Blocked(d) = {}
    BY <2>1, <2>2 DEF Held
  <2>3. CASE Blocked(d) # {}
    <3> DEFINE c == CHOOSE e \in Blocked(d) : TRUE
    <3>1. c \in Conns
      BY <2>3 DEF Blocked
    <3>2. sending'[c] = sending[c]
      BY <1>2, <3>1
    <3> QED
      BY <2>1, <2>3, <3>2 DEF Held
  <2> QED
    BY <2>2, <2>3
<1>3. ASSUME Quiet PROVE Ordered
  <2>1. Held(d)' = Held(d)
    BY <1>2, <1>3 DEF Quiet
  <2> QED
    BY <1>1, <1>3, <2>1 DEF Quiet
<1>4. ASSUME NEW c \in Conns, NEW g \in Games, AuthGame(c, g) PROVE Ordered
  <2>1. Held(d)' = Held(d)
    BY <1>2, <1>4 DEF AuthGame, TypeOK
  <2> QED
    BY <1>1, <1>4, <2>1 DEF AuthGame
<1>5. ASSUME NEW c \in Conns, EnterGame(c) PROVE Ordered
  <2>0. PICK m \in Nat, n \in Nat : m = sessions[c] /\ n = Len(drives) + 1
    BY TypeFacts
  <2>1. /\ DOMAIN drives' = DOMAIN drives \cup {n}
        /\ \A e \in DOMAIN drives : drives'[e] = drives[e] /\ e < n
        /\ drives'[n] = NewDrive(m)
        /\ n \notin DOMAIN drives
    BY <1>5, <2>0, Entered
  <2>2. Held(d)' = Held(d)
    BY <1>2, <1>5 DEF EnterGame, TypeOK
  <2>3. CASE d \in DOMAIN drives
    BY <1>1, <2>1, <2>2, <2>3
  <2>4. CASE d = n
    <3>1. Blocked(n) = {}
      BY <2>1 DEF Blocked, Sender
    <3>2. Held(d)' = << >>
      BY <2>2, <2>4, <3>1 DEF Held
    <3>3. /\ drives'[d].delivered = << >> /\ drives'[d].taken = << >>
          /\ drives'[d].box = << >>
      BY <2>1, <2>4 DEF NewDrive
    <3> QED
      BY <3>2, <3>3
  <2> QED
    BY <2>1, <2>3, <2>4
<1>6. ASSUME NEW c \in Conns, StoreSession(c) \/ Leave(c) \/ Break(c) \/ ExitLoop(c)
      PROVE  Ordered
  <2>1. Held(d)' = Held(d)
    BY <1>2, <1>6 DEF StoreSession, Leave, Break, ExitLoop, TypeOK
  <2>2. drives' = drives
    BY <1>6 DEF StoreSession, Leave, Break, ExitLoop
  <2> QED
    BY <1>1, <2>1, <2>2
<1>7. ASSUME NEW c \in Conns, StartRound(c) PROVE Ordered
  <2>1. Held(d)' = Held(d)
    BY <1>2, <1>7 DEF StartRound, TypeOK
  <2>0. PICK e : e = session[sessions[c]].drv
    OBVIOUS
  <2>2. /\ d \in DOMAIN drives
        /\ drives'[d].delivered = drives[d].delivered
        /\ drives'[d].taken = drives[d].taken
        /\ drives'[d].box = drives[d].box
    BY <1>7, <2>0, Started
  <2> QED
    BY <1>1, <2>1, <2>2
<1>8. ASSUME NEW e \in DOMAIN drives, DriveStep(e) PROVE Ordered
  <2>1. UNCHANGED loopVars
    BY <1>8, DriveSteps
  <2>2. Held(d)' = Held(d)
    BY <1>2, <2>1 DEF loopVars
  <2>3. /\ d \in DOMAIN drives
        /\ drives'[d].delivered = drives[d].delivered
        /\ drives'[d].taken \o drives'[d].box = drives[d].taken \o drives[d].box
    BY <1>8, DriveSteps
  <2> QED
    BY <1>1, <2>2, <2>3
<1>9. ASSUME NEW c \in Conns, InputOperation(c) PROVE Ordered
  <2>0. PICK e : e = session[sessions[c]].drv
    OBVIOUS
  <2>1. e \in DOMAIN drives /\ ConnOf(e) = c /\ Deliver(c, e) /\ loop[c] = "idle"
    BY <1>9, <2>0, Addressed DEF InputOperation
  <2>2. /\ DOMAIN drives' = DOMAIN drives
        /\ \A f \in DOMAIN drives \ {e} : drives'[f] = drives[f]
        /\ drives'[e].taken = drives[e].taken
    BY <2>1, Delivery
  <2>3. d \in DOMAIN drives
    BY <2>2
  <2>4. CASE drives' = drives /\ UNCHANGED <<loop, sending>>
    BY <1>1, <1>2, <2>3, <2>4
  <2>5. CASE d # e
    <3>1. Held(d)' = Held(d)
      <4>0. \/ UNCHANGED <<loop, sending>>
            \/ /\ loop' = [loop EXCEPT ![c] = "sending"]
               /\ sending' = [sending EXCEPT ![c] = [drv |-> e, input |-> inputs[c] + 1]]
        BY <2>1, Delivery
      <4>1. Blocked(d)' = Blocked(d) /\ c \notin Blocked(d)
        BY <2>1, <2>5, <4>0, SMTT(30) DEF Blocked, TypeOK
      <4>2. \A f \in Conns \ {c} : sending'[f] = sending[f]
        BY <4>0 DEF TypeOK
      <4>3. Blocked(d) = {} \/ \E f \in Conns \ {c} : Blocked(d) = {f}
        BY <2>3, <4>1, BlockedIs DEF Blocked
      <4> QED
        BY <4>1, <4>2, <4>3 DEF Held
    <3> QED
      BY <1>1, <2>2, <2>3, <2>5, <3>1
  <2>6. CASE d = e /\ drives' # drives
    <3> DEFINE i == inputs[c] + 1
               t == drives[d].taken
               b == drives[d].box
               D == drives[d].delivered
    <3>1. i \in Nat
      BY TypeFacts
    <3>2. Blocked(d) = {}
      BY <2>1, <2>3, <2>6, BlockedIs DEF Blocked
    <3>3. D = t \o b
      <4>1. Held(d) = << >>
        BY <3>2 DEF Held
      <4>2. t \o b \in Seq(Nat)
        BY <1>a, <2>3, ConcatProperties
      <4>3. (t \o b) \o << >> = t \o b
        BY <4>2, ConcatEmptySeq
      <4> QED
        BY <1>a, <2>3, <4>1, <4>3
    <3>4. t \in Seq(Nat) /\ b \in Seq(Nat) /\ D \in Seq(Nat)
      BY <1>a, <2>3
    <3>5. /\ drives'[d].delivered = Append(D, i)
          /\ drives'[d].taken = t
          /\ \/ /\ b = << >>
                /\ drives'[d].box = <<i>>
                /\ UNCHANGED <<loop, sending>>
             \/ /\ drives'[d].box = b
                /\ loop' = [loop EXCEPT ![c] = "sending"]
                /\ sending' = [sending EXCEPT ![c] = [drv |-> d, input |-> i]]
      BY <2>1, <2>6, Delivery
    <3>6. Append(D, i) = D \o <<i>>
      BY <3>1, <3>4, AppendIsConcat
    <3> HIDE DEF i, t, b, D
    <3>7. CASE /\ b = << >>
               /\ drives'[d].box = <<i>>
               /\ UNCHANGED <<loop, sending>>
      <4>1. Held(d)' = << >>
        BY <3>2, <3>7 DEF Held, Blocked
      <4>2. t \o << >> = t
        BY <3>4, ConcatEmptySeq
      <4>3. t \o <<i>> \in Seq(Nat)
        BY <3>1, <3>4, ConcatProperties
      <4>4. (t \o <<i>>) \o << >> = t \o <<i>>
        BY <4>3, ConcatEmptySeq
      <4> QED
        BY <3>3, <3>5, <3>6, <3>7, <4>1, <4>2, <4>4
    <3>8. CASE /\ drives'[d].box = b
               /\ loop' = [loop EXCEPT ![c] = "sending"]
               /\ sending' = [sending EXCEPT ![c] = [drv |-> d, input |-> i]]
      <4>1. Blocked(d)' = {c} /\ sending'[c].input = i
        BY <3>2, <3>8 DEF Blocked, TypeOK
      <4>2. Held(d)' = <<i>>
        BY <4>1 DEF Held
      <4> QED
        BY <3>3, <3>5, <3>6, <3>8, <4>2
    <3> QED
      BY <3>5, <3>7, <3>8 DEF i, b
  <2>7. drives' = drives => UNCHANGED <<loop, sending>>
    BY <2>1, Delivery
  <2> QED
    BY <2>4, <2>5, <2>6, <2>7
<1>10. ASSUME NEW c \in Conns, Unblock(c) PROVE Ordered
  <2>0. PICK e : e = sending[c].drv
    OBVIOUS
  <2>1. /\ e \in DOMAIN drives
        /\ DOMAIN drives' = DOMAIN drives
        /\ \A f \in DOMAIN drives \ {e} : drives'[f] = drives[f]
        /\ drives[e].box = << >>
        /\ drives'[e].taken = drives[e].taken
        /\ drives'[e].delivered = drives[e].delivered
    BY <1>10, <2>0, Unblocked
  <2>2. drives'[e].box = <<sending[c].input>>
    BY <1>10, <2>0, Unblocked, Zenon
  <2>3. /\ loop[c] = "sending" /\ loop' = [loop EXCEPT ![c] = "idle"]
        /\ sending' = [sending EXCEPT ![c] = Idle]
    BY <1>10 DEF Unblock
  <2>4. d \in DOMAIN drives
    BY <2>1
  <2>5. CASE d # e
    <3>1. Blocked(d)' = Blocked(d) /\ c \notin Blocked(d)
      BY <2>0, <2>3, <2>5 DEF Blocked, TypeOK
    <3>2. \A f \in Conns \ {c} : sending'[f] = sending[f]
      BY <2>3 DEF TypeOK
    <3>3. Blocked(d) = {} \/ \E f \in Conns \ {c} : Blocked(d) = {f}
      BY <2>4, <3>1, BlockedIs DEF Blocked
    <3>4. Held(d)' = Held(d)
      BY <3>1, <3>2, <3>3 DEF Held
    <3> QED
      BY <1>1, <2>1, <2>4, <2>5, <3>4
  <2>6. CASE d = e
    <3>1. Blocked(d) = {c}
      BY <2>0, <2>3, <2>4, <2>6, BlockedIs DEF Blocked
    <3>2. Blocked(d)' = {}
      BY <2>3, <3>1 DEF Blocked, TypeOK
    <3> DEFINE i == sending[c].input
               t == drives[d].taken
    <3>3. Held(d) = <<i>>
      BY <2>4, <3>1, HeldIs
    <3>4. Held(d)' = << >>
      BY <3>2 DEF Held
    <3>5. t \in Seq(Nat) /\ i \in Nat
      BY <1>a, <2>4 DEF TypeOK
    <3>6. drives'[d].delivered = t \o << >> \o <<i>>
      BY <1>a, <2>1, <2>4, <2>6, <3>3
    <3>7. drives'[d].taken = t /\ drives'[d].box = <<i>>
      BY <2>1, <2>2, <2>6
    <3> HIDE DEF i, t
    <3>8. t \o << >> = t
      BY <3>5, ConcatEmptySeq
    <3>9. t \o <<i>> \in Seq(Nat)
      BY <3>5, ConcatProperties
    <3>10. (t \o <<i>>) \o << >> = t \o <<i>>
      BY <3>9, ConcatEmptySeq
    <3> QED
      BY <3>4, <3>6, <3>7, <3>8, <3>10
  <2> QED
    BY <2>5, <2>6
<1> QED
  BY <1>3, <1>4, <1>5, <1>6, <1>7, <1>8, <1>9, <1>10, Steps

-----------------------------------------------------------------------------
(* The invariant.                                                          *)

LEMMA NextSession == SessionInv /\ [Next]_vars => SessionInv'
<1> SUFFICES ASSUME SessionInv, [Next]_vars PROVE SessionInv'
  OBVIOUS
<1>1. TypeOK' /\ Links' /\ Dealt' /\ Sender'
  BY NextType, NextLinks, NextDealt, NextSender DEF SessionInv, Links
<1>2. InputsInOrder' /\ InputsStayOnConnection' /\ InputsFollowSession'
  BY NextOrder, NextInputs DEF SessionInv
<1> QED
  BY <1>1, <1>2 DEF SessionInv

LEMMA SessionInvariant == Spec => []SessionInv
<1>1. Init => SessionInv
  BY InitSession
<1>2. SessionInv /\ [Next]_vars => SessionInv'
  BY NextSession
<1> QED
  BY <1>1, <1>2, PTL DEF Spec

(* The sessions, the rounds and the inputs on their way are what the       *)
(* handlers and the goroutines of game/ take them for.                     *)
THEOREM SessionTypes == Spec => []TypeOK
<1>1. SessionInv => TypeOK
  BY DEF SessionInv
<1> QED
  BY <1>1, SessionInvariant, PTL

(* However many clients authenticate, enter and leave, no session is given *)
(* a second round: enterGame looks at the session it found and nothing     *)
(* else (game/handlers.go), and this is enough.                            *)
THEOREM OneDrive == Spec => []OneDrivePerSession
<1>1. SessionInv => OneDrivePerSession
  BY DEF SessionInv, Links, Owned, OneDrivePerSession
<1> QED
  BY <1>1, SessionInvariant, PTL

(* What Deliver accepted is what the round takes, in the order read: the   *)
(* channel of one slot and the one read loop that may block on it make a   *)
(* queue (game/drive.go).                                                  *)
THEOREM OrderKept == Spec => []InputsInOrder
<1>1. SessionInv => InputsInOrder
  BY DEF SessionInv
<1> QED
  BY <1>1, SessionInvariant, PTL

(* A client that authenticates again plays the newest session's round, and *)
(* the rounds it left get nothing it says later (game/handlers.go).        *)
THEOREM SessionFollowed == Spec => []InputsFollowSession
<1>1. SessionInv => InputsFollowSession
  BY DEF SessionInv
<1> QED
  BY <1>1, SessionInvariant, PTL

(* No round gets an input its connection did not send.                     *)
THEOREM ConnectionKept == Spec => []InputsStayOnConnection
<1>1. SessionInv => InputsStayOnConnection
  BY DEF SessionInv
<1> QED
  BY <1>1, SessionInvariant, PTL

-----------------------------------------------------------------------------
(* Every drive implements the life cycle.                                  *)

\* Nothing is saved or credited of a round that does not exist.
LEMMA LifeInit == Init => \A d \in Drives : Life(d)!Init
BY DEF Init, Life!Init, LifeStage

LEMMA LifeSteps ==
  ASSUME SessionInv, [Next]_vars, NEW d \in Drives
  PROVE  [Life(d)!Next]_(Life(d)!lifeVars)
<1> DEFINE stays == Life(d)!lifeVars' = Life(d)!lifeVars
           moves == Life(d)!Next
<1> USE DEF SessionInv
<1>1. ASSUME DOMAIN drives' = DOMAIN drives,
             d \in DOMAIN drives => /\ drives'[d].stage = drives[d].stage
                                    /\ drives'[d].saved = drives[d].saved
                                    /\ drives'[d].credited = drives[d].credited
      PROVE  Life(d)!lifeVars' = Life(d)!lifeVars
  BY <1>1 DEF Life!lifeVars, LifeStage
<1>2. ASSUME Quiet PROVE stays
  BY <1>1, <1>2 DEF Quiet
<1>3. ASSUME NEW c \in Conns, NEW g \in Games, AuthGame(c, g) PROVE stays
  BY <1>1, <1>3 DEF AuthGame
<1>4. ASSUME NEW c \in Conns, StoreSession(c) \/ Leave(c) \/ Break(c) \/ ExitLoop(c)
      PROVE  stays
  BY <1>1, <1>4 DEF StoreSession, Leave, Break, ExitLoop
<1>5. ASSUME NEW c \in Conns, EnterGame(c) PROVE stays
  <2>0. PICK m \in Nat, n \in Nat : m = sessions[c] /\ n = Len(drives) + 1
    BY TypeFacts
  <2>1. /\ DOMAIN drives' = DOMAIN drives \cup {n}
        /\ \A e \in DOMAIN drives : drives'[e] = drives[e] /\ e < n
        /\ drives'[n] = NewDrive(m)
        /\ n \notin DOMAIN drives
    BY <1>5, <2>0, Entered
  <2>2. CASE d = n
    <3>1. /\ drives'[n].stage = "dealt" /\ drives'[n].saved = FALSE
          /\ drives'[n].credited = FALSE
      BY <2>1 DEF NewDrive
    <3> QED
      BY <2>1, <2>2, <3>1 DEF Life!lifeVars, LifeStage
  <2>3. CASE d # n
    BY <2>1, <2>3 DEF Life!lifeVars, LifeStage
  <2> QED
    BY <2>2, <2>3
<1>6. ASSUME NEW c \in Conns, InputOperation(c) PROVE stays
  <2>0. PICK e : e = session[sessions[c]].drv
    OBVIOUS
  <2>1. e \in DOMAIN drives /\ Deliver(c, e)
    BY <1>6, <2>0, Addressed DEF InputOperation
  <2>2. /\ DOMAIN drives' = DOMAIN drives
        /\ \A f \in DOMAIN drives \ {e} : drives'[f] = drives[f]
        /\ drives'[e].stage = drives[e].stage
        /\ drives'[e].saved = drives[e].saved
        /\ drives'[e].credited = drives[e].credited
    BY <2>1, Delivery
  <2> QED
    BY <1>1, <2>2
<1>7. ASSUME NEW c \in Conns, Unblock(c) PROVE stays
  <2>0. PICK e : e = sending[c].drv
    OBVIOUS
  <2>1. /\ DOMAIN drives' = DOMAIN drives
        /\ \A f \in DOMAIN drives \ {e} : drives'[f] = drives[f]
        /\ drives'[e].stage = drives[e].stage
        /\ drives'[e].saved = drives[e].saved
        /\ drives'[e].credited = drives[e].credited
    BY <1>7, <2>0, Unblocked
  <2> QED
    BY <1>1, <2>1
<1>8. ASSUME NEW c \in Conns, StartRound(c) PROVE stays \/ moves
  <2>0. PICK e : e = session[sessions[c]].drv
    OBVIOUS
  <2>1. /\ e \in DOMAIN drives /\ drives[e].stage = "dealt"
        /\ DOMAIN drives' = DOMAIN drives
        /\ \A f \in DOMAIN drives \ {e} : drives'[f] = drives[f]
        /\ drives'[e].stage \in {"playing", "lost"}
        /\ drives'[e].saved = drives[e].saved
        /\ drives'[e].credited = drives[e].credited
    BY <1>8, <2>0, Started
  <2>2. CASE d # e
    BY <1>1, <2>1, <2>2
  <2>3. CASE d = e
    <3>1. LifeStage(d) = "dealt" /\ LifeStage(d)' = drives'[d].stage
      BY <2>1, <2>3 DEF LifeStage
    <3> QED
      BY <2>1, <2>3, <3>1 DEF Life!Next, Life!Announce, Life!Move, Life!Lose
  <2> QED
    BY <2>2, <2>3
<1>9. ASSUME NEW e \in DOMAIN drives, DriveStep(e) PROVE stays \/ moves
  <2>1. /\ DOMAIN drives' = DOMAIN drives
        /\ \A f \in DOMAIN drives \ {e} : drives'[f] = drives[f]
    BY <1>9, DriveSteps
  <2>2. CASE d # e
    BY <1>1, <2>1, <2>2
  <2>3. CASE d = e
    <3>1. drives[d] \in Drv /\ d \in DOMAIN drives /\ d \in DOMAIN drives'
      BY <2>1, <2>3, TypeFacts
    <3>2. LifeStage(d) = IF drives[d].stage = "registering" THEN "playing"
                                                            ELSE drives[d].stage
      BY <3>1 DEF LifeStage
    <3>3. LifeStage(d)' = IF drives'[d].stage = "registering" THEN "playing"
                                                              ELSE drives'[d].stage
      BY <3>1 DEF LifeStage
    <3>4. CASE Ask(d)
      <4>1. /\ drives[d].stage = "playing"
            /\ drives'[d].stage \in {"asking", "registering"}
            /\ drives'[d].saved = drives[d].saved
            /\ drives'[d].credited = drives[d].credited
        BY <3>1, <3>4 DEF Ask, Drv
      <4> QED
        BY <3>1, <3>2, <3>3, <4>1 DEF Life!Next, Life!Ask, Life!Move, Life!lifeVars
    <3>5. CASE Register(d)
      <4>1. /\ drives[d].stage = "registering" /\ drives'[d].stage = "asking"
            /\ drives'[d].saved = drives[d].saved
            /\ drives'[d].credited = drives[d].credited
        BY <3>1, <3>5 DEF Register, Drv
      <4> QED
        BY <3>1, <3>2, <3>3, <4>1 DEF Life!Next, Life!Ask, Life!Move
    <3>6. CASE TakeInput(d)
      <4>1. /\ drives[d].stage = "asking" /\ drives'[d].stage = "playing"
            /\ drives'[d].saved = drives[d].saved
            /\ drives'[d].credited = drives[d].credited
        BY <3>1, <3>6 DEF TakeInput, Drv
      <4> QED
        BY <3>1, <3>2, <3>3, <4>1 DEF Life!Next, Life!Answer, Life!Move
    <3>7. CASE Settle(d) \/ FailRound(d) \/ FailArchive(d)
      <4>1. /\ \/ drives[d].stage = "playing" /\ drives'[d].stage = "settled"
               \/ drives[d].stage = "playing" /\ drives'[d].stage = "lost"
               \/ drives[d].stage = "settled" /\ drives'[d].stage = "lost"
               \/ drives[d].stage = "recorded" /\ drives'[d].stage = "lost"
            /\ drives'[d].saved = drives[d].saved
            /\ drives'[d].credited = drives[d].credited
        BY <3>1, <3>7 DEF Settle, FailRound, FailArchive, Goes, Drv
      <4> QED
        BY <3>1, <3>2, <3>3, <4>1 DEF Life!Next, Life!Settle, Life!Lose, Life!Move
    <3>8. CASE SaveRecord(d)
      <4>1. /\ drives[d].stage = "settled" /\ drives'[d].stage = "recorded"
            /\ drives'[d].saved = TRUE
            /\ drives'[d].credited = drives[d].credited
        BY <3>1, <3>8 DEF SaveRecord, Drv
      <4> QED
        BY <3>1, <3>2, <3>3, <4>1 DEF Life!Next, Life!Record, Life!Move
    <3>9. CASE CreditRound(d)
      <4>1. /\ drives[d].stage = "recorded" /\ drives'[d].stage = "done"
            /\ drives'[d].credited = TRUE
            /\ drives'[d].saved = drives[d].saved
        BY <3>1, <3>9 DEF CreditRound, Drv
      <4> QED
        BY <3>1, <3>2, <3>3, <4>1 DEF Life!Next, Life!Credit, Life!Move
    <3> QED
      BY <1>9, <2>3, <3>4, <3>5, <3>6, <3>7, <3>8, <3>9 DEF DriveStep
  <2> QED
    BY <2>2, <2>3
<1>10. stays \/ moves
  <2> HIDE DEF stays, moves
  <2> QED
    BY <1>2, <1>3, <1>4, <1>5, <1>6, <1>7, <1>8, <1>9, Steps
<1> QED
  BY <1>10

(* What a handler or a goroutine does to a round, whatever connection it   *)
(* works for, is a step of the round's life cycle or none: a record is     *)
(* saved only of a settled round and credited only once saved              *)
(* (game/handlers.go, game/round.go).                                      *)
THEOREM EveryDriveLives == Spec => DrivesImplementLifecycle
<1> DEFINE Start == \A d \in Drives : Life(d)!Init
           Step == \A d \in Drives : [Life(d)!Next]_(Life(d)!lifeVars)
<1>1. Init => Start
  BY LifeInit
<1>2. SessionInv /\ [Next]_vars => Step
  BY LifeSteps
<1>3. SessionInv /\ [Next]_vars => [Step]_vars
  BY <1>2
<1>4. DrivesImplementLifecycle <=> Start /\ [][Step]_vars
  BY DEF DrivesImplementLifecycle
<1> HIDE DEF Start, Step
<1>5. Spec => Start /\ [][Step]_vars
  BY <1>1, <1>3, SessionInvariant, PTL DEF Spec
<1> QED
  BY <1>4, <1>5, PTL
=============================================================================
