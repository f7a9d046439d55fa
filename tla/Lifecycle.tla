------------------------------ MODULE Lifecycle ------------------------------
(***************************************************************************)
(* What a round promises to the parts around it (game/loop.go): the client *)
(* is told of it first, is asked while it is played, and is told how it    *)
(* was settled before anything is stored; the record is stored before the  *)
(* round is credited; and a round that is lost on the way does nothing     *)
(* more.                                                                   *)
(***************************************************************************)
VARIABLES stage,     \* how far the round is
          saved,     \* its record is in the paipu store
          credited   \* it counts for the achievement

lifeVars == <<stage, saved, credited>>

Stages == {"dealt", "playing", "asking", "settled", "recorded", "done", "lost"}

LifeTypeOK == stage \in Stages /\ saved \in BOOLEAN /\ credited \in BOOLEAN

Init == stage = "dealt" /\ saved = FALSE /\ credited = FALSE

Move(from, to) == stage = from /\ stage' = to

Announce == Move("dealt", "playing") /\ UNCHANGED <<saved, credited>>

Ask == Move("playing", "asking") /\ UNCHANGED <<saved, credited>>

Answer == Move("asking", "playing") /\ UNCHANGED <<saved, credited>>

Settle == Move("playing", "settled") /\ UNCHANGED <<saved, credited>>

Record == Move("settled", "recorded") /\ saved' = TRUE /\ UNCHANGED credited

Credit == Move("recorded", "done") /\ credited' = TRUE /\ UNCHANGED saved

\* The connection, an operation, the store or the process fails.
Lose == /\ stage \notin {"done", "lost"}
        /\ stage' = "lost"
        /\ UNCHANGED <<saved, credited>>

Next == \/ Announce \/ Ask \/ Answer \/ Settle \/ Record \/ Credit \/ Lose

Spec == Init /\ [][Next]_lifeVars
=============================================================================
