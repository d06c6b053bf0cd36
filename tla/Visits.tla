------------------------------- MODULE Visits -------------------------------
(***************************************************************************)
(* What the session store promises about the visits to the store, whatever *)
(* the cameras and the till report and in whatever order: one visit        *)
(* changes at a time; a shopper who left may come back to the same visit;  *)
(* the funnel stage only rises, also after the shopper left (a bill may    *)
(* be joined late); leaving and coming back never change the stage.        *)
(***************************************************************************)
EXTENDS Integers, Sequences

CONSTANT NStages  \* number of funnel stages, at least one

VARIABLE visit    \* visits in order of arrival: [stage, present]

Visit == [stage : 1..NStages, present : BOOLEAN]

Init == visit = <<>>

Arrive == visit' = Append(visit, [stage |-> 1, present |-> TRUE])

Leave(v) ==
    /\ visit[v].present
    /\ visit' = [visit EXCEPT ![v].present = FALSE]

Return(v) ==
    /\ ~ visit[v].present
    /\ visit' = [visit EXCEPT ![v].present = TRUE]

Progress(v) ==
    \E st \in 1..NStages :
        /\ st > visit[v].stage
        /\ visit' = [visit EXCEPT ![v].stage = st]

Next ==
    \/ Arrive
    \/ \E v \in DOMAIN visit : Leave(v) \/ Return(v) \/ Progress(v)

Spec == Init /\ [][Next]_visit

TypeOK == visit \in Seq(Visit)
=============================================================================
