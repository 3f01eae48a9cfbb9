--------------------------- MODULE MCClipAnalysis ---------------------------
(* An instance of ClipAnalysis for TLC: two jobs and, as `turn` has it,     *)
(* either two faces of the clip and no events, since the tables do not      *)
(* depend on those, or one of the faces and all events, for the row locks.  *)
EXTENDS ClipAnalysis, TLC

VARIABLE turn

allVars == <<vars, turn>>

\* What the rest of a behaviour may have.
Within ==
    IF turn = "faces" THEN
        \A j \in Jobs : job[j].todo \in {<<>>, <<Face>>}
    ELSE \E f \in Faces :
        report.captured \cup recognized \cup negative \cup UNION {job[j].seen : j \in Jobs} \subseteq {f}

AllInit == turn \in {"faces", "events"} /\ Init

AllNext == Next /\ turn' = turn /\ Within'

AllSpec == AllInit /\ [][AllNext]_allVars

Symmetry == Permutations(Jobs) \cup Permutations(EventTypes) \cup Permutations(Faces)
=============================================================================
