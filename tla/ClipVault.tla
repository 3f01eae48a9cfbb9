------------------------------ MODULE ClipVault ------------------------------
(***************************************************************************)
(* What the storage of one clip promises to the rest of the program: once  *)
(* the clip's video has been obtained, some copy of its bytes exists until *)
(* an administrator starts to discard the clip.  Nothing is said of where  *)
(* the copies are, of how many there are, or of the jobs that move them.   *)
(***************************************************************************)
CONSTANT Places          \* where a copy of the bytes can be

VARIABLES phase,         \* what has been promised so far
          held           \* the places that hold a copy

vars == <<phase, held>>

Phases == {"pending", "kept", "discarding", "gone"}

\* A phase, and copies at places.
TypeOK ==
    /\ phase \in Phases
    /\ held \subseteq Places

Init ==
    /\ phase = "pending"
    /\ held = {}

\* A copy more: a download, an upload, a restored file.
Gain(p) ==
    /\ held' = held \cup {p}
    /\ UNCHANGED phase

\* A copy less; while the clip is kept it is never the last one.
Lose(p) ==
    /\ phase = "kept" => held \ {p} # {}
    /\ held' = held \ {p}
    /\ UNCHANGED phase

\* The promise starts when the clip's row says that its video is there.
Keep ==
    /\ phase = "pending"
    /\ held # {}
    /\ phase' = "kept"
    /\ UNCHANGED held

\* An administrator discards the clip: local bytes may go at once, the row
\* follows.
Discard ==
    /\ phase \in {"pending", "kept"}
    /\ phase' = "discarding"
    /\ held' \in SUBSET held

Forget ==
    /\ phase = "discarding"
    /\ phase' = "gone"
    /\ UNCHANGED held

Next ==
    \/ \E p \in Places : Gain(p) \/ Lose(p)
    \/ Keep
    \/ Discard
    \/ Forget

Spec == Init /\ [][Next]_vars
=============================================================================
