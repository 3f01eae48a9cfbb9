---------------------------- MODULE ClipLifecycle ----------------------------
(***************************************************************************)
(* What the sync that discovers a clip and the store that keeps its bytes  *)
(* rely on each other for: the clip's row and its one download job.        *)
(* BlinkSync brings a clip to where ClipStore begins, a pending row whose  *)
(* download is due.  Syncs, retries, crashes, moves and deletes are left   *)
(* to those modules.                                                       *)
(***************************************************************************)
VARIABLES
    row,       \* the clip's row, and whether it says that the video is there
    download   \* its download job: waiting or running until it is over

vars == <<row, download>>

RowStates == {"none", "pending", "downloaded", "gone"}
DownloadStates == {"none", "due", "over"}

TypeOK == row \in RowStates /\ download \in DownloadStates

Init == row = "none" /\ download = "none"

\* A sync inserts the row ...
Insert ==
    /\ row = "none" /\ row' = "pending"
    /\ UNCHANGED download

\* ... and, in a step of its own, enqueues the one download.
Enqueue ==
    /\ row # "none" /\ download = "none"
    /\ download' = "due"
    /\ UNCHANGED row

\* Nobody but the download obtains the video, and it does so once.
Obtain ==
    /\ row = "pending" /\ download = "due"
    /\ row' = "downloaded"
    /\ download' \in {"due", "over"}

\* It ends, with or without the video.
End ==
    /\ download = "due" /\ download' = "over"
    /\ UNCHANGED row

\* An administrator deletes the clip, whatever its download is doing.
Delete ==
    /\ row \in {"pending", "downloaded"} /\ row' = "gone"
    /\ UNCHANGED download

Next == Insert \/ Enqueue \/ Obtain \/ End \/ Delete

Spec == Init /\ [][Next]_vars

\* Where the sync hands the clip over.
HandedOver == row = "pending" /\ download = "due"

\* A lifecycle from there on.
Continued == HandedOver /\ [][Next]_vars
==============================================================================
