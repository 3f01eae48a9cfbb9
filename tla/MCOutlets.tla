------------------------------ MODULE MCOutlets -------------------------------
(* An instance of what people get to see for TLC: two alerts over two       *)
(* channels, with a dedup window of one tick and a day of four, and the     *)
(* previews of two cameras.  As in MCServices, a behaviour moves one of     *)
(* them, `turn`.                                                            *)
EXTENDS AlertDelivery, CameraPreview, TLC

CONSTANTS Slots, discord, slack

VARIABLE turn

MCChannels == <<discord, slack>>
MCStartRows ==
    [window : {0, Window}, enabled : {ChannelSet}, quiet : {NoQuietHours}]
      \cup [window : {Window}, enabled : {{discord}}, quiet : {[start |-> 0, end |-> 0]}]

allVars == <<vars, previewVars, turn>>

\* A part that does not move begins in one state, whichever.
StillInit ==
    /\ turn # "alerts" => settings = CHOOSE r \in StartRows : TRUE
    /\ turn # "preview" => \A c \in PreviewCams : folder[c] = CHOOSE f \in Folders : TRUE

AllInit ==
    /\ turn \in {"alerts", "preview"}
    /\ Init /\ PreviewInit
    /\ StillInit

Takes(which) == turn = which /\ turn' = turn

Still(which) ==
    /\ IF which = "alerts" THEN TRUE ELSE UNCHANGED vars
    /\ IF which = "preview" THEN TRUE ELSE UNCHANGED previewVars

AllNext ==
    \/ Takes("alerts") /\ Next /\ Still("alerts")
    \/ Takes("preview") /\ PreviewNext /\ Still("preview")

AllSpec == AllInit /\ [][AllNext]_allVars

Symmetry == Permutations(Slots) \cup Permutations(PreviewCams)
===============================================================================
