------------------------------ MODULE MCServices ------------------------------
(* An instance of the services of the API process and of the syncs for TLC, *)
(* and of what analyses rest on: the library of faces and the AI settings.  *)
(* They share no state that a property looks at: a behaviour moves one part *)
(* of them, `turn`, and leaves the others as they begin, so that the states *)
(* of the parts add up instead of multiplying.  For the same reason parts   *)
(* may share names, and with them one symmetry.                             *)
EXTENDS BlinkLinker, BlinkToken, CameraBattery, CameraSwitches, Administrators,
        OAuthFlow, CloudFolders, VehicleProximity,
        FaceLibrary, AISettings, TLC

CONSTANTS Slots, Things

VARIABLE turn

(* Outlines of vehicles, about four pixels long: a triangle with sides of 3, *)
(* 4 and 5, one with a notch, one that crosses itself, one that is flat,    *)
(* with a point drawn twice, and one that is a single spot.  At a pixel per *)
(* foot people of 4 to 7 pixels are at its depth, at two pixels those of 8, *)
(* at four feet per pixel those of a single one: they are 24 and 28 feet    *)
(* away, the threshold is 25.                                               *)
(* Somebody stands anywhere on a grid of seven by seven, or at one of four  *)
(* places is of another height, or two people are seen: both near, one far  *)
(* away, one of the wrong height, or both reported at 1.4 feet.             *)
Triangle == <<<<1, 1>>, <<4, 5>>, <<1, 5>>>>
Notched == <<<<1, 1>>, <<5, 1>>, <<5, 5>>, <<3, 3>>, <<1, 5>>>>
BowTie == <<<<1, 1>>, <<5, 5>>, <<5, 1>>, <<1, 4>>>>
Flat == <<<<1, 2>>, <<1, 2>>, <<5, 2>>, <<3, 2>>>>
Spot == <<<<2, 2>>, <<2, 2>>, <<2, 2>>>>
Setup(outline, length, threshold) ==
    [outline |-> outline, length |-> length, threshold |-> threshold, enabled |-> TRUE]
MCSetups ==
    {Setup(Triangle, 4, 14), Setup(Notched, 4, 10), Setup(BowTie, 4, 6), Setup(BowTie, 2, 5),
     Setup(Flat, 4, 15), Setup(Spot, 4, 10), Setup(Triangle, 16, 250), [Setup(Triangle, 4, 14) EXCEPT !.enabled = FALSE]}
Person(x, y, height) == [foot |-> <<x, y>>, height |-> height]
MCSightings ==
    {<<Person(x, y, 6)>> : x, y \in 0 .. 6}
      \cup {<<Person(n, 2, height)>> : n \in {0, 1, 2, 5}, height \in {3, 4, 7, 8}}
      \cup {<<>>, <<Person(0, 0, 6), Person(5, 4, 6)>>, <<Person(5, 4, 6), Person(0, 0, 6)>>,
            <<Person(6, 0, 5), Person(2, 4, 6)>>, <<Person(2, 4, 3), Person(6, 6, 6)>>,
            <<Person(11, 5, 1), Person(1, 11, 1)>>}

allVars == <<linkVars, tokenVars, batteryVars, switchVars, adminVars, oauthVars, folderVars, vehicleVars,
             faceVars, aiVars, turn>>

\* A part that does not move begins in one state, whichever; which directory
\* faces are kept in at first makes no difference.
StillInit ==
    /\ dir = CHOOSE d \in Dirs : TRUE
    /\ turn # "battery" => level = battery
    /\ turn # "folder" => cloud = "s3"

AllInit ==
    /\ turn \in {"link", "token", "battery", "switch", "admin", "oauth", "folder", "vehicle", "face", "ai"}
    /\ LinkInit /\ TokenInit /\ BatteryInit /\ SwitchInit /\ AdminInit /\ OAuthInit /\ FolderInit /\ VehicleInit
    /\ FaceInit /\ AIInit
    /\ StillInit

Takes(which) == turn = which /\ turn' = turn

Still(which) ==
    /\ IF which = "link" THEN TRUE ELSE UNCHANGED linkVars
    /\ IF which = "token" THEN TRUE ELSE UNCHANGED tokenVars
    /\ IF which = "battery" THEN TRUE ELSE UNCHANGED batteryVars
    /\ IF which = "switch" THEN TRUE ELSE UNCHANGED switchVars
    /\ IF which = "admin" THEN TRUE ELSE UNCHANGED adminVars
    /\ IF which = "oauth" THEN TRUE ELSE UNCHANGED oauthVars
    /\ IF which = "folder" THEN TRUE ELSE UNCHANGED folderVars
    /\ IF which = "vehicle" THEN TRUE ELSE UNCHANGED vehicleVars
    /\ IF which = "face" THEN TRUE ELSE UNCHANGED faceVars
    /\ IF which = "ai" THEN TRUE ELSE UNCHANGED aiVars

AllNext ==
    \/ Takes("link") /\ LinkNext /\ Still("link")
    \/ Takes("token") /\ TokenNext /\ Still("token")
    \/ Takes("battery") /\ BatteryNext /\ Still("battery")
    \/ Takes("switch") /\ SwitchNext /\ Still("switch")
    \/ Takes("admin") /\ AdminNext /\ Still("admin")
    \/ Takes("oauth") /\ OAuthNext /\ Still("oauth")
    \/ Takes("folder") /\ FolderNext /\ Still("folder")
    \/ Takes("vehicle") /\ VehicleNext /\ Still("vehicle")
    \/ Takes("face") /\ FaceNext /\ Still("face")
    \/ Takes("ai") /\ AINext /\ Still("ai")

AllSpec == AllInit /\ [][AllNext]_allVars

Symmetry == Permutations(Slots) \cup Permutations(Things)
===============================================================================
