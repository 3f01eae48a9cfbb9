----------------------------- MODULE MCLocalFiles -----------------------------
(* An instance of what the back end keeps on its own disk for TLC: the     *)
(* downloads of a Sync Module, the storage directories and the model that   *)
(* finds faces.  As in MCServices, a behaviour moves one of them, `turn`.   *)
EXTENDS SyncModuleStorage, StorageFolders, FaceModel, TLC

CONSTANTS Slots

VARIABLE turn

allVars == <<vars, storageVars, modelVars, turn>>

\* The Sync Module's drive is empty at first: what it then has came as a change.
\* Which pack there is first makes no difference.
StillInit ==
    /\ drive = {}
    /\ pack = CHOOSE p \in Packs : TRUE

AllInit ==
    /\ turn \in {"module", "storage", "model"}
    /\ Init /\ StorageInit /\ ModelInit
    /\ StillInit

Takes(which) == turn = which /\ turn' = turn

Still(which) ==
    /\ IF which = "module" THEN TRUE ELSE UNCHANGED vars
    /\ IF which = "storage" THEN TRUE ELSE UNCHANGED storageVars
    /\ IF which = "model" THEN TRUE ELSE UNCHANGED modelVars

AllNext ==
    \/ Takes("module") /\ Next /\ Still("module")
    \/ Takes("storage") /\ StorageNext /\ Still("storage")
    \/ Takes("model") /\ ModelNext /\ Still("model")

AllSpec == AllInit /\ [][AllNext]_allVars

Symmetry == Permutations(Slots)
===============================================================================
