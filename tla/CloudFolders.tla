----------------------------- MODULE CloudFolders -----------------------------
(***************************************************************************)
(* The folder browser of a cloud provider.  S3 has no folders: one is a    *)
(* common prefix of keys, an empty one a marker object, and a rename three *)
(* requests.  On Google Drive and OneDrive a folder is an item with an id, *)
(* a rename changes its title, and a deletion puts it, with what it holds, *)
(* into the trash.  Archive and restore jobs store and remove recordings   *)
(* meanwhile.                                                              *)
(***************************************************************************)
EXTENDS FiniteSets

CONSTANTS
    Paths,         \* S3: prefixes under one parent; drives: item ids
    Recordings,    \* what is archived, at most once each
    Askers         \* slots for requests under way

VARIABLES
    cloud,     \* "s3", "drive" or "onedrive"
    marked,    \* S3: the marker objects; drives: the folders that are not in the trash
    trash,     \* drives: the folders in it
    title,     \* drives: a folder's name
    holds,     \* per path, the recordings in it
    archived,  \* the recordings whose rows say that they are in this cloud
    asker,     \* per slot, the request under way
    wanted,    \* history: the folders that completed requests have left
    slips      \* history: "overlap" of two requests; a rename to "itself"

folderVars == <<cloud, marked, trash, title, holds, archived, asker, wanted, slips>>

NoAsker == [pc |-> "off", op |-> "none", at |-> "none", to |-> "none"]

FolderInit ==
    /\ cloud \in {"s3", "drive", "onedrive"}
    /\ marked = {} /\ trash = {} /\ wanted = {} /\ slips = {}
    /\ title = [p \in Paths |-> "none"]
    /\ holds = [p \in Paths |-> {}] /\ archived = {}
    /\ asker = [a \in Askers |-> NoAsker]

\* list_folders: the common prefixes of the keys, or the folders by id.
Listed == IF cloud = "s3" THEN {p \in Paths : p \in marked \/ holds[p] # {}} ELSE marked

-----------------------------------------------------------------------------
(* The archive jobs                                                        *)

\* S3 takes any key, a drive an item in a folder that it finds.
StoreRecording(v, p) ==
    /\ v \notin archived
    /\ cloud = "s3" \/ p \in marked
    /\ holds' = [holds EXCEPT ![p] = @ \cup {v}] /\ archived' = archived \cup {v}
    /\ UNCHANGED <<cloud, marked, trash, title, asker, wanted, slips>>

\* A restore deletes the object, by key or id: in the trash too.
DropRecording(v) ==
    /\ v \in archived
    /\ holds' = [p \in Paths |-> holds[p] \ {v}] /\ archived' = archived \ {v}
    /\ UNCHANGED <<cloud, marked, trash, title, asker, wanted, slips>>

-----------------------------------------------------------------------------
(* Requests                                                                *)

Proceeds(a, pc) == asker' = [asker EXCEPT ![a].pc = pc]
Over(a) == asker' = [asker EXCEPT ![a] = NoAsker]

\* The provider is connected: a client is made.
FolderRequest(a, op, at, to) ==
    /\ asker[a].pc = "off"
    /\ asker' = [asker EXCEPT ![a] = [pc |-> IF op = "create" \/ cloud # "s3" THEN op ELSE "check",
                                      op |-> op, at |-> at, to |-> to]]
    /\ slips' = slips \cup (IF \E b \in Askers : asker[b].pc # "off" THEN {"overlap"} ELSE {})
                          \cup (IF op = "rename" /\ cloud = "s3" /\ to = at THEN {"itself"} ELSE {})
    /\ UNCHANGED <<cloud, marked, trash, title, holds, archived, wanted>>

\* Nothing has a key under it but the marker.
PrefixIsEmpty(p) == holds[p] = {}

\* rename_folder and delete_folder of S3 begin with the check.
CheckEmpty(a) ==
    /\ asker[a].pc = "check"
    /\ IF PrefixIsEmpty(asker[a].at) THEN Proceeds(a, IF asker[a].op = "rename" THEN "mark" ELSE "unmark")
       ELSE Over(a)
    /\ UNCHANGED <<cloud, marked, trash, title, holds, archived, wanted, slips>>

\* A zero-byte object under the new name, then the old marker is deleted.
MarkNew(a) ==
    /\ asker[a].pc = "mark"
    /\ marked' = marked \cup {asker[a].to}
    /\ Proceeds(a, "unmark")
    /\ UNCHANGED <<cloud, trash, title, holds, archived, wanted, slips>>

\* Mutant: everything under the prefix is deleted.
UnmarkAll(a) ==
    /\ asker[a].pc = "unmark"
    /\ marked' = marked \ {asker[a].at}
    /\ holds' = [holds EXCEPT ![asker[a].at] = {}]
    /\ wanted' = wanted \ {asker[a].at}
    /\ Over(a)
    /\ UNCHANGED <<cloud, trash, title, archived, slips>>

\* The marker alone is deleted: what was stored since the check stays.
Unmark(a) ==
    LET r == asker[a] IN
    /\ r.pc = "unmark"
    /\ marked' = marked \ {r.at}
    /\ wanted' = (wanted \ {r.at}) \cup (IF r.op = "rename" THEN {r.to} ELSE {})
    /\ Over(a)
    /\ UNCHANGED <<cloud, trash, title, holds, archived, slips>>

\* S3 writes a marker, whether there is one or not.
CreateMarker(a) ==
    /\ asker[a].pc = "create" /\ cloud = "s3"
    /\ marked' = marked \cup {asker[a].at}
    /\ Proceeds(a, "list")
    /\ UNCHANGED <<cloud, trash, title, holds, archived, wanted, slips>>

NewItem(a, name) ==
    /\ asker[a].pc = "create" /\ asker[a].at \notin marked \cup trash
    /\ marked' = marked \cup {asker[a].at}
    /\ title' = [title EXCEPT ![asker[a].at] = name]
    /\ Proceeds(a, "list")
    /\ UNCHANGED <<cloud, trash, holds, archived, wanted, slips>>

\* Google Drive makes a new item each time, names may be equal.
CreateFolder(a) == cloud = "drive" /\ NewItem(a, asker[a].to)

Taken(name) == \E p \in marked : title[p] = name

\* conflictBehavior "rename": OneDrive finds another name for it.
CreateChild(a) ==
    /\ cloud = "onedrive"
    /\ \E name \in Paths :
         /\ ~Taken(name) /\ (name = asker[a].to \/ Taken(asker[a].to))
         /\ NewItem(a, name)

\* The folder is there although its parent could not be listed afterwards.
ListCreated(a) ==
    /\ asker[a].pc = "list"
    /\ wanted' = wanted \cup {asker[a].at}
    /\ Over(a)
    /\ UNCHANGED <<cloud, marked, trash, title, holds, archived, slips>>

Retitled(a) ==
    /\ asker[a].pc = "rename"
    /\ title' = [title EXCEPT ![asker[a].at] = asker[a].to]
    /\ Over(a)
    /\ UNCHANGED <<cloud, marked, trash, holds, archived, wanted, slips>>

\* A rename is of the title only, in Google Drive's trash too.
RenameItem(a) == cloud = "drive" /\ asker[a].at \in marked \cup trash /\ Retitled(a)

\* OneDrive refuses a name that another folder has.
PatchItem(a) ==
    /\ cloud = "onedrive" /\ asker[a].at \in marked
    /\ ~\E p \in marked \ {asker[a].at} : title[p] = asker[a].to
    /\ Retitled(a)

Trashed(a) ==
    LET p == asker[a].at IN
    /\ asker[a].pc = "delete"
    /\ marked' = marked \ {p} /\ trash' = trash \cup {p}
    /\ wanted' = wanted \ {p}
    /\ Over(a)
    /\ UNCHANGED <<cloud, title, holds, archived, slips>>

\* An update: trashed is true, of what is in the trash too.
TrashItem(a) == cloud = "drive" /\ asker[a].at \in marked \cup trash /\ Trashed(a)

\* OneDrive's DELETE puts a folder into the recycle bin.
DeleteItem(a) == cloud = "onedrive" /\ asker[a].at \in marked /\ Trashed(a)

\* CloudStorageError, at any of the requests: those before it stand.
AskFails(a) ==
    /\ asker[a].pc # "off"
    /\ Over(a)
    /\ UNCHANGED <<cloud, marked, trash, title, holds, archived, wanted, slips>>

FolderNext ==
    \/ \E v \in Recordings : DropRecording(v) \/ \E p \in Paths : StoreRecording(v, p)
    \/ \E a \in Askers :
         \/ \E op \in {"create", "rename", "delete"}, at, to \in Paths : FolderRequest(a, op, at, to)
         \/ CheckEmpty(a) \/ MarkNew(a) \/ Unmark(a) \/ CreateMarker(a) \/ CreateFolder(a)
         \/ CreateChild(a) \/ ListCreated(a) \/ RenameItem(a) \/ PatchItem(a) \/ TrashItem(a)
         \/ DeleteItem(a) \/ AskFails(a)

FolderSpec == FolderInit /\ [][FolderNext]_folderVars

-----------------------------------------------------------------------------

FolderTypeOK ==
    /\ cloud \in {"s3", "drive", "onedrive"}
    /\ marked \subseteq Paths /\ trash \subseteq Paths /\ wanted \subseteq Paths
    /\ title \in [Paths -> Paths \cup {"none"}]
    /\ holds \in [Paths -> SUBSET Recordings] /\ archived \subseteq Recordings
    /\ asker \in [Askers -> [pc : {"off", "check", "mark", "unmark", "create", "list", "rename", "delete"},
                             op : {"none", "create", "rename", "delete"},
                             at : Paths \cup {"none"}, to : Paths \cup {"none"}]]
    /\ slips \subseteq {"overlap", "itself"}

\* No request on folders, cut off or overtaken, takes a recording away that a
\* row refers to: S3's check for emptiness is stale by the time the marker is
\* deleted, a drive's folder goes to the trash with what it holds.
RecordingsStay == archived = UNION {holds[p] : p \in Paths}

\* A folder that was created or renamed is there until it is renamed or
\* deleted, after failures between the requests of a rename too: both names
\* then, never neither.  (Requests that overlap may undo one another, and a
\* rename of an S3 folder to the name it has removes its marker.)
WantedAreListed == slips = {} => wanted \subseteq Listed

\* Neither a creation nor a rename gives two of OneDrive's folders one name,
\* nor puts one in the place of another.
TitlesDiffer == cloud = "onedrive" => \A p, q \in marked : title[p] = title[q] => p = q

\* What the folder browser leaves in the cloud.
FolderInv ==
    /\ FolderTypeOK /\ marked \cap trash = {}
    /\ RecordingsStay /\ WantedAreListed /\ TitlesDiffer

-----------------------------------------------------------------------------
(* An inductive invariant that implies FolderInv                           *)

\* S3 has no trash; the three steps of a rename are its own.
AskerFits ==
    /\ marked \cap trash = {} /\ (cloud = "s3" => trash = {})
    /\ \A a \in Askers :
         /\ asker[a].pc # "off" => {asker[a].at, asker[a].to} \subseteq Paths
         /\ asker[a].pc \in {"check", "mark", "unmark"} => cloud = "s3"

\* While no request has met another one, what requests have left has a marker
\* or is an item, recordings or not, and so has what the request under way is
\* about to leave.
WantedAreMarked ==
    slips = {} =>
      /\ wanted \subseteq marked
      /\ \A a, b \in Askers : asker[a].pc # "off" /\ asker[b].pc # "off" => a = b
      /\ \A a \in Askers :
           /\ asker[a].pc = "list" => asker[a].at \in marked
           /\ asker[a].pc = "unmark" /\ asker[a].op = "rename" => asker[a].to \in marked
           /\ asker[a].pc \in {"check", "mark", "unmark"} /\ asker[a].op = "rename" => asker[a].at # asker[a].to

FolderIInv == FolderTypeOK /\ AskerFits /\ RecordingsStay /\ WantedAreMarked /\ TitlesDiffer
=============================================================================
