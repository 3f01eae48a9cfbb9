---------------------------- MODULE StorageFolders ----------------------------
(***************************************************************************)
(* The storage settings: the directory that new clips go to and its quota, *)
(* and the browser that creates, renames and deletes directories.  Each of *)
(* them looks first and acts then; what decides is the operating system:   *)
(* rename replaces an empty directory only, rmdir removes an empty one.    *)
(* Downloads write into the directory that they loaded.                    *)
(***************************************************************************)
EXTENDS FiniteSets

CONSTANTS
    StorageDirs,    \* directories under one parent
    Files,          \* clips, by their files
    Editors         \* slots for requests under way

ASSUME StorageAssumption == StorageDirs # {} /\ "none" \notin StorageDirs /\ "env" \notin StorageDirs

VARIABLES
    dirs,      \* the directories that exist
    inside,    \* per directory, the files in it
    storage,   \* the row of settings: directory ("env": the default) and quota
    path,      \* per file, the directory in its clip's storage_path
    writer,    \* per file, the directory its download has loaded
    editor,    \* per slot, the request under way
    moved,     \* history: the files whose directory was renamed
    halved     \* history: the last form was cut off or overtaken, from its load of the
               \* row to the second of its commits

storageVars == <<dirs, inside, storage, path, writer, editor, moved, halved>>

EnvDir == CHOOSE d \in StorageDirs : TRUE
NoEditor == [pc |-> "off", at |-> "none", to |-> "none"]
Resolved == IF storage.dir = "env" THEN EnvDir ELSE storage.dir

StorageInit ==
    /\ dirs = {EnvDir}
    /\ inside = [d \in StorageDirs |-> {}]
    /\ storage = [dir |-> "env", quota |-> "none"]
    /\ path = [f \in Files |-> "none"] /\ writer = path
    /\ editor = [e \in Editors |-> NoEditor]
    /\ moved = {} /\ halved = FALSE

-----------------------------------------------------------------------------
(* Downloads                                                               *)

LoadDir(f) ==
    /\ path[f] = "none" /\ writer[f] = "none"
    /\ writer' = [writer EXCEPT ![f] = Resolved]
    /\ UNCHANGED <<dirs, inside, storage, path, editor, moved, halved>>

\* The directory is made if it is gone.
WriteClip(f) ==
    LET d == writer[f] IN
    /\ d # "none" /\ \A e \in StorageDirs : f \notin inside[e]
    /\ dirs' = dirs \cup {d}
    /\ inside' = [inside EXCEPT ![d] = @ \cup {f}]
    /\ UNCHANGED <<storage, path, writer, editor, moved, halved>>

CommitPath(f) ==
    /\ writer[f] # "none" /\ \E e \in StorageDirs : f \in inside[e]
    /\ path' = [path EXCEPT ![f] = writer[f]]
    /\ writer' = [writer EXCEPT ![f] = "none"]
    /\ UNCHANGED <<dirs, inside, storage, editor, moved, halved>>

-----------------------------------------------------------------------------
(* Requests                                                                *)

Turns(e, pc) == editor' = [editor EXCEPT ![e].pc = pc]
Answered(e) == editor' = [editor EXCEPT ![e] = NoEditor]

Edit(e, pc, at, to) ==
    /\ editor[e].pc = "off"
    /\ editor' = [editor EXCEPT ![e] = [pc |-> pc, at |-> at, to |-> to]]
    /\ UNCHANGED <<dirs, inside, storage, path, writer, moved, halved>>

\* _is_writable_directory makes the directory; if it cannot, the answer is 400.
MakeWritable(d) == dirs' = dirs \cup {d}

\* The default is taken as it is.
ChooseDir(e) ==
    /\ editor[e].pc = "choose"
    /\ IF editor[e].at = "env" THEN dirs' = dirs ELSE MakeWritable(editor[e].at)
    /\ Turns(e, "load")
    /\ UNCHANGED <<inside, storage, path, writer, moved, halved>>

CreateDir(e) ==
    /\ editor[e].pc = "create"
    /\ MakeWritable(editor[e].at)
    /\ Turns(e, "list")
    /\ UNCHANGED <<inside, storage, path, writer, moved, halved>>

\* set_storage_dir loads the row ...
LoadStorage(e) ==
    /\ editor[e].pc = "load"
    /\ editor' = [editor EXCEPT ![e].pc = "dir", ![e].to = storage.dir]
    /\ UNCHANGED <<dirs, inside, storage, path, writer, moved, halved>>

\* ... and commits: the directory is sent if it is not the one loaded.  The
\* refresh reads the quota for set_local_storage_quota_bytes.
SetDir(e) ==
    /\ editor[e].pc = "dir"
    /\ storage' = IF editor[e].at = editor[e].to THEN storage
                  ELSE [storage EXCEPT !.dir = editor[e].at]
    /\ editor' = [editor EXCEPT ![e].pc = "quota", ![e].to = storage.quota]
    /\ halved' = ((\E o \in Editors : editor[o].pc = "quota") \/ storage'.dir # editor[e].at)
    /\ UNCHANGED <<dirs, inside, path, writer, moved>>

\* A quota is named by the directory of its form.  It is written if it is not
\* the one that the refresh after the first commit has read.
SetQuota(e) ==
    /\ editor[e].pc = "quota"
    /\ storage' = IF editor[e].at = editor[e].to THEN storage
                  ELSE [storage EXCEPT !.quota = editor[e].at]
    /\ Answered(e)
    /\ UNCHANGED <<dirs, inside, path, writer, moved, halved>>

\* do_rename looks whether the one is there and the other is not.
LookRename(e) ==
    /\ editor[e].pc = "look"
    /\ IF editor[e].at \in dirs /\ editor[e].to \notin dirs THEN Turns(e, "rename") ELSE Answered(e)
    /\ UNCHANGED <<dirs, inside, storage, path, writer, moved, halved>>

\* ENOTEMPTY otherwise.
Empty(d) == inside[d] = {}

RenameDir(e) ==
    LET old == editor[e].at new == editor[e].to IN
    /\ editor[e].pc = "rename"
    /\ old \in dirs /\ Empty(new)
    /\ dirs' = (dirs \ {old}) \cup {new}
    /\ inside' = [inside EXCEPT ![old] = {}, ![new] = inside[old]]
    /\ moved' = moved \cup inside[old]
    /\ Turns(e, "list")
    /\ UNCHANGED <<storage, path, writer, halved>>

\* Mutant: a directory is deleted with what it holds.
RemoveTree(e) ==
    /\ editor[e].pc = "delete" /\ editor[e].at \in dirs
    /\ dirs' = dirs \ {editor[e].at} /\ inside' = [inside EXCEPT ![editor[e].at] = {}]
    /\ Turns(e, "list")
    /\ UNCHANGED <<storage, path, writer, moved, halved>>

\* do_delete: "it must be empty first".
RemoveDir(e) ==
    /\ editor[e].pc = "delete"
    /\ editor[e].at \in dirs /\ Empty(editor[e].at)
    /\ dirs' = dirs \ {editor[e].at}
    /\ Turns(e, "list")
    /\ UNCHANGED <<inside, storage, path, writer, moved, halved>>

\* _list_directory of the parent, at the end.
ListParent(e) ==
    /\ editor[e].pc = "list"
    /\ Answered(e)
    /\ UNCHANGED <<dirs, inside, storage, path, writer, moved, halved>>

\* OSError or a lost connection: what is done stays done.
EditFails(e) ==
    /\ editor[e].pc # "off"
    /\ halved' = (halved \/ editor[e].pc = "quota")
    /\ Answered(e)
    /\ UNCHANGED <<dirs, inside, storage, path, writer, moved>>

StorageNext ==
    \/ \E f \in Files : LoadDir(f) \/ WriteClip(f) \/ CommitPath(f)
    \/ \E e \in Editors :
         \/ \E pc \in {"create", "look", "delete"}, at, to \in StorageDirs : Edit(e, pc, at, to)
         \/ \E at \in StorageDirs \cup {"env"} : Edit(e, "choose", at, "none")
         \/ ChooseDir(e) \/ LoadStorage(e) \/ SetDir(e) \/ SetQuota(e)
         \/ CreateDir(e) \/ LookRename(e) \/ RenameDir(e) \/ RemoveDir(e) \/ ListParent(e) \/ EditFails(e)

StorageSpec == StorageInit /\ [][StorageNext]_storageVars

-----------------------------------------------------------------------------

StorageTypeOK ==
    /\ dirs \subseteq StorageDirs
    /\ inside \in [StorageDirs -> SUBSET Files]
    /\ storage \in [dir : StorageDirs \cup {"env"}, quota : StorageDirs \cup {"none", "env"}]
    /\ path \in [Files -> StorageDirs \cup {"none"}] /\ writer \in [Files -> StorageDirs \cup {"none"}]
    /\ editor \in [Editors -> [pc : {"off", "choose", "load", "dir", "quota", "create", "look", "rename", "delete",
                                     "list"},
                               at : StorageDirs \cup {"none", "env"}, to : StorageDirs \cup {"none", "env"}]]
    /\ moved \subseteq Files /\ halved \in BOOLEAN

\* No directory that is renamed or deleted, onto or with what others have put
\* there since it was looked at, takes a file away.
FilesStay ==
    /\ \A d \in StorageDirs : inside[d] # {} => d \in dirs
    /\ \A f \in Files : path[f] # "none" =>
         Cardinality({d \in StorageDirs : f \in inside[d]}) = 1

\* storage_path leads to the file, however the directory for new clips changes
\* ("Existing clips are not moved"), unless the clip's directory was renamed.
PathsResolve == \A f \in Files \ moved : path[f] # "none" => f \in inside[path[f]]

\* The directory and the quota are those of one form, unless it was cut off
\* between its two commits or another came in between: also one that committed
\* both after this one's load, whose directory stays if this form's is the one
\* that it loaded.
OneForm ==
    (\E e \in Editors : editor[e].pc = "quota") \/ halved
      \/ storage.quota = "none" \/ storage.dir = storage.quota

\* What the storage settings and the folder browser leave on the disk.
StorageInv == StorageTypeOK /\ FilesStay /\ PathsResolve /\ OneForm

-----------------------------------------------------------------------------
(* An inductive invariant that implies StorageInv                          *)

Held(f) == \E d \in StorageDirs : f \in inside[d]

\* Where a file can be: in a directory that exists, in one only, and in none
\* before its download has loaded a directory.
FilePlaces ==
    /\ \A d \in StorageDirs : inside[d] # {} => d \in dirs
    /\ \A d, e \in StorageDirs : inside[d] \cap inside[e] # {} => d = e
    /\ \A f \in Files :
         /\ Held(f) => path[f] # "none" \/ writer[f] # "none"
         /\ path[f] # "none" => Held(f) /\ writer[f] = "none"

\* A file that no rename has met is in the directory that its download loaded,
\* which the row names in the end.
FileTrails ==
    \A f \in Files \ moved, d \in StorageDirs : f \in inside[d] => d \in {path[f], writer[f]}

\* The operands of a request on directories, by its next step.
EditorFits ==
    \A e \in Editors :
      /\ editor[e].pc \in {"create", "look", "rename", "delete"} => {editor[e].at, editor[e].to} \subseteq StorageDirs
      /\ editor[e].pc \in {"choose", "load", "dir", "quota"} => editor[e].at # "none"
      /\ editor[e].pc = "rename" => editor[e].at # editor[e].to

\* A form that has not been overtaken is alone between its commits: what it
\* has written and what it has read back are what the row says.
FormAlone ==
    halved \/ \A e, o \in Editors : editor[e].pc = "quota" /\ editor[o].pc = "quota" =>
                 e = o /\ storage = [dir |-> editor[e].at, quota |-> editor[e].to]

StorageIInv == StorageTypeOK /\ FilePlaces /\ FileTrails /\ EditorFits /\ FormAlone /\ OneForm
=============================================================================
