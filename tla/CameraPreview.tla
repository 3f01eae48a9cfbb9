---------------------------- MODULE CameraPreview ----------------------------
(***************************************************************************)
(* Preview images.  A request answers with the cached file while it is     *)
(* fresh, else it fetches an image, writes it into the folder named after  *)
(* the camera and notes path and time in the row.  Requests do not know of *)
(* each other.  A write goes to preview.jpg.part, which is then renamed:   *)
(* two writes of one path share that file.                                 *)
(***************************************************************************)
EXTENDS FiniteSets

CONSTANTS
    PreviewCams,
    Folders,        \* folder names: sanitised camera names
    Watchers        \* slots for requests under way

ASSUME CameraPreviewAssumption == {"none", "torn"} \cap PreviewCams = {} /\ "none" \notin Folders

VARIABLES
    folder,   \* the folder of the camera's present name
    homes,    \* history: the cameras that ever had that folder
    row,      \* Camera.preview_path
    file,     \* preview.jpg per folder: whose image, "torn" or "none"
    part,     \* preview.jpg.part, likewise
    clash,    \* history: folders last written by two at once
    watcher   \* per slot, the request under way

previewVars == <<folder, homes, row, file, part, clash, watcher>>

NoWatcher == [pc |-> "off", cam |-> "none", to |-> "none", loaded |-> "none",
              fd |-> "none", alone |-> FALSE]

PreviewInit ==
    /\ folder \in [PreviewCams -> Folders]
    /\ homes = [f \in Folders |-> {c \in PreviewCams : folder[c] = f}]
    /\ row = [c \in PreviewCams |-> "none"]
    /\ file = [f \in Folders |-> "none"] /\ part = file
    /\ clash = {}
    /\ watcher = [r \in Watchers |-> NoWatcher]

End(r) == watcher' = [watcher EXCEPT ![r] = NoWatcher]
Writing(f) == {r \in Watchers : watcher[r].pc \in {"write", "replace"} /\ watcher[r].to = f}

-----------------------------------------------------------------------------

\* A sync brings a new name.  The row keeps the path it has.  (Bound: a camera
\* gets no name back that it had.)
Rename(c, f) ==
    /\ c \notin homes[f]
    /\ folder' = [folder EXCEPT ![c] = f]
    /\ homes' = [homes EXCEPT ![f] = @ \cup {c}]
    /\ UNCHANGED <<row, file, part, clash, watcher>>

\* get_preview, forced, or with an image that PREVIEW_FRESHNESS_SECONDS have
\* made old.
Ask(r, c) ==
    /\ watcher[r].pc = "off"
    /\ watcher' = [watcher EXCEPT ![r] =
         [NoWatcher EXCEPT !.pc = "fetch", !.cam = c, !.to = folder[c], !.loaded = row[c]]]
    /\ UNCHANGED <<folder, homes, row, file, part, clash>>

\* Blink has no image to give: the old one, or an error, is the answer.
NoImage(r) ==
    /\ watcher[r].pc = "fetch"
    /\ End(r)
    /\ UNCHANGED <<folder, homes, row, file, part, clash>>

\* open(..., "wb") truncates what another request may be writing.
OpenPart(r) ==
    LET f == watcher[r].to IN
    /\ watcher[r].pc = "fetch"
    /\ clash' = IF Writing(f) = {} THEN clash ELSE clash \cup {f}
    /\ part' = [part EXCEPT ![f] = "torn"]
    /\ watcher' = [q \in Watchers |->
         IF q = r THEN [watcher[r] EXCEPT !.pc = "write", !.fd = "part", !.alone = Writing(f) = {}]
         ELSE IF q \in Writing(f) THEN [watcher[q] EXCEPT !.alone = FALSE] ELSE watcher[q]]
    /\ UNCHANGED <<folder, homes, row, file>>

\* What two write into one file may be anything.
Written(r) == {watcher[r].cam} \cup (IF watcher[r].alone THEN {} ELSE {"torn"})

WriteBytes(r) ==
    LET f == watcher[r].to IN
    /\ watcher[r].pc = "write"
    /\ \E new \in Written(r) :
         /\ part' = IF watcher[r].fd = "part" THEN [part EXCEPT ![f] = new] ELSE part
         /\ file' = IF watcher[r].fd = "file" THEN [file EXCEPT ![f] = new] ELSE file
    /\ watcher' = [watcher EXCEPT ![r].pc = "replace"]
    /\ UNCHANGED <<folder, homes, row, clash>>

\* Those who have the renamed file open go on writing into it.
Renamed(f, r) ==
    [q \in Watchers |->
       IF q = r THEN [watcher[r] EXCEPT !.pc = "commit", !.fd = "none", !.alone = FALSE]
       ELSE IF q \notin Writing(f) THEN watcher[q]
       ELSE [watcher[q] EXCEPT !.fd = IF @ = "part" THEN "file" ELSE "unlinked"]]

Replace(r) ==
    LET f == watcher[r].to IN
    /\ watcher[r].pc = "replace" /\ part[f] # "none"
    /\ file' = [file EXCEPT ![f] = part[f]]
    /\ part' = [part EXCEPT ![f] = "none"]
    /\ watcher' = Renamed(f, r)
    /\ clash' = IF watcher[r].alone THEN clash \ {f} ELSE clash
    /\ UNCHANGED <<folder, homes, row>>

\* OSError: the disk is full, or another write renamed the file.  It is
\* removed, whosever it is: StorageError.
WriteFails(r) ==
    LET f == watcher[r].to IN
    /\ watcher[r].pc \in {"write", "replace"}
    /\ part' = [part EXCEPT ![f] = "none"]
    /\ watcher' = [q \in Watchers |->
         IF q = r THEN NoWatcher
         ELSE IF q \in Writing(f) /\ watcher[q].fd = "part" THEN [watcher[q] EXCEPT !.fd = "unlinked"]
         ELSE watcher[q]]
    /\ UNCHANGED <<folder, homes, row, file, clash>>

\* Mutant: the row is written although the file was not.
NotePathEarly(r) ==
    /\ watcher[r].pc \in {"write", "replace", "commit"}
    /\ row' = [row EXCEPT ![watcher[r].cam] = watcher[r].to]
    /\ End(r)
    /\ UNCHANGED <<folder, homes, file, part, clash>>

\* The session writes a path that is not the one it loaded.
NotePath(r) ==
    /\ watcher[r].pc = "commit"
    /\ row' = [row EXCEPT ![watcher[r].cam] =
         IF watcher[r].to # watcher[r].loaded THEN watcher[r].to ELSE @]
    /\ End(r)
    /\ UNCHANGED <<folder, homes, file, part, clash>>

\* The API process ends.
Crash ==
    /\ \E r \in Watchers : watcher[r].pc # "off"
    /\ watcher' = [r \in Watchers |-> NoWatcher]
    /\ UNCHANGED <<folder, homes, row, file, part, clash>>

PreviewNext ==
    \/ \E c \in PreviewCams, f \in Folders : Rename(c, f)
    \/ \E r \in Watchers :
         \/ \E c \in PreviewCams : Ask(r, c)
         \/ NoImage(r) \/ OpenPart(r) \/ WriteBytes(r) \/ Replace(r) \/ WriteFails(r) \/ NotePath(r)
    \/ Crash

PreviewSpec == PreviewInit /\ [][PreviewNext]_previewVars

-----------------------------------------------------------------------------

PreviewTypeOK ==
    /\ folder \in [PreviewCams -> Folders]
    /\ homes \in [Folders -> SUBSET PreviewCams]
    /\ row \in [PreviewCams -> Folders \cup {"none"}]
    /\ file \in [Folders -> PreviewCams \cup {"none", "torn"}]
    /\ part \in [Folders -> PreviewCams \cup {"none", "torn"}]
    /\ clash \subseteq Folders
    /\ watcher \in [Watchers -> [pc : {"off", "fetch", "write", "replace", "commit"}, cam : PreviewCams \cup {"none"},
                                 to : Folders \cup {"none"}, loaded : Folders \cup {"none"},
                                 fd : {"none", "part", "file", "unlinked"}, alone : BOOLEAN]]

\* A path that a row has is that of a file, and the file is an image, whole,
\* of that camera: unless two requests wrote it at once (storage/service.py:139-144
\* shares the .part file; the next write by itself puts it right), or another
\* camera has had a name that makes the same folder (116-117).
PreviewsAreSound ==
    \A c \in PreviewCams : row[c] # "none" =>
      LET f == row[c] IN
      /\ file[f] # "none"
      /\ f \notin clash => file[f] # "torn" /\ (homes[f] = {c} => file[f] = c)

\* What holds of previews: the rows lead to images.
PreviewInv == PreviewTypeOK /\ PreviewsAreSound

-----------------------------------------------------------------------------
(* An inductive invariant that implies PreviewInv                          *)

\* A request that has a file of its own has it alone; the others' is a clash.
WritesApart ==
    \A r \in Watchers : watcher[r].pc \in {"write", "replace"} =>
      IF watcher[r].alone
      THEN /\ Writing(watcher[r].to) = {r} /\ watcher[r].fd = "part"
           /\ watcher[r].pc = "replace" => part[watcher[r].to] = watcher[r].cam
      ELSE watcher[r].to \in clash

\* A file is there when a row has its path or is about to; one that was last
\* written by itself is of a camera whose folder it is.
FilesAreThere ==
    /\ \A c \in PreviewCams : c \in homes[folder[c]]
    /\ \A c \in PreviewCams : row[c] # "none" => file[row[c]] # "none"
    /\ \A r \in Watchers :
         /\ watcher[r].pc # "off" => watcher[r].to \in Folders /\ watcher[r].cam \in homes[watcher[r].to]
         /\ watcher[r].pc = "commit" => file[watcher[r].to] # "none"
    /\ \A f \in Folders \ clash : file[f] \in homes[f] \cup {"none"}

PreviewIInv == PreviewTypeOK /\ WritesApart /\ FilesAreThere
=============================================================================
