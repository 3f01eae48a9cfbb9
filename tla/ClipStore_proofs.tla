--------------------------- MODULE ClipStore_proofs ---------------------------
(***************************************************************************)
(* Theorems about ClipStore for any number of jobs, providers, paths and   *)
(* object ids.  The actions fall into a few classes by what they do to the *)
(* job that takes them; one lemma per class shows that the inductive       *)
(* invariant IInv is preserved, and each action is an instance of one.     *)
(***************************************************************************)
EXTENDS ClipStore, TLAPS

-----------------------------------------------------------------------------
(* Records and places                                                      *)

\* A file is never also a cloud object.
LEMMA PlacesDisjoint == LocalPlaces \cap CloudPlaces = {}
BY StoreAssumption DEF LocalPlaces, CloudPlaces, Local

LEMMA IdleJobType == IdleJob \in JobRecord /\ Shape(IdleJob) /\ ~InFlight(IdleJob)
BY DEF IdleJob, JobRecord, Kinds, PCs, Shape, InFlight, WorkerKinds, MoveKinds

LEMMA QueuedType ==
    ASSUME NEW kind \in WorkerKinds, NEW b \in Backends \cup {Local}, NEW n \in 0..4,
           kind = "archive" => b \in Backends, n < MaxTries(kind)
    PROVE  LET r == Queued(kind, b, n)
           IN  r \in JobRecord /\ Shape(r) /\ ~InFlight(r)
BY DEF Queued, JobRecord, Kinds, PCs, Shape, InFlight, WorkerKinds, MoveKinds

LEMMA RequeuedType ==
    ASSUME TypeOK, NEW j \in Jobs, Shape(job[j])
    PROVE  Requeued(j) \in JobRecord /\ Shape(Requeued(j)) /\ ~InFlight(Requeued(j))
<1>1. job[j] \in JobRecord
  BY DEF TypeOK
<1>2. /\ job[j].backend \in Backends \cup {Local}
      /\ job[j].tries \in 0..4
      /\ job[j].kind = "archive" => job[j].backend \in Backends
  BY <1>1 DEF JobRecord, Shape
<1>3. QED
  BY <1>2, IdleJobType, QueuedType DEF Requeued

LEMMA OverlapsType ==
    ASSUME NEW j \in Jobs, NEW kind \in Kinds
    PROVE  Overlaps(j, kind) \subseteq Mishaps
BY DEF Overlaps, Mishaps

\* One slot's record is replaced, the others are left alone.
LEMMA JobUpdate ==
    ASSUME TypeOK, NEW j \in Jobs, NEW r \in JobRecord, job' = [job EXCEPT ![j] = r]
    PROVE  /\ job' \in [Jobs -> JobRecord]
           /\ job'[j] = r
           /\ \A k \in Jobs \ {j} : job'[k] = job[k]
BY DEF TypeOK

-----------------------------------------------------------------------------
(* Class 1: job j is not in flight afterwards, nothing is destroyed, and   *)
(* a job stopped after its cleanup is on record among the mishaps.         *)

LEMMA LeavesFlight ==
    ASSUME IInv, NEW j \in Jobs, NEW r \in JobRecord, Shape(r), ~InFlight(r),
           job' = [job EXCEPT ![j] = r],
           row' = row, clipPath' = clipPath,
           copies \subseteq copies', copies' \subseteq Places,
           mishaps \subseteq mishaps', mishaps' \subseteq Mishaps,
           job[j].pc = "cleaned" => mishaps' \cap {"crash", "half_delete"} # {},
           job[j].pc = "cleaned" /\ job[j].kind = "delete" => "half_delete" \in mishaps'
    PROVE  IInv'
<1>1. /\ job' \in [Jobs -> JobRecord]
      /\ job'[j] = r
      /\ \A k \in Jobs \ {j} : job'[k] = job[k]
  BY JobUpdate DEF IInv
<1>2. TypeOK'
  BY <1>1 DEF IInv, TypeOK
<1>3. \A k \in Jobs : Shape(job'[k])
  BY <1>1 DEF IInv
<1>4. ASSUME "cross" \notin mishaps' PROVE OneWay' /\ DstHeld' /\ DeleteHasRow'
  <2>1. OneWay /\ DstHeld /\ DeleteHasRow
    BY <1>4 DEF IInv
  <2>2. r.pc \in {"idle", "queued"} /\ r.kind # "delete"
    BY DEF InFlight, Shape, WorkerKinds, MoveKinds
  <2>3. OneWay'
    BY <1>1, <2>1 DEF OneWay, Active
  <2>4. DstHeld'
    BY <1>1, <2>1, <2>2 DEF DstHeld
  <2>5. DeleteHasRow'
    BY <1>1, <2>1, <2>2 DEF DeleteHasRow
  <2> QED BY <2>3, <2>4, <2>5
<1>5. BytesSurvive'
  <2>1. SUFFICES ASSUME mishaps' \cap {"cross", "half_delete"} = {}, row' \in Places, ~Deleting'
                 PROVE  copies' # {}
    BY DEF BytesSurvive
  <2>2. ~Deleting
    BY <1>1, <2>1 DEF Deleting
  <2> QED BY <2>1, <2>2 DEF IInv, BytesSurvive
<1>6. StoragePathResolves'
  <2>1. SUFFICES ASSUME mishaps' \subseteq {"leftover", "twins"}, row' \in Places,
                        \A k \in Jobs : job'[k].pc # "cleaned"
                 PROVE  row' \in copies'
    BY DEF StoragePathResolves
  <2>2. \A k \in Jobs : job[k].pc # "cleaned"
    BY <1>1, <2>1
  <2> QED BY <2>1, <2>2 DEF IInv, StoragePathResolves
<1> QED
  BY <1>2, <1>3, <1>4, <1>5, <1>6 DEF IInv

-----------------------------------------------------------------------------
(* Class 2: job j commits where it has stored the bytes, and finishes.     *)

LEMMA CommitsStored ==
    ASSUME IInv, NEW j \in Jobs, job[j].kind \in WorkerKinds,
           job[j].pc \in {"stored", "cleaned"},
           job' = [job EXCEPT ![j] = IdleJob],
           row' = (IF row = Gone THEN row ELSE job[j].dst),
           UNCHANGED <<copies, clipPath, mishaps>>
    PROVE  IInv'
<1>1. /\ job' \in [Jobs -> JobRecord]
      /\ job'[j] = IdleJob
      /\ \A k \in Jobs \ {j} : job'[k] = job[k]
  BY JobUpdate, IdleJobType DEF IInv
<1>2. job[j].dst \in Places
  BY DEF IInv, Shape, InFlight, WorkerKinds, MoveKinds, Places
<1>3. TypeOK'
  BY <1>1, <1>2 DEF IInv, TypeOK
<1>4. \A k \in Jobs : Shape(job'[k])
  BY <1>1, IdleJobType DEF IInv
<1>5. ASSUME "cross" \notin mishaps
      PROVE  OneWay' /\ DstHeld' /\ DeleteHasRow' /\ job[j].dst \in copies
  <2>1. OneWay /\ DstHeld /\ DeleteHasRow
    BY <1>5 DEF IInv
  <2>2. OneWay'
    BY <1>1, <2>1, IdleJobType DEF OneWay, Active
  <2>3. DstHeld'
    BY <1>1, <2>1 DEF DstHeld, IdleJob
  <2>4. DeleteHasRow'
    BY <1>1, <1>2, <2>1, PlaceAssumption DEF DeleteHasRow, IdleJob
  <2> QED BY <2>1, <2>2, <2>3, <2>4 DEF DstHeld
<1>6. BytesSurvive'
  BY <1>1, <1>5, PlaceAssumption DEF BytesSurvive
<1>7. StoragePathResolves'
  BY <1>1, <1>5, PlaceAssumption DEF StoragePathResolves
<1> QED
  BY <1>3, <1>4, <1>5, <1>6, <1>7 DEF IInv

-----------------------------------------------------------------------------
(* Class 3: job j takes flight with the record r; whatever else is in      *)
(* flight is put on record.                                                *)

LEMMA TakesFlight ==
    ASSUME IInv, NEW j \in Jobs, NEW r \in JobRecord, Shape(r), r.pc = "loaded",
           ~Active(j),
           r.kind = "delete" => row # Gone,
           job' = [job EXCEPT ![j] = r],
           mishaps' = mishaps \cup Overlaps(j, r.kind),
           UNCHANGED <<row, copies, clipPath>>
    PROVE  IInv'
<1>1. /\ job' \in [Jobs -> JobRecord]
      /\ job'[j] = r
      /\ \A k \in Jobs \ {j} : job'[k] = job[k]
  BY JobUpdate DEF IInv
<1>2. mishaps \subseteq mishaps' /\ mishaps' \subseteq Mishaps
  BY OverlapsType DEF IInv, TypeOK, JobRecord
<1>3. TypeOK'
  BY <1>1, <1>2 DEF IInv, TypeOK
<1>4. \A k \in Jobs : Shape(job'[k])
  BY <1>1 DEF IInv
<1>5. ASSUME "cross" \notin mishaps' PROVE OneWay' /\ DstHeld' /\ DeleteHasRow'
  <2>1. OneWay /\ DstHeld /\ DeleteHasRow
    BY <1>2, <1>5 DEF IInv
  <2>2. \A k \in Jobs \ {j} : Active(k) => Twins(r.kind, job[k].kind)
    BY <1>5 DEF Overlaps
  <2>3. \A k \in Jobs \ {j} : Active(k) => Twins(job[k].kind, r.kind)
    BY <2>2 DEF Twins
  <2>4. OneWay'
    BY <1>1, <2>1, <2>2, <2>3 DEF OneWay, Active
  <2>5. DstHeld'
    BY <1>1, <2>1 DEF DstHeld
  <2>6. DeleteHasRow'
    BY <1>1, <2>1 DEF DeleteHasRow
  <2> QED BY <2>4, <2>5, <2>6
<1>6. /\ Deleting' <=> Deleting
      /\ (\A k \in Jobs : job'[k].pc # "cleaned") <=> (\A k \in Jobs : job[k].pc # "cleaned")
  BY <1>1 DEF Deleting, Active, InFlight
<1>7. BytesSurvive'
  BY <1>2, <1>6 DEF IInv, BytesSurvive
<1>8. StoragePathResolves'
  BY <1>2, <1>6 DEF IInv, StoragePathResolves
<1> QED
  BY <1>3, <1>4, <1>5, <1>7, <1>8 DEF IInv

-----------------------------------------------------------------------------
(* Class 4: job j goes from one phase of its flight to a later one, and    *)
(* nothing is destroyed; if it has stored the bytes, they are there.       *)

LEMMA Advances ==
    ASSUME IInv, NEW j \in Jobs, NEW r \in JobRecord, Shape(r), InFlight(r),
           Active(j), job[j].kind \in WorkerKinds, r.kind = job[j].kind,
           r.pc = "cleaned" => job[j].pc = "stored" /\ r.dst = job[j].dst,
           r.pc = "stored" => r.dst \in copies',
           job[j].pc # "cleaned",
           job' = [job EXCEPT ![j] = r],
           row' = row, clipPath' = clipPath,
           copies \subseteq copies', copies' \subseteq Places,
           mishaps \subseteq mishaps', mishaps' \subseteq Mishaps
    PROVE  IInv'
<1>1. /\ job' \in [Jobs -> JobRecord]
      /\ job'[j] = r
      /\ \A k \in Jobs \ {j} : job'[k] = job[k]
  BY JobUpdate DEF IInv
<1>2. TypeOK'
  BY <1>1 DEF IInv, TypeOK
<1>3. \A k \in Jobs : Shape(job'[k])
  BY <1>1 DEF IInv
<1>4. r.kind # "delete"
  BY DEF WorkerKinds, MoveKinds
<1>5. ASSUME "cross" \notin mishaps' PROVE OneWay' /\ DstHeld' /\ DeleteHasRow'
  <2>1. OneWay /\ DstHeld /\ DeleteHasRow
    BY <1>5 DEF IInv
  <2>2. OneWay'
    BY <1>1, <2>1 DEF OneWay, Active
  <2>3. DstHeld'
    BY <1>1, <2>1 DEF DstHeld
  <2>4. DeleteHasRow'
    BY <1>1, <1>4, <2>1 DEF DeleteHasRow
  <2> QED BY <2>2, <2>3, <2>4
<1>6. BytesSurvive'
  <2>1. Deleting' <=> Deleting
    BY <1>1, <1>4 DEF Deleting
  <2> QED BY <2>1 DEF IInv, BytesSurvive
<1>7. StoragePathResolves'
  BY <1>1 DEF IInv, StoragePathResolves
<1> QED
  BY <1>2, <1>3, <1>5, <1>6, <1>7 DEF IInv

-----------------------------------------------------------------------------
(* The steps that destroy bytes, and those that touch no single job        *)

\* What a move removes is never what it stored: one is a file, the other an
\* object.  With no opposite job in flight nobody else removes that either.
LEMMA RemovesSource ==
    ASSUME IInv, NEW j \in Jobs, RemoveSource(j)
    PROVE  /\ IInv'
           /\ "cross" \notin mishaps => copies' # {}
<1> DEFINE r == [job[j] EXCEPT !.pc = "cleaned"]
<1>1. /\ job[j] \in JobRecord /\ job[j].kind \in MoveKinds /\ job[j].pc = "stored"
      /\ job' = [job EXCEPT ![j] = r]
      /\ copies' = copies \ {job[j].src}
      /\ UNCHANGED <<row, clipPath, mishaps>>
  BY DEF RemoveSource, Goto, IInv, TypeOK
<1>2. r \in JobRecord /\ r.pc = "cleaned" /\ r.kind = job[j].kind /\ r.dst = job[j].dst
  BY <1>1 DEF JobRecord, PCs
<1>3. /\ job' \in [Jobs -> JobRecord]
      /\ job'[j] = r
      /\ \A k \in Jobs \ {j} : job'[k] = job[k]
  BY <1>1, <1>2, JobUpdate DEF IInv
<1>4. Shape(r)
  BY <1>1 DEF IInv, Shape, InFlight, MoveKinds, WorkerKinds
<1>5. TypeOK'
  BY <1>1, <1>3 DEF IInv, TypeOK
<1>6. \A k \in Jobs : Shape(job'[k])
  BY <1>3, <1>4 DEF IInv
<1>7. ASSUME "cross" \notin mishaps
      PROVE  OneWay' /\ DstHeld' /\ DeleteHasRow' /\ job[j].dst \in copies'
  <2>1. OneWay /\ DstHeld /\ DeleteHasRow
    BY <1>7 DEF IInv
  <2>2. OneWay'
    BY <1>1, <1>2, <1>3, <2>1 DEF OneWay, Active, InFlight
  <2>3. ASSUME NEW k \in Jobs, job[k].kind \in WorkerKinds, job[k].pc \in {"stored", "cleaned"}
        PROVE  job[k].dst \in copies'
    <3>1. k = j \/ Twins(job[k].kind, job[j].kind)
      BY <1>1, <2>1, <2>3 DEF OneWay, Active, InFlight
    <3>2. \/ job[k].dst \in CloudPlaces /\ job[j].src \in LocalPlaces
          \/ job[k].dst \in LocalPlaces /\ job[j].src \in CloudPlaces
      BY <1>1, <2>3, <3>1 DEF IInv, Shape, Twins, InFlight, MoveKinds
    <3>3. job[k].dst \in copies
      BY <2>1, <2>3 DEF DstHeld
    <3> QED BY <1>1, <3>2, <3>3, PlacesDisjoint
  <2>4. DstHeld' /\ job[j].dst \in copies'
    BY <1>1, <1>2, <1>3, <2>3 DEF DstHeld, WorkerKinds
  <2>5. DeleteHasRow'
    BY <1>1, <1>2, <1>3, <2>1 DEF DeleteHasRow
  <2> QED BY <2>2, <2>4, <2>5
<1>8. BytesSurvive'
  BY <1>1, <1>7 DEF BytesSurvive
<1>9. StoragePathResolves'
  BY <1>2, <1>3 DEF StoragePathResolves
<1> QED
  BY <1>1, <1>5, <1>6, <1>7, <1>8, <1>9 DEF IInv

LEMMA ErasesFile ==
    ASSUME IInv, NEW j \in Jobs, EraseFile(j)
    PROVE  IInv' /\ Deleting'
<1> DEFINE r == [job[j] EXCEPT !.pc = "cleaned"]
<1>1. /\ job[j] \in JobRecord /\ job[j].kind = "delete" /\ job[j].pc = "loaded"
      /\ job' = [job EXCEPT ![j] = r]
      /\ copies' = copies \ ({job[j].src} \cap LocalPlaces)
      /\ UNCHANGED <<row, clipPath, mishaps>>
  BY DEF EraseFile, Goto, IInv, TypeOK
<1>2. r \in JobRecord /\ r.pc = "cleaned" /\ r.kind = "delete"
  BY <1>1 DEF JobRecord, PCs
<1>3. /\ job' \in [Jobs -> JobRecord]
      /\ job'[j] = r
      /\ \A k \in Jobs \ {j} : job'[k] = job[k]
  BY <1>1, <1>2, JobUpdate DEF IInv
<1>4. Shape(r)
  BY <1>2 DEF Shape, InFlight
<1>5. TypeOK'
  BY <1>1, <1>3 DEF IInv, TypeOK
<1>6. \A k \in Jobs : Shape(job'[k])
  BY <1>3, <1>4 DEF IInv
<1>7. ASSUME "cross" \notin mishaps PROVE OneWay' /\ DstHeld' /\ DeleteHasRow'
  <2>1. OneWay /\ DstHeld /\ DeleteHasRow
    BY <1>7 DEF IInv
  <2>2. \A k \in Jobs \ {j} : ~Active(k)
    BY <1>1, <2>1 DEF OneWay, Active, InFlight, Twins
  <2>3. OneWay'
    BY <1>3, <2>2 DEF OneWay, Active
  <2>4. DstHeld'
    BY <1>2, <1>3, <2>2 DEF DstHeld, Active, InFlight, WorkerKinds, MoveKinds
  <2>5. DeleteHasRow'
    BY <1>1, <1>3, <2>1 DEF DeleteHasRow
  <2> QED BY <2>3, <2>4, <2>5
<1>8. Deleting'
  BY <1>2, <1>3 DEF Deleting
<1>9. BytesSurvive' /\ StoragePathResolves'
  BY <1>2, <1>3, <1>8 DEF BytesSurvive, StoragePathResolves
<1> QED
  BY <1>5, <1>6, <1>7, <1>8, <1>9, <1>1 DEF IInv

LEMMA CommitsDelete ==
    ASSUME IInv, NEW j \in Jobs, CommitDelete(j)
    PROVE  IInv'
<1>1. /\ job[j].kind = "delete" /\ job[j].pc = "cleaned" /\ row' = Gone
      /\ job' = [job EXCEPT ![j] = IdleJob]
      /\ UNCHANGED <<copies, clipPath, mishaps>>
  BY DEF CommitDelete, Finish
<1>2. /\ job' \in [Jobs -> JobRecord]
      /\ job'[j] = IdleJob
      /\ \A k \in Jobs \ {j} : job'[k] = job[k]
  BY <1>1, JobUpdate, IdleJobType DEF IInv
<1>3. TypeOK'
  BY <1>1, <1>2 DEF IInv, TypeOK
<1>4. \A k \in Jobs : Shape(job'[k])
  BY <1>2, IdleJobType DEF IInv
<1>5. ASSUME "cross" \notin mishaps PROVE OneWay' /\ DstHeld' /\ DeleteHasRow'
  <2>1. OneWay /\ DstHeld
    BY <1>5 DEF IInv
  <2>2. \A k \in Jobs \ {j} : ~Active(k)
    BY <1>1, <2>1 DEF OneWay, Active, InFlight, Twins
  <2>3. OneWay' /\ DstHeld'
    BY <1>1, <1>2, <2>1, IdleJobType DEF OneWay, DstHeld, Active, IdleJob
  <2>4. \A k \in Jobs : job[k].kind = "delete" => Active(k)
    BY DEF IInv, Shape, Active, InFlight
  <2>5. DeleteHasRow'
    BY <1>2, <2>2, <2>4 DEF DeleteHasRow, IdleJob
  <2> QED BY <2>3, <2>5
<1>6. BytesSurvive' /\ StoragePathResolves'
  BY <1>1, PlaceAssumption DEF BytesSurvive, StoragePathResolves
<1> QED
  BY <1>1, <1>3, <1>4, <1>5, <1>6 DEF IInv

LEMMA Renames ==
    ASSUME IInv, RenameCamera
    PROVE  IInv'
BY DEF IInv, RenameCamera, TypeOK, Shape, OneWay, DstHeld, DeleteHasRow, BytesSurvive,
       StoragePathResolves, Deleting, Active

\* Every worker job in flight goes back to the queue, or ends.
LEMMA Crashes ==
    ASSUME IInv, WorkerCrash
    PROVE  IInv'
<1>1. \A k \in Jobs : \/ job'[k] = job[k]
                      \/ /\ job[k].kind \in WorkerKinds
                         /\ job'[k] = Requeued(k)
  BY DEF WorkerCrash
<1>2. \A k \in Jobs : job'[k] \in JobRecord /\ Shape(job'[k])
  BY <1>1, RequeuedType DEF IInv, TypeOK
<1>3. TypeOK'
  BY <1>2 DEF IInv, TypeOK, WorkerCrash, Mishaps
<1>4. \A k \in Jobs : \/ job'[k] = job[k]
                      \/ ~InFlight(job'[k])
  BY <1>1, RequeuedType DEF IInv
<1>5. \A k \in Jobs : /\ job[k].kind = "delete" => job'[k] = job[k]
                      /\ job'[k].kind = "delete" => job'[k] = job[k]
  BY <1>1, <1>2, <1>4 DEF WorkerKinds, MoveKinds, Shape, InFlight
<1>6. ASSUME "cross" \notin mishaps' PROVE OneWay' /\ DstHeld' /\ DeleteHasRow'
  <2>1. OneWay /\ DstHeld /\ DeleteHasRow
    BY <1>6 DEF IInv, WorkerCrash
  <2>2. OneWay'
    BY <1>4, <2>1 DEF OneWay, Active
  <2>3. DstHeld'
    BY <1>4, <2>1 DEF DstHeld, InFlight, WorkerCrash
  <2>4. DeleteHasRow'
    BY <1>5, <2>1 DEF DeleteHasRow, WorkerCrash
  <2> QED BY <2>2, <2>3, <2>4
<1>7. Deleting' <=> Deleting
  BY <1>5 DEF Deleting
<1>8. BytesSurvive' /\ StoragePathResolves'
  BY <1>7 DEF IInv, BytesSurvive, StoragePathResolves, WorkerCrash
<1> QED
  BY <1>2, <1>3, <1>6, <1>8 DEF IInv

-----------------------------------------------------------------------------
(* The actions, each an instance of a class                                *)

LEMMA EnqueueStep ==
    ASSUME IInv, NEW j \in Jobs, Enqueue(j)
    PROVE  IInv'
<1>1. ASSUME NEW b \in Backends, EnqueueArchive(j, b) PROVE IInv'
  <2>1. LET r == Queued("archive", b, 0) IN r \in JobRecord /\ Shape(r) /\ ~InFlight(r)
    BY QueuedType DEF WorkerKinds, MoveKinds, MaxTries
  <2> QED BY <1>1, <2>1, LeavesFlight DEF EnqueueArchive, IInv, TypeOK
<1>2. ASSUME EnqueueAutoArchive(j) PROVE IInv'
  <2>1. LET r == Queued("auto_archive", Local, 0) IN r \in JobRecord /\ Shape(r) /\ ~InFlight(r)
    BY QueuedType DEF WorkerKinds, MoveKinds, MaxTries
  <2> QED BY <1>2, <2>1, LeavesFlight DEF EnqueueAutoArchive, IInv, TypeOK
<1>3. ASSUME EnqueueRestore(j) PROVE IInv'
  <2>1. LET r == Queued("restore", Local, 0) IN r \in JobRecord /\ Shape(r) /\ ~InFlight(r)
    BY QueuedType DEF WorkerKinds, MoveKinds, MaxTries
  <2> QED BY <1>3, <2>1, LeavesFlight DEF EnqueueRestore, IInv, TypeOK
<1>4. ASSUME RequestDelete(j) PROVE IInv'
  <2> DEFINE r == [kind |-> "delete", backend |-> Local, pc |-> "loaded",
                   src |-> IF row = Pending THEN Nowhere ELSE row,
                   dst |-> Nowhere, tries |-> 0]
  <2>1. r \in JobRecord /\ Shape(r) /\ r.pc = "loaded" /\ r.kind = "delete"
    BY <1>4 DEF RequestDelete, IInv, TypeOK, JobRecord, Kinds, PCs, Shape, InFlight
  <2>2. ~Active(j)
    BY <1>4 DEF RequestDelete, Active, InFlight
  <2>3. /\ job' = [job EXCEPT ![j] = r] /\ row # Gone
        /\ mishaps' = mishaps \cup Overlaps(j, r.kind)
        /\ UNCHANGED <<row, copies, clipPath>>
    BY <1>4 DEF RequestDelete
  <2> HIDE DEF r
  <2> QED BY <2>1, <2>2, <2>3, TakesFlight
<1> QED
  BY <1>1, <1>2, <1>3, <1>4 DEF Enqueue

\* What Begin makes of a queued worker job.
LEMMA BeginRecord ==
    ASSUME IInv, NEW j \in Jobs, NEW src \in Places \cup {Nowhere},
           NEW dst \in Places \cup {Nowhere}, NEW b \in Backends \cup {Local},
           job[j].kind \in WorkerKinds, Begin(j, src, dst, b),
           UNCHANGED <<row, copies, clipPath>>,
           job[j].kind = "download" => dst \in LocalPlaces,
           job[j].kind \in {"archive", "auto_archive"} => b \in Backends /\ src \in LocalPlaces,
           job[j].kind = "restore" => src \in CloudPlaces
    PROVE  IInv'
<1> DEFINE r == [job[j] EXCEPT !.pc = "loaded", !.src = src, !.dst = dst,
                               !.backend = b, !.tries = job[j].tries + 1]
<1>1. job[j] \in JobRecord /\ job[j].pc = "queued" /\ Shape(job[j])
  BY DEF IInv, TypeOK, Begin
<1>2. job[j].tries + 1 \in 0..4
  BY <1>1 DEF Shape, MaxTries, JobRecord
<1>3. /\ r \in JobRecord
      /\ r.kind = job[j].kind /\ r.pc = "loaded" /\ r.src = src /\ r.dst = dst /\ r.backend = b
  BY <1>1, <1>2 DEF JobRecord, PCs
<1>4. /\ job' = [job EXCEPT ![j] = r]
      /\ mishaps' = mishaps \cup Overlaps(j, r.kind)
  BY <1>1, <1>3 DEF Begin, IInv, TypeOK
<1>5. Shape(r) /\ r.kind # "delete"
  BY <1>1, <1>3 DEF Shape, InFlight, WorkerKinds, MoveKinds
<1>6. ~Active(j)
  BY <1>1 DEF Active, InFlight
<1> HIDE DEF r
<1> QED BY <1>3, <1>4, <1>5, <1>6, TakesFlight

LEMMA LoadStep ==
    ASSUME IInv, NEW j \in Jobs,
           \/ LoadDownload(j) \/ LoadArchive(j) \/ LoadRestore(j)
           \/ \E b \in Backends : LoadAutoArchive(j, b)
    PROVE  IInv'
<1>1. CASE LoadDownload(j)
  <2>1. <<Local, clipPath>> \in LocalPlaces
    BY DEF IInv, TypeOK, LocalPlaces
  <2> QED BY <1>1, <2>1, BeginRecord DEF LoadDownload, Places, WorkerKinds
<1>2. CASE LoadArchive(j)
  BY <1>2, BeginRecord DEF LoadArchive, Places, WorkerKinds, MoveKinds, IInv, Shape
<1>3. CASE LoadRestore(j)
  BY <1>3, BeginRecord DEF LoadRestore, Places, WorkerKinds, MoveKinds
<1>4. ASSUME NEW b \in Backends, LoadAutoArchive(j, b) PROVE IInv'
  BY <1>4, BeginRecord DEF LoadAutoArchive, Places, WorkerKinds, MoveKinds
<1> QED BY <1>1, <1>2, <1>3, <1>4

\* The steps after which job j is no longer in flight, commits apart.
LEMMA StopStep ==
    ASSUME IInv, NEW j \in Jobs,
           \/ SkipDownload(j) \/ DownloadFails(j) \/ DownloadAuthFails(j) \/ SkipMove(j)
           \/ UploadFailsLate(j) \/ MoveFails(j) \/ DeleteFails(j) \/ JobTimeout(j)
           \/ ApiCrash(j)
    PROVE  IInv'
<1>1. copies \subseteq Places /\ mishaps \subseteq Mishaps /\ Shape(job[j]) /\ TypeOK
  BY DEF IInv, TypeOK
<1>2. Requeued(j) \in JobRecord /\ Shape(Requeued(j)) /\ ~InFlight(Requeued(j))
  BY <1>1, RequeuedType
<1>3. CASE SkipDownload(j) \/ SkipMove(j) \/ MoveFails(j)
  BY <1>1, <1>3, IdleJobType, LeavesFlight DEF SkipDownload, SkipMove, MoveFails, Finish
<1>4. CASE DownloadFails(j)
  BY <1>1, <1>2, <1>4, LeavesFlight DEF DownloadFails, Mishaps
<1>5. CASE DownloadAuthFails(j)
  BY <1>1, <1>5, IdleJobType, LeavesFlight DEF DownloadAuthFails, Finish, Mishaps
<1>6. CASE UploadFailsLate(j)
  <2>1. UploadTargets(job[j].backend) \subseteq Places
    BY <1>1, <1>6 DEF UploadFailsLate, Shape, InFlight, UploadTargets, Places, CloudPlaces
  <2>2. copies \subseteq copies' /\ copies' \subseteq Places
    BY <1>1, <1>6, <2>1 DEF UploadFailsLate
  <2> QED BY <1>1, <1>6, <2>2, IdleJobType, LeavesFlight DEF UploadFailsLate, Finish, Mishaps
<1>7. CASE DeleteFails(j) \/ ApiCrash(j)
  BY <1>1, <1>7, IdleJobType, LeavesFlight DEF DeleteFails, ApiCrash, Finish, Mishaps
<1>8. CASE JobTimeout(j)
  BY <1>1, <1>8, IdleJobType, LeavesFlight DEF JobTimeout, Finish, Mishaps, WorkerKinds, MoveKinds
<1> QED BY <1>3, <1>4, <1>5, <1>6, <1>7, <1>8

\* The steps on which job j goes on without destroying anything.
LEMMA AdvanceStep ==
    ASSUME IInv, NEW j \in Jobs,
           \/ WriteDownload(j) \/ Fetch(j) \/ Upload(j) \/ WriteRestored(j)
           \/ RemoveSourceFails(j)
    PROVE  IInv'
<1>1. /\ job[j] \in JobRecord /\ Shape(job[j])
      /\ copies \subseteq Places /\ mishaps \subseteq Mishaps
      /\ job \in [Jobs -> JobRecord]
  BY DEF IInv, TypeOK
<1>2. CASE WriteDownload(j)
  <2> DEFINE r == [job[j] EXCEPT !.pc = "stored"]
  <2>1. r \in JobRecord /\ r.pc = "stored" /\ r.kind = "download" /\ r.dst = job[j].dst
    BY <1>1, <1>2 DEF JobRecord, PCs, WriteDownload
  <2>2. job' = [job EXCEPT ![j] = r] /\ job[j].pc = "loaded" /\ job[j].kind = "download"
    BY <1>1, <1>2 DEF WriteDownload, Goto
  <2>3. job[j].dst \in LocalPlaces
    BY <1>1, <2>2 DEF Shape, InFlight
  <2>4. Shape(r) /\ InFlight(r) /\ Active(j)
    BY <2>1, <2>2, <2>3 DEF Shape, InFlight, Active
  <2>5. copies' = copies \cup {r.dst} /\ copies' \subseteq Places
    BY <1>1, <1>2, <2>1, <2>3 DEF WriteDownload, Places
  <2> HIDE DEF r
  <2> QED BY <1>1, <1>2, <2>1, <2>2, <2>4, <2>5, Advances DEF WriteDownload, WorkerKinds
<1>3. CASE Fetch(j)
  <2> DEFINE r == [job[j] EXCEPT !.pc = "fetched"]
  <2>1. /\ r \in JobRecord /\ r.pc = "fetched" /\ r.kind = job[j].kind
        /\ r.src = job[j].src /\ r.backend = job[j].backend
    BY <1>1, <1>3 DEF JobRecord, PCs, Fetch
  <2>2. job' = [job EXCEPT ![j] = r] /\ job[j].pc = "loaded" /\ job[j].kind \in MoveKinds
    BY <1>1, <1>3 DEF Fetch, Goto
  <2>3. Shape(r) /\ InFlight(r) /\ Active(j)
    BY <1>1, <2>1, <2>2 DEF Shape, InFlight, Active, MoveKinds
  <2> HIDE DEF r
  <2> QED BY <1>1, <1>3, <2>1, <2>2, <2>3, Advances DEF Fetch, WorkerKinds
<1>4. ASSUME NEW p \in Places, Store(j, p), job[j].kind \in MoveKinds,
             job[j].kind = "restore" => p \in LocalPlaces,
             job[j].kind # "restore" => p \in CloudPlaces
      PROVE  IInv'
  <2> DEFINE r == [job[j] EXCEPT !.pc = "stored", !.dst = p]
  <2>1. /\ r \in JobRecord /\ r.pc = "stored" /\ r.kind = job[j].kind
        /\ r.src = job[j].src /\ r.backend = job[j].backend /\ r.dst = p
    BY <1>1 DEF JobRecord, PCs
  <2>2. job' = [job EXCEPT ![j] = r] /\ job[j].pc = "fetched" /\ copies' = copies \cup {p}
    BY <1>1, <1>4 DEF Store
  <2>3. Shape(r) /\ InFlight(r) /\ Active(j)
    BY <1>1, <1>4, <2>1, <2>2 DEF Shape, InFlight, Active, MoveKinds
  <2> HIDE DEF r
  <2> QED BY <1>1, <1>4, <2>1, <2>2, <2>3, Advances DEF Store, WorkerKinds
<1>5. CASE Upload(j)
  <2>1. job[j].backend \in Backends
    BY <1>1, <1>5 DEF Upload, Store, Shape, InFlight
  <2>2. UploadTargets(job[j].backend) \subseteq CloudPlaces
    BY <2>1 DEF UploadTargets, CloudPlaces
  <2> QED BY <1>4, <1>5, <2>2 DEF Upload, Places, MoveKinds
<1>6. CASE WriteRestored(j)
  <2>1. <<Local, clipPath>> \in LocalPlaces
    BY DEF IInv, TypeOK, LocalPlaces
  <2> QED BY <1>4, <1>6, <2>1 DEF WriteRestored, Places, MoveKinds
<1>7. CASE RemoveSourceFails(j)
  <2> DEFINE r == [job[j] EXCEPT !.pc = "cleaned"]
  <2>1. /\ r \in JobRecord /\ r.pc = "cleaned" /\ r.kind = job[j].kind
        /\ r.src = job[j].src /\ r.backend = job[j].backend /\ r.dst = job[j].dst
    BY <1>1 DEF JobRecord, PCs
  <2>2. job' = [job EXCEPT ![j] = r] /\ job[j].pc = "stored" /\ job[j].kind \in MoveKinds
    BY <1>1, <1>7 DEF RemoveSourceFails, Goto
  <2>3. Shape(r) /\ InFlight(r) /\ Active(j)
    BY <1>1, <2>1, <2>2 DEF Shape, InFlight, Active, MoveKinds
  <2> HIDE DEF r
  <2> QED BY <1>1, <1>7, <2>1, <2>2, <2>3, Advances DEF RemoveSourceFails, WorkerKinds, Mishaps
<1> QED BY <1>2, <1>3, <1>5, <1>6, <1>7

LEMMA CommitStep ==
    ASSUME IInv, NEW j \in Jobs, CommitDownload(j) \/ CommitMove(j)
    PROVE  IInv'
BY CommitsStored DEF CommitDownload, CommitMove, Finish, WorkerKinds

LEMMA InitIInv == Init => IInv
<1> SUFFICES ASSUME Init PROVE IInv
  OBVIOUS
<1>1. PICK d \in Jobs : job = [j \in Jobs |-> IF j = d THEN Queued("download", Local, 0)
                                             ELSE IdleJob]
  BY DEF Init
<1> DEFINE q == Queued("download", Local, 0)
<1>2. \A j \in Jobs : job[j] \in JobRecord /\ Shape(job[j]) /\ ~InFlight(job[j])
  <2>1. q \in JobRecord /\ Shape(q) /\ ~InFlight(q)
    BY QueuedType DEF WorkerKinds, MaxTries
  <2>2. \A j \in Jobs : job[j] = q \/ job[j] = IdleJob
    BY <1>1
  <2> HIDE DEF q
  <2> QED BY <2>1, <2>2, IdleJobType
<1>3. TypeOK
  BY <1>1, <1>2 DEF Init, TypeOK
<1>4. OneWay /\ DstHeld /\ DeleteHasRow
  BY <1>2, PlaceAssumption DEF Init, OneWay, DstHeld, DeleteHasRow, Active, InFlight
<1>5. BytesSurvive /\ StoragePathResolves
  BY PlaceAssumption DEF Init, BytesSurvive, StoragePathResolves
<1> QED BY <1>2, <1>3, <1>4, <1>5 DEF IInv

LEMMA NextIInv == IInv /\ [Next]_vars => IInv'
<1> SUFFICES ASSUME IInv, [Next]_vars PROVE IInv'
  OBVIOUS
<1>1. CASE UNCHANGED vars
  BY <1>1 DEF vars, IInv, TypeOK, OneWay, DstHeld, DeleteHasRow, BytesSurvive,
              StoragePathResolves, Deleting, Active
<1>2. ASSUME NEW j \in Jobs, Enqueue(j) PROVE IInv'
  BY <1>2, EnqueueStep
<1>3. ASSUME NEW j \in Jobs, Step(j) PROVE IInv'
  BY <1>3, LoadStep, StopStep, AdvanceStep, CommitStep, RemovesSource, ErasesFile, CommitsDelete
     DEF Step
<1>4. ASSUME NEW j \in Jobs, JobTimeout(j) \/ ApiCrash(j) PROVE IInv'
  BY <1>4, StopStep
<1> QED BY <1>1, <1>2, <1>3, <1>4, Renames, Crashes DEF Next

-----------------------------------------------------------------------------
(* Theorems                                                                *)

\* In every reachable state the jobs in flight agree with one another and with
\* the files and objects there are.
THEOREM Inductive == Spec => []IInv
BY InitIInv, NextIInv, PTL DEF Spec

\* Every variable keeps its type; in particular no job is tried more often than
\* its max_tries.
THEOREM TypeCorrect == Spec => []TypeOK
<1>1. IInv => TypeOK
  BY DEF IInv
<1> QED BY <1>1, Inductive, PTL

\* archive_clip and restore_clip never destroy the last copy of a clip, whatever
\* crashes, times out or fails, and however many moves the same way overlap.
THEOREM NoMoveLosesBytes == Spec => []BytesSurvive
<1>1. IInv => BytesSurvive
  BY DEF IInv
<1> QED BY <1>1, Inductive, PTL

\* Failed cleanups and same-way overlaps never leave storage_path dangling.
THEOREM PathResolves == Spec => []StoragePathResolves
<1>1. IInv => StoragePathResolves
  BY DEF IInv
<1> QED BY <1>1, Inductive, PTL

\* A download or a move that commits after the clip was deleted changes nothing.
THEOREM StaysDeleted == Spec => NeverResurrected
<1>1. ASSUME [Next]_vars, row = Gone PROVE row' = Gone
  <2>1. CASE UNCHANGED vars
    BY <1>1, <2>1 DEF vars
  <2>2. ASSUME NEW j \in Jobs, Enqueue(j) PROVE row' = Gone
    BY <1>1, <2>2 DEF Enqueue, EnqueueArchive, EnqueueAutoArchive, EnqueueRestore, RequestDelete
  <2>3. ASSUME NEW j \in Jobs, Step(j) PROVE row' = Gone
    <3>1. ASSUME row' # row PROVE CommitDownload(j) \/ CommitMove(j) \/ CommitDelete(j)
      BY <2>3, <3>1 DEF Step, LoadDownload, SkipDownload, WriteDownload, DownloadFails,
         DownloadAuthFails, LoadArchive, LoadAutoArchive, LoadRestore, SkipMove, Fetch, Upload,
         UploadFailsLate, WriteRestored, Store, MoveFails, RemoveSource, RemoveSourceFails,
         EraseFile, DeleteFails
    <3> QED BY <1>1, <3>1 DEF CommitDownload, CommitMove, CommitDelete
  <2>4. ASSUME NEW j \in Jobs, JobTimeout(j) \/ ApiCrash(j) PROVE row' = Gone
    BY <1>1, <2>4 DEF JobTimeout, ApiCrash
  <2>5. CASE RenameCamera \/ WorkerCrash
    BY <1>1, <2>5 DEF RenameCamera, WorkerCrash
  <2> QED BY <1>1, <2>1, <2>2, <2>3, <2>4, <2>5 DEF Next
<1> QED BY <1>1, PTL DEF Spec, NeverResurrected

-----------------------------------------------------------------------------
(* Refinement of ClipVault                                                 *)

\* The mapped phase is one of Vault's, each in its own circumstances.
LEMMA PhaseCases ==
    ASSUME TypeOK
    PROVE  /\ row = Gone => phase = "gone"
           /\ row # Gone /\ Deleting => phase = "discarding"
           /\ row = Pending /\ ~Deleting => phase = "pending"
           /\ row \in Places /\ ~Deleting => phase = "kept"
BY PlaceAssumption DEF phase, TypeOK

\* The phase depends on the row and on whether a delete has erased the file.
LEMMA PhaseFrame ==
    ASSUME row' = row, Deleting' <=> Deleting
    PROVE  phase' = phase
BY DEF phase

\* Only a delete that has erased the file counts as deleting.
LEMMA DeletingFrame ==
    ASSUME TypeOK, NEW j \in Jobs, NEW r \in JobRecord, job' = [job EXCEPT ![j] = r],
           ~(job[j].kind = "delete" /\ job[j].pc = "cleaned"),
           ~(r.kind = "delete" /\ r.pc = "cleaned")
    PROVE  Deleting' <=> Deleting
BY JobUpdate DEF Deleting

\* The same for the forms in which the actions write job.
LEMMA GotoFrame ==
    ASSUME TypeOK, NEW j \in Jobs, NEW from \in PCs, NEW to \in PCs, Goto(j, from, to),
           job[j].kind # "delete"
    PROVE  Deleting' <=> Deleting
BY DEF Goto, Deleting, TypeOK, JobRecord

LEMMA FinishFrame ==
    ASSUME TypeOK, NEW j \in Jobs, Finish(j),
           ~(job[j].kind = "delete" /\ job[j].pc = "cleaned")
    PROVE  Deleting' <=> Deleting
BY DeletingFrame, IdleJobType DEF Finish, IdleJob

LEMMA StoreFrame ==
    ASSUME TypeOK, NEW j \in Jobs, NEW p \in Places, Store(j, p), job[j].kind # "delete"
    PROVE  Deleting' <=> Deleting
BY DEF Store, Deleting, TypeOK, JobRecord

LEMMA BeginFrame ==
    ASSUME TypeOK, NEW j \in Jobs, NEW src, NEW dst, NEW b, Begin(j, src, dst, b),
           job[j].kind # "delete"
    PROVE  Deleting' <=> Deleting
BY DEF Begin, Deleting, TypeOK, JobRecord

LEMMA CrashFrame ==
    ASSUME IInv, WorkerCrash
    PROVE  Deleting' <=> Deleting
<1>1. \A k \in Jobs : \/ job'[k] = job[k]
                      \/ /\ job[k].kind # "delete"
                         /\ job'[k] = Requeued(k) /\ ~InFlight(Requeued(k))
  BY RequeuedType DEF WorkerCrash, IInv, WorkerKinds, MoveKinds
<1> QED BY <1>1 DEF Deleting, InFlight

\* Vault does not see requests, loads, fetches, failures, renames and crashes.
LEMMA UnseenStep ==
    ASSUME IInv, Guard',
           \/ \E j \in Jobs :
                \/ Enqueue(j) \/ JobTimeout(j) \/ ApiCrash(j) \/ DeleteFails(j)
                \/ LoadDownload(j) \/ SkipDownload(j) \/ DownloadFails(j) \/ DownloadAuthFails(j)
                \/ LoadArchive(j) \/ LoadRestore(j) \/ (\E b \in Backends : LoadAutoArchive(j, b))
                \/ SkipMove(j) \/ Fetch(j) \/ MoveFails(j) \/ RemoveSourceFails(j)
           \/ RenameCamera
           \/ WorkerCrash
    PROVE  UNCHANGED <<phase, copies>>
<1> USE DEF IInv
<1>1. SUFFICES row' = row /\ copies' = copies /\ (Deleting' <=> Deleting)
  BY PhaseFrame
<1>2. ASSUME NEW j \in Jobs, NEW kind \in WorkerKinds, NEW b \in Backends \cup {Local},
             job[j].pc = "idle", job' = [job EXCEPT ![j] = Queued(kind, b, 0)],
             kind = "archive" => b \in Backends
      PROVE  Deleting' <=> Deleting
  <2>1. 0 < MaxTries(kind)
    BY DEF MaxTries
  <2>2. Queued(kind, b, 0) \in JobRecord
    BY <1>2, <2>1, QueuedType
  <2>3. Queued(kind, b, 0).pc = "queued"
    BY DEF Queued
  <2> QED BY <1>2, <2>2, <2>3, DeletingFrame
<1>3. ASSUME NEW j \in Jobs, Enqueue(j)
      PROVE  row' = row /\ copies' = copies /\ (Deleting' <=> Deleting)
  <2>1. ASSUME NEW b \in Backends, EnqueueArchive(j, b) PROVE Deleting' <=> Deleting
    BY <1>2, <2>1 DEF EnqueueArchive, WorkerKinds, MoveKinds
  <2>2. CASE EnqueueAutoArchive(j) \/ EnqueueRestore(j)
    BY <1>2, <2>2 DEF EnqueueAutoArchive, EnqueueRestore, WorkerKinds, MoveKinds
  <2>3. CASE RequestDelete(j)
    <3>1. \A k \in Jobs \ {j} : job'[k] = job[k]
      BY <2>3 DEF RequestDelete, TypeOK
    <3>2. job'[j].pc = "loaded" /\ job[j].pc = "idle"
      BY <2>3 DEF RequestDelete, TypeOK
    <3>3. Deleting' <=> Deleting
      BY <3>1, <3>2 DEF Deleting
    <3> QED BY <2>3, <3>3 DEF RequestDelete
  <2> QED BY <1>3, <2>1, <2>2, <2>3
      DEF Enqueue, EnqueueArchive, EnqueueAutoArchive, EnqueueRestore, RequestDelete
<1>4. ASSUME NEW j \in Jobs, JobTimeout(j) \/ ApiCrash(j) \/ DeleteFails(j)
      PROVE  row' = row /\ copies' = copies /\ (Deleting' <=> Deleting)
  BY <1>4, FinishFrame DEF JobTimeout, ApiCrash, DeleteFails, Guard, WorkerKinds, MoveKinds
<1>5. ASSUME NEW j \in Jobs,
             \/ LoadDownload(j) \/ LoadArchive(j) \/ LoadRestore(j)
             \/ (\E b \in Backends : LoadAutoArchive(j, b))
      PROVE  row' = row /\ copies' = copies /\ (Deleting' <=> Deleting)
  BY <1>5, BeginFrame DEF LoadDownload, LoadArchive, LoadRestore, LoadAutoArchive
<1>6. ASSUME NEW j \in Jobs,
             SkipDownload(j) \/ DownloadAuthFails(j) \/ SkipMove(j) \/ MoveFails(j)
      PROVE  row' = row /\ copies' = copies /\ (Deleting' <=> Deleting)
  BY <1>6, FinishFrame DEF SkipDownload, DownloadAuthFails, SkipMove, MoveFails, MoveKinds
<1>7. ASSUME NEW j \in Jobs, DownloadFails(j)
      PROVE  row' = row /\ copies' = copies /\ (Deleting' <=> Deleting)
  <2>1. Requeued(j) \in JobRecord /\ ~InFlight(Requeued(j))
    BY RequeuedType
  <2> QED BY <1>7, <2>1, DeletingFrame DEF DownloadFails, InFlight
<1>8. ASSUME NEW j \in Jobs, Fetch(j) \/ RemoveSourceFails(j)
      PROVE  row' = row /\ copies' = copies /\ (Deleting' <=> Deleting)
  BY <1>8, GotoFrame DEF Fetch, RemoveSourceFails, MoveKinds, PCs
<1>9. CASE RenameCamera \/ WorkerCrash
  BY <1>9, CrashFrame DEF RenameCamera, WorkerCrash, Deleting
<1> QED BY <1>3, <1>4, <1>5, <1>6, <1>7, <1>8, <1>9

\* A download, an upload or a restored file is a copy more.
LEMMA GainStep ==
    ASSUME IInv, NEW j \in Jobs,
           WriteDownload(j) \/ Upload(j) \/ WriteRestored(j) \/ UploadFailsLate(j)
    PROVE  \E p \in Places : Vault!Gain(p)
<1>1. TypeOK /\ Shape(job[j])
  BY DEF IInv
<1>2. CASE WriteDownload(j)
  <2>1. job[j].dst \in Places
    BY <1>1, <1>2 DEF WriteDownload, Goto, Shape, InFlight, Places
  <2>2. phase' = phase
    BY <1>1, <1>2, GotoFrame, PhaseFrame DEF WriteDownload, PCs
  <2> QED BY <1>2, <2>1, <2>2 DEF WriteDownload, Vault!Gain
<1>3. ASSUME NEW p \in Places, Store(j, p), job[j].kind # "delete" PROVE Vault!Gain(p)
  BY <1>1, <1>3, StoreFrame, PhaseFrame DEF Store, Vault!Gain
<1>4. job[j].backend \in Backends => UploadTargets(job[j].backend) \subseteq Places
  BY DEF UploadTargets, CloudPlaces, Places
<1>5. CASE Upload(j)
  <2>1. job[j].backend \in Backends
    BY <1>1, <1>5 DEF Upload, Store, Shape, InFlight
  <2> QED BY <1>3, <1>4, <1>5, <2>1 DEF Upload
<1>6. CASE WriteRestored(j)
  <2>1. <<Local, clipPath>> \in Places
    BY <1>1 DEF TypeOK, LocalPlaces, Places
  <2> QED BY <1>3, <1>6, <2>1 DEF WriteRestored
<1>7. CASE UploadFailsLate(j)
  <2>1. job[j].backend \in Backends
    BY <1>1, <1>7 DEF UploadFailsLate, Shape, InFlight
  <2>2. phase' = phase
    BY <1>1, <1>7, FinishFrame, PhaseFrame DEF UploadFailsLate
  <2> QED BY <1>4, <1>7, <2>1, <2>2 DEF UploadFailsLate, Vault!Gain
<1> QED BY <1>2, <1>5, <1>6, <1>7

LEMMA LoseStep ==
    ASSUME IInv, Guard, NEW j \in Jobs, RemoveSource(j)
    PROVE  \E p \in Places : Vault!Lose(p)
<1>1. TypeOK /\ Shape(job[j]) /\ job[j].kind \in MoveKinds /\ job[j].pc = "stored"
  BY DEF IInv, RemoveSource, Goto
<1>2. job[j].src \in Places
  BY <1>1 DEF Shape, InFlight, MoveKinds, Places
<1>3. copies' # {} /\ copies' = copies \ {job[j].src} /\ row' = row
  BY RemovesSource DEF Guard, RemoveSource
<1>4. phase' = phase
  BY <1>1, <1>3, GotoFrame, PhaseFrame DEF RemoveSource, MoveKinds, PCs
<1> QED BY <1>2, <1>3, <1>4 DEF Vault!Lose

\* With no opposite job in flight a commit finds the row and the stored bytes
\* as its job left them.
LEMMA CommitMaps ==
    ASSUME IInv, Guard, NEW j \in Jobs, CommitDownload(j) \/ CommitMove(j)
    PROVE  Vault!Keep \/ UNCHANGED <<phase, copies>>
<1>1. /\ job[j].kind \in WorkerKinds /\ job[j].pc \in {"stored", "cleaned"}
      /\ job' = [job EXCEPT ![j] = IdleJob]
      /\ row' = (IF row = Gone THEN row ELSE job[j].dst)
      /\ copies' = copies /\ Finish(j)
  BY DEF CommitDownload, CommitMove, Finish, WorkerKinds
<1>2. TypeOK /\ TypeOK' /\ OneWay /\ DstHeld
  BY CommitStep DEF IInv, Guard
<1>3. job[j].dst \in copies /\ job[j].dst \in Places
  BY <1>1, <1>2 DEF DstHeld, TypeOK
<1>4. ~Deleting /\ ~Deleting'
  <2>1. ~Deleting
    BY <1>1, <1>2 DEF OneWay, Active, InFlight, Twins, Deleting, WorkerKinds, MoveKinds
  <2>2. Deleting' <=> Deleting
    BY <1>1, <1>2, FinishFrame DEF WorkerKinds, MoveKinds
  <2> QED BY <2>1, <2>2
<1>5. CASE row = Gone
  BY <1>1, <1>4, <1>5, PhaseFrame
<1>6. CASE row # Gone
  <2>1. row' \in Places /\ phase' = "kept"
    BY <1>1, <1>2, <1>3, <1>4, <1>6, PhaseCases, PlaceAssumption DEF phase
  <2>2. phase \in {"pending", "kept"}
    BY <1>2, <1>4, <1>6, PhaseCases DEF TypeOK
  <2> QED BY <1>1, <1>3, <2>1, <2>2 DEF Vault!Keep
<1> QED BY <1>5, <1>6

LEMMA DiscardMaps ==
    ASSUME IInv, Guard, NEW j \in Jobs, EraseFile(j)
    PROVE  Vault!Discard
<1>1. /\ TypeOK /\ OneWay /\ DeleteHasRow
      /\ job[j].kind = "delete" /\ job[j].pc = "loaded" /\ row' = row
      /\ copies' \in SUBSET copies
  BY DEF IInv, Guard, EraseFile, Goto
<1>2. row # Gone
  BY <1>1 DEF DeleteHasRow
<1>3. ~Deleting
  BY <1>1 DEF OneWay, Active, InFlight, Twins, Deleting
<1>4. phase \in {"pending", "kept"}
  BY <1>1, <1>2, <1>3, PhaseCases DEF TypeOK
<1>5. phase' = "discarding"
  BY <1>1, <1>2, ErasesFile DEF phase
<1> QED BY <1>1, <1>4, <1>5 DEF Vault!Discard

LEMMA ForgetMaps ==
    ASSUME IInv, Guard, NEW j \in Jobs, CommitDelete(j)
    PROVE  Vault!Forget
<1>1. TypeOK /\ DeleteHasRow /\ Deleting /\ row # Gone
  BY DEF IInv, Guard, CommitDelete, Deleting, DeleteHasRow
<1>2. phase = "discarding"
  BY <1>1, PhaseCases
<1>3. row' = Gone /\ copies' = copies /\ TypeOK'
  BY CommitsDelete DEF CommitDelete, IInv
<1>4. phase' = "gone"
  BY <1>3, PlaceAssumption DEF phase
<1> QED BY <1>2, <1>3, <1>4 DEF Vault!Forget

LEMMA VaultInit == Init => Vault!Init
<1> SUFFICES ASSUME Init PROVE Vault!Init
  OBVIOUS
<1>1. ~Deleting
  BY InitIInv, IdleJobType DEF Init, Deleting, Queued, IdleJob
<1> QED BY <1>1, InitIInv, PhaseCases, PlaceAssumption DEF IInv, Init, Vault!Init

\* A step within the guard is one of Vault's, or is not seen there.
LEMMA VaultStep ==
    ASSUME IInv, Guard, [Next]_vars, Guard'
    PROVE  Vault!Next \/ UNCHANGED <<phase, copies>>
<1>1. CASE UNCHANGED vars
  BY <1>1 DEF vars, phase, Deleting
<1>2. ASSUME NEW j \in Jobs, Step(j)
      PROVE  Vault!Next \/ UNCHANGED <<phase, copies>>
  BY <1>2, UnseenStep, GainStep, LoseStep, CommitMaps, DiscardMaps, ForgetMaps
     DEF Step, Vault!Next
<1>3. ASSUME NEW j \in Jobs, Enqueue(j) \/ JobTimeout(j) \/ ApiCrash(j)
      PROVE  UNCHANGED <<phase, copies>>
  BY <1>3, UnseenStep
<1>4. ASSUME RenameCamera \/ WorkerCrash PROVE UNCHANGED <<phase, copies>>
  BY <1>4, UnseenStep
<1> QED BY <1>1, <1>2, <1>3, <1>4 DEF Next

\* What has happened stays on record.
LEMMA MishapsGrow ==
    ASSUME [Next]_vars
    PROVE  mishaps \subseteq mishaps'
<1>1. ASSUME NEW j \in Jobs, Step(j) PROVE mishaps \subseteq mishaps'
  BY <1>1 DEF Step, LoadDownload, SkipDownload, WriteDownload, DownloadFails,
     DownloadAuthFails, CommitDownload, LoadArchive, LoadAutoArchive, LoadRestore, SkipMove,
     Fetch, Upload, UploadFailsLate, WriteRestored, Store, MoveFails, RemoveSource,
     RemoveSourceFails, CommitMove, EraseFile, DeleteFails, CommitDelete, Begin
<1>2. ASSUME NEW j \in Jobs, Enqueue(j) \/ JobTimeout(j) \/ ApiCrash(j)
      PROVE  mishaps \subseteq mishaps'
  BY <1>2 DEF Enqueue, EnqueueArchive, EnqueueAutoArchive, EnqueueRestore, RequestDelete,
     JobTimeout, ApiCrash, Begin
<1>3. ASSUME RenameCamera \/ WorkerCrash PROVE mishaps \subseteq mishaps'
  BY <1>3 DEF RenameCamera, WorkerCrash
<1> QED BY <1>1, <1>2, <1>3 DEF Next, vars

\* While no opposite jobs overlap and no delete is left half done, the clip
\* store implements ClipVault: once a clip is kept, some copy of its bytes
\* exists until an administrator discards it.
THEOREM ImplementsVault == GuardedSpec => VaultSpec
<1>1. Init => IInv /\ Guard
  BY InitIInv DEF Init, Guard
<1>2. IInv /\ Guard /\ [Next /\ Guard']_vars => IInv' /\ Guard'
  BY NextIInv DEF vars, Guard
<1>3. IInv /\ Guard /\ [Next /\ Guard']_vars => [Vault!Next]_(Vault!vars)
  BY <1>2, VaultStep DEF Vault!vars
<1> QED BY VaultInit, <1>1, <1>2, <1>3, PTL DEF GuardedSpec, VaultSpec, Vault!Spec

\* The same of every behaviour: a step that leaves no opposite jobs overlapped
\* and no delete half done on record is one that ClipVault allows.
THEOREM KeepsVaultPromise == Spec => VaultPromise
<1>1. IInv /\ [Next]_vars => IInv'
  BY NextIInv
<1>2. IInv /\ [Next]_vars => [Guard' => Vault!Next]_(Vault!vars)
  <2> SUFFICES ASSUME IInv, [Next]_vars, Guard' PROVE Vault!Next \/ UNCHANGED <<phase, copies>>
    BY DEF Vault!vars
  <2>1. Guard
    BY MishapsGrow DEF Guard
  <2> QED BY <2>1, VaultStep
<1> QED BY VaultInit, InitIInv, <1>1, <1>2, PTL DEF Spec, VaultPromise

-----------------------------------------------------------------------------
(* One canonical copy: while nothing is on record, a job is alone with the *)
(* clip from its load to its end.                                          *)

\* One slot changes that is in flight before or after.
LEMMA SoleFlight ==
    ASSUME IInv, CopyInv, NEW j \in Jobs, NEW r \in JobRecord, job' = [job EXCEPT ![j] = r],
           mishaps' = {} => mishaps = {} /\ \A k \in Jobs \ {j} : ~Active(k),
           mishaps' = {} => IF InFlight(r) THEN InHand(r)' ELSE Settled'
    PROVE  CopyInv'
<1>1. /\ job' \in [Jobs -> JobRecord]
      /\ job'[j] = r
      /\ \A k \in Jobs \ {j} : job'[k] = job[k]
  BY JobUpdate DEF IInv
<1>2. \A k \in Jobs \ {j} : InFlight(job'[k]) <=> Active(k)
  BY <1>1 DEF Active
<1> QED BY <1>1, <1>2 DEF CopyInv, Active

\* One slot changes that is in flight neither before nor after.
LEMMA AtRest ==
    ASSUME IInv, CopyInv, NEW j \in Jobs, NEW r \in JobRecord, job' = [job EXCEPT ![j] = r],
           ~Active(j), ~InFlight(r), UNCHANGED <<row, copies, mishaps>>
    PROVE  CopyInv'
<1>1. /\ job' \in [Jobs -> JobRecord]
      /\ job'[j] = r
      /\ \A k \in Jobs \ {j} : job'[k] = job[k]
  BY JobUpdate DEF IInv
<1>2. \A k \in Jobs : Active(k)' <=> Active(k)
  BY <1>1 DEF Active
<1>3. \A k \in Jobs : Active(k) => job'[k] = job[k]
  BY <1>1
<1>4. Settled' <=> Settled
  BY DEF Settled
<1>5. \A k \in Jobs : Active(k) => (InHand(job[k])' <=> InHand(job[k]))
  BY <1>3, <1>4 DEF InHand
<1> QED BY <1>2, <1>5, <1>4 DEF CopyInv

\* A job takes flight alone, or the overlap is on record.
LEMMA AloneTakesFlight ==
    ASSUME CopyInv, NEW j \in Jobs, NEW kind, ~Active(j),
           mishaps' = mishaps \cup Overlaps(j, kind), mishaps' = {}
    PROVE  mishaps = {} /\ (\A k \in Jobs : ~Active(k)) /\ Settled
<1>1. mishaps = {} /\ Overlaps(j, kind) = {}
  OBVIOUS
<1>2. \A k \in Jobs \ {j} : ~Active(k)
  BY <1>1 DEF Overlaps
<1> QED BY <1>1, <1>2 DEF CopyInv

\* A job in flight with nothing on record is the only one, and holds the clip.
LEMMA AloneInFlight ==
    ASSUME CopyInv, NEW j \in Jobs, Active(j), mishaps = {}
    PROVE  (\A k \in Jobs \ {j} : ~Active(k)) /\ InHand(job[j])
BY DEF CopyInv

LEMMA CopyEnqueue ==
    ASSUME IInv, CopyInv, NEW j \in Jobs, Enqueue(j)
    PROVE  CopyInv'
<1>1. job[j].pc = "idle" /\ ~Active(j)
  BY DEF Enqueue, EnqueueArchive, EnqueueAutoArchive, EnqueueRestore, RequestDelete, Active,
         InFlight
<1>2. ASSUME NEW kind \in WorkerKinds, NEW b \in Backends \cup {Local},
             kind = "archive" => b \in Backends,
             job' = [job EXCEPT ![j] = Queued(kind, b, 0)],
             UNCHANGED <<row, copies, mishaps>>
      PROVE  CopyInv'
  <2>1. Queued(kind, b, 0) \in JobRecord /\ ~InFlight(Queued(kind, b, 0))
    BY <1>2, QueuedType DEF MaxTries
  <2> QED BY <1>1, <1>2, <2>1, AtRest
<1>3. ASSUME NEW b \in Backends, EnqueueArchive(j, b) PROVE CopyInv'
  BY <1>2, <1>3 DEF EnqueueArchive, WorkerKinds, MoveKinds
<1>4. CASE EnqueueAutoArchive(j) \/ EnqueueRestore(j)
  BY <1>2, <1>4 DEF EnqueueAutoArchive, EnqueueRestore, WorkerKinds, MoveKinds
<1>5. CASE RequestDelete(j)
  <2>1. PICK r : r = [kind |-> "delete", backend |-> Local, pc |-> "loaded",
                      src |-> IF row = Pending THEN Nowhere ELSE row,
                      dst |-> Nowhere, tries |-> 0]
    OBVIOUS
  <2>2. r \in JobRecord
    BY <1>5, <2>1 DEF RequestDelete, IInv, TypeOK, JobRecord, Kinds, PCs
  <2>3. /\ job' = [job EXCEPT ![j] = r] /\ row # Gone
        /\ mishaps' = mishaps \cup Overlaps(j, "delete")
        /\ UNCHANGED <<row, copies, clipPath>>
    BY <1>5, <2>1 DEF RequestDelete
  <2>4. ASSUME mishaps' = {} PROVE mishaps = {} /\ (\A k \in Jobs : ~Active(k)) /\ InHand(r)'
    <3>1. mishaps = {} /\ (\A k \in Jobs : ~Active(k)) /\ Settled
      BY <1>1, <2>3, <2>4, AloneTakesFlight
    <3>2. Settled'
      BY <2>3, <3>1 DEF Settled
    <3> QED BY <2>1, <2>3, <3>1, <3>2 DEF InHand, MoveKinds
  <2>5. InFlight(r)
    BY <2>1 DEF InFlight
  <2> QED BY <2>2, <2>3, <2>4, <2>5, SoleFlight
<1> QED BY <1>3, <1>4, <1>5 DEF Enqueue

LEMMA CopyBegin ==
    ASSUME IInv, CopyInv, NEW j \in Jobs, NEW src \in Places \cup {Nowhere},
           NEW dst \in Places \cup {Nowhere}, NEW b \in Backends \cup {Local},
           job[j].kind \in WorkerKinds, Begin(j, src, dst, b), UNCHANGED <<row, copies>>,
           job[j].kind = "download" => row = Pending,
           job[j].kind \in MoveKinds => row = src /\ src \in Places
    PROVE  CopyInv'
<1>1. /\ job[j] \in JobRecord /\ job[j].pc = "queued" /\ ~Active(j)
      /\ job[j].tries + 1 \in 0..4
  BY DEF IInv, TypeOK, Begin, Shape, MaxTries, JobRecord, Active, InFlight
<1>2. PICK r : r = [job[j] EXCEPT !.pc = "loaded", !.src = src, !.dst = dst,
                                  !.backend = b, !.tries = job[j].tries + 1]
  OBVIOUS
<1>3. r \in JobRecord /\ r.kind = job[j].kind /\ r.pc = "loaded" /\ r.src = src /\ r.dst = dst
  BY <1>1, <1>2 DEF JobRecord, PCs
<1>4. /\ job' = [job EXCEPT ![j] = r]
      /\ mishaps' = mishaps \cup Overlaps(j, r.kind)
  BY <1>1, <1>2, <1>3 DEF Begin, IInv, TypeOK
<1>5. ASSUME mishaps' = {} PROVE mishaps = {} /\ (\A k \in Jobs : ~Active(k)) /\ InHand(r)'
  <2>1. mishaps = {} /\ (\A k \in Jobs : ~Active(k)) /\ Settled
    BY <1>1, <1>4, <1>5, AloneTakesFlight
  <2> QED BY <1>3, <2>1 DEF InHand, Settled, WorkerKinds, MoveKinds
<1>6. InFlight(r)
  BY <1>3 DEF InFlight
<1> QED BY <1>3, <1>4, <1>5, <1>6, SoleFlight

LEMMA CopyLoad ==
    ASSUME IInv, CopyInv, NEW j \in Jobs,
           \/ LoadDownload(j) \/ LoadArchive(j) \/ LoadRestore(j)
           \/ \E b \in Backends : LoadAutoArchive(j, b)
    PROVE  CopyInv'
<1>1. CASE LoadDownload(j)
  <2>1. <<Local, clipPath>> \in Places
    BY DEF IInv, TypeOK, LocalPlaces, Places
  <2> QED BY <1>1, <2>1, CopyBegin DEF LoadDownload, WorkerKinds, MoveKinds
<1>2. CASE LoadArchive(j)
  BY <1>2, CopyBegin DEF LoadArchive, Places, WorkerKinds, MoveKinds, IInv, Shape
<1>3. CASE LoadRestore(j)
  BY <1>3, CopyBegin DEF LoadRestore, Places, WorkerKinds, MoveKinds
<1>4. ASSUME NEW b \in Backends, LoadAutoArchive(j, b) PROVE CopyInv'
  BY <1>4, CopyBegin DEF LoadAutoArchive, Places, WorkerKinds, MoveKinds
<1> QED BY <1>1, <1>2, <1>3, <1>4

\* Job j stops: it was not in flight, or nothing had changed, or a mishap is
\* on record.
LEMMA CopyStop ==
    ASSUME IInv, CopyInv, NEW j \in Jobs,
           \/ SkipDownload(j) \/ DownloadFails(j) \/ DownloadAuthFails(j) \/ SkipMove(j)
           \/ UploadFailsLate(j) \/ MoveFails(j) \/ DeleteFails(j) \/ JobTimeout(j)
           \/ ApiCrash(j)
    PROVE  CopyInv'
<1>1. Shape(job[j]) /\ TypeOK
  BY DEF IInv
<1>2. /\ IdleJob \in JobRecord /\ ~InFlight(IdleJob)
      /\ Requeued(j) \in JobRecord /\ ~InFlight(Requeued(j))
  BY <1>1, RequeuedType, IdleJobType
<1>3. CASE SkipDownload(j) \/ SkipMove(j)
  BY <1>2, <1>3, AtRest DEF SkipDownload, SkipMove, Finish, Active, InFlight
<1>4. ASSUME NEW r \in JobRecord, ~InFlight(r), job' = [job EXCEPT ![j] = r], Active(j),
             mishaps' = {} => UNCHANGED <<row, copies, mishaps>> /\ job[j].pc # "cleaned",
             mishaps' = {} => job[j].pc # "stored"
      PROVE  CopyInv'
  <2>1. ASSUME mishaps' = {} PROVE mishaps = {} /\ (\A k \in Jobs \ {j} : ~Active(k)) /\ Settled'
    <3>1. mishaps = {} /\ (\A k \in Jobs \ {j} : ~Active(k)) /\ InHand(job[j])
      BY <1>4, <2>1, AloneInFlight
    <3>2. job[j].kind \in MoveKinds \cup {"download", "delete"}
      BY <1>1, <1>4 DEF TypeOK, JobRecord, Kinds, WorkerKinds, Shape, Active, InFlight
    <3>3. Settled
      BY <1>1, <1>4, <2>1, <3>1, <3>2, PlaceAssumption
         DEF InHand, Settled, Shape, Active, InFlight, MoveKinds, Places
    <3> QED BY <1>4, <2>1, <3>1, <3>3 DEF Settled
  <2> QED BY <1>4, <2>1, SoleFlight
<1>5. CASE DownloadFails(j) \/ DownloadAuthFails(j)
  BY <1>2, <1>4, <1>5 DEF DownloadFails, DownloadAuthFails, Finish, Active, InFlight
<1>6. CASE UploadFailsLate(j) \/ JobTimeout(j)
  BY <1>2, <1>4, <1>6 DEF UploadFailsLate, JobTimeout, Finish, Active, InFlight
<1>7. CASE MoveFails(j)
  BY <1>2, <1>4, <1>7 DEF MoveFails, Finish, Active, InFlight
<1>8. CASE DeleteFails(j) \/ ApiCrash(j)
  BY <1>1, <1>2, <1>4, <1>8 DEF DeleteFails, ApiCrash, Finish, Active, InFlight, Shape
<1> QED BY <1>3, <1>5, <1>6, <1>7, <1>8

\* Job j goes on, still holding the clip.
LEMMA CopyAdvances ==
    ASSUME IInv, CopyInv, NEW j \in Jobs, NEW r \in JobRecord, InFlight(r), Active(j),
           job' = [job EXCEPT ![j] = r],
           mishaps' = {} => mishaps = {} /\ (InHand(job[j]) => InHand(r)')
    PROVE  CopyInv'
<1>1. ASSUME mishaps' = {} PROVE mishaps = {} /\ (\A k \in Jobs \ {j} : ~Active(k)) /\ InHand(r)'
  BY <1>1, AloneInFlight
<1> QED BY <1>1, SoleFlight

LEMMA CopyAdvance ==
    ASSUME IInv, CopyInv, NEW j \in Jobs,
           \/ WriteDownload(j) \/ Fetch(j) \/ Upload(j) \/ WriteRestored(j)
           \/ RemoveSource(j) \/ RemoveSourceFails(j) \/ EraseFile(j)
    PROVE  CopyInv'
<1>1. job[j] \in JobRecord /\ Shape(job[j]) /\ TypeOK
  BY DEF IInv, TypeOK
<1>2. CASE WriteDownload(j)
  <2>1. PICK r : r = [job[j] EXCEPT !.pc = "stored"]
    OBVIOUS
  <2>2. /\ r \in JobRecord /\ r.pc = "stored" /\ r.kind = "download" /\ r.dst = job[j].dst
        /\ InFlight(r) /\ Active(j) /\ job[j].pc = "loaded" /\ job[j].kind = "download"
    BY <1>1, <1>2, <2>1 DEF JobRecord, PCs, WriteDownload, Goto, InFlight, Active
  <2>3. InHand(job[j]) => InHand(r)'
    BY <1>2, <2>2 DEF InHand, WriteDownload, MoveKinds
  <2> QED BY <1>1, <1>2, <2>1, <2>2, <2>3, CopyAdvances DEF WriteDownload, Goto, TypeOK
<1>3. CASE Fetch(j)
  <2>1. PICK r : r = [job[j] EXCEPT !.pc = "fetched"]
    OBVIOUS
  <2>2. /\ r \in JobRecord /\ r.pc = "fetched" /\ r.kind = job[j].kind /\ r.src = job[j].src
        /\ InFlight(r) /\ Active(j) /\ job[j].pc = "loaded" /\ job[j].kind \in MoveKinds
    BY <1>1, <1>3, <2>1 DEF JobRecord, PCs, Fetch, Goto, InFlight, Active
  <2>3. InHand(job[j]) => InHand(r)'
    BY <1>3, <2>2 DEF InHand, Fetch, MoveKinds
  <2> QED BY <1>1, <1>3, <2>1, <2>2, <2>3, CopyAdvances DEF Fetch, Goto, TypeOK
<1>4. ASSUME NEW p \in Places, Store(j, p), job[j].kind \in MoveKinds PROVE CopyInv'
  <2>1. PICK r : r = [job[j] EXCEPT !.pc = "stored", !.dst = p]
    OBVIOUS
  <2>2. /\ r \in JobRecord /\ r.pc = "stored" /\ r.kind = job[j].kind /\ r.src = job[j].src
        /\ r.dst = p /\ InFlight(r) /\ Active(j) /\ job[j].pc = "fetched"
    BY <1>1, <1>4, <2>1 DEF JobRecord, PCs, Store, InFlight, Active
  <2>3. InHand(job[j]) => InHand(r)'
    BY <1>4, <2>2 DEF InHand, Store, MoveKinds
  <2> QED BY <1>1, <1>4, <2>1, <2>2, <2>3, CopyAdvances DEF Store, TypeOK
<1>5. CASE Upload(j)
  <2>1. job[j].backend \in Backends
    BY <1>1, <1>5 DEF Upload, Store, Shape, InFlight
  <2>2. UploadTargets(job[j].backend) \subseteq Places
    BY <2>1 DEF UploadTargets, CloudPlaces, Places
  <2> QED BY <1>4, <1>5, <2>2 DEF Upload, MoveKinds
<1>6. CASE WriteRestored(j)
  <2>1. <<Local, clipPath>> \in Places
    BY <1>1 DEF TypeOK, LocalPlaces, Places
  <2> QED BY <1>4, <1>6, <2>1 DEF WriteRestored, MoveKinds
<1>7. CASE RemoveSource(j) \/ RemoveSourceFails(j)
  <2>1. PICK r : r = [job[j] EXCEPT !.pc = "cleaned"]
    OBVIOUS
  <2>2. /\ r \in JobRecord /\ r.pc = "cleaned" /\ r.kind = job[j].kind /\ r.src = job[j].src
        /\ r.dst = job[j].dst
        /\ InFlight(r) /\ Active(j) /\ job[j].pc = "stored" /\ job[j].kind \in MoveKinds
    BY <1>1, <1>7, <2>1
       DEF JobRecord, PCs, RemoveSource, RemoveSourceFails, Goto, InFlight, Active
  <2>3. job[j].src # job[j].dst
    BY <1>1, <2>2, PlacesDisjoint DEF Shape, InFlight, MoveKinds
  <2>4. RemoveSource(j) => (InHand(job[j]) => InHand(r)')
    BY <2>2, <2>3 DEF InHand, RemoveSource, MoveKinds
  <2>5. job' = [job EXCEPT ![j] = r]
    BY <1>1, <1>7, <2>1 DEF RemoveSource, RemoveSourceFails, Goto, TypeOK
  <2> QED BY <1>7, <2>2, <2>4, <2>5, CopyAdvances DEF RemoveSource, RemoveSourceFails
<1>8. CASE EraseFile(j)
  <2>1. PICK r : r = [job[j] EXCEPT !.pc = "cleaned"]
    OBVIOUS
  <2>2. /\ r \in JobRecord /\ r.pc = "cleaned" /\ r.kind = "delete" /\ r.src = job[j].src
        /\ InFlight(r) /\ Active(j) /\ job[j].pc = "loaded" /\ job[j].kind = "delete"
    BY <1>1, <1>8, <2>1 DEF JobRecord, PCs, EraseFile, Goto, InFlight, Active
  <2>3. InHand(job[j]) => InHand(r)'
    <3> SUFFICES ASSUME InHand(job[j]) PROVE InHand(r)'
      OBVIOUS
    <3>1. /\ row # Gone /\ job[j].src = (IF row = Pending THEN Nowhere ELSE row) /\ Settled
          /\ copies' = copies \ ({job[j].src} \cap LocalPlaces) /\ row' = row
      BY <1>8, <2>2 DEF InHand, EraseFile
    <3>2. copies' \cap LocalPlaces = {}
      BY <1>1, <3>1 DEF Settled, TypeOK
    <3> QED BY <2>2, <3>1, <3>2 DEF InHand, MoveKinds
  <2> QED BY <1>1, <1>8, <2>1, <2>2, <2>3, CopyAdvances DEF EraseFile, Goto, TypeOK
<1> QED BY <1>2, <1>3, <1>5, <1>6, <1>7, <1>8

LEMMA CopyCommit ==
    ASSUME IInv, CopyInv, NEW j \in Jobs, CommitDownload(j) \/ CommitMove(j) \/ CommitDelete(j)
    PROVE  CopyInv'
<1>1. /\ job[j] \in JobRecord /\ Shape(job[j]) /\ TypeOK /\ IdleJob \in JobRecord
      /\ ~InFlight(IdleJob)
  BY IdleJobType DEF IInv, TypeOK
<1>2. /\ job' = [job EXCEPT ![j] = IdleJob] /\ UNCHANGED <<copies, mishaps>> /\ Active(j)
      /\ (job[j].kind = "download" /\ job[j].pc = "stored") \/ job[j].pc = "cleaned"
  BY DEF CommitDownload, CommitMove, CommitDelete, Finish, Active, InFlight
<1>3. ASSUME mishaps' = {}
      PROVE  mishaps = {} /\ (\A k \in Jobs \ {j} : ~Active(k)) /\ Settled'
  <2>1. mishaps = {} /\ (\A k \in Jobs \ {j} : ~Active(k)) /\ InHand(job[j])
    BY <1>2, <1>3, AloneInFlight
  <2>2. CASE CommitDownload(j) \/ CommitMove(j)
    <3>1. job[j].dst \in Places /\ row # Gone /\ copies = {job[j].dst}
      BY <1>1, <2>1, <2>2, PlaceAssumption
         DEF CommitDownload, CommitMove, InHand, Shape, InFlight, MoveKinds, Places
    <3>2. row' = job[j].dst
      BY <2>2, <3>1 DEF CommitDownload, CommitMove
    <3> QED BY <1>2, <2>1, <3>1, <3>2, PlaceAssumption DEF Settled
  <2>3. CASE CommitDelete(j)
    BY <1>2, <2>1, <2>3, PlaceAssumption DEF CommitDelete, InHand, Settled, MoveKinds
  <2> QED BY <2>1, <2>2, <2>3
<1> QED BY <1>1, <1>2, <1>3, SoleFlight

LEMMA CopyInit == Init => CopyInv
<1> SUFFICES ASSUME Init PROVE CopyInv
  OBVIOUS
<1>1. PICK d \in Jobs : job = [j \in Jobs |-> IF j = d THEN Queued("download", Local, 0)
                                             ELSE IdleJob]
  BY DEF Init
<1>2. \A j \in Jobs : job[j].pc \in {"queued", "idle"}
  BY <1>1 DEF Queued, IdleJob
<1> QED BY <1>2, PlaceAssumption DEF CopyInv, Settled, Init, Active, InFlight

LEMMA CopyNext == IInv /\ CopyInv /\ [Next]_vars => CopyInv'
<1> SUFFICES ASSUME IInv, CopyInv, [Next]_vars PROVE CopyInv'
  OBVIOUS
<1>1. ASSUME UNCHANGED <<row, copies, job, mishaps>> PROVE CopyInv'
  BY <1>1 DEF CopyInv, InHand, Settled, Active
<1>2. ASSUME NEW j \in Jobs, Step(j) PROVE CopyInv'
  BY <1>2, CopyLoad, CopyStop, CopyAdvance, CopyCommit DEF Step
<1>3. ASSUME NEW j \in Jobs, JobTimeout(j) \/ ApiCrash(j) PROVE CopyInv'
  BY <1>3, CopyStop
<1>4. CASE WorkerCrash
  BY <1>4 DEF WorkerCrash, CopyInv
<1> QED BY <1>1, <1>2, <1>3, <1>4, CopyEnqueue DEF Next, RenameCamera, vars

\* With nothing on record, one job at most holds the clip, and what is stored
\* is what its phase says.
THEOREM CopyInductive == Spec => [](IInv /\ CopyInv)
BY InitIInv, NextIInv, CopyInit, CopyNext, PTL DEF Spec

\* Downloads, archives and restores that run undisturbed leave the clip's bytes
\* in one place, and storage_path names it.
THEOREM OneCanonicalCopy == Spec => []CanonicalCopy
<1>1. CopyInv => CanonicalCopy
  BY DEF CopyInv, CanonicalCopy, Quiescent, Settled, Active, InFlight
<1> QED BY <1>1, CopyInductive, PTL

\* An undisturbed delete leaves no file behind, whatever renames the clip saw:
\* it unlinks the path that the row persisted.
THEOREM DeleteLeavesNoFile == Spec => []DeletedLeavesNoFile
<1>1. CopyInv => DeletedLeavesNoFile
  BY DEF CopyInv, DeletedLeavesNoFile, Quiescent, Settled, Active, InFlight
<1> QED BY <1>1, CopyInductive, PTL

-----------------------------------------------------------------------------
(* Refinement of ClipLifecycle: only a clip's one download turns its row   *)
(* from pending to downloaded.                                             *)

\* No step adds a download: the sync has enqueued the only one.
NoNewDownload == \A k \in Jobs : job'[k].kind = "download" => job[k].kind = "download"

\* Job j is replaced by the record r, which is no other kind of job, and takes
\* flight only as the row allows; the row does not become pending.
LEMMA LifeReplaced ==
    ASSUME IInv, LifeInv, NEW j \in Jobs, NEW r \in JobRecord, job' = [job EXCEPT ![j] = r],
           row' = row,
           r.kind = "download" => job[j].kind = "download",
           InFlight(r) =>
             /\ r.kind = "download" => row \in {Pending, Gone}
             /\ r.kind \in MoveKinds => row # Pending
    PROVE  LifeInv' /\ NoNewDownload
<1>1. /\ job'[j] = r
      /\ \A k \in Jobs \ {j} : job'[k] = job[k]
  BY JobUpdate DEF IInv
<1> QED BY <1>1 DEF LifeInv, NoNewDownload, Active

\* What keeps the row and the kinds of jobs, and lets none take flight.
LEMMA LifeKept ==
    ASSUME LifeInv, row' = row,
           \A k \in Jobs : \/ job'[k].kind = job[k].kind /\ (InFlight(job'[k]) => InFlight(job[k]))
                           \/ job'[k].kind = "none"
    PROVE  LifeInv' /\ NoNewDownload
BY DEF LifeInv, NoNewDownload, Active, MoveKinds

LEMMA RequeuedKind ==
    ASSUME NEW j \in Jobs
    PROVE  Requeued(j).kind \in {job[j].kind, "none"}
BY DEF Requeued, Queued, IdleJob

-----------------------------------------------------------------------------
LEMMA LifeInvEnqueue ==
    ASSUME IInv, LifeInv, NEW j \in Jobs, Enqueue(j)
    PROVE  LifeInv' /\ NoNewDownload
<1>1. ASSUME NEW kind \in MoveKinds, NEW b \in Backends \cup {Local},
             kind = "archive" => b \in Backends,
             row' = row, job' = [job EXCEPT ![j] = Queued(kind, b, 0)]
      PROVE  LifeInv' /\ NoNewDownload
  <2>1. kind \in WorkerKinds /\ kind # "download" /\ 0 < MaxTries(kind)
    BY DEF WorkerKinds, MoveKinds, MaxTries
  <2>2. Queued(kind, b, 0) \in JobRecord /\ ~InFlight(Queued(kind, b, 0))
    BY <1>1, <2>1, QueuedType
  <2>3. Queued(kind, b, 0).kind # "download"
    BY <2>1 DEF Queued
  <2> QED BY <1>1, <2>2, <2>3, LifeReplaced
<1>2. ASSUME NEW b \in Backends, EnqueueArchive(j, b) PROVE LifeInv' /\ NoNewDownload
  BY <1>1, <1>2 DEF EnqueueArchive, MoveKinds
<1>3. CASE EnqueueAutoArchive(j) \/ EnqueueRestore(j)
  BY <1>1, <1>3 DEF EnqueueAutoArchive, EnqueueRestore, MoveKinds
<1>4. CASE RequestDelete(j)
  <2> DEFINE src == IF row = Pending THEN Nowhere ELSE row
             r == [kind |-> "delete", backend |-> Local, pc |-> "loaded",
                   src |-> src, dst |-> Nowhere, tries |-> 0]
  <2>1. job' = [job EXCEPT ![j] = r] /\ row' = row /\ row # Gone
    BY <1>4 DEF RequestDelete
  <2>2. src \in Places \cup {Nowhere}
    BY <2>1 DEF IInv, TypeOK
  <2>3. r \in JobRecord /\ r.kind = "delete"
    BY <2>2 DEF JobRecord, Kinds, PCs
  <2> HIDE DEF r
  <2> QED BY <2>1, <2>3, LifeReplaced DEF MoveKinds
<1> QED BY <1>2, <1>3, <1>4 DEF Enqueue

LEMMA LifeInvBegin ==
    ASSUME IInv, LifeInv, NEW j \in Jobs, NEW src, NEW dst, NEW b, Begin(j, src, dst, b),
           row' = row,
           job[j].kind = "download" => row = Pending,
           job[j].kind \in MoveKinds => row # Pending
    PROVE  LifeInv' /\ NoNewDownload
<1>1. job \in [Jobs -> JobRecord]
  BY DEF IInv, TypeOK
<1>2. /\ job'[j].kind = job[j].kind
      /\ \A k \in Jobs \ {j} : job'[k] = job[k]
  BY <1>1 DEF Begin, JobRecord
<1> QED BY <1>2 DEF LifeInv, NoNewDownload, Active

LEMMA LifeInvLoad ==
    ASSUME IInv, LifeInv, NEW j \in Jobs,
           \/ LoadDownload(j) \/ LoadArchive(j) \/ LoadRestore(j)
           \/ \E b \in Backends : LoadAutoArchive(j, b)
    PROVE  LifeInv' /\ NoNewDownload
<1>1. CASE LoadDownload(j)
  BY <1>1, LifeInvBegin DEF LoadDownload, MoveKinds
<1>2. row \in Places => row # Pending
  BY PlaceAssumption
<1>3. CASE LoadArchive(j) \/ LoadRestore(j)
  BY <1>2, <1>3, LifeInvBegin DEF LoadArchive, LoadRestore, Places
<1>4. ASSUME NEW b \in Backends, LoadAutoArchive(j, b) PROVE LifeInv' /\ NoNewDownload
  BY <1>2, <1>4, LifeInvBegin DEF LoadAutoArchive, Places
<1> QED BY <1>1, <1>3, <1>4

LEMMA LifeInvGoes ==
    ASSUME IInv, LifeInv, NEW j \in Jobs, row' = row,
           \/ \E from, to \in PCs \ {"idle", "queued"} : Goto(j, from, to)
           \/ \E p : Store(j, p)
    PROVE  LifeInv' /\ NoNewDownload
<1>1. job \in [Jobs -> JobRecord]
  BY DEF IInv, TypeOK
<1>2. /\ job'[j].kind = job[j].kind /\ InFlight(job[j])
      /\ \A k \in Jobs \ {j} : job'[k] = job[k]
  BY <1>1 DEF Goto, Store, InFlight, JobRecord
<1> QED BY <1>2, LifeKept

LEMMA LifeInvStop ==
    ASSUME IInv, LifeInv, NEW j \in Jobs,
           \/ SkipDownload(j) \/ DownloadFails(j) \/ DownloadAuthFails(j) \/ SkipMove(j)
           \/ UploadFailsLate(j) \/ MoveFails(j) \/ DeleteFails(j)
           \/ JobTimeout(j) \/ ApiCrash(j)
    PROVE  LifeInv' /\ NoNewDownload
<1>1. \/ job' = [job EXCEPT ![j] = IdleJob]
      \/ job' = [job EXCEPT ![j] = Requeued(j)]
  BY DEF SkipDownload, DownloadFails, DownloadAuthFails, SkipMove, UploadFailsLate, MoveFails,
         DeleteFails, JobTimeout, ApiCrash, Finish
<1>2. row' = row
  BY DEF SkipDownload, DownloadFails, DownloadAuthFails, SkipMove, UploadFailsLate, MoveFails,
         DeleteFails, JobTimeout, ApiCrash
<1>3. /\ IdleJob \in JobRecord /\ ~InFlight(IdleJob) /\ IdleJob.kind = "none"
      /\ Requeued(j) \in JobRecord /\ ~InFlight(Requeued(j))
      /\ Requeued(j).kind = "download" => job[j].kind = "download"
  BY IdleJobType, RequeuedType, RequeuedKind DEF IInv, IdleJob
<1> QED BY <1>1, <1>2, <1>3, LifeReplaced

LEMMA LifeInvAdvance ==
    ASSUME IInv, LifeInv, NEW j \in Jobs,
           \/ WriteDownload(j) \/ Fetch(j) \/ Upload(j) \/ WriteRestored(j)
           \/ RemoveSource(j) \/ RemoveSourceFails(j) \/ EraseFile(j)
    PROVE  LifeInv' /\ NoNewDownload
<1>1. CASE WriteDownload(j) \/ Fetch(j) \/ RemoveSource(j) \/ RemoveSourceFails(j) \/ EraseFile(j)
  BY <1>1, LifeInvGoes DEF WriteDownload, Fetch, RemoveSource, RemoveSourceFails, EraseFile, PCs
<1>2. CASE Upload(j) \/ WriteRestored(j)
  <2>1. \E p : Store(j, p)
    BY <1>2 DEF Upload, WriteRestored
  <2> QED BY <2>1, LifeInvGoes DEF Store
<1> QED BY <1>1, <1>2

\* A row is committed only by the job that finishes with it: Gone, or a place.
LEMMA LifeInvCommit ==
    ASSUME IInv, LifeInv, NEW j \in Jobs, CommitDownload(j) \/ CommitMove(j) \/ CommitDelete(j)
    PROVE  LifeInv' /\ NoNewDownload
<1>1. /\ job'[j] = IdleJob
      /\ \A k \in Jobs \ {j} : job'[k] = job[k]
  BY JobUpdate, IdleJobType DEF IInv, CommitDownload, CommitMove, CommitDelete, Finish
<1>2. IdleJob.kind = "none"
  BY DEF IdleJob
<1>3. Active(j) /\ (~CommitDelete(j) => job[j].dst \in Places)
  BY DEF IInv, Shape, CommitDownload, CommitMove, CommitDelete, Active, InFlight, MoveKinds, Places
<1>4. row' # Pending
  BY <1>3, PlaceAssumption DEF CommitDownload, CommitMove, CommitDelete, LifeInv, WorkerKinds
<1>5. ASSUME NEW k \in Jobs, k # j, Active(k), job[k].kind = "download"
      PROVE  row' = Gone
  <2>1. row \in {Pending, Gone} /\ job[j].kind # "download"
    BY <1>5 DEF LifeInv
  <2>2. CASE CommitMove(j)
    BY <1>3, <2>1, <2>2 DEF CommitMove, LifeInv
  <2>3. CASE CommitDelete(j)
    BY <2>3 DEF CommitDelete
  <2> QED BY <2>1, <2>2, <2>3 DEF CommitDownload
<1> QED BY <1>1, <1>2, <1>4, <1>5 DEF LifeInv, NoNewDownload, Active, MoveKinds

LEMMA LifeInvCrash ==
    ASSUME IInv, LifeInv, WorkerCrash
    PROVE  LifeInv' /\ NoNewDownload
<1>1. row' = row
  BY DEF WorkerCrash
<1>2. ASSUME NEW k \in Jobs
      PROVE  \/ job'[k].kind = job[k].kind /\ (InFlight(job'[k]) => InFlight(job[k]))
             \/ job'[k].kind = "none"
  <2>1. job'[k] = job[k] \/ job'[k] = Requeued(k)
    BY DEF WorkerCrash
  <2>2. ~InFlight(Requeued(k))
    BY RequeuedType DEF IInv
  <2> QED BY <2>1, <2>2, RequeuedKind
<1> QED BY <1>1, <1>2, LifeKept

LEMMA LifeInvNext == IInv /\ LifeInv /\ [Next]_vars => LifeInv' /\ NoNewDownload
<1> SUFFICES ASSUME IInv, LifeInv, [Next]_vars PROVE LifeInv' /\ NoNewDownload
  OBVIOUS
<1>1. ASSUME UNCHANGED <<row, job>> PROVE LifeInv' /\ NoNewDownload
  BY <1>1 DEF LifeInv, NoNewDownload, Active
<1>2. ASSUME NEW j \in Jobs, Step(j) PROVE LifeInv' /\ NoNewDownload
  BY <1>2, LifeInvLoad, LifeInvStop, LifeInvAdvance, LifeInvCommit DEF Step
<1>3. ASSUME NEW j \in Jobs, JobTimeout(j) \/ ApiCrash(j) PROVE LifeInv' /\ NoNewDownload
  BY <1>3, LifeInvStop
<1>4. CASE WorkerCrash
  BY <1>4, LifeInvCrash
<1> QED BY <1>1, <1>2, <1>3, <1>4, LifeInvEnqueue DEF Next, RenameCamera, vars

LEMMA LifeInvInit == Init => LifeInv
<1> SUFFICES ASSUME Init PROVE LifeInv
  OBVIOUS
<1>1. PICK d \in Jobs : job = [j \in Jobs |-> IF j = d THEN Queued("download", Local, 0)
                                             ELSE IdleJob]
  BY DEF Init
<1>2. \A j \in Jobs : job[j].pc \in {"queued", "idle"} /\ (job[j].kind = "download" => j = d)
  BY <1>1 DEF Queued, IdleJob
<1> QED BY <1>2 DEF LifeInv, Active, InFlight

\* One job downloads a clip, on a row that is pending or gone by then, and no
\* move is under way on a pending row.
THEOREM DownloadAlone == Spec => [](IInv /\ LifeInv)
BY InitIInv, NextIInv, LifeInvInit, LifeInvNext, PTL DEF Spec

-----------------------------------------------------------------------------
\* What a step does to the row, if anything.
LEMMA RowStep ==
    ASSUME [Next]_vars
    PROVE  \/ row' = row
           \/ \E j \in Jobs : CommitDownload(j) \/ CommitMove(j) \/ CommitDelete(j)
<1>1. ASSUME NEW j \in Jobs, Enqueue(j) \/ JobTimeout(j) \/ ApiCrash(j) PROVE row' = row
  BY <1>1 DEF Enqueue, EnqueueArchive, EnqueueAutoArchive, EnqueueRestore, RequestDelete, JobTimeout, ApiCrash
<1>2. ASSUME NEW j \in Jobs, Step(j)
      PROVE  row' = row \/ CommitDownload(j) \/ CommitMove(j) \/ CommitDelete(j)
  BY <1>2 DEF Step, LoadDownload, SkipDownload, WriteDownload, DownloadFails, DownloadAuthFails,
              LoadArchive, LoadAutoArchive, LoadRestore, SkipMove, Fetch, Upload, Store,
              UploadFailsLate, WriteRestored, MoveFails, RemoveSource, RemoveSourceFails,
              EraseFile, DeleteFails
<1> QED BY <1>1, <1>2 DEF Next, RenameCamera, WorkerCrash, vars

\* As long as the row says the same, nothing happens or the download ends.
LEMMA LifeSameRow ==
    ASSUME NoNewDownload, LifeRow' = LifeRow
    PROVE  UNCHANGED Life!vars \/ Life!Next
<1>1. LifeDownload' = LifeDownload \/ (LifeDownload = "due" /\ LifeDownload' = "over")
  BY DEF NoNewDownload, LifeDownload
<1> QED BY <1>1 DEF Life!vars, Life!Next, Life!End

LEMMA LifeRowIs ==
    ASSUME TypeOK
    PROVE  /\ row = Pending => LifeRow = "pending"
           /\ row \in Places => LifeRow = "downloaded"
           /\ row = Gone => LifeRow = "gone"
BY PlaceAssumption DEF LifeRow

LEMMA StoreLifeStep ==
    ASSUME IInv, IInv', LifeInv, [Next]_vars
    PROVE  UNCHANGED Life!vars \/ Life!Next
<1>1. NoNewDownload
  BY LifeInvNext
<1>2. CASE row' = row
  BY <1>1, <1>2, LifeSameRow DEF LifeRow
<1>3. /\ row = Pending => LifeRow = "pending"
      /\ row \in Places => LifeRow = "downloaded"
      /\ row = Gone => LifeRow = "gone"
  BY LifeRowIs DEF IInv
<1>4. /\ row' \in Places => LifeRow' = "downloaded"
      /\ row' = Gone => LifeRow' = "gone"
  <2>1. TypeOK'
    BY DEF IInv
  <2> QED BY <2>1, PlaceAssumption DEF LifeRow
<1>5. row \in Places \cup {Gone, Pending}
  BY DEF IInv, TypeOK
<1>6. ASSUME NEW j \in Jobs, CommitDownload(j), row' # row
      PROVE  Life!Next
  <2>1. Active(j) /\ job[j].kind = "download" /\ job[j].dst \in Places
    BY <1>6 DEF CommitDownload, Active, InFlight, IInv, Shape, Places
  <2>2. row = Pending /\ row' \in Places
    BY <1>6, <2>1 DEF CommitDownload, LifeInv
  <2>3. LifeDownload = "due" /\ LifeDownload' \in {"due", "over"}
    BY <2>1 DEF LifeDownload
  <2> QED BY <1>3, <1>4, <2>2, <2>3 DEF Life!Next, Life!Obtain
<1>7. ASSUME NEW j \in Jobs, CommitMove(j), row' # row
      PROVE  UNCHANGED Life!vars \/ Life!Next
  <2>1. Active(j) /\ job[j].kind \in MoveKinds /\ job[j].dst \in Places
    BY <1>7 DEF CommitMove, Active, InFlight, IInv, Shape, Places, MoveKinds
  <2>2. row \in Places /\ row' \in Places
    BY <1>5, <1>7, <2>1 DEF CommitMove, LifeInv
  <2> QED BY <1>1, <1>3, <1>4, <2>2, LifeSameRow
<1>8. ASSUME NEW j \in Jobs, CommitDelete(j), row' # row
      PROVE  Life!Next
  <2>1. row \in Places \cup {Pending} /\ row' = Gone
    BY <1>5, <1>8 DEF CommitDelete
  <2>2. /\ job'[j] = IdleJob /\ job[j].kind = "delete"
        /\ \A k \in Jobs \ {j} : job'[k] = job[k]
    BY <1>8, JobUpdate, IdleJobType DEF IInv, CommitDelete, Finish
  <2>3. LifeDownload' = LifeDownload
    BY <2>2 DEF LifeDownload, IdleJob
  <2> QED BY <1>3, <1>4, <2>1, <2>3 DEF Life!Next, Life!Delete
<1> QED BY <1>2, <1>6, <1>7, <1>8, RowStep

LEMMA StoreLifeInit == Init => Life!HandedOver
<1> SUFFICES ASSUME Init PROVE Life!HandedOver
  OBVIOUS
<1>1. PICK d \in Jobs : job = [j \in Jobs |-> IF j = d THEN Queued("download", Local, 0)
                                             ELSE IdleJob]
  BY DEF Init
<1>2. job[d].kind = "download"
  BY <1>1 DEF Queued
<1>3. LifeDownload = "due"
  BY <1>2 DEF LifeDownload
<1>4. LifeRow = "pending"
  BY LifeRowIs, InitIInv DEF IInv, Init
<1> QED BY <1>3, <1>4 DEF Life!HandedOver

\* From where the sync hands it over, the clip's life goes on as ClipLifecycle
\* has it: of any number of downloads' retries, moves, deletes, failures and
\* crashes, only the one download makes the pending row a downloaded one, and
\* nothing brings back a deleted one (download_clip, archive.py, _delete_one).
THEOREM StoreImplementsLifecycle == Spec => StoreKeepsLifecycle
<1>1. IInv /\ IInv' /\ LifeInv /\ [Next]_vars => [Life!Next]_(Life!vars)
  BY StoreLifeStep
<1> QED BY <1>1, StoreLifeInit, DownloadAlone, PTL DEF Spec, StoreKeepsLifecycle, Life!Continued

-----------------------------------------------------------------------------
(* Tries run out: what a job has before it, phase by phase.                *)

LEMMA LeftIs ==
    ASSUME NEW r \in JobRecord
    PROVE  /\ r.pc = "idle" => Left(r) = 0
           /\ r.pc = "queued" => Left(r) = 30 - 6 * r.tries
           /\ r.pc = "cleaned" => Left(r) = 31 - 6 * r.tries
           /\ r.pc = "stored" => Left(r) = 32 - 6 * r.tries
           /\ r.pc = "fetched" => Left(r) = 33 - 6 * r.tries
           /\ r.pc = "loaded" => Left(r) = 34 - 6 * r.tries
           /\ r.tries \in 0..4 /\ r.pc \in PCs
<1>1. r.tries \in 0..4 /\ r.pc \in PCs
  BY DEF JobRecord
<1> QED BY <1>1 DEF Left

\* Whatever job j becomes: over, or back in the queue after a try.
LEMMA LeftOver ==
    ASSUME NEW r \in JobRecord, r.pc # "idle"
    PROVE  Left(IdleJob) < Left(r)
<1>1. Left(IdleJob) = 0
  BY DEF Left, IdleJob
<1>2. 0 < Left(r)
  BY LeftIs DEF PCs
<1> QED BY <1>1, <1>2

LEMMA LeftRequeued ==
    ASSUME IInv, NEW j \in Jobs, Active(j)
    PROVE  Left(Requeued(j)) < Left(job[j])
<1>1. job[j] \in JobRecord /\ InFlight(job[j])
  BY DEF IInv, TypeOK, Active
<1>2. CASE Requeued(j) = IdleJob
  BY <1>1, <1>2, LeftOver DEF InFlight
<1>3. CASE Requeued(j) # IdleJob
  <2>1. Requeued(j).pc = "queued" /\ Requeued(j).tries = job[j].tries
    BY <1>3 DEF Requeued, Queued
  <2>2. Requeued(j) \in JobRecord
    BY RequeuedType DEF IInv
  <2>3. Left(Requeued(j)) = 30 - 6 * job[j].tries
    BY <2>1, <2>2, LeftIs
  <2> QED BY <1>1, <2>3, LeftIs DEF InFlight, PCs
<1> QED BY <1>2, <1>3

\* Job j, and no other, changes, and has less before it then.
LessLeft(j) ==
    /\ \A k \in Jobs \ {j} : job'[k] = job[k]
    /\ job'[j] = job[j] \/ Left(job'[j]) < Left(job[j])

LEMMA GoesOnLess ==
    ASSUME IInv, NEW j \in Jobs, NEW from \in PCs, NEW to \in PCs,
           \/ from = "loaded" /\ to \in {"fetched", "stored", "cleaned"}
           \/ from = "fetched" /\ to = "stored"
           \/ from = "stored" /\ to = "cleaned",
           job[j].pc = from,
           \/ job' = [job EXCEPT ![j].pc = to]
           \/ \E p \in Places : job' = [job EXCEPT ![j].pc = to, ![j].dst = p]
    PROVE  LessLeft(j)
<1>1. job \in [Jobs -> JobRecord]
  BY DEF IInv, TypeOK
<1>2. /\ \A k \in Jobs \ {j} : job'[k] = job[k]
      /\ job'[j] \in JobRecord /\ job'[j].pc = to /\ job'[j].tries = job[j].tries
  BY <1>1 DEF JobRecord
<1>3. Left(job'[j]) < Left(job[j])
  BY <1>1, <1>2, LeftIs
<1> QED BY <1>2, <1>3 DEF LessLeft

LEMMA BeginsLess ==
    ASSUME IInv, NEW j \in Jobs, NEW src, NEW dst, NEW b, Begin(j, src, dst, b)
    PROVE  LessLeft(j)
<1>1. job \in [Jobs -> JobRecord] /\ Shape(job[j])
  BY DEF IInv, TypeOK
<1>2. job[j].pc = "queued" /\ job[j].tries \in 0..4
  BY <1>1 DEF Begin, JobRecord
<1>3. /\ \A k \in Jobs \ {j} : job'[k] = job[k]
      /\ job'[j].pc = "loaded" /\ job'[j].tries = job[j].tries + 1
  BY <1>1 DEF Begin, JobRecord
<1>4. Left(job[j]) = 30 - 6 * job[j].tries
  BY <1>1, <1>2, LeftIs
<1>5. Left(job'[j]) = 6 * (5 - (job[j].tries + 1)) + 4
  BY <1>3 DEF Left
<1>6. Left(job'[j]) < Left(job[j])
  BY <1>2, <1>4, <1>5
<1> QED BY <1>3, <1>6 DEF LessLeft

LEMMA StopsLess ==
    ASSUME IInv, NEW j \in Jobs, job[j].pc # "idle",
           \/ Finish(j)
           \/ Active(j) /\ job' = [job EXCEPT ![j] = Requeued(j)]
    PROVE  LessLeft(j)
<1>1. job \in [Jobs -> JobRecord] /\ job[j] \in JobRecord
  BY DEF IInv, TypeOK
<1>2. CASE Finish(j)
  BY <1>1, <1>2, LeftOver DEF Finish, LessLeft
<1>3. CASE Active(j) /\ job' = [job EXCEPT ![j] = Requeued(j)]
  BY <1>1, <1>3, LeftRequeued DEF LessLeft
<1> QED BY <1>2, <1>3

LEMMA StepLess ==
    ASSUME IInv, NEW j \in Jobs, Step(j) \/ JobTimeout(j) \/ ApiCrash(j)
    PROVE  LessLeft(j)
<1>1. CASE LoadDownload(j) \/ LoadArchive(j) \/ (\E b \in Backends : LoadAutoArchive(j, b)) \/ LoadRestore(j)
  BY <1>1, BeginsLess DEF LoadDownload, LoadArchive, LoadAutoArchive, LoadRestore
<1>2. CASE \/ SkipDownload(j) \/ SkipMove(j) \/ MoveFails(j) \/ DeleteFails(j)
           \/ DownloadAuthFails(j) \/ UploadFailsLate(j)
           \/ CommitDownload(j) \/ CommitMove(j) \/ CommitDelete(j)
  BY <1>2, StopsLess DEF SkipDownload, SkipMove, MoveFails, DeleteFails, DownloadAuthFails,
                         UploadFailsLate, CommitDownload, CommitMove, CommitDelete
<1>3. CASE JobTimeout(j) \/ ApiCrash(j)
  BY <1>3, StopsLess DEF JobTimeout, ApiCrash, Active, InFlight
<1>4. CASE DownloadFails(j)
  BY <1>4, StopsLess DEF DownloadFails, Active, InFlight
<1>5. CASE WriteDownload(j) \/ Fetch(j) \/ RemoveSource(j) \/ RemoveSourceFails(j) \/ EraseFile(j)
  BY <1>5, GoesOnLess DEF WriteDownload, Fetch, RemoveSource, RemoveSourceFails, EraseFile, Goto, PCs
<1>6. CASE Upload(j) \/ WriteRestored(j)
  <2>1. PICK p \in Places : Store(j, p)
    <3>1. <<Local, clipPath>> \in Places
      BY DEF IInv, TypeOK, LocalPlaces, Places
    <3>2. Shape(job[j]) /\ TypeOK
      BY DEF IInv
    <3>3. CASE Upload(j)
      <4>1. job[j].backend \in Backends
        BY <3>2, <3>3 DEF Upload, Store, Shape, InFlight
      <4> QED BY <3>3, <4>1 DEF Upload, UploadTargets, CloudPlaces, Places
    <3> QED BY <1>6, <3>1, <3>3 DEF WriteRestored
  <2> QED BY <2>1, GoesOnLess DEF Store, PCs
<1> QED BY <1>1, <1>2, <1>3, <1>4, <1>5, <1>6 DEF Step

\* Whatever happens to a job, a failure, a timeout, a crash and the re-run after
\* it included, leaves it with less before it: no retry (_next_retry) and no
\* re-run gives back a try, so that no job runs for ever.
THEOREM NothingRunsForEver == Spec => TriesRunOut
<1> DEFINE Lessened == \A j \in Jobs : job[j].pc # "idle" =>
                          job'[j] = job[j] \/ Left(job'[j]) < Left(job[j])
<1>1. IInv /\ [Next]_vars => [Lessened]_vars
  <2> SUFFICES ASSUME IInv, Next PROVE Lessened
    OBVIOUS
  <2>1. ASSUME NEW j \in Jobs, Enqueue(j) PROVE Lessened
    <3>1. job \in [Jobs -> JobRecord] /\ job[j].pc = "idle"
      BY <2>1 DEF IInv, TypeOK, Enqueue, EnqueueArchive, EnqueueAutoArchive, EnqueueRestore, RequestDelete
    <3>2. \E r : job' = [job EXCEPT ![j] = r]
      BY <2>1 DEF Enqueue, EnqueueArchive, EnqueueAutoArchive, EnqueueRestore, RequestDelete
    <3> QED BY <3>1, <3>2
  <2>2. ASSUME NEW j \in Jobs, Step(j) \/ JobTimeout(j) \/ ApiCrash(j) PROVE Lessened
    BY <2>2, StepLess DEF LessLeft
  <2>3. CASE RenameCamera
    BY <2>3 DEF RenameCamera
  <2>4. CASE WorkerCrash
    <3>1. ASSUME NEW j \in Jobs PROVE job'[j] = job[j] \/ Left(job'[j]) < Left(job[j])
      BY <2>4, LeftRequeued DEF WorkerCrash
    <3> QED BY <3>1
  <2> QED BY <2>1, <2>2, <2>3, <2>4 DEF Next
<1> HIDE DEF Lessened
<1>2. Spec => [][Lessened]_vars
  BY <1>1, Inductive, PTL DEF Spec
<1> QED BY <1>2 DEF TriesRunOut, Lessened
===============================================================================
