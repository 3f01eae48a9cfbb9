----------------------------- MODULE FaceLibrary -----------------------------
(***************************************************************************)
(* Enrolled people: their face samples (rows, and one image file each),    *)
(* their profile image, and the matching of a face with the samples.       *)
(* Handlers read rows, work for seconds on a clip, write or remove files   *)
(* and commit last; they do not know of each other, and the storage        *)
(* directory may change meanwhile.                                         *)
(***************************************************************************)
EXTENDS Naturals, FiniteSets

CONSTANTS
    Persons,
    Dirs,          \* storage directories
    Enrolments,    \* slots for requests under way
    MaxFace,       \* faces are points on a line, 0 .. MaxFace: the nearer the more alike
    Threshold,     \* BiometricsSettings.recognition_threshold
    MaxSamples     \* bound: samples ever taken

ASSUME FaceLibraryAssumption == MaxFace \in Nat /\ Threshold \in Nat /\ MaxSamples \in Nat /\ "none" \notin Persons \cup Dirs

VARIABLES
    known,     \* the rows of Person
    gone,      \* history: people deleted
    profile,   \* Person.thumbnail_path: the directory, or "none"
    samples,   \* the rows of FaceEmbedding
    images,    \* the files: <<directory, person, sample>>; sample 0 is the profile
    taken,     \* the last sample's number
    dir,       \* the storage directory in effect
    touched,   \* history: samples whose deletion was begun
    promised,  \* history: per person deleted, the samples found by then
    task       \* per slot, the request under way

faceVars == <<known, gone, profile, samples, images, taken, dir, touched, promised, task>>

FaceIds == 1 .. MaxSamples
Likeness(a, b) == MaxFace - (IF a > b THEN a - b ELSE b - a)

NoTask == [pc |-> "off", who |-> "none", dir |-> "none",
           had |-> FALSE, id |-> 0, face |-> 0, todo |-> {}, owed |-> {}]

FaceInit ==
    /\ known = {} /\ gone = {}
    /\ profile = [p \in Persons |-> "none"]
    /\ samples = {} /\ images = {} /\ taken = 0
    /\ dir \in Dirs
    /\ touched = {}
    /\ promised = [p \in Persons |-> {}]
    /\ task = [r \in Enrolments |-> NoTask]

SamplesOf(p) == {s \in samples : s.of = p}
Known(p, negative) == {s.face : s \in {x \in SamplesOf(p) : x.negative = negative}}

-----------------------------------------------------------------------------
(* best_match.                                                             *)

\* A sample counts unless a negative one of the same person is as close.
Vetoed(p, f, a) == \E n \in Known(p, TRUE) : Likeness(f, a) <= Likeness(f, n)

Hits(p, f) == {a \in Known(p, FALSE) : Likeness(f, a) >= Threshold /\ ~Vetoed(p, f, a)}

\* Whom a face is taken for: of several as close, any.
Matched(f) ==
    {p \in Persons : \E a \in Hits(p, f) :
        \A q \in Persons : \A b \in Hits(q, f) : Likeness(f, a) >= Likeness(f, b)}

-----------------------------------------------------------------------------
(* Requests.                                                               *)

Ended(r) == task' = [task EXCEPT ![r] = NoTask]
Goes(r, pc) == task' = [task EXCEPT ![r].pc = pc]

\* create_person.
AddPerson(p) ==
    /\ p \notin known \cup gone
    /\ known' = known \cup {p}
    /\ UNCHANGED <<gone, profile, samples, images, taken, dir, touched, promised, task>>

\* set_storage_dir.  Nothing is moved.  (Bound: a directory that was left with
\* images is not gone back to.)
ChangeDir(d) ==
    /\ d # dir /\ \A i \in images : i[1] # d
    /\ dir' = d
    /\ UNCHANGED <<known, gone, profile, samples, images, taken, touched, promised, task>>

\* Every route about a person loads the person, with the samples, then takes
\* the storage directory.
Load(r, p, pc) ==
    /\ task[r].pc = "off" /\ p \in known
    /\ task' = [task EXCEPT ![r] = [NoTask EXCEPT !.pc = pc, !.who = p, !.dir = dir,
                 !.had = (pc = "enrol" /\ profile[p] # "none"),
                 !.todo = IF pc \in {"face", "person"} THEN {s.id : s \in SamplesOf(p)} ELSE {}]]
    /\ UNCHANGED <<known, gone, profile, samples, images, taken, dir, touched, promised>>

\* enroll_face: the frame is extracted and searched again; then the file of
\* the new sample is written.
WriteSample(r, f) ==
    /\ task[r].pc = "enrol" /\ taken < MaxSamples
    /\ taken' = taken + 1
    /\ images' = images \cup {<<task[r].dir, task[r].who, taken + 1>>}
    /\ task' = [task EXCEPT ![r].pc = IF task[r].had THEN "commit" ELSE "profile",
                            ![r].id = taken + 1, ![r].face = f]
    /\ UNCHANGED <<known, gone, profile, samples, dir, touched, promised>>

\* The first sample is the profile image too.
WriteProfile(r) ==
    /\ task[r].pc = "profile"
    /\ images' = images \cup {<<task[r].dir, task[r].who, 0>>}
    /\ Goes(r, "commit")
    /\ UNCHANGED <<known, gone, profile, samples, taken, dir, touched, promised>>

Sample(r, negative) ==
    [id |-> task[r].id, of |-> task[r].who, face |-> task[r].face, negative |-> negative, dir |-> task[r].dir]

\* Refused by the foreign key when the person has been deleted: the files stay.
CommitSample(r) ==
    LET p == task[r].who IN
    /\ task[r].pc \in {"commit", "negative"}
    /\ samples' = IF p \in known THEN samples \cup {Sample(r, task[r].pc = "negative")} ELSE samples
    /\ profile' = IF p \in known /\ task[r].pc = "commit" /\ ~task[r].had
                  THEN [profile EXCEPT ![p] = task[r].dir] ELSE profile
    /\ Ended(r)
    /\ UNCHANGED <<known, gone, images, taken, dir, touched, promised>>

\* report_false_positive: of the faces in the clip, that which is most like
\* a sample of the person is the one meant; none is like enough: no sample.
WriteNegative(r, faces) ==
    LET close(f) == {Likeness(f, a) : a \in Known(task[r].who, FALSE)}
        meant == {f \in faces : \E x \in close(f) : x >= Threshold /\ \A g \in faces : \A y \in close(g) : x >= y}
    IN
    /\ task[r].pc = "report" /\ taken < MaxSamples
    /\ \E f \in meant :
         /\ taken' = taken + 1
         /\ images' = images \cup {<<task[r].dir, task[r].who, taken + 1>>}
         /\ task' = [task EXCEPT ![r].pc = "negative", ![r].id = taken + 1, ![r].face = f]
    /\ UNCHANGED <<known, gone, profile, samples, dir, touched, promised>>

\* delete_face_route.  The file is looked for where it would be written now.
UnlinkSample(r, id) ==
    /\ task[r].pc = "face" /\ id \in task[r].todo
    /\ images' = images \ {<<task[r].dir, task[r].who, id>>}
    /\ touched' = touched \cup {id}
    /\ task' = [task EXCEPT ![r].pc = "row", ![r].id = id, ![r].todo = {}]
    /\ UNCHANGED <<known, gone, profile, samples, taken, dir, promised>>

RemoveSample(r) ==
    /\ task[r].pc = "row"
    /\ samples' = {s \in samples : s.id # task[r].id}
    /\ Ended(r)
    /\ UNCHANGED <<known, gone, profile, images, taken, dir, touched, promised>>

\* delete_person: the profile, ...
UnlinkProfile(r) ==
    /\ task[r].pc = "person"
    /\ images' = images \ {<<task[r].dir, task[r].who, 0>>}
    /\ Goes(r, "select")
    /\ UNCHANGED <<known, gone, profile, samples, taken, dir, touched, promised>>

\* Mutant: the samples that were loaded with the person.
LoadedIds(r) == task[r].todo

\* ... the samples there are now, ...
FreshIds(r) == {s.id : s \in SamplesOf(task[r].who)}

SelectSamples(r) ==
    /\ task[r].pc = "select"
    /\ task' = [task EXCEPT ![r].pc = "files", ![r].todo = FreshIds(r),
         ![r].owed = {s.id : s \in {x \in SamplesOf(task[r].who) : x.dir = task[r].dir}}]
    /\ touched' = touched \cup FreshIds(r)
    /\ UNCHANGED <<known, gone, profile, samples, images, taken, dir, promised>>

UnlinkNext(r) ==
    /\ task[r].pc = "files"
    /\ \E id \in task[r].todo :
         /\ images' = images \ {<<task[r].dir, task[r].who, id>>}
         /\ task' = [task EXCEPT ![r].todo = @ \ {id}]
    /\ UNCHANGED <<known, gone, profile, samples, taken, dir, touched, promised>>

\* ... and the row, whose samples go with it.
RemovePerson(r) ==
    LET p == task[r].who IN
    /\ task[r].pc = "files" /\ task[r].todo = {}
    /\ known' = known \ {p} /\ gone' = gone \cup {p}
    /\ samples' = samples \ SamplesOf(p)
    /\ profile' = [profile EXCEPT ![p] = "none"]
    /\ promised' = [promised EXCEPT ![p] = @ \cup task[r].owed]
    /\ Ended(r)
    /\ UNCHANGED <<images, taken, dir, touched>>

\* No clip file, no such face, StorageError, the database or the process is
\* gone: what is done stays done.
RequestFails(r) ==
    /\ task[r].pc # "off"
    /\ Ended(r)
    /\ UNCHANGED <<known, gone, profile, samples, images, taken, dir, touched, promised>>

FaceNext ==
    \/ \E p \in Persons : AddPerson(p)
    \/ \E d \in Dirs : ChangeDir(d)
    \/ \E r \in Enrolments :
         \/ \E p \in Persons, pc \in {"enrol", "report", "face", "person"} : Load(r, p, pc)
         \/ \E f \in 0 .. MaxFace : WriteSample(r, f)
         \/ \E fs \in SUBSET (0 .. MaxFace) : WriteNegative(r, fs)
         \/ \E id \in FaceIds : UnlinkSample(r, id)
         \/ WriteProfile(r) \/ CommitSample(r) \/ RemoveSample(r)
         \/ UnlinkProfile(r) \/ SelectSamples(r) \/ UnlinkNext(r) \/ RemovePerson(r)
         \/ RequestFails(r)

FaceSpec == FaceInit /\ [][FaceNext]_faceVars

-----------------------------------------------------------------------------

FaceTypeOK ==
    /\ known \subseteq Persons /\ gone \subseteq Persons /\ known \cap gone = {}
    /\ profile \in [Persons -> Dirs \cup {"none"}]
    /\ samples \subseteq [id : FaceIds, of : known, face : 0 .. MaxFace, negative : BOOLEAN, dir : Dirs]
    /\ images \subseteq Dirs \X Persons \X (0 .. MaxSamples)
    /\ taken \in 0 .. MaxSamples /\ dir \in Dirs
    /\ touched \subseteq FaceIds
    /\ promised \in [Persons -> SUBSET FaceIds]
    /\ task \in [Enrolments ->
         [pc : {"off", "enrol", "profile", "commit", "report", "negative", "face", "row", "person", "select", "files"},
          who : Persons \cup {"none"}, dir : Dirs \cup {"none"}, had : BOOLEAN, id : 0 .. MaxSamples, face : 0 .. MaxFace,
          todo : SUBSET FaceIds, owed : SUBSET FaceIds]]

\* A face reported as not being a person's is not taken for that person
\* again, whatever else is enrolled: as long as the negative sample is there
\* (biometrics/recognition.py:292-297).
ReportsVeto == \A s \in samples : s.negative => s.of \notin Matched(s.face)

\* A sample's image is where its row says, until a deletion of it begins.
SamplesHaveImages == \A s \in samples : s.id \in touched \/ <<s.dir, s.of, s.id>> \in images

\* With a person go the images of all samples that were enrolled, in the
\* directory in effect, when the deletion looked for them: also of one that
\* was enrolled after the person was loaded (biometrics/service.py:156-160).
ImagesGoWithPeople ==
    \A p \in gone : \A id \in promised[p], d \in Dirs : <<d, p, id>> \notin images

\* What holds of the library: samples, images and reports agree.
FaceInv == FaceTypeOK /\ ReportsVeto /\ SamplesHaveImages /\ ImagesGoWithPeople

-----------------------------------------------------------------------------
(* What makes FaceInv inductive.                                           *)

\* A request that has written a sample's image and not its row.
Writing == {"profile", "commit", "negative"}

\* Numbers are given out in turn: what has one has been given it.
NumbersWereGiven ==
    /\ \A s \in samples : s.id <= taken
    /\ \A d \in Dirs, p \in Persons, id \in FaceIds : <<d, p, id>> \in images => id <= taken
    /\ \A p \in Persons : \A id \in promised[p] : id <= taken
    /\ \A r \in Enrolments :
         /\ task[r].pc \in Writing => task[r].id <= taken
         /\ \A id \in task[r].owed : id <= taken

\* The image of a person's sample is in one directory.
OnlyIn(p, id, d) == \A e \in Dirs : <<e, p, id>> \in images => e = d

\* What a request holds at each point: an image that is written and waits for
\* its row, or the files that are left to remove.
Holds(t) ==
    /\ t.pc # "off" => t.who \in Persons /\ t.dir \in Dirs
    /\ t.pc \in Writing =>
         /\ t.id \in FaceIds
         /\ t.id \in touched \/ <<t.dir, t.who, t.id>> \in images
         /\ OnlyIn(t.who, t.id, t.dir)
    /\ t.pc = "files" =>
         /\ t.todo \subseteq touched
         /\ \A id \in t.owed : OnlyIn(t.who, id, t.dir) /\ (id \in t.todo \/ <<t.dir, t.who, id>> \notin images)

SamplesStayInPlace == \A s \in samples : OnlyIn(s.of, s.id, s.dir)

\* ImagesGoWithPeople, also as long as nobody is gone.
PromisesKept ==
    \A p \in Persons : \A id \in promised[p], d \in Dirs : <<d, p, id>> \notin images

FaceIInv ==
    /\ FaceInv /\ NumbersWereGiven /\ SamplesStayInPlace /\ PromisesKept
    /\ \A r \in Enrolments : Holds(task[r])
=============================================================================
