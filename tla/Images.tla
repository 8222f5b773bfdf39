------------------------------- MODULE Images -------------------------------
(***************************************************************************)
(* The picture of an organization (organization.route.js: logo) or of a    *)
(* course (courses.route.js: thumbnail): one column with the key of an     *)
(* object.  Putting a new picture, and taking it off, are statements of    *)
(* their own, with the bucket between them, and no transaction.            *)
(*                                                                         *)
(* The key of a new object is a fresh UUID: here, the request that puts it.*)
(***************************************************************************)
EXTENDS Bucket

CONSTANTS Holders,      \* organizations and courses
          Courses,      \* those of them that can be deleted
          Replaces,     \* POST .../logo, POST .../thumbnail
          Clears        \* DELETE .../logo, DELETE .../thumbnail

Changers == Replaces \cup Clears

ASSUME ImagesAssumption ==
    /\ Courses \subseteq Holders
    /\ Replaces \cap Clears = {}
    /\ None \notin Replaces

VARIABLES holders,      \* the organizations and courses there are
          picture,      \* logo_key, thumbnail_key
          step,         \* how far each request has come
          found         \* the holder it is about, and the picture it found there

imagesVars == <<holders, picture, step, found>>

ImagesTypeOK ==
    /\ holders \subseteq Holders
    /\ picture \in [Holders -> Replaces \cup {None}]
    /\ step \in [Changers -> {"idle", "found", "put", "set", "done", "refused", "failed"}]
    /\ found \in [Changers -> [holder : Holders \cup {None}, key : Replaces \cup {None}]]

ImagesInit ==
    /\ holders = Holders
    /\ picture = [h \in Holders |-> None]
    /\ step = [x \in Changers |-> "idle"]
    /\ found = [x \in Changers |-> [holder |-> None, key |-> None]]

To(x, s) == step' = [step EXCEPT ![x] = s]

\* findOrganization, loadCourseInScope.
FindHolder(x, h) ==
    /\ step[x] = "idle"
    /\ IF h \in holders
       THEN To(x, "found") /\ found' = [found EXCEPT ![x] = [holder |-> h, key |-> picture[h]]]
       ELSE To(x, "refused") /\ UNCHANGED found
    /\ UNCHANGED <<holders, picture, objects>>

\* PutObject; after an error, 502, the object may be there or not.
PutPicture(x) ==
    /\ x \in Replaces
    /\ step[x] = "found"
    /\ \/ To(x, "put") /\ Store(x)
       \/ To(x, "failed") /\ (Store(x) \/ UNCHANGED objects)
    /\ UNCHANGED <<holders, picture, found>>

\* UPDATE ... SET logo_key, thumbnail_key; no row is no error.
SetPicture(x) ==
    /\ step[x] = IF x \in Replaces THEN "put" ELSE "found"
    /\ To(x, "set")
    /\ picture' = [h \in Holders |->
          IF h = found[x].holder /\ h \in holders
          THEN IF x \in Replaces THEN x ELSE None
          ELSE picture[h]]
    /\ UNCHANGED <<holders, found, objects>>

\* Mutant of RemoveOld: the old picture goes before the row is changed.
RemoveOldFirst(x) ==
    /\ step[x] \in {"found", "put", "set"}
    /\ IF step[x] = "set" THEN To(x, "done") ELSE UNCHANGED step
    /\ Remove(found[x].key)
    /\ UNCHANGED <<holders, picture, found>>

\* The object found before goes; an error is logged and forgotten.
RemoveOld(x) ==
    /\ step[x] = "set"
    /\ To(x, "done")
    /\ Remove(found[x].key) \/ UNCHANGED objects
    /\ UNCHANGED <<holders, picture, found>>

\* DELETE /courses/:id leaves the picture's object behind.
DropCourse(h) ==
    /\ h \in Courses \cap holders
    /\ holders' = holders \ {h}
    /\ picture' = [picture EXCEPT ![h] = None]
    /\ UNCHANGED <<step, found, objects>>

\* A statement fails or the process is lost.
Stop(x) ==
    /\ step[x] \in {"found", "put", "set"}
    /\ To(x, "failed")
    /\ UNCHANGED <<holders, picture, found, objects>>

ImagesNext ==
    \/ \E x \in Changers :
          \/ \E h \in Holders : FindHolder(x, h)
          \/ PutPicture(x) \/ SetPicture(x) \/ RemoveOld(x) \/ Stop(x)
    \/ \E h \in Holders : DropCourse(h)

\* The picture an organization or a course shows is in the bucket, however many
\* requests replace it and remove what they found, and wherever they stop
\* (organization.route.js:190-200, courses.route.js:791-801).
PictureStored == \A h \in Holders : picture[h] # None => picture[h] \in objects

=============================================================================
