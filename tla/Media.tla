-------------------------------- MODULE Media --------------------------------
(***************************************************************************)
(* What is uploaded to the bucket and recorded: videos with their comments *)
(* (videos.route.js, comments.route.js) and the files of the library with  *)
(* their categories (library.route.js).                                    *)
(*                                                                         *)
(* A client uploads with a presigned POST and then has the upload          *)
(* recorded: HEAD of the object, INSERT of the row.  A deletion is three   *)
(* or four statements without a transaction.  A comment is a transaction,  *)
(* whose INSERT locks the row of the video in shared mode (foreign key)    *)
(* and whose UPDATE, if staff comments, locks it exclusively.              *)
(***************************************************************************)
EXTENDS Bucket

CONSTANTS VideoKeys, FileKeys,   \* keys handed out by POST .../upload-url
          Posts,                 \* POST /videos, POST /library/files; also the row
          StaffComments,         \* POST comments by an owner or a teacher; also the row
          StudentComments,       \* the same, by a student
          Deletes,               \* DELETE /videos/:id, DELETE /library/files/:id
          Moves,                 \* PATCH /library/files/:id
          Categories

Keys     == VideoKeys \cup FileKeys
Comments == StaffComments \cup StudentComments
Calls    == Posts \cup Comments \cup Deletes \cup Moves

ASSUME MediaAssumption ==
    /\ VideoKeys \cap FileKeys = {}
    /\ None \notin Keys \cup Posts \cup Categories
    /\ StaffComments \cap StudentComments = {}
    /\ Posts \cap Comments = {} /\ Posts \cap Deletes = {} /\ Posts \cap Moves = {}
    /\ Comments \cap Deletes = {} /\ Comments \cap Moves = {} /\ Deletes \cap Moves = {}

VARIABLES rows,        \* the videos and library_files tables
          comment,     \* the comments table
          shelf,       \* library_categories
          notes,       \* notifications: what, about which row, by which request
          phase,       \* how far each request has come
          asks,        \* the row, key, category it is about, and what it has read
          before       \* history: the comments a DELETE of a video found on arrival

mediaVars == <<rows, comment, shelf, notes, phase, asks, before>>

-----------------------------------------------------------------------------
NoRow == [state |-> "none", key |-> None, ofStudent |-> FALSE,
          review |-> "pending", category |-> None]
NoAsk == [row |-> None, key |-> None, category |-> None, ofStudent |-> FALSE,
          justReviewed |-> FALSE]

Open    == {"headed", "inserted",                \* POST of an upload
            "loaded", "commented", "marked",     \* POST of a comment
            "counted", "removed",                \* DELETE, with "loaded"
            "checked"}                           \* PATCH of a file
Answers == {"ok", "refused", "failed"}           \* 2xx, 4xx, 5xx

MediaTypeOK ==
    /\ rows \in [Posts -> [state     : {"none", "pending", "there", "gone"},
                           key       : Keys \cup {None},
                           ofStudent : BOOLEAN,
                           review    : {"pending", "reviewed"},
                           category  : Categories \cup {None}]]
    /\ comment \in [Comments -> {"none", "pending", "there", "gone"}]
    /\ shelf \in [Categories -> {"none", "there", "gone"}]
    /\ notes \subseteq [type : {"video_uploaded", "comment", "video_reviewed"},
                        row : Posts, by : Calls]
    /\ phase \in [Calls -> {"idle"} \cup Open \cup Answers]
    /\ asks \in [Calls -> [row : Posts \cup {None}, key : Keys \cup {None},
                           category : Categories \cup {None},
                           ofStudent : BOOLEAN, justReviewed : BOOLEAN]]
    /\ before \in [Deletes -> SUBSET Comments]

-----------------------------------------------------------------------------
There(p)   == rows[p].state = "there"
IsVideo(p) == rows[p].key \in VideoKeys

OnVideo(p) == {c \in Comments : comment[c] = "there" /\ asks[c].row = p}

\* Comments whose transactions hold a lock on the row, shared or exclusive.
Lockers(p) == {c \in Comments : phase[c] \in {"commented", "marked"} /\ asks[c].row = p}

Answer(x, a) == phase' = [phase EXCEPT ![x] = a]

Note(t, p, x) == [type |-> t, row |-> p, by |-> x]

MediaInit ==
    /\ rows = [p \in Posts |-> NoRow]
    /\ comment = [c \in Comments |-> "none"]
    /\ shelf = [g \in Categories |-> "none"]
    /\ notes = {}
    /\ phase = [x \in Calls |-> "idle"]
    /\ asks = [x \in Calls |-> NoAsk]
    /\ before = [d \in Deletes |-> {}]

-----------------------------------------------------------------------------
(* Uploading and recording.                                                *)

\* The client's presigned POST, as long as it is valid.
Upload(k) ==
    /\ k \notin objects
    /\ Store(k)
    /\ UNCHANGED mediaVars

Shelved(g) == g # None => shelf[g] = "there"

\* Mutant of Head: the row is written on the client's word.
HeadTrusting(p, k, g, ofStudent) ==
    /\ phase[p] = "idle"
    /\ IF k \in FileKeys THEN ofStudent = FALSE ELSE g = None
    /\ IF Shelved(g)
       THEN /\ Answer(p, "headed")
            /\ asks' = [asks EXCEPT ![p].key = k, ![p].category = g, ![p].ofStudent = ofStudent]
       ELSE Answer(p, "refused") /\ UNCHANGED asks
    /\ UNCHANGED <<rows, comment, shelf, notes, before, objects>>

\* assertCategoryInScope and HEAD, or 400.
Head(p, k, g, ofStudent) ==
    /\ phase[p] = "idle"
    /\ IF k \in FileKeys THEN ofStudent = FALSE ELSE g = None
    /\ IF Shelved(g) /\ k \in objects
       THEN /\ Answer(p, "headed")
            /\ asks' = [asks EXCEPT ![p].key = k, ![p].category = g, ![p].ofStudent = ofStudent]
       ELSE Answer(p, "refused") /\ UNCHANGED asks
    /\ UNCHANGED <<rows, comment, shelf, notes, before, objects>>

\* Mutant of Recorded: no unique key on s3_key.
RecordedNever(k) == FALSE

\* uq_videos_s3_key, uq_library_files_s3_key.
Recorded(k) == \E p \in Posts : There(p) /\ rows[p].key = k

NewRow(p, state) ==
    [state |-> state, key |-> asks[p].key, ofStudent |-> asks[p].ofStudent,
     review |-> "pending", category |-> asks[p].category]

\* The INSERT of a video waits for an uncommitted row with its key; 409.
InsertVideo(p) ==
    /\ phase[p] = "headed" /\ asks[p].key \in VideoKeys
    /\ \A q \in Posts : ~(rows[q].state = "pending" /\ rows[q].key = asks[p].key)
    /\ IF Recorded(asks[p].key)
       THEN Answer(p, "refused") /\ UNCHANGED rows
       ELSE Answer(p, "inserted") /\ rows' = [rows EXCEPT ![p] = NewRow(p, "pending")]
    /\ UNCHANGED <<comment, shelf, notes, asks, before, objects>>

\* The other party of a student's video is told with the COMMIT.
CommitVideo(p) ==
    /\ phase[p] = "inserted"
    /\ Answer(p, "ok")
    /\ rows' = [rows EXCEPT ![p].state = "there"]
    /\ notes' = notes \cup (IF rows[p].ofStudent THEN {Note("video_uploaded", p, p)} ELSE {})
    /\ UNCHANGED <<comment, shelf, asks, before, objects>>

\* The INSERT of a library file stands alone; without its category it fails.
InsertFile(p) ==
    /\ phase[p] = "headed" /\ asks[p].key \in FileKeys
    /\ \/ /\ ~Shelved(asks[p].category)
          /\ Answer(p, "failed") /\ UNCHANGED rows
       \/ /\ Shelved(asks[p].category) /\ Recorded(asks[p].key)
          /\ Answer(p, "refused") /\ UNCHANGED rows
       \/ /\ Shelved(asks[p].category) /\ ~Recorded(asks[p].key)
          /\ Answer(p, "ok") /\ rows' = [rows EXCEPT ![p] = NewRow(p, "there")]
    /\ UNCHANGED <<comment, shelf, notes, asks, before, objects>>

-----------------------------------------------------------------------------
(* Comments and the review of a video.                                     *)

\* loadAuthorizedVideo, for a comment or a deletion, of those who may: a student
\* comments on videos of their own, a deletion is the uploader's.
LoadVideo(x, p, mine) ==
    /\ phase[x] = "idle"
    /\ IF There(p) /\ IsVideo(p) /\ mine
       THEN /\ Answer(x, "loaded")
            /\ asks' = [asks EXCEPT ![x].row = p]
            /\ before' = [d \in Deletes |-> IF d = x THEN OnVideo(p) ELSE before[d]]
       ELSE Answer(x, "refused") /\ UNCHANGED <<asks, before>>
    /\ UNCHANGED <<rows, comment, shelf, notes, objects>>

\* INSERT INTO comments waits for whoever has the video locked exclusively, and
\* fails when the video has gone.
InsertComment(c) ==
    LET p == asks[c].row IN
    /\ phase[c] = "loaded"
    /\ \A y \in Lockers(p) : phase[y] # "marked"
    /\ IF There(p)
       THEN Answer(c, "commented") /\ comment' = [comment EXCEPT ![c] = "pending"]
       ELSE Answer(c, "failed") /\ UNCHANGED comment
    /\ UNCHANGED <<rows, shelf, notes, asks, before, objects>>

\* Mutant of MarkReviewed: without AND status = 'pending_review'.
MarkReviewedAgain(c) ==
    LET p == asks[c].row IN
    /\ c \in StaffComments
    /\ phase[c] = "commented"
    /\ Lockers(p) = {c}
    /\ Answer(c, "marked")
    /\ asks' = [asks EXCEPT ![c].justReviewed = TRUE]
    /\ UNCHANGED <<rows, comment, shelf, notes, before, objects>>

\* UPDATE videos SET status = 'reviewed', by staff: waits for every other lock.
MarkReviewed(c) ==
    LET p == asks[c].row IN
    /\ c \in StaffComments
    /\ phase[c] = "commented"
    /\ Lockers(p) = {c}
    /\ Answer(c, "marked")
    /\ asks' = [asks EXCEPT ![c].justReviewed = (rows[p].review = "pending")]
    /\ UNCHANGED <<rows, comment, shelf, notes, before, objects>>

CommitComment(c) ==
    LET p == asks[c].row IN
    /\ phase[c] = IF c \in StaffComments THEN "marked" ELSE "commented"
    /\ Answer(c, "ok")
    /\ comment' = [comment EXCEPT ![c] = "there"]
    /\ rows' = IF c \in StaffComments THEN [rows EXCEPT ![p].review = "reviewed"] ELSE rows
    /\ notes' = notes
          \cup (IF rows[p].ofStudent THEN {Note("comment", p, c)} ELSE {})
          \cup (IF asks[c].justReviewed /\ rows[p].ofStudent
                THEN {Note("video_reviewed", p, c)} ELSE {})
    /\ UNCHANGED <<shelf, asks, before, objects>>

\* PATCH /videos/:id: back into the review queue.
Revert(p) ==
    /\ There(p) /\ IsVideo(p)
    /\ Lockers(p) = {}
    /\ rows' = [rows EXCEPT ![p].review = "pending"]
    /\ UNCHANGED <<comment, shelf, notes, phase, asks, before, objects>>

-----------------------------------------------------------------------------
(* Deleting.                                                               *)

\* Mutant of CountComments: only staff's comments are counted.
CountStaffComments(d) ==
    /\ phase[d] = "loaded" /\ IsVideo(asks[d].row)
    /\ Answer(d, IF OnVideo(asks[d].row) \cap StaffComments = {} THEN "counted" ELSE "refused")
    /\ UNCHANGED <<rows, comment, shelf, notes, asks, before, objects>>

\* SELECT COUNT(*): 409 if the video has feedback.
CountComments(d) ==
    /\ phase[d] = "loaded" /\ IsVideo(asks[d].row)
    /\ Answer(d, IF OnVideo(asks[d].row) = {} THEN "counted" ELSE "refused")
    /\ UNCHANGED <<rows, comment, shelf, notes, asks, before, objects>>

LoadFile(x, p) ==
    /\ phase[x] = "idle"
    /\ IF There(p) /\ ~IsVideo(p)
       THEN Answer(x, "loaded") /\ asks' = [asks EXCEPT ![x].row = p]
       ELSE Answer(x, "refused") /\ UNCHANGED asks
    /\ UNCHANGED <<rows, comment, shelf, notes, before, objects>>

\* DeleteObject, first; an error is logged and forgotten.
RemoveObject(d) ==
    LET p == asks[d].row IN
    /\ phase[d] \in {"loaded", "counted"}
    /\ IsVideo(p) => phase[d] = "counted"
    /\ Answer(d, "removed")
    /\ Remove(rows[p].key) \/ UNCHANGED objects
    /\ UNCHANGED <<rows, comment, shelf, notes, asks, before>>

\* DELETE of the row, with the comments on it; no row is no error.
DeleteRow(d) ==
    LET p == asks[d].row IN
    /\ phase[d] = "removed"
    /\ Lockers(p) = {}
    /\ Answer(d, "ok")
    /\ rows' = [rows EXCEPT ![p].state = "gone"]
    /\ comment' = [c \in Comments |-> IF c \in OnVideo(p) THEN "gone" ELSE comment[c]]
    /\ UNCHANGED <<shelf, notes, asks, before, objects>>

-----------------------------------------------------------------------------
(* Shelving.                                                               *)

AddCategory(g) ==
    /\ shelf[g] = "none"
    /\ shelf' = [shelf EXCEPT ![g] = "there"]
    /\ UNCHANGED <<rows, comment, notes, phase, asks, before, objects>>

\* Mutant of DropCategory: without ON DELETE SET NULL.
DropCategoryOnly(g) ==
    /\ shelf[g] = "there"
    /\ shelf' = [shelf EXCEPT ![g] = "gone"]
    /\ UNCHANGED <<rows, comment, notes, phase, asks, before, objects>>

DropCategory(g) ==
    /\ shelf[g] = "there"
    /\ shelf' = [shelf EXCEPT ![g] = "gone"]
    /\ rows' = [p \in Posts |-> IF rows[p].category = g
                                THEN [rows[p] EXCEPT !.category = None] ELSE rows[p]]
    /\ UNCHANGED <<comment, notes, phase, asks, before, objects>>

\* assertCategoryInScope, after the file was found.
CheckCategory(m, g) ==
    /\ phase[m] = "loaded"
    /\ IF Shelved(g)
       THEN Answer(m, "checked") /\ asks' = [asks EXCEPT ![m].category = g]
       ELSE Answer(m, "refused") /\ UNCHANGED asks
    /\ UNCHANGED <<rows, comment, shelf, notes, before, objects>>

\* The UPDATE fails without the category; without the file, the answer does.
MoveFile(m) ==
    LET p == asks[m].row IN
    /\ phase[m] = "checked"
    /\ IF There(p) /\ Shelved(asks[m].category)
       THEN Answer(m, "ok") /\ rows' = [rows EXCEPT ![p].category = asks[m].category]
       ELSE Answer(m, "failed") /\ UNCHANGED rows
    /\ UNCHANGED <<comment, shelf, notes, asks, before, objects>>

\* A deadlock, a lost connection or process; what is committed stays.
Abort(x) ==
    /\ phase[x] \in Open
    /\ Answer(x, "failed")
    /\ rows' = IF phase[x] = "inserted" THEN [rows EXCEPT ![x] = NoRow] ELSE rows
    /\ comment' = IF phase[x] \in {"commented", "marked"}
                  THEN [comment EXCEPT ![x] = "none"] ELSE comment
    /\ UNCHANGED <<shelf, notes, asks, before, objects>>

MediaNext ==
    \/ \E k \in Keys : Upload(k)
    \/ \E p \in Posts :
          \/ \E k \in Keys, g \in Categories \cup {None}, s \in BOOLEAN : Head(p, k, g, s)
          \/ InsertVideo(p) \/ CommitVideo(p) \/ InsertFile(p) \/ Revert(p)
    \/ \E c \in Comments :
          \/ \E p \in Posts : LoadVideo(c, p, c \in StaffComments \/ rows[p].ofStudent)
          \/ InsertComment(c) \/ MarkReviewed(c) \/ CommitComment(c)
    \/ \E d \in Deletes :
          \/ \E p \in Posts, mine \in BOOLEAN : LoadVideo(d, p, mine)
          \/ \E p \in Posts : LoadFile(d, p)
          \/ CountComments(d) \/ RemoveObject(d) \/ DeleteRow(d)
    \/ \E g \in Categories : AddCategory(g) \/ DropCategory(g)
    \/ \E m \in Moves :
          \/ \E p \in Posts : LoadFile(m, p)
          \/ \E g \in Categories \cup {None} : CheckCategory(m, g)
          \/ MoveFile(m)
    \/ \E x \in Calls : Abort(x)

-----------------------------------------------------------------------------
(* Properties *)

\* A confirmation sent again, at the same time or later, records the upload
\* once (videos.route.js:191-197, library.route.js:275-279).
OneRowPerUpload ==
    \A p, q \in Posts : There(p) /\ There(q) /\ p # q => rows[p].key # rows[q].key

\* A row whose object is missing is one whose object a DELETE has taken: no row
\* was written for an upload that never landed (library.route.js:224-226).
MissingMeansDeleted ==
    \A p \in Posts : There(p) /\ rows[p].key \notin objects =>
        \E d \in Deletes : asks[d].row # None /\ rows[asks[d].row].key = rows[p].key

\* The student hears of a review exactly when the video leaves the review queue,
\* however many comment at once and however often it is put back
\* (comments.route.js:65-79).
ReviewedIsTold ==
    [][\A p \in Posts :
          (\E c \in Comments : Note("video_reviewed", p, c) \in notes' \ notes)
              <=> /\ rows[p].review = "pending" /\ rows'[p].review = "reviewed"
                  /\ rows[p].ofStudent]_mediaVars

\* Feedback is destroyed only by a DELETE that arrived before it was committed
\* (videos.route.js:412-419).
OnlyLateFeedbackLost ==
    [][\A c \in Comments : comment[c] = "there" /\ comment'[c] = "gone" =>
          \E d \in Deletes : phase[d] = "removed" /\ phase'[d] = "ok" /\ c \notin before[d]
      ]_mediaVars

\* Every file is on a shelf there is, or on none, whatever became of the
\* category it was checked against (library.route.js:147-148).
ShelvedFiles ==
    \A p \in Posts : There(p) => Shelved(rows[p].category)

=============================================================================
