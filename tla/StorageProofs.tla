---------------------------- MODULE StorageProofs ----------------------------
(***************************************************************************)
(* Proofs about Storage, for any number of uploads, comments, pictures and *)
(* requests.                                                               *)
(*                                                                         *)
(* Images and Media share the bucket and nothing else.  What the one does  *)
(* to objects the other rests on is bounded by the keys it can name: a     *)
(* media request removes keys of uploads, and a request about a picture    *)
(* removes only a picture that was shown when it arrived and that, being a *)
(* fresh key, can never be shown again (Superseded).                       *)
(*                                                                         *)
(* Feedback, in the last section, is what comments, reviews and deletions  *)
(* know of each other: a deletion that has counted found only comments     *)
(* that are gone (Counting), and a comment that marks its video has it to  *)
(* itself, by InnoDB's row lock, and knows what it was (Marking).          *)
(***************************************************************************)
EXTENDS Storage, TLAPS

USE ImagesAssumption, MediaAssumption, KeysDiffer
USE DEF Changers, Keys, Comments, Calls

Unset == {"idle", "found", "put"}

\* A shown picture was set by its own request.
Shown ==
    \A h \in Holders : picture[h] # None =>
        /\ found[picture[h]].holder = h
        /\ step[picture[h]] \notin Unset

\* The picture a request found was set by its own request, for the same holder.
FoundSet ==
    \A x \in Changers : found[x].key # None =>
        /\ step[found[x].key] \notin Unset
        /\ found[found[x].key].holder = found[x].holder

\* A request that has put its picture has put it into the bucket.
Put == \A x \in Replaces : step[x] = "put" => x \in objects

\* The picture a request has replaced is shown nowhere.
Superseded ==
    \A x \in Changers : step[x] = "set" =>
        \A h \in Holders : picture[h] # None => picture[h] # found[x].key

\* A course that was deleted shows nothing.
Dropped == \A h \in Holders \ holders : picture[h] = None

Pictures == Dropped /\ Shown /\ FoundSet /\ Put /\ Superseded /\ PictureStored

\* A row that was committed, and may have been deleted.
Settled(p) == rows[p].state \in {"there", "gone"}

\* A comment, a deletion or a move is about a row it has found committed.
About ==
    \A x \in Calls \ Posts : phase[x] \in Open =>
        asks[x].row \in Posts /\ Settled(asks[x].row)

\* A row is uncommitted exactly while its request is between INSERT and COMMIT.
Pending ==
    \A p \in Posts :
        /\ phase[p] \in {"idle", "headed"} => rows[p].state = "none"
        /\ rows[p].state = "pending" <=> phase[p] = "inserted"
        /\ rows[p].state = "pending" => rows[p].key \in VideoKeys

\* An upload is recorded, or about to be, by one row.
RecordedOnce ==
    \A p, q \in Posts :
        /\ rows[p].state \in {"pending", "there"}
        /\ rows[q].state \in {"pending", "there"}
        /\ rows[p].key = rows[q].key
        => p = q

\* Only a file has a category, and a category that is dropped leaves its files.
Shelving ==
    \A p \in Posts :
        /\ rows[p].state \in {"pending", "there"} => Shelved(rows[p].category)
        /\ phase[p] = "headed" /\ asks[p].key \in VideoKeys => asks[p].category = None

IInv ==
    /\ TypeOK
    /\ About /\ Pending /\ RecordedOnce /\ Shelving
    /\ Pictures

-----------------------------------------------------------------------------
(* Types.                                                                  *)

RowType == [state     : {"none", "pending", "there", "gone"},
            key       : Keys \cup {None},
            ofStudent : BOOLEAN,
            review    : {"pending", "reviewed"},
            category  : Categories \cup {None}]

AskType == [row : Posts \cup {None}, key : Keys \cup {None},
            category : Categories \cup {None},
            ofStudent : BOOLEAN, justReviewed : BOOLEAN]

\* Before the first request everything has its type.
LEMMA InitTyped == Init => TypeOK
BY DEF Init, MediaInit, ImagesInit, TypeOK, MediaTypeOK, ImagesTypeOK, NoRow, NoAsk

\* Every answer a request can get is one of its phases.
LEMMA AnswerTyped ==
    ASSUME MediaTypeOK, NEW x \in Calls, NEW a \in {"idle"} \cup Open \cup Answers, Answer(x, a)
    PROVE  phase' \in [Calls -> {"idle"} \cup Open \cup Answers]
BY DEF MediaTypeOK, Answer

\* Setting one field of a row.
LEMMA RowSet ==
    ASSUME TypeOK, NEW p \in Posts
    PROVE  /\ rows \in [Posts -> RowType]
           /\ \A v \in {"none", "pending", "there", "gone"} :
                 [rows EXCEPT ![p].state = v] \in [Posts -> RowType]
           /\ \A v \in {"pending", "reviewed"} :
                 [rows EXCEPT ![p].review = v] \in [Posts -> RowType]
           /\ \A v \in Categories \cup {None} :
                 [rows EXCEPT ![p].category = v] \in [Posts -> RowType]
<1>1. rows \in [Posts -> RowType]
  BY DEF TypeOK, MediaTypeOK, RowType
<1>2. ASSUME NEW v \in {"none", "pending", "there", "gone"}
      PROVE  [rows EXCEPT ![p].state = v] \in [Posts -> RowType]
  BY <1>1 DEF RowType
<1>3. ASSUME NEW v \in {"pending", "reviewed"}
      PROVE  [rows EXCEPT ![p].review = v] \in [Posts -> RowType]
  BY <1>1 DEF RowType
<1>4. ASSUME NEW v \in Categories \cup {None}
      PROVE  [rows EXCEPT ![p].category = v] \in [Posts -> RowType]
  BY <1>1 DEF RowType
<1> QED
  BY <1>1, <1>2, <1>3, <1>4

\* Setting one field of what a request has read.
LEMMA AskSet ==
    ASSUME TypeOK, NEW x \in Calls
    PROVE  /\ asks \in [Calls -> AskType]
           /\ \A v \in Posts : [asks EXCEPT ![x].row = v] \in [Calls -> AskType]
           /\ \A v \in Categories \cup {None} :
                 [asks EXCEPT ![x].category = v] \in [Calls -> AskType]
           /\ \A v \in BOOLEAN : [asks EXCEPT ![x].justReviewed = v] \in [Calls -> AskType]
<1>1. asks \in [Calls -> AskType]
  BY DEF TypeOK, MediaTypeOK, AskType
<1>2. ASSUME NEW v \in Posts
      PROVE  [asks EXCEPT ![x].row = v] \in [Calls -> AskType]
  BY <1>1 DEF AskType
<1>3. ASSUME NEW v \in Categories \cup {None}
      PROVE  [asks EXCEPT ![x].category = v] \in [Calls -> AskType]
  BY <1>1 DEF AskType
<1>4. ASSUME NEW v \in BOOLEAN
      PROVE  [asks EXCEPT ![x].justReviewed = v] \in [Calls -> AskType]
  BY <1>1 DEF AskType
<1> QED
  BY <1>1, <1>2, <1>3, <1>4

\* Some HEAD on behalf of the upload.
HeadSome(p) ==
    \E k \in Keys, g \in Categories \cup {None}, s \in BOOLEAN : Head(p, k, g, s)

\* HEAD and INSERT write a row of the right type, for any key and category.
LEMMA UploadingTyped ==
    ASSUME TypeOK, NEW p \in Posts, HeadSome(p) \/ InsertVideo(p) \/ CommitVideo(p) \/ InsertFile(p)
    PROVE  MediaTypeOK' /\ objects' \subseteq Keys \cup Replaces
<1>1. ASSUME NEW k \in Keys, NEW g \in Categories \cup {None}, NEW s \in BOOLEAN, Head(p, k, g, s)
      PROVE  MediaTypeOK' /\ objects' \subseteq Keys \cup Replaces
  <2>1. phase' \in [Calls -> {"idle"} \cup Open \cup Answers]
    BY <1>1, AnswerTyped DEF TypeOK, Head, Open, Answers
  <2>2. asks' \in [Calls -> AskType]
    <3>1. asks \in [Calls -> AskType] /\ p \in Calls
      BY DEF TypeOK, MediaTypeOK, AskType, Calls
    <3>2. \/ asks' = asks
          \/ asks' = [asks EXCEPT ![p] = [@ EXCEPT !.key = k, !.category = g, !.ofStudent = s]]
      BY <1>1 DEF Head
    <3>3. [asks[p] EXCEPT !.key = k, !.category = g, !.ofStudent = s] \in AskType
      <4>1. asks[p] \in AskType
        BY <3>1
      <4>2. k \in Keys \cup {None}
        OBVIOUS
      <4> QED
        BY <4>1, <4>2 DEF AskType
    <3> QED
      BY <3>1, <3>2, <3>3
  <2> QED
    BY <1>1, <2>1, <2>2 DEF TypeOK, MediaTypeOK, Head, AskType
<1>2. CASE InsertVideo(p)
  <2>1. phase' \in [Calls -> {"idle"} \cup Open \cup Answers]
    BY <1>2, AnswerTyped DEF TypeOK, InsertVideo, Open, Answers
  <2>2. NewRow(p, "pending") \in RowType
    BY DEF TypeOK, MediaTypeOK, NewRow, RowType
  <2>3. rows' \in [Posts -> RowType]
    <3>1. rows \in [Posts -> RowType]
      BY RowSet
    <3>2. rows' = rows \/ rows' = [rows EXCEPT ![p] = NewRow(p, "pending")]
      BY <1>2 DEF InsertVideo
    <3> QED
      BY <2>2, <3>1, <3>2
  <2> QED
    BY <1>2, <2>1, <2>3 DEF TypeOK, MediaTypeOK, InsertVideo, RowType
<1>3. CASE CommitVideo(p)
  <2>1. phase' \in [Calls -> {"idle"} \cup Open \cup Answers]
    BY <1>3, AnswerTyped DEF TypeOK, CommitVideo, Open, Answers
  <2>2. rows' \in [Posts -> RowType]
    BY <1>3, RowSet DEF CommitVideo
  <2> QED
    BY <1>3, <2>1, <2>2 DEF TypeOK, MediaTypeOK, CommitVideo, RowType, Note
<1>4. CASE InsertFile(p)
  <2>1. phase' \in [Calls -> {"idle"} \cup Open \cup Answers]
    BY <1>4, AnswerTyped DEF TypeOK, InsertFile, Open, Answers
  <2>2. NewRow(p, "there") \in RowType
    BY DEF TypeOK, MediaTypeOK, NewRow, RowType
  <2>3. rows' \in [Posts -> RowType]
    BY <1>4, <2>2 DEF TypeOK, MediaTypeOK, InsertFile, RowType
  <2> QED
    BY <1>4, <2>1, <2>3 DEF TypeOK, MediaTypeOK, InsertFile, RowType
<1> QED
  BY <1>1, <1>2, <1>3, <1>4 DEF HeadSome

\* Commenting writes a comment, a review and notifications of the right types.
LEMMA CommentingTyped ==
    ASSUME TypeOK, NEW c \in Comments, asks[c].row \in Posts,
           InsertComment(c) \/ MarkReviewed(c) \/ CommitComment(c)
    PROVE  MediaTypeOK' /\ objects' \subseteq Keys \cup Replaces
<1>1. CASE InsertComment(c)
  <2>1. phase' \in [Calls -> {"idle"} \cup Open \cup Answers]
    BY <1>1, AnswerTyped DEF TypeOK, InsertComment, Open, Answers
  <2> QED
    BY <1>1, <2>1 DEF TypeOK, MediaTypeOK, InsertComment
<1>2. CASE MarkReviewed(c)
  <2>1. phase' \in [Calls -> {"idle"} \cup Open \cup Answers]
    BY <1>2, AnswerTyped DEF TypeOK, MarkReviewed, Open, Answers
  <2>2. PICK e \in BOOLEAN : asks' = [asks EXCEPT ![c].justReviewed = e]
    BY <1>2, Zenon DEF MarkReviewed
  <2>3. asks' \in [Calls -> AskType]
    BY <2>2, AskSet
  <2> QED
    BY <1>2, <2>1, <2>3 DEF TypeOK, MediaTypeOK, MarkReviewed, AskType
<1>3. CASE CommitComment(c)
  <2>1. phase' \in [Calls -> {"idle"} \cup Open \cup Answers]
    BY <1>3, AnswerTyped DEF TypeOK, CommitComment, Open, Answers
  <2>2. rows' \in [Posts -> RowType]
    BY <1>3, RowSet DEF CommitComment
  <2> QED
    BY <1>3, <2>1, <2>2 DEF TypeOK, MediaTypeOK, CommitComment, RowType, Note
<1> QED
  BY <1>1, <1>2, <1>3

\* What a request has loaded is a row there is.
LEMMA LoadingTyped ==
    ASSUME TypeOK, NEW x \in Comments \cup Deletes \cup Moves, NEW p \in Posts, NEW mine,
           LoadVideo(x, p, mine) \/ LoadFile(x, p)
    PROVE  MediaTypeOK' /\ objects' \subseteq Keys \cup Replaces
<1>1. CASE LoadVideo(x, p, mine)
  <2>1. phase' \in [Calls -> {"idle"} \cup Open \cup Answers]
    BY <1>1, AnswerTyped DEF TypeOK, LoadVideo, Open, Answers
  <2>2. asks' = asks \/ asks' = [asks EXCEPT ![x].row = p]
    BY <1>1 DEF LoadVideo
  <2>3. [asks EXCEPT ![x].row = p] \in [Calls -> AskType]
    BY AskSet
  <2>4. asks' \in [Calls -> AskType]
    BY <2>2, <2>3, AskSet
  <2> QED
    BY <1>1, <2>1, <2>4 DEF TypeOK, MediaTypeOK, LoadVideo, AskType, OnVideo
<1>2. CASE LoadFile(x, p)
  <2>1. phase' \in [Calls -> {"idle"} \cup Open \cup Answers]
    BY <1>2, AnswerTyped DEF TypeOK, LoadFile, Open, Answers
  <2>2. asks' = asks \/ asks' = [asks EXCEPT ![x].row = p]
    BY <1>2 DEF LoadFile
  <2>3. [asks EXCEPT ![x].row = p] \in [Calls -> AskType]
    BY AskSet
  <2>4. asks' \in [Calls -> AskType]
    BY <2>2, <2>3, AskSet
  <2> QED
    BY <1>2, <2>1, <2>4 DEF TypeOK, MediaTypeOK, LoadFile, AskType
<1> QED
  BY <1>1, <1>2

\* A deletion leaves rows, comments and the bucket well typed.
LEMMA DeletingTyped ==
    ASSUME TypeOK, NEW d \in Deletes, asks[d].row \in Posts,
           CountComments(d) \/ RemoveObject(d) \/ DeleteRow(d)
    PROVE  MediaTypeOK' /\ objects' \subseteq Keys \cup Replaces
<1>1. CASE CountComments(d)
  <2>1. phase' \in [Calls -> {"idle"} \cup Open \cup Answers]
    BY <1>1, AnswerTyped DEF TypeOK, CountComments, Open, Answers
  <2> QED
    BY <1>1, <2>1 DEF TypeOK, MediaTypeOK, CountComments
<1>2. CASE RemoveObject(d)
  <2>1. phase' \in [Calls -> {"idle"} \cup Open \cup Answers]
    BY <1>2, AnswerTyped DEF TypeOK, RemoveObject, Open, Answers
  <2> QED
    BY <1>2, <2>1 DEF TypeOK, MediaTypeOK, RemoveObject, Remove
<1>3. CASE DeleteRow(d)
  <2>1. phase' \in [Calls -> {"idle"} \cup Open \cup Answers]
    BY <1>3, AnswerTyped DEF TypeOK, DeleteRow, Open, Answers
  <2>2. rows' \in [Posts -> RowType]
    BY <1>3, RowSet DEF DeleteRow
  <2> QED
    BY <1>3, <2>1, <2>2 DEF TypeOK, MediaTypeOK, DeleteRow, RowType
<1> QED
  BY <1>1, <1>2, <1>3

\* PATCH of a video, POST and DELETE of a category.
Reshelve ==
    \/ \E p \in Posts : Revert(p)
    \/ \E g \in Categories : AddCategory(g) \/ DropCategory(g)

\* So do a revert and the adding and dropping of categories.
LEMMA ShelvingTyped ==
    ASSUME TypeOK, Reshelve
    PROVE  MediaTypeOK' /\ objects' \subseteq Keys \cup Replaces
<1>1. rows' \in [Posts -> RowType]
  <2>1. ASSUME NEW p \in Posts, Revert(p)
        PROVE  rows' \in [Posts -> RowType]
    <3>1. [rows EXCEPT ![p].review = "pending"] \in [Posts -> RowType]
      BY RowSet
    <3>2. rows' = [rows EXCEPT ![p].review = "pending"]
      BY <2>1 DEF Revert
    <3> QED
      BY <3>1, <3>2
  <2>2. ASSUME NEW g \in Categories, AddCategory(g)
        PROVE  rows' \in [Posts -> RowType]
    BY <2>2 DEF AddCategory, TypeOK, MediaTypeOK, RowType
  <2>3. ASSUME NEW g \in Categories, DropCategory(g)
        PROVE  rows' \in [Posts -> RowType]
    <3>1. SUFFICES ASSUME NEW q \in Posts
                   PROVE  rows'[q] \in RowType
      BY <2>3 DEF DropCategory
    <3>2. rows'[q] = rows[q] \/ rows'[q] = [rows[q] EXCEPT !.category = None]
      BY <2>3 DEF DropCategory
    <3> QED
      BY <3>2 DEF TypeOK, MediaTypeOK, RowType
  <2> QED
    BY <2>1, <2>2, <2>3 DEF Reshelve
<1>2. shelf' \in [Categories -> {"none", "there", "gone"}]
  BY DEF TypeOK, MediaTypeOK, Reshelve, Revert, AddCategory, DropCategory
<1> QED
  BY <1>1, <1>2 DEF TypeOK, MediaTypeOK, Reshelve, Revert, AddCategory, DropCategory, RowType

\* The two statements of PATCH of a file.
Move(m) ==
    \/ \E g \in Categories \cup {None} : CheckCategory(m, g)
    \/ MoveFile(m)

\* A moved file has a category or none.
LEMMA MovingTyped ==
    ASSUME TypeOK, NEW m \in Moves, asks[m].row \in Posts, Move(m)
    PROVE  MediaTypeOK' /\ objects' \subseteq Keys \cup Replaces
<1>1. ASSUME NEW g \in Categories \cup {None}, CheckCategory(m, g)
      PROVE  MediaTypeOK' /\ objects' \subseteq Keys \cup Replaces
  <2>1. phase' \in [Calls -> {"idle"} \cup Open \cup Answers]
    BY <1>1, AnswerTyped DEF TypeOK, CheckCategory, Open, Answers
  <2>2. asks' = asks \/ asks' = [asks EXCEPT ![m].category = g]
    BY <1>1 DEF CheckCategory
  <2>3. [asks EXCEPT ![m].category = g] \in [Calls -> AskType]
    BY AskSet
  <2>4. asks' \in [Calls -> AskType]
    BY <2>2, <2>3, AskSet
  <2> QED
    BY <1>1, <2>1, <2>4 DEF TypeOK, MediaTypeOK, CheckCategory, AskType
<1>2. CASE MoveFile(m)
  <2>1. phase' \in [Calls -> {"idle"} \cup Open \cup Answers]
    BY <1>2, AnswerTyped DEF TypeOK, MoveFile, Open, Answers
  <2>2. rows' = rows \/ rows' = [rows EXCEPT ![asks[m].row].category = asks[m].category]
    BY <1>2 DEF MoveFile
  <2>3. asks[m].category \in Categories \cup {None}
    BY DEF TypeOK, MediaTypeOK
  <2>4. [rows EXCEPT ![asks[m].row].category = asks[m].category] \in [Posts -> RowType]
    BY <2>3, RowSet
  <2>5. rows' \in [Posts -> RowType]
    BY <2>2, <2>4, RowSet
  <2> QED
    BY <1>2, <2>1, <2>5 DEF TypeOK, MediaTypeOK, MoveFile, RowType
<1> QED
  BY <1>1, <1>2 DEF Move

\* What an abort restores is of the right type.
LEMMA AbortTyped ==
    ASSUME TypeOK, NEW x \in Calls, Abort(x)
    PROVE  MediaTypeOK' /\ objects' \subseteq Keys \cup Replaces
<1>1. phase' \in [Calls -> {"idle"} \cup Open \cup Answers]
  BY AnswerTyped DEF TypeOK, Abort, Open, Answers
<1>2. rows' \in [Posts -> RowType]
  BY DEF TypeOK, MediaTypeOK, Abort, RowType, NoRow
<1> QED
  BY <1>1, <1>2 DEF TypeOK, MediaTypeOK, Abort, RowType

-----------------------------------------------------------------------------
(* Media.                                                                  *)

\* A step of another request leaves uploads as they are, or deletes their rows.
PostsQuiet ==
    \A p \in Posts :
        /\ phase'[p] = phase[p] /\ asks'[p] = asks[p]
        /\ rows'[p].key = rows[p].key
        /\ \/ rows'[p].state = rows[p].state
           \/ Settled(p) /\ rows'[p].state = "gone"

\* A request that is about a row goes on being about it.
RequestsQuiet ==
    \A y \in Calls \ Posts : phase'[y] \in Open =>
        phase[y] \in Open /\ asks'[y].row = asks[y].row

\* Quiet steps keep what requests are about.
LEMMA QuietAbout ==
    ASSUME TypeOK, About, PostsQuiet, RequestsQuiet
    PROVE  About'
BY DEF About, PostsQuiet, RequestsQuiet, Settled

\* Quiet steps record nothing, and so nothing twice.
LEMMA QuietRecorded ==
    ASSUME TypeOK, Pending, RecordedOnce, PostsQuiet
    PROVE  Pending' /\ RecordedOnce'
<1>1. Pending'
  BY DEF Pending, PostsQuiet, Settled
<1>2. RecordedOnce'
  BY DEF RecordedOnce, PostsQuiet, Settled
<1> QED
  BY <1>1, <1>2

\* A request under way, about a row, goes on.
LEMMA QuietAnswer ==
    ASSUME TypeOK, NEW x \in Calls \ Posts, phase[x] \in Open,
           \E a \in Open \cup Answers : Answer(x, a),
           \A y \in Calls : asks'[y].row = asks[y].row /\ (y # x => asks'[y] = asks[y]),
           \A p \in Posts : /\ rows'[p].key = rows[p].key
                            /\ \/ rows'[p].state = rows[p].state
                               \/ Settled(p) /\ rows'[p].state = "gone"
    PROVE  PostsQuiet /\ RequestsQuiet
<1>1. \A y \in Calls : y # x => phase'[y] = phase[y]
  BY DEF Answer, TypeOK, MediaTypeOK
<1> QED
  BY <1>1 DEF PostsQuiet, RequestsQuiet

\* Commenting is quiet.
LEMMA CommentingQuiet ==
    ASSUME IInv, NEW c \in Comments,
           InsertComment(c) \/ MarkReviewed(c) \/ CommitComment(c)
    PROVE  PostsQuiet /\ RequestsQuiet
<1>0. c \in Calls \ Posts /\ phase[c] \in Open /\ asks[c].row \in Posts
  BY MediaAssumption DEF IInv, About, InsertComment, MarkReviewed, CommitComment, Open, TypeOK, MediaTypeOK
<1>1. CASE InsertComment(c)
  BY <1>0, <1>1 DEF PostsQuiet, RequestsQuiet, InsertComment, Answer, IInv, TypeOK, MediaTypeOK
<1>2. CASE MarkReviewed(c)
  <2>1. PICK e : asks' = [asks EXCEPT ![c].justReviewed = e]
    BY <1>2, Zenon DEF MarkReviewed
  <2> QED
    BY <1>0, <1>2, <2>1 DEF PostsQuiet, RequestsQuiet, MarkReviewed, Answer, IInv, TypeOK, MediaTypeOK
<1>3. CASE CommitComment(c)
  BY <1>0, <1>3 DEF PostsQuiet, RequestsQuiet, CommitComment, Answer, IInv, TypeOK, MediaTypeOK
<1> QED
  BY <1>1, <1>2, <1>3

\* Deleting is quiet: the row it deletes was committed.
LEMMA DeletingQuiet ==
    ASSUME IInv, NEW d \in Deletes,
           CountComments(d) \/ RemoveObject(d) \/ DeleteRow(d)
    PROVE  PostsQuiet /\ RequestsQuiet
<1>0. d \in Calls \ Posts /\ phase[d] \in Open /\ asks[d].row \in Posts /\ Settled(asks[d].row)
  BY MediaAssumption DEF IInv, About, CountComments, RemoveObject, DeleteRow, Open, TypeOK, MediaTypeOK
<1>1. CASE CountComments(d)
  BY <1>0, <1>1 DEF PostsQuiet, RequestsQuiet, CountComments, Answer, IInv, TypeOK, MediaTypeOK
<1>2. CASE RemoveObject(d)
  BY <1>0, <1>2 DEF PostsQuiet, RequestsQuiet, RemoveObject, Answer, IInv, TypeOK, MediaTypeOK
<1>3. CASE DeleteRow(d)
  BY <1>0, <1>3 DEF PostsQuiet, RequestsQuiet, DeleteRow, Answer, IInv, TypeOK, MediaTypeOK
<1> QED
  BY <1>1, <1>2, <1>3

\* Reverting and shelving are quiet.
LEMMA ShelvingQuiet ==
    ASSUME IInv, Reshelve
    PROVE  PostsQuiet /\ RequestsQuiet
<1>1. ASSUME NEW p \in Posts, Revert(p)
      PROVE  PostsQuiet /\ RequestsQuiet
  BY <1>1 DEF PostsQuiet, RequestsQuiet, Revert, IInv, TypeOK, MediaTypeOK
<1>2. ASSUME NEW g \in Categories, AddCategory(g)
      PROVE  PostsQuiet /\ RequestsQuiet
  BY <1>2 DEF PostsQuiet, RequestsQuiet, AddCategory
<1>3. ASSUME NEW g \in Categories, DropCategory(g)
      PROVE  PostsQuiet /\ RequestsQuiet
  <2>1. ASSUME NEW q \in Posts
        PROVE  rows'[q].key = rows[q].key /\ rows'[q].state = rows[q].state
    <3>1. rows[q] \in RowType
      BY DEF IInv, TypeOK, MediaTypeOK, RowType
    <3>2. rows'[q] = rows[q] \/ rows'[q] = [rows[q] EXCEPT !.category = None]
      BY <1>3 DEF DropCategory
    <3> QED
      BY <3>1, <3>2 DEF RowType
  <2> QED
    BY <1>3, <2>1 DEF PostsQuiet, RequestsQuiet, DropCategory
<1> QED
  BY <1>1, <1>2, <1>3 DEF Reshelve

\* Moving a file is quiet.
LEMMA MovingQuiet ==
    ASSUME IInv, NEW m \in Moves, Move(m)
    PROVE  PostsQuiet /\ RequestsQuiet
<1>0. m \in Calls \ Posts /\ phase[m] \in Open /\ asks[m].row \in Posts
  BY MediaAssumption DEF IInv, About, Move, CheckCategory, MoveFile, Open, TypeOK, MediaTypeOK
<1>1. ASSUME NEW g \in Categories \cup {None}, CheckCategory(m, g)
      PROVE  PostsQuiet /\ RequestsQuiet
  <2>1. asks' = asks \/ asks' = [asks EXCEPT ![m].category = g]
    BY <1>1 DEF CheckCategory
  <2>2. \A y \in Calls : asks'[y].row = asks[y].row /\ (y # m => asks'[y] = asks[y])
    BY <1>0, <2>1 DEF IInv, TypeOK, MediaTypeOK
  <2> QED
    BY <1>0, <1>1, <2>2, QuietAnswer DEF CheckCategory, IInv, Open, Answers
<1>2. CASE MoveFile(m)
  <2>1. rows' = rows \/ rows' = [rows EXCEPT ![asks[m].row].category = asks[m].category]
    BY <1>2 DEF MoveFile
  <2>2. \A q \in Posts : rows'[q].key = rows[q].key /\ rows'[q].state = rows[q].state
    BY <1>0, <2>1 DEF IInv, TypeOK, MediaTypeOK
  <2> QED
    BY <1>0, <1>2, <2>2, QuietAnswer DEF MoveFile, IInv, Open, Answers
<1> QED
  BY <1>1, <1>2 DEF Move

\* A request finds its row committed.
LEMMA LoadingQuiet ==
    ASSUME IInv, NEW x \in Comments \cup Deletes \cup Moves, NEW p \in Posts, NEW mine,
           LoadVideo(x, p, mine) \/ LoadFile(x, p)
    PROVE  PostsQuiet /\ About'
<1>0. x \in Calls \ Posts
  BY MediaAssumption
<1>1. \/ asks' = asks
      \/ There(p) /\ asks' = [asks EXCEPT ![x].row = p]
  <2>1. CASE LoadVideo(x, p, mine)
    BY <2>1 DEF LoadVideo
  <2>2. CASE LoadFile(x, p)
    BY <2>2 DEF LoadFile
  <2> QED
    BY <2>1, <2>2
<1>2. \A y \in Calls : y # x => asks'[y] = asks[y] /\ phase'[y] = phase[y]
  BY <1>0, <1>1 DEF LoadVideo, LoadFile, Answer, IInv, TypeOK, MediaTypeOK
<1>3. rows' = rows
  BY DEF LoadVideo, LoadFile
<1>4. phase'[x] \in Open => asks'[x].row = p /\ There(p)
  BY <1>0 DEF LoadVideo, LoadFile, Answer, Open, IInv, TypeOK, MediaTypeOK
<1>5. PostsQuiet
  BY <1>0, <1>2, <1>3 DEF PostsQuiet
<1>6. About'
  BY <1>2, <1>3, <1>4 DEF About, Settled, There, IInv
<1> QED
  BY <1>5, <1>6

\* A request that fails takes back what it has not committed.
LEMMA AbortKeeps ==
    ASSUME IInv, NEW x \in Calls, Abort(x)
    PROVE  About' /\ Pending' /\ RecordedOnce' /\ Shelving'
<1>1. \A y \in Calls : phase'[y] = IF y = x THEN "failed" ELSE phase[y]
  BY DEF Abort, Answer, IInv, TypeOK, MediaTypeOK
<1>2. asks' = asks /\ shelf' = shelf
  BY DEF Abort
<1>3. \A p \in Posts : \/ p # x /\ rows'[p] = rows[p]
                       \/ p = x /\ phase[x] # "inserted" /\ rows'[p] = rows[p]
                       \/ p = x /\ phase[x] = "inserted" /\ rows'[p] = NoRow
  BY DEF Abort, IInv, TypeOK, MediaTypeOK
<1>4. NoRow.state = "none"
  BY DEF NoRow
<1>5. About'
  BY <1>1, <1>2, <1>3 DEF About, Settled, Open, Pending, IInv
<1>6. Pending'
  BY <1>1, <1>3, <1>4 DEF Pending, IInv
<1>7. RecordedOnce'
  BY <1>3, <1>4 DEF RecordedOnce, IInv
<1>8. Shelving'
  BY <1>1, <1>2, <1>3, <1>4 DEF Shelving, Shelved, IInv
<1> QED
  BY <1>5, <1>6, <1>7, <1>8

\* A request that records an upload touches nobody else.
LEMMA RecordingAlone ==
    ASSUME IInv, NEW p \in Posts, HeadSome(p) \/ InsertVideo(p) \/ CommitVideo(p) \/ InsertFile(p)
    PROVE  /\ \A y \in Calls : y # p => phase'[y] = phase[y] /\ asks'[y] = asks[y]
           /\ \A q \in Posts : q # p => rows'[q] = rows[q]
           /\ Settled(p) => rows'[p] = rows[p]
           /\ shelf' = shelf
<1>1. /\ p \in Calls
      /\ phase \in [Calls -> {"idle"} \cup Open \cup Answers]
      /\ DOMAIN asks = Calls /\ DOMAIN rows = Posts
  BY DEF IInv, TypeOK, MediaTypeOK, Calls
<1> DEFINE Alone ==
         /\ \A y \in Calls : y # p => phase'[y] = phase[y] /\ asks'[y] = asks[y]
         /\ \A q \in Posts : q # p => rows'[q] = rows[q]
         /\ Settled(p) => rows'[p] = rows[p]
         /\ shelf' = shelf
<1>0. Settled(p) => phase[p] \notin {"headed", "inserted"}
  BY DEF Settled, Pending, IInv
<1>2. ASSUME HeadSome(p)
      PROVE  Alone
  <2>1. PICK k \in Keys, g \in Categories \cup {None}, s \in BOOLEAN : Head(p, k, g, s)
    BY <1>2 DEF HeadSome
  <2>2. rows' = rows /\ shelf' = shelf
    BY <2>1 DEF Head
  <2>3. \E a \in {"headed", "refused"} : phase' = [phase EXCEPT ![p] = a]
    BY <2>1 DEF Head, Answer
  <2>4. \/ asks' = asks
        \/ asks' = [asks EXCEPT ![p] = [@ EXCEPT !.key = k, !.category = g, !.ofStudent = s]]
    BY <2>1 DEF Head
  <2> QED
    BY <1>1, <2>2, <2>3, <2>4
<1>3. ASSUME InsertVideo(p)
      PROVE  Alone
  BY <1>0, <1>1, <1>3 DEF InsertVideo, Answer
<1>4. ASSUME CommitVideo(p)
      PROVE  Alone
  BY <1>0, <1>1, <1>4 DEF CommitVideo, Answer
<1>5. ASSUME InsertFile(p)
      PROVE  Alone
  BY <1>0, <1>1, <1>5 DEF InsertFile, Answer
<1> QED
  BY <1>2, <1>3, <1>4, <1>5

\* Recording an upload.
LEMMA RecordingKeeps ==
    ASSUME IInv, NEW p \in Posts, HeadSome(p) \/ InsertVideo(p) \/ CommitVideo(p) \/ InsertFile(p)
    PROVE  About' /\ Pending' /\ RecordedOnce' /\ Shelving'
<1>0. /\ \A y \in Calls : y # p => phase'[y] = phase[y] /\ asks'[y] = asks[y]
      /\ \A q \in Posts : q # p => rows'[q] = rows[q]
      /\ shelf' = shelf
  BY RecordingAlone
<1>1. Settled(p) => rows'[p] = rows[p]
  BY RecordingAlone
<1>2. About'
  BY <1>0, <1>1 DEF About, Settled, IInv
<1>3. ASSUME NEW k \in Keys, NEW g \in Categories \cup {None}, NEW s \in BOOLEAN, Head(p, k, g, s)
      PROVE  About' /\ Pending' /\ RecordedOnce' /\ Shelving'
  <2>1. rows' = rows
    BY <1>3 DEF Head
  <2>2. phase'[p] \in {"headed", "refused"} /\ phase[p] = "idle"
    BY <1>3 DEF Head, Answer, IInv, TypeOK, MediaTypeOK
  <2>3. phase'[p] = "headed" => asks'[p].key = k /\ asks'[p].category = g
    BY <1>3 DEF Head, Answer, IInv, TypeOK, MediaTypeOK
  <2>4. k \in VideoKeys => g = None
    BY <1>3, MediaAssumption DEF Head
  <2>5. Pending' /\ RecordedOnce'
    BY <1>0, <2>1, <2>2 DEF Pending, RecordedOnce, IInv
  <2>6. Shelving'
    BY <1>0, <2>1, <2>2, <2>3, <2>4 DEF Shelving, Shelved, IInv
  <2> QED
    BY <1>2, <2>5, <2>6
<1>4. CASE InsertVideo(p)
  <2>1. CASE Recorded(asks[p].key)
    BY <1>0, <1>2, <1>4, <2>1
       DEF InsertVideo, Answer, Pending, RecordedOnce, Shelving, Shelved, IInv, TypeOK, MediaTypeOK
  <2>2. CASE ~Recorded(asks[p].key)
    <3>1. /\ phase[p] = "headed" /\ phase'[p] = "inserted"
          /\ asks' = asks /\ asks[p].key \in VideoKeys
      BY <1>4, <2>2 DEF InsertVideo, Answer, IInv, TypeOK, MediaTypeOK
    <3>2. rows'[p].state = "pending" /\ rows'[p].key = asks[p].key /\ rows'[p].category = None
      BY <1>4, <2>2, <3>1 DEF InsertVideo, NewRow, Shelving, IInv, TypeOK, MediaTypeOK
    <3>3. \A q \in Posts : rows[q].state \in {"pending", "there"} => rows[q].key # asks[p].key
      BY <1>4, <2>2 DEF InsertVideo, Recorded, There
    <3>4. Pending'
      BY <1>0, <3>1, <3>2 DEF Pending, IInv
    <3>5. RecordedOnce'
      BY <1>0, <3>2, <3>3 DEF RecordedOnce, IInv
    <3>6. Shelving'
      BY <1>0, <3>1, <3>2 DEF Shelving, Shelved, IInv
    <3> QED
      BY <1>2, <3>4, <3>5, <3>6
  <2> QED
    BY <2>1, <2>2
<1>5. CASE CommitVideo(p)
  <2>1. phase[p] = "inserted" /\ phase'[p] = "ok" /\ asks' = asks
    BY <1>5 DEF CommitVideo, Answer, IInv, TypeOK, MediaTypeOK
  <2>2. rows[p].state = "pending"
    BY <2>1 DEF Pending, IInv
  <2>3. /\ rows'[p].state = "there" /\ rows'[p].key = rows[p].key
        /\ rows'[p].category = rows[p].category
    BY <1>5 DEF CommitVideo, IInv, TypeOK, MediaTypeOK
  <2>4. Pending'
    BY <1>0, <2>1, <2>3 DEF Pending, IInv
  <2>5. RecordedOnce'
    BY <1>0, <2>2, <2>3 DEF RecordedOnce, IInv
  <2>6. Shelving'
    BY <1>0, <2>1, <2>2, <2>3 DEF Shelving, Shelved, IInv
  <2> QED
    BY <1>2, <2>4, <2>5, <2>6
<1>6. CASE InsertFile(p)
  <2>1. phase[p] = "headed" /\ asks' = asks
    BY <1>6 DEF InsertFile
  <2>2. CASE rows' = rows
    <3>1. phase'[p] \in {"failed", "refused", "ok"}
      BY <1>6 DEF InsertFile, Answer, IInv, TypeOK, MediaTypeOK
    <3>2. Pending' /\ RecordedOnce'
      BY <1>0, <2>1, <2>2, <3>1 DEF Pending, RecordedOnce, IInv
    <3>3. Shelving'
      BY <1>0, <2>1, <2>2, <3>1 DEF Shelving, Shelved, IInv
    <3> QED
      BY <1>2, <3>2, <3>3
  <2>3. CASE rows' # rows
    <3>1. /\ Shelved(asks[p].category) /\ ~Recorded(asks[p].key)
          /\ phase'[p] = "ok" /\ rows' = [rows EXCEPT ![p] = NewRow(p, "there")]
      BY <1>6, <2>3 DEF InsertFile, Answer, IInv, TypeOK, MediaTypeOK
    <3>2. /\ rows'[p].state = "there" /\ rows'[p].key = asks[p].key
          /\ rows'[p].category = asks[p].category
      BY <3>1 DEF NewRow, IInv, TypeOK, MediaTypeOK
    <3>3. asks[p].key \in FileKeys /\ asks[p].key \notin VideoKeys
      BY <1>6, MediaAssumption DEF InsertFile
    <3>4. \A q \in Posts : rows[q].state \in {"pending", "there"} => rows[q].key # asks[p].key
      BY <3>1, <3>3 DEF Recorded, There, Pending, IInv
    <3>5. Pending'
      BY <1>0, <2>1, <3>1, <3>2 DEF Pending, IInv
    <3>6. RecordedOnce'
      BY <1>0, <3>2, <3>4 DEF RecordedOnce, IInv
    <3>7. Shelving'
      BY <1>0, <2>1, <3>1, <3>2 DEF Shelving, Shelved, IInv
    <3> QED
      BY <1>2, <3>5, <3>6, <3>7
  <2> QED
    BY <2>2, <2>3
<1> QED
  BY <1>3, <1>4, <1>5, <1>6 DEF HeadSome

\* A quiet step that leaves shelves and categories alone keeps files shelved.
LEMMA QuietShelving ==
    ASSUME IInv, PostsQuiet, shelf' = shelf,
           \A p \in Posts : rows'[p].category = rows[p].category
    PROVE  Shelving'
BY DEF IInv, Shelving, Shelved, PostsQuiet, Settled

\* Comments leave the shelves alone.
LEMMA CommentingShelving ==
    ASSUME IInv, NEW c \in Comments, InsertComment(c) \/ MarkReviewed(c) \/ CommitComment(c)
    PROVE  Shelving'
<1>1. shelf' = shelf /\ \A p \in Posts : rows'[p].category = rows[p].category
  BY DEF InsertComment, MarkReviewed, CommitComment, IInv, TypeOK, MediaTypeOK
<1> QED
  BY <1>1, QuietShelving, CommentingQuiet

\* Deletions leave the shelves alone.
LEMMA DeletingShelving ==
    ASSUME IInv, NEW d \in Deletes, CountComments(d) \/ RemoveObject(d) \/ DeleteRow(d)
    PROVE  Shelving'
<1>1. CASE CountComments(d) \/ RemoveObject(d)
  BY <1>1, QuietShelving, DeletingQuiet DEF CountComments, RemoveObject
<1>2. CASE DeleteRow(d)
  <2>1. shelf' = shelf /\ rows' = [rows EXCEPT ![asks[d].row].state = "gone"]
    BY <1>2 DEF DeleteRow
  <2>2. \A p \in Posts : rows'[p].category = rows[p].category
    BY <2>1 DEF IInv, TypeOK, MediaTypeOK
  <2> QED
    BY <1>2, <2>1, <2>2, QuietShelving, DeletingQuiet
<1> QED
  BY <1>1, <1>2

\* So does a look at a row.
LEMMA LoadingShelving ==
    ASSUME IInv, NEW x \in Comments \cup Deletes \cup Moves, NEW p \in Posts, NEW mine,
           LoadVideo(x, p, mine) \/ LoadFile(x, p)
    PROVE  Shelving'
<1>1. shelf' = shelf /\ rows' = rows
  BY DEF LoadVideo, LoadFile
<1> QED
  BY <1>1, QuietShelving, LoadingQuiet

\* A dropped category takes itself off every row.
LEMMA CategoriesShelving ==
    ASSUME IInv, Reshelve
    PROVE  Shelving'
<1>0. PostsQuiet
  BY ShelvingQuiet
<1>1. ASSUME NEW p \in Posts, Revert(p)
      PROVE  Shelving'
  <2>1. shelf' = shelf /\ \A q \in Posts : rows'[q].category = rows[q].category
    BY <1>1 DEF Revert, IInv, TypeOK, MediaTypeOK
  <2> QED
    BY <1>0, <2>1, QuietShelving
<1>2. ASSUME NEW g \in Categories, AddCategory(g)
      PROVE  Shelving'
  <2>1. \A h \in Categories : shelf[h] = "there" => shelf'[h] = "there"
    BY <1>2 DEF AddCategory, IInv, TypeOK, MediaTypeOK
  <2>2. rows' = rows /\ phase' = phase /\ asks' = asks
    BY <1>2 DEF AddCategory
  <2>3. \A q \in Posts : rows[q].category \in Categories \cup {None}
    BY DEF IInv, TypeOK, MediaTypeOK
  <2> QED
    BY <2>1, <2>2, <2>3 DEF Shelving, Shelved, IInv
<1>3. ASSUME NEW g \in Categories, DropCategory(g)
      PROVE  Shelving'
  <2>1. \A h \in Categories : h # g => shelf'[h] = shelf[h]
    BY <1>3 DEF DropCategory, IInv, TypeOK, MediaTypeOK
  <2>2. phase' = phase /\ asks' = asks
    BY <1>3 DEF DropCategory
  <2>3. ASSUME NEW q \in Posts
        PROVE  /\ rows'[q].state = rows[q].state
               /\ \/ rows'[q].category = None
                  \/ rows'[q].category = rows[q].category /\ rows[q].category # g
    <3>1. rows[q] \in RowType
      BY DEF IInv, TypeOK, MediaTypeOK, RowType
    <3>2. \/ rows'[q] = rows[q] /\ rows[q].category # g
          \/ rows'[q] = [rows[q] EXCEPT !.category = None]
      BY <1>3 DEF DropCategory
    <3> QED
      BY <3>1, <3>2 DEF RowType
  <2>4. \A q \in Posts : rows[q].category \in Categories \cup {None}
    BY DEF IInv, TypeOK, MediaTypeOK
  <2> QED
    BY <2>1, <2>2, <2>3, <2>4 DEF Shelving, Shelved, IInv
<1> QED
  BY <1>1, <1>2, <1>3 DEF Reshelve

\* A file is moved to a shelf there is at that moment.
LEMMA MovingShelving ==
    ASSUME IInv, NEW m \in Moves, Move(m)
    PROVE  Shelving'
<1>0. PostsQuiet
  BY MovingQuiet
<1>1. ASSUME NEW g \in Categories \cup {None}, CheckCategory(m, g)
      PROVE  Shelving'
  <2>1. shelf' = shelf /\ \A q \in Posts : rows'[q].category = rows[q].category
    BY <1>1 DEF CheckCategory
  <2> QED
    BY <1>0, <2>1, QuietShelving
<1>2. CASE MoveFile(m)
  <2>1. \/ rows' = rows
        \/ /\ Shelved(asks[m].category)
           /\ rows' = [rows EXCEPT ![asks[m].row].category = asks[m].category]
    BY <1>2 DEF MoveFile
  <2>2. shelf' = shelf
    BY <1>2 DEF MoveFile
  <2>3. \A q \in Posts : \/ rows'[q].category = rows[q].category
                         \/ Shelved(asks[m].category) /\ rows'[q].category = asks[m].category
    BY <2>1 DEF IInv, TypeOK, MediaTypeOK
  <2> QED
    BY <1>0, <2>2, <2>3 DEF Shelving, Shelved, PostsQuiet, Settled, IInv
<1> QED
  BY <1>1, <1>2 DEF Move

\* A request finds a picture's object where it was, whatever is uploaded,
\* recorded and deleted.
LEMMA MediaSparesPictures ==
    ASSUME IInv, MediaNext, NEW k \in Replaces, k \in objects
    PROVE  k \in objects'
<1>1. ASSUME NEW d \in Deletes, RemoveObject(d)
      PROVE  k \in objects'
  <2>1. asks[d].row \in Posts
    BY <1>1, MediaAssumption DEF RemoveObject, About, Open, IInv
  <2>2. rows[asks[d].row].key \in Keys \cup {None}
    BY <2>1 DEF IInv, TypeOK, MediaTypeOK
  <2>3. k # rows[asks[d].row].key
    BY <2>2, ImagesAssumption, KeysDiffer
  <2> QED
    BY <1>1, <2>3 DEF RemoveObject, Remove
<1>2. ASSUME NEW j \in Keys, Upload(j)
      PROVE  k \in objects'
  BY <1>2 DEF Upload, Store
<1>3. CASE UNCHANGED objects
  BY <1>3
<1>4. \/ \E d \in Deletes : RemoveObject(d)
      \/ \E j \in Keys : Upload(j)
      \/ UNCHANGED objects
  BY ZenonT(30)
     DEF MediaNext, Head, InsertVideo, CommitVideo, InsertFile, Revert, LoadVideo, InsertComment,
         MarkReviewed, CommitComment, LoadFile, CountComments, DeleteRow, AddCategory,
         DropCategory, CheckCategory, MoveFile, Abort
<1> QED
  BY <1>1, <1>2, <1>3, <1>4

\* A request about videos or files keeps the invariant.
LEMMA MediaStep ==
    ASSUME IInv, MediaNext, UNCHANGED imagesVars
    PROVE  IInv'
<1> USE DEF IInv
<1>1. Pictures'
  <2>1. UNCHANGED <<holders, picture, step, found>>
    BY DEF imagesVars
  <2>2. \A h \in Holders : picture[h] # None => picture[h] \in Replaces
    BY DEF TypeOK, ImagesTypeOK
  <2> QED
    BY <2>1, <2>2, MediaSparesPictures
       DEF Pictures, Dropped, Shown, FoundSet, Put, Superseded, PictureStored
<1>2. ImagesTypeOK'
  BY DEF TypeOK, ImagesTypeOK, imagesVars
<1> DEFINE Kept == /\ MediaTypeOK' /\ objects' \subseteq Keys \cup Replaces
                   /\ About' /\ Pending' /\ RecordedOnce' /\ Shelving'
<1>3. ASSUME NEW k \in Keys, Upload(k)
      PROVE  Kept
  <2>1. MediaTypeOK' /\ objects' \subseteq Keys \cup Replaces
    BY <1>3 DEF Upload, Store, mediaVars, TypeOK, MediaTypeOK
  <2> QED
    BY <1>3, <2>1 DEF Upload, mediaVars, About, Settled, Pending, RecordedOnce, Shelving, Shelved
<1>4. ASSUME NEW p \in Posts, HeadSome(p) \/ InsertVideo(p) \/ CommitVideo(p) \/ InsertFile(p)
      PROVE  Kept
  BY <1>4, UploadingTyped, RecordingKeeps
<1>5. ASSUME Reshelve
      PROVE  Kept
  BY <1>5, ShelvingTyped, ShelvingQuiet, CategoriesShelving, QuietAbout, QuietRecorded
<1>6. ASSUME NEW c \in Comments, InsertComment(c) \/ MarkReviewed(c) \/ CommitComment(c)
      PROVE  Kept
  <2>1. asks[c].row \in Posts
    BY <1>6, MediaAssumption DEF InsertComment, MarkReviewed, CommitComment, About, Open
  <2> QED
    BY <1>6, <2>1, CommentingTyped, CommentingQuiet, CommentingShelving, QuietAbout, QuietRecorded
<1>7. ASSUME NEW d \in Deletes, CountComments(d) \/ RemoveObject(d) \/ DeleteRow(d)
      PROVE  Kept
  <2>1. asks[d].row \in Posts
    BY <1>7, MediaAssumption DEF CountComments, RemoveObject, DeleteRow, About, Open
  <2> QED
    BY <1>7, <2>1, DeletingTyped, DeletingQuiet, DeletingShelving, QuietAbout, QuietRecorded
<1>8. ASSUME NEW x \in Comments \cup Deletes \cup Moves, NEW p \in Posts, NEW mine,
             LoadVideo(x, p, mine) \/ LoadFile(x, p)
      PROVE  Kept
  BY <1>8, LoadingTyped, LoadingQuiet, LoadingShelving, QuietRecorded
<1>9. ASSUME NEW m \in Moves, Move(m)
      PROVE  Kept
  <2>1. asks[m].row \in Posts
    BY <1>9, MediaAssumption DEF Move, CheckCategory, MoveFile, About, Open
  <2> QED
    BY <1>9, <2>1, MovingTyped, MovingQuiet, MovingShelving, QuietAbout, QuietRecorded
<1>10. ASSUME NEW x \in Calls, Abort(x)
       PROVE  Kept
  BY <1>10, AbortTyped, AbortKeeps
<1>11. Kept
  BY <1>3, <1>4, <1>5, <1>6, <1>7, <1>8, <1>9, <1>10, Zenon
     DEF MediaNext, HeadSome, Reshelve, Move
<1> QED
  BY <1>1, <1>2, <1>11 DEF TypeOK

-----------------------------------------------------------------------------
(* Images.                                                                 *)

\* Requests about pictures leave everything well typed.
LEMMA ImagesTyped ==
    ASSUME TypeOK, ImagesNext
    PROVE  ImagesTypeOK' /\ objects' \subseteq Keys \cup Replaces
<1>1. ASSUME NEW x \in Changers, NEW h \in Holders, FindHolder(x, h)
      PROVE  ImagesTypeOK' /\ objects' \subseteq Keys \cup Replaces
  BY <1>1 DEF TypeOK, ImagesTypeOK, FindHolder, To
<1>2. ASSUME NEW x \in Changers, PutPicture(x)
      PROVE  ImagesTypeOK' /\ objects' \subseteq Keys \cup Replaces
  BY <1>2 DEF TypeOK, ImagesTypeOK, PutPicture, To, Store
<1>3. ASSUME NEW x \in Changers, SetPicture(x)
      PROVE  ImagesTypeOK' /\ objects' \subseteq Keys \cup Replaces
  BY <1>3 DEF TypeOK, ImagesTypeOK, SetPicture, To
<1>4. ASSUME NEW x \in Changers, RemoveOld(x)
      PROVE  ImagesTypeOK' /\ objects' \subseteq Keys \cup Replaces
  BY <1>4 DEF TypeOK, ImagesTypeOK, RemoveOld, To, Remove
<1>5. ASSUME NEW x \in Changers, Stop(x)
      PROVE  ImagesTypeOK' /\ objects' \subseteq Keys \cup Replaces
  BY <1>5 DEF TypeOK, ImagesTypeOK, Stop, To
<1>6. ASSUME NEW h \in Holders, DropCourse(h)
      PROVE  ImagesTypeOK' /\ objects' \subseteq Keys \cup Replaces
  BY <1>6 DEF TypeOK, ImagesTypeOK, DropCourse
<1> QED
  BY <1>1, <1>2, <1>3, <1>4, <1>5, <1>6 DEF ImagesNext

\* The heart of it: what a request removes was replaced by itself, or by
\* somebody before it, and is shown nowhere.
LEMMA ImagesPictures ==
    ASSUME TypeOK, Pictures, ImagesNext
    PROVE  Pictures'
<1> USE DEF TypeOK, ImagesTypeOK, Pictures, To
<1>1. ASSUME NEW x \in Changers, NEW h \in Holders, FindHolder(x, h)
      PROVE  Pictures'
  <2>1. /\ picture' = picture /\ objects' = objects
        /\ step[x] = "idle" /\ step'[x] \in {"found", "refused"}
        /\ \A y \in Changers : y # x => step'[y] = step[y] /\ found'[y] = found[y]
        /\ \/ found'[x] = found[x]
           \/ found'[x] = [holder |-> h, key |-> picture[h]]
    BY <1>1 DEF FindHolder
  <2>2. \A y \in Changers : found[y].key # None => found[y].key \in Replaces
    OBVIOUS
  <2>3. \A g \in Holders : picture[g] # None => picture[g] \in Replaces /\ picture[g] # x
    BY <2>1 DEF Shown, Unset
  <2>4. Shown'
    BY <2>1, <2>3 DEF Shown, Unset
  <2>5. FoundSet'
    BY <2>1, <2>2, <2>3 DEF Shown, FoundSet, Unset
  <2>6. Dropped' /\ Put' /\ Superseded' /\ PictureStored'
    BY <1>1, <2>1 DEF FindHolder, Dropped, Put, Superseded, PictureStored
  <2> QED
    BY <2>4, <2>5, <2>6
<1>2. ASSUME NEW x \in Changers, PutPicture(x)
      PROVE  Pictures'
  BY <1>2 DEF PutPicture, Store, Dropped, Shown, FoundSet, Put, Superseded, PictureStored, Unset
<1>3. ASSUME NEW x \in Changers, SetPicture(x)
      PROVE  Pictures'
  <2>1. /\ step[x] = IF x \in Replaces THEN "put" ELSE "found"
        /\ step' = [step EXCEPT ![x] = "set"]
        /\ UNCHANGED <<holders, found, objects>>
    BY <1>3 DEF SetPicture
  <2>2. \A h \in Holders :
           \/ picture'[h] = picture[h] /\ ~(h = found[x].holder /\ h \in holders)
           \/ /\ h = found[x].holder /\ h \in holders
              /\ picture'[h] = IF x \in Replaces THEN x ELSE None
    BY <1>3 DEF SetPicture
  <2>3. x \in Replaces => step[x] = "put" /\ x \in objects
    BY <2>1 DEF Put
  <2>4. \A y \in Changers : found[y].key # None => found[y].key \in Replaces /\ found[y].key # x
    BY <2>1 DEF FoundSet, Unset
  <2>5. Dropped' /\ Shown'
    BY <2>1, <2>2 DEF Dropped, Shown, Unset
  <2>6. FoundSet' /\ Put'
    BY <2>1, <2>4 DEF FoundSet, Put, Unset
  <2>7. PictureStored'
    BY <2>1, <2>2, <2>3 DEF PictureStored
  <2>8. ASSUME NEW h \in Holders, picture'[h] # None
        PROVE  picture'[h] # found[x].key
    BY <2>1, <2>2, <2>4, <2>8 DEF Dropped, Shown, FoundSet
  <2>9. Superseded'
    BY <2>1, <2>2, <2>4, <2>8 DEF Superseded
  <2> QED
    BY <2>5, <2>6, <2>7, <2>9
<1>4. ASSUME NEW x \in Changers, RemoveOld(x)
      PROVE  Pictures'
  BY <1>4 DEF RemoveOld, Remove, Dropped, Shown, FoundSet, Put, Superseded, PictureStored, Unset
<1>5. ASSUME NEW x \in Changers, Stop(x)
      PROVE  Pictures'
  BY <1>5 DEF Stop, Dropped, Shown, FoundSet, Put, Superseded, PictureStored, Unset
<1>6. ASSUME NEW h \in Holders, DropCourse(h)
      PROVE  Pictures'
  BY <1>6, ImagesAssumption DEF DropCourse, Dropped, Shown, FoundSet, Put, Superseded, PictureStored, Unset
<1> QED
  BY <1>1, <1>2, <1>3, <1>4, <1>5, <1>6 DEF ImagesNext

\* A request about pictures keeps the invariant.
LEMMA ImagesStep ==
    ASSUME IInv, ImagesNext, UNCHANGED mediaVars
    PROVE  IInv'
<1>1. ImagesTypeOK' /\ objects' \subseteq Keys \cup Replaces /\ Pictures'
  BY ImagesTyped, ImagesPictures DEF IInv
<1>2. MediaTypeOK' /\ About' /\ Pending' /\ RecordedOnce' /\ Shelving'
  BY DEF IInv, mediaVars, TypeOK, MediaTypeOK, About, Settled, Pending, RecordedOnce,
         Shelving, Shelved
<1> QED
  BY <1>1, <1>2 DEF IInv, TypeOK

-----------------------------------------------------------------------------
(* The theorems.                                                           *)

\* The invariant holds before the first request.
LEMMA InitInv == Init => IInv
<1> SUFFICES ASSUME Init
             PROVE  IInv
  OBVIOUS
<1>1. TypeOK
  BY InitTyped
<1>2. About /\ Pending /\ RecordedOnce /\ Shelving
  BY DEF Init, MediaInit, NoRow, Open, About, Pending, RecordedOnce, Shelving
<1>3. Pictures
  BY DEF Init, ImagesInit, Pictures, Dropped, Shown, FoundSet, Put, Superseded, PictureStored
<1> QED
  BY <1>1, <1>2, <1>3 DEF IInv

\* Storage keeps its inductive invariant.
THEOREM Invariance == Spec => []IInv
<1>1. IInv /\ [Next]_vars => IInv'
  <2> SUFFICES ASSUME IInv, [Next]_vars
               PROVE  IInv'
    OBVIOUS
  <2>1. CASE Next
    BY <2>1, MediaStep, ImagesStep DEF Next
  <2>2. CASE UNCHANGED vars
    BY <2>2
       DEF vars, IInv, TypeOK, MediaTypeOK, ImagesTypeOK, About, Settled, Pending, RecordedOnce,
           Shelving, Shelved, Pictures, Dropped, Shown, FoundSet, Put, Superseded, PictureStored
  <2> QED
    BY <2>1, <2>2
<1> QED
  BY InitInv, <1>1, PTL DEF Spec

\* Everything stored has its column's type, and the bucket holds only keys that
\* were handed out.
THEOREM TypeCorrect == Spec => []TypeOK
BY Invariance, PTL DEF IInv

\* The picture an organization or a course shows is in the bucket, however many
\* requests replace, clear and delete, in videos and library too.
THEOREM PicturesStored == Spec => []PictureStored
BY Invariance, PTL DEF IInv, Pictures

\* However often its confirmation is sent, an upload is one row.
THEOREM UploadsRecordedOnce == Spec => []OneRowPerUpload
<1>1. IInv => OneRowPerUpload
  BY DEF IInv, RecordedOnce, OneRowPerUpload, There
<1> QED
  BY Invariance, <1>1, PTL

\* No file is left on a shelf that was taken away while it was being put there.
THEOREM FilesShelved == Spec => []ShelvedFiles
<1>1. IInv => ShelvedFiles
  BY DEF IInv, Shelving, ShelvedFiles, There
<1> QED
  BY Invariance, <1>1, PTL

-----------------------------------------------------------------------------
(* Feedback: what comments and deletions do to each other.                  *)

\* A comment, a deletion or a move is about no row before it has found one, and
\* then always about the one it has found.
Aiming ==
    \A x \in Calls \ Posts :
        /\ phase[x] = "idle" => asks[x].row = None
        /\ asks[x].row # None => asks[x].row \in Posts /\ Settled(asks[x].row)

\* A comment is uncommitted exactly while its request is between INSERT and COMMIT.
Saying ==
    \A c \in Comments :
        /\ phase[c] \in {"idle", "loaded"} => comment[c] = "none"
        /\ comment[c] = "pending" <=> phase[c] \in {"commented", "marked"}
        /\ comment[c] \in {"there", "gone"} => phase[c] = "ok"
        /\ comment[c] \in {"pending", "there", "gone"} => asks[c].row # None

\* A deletion past its count has found nothing, or nothing that is still there.
Counted(d) ==
    /\ before[d] \subseteq Comments
    /\ phase[d] = "idle" => before[d] = {}
    /\ \A c \in before[d] :
          /\ comment[c] \in {"there", "gone"}
          /\ asks[d].row # None /\ asks[c].row = asks[d].row
    /\ phase[d] \in {"counted", "removed"} => \A c \in before[d] : comment[c] = "gone"
    /\ phase[d] = "loaded" /\ ~IsVideo(asks[d].row) => before[d] = {}

Counting == \A d \in Deletes : Counted(d)

\* Staff who mark a video as reviewed have it to themselves and know what it was.
Marking ==
    \A c \in Comments :
        /\ phase[c] = "marked" =>
              /\ c \in StaffComments
              /\ \A y \in Comments :
                    phase[y] \in {"commented", "marked"} /\ asks[y].row = asks[c].row => y = c
              /\ asks[c].justReviewed <=> rows[asks[c].row].review = "pending"
        /\ phase[c] \in {"idle", "loaded", "commented"} => ~asks[c].justReviewed
        /\ \A n \in notes : n.by = c => phase[c] = "ok"

\* The key's object was taken by a DELETE of a row that has it.
Taken(k) == \E d \in Deletes : asks[d].row # None /\ rows[asks[d].row].key = k

\* An upload that is recorded, or about to be, is in the bucket or was taken.
Backing ==
    \A p \in Posts :
        /\ phase[p] = "headed" /\ asks[p].key \notin objects => Taken(asks[p].key)
        /\ rows[p].state \in {"pending", "there"} /\ rows[p].key \notin objects =>
              Taken(rows[p].key)

Feedback == Aiming /\ Saying /\ Counting /\ Marking /\ Backing

\* No step makes a request be about another row, or a row another upload's.
Steady ==
    /\ \A p \in Posts : Settled(p) => Settled(p)' /\ rows'[p].key = rows[p].key
    /\ \A x \in Calls \ Posts : asks[x].row # None => asks'[x].row = asks[x].row

\* What the other requests do to the requests about a row.
LEMMA QuietSteady ==
    ASSUME IInv, Aiming, PostsQuiet,
           \A x \in Calls \ Posts :
              asks'[x].row = asks[x].row /\ (phase'[x] = "idle" => phase[x] = "idle")
    PROVE  Steady /\ Aiming'
BY DEF Aiming, Steady, PostsQuiet, Settled

\* Whatever happens, rows keep their keys and requests their rows.
LEMMA AimingStep ==
    ASSUME IInv, Aiming, MediaNext
    PROVE  Steady /\ Aiming'
<1> USE DEF IInv, TypeOK, MediaTypeOK
<1>1. ASSUME NEW k \in Keys, Upload(k)
      PROVE  Steady /\ Aiming'
  BY <1>1 DEF Upload, mediaVars, Steady, Aiming, Settled
<1>2. ASSUME NEW p \in Posts, HeadSome(p) \/ InsertVideo(p) \/ CommitVideo(p) \/ InsertFile(p)
      PROVE  Steady /\ Aiming'
  <2>1. Settled(p) => rows'[p] = rows[p]
    BY <1>2, RecordingAlone
  <2>2. /\ \A y \in Calls \ Posts : phase'[y] = phase[y] /\ asks'[y] = asks[y]
        /\ \A q \in Posts : q # p => rows'[q] = rows[q]
    BY <1>2, RecordingAlone
  <2>3. \A q \in Posts : Settled(q) => Settled(q)' /\ rows'[q].key = rows[q].key
    BY <2>1, <2>2 DEF Settled
  <2>4. Steady
    BY <2>2, <2>3 DEF Steady
  <2>5. Aiming'
    BY <2>2, <2>3 DEF Aiming
  <2> QED
    BY <2>4, <2>5
<1>3. ASSUME Reshelve
      PROVE  Steady /\ Aiming'
  <2>1. UNCHANGED <<phase, asks>>
    BY <1>3 DEF Reshelve, Revert, AddCategory, DropCategory
  <2> QED
    BY <1>3, <2>1, ShelvingQuiet, QuietSteady
<1>4. ASSUME NEW c \in Comments, InsertComment(c) \/ MarkReviewed(c) \/ CommitComment(c)
      PROVE  Steady /\ Aiming'
  <2>1. PostsQuiet
    BY <1>4, CommentingQuiet
  <2>2. \A y \in Calls : asks'[y].row = asks[y].row
    <3>1. CASE MarkReviewed(c)
      <4>1. PICK e : asks' = [asks EXCEPT ![c].justReviewed = e]
        BY <3>1, Zenon DEF MarkReviewed
      <4> QED
        BY <4>1
    <3>2. CASE InsertComment(c) \/ CommitComment(c)
      BY <3>2 DEF InsertComment, CommitComment
    <3> QED
      BY <1>4, <3>1, <3>2
  <2>3. \A y \in Calls : phase'[y] = "idle" => phase[y] = "idle"
    BY <1>4 DEF InsertComment, MarkReviewed, CommitComment, Answer
  <2> QED
    BY <2>1, <2>2, <2>3, QuietSteady
<1>5. ASSUME NEW d \in Deletes, CountComments(d) \/ RemoveObject(d) \/ DeleteRow(d)
      PROVE  Steady /\ Aiming'
  <2>1. PostsQuiet
    BY <1>5, DeletingQuiet
  <2>2. UNCHANGED asks /\ \A y \in Calls : phase'[y] = "idle" => phase[y] = "idle"
    BY <1>5 DEF CountComments, RemoveObject, DeleteRow, Answer
  <2> QED
    BY <2>1, <2>2, QuietSteady
<1>6. ASSUME NEW x \in Comments \cup Deletes \cup Moves, NEW p \in Posts, NEW mine,
             LoadVideo(x, p, mine) \/ LoadFile(x, p)
      PROVE  Steady /\ Aiming'
  <2>1. /\ phase[x] = "idle" /\ phase'[x] # "idle" /\ UNCHANGED rows
        /\ \A y \in Calls \ {x} : phase'[y] = phase[y] /\ asks'[y] = asks[y]
        /\ \/ asks'[x] = asks[x]
           \/ There(p) /\ asks'[x].row = p
    BY <1>6 DEF LoadVideo, LoadFile, Answer
  <2>2. Steady
    BY <2>1 DEF Steady, Aiming, Settled
  <2>3. Aiming'
    BY <2>1 DEF Aiming, Settled, There
  <2> QED
    BY <2>2, <2>3
<1>7. ASSUME NEW m \in Moves, Move(m)
      PROVE  Steady /\ Aiming'
  <2>1. PostsQuiet
    BY <1>7, MovingQuiet
  <2>2. \A y \in Calls : asks'[y].row = asks[y].row
    <3>1. UNCHANGED asks \/ \E g : asks' = [asks EXCEPT ![m].category = g]
      BY <1>7 DEF Move, CheckCategory, MoveFile
    <3> QED
      BY <3>1
  <2>3. \A y \in Calls : phase'[y] = "idle" => phase[y] = "idle"
    BY <1>7 DEF Move, CheckCategory, MoveFile, Answer
  <2> QED
    BY <2>1, <2>2, <2>3, QuietSteady
<1>8. ASSUME NEW x \in Calls, Abort(x)
      PROVE  Steady /\ Aiming'
  <2>1. UNCHANGED asks /\ \A y \in Calls : phase'[y] = "idle" => phase[y] = "idle"
    BY <1>8 DEF Abort, Answer
  <2>2. \A q \in Posts : Settled(q) => rows'[q] = rows[q]
    BY <1>8 DEF Abort, Settled, Pending
  <2> QED
    BY <2>1, <2>2 DEF Steady, Aiming, Settled
<1> QED
  BY <1>1, <1>2, <1>3, <1>4, <1>5, <1>6, <1>7, <1>8, Zenon
     DEF MediaNext, HeadSome, Reshelve, Move

\* No comment moves on.
Commenters == \A c \in Comments : phase'[c] = phase[c] /\ asks'[c] = asks[c]

\* No deletion moves on.
Deleters ==
    /\ before' = before
    /\ \A d \in Deletes : phase'[d] = phase[d] /\ asks'[d].row = asks[d].row

\* No video is reviewed, nor put back into the queue, and nobody hears of a comment.
Unreviewing ==
    /\ \A q \in Posts :
          /\ Settled(q) => rows'[q].review = rows[q].review
          /\ rows[q].review = "pending" => rows'[q].review = "pending"
    /\ \A n \in notes' \ notes : n.type = "video_uploaded" /\ n.by \in Posts

\* A comment that was committed stays so, or goes for ever.
Lasting ==
    \A c \in Comments :
        /\ comment[c] = "there" => comment'[c] \in {"there", "gone"}
        /\ comment[c] = "gone" => comment'[c] = "gone"

\* What ReviewedIsTold says of a step.
Told ==
    \A p \in Posts :
        (\E c \in Comments : Note("video_reviewed", p, c) \in notes' \ notes)
            <=> /\ rows[p].review = "pending" /\ rows'[p].review = "reviewed"
                /\ rows[p].ofStudent

\* What OnlyLateFeedbackLost says of a step.
Late ==
    \A c \in Comments : comment[c] = "there" /\ comment'[c] = "gone" =>
        \E d \in Deletes : phase[d] = "removed" /\ phase'[d] = "ok" /\ c \notin before[d]

\* When nobody reviews, nobody is told.
LEMMA UnreviewingTold ==
    ASSUME Unreviewing
    PROVE  Told
BY DEF Unreviewing, Told, Note

\* Comments that do not move on stay as they are, or go with their video.
LEMMA CommentersKeep ==
    ASSUME IInv, Feedback, Steady, Commenters, Unreviewing,
           \A c \in Comments : comment'[c] = comment[c] \/
                               (comment[c] = "there" /\ comment'[c] = "gone")
    PROVE  Saying' /\ Marking' /\ Lasting
<1>1. \A c \in Comments : phase[c] = "marked" =>
          asks[c].row \in Posts /\ rows'[asks[c].row].review = rows[asks[c].row].review
  BY DEF Unreviewing, IInv, About, Open
<1>2. Saying' /\ Lasting
  BY DEF Feedback, Saying, Commenters, Lasting
<1>3. Marking'
  BY <1>1 DEF Feedback, Marking, Commenters, Unreviewing
<1> QED
  BY <1>2, <1>3

\* Deletions that do not move on know what they knew.
LEMMA DeletersKeep ==
    ASSUME IInv, Feedback, Steady, Deleters, Lasting
    PROVE  Counting'
<1>1. \A d \in Deletes : asks[d].row # None =>
          IsVideo(asks[d].row)' = IsVideo(asks[d].row)
  BY DEF Feedback, Aiming, Steady, Deleters, IsVideo
<1>2. \A c \in Comments : comment[c] \in {"there", "gone"} => asks'[c].row = asks[c].row
  BY DEF Feedback, Saying, Steady
<1>3. \A d \in Deletes : before[d] # {} => asks[d].row # None
  BY DEF Feedback, Counting, Counted
<1> QED
  BY <1>1, <1>2, <1>3 DEF Feedback, Counting, Counted, Deleters, Lasting

\* Feedback, but for what is in the bucket, after a step, and what a step may do.
Heard == Saying' /\ Counting' /\ Marking' /\ Told /\ Late

\* A step of a request about something else.
LEMMA OthersHeard ==
    ASSUME IInv, Feedback, Steady, Commenters, Deleters, Unreviewing, comment' = comment
    PROVE  Heard
<1>1. Saying' /\ Marking' /\ Lasting
  BY CommentersKeep
<1>2. Counting'
  BY <1>1, DeletersKeep
<1>3. Late
  BY DEF Late
<1> QED
  BY <1>1, <1>2, <1>3, UnreviewingTold DEF Heard

\* Uploading and recording.
LEMMA RecordingHeard ==
    ASSUME IInv, Feedback, Steady, NEW p \in Posts,
           HeadSome(p) \/ InsertVideo(p) \/ CommitVideo(p) \/ InsertFile(p)
    PROVE  Heard
<1>0. ASSUME HeadSome(p)
      PROVE  UNCHANGED <<rows, comment, notes, before>>
  <2>1. PICK k \in Keys, g \in Categories \cup {None}, s \in BOOLEAN : Head(p, k, g, s)
    BY <1>0 DEF HeadSome
  <2> QED
    BY <2>1, Zenon DEF Head
<1>1. Commenters /\ \A d \in Deletes : phase'[d] = phase[d] /\ asks'[d].row = asks[d].row
  BY RecordingAlone DEF Commenters
<1>2. before' = before /\ comment' = comment
  BY <1>0 DEF InsertVideo, CommitVideo, InsertFile
<1>3. \/ rows'[p] = rows[p]
      \/ ~Settled(p) /\ rows'[p].review \in {rows[p].review, "pending"}
  <2>1. CASE HeadSome(p)
    BY <1>0, <2>1
  <2>2. CASE InsertVideo(p) \/ InsertFile(p)
    <3>1. rows' = rows \/ \E v : rows' = [rows EXCEPT ![p] = NewRow(p, v)]
      BY <2>2 DEF InsertVideo, InsertFile
    <3>2. \A v : NewRow(p, v).review = "pending"
      BY DEF NewRow
    <3>3. rows' = rows \/ rows'[p].review = "pending"
      BY <3>1, <3>2 DEF IInv, TypeOK, MediaTypeOK
    <3> QED
      BY <3>3, RecordingAlone
  <2>3. CASE CommitVideo(p)
    <3>1. rows[p].state = "pending"
      BY <2>3 DEF CommitVideo, Pending, IInv
    <3> QED
      BY <2>3, <3>1 DEF CommitVideo, Settled, IInv, TypeOK, MediaTypeOK
  <2> QED
    BY <2>1, <2>2, <2>3
<1>4. \A n \in notes' \ notes : n.type = "video_uploaded" /\ n.by \in Posts
  <2>1. CASE HeadSome(p)
    BY <1>0, <2>1
  <2>2. CASE InsertVideo(p) \/ InsertFile(p)
    BY <2>2 DEF InsertVideo, InsertFile
  <2>3. CASE CommitVideo(p)
    BY <2>3 DEF CommitVideo, Note
  <2> QED
    BY <2>1, <2>2, <2>3
<1>5. \A q \in Posts : q # p => rows'[q] = rows[q]
  BY RecordingAlone
<1>6. Unreviewing
  BY <1>3, <1>4, <1>5 DEF Unreviewing
<1> QED
  BY <1>1, <1>2, <1>6, OthersHeard DEF Deleters

\* Putting a video back into the queue, which waits until nobody reviews it.
LEMMA RevertHeard ==
    ASSUME IInv, Feedback, Steady, NEW p \in Posts, Revert(p)
    PROVE  Heard
<1>1. /\ UNCHANGED <<comment, notes, phase, asks, before>>
      /\ rows' = [rows EXCEPT ![p].review = "pending"]
      /\ Lockers(p) = {}
  BY DEF Revert
<1>2. \A q \in Posts : /\ q # p => rows'[q] = rows[q]
                       /\ rows'[p].review = "pending"
  BY <1>1 DEF IInv, TypeOK, MediaTypeOK
<1>3. \A c \in Comments : phase[c] = "marked" => asks[c].row \in Posts \ {p}
  BY <1>1 DEF Lockers, IInv, About, Open
<1>4. Saying' /\ Lasting /\ Late
  BY <1>1 DEF Feedback, Saying, Lasting, Late
<1>5. Marking'
  BY <1>1, <1>2, <1>3 DEF Feedback, Marking
<1>6. Counting'
  BY <1>1, <1>4, DeletersKeep DEF Deleters
<1>7. Told
  BY <1>1, <1>2 DEF Told
<1> QED
  BY <1>4, <1>5, <1>6, <1>7 DEF Heard

\* Categories come and go.
LEMMA CategoriesHeard ==
    ASSUME IInv, Feedback, Steady, NEW g \in Categories, AddCategory(g) \/ DropCategory(g)
    PROVE  Heard
<1>1. UNCHANGED <<comment, notes, phase, asks, before>>
  BY DEF AddCategory, DropCategory
<1>2. ASSUME NEW q \in Posts
      PROVE  rows'[q].review = rows[q].review
  <2>1. rows[q] \in RowType
    BY DEF IInv, TypeOK, MediaTypeOK, RowType
  <2>2. rows'[q] = rows[q] \/ rows'[q] = [rows[q] EXCEPT !.category = None]
    BY DEF AddCategory, DropCategory
  <2> QED
    BY <2>1, <2>2 DEF RowType
<1>3. Unreviewing
  BY <1>1, <1>2 DEF Unreviewing
<1> QED
  BY <1>1, <1>3, OthersHeard DEF Commenters, Deleters

\* A file is moved.
LEMMA MovingHeard ==
    ASSUME IInv, Feedback, Steady, NEW m \in Moves, Move(m)
    PROVE  Heard
<1>1. UNCHANGED <<comment, notes, before>>
  BY DEF Move, CheckCategory, MoveFile
<1>2. \A y \in Calls \ {m} : phase'[y] = phase[y] /\ asks'[y] = asks[y]
  BY DEF Move, CheckCategory, MoveFile, Answer, IInv, TypeOK, MediaTypeOK
<1>3. \A q \in Posts : rows'[q].review = rows[q].review
  <2>1. rows' = rows \/ rows' = [rows EXCEPT ![asks[m].row].category = asks[m].category]
    BY DEF Move, CheckCategory, MoveFile
  <2> QED
    BY <2>1 DEF IInv, TypeOK, MediaTypeOK
<1>4. Commenters /\ Deleters
  BY <1>1, <1>2 DEF Commenters, Deleters
<1>5. Unreviewing
  BY <1>1, <1>3 DEF Unreviewing
<1> QED
  BY <1>1, <1>4, <1>5, OthersHeard

\* A comment or a deletion finds its row.
LEMMA LoadingHeard ==
    ASSUME IInv, Feedback, Steady, NEW x \in Comments \cup Deletes \cup Moves, NEW p \in Posts,
           NEW mine, LoadVideo(x, p, mine) \/ LoadFile(x, p), x \in Comments => LoadVideo(x, p, mine)
    PROVE  Heard
<1>1. /\ phase[x] = "idle" /\ phase'[x] \in {"loaded", "refused"}
      /\ UNCHANGED <<rows, comment, notes>>
      /\ \A y \in Calls \ {x} : phase'[y] = phase[y] /\ asks'[y] = asks[y]
  BY DEF LoadVideo, LoadFile, Answer, IInv, TypeOK, MediaTypeOK
<1>2. /\ asks'[x].justReviewed = asks[x].justReviewed
      /\ \/ asks'[x] = asks[x]
         \/ There(p) /\ asks'[x].row = p
  BY DEF LoadVideo, LoadFile, IInv, TypeOK, MediaTypeOK
<1>3. Saying'
  BY <1>1 DEF Feedback, Saying, Steady
<1>4. Marking'
  BY <1>1, <1>2 DEF Feedback, Marking
<1>5. \A d \in Deletes \ {x} : before'[d] = before[d]
  BY DEF LoadVideo, LoadFile, IInv, TypeOK, MediaTypeOK
<1>6. \A c \in Comments : comment[c] \in {"there", "gone"} => asks'[c].row = asks[c].row
  BY DEF Feedback, Saying, Steady
<1>7. \A d \in Deletes : before[d] # {} => asks[d].row # None /\ asks'[d].row = asks[d].row
  BY DEF Feedback, Counting, Counted, Aiming, Steady
<1>8. \A q \in Posts : IsVideo(q)' = IsVideo(q)
  BY <1>1 DEF IsVideo
<1>9. ASSUME x \in Deletes
      PROVE  \/ before'[x] = before[x] /\ (phase'[x] = "loaded" => asks'[x].row = p /\ ~IsVideo(p))
             \/ /\ before'[x] = OnVideo(p) /\ IsVideo(p)
                /\ asks'[x].row = p
  BY <1>9 DEF LoadVideo, LoadFile, Answer, IInv, TypeOK, MediaTypeOK
<1>10. x \in Deletes => before[x] = {}
  BY <1>1 DEF Feedback, Counting, Counted
<1>11. ASSUME NEW d \in Deletes, d # x
       PROVE  Counted(d)'
  <2>1. Counted(d)
    BY DEF Feedback, Counting
  <2>2. before'[d] = before[d] /\ phase'[d] = phase[d] /\ asks'[d] = asks[d]
    BY <1>1, <1>5, <1>11
  <2>3. IsVideo(asks[d].row)' <=> IsVideo(asks[d].row)
    BY <1>1, <2>2 DEF IsVideo
  <2> QED
    BY <1>1, <1>6, <2>1, <2>2, <2>3 DEF Counted
<1>12. ASSUME x \in Deletes
       PROVE  Counted(x)'
  <2>1. CASE before'[x] = {}
    BY <1>1, <2>1 DEF Counted
  <2>2. CASE before'[x] # {}
    <3>1. before'[x] = OnVideo(p) /\ IsVideo(p) /\ asks'[x].row = p
      BY <1>9, <1>10, <1>12, <2>2
    <3>2. \A c \in before'[x] :
             c \in Comments /\ comment'[c] = "there" /\ asks[c].row = p
      BY <1>1, <3>1 DEF OnVideo
    <3>3. IsVideo(asks[x].row)'
      BY <1>1, <3>1 DEF IsVideo
    <3> QED
      BY <1>1, <1>6, <3>1, <3>2, <3>3 DEF Counted
  <2> QED
    BY <2>1, <2>2
<1>13. Counting'
  BY <1>11, <1>12 DEF Counting
<1>14. Told /\ Late
  BY <1>1 DEF Told, Late
<1> QED
  BY <1>3, <1>4, <1>13, <1>14 DEF Heard

\* A deletion counts, removes and deletes.
LEMMA DeletingHeard ==
    ASSUME IInv, Feedback, Steady, NEW d \in Deletes,
           CountComments(d) \/ RemoveObject(d) \/ DeleteRow(d)
    PROVE  Heard
<1>0. d \in Calls \ Posts /\ phase[d] \in Open /\ asks[d].row \in Posts
  BY DEF IInv, About, CountComments, RemoveObject, DeleteRow, Open
<1>1. /\ UNCHANGED <<notes, asks, before>>
      /\ \A y \in Calls \ {d} : phase'[y] = phase[y]
      /\ phase[d] \in {"loaded", "counted", "removed"}
      /\ phase'[d] \in {"counted", "refused", "removed", "ok"}
  BY DEF CountComments, RemoveObject, DeleteRow, Answer, IInv, TypeOK, MediaTypeOK
<1>2. \A q \in Posts : rows'[q].review = rows[q].review
  <2>1. rows' = rows \/ rows' = [rows EXCEPT ![asks[d].row].state = "gone"]
    BY DEF CountComments, RemoveObject, DeleteRow
  <2> QED
    BY <2>1 DEF IInv, TypeOK, MediaTypeOK
<1>3. \A c \in Comments : \/ comment'[c] = comment[c]
                          \/ comment[c] = "there" /\ comment'[c] = "gone" /\ DeleteRow(d)
  BY DEF CountComments, RemoveObject, DeleteRow, OnVideo
<1>4. Commenters /\ Unreviewing
  BY <1>1, <1>2 DEF Commenters, Unreviewing
<1>5. Saying' /\ Marking' /\ Lasting
  BY <1>3, <1>4, CommentersKeep
<1>6. \A c \in before[d] : comment[c] \in {"there", "gone"} /\ asks[c].row = asks[d].row
  BY DEF Feedback, Counting, Counted
<1>7. phase'[d] \in {"counted", "removed"} => \A c \in before[d] : comment[c] = "gone"
  <2>1. CASE CountComments(d)
    <3>1. phase'[d] = "counted" => OnVideo(asks[d].row) = {}
      BY <2>1 DEF CountComments, Answer, IInv, TypeOK, MediaTypeOK
    <3>2. phase'[d] \in {"counted", "refused"}
      BY <2>1 DEF CountComments, Answer, IInv, TypeOK, MediaTypeOK
    <3>3. before[d] \subseteq Comments
      BY DEF Feedback, Counting, Counted
    <3>4. ASSUME NEW c \in before[d], phase'[d] = "counted"
          PROVE  comment[c] = "gone"
      <4>1. c \in Comments /\ c \notin OnVideo(asks[d].row)
        BY <3>1, <3>3, <3>4
      <4> QED
        BY <1>6, <4>1 DEF OnVideo
    <3> QED
      BY <3>2, <3>4
  <2>2. CASE RemoveObject(d)
    <3>1. phase[d] = "counted" \/ (phase[d] = "loaded" /\ ~IsVideo(asks[d].row))
      BY <2>2 DEF RemoveObject
    <3> QED
      BY <3>1 DEF Feedback, Counting, Counted
  <2>3. CASE DeleteRow(d)
    BY <2>3 DEF DeleteRow, Answer, IInv, TypeOK, MediaTypeOK
  <2> QED
    BY <2>1, <2>2, <2>3
<1>8. \A e \in Deletes : asks[e].row # None => IsVideo(asks[e].row)' = IsVideo(asks[e].row)
  BY <1>1 DEF Feedback, Aiming, Steady, IsVideo
<1>9. \A e \in Deletes : before[e] # {} => asks[e].row # None
  BY DEF Feedback, Counting, Counted
<1>10. Counting'
  BY <1>1, <1>3, <1>7, <1>8, <1>9 DEF Feedback, Counting, Counted
<1>11. Late
  <2>1. SUFFICES ASSUME NEW c \in Comments, comment[c] = "there", comment'[c] = "gone"
                 PROVE  phase[d] = "removed" /\ phase'[d] = "ok" /\ c \notin before[d]
    BY DEF Late
  <2>2. phase[d] = "removed" /\ phase'[d] = "ok"
    BY <1>3, <2>1 DEF DeleteRow, Answer, IInv, TypeOK, MediaTypeOK
  <2> QED
    BY <2>1, <2>2 DEF Feedback, Counting, Counted
<1> QED
  BY <1>4, <1>5, <1>10, <1>11, UnreviewingTold DEF Heard

\* A comment is inserted and, if staff made it, the video is marked and locked.
LEMMA CommentHeard ==
    ASSUME IInv, Feedback, Steady, NEW c \in Comments, InsertComment(c) \/ MarkReviewed(c)
    PROVE  Heard
<1>0. c \in Calls \ Posts /\ phase[c] \in {"loaded", "commented"} /\ asks[c].row \in Posts
  BY DEF IInv, About, InsertComment, MarkReviewed, Open
<1>1. /\ UNCHANGED <<rows, notes, before>>
      /\ \A y \in Calls \ {c} : phase'[y] = phase[y] /\ asks'[y] = asks[y]
      /\ asks'[c].row = asks[c].row
  <2>1. UNCHANGED asks \/ \E e : asks' = [asks EXCEPT ![c].justReviewed = e]
    <3>1. CASE InsertComment(c)
      BY <3>1 DEF InsertComment
    <3>2. CASE MarkReviewed(c)
      BY <3>2, Zenon DEF MarkReviewed
    <3> QED
      BY <3>1, <3>2
  <2>2. \A y \in Calls \ {c} : phase'[y] = phase[y]
    BY DEF InsertComment, MarkReviewed, Answer, IInv, TypeOK, MediaTypeOK
  <2>3. UNCHANGED <<rows, notes, before>>
    BY DEF InsertComment, MarkReviewed
  <2>4. (\A y \in Calls \ {c} : asks'[y] = asks[y]) /\ asks'[c].row = asks[c].row
    <3>1. CASE UNCHANGED asks
      BY <3>1
    <3>2. ASSUME NEW e, asks' = [asks EXCEPT ![c].justReviewed = e]
          PROVE  (\A y \in Calls \ {c} : asks'[y] = asks[y]) /\ asks'[c].row = asks[c].row
      BY <1>0, <3>2 DEF IInv, TypeOK, MediaTypeOK
    <3> QED
      BY <2>1, <3>1, <3>2
  <2> QED
    BY <2>2, <2>3, <2>4
<1>2. /\ \A y \in Comments \ {c} : comment'[y] = comment[y]
      /\ \/ phase'[c] = "commented" /\ comment'[c] = "pending" /\ InsertComment(c)
         \/ phase'[c] = "failed" /\ comment'[c] = comment[c] /\ InsertComment(c)
         \/ phase'[c] = "marked" /\ comment'[c] = comment[c] /\ MarkReviewed(c)
  BY DEF InsertComment, MarkReviewed, Answer, IInv, TypeOK, MediaTypeOK
<1>3. comment[c] \in {"none", "pending"} /\ (phase[c] = "loaded" => comment[c] = "none")
  BY <1>0 DEF Feedback, Saying, IInv, TypeOK, MediaTypeOK
<1>4. InsertComment(c) => phase[c] = "loaded" /\ asks' = asks
  BY DEF InsertComment
<1>5. MarkReviewed(c) => phase[c] = "commented"
  BY DEF MarkReviewed
<1>6. Saying'
  BY <1>0, <1>1, <1>2, <1>3, <1>4, <1>5 DEF Feedback, Saying
<1>7. Lasting /\ Late /\ Told
  BY <1>1, <1>2, <1>3 DEF Lasting, Late, Told
<1>8. Counting'
  BY <1>1, <1>7, DeletersKeep DEF Deleters
<1>9. \A y \in Comments : \A n \in notes : n.by = y => phase[y] = "ok" /\ y # c
  BY <1>0 DEF Feedback, Marking
<1>10. Marking'
  <2>1. ASSUME InsertComment(c)
        PROVE  Marking'
    <3>1. \A y \in Comments : phase[y] = "marked" => asks[y].row # asks[c].row
      BY <2>1 DEF InsertComment, Lockers
    <3> QED
      BY <1>1, <1>2, <1>4, <1>5, <1>9, <2>1, <3>1 DEF Feedback, Marking
  <2>2. ASSUME MarkReviewed(c)
        PROVE  Marking'
    <3>1. c \in StaffComments /\ Lockers(asks[c].row) = {c}
      BY <2>2 DEF MarkReviewed
    <3>2. \A y \in Comments \ {c} :
             phase[y] \in {"commented", "marked"} => asks[y].row # asks[c].row
      BY <3>1 DEF Lockers
    <3>3. asks'[c].justReviewed <=> rows[asks[c].row].review = "pending"
      <4>1. asks'[c].justReviewed = (rows[asks[c].row].review = "pending")
        BY <1>0, <2>2 DEF MarkReviewed, IInv, TypeOK, MediaTypeOK
      <4> QED
        BY <4>1
    <3>4. phase'[c] = "marked"
      BY <1>2, <1>4, <1>5, <2>2
    <3> QED
      BY <1>1, <1>9, <3>1, <3>2, <3>3, <3>4 DEF Feedback, Marking
  <2> QED
    BY <2>1, <2>2
<1> QED
  BY <1>6, <1>7, <1>8, <1>10 DEF Heard

\* A comment is committed, with the review it makes and what people hear of it.
LEMMA CommitHeard ==
    ASSUME IInv, Feedback, Steady, NEW c \in Comments, CommitComment(c)
    PROVE  Heard
<1> DEFINE r == asks[c].row
<1>0. c \in Calls \ Posts /\ phase[c] \in {"commented", "marked"} /\ r \in Posts
  BY DEF IInv, About, CommitComment, Open
<1>1. /\ UNCHANGED <<asks, before>>
      /\ phase'[c] = "ok" /\ comment'[c] = "there"
      /\ \A y \in Calls \ {c} : phase'[y] = phase[y]
      /\ \A y \in Comments \ {c} : comment'[y] = comment[y]
  BY DEF CommitComment, Answer, IInv, TypeOK, MediaTypeOK
<1>2. /\ phase[c] = IF c \in StaffComments THEN "marked" ELSE "commented"
      /\ rows' = IF c \in StaffComments THEN [rows EXCEPT ![r].review = "reviewed"] ELSE rows
      /\ notes' = notes
            \cup (IF rows[r].ofStudent THEN {Note("comment", r, c)} ELSE {})
            \cup (IF asks[c].justReviewed /\ rows[r].ofStudent
                  THEN {Note("video_reviewed", r, c)} ELSE {})
  BY DEF CommitComment
<1>3. /\ \A q \in Posts \ {r} : rows'[q] = rows[q]
      /\ rows'[r].review = IF c \in StaffComments THEN "reviewed" ELSE rows[r].review
  BY <1>0, <1>2 DEF IInv, TypeOK, MediaTypeOK
<1>4. /\ comment[c] = "pending"
      /\ \A n \in notes : n.by # c
      /\ c \notin StaffComments => ~asks[c].justReviewed
      /\ c \in StaffComments => (asks[c].justReviewed <=> rows[r].review = "pending")
  BY <1>0, <1>2 DEF Feedback, Saying, Marking
<1>5. Saying' /\ Lasting /\ Late
  BY <1>0, <1>1, <1>4 DEF Feedback, Saying, Lasting, Late, IInv, TypeOK, MediaTypeOK
<1>6. Counting'
  BY <1>0, <1>1, <1>5, DeletersKeep DEF Deleters
<1>7. Marking'
  <2>1. \A y \in Comments : phase'[y] = "marked" =>
           phase[y] = "marked" /\ y # c /\ asks[y].row \in Posts
    BY <1>1 DEF IInv, About, Open
  <2>2. \A y \in Comments : phase'[y] = "marked" => asks[y].row # r
    BY <1>0, <2>1 DEF Feedback, Marking
  <2>3. \A n \in notes' : n \in notes \/ n.by = c
    BY <1>2 DEF Note
  <2> QED
    BY <1>1, <1>3, <2>1, <2>2, <2>3 DEF Feedback, Marking
<1>8. Told
  <2>1. SUFFICES ASSUME NEW p \in Posts
                 PROVE  (\E y \in Comments : Note("video_reviewed", p, y) \in notes' \ notes)
                            <=> /\ rows[p].review = "pending" /\ rows'[p].review = "reviewed"
                                /\ rows[p].ofStudent
    BY DEF Told
  <2>2. (\E y \in Comments : Note("video_reviewed", p, y) \in notes' \ notes)
            <=> p = r /\ asks[c].justReviewed /\ rows[r].ofStudent
    <3>1. \A y \in Comments : Note("video_reviewed", p, y) \in notes' \ notes =>
             p = r /\ asks[c].justReviewed /\ rows[r].ofStudent
      BY <1>2 DEF Note
    <3>2. Note("video_reviewed", r, c) \notin notes
      BY <1>4 DEF Note
    <3> QED
      BY <1>2, <3>1, <3>2
  <2>3. CASE p # r
    BY <1>3, <2>2, <2>3
  <2>4. CASE p = r
    BY <1>3, <1>4, <2>2, <2>4
  <2> QED
    BY <2>3, <2>4
<1> QED
  BY <1>5, <1>6, <1>7, <1>8 DEF Heard

\* A request that fails takes its comment back, if that was not committed.
LEMMA AbortHeard ==
    ASSUME IInv, Feedback, Steady, NEW x \in Calls, Abort(x)
    PROVE  Heard
<1>1. /\ UNCHANGED <<notes, asks, before>>
      /\ phase[x] \in Open /\ phase'[x] = "failed"
      /\ \A y \in Calls \ {x} : phase'[y] = phase[y]
  BY DEF Abort, Answer, IInv, TypeOK, MediaTypeOK
<1>2. \A q \in Posts : /\ Settled(q) => rows'[q].review = rows[q].review
                       /\ rows[q].review = "pending" => rows'[q].review = "pending"
  <2>1. \A q \in Posts : rows'[q] = rows[q] \/ (rows'[q] = NoRow /\ ~Settled(q))
    BY <1>1 DEF Abort, Pending, Settled, IInv, TypeOK, MediaTypeOK
  <2>2. NoRow.review = "pending"
    BY DEF NoRow
  <2> QED
    BY <2>1, <2>2
<1>3. \A y \in Comments : \/ comment'[y] = comment[y]
                          \/ y = x /\ phase[x] \in {"commented", "marked"} /\ comment'[y] = "none"
  BY DEF Abort, IInv, TypeOK, MediaTypeOK
<1>4. x \in Comments => comment'[x] = "none"
  <2>1. x \in Comments /\ phase[x] \notin {"commented", "marked"} => phase[x] = "loaded" \/
            comment[x] = "none"
    BY <1>1 DEF Feedback, Saying, Open, IInv, TypeOK, MediaTypeOK
  <2> QED
    BY <1>1, <2>1 DEF Abort, Feedback, Saying, IInv, TypeOK, MediaTypeOK
<1>5. Saying'
  BY <1>1, <1>3, <1>4 DEF Feedback, Saying
<1>6. Lasting /\ Late
  BY <1>1, <1>3 DEF Feedback, Saying, Lasting, Late
<1>7. \A c \in Comments : phase[c] = "marked" =>
          asks[c].row \in Posts /\ rows'[asks[c].row].review = rows[asks[c].row].review
  BY <1>2 DEF IInv, About, Open
<1>8. Marking'
  BY <1>1, <1>7 DEF Feedback, Marking, Open
<1>9. Counting'
  <2>1. \A d \in Deletes : before[d] # {} => asks[d].row \in Posts /\ Settled(asks[d].row)
    BY DEF Feedback, Counting, Counted, Aiming
  <2>2. \A d \in Deletes : before[d] # {} => IsVideo(asks[d].row)' = IsVideo(asks[d].row)
    BY <1>1, <2>1 DEF Steady, IsVideo
  <2> QED
    BY <1>1, <1>6, <2>2 DEF Feedback, Counting, Counted, Lasting
<1>10. Told
  BY <1>1, <1>2, UnreviewingTold DEF Unreviewing
<1> QED
  BY <1>5, <1>6, <1>8, <1>9, <1>10 DEF Heard

\* What was taken stays taken: the row a DELETE is about keeps its key.
LEMMA TakenForGood ==
    ASSUME IInv, Feedback, Steady, NEW k, Taken(k)
    PROVE  Taken(k)'
BY DEF Feedback, Aiming, Steady, Taken

\* An object leaves the bucket by the hand of a DELETE of its row.
LEMMA BackingStep ==
    ASSUME IInv, Feedback, MediaNext, Steady
    PROVE  Backing'
<1>1. ASSUME NEW p \in Posts, HeadSome(p) \/ InsertVideo(p) \/ CommitVideo(p) \/ InsertFile(p)
      PROVE  Backing'
  <2>1. /\ \A q \in Posts \ {p} : phase'[q] = phase[q] /\ asks'[q] = asks[q] /\ rows'[q] = rows[q]
        /\ objects' = objects
    <3>1. ASSUME HeadSome(p)
          PROVE  objects' = objects
      <4>1. PICK k \in Keys, g \in Categories \cup {None}, s \in BOOLEAN : Head(p, k, g, s)
        BY <3>1 DEF HeadSome
      <4> QED
        BY <4>1, Zenon DEF Head
    <3>2. objects' = objects
      BY <1>1, <3>1 DEF InsertVideo, CommitVideo, InsertFile
    <3> QED
      BY <1>1, <3>2, RecordingAlone
  <2>2. phase'[p] = "headed" => asks'[p].key \in objects
    <3>1. ASSUME HeadSome(p)
          PROVE  phase'[p] = "headed" => asks'[p].key \in objects
      <4>1. PICK k \in Keys, g \in Categories \cup {None}, s \in BOOLEAN : Head(p, k, g, s)
        BY <3>1 DEF HeadSome
      <4> QED
        BY <4>1 DEF Head, Answer, IInv, TypeOK, MediaTypeOK
    <3>2. ASSUME InsertVideo(p) \/ CommitVideo(p) \/ InsertFile(p)
          PROVE  phase'[p] # "headed"
      BY <3>2 DEF InsertVideo, CommitVideo, InsertFile, Answer, IInv, TypeOK, MediaTypeOK
    <3> QED
      BY <1>1, <3>1, <3>2
  <2>3. rows'[p].state \in {"pending", "there"} =>
           \/ phase[p] = "headed" /\ rows'[p].key = asks[p].key
           \/ rows[p].state \in {"pending", "there"} /\ rows'[p].key = rows[p].key
    <3>1. ASSUME HeadSome(p)
          PROVE  rows' = rows
      <4>1. PICK k \in Keys, g \in Categories \cup {None}, s \in BOOLEAN : Head(p, k, g, s)
        BY <3>1 DEF HeadSome
      <4> QED
        BY <4>1, Zenon DEF Head
    <3>2. ASSUME InsertVideo(p) \/ InsertFile(p)
          PROVE  \/ rows' = rows
                 \/ phase[p] = "headed" /\ rows'[p].key = asks[p].key
      <4>1. \A v : NewRow(p, v).key = asks[p].key
        BY DEF NewRow
      <4>2. rows' = rows \/ \E v : rows' = [rows EXCEPT ![p] = NewRow(p, v)]
        BY <3>2 DEF InsertVideo, InsertFile
      <4>3. phase[p] = "headed"
        BY <3>2 DEF InsertVideo, InsertFile
      <4> QED
        BY <4>1, <4>2, <4>3 DEF IInv, TypeOK, MediaTypeOK
    <3>3. ASSUME CommitVideo(p)
          PROVE  rows[p].state = "pending" /\ rows'[p].key = rows[p].key
      BY <3>3 DEF CommitVideo, Pending, IInv, TypeOK, MediaTypeOK
    <3> QED
      BY <1>1, <3>1, <3>2, <3>3
  <2>4. \A k : Taken(k) => Taken(k)'
    BY TakenForGood
  <2>5. /\ rows'[p].state \in {"pending", "there"} /\ rows'[p].key \notin objects =>
              Taken(rows'[p].key)
    BY <2>3 DEF Feedback, Backing
  <2> QED
    BY <2>1, <2>2, <2>4, <2>5 DEF Feedback, Backing
<1>2. ASSUME PostsQuiet, objects \subseteq objects'
      PROVE  Backing'
  BY <1>2, TakenForGood DEF PostsQuiet, Feedback, Backing, Settled
<1>3. ASSUME NEW k \in Keys, Upload(k)
      PROVE  Backing'
  <2>1. PostsQuiet /\ objects \subseteq objects'
    BY <1>3 DEF Upload, Store, mediaVars, PostsQuiet
  <2> QED
    BY <1>2, <2>1
<1>4. ASSUME Reshelve
      PROVE  Backing'
  <2>1. objects' = objects
    BY <1>4 DEF Reshelve, Revert, AddCategory, DropCategory
  <2> QED
    BY <1>2, <1>4, <2>1, ShelvingQuiet
<1>5. ASSUME NEW c \in Comments, InsertComment(c) \/ MarkReviewed(c) \/ CommitComment(c)
      PROVE  Backing'
  <2>1. objects' = objects
    BY <1>5 DEF InsertComment, MarkReviewed, CommitComment
  <2> QED
    BY <1>2, <1>5, <2>1, CommentingQuiet
<1>6. ASSUME NEW d \in Deletes, CountComments(d) \/ RemoveObject(d) \/ DeleteRow(d)
      PROVE  Backing'
  <2>1. PostsQuiet
    BY <1>6, DeletingQuiet
  <2>2. CASE objects' = objects
    BY <1>2, <2>1, <2>2
  <2>3. CASE objects' # objects
    <3>1. /\ RemoveObject(d) /\ objects' = objects \ {rows[asks[d].row].key}
      BY <1>6, <2>3 DEF CountComments, RemoveObject, DeleteRow, Remove
    <3>2. asks[d].row # None /\ Taken(rows[asks[d].row].key)
      BY <3>1 DEF RemoveObject, IInv, About, Open, Taken
    <3>3. \A k : Taken(k) => Taken(k)'
      BY TakenForGood
    <3>4. \A k : k \in objects /\ k \notin objects' => Taken(k)'
      BY <3>1, <3>2, <3>3
    <3> QED
      BY <2>1, <3>3, <3>4 DEF PostsQuiet, Feedback, Backing, Settled
  <2> QED
    BY <2>2, <2>3
<1>7. ASSUME NEW x \in Comments \cup Deletes \cup Moves, NEW p \in Posts, NEW mine,
             LoadVideo(x, p, mine) \/ LoadFile(x, p)
      PROVE  Backing'
  <2>1. objects' = objects
    BY <1>7 DEF LoadVideo, LoadFile
  <2> QED
    BY <1>2, <1>7, <2>1, LoadingQuiet
<1>8. ASSUME NEW m \in Moves, Move(m)
      PROVE  Backing'
  <2>1. objects' = objects
    BY <1>8 DEF Move, CheckCategory, MoveFile
  <2> QED
    BY <1>2, <1>8, <2>1, MovingQuiet
<1>9. ASSUME NEW x \in Calls, Abort(x)
      PROVE  Backing'
  <2>1. /\ UNCHANGED <<asks, objects>>
        /\ \A q \in Posts : phase'[q] = "headed" => phase[q] = "headed"
        /\ \A q \in Posts : rows'[q] = rows[q] \/ rows'[q] = NoRow
    BY <1>9 DEF Abort, Answer, IInv, TypeOK, MediaTypeOK
  <2>2. NoRow.state = "none"
    BY DEF NoRow
  <2>3. \A k : Taken(k) => Taken(k)'
    BY TakenForGood
  <2> QED
    BY <2>1, <2>2, <2>3 DEF Feedback, Backing
<1> QED
  BY <1>1, <1>3, <1>4, <1>5, <1>6, <1>7, <1>8, <1>9, Zenon
     DEF MediaNext, HeadSome, Reshelve, Move

\* A request about videos or files keeps feedback as it should be.
LEMMA FeedbackStep ==
    ASSUME IInv, Feedback, MediaNext
    PROVE  Feedback' /\ Told /\ Late
<1>0. Steady /\ Aiming' /\ Backing'
  <2>1. Steady /\ Aiming'
    BY AimingStep DEF Feedback
  <2> QED
    BY <2>1, BackingStep
<1>1. ASSUME NEW k \in Keys, Upload(k)
      PROVE  Heard
  <2>1. UNCHANGED mediaVars
    BY <1>1 DEF Upload
  <2> QED
    BY <1>0, <2>1, OthersHeard DEF mediaVars, Commenters, Deleters, Unreviewing
<1>2. ASSUME NEW p \in Posts, HeadSome(p) \/ InsertVideo(p) \/ CommitVideo(p) \/ InsertFile(p)
      PROVE  Heard
  BY <1>0, <1>2, RecordingHeard
<1>3. ASSUME Reshelve
      PROVE  Heard
  BY <1>0, <1>3, RevertHeard, CategoriesHeard DEF Reshelve
<1>4. ASSUME NEW c \in Comments, InsertComment(c) \/ MarkReviewed(c) \/ CommitComment(c)
      PROVE  Heard
  BY <1>0, <1>4, CommentHeard, CommitHeard
<1>5. ASSUME NEW d \in Deletes, CountComments(d) \/ RemoveObject(d) \/ DeleteRow(d)
      PROVE  Heard
  BY <1>0, <1>5, DeletingHeard
<1>6. ASSUME NEW c \in Comments, NEW p \in Posts, NEW mine, LoadVideo(c, p, mine)
      PROVE  Heard
  BY <1>0, <1>6, LoadingHeard
<1>7. ASSUME NEW x \in Deletes \cup Moves, NEW p \in Posts, NEW mine,
             LoadVideo(x, p, mine) \/ LoadFile(x, p)
      PROVE  Heard
  <2>1. x \notin Comments
    OBVIOUS
  <2> QED
    BY <1>0, <1>7, <2>1, LoadingHeard
<1>8. ASSUME NEW m \in Moves, Move(m)
      PROVE  Heard
  BY <1>0, <1>8, MovingHeard
<1>9. ASSUME NEW x \in Calls, Abort(x)
      PROVE  Heard
  BY <1>0, <1>9, AbortHeard
<1>10. Heard
  BY <1>1, <1>2, <1>3, <1>4, <1>5, <1>6, <1>7, <1>8, <1>9, Zenon
     DEF MediaNext, HeadSome, Reshelve, Move
<1> QED
  BY <1>0, <1>10 DEF Heard, Feedback

\* A request about a picture takes nothing that was uploaded as a video or a file.
LEMMA FeedbackElsewhere ==
    ASSUME IInv, Feedback, UNCHANGED mediaVars, ImagesNext \/ UNCHANGED objects
    PROVE  Feedback'
<1>1. Aiming' /\ Saying' /\ Counting' /\ Marking'
  BY DEF Feedback, mediaVars, Aiming, Settled, Saying, Counting, Counted, IsVideo, Marking
<1>2. ASSUME NEW k \in objects, k \notin objects'
      PROVE  k \in Replaces
  <2>1. \E x \in Changers : RemoveOld(x)
    BY <1>2, Zenon
       DEF ImagesNext, FindHolder, PutPicture, Store, SetPicture, Stop, DropCourse
  <2>2. PICK x \in Changers : RemoveOld(x)
    BY <2>1
  <2>3. k = found[x].key /\ k # None
    BY <1>2, <2>2 DEF RemoveOld, Remove, IInv, TypeOK
  <2> QED
    BY <2>3 DEF IInv, TypeOK, ImagesTypeOK
<1>3. \A p \in Posts : asks[p].key \notin Replaces /\ rows[p].key \notin Replaces
  BY DEF IInv, TypeOK, MediaTypeOK
<1>4. Backing'
  BY <1>2, <1>3 DEF Feedback, Backing, Taken, mediaVars
<1> QED
  BY <1>1, <1>4 DEF Feedback

\* Before the first request there is no feedback.
LEMMA InitFeedback == Init => Feedback
BY DEF Init, MediaInit, NoRow, NoAsk, Feedback, Aiming, Saying, Counting, Counted, Marking, Backing

\* A step of the system, as far as feedback goes.
LEMMA FeedbackNext ==
    ASSUME IInv, Feedback, [Next]_vars
    PROVE  Feedback' /\ (UNCHANGED mediaVars \/ (Told /\ Late))
<1>1. CASE MediaNext /\ UNCHANGED imagesVars
  BY <1>1, FeedbackStep
<1>2. CASE ImagesNext /\ UNCHANGED mediaVars
  BY <1>2, FeedbackElsewhere
<1>3. CASE UNCHANGED vars
  <2>1. UNCHANGED mediaVars /\ UNCHANGED objects
    BY <1>3 DEF vars, mediaVars
  <2> QED
    BY <2>1, FeedbackElsewhere
<1> QED
  BY <1>1, <1>2, <1>3 DEF Next

\* Comments, reviews, deletions and the bucket agree at all times.
THEOREM FeedbackKept == Spec => []Feedback
<1>1. IInv /\ Feedback /\ [Next]_vars => Feedback'
  BY FeedbackNext
<1> QED
  BY InitFeedback, Invariance, <1>1, PTL DEF Spec

\* Only a DELETE, never a confirmation, leaves a row without its object.
THEOREM OnlyDeletesTake == Spec => []MissingMeansDeleted
<1>1. Feedback => MissingMeansDeleted
  BY DEF Feedback, Backing, Taken, There, MissingMeansDeleted
<1> QED
  BY FeedbackKept, <1>1, PTL

\* The student hears of a review exactly when the video leaves the queue.
THEOREM ReviewsAreTold == Spec => ReviewedIsTold
<1>1. IInv /\ Feedback /\ [Next]_vars => [Told]_mediaVars
  BY FeedbackNext
<1> QED
  BY Invariance, FeedbackKept, <1>1, PTL DEF Spec, ReviewedIsTold, Told

\* Feedback that was there when a DELETE arrived survives it.
THEOREM FeedbackSurvives == Spec => OnlyLateFeedbackLost
<1>1. IInv /\ Feedback /\ [Next]_vars => [Late]_mediaVars
  BY FeedbackNext
<1> QED
  BY Invariance, FeedbackKept, <1>1, PTL DEF Spec, OnlyLateFeedbackLost, Late

=============================================================================
