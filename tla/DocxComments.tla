---------------------------- MODULE DocxComments ----------------------------
(***************************************************************************)
(* The comments of a Word document: comment.py adds comments and replies   *)
(* in four files and tells the package of them, an editor puts the markers *)
(* into document.xml, pack.py and validate.py look at both. The text the   *)
(* markers stand in is DocxPackage's, and so is the verdict on it.         *)
(***************************************************************************)
EXTENDS OoxmlValidator, Sequences

CONSTANTS
  Originals,   \* what may be unpacked: [doc, comments, steps]
  CommentIds   \* ids given to comment.py

VARIABLES
  wordFrom,    \* the original, one of Originals
  wordNotes,   \* the four comment files, their relationships, the markers
  wordState,   \* "packed file", "unpacked", "edited"
  wordSteps,   \* changes still to be made
  wordPacked   \* what pack.py or validate.py said last about the present directory

commentVars == <<wordFrom, wordNotes, wordState, wordSteps, wordPacked>>

CommentParts == {"comments", "commentsExtended", "commentsIds", "commentsExtensible"}

(* No comments; or one, as a program writes it that knows comments.xml only.*)
Notes(kind) ==
  LET there == IF kind = "old" THEN {"comments"} ELSE {}
      marked == IF kind = "old" THEN {0} ELSE {}
  IN  [parts |-> there, related |-> there, declared |-> there,
       comments |-> IF kind = "old" THEN <<[id |-> 0, para |-> 1]>> ELSE <<>>,
       extended |-> <<>>, ids |-> <<>>, extensible |-> <<>>, failed |-> {},
       starts |-> marked, ends |-> marked, refs |-> marked]

CommentsInit ==
  /\ wordFrom \in Originals
  /\ wordNotes = Notes(wordFrom.comments)
  /\ wordState = "packed file" /\ wordPacked = "no"
  /\ wordSteps = wordFrom.steps

Unpacks ==
  /\ wordState = "packed file"
  /\ wordState' = "unpacked"
  /\ UNCHANGED <<wordFrom, wordNotes, wordSteps, wordPacked>>

Edits ==
  /\ wordState # "packed file"
  /\ wordSteps > 0
  /\ wordSteps' = wordSteps - 1
  /\ wordState' = "edited" /\ wordPacked' = "no"
  /\ UNCHANGED wordFrom

(* A change of the text only. *)
EditElsewhere == Edits /\ UNCHANGED wordNotes

(* The markers of a comment put into document.xml: both ends and the       *)
(* reference, or one of them forgotten.                                    *)
EditMarkers ==
  /\ Edits
  /\ \E id \in CommentIds, slip \in {"none", "end", "ref"} :
       wordNotes' = [wordNotes EXCEPT
         !.starts = @ \cup {id},
         !.ends = IF slip = "end" THEN @ ELSE @ \cup {id},
         !.refs = IF slip = "ref" THEN @ ELSE @ \cup {id}]

-----------------------------------------------------------------------------
(* comment.py. A parent is no id or one: a set of at most one element.     *)

_find_para_id(comments, id) ==
  {comments[i].para : i \in {k \in DOMAIN comments :
     comments[k].id = id /\ \A j \in 1 .. k - 1 : comments[j].id # id}}

_ensure_comment_relationships(related) ==
  IF "comments" \in related THEN related ELSE related \cup CommentParts

_ensure_comment_content_types(declared) ==
  IF "comments" \in declared THEN declared ELSE declared \cup CommentParts

(* The template of comments.xml, at the first comment only. *)
Started(notes) ==
  IF "comments" \in notes.parts THEN notes
  ELSE [notes EXCEPT !.parts = @ \cup {"comments"},
                     !.related = _ensure_comment_relationships(@),
                     !.declared = _ensure_comment_content_types(@)]

(* The comment first, then its entries in the other three files; an        *)
(* unknown parent ends it in between. The paraId and the durableId of the  *)
(* nth comment are n, as random ids do not meet.                           *)
add_comment(notes, id, parent) ==
  LET started == Started(notes)
      para == Len(notes.comments) + 1
      comments == Append(started.comments, [id |-> id, para |-> para])
      parentPara == UNION {_find_para_id(comments, p) : p \in parent}
  IN  IF parent # {} /\ parentPara = {}
      THEN [started EXCEPT !.comments = comments, !.failed = @ \cup {para},
                           !.parts = @ \cup {"commentsExtended"}]
      ELSE [started EXCEPT
              !.parts = CommentParts,
              !.comments = comments,
              !.extended = Append(@, [para |-> para, parent |-> parentPara]),
              !.ids = Append(@, para),
              !.extensible = Append(@, para)]

AddComment ==
  /\ Edits
  /\ \E id \in CommentIds, parent \in {{}} \cup {{p} : p \in CommentIds} :
       wordNotes' = add_comment(wordNotes, id, parent)

(* The text of the comment is no XML: _append_xml raises before it writes. *)
AddCommentFails ==
  /\ Edits
  /\ wordNotes' = Started(wordNotes)

-----------------------------------------------------------------------------
(* What pack.py and validate.py ask of the comments. *)

PackageOf(notes) ==
  [files |-> {"document"} \cup notes.parts,
   rels |-> [p \in {Root, "document"} |->
               IF p = Root THEN {Rel(1, "officeDocument", "document")}
               ELSE {Rel(1, part, part) : part \in notes.related}],
   uses |-> [p \in {"document"} \cup notes.parts |-> {}],
   sldIds |-> {}, declared |-> {"document"} \cup notes.declared, flaw |-> NoFlaw]

(* Markers that are paired only. *)
Mutvalidate_comment_markers(notes) == notes.starts = notes.ends

(* Without a comments.xml any paired markers will do. *)
validate_comment_markers(notes) ==
  /\ notes.starts = notes.ends
  /\ "comments" \in notes.parts =>
       notes.starts \cup notes.ends \cup notes.refs
         \subseteq {notes.comments[i].id : i \in DOMAIN notes.comments}

UniqueCommentIds(notes) ==
  \A i, k \in DOMAIN notes.comments : notes.comments[i].id = notes.comments[k].id => i = k

ValidComments(notes) ==
  LET files == PackageOf(notes)
  IN  /\ validate_file_references(files) /\ validate_content_types(files)
      /\ validate_against_xsd(files) /\ UniqueCommentIds(notes)
      /\ validate_comment_markers(notes)

(* One of the verdicts; a good one not without good comments.              *)
Judges(bad, good) ==
  /\ wordPacked' \in good \cup {bad}
  /\ wordPacked' # bad => ValidComments(wordNotes)
  /\ UNCHANGED <<wordFrom, wordNotes, wordState, wordSteps>>

Packs == wordState # "packed file" /\ Judges("refused", {"packed"})

Validates ==
  wordState # "packed file" /\ Judges("failed", {"passed", "passed for another"})

ValidatesFile ==
  wordPacked = "packed" /\ Judges("failed", {"file passed", "file passed alone"})

CommentsNext ==
  \/ Unpacks \/ EditElsewhere \/ EditMarkers \/ AddComment \/ AddCommentFails
  \/ Packs \/ Validates \/ ValidatesFile

CommentsSpec == CommentsInit /\ [][CommentsNext]_commentVars

-----------------------------------------------------------------------------

(* In a document with comments that passes, every marker has exactly one   *)
(* comment, every comment is in the other files unless comment.py said it  *)
(* failed, a reply's parent is a comment, and the package knows each of    *)
(* the files (comment.py; validate_comment_markers).                       *)
PackedCommentsResolve ==
  wordPacked \notin {"no", "refused", "failed"} /\ wordNotes.parts # {} =>
    LET comments == wordNotes.comments
        paras == {comments[i].para : i \in DOMAIN comments}
    IN  /\ \A id \in wordNotes.starts \cup wordNotes.refs :
             Cardinality({i \in DOMAIN comments : comments[i].id = id}) = 1
        /\ wordFrom.comments = "none" =>
             {wordNotes.ids[i] : i \in DOMAIN wordNotes.ids} = paras \ wordNotes.failed
        /\ \A i \in DOMAIN wordNotes.extended :
             /\ wordNotes.extended[i].para \in paras
             /\ wordNotes.extended[i].parent \subseteq paras
        /\ wordNotes.parts = wordNotes.related
        /\ wordNotes.related = wordNotes.declared
=============================================================================
