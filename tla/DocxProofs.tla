----------------------------- MODULE DocxProofs -----------------------------
(***************************************************************************)
(* Proofs about a document of the docx skill, for any words, authors and   *)
(* comments: what the checks say of its comments (DocxComments), and what  *)
(* unpack.py, the editor, pack.py and validate.py make of its text and of  *)
(* its tracked changes (DocxPackage).                                      *)
(***************************************************************************)
EXTENDS DocxPackage, LoopLemmas, FunctionTheorems, FiniteSetTheorems, SequenceTheorems

-----------------------------------------------------------------------------
(* The comments of documents.                                              *)

AllIds == CommentIds \cup {0}
CommentRecord == [id : AllIds, para : Nat]
ExtendedRecord == [para : Nat, parent : SUBSET Nat]

NotesRecord ==
  [parts : SUBSET CommentParts, related : SUBSET CommentParts, declared : SUBSET CommentParts,
   comments : Seq(CommentRecord), extended : Seq(ExtendedRecord),
   ids : Seq(Nat), extensible : Seq(Nat), failed : SUBSET Nat,
   starts : SUBSET AllIds, ends : SUBSET AllIds, refs : SUBSET AllIds]

(* The nth comment has the paraId n; all but those that failed have an     *)
(* entry among the ids where the document had no comments before; and what *)
(* the package is told of, it is told of in both places.                   *)
NotesInv(notes, before) ==
  LET paras == 1 .. Len(notes.comments)
  IN  /\ notes \in NotesRecord
      /\ notes.related = notes.declared
      /\ notes.parts # {} => "comments" \in notes.parts
      /\ \A i \in paras : notes.comments[i].para = i
      /\ notes.failed \subseteq paras
      /\ before = "none" =>
           {notes.ids[i] : i \in DOMAIN notes.ids} = paras \ notes.failed
      /\ \A i \in DOMAIN notes.extended :
           /\ notes.extended[i].para \in paras
           /\ notes.extended[i].parent \subseteq paras

CommentsInv ==
  /\ NotesInv(wordNotes, wordFrom.comments)
  /\ wordPacked \notin {"no", "refused", "failed"} => ValidComments(wordNotes)

LEMMA NotesInvAtFirst == ASSUME NEW kind PROVE NotesInv(Notes(kind), kind)
<1> DEFINE n == Notes(kind)
           first == <<[id |-> 0, para |-> 1]>>
<1>1. first \in Seq(CommentRecord) /\ Len(first) = 1 /\ first[1].para = 1
  <2>1. [id |-> 0, para |-> 1] \in CommentRecord BY DEF CommentRecord, AllIds
  <2>2. QED BY <2>1
<1>2. CASE kind = "old"
  <2>1. n = [parts |-> {"comments"}, related |-> {"comments"}, declared |-> {"comments"},
             comments |-> first, extended |-> <<>>, ids |-> <<>>, extensible |-> <<>>,
             failed |-> {}, starts |-> {0}, ends |-> {0}, refs |-> {0}]
    BY <1>2 DEF Notes
  <2> HIDE DEF n, first
  <2>2. n \in NotesRecord BY <1>1, <2>1 DEF NotesRecord, CommentParts, AllIds
  <2>3. /\ n.related = n.declared /\ n.parts = {"comments"} /\ n.comments = first
        /\ n.failed = {} /\ n.extended = <<>>
    BY <2>1
  <2>4. DOMAIN n.extended = {} BY <2>3
  <2>5. \A i \in 1 .. Len(first) : first[i].para = i BY <1>1
  <2>6. NotesInv(n, kind) BY <1>2, <2>2, <2>3, <2>4, <2>5 DEF NotesInv
  <2>7. QED BY <2>6 DEF n
<1>3. CASE kind # "old"
  <2>1. n = [parts |-> {}, related |-> {}, declared |-> {},
             comments |-> <<>>, extended |-> <<>>, ids |-> <<>>, extensible |-> <<>>,
             failed |-> {}, starts |-> {}, ends |-> {}, refs |-> {}]
    BY <1>3 DEF Notes
  <2> HIDE DEF n
  <2>2. n \in NotesRecord BY <2>1 DEF NotesRecord
  <2>3. NotesInv(n, kind) BY <2>1, <2>2 DEF NotesInv
  <2>4. QED BY <2>3 DEF n
<1>4. QED BY <1>2, <1>3

LEMMA StartedKeepsInv ==
  ASSUME NEW notes, NEW before, NotesInv(notes, before)
  PROVE  /\ NotesInv(Started(notes), before)
         /\ "comments" \in Started(notes).parts
         /\ Started(notes).comments = notes.comments
<1> DEFINE related == _ensure_comment_relationships(notes.related)
           declared == _ensure_comment_content_types(notes.declared)
           started == [notes EXCEPT !.parts = @ \cup {"comments"},
                                    !.related = related, !.declared = declared]
<1>1. notes \in NotesRecord BY DEF NotesInv
<1>2. CASE "comments" \in notes.parts BY <1>2 DEF Started
<1>3. CASE "comments" \notin notes.parts
  <2>1. Started(notes) = started BY <1>3 DEF Started
  <2>2. related \in SUBSET CommentParts /\ related = declared
    BY <1>1 DEF NotesInv, NotesRecord, _ensure_comment_relationships, _ensure_comment_content_types
  <2> HIDE DEF related, declared
  <2>3. /\ started \in NotesRecord /\ started.related = related /\ started.declared = declared
        /\ started.parts = notes.parts \cup {"comments"}
        /\ started.comments = notes.comments /\ started.failed = notes.failed
        /\ started.ids = notes.ids /\ started.extended = notes.extended
    BY <1>1, <2>2 DEF NotesRecord, CommentParts
  <2> HIDE DEF started
  <2>4. NotesInv(started, before) BY <2>2, <2>3 DEF NotesInv
  <2>5. QED BY <2>1, <2>3, <2>4
<1>4. QED BY <1>2, <1>3

LEMMA AddKeepsInv ==
  ASSUME NEW notes, NEW before, NotesInv(notes, before), NEW id \in CommentIds, NEW parent
  PROVE  NotesInv(add_comment(notes, id, parent), before)
<1> DEFINE s == Started(notes)
           para == Len(notes.comments) + 1
           comment == [id |-> id, para |-> para]
           comments == Append(s.comments, comment)
           parentPara == UNION {_find_para_id(comments, p) : p \in parent}
           entry == [para |-> para, parent |-> parentPara]
           broken == [s EXCEPT !.comments = comments, !.failed = @ \cup {para},
                               !.parts = @ \cup {"commentsExtended"}]
           whole == [s EXCEPT !.parts = CommentParts, !.comments = comments,
                              !.extended = Append(@, entry), !.ids = Append(@, para),
                              !.extensible = Append(@, para)]
<1>1. NotesInv(s, before) /\ "comments" \in s.parts /\ s.comments = notes.comments
  BY StartedKeepsInv
<1>2. add_comment(notes, id, parent) = IF parent # {} /\ parentPara = {} THEN broken ELSE whole
  BY DEF add_comment
<1> HIDE DEF s
<1>3. s \in NotesRecord BY <1>1 DEF NotesInv
<1>4. s.comments \in Seq(CommentRecord) /\ Len(s.comments) \in Nat /\ para = Len(s.comments) + 1
  BY <1>1, <1>3, LenProperties DEF NotesRecord
<1>5. comment \in CommentRecord BY <1>4 DEF CommentRecord, AllIds
<1>6. /\ comments \in Seq(CommentRecord) /\ Len(comments) = para
      /\ \A i \in 1 .. Len(s.comments) : comments[i] = s.comments[i]
      /\ comments[para] = comment
  <2> HIDE DEF comment
  <2>1. QED BY <1>4, <1>5, AppendProperties
<1>7. \A i \in 1 .. para : comments[i].para = i
  <2>1. ASSUME NEW i \in 1 .. para PROVE comments[i].para = i
    <3> HIDE DEF comments
    <3>1. CASE i = para BY <1>6, <3>1
    <3>2. CASE i # para
      <4>1. i \in 1 .. Len(s.comments) BY <1>4, <3>2
      <4>2. QED BY <1>1, <1>6, <4>1 DEF NotesInv
    <3>3. QED BY <3>1, <3>2
  <2>2. QED BY <2>1
<1> HIDE DEF comments
<1>8. DOMAIN comments = 1 .. para BY <1>6, LenProperties
<1>9. parentPara \subseteq 1 .. para
  <2>1. \A p : _find_para_id(comments, p) \subseteq 1 .. para
    BY <1>7, <1>8 DEF _find_para_id
  <2>2. QED BY <2>1
<1>10. para \in Nat /\ 1 .. para \subseteq Nat /\ para \in 1 .. para
       /\ 1 .. para = (1 .. Len(s.comments)) \cup {para} /\ para \notin 1 .. Len(s.comments)
  BY <1>4
<1> HIDE DEF para, parentPara
<1>11. CASE parent # {} /\ parentPara = {}
  <2>1. broken \in NotesRecord
    BY <1>3, <1>6, <1>10 DEF NotesRecord, CommentParts
  <2>2. /\ broken.comments = comments /\ broken.failed = s.failed \cup {para}
        /\ broken.parts = s.parts \cup {"commentsExtended"}
        /\ broken.related = s.related /\ broken.declared = s.declared
        /\ broken.ids = s.ids /\ broken.extended = s.extended
    BY <1>3 DEF NotesRecord
  <2> HIDE DEF broken
  <2>3. broken.failed \subseteq 1 .. para BY <1>1, <1>10, <2>2 DEF NotesInv
  <2>4. before = "none" => {s.ids[i] : i \in DOMAIN s.ids} = (1 .. para) \ broken.failed
    <3>1. (1 .. para) \ broken.failed = (1 .. Len(s.comments)) \ s.failed BY <1>10, <2>2
    <3>2. QED BY <1>1, <3>1 DEF NotesInv
  <2>5. \A i \in DOMAIN s.extended : s.extended[i].para \in 1 .. para
                                    /\ s.extended[i].parent \subseteq 1 .. para
    BY <1>1, <1>10 DEF NotesInv
  <2>6. NotesInv(broken, before)
    BY <1>1, <1>6, <1>7, <2>1, <2>2, <2>3, <2>4, <2>5 DEF NotesInv
  <2>7. QED BY <1>2, <1>11, <2>6
<1>12. CASE ~(parent # {} /\ parentPara = {})
  <2>0. s.ids \in Seq(Nat) /\ s.extensible \in Seq(Nat) /\ s.extended \in Seq(ExtendedRecord)
    BY <1>3 DEF NotesRecord
  <2>1. entry \in ExtendedRecord BY <1>9, <1>10 DEF ExtendedRecord
  <2>2. /\ whole.parts = CommentParts /\ whole.comments = comments
        /\ whole.extended = Append(s.extended, entry) /\ whole.ids = Append(s.ids, para)
        /\ whole.related = s.related /\ whole.declared = s.declared
        /\ whole.failed = s.failed
    BY <1>3 DEF NotesRecord
  <2>3. whole \in NotesRecord
    <3> DEFINE extended == Append(s.extended, entry)
               ids == Append(s.ids, para)
               extensible == Append(s.extensible, para)
    <3>1. ids \in Seq(Nat) /\ extensible \in Seq(Nat) BY <1>10, <2>0, AppendProperties
    <3>2. extended \in Seq(ExtendedRecord)
      <4> HIDE DEF entry
      <4>1. QED BY <2>0, <2>1, AppendProperties
    <3> HIDE DEF extended, ids, extensible
    <3>3. [s EXCEPT !.parts = CommentParts, !.comments = comments, !.extended = extended,
                    !.ids = ids, !.extensible = extensible] \in NotesRecord
      BY <1>3, <1>6, <3>1, <3>2 DEF NotesRecord
    <3>4. QED BY <3>3 DEF extended, ids, extensible
  <2> HIDE DEF whole
  <2>4. whole.failed \subseteq 1 .. para BY <1>1, <1>10, <2>2 DEF NotesInv
  <2>5. {Append(s.ids, para)[i] : i \in DOMAIN Append(s.ids, para)}
          = {s.ids[i] : i \in DOMAIN s.ids} \cup {para}
    <3> DEFINE l == Len(s.ids)
    <3>1. /\ l \in Nat /\ DOMAIN s.ids = 1 .. l /\ DOMAIN Append(s.ids, para) = 1 .. l + 1
          /\ Append(s.ids, para)[l + 1] = para
          /\ \A i \in 1 .. l : Append(s.ids, para)[i] = s.ids[i]
      BY <1>10, <2>0, AppendProperties, LenProperties
    <3> HIDE DEF l
    <3>2. 1 .. l + 1 = (1 .. l) \cup {l + 1} BY <3>1
    <3>3. QED BY <3>1, <3>2
  <2>6. before = "none" =>
          {whole.ids[i] : i \in DOMAIN whole.ids} = (1 .. para) \ whole.failed
    <3>1. ASSUME before = "none"
          PROVE  {s.ids[i] : i \in DOMAIN s.ids} = (1 .. Len(s.comments)) \ s.failed
      BY <1>1, <3>1 DEF NotesInv
    <3>2. s.failed \subseteq 1 .. Len(s.comments) BY <1>1 DEF NotesInv
    <3>3. para \notin s.failed /\ 1 .. para = (1 .. Len(s.comments)) \cup {para}
      BY <1>10, <3>2
    <3>4. whole.failed = s.failed /\ whole.ids = Append(s.ids, para) BY <2>2
    <3>5. QED BY <2>5, <3>1, <3>3, <3>4, ZenonT(30)
  <2>7. ASSUME NEW i \in DOMAIN whole.extended
        PROVE  whole.extended[i].para \in 1 .. para /\ whole.extended[i].parent \subseteq 1 .. para
    <3> DEFINE l == Len(s.extended)
    <3>0. entry.para = para /\ entry.parent = parentPara OBVIOUS
    <3> HIDE DEF entry
    <3>1. /\ l \in Nat /\ DOMAIN s.extended = 1 .. l /\ DOMAIN whole.extended = 1 .. l + 1
          /\ whole.extended[l + 1] = entry
          /\ \A k \in 1 .. l : whole.extended[k] = s.extended[k]
      BY <2>0, <2>1, <2>2, AppendProperties, LenProperties
    <3>2. CASE i = l + 1 BY <1>9, <1>10, <3>0, <3>1, <3>2
    <3>3. CASE i # l + 1
      <4>1. i \in DOMAIN s.extended /\ whole.extended[i] = s.extended[i] BY <3>1, <3>3
      <4>2. QED BY <1>1, <1>10, <4>1 DEF NotesInv
    <3>4. QED BY <3>2, <3>3
  <2>8. NotesInv(whole, before)
    BY <1>1, <1>6, <1>7, <2>2, <2>3, <2>4, <2>6, <2>7 DEF NotesInv, CommentParts
  <2>9. QED BY <1>2, <1>12, <2>8
<1>13. QED BY <1>11, <1>12

LEMMA MarkersKeepInv ==
  ASSUME NEW notes, NEW before, NotesInv(notes, before), NEW id \in CommentIds,
         NEW slip \in {"none", "end", "ref"}
  PROVE  NotesInv([notes EXCEPT !.starts = @ \cup {id},
                                !.ends = IF slip = "end" THEN @ ELSE @ \cup {id},
                                !.refs = IF slip = "ref" THEN @ ELSE @ \cup {id}], before)
<1> DEFINE n == [notes EXCEPT !.starts = @ \cup {id},
                              !.ends = IF slip = "end" THEN @ ELSE @ \cup {id},
                              !.refs = IF slip = "ref" THEN @ ELSE @ \cup {id}]
<1>1. notes \in NotesRecord BY DEF NotesInv
<1>2. n \in NotesRecord BY <1>1 DEF NotesRecord, AllIds
<1>3. /\ n.parts = notes.parts /\ n.related = notes.related /\ n.declared = notes.declared
      /\ n.comments = notes.comments /\ n.failed = notes.failed
      /\ n.ids = notes.ids /\ n.extended = notes.extended
  BY <1>1 DEF NotesRecord
<1> HIDE DEF n
<1>4. NotesInv(n, before) BY <1>2, <1>3 DEF NotesInv
<1>5. QED BY <1>4 DEF n

LEMMA CommentsInvStep ==
  ASSUME CommentsInv, [CommentsNext]_commentVars PROVE CommentsInv'
<1>1. NotesInv(wordNotes, wordFrom.comments) BY DEF CommentsInv
<1>2. CASE UNCHANGED commentVars
  <2>1. wordNotes' = wordNotes /\ wordFrom' = wordFrom /\ wordPacked' = wordPacked
    BY <1>2 DEF commentVars
  <2>2. QED BY <2>1 DEF CommentsInv
<1>3. CASE Unpacks
  <2>1. wordNotes' = wordNotes /\ wordFrom' = wordFrom /\ wordPacked' = wordPacked
    BY <1>3 DEF Unpacks
  <2>2. QED BY <2>1 DEF CommentsInv
<1>4. CASE EditElsewhere \/ EditMarkers \/ AddComment \/ AddCommentFails
  <2>1. wordFrom' = wordFrom /\ wordPacked' = "no"
    BY <1>4 DEF EditElsewhere, EditMarkers, AddComment, AddCommentFails, Edits
  <2>2. CASE EditElsewhere BY <1>1, <2>1, <2>2 DEF EditElsewhere, CommentsInv
  <2>3. CASE EditMarkers
    <3>1. PICK id \in CommentIds, slip \in {"none", "end", "ref"} :
            wordNotes' = [wordNotes EXCEPT
              !.starts = @ \cup {id},
              !.ends = IF slip = "end" THEN @ ELSE @ \cup {id},
              !.refs = IF slip = "ref" THEN @ ELSE @ \cup {id}]
      BY <2>3 DEF EditMarkers
    <3>2. NotesInv(wordNotes', wordFrom.comments) BY <1>1, <3>1, MarkersKeepInv
    <3>3. QED BY <2>1, <3>2 DEF CommentsInv
  <2>4. CASE AddComment
    <3>1. PICK id \in CommentIds, parent \in {{}} \cup {{p} : p \in CommentIds} :
            wordNotes' = add_comment(wordNotes, id, parent)
      BY <2>4 DEF AddComment
    <3>2. NotesInv(wordNotes', wordFrom.comments) BY <1>1, <3>1, AddKeepsInv
    <3>3. QED BY <2>1, <3>2 DEF CommentsInv
  <2>5. CASE AddCommentFails
    <3>1. NotesInv(wordNotes', wordFrom.comments)
      BY <1>1, <2>5, StartedKeepsInv DEF AddCommentFails
    <3>2. QED BY <2>1, <3>1 DEF CommentsInv
  <2>6. QED BY <1>4, <2>2, <2>3, <2>4, <2>5
<1>5. CASE Packs \/ Validates \/ ValidatesFile
  <2>1. /\ wordNotes' = wordNotes /\ wordFrom' = wordFrom
        /\ wordPacked' \in {"refused", "failed"} \/ ValidComments(wordNotes)
    BY <1>5 DEF Packs, Validates, ValidatesFile, Judges
  <2>2. QED BY <1>1, <2>1 DEF CommentsInv
<1>6. QED BY <1>2, <1>3, <1>4, <1>5 DEF CommentsNext

(* What the checks let through: the files there are are those the package  *)
(* is told of.                                                             *)
LEMMA ValidPartsAreRelated ==
  ASSUME NEW notes \in NotesRecord, ValidComments(notes)
  PROVE  notes.parts = notes.related
<1> DEFINE p == PackageOf(notes)
<1>1. "document" \notin notes.parts /\ "document" \notin notes.related
  BY DEF NotesRecord, CommentParts
<1>2. /\ p.files = {"document"} \cup notes.parts
      /\ DOMAIN p.rels = {Root, "document"}
      /\ p.rels[Root] = {Rel(1, "officeDocument", "document")}
      /\ p.rels["document"] = {Rel(1, part, part) : part \in notes.related}
  BY DEF PackageOf, Root
<1>3. Targets(p, Root) = {"document"} /\ Targets(p, "document") = notes.related
  <2>1. \A part, type : Rel(1, type, part).target = part BY DEF Rel
  <2> HIDE DEF p
  <2>2. QED BY <1>2, <2>1 DEF Targets
<1>4. validate_file_references(p) BY DEF ValidComments
<1> HIDE DEF p
<1>5. Referenced(p) = {"document"} \cup notes.related BY <1>2, <1>3 DEF Referenced
<1>6. Referenced(p) = p.files BY <1>2, <1>4 DEF validate_file_references
<1>7. QED BY <1>1, <1>2, <1>5, <1>6

LEMMA CommentsInvImplies == CommentsInv => PackedCommentsResolve
<1> SUFFICES ASSUME CommentsInv, wordPacked \notin {"no", "refused", "failed"},
                    wordNotes.parts # {}
             PROVE  PackedCommentsResolve
  BY DEF PackedCommentsResolve
<1> DEFINE comments == wordNotes.comments
           paras == {comments[i].para : i \in DOMAIN comments}
           ids == {comments[i].id : i \in DOMAIN comments}
<1>1. /\ NotesInv(wordNotes, wordFrom.comments) /\ wordNotes \in NotesRecord
      /\ ValidComments(wordNotes)
  BY DEF CommentsInv, NotesInv
<1>2. DOMAIN comments = 1 .. Len(comments)
  <2>1. comments \in Seq(CommentRecord) BY <1>1 DEF NotesRecord
  <2>2. QED BY <2>1, LenProperties
<1>3. paras = 1 .. Len(comments) BY <1>1, <1>2 DEF NotesInv
<1>4. ASSUME NEW id \in wordNotes.starts \cup wordNotes.refs
      PROVE  Cardinality({i \in DOMAIN comments : comments[i].id = id}) = 1
  <2>1. "comments" \in wordNotes.parts BY <1>1 DEF NotesInv
  <2>2. id \in ids BY <1>1, <2>1 DEF ValidComments, validate_comment_markers
  <2>3. PICK i \in DOMAIN comments : comments[i].id = id BY <2>2
  <2>4. {k \in DOMAIN comments : comments[k].id = id} = {i}
    BY <1>1, <2>3 DEF ValidComments, UniqueCommentIds
  <2>5. QED BY <2>4, FS_Singleton
<1>5. wordNotes.parts = wordNotes.related /\ wordNotes.related = wordNotes.declared
  BY <1>1, ValidPartsAreRelated DEF NotesInv
<1>6. wordFrom.comments = "none" =>
        {wordNotes.ids[i] : i \in DOMAIN wordNotes.ids} = paras \ wordNotes.failed
  BY <1>1, <1>3 DEF NotesInv
<1>7. \A i \in DOMAIN wordNotes.extended :
        wordNotes.extended[i].para \in paras /\ wordNotes.extended[i].parent \subseteq paras
  BY <1>1, <1>3 DEF NotesInv
<1> HIDE DEF paras
<1>8. QED BY <1>4, <1>5, <1>6, <1>7 DEF PackedCommentsResolve, paras

(* Whatever comments, replies and markers are added and in which order, a  *)
(* document the checks let through has for every marker one comment, for   *)
(* every comment that did not fail its entries, for every reply a parent,  *)
(* and a package that knows its files (comment.py).                        *)
THEOREM CommentsResolve == CommentsSpec => []PackedCommentsResolve
<1>1. CommentsInit => CommentsInv
  BY NotesInvAtFirst DEF CommentsInit, CommentsInv
<1>2. CommentsInv /\ [CommentsNext]_commentVars => CommentsInv'
  BY CommentsInvStep
<1>3. QED BY <1>1, <1>2, CommentsInvImplies, PTL DEF CommentsSpec

-----------------------------------------------------------------------------
(* Sequences, element by element.                                          *)

(* What holds of the empty sequence, and of a longer one if of the shorter,*)
(* holds of every sequence.                                                *)
LEMMA SeqKeeps ==
  ASSUME NEW E, NEW good, <<>> \in good,
         \A s \in Seq(E), x \in E : s \in good => Append(s, x) \in good
  PROVE  \A s \in Seq(E) : s \in good
<1> SUFFICES ASSUME NEW s \in Seq(E) PROVE s \in good OBVIOUS
<1> DEFINE N == Len(s)
           first(n) == SubSeq(s, 1, n)
           reached == {n \in 0 .. N : first(n) \in good}
<1>1. N \in Nat BY LenProperties
<1>2. 0 \in reached
  <2>1. first(0) = <<>> BY SubSeqEmpty
  <2> HIDE DEF first
  <2>2. QED BY <1>1, <2>1
<1>3. ASSUME NEW n \in 1 .. N, n - 1 \in reached PROVE n \in reached
  <2>1. first(n - 1) \in Seq(E) /\ s[n] \in E
    <3>1. \A i \in 1 .. n - 1 : s[i] \in E BY <1>1, ElementOfSeq
    <3>2. s[n] \in E BY ElementOfSeq
    <3>3. QED BY <1>1, <3>1, <3>2, SubSeqProperties
  <2>2. first(n) = Append(first(n - 1), s[n])
    <3>1. first(n) = first(n - 1) \o <<s[n]>> BY <1>1, SubSeqRecursiveSecond
    <3> HIDE DEF first
    <3>2. QED BY <2>1, <3>1, AppendIsConcat
  <2> HIDE DEF first
  <2>3. first(n) \in good BY <1>3, <2>1, <2>2
  <2>4. QED BY <1>1, <2>3
<1>4. \A n \in 0 .. N : n \in reached
  <2> HIDE DEF reached, N
  <2>1. QED BY <1>1, <1>2, <1>3, LoopKeeps
<1>5. N \in reached BY <1>1, <1>4
<1>6. first(N) = s BY SubSeqFull
<1>7. QED BY <1>5, <1>6

(* A pass over a sequence, one step for each element: what it computes.    *)
Computes(pass, E, S, base, step) ==
  /\ base \in S /\ step \in [S \X E -> S]
  /\ pass \in [Seq(E) -> S] /\ pass[<<>>] = base
  /\ \A s \in Seq(E), x \in E : pass[Append(s, x)] = step[<<pass[s], x>>]

LEMMA PassComputes ==
  ASSUME NEW E, NEW S, NEW base \in S, NEW step \in [S \X E -> S]
  PROVE  \E pass : Computes(pass, E, S, base, step)
<1> DEFINE steps(s) == [i \in 1 .. Len(s) |-> [x \in S |-> step[<<x, s[i]>>]]]
           runs(s, f) == LoopStates(f, Len(s), S, base, steps(s))
           run(s) == CHOOSE f : runs(s, f)
           pass == [s \in Seq(E) |-> run(s)[Len(s)]]
<1>1. ASSUME NEW s \in Seq(E) PROVE runs(s, run(s)) /\ Len(s) \in Nat
  <2>1. Len(s) \in Nat /\ \A i \in 1 .. Len(s) : s[i] \in E BY LenProperties, ElementOfSeq
  <2>2. steps(s) \in [1 .. Len(s) -> [S -> S]] BY <2>1
  <2>3. \E f : runs(s, f)
    <3> HIDE DEF steps
    <3>1. QED BY <2>1, <2>2, LoopComputes
  <2> HIDE DEF runs
  <2>4. QED BY <2>1, <2>3
<1>2. ASSUME NEW s \in Seq(E)
      PROVE  /\ run(s)[0] = base /\ run(s)[Len(s)] \in S /\ Len(s) \in Nat
             /\ \A i \in 1 .. Len(s) : run(s)[i - 1] \in S /\ run(s)[i] = step[<<run(s)[i - 1], s[i]>>]
  <2>1. runs(s, run(s)) /\ Len(s) \in Nat BY <1>1
  <2> HIDE DEF run
  <2>2. run(s) \in [0 .. Len(s) -> S] /\ run(s)[0] = base BY <2>1 DEF LoopStates
  <2>3. ASSUME NEW i \in 1 .. Len(s)
        PROVE  run(s)[i - 1] \in S /\ run(s)[i] = step[<<run(s)[i - 1], s[i]>>]
    <3>1. i - 1 \in 0 .. Len(s) BY <2>1
    <3>2. run(s)[i - 1] \in S BY <2>2, <3>1
    <3>3. run(s)[i] = steps(s)[i][run(s)[i - 1]] BY <2>1 DEF LoopStates
    <3>4. QED BY <3>2, <3>3
  <2>4. Len(s) \in 0 .. Len(s) BY <2>1
  <2>5. QED BY <2>1, <2>2, <2>3, <2>4
<1> HIDE DEF run, runs
<1>3. <<>> \in Seq(E) /\ Len(<<>>) = 0 BY EmptySeq
<1>4. ASSUME NEW s \in Seq(E), NEW x \in E PROVE pass[Append(s, x)] = step[<<pass[s], x>>]
  <2> DEFINE t == Append(s, x)
             same == {i \in 0 .. Len(s) : run(t)[i] = run(s)[i]}
  <2>1. t \in Seq(E) /\ Len(t) = Len(s) + 1 /\ t[Len(s) + 1] = x
        /\ \A i \in 1 .. Len(s) : t[i] = s[i]
    BY AppendProperties
  <2> HIDE DEF t
  <2>2. Len(s) \in Nat BY <1>2
  <2>3. 0 \in same BY <1>2, <2>1, <2>2
  <2>4. ASSUME NEW i \in 1 .. Len(s), i - 1 \in same PROVE i \in same
    <3>1. i \in 1 .. Len(t) /\ i \in 0 .. Len(s) BY <2>1, <2>2
    <3>2. run(t)[i] = step[<<run(t)[i - 1], t[i]>>] BY <1>2, <2>1, <3>1
    <3>3. run(s)[i] = step[<<run(s)[i - 1], s[i]>>] BY <1>2
    <3>4. QED BY <2>1, <2>4, <3>1, <3>2, <3>3
  <2>5. Len(s) \in same
    <3>1. \A i \in 0 .. Len(s) : i \in same
      <4> HIDE DEF same
      <4>1. QED BY <2>2, <2>3, <2>4, LoopKeeps
    <3>2. QED BY <2>2, <3>1
  <2>6. run(t)[Len(s)] = run(s)[Len(s)] BY <2>5
  <2>7. Len(t) \in 1 .. Len(t) /\ Len(t) - 1 = Len(s) BY <2>1, <2>2
  <2>8. run(t)[Len(t)] = step[<<run(t)[Len(s)], x>>] BY <1>2, <2>1, <2>7
  <2>9. pass[t] = run(t)[Len(t)] /\ pass[s] = run(s)[Len(s)] BY <2>1
  <2>10. QED BY <2>6, <2>8, <2>9 DEF t
<1>5. pass \in [Seq(E) -> S] BY <1>2
<1>6. pass[<<>>] = base BY <1>2, <1>3
<1> HIDE DEF pass
<1>7. QED BY <1>4, <1>5, <1>6 DEF Computes

(* The first elements of a sequence. *)
LEMMA FirstOnes ==
  ASSUME NEW E, NEW s \in Seq(E), NEW n \in 1 .. Len(s)
  PROVE  /\ SubSeq(s, 1, n - 1) \in Seq(E) /\ s[n] \in E
         /\ SubSeq(s, 1, n) = Append(SubSeq(s, 1, n - 1), s[n])
<1>1. Len(s) \in Nat BY LenProperties
<1>2. SubSeq(s, 1, n - 1) \in Seq(E) /\ s[n] \in E
  <2>1. \A i \in 1 .. n - 1 : s[i] \in E BY <1>1, ElementOfSeq
  <2>2. s[n] \in E BY ElementOfSeq
  <2>3. QED BY <1>1, <2>1, <2>2, SubSeqProperties
<1>3. SubSeq(s, 1, n) = SubSeq(s, 1, n - 1) \o <<s[n]>> BY <1>1, SubSeqRecursiveSecond
<1>4. QED BY <1>2, <1>3, AppendIsConcat

(* A loop that takes the steps of a pass computes what the pass does.      *)
LEMMA LoopIsPass ==
  ASSUME NEW E, NEW S, NEW base, NEW step,
         NEW pass, Computes(pass, E, S, base, step), NEW s \in Seq(E),
         NEW loop, loop[0] = base,
         \A i \in 1 .. Len(s) : loop[i - 1] \in S => loop[i] = step[<<loop[i - 1], s[i]>>]
  PROVE  /\ \A i \in 0 .. Len(s) : loop[i] = pass[SubSeq(s, 1, i)]
         /\ loop[Len(s)] = pass[s]
<1> DEFINE first(i) == SubSeq(s, 1, i)
           same == {i \in 0 .. Len(s) : loop[i] = pass[first(i)]}
<1>1. Len(s) \in Nat BY LenProperties
<1>2. pass \in [Seq(E) -> S] /\ pass[<<>>] = base BY DEF Computes
<1>3. 0 \in same
  <2>1. first(0) = <<>> BY SubSeqEmpty
  <2>2. 0 \in 0 .. Len(s) BY <1>1
  <2> HIDE DEF first
  <2>3. loop[0] = pass[first(0)] BY <1>2, <2>1
  <2>4. QED BY <2>2, <2>3
<1>4. ASSUME NEW i \in 1 .. Len(s), i - 1 \in same PROVE i \in same
  <2>1. /\ first(i - 1) \in Seq(E) /\ s[i] \in E
        /\ first(i) = Append(first(i - 1), s[i])
    BY FirstOnes
  <2> HIDE DEF first
  <2>2. loop[i - 1] = pass[first(i - 1)] /\ loop[i - 1] \in S BY <1>2, <1>4, <2>1
  <2>3. loop[i] = step[<<loop[i - 1], s[i]>>] BY <2>2
  <2>4. pass[first(i)] = step[<<pass[first(i - 1)], s[i]>>] BY <2>1 DEF Computes
  <2>5. QED BY <1>1, <2>2, <2>3, <2>4
<1>5. \A i \in 0 .. Len(s) : i \in same
  <2> HIDE DEF same
  <2>1. QED BY <1>1, <1>3, <1>4, LoopKeeps
<1>6. \A i \in 0 .. Len(s) : loop[i] = pass[first(i)] BY <1>5
<1>7. loop[Len(s)] = pass[s]
  <2>1. first(Len(s)) = s BY SubSeqFull
  <2>2. Len(s) \in 0 .. Len(s) BY <1>1
  <2> HIDE DEF first
  <2>3. QED BY <1>6, <2>1, <2>2
<1>8. QED BY <1>6, <1>7

(* A pass has the states of a loop that takes its steps.                   *)
LEMMA PassIsLoop ==
  ASSUME NEW E, NEW S, NEW base, NEW step,
         NEW pass, Computes(pass, E, S, base, step), NEW s \in Seq(E)
  PROVE  \E g : /\ g = [i \in 0 .. Len(s) |-> g[i]] /\ g[0] = base
                /\ \A i \in 1 .. Len(s) : g[i - 1] \in S /\ g[i] = step[<<g[i - 1], s[i]>>]
<1> DEFINE first(i) == SubSeq(s, 1, i)
           g == [i \in 0 .. Len(s) |-> pass[first(i)]]
<1>1. Len(s) \in Nat BY LenProperties
<1>2. pass \in [Seq(E) -> S] /\ pass[<<>>] = base BY DEF Computes
<1>3. g[0] = base
  <2>1. first(0) = <<>> BY SubSeqEmpty
  <2>2. 0 \in 0 .. Len(s) BY <1>1
  <2> HIDE DEF first
  <2>3. g[0] = pass[first(0)] BY <2>2
  <2>4. QED BY <1>2, <2>1, <2>3
<1>4. ASSUME NEW i \in 1 .. Len(s)
      PROVE  g[i - 1] \in S /\ g[i] = step[<<g[i - 1], s[i]>>]
  <2>1. /\ first(i - 1) \in Seq(E) /\ s[i] \in E
        /\ first(i) = Append(first(i - 1), s[i])
    BY FirstOnes
  <2>2. i \in 0 .. Len(s) /\ i - 1 \in 0 .. Len(s) BY <1>1
  <2> HIDE DEF first
  <2>3. g[i] = pass[first(i)] /\ g[i - 1] = pass[first(i - 1)] BY <2>2
  <2>4. pass[first(i)] = step[<<pass[first(i - 1)], s[i]>>] BY <2>1 DEF Computes
  <2>5. pass[first(i - 1)] \in S BY <1>2, <2>1
  <2> HIDE DEF g
  <2>6. QED BY <2>3, <2>4, <2>5
<1>5. g = [i \in 0 .. Len(s) |-> g[i]] OBVIOUS
<1> HIDE DEF g
<1>6. QED BY <1>3, <1>4, <1>5

-----------------------------------------------------------------------------
(* What is left of a sequence.                                             *)

OnlyStep(E, wanted) ==
  [p \in Seq(E) \X E |-> IF p[2] \in wanted THEN Append(p[1], p[2]) ELSE p[1]]

LEMMA OnlyIsPass ==
  ASSUME NEW E, NEW wanted, NEW s \in Seq(E),
         NEW pass, Computes(pass, E, Seq(E), <<>>, OnlyStep(E, wanted))
  PROVE  Only(s, wanted) = pass[s]
<1> DEFINE S == Seq(E)
           N == Len(s)
           step == OnlyStep(E, wanted)
           body(a, i) == IF i = 0 THEN <<>>
                         ELSE IF s[i] \in wanted THEN Append(a[i - 1], s[i]) ELSE a[i - 1]
           only == CHOOSE a : a = [i \in 0 .. N |-> body(a, i)]
<1>1. Only(s, wanted) = only[N] BY DEF Only
<1>2. N \in Nat /\ \A i \in 1 .. N : s[i] \in E BY LenProperties, ElementOfSeq
<1>3. /\ step \in [S \X E -> S] /\ <<>> \in S
      /\ Computes(pass, E, S, <<>>, step)
  BY AppendProperties DEF OnlyStep
<1>4. ASSUME NEW a, NEW i \in 1 .. N, a[i - 1] \in S
      PROVE  body(a, i) = step[<<a[i - 1], s[i]>>]
  BY <1>2, <1>4 DEF OnlyStep
<1>5. \A a : body(a, 0) = <<>> OBVIOUS
<1> HIDE DEF body, step, S
<1>6. PICK g : /\ g = [i \in 0 .. N |-> g[i]] /\ g[0] = <<>>
               /\ \A i \in 1 .. N : g[i - 1] \in S /\ g[i] = step[<<g[i - 1], s[i]>>]
  BY <1>3, PassIsLoop
<1>7. \A i \in 0 .. N : g[i] = body(g, i)
  <2>1. \A i \in 1 .. N : g[i] = body(g, i) BY <1>4, <1>6
  <2>2. \A i \in 0 .. N : i = 0 \/ i \in 1 .. N BY <1>2
  <2>3. QED BY <1>5, <1>6, <2>1, <2>2
<1>8. g = [i \in 0 .. N |-> body(g, i)] BY <1>6, <1>7
<1>9. only = [i \in 0 .. N |-> body(only, i)] BY <1>8
<1> HIDE DEF only
<1>10. \A i \in 0 .. N : only[i] = body(only, i) BY <1>9
<1>11. only[0] = <<>> /\ \A i \in 1 .. N : i \in 0 .. N BY <1>2, <1>5, <1>10
<1>12. ASSUME NEW i \in 1 .. N, only[i - 1] \in S
       PROVE  only[i] = step[<<only[i - 1], s[i]>>]
  <2>1. body(only, i) = step[<<only[i - 1], s[i]>>] BY <1>4, <1>12
  <2>2. only[i] = body(only, i) BY <1>10, <1>11
  <2>3. QED BY <2>1, <2>2
<1>13. only[N] = pass[s]
  <2>1. \A i \in 1 .. Len(s) : only[i - 1] \in S => only[i] = step[<<only[i - 1], s[i]>>]
    BY <1>12
  <2>2. Computes(pass, E, S, <<>>, step) /\ only[0] = <<>> BY <1>3, <1>11
  <2>3. QED BY <2>1, <2>2, LoopIsPass
<1>14. QED BY <1>1, <1>13

LEMMA OnlyNext ==
  ASSUME NEW E, NEW wanted
  PROVE  /\ Only(<<>>, wanted) = <<>>
         /\ \A s \in Seq(E) : Only(s, wanted) \in Seq(E)
         /\ \A s \in Seq(E), x \in E : Only(Append(s, x), wanted) =
              IF x \in wanted THEN Append(Only(s, wanted), x) ELSE Only(s, wanted)
<1> DEFINE step == OnlyStep(E, wanted)
<1>1. step \in [Seq(E) \X E -> Seq(E)] BY AppendProperties DEF OnlyStep
<1>2. PICK pass : Computes(pass, E, Seq(E), <<>>, step)
  <2> HIDE DEF step
  <2>1. <<>> \in Seq(E) OBVIOUS
  <2>2. QED BY <1>1, <2>1, PassComputes
<1>3. \A s \in Seq(E) : Only(s, wanted) = pass[s] BY <1>2, OnlyIsPass
<1>4. pass \in [Seq(E) -> Seq(E)] /\ pass[<<>>] = <<>> BY <1>2 DEF Computes
<1>5. ASSUME NEW s \in Seq(E), NEW x \in E
      PROVE  Only(Append(s, x), wanted) =
               IF x \in wanted THEN Append(Only(s, wanted), x) ELSE Only(s, wanted)
  <2>1. pass[Append(s, x)] = step[<<pass[s], x>>] BY <1>2 DEF Computes
  <2>2. Append(s, x) \in Seq(E) /\ pass[s] \in Seq(E) BY <1>4, AppendProperties
  <2>3. step[<<pass[s], x>>] = IF x \in wanted THEN Append(pass[s], x) ELSE pass[s]
    BY <2>2 DEF OnlyStep
  <2> HIDE DEF step
  <2>4. QED BY <1>3, <2>1, <2>2, <2>3
<1>6. \A s \in Seq(E) : Only(s, wanted) \in Seq(E) BY <1>3, <1>4
<1>7. <<>> \in Seq(E) OBVIOUS
<1>8. Only(<<>>, wanted) = <<>> BY <1>3, <1>4, <1>7
<1>9. QED BY <1>5, <1>6, <1>8

-----------------------------------------------------------------------------
(* Sequences one after the other.                                          *)

FlattenStep(X) == [p \in Seq(X) \X Seq(X) |-> p[1] \o p[2]]

LEMMA FlattenIsPass ==
  ASSUME NEW X, NEW seqs \in Seq(Seq(X)),
         NEW pass, Computes(pass, Seq(X), Seq(X), <<>>, FlattenStep(X))
  PROVE  FlattenSeq(seqs) = pass[seqs]
<1> DEFINE S == Seq(X)
           N == Len(seqs)
           step == FlattenStep(X)
           body(a, i) == IF i = 1 THEN seqs[i] ELSE a[i - 1] \o seqs[i]
           flatten == CHOOSE a : a = [i \in 1 .. N |-> body(a, i)]
<1>1. N \in Nat /\ \A i \in 1 .. N : seqs[i] \in S BY LenProperties, ElementOfSeq
<1>2. Computes(pass, S, S, <<>>, step) /\ seqs \in Seq(S) OBVIOUS
<1>3. CASE N = 0
  <2>1. seqs = <<>> BY <1>3, EmptySeq
  <2>2. QED BY <1>2, <1>3, <2>1 DEF FlattenSeq, Computes
<1>4. CASE N # 0
  <2>1. FlattenSeq(seqs) = flatten[N] BY <1>4 DEF FlattenSeq
  <2>2. ASSUME NEW a, NEW i \in 2 .. N, a[i - 1] \in S
        PROVE  body(a, i) = step[<<a[i - 1], seqs[i]>>]
    BY <1>1, <2>2 DEF FlattenStep
  <2>3. \A a : body(a, 1) = seqs[1] OBVIOUS
  <2>4. seqs[1] = step[<<<<>>, seqs[1]>>]
    <3>1. 1 \in 1 .. N BY <1>1, <1>4
    <3>2. seqs[1] \in Seq(X) /\ <<>> \in Seq(X) BY <1>1, <3>1
    <3>3. <<>> \o seqs[1] = seqs[1] BY <3>2, ConcatEmptySeq
    <3>4. QED BY <3>2, <3>3 DEF FlattenStep
  <2> HIDE DEF body, step, S
  <2>5. PICK g : /\ g = [i \in 0 .. N |-> g[i]] /\ g[0] = <<>>
                 /\ \A i \in 1 .. N : g[i - 1] \in S /\ g[i] = step[<<g[i - 1], seqs[i]>>]
    BY <1>2, PassIsLoop
  <2> DEFINE h == [i \in 1 .. N |-> g[i]]
  <2>6. 1 \in 1 .. N /\ \A i \in 1 .. N : i = 1 \/ (i \in 2 .. N /\ i - 1 \in 1 .. N)
    BY <1>1, <1>4
  <2>7. \A i \in 1 .. N : g[i] = body(h, i)
    <3>1. g[1] = body(h, 1)
      <4>1. \A i \in 1 .. N : i = 1 => i - 1 = 0 OBVIOUS
      <4>2. \A i \in 1 .. N : i = 1 => g[i] = step[<<g[0], seqs[i]>>] BY <2>5, <4>1, Zenon
      <4>3. QED BY <2>3, <2>4, <2>5, <2>6, <4>2
    <3>2. ASSUME NEW i \in 2 .. N PROVE g[i] = body(h, i)
      <4>1. i \in 1 .. N /\ i - 1 \in 1 .. N BY <1>1
      <4>2. h[i - 1] = g[i - 1] /\ g[i - 1] \in S BY <2>5, <4>1
      <4> HIDE DEF h
      <4>3. body(h, i) = step[<<h[i - 1], seqs[i]>>] BY <2>2, <4>2
      <4>4. g[i] = step[<<g[i - 1], seqs[i]>>] BY <2>5, <4>1
      <4>5. QED BY <4>2, <4>3, <4>4
    <3> HIDE DEF h
    <3>3. QED BY <2>6, <3>1, <3>2
  <2>8. h = [i \in 1 .. N |-> body(h, i)] BY <2>7
  <2>9. flatten = [i \in 1 .. N |-> body(flatten, i)] BY <2>8
  <2> HIDE DEF flatten
  <2>10. \A i \in 1 .. N : flatten[i] = body(flatten, i) BY <2>9
  <2> DEFINE loop == [i \in 0 .. N |-> IF i = 0 THEN <<>> ELSE flatten[i]]
  <2>11. \A i \in 1 .. N : loop[i - 1] \in S => loop[i] = step[<<loop[i - 1], seqs[i]>>]
    <3>1. loop[0] = <<>> /\ \A i \in 1 .. N : loop[i] = flatten[i] BY <1>1
    <3> HIDE DEF loop
    <3>2. loop[1] = step[<<loop[1 - 1], seqs[1]>>] BY <2>3, <2>4, <2>6, <2>10, <3>1
    <3>3. ASSUME NEW i \in 2 .. N, loop[i - 1] \in S
          PROVE  loop[i] = step[<<loop[i - 1], seqs[i]>>]
      <4>1. i \in 1 .. N /\ i - 1 \in 1 .. N BY <1>1
      <4>2. QED BY <2>2, <2>10, <3>1, <3>3, <4>1
    <3>4. QED BY <2>6, <3>2, <3>3
  <2>12. loop[0] = <<>> /\ loop[N] = flatten[N] BY <1>1, <1>4
  <2> HIDE DEF loop
  <2>13. loop[N] = pass[seqs] BY <1>2, <2>11, <2>12, LoopIsPass
  <2>14. QED BY <2>1, <2>12, <2>13
<1>5. QED BY <1>3, <1>4

LEMMA FlattenNext ==
  ASSUME NEW X
  PROVE  /\ FlattenSeq(<<>>) = <<>>
         /\ \A seqs \in Seq(Seq(X)) : FlattenSeq(seqs) \in Seq(X)
         /\ \A seqs \in Seq(Seq(X)), s \in Seq(X) :
              FlattenSeq(Append(seqs, s)) = FlattenSeq(seqs) \o s
<1> DEFINE S == Seq(X)
           step == FlattenStep(X)
<1>1. step \in [S \X S -> S] /\ <<>> \in S BY ConcatProperties DEF FlattenStep
<1>2. PICK pass : Computes(pass, S, S, <<>>, step)
  <2> HIDE DEF step, S
  <2>1. QED BY <1>1, PassComputes
<1>3. \A seqs \in Seq(S) : FlattenSeq(seqs) = pass[seqs] BY <1>2, FlattenIsPass
<1>4. pass \in [Seq(S) -> S] /\ pass[<<>>] = <<>> BY <1>2 DEF Computes
<1>5. ASSUME NEW seqs \in Seq(S), NEW s \in S
      PROVE  FlattenSeq(Append(seqs, s)) = FlattenSeq(seqs) \o s
  <2>1. pass[Append(seqs, s)] = step[<<pass[seqs], s>>] BY <1>2 DEF Computes
  <2>2. Append(seqs, s) \in Seq(S) /\ pass[seqs] \in S BY <1>4, AppendProperties
  <2>3. step[<<pass[seqs], s>>] = pass[seqs] \o s BY <2>2 DEF FlattenStep
  <2> HIDE DEF step
  <2>4. QED BY <1>3, <2>1, <2>2, <2>3
<1>6. \A seqs \in Seq(S) : FlattenSeq(seqs) \in S BY <1>3, <1>4
<1>7. <<>> \in Seq(S) OBVIOUS
<1>8. FlattenSeq(<<>>) = <<>> BY <1>3, <1>4, <1>7
<1>9. QED BY <1>5, <1>6, <1>8

(* Appending to the second of two sequences is appending to both.          *)
LEMMA AppendToConcat ==
  ASSUME NEW E, NEW s \in Seq(E), NEW t \in Seq(E), NEW x \in E
  PROVE  s \o Append(t, x) = Append(s \o t, x)
<1>1. Append(t, x) = t \o <<x>> /\ <<x>> \in Seq(E) BY AppendIsConcat
<1>2. s \o t \in Seq(E) BY ConcatProperties
<1>3. Append(s \o t, x) = (s \o t) \o <<x>> BY <1>2, AppendIsConcat
<1>4. QED BY <1>1, <1>3, ConcatAssociative

LEMMA OnlyConcat ==
  ASSUME NEW E, NEW wanted, NEW s \in Seq(E), NEW t \in Seq(E)
  PROVE  Only(s \o t, wanted) = Only(s, wanted) \o Only(t, wanted)
<1> DEFINE Rest(u) == Only(u, wanted)
           good == {u \in Seq(E) : Rest(s \o u) = Rest(s) \o Rest(u)}
<1>0. /\ Rest(<<>>) = <<>> /\ \A u \in Seq(E) : Rest(u) \in Seq(E)
      /\ \A u \in Seq(E), x \in E :
           Rest(Append(u, x)) = IF x \in wanted THEN Append(Rest(u), x) ELSE Rest(u)
  BY OnlyNext, Zenon
<1> HIDE DEF Rest
<1>1. Rest(s) \in Seq(E) /\ Rest(<<>>) = <<>> /\ <<>> \in Seq(E) BY <1>0
<1>2. <<>> \in good
  <2>1. s \o <<>> = s BY ConcatEmptySeq
  <2>2. Rest(s) \o <<>> = Rest(s) BY <1>1, ConcatEmptySeq
  <2>3. QED BY <1>1, <2>1, <2>2
<1>3. ASSUME NEW u \in Seq(E), NEW x \in E, u \in good PROVE Append(u, x) \in good
  <2>1. s \o Append(u, x) = Append(s \o u, x) BY AppendToConcat
  <2>2. s \o u \in Seq(E) BY ConcatProperties
  <2>3. Append(u, x) \in Seq(E) BY AppendProperties
  <2>4. Rest(u) \in Seq(E) BY <1>0
  <2>5. Rest(Append(s \o u, x)) =
          IF x \in wanted THEN Append(Rest(s \o u), x) ELSE Rest(s \o u)
    BY <2>2, <1>0
  <2>6. Rest(Append(u, x)) =
          IF x \in wanted THEN Append(Rest(u), x) ELSE Rest(u)
    BY <1>0
  <2>7. Rest(s) \o Append(Rest(u), x) = Append(Rest(s) \o Rest(u), x)
    BY <1>1, <2>4, AppendToConcat
  <2>8. QED BY <1>3, <2>1, <2>3, <2>5, <2>6, <2>7
<1>4. \A u \in Seq(E) : u \in good
  <2> HIDE DEF good
  <2>1. QED BY <1>2, <1>3, SeqKeeps
<1>5. QED BY <1>4 DEF Rest

LEMMA FlattenConcat ==
  ASSUME NEW X, NEW a \in Seq(Seq(X)), NEW b \in Seq(Seq(X))
  PROVE  FlattenSeq(a \o b) = FlattenSeq(a) \o FlattenSeq(b)
<1> DEFINE good == {c \in Seq(Seq(X)) : FlattenSeq(a \o c) = FlattenSeq(a) \o FlattenSeq(c)}
<1>1. FlattenSeq(a) \in Seq(X) /\ FlattenSeq(<<>>) = <<>> BY FlattenNext
<1>2. <<>> \in good
  <2>1. a \o <<>> = a BY ConcatEmptySeq
  <2>2. FlattenSeq(a) \o <<>> = FlattenSeq(a) BY <1>1, ConcatEmptySeq
  <2>3. QED BY <1>1, <2>1, <2>2
<1>3. ASSUME NEW c \in Seq(Seq(X)), NEW s \in Seq(X), c \in good PROVE Append(c, s) \in good
  <2>1. a \o Append(c, s) = Append(a \o c, s) BY AppendToConcat
  <2>2. a \o c \in Seq(Seq(X)) BY ConcatProperties
  <2>3. Append(c, s) \in Seq(Seq(X)) BY AppendProperties
  <2>4. FlattenSeq(c) \in Seq(X) BY FlattenNext
  <2>5. FlattenSeq(Append(a \o c, s)) = FlattenSeq(a \o c) \o s BY <2>2, FlattenNext
  <2>6. FlattenSeq(Append(c, s)) = FlattenSeq(c) \o s BY FlattenNext
  <2>7. (FlattenSeq(a) \o FlattenSeq(c)) \o s = FlattenSeq(a) \o (FlattenSeq(c) \o s)
    <3> DEFINE p == FlattenSeq(a)
               q == FlattenSeq(c)
    <3>1. p \in Seq(X) /\ q \in Seq(X) BY <1>1, <2>4
    <3> HIDE DEF p, q, good
    <3>2. (p \o q) \o s = p \o (q \o s) BY <3>1, ConcatAssociative, SMTT(20)
    <3>3. QED BY <3>2 DEF p, q
  <2>8. QED BY <1>3, <2>1, <2>3, <2>5, <2>6, <2>7
<1>4. \A c \in Seq(Seq(X)) : c \in good
  <2> HIDE DEF good
  <2>1. QED BY <1>2, <1>3, SeqKeeps
<1>5. QED BY <1>4

(* The members of a concatenation, and of a flattened sequence.            *)
LEMMA MembersOfConcat ==
  ASSUME NEW X, NEW s \in Seq(X), NEW t \in Seq(X)
  PROVE  ToSet(s \o t) = ToSet(s) \cup ToSet(t)
<1>1. /\ s \o t \in Seq(X) /\ Len(s \o t) = Len(s) + Len(t)
      /\ \A i \in 1 .. Len(s) + Len(t) :
           (s \o t)[i] = IF i <= Len(s) THEN s[i] ELSE t[i - Len(s)]
  BY ConcatProperties
<1>2. /\ DOMAIN s = 1 .. Len(s) /\ DOMAIN t = 1 .. Len(t) /\ Len(s) \in Nat /\ Len(t) \in Nat
      /\ DOMAIN (s \o t) = 1 .. Len(s) + Len(t)
  BY <1>1, LenProperties
<1>3. ASSUME NEW i \in 1 .. Len(s) PROVE s[i] \in ToSet(s \o t)
  <2>1. i \in 1 .. Len(s) + Len(t) /\ (s \o t)[i] = s[i] BY <1>1, <1>2
  <2>2. QED BY <1>2, <2>1 DEF ToSet
<1>4. ASSUME NEW i \in 1 .. Len(t) PROVE t[i] \in ToSet(s \o t)
  <2>1. /\ i + Len(s) \in 1 .. Len(s) + Len(t) /\ ~(i + Len(s) <= Len(s))
        /\ (i + Len(s)) - Len(s) = i
    BY <1>2
  <2>2. (s \o t)[i + Len(s)] = t[i] BY <1>1, <2>1
  <2>3. QED BY <1>2, <2>1, <2>2 DEF ToSet
<1>5. ASSUME NEW i \in 1 .. Len(s) + Len(t) PROVE (s \o t)[i] \in ToSet(s) \cup ToSet(t)
  <2>1. CASE i <= Len(s) BY <1>1, <1>2, <2>1 DEF ToSet
  <2>2. CASE ~(i <= Len(s))
    <3>1. i - Len(s) \in 1 .. Len(t) BY <1>2, <2>2
    <3>2. QED BY <1>1, <1>2, <2>2, <3>1 DEF ToSet
  <2>3. QED BY <2>1, <2>2
<1>6. QED BY <1>2, <1>3, <1>4, <1>5 DEF ToSet

LEMMA MembersOfFlat ==
  ASSUME NEW X, NEW seqs \in Seq(Seq(X)), NEW x \in ToSet(FlattenSeq(seqs))
  PROVE  \E k \in DOMAIN seqs : x \in ToSet(seqs[k])
<1> DEFINE from(c) == \A y \in ToSet(FlattenSeq(c)) : \E k \in DOMAIN c : y \in ToSet(c[k])
           good == {c \in Seq(Seq(X)) : from(c)}
<1>1. <<>> \in good
  <2>1. ToSet(FlattenSeq(<<>>)) = {} BY FlattenNext DEF ToSet
  <2>2. QED BY <2>1
<1>2. ASSUME NEW c \in Seq(Seq(X)), NEW s \in Seq(X), c \in good PROVE Append(c, s) \in good
  <2> DEFINE d == Append(c, s)
  <2>1. /\ d \in Seq(Seq(X)) /\ d[Len(c) + 1] = s /\ \A i \in 1 .. Len(c) : d[i] = c[i]
        /\ Len(d) = Len(c) + 1
    BY AppendProperties
  <2>2. FlattenSeq(d) = FlattenSeq(c) \o s /\ FlattenSeq(c) \in Seq(X) BY FlattenNext
  <2>3. ToSet(FlattenSeq(d)) = ToSet(FlattenSeq(c)) \cup ToSet(s) BY <2>2, MembersOfConcat
  <2> HIDE DEF d
  <2>4. DOMAIN c = 1 .. Len(c) /\ Len(c) \in Nat /\ DOMAIN d = 1 .. Len(d) BY <2>1, LenProperties
  <2>5. \A k \in DOMAIN c : k \in DOMAIN d /\ d[k] = c[k] BY <2>1, <2>4
  <2>6. Len(c) + 1 \in DOMAIN d BY <2>1, <2>4
  <2>7. from(d) BY <1>2, <2>1, <2>3, <2>5, <2>6
  <2>8. QED BY <2>1, <2>7 DEF d
<1>3. \A c \in Seq(Seq(X)) : c \in good
  <2> HIDE DEF good
  <2>1. QED BY <1>1, <1>2, SeqKeeps
<1>4. QED BY <1>3

-----------------------------------------------------------------------------
(* A paragraph of a Word document, read token by token.                    *)

WordSet == [word : Vocabulary, tag : PieceTags, rpr : Formats, under : SUBSET TrackedChanges]
Readings == [open : [TrackedChanges -> Int], words : Seq(WordSet)]
NothingRead == [open |-> NothingOpen, words |-> <<>>]
ReadAll(tokens) == Seen(tokens)[Len(tokens)]

(* The words of pieces of text that have one formatting. *)
PieceWords(pieces, rpr, under) ==
  FlattenSeq([k \in DOMAIN pieces |-> WordsOfPiece(pieces[k], rpr, under)])

LEMMA WordsOfPieceType ==
  ASSUME NEW piece \in Pieces, NEW rpr \in Formats, NEW under \in SUBSET TrackedChanges
  PROVE  WordsOfPiece(piece, rpr, under) \in Seq(WordSet)
<1>1. piece.text \in Seq(Vocabulary) /\ piece.tag \in PieceTags BY DEF Pieces
<1>2. DOMAIN piece.text = 1 .. Len(piece.text) /\ Len(piece.text) \in Nat
  BY <1>1, LenProperties
<1>3. \A k \in 1 .. Len(piece.text) : piece.text[k] \in Vocabulary BY <1>1, ElementOfSeq
<1>4. \A k \in 1 .. Len(piece.text) : WordsOfPiece(piece, rpr, under)[k] \in WordSet
  BY <1>1, <1>2, <1>3 DEF WordsOfPiece, WordSet
<1>5. WordsOfPiece(piece, rpr, under) \in [1 .. Len(piece.text) -> WordSet]
  BY <1>2, <1>4 DEF WordsOfPiece
<1>6. QED BY <1>2, <1>5

LEMMA PieceWordsNext ==
  ASSUME NEW rpr \in Formats, NEW under \in SUBSET TrackedChanges
  PROVE  /\ PieceWords(<<>>, rpr, under) = <<>>
         /\ \A kids \in Seq(Pieces) : PieceWords(kids, rpr, under) \in Seq(WordSet)
         /\ \A kids \in Seq(Pieces), x \in Pieces :
              PieceWords(Append(kids, x), rpr, under) =
                PieceWords(kids, rpr, under) \o WordsOfPiece(x, rpr, under)
<1> DEFINE words(x) == WordsOfPiece(x, rpr, under)
           all(kids) == [k \in DOMAIN kids |-> words(kids[k])]
<1>1. \A x \in Pieces : words(x) \in Seq(WordSet) BY WordsOfPieceType
<1> HIDE DEF words
<1>2. ASSUME NEW kids \in Seq(Pieces) PROVE all(kids) \in Seq(Seq(WordSet)) /\ Len(all(kids)) = Len(kids)
  <2>1. DOMAIN kids = 1 .. Len(kids) /\ Len(kids) \in Nat BY LenProperties
  <2>2. \A k \in 1 .. Len(kids) : words(kids[k]) \in Seq(WordSet) BY <1>1, ElementOfSeq
  <2>3. all(kids) \in [1 .. Len(kids) -> Seq(WordSet)] BY <2>1, <2>2
  <2>4. QED BY <2>1, <2>3
<1>3. ASSUME NEW kids \in Seq(Pieces), NEW x \in Pieces
      PROVE  all(Append(kids, x)) = Append(all(kids), words(x))
  <2> DEFINE more == Append(kids, x)
             long == Append(all(kids), words(x))
  <2>1. /\ more \in Seq(Pieces) /\ Len(more) = Len(kids) + 1 /\ more[Len(kids) + 1] = x
        /\ \A k \in 1 .. Len(kids) : more[k] = kids[k]
    BY AppendProperties
  <2>2. /\ long \in Seq(Seq(WordSet)) /\ Len(long) = Len(kids) + 1
        /\ long[Len(kids) + 1] = words(x)
        /\ \A k \in 1 .. Len(kids) : long[k] = all(kids)[k]
    <3>1. all(kids) \in Seq(Seq(WordSet)) /\ Len(all(kids)) = Len(kids) /\ words(x) \in Seq(WordSet)
      BY <1>1, <1>2
    <3> HIDE DEF all
    <3>2. QED BY <3>1, AppendProperties
  <2> HIDE DEF more, long
  <2>3. Len(kids) \in Nat /\ DOMAIN kids = 1 .. Len(kids) /\ DOMAIN more = 1 .. Len(more)
    BY <2>1, LenProperties
  <2>4. \A k \in 1 .. Len(kids) + 1 : all(more)[k] = long[k]
    <3>1. \A k \in 1 .. Len(kids) : all(more)[k] = words(kids[k]) /\ all(kids)[k] = words(kids[k])
      BY <2>1, <2>3
    <3>2. all(more)[Len(kids) + 1] = words(x) BY <2>1, <2>3
    <3>3. \A k \in 1 .. Len(kids) + 1 : k \in 1 .. Len(kids) \/ k = Len(kids) + 1 BY <2>3
    <3> HIDE DEF all
    <3>4. QED BY <2>2, <3>1, <3>2, <3>3
  <2>5. all(more) \in Seq(Seq(WordSet)) /\ Len(all(more)) = Len(kids) + 1 BY <1>2, <2>1
  <2> HIDE DEF all
  <2>6. all(more) = long BY <2>2, <2>4, <2>5, SeqEqual
  <2>7. QED BY <2>6 DEF more, long
<1>4. \A kids : PieceWords(kids, rpr, under) = FlattenSeq(all(kids)) BY DEF PieceWords, words
<1>5. all(<<>>) = <<>> OBVIOUS
<1> HIDE DEF all
<1>6. PieceWords(<<>>, rpr, under) = <<>> BY <1>4, <1>5, FlattenNext
<1>7. \A kids \in Seq(Pieces) : PieceWords(kids, rpr, under) \in Seq(WordSet)
  BY <1>2, <1>4, FlattenNext
<1>8. ASSUME NEW kids \in Seq(Pieces), NEW x \in Pieces
      PROVE  PieceWords(Append(kids, x), rpr, under) = PieceWords(kids, rpr, under) \o words(x)
  <2>1. all(kids) \in Seq(Seq(WordSet)) /\ words(x) \in Seq(WordSet) BY <1>1, <1>2
  <2>2. FlattenSeq(Append(all(kids), words(x))) = FlattenSeq(all(kids)) \o words(x)
    BY <2>1, FlattenNext
  <2>3. QED BY <1>3, <1>4, <2>2
<1>9. QED BY <1>6, <1>7, <1>8 DEF words

LEMMA PieceWordsConcat ==
  ASSUME NEW rpr \in Formats, NEW under \in SUBSET TrackedChanges,
         NEW a \in Seq(Pieces), NEW b \in Seq(Pieces)
  PROVE  PieceWords(a \o b, rpr, under) = PieceWords(a, rpr, under) \o PieceWords(b, rpr, under)
<1> DEFINE words(x) == WordsOfPiece(x, rpr, under)
           all(kids) == PieceWords(kids, rpr, under)
           good == {c \in Seq(Pieces) : all(a \o c) = all(a) \o all(c)}
<1>1. /\ all(<<>>) = <<>> /\ \A kids \in Seq(Pieces) : all(kids) \in Seq(WordSet)
      /\ \A kids \in Seq(Pieces), x \in Pieces : all(Append(kids, x)) = all(kids) \o words(x)
  BY PieceWordsNext
<1>2. \A x \in Pieces : words(x) \in Seq(WordSet) BY WordsOfPieceType
<1> HIDE DEF words, all
<1>3. <<>> \in good
  <2>1. a \o <<>> = a BY ConcatEmptySeq
  <2>2. all(a) \o <<>> = all(a) BY <1>1, ConcatEmptySeq
  <2>3. QED BY <1>1, <2>1, <2>2
<1>4. ASSUME NEW c \in Seq(Pieces), NEW x \in Pieces, c \in good PROVE Append(c, x) \in good
  <2>1. a \o Append(c, x) = Append(a \o c, x) BY AppendToConcat
  <2>2. a \o c \in Seq(Pieces) BY ConcatProperties
  <2>3. Append(c, x) \in Seq(Pieces) BY AppendProperties
  <2>4. all(Append(a \o c, x)) = all(a \o c) \o words(x) BY <1>1, <2>2
  <2>5. all(Append(c, x)) = all(c) \o words(x) BY <1>1
  <2>6. (all(a) \o all(c)) \o words(x) = all(a) \o (all(c) \o words(x))
    <3>1. all(a) \in Seq(WordSet) /\ all(c) \in Seq(WordSet) /\ words(x) \in Seq(WordSet)
      BY <1>1, <1>2
    <3> HIDE DEF good
    <3>2. QED BY <3>1, ConcatAssociative, SMTT(20)
  <2>7. QED BY <1>4, <2>1, <2>3, <2>4, <2>5, <2>6
<1>5. \A c \in Seq(Pieces) : c \in good
  <2> HIDE DEF good
  <2>1. QED BY <1>3, <1>4, SeqKeeps
<1>6. QED BY <1>5 DEF all

LEMMA WordsOfRunType ==
  ASSUME NEW run \in WordTokens, run.tag = "r", NEW under \in SUBSET TrackedChanges
  PROVE  /\ run.rpr \in Formats /\ run.kids \in Seq(Pieces)
         /\ WordsOfRun(run, under) = PieceWords(run.kids, run.rpr, under)
         /\ WordsOfRun(run, under) \in Seq(WordSet)
<1>1. run.rpr \in Formats /\ run.kids \in Seq(Pieces) BY DEF WordTokens
<1>2. WordsOfRun(run, under) = PieceWords(run.kids, run.rpr, under)
  BY DEF WordsOfRun, PieceWords
<1>3. PieceWords(run.kids, run.rpr, under) \in Seq(WordSet) BY <1>1, PieceWordsNext
<1>4. QED BY <1>1, <1>2, <1>3

LEMMA ReadType ==
  ASSUME NEW seen \in Readings, NEW token \in WordTokens
  PROVE  Read(seen, token) \in Readings
<1>1. seen.open \in [TrackedChanges -> Int] /\ seen.words \in Seq(WordSet)
      /\ seen = [open |-> seen.open, words |-> seen.words]
  BY DEF Readings
<1>2. CASE token.tag = "r"
  <2>1. InForce(seen.open) \in SUBSET TrackedChanges BY DEF InForce
  <2>2. WordsOfRun(token, InForce(seen.open)) \in Seq(WordSet) BY <1>2, <2>1, WordsOfRunType
  <2>3. seen.words \o WordsOfRun(token, InForce(seen.open)) \in Seq(WordSet)
    BY <1>1, <2>2, ConcatProperties
  <2>4. QED BY <1>1, <1>2, <2>3 DEF Read, Readings
<1>3. CASE token.tag \in {"start", "end"}
  <2>1. token.change \in TrackedChanges BY <1>3 DEF WordTokens
  <2>2. ASSUME NEW open \in [TrackedChanges -> Int]
        PROVE  [seen EXCEPT !.open = open] \in Readings
    BY <1>1, <2>2 DEF Readings
  <2>3. CASE token.tag = "start"
    <3>1. [seen.open EXCEPT ![token.change] = @ + 1] \in [TrackedChanges -> Int] BY <1>1, <2>1
    <3>2. Read(seen, token) = [seen EXCEPT !.open = [seen.open EXCEPT ![token.change] = @ + 1]]
      BY <1>1, <2>3 DEF Read
    <3>3. QED BY <2>2, <3>1, <3>2
  <2>4. CASE token.tag = "end"
    <3>1. [seen.open EXCEPT ![token.change] = @ - 1] \in [TrackedChanges -> Int] BY <1>1, <2>1
    <3>2. Read(seen, token) = [seen EXCEPT !.open = [seen.open EXCEPT ![token.change] = @ - 1]]
      BY <1>1, <2>4 DEF Read
    <3>3. QED BY <2>2, <3>1, <3>2
  <2>5. QED BY <1>3, <2>3, <2>4
<1>4. CASE token.tag \notin {"r", "start", "end"} BY <1>4 DEF Read
<1>5. QED BY <1>2, <1>3, <1>4

ReadStep == [p \in Readings \X WordTokens |-> Read(p[1], p[2])]

LEMMA SeenIsPass ==
  ASSUME NEW s \in Seq(WordTokens), NEW pass, Computes(pass, WordTokens, Readings, NothingRead, ReadStep)
  PROVE  /\ \A i \in 0 .. Len(s) : Seen(s)[i] = pass[SubSeq(s, 1, i)]
         /\ Seen(s)[Len(s)] = pass[s]
<1> DEFINE N == Len(s)
           body(a, i) == IF i = 0 THEN [open |-> NothingOpen, words |-> <<>>]
                         ELSE Read(a[i - 1], s[i])
           seen == CHOOSE a : a = [i \in 0 .. N |-> body(a, i)]
<1>1. Seen(s) = seen BY DEF Seen
<1>2. N \in Nat /\ \A i \in 1 .. N : s[i] \in WordTokens BY LenProperties, ElementOfSeq
<1>3. ASSUME NEW a, NEW i \in 1 .. N, a[i - 1] \in Readings
      PROVE  body(a, i) = ReadStep[<<a[i - 1], s[i]>>]
  BY <1>2, <1>3 DEF ReadStep
<1>4. \A a : body(a, 0) = NothingRead BY DEF NothingRead
<1> HIDE DEF body
<1>5. PICK g : /\ g = [i \in 0 .. N |-> g[i]] /\ g[0] = NothingRead
               /\ \A i \in 1 .. N : g[i - 1] \in Readings /\ g[i] = ReadStep[<<g[i - 1], s[i]>>]
  BY PassIsLoop
<1>6. \A i \in 0 .. N : g[i] = body(g, i)
  <2>1. \A i \in 1 .. N : g[i] = body(g, i) BY <1>3, <1>5
  <2>2. \A i \in 0 .. N : i = 0 \/ i \in 1 .. N BY <1>2
  <2>3. QED BY <1>4, <1>5, <2>1, <2>2
<1>7. g = [i \in 0 .. N |-> body(g, i)] BY <1>5, <1>6
<1>8. seen = [i \in 0 .. N |-> body(seen, i)] BY <1>7
<1> HIDE DEF seen
<1>9. \A i \in 0 .. N : seen[i] = body(seen, i) BY <1>8
<1>10. seen[0] = NothingRead /\ \A i \in 1 .. N : i \in 0 .. N BY <1>2, <1>4, <1>9
<1>11. \A i \in 1 .. N : seen[i - 1] \in Readings => seen[i] = ReadStep[<<seen[i - 1], s[i]>>]
  BY <1>3, <1>9, <1>10
<1>12. (\A i \in 0 .. N : seen[i] = pass[SubSeq(s, 1, i)]) /\ seen[N] = pass[s]
  BY <1>10, <1>11, LoopIsPass
<1>13. QED BY <1>1, <1>12

LEMMA ReadNext ==
  /\ NothingRead \in Readings /\ ReadAll(<<>>) = NothingRead
  /\ \A s \in Seq(WordTokens) : ReadAll(s) \in Readings
  /\ \A s \in Seq(WordTokens), x \in WordTokens : ReadAll(Append(s, x)) = Read(ReadAll(s), x)
  /\ \A s \in Seq(WordTokens) : \A i \in 0 .. Len(s) : Seen(s)[i] = ReadAll(SubSeq(s, 1, i))
<1>1. NothingRead \in Readings
  <2>1. NothingOpen \in [TrackedChanges -> Int] BY DEF NothingOpen
  <2>2. <<>> \in Seq(WordSet) OBVIOUS
  <2>3. QED BY <2>1, <2>2 DEF NothingRead, Readings
<1>2. ReadStep \in [Readings \X WordTokens -> Readings] BY ReadType DEF ReadStep
<1>3. PICK pass : Computes(pass, WordTokens, Readings, NothingRead, ReadStep)
  BY <1>1, <1>2, PassComputes
<1>4. pass \in [Seq(WordTokens) -> Readings] /\ pass[<<>>] = NothingRead BY <1>3 DEF Computes
<1>5. \A s \in Seq(WordTokens) : ReadAll(s) = pass[s] BY <1>3, SeenIsPass DEF ReadAll
<1>6. ASSUME NEW s \in Seq(WordTokens), NEW x \in WordTokens
      PROVE  ReadAll(Append(s, x)) = Read(ReadAll(s), x)
  <2>1. pass[Append(s, x)] = ReadStep[<<pass[s], x>>] BY <1>3 DEF Computes
  <2>2. Append(s, x) \in Seq(WordTokens) /\ pass[s] \in Readings BY <1>4, AppendProperties
  <2>3. ReadStep[<<pass[s], x>>] = Read(pass[s], x) BY <2>2 DEF ReadStep
  <2>4. QED BY <1>5, <2>1, <2>2, <2>3
<1>7. \A s \in Seq(WordTokens) : ReadAll(s) \in Readings BY <1>4, <1>5
<1>8. ASSUME NEW s \in Seq(WordTokens), NEW i \in 0 .. Len(s)
      PROVE  Seen(s)[i] = ReadAll(SubSeq(s, 1, i))
  <2>1. Seen(s)[i] = pass[SubSeq(s, 1, i)] BY <1>3, SeenIsPass
  <2>2. SubSeq(s, 1, i) \in Seq(WordTokens)
    <3>1. Len(s) \in Nat BY LenProperties
    <3>2. \A j \in 1 .. i : s[j] \in WordTokens BY <3>1, ElementOfSeq
    <3>3. QED BY <3>1, <3>2, SubSeqProperties
  <2>3. QED BY <1>5, <2>1, <2>2
<1>9. <<>> \in Seq(WordTokens) OBVIOUS
<1>10. ReadAll(<<>>) = NothingRead BY <1>4, <1>5, <1>9
<1>11. QED BY <1>1, <1>6, <1>7, <1>8, <1>10

-----------------------------------------------------------------------------
(* What is taken from a sequence at its end.                               *)
LEMMA FrontAndLast ==
  ASSUME NEW E, NEW s \in Seq(E), s # <<>>
  PROVE  /\ Front(s) \in Seq(E) /\ Last(s) \in E
         /\ s = Append(Front(s), Last(s))
<1>1. PICK t \in Seq(E), x \in E : s = Append(t, x) BY SequenceEmptyOrAppend
<1>2. /\ Len(s) = Len(t) + 1 /\ s[Len(t) + 1] = x /\ Len(t) \in Nat
      /\ \A i \in 1 .. Len(t) : s[i] = t[i]
  BY <1>1, AppendProperties, LenProperties
<1>3. Last(s) = x BY <1>2 DEF Last
<1>4. Front(s) = t
  <2>1. Front(s) = SubSeq(s, 1, Len(t)) BY <1>2 DEF Front
  <2>2. \A i \in 1 .. Len(t) : s[i] \in E BY <1>2, ElementOfSeq
  <2>3. /\ SubSeq(s, 1, Len(t)) \in Seq(E) /\ Len(SubSeq(s, 1, Len(t))) = Len(t)
        /\ \A i \in 1 .. Len(t) : SubSeq(s, 1, Len(t))[i] = t[i]
    BY <1>2, <2>2, SubSeqProperties
  <2>4. SubSeq(s, 1, Len(t)) = t BY <2>3, SeqEqual
  <2>5. QED BY <2>1, <2>4
<1>5. QED BY <1>1, <1>3, <1>4

-----------------------------------------------------------------------------
(* simplify_redlines.py.                                                   *)

TrackedStep(tag) ==
  [p \in Seq(WordTokens) \X WordTokens |-> _merge_tracked_content(p[1], p[2], tag)]

LEMMA TrackedIsPass ==
  ASSUME NEW tag, NEW paragraph \in Seq(WordTokens),
         NEW pass, Computes(pass, WordTokens, Seq(WordTokens), <<>>, TrackedStep(tag))
  PROVE  _merge_tracked_changes_in(paragraph, tag) = pass[paragraph]
<1> DEFINE N == Len(paragraph)
           body(a, i) == IF i = 0 THEN <<>> ELSE _merge_tracked_content(a[i - 1], paragraph[i], tag)
           done == CHOOSE a : a = [i \in 0 .. N |-> body(a, i)]
<1>1. _merge_tracked_changes_in(paragraph, tag) = done[N] BY DEF _merge_tracked_changes_in
<1>2. N \in Nat /\ \A i \in 1 .. N : paragraph[i] \in WordTokens BY LenProperties, ElementOfSeq
<1>3. ASSUME NEW a, NEW i \in 1 .. N, a[i - 1] \in Seq(WordTokens)
      PROVE  body(a, i) = TrackedStep(tag)[<<a[i - 1], paragraph[i]>>]
  BY <1>2, <1>3 DEF TrackedStep
<1>4. \A a : body(a, 0) = <<>> OBVIOUS
<1> HIDE DEF body
<1>5. PICK g : /\ g = [i \in 0 .. N |-> g[i]] /\ g[0] = <<>>
               /\ \A i \in 1 .. N :
                    g[i - 1] \in Seq(WordTokens) /\ g[i] = TrackedStep(tag)[<<g[i - 1], paragraph[i]>>]
  BY PassIsLoop
<1>6. \A i \in 0 .. N : g[i] = body(g, i)
  <2>1. \A i \in 1 .. N : g[i] = body(g, i) BY <1>3, <1>5
  <2>2. \A i \in 0 .. N : i = 0 \/ i \in 1 .. N BY <1>2
  <2>3. QED BY <1>4, <1>5, <2>1, <2>2
<1>7. g = [i \in 0 .. N |-> body(g, i)] BY <1>5, <1>6
<1>8. done = [i \in 0 .. N |-> body(done, i)] BY <1>7
<1> HIDE DEF done
<1>9. \A i \in 0 .. N : done[i] = body(done, i) BY <1>8
<1>10. done[0] = <<>> /\ \A i \in 1 .. N : i \in 0 .. N BY <1>2, <1>4, <1>9
<1>11. \A i \in 1 .. N :
         done[i - 1] \in Seq(WordTokens) => done[i] = TrackedStep(tag)[<<done[i - 1], paragraph[i]>>]
  BY <1>3, <1>9, <1>10
<1>12. done[N] = pass[paragraph] BY <1>10, <1>11, LoopIsPass
<1>13. QED BY <1>1, <1>12

LEMMA TrackedNext ==
  ASSUME NEW tag
  PROVE  /\ _merge_tracked_changes_in(<<>>, tag) = <<>>
         /\ \A s \in Seq(WordTokens) : _merge_tracked_changes_in(s, tag) \in Seq(WordTokens)
         /\ \A s \in Seq(WordTokens), x \in WordTokens :
              _merge_tracked_changes_in(Append(s, x), tag) =
                _merge_tracked_content(_merge_tracked_changes_in(s, tag), x, tag)
<1> DEFINE merged(s) == _merge_tracked_changes_in(s, tag)
           step == TrackedStep(tag)
<1>1. step \in [Seq(WordTokens) \X WordTokens -> Seq(WordTokens)]
  <2>1. ASSUME NEW s \in Seq(WordTokens), NEW x \in WordTokens
        PROVE  _merge_tracked_content(s, x, tag) \in Seq(WordTokens)
    BY FrontAndLast, AppendProperties DEF _merge_tracked_content
  <2>2. QED BY <2>1 DEF TrackedStep
<1>2. <<>> \in Seq(WordTokens) OBVIOUS
<1>3. PICK pass : Computes(pass, WordTokens, Seq(WordTokens), <<>>, step)
  <2> HIDE DEF step
  <2>1. QED BY <1>1, <1>2, PassComputes
<1>4. \A s \in Seq(WordTokens) : merged(s) = pass[s] BY <1>3, TrackedIsPass
<1>5. pass \in [Seq(WordTokens) -> Seq(WordTokens)] /\ pass[<<>>] = <<>> BY <1>3 DEF Computes
<1> HIDE DEF merged
<1>6. ASSUME NEW s \in Seq(WordTokens), NEW x \in WordTokens
      PROVE  merged(Append(s, x)) = _merge_tracked_content(merged(s), x, tag)
  <2>1. pass[Append(s, x)] = step[<<pass[s], x>>] BY <1>3 DEF Computes
  <2>2. Append(s, x) \in Seq(WordTokens) /\ pass[s] \in Seq(WordTokens)
    BY <1>5, AppendProperties
  <2>3. step[<<pass[s], x>>] = _merge_tracked_content(pass[s], x, tag) BY <2>2 DEF TrackedStep
  <2> HIDE DEF step
  <2>4. QED BY <1>4, <2>1, <2>2, <2>3
<1>7. \A s \in Seq(WordTokens) : merged(s) \in Seq(WordTokens) BY <1>4, <1>5
<1>8. merged(<<>>) = <<>> BY <1>2, <1>4, <1>5
<1>9. QED BY <1>6, <1>7, <1>8 DEF merged

(* A change that ends and starts again is as open as before.               *)
LEMMA EndAndStart ==
  ASSUME NEW seen \in Readings, NEW a \in WordTokens, NEW b \in WordTokens,
         a.tag = "end", b.tag = "start", a.change = b.change
  PROVE  Read(Read(seen, a), b) = seen
<1> DEFINE c == a.change
           once == [seen.open EXCEPT ![c] = @ - 1]
           twice == [once EXCEPT ![c] = @ + 1]
<1>1. c \in TrackedChanges BY DEF WordTokens
<1>2. seen.open \in [TrackedChanges -> Int] /\ seen = [open |-> seen.open, words |-> seen.words]
  BY DEF Readings
<1>3. Read(seen, a) = [open |-> once, words |-> seen.words] BY <1>2 DEF Read
<1>4. Read(Read(seen, a), b) = [open |-> twice, words |-> seen.words] BY <1>3 DEF Read
<1>5. twice = seen.open
  <2>1. once[c] = seen.open[c] - 1 /\ seen.open[c] \in Int BY <1>1, <1>2
  <2>2. twice[c] = seen.open[c] BY <1>1, <1>2, <2>1
  <2>3. \A d \in TrackedChanges \ {c} : twice[d] = seen.open[d] BY <1>2
  <2>4. twice \in [TrackedChanges -> Int] BY <1>1, <1>2
  <2> HIDE DEF twice, c
  <2>5. QED BY <1>2, <2>2, <2>3, <2>4
<1>6. QED BY <1>2, <1>4, <1>5

(* Changes merged, the paragraph reads as it did.                          *)
LEMMA TrackedReads ==
  ASSUME NEW tag, NEW paragraph \in Seq(WordTokens)
  PROVE  ReadAll(_merge_tracked_changes_in(paragraph, tag)) = ReadAll(paragraph)
<1> DEFINE merged(s) == _merge_tracked_changes_in(s, tag)
           good == {s \in Seq(WordTokens) : ReadAll(merged(s)) = ReadAll(s)}
<1>1. /\ merged(<<>>) = <<>>
      /\ \A s \in Seq(WordTokens) : merged(s) \in Seq(WordTokens)
      /\ \A s \in Seq(WordTokens), x \in WordTokens :
           merged(Append(s, x)) = _merge_tracked_content(merged(s), x, tag)
  BY TrackedNext
<1> HIDE DEF merged
<1>2. <<>> \in good BY <1>1
<1>3. ASSUME NEW s \in Seq(WordTokens), NEW x \in WordTokens, s \in good
      PROVE  Append(s, x) \in good
  <2> DEFINE done == merged(s)
             joins == /\ done # <<>> /\ AtTop(done, Len(done))
                      /\ _can_merge_tracked(Last(done), x, tag)
  <2>1. done \in Seq(WordTokens) /\ ReadAll(done) = ReadAll(s) BY <1>1, <1>3
  <2>2. Append(s, x) \in Seq(WordTokens) BY AppendProperties
  <2>3. ReadAll(Append(s, x)) = Read(ReadAll(done), x) BY <2>1, ReadNext
  <2>4. merged(Append(s, x)) = IF joins THEN Front(done) ELSE Append(done, x)
    BY <1>1 DEF _merge_tracked_content
  <2> HIDE DEF done
  <2>5. CASE joins
    <3>1. /\ Front(done) \in Seq(WordTokens) /\ Last(done) \in WordTokens
          /\ done = Append(Front(done), Last(done))
      BY <2>1, <2>5, FrontAndLast
    <3>2. ReadAll(done) = Read(ReadAll(Front(done)), Last(done)) /\ ReadAll(Front(done)) \in Readings
      BY <3>1, ReadNext
    <3>3. Last(done).tag = "end" /\ x.tag = "start" /\ Last(done).change = x.change
      BY <2>5 DEF _can_merge_tracked
    <3>4. Read(ReadAll(done), x) = ReadAll(Front(done)) BY <3>1, <3>2, <3>3, EndAndStart
    <3>5. QED BY <2>2, <2>3, <2>4, <2>5, <3>4
  <2>6. CASE ~joins
    <3>1. ReadAll(Append(done, x)) = Read(ReadAll(done), x) BY <2>1, ReadNext
    <3>2. QED BY <2>2, <2>3, <2>4, <2>6, <3>1
  <2>7. QED BY <2>5, <2>6
<1>4. \A s \in Seq(WordTokens) : s \in good
  <2> HIDE DEF good
  <2>1. QED BY <1>2, <1>3, SeqKeeps
<1>5. QED BY <1>4 DEF merged

-----------------------------------------------------------------------------
(* merge_runs.py.                                                          *)

(* Paragraphs whose tokens read the same one by one read the same.         *)
LEMMA SameTokensRead ==
  ASSUME NEW s \in Seq(WordTokens), NEW t \in Seq(WordTokens), Len(s) = Len(t),
         \A n \in 1 .. Len(s) : \A seen \in Readings : Read(seen, s[n]) = Read(seen, t[n])
  PROVE  /\ ReadAll(s) = ReadAll(t)
         /\ \A n \in 0 .. Len(s) : Seen(s)[n] = Seen(t)[n]
<1> DEFINE first(u, n) == SubSeq(u, 1, n)
           same == {n \in 0 .. Len(s) : ReadAll(first(s, n)) = ReadAll(first(t, n))}
<1>1. Len(s) \in Nat BY LenProperties
<1>2. 0 \in same
  <2>1. first(s, 0) = <<>> /\ first(t, 0) = <<>> BY SubSeqEmpty
  <2> HIDE DEF first
  <2>2. ReadAll(first(s, 0)) = ReadAll(first(t, 0)) BY <2>1
  <2>3. 0 \in 0 .. Len(s) BY <1>1
  <2>4. QED BY <2>2, <2>3
<1>3. ASSUME NEW n \in 1 .. Len(s), n - 1 \in same PROVE n \in same
  <2>1. /\ first(s, n - 1) \in Seq(WordTokens) /\ s[n] \in WordTokens
        /\ first(s, n) = Append(first(s, n - 1), s[n])
    BY FirstOnes
  <2>2. /\ first(t, n - 1) \in Seq(WordTokens) /\ t[n] \in WordTokens
        /\ first(t, n) = Append(first(t, n - 1), t[n])
    BY FirstOnes
  <2> HIDE DEF first
  <2>3. ReadAll(first(s, n - 1)) = ReadAll(first(t, n - 1)) BY <1>3
  <2>4. ReadAll(first(s, n - 1)) \in Readings BY <2>1, ReadNext
  <2>5. ReadAll(first(s, n)) = Read(ReadAll(first(s, n - 1)), s[n]) BY <2>1, ReadNext
  <2>6. ReadAll(first(t, n)) = Read(ReadAll(first(t, n - 1)), t[n]) BY <2>2, ReadNext
  <2>7. ReadAll(first(s, n)) = ReadAll(first(t, n)) BY <2>3, <2>4, <2>5, <2>6
  <2>8. n \in 0 .. Len(s) BY <1>1
  <2>9. QED BY <2>7, <2>8
<1>4. \A n \in 0 .. Len(s) : n \in same
  <2> HIDE DEF same
  <2>1. QED BY <1>1, <1>2, <1>3, LoopKeeps
<1>5. \A n \in 0 .. Len(s) : ReadAll(first(s, n)) = ReadAll(first(t, n)) BY <1>4
<1>6. \A n \in 0 .. Len(s) : Seen(s)[n] = ReadAll(first(s, n)) /\ Seen(t)[n] = ReadAll(first(t, n))
  BY ReadNext
<1>7. \A n \in 0 .. Len(s) : Seen(s)[n] = Seen(t)[n]
  <2> HIDE DEF first
  <2>1. QED BY <1>5, <1>6
<1>8. ReadAll(s) = ReadAll(t) BY <1>1, <1>7 DEF ReadAll
<1>9. QED BY <1>7, <1>8

(* Tokens that hold no text and open and end nothing can go.               *)
LEMMA RemovedReads ==
  ASSUME NEW wanted, NEW paragraph \in Seq(WordTokens),
         \A n \in 1 .. Len(paragraph) :
           paragraph[n] \in wanted \/ paragraph[n].tag \notin {"r", "start", "end"}
  PROVE  /\ Only(paragraph, wanted) \in Seq(WordTokens)
         /\ ReadAll(Only(paragraph, wanted)) = ReadAll(paragraph)
<1> DEFINE kept(s) == Only(s, wanted)
           stays(x) == x \in wanted \/ x.tag \notin {"r", "start", "end"}
           E == {x \in WordTokens : stays(x)}
           good == {s \in Seq(E) : ReadAll(kept(s)) = ReadAll(s)}
<1>1. /\ kept(<<>>) = <<>> /\ \A s \in Seq(WordTokens) : kept(s) \in Seq(WordTokens)
      /\ \A s \in Seq(WordTokens), x \in WordTokens :
           kept(Append(s, x)) = IF x \in wanted THEN Append(kept(s), x) ELSE kept(s)
  BY OnlyNext, Zenon
<1>2. paragraph \in Seq(E)
  <2>1. Len(paragraph) \in Nat /\ paragraph \in [1 .. Len(paragraph) -> WordTokens]
    BY LenProperties
  <2>2. \A n \in 1 .. Len(paragraph) : paragraph[n] \in E BY <2>1
  <2> HIDE DEF E
  <2>3. paragraph \in [1 .. Len(paragraph) -> E] BY <2>1, <2>2
  <2>4. QED BY <2>1, <2>3
<1>3. Seq(E) \subseteq Seq(WordTokens)
  <2>1. E \subseteq WordTokens OBVIOUS
  <2> HIDE DEF E
  <2>2. QED BY <2>1, SeqMonotonic
<1>4. \A x \in E : x \in WordTokens /\ stays(x) OBVIOUS
<1> HIDE DEF kept, E
<1>5. <<>> \in good BY <1>1
<1>6. ASSUME NEW s \in Seq(E), NEW x \in E, s \in good PROVE Append(s, x) \in good
  <2>1. s \in Seq(WordTokens) /\ x \in WordTokens BY <1>3, <1>4
  <2>2. Append(s, x) \in Seq(E) BY AppendProperties
  <2>3. ReadAll(Append(s, x)) = Read(ReadAll(s), x) BY <2>1, ReadNext
  <2>4. kept(s) \in Seq(WordTokens) BY <1>1, <2>1
  <2>5. CASE x \in wanted
    <3>1. kept(Append(s, x)) = Append(kept(s), x) BY <1>1, <2>1, <2>5
    <3>2. ReadAll(Append(kept(s), x)) = Read(ReadAll(kept(s)), x) BY <2>1, <2>4, ReadNext
    <3>3. QED BY <1>6, <2>2, <2>3, <3>1, <3>2
  <2>6. CASE x \notin wanted
    <3>1. kept(Append(s, x)) = kept(s) BY <1>1, <2>1, <2>6
    <3>2. Read(ReadAll(s), x) = ReadAll(s) BY <1>4, <2>6 DEF Read
    <3>3. QED BY <1>6, <2>2, <2>3, <3>1, <3>2
  <2>7. QED BY <2>5, <2>6
<1>7. \A s \in Seq(E) : s \in good
  <2> HIDE DEF good
  <2>1. QED BY <1>5, <1>6, SeqKeeps
<1>8. ReadAll(kept(paragraph)) = ReadAll(paragraph) BY <1>2, <1>7
<1>9. kept(paragraph) \in Seq(WordTokens) BY <1>1
<1>10. QED BY <1>8, <1>9 DEF kept

JoinStep == [p \in Seq(Pieces) \X Pieces |-> JoinText(p[1], p[2])]

LEMMA JoinIsPass ==
  ASSUME NEW run, run.kids \in Seq(Pieces),
         NEW pass, Computes(pass, Pieces, Seq(Pieces), <<>>, JoinStep)
  PROVE  _consolidate_text(run) = [run EXCEPT !.kids = pass[run.kids]]
<1> DEFINE N == Len(run.kids)
           body(a, i) == IF i = 0 THEN <<>> ELSE JoinText(a[i - 1], run.kids[i])
           done == CHOOSE a : a = [i \in 0 .. N |-> body(a, i)]
<1>1. _consolidate_text(run) = [run EXCEPT !.kids = done[N]] BY DEF _consolidate_text
<1>2. N \in Nat /\ \A i \in 1 .. N : run.kids[i] \in Pieces BY LenProperties, ElementOfSeq
<1>3. ASSUME NEW a, NEW i \in 1 .. N, a[i - 1] \in Seq(Pieces)
      PROVE  body(a, i) = JoinStep[<<a[i - 1], run.kids[i]>>]
  BY <1>2, <1>3 DEF JoinStep
<1>4. \A a : body(a, 0) = <<>> OBVIOUS
<1> HIDE DEF body
<1>5. PICK g : /\ g = [i \in 0 .. N |-> g[i]] /\ g[0] = <<>>
               /\ \A i \in 1 .. N :
                    g[i - 1] \in Seq(Pieces) /\ g[i] = JoinStep[<<g[i - 1], run.kids[i]>>]
  BY PassIsLoop
<1>6. \A i \in 0 .. N : g[i] = body(g, i)
  <2>1. \A i \in 1 .. N : g[i] = body(g, i) BY <1>3, <1>5
  <2>2. \A i \in 0 .. N : i = 0 \/ i \in 1 .. N BY <1>2
  <2>3. QED BY <1>4, <1>5, <2>1, <2>2
<1>7. g = [i \in 0 .. N |-> body(g, i)] BY <1>5, <1>6
<1>8. done = [i \in 0 .. N |-> body(done, i)] BY <1>7
<1> HIDE DEF done
<1>9. \A i \in 0 .. N : done[i] = body(done, i) BY <1>8
<1>10. done[0] = <<>> /\ \A i \in 1 .. N : i \in 0 .. N BY <1>2, <1>4, <1>9
<1>11. \A i \in 1 .. N :
         done[i - 1] \in Seq(Pieces) => done[i] = JoinStep[<<done[i - 1], run.kids[i]>>]
  BY <1>3, <1>9, <1>10
<1>12. done[N] = pass[run.kids] BY <1>10, <1>11, LoopIsPass
<1>13. QED BY <1>1, <1>12

(* A piece of text is one whether or not its blanks are to be kept.        *)
LEMMA TextPiece ==
  ASSUME NEW tag \in PieceTags, NEW text \in Seq(Vocabulary)
  PROVE  Piece(tag, text, HasOuterBlank(text)) \in Pieces
<1> DEFINE space == HasOuterBlank(text)
<1>1. space \in BOOLEAN BY DEF HasOuterBlank
<1> HIDE DEF space
<1>2. Piece(tag, text, space) \in Pieces BY <1>1 DEF Piece, Pieces
<1>3. QED BY <1>2 DEF space

LEMMA JoinTextType ==
  ASSUME NEW done \in Seq(Pieces), NEW piece \in Pieces
  PROVE  JoinText(done, piece) \in Seq(Pieces)
<1>1. CASE done # <<>> /\ Last(done).tag = "t" /\ piece.tag = "t"
  <2> DEFINE text == Last(done).text \o piece.text
             joined == Piece("t", text, HasOuterBlank(text))
  <2>1. Front(done) \in Seq(Pieces) /\ Last(done) \in Pieces BY <1>1, FrontAndLast
  <2>2. text \in Seq(Vocabulary) BY <2>1, ConcatProperties DEF Pieces
  <2>3. joined \in Pieces
    <3>1. piece.tag \in PieceTags BY DEF Pieces
    <3>2. "t" \in PieceTags BY <1>1, <3>1
    <3> HIDE DEF text
    <3>3. QED BY <2>2, <3>2, TextPiece
  <2>4. JoinText(done, piece) = Append(Front(done), joined) BY <1>1 DEF JoinText
  <2> HIDE DEF joined
  <2>5. QED BY <2>1, <2>3, <2>4, AppendProperties
<1>2. CASE ~(done # <<>> /\ Last(done).tag = "t" /\ piece.tag = "t")
  BY <1>2, AppendProperties DEF JoinText
<1>3. QED BY <1>1, <1>2

LEMMA SameInterval ==
  ASSUME NEW m \in Nat, NEW n \in Nat, 1 .. m = 1 .. n
  PROVE  m = n
<1>1. m = 0 \/ m \in 1 .. n BY m = 0 \/ m \in 1 .. m
<1>2. n = 0 \/ n \in 1 .. m BY n = 0 \/ n \in 1 .. n
<1>3. (m = 0 \/ m <= n) /\ (n = 0 \/ n <= m) BY <1>1, <1>2
<1>4. QED BY <1>3

Mapped(f, s) == [k \in DOMAIN s |-> f[s[k]]]

(* A sequence turned element by element.                                   *)
LEMMA MappedType ==
  ASSUME NEW X, NEW Y, NEW f, \A x \in X : f[x] \in Y, NEW u \in Seq(X)
  PROVE  Mapped(f, u) \in Seq(Y)
<1> DEFINE map == Mapped(f, u)
<1>1. Len(u) \in Nat /\ DOMAIN u = 1 .. Len(u) /\ \A k \in 1 .. Len(u) : u[k] \in X
  BY LenProperties, ElementOfSeq
<1>2. map \in [1 .. Len(u) -> Y] BY <1>1 DEF Mapped
<1> HIDE DEF map
<1>3. map \in Seq(Y) BY <1>1, <1>2
<1>4. QED BY <1>3 DEF map

LEMMA MappedValues ==
  ASSUME NEW X, NEW f, NEW u \in Seq(X)
  PROVE  Len(Mapped(f, u)) = Len(u) /\ \A k \in 1 .. Len(u) : Mapped(f, u)[k] = f[u[k]]
<1> DEFINE map == Mapped(f, u)
           Y == {f[x] : x \in X}
<1>1. Len(u) \in Nat /\ DOMAIN u = 1 .. Len(u) BY LenProperties
<1>2. DOMAIN map = 1 .. Len(u) /\ \A k \in 1 .. Len(u) : map[k] = f[u[k]] BY <1>1 DEF Mapped
<1>3. \A x \in X : f[x] \in Y OBVIOUS
<1> HIDE DEF Y
<1>4. map \in Seq(Y) BY <1>3, MappedType
<1> HIDE DEF map
<1>5. Len(map) \in Nat /\ DOMAIN map = 1 .. Len(map) BY <1>4, LenProperties
<1>6. 1 .. Len(map) = 1 .. Len(u) BY <1>2, <1>5
<1>7. Len(map) = Len(u) BY <1>1, <1>5, <1>6, SameInterval
<1>8. QED BY <1>2, <1>7 DEF map

(* It is turned as its halves are.                                         *)
LEMMA MappedConcat ==
  ASSUME NEW f, NEW X, NEW s \in Seq(X), NEW t \in Seq(X)
  PROVE  Mapped(f, s \o t) = Mapped(f, s) \o Mapped(f, t)
<1> DEFINE map(u) == Mapped(f, u)
           Y == {f[x] : x \in X}
<1>1. ASSUME NEW u \in Seq(X)
      PROVE  map(u) \in Seq(Y) /\ Len(map(u)) = Len(u) /\ \A k \in 1 .. Len(u) : map(u)[k] = f[u[k]]
  <2>1. \A x \in X : f[x] \in Y OBVIOUS
  <2>2. Len(map(u)) = Len(u) /\ \A k \in 1 .. Len(u) : map(u)[k] = f[u[k]] BY MappedValues
  <2> HIDE DEF Y
  <2>3. map(u) \in Seq(Y) BY <2>1, MappedType
  <2>4. QED BY <2>2, <2>3
<1> DEFINE both == s \o t
<1>2. /\ both \in Seq(X) /\ Len(both) = Len(s) + Len(t)
      /\ \A k \in 1 .. Len(s) + Len(t) : both[k] = IF k <= Len(s) THEN s[k] ELSE t[k - Len(s)]
  BY ConcatProperties
<1>3. Len(s) \in Nat /\ Len(t) \in Nat BY LenProperties
<1> HIDE DEF both, map, Y
<1>4. /\ map(s) \in Seq(Y) /\ Len(map(s)) = Len(s)
      /\ map(t) \in Seq(Y) /\ Len(map(t)) = Len(t)
      /\ map(both) \in Seq(Y) /\ Len(map(both)) = Len(s) + Len(t)
  BY <1>1, <1>2
<1>5. /\ map(s) \o map(t) \in Seq(Y) /\ Len(map(s) \o map(t)) = Len(s) + Len(t)
      /\ \A k \in 1 .. Len(s) + Len(t) :
           (map(s) \o map(t))[k] = IF k <= Len(s) THEN map(s)[k] ELSE map(t)[k - Len(s)]
  <2> DEFINE one == map(s)
             other == map(t)
  <2>1. one \in Seq(Y) /\ other \in Seq(Y) /\ Len(one) = Len(s) /\ Len(other) = Len(t) BY <1>4
  <2> HIDE DEF one, other
  <2>2. /\ one \o other \in Seq(Y) /\ Len(one \o other) = Len(one) + Len(other)
        /\ \A k \in 1 .. Len(one) + Len(other) :
             (one \o other)[k] = IF k <= Len(one) THEN one[k] ELSE other[k - Len(one)]
    BY <2>1, ConcatProperties
  <2>3. QED BY <2>1, <2>2 DEF one, other
<1>6. ASSUME NEW k \in 1 .. Len(s) + Len(t) PROVE map(both)[k] = (map(s) \o map(t))[k]
  <2>1. map(both)[k] = f[both[k]] BY <1>1, <1>2
  <2>2. CASE k <= Len(s)
    <3>1. k \in 1 .. Len(s) BY <1>3, <2>2
    <3>2. map(s)[k] = f[s[k]] BY <1>1, <3>1
    <3>3. QED BY <1>2, <1>5, <2>1, <2>2, <3>2
  <2>3. CASE ~(k <= Len(s))
    <3>1. k - Len(s) \in 1 .. Len(t) BY <1>3, <2>3
    <3>2. map(t)[k - Len(s)] = f[t[k - Len(s)]] BY <1>1, <3>1
    <3>3. QED BY <1>2, <1>5, <2>1, <2>3, <3>2
  <2>4. QED BY <2>2, <2>3
<1>7. map(both) = map(s) \o map(t) BY <1>3, <1>4, <1>5, <1>6, SeqEqual
<1>8. QED BY <1>7 DEF map, both

(* Two pieces of text joined hold the words of both.                       *)
LEMMA JoinedWords ==
  ASSUME NEW rpr \in Formats, NEW under \in SUBSET TrackedChanges,
         NEW a \in Pieces, NEW b \in Pieces, NEW space, a.tag = b.tag
  PROVE  WordsOfPiece(Piece(a.tag, a.text \o b.text, space), rpr, under) =
           WordsOfPiece(a, rpr, under) \o WordsOfPiece(b, rpr, under)
<1> DEFINE word == [w \in Vocabulary |-> [word |-> w, tag |-> a.tag, rpr |-> rpr, under |-> under]]
           text == a.text \o b.text
           of(u) == Mapped(word, u)
<1>1. a.text \in Seq(Vocabulary) /\ b.text \in Seq(Vocabulary) /\ a.tag \in PieceTags BY DEF Pieces
<1>2. of(text) = of(a.text) \o of(b.text)
  <2> HIDE DEF word
  <2>1. QED BY <1>1, MappedConcat
<1>3. text \in Seq(Vocabulary) BY <1>1, ConcatProperties
<1>4. ASSUME NEW u \in Seq(Vocabulary), NEW keep
      PROVE  WordsOfPiece(Piece(a.tag, u, keep), rpr, under) = of(u)
  <2>1. \A k \in DOMAIN u : u[k] \in Vocabulary BY LenProperties, ElementOfSeq
  <2>2. QED BY <2>1 DEF WordsOfPiece, Piece, Mapped
<1>5. a = Piece(a.tag, a.text, a.space) /\ b = Piece(a.tag, b.text, b.space) BY DEF Pieces, Piece
<1> HIDE DEF of, word, text
<1>6. WordsOfPiece(a, rpr, under) = of(a.text) BY <1>1, <1>4, <1>5
<1>7. WordsOfPiece(b, rpr, under) = of(b.text) BY <1>1, <1>4, <1>5
<1>8. WordsOfPiece(Piece(a.tag, text, space), rpr, under) = of(text) BY <1>3, <1>4
<1>9. QED BY <1>2, <1>6, <1>7, <1>8 DEF text

(* Texts joined within a run, its words are as they were.                  *)
LEMMA ConsolidatedWords ==
  ASSUME NEW run \in WordTokens, run.tag = "r"
  PROVE  /\ _consolidate_text(run) \in WordTokens /\ _consolidate_text(run).tag = "r"
         /\ \A under \in SUBSET TrackedChanges :
              WordsOfRun(_consolidate_text(run), under) = WordsOfRun(run, under)
<1>1. /\ run.rpr \in Formats /\ run.kids \in Seq(Pieces)
      /\ run = [tag |-> "r", rpr |-> run.rpr, kids |-> run.kids]
  BY DEF WordTokens
<1>2. JoinStep \in [Seq(Pieces) \X Pieces -> Seq(Pieces)] BY JoinTextType DEF JoinStep
<1>3. PICK pass : Computes(pass, Pieces, Seq(Pieces), <<>>, JoinStep)
  <2>1. <<>> \in Seq(Pieces) OBVIOUS
  <2>2. QED BY <1>2, <2>1, PassComputes
<1>4. /\ pass \in [Seq(Pieces) -> Seq(Pieces)] /\ pass[<<>>] = <<>>
      /\ \A s \in Seq(Pieces), x \in Pieces : pass[Append(s, x)] = JoinText(pass[s], x)
  <2>1. pass \in [Seq(Pieces) -> Seq(Pieces)] /\ pass[<<>>] = <<>> BY <1>3 DEF Computes
  <2>2. ASSUME NEW s \in Seq(Pieces), NEW x \in Pieces
        PROVE  pass[Append(s, x)] = JoinText(pass[s], x)
    <3>1. pass[Append(s, x)] = JoinStep[<<pass[s], x>>] BY <1>3 DEF Computes
    <3>2. pass[s] \in Seq(Pieces) BY <2>1
    <3>3. QED BY <3>1, <3>2 DEF JoinStep
  <2>3. QED BY <2>1, <2>2
<1>5. _consolidate_text(run) = [run EXCEPT !.kids = pass[run.kids]] BY <1>1, <1>3, JoinIsPass
<1>6. _consolidate_text(run) = [tag |-> "r", rpr |-> run.rpr, kids |-> pass[run.kids]]
  BY <1>1, <1>5
<1>7. _consolidate_text(run) \in WordTokens /\ _consolidate_text(run).tag = "r"
  BY <1>1, <1>4, <1>6 DEF WordTokens
<1>8. ASSUME NEW under \in SUBSET TrackedChanges
      PROVE  WordsOfRun(_consolidate_text(run), under) = WordsOfRun(run, under)
  <2> DEFINE all(kids) == PieceWords(kids, run.rpr, under)
             words(x) == WordsOfPiece(x, run.rpr, under)
             good == {kids \in Seq(Pieces) : all(pass[kids]) = all(kids)}
  <2>1. /\ \A kids \in Seq(Pieces) : all(kids) \in Seq(WordSet)
        /\ \A kids \in Seq(Pieces), x \in Pieces : all(Append(kids, x)) = all(kids) \o words(x)
    BY <1>1, PieceWordsNext
  <2>2. \A x \in Pieces : words(x) \in Seq(WordSet) BY <1>1, WordsOfPieceType
  <2>3. \A a, b \in Pieces : \A space :
          a.tag = b.tag => words(Piece(a.tag, a.text \o b.text, space)) = words(a) \o words(b)
    BY <1>1, JoinedWords
  <2> HIDE DEF all, words
  <2>4. <<>> \in good BY <1>4
  <2>5. ASSUME NEW kids \in Seq(Pieces), NEW x \in Pieces, kids \in good
        PROVE  Append(kids, x) \in good
    <3> DEFINE done == pass[kids]
    <3>1. done \in Seq(Pieces) /\ all(done) = all(kids) BY <1>4, <2>5
    <3>2. pass[Append(kids, x)] = JoinText(done, x) BY <1>4
    <3>3. Append(kids, x) \in Seq(Pieces) BY AppendProperties
    <3>4. all(Append(kids, x)) = all(done) \o words(x) BY <2>1, <3>1
    <3> HIDE DEF done
    <3>5. all(JoinText(done, x)) = all(done) \o words(x)
      <4>1. CASE done # <<>> /\ Last(done).tag = "t" /\ x.tag = "t"
        <5> DEFINE last == Last(done)
                   text == last.text \o x.text
                   joined == Piece("t", text, HasOuterBlank(text))
        <5>1. /\ Front(done) \in Seq(Pieces) /\ last \in Pieces /\ done = Append(Front(done), last)
          BY <3>1, <4>1, FrontAndLast
        <5>2. JoinText(done, x) = Append(Front(done), joined) BY <4>1 DEF JoinText
        <5>3. joined \in Pieces
          <6>1. text \in Seq(Vocabulary) BY <5>1, ConcatProperties DEF Pieces
          <6>2. x.tag \in PieceTags BY DEF Pieces
          <6>3. "t" \in PieceTags BY <4>1, <6>2
          <6> HIDE DEF text
          <6>4. QED BY <6>1, <6>3, TextPiece
        <5>4. words(joined) = words(last) \o words(x) BY <2>3, <4>1, <5>1
        <5> HIDE DEF joined, last
        <5>5. all(Append(Front(done), joined)) = all(Front(done)) \o words(joined) BY <2>1, <5>1, <5>3
        <5>6. all(done) = all(Front(done)) \o words(last)
          <6>1. all(Append(Front(done), last)) = all(Front(done)) \o words(last) BY <2>1, <5>1
          <6>2. QED BY <5>1, <6>1
        <5>7. (all(Front(done)) \o words(last)) \o words(x) = all(Front(done)) \o (words(last) \o words(x))
          <6>1. all(Front(done)) \in Seq(WordSet) /\ words(last) \in Seq(WordSet) /\ words(x) \in Seq(WordSet)
            BY <2>1, <2>2, <5>1
          <6> HIDE DEF good
          <6>2. QED BY <6>1, ConcatAssociative
        <5>8. QED BY <5>2, <5>4, <5>5, <5>6, <5>7
      <4>2. CASE ~(done # <<>> /\ Last(done).tag = "t" /\ x.tag = "t")
        <5>1. JoinText(done, x) = Append(done, x) BY <4>2 DEF JoinText
        <5>2. QED BY <2>1, <3>1, <5>1
      <4>3. QED BY <4>1, <4>2
    <3>6. QED BY <3>2, <3>3, <3>4, <3>5 DEF done
  <2>6. \A kids \in Seq(Pieces) : kids \in good
    <3> HIDE DEF good
    <3>1. QED BY <2>4, <2>5, SeqKeeps
  <2>7. all(pass[run.kids]) = all(run.kids) BY <1>1, <2>6
  <2>8. WordsOfRun(_consolidate_text(run), under) = all(pass[run.kids])
    BY <1>6 DEF WordsOfRun, PieceWords, all
  <2>9. WordsOfRun(run, under) = all(run.kids) BY DEF WordsOfRun, PieceWords, all
  <2>10. QED BY <2>7, <2>8, <2>9
<1>9. QED BY <1>7, <1>8

(* A run adds its words and leaves the open changes as they are.           *)
LEMMA RunReads ==
  ASSUME NEW seen \in Readings, NEW run \in WordTokens, run.tag = "r"
  PROVE  /\ InForce(seen.open) \in SUBSET TrackedChanges
         /\ Read(seen, run) =
              [open |-> seen.open, words |-> seen.words \o WordsOfRun(run, InForce(seen.open))]
<1>1. InForce(seen.open) \in SUBSET TrackedChanges BY DEF InForce
<1>2. seen = [open |-> seen.open, words |-> seen.words] BY DEF Readings
<1>3. QED BY <1>1, <1>2 DEF Read

Together(a, b) == [a EXCEPT !.kids = @ \o b.kids]

(* Two runs of one formatting read as one run with the pieces of both.     *)
LEMMA TwoRunsRead ==
  ASSUME NEW seen \in Readings, NEW a \in WordTokens, NEW b \in WordTokens,
         a.tag = "r", b.tag = "r", a.rpr = b.rpr
  PROVE  /\ Together(a, b) \in WordTokens
         /\ Read(Read(seen, a), b) = Read(seen, Together(a, b))
<1> DEFINE both == a.kids \o b.kids
           joined == Together(a, b)
           under == InForce(seen.open)
<1>1. /\ a.rpr \in Formats /\ a.kids \in Seq(Pieces) /\ b.kids \in Seq(Pieces)
      /\ a = [tag |-> "r", rpr |-> a.rpr, kids |-> a.kids]
  BY DEF WordTokens
<1>2. both \in Seq(Pieces) BY <1>1, ConcatProperties
<1>3. joined = [tag |-> "r", rpr |-> a.rpr, kids |-> both]
  <2>1. joined = [a EXCEPT !.kids = both] BY DEF Together
  <2> HIDE DEF both, joined
  <2>2. QED BY <1>1, <2>1
<1>4. joined \in WordTokens /\ joined.tag = "r" BY <1>1, <1>2, <1>3 DEF WordTokens
<1>5. under \in SUBSET TrackedChanges BY RunReads
<1>6. seen.words \in Seq(WordSet) BY DEF Readings
<1> HIDE DEF both, under
<1>7. WordsOfRun(joined, under) = PieceWords(both, a.rpr, under) BY <1>3 DEF WordsOfRun, PieceWords
<1>8. /\ WordsOfRun(a, under) = PieceWords(a.kids, a.rpr, under)
      /\ WordsOfRun(b, under) = PieceWords(b.kids, a.rpr, under)
      /\ WordsOfRun(a, under) \in Seq(WordSet) /\ WordsOfRun(b, under) \in Seq(WordSet)
  BY <1>5, WordsOfRunType
<1>9. WordsOfRun(joined, under) = WordsOfRun(a, under) \o WordsOfRun(b, under)
  <2>1. PieceWords(both, a.rpr, under) = PieceWords(a.kids, a.rpr, under) \o PieceWords(b.kids, a.rpr, under)
    BY <1>1, <1>5, PieceWordsConcat DEF both
  <2>2. QED BY <1>7, <1>8, <2>1
<1> HIDE DEF joined
<1> DEFINE one == WordsOfRun(a, under)
           other == WordsOfRun(b, under)
<1>10. (seen.words \o one) \o other = seen.words \o (one \o other)
  <2> DEFINE words == seen.words
  <2>1. one \in Seq(WordSet) /\ other \in Seq(WordSet) /\ words \in Seq(WordSet) BY <1>6, <1>8
  <2> HIDE DEF one, other, words
  <2>2. (words \o one) \o other = words \o (one \o other) BY <2>1, ConcatAssociative
  <2>3. QED BY <2>2 DEF words
<1>11. Read(seen, a) = [open |-> seen.open, words |-> seen.words \o one] BY RunReads DEF under
<1>12. Read(Read(seen, a), b) = [open |-> seen.open, words |-> (seen.words \o one) \o other]
  <2>1. Read(seen, a) \in Readings BY ReadType
  <2>2. InForce(Read(seen, a).open) = under BY <1>11 DEF under
  <2>3. Read(Read(seen, a), b) =
          [open |-> Read(seen, a).open, words |-> Read(seen, a).words \o WordsOfRun(b, under)]
    BY <2>1, <2>2, RunReads
  <2>4. QED BY <1>11, <2>3
<1>13. Read(seen, joined) = [open |-> seen.open, words |-> seen.words \o WordsOfRun(joined, under)]
  BY <1>4, RunReads DEF under
<1>14. Read(Read(seen, a), b) = Read(seen, joined) BY <1>9, <1>10, <1>12, <1>13
<1>15. QED BY <1>4, <1>14 DEF joined

RunStep == [p \in Seq(WordTokens) \X WordTokens |-> _merge_run_content(p[1], p[2])]

Consolidated(tokens) ==
  [n \in DOMAIN tokens |->
     IF tokens[n].tag = "r" THEN _consolidate_text(tokens[n]) ELSE tokens[n]]

LEMMA RunsIsPass ==
  ASSUME NEW paragraph \in Seq(WordTokens),
         NEW pass, Computes(pass, WordTokens, Seq(WordTokens), <<>>, RunStep)
  PROVE  _merge_runs_in(paragraph) = Consolidated(pass[paragraph])
<1> DEFINE N == Len(paragraph)
           body(a, i) == IF i = 0 THEN <<>> ELSE _merge_run_content(a[i - 1], paragraph[i])
           done == CHOOSE a : a = [i \in 0 .. N |-> body(a, i)]
<1>1. _merge_runs_in(paragraph) = Consolidated(done[N]) BY DEF _merge_runs_in, Consolidated
<1>2. N \in Nat /\ \A i \in 1 .. N : paragraph[i] \in WordTokens BY LenProperties, ElementOfSeq
<1>3. ASSUME NEW a, NEW i \in 1 .. N, a[i - 1] \in Seq(WordTokens)
      PROVE  body(a, i) = RunStep[<<a[i - 1], paragraph[i]>>]
  BY <1>2, <1>3 DEF RunStep
<1>4. \A a : body(a, 0) = <<>> OBVIOUS
<1> HIDE DEF body
<1>5. PICK g : /\ g = [i \in 0 .. N |-> g[i]] /\ g[0] = <<>>
               /\ \A i \in 1 .. N :
                    g[i - 1] \in Seq(WordTokens) /\ g[i] = RunStep[<<g[i - 1], paragraph[i]>>]
  BY PassIsLoop
<1>6. \A i \in 0 .. N : g[i] = body(g, i)
  <2>1. \A i \in 1 .. N : g[i] = body(g, i) BY <1>3, <1>5
  <2>2. \A i \in 0 .. N : i = 0 \/ i \in 1 .. N BY <1>2
  <2>3. QED BY <1>4, <1>5, <2>1, <2>2
<1>7. g = [i \in 0 .. N |-> body(g, i)] BY <1>5, <1>6
<1>8. done = [i \in 0 .. N |-> body(done, i)] BY <1>7
<1> HIDE DEF done
<1>9. \A i \in 0 .. N : done[i] = body(done, i) BY <1>8
<1>10. done[0] = <<>> /\ \A i \in 1 .. N : i \in 0 .. N BY <1>2, <1>4, <1>9
<1>11. \A i \in 1 .. N :
         done[i - 1] \in Seq(WordTokens) => done[i] = RunStep[<<done[i - 1], paragraph[i]>>]
  BY <1>3, <1>9, <1>10
<1>12. done[N] = pass[paragraph] BY <1>10, <1>11, LoopIsPass
<1>13. QED BY <1>1, <1>12

(* A run taken into the one before it is read with it.                     *)
LEMMA RunContent ==
  ASSUME NEW done \in Seq(WordTokens), NEW x \in WordTokens
  PROVE  /\ _merge_run_content(done, x) \in Seq(WordTokens)
         /\ ReadAll(_merge_run_content(done, x)) = Read(ReadAll(done), x)
<1>1. CASE done # <<>> /\ _can_merge(Last(done), x)
  <2> DEFINE last == Last(done)
             front == Front(done)
             joined == Together(last, x)
  <2>1. front \in Seq(WordTokens) /\ last \in WordTokens /\ done = Append(front, last)
    BY <1>1, FrontAndLast
  <2>2. last.tag = "r" /\ x.tag = "r" /\ last.rpr = x.rpr BY <1>1 DEF _can_merge
  <2>3. _merge_run_content(done, x) = Append(front, joined) BY <1>1 DEF _merge_run_content, Together
  <2> HIDE DEF last, front
  <2>4. ReadAll(front) \in Readings /\ ReadAll(done) = Read(ReadAll(front), last) BY <2>1, ReadNext
  <2>5. joined \in WordTokens /\ Read(ReadAll(done), x) = Read(ReadAll(front), joined)
    BY <2>1, <2>2, <2>4, TwoRunsRead
  <2> HIDE DEF joined
  <2>6. ReadAll(Append(front, joined)) = Read(ReadAll(front), joined) BY <2>1, <2>5, ReadNext
  <2>7. Append(front, joined) \in Seq(WordTokens) BY <2>1, <2>5, AppendProperties
  <2>8. QED BY <2>3, <2>5, <2>6, <2>7
<1>2. CASE ~(done # <<>> /\ _can_merge(Last(done), x))
  <2>1. _merge_run_content(done, x) = Append(done, x) BY <1>2 DEF _merge_run_content
  <2>2. Append(done, x) \in Seq(WordTokens) BY AppendProperties
  <2>3. QED BY <2>1, <2>2, ReadNext
<1>3. QED BY <1>1, <1>2

LEMMA ConsolidatedReads ==
  ASSUME NEW tokens \in Seq(WordTokens)
  PROVE  /\ Consolidated(tokens) \in Seq(WordTokens)
         /\ ReadAll(Consolidated(tokens)) = ReadAll(tokens)
<1> DEFINE new == Consolidated(tokens)
           one(x) == IF x.tag = "r" THEN _consolidate_text(x) ELSE x
<1>1. /\ Len(tokens) \in Nat /\ DOMAIN tokens = 1 .. Len(tokens)
      /\ \A n \in 1 .. Len(tokens) : tokens[n] \in WordTokens
  BY LenProperties, ElementOfSeq
<1>2. ASSUME NEW x \in WordTokens
      PROVE  one(x) \in WordTokens /\ \A seen \in Readings : Read(seen, one(x)) = Read(seen, x)
  <2>1. CASE x.tag = "r"
    <3>1. /\ one(x) \in WordTokens /\ one(x).tag = "r"
          /\ \A under \in SUBSET TrackedChanges : WordsOfRun(one(x), under) = WordsOfRun(x, under)
      BY <2>1, ConsolidatedWords
    <3> HIDE DEF one
    <3>2. ASSUME NEW seen \in Readings PROVE Read(seen, one(x)) = Read(seen, x)
      BY <2>1, <3>1, RunReads
    <3>3. QED BY <3>1, <3>2
  <2>2. CASE x.tag # "r" BY <2>2
  <2>3. QED BY <2>1, <2>2
<1>3. /\ DOMAIN new = 1 .. Len(tokens) /\ new = [n \in 1 .. Len(tokens) |-> new[n]]
      /\ \A n \in 1 .. Len(tokens) : new[n] = one(tokens[n])
  BY <1>1 DEF Consolidated
<1> HIDE DEF new, one
<1>4. new \in [1 .. Len(tokens) -> WordTokens] BY <1>1, <1>2, <1>3
<1>5. new \in Seq(WordTokens) BY <1>1, <1>4
<1>6. Len(new) = Len(tokens)
  <2>1. Len(new) \in Nat /\ DOMAIN new = 1 .. Len(new) BY <1>5, LenProperties
  <2>2. 1 .. Len(new) = 1 .. Len(tokens) BY <1>3, <2>1
  <2>3. QED BY <1>1, <2>1, <2>2, SameInterval
<1>7. \A n \in 1 .. Len(new) : \A seen \in Readings : Read(seen, new[n]) = Read(seen, tokens[n])
  BY <1>1, <1>2, <1>3, <1>6
<1>8. ReadAll(new) = ReadAll(tokens) BY <1>5, <1>6, <1>7, SameTokensRead
<1>9. QED BY <1>5, <1>8 DEF new

(* Runs merged, the paragraph reads as it did.                             *)
LEMMA RunsRead ==
  ASSUME NEW paragraph \in Seq(WordTokens)
  PROVE  /\ _merge_runs_in(paragraph) \in Seq(WordTokens)
         /\ ReadAll(_merge_runs_in(paragraph)) = ReadAll(paragraph)
<1>1. RunStep \in [Seq(WordTokens) \X WordTokens -> Seq(WordTokens)] BY RunContent DEF RunStep
<1>2. PICK pass : Computes(pass, WordTokens, Seq(WordTokens), <<>>, RunStep)
  <2>1. <<>> \in Seq(WordTokens) OBVIOUS
  <2>2. QED BY <1>1, <2>1, PassComputes
<1> DEFINE good == {s \in Seq(WordTokens) : ReadAll(pass[s]) = ReadAll(s)}
<1>3. pass \in [Seq(WordTokens) -> Seq(WordTokens)] /\ pass[<<>>] = <<>> BY <1>2 DEF Computes
<1>4. <<>> \in good BY <1>3
<1>5. ASSUME NEW s \in Seq(WordTokens), NEW x \in WordTokens, s \in good
      PROVE  Append(s, x) \in good
  <2>1. pass[s] \in Seq(WordTokens) /\ ReadAll(pass[s]) = ReadAll(s) BY <1>3, <1>5
  <2>2. pass[Append(s, x)] = _merge_run_content(pass[s], x)
    <3>1. pass[Append(s, x)] = RunStep[<<pass[s], x>>] BY <1>2 DEF Computes
    <3>2. QED BY <2>1, <3>1 DEF RunStep
  <2>3. ReadAll(Append(s, x)) = Read(ReadAll(s), x) BY ReadNext
  <2>4. Append(s, x) \in Seq(WordTokens) BY AppendProperties
  <2>5. ReadAll(_merge_run_content(pass[s], x)) = Read(ReadAll(pass[s]), x) BY <2>1, RunContent
  <2>6. ReadAll(pass[Append(s, x)]) = ReadAll(Append(s, x)) BY <2>1, <2>2, <2>3, <2>5
  <2>7. QED BY <2>4, <2>6
<1>6. \A s \in Seq(WordTokens) : s \in good
  <2> HIDE DEF good
  <2>1. QED BY <1>4, <1>5, SeqKeeps
<1> DEFINE merged == pass[paragraph]
<1>7. merged \in Seq(WordTokens) /\ ReadAll(merged) = ReadAll(paragraph) BY <1>3, <1>6
<1>8. _merge_runs_in(paragraph) = Consolidated(merged) BY <1>2, RunsIsPass
<1> HIDE DEF merged
<1>9. /\ Consolidated(merged) \in Seq(WordTokens)
      /\ ReadAll(Consolidated(merged)) = ReadAll(merged)
  BY <1>7, ConsolidatedReads
<1>10. QED BY <1>7, <1>8, <1>9

(* Whether the blanks of a piece are kept changes no word.                 *)
LEMMA SpaceKeptWords ==
  ASSUME NEW piece \in Pieces
  PROVE  /\ SpaceKept(piece) \in Pieces
         /\ \A rpr, under : WordsOfPiece(SpaceKept(piece), rpr, under) = WordsOfPiece(piece, rpr, under)
<1> DEFINE space == piece.space \/ (piece.tag = "t" /\ HasOuterBlank(piece.text))
<1>1. space \in BOOLEAN OBVIOUS
<1>2. /\ piece.tag \in PieceTags /\ piece.text \in Seq(Vocabulary)
      /\ piece = [tag |-> piece.tag, text |-> piece.text, space |-> piece.space]
  BY DEF Pieces
<1>3. SpaceKept(piece) = [piece EXCEPT !.space = space] BY DEF SpaceKept
<1> HIDE DEF space
<1>4. SpaceKept(piece) = [tag |-> piece.tag, text |-> piece.text, space |-> space] BY <1>2, <1>3
<1>5. SpaceKept(piece) \in Pieces BY <1>1, <1>2, <1>4 DEF Pieces
<1>6. SpaceKept(piece).tag = piece.tag /\ SpaceKept(piece).text = piece.text BY <1>4
<1>7. QED BY <1>5, <1>6 DEF WordsOfPiece

SpaceKeptToken(token) ==
  IF token.tag = "r"
  THEN [token EXCEPT !.kids = [k \in DOMAIN @ |-> SpaceKept(@[k])]]
  ELSE token

LEMMA SpaceKeptReads ==
  ASSUME NEW token \in WordTokens
  PROVE  /\ SpaceKeptToken(token) \in WordTokens
         /\ \A seen \in Readings : Read(seen, SpaceKeptToken(token)) = Read(seen, token)
<1>1. CASE token.tag = "r"
  <2> DEFINE kids == [k \in DOMAIN token.kids |-> SpaceKept(token.kids[k])]
             new == SpaceKeptToken(token)
  <2>1. /\ token.rpr \in Formats /\ token.kids \in Seq(Pieces)
        /\ token = [tag |-> "r", rpr |-> token.rpr, kids |-> token.kids]
    BY <1>1 DEF WordTokens
  <2>2. /\ Len(token.kids) \in Nat /\ DOMAIN token.kids = 1 .. Len(token.kids)
        /\ \A k \in DOMAIN token.kids : token.kids[k] \in Pieces
    BY <2>1, LenProperties, ElementOfSeq
  <2>3. \A k \in DOMAIN token.kids :
          /\ SpaceKept(token.kids[k]) \in Pieces
          /\ \A rpr, under :
               WordsOfPiece(SpaceKept(token.kids[k]), rpr, under) = WordsOfPiece(token.kids[k], rpr, under)
    BY <2>2, SpaceKeptWords
  <2>4. kids \in [1 .. Len(token.kids) -> Pieces] BY <2>2, <2>3
  <2>5. new = [token EXCEPT !.kids = kids] BY <1>1 DEF SpaceKeptToken
  <2>6. DOMAIN kids = DOMAIN token.kids /\ \A k \in DOMAIN token.kids : kids[k] = SpaceKept(token.kids[k])
    OBVIOUS
  <2> HIDE DEF kids
  <2>7. kids \in Seq(Pieces) BY <2>2, <2>4
  <2> HIDE DEF new
  <2>8. new = [tag |-> "r", rpr |-> token.rpr, kids |-> kids] BY <2>1, <2>5
  <2>9. new \in WordTokens /\ new.tag = "r" BY <2>1, <2>7, <2>8 DEF WordTokens
  <2>10. ASSUME NEW under PROVE WordsOfRun(new, under) = WordsOfRun(token, under)
    <3>1. \A k \in DOMAIN token.kids :
            WordsOfPiece(kids[k], token.rpr, under) = WordsOfPiece(token.kids[k], token.rpr, under)
      BY <2>3, <2>6
    <3>2. [k \in DOMAIN kids |-> WordsOfPiece(kids[k], token.rpr, under)] =
            [k \in DOMAIN token.kids |-> WordsOfPiece(token.kids[k], token.rpr, under)]
      BY <2>6, <3>1
    <3>3. new.kids = kids /\ new.rpr = token.rpr BY <2>8
    <3>4. QED BY <3>2, <3>3 DEF WordsOfRun
  <2>11. ASSUME NEW seen \in Readings PROVE Read(seen, new) = Read(seen, token)
    <3> DEFINE under == InForce(seen.open)
    <3>1. Read(seen, token) = [open |-> seen.open, words |-> seen.words \o WordsOfRun(token, under)]
      BY <1>1, RunReads
    <3>2. Read(seen, new) = [open |-> seen.open, words |-> seen.words \o WordsOfRun(new, under)]
      BY <2>9, RunReads
    <3> HIDE DEF under
    <3>3. QED BY <2>10, <3>1, <3>2
  <2>12. QED BY <2>9, <2>11 DEF new
<1>2. CASE token.tag # "r" BY <1>2 DEF SpaceKeptToken
<1>3. QED BY <1>1, <1>2

(* Tokens changed one by one that are read as before.                      *)
LEMMA TokensReadAlike ==
  ASSUME NEW tokens \in Seq(WordTokens), NEW new, new = [n \in DOMAIN tokens |-> new[n]],
         \A n \in DOMAIN tokens :
           /\ new[n] \in WordTokens
           /\ \A seen \in Readings : Read(seen, new[n]) = Read(seen, tokens[n])
  PROVE  new \in Seq(WordTokens) /\ Len(new) = Len(tokens) /\ ReadAll(new) = ReadAll(tokens)
<1>1. Len(tokens) \in Nat /\ DOMAIN tokens = 1 .. Len(tokens) BY LenProperties
<1>2. new \in [1 .. Len(tokens) -> WordTokens] /\ DOMAIN new = 1 .. Len(tokens) BY <1>1
<1>3. new \in Seq(WordTokens) BY <1>1, <1>2
<1>4. Len(new) = Len(tokens)
  <2>1. Len(new) \in Nat /\ DOMAIN new = 1 .. Len(new) BY <1>3, LenProperties
  <2>2. 1 .. Len(new) = 1 .. Len(tokens) BY <1>2, <2>1
  <2>3. QED BY <1>1, <2>1, <2>2, SameInterval
<1>5. \A n \in 1 .. Len(new) : \A seen \in Readings : Read(seen, new[n]) = Read(seen, tokens[n])
  BY <1>1, <1>4
<1>6. ReadAll(new) = ReadAll(tokens) BY <1>3, <1>4, <1>5, SameTokensRead
<1>7. QED BY <1>3, <1>4, <1>6

(* Paragraphs changed one by one that are read as before.                  *)
LEMMA ParagraphsReadAlike ==
  ASSUME NEW doc \in Seq(Seq(WordTokens)), NEW new, new = [i \in DOMAIN doc |-> new[i]],
         \A i \in DOMAIN doc : new[i] \in Seq(WordTokens) /\ ReadAll(new[i]) = ReadAll(doc[i])
  PROVE  new \in Seq(Seq(WordTokens)) /\ Words(new) = Words(doc)
<1>1. Len(doc) \in Nat /\ DOMAIN doc = 1 .. Len(doc) BY LenProperties
<1>2. new \in [1 .. Len(doc) -> Seq(WordTokens)] /\ DOMAIN new = DOMAIN doc
  <2> DEFINE S == Seq(WordTokens)
  <2>1. \A i \in 1 .. Len(doc) : new[i] \in S BY <1>1
  <2> HIDE DEF S
  <2>2. new \in [1 .. Len(doc) -> S] /\ DOMAIN new = DOMAIN doc BY <1>1, <2>1
  <2>3. QED BY <2>2 DEF S
<1>3. new \in Seq(Seq(WordTokens)) BY <1>1, <1>2
<1>4. \A i \in DOMAIN doc : WordsOf(new[i]) = WordsOf(doc[i]) BY DEF WordsOf, ReadAll
<1>5. Words(new) = Words(doc) BY <1>2, <1>4 DEF Words
<1>6. QED BY <1>3, <1>5

LEMMA SpacesKeptReads ==
  ASSUME NEW doc \in Seq(Seq(WordTokens))
  PROVE  /\ SpacesKept(doc) \in Seq(Seq(WordTokens)) /\ Words(SpacesKept(doc)) = Words(doc)
         /\ DOMAIN SpacesKept(doc) = DOMAIN doc
         /\ \A i \in DOMAIN doc :
              SpacesKept(doc)[i] = [n \in DOMAIN doc[i] |-> SpaceKeptToken(doc[i][n])]
<1> DEFINE new == SpacesKept(doc)
<1>1. new = [i \in DOMAIN doc |-> [n \in DOMAIN doc[i] |-> SpaceKeptToken(doc[i][n])]]
  BY DEF SpacesKept, SpaceKeptToken
<1>2. /\ new = [i \in DOMAIN doc |-> new[i]] /\ DOMAIN new = DOMAIN doc
      /\ \A i \in DOMAIN doc : new[i] = [n \in DOMAIN doc[i] |-> SpaceKeptToken(doc[i][n])]
  BY <1>1
<1>3. DOMAIN doc = 1 .. Len(doc) /\ \A i \in DOMAIN doc : doc[i] \in Seq(WordTokens)
  BY LenProperties, ElementOfSeq
<1> HIDE DEF new
<1>4. ASSUME NEW i \in DOMAIN doc
      PROVE  new[i] \in Seq(WordTokens) /\ ReadAll(new[i]) = ReadAll(doc[i])
  <2> DEFINE tokens == doc[i]
             kept == new[i]
  <2>1. tokens \in Seq(WordTokens) BY <1>3
  <2>2. kept = [n \in DOMAIN tokens |-> SpaceKeptToken(tokens[n])] BY <1>2
  <2>3. \A n \in DOMAIN tokens : tokens[n] \in WordTokens BY <2>1, LenProperties, ElementOfSeq
  <2> HIDE DEF tokens, kept
  <2>4. kept = [n \in DOMAIN tokens |-> kept[n]] BY <2>2
  <2>5. \A n \in DOMAIN tokens :
          /\ kept[n] \in WordTokens
          /\ \A seen \in Readings : Read(seen, kept[n]) = Read(seen, tokens[n])
    BY <2>2, <2>3, SpaceKeptReads
  <2>6. kept \in Seq(WordTokens) /\ ReadAll(kept) = ReadAll(tokens) BY <2>1, <2>4, <2>5, TokensReadAlike
  <2>7. QED BY <2>6 DEF kept, tokens
<1>5. new \in Seq(Seq(WordTokens)) /\ Words(new) = Words(doc) BY <1>2, <1>4, ParagraphsReadAlike
<1>6. QED BY <1>2, <1>5 DEF new

LEMMA SimplifiedReads ==
  ASSUME NEW doc \in Seq(Seq(WordTokens))
  PROVE  simplify_redlines(doc) \in Seq(Seq(WordTokens)) /\ Words(simplify_redlines(doc)) = Words(doc)
<1> DEFINE new == simplify_redlines(doc)
<1>1. /\ new = [i \in DOMAIN doc |-> new[i]]
      /\ \A i \in DOMAIN doc :
           new[i] = _merge_tracked_changes_in(_merge_tracked_changes_in(doc[i], "ins"), "del")
  BY DEF simplify_redlines
<1>2. \A i \in DOMAIN doc : doc[i] \in Seq(WordTokens) BY LenProperties, ElementOfSeq
<1> HIDE DEF new
<1>3. ASSUME NEW i \in DOMAIN doc
      PROVE  new[i] \in Seq(WordTokens) /\ ReadAll(new[i]) = ReadAll(doc[i])
  <2> DEFINE p == doc[i]
             once == _merge_tracked_changes_in(p, "ins")
             twice == _merge_tracked_changes_in(once, "del")
  <2>1. p \in Seq(WordTokens) BY <1>2
  <2> HIDE DEF p
  <2>2. once \in Seq(WordTokens) /\ ReadAll(once) = ReadAll(p) BY <2>1, TrackedNext, TrackedReads
  <2> HIDE DEF once
  <2>3. twice \in Seq(WordTokens) /\ ReadAll(twice) = ReadAll(once) BY <2>2, TrackedNext, TrackedReads
  <2>4. new[i] = twice BY <1>1 DEF once, p
  <2>5. QED BY <2>2, <2>3, <2>4 DEF p
<1>4. QED BY <1>1, <1>3, ParagraphsReadAlike DEF new

LEMMA MergedRunsRead ==
  ASSUME NEW doc \in Seq(Seq(WordTokens))
  PROVE  merge_runs(doc) \in Seq(Seq(WordTokens)) /\ Words(merge_runs(doc)) = Words(doc)
<1> DEFINE new == merge_runs(doc)
<1>1. /\ new = [i \in DOMAIN doc |-> new[i]]
      /\ \A i \in DOMAIN doc : new[i] = _merge_runs_in(_remove_elements(doc[i], "proofErr"))
  BY DEF merge_runs
<1>2. \A i \in DOMAIN doc : doc[i] \in Seq(WordTokens) BY LenProperties, ElementOfSeq
<1> HIDE DEF new
<1>3. ASSUME NEW i \in DOMAIN doc
      PROVE  new[i] \in Seq(WordTokens) /\ ReadAll(new[i]) = ReadAll(doc[i])
  <2> DEFINE p == doc[i]
             wanted == {t \in ToSet(p) : t.tag # "proofErr"}
             left == Only(p, wanted)
             merged == _merge_runs_in(left)
  <2>1. p \in Seq(WordTokens) BY <1>2
  <2>2. left = _remove_elements(p, "proofErr") BY DEF _remove_elements
  <2>3. ASSUME NEW n \in 1 .. Len(p) PROVE p[n] \in wanted \/ p[n].tag \notin {"r", "start", "end"}
    <3> HIDE DEF p
    <3>1. p[n] \in ToSet(p) BY <2>1, LenProperties DEF ToSet
    <3>2. QED BY <3>1
  <2> HIDE DEF p, wanted
  <2>4. left \in Seq(WordTokens) /\ ReadAll(left) = ReadAll(p) BY <2>1, <2>3, RemovedReads
  <2> HIDE DEF left
  <2>5. merged \in Seq(WordTokens) /\ ReadAll(merged) = ReadAll(left) BY <2>4, RunsRead
  <2>6. new[i] = merged BY <1>1, <2>2 DEF p
  <2>7. QED BY <2>4, <2>5, <2>6 DEF p
<1>4. QED BY <1>1, <1>3, ParagraphsReadAlike DEF new

-----------------------------------------------------------------------------
(* The editor writes tokens.                                               *)

LEMMA ChangeType ==
  ASSUME NEW tag \in {"ins", "del"}, NEW author \in Writers, NEW inside \in Seq(WordTokens)
  PROVE  /\ Start(tag, author) \in WordTokens /\ End(tag, author) \in WordTokens
         /\ <<Start(tag, author)>> \o inside \in Seq(WordTokens)
         /\ Change(tag, author, inside) \in Seq(WordTokens)
         /\ Change(tag, author, inside) = Append(<<Start(tag, author)>> \o inside, End(tag, author))
<1> DEFINE first == Start(tag, author)
           last == End(tag, author)
           opened == <<first>> \o inside
<1>1. <<tag, author>> \in TrackedChanges BY DEF TrackedChanges
<1>2. first \in WordTokens /\ last \in WordTokens BY <1>1 DEF Start, End, WordTokens
<1> HIDE DEF first, last
<1>3. <<first>> \in Seq(WordTokens) /\ <<last>> \in Seq(WordTokens) BY <1>2
<1>4. opened \in Seq(WordTokens) BY <1>3, ConcatProperties
<1>5. Change(tag, author, inside) = opened \o <<last>> BY DEF Change, first, last
<1> HIDE DEF opened
<1>6. opened \o <<last>> \in Seq(WordTokens) BY <1>3, <1>4, ConcatProperties
<1>7. opened \o <<last>> = Append(opened, last) BY <1>2, <1>4, AppendIsConcat
<1>8. QED BY <1>2, <1>4, <1>5, <1>6, <1>7 DEF opened, first, last

RenamedToken(token, from, to) ==
  IF token.tag = "r"
  THEN [token EXCEPT !.kids =
          [k \in DOMAIN @ |-> IF @[k].tag = from THEN Piece(to, @[k].text, FALSE) ELSE @[k]]]
  ELSE token

LEMMA RenamedTokenType ==
  ASSUME NEW token \in WordTokens, NEW from, NEW to \in PieceTags
  PROVE  /\ RenamedToken(token, from, to) \in WordTokens
         /\ token.tag = "r" => RenamedToken(token, from, to).tag = "r"
         /\ token.tag # "r" => RenamedToken(token, from, to) = token
<1>1. CASE token.tag = "r"
  <2> DEFINE one(piece) == IF piece.tag = from THEN Piece(to, piece.text, FALSE) ELSE piece
             kids == [k \in DOMAIN token.kids |-> one(token.kids[k])]
             new == RenamedToken(token, from, to)
  <2>1. /\ token.rpr \in Formats /\ token.kids \in Seq(Pieces)
        /\ token = [tag |-> "r", rpr |-> token.rpr, kids |-> token.kids]
    BY <1>1 DEF WordTokens
  <2>2. /\ Len(token.kids) \in Nat /\ DOMAIN token.kids = 1 .. Len(token.kids)
        /\ \A k \in DOMAIN token.kids : token.kids[k] \in Pieces
    BY <2>1, LenProperties, ElementOfSeq
  <2>3. \A piece \in Pieces : one(piece) \in Pieces BY DEF Pieces, Piece
  <2>4. new = [token EXCEPT !.kids = kids] BY <1>1 DEF RenamedToken
  <2> HIDE DEF one
  <2>5. kids \in [1 .. Len(token.kids) -> Pieces] BY <2>2, <2>3
  <2> HIDE DEF kids
  <2>6. kids \in Seq(Pieces) BY <2>2, <2>5
  <2> HIDE DEF new
  <2>7. new = [tag |-> "r", rpr |-> token.rpr, kids |-> kids] BY <2>1, <2>4
  <2>8. new \in WordTokens /\ new.tag = "r" BY <2>1, <2>6, <2>7 DEF WordTokens
  <2>9. QED BY <1>1, <2>8 DEF new
<1>2. CASE token.tag # "r" BY <1>2 DEF RenamedToken
<1>3. QED BY <1>1, <1>2

LEMMA RenamedType ==
  ASSUME NEW tokens \in Seq(WordTokens), NEW from, NEW to \in PieceTags
  PROVE  /\ Renamed(tokens, from, to) = [n \in DOMAIN tokens |-> RenamedToken(tokens[n], from, to)]
         /\ Renamed(tokens, from, to) \in Seq(WordTokens)
         /\ Len(Renamed(tokens, from, to)) = Len(tokens)
<1> DEFINE new == Renamed(tokens, from, to)
<1>1. new = [n \in DOMAIN tokens |-> RenamedToken(tokens[n], from, to)] BY DEF Renamed, RenamedToken
<1>2. /\ Len(tokens) \in Nat /\ DOMAIN tokens = 1 .. Len(tokens)
      /\ \A n \in DOMAIN tokens : tokens[n] \in WordTokens
  BY LenProperties, ElementOfSeq
<1>3. \A n \in DOMAIN tokens : RenamedToken(tokens[n], from, to) \in WordTokens
  BY <1>2, RenamedTokenType
<1> HIDE DEF new
<1>4. new \in [1 .. Len(tokens) -> WordTokens] /\ DOMAIN new = 1 .. Len(tokens) BY <1>1, <1>2, <1>3
<1>5. new \in Seq(WordTokens) BY <1>2, <1>4
<1>6. Len(new) = Len(tokens)
  <2>1. Len(new) \in Nat /\ DOMAIN new = 1 .. Len(new) BY <1>5, LenProperties
  <2>2. 1 .. Len(new) = 1 .. Len(tokens) BY <1>4, <2>1
  <2>3. QED BY <1>2, <2>1, <2>2, SameInterval
<1>7. QED BY <1>1, <1>5, <1>6 DEF new

NewRun(tag) == Run("plain", <<Piece(tag, <<"new", Blank>>, FALSE)>>)

LEMMA InsertedType ==
  ASSUME NEW tag \in PieceTags
  PROVE  NewRun(tag) \in WordTokens /\ Inserted(tag) \in Seq(WordTokens)
<1> DEFINE text == <<"new", Blank>>
           piece == Piece(tag, text, FALSE)
<1>1. text \in Seq(Vocabulary)
  <2>1. "new" \in Vocabulary /\ Blank \in Vocabulary BY DocxAssumption
  <2> HIDE DEF Blank
  <2>2. QED BY <2>1
<1> HIDE DEF text
<1>2. piece \in Pieces BY <1>1 DEF Piece, Pieces
<1> HIDE DEF piece
<1>3. <<piece>> \in Seq(Pieces) BY <1>2
<1>4. NewRun(tag) = [tag |-> "r", rpr |-> "plain", kids |-> <<piece>>] BY DEF NewRun, Run, piece, text
<1>5. NewRun(tag) \in WordTokens
  <2>1. "plain" \in Formats BY DocxAssumption
  <2>2. QED BY <1>3, <1>4, <2>1 DEF WordTokens
<1>6. Inserted(tag) = Change("ins", Me, <<NewRun(tag)>>) BY DEF Inserted, NewRun
<1>7. <<NewRun(tag)>> \in Seq(WordTokens) BY <1>5
<1>8. Inserted(tag) \in Seq(WordTokens) BY <1>6, <1>7, ChangeType, DocxAssumption
<1>9. QED BY <1>5, <1>8

LEMMA EditCases ==
  ASSUME NEW node, NEW new \in EditsOf(node)
  PROVE  \/ \E tag \in {"t", "delText"} : new = node \o Inserted(tag)
         \/ node[1].tag = "r" /\ new \in EditsOfRun(node)
         \/ \E a \in Others("ins", node) : new \in EditsOfInsertion(a, Inside(node))
         \/ \E a \in Others("del", node) : new \in EditsOfDeletion(a, Inside(node))
<1> DEFINE ofRun == IF node[1].tag = "r" THEN EditsOfRun(node) ELSE {}
           ofInsertion == UNION {EditsOfInsertion(a, Inside(node)) : a \in Others("ins", node)}
           ofDeletion == UNION {EditsOfDeletion(a, Inside(node)) : a \in Others("del", node)}
<1>1. /\ new \in ofRun => node[1].tag = "r" /\ new \in EditsOfRun(node)
      /\ new \in ofInsertion => \E a \in Others("ins", node) : new \in EditsOfInsertion(a, Inside(node))
      /\ new \in ofDeletion => \E a \in Others("del", node) : new \in EditsOfDeletion(a, Inside(node))
  OBVIOUS
<1>2. EditsOf(node) =
        {node \o Inserted("t"), node \o Inserted("delText")} \cup ofRun \cup ofInsertion \cup ofDeletion
  BY DEF EditsOf
<1> HIDE DEF ofRun, ofInsertion, ofDeletion
<1>3. QED BY <1>1, <1>2

(* What starts and ends with a change of another is that change.           *)
LEMMA NodeOfChange ==
  ASSUME NEW tag \in {"ins", "del"}, NEW node \in Seq(WordTokens), NEW a \in Others(tag, node)
  PROVE  /\ a \in Writers \ {Me} /\ Inside(node) \in Seq(WordTokens)
         /\ node = Change(tag, a, Inside(node))
<1> DEFINE N == Len(node)
           inside == Inside(node)
           first == Start(tag, a)
           last == End(tag, a)
<1>1. a \in Writers \ {Me} /\ N > 1 /\ node[1] = first /\ node[N] = last BY DEF Others
<1>2. N \in Nat /\ \A k \in 1 .. N : node[k] \in WordTokens BY LenProperties, ElementOfSeq
<1>3. inside = SubSeq(node, 2, N - 1) BY DEF Inside
<1> HIDE DEF first, last, inside
<1>4. inside \in Seq(WordTokens)
  <2>1. \A k \in 2 .. N - 1 : node[k] \in WordTokens BY <1>2
  <2> HIDE DEF N
  <2>2. 2 \in Int /\ N - 1 \in Int BY <1>2
  <2>3. QED BY <1>3, <2>1, <2>2, SubSeqProperties
<1>5. node = <<first>> \o (inside \o <<last>>)
  <2>1. SubSeq(node, 1, N) = node BY SubSeqFull
  <2>2. 1 \in 1 .. N /\ N \in 1 .. N /\ 2 \in 1 .. N /\ N \in 2 .. N BY <1>1, <1>2
  <2>3. SubSeq(node, 1, N) = <<node[1]>> \o SubSeq(node, 1 + 1, N) BY <2>2, SubSeqRecursiveFirst
  <2>4. SubSeq(node, 2, N) = SubSeq(node, 2, N - 1) \o <<node[N]>> BY <2>2, SubSeqRecursiveSecond
  <2>5. 1 + 1 = 2 OBVIOUS
  <2> HIDE DEF N
  <2>6. QED BY <1>1, <1>3, <2>1, <2>3, <2>4, <2>5
<1>6. <<first>> \o (inside \o <<last>>) = (<<first>> \o inside) \o <<last>>
  <2> DEFINE one == <<first>>
             other == <<last>>
  <2>1. first \in WordTokens /\ last \in WordTokens BY <1>1, <1>4, ChangeType DEF first, last
  <2>2. one \in Seq(WordTokens) /\ other \in Seq(WordTokens) BY <2>1
  <2> HIDE DEF one, other
  <2>3. (one \o inside) \o other = one \o (inside \o other) BY <1>4, <2>2, ConcatAssociative
  <2>4. QED BY <2>3 DEF one, other
<1>7. QED BY <1>1, <1>4, <1>5, <1>6 DEF Change, inside, first, last

LEMMA EditsType ==
  ASSUME NEW node \in Seq(WordTokens), NEW new \in EditsOf(node)
  PROVE  new \in Seq(WordTokens)
<1>1. Me \in Writers BY DocxAssumption
<1>2. <<>> \in Seq(WordTokens) OBVIOUS
<1>3. ASSUME NEW s \in Seq(WordTokens)
      PROVE  AsDeleted(s) \in Seq(WordTokens) /\ Restored(s) \in Seq(WordTokens)
  BY RenamedType DEF AsDeleted, Restored, PieceTags
<1>4. CASE \E tag \in {"t", "delText"} : new = node \o Inserted(tag)
  <2>1. PICK tag \in {"t", "delText"} : new = node \o Inserted(tag) BY <1>4
  <2>2. Inserted(tag) \in Seq(WordTokens) BY InsertedType DEF PieceTags
  <2>3. QED BY <2>1, <2>2, ConcatProperties
<1>5. CASE node[1].tag = "r" /\ new \in EditsOfRun(node)
  <2> DEFINE one == Change("del", Me, AsDeleted(node))
             other == Change("del", Me, node)
  <2>1. one \in Seq(WordTokens) /\ other \in Seq(WordTokens) BY <1>1, <1>3, ChangeType
  <2>2. new \in {one, other, <<>>} BY <1>5 DEF EditsOfRun
  <2> HIDE DEF one, other
  <2>3. QED BY <1>2, <2>1, <2>2
<1>6. CASE \E a \in Others("ins", node) : new \in EditsOfInsertion(a, Inside(node))
  <2>1. PICK a \in Others("ins", node) : new \in EditsOfInsertion(a, Inside(node)) BY <1>6
  <2> DEFINE inside == Inside(node)
             gone == Change("del", Me, AsDeleted(inside))
  <2>2. a \in Writers /\ inside \in Seq(WordTokens) BY NodeOfChange
  <2>3. gone \in Seq(WordTokens) BY <1>1, <1>3, <2>2, ChangeType
  <2>4. Change("ins", a, gone) \in Seq(WordTokens)
    <3> HIDE DEF gone
    <3>1. QED BY <2>2, <2>3, ChangeType
  <2>5. new \in {inside, <<>>, Change("ins", a, gone)} BY <2>1 DEF EditsOfInsertion
  <2>6. QED BY <1>2, <2>2, <2>4, <2>5
<1>7. CASE \E a \in Others("del", node) : new \in EditsOfDeletion(a, Inside(node))
  <2>1. PICK a \in Others("del", node) : new \in EditsOfDeletion(a, Inside(node)) BY <1>7
  <2> DEFINE inside == Inside(node)
             one == Change("del", a, inside)
             other == Change("ins", Me, Restored(inside))
  <2>2. a \in Writers /\ inside \in Seq(WordTokens) BY NodeOfChange
  <2>3. one \in Seq(WordTokens) /\ other \in Seq(WordTokens) BY <1>1, <1>3, <2>2, ChangeType
  <2>4. new \in {one \o other, Restored(inside), <<>>} BY <2>1 DEF EditsOfDeletion
  <2> HIDE DEF one, other, inside
  <2>5. one \o other \in Seq(WordTokens) BY <2>3, ConcatProperties
  <2>6. QED BY <1>2, <1>3, <2>2, <2>4, <2>5
<1>8. QED BY <1>4, <1>5, <1>6, <1>7, EditCases

-----------------------------------------------------------------------------
(* The text is unpacked once and then only edited.                         *)

TextInv ==
  /\ wordFrom \in Originals
  /\ wordDoc \in Seq(Seq(WordTokens))
  /\ wordState \in {"packed file", "unpacked", "edited"}
  /\ wordState = "packed file" => wordDoc = wordFrom.doc
  /\ wordState = "unpacked" => Words(wordDoc) = Words(wordFrom.doc)

LEMMA TextInvAtFirst == DocxInit => TextInv
BY DocxAssumption DEF DocxInit, CommentsInit, TextInv

(* A part of a paragraph replaced: what stands before it, it, what follows.*)
LEMMA PartsOf ==
  ASSUME NEW p \in Seq(WordTokens), NEW from \in DOMAIN p, NEW to \in DOMAIN p, from <= to
  PROVE  /\ SubSeq(p, 1, from - 1) \in Seq(WordTokens)
         /\ SubSeq(p, from, to) \in Seq(WordTokens)
         /\ SubSeq(p, to + 1, Len(p)) \in Seq(WordTokens)
         /\ p = (SubSeq(p, 1, from - 1) \o SubSeq(p, from, to)) \o SubSeq(p, to + 1, Len(p))
         /\ SubSeq(p, 1, to) = SubSeq(p, 1, from - 1) \o SubSeq(p, from, to)
<1> DEFINE N == Len(p)
<1>1. N \in Nat /\ DOMAIN p = 1 .. N /\ \A k \in 1 .. N : p[k] \in WordTokens
  BY LenProperties, ElementOfSeq
<1> HIDE DEF N
<1>2. from \in 1 .. N /\ to \in 1 .. N BY <1>1
<1>3. SubSeq(p, 1, from - 1) \in Seq(WordTokens)
  <2>1. 1 \in Int /\ from - 1 \in Int /\ \A k \in 1 .. from - 1 : p[k] \in WordTokens BY <1>1, <1>2
  <2>2. QED BY <2>1, SubSeqProperties
<1>4. SubSeq(p, from, to) \in Seq(WordTokens)
  <2>1. from \in Int /\ to \in Int /\ \A k \in from .. to : p[k] \in WordTokens BY <1>1, <1>2
  <2>2. QED BY <2>1, SubSeqProperties
<1>5. SubSeq(p, to + 1, N) \in Seq(WordTokens)
  <2>1. to + 1 \in Int /\ N \in Int /\ \A k \in to + 1 .. N : p[k] \in WordTokens BY <1>1, <1>2
  <2>2. QED BY <2>1, SubSeqProperties
<1>6. SubSeq(p, 1, to) = SubSeq(p, 1, from - 1) \o SubSeq(p, from, to)
  <2> DEFINE k == from - 1
  <2>1. /\ 1 \in 1 .. Len(p) + 1 /\ k \in 1 - 1 .. Len(p) /\ to \in k .. Len(p) /\ k + 1 = from
    BY <1>1, <1>2 DEF N
  <2> HIDE DEF k
  <2>2. SubSeq(p, 1, k) \o SubSeq(p, k + 1, to) = SubSeq(p, 1, to) BY <2>1, ConcatAdjacentSubSeq
  <2>3. QED BY <2>1, <2>2 DEF k
<1>7. p = SubSeq(p, 1, to) \o SubSeq(p, to + 1, N)
  <2>1. /\ 1 \in 1 .. Len(p) + 1 /\ to \in 1 - 1 .. Len(p) /\ Len(p) \in to .. Len(p)
    BY <1>1, <1>2 DEF N
  <2>2. SubSeq(p, 1, to) \o SubSeq(p, to + 1, Len(p)) = SubSeq(p, 1, Len(p))
    BY <2>1, ConcatAdjacentSubSeq
  <2>3. SubSeq(p, 1, Len(p)) = p BY SubSeqFull
  <2>4. QED BY <2>2, <2>3 DEF N
<1>8. QED BY <1>3, <1>4, <1>5, <1>6, <1>7 DEF N

LEMMA EditedType ==
  ASSUME NEW p \in Seq(WordTokens), NEW from \in DOMAIN p, NEW to \in DOMAIN p, from <= to,
         NEW new \in Seq(WordTokens)
  PROVE  SubSeq(p, 1, from - 1) \o new \o SubSeq(p, to + 1, Len(p)) \in Seq(WordTokens)
<1> DEFINE before == SubSeq(p, 1, from - 1)
           after == SubSeq(p, to + 1, Len(p))
<1>1. before \in Seq(WordTokens) /\ after \in Seq(WordTokens) BY PartsOf
<1> HIDE DEF before, after
<1>2. before \o new \in Seq(WordTokens) BY <1>1, ConcatProperties
<1> DEFINE half == before \o new
<1> HIDE DEF half
<1>3. half \o after \in Seq(WordTokens) BY <1>1, <1>2, ConcatProperties DEF half
<1>4. QED BY <1>3 DEF half, before, after

LEMMA UnpackKeepsText ==
  ASSUME TextInv, NEW simplify \in BOOLEAN, NEW merge \in BOOLEAN, UnpackDocx(simplify, merge)
  PROVE  TextInv'
<1> DEFINE simple == IF simplify THEN simplify_redlines(wordDoc) ELSE wordDoc
           new == IF merge THEN merge_runs(simple) ELSE simple
<1>1. /\ wordState = "packed file" /\ wordState' = "unpacked" /\ wordFrom' = wordFrom
      /\ wordDoc' = new
  BY DEF UnpackDocx, Unpacks
<1>2. wordDoc \in Seq(Seq(WordTokens)) /\ wordDoc = wordFrom.doc BY <1>1 DEF TextInv
<1>3. simple \in Seq(Seq(WordTokens)) /\ Words(simple) = Words(wordDoc) BY <1>2, SimplifiedReads
<1> HIDE DEF simple
<1>4. new \in Seq(Seq(WordTokens)) /\ Words(new) = Words(simple) BY <1>3, MergedRunsRead
<1> HIDE DEF new
<1>5. QED BY <1>1, <1>2, <1>3, <1>4 DEF TextInv

LEMMA EditKeepsText ==
  ASSUME TextInv, EditText
  PROVE  TextInv'
<1>1. /\ wordState' = "edited" /\ wordFrom' = wordFrom
      /\ \E i \in DOMAIN wordDoc : \E from, to \in DOMAIN wordDoc[i] :
           /\ IsNode(wordDoc[i], from, to)
           /\ \E new \in EditsOf(SubSeq(wordDoc[i], from, to)) :
                wordDoc' = [wordDoc EXCEPT ![i] =
                  SubSeq(@, 1, from - 1) \o new \o SubSeq(@, to + 1, Len(@))]
  BY DEF EditText, EditElsewhere, Edits
<1>2. PICK i \in DOMAIN wordDoc : \E from, to \in DOMAIN wordDoc[i] :
           /\ IsNode(wordDoc[i], from, to)
           /\ \E new \in EditsOf(SubSeq(wordDoc[i], from, to)) :
                wordDoc' = [wordDoc EXCEPT ![i] =
                  SubSeq(@, 1, from - 1) \o new \o SubSeq(@, to + 1, Len(@))]
  BY <1>1
<1> DEFINE p == wordDoc[i]
           parts(from, to, new) == SubSeq(p, 1, from - 1) \o new \o SubSeq(p, to + 1, Len(p))
<1>3. PICK from \in DOMAIN p, to \in DOMAIN p :
           /\ IsNode(p, from, to)
           /\ \E new \in EditsOf(SubSeq(p, from, to)) :
                wordDoc' = [wordDoc EXCEPT ![i] = parts(from, to, new)]
  BY <1>2
<1>4. PICK new \in EditsOf(SubSeq(p, from, to)) :
        wordDoc' = [wordDoc EXCEPT ![i] = parts(from, to, new)]
  BY <1>3
<1>5. wordDoc \in Seq(Seq(WordTokens)) BY DEF TextInv
<1>6. i \in 1 .. Len(wordDoc) /\ p \in Seq(WordTokens) BY <1>5, LenProperties, ElementOfSeq
<1>7. from <= to BY <1>3 DEF IsNode
<1> HIDE DEF p
<1>8. new \in Seq(WordTokens)
  <2> DEFINE node == SubSeq(p, from, to)
  <2>1. node \in Seq(WordTokens) BY <1>6, <1>7, PartsOf
  <2> HIDE DEF node
  <2>2. new \in EditsOf(node) BY <1>4 DEF node
  <2>3. QED BY <2>1, <2>2, EditsType
<1>9. parts(from, to, new) \in Seq(WordTokens) BY <1>6, <1>7, <1>8, EditedType
<1> DEFINE q == parts(from, to, new)
<1> HIDE DEF q
<1>10. wordDoc' \in Seq(Seq(WordTokens))
  <2> DEFINE S == Seq(WordTokens)
  <2>1. q \in S /\ wordDoc \in Seq(S) /\ wordDoc' = [wordDoc EXCEPT ![i] = q] BY <1>4, <1>5, <1>9 DEF q
  <2> HIDE DEF S
  <2>2. [wordDoc EXCEPT ![i] = q] \in Seq(S) BY <1>6, <2>1, ExceptSeq
  <2>3. QED BY <2>1, <2>2 DEF S
<1>11. QED BY <1>1, <1>10 DEF TextInv

LEMMA RestKeepsText ==
  ASSUME TextInv,
         \/ EditIds \/ Comments
         \/ \E authors \in {{}} \cup {{a} : a \in Authors} : ValidateFile(authors)
         \/ \E infer \in BOOLEAN : PackDocx(infer)
         \/ \E repair \in BOOLEAN, author \in Authors : ValidateDocx(repair, author)
  PROVE  TextInv'
<1>1. wordDoc \in Seq(Seq(WordTokens)) BY DEF TextInv
<1>2. SpacesKept(wordDoc) \in Seq(Seq(WordTokens)) /\ Words(SpacesKept(wordDoc)) = Words(wordDoc)
  BY <1>1, SpacesKeptReads
<1>3. CASE EditIds BY <1>3 DEF EditIds, EditElsewhere, Edits, TextInv
<1>4. CASE Comments
  BY <1>4 DEF Comments, textVars, EditMarkers, AddComment, AddCommentFails, Edits, TextInv
<1>5. CASE \E authors \in {{}} \cup {{a} : a \in Authors} : ValidateFile(authors)
  BY <1>5 DEF ValidateFile, ValidatesFile, Judges, textVars, TextInv
<1>6. CASE \E infer \in BOOLEAN : PackDocx(infer)
  <2>1. /\ wordDoc' = SpacesKept(wordDoc) /\ wordState # "packed file"
        /\ wordState' = wordState /\ wordFrom' = wordFrom
    BY <1>6 DEF PackDocx, Packs, Judges
  <2>2. QED BY <1>2, <2>1 DEF TextInv
<1>7. CASE \E repair \in BOOLEAN, author \in Authors : ValidateDocx(repair, author)
  <2>1. /\ wordDoc' \in {SpacesKept(wordDoc), wordDoc} /\ wordState # "packed file"
        /\ wordState' = wordState /\ wordFrom' = wordFrom
    BY <1>7 DEF ValidateDocx, Validates, Judges
  <2>2. QED BY <1>2, <2>1 DEF TextInv
<1>8. QED BY <1>3, <1>4, <1>5, <1>6, <1>7

LEMMA TextInvStep == TextInv /\ [DocxNext]_docxVars => TextInv'
<1>1. ASSUME TextInv, UNCHANGED docxVars PROVE TextInv'
  BY <1>1 DEF docxVars, textVars, commentVars, TextInv
<1>2. ASSUME TextInv, DocxNext PROVE TextInv'
  BY <1>2, UnpackKeepsText, EditKeepsText, RestKeepsText DEF DocxNext
<1>3. QED BY <1>1, <1>2

(* However a document's changes and runs stand, unpacking merges them      *)
(* without losing, reordering, restyling a word or moving it under         *)
(* another's change (simplify_redlines.py, merge_runs.py).                 *)
THEOREM SimplifyingKeepsText == DocxSpec => []SimplifyKeepsText
<1>1. TextInv => SimplifyKeepsText BY DEF TextInv, SimplifyKeepsText
<1>2. QED BY <1>1, TextInvAtFirst, TextInvStep, PTL DEF DocxSpec

-----------------------------------------------------------------------------
(* The words of a flattened sequence are those of its parts.               *)
LEMMA FlatHasMembers ==
  ASSUME NEW X, NEW seqs \in Seq(Seq(X))
  PROVE  \A k \in 1 .. Len(seqs) : ToSet(seqs[k]) \subseteq ToSet(FlattenSeq(seqs))
<1> DEFINE S == Seq(X)
           flat(t) == FlattenSeq(t)
           good == {t \in Seq(S) : \A k \in 1 .. Len(t) : ToSet(t[k]) \subseteq ToSet(flat(t))}
<1>1. /\ \A t \in Seq(S) : flat(t) \in S
      /\ \A t \in Seq(S), s \in S : flat(Append(t, s)) = flat(t) \o s
  BY FlattenNext, Zenon
<1>2. \A s, t \in S : ToSet(s \o t) = ToSet(s) \cup ToSet(t) BY MembersOfConcat
<1> HIDE DEF S, flat
<1>3. <<>> \in good OBVIOUS
<1>4. ASSUME NEW t \in Seq(S), NEW s \in S, t \in good PROVE Append(t, s) \in good
  <2>1. /\ Append(t, s) \in Seq(S) /\ Len(Append(t, s)) = Len(t) + 1 /\ Append(t, s)[Len(t) + 1] = s
        /\ \A k \in 1 .. Len(t) : Append(t, s)[k] = t[k]
    BY AppendProperties
  <2>2. Len(t) \in Nat /\ \A k \in 1 .. Len(t) : ToSet(t[k]) \subseteq ToSet(flat(t)) BY <1>4, LenProperties
  <2>3. ToSet(flat(Append(t, s))) = ToSet(flat(t)) \cup ToSet(s) BY <1>1, <1>2
  <2>4. ASSUME NEW k \in 1 .. Len(t) + 1
        PROVE  ToSet(Append(t, s)[k]) \subseteq ToSet(flat(Append(t, s)))
    <3>1. k \in 1 .. Len(t) \/ k = Len(t) + 1 BY <2>2
    <3>2. QED BY <2>1, <2>2, <2>3, <3>1
  <2>5. QED BY <2>1, <2>4
<1>5. \A t \in Seq(S) : t \in good
  <2> HIDE DEF good
  <2>1. QED BY <1>3, <1>4, SeqKeeps
<1>6. seqs \in good BY <1>5 DEF S
<1>7. QED BY <1>6 DEF flat

(* What a word of a run is, and which there are.                           *)
LEMMA WordsOfRunMembers ==
  ASSUME NEW run \in WordTokens, run.tag = "r", NEW under \in SUBSET TrackedChanges
  PROVE  /\ \A w \in ToSet(WordsOfRun(run, under)) :
              \E k \in DOMAIN run.kids : \E j \in DOMAIN run.kids[k].text :
                w = [word |-> run.kids[k].text[j], tag |-> run.kids[k].tag, rpr |-> run.rpr,
                     under |-> under]
         /\ \A k \in DOMAIN run.kids : \A j \in DOMAIN run.kids[k].text :
              [word |-> run.kids[k].text[j], tag |-> run.kids[k].tag, rpr |-> run.rpr,
               under |-> under] \in ToSet(WordsOfRun(run, under))
<1> DEFINE words == [k \in DOMAIN run.kids |-> WordsOfPiece(run.kids[k], run.rpr, under)]
<1>1. run.rpr \in Formats /\ run.kids \in Seq(Pieces) BY WordsOfRunType
<1>2. /\ Len(run.kids) \in Nat /\ DOMAIN run.kids = 1 .. Len(run.kids)
      /\ \A k \in 1 .. Len(run.kids) : run.kids[k] \in Pieces
  BY <1>1, LenProperties, ElementOfSeq
<1>3. WordsOfRun(run, under) = FlattenSeq(words) BY DEF WordsOfRun
<1>4. DOMAIN words = 1 .. Len(run.kids) BY <1>2
<1>5. \A k \in DOMAIN run.kids : words[k] = WordsOfPiece(run.kids[k], run.rpr, under) OBVIOUS
<1>6. \A k \in 1 .. Len(run.kids) : WordsOfPiece(run.kids[k], run.rpr, under) \in Seq(WordSet)
  BY <1>1, <1>2, WordsOfPieceType
<1>7. words \in Seq(Seq(WordSet)) /\ Len(words) = Len(run.kids)
  <2> DEFINE S == Seq(WordSet)
  <2>1. words \in [1 .. Len(run.kids) -> S] BY <1>2, <1>5, <1>6
  <2> HIDE DEF words, S
  <2>2. words \in Seq(S) BY <1>2, <2>1
  <2>3. Len(words) \in Nat /\ DOMAIN words = 1 .. Len(words) BY <2>2, LenProperties
  <2>4. 1 .. Len(words) = 1 .. Len(run.kids) BY <1>4, <2>3
  <2>5. Len(words) = Len(run.kids) BY <1>2, <2>3, <2>4, SameInterval
  <2>6. QED BY <2>2, <2>5 DEF S
<1> HIDE DEF words
<1>8. ASSUME NEW w \in ToSet(WordsOfRun(run, under))
      PROVE  \E k \in DOMAIN run.kids : \E j \in DOMAIN run.kids[k].text :
               w = [word |-> run.kids[k].text[j], tag |-> run.kids[k].tag, rpr |-> run.rpr,
                    under |-> under]
  <2>1. w \in ToSet(FlattenSeq(words)) BY <1>3
  <2>2. \E k \in DOMAIN words : w \in ToSet(words[k]) BY <1>7, <2>1, MembersOfFlat
  <2>3. PICK k \in DOMAIN run.kids : w \in ToSet(WordsOfPiece(run.kids[k], run.rpr, under))
    BY <1>2, <1>4, <1>5, <2>2
  <2>4. QED BY <2>3 DEF ToSet, WordsOfPiece
<1>9. ASSUME NEW k \in DOMAIN run.kids, NEW j \in DOMAIN run.kids[k].text
      PROVE  [word |-> run.kids[k].text[j], tag |-> run.kids[k].tag, rpr |-> run.rpr,
              under |-> under] \in ToSet(WordsOfRun(run, under))
  <2>1. [word |-> run.kids[k].text[j], tag |-> run.kids[k].tag, rpr |-> run.rpr,
         under |-> under] \in ToSet(WordsOfPiece(run.kids[k], run.rpr, under))
    BY DEF ToSet, WordsOfPiece
  <2>2. k \in 1 .. Len(words) BY <1>2, <1>7
  <2>3. ToSet(words[k]) \subseteq ToSet(FlattenSeq(words)) BY <1>7, <2>2, FlatHasMembers
  <2>4. QED BY <1>3, <1>5, <2>1, <2>3
<1>10. QED BY <1>8, <1>9

(* One token for another: a run with pieces of other names, or the same.   *)
Retagged(x, y, from, to) ==
  IF x.tag = "r"
  THEN /\ y.tag = "r"
       /\ \A u, v \in SUBSET TrackedChanges : \A w2 \in ToSet(WordsOfRun(y, v)) :
            /\ w2.under = v
            /\ \E w \in ToSet(WordsOfRun(x, u)) :
                 w.under = u /\ w2.tag = IF w.tag = from THEN to ELSE w.tag
  ELSE y = x

LEMMA RetaggedItself ==
  ASSUME NEW x \in WordTokens, NEW tag
  PROVE  Retagged(x, x, tag, tag)
<1>1. CASE x.tag = "r"
  <2>1. ASSUME NEW u \in SUBSET TrackedChanges, NEW v \in SUBSET TrackedChanges,
               NEW w2 \in ToSet(WordsOfRun(x, v))
        PROVE  /\ w2.under = v
               /\ \E w \in ToSet(WordsOfRun(x, u)) :
                    w.under = u /\ w2.tag = IF w.tag = tag THEN tag ELSE w.tag
    <3>1. PICK k \in DOMAIN x.kids : \E j \in DOMAIN x.kids[k].text :
            w2 = [word |-> x.kids[k].text[j], tag |-> x.kids[k].tag, rpr |-> x.rpr, under |-> v]
      BY <1>1, <2>1, WordsOfRunMembers
    <3>2. PICK j \in DOMAIN x.kids[k].text :
            w2 = [word |-> x.kids[k].text[j], tag |-> x.kids[k].tag, rpr |-> x.rpr, under |-> v]
      BY <3>1
    <3> DEFINE w == [word |-> x.kids[k].text[j], tag |-> x.kids[k].tag, rpr |-> x.rpr, under |-> u]
    <3>3. w \in ToSet(WordsOfRun(x, u)) BY <1>1, WordsOfRunMembers
    <3>4. w.under = u /\ w2.under = v /\ w2.tag = w.tag BY <3>2
    <3> HIDE DEF w
    <3>5. QED BY <3>3, <3>4
  <2>2. QED BY <1>1, <2>1 DEF Retagged
<1>2. CASE x.tag # "r" BY <1>2 DEF Retagged
<1>3. QED BY <1>1, <1>2

LEMMA RetaggedRenamed ==
  ASSUME NEW x \in WordTokens, NEW from, NEW to \in PieceTags
  PROVE  Retagged(x, RenamedToken(x, from, to), from, to)
<1> DEFINE y == RenamedToken(x, from, to)
<1>1. CASE x.tag = "r"
  <2>1. y \in WordTokens /\ y.tag = "r" BY <1>1, RenamedTokenType
  <2>2. /\ x.kids \in Seq(Pieces) /\ x = [tag |-> "r", rpr |-> x.rpr, kids |-> x.kids]
    BY <1>1 DEF WordTokens
  <2>3. \A k \in DOMAIN x.kids : x.kids[k] \in Pieces BY <2>2, LenProperties, ElementOfSeq
  <2> DEFINE one(piece) == IF piece.tag = from THEN Piece(to, piece.text, FALSE) ELSE piece
             kids == [k \in DOMAIN x.kids |-> one(x.kids[k])]
  <2>4. y = [x EXCEPT !.kids = kids] BY <1>1 DEF RenamedToken
  <2>5. y.kids = kids
    <3> HIDE DEF kids, y
    <3>1. QED BY <2>2, <2>4
  <2>6. \A piece \in Pieces :
          one(piece).text = piece.text /\ one(piece).tag = IF piece.tag = from THEN to ELSE piece.tag
    BY DEF Piece
  <2> HIDE DEF one
  <2>7. /\ DOMAIN y.kids = DOMAIN x.kids
        /\ \A k \in DOMAIN x.kids :
             /\ y.kids[k].text = x.kids[k].text
             /\ y.kids[k].tag = IF x.kids[k].tag = from THEN to ELSE x.kids[k].tag
    BY <2>3, <2>5, <2>6
  <2> HIDE DEF y
  <2>8. ASSUME NEW u \in SUBSET TrackedChanges, NEW v \in SUBSET TrackedChanges,
               NEW w2 \in ToSet(WordsOfRun(y, v))
        PROVE  /\ w2.under = v
               /\ \E w \in ToSet(WordsOfRun(x, u)) :
                    w.under = u /\ w2.tag = IF w.tag = from THEN to ELSE w.tag
    <3>1. PICK k \in DOMAIN y.kids : \E j \in DOMAIN y.kids[k].text :
            w2 = [word |-> y.kids[k].text[j], tag |-> y.kids[k].tag, rpr |-> y.rpr, under |-> v]
      BY <2>1, <2>8, WordsOfRunMembers
    <3>2. PICK j \in DOMAIN y.kids[k].text :
            w2 = [word |-> y.kids[k].text[j], tag |-> y.kids[k].tag, rpr |-> y.rpr, under |-> v]
      BY <3>1
    <3> DEFINE w == [word |-> x.kids[k].text[j], tag |-> x.kids[k].tag, rpr |-> x.rpr, under |-> u]
    <3>3. k \in DOMAIN x.kids /\ j \in DOMAIN x.kids[k].text BY <2>7
    <3>4. w \in ToSet(WordsOfRun(x, u)) BY <1>1, <3>3, WordsOfRunMembers
    <3>5. w.under = u /\ w2.under = v /\ w2.tag = IF w.tag = from THEN to ELSE w.tag
      BY <2>7, <3>2, <3>3
    <3> HIDE DEF w
    <3>6. QED BY <3>4, <3>5
  <2>9. QED BY <1>1, <2>1, <2>8 DEF Retagged, y
<1>2. CASE x.tag # "r" BY <1>2, RenamedTokenType DEF Retagged
<1>3. QED BY <1>1, <1>2

(* What is no run adds no words, and opens and ends the same anywhere.     *)
LEMMA NoRunReads ==
  ASSUME NEW token \in WordTokens, token.tag # "r", NEW a \in Readings, NEW b \in Readings
  PROVE  /\ Read(a, token).words = a.words
         /\ \A c \in TrackedChanges :
              Read(a, token).open[c] - a.open[c] = Read(b, token).open[c] - b.open[c]
<1>1. /\ a.open \in [TrackedChanges -> Int] /\ a = [open |-> a.open, words |-> a.words]
      /\ b.open \in [TrackedChanges -> Int] /\ b = [open |-> b.open, words |-> b.words]
  BY DEF Readings
<1>2. CASE token.tag \in {"start", "end"}
  <2> DEFINE c == token.change
             step == IF token.tag = "start" THEN 1 ELSE -1
  <2>1. c \in TrackedChanges BY <1>2 DEF WordTokens
  <2>2. step \in Int OBVIOUS
  <2>3. /\ Read(a, token) = [open |-> [a.open EXCEPT ![c] = @ + step], words |-> a.words]
        /\ Read(b, token) = [open |-> [b.open EXCEPT ![c] = @ + step], words |-> b.words]
    <3>1. CASE token.tag = "start" BY <1>1, <3>1 DEF Read
    <3>2. CASE token.tag = "end"
      <4>1. step = -1 BY <3>2
      <4>2. /\ Read(a, token) = [open |-> [a.open EXCEPT ![c] = @ - 1], words |-> a.words]
            /\ Read(b, token) = [open |-> [b.open EXCEPT ![c] = @ - 1], words |-> b.words]
        BY <1>1, <3>2 DEF Read
      <4>3. [a.open EXCEPT ![c] = @ - 1] = [a.open EXCEPT ![c] = @ + (-1)]
        BY <1>1, <2>1
      <4>4. [b.open EXCEPT ![c] = @ - 1] = [b.open EXCEPT ![c] = @ + (-1)]
        BY <1>1, <2>1
      <4>5. QED BY <4>1, <4>2, <4>3, <4>4
    <3>3. QED BY <1>2, <3>1, <3>2
  <2> HIDE DEF step, c
  <2>4. \A d \in TrackedChanges :
          /\ Read(a, token).open[d] = IF d = c THEN a.open[d] + step ELSE a.open[d]
          /\ Read(b, token).open[d] = IF d = c THEN b.open[d] + step ELSE b.open[d]
    BY <1>1, <2>1, <2>3
  <2>5. ASSUME NEW d \in TrackedChanges
        PROVE  Read(a, token).open[d] - a.open[d] = Read(b, token).open[d] - b.open[d]
    <3>1. a.open[d] \in Int /\ b.open[d] \in Int BY <1>1
    <3>2. QED BY <2>2, <2>4, <3>1
  <2>6. QED BY <2>3, <2>5
<1>3. CASE token.tag \notin {"start", "end"}
  <2>1. Read(a, token) = a /\ Read(b, token) = b BY <1>3 DEF Read
  <2>2. \A c \in TrackedChanges : a.open[c] - a.open[c] = b.open[c] - b.open[c] BY <1>1
  <2>3. QED BY <2>1, <2>2
<1>4. QED BY <1>2, <1>3

-----------------------------------------------------------------------------
(* A text read after p and, with its runs retagged, after p2.              *)

OpenAfter(p) == ReadAll(p).open

WordsAfter(p) == ToSet(ReadAll(p).words)

Drifts(p, p2, q, q2) ==
  \A c \in TrackedChanges :
    OpenAfter(p2 \o q2)[c] - OpenAfter(p2)[c] = OpenAfter(p \o q)[c] - OpenAfter(p)[c]

(* w2, told after p2, is w, told after p: under the same changes but for   *)
(* those open a different number of times.                                 *)
ToldAs(w, w2, p, p2, from, to) ==
  /\ w2.tag = IF w.tag = from THEN to ELSE w.tag
  /\ \A c \in TrackedChanges :
       /\ OpenAfter(p)[c] <= OpenAfter(p2)[c] /\ c \in w.under => c \in w2.under
       /\ OpenAfter(p2)[c] <= OpenAfter(p)[c] /\ c \in w2.under => c \in w.under

Retold(p, p2, q, q2, from, to) ==
  \A w2 \in WordsAfter(p2 \o q2) :
    \/ w2 \in WordsAfter(p2)
    \/ \E w \in WordsAfter(p \o q) : ToldAs(w, w2, p, p2, from, to)

LEMMA ReadAllType ==
  ASSUME NEW p \in Seq(WordTokens)
  PROVE  /\ ReadAll(p) \in Readings /\ OpenAfter(p) \in [TrackedChanges -> Int]
         /\ ReadAll(p).words \in Seq(WordSet)
<1>1. ReadAll(p) \in Readings BY ReadNext
<1>2. QED BY <1>1 DEF Readings, OpenAfter

(* One token more.                                                         *)
LEMMA ReadOneMore ==
  ASSUME NEW p \in Seq(WordTokens), NEW x \in WordTokens
  PROVE  /\ x.tag = "r" =>
              /\ InForce(OpenAfter(p)) \in SUBSET TrackedChanges
              /\ OpenAfter(Append(p, x)) = OpenAfter(p)
              /\ WordsAfter(Append(p, x)) =
                   WordsAfter(p) \cup ToSet(WordsOfRun(x, InForce(OpenAfter(p))))
         /\ x.tag # "r" => WordsAfter(Append(p, x)) = WordsAfter(p)
<1> DEFINE seen == ReadAll(p)
<1>1. seen \in Readings BY ReadAllType
<1>2. ReadAll(Append(p, x)) = Read(seen, x) BY ReadNext
<1> HIDE DEF seen
<1>3. CASE x.tag = "r"
  <2> DEFINE under == InForce(seen.open)
  <2>1. /\ under \in SUBSET TrackedChanges
        /\ Read(seen, x) = [open |-> seen.open, words |-> seen.words \o WordsOfRun(x, under)]
    BY <1>1, <1>3, RunReads
  <2> HIDE DEF under
  <2>2. seen.words \in Seq(WordSet) /\ WordsOfRun(x, under) \in Seq(WordSet)
    BY <1>1, <1>3, <2>1, WordsOfRunType DEF Readings
  <2>3. ToSet(seen.words \o WordsOfRun(x, under)) = ToSet(seen.words) \cup ToSet(WordsOfRun(x, under))
    BY <2>2, MembersOfConcat
  <2>4. /\ OpenAfter(Append(p, x)) = seen.open
        /\ WordsAfter(Append(p, x)) = ToSet(seen.words \o WordsOfRun(x, under))
    BY <1>2, <2>1 DEF OpenAfter, WordsAfter
  <2>5. OpenAfter(p) = seen.open /\ WordsAfter(p) = ToSet(seen.words) BY DEF OpenAfter, WordsAfter, seen
  <2>6. QED BY <1>3, <2>1, <2>3, <2>4, <2>5 DEF under
<1>4. CASE x.tag # "r"
  <2>1. Read(seen, x).words = seen.words BY <1>1, <1>4, NoRunReads
  <2>2. QED BY <1>2, <1>4, <2>1 DEF WordsAfter, seen
<1>5. QED BY <1>3, <1>4

LEMMA RetellsOneMore ==
  ASSUME NEW from, NEW to, NEW p \in Seq(WordTokens), NEW p2 \in Seq(WordTokens),
         NEW a \in Seq(WordTokens), NEW a2 \in Seq(WordTokens),
         NEW x \in WordTokens, NEW x2 \in WordTokens, Retagged(x, x2, from, to),
         Drifts(p, p2, a, a2), Retold(p, p2, a, a2, from, to)
  PROVE  /\ Drifts(p, p2, Append(a, x), Append(a2, x2))
         /\ Retold(p, p2, Append(a, x), Append(a2, x2), from, to)
<1> DEFINE s == p \o a
           s2 == p2 \o a2
<1>1. s \in Seq(WordTokens) /\ s2 \in Seq(WordTokens) BY ConcatProperties
<1>2. p \o Append(a, x) = Append(s, x) /\ p2 \o Append(a2, x2) = Append(s2, x2)
  BY SMTT(20), AppendToConcat
<1>3. /\ \A c \in TrackedChanges : OpenAfter(s2)[c] - OpenAfter(p2)[c] = OpenAfter(s)[c] - OpenAfter(p)[c]
      /\ \A w2 \in WordsAfter(s2) :
           \/ w2 \in WordsAfter(p2)
           \/ \E w \in WordsAfter(s) : ToldAs(w, w2, p, p2, from, to)
  BY DEF Drifts, Retold
<1> DEFINE t == Append(s, x)
           t2 == Append(s2, x2)
<1> SUFFICES /\ \A c \in TrackedChanges :
                  OpenAfter(t2)[c] - OpenAfter(p2)[c] = OpenAfter(t)[c] - OpenAfter(p)[c]
             /\ \A w2 \in WordsAfter(t2) :
                  \/ w2 \in WordsAfter(p2)
                  \/ \E w \in WordsAfter(t) : ToldAs(w, w2, p, p2, from, to)
  BY <1>2 DEF Drifts, Retold
<1> HIDE DEF s, s2
<1>4. /\ OpenAfter(s) \in [TrackedChanges -> Int] /\ OpenAfter(s2) \in [TrackedChanges -> Int]
      /\ OpenAfter(p) \in [TrackedChanges -> Int] /\ OpenAfter(p2) \in [TrackedChanges -> Int]
  BY <1>1, ReadAllType
<1>5. CASE x.tag = "r"
  <2> DEFINE u == InForce(OpenAfter(s))
             v == InForce(OpenAfter(s2))
  <2>1. x2.tag = "r" BY <1>5 DEF Retagged
  <2>2. /\ u \in SUBSET TrackedChanges /\ OpenAfter(t) = OpenAfter(s)
        /\ WordsAfter(t) = WordsAfter(s) \cup ToSet(WordsOfRun(x, u))
    BY <1>1, <1>5, ReadOneMore
  <2>3. /\ v \in SUBSET TrackedChanges /\ OpenAfter(t2) = OpenAfter(s2)
        /\ WordsAfter(t2) = WordsAfter(s2) \cup ToSet(WordsOfRun(x2, v))
    BY <1>1, <2>1, ReadOneMore
  <2> HIDE DEF t, t2, u, v
  <2>4. ASSUME NEW w2 \in ToSet(WordsOfRun(x2, v))
        PROVE  \E w \in WordsAfter(t) : ToldAs(w, w2, p, p2, from, to)
    <3>1. PICK w \in ToSet(WordsOfRun(x, u)) :
            w2.under = v /\ w.under = u /\ w2.tag = IF w.tag = from THEN to ELSE w.tag
      <4> DEFINE alike(y, z) ==
                   \A w_2 \in ToSet(WordsOfRun(x2, z)) :
                     /\ w_2.under = z
                     /\ \E w \in ToSet(WordsOfRun(x, y)) :
                          w.under = y /\ w_2.tag = IF w.tag = from THEN to ELSE w.tag
      <4>1. \A y, z \in SUBSET TrackedChanges : alike(y, z) BY <1>5 DEF Retagged
      <4>2. u \in SUBSET TrackedChanges /\ v \in SUBSET TrackedChanges BY <2>2, <2>3
      <4>3. alike(u, v)
        <5> HIDE DEF alike
        <5>1. QED BY <4>1, <4>2
      <4>4. w2 \in ToSet(WordsOfRun(x2, v)) BY <2>4
      <4>5. QED BY <4>3, <4>4
    <3>2. ASSUME NEW c \in TrackedChanges
          PROVE  /\ OpenAfter(p)[c] <= OpenAfter(p2)[c] /\ c \in u => c \in v
                 /\ OpenAfter(p2)[c] <= OpenAfter(p)[c] /\ c \in v => c \in u
      <4>1. /\ OpenAfter(s)[c] \in Int /\ OpenAfter(s2)[c] \in Int
            /\ OpenAfter(p)[c] \in Int /\ OpenAfter(p2)[c] \in Int
        BY <1>4
      <4>2. OpenAfter(s2)[c] - OpenAfter(p2)[c] = OpenAfter(s)[c] - OpenAfter(p)[c] BY <1>3
      <4>3. (c \in u <=> OpenAfter(s)[c] > 0) /\ (c \in v <=> OpenAfter(s2)[c] > 0) BY DEF u, v, InForce
      <4>4. QED BY <4>1, <4>2, <4>3
    <3>3. ToldAs(w, w2, p, p2, from, to) BY <3>1, <3>2 DEF ToldAs
    <3>4. QED BY <2>2, <3>3
  <2>5. QED BY <1>3, <2>2, <2>3, <2>4
<1>6. CASE x.tag # "r"
  <2>1. x2 = x /\ x2.tag # "r" BY <1>6 DEF Retagged
  <2>2. WordsAfter(t) = WordsAfter(s) /\ WordsAfter(t2) = WordsAfter(s2)
    BY <1>1, <1>6, <2>1, ReadOneMore
  <2>3. ASSUME NEW c \in TrackedChanges
        PROVE  OpenAfter(t2)[c] - OpenAfter(p2)[c] = OpenAfter(t)[c] - OpenAfter(p)[c]
    <3>1. /\ ReadAll(t) = Read(ReadAll(s), x) /\ ReadAll(t2) = Read(ReadAll(s2), x)
          /\ ReadAll(s) \in Readings /\ ReadAll(s2) \in Readings
      BY <1>1, <2>1, ReadNext
    <3>2. t \in Seq(WordTokens) /\ t2 \in Seq(WordTokens) BY <1>1, AppendProperties
    <3> HIDE DEF t, t2
    <3>3. OpenAfter(t)[c] - OpenAfter(s)[c] = OpenAfter(t2)[c] - OpenAfter(s2)[c]
      BY <1>6, <3>1, NoRunReads DEF OpenAfter
    <3>4. OpenAfter(t)[c] \in Int /\ OpenAfter(t2)[c] \in Int BY <3>2, ReadAllType
    <3>5. /\ OpenAfter(s)[c] \in Int /\ OpenAfter(s2)[c] \in Int
          /\ OpenAfter(p)[c] \in Int /\ OpenAfter(p2)[c] \in Int
      BY <1>4
    <3>6. OpenAfter(s2)[c] - OpenAfter(p2)[c] = OpenAfter(s)[c] - OpenAfter(p)[c] BY <1>3
    <3> DEFINE now == OpenAfter(t)[c]
               now2 == OpenAfter(t2)[c]
               was == OpenAfter(s)[c]
               was2 == OpenAfter(s2)[c]
               first == OpenAfter(p)[c]
               first2 == OpenAfter(p2)[c]
    <3>7. /\ now \in Int /\ now2 \in Int /\ was \in Int /\ was2 \in Int /\ first \in Int /\ first2 \in Int
          /\ now - was = now2 - was2 /\ was2 - first2 = was - first
      BY <3>3, <3>4, <3>5, <3>6
    <3> HIDE DEF now, now2, was, was2, first, first2
    <3>8. now2 - first2 = now - first BY <3>7
    <3>9. QED BY <3>8 DEF now, now2, first, first2
  <2>4. QED BY <1>3, <2>2, <2>3
<1>7. QED BY <1>5, <1>6

LEMMA Retells ==
  ASSUME NEW from, NEW to, NEW p \in Seq(WordTokens), NEW p2 \in Seq(WordTokens),
         NEW q \in Seq(WordTokens), NEW q2 \in Seq(WordTokens), Len(q2) = Len(q),
         \A n \in 1 .. Len(q) : Retagged(q[n], q2[n], from, to)
  PROVE  Drifts(p, p2, q, q2) /\ Retold(p, p2, q, q2, from, to)
<1> DEFINE first(u, n) == SubSeq(u, 1, n)
           told(n) == /\ Drifts(p, p2, first(q, n), first(q2, n))
                      /\ Retold(p, p2, first(q, n), first(q2, n), from, to)
           good == {n \in 0 .. Len(q) : told(n)}
<1>1. Len(q) \in Nat BY LenProperties
<1>2. 0 \in good
  <2>1. first(q, 0) = <<>> /\ first(q2, 0) = <<>> BY SubSeqEmpty
  <2>2. p \o <<>> = p /\ p2 \o <<>> = p2 BY ConcatEmptySeq
  <2>3. \A c \in TrackedChanges : OpenAfter(p)[c] \in Int /\ OpenAfter(p2)[c] \in Int BY ReadAllType
  <2>4. \A c \in TrackedChanges : OpenAfter(p2)[c] - OpenAfter(p2)[c] = OpenAfter(p)[c] - OpenAfter(p)[c]
    BY <2>3
  <2> HIDE DEF first
  <2>5. told(0) BY <2>1, <2>2, <2>4 DEF Drifts, Retold
  <2> HIDE DEF told
  <2>6. QED BY <1>1, <2>5
<1>3. ASSUME NEW n \in 1 .. Len(q), n - 1 \in good PROVE n \in good
  <2>1. /\ first(q, n - 1) \in Seq(WordTokens) /\ q[n] \in WordTokens
        /\ first(q, n) = Append(first(q, n - 1), q[n])
    BY FirstOnes
  <2>2. /\ first(q2, n - 1) \in Seq(WordTokens) /\ q2[n] \in WordTokens
        /\ first(q2, n) = Append(first(q2, n - 1), q2[n])
    BY FirstOnes
  <2> HIDE DEF first
  <2>3. /\ Drifts(p, p2, first(q, n - 1), first(q2, n - 1))
        /\ Retold(p, p2, first(q, n - 1), first(q2, n - 1), from, to)
        /\ Retagged(q[n], q2[n], from, to)
    BY <1>3
  <2>4. told(n) BY <2>1, <2>2, <2>3, RetellsOneMore
  <2> HIDE DEF told
  <2>5. n \in 0 .. Len(q) BY <1>1
  <2>6. QED BY <2>4, <2>5
<1>4. \A n \in 0 .. Len(q) : n \in good
  <2> HIDE DEF good
  <2>1. QED BY <1>1, <1>2, <1>3, LoopKeeps
<1>5. told(Len(q))
  <2> HIDE DEF told
  <2>1. Len(q) \in 0 .. Len(q) BY <1>1
  <2>2. QED BY <1>4, <2>1
<1>6. first(q, Len(q)) = q /\ first(q2, Len(q)) = q2 BY SubSeqFull
<1> HIDE DEF first
<1>7. QED BY <1>5, <1>6

-----------------------------------------------------------------------------
(* What a step of the reading does to the open changes and to the words.   *)

LEMMA WordTypes ==
  ASSUME NEW p \in Seq(WordTokens)
  PROVE  WordsAfter(p) \subseteq WordSet
<1>1. ReadAll(p).words \in Seq(WordSet) BY ReadAllType
<1> DEFINE words == ReadAll(p).words
<1> HIDE DEF words
<1>2. \A k \in DOMAIN words : words[k] \in WordSet BY <1>1, LenProperties, ElementOfSeq DEF words
<1>3. ToSet(words) \subseteq WordSet BY <1>2 DEF ToSet
<1>4. QED BY <1>3 DEF WordsAfter, words

LEMMA OpenNext ==
  ASSUME NEW p \in Seq(WordTokens), NEW tag \in {"ins", "del"}, NEW a \in Writers
  PROVE  /\ Append(p, Start(tag, a)) \in Seq(WordTokens)
         /\ Append(p, End(tag, a)) \in Seq(WordTokens)
         /\ OpenAfter(Append(p, Start(tag, a))) = [OpenAfter(p) EXCEPT ![<<tag, a>>] = @ + 1]
         /\ OpenAfter(Append(p, End(tag, a))) = [OpenAfter(p) EXCEPT ![<<tag, a>>] = @ - 1]
         /\ WordsAfter(Append(p, Start(tag, a))) = WordsAfter(p)
         /\ WordsAfter(Append(p, End(tag, a))) = WordsAfter(p)
<1> DEFINE first == Start(tag, a)
           last == End(tag, a)
           seen == ReadAll(p)
<1>1. first \in WordTokens /\ last \in WordTokens
  <2>1. <<>> \in Seq(WordTokens) OBVIOUS
  <2>2. QED BY <2>1, ChangeType
<1>2. /\ first.tag = "start" /\ last.tag = "end" /\ first.change = <<tag, a>> /\ last.change = <<tag, a>>
  BY DEF Start, End
<1> HIDE DEF first, last
<1>3. seen \in Readings BY ReadAllType
<1>4. ReadAll(Append(p, first)) = Read(seen, first) /\ ReadAll(Append(p, last)) = Read(seen, last)
  BY <1>1, ReadNext
<1>5. seen = [open |-> seen.open, words |-> seen.words] BY <1>3 DEF Readings
<1>6. OpenAfter(p) = seen.open BY DEF OpenAfter
<1> HIDE DEF seen
<1>7. /\ Read(seen, first).open = [seen.open EXCEPT ![<<tag, a>>] = @ + 1]
      /\ Read(seen, last).open = [seen.open EXCEPT ![<<tag, a>>] = @ - 1]
  BY <1>2, <1>5 DEF Read
<1>8. /\ OpenAfter(Append(p, first)) = [OpenAfter(p) EXCEPT ![<<tag, a>>] = @ + 1]
      /\ OpenAfter(Append(p, last)) = [OpenAfter(p) EXCEPT ![<<tag, a>>] = @ - 1]
  BY <1>4, <1>6, <1>7 DEF OpenAfter
<1>9. WordsAfter(Append(p, first)) = WordsAfter(p) /\ WordsAfter(Append(p, last)) = WordsAfter(p)
  BY <1>1, <1>2, ReadOneMore
<1>10. Append(p, first) \in Seq(WordTokens) /\ Append(p, last) \in Seq(WordTokens)
  BY <1>1, AppendProperties
<1>11. QED BY <1>8, <1>9, <1>10 DEF first, last

(* A change after p: its start, what is inside, its end.                   *)
LEMMA ChangeReads ==
  ASSUME NEW p \in Seq(WordTokens), NEW tag \in {"ins", "del"}, NEW a \in Writers,
         NEW inside \in Seq(WordTokens)
  PROVE  /\ Append(p, Start(tag, a)) \o inside \in Seq(WordTokens)
         /\ WordsAfter(p \o Change(tag, a, inside)) = WordsAfter(Append(p, Start(tag, a)) \o inside)
         /\ OpenAfter(p \o Change(tag, a, inside)) =
              [OpenAfter(Append(p, Start(tag, a)) \o inside) EXCEPT ![<<tag, a>>] = @ - 1]
<1> DEFINE first == Start(tag, a)
           last == End(tag, a)
           one == <<first>>
           s == Append(p, first) \o inside
<1>1. /\ first \in WordTokens /\ last \in WordTokens
      /\ one \o inside \in Seq(WordTokens)
      /\ Change(tag, a, inside) = Append(one \o inside, last)
  BY ChangeType
<1>2. one \in Seq(WordTokens) BY <1>1
<1>3. Append(p, first) = p \o one /\ p \o one \in Seq(WordTokens)
  <2>1. Append(p, first) = p \o one BY <1>1, AppendIsConcat
  <2> HIDE DEF one, first
  <2>2. p \o one \in Seq(WordTokens) BY <1>2, ConcatProperties
  <2>3. QED BY <2>1, <2>2
<1>4. p \o Change(tag, a, inside) = Append(p \o (one \o inside), last)
  <2> DEFINE rest == one \o inside
  <2> HIDE DEF rest, last
  <2>1. p \o Append(rest, last) = Append(p \o rest, last) BY <1>1, AppendToConcat DEF rest
  <2>2. QED BY <1>1, <2>1 DEF rest
<1> HIDE DEF one
<1>5. (p \o one) \o inside = p \o (one \o inside) BY <1>2, ConcatAssociative
<1>6. s \in Seq(WordTokens) /\ s = p \o (one \o inside)
  <2> DEFINE begun == p \o one
  <2>1. begun \in Seq(WordTokens) /\ s = begun \o inside BY <1>3
  <2> HIDE DEF begun, s
  <2>2. begun \o inside \in Seq(WordTokens) BY <2>1, ConcatProperties
  <2>3. QED BY <1>5, <2>1, <2>2 DEF begun
<1> HIDE DEF s, last, first
<1>7. p \o Change(tag, a, inside) = Append(s, End(tag, a)) BY <1>4, <1>6 DEF last
<1>8. /\ OpenAfter(Append(s, End(tag, a))) = [OpenAfter(s) EXCEPT ![<<tag, a>>] = @ - 1]
      /\ WordsAfter(Append(s, End(tag, a))) = WordsAfter(s)
  <2>1. s \in Seq(WordTokens) BY <1>6
  <2>2. QED BY <2>1, OpenNext
<1>9. QED BY <1>6, <1>7, <1>8 DEF s, first

LEMMA WordsGrow ==
  ASSUME NEW p \in Seq(WordTokens), NEW q \in Seq(WordTokens)
  PROVE  WordsAfter(p) \subseteq WordsAfter(p \o q)
<1> DEFINE good == {t \in Seq(WordTokens) : WordsAfter(p) \subseteq WordsAfter(p \o t)}
<1>1. <<>> \in good
  <2>1. p \o <<>> = p BY ConcatEmptySeq
  <2>2. <<>> \in Seq(WordTokens) OBVIOUS
  <2>3. QED BY <2>1, <2>2
<1>2. ASSUME NEW t \in Seq(WordTokens), NEW x \in WordTokens, t \in good PROVE Append(t, x) \in good
  <2> DEFINE s == p \o t
  <2>1. s \in Seq(WordTokens) BY ConcatProperties
  <2>2. p \o Append(t, x) = Append(s, x) BY AppendToConcat
  <2>3. WordsAfter(p) \subseteq WordsAfter(s) BY <1>2
  <2>4. Append(t, x) \in Seq(WordTokens) BY AppendProperties
  <2> HIDE DEF s
  <2>5. WordsAfter(s) \subseteq WordsAfter(Append(s, x)) BY <2>1, ReadOneMore
  <2>6. QED BY <2>2, <2>3, <2>4, <2>5
<1>3. \A t \in Seq(WordTokens) : t \in good
  <2> HIDE DEF good
  <2>1. QED BY <1>1, <1>2, SeqKeeps
<1>4. QED BY <1>3

(* Where no change starts or ends all words are under the same changes.    *)
LEMMA PlainWords ==
  ASSUME NEW p \in Seq(WordTokens), NEW q \in Seq(WordTokens), ~HoldsChange(q)
  PROVE  /\ OpenAfter(p \o q) = OpenAfter(p)
         /\ \A w \in WordsAfter(p \o q) : w \in WordsAfter(p) \/ w.under = InForce(OpenAfter(p))
<1> DEFINE open == OpenAfter(p)
           kept(s) == /\ OpenAfter(s) = open
                      /\ \A w \in WordsAfter(s) : w \in WordsAfter(p) \/ w.under = InForce(open)
           first(n) == SubSeq(q, 1, n)
           good == {n \in 0 .. Len(q) : kept(p \o first(n))}
<1>1. Len(q) \in Nat /\ DOMAIN q = 1 .. Len(q) BY LenProperties
<1>2. 0 \in good
  <2>1. first(0) = <<>> BY SubSeqEmpty
  <2>2. p \o <<>> = p BY ConcatEmptySeq
  <2>3. kept(p) OBVIOUS
  <2> HIDE DEF first
  <2>4. p \o first(0) = p BY <2>1, <2>2
  <2>5. kept(p \o first(0)) BY <2>3, <2>4
  <2> HIDE DEF kept
  <2>6. QED BY <1>1, <2>5
<1>3. ASSUME NEW n \in 1 .. Len(q), n - 1 \in good PROVE n \in good
  <2> DEFINE t == first(n - 1)
             x == q[n]
             s == p \o t
  <2>1. t \in Seq(WordTokens) /\ x \in WordTokens /\ first(n) = Append(t, x) BY FirstOnes
  <2>2. x.tag \notin {"start", "end"} BY <1>1 DEF HoldsChange
  <2>3. kept(s) BY <1>3
  <2> HIDE DEF t, x, first
  <2>4. s \in Seq(WordTokens) BY <2>1, ConcatProperties
  <2>5. p \o first(n) = Append(s, x) BY <2>1, AppendToConcat
  <2> HIDE DEF s, open
  <2>6. CASE x.tag = "r"
    <3> DEFINE u == InForce(open)
    <3>1. /\ u \in SUBSET TrackedChanges /\ OpenAfter(Append(s, x)) = OpenAfter(s)
          /\ WordsAfter(Append(s, x)) = WordsAfter(s) \cup ToSet(WordsOfRun(x, u))
      BY <2>1, <2>3, <2>4, <2>6, ReadOneMore
    <3> HIDE DEF u
    <3>2. \A w \in ToSet(WordsOfRun(x, u)) : w.under = u 
      <4>1. x \in WordTokens /\ u \in SUBSET TrackedChanges BY <2>1, <3>1
      <4>2. ASSUME NEW w \in ToSet(WordsOfRun(x, u)) PROVE w.under = u
        <5>1. \E k \in DOMAIN x.kids : \E j \in DOMAIN x.kids[k].text :
                w = [word |-> x.kids[k].text[j], tag |-> x.kids[k].tag, rpr |-> x.rpr, under |-> u]
          BY <2>6, <4>1, <4>2, WordsOfRunMembers
        <5>2. QED BY <5>1
      <4>3. QED BY <4>2
    <3>3. kept(Append(s, x)) BY <2>3, <3>1, <3>2 DEF u
    <3>4. kept(p \o first(n)) BY <2>5, <3>3
    <3> HIDE DEF kept
    <3>5. n \in 0 .. Len(q) BY <1>1
    <3>6. QED BY <3>4, <3>5
  <2>7. CASE x.tag # "r"
    <3>1. WordsAfter(Append(s, x)) = WordsAfter(s) BY <2>1, <2>4, <2>7, ReadOneMore
    <3>2. ReadAll(Append(s, x)) = Read(ReadAll(s), x) BY <2>1, <2>4, ReadNext
    <3>3. OpenAfter(Append(s, x)) = OpenAfter(s) BY <2>2, <2>7, <3>2 DEF Read, OpenAfter
    <3>4. kept(Append(s, x)) BY <2>3, <3>1, <3>3
    <3>5. kept(p \o first(n)) BY <2>5, <3>4
    <3> HIDE DEF kept
    <3>6. n \in 0 .. Len(q) BY <1>1
    <3>7. QED BY <3>5, <3>6
  <2>8. QED BY <2>6, <2>7
<1>4. \A n \in 0 .. Len(q) : n \in good
  <2> HIDE DEF good
  <2>1. QED BY <1>1, <1>2, <1>3, LoopKeeps
<1>5. kept(p \o first(Len(q)))
  <2> HIDE DEF kept, first
  <2>1. Len(q) \in 0 .. Len(q) BY <1>1
  <2>2. QED BY <1>4, <2>1
<1>6. first(Len(q)) = q BY SubSeqFull
<1> HIDE DEF first
<1>7. QED BY <1>5, <1>6

-----------------------------------------------------------------------------
(* What may be written of a document that Me edits, right or wrong: only   *)
(* what is struck out, or Me's own, stands in w:delText, and Me strikes out*)
(* nothing that another has.                                               *)

Told(w) ==
  /\ w.tag \in {"t", "delText"}
  /\ w.tag # "t" => Under(w, "del") \/ <<"ins", Me>> \in w.under
  /\ <<"del", Me>> \in w.under => \A a \in Writers \ {Me} : <<"del", a>> \notin w.under

ToldIn(p) == \A w \in WordsAfter(p) : Told(w)

(* All told and no change open. *)
Settled(p) == ToldIn(p) /\ OpenAfter(p) = NothingOpen

LEMMA UnderSome ==
  ASSUME NEW w \in WordSet, NEW tag
  PROVE  /\ w.under \in SUBSET TrackedChanges
         /\ Under(w, tag) <=> \E a \in Writers : <<tag, a>> \in w.under
<1>1. w.under \in SUBSET TrackedChanges BY DEF WordSet
<1>2. ASSUME Under(w, tag) PROVE \E a \in Writers : <<tag, a>> \in w.under
  <2>1. PICK c \in w.under : c[1] = tag BY <1>2 DEF Under
  <2>2. c \in TrackedChanges BY <1>1, <2>1
  <2>3. c = <<c[1], c[2]>> /\ c[2] \in Writers BY <2>2 DEF TrackedChanges
  <2>4. QED BY <2>1, <2>3
<1>3. ASSUME NEW a \in Writers, <<tag, a>> \in w.under PROVE Under(w, tag)
  <2>1. <<tag, a>>[1] = tag OBVIOUS
  <2>2. QED BY <1>3, <2>1 DEF Under
<1>4. QED BY <1>1, <1>2, <1>3

(* What is told of a word is told of one like it, one that is under the    *)
(* same deletions and is alike under an insertion of Me.                   *)
LEMMA ToldAlike ==
  ASSUME NEW w \in WordSet, NEW w2 \in WordSet, Told(w), w2.tag = w.tag,
         \A a \in Writers : <<"del", a>> \in w2.under <=> <<"del", a>> \in w.under,
         <<"ins", Me>> \in w.under => <<"ins", Me>> \in w2.under
  PROVE  Told(w2)
<1>1. Me \in Writers BY DocxAssumption
<1>2. /\ Under(w, "del") <=> \E a \in Writers : <<"del", a>> \in w.under
      /\ Under(w2, "del") <=> \E a \in Writers : <<"del", a>> \in w2.under
  BY UnderSome
<1>3. Under(w, "del") => Under(w2, "del") BY <1>2
<1>4. QED BY <1>1, <1>3 DEF Told

(* What follows a settled part is told after another settled part as well. *)
LEMMA RestTold ==
  ASSUME NEW p \in Seq(WordTokens), NEW p2 \in Seq(WordTokens), NEW q \in Seq(WordTokens),
         Settled(p), Settled(p2), ToldIn(p \o q)
  PROVE  ToldIn(p2 \o q)
<1>1. \A n \in 1 .. Len(q) : Retagged(q[n], q[n], "t", "t")
  <2>1. \A n \in 1 .. Len(q) : q[n] \in WordTokens BY ElementOfSeq
  <2>2. QED BY <2>1, RetaggedItself
<1>2. Retold(p, p2, q, q, "t", "t") BY <1>1, Retells
<1> SUFFICES ASSUME NEW w2 \in WordsAfter(p2 \o q) PROVE Told(w2) BY DEF ToldIn
<1>3. CASE w2 \in WordsAfter(p2) BY <1>3 DEF Settled, ToldIn
<1>4. CASE \E w \in WordsAfter(p \o q) : ToldAs(w, w2, p, p2, "t", "t")
  <2>1. PICK w \in WordsAfter(p \o q) : ToldAs(w, w2, p, p2, "t", "t") BY <1>4
  <2>2. p \o q \in Seq(WordTokens) /\ p2 \o q \in Seq(WordTokens) BY ConcatProperties
  <2>3. w \in WordSet /\ w2 \in WordSet
    <3> DEFINE a == p \o q
               b == p2 \o q
    <3>1. a \in Seq(WordTokens) /\ b \in Seq(WordTokens) /\ w \in WordsAfter(a) /\ w2 \in WordsAfter(b)
      BY <2>1, <2>2
    <3> HIDE DEF a, b
    <3>2. QED BY <3>1, WordTypes
  <2>4. Told(w) BY <2>1 DEF ToldIn
  <2>5. \A c \in TrackedChanges : OpenAfter(p)[c] = 0 /\ OpenAfter(p2)[c] = 0
    BY DEF Settled, NothingOpen
  <2>6. w2.tag = w.tag /\ \A c \in TrackedChanges : c \in w.under <=> c \in w2.under
    BY <2>1, <2>5 DEF ToldAs
  <2>7. /\ <<"ins", Me>> \in TrackedChanges
        /\ \A a \in Writers : <<"del", a>> \in TrackedChanges
    BY DocxAssumption DEF TrackedChanges
  <2>8. /\ \A a \in Writers : <<"del", a>> \in w2.under <=> <<"del", a>> \in w.under
        /\ <<"ins", Me>> \in w.under => <<"ins", Me>> \in w2.under
    BY <2>6, <2>7
  <2>9. QED BY <2>3, <2>4, <2>6, <2>8, ToldAlike
<1>5. QED BY <1>2, <1>3, <1>4 DEF Retold

-----------------------------------------------------------------------------
(* Each of the editor's moves leaves a settled part settled.               *)

(* What is under changes where nothing but one is open, or two.            *)
LEMMA InForceOf ==
  ASSUME NEW p \in Seq(WordTokens), OpenAfter(p) = NothingOpen,
         NEW tag \in {"ins", "del"}, NEW a \in Writers
  PROVE  /\ InForce(OpenAfter(p)) = {}
         /\ InForce(OpenAfter(Append(p, Start(tag, a)))) = {<<tag, a>>}
         /\ \A tag2 \in {"ins", "del"}, b \in Writers : <<tag2, b>> # <<tag, a>> =>
              InForce(OpenAfter(Append(Append(p, Start(tag, a)), Start(tag2, b)))) =
                {<<tag, a>>, <<tag2, b>>}
<1> DEFINE s == Append(p, Start(tag, a))
           c == <<tag, a>>
<1>1. c \in TrackedChanges BY DEF TrackedChanges
<1>2. s \in Seq(WordTokens) /\ OpenAfter(s) = [OpenAfter(p) EXCEPT ![c] = @ + 1] BY OpenNext
<1> HIDE DEF s, c
<1>3. \A d \in TrackedChanges : OpenAfter(p)[d] = 0 BY DEF NothingOpen
<1>4. OpenAfter(p) \in [TrackedChanges -> Int] BY ReadAllType
<1>5. \A d \in TrackedChanges : OpenAfter(s)[d] = IF d = c THEN 1 ELSE 0 BY <1>1, <1>2, <1>3, <1>4
<1>6. InForce(OpenAfter(p)) = {} BY <1>3 DEF InForce
<1>7. InForce(OpenAfter(s)) = {c} BY <1>1, <1>5 DEF InForce
<1>8. ASSUME NEW tag2 \in {"ins", "del"}, NEW b \in Writers, <<tag2, b>> # c
      PROVE  InForce(OpenAfter(Append(s, Start(tag2, b)))) = {c, <<tag2, b>>}
  <2> DEFINE d == <<tag2, b>>
             t == Append(s, Start(tag2, b))
  <2>1. d \in TrackedChanges BY DEF TrackedChanges
  <2>2. OpenAfter(t) = [OpenAfter(s) EXCEPT ![d] = @ + 1]
    <3>1. s \in Seq(WordTokens) BY <1>2
    <3>2. QED BY <3>1, OpenNext
  <2>3. d # c BY <1>8
  <2> HIDE DEF d, t
  <2>4. OpenAfter(s) \in [TrackedChanges -> Int] BY <1>2, ReadAllType
  <2>5. \A e \in TrackedChanges : OpenAfter(t)[e] = IF e \in {c, d} THEN 1 ELSE 0
    BY <1>5, <2>1, <2>2, <2>3, <2>4
  <2>6. InForce(OpenAfter(t)) = {c, d} BY <1>1, <2>1, <2>5 DEF InForce
  <2>7. QED BY <2>6 DEF d, t
<1>9. QED BY <1>6, <1>7, <1>8 DEF s, c

(* After a change whose inside opens nothing more nothing more is open.    *)
LEMMA ChangeEnds ==
  ASSUME NEW p \in Seq(WordTokens), NEW tag \in {"ins", "del"}, NEW a \in Writers,
         NEW inside \in Seq(WordTokens), ToldIn(Append(p, Start(tag, a)) \o inside),
         OpenAfter(Append(p, Start(tag, a)) \o inside) = OpenAfter(Append(p, Start(tag, a)))
  PROVE  /\ ToldIn(p \o Change(tag, a, inside))
         /\ OpenAfter(p \o Change(tag, a, inside)) = OpenAfter(p)
<1> DEFINE c == <<tag, a>>
           s == Append(p, Start(tag, a))
           t == s \o inside
           q == p \o Change(tag, a, inside)
           was == OpenAfter(p)
<1>1. c \in TrackedChanges BY DEF TrackedChanges
<1>2. OpenAfter(s) = [was EXCEPT ![c] = @ + 1] BY OpenNext
<1>3. WordsAfter(q) = WordsAfter(t) /\ OpenAfter(q) = [OpenAfter(t) EXCEPT ![c] = @ - 1] BY ChangeReads
<1>4. OpenAfter(t) = OpenAfter(s) /\ ToldIn(t) OBVIOUS
<1>5. was \in [TrackedChanges -> Int] BY ReadAllType
<1> HIDE DEF s, t, q, c, was
<1>6. OpenAfter(q) = [[was EXCEPT ![c] = @ + 1] EXCEPT ![c] = @ - 1] BY <1>2, <1>3, <1>4
<1>7. OpenAfter(q) = was
  <2> DEFINE more == [was EXCEPT ![c] = @ + 1]
             back == [more EXCEPT ![c] = @ - 1]
  <2>1. more \in [TrackedChanges -> Int] BY <1>1, <1>5
  <2>2. more[c] = was[c] + 1 /\ \A d \in TrackedChanges : d # c => more[d] = was[d] BY <1>1, <1>5
  <2>3. was[c] \in Int BY <1>1, <1>5
  <2>4. OpenAfter(q) = back BY <1>6
  <2> HIDE DEF more
  <2>5. back \in [TrackedChanges -> Int] BY <1>1, <2>1
  <2>6. \A d \in TrackedChanges : back[d] = was[d] BY <1>1, <2>1, <2>2, <2>3
  <2> HIDE DEF back
  <2>7. back = was BY <1>5, <2>5, <2>6
  <2>8. QED BY <2>4, <2>7
<1>8. ToldIn(q) BY <1>3, <1>4 DEF ToldIn
<1>9. QED BY <1>7, <1>8 DEF q, was

(* A text with its runs retagged.                                          *)
Rewritten(q, q2, from, to) ==
  Len(q2) = Len(q) /\ \A n \in 1 .. Len(q) : Retagged(q[n], q2[n], from, to)

LEMMA RenamedRetags ==
  ASSUME NEW tokens \in Seq(WordTokens), NEW from, NEW to \in PieceTags
  PROVE  /\ Renamed(tokens, from, to) \in Seq(WordTokens)
         /\ Rewritten(tokens, Renamed(tokens, from, to), from, to)
<1> DEFINE new == Renamed(tokens, from, to)
<1>1. /\ new = [n \in DOMAIN tokens |-> RenamedToken(tokens[n], from, to)]
      /\ new \in Seq(WordTokens) /\ Len(new) = Len(tokens)
  BY RenamedType
<1>2. DOMAIN tokens = 1 .. Len(tokens) /\ \A n \in 1 .. Len(tokens) : tokens[n] \in WordTokens
  BY LenProperties, ElementOfSeq
<1>3. \A n \in 1 .. Len(tokens) : Retagged(tokens[n], RenamedToken(tokens[n], from, to), from, to)
  BY <1>2, RetaggedRenamed
<1> HIDE DEF new
<1>4. \A n \in 1 .. Len(tokens) : new[n] = RenamedToken(tokens[n], from, to) BY <1>1, <1>2
<1>5. \A n \in 1 .. Len(tokens) : Retagged(tokens[n], new[n], from, to) BY <1>3, <1>4
<1>6. QED BY <1>1, <1>5 DEF Rewritten, new

LEMMA ItselfRetags ==
  ASSUME NEW tokens \in Seq(WordTokens), NEW tag
  PROVE  Rewritten(tokens, tokens, tag, tag)
<1>1. \A n \in 1 .. Len(tokens) : tokens[n] \in WordTokens BY ElementOfSeq
<1>2. \A n \in 1 .. Len(tokens) : Retagged(tokens[n], tokens[n], tag, tag) BY <1>1, RetaggedItself
<1>3. QED BY <1>2 DEF Rewritten

LEMMA RetaggedPlain ==
  ASSUME NEW q \in Seq(WordTokens), NEW q2 \in Seq(WordTokens), ~HoldsChange(q),
         NEW from, NEW to, Rewritten(q, q2, from, to)
  PROVE  ~HoldsChange(q2)
<1>1. DOMAIN q = 1 .. Len(q) /\ DOMAIN q2 = 1 .. Len(q) BY LenProperties DEF Rewritten
<1>2. \A n \in 1 .. Len(q) : q[n].tag \notin {"start", "end"} BY <1>1 DEF HoldsChange
<1>3. \A n \in 1 .. Len(q) : q2[n].tag \notin {"start", "end"} BY <1>2 DEF Retagged, Rewritten
<1>4. QED BY <1>1, <1>3 DEF HoldsChange

(* What new text of Me's stands under. *)
MeWrites(under) ==
  \/ under = {<<"ins", Me>>} \/ under = {<<"del", Me>>}
  \/ \E a : under = {<<"ins", a>>, <<"del", Me>>}

(* Text without changes, told at one place, in whatever elements it is     *)
(* written: it is told where it is Me's insertion or one deletion.         *)
LEMMA PlainTold ==
  ASSUME NEW p \in Seq(WordTokens), NEW p2 \in Seq(WordTokens),
         NEW q \in Seq(WordTokens), NEW q2 \in Seq(WordTokens), ~HoldsChange(q),
         NEW from, NEW to \in {"t", "delText"}, Rewritten(q, q2, from, to),
         ToldIn(p \o q), ToldIn(p2),
         MeWrites(InForce(OpenAfter(p2)))
  PROVE  ToldIn(p2 \o q2) /\ OpenAfter(p2 \o q2) = OpenAfter(p2)
<1> DEFINE u == InForce(OpenAfter(p2))
<1>1. Retold(p, p2, q, q2, from, to) BY Retells DEF Rewritten
<1>2. ~HoldsChange(q2) BY RetaggedPlain
<1>3. /\ OpenAfter(p2 \o q2) = OpenAfter(p2)
      /\ \A w \in WordsAfter(p2 \o q2) : w \in WordsAfter(p2) \/ w.under = u
  BY <1>2, PlainWords
<1> HIDE DEF u
<1>4. ASSUME NEW w2 \in WordsAfter(p2 \o q2) PROVE Told(w2)
  <2>1. CASE w2 \in WordsAfter(p2) BY <2>1 DEF ToldIn
  <2>2. CASE w2 \notin WordsAfter(p2)
    <3>1. PICK w \in WordsAfter(p \o q) : ToldAs(w, w2, p, p2, from, to) BY <1>1, <2>2 DEF Retold
    <3>2. w.tag \in {"t", "delText"} BY <3>1 DEF ToldIn, Told
    <3>3. w2.tag \in {"t", "delText"} BY <3>1, <3>2 DEF ToldAs
    <3>4. w2.under = u BY <1>3, <2>2
    <3>5. \A a : <<"del", a>>[1] = "del" OBVIOUS
    <3>6. CASE u = {<<"ins", Me>>} BY <3>3, <3>4, <3>6 DEF Told
    <3>7. CASE <<"del", Me>> \in u /\ \A a \in Writers \ {Me} : <<"del", a>> \notin u
      <4>1. Under(w2, "del") BY <3>4, <3>5, <3>7 DEF Under
      <4>2. QED BY <3>3, <3>4, <3>7, <4>1 DEF Told
    <3>8. MeWrites(u) BY DEF u
    <3>9. QED BY <3>6, <3>7, <3>8 DEF MeWrites
  <2>3. QED BY <2>1, <2>2
<1>5. QED BY <1>3, <1>4 DEF ToldIn

(* A change taken off its inside: what becomes of a word.                  *)
TakenOff(w, w2, change, from, to) ==
  /\ w \in WordSet /\ w2 \in WordSet /\ Told(w)
  /\ w2.tag = IF w.tag = from THEN to ELSE w.tag
  /\ \A c \in TrackedChanges : /\ c \in w2.under => c \in w.under
                               /\ c # change /\ c \in w.under => c \in w2.under

LEMMA Unwrapped ==
  ASSUME NEW p \in Seq(WordTokens), NEW tag \in {"ins", "del"}, NEW a \in Writers,
         NEW q \in Seq(WordTokens), NEW q2 \in Seq(WordTokens),
         NEW from, NEW to, Rewritten(q, q2, from, to),
         Settled(p), Settled(p \o Change(tag, a, q))
  PROVE  /\ OpenAfter(p \o q2) = NothingOpen
         /\ ToldIn(Append(p, Start(tag, a)) \o q)
         /\ \A w2 \in WordsAfter(p \o q2) :
              \/ Told(w2)
              \/ \E w : TakenOff(w, w2, <<tag, a>>, from, to)
<1> DEFINE s == Append(p, Start(tag, a))
           t == s \o q
           x == <<tag, a>>
           node == p \o Change(tag, a, q)
           new == p \o q2
<1>1. x \in TrackedChanges BY DEF TrackedChanges
<1>2. /\ s \in Seq(WordTokens) /\ OpenAfter(s) = [OpenAfter(p) EXCEPT ![x] = @ + 1] BY OpenNext
<1>3. /\ t \in Seq(WordTokens) /\ WordsAfter(node) = WordsAfter(t)
      /\ OpenAfter(node) = [OpenAfter(t) EXCEPT ![x] = @ - 1]
  BY ChangeReads
<1>4. new \in Seq(WordTokens) BY ConcatProperties
<1>5. Drifts(s, p, q, q2) /\ Retold(s, p, q, q2, from, to)
  <2>1. s \in Seq(WordTokens) BY <1>2
  <2> HIDE DEF s
  <2>2. QED BY <2>1, Retells DEF Rewritten
<1>6. \A c \in TrackedChanges : OpenAfter(p)[c] = 0 /\ OpenAfter(node)[c] = 0
  BY DEF Settled, NothingOpen
<1>7. \A c \in TrackedChanges : OpenAfter(new)[c] - OpenAfter(p)[c] = OpenAfter(t)[c] - OpenAfter(s)[c]
  BY <1>5 DEF Drifts
<1> HIDE DEF s, t, x, node, new
<1>8. /\ OpenAfter(p) \in [TrackedChanges -> Int] /\ OpenAfter(s) \in [TrackedChanges -> Int]
      /\ OpenAfter(t) \in [TrackedChanges -> Int] /\ OpenAfter(new) \in [TrackedChanges -> Int]
  BY <1>2, <1>3, <1>4, ReadAllType
<1>9. \A c \in TrackedChanges : OpenAfter(s)[c] = IF c = x THEN 1 ELSE 0 BY <1>1, <1>2, <1>6, <1>8
<1>10. \A c \in TrackedChanges : OpenAfter(t)[c] = IF c = x THEN 1 ELSE 0
  <2>1. \A c \in TrackedChanges : OpenAfter(node)[c] = IF c = x THEN OpenAfter(t)[c] - 1 ELSE OpenAfter(t)[c]
    BY <1>1, <1>3, <1>8
  <2>2. \A c \in TrackedChanges : OpenAfter(t)[c] \in Int BY <1>8
  <2>3. QED BY <1>6, <2>1, <2>2
<1>11. OpenAfter(new) = NothingOpen
  <2>1. \A c \in TrackedChanges : OpenAfter(new)[c] = 0
    <3>1. \A c \in TrackedChanges : OpenAfter(new)[c] \in Int BY <1>8
    <3>2. QED BY <1>6, <1>7, <1>9, <1>10, <3>1
  <2>2. QED BY <1>8, <2>1 DEF NothingOpen
<1>12. ToldIn(t) BY <1>3 DEF Settled, ToldIn, node
<1>13. ASSUME NEW w2 \in WordsAfter(new), ~Told(w2)
       PROVE  \E w : TakenOff(w, w2, x, from, to)
  <2>1. w2 \notin WordsAfter(p) BY <1>13 DEF Settled, ToldIn
  <2>2. \A w3 \in WordsAfter(new) : \/ w3 \in WordsAfter(p)
                                    \/ \E w \in WordsAfter(t) : ToldAs(w, w3, s, p, from, to)
    BY <1>5 DEF Retold, new, t
  <2>3. PICK w \in WordsAfter(t) : ToldAs(w, w2, s, p, from, to) BY <2>1, <2>2
  <2>4. w \in WordSet /\ w2 \in WordSet BY <1>3, <1>4, WordTypes
  <2>5. \A c \in TrackedChanges : /\ OpenAfter(p)[c] <= OpenAfter(s)[c]
                                  /\ c # x => OpenAfter(s)[c] <= OpenAfter(p)[c]
    BY <1>6, <1>9
  <2>6. Told(w) BY <1>12 DEF ToldIn
  <2>7. TakenOff(w, w2, x, from, to) BY <2>3, <2>4, <2>5, <2>6 DEF ToldAs, TakenOff
  <2>8. QED BY <2>7
<1>14. QED BY <1>11, <1>12, <1>13 DEF s, t, x, new

(* The editor's moves, one by one, at a settled place.                     *)
LEMMA InsertionSettles ==
  ASSUME NEW p \in Seq(WordTokens), Settled(p), NEW tag \in {"t", "delText"}
  PROVE  Settled(p \o Inserted(tag))
<1> DEFINE s == Append(p, Start("ins", Me))
           x == NewRun(tag)
           u == {<<"ins", Me>>}
           inside == <<x>>
<1>1. Me \in Writers /\ tag \in PieceTags BY DocxAssumption DEF PieceTags
<1>2. x \in WordTokens BY <1>1, InsertedType
<1>3. s \in Seq(WordTokens) /\ WordsAfter(s) = WordsAfter(p) BY <1>1, OpenNext
<1>4. InForce(OpenAfter(s)) = u BY <1>1, InForceOf DEF Settled
<1>5. x.tag = "r" /\ x.kids = <<Piece(tag, <<"new", Blank>>, FALSE)>> BY DEF NewRun, Run
<1>6. DOMAIN x.kids = 1 .. 1 /\ x.kids[1].tag = tag BY <1>5 DEF Piece
<1>7. Inserted(tag) = Change("ins", Me, inside) BY DEF Inserted, NewRun
<1> HIDE DEF s, x, u
<1>8. s \o inside = Append(s, x) BY <1>2, <1>3, AppendIsConcat
<1>9. inside \in Seq(WordTokens) BY <1>2
<1>10. /\ u \in SUBSET TrackedChanges /\ OpenAfter(Append(s, x)) = OpenAfter(s)
       /\ WordsAfter(Append(s, x)) = WordsAfter(s) \cup ToSet(WordsOfRun(x, u))
  BY <1>2, <1>3, <1>4, <1>5, ReadOneMore
<1>11. ASSUME NEW w \in ToSet(WordsOfRun(x, u)) PROVE Told(w)
  <2>1. PICK k \in DOMAIN x.kids : \E j \in DOMAIN x.kids[k].text :
          w = [word |-> x.kids[k].text[j], tag |-> x.kids[k].tag, rpr |-> x.rpr, under |-> u]
    BY <1>2, <1>5, <1>10, <1>11, WordsOfRunMembers
  <2>2. k = 1 BY <1>6
  <2>3. w.tag = tag /\ w.under = u BY <1>6, <2>1, <2>2
  <2>4. QED BY <2>3 DEF Told, u
<1>12. ToldIn(s \o inside) BY <1>3, <1>8, <1>10, <1>11 DEF Settled, ToldIn
<1>13. OpenAfter(s \o inside) = OpenAfter(s) BY <1>8, <1>10
<1> HIDE DEF inside
<1>14. /\ ToldIn(p \o Change("ins", Me, inside))
       /\ OpenAfter(p \o Change("ins", Me, inside)) = OpenAfter(p)
  BY <1>1, <1>9, <1>12, <1>13, ChangeEnds DEF s
<1>15. QED BY <1>7, <1>14 DEF Settled

LEMMA DeletionSettles ==
  ASSUME NEW p \in Seq(WordTokens), Settled(p), NEW run \in WordTokens, run.tag = "r",
         Settled(p \o <<run>>), NEW new \in EditsOfRun(<<run>>)
  PROVE  Settled(p \o new)
<1> DEFINE q == <<run>>
           s == Append(p, Start("del", Me))
<1>1. Me \in Writers BY DocxAssumption
<1>2. q \in Seq(WordTokens) /\ ~HoldsChange(q) BY DEF HoldsChange
<1>3. s \in Seq(WordTokens) /\ WordsAfter(s) = WordsAfter(p) BY <1>1, OpenNext
<1>4. InForce(OpenAfter(s)) = {<<"del", Me>>} BY <1>1, InForceOf DEF Settled
<1>5. ToldIn(p \o q) /\ ToldIn(s) BY <1>3 DEF Settled, ToldIn
<1>6. new \in {Change("del", Me, AsDeleted(q)), Change("del", Me, q), <<>>} BY DEF EditsOfRun
<1> HIDE DEF q, s
<1>7. ASSUME NEW q2 \in Seq(WordTokens), NEW from, NEW to \in {"t", "delText"},
             Rewritten(q, q2, from, to)
      PROVE  Settled(p \o Change("del", Me, q2))
  <2>0. MeWrites(InForce(OpenAfter(s))) BY <1>4 DEF MeWrites
  <2>1. ToldIn(s \o q2) /\ OpenAfter(s \o q2) = OpenAfter(s)
    BY <1>2, <1>3, <1>5, <1>7, <2>0, PlainTold
  <2>2. /\ ToldIn(p \o Change("del", Me, q2))
        /\ OpenAfter(p \o Change("del", Me, q2)) = OpenAfter(p)
    BY <1>1, <2>1, ChangeEnds DEF s
  <2>3. QED BY <2>2 DEF Settled
<1>8. CASE new = Change("del", Me, AsDeleted(q))
  <2> DEFINE q2 == AsDeleted(q)
  <2>1. q2 \in Seq(WordTokens) /\ Rewritten(q, q2, "t", "delText")
    BY <1>2, RenamedRetags DEF AsDeleted, PieceTags
  <2> HIDE DEF q2
  <2>2. Settled(p \o Change("del", Me, q2)) BY <1>7, <2>1
  <2>3. QED BY <1>8, <2>2 DEF q2
<1>9. CASE new = Change("del", Me, q)
  <2>1. Rewritten(q, q, "t", "t") BY <1>2, ItselfRetags
  <2>2. Settled(p \o Change("del", Me, q)) BY <1>2, <1>7, <2>1
  <2>3. QED BY <1>9, <2>2
<1>10. CASE new = <<>>
  <2>1. p \o <<>> = p BY ConcatEmptySeq
  <2>2. QED BY <1>10, <2>1
<1>11. QED BY <1>6, <1>8, <1>9, <1>10

LEMMA InsertionEditSettles ==
  ASSUME NEW p \in Seq(WordTokens), Settled(p), NEW a \in Writers \ {Me},
         NEW inside \in Seq(WordTokens), Settled(p \o Change("ins", a, inside)),
         NEW new \in EditsOfInsertion(a, inside)
  PROVE  Settled(p \o new)
<1> DEFINE gone == Change("del", Me, AsDeleted(inside))
           s == Append(p, Start("ins", a))
<1>1. Me \in Writers /\ a \in Writers BY DocxAssumption
<1>2. \/ new = inside \/ new = <<>>
      \/ ~HoldsChange(inside) /\ new = Change("ins", a, gone)
  BY DEF EditsOfInsertion
<1>3. s \in Seq(WordTokens) /\ WordsAfter(s) = WordsAfter(p) BY OpenNext
<1>4. CASE new = <<>>
  <2>1. p \o <<>> = p BY ConcatEmptySeq
  <2>2. QED BY <1>4, <2>1
<1>5. Rewritten(inside, inside, "t", "t") BY ItselfRetags
<1>6. /\ OpenAfter(p \o inside) = NothingOpen
      /\ ToldIn(s \o inside)
      /\ \A w2 \in WordsAfter(p \o inside) :
           \/ Told(w2)
           \/ \E w : TakenOff(w, w2, <<"ins", a>>, "t", "t")
  BY <1>1, <1>5, Unwrapped
<1>7. CASE new = inside
  <2>1. ASSUME NEW w2 \in WordsAfter(p \o inside) PROVE Told(w2)
    <3>1. CASE \E w : TakenOff(w, w2, <<"ins", a>>, "t", "t")
      <4>1. PICK w : TakenOff(w, w2, <<"ins", a>>, "t", "t")
        BY <3>1
      <4>2. /\ <<"ins", Me>> \in TrackedChanges /\ <<"ins", Me>> # <<"ins", a>>
            /\ \A b \in Writers : <<"del", b>> \in TrackedChanges /\ <<"del", b>> # <<"ins", a>>
        BY <1>1 DEF TrackedChanges
      <4>3. w2.tag = w.tag /\ w \in WordSet /\ w2 \in WordSet /\ Told(w) BY <4>1 DEF TakenOff
      <4>4. /\ \A b \in Writers : <<"del", b>> \in w2.under <=> <<"del", b>> \in w.under
            /\ <<"ins", Me>> \in w.under => <<"ins", Me>> \in w2.under
        BY <4>1, <4>2 DEF TakenOff
      <4>5. QED BY <4>3, <4>4, ToldAlike
    <3>2. QED BY <1>6, <3>1
  <2>2. QED BY <1>6, <1>7, <2>1 DEF Settled, ToldIn
<1>8. CASE ~HoldsChange(inside) /\ new = Change("ins", a, gone)
  <2> DEFINE t == Append(s, Start("del", Me))
             q2 == AsDeleted(inside)
  <2>1. q2 \in Seq(WordTokens) /\ Rewritten(inside, q2, "t", "delText")
    BY RenamedRetags DEF AsDeleted, PieceTags
  <2>2. InForce(OpenAfter(t)) = {<<"ins", a>>, <<"del", Me>>}
    <3>1. <<"del", Me>> # <<"ins", a>> OBVIOUS
    <3>2. QED BY <1>1, <3>1, InForceOf DEF Settled
  <2>3. ToldIn(p) BY DEF Settled
  <2> HIDE DEF s, q2
  <2>4. t \in Seq(WordTokens) /\ WordsAfter(t) = WordsAfter(s) BY <1>1, <1>3, OpenNext
  <2>5. ToldIn(t) BY <1>3, <2>3, <2>4 DEF ToldIn
  <2>6. ToldIn(t \o q2) /\ OpenAfter(t \o q2) = OpenAfter(t)
    <3> HIDE DEF t
    <3>1. s \in Seq(WordTokens) /\ t \in Seq(WordTokens) BY <1>3, <2>4
    <3>2. ToldIn(s \o inside) BY <1>6
    <3>3. ~HoldsChange(inside) BY <1>8
    <3>4. MeWrites(InForce(OpenAfter(t))) BY <2>2 DEF MeWrites
    <3> HIDE DEF gone
    <3>5. Rewritten(inside, q2, "t", "delText") /\ "delText" \in {"t", "delText"} BY <2>1
    <3>6. q2 \in Seq(WordTokens) BY <2>1
    <3> DEFINE from == "t"
               to == "delText"
    <3>7. to \in {"t", "delText"} /\ Rewritten(inside, q2, from, to) BY <3>5
    <3> HIDE DEF from, to, q2, s, t
    <3>8. ToldIn(t \o q2) BY <2>5, <3>1, <3>2, <3>3, <3>4, <3>6, <3>7, PlainTold
    <3>9. OpenAfter(t \o q2) = OpenAfter(t) BY <2>5, <3>1, <3>2, <3>3, <3>4, <3>6, <3>7, PlainTold
    <3>10. QED BY <3>8, <3>9
  <2>7. /\ ToldIn(s \o Change("del", Me, q2))
        /\ OpenAfter(s \o Change("del", Me, q2)) = OpenAfter(s)
    BY <1>1, <1>3, <2>1, <2>6, ChangeEnds DEF t
  <2>8. gone \in Seq(WordTokens) BY <1>1, <2>1, ChangeType DEF q2
  <2>9. ToldIn(s \o gone) /\ OpenAfter(s \o gone) = OpenAfter(s) BY <2>7 DEF q2
  <2> HIDE DEF gone
  <2>10. /\ ToldIn(p \o Change("ins", a, gone))
         /\ OpenAfter(p \o Change("ins", a, gone)) = OpenAfter(p)
    BY <1>1, <2>8, <2>9, ChangeEnds DEF s
  <2>11. QED BY <1>8, <2>10 DEF Settled
<1>9. QED BY <1>2, <1>4, <1>7, <1>8

LEMMA DeletionEditSettles ==
  ASSUME NEW p \in Seq(WordTokens), Settled(p), NEW a \in Writers \ {Me},
         NEW inside \in Seq(WordTokens), Settled(p \o Change("del", a, inside)),
         NEW new \in EditsOfDeletion(a, inside)
  PROVE  Settled(p \o new)
<1> DEFINE back == Restored(inside)
           node == Change("del", a, inside)
           s == Append(p, Start("del", a))
<1>1. Me \in Writers /\ a \in Writers BY DocxAssumption
<1>2. \/ new = back \/ new = <<>>
      \/ ~HoldsChange(inside) /\ new = node \o Change("ins", Me, back)
  BY DEF EditsOfDeletion
<1>3. s \in Seq(WordTokens) /\ WordsAfter(s) = WordsAfter(p) BY OpenNext
<1>4. node \in Seq(WordTokens) BY <1>1, ChangeType
<1>5. back \in Seq(WordTokens) /\ Rewritten(inside, back, "delText", "t")
  BY RenamedRetags DEF Restored, PieceTags
<1> HIDE DEF back
<1>6. /\ OpenAfter(p \o back) = NothingOpen
      /\ ToldIn(s \o inside)
      /\ \A w2 \in WordsAfter(p \o back) :
           Told(w2) \/ \E w : TakenOff(w, w2, <<"del", a>>, "delText", "t")
  BY <1>1, <1>5, Unwrapped
<1>7. CASE new = <<>>
  <2>1. p \o <<>> = p BY ConcatEmptySeq
  <2>2. QED BY <1>7, <2>1
<1>8. CASE new = back
  <2>1. ASSUME NEW w2 \in WordsAfter(p \o back) PROVE Told(w2)
    <3>1. CASE \E w : TakenOff(w, w2, <<"del", a>>, "delText", "t")
      <4>1. PICK w : TakenOff(w, w2, <<"del", a>>, "delText", "t") BY <3>1
      <4>2. \A b \in Writers : <<"del", b>> \in TrackedChanges BY DEF TrackedChanges
      <4>3. w2.tag = "t" BY <4>1 DEF TakenOff, Told
      <4>4. \A b \in Writers : <<"del", b>> \in w2.under => <<"del", b>> \in w.under
        BY <4>1, <4>2 DEF TakenOff
      <4>5. Told(w) BY <4>1 DEF TakenOff
      <4>6. QED BY <1>1, <4>3, <4>4, <4>5 DEF Told
    <3>2. QED BY <1>6, <3>1
  <2>2. QED BY <1>6, <1>8, <2>1 DEF Settled, ToldIn
<1>9. CASE ~HoldsChange(inside) /\ new = node \o Change("ins", Me, back)
  <2> DEFINE q == p \o node
             t == Append(q, Start("ins", Me))
  <2>1. Settled(q) OBVIOUS
  <2> HIDE DEF node, s
  <2>2. q \in Seq(WordTokens) BY <1>4, ConcatProperties
  <2> HIDE DEF q
  <2>3. InForce(OpenAfter(t)) = {<<"ins", Me>>} BY <1>1, <2>1, <2>2, InForceOf DEF Settled
  <2>4. t \in Seq(WordTokens) /\ WordsAfter(t) = WordsAfter(q) BY <1>1, <2>2, OpenNext
  <2>5. ToldIn(t) BY <2>1, <2>4 DEF Settled, ToldIn
  <2>6. ToldIn(t \o back) /\ OpenAfter(t \o back) = OpenAfter(t)
    <3> HIDE DEF t
    <3>1. s \in Seq(WordTokens) /\ t \in Seq(WordTokens) BY <1>3, <2>4
    <3>2. ToldIn(s \o inside) /\ ~HoldsChange(inside) BY <1>6, <1>9
    <3>3. MeWrites(InForce(OpenAfter(t))) BY <2>3 DEF MeWrites
    <3>4. QED BY <1>5, <2>5, <3>1, <3>2, <3>3, PlainTold
  <2>7. /\ ToldIn(q \o Change("ins", Me, back))
        /\ OpenAfter(q \o Change("ins", Me, back)) = OpenAfter(q)
    BY <1>1, <1>5, <2>2, <2>6, ChangeEnds DEF t
  <2>8. p \o new = q \o Change("ins", Me, back)
    <3> DEFINE more == Change("ins", Me, back)
    <3>1. more \in Seq(WordTokens) BY <1>1, <1>5, ChangeType
    <3>2. new = node \o more BY <1>9
    <3> HIDE DEF more
    <3>3. (p \o node) \o more = p \o (node \o more) BY <1>4, <3>1, ConcatAssociative
    <3>4. QED BY <3>2, <3>3 DEF q, more
  <2>9. QED BY <2>1, <2>7, <2>8 DEF Settled
<1>10. QED BY <1>2, <1>7, <1>8, <1>9

(* Any edit of something that stands in a settled paragraph.               *)
LEMMA EditSettles ==
  ASSUME NEW p \in Seq(WordTokens), NEW node \in Seq(WordTokens), Settled(p), Settled(p \o node),
         node[1].tag = "r" => node = <<node[1]>> /\ node[1] \in WordTokens, NEW new \in EditsOf(node)
  PROVE  Settled(p \o new)
<1>1. CASE \E tag \in {"t", "delText"} : new = node \o Inserted(tag)
  <2>1. PICK tag \in {"t", "delText"} : new = node \o Inserted(tag) BY <1>1
  <2> DEFINE q == p \o node
             more == Inserted(tag)
  <2>2. q \in Seq(WordTokens) /\ Settled(q) BY ConcatProperties
  <2>3. more \in Seq(WordTokens) BY InsertedType DEF PieceTags
  <2>4. Settled(q \o more)
    <3> HIDE DEF q
    <3>1. QED BY <2>2, InsertionSettles
  <2>5. new = node \o more BY <2>1
  <2> HIDE DEF more
  <2>6. (p \o node) \o more = p \o (node \o more) BY <2>3, ConcatAssociative
  <2>7. QED BY <2>4, <2>5, <2>6
<1>2. CASE node[1].tag = "r" /\ new \in EditsOfRun(node)
  <2> DEFINE run == node[1]
  <2>1. node = <<run>> /\ run \in WordTokens /\ run.tag = "r" BY <1>2
  <2> HIDE DEF run
  <2>2. Settled(p \o <<run>>) /\ new \in EditsOfRun(<<run>>) BY <1>2, <2>1
  <2>3. QED BY <2>1, <2>2, DeletionSettles
<1>3. CASE \E a \in Others("ins", node) : new \in EditsOfInsertion(a, Inside(node))
  <2>1. PICK a \in Others("ins", node) : new \in EditsOfInsertion(a, Inside(node)) BY <1>3
  <2> DEFINE inside == Inside(node)
  <2>2. a \in Writers \ {Me} /\ inside \in Seq(WordTokens) /\ node = Change("ins", a, inside)
    BY NodeOfChange
  <2>3. new \in EditsOfInsertion(a, inside) BY <2>1
  <2> HIDE DEF inside
  <2>4. Settled(p \o Change("ins", a, inside)) BY <2>2
  <2>5. QED BY <2>2, <2>3, <2>4, InsertionEditSettles
<1>4. CASE \E a \in Others("del", node) : new \in EditsOfDeletion(a, Inside(node))
  <2>1. PICK a \in Others("del", node) : new \in EditsOfDeletion(a, Inside(node)) BY <1>4
  <2> DEFINE inside == Inside(node)
  <2>2. a \in Writers \ {Me} /\ inside \in Seq(WordTokens) /\ node = Change("del", a, inside)
    BY NodeOfChange
  <2>3. new \in EditsOfDeletion(a, inside) BY <2>1
  <2> HIDE DEF inside
  <2>4. Settled(p \o Change("del", a, inside)) BY <2>2
  <2>5. QED BY <2>2, <2>3, <2>4, DeletionEditSettles
<1>5. QED BY <1>1, <1>2, <1>3, <1>4, EditCases

(* An edit of a paragraph of which all is told.                            *)
LEMMA EditedTold ==
  ASSUME NEW p \in Seq(WordTokens), ToldIn(p), NEW from \in DOMAIN p, NEW to \in DOMAIN p,
         IsNode(p, from, to), NEW new \in EditsOf(SubSeq(p, from, to))
  PROVE  ToldIn(SubSeq(p, 1, from - 1) \o new \o SubSeq(p, to + 1, Len(p)))
<1> DEFINE before == SubSeq(p, 1, from - 1)
           node == SubSeq(p, from, to)
           after == SubSeq(p, to + 1, Len(p))
           half == before \o node
           new2 == before \o new
<1>1. from <= to /\ AtTop(p, from - 1) /\ AtTop(p, to) /\ \A n \in from .. to - 1 : ~AtTop(p, n)
  BY DEF IsNode
<1>2. /\ before \in Seq(WordTokens) /\ node \in Seq(WordTokens) /\ after \in Seq(WordTokens)
      /\ p = half \o after /\ SubSeq(p, 1, to) = half
  BY <1>1, PartsOf
<1>3. Len(p) \in Nat /\ DOMAIN p = 1 .. Len(p) /\ from \in 1 .. Len(p) /\ to \in 1 .. Len(p)
  BY LenProperties
<1>4. Seen(p)[from - 1] = ReadAll(before) /\ Seen(p)[to] = ReadAll(half)
  <2>1. from - 1 \in 0 .. Len(p) /\ to \in 0 .. Len(p) BY <1>3
  <2>2. \A i \in 0 .. Len(p) : Seen(p)[i] = ReadAll(SubSeq(p, 1, i)) BY ReadNext
  <2> HIDE DEF half
  <2>3. QED BY <1>2, <2>1, <2>2
<1>5. OpenAfter(before) = NothingOpen /\ OpenAfter(half) = NothingOpen
  BY <1>1, <1>4 DEF AtTop, OpenAfter
<1>6. half \in Seq(WordTokens)
  <2> HIDE DEF before, node
  <2>1. QED BY <1>2, ConcatProperties
<1>7. ToldIn(half)
  <2> HIDE DEF half, after
  <2>1. WordsAfter(half) \subseteq WordsAfter(half \o after) BY <1>2, <1>6, WordsGrow
  <2>2. QED BY <1>2, <2>1 DEF ToldIn
<1>8. ToldIn(before)
  <2> HIDE DEF before, node
  <2>1. WordsAfter(before) \subseteq WordsAfter(half) BY <1>2, WordsGrow
  <2>2. QED BY <1>7, <2>1 DEF ToldIn
<1>9. Settled(before) /\ Settled(half) BY <1>5, <1>7, <1>8 DEF Settled
<1>10. ASSUME node[1].tag = "r" PROVE node = <<node[1]>> /\ node[1] \in WordTokens
  <2>1. p[from] \in WordTokens BY <1>3, ElementOfSeq
  <2>2. node[1] = p[from]
    <3>1. from \in 1 .. Len(p) /\ to \in from .. Len(p) BY <1>1, <1>3
    <3>2. node = <<p[from]>> \o SubSeq(p, from + 1, to)
      <4>1. from \in 1 .. Len(p) + 1 BY <1>3
      <4>2. QED BY <3>1, <4>1, SubSeqRecursiveFirst
    <3>3. SubSeq(p, from + 1, to) \in Seq(WordTokens)
      <4>1. from + 1 \in Int /\ to \in Int /\ \A k \in from + 1 .. to : p[k] \in WordTokens
        BY <1>3, ElementOfSeq
      <4>2. QED BY <4>1, SubSeqProperties
    <3> DEFINE rest == SubSeq(p, from + 1, to)
               x == p[from]
    <3> HIDE DEF rest, x, node
    <3>4. <<x>> \in Seq(WordTokens) /\ rest \in Seq(WordTokens) /\ Len(<<x>>) = 1 /\ <<x>>[1] = x
      BY <2>1, <3>3 DEF rest, x
    <3>5. (<<x>> \o rest)[1] = x BY <3>4
    <3>6. QED BY <3>2, <3>5 DEF rest, x
  <2>3. to = from
    <3>1. SUFFICES ASSUME from # to PROVE FALSE OBVIOUS
    <3>2. from \in from .. to - 1 BY <1>1, <1>3, <3>1
    <3>3. ~AtTop(p, from) BY <1>1, <3>2
    <3>4. /\ SubSeq(p, 1, from - 1) \in Seq(WordTokens)
          /\ SubSeq(p, 1, from) = Append(SubSeq(p, 1, from - 1), p[from])
      BY <1>3, FirstOnes
    <3>5. p[from].tag = "r" BY <1>10, <2>2
    <3>6. OpenAfter(Append(before, p[from])) = OpenAfter(before)
      <4> HIDE DEF before
      <4>1. QED BY <1>2, <2>1, <3>5, ReadOneMore
    <3>7. Seen(p)[from] = ReadAll(SubSeq(p, 1, from))
      <4>1. from \in 0 .. Len(p) BY <1>3
      <4>2. QED BY <4>1, ReadNext
    <3>8. Seen(p)[from].open = NothingOpen BY <1>5, <3>4, <3>6, <3>7 DEF OpenAfter
    <3>9. QED BY <3>3, <3>8 DEF AtTop
  <2>4. node = <<p[from]>>
    <3>1. from \in 1 .. Len(p) /\ to \in from .. Len(p) BY <1>3, <2>3
    <3>2. node = <<p[from]>> \o SubSeq(p, from + 1, to) BY <3>1, SubSeqRecursiveFirst
    <3>3. SubSeq(p, from + 1, to) = <<>>
      <4>1. from + 1 \in Int /\ to \in Int /\ from + 1 > to BY <1>3, <2>3
      <4>2. QED BY <4>1, SubSeqEmpty
    <3> HIDE DEF node
    <3>4. <<p[from]>> \in Seq(WordTokens) BY <2>1
    <3>5. <<p[from]>> \o <<>> = <<p[from]>> BY <3>4, ConcatEmptySeq
    <3>6. QED BY <3>2, <3>3, <3>5
  <2>5. QED BY <2>1, <2>4
<1>11. new \in EditsOf(node) OBVIOUS
<1>12. new \in Seq(WordTokens)
  <2> HIDE DEF node
  <2>1. QED BY <1>2, <1>11, EditsType
<1> HIDE DEF before, node, after
<1>13. Settled(new2) BY <1>2, <1>9, <1>10, <1>11, EditSettles
<1>14. new2 \in Seq(WordTokens) BY <1>2, <1>12, ConcatProperties
<1> HIDE DEF new2, half
<1>15. ToldIn(half \o after) BY <1>2
<1>16. ToldIn(new2 \o after) BY <1>2, <1>6, <1>9, <1>13, <1>14, <1>15, RestTold
<1>17. QED BY <1>16 DEF new2, before, after

-----------------------------------------------------------------------------
(* How many changes of an author start in a text.                          *)

StartsBy(a) == {Start(tag, a) : tag \in {"ins", "del"}}

CountOf(p, a) == Len(Only(p, StartsBy(a)))

LEMMA CountNext ==
  ASSUME NEW a
  PROVE  /\ CountOf(<<>>, a) = 0
         /\ \A s \in Seq(WordTokens) : CountOf(s, a) \in Nat
         /\ \A s \in Seq(WordTokens), x \in WordTokens :
              CountOf(Append(s, x), a) = CountOf(s, a) + IF x \in StartsBy(a) THEN 1 ELSE 0
<1> DEFINE left(s) == Only(s, StartsBy(a))
           starts == StartsBy(a)
<1>1. /\ left(<<>>) = <<>> /\ \A s \in Seq(WordTokens) : left(s) \in Seq(WordTokens)
      /\ \A s \in Seq(WordTokens), x \in WordTokens :
           left(Append(s, x)) = IF x \in starts THEN Append(left(s), x) ELSE left(s)
  BY OnlyNext, Zenon
<1> HIDE DEF left, starts
<1>2. ASSUME NEW s \in Seq(WordTokens), NEW x \in WordTokens
      PROVE  Len(left(Append(s, x))) = Len(left(s)) + IF x \in starts THEN 1 ELSE 0
  <2>1. left(s) \in Seq(WordTokens) BY <1>1
  <2>2. Len(left(s)) \in Nat BY <2>1, LenProperties
  <2>3. CASE x \in starts
    <3>1. left(Append(s, x)) = Append(left(s), x) BY <1>1, <2>3
    <3>2. Len(Append(left(s), x)) = Len(left(s)) + 1 BY <2>1, AppendProperties
    <3>3. QED BY <2>3, <3>1, <3>2
  <2>4. CASE x \notin starts
    <3>1. left(Append(s, x)) = left(s) BY <1>1, <2>4
    <3>2. QED BY <2>2, <2>4, <3>1
  <2>5. QED BY <2>3, <2>4
<1>3. \A s \in Seq(WordTokens) : Len(left(s)) \in Nat BY <1>1, LenProperties
<1>4. Len(left(<<>>)) = 0 BY <1>1
<1>5. QED BY <1>2, <1>3, <1>4 DEF CountOf, left, starts

LEMMA CountConcat ==
  ASSUME NEW a, NEW s \in Seq(WordTokens), NEW t \in Seq(WordTokens)
  PROVE  /\ CountOf(s \o t, a) = CountOf(s, a) + CountOf(t, a)
         /\ CountOf(s, a) \in Nat /\ CountOf(t, a) \in Nat
<1> DEFINE left(u) == Only(u, StartsBy(a))
<1>1. left(s \o t) = left(s) \o left(t) BY OnlyConcat
<1>2. left(s) \in Seq(WordTokens) /\ left(t) \in Seq(WordTokens) BY OnlyNext
<1>3. CountOf(s, a) \in Nat /\ CountOf(t, a) \in Nat BY CountNext
<1> HIDE DEF left
<1>4. Len(left(s) \o left(t)) = Len(left(s)) + Len(left(t)) BY <1>2, ConcatProperties
<1>5. Len(left(s \o t)) = Len(left(s)) + Len(left(t)) BY <1>1, <1>4
<1>6. QED BY <1>3, <1>5 DEF CountOf, left

(* A text no token of which starts a change where none did.                *)
NoStartMore(q, q2, a) ==
  Len(q2) = Len(q) /\ \A n \in 1 .. Len(q) : q2[n] \in StartsBy(a) => q[n] \in StartsBy(a)

LEMMA NoMoreTokenwise ==
  ASSUME NEW a, NEW q \in Seq(WordTokens), NEW q2 \in Seq(WordTokens), NoStartMore(q, q2, a)
  PROVE  CountOf(q2, a) <= CountOf(q, a)
<1> DEFINE count(s) == CountOf(s, a)
           first(s, n) == SubSeq(s, 1, n)
           fewer(n) == count(first(q2, n)) <= count(first(q, n))
           good == {n \in 0 .. Len(q) : fewer(n)}
<1>0. /\ count(<<>>) = 0 /\ \A s \in Seq(WordTokens) : count(s) \in Nat
      /\ \A s \in Seq(WordTokens), x \in WordTokens :
           count(Append(s, x)) = count(s) + IF x \in StartsBy(a) THEN 1 ELSE 0
  BY CountNext
<1>1. /\ Len(q) \in Nat /\ Len(q2) = Len(q)
      /\ \A n \in 1 .. Len(q) : q2[n] \in StartsBy(a) => q[n] \in StartsBy(a)
  BY LenProperties DEF NoStartMore
<1> HIDE DEF count
<1>2. 0 \in good
  <2>1. first(q, 0) = <<>> /\ first(q2, 0) = <<>> BY SubSeqEmpty
  <2> HIDE DEF first
  <2>2. fewer(0) BY <1>0, <2>1
  <2> HIDE DEF fewer
  <2>3. QED BY <1>1, <2>2
<1>3. ASSUME NEW n \in 1 .. Len(q), n - 1 \in good PROVE n \in good
  <2>1. /\ first(q, n - 1) \in Seq(WordTokens) /\ q[n] \in WordTokens
        /\ first(q, n) = Append(first(q, n - 1), q[n])
    BY FirstOnes
  <2>2. /\ first(q2, n - 1) \in Seq(WordTokens) /\ q2[n] \in WordTokens
        /\ first(q2, n) = Append(first(q2, n - 1), q2[n])
    BY <1>1, FirstOnes
  <2> HIDE DEF first
  <2>3. count(first(q2, n - 1)) <= count(first(q, n - 1)) BY <1>3
  <2>4. count(first(q2, n - 1)) \in Nat /\ count(first(q, n - 1)) \in Nat BY <1>0, <2>1, <2>2
  <2>5. /\ count(first(q, n)) = count(first(q, n - 1)) + IF q[n] \in StartsBy(a) THEN 1 ELSE 0
        /\ count(first(q2, n)) = count(first(q2, n - 1)) + IF q2[n] \in StartsBy(a) THEN 1 ELSE 0
    BY <1>0, <2>1, <2>2
  <2>6. fewer(n) BY <1>1, <2>3, <2>4, <2>5
  <2> HIDE DEF fewer
  <2>7. n \in 0 .. Len(q) BY <1>1
  <2>8. QED BY <2>6, <2>7
<1>4. \A n \in 0 .. Len(q) : n \in good
  <2> HIDE DEF good
  <2>1. QED BY <1>1, <1>2, <1>3, LoopKeeps
<1>5. fewer(Len(q))
  <2> HIDE DEF fewer
  <2>1. Len(q) \in 0 .. Len(q) BY <1>1
  <2>2. QED BY <1>4, <2>1
<1>6. first(q, Len(q)) = q /\ first(q2, Len(q)) = q2 BY <1>1, SubSeqFull
<1> HIDE DEF first
<1>7. QED BY <1>5, <1>6 DEF count

(* Paragraph by paragraph no change more, none in the document.            *)
LEMMA NoMoreInDocument ==
  ASSUME NEW a, NEW doc \in Seq(Seq(WordTokens)), NEW doc2 \in Seq(Seq(WordTokens)),
         Len(doc2) = Len(doc), \A i \in 1 .. Len(doc) : CountOf(doc2[i], a) <= CountOf(doc[i], a)
  PROVE  ChangesBy(doc2, a) <= ChangesBy(doc, a)
<1> DEFINE E == Seq(WordTokens)
           first(d, n) == SubSeq(d, 1, n)
           count(d) == CountOf(FlattenSeq(d), a)
           fewer(n) == count(first(doc2, n)) <= count(first(doc, n))
           good == {n \in 0 .. Len(doc) : fewer(n)}
<1>0. /\ count(<<>>) = 0
      /\ \A d \in Seq(E), p \in E :
           /\ count(Append(d, p)) = count(d) + CountOf(p, a)
           /\ count(d) \in Nat /\ CountOf(p, a) \in Nat
  <2>1. /\ FlattenSeq(<<>>) = <<>> /\ \A d \in Seq(E) : FlattenSeq(d) \in Seq(WordTokens)
        /\ \A d \in Seq(E), p \in E : FlattenSeq(Append(d, p)) = FlattenSeq(d) \o p
    BY FlattenNext
  <2>2. count(<<>>) = 0 BY <2>1, CountNext
  <2>3. ASSUME NEW d \in Seq(E), NEW p \in E
        PROVE  /\ count(Append(d, p)) = count(d) + CountOf(p, a)
               /\ count(d) \in Nat /\ CountOf(p, a) \in Nat
    <3> DEFINE flat == FlattenSeq(d)
    <3>1. flat \in Seq(WordTokens) /\ FlattenSeq(Append(d, p)) = flat \o p BY <2>1
    <3> HIDE DEF flat
    <3>2. /\ CountOf(flat \o p, a) = CountOf(flat, a) + CountOf(p, a)
          /\ CountOf(flat, a) \in Nat /\ CountOf(p, a) \in Nat
      BY <3>1, CountConcat
    <3>3. QED BY <3>1, <3>2 DEF flat
  <2>4. QED BY <2>2, <2>3
<1>1. Len(doc) \in Nat BY LenProperties
<1> HIDE DEF count, E
<1>2. 0 \in good
  <2>1. first(doc, 0) = <<>> /\ first(doc2, 0) = <<>> BY SubSeqEmpty
  <2> HIDE DEF first
  <2>2. fewer(0) BY <1>0, <2>1
  <2> HIDE DEF fewer
  <2>3. QED BY <1>1, <2>2
<1>3. ASSUME NEW n \in 1 .. Len(doc), n - 1 \in good PROVE n \in good
  <2>0. doc \in Seq(E) /\ doc2 \in Seq(E) BY DEF E
  <2>1. /\ first(doc, n - 1) \in Seq(E) /\ doc[n] \in E
        /\ first(doc, n) = Append(first(doc, n - 1), doc[n])
    BY <2>0, FirstOnes
  <2>2. /\ first(doc2, n - 1) \in Seq(E) /\ doc2[n] \in E
        /\ first(doc2, n) = Append(first(doc2, n - 1), doc2[n])
    BY <2>0, FirstOnes
  <2> HIDE DEF first
  <2>3. count(first(doc2, n - 1)) <= count(first(doc, n - 1)) BY <1>3
  <2>4. CountOf(doc2[n], a) <= CountOf(doc[n], a) OBVIOUS
  <2>5. /\ count(first(doc, n)) = count(first(doc, n - 1)) + CountOf(doc[n], a)
        /\ count(first(doc, n - 1)) \in Nat /\ CountOf(doc[n], a) \in Nat
    BY <1>0, <2>1
  <2>6. /\ count(first(doc2, n)) = count(first(doc2, n - 1)) + CountOf(doc2[n], a)
        /\ count(first(doc2, n - 1)) \in Nat /\ CountOf(doc2[n], a) \in Nat
    BY <1>0, <2>2
  <2>7. fewer(n) BY <2>3, <2>4, <2>5, <2>6
  <2> HIDE DEF fewer
  <2>8. n \in 0 .. Len(doc) BY <1>1
  <2>9. QED BY <2>7, <2>8
<1>4. \A n \in 0 .. Len(doc) : n \in good
  <2> HIDE DEF good
  <2>1. QED BY <1>1, <1>2, <1>3, LoopKeeps
<1>5. fewer(Len(doc))
  <2> HIDE DEF fewer
  <2>1. Len(doc) \in 0 .. Len(doc) BY <1>1
  <2>2. QED BY <1>4, <2>1
<1>6. first(doc, Len(doc)) = doc /\ first(doc2, Len(doc)) = doc2 BY SubSeqFull
<1> HIDE DEF first
<1>7. count(doc2) <= count(doc) BY <1>5, <1>6
<1>8. QED BY <1>7 DEF count, CountOf, ChangesBy, StartsBy

(* Unpacking starts no change more.                                        *)
LEMMA TrackedCounts ==
  ASSUME NEW a, NEW tag, NEW paragraph \in Seq(WordTokens)
  PROVE  CountOf(_merge_tracked_changes_in(paragraph, tag), a) <= CountOf(paragraph, a)
<1> DEFINE merged(s) == _merge_tracked_changes_in(s, tag)
           count(s) == CountOf(s, a)
           good == {s \in Seq(WordTokens) : count(merged(s)) <= count(s)}
<1>1. /\ merged(<<>>) = <<>>
      /\ \A s \in Seq(WordTokens) : merged(s) \in Seq(WordTokens)
      /\ \A s \in Seq(WordTokens), x \in WordTokens :
           merged(Append(s, x)) = _merge_tracked_content(merged(s), x, tag)
  BY TrackedNext
<1>2. /\ count(<<>>) = 0 /\ \A s \in Seq(WordTokens) : count(s) \in Nat
      /\ \A s \in Seq(WordTokens), x \in WordTokens :
           count(Append(s, x)) = count(s) + IF x \in StartsBy(a) THEN 1 ELSE 0
  BY CountNext
<1> HIDE DEF merged, count
<1>3. <<>> \in good BY <1>1, <1>2
<1>4. ASSUME NEW s \in Seq(WordTokens), NEW x \in WordTokens, s \in good
      PROVE  Append(s, x) \in good
  <2> DEFINE done == merged(s)
             joins == /\ done # <<>> /\ AtTop(done, Len(done))
                      /\ _can_merge_tracked(Last(done), x, tag)
  <2>1. done \in Seq(WordTokens) /\ count(done) <= count(s) BY <1>1, <1>4
  <2>2. Append(s, x) \in Seq(WordTokens) BY AppendProperties
  <2>3. /\ count(Append(s, x)) = count(s) + IF x \in StartsBy(a) THEN 1 ELSE 0
        /\ count(s) \in Nat /\ count(done) \in Nat
    BY <1>2, <2>1
  <2>4. merged(Append(s, x)) = IF joins THEN Front(done) ELSE Append(done, x)
    BY <1>1 DEF _merge_tracked_content
  <2> HIDE DEF done
  <2>5. CASE joins
    <3>1. /\ Front(done) \in Seq(WordTokens) /\ Last(done) \in WordTokens
          /\ done = Append(Front(done), Last(done))
      BY <2>1, <2>5, FrontAndLast
    <3>2. /\ count(done) = count(Front(done)) + IF Last(done) \in StartsBy(a) THEN 1 ELSE 0
          /\ count(Front(done)) \in Nat
      BY <1>2, <3>1
    <3>3. count(Front(done)) <= count(Append(s, x)) BY <2>1, <2>3, <3>2
    <3>4. QED BY <2>2, <2>4, <2>5, <3>3
  <2>6. CASE ~joins
    <3>1. count(Append(done, x)) = count(done) + IF x \in StartsBy(a) THEN 1 ELSE 0 BY <1>2, <2>1
    <3>2. count(Append(done, x)) <= count(Append(s, x)) BY <2>1, <2>3, <3>1
    <3>3. QED BY <2>2, <2>4, <2>6, <3>2
  <2>7. QED BY <2>5, <2>6
<1>5. \A s \in Seq(WordTokens) : s \in good
  <2> HIDE DEF good
  <2>1. QED BY <1>3, <1>4, SeqKeeps
<1>6. QED BY <1>5 DEF merged, count

LEMMA OnlyCounts ==
  ASSUME NEW a, NEW wanted, NEW paragraph \in Seq(WordTokens)
  PROVE  CountOf(Only(paragraph, wanted), a) <= CountOf(paragraph, a)
<1> DEFINE kept(s) == Only(s, wanted)
           count(s) == CountOf(s, a)
           good == {s \in Seq(WordTokens) : count(kept(s)) <= count(s)}
<1>1. /\ kept(<<>>) = <<>> /\ \A s \in Seq(WordTokens) : kept(s) \in Seq(WordTokens)
      /\ \A s \in Seq(WordTokens), x \in WordTokens :
           kept(Append(s, x)) = IF x \in wanted THEN Append(kept(s), x) ELSE kept(s)
  BY OnlyNext, Zenon
<1>2. /\ count(<<>>) = 0 /\ \A s \in Seq(WordTokens) : count(s) \in Nat
      /\ \A s \in Seq(WordTokens), x \in WordTokens :
           count(Append(s, x)) = count(s) + IF x \in StartsBy(a) THEN 1 ELSE 0
  BY CountNext
<1> HIDE DEF kept, count
<1>3. <<>> \in good BY <1>1, <1>2
<1>4. ASSUME NEW s \in Seq(WordTokens), NEW x \in WordTokens, s \in good
      PROVE  Append(s, x) \in good
  <2>1. kept(s) \in Seq(WordTokens) /\ count(kept(s)) <= count(s) BY <1>1, <1>4
  <2>2. Append(s, x) \in Seq(WordTokens) BY AppendProperties
  <2>3. /\ count(Append(s, x)) = count(s) + IF x \in StartsBy(a) THEN 1 ELSE 0
        /\ count(Append(kept(s), x)) = count(kept(s)) + IF x \in StartsBy(a) THEN 1 ELSE 0
        /\ count(s) \in Nat /\ count(kept(s)) \in Nat
    BY <1>2, <2>1
  <2>4. kept(Append(s, x)) = IF x \in wanted THEN Append(kept(s), x) ELSE kept(s) BY <1>1
  <2>5. count(kept(Append(s, x))) <= count(Append(s, x)) BY <2>1, <2>3, <2>4
  <2>6. QED BY <2>2, <2>5
<1>5. \A s \in Seq(WordTokens) : s \in good
  <2> HIDE DEF good
  <2>1. QED BY <1>3, <1>4, SeqKeeps
<1>6. QED BY <1>5 DEF kept, count

(* A token that is a run, or one that becomes a run, starts no change.     *)
LEMMA RunStartsNothing ==
  ASSUME NEW a, NEW x, x.tag = "r"
  PROVE  x \notin StartsBy(a)
BY DEF StartsBy, Start

LEMMA RunsCount ==
  ASSUME NEW a, NEW paragraph \in Seq(WordTokens)
  PROVE  CountOf(_merge_runs_in(paragraph), a) <= CountOf(paragraph, a)
<1> DEFINE count(s) == CountOf(s, a)
<1>0. /\ count(<<>>) = 0 /\ \A s \in Seq(WordTokens) : count(s) \in Nat
      /\ \A s \in Seq(WordTokens), x \in WordTokens :
           count(Append(s, x)) = count(s) + IF x \in StartsBy(a) THEN 1 ELSE 0
  BY CountNext
<1> HIDE DEF count
<1>1. RunStep \in [Seq(WordTokens) \X WordTokens -> Seq(WordTokens)] BY RunContent DEF RunStep
<1>2. PICK pass : Computes(pass, WordTokens, Seq(WordTokens), <<>>, RunStep)
  <2>1. <<>> \in Seq(WordTokens) OBVIOUS
  <2>2. QED BY <1>1, <2>1, PassComputes
<1> DEFINE good == {s \in Seq(WordTokens) : count(pass[s]) <= count(s)}
<1>3. pass \in [Seq(WordTokens) -> Seq(WordTokens)] /\ pass[<<>>] = <<>> BY <1>2 DEF Computes
<1>4. <<>> \in good BY <1>0, <1>3
<1>5. ASSUME NEW s \in Seq(WordTokens), NEW x \in WordTokens, s \in good
      PROVE  Append(s, x) \in good
  <2> DEFINE done == pass[s]
             new == _merge_run_content(done, x)
  <2>1. done \in Seq(WordTokens) /\ count(done) <= count(s) BY <1>3, <1>5
  <2>2. pass[Append(s, x)] = new
    <3>1. pass[Append(s, x)] = RunStep[<<done, x>>] BY <1>2 DEF Computes
    <3>2. QED BY <2>1, <3>1 DEF RunStep
  <2> HIDE DEF done
  <2>3. /\ count(Append(s, x)) = count(s) + IF x \in StartsBy(a) THEN 1 ELSE 0
        /\ count(s) \in Nat /\ count(done) \in Nat
    BY <1>0, <2>1
  <2>4. ASSUME done # <<>>, _can_merge(Last(done), x)
        PROVE  count(new) <= count(Append(s, x))
    <3> DEFINE last == Last(done)
               front == Front(done)
               joined == Together(last, x)
    <3>1. front \in Seq(WordTokens) /\ last \in WordTokens /\ done = Append(front, last)
      BY <2>1, <2>4, FrontAndLast
    <3>2. last.tag = "r" /\ x.tag = "r" /\ last.rpr = x.rpr BY <2>4 DEF _can_merge
    <3>3. new = Append(front, joined) BY <2>4 DEF _merge_run_content, Together
    <3> HIDE DEF last, front, new
    <3>4. joined \in WordTokens /\ joined.tag = "r"
      <4>1. <<>> \in Seq(WordTokens) OBVIOUS
      <4>2. ReadAll(<<>>) \in Readings BY <4>1, ReadNext
      <4>3. joined \in WordTokens BY <3>1, <3>2, <4>2, TwoRunsRead
      <4>4. joined.tag = last.tag BY <3>1, <3>2 DEF Together, WordTokens
      <4>5. QED BY <3>2, <4>3, <4>4
    <3> HIDE DEF joined
    <3>5. last \notin StartsBy(a) /\ joined \notin StartsBy(a) /\ x \notin StartsBy(a)
      BY <3>2, <3>4, RunStartsNothing
    <3>6. count(new) = count(front) /\ count(done) = count(front)
      BY <1>0, <3>1, <3>3, <3>4, <3>5
    <3>7. QED BY <2>1, <2>3, <3>5, <3>6
  <2>5. ASSUME ~(done # <<>> /\ _can_merge(Last(done), x))
        PROVE  count(new) <= count(Append(s, x))
    <3>1. new = Append(done, x) BY <2>5 DEF _merge_run_content
    <3>2. count(Append(done, x)) = count(done) + IF x \in StartsBy(a) THEN 1 ELSE 0 BY <1>0, <2>1
    <3>3. QED BY <2>1, <2>3, <3>1, <3>2
  <2>6. count(new) <= count(Append(s, x)) BY <2>4, <2>5
  <2>7. Append(s, x) \in Seq(WordTokens) BY AppendProperties
  <2>8. QED BY <2>2, <2>6, <2>7
<1>6. \A s \in Seq(WordTokens) : s \in good
  <2> HIDE DEF good
  <2>1. QED BY <1>4, <1>5, SeqKeeps
<1> DEFINE merged == pass[paragraph]
           new == Consolidated(merged)
<1>7. merged \in Seq(WordTokens) /\ count(merged) <= count(paragraph) BY <1>3, <1>6
<1>8. _merge_runs_in(paragraph) = new BY <1>2, RunsIsPass
<1> HIDE DEF merged
<1>9. new \in Seq(WordTokens) BY <1>7, ConsolidatedReads
<1>10. NoStartMore(merged, new, a)
  <2>1. /\ DOMAIN merged = 1 .. Len(merged) /\ Len(merged) \in Nat
        /\ \A n \in 1 .. Len(merged) : merged[n] \in WordTokens
    BY <1>7, LenProperties, ElementOfSeq
  <2>2. /\ DOMAIN new = 1 .. Len(merged)
        /\ \A n \in 1 .. Len(merged) :
             new[n] = IF merged[n].tag = "r" THEN _consolidate_text(merged[n]) ELSE merged[n]
    BY <2>1 DEF Consolidated
  <2> HIDE DEF new
  <2>3. Len(new) = Len(merged)
    <3>1. Len(new) \in Nat /\ DOMAIN new = 1 .. Len(new) BY <1>9, LenProperties
    <3>2. 1 .. Len(new) = 1 .. Len(merged) BY <2>2, <3>1
    <3>3. QED BY <2>1, <3>1, <3>2, SameInterval
  <2>4. ASSUME NEW n \in 1 .. Len(merged), new[n] \in StartsBy(a) PROVE merged[n] \in StartsBy(a)
    <3>1. CASE merged[n].tag = "r"
      <4>1. new[n] = _consolidate_text(merged[n]) /\ merged[n] \in WordTokens BY <2>1, <2>2, <3>1
      <4>2. new[n].tag = "r" BY <3>1, <4>1, ConsolidatedWords
      <4>3. QED BY <2>4, <4>2, RunStartsNothing
    <3>2. CASE merged[n].tag # "r" BY <2>2, <2>4, <3>2
    <3>3. QED BY <3>1, <3>2
  <2>5. QED BY <2>3, <2>4 DEF NoStartMore
<1> HIDE DEF new
<1>11. CountOf(new, a) <= CountOf(merged, a) BY <1>7, <1>9, <1>10, NoMoreTokenwise
<1>12. CountOf(paragraph, a) \in Nat /\ CountOf(merged, a) \in Nat /\ CountOf(new, a) \in Nat
  BY <1>7, <1>9, CountNext
<1>13. QED BY <1>7, <1>8, <1>11, <1>12 DEF count

LEMMA ParagraphsCount ==
  ASSUME NEW a, NEW doc \in Seq(Seq(WordTokens)), NEW new \in Seq(Seq(WordTokens)),
         DOMAIN new = DOMAIN doc, \A i \in DOMAIN doc : CountOf(new[i], a) <= CountOf(doc[i], a)
  PROVE  ChangesBy(new, a) <= ChangesBy(doc, a)
<1>1. /\ Len(doc) \in Nat /\ DOMAIN doc = 1 .. Len(doc)
      /\ Len(new) \in Nat /\ DOMAIN new = 1 .. Len(new)
  BY LenProperties
<1>2. Len(new) = Len(doc)
  <2>1. 1 .. Len(new) = 1 .. Len(doc) BY <1>1
  <2>2. QED BY <1>1, <2>1, SameInterval
<1>3. \A i \in 1 .. Len(doc) : CountOf(new[i], a) <= CountOf(doc[i], a) BY <1>1
<1>4. QED BY <1>2, <1>3, NoMoreInDocument

LEMMA SimplifiedCounts ==
  ASSUME NEW a, NEW doc \in Seq(Seq(WordTokens))
  PROVE  ChangesBy(simplify_redlines(doc), a) <= ChangesBy(doc, a)
<1> DEFINE new == simplify_redlines(doc)
<1>1. /\ DOMAIN new = DOMAIN doc
      /\ \A i \in DOMAIN doc :
           new[i] = _merge_tracked_changes_in(_merge_tracked_changes_in(doc[i], "ins"), "del")
  BY DEF simplify_redlines
<1>2. \A i \in DOMAIN doc : doc[i] \in Seq(WordTokens) BY LenProperties, ElementOfSeq
<1>3. new \in Seq(Seq(WordTokens)) BY SimplifiedReads
<1> HIDE DEF new
<1>4. ASSUME NEW i \in DOMAIN doc PROVE CountOf(new[i], a) <= CountOf(doc[i], a)
  <2> DEFINE p == doc[i]
             once == _merge_tracked_changes_in(p, "ins")
             twice == _merge_tracked_changes_in(once, "del")
  <2>1. p \in Seq(WordTokens) BY <1>2
  <2> HIDE DEF p
  <2>2. once \in Seq(WordTokens) /\ CountOf(once, a) <= CountOf(p, a)
    BY <2>1, TrackedNext, TrackedCounts
  <2> HIDE DEF once
  <2>3. twice \in Seq(WordTokens) /\ CountOf(twice, a) <= CountOf(once, a)
    BY <2>2, TrackedNext, TrackedCounts
  <2>4. new[i] = twice BY <1>1 DEF once, p
  <2> HIDE DEF twice
  <2>5. CountOf(twice, a) \in Nat /\ CountOf(once, a) \in Nat /\ CountOf(p, a) \in Nat
    BY <2>1, <2>2, <2>3, CountNext
  <2>6. QED BY <2>2, <2>3, <2>4, <2>5 DEF p
<1>5. QED BY <1>1, <1>3, <1>4, ParagraphsCount DEF new

LEMMA MergedRunsCount ==
  ASSUME NEW a, NEW doc \in Seq(Seq(WordTokens))
  PROVE  ChangesBy(merge_runs(doc), a) <= ChangesBy(doc, a)
<1> DEFINE new == merge_runs(doc)
<1>1. /\ DOMAIN new = DOMAIN doc
      /\ \A i \in DOMAIN doc : new[i] = _merge_runs_in(_remove_elements(doc[i], "proofErr"))
  BY DEF merge_runs
<1>2. \A i \in DOMAIN doc : doc[i] \in Seq(WordTokens) BY LenProperties, ElementOfSeq
<1>3. new \in Seq(Seq(WordTokens)) BY MergedRunsRead
<1> HIDE DEF new
<1>4. ASSUME NEW i \in DOMAIN doc PROVE CountOf(new[i], a) <= CountOf(doc[i], a)
  <2> DEFINE p == doc[i]
             wanted == {t \in ToSet(p) : t.tag # "proofErr"}
             left == Only(p, wanted)
             merged == _merge_runs_in(left)
  <2>1. p \in Seq(WordTokens) BY <1>2
  <2>2. left = _remove_elements(p, "proofErr") BY DEF _remove_elements
  <2> HIDE DEF p, wanted
  <2>3. left \in Seq(WordTokens) /\ CountOf(left, a) <= CountOf(p, a) BY <2>1, OnlyNext, OnlyCounts
  <2> HIDE DEF left
  <2>4. merged \in Seq(WordTokens) /\ CountOf(merged, a) <= CountOf(left, a)
    BY <2>3, RunsRead, RunsCount
  <2>5. new[i] = merged BY <1>1, <2>2 DEF p
  <2> HIDE DEF merged
  <2>6. CountOf(merged, a) \in Nat /\ CountOf(left, a) \in Nat /\ CountOf(p, a) \in Nat
    BY <2>1, <2>3, <2>4, CountNext
  <2>7. QED BY <2>3, <2>4, <2>5, <2>6 DEF p
<1>5. QED BY <1>1, <1>3, <1>4, ParagraphsCount DEF new

LEMMA SpacesKeptCounts ==
  ASSUME NEW a, NEW doc \in Seq(Seq(WordTokens))
  PROVE  ChangesBy(SpacesKept(doc), a) <= ChangesBy(doc, a)
<1> DEFINE new == SpacesKept(doc)
<1>1. /\ new \in Seq(Seq(WordTokens)) /\ DOMAIN new = DOMAIN doc
      /\ \A i \in DOMAIN doc : new[i] = [n \in DOMAIN doc[i] |-> SpaceKeptToken(doc[i][n])]
  BY SpacesKeptReads
<1>2. DOMAIN doc = 1 .. Len(doc) /\ \A i \in DOMAIN doc : doc[i] \in Seq(WordTokens) /\ new[i] \in Seq(WordTokens)
  BY <1>1, LenProperties, ElementOfSeq
<1> HIDE DEF new
<1>3. ASSUME NEW i \in DOMAIN doc PROVE CountOf(new[i], a) <= CountOf(doc[i], a)
  <2> DEFINE p == doc[i]
             kept == new[i]
  <2>1. p \in Seq(WordTokens) /\ kept \in Seq(WordTokens) BY <1>2
  <2>2. kept = [n \in DOMAIN p |-> SpaceKeptToken(p[n])] BY <1>1
  <2> HIDE DEF p, kept
  <2>3. /\ Len(p) \in Nat /\ DOMAIN p = 1 .. Len(p) /\ Len(kept) \in Nat /\ DOMAIN kept = 1 .. Len(kept)
        /\ \A n \in 1 .. Len(p) : p[n] \in WordTokens
    BY <2>1, LenProperties, ElementOfSeq
  <2>4. Len(kept) = Len(p)
    <3>1. 1 .. Len(kept) = 1 .. Len(p) BY <2>2, <2>3
    <3>2. QED BY <2>3, <3>1, SameInterval
  <2>5. ASSUME NEW n \in 1 .. Len(p), kept[n] \in StartsBy(a) PROVE p[n] \in StartsBy(a)
    <3>1. kept[n] = SpaceKeptToken(p[n]) BY <2>2, <2>3
    <3>2. CASE p[n].tag = "r"
      <4>1. p[n] \in WordTokens BY <2>3
      <4>2. kept[n].tag = "r" BY <3>1, <3>2, <4>1 DEF SpaceKeptToken, WordTokens
      <4>3. QED BY <2>5, <4>2, RunStartsNothing
    <3>3. CASE p[n].tag # "r" BY <2>5, <3>1, <3>3 DEF SpaceKeptToken
    <3>4. QED BY <3>2, <3>3
  <2>6. NoStartMore(p, kept, a) BY <2>4, <2>5 DEF NoStartMore
  <2>7. CountOf(kept, a) <= CountOf(p, a) BY <2>1, <2>6, NoMoreTokenwise
  <2>8. QED BY <2>7 DEF p, kept
<1>4. QED BY <1>1, <1>3, ParagraphsCount DEF new

-----------------------------------------------------------------------------
(* The editor starts changes as Me only.                                   *)

OneIf(a, b) == IF a = b THEN 1 ELSE 0

LEMMA CountOfChange ==
  ASSUME NEW a, NEW tag \in {"ins", "del"}, NEW b \in Writers, NEW inside \in Seq(WordTokens)
  PROVE  CountOf(Change(tag, b, inside), a) = CountOf(inside, a) + OneIf(a, b)
<1> DEFINE first == Start(tag, b)
           last == End(tag, b)
           one == <<first>>
           begun == one \o inside
           count(s) == CountOf(s, a)
<1>1. /\ first \in WordTokens /\ last \in WordTokens /\ begun \in Seq(WordTokens)
      /\ Change(tag, b, inside) = Append(begun, last)
  BY ChangeType
<1>2. last \notin StartsBy(a) /\ (first \in StartsBy(a) <=> a = b)
  <2>1. last.tag = "end" /\ \A x \in StartsBy(a) : x.tag = "start" BY DEF End, StartsBy, Start
  <2>2. first.change = <<tag, b>> /\ \A x \in StartsBy(a) : x.change[2] = a BY DEF StartsBy, Start
  <2>3. a = b => first \in StartsBy(a) BY DEF StartsBy
  <2> HIDE DEF first, last
  <2>4. QED BY <2>1, <2>2, <2>3
<1>3. one \in Seq(WordTokens) /\ one = Append(<<>>, first) /\ <<>> \in Seq(WordTokens) BY <1>1
<1>4. /\ count(<<>>) = 0 /\ \A s \in Seq(WordTokens) : count(s) \in Nat
      /\ \A s \in Seq(WordTokens), x \in WordTokens :
           count(Append(s, x)) = count(s) + IF x \in StartsBy(a) THEN 1 ELSE 0
  BY CountNext
<1> HIDE DEF first, last, one
<1>5. CountOf(begun, a) = CountOf(one, a) + CountOf(inside, a) BY <1>3, CountConcat
<1> HIDE DEF begun
<1>6. CountOf(begun, a) = count(one) + count(inside) BY <1>5
<1> HIDE DEF count
<1>7. count(one) = (IF a = b THEN 1 ELSE 0)
  <2> DEFINE empty == <<>>
  <2>1. empty \in Seq(WordTokens) /\ one = Append(empty, first) /\ count(empty) = 0 BY <1>3, <1>4
  <2> HIDE DEF empty
  <2>2. count(Append(empty, first)) = count(empty) + IF first \in StartsBy(a) THEN 1 ELSE 0
    BY <1>1, <1>4, <2>1
  <2>3. QED BY <1>2, <2>1, <2>2
<1>8. count(Append(begun, last)) = CountOf(begun, a) BY <1>1, <1>2, <1>4 DEF count
<1>9. count(inside) \in Nat BY <1>4
<1>10. count(Append(begun, last)) = count(inside) + (IF a = b THEN 1 ELSE 0) BY <1>6, <1>7, <1>8, <1>9
<1>11. QED BY <1>1, <1>10 DEF count, OneIf

LEMMA RewrittenCounts ==
  ASSUME NEW a, NEW q \in Seq(WordTokens), NEW q2 \in Seq(WordTokens), NEW from, NEW to,
         Rewritten(q, q2, from, to)
  PROVE  CountOf(q2, a) <= CountOf(q, a)
<1>1. ASSUME NEW n \in 1 .. Len(q), q2[n] \in StartsBy(a) PROVE q[n] \in StartsBy(a)
  <2>1. q[n].tag = "r" => q2[n].tag = "r" BY DEF Retagged, Rewritten
  <2>2. q[n].tag # "r" => q2[n] = q[n] BY DEF Retagged, Rewritten
  <2>3. QED BY <1>1, <2>1, <2>2, RunStartsNothing
<1>2. NoStartMore(q, q2, a) BY <1>1 DEF NoStartMore, Rewritten
<1>3. QED BY <1>2, NoMoreTokenwise

LEMMA PlainCounts ==
  ASSUME NEW a, NEW q \in Seq(WordTokens), ~HoldsChange(q)
  PROVE  CountOf(q, a) = 0
<1> DEFINE first(n) == SubSeq(q, 1, n)
           none(n) == CountOf(first(n), a) = 0
           good == {n \in 0 .. Len(q) : none(n)}
<1>1. Len(q) \in Nat /\ DOMAIN q = 1 .. Len(q) BY LenProperties
<1>2. 0 \in good
  <2>1. first(0) = <<>> BY SubSeqEmpty
  <2> HIDE DEF first
  <2>2. none(0) BY <2>1, CountNext
  <2> HIDE DEF none
  <2>3. QED BY <1>1, <2>2
<1>3. ASSUME NEW n \in 1 .. Len(q), n - 1 \in good PROVE n \in good
  <2>1. /\ first(n - 1) \in Seq(WordTokens) /\ q[n] \in WordTokens
        /\ first(n) = Append(first(n - 1), q[n])
    BY FirstOnes
  <2> HIDE DEF first
  <2>2. q[n] \notin StartsBy(a) BY <1>1 DEF HoldsChange, StartsBy, Start
  <2>3. CountOf(first(n - 1), a) = 0 BY <1>3
  <2>4. CountOf(Append(first(n - 1), q[n]), a) =
          CountOf(first(n - 1), a) + IF q[n] \in StartsBy(a) THEN 1 ELSE 0
    BY <2>1, CountNext
  <2>5. none(n) BY <2>1, <2>2, <2>3, <2>4
  <2> HIDE DEF none
  <2>6. n \in 0 .. Len(q) BY <1>1
  <2>7. QED BY <2>5, <2>6
<1>4. \A n \in 0 .. Len(q) : n \in good
  <2> HIDE DEF good
  <2>1. QED BY <1>1, <1>2, <1>3, LoopKeeps
<1>5. none(Len(q))
  <2> HIDE DEF none
  <2>1. Len(q) \in 0 .. Len(q) BY <1>1
  <2>2. QED BY <1>4, <2>1
<1>6. first(Len(q)) = q BY SubSeqFull
<1> HIDE DEF first
<1>7. QED BY <1>5, <1>6

LEMMA InsertedCounts ==
  ASSUME NEW a \in Writers \ {Me}, NEW tag \in PieceTags
  PROVE  CountOf(Inserted(tag), a) = 0
<1> DEFINE x == NewRun(tag)
           inside == <<x>>
<1>1. Me \in Writers /\ a # Me BY DocxAssumption
<1>2. x \in WordTokens BY InsertedType
<1>3. x.tag = "r" BY DEF NewRun, Run
<1>4. Inserted(tag) = Change("ins", Me, inside) BY DEF Inserted, NewRun
<1> HIDE DEF x
<1>5. inside \in Seq(WordTokens) /\ ~HoldsChange(inside) BY <1>2, <1>3 DEF HoldsChange
<1> HIDE DEF inside
<1>6. CountOf(inside, a) = 0 BY <1>5, PlainCounts
<1>7. CountOf(Change("ins", Me, inside), a) = CountOf(inside, a) + IF a = Me THEN 1 ELSE 0
  BY <1>1, <1>5, CountOfChange DEF OneIf
<1>8. QED BY <1>1, <1>4, <1>6, <1>7

LEMMA RenamedCounts ==
  ASSUME NEW a, NEW q \in Seq(WordTokens)
  PROVE  /\ AsDeleted(q) \in Seq(WordTokens) /\ CountOf(AsDeleted(q), a) <= CountOf(q, a)
         /\ Restored(q) \in Seq(WordTokens) /\ CountOf(Restored(q), a) <= CountOf(q, a)
         /\ ~HoldsChange(q) => ~HoldsChange(Restored(q))
         /\ CountOf(AsDeleted(q), a) \in Nat /\ CountOf(Restored(q), a) \in Nat /\ CountOf(q, a) \in Nat
<1> DEFINE gone == AsDeleted(q)
           back == Restored(q)
<1>1. gone \in Seq(WordTokens) /\ Rewritten(q, gone, "t", "delText")
  BY RenamedRetags DEF AsDeleted, PieceTags
<1>2. back \in Seq(WordTokens) /\ Rewritten(q, back, "delText", "t")
  BY RenamedRetags DEF Restored, PieceTags
<1> HIDE DEF gone, back
<1>3. CountOf(gone, a) <= CountOf(q, a) BY <1>1, RewrittenCounts
<1>4. CountOf(back, a) <= CountOf(q, a) BY <1>2, RewrittenCounts
<1>5. ~HoldsChange(q) => ~HoldsChange(back) BY <1>2, RetaggedPlain
<1>6. CountOf(gone, a) \in Nat /\ CountOf(back, a) \in Nat /\ CountOf(q, a) \in Nat
  BY <1>1, <1>2, CountNext
<1>7. QED BY <1>1, <1>2, <1>3, <1>4, <1>5, <1>6 DEF gone, back

LEMMA EditCounts ==
  ASSUME NEW a \in Writers \ {Me}, NEW node \in Seq(WordTokens), NEW new \in EditsOf(node)
  PROVE  CountOf(new, a) <= CountOf(node, a)
<1> DEFINE count(s) == CountOf(s, a)
           one(b) == OneIf(a, b)
<1>1. Me \in Writers /\ one(Me) = 0 BY DocxAssumption DEF OneIf
<1>2. count(<<>>) = 0 /\ \A s \in Seq(WordTokens) : count(s) \in Nat BY CountNext
<1>3. \A tag \in {"ins", "del"}, b \in Writers, s \in Seq(WordTokens) :
        /\ Change(tag, b, s) \in Seq(WordTokens)
        /\ count(Change(tag, b, s)) = count(s) + one(b)
  <2>1. ASSUME NEW tag \in {"ins", "del"}, NEW b \in Writers, NEW s \in Seq(WordTokens)
        PROVE  Change(tag, b, s) \in Seq(WordTokens)
    BY ChangeType
  <2>2. ASSUME NEW tag \in {"ins", "del"}, NEW b \in Writers, NEW s \in Seq(WordTokens)
        PROVE  count(Change(tag, b, s)) = count(s) + one(b)
    BY CountOfChange, Zenon
  <2> HIDE DEF count, one
  <2>3. QED BY <2>1, <2>2
<1>4. \A s \in Seq(WordTokens), t \in Seq(WordTokens) : count(s \o t) = count(s) + count(t)
  BY CountConcat
<1>5. \A s \in Seq(WordTokens) :
        /\ AsDeleted(s) \in Seq(WordTokens) /\ count(AsDeleted(s)) <= count(s)
        /\ Restored(s) \in Seq(WordTokens) /\ count(Restored(s)) <= count(s)
        /\ ~HoldsChange(s) => ~HoldsChange(Restored(s))
  BY RenamedCounts
<1>6. \A s \in Seq(WordTokens) : ~HoldsChange(s) => count(s) = 0 BY PlainCounts
<1>7. \A tag \in {"t", "delText"} : Inserted(tag) \in Seq(WordTokens) /\ count(Inserted(tag)) = 0
  BY InsertedType, InsertedCounts DEF PieceTags
<1>8. \A b : one(b) \in Nat BY DEF OneIf
<1> SUFFICES count(new) <= count(node) OBVIOUS
<1> HIDE DEF count, one
<1>9. count(node) \in Nat BY <1>2
<1>10. CASE \E tag \in {"t", "delText"} : new = node \o Inserted(tag)
  <2>1. PICK tag \in {"t", "delText"} : new = node \o Inserted(tag) BY <1>10
  <2>2. count(node \o Inserted(tag)) = count(node) + count(Inserted(tag)) BY <1>4, <1>7
  <2>3. count(new) = count(node) BY <1>7, <1>9, <2>1, <2>2
  <2>4. QED BY <1>9, <2>3
<1>11. CASE node[1].tag = "r" /\ new \in EditsOfRun(node)
  <2>1. new \in {Change("del", Me, AsDeleted(node)), Change("del", Me, node), <<>>}
    BY <1>11 DEF EditsOfRun
  <2>2. count(Change("del", Me, AsDeleted(node))) = count(AsDeleted(node)) + one(Me) BY <1>1, <1>3, <1>5
  <2>3. count(Change("del", Me, node)) = count(node) + one(Me) BY <1>1, <1>3
  <2>4. count(AsDeleted(node)) <= count(node) /\ count(AsDeleted(node)) \in Nat BY <1>2, <1>5
  <2>5. QED BY <1>1, <1>2, <1>9, <2>1, <2>2, <2>3, <2>4
<1>12. CASE \E b \in Others("ins", node) : new \in EditsOfInsertion(b, Inside(node))
  <2>1. PICK b \in Others("ins", node) : new \in EditsOfInsertion(b, Inside(node)) BY <1>12
  <2> DEFINE inside == Inside(node)
             gone == AsDeleted(inside)
             mine == Change("del", Me, gone)
             both == Change("ins", b, mine)
  <2>2. b \in Writers /\ inside \in Seq(WordTokens) /\ node = Change("ins", b, inside) BY NodeOfChange
  <2>3. new \in {inside, <<>>, both} BY <2>1 DEF EditsOfInsertion
  <2> HIDE DEF inside
  <2>4. gone \in Seq(WordTokens) /\ count(gone) <= count(inside) BY <1>5, <2>2
  <2> HIDE DEF gone
  <2>5. mine \in Seq(WordTokens) /\ count(mine) = count(gone) + one(Me) BY <1>1, <1>3, <2>4
  <2> HIDE DEF mine
  <2>6. count(both) = count(mine) + one(b) BY <1>3, <2>2, <2>5
  <2> HIDE DEF both
  <2>7. count(node) = count(inside) + one(b) BY <1>3, <2>2
  <2>8. count(inside) \in Nat /\ count(gone) \in Nat /\ one(b) \in Nat BY <1>2, <1>8, <2>2, <2>4
  <2>9. count(inside) <= count(node) /\ count(both) <= count(node) /\ count(<<>>) <= count(node)
    BY <1>1, <1>2, <2>4, <2>5, <2>6, <2>7, <2>8
  <2>10. QED BY <2>3, <2>9
<1>13. CASE \E b \in Others("del", node) : new \in EditsOfDeletion(b, Inside(node))
  <2>1. PICK b \in Others("del", node) : new \in EditsOfDeletion(b, Inside(node)) BY <1>13
  <2> DEFINE inside == Inside(node)
             back == Restored(inside)
             mine == Change("ins", Me, back)
  <2>2. b \in Writers /\ inside \in Seq(WordTokens) /\ node = Change("del", b, inside) BY NodeOfChange
  <2>3. new \in {back, <<>>} \/ (~HoldsChange(inside) /\ new = node \o mine)
    BY <2>1, <2>2 DEF EditsOfDeletion
  <2> HIDE DEF inside
  <2>4. back \in Seq(WordTokens) /\ count(back) <= count(inside) /\ (~HoldsChange(inside) => count(back) = 0)
    BY <1>5, <1>6, <2>2
  <2> HIDE DEF back
  <2>5. mine \in Seq(WordTokens) /\ count(mine) = count(back) + one(Me) BY <1>1, <1>3, <2>4
  <2> HIDE DEF mine
  <2>6. count(node) = count(inside) + one(b) BY <1>3, <2>2
  <2>7. count(inside) \in Nat /\ count(back) \in Nat /\ one(b) \in Nat BY <1>2, <1>8, <2>2, <2>4
  <2>8. count(back) <= count(node) /\ count(<<>>) <= count(node) BY <1>2, <2>4, <2>6, <2>7
  <2>9. count(node \o mine) = count(node) + count(mine) BY <1>4, <2>5
  <2>10. ~HoldsChange(inside) => count(node \o mine) = count(node) BY <1>1, <1>9, <2>4, <2>5, <2>9
  <2>11. CASE new \in {back, <<>>} BY <2>8, <2>11
  <2>12. CASE ~HoldsChange(inside) /\ new = node \o mine
    <3>1. count(new) = count(node) BY <2>10, <2>12
    <3>2. QED BY <1>9, <3>1
  <2>13. QED BY <2>3, <2>11, <2>12
<1>14. QED BY <1>10, <1>11, <1>12, <1>13, EditCases

LEMMA EditedCounts ==
  ASSUME NEW a \in Writers \ {Me}, NEW p \in Seq(WordTokens), NEW from \in DOMAIN p, NEW to \in DOMAIN p,
         from <= to, NEW new \in EditsOf(SubSeq(p, from, to))
  PROVE  CountOf(SubSeq(p, 1, from - 1) \o new \o SubSeq(p, to + 1, Len(p)), a) <= CountOf(p, a)
<1> DEFINE before == SubSeq(p, 1, from - 1)
           node == SubSeq(p, from, to)
           after == SubSeq(p, to + 1, Len(p))
           half == before \o node
           new2 == before \o new
<1>1. /\ before \in Seq(WordTokens) /\ node \in Seq(WordTokens) /\ after \in Seq(WordTokens)
      /\ p = half \o after
  BY PartsOf
<1>2. new \in EditsOf(node) OBVIOUS
<1> HIDE DEF before, node, after
<1>3. new \in Seq(WordTokens) /\ CountOf(new, a) <= CountOf(node, a) BY <1>1, <1>2, EditsType, EditCounts
<1>4. half \in Seq(WordTokens) /\ new2 \in Seq(WordTokens) BY <1>1, <1>3, ConcatProperties
<1>5. /\ CountOf(half, a) = CountOf(before, a) + CountOf(node, a)
      /\ CountOf(before, a) \in Nat /\ CountOf(node, a) \in Nat
  BY <1>1, CountConcat
<1>6. /\ CountOf(new2, a) = CountOf(before, a) + CountOf(new, a) /\ CountOf(new, a) \in Nat
  BY <1>1, <1>3, CountConcat
<1> HIDE DEF half, new2
<1>7. /\ CountOf(half \o after, a) = CountOf(half, a) + CountOf(after, a) /\ CountOf(after, a) \in Nat
  BY <1>1, <1>4, CountConcat
<1>8. CountOf(new2 \o after, a) = CountOf(new2, a) + CountOf(after, a) BY <1>1, <1>4, CountConcat
<1>9. CountOf(new2 \o after, a) <= CountOf(half \o after, a) BY <1>3, <1>5, <1>6, <1>7, <1>8
<1>10. QED BY <1>1, <1>9 DEF new2, before, after

-----------------------------------------------------------------------------
(* What the checks of a package say of its words.                          *)

(* A word comes from a run, under what is open there.                      *)
LEMMA WordsComeFrom ==
  ASSUME NEW p \in Seq(WordTokens), NEW w \in WordsAfter(p)
  PROVE  \E n \in DOMAIN p :
           /\ p[n].tag = "r" /\ p[n] \in WordTokens
           /\ InForce(Seen(p)[n - 1].open) \in SUBSET TrackedChanges
           /\ w \in ToSet(WordsOfRun(p[n], InForce(Seen(p)[n - 1].open)))
<1> DEFINE from(n, v) == /\ p[n].tag = "r" /\ p[n] \in WordTokens
                         /\ InForce(Seen(p)[n - 1].open) \in SUBSET TrackedChanges
                         /\ v \in ToSet(WordsOfRun(p[n], InForce(Seen(p)[n - 1].open)))
           first(n) == SubSeq(p, 1, n)
           kept(n) == \A v \in WordsAfter(first(n)) : \E m \in 1 .. n : from(m, v)
           good == {n \in 0 .. Len(p) : kept(n)}
<1>1. Len(p) \in Nat /\ DOMAIN p = 1 .. Len(p) BY LenProperties
<1>2. 0 \in good
  <2>1. first(0) = <<>> BY SubSeqEmpty
  <2>2. ReadAll(<<>>).words = <<>> BY ReadNext DEF NothingRead
  <2>3. WordsAfter(<<>>) = {} BY <2>2 DEF WordsAfter, ToSet
  <2> HIDE DEF first, from
  <2>4. kept(0) BY <2>1, <2>3
  <2> HIDE DEF kept
  <2>5. QED BY <1>1, <2>4
<1>3. ASSUME NEW n \in 1 .. Len(p), n - 1 \in good PROVE n \in good
  <2> DEFINE t == first(n - 1)
             x == p[n]
             u == InForce(OpenAfter(t))
  <2>1. t \in Seq(WordTokens) /\ x \in WordTokens /\ first(n) = Append(t, x) BY FirstOnes
  <2>2. Seen(p)[n - 1] = ReadAll(t)
    <3>1. n - 1 \in 0 .. Len(p) BY <1>1
    <3>2. QED BY <3>1, ReadNext
  <2>3. u = InForce(Seen(p)[n - 1].open) BY <2>2 DEF OpenAfter
  <2>4. \A v \in WordsAfter(t) : \E m \in 1 .. n - 1 : from(m, v) BY <1>3
  <2>5. ASSUME NEW v \in WordsAfter(Append(t, x)) PROVE \E m \in 1 .. n : from(m, v)
    <3> HIDE DEF t, x, first
    <3>1. CASE v \in WordsAfter(t)
      <4> HIDE DEF from
      <4>1. PICK m \in 1 .. n - 1 : from(m, v) BY <2>4, <3>1
      <4>2. m \in 1 .. n BY <1>1
      <4>3. QED BY <4>1, <4>2
    <3>2. CASE v \notin WordsAfter(t)
      <4>1. x.tag = "r" BY <2>1, <2>5, <3>2, ReadOneMore
      <4>2. /\ u \in SUBSET TrackedChanges
            /\ WordsAfter(Append(t, x)) = WordsAfter(t) \cup ToSet(WordsOfRun(x, u))
        BY <2>1, <4>1, ReadOneMore
      <4>3. v \in ToSet(WordsOfRun(x, u)) BY <2>5, <3>2, <4>2
      <4>4. from(n, v) BY <2>1, <2>3, <4>1, <4>2, <4>3 DEF x
      <4> HIDE DEF from
      <4>5. n \in 1 .. n BY <1>1
      <4>6. QED BY <4>4, <4>5
    <3>3. QED BY <3>1, <3>2
  <2> HIDE DEF from, t, x, first
  <2>6. kept(n) BY <2>1, <2>5
  <2> HIDE DEF kept
  <2>7. n \in 0 .. Len(p) BY <1>1
  <2>8. QED BY <2>6, <2>7
<1>4. \A n \in 0 .. Len(p) : n \in good
  <2> HIDE DEF good
  <2>1. QED BY <1>1, <1>2, <1>3, LoopKeeps
<1>5. kept(Len(p))
  <2> HIDE DEF kept
  <2>1. Len(p) \in 0 .. Len(p) BY <1>1
  <2>2. QED BY <1>4, <2>1
<1>6. first(Len(p)) = p BY SubSeqFull
<1> HIDE DEF first
<1>7. \E m \in 1 .. Len(p) : from(m, w)
  <2> HIDE DEF from
  <2>1. QED BY <1>5, <1>6
<1>8. QED BY <1>1, <1>7

(* What is not in w:delText is not struck out.                             *)
Kept(w) == w.tag = "t" => ~Under(w, "del")

LEMMA DeletionsValid ==
  ASSUME NEW doc \in Seq(Seq(WordTokens)), validate_deletions(doc),
         NEW i \in DOMAIN doc, NEW w \in WordsAfter(doc[i])
  PROVE  Kept(w)
<1> DEFINE p == doc[i]
           under(n) == InForce(Seen(doc[i])[n - 1].open)
<1>1. p \in Seq(WordTokens) BY LenProperties, ElementOfSeq
<1>2. PICK n \in DOMAIN p :
        /\ p[n].tag = "r" /\ p[n] \in WordTokens /\ under(n) \in SUBSET TrackedChanges
        /\ w \in ToSet(WordsOfRun(p[n], under(n)))
  <2> DEFINE q == p
  <2>1. q \in Seq(WordTokens) /\ w \in WordsAfter(q) BY <1>1
  <2> HIDE DEF q
  <2>2. \E n \in DOMAIN q :
           /\ q[n].tag = "r" /\ q[n] \in WordTokens
           /\ InForce(Seen(q)[n - 1].open) \in SUBSET TrackedChanges
           /\ w \in ToSet(WordsOfRun(q[n], InForce(Seen(q)[n - 1].open)))
    BY <2>1, WordsComeFrom
  <2>3. QED BY <2>2 DEF q
<1> DEFINE x == p[n]
           u == under(n)
<1>3. \E k \in DOMAIN x.kids : \E j \in DOMAIN x.kids[k].text :
        w = [word |-> x.kids[k].text[j], tag |-> x.kids[k].tag, rpr |-> x.rpr, under |-> u]
  <2>1. x \in WordTokens /\ x.tag = "r" /\ u \in SUBSET TrackedChanges /\ w \in ToSet(WordsOfRun(x, u))
    BY <1>2
  <2> HIDE DEF x, u
  <2>2. QED BY <2>1, WordsOfRunMembers
<1>4. PICK k \in DOMAIN x.kids : \E j \in DOMAIN x.kids[k].text :
        w = [word |-> x.kids[k].text[j], tag |-> x.kids[k].tag, rpr |-> x.rpr, under |-> u]
  BY <1>3
<1>5. PICK j \in DOMAIN x.kids[k].text :
        w = [word |-> x.kids[k].text[j], tag |-> x.kids[k].tag, rpr |-> x.rpr, under |-> u]
  BY <1>4
<1> DEFINE element == [piece |-> x.kids[k], under |-> u]
           ofToken(m) == {[piece |-> doc[i][m].kids[h], under |-> under(m)] : h \in DOMAIN doc[i][m].kids}
<1>6. element \in TextElements(doc)
  <2>1. element \in ofToken(n) OBVIOUS
  <2>2. n \in {m \in DOMAIN doc[i] : doc[i][m].tag = "r"} BY <1>2
  <2>3. ofToken(n) \subseteq TextElements(doc) BY <2>2 DEF TextElements
  <2>4. QED BY <2>1, <2>3
<1>7. SUFFICES ASSUME w.tag = "t", Under(w, "del") PROVE FALSE BY DEF Kept
<1>8. element.under = w.under /\ element.piece.tag = "t" BY <1>5, <1>7
<1> HIDE DEF element
<1>9. Under(element, "del") BY <1>7, <1>8 DEF Under
<1>10. element.piece.text = <<>> BY <1>6, <1>8, <1>9 DEF validate_deletions
<1>11. x.kids[k].text = <<>> BY <1>10 DEF element
<1>12. QED BY <1>11

(* Where all is told and what is struck out is in w:delText the text       *)
(* without Me's changes is what is seen without them.                      *)
LEMMA TextIsShown ==
  ASSUME NEW words \in Seq(WordSet), \A w \in ToSet(words) : Told(w) /\ Kept(w)
  PROVE  TextOfParagraph(words, Me) = ShownOf(words, {Me})
<1> DEFINE hidden(w) == \E c \in w.under : \/ c[1] = "ins" /\ c[2] \in {Me}
                                           \/ c[1] = "del" /\ c[2] \notin {Me}
<1>1. Me \in Writers BY DocxAssumption
<1>2. \A w \in ToSet(words) : w \in WordSet
  <2>1. \A k \in DOMAIN words : words[k] \in WordSet BY LenProperties, ElementOfSeq
  <2>2. QED BY <2>1 DEF ToSet
<1>3. ASSUME NEW w \in ToSet(words)
      PROVE  w \in _remove_author_tracked_changes(words, Me) <=> ~hidden(w)
  <2>1. w \in WordSet /\ Told(w) /\ Kept(w) BY <1>2
  <2>2. /\ w.under \in SUBSET TrackedChanges
        /\ Under(w, "del") <=> \E a \in Writers : <<"del", a>> \in w.under
    BY <2>1, UnderSome
  <2>3. hidden(w) <=> \/ <<"ins", Me>> \in w.under
                      \/ \E a \in Writers \ {Me} : <<"del", a>> \in w.under
    <3>1. ASSUME hidden(w)
          PROVE  \/ <<"ins", Me>> \in w.under
                 \/ \E a \in Writers \ {Me} : <<"del", a>> \in w.under
      <4>1. PICK c \in w.under : \/ c[1] = "ins" /\ c[2] = Me
                                 \/ c[1] = "del" /\ c[2] # Me
        BY <3>1
      <4>2. c \in TrackedChanges BY <2>2
      <4>3. c = <<c[1], c[2]>> /\ c[2] \in Writers BY <4>2 DEF TrackedChanges
      <4>4. QED BY <4>1, <4>3
    <3>2. ASSUME <<"ins", Me>> \in w.under PROVE hidden(w)
      <4> DEFINE c == <<"ins", Me>>
      <4>1. c \in w.under /\ c[1] = "ins" /\ c[2] \in {Me} BY <3>2
      <4> HIDE DEF c
      <4>2. QED BY <4>1
    <3>3. ASSUME NEW a \in Writers \ {Me}, <<"del", a>> \in w.under PROVE hidden(w)
      <4> DEFINE c == <<"del", a>>
      <4>1. c \in w.under /\ c[1] = "del" /\ c[2] \notin {Me} BY <3>3
      <4> HIDE DEF c
      <4>2. QED BY <4>1
    <3>4. QED BY <3>1, <3>2, <3>3
  <2> HIDE DEF hidden
  <2>4. w \in _remove_author_tracked_changes(words, Me) <=>
          /\ <<"ins", Me>> \notin w.under
          /\ w.tag = "t" \/ (w.tag = "delText" /\ <<"del", Me>> \in w.under)
    BY DEF _remove_author_tracked_changes
  <2>5. CASE w.tag = "t"
    <3>1. \A a \in Writers : <<"del", a>> \notin w.under BY <2>1, <2>2, <2>5 DEF Kept
    <3>2. QED BY <2>3, <2>4, <2>5, <3>1
  <2>6. CASE w.tag = "delText"
    <3>1. (\E a \in Writers : <<"del", a>> \in w.under) \/ <<"ins", Me>> \in w.under
      BY <2>1, <2>2, <2>6 DEF Told
    <3>2. <<"del", Me>> \in w.under => \A a \in Writers \ {Me} : <<"del", a>> \notin w.under
      BY <2>1 DEF Told
    <3>3. QED BY <1>1, <2>3, <2>4, <2>6, <3>1, <3>2
  <2>7. QED BY <2>1, <2>5, <2>6 DEF Told
<1>4. _remove_author_tracked_changes(words, Me) = {w \in ToSet(words) : ~hidden(w)}
  <2>1. _remove_author_tracked_changes(words, Me) \subseteq ToSet(words)
    BY DEF _remove_author_tracked_changes
  <2> HIDE DEF hidden
  <2>2. QED BY <1>3, <2>1
<1>5. ShownOf(words, {Me}) = Text(Only(words, {w \in ToSet(words) : ~hidden(w)}))
  BY Zenon DEF ShownOf
<1> HIDE DEF hidden
<1>6. TextOfParagraph(words, Me) = Text(Only(words, _remove_author_tracked_changes(words, Me)))
  BY DEF TextOfParagraph
<1>7. QED BY <1>4, <1>5, <1>6

(* Paragraphs without text say nothing.                                    *)
LEMMA FlatWithoutEmpty ==
  ASSUME NEW X, NEW parts \in Seq(Seq(X))
  PROVE  FlattenSeq(Only(parts, ToSet(parts) \ {<<>>})) = FlattenSeq(parts)
<1> DEFINE E == Seq(X)
           wanted == ToSet(parts) \ {<<>>}
           kept(s) == Only(s, wanted)
           flat(s) == FlattenSeq(s)
           first(n) == SubSeq(parts, 1, n)
           same(n) == flat(kept(first(n))) = flat(first(n))
           good == {n \in 0 .. Len(parts) : same(n)}
<1>1. /\ kept(<<>>) = <<>> /\ \A s \in Seq(E) : kept(s) \in Seq(E)
      /\ \A s \in Seq(E), x \in E :
           kept(Append(s, x)) = IF x \in wanted THEN Append(kept(s), x) ELSE kept(s)
  BY OnlyNext, Zenon
<1>2. /\ flat(<<>>) = <<>> /\ \A s \in Seq(E) : flat(s) \in Seq(X)
      /\ \A s \in Seq(E), x \in E : flat(Append(s, x)) = flat(s) \o x
  BY FlattenNext
<1>3. parts \in Seq(E) /\ Len(parts) \in Nat /\ DOMAIN parts = 1 .. Len(parts) BY LenProperties
<1>4. \A n \in 1 .. Len(parts) : parts[n] \in wanted \/ parts[n] = <<>> BY <1>3 DEF ToSet
<1> HIDE DEF kept, flat, wanted, E
<1>5. 0 \in good
  <2>1. first(0) = <<>> BY SubSeqEmpty
  <2> HIDE DEF first
  <2>2. same(0) BY <1>1, <2>1
  <2> HIDE DEF same
  <2>3. QED BY <1>3, <2>2
<1>6. ASSUME NEW n \in 1 .. Len(parts), n - 1 \in good PROVE n \in good
  <2> DEFINE t == first(n - 1)
             x == parts[n]
  <2>1. t \in Seq(E) /\ x \in E /\ first(n) = Append(t, x) BY <1>3, FirstOnes
  <2>2. flat(kept(t)) = flat(t) BY <1>6
  <2>3. x \in wanted \/ x = <<>> BY <1>4
  <2> HIDE DEF t, x, first
  <2>4. kept(t) \in Seq(E) /\ flat(t) \in Seq(X) BY <1>1, <1>2, <2>1
  <2>5. flat(Append(t, x)) = flat(t) \o x /\ flat(Append(kept(t), x)) = flat(kept(t)) \o x
    BY <1>2, <2>1, <2>4
  <2>6. flat(kept(Append(t, x))) = flat(Append(t, x))
    <3>1. CASE x \in wanted
      <4>1. kept(Append(t, x)) = Append(kept(t), x) BY <1>1, <2>1, <3>1
      <4>2. QED BY <2>2, <2>5, <4>1
    <3>2. CASE x \notin wanted
      <4>1. kept(Append(t, x)) = kept(t) BY <1>1, <2>1, <3>2
      <4>2. flat(t) \o x = flat(t) BY <2>3, <2>4, <3>2, ConcatEmptySeq
      <4>3. QED BY <2>2, <2>5, <4>1, <4>2
    <3>3. QED BY <3>1, <3>2
  <2>7. same(n) BY <2>1, <2>6
  <2> HIDE DEF same
  <2>8. n \in 0 .. Len(parts) BY <1>3
  <2>9. QED BY <2>7, <2>8
<1>7. \A n \in 0 .. Len(parts) : n \in good
  <2> HIDE DEF good
  <2>1. QED BY <1>3, <1>5, <1>6, LoopKeeps
<1>8. same(Len(parts))
  <2> HIDE DEF same
  <2>1. Len(parts) \in 0 .. Len(parts) BY <1>3
  <2>2. QED BY <1>7, <2>1
<1>9. first(Len(parts)) = parts BY SubSeqFull
<1> HIDE DEF first
<1>10. QED BY <1>8, <1>9 DEF flat, kept, wanted

LEMMA TextsType ==
  ASSUME NEW words \in Seq(WordSet), NEW author
  PROVE  TextOfParagraph(words, author) \in Seq(Vocabulary)
<1> DEFINE wanted == _remove_author_tracked_changes(words, author)
           left == Only(words, wanted)
<1>1. left \in Seq(WordSet)
  <2> HIDE DEF wanted
  <2>1. QED BY OnlyNext
<1>2. TextOfParagraph(words, author) = Text(left) BY DEF TextOfParagraph
<1> HIDE DEF left
<1>3. /\ Len(left) \in Nat /\ DOMAIN left = 1 .. Len(left)
      /\ \A k \in 1 .. Len(left) : left[k] \in WordSet
  BY <1>1, LenProperties, ElementOfSeq
<1>4. \A k \in 1 .. Len(left) : left[k].word \in Vocabulary BY <1>3 DEF WordSet
<1>5. Text(left) \in [1 .. Len(left) -> Vocabulary] BY <1>3, <1>4 DEF Text
<1>6. QED BY <1>2, <1>3, <1>5

(* The text compared is the text seen.                                     *)
LEMMA ExtractIsShown ==
  ASSUME NEW doc \in Seq(Seq(WordTokens)),
         \A i \in DOMAIN doc : \A w \in WordsAfter(doc[i]) : Told(w) /\ Kept(w)
  PROVE  Shown(doc, {Me}) = FlattenSeq(_extract_text_content(doc, Me))
<1> DEFINE text(i) == TextOfParagraph(WordsOf(doc[i]), Me)
           parts == [i \in DOMAIN doc |-> text(i)]
<1>1. Len(doc) \in Nat /\ DOMAIN doc = 1 .. Len(doc) BY LenProperties
<1>2. ASSUME NEW i \in DOMAIN doc
      PROVE  text(i) \in Seq(Vocabulary) /\ text(i) = ShownOf(WordsOf(doc[i]), {Me})
  <2> DEFINE words == WordsOf(doc[i])
  <2>1. doc[i] \in Seq(WordTokens) BY <1>1, ElementOfSeq
  <2>2. words = ReadAll(doc[i]).words /\ WordsAfter(doc[i]) = ToSet(words)
    BY DEF WordsOf, ReadAll, WordsAfter
  <2>3. words \in Seq(WordSet)
    <3> DEFINE p == doc[i]
    <3>1. p \in Seq(WordTokens) /\ words = ReadAll(p).words BY <2>1, <2>2
    <3> HIDE DEF p, words
    <3>2. QED BY <3>1, ReadAllType
  <2>4. \A w \in ToSet(words) : Told(w) /\ Kept(w) BY <2>2
  <2>5. text(i) = TextOfParagraph(words, Me) OBVIOUS
  <2> HIDE DEF words
  <2>6. TextOfParagraph(words, Me) \in Seq(Vocabulary) BY <2>3, TextsType
  <2>7. TextOfParagraph(words, Me) = ShownOf(words, {Me}) BY <2>3, <2>4, TextIsShown
  <2>8. QED BY <2>5, <2>6, <2>7 DEF words
<1>3. parts = [i \in DOMAIN doc |-> ShownOf(WordsOf(doc[i]), {Me})]
  <2> HIDE DEF text
  <2>1. QED BY <1>2
<1>4. Shown(doc, {Me}) = FlattenSeq(parts) BY <1>3 DEF Shown
<1>5. _extract_text_content(doc, Me) = Only(parts, ToSet(parts) \ {<<>>}) BY DEF _extract_text_content
<1>6. parts \in Seq(Seq(Vocabulary))
  <2> DEFINE S == Seq(Vocabulary)
  <2>1. parts \in [1 .. Len(doc) -> S]
    <3> HIDE DEF text
    <3>1. \A i \in 1 .. Len(doc) : text(i) \in S BY <1>1, <1>2
    <3> HIDE DEF S
    <3>2. QED BY <1>1, <3>1
  <2>2. Len(doc) \in Nat BY <1>1
  <2> DEFINE N == Len(doc)
  <2>3. parts \in [1 .. N -> S] /\ N \in Nat BY <2>1, <2>2
  <2> HIDE DEF parts, S, N
  <2>4. parts \in Seq(S) BY <2>3
  <2>5. QED BY <2>4 DEF S
<1> HIDE DEF parts
<1>7. FlattenSeq(Only(parts, ToSet(parts) \ {<<>>})) = FlattenSeq(parts) BY <1>6, FlatWithoutEmpty
<1>8. QED BY <1>4, <1>5, <1>7

(* What a word processor wrote is told.                                    *)
LEMMA OriginalTold ==
  ASSUME NEW o \in Originals
  PROVE  /\ o.doc \in Seq(Seq(WordTokens))
         /\ \A i \in DOMAIN o.doc : \A w \in WordsAfter(o.doc[i]) : Told(w) /\ Kept(w)
<1>1. o.doc \in Seq(Seq(WordTokens)) /\ \A i \in DOMAIN o.doc : WellWritten(WordsOf(o.doc[i]))
  BY DocxAssumption
<1>2. ASSUME NEW i \in DOMAIN o.doc, NEW w \in WordsAfter(o.doc[i]) PROVE Told(w) /\ Kept(w)
  <2>1. WordsAfter(o.doc[i]) = ToSet(WordsOf(o.doc[i])) BY DEF WordsAfter, WordsOf, ReadAll
  <2>2. /\ w.tag = IF Under(w, "del") THEN "delText" ELSE "t"
        /\ <<"del", Me>> \in w.under => \A a \in Writers \ {Me} : <<"del", a>> \notin w.under
    BY <1>1, <2>1 DEF WellWritten
  <2>3. QED BY <2>2 DEF Told, Kept
<1>3. QED BY <1>1, <1>2

ToldDoc(doc) == \A i \in DOMAIN doc : ToldIn(doc[i])

LEMMA AlikeTold ==
  ASSUME NEW doc, NEW new, Words(new) = Words(doc), ToldDoc(doc)
  PROVE  ToldDoc(new)
<1>1. \A d : \A i \in DOMAIN d : WordsAfter(d[i]) = ToSet(WordsOf(d[i]))
  BY DEF WordsAfter, WordsOf, ReadAll
<1>2. \A d : DOMAIN Words(d) = DOMAIN d /\ \A i \in DOMAIN d : Words(d)[i] = WordsOf(d[i])
  BY DEF Words
<1>3. DOMAIN new = DOMAIN doc /\ \A i \in DOMAIN doc : WordsOf(new[i]) = WordsOf(doc[i]) BY <1>2
<1>4. \A i \in DOMAIN new : WordsAfter(new[i]) = WordsAfter(doc[i]) BY <1>1, <1>3
<1>5. QED BY <1>3, <1>4 DEF ToldDoc, ToldIn

LEMMA ChangesByType ==
  ASSUME NEW a, NEW doc \in Seq(Seq(WordTokens))
  PROVE  ChangesBy(doc, a) \in Nat
<1>1. FlattenSeq(doc) \in Seq(WordTokens) BY FlattenNext
<1>2. CountOf(FlattenSeq(doc), a) \in Nat BY <1>1, CountNext
<1>3. QED BY <1>2 DEF CountOf, ChangesBy, StartsBy

(* Only Me has more changes than there were: the check is made for Me.     *)
LEMMA InferredIsMe ==
  ASSUME NEW doc \in Seq(Seq(WordTokens)), NEW original \in Seq(Seq(WordTokens)),
         \A a \in Writers \ {Me} : ChangesBy(doc, a) <= ChangesBy(original, a)
  PROVE  infer_author(doc, original, Me) = Me
<1> DEFINE more == {a \in Writers :
             get_tracked_change_authors(doc)[a] > get_tracked_change_authors(original)[a]}
<1>1. \A a \in Writers : /\ get_tracked_change_authors(doc)[a] = ChangesBy(doc, a)
                         /\ get_tracked_change_authors(original)[a] = ChangesBy(original, a)
  BY DEF get_tracked_change_authors
<1>2. \A a : ChangesBy(doc, a) \in Nat /\ ChangesBy(original, a) \in Nat BY ChangesByType
<1>3. more \subseteq {Me} BY <1>1, <1>2
<1>4. infer_author(doc, original, Me) = IF Cardinality(more) = 1 THEN CHOOSE a \in more : TRUE ELSE Me
  BY DEF infer_author
<1> HIDE DEF more
<1>5. CASE more = {}
  <2>1. Cardinality(more) = 0 BY <1>5, FS_EmptySet
  <2>2. QED BY <1>4, <2>1
<1>6. CASE more = {Me}
  <2>1. (CHOOSE a \in more : TRUE) = Me BY <1>6
  <2>2. QED BY <1>4, <2>1
<1>7. QED BY <1>3, <1>5, <1>6

(* The check of the redlines, made for Me, with that of the deletions.     *)
LEMMA CheckedIsRedlined ==
  ASSUME NEW doc \in Seq(Seq(WordTokens)), ToldDoc(doc), NEW o \in Originals,
         validate_deletions(doc), ValidRedlines(doc, o.doc, Me), HasChangeBy(doc, Me)
  PROVE  Shown(doc, {Me}) = Shown(o.doc, {Me})
<1>1. \A i \in DOMAIN doc : \A w \in WordsAfter(doc[i]) : Told(w) /\ Kept(w)
  BY DeletionsValid DEF ToldDoc, ToldIn
<1>2. Shown(doc, {Me}) = FlattenSeq(_extract_text_content(doc, Me)) BY <1>1, ExtractIsShown
<1> DEFINE original == o.doc
<1>3. /\ original \in Seq(Seq(WordTokens))
      /\ \A i \in DOMAIN original : \A w \in WordsAfter(original[i]) : Told(w) /\ Kept(w)
  BY OriginalTold
<1>4. _extract_text_content(doc, Me) = _extract_text_content(original, Me) BY DEF ValidRedlines
<1> HIDE DEF original
<1>5. Shown(original, {Me}) = FlattenSeq(_extract_text_content(original, Me)) BY <1>3, ExtractIsShown
<1>6. QED BY <1>2, <1>4, <1>5 DEF original

-----------------------------------------------------------------------------
(* The file that is packed: blanks that stand alone in an element may be    *)
(* left out of it, and nothing else.                                       *)

LEMMA OnlyAgrees ==
  ASSUME NEW E, NEW s \in Seq(E), NEW wanted, NEW others,
         \A x \in ToSet(s) : x \in wanted <=> x \in others
  PROVE  Only(s, wanted) = Only(s, others)
<1> DEFINE one(t) == Only(t, wanted)
           two(t) == Only(t, others)
           agree(t) == \A k \in 1 .. Len(t) : t[k] \in wanted <=> t[k] \in others
           good == {t \in Seq(E) : agree(t) => one(t) = two(t)}
<1>1. /\ one(<<>>) = <<>>
      /\ \A t \in Seq(E), x \in E : one(Append(t, x)) = IF x \in wanted THEN Append(one(t), x) ELSE one(t)
  BY OnlyNext, Zenon
<1>2. /\ two(<<>>) = <<>>
      /\ \A t \in Seq(E), x \in E : two(Append(t, x)) = IF x \in others THEN Append(two(t), x) ELSE two(t)
  BY OnlyNext, Zenon
<1> HIDE DEF one, two
<1>3. <<>> \in good BY <1>1, <1>2
<1>4. ASSUME NEW t \in Seq(E), NEW x \in E, t \in good PROVE Append(t, x) \in good
  <2>1. /\ Append(t, x) \in Seq(E) /\ Len(Append(t, x)) = Len(t) + 1 /\ Append(t, x)[Len(t) + 1] = x
        /\ \A k \in 1 .. Len(t) : Append(t, x)[k] = t[k]
    BY AppendProperties
  <2>2. Len(t) \in Nat BY LenProperties
  <2>3. ASSUME agree(Append(t, x)) PROVE one(Append(t, x)) = two(Append(t, x))
    <3>1. \A k \in 1 .. Len(t) + 1 : Append(t, x)[k] \in wanted <=> Append(t, x)[k] \in others
      BY <2>1, <2>3
    <3>2. Len(t) + 1 \in 1 .. Len(t) + 1 /\ \A k \in 1 .. Len(t) : k \in 1 .. Len(t) + 1 BY <2>2
    <3>3. x \in wanted <=> x \in others BY <2>1, <3>1, <3>2
    <3>4. agree(t) BY <2>1, <3>1, <3>2
    <3>5. one(t) = two(t) BY <1>4, <3>4
    <3>6. QED BY <1>1, <1>2, <3>3, <3>5
  <2>4. QED BY <2>1, <2>3
<1>5. \A t \in Seq(E) : t \in good
  <2> HIDE DEF good
  <2>1. QED BY <1>3, <1>4, SeqKeeps
<1>6. agree(s) BY LenProperties DEF ToSet
<1>7. QED BY <1>5, <1>6 DEF one, two

LEMMA OnlyNone ==
  ASSUME NEW E, NEW s \in Seq(E), NEW wanted, \A x \in ToSet(s) : x \notin wanted
  PROVE  Only(s, wanted) = <<>>
<1> DEFINE none(t) == Only(t, {})
           good == {t \in Seq(E) : none(t) = <<>>}
<1>1. /\ none(<<>>) = <<>>
      /\ \A t \in Seq(E), x \in E : none(Append(t, x)) = IF x \in {} THEN Append(none(t), x) ELSE none(t)
  BY OnlyNext, Zenon
<1> HIDE DEF none
<1>2. <<>> \in good BY <1>1
<1>3. ASSUME NEW t \in Seq(E), NEW x \in E, t \in good PROVE Append(t, x) \in good
  BY <1>1, <1>3, AppendProperties
<1>4. \A t \in Seq(E) : t \in good
  <2> HIDE DEF good
  <2>1. QED BY <1>2, <1>3, SeqKeeps
<1>5. Only(s, {}) = <<>> BY <1>4 DEF none
<1>6. Only(s, wanted) = Only(s, {}) BY OnlyAgrees
<1>7. QED BY <1>5, <1>6

Spoken == {w \in WordSet : w.word # Blank}

(* The words that are left when some blanks go.                            *)
Drops(less, words) ==
  /\ less \in Seq(WordSet) /\ words \in Seq(WordSet)
  /\ ToSet(less) \subseteq ToSet(words) /\ Only(less, Spoken) = Only(words, Spoken)

LEMMA DropsNone == ASSUME NEW words \in Seq(WordSet) PROVE Drops(words, words)
BY DEF Drops

LEMMA DropsConcat ==
  ASSUME NEW a, NEW b, NEW c, NEW d, Drops(a, b), Drops(c, d)
  PROVE  Drops(a \o c, b \o d)
<1>1. /\ a \in Seq(WordSet) /\ b \in Seq(WordSet) /\ c \in Seq(WordSet) /\ d \in Seq(WordSet)
      /\ ToSet(a) \subseteq ToSet(b) /\ Only(a, Spoken) = Only(b, Spoken)
      /\ ToSet(c) \subseteq ToSet(d) /\ Only(c, Spoken) = Only(d, Spoken)
  BY DEF Drops
<1>2. a \o c \in Seq(WordSet) /\ b \o d \in Seq(WordSet) BY <1>1, ConcatProperties
<1>3. ToSet(a \o c) = ToSet(a) \cup ToSet(c) /\ ToSet(b \o d) = ToSet(b) \cup ToSet(d)
  BY <1>1, MembersOfConcat
<1>4. /\ Only(a \o c, Spoken) = Only(a, Spoken) \o Only(c, Spoken)
      /\ Only(b \o d, Spoken) = Only(b, Spoken) \o Only(d, Spoken)
  BY <1>1, OnlyConcat
<1>5. ToSet(a \o c) \subseteq ToSet(b \o d) BY <1>1, <1>3
<1>6. Only(a \o c, Spoken) = Only(b \o d, Spoken) BY <1>1, <1>4
<1>7. QED BY <1>2, <1>5, <1>6 DEF Drops

LEMMA CondensedWords ==
  ASSUME NEW piece \in Pieces, NEW rpr \in Formats, NEW under \in SUBSET TrackedChanges
  PROVE  /\ Condensed(piece) \in Pieces
         /\ Drops(WordsOfPiece(Condensed(piece), rpr, under), WordsOfPiece(piece, rpr, under))
<1> DEFINE words == WordsOfPiece(piece, rpr, under)
           goes == piece.tag # "t" /\ AllBlank(piece.text)
           text == IF goes THEN <<>> ELSE piece.text
<1>1. /\ piece.tag \in PieceTags /\ piece.text \in Seq(Vocabulary) /\ piece.space \in BOOLEAN
      /\ piece = [tag |-> piece.tag, text |-> piece.text, space |-> piece.space]
  BY DEF Pieces
<1>2. words \in Seq(WordSet) BY WordsOfPieceType
<1>3. text \in Seq(Vocabulary) BY <1>1
<1>4. Condensed(piece) = [piece EXCEPT !.text = text] BY DEF Condensed
<1> HIDE DEF text
<1>5. Condensed(piece) = [tag |-> piece.tag, text |-> text, space |-> piece.space] BY <1>1, <1>4
<1>6. Condensed(piece) \in Pieces BY <1>1, <1>3, <1>5 DEF Pieces
<1>7. CASE goes
  <2>1. WordsOfPiece(Condensed(piece), rpr, under) = <<>> BY <1>5, <1>7 DEF WordsOfPiece, text
  <2>2. ASSUME NEW w \in ToSet(words) PROVE w \notin Spoken
    <3>1. PICK k \in DOMAIN piece.text : w = words[k] BY DEF ToSet, WordsOfPiece
    <3>2. w.word = piece.text[k] BY <3>1 DEF WordsOfPiece
    <3>3. piece.text[k] \in ToSet(piece.text) BY DEF ToSet
    <3>4. QED BY <1>7, <3>2, <3>3 DEF AllBlank, Spoken
  <2> HIDE DEF words
  <2>3. Only(words, Spoken) = <<>> BY <1>2, <2>2, OnlyNone
  <2>4. Only(<<>>, Spoken) = <<>> /\ ToSet(<<>>) = {} /\ <<>> \in Seq(WordSet) BY OnlyNext DEF ToSet
  <2>5. Drops(<<>>, words) BY <1>2, <2>3, <2>4 DEF Drops
  <2>6. QED BY <1>6, <2>1, <2>5 DEF words
<1>8. CASE ~goes
  <2>1. Condensed(piece) = piece BY <1>1, <1>5, <1>8 DEF text
  <2>2. QED BY <1>2, <1>6, <2>1, DropsNone
<1>9. QED BY <1>7, <1>8

LEMMA MappedNext ==
  ASSUME NEW X, NEW f, NEW s \in Seq(X), NEW x \in X
  PROVE  Mapped(f, <<>>) = <<>> /\ Mapped(f, Append(s, x)) = Append(Mapped(f, s), f[x])
<1> DEFINE Y == {f[y] : y \in X}
<1>1. <<x>> \in Seq(X) /\ Append(s, x) = s \o <<x>> BY AppendIsConcat
<1>2. Mapped(f, s \o <<x>>) = Mapped(f, s) \o Mapped(f, <<x>>) BY <1>1, MappedConcat
<1>3. Mapped(f, <<x>>) = <<f[x]>> BY DEF Mapped
<1>4. \A y \in X : f[y] \in Y OBVIOUS
<1> HIDE DEF Y
<1>5. Mapped(f, s) \in Seq(Y) /\ f[x] \in Y BY <1>4, MappedType
<1>6. Append(Mapped(f, s), f[x]) = Mapped(f, s) \o <<f[x]>> BY <1>5, AppendIsConcat
<1>7. Mapped(f, <<>>) = <<>> BY DEF Mapped
<1>8. QED BY <1>1, <1>2, <1>3, <1>6, <1>7

CondensedToken(token) ==
  IF token.tag = "r"
  THEN [token EXCEPT !.kids = [k \in DOMAIN @ |-> Condensed(@[k])]]
  ELSE token

LEMMA CondensedRun ==
  ASSUME NEW run \in WordTokens, run.tag = "r"
  PROVE  /\ CondensedToken(run) \in WordTokens /\ CondensedToken(run).tag = "r"
         /\ \A under \in SUBSET TrackedChanges :
              Drops(WordsOfRun(CondensedToken(run), under), WordsOfRun(run, under))
<1> DEFINE f == [x \in Pieces |-> Condensed(x)]
           kids == Mapped(f, run.kids)
           new == CondensedToken(run)
<1>1. /\ run.rpr \in Formats /\ run.kids \in Seq(Pieces)
      /\ run = [tag |-> "r", rpr |-> run.rpr, kids |-> run.kids]
  BY DEF WordTokens
<1>2. \A k \in DOMAIN run.kids : run.kids[k] \in Pieces BY <1>1, LenProperties, ElementOfSeq
<1>3. kids = [k \in DOMAIN run.kids |-> Condensed(run.kids[k])] BY <1>2 DEF Mapped
<1>4. new = [run EXCEPT !.kids = kids] BY <1>3 DEF CondensedToken
<1>5. \A x \in Pieces : f[x] \in Pieces
  <2>1. TrackedChanges \in SUBSET TrackedChanges OBVIOUS
  <2>2. \A x \in Pieces : Condensed(x) \in Pieces BY <1>1, <2>1, CondensedWords
  <2>3. QED BY <2>2
<1>6. \A x \in Pieces : f[x] = Condensed(x) OBVIOUS
<1> HIDE DEF f
<1>7. kids \in Seq(Pieces) BY <1>1, <1>5, MappedType
<1> HIDE DEF kids, new
<1>8. new = [tag |-> "r", rpr |-> run.rpr, kids |-> kids] BY <1>1, <1>4
<1>9. new \in WordTokens /\ new.tag = "r" BY <1>1, <1>7, <1>8 DEF WordTokens
<1>10. ASSUME NEW under \in SUBSET TrackedChanges PROVE Drops(WordsOfRun(new, under), WordsOfRun(run, under))
  <2> DEFINE all(s) == PieceWords(s, run.rpr, under)
             words(x) == WordsOfPiece(x, run.rpr, under)
             good == {s \in Seq(Pieces) : Drops(all(Mapped(f, s)), all(s))}
  <2>1. /\ all(<<>>) = <<>>
        /\ \A s \in Seq(Pieces), x \in Pieces : all(Append(s, x)) = all(s) \o words(x)
    BY <1>1, PieceWordsNext
  <2>2. \A x \in Pieces : Drops(words(f[x]), words(x)) BY <1>1, <1>6, CondensedWords
  <2> HIDE DEF all, words
  <2>3. <<>> \in good
    <3>1. Mapped(f, <<>>) = <<>> BY DEF Mapped
    <3>2. <<>> \in Seq(WordSet) OBVIOUS
    <3>3. Drops(<<>>, <<>>) BY <3>2, DropsNone
    <3>4. QED BY <2>1, <3>1, <3>3
  <2>4. ASSUME NEW s \in Seq(Pieces), NEW x \in Pieces, s \in good PROVE Append(s, x) \in good
    <3>1. Mapped(f, Append(s, x)) = Append(Mapped(f, s), f[x]) BY MappedNext
    <3>2. Mapped(f, s) \in Seq(Pieces) /\ f[x] \in Pieces BY <1>5, MappedType
    <3>3. all(Mapped(f, Append(s, x))) = all(Mapped(f, s)) \o words(f[x]) BY <2>1, <3>1, <3>2
    <3>4. all(Append(s, x)) = all(s) \o words(x) BY <2>1
    <3>5. Drops(all(Mapped(f, s)), all(s)) BY <2>4
    <3>6. Drops(words(f[x]), words(x)) BY <2>2
    <3>7. Drops(all(Mapped(f, s)) \o words(f[x]), all(s) \o words(x)) BY <3>5, <3>6, DropsConcat
    <3>8. Append(s, x) \in Seq(Pieces) BY AppendProperties
    <3>9. QED BY <3>3, <3>4, <3>7, <3>8
  <2>5. \A s \in Seq(Pieces) : s \in good
    <3> HIDE DEF good
    <3>1. QED BY <2>3, <2>4, SeqKeeps
  <2>6. Drops(all(kids), all(run.kids)) BY <1>1, <2>5 DEF kids
  <2>7. WordsOfRun(run, under) = all(run.kids) BY <1>1, WordsOfRunType DEF all
  <2>8. WordsOfRun(new, under) = all(kids) BY <1>8, <1>9, WordsOfRunType DEF all
  <2>9. QED BY <2>6, <2>7, <2>8
<1>11. QED BY <1>9, <1>10 DEF new

(* What is read where blanks are gone.                                     *)
Lesser(less, seen) ==
  less \in Readings /\ seen \in Readings /\ less.open = seen.open /\ Drops(less.words, seen.words)

LEMMA CondensedReads ==
  ASSUME NEW x \in WordTokens, NEW less, NEW seen, Lesser(less, seen)
  PROVE  CondensedToken(x) \in WordTokens /\ Lesser(Read(less, CondensedToken(x)), Read(seen, x))
<1>0. less \in Readings /\ seen \in Readings /\ less.open = seen.open /\ Drops(less.words, seen.words)
  BY DEF Lesser
<1>1. CASE x.tag = "r"
  <2> DEFINE under == InForce(seen.open)
             new == CondensedToken(x)
  <2>1. new \in WordTokens /\ new.tag = "r" /\ under \in SUBSET TrackedChanges
    BY <1>0, <1>1, CondensedRun, RunReads
  <2>2. Drops(WordsOfRun(new, under), WordsOfRun(x, under)) BY <1>1, <2>1, CondensedRun
  <2>3. Read(seen, x) = [open |-> seen.open, words |-> seen.words \o WordsOfRun(x, under)]
    BY <1>0, <1>1, RunReads
  <2> HIDE DEF new
  <2>4. Read(less, new) = [open |-> less.open, words |-> less.words \o WordsOfRun(new, InForce(less.open))]
    BY <1>0, <2>1, RunReads
  <2>5. InForce(less.open) = under BY <1>0
  <2> HIDE DEF under
  <2>6. Read(less, new) \in Readings /\ Read(seen, x) \in Readings BY <1>0, <2>1, ReadType
  <2>7. Drops(less.words \o WordsOfRun(new, under), seen.words \o WordsOfRun(x, under))
    BY <1>0, <2>2, DropsConcat
  <2>8. Read(less, new).open = Read(seen, x).open BY <1>0, <2>3, <2>4
  <2>9. Drops(Read(less, new).words, Read(seen, x).words) BY <2>3, <2>4, <2>5, <2>7
  <2>10. QED BY <2>1, <2>6, <2>8, <2>9 DEF Lesser, new
<1>2. CASE x.tag # "r"
  <2>1. CondensedToken(x) = x BY <1>2 DEF CondensedToken
  <2>2. Read(less, x) \in Readings /\ Read(seen, x) \in Readings BY <1>0, ReadType
  <2>3. ASSUME NEW r \in Readings
        PROVE  /\ Read(r, x).words = r.words
               /\ Read(r, x).open = IF x.tag = "start" THEN [r.open EXCEPT ![x.change] = @ + 1]
                                    ELSE IF x.tag = "end" THEN [r.open EXCEPT ![x.change] = @ - 1]
                                    ELSE r.open
    <3>1. r = [open |-> r.open, words |-> r.words] BY DEF Readings
    <3>2. CASE x.tag = "start"
      <4> DEFINE open == [r.open EXCEPT ![x.change] = @ + 1]
      <4>1. Read(r, x) = [r EXCEPT !.open = open] BY <3>2 DEF Read
      <4> HIDE DEF open
      <4>2. Read(r, x) = [open |-> open, words |-> r.words] BY <3>1, <4>1
      <4>3. QED BY <3>2, <4>2 DEF open
    <3>3. CASE x.tag = "end"
      <4> DEFINE open == [r.open EXCEPT ![x.change] = @ - 1]
      <4>1. Read(r, x) = [r EXCEPT !.open = open] BY <3>3 DEF Read
      <4> HIDE DEF open
      <4>2. Read(r, x) = [open |-> open, words |-> r.words] BY <3>1, <4>1
      <4>3. QED BY <3>3, <4>2 DEF open
    <3>4. CASE x.tag \notin {"start", "end"} BY <1>2, <3>4 DEF Read
    <3>5. QED BY <3>2, <3>3, <3>4
  <2>4. Read(less, x).open = Read(seen, x).open BY <1>0, <2>3
  <2>5. Read(less, x).words = less.words /\ Read(seen, x).words = seen.words BY <1>0, <2>3
  <2>6. QED BY <1>0, <2>1, <2>2, <2>4, <2>5 DEF Lesser
<1>3. QED BY <1>1, <1>2

(* Paragraphs with blanks gone token by token.                             *)
LEMMA CondensedParagraph ==
  ASSUME NEW s \in Seq(WordTokens), NEW t, t = [n \in DOMAIN s |-> CondensedToken(s[n])]
  PROVE  t \in Seq(WordTokens) /\ Len(t) = Len(s) /\ Lesser(ReadAll(t), ReadAll(s))
<1> DEFINE first(u, n) == SubSeq(u, 1, n)
           lesser(n) == Lesser(ReadAll(first(t, n)), ReadAll(first(s, n)))
           good == {n \in 0 .. Len(s) : lesser(n)}
<1>1. /\ Len(s) \in Nat /\ DOMAIN s = 1 .. Len(s) /\ \A n \in 1 .. Len(s) : s[n] \in WordTokens
  BY LenProperties, ElementOfSeq
<1>2. /\ NothingRead \in Readings /\ ReadAll(<<>>) = NothingRead
      /\ \A p \in Seq(WordTokens), x \in WordTokens : ReadAll(Append(p, x)) = Read(ReadAll(p), x)
  BY ReadNext
<1>3. Lesser(NothingRead, NothingRead)
  <2>1. NothingRead.words \in Seq(WordSet) BY <1>2 DEF Readings
  <2>2. QED BY <1>2, <2>1, DropsNone DEF Lesser
<1>4. \A n \in 1 .. Len(s) : t[n] = CondensedToken(s[n]) /\ t[n] \in WordTokens
  BY <1>1, <1>3, CondensedReads
<1>5. t \in Seq(WordTokens) /\ Len(t) = Len(s)
  <2>1. t \in [1 .. Len(s) -> WordTokens] /\ DOMAIN t = 1 .. Len(s) BY <1>1, <1>4
  <2>2. t \in Seq(WordTokens) BY <1>1, <2>1
  <2>3. Len(t) \in Nat /\ DOMAIN t = 1 .. Len(t) BY <2>2, LenProperties
  <2>4. 1 .. Len(t) = 1 .. Len(s) BY <2>1, <2>3
  <2>5. QED BY <1>1, <2>2, <2>3, <2>4, SameInterval
<1>6. 0 \in good
  <2>1. first(s, 0) = <<>> /\ first(t, 0) = <<>> BY SubSeqEmpty
  <2> HIDE DEF first
  <2>2. lesser(0) BY <1>2, <1>3, <2>1
  <2> HIDE DEF lesser
  <2>3. QED BY <1>1, <2>2
<1>7. ASSUME NEW n \in 1 .. Len(s), n - 1 \in good PROVE n \in good
  <2>1. /\ first(s, n - 1) \in Seq(WordTokens) /\ s[n] \in WordTokens
        /\ first(s, n) = Append(first(s, n - 1), s[n])
    BY FirstOnes
  <2>2. /\ first(t, n - 1) \in Seq(WordTokens) /\ t[n] \in WordTokens
        /\ first(t, n) = Append(first(t, n - 1), t[n])
    BY <1>5, FirstOnes
  <2> HIDE DEF first
  <2>3. Lesser(ReadAll(first(t, n - 1)), ReadAll(first(s, n - 1))) BY <1>7
  <2>4. Lesser(Read(ReadAll(first(t, n - 1)), CondensedToken(s[n])), Read(ReadAll(first(s, n - 1)), s[n]))
    BY <2>1, <2>3, CondensedReads
  <2>5. lesser(n)
    <3>1. ReadAll(first(s, n)) = Read(ReadAll(first(s, n - 1)), s[n]) BY <1>2, <2>1
    <3>2. ReadAll(first(t, n)) = Read(ReadAll(first(t, n - 1)), t[n]) BY <1>2, <2>2
    <3>3. t[n] = CondensedToken(s[n]) BY <1>4
    <3>4. QED BY <2>4, <3>1, <3>2, <3>3
  <2> HIDE DEF lesser
  <2>6. n \in 0 .. Len(s) BY <1>1
  <2>7. QED BY <2>5, <2>6
<1>8. \A n \in 0 .. Len(s) : n \in good
  <2> HIDE DEF good
  <2>1. QED BY <1>1, <1>6, <1>7, LoopKeeps
<1>9. lesser(Len(s))
  <2> HIDE DEF lesser
  <2>1. Len(s) \in 0 .. Len(s) BY <1>1
  <2>2. QED BY <1>8, <2>1
<1>10. first(s, Len(s)) = s /\ first(t, Len(s)) = t BY <1>5, SubSeqFull
<1> HIDE DEF first
<1>11. QED BY <1>5, <1>9, <1>10

LEMMA CondensedCounts ==
  ASSUME NEW a, NEW s \in Seq(WordTokens), NEW t \in Seq(WordTokens), Len(t) = Len(s),
         t = [n \in DOMAIN s |-> CondensedToken(s[n])]
  PROVE  CountOf(t, a) = CountOf(s, a)
<1>1. /\ Len(s) \in Nat /\ DOMAIN s = 1 .. Len(s) /\ \A n \in 1 .. Len(s) : s[n] \in WordTokens
  BY LenProperties, ElementOfSeq
<1>2. ASSUME NEW n \in 1 .. Len(s) PROVE t[n] \in StartsBy(a) <=> s[n] \in StartsBy(a)
  <2>1. t[n] = CondensedToken(s[n]) /\ s[n] \in WordTokens BY <1>1
  <2>2. CASE s[n].tag = "r"
    <3>1. t[n].tag = "r" BY <2>1, <2>2, CondensedRun
    <3>2. QED BY <2>2, <3>1, RunStartsNothing
  <2>3. CASE s[n].tag # "r" BY <2>1, <2>3 DEF CondensedToken
  <2>4. QED BY <2>2, <2>3
<1>3. NoStartMore(s, t, a) /\ NoStartMore(t, s, a) BY <1>2 DEF NoStartMore
<1>4. CountOf(t, a) <= CountOf(s, a) /\ CountOf(s, a) <= CountOf(t, a) BY <1>3, NoMoreTokenwise
<1>5. CountOf(t, a) \in Nat /\ CountOf(s, a) \in Nat BY CountNext
<1>6. QED BY <1>4, <1>5

LEMMA CondensedDocument ==
  ASSUME NEW doc \in Seq(Seq(WordTokens))
  PROVE  /\ _condense_xml(doc) \in Seq(Seq(WordTokens)) /\ Len(_condense_xml(doc)) = Len(doc)
         /\ \A i \in 1 .. Len(doc) : Drops(WordsOf(_condense_xml(doc)[i]), WordsOf(doc[i]))
         /\ \A a : HasChangeBy(_condense_xml(doc), a) <=> HasChangeBy(doc, a)
<1> DEFINE new == _condense_xml(doc)
           S == Seq(WordTokens)
<1>1. new = [i \in DOMAIN doc |-> [n \in DOMAIN doc[i] |-> CondensedToken(doc[i][n])]]
  BY DEF _condense_xml, CondensedToken
<1>2. /\ Len(doc) \in Nat /\ DOMAIN doc = 1 .. Len(doc) /\ \A i \in DOMAIN doc : doc[i] \in S
  BY LenProperties, ElementOfSeq
<1>3. /\ DOMAIN new = DOMAIN doc /\ new = [i \in DOMAIN doc |-> new[i]]
      /\ \A i \in DOMAIN doc : new[i] = [n \in DOMAIN doc[i] |-> CondensedToken(doc[i][n])]
  BY <1>1
<1> HIDE DEF new
<1>4. ASSUME NEW i \in DOMAIN doc
      PROVE  /\ new[i] \in S /\ Drops(WordsOf(new[i]), WordsOf(doc[i]))
             /\ \A a : CountOf(new[i], a) = CountOf(doc[i], a)
  <2> DEFINE s == doc[i]
             t == new[i]
  <2>1. s \in Seq(WordTokens) BY <1>2
  <2>2. t = [n \in DOMAIN s |-> CondensedToken(s[n])] BY <1>3
  <2> HIDE DEF s, t
  <2>3. t \in Seq(WordTokens) /\ Len(t) = Len(s) /\ Lesser(ReadAll(t), ReadAll(s))
    BY <2>1, <2>2, CondensedParagraph
  <2>4. Drops(ReadAll(t).words, ReadAll(s).words) BY <2>3 DEF Lesser
  <2>5. ASSUME NEW a PROVE CountOf(t, a) = CountOf(s, a) BY <2>1, <2>2, <2>3, CondensedCounts
  <2>6. QED BY <2>3, <2>4, <2>5 DEF s, t, WordsOf, ReadAll
<1>5. new \in Seq(S) /\ Len(new) = Len(doc)
  <2> DEFINE N == Len(doc)
  <2>0. N \in Nat /\ DOMAIN new = 1 .. N BY <1>2, <1>3
  <2> HIDE DEF S
  <2>1. new \in [1 .. N -> S] BY <1>2, <1>3, <1>4
  <2> HIDE DEF N
  <2>2. new \in Seq(S) BY <2>0, <2>1
  <2>3. Len(new) \in Nat /\ DOMAIN new = 1 .. Len(new) BY <2>2, LenProperties
  <2>4. 1 .. Len(new) = 1 .. N BY <2>0, <2>3
  <2>5. Len(new) = N BY <2>0, <2>3, <2>4, SameInterval
  <2>6. QED BY <2>2, <2>5 DEF N
<1>6. ASSUME NEW a PROVE HasChangeBy(new, a) <=> HasChangeBy(doc, a)
  <2>1. \A i \in DOMAIN doc : CountOf(doc[i], a) \in Nat BY <1>2, CountNext
  <2>2. /\ \A i \in DOMAIN doc : CountOf(new[i], a) <= CountOf(doc[i], a)
        /\ \A i \in DOMAIN new : CountOf(doc[i], a) <= CountOf(new[i], a)
    BY <1>3, <1>4, <2>1
  <2>3. ChangesBy(new, a) <= ChangesBy(doc, a) /\ ChangesBy(doc, a) <= ChangesBy(new, a)
    BY <1>3, <1>5, <2>2, ParagraphsCount
  <2>4. ChangesBy(new, a) \in Nat /\ ChangesBy(doc, a) \in Nat BY <1>5, ChangesByType
  <2>5. QED BY <2>3, <2>4 DEF HasChangeBy
<1>7. QED BY <1>2, <1>4, <1>5, <1>6 DEF new, S

LEMMA TextNext ==
  /\ Text(<<>>) = <<>> /\ \A s \in Seq(WordSet) : Text(s) \in Seq(Vocabulary)
  /\ \A s \in Seq(WordSet), x \in WordSet : Text(Append(s, x)) = Append(Text(s), x.word)
<1> DEFINE f == [w \in WordSet |-> w.word]
<1>1. ASSUME NEW s \in Seq(WordSet) PROVE Text(s) = Mapped(f, s)
  <2>1. \A k \in DOMAIN s : s[k] \in WordSet BY LenProperties, ElementOfSeq
  <2>2. QED BY <2>1 DEF Text, Mapped
<1>2. \A x \in WordSet : f[x] = x.word /\ x.word \in Vocabulary BY DEF WordSet
<1> HIDE DEF f
<1>3. \A s \in Seq(WordSet) : Mapped(f, s) \in Seq(Vocabulary) BY <1>2, MappedType
<1>4. ASSUME NEW s \in Seq(WordSet), NEW x \in WordSet PROVE Text(Append(s, x)) = Append(Text(s), x.word)
  <2>1. Append(s, x) \in Seq(WordSet) BY AppendProperties
  <2>2. Mapped(f, Append(s, x)) = Append(Mapped(f, s), f[x]) BY MappedNext
  <2>3. QED BY <1>1, <1>2, <2>1, <2>2
<1>5. Text(<<>>) = <<>> BY DEF Text
<1>6. QED BY <1>1, <1>3, <1>4, <1>5

(* The text but for its blanks is the text of the words that are none.     *)
LEMMA UnspacedText ==
  ASSUME NEW words \in Seq(WordSet), NEW visible
  PROVE  Unspaced(Text(Only(words, visible))) = Text(Only(Only(words, Spoken), visible))
<1> DEFINE seen(s) == Only(s, visible)
           spoken(s) == Only(s, Spoken)
           plain(t) == Unspaced(t)
           told == Vocabulary \ {Blank}
           good == {s \in Seq(WordSet) : plain(Text(seen(s))) = Text(seen(spoken(s)))}
<1>1. /\ seen(<<>>) = <<>> /\ \A s \in Seq(WordSet) : seen(s) \in Seq(WordSet)
      /\ \A s \in Seq(WordSet), x \in WordSet :
           seen(Append(s, x)) = IF x \in visible THEN Append(seen(s), x) ELSE seen(s)
  BY OnlyNext, Zenon
<1>2. /\ spoken(<<>>) = <<>> /\ \A s \in Seq(WordSet) : spoken(s) \in Seq(WordSet)
      /\ \A s \in Seq(WordSet), x \in WordSet :
           spoken(Append(s, x)) = IF x \in Spoken THEN Append(spoken(s), x) ELSE spoken(s)
  BY OnlyNext, Zenon
<1>3. /\ plain(<<>>) = <<>>
      /\ \A s \in Seq(Vocabulary), x \in Vocabulary :
           plain(Append(s, x)) = IF x \in told THEN Append(plain(s), x) ELSE plain(s)
  BY OnlyNext, Zenon DEF Unspaced
<1>4. \A x \in WordSet : x.word \in Vocabulary /\ (x \in Spoken <=> x.word \in told) BY DEF WordSet, Spoken
<1> HIDE DEF seen, spoken, plain, told
<1>5. <<>> \in good BY <1>1, <1>2, <1>3, TextNext
<1>6. ASSUME NEW s \in Seq(WordSet), NEW x \in WordSet, s \in good PROVE Append(s, x) \in good
  <2>1. Append(s, x) \in Seq(WordSet) BY AppendProperties
  <2>2. /\ seen(s) \in Seq(WordSet) /\ Text(seen(s)) \in Seq(Vocabulary)
        /\ spoken(s) \in Seq(WordSet) /\ seen(spoken(s)) \in Seq(WordSet)
        /\ plain(Text(seen(s))) = Text(seen(spoken(s)))
    BY <1>1, <1>2, <1>6, TextNext
  <2>3. /\ Text(Append(seen(s), x)) = Append(Text(seen(s)), x.word)
        /\ Text(Append(seen(spoken(s)), x)) = Append(Text(seen(spoken(s))), x.word)
    BY <2>2, TextNext
  <2>4. /\ seen(Append(s, x)) = IF x \in visible THEN Append(seen(s), x) ELSE seen(s)
        /\ spoken(Append(s, x)) = IF x \in Spoken THEN Append(spoken(s), x) ELSE spoken(s)
        /\ seen(Append(spoken(s), x)) = IF x \in visible THEN Append(seen(spoken(s)), x) ELSE seen(spoken(s))
    BY <1>1, <1>2, <2>2
  <2>5. x.word \in Vocabulary /\ (x \in Spoken <=> x.word \in told) BY <1>4
  <2>6. plain(Append(Text(seen(s)), x.word)) =
          IF x \in Spoken THEN Append(plain(Text(seen(s))), x.word) ELSE plain(Text(seen(s)))
    BY <1>3, <2>2, <2>5
  <2>7. plain(Text(seen(Append(s, x)))) = Text(seen(spoken(Append(s, x))))
    <3>1. CASE x \notin visible BY <2>2, <2>4, <3>1
    <3>2. CASE x \in visible /\ x \in Spoken BY <2>2, <2>3, <2>4, <2>6, <3>2
    <3>3. CASE x \in visible /\ x \notin Spoken BY <2>2, <2>3, <2>4, <2>6, <3>3
    <3>4. QED BY <3>1, <3>2, <3>3
  <2>8. QED BY <2>1, <2>7
<1>7. \A s \in Seq(WordSet) : s \in good
  <2> HIDE DEF good
  <2>1. QED BY <1>5, <1>6, SeqKeeps
<1>8. QED BY <1>7 DEF seen, spoken, plain

LEMMA UnspacedShown ==
  ASSUME NEW less, NEW words, Drops(less, words), NEW rejected
  PROVE  /\ Unspaced(ShownOf(less, rejected)) = Unspaced(ShownOf(words, rejected))
         /\ ShownOf(less, rejected) \in Seq(Vocabulary) /\ ShownOf(words, rejected) \in Seq(Vocabulary)
<1> DEFINE hidden(w) == \E c \in w.under : \/ c[1] = "ins" /\ c[2] \in rejected
                                           \/ c[1] = "del" /\ c[2] \notin rejected
           visible == {w \in WordSet : ~hidden(w)}
<1>1. ASSUME NEW s \in Seq(WordSet) PROVE ShownOf(s, rejected) = Text(Only(s, visible))
  <2>1. \A w \in ToSet(s) : w \in WordSet
    <3>1. \A k \in DOMAIN s : s[k] \in WordSet BY LenProperties, ElementOfSeq
    <3>2. QED BY <3>1 DEF ToSet
  <2> DEFINE here == {w \in ToSet(s) : ~hidden(w)}
  <2>2. ShownOf(s, rejected) = Text(Only(s, here)) BY Zenon DEF ShownOf
  <2> HIDE DEF hidden
  <2>3. \A w \in ToSet(s) : w \in here <=> w \in visible BY <2>1
  <2> HIDE DEF here, visible
  <2>4. Only(s, here) = Only(s, visible) BY <2>3, OnlyAgrees
  <2>5. QED BY <2>2, <2>4
<1> HIDE DEF visible
<1>2. less \in Seq(WordSet) /\ words \in Seq(WordSet) /\ Only(less, Spoken) = Only(words, Spoken) BY DEF Drops
<1>3. /\ Unspaced(Text(Only(less, visible))) = Text(Only(Only(less, Spoken), visible))
      /\ Unspaced(Text(Only(words, visible))) = Text(Only(Only(words, Spoken), visible))
  BY <1>2, UnspacedText
<1>4. Only(less, visible) \in Seq(WordSet) /\ Only(words, visible) \in Seq(WordSet) BY <1>2, OnlyNext
<1>5. QED BY <1>1, <1>2, <1>3, <1>4, TextNext

(* What is left of a flattened sequence is that of its parts.              *)
LEMMA OnlyOfFlat ==
  ASSUME NEW X, NEW wanted, NEW one \in Seq(Seq(X)), NEW other \in Seq(Seq(X)), Len(one) = Len(other),
         \A k \in 1 .. Len(one) : Only(one[k], wanted) = Only(other[k], wanted)
  PROVE  Only(FlattenSeq(one), wanted) = Only(FlattenSeq(other), wanted)
<1> DEFINE S == Seq(X)
           first(u, n) == SubSeq(u, 1, n)
           left(u) == Only(FlattenSeq(u), wanted)
           same(n) == left(first(one, n)) = left(first(other, n))
           good == {n \in 0 .. Len(one) : same(n)}
<1>1. ASSUME NEW u \in Seq(S), NEW x \in S PROVE left(Append(u, x)) = left(u) \o Only(x, wanted)
  <2>1. FlattenSeq(u) \in Seq(X) /\ FlattenSeq(Append(u, x)) = FlattenSeq(u) \o x BY FlattenNext
  <2>2. Only(FlattenSeq(u) \o x, wanted) = Only(FlattenSeq(u), wanted) \o Only(x, wanted)
    BY <2>1, OnlyConcat
  <2>3. QED BY <2>1, <2>2
<1>2. Len(one) \in Nat BY LenProperties
<1> HIDE DEF S, left
<1>3. 0 \in good
  <2>1. first(one, 0) = <<>> /\ first(other, 0) = <<>> BY SubSeqEmpty
  <2> HIDE DEF first
  <2>2. same(0) BY <2>1
  <2> HIDE DEF same
  <2>3. QED BY <1>2, <2>2
<1>4. ASSUME NEW n \in 1 .. Len(one), n - 1 \in good PROVE n \in good
  <2>1. one \in Seq(S) /\ other \in Seq(S) BY DEF S
  <2>2. first(one, n - 1) \in Seq(S) /\ one[n] \in S /\ first(one, n) = Append(first(one, n - 1), one[n])
    BY <2>1, FirstOnes
  <2>3. first(other, n - 1) \in Seq(S) /\ other[n] \in S /\ first(other, n) = Append(first(other, n - 1), other[n])
    BY <2>1, FirstOnes
  <2> HIDE DEF first
  <2>4. left(first(one, n - 1)) = left(first(other, n - 1)) BY <1>4
  <2>5. left(first(one, n)) = left(first(one, n - 1)) \o Only(one[n], wanted) BY <1>1, <2>2
  <2>6. left(first(other, n)) = left(first(other, n - 1)) \o Only(other[n], wanted) BY <1>1, <2>3
  <2>7. same(n) BY <2>4, <2>5, <2>6
  <2> HIDE DEF same
  <2>8. n \in 0 .. Len(one) BY <1>2
  <2>9. QED BY <2>7, <2>8
<1>5. \A n \in 0 .. Len(one) : n \in good
  <2> HIDE DEF good
  <2>1. QED BY <1>2, <1>3, <1>4, LoopKeeps
<1>6. same(Len(one))
  <2> HIDE DEF same
  <2>1. Len(one) \in 0 .. Len(one) BY <1>2
  <2>2. QED BY <1>5, <2>1
<1>7. first(one, Len(one)) = one /\ first(other, Len(one)) = other BY SubSeqFull
<1> HIDE DEF first
<1>8. QED BY <1>6, <1>7 DEF left

(* The file shows what the directory shows, but for blanks.                *)
LEMMA CondensedIsShown ==
  ASSUME NEW doc \in Seq(Seq(WordTokens)), NEW rejected
  PROVE  Unspaced(Shown(_condense_xml(doc), rejected)) = Unspaced(Shown(doc, rejected))
<1> DEFINE file == _condense_xml(doc)
           seen(d) == [i \in DOMAIN d |-> ShownOf(WordsOf(d[i]), rejected)]
           told == Vocabulary \ {Blank}
           S == Seq(Vocabulary)
<1>1. /\ file \in Seq(Seq(WordTokens)) /\ Len(file) = Len(doc)
      /\ \A i \in 1 .. Len(doc) : Drops(WordsOf(file[i]), WordsOf(doc[i]))
  BY CondensedDocument
<1> HIDE DEF file
<1>2. Len(doc) \in Nat /\ DOMAIN doc = 1 .. Len(doc) /\ DOMAIN file = 1 .. Len(doc)
  BY <1>1, LenProperties
<1>3. ASSUME NEW i \in 1 .. Len(doc)
      PROVE  /\ seen(file)[i] \in S /\ seen(doc)[i] \in S
             /\ Only(seen(file)[i], told) = Only(seen(doc)[i], told)
  <2> DEFINE less == WordsOf(file[i])
             words == WordsOf(doc[i])
  <2>1. Drops(less, words) BY <1>1
  <2>2. seen(file)[i] = ShownOf(less, rejected) /\ seen(doc)[i] = ShownOf(words, rejected) BY <1>2
  <2> HIDE DEF less, words, seen
  <2>3. /\ Unspaced(ShownOf(less, rejected)) = Unspaced(ShownOf(words, rejected))
        /\ ShownOf(less, rejected) \in S /\ ShownOf(words, rejected) \in S
    BY <2>1, UnspacedShown
  <2>4. QED BY <2>2, <2>3 DEF Unspaced
<1>4. ASSUME NEW d, DOMAIN d = 1 .. Len(doc), \A i \in 1 .. Len(doc) : seen(d)[i] \in S
      PROVE  seen(d) \in Seq(S) /\ Len(seen(d)) = Len(doc)
  <2> DEFINE N == Len(doc)
             u == seen(d)
  <2>1. N \in Nat /\ DOMAIN u = 1 .. N /\ u = [i \in 1 .. N |-> u[i]] BY <1>2, <1>4
  <2>2. \A i \in 1 .. N : u[i] \in S BY <1>4
  <2> HIDE DEF N, u, S
  <2>3. u \in [1 .. N -> S] BY <2>1, <2>2
  <2>4. u \in Seq(S) BY <2>1, <2>3
  <2>5. Len(u) \in Nat /\ DOMAIN u = 1 .. Len(u) BY <2>4, LenProperties
  <2>6. 1 .. Len(u) = 1 .. N BY <2>1, <2>5
  <2>7. Len(u) = N BY <2>1, <2>5, <2>6, SameInterval
  <2>8. QED BY <2>4, <2>7 DEF u, N
<1>5. Shown(file, rejected) = FlattenSeq(seen(file)) /\ Shown(doc, rejected) = FlattenSeq(seen(doc))
  BY DEF Shown
<1> HIDE DEF seen, told, S
<1>6. /\ seen(file) \in Seq(S) /\ Len(seen(file)) = Len(doc)
      /\ seen(doc) \in Seq(S) /\ Len(seen(doc)) = Len(doc)
  BY <1>2, <1>3, <1>4
<1> DEFINE one == seen(file)
           other == seen(doc)
<1>7. one \in Seq(S) /\ other \in Seq(S) /\ Len(one) = Len(other) BY <1>6
<1>8. \A k \in 1 .. Len(one) : Only(one[k], told) = Only(other[k], told) BY <1>3, <1>6
<1> HIDE DEF one, other
<1>9. Only(FlattenSeq(one), told) = Only(FlattenSeq(other), told) BY <1>7, <1>8, OnlyOfFlat DEF S
<1>10. QED BY <1>5, <1>9 DEF Unspaced, told, file, one, other

LEMMA CondensedTold ==
  ASSUME NEW doc \in Seq(Seq(WordTokens)), ToldDoc(doc)
  PROVE  ToldDoc(_condense_xml(doc))
<1> DEFINE file == _condense_xml(doc)
<1>1. /\ file \in Seq(Seq(WordTokens)) /\ Len(file) = Len(doc)
      /\ \A i \in 1 .. Len(doc) : Drops(WordsOf(file[i]), WordsOf(doc[i]))
  BY CondensedDocument
<1> HIDE DEF file
<1>2. DOMAIN doc = 1 .. Len(doc) /\ DOMAIN file = 1 .. Len(doc) BY <1>1, LenProperties
<1>3. \A i \in 1 .. Len(doc) : ToSet(WordsOf(file[i])) \subseteq ToSet(WordsOf(doc[i])) BY <1>1 DEF Drops
<1>4. \A d, i : WordsAfter(d[i]) = ToSet(WordsOf(d[i])) BY DEF WordsAfter, WordsOf, ReadAll
<1>5. QED BY <1>2, <1>3, <1>4 DEF ToldDoc, ToldIn, file

-----------------------------------------------------------------------------
(* A document is told as it is unpacked, edited and packed, only Me adds   *)
(* changes, and what passes for Me can be taken back.                      *)

NoneMore(doc, original) ==
  \A a \in Writers \ {Me} : ChangesBy(doc, a) <= ChangesBy(original, a)

RedlineInv ==
  /\ TextInv
  /\ wordState = "packed file" => wordPacked = "no"
  /\ ToldDoc(wordDoc) /\ NoneMore(wordDoc, wordFrom.doc)
  /\ PackedIsRedlined

LEMMA RedlineInvAtFirst == DocxInit => RedlineInv
<1> SUFFICES ASSUME DocxInit PROVE RedlineInv OBVIOUS
<1>1. /\ wordFrom \in Originals /\ wordDoc = wordFrom.doc /\ wordPacked = "no"
  BY DEF DocxInit, CommentsInit
<1> DEFINE o == wordFrom
<1>2. o \in Originals BY <1>1
<1> HIDE DEF o
<1>3. /\ o.doc \in Seq(Seq(WordTokens))
      /\ \A i \in DOMAIN o.doc : \A w \in WordsAfter(o.doc[i]) : Told(w) /\ Kept(w)
  BY <1>2, OriginalTold
<1>4. ToldDoc(o.doc) BY <1>3 DEF ToldDoc, ToldIn
<1>5. \A a : ChangesBy(o.doc, a) \in Nat BY <1>3, ChangesByType
<1>6. NoneMore(o.doc, o.doc) BY <1>5 DEF NoneMore
<1>7. PackedIsRedlined BY <1>1 DEF PackedIsRedlined
<1>8. QED BY <1>1, <1>4, <1>6, <1>7, TextInvAtFirst DEF RedlineInv, o

(* What adds no change leaves no more than there were at first.            *)
LEMMA StillNoneMore ==
  ASSUME NEW doc \in Seq(Seq(WordTokens)), NEW new \in Seq(Seq(WordTokens)),
         NEW original \in Seq(Seq(WordTokens)), NoneMore(doc, original), NoneMore(new, doc)
  PROVE  NoneMore(new, original)
<1>1. \A a : ChangesBy(doc, a) \in Nat /\ ChangesBy(new, a) \in Nat /\ ChangesBy(original, a) \in Nat
  BY ChangesByType
<1>2. QED BY <1>1 DEF NoneMore

LEMMA FromType ==
  ASSUME TextInv
  PROVE  wordFrom \in Originals /\ wordFrom.doc \in Seq(Seq(WordTokens)) /\ wordDoc \in Seq(Seq(WordTokens))
BY DocxAssumption DEF TextInv

LEMMA UnpackKeepsRedlines ==
  ASSUME RedlineInv, TextInv', NEW simplify \in BOOLEAN, NEW merge \in BOOLEAN,
         UnpackDocx(simplify, merge)
  PROVE  RedlineInv'
<1> DEFINE simple == IF simplify THEN simplify_redlines(wordDoc) ELSE wordDoc
           new == IF merge THEN merge_runs(simple) ELSE simple
<1>1. /\ wordState' = "unpacked" /\ wordFrom' = wordFrom /\ wordPacked' = "no" /\ wordDoc' = new
  BY DEF UnpackDocx, Unpacks, RedlineInv
<1>2. wordFrom.doc \in Seq(Seq(WordTokens)) /\ wordDoc \in Seq(Seq(WordTokens))
  BY FromType DEF RedlineInv
<1>3. /\ simple \in Seq(Seq(WordTokens)) /\ Words(simple) = Words(wordDoc)
      /\ NoneMore(simple, wordDoc)
  <2>1. \A a : ChangesBy(wordDoc, a) \in Nat BY <1>2, ChangesByType
  <2>2. NoneMore(wordDoc, wordDoc) BY <2>1 DEF NoneMore
  <2>3. NoneMore(simplify_redlines(wordDoc), wordDoc) BY <1>2, SimplifiedCounts DEF NoneMore
  <2>4. QED BY <1>2, <2>2, <2>3, SimplifiedReads
<1> HIDE DEF simple
<1>4. new \in Seq(Seq(WordTokens)) /\ Words(new) = Words(simple) /\ NoneMore(new, simple)
  <2>1. \A a : ChangesBy(simple, a) \in Nat BY <1>3, ChangesByType
  <2>2. NoneMore(simple, simple) BY <2>1 DEF NoneMore
  <2>3. NoneMore(merge_runs(simple), simple) BY <1>3, MergedRunsCount DEF NoneMore
  <2>4. QED BY <1>3, <2>2, <2>3, MergedRunsRead
<1> HIDE DEF new
<1>5. ToldDoc(new)
  <2>1. Words(new) = Words(wordDoc) /\ ToldDoc(wordDoc) BY <1>3, <1>4 DEF RedlineInv
  <2>2. QED BY <2>1, AlikeTold
<1>6. NoneMore(new, wordDoc) BY <1>2, <1>3, <1>4, StillNoneMore
<1>7. NoneMore(wordDoc, wordFrom.doc) BY DEF RedlineInv
<1>8. NoneMore(new, wordFrom.doc) BY <1>2, <1>4, <1>6, <1>7, StillNoneMore
<1>9. PackedIsRedlined' BY <1>1 DEF PackedIsRedlined
<1>10. ToldDoc(wordDoc)' /\ NoneMore(wordDoc, wordFrom.doc)' BY <1>1, <1>5, <1>8
<1>11. QED BY <1>1, <1>9, <1>10 DEF RedlineInv

LEMMA EditKeepsRedlines ==
  ASSUME RedlineInv, TextInv', EditText
  PROVE  RedlineInv'
<1> DEFINE spliced(p, from, to, new) == SubSeq(p, 1, from - 1) \o new \o SubSeq(p, to + 1, Len(p))
<1>1. /\ wordState' = "edited" /\ wordFrom' = wordFrom /\ wordPacked' = "no"
      /\ \E i \in DOMAIN wordDoc : \E from, to \in DOMAIN wordDoc[i] :
           /\ IsNode(wordDoc[i], from, to)
           /\ \E new \in EditsOf(SubSeq(wordDoc[i], from, to)) :
                wordDoc' = [wordDoc EXCEPT ![i] = spliced(wordDoc[i], from, to, new)]
  BY DEF EditText, EditElsewhere, Edits
<1>2. wordFrom.doc \in Seq(Seq(WordTokens)) /\ wordDoc \in Seq(Seq(WordTokens))
  BY FromType DEF RedlineInv
<1>3. wordDoc' \in Seq(Seq(WordTokens)) BY DEF TextInv
<1>4. PICK i \in DOMAIN wordDoc : \E from, to \in DOMAIN wordDoc[i] :
        /\ IsNode(wordDoc[i], from, to)
        /\ \E new \in EditsOf(SubSeq(wordDoc[i], from, to)) :
             wordDoc' = [wordDoc EXCEPT ![i] = spliced(wordDoc[i], from, to, new)]
  BY <1>1
<1> DEFINE p == wordDoc[i]
<1>5. PICK from \in DOMAIN p, to \in DOMAIN p :
        /\ IsNode(p, from, to)
        /\ \E new \in EditsOf(SubSeq(p, from, to)) :
             wordDoc' = [wordDoc EXCEPT ![i] = spliced(p, from, to, new)]
  BY <1>4
<1>6. PICK new \in EditsOf(SubSeq(p, from, to)) :
        wordDoc' = [wordDoc EXCEPT ![i] = spliced(p, from, to, new)]
  BY <1>5
<1>7. p \in Seq(WordTokens) BY <1>2, LenProperties, ElementOfSeq
<1>8. IsNode(p, from, to) /\ from <= to BY <1>5 DEF IsNode
<1>9. ToldIn(p) /\ \A j \in DOMAIN wordDoc : ToldIn(wordDoc[j]) BY DEF RedlineInv, ToldDoc
<1> DEFINE q == spliced(p, from, to, new)
<1>10. /\ DOMAIN wordDoc' = DOMAIN wordDoc
       /\ \A j \in DOMAIN wordDoc : wordDoc'[j] = IF j = i THEN q ELSE wordDoc[j]
  <2> HIDE DEF q
  <2>1. wordDoc' = [wordDoc EXCEPT ![i] = q] BY <1>6 DEF q
  <2>2. QED BY <2>1
<1>11. ToldIn(q)
  <2> HIDE DEF p
  <2>1. QED BY <1>7, <1>8, <1>9, EditedTold
<1>12. \A a \in Writers \ {Me} : CountOf(q, a) <= CountOf(p, a)
  <2> HIDE DEF p
  <2>1. QED BY <1>7, <1>8, EditedCounts
<1> HIDE DEF q
<1>13. ToldDoc(wordDoc') BY <1>9, <1>10, <1>11 DEF ToldDoc
<1>14. NoneMore(wordDoc', wordDoc)
  <2> SUFFICES ASSUME NEW a \in Writers \ {Me} PROVE ChangesBy(wordDoc', a) <= ChangesBy(wordDoc, a)
    BY DEF NoneMore
  <2>1. \A j \in DOMAIN wordDoc : wordDoc[j] \in Seq(WordTokens) BY <1>2, LenProperties, ElementOfSeq
  <2>2. \A j \in DOMAIN wordDoc : CountOf(wordDoc[j], a) \in Nat BY <2>1, CountNext
  <2>3. \A j \in DOMAIN wordDoc : CountOf(wordDoc'[j], a) <= CountOf(wordDoc[j], a)
    BY <1>10, <1>12, <2>2
  <2>4. QED BY <1>2, <1>3, <1>10, <2>3, ParagraphsCount
<1>15. NoneMore(wordDoc', wordFrom.doc)
  <2>1. NoneMore(wordDoc, wordFrom.doc) BY DEF RedlineInv
  <2>2. QED BY <1>2, <1>3, <1>14, <2>1, StillNoneMore
<1>16. PackedIsRedlined' BY <1>1 DEF PackedIsRedlined
<1>17. ToldDoc(wordDoc)' /\ NoneMore(wordDoc, wordFrom.doc)' BY <1>1, <1>13, <1>15
<1>18. QED BY <1>1, <1>16, <1>17 DEF RedlineInv

(* Blanks kept or not, the document is as told as it was.                  *)
LEMMA RepairKeepsTold ==
  ASSUME RedlineInv, wordFrom' = wordFrom, wordDoc' \in {SpacesKept(wordDoc), wordDoc}
  PROVE  /\ wordDoc' \in Seq(Seq(WordTokens))
         /\ ToldDoc(wordDoc)' /\ NoneMore(wordDoc, wordFrom.doc)'
<1> DEFINE new == SpacesKept(wordDoc)
<1>1. wordFrom.doc \in Seq(Seq(WordTokens)) /\ wordDoc \in Seq(Seq(WordTokens))
  BY FromType DEF RedlineInv
<1>2. ToldDoc(wordDoc) /\ NoneMore(wordDoc, wordFrom.doc) BY DEF RedlineInv
<1>3. new \in Seq(Seq(WordTokens)) /\ Words(new) = Words(wordDoc) BY <1>1, SpacesKeptReads
<1>4. NoneMore(new, wordDoc) BY <1>1, SpacesKeptCounts DEF NoneMore
<1> HIDE DEF new
<1>5. ToldDoc(new) BY <1>2, <1>3, AlikeTold
<1>6. NoneMore(new, wordFrom.doc) BY <1>1, <1>2, <1>3, <1>4, StillNoneMore
<1>7. CASE wordDoc' = new BY <1>3, <1>5, <1>6, <1>7
<1>8. CASE wordDoc' = wordDoc BY <1>1, <1>2, <1>8
<1>9. QED BY <1>7, <1>8 DEF new

(* The verdict for Me is given of what is in the directory afterwards.     *)
LEMMA VerdictIsRedlined ==
  ASSUME RedlineInv, TextInv', wordFrom' = wordFrom, wordState' = wordState, wordState # "packed file",
         wordDoc' \in {SpacesKept(wordDoc), wordDoc}, wordPacked' # "file passed",
         wordPacked' \in {"packed", "passed"} =>
           validate_deletions(wordDoc') /\ ValidRedlines(wordDoc', wordFrom.doc, Me)
  PROVE  RedlineInv'
<1>0. wordPacked' # "file passed" OBVIOUS
<1>1. /\ wordDoc' \in Seq(Seq(WordTokens))
      /\ ToldDoc(wordDoc)' /\ NoneMore(wordDoc, wordFrom.doc)'
  BY RepairKeepsTold
<1>2. ToldDoc(wordDoc') BY <1>1
<1>3. wordFrom \in Originals BY FromType DEF RedlineInv
<1>4. ASSUME wordPacked' \in {"packed", "passed"}, HasChangeBy(wordDoc', Me)
      PROVE  /\ Shown(wordDoc', {Me}) = Shown(wordFrom.doc, {Me})
             /\ Unspaced(Shown(_condense_xml(wordDoc'), {Me})) = Unspaced(Shown(wordFrom.doc, {Me}))
  <2> DEFINE new == wordDoc'
  <2>1. /\ new \in Seq(Seq(WordTokens)) /\ ToldDoc(new) /\ HasChangeBy(new, Me)
        /\ validate_deletions(new) /\ ValidRedlines(new, wordFrom.doc, Me)
    BY <1>1, <1>2, <1>4
  <2> HIDE DEF new
  <2>2. Shown(new, {Me}) = Shown(wordFrom.doc, {Me}) BY <1>3, <2>1, CheckedIsRedlined
  <2>3. Unspaced(Shown(_condense_xml(new), {Me})) = Unspaced(Shown(new, {Me})) BY <2>1, CondensedIsShown
  <2>4. QED BY <2>2, <2>3 DEF new
<1>5. PackedIsRedlined' BY <1>0, <1>1, <1>4 DEF PackedIsRedlined
<1>6. QED BY <1>1, <1>5 DEF RedlineInv

LEMMA PackKeepsRedlines ==
  ASSUME RedlineInv, TextInv', NEW infer \in BOOLEAN, PackDocx(infer)
  PROVE  RedlineInv'
<1> DEFINE new == SpacesKept(wordDoc)
           flaw == repair_durableId(wordFlaw)
           author == IF infer THEN infer_author(new, wordFrom.doc, Me) ELSE Me
           valid == ValidDocx(new, wordNotes, flaw) /\ ValidRedlines(new, wordFrom.doc, author)
<1>1. /\ wordState # "packed file" /\ wordState' = wordState /\ wordFrom' = wordFrom
      /\ wordDoc' = new /\ wordPacked' = IF valid THEN "packed" ELSE "refused"
  BY DEF PackDocx, Packs, Judges
<1>2. author = Me
  <2>1. wordFrom.doc \in Seq(Seq(WordTokens)) BY FromType DEF RedlineInv
  <2>2. new \in Seq(Seq(WordTokens)) /\ NoneMore(new, wordFrom.doc) BY <1>1, RepairKeepsTold
  <2> HIDE DEF new
  <2>3. infer_author(new, wordFrom.doc, Me) = Me BY <2>1, <2>2, InferredIsMe DEF NoneMore
  <2>4. QED BY <2>3
<1>3. valid => validate_deletions(new) /\ ValidRedlines(new, wordFrom.doc, Me) BY <1>2 DEF ValidDocx
<1> HIDE DEF valid, new
<1>4. wordPacked' \in {"packed", "passed"} =>
        validate_deletions(wordDoc') /\ ValidRedlines(wordDoc', wordFrom.doc, Me)
  BY <1>1, <1>3
<1>5. wordPacked' # "file passed" BY <1>1
<1>6. QED BY <1>1, <1>4, <1>5, VerdictIsRedlined DEF new

LEMMA ValidateKeepsRedlines ==
  ASSUME RedlineInv, TextInv', NEW repair \in BOOLEAN, NEW author \in Authors,
         ValidateDocx(repair, author)
  PROVE  RedlineInv'
<1>1. /\ wordState # "packed file" /\ wordState' = wordState /\ wordFrom' = wordFrom
      /\ wordDoc' \in {SpacesKept(wordDoc), wordDoc}
      /\ wordPacked' = IF ~(/\ ValidDocx(wordDoc', wordNotes, wordFlaw')
                            /\ ValidRedlines(wordDoc', wordFrom.doc, author)) THEN "failed"
                       ELSE IF author = Me THEN "passed" ELSE "passed for another"
  BY DEF ValidateDocx, Validates, Judges
<1>2. wordPacked' \in {"packed", "passed"} =>
        validate_deletions(wordDoc') /\ ValidRedlines(wordDoc', wordFrom.doc, Me)
  BY <1>1 DEF ValidDocx
<1>3. wordPacked' # "file passed" BY <1>1
<1>4. QED BY <1>1, <1>2, <1>3, VerdictIsRedlined

(* What passes for Me as a file can be taken back there, blanks and all.   *)
LEMMA FileKeepsRedlines ==
  ASSUME RedlineInv, TextInv', NEW authors, ValidateFile(authors)
  PROVE  RedlineInv'
<1> DEFINE file == _condense_xml(wordDoc)
           valid == /\ ValidDocx(file, wordNotes, wordFlaw)
                    /\ \A a \in authors : ValidRedlines(file, wordFrom.doc, a)
<1>1. /\ wordState' = wordState /\ wordState # "packed file"
      /\ wordFrom' = wordFrom /\ wordDoc' = wordDoc /\ wordPacked = "packed"
      /\ wordPacked' = IF ~valid THEN "failed"
                       ELSE IF Me \in authors THEN "file passed" ELSE "file passed alone"
  BY DEF ValidateFile, ValidatesFile, Judges, textVars, RedlineInv
<1>2. /\ wordFrom \in Originals /\ wordDoc \in Seq(Seq(WordTokens)) /\ ToldDoc(wordDoc)
      /\ NoneMore(wordDoc, wordFrom.doc)
  BY FromType DEF RedlineInv
<1>3. wordPacked' = "file passed" => validate_deletions(file) /\ ValidRedlines(file, wordFrom.doc, Me)
  BY <1>1 DEF ValidDocx
<1> HIDE DEF valid
<1>4. wordPacked' \notin {"packed", "passed"} BY <1>1
<1>5. ASSUME wordPacked' = "file passed", HasChangeBy(wordDoc, Me)
      PROVE  /\ Shown(wordDoc, {Me}) = Shown(wordFrom.doc, {Me})
             /\ Unspaced(Shown(file, {Me})) = Unspaced(Shown(wordFrom.doc, {Me}))
             /\ Shown(file, {Me}) = Shown(wordFrom.doc, {Me})
  <2>1. /\ Shown(wordDoc, {Me}) = Shown(wordFrom.doc, {Me})
        /\ Unspaced(Shown(file, {Me})) = Unspaced(Shown(wordFrom.doc, {Me}))
    BY <1>1, <1>5 DEF RedlineInv, PackedIsRedlined
  <2>2. /\ file \in Seq(Seq(WordTokens)) /\ ToldDoc(file) /\ HasChangeBy(file, Me)
        /\ validate_deletions(file) /\ ValidRedlines(file, wordFrom.doc, Me)
    BY <1>2, <1>3, <1>5, CondensedDocument, CondensedTold
  <2> HIDE DEF file
  <2>3. Shown(file, {Me}) = Shown(wordFrom.doc, {Me}) BY <1>2, <2>2, CheckedIsRedlined
  <2>4. QED BY <2>1, <2>3
<1>6. PackedIsRedlined' BY <1>1, <1>4, <1>5 DEF PackedIsRedlined
<1>7. ToldDoc(wordDoc)' /\ NoneMore(wordDoc, wordFrom.doc)' BY <1>1, <1>2
<1>8. QED BY <1>1, <1>6, <1>7 DEF RedlineInv

LEMMA RestKeepsRedlines ==
  ASSUME RedlineInv, TextInv', EditIds \/ Comments
  PROVE  RedlineInv'
<1>1. /\ wordState' = "packed file" => wordPacked' = "no"
      /\ wordDoc' = wordDoc /\ wordFrom' = wordFrom
      /\ wordPacked' \notin {"packed", "passed", "file passed"}
  <2>1. CASE EditIds BY <2>1 DEF EditIds, EditElsewhere, Edits
  <2>2. CASE Comments
    BY <2>2 DEF Comments, textVars, EditMarkers, AddComment, AddCommentFails, Edits
  <2>3. QED BY <2>1, <2>2
<1>2. PackedIsRedlined' BY <1>1 DEF PackedIsRedlined
<1>3. ToldDoc(wordDoc)' /\ NoneMore(wordDoc, wordFrom.doc)' BY <1>1 DEF RedlineInv
<1>4. QED BY <1>1, <1>2, <1>3 DEF RedlineInv

LEMMA RedlineInvStep == RedlineInv /\ [DocxNext]_docxVars => RedlineInv'
<1> SUFFICES ASSUME RedlineInv, [DocxNext]_docxVars PROVE RedlineInv' OBVIOUS
<1>1. TextInv' BY TextInvStep DEF RedlineInv
<1>2. CASE UNCHANGED docxVars
  BY <1>1, <1>2 DEF docxVars, textVars, commentVars, RedlineInv, PackedIsRedlined
<1>3. CASE DocxNext
  BY <1>1, <1>3, UnpackKeepsRedlines, EditKeepsRedlines, PackKeepsRedlines, ValidateKeepsRedlines,
     FileKeepsRedlines, RestKeepsRedlines DEF DocxNext
<1>4. QED BY <1>2, <1>3

(* However the editor's moves and slips follow one another, in a document  *)
(* packed or passed with Me's changes in it rejecting them shows what it   *)
(* showed in the original: the comparison of w:t texts misses no word that *)
(* stands elsewhere (RedliningValidator, validate_deletions), and the      *)
(* author pack.py infers is never another (infer_author). What it writes   *)
(* has all words of it; blanks that were struck out alone it may have lost *)
(* (_condense_xml), unless validate.py passes the file as well.            *)
THEOREM PackedTextIsRedlined == DocxSpec => []PackedIsRedlined
<1>1. RedlineInv => PackedIsRedlined BY DEF RedlineInv
<1>2. QED BY <1>1, RedlineInvAtFirst, RedlineInvStep, PTL DEF DocxSpec
=============================================================================
