---------------------------- MODULE DocxPackage -----------------------------
(***************************************************************************)
(* Editing a Word document with the docx skill's scripts: unpack.py        *)
(* simplifies it, an editor changes document.xml as Me, pack.py repairs,   *)
(* checks and packs (validators/docx.py, redlining.py). Each step is one   *)
(* of DocxComments, which says what becomes of the comments, together with *)
(* what becomes of the text.                                               *)
(***************************************************************************)
EXTENDS DocxRedlines, DocxComments

CONSTANTS
  Me,          \* the author the editor writes changes as, "Claude"
  Authors      \* what validate.py is given as --author, Me by default

(* What was written by a word processor: struck-out text in w:delText, all *)
(* other in w:t, and nothing struck out both by Me and by another.         *)
WellWritten(words) ==
  \A w \in ToSet(words) :
    /\ w.tag = IF Under(w, "del") THEN "delText" ELSE "t"
    /\ <<"del", Me>> \in w.under => \A a \in Writers \ {Me} : <<"del", a>> \notin w.under

ASSUME DocxAssumption ==
  /\ Me \in Writers /\ {"new", Blank} \subseteq Vocabulary /\ "plain" \in Formats
  /\ \A o \in Originals :
       o.doc \in Seq(Seq(WordTokens)) /\ \A i \in DOMAIN o.doc : WellWritten(WordsOf(o.doc[i]))

VARIABLES
  wordDoc,     \* document.xml
  wordFlaw     \* an id out of range: "none", "paraId" or "durableId"

textVars == <<wordDoc, wordFlaw>>

docxVars == <<textVars, commentVars>>

DocxInit == CommentsInit /\ wordDoc = wordFrom.doc /\ wordFlaw = "none"

(* unpack.py simplifies redlines first, then merges runs, as its options   *)
(* say. Printing the XML anew and writing quotes as entities change no text.*)
UnpackDocx(simplify, merge) ==
  /\ Unpacks
  /\ LET simple == IF simplify THEN simplify_redlines(wordDoc) ELSE wordDoc
     IN  wordDoc' = IF merge THEN merge_runs(simple) ELSE simple
  /\ UNCHANGED wordFlaw

-----------------------------------------------------------------------------
(* The editor's changes to the text, right ones and slips.                 *)

(* The text of runs in elements of another name; marks and changes as they are.*)
Renamed(tokens, from, to) ==
  [n \in DOMAIN tokens |->
     IF tokens[n].tag = "r"
     THEN [tokens[n] EXCEPT !.kids =
             [k \in DOMAIN @ |-> IF @[k].tag = from THEN Piece(to, @[k].text, FALSE) ELSE @[k]]]
     ELSE tokens[n]]

AsDeleted(tokens) == Renamed(tokens, "t", "delText")

Restored(tokens) == Renamed(tokens, "delText", "t")

Inserted(tag) == Change("ins", Me, <<Run("plain", <<Piece(tag, <<"new", Blank>>, FALSE)>>)>>)

(* From the start of something that stands in the paragraph to its end.    *)
IsNode(paragraph, from, to) ==
  /\ from <= to /\ AtTop(paragraph, from - 1) /\ AtTop(paragraph, to)
  /\ \A n \in from .. to - 1 : ~AtTop(paragraph, n)

(* A run deleted as a change, without w:delText, or without a change.      *)
EditsOfRun(run) == {Change("del", Me, AsDeleted(run)), Change("del", Me, run), <<>>}

HoldsChange(tokens) == \E n \in DOMAIN tokens : tokens[n].tag \in {"start", "end"}

(* Another's insertion of text deleted inside it, accepted, or thrown away.*)
EditsOfInsertion(author, inside) ==
  {inside, <<>>}
    \cup (IF HoldsChange(inside) THEN {}
          ELSE {Change("ins", author, Change("del", Me, AsDeleted(inside)))})

(* Another's deletion restored by an insertion after it, rejected, accepted.*)
EditsOfDeletion(author, inside) ==
  {Restored(inside), <<>>}
    \cup (IF HoldsChange(inside) THEN {}
          ELSE {Change("del", author, inside) \o Change("ins", Me, Restored(inside))})

Inside(node) == SubSeq(node, 2, Len(node) - 1)

Others(tag, node) ==
  {a \in Writers \ {Me} :
     Len(node) > 1 /\ node[1] = Start(tag, a) /\ node[Len(node)] = End(tag, a)}

EditsOf(node) ==
  {node \o Inserted("t"), node \o Inserted("delText")}
    \cup (IF node[1].tag = "r" THEN EditsOfRun(node) ELSE {})
    \cup (UNION {EditsOfInsertion(a, Inside(node)) : a \in Others("ins", node)})
    \cup (UNION {EditsOfDeletion(a, Inside(node)) : a \in Others("del", node)})

EditText ==
  /\ EditElsewhere
  /\ \E i \in DOMAIN wordDoc : \E from, to \in DOMAIN wordDoc[i] :
       /\ IsNode(wordDoc[i], from, to)
       /\ \E new \in EditsOf(SubSeq(wordDoc[i], from, to)) :
            wordDoc' = [wordDoc EXCEPT ![i] =
              SubSeq(@, 1, from - 1) \o new \o SubSeq(@, to + 1, Len(@))]
  /\ UNCHANGED wordFlaw

EditIds ==
  /\ EditElsewhere
  /\ wordFlaw' \in {"paraId", "durableId"}
  /\ UNCHANGED wordDoc

(* The scripts and edits that leave the text alone. *)
Comments == (EditMarkers \/ AddComment \/ AddCommentFails) /\ UNCHANGED textVars

-----------------------------------------------------------------------------
(* pack.py *)

validate_id_constraints(flaw) == flaw \notin {"paraId", "durableId"}

repair_durableId(flaw) == IF flaw = "durableId" THEN "none" ELSE flaw

ValidDocx(doc, notes, flaw) ==
  /\ validate_whitespace_preservation(doc)
  /\ validate_deletions(doc) /\ validate_insertions(doc)
  /\ validate_id_constraints(flaw) /\ ValidComments(notes)

(* repair_whitespace_preservation over document.xml *)
SpaceKept(piece) ==
  [piece EXCEPT !.space = @ \/ (piece.tag = "t" /\ HasOuterBlank(piece.text))]

SpacesKept(doc) ==
  [i \in DOMAIN doc |-> [n \in DOMAIN doc[i] |->
     IF doc[i][n].tag = "r"
     THEN [doc[i][n] EXCEPT !.kids = [k \in DOMAIN @ |-> SpaceKept(@[k])]]
     ELSE doc[i][n]]]

(* The copy that is zipped: in every element but w:t a text of blanks only *)
(* is taken for layout and goes, that of a w:delText too.                  *)
AllBlank(text) == ToSet(text) \subseteq {Blank}

Condensed(piece) ==
  [piece EXCEPT !.text = IF piece.tag # "t" /\ AllBlank(@) THEN <<>> ELSE @]

_condense_xml(doc) ==
  [i \in DOMAIN doc |-> [n \in DOMAIN doc[i] |->
     IF doc[i][n].tag = "r"
     THEN [doc[i][n] EXCEPT !.kids = [k \in DOMAIN @ |-> Condensed(@[k])]]
     ELSE doc[i][n]]]

(* The author is taken to be Me, or inferred where the caller asks for it. *)
(* What is checked is the directory; the file written is condensed after.  *)
PackDocx(infer) ==
  /\ Packs
  /\ LET doc == SpacesKept(wordDoc)
         flaw == repair_durableId(wordFlaw)
         author == IF infer THEN infer_author(doc, wordFrom.doc, Me) ELSE Me
     IN  /\ wordDoc' = doc /\ wordFlaw' = flaw
         /\ wordPacked' = IF /\ ValidDocx(doc, wordNotes, flaw)
                             /\ ValidRedlines(doc, wordFrom.doc, author)
                          THEN "packed" ELSE "refused"

(* validate.py with --original and an author, on the directory; or on the  *)
(* packed file, where without --original (no author then) no changes are   *)
(* compared.                                                               *)
ValidateDocx(repair, author) ==
  /\ Validates
  /\ wordDoc' = IF repair THEN SpacesKept(wordDoc) ELSE wordDoc
  /\ wordFlaw' = IF repair THEN repair_durableId(wordFlaw) ELSE wordFlaw
  /\ wordPacked' = IF ~(/\ ValidDocx(wordDoc', wordNotes, wordFlaw')
                        /\ ValidRedlines(wordDoc', wordFrom.doc, author)) THEN "failed"
                   ELSE IF author = Me THEN "passed" ELSE "passed for another"

ValidateFile(authors) ==
  /\ ValidatesFile
  /\ LET file == _condense_xml(wordDoc)
     IN  wordPacked' = IF ~(/\ ValidDocx(file, wordNotes, wordFlaw)
                            /\ \A a \in authors : ValidRedlines(file, wordFrom.doc, a)) THEN "failed"
                       ELSE IF Me \in authors THEN "file passed" ELSE "file passed alone"
  /\ UNCHANGED textVars

DocxNext ==
  \/ \E simplify, merge \in BOOLEAN : UnpackDocx(simplify, merge)
  \/ EditText \/ EditIds \/ Comments
  \/ \E infer \in BOOLEAN : PackDocx(infer)
  \/ \E repair \in BOOLEAN, author \in Authors : ValidateDocx(repair, author)
  \/ \E authors \in {{}} \cup {{a} : a \in Authors} : ValidateFile(authors)

DocxSpec == DocxInit /\ [][DocxNext]_docxVars

-----------------------------------------------------------------------------

(* Unpacking merges runs and changes but neither loses, nor reorders, nor  *)
(* restyles a word, nor moves one under another's change                   *)
(* (simplify_redlines.py, merge_runs.py).                                  *)
SimplifyKeepsText == wordState = "unpacked" => Words(wordDoc) = Words(wordFrom.doc)

(* What is read of a text but for its blanks.                              *)
Unspaced(text) == Only(text, Vocabulary \ {Blank})

(* In a document packed or passed with changes of Me in it those can be    *)
(* taken back: rejecting them shows what rejecting Me's changes showed in  *)
(* the original, whichever elements the text was written with              *)
(* (RedliningValidator, which reads w:t only, with validate_deletions,     *)
(* which finds what it misses). That is so of the directory. The file,     *)
(* which pack.py condenses after the check, has all words of it but may    *)
(* lack blanks that were struck out alone; it has them too if validate.py  *)
(* passes the file itself against the original (pack.py 41-58, 119-126).   *)
PackedIsRedlined ==
  wordPacked \in {"packed", "passed", "file passed"} /\ HasChangeBy(wordDoc, Me) =>
    LET original == Shown(wordFrom.doc, {Me})
        file == Shown(_condense_xml(wordDoc), {Me})
    IN  /\ Shown(wordDoc, {Me}) = original
        /\ Unspaced(file) = Unspaced(original)
        /\ wordPacked = "file passed" => file = original
=============================================================================
