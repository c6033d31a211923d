---------------------------- MODULE DocxRedlines ----------------------------
(***************************************************************************)
(* Tracked changes of a Word document as the docx skill reads them: what   *)
(* unpack.py simplifies (helpers/simplify_redlines.py, merge_runs.py) and  *)
(* what pack.py checks (validators/docx.py, redlining.py). A document is a *)
(* sequence of paragraphs, a paragraph what stands in the file one after   *)
(* the other:                                                              *)
(*   runs, with formatting rpr and pieces (w:t, w:delText, or w:tab, which *)
(*   stands for those without text),                                       *)
(*   the start and the end of a change (w:ins or w:del) of an author,      *)
(*   marks: w:proofErr, and others that neither hold text nor go away.     *)
(* A text is a sequence of words; Blank stands for a blank.                *)
(***************************************************************************)
EXTENDS Naturals, Integers, SequencesExt

CONSTANTS
  Writers,     \* who a document's changes may be by
  Vocabulary,  \* the words there are, Blank one of them
  Formats      \* the formattings of runs

Blank == " "

TrackedChanges == {"ins", "del"} \X Writers

Piece(tag, text, space) == [tag |-> tag, text |-> text, space |-> space]
Run(rpr, pieces) == [tag |-> "r", rpr |-> rpr, kids |-> pieces]
Start(tag, author) == [tag |-> "start", change |-> <<tag, author>>]
End(tag, author) == [tag |-> "end", change |-> <<tag, author>>]
Mark(tag) == [tag |-> tag]
Change(tag, author, inside) == <<Start(tag, author)>> \o inside \o <<End(tag, author)>>

PieceTags == {"t", "delText", "tab"}
Pieces == [tag : PieceTags, text : Seq(Vocabulary), space : BOOLEAN]
WordTokens == [tag : {"r"}, rpr : Formats, kids : Seq(Pieces)]
            \cup [tag : {"start", "end"}, change : TrackedChanges]
            \cup [tag : STRING \ {"r", "start", "end"}]

HasOuterBlank(text) == text # <<>> /\ Blank \in {text[1], Last(text)}

(* The members of a set, in the order of the sequence.                     *)
Only(seq, wanted) ==
  LET only[n \in 0 .. Len(seq)] ==
        IF n = 0 THEN <<>>
        ELSE IF seq[n] \in wanted THEN Append(only[n - 1], seq[n]) ELSE only[n - 1]
  IN  only[Len(seq)]

-----------------------------------------------------------------------------
(* A paragraph read from its start: the changes that are open, and every   *)
(* word so far with its element, its formatting and the changes it is under.*)

WordsOfPiece(piece, rpr, under) ==
  [k \in DOMAIN piece.text |->
     [word |-> piece.text[k], tag |-> piece.tag, rpr |-> rpr, under |-> under]]

WordsOfRun(run, under) ==
  FlattenSeq([k \in DOMAIN run.kids |-> WordsOfPiece(run.kids[k], run.rpr, under)])

NothingOpen == [c \in TrackedChanges |-> 0]

InForce(open) == {c \in TrackedChanges : open[c] > 0}

Read(seen, token) ==
  IF token.tag = "r"
  THEN [seen EXCEPT !.words = @ \o WordsOfRun(token, InForce(seen.open))]
  ELSE IF token.tag = "start" THEN [seen EXCEPT !.open[token.change] = @ + 1]
  ELSE IF token.tag = "end" THEN [seen EXCEPT !.open[token.change] = @ - 1]
  ELSE seen

(* What is known after so many tokens. *)
Seen(paragraph) ==
  LET seen[n \in 0 .. Len(paragraph)] ==
        IF n = 0 THEN [open |-> NothingOpen, words |-> <<>>]
        ELSE Read(seen[n - 1], paragraph[n])
  IN  seen

AtTop(paragraph, n) == Seen(paragraph)[n].open = NothingOpen

WordsOf(paragraph) == Seen(paragraph)[Len(paragraph)].words

(* Each piece of text of a document with the changes it is under. *)
TextElements(doc) ==
  UNION {UNION {LET token == doc[i][n]
                    under == InForce(Seen(doc[i])[n - 1].open)
                IN  {[piece |-> token.kids[k], under |-> under] : k \in DOMAIN token.kids} :
           n \in {m \in DOMAIN doc[i] : doc[i][m].tag = "r"}} : i \in DOMAIN doc}

Under(x, tag) == \E c \in x.under : c[1] = tag

-----------------------------------------------------------------------------
(* simplify_redlines.py *)

(* A merge of neighbouring changes whoever made them. *)
Mut_can_merge_tracked(a, b, tag) ==
  a.tag = "end" /\ b.tag = "start" /\ a.change[1] = tag /\ b.change[1] = tag

_can_merge_tracked(a, b, tag) ==
  a.tag = "end" /\ b.tag = "start" /\ a.change = b.change /\ b.change[1] = tag

(* The changes that stand in the paragraph itself: the first of two takes  *)
(* the content of the second, neither its end nor the other's start stays. *)
_merge_tracked_content(done, token, tag) ==
  IF done # <<>> /\ AtTop(done, Len(done)) /\ _can_merge_tracked(Last(done), token, tag)
  THEN Front(done) ELSE Append(done, token)

_merge_tracked_changes_in(paragraph, tag) ==
  LET done[n \in 0 .. Len(paragraph)] ==
        IF n = 0 THEN <<>> ELSE _merge_tracked_content(done[n - 1], paragraph[n], tag)
  IN  done[Len(paragraph)]

simplify_redlines(doc) ==
  [i \in DOMAIN doc |->
     _merge_tracked_changes_in(_merge_tracked_changes_in(doc[i], "ins"), "del")]

(* merge_runs.py, in a paragraph and in every change in it *)

_remove_elements(paragraph, tag) ==
  Only(paragraph, {t \in ToSet(paragraph) : t.tag # tag})

_can_merge(a, b) == a.tag = "r" /\ b.tag = "r" /\ a.rpr = b.rpr

_merge_run_content(done, token) ==
  IF done # <<>> /\ _can_merge(Last(done), token)
  THEN Append(Front(done), [Last(done) EXCEPT !.kids = @ \o token.kids])
  ELSE Append(done, token)

JoinText(done, piece) ==
  IF done # <<>> /\ Last(done).tag = "t" /\ piece.tag = "t"
  THEN LET merged == Last(done).text \o piece.text
       IN  Append(Front(done), Piece("t", merged, HasOuterBlank(merged)))
  ELSE Append(done, piece)

_consolidate_text(run) ==
  LET done[n \in 0 .. Len(run.kids)] ==
        IF n = 0 THEN <<>> ELSE JoinText(done[n - 1], run.kids[n])
  IN  [run EXCEPT !.kids = done[Len(run.kids)]]

_merge_runs_in(paragraph) ==
  LET done[n \in 0 .. Len(paragraph)] ==
        IF n = 0 THEN <<>> ELSE _merge_run_content(done[n - 1], paragraph[n])
      merged == done[Len(paragraph)]
  IN  [n \in DOMAIN merged |->
         IF merged[n].tag = "r" THEN _consolidate_text(merged[n]) ELSE merged[n]]

merge_runs(doc) == [i \in DOMAIN doc |-> _merge_runs_in(_remove_elements(doc[i], "proofErr"))]

-----------------------------------------------------------------------------

ChangesBy(doc, author) ==
  Len(Only(FlattenSeq(doc), {Start(tag, author) : tag \in {"ins", "del"}}))

get_tracked_change_authors(doc) == [a \in Writers |-> ChangesBy(doc, a)]

(* The one author who has more changes now than in the original, the       *)
(* default where there is none, and where there are several (the caller    *)
(* then warns and takes the default).                                      *)
infer_author(doc, original, default) ==
  LET more == {a \in Writers :
                 get_tracked_change_authors(doc)[a] > get_tracked_change_authors(original)[a]}
  IN  IF Cardinality(more) = 1 THEN CHOOSE a \in more : TRUE ELSE default

(* redlining.py: the author's insertions go, the deletions come back as    *)
(* text; what is left of a paragraph is its w:t texts.                     *)
_remove_author_tracked_changes(words, author) ==
  {w \in ToSet(words) :
     /\ <<"ins", author>> \notin w.under
     /\ \/ w.tag = "t"
        \/ w.tag = "delText" /\ <<"del", author>> \in w.under}

Text(words) == [k \in DOMAIN words |-> words[k].word]

TextOfParagraph(words, author) ==
  Text(Only(words, _remove_author_tracked_changes(words, author)))

_extract_text_content(doc, author) ==
  LET texts == [i \in DOMAIN doc |-> TextOfParagraph(WordsOf(doc[i]), author)]
  IN  Only(texts, ToSet(texts) \ {<<>>})

HasChangeBy(doc, author) == ChangesBy(doc, author) > 0

(* A check that is content with an author who only inserted. *)
MutValidRedlines(doc, original, author) ==
  (\E i \in DOMAIN doc : \E n \in DOMAIN doc[i] : doc[i][n] = Start("del", author)) =>
    _extract_text_content(doc, author) = _extract_text_content(original, author)

(* RedliningValidator.validate *)
ValidRedlines(doc, original, author) ==
  HasChangeBy(doc, author) =>
    _extract_text_content(doc, author) = _extract_text_content(original, author)

(* validators/docx.py *)
validate_whitespace_preservation(doc) ==
  \A x \in TextElements(doc) :
    x.piece.tag = "t" /\ HasOuterBlank(x.piece.text) => x.piece.space

validate_deletions(doc) ==
  \A x \in TextElements(doc) : Under(x, "del") /\ x.piece.tag = "t" => x.piece.text = <<>>

validate_insertions(doc) ==
  \A x \in TextElements(doc) : Under(x, "ins") /\ x.piece.tag = "delText" => Under(x, "del")

-----------------------------------------------------------------------------

(* What a reader sees, whatever elements the text is written with: when    *)
(* the changes of the authors in `rejected` are undone and those of the    *)
(* others left as they are (an insertion shown, a deletion struck out).    *)
ShownOf(words, rejected) ==
  Text(Only(words, {w \in ToSet(words) :
    ~\E c \in w.under : \/ c[1] = "ins" /\ c[2] \in rejected
                        \/ c[1] = "del" /\ c[2] \notin rejected}))

Shown(doc, rejected) == FlattenSeq([i \in DOMAIN doc |-> ShownOf(WordsOf(doc[i]), rejected)])

Words(doc) == [i \in DOMAIN doc |-> WordsOf(doc[i])]
=============================================================================
