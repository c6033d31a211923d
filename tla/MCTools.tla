------------------------------- MODULE MCTools -------------------------------
(* Small instances of the tools that share no state with one another,      *)
(* checked in one run: each behaviour picks one of them and takes its      *)
(* steps only, so their state spaces add up.                               *)
EXTENDS MCPptx, DocxPackage, Soffice, BmadConfig, DistillerSources, PdfForms

CONSTANTS acceptA, acceptB, recalcC, brainstorm, here, home, shared

(* Every document of one paragraph of up to three of these nodes is        *)
(* unpacked; a few are edited, two of them with comments.                  *)
MCText(word) == Run("plain", <<Piece("t", <<word>>, FALSE)>>)
MCGone(word) == Run("plain", <<Piece("delText", <<word>>, FALSE)>>)
MCBold == Run("bold", <<Piece("t", <<"b", Blank>>, TRUE)>>)
MCSpace == Run("bold", <<Piece("t", <<Blank>>, TRUE)>>)
MCIns(author, word) == Change("ins", author, <<MCText(word)>>)
MCDel(author, word) == Change("del", author, <<MCGone(word)>>)
MCNodes ==
  {<<MCText("a")>>, <<MCBold>>, <<Mark("proofErr")>>, <<Mark("bookmarkStart")>>,
   <<Run("plain", <<Piece("tab", <<>>, FALSE), Piece("t", <<"c">>, FALSE)>>)>>,
   MCIns("Ann", "x"), MCIns("Bob", "y"), MCDel("Ann", "z")}
MCEdited ==
  {<<<<MCText("a")>> \o MCIns("Ann", "x")>>,
   <<<<MCBold>> \o MCDel("Ann", "z")>>,
   <<Change("ins", "Ann", <<MCText("x")>> \o MCDel("Bob", "z"))>>,
   <<<<MCText("a")>>, MCIns("Claude", "m")>>,
   <<<<MCText("a"), MCSpace>>>>}
MCOriginals ==
  [doc : {<<FlattenSeq(p)>> : p \in UNION {[1 .. n -> MCNodes] : n \in 1 .. 3}},
   comments : {"none"}, steps : {0}]
    \cup [doc : MCEdited, comments : {"none"}, steps : {2}]
    \cup [doc : {<<<<MCText("a")>>>>}, comments : {"none", "old"}, steps : {3}]

MCToolParts == [p \in MCParts \cup {"document"} \cup CommentParts |->
                  IF p \in MCParts THEN MCKind[p] ELSE "word"]
MCToolRoots == MCDeclarable \cup {"document"}

MCProgram == [s \in Scripts |-> IF s = recalcC THEN "recalc" ELSE "accept_changes"]

MCErrors == <<"#DIV/0!", "#N/A">>

(* A skill of the project and one of the home directory of the same name.  *)
MCRootOf == (shared :> {home}) @@ ("project skills" :> {here}) @@ ("loose skills" :> {})
MCSkillRoots == <<"project skills", shared, "loose skills">>
MCItem(key, code, text) == Item((key :> code) @@ ("text" :> text))
MCBlock(k, entries) ==
  Document((<<k>> :> TableHere)
    @@ [p \in {<<k, e>> : e \in DOMAIN entries} |-> entries[p[2]]])
MCMary == MCBlock("agent", "name" :> Scalar("Mary"))
MCDefaults ==
  (shared :> {MCMary}) @@ ("loose skills" :> {MCMary}) @@ ("project skills" :>
  {MCBlock("agent", ("name" :> Scalar("Mary"))
      @@ ("menu" :> Array(<<MCItem("code", "a", 1), MCItem("code", "b", 1)>>))),
   MCBlock("other", "name" :> Scalar("Mary")), Unparsable})
MCOverrides ==
  {Missing, Unparsable, Document(<<"agent">> :> Scalar("Ada")),
   MCBlock("agent", "name" :> Scalar("Ada")),
   MCBlock("agent", "menu" :> Array(<<MCItem("code", "b", 2), MCItem("code", "c", 2)>>)),
   MCBlock("agent", ("name" :> Scalar("Eve")) @@ ("menu" :> Array(<<MCItem("code", "a", 3)>>))),
   MCBlock("agent", "menu" :> Array(<<MCItem("id", "a", 4)>>))}

(* deep_merge as it recurs through nested tables, beside its paths.        *)
RECURSIVE MCTree(_, _), MCMerge(_, _)
MCTree(document, at) ==
  [k \in {p[Len(p)] : p \in {q \in DOMAIN document.of : Front(q) = at}} |->
     IF document.of[Append(at, k)].kind = "table"
     THEN Item(MCTree(document, Append(at, k))) ELSE document.of[Append(at, k)]]
MCMerge(base, override) ==
  IF base.kind = "table" /\ override.kind = "table"
  THEN Item([k \in DOMAIN base.of \cup DOMAIN override.of |->
               IF k \notin DOMAIN base.of THEN override.of[k]
               ELSE IF k \notin DOMAIN override.of THEN base.of[k]
               ELSE MCMerge(base.of[k], override.of[k])])
  ELSE IF base.kind = "array" /\ override.kind = "array"
  THEN Array(_merge_arrays(base.of, override.of))
  ELSE override
ASSUME MCMergeByPath ==
  LET documents == {load_toml(file) : file \in MCOverrides \cup UNION Range(MCDefaults)}
      tree(document) == Item(MCTree(document, <<>>))
  IN  \A base, second, third \in documents :
        LET merged == deep_merge(base, second)
        IN  tree(deep_merge(merged, third)) = MCMerge(MCMerge(tree(base), tree(second)), tree(third))

MCFile(name) == [dir |-> "docs", name |-> name]
MCListing ==
  ("docs" :> <<MCFile("brief.md"), MCFile("brief-review.md"), MCFile("logo.png"), MCFile("prd.md")>>)
    @@ ("brief.md" :> <<MCFile("brief.md")>>)
    @@ ("brief-discovery-notes.md" :> <<MCFile("brief-discovery-notes.md")>>)
    @@ ("brief-review-review.md" :> <<MCFile("brief-review-review.md")>>)
    @@ ("logo.png" :> <<MCFile("logo.png")>>)
    @@ ("*.xyz" :> <<>>)
    @@ ("old/brief.md" :> <<[dir |-> "old", name |-> "brief.md"]>>)
MCCompanion ==
  [n \in {"brief.md", "brief-review.md", "brief-discovery-notes.md",
          "brief-review-review.md", "prd.md", "logo.png"} |->
     CASE n \in {"brief-review.md", "brief-discovery-notes.md"} -> "brief.md"
       [] n = "brief-review-review.md" -> "brief-review.md"
       [] OTHER -> n]
MCSize == [n \in DOMAIN MCCompanion |-> IF n = "prd.md" THEN 60000 ELSE 20000]

(* A text, a box, a box of three states, two radio buttons, a field of no  *)
(* widget, a signature.                                                    *)
MCField(ft, kids, states) == [ft |-> ft, kids |-> kids, states |-> states]
MCWidget(id, page, on) == [id |-> id, page |-> page, on |-> on]
MCForms ==
  {[fields |-> ("name" :> MCField("Tx", FALSE, {})) @@ ("agree" :> MCField("Btn", FALSE, {"on", "off"}))
      @@ ("odd" :> MCField("Btn", FALSE, {"on", "off", "maybe"}))
      @@ ("plan" :> MCField("Btn", TRUE, {"on", "off"})) @@ ("lost" :> MCField("Tx", FALSE, {}))
      @@ ("sign" :> MCField("Sig", FALSE, {})),
    widgets |-> <<MCWidget("name", 1, {}), MCWidget("agree", 1, {"on"}), MCWidget("odd", 1, {"on"}),
                  MCWidget("plan", 1, {"on"}), MCWidget("plan", 2, {"maybe"}), MCWidget("name", 2, {}),
                  MCWidget("sign", 1, {})>>],
   [fields |-> [k \in {} |-> {}], widgets |-> <<>>]}
MCEntries ==
  [field_id : {"name", "agree", "plan"}, page : {1, 2}, value : {"on", "off", "maybe"}]
    \cup [field_id : {"odd", "lost", "sign", "none"}, page : {1}, value : {"on"}]
    \cup [field_id : {"agree", "odd", "none"}, page : {1}]

MCLabels == {<<0, 0, 1, 1>>, <<1, 0, 2, 1>>}
MCSheet == [width |-> 2, height |-> 2]
MCScales == {[x |-> 3, y |-> 2]}

VARIABLE tool     \* which of them runs

toolsVars == <<pptxVars, docxVars, officeVars, bmadVars, distillerVars, formVars>>

(* Only the tool that runs starts from all its initial states.             *)
MCToolInit ==
  /\ tool \in {"pptx", "docx", "office", "bmad", "distiller", "form"}
  /\ PptxInit /\ DocxInit /\ OfficeInit /\ BmadInit /\ DistillerInit /\ FormInit
  /\ tool # "docx" => wordFrom = [doc |-> <<<<MCText("a")>>>>, comments |-> "none", steps |-> 3]
  /\ tool # "office" => ~blocked /\ macroDir = {}
  /\ tool # "bmad" => customize["project skills"][brainstorm] = Unparsable
  /\ tool # "form" => HasFields(form)

MCToolNext ==
  /\ UNCHANGED tool
  /\ \/ /\ tool = "pptx" /\ PptxNext
        /\ UNCHANGED <<docxVars, officeVars, bmadVars, distillerVars, formVars>>
     \/ /\ tool = "docx" /\ DocxNext
        /\ UNCHANGED <<pptxVars, officeVars, bmadVars, distillerVars, formVars>>
     \/ /\ tool = "office" /\ OfficeNext
        /\ UNCHANGED <<pptxVars, docxVars, bmadVars, distillerVars, formVars>>
     \/ /\ tool = "bmad" /\ BmadNext
        /\ UNCHANGED <<pptxVars, docxVars, officeVars, distillerVars, formVars>>
     \/ /\ tool = "distiller" /\ DistillerNext
        /\ UNCHANGED <<pptxVars, docxVars, officeVars, bmadVars, formVars>>
     \/ /\ tool = "form" /\ FormNext
        /\ UNCHANGED <<pptxVars, docxVars, officeVars, bmadVars, distillerVars>>

MCToolSpec == MCToolInit /\ [][MCToolNext]_<<toolsVars, tool>>

(* What the tools' variables hold: the parts of a deck with their          *)
(* relationships (unpack.py), the scripts' progress and the shared shim    *)
(* (office/soffice.py).                                                    *)
ToolsTypeOK == PptxTypeOK /\ OfficeTypeOK
=============================================================================
