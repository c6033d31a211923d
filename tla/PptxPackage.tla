---------------------------- MODULE PptxPackage -----------------------------
(***************************************************************************)
(* Editing a presentation with the pptx skill's scripts: the package is    *)
(* unpacked, slides are added (add_slide.py, which prints the slide list   *)
(* entry for the editor to insert), taken off the list and edited by hand, *)
(* unreferenced parts are removed (clean.py), and the directory is checked *)
(* and packed (validators/pptx.py, pack.py). The scripts run one at a time *)
(* on the same directory, in any order; clean.py is several steps here.    *)
(***************************************************************************)
EXTENDS OoxmlValidator, Sequences

CONSTANTS
  Slide,       \* the parts slide1.xml, slide2.xml, ... in order of number
  Shapes,      \* which presentations may be unpacked
  Mistakes,    \* slide list entries an editor writes that were not printed
  MaxEdits     \* bound on the edits of one behaviour

SlideFiles == {Slide[i] : i \in DOMAIN Slide}
OtherParts == {"presentation", "master1", "layout1", "theme1", "notes1", "chart1",
               "workbook1", "drawing1", "image1", "image2"}

(* Slides are numbered parts of their own directory, declared each by its  *)
(* own entry.                                                              *)
ASSUME SlideAssumption ==
  /\ Slide \in Seq(SlideFiles) /\ Len(Slide) >= 2
  /\ \A i, j \in DOMAIN Slide : Slide[i] = Slide[j] => i = j
  /\ SlideFiles \cap (OtherParts \cup {Root}) = {}
  /\ SlideFiles \cup {"master1", "layout1"} \subseteq Declarable
  /\ \A s \in SlideFiles : Kind[s] = "slides"
  /\ Kind["presentation"] = "ppt" /\ Kind["layout1"] = "slideLayouts"
  /\ Kind["master1"] = "slideMasters"
  /\ Shapes \subseteq {"plain", "link", "shapes", "rooted"}
  /\ Mistakes \subseteq [id : Nat, rid : Nat]

VARIABLES
  pkg,         \* the unpacked directory
  printed,     \* slide list entries printed and not inserted yet
  cleanAt,     \* where clean.py stands: "idle", "loop" or "types"
  removed,     \* its all_removed
  clean,       \* clean.py was the last to change the directory
  packed,      \* what pack.py or validate.py said last about the present directory
  edits        \* edits made, for MaxEdits

pptxVars == <<pkg, printed, cleanAt, removed, clean, packed, edits>>

NoPackage == [files |-> {}, rels |-> [p \in {} |-> {}], uses |-> [p \in {} |-> {}],
              sldIds |-> {}, declared |-> {}, flaw |-> NoFlaw]

(* What may be unpacked: two slides of one layout, the first with a chart  *)
(* and its workbook, the second with a picture and notes; "link" adds a    *)
(* jump from the first slide to the second, "shapes" a drawing on top of   *)
(* the chart with a picture in it; in "rooted" the targets that name the   *)
(* second slide and the chart start at the package's root.                 *)
Addressed(shape, rel) == IF shape = "rooted" THEN FromRoot(rel) ELSE rel

PresentationRels(shape) ==
  [p \in {Root, "presentation", "master1", "layout1", Slide[1], Slide[2], "notes1", "chart1"}
           \cup (IF shape = "shapes" THEN {"drawing1"} ELSE {}) |->
     CASE p = Root -> {Rel(1, "officeDocument", "presentation")}
       [] p = "presentation" -> {Rel(1, "slideMaster", "master1"),
                                 Rel(2, "slide", Slide[1]),
                                 Addressed(shape, Rel(3, "slide", Slide[2])),
                                 Rel(4, "theme", "theme1")}
       [] p = "master1" -> {Rel(1, "slideLayout", "layout1"), Rel(2, "theme", "theme1")}
       [] p = "layout1" -> {Rel(1, "slideMaster", "master1")}
       [] p = Slide[1] -> {Rel(1, "slideLayout", "layout1"), Addressed(shape, Rel(2, "chart", "chart1"))}
            \cup (IF shape = "link" THEN {Rel(3, "slide", Slide[2])} ELSE {})
       [] p = Slide[2] -> {Rel(1, "slideLayout", "layout1"), Rel(2, "image", "image1"),
                           Rel(3, "notesSlide", "notes1")}
       [] p = "notes1" -> {Rel(1, "slide", Slide[2])}
       [] p = "chart1" -> {Rel(1, "package", "workbook1")}
            \cup (IF shape = "shapes" THEN {Rel(2, "chartUserShapes", "drawing1")} ELSE {})
       [] p = "drawing1" -> {Rel(1, "image", "image2")}]

Presentation(shape) ==
  LET rels == PresentationRels(shape)
      files == UNION {{r.target : r \in rels[p]} : p \in DOMAIN rels}
  IN  [files |-> files, rels |-> rels,
       uses |-> [p \in files |-> IF p \in DOMAIN rels
                   THEN {r.id : r \in {x \in rels[p] : x.type \in {"chart", "image", "package"}}}
                   ELSE {}],
       sldIds |-> {[id |-> 256, rid |-> 2], [id |-> 257, rid |-> 3]},
       declared |-> files \ {"image1", "image2", "workbook1"},
       flaw |-> NoFlaw]

PptxInit ==
  /\ pkg = NoPackage
  /\ printed = {} /\ cleanAt = "idle" /\ removed = {}
  /\ clean = FALSE /\ packed = "no" /\ edits = 0

Editing == pkg # NoPackage /\ cleanAt = "idle"

(* A change of the directory by add_slide.py or by the editor. *)
Changes(new) ==
  /\ pkg' = new
  /\ edits < MaxEdits /\ edits' = edits + 1
  /\ clean' = FALSE /\ packed' = "no"
  /\ UNCHANGED <<cleanAt, removed>>

UnpackPptx(shape) ==
  /\ pkg = NoPackage
  /\ Changes(Presentation(shape))
  /\ UNCHANGED printed

Largest(numbers) == CHOOSE n \in numbers : \A k \in numbers : k <= n
Next1(numbers, first) == IF numbers = {} THEN first ELSE Largest(numbers) + 1

(* add_slide.py *)
get_next_slide_number(p) == Next1({i \in DOMAIN Slide : Slide[i] \in p.files}, 1)

(* Where the list is empty, from 1. *)
Mut_get_next_slide_id(p) == Next1({s.id : s \in p.sldIds}, 1)

_get_next_slide_id(p) == Next1({s.id : s \in p.sldIds}, 256)

_add_to_content_types(declared, dest) == declared \cup {dest}

(* The relationship is added unless one leads to dest; the new id is       *)
(* returned either way.                                                    *)
_add_to_presentation_rels(p, dest) ==
  LET rid == Next1(RelIds(p, "presentation"), 1)
  IN  [rid |-> rid,
       rels |-> IF dest \in Targets(p, "presentation") THEN p.rels["presentation"]
                ELSE p.rels["presentation"] \cup {Rel(rid, "slide", dest)}]

(* What both ways of adding a slide do once its file and rels are there.   *)
AddsSlide(dest, rels, uses) ==
  LET added == _add_to_presentation_rels(pkg, dest)
  IN  /\ Changes([pkg EXCEPT
           !.files = @ \cup {dest},
           !.rels = [p \in DOMAIN @ \cup {dest} |->
                       IF p = dest THEN rels ELSE IF p = "presentation" THEN added.rels ELSE @[p]],
           !.uses = [p \in DOMAIN @ \cup {dest} |-> IF p = dest THEN uses ELSE @[p]],
           !.declared = _add_to_content_types(@, dest)])
      /\ printed' = printed \cup {[id |-> _get_next_slide_id(pkg), rid |-> added.rid]}

create_slide_from_layout ==
  /\ Editing
  /\ get_next_slide_number(pkg) <= Len(Slide)
  /\ AddsSlide(Slide[get_next_slide_number(pkg)], {Rel(1, "slideLayout", "layout1")}, {})

(* A copy has the relationships of its source but the one to its notes. *)
CopiedRels(source) == {r \in pkg.rels[source] : r.type # "notesSlide"}

duplicate_slide(source) ==
  /\ Editing
  /\ source \in pkg.files
  /\ get_next_slide_number(pkg) <= Len(Slide)
  /\ AddsSlide(Slide[get_next_slide_number(pkg)], CopiedRels(source), pkg.uses[source])

(* The editor's own changes to presentation.xml and to a part's text. *)
InsertSldId(entry) ==
  /\ Editing
  /\ entry \in printed
  /\ printed' = printed \ {entry}
  /\ Changes([pkg EXCEPT !.sldIds = @ \cup {entry}])

MistypesSldId(entry) ==
  /\ Editing
  /\ entry \in Mistakes
  /\ Changes([pkg EXCEPT !.sldIds = @ \cup {entry}])
  /\ UNCHANGED printed

DeleteSldId(entry) ==
  /\ Editing
  /\ entry \in pkg.sldIds
  /\ Changes([pkg EXCEPT !.sldIds = @ \ {entry}])
  /\ UNCHANGED printed

Slips(part, kind) ==
  /\ Editing
  /\ pkg.flaw = NoFlaw
  /\ part \in pkg.files
  /\ Changes([pkg EXCEPT !.flaw = [part |-> part, kind |-> kind]])
  /\ UNCHANGED printed

(* clean.py resolves targets as seen from the part's directory only; one   *)
(* from the root ends outside the directory and counts for nothing.        *)
RelativeTargets(p, part) == {r.target : r \in {x \in p.rels[part] : ~x.rooted}}

(* A part that goes takes along what the record knows of it.               *)
Without(p, gone, goneRels) ==
  LET kept == p.files \ gone
  IN  [p EXCEPT !.files = kept,
                !.rels = [q \in DOMAIN p.rels \ goneRels |-> p.rels[q]],
                !.uses = [q \in kept |-> p.uses[q]],
                !.flaw = IF p.flaw.part \in gone THEN NoFlaw ELSE p.flaw]

get_slides_in_sldidlst(p) ==
  {r.target : r \in {x \in p.rels["presentation"] :
                       /\ x.type \in TypesNaming("slide") /\ ~x.rooted /\ x.target \in SlideFiles
                       /\ \E s \in p.sldIds : s.rid = x.id}}

(* remove_orphaned_slides; remove_trash_directory has nothing to remove.   *)
remove_orphaned_slides ==
  /\ Editing /\ ~clean
  /\ LET listed == get_slides_in_sldidlst(pkg)
         gone == (pkg.files \cap SlideFiles) \ listed
         rest == Without(pkg, gone, gone)
     IN  /\ pkg' = IF gone = {} THEN rest
                   ELSE [rest EXCEPT !.rels["presentation"] =
                           {r \in @ : ~r.rooted /\ r.target \in SlideFiles => r.target \in listed}]
         /\ removed' = gone
  /\ cleanAt' = "loop"
  /\ clean' = FALSE /\ packed' = "no"
  /\ UNCHANGED <<printed, edits>>

get_slide_referenced_files(p) ==
  UNION {RelativeTargets(p, s) : s \in SlideFiles \cap DOMAIN p.rels}

(* The .rels files of charts, diagrams and drawings that go. *)
remove_orphaned_rels_files(p) ==
  {q \in DOMAIN p.rels \ {Root} :
     /\ Kind[q] \in {"charts", "diagrams", "drawings"}
     /\ q \notin p.files \/ q \notin get_slide_referenced_files(p)}

get_referenced_files(p) == UNION {RelativeTargets(p, q) : q \in DOMAIN p.rels}

(* Files that go: unreferenced ones of the resource directories. Of their  *)
(* .rels files only those of themes and notes go with them.                *)
remove_orphaned_files(p) ==
  {f \in p.files :
     /\ Kind[f] \in {"media", "embeddings", "charts", "diagrams", "tags", "drawings",
                     "ink", "theme", "notesSlides"}
     /\ f \notin get_referenced_files(p)}

RelsGoneWith(files) == {f \in files : Kind[f] \in {"theme", "notesSlides"}}

(* One round of clean_unused_files' loop; it ends when nothing was removed.*)
CleanRound ==
  /\ cleanAt = "loop"
  /\ LET goneRels == remove_orphaned_rels_files(pkg)
         p == Without(pkg, {}, goneRels)
         gone == remove_orphaned_files(p)
     IN  /\ pkg' = Without(p, gone, RelsGoneWith(gone))
         /\ removed' = removed \cup gone
         /\ cleanAt' = IF goneRels = {} /\ gone = {} THEN "types" ELSE "loop"
  /\ UNCHANGED <<printed, clean, packed, edits>>

(* Overrides of slides only. *)
Mut_update_content_types(declared, gone) == declared \ (gone \cap SlideFiles)

update_content_types(declared, gone) == declared \ gone

CleanEnds ==
  /\ cleanAt = "types"
  /\ pkg' = [pkg EXCEPT !.declared = update_content_types(@, removed)]
  /\ cleanAt' = "idle" /\ removed' = {} /\ clean' = TRUE
  /\ UNCHANGED <<printed, packed, edits>>

(* validators/pptx.py *)
validate_uuid_ids(p) == p.flaw.kind # "uuid"

validate_slide_layout_ids(p) ==
  \A m \in {f \in p.files : Kind[f] = "slideMasters"} :
    m \in DOMAIN p.rels /\ \E r \in p.rels[m] : r.type = "slideLayout"

SlidesWithRels(p) == SlideFiles \cap DOMAIN p.rels

validate_no_duplicate_slide_layouts(p) ==
  \A s \in SlidesWithRels(p) : Cardinality({r \in p.rels[s] : r.type = "slideLayout"}) <= 1

validate_notes_slide_references(p) ==
  \A s, t \in SlidesWithRels(p) : \A r \in p.rels[s], q \in p.rels[t] :
    (/\ r.type = "notesSlide" /\ q.type = "notesSlide"
     /\ r.target = q.target /\ r.rooted = q.rooted) => s = t /\ r = q

ValidPptx(p) ==
  /\ validate_xml(p)
  /\ validate_namespaces(p) /\ validate_unique_ids(p) /\ validate_uuid_ids(p)
  /\ validate_file_references(p) /\ validate_slide_layout_ids(p)
  /\ validate_content_types(p) /\ validate_against_xsd(p)
  /\ validate_notes_slide_references(p) /\ validate_all_relationship_ids(p)
  /\ validate_no_duplicate_slide_layouts(p)

(* pack.py with --original: repair, then all checks; a file that fails     *)
(* them is not written. Condensing needs every file to parse.              *)
PackPptx ==
  /\ Editing
  /\ LET repaired == repair_whitespace_preservation(pkg)
     IN  /\ pkg' = repaired
         /\ packed' = IF ValidPptx(repaired) THEN "packed" ELSE "refused"
  /\ UNCHANGED <<printed, cleanAt, removed, clean, edits>>

(* validate.py with --original on the directory, which --auto-repair       *)
(* changes; or on the packed file, which is unpacked elsewhere, repaired   *)
(* there, and without --original held to the schema on its own.            *)
ValidPptxAlone(p) == ValidPptx(p) /\ p.flaw.kind # "schema, as in the original"

ValidateDirectory(repair) ==
  /\ Editing
  /\ pkg' = IF repair THEN repair_whitespace_preservation(pkg) ELSE pkg
  /\ packed' = IF ValidPptx(pkg') THEN "passed" ELSE "failed"
  /\ UNCHANGED <<printed, cleanAt, removed, clean, edits>>

ValidatePacked(original) ==
  /\ Editing
  /\ packed = "packed"
  /\ packed' = IF original \/ ValidPptxAlone(pkg) THEN "passed" ELSE "failed"
  /\ UNCHANGED <<pkg, printed, cleanAt, removed, clean, edits>>

PptxNext ==
  \/ \E shape \in Shapes : UnpackPptx(shape)
  \/ create_slide_from_layout
  \/ \E s \in SlideFiles : duplicate_slide(s)
  \/ \E entry \in printed : InsertSldId(entry)
  \/ \E entry \in Mistakes : MistypesSldId(entry)
  \/ \E entry \in pkg.sldIds : DeleteSldId(entry)
  \/ \E part \in {Slide[1], "presentation", "chart1"}, kind \in FlawKinds : Slips(part, kind)
  \/ remove_orphaned_slides
  \/ CleanRound
  \/ CleanEnds
  \/ PackPptx
  \/ \E repair \in BOOLEAN : ValidateDirectory(repair)
  \/ \E original \in BOOLEAN : ValidatePacked(original)

PptxSpec == PptxInit /\ [][PptxNext]_pptxVars

-----------------------------------------------------------------------------

(* What the directory of a presentation is made of (unpack.py's output).   *)
PptxTypeOK ==
  /\ packed \in {"no", "packed", "refused", "passed", "failed"}
  /\ cleanAt \in {"idle", "loop", "types"}
  /\ pkg.declared \cup removed \subseteq DOMAIN Kind
  /\ DOMAIN pkg.uses = pkg.files
  /\ \A s \in pkg.sldIds \cup printed : s.id >= 256 /\ s.rid \in Nat

(* What pack.py and validate.py let through, whatever order slides were    *)
(* added, listed, taken off and cleaned up in: every entry of the slide    *)
(* list has an id of its own and leads to a part that exists and is        *)
(* declared, no relationship leads nowhere and nothing lies around         *)
(* unreferenced (pack.py 69-105 over validators/base.py and pptx.py). The  *)
(* part is a slide where add_slide.py printed the entry; of one that was   *)
(* written by mistake the checks see no more than that the type of its     *)
(* relationship has "slide" in it, as that of a master has (base.py:447).  *)
PackedIsSound ==
  packed \in {"packed", "passed"} =>
    /\ \A s \in pkg.sldIds :
         \E r \in pkg.rels["presentation"] :
           /\ r.id = s.rid /\ r.type \in TypesNaming("slide")
           /\ r.target \in pkg.files \cap pkg.declared
           /\ s \notin Mistakes => r.target \in SlideFiles
    /\ \A s, t \in pkg.sldIds : s.id = t.id => s = t
    /\ pkg.files = Referenced(pkg)

(* When clean.py has ended, no slide is left that the list does not name,  *)
(* no resource that nothing leads to, no declaration of a part that is     *)
(* gone, and what a relationship names that is gone was a slide; all of    *)
(* that as far as targets are not written from the package's root: what    *)
(* only such a target names is removed though it is in use, a listed slide *)
(* too, and the relationship stays and leads nowhere (clean_unused_files,  *)
(* its header, and clean.py:40, 75, 118-123, 161-166).                     *)
CleanIsComplete ==
  clean =>
    /\ pkg.files \cap SlideFiles \subseteq get_slides_in_sldidlst(pkg)
    /\ remove_orphaned_files(pkg) = {}
    /\ pkg.declared \subseteq pkg.files
    /\ get_referenced_files(pkg) \ pkg.files \subseteq SlideFiles
    /\ \A r \in pkg.rels["presentation"] : r.target \notin pkg.files => r.rooted

(* clean.py's header: it removes "Orphaned .rels files for deleted         *)
(* resources". So a part that stays keeps its relationships. The code      *)
(* takes them from every chart, diagram or drawing that no slide itself    *)
(* refers to, and then the files they led to.                              *)
KeptPartsKeepRels ==
  [][ cleanAt = "loop" =>
        \A q \in DOMAIN pkg.rels \ DOMAIN pkg'.rels : q \notin pkg'.files ]_pptxVars
=============================================================================
