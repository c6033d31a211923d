--------------------------- MODULE OoxmlValidator ---------------------------
(***************************************************************************)
(* The checks pack.py runs on an unpacked Office package before it zips it *)
(* (validators/base.py of the pptx skill), as operators on a package:      *)
(*   files     the parts there are                                         *)
(*   rels      for each part with a .rels file, its relationships          *)
(*   uses      the r:id, r:embed and r:link values in a part's XML         *)
(*   sldIds    presentation.xml's slide list: [id, rid]                    *)
(*   declared  the parts with an Override in [Content_Types].xml           *)
(*   flaw      at most one slip of an editor: where, and of which kind     *)
(* XML text is abstract: only the kinds of slip the checks tell apart.     *)
(***************************************************************************)
EXTENDS Naturals, FiniteSets

CONSTANTS
  Declarable,   \* parts whose root element must be declared
  Kind          \* [part -> the directory it lies in]

Root == "package"    \* _rels/.rels, whose part is the package itself

(* A target is written as seen from the part's directory or, with a slash  *)
(* in front, from the package's root.                                      *)
Rel(id, type, target) == [id |-> id, type |-> type, target |-> target, rooted |-> FALSE]
FromRoot(rel) == [rel EXCEPT !.rooted = TRUE]

FlawKinds == {"syntax", "namespace", "id", "uuid", "media type", "spaces",
              "schema", "schema, as in the original", "schema, ignored"}
NoFlaw == [part |-> Root, kind |-> "none"]

Targets(pkg, part) == {r.target : r \in pkg.rels[part]}
RelIds(pkg, part) == {r.id : r \in pkg.rels[part]}
Referenced(pkg) == UNION {Targets(pkg, p) : p \in DOMAIN pkg.rels}

validate_xml(pkg) == pkg.flaw.kind # "syntax"

validate_namespaces(pkg) == pkg.flaw.kind # "namespace"

(* A check that looks at shape ids only. *)
MutUniqueIds(pkg) == pkg.flaw.kind # "id"

(* ids of slides, shapes, masters and layouts; one in an alternate-content *)
(* block or a section list does not count.                                 *)
validate_unique_ids(pkg) ==
  /\ pkg.flaw.kind # "id"
  /\ \A a, b \in pkg.sldIds : a.id = b.id => a = b

validate_file_references(pkg) ==
  DOMAIN pkg.rels # {} =>
    /\ Referenced(pkg) \subseteq pkg.files
    /\ pkg.files \subseteq Referenced(pkg)

(* The word that must occur in the type of a relationship an element       *)
(* refers to, and the types it occurs in: "slide" is in many.              *)
_get_expected_relationship_type(element) ==
  CASE element = "sldId" -> "slide"
    [] element = "sldMasterId" -> "slideMaster"
    [] element = "sldLayoutId" -> "slideLayout"

TypesNaming(word) ==
  IF word = "slide" THEN {"slide", "slideMaster", "slideLayout", "notesSlide"} ELSE {word}

(* Parts without a .rels file are passed over, whatever ids they use.      *)
validate_all_relationship_ids(pkg) ==
  \A p \in pkg.files \cap DOMAIN pkg.rels :
    /\ Cardinality(RelIds(pkg, p)) = Cardinality(pkg.rels[p])
    /\ pkg.uses[p] \subseteq RelIds(pkg, p)
    /\ p = "presentation" =>
         \A s \in pkg.sldIds :
           /\ s.rid \in RelIds(pkg, p)
           /\ \A r \in pkg.rels[p] :
                r.id = s.rid => r.type \in TypesNaming(_get_expected_relationship_type("sldId"))

validate_content_types(pkg) ==
  /\ pkg.files \cap Declarable \subseteq pkg.declared
  /\ pkg.flaw.kind # "media type"

(* Only parts directly under ppt/ or word/, charts and themes have a       *)
(* schema: slides are skipped.                                             *)
_get_schema_path(part) == part \in DOMAIN Kind /\ Kind[part] \in {"ppt", "word", "charts", "theme"}

(* The errors of one file, and of the same file in the original; foreign   *)
(* attributes and elements and template tags were taken out before.        *)
_validate_single_file_xsd(pkg, part) ==
  IF pkg.flaw.part = part /\ pkg.flaw.kind \in
       {"schema", "schema, as in the original", "schema, ignored"}
  THEN {pkg.flaw.kind} ELSE {}

_get_original_file_errors(pkg, part) ==
  _validate_single_file_xsd(pkg, part) \cap {"schema, as in the original"}

validate_file_against_xsd(pkg, part) ==
  _get_schema_path(part) =>
    (_validate_single_file_xsd(pkg, part) \ _get_original_file_errors(pkg, part))
      \subseteq {"schema, ignored"}

validate_against_xsd(pkg) == \A p \in pkg.files : validate_file_against_xsd(pkg, p)

(* repair() adds xml:space where text starts or ends with a blank. *)
repair_whitespace_preservation(pkg) ==
  IF pkg.flaw.kind = "spaces" THEN [pkg EXCEPT !.flaw = NoFlaw] ELSE pkg
=============================================================================
