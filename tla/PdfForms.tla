------------------------------ MODULE PdfForms ------------------------------
(***************************************************************************)
(* Filling a PDF form with the pdf skill. A form with fields is read       *)
(* (extract_form_field_info.py) and filled all or not at all               *)
(* (fill_fillable_fields.py). On a form without fields, boxes are drawn    *)
(* up by hand, checked (check_bounding_boxes.py), and texts put in them    *)
(* (fill_pdf_form_with_annotations.py) in the coordinates of the page.     *)
(***************************************************************************)
EXTENDS Integers, Sequences, FiniteSets

CONSTANTS
  Forms,        \* PDFs with fields: [fields, pages], see get_field_info
  Entries,      \* [field_id, page, value] or [field_id, page] in answer files
  MaxEntries,   \* bound on its length
  Grid,         \* coordinates of boxes, a set of numbers
  Labels,       \* boxes labels may have
  Sheet,        \* [width, height] of the page in boxes' coordinates
  Scales        \* [x, y]: points of the PDF for one unit of an image

(* Boxes are drawn on the page; images are not empty.                      *)
ASSUME FormAssumption ==
  /\ MaxEntries \in Nat
  /\ Sheet.height \in Nat /\ Grid \subseteq 0 .. Sheet.height
  /\ Scales \subseteq [x : Nat \ {0}, y : Nat \ {0}]
  /\ \A pdf \in Forms : \A w \in DOMAIN pdf.widgets : IsFiniteSet(pdf.widgets[w].on)

VARIABLES
  form,         \* the PDF with fields
  filled,       \* the values written into it: [id -> value]
  askedFor,     \* the answer file
  verdict,      \* of fill_fillable_fields.py: "none", "written", "refused"
  boxes,        \* fields.json: a sequence of [label, entry, size]
  checked,      \* check_bounding_boxes.py said SUCCESS of these boxes
  texts         \* the annotations' rectangles

formVars == <<form, filled, askedFor, verdict, boxes, checked, texts>>

NoValues == [k \in {} |-> {}]

FormInit ==
  /\ form \in Forms
  /\ filled = NoValues /\ askedFor = <<>> /\ verdict = "none"
  /\ boxes = <<>> /\ checked = FALSE /\ texts = <<>>

(* What a value of the field must be one of; {} where anything will do. A  *)
(* box with other than two states has no checked value to compare with.    *)
make_field_dict(field) ==
  CASE field.ft = "Tx" -> [type |-> "text", values |-> {}]
    [] field.ft = "Btn" -> [type |-> IF Cardinality(field.states) = 2
                                     THEN "checkbox" ELSE "checkbox of unknown states",
                            values |-> field.states]
    [] field.ft = "Ch" -> [type |-> "choice", values |-> field.states]
    [] OTHER -> [type |-> "unknown", values |-> {}]

(* Fields by id, with the page of their last widget; a group of radio      *)
(* buttons with the page of its first, one value for each button. What has *)
(* no widget is left out.                                                  *)
get_field_info(pdf) ==
  LET widgets(id) == {w \in DOMAIN pdf.widgets : pdf.widgets[w].id = id}
      single == {id \in DOMAIN pdf.fields : ~pdf.fields[id].kids /\ widgets(id) # {}}
      radio(id) == {w \in widgets(id) : Cardinality(pdf.widgets[w].on) = 1}
      radios == {id \in DOMAIN pdf.fields :
                   pdf.fields[id].kids /\ pdf.fields[id].ft = "Btn" /\ radio(id) # {}}
      last(ws) == CHOOSE w \in ws : \A v \in ws : v <= w
      first(ws) == CHOOSE w \in ws : \A v \in ws : w <= v
  IN  [id \in single \cup radios |->
         IF id \in single
         THEN [page |-> pdf.widgets[last(widgets(id))].page, of |-> make_field_dict(pdf.fields[id])]
         ELSE [page |-> pdf.widgets[first(radio(id))].page,
               of |-> [type |-> "radio_group",
                       values |-> UNION {pdf.widgets[w].on : w \in radio(id)}]]]

(* check_fillable_fields.py decides which way the form goes. *)
HasFields(pdf) == DOMAIN pdf.fields # {}

(* Radio groups go unchecked. *)
Mutvalidation_error_for_field_value(info, value) ==
  info.type \in {"checkbox", "choice"} /\ value \notin info.values

validation_error_for_field_value(info, value) ==
  info.type \in {"checkbox", "radio_group", "choice"} /\ value \notin info.values

(* if "value" in field: an entry may only name a field. *)
IsGiven(e) == "value" \in DOMAIN e

(* The values asked for, entry by entry; later entries win.                *)
ValuesOf(entries) ==
  LET after[n \in 0 .. Len(entries)] ==
        IF n = 0 THEN NoValues
        ELSE LET e == entries[n]
             IN  IF IsGiven(e)
                 THEN [k \in DOMAIN after[n - 1] \cup {e.field_id} |->
                         IF k = e.field_id THEN e.value ELSE after[n - 1][k]]
                 ELSE after[n - 1]
  IN  after[Len(entries)]

(* Every entry is looked at before anything is written; one wrong entry,   *)
(* or a value for a box of unknown states, and nothing is. (Once: a second *)
(* run starts from the same empty form.)                                   *)
fill_pdf_fields ==
  /\ HasFields(form) /\ verdict = "none"
  /\ \E n \in 0 .. MaxEntries : askedFor' \in [1 .. n -> Entries]
  /\ LET info == get_field_info(form)
         wrong(e) == \/ e.field_id \notin DOMAIN info
                     \/ e.page # info[e.field_id].page
                     \/ /\ IsGiven(e)
                        /\ \/ info[e.field_id].of.type = "checkbox of unknown states"
                           \/ validation_error_for_field_value(info[e.field_id].of, e.value)
         ok == \A i \in DOMAIN askedFor' : ~wrong(askedFor'[i])
     IN  /\ verdict' = IF ok THEN "written" ELSE "refused"
         /\ filled' = IF ok THEN ValuesOf(askedFor') ELSE NoValues
  /\ UNCHANGED <<form, boxes, checked, texts>>

-----------------------------------------------------------------------------
(* Boxes: <<left, top, right, bottom>>, y downwards in fields.json.        *)

Box == {b \in Grid \X Grid \X Grid \X Grid : b[1] < b[3] /\ b[2] < b[4]}

DrawsBoxes ==
  /\ ~HasFields(form) /\ boxes = <<>>
  /\ boxes' \in [1 .. 2 -> [label : Labels, entry : Box, size : {1, 2}]]
  /\ UNCHANGED <<form, filled, askedFor, verdict, checked, texts>>

(* Boxes that overlap in one direction only pass for overlapping. *)
Mutrects_intersect(r, s) == ~(r[1] >= s[3] \/ r[3] <= s[1]) /\ r[2] < s[2] /\ r[4] > s[2]

rects_intersect(r, s) ==
  ~(r[1] >= s[3] \/ r[3] <= s[1]) /\ ~(r[2] >= s[4] \/ r[4] <= s[2])

(* SUCCESS: no label or entry meets another, each entry holds its text.    *)
get_bounding_box_messages ==
  /\ boxes # <<>>
  /\ checked' = /\ \A i, j \in DOMAIN boxes :
                     /\ ~rects_intersect(boxes[i].label, boxes[j].entry)
                     /\ i # j => /\ ~rects_intersect(boxes[i].entry, boxes[j].entry)
                                 /\ ~rects_intersect(boxes[i].label, boxes[j].label)
                /\ \A i \in DOMAIN boxes : boxes[i].entry[4] - boxes[i].entry[2] >= boxes[i].size
  /\ UNCHANGED <<form, filled, askedFor, verdict, boxes, texts>>

(* To the PDF's coordinates, y upwards: <<left, bottom, right, top>>.      *)
transform_from_image_coords(box, scale) ==
  LET height == Sheet.height * scale.y
  IN  <<box[1] * scale.x, height - box[4] * scale.y, box[3] * scale.x, height - box[2] * scale.y>>

transform_from_pdf_coords(box) ==
  <<box[1], Sheet.height - box[4], box[3], Sheet.height - box[2]>>

fill_pdf_form ==
  /\ boxes # <<>>
  /\ \/ texts' = [i \in DOMAIN boxes |-> transform_from_pdf_coords(boxes[i].entry)]
     \/ \E scale \in Scales :
          texts' = [i \in DOMAIN boxes |-> transform_from_image_coords(boxes[i].entry, scale)]
  /\ UNCHANGED <<form, filled, askedFor, verdict, boxes, checked>>

FormNext == fill_pdf_fields \/ DrawsBoxes \/ get_bounding_box_messages \/ fill_pdf_form

FormSpec == FormInit /\ [][FormNext]_formVars

-----------------------------------------------------------------------------

(* The values the PDF itself has for a field: one of its buttons', one of  *)
(* its states, or anything for others.                                    *)
Possible(id, value) ==
  LET field == form.fields[id]
  IN  IF field.kids
      THEN \E w \in DOMAIN form.widgets : form.widgets[w].id = id /\ form.widgets[w].on = {value}
      ELSE field.ft \in {"Btn", "Ch"} => value \in field.states

(* The entry asks for a value of that field. *)
AsksFor(e, id) == IsGiven(e) /\ e.field_id = id

(* A form is filled whole or not at all: what is written is what the last  *)
(* entry with a value for each field asked for, a value that the field can *)
(* have, and no such entry is left out (extract_form_field_info.py with    *)
(* fill_fillable_fields.py:12-52).                                         *)
FormIsFilledWhole ==
  /\ verdict = "written" =>
       /\ DOMAIN filled = {askedFor[i].field_id : i \in {j \in DOMAIN askedFor : IsGiven(askedFor[j])}}
       /\ \A id \in DOMAIN filled :
            /\ id \in DOMAIN form.fields /\ Possible(id, filled[id])
            /\ \E i \in DOMAIN askedFor :
                 /\ AsksFor(askedFor[i], id) /\ askedFor[i].value = filled[id]
                 /\ \A j \in i + 1 .. Len(askedFor) : ~AsksFor(askedFor[j], id)
  /\ verdict = "refused" => filled = NoValues

(* Two rectangles with a point inside both. *)
Overlap(r, s) == r[1] < s[3] /\ s[1] < r[3] /\ r[2] < s[4] /\ s[2] < r[4]

(* Where the boxes passed the check, the texts put into them meet nowhere  *)
(* on the page, stand upright and within the sheet, whichever coordinates  *)
(* the boxes were given in (check_bounding_boxes.py with                   *)
(* fill_pdf_form_with_annotations.py).                                     *)
CheckedBoxesStayApart ==
  checked =>
    \A i, j \in DOMAIN texts :
      /\ i # j => ~Overlap(texts[i], texts[j])
      /\ texts[i][1] < texts[i][3] /\ 0 <= texts[i][2] /\ texts[i][2] < texts[i][4]

(* A form with fields and one without are filled as their checks say.      *)
FilledFormInv == FormIsFilledWhole /\ CheckedBoxesStayApart
=============================================================================
