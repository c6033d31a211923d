------------------------------- MODULE MCPptx -------------------------------
(* A presentation of two slides with room for a third.                     *)
EXTENDS PptxPackage

CONSTANTS slide1, slide2, slide3

MCSlide == <<slide1, slide2, slide3>>
MCParts == {slide1, slide2, slide3, "presentation", "master1", "layout1", "theme1",
            "chart1", "drawing1", "workbook1", "image1", "image2", "notes1"}
MCKind == [part \in MCParts |->
             CASE part \in {slide1, slide2, slide3} -> "slides"
               [] part = "presentation" -> "ppt"
               [] part = "master1" -> "slideMasters"
               [] part = "layout1" -> "slideLayouts"
               [] part = "theme1" -> "theme"
               [] part = "chart1" -> "charts"
               [] part = "drawing1" -> "drawings"
               [] part = "workbook1" -> "embeddings"
               [] part = "notes1" -> "notesSlides"
               [] OTHER -> "media"]
MCMistakes == {[id |-> 258, rid |-> 1], [id |-> 258, rid |-> 4]}
MCDeclarable == {slide1, slide2, slide3, "presentation", "master1", "layout1", "theme1"}
=============================================================================
