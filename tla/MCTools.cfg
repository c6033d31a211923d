\* Each tool on its own: a deck with room for a third slide, documents of three
\* nodes with two edits, three LibreOffice scripts at once, one skill in three
\* places, three arguments for the distillator, two boxes and two answers.
SPECIFICATION MCToolSpec
CONSTANTS
  slide1 = slide1
  slide2 = slide2
  slide3 = slide3
  Slide <- MCSlide
  Kind <- MCToolParts
  Declarable <- MCToolRoots
  Shapes = {"link", "rooted"}
  Mistakes <- MCMistakes
  MaxEdits = 6
  Originals <- MCOriginals
  Me = "Claude"
  Writers = {"Ann", "Bob", "Claude"}
  Vocabulary = {"a", "b", "c", "m", "x", "y", "z", "new", " "}
  Formats = {"plain", "bold"}
  Authors = {"Claude", "Ann"}
  CommentIds = {0, 1}
  acceptA = acceptA
  acceptB = acceptB
  recalcC = recalcC
  Scripts = {acceptA, acceptB, recalcC}
  Program <- MCProgram
  Cells = {"A1", "B2"}
  excel_errors <- MCErrors
  brainstorm = brainstorm
  here = here
  home = home
  shared = shared
  SkillNames = {brainstorm}
  SkillRoots <- MCSkillRoots
  RootOf <- MCRootOf
  Here = here
  Defaults <- MCDefaults
  Overrides <- MCOverrides
  MaxOverrides = 2
  Inputs = {"docs", "brief.md", "brief-discovery-notes.md", "brief-review-review.md", "logo.png", "*.xyz", "old/brief.md"}
  Listing <- MCListing
  NamedFile = {"brief.md", "brief-discovery-notes.md", "brief-review-review.md", "logo.png", "old/brief.md"}
  Companion <- MCCompanion
  Included = {"brief.md", "brief-review.md", "brief-discovery-notes.md", "brief-review-review.md", "prd.md"}
  Size <- MCSize
  MaxInputs = 3
  Forms <- MCForms
  Entries <- MCEntries
  MaxEntries = 2
  Grid = {0, 1, 2}
  Labels <- MCLabels
  Sheet <- MCSheet
  Scales <- MCScales
INVARIANTS
  ToolsTypeOK
  PackedIsSound
  CleanIsComplete
  SimplifyKeepsText
  PackedIsRedlined
  PackedCommentsResolve
  OfficeRunIsSound
  SettingsInv
  GroupsCoverFiles
  FilledFormInv
CHECK_DEADLOCK FALSE
