------------------------------ MODULE Soffice -------------------------------
(***************************************************************************)
(* The scripts that have LibreOffice do their work: accept_changes.py      *)
(* (docx skill) and recalc.py (xlsx skill), with the set-up of their macro *)
(* and, where Unix sockets are blocked, of the preloaded socket shim that  *)
(* all of them share in the directory for temporary files                  *)
(* (office/soffice.py). Several scripts may run at once.                   *)
(***************************************************************************)
EXTENDS Naturals, Sequences, FiniteSets

CONSTANTS
  Scripts,    \* scripts that run
  Program,    \* [Scripts -> {"accept_changes", "recalc"}]
  Cells,      \* cells of a workbook
  excel_errors  \* the error texts recalc.py looks for, in its order

VARIABLES
  blocked,      \* Unix sockets are
  shim,         \* lo_socket_shim.so: of an empty source it is hollow
  shimSource,   \* lo_socket_shim.c
  macroDir,     \* programs whose macro directory is there (LibreOffice has run)
  macro,        \* [program -> its Module1.xba; a cut one has the macro's name]
  script        \* [Scripts -> where it stands and what has come of it]

officeVars == <<blocked, shim, shimSource, macroDir, macro, script>>

(* The error texts in each cell; a text may name several. A cell that was  *)
(* never calculated, as any of a value only, has none.                     *)
Errors == {excel_errors[i] : i \in DOMAIN excel_errors}
Programs == {"accept_changes", "recalc"}

ASSUME OfficeAssumption ==
  /\ Program \in [Scripts -> Programs]
  /\ IsFiniteSet(Cells) /\ excel_errors \in Seq(Errors)

Workbook == [Cells -> SUBSET Errors]
Unread == [c \in Cells |-> {}]

OfficeInit ==
  /\ blocked \in BOOLEAN
  /\ shim = "none" /\ shimSource = "none"
  /\ macroDir \in SUBSET {Program[s] : s \in Scripts}
  /\ macro = [p \in Programs |-> "none"]
  /\ script = [s \in Scripts |->
       [at |-> "begin", then |-> "run", built |-> "whole",
        cells |-> Unread, summary |-> {}, result |-> "none"]]

At(s, place) == script[s].at = place
Goes(s, place) == script' = [script EXCEPT ![s].at = place]
GetsEnvTo(s, then) == script' = [script EXCEPT ![s].at = "env", ![s].then = then]
Gives(s, result) == script' = [script EXCEPT ![s].at = "end", ![s].result = result]

(* The input is there, of the right type and copied; or not. *)
Begins(s) ==
  /\ At(s, "begin")
  /\ Goes(s, "macro") \/ Gives(s, "error")
  /\ UNCHANGED <<blocked, shim, shimSource, macroDir, macro>>

(* _setup_libreoffice_macro and setup_libreoffice_macro, up to the first   *)
(* start of LibreOffice, which makes its profile and the directory. The    *)
(* macro counts as set up when its name is in the file.                    *)
IsNamed(s) == macro[Program[s]] \in {"cut", "whole"}

FindsMacro(s) ==
  /\ At(s, "macro") /\ IsNamed(s)
  /\ GetsEnvTo(s, "run")
  /\ UNCHANGED <<blocked, shim, shimSource, macroDir, macro>>

NeedsProfile(s) ==
  /\ At(s, "macro") /\ ~IsNamed(s)
  /\ Program[s] \notin macroDir
  /\ GetsEnvTo(s, "init")
  /\ UNCHANGED <<blocked, shim, shimSource, macroDir, macro>>

(* write_text empties the file, or fails to open it, and then writes the   *)
(* text in one go over what is there.                                      *)
OpensMacro(s) ==
  /\ \/ At(s, "macro") /\ ~IsNamed(s) /\ Program[s] \in macroDir
     \/ At(s, "profile")
  /\ macroDir' = macroDir \cup {Program[s]}
  /\ \/ macro' = [macro EXCEPT ![Program[s]] = "empty"] /\ Goes(s, "write")
     \/ UNCHANGED macro /\ Gives(s, "no macro")
  /\ UNCHANGED <<blocked, shim, shimSource>>

(* A write that fails counts as one that is done. *)
MutWritesMacro(s) ==
  /\ At(s, "write")
  /\ \/ macro' = [macro EXCEPT ![Program[s]] = "whole"]
     \/ UNCHANGED macro
  /\ GetsEnvTo(s, "run")
  /\ UNCHANGED <<blocked, shim, shimSource, macroDir>>

WritesMacro(s) ==
  /\ At(s, "write")
  /\ \/ macro' = [macro EXCEPT ![Program[s]] = "whole"] /\ GetsEnvTo(s, "run")
     \/ /\ macro' = [macro EXCEPT ![Program[s]] = IF @ = "empty" THEN "cut" ELSE @]
        /\ Gives(s, "no macro")
     \/ UNCHANGED macro /\ Gives(s, "no macro")
  /\ UNCHANGED <<blocked, shim, shimSource, macroDir>>

(* The first start has ten seconds; nobody catches what it raises.         *)
StartsForProfile(s) ==
  /\ At(s, "init")
  /\ Goes(s, "profile") \/ Gives(s, "raised")
  /\ UNCHANGED <<blocked, shim, shimSource, macroDir, macro>>

(* get_soffice_env: whatever file is at the shim's path will do.           *)
_needs_shim == blocked

get_soffice_env(s) ==
  /\ At(s, "env")
  /\ IF ~_needs_shim \/ shim # "none" THEN Goes(s, script[s].then) ELSE Goes(s, "source")
  /\ UNCHANGED <<blocked, shim, shimSource, macroDir, macro>>

(* _ensure_shim after its check: the source is emptied and written, unless *)
(* its name is gone by then; gcc reads it and begins the shim anew, or     *)
(* fails or is not there; the source is removed, unless another script did *)
(* that. What goes wrong is raised and leaves all as it is.                *)
OpensSource(s) ==
  /\ At(s, "source")
  /\ \/ shimSource' = "empty" /\ Goes(s, "write source")
     \/ UNCHANGED shimSource /\ Gives(s, "no shim")
  /\ UNCHANGED <<blocked, shim, macroDir, macro>>

WritesSource(s) ==
  /\ At(s, "write source")
  /\ \/ shimSource' = (IF shimSource = "none" THEN "none" ELSE "whole") /\ Goes(s, "compile")
     \/ UNCHANGED shimSource /\ Gives(s, "no shim")
  /\ UNCHANGED <<blocked, shim, macroDir, macro>>

Compiles(s) ==
  /\ At(s, "compile")
  /\ \/ /\ shimSource # "none" /\ shim' = "partial"
        /\ script' = [script EXCEPT ![s].at = "link",
                        ![s].built = IF shimSource = "empty" THEN "hollow" ELSE "whole"]
     \/ UNCHANGED shim /\ Gives(s, "no shim")
  /\ UNCHANGED <<blocked, shimSource, macroDir, macro>>

Links(s) ==
  /\ At(s, "link")
  /\ \/ shim' = script[s].built /\ Goes(s, "unlink")
     \/ shim' \in {"none", "partial"} /\ Gives(s, "no shim")
  /\ UNCHANGED <<blocked, shimSource, macroDir, macro>>

Unlinks(s) ==
  /\ At(s, "unlink")
  /\ IF shimSource # "none" THEN shimSource' = "none" /\ Goes(s, script[s].then)
     ELSE UNCHANGED shimSource /\ Gives(s, "no shim")
  /\ UNCHANGED <<blocked, shim, macroDir, macro>>

(* How LibreOffice ends, as far as the scripts look: nothing says that it  *)
(* has stored the document, not even an exit code of 0, with which the     *)
(* shim itself ends it (_exit(0) in close), as does a second LibreOffice   *)
(* that hands its document to the one that runs.                           *)
Endings == {"exits 0", "fails", "timed out", "raised"}

Completes(ending) == ending \in {"exits 0", "timed out"}

(* recalc.py's scan of the workbook as it is now: each cell counts for the *)
(* first error it holds, [error, count].                                   *)
FirstError(errors) ==
  CHOOSE e \in errors : \E i \in DOMAIN excel_errors :
    excel_errors[i] = e /\ \A j \in 1 .. i - 1 : excel_errors[j] \notin errors

error_summary(cells) ==
  {[error |-> e, count |-> Cardinality({c \in Cells : cells[c] # {} /\ FirstError(cells[c]) = e})] :
     e \in {FirstError(cells[c]) : c \in {d \in Cells : cells[d] # {}}}}

(* Time that ran out counts as success, in accept_changes.py               *)
(* (TimeoutExpired) as in recalc.py (124), which then reads the values the *)
(* file has; a workbook that cannot be read is an error.                   *)
Reports(program, ending, readable, summary) ==
  IF ending = "raised" THEN "raised"
  ELSE IF ~Completes(ending) THEN "error"
  ELSE IF program = "accept_changes" THEN "success"
  ELSE IF ~readable THEN "error"
  ELSE IF summary = {} THEN "success" ELSE "errors_found"

RunsSoffice(s) ==
  /\ At(s, "run")
  /\ \E e \in Endings, readable \in BOOLEAN :
       \E cells \in IF Program[s] = "recalc" /\ Completes(e) /\ readable
                    THEN Workbook ELSE {Unread} :
         script' = [script EXCEPT ![s] =
           [at |-> "end", then |-> "run", built |-> @.built,
            cells |-> cells, summary |-> error_summary(cells),
            result |-> Reports(Program[s], e, readable, error_summary(cells))]]
  /\ UNCHANGED <<blocked, shim, shimSource, macroDir, macro>>

OfficeNext ==
  \E s \in Scripts :
    \/ Begins(s)
    \/ FindsMacro(s) \/ NeedsProfile(s) \/ StartsForProfile(s) \/ OpensMacro(s) \/ WritesMacro(s)
    \/ get_soffice_env(s) \/ OpensSource(s) \/ WritesSource(s)
    \/ Compiles(s) \/ Links(s) \/ Unlinks(s)
    \/ RunsSoffice(s)

OfficeSpec == OfficeInit /\ [][OfficeNext]_officeVars

-----------------------------------------------------------------------------

(* Where the scripts, the macros and the shim can be. *)
OfficeTypeOK ==
  /\ blocked \in BOOLEAN /\ shimSource \in {"none", "empty", "whole"}
  /\ shim \in {"none", "partial", "hollow", "whole"}
  /\ macro \in [Programs -> {"none", "empty", "cut", "whole"}]
  /\ \A s \in Scripts : script[s].result # "none" <=> script[s].at = "end"

(* The counts of a summary added up, one element for each they count.      *)
TotalCount(summary) == Cardinality(UNION {{r} \X (1 .. r.count) : r \in summary})

(* At work on the macro or the shim just now, or failed in that.           *)
WritesOrLost(t) == At(t, "write") \/ script[t].result = "no macro"
BuildsOrLost(t) ==
  script[t].at \in {"write source", "compile", "link", "unlink"} \/ script[t].result = "no shim"

(* The set-ups of scripts that run at once share the macro's file and, in  *)
(* /tmp, the shim and its source, and no lock. A script that is about to   *)
(* start LibreOffice for its document finds a whole macro and, where       *)
(* sockets are blocked, a whole shim, unless another script is writing     *)
(* them at that moment or has failed at it: what scripts that are through  *)
(* with their set-up leave behind is whole, whatever the order of their    *)
(* steps was. And a success of recalc.py means that no cell of the         *)
(* workbook it read holds an error, a failure that each such cell is       *)
(* counted once (accept_changes.py:90-121, recalc.py:41-67, 100-158,       *)
(* soffice.py:54-67).                                                      *)
OfficeRunIsSound ==
  \A s \in Scripts :
    LET broken == {c \in Cells : script[s].cells[c] # {}}
    IN  /\ At(s, "run") =>
             /\ macro[Program[s]] # "whole" =>
                  \E t \in Scripts \ {s} : Program[t] = Program[s] /\ WritesOrLost(t)
             /\ blocked /\ shim # "whole" => \E t \in Scripts \ {s} : BuildsOrLost(t)
        /\ script[s].result = "success" => broken = {}
        /\ TotalCount(script[s].summary) = Cardinality(broken)
=============================================================================
