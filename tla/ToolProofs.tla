----------------------------- MODULE ToolProofs -----------------------------
(***************************************************************************)
(* Proofs about the office skills' scripts: what of LibreOffice's set-up   *)
(* is there when it runs (Soffice), what pack.py, validate.py and clean.py *)
(* leave behind of a presentation (PptxPackage), and how forms are filled  *)
(* (PdfForms); and about the BMad scripts: how the distillator groups its  *)
(* sources (DistillerSources) and what the resolvers make of layered       *)
(* settings (BmadConfig).                                                  *)
(***************************************************************************)
EXTENDS PptxPackage, Soffice, PdfForms, DistillerSources, BmadConfig, LoopLemmas,
        FunctionTheorems, FiniteSetTheorems, SequenceTheorems

-----------------------------------------------------------------------------
(* recalc.py.                                                              *)

Broken(cells) == {c \in Cells : cells[c] # {}}
ErrorCount == [error : Errors, count : Nat]

(* A cell that holds error texts counts for one of them.                   *)
LEMMA FirstErrorIsHeld ==
  ASSUME NEW held \in SUBSET Errors, held # {}
  PROVE  FirstError(held) \in held
<1> DEFINE places == {i \in DOMAIN excel_errors : excel_errors[i] \in held}
<1>1. DOMAIN excel_errors = 1 .. Len(excel_errors) /\ Len(excel_errors) \in Nat
  BY OfficeAssumption
<1>2. places # {} /\ places \subseteq Nat
  BY <1>1 DEF Errors
<1>3. PICK k \in places : \A m \in places : k <= m
  BY <1>2, LeastIn
<1>4. \A j \in 1 .. k - 1 : excel_errors[j] \notin held
  BY <1>1, <1>3
<1>5. QED
  BY <1>1, <1>3, <1>4 DEF FirstError

(* Counting the cells by their first error counts each of them once.       *)
LEMMA EachCellCountsOnce ==
  ASSUME NEW cells \in Workbook
  PROVE  /\ error_summary(cells) \subseteq ErrorCount
         /\ TotalCount(error_summary(cells)) = Cardinality(Broken(cells))
<1> DEFINE first(c) == FirstError(cells[c])
           class(e) == {c \in Broken(cells) : first(c) = e}
           entry(e) == [error |-> e, count |-> Cardinality(class(e))]
           units == UNION {{r} \X (1 .. r.count) : r \in error_summary(cells)}
<1>1. IsFiniteSet(Broken(cells))
  BY OfficeAssumption, FS_Subset DEF Broken
<1>2. \A c \in Broken(cells) : first(c) \in cells[c] /\ cells[c] \subseteq Errors
  BY FirstErrorIsHeld DEF Broken, Workbook
<1>3. error_summary(cells) = {entry(e) : e \in {first(c) : c \in Broken(cells)}}
  BY DEF error_summary, Broken
<1>4. \A e : IsFiniteSet(class(e)) /\ Cardinality(class(e)) \in Nat
             /\ ExistsBijection(1 .. Cardinality(class(e)), class(e))
  BY <1>1, FS_Subset, FS_CardinalityType
<1>5. error_summary(cells) \subseteq ErrorCount
  <2>1. \A c \in Broken(cells) : first(c) \in Errors BY <1>2
  <2> HIDE DEF first, class
  <2>2. \A c \in Broken(cells) : entry(first(c)) \in ErrorCount BY <1>4, <2>1 DEF ErrorCount
  <2> HIDE DEF entry
  <2>3. QED BY <1>3, <2>2
<1> DEFINE nth(e) == CHOOSE f : f \in Bijection(1 .. Cardinality(class(e)), class(e))
<1>6. ASSUME NEW e PROVE nth(e) \in Bijection(1 .. Cardinality(class(e)), class(e))
  BY <1>4 DEF ExistsBijection
<1>7. ASSUME NEW e
      PROVE  /\ \A k \in 1 .. Cardinality(class(e)) : nth(e)[k] \in class(e)
             /\ \A j, k \in 1 .. Cardinality(class(e)) : nth(e)[j] = nth(e)[k] => j = k
             /\ \A c \in class(e) : \E k \in 1 .. Cardinality(class(e)) : nth(e)[k] = c
  <2> DEFINE f == nth(e)
             n == Cardinality(class(e))
  <2>1. f \in Bijection(1 .. n, class(e)) BY <1>6
  <2> HIDE DEF f, n, class
  <2>2. f \in Injection(1 .. n, class(e)) /\ f \in Surjection(1 .. n, class(e))
    BY <2>1 DEF Bijection
  <2>3. f \in [1 .. n -> class(e)] /\ \A j, k \in 1 .. n : f[j] = f[k] => j = k
    BY <2>2 DEF Injection, IsInjective
  <2>4. \A c \in class(e) : \E k \in 1 .. n : f[k] = c
    BY <2>2 DEF Surjection
  <2>5. QED BY <2>3, <2>4 DEF f, n
<1> DEFINE cell == [u \in units |-> nth(u[1].error)[u[2]]]
<1> HIDE DEF class, nth
<1>8. \A u \in units : /\ u[1] \in error_summary(cells) /\ u[2] \in 1 .. u[1].count
                       /\ u = <<u[1], u[2]>>
  BY <1>5
<1>9. \A u \in units : u[1] = entry(u[1].error)
  <2>1. ASSUME NEW r \in error_summary(cells) PROVE r = entry(r.error)
    <3>1. PICK c \in Broken(cells) : r = entry(first(c)) BY <1>3
    <3> HIDE DEF first
    <3>2. QED BY <3>1
  <2>2. QED BY <1>8, <2>1
<1>10. \A u \in units : u[2] \in 1 .. Cardinality(class(u[1].error))
  <2>1. \A e : entry(e).count = Cardinality(class(e)) OBVIOUS
  <2> HIDE DEF entry
  <2>2. \A u \in units : u[1].count = Cardinality(class(u[1].error)) BY <1>9, <2>1
  <2>3. QED BY <1>8, <2>2
<1> HIDE DEF entry, first
<1>11. cell \in [units -> Broken(cells)]
  <2>1. \A u \in units : nth(u[1].error)[u[2]] \in class(u[1].error) BY <1>7, <1>10
  <2>2. QED BY <2>1 DEF class
<1>12. ASSUME NEW u \in units, NEW v \in units, cell[u] = cell[v] PROVE u = v
  <2>1. cell[u] \in class(u[1].error) /\ cell[v] \in class(v[1].error) BY <1>7, <1>10
  <2>2. u[1].error = v[1].error BY <1>12, <2>1 DEF class
  <2>3. u[1] = v[1] BY <1>9, <2>2
  <2>4. u[2] = v[2] BY <1>7, <1>10, <1>12, <2>2
  <2>5. QED BY <1>8, <2>3, <2>4
<1>13. ASSUME NEW c \in Broken(cells) PROVE \E u \in units : cell[u] = c
  <2>1. c \in class(first(c)) BY DEF class
  <2>2. PICK k \in 1 .. Cardinality(class(first(c))) : nth(first(c))[k] = c BY <1>7, <2>1
  <2>3. entry(first(c)) \in error_summary(cells) BY <1>3 DEF first
  <2>4. entry(first(c)).error = first(c) /\ entry(first(c)).count = Cardinality(class(first(c)))
    BY DEF entry
  <2>5. <<entry(first(c)), k>> \in units BY <2>2, <2>3, <2>4
  <2> HIDE DEF units
  <2>6. cell[<<entry(first(c)), k>>] = nth(first(c))[k] BY <2>4, <2>5
  <2>7. QED BY <2>2, <2>5, <2>6
<1>14. cell \in Bijection(units, Broken(cells))
  <2> HIDE DEF cell, units
  <2>1. cell \in Injection(units, Broken(cells)) BY <1>11, <1>12 DEF Injection, IsInjective
  <2>2. cell \in Surjection(units, Broken(cells)) BY <1>11, <1>13 DEF Surjection
  <2>3. QED BY <2>1, <2>2 DEF Bijection
<1>15. Cardinality(units) = Cardinality(Broken(cells))
  <2> HIDE DEF cell, units
  <2>1. IsFiniteSet(units) /\ Cardinality(units) = Cardinality(Broken(cells))
    BY <1>1, <1>14, FS_Bijection, FS_Injection DEF ExistsBijection, Bijection
  <2>2. QED BY <2>1
<1>16. QED BY <1>5, <1>15 DEF TotalCount

-----------------------------------------------------------------------------
(* Scripts that run LibreOffice.                                           *)

Stop == {"begin", "macro", "write", "init", "profile", "env", "source", "write source",
         "compile", "link", "unlink", "run", "end"}
Reported == {"none", "error", "no macro", "no shim", "raised", "success", "errors_found"}
ScriptRecord == [at : Stop, then : {"run", "init"}, built : {"hollow", "whole"},
                 cells : Workbook, summary : SUBSET ErrorCount, result : Reported]

(* The summary is of the workbook the script read.                         *)
ScriptInv(s) ==
  /\ script[s].summary = error_summary(script[s].cells)
  /\ script[s].result = "success" => Broken(script[s].cells) = {}

(* A macro that is less than whole is somebody's doing; a script that is   *)
(* past its set-up has one.                                                *)
PastMacro(s) ==
  \/ script[s].at \in {"write", "run"}
  \/ /\ script[s].at \in {"env", "source", "write source", "compile", "link", "unlink"}
     /\ script[s].then = "run"

MacroInv ==
  /\ \A p \in Programs : macro[p] \in {"empty", "cut"} =>
       \E t \in Scripts : Program[t] = p /\ WritesOrLost(t)
  /\ \A s \in Scripts : PastMacro(s) => macro[Program[s]] # "none"

(* Unless one of them failed: nobody builds the shim, and it is whole if   *)
(* there at all; or one does and has a source of its own; or several do or *)
(* did at once, and then there are more of them than there are sources to  *)
(* remove, so that one of them is going to fail.                           *)
Lost == \E t \in Scripts : script[t].result = "no shim"
Builds(t) == script[t].at \in {"write source", "compile", "link", "unlink"}

BuildsAlone(x) ==
  /\ Builds(x) /\ \A t \in Scripts : Builds(t) => t = x
  /\ shimSource # "none"
  /\ At(x, "write source") => shim \in {"none", "whole"}
  /\ At(x, "compile") => shim \in {"none", "whole"} /\ shimSource = "whole"
  /\ At(x, "link") => script[x].built = "whole"
  /\ At(x, "unlink") => shim = "whole"

TooManyBuild ==
  \E x \in Scripts : Builds(x) /\ (shimSource # "none" => \E y \in Scripts \ {x} : Builds(y))

NobodyBuilds ==
  (\A t \in Scripts : ~Builds(t)) /\ shimSource = "none" /\ shim \in {"none", "whole"}

HasShim(t) == At(t, "link") \/ At(t, "unlink") \/ (blocked /\ (At(t, "init") \/ At(t, "run")))

ShimInv ==
  \/ Lost
  \/ /\ \A t \in Scripts : HasShim(t) => shim # "none"
     /\ NobodyBuilds \/ (\E x \in Scripts : BuildsAlone(x)) \/ TooManyBuild

OfficeInv ==
  /\ OfficeTypeOK
  /\ script \in [Scripts -> ScriptRecord]
  /\ \A s \in Scripts : ScriptInv(s)
  /\ MacroInv /\ ShimInv

(* A workbook that was not read has no errors to sum up.                   *)
LEMMA NothingReadNothingCounted ==
  /\ Unread \in Workbook /\ Broken(Unread) = {} /\ error_summary(Unread) = {}
  BY DEF Unread, Workbook, Broken, error_summary

LEMMA SummaryOfNoErrors ==
  ASSUME NEW cells \in Workbook, error_summary(cells) = {}
  PROVE  Broken(cells) = {}
<1>1. ASSUME NEW c \in Broken(cells) PROVE FALSE
  <2>1. [error |-> FirstError(cells[c]),
         count |-> Cardinality({d \in Cells : cells[d] # {} /\ FirstError(cells[d]) = FirstError(cells[c])})]
          \in error_summary(cells)
    BY DEF error_summary, Broken
  <2>2. QED BY <2>1
<1>2. QED BY <1>1

LEMMA OfficeInitHolds == OfficeInit => OfficeInv
<1> SUFFICES ASSUME OfficeInit PROVE OfficeInv
  OBVIOUS
<1> DEFINE fresh == [at |-> "begin", then |-> "run", built |-> "whole",
                     cells |-> Unread, summary |-> {}, result |-> "none"]
<1>1. fresh \in ScriptRecord
  BY NothingReadNothingCounted DEF ScriptRecord, Stop, Reported
<1>2. \A s \in Scripts : script[s] = fresh
  BY DEF OfficeInit
<1>3. script \in [Scripts -> ScriptRecord]
  <2>1. script = [s \in Scripts |-> fresh] BY DEF OfficeInit
  <2> HIDE DEF fresh
  <2>2. QED BY <1>1, <2>1
<1>4. OfficeTypeOK
  BY <1>2 DEF OfficeInit, OfficeTypeOK
<1>5. \A s \in Scripts : ScriptInv(s)
  BY <1>2, NothingReadNothingCounted DEF ScriptInv
<1>6. MacroInv
  BY <1>2 DEF OfficeInit, MacroInv, PastMacro
<1>7. ShimInv
  BY <1>2 DEF OfficeInit, ShimInv, HasShim, NobodyBuilds, Builds, At
<1>8. QED BY <1>3, <1>4, <1>5, <1>6, <1>7 DEF OfficeInv

(* What is common to the steps: one script moves.                          *)
LEMMA OneScriptMoves ==
  ASSUME OfficeInv, NEW s \in Scripts, NEW now \in ScriptRecord,
         script' = [script EXCEPT ![s] = now], ScriptInv(s)'
  PROVE  /\ script' \in [Scripts -> ScriptRecord]
         /\ \A t \in Scripts : ScriptInv(t)'
         /\ script'[s] = now
         /\ \A t \in Scripts \ {s} : script'[t] = script[t]
<1>1. /\ script' \in [Scripts -> ScriptRecord] /\ script'[s] = now
      /\ \A t \in Scripts \ {s} : script'[t] = script[t]
  BY DEF OfficeInv
<1>2. ASSUME NEW t \in Scripts \ {s} PROVE ScriptInv(t)'
  <2>1. script'[t] = script[t] /\ ScriptInv(t) BY <1>1 DEF OfficeInv
  <2>2. error_summary(script[t].cells)' = error_summary(script[t].cells)
    BY <2>1 DEF error_summary, FirstError
  <2>3. Broken(script[t].cells)' = Broken(script[t].cells) BY <2>1 DEF Broken
  <2>4. QED BY <2>1, <2>2, <2>3 DEF ScriptInv
<1>3. QED BY <1>1, <1>2

(* A step before the end of a script, which reads nothing and reports no   *)
(* success.                                                                *)
SetUpAction(s) ==
  \/ Begins(s) \/ FindsMacro(s) \/ NeedsProfile(s) \/ StartsForProfile(s) \/ OpensMacro(s)
  \/ WritesMacro(s) \/ get_soffice_env(s) \/ OpensSource(s) \/ WritesSource(s)
  \/ Compiles(s) \/ Links(s) \/ Unlinks(s)

Moves(s, at, then, built, result) ==
  script' = [script EXCEPT ![s] = [script[s] EXCEPT
               !.at = at, !.then = then, !.built = built, !.result = result]]

(* What the rest of the invariant needs to know of it.                     *)
IsAt(s, at, then, built, result) ==
  /\ script'[s].at = at /\ script'[s].then = then
  /\ script'[s].built = built /\ script'[s].result = result
  /\ \A t \in Scripts \ {s} : script'[t] = script[t]

LEMMA SetUpMoves ==
  ASSUME script \in [Scripts -> ScriptRecord], NEW s \in Scripts, script[s].at # "end",
         script[s].result = "none"
  PROVE  /\ \A at : Goes(s, at) =>
              Moves(s, at, script[s].then, script[s].built, "none")
         /\ \A then : GetsEnvTo(s, then) => Moves(s, "env", then, script[s].built, "none")
         /\ \A result : Gives(s, result) =>
              Moves(s, "end", script[s].then, script[s].built, result)
<1> DEFINE old == script[s]
<1>1. old \in ScriptRecord
  OBVIOUS
<1>2. ASSUME NEW at, Goes(s, at) PROVE Moves(s, at, old.then, old.built, "none")
  <2>1. [old EXCEPT !.at = at]
          = [old EXCEPT !.at = at, !.then = old.then, !.built = old.built, !.result = "none"]
    BY <1>1 DEF ScriptRecord
  <2>2. script' = [script EXCEPT ![s] = [old EXCEPT !.at = at]] BY <1>2 DEF Goes
  <2>3. QED BY <2>1, <2>2 DEF Moves
<1>3. ASSUME NEW then, GetsEnvTo(s, then) PROVE Moves(s, "env", then, old.built, "none")
  <2>1. [old EXCEPT !.at = "env", !.then = then]
          = [old EXCEPT !.at = "env", !.then = then, !.built = old.built, !.result = "none"]
    BY <1>1 DEF ScriptRecord
  <2>2. script' = [script EXCEPT ![s] = [old EXCEPT !.at = "env", !.then = then]]
    BY <1>3 DEF GetsEnvTo
  <2>3. QED BY <2>1, <2>2 DEF Moves
<1>4. ASSUME NEW result, Gives(s, result)
      PROVE  Moves(s, "end", old.then, old.built, result)
  <2>1. [old EXCEPT !.at = "end", !.result = result]
          = [old EXCEPT !.at = "end", !.then = old.then, !.built = old.built, !.result = result]
    BY <1>1 DEF ScriptRecord
  <2>2. script' = [script EXCEPT ![s] = [old EXCEPT !.at = "end", !.result = result]]
    BY <1>4 DEF Gives
  <2>3. QED BY <2>1, <2>2 DEF Moves
<1>5. QED BY <1>2, <1>3, <1>4

LEMMA SetUpStep ==
  ASSUME OfficeInv, NEW s \in Scripts, NEW at \in Stop, NEW then \in {"run", "init"},
         NEW built \in {"hollow", "whole"}, NEW result \in Reported \ {"success", "errors_found"},
         Moves(s, at, then, built, result)
  PROVE  /\ script' \in [Scripts -> ScriptRecord]
         /\ \A t \in Scripts : ScriptInv(t)'
         /\ IsAt(s, at, then, built, result)
<1> DEFINE now == [script[s] EXCEPT !.at = at, !.then = then, !.built = built, !.result = result]
<1>1. script[s] \in ScriptRecord /\ ScriptInv(s)
  BY DEF OfficeInv
<1>2. now \in ScriptRecord
  BY <1>1 DEF ScriptRecord
<1>3. script' = [script EXCEPT ![s] = now]
  BY DEF Moves
<1>4. /\ now.at = at /\ now.then = then /\ now.built = built /\ now.result = result
      /\ now.cells = script[s].cells /\ now.summary = script[s].summary
  BY <1>1 DEF ScriptRecord
<1> HIDE DEF now
<1>5. script'[s] = now
  BY <1>3 DEF OfficeInv
<1>6. ScriptInv(s)'
  <2>1. script'[s].cells = script[s].cells BY <1>4, <1>5
  <2>2. error_summary(script[s].cells)' = error_summary(script[s].cells)
    BY <2>1 DEF error_summary, FirstError
  <2>3. Broken(script[s].cells)' = Broken(script[s].cells) BY <2>1 DEF Broken
  <2>4. QED BY <1>1, <1>4, <1>5, <2>2, <2>3 DEF ScriptInv
<1>7. QED BY <1>2, <1>3, <1>4, <1>5, <1>6, OneScriptMoves DEF IsAt


(* A script that neither writes the macro nor the shim's files.            *)
LEMMA MacroStands ==
  ASSUME MacroInv, NEW s \in Scripts, NEW at, NEW then, NEW built, NEW result,
         IsAt(s, at, then, built, result), macro' = macro, ~WritesOrLost(s),
         PastMacro(s)' => macro[Program[s]] # "none"
  PROVE  MacroInv'
<1>1. ASSUME NEW p \in Programs, macro'[p] \in {"empty", "cut"}
      PROVE  \E t \in Scripts : Program[t] = p /\ WritesOrLost(t)'
  <2>1. PICK t \in Scripts : Program[t] = p /\ WritesOrLost(t) BY <1>1 DEF MacroInv
  <2>2. WritesOrLost(t)' BY <2>1 DEF IsAt, WritesOrLost, At
  <2>3. QED BY <2>1, <2>2
<1>2. ASSUME NEW t \in Scripts, PastMacro(t)' PROVE macro'[Program[t]] # "none"
  <2>1. CASE t = s BY <1>2, <2>1
  <2>2. CASE t # s
    <3>1. PastMacro(t) BY <1>2, <2>2 DEF IsAt, PastMacro
    <3>2. QED BY <3>1 DEF MacroInv
  <2>3. QED BY <2>1, <2>2
<1>3. QED BY <1>1, <1>2 DEF MacroInv

LEMMA ShimStands ==
  ASSUME ShimInv, NEW s \in Scripts, NEW at, NEW then, NEW built, NEW result,
         IsAt(s, at, then, built, result), UNCHANGED <<blocked, shim, shimSource>>,
         script[s].result = "none", ~Builds(s), ~Builds(s)',
         HasShim(s)' => shim # "none"
  PROVE  ShimInv'
<1>1. ASSUME NEW t \in Scripts PROVE Builds(t)' <=> Builds(t)
  BY DEF IsAt, Builds
<1>2. CASE Lost
  <2>1. PICK t \in Scripts : script[t].result = "no shim" BY <1>2 DEF Lost
  <2>2. t # s BY <2>1
  <2>3. script'[t].result = "no shim" BY <2>1, <2>2 DEF IsAt
  <2>4. QED BY <2>3 DEF ShimInv, Lost
<1>3. CASE ~Lost
  <2>1. ASSUME NEW t \in Scripts, HasShim(t)' PROVE shim' # "none"
    <3>1. CASE t = s BY <2>1, <3>1
    <3>2. CASE t # s
      <4>1. HasShim(t) BY <2>1, <3>2 DEF IsAt, HasShim, At
      <4>2. QED BY <1>3, <4>1 DEF ShimInv
    <3>3. QED BY <3>1, <3>2
  <2>2. CASE NobodyBuilds
    <3>1. NobodyBuilds' BY <1>1, <2>2 DEF NobodyBuilds
    <3>2. QED BY <2>1, <3>1 DEF ShimInv
  <2>3. ASSUME NEW x \in Scripts, BuildsAlone(x) PROVE BuildsAlone(x)'
    <3>1. x # s BY <2>3 DEF BuildsAlone
    <3>2. script'[x] = script[x] BY <3>1 DEF IsAt
    <3>3. QED BY <1>1, <2>3, <3>2 DEF BuildsAlone, At
  <2>4. CASE TooManyBuild
    <3>1. TooManyBuild' BY <1>1, <2>4 DEF TooManyBuild
    <3>2. QED BY <2>1, <3>1 DEF ShimInv
  <2>5. QED BY <1>3, <2>1, <2>2, <2>3, <2>4 DEF ShimInv
<1>4. QED BY <1>2, <1>3

(* What every step of the set-up is.                                       *)
LEMMA SetUpKeeps ==
  ASSUME OfficeInv, NEW s \in Scripts, NEW at \in Stop, NEW then \in {"run", "init"},
         NEW built \in {"hollow", "whole"}, NEW result \in {"none", "error", "no macro", "no shim", "raised"},
         Moves(s, at, then, built, result), result # "none" <=> at = "end",
         blocked' = blocked, shimSource' \in {"none", "empty", "whole"},
         shim' \in {"none", "partial", "hollow", "whole"},
         macro' \in [Programs -> {"none", "empty", "cut", "whole"}],
         MacroInv', ShimInv'
  PROVE  OfficeInv'
<1>1. result \in Reported \ {"success", "errors_found"} BY DEF Reported
<1>2. /\ script' \in [Scripts -> ScriptRecord]
      /\ \A t \in Scripts : ScriptInv(t)'
      /\ IsAt(s, at, then, built, result)
  BY <1>1, SetUpStep
<1>3. OfficeTypeOK'
  BY <1>2 DEF OfficeInv, OfficeTypeOK, IsAt
<1>4. QED BY <1>2, <1>3 DEF OfficeInv

(* Steps that leave the shim and its source alone.                         *)
LEMMA MacroStepKeepsInv ==
  ASSUME OfficeInv, NEW s \in Scripts,
         \/ Begins(s) \/ FindsMacro(s) \/ NeedsProfile(s) \/ StartsForProfile(s)
         \/ OpensMacro(s) \/ WritesMacro(s) \/ get_soffice_env(s)
  PROVE  OfficeInv'
<1> DEFINE old == script[s]
           p == Program[s]
<1>1. /\ old \in ScriptRecord /\ script \in [Scripts -> ScriptRecord]
      /\ old.then \in {"run", "init"} /\ old.built \in {"hollow", "whole"}
      /\ old.at # "end" => old.result = "none"
      /\ blocked \in BOOLEAN /\ shimSource \in {"none", "empty", "whole"}
      /\ shim \in {"none", "partial", "hollow", "whole"}
      /\ macro \in [Programs -> {"none", "empty", "cut", "whole"}]
      /\ p \in Programs /\ MacroInv /\ ShimInv
      /\ old.result = "none" => old.result \notin {"no macro", "no shim"}
  BY OfficeAssumption DEF OfficeInv, OfficeTypeOK, ScriptRecord
<1>2. {"macro", "write", "profile", "source", "run", "init", "env", "end"} \subseteq Stop
  BY DEF Stop
<1>3. UNCHANGED <<blocked, shim, shimSource>> /\ old.at # "end"
  BY DEF Begins, FindsMacro, NeedsProfile, StartsForProfile, OpensMacro, WritesMacro,
     get_soffice_env, At
<1>4. ASSUME NEW at \in Stop, NEW then \in {"run", "init"},
             NEW result \in {"none", "error", "no macro", "raised"},
             Moves(s, at, then, old.built, result), result # "none" <=> at = "end"
      PROVE  IsAt(s, at, then, old.built, result)
  <2>1. result \in Reported \ {"success", "errors_found"} BY DEF Reported
  <2>2. QED BY <1>1, <1>4, <2>1, SetUpStep
<1>5. ASSUME NEW at \in Stop, NEW then \in {"run", "init"},
             NEW result \in {"none", "error", "no macro", "raised"},
             Moves(s, at, then, old.built, result), result # "none" <=> at = "end",
             ~Builds(s), at \notin {"write source", "compile", "link", "unlink"},
             at \in {"run", "init"} => ~blocked \/ shim # "none",
             macro' \in [Programs -> {"none", "empty", "cut", "whole"}], MacroInv'
      PROVE  OfficeInv'
  <2>1. IsAt(s, at, then, old.built, result) BY <1>4, <1>5
  <2>2. ~Builds(s)' BY <1>5, <2>1 DEF IsAt, Builds
  <2>3. HasShim(s)' => shim # "none"
    BY <1>3, <1>5, <2>1 DEF IsAt, HasShim, At
  <2>4. ShimInv' BY <1>1, <1>3, <1>5, <2>1, <2>2, <2>3, ShimStands
  <2>5. /\ blocked' = blocked /\ shimSource' \in {"none", "empty", "whole"}
        /\ shim' \in {"none", "partial", "hollow", "whole"}
        /\ old.built \in {"hollow", "whole"}
        /\ result \in {"none", "error", "no macro", "no shim", "raised"}
    BY <1>1, <1>3, <1>5
  <2>6. QED BY <1>5, <2>4, <2>5, SetUpKeeps
<1>6. ASSUME NEW at \in Stop, NEW then \in {"run", "init"},
             NEW result \in {"none", "error", "no macro", "raised"},
             Moves(s, at, then, old.built, result), result # "none" <=> at = "end",
             ~Builds(s), at \notin {"write", "write source", "compile", "link", "unlink"},
             at \in {"run", "init"} => ~blocked \/ shim # "none",
             macro' = macro, old.at # "write",
             at \in {"run", "env", "source"} /\ then = "run" => macro[p] # "none",
             at = "run" => then = "run"
      PROVE  OfficeInv'
  <2>1. IsAt(s, at, then, old.built, result) BY <1>4, <1>6
  <2>2. PastMacro(s)' => macro[p] # "none" BY <1>6, <2>1 DEF IsAt, PastMacro
  <2>3. ~WritesOrLost(s) BY <1>1, <1>3, <1>6 DEF WritesOrLost, At
  <2>4. MacroInv' BY <1>1, <1>6, <2>1, <2>2, <2>3, MacroStands
  <2>5. QED BY <1>1, <1>5, <1>6, <2>4
<1>7. /\ \A at : Goes(s, at) => Moves(s, at, old.then, old.built, "none")
      /\ \A then : GetsEnvTo(s, then) => Moves(s, "env", then, old.built, "none")
      /\ \A result : Gives(s, result) => Moves(s, "end", old.then, old.built, result)
  BY <1>1, <1>3, SetUpMoves
<1>8. Begins(s) => OfficeInv'
  <2>1. CASE Begins(s) /\ Goes(s, "macro")
    <3>1. Moves(s, "macro", old.then, old.built, "none") BY <1>7, <2>1
    <3>2. QED BY <1>1, <1>2, <1>6, <2>1, <3>1 DEF Begins, At, Builds
  <2>2. CASE Begins(s) /\ Gives(s, "error")
    <3>1. Moves(s, "end", old.then, old.built, "error") BY <1>7, <2>2
    <3>2. QED BY <1>1, <1>2, <1>6, <2>2, <3>1 DEF Begins, At, Builds
  <2>3. QED BY <2>1, <2>2 DEF Begins
<1>9. CASE FindsMacro(s)
  <2>1. Moves(s, "env", "run", old.built, "none") BY <1>7, <1>9 DEF FindsMacro
  <2>2. macro[p] # "none" BY <1>9 DEF FindsMacro, IsNamed
  <2>3. QED BY <1>1, <1>2, <1>6, <1>9, <2>1, <2>2 DEF FindsMacro, At, Builds
<1>10. CASE NeedsProfile(s)
  <2>1. Moves(s, "env", "init", old.built, "none") BY <1>7, <1>10 DEF NeedsProfile
  <2>2. QED BY <1>1, <1>2, <1>6, <1>10, <2>1 DEF NeedsProfile, At, Builds
<1>11. StartsForProfile(s) => OfficeInv'
  <2>1. CASE StartsForProfile(s) /\ Goes(s, "profile")
    <3>1. Moves(s, "profile", old.then, old.built, "none") BY <1>7, <2>1
    <3>2. QED BY <1>1, <1>2, <1>6, <2>1, <3>1 DEF StartsForProfile, At, Builds
  <2>2. CASE StartsForProfile(s) /\ Gives(s, "raised")
    <3>1. Moves(s, "end", old.then, old.built, "raised") BY <1>7, <2>2
    <3>2. QED BY <1>1, <1>2, <1>6, <2>2, <3>1 DEF StartsForProfile, At, Builds
  <2>3. QED BY <2>1, <2>2 DEF StartsForProfile
<1>12. OpensMacro(s) => OfficeInv'
  <2>1. CASE OpensMacro(s) /\ macro' = [macro EXCEPT ![p] = "empty"] /\ Goes(s, "write")
    <3>1. Moves(s, "write", old.then, old.built, "none") BY <1>7, <2>1
    <3>2. IsAt(s, "write", old.then, old.built, "none") BY <1>1, <1>2, <1>4, <3>1
    <3>3. /\ macro' \in [Programs -> {"none", "empty", "cut", "whole"}] /\ macro'[p] = "empty"
          /\ \A q \in Programs \ {p} : macro'[q] = macro[q]
      BY <1>1, <2>1
    <3>4. WritesOrLost(s)' BY <3>2 DEF IsAt, WritesOrLost, At
    <3>5. ASSUME NEW q \in Programs, macro'[q] \in {"empty", "cut"}
          PROVE  \E t \in Scripts : Program[t] = q /\ WritesOrLost(t)'
      <4>1. CASE q = p BY <3>4, <4>1
      <4>2. CASE q # p
        <5>1. PICK t \in Scripts : Program[t] = q /\ WritesOrLost(t)
          BY <1>1, <3>3, <3>5, <4>2 DEF MacroInv
        <5>2. t # s BY <4>2, <5>1
        <5>3. QED BY <3>2, <5>1, <5>2 DEF IsAt, WritesOrLost, At
      <4>3. QED BY <4>1, <4>2
    <3>6. ASSUME NEW t \in Scripts, PastMacro(t)' PROVE macro'[Program[t]] # "none"
      <4>1. CASE Program[t] = p BY <3>3, <4>1
      <4>2. CASE Program[t] # p
        <5>1. PastMacro(t) BY <3>2, <3>6, <4>2 DEF IsAt, PastMacro
        <5>2. Program[t] \in Programs BY OfficeAssumption
        <5>3. QED BY <1>1, <3>3, <4>2, <5>1, <5>2 DEF MacroInv
      <4>3. QED BY <4>1, <4>2
    <3>7. MacroInv' BY <3>5, <3>6 DEF MacroInv
    <3>8. ~Builds(s) BY <2>1 DEF OpensMacro, At, Builds
    <3>9. QED BY <1>1, <1>2, <1>5, <3>1, <3>3, <3>7, <3>8
  <2>2. CASE OpensMacro(s) /\ macro' = macro /\ Gives(s, "no macro")
    <3>1. Moves(s, "end", old.then, old.built, "no macro") BY <1>7, <2>2
    <3>2. QED BY <1>1, <1>2, <1>6, <2>2, <3>1 DEF OpensMacro, At, Builds
  <2>3. QED BY <2>1, <2>2 DEF OpensMacro
<1>13. WritesMacro(s) => OfficeInv'
  <2> SUFFICES ASSUME WritesMacro(s) PROVE OfficeInv'
    OBVIOUS
  <2>1. /\ old.at = "write" /\ ~Builds(s) /\ macro[p] # "none"
    BY <1>1 DEF WritesMacro, At, Builds, MacroInv, PastMacro
  <2>2. \/ macro' = [macro EXCEPT ![p] = "whole"] /\ GetsEnvTo(s, "run")
        \/ /\ macro' \in {macro, [macro EXCEPT ![p] = IF @ = "empty" THEN "cut" ELSE @]}
           /\ Gives(s, "no macro")
    BY DEF WritesMacro
  <2>3. ASSUME NEW at \in {"env", "end"}, NEW then \in {"run", "init"}, NEW result \in {"none", "no macro"},
               IsAt(s, at, then, old.built, result),
               macro' \in [Programs -> {"none", "empty", "cut", "whole"}],
               \A q \in Programs \ {p} : macro'[q] = macro[q], macro'[p] # "none",
               macro'[p] = "whole" \/ result = "no macro"
        PROVE  MacroInv'
    <3>1. ASSUME NEW q \in Programs, macro'[q] \in {"empty", "cut"}
          PROVE  \E t \in Scripts : Program[t] = q /\ WritesOrLost(t)'
      <4>1. CASE q = p BY <2>3, <3>1, <4>1 DEF IsAt, WritesOrLost
      <4>2. CASE q # p
        <5>1. PICK t \in Scripts : Program[t] = q /\ WritesOrLost(t)
          BY <1>1, <2>3, <3>1, <4>2 DEF MacroInv
        <5>2. t # s BY <4>2, <5>1
        <5>3. QED BY <2>3, <5>1, <5>2 DEF IsAt, WritesOrLost, At
      <4>3. QED BY <4>1, <4>2
    <3>2. ASSUME NEW t \in Scripts, PastMacro(t)' PROVE macro'[Program[t]] # "none"
      <4>1. CASE Program[t] = p BY <2>3, <4>1
      <4>2. CASE Program[t] # p
        <5>1. PastMacro(t) BY <2>3, <3>2, <4>2 DEF IsAt, PastMacro
        <5>2. Program[t] \in Programs BY OfficeAssumption
        <5>3. QED BY <1>1, <2>3, <4>2, <5>1, <5>2 DEF MacroInv
      <4>3. QED BY <4>1, <4>2
    <3>3. QED BY <3>1, <3>2 DEF MacroInv
  <2>4. CASE macro' = [macro EXCEPT ![p] = "whole"] /\ GetsEnvTo(s, "run")
    <3>1. Moves(s, "env", "run", old.built, "none") BY <1>7, <2>4
    <3>2. IsAt(s, "env", "run", old.built, "none") BY <1>1, <1>2, <1>4, <3>1
    <3>3. /\ macro' \in [Programs -> {"none", "empty", "cut", "whole"}]
          /\ macro'[p] = "whole" /\ \A q \in Programs \ {p} : macro'[q] = macro[q]
      BY <1>1, <2>4
    <3>4. MacroInv' BY <2>3, <3>2, <3>3
    <3>5. QED BY <1>1, <1>2, <1>5, <2>1, <3>1, <3>3, <3>4
  <2>5. CASE /\ macro' \in {macro, [macro EXCEPT ![p] = IF @ = "empty" THEN "cut" ELSE @]}
             /\ Gives(s, "no macro")
    <3>1. Moves(s, "end", old.then, old.built, "no macro") BY <1>7, <2>5
    <3>2. IsAt(s, "end", old.then, old.built, "no macro") BY <1>1, <1>2, <1>4, <3>1
    <3>3. /\ macro' \in [Programs -> {"none", "empty", "cut", "whole"}]
          /\ macro'[p] # "none" /\ \A q \in Programs \ {p} : macro'[q] = macro[q]
      BY <1>1, <2>1, <2>5
    <3>4. MacroInv' BY <1>1, <2>3, <3>2, <3>3
    <3>5. QED BY <1>1, <1>2, <1>5, <2>1, <3>1, <3>3, <3>4
  <2>6. QED BY <2>2, <2>4, <2>5
<1>14. get_soffice_env(s) => OfficeInv'
  <2> SUFFICES ASSUME get_soffice_env(s) PROVE OfficeInv'
    OBVIOUS
  <2>1. old.at = "env" /\ macro' = macro /\ ~Builds(s) /\ (old.then = "run" => macro[p] # "none")
    BY <1>1 DEF get_soffice_env, At, Builds, MacroInv, PastMacro
  <2>2. CASE (~blocked \/ shim # "none") /\ Goes(s, old.then)
    <3>1. Moves(s, old.then, old.then, old.built, "none") BY <1>7, <2>2
    <3>2. QED BY <1>1, <1>2, <1>6, <2>1, <2>2, <3>1
  <2>3. CASE Goes(s, "source")
    <3>1. Moves(s, "source", old.then, old.built, "none") BY <1>7, <2>3
    <3>2. QED BY <1>1, <1>2, <1>6, <2>1, <3>1
  <2>4. QED BY <2>2, <2>3 DEF get_soffice_env, _needs_shim
<1>15. QED BY <1>8, <1>9, <1>10, <1>11, <1>12, <1>13, <1>14

(* Building the shim. A step that fails leaves a script that has lost;     *)
(* the others are looked at one by one.                                    *)
LEMMA BuildStepKeepsInv ==
  ASSUME OfficeInv, NEW s \in Scripts,
         OpensSource(s) \/ WritesSource(s) \/ Compiles(s) \/ Links(s) \/ Unlinks(s)
  PROVE  OfficeInv'
<1> DEFINE old == script[s]
           p == Program[s]
<1>1. /\ old \in ScriptRecord /\ script \in [Scripts -> ScriptRecord]
      /\ old.then \in {"run", "init"} /\ old.built \in {"hollow", "whole"}
      /\ old.at \in {"source", "write source", "compile", "link", "unlink"}
      /\ old.result = "none" /\ blocked' = blocked /\ macro' = macro
      /\ shimSource \in {"none", "empty", "whole"} /\ shim \in {"none", "partial", "hollow", "whole"}
      /\ shimSource' \in {"none", "empty", "whole"} /\ shim' \in {"none", "partial", "hollow", "whole"}
      /\ macro \in [Programs -> {"none", "empty", "cut", "whole"}]
      /\ MacroInv /\ ShimInv /\ (old.then = "run" => macro[p] # "none")
  <2>1. /\ old \in ScriptRecord /\ script \in [Scripts -> ScriptRecord]
        /\ shimSource \in {"none", "empty", "whole"}
        /\ shim \in {"none", "partial", "hollow", "whole"}
        /\ macro \in [Programs -> {"none", "empty", "cut", "whole"}]
        /\ MacroInv /\ ShimInv /\ (old.result # "none" <=> old.at = "end")
    BY DEF OfficeInv, OfficeTypeOK
  <2>2. old.then \in {"run", "init"} /\ old.built \in {"hollow", "whole"}
    BY <2>1 DEF ScriptRecord
  <2>3. /\ old.at \in {"source", "write source", "compile", "link", "unlink"}
        /\ blocked' = blocked /\ macro' = macro
        /\ shimSource' \in {shimSource, "none", "empty", "whole"}
        /\ shim' \in {shim, "none", "partial", old.built}
    BY DEF OpensSource, WritesSource, Compiles, Links, Unlinks, At
  <2>4. old.then = "run" => macro[p] # "none"
    BY <2>1, <2>3 DEF MacroInv, PastMacro
  <2>5. QED BY <2>1, <2>2, <2>3, <2>4
<1>2. {"write source", "compile", "link", "unlink", "run", "init", "end"} \subseteq Stop
  BY DEF Stop
<1>3. ASSUME NEW at \in Stop, NEW built \in {"hollow", "whole"}, NEW result \in {"none", "no shim"},
             Moves(s, at, old.then, built, result), result # "none" <=> at = "end",
             at \in {"write source", "compile", "link", "unlink", "end", old.then}
      PROVE  /\ IsAt(s, at, old.then, built, result)
             /\ ShimInv' => OfficeInv'
  <2>1. result \in Reported \ {"success", "errors_found"} BY DEF Reported
  <2>2. IsAt(s, at, old.then, built, result) BY <1>1, <1>3, <2>1, SetUpStep
  <2>3. PastMacro(s)' => macro[p] # "none"
    BY <1>1, <1>3, <2>2 DEF IsAt, PastMacro
  <2>4. ~WritesOrLost(s) BY <1>1 DEF WritesOrLost, At
  <2>5. MacroInv' BY <1>1, <2>2, <2>3, <2>4, MacroStands
  <2>6. QED BY <1>1, <1>3, <2>2, <2>5, SetUpKeeps
<1>4. /\ \A at : Goes(s, at) => Moves(s, at, old.then, old.built, "none")
      /\ \A result : Gives(s, result) => Moves(s, "end", old.then, old.built, result)
  BY <1>1, SetUpMoves
<1>5. ASSUME NEW at \in Stop, NEW built, NEW result, IsAt(s, at, old.then, built, result), Lost
      PROVE  ShimInv'
  <2>1. PICK t \in Scripts : script[t].result = "no shim" BY <1>5 DEF Lost
  <2>2. t # s BY <1>1, <2>1
  <2>3. script'[t].result = "no shim" BY <1>5, <2>1, <2>2 DEF IsAt
  <2>4. QED BY <2>3 DEF ShimInv, Lost
<1>6. CASE Gives(s, "no shim")
  <2>1. Moves(s, "end", old.then, old.built, "no shim") BY <1>4, <1>6
  <2>2. IsAt(s, "end", old.then, old.built, "no shim") BY <1>1, <1>2, <1>3, <2>1
  <2>3. ShimInv' BY <2>2 DEF ShimInv, Lost, IsAt
  <2>4. QED BY <1>1, <1>2, <1>3, <2>1, <2>3
<1>7. ASSUME NEW at \in Stop, NEW built, IsAt(s, at, old.then, built, "none"), ~Lost,
             shim # "none" => shim' # "none", HasShim(s)' => shim' # "none",
             NobodyBuilds' \/ (\E x \in Scripts : BuildsAlone(x)') \/ TooManyBuild'
      PROVE  ShimInv'
  <2>1. ASSUME NEW t \in Scripts, HasShim(t)' PROVE shim' # "none"
    <3>1. CASE t = s BY <1>7, <2>1, <3>1
    <3>2. CASE t # s
      <4>1. HasShim(t) BY <1>1, <1>7, <2>1, <3>2 DEF IsAt, HasShim, At
      <4>2. shim # "none" BY <1>1, <1>7, <4>1 DEF ShimInv
      <4>3. QED BY <1>7, <4>2
    <3>3. QED BY <3>1, <3>2
  <2>2. QED BY <1>7, <2>1 DEF ShimInv
<1>8. ASSUME ~Lost
      PROVE  NobodyBuilds \/ (\E x \in Scripts : BuildsAlone(x)) \/ TooManyBuild
  BY <1>1, <1>8 DEF ShimInv
<1>9. CASE OpensSource(s) /\ shimSource' = "empty" /\ Goes(s, "write source")
  <2>1. Moves(s, "write source", old.then, old.built, "none") BY <1>4, <1>9
  <2>2. IsAt(s, "write source", old.then, old.built, "none") BY <1>1, <1>2, <1>3, <2>1
  <2>3. /\ old.at = "source" /\ shim' = shim /\ ~Builds(s) /\ Builds(s)' /\ ~HasShim(s)'
        /\ \A t \in Scripts \ {s} : Builds(t)' <=> Builds(t)
    BY <1>9, <2>2 DEF OpensSource, At, Builds, IsAt, HasShim
  <2>4. ASSUME ~Lost, NobodyBuilds PROVE BuildsAlone(s)'
    BY <1>9, <2>2, <2>3, <2>4 DEF NobodyBuilds, BuildsAlone, At, IsAt
  <2>5. ASSUME NEW x \in Scripts, Builds(x) PROVE TooManyBuild'
    <3>1. x # s BY <2>3, <2>5
    <3>2. Builds(x)' BY <2>3, <2>5, <3>1
    <3>3. QED BY <2>3, <3>1, <3>2 DEF TooManyBuild
  <2>6. ASSUME ~Lost PROVE NobodyBuilds' \/ (\E x \in Scripts : BuildsAlone(x)') \/ TooManyBuild'
    BY <1>8, <2>4, <2>5, <2>6 DEF BuildsAlone, TooManyBuild
  <2>7. ShimInv'
    <3>1. CASE Lost BY <1>2, <1>5, <2>2, <3>1
    <3>2. CASE ~Lost BY <1>2, <1>7, <2>2, <2>3, <2>6, <3>2
    <3>3. QED BY <3>1, <3>2
  <2>8. QED BY <1>1, <1>2, <1>3, <2>1, <2>7
(* A script that builds the shim and goes on building it.                  *)
<1>10. ASSUME NEW at \in {"compile", "link", "unlink"}, NEW built \in {"hollow", "whole"},
              Moves(s, at, old.then, built, "none"), Builds(s),
              shim # "none" => shim' # "none", at \in {"link", "unlink"} => shim' # "none",
              shimSource # "none" <=> shimSource' # "none",
              BuildsAlone(s) => BuildsAlone(s)'
       PROVE  OfficeInv'
  <2>1. at \in Stop /\ at # "end" BY <1>2
  <2>2. IsAt(s, at, old.then, built, "none") BY <1>3, <1>10, <2>1
  <2>3. /\ Builds(s)' /\ \A t \in Scripts : Builds(t)' <=> Builds(t)
        /\ HasShim(s)' => shim' # "none"
    BY <1>10, <2>2 DEF Builds, IsAt, HasShim, At
  <2>4. ASSUME NEW x \in Scripts, BuildsAlone(x) PROVE BuildsAlone(x)'
    <3>1. x = s BY <1>10, <2>4 DEF BuildsAlone
    <3>2. QED BY <1>10, <2>4, <3>1
  <2>5. TooManyBuild => TooManyBuild'
    BY <1>10, <2>3 DEF TooManyBuild
  <2>6. ~NobodyBuilds BY <1>10 DEF NobodyBuilds
  <2>7. ShimInv'
    <3>1. CASE Lost BY <1>5, <2>1, <2>2, <3>1
    <3>2. CASE ~Lost
      <4>1. NobodyBuilds' \/ (\E x \in Scripts : BuildsAlone(x)') \/ TooManyBuild'
        BY <1>8, <2>4, <2>5, <2>6, <3>2
      <4>2. QED BY <1>7, <1>10, <2>1, <2>2, <2>3, <3>2, <4>1
    <3>3. QED BY <3>1, <3>2
  <2>8. QED BY <1>3, <1>10, <2>1, <2>7
<1>11. CASE /\ WritesSource(s) /\ Goes(s, "compile")
            /\ shimSource' = (IF shimSource = "none" THEN "none" ELSE "whole")
  <2>1. Moves(s, "compile", old.then, old.built, "none") BY <1>4, <1>11
  <2>2. IsAt(s, "compile", old.then, old.built, "none") BY <1>1, <1>2, <1>3, <2>1
  <2>3. /\ old.at = "write source" /\ shim' = shim /\ Builds(s)
        /\ shimSource # "none" <=> shimSource' # "none"
    BY <1>11 DEF WritesSource, At, Builds
  <2>4. BuildsAlone(s) => BuildsAlone(s)'
    BY <1>11, <2>2, <2>3 DEF BuildsAlone, At, Builds, IsAt
  <2>5. QED BY <1>1, <1>10, <2>1, <2>3, <2>4
<1>12. CASE /\ Compiles(s) /\ shimSource # "none" /\ shim' = "partial"
            /\ script' = [script EXCEPT ![s].at = "link",
                            ![s].built = IF shimSource = "empty" THEN "hollow" ELSE "whole"]
  <2> DEFINE b == IF shimSource = "empty" THEN "hollow" ELSE "whole"
  <2>1. b \in {"hollow", "whole"} /\ script' = [script EXCEPT ![s].at = "link", ![s].built = b]
    BY <1>12
  <2> HIDE DEF b
  <2>2. Moves(s, "link", old.then, b, "none")
    <3>1. [old EXCEPT !.at = "link", !.built = b]
            = [old EXCEPT !.at = "link", !.then = old.then, !.built = b, !.result = "none"]
      BY <1>1 DEF ScriptRecord
    <3>2. script' = [script EXCEPT ![s] = [old EXCEPT !.at = "link", !.built = b]]
      BY <1>1, <2>1
    <3>3. QED BY <3>1, <3>2 DEF Moves
  <2>3. IsAt(s, "link", old.then, b, "none") BY <1>1, <1>2, <1>3, <2>1, <2>2
  <2>4. old.at = "compile" /\ shimSource' = shimSource /\ Builds(s)
    BY <1>12 DEF Compiles, At, Builds
  <2>5. BuildsAlone(s) => BuildsAlone(s)'
    BY <1>12, <2>3, <2>4 DEF BuildsAlone, At, Builds, IsAt, b
  <2>6. QED BY <1>10, <1>12, <2>1, <2>2, <2>4, <2>5
<1>13. CASE Links(s) /\ shim' = old.built /\ Goes(s, "unlink")
  <2>1. Moves(s, "unlink", old.then, old.built, "none") BY <1>4, <1>13
  <2>2. IsAt(s, "unlink", old.then, old.built, "none") BY <1>1, <1>2, <1>3, <2>1
  <2>3. old.at = "link" /\ shimSource' = shimSource /\ Builds(s) /\ shim' # "none"
    BY <1>1, <1>13 DEF Links, At, Builds
  <2>4. BuildsAlone(s) => BuildsAlone(s)'
    BY <1>13, <2>2, <2>3 DEF BuildsAlone, At, Builds, IsAt
  <2>5. QED BY <1>1, <1>10, <2>1, <2>3, <2>4
<1>14. CASE Unlinks(s) /\ shimSource # "none" /\ shimSource' = "none" /\ Goes(s, old.then)
  <2>1. Moves(s, old.then, old.then, old.built, "none") /\ old.then \in Stop /\ old.then # "end"
    BY <1>1, <1>2, <1>4, <1>14
  <2>2. IsAt(s, old.then, old.then, old.built, "none") BY <1>1, <1>3, <2>1
  <2>3. /\ old.at = "unlink" /\ shim' = shim /\ Builds(s) /\ ~Builds(s)'
        /\ \A t \in Scripts \ {s} : Builds(t)' <=> Builds(t)
    BY <1>1, <1>14, <2>2 DEF Unlinks, At, Builds, IsAt
  <2>4. ASSUME ~Lost PROVE shim # "none"
    BY <1>1, <2>3, <2>4 DEF ShimInv, HasShim, At
  <2>5. ASSUME NEW x \in Scripts, BuildsAlone(x) PROVE NobodyBuilds'
    <3>1. x = s BY <2>3, <2>5 DEF BuildsAlone
    <3>2. \A t \in Scripts : ~Builds(t)' BY <2>3, <2>5, <3>1 DEF BuildsAlone
    <3>3. QED BY <1>14, <2>3, <2>5, <3>1, <3>2 DEF NobodyBuilds, BuildsAlone, At
  <2>6. ASSUME TooManyBuild PROVE TooManyBuild'
    <3>1. PICK x \in Scripts, y \in Scripts : Builds(x) /\ Builds(y) /\ x # y
      BY <1>14, <2>6 DEF TooManyBuild
    <3>2. \E z \in Scripts : Builds(z)' BY <2>3, <3>1
    <3>3. QED BY <1>14, <3>2 DEF TooManyBuild
  <2>7. ~NobodyBuilds BY <2>3 DEF NobodyBuilds
  <2>8. ShimInv'
    <3>1. CASE Lost BY <1>5, <2>1, <2>2, <3>1
    <3>2. CASE ~Lost
      <4>1. NobodyBuilds' \/ (\E x \in Scripts : BuildsAlone(x)') \/ TooManyBuild'
        BY <1>8, <2>5, <2>6, <2>7, <3>2
      <4>2. shim' # "none" BY <2>3, <2>4, <3>2
      <4>3. QED BY <1>7, <2>1, <2>2, <3>2, <4>1, <4>2
    <3>3. QED BY <3>1, <3>2
  <2>9. QED BY <1>1, <1>3, <2>1, <2>8
<1>15. CASE Links(s) /\ ~(shim' = old.built /\ Goes(s, "unlink"))
  BY <1>6, <1>15 DEF Links
<1>16. QED
  BY <1>6, <1>9, <1>11, <1>12, <1>13, <1>14, <1>15
  DEF OpensSource, WritesSource, Compiles, Unlinks

(* LibreOffice ends: a success of recalc.py is of a workbook without       *)
(* errors; nothing else changes.                                           *)
LEMMA RunKeepsInv ==
  ASSUME OfficeInv, NEW s \in Scripts, RunsSoffice(s)
  PROVE  OfficeInv'
<1>1. /\ script[s] \in ScriptRecord /\ ScriptInv(s) /\ script \in [Scripts -> ScriptRecord]
      /\ script[s].at = "run" /\ script[s].result = "none" /\ script[s].built \in {"hollow", "whole"}
      /\ Program[s] \in {"accept_changes", "recalc"}
      /\ UNCHANGED <<blocked, shim, shimSource, macroDir, macro>> /\ MacroInv /\ ShimInv
  BY OfficeAssumption DEF OfficeInv, OfficeTypeOK, RunsSoffice, At, ScriptRecord, Programs
<1>2. PICK e \in Endings, readable \in BOOLEAN :
        \E cells \in IF Program[s] = "recalc" /\ Completes(e) /\ readable
                     THEN Workbook ELSE {Unread} :
          script' = [script EXCEPT ![s] =
            [at |-> "end", then |-> "run", built |-> @.built,
             cells |-> cells, summary |-> error_summary(cells),
             result |-> Reports(Program[s], e, readable, error_summary(cells))]]
  BY DEF RunsSoffice
<1>3. PICK cells \in IF Program[s] = "recalc" /\ Completes(e) /\ readable
                     THEN Workbook ELSE {Unread} :
          script' = [script EXCEPT ![s] =
            [at |-> "end", then |-> "run", built |-> @.built,
             cells |-> cells, summary |-> error_summary(cells),
             result |-> Reports(Program[s], e, readable, error_summary(cells))]]
  BY <1>2
<1> DEFINE result == Reports(Program[s], e, readable, error_summary(cells))
           built == script[s].built
           now == [at |-> "end", then |-> "run", built |-> built,
                   cells |-> cells, summary |-> error_summary(cells), result |-> result]
<1>4. cells \in Workbook /\ (Program[s] = "accept_changes" => cells = Unread)
  BY <1>1, <1>3, NothingReadNothingCounted
<1>5. error_summary(cells) \in SUBSET ErrorCount
  BY <1>4, EachCellCountsOnce
<1>6. /\ result \in {"error", "raised", "success", "errors_found"}
      /\ result = "success" => Broken(cells) = {}
  <2>1. result \in {"error", "raised", "success", "errors_found"} BY DEF Reports
  <2>2. ASSUME result = "success" PROVE Broken(cells) = {}
    <3>1. CASE Program[s] = "accept_changes"
      BY <1>4, <3>1, NothingReadNothingCounted
    <3>2. CASE Program[s] = "recalc"
      <4>1. error_summary(cells) = {} BY <2>2, <3>2 DEF Reports
      <4>2. QED BY <1>4, <4>1, SummaryOfNoErrors
    <3>3. QED BY <1>1, <3>1, <3>2
  <2>3. QED BY <2>1, <2>2
<1> HIDE DEF result
<1>7. now \in ScriptRecord
  BY <1>1, <1>4, <1>5, <1>6 DEF ScriptRecord, Stop, Reported
<1>8. script' = [script EXCEPT ![s] = now] /\ script'[s] = now
  BY <1>1, <1>3 DEF result
<1>9. ScriptInv(s)'
  BY <1>1, <1>6, <1>8 DEF ScriptInv
<1>10. /\ now.at = "end" /\ now.then = "run" /\ now.built = built /\ now.result = result
  OBVIOUS
<1> HIDE DEF now
<1>11. /\ script' \in [Scripts -> ScriptRecord] /\ \A t \in Scripts : ScriptInv(t)'
       /\ IsAt(s, "end", "run", built, result)
  <2>1. /\ script' \in [Scripts -> ScriptRecord] /\ \A t \in Scripts : ScriptInv(t)'
        /\ \A t \in Scripts \ {s} : script'[t] = script[t]
    BY <1>7, <1>8, <1>9, OneScriptMoves
  <2>2. QED BY <1>8, <1>10, <2>1 DEF IsAt
<1>12. OfficeTypeOK'
  BY <1>1, <1>6, <1>11 DEF OfficeInv, OfficeTypeOK, IsAt
<1>13. MacroInv'
  <2>1. ~WritesOrLost(s) /\ ~PastMacro(s)'
    BY <1>1, <1>11 DEF WritesOrLost, At, PastMacro, IsAt
  <2>2. QED BY <1>1, <1>11, <2>1, MacroStands
<1>14. ShimInv'
  <2>1. ~Builds(s) /\ ~Builds(s)' /\ ~HasShim(s)'
    BY <1>1, <1>11 DEF Builds, HasShim, At, IsAt
  <2>2. QED BY <1>1, <1>11, <2>1, ShimStands
<1>15. QED BY <1>11, <1>12, <1>13, <1>14 DEF OfficeInv

LEMMA OfficeNextHolds == OfficeInv /\ [OfficeNext]_officeVars => OfficeInv'
<1> SUFFICES ASSUME OfficeInv, [OfficeNext]_officeVars PROVE OfficeInv'
  OBVIOUS
<1>1. CASE OfficeNext
  BY <1>1, MacroStepKeepsInv, BuildStepKeepsInv, RunKeepsInv DEF OfficeNext
<1>2. CASE UNCHANGED officeVars
  <2>1. \A s \in Scripts : ScriptInv(s)' = ScriptInv(s)
    BY <1>2 DEF officeVars, ScriptInv
  <2>2. MacroInv' = MacroInv
    BY <1>2 DEF officeVars, MacroInv, PastMacro, WritesOrLost, At
  <2>3. ShimInv' = ShimInv
    BY <1>2 DEF officeVars, ShimInv, Lost, HasShim, NobodyBuilds, BuildsAlone, TooManyBuild, Builds, At
  <2>4. QED BY <1>2, <2>1, <2>2, <2>3 DEF officeVars, OfficeInv, OfficeTypeOK
<1>3. QED BY <1>1, <1>2

(* Whatever the set-ups of any number of scripts do to one another, a      *)
(* script that starts LibreOffice on its document has a whole macro and,   *)
(* where it needs one, a whole shim, unless another is just writing them   *)
(* or has failed to; and recalc.py counts every broken cell once           *)
(* (accept_changes.py:90-121, recalc.py:41-67, 100-158, soffice.py:54-67). *)
THEOREM RunsHaveTheirSetUp == OfficeSpec => []OfficeRunIsSound
<1>1. OfficeInv => OfficeRunIsSound
  <2> SUFFICES ASSUME OfficeInv, NEW s \in Scripts
               PROVE  /\ At(s, "run") =>
                           /\ macro[Program[s]] # "whole" =>
                                \E t \in Scripts \ {s} : Program[t] = Program[s] /\ WritesOrLost(t)
                           /\ blocked /\ shim # "whole" => \E t \in Scripts \ {s} : BuildsOrLost(t)
                      /\ script[s].result = "success" => Broken(script[s].cells) = {}
                      /\ TotalCount(script[s].summary) = Cardinality(Broken(script[s].cells))
    BY DEF OfficeRunIsSound, Broken
  <2>1. script[s] \in ScriptRecord /\ ScriptInv(s) BY DEF OfficeInv
  <2>2. script[s].cells \in Workbook BY <2>1 DEF ScriptRecord
  <2>3. TotalCount(error_summary(script[s].cells)) = Cardinality(Broken(script[s].cells))
    BY <2>2, EachCellCountsOnce
  <2>4. ASSUME At(s, "run") PROVE script[s].result = "none" /\ ~WritesOrLost(s) /\ ~BuildsOrLost(s)
    BY <2>4 DEF OfficeInv, OfficeTypeOK, At, WritesOrLost, BuildsOrLost
  <2>5. ASSUME At(s, "run"), macro[Program[s]] # "whole"
        PROVE  \E t \in Scripts \ {s} : Program[t] = Program[s] /\ WritesOrLost(t)
    <3>1. Program[s] \in Programs BY OfficeAssumption
    <3>2. macro[Program[s]] \in {"empty", "cut"}
      BY <2>5, <3>1 DEF OfficeInv, OfficeTypeOK, MacroInv, PastMacro, At
    <3>3. PICK t \in Scripts : Program[t] = Program[s] /\ WritesOrLost(t)
      BY <3>1, <3>2 DEF OfficeInv, MacroInv
    <3>4. QED BY <2>4, <2>5, <3>3
  <2>6. ASSUME At(s, "run"), blocked, shim # "whole"
        PROVE  \E t \in Scripts \ {s} : BuildsOrLost(t)
    <3>1. CASE Lost
      <4>1. PICK t \in Scripts : script[t].result = "no shim" BY <3>1 DEF Lost
      <4>2. BuildsOrLost(t) BY <4>1 DEF BuildsOrLost
      <4>3. QED BY <2>4, <2>6, <4>2
    <3>2. CASE ~Lost
      <4>1. shim # "none" BY <2>6, <3>2 DEF OfficeInv, ShimInv, HasShim
      <4>2. ~NobodyBuilds BY <2>6, <4>1 DEF NobodyBuilds
      <4>3. \E t \in Scripts : Builds(t)
        BY <3>2, <4>2 DEF OfficeInv, ShimInv, BuildsAlone, TooManyBuild
      <4>4. PICK t \in Scripts : BuildsOrLost(t) BY <4>3 DEF Builds, BuildsOrLost
      <4>5. QED BY <2>4, <2>6, <4>4
    <3>3. QED BY <3>1, <3>2
  <2>7. QED BY <2>1, <2>3, <2>5, <2>6 DEF ScriptInv
<1>2. QED BY <1>1, OfficeInitHolds, OfficeNextHolds, PTL DEF OfficeSpec

-----------------------------------------------------------------------------
(* Presentations.                                                          *)

(* A record of a directory, of which every change keeps the shape.         *)
Fields == {"files", "rels", "uses", "sldIds", "declared", "flaw"}

(* What every step keeps of an unpacked deck: the parts clean.py never     *)
(* takes are there, each slide has its relationships, those of the         *)
(* presentation have numbered ids and but for its theme lead to slides or, *)
(* the first of them, to its master; and what a target written from its    *)
(* part's directory names that is gone was a slide.                        *)
HasPlace(r) ==
  IF r.id = 1 THEN r.target = "master1"
  ELSE r.type = "theme" \/ (r.type = "slide" /\ r.target \in SlideFiles)

Deck(p) ==
  /\ DOMAIN p = Fields
  /\ {"presentation", "layout1", "master1"} \subseteq p.files
  /\ {"presentation"} \cup (p.files \cap SlideFiles) \subseteq DOMAIN p.rels
  /\ \E n \in Nat : RelIds(p, "presentation") \subseteq 1 .. n
  /\ 1 \in RelIds(p, "presentation")
  /\ \A r \in p.rels["presentation"] : HasPlace(r)
  /\ get_referenced_files(p) \ p.files \subseteq SlideFiles

(* Those of the presentation's targets that clean.py resolves are there.   *)
Leads(p) == \A r \in p.rels["presentation"] : ~r.rooted => r.target \in p.files

(* The entries add_slide.py printed do not name the master.                *)
NotMaster(entries) == \A s \in entries : s.rid # 1

OnlyListed(p) == p.files \cap SlideFiles \subseteq get_slides_in_sldidlst(p)

(* Where clean.py stands decides what it has made sure of already; and     *)
(* what pack.py said holds of the directory as long as nothing changes it. *)
PptxInv ==
  /\ cleanAt \in {"idle", "loop", "types"}
  /\ IF pkg = NoPackage THEN cleanAt = "idle" ELSE Deck(pkg) /\ Leads(pkg)
  /\ NotMaster(printed) /\ NotMaster(pkg.sldIds \ Mistakes)
  /\ pkg.declared \subseteq pkg.files \cup removed
  /\ cleanAt = "idle" => removed = {}
  /\ cleanAt # "idle" => ~clean
  /\ clean => pkg # NoPackage
  /\ clean \in BOOLEAN
  /\ clean \/ cleanAt # "idle" => OnlyListed(pkg)
  /\ clean \/ cleanAt = "types" => remove_orphaned_files(pkg) = {}
  /\ packed \in {"packed", "passed"} => cleanAt = "idle" /\ pkg # NoPackage /\ ValidPptx(pkg)

(* The deck that was unpacked.                                             *)
LEMMA UnpackedDeck ==
  ASSUME NEW shape \in Shapes
  PROVE  LET p == Presentation(shape) IN
         /\ Deck(p) /\ Leads(p) /\ NotMaster(p.sldIds)
         /\ p # NoPackage /\ p.declared \subseteq p.files
<1> DEFINE p == Presentation(shape)
           first == Slide[1]
           second == Slide[2]
           named == {"presentation", "master1", "layout1", "theme1", "notes1", "chart1",
                     "workbook1", "drawing1", "image1", "image2"}
           third == Addressed(shape, Rel(3, "slide", second))
           with == {Root, "presentation", "master1", "layout1", first, second, "notes1", "chart1"}
                     \cup (IF shape = "shapes" THEN {"drawing1"} ELSE {})
<1>1. /\ first \in SlideFiles /\ second \in SlideFiles /\ first # second
      /\ \A s \in SlideFiles : s \notin named /\ s # Root
  <2>1. {1, 2} \subseteq DOMAIN Slide BY SlideAssumption
  <2>2. QED BY <2>1, SlideAssumption DEF SlideFiles, OtherParts
<1>2. DOMAIN p = Fields
  BY DEF Presentation, Fields
<1>3. /\ DOMAIN p.rels = with
      /\ p.rels[Root] = {Rel(1, "officeDocument", "presentation")}
      /\ p.rels["presentation"] = {Rel(1, "slideMaster", "master1"), Rel(2, "slide", first),
                                   third, Rel(4, "theme", "theme1")}
      /\ p.rels["master1"] = {Rel(1, "slideLayout", "layout1"), Rel(2, "theme", "theme1")}
      /\ \A q \in with : \A r \in p.rels[q] : r.target \in named \cup {first, second}
  <2> HIDE DEF first, second
  <2>1. /\ DOMAIN p.rels = with
        /\ p.rels[Root] = {Rel(1, "officeDocument", "presentation")}
        /\ p.rels["presentation"] = {Rel(1, "slideMaster", "master1"), Rel(2, "slide", first),
                                     third, Rel(4, "theme", "theme1")}
        /\ p.rels["master1"] = {Rel(1, "slideLayout", "layout1"), Rel(2, "theme", "theme1")}
    BY <1>1 DEF Presentation, PresentationRels, Root, first, second
  <2>2. \A q \in with : \A r \in p.rels[q] : r.target \in named \cup {first, second}
    BY <1>1 DEF Presentation, PresentationRels, Root, Rel, Addressed, FromRoot, first, second
  <2>3. QED BY <2>1, <2>2
<1>4. p.files = Referenced(p) /\ p.declared \subseteq p.files
  BY DEF Presentation, Referenced, Targets
<1>9. /\ third.id = 3 /\ third.type = "slide" /\ third.target = second
  BY DEF Addressed, FromRoot, Rel
<1> HIDE DEF p, named, first, second, third
<1>5. /\ {"presentation", "layout1", "master1"} \subseteq p.files
      /\ p.files \subseteq named \cup {first, second}
  <2>1. \A q \in with : \A r \in p.rels[q] : r.target \in p.files
    BY <1>3, <1>4 DEF Referenced, Targets
  <2>2. {"presentation", "layout1", "master1"} \subseteq p.files
    <3>1. {Root, "presentation", "master1"} \subseteq with OBVIOUS
    <3>2. /\ Rel(1, "officeDocument", "presentation") \in p.rels[Root]
          /\ Rel(1, "slideLayout", "layout1") \in p.rels["master1"]
          /\ Rel(1, "slideMaster", "master1") \in p.rels["presentation"]
      BY <1>3
    <3>3. /\ Rel(1, "officeDocument", "presentation").target = "presentation"
          /\ Rel(1, "slideMaster", "master1").target = "master1"
          /\ Rel(1, "slideLayout", "layout1").target = "layout1"
      BY DEF Rel
    <3> HIDE DEF with
    <3>4. QED BY <2>1, <3>1, <3>2, <3>3
  <2>3. \A f \in p.files : \E q \in with : \E r \in p.rels[q] : f = r.target
    BY <1>3, <1>4 DEF Referenced, Targets
  <2>4. QED BY <1>3, <2>2, <2>3
<1>6. /\ \A r \in p.rels["presentation"] : HasPlace(r)
      /\ \A r \in p.rels["presentation"] : r.id \in 1 .. 4
      /\ 1 \in RelIds(p, "presentation")
  BY <1>1, <1>3, <1>9 DEF Rel, RelIds, HasPlace
<1>7. p # NoPackage
  BY <1>5 DEF NoPackage
<1>8. get_referenced_files(p) \ p.files \subseteq SlideFiles /\ Leads(p)
  <2>1. "presentation" \in DOMAIN p.rels BY <1>3
  <2>2. QED
    BY <1>4, <2>1 DEF get_referenced_files, RelativeTargets, Referenced, Targets, Leads
<1>10. NotMaster(p.sldIds)
  BY DEF NotMaster, Presentation, p
<1>11. \E n \in Nat : RelIds(p, "presentation") \subseteq 1 .. n
  BY <1>6 DEF RelIds
<1>12. {"presentation"} \cup (p.files \cap SlideFiles) \subseteq DOMAIN p.rels
  BY <1>1, <1>3, <1>5
<1>13. QED
  BY <1>2, <1>4, <1>5, <1>6, <1>7, <1>8, <1>10, <1>11, <1>12 DEF Deck, p

-----------------------------------------------------------------------------
(* How the operations change the record.                                   *)

(* Of a few numbers there is a largest.                                    *)
LEMMA LargestIn ==
  ASSUME NEW n \in Nat, NEW S \in SUBSET (1 .. n), S # {}
  PROVE  Largest(S) \in S
<1> DEFINE down == {n - i : i \in S}
<1>1. down \subseteq Nat /\ down # {}
  <2>1. \A i \in S : i \in Nat /\ i <= n OBVIOUS
  <2>2. \A i \in S : n - i \in Nat BY <2>1
  <2>3. QED BY <2>2
<1>2. PICK m \in down : \A k \in down : m <= k BY <1>1, LeastIn
<1>3. PICK i \in S : m = n - i BY <1>2
<1>4. \A j \in S : n - j \in down OBVIOUS
<1>5. \A j \in S : j <= i
  <2>1. TAKE j \in S
  <2>2. n - i <= n - j BY <1>2, <1>3, <1>4
  <2>3. i \in Nat /\ j \in Nat OBVIOUS
  <2>4. QED BY <2>2, <2>3
<1>6. QED BY <1>5 DEF Largest

(* What add_slide.py's two ways have in common.                            *)
LEMMA AddedSlide ==
  ASSUME Deck(pkg), Leads(pkg), pkg.declared \subseteq pkg.files,
         NEW dest \in SlideFiles, NEW rels, NEW uses,
         \A r \in rels : ~r.rooted => r.target \in pkg.files \cup SlideFiles,
         NotMaster(printed),
         AddsSlide(dest, rels, uses)
  PROVE  /\ Deck(pkg') /\ Leads(pkg') /\ pkg' # NoPackage /\ pkg'.declared \subseteq pkg'.files
         /\ pkg'.sldIds = pkg.sldIds /\ NotMaster(printed')
         /\ Changes(pkg')
<1> DEFINE added == _add_to_presentation_rels(pkg, dest)
           newRels == [p \in DOMAIN pkg.rels \cup {dest} |->
                         IF p = dest THEN rels
                         ELSE IF p = "presentation" THEN added.rels ELSE pkg.rels[p]]
           newUses == [p \in DOMAIN pkg.uses \cup {dest} |-> IF p = dest THEN uses ELSE pkg.uses[p]]
           new == [pkg EXCEPT !.files = pkg.files \cup {dest}, !.rels = newRels,
                              !.uses = newUses, !.declared = pkg.declared \cup {dest}]
<1>3. Changes(new)
  BY DEF AddsSlide, _add_to_content_types
<1>4. pkg' = new
  BY <1>3 DEF Changes
<1>5. /\ "presentation" \in DOMAIN pkg.rels /\ dest # "presentation"
      /\ pkg.rels["presentation"] \subseteq added.rels
      /\ \A r \in added.rels :
           \/ r \in pkg.rels["presentation"]
           \/ r.target = dest /\ r.type = "slide" /\ r.id = added.rid
  BY SlideAssumption DEF Deck, OtherParts, _add_to_presentation_rels, Rel
<1>2. PICK most \in Nat : RelIds(pkg, "presentation") \subseteq 1 .. most BY DEF Deck
<1>1. added.rid \in 2 .. most + 1
  <2> DEFINE ids == RelIds(pkg, "presentation")
  <2>1. added.rid = Largest(ids) + 1
    BY DEF Deck, _add_to_presentation_rels, Next1
  <2>2. ids \in SUBSET (1 .. most) /\ ids # {} BY <1>2 DEF Deck
  <2> HIDE DEF ids
  <2>3. Largest(ids) \in ids BY <2>2, LargestIn
  <2>4. Largest(ids) \in 1 .. most BY <2>2, <2>3
  <2> HIDE DEF added
  <2>5. QED BY <2>1, <2>4
<1>6. /\ DOMAIN newRels = DOMAIN pkg.rels \cup {dest}
      /\ newRels[dest] = rels /\ newRels["presentation"] = added.rels
      /\ \A q \in DOMAIN pkg.rels \ {dest, "presentation"} : newRels[q] = pkg.rels[q]
  BY <1>5
<1> HIDE DEF added, newRels, newUses
<1>7. /\ DOMAIN new = Fields
      /\ new.files = pkg.files \cup {dest} /\ new.declared = pkg.declared \cup {dest}
      /\ new.rels = newRels /\ new.sldIds = pkg.sldIds
  <2> DEFINE files == pkg.files \cup {dest}
             declared == pkg.declared \cup {dest}
  <2> HIDE DEF files, declared
  <2>1. LET n == [pkg EXCEPT !.files = files, !.rels = newRels, !.uses = newUses,
                             !.declared = declared] IN
        /\ DOMAIN n = Fields
        /\ n.files = files /\ n.declared = declared /\ n.rels = newRels
        /\ n.sldIds = pkg.sldIds
    BY DEF Deck, Fields
  <2>2. QED BY <2>1 DEF files, declared
<1> HIDE DEF new
<1>8. \A q \in DOMAIN pkg.rels : \A r \in pkg.rels[q] :
        ~r.rooted => r.target \in pkg.files \cup SlideFiles
  BY DEF Deck, get_referenced_files, RelativeTargets
<1>9. \A q \in DOMAIN newRels : \A r \in newRels[q] :
        ~r.rooted => r.target \in pkg.files \cup SlideFiles
  BY <1>5, <1>6, <1>8
<1>10. get_referenced_files(new) \ new.files \subseteq SlideFiles
  BY <1>7, <1>9 DEF get_referenced_files, RelativeTargets
<1>11. \A r \in newRels["presentation"] : HasPlace(r)
  BY <1>1, <1>5, <1>6 DEF Deck, HasPlace
<1>12. {"presentation"} \cup (new.files \cap SlideFiles) \subseteq DOMAIN newRels
  BY <1>6, <1>7 DEF Deck
<1>16. /\ 1 \in RelIds(new, "presentation")
       /\ \E k \in Nat : RelIds(new, "presentation") \subseteq 1 .. k
  <2>1. RelIds(new, "presentation") = {r.id : r \in added.rels} BY <1>6, <1>7 DEF RelIds
  <2>2. \A i \in RelIds(new, "presentation") : i \in 1 .. most \/ i = added.rid
    BY <1>2, <1>5, <2>1 DEF RelIds
  <2>3. RelIds(new, "presentation") \subseteq 1 .. most + 1
    <3>1. \A i \in RelIds(new, "presentation") : i \in 1 .. most \/ i \in 2 .. most + 1
      BY <1>1, <2>2
    <3>2. \A i \in 1 .. most \cup 2 .. most + 1 : i \in 1 .. most + 1 OBVIOUS
    <3>3. QED BY <3>1, <3>2
  <2>4. most + 1 \in Nat OBVIOUS
  <2>5. 1 \in RelIds(new, "presentation") BY <1>5, <2>1 DEF Deck, RelIds
  <2>6. QED BY <2>3, <2>4, <2>5
<1>13. Deck(new)
  BY <1>7, <1>10, <1>11, <1>12, <1>16 DEF Deck
<1>14. new # NoPackage /\ new.declared \subseteq new.files
  BY <1>7 DEF NoPackage
<1>17. Leads(new)
  BY <1>5, <1>6, <1>7 DEF Leads
<1>18. NotMaster(printed')
  <2>1. printed' = printed \cup {[id |-> _get_next_slide_id(pkg), rid |-> added.rid]}
    BY DEF AddsSlide, added
  <2>2. added.rid # 1 BY <1>1
  <2>3. QED BY <2>1, <2>2 DEF NotMaster
<1>15. QED BY <1>3, <1>4, <1>7, <1>13, <1>14, <1>17, <1>18

(* Parts go, with some relationships: those that slides and the two parts  *)
(* clean.py never takes have stay, unless they go themselves.              *)
LEMMA WithoutSome ==
  ASSUME NEW p, Deck(p), NEW gone, NEW goneRels,
         {"presentation", "layout1", "master1"} \cap gone = {},
         goneRels \cap ({"presentation"} \cup (SlideFiles \ gone)) = {},
         \A q \in DOMAIN p.rels \ goneRels : gone \cap RelativeTargets(p, q) \subseteq SlideFiles
  PROVE  LET w == Without(p, gone, goneRels) IN
         /\ Deck(w) /\ w # NoPackage
         /\ w.files = p.files \ gone /\ w.declared = p.declared /\ w.sldIds = p.sldIds
         /\ DOMAIN w.rels = DOMAIN p.rels \ goneRels
         /\ \A q \in DOMAIN w.rels : w.rels[q] = p.rels[q]
<1> DEFINE w == Without(p, gone, goneRels)
           flaw == IF p.flaw.part \in gone THEN NoFlaw ELSE p.flaw
           rels == [q \in DOMAIN p.rels \ goneRels |-> p.rels[q]]
           uses == [q \in p.files \ gone |-> p.uses[q]]
<1>1. /\ DOMAIN rels = DOMAIN p.rels \ goneRels
      /\ \A q \in DOMAIN rels : rels[q] = p.rels[q]
  OBVIOUS
<1>2. /\ DOMAIN w = Fields
      /\ w.files = p.files \ gone /\ w.declared = p.declared /\ w.sldIds = p.sldIds
      /\ w.rels = rels
  <2> DEFINE kept == p.files \ gone
  <2>1. w = [p EXCEPT !.files = kept, !.rels = rels, !.uses = uses, !.flaw = flaw]
    BY DEF Without
  <2> HIDE DEF w, kept, rels, uses, flaw
  <2>2. /\ DOMAIN w = Fields
        /\ w.files = kept /\ w.declared = p.declared /\ w.sldIds = p.sldIds /\ w.rels = rels
    BY <2>1 DEF Deck, Fields
  <2>3. QED BY <2>2 DEF kept
<1> HIDE DEF w, flaw, rels, uses
<1>3. /\ DOMAIN w.rels = DOMAIN p.rels \ goneRels
      /\ \A q \in DOMAIN w.rels : w.rels[q] = p.rels[q]
  BY <1>1, <1>2
<1>4. {"presentation", "layout1", "master1"} \subseteq w.files
  BY <1>2 DEF Deck
<1>5. {"presentation"} \cup (w.files \cap SlideFiles) \subseteq DOMAIN w.rels
  BY <1>2, <1>3 DEF Deck
<1>6. w.rels["presentation"] = p.rels["presentation"]
      /\ RelIds(w, "presentation") = RelIds(p, "presentation")
  BY <1>2, <1>3, <1>5 DEF RelIds
<1>7. get_referenced_files(w) \ w.files \subseteq SlideFiles
  <2>1. ASSUME NEW q \in DOMAIN w.rels, NEW r \in w.rels[q], ~r.rooted, r.target \notin w.files
        PROVE  r.target \in SlideFiles
    <3>1. q \in DOMAIN p.rels \ goneRels /\ r \in p.rels[q] BY <1>2, <1>3, <2>1
    <3>2. r.target \in RelativeTargets(p, q) /\ r.target \in get_referenced_files(p)
      BY <2>1, <3>1 DEF RelativeTargets, get_referenced_files
    <3>3. CASE r.target \in gone BY <3>1, <3>2, <3>3
    <3>4. CASE r.target \notin p.files BY <3>2, <3>4 DEF Deck
    <3>5. QED BY <1>2, <2>1, <3>3, <3>4
  <2>2. QED BY <2>1 DEF get_referenced_files, RelativeTargets
<1>8. w # NoPackage
  BY <1>4 DEF NoPackage
<1>10. Deck(w)
  BY <1>2, <1>4, <1>5, <1>6, <1>7 DEF Deck
<1>9. QED
  BY <1>2, <1>3, <1>8, <1>10 DEF w

(* Only the files, the relationships and the slide list matter to what     *)
(* the invariant says of a directory.                                      *)
LEMMA SameParts ==
  ASSUME NEW p, NEW q, Deck(p), DOMAIN q = Fields, q.files = p.files, q.rels = p.rels
  PROVE  /\ Deck(q) /\ q # NoPackage
         /\ Leads(p) => Leads(q)
         /\ q.sldIds = p.sldIds /\ OnlyListed(p) => OnlyListed(q)
         /\ remove_orphaned_files(q) = remove_orphaned_files(p)
<1>1. Leads(p) => Leads(q)
  BY DEF Leads
<1>6. Deck(q)
  BY DEF Deck, get_referenced_files, RelativeTargets, RelIds
<1>2. q # NoPackage
  BY <1>6 DEF Deck, NoPackage
<1>3. q.sldIds = p.sldIds /\ OnlyListed(p) => OnlyListed(q)
  BY DEF OnlyListed, get_slides_in_sldidlst
<1>4. remove_orphaned_files(q) = remove_orphaned_files(p)
  BY DEF remove_orphaned_files, get_referenced_files, RelativeTargets
<1>5. QED BY <1>1, <1>2, <1>3, <1>4, <1>6

(* What add_slide.py's number is when it is one of the slides'.            *)
LEMMA NextSlide ==
  ASSUME get_next_slide_number(pkg) <= Len(Slide)
  PROVE  Slide[get_next_slide_number(pkg)] \in SlideFiles
<1> DEFINE taken == {i \in DOMAIN Slide : Slide[i] \in pkg.files}
           n == get_next_slide_number(pkg)
<1>1. DOMAIN Slide = 1 .. Len(Slide) /\ Len(Slide) \in Nat /\ Len(Slide) >= 2
  BY SlideAssumption
<1>2. CASE taken = {}
  <2>1. n = 1 BY <1>2 DEF get_next_slide_number, Next1
  <2>2. QED BY <1>1, <2>1 DEF SlideFiles
<1>3. CASE taken # {}
  <2>1. taken \in SUBSET (1 .. Len(Slide)) BY <1>1
  <2>2. Largest(taken) \in taken BY <1>1, <1>3, <2>1, LargestIn
  <2>3. n = Largest(taken) + 1 BY <1>3 DEF get_next_slide_number, Next1
  <2> HIDE DEF taken, n
  <2>4. Largest(taken) \in 1 .. Len(Slide) BY <1>1, <2>2 DEF taken
  <2>5. n \in 1 .. Len(Slide) BY <1>1, <2>3, <2>4 DEF n
  <2>6. QED BY <1>1, <2>5 DEF SlideFiles, n
<1>4. QED BY <1>2, <1>3

-----------------------------------------------------------------------------
(* Each operation keeps the invariant.                                     *)

(* A change by add_slide.py or the editor takes back what clean.py and     *)
(* pack.py had made sure of.                                               *)
LEMMA ChangeKeepsInv ==
  ASSUME PptxInv, cleanAt = "idle", NEW new, Changes(new),
         Deck(new), Leads(new), new # NoPackage, new.declared \subseteq new.files,
         NotMaster(printed'), NotMaster(new.sldIds \ Mistakes)
  PROVE  PptxInv'
<1>1. /\ pkg' = new /\ cleanAt' = "idle" /\ removed' = removed
      /\ clean' = FALSE /\ packed' = "no"
  BY DEF Changes
<1>2. QED BY <1>1 DEF PptxInv

LEMMA EditsKeepInv ==
  ASSUME PptxInv,
         \/ \E shape \in Shapes : UnpackPptx(shape)
         \/ create_slide_from_layout
         \/ \E s \in SlideFiles : duplicate_slide(s)
         \/ \E entry \in printed : InsertSldId(entry)
         \/ \E entry \in Mistakes : MistypesSldId(entry)
         \/ \E entry \in pkg.sldIds : DeleteSldId(entry)
         \/ \E part \in {Slide[1], "presentation", "chart1"}, kind \in FlawKinds : Slips(part, kind)
  PROVE  PptxInv'
<1>1. ASSUME NEW shape \in Shapes, UnpackPptx(shape) PROVE PptxInv'
  <2>1. cleanAt = "idle" /\ NotMaster(printed') BY <1>1 DEF PptxInv, UnpackPptx
  <2>2. Changes(Presentation(shape)) BY <1>1 DEF UnpackPptx
  <2>3. NotMaster(Presentation(shape).sldIds \ Mistakes) BY UnpackedDeck DEF NotMaster
  <2>4. QED BY <2>1, <2>2, <2>3, UnpackedDeck, ChangeKeepsInv
<1>2. ASSUME Editing
      PROVE  /\ Deck(pkg) /\ Leads(pkg) /\ pkg.declared \subseteq pkg.files /\ cleanAt = "idle"
             /\ NotMaster(printed) /\ NotMaster(pkg.sldIds \ Mistakes)
  BY <1>2 DEF PptxInv, Editing
<1>3. CASE create_slide_from_layout
  <2> DEFINE rels == {Rel(1, "slideLayout", "layout1")}
             dest == Slide[get_next_slide_number(pkg)]
  <2>1. /\ Deck(pkg) /\ Leads(pkg) /\ pkg.declared \subseteq pkg.files /\ cleanAt = "idle"
        /\ NotMaster(printed) /\ NotMaster(pkg.sldIds \ Mistakes)
    BY <1>2, <1>3 DEF create_slide_from_layout
  <2>2. dest \in SlideFiles BY <1>3, NextSlide DEF create_slide_from_layout
  <2>3. AddsSlide(dest, rels, {}) BY <1>3 DEF create_slide_from_layout
  <2>4. \A r \in rels : ~r.rooted => r.target \in pkg.files \cup SlideFiles
    BY <2>1 DEF Deck, Rel
  <2> HIDE DEF rels, dest
  <2>5. /\ Deck(pkg') /\ Leads(pkg') /\ pkg' # NoPackage /\ pkg'.declared \subseteq pkg'.files
        /\ pkg'.sldIds = pkg.sldIds /\ NotMaster(printed') /\ Changes(pkg')
    BY <2>1, <2>2, <2>3, <2>4, AddedSlide
  <2>6. QED BY <2>1, <2>5, ChangeKeepsInv
<1>4. ASSUME NEW s \in SlideFiles, duplicate_slide(s) PROVE PptxInv'
  <2> DEFINE dest == Slide[get_next_slide_number(pkg)]
  <2>1. /\ Deck(pkg) /\ Leads(pkg) /\ pkg.declared \subseteq pkg.files /\ cleanAt = "idle"
        /\ NotMaster(printed) /\ NotMaster(pkg.sldIds \ Mistakes)
    BY <1>2, <1>4 DEF duplicate_slide
  <2>2. dest \in SlideFiles BY <1>4, NextSlide DEF duplicate_slide
  <2>3. AddsSlide(dest, CopiedRels(s), pkg.uses[s]) BY <1>4 DEF duplicate_slide
  <2>4. \A r \in CopiedRels(s) : ~r.rooted => r.target \in pkg.files \cup SlideFiles
    <3>1. s \in DOMAIN pkg.rels BY <1>4, <2>1 DEF Deck, duplicate_slide
    <3>2. QED BY <2>1, <3>1 DEF CopiedRels, Deck, get_referenced_files, RelativeTargets
  <2> HIDE DEF dest
  <2>5. /\ Deck(pkg') /\ Leads(pkg') /\ pkg' # NoPackage /\ pkg'.declared \subseteq pkg'.files
        /\ pkg'.sldIds = pkg.sldIds /\ NotMaster(printed') /\ Changes(pkg')
    BY <2>1, <2>2, <2>3, <2>4, AddedSlide
  <2>6. QED BY <2>1, <2>5, ChangeKeepsInv
<1>5. ASSUME NEW new, Editing, Changes(new), DOMAIN new = Fields, new.files = pkg.files,
             new.rels = pkg.rels, new.declared = pkg.declared,
             NotMaster(printed'), NotMaster(new.sldIds \ Mistakes)
      PROVE  PptxInv'
  <2>1. Deck(pkg) /\ Leads(pkg) /\ pkg.declared \subseteq pkg.files /\ cleanAt = "idle"
    BY <1>2, <1>5
  <2>2. Deck(new) /\ Leads(new) /\ new # NoPackage BY <1>5, <2>1, SameParts
  <2>3. QED BY <1>5, <2>1, <2>2, ChangeKeepsInv
<1>6. ASSUME NEW entry, InsertSldId(entry) PROVE PptxInv'
  <2> DEFINE ids == pkg.sldIds \cup {entry}
             new == [pkg EXCEPT !.sldIds = ids]
  <2>1. Editing /\ Changes(new) /\ DOMAIN pkg = Fields
    BY <1>2, <1>6 DEF InsertSldId, Deck
  <2>4. NotMaster(printed') /\ NotMaster(ids \ Mistakes)
    BY <1>2, <1>6 DEF InsertSldId, NotMaster
  <2> HIDE DEF ids
  <2>2. /\ DOMAIN new = Fields /\ new.files = pkg.files /\ new.rels = pkg.rels
        /\ new.declared = pkg.declared /\ new.sldIds = ids
    BY <2>1 DEF Fields
  <2>3. QED BY <1>5, <2>1, <2>2, <2>4
<1>7. ASSUME NEW entry, DeleteSldId(entry) PROVE PptxInv'
  <2> DEFINE ids == pkg.sldIds \ {entry}
             new == [pkg EXCEPT !.sldIds = ids]
  <2>1. Editing /\ Changes(new) /\ DOMAIN pkg = Fields
    BY <1>2, <1>7 DEF DeleteSldId, Deck
  <2>4. NotMaster(printed') /\ NotMaster(ids \ Mistakes)
    BY <1>2, <1>7 DEF DeleteSldId, NotMaster
  <2> HIDE DEF ids
  <2>2. /\ DOMAIN new = Fields /\ new.files = pkg.files /\ new.rels = pkg.rels
        /\ new.declared = pkg.declared /\ new.sldIds = ids
    BY <2>1 DEF Fields
  <2>3. QED BY <1>5, <2>1, <2>2, <2>4
<1>10. ASSUME NEW entry, MistypesSldId(entry) PROVE PptxInv'
  <2> DEFINE ids == pkg.sldIds \cup {entry}
             new == [pkg EXCEPT !.sldIds = ids]
  <2>1. Editing /\ Changes(new) /\ DOMAIN pkg = Fields
    BY <1>2, <1>10 DEF MistypesSldId, Deck
  <2>4. NotMaster(printed') /\ NotMaster(ids \ Mistakes)
    BY <1>2, <1>10 DEF MistypesSldId, NotMaster
  <2> HIDE DEF ids
  <2>2. /\ DOMAIN new = Fields /\ new.files = pkg.files /\ new.rels = pkg.rels
        /\ new.declared = pkg.declared /\ new.sldIds = ids
    BY <2>1 DEF Fields
  <2>3. QED BY <1>5, <2>1, <2>2, <2>4
<1>8. ASSUME NEW part, NEW kind, Slips(part, kind) PROVE PptxInv'
  <2> DEFINE flaw == [part |-> part, kind |-> kind]
             new == [pkg EXCEPT !.flaw = flaw]
  <2>1. Editing /\ Changes(new) /\ DOMAIN pkg = Fields
    BY <1>2, <1>8 DEF Slips, Deck
  <2>4. NotMaster(printed') /\ NotMaster(pkg.sldIds \ Mistakes)
    BY <1>2, <1>8 DEF Slips
  <2> HIDE DEF flaw
  <2>2. /\ DOMAIN new = Fields /\ new.files = pkg.files /\ new.rels = pkg.rels
        /\ new.declared = pkg.declared /\ new.sldIds = pkg.sldIds
    BY <2>1 DEF Fields
  <2>3. QED BY <1>5, <2>1, <2>2, <2>4
<1>9. QED
  BY <1>1, <1>3, <1>4, <1>6, <1>7, <1>8, <1>10

(* remove_orphaned_slides leaves the listed slides, and of the             *)
(* presentation's relationships to slides those that lead to one of them.  *)
LEMMA OrphansKeepInv ==
  ASSUME PptxInv, remove_orphaned_slides
  PROVE  PptxInv'
<1> DEFINE listed == get_slides_in_sldidlst(pkg)
           gone == (pkg.files \cap SlideFiles) \ listed
           rest == Without(pkg, gone, gone)
           led(r) == ~r.rooted /\ r.target \in SlideFiles => r.target \in listed
           new == IF gone = {} THEN rest
                  ELSE [rest EXCEPT !.rels["presentation"] = {r \in @ : led(r)}]
<1>1. /\ Deck(pkg) /\ Leads(pkg) /\ removed = {} /\ pkg.declared \subseteq pkg.files
      /\ NotMaster(printed') /\ NotMaster(pkg.sldIds \ Mistakes)
      /\ pkg' = new /\ removed' = gone
      /\ cleanAt' = "loop" /\ clean' = FALSE /\ packed' = "no"
  BY DEF PptxInv, remove_orphaned_slides, Editing
<1>2. /\ Deck(rest) /\ rest # NoPackage
      /\ rest.files = pkg.files \ gone /\ rest.declared = pkg.declared /\ rest.sldIds = pkg.sldIds
      /\ DOMAIN rest.rels = DOMAIN pkg.rels \ gone
      /\ \A q \in DOMAIN rest.rels : rest.rels[q] = pkg.rels[q]
  <2>1. {"presentation", "layout1", "master1"} \cap gone = {} BY SlideAssumption DEF OtherParts
  <2>2. gone \cap ({"presentation"} \cup (SlideFiles \ gone)) = {} BY <2>1
  <2>3. \A q \in DOMAIN pkg.rels \ gone : gone \cap RelativeTargets(pkg, q) \subseteq SlideFiles
    OBVIOUS
  <2> HIDE DEF gone
  <2>4. QED BY <1>1, <2>1, <2>2, <2>3, WithoutSome
<1> HIDE DEF listed, gone, rest
<1>3. "presentation" \in DOMAIN rest.rels /\ DOMAIN rest = Fields
  BY <1>2 DEF Deck
<1>4. /\ DOMAIN new = Fields
      /\ new.files = rest.files /\ new.declared = rest.declared /\ new.sldIds = rest.sldIds
      /\ DOMAIN new.rels = DOMAIN rest.rels
      /\ \A q \in DOMAIN rest.rels : q # "presentation" => new.rels[q] = rest.rels[q]
      /\ new.rels["presentation"] =
           IF gone = {} THEN rest.rels["presentation"]
           ELSE {r \in rest.rels["presentation"] : led(r)}
  <2>1. CASE gone = {} BY <1>3, <2>1
  <2>2. CASE gone # {} BY <1>3, <2>2 DEF Fields
  <2>3. QED BY <2>1, <2>2
<1> HIDE DEF new
<1>5. Deck(new) /\ new # NoPackage
  <2>1. /\ new.rels["presentation"] \subseteq rest.rels["presentation"]
        /\ \A q \in DOMAIN new.rels : new.rels[q] \subseteq rest.rels[q]
    BY <1>3, <1>4
  <2>2. get_referenced_files(new) \subseteq get_referenced_files(rest)
    BY <1>4, <2>1 DEF get_referenced_files, RelativeTargets
  <2>5. RelIds(new, "presentation") \subseteq RelIds(rest, "presentation") BY <2>1 DEF RelIds
  <2>6. 1 \in RelIds(new, "presentation")
    <3>1. PICK r \in rest.rels["presentation"] : r.id = 1 BY <1>2 DEF Deck, RelIds
    <3>2. r.target \notin SlideFiles
      BY <1>2, <3>1, SlideAssumption DEF Deck, HasPlace, OtherParts
    <3>3. r \in new.rels["presentation"] BY <1>4, <3>1, <3>2
    <3>4. QED BY <3>1, <3>3 DEF RelIds
  <2>3. Deck(new) BY <1>2, <1>4, <2>1, <2>2, <2>5, <2>6 DEF Deck
  <2>4. QED BY <2>3 DEF Deck, NoPackage
<1>9. Leads(new)
  <2>1. ASSUME NEW r \in new.rels["presentation"], ~r.rooted PROVE r.target \in new.files
    <3>1. r \in pkg.rels["presentation"] /\ r.target \in pkg.files
      BY <1>1, <1>2, <1>3, <1>4, <2>1 DEF Leads
    <3>2. r.target \notin gone
      <4>1. CASE gone = {} BY <4>1
      <4>2. CASE gone # {}
        <5>1. r.target \in SlideFiles => r.target \in listed BY <1>4, <2>1, <4>2
        <5>2. QED BY <2>1, <5>1 DEF gone
      <4>3. QED BY <4>1, <4>2
    <3>3. QED BY <1>2, <1>4, <3>1, <3>2
  <2>2. QED BY <2>1 DEF Leads
<1>6. OnlyListed(new)
  <2>1. ASSUME NEW f \in new.files \cap SlideFiles PROVE f \in get_slides_in_sldidlst(new)
    <3>1. f \in listed BY <1>2, <1>4, <2>1 DEF gone
    <3>2. PICK r \in pkg.rels["presentation"] :
            /\ r.type \in TypesNaming("slide") /\ ~r.rooted /\ r.target \in SlideFiles
            /\ r.target = f /\ \E s \in pkg.sldIds : s.rid = r.id
      BY <3>1 DEF listed, get_slides_in_sldidlst
    <3>3. r \in new.rels["presentation"] BY <1>2, <1>3, <1>4, <3>1, <3>2
    <3>4. QED BY <1>2, <1>4, <3>2, <3>3 DEF get_slides_in_sldidlst
  <2>2. QED BY <2>1 DEF OnlyListed
<1>7. new.declared \subseteq new.files \cup gone
  BY <1>1, <1>2, <1>4
<1>10. NotMaster(new.sldIds \ Mistakes)
  BY <1>1, <1>2, <1>4
<1>8. QED BY <1>1, <1>5, <1>6, <1>7, <1>9, <1>10 DEF PptxInv

(* A round takes parts nothing leads to, so nothing new leads nowhere; the *)
(* last one has found nothing to take.                                     *)
LEMMA RoundKeepsInv ==
  ASSUME PptxInv, CleanRound
  PROVE  PptxInv'
<1> DEFINE goneRels == remove_orphaned_rels_files(pkg)
           p == Without(pkg, {}, goneRels)
           gone == remove_orphaned_files(p)
           new == Without(p, gone, RelsGoneWith(gone))
<1>1. /\ Deck(pkg) /\ Leads(pkg) /\ OnlyListed(pkg) /\ ~clean
      /\ NotMaster(printed') /\ NotMaster(pkg.sldIds \ Mistakes)
      /\ pkg.declared \subseteq pkg.files \cup removed
      /\ pkg' = new /\ removed' = removed \cup gone
      /\ cleanAt' = IF goneRels = {} /\ gone = {} THEN "types" ELSE "loop"
      /\ clean' = clean /\ packed' = packed /\ packed \notin {"packed", "passed"}
  BY DEF PptxInv, CleanRound
<1>2. /\ Deck(p) /\ p.files = pkg.files
      /\ p.declared = pkg.declared /\ p.sldIds = pkg.sldIds
      /\ DOMAIN p.rels = DOMAIN pkg.rels \ goneRels
      /\ \A q \in DOMAIN p.rels : p.rels[q] = pkg.rels[q]
  <2>1. \A q \in goneRels : Kind[q] \in {"charts", "diagrams", "drawings"}
    BY DEF remove_orphaned_rels_files
  <2>2. goneRels \cap ({"presentation"} \cup (SlideFiles \ {})) = {}
    BY <2>1, SlideAssumption
  <2> DEFINE none == {}
             w == Without(pkg, none, goneRels)
  <2>3. /\ {"presentation", "layout1", "master1"} \cap none = {} /\ pkg.files \ none = pkg.files
        /\ \A q \in DOMAIN pkg.rels \ goneRels : none \cap RelativeTargets(pkg, q) \subseteq SlideFiles
        /\ goneRels \cap ({"presentation"} \cup (SlideFiles \ none)) = {}
    BY <2>2
  <2>4. p = w OBVIOUS
  <2> HIDE DEF goneRels, none, p
  <2>5. /\ Deck(w) /\ w.files = pkg.files \ none
        /\ w.declared = pkg.declared /\ w.sldIds = pkg.sldIds
        /\ DOMAIN w.rels = DOMAIN pkg.rels \ goneRels
        /\ \A q \in DOMAIN w.rels : w.rels[q] = pkg.rels[q]
    BY <1>1, <2>3, WithoutSome
  <2>6. QED BY <2>3, <2>4, <2>5
<1>3. /\ \A f \in gone : Kind[f] \in {"media", "embeddings", "charts", "diagrams", "tags",
                                     "drawings", "ink", "theme", "notesSlides"}
      /\ gone \cap get_referenced_files(p) = {}
  <2> HIDE DEF p
  <2>1. QED BY DEF remove_orphaned_files
<1> HIDE DEF goneRels, p, gone
<1>4. gone \cap SlideFiles = {} /\ {"presentation", "layout1", "master1"} \cap gone = {}
  BY <1>3, SlideAssumption
<1>5. /\ Deck(new) /\ new # NoPackage
      /\ new.files = p.files \ gone /\ new.declared = p.declared /\ new.sldIds = p.sldIds
      /\ DOMAIN new.rels = DOMAIN p.rels \ RelsGoneWith(gone)
      /\ \A q \in DOMAIN new.rels : new.rels[q] = p.rels[q]
  <2>1. RelsGoneWith(gone) \subseteq gone BY DEF RelsGoneWith
  <2>2. RelsGoneWith(gone) \cap ({"presentation"} \cup (SlideFiles \ gone)) = {}
    BY <1>4, <2>1
  <2>3. \A q \in DOMAIN p.rels \ RelsGoneWith(gone) :
          gone \cap RelativeTargets(p, q) \subseteq SlideFiles
    BY <1>3 DEF get_referenced_files
  <2>4. QED BY <1>2, <1>4, <2>2, <2>3, WithoutSome
<1> HIDE DEF new
<1>10. Leads(new)
  <2>1. "presentation" \in DOMAIN new.rels /\ "presentation" \in DOMAIN p.rels
    BY <1>2, <1>5 DEF Deck
  <2>2. new.rels["presentation"] = pkg.rels["presentation"] BY <1>2, <1>5, <2>1
  <2>3. p.rels["presentation"] = pkg.rels["presentation"] BY <1>2, <2>1
  <2>4. ASSUME NEW r \in pkg.rels["presentation"], ~r.rooted PROVE r.target \in new.files
    <3>1. r.target \in get_referenced_files(p)
      BY <2>1, <2>3, <2>4 DEF get_referenced_files, RelativeTargets
    <3>2. r.target \in pkg.files BY <1>1, <2>4 DEF Leads
    <3>3. QED BY <1>2, <1>3, <1>5, <3>1, <3>2
  <2>5. QED BY <2>2, <2>4 DEF Leads
<1>6. OnlyListed(new)
  <2>1. "presentation" \in DOMAIN new.rels /\ "presentation" \in DOMAIN p.rels
    BY <1>2, <1>5 DEF Deck
  <2>2. new.rels["presentation"] = pkg.rels["presentation"] BY <1>2, <1>5, <2>1
  <2>3. get_slides_in_sldidlst(new) = get_slides_in_sldidlst(pkg)
    BY <1>2, <1>5, <2>2 DEF get_slides_in_sldidlst
  <2>4. QED BY <1>1, <1>2, <1>5, <2>3 DEF OnlyListed
<1>7. cleanAt' = "types" => remove_orphaned_files(new) = {}
  <2>1. SUFFICES ASSUME gone = {} PROVE remove_orphaned_files(new) = {}
    BY <1>1
  <2>2. DOMAIN new.rels = DOMAIN p.rels /\ new.files = p.files
    BY <1>5, <2>1 DEF RelsGoneWith
  <2>3. get_referenced_files(new) = get_referenced_files(p)
    BY <1>5, <2>2 DEF get_referenced_files, RelativeTargets
  <2>4. remove_orphaned_files(new) = gone
    BY <2>2, <2>3 DEF gone, remove_orphaned_files
  <2>5. QED BY <2>1, <2>4
<1>8. new.declared \subseteq new.files \cup removed'
  BY <1>1, <1>2, <1>5
<1>11. NotMaster(new.sldIds \ Mistakes)
  BY <1>1, <1>2, <1>5
<1>9. QED BY <1>1, <1>5, <1>6, <1>7, <1>8, <1>10, <1>11 DEF PptxInv

(* With the declarations of what went, nothing declared is missing.        *)
LEMMA EndsKeepInv ==
  ASSUME PptxInv, CleanEnds
  PROVE  PptxInv'
<1> DEFINE left == update_content_types(pkg.declared, removed)
           new == [pkg EXCEPT !.declared = left]
<1>1. /\ Deck(pkg) /\ Leads(pkg) /\ OnlyListed(pkg) /\ remove_orphaned_files(pkg) = {}
      /\ NotMaster(printed') /\ NotMaster(pkg.sldIds \ Mistakes)
      /\ pkg.declared \subseteq pkg.files \cup removed /\ packed \notin {"packed", "passed"}
      /\ pkg' = new
      /\ cleanAt' = "idle" /\ removed' = {} /\ clean' = TRUE /\ packed' = packed
  BY DEF PptxInv, CleanEnds
<1>2. left \subseteq pkg.files
  BY <1>1 DEF update_content_types
<1> HIDE DEF left
<1>3. /\ DOMAIN new = Fields /\ new.files = pkg.files /\ new.rels = pkg.rels
      /\ new.sldIds = pkg.sldIds /\ new.declared = left
  BY <1>1 DEF Deck, Fields
<1> HIDE DEF new
<1>4. /\ Deck(new) /\ Leads(new) /\ new # NoPackage
      /\ OnlyListed(new) /\ remove_orphaned_files(new) = {}
  BY <1>1, <1>3, SameParts
<1>6. NotMaster(new.sldIds \ Mistakes)
  BY <1>1, <1>3
<1>5. QED BY <1>1, <1>2, <1>3, <1>4, <1>6 DEF PptxInv

(* The checks change no more than the text of one part.                    *)
LEMMA ChecksKeepInv ==
  ASSUME PptxInv,
         \/ PackPptx
         \/ \E repair \in BOOLEAN : ValidateDirectory(repair)
         \/ \E original \in BOOLEAN : ValidatePacked(original)
  PROVE  PptxInv'
<1>1. ASSUME Editing, pkg' = pkg \/ pkg' = repair_whitespace_preservation(pkg),
             UNCHANGED <<printed, cleanAt, removed, clean>>,
             packed' \in {"packed", "passed"} => ValidPptx(pkg')
      PROVE  PptxInv'
  <2>1. Deck(pkg) /\ Leads(pkg) /\ cleanAt = "idle" BY <1>1 DEF PptxInv, Editing
  <2>2. /\ DOMAIN pkg' = Fields /\ pkg'.files = pkg.files /\ pkg'.rels = pkg.rels
        /\ pkg'.sldIds = pkg.sldIds /\ pkg'.declared = pkg.declared
    BY <1>1, <2>1 DEF repair_whitespace_preservation, Deck, Fields
  <2>3. /\ Deck(pkg') /\ Leads(pkg') /\ pkg' # NoPackage
        /\ OnlyListed(pkg) => OnlyListed(pkg')
        /\ remove_orphaned_files(pkg') = remove_orphaned_files(pkg)
    BY <2>1, <2>2, SameParts
  <2>4. /\ clean \in BOOLEAN /\ removed = {} /\ pkg.declared \subseteq pkg.files
        /\ clean => OnlyListed(pkg) /\ remove_orphaned_files(pkg) = {}
    BY <2>1 DEF PptxInv
  <2>5. cleanAt' = "idle" /\ removed' = {} /\ clean' = clean
    BY <1>1, <2>1, <2>4
  <2>6. /\ clean' => OnlyListed(pkg') /\ remove_orphaned_files(pkg') = {}
        /\ pkg'.declared \subseteq pkg'.files
    <3>1. clean => OnlyListed(pkg') /\ remove_orphaned_files(pkg') = {} BY <2>2, <2>3, <2>4
    <3>2. clean' => clean BY <2>5
    <3>3. pkg'.declared \subseteq pkg'.files BY <2>2, <2>4
    <3>4. QED BY <3>1, <3>2, <3>3
  <2>8. NotMaster(printed') /\ NotMaster(pkg'.sldIds \ Mistakes)
    BY <1>1, <2>2 DEF PptxInv
  <2>7. QED BY <1>1, <2>3, <2>4, <2>5, <2>6, <2>8 DEF PptxInv
<1>2. CASE PackPptx
  BY <1>1, <1>2 DEF PackPptx
<1>3. ASSUME NEW repair \in BOOLEAN, ValidateDirectory(repair) PROVE PptxInv'
  BY <1>1, <1>3 DEF ValidateDirectory
<1>4. ASSUME NEW original \in BOOLEAN, ValidatePacked(original) PROVE PptxInv'
  <2>1. ValidPptx(pkg) BY <1>4 DEF PptxInv, ValidatePacked
  <2>2. QED BY <1>1, <1>4, <2>1 DEF ValidatePacked
<1>5. QED BY <1>2, <1>3, <1>4

LEMMA PptxInitHolds ==
  PptxInit => PptxInv
<1>1. NoPackage.declared = {} /\ NoPackage.sldIds = {}
  BY DEF NoPackage
<1>2. QED
  BY <1>1 DEF PptxInit, PptxInv, NotMaster

LEMMA PptxNextHolds ==
  PptxInv /\ [PptxNext]_pptxVars => PptxInv'
<1> SUFFICES ASSUME PptxInv, [PptxNext]_pptxVars PROVE PptxInv'
  OBVIOUS
<1>1. CASE remove_orphaned_slides BY <1>1, OrphansKeepInv
<1>2. CASE CleanRound BY <1>2, RoundKeepsInv
<1>3. CASE CleanEnds BY <1>3, EndsKeepInv
<1>4. CASE UNCHANGED pptxVars
  <2>1. PptxInv' = PptxInv
    BY <1>4 DEF pptxVars, PptxInv, OnlyListed, Deck, Leads, NotMaster, ValidPptx
  <2>2. QED BY <2>1
<1>5. QED BY <1>1, <1>2, <1>3, <1>4, EditsKeepInv, ChecksKeepInv DEF PptxNext

-----------------------------------------------------------------------------
(* What the scripts promise of a presentation.                             *)

(* Any presentation that pack.py or validate.py let through, in whatever   *)
(* order it was edited and cleaned: each entry of the slide list that      *)
(* add_slide.py printed has its slide, each has a declared part, and       *)
(* nothing is missing or left over.                                        *)
THEOREM PackedDeckOpens ==
  PptxSpec => []PackedIsSound
<1>1. ASSUME PptxInv, packed \in {"packed", "passed"} PROVE PackedIsSound
  <2>1. Deck(pkg) /\ ValidPptx(pkg) /\ NotMaster(pkg.sldIds \ Mistakes) BY <1>1 DEF PptxInv
  <2>2. "presentation" \in pkg.files \cap DOMAIN pkg.rels BY <2>1 DEF Deck
  <2>3. pkg.files = Referenced(pkg)
    BY <2>1, <2>2 DEF ValidPptx, validate_file_references
  <2>4. ASSUME NEW s \in pkg.sldIds
        PROVE  \E r \in pkg.rels["presentation"] :
                 /\ r.id = s.rid /\ r.type \in TypesNaming("slide")
                 /\ r.target \in pkg.files \cap pkg.declared
                 /\ s \notin Mistakes => r.target \in SlideFiles
    <3>1. /\ s.rid \in RelIds(pkg, "presentation")
          /\ \A r \in pkg.rels["presentation"] :
               r.id = s.rid => r.type \in TypesNaming(_get_expected_relationship_type("sldId"))
      BY <2>1, <2>2 DEF ValidPptx, validate_all_relationship_ids
    <3>2. PICK r \in pkg.rels["presentation"] : r.id = s.rid BY <3>1 DEF RelIds
    <3>3. r.type \in TypesNaming("slide") BY <3>1, <3>2 DEF _get_expected_relationship_type
    <3>4. /\ r.target \in SlideFiles \cup {"master1"}
          /\ s \notin Mistakes => r.target \in SlideFiles
      <4>1. r.type # "theme" BY <3>3 DEF TypesNaming
      <4>2. HasPlace(r) BY <2>1 DEF Deck
      <4>3. s \notin Mistakes => r.id # 1 BY <2>1, <3>2 DEF NotMaster
      <4>4. QED BY <4>1, <4>2, <4>3 DEF HasPlace
    <3>5. r.target \in pkg.files BY <2>2, <2>3 DEF Referenced, Targets
    <3>6. r.target \in pkg.declared
      BY <2>1, <3>4, <3>5, SlideAssumption DEF ValidPptx, validate_content_types
    <3>7. QED BY <3>2, <3>3, <3>4, <3>5, <3>6
  <2>5. \A s, t \in pkg.sldIds : s.id = t.id => s = t
    BY <2>1 DEF ValidPptx, validate_unique_ids
  <2>6. QED BY <2>3, <2>4, <2>5 DEF PackedIsSound
<1>2. PptxInv => PackedIsSound
  BY <1>1 DEF PackedIsSound
<1>3. QED
  BY <1>2, PptxInitHolds, PptxNextHolds, PTL DEF PptxSpec

(* When clean.py has ended, no unlisted slide is left, no resource that    *)
(* nothing leads to and no declaration without its part, as far as targets *)
(* are written from their part's directory.                                *)
THEOREM CleaningIsComplete ==
  PptxSpec => []CleanIsComplete
<1>1. PptxInv => CleanIsComplete
  BY DEF PptxInv, CleanIsComplete, OnlyListed, Deck, Leads
<1>2. QED
  BY <1>1, PptxInitHolds, PptxNextHolds, PTL DEF PptxSpec

-----------------------------------------------------------------------------
(* PDF forms.                                                              *)

(* The last of the first n entries that asks for a value of a field.       *)
IsLast(entries, n, id, i) ==
  /\ i \in 1 .. n /\ AsksFor(entries[i], id)
  /\ \A j \in i + 1 .. n : ~AsksFor(entries[j], id)
LastFor(entries, n, id) == CHOOSE i \in 1 .. n : IsLast(entries, n, id, i)
GivenIn(entries, n) == {i \in 1 .. n : IsGiven(entries[i])}
AskedIn(entries, n) == {entries[i].field_id : i \in GivenIn(entries, n)}

LEMMA LastIsFound ==
  ASSUME NEW entries, NEW n \in Nat, NEW id \in AskedIn(entries, n)
  PROVE  IsLast(entries, n, id, LastFor(entries, n, id))
<1> DEFINE places == {i \in 1 .. n : AsksFor(entries[i], id)}
           down == {n - i : i \in places}
<1>1. places # {} BY DEF AskedIn, GivenIn, AsksFor
<1>2. down \in SUBSET Nat /\ down # {} BY <1>1
<1>3. PICK d \in down : \A m \in down : d <= m BY <1>2, LeastIn
<1>4. PICK i \in places : d = n - i BY <1>3
<1>5. \A j \in i + 1 .. n : ~AsksFor(entries[j], id)
  <2>1. ASSUME NEW j \in i + 1 .. n, AsksFor(entries[j], id) PROVE FALSE
    <3>1. i \in 1 .. n /\ j \in 1 .. n /\ i < j BY <1>4
    <3>2. n - j \in down BY <2>1, <3>1
    <3>3. n - i <= n - j BY <1>3, <1>4, <3>2
    <3>4. QED BY <3>1, <3>3
  <2>2. QED BY <2>1
<1>6. IsLast(entries, n, id, i) /\ i \in 1 .. n BY <1>4, <1>5 DEF IsLast
<1>7. QED BY <1>6 DEF LastFor

LEMMA LastIsUnique ==
  ASSUME NEW entries, NEW n \in Nat, NEW id, NEW i, NEW k,
         IsLast(entries, n, id, i), IsLast(entries, n, id, k)
  PROVE  i = k
BY DEF IsLast

(* What is to be written once the first n entries are read.                *)
Written(entries, n) ==
  [id \in AskedIn(entries, n) |-> entries[LastFor(entries, n, id)].value]

Extended(values, e) ==
  IF IsGiven(e)
  THEN [k \in DOMAIN values \cup {e.field_id} |-> IF k = e.field_id THEN e.value ELSE values[k]]
  ELSE values

(* An entry that does not ask for the field leaves its last one the last.  *)
LEMMA LastStaysLast ==
  ASSUME NEW entries, NEW n \in Nat \ {0}, NEW id \in AskedIn(entries, n - 1),
         ~AsksFor(entries[n], id)
  PROVE  LastFor(entries, n, id) = LastFor(entries, n - 1, id)
<1> DEFINE k == LastFor(entries, n - 1, id)
<1>1. n - 1 \in Nat /\ n \in Nat OBVIOUS
<1>2. IsLast(entries, n - 1, id, k) BY <1>1, LastIsFound
<1> HIDE DEF k
<1>3. IsLast(entries, n, id, k)
  <2>1. k \in 1 .. n - 1 /\ AsksFor(entries[k], id)
        /\ \A j \in k + 1 .. n - 1 : ~AsksFor(entries[j], id)
    BY <1>2 DEF IsLast
  <2>2. ASSUME NEW j \in k + 1 .. n PROVE ~AsksFor(entries[j], id)
    <3>1. CASE j = n BY <3>1
    <3>2. CASE j # n BY <2>1, <3>2
    <3>3. QED BY <3>1, <3>2
  <2>3. QED BY <2>1, <2>2 DEF IsLast
<1>4. id \in AskedIn(entries, n)
  <2>1. k \in 1 .. n /\ AsksFor(entries[k], id) BY <1>3 DEF IsLast
  <2>2. QED BY <2>1 DEF AskedIn, GivenIn, AsksFor
<1>5. IsLast(entries, n, id, LastFor(entries, n, id)) BY <1>1, <1>4, LastIsFound
<1>6. QED BY <1>1, <1>3, <1>5, LastIsUnique DEF k

LEMMA OneEntryMore ==
  ASSUME NEW entries, NEW n \in Nat \ {0}
  PROVE  Written(entries, n) = Extended(Written(entries, n - 1), entries[n])
<1> DEFINE key == entries[n].field_id
<1>1. n - 1 \in Nat /\ n \in Nat OBVIOUS
<1>2. GivenIn(entries, n) = IF IsGiven(entries[n]) THEN GivenIn(entries, n - 1) \cup {n}
                            ELSE GivenIn(entries, n - 1)
  <2>1. 1 .. n = (1 .. n - 1) \cup {n} OBVIOUS
  <2>2. QED BY <2>1 DEF GivenIn
<1>3. ASSUME NEW id \in AskedIn(entries, n - 1), ~AsksFor(entries[n], id)
      PROVE  entries[LastFor(entries, n, id)].value = Written(entries, n - 1)[id]
  BY <1>3, LastStaysLast DEF Written
<1>4. DOMAIN Written(entries, n - 1) = AskedIn(entries, n - 1) BY DEF Written
<1>5. CASE IsGiven(entries[n])
  <2> DEFINE more == [k \in AskedIn(entries, n - 1) \cup {key} |->
                        IF k = key THEN entries[n].value ELSE Written(entries, n - 1)[k]]
  <2>1. AskedIn(entries, n) = AskedIn(entries, n - 1) \cup {key} BY <1>2, <1>5 DEF AskedIn
  <2>2. ASSUME NEW id \in AskedIn(entries, n)
        PROVE  entries[LastFor(entries, n, id)].value =
                 IF id = key THEN entries[n].value ELSE Written(entries, n - 1)[id]
    <3>1. CASE id = key
      <4>1. IsLast(entries, n, id, LastFor(entries, n, id)) BY <1>1, <2>2, LastIsFound
      <4>2. IsLast(entries, n, id, n) BY <1>1, <1>5, <3>1 DEF IsLast, AsksFor
      <4>3. LastFor(entries, n, id) = n BY <1>1, <4>1, <4>2, LastIsUnique
      <4>4. QED BY <3>1, <4>3
    <3>2. CASE id # key
      <4>1. id \in AskedIn(entries, n - 1) /\ ~AsksFor(entries[n], id)
        BY <2>1, <3>2 DEF AsksFor
      <4>2. QED BY <1>3, <3>2, <4>1
    <3>3. QED BY <3>1, <3>2
  <2>3. Written(entries, n) = [id \in AskedIn(entries, n) |-> more[id]]
    BY <2>1, <2>2 DEF Written
  <2>4. QED BY <1>4, <1>5, <2>1, <2>3 DEF Extended
<1>6. CASE ~IsGiven(entries[n])
  <2>1. AskedIn(entries, n) = AskedIn(entries, n - 1) BY <1>2, <1>6 DEF AskedIn
  <2>2. \A id \in AskedIn(entries, n) :
          entries[LastFor(entries, n, id)].value = entries[LastFor(entries, n - 1, id)].value
    BY <1>3, <1>6, <2>1 DEF AsksFor, Written
  <2>3. Written(entries, n) = Written(entries, n - 1) BY <2>1, <2>2 DEF Written
  <2>4. QED BY <1>6, <2>3 DEF Extended
<1>7. QED BY <1>5, <1>6

(* The loop over the entries ends with what each field was last asked for. *)
LEMMA LaterEntriesWin ==
  ASSUME NEW entries \in Seq(Entries)
  PROVE  ValuesOf(entries) = Written(entries, Len(entries))
<1> DEFINE step(before, n) ==
             IF n = 0 THEN NoValues
             ELSE LET e == entries[n]
                  IN  IF IsGiven(e)
                      THEN [k \in DOMAIN before[n - 1] \cup {e.field_id} |->
                              IF k = e.field_id THEN e.value ELSE before[n - 1][k]]
                      ELSE before[n - 1]
           after == CHOOSE a : a = [n \in 0 .. Len(entries) |-> step(a, n)]
           given == [n \in 0 .. Len(entries) |-> Written(entries, n)]
<1>1. ValuesOf(entries) = after[Len(entries)] BY DEF ValuesOf
<1>2. Len(entries) \in Nat BY LenProperties
<1>3. given = [n \in 0 .. Len(entries) |-> step(given, n)]
  <2>1. ASSUME NEW n \in 0 .. Len(entries) PROVE Written(entries, n) = step(given, n)
    <3>1. CASE n = 0
      <4>1. AskedIn(entries, 0) = {} BY DEF AskedIn, GivenIn
      <4>2. QED BY <3>1, <4>1 DEF Written, NoValues
    <3>2. CASE n # 0
      <4>0. n \in Nat \ {0} BY <1>2, <3>2
      <4>1. n - 1 \in 0 .. Len(entries) BY <1>2, <3>2
      <4>2. given[n - 1] = Written(entries, n - 1) BY <4>1
      <4>3. Written(entries, n) = Extended(Written(entries, n - 1), entries[n])
        BY <4>0, OneEntryMore
      <4> HIDE DEF given
      <4>4. QED BY <3>2, <4>2, <4>3 DEF Extended
    <3>3. QED BY <3>1, <3>2
  <2>2. QED BY <2>1
<1>4. after = [n \in 0 .. Len(entries) |-> step(after, n)]
  <2> HIDE DEF given, step
  <2>1. \E a : a = [n \in 0 .. Len(entries) |-> step(a, n)] BY <1>3
  <2>2. QED BY <2>1
<1> HIDE DEF after
<1>5. \A n \in 0 .. Len(entries) : after[n] = given[n]
  <2> DEFINE wrong == {n \in 0 .. Len(entries) : after[n] # given[n]}
  <2>1. SUFFICES ASSUME wrong # {} PROVE FALSE OBVIOUS
  <2>2. PICK n \in wrong : \A m \in wrong : n <= m
    <3>1. wrong \in SUBSET Nat BY <1>2
    <3> HIDE DEF wrong
    <3>2. QED BY <2>1, <3>1, LeastIn
  <2>3. CASE n = 0
    <3>1. after[0] = NoValues /\ given[0] = NoValues
      <4>1. step(after, 0) = NoValues /\ step(given, 0) = NoValues /\ 0 \in 0 .. Len(entries)
        BY <1>2
      <4> HIDE DEF step, given
      <4>2. QED BY <1>3, <1>4, <4>1
    <3>2. QED BY <2>2, <2>3, <3>1
  <2>4. CASE n # 0
    <3>1. n - 1 \in 0 .. Len(entries) /\ ~(n <= n - 1) BY <1>2, <2>2, <2>4
    <3>2. after[n - 1] = given[n - 1] BY <2>2, <3>1
    <3>3. step(after, n) = step(given, n)
      <4> HIDE DEF given
      <4>1. QED BY <3>2
    <3>4. after[n] = step(after, n) /\ given[n] = step(given, n)
      <4> HIDE DEF step, given
      <4>1. QED BY <1>3, <1>4, <2>2
    <3>5. QED BY <2>2, <3>3, <3>4
  <2>5. QED BY <2>3, <2>4
<1>6. QED BY <1>1, <1>2, <1>5

(* An entry the checks let through asks for a value its field can have.    *)
LEMMA ChecksFindPossible ==
  ASSUME form \in Forms, NEW e \in Entries,
         e.field_id \in DOMAIN get_field_info(form),
         get_field_info(form)[e.field_id].of.type # "checkbox of unknown states",
         ~validation_error_for_field_value(get_field_info(form)[e.field_id].of, e.value)
  PROVE  e.field_id \in DOMAIN form.fields /\ Possible(e.field_id, e.value)
<1> DEFINE id == e.field_id
           field == form.fields[id]
           of == get_field_info(form)[id].of
           widgets == {w \in DOMAIN form.widgets : form.widgets[w].id = id}
           radio == {w \in widgets : Cardinality(form.widgets[w].on) = 1}
           single == id \in DOMAIN form.fields /\ ~field.kids /\ widgets # {}
           radios == id \in DOMAIN form.fields /\ field.kids /\ field.ft = "Btn" /\ radio # {}
           buttons == [type |-> "radio_group",
                       values |-> UNION {form.widgets[w].on : w \in radio}]
<1>1. /\ single \/ radios
      /\ of = IF single THEN make_field_dict(field) ELSE buttons
  BY DEF get_field_info
<1>0. /\ of.type # "checkbox of unknown states"
      /\ of.type \in {"checkbox", "radio_group", "choice"} => e.value \in of.values
  BY DEF validation_error_for_field_value
<1> HIDE DEF of
<1>2. CASE single
  <2>1. of = make_field_dict(field) /\ ~field.kids BY <1>1, <1>2
  <2>2. ASSUME field.ft = "Ch" PROVE e.value \in field.states
    <3>1. of = [type |-> "choice", values |-> field.states] BY <2>1, <2>2 DEF make_field_dict
    <3>2. QED BY <1>0, <3>1
  <2>3. ASSUME field.ft = "Btn" PROVE e.value \in field.states
    <3>1. of = [type |-> IF Cardinality(field.states) = 2
                         THEN "checkbox" ELSE "checkbox of unknown states",
                values |-> field.states]
      BY <2>1, <2>3 DEF make_field_dict
    <3>2. QED BY <1>0, <3>1
  <2>4. QED BY <1>2, <2>1, <2>2, <2>3 DEF Possible
<1>3. CASE radios /\ ~single
  <2>1. of = buttons BY <1>1, <1>3
  <2>2. e.value \in UNION {form.widgets[w].on : w \in radio}
    BY <1>0, <2>1
  <2>3. PICK w \in radio : e.value \in form.widgets[w].on BY <2>2
  <2>4. \E v : form.widgets[w].on = {v}
    <3>1. IsFiniteSet(form.widgets[w].on) BY <2>3, FormAssumption
    <3>2. Cardinality(form.widgets[w].on) = 1 BY <2>3
    <3>3. QED BY <3>1, <3>2, FS_Singleton
  <2>5. form.widgets[w].on = {e.value} BY <2>3, <2>4
  <2>6. QED BY <1>3, <2>3, <2>5 DEF Possible
<1>4. QED BY <1>1, <1>2, <1>3

(* The entries of an answer file that have a value.                        *)
GivenOf(entries) == {j \in DOMAIN entries : IsGiven(entries[j])}

LEMMA FilledIsWhole ==
  ASSUME form' = form, verdict' # "refused",
         DOMAIN filled' = {askedFor'[i].field_id : i \in GivenOf(askedFor')},
         \A id \in DOMAIN filled' :
           /\ id \in DOMAIN form.fields /\ Possible(id, filled'[id])
           /\ \E i \in DOMAIN askedFor' :
                /\ AsksFor(askedFor'[i], id) /\ askedFor'[i].value = filled'[id]
                /\ \A j \in i + 1 .. Len(askedFor') : ~AsksFor(askedFor'[j], id)
  PROVE  FormIsFilledWhole'
<1>1. \A id, value : Possible(id, value) =>
        LET field == form'.fields[id]
        IN  IF field.kids
            THEN \E w \in DOMAIN form'.widgets :
                   form'.widgets[w].id = id /\ form'.widgets[w].on = {value}
            ELSE field.ft \in {"Btn", "Ch"} => value \in field.states
  BY Zenon DEF Possible
<1>2. QED BY <1>1 DEF FormIsFilledWhole, Possible, GivenOf

LEMMA FilledStays ==
  ASSUME FormIsFilledWhole, UNCHANGED <<form, filled, askedFor, verdict>>
  PROVE  FormIsFilledWhole'
<1>1. form' = form /\ filled' = filled /\ askedFor' = askedFor /\ verdict' = verdict OBVIOUS
<1>2. CASE verdict = "written"
  <2>1. \A id \in DOMAIN filled : Possible(id, filled[id]) BY <1>2 DEF FormIsFilledWhole
  <2>2. (\A id \in DOMAIN filled : Possible(id, filled[id]))' BY <1>1, <2>1 DEF Possible
  <2>3. /\ DOMAIN filled = {askedFor[i].field_id : i \in GivenOf(askedFor)}
        /\ \A id \in DOMAIN filled :
             /\ id \in DOMAIN form.fields
             /\ \E i \in DOMAIN askedFor :
                  /\ AsksFor(askedFor[i], id) /\ askedFor[i].value = filled[id]
                  /\ \A j \in i + 1 .. Len(askedFor) : ~AsksFor(askedFor[j], id)
    BY <1>2 DEF FormIsFilledWhole, GivenOf
  <2>4. verdict' # "refused" BY <1>1, <1>2
  <2>5. QED BY SMTT(20), <1>1, <2>2, <2>3, <2>4 DEF FormIsFilledWhole, GivenOf
<1>3. CASE verdict # "written" BY <1>1, <1>3 DEF FormIsFilledWhole
<1>4. QED BY <1>2, <1>3

LEMMA FillsWhole ==
  ASSUME form \in Forms, fill_pdf_fields
  PROVE  FormIsFilledWhole'
<1> DEFINE info == get_field_info(form)
           wrong(e) == \/ e.field_id \notin DOMAIN info
                       \/ e.page # info[e.field_id].page
                       \/ /\ IsGiven(e)
                          /\ \/ info[e.field_id].of.type = "checkbox of unknown states"
                             \/ validation_error_for_field_value(info[e.field_id].of, e.value)
           ok == \A i \in DOMAIN askedFor' : ~wrong(askedFor'[i])
<1>1. /\ verdict' = IF ok THEN "written" ELSE "refused"
      /\ filled' = IF ok THEN ValuesOf(askedFor') ELSE NoValues
      /\ form' = form
  BY DEF fill_pdf_fields
<1>2. PICK n \in 0 .. MaxEntries : askedFor' \in [1 .. n -> Entries]
  BY DEF fill_pdf_fields
<1>3. /\ n \in Nat /\ askedFor' \in Seq(Entries)
      /\ Len(askedFor') = n /\ DOMAIN askedFor' = 1 .. n
  <2>1. n \in Nat BY FormAssumption
  <2>2. QED BY <1>2, <2>1
<1>4. CASE ok
  <2>1. filled' = Written(askedFor', n) BY <1>1, <1>3, <1>4, LaterEntriesWin
  <2>2. DOMAIN filled' = AskedIn(askedFor', n) BY <2>1 DEF Written
  <2>3. ASSUME NEW id \in AskedIn(askedFor', n)
        PROVE  /\ id \in DOMAIN form.fields /\ Possible(id, filled'[id])
               /\ \E i \in DOMAIN askedFor' :
                    /\ AsksFor(askedFor'[i], id) /\ askedFor'[i].value = filled'[id]
                    /\ \A j \in i + 1 .. Len(askedFor') : ~AsksFor(askedFor'[j], id)
    <3> DEFINE i == LastFor(askedFor', n, id)
    <3>1. IsLast(askedFor', n, id, i) BY <1>3, <2>3, LastIsFound
    <3>2. filled'[id] = askedFor'[i].value BY <2>1, <2>3 DEF Written
    <3> HIDE DEF i
    <3>3. i \in DOMAIN askedFor' /\ askedFor'[i] \in Entries /\ ~wrong(askedFor'[i])
      BY <1>2, <1>3, <1>4, <3>1 DEF IsLast
    <3>4. /\ AsksFor(askedFor'[i], id)
          /\ \A j \in i + 1 .. n : ~AsksFor(askedFor'[j], id)
      BY <3>1 DEF IsLast
    <3>5. id \in DOMAIN form.fields /\ Possible(id, askedFor'[i].value)
      BY <3>3, <3>4, ChecksFindPossible DEF AsksFor
    <3>6. QED BY <1>3, <3>2, <3>3, <3>4, <3>5
  <2>4. AskedIn(askedFor', n) = {askedFor'[i].field_id : i \in GivenOf(askedFor')}
    BY <1>3 DEF AskedIn, GivenIn, GivenOf
  <2>5. verdict' # "refused" BY <1>1, <1>4
  <2> HIDE DEF ok, info
  <2>6. QED BY <1>1, <2>2, <2>3, <2>4, <2>5, FilledIsWhole
<1>5. CASE ~ok
  <2>1. verdict' = "refused" /\ filled' = NoValues BY <1>1, <1>5
  <2>2. QED BY <2>1 DEF FormIsFilledWhole
<1>6. QED BY <1>4, <1>5

-----------------------------------------------------------------------------
(* Boxes and texts.                                                        *)

(* The two ways of putting texts into boxes.                               *)
InPdf == [i \in DOMAIN boxes |-> transform_from_pdf_coords(boxes[i].entry)]
InImage(scale) == [i \in DOMAIN boxes |-> transform_from_image_coords(boxes[i].entry, scale)]

EntriesApart ==
  \A i, j \in DOMAIN boxes : i # j => ~rects_intersect(boxes[i].entry, boxes[j].entry)

FormInv ==
  /\ form \in Forms
  /\ FormIsFilledWhole
  /\ checked \in BOOLEAN
  /\ boxes = <<>> \/ boxes \in [1 .. 2 -> [label : Labels, entry : Box, size : {1, 2}]]
  /\ checked => EntriesApart
  /\ texts \in {<<>>, InPdf} \cup {InImage(scale) : scale \in Scales}
  /\ boxes = <<>> => texts = <<>> /\ ~checked

LEMMA ScalesKeepOrder ==
  ASSUME NEW m \in Int, NEW n \in Int, NEW s \in Nat \ {0}
  PROVE  (m <= n => m * s <= n * s) /\ (m < n => m * s < n * s)
<1>1. s >= 1 /\ s \in Int OBVIOUS
<1>2. n * s = m * s + (n - m) * s OBVIOUS
<1>3. ASSUME NEW d \in Int PROVE (d >= 0 => d * s >= 0) /\ (d > 0 => d * s > 0)
  BY <1>1
<1>4. n - m \in Int /\ m * s \in Int /\ n * s \in Int /\ (n - m) * s \in Int OBVIOUS
<1>5. ((n - m) >= 0 => (n - m) * s >= 0) /\ ((n - m) > 0 => (n - m) * s > 0) BY <1>3, <1>4
<1>6. QED BY <1>2, <1>4, <1>5

LEMMA BoxIsOnSheet ==
  ASSUME NEW b \in Box
  PROVE  /\ Sheet.height \in Int
         /\ b[1] \in Int /\ b[2] \in Int /\ b[3] \in Int /\ b[4] \in Int
         /\ b[1] < b[3] /\ b[2] < b[4] /\ b[4] <= Sheet.height
<1>1. b[1] \in Grid /\ b[2] \in Grid /\ b[3] \in Grid /\ b[4] \in Grid
      /\ b[1] < b[3] /\ b[2] < b[4]
  BY DEF Box
<1>2. Sheet.height \in Nat /\ \A g \in Grid : g \in 0 .. Sheet.height BY FormAssumption
<1>3. QED BY <1>1, <1>2

(* A text stands upright on the page, and apart from another if its box is.*)
LEMMA TextIsPlaced ==
  ASSUME NEW r \in Box, NEW s \in Box, NEW x \in Nat \ {0}, NEW y \in Nat \ {0},
         NEW R, R = <<r[1] * x, Sheet.height * y - r[4] * y, r[3] * x, Sheet.height * y - r[2] * y>>,
         NEW S, S = <<s[1] * x, Sheet.height * y - s[4] * y, s[3] * x, Sheet.height * y - s[2] * y>>
  PROVE  /\ R[1] < R[3] /\ 0 <= R[2] /\ R[2] < R[4]
         /\ ~rects_intersect(r, s) => ~Overlap(R, S)
<1>1. /\ Sheet.height \in Int
      /\ r[1] \in Int /\ r[2] \in Int /\ r[3] \in Int /\ r[4] \in Int
      /\ s[1] \in Int /\ s[2] \in Int /\ s[3] \in Int /\ s[4] \in Int
      /\ r[1] < r[3] /\ r[2] < r[4] /\ r[4] <= Sheet.height
  BY BoxIsOnSheet
<1>2. ASSUME NEW t \in {x, y}, NEW m \in Int, NEW n \in Int
      PROVE  m * t \in Int /\ (m <= n => m * t <= n * t) /\ (m < n => m * t < n * t)
  BY ScalesKeepOrder
<1>3. R[1] < R[3] /\ 0 <= R[2] /\ R[2] < R[4]
  <2>1. r[1] * x < r[3] * x /\ r[2] * y < r[4] * y /\ r[4] * y <= Sheet.height * y
    BY <1>1, <1>2
  <2>2. {r[4] * y, r[2] * y, Sheet.height * y} \subseteq Int BY <1>1, <1>2
  <2>3. QED BY <2>1, <2>2
<1>4. ASSUME ~rects_intersect(r, s) PROVE ~Overlap(R, S)
  <2>1. r[1] >= s[3] \/ r[3] <= s[1] \/ r[2] >= s[4] \/ r[4] <= s[2]
    BY <1>4 DEF rects_intersect
  <2>2. \/ s[3] * x <= r[1] * x \/ r[3] * x <= s[1] * x
        \/ s[4] * y <= r[2] * y \/ r[4] * y <= s[2] * y
    BY <1>1, <1>2, <2>1
  <2>3. /\ {s[3] * x, r[1] * x, r[3] * x, s[1] * x} \subseteq Int
        /\ {s[4] * y, r[2] * y, r[4] * y, s[2] * y, Sheet.height * y} \subseteq Int
    BY <1>1, <1>2
  <2>4. QED BY <2>2, <2>3 DEF Overlap
<1>5. QED BY <1>3, <1>4

LEMMA FormInvSuffices == FormInv => CheckedBoxesStayApart
<1> SUFFICES ASSUME FormInv, checked, NEW i \in DOMAIN texts, NEW j \in DOMAIN texts
             PROVE  /\ i # j => ~Overlap(texts[i], texts[j])
                    /\ texts[i][1] < texts[i][3] /\ 0 <= texts[i][2] /\ texts[i][2] < texts[i][4]
  BY DEF CheckedBoxesStayApart
<1>1. boxes \in [1 .. 2 -> [label : Labels, entry : Box, size : {1, 2}]] /\ EntriesApart
  BY DEF FormInv
<1> DEFINE r == boxes[i].entry
           s == boxes[j].entry
<1>2. texts # <<>> OBVIOUS
<1>3. CASE texts = InPdf
  <2>1. i \in DOMAIN boxes /\ j \in DOMAIN boxes BY <1>3 DEF InPdf
  <2>2. r \in Box /\ s \in Box BY <1>1, <2>1
  <2>3. /\ Sheet.height \in Int
        /\ r[1] \in Int /\ r[2] \in Int /\ r[3] \in Int /\ r[4] \in Int
        /\ s[1] \in Int /\ s[2] \in Int /\ s[3] \in Int /\ s[4] \in Int
    BY <2>2, BoxIsOnSheet
  <2>4. texts[i] = <<r[1], Sheet.height - r[4], r[3], Sheet.height - r[2]>>
        /\ texts[j] = <<s[1], Sheet.height - s[4], s[3], Sheet.height - s[2]>>
    BY <1>3, <2>1 DEF InPdf, transform_from_pdf_coords
  <2> HIDE DEF r, s
  <2>5. texts[i] = <<r[1] * 1, Sheet.height * 1 - r[4] * 1, r[3] * 1, Sheet.height * 1 - r[2] * 1>>
        /\ texts[j] = <<s[1] * 1, Sheet.height * 1 - s[4] * 1, s[3] * 1, Sheet.height * 1 - s[2] * 1>>
    BY <2>3, <2>4
  <2>6. 1 \in Nat \ {0} OBVIOUS
  <2>7. /\ texts[i][1] < texts[i][3] /\ 0 <= texts[i][2] /\ texts[i][2] < texts[i][4]
        /\ ~rects_intersect(r, s) => ~Overlap(texts[i], texts[j])
    BY <2>2, <2>5, <2>6, TextIsPlaced
  <2>8. i # j => ~rects_intersect(r, s) BY <1>1, <2>1 DEF EntriesApart, r, s
  <2>9. QED BY <2>7, <2>8
<1>4. ASSUME NEW scale \in Scales, texts = InImage(scale)
      PROVE  /\ i # j => ~Overlap(texts[i], texts[j])
             /\ texts[i][1] < texts[i][3] /\ 0 <= texts[i][2] /\ texts[i][2] < texts[i][4]
  <2>1. i \in DOMAIN boxes /\ j \in DOMAIN boxes BY <1>4 DEF InImage
  <2>2. r \in Box /\ s \in Box BY <1>1, <2>1
  <2>3. scale.x \in Nat \ {0} /\ scale.y \in Nat \ {0} BY FormAssumption
  <2> DEFINE h == Sheet.height * scale.y
  <2>4. texts[i] = <<r[1] * scale.x, h - r[4] * scale.y, r[3] * scale.x, h - r[2] * scale.y>>
        /\ texts[j] = <<s[1] * scale.x, h - s[4] * scale.y, s[3] * scale.x, h - s[2] * scale.y>>
    BY <1>4, <2>1 DEF InImage, transform_from_image_coords
  <2> HIDE DEF r, s
  <2>5. /\ texts[i][1] < texts[i][3] /\ 0 <= texts[i][2] /\ texts[i][2] < texts[i][4]
        /\ ~rects_intersect(r, s) => ~Overlap(texts[i], texts[j])
    BY <2>2, <2>3, <2>4, TextIsPlaced
  <2>6. i # j => ~rects_intersect(r, s) BY <1>1, <2>1 DEF EntriesApart, r, s
  <2>7. QED BY <2>5, <2>6
<1>5. QED BY <1>2, <1>3, <1>4 DEF FormInv

LEMMA FormInitHolds == FormInit => FormInv
BY DEF FormInit, FormInv, FormIsFilledWhole

LEMMA FormNextHolds == FormInv /\ [FormNext]_formVars => FormInv'
<1> SUFFICES ASSUME FormInv, [FormNext]_formVars PROVE FormInv' OBVIOUS
<1>1. CASE fill_pdf_fields
  <2>1. FormIsFilledWhole' BY <1>1, FillsWhole DEF FormInv
  <2>2. UNCHANGED <<form, boxes, checked, texts>> BY <1>1 DEF fill_pdf_fields
  <2>3. QED BY <2>1, <2>2 DEF FormInv, EntriesApart, InPdf, InImage
<1>2. CASE DrawsBoxes
  <2>1. /\ boxes' \in [1 .. 2 -> [label : Labels, entry : Box, size : {1, 2}]]
        /\ UNCHANGED <<form, filled, askedFor, verdict, checked, texts>>
        /\ texts = <<>> /\ ~checked
    BY <1>2 DEF DrawsBoxes, FormInv
  <2>2. boxes' # <<>> BY <2>1
  <2>3. FormIsFilledWhole' BY <2>1, FilledStays DEF FormInv
  <2>4. QED BY <2>1, <2>2, <2>3 DEF FormInv
<1>3. CASE get_bounding_box_messages
  <2>1. /\ checked' \in BOOLEAN
        /\ checked' => EntriesApart
        /\ UNCHANGED <<form, filled, askedFor, verdict, boxes, texts>>
        /\ boxes # <<>>
    BY <1>3 DEF get_bounding_box_messages, EntriesApart
  <2>2. FormIsFilledWhole' BY <2>1, FilledStays DEF FormInv
  <2>3. QED BY <2>1, <2>2 DEF FormInv, EntriesApart, InPdf, InImage
<1>4. CASE fill_pdf_form
  <2>1. /\ texts' = InPdf \/ \E scale \in Scales : texts' = InImage(scale)
        /\ UNCHANGED <<form, filled, askedFor, verdict, boxes, checked>>
        /\ boxes # <<>>
    BY <1>4 DEF fill_pdf_form, InPdf, InImage
  <2>2. FormIsFilledWhole' BY <2>1, FilledStays DEF FormInv
  <2>3. QED BY <2>1, <2>2 DEF FormInv, EntriesApart, InPdf, InImage
<1>5. CASE UNCHANGED formVars
  <2>1. FormIsFilledWhole' BY <1>5, FilledStays DEF FormInv, formVars
  <2>2. QED BY <1>5, <2>1 DEF formVars, FormInv, EntriesApart, InPdf, InImage
<1>6. QED BY <1>1, <1>2, <1>3, <1>4, <1>5 DEF FormNext

(* For any forms, entries, boxes and scales, a form is filled whole or not *)
(* at all, with values its fields can have, and texts put into boxes that  *)
(* passed the check stand apart and on the page (skills/pdf/scripts).      *)
THEOREM FormsAreFilledRight == FormSpec => []FilledFormInv
<1>1. FormInv => FilledFormInv
  BY FormInvSuffices DEF FormInv, FilledFormInv
<1>2. QED BY <1>1, FormInitHolds, FormNextHolds, PTL DEF FormSpec

-----------------------------------------------------------------------------
(* What the arguments stand for is a sequence of files.                    *)

(* What one argument stands for. *)
LEMMA FilesOfType ==
  ASSUME NEW input \in Inputs
  PROVE  FilesOf(input) \in Seq(Files)
<1> DEFINE listed == Listing[input]
           N == Len(listed)
           S == Seq(Files)
           next(i, s) == IF input \in NamedFile \/ listed[i].name \in Included
                         THEN Append(s, listed[i]) ELSE s
           body(a, i) == IF i = 0 THEN <<>>
                         ELSE IF input \in NamedFile \/ listed[i].name \in Included
                         THEN Append(a[i - 1], listed[i]) ELSE a[i - 1]
           kept == CHOOSE a : a = [i \in 0 .. N |-> body(a, i)]
           pass == [i \in 1 .. N |-> [s \in S |-> next(i, s)]]
<1>1. FilesOf(input) = kept[N] BY DEF FilesOf
<1>2. listed \in Seq(Files) /\ N \in Nat /\ \A i \in 1 .. N : listed[i] \in Files
  BY DistillerAssumption, LenProperties, ElementOfSeq
<1> HIDE DEF listed, N
<1>3. \A i \in 1 .. N, s \in S : next(i, s) \in S BY <1>2, AppendProperties
<1>4. pass \in [1 .. N -> [S -> S]] BY <1>3
<1>5. <<>> \in S OBVIOUS
<1> HIDE DEF S, next
<1>6. PICK f : LoopStates(f, N, S, <<>>, pass)
  <2> HIDE DEF pass
  <2>1. QED BY <1>2, <1>4, <1>5, LoopComputes
<1>7. f = [i \in 0 .. N |-> body(f, i)]
  <2>1. ASSUME NEW i \in 1 .. N PROVE pass[i][f[i - 1]] = body(f, i)
    <3>1. f[i - 1] \in S /\ i # 0 BY <1>2, <1>6 DEF LoopStates
    <3>2. pass[i][f[i - 1]] = next(i, f[i - 1]) BY <3>1
    <3>3. QED BY <3>1, <3>2 DEF next
  <2>2. body(f, 0) = <<>> OBVIOUS
  <2> HIDE DEF body, pass
  <2>3. \A i \in 0 .. N : f[i] = body(f, i)
    <3>1. \A i \in 1 .. N : f[i] = body(f, i) BY <1>6, <2>1 DEF LoopStates
    <3>2. f[0] = body(f, 0) BY <1>6, <2>2 DEF LoopStates
    <3>3. \A i \in 0 .. N : i = 0 \/ i \in 1 .. N BY <1>2
    <3>4. QED BY <3>1, <3>2, <3>3
  <2>4. QED BY <1>6, <2>3 DEF LoopStates
<1>8. kept = [i \in 0 .. N |-> body(kept, i)]
  <2> HIDE DEF body
  <2>1. QED BY <1>7
<1> HIDE DEF kept, pass
<1>9. \A i \in 0 .. N : kept[i] \in S
  <2> DEFINE good == {k \in 0 .. N : kept[k] \in S}
  <2>1. 0 \in good BY <1>2, <1>5, <1>8
  <2>2. ASSUME NEW i \in 1 .. N, i - 1 \in good PROVE i \in good
    <3>1. i \in 0 .. N /\ i # 0 /\ kept[i] = body(kept, i)
      <4>1. i \in 0 .. N /\ i # 0 BY <1>2
      <4> HIDE DEF body
      <4>2. QED BY <4>1, <1>8
    <3>2. body(kept, i) = next(i, kept[i - 1]) BY <3>1 DEF next
    <3>3. QED BY <1>3, <2>2, <3>1, <3>2
  <2>3. \A i \in 0 .. N : i \in good
    <3> HIDE DEF good
    <3>1. QED BY <1>2, <2>1, <2>2, LoopKeeps
  <2>4. QED BY <2>3
<1>10. QED BY <1>1, <1>2, <1>9 DEF S

(* What all arguments stand for. *)
LEMMA AllFilesType ==
  ASSUME NEW inputs \in Seq(Inputs)
  PROVE  AllFiles(inputs) \in Seq(Files)
<1> DEFINE N == Len(inputs)
           S == Seq(Files)
           next(i, s) == s \o FilesOf(inputs[i])
           body(a, i) == IF i = 0 THEN <<>> ELSE a[i - 1] \o FilesOf(inputs[i])
           found == CHOOSE a : a = [i \in 0 .. N |-> body(a, i)]
           pass == [i \in 1 .. N |-> [s \in S |-> next(i, s)]]
<1>1. AllFiles(inputs) = found[N] BY DEF AllFiles
<1>2. N \in Nat /\ \A i \in 1 .. N : FilesOf(inputs[i]) \in Seq(Files)
  BY FilesOfType, LenProperties, ElementOfSeq
<1> HIDE DEF N
<1>3. \A i \in 1 .. N, s \in S : next(i, s) \in S BY <1>2, ConcatProperties
<1>4. pass \in [1 .. N -> [S -> S]] BY <1>3
<1>5. <<>> \in S OBVIOUS
<1> HIDE DEF S, next
<1>6. PICK f : LoopStates(f, N, S, <<>>, pass)
  <2> HIDE DEF pass
  <2>1. QED BY <1>2, <1>4, <1>5, LoopComputes
<1>7. f = [i \in 0 .. N |-> body(f, i)]
  <2>1. ASSUME NEW i \in 1 .. N PROVE pass[i][f[i - 1]] = body(f, i)
    <3>1. f[i - 1] \in S /\ i # 0 BY <1>2, <1>6 DEF LoopStates
    <3>2. pass[i][f[i - 1]] = next(i, f[i - 1]) BY <3>1
    <3>3. QED BY <3>1, <3>2 DEF next
  <2>2. body(f, 0) = <<>> OBVIOUS
  <2> HIDE DEF body, pass
  <2>3. \A i \in 0 .. N : f[i] = body(f, i)
    <3>1. \A i \in 1 .. N : f[i] = body(f, i) BY <1>6, <2>1 DEF LoopStates
    <3>2. f[0] = body(f, 0) BY <1>6, <2>2 DEF LoopStates
    <3>3. \A i \in 0 .. N : i = 0 \/ i \in 1 .. N BY <1>2
    <3>4. QED BY <3>1, <3>2, <3>3
  <2>4. QED BY <1>6, <2>3 DEF LoopStates
<1>8. found = [i \in 0 .. N |-> body(found, i)]
  <2> HIDE DEF body
  <2>1. QED BY <1>7
<1> HIDE DEF found, pass
<1>9. \A i \in 0 .. N : found[i] \in S
  <2> DEFINE good == {k \in 0 .. N : found[k] \in S}
  <2>1. 0 \in good BY <1>2, <1>5, <1>8
  <2>2. ASSUME NEW i \in 1 .. N, i - 1 \in good PROVE i \in good
    <3>1. i \in 0 .. N /\ i # 0 /\ found[i] = body(found, i)
      <4>1. i \in 0 .. N /\ i # 0 BY <1>2
      <4> HIDE DEF body
      <4>2. QED BY <4>1, <1>8
    <3>2. body(found, i) = next(i, found[i - 1]) BY <3>1 DEF next
    <3>3. QED BY <1>3, <2>2, <3>1, <3>2
  <2>3. \A i \in 0 .. N : i \in good
    <3> HIDE DEF good
    <3>1. QED BY <1>2, <2>1, <2>2, LoopKeeps
  <2>4. QED BY <2>3
<1>10. QED BY <1>1, <1>2, <1>9 DEF S

(* The same without those that came before. *)
LEMMA SourcesType ==
  ASSUME NEW inputs \in Seq(Inputs)
  PROVE  resolve_inputs(inputs) \in Seq(Files)
<1> DEFINE files == AllFiles(inputs)
           N == Len(files)
           S == Seq(Files)
           next(i, s) == IF files[i] \in ToSet(s) THEN s ELSE Append(s, files[i])
           body(a, i) == IF i = 0 THEN <<>>
                         ELSE IF files[i] \in ToSet(a[i - 1]) THEN a[i - 1]
                         ELSE Append(a[i - 1], files[i])
           deduped == CHOOSE a : a = [i \in 0 .. N |-> body(a, i)]
           pass == [i \in 1 .. N |-> [s \in S |-> next(i, s)]]
<1>1. resolve_inputs(inputs) = deduped[N] BY DEF resolve_inputs
<1>2. files \in Seq(Files) /\ N \in Nat /\ \A i \in 1 .. N : files[i] \in Files
  BY AllFilesType, LenProperties, ElementOfSeq
<1> HIDE DEF files, N
<1>3. \A i \in 1 .. N, s \in S : next(i, s) \in S BY <1>2, AppendProperties
<1>4. pass \in [1 .. N -> [S -> S]] BY <1>3
<1>5. <<>> \in S OBVIOUS
<1> HIDE DEF S, next
<1>6. PICK f : LoopStates(f, N, S, <<>>, pass)
  <2> HIDE DEF pass
  <2>1. QED BY <1>2, <1>4, <1>5, LoopComputes
<1>7. f = [i \in 0 .. N |-> body(f, i)]
  <2>1. ASSUME NEW i \in 1 .. N PROVE pass[i][f[i - 1]] = body(f, i)
    <3>1. f[i - 1] \in S /\ i # 0 BY <1>2, <1>6 DEF LoopStates
    <3>2. pass[i][f[i - 1]] = next(i, f[i - 1]) BY <3>1
    <3>3. QED BY <3>1, <3>2 DEF next
  <2>2. body(f, 0) = <<>> OBVIOUS
  <2> HIDE DEF body, pass
  <2>3. \A i \in 0 .. N : f[i] = body(f, i)
    <3>1. \A i \in 1 .. N : f[i] = body(f, i) BY <1>6, <2>1 DEF LoopStates
    <3>2. f[0] = body(f, 0) BY <1>6, <2>2 DEF LoopStates
    <3>3. \A i \in 0 .. N : i = 0 \/ i \in 1 .. N BY <1>2
    <3>4. QED BY <3>1, <3>2, <3>3
  <2>4. QED BY <1>6, <2>3 DEF LoopStates
<1>8. deduped = [i \in 0 .. N |-> body(deduped, i)]
  <2> HIDE DEF body
  <2>1. QED BY <1>7
<1> HIDE DEF deduped, pass
<1>9. \A i \in 0 .. N : deduped[i] \in S
  <2> DEFINE good == {k \in 0 .. N : deduped[k] \in S}
  <2>1. 0 \in good BY <1>2, <1>5, <1>8
  <2>2. ASSUME NEW i \in 1 .. N, i - 1 \in good PROVE i \in good
    <3>1. i \in 0 .. N /\ i # 0 /\ deduped[i] = body(deduped, i)
      <4>1. i \in 0 .. N /\ i # 0 BY <1>2
      <4> HIDE DEF body
      <4>2. QED BY <4>1, <1>8
    <3>2. body(deduped, i) = next(i, deduped[i - 1]) BY <3>1 DEF next
    <3>3. QED BY <1>3, <2>2, <3>1, <3>2
  <2>3. \A i \in 0 .. N : i \in good
    <3> HIDE DEF good
    <3>1. QED BY <1>2, <2>1, <2>2, LoopKeeps
  <2>4. QED BY <2>3
<1>10. QED BY <1>1, <1>2, <1>9 DEF S

-----------------------------------------------------------------------------
(* How they group.                                                         *)

GroupState(files) ==
  LET found == ToSet(files)
      names == {f.name : f \in found} \cup {Companion[f.name] : f \in found}
  IN  [groups : UNION {[keys -> SUBSET found] : keys \in SUBSET names},
       assigned : SUBSET names, ungrouped : SUBSET found]

(* With the first n files seen, among files of distinct names: a group is  *)
(* opened by a companion of its document and holds nothing else but that   *)
(* document, which is in a group once one is open for it; the names        *)
(* assigned are those of the groups' files; what was seen is assigned or   *)
(* kept, and only documents are kept.                                      *)
GroupsInv(files, n, s) ==
  /\ s \in GroupState(files)
  /\ \A k \in DOMAIN s.groups :
       /\ \E c \in ToSet(files) : IsCompanion(c.name) /\ Companion[c.name] = k
       /\ \A f \in s.groups[k] :
            f.name = k \/ (IsCompanion(f.name) /\ Companion[f.name] = k)
       /\ \A l \in DOMAIN s.groups : s.groups[k] \cap s.groups[l] # {} => k = l
  /\ \A f \in ToSet(files) :
       /\ f.name \in s.assigned <=> \E k \in DOMAIN s.groups : f \in s.groups[k]
       /\ f.name \in DOMAIN s.groups => f.name \in s.assigned
  /\ \A u \in s.ungrouped : ~IsCompanion(u.name)
  /\ \A i \in 1 .. n : files[i] \in s.ungrouped \/ files[i].name \in s.assigned

LEMMA SameNameSameFile ==
  ASSUME NEW files, DistinctNames(files), NEW f \in ToSet(files), NEW g \in ToSet(files),
         f.name = g.name
  PROVE  f = g
  BY DEF DistinctNames, ToSet

(* file_map *)
LEMMA NamedType ==
  ASSUME NEW files, NEW name
  PROVE  \A f \in Named(files, name) : f \in ToSet(files) /\ f.name = name
  BY DEF Named, ToSet

LEMMA NamedIsFound ==
  ASSUME NEW files \in Seq(Files), DistinctNames(files), NEW f \in ToSet(files)
  PROVE  f \in Named(files, f.name)
<1>1. PICK i \in DOMAIN files : files[i] = f BY DEF ToSet
<1>2. i \in Nat BY LenProperties
<1>3. \A j \in DOMAIN files : files[j].name = f.name => j <= i
  BY <1>1, <1>2 DEF DistinctNames
<1>4. QED BY <1>1, <1>3 DEF Named

(* One pass of the loop, spelled out: it passes the file over, adds a      *)
(* companion to a group, or keeps a document for later.                    *)
Base(f) == Companion[f.name]

Primary(files, s, f) ==
  IF Base(f) \notin DOMAIN s.groups /\ Base(f) \notin s.assigned THEN Named(files, Base(f)) ELSE {}

Members(files, s, f) ==
  Primary(files, s, f) \cup {f} \cup (IF Base(f) \in DOMAIN s.groups THEN s.groups[Base(f)] ELSE {})

PassedOver(s, f, t) == t = s /\ (f.name \in s.assigned \/ f.name \in DOMAIN s.groups)

Joins(files, s, f, t) ==
  /\ f.name \notin s.assigned /\ IsCompanion(f.name)
  /\ t.groups = [k \in DOMAIN s.groups \cup {Base(f)} |->
                   IF k = Base(f) THEN Members(files, s, f) ELSE s.groups[k]]
  /\ t.assigned = s.assigned \cup {f.name} \cup {p.name : p \in Primary(files, s, f)}
  /\ t.ungrouped = s.ungrouped

KeptBack(s, f, t) ==
  /\ f.name \notin s.assigned /\ ~IsCompanion(f.name)
  /\ t.groups = s.groups /\ t.assigned = s.assigned
  /\ t.ungrouped = s.ungrouped \cup {f}

LEMMA GroupNextCases ==
  ASSUME NEW files, NEW s \in GroupState(files), NEW f \in ToSet(files)
  PROVE  /\ GroupNext(files, s, f) \in GroupState(files)
         /\ \/ PassedOver(s, f, GroupNext(files, s, f))
            \/ Joins(files, s, f, GroupNext(files, s, f))
            \/ KeptBack(s, f, GroupNext(files, s, f))
<1> DEFINE t == GroupNext(files, s, f)
           base == Base(f)
           primary == Primary(files, s, f)
           members == Members(files, s, f)
           found == ToSet(files)
           names == {g.name : g \in found} \cup {Companion[g.name] : g \in found}
           kept == UNION {[keys -> SUBSET found] : keys \in SUBSET names}
           State == [groups : kept, assigned : SUBSET names, ungrouped : SUBSET found]
           grown == [k \in DOMAIN s.groups \cup {base} |->
                       IF k = base THEN members ELSE s.groups[k]]
           more == s.assigned \cup {f.name} \cup {p.name : p \in primary}
           joined == [s EXCEPT !.groups = grown, !.assigned = more]
           later == [s EXCEPT !.ungrouped = @ \cup {f}]
<1>1. GroupState(files) = State BY DEF GroupState
<1>2. PICK keys \in SUBSET names : s.groups \in [keys -> SUBSET found]
  BY <1>1
<1>3. base \in names /\ f.name \in names BY DEF Base
<1>4. primary \subseteq found /\ \A p \in primary : p.name = base
  BY NamedType DEF Primary
<1>5. t = IF f.name \in s.assigned THEN s
          ELSE IF IsCompanion(f.name) THEN joined
          ELSE IF f.name \in DOMAIN s.groups THEN s ELSE later
  <2>1. members = primary \cup {f} \cup
                    (IF base \notin DOMAIN s.groups THEN {} ELSE s.groups[base])
    BY DEF Members
  <2> HIDE DEF members
  <2>2. QED BY <2>1 DEF GroupNext, Primary, Base
<1> HIDE DEF found, names
<1>6. f \in found BY DEF found
<1>7. members \in SUBSET found BY <1>2, <1>4, <1>6 DEF Members
<1>8. grown \in [keys \cup {base} -> SUBSET found]
  <2> HIDE DEF members, base
  <2>1. QED BY <1>2, <1>7
<1>9. grown \in kept
  <2> HIDE DEF grown, base
  <2>1. keys \cup {base} \in SUBSET names BY <1>3
  <2>2. QED BY <1>8, <2>1
<1>10. s \in State BY <1>1
<1>11. more \in SUBSET names
  <2> HIDE DEF primary, base
  <2>1. QED BY <1>3, <1>4, <1>10
<1> HIDE DEF kept, grown, more
<1>12. joined \in State BY <1>9, <1>10, <1>11
<1>13. later \in State BY <1>6, <1>10
<1>14. /\ joined.groups = grown /\ joined.ungrouped = s.ungrouped /\ joined.assigned = more
       /\ later.groups = s.groups /\ later.assigned = s.assigned
       /\ later.ungrouped = s.ungrouped \cup {f}
  BY <1>10
<1> HIDE DEF joined, later, State, t
<1>15. t \in GroupState(files) BY <1>1, <1>5, <1>10, <1>12, <1>13
<1>16. CASE f.name \in s.assigned
  <2>1. PassedOver(s, f, t) BY <1>5, <1>16 DEF PassedOver
  <2>2. QED BY <1>15, <2>1 DEF t
<1>17. CASE f.name \notin s.assigned /\ IsCompanion(f.name)
  <2>1. Joins(files, s, f, t) BY <1>5, <1>14, <1>17 DEF Joins, grown, more
  <2>2. QED BY <1>15, <2>1 DEF t
<1>18. CASE f.name \notin s.assigned /\ ~IsCompanion(f.name)
  <2>1. CASE f.name \in DOMAIN s.groups
    <3>1. PassedOver(s, f, t) BY <1>5, <1>18, <2>1 DEF PassedOver
    <3>2. QED BY <1>15, <3>1 DEF t
  <2>2. CASE f.name \notin DOMAIN s.groups
    <3>1. KeptBack(s, f, t) BY <1>5, <1>14, <1>18, <2>2 DEF KeptBack
    <3>2. QED BY <1>15, <3>1 DEF t
  <2>3. QED BY <2>1, <2>2
<1>19. QED BY <1>16, <1>17, <1>18

(* A pass keeps the invariant.                                             *)
LEMMA GroupPassKeepsInv ==
  ASSUME NEW files \in Seq(Files), DistinctNames(files), NEW n \in 1 .. Len(files), NEW s,
         GroupsInv(files, n - 1, s)
  PROVE  GroupsInv(files, n, GroupNext(files, s, files[n]))
<1> DEFINE f == files[n]
           t == GroupNext(files, s, f)
           base == Base(f)
           opens == base \notin DOMAIN s.groups
           primary == Primary(files, s, f)
           members == Members(files, s, f)
<1>1. n \in DOMAIN files /\ f \in ToSet(files)
  BY LenProperties DEF ToSet
<1>2. s \in GroupState(files) BY DEF GroupsInv
<1>3. /\ t \in GroupState(files)
      /\ PassedOver(s, f, t) \/ Joins(files, s, f, t) \/ KeptBack(s, f, t)
  BY <1>1, <1>2, GroupNextCases
<1> DEFINE seen(u) == \A i \in 1 .. n : files[i] \in u.ungrouped \/ files[i].name \in u.assigned
<1>4. ASSUME NEW u, s.ungrouped \subseteq u.ungrouped, s.assigned \subseteq u.assigned,
             f \in u.ungrouped \/ f.name \in u.assigned
      PROVE  seen(u)
  <2>1. \A i \in 1 .. n - 1 : files[i] \in s.ungrouped \/ files[i].name \in s.assigned
    BY DEF GroupsInv
  <2>2. ASSUME NEW i \in 1 .. n PROVE files[i] \in u.ungrouped \/ files[i].name \in u.assigned
    <3>1. CASE i = n BY <1>4, <3>1
    <3>2. CASE i # n
      <4>1. i \in 1 .. n - 1 BY <3>2
      <4> HIDE DEF f
      <4>2. QED BY <1>4, <2>1, <4>1
    <3>3. QED BY <3>1, <3>2
  <2>3. QED BY <2>2
<1> HIDE DEF f, t, seen
<1>5. CASE PassedOver(s, f, t)
  <2>1. t = s /\ f.name \in s.assigned BY <1>1, <1>5 DEF GroupsInv, PassedOver
  <2>2. seen(s) BY <1>4, <2>1
  <2>3. GroupsInv(files, n, s) BY <2>2 DEF GroupsInv, seen
  <2>4. QED BY <2>1, <2>3 DEF t, f
<1>6. CASE KeptBack(s, f, t)
  <2>1. seen(t) BY <1>4, <1>6 DEF KeptBack
  <2>2. GroupsInv(files, n, t) BY <1>3, <1>6, <2>1 DEF GroupsInv, KeptBack, seen
  <2>3. QED BY <2>2 DEF t, f
<1>7. CASE Joins(files, s, f, t)
  <2>0. /\ f.name \notin s.assigned /\ IsCompanion(f.name)
        /\ t.groups = [k \in DOMAIN s.groups \cup {base} |->
                         IF k = base THEN members ELSE s.groups[k]]
        /\ t.assigned = s.assigned \cup {f.name} \cup {p.name : p \in primary}
        /\ t.ungrouped = s.ungrouped
    BY <1>7 DEF Joins
  <2>1. \A p \in primary : p \in ToSet(files) /\ p.name = base /\ base \notin s.assigned
    BY NamedType DEF Primary
  <2>2. opens => \A g \in ToSet(files) : g.name = base => g \in primary \/ g.name \in s.assigned
    BY NamedIsFound DEF Primary
  <2>3. DOMAIN t.groups = DOMAIN s.groups \cup {base} /\ t.groups[base] = members
        /\ \A k \in DOMAIN s.groups \ {base} : t.groups[k] = s.groups[k]
    BY <2>0
  <2>4. \A g \in members : g \in primary \/ g = f \/ (~opens /\ g \in s.groups[base])
    BY DEF Members
  <2>5. primary \subseteq members /\ f \in members /\ (~opens => s.groups[base] \subseteq members)
    BY DEF Members
  <2>6. \A g \in ToSet(files) : g.name \in {p.name : p \in primary} => g \in primary
    BY <2>1, SameNameSameFile
  <2> HIDE DEF members, primary, base
  <2>7. ASSUME NEW g \in ToSet(files), NEW k \in DOMAIN s.groups, g \in s.groups[k]
        PROVE  g.name \in s.assigned
    BY <2>7 DEF GroupsInv
  <2>8. \A k \in DOMAIN s.groups : s.groups[k] \subseteq ToSet(files)
    BY <1>2 DEF GroupState
  <2>9. ASSUME NEW k \in DOMAIN t.groups
        PROVE  /\ \E c \in ToSet(files) : IsCompanion(c.name) /\ Companion[c.name] = k
               /\ \A g \in t.groups[k] :
                    g.name = k \/ (IsCompanion(g.name) /\ Companion[g.name] = k)
    <3>1. CASE k = base
      <4>1. \A g \in members : g.name = k \/ (IsCompanion(g.name) /\ Companion[g.name] = k)
        BY <2>0, <2>1, <2>4, <3>1 DEF GroupsInv, base, Base
      <4>2. QED BY <1>1, <2>0, <2>3, <3>1, <4>1 DEF base, Base
    <3>2. CASE k # base BY <2>3, <3>2 DEF GroupsInv
    <3>3. QED BY <3>1, <3>2
  <2>10. ASSUME NEW k \in DOMAIN s.groups \ {base} PROVE t.groups[k] \cap members = {}
    <3>1. ASSUME NEW g \in s.groups[k], g \in members PROVE FALSE
      <4>1. g \in ToSet(files) /\ g.name \in s.assigned BY <2>7, <2>8
      <4>2. ~opens /\ g \in s.groups[base] BY <2>0, <2>1, <2>4, <3>1, <4>1
      <4>3. s.groups[k] \cap s.groups[base] # {} /\ base \in DOMAIN s.groups BY <4>2
      <4>4. QED BY <4>3 DEF GroupsInv
    <3>2. QED BY <2>3, <3>1
  <2>11. ASSUME NEW k \in DOMAIN t.groups, NEW l \in DOMAIN t.groups,
                t.groups[k] \cap t.groups[l] # {}
         PROVE  k = l
    <3>1. CASE k # base /\ l # base
      <4>1. s.groups[k] \cap s.groups[l] # {} /\ k \in DOMAIN s.groups /\ l \in DOMAIN s.groups
        BY <2>3, <2>11, <3>1
      <4>2. QED BY <4>1 DEF GroupsInv
    <3>2. CASE k = base /\ l # base BY <2>3, <2>10, <2>11, <3>2
    <3>3. CASE k # base /\ l = base BY <2>3, <2>10, <2>11, <3>3
    <3>4. QED BY <3>1, <3>2, <3>3
  <2>12. ASSUME NEW g \in ToSet(files)
         PROVE  g.name \in t.assigned <=> \E k \in DOMAIN t.groups : g \in t.groups[k]
    <3>1. ASSUME g.name \in s.assigned PROVE \E k \in DOMAIN t.groups : g \in t.groups[k]
      <4>1. PICK k \in DOMAIN s.groups : g \in s.groups[k] BY <3>1 DEF GroupsInv
      <4>2. QED BY <2>3, <2>5, <4>1
    <3>2. ASSUME g.name = f.name PROVE \E k \in DOMAIN t.groups : g \in t.groups[k]
      <4>1. g = f BY <1>1, <3>2, SameNameSameFile
      <4>2. QED BY <2>3, <2>5, <4>1
    <3>3. ASSUME g.name \in {p.name : p \in primary}
          PROVE  \E k \in DOMAIN t.groups : g \in t.groups[k]
      BY <2>3, <2>5, <2>6, <3>3
    <3>4. ASSUME NEW k \in DOMAIN t.groups, g \in t.groups[k] PROVE g.name \in t.assigned
      <4>1. CASE k # base BY <2>0, <2>3, <2>7, <3>4, <4>1
      <4>2. CASE k = base
        <5>1. g \in members BY <2>3, <3>4, <4>2
        <5>2. g \in primary \/ g = f \/ (~opens /\ g \in s.groups[base]) BY <2>4, <5>1
        <5>3. CASE ~opens /\ g \in s.groups[base] BY <2>0, <2>7, <5>3
        <5>4. QED BY <2>0, <5>2, <5>3
      <4>3. QED BY <4>1, <4>2
    <3>5. QED BY <2>0, <3>1, <3>2, <3>3, <3>4
  <2>13. ASSUME NEW g \in ToSet(files), g.name \in DOMAIN t.groups
         PROVE  g.name \in t.assigned
    <3>1. CASE g.name \in DOMAIN s.groups BY <2>0, <3>1 DEF GroupsInv
    <3>2. CASE g.name \notin DOMAIN s.groups
      <4>1. g.name = base /\ opens BY <2>3, <2>13, <3>2
      <4>2. g \in primary \/ g.name \in s.assigned BY <2>2, <4>1
      <4>3. QED BY <2>0, <4>2
    <3>3. QED BY <3>1, <3>2
  <2>14. seen(t) BY <1>4, <2>0
  <2>15. \A u \in t.ungrouped : ~IsCompanion(u.name) BY <2>0 DEF GroupsInv
  <2>16. GroupsInv(files, n, t)
    BY <1>3, <2>9, <2>11, <2>12, <2>13, <2>14, <2>15 DEF GroupsInv, seen
  <2>17. QED BY <2>16 DEF t, f
<1>8. QED BY <1>3, <1>5, <1>6, <1>7

LEMMA GroupsInvAtFirst ==
  ASSUME NEW files PROVE GroupsInv(files, 0, NoGroups)
<1> DEFINE names == {f.name : f \in ToSet(files)} \cup {Companion[f.name] : f \in ToSet(files)}
           none == [k \in {} |-> {}]
<1>1. none \in [{} -> SUBSET ToSet(files)] OBVIOUS
<1>2. none \in UNION {[keys -> SUBSET ToSet(files)] : keys \in SUBSET names} BY <1>1
<1>3. NoGroups \in GroupState(files) BY <1>2 DEF NoGroups, GroupState
<1>4. DOMAIN NoGroups.groups = {} /\ NoGroups.assigned = {} /\ NoGroups.ungrouped = {}
  BY DEF NoGroups
<1>5. QED BY <1>3, <1>4 DEF GroupsInv

(* After the loop the invariant holds of all files.                        *)
LEMMA GroupedInv ==
  ASSUME NEW files \in Seq(Files), DistinctNames(files)
  PROVE  GroupsInv(files, Len(files), Grouped(files))
<1> DEFINE N == Len(files)
           S == GroupState(files)
           body(a, i) == IF i = 0 THEN NoGroups ELSE GroupNext(files, a[i - 1], files[i])
           after == CHOOSE a : a = [i \in 0 .. N |-> body(a, i)]
           pass == [i \in 1 .. N |-> [s \in S |-> GroupNext(files, s, files[i])]]
<1>1. Grouped(files) = after[N] BY DEF Grouped
<1>2. N \in Nat /\ \A i \in 1 .. N : files[i] \in ToSet(files)
  BY LenProperties DEF ToSet
<1> HIDE DEF N, S
<1>3. pass \in [1 .. N -> [S -> S]]
  <2>1. \A i \in 1 .. N, s \in S : GroupNext(files, s, files[i]) \in S
    BY <1>2, GroupNextCases DEF S
  <2>2. QED BY <2>1
<1>4. NoGroups \in S BY GroupsInvAtFirst DEF GroupsInv, S
<1>5. PICK f : LoopStates(f, N, S, NoGroups, pass)
  <2> HIDE DEF pass
  <2>1. QED BY <1>2, <1>3, <1>4, LoopComputes
<1>6. f = [i \in 0 .. N |-> body(f, i)]
  <2>1. ASSUME NEW i \in 1 .. N PROVE pass[i][f[i - 1]] = body(f, i)
    <3>1. f[i - 1] \in S /\ i # 0 BY <1>2, <1>5 DEF LoopStates
    <3>2. QED BY <3>1
  <2>2. body(f, 0) = NoGroups OBVIOUS
  <2> HIDE DEF body, pass
  <2>3. \A i \in 0 .. N : f[i] = body(f, i)
    <3>1. \A i \in 1 .. N : f[i] = body(f, i) BY <1>5, <2>1 DEF LoopStates
    <3>2. f[0] = body(f, 0) BY <1>5, <2>2 DEF LoopStates
    <3>3. \A i \in 0 .. N : i = 0 \/ i \in 1 .. N BY <1>2
    <3>4. QED BY <3>1, <3>2, <3>3
  <2>4. QED BY <1>5, <2>3 DEF LoopStates
<1>7. after = [i \in 0 .. N |-> body(after, i)]
  <2> HIDE DEF body
  <2>1. QED BY <1>6
<1> HIDE DEF after, pass
<1>8. \A i \in 0 .. N : GroupsInv(files, i, after[i])
  <2> DEFINE good == {k \in 0 .. N : GroupsInv(files, k, after[k])}
  <2>1. 0 \in good
    <3>1. 0 \in 0 .. N /\ after[0] = NoGroups BY <1>2, <1>7
    <3>2. QED BY <3>1, GroupsInvAtFirst
  <2>2. ASSUME NEW i \in 1 .. N, i - 1 \in good PROVE i \in good
    <3>1. i \in 0 .. N /\ i # 0 BY <1>2
    <3>2. after[i] = GroupNext(files, after[i - 1], files[i])
      <4>1. after[i] = body(after, i)
        <5> HIDE DEF body
        <5>1. QED BY <1>7, <3>1
      <4>2. QED BY <3>1, <4>1
    <3>3. i \in 1 .. Len(files) BY DEF N
    <3>4. GroupsInv(files, i - 1, after[i - 1]) BY <2>2
    <3>5. QED BY <3>1, <3>2, <3>3, <3>4, GroupPassKeepsInv
  <2>3. \A i \in 0 .. N : i \in good
    <3> HIDE DEF good
    <3>1. QED BY <1>2, <2>1, <2>2, LoopKeeps
  <2>4. QED BY <2>3
<1>9. QED BY <1>1, <1>2, <1>8 DEF N

(* The groups put out cover the files as the property says.                *)
LEMMA GroupsCover ==
  ASSUME NEW files \in Seq(Files), DistinctNames(files)
  PROVE  /\ UNION suggest_groups(files) = ToSet(files)
         /\ \A g, h \in suggest_groups(files) : g \cap h # {} => g = h
         /\ \A f, b \in ToSet(files) :
              IsCompanion(f.name) /\ Companion[f.name] = b.name /\ ~IsCompanion(b.name)
                /\ (\A c \in ToSet(files) : Companion[c.name] # f.name \/ c = f)
              => \E g \in suggest_groups(files) : {f, b} \subseteq g
<1> DEFINE s == Grouped(files)
           alone == {u \in s.ungrouped : u.name \notin s.assigned}
           result == {s.groups[k] : k \in DOMAIN s.groups} \cup {{f} : f \in alone}
<1>1. GroupsInv(files, Len(files), s) BY GroupedInv
<1>2. suggest_groups(files) = result BY DEF suggest_groups
<1> HIDE DEF s
<1>3. s.ungrouped \subseteq ToSet(files)
      /\ \A k \in DOMAIN s.groups : s.groups[k] \subseteq ToSet(files)
  BY <1>1 DEF GroupsInv, GroupState
<1>4. ASSUME NEW f \in ToSet(files) PROVE f \in s.ungrouped \/ f.name \in s.assigned
  <2>1. PICK i \in DOMAIN files : files[i] = f BY DEF ToSet
  <2>2. i \in 1 .. Len(files) BY LenProperties
  <2>3. QED BY <1>1, <2>1, <2>2 DEF GroupsInv
<1>5. ASSUME NEW f \in ToSet(files), f.name \in s.assigned
      PROVE  \E k \in DOMAIN s.groups : f \in s.groups[k]
  BY <1>1, <1>5 DEF GroupsInv
<1>6. UNION result = ToSet(files)
  <2>1. ASSUME NEW f \in ToSet(files) PROVE \E g \in result : f \in g
    <3>1. CASE f.name \in s.assigned BY <1>5, <3>1
    <3>2. CASE f.name \notin s.assigned
      <4>1. f \in alone BY <1>4, <3>2
      <4>2. {f} \in result BY <4>1
      <4>3. QED BY <4>2
    <3>3. QED BY <3>1, <3>2
  <2>2. \A g \in result : g \subseteq ToSet(files) BY <1>3
  <2> HIDE DEF result
  <2>3. QED BY <2>1, <2>2
<1>7. ASSUME NEW g \in result, NEW h \in result, NEW f \in g, f \in h PROVE g = h
  <2>1. ASSUME NEW k \in DOMAIN s.groups, f \in s.groups[k] PROVE f \notin alone
    <3>1. f \in ToSet(files) BY <1>3, <2>1
    <3>2. QED BY <1>1, <2>1, <3>1 DEF GroupsInv
  <2>2. CASE f \in alone
    <3>1. g = {f} /\ h = {f} BY <1>7, <2>1, <2>2
    <3>2. QED BY <3>1
  <2>3. CASE f \notin alone
    <3>1. PICK k \in DOMAIN s.groups : g = s.groups[k] BY <2>3
    <3>2. PICK l \in DOMAIN s.groups : h = s.groups[l] BY <1>7, <2>3
    <3>3. s.groups[k] \cap s.groups[l] # {} BY <1>7, <3>1, <3>2
    <3>4. k = l BY <1>1, <3>3 DEF GroupsInv
    <3>5. QED BY <3>1, <3>2, <3>4
  <2>4. QED BY <2>2, <2>3
<1>8. ASSUME NEW f \in ToSet(files), NEW b \in ToSet(files),
             IsCompanion(f.name), Companion[f.name] = b.name, ~IsCompanion(b.name),
             \A c \in ToSet(files) : Companion[c.name] # f.name \/ c = f
      PROVE  \E g \in result : {f, b} \subseteq g
  <2>1. f.name \in s.assigned BY <1>1, <1>4, <1>8 DEF GroupsInv
  <2>2. PICK k \in DOMAIN s.groups : f \in s.groups[k] BY <1>5, <2>1
  <2>3. k = b.name
    <3>1. f.name = k \/ Companion[f.name] = k BY <1>1, <2>2 DEF GroupsInv
    <3>2. ASSUME f.name = k PROVE FALSE
      <4>1. PICK c \in ToSet(files) : IsCompanion(c.name) /\ Companion[c.name] = k
        BY <1>1 DEF GroupsInv
      <4>2. c = f BY <1>8, <3>2, <4>1
      <4>3. QED BY <1>8, <3>2, <4>1, <4>2 DEF IsCompanion
    <3>3. QED BY <1>8, <3>1, <3>2
  <2>4. b.name \in s.assigned BY <1>1, <2>3 DEF GroupsInv
  <2>5. PICK l \in DOMAIN s.groups : b \in s.groups[l] BY <1>5, <2>4
  <2>6. l = b.name BY <1>1, <1>8, <2>5 DEF GroupsInv
  <2>7. s.groups[k] \in result /\ {f, b} \subseteq s.groups[k] BY <2>2, <2>3, <2>5, <2>6
  <2> HIDE DEF result
  <2>8. QED BY <2>7
<1> HIDE DEF result
<1>9. \A g, h \in result : g \cap h # {} => g = h BY <1>7
<1>10. QED BY <1>2, <1>6, <1>8, <1>9

(* Whatever the arguments and the files they stand for, files of distinct  *)
(* names are each put out in exactly one group, and a companion with the   *)
(* document it is named after (analyze_sources.py).                        *)
THEOREM GroupsCoverFilesHolds == DistillerSpec => []GroupsCoverFiles
<1>1. DistillerInit => GroupsCoverFiles
  BY DEF DistillerInit, GroupsCoverFiles
<1>2. GroupsCoverFiles /\ [DistillerNext]_distillerVars => GroupsCoverFiles'
  <2> SUFFICES ASSUME GroupsCoverFiles, [DistillerNext]_distillerVars PROVE GroupsCoverFiles'
    OBVIOUS
  <2>1. CASE analyze
    <3>0. PICK n \in 1 .. MaxInputs : \E inputs \in [1 .. n -> Inputs] :
            /\ sources' = resolve_inputs(inputs)
            /\ analysis'.status = "ok" => analysis'.groups = suggest_groups(resolve_inputs(inputs))
      BY <2>1 DEF analyze
    <3>1. PICK inputs \in [1 .. n -> Inputs] :
            /\ sources' = resolve_inputs(inputs)
            /\ analysis'.status = "ok" => analysis'.groups = suggest_groups(resolve_inputs(inputs))
      BY <3>0
    <3>2. inputs \in Seq(Inputs)
      <4>1. n \in Nat BY DistillerAssumption
      <4>2. QED BY <4>1, IsASeq
    <3>3. resolve_inputs(inputs) \in Seq(Files) BY <3>2, SourcesType
    <3>4. SUFFICES ASSUME analysis'.status = "ok", DistinctNames(sources')
                   PROVE  GroupsCoverFiles'
      BY DEF GroupsCoverFiles
    <3>5. analysis'.groups = suggest_groups(sources') /\ sources' \in Seq(Files)
      BY <3>1, <3>3, <3>4
    <3>6. QED BY <3>4, <3>5, GroupsCover DEF GroupsCoverFiles
  <2>2. CASE UNCHANGED distillerVars
    BY <2>2 DEF GroupsCoverFiles, distillerVars
  <2>3. QED BY <2>1, <2>2 DEF DistillerNext
<1>3. QED BY <1>1, <1>2, PTL DEF DistillerSpec

-----------------------------------------------------------------------------
(* resolve_customization.py, resolve_config.py and                         *)
(* list_customizable_skills.py.                                            *)

Code(item) == item.of["code"]
HasCode(item) == item.kind = "table" /\ "code" \in DOMAIN item.of

(* What an override's item becomes part of, by the item it replaces.       *)
LEMMA MergeItemType ==
  ASSUME NEW S, NEW items \in Seq(S), NEW item \in S, NEW key
  PROVE  MergeItem(items, item, key) \in Seq(S)
<1> DEFINE same == {i \in DOMAIN items : items[i].of[key] = item.of[key]}
           at == CHOOSE i \in same : \A j \in same : j <= i
<1>1. MergeItem(items, item, key)
        = IF same = {} THEN Append(items, item) ELSE [items EXCEPT ![at] = item]
  BY DEF MergeItem
<1> HIDE DEF same, at
<1>2. Append(items, item) \in Seq(S) BY AppendProperties
<1>3. [items EXCEPT ![at] = item] \in Seq(S)
  <2>1. PICK n \in Nat : items \in [1 .. n -> S] BY SeqDef
  <2>2. [items EXCEPT ![at] = item] \in [1 .. n -> S] BY <2>1
  <2>3. QED BY <2>2, SeqDef
<1>4. QED BY <1>1, <1>2, <1>3

(* Once per code, and of every code what the override has if it has it.    *)
LEMMA MergeItemByCode ==
  ASSUME NEW S, NEW items \in Seq(S), NEW item \in S, HasCode(item), OncePerCode(items)
  PROVE  LET merged == MergeItem(items, item, "code")
         IN  /\ OncePerCode(merged)
             /\ ToSet(merged) = {x \in ToSet(items) : Code(x) # Code(item)} \cup {item}
<1> DEFINE merged == MergeItem(items, item, "code")
           same == {i \in DOMAIN items : items[i].of["code"] = item.of["code"]}
           at == CHOOSE i \in same : \A j \in same : j <= i
<1>1. merged = IF same = {} THEN Append(items, item) ELSE [items EXCEPT ![at] = item]
  BY DEF MergeItem
<1>2. CASE same = {}
  <2> DEFINE n == Len(items)
  <2>1. /\ n \in Nat /\ DOMAIN items = 1 .. n /\ merged = Append(items, item)
        /\ DOMAIN merged = 1 .. n + 1 /\ merged[n + 1] = item
        /\ \A i \in 1 .. n : merged[i] = items[i]
    BY <1>1, <1>2, AppendProperties, LenProperties
  <2>2. \A i \in 1 .. n : items[i].of["code"] # item.of["code"] BY <1>2, <2>1
  <2> HIDE DEF n, merged, same
  <2>3. \A i \in 1 .. n + 1 : i \in 1 .. n \/ i = n + 1 BY <2>1
  <2>4. OncePerCode(merged) BY <2>1, <2>2, <2>3 DEF OncePerCode, HasCode
  <2>5. ToSet(merged) = ToSet(items) \cup {item}
    <3>1. n + 1 \in 1 .. n + 1 /\ 1 .. n \subseteq 1 .. n + 1 BY <2>1
    <3>2. QED BY <2>1, <2>3, <3>1 DEF ToSet
  <2>6. \A x \in ToSet(items) : Code(x) # Code(item) BY <2>1, <2>2 DEF ToSet, Code
  <2>7. QED BY <2>4, <2>5, <2>6 DEF merged
<1>3. CASE same # {}
  <2>1. PICK k \in same : TRUE BY <1>3
  <2>2. same = {k} BY <2>1 DEF OncePerCode
  <2>3. k \in Nat BY LenProperties
  <2>4. at = k
    <3>1. \E i \in same : \A j \in same : j <= i BY <2>2, <2>3
    <3>2. at \in same BY <3>1
    <3>3. QED BY <2>2, <3>2
  <2>5. /\ k \in DOMAIN items /\ Code(items[k]) = Code(item)
        /\ \A i \in DOMAIN items : i # k => Code(items[i]) # Code(item)
    BY <2>1, <2>2 DEF Code
  <2>6. /\ DOMAIN merged = DOMAIN items /\ merged[k] = item
        /\ \A i \in DOMAIN items : i # k => merged[i] = items[i]
    BY <1>1, <1>3, <2>4, <2>5
  <2> HIDE DEF merged, same, at
  <2>7. OncePerCode(merged) BY <2>5, <2>6 DEF OncePerCode, HasCode, Code
  <2>8. ToSet(merged) = {x \in ToSet(items) : Code(x) # Code(item)} \cup {item}
    <3>1. ASSUME NEW x \in ToSet(merged)
          PROVE  x \in {y \in ToSet(items) : Code(y) # Code(item)} \cup {item}
      BY <2>5, <2>6, <3>1 DEF ToSet
    <3>2. ASSUME NEW x \in ToSet(items), Code(x) # Code(item) PROVE x \in ToSet(merged)
      BY <2>5, <2>6, <3>2 DEF ToSet
    <3>3. item \in ToSet(merged) BY <2>5, <2>6 DEF ToSet
    <3>4. QED BY <3>1, <3>2, <3>3
  <2>9. QED BY <2>7, <2>8 DEF merged
<1>4. QED BY <1>2, <1>3

(* The loop over the override's items: an array after each of them.        *)
MergeSteps(result, S, base, override, key) ==
  /\ result \in [0 .. Len(override) -> Seq(S)] /\ result[0] = base
  /\ \A i \in 1 .. Len(override) : result[i] = MergeItem(result[i - 1], override[i], key)

LEMMA MergeByKeySteps ==
  ASSUME NEW S, NEW base \in Seq(S), NEW override \in Seq(S), NEW key
  PROVE  \E result : /\ MergeSteps(result, S, base, override, key)
                     /\ _merge_by_key(base, override, key) = result[Len(override)]
<1> DEFINE N == Len(override)
           States == Seq(S)
           body(a, i) == IF i = 0 THEN base ELSE MergeItem(a[i - 1], override[i], key)
           after == CHOOSE a : a = [i \in 0 .. N |-> body(a, i)]
           pass == [i \in 1 .. N |-> [s \in States |-> MergeItem(s, override[i], key)]]
<1>1. _merge_by_key(base, override, key) = after[N] BY DEF _merge_by_key
<1>2. N \in Nat /\ \A i \in 1 .. N : override[i] \in S BY LenProperties, ElementOfSeq
<1> HIDE DEF N
<1>3. pass \in [1 .. N -> [States -> States]]
  <2>1. \A i \in 1 .. N, s \in States : MergeItem(s, override[i], key) \in States
    BY <1>2, MergeItemType
  <2> HIDE DEF States
  <2>2. QED BY <2>1
<1> HIDE DEF States
<1>4. base \in States BY DEF States
<1>5. PICK f : LoopStates(f, N, States, base, pass)
  <2> HIDE DEF pass
  <2>1. QED BY <1>2, <1>3, <1>4, LoopComputes
<1>6. f = [i \in 0 .. N |-> body(f, i)]
  <2>1. ASSUME NEW i \in 1 .. N PROVE pass[i][f[i - 1]] = body(f, i)
    <3>1. f[i - 1] \in States /\ i # 0 BY <1>2, <1>5 DEF LoopStates
    <3>2. QED BY <3>1
  <2>2. body(f, 0) = base OBVIOUS
  <2> HIDE DEF body, pass
  <2>3. \A i \in 0 .. N : f[i] = body(f, i)
    <3>1. \A i \in 1 .. N : f[i] = body(f, i) BY <1>5, <2>1 DEF LoopStates
    <3>2. f[0] = body(f, 0) BY <1>5, <2>2 DEF LoopStates
    <3>3. \A i \in 0 .. N : i = 0 \/ i \in 1 .. N BY <1>2
    <3>4. QED BY <3>1, <3>2, <3>3
  <2>4. QED BY <1>5, <2>3 DEF LoopStates
<1>7. after = [i \in 0 .. N |-> body(after, i)]
  <2> HIDE DEF body
  <2>1. QED BY <1>6
<1> HIDE DEF after, pass
<1>8. after[0] = base /\ \A i \in 1 .. N : after[i] = MergeItem(after[i - 1], override[i], key)
  <2>1. \A i \in 0 .. N : after[i] = body(after, i)
    <3> HIDE DEF body
    <3>1. QED BY <1>7
  <2>2. \A i \in 1 .. N : i \in 0 .. N /\ i # 0 BY <1>2
  <2>3. 0 \in 0 .. N BY <1>2
  <2>4. QED BY <2>1, <2>2, <2>3
<1>9. \A i \in 0 .. N : after[i] \in Seq(S)
  <2> DEFINE good == {i \in 0 .. N : after[i] \in Seq(S)}
  <2>1. 0 \in good BY <1>2, <1>8
  <2>2. ASSUME NEW i \in 1 .. N, i - 1 \in good PROVE i \in good
    <3>1. i \in 0 .. N BY <1>2
    <3>2. QED BY <1>2, <1>8, <2>2, <3>1, MergeItemType
  <2> HIDE DEF good
  <2>3. \A i \in 0 .. N : i \in good BY <1>2, <2>1, <2>2, LoopKeeps
  <2>4. QED BY <2>3 DEF good
<1>10. after \in [0 .. N -> Seq(S)]
  <2>1. after = [i \in 0 .. N |-> after[i]]
    <3> HIDE DEF body
    <3>1. DOMAIN after = 0 .. N BY <1>7
    <3>2. QED BY <1>7, <3>1
  <2>2. QED BY <1>9, <2>1
<1>11. MergeSteps(after, S, base, override, key) BY <1>8, <1>10 DEF MergeSteps, N
<1>12. QED BY <1>1, <1>11 DEF N

(* Two arrays whose items have codes, once each, merge into one of which   *)
(* every code's item is the override's where it has one.                   *)
MergesByCode(base, override, merged) ==
  /\ OncePerCode(merged)
  /\ ToSet(merged) =
       {x \in ToSet(base) : \A y \in ToSet(override) : Code(y) # Code(x)} \cup ToSet(override)

LEMMA MergeByCode ==
  ASSUME NEW S, NEW base \in Seq(S), NEW override \in Seq(S),
         OncePerCode(base), OncePerCode(override)
  PROVE  MergesByCode(base, override, _merge_by_key(base, override, "code"))
<1>0. PICK result : /\ MergeSteps(result, S, base, override, "code")
                    /\ _merge_by_key(base, override, "code") = result[Len(override)]
  BY MergeByKeySteps
<1> DEFINE N == Len(override)
           first(i) == {override[j] : j \in 1 .. i}
           replaced(i) == {x \in ToSet(base) : \A y \in first(i) : Code(y) # Code(x)}
<1>1. /\ result \in [0 .. N -> Seq(S)] /\ result[0] = base
      /\ \A i \in 1 .. N : result[i] = MergeItem(result[i - 1], override[i], "code")
      /\ _merge_by_key(base, override, "code") = result[N]
  BY <1>0 DEF MergeSteps
<1>2. /\ N \in Nat /\ DOMAIN override = 1 .. N
      /\ \A i \in 1 .. N : override[i] \in S /\ HasCode(override[i])
      /\ \A i, j \in 1 .. N : Code(override[i]) = Code(override[j]) => i = j
  BY LenProperties, ElementOfSeq DEF OncePerCode, HasCode, Code
<1>3. ToSet(override) = first(N) BY <1>2 DEF ToSet
<1> HIDE DEF N
<1> DEFINE good == {i \in 0 .. N :
                      OncePerCode(result[i]) /\ ToSet(result[i]) = replaced(i) \cup first(i)}
<1>4. 0 \in good
  <2>1. first(0) = {} OBVIOUS
  <2>2. replaced(0) = ToSet(base) BY <2>1
  <2>3. QED BY <1>1, <1>2, <2>1, <2>2
<1>5. ASSUME NEW i \in 1 .. N, i - 1 \in good PROVE i \in good
  <2>1. /\ i - 1 \in 0 .. N /\ i \in 0 .. N
        /\ 1 .. i = (1 .. i - 1) \cup {i} /\ \A j \in 1 .. i - 1 : j \in 1 .. N /\ j # i
    BY <1>2
  <2>2. first(i) = first(i - 1) \cup {override[i]} BY <2>1
  <2>3. \A y \in first(i - 1) : Code(y) # Code(override[i]) BY <1>2, <2>1
  <2> DEFINE item == override[i]
             s == result[i - 1]
  <2>4. /\ s \in Seq(S) /\ item \in S /\ HasCode(item) /\ OncePerCode(s)
        /\ ToSet(s) = replaced(i - 1) \cup first(i - 1) /\ result[i] = MergeItem(s, item, "code")
    BY <1>1, <1>2, <1>5, <2>1
  <2> HIDE DEF item, s
  <2>5. /\ OncePerCode(result[i])
        /\ ToSet(result[i]) = {x \in ToSet(s) : Code(x) # Code(item)} \cup {item}
    BY <2>4, MergeItemByCode
  <2>6. replaced(i) = {x \in replaced(i - 1) : Code(x) # Code(item)}
    <3> HIDE DEF first
    <3>1. first(i) = first(i - 1) \cup {item} BY <2>2 DEF item
    <3>2. QED BY <3>1
  <2>7. first(i - 1) = {x \in first(i - 1) : Code(x) # Code(item)} BY <2>3 DEF item
  <2>8. ToSet(result[i]) = replaced(i) \cup first(i)
    <3> HIDE DEF first, replaced
    <3>1. first(i) = first(i - 1) \cup {item} BY <2>2 DEF item
    <3>2. QED BY <2>4, <2>5, <2>6, <2>7, <3>1
  <2>9. QED BY <2>1, <2>5, <2>8
<1> HIDE DEF good
<1>6. \A i \in 0 .. N : i \in good BY <1>2, <1>4, <1>5, LoopKeeps
<1>7. N \in good BY <1>2, <1>6
<1>8. QED BY <1>1, <1>3, <1>7 DEF good, MergesByCode

IsArray(s) == s \in Seq(Range(s))

LEMMA MergeArraysType ==
  ASSUME NEW base, NEW override, IsArray(base), IsArray(override)
  PROVE  IsArray(_merge_arrays(base, override))
<1> DEFINE S == Range(base) \cup Range(override)
           merged == _merge_arrays(base, override)
<1>1. base \in Seq(S) /\ override \in Seq(S) BY SeqMonotonic DEF IsArray
<1>2. base \o override \in Seq(S) BY <1>1, ConcatProperties
<1>3. ASSUME NEW key PROVE _merge_by_key(base, override, key) \in Seq(S)
  <2>1. PICK result : /\ MergeSteps(result, S, base, override, key)
                      /\ _merge_by_key(base, override, key) = result[Len(override)]
    <3> HIDE DEF S
    <3>1. QED BY <1>1, MergeByKeySteps
  <2>2. Len(override) \in 0 .. Len(override) BY <1>1, LenProperties
  <2> HIDE DEF S
  <2>3. QED BY <2>1, <2>2 DEF MergeSteps
<1> HIDE DEF S
<1>4. merged \in Seq(S) BY <1>2, <1>3 DEF _merge_arrays
<1> HIDE DEF merged
<1>5. merged \in Seq(Range(merged)) BY <1>4, SeqOfRange
<1>6. QED BY <1>5 DEF IsArray, merged

LEMMA MergeArraysByCode ==
  ASSUME NEW base, NEW override, IsArray(base), IsArray(override),
         OncePerCode(base), OncePerCode(override)
  PROVE  MergesByCode(base, override, _merge_arrays(base, override))
<1> DEFINE S == Range(base) \cup Range(override)
           items == base \o override
<1>1. base \in Seq(S) /\ override \in Seq(S) BY SeqMonotonic DEF IsArray
<1> HIDE DEF S
<1>2. /\ Len(base) \in Nat /\ Len(override) \in Nat /\ items \in Seq(S)
      /\ DOMAIN base = 1 .. Len(base) /\ DOMAIN override = 1 .. Len(override)
      /\ DOMAIN items = 1 .. Len(base) + Len(override)
      /\ \A i \in 1 .. Len(base) + Len(override) :
           items[i] = IF i <= Len(base) THEN base[i] ELSE override[i - Len(base)]
  BY <1>1, ConcatProperties, LenProperties
<1>3. \A i \in DOMAIN items : items[i].kind = "table" /\ "code" \in DOMAIN items[i].of
  <2> HIDE DEF items
  <2>1. ASSUME NEW i \in DOMAIN items PROVE HasCode(items[i])
    <3>1. CASE i <= Len(base)
      <4>1. i \in DOMAIN base /\ items[i] = base[i] BY <1>2, <3>1
      <4>2. QED BY <4>1 DEF OncePerCode, HasCode
    <3>2. CASE ~(i <= Len(base))
      <4>1. i - Len(base) \in DOMAIN override /\ items[i] = override[i - Len(base)]
        BY <1>2, <3>2
      <4>2. QED BY <4>1 DEF OncePerCode, HasCode
    <3>3. QED BY <3>1, <3>2
  <2>2. QED BY <2>1 DEF HasCode
<1>4. CASE items = <<>>
  <2>1. Len(base) = 0 /\ Len(override) = 0
    <3>1. DOMAIN items = {} BY <1>4
    <3>2. ~(1 \in DOMAIN items) BY <3>1
    <3> HIDE DEF items
    <3>3. QED BY <1>2, <3>2
  <2>2. _detect_keyed_merge_field(items) = "none" BY <1>4 DEF _detect_keyed_merge_field
  <2>3. _merge_arrays(base, override) = items BY <2>2 DEF _merge_arrays
  <2>4. ToSet(base) = {} /\ ToSet(override) = {} /\ ToSet(items) = {}
    BY <1>2, <1>4, <2>1 DEF ToSet
  <2>5. OncePerCode(items) BY <1>4 DEF OncePerCode
  <2>6. QED BY <2>3, <2>4, <2>5 DEF MergesByCode
<1>5. CASE items # <<>>
  <2>1. _detect_keyed_merge_field(items) = "code"
    BY <1>3, <1>5 DEF _detect_keyed_merge_field
  <2>2. _merge_arrays(base, override) = _merge_by_key(base, override, "code")
    BY <2>1 DEF _merge_arrays
  <2>3. QED BY <1>1, <2>2, MergeByCode
<1>6. QED BY <1>4, <1>5

-----------------------------------------------------------------------------
(* What a merge does at a path.                                            *)

ValueAt(document, p) == extract_key(document, p)

(* A document whose arrays are arrays.                                     *)
IsDocument(d) ==
  /\ d = Document([p \in DOMAIN d.of |-> d.of[p]])
  /\ \A p : ValueAt(d, p).kind = "array" => ValueAt(d, p) = Array(ValueAt(d, p).of) /\ IsArray(ValueAt(d, p).of)

LEMMA MergeAtPath ==
  ASSUME NEW base, NEW override, NEW p
  PROVE  ValueAt(deep_merge(base, override), p) =
           IF ~Says(override, p) THEN ValueAt(base, p)
           ELSE IF ValueAt(base, p).kind = "array" /\ ValueAt(override, p).kind = "array"
           THEN Array(_merge_arrays(ValueAt(base, p).of, ValueAt(override, p).of))
           ELSE ValueAt(override, p)
<1> DEFINE kept == {q \in DOMAIN base.of : ~CutsOff(override, q)}
           arrays == {q \in DOMAIN base.of \cap DOMAIN override.of :
                        base.of[q].kind = "array" /\ override.of[q].kind = "array"}
           value(q) == IF q \in arrays
                       THEN Array(_merge_arrays(base.of[q].of, override.of[q].of))
                       ELSE IF q \in DOMAIN override.of THEN override.of[q] ELSE base.of[q]
           D == kept \cup DOMAIN override.of
<1>1. deep_merge(base, override) = Document([q \in D |-> value(q)]) BY DEF deep_merge
<1> HIDE DEF value, D
<1>2. ValueAt(deep_merge(base, override), p) = IF p \in D THEN value(p) ELSE Missing
  BY <1>1 DEF ValueAt, extract_key, Document
<1>3. CASE p \in DOMAIN override.of
  <2>1. p \in D /\ Says(override, p) /\ ValueAt(override, p) = override.of[p]
    BY <1>3 DEF D, Says, ValueAt, extract_key
  <2>2. p \in arrays <=> ValueAt(base, p).kind = "array" /\ ValueAt(override, p).kind = "array"
    BY <1>3 DEF ValueAt, extract_key, Missing
  <2>3. p \in arrays => ValueAt(base, p) = base.of[p] BY DEF ValueAt, extract_key
  <2> HIDE DEF arrays
  <2>4. QED BY <1>2, <1>3, <2>1, <2>2, <2>3 DEF value
<1>4. CASE p \notin DOMAIN override.of
  <2>1. ValueAt(override, p) = Missing /\ (Says(override, p) <=> CutsOff(override, p))
    BY <1>4 DEF Says, ValueAt, extract_key
  <2>2. p \in D <=> p \in DOMAIN base.of /\ ~CutsOff(override, p) BY <1>4 DEF D
  <2>3. p \notin arrays BY <1>4
  <2>4. value(p) = base.of[p] BY <1>4, <2>3 DEF value
  <2>5. ValueAt(base, p) = IF p \in DOMAIN base.of THEN base.of[p] ELSE Missing
    BY DEF ValueAt, extract_key
  <2>6. Missing.kind # "array" BY DEF Missing
  <2> HIDE DEF arrays, kept
  <2>7. QED BY <1>2, <2>1, <2>2, <2>4, <2>5, <2>6
<1>5. QED BY <1>3, <1>4

LEMMA MergeIsDocument ==
  ASSUME NEW base, NEW override, IsDocument(base), IsDocument(override)
  PROVE  IsDocument(deep_merge(base, override))
<1> DEFINE merged == deep_merge(base, override)
<1>1. merged = Document([p \in DOMAIN merged.of |-> merged.of[p]])
  BY DEF deep_merge, Document
<1>2. ASSUME NEW p, ValueAt(merged, p).kind = "array"
      PROVE  ValueAt(merged, p) = Array(ValueAt(merged, p).of) /\ IsArray(ValueAt(merged, p).of)
  <2> HIDE DEF merged
  <2>1. CASE ValueAt(merged, p) = ValueAt(base, p) BY <1>2, <2>1 DEF IsDocument
  <2>2. CASE ValueAt(merged, p) = ValueAt(override, p) BY <1>2, <2>2 DEF IsDocument
  <2>3. CASE /\ ValueAt(base, p).kind = "array" /\ ValueAt(override, p).kind = "array"
             /\ ValueAt(merged, p) = Array(_merge_arrays(ValueAt(base, p).of, ValueAt(override, p).of))
    <3>1. IsArray(ValueAt(base, p).of) /\ IsArray(ValueAt(override, p).of) BY <2>3 DEF IsDocument
    <3>2. IsArray(_merge_arrays(ValueAt(base, p).of, ValueAt(override, p).of)) BY <3>1, MergeArraysType
    <3>3. ValueAt(merged, p).of = _merge_arrays(ValueAt(base, p).of, ValueAt(override, p).of)
      BY <2>3 DEF Array
    <3>4. QED BY <2>3, <3>2, <3>3
  <2>4. QED BY <2>1, <2>2, <2>3, MergeAtPath DEF merged
<1> HIDE DEF merged
<1>3. QED BY <1>1, <1>2 DEF IsDocument, merged

-----------------------------------------------------------------------------
(* What several layers come to at a path.                                  *)

Coded(layers, p) == \A i \in Stack(layers, p) : OncePerCode(ItemsAt(layers[i], p))

LEMMA FollowsAlone ==
  ASSUME NEW layers, DOMAIN layers = {1}, IsDocument(layers[1]), NEW p
  PROVE  Follows(layers[1], layers, p)
<1> DEFINE d == layers[1]
<1>1. Stack(layers, p) = IF ValueAt(d, p).kind = "array" THEN {1} ELSE {} BY DEF Stack, ValueAt
<1>2. CASE ValueAt(d, p).kind = "array"
  <2> DEFINE items == ToSet(ValueAt(d, p).of)
  <2>1. Stack(layers, p) = {1} BY <1>1, <1>2
  <2>2. LastItems(layers, p) = items BY <2>1 DEF LastItems, ItemsAt, ValueAt
  <2>3. QED BY <1>2, <2>1, <2>2 DEF Follows, ItemsAt, ValueAt
<1>3. CASE ValueAt(d, p).kind # "array"
  <2>1. Stack(layers, p) = {} BY <1>1, <1>3
  <2>2. LastWord(layers, p) = ValueAt(d, p)
    <3> DEFINE saying == {i \in DOMAIN layers : Says(layers[i], p)}
    <3>1. LastWord(layers, p) =
            IF saying = {} THEN Missing
            ELSE ValueAt(layers[CHOOSE i \in saying : \A j \in saying : j <= i], p)
      BY DEF LastWord, ValueAt
    <3>2. CASE saying = {}
      <4>1. p \notin DOMAIN d.of BY <3>2 DEF Says
      <4>2. QED BY <3>1, <3>2, <4>1 DEF ValueAt, extract_key
    <3>3. CASE saying # {}
      <4>1. saying = {1} BY <3>3
      <4>2. (CHOOSE i \in saying : \A j \in saying : j <= i) = 1 BY <4>1
      <4>3. QED BY <3>1, <3>3, <4>2
    <3>4. QED BY <3>2, <3>3
  <2>3. QED BY <2>1, <2>2 DEF Follows, ValueAt
<1>4. QED BY <1>2, <1>3

(* One more layer.                                                         *)
OneMore(layers, longer, n) ==
  /\ n \in Nat /\ DOMAIN layers = 1 .. n /\ DOMAIN longer = 1 .. n + 1
  /\ \A i \in 1 .. n : longer[i] = layers[i]

LEMMA StackNext ==
  ASSUME NEW layers, NEW longer, NEW n, OneMore(layers, longer, n), NEW p
  PROVE  Stack(longer, p) =
           IF ~Says(longer[n + 1], p) THEN Stack(layers, p)
           ELSE IF ValueAt(longer[n + 1], p).kind = "array" THEN Stack(layers, p) \cup {n + 1}
           ELSE {}
<1> DEFINE o == longer[n + 1]
           array(i) == ValueAt(longer[i], p).kind = "array"
           says(i) == Says(longer[i], p)
<1>1. /\ n \in Nat /\ DOMAIN layers = 1 .. n /\ DOMAIN longer = 1 .. n + 1
      /\ 1 .. n + 1 = (1 .. n) \cup {n + 1} /\ n + 1 \notin 1 .. n
      /\ \A i \in 1 .. n : i <= n + 1 /\ ~(i >= n + 1)
  BY DEF OneMore
<1>2. /\ Stack(longer, p) = {i \in 1 .. n + 1 :
            array(i) /\ \A j \in 1 .. n + 1 : j >= i /\ says(j) => array(j)}
      /\ Stack(layers, p) = {i \in 1 .. n :
            array(i) /\ \A j \in 1 .. n : j >= i /\ says(j) => array(j)}
  BY DEF Stack, OneMore, ValueAt
<1>3. array(n + 1) => says(n + 1)
  BY DEF ValueAt, extract_key, Says, Missing
<1> HIDE DEF array, says
<1>4. CASE ~says(n + 1)
  <2>1. Stack(longer, p) = Stack(layers, p) BY <1>1, <1>2, <1>3, <1>4
  <2>2. QED BY <1>4, <2>1 DEF says
<1>5. CASE says(n + 1) /\ array(n + 1)
  <2>1. \A j \in 1 .. n + 1 : j >= n + 1 => j = n + 1 BY <1>1
  <2>2. n + 1 \in Stack(longer, p) BY <1>1, <1>2, <1>5, <2>1
  <2>3. \A i \in 1 .. n : i \in Stack(longer, p) <=> i \in Stack(layers, p)
    BY <1>1, <1>2, <1>5
  <2>4. Stack(longer, p) \subseteq 1 .. n + 1 /\ Stack(layers, p) \subseteq 1 .. n BY <1>2
  <2>5. Stack(longer, p) = Stack(layers, p) \cup {n + 1} BY <1>1, <2>2, <2>3, <2>4
  <2>6. QED BY <1>5, <2>5 DEF says, array
<1>6. CASE says(n + 1) /\ ~array(n + 1)
  <2>1. \A i \in 1 .. n + 1 : n + 1 >= i BY <1>1
  <2>2. Stack(longer, p) = {} BY <1>1, <1>2, <1>6, <2>1
  <2>3. QED BY <1>6, <2>2 DEF says, array
<1>7. QED BY <1>4, <1>5, <1>6

LEMMA LastWordNext ==
  ASSUME NEW layers, NEW longer, NEW n, OneMore(layers, longer, n), NEW p
  PROVE  LastWord(longer, p) =
           IF Says(longer[n + 1], p) THEN ValueAt(longer[n + 1], p) ELSE LastWord(layers, p)
<1> DEFINE before == {i \in DOMAIN layers : Says(layers[i], p)}
           now == {i \in DOMAIN longer : Says(longer[i], p)}
           last(S) == CHOOSE i \in S : \A j \in S : j <= i
<1>1. /\ LastWord(layers, p) = IF before = {} THEN Missing ELSE ValueAt(layers[last(before)], p)
      /\ LastWord(longer, p) = IF now = {} THEN Missing ELSE ValueAt(longer[last(now)], p)
  BY DEF LastWord, ValueAt
<1>2. /\ n \in Nat /\ DOMAIN layers = 1 .. n /\ DOMAIN longer = 1 .. n + 1
      /\ 1 .. n + 1 = (1 .. n) \cup {n + 1}
      /\ \A i \in 1 .. n : longer[i] = layers[i]
  BY DEF OneMore
<1>3. CASE Says(longer[n + 1], p)
  <2>1. n + 1 \in now /\ \A j \in now : j <= n + 1 BY <1>2, <1>3
  <2>2. \A i \in now : i \in Nat /\ (n + 1 <= i => i = n + 1) BY <1>2
  <2> HIDE DEF now
  <2>3. last(now) = n + 1
    <3>1. last(now) \in now /\ \A j \in now : j <= last(now) BY <2>1
    <3>2. n + 1 <= last(now) BY <2>1, <3>1
    <3> HIDE DEF last
    <3>3. QED BY <2>2, <3>1, <3>2
  <2> HIDE DEF last
  <2>4. QED BY <1>1, <1>3, <2>1, <2>3
<1>4. CASE ~Says(longer[n + 1], p)
  <2>1. now = before BY <1>2, <1>4
  <2>2. before # {} /\ before \subseteq 1 .. n => \E i \in before : \A j \in before : j <= i
    <3> HIDE DEF before
    <3>1. QED BY <1>2, GreatestIn
  <2>3. before # {} => last(before) \in 1 .. n
    <3>1. before \subseteq 1 .. n BY <1>2
    <3> HIDE DEF before
    <3>2. QED BY <2>2, <3>1
  <2> HIDE DEF last, before, now
  <2>4. QED BY <1>1, <1>2, <1>4, <2>1, <2>3
<1>5. QED BY <1>3, <1>4

(* Where no arrays add up, the last word is none.                          *)
LEMMA LastWordNotArray ==
  ASSUME NEW layers, NEW n \in Nat, DOMAIN layers = 1 .. n, NEW p, Stack(layers, p) = {}
  PROVE  LastWord(layers, p).kind # "array"
<1> DEFINE saying == {i \in DOMAIN layers : Says(layers[i], p)}
           last == CHOOSE i \in saying : \A j \in saying : j <= i
<1>1. LastWord(layers, p) = IF saying = {} THEN Missing ELSE ValueAt(layers[last], p)
  BY DEF LastWord, ValueAt
<1>2. Missing.kind # "array" BY DEF Missing
<1>3. ASSUME saying # {} PROVE ValueAt(layers[last], p).kind # "array"
  <2>1. saying \subseteq 1 .. n OBVIOUS
  <2>2. \E i \in saying : \A j \in saying : j <= i
    <3> HIDE DEF saying
    <3>1. QED BY <1>3, <2>1, GreatestIn
  <2>3. last \in saying /\ \A j \in saying : j <= last
    <3> HIDE DEF saying
    <3>1. QED BY <2>2
  <2> HIDE DEF last
  <2>4. \A j \in DOMAIN layers : j >= last /\ Says(layers[j], p) => j = last
    BY <2>1, <2>3
  <2>5. last \in DOMAIN layers BY <2>3
  <2>6. last \notin Stack(layers, p) OBVIOUS
  <2> HIDE DEF saying
  <2>7. QED BY <2>4, <2>5, <2>6 DEF Stack, ValueAt
<1> HIDE DEF saying, last
<1>4. QED BY <1>1, <1>2, <1>3

(* Where both have an array of items with codes, the items are as many     *)
(* layers' last ones.                                                      *)
LEMMA LastItemsNext ==
  ASSUME NEW layers, NEW longer, NEW n, OneMore(layers, longer, n), NEW p,
         Stack(longer, p) = Stack(layers, p) \cup {n + 1}
  PROVE  LastItems(longer, p) =
           {x \in LastItems(layers, p) : \A y \in ToSet(ItemsAt(longer[n + 1], p)) : Code(y) # Code(x)}
             \cup ToSet(ItemsAt(longer[n + 1], p))
<1> DEFINE at(i) == ToSet(ItemsAt(longer[i], p))
           stack == Stack(layers, p)
           survives(x, i, S) ==
             x \in at(i) /\ \A j \in S : j > i => \A y \in at(j) : Code(y) # Code(x)
<1>1. /\ n \in Nat /\ stack \subseteq 1 .. n /\ n + 1 \notin stack
      /\ \A i \in stack : longer[i] = layers[i] /\ n + 1 > i /\ ~(i > n + 1)
      /\ ~(n + 1 > n + 1)
  BY DEF OneMore, Stack
<1>2. LastItems(layers, p) =
        {x \in UNION {at(i) : i \in stack} : \E i \in stack : survives(x, i, stack)}
  <2>1. \A i \in stack : at(i) = ToSet(ItemsAt(layers[i], p)) BY <1>1
  <2> DEFINE old(i) == ToSet(ItemsAt(layers[i], p))
  <2>2. LastItems(layers, p) =
          {x \in UNION {old(i) : i \in stack} :
             \E i \in stack : x \in old(i) /\ \A j \in stack : j > i =>
               \A y \in old(j) : Code(y) # Code(x)}
    BY DEF LastItems, Code
  <2>3. \A i \in stack : at(i) = old(i) BY <2>1
  <2> HIDE DEF at, old, stack
  <2>4. UNION {at(i) : i \in stack} = UNION {old(i) : i \in stack} BY <2>3
  <2>5. QED BY <2>2, <2>3, <2>4
<1>3. LastItems(longer, p) =
        {x \in UNION {at(i) : i \in stack \cup {n + 1}} :
           \E i \in stack \cup {n + 1} : survives(x, i, stack \cup {n + 1})}
  BY DEF LastItems, Code
<1> HIDE DEF at, stack
<1>4. \A x : survives(x, n + 1, stack \cup {n + 1}) <=> x \in at(n + 1)
  BY <1>1
<1>5. ASSUME NEW x, NEW i \in stack
      PROVE  survives(x, i, stack \cup {n + 1})
               <=> survives(x, i, stack) /\ \A y \in at(n + 1) : Code(y) # Code(x)
  BY <1>1
<1>6. \A x, i, S : survives(x, i, S) => x \in at(i) OBVIOUS
<1> HIDE DEF survives
<1>7. \A x : x \in LastItems(longer, p) <=>
        \/ x \in LastItems(layers, p) /\ \A y \in at(n + 1) : Code(y) # Code(x)
        \/ x \in at(n + 1)
  <2>1. \A x : x \in LastItems(layers, p) <=> \E i \in stack : survives(x, i, stack)
    BY <1>2, <1>6
  <2>2. \A x : x \in LastItems(longer, p) <=>
          x \in at(n + 1) \/ \E i \in stack : survives(x, i, stack \cup {n + 1})
    <3>1. \A x : x \in LastItems(longer, p) <=>
            \E i \in stack \cup {n + 1} : survives(x, i, stack \cup {n + 1})
      BY <1>3, <1>6
    <3>2. QED BY <1>4, <3>1
  <2>3. QED BY <2>1, <2>2, <1>5
<1>8. QED BY <1>7 DEF at

LEMMA FollowsNext ==
  ASSUME NEW layers, NEW longer, NEW n, OneMore(layers, longer, n), NEW p, NEW d,
         IsDocument(d), IsDocument(longer[n + 1]), Follows(d, layers, p)
  PROVE  Follows(deep_merge(d, longer[n + 1]), longer, p)
<1> DEFINE o == longer[n + 1]
           merged == deep_merge(d, o)
           stack == Stack(layers, p)
<1>1. ValueAt(merged, p) = IF ~Says(o, p) THEN ValueAt(d, p)
                      ELSE IF ValueAt(d, p).kind = "array" /\ ValueAt(o, p).kind = "array"
                      THEN Array(_merge_arrays(ValueAt(d, p).of, ValueAt(o, p).of))
                      ELSE ValueAt(o, p)
  BY MergeAtPath
<1>2. Stack(longer, p) = IF ~Says(o, p) THEN stack
                         ELSE IF ValueAt(o, p).kind = "array" THEN stack \cup {n + 1} ELSE {}
  BY StackNext
<1>3. LastWord(longer, p) = IF Says(o, p) THEN ValueAt(o, p) ELSE LastWord(layers, p)
  BY LastWordNext
<1>4. /\ n \in Nat /\ n + 1 \notin stack
      /\ \A i \in stack : longer[i] = layers[i] /\ ValueAt(layers[i], p).kind = "array"
  BY DEF OneMore, Stack, ValueAt
<1>5. stack = {} => ValueAt(d, p) = LastWord(layers, p) BY DEF Follows, ValueAt
<1>6. stack # {} =>
        /\ ValueAt(d, p).kind = "array"
        /\ Coded(layers, p) => OncePerCode(ValueAt(d, p).of)
                                 /\ ToSet(ValueAt(d, p).of) = LastItems(layers, p)
  BY DEF Follows, ValueAt, Coded
<1>7. \A i \in stack : ItemsAt(longer[i], p) = ItemsAt(layers[i], p) BY <1>4
<1>8. Follows(merged, longer, p) <=>
        IF Stack(longer, p) = {} THEN ValueAt(merged, p) = LastWord(longer, p)
        ELSE /\ ValueAt(merged, p).kind = "array"
             /\ Coded(longer, p) => OncePerCode(ValueAt(merged, p).of)
                                      /\ ToSet(ValueAt(merged, p).of) = LastItems(longer, p)
  BY DEF Follows, ValueAt, Coded
<1> HIDE DEF merged, stack
<1>9. CASE ~Says(o, p)
  <2>1. Stack(longer, p) = stack /\ ValueAt(merged, p) = ValueAt(d, p) BY <1>1, <1>2, <1>9
  <2>2. Coded(longer, p) <=> Coded(layers, p) BY <1>7, <2>1 DEF Coded, stack
  <2>3. LastItems(longer, p) = LastItems(layers, p)
    <3> DEFINE old(i) == ToSet(ItemsAt(layers[i], p))
               new(i) == ToSet(ItemsAt(longer[i], p))
    <3>1. \A i \in stack : new(i) = old(i) BY <1>7
    <3>2. /\ LastItems(layers, p) =
               {x \in UNION {old(i) : i \in stack} :
                  \E i \in stack : x \in old(i) /\ \A j \in stack : j > i =>
                    \A y \in old(j) : y.of["code"] # x.of["code"]}
          /\ LastItems(longer, p) =
               {x \in UNION {new(i) : i \in stack} :
                  \E i \in stack : x \in new(i) /\ \A j \in stack : j > i =>
                    \A y \in new(j) : y.of["code"] # x.of["code"]}
      BY <2>1 DEF LastItems, stack
    <3> HIDE DEF old, new
    <3>3. UNION {old(i) : i \in stack} = UNION {new(i) : i \in stack} BY <3>1
    <3>4. QED BY <3>1, <3>2, <3>3
  <2>4. QED BY <1>3, <1>5, <1>6, <1>8, <1>9, <2>1, <2>2, <2>3 DEF merged
<1>10. CASE Says(o, p) /\ ValueAt(o, p).kind # "array"
  BY <1>1, <1>2, <1>3, <1>8, <1>10 DEF merged
<1>11. CASE Says(o, p) /\ ValueAt(o, p).kind = "array" /\ stack = {}
  <2>1. ValueAt(d, p).kind # "array"
    <3>1. Missing.kind # "array" BY DEF Missing
    <3>2. LastWord(layers, p).kind # "array" BY <1>11, LastWordNotArray DEF stack, OneMore
    <3>3. QED BY <1>5, <1>11, <3>2
  <2>2. ValueAt(merged, p) = ValueAt(o, p) /\ Stack(longer, p) = {n + 1} BY <1>1, <1>2, <1>11, <2>1
  <2>3. ItemsAt(o, p) = ValueAt(o, p).of BY DEF ItemsAt, ValueAt
  <2>4. LastItems(longer, p) = ToSet(ValueAt(o, p).of)
    BY <1>4, <2>2, <2>3 DEF LastItems
  <2>5. Coded(longer, p) => OncePerCode(ValueAt(o, p).of) BY <2>2, <2>3 DEF Coded
  <2>6. QED BY <1>8, <1>11, <2>2, <2>4, <2>5 DEF merged
<1>12. CASE Says(o, p) /\ ValueAt(o, p).kind = "array" /\ stack # {}
  <2> DEFINE base == ValueAt(d, p).of
             override == ValueAt(o, p).of
             both == _merge_arrays(base, override)
  <2>1. /\ ValueAt(d, p).kind = "array" /\ ValueAt(merged, p) = Array(both)
        /\ Stack(longer, p) = stack \cup {n + 1}
    BY <1>1, <1>2, <1>6, <1>12
  <2>2. IsArray(base) /\ IsArray(override) BY <1>12, <2>1 DEF IsDocument
  <2>3. ItemsAt(o, p) = override BY DEF ItemsAt, ValueAt
  <2>4. ASSUME Coded(longer, p)
        PROVE  OncePerCode(both) /\ ToSet(both) = LastItems(longer, p)
    <3>1. Coded(layers, p) BY <1>7, <2>1, <2>4 DEF Coded, stack
    <3>2. OncePerCode(base) /\ ToSet(base) = LastItems(layers, p) BY <1>6, <1>12, <3>1
    <3>3. OncePerCode(override) BY <2>1, <2>3, <2>4 DEF Coded
    <3>4. MergesByCode(base, override, both) BY <2>2, <3>2, <3>3, MergeArraysByCode
    <3>5. LastItems(longer, p) =
            {x \in LastItems(layers, p) : \A y \in ToSet(override) : Code(y) # Code(x)}
              \cup ToSet(override)
      BY <2>1, <2>3, LastItemsNext DEF stack
    <3> HIDE DEF base, override, both
    <3>6. QED BY <3>2, <3>4, <3>5 DEF MergesByCode
  <2> HIDE DEF both
  <2>5. ValueAt(merged, p).kind = "array" /\ ValueAt(merged, p).of = both BY <2>1 DEF Array
  <2>6. QED BY <1>8, <2>1, <2>4, <2>5 DEF merged
<1>13. QED BY <1>9, <1>10, <1>11, <1>12 DEF merged

-----------------------------------------------------------------------------
(* Every answer is what its program makes of the files as they are.        *)

LayerFiles == Overrides \cup {Missing}

Computed(a, s) ==
  a.kind = "resolved" =>
    /\ a.root \in Range(SkillRoots) /\ customize[a.root][s].kind = "table"
    /\ a.data = Customization(a.root, s)

EntryInv(e) ==
  /\ e.name \in SkillNames /\ e.root \in Range(SkillRoots)
  /\ customize[e.root][e.name].kind = "table"
  /\ e.has_team_override <=> custom[Here][e.name].team.kind # "missing"
  /\ e.has_user_override <=> custom[Here][e.name].user.kind # "missing"

BmadInv ==
  /\ DOMAIN customize = Range(SkillRoots)
  /\ \A r \in Range(SkillRoots), s \in SkillNames : customize[r][s] \in Defaults[r]
  /\ custom \in [Projects -> [SkillNames -> [team : LayerFiles, user : LayerFiles]]]
  /\ central \in [1 .. 4 -> LayerFiles]
  /\ DOMAIN answer = SkillNames
  /\ \A s \in SkillNames : Computed(answer[s], s)
  /\ settings.kind = "resolved" => settings.data = Configuration
  /\ catalog.kind = "listed" => \A e \in catalog.found.entries : EntryInv(e)

LEMMA LoadedIsDocument ==
  ASSUME NEW file \in Overrides \cup {Missing} \cup UNION Range(Defaults)
  PROVE  IsDocument(load_toml(file))
<1>1. CASE file.kind = "table"
  <2>1. file # Missing BY <1>1 DEF Missing
  <2>2. file = Document([p \in DOMAIN file.of |-> file.of[p]]) /\ WellFormed(file)
    BY <1>1, <2>1, BmadAssumption
  <2>3. ASSUME NEW p, ValueAt(file, p).kind = "array"
        PROVE  ValueAt(file, p) = Array(ValueAt(file, p).of) /\ IsArray(ValueAt(file, p).of)
    <3>1. p \in DOMAIN file.of BY <2>3 DEF ValueAt, extract_key, Missing
    <3>2. ValueAt(file, p) = file.of[p] BY <3>1 DEF ValueAt, extract_key
    <3>3. QED BY <2>2, <2>3, <3>1, <3>2 DEF WellFormed, IsArray
  <2>4. QED BY <1>1, <2>2, <2>3 DEF load_toml, IsDocument
<1>2. CASE file.kind # "table"
  <2> DEFINE empty == [p \in {} |-> Missing]
             d == Document(empty)
  <2>1. load_toml(file) = d BY <1>2 DEF load_toml
  <2>2. d.of = empty BY DEF Document
  <2>3. d = Document([p \in DOMAIN d.of |-> d.of[p]]) BY <2>2
  <2>4. \A p : ValueAt(d, p) = Missing BY <2>2 DEF ValueAt, extract_key
  <2>5. Missing.kind # "array" BY DEF Missing
  <2> HIDE DEF d
  <2>6. QED BY <2>1, <2>3, <2>4, <2>5 DEF IsDocument
<1>3. QED BY <1>1, <1>2

(* Three layers, merged one after the other.                               *)
First(layers, n) == [i \in 1 .. n |-> layers[i]]

LEMMA FirstLayers ==
  ASSUME NEW layers, NEW n \in Nat, n >= 1
  PROVE  OneMore(First(layers, n), First(layers, n + 1), n)
BY DEF First, OneMore

LEMMA ThreeLayers ==
  ASSUME NEW layers, IsDocument(layers[1]), IsDocument(layers[2]), IsDocument(layers[3]), NEW p
  PROVE  LET merged == deep_merge(layers[1], layers[2])
             all == deep_merge(merged, layers[3])
         IN  /\ IsDocument(merged) /\ IsDocument(all)
             /\ Follows(all, First(layers, 3), p)
<1> DEFINE merged == deep_merge(layers[1], layers[2])
           all == deep_merge(merged, layers[3])
<1>1. /\ First(layers, 1)[1] = layers[1] /\ DOMAIN First(layers, 1) = {1}
      /\ First(layers, 2)[2] = layers[2] /\ First(layers, 3)[3] = layers[3]
      /\ OneMore(First(layers, 1), First(layers, 2), 1)
      /\ OneMore(First(layers, 2), First(layers, 3), 2)
  <2>1. OneMore(First(layers, 1), First(layers, 1 + 1), 1) BY FirstLayers
  <2>2. OneMore(First(layers, 2), First(layers, 2 + 1), 2) BY FirstLayers
  <2>3. 1 + 1 = 2 /\ 2 + 1 = 3 /\ 1 .. 1 = {1} OBVIOUS
  <2>4. QED BY <2>1, <2>2, <2>3 DEF First
<1>2. Follows(layers[1], First(layers, 1), p) BY <1>1, FollowsAlone
<1>3. Follows(merged, First(layers, 2), p)
  <2>1. First(layers, 2)[1 + 1] = layers[2] BY <1>1
  <2>2. QED BY <1>1, <1>2, <2>1, FollowsNext
<1>4. IsDocument(merged) BY MergeIsDocument
<1> HIDE DEF merged
<1>5. Follows(all, First(layers, 3), p)
  <2>1. First(layers, 3)[2 + 1] = layers[3] BY <1>1
  <2>2. QED BY <1>1, <1>3, <1>4, <2>1, FollowsNext
<1>6. IsDocument(all) BY <1>4, MergeIsDocument
<1>7. QED BY <1>4, <1>5, <1>6 DEF merged

LEMMA FourLayers ==
  ASSUME NEW layers, IsDocument(layers[1]), IsDocument(layers[2]),
         IsDocument(layers[3]), IsDocument(layers[4]), NEW p
  PROVE  LET merged == deep_merge(layers[1], layers[2])
             withTeam == deep_merge(merged, layers[3])
         IN  Follows(deep_merge(withTeam, layers[4]), First(layers, 4), p)
<1> DEFINE merged == deep_merge(layers[1], layers[2])
           withTeam == deep_merge(merged, layers[3])
<1>1. IsDocument(withTeam) /\ Follows(withTeam, First(layers, 3), p) BY ThreeLayers
<1>2. OneMore(First(layers, 3), First(layers, 4), 3) /\ First(layers, 4)[3 + 1] = layers[4]
  <2>1. OneMore(First(layers, 3), First(layers, 3 + 1), 3) BY FirstLayers
  <2>2. 3 + 1 = 4 OBVIOUS
  <2>3. QED BY <2>1, <2>2 DEF First
<1> HIDE DEF withTeam
<1>3. QED BY <1>1, <1>2, FollowsNext DEF withTeam

LEMMA ProjectOf ==
  ASSUME NEW root \in Range(SkillRoots)
  PROVE  (CHOOSE q \in find_project_root(root) : TRUE) \in Projects
<1>1. find_project_root(root) # {} /\ find_project_root(root) \subseteq Projects
  BY BmadAssumption DEF find_project_root, Projects
<1> HIDE DEF find_project_root
<1>2. QED BY <1>1

LEMMA SkillLayers ==
  ASSUME BmadInv, NEW root \in Range(SkillRoots), NEW s \in SkillNames,
         customize[root][s].kind = "table"
  PROVE  LET layers == LayersOf(root, s)
         IN  /\ layers = First(layers, 3) /\ \A i \in 1 .. 3 : IsDocument(layers[i])
             /\ layers[1] = customize[root][s]
<1> DEFINE q == CHOOSE x \in find_project_root(root) : TRUE
           layers == LayersOf(root, s)
<1>1. layers = <<customize[root][s], load_toml(custom[q][s].team), load_toml(custom[q][s].user)>>
  BY DEF LayersOf
<1>2. custom[q][s].team \in LayerFiles /\ custom[q][s].user \in LayerFiles
  BY ProjectOf DEF BmadInv
<1>3. customize[root][s] \in UNION Range(Defaults) BY BmadAssumption DEF BmadInv, Range
<1>4. load_toml(customize[root][s]) = customize[root][s] BY DEF load_toml
<1> HIDE DEF q
<1>5. IsDocument(layers[1]) /\ IsDocument(layers[2]) /\ IsDocument(layers[3])
  BY <1>1, <1>2, <1>3, <1>4, LoadedIsDocument DEF LayerFiles
<1>6. layers = First(layers, 3)
  <2>1. DOMAIN layers = 1 .. 3 BY <1>1
  <2>2. layers = [i \in DOMAIN layers |-> layers[i]] BY <1>1
  <2> HIDE DEF layers
  <2>3. QED BY <2>1, <2>2 DEF First
<1>7. 1 .. 3 = {1, 2, 3} OBVIOUS
<1>8. layers[1] = customize[root][s] BY <1>1
<1> HIDE DEF layers
<1>9. \A i \in 1 .. 3 : IsDocument(layers[i]) BY <1>5, <1>7
<1>10. QED BY <1>6, <1>8, <1>9 DEF layers

LEMMA CustomizationFollows ==
  ASSUME BmadInv, NEW root \in Range(SkillRoots), NEW s \in SkillNames,
         customize[root][s].kind = "table", NEW p
  PROVE  Follows(Customization(root, s), LayersOf(root, s), p)
<1> DEFINE layers == LayersOf(root, s)
<1>1. /\ layers = First(layers, 3)
      /\ IsDocument(layers[1]) /\ IsDocument(layers[2]) /\ IsDocument(layers[3])
  BY SkillLayers
<1>2. Customization(root, s) = deep_merge(deep_merge(layers[1], layers[2]), layers[3])
  BY DEF Customization
<1> HIDE DEF layers
<1>3. Follows(deep_merge(deep_merge(layers[1], layers[2]), layers[3]), First(layers, 3), p)
  BY <1>1, ThreeLayers
<1>4. QED BY <1>1, <1>2, <1>3 DEF layers

LEMMA ConfigurationFollows ==
  ASSUME BmadInv, NEW p
  PROVE  Follows(Configuration, ConfigLayers, p)
<1> DEFINE layers == ConfigLayers
<1>1. /\ DOMAIN layers = 1 .. 4 /\ \A i \in 1 .. 4 : layers[i] = load_toml(central[i])
      /\ layers = [i \in 1 .. 4 |-> layers[i]]
  BY DEF ConfigLayers, BmadInv
<1>2. \A i \in 1 .. 4 : central[i] \in LayerFiles BY DEF BmadInv
<1>3. \A i \in 1 .. 4 : IsDocument(layers[i]) BY <1>1, <1>2, LoadedIsDocument DEF LayerFiles
<1>4. layers = First(layers, 4) BY <1>1 DEF First
<1>5. Configuration
        = deep_merge(deep_merge(deep_merge(layers[1], layers[2]), layers[3]), layers[4])
  BY DEF Configuration
<1> HIDE DEF layers
<1>6. IsDocument(layers[1]) /\ IsDocument(layers[2]) /\ IsDocument(layers[3]) /\ IsDocument(layers[4])
  BY <1>3
<1>7. Follows(deep_merge(deep_merge(deep_merge(layers[1], layers[2]), layers[3]), layers[4]),
              First(layers, 4), p)
  BY <1>6, FourLayers
<1>8. QED BY <1>4, <1>5, <1>7 DEF layers

(* No override leaves the defaults as they are.                            *)
LEMMA MergeWithNothing ==
  ASSUME NEW d, IsDocument(d), NEW file, file.kind # "table"
  PROVE  deep_merge(d, load_toml(file)) = d
<1> DEFINE o == load_toml(file)
<1>1. DOMAIN o.of = {}
  <2>1. o = Document([p \in {} |-> Missing]) BY DEF load_toml
  <2>2. o.of = [p \in {} |-> Missing] BY <2>1 DEF Document
  <2> HIDE DEF o
  <2>3. QED BY <2>2
<1> HIDE DEF o
<1>2. \A p : ~CutsOff(o, p) BY <1>1 DEF CutsOff
<1>3. deep_merge(d, o) = Document([p \in DOMAIN d.of |-> d.of[p]])
  BY <1>1, <1>2 DEF deep_merge
<1>4. QED BY <1>3 DEF IsDocument, o

LEMMA CatalogFollows ==
  ASSUME BmadInv PROVE CatalogAgreesWithResolver
<1> SUFFICES ASSUME catalog.kind = "listed", NEW e \in catalog.found.entries,
                    answer[e.name].kind = "resolved", answer[e.name].root = e.root,
                    RootOf[e.root] = {Here}
             PROVE  LET said == answer[e.name]
                        user == custom[Here][e.name].user
                    IN  /\ ~e.has_team_override /\ ~e.has_user_override =>
                             said.data = customize[e.root][e.name]
                        /\ user.kind = "table" => e.has_user_override /\
                             \A p \in DOMAIN user.of : user.of[p].kind # "array" =>
                               extract_key(said.data, p) = user.of[p]
  BY DEF CatalogAgreesWithResolver
<1> DEFINE team == custom[Here][e.name].team
           user == custom[Here][e.name].user
           base == customize[e.root][e.name]
           merged == deep_merge(base, load_toml(team))
<1>1. EntryInv(e) /\ Computed(answer[e.name], e.name) BY DEF BmadInv, EntryInv
<1>2. LayersOf(e.root, e.name) = <<base, load_toml(team), load_toml(user)>>
  <2>1. (CHOOSE q \in find_project_root(e.root) : TRUE) = Here BY DEF find_project_root
  <2>2. QED BY <2>1 DEF LayersOf
<1>3. answer[e.name].data = deep_merge(merged, load_toml(user))
  BY <1>1, <1>2 DEF Computed, Customization
<1>4. IsDocument(base)
  <2>1. base = LayersOf(e.root, e.name)[1] BY <1>2
  <2>2. 1 \in 1 .. 3 OBVIOUS
  <2>3. QED BY <1>1, <2>1, <2>2, SkillLayers DEF EntryInv
<1> HIDE DEF base, merged
<1>5. ASSUME ~e.has_team_override, ~e.has_user_override
      PROVE  answer[e.name].data = base
  <2>1. team.kind # "table" /\ user.kind # "table" BY <1>1, <1>5 DEF EntryInv
  <2>2. merged = base BY <1>4, <2>1, MergeWithNothing DEF merged
  <2>3. QED BY <1>3, <1>4, <2>1, <2>2, MergeWithNothing
<1>6. ASSUME user.kind = "table"
      PROVE  e.has_user_override /\
               \A p \in DOMAIN user.of : user.of[p].kind # "array" =>
                 extract_key(answer[e.name].data, p) = user.of[p]
  <2>1. e.has_user_override BY <1>1, <1>6 DEF EntryInv
  <2>2. load_toml(user) = user BY <1>6 DEF load_toml
  <2>3. ASSUME NEW p \in DOMAIN user.of, user.of[p].kind # "array"
        PROVE  ValueAt(answer[e.name].data, p) = user.of[p]
    <3>1. Says(user, p) /\ ValueAt(user, p) = user.of[p] BY DEF Says, ValueAt, extract_key
    <3>2. QED BY <1>3, <2>2, <2>3, <3>1, MergeAtPath
  <2>4. QED BY <2>1, <2>3 DEF ValueAt
<1>7. QED BY <1>5, <1>6 DEF base

(* What a scan finds is so.                                                *)
Entry == [name : SkillNames, root : Range(SkillRoots), surface : SURFACE_KEYS,
          has_team_override : BOOLEAN, has_user_override : BOOLEAN]
ScanState ==
  [seen : SUBSET SkillNames, entries : SUBSET {e \in Entry : EntryInv(e)},
   errors : SUBSET ({"failed to parse", "no block"} \X Range(SkillRoots) \X SkillNames)]

LEMMA ScanRootType ==
  ASSUME NEW found \in ScanState, NEW root \in Range(SkillRoots)
  PROVE  ScanRoot(found, root) \in ScanState
<1> DEFINE files == customize[root]
           parsed == {s \in SkillNames : files[s].kind = "table"}
           new == parsed \ found.seen
           surfaces(s) == {k \in SURFACE_KEYS : <<k>> \in DOMAIN files[s].of}
           entry(s, k) == [name |-> s, root |-> root, surface |-> k,
                           has_team_override |-> custom[Here][s].team.kind # "missing",
                           has_user_override |-> custom[Here][s].user.kind # "missing"]
           entries == UNION {{entry(s, k) : k \in surfaces(s)} : s \in new}
           errors == {<<"failed to parse", root, s>> : s \in
                         {x \in SkillNames : files[x].kind = "unparsable"}}
                       \cup {<<"no block", root, s>> : s \in {x \in new : surfaces(x) = {}}}
<1>1. ScanRoot(found, root) =
        [seen |-> found.seen \cup new, entries |-> found.entries \cup entries,
         errors |-> found.errors \cup errors]
  BY DEF ScanRoot
<1>2. new \subseteq SkillNames OBVIOUS
<1>3. \A s \in new, k \in SURFACE_KEYS : entry(s, k) \in Entry /\ EntryInv(entry(s, k))
  BY DEF Entry, EntryInv
<1>4. \A s : surfaces(s) \subseteq SURFACE_KEYS OBVIOUS
<1> DEFINE Messages == {"failed to parse", "no block"} \X Range(SkillRoots) \X SkillNames
<1>5. errors \subseteq Messages
  <2> DEFINE broken == {x \in SkillNames : files[x].kind = "unparsable"}
             without == {x \in new : surfaces(x) = {}}
  <2>1. broken \subseteq SkillNames /\ without \subseteq SkillNames OBVIOUS
  <2> HIDE DEF broken, without
  <2>2. \A s \in SkillNames :
          <<"failed to parse", root, s>> \in Messages /\ <<"no block", root, s>> \in Messages
    OBVIOUS
  <2> HIDE DEF Messages
  <2>3. QED BY <2>1, <2>2 DEF broken, without
<1> HIDE DEF new, surfaces, entry, errors
<1>6. entries \subseteq {e \in Entry : EntryInv(e)} BY <1>3, <1>4
<1>7. /\ found.seen \subseteq SkillNames /\ found.errors \subseteq Messages
      /\ found.entries \subseteq {e \in Entry : EntryInv(e)}
  BY DEF ScanState
<1> HIDE DEF entries, Messages
<1>8. /\ found.seen \cup new \subseteq SkillNames /\ found.errors \cup errors \subseteq Messages
      /\ found.entries \cup entries \subseteq {e \in Entry : EntryInv(e)}
  BY <1>2, <1>5, <1>6, <1>7
<1> DEFINE Good == {e \in Entry : EntryInv(e)}
<1>9. ScanState = [seen : SUBSET SkillNames, entries : SUBSET Good, errors : SUBSET Messages]
  BY DEF ScanState, Messages
<1>10. found.entries \cup entries \subseteq Good BY <1>8
<1> HIDE DEF Good
<1>11. QED BY <1>1, <1>8, <1>9, <1>10

LEMMA FoundType == Found \in ScanState
<1> DEFINE N == Len(SkillRoots)
           none == [seen |-> {}, entries |-> {}, errors |-> {}]
           body(a, i) == IF i = 0 THEN none ELSE ScanRoot(a[i - 1], SkillRoots[i])
           scanned == CHOOSE a : a = [i \in 0 .. N |-> body(a, i)]
           States == ScanState
           pass == [i \in 1 .. N |-> [s \in States |-> ScanRoot(s, SkillRoots[i])]]
<1>1. Found = scanned[N] BY DEF Found
<1>2. N \in Nat /\ \A i \in 1 .. N : SkillRoots[i] \in Range(SkillRoots)
  BY BmadAssumption, LenProperties DEF Range
<1> HIDE DEF N
<1>3. pass \in [1 .. N -> [States -> States]]
  <2>1. \A i \in 1 .. N, s \in States : ScanRoot(s, SkillRoots[i]) \in States
    BY <1>2, ScanRootType
  <2> HIDE DEF States
  <2>2. QED BY <2>1
<1>4. none \in States BY DEF ScanState
<1> HIDE DEF States, none
<1>5. PICK f : LoopStates(f, N, States, none, pass)
  <2> HIDE DEF pass
  <2>1. QED BY <1>2, <1>3, <1>4, LoopComputes
<1>6. f = [i \in 0 .. N |-> body(f, i)]
  <2>1. ASSUME NEW i \in 1 .. N PROVE pass[i][f[i - 1]] = body(f, i)
    <3>1. f[i - 1] \in States /\ i # 0 BY <1>2, <1>5 DEF LoopStates
    <3>2. QED BY <3>1
  <2>2. body(f, 0) = none OBVIOUS
  <2> HIDE DEF body, pass
  <2>3. \A i \in 0 .. N : f[i] = body(f, i)
    <3>1. \A i \in 1 .. N : f[i] = body(f, i) BY <1>5, <2>1 DEF LoopStates
    <3>2. f[0] = body(f, 0) BY <1>5, <2>2 DEF LoopStates
    <3>3. \A i \in 0 .. N : i = 0 \/ i \in 1 .. N BY <1>2
    <3>4. QED BY <3>1, <3>2, <3>3
  <2>4. QED BY <1>5, <2>3 DEF LoopStates
<1>7. scanned = [i \in 0 .. N |-> body(scanned, i)]
  <2> HIDE DEF body
  <2>1. QED BY <1>6
<1> HIDE DEF scanned, pass
<1>8. \A i \in 0 .. N : scanned[i] \in States
  <2> DEFINE good == {i \in 0 .. N : scanned[i] \in States}
  <2>0. \A i \in 0 .. N : scanned[i] = body(scanned, i)
    <3> HIDE DEF body
    <3>1. QED BY <1>7
  <2>1. 0 \in good
    <3>1. 0 \in 0 .. N BY <1>2
    <3>2. scanned[0] = none BY <2>0, <3>1
    <3>3. QED BY <1>4, <3>1, <3>2
  <2>2. ASSUME NEW i \in 1 .. N, i - 1 \in good PROVE i \in good
    <3>1. i \in 0 .. N /\ i # 0 BY <1>2
    <3>2. scanned[i] = ScanRoot(scanned[i - 1], SkillRoots[i]) BY <2>0, <3>1
    <3>3. scanned[i - 1] \in ScanState /\ SkillRoots[i] \in Range(SkillRoots)
      BY <1>2, <2>2 DEF States
    <3>4. ScanRoot(scanned[i - 1], SkillRoots[i]) \in ScanState BY <3>3, ScanRootType
    <3>5. QED BY <3>1, <3>2, <3>4 DEF States
  <2> HIDE DEF good
  <2>3. \A i \in 0 .. N : i \in good BY <1>2, <2>1, <2>2, LoopKeeps
  <2>4. QED BY <2>3 DEF good
<1>9. N \in 0 .. N BY <1>2
<1>10. QED BY <1>1, <1>8, <1>9 DEF States

LEMMA BmadInitInv == BmadInit => BmadInv
<1> SUFFICES ASSUME BmadInit PROVE BmadInv OBVIOUS
<1>1. /\ DOMAIN customize = Range(SkillRoots)
      /\ \A r \in Range(SkillRoots), s \in SkillNames : customize[r][s] \in Defaults[r]
  BY DEF BmadInit
<1>2. custom \in [Projects -> [SkillNames -> [team : LayerFiles, user : LayerFiles]]]
  BY DEF BmadInit, LayerFiles
<1>3. central \in [1 .. 4 -> LayerFiles] BY DEF BmadInit, LayerFiles, ConfigFiles
<1>4. /\ DOMAIN answer = SkillNames /\ \A s \in SkillNames : Computed(answer[s], s)
      /\ settings.kind # "resolved" /\ catalog.kind # "listed"
  BY DEF BmadInit, Nothing, Computed
<1>5. QED BY <1>1, <1>2, <1>3, <1>4 DEF BmadInv

(* An edit voids the answers that read the file.                           *)
LEMMA EditOverrideKeepsInv ==
  ASSUME BmadInv, NEW p \in Projects, NEW s \in SkillNames, NEW layer \in {"team", "user"},
         EditOverride(p, s, layer)
  PROVE  BmadInv'
<1>1. PICK file \in Overrides : custom' = [custom EXCEPT ![p][s][layer] = file]
  BY DEF EditOverride
<1>2. /\ customize' = customize /\ central' = central /\ settings' = settings
      /\ answer' = [answer EXCEPT ![s] = Nothing] /\ catalog' = Nothing
  BY DEF EditOverride
<1>3. custom' \in [Projects -> [SkillNames -> [team : LayerFiles, user : LayerFiles]]]
  <2> DEFINE Both == [team : LayerFiles, user : LayerFiles]
             both == [custom[p][s] EXCEPT ![layer] = file]
             skills == [custom[p] EXCEPT ![s] = both]
  <2>1. custom \in [Projects -> [SkillNames -> Both]] BY DEF BmadInv
  <2>2. both \in Both
    <3>1. custom[p][s] \in Both /\ file \in LayerFiles BY <2>1 DEF LayerFiles
    <3>2. CASE layer = "team" BY <3>1, <3>2
    <3>3. CASE layer = "user" BY <3>1, <3>3
    <3>4. QED BY <3>2, <3>3
  <2>3. custom' = [custom EXCEPT ![p] = skills] BY <1>1
  <2> HIDE DEF Both, both
  <2>4. skills \in [SkillNames -> Both] BY <2>1, <2>2
  <2> HIDE DEF skills
  <2>5. custom' \in [Projects -> [SkillNames -> Both]] BY <2>1, <2>3, <2>4
  <2>6. QED BY <2>5 DEF Both
<1>4. \A q \in Projects, t \in SkillNames : t # s => custom'[q][t] = custom[q][t]
  BY <1>1 DEF BmadInv
<1>5. ASSUME NEW t \in SkillNames PROVE Computed(answer[t], t)'
  <2>1. CASE t = s
    <3>1. answer'[t].kind = "nothing" BY <1>2, <2>1 DEF BmadInv, Nothing
    <3>2. QED BY <3>1 DEF Computed
  <2>2. CASE t # s
    <3>1. answer'[t] = answer[t] /\ Computed(answer[t], t) BY <1>2, <2>2 DEF BmadInv
    <3>2. ASSUME NEW root \in Range(SkillRoots)
          PROVE  Customization(root, t)' = Customization(root, t)
      <4>1. custom'[CHOOSE q \in find_project_root(root) : TRUE][t]
              = custom[CHOOSE q \in find_project_root(root) : TRUE][t]
        BY <1>4, <2>2, ProjectOf
      <4>2. LayersOf(root, t)' = LayersOf(root, t) BY <1>2, <4>1 DEF LayersOf
      <4>3. QED BY <4>2 DEF Customization
    <3>3. QED BY <1>2, <3>1, <3>2 DEF Computed
  <2>3. QED BY <2>1, <2>2
<1>6. Configuration' = Configuration BY <1>2 DEF Configuration, ConfigLayers
<1>7. DOMAIN answer' = SkillNames /\ catalog'.kind # "listed" BY <1>2 DEF BmadInv, Nothing
<1>8. QED BY <1>2, <1>3, <1>5, <1>6, <1>7 DEF BmadInv

LEMMA BmadStepKeepsInv == BmadInv /\ [BmadNext]_bmadVars => BmadInv'
<1> SUFFICES ASSUME BmadInv, [BmadNext]_bmadVars PROVE BmadInv' OBVIOUS
<1>1. CASE \E p \in Projects, s \in SkillNames, layer \in {"team", "user"} :
             EditOverride(p, s, layer)
  BY <1>1, EditOverrideKeepsInv
<1>2. ASSUME customize' = customize, custom' = custom
      PROVE  /\ \A root, s : Customization(root, s)' = Customization(root, s)
             /\ \A e : EntryInv(e)' <=> EntryInv(e)
             /\ \A a, s : Computed(a, s)' <=> Computed(a, s)
  BY <1>2 DEF Customization, LayersOf, EntryInv, Computed
<1>3. CASE \E i \in DOMAIN ConfigFiles : EditConfig(i)
  <2>1. PICK i \in 1 .. 4, file \in Overrides : central' = [central EXCEPT ![i] = file]
    <3>1. DOMAIN ConfigFiles = 1 .. 4 BY DEF ConfigFiles
    <3>2. QED BY <1>3, <3>1 DEF EditConfig
  <2>2. /\ customize' = customize /\ custom' = custom /\ answer' = answer
        /\ catalog' = catalog /\ settings'.kind # "resolved"
    BY <1>3 DEF EditConfig, Nothing
  <2>3. central' \in [1 .. 4 -> LayerFiles] BY <2>1 DEF BmadInv, LayerFiles
  <2>4. QED BY <1>2, <2>2, <2>3 DEF BmadInv
<1>4. CASE \E root \in Range(SkillRoots), s \in SkillNames : resolve_customization(root, s)
  <2>1. PICK root \in Range(SkillRoots), s \in SkillNames : resolve_customization(root, s)
    BY <1>4
  <2>2. /\ customize' = customize /\ custom' = custom /\ central' = central
        /\ settings' = settings /\ catalog' = catalog
    BY <2>1 DEF resolve_customization
  <2> DEFINE new == IF EndsProgram(customize[root][s]) THEN [kind |-> "error"]
                    ELSE [kind |-> "resolved", root |-> root, data |-> Customization(root, s)]
  <2>3. answer' = [answer EXCEPT ![s] = new] BY <2>1 DEF resolve_customization
  <2>4. Computed(new, s) BY DEF Computed, EndsProgram
  <2> HIDE DEF new
  <2>5. DOMAIN answer' = SkillNames /\ \A t \in SkillNames : Computed(answer'[t], t)
    BY <2>3, <2>4 DEF BmadInv
  <2>6. Configuration' = Configuration BY <2>2 DEF Configuration, ConfigLayers
  <2>7. \A t \in SkillNames : Computed(answer[t], t)'
    BY <1>2, <2>2, <2>5 DEF Computed
  <2>8. QED BY <1>2, <2>2, <2>5, <2>6, <2>7 DEF BmadInv
<1>5. CASE resolve_config
  <2>1. /\ customize' = customize /\ custom' = custom /\ central' = central
        /\ answer' = answer /\ catalog' = catalog
    BY <1>5 DEF resolve_config
  <2>2. settings'.kind = "resolved" => settings'.data = Configuration
    BY <1>5 DEF resolve_config
  <2>3. Configuration' = Configuration BY <2>1 DEF Configuration, ConfigLayers
  <2>4. QED BY <1>2, <2>1, <2>2, <2>3 DEF BmadInv
<1>6. CASE scan_skills
  <2>1. /\ customize' = customize /\ custom' = custom /\ central' = central
        /\ answer' = answer /\ settings' = settings /\ catalog' = [kind |-> "listed", found |-> Found]
    BY <1>6 DEF scan_skills
  <2>2. \A e \in catalog'.found.entries : EntryInv(e) BY <2>1, FoundType DEF ScanState
  <2>3. Configuration' = Configuration BY <2>1 DEF Configuration, ConfigLayers
  <2>4. QED BY <1>2, <2>1, <2>2, <2>3 DEF BmadInv
<1>7. CASE UNCHANGED bmadVars
  <2>1. /\ customize' = customize /\ custom' = custom /\ central' = central
        /\ answer' = answer /\ settings' = settings /\ catalog' = catalog
    BY <1>7 DEF bmadVars
  <2>2. Configuration' = Configuration BY <2>1 DEF Configuration, ConfigLayers
  <2>3. QED BY <1>2, <2>1, <2>2 DEF BmadInv
<1>8. QED BY <1>1, <1>3, <1>4, <1>5, <1>6, <1>7 DEF BmadNext

LEMMA BmadInvImplies == BmadInv => SettingsInv
<1> SUFFICES ASSUME BmadInv PROVE SettingsInv OBVIOUS
<1>1. ASSUME NEW s \in SkillNames, answer[s].kind = "resolved"
      PROVE  FollowsAll(answer[s].data, LayersOf(answer[s].root, s))
  <2>1. Computed(answer[s], s) BY DEF BmadInv
  <2>2. QED BY <1>1, <2>1, CustomizationFollows DEF Computed, FollowsAll
<1>2. ASSUME settings.kind = "resolved" PROVE FollowsAll(settings.data, ConfigLayers)
  <2>1. settings.data = Configuration BY <1>2 DEF BmadInv
  <2>2. QED BY <2>1, ConfigurationFollows DEF FollowsAll
<1>3. QED BY <1>1, <1>2, CatalogFollows DEF SettingsInv, LayersResolve

(* At every path the last layer that says anything of it decides, arrays   *)
(* of items with codes add up to one item for each code, in both           *)
(* resolvers, for all files and edits; and the catalogue and the resolver  *)
(* speak of the same files.                                                *)
THEOREM SettingsResolve == BmadSpec => []SettingsInv
<1>1. BmadSpec => []BmadInv BY BmadInitInv, BmadStepKeepsInv, PTL DEF BmadSpec
<1>2. QED BY <1>1, BmadInvImplies, PTL
=============================================================================
