-------------------------- MODULE DistillerSources --------------------------
(***************************************************************************)
(* What the distillator is told of its source documents                    *)
(* (analyze_sources.py): which files the given paths, folders and patterns *)
(* stand for, how they group, and whether one compressor will do. A file   *)
(* is a directory and a name; names are known by what they are named after.*)
(***************************************************************************)
EXTENDS Naturals, SequencesExt

CONSTANTS
  Inputs,       \* arguments that may be given
  Listing,      \* [input -> the files it stands for, in order]
  NamedFile,    \* inputs that are the path of a file
  Companion,    \* [name -> the name of its base document, or the name itself]
  Included,     \* names with one of INCLUDE_EXTENSIONS
  Size,         \* [name -> its size in characters]
  MaxInputs     \* bound on the number of arguments

Files == UNION {ToSet(Listing[i]) : i \in Inputs}

ASSUME DistillerAssumption == Listing \in [Inputs -> Seq(Files)] /\ MaxInputs \in Nat

CHARS_PER_TOKEN == 4
SINGLE_COMPRESSOR_MAX_TOKENS == 15000
SINGLE_DISTILLATE_MAX_TOKENS == 5000

VARIABLES
  sources,      \* the files found
  analysis      \* what the program put out

distillerVars == <<sources, analysis>>

DistillerInit == sources = <<>> /\ analysis = [status |-> "none"]

(* Folders and patterns are filtered, a file given by its path is not.     *)
FilesOf(input) ==
  LET listed == Listing[input]
      kept[n \in 0 .. Len(listed)] ==
        IF n = 0 THEN <<>>
        ELSE IF input \in NamedFile \/ listed[n].name \in Included
        THEN Append(kept[n - 1], listed[n]) ELSE kept[n - 1]
  IN  kept[Len(listed)]

AllFiles(inputs) ==
  LET found[n \in 0 .. Len(inputs)] ==
        IF n = 0 THEN <<>> ELSE found[n - 1] \o FilesOf(inputs[n])
  IN  found[Len(inputs)]

(* Each file once, where it came first. *)
resolve_inputs(inputs) ==
  LET files == AllFiles(inputs)
      deduped[n \in 0 .. Len(files)] ==
        IF n = 0 THEN <<>>
        ELSE IF files[n] \in ToSet(deduped[n - 1]) THEN deduped[n - 1]
        ELSE Append(deduped[n - 1], files[n])
  IN  deduped[Len(files)]

IsCompanion(name) == Companion[name] # name

(* file_map: of several files of one name, the last. *)
Named(files, name) ==
  LET places == {i \in DOMAIN files : files[i].name = name}
  IN  {files[i] : i \in {k \in places : \A j \in places : j <= k}}

(* One file of the loop: passed over if its name is in a group already,    *)
(* put into the group of its base document, or kept for later.             *)
GroupNext(files, state, f) ==
  LET base == Companion[f.name]
      opens == base \notin DOMAIN state.groups
      primary == IF opens /\ base \notin state.assigned THEN Named(files, base) ELSE {}
      members == primary \cup {f} \cup (IF opens THEN {} ELSE state.groups[base])
  IN  IF f.name \in state.assigned THEN state
      ELSE IF IsCompanion(f.name)
      THEN [state EXCEPT
              !.groups = [k \in DOMAIN @ \cup {base} |-> IF k = base THEN members ELSE @[k]],
              !.assigned = @ \cup {f.name} \cup {p.name : p \in primary}]
      ELSE IF f.name \in DOMAIN state.groups THEN state
      ELSE [state EXCEPT !.ungrouped = @ \cup {f}]

NoGroups == [groups |-> [k \in {} |-> {}], assigned |-> {}, ungrouped |-> {}]

(* After all files have been seen, in their order. *)
Grouped(files) ==
  LET after[n \in 0 .. Len(files)] ==
        IF n = 0 THEN NoGroups ELSE GroupNext(files, after[n - 1], files[n])
  IN  after[Len(files)]

(* The files kept for later stand alone, whatever became of them. *)
Mutsuggest_groups(files) ==
  LET g == Grouped(files) IN {g.groups[k] : k \in DOMAIN g.groups} \cup {{f} : f \in g.ungrouped}

(* The groups, and alone what was kept and joined no group since.          *)
suggest_groups(files) ==
  LET g == Grouped(files)
  IN  {g.groups[k] : k \in DOMAIN g.groups}
        \cup {{f} : f \in {u \in g.ungrouped : u.name \notin g.assigned}}

Tokens(files) ==
  FoldLeft(LAMBDA sum, f : sum + Size[f.name], 0, files) \div CHARS_PER_TOKEN

analyze ==
  /\ analysis.status = "none"
  /\ \E n \in 1 .. MaxInputs : \E inputs \in [1 .. n -> Inputs] :
       LET files == resolve_inputs(inputs)
           tokens == Tokens(files)
       IN  /\ sources' = files
           /\ analysis' =
                IF files = <<>> THEN [status |-> "error"]
                ELSE [status |-> "ok",
                      groups |-> suggest_groups(files),
                      routing |-> IF Len(files) <= 3 /\ tokens <= SINGLE_COMPRESSOR_MAX_TOKENS
                                  THEN "single" ELSE "fan-out",
                      split |-> IF tokens \div 3 > SINGLE_DISTILLATE_MAX_TOKENS
                                THEN "likely" ELSE "unlikely"]

DistillerNext == analyze

DistillerSpec == DistillerInit /\ [][DistillerNext]_distillerVars

-----------------------------------------------------------------------------

DistinctNames(files) == \A i, j \in DOMAIN files : files[i].name = files[j].name => i = j

(* As long as no two sources have the same name, every source is in        *)
(* exactly one group, whatever the order of the arguments, and a companion *)
(* is with the document it is named after wherever that one leads no group *)
(* of its own (suggest_groups; names, not paths, decide what is assigned). *)
GroupsCoverFiles ==
  analysis.status = "ok" /\ DistinctNames(sources) =>
    /\ UNION analysis.groups = ToSet(sources)
    /\ \A g, h \in analysis.groups : g \cap h # {} => g = h
    /\ \A f, b \in ToSet(sources) :
         IsCompanion(f.name) /\ Companion[f.name] = b.name /\ ~IsCompanion(b.name)
           /\ (\A c \in ToSet(sources) : Companion[c.name] # f.name \/ c = f)
         => \E g \in analysis.groups : {f, b} \subseteq g
=============================================================================
