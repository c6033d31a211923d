----------------------------- MODULE BmadConfig -----------------------------
(***************************************************************************)
(* BMad's layered settings: what resolve_customization.py makes of a       *)
(* skill's defaults and a project's overrides, what resolve_config.py      *)
(* makes of the four central files, and what list_customizable_skills.py   *)
(* says of the skills installed and of the overrides there are for them.   *)
(* Files are edited between the runs of the three programs.                *)
(*                                                                         *)
(* A TOML document is kept as a function from paths, sequences of keys, to *)
(* what is there: a table, whose entries are at the paths below it, an     *)
(* array or a scalar. An item of an array that is a table is merged as a   *)
(* whole, so it keeps its fields. A file may be missing or not parse.      *)
(***************************************************************************)
EXTENDS Naturals, SequencesExt

CONSTANTS
  SkillNames,    \* skills
  SkillRoots,    \* directories with skills, in the order of the scan
  RootOf,        \* [directory -> set of the project its path lies in, or {}]
  Here,          \* the project that is worked on
  Defaults,      \* [directory -> what a customize.toml in it may hold]
  Overrides,     \* what any other file may hold
  MaxOverrides   \* bound on the number of edits

Scalar(x) == [kind |-> "scalar", of |-> x]
Array(items) == [kind |-> "array", of |-> items]
TableHere == [kind |-> "table"]
Item(fields) == [kind |-> "table", of |-> fields]
Document(entries) == [kind |-> "table", of |-> entries]
Missing == [kind |-> "missing"]
Unparsable == [kind |-> "unparsable"]

Paths == Seq(STRING) \ {<<>>}
Above(path) == {SubSeq(path, 1, n) : n \in 1 .. Len(path) - 1}

(* What a parser can make of a file: only tables have something below.     *)
WellFormed(document) ==
  \A p \in DOMAIN document.of :
    /\ p \in Paths
    /\ \A q \in Above(p) : q \in DOMAIN document.of /\ document.of[q].kind = "table"
    /\ document.of[p].kind = "array" =>
         document.of[p] = Array(document.of[p].of)
           /\ document.of[p].of \in Seq(Range(document.of[p].of))

Projects == {Here} \cup UNION {RootOf[r] : r \in DOMAIN RootOf}
ConfigFiles == <<"config.toml", "config.user.toml",
                 "custom/config.toml", "custom/config.user.toml">>

ASSUME BmadAssumption ==
  /\ SkillRoots \in Seq(Range(SkillRoots))
  /\ DOMAIN RootOf = Range(SkillRoots) /\ DOMAIN Defaults = Range(SkillRoots)
  /\ MaxOverrides \in Nat
  /\ \A file \in Overrides \cup UNION Range(Defaults) :
       file.kind \in {"table", "missing", "unparsable"}
         /\ file.kind = "table" =>
              file = Document([p \in DOMAIN file.of |-> file.of[p]]) /\ WellFormed(file)

VARIABLES
  customize,   \* [root -> [skill -> its customize.toml]]
  custom,      \* [project -> [skill -> [team, user]]], _bmad/custom
  central,     \* the project's four central files
  answer,      \* [skill -> what resolve_customization.py last said of it]
  settings,    \* what resolve_config.py last said
  catalog,     \* what list_customizable_skills.py last said
  edited       \* number of edits so far

bmadVars == <<customize, custom, central, answer, settings, catalog, edited>>

Nothing == [kind |-> "nothing"]

(* A file that is not there, or that does not parse, is an empty table; a  *)
(* required one ends the program.                                          *)
load_toml(file) == IF file.kind = "table" THEN file ELSE Document([p \in {} |-> Missing])
EndsProgram(file) == file.kind # "table"

_detect_keyed_merge_field(items) ==
  LET common == {f \in {"code", "id"} :
                   \A i \in DOMAIN items : items[i].kind = "table" /\ f \in DOMAIN items[i].of}
  IN  IF items = <<>> \/ common = {} THEN "none"
      ELSE IF "code" \in common THEN "code" ELSE "id"

(* An override put after the item it should replace. *)
Mut_merge_by_key(base, override, key) == base \o override

(* An override takes the place of the last item of the same key.           *)
MergeItem(items, item, key) ==
  LET same == {i \in DOMAIN items : items[i].of[key] = item.of[key]}
  IN  IF same = {} THEN Append(items, item)
      ELSE [items EXCEPT ![CHOOSE i \in same : \A j \in same : j <= i] = item]

_merge_by_key(base, override, key) ==
  LET result[n \in 0 .. Len(override)] ==
        IF n = 0 THEN base ELSE MergeItem(result[n - 1], override[n], key)
  IN  result[Len(override)]

_merge_arrays(base, override) ==
  LET field == _detect_keyed_merge_field(base \o override)
  IN  IF field = "none" THEN base \o override ELSE _merge_by_key(base, override, field)

(* A document has something above the path that is not a table.            *)
CutsOff(document, path) ==
  \E q \in Above(path) : q \in DOMAIN document.of /\ document.of[q].kind # "table"

(* Tables entry by entry, arrays by their shape, else the override wins    *)
(* and what the base had below is gone.                                    *)
deep_merge(base, override) ==
  LET kept == {p \in DOMAIN base.of : ~CutsOff(override, p)}
      arrays == {p \in DOMAIN base.of \cap DOMAIN override.of :
                   base.of[p].kind = "array" /\ override.of[p].kind = "array"}
  IN  Document([p \in kept \cup DOMAIN override.of |->
                  IF p \in arrays THEN Array(_merge_arrays(base.of[p].of, override.of[p].of))
                  ELSE IF p \in DOMAIN override.of THEN override.of[p]
                  ELSE base.of[p]])

(* The value at a path, or Missing. *)
extract_key(data, path) == IF path \in DOMAIN data.of THEN data.of[path] ELSE Missing

-----------------------------------------------------------------------------

BmadInit ==
  /\ customize \in [Range(SkillRoots) -> [SkillNames -> UNION Range(Defaults)]]
  /\ \A r \in Range(SkillRoots), s \in SkillNames : customize[r][s] \in Defaults[r]
  /\ custom = [p \in Projects |-> [s \in SkillNames |-> [team |-> Missing, user |-> Missing]]]
  /\ central = [i \in DOMAIN ConfigFiles |-> Missing]
  /\ answer = [s \in SkillNames |-> Nothing] /\ settings = Nothing /\ catalog = Nothing
  /\ edited = 0

(* Someone writes or deletes an override. What was said before is void.    *)
EditOverride(p, s, layer) ==
  /\ edited < MaxOverrides /\ edited' = edited + 1
  /\ \E file \in Overrides : custom' = [custom EXCEPT ![p][s][layer] = file]
  /\ answer' = [answer EXCEPT ![s] = Nothing] /\ catalog' = Nothing
  /\ UNCHANGED <<customize, central, settings>>

EditConfig(i) ==
  /\ edited < MaxOverrides /\ edited' = edited + 1
  /\ \E file \in Overrides : central' = [central EXCEPT ![i] = file]
  /\ settings' = Nothing
  /\ UNCHANGED <<customize, custom, answer, catalog>>

(* main: the project the skill lies in, else the one of the working        *)
(* directory, which is Here.                                               *)
find_project_root(root) == IF RootOf[root] # {} THEN RootOf[root] ELSE {Here}

(* The team's override on top of the user's. *)
MutLayersOf(root, s) ==
  LET p == CHOOSE q \in find_project_root(root) : TRUE
  IN  <<customize[root][s], load_toml(custom[p][s].user), load_toml(custom[p][s].team)>>

LayersOf(root, s) ==
  LET p == CHOOSE q \in find_project_root(root) : TRUE
  IN  <<customize[root][s], load_toml(custom[p][s].team), load_toml(custom[p][s].user)>>

(* The program's merges, one after the other. *)
Customization(root, s) ==
  LET layers == LayersOf(root, s)
      merged == deep_merge(layers[1], layers[2])
  IN  deep_merge(merged, layers[3])

resolve_customization(root, s) ==
  /\ answer' = [answer EXCEPT ![s] =
       IF EndsProgram(customize[root][s]) THEN [kind |-> "error"]
       ELSE [kind |-> "resolved", root |-> root, data |-> Customization(root, s)]]
  /\ UNCHANGED <<customize, custom, central, settings, catalog, edited>>

ConfigLayers == [i \in DOMAIN central |-> load_toml(central[i])]

Configuration ==
  LET layers == ConfigLayers
      merged == deep_merge(layers[1], layers[2])
      withTeam == deep_merge(merged, layers[3])
  IN  deep_merge(withTeam, layers[4])

(* config.toml is required, the other three are not. *)
resolve_config ==
  /\ settings' = IF EndsProgram(central[1]) THEN [kind |-> "error"]
                 ELSE [kind |-> "resolved", data |-> Configuration]
  /\ UNCHANGED <<customize, custom, central, answer, catalog, edited>>

SURFACE_KEYS == {"agent", "workflow"}

(* scan_skills: a name counts for the first root where its customize.toml  *)
(* parses, whatever blocks that one has.                                   *)
ScanRoot(found, root) ==
  LET files == customize[root]
      parsed == {s \in SkillNames : files[s].kind = "table"}
      new == parsed \ found.seen
      surfaces(s) == {k \in SURFACE_KEYS : <<k>> \in DOMAIN files[s].of}
  IN  [seen |-> found.seen \cup new,
       entries |-> found.entries \cup UNION {{
         [name |-> s, root |-> root, surface |-> k,
          has_team_override |-> custom[Here][s].team.kind # "missing",
          has_user_override |-> custom[Here][s].user.kind # "missing"]
            : k \in surfaces(s)} : s \in new},
       errors |-> found.errors
         \cup {<<"failed to parse", root, s>> : s \in
                 {x \in SkillNames : files[x].kind = "unparsable"}}
         \cup {<<"no block", root, s>> : s \in {x \in new : surfaces(x) = {}}}]

Found ==
  LET scanned[n \in 0 .. Len(SkillRoots)] ==
        IF n = 0 THEN [seen |-> {}, entries |-> {}, errors |-> {}]
        ELSE ScanRoot(scanned[n - 1], SkillRoots[n])
  IN  scanned[Len(SkillRoots)]

scan_skills ==
  /\ catalog' = [kind |-> "listed", found |-> Found]
  /\ UNCHANGED <<customize, custom, central, answer, settings, edited>>

BmadNext ==
  \/ \E p \in Projects, s \in SkillNames, layer \in {"team", "user"} : EditOverride(p, s, layer)
  \/ \E i \in DOMAIN ConfigFiles : EditConfig(i)
  \/ \E root \in Range(SkillRoots), s \in SkillNames : resolve_customization(root, s)
  \/ resolve_config
  \/ scan_skills

BmadSpec == BmadInit /\ [][BmadNext]_bmadVars

-----------------------------------------------------------------------------

(* A layer says something of a path: what is there, or that nothing is. *)
Says(layer, path) == path \in DOMAIN layer.of \/ CutsOff(layer, path)
LastWord(layers, path) ==
  LET saying == {i \in DOMAIN layers : Says(layers[i], path)}
  IN  IF saying = {} THEN Missing
      ELSE extract_key(layers[CHOOSE i \in saying : \A j \in saying : j <= i], path)

(* The layers whose arrays add up at a path: no later one says otherwise.  *)
Stack(layers, path) ==
  LET array(i) == extract_key(layers[i], path).kind = "array"
  IN  {i \in DOMAIN layers :
         array(i) /\ \A j \in DOMAIN layers : j >= i /\ Says(layers[j], path) => array(j)}

ItemsAt(layer, path) == extract_key(layer, path).of

(* Items with a code, none of which two have.                              *)
OncePerCode(items) ==
  /\ \A i \in DOMAIN items : items[i].kind = "table" /\ "code" \in DOMAIN items[i].of
  /\ \A i, j \in DOMAIN items : items[i].of["code"] = items[j].of["code"] => i = j

(* Of every code, the item of the last layer that has it. *)
LastItems(layers, path) ==
  LET stack == Stack(layers, path)
      at(i) == ToSet(ItemsAt(layers[i], path))
  IN  {item \in UNION {at(i) : i \in stack} :
         \E i \in stack : item \in at(i) /\ \A j \in stack : j > i =>
           \A other \in at(j) : other.of["code"] # item.of["code"]}

Follows(data, layers, path) ==
  LET stack == Stack(layers, path)
      said == extract_key(data, path)
  IN  IF stack = {} THEN said = LastWord(layers, path)
      ELSE /\ said.kind = "array"
           /\ (\A i \in stack : OncePerCode(ItemsAt(layers[i], path))) =>
                OncePerCode(said.of) /\ ToSet(said.of) = LastItems(layers, path)

FollowsAll(data, layers) ==
  \A p \in DOMAIN data.of \cup UNION {DOMAIN layers[i].of : i \in DOMAIN layers} :
    Follows(data, layers, p)

(* At every path the last layer that says anything of it decides, and      *)
(* below a value that is no table nothing of an earlier layer is left;     *)
(* where the arrays of several layers add up and their items have codes,   *)
(* an item replaces the one of its code and no other, none is lost or      *)
(* doubled, in both resolvers (the rules in resolve_customization.py       *)
(* 21-33, deep_merge 150-166).                                             *)
LayersResolve ==
  /\ \A s \in SkillNames :
       answer[s].kind = "resolved" => FollowsAll(answer[s].data, LayersOf(answer[s].root, s))
  /\ settings.kind = "resolved" => FollowsAll(settings.data, ConfigLayers)

(* The catalog and the resolver speak of the same files: where the catalog *)
(* lists a skill of this project and shows no override for it, the         *)
(* resolver gives its defaults, and where the user has a readable one the  *)
(* catalog shows it and the resolver gives every value it sets             *)
(* (list_customizable_skills.py 123-140 beside resolve_customization.py    *)
(* 191-206).                                                               *)
CatalogAgreesWithResolver ==
  catalog.kind = "listed" =>
    \A e \in catalog.found.entries :
      LET said == answer[e.name]
          user == custom[Here][e.name].user
      IN  said.kind = "resolved" /\ said.root = e.root /\ RootOf[e.root] = {Here} =>
            /\ ~e.has_team_override /\ ~e.has_user_override =>
                 said.data = customize[e.root][e.name]
            /\ user.kind = "table" => e.has_user_override /\
                 \A p \in DOMAIN user.of : user.of[p].kind # "array" =>
                   extract_key(said.data, p) = user.of[p]

(* Each program answers from the files as they are, and alike.             *)
SettingsInv == LayersResolve /\ CatalogAgreesWithResolver
=============================================================================
