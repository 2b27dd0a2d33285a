-------------------------------- MODULE Config --------------------------------
(***************************************************************************)
(* Configuration files: flow/hjson.py, flow/factory.py and the loading part *)
(* of flow/base.py.  A file is a record: its attributes, the files it       *)
(* imports, and the children it uses (None in all but primary files).  The  *)
(* value of an attribute is a record of its list, or of a scalar type and   *)
(* its value; wildcards in names of files are already expanded.            *)
(***************************************************************************)
EXTENDS Modes

CONSTANTS Flows  \* the flows that have a class: FLOW_HANDLERS

Scalar(type, val) == [type |-> type, val |-> val]
List(seq) == [list |-> seq]
IsList(v) == "list" \in DOMAIN v
ASSUME NoneIsNoList == None # List(<<>>)
DefaultsOf == [str |-> {""}, int |-> {0, -1}]  \* a bool is an int, as in Python

(* set_target_attribute(): lists are concatenated; of two scalars of a type *)
(* the one that is not a default is taken, and two of them must be equal.   *)
Conflict(old, new) ==
  \/ IsList(old) # IsList(new)
  \/ ~IsList(old) /\ (\/ old.type # new.type
                      \/ /\ old # new
                         /\ {old.val, new.val} \cap DefaultsOf[old.type] = {})
SetTarget(old, new) ==
  IF IsList(old) THEN List(old.list \o new.list)
  ELSE IF new.val \in DefaultsOf[old.type] THEN old ELSE new

(* The attributes of a file, merged into what is known.                     *)
MergeAttrs(target, attrs) ==
  LET both == {k \in DOMAIN target \cap DOMAIN attrs : target[k] # None}
  IN IF \E k \in both : Conflict(target[k], attrs[k]) THEN Exit
     ELSE [k \in DOMAIN target \cup DOMAIN attrs |->
             IF k \in both THEN SetTarget(target[k], attrs[k])
             ELSE IF k \in DOMAIN attrs THEN attrs[k] ELSE target[k]]

(* load_hjson(): the files still to load are a stack.  A file may not name  *)
(* one already seen, but may name another twice, which is loaded twice.     *)
(* A tool given on the command line is not overridden.                     *)
LoadFile(files, fixed, at) ==
  LET path == Last(at.work)
      attrs == [k \in DOMAIN files[path].attrs \ fixed |-> files[path].attrs[k]]
      Loaded(merged) ==
        [work |-> Front(at.work) \o files[path].imports,
         seen |-> at.seen \cup ToSet(files[path].imports), target |-> merged]
  IN IF at.work = <<>> THEN at
     ELSE IF path \notin DOMAIN files THEN Exit
     ELSE IF (files[path].uses # None /\ Cardinality(at.seen) > 1)
             \/ ToSet(files[path].imports) \cap at.seen # {} THEN Exit
     ELSE Then(MergeAttrs(at.target, attrs), Loaded)

(* Its loop ends: a file that names others is loaded once, or the second    *)
(* time finds them seen, so that no more are loaded than are named.         *)
NamesImported(files) == Cardinality(UNION {{p} \X DOMAIN files[p].imports : p \in DOMAIN files})
Load(files, path, initial, fixed) ==
  Then(FoldLeft(LAMBDA acc, step : Then(acc, LAMBDA at : LoadFile(files, fixed, at)),
                [work |-> <<path>>, seen |-> {path}, target |-> initial],
                [step \in 1..NamesImported(files) + 1 |-> step]),
       LAMBDA at : at.target)

(* _load_cfg(): the loaded data must name a known flow.                    *)
LoadCfg(files, path, initial) ==
  Then(Load(files, path, initial, DOMAIN initial \cap {"tool"}),
       LAMBDA data : IF "flow" \notin DOMAIN data THEN Exit
                     ELSE IF data.flow.val \in Flows THEN data ELSE Exit)

(* _process_overrides(): each override is of an attribute that exists, of   *)
(* its type, and only one of each.                                         *)
Overridden(cfg, overrides) ==
  IF \/ \E i \in DOMAIN overrides :
          \/ overrides[i].name \notin DOMAIN cfg \/ cfg[overrides[i].name] = None
          \/ IsList(cfg[overrides[i].name]) # IsList(overrides[i].value)
          \/ ~IsList(overrides[i].value) /\ cfg[overrides[i].name].type # overrides[i].value.type
     \/ \E i, j \in DOMAIN overrides : i # j /\ overrides[i].name = overrides[j].name
  THEN Exit
  ELSE [k \in DOMAIN cfg |->
          IF \E i \in DOMAIN overrides : overrides[i].name = k
          THEN overrides[CHOOSE i \in DOMAIN overrides : overrides[i].name = k].value ELSE cfg[k]]

(* FlowCfg.__init__(): the attributes the command line and the class set,   *)
(* the data merged into them, then the overrides.                          *)
Constructed(defaults, data) ==
  Then(MergeAttrs(defaults, data), LAMBDA merged : Overridden(merged, merged.overrides.list))

(* make_cfg() and _load_child_cfg(): the children of a primary file are of  *)
(* its flow and have none themselves; any other file is its only child.     *)
MakeCfgs(files, path, initial, defaults) ==
  LET Child(p, flow) ==
        IF p \notin DOMAIN files THEN Exit
        ELSE IF files[p].uses # None THEN Exit
        ELSE Then(LoadCfg(files, p, Put(initial, "flow", flow)), LAMBDA data : Constructed(defaults, data))
      Children(top) ==
        Then(Constructed(defaults, top),
             LAMBDA cfg : IF files[path].uses = None THEN <<cfg>>
                          ELSE AllOf([i \in DOMAIN files[path].uses |-> Child(files[path].uses[i], top.flow)]))
  IN Then(LoadCfg(files, path, initial), Children)
=============================================================================
