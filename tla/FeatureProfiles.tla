--------------------------- MODULE FeatureProfiles ---------------------------
(***************************************************************************)
(* What a named feature profile means. Profiles are in a table of the      *)
(* repository and may extend one another, drop and add columns, and take   *)
(* some of them several times. The table is read by two resolvers of their *)
(* own: the one of the diagnostics (single_factor_batch.rs) and the one of *)
(* the training (rust_runtime.rs), which has to choose the columns of the  *)
(* model from it.                                                          *)
(*                                                                         *)
(* A YAML mapping is a function from paths to leaves: the columns of a     *)
(* list are one leaf, the counts of repeat_columns one each. An entry of   *)
(* the table is [extends, file, own]: the parent or None, the mapping of   *)
(* the file its `path` names (no path: <<>>), and its other keys. None is  *)
(* also the answer where the code gives an error.                          *)
(***************************************************************************)
EXTENDS Integers, Sequences, SequencesExt, TLC

CONSTANTS None,
  Canonical(_)   \* the stored column of a column's name

SelectedKey == <<"selected_columns">>
DropKey == <<"drop_columns">>
AddKey == <<"add_columns">>
RepeatKey(c) == <<"repeat_columns", c>>

Empty == <<>>
Merge(base, overlay) == overlay @@ base
Under(m, keys) == {p \in DOMAIN m : p[1] \in keys}
Only(m, keys) == [p \in Under(m, keys) |-> m[p]]
Without(m, keys) == [p \in DOMAIN m \ Under(m, keys) |-> m[p]]
ListAt(m, path) == IF path \in DOMAIN m THEN m[path] ELSE <<>>

AddedOnce(columns, more) ==
  FoldLeft(LAMBDA acc, c : IF Contains(acc, c) THEN acc ELSE Append(acc, c), columns, more)
Dropped(columns, drop) == SelectSeq(columns, LAMBDA c : ~Contains(drop, c))

\* A bug: columns are added before the drop.
AddedThenDropped(columns, drop, add) == Dropped(AddedOnce(columns, add), drop)

Mutated(columns, drop, add) == AddedOnce(Dropped(columns, drop), add)

-----------------------------------------------------------------------------
(* The diagnostics.                                                        *)

Mutations == {"drop_columns", "add_columns"}

\* A level drops and adds after it has inherited, its repeats replace
\* those of its parent.
RECURSIVE Definition(_, _, _)
Definition(table, name, stack) ==
  IF name \in stack \/ name \notin DOMAIN table THEN None
  ELSE
    LET entry == table[name]
        own == entry.own
        parent == IF entry.extends = None THEN Empty
                  ELSE Definition(table, entry.extends, stack \cup {name})
        merged == Merge(parent, Merge(entry.file, Without(own, Mutations \cup {"repeat_columns"})))
        drop == ListAt(own, DropKey)
        add == ListAt(own, AddKey)
        mutated == IF drop = <<>> /\ add = <<>> THEN merged
                   ELSE Merge(merged, SelectedKey :> Mutated(merged[SelectedKey], drop, add))
        repeats == Only(own, {"repeat_columns"})
    IN  IF parent = None THEN None
        ELSE IF <<drop, add>> # <<<<>>, <<>>>> /\ SelectedKey \notin DOMAIN merged THEN None
        ELSE IF repeats = Empty THEN mutated
        ELSE Merge(Without(mutated, {"repeat_columns"}), repeats)

\* Each column as often as it is repeated.
Repeated(columns, profile) ==
  FoldLeft(LAMBDA acc, c :
             acc \o [n \in 1..(IF RepeatKey(c) \in DOMAIN profile
                               THEN profile[RepeatKey(c)] ELSE 1) |-> c],
           <<>>, columns)

\* resolve_feature_profile: the source columns, or all where none are named.
ProfileColumns(table, name, stored) ==
  LET profile == Definition(table, name, {})
  IN  IF profile = None THEN None
      ELSE IF SelectedKey \notin DOMAIN profile THEN stored
      ELSE Repeated(profile[SelectedKey], profile)

Canonicals(columns) == [n \in DOMAIN columns |-> Canonical(columns[n])]

\* The columns a diagnostic run reads; `override` is features.selected_columns.
SourceColumns(override, table, name, stored) ==
  LET columns == IF override # None THEN override ELSE ProfileColumns(table, name, stored)
  IN  IF columns = None THEN None
      ELSE IF columns = <<>> THEN stored
      ELSE IF ~(ToSet(Canonicals(columns)) \subseteq ToSet(stored)) THEN None
      ELSE AddedOnce(<<>>, Canonicals(columns))

Incremental(columns, baseline) == Dropped(columns, baseline)

-----------------------------------------------------------------------------
(* The training.                                                           *)

\* Every level is merged key by key, its drops and additions too.
RECURSIVE Training(_, _, _)
Training(table, name, stack) ==
  IF name \in stack \/ name \notin DOMAIN table THEN None
  ELSE
    LET entry == table[name]
        parent == IF entry.extends = None THEN Empty
                  ELSE Training(table, entry.extends, stack \cup {name})
    IN  IF parent = None THEN None ELSE Merge(Merge(parent, entry.file), entry.own)

\* Columns of the model and the stored column each is read from.
TrainingProfile(profile) ==
  IF profile = None THEN None
  ELSE IF SelectedKey \notin DOMAIN profile THEN <<>>
  ELSE LET columns == Mutated(profile[SelectedKey], ListAt(profile, DropKey),
                              ListAt(profile, AddKey))
       IN  Canonicals(Repeated(columns, profile))

\* A model is trained on all columns where the profile names none.
TrainingColumns(explicit, table, name, stored) ==
  LET columns == IF explicit # <<>> THEN Canonicals(explicit)
                 ELSE IF name = None THEN <<>>
                 ELSE TrainingProfile(Training(table, name, {}))
  IN  IF columns = None THEN None
      ELSE IF columns = <<>> THEN stored
      ELSE IF ToSet(columns) \subseteq ToSet(stored) THEN columns ELSE None

-----------------------------------------------------------------------------
(* The configuration of a run: the base, the experiment and the model, each *)
(* over the ones before. Both programs read the profiles of experiments    *)
(* like Training does; name, path and sweep are left out.                  *)

ModelKey == <<"model", "profile">>

ModelName(cfg, model) ==
  IF model # None THEN model ELSE IF ModelKey \in DOMAIN cfg THEN cfg[ModelKey] ELSE None

\* The diagnostics take a model from its file, and need one.
Composed(base, experiments, experiment, models, model) ==
  LET above == Training(experiments, experiment, {})
      cfg == Merge(base, above)
      name == ModelName(cfg, model)
  IN  IF above = None \/ name \notin DOMAIN models THEN None
      ELSE Merge(Merge(cfg, models[name].file), ModelKey :> name)

\* Of an experiment or a model that is not named the training takes nothing.
TrainingConfig(base, experiments, experiment, models, model) ==
  LET above == IF experiment = None THEN Empty ELSE Training(experiments, experiment, {})
      cfg == Merge(base, above)
      name == ModelName(cfg, model)
      settings == Training(models, name, {})
  IN  IF above = None THEN None
      ELSE IF name = None THEN cfg
      ELSE IF settings = None THEN None
      ELSE Merge(Merge(cfg, settings), ModelKey :> name)
=============================================================================
