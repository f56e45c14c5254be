--------------------------- MODULE MCCalculations ---------------------------
(***************************************************************************)
(* All the calculations over bounded inputs: those of Calculations, and    *)
(* the two whose definitions are recursive, factor expressions and feature *)
(* profiles.                                                               *)
(***************************************************************************)
EXTENDS Calculations

MCStocks == 1..4

Expr == INSTANCE FactorExpressions
Profiles == INSTANCE FeatureProfiles WITH Canonical <- Factors!SourceOf

-----------------------------------------------------------------------------
(* Inputs.                                                                 *)

\* Trees of two levels, and how they are written with the fewest brackets.
Leaves == {<<"column", "close">>, <<"number", "two">>}
Over(trees, windows) ==
  {<<"neg", e>> : e \in trees} \cup {<<op, l, r>> : op \in {"-", "*"}, l, r \in trees}
  \cup {<<"call", f, <<e, <<"number", w>>>>>> :
          f \in {"delay", "ts_sum", "ts_rank", "lead"}, e \in trees, w \in windows}
Trees == LET one == Leaves \cup Over(Leaves, {"zero", "two"}) IN one \cup Over(one, {"one", "two"})

BindsLess(e) == CASE e[1] = "-" -> 1 [] e[1] = "*" -> 2 [] OTHER -> 3
RECURSIVE Written(_)
Bracketed(e, rank) ==
  IF BindsLess(e) < rank THEN <<"(">> \o Written(e) \o <<")">> ELSE Written(e)
Written(e) ==
  CASE e[1] \in {"column", "number"} -> <<e[2]>>
    [] e[1] = "neg" -> <<"-">> \o Bracketed(e[2], 3)
    [] e[1] = "call" -> <<e[2], "(">> \o Written(e[3][1]) \o <<",">> \o Written(e[3][2]) \o <<")">>
    [] OTHER -> Bracketed(e[2], BindsLess(e)) \o <<e[1]>> \o Bracketed(e[3], BindsLess(e) + 1)

ExpressionCase ==
  \E e \in Trees, gaps \in {{}, {2}, {1, 4}} :
    case = [tree |-> e, tokens |-> Written(e), x |-> Columns("close", gaps, {})]

\* Three levels of profiles, in a chain or a circle.
StoredColumns == <<"a", "b", "RSV">>
Level(extends, file, own) == [extends |-> extends, file |-> file, own |-> own]
Key(key, columns) == IF columns = None THEN <<>> ELSE <<key>> :> columns
Repeats(column) ==
  IF column = None THEN <<>> ELSE <<"repeat_columns", column>> :> 2
Changes(drop, add) == Key("drop_columns", drop) @@ Key("add_columns", add)

ProfileCase ==
  \E list \in {None, <<"a", "TEMP_rsv">>, <<"a", "lost">>},
     drop2, drop3 \in {None, <<"a">>, <<"RSV">>}, add2, add3 \in {None, <<"RSV", "b">>, <<"a">>},
     own \in {None, <<"b">>}, again1, again3 \in {None, "a"}, up2, up3 \in {1, 2, None} :
    case = [kind |-> "features", override |-> None,
            table |-> <<Level(None, Key("selected_columns", list), Repeats(again1)),
                        Level(up2, Key("selected_columns", own), Changes(drop2, add2)),
                        Level(up3, <<>>, Changes(drop3, add3) @@ Repeats(again3))>>]

\* Settings of an experiment that extends another and of two models.
Setting(value) == IF value = None THEN <<>> ELSE <<"lgbm", "rate">> :> value
Model(name) == IF name = None THEN <<>> ELSE Profiles!ModelKey :> name

ConfigCase ==
  \E base, high, low, first, second \in {None, 1, 2}, named, called \in {None, 1, 2},
     experiment \in {1, 2} :
    case = [kind |-> "config", base |-> Setting(base), experiment |-> experiment,
            experiments |-> <<Level(None, Setting(high), Model(named)),
                              Level(1, <<>>, Setting(low))>>,
            models |-> <<Level(None, Setting(first), <<>>), Level(None, Setting(second), <<>>)>>,
            model |-> called]

MCInit ==
  \/ Init
  \/ /\ answered = FALSE /\ WeightsIdle /\ HistoryIdle
     /\ \/ part = "expression" /\ ExpressionCase
        \/ part = "profile" /\ (ProfileCase \/ ConfigCase)

MCSpec == MCInit /\ [][Next]_vars

-----------------------------------------------------------------------------
(* Factor expressions.                                                     *)

\* How many rows back a tree can look.
RECURSIVE Reach(_)
Reach(e) ==
  LET deeper(l, r) == IF Reach(l) > Reach(r) THEN Reach(l) ELSE Reach(r)
  IN  CASE e[1] \in {"column", "number"} -> 0
        [] e[1] = "neg" -> Reach(e[2])
        [] e[1] = "call" ->
             Reach(e[3][1]) + Expr!Literals[e[3][2][2]] - (IF e[2] = "delay" THEN 0 ELSE 1)
        [] OTHER -> deeper(e[2], e[3])

Accepted(tokens) == Expr!Compiles(<<[name |-> "f", tokens |-> tokens]>>, {"date", "symbol", "label"})

(***************************************************************************)
(* An expression means what it says: what is written reads back as the     *)
(* same tree, and its value on a row comes from the rows its windows       *)
(* name, of columns the source is read for (parse_expression, eval_expr,   *)
(* expression_source_column_projection).                                   *)
(***************************************************************************)
ExpressionsReadTheirWindow ==
  Of("expression") /\ Accepted(case.tokens) =>
    /\ Expr!Parse(case.tokens) = case.tree
    /\ LET values == Expr!Eval(case.tree, case.x)
       IN  \A t \in 1..6 :
             /\ WithinRows(values[t], t - Reach(case.tree), t)
             /\ values[t] # NaN => {c[1] : c \in values[t]} \subseteq Expr!Projection(case.tree)

-----------------------------------------------------------------------------
(* Feature profiles.                                                       *)

\* The levels of a profile from the child up.
RECURSIVE Chain(_, _)
Chain(table, name) ==
  <<table[name]>> \o (IF table[name].extends = None THEN <<>> ELSE Chain(table, table[name].extends))

Selects(level) == {<<"selected_columns">>} \cap (DOMAIN level.file \cup DOMAIN level.own) # {}
Selection(level) == (level.own @@ level.file)[<<"selected_columns">>]
Speaks(level, c) ==
  \/ Selects(level)
  \/ Profiles!Contains(Profiles!ListAt(level.own, <<"drop_columns">>), c)
  \/ Profiles!Contains(Profiles!ListAt(level.own, <<"add_columns">>), c)
Takes(level, c) ==
  \/ Profiles!Contains(Profiles!ListAt(level.own, <<"add_columns">>), c)
  \/ /\ ~Profiles!Contains(Profiles!ListAt(level.own, <<"drop_columns">>), c)
     /\ Selects(level) /\ Profiles!Contains(Selection(level), c)

\* The lowest level that speaks of a column decides.
Means(chain, c) ==
  \E n \in DOMAIN chain :
    /\ Speaks(chain[n], c) /\ Takes(chain[n], c)
    /\ \A m \in 1..(n - 1) : ~Speaks(chain[m], c)

Changing(level) == {<<"drop_columns">>, <<"add_columns">>} \cap DOMAIN level.own # {}
Repeating(level) == \E p \in DOMAIN level.own : p[1] = "repeat_columns"
AtMostOne(chain, P(_)) == Cardinality({n \in DOMAIN chain : P(chain[n])}) <= 1

Diagnosed == Profiles!SourceColumns(case.override, case.table, 3, StoredColumns)
Trained == Profiles!TrainingColumns(<<>>, case.table, 3, StoredColumns)
ColumnsOf(columns) == IF columns = None THEN None ELSE Elements(columns)

(***************************************************************************)
(* A profile means what its chain says, read from the child up: a column   *)
(* is in it if the lowest level that names it takes it, and what it adds   *)
(* to its parent is named by the child. The training chooses the same      *)
(* columns where one level of the chain alone changes them, and both       *)
(* programs compose the same settings for a model that is named            *)
(* (resolve_feature_profile_definition, resolve_incremental_feature_names, *)
(* load_composed_config, load_resolved_config).                            *)
(***************************************************************************)
ProfilesMeanTheirChain ==
  Of("profile") =>
    IF case.kind = "config"
    THEN LET composed == Profiles!Composed(case.base, case.experiments, case.experiment,
                                           case.models, case.model)
         IN  composed # None =>
               composed = Profiles!TrainingConfig(case.base, case.experiments, case.experiment,
                                                  case.models, case.model)
    ELSE LET profile == Profiles!Definition(case.table, 3, {})
         IN  profile # None =>
               LET chain == Chain(case.table, 3)
                   columns == Profiles!ProfileColumns(case.table, 3, StoredColumns)
                   parent == IF Len(chain) = 1 THEN None
                             ELSE Profiles!SourceColumns(None, case.table, case.table[3].extends,
                                                         StoredColumns)
               IN  /\ <<"selected_columns">> \in DOMAIN profile =>
                        Elements(columns) = {c \in {"a", "b", "RSV", "TEMP_rsv", "lost"} : Means(chain, c)}
                   /\ None \notin {parent, Diagnosed} /\ columns # <<>> =>
                        Elements(Profiles!Incremental(Diagnosed, parent))
                          \subseteq {Factors!SourceOf(c) : c \in {x \in Elements(columns) : Speaks(chain[1], x)}}
                   /\ AtMostOne(chain, Changing) /\ AtMostOne(chain, Repeating) =>
                        ColumnsOf(Diagnosed) = ColumnsOf(Trained)

(***************************************************************************)
(* The training chooses the columns that the diagnostics do of any profile *)
(* they can read (configs/feature_profiles.yaml extends up to seven levels,*)
(* of which several drop and add columns).                                 *)
(***************************************************************************)
TrainingFollowsProfile ==
  Of("profile") /\ case.kind = "features" /\ Diagnosed # None =>
    ColumnsOf(Diagnosed) = ColumnsOf(Trained)
=============================================================================
