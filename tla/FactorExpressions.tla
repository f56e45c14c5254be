-------------------------- MODULE FactorExpressions --------------------------
(***************************************************************************)
(* The expression language of factor profiles (factor_expr): from tokens   *)
(* to a tree, which trees are accepted, and what they evaluate to.         *)
(*                                                                         *)
(* A tree is <<"number", n>>, <<"column", c>>, <<"neg", e>>,               *)
(* <<operator, e, e>> or <<"call", function, arguments>>. Values are those *)
(* of FactorKernels: NaN or the cells they are computed from.              *)
(***************************************************************************)
EXTENDS Integers, Sequences, FiniteSets

CONSTANT NaN

LOCAL INSTANCE FactorKernels

Symbols == {"+", "-", "*", "/", "(", ")", ","}
Literals == [zero |-> 0, one |-> 1, two |-> 2, three |-> 3]
Error == <<"error">>

-----------------------------------------------------------------------------
(* Functions.                                                              *)

Elementwise == {"abs", "log", "sqrt"}
Lags == {"delay", "delta"}
Statistics == {"ts_mean", "ts_sum", "ts_std", "ts_min", "ts_max", "ts_rank"}

Synonyms ==
  [ref |-> "delay", ts_delay |-> "delay", ts_delta |-> "delta", mean |-> "ts_mean",
   sum |-> "ts_sum", std |-> "ts_std", min |-> "ts_min", max |-> "ts_max"]

\* lead, shift and the like, and rank, are refused as every unknown name is.
FromName(name) ==
  IF name \in DOMAIN Synonyms THEN Synonyms[name]
  ELSE IF name \in Elementwise \cup Lags \cup Statistics THEN name ELSE "refused"

Arity(f) == IF f \in Elementwise THEN 1 ELSE 2
WindowArg(f) == IF f \in Elementwise THEN {} ELSE {2}

-----------------------------------------------------------------------------
(* Parsing by descent: each operator takes tokens and a position, and      *)
(* returns a tree and the position after it.                               *)

At(tokens, p) == IF p \in DOMAIN tokens THEN tokens[p] ELSE "end"

RECURSIVE AddSub(_, _), MulDiv(_, _), Unary(_, _), Args(_, _, _)
RECURSIVE MoreTerms(_, _, _), MoreFactors(_, _, _)

Primary(tokens, p) ==
  LET token == At(tokens, p)
      inner == AddSub(tokens, p + 1)
      call == Args(tokens, p + 2, <<>>)
  IN  CASE token = "(" ->
             IF inner[1] # Error /\ At(tokens, inner[2]) = ")"
             THEN <<inner[1], inner[2] + 1>> ELSE <<Error, p>>
        [] token \in (Symbols \ {"("}) \cup {"end"} -> <<Error, p>>
        [] token \in DOMAIN Literals -> <<<<"number", token>>, p + 1>>
        [] OTHER ->
             IF At(tokens, p + 1) # "(" THEN <<<<"column", token>>, p + 1>>
             ELSE IF call[1] = Error \/ FromName(token) = "refused" THEN <<Error, p>>
             ELSE <<<<"call", FromName(token), call[1]>>, call[2]>>

Args(tokens, p, parsed) ==
  IF parsed = <<>> /\ At(tokens, p) = ")" THEN <<parsed, p + 1>>
  ELSE LET arg == AddSub(tokens, p)
       IN  CASE arg[1] = Error -> <<Error, p>>
             [] At(tokens, arg[2]) = "," -> Args(tokens, arg[2] + 1, Append(parsed, arg[1]))
             [] At(tokens, arg[2]) = ")" -> <<Append(parsed, arg[1]), arg[2] + 1>>
             [] OTHER -> <<Error, p>>

Unary(tokens, p) ==
  LET rest == Unary(tokens, p + 1)
  IN  CASE At(tokens, p) = "+" -> rest
        [] At(tokens, p) = "-" -> IF rest[1] = Error THEN rest ELSE <<<<"neg", rest[1]>>, rest[2]>>
        [] OTHER -> Primary(tokens, p)

MoreTerms(tokens, left, p) ==
  IF At(tokens, p) \notin {"+", "-"} THEN <<left, p>>
  ELSE LET right == MulDiv(tokens, p + 1)
       IN  IF right[1] = Error THEN right
           ELSE MoreTerms(tokens, <<At(tokens, p), left, right[1]>>, right[2])

MoreFactors(tokens, left, p) ==
  IF At(tokens, p) \notin {"*", "/"} THEN <<left, p>>
  ELSE LET right == Unary(tokens, p + 1)
       IN  IF right[1] = Error THEN right
           ELSE MoreFactors(tokens, <<At(tokens, p), left, right[1]>>, right[2])

MulDiv(tokens, p) ==
  LET left == Unary(tokens, p)
  IN  IF left[1] = Error THEN left ELSE MoreFactors(tokens, left[1], left[2])

AddSub(tokens, p) ==
  LET left == MulDiv(tokens, p)
  IN  IF left[1] = Error THEN left ELSE MoreTerms(tokens, left[1], left[2])

Parse(tokens) ==
  LET parsed == AddSub(tokens, 1)
  IN  IF At(tokens, parsed[2]) = "end" THEN parsed[1] ELSE Error

-----------------------------------------------------------------------------
(* Acceptance and evaluation.                                              *)

Window(e) == Literals[e[2]]

\* Every window is a literal of at least 1.
RECURSIVE Valid(_)
Valid(e) ==
  CASE e[1] = "error" -> FALSE
    [] e[1] \in {"number", "column"} -> TRUE
    [] e[1] = "neg" -> Valid(e[2])
    [] e[1] = "call" ->
         /\ Len(e[3]) = Arity(e[2])
         /\ \A n \in WindowArg(e[2]) : e[3][n][1] = "number" /\ Window(e[3][n]) >= 1
         /\ \A n \in DOMAIN e[3] : Valid(e[3][n])
    [] OTHER -> Valid(e[2]) /\ Valid(e[3])

\* The rows in a running sum: each row enters as it is observed and leaves
\* when the window has passed it.
RECURSIVE Running(_, _, _)
\* A bug: rows leave one too late.
RunningLate(s, w, t) ==
  IF t = 0 THEN {}
  ELSE (Running(s, w, t - 1) \cup {e \in {t} : s[e] # NaN}) \ {e \in {t - w - 1} : e >= 1}
Running(s, w, t) ==
  IF t = 0 THEN {}
  ELSE (Running(s, w, t - 1) \cup {e \in {t} : s[e] # NaN}) \ {e \in {t - w} : e >= 1}

RunningSum(s, w) ==
  [t \in DOMAIN s |-> IF Running(s, w, t) = {} THEN NaN ELSE UNION {s[e] : e \in Running(s, w, t)}]

Statistic(f, s, w) ==
  CASE f \in {"ts_mean", "ts_sum"} -> RunningSum(s, w)
    [] f = "ts_std" -> Std(s, w)
    [] f = "ts_rank" -> Rank(s, w)
    [] OTHER -> Mean(s, w)

\* A divisor or logarithm of zero gives a missing value.
RECURSIVE Eval(_, _)
Eval(e, x) ==
  CASE e[1] = "number" -> [t \in DOMAIN x.close |-> {}]
    [] e[1] = "column" -> x[e[2]]
    [] e[1] = "neg" -> Eval(e[2], x)
    [] e[1] = "/" -> Each({Eval(e[2], x), NonZero(Eval(e[3], x), x.zero)})
    [] e[1] \in {"+", "-", "*"} -> Each({Eval(e[2], x), Eval(e[3], x)})
    [] e[1] = "call" ->
         LET s == Eval(e[3][1], x)
         IN  CASE e[2] = "log" -> NonZero(s, x.zero)
               [] e[2] \in {"abs", "sqrt"} -> s
               [] e[2] = "delay" -> Shift(s, Window(e[3][2]))
               [] e[2] = "delta" -> Change(s, Window(e[3][2]))
               [] OTHER -> Statistic(e[2], s, Window(e[3][2]))

\* What a profile is summarised by: its columns and the largest window of a
\* call, whatever the calls are nested in.
RECURSIVE Columns(_), MaxLookback(_)
Columns(e) ==
  CASE e[1] = "number" -> {}
    [] e[1] = "column" -> {e[2]}
    [] e[1] = "neg" -> Columns(e[2])
    [] e[1] = "call" -> UNION {Columns(e[3][n]) : n \in DOMAIN e[3]}
    [] OTHER -> Columns(e[2]) \cup Columns(e[3])

LOCAL Larger(m, n) == IF m >= n THEN m ELSE n
MaxLookback(e) ==
  CASE e[1] \in {"number", "column"} -> 0
    [] e[1] = "neg" -> MaxLookback(e[2])
    [] e[1] = "call" ->
         IF WindowArg(e[2]) = {} THEN MaxLookback(e[3][1])
         ELSE Larger(Window(e[3][2]), MaxLookback(e[3][1]))
    [] OTHER -> Larger(MaxLookback(e[2]), MaxLookback(e[3]))

\* Of the source only these columns are read; vwap is derived.
Projection(e) ==
  {"date", "symbol", "open", "volume", "amount"}
    \cup (Columns(e) \ {"vwap"})
    \cup (IF "vwap" \in Columns(e) THEN {"close", "amount", "volume"} ELSE {})

\* A profile is refused as a whole: names have to be new and not reserved.
Compiles(profile, reserved) ==
  /\ profile # <<>>
  /\ \A n \in DOMAIN profile :
       /\ profile[n].name \notin reserved
       /\ \A k \in 1..(n - 1) : profile[k].name # profile[n].name
       /\ Valid(Parse(profile[n].tokens))
=============================================================================
