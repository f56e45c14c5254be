----------------------------- MODULE MCDataStores -----------------------------
(***************************************************************************)
(* The stores of the data: either the raw file of one symbol and stage, or *)
(* the packed source and the factor store derived from it. They share no   *)
(* file, so a behaviour is about one of them. Two symbols are in two       *)
(* buckets; in the old layout one of them was in a third bucket, which no  *)
(* symbol is in now.                                                       *)
(***************************************************************************)
EXTENDS RawTableUpdate, PackedStores

VARIABLE part

MCSymbols == 1..2
MCBuckets == 1..3
MCBucketOf == <<1, 2>>
MCLeftOver == <<1, 3>>

TableIdle ==
    /\ kind = CHOOSE k \in Kinds : TRUE
    /\ provider = {} /\ published = 0 /\ file = {} /\ schemaOk = TRUE
    /\ expected = 0 /\ target = 0 /\ answer = "none"

StoresIdle ==
    /\ processed = <<>> /\ source = <<>> /\ sourceMeta = None
    /\ factor = <<>> /\ factorMeta = None /\ pack = Idle /\ gen = Idle
    /\ packed = None /\ derived = None /\ runs = 0

DataInit ==
    \/ part = "table" /\ Init /\ StoresIdle
    \/ part = "stores" /\ StoresInit /\ TableIdle

TableStep == part = "table" /\ Next /\ UNCHANGED <<part, storeVars>>
StoresStep == part = "stores" /\ StoresNext /\ UNCHANGED <<part, vars>>

DataSpec == DataInit /\ [][TableStep \/ StoresStep]_<<part, vars, storeVars>>
=============================================================================
