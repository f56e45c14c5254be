---------------------------- MODULE PackedStores ----------------------------
(***************************************************************************)
(* Two stores of bucket files and the programs that write them: the packed *)
(* source, rebuilt by the collector from the processed files               *)
(* (rebuild_tushare_packed_source_from_local), and the factor store that   *)
(* `ai4stock-gen-feature` derives from it (generate_factor_store).         *)
(*                                                                         *)
(* Both truncate and rewrite their files in place, buckets in parallel,    *)
(* then the manifest, then the metadata. Each may fail at any file or be   *)
(* killed, and nothing keeps the two from running at the same time. What   *)
(* an earlier version of the program left, in another layout and under     *)
(* another policy for announced events, is there at the start.             *)
(***************************************************************************)
EXTENDS Integers, FiniteSets

CONSTANTS
  Symbols, Buckets,
  BucketOf,      \* stable_bucket_id: symbol |-> bucket
  LeftOver,      \* symbol |-> bucket it had in the layout of the old version
  Workers,       \* --workers
  MaxVersion,    \* bound: versions of a processed file
  MaxRuns,       \* bound: rebuilds and builds started
  None, Torn     \* a file that is not there; one that was truncated

\* A file: which rows it has, in which version, under which policy.
File(policy, rows) == [policy |-> policy, rows |-> rows]
Policies == {"old", "strict"}
Files == [policy : Policies, rows : UNION {[S -> Nat] : S \in SUBSET Symbols}]

ASSUME StoreAssumption ==
  /\ BucketOf \in [Symbols -> Buckets] /\ LeftOver \in [Symbols -> Buckets]
  /\ Workers \in Nat \ {0} /\ MaxVersion \in Nat /\ MaxRuns \in Nat
  /\ None # Torn /\ {None, Torn} \cap Policies = {}
  /\ None \notin Files /\ Torn \notin Files

VARIABLES
  processed,   \* symbol |-> version of its processed file, 0 for none
  source,      \* bucket |-> file of the packed source
  sourceMeta,  \* the policy its meta.json names, None or Torn
  factor,      \* bucket |-> file of the factor store
  factorMeta,  \* the bucket ids its meta.json lists, None or Torn
  pack, gen,   \* the processes
  packed,      \* what the last rebuild that succeeded packed, until the next begins
  derived,     \* what the last build that succeeded read, until the next begins
  runs

storeVars == <<processed, source, sourceMeta, factor, factorMeta, pack, gen, packed,
               derived, runs>>

RowsOf(S) == [s \in S |-> processed[s]]
Listed(store) == {b \in Buckets : store[b] # None}
Idle == [pc |-> "idle", todo |-> {}, open |-> <<>>, ids |-> {}, failed |-> FALSE]

Collected == {s \in Symbols : processed[s] > 0}
Members(b) == {s \in Collected : BucketOf[s] = b}

Old(b) ==
  LET rows == {s \in Collected : LeftOver[s] = b}
  IN  IF rows = {} THEN None ELSE File("old", RowsOf(rows))

\* Nothing yet, or the stores of an earlier version of the program.
StoresInit ==
  /\ processed \in [Symbols -> 0..1]
  /\ \/ source = [b \in Buckets |-> None] /\ sourceMeta = None
     \/ source = [b \in Buckets |-> Old(b)] /\ sourceMeta = "old"
  /\ factor \in {source, [b \in Buckets |-> None]}
  /\ factorMeta = IF Listed(factor) = {} THEN None ELSE Listed(factor)
  /\ pack = Idle /\ gen = Idle
  /\ packed = None /\ derived = None
  /\ runs = 0

-----------------------------------------------------------------------------
(* The packed source.                                                      *)

\* The raw stages of a collector run rewrite a processed file.
Collect ==
  /\ pack = Idle
  /\ \E s \in Symbols :
       /\ processed[s] < MaxVersion
       /\ processed' = [processed EXCEPT ![s] = @ + 1]
  /\ UNCHANGED <<source, sourceMeta, factor, factorMeta, pack, gen, packed, derived, runs>>

StartPack ==
  /\ pack = Idle /\ runs < MaxRuns /\ Collected # {}
  /\ runs' = runs + 1
  /\ packed' = None
  /\ LET ids == {BucketOf[s] : s \in Collected}
     IN  pack' = [Idle EXCEPT !.pc = "buckets", !.todo = ids, !.ids = ids]
  /\ UNCHANGED <<processed, source, sourceMeta, factor, factorMeta, gen, derived>>

\* A worker of the pool has the rows of its bucket and truncates the file.
TruncateSource(b) ==
  /\ pack.pc = "buckets" /\ b \in pack.todo /\ Cardinality(DOMAIN pack.open) < Workers
  /\ pack' = [pack EXCEPT
       !.todo = @ \ {b},
       !.open = [c \in DOMAIN @ \cup {b} |->
                   IF c = b THEN File("strict", RowsOf(Members(b))) ELSE @[c]]]
  /\ source' = [source EXCEPT ![b] = Torn]
  /\ UNCHANGED <<processed, sourceMeta, factor, factorMeta, gen, packed, derived, runs>>

Closed(p, b) == [p EXCEPT !.open = [c \in DOMAIN @ \ {b} |-> @[c]]]

FinishSource(b) ==
  /\ pack.pc = "buckets" /\ b \in DOMAIN pack.open
  /\ source' = [source EXCEPT ![b] = pack.open[b]]
  /\ pack' = Closed(pack, b)
  /\ UNCHANGED <<processed, sourceMeta, factor, factorMeta, gen, packed, derived, runs>>

\* An error while reading leaves the file as it was, one while writing leaves
\* it torn; the other buckets are still rewritten.
FailSource(b) ==
  /\ pack.pc = "buckets"
  /\ \/ b \in pack.todo /\ pack' = [pack EXCEPT !.todo = @ \ {b}, !.failed = TRUE]
     \/ b \in DOMAIN pack.open /\ pack' = [Closed(pack, b) EXCEPT !.failed = TRUE]
  /\ UNCHANGED <<processed, source, sourceMeta, factor, factorMeta, gen, packed,
                 derived, runs>>

\* With every bucket dealt with, an error ends the rebuild; otherwise the
\* manifest is written and the buckets of no symbol are removed.
AfterBuckets ==
  /\ pack.pc = "buckets" /\ pack.todo = {} /\ DOMAIN pack.open = {}
  /\ pack' = IF pack.failed THEN Idle ELSE [pack EXCEPT !.pc = "remove"]
  /\ UNCHANGED <<processed, source, sourceMeta, factor, factorMeta, gen, packed,
                 derived, runs>>

\* A bug: buckets of no symbol are left.
NoneInactive == {}

Inactive == Listed(source) \ pack.ids

RemoveInactive ==
  /\ pack.pc = "remove"
  /\ IF Inactive = {}
     THEN pack' = [pack EXCEPT !.pc = "meta"] /\ UNCHANGED source
     ELSE /\ \E b \in Inactive : source' = [source EXCEPT ![b] = None]
          /\ UNCHANGED pack
  /\ UNCHANGED <<processed, sourceMeta, factor, factorMeta, gen, packed, derived, runs>>

\* The metadata file is truncated, then written.
WriteSourceMeta ==
  /\ pack.pc = "meta"
  /\ IF sourceMeta # Torn
     THEN sourceMeta' = Torn /\ UNCHANGED <<pack, packed>>
     ELSE /\ sourceMeta' = "strict"
          /\ packed' = RowsOf(Collected)
          /\ pack' = Idle
  /\ UNCHANGED <<processed, source, factor, factorMeta, gen, derived, runs>>

\* A full disk, or the process is killed: what is open stays torn.
AbortPack ==
  /\ pack # Idle
  /\ pack' = Idle
  /\ UNCHANGED <<processed, source, sourceMeta, factor, factorMeta, gen, packed,
                 derived, runs>>

-----------------------------------------------------------------------------
(* The factor store.                                                       *)

\* A bug: the metadata of the source need only be there.
AnyPolicy(meta) == meta \notin {None, Torn}

\* validate_standalone_source_policy
PolicyOk(meta) == meta = "strict"

\* The part files are listed first; then the metadata of the source is read.
StartGen ==
  /\ gen = Idle /\ runs < MaxRuns /\ Listed(source) # {}
  /\ runs' = runs + 1
  /\ gen' = [Idle EXCEPT !.pc = "policy", !.todo = Listed(source), !.ids = Listed(source)]
  /\ derived' = None
  /\ UNCHANGED <<processed, source, sourceMeta, factor, factorMeta, pack, packed>>

CheckPolicy ==
  /\ gen.pc = "policy"
  /\ gen' = IF PolicyOk(sourceMeta) THEN [gen EXCEPT !.pc = "buckets"] ELSE Idle
  /\ UNCHANGED <<processed, source, sourceMeta, factor, factorMeta, pack, packed,
                 derived, runs>>

Readable(b) == source[b] \notin {None, Torn}

\* A worker has read its source bucket and truncates the factor bucket.
TruncateFactor(b) ==
  /\ gen.pc = "buckets" /\ b \in gen.todo /\ Readable(b)
  /\ Cardinality(DOMAIN gen.open) < Workers
  /\ gen' = [gen EXCEPT
       !.todo = @ \ {b},
       !.open = [c \in DOMAIN @ \cup {b} |-> IF c = b THEN source[b] ELSE @[c]]]
  /\ factor' = [factor EXCEPT ![b] = Torn]
  /\ UNCHANGED <<processed, source, sourceMeta, factorMeta, pack, packed, derived, runs>>

FinishFactor(b) ==
  /\ gen.pc = "buckets" /\ b \in DOMAIN gen.open
  /\ factor' = [factor EXCEPT ![b] = gen.open[b]]
  /\ gen' = Closed(gen, b)
  /\ UNCHANGED <<processed, source, sourceMeta, factorMeta, pack, packed, derived, runs>>

\* A source bucket that cannot be read, or a factor bucket that cannot be
\* written.
FailFactor(b) ==
  /\ gen.pc = "buckets"
  /\ \/ b \in gen.todo /\ gen' = [gen EXCEPT !.todo = @ \ {b}, !.failed = TRUE]
     \/ b \in DOMAIN gen.open /\ gen' = [Closed(gen, b) EXCEPT !.failed = TRUE]
  /\ UNCHANGED <<processed, source, sourceMeta, factor, factorMeta, pack, packed,
                 derived, runs>>

AfterFactors ==
  /\ gen.pc = "buckets" /\ gen.todo = {} /\ DOMAIN gen.open = {}
  /\ gen' = IF gen.failed THEN Idle ELSE [gen EXCEPT !.pc = "meta"]
  /\ UNCHANGED <<processed, source, sourceMeta, factor, factorMeta, pack, packed,
                 derived, runs>>

\* Buckets the build did not write are neither removed nor listed.
WriteFactorMeta ==
  /\ gen.pc = "meta"
  /\ IF factorMeta # Torn
     THEN factorMeta' = Torn /\ UNCHANGED <<gen, derived>>
     ELSE factorMeta' = gen.ids /\ derived' = gen.ids /\ gen' = Idle
  /\ UNCHANGED <<processed, source, sourceMeta, factor, pack, packed, runs>>

AbortGen ==
  /\ gen # Idle
  /\ gen' = Idle
  /\ UNCHANGED <<processed, source, sourceMeta, factor, factorMeta, pack, packed,
                 derived, runs>>

-----------------------------------------------------------------------------
Pack ==
  \/ StartPack \/ AfterBuckets \/ RemoveInactive \/ WriteSourceMeta \/ AbortPack
  \/ \E b \in Buckets : TruncateSource(b) \/ FinishSource(b) \/ FailSource(b)

Gen ==
  \/ StartGen \/ CheckPolicy \/ AfterFactors \/ WriteFactorMeta \/ AbortGen
  \/ \E b \in Buckets : TruncateFactor(b) \/ FinishFactor(b) \/ FailFactor(b)

StoresNext == Collect \/ Pack \/ Gen
StoresSpec == StoresInit /\ [][StoresNext]_storeVars

-----------------------------------------------------------------------------
(***************************************************************************)
(* Factors are only ever derived from a source in which an event counts    *)
(* from the trading day after its announcement: metadata that says so is   *)
(* written after the last old bucket is gone, so no order of the two       *)
(* programs, and no failure of either, lets an old bucket through          *)
(* (validate_standalone_source_policy).                                    *)
(***************************************************************************)
OnlyUnderPolicy ==
  /\ \A b \in DOMAIN gen.open : gen.open[b].policy = "strict"
  /\ sourceMeta = "strict" =>
       \A b \in Buckets : Readable(b) => source[b].policy = "strict"

(***************************************************************************)
(* A rebuild that succeeds has packed every processed file into the bucket *)
(* its symbol hashes to and left no other file, whatever earlier rebuilds  *)
(* broke off at and however the workers interleave.                        *)
(***************************************************************************)
PackedIsWhole ==
  packed # None =>
    /\ \A s \in DOMAIN packed :
         /\ Readable(BucketOf[s])
         /\ s \in DOMAIN source[BucketOf[s]].rows
         /\ source[BucketOf[s]].rows[s] = packed[s]
    /\ \A b \in Listed(source) :
         Readable(b) /\ \A s \in DOMAIN source[b].rows : s \in DOMAIN packed /\ BucketOf[s] = b

(***************************************************************************)
(* A build that succeeds leaves every bucket its metadata lists readable   *)
(* and under the policy: a bucket a worker could not derive is never       *)
(* listed with what an earlier build left there.                           *)
(***************************************************************************)
DerivedIsWhole ==
  derived # None =>
    /\ factorMeta = derived
    /\ \A b \in derived : factor[b] \notin {None, Torn} /\ factor[b].policy = "strict"

\* What either program leaves when it succeeds.
StoresAreWhole == PackedIsWhole /\ DerivedIsWhole
=============================================================================
