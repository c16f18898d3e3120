---------------------------- MODULE DailyPrediction ----------------------------
(***************************************************************************)
(* DailyPredictionJob: one run predicts the crypto assets at the UTC       *)
(* midnight before it, then the US equities at SPY's latest session.  Each *)
(* part reads the models, reads the bars asset by asset, judges its        *)
(* benchmark, decides asset by asset and saves everything at once.         *)
(*                                                                         *)
(* While it runs, the other jobs go on: bars and derivative rows arrive,   *)
(* the registry hands flags over, midnight passes.  What the model keeps   *)
(* of a feature vector is the days it was computed from; of a price, that  *)
(* the day is complete.  A bar's day is the cutoff it ends at.             *)
(***************************************************************************)
EXTENDS DerivativeReadiness

CONSTANTS
  Crypto, Equity, \* assets of the two classes
  Btc, Spy,       \* their benchmarks
  Models,         \* model versions of one horizon
  ClassOf,        \* "crypto" or "equity", for each model
  FirstFlags,     \* what each model is at first
  FirstTables,    \* the days of bars and derivatives that may be there at first
  MinDays,        \* observations an asset needs (365 and 252 in the code)
  PeerDays,       \* observations it is compared with others on (31 and 61)
  StaleDays,      \* age at which SPY's last session is stale (5 days)
  Earliest,       \* bound: the first day of the bars
  LastDay,        \* bound: days
  Triggers,       \* bound: triggers on each day
  MaxTriggers,    \* bound: triggers on any day
  Promotions,     \* bound: sets of models a registry run may promote
  Choices,        \* bound: sets of models it may choose as candidates
  MaxEvents       \* bound: registry changes, exceptions and crashes

Assets == Crypto \cup Equity

ASSUME PredictionConstants ==
  /\ Crypto \cap Equity = {} /\ Btc \in Crypto /\ Spy \in Equity
  /\ ClassOf \in [Models -> {"crypto", "equity"}]
  /\ {MinDays, LastDay, StaleDays} \subseteq Nat \ {0}
  /\ {PeerDays, MaxTriggers, MaxEvents} \subseteq Nat
  /\ Triggers \in [1..LastDay -> 0..MaxTriggers]
  /\ Earliest \in Int /\ Earliest <= 0
  /\ FirstTables \subseteq
       [bars : [Assets -> SUBSET (Earliest..0)], derivatives : [Crypto -> SUBSET Int]]

VARIABLES
  day, fires,            \* the last UTC midnight; today's triggers still to come
  bars,                  \* price_bars: the complete days of each asset
  rows,                  \* derivative_daily_snapshots of each asset
  flags,                 \* model_versions: what each model is
  features, predictions, \* tables feature_snapshots and predictions
  pc, run,               \* the job
  events,                \* registry changes and faults, counted together
  served                 \* history: the sets of models in production so far

market == <<bars, rows>>
tables == <<features, predictions>>
vars == <<day, fires, market, flags, tables, pc, run, events>>

AssetsOf == [crypto |-> Crypto, equity |-> Equity]
Benchmark == [crypto |-> Btc, equity |-> Spy]

\* Time in steps of one trigger; midnights are as far apart as the busiest day.
Clock == day * (MaxTriggers + 1) - fires

\* Bound: what arrives after the last run is not followed.
MoreToCome == pc # "idle" \/ fires > 0 \/ \E d \in (day + 1)..LastDay : Triggers[d] > 0

\* The registry as its readers see it; ModelRegistry implements it.
Serving == INSTANCE ServingFlags WITH GroupOf <- ClassOf

ASSUME RegistryConstants ==
  FirstFlags \in Serving!Flags /\ Promotions \cup Choices \subseteq SUBSET Models

\* A part of a run as it begins.
Run(part, now, cutoff) ==
  [part |-> part, now |-> now, started |-> cutoff, cutoff |-> cutoff,
   flags |-> [m \in Models |-> "none"], seen |-> [a \in Assets |-> {}], left |-> {},
   features |-> {}, predictions |-> {}]

NoRun == Run("none", 0, 0)

Init ==
  /\ day = 1 /\ fires = Triggers[1]
  /\ \E t \in FirstTables :
       /\ bars = t.bars
       /\ rows = [a \in Crypto |-> [day : t.derivatives[a], source : {Archive}, at : {0}]]
  /\ flags = FirstFlags /\ served = {Serving!Producing(FirstFlags)}
  /\ features = {} /\ predictions = {}
  /\ pc = "idle" /\ run = NoRun /\ events = 0

-----------------------------------------------------------------------------
(* The rest of the worker. *)

\* Every trigger of the day fires; a run may outlast midnight.
NextDay ==
  /\ fires = 0 /\ day < LastDay
  /\ day' = day + 1 /\ fires' = Triggers[day + 1]
  /\ UNCHANGED <<market, flags, tables, pc, run, events>>

\* Ingestion completes a day, perhaps days late.
CompleteDay(a) ==
  /\ MoreToCome
  /\ \E d \in (1..day) \ bars[a] : bars' = [bars EXCEPT ![a] = @ \cup {d}]
  /\ UNCHANGED <<day, fires, rows, flags, tables, pc, run, events>>

\* The collector saves the row of today's cutoff (bound: on days with runs).
SaveDerivatives(a) ==
  /\ MoreToCome /\ Triggers[day] > 0
  /\ \A r \in rows[a] : r.day # day
  /\ rows' = [rows EXCEPT ![a] = @ \cup {[day |-> day, source |-> Live, at |-> Clock]}]
  /\ UNCHANGED <<day, fires, bars, flags, tables, pc, run, events>>

\* One step of a registry run: a demotion, the save that promotes, or the
\* save that chooses the candidates.
RegistryStep ==
  /\ MoreToCome /\ events < MaxEvents /\ events' = events + 1
  /\ \/ \E class \in {"crypto", "equity"} : Serving!Demote(class)
     \/ \E S \in Promotions : Serving!Promote(S)
     \/ \E W \in Choices : Serving!Choose(W)
  /\ flags' # flags
  /\ UNCHANGED <<day, fires, market, tables, pc, run>>

-----------------------------------------------------------------------------
(* The job. *)

Start ==
  /\ pc = "idle" /\ fires > 0
  /\ fires' = fires - 1 /\ pc' = "read" /\ run' = Run("crypto", Clock, day)
  /\ UNCHANGED <<day, market, flags, tables, events>>

\* The end of a part, whether saved or deferred.
Leave ==
  IF run.part = "crypto"
  THEN pc' = "read" /\ run' = Run("equity", run.now, run.started)
  ELSE pc' = "idle" /\ run' = NoRun

\* Equity models run as shadow candidates only.
Wanted(m) ==
  /\ ClassOf[m] = run.part
  /\ flags[m] = "candidate" \/ (flags[m] = "production" /\ run.part = "crypto")

\* One query: the flags are those of one moment, for the whole part.
ReadModels ==
  /\ pc = "read"
  /\ IF \E m \in Models : Wanted(m)
     THEN /\ pc' = "observe"
          /\ run' = [run EXCEPT !.left = AssetsOf[run.part],
               !.flags = [m \in Models |-> IF Wanted(m) THEN flags[m] ELSE "none"]]
     ELSE Leave
  /\ UNCHANGED <<day, fires, market, flags, tables, events>>

\* Mutant: the bars read without an upper bound.
ObservedUnbounded(a) == bars[a]

\* Complete days before the cutoff; the equity query has no upper bound.
Observed(a) ==
  IF run.part = "crypto" THEN {d \in bars[a] : d <= run.cutoff} ELSE bars[a]

\* The loops go through the assets in the order of one query.
NextAsset(a) == run.left # {} /\ a = CHOOSE b \in run.left : TRUE

Observe(a) ==
  /\ pc = "observe" /\ NextAsset(a)
  /\ run' = [run EXCEPT !.seen[a] = Observed(a), !.left = @ \ {a}]
  /\ UNCHANGED <<day, fires, market, flags, tables, pc, events>>

IsLast(d, days) == d \in days /\ \A e \in days : e <= d

\* Enough days, the last of them the cutoff.
EndsAt(days, cutoff) == Cardinality(days) >= MinDays /\ IsLast(cutoff, days)

\* The equity part takes its cutoff from SPY.
CutoffOf(seen) == IF run.part = "crypto" THEN run.cutoff ELSE CHOOSE d \in seen : IsLast(d, seen)

\* Mutant: off by one, the benchmark must end before the midnight.
EndsBefore(seen, cutoff) ==
  EndsAt(seen, cutoff) /\ cutoff < run.started /\ run.started - cutoff < StaleDays

\* The run's time is past the midnight it started after, so a session as old as
\* StaleDays is older than the code allows.
BenchmarkReady(seen, cutoff) ==
  EndsAt(seen, cutoff) /\ cutoff <= run.started /\ run.started - cutoff < StaleDays

Judge ==
  /\ pc = "observe" /\ run.left = {}
  /\ LET seen == run.seen[Benchmark[run.part]]
         cutoff == CutoffOf(seen)
     IN IF BenchmarkReady(seen, cutoff)
        THEN /\ pc' = "decide"
             /\ run' = [run EXCEPT !.cutoff = cutoff, !.left = AssetsOf[run.part]]
        ELSE Leave
  /\ UNCHANGED <<day, fires, market, flags, tables, events>>

\* The spot half of the test (alone, it is the mutant of the whole).
SpotReady(a) == EndsAt(run.seen[a], run.cutoff)

\* The derivative rows are read here, long after the bars.
AssetReady(a) ==
  /\ SpotReady(a)
  /\ run.part = "crypto" => TryCreate(rows[a], run.cutoff, run.now)

\* The breadth of the crypto assets, the cross-section of the equities: of the
\* assets with some days, whether they end at the cutoff (equities must) or not.
Peers ==
  {b \in AssetsOf[run.part] :
     /\ Cardinality(run.seen[b]) >= PeerDays
     /\ run.part = "equity" => IsLast(run.cutoff, run.seen[b])}

\* A vector is of the asset's own days, its benchmark's and its peers'.
Vector(a) == [b \in Peers \cup {a, Benchmark[run.part]} |-> run.seen[b]]

\* Mutant: the key of a snapshot without its time.
StoredSnapshotOfAsset(a) == {f \in features : f.asset = a}
\* GetOrCreateSnapshot: a stored snapshot is kept, whatever the vector is now.
StoredSnapshot(a) == {f \in features : f.asset = a /\ f.day = run.cutoff}

Snapshot(a) == [asset |-> a, day |-> run.cutoff, vector |-> Vector(a)]

AlreadyExists(a, m) ==
  \E p \in predictions : p.asset = a /\ p.model = m /\ p.day = run.cutoff

\* Mutant: the flag of each model read again for each prediction.
StageNow(m) == flags[m]
Stage(m) == run.flags[m]

Prediction(a, m) ==
  [asset |-> a, model |-> m, day |-> run.cutoff, made |-> run.now,
   shadow |-> Stage(m) # "production", vector |-> Vector(a),
   snapshot |-> IF StoredSnapshot(a) = {} THEN Snapshot(a)
                ELSE CHOOSE f \in StoredSnapshot(a) : TRUE]

Decide(a) ==
  /\ pc = "decide" /\ NextAsset(a)
  /\ LET missing == {m \in Models : run.flags[m] # "none" /\ ~AlreadyExists(a, m)}
         created == IF StoredSnapshot(a) = {} THEN {Snapshot(a)} ELSE {}
     IN run' = IF AssetReady(a)
               THEN [run EXCEPT !.left = @ \ {a}, !.features = @ \cup created,
                                !.predictions = @ \cup {Prediction(a, m) : m \in missing}]
               ELSE [run EXCEPT !.left = @ \ {a}]
  /\ UNCHANGED <<day, fires, market, flags, tables, pc, events>>

\* The unique indexes of the two tables.
SameFeature(f, g) == f.asset = g.asset /\ f.day = g.day
SamePrediction(p, q) == p.asset = q.asset /\ p.model = q.model /\ p.day = q.day
Conflict ==
  \/ \E f \in run.features, g \in features : SameFeature(f, g)
  \/ \E p \in run.predictions, q \in predictions : SamePrediction(p, q)

\* Mutant: the context's pending rows outlive the exception.
AbandonKeepsRun == pc' = "idle" /\ UNCHANGED run

\* An exception leaves Execute: nothing of the part is saved, and when it was
\* the crypto part the equities get no turn.
Abandon == pc' = "idle" /\ run' = NoRun

\* One transaction, rejected as a whole.
Commit ==
  /\ pc = "decide" /\ run.left = {}
  /\ IF Conflict
     THEN Abandon /\ UNCHANGED tables
     ELSE /\ features' = features \cup run.features
          /\ predictions' = predictions \cup run.predictions
          /\ Leave
  /\ UNCHANGED <<day, fires, market, flags, events>>

Fail ==
  /\ pc # "idle" /\ events < MaxEvents /\ events' = events + 1 /\ Abandon
  /\ UNCHANGED <<day, fires, market, flags, tables>>

Job ==
  \/ Start \/ ReadModels \/ Judge \/ Commit
  \/ \E a \in Assets : Observe(a) \/ Decide(a)

Next ==
  \/ Job \/ Fail \/ NextDay
  \/ RegistryStep
  \/ \E a \in Assets : CompleteDay(a)
  \/ \E a \in Crypto : SaveDerivatives(a)

Record == served' = served \cup {Serving!Producing(flags')}

Spec == Init /\ [][Next /\ Record]_<<vars, served>>
FairSpec == Spec /\ WF_vars(Job)

-----------------------------------------------------------------------------
(* Properties. *)

Days == Earliest..LastDay
Vectors == UNION {[assets -> SUBSET Days] : assets \in SUBSET Assets}

(***************************************************************************)
(* Type invariant: the shape of the two tables and of the job.             *)
(***************************************************************************)
TypeOK ==
  /\ day \in 1..LastDay /\ fires \in 0..Triggers[day]
  /\ bars \in [Assets -> SUBSET Days]
  /\ DOMAIN rows = Crypto /\ flags \in Serving!Flags /\ served \subseteq SUBSET Models
  /\ \A f \in features : f.asset \in Assets /\ f.day \in Earliest..day /\ f.vector \in Vectors
  /\ \A p \in predictions :
       /\ p.asset \in Assets /\ p.model \in Models /\ p.day \in Earliest..day
       /\ p.made \in 0..Clock /\ p.shadow \in BOOLEAN /\ p.vector \in Vectors
  /\ pc \in {"idle", "read", "observe", "decide"}
  /\ pc = "idle" <=> run = NoRun
  /\ events \in 0..MaxEvents

(***************************************************************************)
(* No prediction looks past its cutoff or was made on incomplete inputs:   *)
(* its vector holds the cutoff's own day for the asset and its benchmark   *)
(* and no later day of any asset, although bars arrive and midnight passes *)
(* between the reads of one run.                                           *)
(***************************************************************************)
ClassIn(a) == IF a \in Crypto THEN "crypto" ELSE "equity"
NoLaterDay(f) == \A b \in DOMAIN f.vector : \A d \in f.vector[b] : d <= f.day
InputsEnd(p) ==
  /\ EndsAt(p.vector[p.asset], p.day)
  /\ EndsAt(p.vector[Benchmark[ClassIn(p.asset)]], p.day)
  /\ NoLaterDay(p)
InputsEndAtCutoff == \A p \in predictions : InputsEnd(p)

\* The window of days a model needs, ending at a cutoff.
Window(cutoff) == (cutoff - RequiredDays + 1)..cutoff

(***************************************************************************)
(* A crypto asset is predicted on an unbroken history only, as it was at   *)
(* the inference time of the run: every day of the window that ends at the *)
(* cutoff has a row that was available when the run began.  A day may be   *)
(* missing in the middle, and a row saved while the run goes on is there   *)
(* when the run reads the table but must not be used.                      *)
(***************************************************************************)
DerivativesWereUnbroken ==
  \A p \in predictions : p.asset \in Crypto =>
    \A d \in Window(p.day) : \E r \in rows[p.asset] : r.day = d /\ r.at <= p.made

(***************************************************************************)
(* TryCreate accepts every unbroken history that has one row a day.        *)
(***************************************************************************)
UnbrokenHistoryIsReady ==
  \A a \in Crypto :
    (\A d \in Window(day) :
       /\ \E r \in rows[a] : r.day = d
       /\ \A r, s \in rows[a] : r.day = d /\ s.day = d => r = s /\ r.at <= Clock)
      => TryCreate(rows[a], day, Clock)

(***************************************************************************)
(* The snapshot a prediction points at is stored, is of the same asset and *)
(* cutoff, and was computed from no day the prediction's own vector lacks. *)
(* (It may be older than the vector: a later run of the day keeps it.)     *)
(***************************************************************************)
SnapshotPrecedes(p) ==
  /\ SameFeature(p, p.snapshot)
  /\ \A b \in DOMAIN p.vector \cap DOMAIN p.snapshot.vector :
       p.snapshot.vector[b] \subseteq p.vector[b]
SnapshotIsOfThePrediction ==
  \A p \in predictions : p.snapshot \in features /\ SnapshotPrecedes(p)

(***************************************************************************)
(* However the registry moves during a run, what one save publishes as     *)
(* production comes from models that were in production together at one    *)
(* moment: never from a model and the one that has replaced it.            *)
(***************************************************************************)
OneProductionModelPerRun ==
  [][\E S \in served :
       \A p \in predictions' \ predictions : ~p.shadow => p.model \in S]_vars

(***************************************************************************)
(* An asset whose inputs are complete while triggers are left today gets a *)
(* prediction of every model in use, though earlier runs of the day may    *)
(* have predicted part of it: a rerun adds what is missing.  An equity     *)
(* needs a run that starts and ends today.  Faults and registry changes    *)
(* are over (they are bounded here).                                       *)
(***************************************************************************)
Quiet == events = MaxEvents
CryptoComplete(a, d) ==
  /\ day = d /\ pc = "idle" /\ fires > 0
  /\ EndsAt(bars[a], d) /\ EndsAt(bars[Btc], d) /\ TryCreate(rows[a], d, Clock)
EquityComplete(a, d) ==
  /\ day = d /\ pc = "idle" /\ fires > 1
  /\ EndsAt(bars[a], d) /\ EndsAt(bars[Spy], d)
UsedFor(m) ==
  IF ClassOf[m] = "crypto" THEN flags[m] # "none" ELSE flags[m] = "candidate"

Predicted(a, class, d) ==
  \A m \in Models : ClassOf[m] = class /\ UsedFor(m) =>
    \E p \in predictions : p.asset = a /\ p.model = m /\ p.day = d

CompleteAssetIsPredicted ==
  \A d \in {e \in 1..LastDay : Triggers[e] > 0} :
    /\ \A a \in Crypto : (Quiet /\ CryptoComplete(a, d)) ~> Predicted(a, "crypto", d)
    /\ \A a \in Equity : (Quiet /\ EquityComplete(a, d)) ~> Predicted(a, "equity", d)
-----------------------------------------------------------------------------
(***************************************************************************)
(* The inductive strengthening behind the safety properties.               *)
(***************************************************************************)
Reading == pc \in {"observe", "decide"}

\* Assets of the part whose bars the run has read.
Read == IF pc = "decide" THEN AssetsOf[run.part] ELSE AssetsOf[run.part] \ run.left

\* What a run has read is still there, and was cut at its cutoff.
ReadInv ==
  Reading =>
    /\ run.left \subseteq AssetsOf[run.part]
    /\ \A b \in Read :
         /\ run.seen[b] \subseteq bars[b]
         /\ run.part = "crypto" => \A d \in run.seen[b] : d <= run.cutoff

\* The flags a run has read are of one moment, and the present is recorded.
FlagsInv ==
  /\ served \subseteq SUBSET Models /\ Serving!Producing(flags) \in served
  /\ Reading => \E S \in served : Serving!Producing(run.flags) \subseteq S

\* A snapshot is of days that are there and end at its own.
Grounded(f) ==
  /\ f.asset \in Assets /\ NoLaterDay(f)
  /\ \A b \in DOMAIN f.vector :
       b \in AssetsOf[ClassIn(f.asset)] /\ f.vector[b] \subseteq bars[b]

\* A run has read at least the days of a snapshot it may reuse.
ReuseInv ==
  Reading => \A f \in features :
    ClassIn(f.asset) = run.part /\ (run.part = "crypto" => f.day = run.cutoff) =>
      \A b \in Read \cap DOMAIN f.vector : f.vector[b] \subseteq run.seen[b]

\* What waits in the context will be right once it is saved.
PendingInv ==
  /\ pc # "decide" => run.features = {} /\ run.predictions = {}
  /\ pc = "decide" =>
       /\ EndsAt(run.seen[Benchmark[run.part]], run.cutoff)
       /\ \A f \in run.features : Grounded(f)
       /\ \A p \in run.predictions :
            /\ InputsEnd(p) /\ SnapshotPrecedes(p)
            /\ p.snapshot \in features \cup run.features
            /\ p.model \in Models /\ p.shadow = (run.flags[p.model] # "production")

IInv ==
  /\ ReadInv /\ FlagsInv /\ ReuseInv /\ PendingInv
  /\ \A f \in features : Grounded(f)
  /\ InputsEndAtCutoff /\ SnapshotIsOfThePrediction
=============================================================================
