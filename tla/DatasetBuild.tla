---------------------------- MODULE DatasetBuild ----------------------------
(***************************************************************************)
(* build-dataset, build-equity-dataset and upgrade-equity-v3-dataset.  The *)
(* crypto build reads, asset by asset, whatever spot and derivative files  *)
(* lie in the mirror at that moment, a download possibly still running; a  *)
(* derivative table it has consolidated is kept as a cache and trusted     *)
(* while no source has a later modification time.                          *)
(*                                                                         *)
(* A dataset is known by what it was built from: `from` is a set of mirror *)
(* files, or the history the database held.                                *)
(***************************************************************************)
EXTENDS HistoricalArchive, TrainingDataset, Sequences

CONSTANTS
  AssetOrder,          \* the crypto assets, in the order of the registry
  AssetOf, DaysOf,     \* of each mirror file
  EarlierDays, EarlierDerivatives, \* of each asset: days of files that never change
  EquityHistories, SessionsOf,     \* what the database may hold: sessions per symbol
  Pilot,               \* the equity symbols
  MacroDays,           \* observation days of the FRED series
  FirstDay, LastDay    \* the days any of this is about

Assets == {AssetOrder[i] : i \in DOMAIN AssetOrder}
Kinds == {"crypto", "equity", "equity-v3"}
Days == FirstDay..LastDay

ASSUME BuildConstants ==
  /\ FirstDay \in Int /\ LastDay \in Int
  /\ AssetOrder \in Seq(Assets) /\ AssetOrder # <<>>
  /\ \A i, j \in DOMAIN AssetOrder : AssetOrder[i] = AssetOrder[j] => i = j
  /\ AssetOf \in [Files -> Assets] /\ Pilot # {} /\ MacroDays \subseteq Days
  /\ DaysOf \in [Files -> SUBSET Days]
  /\ EarlierDays \in [Assets -> SUBSET Days] /\ EarlierDerivatives \in [Assets -> SUBSET Days]
  /\ DOMAIN SessionsOf = EquityHistories
  /\ \A h \in EquityHistories : \A a \in DOMAIN SessionsOf[h] : SessionsOf[h][a] \subseteq Days

VARIABLES
  cache,      \* per asset: the consolidated table, and the sources it holds
  newer,      \* per asset: sources modified after the table
  overlooked, \* per asset: sources finished between the listing and the table (ghost)
  build,      \* the running build
  samples     \* per kind: the dataset file

buildVars == <<cache, newer, overlooked, build, samples>>

NoFile == [state |-> "absent", from |-> {}]
TornFile == [state |-> "torn", from |-> {}]
WholeFile(from) == [state |-> "whole", from |-> from]

NoBuild == [stage |-> "idle", target |-> "", asset |-> 0, listed |-> {}, wanted |-> {},
            from |-> {}]

BuildInit ==
  /\ cache = [a \in Assets |-> NoFile] /\ newer = [a \in Assets |-> {}]
  /\ overlooked = [a \in Assets |-> {}]
  /\ build = NoBuild /\ samples = [k \in Kinds |-> NoFile]

Sources(a) == {f \in Futures : AssetOf[f] = a}
Listed(files) == {f \in files : parquet[f] # Absent}
Finished(files) == {f \in files : parquet[f] \in Versions}

Asset == AssetOrder[build.asset]

\* Modification times: whatever a download writes is newer than the table.
Touch == newer' = [a \in Assets |-> newer[a] \cup {f \in Sources(a) : parquet'[f] # parquet[f]}]

-----------------------------------------------------------------------------
Fails == build' = NoBuild

BuildDataset ==
  /\ build = NoBuild
  /\ build' = [NoBuild EXCEPT !.stage = "spot", !.target = "crypto", !.asset = 1]
  /\ UNCHANGED <<cache, newer, overlooked, samples>>

ReadSpot ==
  LET files == Listed({f \in Spot : AssetOf[f] = Asset})
  IN  /\ build.stage = "spot"
      /\ IF (files = {} /\ EarlierDays[Asset] = {}) \/ Finished(files) # files
         THEN Fails
         ELSE build' = [build EXCEPT !.stage = "look", !.from = @ \cup files]
      /\ UNCHANGED <<cache, newer, overlooked, samples>>

HasSources(a, listed) == listed # {} \/ EarlierDerivatives[a] # {}

\* Mutant: a table that exists is used.
CacheExists(a, listed) == cache[a] # NoFile /\ HasSources(a, listed)

\* The table is used while no listed source was modified after it.
CacheIsFresh(a, listed) == cache[a] # NoFile /\ HasSources(a, listed) /\ newer[a] \cap listed = {}

Look ==
  LET listed == Listed(Sources(Asset))
  IN  /\ build.stage = "look"
      /\ build' = [build EXCEPT !.listed = listed, !.wanted = @ \cup Finished(listed),
                                !.stage = IF CacheIsFresh(Asset, listed) THEN "cached" ELSE "read"]
      /\ UNCHANGED <<cache, newer, overlooked, samples>>

\* An asset has its derivatives: on to the next one, or to the samples.
Loaded(files) ==
  build' = [build EXCEPT !.from = @ \cup files,
                         !.asset = IF @ = Len(AssetOrder) THEN @ ELSE @ + 1,
                         !.stage = IF build.asset = Len(AssetOrder) THEN "assemble" ELSE "spot",
                         !.listed = {}]

\* A torn table is the newest file there is: every later build stops here
\* until a download touches a source.
ReadCache ==
  /\ build.stage = "cached"
  /\ IF cache[Asset].state = "whole" THEN Loaded(cache[Asset].from) ELSE Fails
  /\ UNCHANGED <<cache, newer, overlooked, samples>>

ReadSources ==
  /\ build.stage = "read"
  /\ IF Finished(build.listed) = build.listed /\ HasSources(Asset, build.listed)
     THEN /\ build' = [build EXCEPT !.stage = "caching"]
          /\ cache' = [cache EXCEPT ![Asset] = TornFile]
          /\ newer' = [newer EXCEPT ![Asset] = {}]
     ELSE Fails /\ UNCHANGED <<cache, newer>>
  /\ UNCHANGED <<overlooked, samples>>

CacheWritten ==
  /\ build.stage = "caching"
  /\ cache' = [cache EXCEPT ![Asset] = WholeFile(build.listed)]
  /\ newer' = [newer EXCEPT ![Asset] = {}]
  /\ overlooked' = [overlooked EXCEPT ![Asset] = Listed(Sources(Asset)) \ build.listed]
  /\ Loaded(build.listed)
  /\ UNCHANGED samples

\* The features are computed in memory; the file is then written in place.
Assemble ==
  /\ build.stage = "assemble"
  /\ build' = [build EXCEPT !.stage = "writing"]
  /\ samples' = [samples EXCEPT ![build.target] = TornFile]
  /\ UNCHANGED <<cache, newer, overlooked>>

SamplesWritten ==
  /\ build.stage = "writing"
  /\ build' = NoBuild
  /\ samples' = [samples EXCEPT ![build.target] = WholeFile(build.from)]
  /\ UNCHANGED <<cache, newer, overlooked>>

\* One query answers with the bars the database holds; a symbol without any
\* is an error.
BuildEquityDataset(history) ==
  /\ build = NoBuild
  /\ Pilot \subseteq DOMAIN SessionsOf[history]
  /\ build' = [NoBuild EXCEPT !.stage = "assemble", !.target = "equity", !.from = {history}]
  /\ UNCHANGED <<cache, newer, overlooked, samples>>

UpgradeEquityDataset ==
  /\ build = NoBuild /\ samples["equity"].state = "whole"
  /\ build' = [NoBuild EXCEPT !.stage = "assemble", !.target = "equity-v3",
                              !.from = samples["equity"].from]
  /\ UNCHANGED <<cache, newer, overlooked, samples>>

\* Killed; the caller counts the fault.
BuildKilled == build # NoBuild /\ Fails /\ UNCHANGED <<cache, newer, overlooked, samples>>

BuildCommand ==
  BuildDataset \/ (\E h \in EquityHistories : BuildEquityDataset(h)) \/ UpgradeEquityDataset

BuildStep ==
  ReadSpot \/ Look \/ ReadCache \/ ReadSources \/ CacheWritten \/ Assemble \/ SamplesWritten

-----------------------------------------------------------------------------
\* The bars and derivatives the files in `from` hold, the unchanging ones included.
BarsOf(from) ==
  [a \in Assets |-> EarlierDays[a] \cup
     UNION {DaysOf[f] : f \in {g \in from \cap Spot : AssetOf[g] = a}}]
DerivativesOf(from) ==
  [a \in Assets |-> EarlierDerivatives[a] \cup
     UNION {DaysOf[f] : f \in {g \in from \cap Futures : AssetOf[g] = a}}]

Dataset(kind, from, rows) == [kind |-> kind, from |-> from, rows |-> rows]

\* Every dataset a build can leave; "macro" is the equity one joined with FRED.
Datasets ==
  {Dataset("crypto", files, CryptoSamples(BarsOf(files), DerivativesOf(files))) : files \in SUBSET Files}
    \cup UNION {LET rows == EquitySamples(SessionsOf[h])
                IN  {Dataset("equity", {h}, rows), Dataset("equity-v3", {h}, AddSpyMacro(rows)),
                     Dataset("macro", {h}, AttachMacro(rows, MacroDays))} : h \in EquityHistories}

\* The samples in a dataset file.
RowsIn(kind, from) == (CHOOSE d \in Datasets : d.kind = kind /\ d.from = from).rows

-----------------------------------------------------------------------------
(***************************************************************************)
(* The derivative table an asset enters the dataset with holds every       *)
(* source that was complete when the build listed the mirror, except those *)
(* a concurrent download finished while the table was being consolidated.  *)
(***************************************************************************)
TablesAreCurrent ==
  \A i \in DOMAIN AssetOrder :
    LET a == AssetOrder[i] IN
    (build.target = "crypto" /\ (i < build.asset \/ build.stage \in {"assemble", "writing"})) =>
      build.wanted \cap Sources(a) \subseteq build.from \cup overlooked[a]

\* The newest day that is over at a row's stamp: the day before midnight for
\* crypto; an equity row is used once its own session has closed.
LastReadable(kind, row) == IF kind = "crypto" THEN row.at - 1 ELSE row.at

PointInTime(kind, row) ==
  row.at < row.end /\ \A d \in row.reads : d <= LastReadable(kind, row)

PointInTimeDatasets == {d \in Datasets : \A r \in d.rows : PointInTime(d.kind, r)}

(***************************************************************************)
(* No row reads the future: every day behind the features of a sample, its *)
(* peers' and SPY's days and the publication days of its macro             *)
(* observations included, was over when the row was stamped, and its label *)
(* ends later.  It is about days: a macro value revised since its          *)
(* publication is the one of the download (fred_macro_ablation.py:166).    *)
(***************************************************************************)
ReadsOnlyThePast ==
  \A k \in Kinds \cup {"macro"} :
    LET file == samples[IF k = "macro" THEN "equity" ELSE k] IN
    file.state = "whole" => \E d \in PointInTimeDatasets : d.kind = k /\ d.from = file.from
=============================================================================
