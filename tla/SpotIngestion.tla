---------------------------- MODULE SpotIngestion ----------------------------
(***************************************************************************)
(* Hourly crypto candles on their way into price_bars.  Two writers share  *)
(* the table: BinanceSyncJob (REST, one run at a time, one Entity          *)
(* Framework context per run) and BinanceWebSocketService (one context per *)
(* closed candle).  The exchange moves on underneath both of them, and the *)
(* worker's own clock may be behind it or ahead of it.                     *)
(*                                                                         *)
(* Hour 1 is the first hour of the inference window (desiredStart); the    *)
(* model runs inside one UTC day, so the window does not move.             *)
(***************************************************************************)
EXTENDS Integers, Sequences

CONSTANTS
  Catalog,     \* AssetCatalog.Crypto, in the order the job visits it
  None,        \* no row
  StartClock,  \* the hour being traded when the model starts
  Horizon,     \* bound: the last hour of the model
  MaxDrift,    \* hours the worker's clock may be off
  MaxTicks,    \* bound: how often an open candle's data changes
  Limit,       \* BackfillLimit: candles per REST page
  ListedAt,    \* first hour for which the exchange has candles
  MaxFaults    \* bound: errors, lost commits and crashes, together

Assets == {Catalog[i] : i \in DOMAIN Catalog}
Hours == 1..Horizon
Bars == Assets \X Hours
Versions == 0..MaxTicks

ASSUME Bounds ==
  /\ Catalog \in Seq(Assets) /\ Catalog # << >>
  /\ Horizon \in Nat /\ StartClock \in Hours /\ ListedAt \in 1..StartClock
  /\ {MaxDrift, MaxTicks, MaxFaults} \subseteq Nat /\ Limit \in Nat \ {0}

INSTANCE PriceBarWriter

\* A page (1000 hours) spans the part of a UTC day the model runs in and what the
\* clocks may differ by.  The day's recent page holds the whole window or starts
\* past the tolerance of HistoryLooksComplete.
ASSUME OneDay ==
  /\ Horizon - StartClock < Limit /\ (Horizon - StartClock) + MaxDrift <= Limit
  /\ Horizon <= Limit \/ Horizon > Limit + 1

ASSUME NoneIsNoRow == None \notin Row /\ None \notin Bars

VARIABLES
  clock,       \* the hour being traded; hours below it are closed
  host,        \* the hour the worker's clock shows (DateTimeOffset.UtcNow)
  truth,       \* the data of every candle so far, at the exchange
  db,          \* table price_bars
  run,         \* the latest row of ingestion_runs for this job
  ws,          \* the socket: "down", "idle" or "loaded"
  inbox,       \* closed-candle events in the socket's buffer
  wsBar,       \* the bar the socket's writer is handling
  wsOrig,      \* the row that writer's context loaded
  pc,          \* where the sync job stands
  asset,       \* index of the asset it is handling
  mode,        \* "backfill" or "recent": which page it is fetching
  cursor,      \* backfill: start of the next page
  stopBefore,  \* backfill: end of the history to fetch, 0 when skipped
  cand,        \* the page: candidates by bar
  readAt,      \* when the exchange answered with that page
  orig, cur,   \* the job's context: tracked and wanted values
  settled,     \* history: bars committed from data read after their close
  began,       \* history: the exchange's hour when the latest run began
  cut,         \* history: assets whose backfill has been cut short half stored
  faults       \* faults so far (bounded by MaxFaults)

history == <<settled, began, cut>>
exchange == <<clock, host, truth>>
socket == <<ws, inbox, wsBar, wsOrig>>
plan == <<asset, mode, cursor, stopBefore>>
context == <<cand, readAt, orig, cur>>
vars == <<exchange, db, run, socket, pc, plan, context, history, faults>>

\* What the worker's clock may show at an hour of the exchange.
Near(hour) ==
  {h \in 1..(Horizon + MaxDrift) : hour - MaxDrift <= h /\ h <= hour + MaxDrift}

Blank == [k \in Bars |-> None]
Closed(k) == k[2] < clock
ClosingRow(k) == [final |-> TRUE, ver |-> truth[k]]

Init ==
  /\ clock = StartClock /\ host \in Near(StartClock) /\ truth = [k \in Bars |-> 0]
  /\ db = Blank /\ run = [status |-> "none", startedAt |-> 0]
  /\ ws = "down" /\ inbox = {} /\ wsBar = None /\ wsOrig = None
  /\ pc = "idle" /\ asset = 1 /\ mode = "recent" /\ cursor = 1 /\ stopBefore = 0
  /\ cand = Blank /\ readAt = 0 /\ orig = Blank /\ cur = Blank
  /\ settled = {} /\ began = 0 /\ cut = {} /\ faults = 0

-----------------------------------------------------------------------------
(* The exchange and the worker's clock. *)

\* A trade changes the open candle.
Trade(k) ==
  /\ k[2] = clock /\ truth[k] < MaxTicks
  /\ truth' = [truth EXCEPT ![k] = @ + 1]
  /\ UNCHANGED <<clock, host, db, run, socket, pc, plan, context, history, faults>>

\* The hour ends: its candles close and a connected socket is told so.
Close ==
  /\ clock < Horizon
  /\ clock' = clock + 1 /\ host' \in {host, host + 1} \cap Near(clock + 1)
  /\ inbox' = IF ws = "down" THEN {} ELSE inbox \cup {<<a, clock>> : a \in Assets}
  /\ UNCHANGED <<truth, db, run, ws, wsBar, wsOrig, pc, plan, context, history, faults>>

\* The worker's clock enters its next hour; it is never set back.
HostTick ==
  /\ host' = host + 1 /\ host' \in Near(clock)
  /\ UNCHANGED <<clock, truth, db, run, socket, pc, plan, context, history, faults>>

-----------------------------------------------------------------------------
(* BinanceWebSocketService. *)

WsConnect ==
  /\ ws = "down" /\ ws' = "idle"
  /\ UNCHANGED <<exchange, db, run, inbox, wsBar, wsOrig, pc, plan, context, history, faults>>

\* A final candle arrives: a new scope is created and its writer queries the row.
WsLoad(k) ==
  /\ ws = "idle" /\ k \in inbox
  /\ ws' = "loaded" /\ wsBar' = k /\ wsOrig' = db[k]
  /\ inbox' = inbox \ {k}
  /\ UNCHANGED <<exchange, db, run, pc, plan, context, history, faults>>

WsConflict == InsertConflict(wsOrig, ClosingRow(wsBar), db[wsBar])

WsSave ==
  /\ ws = "loaded" /\ ~WsConflict
  /\ db' = [db EXCEPT ![wsBar] = Written(wsOrig, Applied(ClosingRow(wsBar), wsOrig), @)]
  /\ ws' = "idle" /\ wsBar' = None /\ wsOrig' = None
  /\ UNCHANGED <<exchange, run, inbox, pc, plan, context, history, faults>>

Disconnect ==
  /\ ws' = "down" /\ inbox' = {} /\ wsBar' = None /\ wsOrig' = None

(***************************************************************************)
(* The socket closes or any exception leaves ConsumeAsync, a unique-key    *)
(* violation among them; the buffered candles are gone.                    *)
(***************************************************************************)
WsDrop ==
  /\ ws # "down" /\ Disconnect
  /\ UNCHANGED <<exchange, db, run, pc, plan, context, history, faults>>
-----------------------------------------------------------------------------
(* BinanceSyncJob. *)

Stored(a) == {h \in Hours : db[<<a, h>>] # None}
IsEarliest(h, S) == h \in S /\ \A x \in S : h <= x
\* Mutant: any stored bar passes for a complete history.
AnyBarIsHistory(a) == Stored(a) # {}

\* The test of the earliest bar against desiredStart + 1 h.
HistoryLooksComplete(a) == \E h \in Stored(a) : h <= 2

ClearContext ==
  /\ cand' = Blank /\ readAt' = 0 /\ orig' = Blank /\ cur' = Blank
ResetPlan ==
  /\ asset' = 1 /\ mode' = "recent" /\ cursor' = 1 /\ stopBefore' = 0

\* Quartz fires the trigger; the run row is committed as "running".
SyncStart ==
  /\ pc = "idle" /\ pc' = "plan"
  /\ run' = [status |-> "running", startedAt |-> host] /\ began' = clock
  /\ UNCHANGED <<exchange, db, socket, plan, context, settled, cut, faults>>

\* BackfillInferenceHistoryAsync returns at once.
SkipBackfill ==
  /\ pc = "plan" /\ HistoryLooksComplete(Catalog[asset])
  /\ pc' = "request" /\ mode' = "recent" /\ cursor' = 1 /\ stopBefore' = 0
  /\ UNCHANGED <<exchange, db, run, socket, asset, context, history, faults>>

\* It pages from desiredStart up to the earliest stored bar, or up to now.
BeginBackfill ==
  /\ pc = "plan" /\ ~HistoryLooksComplete(Catalog[asset])
  /\ pc' = "request" /\ mode' = "backfill" /\ cursor' = 1
  /\ LET S == Stored(Catalog[asset])
     IN \/ S = {} /\ stopBefore' = host + 1
        \/ \E h \in S : IsEarliest(h, S) /\ stopBefore' = h
  /\ UNCHANGED <<exchange, db, run, socket, asset, context, history, faults>>

PageFrom == IF cursor > ListedAt THEN cursor ELSE ListedAt
Page ==
  IF mode = "backfill"
    THEN {h \in Hours : PageFrom <= h /\ h < PageFrom + Limit
                          /\ h < stopBefore /\ h <= clock}
    ELSE {h \in Hours : ListedAt <= h /\ h <= clock /\ clock - Limit < h}

\* The exchange answers with the candles as they are now, the open one too.
Request ==
  /\ pc = "request" /\ Page # {}
  /\ pc' = "parse" /\ readAt' = clock
  /\ cand' = [k \in Bars |-> IF k[1] = Catalog[asset] /\ k[2] \in Page
                               THEN [final |-> FALSE, ver |-> truth[k]] ELSE None]
  /\ UNCHANGED <<exchange, db, run, socket, plan, orig, cur, history, faults>>

\* An empty page ends the backfill.
EmptyPage ==
  /\ pc = "request" /\ Page = {} /\ mode = "backfill"
  /\ mode' = "recent"
  /\ UNCHANGED <<exchange, db, run, socket, pc, asset, cursor, stopBefore, context,
                 history, faults>>

\* Mutant: off by one, a candle is final an hour after its close.
FinalAnHourLate(k) == k[2] + 1 < host

\* IsFinal compares the close time with the worker's clock after the body was read.
IsFinalNow(k) == k[2] < host

Parse ==
  /\ pc = "parse" /\ pc' = "load"
  /\ cand' = [k \in Bars |-> IF cand[k] = None THEN None
                             ELSE [final |-> IsFinalNow(k), ver |-> cand[k].ver]]
  /\ UNCHANGED <<exchange, db, run, socket, plan, readAt, orig, cur, history, faults>>

\* UpsertAsync up to SaveChanges: query the page's rows, apply the candidates.
Load ==
  /\ pc = "load" /\ pc' = "save"
  /\ orig' = [k \in Bars |-> IF cand[k] = None THEN orig[k] ELSE Tracked(orig[k], db[k])]
  /\ cur' = [k \in Bars |-> Applied(cand[k], IF cand[k] = None THEN cur[k]
                                             ELSE Tracked(cur[k], db[k]))]
  /\ UNCHANGED <<exchange, db, run, socket, plan, cand, readAt, history, faults>>

SyncConflict == \E k \in Bars : InsertConflict(orig[k], cur[k], db[k])
AfterSave == [k \in Bars |-> Written(orig[k], cur[k], db[k])]

\* The page's hours, and where the next page starts.
PageBars == {k \in Bars : cand[k] # None}
IsLast(h) == (\E k \in PageBars : k[2] = h) /\ \A k \in PageBars : k[2] <= h

\* Mutant: the cursor jumps over a page.
ContinueSkipping ==
  \/ /\ mode = "backfill"
     /\ \E h \in Hours :
          /\ IsLast(h)
          /\ cursor' = h + Limit
          /\ mode' = IF h + Limit < stopBefore THEN "backfill" ELSE "recent"
     /\ pc' = "request" /\ UNCHANGED <<asset, stopBefore>>
  \/ /\ mode = "recent" /\ asset < Len(Catalog)
     /\ pc' = "plan" /\ asset' = asset + 1
     /\ UNCHANGED <<mode, cursor, stopBefore>>
  \/ /\ mode = "recent" /\ asset = Len(Catalog)
     /\ pc' = "finish" /\ UNCHANGED plan

\* After a page: the next one, the recent page, the next asset, or the end.
Continue ==
  \/ /\ mode = "backfill"
     /\ \E h \in Hours :
          /\ IsLast(h)
          /\ cursor' = h + 1
          /\ mode' = IF h + 1 < stopBefore THEN "backfill" ELSE "recent"
     /\ pc' = "request" /\ UNCHANGED <<asset, stopBefore>>
  \/ /\ mode = "recent" /\ asset < Len(Catalog)
     /\ pc' = "plan" /\ asset' = asset + 1
     /\ UNCHANGED <<mode, cursor, stopBefore>>
  \/ /\ mode = "recent" /\ asset = Len(Catalog)
     /\ pc' = "finish" /\ UNCHANGED plan

Save ==
  /\ pc = "save" /\ ~SyncConflict
  /\ db' = AfterSave /\ orig' = cur /\ cand' = Blank
  /\ settled' = settled \cup {k \in PageBars : k[2] < readAt /\ cand[k].final}
  /\ Continue
  /\ UNCHANGED <<exchange, run, socket, readAt, cur, began, cut, faults>>

\* The run row is committed as "succeeded" and the job's scope ends.
Finish ==
  /\ pc = "finish" /\ pc' = "idle"
  /\ run' = [run EXCEPT !.status = "succeeded"]
  /\ ResetPlan /\ ClearContext
  /\ UNCHANGED <<exchange, db, socket, history, faults>>
-----------------------------------------------------------------------------
(* Failures of the job. *)

\* A backfill that ends here has stored, or may still store, only part of its pages.
HalfStored == mode = "backfill" /\ (cursor > 1 \/ pc = "save")
NoteCut == cut' = IF HalfStored THEN cut \cup {Catalog[asset]} ELSE cut

\* A unique-key violation at SaveChanges: the batch is rolled back.
SaveConflict ==
  /\ pc = "save" /\ SyncConflict /\ pc' = "catch" /\ NoteCut
  /\ UNCHANGED <<exchange, db, run, socket, plan, context, settled, began, faults>>

\* An HTTP error, a timeout, an invalid payload, a database error, a cancellation.
Fail ==
  /\ pc \in {"plan", "request", "parse", "load", "save", "finish"}
  /\ faults < MaxFaults /\ faults' = faults + 1
  /\ pc' = "catch" /\ NoteCut
  /\ UNCHANGED <<exchange, db, run, socket, plan, context, settled, began>>

(***************************************************************************)
(* The catch block saves with the same context: what the failed batch left *)
(* pending is written with the run row, or its conflict strikes again and  *)
(* the row stays "running".                                                *)
(***************************************************************************)
CatchSave ==
  /\ pc = "catch" /\ ~SyncConflict /\ pc' = "idle"
  /\ db' = AfterSave
  /\ run' = [run EXCEPT !.status = "failed"]
  /\ ResetPlan /\ ClearContext
  /\ UNCHANGED <<exchange, socket, history, faults>>

CatchLost ==
  /\ pc = "catch" /\ pc' = "idle"
  /\ \/ SyncConflict /\ UNCHANGED faults
     \/ ~SyncConflict /\ faults < MaxFaults /\ faults' = faults + 1
  /\ ResetPlan /\ ClearContext
  /\ UNCHANGED <<exchange, db, run, socket, history>>

\* The worker process dies: the job, its context and the socket with it.
Crash ==
  /\ faults < MaxFaults /\ faults' = faults + 1
  /\ pc' = "idle" /\ ResetPlan /\ ClearContext /\ Disconnect
  /\ NoteCut
  /\ UNCHANGED <<exchange, db, run, settled, began>>
-----------------------------------------------------------------------------
ExchangeStep == Close \/ HostTick \/ \E k \in Bars : Trade(k)
WsStep == WsConnect \/ WsSave \/ WsDrop \/ \E k \in Bars : WsLoad(k)
SyncStep ==
  \/ SyncStart \/ SkipBackfill \/ BeginBackfill
  \/ Request \/ EmptyPage \/ Parse \/ Load \/ Save \/ Finish
  \/ SaveConflict \/ CatchSave \/ CatchLost
Next == ExchangeStep \/ WsStep \/ SyncStep \/ Fail \/ Crash

Spec == Init /\ [][Next]_vars

(***************************************************************************)
(* Quartz fires the trigger every ten minutes for ever and the client's    *)
(* timeout ends every request, so the job always takes its next step, and  *)
(* a clock that is behind goes on.  The socket, the exchange and the       *)
(* failures owe nothing.                                                   *)
(***************************************************************************)
FairSpec == Spec /\ WF_vars(SyncStep) /\ WF_vars(host < clock /\ HostTick)
-----------------------------------------------------------------------------
TypeOK ==
  /\ clock \in Hours /\ host \in Near(clock) /\ truth \in [Bars -> Versions]
  /\ db \in [Bars -> MaybeRow]
  /\ run \in [status : {"none", "running", "succeeded", "failed"}, startedAt : 0..(Horizon + MaxDrift)]
  /\ ws \in {"down", "idle", "loaded"} /\ inbox \subseteq Bars
  /\ wsBar \in Bars \cup {None} /\ wsOrig \in MaybeRow
  /\ pc \in {"idle", "plan", "request", "parse", "load", "save", "finish", "catch"}
  /\ asset \in DOMAIN Catalog /\ mode \in {"backfill", "recent"}
  /\ cursor \in 1..(Horizon + 1) /\ stopBefore \in 0..(Horizon + MaxDrift + 1)
  /\ cand \in [Bars -> MaybeRow] /\ readAt \in 0..Horizon
  /\ orig \in [Bars -> MaybeRow] /\ cur \in [Bars -> MaybeRow]
  /\ settled \subseteq Bars /\ began \in 0..Horizon /\ cut \subseteq Assets /\ faults \in 0..MaxFaults

(***************************************************************************)
(* PriceBarWriter's guard under two writers: no interleaving of a sync     *)
(* run, its tracked entities, its failure path and the socket turns a      *)
(* final row back into a provisional one, although no row is locked.       *)
(***************************************************************************)
FinalNeverReverts ==
  [][\A k \in Bars : db[k] # None /\ db[k].final => db'[k] # None /\ db'[k].final]_vars

(***************************************************************************)
(* A bar that the job has once committed as final from data read after the *)
(* candle closed holds the exchange's closing data, and no later write by  *)
(* either writer, with however old a tracked entity and whatever the       *)
(* worker's clock makes of the candle, disturbs it.                        *)
(***************************************************************************)
SettledBarsAreExact == \A k \in settled : Closed(k) /\ db[k] = ClosingRow(k)

(***************************************************************************)
(* A row of ingestion_runs that says "succeeded" means what the periodic   *)
(* reconciliation promises: every candle of the last Limit hours that had  *)
(* closed, by the exchange's clock and the worker's, when the run started  *)
(* is stored final with its closing data, for every asset, whatever the    *)
(* socket did meanwhile.                                                   *)
(***************************************************************************)
SucceededRunReconciles ==
  run.status = "succeeded" =>
    \A k \in Bars :
      /\ ListedAt <= k[2] /\ clock - Limit < k[2]
      /\ k[2] < run.startedAt /\ k[2] < began
      => db[k] = ClosingRow(k)

(***************************************************************************)
(* A backfill that the job has paged to its end leaves no hour missing     *)
(* between the start of the window and the bar it stopped at, of those the *)
(* exchange had when the run began.                                        *)
(***************************************************************************)
BackfillLeavesNoHole ==
  pc = "request" /\ mode = "recent" =>
    \A h \in Hours :
      ListedAt <= h /\ h < stopBefore /\ h <= began => db[<<Catalog[asset], h>>] # None

(***************************************************************************)
(* The earliest bar, the only thing the job looks at before it skips the   *)
(* backfill, is a sound sign of completeness with one exception: a run     *)
(* that ends in the middle of a backfill leaves the window of that asset   *)
(* with a hole which no later run notices.  Whatever else goes wrong, a    *)
(* succeeded run leaves every hour from the first candle on stored.        *)
(***************************************************************************)
OnlyCutBackfillsLeaveHoles ==
  run.status = "succeeded" =>
    \A k \in Bars : ListedAt <= k[2] /\ k[2] <= began /\ k[1] \notin cut => db[k] # None

(***************************************************************************)
(* Every closed candle in reach of the reconciliation ends up final with   *)
(* its closing data and stays so, even when a race stored stale data under *)
(* a final flag in between: the next runs repair it.                       *)
(***************************************************************************)
ClosedBarsHeal == <>[](\A k \in Bars : Closed(k) => db[k] = ClosingRow(k))

(***************************************************************************)
(* What a reader of IsFinal takes it to mean: a final row holds the data   *)
(* of the closed candle.                                                   *)
(***************************************************************************)
FinalBarsAreClosed == \A k \in Bars : db[k] # None /\ db[k].final => db[k] = ClosingRow(k)

Ledger == INSTANCE BarLedger WITH rows <- db

(***************************************************************************)
(* The two writers together implement the ledger its readers rely on.      *)
(***************************************************************************)
ImplementsLedger == Ledger!LedgerSpec
-----------------------------------------------------------------------------
(***************************************************************************)
(* The inductive strengthening behind the safety properties.               *)
(***************************************************************************)
InFlight == {"parse", "load", "save", "catch"}
ReadClosed(k) == cand[k] # None /\ k[2] < readAt
Settling(k) == ReadClosed(k) /\ cand[k].final

\* The socket only carries candles that have closed.
SocketInv ==
  /\ \A k \in inbox : Closed(k)
  /\ (ws = "loaded") => /\ wsBar \in Bars /\ Closed(wsBar)
                       /\ (wsOrig # None => db[wsBar] # None)

\* What was read after a candle's close is its closing data.
PageInv ==
  /\ readAt <= clock
  /\ pc \notin InFlight => cand = Blank
  /\ \A k \in Bars : ReadClosed(k) => cand[k].ver = truth[k]

(***************************************************************************)
(* A tracked entity may be older than its row, but only the socket can     *)
(* have moved the row on, and only to the closing data.                    *)
(***************************************************************************)
TrackingInv ==
  \A k \in Bars : orig[k] # None =>
    /\ db[k] # None
    /\ (orig[k].final => db[k].final)
    /\ db[k].ver # orig[k].ver => Closed(k) /\ db[k].ver = truth[k]

\* Entities are dirty only between the batch's query and its commit.
PendingInv ==
  /\ \A k \in Bars : cur[k] # orig[k] =>
       /\ pc \in {"save", "catch"} /\ cand[k] # None /\ cur[k] = cand[k]
       /\ (orig[k] # None /\ orig[k].final => cur[k].final)
       /\ Settling(k) => cur[k] = ClosingRow(k)
  /\ pc = "save" => \A k \in Bars : Settling(k) => cur[k] = ClosingRow(k)

\* A settled bar is exact, and any page in flight read it after its close.
SettledInv ==
  /\ SettledBarsAreExact
  /\ \A k \in settled : cand[k] # None => k[2] < readAt

IInv == TypeOK /\ SocketInv /\ PageInv /\ TrackingInv /\ PendingInv /\ SettledInv

(***************************************************************************)
(* How far a run has come: what it owes of the last Limit hours is settled *)
(* for the assets it has passed, and in its recent page for the one it is  *)
(* at.                                                                     *)
(***************************************************************************)
Owed(k) ==
  ListedAt <= k[2] /\ clock - Limit < k[2] /\ k[2] < run.startedAt /\ k[2] < began
Passed(k) == pc = "finish" \/ \E i \in 1..(asset - 1) : k[1] = Catalog[i]
OnTheWay == {"parse", "load", "save"}

ReconcileInv ==
  /\ began <= clock /\ run.startedAt <= host
  /\ pc = "idle" => asset = 1
  /\ pc # "idle" => run.status = "running"
  /\ run.status = "succeeded" => \A k \in Bars : Owed(k) => k \in settled
  /\ pc \notin {"idle", "catch"} => \A k \in Bars : Owed(k) /\ Passed(k) => k \in settled
  /\ pc \in OnTheWay /\ mode = "recent" =>
       /\ began <= readAt
       /\ \A k \in Bars : Owed(k) /\ k[1] = Catalog[asset] =>
            cand[k] # None /\ (pc # "parse" => cand[k].final)

(***************************************************************************)
(* How far a backfill has come: the hours before the cursor are stored,    *)
(* and a page on its way runs from the cursor on without a gap.            *)
(***************************************************************************)
NoFutureBars ==
  \A k \in Bars : db[k] # None \/ cand[k] # None \/ orig[k] # None => k[2] <= clock

CursorInv ==
  pc \in OnTheWay \cup {"request"} /\ mode = "backfill" =>
    /\ \A h \in Hours : ListedAt <= h /\ h < stopBefore /\ h < cursor
                          => db[<<Catalog[asset], h>>] # None

PageRunInv ==
  /\ pc \in OnTheWay => \A k \in Bars : cand[k] # None => k[1] = Catalog[asset]
  /\ pc \in OnTheWay /\ mode = "backfill" =>
       \A h, x \in Hours :
         /\ cand[<<Catalog[asset], x>>] # None
         /\ ListedAt <= h /\ cursor <= h /\ h <= x
         => cand[<<Catalog[asset], h>>] # None
  /\ pc = "save" => \A k \in Bars : cand[k] # None => cur[k] # None

BackfillInv == NoFutureBars /\ CursorInv /\ PageRunInv /\ BackfillLeavesNoHole

(***************************************************************************)
(* Why the earliest bar is a sign of completeness unless a backfill was    *)
(* cut short: the socket stores nothing before the hour Base from which    *)
(* every recent page reaches, so an hour before it comes from a backfill,  *)
(* which has then filled them all, is being worked on or was cut short.    *)
(***************************************************************************)
Base == IF Horizon <= Limit THEN 1 ELSE (Horizon - Limit) + 1
Whole(a) == \A h \in Hours : ListedAt <= h /\ h < Base => db[<<a, h>>] # None
Sound(a) == Whole(a) \/ a \in cut
Fetching == OnTheWay \cup {"request"}
Filling(a) == pc \in Fetching /\ mode = "backfill" /\ cursor > 1 /\ a = Catalog[asset]
Covered(k) == ListedAt <= k[2] /\ k[2] <= began => db[k] # None

LateSocketInv ==
  /\ StartClock <= clock /\ (pc # "idle" => StartClock <= began)
  /\ \A k \in inbox : StartClock <= k[2]
  /\ ws = "loaded" => StartClock <= wsBar[2]

EarlyBarsInv ==
  \A a \in Assets : (\E h \in Stored(a) : h < Base) => Sound(a) \/ Filling(a)

FillingInv ==
  pc \in Fetching =>
    \/ mode = "backfill" /\ Base <= stopBefore
    \/ Sound(Catalog[asset])

\* What a failed run leaves to the save of the catch block.
LeftoverInv ==
  pc = "catch" => \A k \in Bars : cur[k] # orig[k] => Sound(k[1])

CoverInv ==
  /\ pc \in OnTheWay /\ mode = "recent" =>
       /\ began <= readAt
       /\ \A h \in Hours : ListedAt <= h /\ Base <= h /\ h <= readAt
                           => cand[<<Catalog[asset], h>>] # None
  /\ pc \notin {"idle", "catch"} => \A k \in Bars : Passed(k) /\ k[1] \notin cut => Covered(k)
  /\ run.status = "succeeded" => \A k \in Bars : k[1] \notin cut => Covered(k)

HoleInv == LateSocketInv /\ EarlyBarsInv /\ FillingInv /\ LeftoverInv /\ CoverInv
=============================================================================
