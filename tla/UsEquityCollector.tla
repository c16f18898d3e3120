------------------------- MODULE UsEquityCollector --------------------------
(***************************************************************************)
(* UsEquityShadowCollectorJob and TwelveDataMarketDataClient: three times  *)
(* a morning the daily bars of every pilot symbol are fetched one symbol   *)
(* after the other, seven days back from the newest stored bar of any of   *)
(* them, saved in one piece, and compared with the benchmark's last        *)
(* session.                                                                *)
(*                                                                         *)
(* Time is counted in sessions.  Of a bar the model keeps the corporate    *)
(* actions its prices are adjusted for: adjust=all restates the whole      *)
(* series of a symbol after a split or a dividend.                         *)
(***************************************************************************)
EXTENDS Integers, Sequences

CONSTANTS
  Universe,   \* shadow-enabled symbols, in the order they are fetched
  Benchmark,  \* SPY
  None,       \* no bar
  Overlap,    \* sessions in the days that are read again
  MaxLate,    \* how many sessions late the provider may publish a bar
  LastSession,\* bound: the last session
  MaxActions, \* bound: corporate actions, of one symbol
  MaxFaults   \* bound: failing requests and saves, crashes

Symbols == {Universe[i] : i \in DOMAIN Universe}
Sessions == 1..LastSession

ASSUME EquityConstants ==
  /\ Universe \in Seq(Symbols) /\ Benchmark \in Symbols
  /\ {Overlap, MaxLate, LastSession, MaxActions, MaxFaults} \subseteq Nat
  /\ None \notin Nat

\* A run ends before the second session after its start does, so what it
\* overlooks is at most MaxLate + 1 sessions old when it ends.
ASSUME LatenessIsCovered == MaxLate + 1 <= Overlap

VARIABLES
  today,    \* provider: the last session that has closed
  offered,  \* provider: the sessions it serves, per symbol
  actions,  \* provider: the corporate actions so far, per symbol
  db,       \* price_bars of the source: per symbol and session, None or the actions adjusted for
  status,   \* the status of the latest row in ingestion_runs
  issues,   \* sessions of the open US_EQUITY_SESSION_INCOMPLETE issues
  pc,       \* the run: "idle", "fetch", "upsert", "judge" or "catch"
  day,      \* the session the run began in
  from,     \* start_date of its requests
  at,       \* the symbol it fetches next
  page,     \* what it has parsed: like db
  unsaved,  \* bars of a rejected save wait in the context
  noted,    \* issues that wait in it
  faults    \* faults so far (bounded)

provider == <<today, offered, actions>>
tables == <<db, status, issues>>
context == <<unsaved, noted>>
run == <<day, from, at, page, context>>
vars == <<provider, tables, pc, run, faults>>

NoBars == [a \in Symbols |-> [s \in Sessions |-> None]]
Held(bars, a) == {s \in Sessions : bars[a][s] # None}
Stored == UNION {Held(db, a) : a \in Symbols}
Newest(s, S) == s \in S /\ \A t \in S : t <= s

Init ==
  /\ today = 0 /\ offered = [a \in Symbols |-> {}] /\ actions = [a \in Symbols |-> 0]
  /\ db = NoBars /\ status = "none" /\ issues = {}
  /\ pc = "idle" /\ day = 0 /\ from = 1 /\ at = 1 /\ page = NoBars
  /\ unsaved = FALSE /\ noted = {} /\ faults = 0

-----------------------------------------------------------------------------
(* The provider. *)

CloseSession ==
  /\ today < LastSession /\ (pc # "idle" => today <= day)
  /\ today' = today + 1
  /\ UNCHANGED <<offered, actions, tables, pc, run, faults>>

Publish(a, s) ==
  /\ s <= today /\ today <= s + MaxLate /\ s \notin offered[a]
  /\ offered' = [offered EXCEPT ![a] = @ \union {s}]
  /\ UNCHANGED <<today, actions, tables, pc, run, faults>>

CorporateAction(a) ==
  /\ \A b \in Symbols : actions[b] < MaxActions
  /\ actions' = [actions EXCEPT ![a] = @ + 1]
  /\ UNCHANGED <<today, offered, tables, pc, run, faults>>

-----------------------------------------------------------------------------
(* The job. *)

\* Mutant: the next run goes on where this one ended.
EndRunInPlace == day' = 0 /\ from' = 1 /\ at' = at /\ page' = NoBars /\ unsaved' = FALSE /\ noted' = {}
EndRun == day' = 0 /\ from' = 1 /\ at' = 1 /\ page' = NoBars /\ unsaved' = FALSE /\ noted' = {}

\* Mutants: nothing older than the newest stored bar is read again; a session too few is.
StartAtNewest(latest) == latest
StartOneLate(latest) == latest - Overlap + 1
StartAfter(latest) == latest - Overlap

Start ==
  /\ pc = "idle" /\ pc' = "fetch" /\ status' = "running" /\ day' = today
  /\ \/ Stored = {} /\ from' = 1
     \/ \E latest \in Stored : Newest(latest, Stored) /\ from' = StartAfter(latest)
  /\ UNCHANGED <<provider, db, issues, at, page, context, faults>>

Answer(a) == [s \in Sessions |-> IF s \in offered[a] /\ from <= s THEN actions[a] ELSE None]
Asked == Universe[at]

\* One request, with its retries and the pause before it.
Fetch ==
  /\ pc = "fetch"
  /\ page' = [page EXCEPT ![Asked] = Answer(Asked)]
  /\ at' = at + 1
  /\ pc' = IF at = Len(Universe) THEN "upsert" ELSE "fetch"
  /\ UNCHANGED <<provider, tables, day, from, context, faults>>

\* "No data is available" may come as an error, and an error of one symbol ends the run.
Reject ==
  /\ pc = "fetch" /\ \A s \in Sessions : Answer(Asked)[s] = None
  /\ pc' = "catch"
  /\ UNCHANGED <<provider, tables, run, faults>>

NothingToSave ==
  /\ pc = "upsert" /\ page = NoBars
  /\ pc' = "catch"
  /\ UNCHANGED <<provider, tables, run, faults>>

\* Mutant: a bar that is stored already is left alone.
InsertOnly(table, bars) ==
  [a \in Symbols |-> [s \in Sessions |-> IF table[a][s] # None THEN table[a][s] ELSE bars[a][s]]]
\* Every candidate is final, so each replaces the row it finds.
Merged(table, bars) ==
  [a \in Symbols |-> [s \in Sessions |-> IF bars[a][s] # None THEN bars[a][s] ELSE table[a][s]]]

Upsert ==
  /\ pc = "upsert" /\ page # NoBars
  /\ db' = Merged(db, page) /\ pc' = "judge"
  /\ UNCHANGED <<provider, status, issues, run, faults>>

\* The benchmark's last session in the answers, or anybody's when it has none there.
ExpectedIn(bars) ==
  IF Held(bars, Benchmark) # {} THEN Held(bars, Benchmark) ELSE UNION {Held(bars, a) : a \in Symbols}
\* Mutant: a symbol that has answered anything is not missing.
SilentOnes(bars, session) == {a \in Symbols : Held(bars, a) = {}}
Missing(bars, session) == {a \in Symbols : bars[a][session] = None}

Judge ==
  /\ pc = "judge"
  /\ \E expected \in ExpectedIn(page) :
       /\ Newest(expected, ExpectedIn(page))
       /\ IF Missing(page, expected) = {}
          THEN status' = "succeeded" /\ issues' = issues
          ELSE status' = "degraded" /\ issues' = issues \union {expected}
  /\ pc' = "idle" /\ EndRun
  /\ UNCHANGED <<provider, db, faults>>

\* An exception: what a rejected save has left in the context stays there.
Fail ==
  /\ pc \in {"fetch", "upsert", "judge"} /\ faults < MaxFaults
  /\ faults' = faults + 1 /\ pc' = "catch"
  /\ \/ pc \in {"fetch", "upsert"} /\ UNCHANGED context
     \/ pc = "upsert" /\ page # NoBars /\ unsaved' = TRUE /\ noted' = noted
     \/ /\ pc = "judge" /\ unsaved' = unsaved
        /\ \E expected \in ExpectedIn(page) :
             /\ Newest(expected, ExpectedIn(page))
             /\ noted' = IF Missing(page, expected) = {} THEN {} ELSE {expected}
  /\ UNCHANGED <<provider, tables, day, from, at, page>>

\* The catch block saves the same context, with what waits in it.
CatchSave ==
  /\ pc = "catch"
  /\ db' = IF unsaved THEN Merged(db, page) ELSE db
  /\ issues' = issues \union noted /\ status' = "failed"
  /\ pc' = "idle" /\ EndRun
  /\ UNCHANGED <<provider, faults>>

\* The process ends, or the catch block's save fails too.
Crash ==
  /\ pc # "idle" /\ faults < MaxFaults
  /\ faults' = faults + 1 /\ pc' = "idle" /\ EndRun
  /\ UNCHANGED <<provider, tables>>

JobStep == Start \/ Fetch \/ Reject \/ NothingToSave \/ Upsert \/ Judge \/ CatchSave

Next ==
  \/ CloseSession
  \/ \E a \in Symbols, s \in Sessions : Publish(a, s)
  \/ \E a \in Symbols : CorporateAction(a)
  \/ JobStep
  \/ Fail
  \/ Crash

Spec == Init /\ [][Next]_vars

\* Quartz fires the trigger for ever, and time-outs end every request.
FairSpec == Spec /\ WF_vars(JobStep)

-----------------------------------------------------------------------------
(* Properties. *)

Bars == [Symbols -> [Sessions -> (0..MaxActions) \union {None}]]

(* The types of the variables (PriceBar, IngestionRun, DataQualityIssue).  *)
TypeOK ==
  /\ today \in 0..LastSession /\ offered \in [Symbols -> SUBSET Sessions]
  /\ actions \in [Symbols -> 0..MaxActions] /\ db \in Bars
  /\ status \in {"none", "running", "succeeded", "degraded", "failed"}
  /\ issues \subseteq Sessions /\ noted \subseteq Sessions /\ unsaved \in BOOLEAN
  /\ pc \in {"idle", "fetch", "upsert", "judge", "catch"} /\ day \in 0..LastSession
  /\ from \in Int /\ at \in 1..(Len(Universe) + 1) /\ page \in Bars
  /\ (pc = "fetch" => at <= Len(Universe)) /\ faults \in 0..MaxFaults

(* No session is out of reach: a bar the provider serves and the table does*)
(* not hold is never older than the seven days that the next run, which    *)
(* starts from the newest bar of any symbol, reads again.  So neither      *)
(* outages, failed runs, late bars nor bars published while a run fetches  *)
(* other symbols leave a hole for good.                                    *)
UnreadIsInReach ==
  \A a \in Symbols : \A s \in offered[a] \ Held(db, a) : \A t \in Stored : StartAfter(t) <= s

(* A run that says it has succeeded leaves every symbol with the newest    *)
(* stored session of the benchmark, which is what the prediction job       *)
(* requires of each; a degraded one leaves an issue about it.              *)
CompletedRunTellsTheTruth ==
  \A s \in Sessions : Newest(s, Held(db, Benchmark)) =>
    /\ status = "succeeded" => \A a \in Symbols : s \in Held(db, a)
    /\ status = "degraded" => \E i \in issues : s <= i

(* After a run the newest sessions of a symbol, as many as are read again, *)
(* are adjusted for the same corporate actions: rows that were stored      *)
(* before a split are overwritten.                                         *)
RecentBarsAgree ==
  status \in {"succeeded", "degraded"} =>
    \A a \in Symbols : \A s, t \in Held(db, a) :
      (\A n \in Stored : n - Overlap <= s /\ n - Overlap <= t) => db[a][s] = db[a][t]

Silent(a) == \A s \in offered[a] : \E t \in Stored : s < StartAfter(t)

(* Every bar the provider serves is stored in the end, unless some symbol  *)
(* has nothing to answer for the days asked for, again and again: its      *)
(* error fails the run for all.  (No bar is ever withdrawn or deleted, so  *)
(* holding all that is served time and again is each bar's leading to its  *)
(* row.)                                                                   *)
PublishedBarIsStored ==
  (<>[](\A b \in Symbols : ~Silent(b))) =>
    []<>(\A a \in Symbols : offered[a] \subseteq Held(db, a))

(* docs/us-equity-shadow.md: the series is stored with adjust=all.  So all *)
(* bars of a symbol that a succeeded run leaves in the table are adjusted  *)
(* for the same corporate actions.                                         *)
SeriesIsAdjusted ==
  status = "succeeded" => \A a \in Symbols : \A s, t \in Held(db, a) : db[a][s] = db[a][t]
=============================================================================
