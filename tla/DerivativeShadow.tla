-------------------------- MODULE DerivativeShadow --------------------------
(***************************************************************************)
(* DerivativeShadowCollectorJob: every five minutes of a window after UTC  *)
(* midnight it asks the exchange for the day that has just ended and stores*)
(* one row per asset, or defers to the next firing.  The host's clock may  *)
(* be wrong, the exchange publishes late, requests and saves fail, and the *)
(* bootstrap command of the Python package writes the same table.          *)
(*                                                                         *)
(* Time is the exchange's, in units of half a cron period; a day has       *)
(* DayLength units and its number is that of its midnight, the cutoff.     *)
(***************************************************************************)
EXTENDS DerivativeReadiness

CONSTANTS
  Assets,       \* active crypto assets
  None,         \* no asset, no run, no rows
  DayLength, OpensAt, ClosesAt, \* the window of a day, in units after midnight
  MaxSkew,      \* MaximumClockSkewSeconds
  Drifts,       \* how far the host's clock may be off
  LiveDays,     \* how far back the exchange serves its statistics
  LastDay,      \* bound: the last day
  MaxFaults,    \* bound: failing or slow requests, failing saves, crashes
  MaxBoots      \* bound: runs of the bootstrap command

ASSUME CollectorConstants ==
  /\ {DayLength, OpensAt, ClosesAt, MaxSkew, LiveDays, LastDay, MaxFaults, MaxBoots} \subseteq Nat
  /\ 0 < OpensAt /\ OpensAt < ClosesAt /\ ClosesAt + 2 < DayLength
  /\ Drifts \subseteq Int /\ 0 \in Drifts /\ None \notin Assets

VARIABLES
  clock, drift, \* the exchange's time; the host's time minus that
  published,    \* latest cutoff for which the exchange serves an asset's whole day
  next,         \* next firing of the trigger, in host time
  pc,           \* the run: "idle", "server", "assets", "fetch" or "save"
  run,          \* its cutoff, the host time it began at and the server time it read
  status,       \* the status of the job's latest row in ingestion_runs
  left, asset, pending, \* assets to visit, the one visited, the ones not ready
  at,           \* AvailableAt of the row in the context, not saved yet
  rows,         \* table derivative_daily_snapshots
  issues,       \* open DERIVATIVE_CUTOFF_INCOMPLETE issues
  boot,         \* rows a bootstrap has collected, or None
  faults, boots \* faults and bootstraps so far (bounded)

world == <<clock, drift, published>>
work == <<run, left, asset, pending, at>>
bounds == <<faults, boots>>
vars == <<world, next, pc, work, status, rows, issues, boot, bounds>>

now == clock + drift
CutoffOf(t) == t \div DayLength
Opens(day) == day * DayLength + OpensAt
Closes(day) == day * DayLength + ClosesAt

\* "0 5-50/5 0 ? * *": every second unit, from the opening to one past the close.
CronSlots == {s \in OpensAt..(ClosesAt + 2) : (s - OpensAt) % 2 = 0}
NextSlot(t) == CHOOSE s \in (t + 1)..(t + DayLength) :
                 s % DayLength \in CronSlots /\ \A u \in (t + 1)..(s - 1) : u % DayLength \notin CronSlots

Stored(a, day, source) == \E r \in rows : r.asset = a /\ r.day = day /\ r.source = source
Row(a, day, source, t) == [asset |-> a, day |-> day, source |-> source, at |-> t]
Of(a) == {r \in rows : r.asset = a}

NoRun == [day |-> 0, started |-> 0, server |-> 0]
ContextGone == left' = {} /\ asset' = None /\ pending' = {} /\ at' = 0

Init ==
  /\ clock = DayLength /\ drift \in Drifts /\ published = [a \in Assets |-> 0]
  /\ next = NextSlot(now)
  /\ pc = "idle" /\ run = NoRun /\ status = "none"
  /\ left = {} /\ asset = None /\ pending = {} /\ at = 0
  /\ rows = {} /\ issues = {} /\ boot = None /\ faults = 0 /\ boots = 0

-----------------------------------------------------------------------------
(* The world. *)

\* An idle scheduler fires with a delay of less than a unit.
Tick ==
  /\ clock < (LastDay + 1) * DayLength /\ pc = "idle" /\ now <= next
  /\ clock' = clock + 1
  /\ UNCHANGED <<drift, published, next, pc, work, status, rows, issues, boot, bounds>>

\* A slow request or a request repeated after a pause.
Delay ==
  /\ clock < (LastDay + 1) * DayLength /\ pc # "idle" /\ faults < MaxFaults
  /\ clock' = clock + 1 /\ faults' = faults + 1
  /\ UNCHANGED <<drift, published, next, pc, work, status, rows, issues, boot, boots>>

\* The host's clock is set.
Adjust ==
  /\ faults < MaxFaults /\ faults' = faults + 1
  /\ \E d \in Drifts \ {drift} : drift' = d
  /\ UNCHANGED <<clock, published, next, pc, work, status, rows, issues, boot, boots>>

\* The last bucket of a day appears some time after midnight.
Publish(a) ==
  /\ published[a] < CutoffOf(clock)
  /\ published' = [published EXCEPT ![a] = CutoffOf(clock)]
  /\ UNCHANGED <<clock, drift, next, pc, work, status, rows, issues, boot, bounds>>
-----------------------------------------------------------------------------
(* The job. *)

\* Mutant: a single attempt.
FirstAttemptOnly == now < Opens(CutoffOf(now)) + 2 /\ now >= Opens(CutoffOf(now))

InWindow == Opens(CutoffOf(now)) <= now /\ now <= Closes(CutoffOf(now))

Due == pc = "idle" /\ now >= next
Fired == next' = NextSlot(now)

\* A firing outside the window leaves no trace.
Return ==
  /\ Due /\ ~InWindow /\ Fired
  /\ UNCHANGED <<world, pc, work, status, rows, issues, boot, bounds>>

Start ==
  /\ Due /\ InWindow /\ Fired
  /\ run' = [day |-> CutoffOf(now), started |-> now, server |-> 0]
  /\ status' = "running" /\ pc' = "server"
  /\ UNCHANGED <<world, left, asset, pending, at, rows, issues, boot, bounds>>

\* Mutant: the next run finds what the last one was at.
EndRunKeepsContext(outcome) ==
  pc' = "idle" /\ status' = outcome /\ UNCHANGED <<left, asset, pending, at>>

EndRun(outcome) == pc' = "idle" /\ status' = outcome /\ ContextGone

Magnitude(x) == IF x < 0 THEN -x ELSE x
Skewed == Magnitude(clock - run.started) > MaxSkew

\* Mutant: the host's clock alone decides.
NeverTooEarly == FALSE

TooEarly == clock < Opens(run.day)

SkewTooLarge ==
  /\ pc = "server" /\ Skewed
  /\ EndRun("failed")
  /\ UNCHANGED <<world, next, run, rows, issues, boot, bounds>>

Defer ==
  /\ pc = "server" /\ ~Skewed /\ TooEarly
  /\ EndRun("deferred")
  /\ UNCHANGED <<world, next, run, rows, issues, boot, bounds>>

Proceed ==
  /\ pc = "server" /\ ~Skewed /\ ~TooEarly
  /\ pc' = "assets" /\ run' = [run EXCEPT !.server = clock] /\ left' = Assets
  /\ UNCHANGED <<world, next, status, asset, pending, at, rows, issues, boot, bounds>>

Collected(a) == Stored(a, run.day, Live)

Skip(a) ==
  /\ pc = "assets" /\ a \in left /\ Collected(a)
  /\ left' = left \ {a}
  /\ UNCHANGED <<world, next, pc, run, status, asset, pending, at, rows, issues, boot, bounds>>

Visit(a) ==
  /\ pc = "assets" /\ a \in left /\ ~Collected(a)
  /\ pc' = "fetch" /\ asset' = a /\ left' = left \ {a}
  /\ UNCHANGED <<world, next, run, status, pending, at, rows, issues, boot, bounds>>

\* The response holds every bucket of [cutoff - 1 day, cutoff).
WholeDay(a) == published[a] >= run.day

Fetch ==
  /\ pc = "fetch" /\ WholeDay(asset)
  /\ pc' = "save" /\ at' = now
  /\ UNCHANGED <<world, next, run, status, left, asset, pending, rows, issues, boot, bounds>>

\* Mutant: an asset that is not ready is not remembered.
PostponedSilently == UNCHANGED <<pending, left>>

Postponed == pending' = pending \cup {asset} /\ UNCHANGED left

\* InvalidDataException or HttpRequestException: the next asset has its turn.
Postpone ==
  /\ pc = "fetch" /\ pc' = "assets" /\ asset' = None /\ Postponed
  /\ \/ ~WholeDay(asset) /\ UNCHANGED faults
     \/ faults < MaxFaults /\ faults' = faults + 1
  /\ UNCHANGED <<world, next, run, status, at, rows, issues, boot, boots>>

Save ==
  /\ pc = "save" /\ ~Collected(asset)
  /\ rows' = rows \cup {Row(asset, run.day, Live, at)}
  /\ pc' = "assets" /\ asset' = None /\ at' = 0
  /\ UNCHANGED <<world, next, run, status, left, pending, issues, boot, bounds>>

\* The key exists by now: the save fails and so does the catch block's.
Conflict ==
  /\ pc = "save" /\ Collected(asset)
  /\ EndRun("running")
  /\ UNCHANGED <<world, next, run, rows, issues, boot, bounds>>

\* AddQualityIssues, called when the run's server time has reached the close.
IssuesToOpen == {<<a, run.day>> : a \in {p \in pending : run.server >= Closes(run.day)}}

Finish ==
  /\ pc = "assets" /\ left = {}
  /\ EndRun(IF pending = {} THEN "succeeded" ELSE "deferred")
  /\ issues' = issues \cup IssuesToOpen
  /\ UNCHANGED <<world, next, run, rows, boot, bounds>>

(***************************************************************************)
(* Any other exception.  The catch block saves what the context holds, the *)
(* row or the issues that could not be saved before included.              *)
(***************************************************************************)
Fail ==
  /\ pc # "idle" /\ faults < MaxFaults /\ faults' = faults + 1
  /\ EndRun("failed")
  /\ IF pc = "save" /\ ~Collected(asset)
       THEN rows' = rows \cup {Row(asset, run.day, Live, at)}
       ELSE pc # "save" /\ UNCHANGED rows
  /\ \/ UNCHANGED issues
     \/ pc = "assets" /\ left = {} /\ issues' = issues \cup IssuesToOpen
  /\ UNCHANGED <<world, next, run, boot, boots>>

\* The process dies, or the catch block cannot save either.
Crash ==
  /\ pc # "idle" /\ faults < MaxFaults /\ faults' = faults + 1
  /\ EndRun("running")
  /\ UNCHANGED <<world, next, run, rows, issues, boot, boots>>
-----------------------------------------------------------------------------
(***************************************************************************)
(* bootstrap_shadow_snapshots: the days of the archive, the missing ones   *)
(* from the exchange, then one transaction that inserts or overwrites.     *)
(* archived is the latest day of the archive files, which appear long after*)
(* the window has opened.                                                  *)
(***************************************************************************)
BootDay(a, d, archived) ==
  IF d <= archived THEN Row(a, d, Archive, Opens(d)) ELSE Row(a, d, Live, now)

BootRead ==
  /\ boot = None /\ boots < MaxBoots /\ boots' = boots + 1
  /\ \E archived \in 0..CutoffOf(now) :
       /\ \A a \in Assets : archived <= published[a]
       /\ archived > 0 => Opens(archived) <= clock
       /\ \A d \in (archived + 1)..CutoffOf(now) :
            d > CutoffOf(now) - LiveDays /\ \A a \in Assets : published[a] >= d
       /\ boot' = {BootDay(a, d, archived) : a \in Assets, d \in 1..CutoffOf(now)}
  /\ UNCHANGED <<world, next, pc, work, status, rows, issues, faults>>

SameKey(r, s) == r.asset = s.asset /\ r.day = s.day /\ r.source = s.source

BootWrite ==
  /\ boot # None /\ boot' = None
  /\ rows' = boot \cup {r \in rows : \A s \in boot : ~SameKey(r, s)}
  /\ UNCHANGED <<world, next, pc, work, status, issues, bounds>>
-----------------------------------------------------------------------------
JobStep ==
  \/ Return \/ Start \/ SkewTooLarge \/ Defer \/ Proceed
  \/ \E a \in Assets : Skip(a) \/ Visit(a)
  \/ Fetch \/ Postpone \/ Save \/ Conflict \/ Finish
Next ==
  \/ Tick \/ Delay \/ Adjust \/ \E a \in Assets : Publish(a)
  \/ JobStep \/ Fail \/ Crash \/ BootRead \/ BootWrite

Spec == Init /\ [][Next]_vars

\* Time passes, the trigger fires and a run goes on.
FairSpec == Spec /\ WF_vars(Tick) /\ WF_vars(JobStep)
-----------------------------------------------------------------------------
\* Host times, and the days computed from them, may be anything.
TypeOK ==
  /\ clock \in Nat /\ drift \in Drifts /\ published \in [Assets -> Nat] /\ next \in Int
  /\ pc \in {"idle", "server", "assets", "fetch", "save"}
  /\ run \in [day : Int, started : Int, server : Nat]
  /\ status \in {"none", "running", "succeeded", "deferred", "failed"}
  /\ left \subseteq Assets /\ pending \subseteq Assets /\ asset \in Assets \cup {None} /\ at \in Int
  /\ (asset # None) = (pc \in {"fetch", "save"})
  /\ rows \subseteq [asset : Assets, day : Int, source : Sources, at : Int]
  /\ issues \subseteq Assets \X Int
  /\ faults \in 0..MaxFaults /\ boots \in 0..MaxBoots

(***************************************************************************)
(* A run recorded as succeeded has left a row for every asset, whichever   *)
(* assets were late, skipped or collected by an earlier run.               *)
(***************************************************************************)
SucceededMeansComplete ==
  status = "succeeded" => \A a \in Assets : Stored(a, run.day, Live)

(***************************************************************************)
(* "Incomplete days are not written": whatever the host's clock says, the  *)
(* collector stores a day when the exchange's buffered cutoff has passed   *)
(* and the exchange has published it.                                      *)
(***************************************************************************)
OnlyWholeDays ==
  [][boot' = boot => \A r \in rows' \ rows :
       clock >= Opens(r.day) /\ published[r.asset] >= r.day]_vars

(***************************************************************************)
(* An asset the dashboard shows as ready can be predicted.                 *)
(***************************************************************************)
ReadyMeansPredictable ==
  \A a \in Assets : DashboardState(Of(a), CutoffOf(now)) = "ready"
    => TryCreate(Of(a), CutoffOf(now), now)

(***************************************************************************)
(* The retries of a window make up for late assets and for a failing       *)
(* request, a failing save, a crash or a jump of the host's clock: a day   *)
(* the exchange has published before the window opens is collected, unless *)
(* the host's clock is further off than the job tolerates.                 *)
(***************************************************************************)
ClockTolerable == Magnitude(drift) <= MaxSkew
PublishedDayIsCollected ==
  \A a \in Assets, d \in 1..LastDay :
    clock < Opens(d) /\ published[a] >= d ~> Stored(a, d, Live) \/ ~ClockTolerable

(***************************************************************************)
(* "For an asset still missing at the end of the retry window a quality    *)
(* issue DERIVATIVE_CUTOFF_INCOMPLETE is opened": when the last firing of  *)
(* a window is over and its run was deferred, the missing assets have one. *)
(***************************************************************************)
MissingDayHasIssue ==
  pc = "idle" /\ status = "deferred" /\ next > Closes(run.day) + 2 =>
    \A a \in Assets : Stored(a, run.day, Live) \/ <<a, run.day>> \in issues
=============================================================================
