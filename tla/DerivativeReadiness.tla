------------------------- MODULE DerivativeReadiness -------------------------
(***************************************************************************)
(* What the readers make of table derivative_daily_snapshots: the history  *)
(* DailyPredictionJob accepts (DerivativeHistoryReadiness.TryCreate) and   *)
(* the consecutive days the dashboard counts.                              *)
(*                                                                         *)
(* The table's key is (asset, cutoff, source), so a day may have a row of  *)
(* the live collector and one of the archive.  Both writers store complete *)
(* days only, of events before the cutoff; those two columns are left out. *)
(***************************************************************************)
EXTENDS Integers, FiniteSets

CONSTANTS
  RequiredDays, \* RequiredHistoryDays: consecutive days a model needs
  Archive, Live \* the two sources

ASSUME ReadinessConstants == RequiredDays \in Nat \ {0} /\ Archive # Live

Sources == {Archive, Live}

\* Rows by time; the order of two sources of one day is the database's.
After(s, r) == s.day > r.day \/ (s.day = r.day /\ s.source = Live /\ r.source = Archive)

\* How many of the rows come after r: none after the last one.
Later(r, rows) == Cardinality({s \in rows : After(s, r)})

\* The days the query of DailyPredictionJob looks at: a week more than it needs.
Slack == 7
Queried(rows, cutoff) == {r \in rows : r.day \in (cutoff - RequiredDays - Slack)..cutoff}

\* TakeLast(requiredDays) of the rows by time.
LastRows(rows, cutoff) ==
  LET queried == Queried(rows, cutoff)
  IN {r \in queried : Later(r, queried) < RequiredDays}

\* Mutants: no comparison with the inference time; the expected day one too early.
AvailableWhenever(rows, cutoff, now) ==
  LET last == LastRows(rows, cutoff)
  IN Cardinality(last) = RequiredDays /\ \A r \in last : r.day = cutoff - Later(r, last)
WindowOneEarly(rows, cutoff, now) ==
  LET last == LastRows(rows, cutoff)
  IN Cardinality(last) = RequiredDays /\ \A r \in last : r.day = cutoff - 1 - Later(r, last)

\* Each row is of the day its place in the order calls for.
TryCreate(rows, cutoff, now) ==
  LET last == LastRows(rows, cutoff)
  IN /\ Cardinality(last) = RequiredDays
     /\ \A r \in last : r.day = cutoff - Later(r, last) /\ r.at <= now

\* The trailing unbroken run of distinct days.
CountConsecutiveDays(rows) ==
  LET days == {r.day : r \in rows}
  IN IF days = {} THEN 0
     ELSE LET latest == CHOOSE d \in days : \A e \in days : e <= d
          IN Cardinality({d \in days : d..latest \subseteq days})

\* ShadowCollectorAssetResponse.State.
DashboardState(rows, cutoff) ==
  LET seen == {r \in rows : r.day >= cutoff - RequiredDays - Slack}
      latest == {r \in seen : \A s \in seen : s.day <= r.day}
  IN IF seen = {} THEN "missing"
     ELSE IF \A r \in latest : r.day # cutoff THEN "stale"
     ELSE IF CountConsecutiveDays(seen) >= RequiredDays THEN "ready" ELSE "warming"
=============================================================================
