--------------------------- MODULE TrainingDataset ---------------------------
(***************************************************************************)
(* How the training samples come out of the market data: which days the    *)
(* features of a row read, and when its label ends.  Days are integers.  A *)
(* row is what the walk-forward splits and the studies see of a sample:    *)
(* its asset, the snapshot time, the days behind its features, the horizon *)
(* and the time its label ends.                                            *)
(***************************************************************************)
EXTENDS Integers, FiniteSets

CONSTANTS
  Horizons,   \* rows a label looks ahead
  MinRows,    \* daily bars a crypto snapshot needs (365)
  PeerRows,   \* daily bars a peer needs to enter breadth and ranks (31)
  SessionRows, BenchmarkRows, \* an equity row's own and SPY's look-back (200, 60)
  MacroRelease, MacroLag \* days until FRED publishes an observation, and until
                         \* it may be used (5 for the slowest series, 7)

ASSUME DatasetConstants ==
  /\ Horizons \subseteq Nat \ {0} /\ MinRows \in Nat \ {0} /\ PeerRows \in Nat
  /\ SessionRows \in Nat \ {0} /\ BenchmarkRows \in Nat
  /\ MacroRelease \in Nat /\ MacroLag \in Nat /\ MacroRelease <= MacroLag

Bitcoin == "BTC"
Spy == "SPY"

-----------------------------------------------------------------------------
\* aggregate_daily: a UTC day is only observable at the next midnight.
BarStamp(day) == day + 1

\* The futures tables are stamped the same way.
DerivativeStamp(day) == day + 1

\* Mutant: the peers' frames are not cut at the snapshot.
WholeFrame(days, at) == days

\* What a frame holds at a snapshot.
BarsUntil(days, at) == {d \in days : BarStamp(d) <= at}

DerivativesUntil(days, at) == {d \in days : DerivativeStamp(d) <= at}

\* The asset itself, bitcoin, every peer with enough history, its derivatives.
CryptoReads(bars, derivatives, asset, at) ==
  LET Enough(p) == Cardinality(BarsUntil(bars[p], at)) >= PeerRows
      peers == {p \in DOMAIN bars : p \in {asset, Bitcoin} \/ Enough(p)}
  IN  (UNION {BarsUntil(bars[p], at) : p \in peers}) \cup DerivativesUntil(derivatives[asset], at)

CryptoSnapshots(bars, derivatives) ==
  LET Old(a, at) == Cardinality({d \in bars[a] : BarStamp(d) <= at}) >= MinRows
      keys == {k \in UNION {{a} \X {BarStamp(d) : d \in bars[a]} : a \in DOMAIN bars} : Old(k[1], k[2])}
  IN  {[asset |-> k[1], at |-> k[2], reads |-> CryptoReads(bars, derivatives, k[1], k[2])] : k \in keys}

-----------------------------------------------------------------------------
\* An equity row carries the start of its session and reads that session's bar.
SessionsUntil(days, at) == {d \in days : d <= at}

Newest(days, n) == {d \in days : Cardinality({e \in days : e >= d}) <= n}

\* The rolling joins with SPY are empty unless it traded in each of them.
BenchmarkComplete(sessions, asset, at) ==
  LET spy == SessionsUntil(sessions[Spy], at)
  IN  /\ Newest(SessionsUntil(sessions[asset], at), BenchmarkRows) \subseteq spy
      /\ Cardinality(spy) > BenchmarkRows

EquitySnapshots(sessions) ==
  LET Complete(a, at) == /\ Cardinality(SessionsUntil(sessions[a], at)) >= SessionRows
                         /\ BenchmarkComplete(sessions, a, at)
      keys == {k \in UNION {{a} \X sessions[a] : a \in DOMAIN sessions} : Complete(k[1], k[2])}
      Reads(at) == UNION {SessionsUntil(sessions[p], at) : p \in DOMAIN sessions}
  IN  {[asset |-> k[1], at |-> k[2], reads |-> Reads(k[2])] : k \in keys}

\* The upgrade joins SPY's row of the same snapshot and horizon.  Rows without
\* one keep empty columns, and their readers drop them.
AddSpyMacro(rows) ==
  LET SpyRows(r) == {s \in rows : s.asset = Spy /\ s.at = r.at /\ s.horizon = r.horizon}
  IN  {[r EXCEPT !.reads = @ \cup UNION {s.reads : s \in SpyRows(r)}] : r \in {q \in rows : SpyRows(q) # {}}}

AvailableAt(day) == day + MacroLag

\* Backward as-of join: the features of the newest observation whose lag has
\* passed, and of those before it.  An observation is read on the day it was
\* published.
AttachMacro(rows, observations) ==
  LET Available(r) == {o \in observations : AvailableAt(o) <= r.at}
      Published(r) == {o + MacroRelease : o \in Available(r)}
  IN  {[r EXCEPT !.reads = @ \cup Published(r)] : r \in {q \in rows : Available(q) # {}}}

-----------------------------------------------------------------------------
\* The label of a row covers the next `horizon` stamps of its price frame:
\* a missing day makes it end later, a short frame leaves the row out.
LabelEnds(stamps, at, horizon) ==
  {e \in stamps : e > at /\ Cardinality({t \in stamps : t > at /\ t <= e}) = horizon}

AttachTargets(features, stamps, horizon) ==
  {[asset |-> l[1].asset, at |-> l[1].at, reads |-> l[1].reads, horizon |-> horizon, end |-> l[2]] :
     l \in UNION {{f} \X LabelEnds(stamps[f.asset], f.at, horizon) :
                    f \in {g \in features : g.at \in stamps[g.asset]}}}

CryptoSamples(bars, derivatives) ==
  LET stamps == [a \in DOMAIN bars |-> {BarStamp(d) : d \in bars[a]}]
      features == CryptoSnapshots(bars, derivatives)
  IN  UNION {AttachTargets(features, stamps, h) : h \in Horizons}

EquitySamples(sessions) ==
  UNION {AttachTargets(EquitySnapshots(sessions), sessions, h) : h \in Horizons}
=============================================================================
