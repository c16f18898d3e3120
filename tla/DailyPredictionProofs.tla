------------------------ MODULE DailyPredictionProofs ------------------------
(***************************************************************************)
(* Theorems about DailyPrediction for all sets of assets and models, every *)
(* number of days and triggers and any faults: no prediction looks past    *)
(* its cutoff, each has its snapshot, one save publishes models that were  *)
(* in production together, and the unique indexes never reject a save.     *)
(***************************************************************************)
EXTENDS DailyPrediction, FiniteSetTheorems, TLAPS

-----------------------------------------------------------------------------
(* Which derivative histories TryCreate accepts. *)

\* The rows of one asset in derivative_daily_snapshots, keyed by day and source.
KeyedRows(S) ==
  /\ \A r \in S : r.day \in Int /\ r.source \in Sources
  /\ \A r, s \in S : r.day = s.day /\ r.source = s.source => r = s

\* Rows of different days are no more than the days, and as many if each has one.
LEMMA RowsOfDays ==
  ASSUME NEW S, NEW D, IsFiniteSet(D), \A r \in S : r.day \in D,
         \A r, s \in S : r.day = s.day => r = s
  PROVE  /\ IsFiniteSet(S)
         /\ Cardinality(S) = Cardinality(D) <=> \A d \in D : \E r \in S : r.day = d
<1> DEFINE dayOf == [r \in S |-> r.day]
<1>1. dayOf \in Injection(S, D)
  BY DEF Injection, IsInjective
<1>2. dayOf \in Surjection(S, D) <=> \A d \in D : \E r \in S : r.day = d
  BY <1>1 DEF Surjection, Injection
<1> HIDE DEF dayOf
<1> QED BY <1>1, <1>2, FS_Injection

\* The query looks at finitely many rows.
LEMMA QueriedRows ==
  ASSUME NEW S, KeyedRows(S), NEW cutoff \in Int
  PROVE  /\ IsFiniteSet(Queried(S, cutoff)) /\ KeyedRows(Queried(S, cutoff))
         /\ Queried(S, cutoff) \subseteq S
         /\ \A r \in Queried(S, cutoff) : r.day <= cutoff
<1> DEFINE Q == Queried(S, cutoff)
           D == (cutoff - RequiredDays - Slack)..cutoff
           key == [r \in Q |-> <<r.day, r.source>>]
<1>1. Q \subseteq S /\ \A r \in Q : r.day \in D /\ r.source \in Sources
  BY DEF Queried, KeyedRows
<1>2. KeyedRows(Q)
  BY <1>1 DEF KeyedRows
<1>3. cutoff - RequiredDays - Slack \in Int
  BY ReadinessConstants DEF Slack
<1>4. IsFiniteSet(D)
  BY <1>3, FS_Interval
<1>5. IsFiniteSet(Sources)
  <2>1. Sources = {Archive} \cup {Live} /\ IsFiniteSet({Archive})
    BY FS_Singleton DEF Sources
  <2> QED BY <2>1, FS_AddElement
<1>6. IsFiniteSet(D \X Sources)
  BY <1>4, <1>5, FS_Product
<1>7. key \in Injection(Q, D \X Sources)
  BY <1>1, <1>2 DEF Injection, IsInjective, KeyedRows
<1>8. IsFiniteSet(Q)
  <2> HIDE DEF Q, D, key
  <2> QED BY <1>6, <1>7, FS_Injection
<1>9. \A r \in Q : r.day <= cutoff
  BY <1>1, <1>3
<1> QED BY <1>1, <1>2, <1>8, <1>9

LEMMA WindowFacts ==
  ASSUME NEW cutoff \in Int
  PROVE  /\ IsFiniteSet(Window(cutoff)) /\ Cardinality(Window(cutoff)) = RequiredDays
         /\ \A d \in Window(cutoff) : d \in Int /\ d <= cutoff
<1>1. RequiredDays \in Nat /\ RequiredDays # 0 /\ cutoff - RequiredDays + 1 \in Int
  BY ReadinessConstants
<1>2. cutoff - (cutoff - RequiredDays + 1) + 1 = RequiredDays
      /\ ~(cutoff - RequiredDays + 1 > cutoff)
  BY <1>1
<1> QED BY <1>1, <1>2, FS_Interval DEF Window

\* Of two rows of one day and two sources, one comes after the other.
LEMMA LaterDiffers ==
  ASSUME NEW S, IsFiniteSet(S), KeyedRows(S), NEW r \in S, NEW s \in S,
         r # s, r.day = s.day
  PROVE  Later(r, S) # Later(s, S)
<1>1. ASSUME NEW x \in S, NEW y \in S, x.day = y.day, After(y, x)
      PROVE  Later(y, S) < Later(x, S)
  <2> DEFINE X == {z \in S : After(z, x)}
             Y == {z \in S : After(z, y)}
  <2>1. x.source = Archive /\ y.source = Live /\ y \in X /\ y \notin Y
    BY <1>1, ReadinessConstants DEF After, KeyedRows
  <2>2. Y \subseteq X
    BY <1>1, <2>1, ReadinessConstants DEF After, KeyedRows
  <2>3. IsFiniteSet(X) /\ Y \in SUBSET X
    BY <2>2, FS_Subset
  <2>4. X # Y
    BY <2>1
  <2> HIDE DEF X, Y
  <2>5. /\ Cardinality(Y) <= Cardinality(X) /\ Cardinality(Y) # Cardinality(X)
        /\ IsFiniteSet(Y)
    BY <2>3, <2>4, FS_Subset
  <2>6. Cardinality(X) \in Nat /\ Cardinality(Y) \in Nat
    BY <2>3, <2>5, FS_CardinalityType
  <2>7. Cardinality(Y) < Cardinality(X)
    BY <2>5, <2>6
  <2> USE DEF X, Y
  <2> QED BY <2>7 DEF Later
<1>2. After(s, r) \/ After(r, s)
  BY ReadinessConstants DEF After, KeyedRows, Sources
<1>3. Later(r, S) \in Nat /\ Later(s, S) \in Nat
  BY FS_Subset, FS_CardinalityType DEF Later
<1> QED BY <1>1, <1>2, <1>3

\* The rows TryCreate accepts are one of each day of its window, in time.
LEMMA AcceptedRows ==
  ASSUME NEW S, KeyedRows(S), NEW cutoff \in Int, NEW time, TryCreate(S, cutoff, time)
  PROVE  /\ LastRows(S, cutoff) \subseteq S
         /\ \A r, s \in LastRows(S, cutoff) : r.day = s.day => r = s
         /\ \A d \in Window(cutoff) : \E r \in LastRows(S, cutoff) : r.day = d /\ r.at <= time
<1> DEFINE last == LastRows(S, cutoff)
<1>1. /\ last \subseteq S /\ IsFiniteSet(last) /\ KeyedRows(last)
      /\ \A r \in last : r.day <= cutoff
  <2>1. last \in SUBSET Queried(S, cutoff)
    BY DEF LastRows
  <2> HIDE DEF last
  <2> QED BY <2>1, QueriedRows, FS_Subset DEF KeyedRows
<1>2. /\ Cardinality(last) = RequiredDays
      /\ \A r \in last : r.day = cutoff - Later(r, last) /\ r.at <= time
  BY DEF TryCreate
<1> HIDE DEF last
<1>3. ASSUME NEW r \in last
      PROVE  Later(r, last) \in 0..(RequiredDays - 1)
  <2> DEFINE X == {s \in last : After(s, r)}
  <2>1. r \notin X
    BY <1>1, ReadinessConstants DEF After, KeyedRows
  <2>2. X \in SUBSET last /\ X # last
    BY <2>1
  <2>3. Later(r, last) = Cardinality(X)
    BY DEF Later
  <2> HIDE DEF X
  <2>4. /\ Cardinality(X) <= Cardinality(last) /\ Cardinality(X) # Cardinality(last)
        /\ Cardinality(X) \in Nat
    BY <1>1, <2>2, FS_Subset, FS_CardinalityType
  <2> QED BY <1>2, <2>3, <2>4, ReadinessConstants
<1>4. \A r \in last : r.day \in Window(cutoff)
  <2> TAKE r \in last
  <2>1. Later(r, last) \in Int /\ 0 <= Later(r, last) /\ Later(r, last) <= RequiredDays - 1
    BY <1>3, ReadinessConstants
  <2>2. r.day = cutoff - Later(r, last)
    BY <1>2
  <2> QED BY <2>1, <2>2, ReadinessConstants DEF Window
<1>5. \A r, s \in last : r.day = s.day => r = s
  <2> TAKE r, s \in last
  <2> HAVE r.day = s.day
  <2>1. Later(r, last) = Later(s, last)
    <3>1. r.day = cutoff - Later(r, last) /\ s.day = cutoff - Later(s, last)
      BY <1>2
    <3>2. Later(r, last) \in Int /\ Later(s, last) \in Int
      BY <1>3
    <3>3. \A x, y \in Int : cutoff - x = cutoff - y => x = y
      OBVIOUS
    <3> QED BY <3>1, <3>2, <3>3
  <2> QED BY <1>1, <2>1, LaterDiffers
<1>6. \A d \in Window(cutoff) : \E r \in last : r.day = d
  BY <1>2, <1>4, <1>5, WindowFacts, RowsOfDays
<1> USE DEF last
<1> QED BY <1>1, <1>2, <1>5, <1>6

(***************************************************************************)
(* What TryCreate accepts is unbroken, though a day may have two rows.     *)
(***************************************************************************)
LEMMA AcceptedIsUnbroken ==
  ASSUME NEW S, KeyedRows(S), NEW cutoff \in Int, NEW time, TryCreate(S, cutoff, time)
  PROVE  \A d \in Window(cutoff) : \E r \in S : r.day = d /\ r.at <= time
BY AcceptedRows

(***************************************************************************)
(* An unbroken history with one row a day is accepted, whatever lies       *)
(* before the window.                                                      *)
(***************************************************************************)
LEMMA UnbrokenIsAccepted ==
  ASSUME NEW S, KeyedRows(S), NEW cutoff \in Int, NEW time,
         \A d \in Window(cutoff) : \E r \in S : r.day = d,
         \A r, s \in S : r.day \in Window(cutoff) /\ r.day = s.day => r = s /\ r.at <= time
  PROVE  TryCreate(S, cutoff, time)
<1> DEFINE Q == Queried(S, cutoff)
           W == {r \in Q : r.day \in Window(cutoff)}
<1>1. /\ IsFiniteSet(Q) /\ KeyedRows(Q) /\ Q \subseteq S
      /\ \A r \in Q : r.day <= cutoff /\ r.day \in Int
  BY QueriedRows DEF KeyedRows
<1>2. \A r \in S : r.day \in Window(cutoff) => r \in W
  BY ReadinessConstants DEF Queried, Window, Slack
<1>3. \A r, s \in W : r.day = s.day => r = s
  BY <1>1
<1>4. IsFiniteSet(W) /\ Cardinality(W) = RequiredDays
  <2>1. \A r \in W : r.day \in Window(cutoff)
    OBVIOUS
  <2>2. \A d \in Window(cutoff) : \E r \in W : r.day = d
    BY <1>2
  <2> HIDE DEF W
  <2> QED BY <1>3, <2>1, <2>2, WindowFacts, RowsOfDays
\* After a row of the window come the rows of the days after it.
<1>5. ASSUME NEW r \in W
      PROVE  /\ {s \in Q : After(s, r)} = {s \in W : After(s, r)}
             /\ Cardinality({s \in W : After(s, r)}) = cutoff - r.day
  <2> DEFINE X == {s \in W : After(s, r)}
             D == (r.day + 1)..cutoff
  <2>1. r.day \in Int /\ r.day >= cutoff - RequiredDays + 1 /\ r.day <= cutoff
    BY <1>1, ReadinessConstants DEF Window
  <2>2. ASSUME NEW s \in Q, After(s, r)
        PROVE  s \in W /\ s.day > r.day
    <3>1. s.day >= r.day /\ s.day \in Int /\ s.day <= cutoff
      BY <1>1, <2>1, <2>2 DEF After
    <3>2. s.day \in Window(cutoff)
      BY <2>1, <3>1, ReadinessConstants DEF Window
    <3>3. s.day # r.day
      <4> SUFFICES ASSUME s.day = r.day PROVE FALSE
        OBVIOUS
      <4>1. s = r
        BY <1>1, <3>2
      <4> QED BY <2>1, <2>2, <4>1, ReadinessConstants DEF After
    <3> QED BY <2>1, <3>1, <3>2, <3>3
  <2>3. \A s \in X : s.day \in D
    BY <1>1, <2>1, <2>2
  <2>4. \A d \in D : \E s \in X : s.day = d
    <3> TAKE d \in D
    <3>1. d \in Window(cutoff) /\ d > r.day
      BY <2>1, ReadinessConstants DEF Window
    <3> QED BY <1>2, <3>1 DEF After
  <2>5. \A x, y \in X : x.day = y.day => x = y
    BY <1>3
  <2>6. IsFiniteSet(D) /\ Cardinality(D) = cutoff - r.day
    <3>1. r.day + 1 \in Int /\ (r.day + 1 > cutoff => cutoff - r.day = 0)
          /\ cutoff - (r.day + 1) + 1 = cutoff - r.day
      BY <2>1
    <3> QED BY <3>1, FS_Interval
  <2>7. Cardinality(X) = cutoff - r.day
    <3> HIDE DEF X, D
    <3> QED BY <2>3, <2>4, <2>5, <2>6, RowsOfDays
  <2>8. {s \in Q : After(s, r)} = X
    BY <2>2
  <2> QED BY <2>7, <2>8
\* Before the window, too many come after.
<1>6. ASSUME NEW r \in Q \ W
      PROVE  ~(Later(r, Q) < RequiredDays)
  <2> DEFINE X == {s \in Q : After(s, r)}
  <2>1. r.day < cutoff - RequiredDays + 1
    BY <1>1, ReadinessConstants DEF Window
  <2>2. W \subseteq X
    BY <1>1, <2>1, ReadinessConstants DEF Window, After
  <2>3. IsFiniteSet(X)
    <3>1. X \in SUBSET Q
      OBVIOUS
    <3> HIDE DEF X, Q, W
    <3> QED BY <1>1, <3>1, FS_Subset
  <2>4. Later(r, Q) = Cardinality(X)
    BY DEF Later
  <2> HIDE DEF X, W
  <2>5. Cardinality(W) <= Cardinality(X) /\ Cardinality(X) \in Nat
    BY <2>2, <2>3, FS_Subset, FS_CardinalityType
  <2> QED BY <1>4, <2>4, <2>5, ReadinessConstants
<1>7. LastRows(S, cutoff) = W
  <2>1. ASSUME NEW r \in W PROVE Later(r, Q) < RequiredDays
    <3>1. Later(r, Q) = cutoff - r.day
      BY <1>5 DEF Later
    <3> QED BY <3>1, ReadinessConstants DEF Window
  <2>2. LastRows(S, cutoff) = {r \in Q : Later(r, Q) < RequiredDays}
    BY DEF LastRows
  <2>3. W \subseteq Q
    OBVIOUS
  <2> HIDE DEF W, Q
  <2> QED BY <1>6, <2>1, <2>2, <2>3
<1>8. \A r \in W : r.day = cutoff - Later(r, W) /\ r.at <= time
  <2> TAKE r \in W
  <2>1. Later(r, W) = cutoff - r.day
    BY <1>5 DEF Later
  <2>2. r.day \in Int /\ r.at <= time
    BY <1>1
  <2> QED BY <2>1, <2>2
<1> HIDE DEF W, Q
<1> QED BY <1>4, <1>7, <1>8 DEF TryCreate

(***************************************************************************)
(* A day of which both sources have a row makes the daily job turn an      *)
(* asset away, however complete its history: TryCreate takes the second    *)
(* row for a gap, unless the day is the oldest it needs.                   *)
(***************************************************************************)
THEOREM SecondRowIsRejected ==
  ASSUME NEW S, KeyedRows(S), NEW cutoff \in Int, NEW time,
         NEW r \in S, NEW s \in S, r # s, r.day = s.day,
         r.day \in Window(cutoff), r.day - 1 \in Window(cutoff)
  PROVE  ~TryCreate(S, cutoff, time)
<1> DEFINE Q == Queried(S, cutoff)
<1> SUFFICES ASSUME TryCreate(S, cutoff, time) PROVE FALSE
  OBVIOUS
<1>1. PICK o \in LastRows(S, cutoff) : o.day = r.day - 1
  BY AcceptedRows
<1>2. IsFiniteSet(Q) /\ KeyedRows(Q) /\ o \in Q /\ Later(o, Q) < RequiredDays
  <2>1. LastRows(S, cutoff) = {z \in Q : Later(z, Q) < RequiredDays}
    BY DEF LastRows
  <2> HIDE DEF Q
  <2>2. o \in Q /\ Later(o, Q) < RequiredDays
    BY <1>1, <2>1
  <2> USE DEF Q
  <2> QED BY <2>2, QueriedRows
<1>3. r.day \in Int /\ r.day <= cutoff /\ r \in Q /\ s \in Q
  <2>1. r.day \in Int /\ r.day <= cutoff /\ r.day >= cutoff - RequiredDays + 1
    BY ReadinessConstants DEF Window
  <2>2. r.day \in (cutoff - RequiredDays - Slack)..cutoff
    BY <2>1, ReadinessConstants DEF Slack
  <2> QED BY <2>1, <2>2 DEF Queried
<1>4. ASSUME NEW x \in Q, x.day = r.day
      PROVE  x \in LastRows(S, cutoff)
  <2> DEFINE X == {z \in Q : After(z, x)}
             O == {z \in Q : After(z, o)}
  <2>1. X \subseteq O
    <3> SUFFICES ASSUME NEW z \in Q, After(z, x) PROVE After(z, o)
      OBVIOUS
    <3>1. z.day \in Int /\ z.day >= r.day
      BY <1>2, <1>3, <1>4 DEF After, KeyedRows
    <3> QED BY <1>1, <1>3, <3>1 DEF After
  <2>2. X \in SUBSET O /\ O \in SUBSET Q
    BY <2>1
  <2>3. Later(x, Q) = Cardinality(X) /\ Later(o, Q) = Cardinality(O)
    BY DEF Later
  <2>4. LastRows(S, cutoff) = {z \in Q : Later(z, Q) < RequiredDays}
    BY DEF LastRows
  <2> HIDE DEF X, O, Q
  <2>5. IsFiniteSet(O) /\ Cardinality(X) <= Cardinality(O)
    BY <1>2, <2>2, FS_Subset
  <2>6. Cardinality(X) \in Nat /\ Cardinality(O) \in Nat
    BY <2>2, <2>5, FS_Subset, FS_CardinalityType
  <2>7. Later(x, Q) < RequiredDays
    BY <1>2, <2>3, <2>5, <2>6, ReadinessConstants
  <2> QED BY <2>4, <2>7
<1>5. r \in LastRows(S, cutoff) /\ s \in LastRows(S, cutoff)
  BY <1>3, <1>4
<1> QED BY <1>5, AcceptedRows

\* The dashboard counts as many days as required when the window has them all.
LEMMA CountedDays ==
  ASSUME NEW days \in SUBSET Int, NEW cutoff \in Int, IsFiniteSet(days),
         cutoff \in days, \A d \in days : d <= cutoff
  PROVE  Cardinality({d \in days : d..cutoff \subseteq days}) >= RequiredDays
           <=> Window(cutoff) \subseteq days
<1> DEFINE R == {d \in days : d..cutoff \subseteq days}
<1>1. RequiredDays \in Nat /\ RequiredDays # 0
  BY ReadinessConstants
<1>2. R \in SUBSET days
  OBVIOUS
<1>3. IsFiniteSet(R) /\ Cardinality(R) \in Nat
  <2> HIDE DEF R
  <2> QED BY <1>2, FS_Subset, FS_CardinalityType
<1>4. ASSUME Window(cutoff) \subseteq days
      PROVE  Cardinality(R) >= RequiredDays
  <2>1. ASSUME NEW d \in Window(cutoff) PROVE d \in R
    <3>1. d \in days /\ d..cutoff \subseteq Window(cutoff)
      BY <1>1, <1>4 DEF Window
    <3> QED BY <1>4, <3>1
  <2>2. Window(cutoff) \in SUBSET R
    BY <2>1
  <2> HIDE DEF R
  <2>3. Cardinality(Window(cutoff)) <= Cardinality(R)
    BY <1>3, <2>2, FS_Subset
  <2> QED BY <1>1, <1>3, <2>3, WindowFacts
<1>5. ASSUME NEW w \in Window(cutoff), w \notin days
      PROVE  ~(Cardinality(R) >= RequiredDays)
  <2> DEFINE D == (w + 1)..cutoff
  <2>1. w \in Int /\ w <= cutoff /\ w >= cutoff - RequiredDays + 1
    BY <1>1 DEF Window
  <2>2. ASSUME NEW d \in R PROVE d \in D
    <3>1. d \in Int /\ d <= cutoff /\ d..cutoff \subseteq days
      OBVIOUS
    <3>2. ~(d <= w)
      BY <1>5, <2>1, <3>1
    <3> QED BY <2>1, <3>1, <3>2
  <2>3. R \in SUBSET D
    BY <2>2
  <2>4. IsFiniteSet(D) /\ Cardinality(D) = cutoff - w
    <3>1. w + 1 \in Int /\ (w + 1 > cutoff => cutoff - w = 0)
          /\ cutoff - (w + 1) + 1 = cutoff - w
      BY <2>1
    <3> QED BY <3>1, FS_Interval
  <2> HIDE DEF R, D
  <2>5. Cardinality(R) <= Cardinality(D)
    BY <2>3, <2>4, FS_Subset
  <2> QED BY <1>1, <1>3, <2>1, <2>4, <2>5
<1> QED BY <1>4, <1>5

(***************************************************************************)
(* The dashboard shows an asset as ready exactly when the daily job would  *)
(* accept its history, provided no day has two rows: the second row of a   *)
(* day is all that can make the two disagree.                              *)
(***************************************************************************)
THEOREM DashboardAgreesWithJob ==
  ASSUME NEW S, KeyedRows(S), \A r, s \in S : r.day = s.day => r = s,
         NEW cutoff \in Int, NEW time, \A r \in S : r.day <= cutoff /\ r.at <= time
  PROVE  DashboardState(S, cutoff) = "ready" <=> TryCreate(S, cutoff, time)
<1> DEFINE Q == Queried(S, cutoff)
           days == {r.day : r \in Q}
           D == (cutoff - RequiredDays - Slack)..cutoff
<1>1. Q = {r \in S : r.day >= cutoff - RequiredDays - Slack}
  BY ReadinessConstants DEF Queried, KeyedRows, Slack
<1>2. Q \subseteq S /\ days \subseteq Int /\ \A d \in days : d <= cutoff
  BY DEF Queried, KeyedRows
<1>3. IsFiniteSet(days)
  <2>1. days \in SUBSET D
    BY DEF Queried
  <2>2. IsFiniteSet(D)
    BY ReadinessConstants, FS_Interval DEF Slack
  <2> HIDE DEF days, D
  <2> QED BY <2>1, <2>2, FS_Subset
<1>4. Window(cutoff) \subseteq days <=> \A d \in Window(cutoff) : \E r \in S : r.day = d
  <2>1. \A d \in Window(cutoff) : d \in D
    BY ReadinessConstants DEF Window, Slack
  <2>2. \A r \in S : r.day \in D => r \in Q
    BY DEF Queried
  <2> QED BY <1>2, <2>1, <2>2
<1>5. TryCreate(S, cutoff, time) <=> Window(cutoff) \subseteq days
  BY <1>4, AcceptedIsUnbroken, UnbrokenIsAccepted
<1>6. Window(cutoff) \subseteq days => cutoff \in days
  BY ReadinessConstants DEF Window
<1>7. cutoff \in days => (CountConsecutiveDays(Q) >= RequiredDays <=> Window(cutoff) \subseteq days)
  <2> SUFFICES ASSUME cutoff \in days
               PROVE  CountConsecutiveDays(Q) >= RequiredDays <=> Window(cutoff) \subseteq days
    OBVIOUS
  <2>1. (CHOOSE d \in days : \A e \in days : e <= d) = cutoff
    BY <1>2
  <2>2. CountConsecutiveDays(Q) = Cardinality({d \in days : d..cutoff \subseteq days})
    BY <2>1 DEF CountConsecutiveDays
  <2> HIDE DEF days, Q, D
  <2> QED BY <1>2, <1>3, <2>2, CountedDays
<1>8. DashboardState(S, cutoff) = "ready"
        <=> cutoff \in days /\ CountConsecutiveDays(Q) >= RequiredDays
  <2> DEFINE latest == {r \in Q : \A s \in Q : s.day <= r.day}
  <2>1. DashboardState(S, cutoff) =
          IF Q = {} THEN "missing"
          ELSE IF \A r \in latest : r.day # cutoff THEN "stale"
          ELSE IF CountConsecutiveDays(Q) >= RequiredDays THEN "ready" ELSE "warming"
    BY <1>1 DEF DashboardState
  <2>2. (\E r \in latest : r.day = cutoff) <=> cutoff \in days
    BY <1>2
  <2>3. Q = {} => cutoff \notin days
    OBVIOUS
  <2> HIDE DEF Q, days, latest, D
  <2> QED BY <2>1, <2>2, <2>3
<1> QED BY <1>5, <1>6, <1>7, <1>8
-----------------------------------------------------------------------------
\* A run, as far as the proofs look into it.
RunType ==
  [part : {"none", "crypto", "equity"}, now : {run.now}, started : Int, cutoff : Int,
   flags : [Models -> Serving!Stages], seen : [Assets -> SUBSET Int], left : SUBSET Assets,
   features : {run.features}, predictions : {run.predictions}]

Typed ==
  /\ day \in Nat /\ bars \in [Assets -> SUBSET Int] /\ flags \in Serving!Flags
  /\ run \in RunType /\ (pc # "idle" => run.part \in {"crypto", "equity"})

\* The steps that are not the job's.
Elsewhere ==
  \/ NextDay \/ RegistryStep
  \/ \E a \in Assets : CompleteDay(a)
  \/ \E a \in Crypto : SaveDerivatives(a)

LEMMA ElsewhereFrame == Elsewhere => UNCHANGED <<tables, pc, run>>
BY DEF Elsewhere, NextDay, RegistryStep, CompleteDay, SaveDerivatives, tables

LEMMA FreshRun ==
  ASSUME NEW part \in {"none", "crypto", "equity"}, NEW now, NEW cutoff \in Int,
         run' = Run(part, now, cutoff)
  PROVE  /\ (run \in RunType)'
         /\ run'.part = part /\ run'.features = {} /\ run'.predictions = {}
BY DEF Run, RunType, Serving!Stages

\* A run that goes on.
LEMMA RunGoesOn ==
  ASSUME run \in RunType,
         NEW cutoff \in Int, NEW f \in [Models -> Serving!Stages], NEW seen \in [Assets -> SUBSET Int],
         NEW left \in SUBSET Assets, NEW fs, NEW ps,
         run' = [run EXCEPT !.cutoff = cutoff, !.flags = f, !.seen = seen, !.left = left,
                            !.features = fs, !.predictions = ps]
  PROVE  (run \in RunType)' /\ run'.part = run.part
BY DEF RunType

\* What the end of a part leaves of a run: nothing but a fresh one.
LEMMA LeaveFresh ==
  ASSUME Typed, Leave \/ Abandon
  PROVE  /\ (run \in RunType)' /\ pc' \in {"idle", "read"}
         /\ (pc' # "idle" => run'.part = "equity")
         /\ run'.features = {} /\ run'.predictions = {}
<1>1. CASE run' = Run("equity", run.now, run.started) /\ pc' = "read"
  BY <1>1, FreshRun DEF Typed, RunType
<1>2. CASE run' = NoRun /\ pc' = "idle"
  BY <1>2, FreshRun DEF NoRun
<1> QED BY <1>1, <1>2 DEF Leave, Abandon

\* The history variable adds nothing to what the steps do.
LEMMA StepOfSystem == [Next /\ Record]_<<vars, served>> => [Next]_vars
OBVIOUS

LEMMA StepIsRecorded ==
  ASSUME FlagsInv, [Next /\ Record]_<<vars, served>>
  PROVE  Record
<1>1. CASE UNCHANGED <<vars, served>>
  <2>1. flags' = flags /\ served' = served
    BY <1>1 DEF vars
  <2>2. Serving!Producing(flags') = Serving!Producing(flags)
    BY <2>1
  <2> QED BY <2>1, <2>2 DEF FlagsInv, Record
<1> QED BY <1>1

-----------------------------------------------------------------------------
(* Types. *)

LEMMA ReadFlagsTyped ==
  ASSUME Typed
  PROVE  [m \in Models |-> IF Wanted(m) THEN flags[m] ELSE "none"] \in [Models -> Serving!Stages]
BY DEF Typed, Serving!Flags, Serving!Stages

\* The flags keep their type through the registry's steps.
LEMMA RegistryTyped ==
  ASSUME Typed, RegistryStep
  PROVE  flags' \in Serving!Flags
<1>1. flags \in [Models -> Serving!Stages] /\ Serving!OneOfEach(Serving!Candidates(flags))
  BY DEF Typed, Serving!Flags
<1>2. ASSUME NEW f \in [Models -> Serving!Stages],
             Serving!Candidates(f) \subseteq Serving!Candidates(flags)
      PROVE  f \in Serving!Flags
  BY <1>1, <1>2 DEF Serving!Flags, Serving!OneOfEach
<1>3. ASSUME NEW class, Serving!Demote(class) PROVE flags' \in Serving!Flags
  <2>1. flags' \in [Models -> Serving!Stages]
    BY <1>1, <1>3 DEF Serving!Demote, Serving!Stages
  <2>2. Serving!Candidates(flags') \subseteq Serving!Candidates(flags)
    BY <1>3 DEF Serving!Demote, Serving!Candidates
  <2> QED BY <2>1, <2>2, <1>2
<1>4. ASSUME NEW S, Serving!Promote(S) PROVE flags' \in Serving!Flags
  <2>1. flags' \in [Models -> Serving!Stages]
    BY <1>1, <1>4 DEF Serving!Promote, Serving!Stages
  <2>2. Serving!Candidates(flags') \subseteq Serving!Candidates(flags)
    BY <1>4 DEF Serving!Promote, Serving!Candidates
  <2> QED BY <2>1, <2>2, <1>2
<1>5. ASSUME NEW W, Serving!Choose(W) PROVE flags' \in Serving!Flags
  <2>1. flags' \in [Models -> Serving!Stages]
    BY <1>1, <1>5 DEF Serving!Choose, Serving!Stages
  <2>2. Serving!Candidates(flags') \subseteq W /\ Serving!OneOfEach(W)
    BY <1>5 DEF Serving!Choose, Serving!Candidates
  <2> QED BY <2>1, <2>2 DEF Serving!Flags, Serving!OneOfEach
<1> QED BY <1>3, <1>4, <1>5 DEF RegistryStep

LEMMA TypedStep ==
  ASSUME Typed, [Next]_vars
  PROVE  Typed'
<1>1. CASE UNCHANGED vars
  BY <1>1 DEF Typed, RunType, vars, market, tables
<1>2. CASE Elsewhere
  <2>1. UNCHANGED <<pc, run>>
    BY <1>2, ElsewhereFrame
  <2>2. day' \in Nat
    BY <1>2 DEF Typed, Elsewhere, NextDay, RegistryStep, CompleteDay, SaveDerivatives
  <2>3. bars' \in [Assets -> SUBSET Int]
    BY <1>2 DEF Typed, Elsewhere, NextDay, RegistryStep, CompleteDay, SaveDerivatives, market
  <2>4. flags' \in Serving!Flags
    <3>1. CASE RegistryStep
      BY <3>1, RegistryTyped
    <3>2. CASE UNCHANGED flags
      BY <3>2 DEF Typed
    <3> QED BY <1>2, <3>1, <3>2 DEF Elsewhere, NextDay, CompleteDay, SaveDerivatives
  <2> QED BY <2>1, <2>2, <2>3, <2>4 DEF Typed, RunType
<1>3. CASE Job \/ Fail
  <2>1. day' \in Nat /\ bars' \in [Assets -> SUBSET Int] /\ flags' \in Serving!Flags
    BY <1>3 DEF Typed, Job, Fail, Start, ReadModels, Observe, Judge, Decide, Commit, market
  <2>2. CASE Start
    BY <2>1, <2>2, FreshRun DEF Start, Typed
  <2>3. CASE Leave \/ Abandon
    BY <2>1, <2>3, LeaveFresh DEF Typed
  <2>4. CASE ReadModels /\ ~Leave
    <3>1. run' = [run EXCEPT !.cutoff = run.cutoff, !.seen = run.seen, !.features = run.features,
                   !.predictions = run.predictions, !.left = AssetsOf[run.part],
                   !.flags = [m \in Models |-> IF Wanted(m) THEN flags[m] ELSE "none"]]
      BY <2>4 DEF ReadModels, Typed, RunType
    <3>2. pc # "idle" /\ AssetsOf[run.part] \in SUBSET Assets
      BY <2>4 DEF ReadModels, Typed, AssetsOf, Assets
    <3>3. (run \in RunType)' /\ run'.part = run.part
      BY <3>1, <3>2, ReadFlagsTyped, RunGoesOn DEF Typed, RunType
    <3> QED BY <2>1, <3>2, <3>3 DEF Typed
  <2>5. CASE \E a \in Assets : Observe(a)
    <3>1. PICK a \in Assets : Observe(a)
      BY <2>5
    <3> DEFINE seen == [run.seen EXCEPT ![a] = Observed(a)]
    <3>2. seen \in [Assets -> SUBSET Int] /\ run.left \ {a} \in SUBSET Assets
      BY DEF Typed, RunType, Observed
    <3>3. run' = [run EXCEPT !.cutoff = run.cutoff, !.flags = run.flags, !.seen = seen,
                   !.left = run.left \ {a}, !.features = run.features,
                   !.predictions = run.predictions]
      BY <3>1 DEF Observe, Typed, RunType
    <3>4. (run \in RunType)' /\ run'.part = run.part
      BY <3>2, <3>3, RunGoesOn DEF Typed, RunType
    <3> QED BY <2>1, <3>1, <3>4 DEF Observe, Typed
  <2>6. CASE Judge /\ ~Leave
    <3>1. CutoffOf(run.seen[Benchmark[run.part]]) \in Int
      BY <2>6, PredictionConstants
         DEF Judge, Leave, BenchmarkReady, EndsAt, IsLast, Typed, RunType, Benchmark, Assets
    <3>2. run' = [run EXCEPT !.cutoff = CutoffOf(run.seen[Benchmark[run.part]]),
                   !.flags = run.flags, !.seen = run.seen, !.left = AssetsOf[run.part],
                   !.features = run.features, !.predictions = run.predictions]
      BY <2>6 DEF Judge, Typed, RunType
    <3>3. pc # "idle" /\ AssetsOf[run.part] \in SUBSET Assets
      BY <2>6 DEF Judge, Typed, AssetsOf, Assets
    <3>4. (run \in RunType)' /\ run'.part = run.part
      BY <3>1, <3>2, <3>3, RunGoesOn DEF Typed, RunType
    <3> QED BY <2>1, <3>3, <3>4 DEF Typed
  <2>7. CASE \E a \in Assets : Decide(a)
    <3>1. PICK a \in Assets : Decide(a)
      BY <2>7
    <3>2. \E fs, ps : run' = [run EXCEPT !.cutoff = run.cutoff, !.flags = run.flags,
                         !.seen = run.seen, !.left = run.left \ {a},
                         !.features = fs, !.predictions = ps]
      <4>1. CASE ~AssetReady(a)
        <5>1. run' = [run EXCEPT !.cutoff = run.cutoff, !.flags = run.flags,
                         !.seen = run.seen, !.left = run.left \ {a},
                         !.features = run.features, !.predictions = run.predictions]
          BY <3>1, <4>1 DEF Decide, Typed, RunType
        <5> QED BY <5>1
      <4>2. CASE AssetReady(a)
        BY <3>1, <4>2 DEF Decide, Typed, RunType
      <4> QED BY <4>1, <4>2
    <3>3. run.left \ {a} \in SUBSET Assets
      BY DEF Typed, RunType
    <3>4. (run \in RunType)' /\ run'.part = run.part
      BY <3>2, <3>3, RunGoesOn DEF Typed, RunType
    <3> QED BY <2>1, <3>1, <3>4 DEF Decide, Typed
  <2> QED BY <1>3, <2>2, <2>3, <2>4, <2>5, <2>6, <2>7 DEF Job, Fail, Commit
<1> QED BY <1>1, <1>2, <1>3 DEF Next, Elsewhere

LEMMA FirstTypes ==
  ASSUME Init
  PROVE  /\ bars \in [Assets -> SUBSET (Earliest..0)] /\ bars \in [Assets -> SUBSET Int]
         /\ \A a \in Crypto : \E days \in SUBSET Int :
              rows[a] = [day : days, source : {Archive}, at : {0}]
         /\ DOMAIN rows = Crypto
<1>1. PICK t \in FirstTables :
        /\ bars = t.bars
        /\ rows = [a \in Crypto |-> [day : t.derivatives[a], source : {Archive}, at : {0}]]
  BY DEF Init
<1>2. /\ t.bars \in [Assets -> SUBSET (Earliest..0)]
      /\ t.derivatives \in [Crypto -> SUBSET Int] /\ Earliest \in Int
  BY PredictionConstants
<1>3. \A S \in SUBSET (Earliest..0) : S \in SUBSET Int
  BY <1>2
<1>4. bars \in [Assets -> SUBSET Int]
  BY <1>1, <1>2, <1>3
<1>5. \A a \in Crypto : t.derivatives[a] \in SUBSET Int
  BY <1>2
<1> QED BY <1>1, <1>2, <1>4, <1>5

(***************************************************************************)
(* What a run has read and the flags of the registry keep their types, and *)
(* the registry has at most one candidate of a class at any time.          *)
(***************************************************************************)
THEOREM PredictionTypes == Spec => []Typed
<1>1. Init => Typed
  <2> SUFFICES ASSUME Init PROVE Typed
    OBVIOUS
  <2>1. run \in RunType
    BY DEF Init, NoRun, Run, RunType, Serving!Stages
  <2>2. bars \in [Assets -> SUBSET Int]
    BY FirstTypes
  <2> QED BY <2>1, <2>2, RegistryConstants DEF Init, Typed
<1>2. Typed /\ [Next /\ Record]_<<vars, served>> => Typed'
  BY TypedStep, StepOfSystem
<1> QED BY <1>1, <1>2, PTL DEF Spec
-----------------------------------------------------------------------------
(* What one action leaves of the run. *)

LEMMA ObserveFrame ==
  ASSUME Typed, NEW a \in Assets, Observe(a)
  PROVE  /\ run'.seen = [run.seen EXCEPT ![a] = Observed(a)] /\ run'.left = run.left \ {a}
         /\ run'.part = run.part /\ run'.cutoff = run.cutoff /\ run'.flags = run.flags
         /\ run'.features = run.features /\ run'.predictions = run.predictions
BY DEF Observe, Typed, RunType

LEMMA ReadModelsFrame ==
  ASSUME Typed, ReadModels, ~Leave
  PROVE  /\ run'.left = AssetsOf[run.part] /\ run'.part = run.part
         /\ run'.features = run.features /\ run'.predictions = run.predictions
         /\ run'.flags = [m \in Models |-> IF Wanted(m) THEN flags[m] ELSE "none"]
BY DEF ReadModels, Typed, RunType

LEMMA JudgeFrame ==
  ASSUME Typed, Judge, ~Leave
  PROVE  /\ run'.seen = run.seen /\ run'.part = run.part /\ run'.flags = run.flags
         /\ run'.features = run.features /\ run'.predictions = run.predictions
         /\ run'.cutoff = CutoffOf(run.seen[Benchmark[run.part]])
         /\ EndsAt(run.seen[Benchmark[run.part]], run'.cutoff)
BY DEF Judge, Typed, RunType, BenchmarkReady

Missing(a) == {m \in Models : run.flags[m] # "none" /\ ~AlreadyExists(a, m)}
Created(a) == IF StoredSnapshot(a) = {} THEN {Snapshot(a)} ELSE {}

LEMMA DecideFrame ==
  ASSUME Typed, NEW a \in Assets, Decide(a)
  PROVE  /\ run'.seen = run.seen /\ run'.part = run.part /\ run'.flags = run.flags
         /\ run'.cutoff = run.cutoff
         /\ \/ run'.features = run.features /\ run'.predictions = run.predictions
            \/ /\ AssetReady(a)
               /\ run'.features = run.features \cup Created(a)
               /\ run'.predictions = run.predictions \cup {Prediction(a, m) : m \in Missing(a)}
BY DEF Decide, Typed, RunType, Missing, Created

LEMMA BarsGrow ==
  ASSUME Typed, [Next]_vars
  PROVE  \A b \in Assets : bars[b] \subseteq bars'[b]
<1>1. CASE \E a \in Assets : CompleteDay(a)
  BY <1>1 DEF CompleteDay, Typed
<1>2. CASE UNCHANGED bars
  BY <1>2
<1> QED
  BY <1>1, <1>2 DEF Next, Job, Fail, Start, ReadModels, Observe, Judge, Decide, Commit, NextDay,
    RegistryStep, SaveDerivatives, vars, market

LEMMA ClassOfPart ==
  ASSUME NEW part \in {"crypto", "equity"}, NEW a \in AssetsOf[part]
  PROVE  /\ a \in Assets /\ ClassIn(a) = part
         /\ Benchmark[part] \in AssetsOf[part] /\ AssetsOf[part] \subseteq Assets
BY PredictionConstants DEF AssetsOf, Assets, ClassIn, Benchmark

LEMMA NextAssetIsLeft ==
  ASSUME NEW a, NextAsset(a)
  PROVE  a \in run.left
BY DEF NextAsset

\* The steps of the job that do not leave it reading.
Ending == Start \/ Leave \/ Abandon

LEMMA EndingFrame ==
  ASSUME Typed, Ending
  PROVE  ~Reading' /\ run'.features = {} /\ run'.predictions = {}
<1>1. CASE Start
  BY <1>1, FreshRun DEF Start, Reading, Typed
<1>2. CASE Leave \/ Abandon
  BY <1>2, LeaveFresh DEF Reading
<1> QED BY <1>1, <1>2 DEF Ending

\* Every step of the model, sorted by what it does to the run.
LEMMA Steps ==
  ASSUME [Next]_vars
  PROVE  \/ UNCHANGED <<tables, pc, run>>
         \/ Ending /\ (UNCHANGED tables \/ Commit)
         \/ ReadModels /\ ~Leave
         \/ \E a \in Assets : Observe(a)
         \/ Judge /\ ~Leave
         \/ \E a \in Assets : Decide(a)
<1>1. CASE UNCHANGED vars
  BY <1>1 DEF vars
<1>2. CASE Elsewhere
  BY <1>2, ElsewhereFrame
<1>3. CASE Job \/ Fail
  BY <1>3 DEF Job, Fail, Start, ReadModels, Judge, Commit, Ending
<1> QED BY <1>1, <1>2, <1>3 DEF Next, Elsewhere

LEMMA ReadInvStep ==
  ASSUME Typed, ReadInv, [Next]_vars
  PROVE  ReadInv'
<1> USE BarsGrow
<1>1. CASE UNCHANGED <<tables, pc, run>>
  <2>1. Read \subseteq Assets \/ ~Reading
    BY ClassOfPart DEF Read, Typed, Reading, Assets, AssetsOf
  <2> QED BY <1>1, <2>1 DEF ReadInv, Reading, Read
<1>2. CASE Ending
  BY <1>2, EndingFrame DEF ReadInv
<1>3. CASE ReadModels /\ ~Leave
  BY <1>3, ReadModelsFrame DEF ReadInv, Read, Reading, ReadModels
<1>4. ASSUME NEW a \in Assets, Observe(a)
      PROVE  ReadInv'
  <2>1. pc = "observe" /\ pc' = "observe" /\ UNCHANGED bars
    BY <1>4 DEF Observe, market
  <2>2. run'.left \subseteq AssetsOf[run'.part]
    BY <1>4, <2>1, ObserveFrame DEF ReadInv, Reading
  <2>3. ASSUME NEW b \in Read'
        PROVE  /\ run'.seen[b] \subseteq bars'[b]
               /\ run'.part = "crypto" => \A d \in run'.seen[b] : d <= run'.cutoff
    <3>1. CASE b = a
      <4>1. run'.seen[b] = Observed(a)
        BY <1>4, <3>1, ObserveFrame DEF Typed, RunType
      <4> QED BY <1>4, <2>1, <3>1, <4>1, ObserveFrame DEF Observed
    <3>2. CASE b # a
      <4>1. b \in Read /\ run'.seen[b] = run.seen[b]
        <5>1. b \in AssetsOf[run.part] /\ b \notin run.left
          BY <1>4, <2>1, <2>3, <3>2, ObserveFrame DEF Read
        <5>2. b \in Assets
          BY <2>1, <5>1, ClassOfPart DEF Typed
        <5> QED BY <1>4, <2>1, <3>2, <5>1, <5>2, ObserveFrame DEF Read, Typed, RunType
      <4> QED BY <1>4, <2>1, <4>1, ObserveFrame DEF ReadInv, Reading
    <3> QED BY <3>1, <3>2
  <2> QED BY <2>2, <2>3 DEF ReadInv
<1>5. CASE Judge /\ ~Leave
  <2>1. pc = "observe" /\ pc' = "decide" /\ run.left = {} /\ UNCHANGED bars
    BY <1>5 DEF Judge, market
  <2>2. run'.left = AssetsOf[run'.part]
    BY <1>5, JudgeFrame DEF Judge, Typed, RunType
  <2>3. run'.part = "crypto" => run'.cutoff = run.cutoff
    BY <1>5, JudgeFrame DEF CutoffOf
  <2>4. Read' = Read
    BY <1>5, <2>1, JudgeFrame DEF Read
  <2> QED BY <1>5, <2>1, <2>2, <2>3, <2>4, JudgeFrame DEF ReadInv, Reading
<1>6. ASSUME NEW a \in Assets, Decide(a)
      PROVE  ReadInv'
  <2>1. pc = "decide" /\ pc' = "decide" /\ UNCHANGED bars
    BY <1>6 DEF Decide, market
  <2>2. run'.left \subseteq run.left
    BY <1>6 DEF Decide, Typed, RunType
  <2> QED BY <1>6, <2>1, <2>2, DecideFrame DEF ReadInv, Reading, Read
<1> QED BY <1>1, <1>2, <1>3, <1>4, <1>5, <1>6, Steps

\* The history only grows, so the moment a run has read stays in it.
LEMMA FlagsInvStep ==
  ASSUME Typed, FlagsInv, [Next]_vars, Record
  PROVE  FlagsInv'
<1>0. /\ served \subseteq served' /\ Serving!Producing(flags') \in served'
      /\ served' \subseteq SUBSET Models
  BY DEF Record, FlagsInv, Serving!Producing
<1> SUFFICES ASSUME Reading'
             PROVE  \E S \in served' : Serving!Producing(run'.flags) \subseteq S
  BY <1>0 DEF FlagsInv, Serving!Producing
<1>1. CASE Reading /\ run'.flags = run.flags
  BY <1>0, <1>1 DEF FlagsInv
<1>2. CASE ReadModels /\ ~Leave
  <2>1. Serving!Producing(run'.flags) \subseteq Serving!Producing(flags)
    BY <1>2, ReadModelsFrame DEF Wanted, Serving!Producing
  <2>2. flags' = flags
    BY <1>2 DEF ReadModels
  <2> QED BY <1>0, <2>1, <2>2
<1>3. CASE UNCHANGED <<tables, pc, run>>
  BY <1>1, <1>3 DEF Reading
<1>4. CASE Ending
  BY <1>4, EndingFrame
<1>5. ASSUME NEW a \in Assets, Observe(a) \/ Decide(a)
      PROVE  Reading /\ run'.flags = run.flags
  BY <1>5, ObserveFrame, DecideFrame DEF Reading, Observe, Decide
<1>6. CASE Judge /\ ~Leave
  BY <1>1, <1>6, JudgeFrame DEF Reading, Judge
<1> QED BY <1>1, <1>2, <1>3, <1>4, <1>5, <1>6, Steps

Stored == \A f \in features : Grounded(f)

LEMMA ReuseInvStep ==
  ASSUME Typed, Stored, ReadInv, ReuseInv, [Next]_vars
  PROVE  ReuseInv'
<1>1. CASE UNCHANGED <<tables, pc, run>>
  BY <1>1 DEF ReuseInv, Reading, Read, tables
<1>2. CASE Ending
  BY <1>2, EndingFrame DEF ReuseInv
<1>3. CASE ReadModels /\ ~Leave
  BY <1>3, ReadModelsFrame DEF ReuseInv, Read, Reading, ReadModels
<1>4. ASSUME NEW a \in Assets, Observe(a)
      PROVE  ReuseInv'
  <2>1. pc = "observe" /\ pc' = "observe" /\ UNCHANGED <<bars, features>>
    BY <1>4 DEF Observe, market, tables
  <2> SUFFICES ASSUME NEW f \in features, ClassIn(f.asset) = run.part,
                      run.part = "crypto" => f.day = run.cutoff,
                      NEW b \in Read', b \in DOMAIN f.vector
               PROVE  f.vector[b] \subseteq run'.seen[b]
    BY <1>4, <2>1, ObserveFrame DEF ReuseInv
  <2>2. b \in AssetsOf[run.part] /\ b \notin run.left \ {a}
    BY <1>4, <2>1, ObserveFrame DEF Read
  <2>3. b \in Assets
    BY <2>1, <2>2, ClassOfPart DEF Typed
  <2>4. CASE b = a
    <3>1. run'.seen[b] = Observed(a)
      BY <1>4, <2>4, ObserveFrame DEF Typed, RunType
    <3>2. f.vector[b] \subseteq bars[b] /\ \A d \in f.vector[b] : d <= f.day
      BY DEF Stored, Grounded, NoLaterDay
    <3> QED BY <2>4, <3>1, <3>2 DEF Observed
  <2>5. CASE b # a
    <3>1. run'.seen[b] = run.seen[b] /\ b \in Read
      BY <1>4, <2>1, <2>2, <2>3, <2>5, ObserveFrame DEF Read, Typed, RunType
    <3> QED BY <2>1, <3>1 DEF ReuseInv, Reading
  <2> QED BY <2>4, <2>5
<1>5. CASE Judge /\ ~Leave
  <2>1. pc = "observe" /\ pc' = "decide" /\ run.left = {} /\ UNCHANGED features
    BY <1>5 DEF Judge, tables
  <2>2. run'.part = "crypto" => run'.cutoff = run.cutoff
    BY <1>5, JudgeFrame DEF CutoffOf
  <2>3. Read' = Read
    BY <1>5, <2>1, JudgeFrame DEF Read
  <2> QED BY <1>5, <2>1, <2>2, <2>3, JudgeFrame DEF ReuseInv, Reading
<1>6. ASSUME NEW a \in Assets, Decide(a)
      PROVE  ReuseInv'
  <2>1. pc = "decide" /\ pc' = "decide" /\ UNCHANGED features
    BY <1>6 DEF Decide, tables
  <2> QED BY <1>6, <2>1, DecideFrame DEF ReuseInv, Reading, Read
<1> QED BY <1>1, <1>2, <1>3, <1>4, <1>5, <1>6, Steps

-----------------------------------------------------------------------------
(* What waits in the context. *)

LEMMA GroundedStays ==
  ASSUME Typed, [Next]_vars, NEW f, Grounded(f)
  PROVE  Grounded(f)'
<1>1. \A b \in AssetsOf[ClassIn(f.asset)] : b \in Assets
  BY DEF AssetsOf, ClassIn, Assets
<1> QED BY <1>1, BarsGrow DEF Grounded, NoLaterDay

\* The inputs of a vector, when an asset is decided.
LEMMA VectorIsSeen ==
  ASSUME Typed, ReadInv, PendingInv, pc = "decide",
         NEW a \in AssetsOf[run.part], SpotReady(a)
  PROVE  /\ {a, Benchmark[run.part]} \subseteq DOMAIN Vector(a)
         /\ \A b \in DOMAIN Vector(a) :
              /\ b \in AssetsOf[run.part] /\ Vector(a)[b] = run.seen[b]
              /\ run.seen[b] \subseteq bars[b]
              /\ \A d \in run.seen[b] : d <= run.cutoff
<1>1. run.part \in {"crypto", "equity"}
  BY DEF Typed
<1>2. \A b \in AssetsOf[run.part] :
        /\ run.seen[b] \subseteq bars[b]
        /\ run.part = "crypto" => \A d \in run.seen[b] : d <= run.cutoff
  BY DEF ReadInv, Reading, Read
<1>3. /\ DOMAIN Vector(a) = Peers \cup {a, Benchmark[run.part]}
      /\ \A b \in DOMAIN Vector(a) : Vector(a)[b] = run.seen[b]
  BY DEF Vector
<1>4. EndsAt(run.seen[a], run.cutoff) /\ EndsAt(run.seen[Benchmark[run.part]], run.cutoff)
  BY DEF SpotReady, PendingInv
<1>5. ASSUME NEW b \in DOMAIN Vector(a)
      PROVE  b \in AssetsOf[run.part] /\ \A d \in run.seen[b] : d <= run.cutoff
  <2>1. CASE b \in {a, Benchmark[run.part]}
    BY <1>1, <1>4, <2>1, ClassOfPart DEF EndsAt, IsLast
  <2>2. CASE b \in Peers
    <3>1. b \in AssetsOf[run.part] /\ (run.part = "equity" => IsLast(run.cutoff, run.seen[b]))
      BY <2>2 DEF Peers
    <3> QED BY <1>1, <1>2, <3>1 DEF IsLast
  <2> QED BY <1>3, <1>5, <2>1, <2>2
<1> QED BY <1>2, <1>3, <1>5

LEMMA SnapshotGrounded ==
  ASSUME Typed, ReadInv, PendingInv, pc = "decide",
         NEW a \in AssetsOf[run.part], SpotReady(a)
  PROVE  Grounded(Snapshot(a))
<1>1. ClassIn(a) = run.part /\ a \in Assets
  BY ClassOfPart DEF Typed
<1>2. /\ Snapshot(a).asset = a /\ Snapshot(a).day = run.cutoff
      /\ Snapshot(a).vector = Vector(a)
  BY DEF Snapshot
<1> QED BY <1>1, <1>2, VectorIsSeen DEF Grounded, NoLaterDay

LEMMA PredictionRight ==
  ASSUME Typed, ReadInv, ReuseInv, PendingInv, pc = "decide",
         NEW a \in AssetsOf[run.part], SpotReady(a), NEW m \in Models
  PROVE  /\ InputsEnd(Prediction(a, m)) /\ SnapshotPrecedes(Prediction(a, m))
         /\ Prediction(a, m).snapshot \in features \cup Created(a)
         /\ Prediction(a, m).model = m
         /\ Prediction(a, m).shadow = (run.flags[m] # "production")
<1> DEFINE p == Prediction(a, m)
<1>1. /\ p.asset = a /\ p.model = m /\ p.day = run.cutoff /\ p.vector = Vector(a)
      /\ p.shadow = (run.flags[m] # "production")
      /\ p.snapshot = IF StoredSnapshot(a) = {} THEN Snapshot(a)
                      ELSE CHOOSE f \in StoredSnapshot(a) : TRUE
  BY DEF Prediction, Stage
<1>2. ClassIn(a) = run.part
  BY ClassOfPart DEF Typed
<1>3. InputsEnd(p)
  <2>1. EndsAt(run.seen[a], run.cutoff) /\ EndsAt(run.seen[Benchmark[run.part]], run.cutoff)
    BY DEF SpotReady, PendingInv
  <2> HIDE DEF p
  <2> QED BY <1>1, <1>2, <2>1, VectorIsSeen DEF InputsEnd, NoLaterDay
<1>4. SnapshotPrecedes(p) /\ p.snapshot \in features \cup Created(a)
  <2>1. CASE StoredSnapshot(a) = {}
    <3>1. p.snapshot = Snapshot(a) /\ Snapshot(a) \in Created(a)
      BY <1>1, <2>1 DEF Created
    <3>2. /\ p.snapshot.asset = a /\ p.snapshot.day = run.cutoff
          /\ p.snapshot.vector = Vector(a)
      BY <3>1 DEF Snapshot
    <3>3. SameFeature(p, p.snapshot)
      BY <1>1, <3>2 DEF SameFeature
    <3>4. p.snapshot.vector = p.vector
      BY <1>1, <3>2
    <3> HIDE DEF p
    <3> QED BY <3>1, <3>3, <3>4 DEF SnapshotPrecedes
  <2>2. CASE StoredSnapshot(a) # {}
    <3>1. PICK f \in StoredSnapshot(a) : p.snapshot = f
      BY <1>1, <2>2
    <3>2. f \in features /\ f.asset = a /\ f.day = run.cutoff
      BY DEF StoredSnapshot
    <3>3. \A b \in AssetsOf[run.part] \cap DOMAIN f.vector : f.vector[b] \subseteq run.seen[b]
      BY <1>2, <3>2 DEF ReuseInv, Reading, Read
    <3>4. SameFeature(p, p.snapshot)
      BY <1>1, <3>1, <3>2 DEF SameFeature
    <3>5. ASSUME NEW b \in DOMAIN p.vector \cap DOMAIN p.snapshot.vector
          PROVE  p.snapshot.vector[b] \subseteq p.vector[b]
      <4>1. b \in AssetsOf[run.part] /\ p.vector[b] = run.seen[b]
        BY <1>1, VectorIsSeen
      <4> HIDE DEF p
      <4> QED BY <3>1, <3>3, <4>1
    <3>6. p.snapshot \in features
      BY <3>1, <3>2
    <3> HIDE DEF p
    <3> QED BY <3>4, <3>5, <3>6 DEF SnapshotPrecedes
  <2> QED BY <2>1, <2>2
<1> QED BY <1>1, <1>3, <1>4

LEMMA PendingInvStep ==
  ASSUME Typed, ReadInv, ReuseInv, PendingInv, [Next]_vars
  PROVE  PendingInv'
<1>1. CASE UNCHANGED <<tables, pc, run>>
  <2>1. \A f \in run.features : Grounded(f) => Grounded(f)'
    BY GroundedStays
  <2> QED BY <1>1, <2>1 DEF PendingInv, tables, InputsEnd, NoLaterDay, SnapshotPrecedes, EndsAt, IsLast
<1>2. CASE Ending
  BY <1>2, EndingFrame DEF PendingInv, Reading
<1>3. CASE ReadModels /\ ~Leave
  BY <1>3, ReadModelsFrame DEF PendingInv, ReadModels
<1>4. ASSUME NEW a \in Assets, Observe(a)
      PROVE  PendingInv'
  BY <1>4, ObserveFrame DEF PendingInv, Observe
<1>5. CASE Judge /\ ~Leave
  <2>1. pc = "observe" /\ pc' = "decide"
    BY <1>5 DEF Judge
  <2> QED BY <1>5, <2>1, JudgeFrame DEF PendingInv, EndsAt, IsLast
<1>6. ASSUME NEW a \in Assets, Decide(a)
      PROVE  PendingInv'
  <2>1. pc = "decide" /\ pc' = "decide" /\ UNCHANGED <<features, bars>>
    BY <1>6 DEF Decide, tables, market
  <2>2. a \in AssetsOf[run.part]
    BY <1>6, <2>1, NextAssetIsLeft DEF Decide, ReadInv, Reading
  <2>3. EndsAt(run'.seen[Benchmark[run'.part]], run'.cutoff)
    BY <1>6, <2>1, DecideFrame DEF PendingInv
  <2>4. ASSUME NEW f \in run'.features
        PROVE  Grounded(f)
    <3>1. CASE f \in run.features
      BY <2>1, <3>1 DEF PendingInv
    <3>2. CASE f \notin run.features
      <4>1. AssetReady(a) /\ f \in Created(a)
        BY <1>6, <2>4, <3>2, DecideFrame
      <4>2. SpotReady(a) /\ f = Snapshot(a)
        BY <4>1 DEF AssetReady, Created
      <4> QED BY <2>1, <2>2, <4>2, SnapshotGrounded
    <3> QED BY <3>1, <3>2
  <2>5. ASSUME NEW p \in run'.predictions
        PROVE  /\ InputsEnd(p) /\ SnapshotPrecedes(p)
               /\ p.snapshot \in features \cup run'.features
               /\ p.model \in Models /\ p.shadow = (run'.flags[p.model] # "production")
    <3>1. CASE p \in run.predictions
      BY <1>6, <2>1, <3>1, DecideFrame DEF PendingInv
    <3>2. CASE p \notin run.predictions
      <4>1. AssetReady(a) /\ run'.features = run.features \cup Created(a)
        BY <1>6, <2>5, <3>2, DecideFrame
      <4>2. PICK m \in Missing(a) : p = Prediction(a, m)
        BY <1>6, <2>5, <3>2, DecideFrame
      <4>3. SpotReady(a) /\ m \in Models
        BY <4>1, <4>2 DEF AssetReady, Missing
      <4> QED BY <1>6, <2>1, <2>2, <4>1, <4>2, <4>3, PredictionRight, DecideFrame
    <3> QED BY <3>1, <3>2
  <2> QED
    BY <2>1, <2>3, <2>4, <2>5 DEF PendingInv, Grounded, InputsEnd, NoLaterDay, SnapshotPrecedes,
      EndsAt, IsLast
<1> QED BY <1>1, <1>2, <1>3, <1>4, <1>5, <1>6, Steps

-----------------------------------------------------------------------------
(* The tables. *)

LEMMA Saved ==
  ASSUME [Next]_vars
  PROVE  \/ UNCHANGED tables
         \/ /\ pc = "decide"
            /\ features' = features \cup run.features
            /\ predictions' = predictions \cup run.predictions
<1>1. CASE Commit
  BY <1>1 DEF Commit, tables
<1>2. CASE ~Commit
  BY <1>2 DEF Next, Job, Fail, Start, ReadModels, Observe, Judge, Decide, NextDay, RegistryStep,
      CompleteDay, SaveDerivatives, vars, tables
<1> QED BY <1>1, <1>2

LEMMA TablesStep ==
  ASSUME Typed, IInv, [Next]_vars
  PROVE  Stored' /\ InputsEndAtCutoff' /\ SnapshotIsOfThePrediction'
<1>1. Stored'
  <2>1. \A f \in features' : Grounded(f)
    BY Saved DEF IInv, PendingInv, tables
  <2> QED BY <2>1, GroundedStays DEF Stored
<1>2. \A p \in predictions' :
        InputsEnd(p) /\ p.snapshot \in features' /\ SnapshotPrecedes(p)
  BY Saved DEF IInv, PendingInv, InputsEndAtCutoff, SnapshotIsOfThePrediction, tables
<1> QED
  BY <1>1, <1>2 DEF InputsEndAtCutoff, SnapshotIsOfThePrediction, InputsEnd, NoLaterDay,
    SnapshotPrecedes, EndsAt, IsLast

LEMMA PredictionInv == Spec => [](Typed /\ IInv)
<1>1. Init => Typed /\ IInv
  <2> SUFFICES ASSUME Init PROVE Typed /\ IInv
    OBVIOUS
  <2>1. run \in RunType /\ run.features = {} /\ run.predictions = {}
    BY DEF Init, NoRun, Run, RunType, Serving!Stages
  <2>2. bars \in [Assets -> SUBSET Int]
    BY FirstTypes
  <2>3. Typed
    BY <2>1, <2>2, RegistryConstants DEF Init, Typed
  <2>4. ~Reading /\ features = {} /\ predictions = {} /\ pc = "idle"
    BY DEF Init, Reading
  <2>5. served \subseteq SUBSET Models /\ Serving!Producing(flags) \in served
    BY DEF Init, Serving!Producing
  <2> QED
    BY <2>1, <2>3, <2>4, <2>5 DEF IInv, ReadInv, FlagsInv, ReuseInv, PendingInv, InputsEndAtCutoff,
      SnapshotIsOfThePrediction
<1>2. Typed /\ IInv /\ [Next /\ Record]_<<vars, served>> => (Typed /\ IInv)'
  <2> SUFFICES ASSUME Typed, IInv, [Next /\ Record]_<<vars, served>> PROVE (Typed /\ IInv)'
    OBVIOUS
  <2>1. [Next]_vars /\ Record
    BY StepOfSystem, StepIsRecorded DEF IInv
  <2> QED
    BY <2>1, TypedStep, ReadInvStep, FlagsInvStep, ReuseInvStep, PendingInvStep, TablesStep
      DEF IInv, Stored
<1> QED BY <1>1, <1>2, PTL DEF Spec

(***************************************************************************)
(* No saved prediction of the daily job has seen a day after its cutoff,   *)
(* and the cutoff's own day is among those of the asset and the benchmark. *)
(***************************************************************************)
THEOREM NoLookAhead == Spec => []InputsEndAtCutoff
<1>1. IInv => InputsEndAtCutoff
  BY DEF IInv
<1> QED BY <1>1, PredictionInv, PTL

(***************************************************************************)
(* The feature snapshot a prediction refers to is in the table, has its    *)
(* asset and time, and holds no day the prediction's vector lacks, though  *)
(* it may have been stored by an earlier run on fewer days.                *)
(***************************************************************************)
THEOREM SnapshotIsKept == Spec => []SnapshotIsOfThePrediction
<1>1. IInv => SnapshotIsOfThePrediction
  BY DEF IInv
<1> QED BY <1>1, PredictionInv, PTL

(***************************************************************************)
(* What one SaveChanges of the job publishes as production comes from      *)
(* models that were in production together, even when the registry demotes *)
(* and promotes meanwhile: not from a model and its successor.             *)
(***************************************************************************)
THEOREM OneModelPublishes == Spec => OneProductionModelPerRun
<1> DEFINE Published ==
      \E S \in served : \A p \in predictions' \ predictions : ~p.shadow => p.model \in S
<1>1. Typed /\ IInv /\ [Next /\ Record]_<<vars, served>> => [Published]_vars
  <2> SUFFICES ASSUME IInv, [Next]_vars PROVE Published
    BY StepOfSystem
  <2>1. CASE UNCHANGED tables
    <3>1. predictions' \ predictions = {}
      BY <2>1 DEF tables
    <3> QED BY <3>1 DEF IInv, FlagsInv
  <2>2. CASE pc = "decide" /\ predictions' = predictions \cup run.predictions
    <3>1. PICK S \in served : Serving!Producing(run.flags) \subseteq S
      BY <2>2 DEF IInv, FlagsInv, Reading
    <3>2. \A p \in run.predictions : ~p.shadow => p.model \in Serving!Producing(run.flags)
      BY <2>2 DEF IInv, PendingInv, Serving!Producing
    <3> QED BY <2>2, <3>1, <3>2
  <2> QED BY <2>1, <2>2, Saved
<1> QED BY <1>1, PredictionInv, PTL DEF Spec, OneProductionModelPerRun

-----------------------------------------------------------------------------
(* The days and the counters, and the derivative histories. *)

\* Time as far as the counters tell it.
TimeInv ==
  /\ day \in 1..LastDay /\ fires \in 0..Triggers[day]
  /\ events \in 0..MaxEvents

LEMMA TriggerFacts ==
  /\ LastDay \in Nat /\ MaxTriggers \in Nat /\ MaxEvents \in Nat
  /\ Earliest \in Int /\ Earliest <= 0 /\ 1 \in 1..LastDay
  /\ \A d \in 1..LastDay : Triggers[d] \in Nat /\ Triggers[d] <= MaxTriggers
<1>1. LastDay \in Nat \ {0} /\ MaxTriggers \in Nat /\ Triggers \in [1..LastDay -> 0..MaxTriggers]
  BY PredictionConstants
<1>2. \A d \in 1..LastDay : Triggers[d] \in 0..MaxTriggers
  BY <1>1
<1> QED BY <1>1, <1>2, PredictionConstants

LEMMA TimeStep ==
  ASSUME TimeInv, [Next]_vars
  PROVE  TimeInv'
<1>0. day \in Nat /\ fires \in Nat /\ fires <= Triggers[day] /\ Triggers[day] \in Nat
  BY TriggerFacts DEF TimeInv
<1>1. day' \in 1..LastDay /\ fires' \in 0..Triggers[day']
  <2>1. CASE NextDay
    <3>1. day' \in 1..LastDay /\ fires' = Triggers[day']
      BY <1>0, <2>1, TriggerFacts DEF NextDay, TimeInv
    <3>2. Triggers[day'] \in Nat
      BY <3>1, TriggerFacts
    <3> QED BY <3>1, <3>2
  <2>2. CASE Start
    <3>1. day' = day /\ fires' = fires - 1 /\ fires > 0
      BY <2>2 DEF Start
    <3> QED BY <1>0, <3>1 DEF TimeInv
  <2>3. CASE UNCHANGED <<day, fires>>
    BY <2>3 DEF TimeInv
  <2> QED
    BY <2>1, <2>2, <2>3 DEF Next, Job, Fail, ReadModels, Observe, Judge, Decide, Commit, RegistryStep,
      CompleteDay, SaveDerivatives, vars
<1>2. events' \in 0..MaxEvents
  <2>1. CASE UNCHANGED events
    BY <2>1 DEF TimeInv
  <2>2. CASE RegistryStep \/ Fail
    BY <2>2, TriggerFacts DEF RegistryStep, Fail, TimeInv
  <2> QED
    BY <2>1, <2>2 DEF Next, Job, Start, ReadModels, Observe, Judge, Decide, Commit, NextDay,
      CompleteDay, SaveDerivatives, vars
<1> QED BY <1>1, <1>2 DEF TimeInv

LEMMA TimeSums ==
  ASSUME NEW past \in Int, NEW most \in Nat, NEW f \in Nat, NEW g \in Nat,
         f <= most, g <= most, past >= most + 1
  PROVE  /\ past - f \in Int /\ 0 <= past - f
         /\ (past + (most + 1)) - g \in Int /\ past - f <= (past + (most + 1)) - g
         /\ g <= f => past - f <= past - g
OBVIOUS

LEMMA MidnightSums ==
  ASSUME NEW d \in Nat, NEW most \in Nat
  PROVE  /\ d * (most + 1) \in Int /\ (d + 1) * (most + 1) = d * (most + 1) + (most + 1)
         /\ d >= 1 => d * (most + 1) >= most + 1
OBVIOUS

\* A midnight is further on by a busiest day, less the triggers it brings.
LEMMA ClockGrows ==
  ASSUME TimeInv, [Next]_vars
  PROVE  Clock \in Int /\ Clock' \in Int /\ Clock <= Clock' /\ 0 <= Clock
<1>1. /\ day \in Nat /\ day >= 1 /\ fires \in Nat /\ fires <= MaxTriggers /\ MaxTriggers \in Nat
      /\ day' \in Nat /\ fires' \in Nat /\ fires' <= MaxTriggers
  BY TimeStep, TriggerFacts DEF TimeInv
<1>2. PICK past \in Int : past = day * (MaxTriggers + 1)
  BY <1>1, MidnightSums
<1>3. past >= MaxTriggers + 1 /\ (day + 1) * (MaxTriggers + 1) = past + (MaxTriggers + 1)
  BY <1>1, <1>2, MidnightSums
<1>4. CASE NextDay
  <2>1. day' = day + 1
    BY <1>4 DEF NextDay
  <2>2. Clock = past - fires
    BY <1>2 DEF Clock
  <2>3. Clock' = (past + (MaxTriggers + 1)) - fires'
    <3>1. Clock' = (day + 1) * (MaxTriggers + 1) - fires'
      BY <2>1 DEF Clock
    <3> QED BY <1>3, <3>1
  <2> QED BY <1>1, <1>3, <2>2, <2>3, TimeSums
<1>5. CASE day' = day /\ fires' <= fires
  <2>1. Clock = past - fires /\ Clock' = past - fires'
    BY <1>2, <1>5 DEF Clock
  <2> QED BY <1>1, <1>3, <1>5, <2>1, TimeSums
<1>6. NextDay \/ (day' = day /\ fires' <= fires)
  <2>1. CASE Start
    <3>1. day' = day /\ fires' = fires - 1
      BY <2>1 DEF Start
    <3> QED BY <1>1, <3>1
  <2>2. CASE UNCHANGED <<day, fires>>
    BY <1>1, <2>2
  <2> QED
    BY <2>1, <2>2 DEF Next, Job, Fail, ReadModels, Observe, Judge, Decide, Commit, RegistryStep,
      CompleteDay, SaveDerivatives, vars
<1> QED BY <1>4, <1>5, <1>6

LEMMA ClockNow ==
  ASSUME TimeInv
  PROVE  Clock \in Int
<1>1. /\ day \in Nat /\ fires \in Nat /\ MaxTriggers \in Nat
  BY TriggerFacts DEF TimeInv
<1>2. PICK past \in Int : past = day * (MaxTriggers + 1)
  BY <1>1, MidnightSums
<1> QED BY <1>1, <1>2 DEF Clock

\* The table of derivative rows: its types and its key.
RowsInv ==
  /\ rows \in [Crypto -> SUBSET [day : Int, source : Sources, at : Int]]
  /\ \A a \in Crypto : KeyedRows(rows[a])

LEMMA RowsStep ==
  ASSUME TimeInv, RowsInv, [Next]_vars
  PROVE  RowsInv' /\ \A a \in Crypto : rows[a] \subseteq rows'[a]
<1>1. CASE UNCHANGED rows
  BY <1>1 DEF RowsInv
<1>2. ASSUME NEW a \in Crypto, SaveDerivatives(a)
      PROVE  RowsInv' /\ \A b \in Crypto : rows[b] \subseteq rows'[b]
  <2> DEFINE row == [day |-> day, source |-> Live, at |-> Clock]
  <2>1. row \in [day : Int, source : Sources, at : Int]
    BY ClockGrows DEF TimeInv, Sources
  <2>2. rows' = [rows EXCEPT ![a] = @ \cup {row}] /\ \A r \in rows[a] : r.day # row.day
    BY <1>2 DEF SaveDerivatives
  <2>3. row.day \in Int /\ row.source \in Sources
    BY <2>1
  <2> HIDE DEF row
  <2>4. rows' \in [Crypto -> SUBSET [day : Int, source : Sources, at : Int]]
    BY <2>1, <2>2 DEF RowsInv
  <2>5. KeyedRows(rows[a] \cup {row})
    BY <2>2, <2>3 DEF RowsInv, KeyedRows
  <2>6. /\ rows'[a] = rows[a] \cup {row}
        /\ \A b \in Crypto \ {a} : rows'[b] = rows[b]
    BY <2>2 DEF RowsInv
  <2> QED BY <2>4, <2>5, <2>6 DEF RowsInv
<1> QED
  BY <1>1, <1>2 DEF Next, Job, Fail, Start, ReadModels, Observe, Judge, Decide, Commit, NextDay,
    RegistryStep, CompleteDay, vars, market

\* The history a prediction of a crypto asset rests on, as it was at a time.
Unbroken(a, cutoff, time) ==
  \A d \in Window(cutoff) : \E r \in rows[a] : r.day = d /\ r.at <= time
Rests(p) ==
  /\ p.made \in Int /\ 0 <= p.made /\ p.made <= Clock
  /\ p.asset \in Crypto => Unbroken(p.asset, p.day, p.made)

HistoryInv ==
  /\ pc # "idle" => run.now \in Int /\ 0 <= run.now /\ run.now <= Clock
  /\ \A p \in predictions \cup run.predictions : Rests(p)

\* Rows stay and time goes on, so an unbroken history stays one.
LEMMA RestsStay ==
  ASSUME TimeInv, RowsInv, [Next]_vars, NEW p, Rests(p)
  PROVE  Rests(p)'
<1>1. p.made \in Int /\ 0 <= p.made /\ p.made <= Clock'
  BY ClockGrows DEF Rests
<1>2. ASSUME p.asset \in Crypto
      PROVE  Unbroken(p.asset, p.day, p.made)'
  BY <1>2, RowsStep DEF Rests, Unbroken, Window
<1> QED BY <1>1, <1>2 DEF Rests

\* The time a run works with is that of its start.
LEMMA RunTime ==
  ASSUME Typed, TimeInv, HistoryInv, [Next]_vars, pc' # "idle"
  PROVE  run'.now \in Int /\ 0 <= run'.now /\ run'.now <= Clock'
<1>1. CASE Start
  <2>1. run'.now = Clock
    BY <1>1 DEF Start, Run
  <2> QED BY <2>1, ClockGrows
<1>2. CASE ~Start
  <2>0. pc # "idle"
    BY <1>2 DEF Next, Job, Fail, ReadModels, Observe, Judge, Decide, Commit, Abandon, NextDay,
      RegistryStep, CompleteDay, SaveDerivatives, vars
  <2>1. pc # "idle" /\ run'.now = run.now
    <3>1. CASE UNCHANGED <<pc, run>>
      BY <2>0, <3>1
    <3>2. CASE Leave
      BY <2>0, <3>2 DEF Leave, Run
    <3>3. CASE ReadModels /\ ~Leave
      BY <3>3 DEF ReadModels, Typed, RunType
    <3>4. CASE \E a \in Assets : Observe(a) \/ Decide(a)
      BY <3>4 DEF Observe, Decide, Typed, RunType
    <3>5. CASE Judge /\ ~Leave
      BY <3>5 DEF Judge, Typed, RunType
    <3>6. CASE Abandon
      BY <3>6 DEF Abandon
    <3> QED
      BY <1>2, <3>1, <3>2, <3>3, <3>4, <3>5, <3>6, ElsewhereFrame
         DEF Next, Job, Fail, Commit, Elsewhere, vars
  <2>2. run.now \in Int /\ 0 <= run.now /\ run.now <= Clock
    BY <2>1 DEF HistoryInv
  <2> QED BY <2>1, <2>2, ClockGrows
<1> QED BY <1>1, <1>2

LEMMA HistoryStep ==
  ASSUME Typed, IInv, TimeInv, RowsInv, HistoryInv, [Next]_vars
  PROVE  HistoryInv'
<1>1. \A p \in predictions' : Rests(p)
  BY Saved DEF HistoryInv, tables
<1>2. ASSUME NEW p \in run'.predictions
      PROVE  Rests(p)
  <2>1. CASE p \in run.predictions
    BY <2>1 DEF HistoryInv
  <2>2. CASE p \notin run.predictions
    <3>1. PICK a \in Assets : Decide(a)
      BY <1>2, <2>2, Steps, EndingFrame, ReadModelsFrame, ObserveFrame, JudgeFrame
    <3>2. AssetReady(a) /\ \E m \in Missing(a) : p = Prediction(a, m)
      BY <1>2, <2>2, <3>1, DecideFrame
    <3>3. /\ p.asset = a /\ p.day = run.cutoff /\ p.made = run.now
          /\ run.cutoff \in Int
      BY <3>2 DEF Prediction, Typed, RunType
    <3>4. ASSUME a \in Crypto
          PROVE  Unbroken(a, run.cutoff, run.now)
      <4>1. pc = "decide" /\ a \in AssetsOf[run.part]
        BY <3>1, NextAssetIsLeft DEF Decide, IInv, ReadInv, Reading
      <4>2. run.part = "crypto"
        BY <3>4, <4>1, PredictionConstants DEF AssetsOf, Typed
      <4>3. TryCreate(rows[a], run.cutoff, run.now)
        BY <3>2, <4>2 DEF AssetReady
      <4>4. KeyedRows(rows[a])
        BY <3>4 DEF RowsInv
      <4>5. \A d \in Window(run.cutoff) : \E r \in rows[a] : r.day = d /\ r.at <= run.now
        BY <3>3, <4>3, <4>4, AcceptedIsUnbroken
      <4> QED BY <4>5 DEF Unbroken
    <3>5. run.now \in Int /\ 0 <= run.now /\ run.now <= Clock
      BY <3>1 DEF Decide, HistoryInv
    <3> QED BY <3>3, <3>4, <3>5 DEF Rests
  <2> QED BY <2>1, <2>2
<1>3. \A p \in predictions' \cup run'.predictions : Rests(p)'
  BY <1>1, <1>2, RestsStay
<1> QED BY <1>3, RunTime DEF HistoryInv

LEMMA HistoryInvariant == Spec => [](TimeInv /\ RowsInv /\ HistoryInv)
<1>1. Init => TimeInv /\ RowsInv /\ HistoryInv
  <2> SUFFICES ASSUME Init PROVE TimeInv /\ RowsInv /\ HistoryInv
    OBVIOUS
  <2>1. TimeInv
    BY TriggerFacts DEF Init, TimeInv
  <2>3. ASSUME NEW a \in Crypto
        PROVE  rows[a] \in SUBSET [day : Int, source : Sources, at : Int] /\ KeyedRows(rows[a])
    <3>1. PICK days \in SUBSET Int : rows[a] = [day : days, source : {Archive}, at : {0}]
      BY FirstTypes
    <3>2. \A r \in rows[a] : /\ r.day \in Int /\ r.source = Archive
                            /\ r = [day |-> r.day, source |-> Archive, at |-> 0]
      BY <3>1
    <3>3. \A r, s \in rows[a] : r.day = s.day => r = s
      BY <3>2
    <3>4. rows[a] \subseteq [day : Int, source : Sources, at : Int]
      BY <3>2 DEF Sources
    <3> QED BY <3>2, <3>3, <3>4 DEF KeyedRows, Sources
  <2>4. rows \in [Crypto -> SUBSET [day : Int, source : Sources, at : Int]]
    <3>1. \E t \in FirstTables :
            rows = [a \in Crypto |-> [day : t.derivatives[a], source : {Archive}, at : {0}]]
      BY DEF Init
    <3> QED BY <2>3, <3>1
  <2>5. HistoryInv
    BY DEF Init, HistoryInv, NoRun, Run
  <2> QED BY <2>1, <2>3, <2>4, <2>5 DEF RowsInv
<1>2. Typed /\ IInv /\ TimeInv /\ RowsInv /\ HistoryInv /\ [Next /\ Record]_<<vars, served>>
        => (TimeInv /\ RowsInv /\ HistoryInv)'
  BY TimeStep, RowsStep, HistoryStep, StepOfSystem
<1> QED BY <1>1, <1>2, PredictionInv, PTL DEF Spec

(***************************************************************************)
(* Every prediction the daily job saves for a crypto asset rests on a      *)
(* window of days that each have a derivative row available at the         *)
(* inference time of its run, not merely when the run read the table: for  *)
(* every window length, every order in which rows arrive while runs go on, *)
(* and gaps anywhere.                                                      *)
(***************************************************************************)
THEOREM HistoriesAreUnbroken == Spec => []DerivativesWereUnbroken
<1>1. HistoryInv => DerivativesWereUnbroken
  BY DEF HistoryInv, Rests, Unbroken, DerivativesWereUnbroken
<1> QED BY <1>1, HistoryInvariant, PTL

(***************************************************************************)
(* The readiness test of the daily job turns no unbroken history away.     *)
(***************************************************************************)
THEOREM UnbrokenIsReady == Spec => []UnbrokenHistoryIsReady
<1>1. TimeInv /\ RowsInv => UnbrokenHistoryIsReady
  <2> SUFFICES ASSUME TimeInv, RowsInv, NEW a \in Crypto,
                      \A d \in Window(day) :
                        /\ \E r \in rows[a] : r.day = d
                        /\ \A r, s \in rows[a] : r.day = d /\ s.day = d => r = s /\ r.at <= Clock
               PROVE  TryCreate(rows[a], day, Clock)
    BY DEF UnbrokenHistoryIsReady
  <2>1. KeyedRows(rows[a]) /\ day \in Int
    BY DEF RowsInv, TimeInv
  <2> QED BY <2>1, UnbrokenIsAccepted
<1> QED BY <1>1, HistoryInvariant, PTL
-----------------------------------------------------------------------------
(* The unique indexes. *)

KeyedTables ==
  /\ \A f, g \in features : SameFeature(f, g) => f = g
  /\ \A p, q \in predictions : SamePrediction(p, q) => p = q

\* What waits in the context has keys of its own, those of assets already decided.
KeyedPending ==
  pc = "decide" =>
    /\ \A f \in run.features :
         /\ f.asset \notin run.left /\ f.day = run.cutoff
         /\ \A g \in features : ~SameFeature(f, g)
         /\ \A g \in run.features : SameFeature(f, g) => f = g
    /\ \A p \in run.predictions :
         /\ p.asset \notin run.left /\ p.day = run.cutoff
         /\ \A q \in predictions : ~SamePrediction(p, q)
         /\ \A q \in run.predictions : SamePrediction(p, q) => p = q

KeyInv == KeyedTables /\ KeyedPending

NeverRejected == pc = "decide" => ~Conflict

\* What a decision adds has not been looked up in vain.
LEMMA CreatedKeys ==
  ASSUME Typed, NEW a
  PROVE  /\ \A f \in Created(a) :
              /\ f.asset = a /\ f.day = run.cutoff
              /\ \A g \in features : ~SameFeature(f, g)
         /\ \A f, g \in Created(a) : f = g
<1>1. Snapshot(a).asset = a /\ Snapshot(a).day = run.cutoff
  BY DEF Snapshot
<1>2. \A f \in Created(a) : f = Snapshot(a) /\ StoredSnapshot(a) = {}
  BY DEF Created
<1>3. ASSUME NEW f \in Created(a), NEW g \in features, SameFeature(f, g)
      PROVE  FALSE
  <2>1. g \in StoredSnapshot(a)
    BY <1>1, <1>2, <1>3 DEF SameFeature, StoredSnapshot
  <2> QED BY <1>2, <1>3, <2>1
<1> QED BY <1>1, <1>2, <1>3

LEMMA MissingKeys ==
  ASSUME Typed, NEW a
  PROVE  /\ \A p \in {Prediction(a, m) : m \in Missing(a)} :
              /\ p.asset = a /\ p.day = run.cutoff
              /\ \A q \in predictions : ~SamePrediction(p, q)
         /\ \A p, q \in {Prediction(a, m) : m \in Missing(a)} : SamePrediction(p, q) => p = q
<1>1. \A m : /\ Prediction(a, m).asset = a /\ Prediction(a, m).day = run.cutoff
             /\ Prediction(a, m).model = m
  BY DEF Prediction
<1>2. ASSUME NEW m \in Missing(a), NEW q \in predictions, SamePrediction(Prediction(a, m), q)
      PROVE  FALSE
  BY <1>1, <1>2 DEF Missing, AlreadyExists, SamePrediction
<1>3. ASSUME NEW m \in Missing(a), NEW k \in Missing(a),
             SamePrediction(Prediction(a, m), Prediction(a, k))
      PROVE  m = k
  BY <1>1, <1>3 DEF SamePrediction
<1> QED BY <1>1, <1>2, <1>3

LEMMA KeysStep ==
  ASSUME Typed, IInv, KeyInv, [Next]_vars
  PROVE  KeyInv'
<1>1. KeyedTables'
  <2>1. CASE UNCHANGED tables
    BY <2>1 DEF tables, KeyInv, KeyedTables, SameFeature, SamePrediction
  <2>2. CASE /\ pc = "decide"
             /\ features' = features \cup run.features
             /\ predictions' = predictions \cup run.predictions
    BY <2>2 DEF KeyInv, KeyedTables, KeyedPending, SameFeature, SamePrediction
  <2> QED BY <2>1, <2>2, Saved
<1> SUFFICES KeyedPending'
  BY <1>1 DEF KeyInv
<1>2. CASE UNCHANGED <<tables, pc, run>>
  BY <1>2 DEF KeyInv, KeyedPending, tables, SameFeature, SamePrediction
<1>3. CASE Ending
  BY <1>3, EndingFrame DEF KeyedPending
<1>4. CASE ReadModels /\ ~Leave
  BY <1>4 DEF ReadModels, KeyedPending
<1>5. CASE \E a \in Assets : Observe(a)
  BY <1>5 DEF Observe, KeyedPending
<1>6. CASE Judge /\ ~Leave
  BY <1>6, JudgeFrame DEF Judge, IInv, PendingInv, KeyedPending
<1>7. ASSUME NEW a \in Assets, Decide(a)
      PROVE  KeyedPending'
  <2>1. /\ pc = "decide" /\ UNCHANGED tables /\ a \in run.left /\ run'.left = run.left \ {a}
        /\ run'.cutoff = run.cutoff
    BY <1>7, NextAssetIsLeft, DecideFrame DEF Decide, Typed, RunType
  <2>2. CASE run'.features = run.features /\ run'.predictions = run.predictions
    BY <2>1, <2>2 DEF KeyInv, KeyedPending, tables, SameFeature, SamePrediction
  <2>3. CASE /\ run'.features = run.features \cup Created(a)
             /\ run'.predictions = run.predictions \cup {Prediction(a, m) : m \in Missing(a)}
    <3>1. \A f \in run'.features :
            /\ f.asset \notin run'.left /\ f.day = run'.cutoff
            /\ \A g \in features' : ~SameFeature(f, g)
            /\ \A g \in run'.features : SameFeature(f, g) => f = g
      BY <2>1, <2>3, CreatedKeys DEF KeyInv, KeyedPending, tables, SameFeature
    <3>2. \A p \in run'.predictions :
            /\ p.asset \notin run'.left /\ p.day = run'.cutoff
            /\ \A q \in predictions' : ~SamePrediction(p, q)
            /\ \A q \in run'.predictions : SamePrediction(p, q) => p = q
      <4> DEFINE new == {Prediction(a, m) : m \in Missing(a)}
      <4>1. /\ \A p \in new : /\ p.asset = a /\ p.day = run.cutoff
                              /\ \A q \in predictions : ~SamePrediction(p, q)
            /\ \A p, q \in new : SamePrediction(p, q) => p = q
        BY MissingKeys
      <4>2. run'.predictions = run.predictions \cup new
        BY <2>3
      <4> HIDE DEF new
      <4> QED BY <2>1, <4>1, <4>2 DEF KeyInv, KeyedPending, tables, SamePrediction
    <3> QED BY <3>1, <3>2 DEF KeyedPending, SameFeature, SamePrediction
  <2> QED BY <1>7, <2>2, <2>3, DecideFrame
<1> QED BY <1>2, <1>3, <1>4, <1>5, <1>6, <1>7, Steps

(***************************************************************************)
(* The two tables keep one row per key, and no save of the daily job is    *)
(* ever rejected: the look-up before each insert, the asset decided once   *)
(* and the reruns of a day never meet the unique indexes, so no part is    *)
(* lost as a whole because of one row.                                     *)
(***************************************************************************)
THEOREM SavesAreNeverRejected == Spec => [](KeyedTables /\ NeverRejected)
<1>1. Init => KeyInv
  BY DEF Init, KeyInv, KeyedTables, KeyedPending
<1>2. Typed /\ IInv /\ KeyInv /\ [Next /\ Record]_<<vars, served>> => KeyInv'
  BY KeysStep, StepOfSystem
<1>3. KeyInv => KeyedTables /\ NeverRejected
  BY DEF KeyInv, KeyedPending, NeverRejected, Conflict
<1> QED BY <1>1, <1>2, <1>3, PredictionInv, PTL DEF Spec

-----------------------------------------------------------------------------
(* Type correctness. *)

FeatureType(f) == f.asset \in Assets /\ f.day \in Earliest..day /\ f.vector \in Vectors
PredictionType(p) ==
  /\ p.asset \in Assets /\ p.model \in Models /\ p.day \in Earliest..day
  /\ p.shadow \in BOOLEAN /\ p.vector \in Vectors

\* What the types of the tables rest on: the days a run has seen and its cutoff.
ShapeInv ==
  /\ bars \in [Assets -> SUBSET Days] /\ run.seen \in [Assets -> SUBSET Days]
  /\ pc # "idle" => run.started \in Earliest..day /\ run.cutoff \in Earliest..day
  /\ \A f \in features \cup run.features : FeatureType(f)
  /\ \A p \in predictions \cup run.predictions : PredictionType(p)

PlaceInv ==
  /\ pc \in {"idle", "read", "observe", "decide"}
  /\ pc = "idle" <=> run = NoRun

LEMMA PlaceStep ==
  ASSUME Typed, PlaceInv, [Next]_vars
  PROVE  PlaceInv'
<1>1. NoRun.part = "none" /\ \A now, cutoff : Run("equity", now, cutoff).part = "equity"
  BY DEF NoRun, Run
<1>2. CASE Start
  <2>1. run'.part = "crypto" /\ pc' = "read"
    BY <1>2 DEF Start, Run
  <2> QED BY <1>1, <2>1 DEF PlaceInv, NoRun, Run
<1>3. CASE Leave
  <2>1. CASE pc' = "read" /\ run' = Run("equity", run.now, run.started)
    <3>1. run'.part = "equity"
      BY <2>1 DEF Run
    <3> QED BY <1>1, <2>1, <3>1 DEF PlaceInv, NoRun, Run
  <2>2. CASE pc' = "idle" /\ run' = NoRun
    BY <2>2 DEF PlaceInv, NoRun, Run
  <2> QED BY <1>3, <2>1, <2>2 DEF Leave
<1>4. CASE Abandon
  BY <1>4 DEF Abandon, PlaceInv, NoRun, Run
<1>5. CASE \/ ReadModels /\ ~Leave
           \/ Judge /\ ~Leave
           \/ \E a \in Assets : Observe(a) \/ Decide(a)
  <2>1. pc # "idle" /\ run'.part = run.part /\ pc' \in {"observe", "decide"}
    BY <1>5, ReadModelsFrame, JudgeFrame, ObserveFrame, DecideFrame
       DEF ReadModels, Judge, Observe, Decide
  <2>2. run'.part # "none"
    BY <2>1 DEF Typed
  <2> QED BY <1>1, <2>1, <2>2 DEF PlaceInv, NoRun, Run
<1>6. CASE UNCHANGED <<pc, run>>
  BY <1>6 DEF PlaceInv, NoRun, Run
<1> QED BY <1>2, <1>3, <1>4, <1>5, <1>6, Steps DEF Ending

LEMMA DaysPass ==
  ASSUME TimeInv, [Next]_vars
  PROVE  day \in Nat /\ day' \in Nat /\ day <= day'
<1>1. day \in Nat
  BY TriggerFacts DEF TimeInv
<1>2. CASE NextDay
  <2>1. day' = day + 1
    BY <1>2 DEF NextDay
  <2> QED BY <1>1, <2>1
<1>3. CASE UNCHANGED day
  BY <1>1, <1>3
<1> QED
  BY <1>2, <1>3 DEF Next, Job, Fail, Start, ReadModels, Observe, Judge, Decide, Commit, RegistryStep,
      CompleteDay, SaveDerivatives, vars

LEMMA ShapesStay ==
  ASSUME TimeInv, [Next]_vars
  PROVE  /\ \A f : FeatureType(f) => FeatureType(f)'
         /\ \A p : PredictionType(p) => PredictionType(p)'
         /\ Earliest..day \subseteq Earliest..day'
<1>1. Earliest..day \subseteq Earliest..day'
  BY DaysPass, TriggerFacts
<1> QED BY <1>1 DEF FeatureType, PredictionType, Vectors

LEMMA BarsTyped ==
  ASSUME TimeInv, ShapeInv, [Next]_vars
  PROVE  bars' \in [Assets -> SUBSET Days]
<1>1. CASE UNCHANGED bars
  BY <1>1 DEF ShapeInv
<1>2. CASE \E a \in Assets : CompleteDay(a)
  <2>1. PICK a \in Assets, d \in 1..day : bars' = [bars EXCEPT ![a] = @ \cup {d}]
    BY <1>2 DEF CompleteDay
  <2>2. d \in Days
    BY TriggerFacts DEF TimeInv, Days
  <2> QED BY <2>1, <2>2 DEF ShapeInv
<1> QED
  BY <1>1, <1>2 DEF Next, Job, Fail, Start, ReadModels, Observe, Judge, Decide, Commit, NextDay,
    RegistryStep, SaveDerivatives, vars, market

\* A run's days and its cutoff.
LEMMA SeenTyped ==
  ASSUME Typed, TimeInv, ShapeInv, [Next]_vars
  PROVE  /\ run'.seen \in [Assets -> SUBSET Days]
         /\ pc' # "idle" => run'.started \in Earliest..day' /\ run'.cutoff \in Earliest..day'
<1>1. CASE UNCHANGED <<pc, run>>
  BY <1>1, ShapesStay DEF ShapeInv
<1>2. CASE Start
  <2>1. run'.seen = [a \in Assets |-> {}] /\ run'.started = day /\ run'.cutoff = day
    BY <1>2 DEF Start, Run
  <2>2. day \in Earliest..day
    BY DaysPass, TriggerFacts
  <2> QED BY <2>1, <2>2, ShapesStay
<1>3. CASE Leave
  <2>1. run'.seen = [a \in Assets |-> {}]
    BY <1>3 DEF Leave, NoRun, Run
  <2>2. ASSUME pc' # "idle"
        PROVE  run'.started = run.started /\ run'.cutoff = run.started /\ run.part = "crypto"
    BY <1>3, <2>2 DEF Leave, Run
  <2>3. pc # "idle" \/ pc' = "idle" \/ Start
    BY DEF Next, Job, Fail, ReadModels, Observe, Judge, Decide, Commit, Abandon, NextDay, RegistryStep,
      CompleteDay, SaveDerivatives, vars
  <2> QED BY <1>2, <2>1, <2>2, <2>3, ShapesStay DEF ShapeInv
<1>4. CASE Abandon
  BY <1>4 DEF Abandon, NoRun, Run
<1>5. CASE ReadModels /\ ~Leave
  <2>1. run'.seen = run.seen /\ run'.started = run.started /\ run'.cutoff = run.cutoff
    BY <1>5 DEF ReadModels, Typed, RunType
  <2> QED BY <1>5, <2>1, ShapesStay DEF ShapeInv, ReadModels
<1>6. ASSUME NEW a \in Assets, Observe(a)
      PROVE  /\ run'.seen \in [Assets -> SUBSET Days]
             /\ run'.started \in Earliest..day' /\ run'.cutoff \in Earliest..day'
  <2>1. Observed(a) \in SUBSET Days
    BY DEF Observed, ShapeInv
  <2>2. run'.started = run.started /\ pc # "idle"
    BY <1>6 DEF Observe, Typed, RunType
  <2> QED BY <1>6, <2>1, <2>2, ObserveFrame, ShapesStay DEF ShapeInv
<1>7. CASE Judge /\ ~Leave
  <2>1. run'.started = run.started /\ pc # "idle" /\ run.started \in Earliest..day
    BY <1>7 DEF Judge, Typed, RunType, ShapeInv
  <2>2. run'.cutoff \in Int /\ run'.cutoff <= run.started
    BY <1>7, TypedStep DEF Judge, Typed, RunType, BenchmarkReady
  <2>3. run.seen[Benchmark[run.part]] \in SUBSET Days
    <3>1. run.part \in {"crypto", "equity"} /\ Benchmark[run.part] \in Assets
      BY <2>1, PredictionConstants DEF Typed, Benchmark, Assets
    <3> QED BY <3>1 DEF ShapeInv
  <2>4. run'.cutoff \in Days
    BY <1>7, <2>3, JudgeFrame DEF EndsAt, IsLast
  <2>5. run'.cutoff \in Earliest..day
    BY <2>1, <2>2, <2>4, DaysPass, TriggerFacts DEF Days
  <2> QED BY <1>7, <2>1, <2>5, JudgeFrame, ShapesStay DEF ShapeInv
<1>8. ASSUME NEW a \in Assets, Decide(a)
      PROVE  /\ run'.seen \in [Assets -> SUBSET Days]
             /\ run'.started \in Earliest..day' /\ run'.cutoff \in Earliest..day'
  <2>1. run'.started = run.started /\ pc # "idle"
    BY <1>8 DEF Decide, Typed, RunType
  <2> QED BY <1>8, <2>1, DecideFrame, ShapesStay DEF ShapeInv
<1> QED BY <1>1, <1>2, <1>3, <1>4, <1>5, <1>6, <1>7, <1>8, Steps DEF Ending

\* What is decided has the types of the tables.
LEMMA VectorTyped ==
  ASSUME Typed, ShapeInv, NEW a \in AssetsOf[run.part], pc = "decide"
  PROVE  Vector(a) \in Vectors
<1>1. Peers \cup {a, Benchmark[run.part]} \in SUBSET Assets
  BY ClassOfPart DEF Peers, Typed
<1>2. \A b \in Assets : run.seen[b] \in SUBSET Days
  BY DEF ShapeInv
<1>3. Vector(a) \in [Peers \cup {a, Benchmark[run.part]} -> SUBSET Days]
  BY <1>1, <1>2 DEF Vector
<1> QED BY <1>1, <1>3 DEF Vectors

LEMMA SnapshotTyped ==
  ASSUME Typed, ShapeInv, pc = "decide", NEW a \in AssetsOf[run.part]
  PROVE  FeatureType(Snapshot(a))
<1>1. a \in Assets /\ run.cutoff \in Earliest..day /\ Vector(a) \in Vectors
  BY ClassOfPart, VectorTyped DEF Typed, ShapeInv
<1>2. /\ Snapshot(a).asset = a /\ Snapshot(a).day = run.cutoff
      /\ Snapshot(a).vector = Vector(a)
  BY DEF Snapshot
<1> QED BY <1>1, <1>2 DEF FeatureType

LEMMA PredictionTyped ==
  ASSUME Typed, ShapeInv, pc = "decide", NEW a \in AssetsOf[run.part], NEW m \in Models
  PROVE  PredictionType(Prediction(a, m))
<1>1. a \in Assets /\ run.cutoff \in Earliest..day /\ Vector(a) \in Vectors
  BY ClassOfPart, VectorTyped DEF Typed, ShapeInv
<1> DEFINE p == Prediction(a, m)
<1>2. /\ p.asset = a /\ p.model = m /\ p.day = run.cutoff /\ p.vector = Vector(a)
      /\ p.shadow = (Stage(m) # "production")
  BY DEF Prediction
<1> HIDE DEF p
<1>3. PredictionType(p)
  BY <1>1, <1>2 DEF PredictionType
<1> QED BY <1>3 DEF p

LEMMA ShapeStep ==
  ASSUME Typed, IInv, TimeInv, ShapeInv, [Next]_vars
  PROVE  ShapeInv'
<1>1. /\ \A f \in features' : FeatureType(f)
      /\ \A p \in predictions' : PredictionType(p)
  BY Saved DEF ShapeInv, tables
<1>2. CASE UNCHANGED run
  BY <1>1, <1>2, BarsTyped, SeenTyped, ShapesStay DEF ShapeInv
<1>3. CASE run'.features = {} /\ run'.predictions = {}
  BY <1>1, <1>3, BarsTyped, SeenTyped, ShapesStay DEF ShapeInv
<1>4. CASE UNCHANGED <<run.features, run.predictions>>
  BY <1>1, <1>4, BarsTyped, SeenTyped, ShapesStay DEF ShapeInv
<1>5. ASSUME NEW a \in Assets, Decide(a),
             run'.features = run.features \cup Created(a),
             run'.predictions = run.predictions \cup {Prediction(a, m) : m \in Missing(a)}
      PROVE  ShapeInv'
  <2>1. pc = "decide" /\ a \in AssetsOf[run.part]
    BY <1>5, NextAssetIsLeft DEF Decide, IInv, ReadInv, Reading
  <2>2. \A p \in run'.predictions : PredictionType(p)
    BY <1>5, <2>1, PredictionTyped DEF Missing, ShapeInv
  <2>3. \A f \in Created(a) : FeatureType(f)
    BY <2>1, SnapshotTyped DEF Created
  <2>4. \A f \in run'.features : FeatureType(f)
    BY <1>5, <2>3 DEF ShapeInv
  <2> QED BY <1>1, <2>2, <2>4, BarsTyped, SeenTyped, ShapesStay DEF ShapeInv
<1> QED
  BY <1>2, <1>3, <1>4, <1>5, Steps, EndingFrame, ReadModelsFrame, ObserveFrame, JudgeFrame,
     DecideFrame

(***************************************************************************)
(* The two tables and the job keep their types: no prediction or snapshot  *)
(* has a day after the midnight it was made at, or before the model's      *)
(* time, whatever day SPY's last session was.                              *)
(***************************************************************************)
THEOREM DailyTypes == Spec => []TypeOK
<1>1. Init => ShapeInv /\ PlaceInv
  <2> SUFFICES ASSUME Init PROVE ShapeInv /\ PlaceInv
    OBVIOUS
  <2>1. \A S \in SUBSET (Earliest..0) : S \in SUBSET Days
    BY TriggerFacts DEF Days
  <2>2. bars \in [Assets -> SUBSET Days]
    BY <2>1, FirstTypes
  <2>3. /\ run.seen = [a \in Assets |-> {}] /\ run.features = {} /\ run.predictions = {}
        /\ pc = "idle" /\ run = NoRun /\ features = {} /\ predictions = {}
    BY DEF Init, NoRun, Run
  <2>4. run.seen \in [Assets -> SUBSET Days]
    BY <2>3
  <2>5. ShapeInv
    BY <2>2, <2>3, <2>4 DEF ShapeInv
  <2>6. PlaceInv
    BY <2>3 DEF PlaceInv
  <2> QED BY <2>5, <2>6
<1>2. Typed /\ IInv /\ TimeInv /\ ShapeInv /\ PlaceInv /\ [Next /\ Record]_<<vars, served>>
        => (ShapeInv /\ PlaceInv)'
  BY ShapeStep, PlaceStep, StepOfSystem
<1>3. Typed /\ IInv /\ TimeInv /\ RowsInv /\ HistoryInv /\ ShapeInv /\ PlaceInv => TypeOK
  <2> SUFFICES ASSUME Typed, IInv, TimeInv, RowsInv, HistoryInv, ShapeInv, PlaceInv PROVE TypeOK
    OBVIOUS
  <2>1. DOMAIN rows = Crypto
    BY DEF RowsInv
  <2>2. bars \in [Assets -> SUBSET Days]
    BY DEF ShapeInv
  <2>3. /\ \A f \in features : FeatureType(f)
        /\ \A p \in predictions : PredictionType(p)
    BY DEF ShapeInv
  <2>4. Clock \in Int
    BY ClockNow
  <2>5. \A p \in predictions : p.made \in 0..Clock
    BY <2>4 DEF HistoryInv, Rests
  <2> QED BY <2>1, <2>2, <2>3, <2>5 DEF Typed, IInv, FlagsInv, TimeInv, PlaceInv, TypeOK,
          FeatureType, PredictionType
<1> QED BY <1>1, <1>2, <1>3, PredictionInv, HistoryInvariant, PTL DEF Spec
=============================================================================
