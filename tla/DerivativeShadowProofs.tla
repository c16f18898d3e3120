----------------------- MODULE DerivativeShadowProofs ------------------------
(***************************************************************************)
(* Theorems about DerivativeShadow for all sets of assets, windows, clock  *)
(* errors and faults: what a succeeded run has collected, what the         *)
(* collector may have stored, and what the table keeps under its writers.  *)
(***************************************************************************)
EXTENDS DerivativeShadow, TLAPS, WellFoundedInduction

\* An asset of a run that has passed its clock check is somewhere.
Accounted(a) ==
  \/ a \in left \/ a \in pending
  \/ pc \in {"fetch", "save"} /\ a = asset
  \/ Stored(a, run.day, Live)

InRun == pc \in {"assets", "fetch", "save"}

(***************************************************************************)
(* A run forgets no asset between its checks, and a finished one that      *)
(* succeeded has none that is not stored.                                  *)
(***************************************************************************)
RunInv ==
  /\ pc # "idle" => status = "running"
  /\ InRun => \A a \in Assets : Accounted(a)
  /\ SucceededMeansComplete

\* No step takes a key out of the table.
LEMMA KeysStay ==
  ASSUME [Next]_vars, NEW a, NEW day, NEW source, Stored(a, day, source)
  PROVE  Stored(a, day, source)'
<1>1. CASE rows \subseteq rows'
  BY <1>1 DEF Stored
<1>2. CASE BootWrite
  <2>1. PICK r \in rows : r.asset = a /\ r.day = day /\ r.source = source
    BY DEF Stored
  <2>2. CASE r \in rows'
    BY <2>1, <2>2 DEF Stored
  <2>3. CASE r \notin rows'
    <3>1. PICK s \in boot : SameKey(r, s)
      BY <1>2, <2>3 DEF BootWrite
    <3>2. s \in rows'
      BY <1>2 DEF BootWrite
    <3> QED BY <2>1, <3>1, <3>2 DEF SameKey, Stored
  <2> QED BY <2>2, <2>3
<1>3. rows \subseteq rows' \/ BootWrite
  BY DEF Next, vars, JobStep, Tick, Delay, Adjust, Publish, Return, Start, SkewTooLarge, Defer,
    Proceed, Skip, Visit, Fetch, Postpone, Save, Conflict, Finish, Fail, Crash, BootRead
<1> QED BY <1>1, <1>2, <1>3

\* Steps of the world and of the bootstrap leave the run alone.
OtherStep == Tick \/ Delay \/ Adjust \/ (\E a \in Assets : Publish(a)) \/ BootRead \/ BootWrite

LEMMA OtherStepFrame == OtherStep => UNCHANGED <<pc, run, status, left, asset, pending, at>>
BY DEF OtherStep, Tick, Delay, Adjust, Publish, BootRead, BootWrite, work

LEMMA InitRunInv == Init => RunInv
BY DEF Init, RunInv, InRun, SucceededMeansComplete

LEMMA RunInvStep ==
  ASSUME RunInv, [Next]_vars
  PROVE  RunInv'
<1>1. ASSUME NEW a, NEW day, Stored(a, day, Live) PROVE Stored(a, day, Live)'
  BY <1>1, KeysStay
<1>2. CASE UNCHANGED vars \/ OtherStep \/ Return
  <2>1. UNCHANGED <<pc, run, status, left, asset, pending>>
    BY <1>2, OtherStepFrame DEF vars, work, Return
  <2> QED BY <1>1, <2>1 DEF RunInv, InRun, Accounted, SucceededMeansComplete, Stored
<1>3. CASE Start
  BY <1>3 DEF Start, RunInv, InRun, SucceededMeansComplete
<1>4. CASE SkewTooLarge \/ Defer \/ Conflict \/ Fail \/ Crash
  <2>1. pc' = "idle" /\ status' \in {"failed", "deferred", "running"}
    BY <1>4 DEF SkewTooLarge, Defer, Conflict, Fail, Crash, EndRun
  <2> QED BY <2>1 DEF RunInv, InRun, SucceededMeansComplete
<1>5. CASE Proceed
  BY <1>5 DEF Proceed, RunInv, InRun, Accounted, SucceededMeansComplete
<1>6. ASSUME NEW a \in Assets, Skip(a) PROVE RunInv'
  <2>1. /\ pc = "assets" /\ UNCHANGED <<pc, run, status, asset, pending, rows>>
        /\ left' = left \ {a} /\ Stored(a, run.day, Live)
    BY <1>6 DEF Skip, Collected
  <2>2. \A b \in Assets : Accounted(b)'
    BY <2>1 DEF RunInv, InRun, Accounted, Stored
  <2> QED BY <2>1, <2>2 DEF RunInv, InRun, SucceededMeansComplete
<1>7. ASSUME NEW a \in Assets, Visit(a) PROVE RunInv'
  <2>1. /\ pc = "assets" /\ pc' = "fetch" /\ UNCHANGED <<run, status, pending, rows>>
        /\ left' = left \ {a} /\ asset' = a
    BY <1>7 DEF Visit
  <2>2. \A b \in Assets : Accounted(b)'
    BY <2>1 DEF RunInv, InRun, Accounted, Stored
  <2> QED BY <2>1, <2>2 DEF RunInv, InRun, SucceededMeansComplete
<1>8. CASE Fetch
  <2>1. /\ pc = "fetch" /\ pc' = "save" /\ UNCHANGED <<run, status, left, asset, pending, rows>>
    BY <1>8 DEF Fetch
  <2>2. \A b \in Assets : Accounted(b)'
    BY <2>1 DEF RunInv, InRun, Accounted, Stored
  <2> QED BY <2>1, <2>2 DEF RunInv, InRun, SucceededMeansComplete
<1>9. CASE Postpone
  <2>1. /\ pc = "fetch" /\ pc' = "assets" /\ UNCHANGED <<run, status, left, rows>>
        /\ pending' = pending \cup {asset}
    BY <1>9 DEF Postpone, Postponed
  <2>2. \A b \in Assets : Accounted(b)'
    BY <2>1 DEF RunInv, InRun, Accounted, Stored
  <2> QED BY <2>1, <2>2 DEF RunInv, InRun, SucceededMeansComplete
<1>10. CASE Save
  <2>1. /\ pc = "save" /\ pc' = "assets" /\ UNCHANGED <<run, status, left, pending>>
        /\ rows' = rows \cup {Row(asset, run.day, Live, at)}
    BY <1>10 DEF Save
  <2>2. \E r \in rows' : r.asset = asset /\ r.day = run.day /\ r.source = Live
    <3> DEFINE new == Row(asset, run.day, Live, at)
    <3>1. new \in rows' /\ new.asset = asset /\ new.day = run.day /\ new.source = Live
      BY <2>1 DEF Row
    <3> QED BY <3>1
  <2>3. ASSUME NEW b \in Assets PROVE Accounted(b)'
    <3>1. CASE b \in left \/ b \in pending
      BY <2>1, <3>1 DEF Accounted
    <3>2. CASE b = asset
      BY <2>1, <2>2, <3>2 DEF Accounted, Stored
    <3>3. CASE Stored(b, run.day, Live)
      BY <2>1, <3>3 DEF Accounted, Stored
    <3> QED BY <2>1, <3>1, <3>2, <3>3 DEF RunInv, InRun, Accounted
  <2>4. status' = "running"
    BY <2>1 DEF RunInv
  <2> QED BY <2>1, <2>3, <2>4 DEF RunInv, InRun, SucceededMeansComplete
<1>11. CASE Finish
  <2>1. /\ pc = "assets" /\ left = {} /\ pc' = "idle" /\ UNCHANGED <<run, rows>>
        /\ status' = IF pending = {} THEN "succeeded" ELSE "deferred"
    BY <1>11 DEF Finish, EndRun
  <2>2. pending = {} => \A a \in Assets : Stored(a, run.day, Live)
    BY <2>1 DEF RunInv, InRun, Accounted
  <2> QED BY <2>1, <2>2 DEF RunInv, InRun, SucceededMeansComplete, Stored
<1> QED
  BY <1>2, <1>3, <1>4, <1>5, <1>6, <1>7, <1>8, <1>9, <1>10, <1>11
     DEF Next, JobStep, OtherStep

(***************************************************************************)
(* A run DerivativeShadowCollectorJob records as succeeded has a row for   *)
(* every asset, for any number of assets, faults and bootstraps.           *)
(***************************************************************************)
THEOREM SucceededRunIsComplete == Spec => []SucceededMeansComplete
<1>1. RunInv /\ [Next]_vars => RunInv'
  BY RunInvStep
<1>2. RunInv => SucceededMeansComplete
  BY DEF RunInv
<1> QED BY InitRunInv, <1>1, <1>2, PTL DEF Spec
-----------------------------------------------------------------------------
(***************************************************************************)
(* Why only whole days are stored: once a run has read the server's time   *)
(* the window is open, and stays so, and what it is about to save has been *)
(* published.                                                              *)
(***************************************************************************)
WholeInv ==
  /\ clock \in Int /\ drift \in Int /\ published \in [Assets -> Int] /\ run.day \in Int
  /\ InRun => clock >= Opens(run.day)
  /\ pc \in {"fetch", "save"} => asset \in Assets
  /\ pc = "save" => published[asset] >= run.day

LEMMA CollectorFacts ==
  /\ DayLength \in Nat \ {0} /\ OpensAt \in Nat /\ ClosesAt \in Nat
  /\ Drifts \subseteq Int /\ LastDay \in Nat /\ MaxFaults \in Nat
BY CollectorConstants

LEMMA DaysAreNumbers == \A t \in Int : CutoffOf(t) \in Int /\ Opens(t) \in Int
BY CollectorFacts DEF CutoffOf, Opens

LEMMA InitWholeInv == Init => WholeInv
BY CollectorFacts DEF Init, WholeInv, InRun, NoRun

LEMMA WholeInvWorld ==
  ASSUME WholeInv, OtherStep PROVE WholeInv'
<1>1. UNCHANGED <<pc, run, asset>>
  BY OtherStepFrame
<1>2. clock' \in Int /\ clock' >= clock /\ drift' \in Int
  BY CollectorFacts DEF OtherStep, WholeInv, Tick, Delay, Adjust, Publish, BootRead, BootWrite, world
<1>3. /\ published' \in [Assets -> Int]
      /\ \A a \in Assets : published'[a] >= published[a]
  <2>1. CASE \E a \in Assets : Publish(a)
    <3>1. PICK a \in Assets : Publish(a)
      BY <2>1
    <3>2. CutoffOf(clock) \in Int
      BY DaysAreNumbers DEF WholeInv
    <3> QED BY <3>1, <3>2 DEF Publish, WholeInv
  <2>2. CASE UNCHANGED published
    BY <2>2 DEF WholeInv
  <2> QED BY <2>1, <2>2 DEF OtherStep, Tick, Delay, Adjust, BootRead, BootWrite, world
<1>4. Opens(run.day) \in Int /\ Opens(run.day)' = Opens(run.day)
  BY <1>1, DaysAreNumbers DEF WholeInv, Opens
<1>5. InRun' => clock' >= Opens(run.day)'
  BY <1>1, <1>2, <1>4 DEF WholeInv, InRun
<1>6. pc' = "save" => published'[asset'] >= run'.day
  BY <1>1, <1>3 DEF WholeInv
<1> QED BY <1>1, <1>2, <1>3, <1>5, <1>6 DEF WholeInv

LEMMA WholeInvJob ==
  ASSUME WholeInv, JobStep \/ Fail \/ Crash PROVE WholeInv'
<1>1. UNCHANGED world
  BY DEF JobStep, Return, Start, SkewTooLarge, Defer, Proceed, Skip, Visit, Fetch, Postpone, Save,
    Conflict, Finish, Fail, Crash
<1>2. clock' = clock /\ drift' = drift /\ published' = published
  BY <1>1 DEF world
<1>3. CASE Return
  BY <1>2, <1>3 DEF Return, work, WholeInv, InRun, Opens
<1>4. CASE Start
  <2>1. CutoffOf(now) \in Int
    BY DaysAreNumbers DEF WholeInv, now
  <2>2. run'.day = CutoffOf(now) /\ pc' = "server"
    BY <1>4 DEF Start
  <2> QED BY <1>2, <2>1, <2>2 DEF WholeInv, InRun
<1>5. CASE SkewTooLarge \/ Defer \/ Conflict \/ Finish \/ Fail \/ Crash
  <2>1. pc' = "idle" /\ run' = run
    BY <1>5 DEF SkewTooLarge, Defer, Conflict, Finish, Fail, Crash, EndRun
  <2> QED BY <1>2, <2>1 DEF WholeInv, InRun
<1>6. CASE Proceed
  <2>1. pc' = "assets" /\ run' = [run EXCEPT !.server = clock] /\ ~(clock < Opens(run.day))
    BY <1>6 DEF Proceed, TooEarly
  <2>2. run'.day = run.day
    BY <2>1
  <2>3. Opens(run.day) \in Int
    BY DaysAreNumbers DEF WholeInv
  <2> QED BY <1>2, <2>1, <2>2, <2>3 DEF WholeInv, InRun, Opens
<1>7. CASE \E a \in Assets : Skip(a)
  BY <1>2, <1>7 DEF Skip, WholeInv, InRun, Opens
<1>8. CASE \E a \in Assets : Visit(a)
  BY <1>2, <1>8 DEF Visit, WholeInv, InRun, Opens
<1>9. CASE Fetch
  BY <1>2, <1>9 DEF Fetch, WholeDay, WholeInv, InRun, Opens
<1>10. CASE Postpone
  BY <1>2, <1>10 DEF Postpone, WholeInv, InRun, Opens
<1>11. CASE Save
  BY <1>2, <1>11 DEF Save, WholeInv, InRun, Opens
<1> QED BY <1>3, <1>4, <1>5, <1>6, <1>7, <1>8, <1>9, <1>10, <1>11 DEF JobStep

LEMMA WholeInvariant == Spec => []WholeInv
<1>1. WholeInv /\ [Next]_vars => WholeInv'
  <2> SUFFICES ASSUME WholeInv, [Next]_vars PROVE WholeInv'
    OBVIOUS
  <2>1. CASE UNCHANGED vars
    BY <2>1 DEF vars, world, work, WholeInv, InRun, Opens
  <2> QED BY <2>1, WholeInvWorld, WholeInvJob DEF Next, OtherStep
<1> QED BY InitWholeInv, <1>1, PTL DEF Spec

LEMMA StoresWholeDays ==
  ASSUME WholeInv, [Next]_vars, boot' = boot, NEW r \in rows' \ rows
  PROVE  clock >= Opens(r.day) /\ published[r.asset] >= r.day
<1>1. ~BootWrite
  BY DEF BootWrite
<1>2. /\ pc = "save" /\ r = Row(asset, run.day, Live, at)
  BY <1>1 DEF Next, vars, JobStep, Tick, Delay, Adjust, Publish, Return, Start, SkewTooLarge, Defer,
    Proceed, Skip, Visit, Fetch, Postpone, Save, Conflict, Finish, Fail, Crash, BootRead
<1>3. r.asset = asset /\ r.day = run.day
  BY <1>2 DEF Row
<1> QED BY <1>2, <1>3 DEF WholeInv, InRun

(***************************************************************************)
(* Whatever the host's clock says and however it is set meanwhile, the     *)
(* collector stores only days whose window has opened at the exchange and  *)
(* that the exchange has published.                                        *)
(***************************************************************************)
THEOREM WholeDaysAreStored == Spec => OnlyWholeDays
<1>1. WholeInv /\ [Next]_vars =>
        [boot' = boot => \A r \in rows' \ rows :
           clock >= Opens(r.day) /\ published[r.asset] >= r.day]_vars
  BY StoresWholeDays
<1> QED BY <1>1, WholeInvariant, PTL DEF Spec, OnlyWholeDays
-----------------------------------------------------------------------------
\* A set of integers bounded from below has a least element.
LEMMA LeastInteger ==
  ASSUME NEW low \in Int, NEW T, T \subseteq Int, T # {}, \A x \in T : x >= low
  PROVE  \E x \in T : \A y \in T : x <= y
<1> DEFINE S == {x - low : x \in T}
           R == OpToRel(<, Nat)
<1>1. S \subseteq Nat /\ S # {}
  <2>1. \A x \in T : x \in Int /\ x >= low /\ x - low \in Nat
    OBVIOUS
  <2>2. S \subseteq Nat
    BY <2>1
  <2>3. \A x \in T : x - low \in S
    OBVIOUS
  <2>4. S # {}
    BY <2>3
  <2> QED BY <2>2, <2>4
<1>2. IsWellFoundedOn(R, Nat)
  BY NatLessThanWellFounded
<1>3. \E x \in S : \A y \in S : ~(<<y, x>> \in R)
  <2> HIDE DEF S, R
  <2> QED BY <1>1, <1>2, WFMin
<1>4. PICK x \in S : \A y \in S : ~(<<y, x>> \in R)
  BY <1>3
<1>5. \A y \in S : ~(y < x)
  BY <1>1, <1>4 DEF OpToRel
<1>6. PICK z \in T : x = z - low
  OBVIOUS
<1>7. \A y \in T : z <= y
  <2> TAKE y \in T
  <2>1. y - low \in S
    OBVIOUS
  <2>2. ~(y - low < x)
    BY <1>5, <2>1
  <2> QED BY <1>6, <2>2
<1> QED BY <1>6, <1>7

\* The trigger always has a next firing, and it is in the future.
LEMMA NextSlotIsLater ==
  ASSUME NEW t \in Int PROVE NextSlot(t) \in Int /\ NextSlot(t) > t
<1> DEFINE Slots == {s \in (t + 1)..(t + DayLength) : s % DayLength \in CronSlots}
<1>1. DayLength \in Nat \ {0} /\ OpensAt \in Nat /\ ClosesAt \in Nat /\ OpensAt < ClosesAt
      /\ ClosesAt + 2 < DayLength
  BY CollectorConstants
<1>2. OpensAt \in CronSlots
  BY <1>1 DEF CronSlots
<1>3. \E s \in (t + 1)..(t + DayLength) : s % DayLength = OpensAt
  <2> DEFINE d == t \div DayLength
             m == t % DayLength
  <2>1. d \in Int /\ m \in 0..(DayLength - 1) /\ t = d * DayLength + m
    BY <1>1
  <2>2. \A q \in Int : q * DayLength \in Int /\ (q * DayLength + OpensAt) % DayLength = OpensAt
    BY <1>1
  <2>3. (d + 1) * DayLength = d * DayLength + DayLength /\ d * DayLength \in Int
    BY <2>1, <1>1
  <2>4. CASE m < OpensAt
    <3>1. d * DayLength + OpensAt \in (t + 1)..(t + DayLength)
      BY <2>1, <2>3, <2>4, <1>1
    <3> QED BY <3>1, <2>1, <2>2
  <2>5. CASE m >= OpensAt
    <3>1. (d + 1) * DayLength + OpensAt \in (t + 1)..(t + DayLength)
      BY <2>1, <2>3, <2>5, <1>1
    <3>2. d + 1 \in Int
      BY <2>1
    <3> QED BY <3>1, <3>2, <2>2
  <2> QED BY <2>1, <2>4, <2>5, <1>1
<1>4. Slots \subseteq Int /\ Slots # {} /\ \A s \in Slots : s >= t + 1
  <2>1. PICK s \in (t + 1)..(t + DayLength) : s % DayLength = OpensAt
    BY <1>3
  <2>2. s \in Slots
    BY <2>1, <1>2
  <2>3. Slots \subseteq (t + 1)..(t + DayLength)
    OBVIOUS
  <2>4. \A u \in (t + 1)..(t + DayLength) : u \in Int /\ u >= t + 1
    BY <1>1
  <2> QED BY <2>2, <2>3, <2>4
<1>5. \E s \in Slots : \A u \in Slots : s <= u
  <2> HIDE DEF Slots
  <2>1. t + 1 \in Int
    OBVIOUS
  <2> QED BY <1>4, <2>1, LeastInteger
<1>6. \E s \in (t + 1)..(t + DayLength) :
        s % DayLength \in CronSlots /\ \A u \in (t + 1)..(s - 1) : u % DayLength \notin CronSlots
  <2>1. PICK s \in Slots : \A u \in Slots : s <= u
    BY <1>5
  <2>2. \A u \in (t + 1)..(s - 1) : u \in (t + 1)..(t + DayLength) /\ ~(s <= u)
    BY <1>1, <2>1
  <2>3. \A u \in (t + 1)..(s - 1) : u % DayLength \notin CronSlots
    BY <2>1, <2>2
  <2> QED BY <2>1, <2>3
<1>7. NextSlot(t) \in (t + 1)..(t + DayLength)
  <2> DEFINE P(s) == s % DayLength \in CronSlots
                     /\ \A u \in (t + 1)..(s - 1) : u % DayLength \notin CronSlots
  <2>1. \E s \in (t + 1)..(t + DayLength) : P(s)
    BY <1>6
  <2>2. NextSlot(t) = CHOOSE s \in (t + 1)..(t + DayLength) : P(s)
    BY DEF NextSlot
  <2> HIDE DEF P
  <2> QED BY <2>1, <2>2
<1> QED BY <1>1, <1>7
-----------------------------------------------------------------------------
\* The parts of TypeOK: the world, the run in progress, and the tables.
WorldTypes ==
  clock \in Nat /\ drift \in Drifts /\ published \in [Assets -> Nat] /\ next \in Int
  /\ faults \in 0..MaxFaults /\ boots \in 0..MaxBoots

Runs == [day : Int, started : Int, server : Nat]
Rows == [asset : Assets, day : Int, source : Sources, at : Int]

RunTypes ==
  /\ pc \in {"idle", "server", "assets", "fetch", "save"} /\ run \in Runs
  /\ status \in {"none", "running", "succeeded", "deferred", "failed"}
  /\ left \subseteq Assets /\ pending \subseteq Assets /\ asset \in Assets \cup {None} /\ at \in Int
  /\ (asset # None) = (pc \in {"fetch", "save"})

TableTypes ==
  /\ rows \subseteq Rows /\ issues \subseteq Assets \X Int /\ (boot # None => boot \subseteq Rows)

Types == WorldTypes /\ RunTypes /\ TableTypes

LEMMA InitTypes == Init => Types
<1> SUFFICES ASSUME Init PROVE Types
  OBVIOUS
<1>1. now \in Int
  BY CollectorFacts DEF Init, now
<1>2. WorldTypes
  BY <1>1, CollectorConstants, NextSlotIsLater DEF Init, WorldTypes
<1>3. RunTypes
  BY CollectorConstants DEF Init, RunTypes, NoRun, Runs
<1>4. TableTypes
  BY DEF Init, TableTypes
<1> QED BY <1>2, <1>3, <1>4 DEF Types

LEMMA HostTime == ASSUME Types PROVE now \in Int /\ CutoffOf(now) \in Int
BY CollectorFacts, DaysAreNumbers DEF Types, WorldTypes, now

LEMMA TypesOfWorld == ASSUME Types, [Next]_vars PROVE WorldTypes'
<1>1. next' \in Int
  <2>1. next' = next \/ Fired
    BY DEF Next, vars, JobStep, Tick, Delay, Adjust, Publish, Return, Start, SkewTooLarge, Defer,
      Proceed, Skip, Visit, Fetch, Postpone, Save, Conflict, Finish, Fail, Crash, BootRead, BootWrite
  <2>2. NextSlot(now) \in Int
    BY HostTime, NextSlotIsLater
  <2> QED BY <2>1, <2>2 DEF Fired, Types, WorldTypes
<1>2. clock' \in Nat /\ drift' \in Drifts
  BY DEF Next, vars, world, JobStep, Tick, Delay, Adjust, Publish, Return, Start, SkewTooLarge, Defer,
    Proceed, Skip, Visit, Fetch, Postpone, Save, Conflict, Finish, Fail, Crash, BootRead, BootWrite,
    Types, WorldTypes
<1>3. published' \in [Assets -> Nat]
  <2>1. published' = published \/ \E a \in Assets : Publish(a)
    BY DEF Next, vars, world, JobStep, Tick, Delay, Adjust, Return, Start, SkewTooLarge, Defer,
      Proceed, Skip, Visit, Fetch, Postpone, Save, Conflict, Finish, Fail, Crash, BootRead, BootWrite
  <2>2. CutoffOf(clock) \in Nat
    BY CollectorFacts DEF Types, WorldTypes, CutoffOf
  <2> QED BY <2>1, <2>2 DEF Publish, Types, WorldTypes
<1>4. faults' \in 0..MaxFaults /\ boots' \in 0..MaxBoots
  BY CollectorConstants DEF Next, vars, bounds, JobStep, Tick, Delay, Adjust, Publish, Return, Start,
    SkewTooLarge, Defer, Proceed, Skip, Visit, Fetch, Postpone, Save, Conflict, Finish, Fail, Crash,
    BootRead, BootWrite, Types, WorldTypes
<1> QED BY <1>1, <1>2, <1>3, <1>4 DEF WorldTypes

LEMMA TypesOfRun == ASSUME Types, [Next]_vars PROVE RunTypes'
<1>1. CASE UNCHANGED vars \/ OtherStep \/ Return
  <2>1. UNCHANGED <<pc, run, status, left, asset, pending, at>>
    BY <1>1, OtherStepFrame DEF vars, work, Return
  <2> QED BY <2>1 DEF Types, RunTypes
<1>2. CASE Start
  <2> DEFINE new == [day |-> CutoffOf(now), started |-> now, server |-> 0]
  <2>1. new \in Runs
    BY HostTime DEF Runs
  <2>2. /\ pc = "idle" /\ pc' = "server" /\ status' = "running" /\ run' = new
        /\ UNCHANGED <<left, asset, pending, at>>
    BY <1>2 DEF Start, Due
  <2> HIDE DEF new
  <2> QED BY <2>1, <2>2 DEF Types, RunTypes
<1>3. CASE SkewTooLarge \/ Defer \/ Conflict \/ Finish \/ Fail \/ Crash
  <2>1. /\ pc' = "idle" /\ run' = run /\ ContextGone
        /\ status' \in {"none", "running", "succeeded", "deferred", "failed"}
    BY <1>3 DEF SkewTooLarge, Defer, Conflict, Finish, Fail, Crash, EndRun
  <2> QED BY <2>1 DEF ContextGone, Types, RunTypes
<1>4. CASE Proceed
  <2>1. run' \in Runs
    BY <1>4 DEF Proceed, Types, RunTypes, WorldTypes, Runs
  <2> QED BY <1>4, <2>1 DEF Proceed, Types, RunTypes
<1>5. CASE \E a \in Assets : Skip(a)
  BY <1>5 DEF Skip, Types, RunTypes
<1>6. CASE \E a \in Assets : Visit(a)
  BY <1>6, CollectorConstants DEF Visit, Types, RunTypes
<1>7. CASE Fetch
  BY <1>7, HostTime DEF Fetch, Types, RunTypes
<1>8. CASE Postpone
  BY <1>8 DEF Postpone, Postponed, Types, RunTypes
<1>9. CASE Save
  BY <1>9 DEF Save, Types, RunTypes
<1> QED BY <1>1, <1>2, <1>3, <1>4, <1>5, <1>6, <1>7, <1>8, <1>9 DEF Next, JobStep, OtherStep

LEMMA TypesOfTables == ASSUME Types, [Next]_vars PROVE TableTypes'
<1>1. boot' # None => boot' \subseteq Rows
  <2>1. CASE BootRead
    <3>1. PICK archived \in 0..CutoffOf(now) :
            boot' = {BootDay(a, d, archived) : a \in Assets, d \in 1..CutoffOf(now)}
      BY <2>1 DEF BootRead
    <3>2. \A a \in Assets, d \in 1..CutoffOf(now) : BootDay(a, d, archived) \in Rows
      <4> TAKE a \in Assets, d \in 1..CutoffOf(now)
      <4>1. d \in Int /\ Opens(d) \in Int /\ now \in Int
        BY HostTime, DaysAreNumbers
      <4>2. BootDay(a, d, archived) \in {Row(a, d, Archive, Opens(d)), Row(a, d, Live, now)}
        BY DEF BootDay
      <4>3. Row(a, d, Archive, Opens(d)) \in Rows /\ Row(a, d, Live, now) \in Rows
        BY <4>1 DEF Row, Rows, Sources
      <4> QED BY <4>2, <4>3
    <3> QED BY <3>1, <3>2
  <2>2. CASE boot' = boot \/ boot' = None
    BY <2>2 DEF Types, TableTypes
  <2> QED BY <2>1, <2>2 DEF Next, vars, JobStep, Tick, Delay, Adjust, Publish, Return, Start, SkewTooLarge,
    Defer, Proceed, Skip, Visit, Fetch, Postpone, Save, Conflict, Finish, Fail, Crash, BootWrite
<1>2. rows' \subseteq Rows
  <2>1. CASE BootWrite
    BY <2>1 DEF BootWrite, Types, TableTypes
  <2>2. pc = "save" => Row(asset, run.day, Live, at) \in Rows
    <3> HAVE pc = "save"
    <3>1. asset \in Assets /\ run.day \in Int /\ at \in Int
      BY DEF Types, RunTypes, Runs
    <3> QED BY <3>1 DEF Row, Rows, Sources
  <2>3. rows' \subseteq rows \/ BootWrite
        \/ (pc = "save" /\ rows' = rows \cup {Row(asset, run.day, Live, at)})
    BY DEF Next, vars, JobStep, Tick, Delay, Adjust, Publish, Return, Start, SkewTooLarge, Defer,
      Proceed, Skip, Visit, Fetch, Postpone, Save, Conflict, Finish, Fail, Crash, BootRead
  <2> QED BY <2>1, <2>2, <2>3 DEF Types, TableTypes
<1>3. issues' \subseteq Assets \X Int
  <2>1. issues' = issues \/ issues' = issues \cup IssuesToOpen
    BY DEF Next, vars, JobStep, Tick, Delay, Adjust, Publish, Return, Start, SkewTooLarge, Defer,
      Proceed, Skip, Visit, Fetch, Postpone, Save, Conflict, Finish, Fail, Crash, BootRead, BootWrite
  <2>2. run.day \in Int /\ pending \subseteq Assets
    BY DEF Types, RunTypes, Runs
  <2>3. IssuesToOpen \subseteq Assets \X Int
    BY <2>2 DEF IssuesToOpen
  <2> QED BY <2>1, <2>3 DEF Types, TableTypes
<1> QED BY <1>1, <1>2, <1>3 DEF TableTypes

LEMMA TypesInvariant == Spec => []Types
<1>1. Types /\ [Next]_vars => Types'
  BY TypesOfWorld, TypesOfRun, TypesOfTables DEF Types
<1> QED BY InitTypes, <1>1, PTL DEF Spec

(***************************************************************************)
(* Every variable of the collector's model keeps its type, however far off *)
(* the host's clock is.                                                    *)
(***************************************************************************)
THEOREM CollectorTypes == Spec => []TypeOK
<1>1. Types => TypeOK
  BY DEF Types, WorldTypes, RunTypes, TableTypes, Runs, Rows, TypeOK
<1> QED BY <1>1, TypesInvariant, PTL
-----------------------------------------------------------------------------
(* The table, written by the collector and the bootstrap. *)

OneRowPerKey(table) == \A r, s \in table : SameKey(r, s) => r = s
WholeRows(table) == \A r \in table : published[r.asset] >= r.day

\* The table has one row per key, each of a day published whole.
TableIsSound == OneRowPerKey(rows) /\ WholeRows(rows)

\* What a bootstrap has collected is as sound as the table.
TableInv == TableIsSound /\ (boot # None => OneRowPerKey(boot) /\ WholeRows(boot))

\* Who writes the table, and what.
LEMMA TableSteps ==
  ASSUME [Next]_vars
  PROVE  /\ \/ rows' = rows
            \/ BootWrite
            \/ /\ pc = "save" /\ ~Collected(asset)
               /\ rows' = rows \cup {Row(asset, run.day, Live, at)}
         /\ boot' = boot \/ boot' = None \/ BootRead
BY DEF Next, vars, JobStep, Tick, Delay, Adjust, Publish, Return, Start, SkewTooLarge, Defer,
  Proceed, Skip, Visit, Fetch, Postpone, Save, Conflict, Finish, Fail, Crash, BootRead, BootWrite

\* What has been published stays published.
LEMMA PublishedGrows ==
  ASSUME Types, [Next]_vars
  PROVE  \A a \in Assets : published[a] \in Nat /\ published'[a] \in Nat /\ published'[a] >= published[a]
<1>1. CASE \E a \in Assets : Publish(a)
  <2>1. PICK a \in Assets : Publish(a)
    BY <1>1
  <2>2. CutoffOf(clock) \in Nat
    BY CollectorFacts DEF Types, WorldTypes, CutoffOf
  <2> QED BY <2>1, <2>2 DEF Publish, Types, WorldTypes
<1>2. CASE UNCHANGED published
  BY <1>2 DEF Types, WorldTypes
<1> QED
  BY <1>1, <1>2 DEF Next, vars, world, JobStep, Tick, Delay, Adjust, Return, Start, SkewTooLarge,
    Defer, Proceed, Skip, Visit, Fetch, Postpone, Save, Conflict, Finish, Fail, Crash, BootRead,
    BootWrite

\* A bootstrap collects one row of each day, and published days only.
LEMMA BootIsSound ==
  ASSUME Types, BootRead
  PROVE  OneRowPerKey(boot') /\ WholeRows(boot')
<1>1. PICK archived \in 0..CutoffOf(now) :
        /\ \A a \in Assets : archived <= published[a]
        /\ \A d \in (archived + 1)..CutoffOf(now) : \A a \in Assets : published[a] >= d
        /\ boot' = {BootDay(a, d, archived) : a \in Assets, d \in 1..CutoffOf(now)}
  BY DEF BootRead
<1>2. \A a \in Assets, d \in 1..CutoffOf(now) :
        BootDay(a, d, archived).asset = a /\ BootDay(a, d, archived).day = d
  BY DEF BootDay, Row
<1>3. \A a \in Assets, d \in 1..CutoffOf(now) : published[a] >= d
  <2> TAKE a \in Assets, d \in 1..CutoffOf(now)
  <2>1. d \in Int /\ archived \in Int /\ CutoffOf(now) \in Int /\ published[a] \in Nat
    BY HostTime DEF Types, WorldTypes
  <2>2. CASE d <= archived
    BY <1>1, <2>1, <2>2
  <2>3. CASE ~(d <= archived)
    BY <1>1, <2>1, <2>3
  <2> QED BY <2>2, <2>3
<1>4. \A r \in boot' : \E a \in Assets, d \in 1..CutoffOf(now) :
        r = BootDay(a, d, archived) /\ r.asset = a /\ r.day = d
  BY <1>1, <1>2
<1> QED BY <1>3, <1>4 DEF OneRowPerKey, WholeRows, SameKey

LEMMA TableStep ==
  ASSUME Types, WholeInv, TableInv, [Next]_vars
  PROVE  TableInv'
<1>1. /\ \A r \in rows : r.asset \in Assets /\ r.day \in Int
      /\ boot # None => \A r \in boot : r.asset \in Assets /\ r.day \in Int
  BY DEF Types, TableTypes, Rows
<1>2. ASSUME NEW T, WholeRows(T), \A r \in T : r.asset \in Assets /\ r.day \in Int
      PROVE  \A r \in T : published'[r.asset] >= r.day
  BY <1>2, PublishedGrows DEF WholeRows
<1>3. boot' # None => OneRowPerKey(boot)' /\ WholeRows(boot)'
  <2>1. CASE boot' = boot \/ boot' = None
    BY <1>1, <1>2, <2>1 DEF TableInv, OneRowPerKey, WholeRows, SameKey
  <2>2. CASE BootRead
    <3>1. published' = published
      BY <2>2 DEF BootRead, world
    <3> QED BY <2>2, <3>1, BootIsSound DEF OneRowPerKey, WholeRows, SameKey
  <2> QED BY <2>1, <2>2, TableSteps
<1>4. TableIsSound'
  <2>1. CASE rows' = rows
    BY <1>1, <1>2, <2>1 DEF TableInv, TableIsSound, OneRowPerKey, WholeRows, SameKey
  <2>2. CASE BootWrite
    <3>1. boot # None /\ rows' = boot \cup {r \in rows : \A s \in boot : ~SameKey(r, s)}
      BY <2>2 DEF BootWrite
    <3>2. OneRowPerKey(rows)'
      BY <3>1 DEF TableInv, TableIsSound, OneRowPerKey, SameKey
    <3>3. \A r \in rows' : published'[r.asset] >= r.day
      BY <1>1, <1>2, <3>1 DEF TableInv, TableIsSound
    <3> QED BY <3>2, <3>3 DEF TableIsSound, WholeRows
  <2>3. CASE /\ pc = "save" /\ ~Collected(asset)
             /\ rows' = rows \cup {Row(asset, run.day, Live, at)}
    <3> DEFINE new == Row(asset, run.day, Live, at)
    <3>1. new.asset = asset /\ new.day = run.day /\ new.source = Live
      BY DEF Row
    <3>2. asset \in Assets /\ run.day \in Int /\ published[asset] >= run.day
      BY <2>3 DEF WholeInv
    <3>3. \A r \in rows : ~SameKey(r, new) /\ ~SameKey(new, r)
      BY <2>3, <3>1 DEF Collected, Stored, SameKey
    <3> HIDE DEF new
    <3>4. rows' = rows \cup {new}
      BY <2>3 DEF new
    <3>5. \A r, s \in rows' : SameKey(r, s) => r = s
      BY <3>3, <3>4 DEF TableInv, TableIsSound, OneRowPerKey
    <3>6. \A r \in rows' : published'[r.asset] >= r.day
      BY <1>1, <1>2, <3>1, <3>2, <3>4, PublishedGrows DEF TableInv, TableIsSound
    <3> QED BY <3>5, <3>6 DEF TableIsSound, OneRowPerKey, WholeRows, SameKey
  <2> QED BY <2>1, <2>2, <2>3, TableSteps
<1> QED BY <1>3, <1>4 DEF TableInv

(***************************************************************************)
(* Table derivative_daily_snapshots keeps one row of each asset, day and   *)
(* source, and no row of a day the exchange has not served whole: for the  *)
(* collector and the bootstrap together, whichever writes between the      *)
(* other's check and its save.                                             *)
(***************************************************************************)
THEOREM DerivativeTableIsSound == Spec => []TableIsSound
<1>1. Init => TableInv
  BY DEF Init, TableInv, TableIsSound, OneRowPerKey, WholeRows
<1>2. Types /\ WholeInv /\ TableInv /\ [Next]_vars => TableInv'
  BY TableStep
<1>3. TableInv => TableIsSound
  BY DEF TableInv
<1> QED BY <1>1, <1>2, <1>3, TypesInvariant, WholeInvariant, PTL DEF Spec

\* No step takes a stored day of an asset and source away.
DaysStay == [][\A a, day, source : Stored(a, day, source) => Stored(a, day, source)']_vars

(***************************************************************************)
(* A day once stored is never lost: a bootstrap overwrites a row, it does  *)
(* not take its key away, and a failed save takes nothing back.            *)
(***************************************************************************)
THEOREM StoredDaysStay == Spec => DaysStay
<1>1. [Next]_vars => [\A a, day, source : Stored(a, day, source) => Stored(a, day, source)']_vars
  BY KeysStay
<1> QED BY <1>1, PTL DEF Spec, DaysStay
=============================================================================
