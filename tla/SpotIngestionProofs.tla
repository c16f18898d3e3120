------------------------ MODULE SpotIngestionProofs -------------------------
(***************************************************************************)
(* Theorems about SpotIngestion for every catalog, horizon, page size and  *)
(* number of faults, and however far the worker's clock is off: type       *)
(* correctness, the inductive invariant, and from it that final rows never *)
(* revert, that settled bars are exact, that the two writers implement     *)
(* BarLedger, and what a succeeded run and a finished backfill have left   *)
(* behind.                                                                 *)
(***************************************************************************)
EXTENDS SpotIngestion, TLAPS

\* The facts about the constants that every proof below uses.
LEMMA ConstantFacts ==
  /\ Horizon \in Nat /\ MaxTicks \in Nat /\ MaxFaults \in Nat /\ MaxDrift \in Nat
  /\ Hours \subseteq Nat /\ StartClock \in Hours
  /\ 1 \in DOMAIN Catalog /\ Len(Catalog) \in Nat
  /\ DOMAIN Catalog = 1..Len(Catalog)
  /\ 0 \in Versions /\ Versions \subseteq Nat
<1>1. /\ Horizon \in Nat /\ MaxTicks \in Nat /\ MaxFaults \in Nat /\ MaxDrift \in Nat
      /\ StartClock \in Hours
  BY Bounds
<1>2. Len(Catalog) \in Nat /\ DOMAIN Catalog = 1..Len(Catalog) /\ Len(Catalog) # 0
  BY Bounds
<1>3. Hours \subseteq Nat /\ 0 \in Versions /\ Versions \subseteq Nat
  BY <1>1 DEF Hours, Versions
<1> QED BY <1>1, <1>2, <1>3

\* What the worker's clock shows is an hour, and its next hour is near the next.
LEMMA HostFacts ==
  ASSUME NEW now \in Hours, NEW h \in Near(now)
  PROVE  /\ h \in Nat /\ h >= 1 /\ h <= Horizon + MaxDrift /\ now <= h + MaxDrift
         /\ h \in 0..(Horizon + MaxDrift) /\ h + 1 \in 0..(Horizon + MaxDrift + 1)
BY ConstantFacts DEF Near

\* A bar's hour, and the bars of an asset.
LEMMA BarFacts ==
  /\ \A k \in Bars : k[1] \in Assets /\ k[2] \in Hours /\ k[2] \in Nat
  /\ \A i \in DOMAIN Catalog, h \in Hours : <<Catalog[i], h>> \in Bars
  /\ \A a \in Assets, h \in Hours : <<a, h>> \in Bars
BY ConstantFacts DEF Bars, Assets

\* The two operators that make rows yield rows.
LEMMA RowTypes ==
  /\ \A c, e \in MaybeRow : Applied(c, e) \in MaybeRow /\ Tracked(e, c) \in MaybeRow
  /\ \A o, c, s \in MaybeRow :
       (o # None => s # None) => Written(o, c, s) \in MaybeRow
<1>1. ASSUME NEW o \in MaybeRow, NEW c \in MaybeRow, NEW s \in MaybeRow, o # None => s # None
      PROVE  Written(o, c, s) \in MaybeRow
  BY <1>1, NoneIsNoRow DEF Written, Column, MaybeRow, Row
<1> QED BY <1>1 DEF Applied, Tracked
-----------------------------------------------------------------------------
(* Type correctness, with the part of the invariant it needs. *)

LEMMA BlankType == Blank \in [Bars -> MaybeRow]
BY DEF Blank, MaybeRow

LEMMA InitType == Init => TypeOK
<1> SUFFICES ASSUME Init PROVE TypeOK
  OBVIOUS
<1>1. run \in [status : {"none", "running", "succeeded", "failed"}, startedAt : 0..(Horizon + MaxDrift)]
  BY ConstantFacts DEF Init
<1>2. cursor \in 1..(Horizon + 1) /\ stopBefore \in 0..(Horizon + MaxDrift + 1) /\ readAt \in 0..Horizon
      /\ faults \in 0..MaxFaults
  BY ConstantFacts DEF Init
<1>3. wsOrig \in MaybeRow
  BY DEF Init, MaybeRow
<1> QED
  BY <1>1, <1>2, <1>3, BlankType, ConstantFacts DEF Init, TypeOK

\* The steps of the exchange and of the socket keep the types.
LEMMA EnvironmentType ==
  ASSUME TypeOK, SocketInv, ExchangeStep \/ WsStep
  PROVE  TypeOK'
<1>1. CASE Close
  <2>1. clock' \in Hours
    BY <1>1, ConstantFacts DEF Close, TypeOK, Hours
  <2>2. \A a \in Assets : <<a, clock>> \in Bars
    BY BarFacts DEF TypeOK
  <2>3. inbox' \subseteq Bars
    BY <1>1, <2>2 DEF Close, TypeOK
  <2>4. host' \in Near(clock')
    BY <1>1 DEF Close
  <2> QED BY <1>1, <2>1, <2>3, <2>4 DEF Close, TypeOK, plan, context, history
<1>2. ASSUME NEW k \in Bars, Trade(k) PROVE TypeOK'
  <2>1. truth' \in [Bars -> Versions]
    BY <1>2, ConstantFacts DEF Trade, TypeOK, Versions
  <2> QED BY <1>2, <2>1 DEF Trade, TypeOK, socket, plan, context, history
<1>7. CASE HostTick
  BY <1>7 DEF HostTick, TypeOK, socket, plan, context, history
<1>3. CASE WsConnect
  BY <1>3 DEF WsConnect, TypeOK, exchange, plan, context, history
<1>4. ASSUME NEW k \in Bars, WsLoad(k) PROVE TypeOK'
  <2>1. wsOrig' \in MaybeRow /\ inbox' \subseteq Bars
    BY <1>4 DEF WsLoad, TypeOK
  <2> QED BY <1>4, <2>1 DEF WsLoad, TypeOK, exchange, plan, context, history
<1>5. CASE WsSave
  <2>1. wsBar \in Bars /\ (wsOrig # None => db[wsBar] # None)
    BY <1>5 DEF WsSave, SocketInv
  <2>2. ClosingRow(wsBar) \in MaybeRow
    BY <2>1 DEF ClosingRow, MaybeRow, Row, TypeOK
  <2>3. Applied(ClosingRow(wsBar), wsOrig) \in MaybeRow
    BY <2>2, RowTypes DEF TypeOK
  <2>4. Written(wsOrig, Applied(ClosingRow(wsBar), wsOrig), db[wsBar]) \in MaybeRow
    BY <2>1, <2>3, RowTypes DEF TypeOK
  <2>5. db' \in [Bars -> MaybeRow]
    BY <1>5, <2>4 DEF WsSave, TypeOK
  <2>6. wsOrig' \in MaybeRow
    BY <1>5 DEF WsSave, MaybeRow
  <2> QED BY <1>5, <2>5, <2>6 DEF WsSave, TypeOK, exchange, plan, context, history
<1>6. CASE WsDrop
  <2>1. wsOrig' \in MaybeRow
    BY <1>6 DEF WsDrop, Disconnect, MaybeRow
  <2> QED BY <1>6, <2>1 DEF WsDrop, Disconnect, TypeOK, exchange, plan, context, history
<1> QED BY <1>1, <1>2, <1>3, <1>4, <1>5, <1>6, <1>7 DEF ExchangeStep, WsStep

\* What SaveChanges leaves is a table of rows.
LEMMA AfterSaveType ==
  ASSUME TypeOK, TrackingInv
  PROVE  AfterSave \in [Bars -> MaybeRow]
<1>1. \A k \in Bars : Written(orig[k], cur[k], db[k]) \in MaybeRow
  BY RowTypes DEF TypeOK, TrackingInv
<1> QED BY <1>1 DEF AfterSave

LEMMA ResetType ==
  ASSUME ResetPlan, ClearContext
  PROVE  /\ asset' \in DOMAIN Catalog /\ mode' \in {"backfill", "recent"}
         /\ cursor' \in 1..(Horizon + 1) /\ stopBefore' \in 0..(Horizon + MaxDrift + 1)
         /\ cand' \in [Bars -> MaybeRow] /\ readAt' \in 0..Horizon
         /\ orig' \in [Bars -> MaybeRow] /\ cur' \in [Bars -> MaybeRow]
BY ConstantFacts, BlankType DEF ResetPlan, ClearContext

\* The steps of the job that succeed keep the types.
LEMMA JobType ==
  ASSUME TypeOK, TrackingInv,
         SyncStart \/ SkipBackfill \/ BeginBackfill \/ Request \/ EmptyPage
           \/ Parse \/ Load \/ Save \/ Finish
  PROVE  TypeOK'
<1>1. CASE SyncStart
  <2>1. run' \in [status : {"none", "running", "succeeded", "failed"}, startedAt : 0..(Horizon + MaxDrift)]
    BY <1>1, HostFacts DEF SyncStart, TypeOK
  <2>2. began' \in 0..Horizon
    BY <1>1, ConstantFacts DEF SyncStart, TypeOK, Hours
  <2> QED BY <1>1, <2>1, <2>2 DEF SyncStart, TypeOK, exchange, socket, plan, context
<1>2. CASE SkipBackfill
  <2>1. cursor' \in 1..(Horizon + 1) /\ stopBefore' \in 0..(Horizon + MaxDrift + 1)
    BY <1>2, ConstantFacts DEF SkipBackfill
  <2> QED BY <1>2, <2>1 DEF SkipBackfill, TypeOK, exchange, socket, context, history
<1>3. CASE BeginBackfill
  <2>1. cursor' \in 1..(Horizon + 1)
    BY <1>3, ConstantFacts DEF BeginBackfill
  <2>2. stopBefore' \in 0..(Horizon + MaxDrift + 1)
    <3>1. CASE stopBefore' = host + 1
      BY <3>1, HostFacts DEF TypeOK
    <3>2. CASE \E h \in Hours : stopBefore' = h
      BY <3>2, ConstantFacts DEF Hours
    <3> QED BY <1>3, <3>1, <3>2 DEF BeginBackfill, Stored
  <2> QED BY <1>3, <2>1, <2>2 DEF BeginBackfill, TypeOK, exchange, socket, context, history
<1>4. CASE Request
  <2>1. \A k \in Bars : [final |-> FALSE, ver |-> truth[k]] \in MaybeRow /\ None \in MaybeRow
    BY DEF TypeOK, MaybeRow, Row
  <2>2. cand' \in [Bars -> MaybeRow]
    BY <1>4, <2>1 DEF Request
  <2>3. readAt' \in 0..Horizon
    BY <1>4, ConstantFacts DEF Request, TypeOK, Hours
  <2> QED BY <1>4, <2>2, <2>3 DEF Request, TypeOK, exchange, socket, plan, history
<1>5. CASE EmptyPage
  BY <1>5 DEF EmptyPage, TypeOK, exchange, socket, context, history
<1>6. CASE Parse
  <2>1. \A k \in Bars : cand[k] # None =>
          [final |-> IsFinalNow(k), ver |-> cand[k].ver] \in MaybeRow
    <3> TAKE k \in Bars
    <3> HAVE cand[k] # None
    <3>1. cand[k].ver \in Versions
      BY DEF TypeOK, MaybeRow, Row
    <3>2. IsFinalNow(k) \in BOOLEAN
      BY DEF IsFinalNow
    <3> QED BY <3>1, <3>2 DEF MaybeRow, Row
  <2>2. cand' \in [Bars -> MaybeRow]
    BY <1>6, <2>1 DEF Parse, MaybeRow
  <2> QED BY <1>6, <2>2 DEF Parse, TypeOK, exchange, socket, plan, history
<1>7. CASE Load
  <2>1. \A k \in Bars : Tracked(orig[k], db[k]) \in MaybeRow /\ Tracked(cur[k], db[k]) \in MaybeRow
    BY RowTypes DEF TypeOK
  <2>2. orig' \in [Bars -> MaybeRow]
    BY <1>7, <2>1 DEF Load, TypeOK
  <2>3. \A k \in Bars : Applied(cand[k], IF cand[k] = None THEN cur[k] ELSE Tracked(cur[k], db[k]))
                           \in MaybeRow
    BY <2>1, RowTypes DEF TypeOK
  <2>4. cur' \in [Bars -> MaybeRow]
    BY <1>7, <2>3 DEF Load
  <2> QED BY <1>7, <2>2, <2>4 DEF Load, TypeOK, exchange, socket, plan, history
<1>8. CASE Save
  <2>1. db' \in [Bars -> MaybeRow] /\ orig' \in [Bars -> MaybeRow] /\ cand' \in [Bars -> MaybeRow]
    BY <1>8, AfterSaveType, BlankType DEF Save, TypeOK
  <2>2. settled' \subseteq Bars
    BY <1>8 DEF Save, PageBars, TypeOK
  <2>3. /\ pc' \in {"request", "plan", "finish"} /\ asset' \in DOMAIN Catalog
        /\ mode' \in {"backfill", "recent"}
        /\ cursor' \in 1..(Horizon + 1) /\ stopBefore' \in 0..(Horizon + MaxDrift + 1)
    <3>1. CASE mode = "backfill"
      BY <1>8, <3>1, ConstantFacts DEF Save, Continue, TypeOK, Hours
    <3>2. CASE mode = "recent"
      BY <1>8, <3>2, ConstantFacts DEF Save, Continue, TypeOK, plan
    <3> QED BY <3>1, <3>2 DEF TypeOK
  <2> QED BY <1>8, <2>1, <2>2, <2>3 DEF Save, TypeOK, exchange, socket
<1>9. CASE Finish
  <2>1. run' \in [status : {"none", "running", "succeeded", "failed"}, startedAt : 0..(Horizon + MaxDrift)]
    BY <1>9 DEF Finish, TypeOK
  <2> QED BY <1>9, <2>1, ResetType DEF Finish, TypeOK, exchange, socket, history
<1> QED BY <1>1, <1>2, <1>3, <1>4, <1>5, <1>6, <1>7, <1>8, <1>9

\* The asset the job is at is one of the catalog's.
LEMMA CurrentAsset ==
  ASSUME TypeOK
  PROVE  Catalog[asset] \in Assets /\ \A h \in Hours : <<Catalog[asset], h>> \in Bars
BY BarFacts DEF TypeOK, Assets

\* The failures of the job and of the worker keep the types.
LEMMA FailureType ==
  ASSUME TypeOK, TrackingInv, SaveConflict \/ Fail \/ CatchSave \/ CatchLost \/ Crash
  PROVE  TypeOK'
<1>0. NoteCut => cut' \subseteq Assets
  BY CurrentAsset DEF NoteCut, TypeOK
<1>1. CASE SaveConflict
  BY <1>0, <1>1 DEF SaveConflict, TypeOK, exchange, socket, plan, context
<1>2. CASE Fail
  <2>1. faults' \in 0..MaxFaults
    BY <1>2, ConstantFacts DEF Fail, TypeOK
  <2> QED BY <1>0, <1>2, <2>1 DEF Fail, TypeOK, exchange, socket, plan, context
<1>3. CASE CatchSave
  <2>1. run' \in [status : {"none", "running", "succeeded", "failed"}, startedAt : 0..(Horizon + MaxDrift)]
    BY <1>3 DEF CatchSave, TypeOK
  <2> QED BY <1>3, <2>1, ResetType, AfterSaveType DEF CatchSave, TypeOK, exchange, socket, history
<1>4. CASE CatchLost
  <2>1. faults' \in 0..MaxFaults
    BY <1>4, ConstantFacts DEF CatchLost, TypeOK
  <2> QED BY <1>4, <2>1, ResetType DEF CatchLost, TypeOK, exchange, socket, history
<1>5. CASE Crash
  <2>1. faults' \in 0..MaxFaults
    BY <1>5, ConstantFacts DEF Crash, TypeOK
  <2>2. wsOrig' \in MaybeRow
    BY <1>5 DEF Crash, Disconnect, MaybeRow
  <2> QED BY <1>0, <1>5, <2>1, <2>2, ResetType DEF Crash, Disconnect, TypeOK, exchange
<1> QED BY <1>1, <1>2, <1>3, <1>4, <1>5
-----------------------------------------------------------------------------
(* The inductive invariant, one lemma per group of actions. *)

CoreInv == SocketInv /\ PageInv /\ TrackingInv /\ PendingInv /\ SettledInv

LEMMA InitCore == Init => CoreInv
<1> SUFFICES ASSUME Init PROVE CoreInv
  OBVIOUS
<1>1. \A k \in Bars : cand[k] = None /\ orig[k] = None /\ cur[k] = None
  BY DEF Init, Blank
<1>2. SocketInv /\ SettledInv
  BY DEF Init, SocketInv, SettledInv, SettledBarsAreExact
<1>3. PageInv
  BY <1>1, ConstantFacts DEF Init, PageInv, ReadClosed
<1>4. TrackingInv /\ PendingInv
  BY <1>1 DEF Init, TrackingInv, PendingInv
<1> QED BY <1>2, <1>3, <1>4 DEF CoreInv

\* Nothing the invariant speaks of changes but the clock and open candles.
LEMMA ExchangeCore ==
  ASSUME TypeOK, CoreInv, ExchangeStep
  PROVE  CoreInv'
<1>1. CASE Close
  <2>1. \A k \in Bars : Closed(k) => Closed(k)'
    BY <1>1, BarFacts, ConstantFacts DEF Close, Closed, TypeOK
  <2>2. SocketInv'
    <3>1. \A k \in inbox' : Closed(k)'
      <4> TAKE k \in inbox'
      <4>1. CASE k \in inbox
        BY <4>1, <2>1 DEF CoreInv, SocketInv, TypeOK
      <4>2. CASE k \notin inbox
        <5>1. k[2] = clock
          BY <4>2, <1>1 DEF Close
        <5> QED BY <5>1, <1>1, ConstantFacts DEF Close, Closed, TypeOK
      <4> QED BY <4>1, <4>2
    <3> QED BY <3>1, <2>1, <1>1 DEF CoreInv, SocketInv, Close, TypeOK
  <2>3. PageInv'
    BY <1>1, ConstantFacts DEF CoreInv, PageInv, Close, context, ReadClosed, TypeOK
  <2>4. TrackingInv' /\ PendingInv' /\ SettledInv'
    BY <1>1, <2>1 DEF CoreInv, TrackingInv, PendingInv, SettledInv, SettledBarsAreExact, ReadClosed, Settling,
                      ClosingRow, Close, context, history, TypeOK
  <2> QED BY <2>2, <2>3, <2>4 DEF CoreInv
<1>2. ASSUME NEW b \in Bars, Trade(b) PROVE CoreInv'
  <2>1. \A k \in Bars : Closed(k) => Closed(k)' /\ truth'[k] = truth[k]
    BY <1>2, BarFacts, ConstantFacts DEF Trade, Closed, TypeOK
  <2>2. \A k \in Bars : k[2] < readAt => Closed(k)
    <3>1. readAt <= clock /\ readAt \in Int /\ clock \in Int
      BY ConstantFacts DEF CoreInv, PageInv, TypeOK
    <3> TAKE k \in Bars
    <3>2. k[2] \in Nat
      BY BarFacts
    <3> QED BY <3>1, <3>2 DEF Closed
  <2>3. SocketInv'
    BY <1>2, <2>1 DEF CoreInv, SocketInv, Trade, socket, TypeOK, Closed
  <2>4. PageInv'
    BY <1>2, <2>1, <2>2 DEF CoreInv, PageInv, Trade, context, ReadClosed
  <2>5. TrackingInv' /\ PendingInv' /\ SettledInv'
    BY <1>2, <2>1, <2>2 DEF CoreInv, TrackingInv, PendingInv, SettledInv, SettledBarsAreExact,
                            ReadClosed, Settling, ClosingRow, Trade, context, history, TypeOK
  <2> QED BY <2>3, <2>4, <2>5 DEF CoreInv
<1>3. CASE HostTick
  BY <1>3 DEF HostTick, socket, context, history, CoreInv, SocketInv, PageInv, TrackingInv,
    PendingInv, SettledInv, SettledBarsAreExact, ReadClosed, Settling, ClosingRow, Closed
<1> QED BY <1>1, <1>2, <1>3 DEF ExchangeStep

\* The closing data of a bar make a final row.
LEMMA ClosingRowFacts ==
  ASSUME TypeOK, NEW k \in Bars
  PROVE  /\ ClosingRow(k) \in Row /\ ClosingRow(k) # None
         /\ ClosingRow(k).final = TRUE /\ ClosingRow(k).ver = truth[k]
<1>1. ClosingRow(k) \in Row
  BY DEF ClosingRow, Row, TypeOK
<1> QED BY <1>1, NoneIsNoRow DEF ClosingRow

\* An update writes exactly the columns the context changed.
LEMMA WrittenColumns ==
  ASSUME NEW o, NEW c, NEW s, o # None, c # None
  PROVE  /\ Written(o, c, s).final = IF c.final # o.final THEN c.final ELSE s.final
         /\ Written(o, c, s).ver = IF c.ver # o.ver THEN c.ver ELSE s.ver
BY DEF Written, Column

\* A socket's save: the row is inserted, or its changed columns are written.
LEMMA WsSaveRow ==
  ASSUME TypeOK, CoreInv, WsSave
  PROVE  /\ wsBar \in Bars /\ Closed(wsBar)
         /\ db'[wsBar] # None
         /\ (db[wsBar] # None =>
              /\ db[wsBar].final => db'[wsBar].final
              /\ db'[wsBar].ver # db[wsBar].ver => db'[wsBar].ver = truth[wsBar])
         /\ \A k \in Bars \ {wsBar} : db'[k] = db[k]
<1>1. wsBar \in Bars /\ Closed(wsBar) /\ (wsOrig # None => db[wsBar] # None)
  BY DEF WsSave, CoreInv, SocketInv
<1>2. ClosingRow(wsBar) \in Row /\ ClosingRow(wsBar) # None
      /\ ClosingRow(wsBar).final = TRUE /\ ClosingRow(wsBar).ver = truth[wsBar]
  BY <1>1, ClosingRowFacts
<1>3. Applied(ClosingRow(wsBar), wsOrig) = ClosingRow(wsBar)
  BY <1>2 DEF Applied, Skipped
<1>4. db'[wsBar] = Written(wsOrig, ClosingRow(wsBar), db[wsBar])
      /\ \A k \in Bars \ {wsBar} : db'[k] = db[k]
  BY <1>1, <1>3 DEF WsSave, TypeOK
<1>5. Written(wsOrig, ClosingRow(wsBar), db[wsBar]) \in Row
  BY <1>1, <1>2, NoneIsNoRow DEF Written, Column, MaybeRow, Row, TypeOK
<1>6. CASE wsOrig = None
  <2>1. db[wsBar] = None
    BY <1>2, <1>6 DEF WsSave, WsConflict, InsertConflict
  <2> QED BY <1>1, <1>4, <1>5, <2>1, NoneIsNoRow
<1>7. CASE wsOrig # None
  <2>1. \/ db'[wsBar].final = ClosingRow(wsBar).final
        \/ db'[wsBar].final = db[wsBar].final
    BY <1>2, <1>4, <1>7, WrittenColumns
  <2>2. \/ db'[wsBar].ver = ClosingRow(wsBar).ver
        \/ db'[wsBar].ver = db[wsBar].ver
    BY <1>2, <1>4, <1>7, WrittenColumns
  <2>3. db[wsBar].final => db'[wsBar].final
    BY <1>2, <2>1
  <2>4. db'[wsBar].ver # db[wsBar].ver => db'[wsBar].ver = truth[wsBar]
    BY <1>2, <2>2
  <2> QED BY <1>1, <1>4, <1>5, <2>3, <2>4, NoneIsNoRow
<1> QED BY <1>6, <1>7

LEMMA SocketCore ==
  ASSUME TypeOK, CoreInv, WsStep
  PROVE  CoreInv'
<1>1. CASE WsConnect
  BY <1>1 DEF WsConnect, exchange, context, history, CoreInv, SocketInv, PageInv, TrackingInv,
    PendingInv, SettledInv, SettledBarsAreExact, ReadClosed, Settling, ClosingRow, Closed
<1>2. ASSUME NEW b \in Bars, WsLoad(b) PROVE CoreInv'
  BY <1>2 DEF WsLoad, exchange, context, history, CoreInv, SocketInv, PageInv, TrackingInv,
    PendingInv, SettledInv, SettledBarsAreExact, ReadClosed, Settling, ClosingRow, Closed
<1>3. CASE WsDrop
  BY <1>3 DEF WsDrop, Disconnect, exchange, context, history, CoreInv, SocketInv, PageInv,
    TrackingInv, PendingInv, SettledInv, SettledBarsAreExact, ReadClosed, Settling, ClosingRow, Closed
<1>4. CASE WsSave
  <2>1. SocketInv' /\ PageInv' /\ PendingInv'
    BY <1>4 DEF WsSave, exchange, context, CoreInv, SocketInv, PageInv, PendingInv, ReadClosed,
      Settling, ClosingRow, Closed
  <2>2. TrackingInv'
    <3> SUFFICES ASSUME NEW k \in Bars, orig[k] # None
                 PROVE  /\ db'[k] # None
                        /\ (orig[k].final => db'[k].final)
                        /\ (db'[k].ver # orig[k].ver => Closed(k) /\ db'[k].ver = truth[k])
      BY <1>4 DEF WsSave, exchange, context, TrackingInv, Closed
    <3> QED BY <1>4, WsSaveRow DEF CoreInv, TrackingInv
  <2>3. SettledInv'
    <3> SUFFICES ASSUME NEW k \in settled PROVE db'[k] = ClosingRow(k)
      BY <1>4 DEF WsSave, exchange, context, history, CoreInv, SettledInv, SettledBarsAreExact,
        Closed, ClosingRow
    <3>1. k \in Bars /\ db[k] = ClosingRow(k) /\ db[k] # None
      BY ClosingRowFacts DEF CoreInv, SettledInv, SettledBarsAreExact, TypeOK
    <3>2. db[k].final = TRUE /\ db[k].ver = truth[k]
      BY <3>1 DEF ClosingRow
    <3>3. db' \in [Bars -> MaybeRow]
      BY <1>4, EnvironmentType DEF WsStep, CoreInv, TypeOK
    <3>4. CASE k = wsBar
      <4>1. db'[k] \in Row /\ db'[k].final = TRUE /\ db'[k].ver = truth[k]
        BY <1>4, <3>1, <3>2, <3>3, <3>4, WsSaveRow DEF MaybeRow, Row
      <4> QED BY <4>1 DEF Row, ClosingRow
    <3> QED BY <1>4, <3>1, <3>4, WsSaveRow
  <2> QED BY <2>1, <2>2, <2>3 DEF CoreInv
<1> QED BY <1>1, <1>2, <1>3, <1>4 DEF WsStep

\* What SaveChanges does to one row, given how old the context may be.
LEMMA AfterSaveRow ==
  ASSUME TypeOK, CoreInv, ~SyncConflict, NEW k \in Bars
  PROVE  /\ cur[k] = orig[k] => AfterSave[k] = db[k]
         /\ db[k] # None => AfterSave[k] # None /\ (db[k].final => AfterSave[k].final)
         /\ cur[k] # None =>
              /\ AfterSave[k] # None
              /\ (cur[k].final => AfterSave[k].final)
              /\ (AfterSave[k].ver # cur[k].ver => Closed(k) /\ AfterSave[k].ver = truth[k])
         /\ cur[k] = ClosingRow(k) => AfterSave[k] = ClosingRow(k)
<1>1. AfterSave[k] = Written(orig[k], cur[k], db[k]) /\ AfterSave[k] \in MaybeRow
  BY AfterSaveType DEF AfterSave, CoreInv
<1>2. db[k] \in MaybeRow /\ cur[k] \in MaybeRow /\ orig[k] \in MaybeRow
  BY DEF TypeOK
<1>3. ClosingRow(k) \in Row /\ ClosingRow(k) # None
      /\ ClosingRow(k).final = TRUE /\ ClosingRow(k).ver = truth[k]
  BY ClosingRowFacts
<1>4. CASE cur[k] = None
  <2>1. AfterSave[k] = db[k]
    BY <1>1, <1>4 DEF Written
  <2> QED BY <2>1, <1>3, <1>4
<1>5. CASE cur[k] # None /\ orig[k] = None
  <2>1. db[k] = None
    BY <1>5 DEF SyncConflict, InsertConflict
  <2>2. AfterSave[k] = cur[k]
    BY <1>1, <1>5 DEF Written
  <2> QED BY <2>1, <2>2, <1>5
<1>6. CASE cur[k] # None /\ orig[k] # None
  <2>1. /\ db[k] # None
        /\ (orig[k].final => db[k].final)
        /\ (db[k].ver # orig[k].ver => Closed(k) /\ db[k].ver = truth[k])
    BY <1>6 DEF CoreInv, TrackingInv
  <2>2. orig[k].final => cur[k].final
    BY <1>6 DEF CoreInv, PendingInv
  <2>3. /\ AfterSave[k].final = IF cur[k].final # orig[k].final THEN cur[k].final ELSE db[k].final
        /\ AfterSave[k].ver = IF cur[k].ver # orig[k].ver THEN cur[k].ver ELSE db[k].ver
    BY <1>1, <1>6, WrittenColumns
  <2>4. AfterSave[k] = [final |-> AfterSave[k].final, ver |-> AfterSave[k].ver]
    BY <1>1, <1>6 DEF Written
  <2>5. AfterSave[k] # None
    <3>1. AfterSave[k].final \in BOOLEAN /\ AfterSave[k].ver \in Versions
      BY <1>2, <1>6, <2>1, <2>3 DEF MaybeRow, Row
    <3> QED BY <3>1, <2>4, NoneIsNoRow DEF Row
  <2>6. /\ db[k].final \in BOOLEAN /\ cur[k].final \in BOOLEAN /\ orig[k].final \in BOOLEAN
        /\ db[k] = [final |-> db[k].final, ver |-> db[k].ver]
    BY <1>2, <1>6, <2>1 DEF MaybeRow, Row
  <2>7. cur[k] = orig[k] => AfterSave[k] = db[k]
    BY <2>3, <2>4, <2>6
  <2>8. (db[k].final => AfterSave[k].final) /\ (cur[k].final => AfterSave[k].final)
    BY <2>1, <2>2, <2>3, <2>6
  <2>9. AfterSave[k].ver # cur[k].ver => Closed(k) /\ AfterSave[k].ver = truth[k]
    BY <2>1, <2>3
  <2>10. ASSUME cur[k] = ClosingRow(k) PROVE AfterSave[k] = ClosingRow(k)
    <3>1. AfterSave[k].ver = truth[k]
      BY <2>10, <2>1, <2>3, <1>3
    <3>2. AfterSave[k].final = TRUE
      BY <2>10, <2>1, <2>3, <2>6, <1>3
    <3> QED BY <2>4, <3>1, <3>2 DEF ClosingRow
  <2> QED BY <2>5, <2>7, <2>8, <2>9, <2>10
<1> QED BY <1>4, <1>5, <1>6

\* A commit of the job's context leaves every settled bar exact.
LEMMA SettledSurvivesSave ==
  ASSUME TypeOK, CoreInv, ~SyncConflict, NEW k \in settled
  PROVE  k \in Bars /\ AfterSave[k] = ClosingRow(k)
<1>1. k \in Bars /\ db[k] = ClosingRow(k) /\ (cand[k] # None => k[2] < readAt)
  BY DEF CoreInv, SettledInv, SettledBarsAreExact, TypeOK
<1>2. CASE cur[k] = orig[k]
  BY <1>1, <1>2, AfterSaveRow
<1>3. CASE cur[k] # orig[k]
  <2>1. cand[k] # None /\ cur[k] = cand[k] /\ ReadClosed(k)
    BY <1>1, <1>3 DEF CoreInv, PendingInv, ReadClosed
  <2>2. CASE Settling(k)
    <3>1. cur[k] = ClosingRow(k)
      BY <1>1, <1>3, <2>2 DEF CoreInv, PendingInv
    <3> QED BY <1>1, <3>1, AfterSaveRow
  <2>3. CASE ~Settling(k)
    <3>1. ~cur[k].final /\ cur[k].ver = truth[k] /\ cur[k] # None
      BY <1>1, <2>1, <2>3 DEF Settling, CoreInv, PageInv
    <3>2. db[k] # None /\ db[k].final = TRUE /\ db[k].ver = truth[k]
      BY <1>1, ClosingRowFacts
    <3>3. orig[k] # None
      BY <1>1, <3>1, <3>2 DEF SyncConflict, InsertConflict
    <3>4. ~orig[k].final
      BY <1>1, <1>3, <3>1, <3>3 DEF CoreInv, PendingInv
    <3>5. cur[k].final \in BOOLEAN /\ orig[k].final \in BOOLEAN
      BY <1>1, <3>1, <3>3 DEF TypeOK, MaybeRow, Row
    <3>6. AfterSave[k] = Written(orig[k], cur[k], db[k])
      BY <1>1 DEF AfterSave
    <3>7. AfterSave[k].final = TRUE /\ AfterSave[k].ver = truth[k]
      BY <3>1, <3>2, <3>3, <3>4, <3>5, <3>6, WrittenColumns
    <3>8. AfterSave[k] = [final |-> AfterSave[k].final, ver |-> AfterSave[k].ver]
      BY <3>1, <3>3, <3>6 DEF Written
    <3> QED BY <1>1, <3>7, <3>8 DEF ClosingRow
  <2> QED BY <2>2, <2>3
<1> QED BY <1>2, <1>3

\* The times of the model are integers, and what was read closed is closed.
LEMMA ClockFacts ==
  ASSUME TypeOK, PageInv
  PROVE  /\ clock \in Nat /\ readAt \in Nat /\ readAt <= clock
         /\ \A k \in Bars : k[2] \in Nat
         /\ \A k \in Bars : k[2] < readAt => Closed(k)
<1>1. clock \in Nat /\ readAt \in Nat /\ readAt <= clock
  BY ConstantFacts DEF TypeOK, PageInv
<1>2. \A k \in Bars : k[2] \in Nat
  BY BarFacts
<1>3. \A k \in Bars : k[2] < readAt => Closed(k)
  BY <1>1, <1>2 DEF Closed
<1> QED BY <1>1, <1>2, <1>3

\* Before its query a batch has nothing pending.
LEMMA CleanContext ==
  ASSUME CoreInv, pc \notin {"save", "catch"}
  PROVE  \A k \in Bars : cur[k] = orig[k]
BY DEF CoreInv, PendingInv

LEMMA PlanningCore ==
  ASSUME TypeOK, CoreInv, SyncStart \/ SkipBackfill \/ BeginBackfill \/ EmptyPage
  PROVE  CoreInv'
<1>1. /\ UNCHANGED <<exchange, db, socket, context, settled>>
      /\ pc \in {"idle", "plan", "request"} /\ pc' \in {"plan", "request"}
  BY DEF SyncStart, SkipBackfill, BeginBackfill, EmptyPage, history
<1>2. cand = Blank
  BY <1>1 DEF CoreInv, PageInv, InFlight
<1>3. SocketInv' /\ TrackingInv' /\ SettledInv'
  BY <1>1 DEF exchange, socket, context, CoreInv, SocketInv, TrackingInv, SettledInv,
    SettledBarsAreExact, ClosingRow, Closed
<1>4. PageInv' /\ PendingInv'
  BY <1>1, <1>2, CleanContext DEF exchange, context, CoreInv, PageInv, PendingInv, ReadClosed,
    Settling
<1> QED BY <1>3, <1>4 DEF CoreInv

LEMMA RequestCore ==
  ASSUME TypeOK, CoreInv, Request
  PROVE  CoreInv'
<1>1. \A k \in Bars : cand'[k] # None => cand'[k].ver = truth[k]
  BY DEF Request
<1>2. SocketInv' /\ TrackingInv'
  BY DEF Request, exchange, socket, CoreInv, SocketInv, TrackingInv, Closed
<1>3. PageInv'
  BY <1>1, ClockFacts DEF Request, exchange, CoreInv, PageInv, ReadClosed, InFlight
<1>4. PendingInv'
  BY CleanContext DEF Request, PendingInv
<1>5. SettledInv'
  BY DEF Request, exchange, history, CoreInv, SettledInv, SettledBarsAreExact, ClosingRow, Closed
<1> QED BY <1>2, <1>3, <1>4, <1>5 DEF CoreInv

LEMMA ParseCore ==
  ASSUME TypeOK, CoreInv, Parse
  PROVE  CoreInv'
<1>1. \A k \in Bars : cand'[k] # None =>
        cand[k] # None /\ cand'[k] = [final |-> IsFinalNow(k), ver |-> cand[k].ver]
  BY DEF Parse
<1>2. SocketInv' /\ TrackingInv'
  BY DEF Parse, exchange, socket, CoreInv, SocketInv, TrackingInv, Closed
<1>3. PageInv'
  <2>1. readAt' <= clock' /\ pc' = "load"
    BY DEF Parse, exchange, CoreInv, PageInv
  <2>2. ASSUME NEW k \in Bars, ReadClosed(k)' PROVE cand'[k].ver = truth'[k]
    <3>1. ReadClosed(k) /\ cand'[k] = [final |-> IsFinalNow(k), ver |-> cand[k].ver]
      BY <1>1, <2>2 DEF Parse, ReadClosed
    <3>2. cand[k].ver = truth[k] /\ truth' = truth
      BY <3>1 DEF Parse, exchange, CoreInv, PageInv
    <3> QED BY <3>1, <3>2
  <2> QED BY <2>1, <2>2 DEF PageInv, InFlight
<1>4. PendingInv'
  BY CleanContext DEF Parse, PendingInv
<1>5. SettledInv'
  BY <1>1 DEF Parse, exchange, history, CoreInv, SettledInv, SettledBarsAreExact, ClosingRow,
    Closed, TypeOK
<1> QED BY <1>2, <1>3, <1>4, <1>5 DEF CoreInv

\* A final candidate read after its close is the closing row itself.
LEMMA SettlingRow ==
  ASSUME TypeOK, PageInv, NEW k \in Bars, Settling(k)
  PROVE  cand[k] = ClosingRow(k) /\ cand[k].final
<1>1. cand[k] \in Row /\ cand[k].final /\ cand[k].ver = truth[k]
  BY DEF PageInv, ReadClosed, Settling, TypeOK, MaybeRow
<1>2. cand[k].final = TRUE
  BY <1>1 DEF Row
<1> QED BY <1>1, <1>2 DEF Row, ClosingRow

LEMMA LoadCore ==
  ASSUME TypeOK, CoreInv, Load
  PROVE  CoreInv'
<1>1. SocketInv' /\ SettledInv'
  BY DEF Load, exchange, socket, history, CoreInv, SocketInv, SettledInv, SettledBarsAreExact,
    ClosingRow, Closed
<1>2. PageInv'
  BY DEF Load, exchange, CoreInv, PageInv, ReadClosed, InFlight
<1>3. TrackingInv'
  <2> SUFFICES ASSUME NEW k \in Bars, orig'[k] # None
               PROVE  /\ db[k] # None
                      /\ (orig'[k].final => db[k].final)
                      /\ (db[k].ver # orig'[k].ver => Closed(k) /\ db[k].ver = truth[k])
    BY DEF Load, exchange, TrackingInv, Closed
  <2>1. orig'[k] = orig[k] \/ orig'[k] = db[k]
    BY DEF Load, Tracked
  <2> QED BY <2>1 DEF CoreInv, TrackingInv
<1>4. PendingInv'
  <2>1. ASSUME NEW k \in Bars, Settling(k) PROVE cur'[k] = ClosingRow(k)
    <3>1. cand[k] # None /\ cand[k] = ClosingRow(k) /\ cand[k].final
      BY <2>1, SettlingRow DEF CoreInv, Settling, ReadClosed
    <3> QED BY <3>1 DEF Load, Applied, Skipped
  <2>2. ASSUME NEW k \in Bars, cur'[k] # orig'[k]
        PROVE  /\ cand[k] # None /\ cur'[k] = cand[k]
               /\ (orig'[k] # None /\ orig'[k].final => cur'[k].final)
    <3>1. cur[k] = orig[k]
      BY CleanContext DEF Load
    <3>2. cand[k] # None
      BY <2>2, <3>1 DEF Load, Applied
    <3>3. orig'[k] = Tracked(orig[k], db[k]) /\ cur'[k] = Applied(cand[k], orig'[k])
      BY <3>1, <3>2 DEF Load
    <3> QED BY <2>2, <3>2, <3>3 DEF Applied, Skipped
  <2> QED BY <2>1, <2>2 DEF Load, exchange, PendingInv, Settling, ReadClosed, ClosingRow
<1> QED BY <1>1, <1>2, <1>3, <1>4 DEF CoreInv

LEMMA SaveCore ==
  ASSUME TypeOK, CoreInv, Save
  PROVE  CoreInv'
<1>1. /\ ~SyncConflict /\ db' = AfterSave /\ orig' = cur /\ cur' = cur /\ cand' = Blank
      /\ pc = "save" /\ pc' \in {"request", "plan", "finish"}
      /\ UNCHANGED <<clock, truth, ws, inbox, wsBar, wsOrig, readAt>>
  BY DEF Save, Continue, exchange, socket
<1>2. \A k \in Bars : cand'[k] = None
  BY <1>1 DEF Blank
<1>3. SocketInv'
  BY <1>1, AfterSaveRow DEF CoreInv, SocketInv, Closed
<1>4. PageInv'
  BY <1>1, <1>2 DEF CoreInv, PageInv, ReadClosed, InFlight
<1>5. TrackingInv'
  BY <1>1, AfterSaveRow DEF TrackingInv, Closed
<1>6. PendingInv'
  BY <1>1 DEF PendingInv
<1>7. SettledInv'
  <2>1. ASSUME NEW k \in settled' PROVE Closed(k)' /\ db'[k] = ClosingRow(k)' /\ cand'[k] = None
    <3>1. CASE k \in settled
      <4>1. Closed(k) /\ k \in Bars /\ AfterSave[k] = ClosingRow(k)
        BY <1>1, <3>1, SettledSurvivesSave DEF CoreInv, SettledInv, SettledBarsAreExact
      <4> QED BY <4>1, <1>1, <1>2 DEF Closed, ClosingRow
    <3>2. CASE k \in PageBars /\ k[2] < readAt /\ cand[k].final
      <4>1. k \in Bars /\ ReadClosed(k) /\ Settling(k)
        BY <3>2 DEF PageBars, ReadClosed, Settling
      <4>2. AfterSave[k] = ClosingRow(k)
        BY <4>1, <1>1, AfterSaveRow DEF CoreInv, PendingInv
      <4>3. Closed(k)
        BY <4>1, ClockFacts DEF CoreInv, ReadClosed
      <4> QED BY <4>1, <4>2, <4>3, <1>1, <1>2 DEF Closed, ClosingRow
    <3> QED BY <2>1, <3>1, <3>2 DEF Save
  <2> QED BY <2>1 DEF SettledInv, SettledBarsAreExact
<1> QED BY <1>3, <1>4, <1>5, <1>6, <1>7 DEF CoreInv

\* A job that ends drops its context.
LEMMA ClearedCore ==
  ASSUME TypeOK, ClearContext, pc' = "idle", clock' = clock
  PROVE  /\ TrackingInv' /\ PendingInv' /\ PageInv'
         /\ \A k \in Bars : cand'[k] = None
<1>1. /\ readAt' = 0 /\ cand' = Blank
      /\ \A k \in Bars : cand'[k] = None /\ orig'[k] = None /\ cur'[k] = None
  BY DEF ClearContext, Blank
<1>2. readAt' <= clock'
  BY <1>1, ConstantFacts DEF TypeOK
<1> QED BY <1>1, <1>2 DEF TrackingInv, PendingInv, PageInv, ReadClosed, InFlight

\* The ends of a run that leave the table as it was.
LEMMA EndCore ==
  ASSUME TypeOK, CoreInv, Finish \/ CatchLost \/ Crash
  PROVE  CoreInv'
<1>1. /\ UNCHANGED <<clock, truth, db, settled>>
      /\ ClearContext /\ pc' = "idle"
      /\ UNCHANGED socket \/ Disconnect
  BY DEF Finish, CatchLost, Crash, exchange, history
<1>2. TrackingInv' /\ PendingInv' /\ PageInv' /\ \A k \in Bars : cand'[k] = None
  BY <1>1, ClearedCore
<1>3. SocketInv'
  <2>1. CASE UNCHANGED socket
    BY <1>1, <2>1 DEF socket, CoreInv, SocketInv, Closed
  <2>2. CASE Disconnect
    BY <2>2 DEF Disconnect, SocketInv
  <2> QED BY <1>1, <2>1, <2>2
<1>4. SettledInv'
  BY <1>1, <1>2 DEF CoreInv, SettledInv, SettledBarsAreExact, Closed, ClosingRow, TypeOK
<1> QED BY <1>2, <1>3, <1>4 DEF CoreInv

\* A failure keeps the context: only the catch block's save is still to come.
LEMMA FailCore ==
  ASSUME TypeOK, CoreInv, SaveConflict \/ Fail
  PROVE  CoreInv'
<1>1. /\ UNCHANGED <<exchange, db, socket, context, settled>> /\ pc' = "catch"
  BY DEF SaveConflict, Fail
<1>2. SocketInv' /\ TrackingInv' /\ SettledInv'
  BY <1>1 DEF exchange, socket, context, CoreInv, SocketInv, TrackingInv, SettledInv,
    SettledBarsAreExact, ClosingRow, Closed
<1>3. PageInv'
  BY <1>1 DEF exchange, context, CoreInv, PageInv, ReadClosed, InFlight
<1>4. PendingInv'
  BY <1>1 DEF exchange, context, CoreInv, PendingInv, ReadClosed, Settling,
    ClosingRow
<1> QED BY <1>2, <1>3, <1>4 DEF CoreInv

\* The catch block commits what the failed batch left, and that is harmless.
LEMMA CatchCore ==
  ASSUME TypeOK, CoreInv, CatchSave
  PROVE  CoreInv'
<1>1. /\ UNCHANGED <<clock, truth, ws, inbox, wsBar, wsOrig, settled>>
      /\ ~SyncConflict /\ db' = AfterSave /\ ClearContext /\ pc' = "idle"
  BY DEF CatchSave, exchange, socket, history
<1>2. TrackingInv' /\ PendingInv' /\ PageInv' /\ \A k \in Bars : cand'[k] = None
  BY <1>1, ClearedCore
<1>3. SocketInv'
  BY <1>1, AfterSaveRow DEF CoreInv, SocketInv, Closed
<1>4. SettledInv'
  <2>1. ASSUME NEW k \in settled
        PROVE  Closed(k)' /\ db'[k] = ClosingRow(k)' /\ cand'[k] = None
    <3>1. Closed(k) /\ k \in Bars /\ AfterSave[k] = ClosingRow(k)
      BY <1>1, SettledSurvivesSave DEF CoreInv, SettledInv, SettledBarsAreExact
    <3> QED BY <3>1, <1>1, <1>2 DEF Closed, ClosingRow
  <2> QED BY <1>1, <2>1 DEF SettledInv, SettledBarsAreExact
<1> QED BY <1>2, <1>3, <1>4 DEF CoreInv
-----------------------------------------------------------------------------
(* The invariant, and the theorems. *)

\* Every step, one that changes nothing included, keeps the invariant.
LEMMA InvariantStep ==
  ASSUME IInv, [Next]_vars
  PROVE  IInv'
<1>1. TypeOK /\ CoreInv /\ TrackingInv /\ SocketInv
  BY DEF IInv, CoreInv
<1>2. CASE ExchangeStep \/ WsStep
  BY <1>1, <1>2, EnvironmentType, ExchangeCore, SocketCore DEF IInv, CoreInv
<1>3. CASE SyncStart \/ SkipBackfill \/ BeginBackfill \/ Request \/ EmptyPage
             \/ Parse \/ Load \/ Save \/ Finish
  BY <1>1, <1>3, JobType, PlanningCore, RequestCore, ParseCore, LoadCore, SaveCore, EndCore
     DEF IInv, CoreInv
<1>4. CASE SaveConflict \/ Fail \/ CatchSave \/ CatchLost \/ Crash
  BY <1>1, <1>4, FailureType, FailCore, CatchCore, EndCore DEF IInv, CoreInv
<1>5. CASE UNCHANGED vars
  BY <1>5 DEF IInv, TypeOK, SocketInv, PageInv, TrackingInv, PendingInv, SettledInv,
    SettledBarsAreExact, ReadClosed, Settling, ClosingRow, Closed, InFlight, Near,
    vars, exchange, socket, plan, context, history
<1> QED BY <1>2, <1>3, <1>4, <1>5 DEF Next, SyncStep

(***************************************************************************)
(* The two writers' bookkeeping (tracked entities, pages in flight, what   *)
(* the socket holds) is in step with price_bars in every reachable state.  *)
(***************************************************************************)
THEOREM InvariantHolds == Spec => []IInv
<1>1. Init => IInv
  BY InitType, InitCore DEF IInv, CoreInv
<1>2. IInv /\ [Next]_vars => IInv'
  BY InvariantStep
<1> QED BY <1>1, <1>2, PTL DEF Spec

\* Every variable of the ingestion model keeps its type.
THEOREM TypeCorrect == Spec => []TypeOK
<1>1. IInv => TypeOK
  BY DEF IInv
<1> QED BY <1>1, InvariantHolds, PTL

(***************************************************************************)
(* A bar committed by BinanceSyncJob from data read after the candle's     *)
(* close holds the closing data for ever, whatever the two writers do next *)
(* and however old the entities they track.                                *)
(***************************************************************************)
THEOREM SettledExact == Spec => []SettledBarsAreExact
<1>1. IInv => SettledBarsAreExact
  BY DEF IInv, SettledInv
<1> QED BY <1>1, InvariantHolds, PTL

\* The steps that write the table, and what they write to it.
LEMMA TableStep ==
  ASSUME IInv, Next
  PROVE  \/ db' = db
         \/ WsSave
         \/ ~SyncConflict /\ db' = AfterSave
BY DEF Next, ExchangeStep, WsStep, SyncStep, Close, HostTick, Trade, WsConnect, WsLoad, WsDrop,
  SyncStart, SkipBackfill, BeginBackfill, Request, EmptyPage, Parse, Load, Save, Finish,
  SaveConflict, Fail, CatchSave, CatchLost, Crash

\* No step deletes a row or takes its finality back.
LEMMA RowsAdvance ==
  ASSUME IInv, [Next]_vars, NEW k \in Bars, db[k] # None
  PROVE  db'[k] # None /\ (db[k].final => db'[k].final)
<1>1. TypeOK /\ CoreInv
  BY DEF IInv, CoreInv
<1>2. CASE db' = db
  BY <1>2
<1>3. CASE WsSave
  BY <1>1, <1>3, WsSaveRow
<1>4. CASE ~SyncConflict /\ db' = AfterSave
  BY <1>1, <1>4, AfterSaveRow
<1> QED BY <1>2, <1>3, <1>4, TableStep DEF vars

(***************************************************************************)
(* PriceBarWriter's guard holds across contexts: no step of either writer  *)
(* turns a final row into a provisional one.                               *)
(***************************************************************************)
THEOREM FinalityIsStable == Spec => FinalNeverReverts
<1>1. IInv /\ [Next]_vars =>
        [\A k \in Bars : db[k] # None /\ db[k].final => db'[k] # None /\ db'[k].final]_vars
  BY RowsAdvance
<1> QED BY <1>1, InvariantHolds, PTL DEF Spec, FinalNeverReverts

\* The set of settled bars only grows.
LEMMA SettledGrows ==
  ASSUME IInv, [Next]_vars
  PROVE  settled \subseteq settled'
BY DEF Next, ExchangeStep, WsStep, SyncStep, Close, HostTick, Trade, WsConnect, WsLoad, WsSave, WsDrop,
  SyncStart, SkipBackfill, BeginBackfill, Request, EmptyPage, Parse, Load, Save, Finish,
  SaveConflict, Fail, CatchSave, CatchLost, Crash, vars, history

\* A settled bar that stays settled and exact is one whose row stays.
LEMMA SettledFrozen ==
  ASSUME IInv, [Next]_vars, NEW k \in settled
  PROVE  db'[k] = db[k]
<1>1. k \in Bars /\ Closed(k) /\ db[k] = ClosingRow(k)
  BY DEF IInv, SettledInv, SettledBarsAreExact, TypeOK
<1>2. k \in settled' /\ IInv'
  BY SettledGrows, InvariantStep
<1>3. db'[k] = [final |-> TRUE, ver |-> truth'[k]]
  BY <1>2 DEF IInv, SettledInv, SettledBarsAreExact, ClosingRow
<1>4. truth'[k] = truth[k]
  <2>1. CASE truth' = truth
    BY <2>1
  <2>2. CASE \E b \in Bars : Trade(b)
    <3>1. PICK b \in Bars : Trade(b)
      BY <2>2
    <3>2. k # b
      BY <1>1, <3>1, ClockFacts DEF Trade, Closed, IInv
    <3> QED BY <1>1, <3>1, <3>2 DEF Trade, IInv, TypeOK
  <2> QED BY <2>1, <2>2 DEF Next, ExchangeStep, WsStep, SyncStep, Close, HostTick, WsConnect, WsLoad,
    WsSave, WsDrop, SyncStart, SkipBackfill, BeginBackfill, Request, EmptyPage, Parse, Load,
    Save, Finish, SaveConflict, Fail, CatchSave, CatchLost, Crash, vars, exchange
<1> QED BY <1>1, <1>3, <1>4 DEF ClosingRow

(***************************************************************************)
(* The two writers implement BarLedger: rows stay, finality only grows,    *)
(* and a settled bar is frozen.                                            *)
(***************************************************************************)
THEOREM WritersImplementLedger == Spec => ImplementsLedger
<1>1. Init => Ledger!LedgerInit
  BY DEF Init, Ledger!LedgerInit, Blank
<1>2. ASSUME IInv, [Next]_vars PROVE [Ledger!Commit]_(<<db, settled>>)
  <2>1. db' \in [Bars -> Row \cup {None}] /\ settled' \subseteq Bars
    BY <1>2, InvariantStep DEF IInv, TypeOK, MaybeRow
  <2>2. settled \subseteq settled' /\ \A k \in settled : db'[k] = db[k]
    BY <1>2, SettledGrows, SettledFrozen
  <2>3. \A k \in Bars : Ledger!Advances(db[k], db'[k])
    BY <1>2, RowsAdvance DEF Ledger!Advances
  <2>4. \A k \in settled' : db'[k] # None /\ db'[k].final
    <3> TAKE k \in settled'
    <3>1. IInv' /\ k \in Bars
      BY <1>2, <2>1, InvariantStep
    <3>2. db'[k] = [final |-> TRUE, ver |-> truth'[k]] /\ truth'[k] \in Versions
      BY <3>1 DEF IInv, SettledInv, SettledBarsAreExact, ClosingRow, TypeOK
    <3>3. [final |-> TRUE, ver |-> truth'[k]] \in Row
      BY <3>2 DEF Row
    <3>4. db'[k] # None
      BY <3>2, <3>3, NoneIsNoRow
    <3> QED BY <3>2, <3>4
  <2> QED BY <2>1, <2>2, <2>3, <2>4 DEF Ledger!Commit, Ledger!Row, Row
<1>3. IInv /\ [Next]_vars => [Ledger!Commit]_(<<db, settled>>)
  BY <1>2
<1> QED BY <1>1, <1>3, InvariantHolds, PTL DEF Spec, ImplementsLedger, Ledger!LedgerSpec
-----------------------------------------------------------------------------
(* What a succeeded run promises of the last Limit hours. *)

\* The clock and the numbers a run works with.
LEMMA RunNumbers ==
  ASSUME TypeOK
  PROVE  /\ clock \in Nat /\ readAt \in Nat /\ asset \in Nat /\ asset >= 1
         /\ asset <= Len(Catalog) /\ run.startedAt \in Nat
         /\ Limit \in Nat /\ ListedAt \in Nat /\ Len(Catalog) \in Nat
         /\ host \in Nat /\ clock <= host + MaxDrift /\ began \in Nat /\ stopBefore \in Nat
BY ConstantFacts, HostFacts, Bounds DEF TypeOK, Hours

\* A step that only lets time pass owes nothing new.
LEMMA ReconcileQuiet ==
  ASSUME TypeOK, TypeOK', ReconcileInv, clock <= clock', host <= host',
         UNCHANGED <<run, pc, asset, mode, cand, readAt, settled, began>>
  PROVE  ReconcileInv'
<1>0. clock' \in Nat /\ host' \in Nat
  BY ConstantFacts, HostFacts DEF TypeOK
<1>1. \A k \in Bars : Owed(k)' => Owed(k)
  <2> SUFFICES ASSUME NEW k \in Bars, Owed(k)' PROVE clock - Limit < k[2]
    BY DEF Owed
  <2>1. clock' - Limit < k[2] /\ k[2] \in Nat
    BY BarFacts DEF Owed
  <2> QED BY <2>1, <1>0, RunNumbers
<1>2. \A k \in Bars : Passed(k)' = Passed(k)
  BY DEF Passed
<1>3. began <= clock' /\ run.startedAt <= host'
  <2>1. began <= clock /\ run.startedAt <= host
    BY DEF ReconcileInv
  <2> QED BY <2>1, <1>0, RunNumbers
<1> QED BY <1>1, <1>2, <1>3 DEF ReconcileInv, OnTheWay

\* The exchange and the socket.
LEMMA ReconcileEnvironment ==
  ASSUME TypeOK, TypeOK', ReconcileInv, ExchangeStep \/ WsStep
  PROVE  ReconcileInv'
<1>1. clock <= clock' /\ host <= host'
  BY RunNumbers DEF ExchangeStep, WsStep, Close, HostTick, Trade, WsConnect, WsLoad, WsSave,
                    WsDrop, exchange
<1>2. UNCHANGED <<run, pc, asset, mode, cand, readAt, settled, began>>
  BY DEF ExchangeStep, WsStep, Close, HostTick, Trade, WsConnect, WsLoad, WsSave, WsDrop,
         plan, context, history
<1> QED BY <1>1, <1>2, ReconcileQuiet

\* A run begins with nothing passed.
LEMMA ReconcileStart ==
  ASSUME TypeOK, ReconcileInv, SyncStart
  PROVE  ReconcileInv'
<1>1. /\ pc = "idle" /\ pc' = "plan" /\ asset = 1 /\ asset' = asset
      /\ UNCHANGED <<clock, host>>
  BY DEF SyncStart, ReconcileInv, exchange, plan
<1>2. run' = [status |-> "running", startedAt |-> host] /\ began' = clock
  BY DEF SyncStart
<1>3. run'.status = "running" /\ run'.startedAt = host
  BY <1>2
<1>4. \A k \in Bars : ~Passed(k)'
  BY <1>1 DEF Passed
<1>5. began' <= clock' /\ run'.startedAt <= host'
  BY <1>1, <1>2, <1>3, RunNumbers
<1> QED BY <1>1, <1>3, <1>4, <1>5 DEF ReconcileInv, OnTheWay

\* Planning, an empty page and the steps on a page neither pass an asset nor
\* lose a candle.
LEMMA ReconcilePlan ==
  ASSUME TypeOK, ReconcileInv, SkipBackfill \/ BeginBackfill \/ EmptyPage
  PROVE  ReconcileInv'
<1>1. /\ UNCHANGED <<clock, host, run, asset, settled, began>>
      /\ pc' = "request" /\ pc \in {"plan", "request"}
  BY DEF SkipBackfill, BeginBackfill, EmptyPage, exchange, history
<1>2. \A k \in Bars : Owed(k)' = Owed(k) /\ Passed(k)' = Passed(k)
  BY <1>1 DEF Owed, Passed
<1> QED BY <1>1, <1>2 DEF ReconcileInv, OnTheWay

LEMMA ReconcileRequest ==
  ASSUME TypeOK, ReconcileInv, Request
  PROVE  ReconcileInv'
<1>1. /\ UNCHANGED <<clock, host, run, asset, mode, settled, began>>
      /\ pc' = "parse" /\ pc = "request" /\ readAt' = clock
  BY DEF Request, exchange, plan, history
<1>2. \A k \in Bars : Owed(k)' = Owed(k) /\ Passed(k)' = Passed(k)
  BY <1>1 DEF Owed, Passed
<1>3. ASSUME mode = "recent", NEW k \in Bars, Owed(k), k[1] = Catalog[asset]
      PROVE  cand'[k] # None
  <2>1. k[2] \in Page
    <3>1. ListedAt <= k[2] /\ clock - Limit < k[2] /\ k[2] < began
      BY <1>3 DEF Owed
    <3>2. k[2] \in Hours /\ k[2] \in Nat /\ began <= clock
      BY BarFacts DEF ReconcileInv
    <3>3. k[2] <= clock
      BY <3>1, <3>2, RunNumbers
    <3> QED BY <1>3, <3>1, <3>2, <3>3 DEF Page
  <2>2. cand'[k] = [final |-> FALSE, ver |-> truth[k]]
    BY <1>3, <2>1 DEF Request
  <2>3. [final |-> FALSE, ver |-> truth[k]] \in Row
    BY DEF Row, TypeOK
  <2> QED BY <2>2, <2>3, NoneIsNoRow
<1>4. began' <= readAt'
  BY <1>1 DEF ReconcileInv
<1> QED BY <1>1, <1>2, <1>3, <1>4 DEF ReconcileInv, OnTheWay

\* Parse and Load keep the page's bars.
LEMMA PageKept ==
  ASSUME TypeOK, Parse \/ Load, NEW k \in Bars
  PROVE  cand'[k] # None <=> cand[k] # None
<1>1. CASE Load
  BY <1>1 DEF Load
<1>2. CASE Parse
  <2>1. CASE cand[k] = None
    BY <1>2, <2>1 DEF Parse
  <2>2. CASE cand[k] # None
    <3>1. cand'[k] = [final |-> IsFinalNow(k), ver |-> cand[k].ver]
      BY <1>2, <2>2 DEF Parse
    <3>2. IsFinalNow(k) \in BOOLEAN /\ cand[k].ver \in Versions
      BY <2>2 DEF IsFinalNow, TypeOK, MaybeRow, Row
    <3> QED BY <2>2, <3>1, <3>2, NoneIsNoRow DEF Row
  <2> QED BY <2>1, <2>2
<1> QED BY <1>1, <1>2

LEMMA ReconcilePage ==
  ASSUME TypeOK, ReconcileInv, Parse \/ Load
  PROVE  ReconcileInv'
<1>1. /\ UNCHANGED <<clock, host, run, asset, mode, readAt, settled, began>>
      /\ pc' \in {"load", "save"} /\ pc \in {"parse", "load"}
  BY DEF Parse, Load, exchange, plan, history
<1>2. \A k \in Bars : Owed(k)' = Owed(k) /\ Passed(k)' = Passed(k)
  BY <1>1 DEF Owed, Passed
<1>3. \A k \in Bars : cand[k] # None => cand'[k] # None
  BY PageKept
<1>4. ASSUME mode = "recent", NEW k \in Bars, Owed(k), k[1] = Catalog[asset]
      PROVE  cand'[k].final
  <2>1. cand[k] # None /\ (pc # "parse" => cand[k].final)
    BY <1>1, <1>4 DEF ReconcileInv, OnTheWay
  <2>2. CASE Parse
    <3>1. cand'[k].final = IsFinalNow(k)
      BY <2>1, <2>2 DEF Parse
    <3>2. k[2] < run.startedAt /\ run.startedAt <= host /\ k[2] \in Nat
      BY <1>4, BarFacts DEF Owed, ReconcileInv
    <3>3. IsFinalNow(k)
      BY <3>2, RunNumbers DEF IsFinalNow
    <3> QED BY <3>1, <3>3
  <2>3. CASE Load
    BY <2>1, <2>3 DEF Load
  <2> QED BY <2>2, <2>3
<1>5. began <= clock /\ run.startedAt <= host /\ (mode = "recent" => began <= readAt)
  BY <1>1 DEF ReconcileInv, OnTheWay
<1>6. \A k \in Bars : Owed(k) /\ Passed(k) => k \in settled
  BY <1>1 DEF ReconcileInv
<1>7. run.status = "running"
  BY <1>1 DEF ReconcileInv
<1>8. mode = "recent" => \A k \in Bars : Owed(k) /\ k[1] = Catalog[asset] => cand'[k] # None
  BY <1>1, <1>3 DEF ReconcileInv, OnTheWay
<1> QED BY <1>1, <1>2, <1>4, <1>5, <1>6, <1>7, <1>8 DEF ReconcileInv, OnTheWay

\* An asset is passed with the commit of its recent page.
LEMMA PassedBySave ==
  ASSUME TypeOK, Save, NEW k \in Bars, Passed(k)', ~Passed(k)
  PROVE  mode = "recent" /\ k[1] = Catalog[asset]
<1>1. CASE pc' = "finish"
  <2>1. mode = "recent" /\ asset = Len(Catalog)
    BY <1>1 DEF Save, Continue
  <2>2. PICK i \in DOMAIN Catalog : k[1] = Catalog[i]
    BY BarFacts DEF Assets
  <2>3. i \in Nat /\ i >= 1 /\ i <= Len(Catalog)
    BY <2>2, ConstantFacts
  <2>4. i \notin 1..(asset - 1)
    BY <2>2 DEF Passed
  <2> QED BY <2>1, <2>2, <2>3, <2>4, RunNumbers
<1>2. CASE pc' # "finish"
  <2>1. PICK i \in 1..(asset' - 1) : k[1] = Catalog[i]
    BY <1>2 DEF Passed
  <2>2. i \notin 1..(asset - 1)
    BY <2>1 DEF Passed
  <2>3. asset' = asset + 1 /\ mode = "recent"
    BY <1>2, <2>1, <2>2, RunNumbers DEF Save, Continue
  <2> QED BY <2>1, <2>2, <2>3, RunNumbers
<1> QED BY <1>1, <1>2

\* The commit of the recent page settles what the run owes for its asset.
LEMMA ReconcileSave ==
  ASSUME TypeOK, ReconcileInv, Save
  PROVE  ReconcileInv'
<1>1. /\ UNCHANGED <<clock, host, run, began>> /\ pc = "save"
      /\ pc' \in {"request", "plan", "finish"}
      /\ settled' = settled \cup {k \in PageBars : k[2] < readAt /\ cand[k].final}
  BY DEF Save, Continue, exchange
<1>2. \A k \in Bars : Owed(k)' = Owed(k)
  BY <1>1 DEF Owed
<1>3. run.status = "running"
  BY <1>1 DEF ReconcileInv
<1>4. ASSUME NEW k \in Bars, Owed(k), Passed(k)'
      PROVE  k \in settled'
  <2>1. CASE Passed(k)
    BY <1>1, <1>4, <2>1 DEF ReconcileInv
  <2>2. CASE ~Passed(k)
    <3>1. mode = "recent" /\ k[1] = Catalog[asset]
      BY <1>4, <2>2, PassedBySave
    <3>2. cand[k] # None /\ cand[k].final /\ began <= readAt
      BY <1>1, <1>4, <3>1 DEF ReconcileInv, OnTheWay
    <3>3. k[2] < readAt
      BY <1>4, <3>2, RunNumbers, BarFacts DEF Owed
    <3> QED BY <1>1, <3>2, <3>3 DEF PageBars
  <2> QED BY <2>1, <2>2
<1>5. pc' # "idle" /\ pc' \notin OnTheWay
  BY <1>1 DEF OnTheWay
<1> QED BY <1>1, <1>2, <1>3, <1>4, <1>5 DEF ReconcileInv

\* The ends of a run: only Finish says that it succeeded.
LEMMA ReconcileEnd ==
  ASSUME TypeOK, ReconcileInv, Finish \/ SaveConflict \/ Fail \/ CatchSave \/ CatchLost \/ Crash
  PROVE  ReconcileInv'
<1>1. UNCHANGED <<clock, host, settled, began>>
  BY DEF Finish, SaveConflict, Fail, CatchSave, CatchLost, Crash, exchange, history
<1>2. CASE Finish
  <2>1. pc = "finish" /\ pc' = "idle" /\ asset' = 1 /\ run'.startedAt = run.startedAt
    BY <1>2 DEF Finish, ResetPlan, TypeOK
  <2>2. \A k \in Bars : Owed(k)' = Owed(k) /\ Passed(k)
    BY <1>1, <2>1 DEF Owed, Passed
  <2> QED BY <1>1, <2>1, <2>2 DEF ReconcileInv, OnTheWay
<1>3. CASE SaveConflict \/ Fail
  <2>1. pc' = "catch" /\ pc # "idle" /\ run' = run
    BY <1>3 DEF SaveConflict, Fail
  <2> QED BY <1>1, <2>1 DEF ReconcileInv, OnTheWay
<1>4. CASE CatchSave
  <2>1. pc' = "idle" /\ asset' = 1 /\ run'.startedAt = run.startedAt /\ run'.status = "failed"
    BY <1>4 DEF CatchSave, ResetPlan, TypeOK
  <2> QED BY <1>1, <2>1 DEF ReconcileInv, OnTheWay
<1>5. CASE CatchLost \/ Crash
  <2>1. pc' = "idle" /\ asset' = 1 /\ run' = run
    BY <1>5 DEF CatchLost, Crash, ResetPlan
  <2>2. \A k \in Bars : Owed(k)' = Owed(k)
    BY <1>1, <2>1 DEF Owed
  <2> QED BY <1>1, <2>1, <2>2 DEF ReconcileInv, OnTheWay
<1> QED BY <1>2, <1>3, <1>4, <1>5

LEMMA InitReconcile == Init => ReconcileInv
<1> SUFFICES ASSUME Init PROVE ReconcileInv
  OBVIOUS
<1>1. /\ run.status = "none" /\ run.startedAt = 0 /\ began = 0 /\ pc = "idle" /\ asset = 1
      /\ clock \in Nat /\ host \in Nat
  BY ConstantFacts, HostFacts DEF Init
<1> QED BY <1>1 DEF ReconcileInv, OnTheWay

LEMMA ReconcileStep ==
  ASSUME IInv, ReconcileInv, [Next]_vars
  PROVE  ReconcileInv'
<1>1. TypeOK /\ TypeOK'
  BY InvariantStep DEF IInv
<1>2. CASE UNCHANGED vars
  BY <1>1, <1>2, ReconcileQuiet, RunNumbers DEF vars, exchange, plan, context, history
<1> QED
  BY <1>1, <1>2, ReconcileEnvironment, ReconcileStart, ReconcilePlan, ReconcileRequest,
     ReconcilePage, ReconcileSave, ReconcileEnd DEF Next, SyncStep

(***************************************************************************)
(* A run of BinanceSyncJob recorded as succeeded has left every candle of  *)
(* the last Limit hours that had closed when it started, for the exchange  *)
(* and for the worker's clock, stored final with its closing data, for     *)
(* every catalog, page size, drift and number of faults.                   *)
(***************************************************************************)
THEOREM SucceededRunsReconcile == Spec => []SucceededRunReconciles
<1>1. Init => ReconcileInv
  BY InitReconcile
<1>2. IInv /\ ReconcileInv /\ [Next]_vars => ReconcileInv'
  BY ReconcileStep
<1>3. IInv /\ ReconcileInv => SucceededRunReconciles
  BY DEF IInv, SettledInv, SettledBarsAreExact, ReconcileInv, Owed, SucceededRunReconciles
<1> QED BY <1>1, <1>2, <1>3, InvariantHolds, PTL DEF Spec
-----------------------------------------------------------------------------
(* What a backfill leaves behind. *)

\* A stored row stays stored.
LEMMA RowsStay ==
  ASSUME IInv, [Next]_vars, NEW k \in Bars, db[k] # None
  PROVE  db'[k] # None
BY RowsAdvance

LEMMA ClockStep ==
  ASSUME IInv, [Next]_vars
  PROVE  clock \in Nat /\ clock' \in Nat /\ clock <= clock'
<1>1. TypeOK /\ clock \in Nat
  BY RunNumbers DEF IInv
<1>2. clock' = clock \/ clock' = clock + 1
  BY DEF Next, ExchangeStep, WsStep, SyncStep, Close, HostTick, Trade, WsConnect, WsLoad, WsSave, WsDrop,
    SyncStart, SkipBackfill, BeginBackfill, Request, EmptyPage, Parse, Load, Save, Finish,
    SaveConflict, Fail, CatchSave, CatchLost, Crash, vars, exchange
<1> QED BY <1>1, <1>2

\* No candle of an hour to come is read, tracked or stored.
LEMMA NoFutureStep ==
  ASSUME IInv, NoFutureBars, [Next]_vars
  PROVE  NoFutureBars'
<1>1. TypeOK /\ CoreInv /\ clock \in Nat /\ clock' \in Nat /\ clock <= clock'
  BY ClockStep DEF IInv, CoreInv
<1> SUFFICES ASSUME NEW k \in Bars, db'[k] # None \/ cand'[k] # None \/ orig'[k] # None
             PROVE  k[2] <= clock
  BY <1>1, BarFacts DEF NoFutureBars
<1>2. k[2] \in Nat
  BY BarFacts
<1>3. db[k] # None \/ cand[k] # None \/ orig[k] # None => k[2] <= clock
  BY DEF NoFutureBars
<1>4. cur[k] # None => k[2] <= clock
  BY <1>3 DEF IInv, PendingInv
<1>5. AfterSave[k] # None => db[k] # None \/ cur[k] # None
  BY DEF AfterSave, Written
<1>6. Blank[k] = None
  BY DEF Blank
<1>7. CASE WsSave
  <2>1. wsBar \in Bars /\ Closed(wsBar) /\ \A b \in Bars \ {wsBar} : db'[b] = db[b]
    BY <1>1, <1>7, WsSaveRow
  <2>2. cand' = cand /\ orig' = orig
    BY <1>7 DEF WsSave, context
  <2>3. CASE k = wsBar
    BY <2>1, <2>3, <1>1, <1>2 DEF Closed
  <2> QED BY <2>1, <2>2, <2>3, <1>3
<1>8. CASE Request
  <2>1. db' = db /\ orig' = orig
    BY <1>8 DEF Request
  <2>2. cand'[k] # None => k[2] \in Page
    BY <1>8 DEF Request
  <2>3. k[2] \in Page => k[2] <= clock
    BY DEF Page
  <2> QED BY <2>1, <2>2, <2>3, <1>3
<1>9. CASE Parse \/ Load
  <2>1. db' = db /\ (cand'[k] # None => cand[k] # None)
    BY <1>1, <1>9, PageKept DEF Parse, Load
  <2>2. orig'[k] # None => orig[k] # None \/ db[k] # None
    BY <1>9 DEF Parse, Load, Tracked
  <2> QED BY <2>1, <2>2, <1>3
<1>10. CASE Save
  BY <1>10, <1>3, <1>4, <1>5, <1>6 DEF Save
<1>11. CASE Finish \/ CatchLost \/ Crash
  BY <1>11, <1>3, <1>6 DEF Finish, CatchLost, Crash, ClearContext
<1>12. CASE CatchSave
  BY <1>12, <1>3, <1>4, <1>5, <1>6 DEF CatchSave, ClearContext
<1>13. CASE UNCHANGED <<db, cand, orig>>
  BY <1>13, <1>3
<1> QED
  BY <1>7, <1>8, <1>9, <1>10, <1>11, <1>12, <1>13 DEF Next, ExchangeStep, WsStep, SyncStep,
    Close, HostTick, Trade, WsConnect, WsLoad, WsDrop, SyncStart, SkipBackfill, BeginBackfill, EmptyPage,
    SaveConflict, Fail, vars, context

\* Steps that keep the run's place and lose no row.
LEMMA BackfillQuiet ==
  ASSUME TypeOK, IInv, [Next]_vars, BackfillInv,
         UNCHANGED <<pc, asset, mode, cursor, stopBefore, cand, cur, began>>
  PROVE  CursorInv' /\ PageRunInv' /\ BackfillLeavesNoHole'
<1>1. CursorInv /\ PageRunInv /\ BackfillLeavesNoHole
  BY DEF BackfillInv
<1>2. \A h \in Hours : db[<<Catalog[asset], h>>] # None => db'[<<Catalog[asset], h>>] # None
  BY RowsStay, BarFacts DEF TypeOK
<1>3. CursorInv'
  BY <1>1, <1>2 DEF CursorInv, OnTheWay
<1>4. BackfillLeavesNoHole'
  BY <1>1, <1>2 DEF BackfillLeavesNoHole
<1> QED BY <1>1, <1>3, <1>4 DEF PageRunInv, OnTheWay

\* The backfill is skipped, or starts with nothing owed before its cursor.
LEMMA BackfillBegins ==
  ASSUME TypeOK, BackfillInv, SkipBackfill \/ BeginBackfill
  PROVE  CursorInv' /\ PageRunInv' /\ BackfillLeavesNoHole'
<1>1. pc' = "request" /\ cursor' = 1 /\ UNCHANGED <<clock, db>>
  BY DEF SkipBackfill, BeginBackfill, exchange
<1>2. \A h \in Hours : ~(h < cursor')
  BY <1>1 DEF Hours
<1>3. mode' = "recent" => stopBefore' = 0
  BY DEF SkipBackfill, BeginBackfill
<1>4. CursorInv'
  BY <1>1, <1>2 DEF CursorInv
<1>5. BackfillLeavesNoHole'
  BY <1>3 DEF BackfillLeavesNoHole, Hours
<1> QED BY <1>1, <1>4, <1>5 DEF PageRunInv, OnTheWay

\* A page runs from the cursor without a gap.
LEMMA BackfillRequest ==
  ASSUME TypeOK, BackfillInv, Request
  PROVE  CursorInv' /\ PageRunInv' /\ BackfillLeavesNoHole'
<1>1. /\ UNCHANGED <<clock, db, asset, mode, cursor, stopBefore>>
      /\ pc = "request" /\ pc' = "parse"
  BY DEF Request, exchange, plan
<1>2. CursorInv'
  BY <1>1 DEF BackfillInv, CursorInv, OnTheWay
<1>3. \A k \in Bars : cand'[k] # None <=> k[1] = Catalog[asset] /\ k[2] \in Page
  <2> TAKE k \in Bars
  <2>1. [final |-> FALSE, ver |-> truth[k]] \in Row
    BY DEF Row, TypeOK
  <2> QED BY <2>1, NoneIsNoRow DEF Request
<1>4. ASSUME mode = "backfill", NEW h \in Hours, NEW x \in Hours,
             cand'[<<Catalog[asset], x>>] # None, ListedAt <= h, cursor <= h, h <= x
      PROVE  cand'[<<Catalog[asset], h>>] # None
  <2>1. x \in Page
    BY <1>3, <1>4, BarFacts DEF TypeOK
  <2>2. h \in Nat /\ x \in Nat /\ cursor \in Nat /\ stopBefore \in Nat /\ PageFrom \in Nat
    BY ConstantFacts, RunNumbers DEF TypeOK, PageFrom
  <2>3. PageFrom <= h
    BY <1>4 DEF PageFrom
  <2>4. x < PageFrom + Limit /\ x < stopBefore /\ x <= clock
    BY <1>4, <2>1 DEF Page
  <2>5. h < PageFrom + Limit /\ h < stopBefore /\ h <= clock
    BY <1>4, <2>2, <2>4, RunNumbers
  <2>6. h \in Page
    BY <1>4, <2>3, <2>5 DEF Page
  <2> QED BY <1>3, <2>6, BarFacts DEF TypeOK
<1>5. PageRunInv'
  BY <1>1, <1>3, <1>4 DEF PageRunInv
<1>6. BackfillLeavesNoHole'
  BY <1>1 DEF BackfillLeavesNoHole
<1> QED BY <1>2, <1>5, <1>6

\* A candidate the writer has applied leaves an entity to save.
LEMMA BackfillPage ==
  ASSUME TypeOK, BackfillInv, Parse \/ Load
  PROVE  CursorInv' /\ PageRunInv' /\ BackfillLeavesNoHole'
<1>1. /\ UNCHANGED <<clock, db, asset, mode, cursor, stopBefore>>
      /\ pc \in OnTheWay /\ pc' \in OnTheWay /\ pc' # "request"
  BY DEF Parse, Load, exchange, plan, OnTheWay
<1>2. CursorInv'
  BY <1>1 DEF BackfillInv, CursorInv
<1>3. \A k \in Bars : cand'[k] # None <=> cand[k] # None
  BY PageKept
<1>4. \A h \in Hours : <<Catalog[asset], h>> \in Bars
  BY BarFacts DEF TypeOK
<1>5. ASSUME pc' = "save", NEW k \in Bars, cand'[k] # None PROVE cur'[k] # None
  BY <1>5 DEF Parse, Load, Applied, Skipped
<1>6. PageRunInv'
  BY <1>1, <1>3, <1>4, <1>5 DEF BackfillInv, PageRunInv
<1>7. BackfillLeavesNoHole'
  BY <1>1 DEF BackfillLeavesNoHole
<1> QED BY <1>2, <1>6, <1>7

\* An empty page means that the exchange has nothing before stopBefore.
LEMMA BackfillEmpty ==
  ASSUME TypeOK, BackfillInv, began <= clock, EmptyPage
  PROVE  CursorInv' /\ PageRunInv' /\ BackfillLeavesNoHole'
<1>1. /\ UNCHANGED <<db, asset, stopBefore, began>> /\ mode = "backfill" /\ mode' = "recent"
      /\ pc = "request" /\ pc' = "request" /\ Page = {}
  BY DEF EmptyPage, history
<1>2. CursorInv' /\ PageRunInv'
  BY <1>1 DEF CursorInv, PageRunInv, OnTheWay
<1>3. ASSUME NEW h \in Hours, ListedAt <= h, h < stopBefore, h <= began
      PROVE  db[<<Catalog[asset], h>>] # None
  <2>1. h < cursor => db[<<Catalog[asset], h>>] # None
    BY <1>1, <1>3 DEF BackfillInv, CursorInv
  <2>2. CASE cursor <= h
    <3>1. /\ h \in Nat /\ cursor \in Nat /\ cursor >= 1 /\ stopBefore \in Nat /\ ListedAt >= 1
          /\ Horizon \in Nat /\ h <= Horizon
      BY ConstantFacts, Bounds DEF TypeOK, Hours
    <3>2. PageFrom \in Nat /\ PageFrom >= 1 /\ PageFrom <= h
      BY <1>3, <2>2, <3>1, RunNumbers DEF PageFrom
    <3>3. PageFrom \in Hours
      BY <3>1, <3>2 DEF Hours
    <3>4. PageFrom < PageFrom + Limit /\ PageFrom < stopBefore /\ PageFrom <= clock
      <4>1. Limit \in Nat /\ Limit # 0 /\ clock \in Nat /\ began \in Nat
        BY RunNumbers, Bounds
      <4> QED BY <1>3, <3>1, <3>2, <4>1
    <3>5. PageFrom \in Page
      BY <1>1, <3>1, <3>2, <3>3, <3>4 DEF Page
    <3> QED BY <1>1, <3>5
  <2>3. CASE ~(cursor <= h)
    <3>1. h \in Int /\ cursor \in Int
      BY ConstantFacts DEF TypeOK
    <3> QED BY <2>1, <2>3, <3>1
  <2> QED BY <2>2, <2>3
<1> QED BY <1>1, <1>2, <1>3 DEF BackfillLeavesNoHole

\* The commit of a page stores every hour up to the page's last one.
LEMMA BackfillSave ==
  ASSUME IInv, TypeOK, CoreInv, BackfillInv, Save
  PROVE  CursorInv' /\ PageRunInv' /\ BackfillLeavesNoHole'
<1>1. /\ began' = began /\ pc = "save" /\ pc' \in {"request", "plan", "finish"}
      /\ db' = AfterSave /\ ~SyncConflict
  BY DEF Save, Continue
<1>2. PageRunInv'
  BY <1>1 DEF PageRunInv, OnTheWay
<1>3. CASE pc' = "request"
  <2>1. PICK x \in Hours : /\ mode = "backfill" /\ IsLast(x) /\ cursor' = x + 1
                           /\ mode' = (IF x + 1 < stopBefore THEN "backfill" ELSE "recent")
    BY <1>3 DEF Save, Continue
  <2>2. UNCHANGED <<asset, stopBefore>>
    BY <1>3 DEF Save, Continue
  <2>3. cand[<<Catalog[asset], x>>] # None
    <3>1. PICK k \in Bars : cand[k] # None /\ k[2] = x
      BY <2>1 DEF IsLast, PageBars
    <3>2. k[1] = Catalog[asset]
      BY <1>1, <3>1 DEF BackfillInv, PageRunInv, OnTheWay
    <3>3. k = <<Catalog[asset], x>>
      BY <3>1, <3>2 DEF Bars
    <3> QED BY <3>1, <3>3
  <2>4. ASSUME NEW h \in Hours, ListedAt <= h, h < stopBefore, h < x + 1
        PROVE  db'[<<Catalog[asset], h>>] # None
    <3>1. <<Catalog[asset], h>> \in Bars
      BY BarFacts DEF TypeOK
    <3>2. CASE h < cursor
      <4>1. db[<<Catalog[asset], h>>] # None
        BY <1>1, <2>1, <2>4, <3>2 DEF BackfillInv, CursorInv, OnTheWay
      <4> QED BY <1>1, <3>1, <4>1, AfterSaveRow
    <3>3. CASE ~(h < cursor)
      <4>1. h \in Nat /\ x \in Nat /\ cursor \in Nat
        BY ConstantFacts DEF TypeOK
      <4>2. cursor <= h /\ h <= x
        BY <2>4, <3>3, <4>1
      <4>3. cand[<<Catalog[asset], h>>] # None
        BY <1>1, <2>1, <2>3, <2>4, <4>2 DEF BackfillInv, PageRunInv, OnTheWay
      <4>4. cur[<<Catalog[asset], h>>] # None
        BY <1>1, <3>1, <4>3 DEF BackfillInv, PageRunInv
      <4> QED BY <1>1, <3>1, <4>4, AfterSaveRow
    <3> QED BY <3>2, <3>3
  <2>5. CursorInv'
    BY <1>1, <2>1, <2>2, <2>4 DEF CursorInv
  <2>6. BackfillLeavesNoHole'
    <3> SUFFICES ASSUME mode' = "recent", NEW h \in Hours, ListedAt <= h, h < stopBefore
                 PROVE  h < x + 1
      BY <2>2, <2>4 DEF BackfillLeavesNoHole
    <3>1. ~(x + 1 < stopBefore)
      BY <2>1
    <3>2. x \in Nat /\ h \in Nat /\ stopBefore \in Nat
      BY ConstantFacts DEF TypeOK
    <3> QED BY <3>1, <3>2
  <2> QED BY <1>2, <2>5, <2>6
<1>4. CASE pc' # "request"
  BY <1>1, <1>2, <1>4 DEF CursorInv, BackfillLeavesNoHole, OnTheWay
<1> QED BY <1>3, <1>4

LEMMA InitBackfill == Init => BackfillInv
BY DEF Init, BackfillInv, NoFutureBars, CursorInv, PageRunInv, BackfillLeavesNoHole,
  OnTheWay, Blank

LEMMA BackfillStep ==
  ASSUME IInv, ReconcileInv, BackfillInv, [Next]_vars
  PROVE  BackfillInv'
<1>1. TypeOK /\ CoreInv /\ began <= clock
  BY DEF IInv, CoreInv, ReconcileInv
<1>2. NoFutureBars'
  BY NoFutureStep DEF BackfillInv
<1> SUFFICES CursorInv' /\ PageRunInv' /\ BackfillLeavesNoHole'
  BY <1>2 DEF BackfillInv
<1>3. CASE ExchangeStep \/ WsStep \/ UNCHANGED vars
  BY <1>1, <1>3, BackfillQuiet DEF ExchangeStep, WsStep, Close, HostTick, Trade, WsConnect, WsLoad,
    WsSave, WsDrop, vars, plan, context, history
<1>4. CASE SyncStart \/ Finish \/ SaveConflict \/ Fail \/ CatchSave \/ CatchLost \/ Crash
  <2>1. pc' \in {"plan", "idle", "catch"}
    BY <1>4 DEF SyncStart, Finish, SaveConflict, Fail, CatchSave, CatchLost, Crash
  <2> QED BY <2>1 DEF CursorInv, PageRunInv, BackfillLeavesNoHole, OnTheWay
<1> QED
  BY <1>1, <1>3, <1>4, BackfillBegins, BackfillRequest, BackfillPage, BackfillEmpty, BackfillSave
     DEF Next, SyncStep

(***************************************************************************)
(* BackfillInferenceHistoryAsync pages without a gap: when it hands over   *)
(* to the recent page, no hour between the start of the window and the bar *)
(* it stopped at is missing of those the exchange had when the run began,  *)
(* for every page size and listing date, however far the worker's clock is *)
(* off and whatever the socket stores meanwhile.                           *)
(***************************************************************************)
THEOREM BackfillIsGapless == Spec => []BackfillLeavesNoHole
<1>1. Init => ReconcileInv /\ BackfillInv
  BY InitReconcile, InitBackfill
<1>2. IInv /\ ReconcileInv /\ BackfillInv /\ [Next]_vars => ReconcileInv' /\ BackfillInv'
  BY ReconcileStep, BackfillStep
<1>3. BackfillInv => BackfillLeavesNoHole
  BY DEF BackfillInv
<1> QED BY <1>1, <1>2, <1>3, InvariantHolds, PTL DEF Spec
-----------------------------------------------------------------------------
(* No hole in the window of an asset whose backfill was never cut short. *)

\* The hour from which every recent page reaches, and which every backfill of an
\* empty window reaches.
LEMMA BaseFacts ==
  /\ Base \in Nat /\ Base >= 1 /\ Base <= StartClock
  /\ Base = 1 \/ Base > 2
  /\ \A now \in Hours : now - Limit < Base
  /\ \A h \in Nat : StartClock <= h + MaxDrift => Base <= h + 1
<1>1. /\ Horizon \in Nat /\ Limit \in Nat /\ StartClock \in Nat /\ StartClock >= 1
      /\ MaxDrift \in Nat
      /\ Horizon - StartClock < Limit /\ (Horizon - StartClock) + MaxDrift <= Limit
      /\ Horizon <= Limit \/ Horizon > Limit + 1
  BY ConstantFacts, Bounds, OneDay DEF Hours
<1>2. ASSUME NEW now \in Hours PROVE now - Limit < Base
  <2>1. now \in Nat /\ now <= Horizon
    BY ConstantFacts DEF Hours
  <2> QED BY <1>1, <2>1 DEF Base
<1>3. ASSUME NEW h \in Nat, StartClock <= h + MaxDrift PROVE Base <= h + 1
  BY <1>1, <1>3 DEF Base
<1> QED BY <1>1, <1>2, <1>3 DEF Base

\* What the socket carries and stores is of the day the model runs in.
LEMMA LateSocketStep ==
  ASSUME IInv, LateSocketInv, [Next]_vars
  PROVE  LateSocketInv'
<1>1. /\ clock \in Nat /\ clock' \in Nat /\ clock <= clock'
      /\ StartClock \in Nat /\ StartClock <= clock
  BY ClockStep, ConstantFacts DEF LateSocketInv
<1>2. StartClock <= clock'
  BY <1>1
<1>3. pc' # "idle" => StartClock <= began'
  <2>1. CASE SyncStart
    BY <1>1, <2>1 DEF SyncStart
  <2>2. CASE ~SyncStart
    <3>1. began' = began /\ (pc' # "idle" => pc # "idle")
      BY <2>2 DEF Next, ExchangeStep, WsStep, SyncStep, Close, HostTick, Trade, WsConnect,
        WsLoad, WsSave, WsDrop, SkipBackfill, BeginBackfill, Request, EmptyPage, Parse, Load,
        Save, Finish, SaveConflict, Fail, CatchSave, CatchLost, Crash, vars, history
    <3> QED BY <3>1 DEF LateSocketInv
  <2> QED BY <2>1, <2>2
<1>4. CASE Close
  <2>1. ws' = ws /\ wsBar' = wsBar
    BY <1>4 DEF Close
  <2>2. \A k \in inbox' : k \in inbox \/ k[2] = clock
    BY <1>4 DEF Close
  <2> QED BY <1>1, <1>2, <1>3, <2>1, <2>2 DEF LateSocketInv
<1>5. CASE \E k \in Bars : WsLoad(k)
  <2>1. PICK k \in Bars : k \in inbox /\ wsBar' = k /\ inbox' \subseteq inbox
    BY <1>5 DEF WsLoad
  <2> QED BY <1>2, <1>3, <2>1 DEF LateSocketInv
<1>6. CASE WsConnect \/ WsSave \/ WsDrop \/ Crash
  <2>1. inbox' \subseteq inbox /\ ws' # "loaded"
    BY <1>6 DEF WsConnect, WsSave, WsDrop, Crash, Disconnect
  <2> QED BY <1>2, <1>3, <2>1 DEF LateSocketInv
<1>7. CASE UNCHANGED socket
  BY <1>2, <1>3, <1>7 DEF LateSocketInv, socket
<1> QED
  BY <1>4, <1>5, <1>6, <1>7 DEF Next, ExchangeStep, WsStep, SyncStep, HostTick, Trade,
    SyncStart, SkipBackfill, BeginBackfill, Request, EmptyPage, Parse, Load, Save, Finish,
    SaveConflict, Fail, CatchSave, CatchLost, vars

\* What no step takes back.
LEMMA CutGrows ==
  ASSUME IInv, [Next]_vars
  PROVE  cut \subseteq cut'
BY DEF Next, ExchangeStep, WsStep, SyncStep, Close, HostTick, Trade, WsConnect, WsLoad, WsSave,
  WsDrop, SyncStart, SkipBackfill, BeginBackfill, Request, EmptyPage, Parse, Load, Save, Finish,
  SaveConflict, Fail, NoteCut, CatchSave, CatchLost, Crash, vars, history

LEMMA RowsOfAsset ==
  ASSUME IInv, [Next]_vars, NEW a \in Assets
  PROVE  /\ Whole(a) => Whole(a)'
         /\ Sound(a) => Sound(a)'
         /\ \A h \in Hours : db[<<a, h>>] # None => db'[<<a, h>>] # None
<1>1. \A h \in Hours : db[<<a, h>>] # None => db'[<<a, h>>] # None
  BY RowsStay, BarFacts
<1>2. Whole(a) => Whole(a)'
  BY <1>1 DEF Whole
<1>3. a \in cut => a \in cut'
  BY CutGrows
<1> QED BY <1>1, <1>2, <1>3 DEF Sound

LEMMA CoveredStays ==
  ASSUME IInv, [Next]_vars, began' = began, NEW k \in Bars, Covered(k)
  PROVE  Covered(k)'
BY RowsStay DEF Covered

\* The assets before the one the job is at are covered, and stay so.
CoversPassed == \A k \in Bars : Passed(k) /\ k[1] \notin cut => Covered(k)

LEMMA PassedStaysCovered ==
  ASSUME IInv, [Next]_vars, began' = began, CoversPassed,
         \A k \in Bars : Passed(k)' => Passed(k)
  PROVE  CoversPassed'
<1> SUFFICES ASSUME NEW k \in Bars, Passed(k)', k[1] \notin cut' PROVE Covered(k)'
  BY DEF CoversPassed
<1>1. Passed(k) /\ k[1] \notin cut
  BY CutGrows
<1> QED BY <1>1, CoveredStays DEF CoversPassed

\* A run that has succeeded stays so until the next one starts.
CoversAll == \A k \in Bars : k[1] \notin cut => Covered(k)

LEMMA AllStaysCovered ==
  ASSUME IInv, [Next]_vars, began' = began, CoversAll
  PROVE  CoversAll'
<1> SUFFICES ASSUME NEW k \in Bars, k[1] \notin cut' PROVE Covered(k)'
  BY DEF CoversAll
<1>1. k[1] \notin cut
  BY CutGrows
<1> QED BY <1>1, CoveredStays DEF CoversAll

\* An early bar that was there before the step is still the sign it was.
LEMMA EarlyStays ==
  ASSUME IInv, [Next]_vars, EarlyBarsInv, NEW a \in Assets,
         NEW h \in Hours, db[<<a, h>>] # None, h < Base, Filling(a) => Filling(a)' \/ Sound(a)'
  PROVE  Sound(a)' \/ Filling(a)'
<1>1. Sound(a) \/ Filling(a)
  BY DEF EarlyBarsInv, Stored
<1> QED BY <1>1, RowsOfAsset

\* Steps that keep the run's place and store nothing before Base.
LEMMA HolesQuiet ==
  ASSUME IInv, [Next]_vars, EarlyBarsInv, FillingInv, LeftoverInv, CoverInv,
         UNCHANGED <<run, pc, asset, mode, cursor, stopBefore, cand, readAt, orig, cur, began>>,
         \A k \in Bars : db'[k] # None => db[k] # None \/ Base <= k[2]
  PROVE  EarlyBarsInv' /\ FillingInv' /\ LeftoverInv' /\ CoverInv'
<1>1. \A a \in Assets : Filling(a)' = Filling(a)
  BY DEF Filling
<1>2. EarlyBarsInv'
  <2> SUFFICES ASSUME NEW a \in Assets, NEW h \in Hours, db'[<<a, h>>] # None, h < Base
               PROVE  Sound(a)' \/ Filling(a)'
    BY DEF EarlyBarsInv, Stored
  <2>1. db[<<a, h>>] # None
    <3>1. <<a, h>> \in Bars /\ h \in Nat
      BY BarFacts, ConstantFacts
    <3> QED BY <3>1, BaseFacts
  <2> QED BY <1>1, <2>1, EarlyStays
<1>3. FillingInv'
  BY RowsOfAsset, CurrentAsset DEF FillingInv, IInv
<1>4. LeftoverInv'
  BY RowsOfAsset, BarFacts DEF LeftoverInv
<1>5. CoverInv'
  <2>1. \A k \in Bars : Passed(k)' => Passed(k)
    BY DEF Passed
  <2>2. pc \notin {"idle", "catch"} => CoversPassed'
    BY <2>1, PassedStaysCovered DEF CoverInv, CoversPassed
  <2>3. run.status = "succeeded" => CoversAll'
    BY AllStaysCovered DEF CoverInv, CoversAll
  <2> QED BY <2>2, <2>3 DEF CoverInv, CoversPassed, CoversAll
<1> QED BY <1>2, <1>3, <1>4, <1>5

\* A run begins: nothing is passed, and no asset is being filled.
LEMMA HolesStart ==
  ASSUME IInv, [Next]_vars, ReconcileInv, EarlyBarsInv, SyncStart
  PROVE  EarlyBarsInv' /\ FillingInv' /\ LeftoverInv' /\ CoverInv'
<1>1. pc = "idle" /\ pc' = "plan" /\ asset = 1 /\ UNCHANGED <<db, asset, cut>>
  BY DEF SyncStart, ReconcileInv, plan
<1>2. run'.status = "running"
  <2>1. run' = [status |-> "running", startedAt |-> host]
    BY DEF SyncStart
  <2> QED BY <2>1
<1>3. \A k \in Bars : ~Passed(k)'
  BY <1>1 DEF Passed
<1>4. EarlyBarsInv'
  BY <1>1 DEF EarlyBarsInv, Stored, Filling, Fetching, OnTheWay, Whole, Sound
<1> QED BY <1>1, <1>2, <1>3, <1>4 DEF FillingInv, LeftoverInv, CoverInv, Fetching, OnTheWay

\* The plan is right: an early bar stands for all of them, and a backfill goes up
\* to Base at least unless they are there already.
LEMMA HolesPlan ==
  ASSUME IInv, [Next]_vars, LateSocketInv, EarlyBarsInv, CoverInv,
         SkipBackfill \/ BeginBackfill
  PROVE  EarlyBarsInv' /\ FillingInv' /\ LeftoverInv' /\ CoverInv'
<1>1. /\ pc = "plan" /\ pc' = "request" /\ UNCHANGED <<db, run, asset, began, cut>>
  BY DEF SkipBackfill, BeginBackfill, history
<1>2. TypeOK /\ Catalog[asset] \in Assets
  BY CurrentAsset DEF IInv
<1>3. \A a \in Assets : (\E h \in Stored(a) : h < Base) => Sound(a)
  BY <1>1 DEF EarlyBarsInv, Filling, Fetching, OnTheWay
<1>4. EarlyBarsInv'
  BY <1>1, <1>3 DEF EarlyBarsInv, Stored, Whole, Sound
<1>5. ASSUME SkipBackfill PROVE FillingInv'
  <2>1. mode' = "recent"
    BY <1>5 DEF SkipBackfill
  <2>2. PICK h \in Stored(Catalog[asset]) : h <= 2
    BY <1>5 DEF SkipBackfill, HistoryLooksComplete
  <2>3. h \in Nat
    BY <2>2, ConstantFacts DEF Stored
  <2>4. Base = 1 => Sound(Catalog[asset])
    <3>1. \A x \in Hours : x >= 1 /\ x \in Nat
      BY ConstantFacts DEF Hours
    <3> QED BY <3>1 DEF Whole, Sound
  <2>5. Base > 2 => h < Base
    BY <2>2, <2>3, BaseFacts
  <2>6. Sound(Catalog[asset])
    BY <1>2, <1>3, <2>2, <2>4, <2>5, BaseFacts
  <2> QED BY <1>1, <2>1, <2>6 DEF FillingInv, Whole, Sound
<1>6. ASSUME BeginBackfill PROVE FillingInv'
  <2>1. mode' = "backfill"
    BY <1>6 DEF BeginBackfill
  <2>2. stopBefore' = host + 1 \/ stopBefore' \in Stored(Catalog[asset])
    BY <1>6 DEF BeginBackfill
  <2>3. CASE stopBefore' = host + 1
    <3>1. StartClock <= host + MaxDrift
      <4>1. StartClock <= clock /\ clock <= host + MaxDrift
        BY <1>2, RunNumbers DEF LateSocketInv
      <4> QED BY <1>2, <4>1, RunNumbers, ConstantFacts
    <3>2. Base <= host + 1
      BY <1>2, <3>1, RunNumbers, BaseFacts
    <3> QED BY <2>1, <2>3, <3>2 DEF FillingInv
  <2>4. CASE stopBefore' \in Stored(Catalog[asset])
    <3>1. stopBefore' < Base => Sound(Catalog[asset])
      BY <1>2, <1>3, <2>4
    <3>2. stopBefore' \in Nat
      BY <2>4, ConstantFacts DEF Stored
    <3>3. Base <= stopBefore' \/ Sound(Catalog[asset])
      BY <3>1, <3>2, BaseFacts
    <3> QED BY <1>1, <2>1, <3>3 DEF FillingInv, Whole, Sound
  <2> QED BY <2>2, <2>3, <2>4
<1>7. CoverInv'
  BY <1>1 DEF CoverInv, Passed, Covered, OnTheWay
<1> QED BY <1>1, <1>4, <1>5, <1>6, <1>7 DEF LeftoverInv

\* What a finished backfill means for the hours before Base.
LEMMA FilledIsWhole ==
  ASSUME IInv, [Next]_vars, BackfillLeavesNoHole', LateSocketInv, FillingInv, pc \in Fetching,
         mode = "backfill", pc' = "request", mode' = "recent",
         UNCHANGED <<asset, stopBefore, began>>
  PROVE  Sound(Catalog[asset])'
<1>1. TypeOK /\ Catalog[asset] \in Assets
  BY CurrentAsset DEF IInv
<1>2. CASE Sound(Catalog[asset])
  BY <1>1, <1>2, RowsOfAsset
<1>3. CASE Base <= stopBefore
  <2> SUFFICES ASSUME NEW h \in Hours, ListedAt <= h, h < Base
               PROVE  db'[<<Catalog[asset], h>>] # None
    BY DEF Whole, Sound
  <2>1. h \in Nat /\ stopBefore \in Nat /\ began \in Nat
    BY <1>1, ConstantFacts, RunNumbers
  <2>2. StartClock <= began
    BY DEF LateSocketInv, Fetching, OnTheWay
  <2>3. h < stopBefore /\ h <= began
    BY <1>3, <2>1, <2>2, BaseFacts, ConstantFacts
  <2> QED BY <2>3 DEF BackfillLeavesNoHole
<1> QED BY <1>2, <1>3 DEF FillingInv

LEMMA HolesEmpty ==
  ASSUME IInv, [Next]_vars, BackfillLeavesNoHole', LateSocketInv,
         EarlyBarsInv, FillingInv, CoverInv, EmptyPage
  PROVE  EarlyBarsInv' /\ FillingInv' /\ LeftoverInv' /\ CoverInv'
<1>1. /\ pc = "request" /\ pc' = "request" /\ mode = "backfill" /\ mode' = "recent"
      /\ UNCHANGED <<db, run, asset, stopBefore, began, cut>>
  BY DEF EmptyPage, history
<1>2. Sound(Catalog[asset])'
  BY <1>1, FilledIsWhole DEF Fetching
<1>3. EarlyBarsInv'
  <2> SUFFICES ASSUME NEW a \in Assets, NEW h \in Hours, db[<<a, h>>] # None, h < Base
               PROVE  Sound(a)' \/ Filling(a)'
    BY <1>1 DEF EarlyBarsInv, Stored
  <2>1. Filling(a) => Sound(a)'
    BY <1>1, <1>2 DEF Filling
  <2> QED BY <2>1, EarlyStays
<1>4. FillingInv'
  BY <1>1, <1>2 DEF FillingInv
<1> QED BY <1>1, <1>3, <1>4 DEF LeftoverInv, CoverInv, Passed, Covered, OnTheWay

\* The recent page has every hour from Base on.
LEMMA HolesRequest ==
  ASSUME IInv, [Next]_vars, ReconcileInv, EarlyBarsInv, FillingInv, CoverInv, Request
  PROVE  EarlyBarsInv' /\ FillingInv' /\ LeftoverInv' /\ CoverInv'
<1>1. /\ pc = "request" /\ pc' = "parse" /\ readAt' = clock
      /\ UNCHANGED <<db, run, asset, mode, cursor, stopBefore, began, cut>>
  BY DEF Request, plan, history
<1>2. TypeOK /\ clock \in Hours /\ \A h \in Hours : <<Catalog[asset], h>> \in Bars
  BY CurrentAsset DEF IInv, TypeOK
<1>3. EarlyBarsInv' /\ FillingInv'
  BY <1>1 DEF EarlyBarsInv, FillingInv, Filling, Fetching, OnTheWay, Stored, Whole, Sound
<1>4. ASSUME mode = "recent", NEW h \in Hours, ListedAt <= h, Base <= h, h <= clock
      PROVE  cand'[<<Catalog[asset], h>>] # None
  <2>1. clock - Limit < h
    <3>1. clock - Limit < Base /\ Base \in Nat
      BY <1>2, BaseFacts
    <3> QED BY <1>2, <1>4, <3>1, RunNumbers, ConstantFacts
  <2>2. h \in Page
    BY <1>4, <2>1 DEF Page
  <2>3. cand'[<<Catalog[asset], h>>] = [final |-> FALSE, ver |-> truth[<<Catalog[asset], h>>]]
    BY <1>2, <2>2 DEF Request
  <2>4. [final |-> FALSE, ver |-> truth[<<Catalog[asset], h>>]] \in Row
    BY <1>2 DEF Row, TypeOK
  <2> QED BY <2>3, <2>4, NoneIsNoRow
<1>5. \A k \in Bars : Passed(k)' = Passed(k) /\ Covered(k)' = Covered(k)
  BY <1>1 DEF Passed, Covered
<1>6. began <= clock
  BY DEF ReconcileInv
<1> QED BY <1>1, <1>3, <1>4, <1>5, <1>6 DEF LeftoverInv, CoverInv

LEMMA HolesPage ==
  ASSUME IInv, [Next]_vars, EarlyBarsInv, FillingInv, CoverInv, Parse \/ Load
  PROVE  EarlyBarsInv' /\ FillingInv' /\ LeftoverInv' /\ CoverInv'
<1>1. /\ pc \in OnTheWay /\ pc' \in {"load", "save"}
      /\ UNCHANGED <<db, run, asset, mode, cursor, stopBefore, readAt, began, cut>>
  BY DEF Parse, Load, plan, history, OnTheWay
<1>2. \A h \in Hours : cand[<<Catalog[asset], h>>] # None => cand'[<<Catalog[asset], h>>] # None
  BY PageKept, CurrentAsset DEF IInv
<1>3. EarlyBarsInv' /\ FillingInv'
  BY <1>1 DEF EarlyBarsInv, FillingInv, Filling, Fetching, OnTheWay, Stored, Whole, Sound
<1>4. \A k \in Bars : (Passed(k)' => Passed(k)) /\ (Covered(k) => Covered(k)')
  <2>1. pc # "finish" /\ pc' # "finish"
    BY <1>1 DEF OnTheWay
  <2> QED BY <1>1, <2>1 DEF Passed, Covered
<1>5. pc \notin {"idle", "catch"}
  BY <1>1 DEF OnTheWay
<1> QED BY <1>1, <1>2, <1>3, <1>4, <1>5 DEF LeftoverInv, CoverInv

\* A commit stores the page, and nothing of other assets.
LEMMA SavedPage ==
  ASSUME IInv, BackfillInv, Save, NEW k \in Bars
  PROVE  /\ cand[k] # None => db'[k] # None
         /\ k[1] # Catalog[asset] => db'[k] = db[k]
<1>1. TypeOK /\ CoreInv /\ ~SyncConflict /\ pc = "save" /\ db' = AfterSave
  BY DEF IInv, CoreInv, Save
<1>2. cand[k] # None => cur[k] # None /\ k[1] = Catalog[asset]
  BY <1>1 DEF BackfillInv, PageRunInv, OnTheWay
<1>3. cand[k] = None => cur[k] = orig[k]
  BY DEF IInv, PendingInv
<1> QED BY <1>1, <1>2, <1>3, AfterSaveRow

\* A page of a backfill: the asset is still being filled, or filled.
LEMMA HolesSaveBackfill ==
  ASSUME IInv, [Next]_vars, BackfillInv, BackfillLeavesNoHole', ReconcileInv, LateSocketInv,
         EarlyBarsInv, FillingInv, CoverInv, Save, mode = "backfill"
  PROVE  EarlyBarsInv' /\ FillingInv' /\ CoverInv'
<1>1. /\ pc = "save" /\ pc \in Fetching /\ pc \in OnTheWay /\ pc' = "request"
      /\ UNCHANGED <<run, asset, stopBefore, readAt, began, cut>> /\ run.status = "running"
  BY DEF Save, Continue, ReconcileInv, Fetching, OnTheWay
<1>2. TypeOK /\ Catalog[asset] \in Assets
  BY CurrentAsset DEF IInv
<1>3. mode' \in {"backfill", "recent"} /\ cursor' > 1
  <2>1. PICK x \in Hours : cursor' = x + 1 /\ mode' \in {"backfill", "recent"}
    BY DEF Save, Continue
  <2>2. x \in Nat /\ x >= 1
    BY ConstantFacts DEF Hours
  <2> QED BY <2>1, <2>2
<1>4. mode' = "recent" => Sound(Catalog[asset])'
  BY <1>1, FilledIsWhole
<1>5. EarlyBarsInv'
  <2> SUFFICES ASSUME NEW a \in Assets, NEW h \in Hours, db'[<<a, h>>] # None, h < Base
               PROVE  Sound(a)' \/ Filling(a)'
    BY DEF EarlyBarsInv, Stored
  <2>1. CASE a = Catalog[asset]
    BY <1>1, <1>3, <1>4, <2>1 DEF Filling, Fetching
  <2>2. CASE a # Catalog[asset]
    <3>1. <<a, h>> \in Bars /\ <<a, h>>[1] = a
      BY BarFacts
    <3>2. db[<<a, h>>] # None
      BY <2>2, <3>1, SavedPage
    <3>3. ~Filling(a)
      BY <2>2 DEF Filling
    <3> QED BY <3>2, <3>3, EarlyStays
  <2> QED BY <2>1, <2>2
<1>6. FillingInv'
  <2>1. Sound(Catalog[asset]) => Sound(Catalog[asset])'
    BY <1>1, <1>2, RowsOfAsset
  <2>2. Base <= stopBefore \/ Sound(Catalog[asset])
    BY <1>1 DEF FillingInv
  <2>3. CASE mode' = "backfill"
    BY <1>1, <2>1, <2>2, <2>3 DEF FillingInv
  <2>4. CASE mode' = "recent"
    BY <1>1, <1>4, <2>4 DEF FillingInv
  <2> QED BY <1>3, <2>3, <2>4
<1>7. CoverInv'
  <2>1. \A k \in Bars : Passed(k)' => Passed(k)
    BY <1>1 DEF Passed
  <2>2. CoversPassed'
    BY <1>1, <2>1, PassedStaysCovered DEF CoverInv, CoversPassed
  <2> QED BY <1>1, <2>2 DEF CoverInv, CoversPassed, OnTheWay
<1> QED BY <1>5, <1>6, <1>7

\* The recent page: with it the asset is covered.
LEMMA HolesSaveRecent ==
  ASSUME IInv, [Next]_vars, BackfillInv, ReconcileInv,
         EarlyBarsInv, FillingInv, CoverInv, Save, mode # "backfill"
  PROVE  EarlyBarsInv' /\ FillingInv' /\ CoverInv'
<1>1. /\ pc = "save" /\ pc \in Fetching /\ pc \in OnTheWay /\ run.status = "running"
      /\ mode = "recent" /\ pc' \in {"plan", "finish"} /\ pc' \notin Fetching
      /\ UNCHANGED <<run, readAt, began, cut>>
  BY DEF Save, Continue, ReconcileInv, Fetching, OnTheWay
<1>2. TypeOK /\ Catalog[asset] \in Assets
  BY CurrentAsset DEF IInv
<1>3. Sound(Catalog[asset])
  BY <1>1 DEF FillingInv
<1>4. EarlyBarsInv'
  <2> SUFFICES ASSUME NEW a \in Assets, NEW h \in Hours, db'[<<a, h>>] # None, h < Base
               PROVE  Sound(a)' \/ Filling(a)'
    BY DEF EarlyBarsInv, Stored
  <2>1. CASE a = Catalog[asset]
    BY <1>3, <2>1, RowsOfAsset
  <2>2. CASE a # Catalog[asset]
    <3>1. <<a, h>> \in Bars /\ <<a, h>>[1] = a
      BY BarFacts
    <3>2. db[<<a, h>>] # None
      BY <2>2, <3>1, SavedPage
    <3>3. ~Filling(a)
      BY <2>2 DEF Filling
    <3> QED BY <3>2, <3>3, EarlyStays
  <2> QED BY <2>1, <2>2
<1>5. ASSUME NEW k \in Bars, Passed(k)', ~Passed(k), k[1] \notin cut,
             ListedAt <= k[2], k[2] <= began
      PROVE  db'[k] # None
  <2>1. k = <<Catalog[asset], k[2]>> /\ k[2] \in Hours /\ k[2] \in Nat /\ k[1] = Catalog[asset]
    BY <1>2, <1>5, PassedBySave, BarFacts DEF Bars
  <2>2. CASE k[2] < Base
    <3>1. Whole(Catalog[asset])
      BY <1>3, <1>5, <2>1 DEF Sound
    <3>2. db[k] # None
      BY <1>5, <2>1, <2>2, <3>1 DEF Whole
    <3> QED BY <3>2, RowsStay
  <2>3. CASE ~(k[2] < Base)
    <3>1. Base <= k[2]
      BY <2>1, <2>3, BaseFacts
    <3>2. began <= readAt
      BY <1>1 DEF CoverInv
    <3>3. k[2] <= readAt
      BY <1>2, <1>5, <2>1, <3>2, RunNumbers
    <3>4. cand[k] # None
      BY <1>1, <1>5, <2>1, <3>1, <3>3 DEF CoverInv
    <3> QED BY <3>4, SavedPage
  <2> QED BY <2>2, <2>3
<1>6. CoversPassed'
  <2> SUFFICES ASSUME NEW k \in Bars, Passed(k)', k[1] \notin cut PROVE Covered(k)'
    BY <1>1 DEF CoversPassed
  <2>1. CASE Passed(k)
    BY <1>1, <2>1, CoveredStays DEF CoverInv
  <2>2. CASE ~Passed(k)
    BY <1>1, <1>5, <2>2 DEF Covered
  <2> QED BY <2>1, <2>2
<1>7. CoverInv'
  <2>1. pc' \notin OnTheWay
    BY <1>1 DEF Fetching
  <2> QED BY <1>1, <1>6, <2>1 DEF CoverInv, CoversPassed
<1> QED BY <1>1, <1>4, <1>7 DEF FillingInv

\* A run that succeeds has passed every asset.
LEMMA HolesFinish ==
  ASSUME IInv, [Next]_vars, EarlyBarsInv, CoverInv, Finish
  PROVE  EarlyBarsInv' /\ FillingInv' /\ LeftoverInv' /\ CoverInv'
<1>1. pc = "finish" /\ pc' = "idle" /\ UNCHANGED <<db, began, cut>>
  BY DEF Finish, history
<1>2. CoversAll
  BY <1>1 DEF CoverInv, Passed, CoversAll
<1>3. CoversAll'
  BY <1>1, <1>2, AllStaysCovered
<1>4. EarlyBarsInv'
  BY <1>1 DEF EarlyBarsInv, Filling, Fetching, OnTheWay, Stored, Whole, Sound
<1> QED BY <1>1, <1>3, <1>4 DEF FillingInv, LeftoverInv, CoverInv, CoversAll, Fetching, OnTheWay

\* An asset that a failing step leaves half filled is noted as cut.
LEMMA CutIsNoted ==
  ASSUME IInv, [Next]_vars, EarlyBarsInv, NoteCut, db' = db
  PROVE  EarlyBarsInv'
<1> SUFFICES ASSUME NEW a \in Assets, NEW h \in Hours, db[<<a, h>>] # None, h < Base
             PROVE  Sound(a)' \/ Filling(a)'
  BY DEF EarlyBarsInv, Stored
<1>1. ASSUME Filling(a) PROVE Sound(a)'
  <2>1. HalfStored /\ a = Catalog[asset]
    BY <1>1 DEF Filling, HalfStored
  <2> QED BY <2>1 DEF NoteCut, Sound
<1> QED BY <1>1, EarlyStays

LEMMA HolesFail ==
  ASSUME IInv, [Next]_vars, BackfillInv, EarlyBarsInv, FillingInv, CoverInv, ReconcileInv,
         SaveConflict \/ Fail
  PROVE  EarlyBarsInv' /\ FillingInv' /\ LeftoverInv' /\ CoverInv'
<1>1. /\ UNCHANGED <<db, run, plan, context, began>> /\ pc' = "catch" /\ NoteCut
      /\ pc \notin {"idle", "catch"}
  BY DEF SaveConflict, Fail
<1>2. run.status = "running"
  BY <1>1 DEF ReconcileInv
<1>3. EarlyBarsInv'
  BY <1>1, CutIsNoted
<1>4. ASSUME NEW k \in Bars, cur[k] # orig[k] PROVE Sound(k[1])'
  <2>1. pc = "save" /\ cand[k] # None
    BY <1>1, <1>4 DEF IInv, PendingInv
  <2>2. k[1] = Catalog[asset] /\ k[1] \in Assets
    BY <2>1, BarFacts DEF BackfillInv, PageRunInv, OnTheWay
  <2>3. CASE mode = "backfill"
    <3>1. HalfStored
      BY <2>1, <2>3 DEF HalfStored
    <3> QED BY <1>1, <2>2, <3>1 DEF NoteCut, Sound
  <2>4. CASE mode # "backfill"
    <3>1. Sound(Catalog[asset])
      BY <2>1, <2>4 DEF FillingInv, Fetching, OnTheWay
    <3> QED BY <2>2, <3>1, RowsOfAsset
  <2> QED BY <2>3, <2>4
<1>5. LeftoverInv'
  BY <1>1, <1>4 DEF LeftoverInv, context
<1> QED BY <1>1, <1>2, <1>3, <1>5 DEF FillingInv, CoverInv, Fetching, OnTheWay

\* The catch block's save writes what is left of sound assets only.
LEMMA HolesCatchSave ==
  ASSUME IInv, [Next]_vars, EarlyBarsInv, LeftoverInv, CatchSave
  PROVE  EarlyBarsInv' /\ FillingInv' /\ LeftoverInv' /\ CoverInv'
<1>1. /\ pc = "catch" /\ pc' = "idle" /\ db' = AfterSave /\ ~SyncConflict
  BY DEF CatchSave
<1>2. run'.status = "failed"
  BY DEF CatchSave, IInv, TypeOK
<1>3. EarlyBarsInv'
  <2> SUFFICES ASSUME NEW a \in Assets, NEW h \in Hours, db'[<<a, h>>] # None, h < Base
               PROVE  Sound(a)' \/ Filling(a)'
    BY DEF EarlyBarsInv, Stored
  <2>1. <<a, h>> \in Bars /\ <<a, h>>[1] = a
    BY BarFacts
  <2>2. CASE cur[<<a, h>>] # orig[<<a, h>>]
    <3>1. Sound(a)
      BY <1>1, <2>1, <2>2 DEF LeftoverInv
    <3> QED BY <3>1, RowsOfAsset
  <2>3. CASE cur[<<a, h>>] = orig[<<a, h>>]
    <3>1. db[<<a, h>>] # None
      BY <1>1, <2>1, <2>3, AfterSaveRow DEF IInv, CoreInv
    <3>2. ~Filling(a)
      BY <1>1 DEF Filling, Fetching, OnTheWay
    <3> QED BY <3>1, <3>2, EarlyStays
  <2> QED BY <2>2, <2>3
<1> QED BY <1>1, <1>2, <1>3 DEF FillingInv, LeftoverInv, CoverInv, Fetching, OnTheWay

\* A run whose last save is lost stays "running"; a crash ends whatever runs.
LEMMA HolesLost ==
  ASSUME IInv, [Next]_vars, ReconcileInv, EarlyBarsInv, CoverInv, CatchLost \/ Crash
  PROVE  EarlyBarsInv' /\ FillingInv' /\ LeftoverInv' /\ CoverInv'
<1>1. /\ pc' = "idle" /\ UNCHANGED <<db, run, began>>
      /\ NoteCut \/ (pc = "catch" /\ cut' = cut)
  BY DEF CatchLost, Crash, history
<1>2. EarlyBarsInv'
  <2>1. CASE NoteCut
    BY <1>1, <2>1, CutIsNoted
  <2>2. CASE pc = "catch" /\ cut' = cut
    BY <1>1, <2>2 DEF EarlyBarsInv, Filling, Fetching, OnTheWay, Stored, Whole, Sound
  <2> QED BY <1>1, <2>1, <2>2
<1>3. run.status = "succeeded" => CoversAll'
  BY <1>1, AllStaysCovered DEF CoverInv, CoversAll
<1> QED BY <1>1, <1>2, <1>3 DEF FillingInv, LeftoverInv, CoverInv, CoversAll, Fetching, OnTheWay

LEMMA HoleStep ==
  ASSUME IInv, ReconcileInv, BackfillInv, HoleInv, [Next]_vars
  PROVE  HoleInv'
<1>1. LateSocketInv'
  BY LateSocketStep DEF HoleInv
<1>2. BackfillLeavesNoHole'
  BY BackfillStep DEF BackfillInv
<1> SUFFICES EarlyBarsInv' /\ FillingInv' /\ LeftoverInv' /\ CoverInv'
  BY <1>1 DEF HoleInv
<1>3. LateSocketInv /\ EarlyBarsInv /\ FillingInv /\ LeftoverInv /\ CoverInv
  BY DEF HoleInv
<1>4. CASE ExchangeStep \/ WsConnect \/ WsDrop \/ (\E k \in Bars : WsLoad(k)) \/ UNCHANGED vars
  <2>1. UNCHANGED <<db, run, pc, asset, mode, cursor, stopBefore, cand, readAt, orig, cur, began>>
    BY <1>4 DEF ExchangeStep, Close, HostTick, Trade, WsConnect, WsDrop, WsLoad, vars, plan,
      context, history
  <2> QED BY <1>3, <2>1, HolesQuiet
<1>5. CASE WsSave
  <2>1. UNCHANGED <<run, pc, asset, mode, cursor, stopBefore, cand, readAt, orig, cur, began>>
    BY <1>5 DEF WsSave, plan, context, history
  <2>2. /\ wsBar \in Bars /\ StartClock <= wsBar[2] /\ wsBar[2] \in Nat
        /\ \A k \in Bars \ {wsBar} : db'[k] = db[k]
    <3>1. ws = "loaded" /\ TypeOK /\ CoreInv
      BY <1>5 DEF WsSave, IInv, CoreInv
    <3> QED BY <1>3, <1>5, <3>1, WsSaveRow, BarFacts DEF LateSocketInv
  <2>3. Base <= wsBar[2]
    BY <2>2, BaseFacts, ConstantFacts
  <2>4. \A k \in Bars : db'[k] # None => db[k] # None \/ Base <= k[2]
    BY <2>2, <2>3
  <2> QED BY <1>3, <2>1, <2>4, HolesQuiet
<1>6. CASE SyncStart \/ SkipBackfill \/ BeginBackfill \/ EmptyPage
  BY <1>2, <1>3, <1>6, HolesStart, HolesPlan, HolesEmpty
<1>7. CASE Request \/ Parse \/ Load
  BY <1>3, <1>7, HolesRequest, HolesPage
<1>8. CASE Save
  <2>1. EarlyBarsInv' /\ FillingInv' /\ CoverInv'
    BY <1>2, <1>3, <1>8, HolesSaveBackfill, HolesSaveRecent
  <2>2. pc' # "catch"
    BY <1>8 DEF Save, Continue
  <2> QED BY <2>1, <2>2 DEF LeftoverInv
<1>9. CASE Finish \/ CatchSave \/ CatchLost \/ Crash
  BY <1>3, <1>9, HolesFinish, HolesCatchSave, HolesLost
<1>10. CASE SaveConflict \/ Fail
  BY <1>3, <1>10, HolesFail
<1> QED BY <1>4, <1>5, <1>6, <1>7, <1>8, <1>9, <1>10 DEF Next, WsStep, SyncStep

(***************************************************************************)
(* The earliest stored bar, all that BackfillInferenceHistoryAsync looks   *)
(* at before it skips, misleads it about an asset only after a run that    *)
(* ended in the middle of that asset's backfill: for every other asset a   *)
(* succeeded run leaves the window without a hole, for every catalog,      *)
(* listing date, drift and horizon of one day, whatever fails elsewhere    *)
(* and whatever the socket stores before, between and during the runs.     *)
(***************************************************************************)
THEOREM UncutHistoryIsWhole == Spec => []OnlyCutBackfillsLeaveHoles
<1>1. Init => ReconcileInv /\ BackfillInv /\ HoleInv
  <2> SUFFICES ASSUME Init PROVE ReconcileInv /\ BackfillInv /\ HoleInv
    OBVIOUS
  <2>1. run.status = "none" /\ pc = "idle" /\ StartClock \in Nat
    BY ConstantFacts DEF Init
  <2>2. LateSocketInv
    BY <2>1 DEF Init, LateSocketInv
  <2>3. EarlyBarsInv
    <3>1. \A a \in Assets, h \in Hours : db[<<a, h>>] = None
      BY BarFacts DEF Init, Blank
    <3> QED BY <3>1 DEF EarlyBarsInv, Stored
  <2>4. FillingInv /\ LeftoverInv /\ CoverInv
    BY <2>1 DEF FillingInv, LeftoverInv, CoverInv, Fetching, OnTheWay
  <2> QED BY <2>2, <2>3, <2>4, InitReconcile, InitBackfill DEF HoleInv
<1>2. IInv /\ ReconcileInv /\ BackfillInv /\ HoleInv /\ [Next]_vars
        => ReconcileInv' /\ BackfillInv' /\ HoleInv'
  BY ReconcileStep, BackfillStep, HoleStep
<1>3. HoleInv => OnlyCutBackfillsLeaveHoles
  BY DEF HoleInv, CoverInv, Covered, OnlyCutBackfillsLeaveHoles
<1> QED BY <1>1, <1>2, <1>3, InvariantHolds, PTL DEF Spec
=============================================================================
