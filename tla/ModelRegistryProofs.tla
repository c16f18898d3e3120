------------------------ MODULE ModelRegistryProofs -------------------------
(***************************************************************************)
(* Theorems about ModelRegistry for every number of models, groups and     *)
(* faults: type correctness, the uniqueness of the shadow candidate, and   *)
(* which models a run leaves in production.                                *)
(***************************************************************************)
EXTENDS ModelRegistry, TLAPS

\* What the constants are.
LEMMA ModelFacts == Models \subseteq Nat /\ N \in Nat /\ MaxFaults \in Nat
BY RegistryBounds DEF Models

LEMMA BlankRows == Blank \in [Models -> MaybeRow]
BY DEF Blank, MaybeRow

\* A row's fields are Booleans, and a row is never None.
LEMMA RowFacts ==
  /\ \A r \in MaybeRow : r # None =>
       r \in Row /\ r.production \in BOOLEAN /\ r.shadow \in BOOLEAN
  /\ \A p, s \in BOOLEAN :
       [production |-> p, shadow |-> s] \in Row /\ [production |-> p, shadow |-> s] # None
BY NoneIsNoVersion DEF MaybeRow, Row

\* The columns of a row after SaveChanges.
LEMMA SavedColumns ==
  ASSUME TypeOK, NEW m \in Models, ScannedInv(m)
  PROVE  /\ Saved(m) \in MaybeRow
         /\ (cur[m] = None => Saved(m) = db[m])
         /\ (cur[m] # None => Saved(m) # None /\ Saved(m).shadow = cur[m].shadow)
         /\ (Saved(m) # None /\ Saved(m).shadow => db[m] # None /\ db[m].shadow)
<1>1. db[m] \in MaybeRow /\ cur[m] \in MaybeRow /\ orig[m] \in MaybeRow
  BY DEF TypeOK
<1>2. CASE cur[m] = None
  BY <1>1, <1>2 DEF Saved
<1>3. CASE cur[m] # None /\ orig[m] = None
  BY <1>1, <1>3 DEF Saved, ScannedInv
<1>4. CASE cur[m] # None /\ orig[m] # None
  <2>1. db[m] # None /\ orig[m].shadow = db[m].shadow
    BY <1>4 DEF ScannedInv
  <2>2. Saved(m) =
          [production |-> Changed(orig[m].production, cur[m].production, db[m].production),
           shadow     |-> Changed(orig[m].shadow, cur[m].shadow, db[m].shadow)]
    BY <1>4 DEF Saved
  <2>3. Changed(orig[m].shadow, cur[m].shadow, db[m].shadow) = cur[m].shadow
    BY <2>1 DEF Changed
  <2>4. /\ Changed(orig[m].production, cur[m].production, db[m].production) \in BOOLEAN
        /\ cur[m].shadow \in BOOLEAN
    BY <1>1, <1>4, <2>1, RowFacts DEF Changed
  <2>5. Saved(m) \in Row /\ Saved(m) # None /\ Saved(m).shadow = cur[m].shadow
    BY <2>2, <2>3, <2>4, RowFacts
  <2>6. cur[m].shadow => db[m].shadow
    BY <1>4, <2>1 DEF ScannedInv
  <2> QED BY <1>4, <2>1, <2>5, <2>6 DEF MaybeRow
<1> QED BY <1>2, <1>3, <1>4

\* A row saved as candidate is not saved as production.
LEMMA SavedCandidate ==
  ASSUME TypeOK, OneCandidate, NEW m \in Models, ScannedInv(m),
         Saved(m) # None, Saved(m).shadow
  PROVE  ~Saved(m).production
<1>1. db[m] # None /\ db[m].shadow /\ ~db[m].production
  BY SavedColumns DEF OneCandidate, IsCandidate, Serves
<1>2. CASE cur[m] = None
  BY <1>1, <1>2, SavedColumns
<1>3. CASE cur[m] # None
  <2>1. orig[m] # None /\ cur[m].shadow
    BY <1>1, <1>3, SavedColumns DEF ScannedInv
  <2>2. cur[m].production = orig[m].production
    BY <2>1 DEF ScannedInv
  <2>3. Saved(m).production = db[m].production
    BY <1>3, <2>1, <2>2 DEF Saved, Changed
  <2> QED BY <1>1, <2>3
<1> QED BY <1>2, <1>3
-----------------------------------------------------------------------------
LEMMA InitIInv == Init => IInv
<1> SUFFICES ASSUME Init PROVE IInv
  OBVIOUS
<1>1. \A m \in Models : db[m] = None
  BY DEF Init, Blank
<1>2. TypeOK
  BY BlankRows, ModelFacts DEF Init, TypeOK
<1>3. OneCandidate /\ ContextInv
  BY <1>1 DEF Init, OneCandidate, ContextInv, IsCandidate, Serves
<1> QED BY <1>2, <1>3 DEF IInv

\* Steps that leave the table and the context alone.
LEMMA QuietStep ==
  ASSUME IInv, Start \/ DiskStep
  PROVE  IInv'
<1>1. UNCHANGED <<db, context, last, faults>>
  BY DEF Start, DiskStep, Publish, CopyManifest, CopyRest
<1>2. TypeOK'
  <2>1. disk' \in [Models -> {"absent", "torn", "bundle"}]
    BY DEF IInv, TypeOK, Start, DiskStep, Publish, CopyManifest, CopyRest
  <2>2. /\ pc' \in {"idle", "scan", "normalise"} /\ todo' \subseteq Models
        /\ todo' # {} => pc' = "scan"
    BY DEF IInv, TypeOK, Start, DiskStep, Publish, CopyManifest, CopyRest
  <2> QED BY <1>1, <2>1, <2>2 DEF IInv, TypeOK, context
<1>3. OneCandidate'
  BY <1>1 DEF IInv, OneCandidate, IsCandidate, Serves
<1>4. ContextInv'
  <2>1. CASE Start
    BY <1>1, <2>1 DEF Start, IInv, ContextInv, ScannedInv, context, Blank
  <2>2. CASE DiskStep
    BY <1>1, <2>2 DEF DiskStep, Publish, CopyManifest, CopyRest, IInv, ContextInv, ScannedInv,
      SavedInv, context
  <2> QED BY <2>1, <2>2
<1> QED BY <1>2, <1>3, <1>4 DEF IInv

\* What a run may want of a row it has just read from the table.
WantedOf(r, m) ==
  /\ r.shadow => db[m] # None /\ db[m].shadow
  /\ r.production => ~r.shadow
  /\ db[m] # None /\ r.production # db[m].production => r.production /\ ~r.shadow
  /\ db[m] # None /\ r.shadow # db[m].shadow => r.production /\ ~db[m].production

\* A manifest is processed: at most the production flags of others change.
LEMMA ProcessStep ==
  ASSUME IInv, NEW m \in Models, Register(m) \/ Promote(m)
  PROVE  IInv'
<1>1. /\ pc = "scan" /\ UNCHANGED <<disk, pc, last, faults>> /\ todo' = todo \ {m}
      /\ orig' = [orig EXCEPT ![m] = db[m]]
  BY DEF Register, Promote
<1>2. /\ db' \in [Models -> MaybeRow]
      /\ \A k \in Models : /\ (db'[k] = None) = (db[k] = None)
                           /\ db[k] # None => /\ db'[k].shadow = db[k].shadow
                                              /\ db'[k].production => db[k].production
  <2>1. CASE Register(m)
    BY <2>1 DEF Register, IInv, TypeOK
  <2>2. CASE Promote(m)
    <3>1. \A k \in Models : db'[k] =
            IF Demoted(k, m) THEN [production |-> FALSE, shadow |-> db[k].shadow] ELSE db[k]
      BY <2>2 DEF Promote
    <3>2. \A k \in Models : db[k] # None => db[k].shadow \in BOOLEAN
      BY RowFacts DEF IInv, TypeOK
    <3>3. \A k \in Models : Demoted(k, m) =>
            db[k] # None /\ db'[k] \in Row /\ db'[k] # None
      BY <3>1, <3>2, RowFacts DEF Demoted
    <3>4. \A k \in Models : db'[k] \in MaybeRow
      BY <3>1, <3>3 DEF IInv, TypeOK, MaybeRow
    <3>5. db' \in [Models -> MaybeRow]
      BY <2>2, <3>1, <3>4 DEF Promote
    <3> QED BY <3>1, <3>3, <3>5
  <2> QED BY <2>1, <2>2
<1>3. \E r \in Row : cur' = [cur EXCEPT ![m] = r] /\ WantedOf(r, m)
  <2>1. CASE Register(m)
    <3>1. cur' = [cur EXCEPT ![m] = Existing(m)]
      BY <2>1 DEF Register
    <3>2. CASE db[m] = None
      <4>1. Existing(m) = Unregistered /\ Unregistered \in Row /\ Unregistered.shadow = FALSE
            /\ Unregistered.production = FALSE
        BY <3>2 DEF Existing, Unregistered, Row
      <4> QED BY <3>1, <3>2, <4>1 DEF WantedOf
    <3>3. CASE db[m] # None
      <4>1. Existing(m) = db[m] /\ db[m] \in Row
        BY <3>3, RowFacts DEF Existing, IInv, TypeOK
      <4>2. db[m].shadow => ~db[m].production
        BY <3>3 DEF IInv, OneCandidate, IsCandidate, Serves
      <4> QED BY <3>1, <3>3, <4>1, <4>2 DEF WantedOf
    <3> QED BY <3>2, <3>3
  <2>2. CASE Promote(m)
    <3>1. cur' = [cur EXCEPT ![m] = [production |-> TRUE, shadow |-> FALSE]]
      BY <2>2 DEF Promote
    <3>2. [production |-> TRUE, shadow |-> FALSE] \in Row
      BY DEF Row
    <3> DEFINE r == [production |-> TRUE, shadow |-> FALSE]
    <3>3. r.production = TRUE /\ r.shadow = FALSE
      OBVIOUS
    <3>4. db[m] # None => ~db[m].production
      BY <2>2 DEF Promote, Promotable, Existing
    <3> QED BY <3>1, <3>2, <3>3, <3>4 DEF WantedOf
  <2> QED BY <2>1, <2>2
<1>4. PICK r \in Row : cur' = [cur EXCEPT ![m] = r] /\ WantedOf(r, m)
  BY <1>3
<1>a. r \in Row /\ cur' = [cur EXCEPT ![m] = r]
  BY <1>4, Zenon
<1>b. r # None
  BY <1>a, NoneIsNoVersion
<1>5. TypeOK'
  <2>1. r \in MaybeRow /\ db[m] \in MaybeRow
    BY <1>a DEF MaybeRow, IInv, TypeOK
  <2>2. cur' \in [Models -> MaybeRow]
    BY <1>a, <2>1 DEF IInv, TypeOK
  <2>3. orig' \in [Models -> MaybeRow]
    BY <1>1, <2>1 DEF IInv, TypeOK
  <2> QED BY <1>1, <1>2, <2>2, <2>3 DEF IInv, TypeOK
<1>6. OneCandidate'
  BY <1>2 DEF IInv, OneCandidate, IsCandidate, Serves
<1>7. ContextInv'
  <2>1. ASSUME NEW k \in Models PROVE ScannedInv(k)'
    <3>1. CASE k = m
      <4>1. orig'[k] = db[k] /\ cur'[k] = r
        BY <1>1, <1>a, <3>1 DEF IInv, TypeOK
      <4>2. r # None
        BY <1>b
      <4>3. (db'[k] = None) = (db[k] = None)
        BY <1>2
      <4>4. db[k] # None => db'[k].shadow = db[k].shadow
        BY <1>2
      <4>5. orig'[k] = None => db'[k] = None /\ ~cur'[k].shadow
        BY <1>4, <3>1, <4>1, <4>3 DEF WantedOf
      <4>6. orig'[k] # None =>
              /\ cur'[k] # None /\ db'[k] # None /\ orig'[k].shadow = db'[k].shadow
              /\ cur'[k].production # orig'[k].production => cur'[k].production /\ ~cur'[k].shadow
              /\ cur'[k].shadow # orig'[k].shadow =>
                   ~cur'[k].shadow /\ cur'[k].production /\ ~orig'[k].production
        BY <1>4, <3>1, <4>1, <4>2, <4>3, <4>4 DEF WantedOf
      <4>7. cur'[k].production => ~cur'[k].shadow
        BY <1>4, <4>1 DEF WantedOf
      <4> QED BY <4>5, <4>6, <4>7 DEF ScannedInv
    <3>2. CASE k # m
      <4>1. orig'[k] = orig[k] /\ cur'[k] = cur[k]
        BY <1>1, <1>a, <3>2 DEF IInv, TypeOK
      <4>3. ScannedInv(k)
        BY <1>1, Zenon DEF IInv, ContextInv
      <4>2. /\ (db'[k] = None) = (db[k] = None)
            /\ db[k] # None => db'[k].shadow = db[k].shadow
        BY <1>2
      <4> QED BY <4>1, <4>2, <4>3 DEF ScannedInv
    <3> QED BY <3>1, <3>2
  <2> QED BY <2>1, <1>1 DEF ContextInv
<1> QED BY <1>5, <1>6, <1>7 DEF IInv

\* The first save of a run adds no candidate.
LEMMA CommitStep ==
  ASSUME IInv, Commit
  PROVE  IInv'
<1>1. /\ pc' = "normalise" /\ todo = {} /\ orig' = cur /\ cur' = cur /\ UNCHANGED <<disk, todo, last, faults>>
      /\ db' = [k \in Models |-> Saved(k)]
      /\ \A k \in Models : ScannedInv(k)
      /\ TypeOK /\ OneCandidate
  BY DEF Commit, IInv, ContextInv
<1>2. \A k \in Models : db'[k] = Saved(k) /\ Saved(k) \in MaybeRow
  BY <1>1, SavedColumns
<1>3. TypeOK'
  BY <1>1, <1>2 DEF TypeOK
<1>4. OneCandidate'
  <2>1. \A k \in Models : IsCandidate(k)' => IsCandidate(k) /\ ~Serves(k)'
    BY <1>1, <1>2, SavedColumns, SavedCandidate DEF IsCandidate, Serves
  <2> QED BY <1>1, <2>1 DEF OneCandidate
<1>5. ContextInv'
  BY <1>1, <1>2, SavedColumns DEF ContextInv, SavedInv
<1> QED BY <1>3, <1>4, <1>5 DEF IInv

\* The second save leaves the newest of each group as the only candidate.
LEMMA NormaliseStep ==
  ASSUME IInv, Normalise
  PROVE  IInv'
<1>1. /\ pc' = "idle" /\ todo' = {} /\ orig' = Blank /\ cur' = Blank /\ last' = "succeeded"
      /\ UNCHANGED <<disk, faults>>
      /\ \A k \in Models : SavedInv(k)
      /\ TypeOK /\ OneCandidate
  BY DEF Normalise, EndRun, IInv, ContextInv
<1>2. \A k \in Models \ Shadows : db'[k] = db[k]
  BY DEF Normalise
<1>3. \A k \in Shadows : /\ db'[k] \in Row /\ db'[k] # None
                         /\ db'[k].production = FALSE
                         /\ db'[k].shadow = Winner(k)
  <2> TAKE k \in Shadows
  <2>1. k \in Models /\ db[k] # None /\ db[k] \in Row /\ db[k].shadow \in BOOLEAN
    BY <1>1, RowFacts DEF Shadows, TypeOK
  <2>2. db'[k] = [production |-> FALSE,
                  shadow |-> Changed(TrackedShadow(k), Winner(k), db[k].shadow)]
    BY <2>1 DEF Normalise
  <2>3. TrackedShadow(k) = db[k].shadow
    BY <1>1, <2>1 DEF TrackedShadow, SavedInv
  <2>4. Changed(TrackedShadow(k), Winner(k), db[k].shadow) = Winner(k)
    BY <2>3 DEF Changed
  <2>5. Winner(k) \in BOOLEAN
    BY Zenon DEF Winner
  <2>6. db'[k] = [production |-> FALSE, shadow |-> Winner(k)]
    BY <2>2, <2>4
  <2>7. db'[k] \in Row /\ db'[k] # None
    BY <2>5, <2>6, RowFacts
  <2>8. db'[k].production = FALSE /\ db'[k].shadow = Winner(k)
    BY <2>6
  <2> QED BY <2>7, <2>8
<1>4. TypeOK'
  <2>1. db' \in [Models -> MaybeRow]
    BY <1>1, <1>2, <1>3 DEF Normalise, TypeOK, MaybeRow
  <2> QED BY <1>1, <2>1, BlankRows DEF TypeOK
<1>5. \A k \in Models : IsCandidate(k)' => k \in Shadows /\ Winner(k) /\ ~Serves(k)'
  <2> TAKE k \in Models
  <2> HAVE IsCandidate(k)'
  <2>1. CASE k \in Shadows
    BY <2>1, <1>3 DEF IsCandidate, Serves
  <2>2. CASE k \notin Shadows
    BY <2>2, <1>1, <1>2 DEF IsCandidate, Serves, Shadows, OneCandidate
  <2> QED BY <2>1, <2>2
<1>6. \A k, j \in Shadows : Winner(k) /\ Winner(j) /\ GroupOf[k] = GroupOf[j] => k = j
  BY ModelFacts DEF Winner, Shadows
<1>7. OneCandidate'
  BY <1>5, <1>6 DEF OneCandidate
<1>8. ContextInv'
  BY <1>1 DEF ContextInv, Blank
<1> QED BY <1>4, <1>7, <1>8 DEF IInv

\* A run that dies leaves the table as it stands.
LEMMA AbortStep ==
  ASSUME IInv, Fail \/ \E m \in Models : Mismatch(m)
  PROVE  IInv'
<1>1. /\ UNCHANGED <<disk, db>>
      /\ pc' = "idle" /\ todo' = {} /\ orig' = Blank /\ cur' = Blank /\ last' = "failed"
  BY DEF Fail, Mismatch, EndRun
<1>2. faults' \in 0..MaxFaults
  BY ModelFacts DEF Fail, Mismatch, IInv, TypeOK
<1>3. TypeOK'
  BY <1>1, <1>2, BlankRows DEF IInv, TypeOK
<1>4. OneCandidate'
  BY <1>1 DEF IInv, OneCandidate, IsCandidate, Serves
<1>5. ContextInv'
  BY <1>1 DEF ContextInv
<1> QED BY <1>3, <1>4, <1>5 DEF IInv
-----------------------------------------------------------------------------
(***************************************************************************)
(* In every state of ModelPromotionJob, whatever bundles appear while it   *)
(* scans and wherever a run dies, its context agrees with model_versions   *)
(* about the shadow candidates.                                            *)
(***************************************************************************)
THEOREM RegistryInvariant == Spec => []IInv
<1>1. IInv /\ [Next]_vars => IInv'
  <2> SUFFICES ASSUME IInv, [Next]_vars PROVE IInv'
    OBVIOUS
  <2>1. CASE Next
    BY <2>1, QuietStep, ProcessStep, CommitStep, NormaliseStep, AbortStep
       DEF Next, JobStep, Process
  <2>2. CASE UNCHANGED vars
    BY <2>2 DEF vars, context, IInv, TypeOK, OneCandidate, IsCandidate, Serves, ContextInv,
      ScannedInv, SavedInv
  <2> QED BY <2>1, <2>2
<1> QED BY <1>1, InitIInv, PTL DEF Spec

\* Every variable of the registry model keeps its type.
THEOREM RegistryTypes == Spec => []TypeOK
<1>1. IInv => TypeOK
  BY DEF IInv
<1> QED BY <1>1, RegistryInvariant, PTL

(***************************************************************************)
(* DailyPredictionJob never finds two shadow candidates of one asset class *)
(* and horizon, nor a candidate in production, whenever it reads.          *)
(***************************************************************************)
THEOREM CandidateIsUnique == Spec => []OneCandidate
<1>1. IInv => OneCandidate
  BY DEF IInv
<1> QED BY <1>1, RegistryInvariant, PTL
-----------------------------------------------------------------------------
(***************************************************************************)
(* Which models serve.  What is registered or read has a whole bundle, and *)
(* only eligible models are wanted in production ...                       *)
(***************************************************************************)
BundleInv ==
  /\ \A m \in Models : db[m] # None \/ cur[m] # None => disk[m] = "bundle"
  /\ \A m \in Models : cur[m] # None /\ cur[m].production => m \in Eligible
  /\ \A m \in Models : Serves(m) => m \in Eligible

NewestAmong(m, models) == \A k \in models \cap Eligible : GroupOf[k] = GroupOf[m] => k <= m

Registered == {m \in Models : db[m] # None}
Read == {m \in Models : cur[m] # None}

(***************************************************************************)
(* ... a run reads every registered model, from old to new, wants all      *)
(* eligible ones in production, and loses the flag of one it has read only *)
(* to a newer one ...                                                      *)
(***************************************************************************)
ScanInv ==
  /\ Registered \subseteq Read \cup todo
  /\ \A m \in Read : \A t \in todo : m < t
  /\ \A m \in Read \cap Eligible :
       /\ cur[m].production
       /\ (NewestAmong(m, Read) /\ orig[m] # None /\ orig[m].production) => Serves(m)

\* ... so that after the first save the newest one has it.
NewestServe == \A m \in Registered \cap Eligible : NewestAmong(m, Registered) => Serves(m)

NewestHaveIt == \A m \in Shadows : (\A k \in Shadows : GroupOf[k] = GroupOf[m] => k <= m) => IsCandidate(m)

Settled == pc = "idle" /\ last = "succeeded"

ServingInv ==
  /\ BundleInv
  /\ pc = "scan" => ScanInv
  /\ pc = "normalise" \/ Settled => NewestServe
  /\ Settled => NewestHaveIt

LEMMA InitServing == Init => ServingInv
<1> SUFFICES ASSUME Init PROVE ServingInv
  OBVIOUS
<1>1. pc = "idle" /\ last = "none" /\ \A m \in Models : db[m] = None /\ cur[m] = None
  BY DEF Init, Blank
<1> QED BY <1>1 DEF ServingInv, BundleInv, Settled, Serves

\* A bundle on disk stays there.
LEMMA ServingDisk == ASSUME IInv, ServingInv, DiskStep PROVE ServingInv'
<1>1. UNCHANGED <<db, pc, todo, orig, cur, last>>
  BY DEF DiskStep, Publish, CopyManifest, CopyRest, context
<1>2. \A m \in Models : disk[m] = "bundle" => disk'[m] = "bundle"
  BY DEF DiskStep, Publish, CopyManifest, CopyRest, IInv, TypeOK
<1>3. /\ \A m \in Models : Serves(m)' <=> Serves(m)
      /\ \A m \in Models : IsCandidate(m)' <=> IsCandidate(m)
      /\ Registered' = Registered /\ Read' = Read /\ Shadows' = Shadows
  BY <1>1 DEF Serves, IsCandidate, Registered, Read, Shadows
<1>4. BundleInv'
  BY <1>1, <1>2, <1>3 DEF ServingInv, BundleInv
<1>5. ScanInv' <=> ScanInv
  BY <1>1, <1>3 DEF ScanInv, NewestAmong, Read
<1>6. (NewestServe' <=> NewestServe) /\ (NewestHaveIt' <=> NewestHaveIt) /\ (Settled' <=> Settled)
  BY <1>1, <1>3 DEF NewestServe, NewestHaveIt, NewestAmong, Settled, Registered, Shadows
<1> QED BY <1>1, <1>4, <1>5, <1>6 DEF ServingInv

\* Everything registered is in the scan.
LEMMA ServingStart == ASSUME IInv, ServingInv, Start PROVE ServingInv'
<1>1. /\ pc = "idle" /\ pc' = "scan" /\ UNCHANGED <<disk, db, orig, cur, last>>
      /\ todo' = {m \in Models : disk[m] # "absent"} /\ cur = Blank
  BY DEF Start, context, IInv, ContextInv
<1>2. \A m \in Models : cur[m] = None /\ cur'[m] = None
  BY <1>1 DEF Blank
<1>3. BundleInv'
  BY <1>1, <1>2 DEF ServingInv, BundleInv, Serves
<1>4. ScanInv'
  BY <1>1, <1>2 DEF ServingInv, BundleInv, ScanInv, Registered, Read
<1> QED BY <1>1, <1>3, <1>4 DEF ServingInv, Settled

\* A manifest is processed.
LEMMA ServingProcess ==
  ASSUME IInv, ServingInv, NEW m \in Models, Register(m) \/ Promote(m) PROVE ServingInv'
<1>1. /\ pc = "scan" /\ pc' = "scan" /\ disk' = disk /\ todo' = todo \ {m} /\ NextInScan(m)
      /\ disk[m] = "bundle" /\ m \in todo /\ todo \subseteq Models
      /\ orig' = [orig EXCEPT ![m] = db[m]] /\ ScanInv /\ BundleInv
  BY DEF Register, Promote, ServingInv, ChecksumMatches, NextInScan, IInv, TypeOK
<1>2. \E r \in Row : /\ cur' = [cur EXCEPT ![m] = r]
                     /\ r.production => m \in Eligible
                     /\ m \in Eligible => r.production
                     /\ (db[m] # None /\ db[m].production) => Register(m)
  <2>1. CASE Register(m)
    <3>1. cur' = [cur EXCEPT ![m] = Existing(m)] /\ (m \in Eligible => Existing(m).production)
      BY <2>1 DEF Register, Promotable
    <3>2. CASE db[m] = None
      <4>1. Existing(m) \in Row /\ Existing(m).production = FALSE
        BY <3>2 DEF Existing, Unregistered, Row
      <4> QED BY <3>1, <3>2, <4>1, <2>1
    <3>3. CASE db[m] # None
      <4>1. Existing(m) = db[m] /\ db[m] \in Row
        BY <3>3, RowFacts DEF Existing, IInv, TypeOK
      <4>2. db[m].production => m \in Eligible
        BY <3>3, <1>1 DEF BundleInv, Serves
      <4> QED BY <3>1, <4>1, <4>2, <2>1
    <3> QED BY <3>2, <3>3
  <2>2. CASE Promote(m)
    <3> DEFINE r == [production |-> TRUE, shadow |-> FALSE]
    <3>1. cur' = [cur EXCEPT ![m] = r] /\ m \in Eligible /\ ~Existing(m).production
      BY <2>2 DEF Promote, Promotable
    <3>2. r \in Row /\ r.production = TRUE
      BY DEF Row
    <3>3. db[m] # None => ~db[m].production
      BY <3>1 DEF Existing
    <3> QED BY <3>1, <3>2, <3>3
  <2> QED BY <2>1, <2>2
<1>3. PICK r \in Row : /\ cur' = [cur EXCEPT ![m] = r]
                       /\ r.production => m \in Eligible
                       /\ m \in Eligible => r.production
                       /\ (db[m] # None /\ db[m].production) => Register(m)
  BY <1>2
<1>4. r # None /\ cur'[m] = r /\ orig'[m] = db[m]
      /\ \A k \in Models \ {m} : cur'[k] = cur[k] /\ orig'[k] = orig[k]
  BY <1>1, <1>3, NoneIsNoVersion DEF IInv, TypeOK
<1>5. \A k \in Models : /\ (db'[k] = None) = (db[k] = None)
                        /\ Serves(k)' => Serves(k)
                        /\ (Serves(k) /\ ~Serves(k)') => Demoted(k, m) /\ m \in Eligible
  <2>1. CASE Register(m)
    BY <2>1 DEF Register, Serves
  <2>2. CASE Promote(m)
    <3>1. \A k \in Models : db'[k] =
            IF Demoted(k, m) THEN [production |-> FALSE, shadow |-> db[k].shadow] ELSE db[k]
      BY <2>2 DEF Promote
    <3>2. \A k \in Models : Demoted(k, m) => db'[k] # None /\ ~db'[k].production
      <4> SUFFICES ASSUME NEW k \in Models, Demoted(k, m) PROVE db'[k] # None /\ ~db'[k].production
        OBVIOUS
      <4>1. db[k].shadow \in BOOLEAN
        BY RowFacts DEF Demoted, IInv, TypeOK
      <4>2. [production |-> FALSE, shadow |-> db[k].shadow] # None
        BY <4>1, RowFacts
      <4>3. db'[k] = [production |-> FALSE, shadow |-> db[k].shadow]
        BY <3>1
      <4>4. db'[k].production = FALSE
        BY <4>3
      <4> QED BY <4>2, <4>3, <4>4
    <3>3. m \in Eligible
      BY <2>2 DEF Promote, Promotable
    <3> QED BY <3>1, <3>2, <3>3 DEF Serves, Demoted
  <2> QED BY <2>1, <2>2
<1>6. Registered' = Registered /\ Read' = Read \cup {m}
  BY <1>4, <1>5 DEF Registered, Read
<1>7. BundleInv'
  BY <1>1, <1>3, <1>4, <1>5 DEF BundleInv
<1>8. ScanInv'
  <2>1. Registered' \subseteq Read' \cup todo'
    BY <1>1, <1>6 DEF ScanInv
  <2>2. \A k \in Read' : \A t \in todo' : k < t
    <3>1. m \notin todo' /\ \A t \in todo' : m <= t /\ t # m /\ t \in Nat /\ m \in Nat
      BY <1>1, ModelFacts DEF NextInScan
    <3> QED BY <1>1, <1>6, <3>1 DEF ScanInv
  <2>3. ASSUME NEW k \in Read' \cap Eligible
        PROVE  /\ cur'[k].production
               /\ (NewestAmong(k, Read') /\ orig'[k] # None /\ orig'[k].production) => Serves(k)'
    <3>1. k \in Models
      BY <1>6 DEF Read
    <3>2. CASE k = m
      <4>1. cur'[k].production
        BY <1>3, <1>4, <3>2, <2>3
      <4>2. ASSUME orig'[k] # None, orig'[k].production PROVE Serves(k)'
        <5>1. Register(m) /\ Serves(m)
          BY <1>3, <1>4, <3>2, <4>2 DEF Serves
        <5> QED BY <5>1, <3>2 DEF Register, Serves
      <4> QED BY <4>1, <4>2
    <3>3. CASE k # m
      <4>1. k \in Read /\ cur'[k] = cur[k] /\ orig'[k] = orig[k] /\ cur[k].production
        BY <1>1, <1>4, <1>6, <3>1, <3>3, <2>3 DEF ScanInv
      <4>2. ASSUME NewestAmong(k, Read'), orig'[k] # None, orig'[k].production PROVE Serves(k)'
        <5>1. NewestAmong(k, Read)
          BY <4>2, <1>6 DEF NewestAmong
        <5>2. Serves(k)
          BY <5>1, <4>1, <4>2, <1>1, <2>3 DEF ScanInv
        <5>3. ASSUME Demoted(k, m), m \in Eligible PROVE FALSE
          <6>1. m <= k
            BY <5>3, <4>2, <1>6, <3>1 DEF NewestAmong, Demoted
          <6>2. k < m
            BY <4>1, <1>1 DEF ScanInv
          <6> QED BY <6>1, <6>2, <3>1, ModelFacts
        <5> QED BY <5>2, <5>3, <1>5, <3>1
      <4> QED BY <4>1, <4>2
    <3> QED BY <3>2, <3>3
  <2> QED BY <2>1, <2>2, <2>3 DEF ScanInv
<1> QED BY <1>1, <1>7, <1>8 DEF ServingInv, Settled

\* The production column of a saved row.
LEMMA SavedProduction ==
  ASSUME TypeOK, NEW m \in Models, ScannedInv(m)
  PROVE  /\ Saved(m) # None <=> db[m] # None \/ cur[m] # None
         /\ cur[m] = None => Saved(m) = db[m]
         /\ (cur[m] # None /\ orig[m] = None) => Saved(m) = cur[m]
         /\ (cur[m] # None /\ orig[m] # None) =>
              Saved(m).production = Changed(orig[m].production, cur[m].production, db[m].production)
<1>1. cur[m] # None => Saved(m) # None
  BY SavedColumns
<1>2. cur[m] = None => Saved(m) = db[m]
  BY DEF Saved
<1>3. cur[m] # None /\ orig[m] = None => Saved(m) = cur[m]
  BY DEF Saved
<1>4. cur[m] # None /\ orig[m] # None =>
        Saved(m).production = Changed(orig[m].production, cur[m].production, db[m].production)
  BY DEF Saved
<1> QED BY <1>1, <1>2, <1>3, <1>4

\* The first save: what the run wanted is in the table.
LEMMA ServingCommit == ASSUME IInv, ServingInv, Commit PROVE ServingInv'
<1>1. /\ pc' = "normalise" /\ todo = {} /\ cur' = cur /\ disk' = disk
      /\ \A k \in Models : db'[k] = Saved(k) /\ ScannedInv(k)
      /\ TypeOK /\ ScanInv /\ BundleInv
  BY DEF Commit, IInv, ContextInv, ServingInv
<1>2. Read' = Read /\ Registered' = Read
  BY <1>1, SavedProduction DEF Read, Registered, ScanInv
<1>3. ASSUME NEW k \in Models, Serves(k)' PROVE k \in Eligible
  <2>1. Saved(k) # None /\ Saved(k).production
    BY <1>1, <1>3 DEF Serves
  <2>2. CASE cur[k] = None
    BY <2>1, <2>2, <1>1, SavedProduction DEF BundleInv, Serves
  <2>3. CASE cur[k] # None
    <3>1. cur[k].production \/ (db[k] # None /\ db[k].production)
      BY <2>1, <2>3, <1>1, SavedProduction DEF Changed, ScannedInv
    <3> QED BY <3>1, <2>3, <1>1 DEF BundleInv, Serves
  <2> QED BY <2>2, <2>3
<1>4. BundleInv'
  BY <1>1, <1>2, <1>3 DEF BundleInv, Read, Registered
<1>5. ASSUME NEW m \in Registered' \cap Eligible, NewestAmong(m, Registered)' PROVE Serves(m)'
  <2>1. m \in Read /\ m \in Models /\ cur[m] # None /\ cur[m].production /\ NewestAmong(m, Read)
    BY <1>1, <1>2, <1>5 DEF ScanInv, Read, NewestAmong
  <2>2. Saved(m) # None
    BY <2>1, <1>1, SavedProduction
  <2>3. CASE orig[m] = None
    BY <2>1, <2>2, <2>3, <1>1, SavedProduction DEF Serves
  <2>4. CASE orig[m] # None
    <3>1. Saved(m).production = Changed(orig[m].production, cur[m].production, db[m].production)
      BY <2>1, <2>4, <1>1, SavedProduction
    <3>2. orig[m].production \in BOOLEAN /\ cur[m].production \in BOOLEAN
      BY <2>1, <2>4, <1>1, RowFacts DEF TypeOK
    <3>3. CASE orig[m].production
      <4>1. Serves(m)
        BY <1>1, <1>5, <2>1, <2>4, <3>3 DEF ScanInv
      <4> QED BY <4>1, <2>1, <2>2, <3>1, <1>1 DEF Changed, Serves
    <3>4. CASE ~orig[m].production
      BY <2>1, <2>2, <3>1, <3>2, <3>4, <1>1 DEF Changed, Serves
    <3> QED BY <3>3, <3>4
  <2> QED BY <2>3, <2>4
<1>6. NewestServe'
  BY <1>5 DEF NewestServe
<1> QED BY <1>1, <1>4, <1>6 DEF ServingInv, Settled

\* The second save moves only shadow flags.
LEMMA ServingNormalise == ASSUME IInv, ServingInv, Normalise PROVE ServingInv'
<1>1. /\ pc = "normalise" /\ pc' = "idle" /\ cur' = Blank /\ UNCHANGED disk
      /\ db' = [k \in Models |->
                  IF k \in Shadows
                    THEN [production |-> FALSE,
                          shadow |-> Changed(TrackedShadow(k), Winner(k), db[k].shadow)]
                    ELSE db[k]]
      /\ \A k \in Models : SavedInv(k)
      /\ TypeOK /\ BundleInv /\ NewestServe
  BY DEF Normalise, EndRun, IInv, ContextInv, ServingInv
<1>2. \A k \in Models \ Shadows : db'[k] = db[k]
  BY <1>1
<1>3. \A k \in Shadows : db'[k] # None /\ ~db'[k].production /\ db'[k].shadow = Winner(k)
  <2> TAKE k \in Shadows
  <2>1. k \in Models /\ db[k] # None
    BY DEF Shadows
  <2>2. Changed(TrackedShadow(k), Winner(k), db[k].shadow) = Winner(k)
    BY <1>1, <2>1 DEF TrackedShadow, SavedInv, Changed
  <2>3. db'[k] = [production |-> FALSE, shadow |-> Winner(k)]
    BY <1>1, <2>1, <2>2
  <2>4. Winner(k) \in BOOLEAN
    BY Zenon DEF Winner
  <2>5. db'[k] # None
    BY <2>3, <2>4, RowFacts
  <2>6. db'[k].production = FALSE /\ db'[k].shadow = Winner(k)
    BY <2>3
  <2> QED BY <2>5, <2>6
<1>4. \A k \in Models : (db'[k] = None) = (db[k] = None)
  BY <1>2, <1>3 DEF Shadows
<1>5. \A k \in Models : Serves(k)' <=> Serves(k)
  BY <1>2, <1>3 DEF Shadows, Serves
<1>6. Registered' = Registered /\ Shadows' = Shadows
  BY <1>4, <1>5 DEF Registered, Shadows, Serves
<1>7. BundleInv'
  BY <1>1, <1>4, <1>5 DEF BundleInv, Blank
<1>8. NewestServe'
  BY <1>1, <1>5, <1>6 DEF NewestServe, NewestAmong, Registered
<1>9. NewestHaveIt'
  BY <1>3, <1>6 DEF NewestHaveIt, IsCandidate, Winner, Shadows
<1> QED BY <1>1, <1>7, <1>8, <1>9 DEF ServingInv

\* A run that dies: nothing is claimed of the newest until another succeeds.
LEMMA ServingAbort ==
  ASSUME IInv, ServingInv, Fail \/ \E m \in Models : Mismatch(m) PROVE ServingInv'
<1>1. UNCHANGED <<disk, db>> /\ pc' = "idle" /\ cur' = Blank /\ last' = "failed"
  BY DEF Fail, Mismatch, EndRun
<1>2. BundleInv'
  BY <1>1 DEF ServingInv, BundleInv, Blank, Serves
<1> QED BY <1>1, <1>2 DEF ServingInv, Settled

(***************************************************************************)
(* The invariant about production models, for every scan, copy and crash.  *)
(***************************************************************************)
THEOREM ServingInvariant == Spec => []ServingInv
<1>1. IInv /\ ServingInv /\ [Next]_vars => ServingInv'
  <2> SUFFICES ASSUME IInv, ServingInv, [Next]_vars PROVE ServingInv'
    OBVIOUS
  <2>1. CASE Next
    BY <2>1, ServingDisk, ServingStart, ServingProcess, ServingCommit, ServingNormalise, ServingAbort
       DEF Next, JobStep, Process
  <2>2. CASE UNCHANGED vars
    <3>1. UNCHANGED <<disk, db, pc, todo, orig, cur, last>>
      BY <2>2 DEF vars, context
    <3> QED BY <3>1 DEF ServingInv, BundleInv, ScanInv, NewestServe, NewestHaveIt, NewestAmong,
              Registered, Read, Settled, Serves, IsCandidate, Shadows
  <2> QED BY <2>1, <2>2
<1> QED BY <1>1, InitServing, RegistryInvariant, PTL DEF Spec

(***************************************************************************)
(* Only eligible models whose checksum was verified are ever in production,*)
(* whatever is being copied and wherever a run dies.                       *)
(***************************************************************************)
THEOREM GatesAreRespected == Spec => []GatesRespected
<1>1. ServingInv => GatesRespected
  BY DEF ServingInv, BundleInv, GatesRespected, Serves, ChecksumMatches
<1> QED BY <1>1, ServingInvariant, PTL

(***************************************************************************)
(* After a scan that ended normally the newest eligible model of a group   *)
(* is in production.                                                       *)
(***************************************************************************)
THEOREM NewestEligibleIsServed == Spec => []NewestEligibleServes
<1>1. ServingInv /\ TypeOK => NewestEligibleServes
  <2> SUFFICES ASSUME ServingInv, pc = "idle", last = "succeeded", NEW m \in Eligible, db[m] # None,
                      \A k \in Eligible : db[k] # None /\ GroupOf[k] = GroupOf[m] => k <= m
               PROVE Serves(m)
    BY DEF NewestEligibleServes
  <2>1. m \in Registered \cap Eligible /\ NewestAmong(m, Registered)
    BY RegistryBounds DEF Registered, NewestAmong
  <2> QED BY <2>1 DEF ServingInv, Settled, NewestServe
<1> QED BY <1>1, ServingInvariant, RegistryTypes, PTL

(***************************************************************************)
(* After a scan that ended normally the newest model out of production is  *)
(* the candidate of its group.                                             *)
(***************************************************************************)
THEOREM NewestBecomesCandidate == Spec => []NewestIsCandidate
<1>1. ServingInv => NewestIsCandidate
  BY DEF ServingInv, NewestIsCandidate, Settled, NewestHaveIt
<1> QED BY <1>1, ServingInvariant, PTL
-----------------------------------------------------------------------------
(* The flags of the table, as their readers see them. *)

\* The flags of a table, model by model.
LEMMA FlagsOfTable ==
  /\ \A m \in Models : StageOf(m) = "production" <=> Serves(m)
  /\ OneCandidate => \A m \in Models : StageOf(m) = "candidate" <=> IsCandidate(m)
BY DEF StageOf, OneCandidate

\* ExecuteUpdate is the demotion of one group.
LEMMA PromoteServing ==
  ASSUME IInv, NEW m \in Models, Promote(m)
  PROVE  Serving!Demote(GroupOf[m])
<1>1. TypeOK /\ OneCandidate
  BY DEF IInv
<1>2. \A k \in Models : db'[k] =
        IF Demoted(k, m) THEN [production |-> FALSE, shadow |-> db[k].shadow] ELSE db[k]
  BY DEF Promote
<1>3. ASSUME NEW k \in Models
      PROVE  StageOf(k)' = IF GroupOf[k] = GroupOf[m] /\ StageOf(k) = "production"
                           THEN "none" ELSE StageOf(k)
  <2>1. CASE Demoted(k, m)
    <3>1. Serves(k) /\ GroupOf[k] = GroupOf[m] /\ ~db[k].shadow
      BY <1>1, <2>1 DEF Demoted, Serves, OneCandidate, IsCandidate
    <3>2. db'[k] = [production |-> FALSE, shadow |-> db[k].shadow]
      BY <1>2, <2>1
    <3>3. db'[k].production = FALSE /\ db'[k].shadow = db[k].shadow
      BY <3>2
    <3>4. StageOf(k)' = "none"
      BY <3>1, <3>3 DEF StageOf, Serves, IsCandidate
    <3> QED BY <3>1, <3>4 DEF StageOf
  <2>2. CASE ~Demoted(k, m)
    <3>1. db'[k] = db[k] /\ ~(GroupOf[k] = GroupOf[m] /\ Serves(k))
      BY <1>2, <2>2 DEF Demoted, Serves
    <3>2. StageOf(k)' = StageOf(k)
      BY <3>1 DEF StageOf, Serves, IsCandidate
    <3> QED BY <3>1, <3>2 DEF StageOf
  <2> QED BY <2>1, <2>2
<1> QED BY <1>3 DEF Serving!Demote

\* The first save promotes, and takes nothing else away.
LEMMA CommitServing ==
  ASSUME IInv, Commit
  PROVE  \E S \in SUBSET Models : Serving!Promote(S)
<1>1. /\ \A k \in Models : db'[k] = Saved(k) /\ ScannedInv(k)
      /\ TypeOK /\ OneCandidate /\ OneCandidate'
  BY CommitStep DEF Commit, IInv, ContextInv
<1> DEFINE S == {k \in Models : Serves(k)'}
<1>2. ASSUME NEW k \in Models, Serves(k) PROVE Serves(k)'
  <2>1. CASE cur[k] = None
    BY <1>1, <1>2, <2>1, SavedProduction DEF Serves
  <2>2. CASE cur[k] # None
    <3>1. orig[k] # None
      BY <1>1, <1>2, <2>2 DEF ScannedInv, Serves
    <3>2. Saved(k) # None
          /\ Saved(k).production = Changed(orig[k].production, cur[k].production, db[k].production)
      BY <1>1, <2>2, <3>1, SavedProduction
    <3>3. Saved(k).production
      BY <1>1, <1>2, <3>1, <3>2 DEF Changed, ScannedInv, Serves
    <3> QED BY <1>1, <3>2, <3>3 DEF Serves
  <2> QED BY <2>1, <2>2
<1>3. ASSUME NEW k \in Models, ~Serves(k)' PROVE IsCandidate(k)' <=> IsCandidate(k)
  <2>1. IsCandidate(k)' => IsCandidate(k)
    BY <1>1, SavedColumns DEF IsCandidate
  <2>2. ASSUME IsCandidate(k) PROVE IsCandidate(k)'
    <3>1. CASE cur[k] = None
      BY <1>1, <2>2, <3>1, SavedColumns DEF IsCandidate
    <3>2. CASE cur[k] # None
      <4>1. orig[k] # None /\ orig[k].shadow = db[k].shadow
        BY <1>1, <2>2, <3>2 DEF ScannedInv, IsCandidate
      <4>2. Saved(k) # None /\ Saved(k).shadow = cur[k].shadow
        BY <1>1, <3>2, SavedColumns
      <4>3. Saved(k).production = Changed(orig[k].production, cur[k].production, db[k].production)
        BY <1>1, <3>2, <4>1, SavedProduction
      <4>4. cur[k].shadow \in BOOLEAN /\ orig[k].shadow \in BOOLEAN
            /\ cur[k].production \in BOOLEAN /\ orig[k].production \in BOOLEAN
        BY <1>1, <3>2, <4>1, RowFacts DEF TypeOK
      <4>5. cur[k].shadow
        <5> SUFFICES ASSUME ~cur[k].shadow PROVE FALSE
          OBVIOUS
        <5>1. orig[k].shadow
          BY <4>1, <2>2 DEF IsCandidate
        <5>2. cur[k].production /\ ~orig[k].production
          BY <1>1, <4>1, <5>1 DEF ScannedInv
        <5>3. Saved(k).production
          BY <4>3, <5>2 DEF Changed
        <5> QED BY <1>1, <1>3, <4>2, <5>3 DEF Serves
      <4> QED BY <1>1, <4>2, <4>5 DEF IsCandidate
    <3> QED BY <3>1, <3>2
  <2> QED BY <2>1, <2>2
<1>4. ASSUME NEW k \in Models
      PROVE  StageOf(k)' = IF k \in S THEN "production" ELSE StageOf(k)
  <2>1. CASE Serves(k)'
    BY <2>1 DEF StageOf
  <2>2. CASE ~Serves(k)'
    BY <2>2, <1>2, <1>3 DEF StageOf
  <2> QED BY <2>1, <2>2
<1>5. Serving!Promote(S)
  BY <1>4 DEF Serving!Promote
<1> QED BY <1>5

\* The second save chooses the candidates.
LEMMA NormaliseServing ==
  ASSUME IInv, Normalise
  PROVE  \E S \in SUBSET Models : Serving!Choose(S)
<1>1. TypeOK /\ OneCandidate /\ OneCandidate'
  BY NormaliseStep DEF IInv
<1> DEFINE W == {k \in Models : IsCandidate(k)'}
<1>2. /\ \A k \in Models \ Shadows : db'[k] = db[k]
      /\ \A k \in Shadows : db'[k] =
           [production |-> FALSE, shadow |-> Changed(TrackedShadow(k), Winner(k), db[k].shadow)]
  BY DEF Normalise, Shadows
<1>3. ASSUME NEW k \in Models PROVE Serves(k)' <=> Serves(k)
  <2>1. CASE k \in Shadows
    <3>1. db'[k] = [production |-> FALSE,
                     shadow |-> Changed(TrackedShadow(k), Winner(k), db[k].shadow)]
      BY <1>2, <2>1
    <3>2. db'[k].production = FALSE
      BY <3>1
    <3>3. ~Serves(k)
      BY <2>1 DEF Shadows, Serves
    <3> QED BY <3>2, <3>3 DEF Serves
  <2>2. CASE k \notin Shadows
    BY <1>2, <2>2 DEF Serves
  <2> QED BY <2>1, <2>2
<1>4. W \cap Serving!Producing([m \in Models |-> StageOf(m)]) = {}
  BY <1>1, <1>3, FlagsOfTable DEF Serving!Producing, OneCandidate
<1>5. Serving!OneOfEach(W)
  BY <1>1 DEF OneCandidate, Serving!OneOfEach
<1>6. ASSUME NEW k \in Models
      PROVE  StageOf(k)' = IF k \in W THEN "candidate"
                           ELSE IF StageOf(k) = "production" THEN "production" ELSE "none"
  BY <1>1, <1>3 DEF StageOf, OneCandidate
<1>7. Serving!Choose(W)
  BY <1>4, <1>5, <1>6 DEF Serving!Choose
<1> QED BY <1>7

(***************************************************************************)
(* The registry implements what the readers of its table rely on: seen     *)
(* through the flags, ExecuteUpdate, the two saves, a run that dies and    *)
(* bundles that appear are demotions of a group, promotions and choices of *)
(* candidates, and nothing else.                                           *)
(***************************************************************************)
THEOREM RegistryImplementsServing == Spec => ImplementsServing
<1> DEFINE F == [m \in Models |-> StageOf(m)]
<1>1. Init => Serving!FlagsInit
  <2> SUFFICES ASSUME Init PROVE Serving!FlagsInit
    OBVIOUS
  <2>1. \A m \in Models : StageOf(m) = "none"
    BY DEF Init, Blank, StageOf, Serves, IsCandidate
  <2> QED BY <2>1 DEF Serving!FlagsInit
<1>2. IInv /\ [Next]_vars => [Serving!FlagsNext]_F
  <2> SUFFICES ASSUME IInv, [Next]_vars PROVE Serving!FlagsNext \/ F' = F
    OBVIOUS
  <2>1. CASE db' = db
    BY <2>1 DEF StageOf, Serves, IsCandidate
  <2>2. CASE \E m \in Models : Promote(m)
    BY <2>2, PromoteServing DEF Serving!FlagsNext
  <2>3. CASE Commit
    BY <2>3, CommitServing DEF Serving!FlagsNext
  <2>4. CASE Normalise
    BY <2>4, NormaliseServing DEF Serving!FlagsNext
  <2> QED BY <2>1, <2>2, <2>3, <2>4 DEF Next, JobStep, DiskStep, Process, Start, Register, Mismatch,
          Publish, CopyManifest, CopyRest, Fail, vars
<1> QED BY <1>1, <1>2, RegistryInvariant, PTL DEF Spec, ImplementsServing, Serving!FlagsSpec
=============================================================================
