------------------------- MODULE ResearchStudyProofs -------------------------
(***************************************************************************)
(* What holds of every dataset a build can leave, of every fold cut out of *)
(* it and of every script, whatever days the mirror and the database hold: *)
(* rows are point in time, the parts a study may learn from end before the *)
(* test year, and no script learns or chooses on anything else.            *)
(***************************************************************************)
EXTENDS ResearchStudies, FiniteSetTheorems, SequenceTheorems, WellFoundedInduction, TLAPS

\* When a row can be stamped, and what the proofs need of one.
Stamps == FirstDay..(LastDay + 1)
Rowlike(r) == r.at \in Int /\ r.at \in Stamps /\ r.end \in Int /\ r.at < r.end

LEMMA StampFacts == Days \subseteq Int /\ \A d \in Days : d \in Stamps /\ d + 1 \in Stamps
BY BuildConstants DEF Days, Stamps

-----------------------------------------------------------------------------
(* Labels. *)

LEMMA LabelsEndLater ==
  ASSUME NEW features, NEW stamps, NEW horizon,
         NEW r \in AttachTargets(features, stamps, horizon)
  PROVE  \E f \in features : /\ r.asset = f.asset /\ r.at = f.at /\ r.reads = f.reads
                             /\ r.end \in stamps[f.asset] /\ r.end > r.at
<1> DEFINE labels == UNION {{f} \X LabelEnds(stamps[f.asset], f.at, horizon) :
                              f \in {g \in features : g.at \in stamps[g.asset]}}
<1>1. PICK l \in labels : r = [asset |-> l[1].asset, at |-> l[1].at, reads |-> l[1].reads,
                               horizon |-> horizon, end |-> l[2]]
  BY DEF AttachTargets
<1>2. PICK f \in features : l \in {f} \X LabelEnds(stamps[f.asset], f.at, horizon)
  OBVIOUS
<1>3. l[1] = f /\ l[2] \in LabelEnds(stamps[f.asset], f.at, horizon)
  BY <1>2
<1>4. l[2] \in stamps[f.asset] /\ l[2] > f.at
  BY <1>3 DEF LabelEnds
<1> QED BY <1>1, <1>3, <1>4

\* Crypto: bars and derivatives count from the midnight after their day.
LEMMA CryptoReadsThePast ==
  ASSUME NEW bars, NEW derivatives, NEW asset \in DOMAIN bars, NEW at \in Int,
         \A a \in DOMAIN bars : bars[a] \subseteq Int /\ derivatives[a] \subseteq Int,
         NEW d \in CryptoReads(bars, derivatives, asset, at)
  PROVE  d \in Int /\ d <= at - 1
<1>1. \A p \in DOMAIN bars : \A e \in BarsUntil(bars[p], at) : e \in Int /\ e <= at - 1
  BY DEF BarsUntil, BarStamp
<1>2. \A e \in DerivativesUntil(derivatives[asset], at) : e \in Int /\ e <= at - 1
  BY DEF DerivativesUntil, DerivativeStamp
<1>3. ASSUME d \notin DerivativesUntil(derivatives[asset], at)
      PROVE  \E p \in DOMAIN bars : d \in BarsUntil(bars[p], at)
  <2> DEFINE Enough(p) == Cardinality(BarsUntil(bars[p], at)) >= PeerRows
             peers == {p \in DOMAIN bars : p \in {asset, Bitcoin} \/ Enough(p)}
             frames == {BarsUntil(bars[p], at) : p \in peers}
  <2>1. d \in UNION frames
    BY <1>3 DEF CryptoReads
  <2>2. PICK frame \in frames : d \in frame
    BY <2>1
  <2>3. PICK p \in peers : frame = BarsUntil(bars[p], at)
    OBVIOUS
  <2> QED BY <2>2, <2>3
<1>4. CASE \E p \in DOMAIN bars : d \in BarsUntil(bars[p], at)
  BY <1>1, <1>4
<1>5. CASE d \in DerivativesUntil(derivatives[asset], at)
  BY <1>2, <1>5
<1> QED BY <1>3, <1>4, <1>5

LEMMA CryptoRows ==
  ASSUME NEW bars, NEW derivatives,
         \A a \in DOMAIN bars : bars[a] \subseteq Days /\ derivatives[a] \subseteq Days,
         NEW r \in CryptoSamples(bars, derivatives)
  PROVE  Rowlike(r) /\ PointInTime("crypto", r)
<1> DEFINE stamps == [a \in DOMAIN bars |-> {BarStamp(d) : d \in bars[a]}]
           features == CryptoSnapshots(bars, derivatives)
<1>0. \A a \in DOMAIN bars : /\ bars[a] \subseteq Int /\ derivatives[a] \subseteq Int
                             /\ \A d \in bars[a] : d + 1 \in Int /\ d + 1 \in Stamps
  <2>1. \A d \in Days : d \in Int /\ d + 1 \in Int /\ d + 1 \in Stamps
    BY StampFacts
  <2> QED BY <2>1
<1>1. PICK h \in Horizons : r \in AttachTargets(features, stamps, h)
  BY DEF CryptoSamples
<1>2. PICK f \in features : /\ r.asset = f.asset /\ r.at = f.at /\ r.reads = f.reads
                            /\ r.end \in stamps[f.asset] /\ r.end > r.at
  BY <1>1, LabelsEndLater
<1>3. f.asset \in DOMAIN bars /\ f.at \in Int /\ f.at \in Stamps
      /\ f.reads = CryptoReads(bars, derivatives, f.asset, f.at)
  <2> DEFINE all == UNION {{a} \X {BarStamp(d) : d \in bars[a]} : a \in DOMAIN bars}
  <2>1. PICK k \in all : f = [asset |-> k[1], at |-> k[2],
                              reads |-> CryptoReads(bars, derivatives, k[1], k[2])]
    BY DEF CryptoSnapshots
  <2>2. PICK a \in DOMAIN bars : k \in {a} \X {BarStamp(d) : d \in bars[a]}
    OBVIOUS
  <2>3. k[1] = a /\ k[2] \in Int /\ k[2] \in Stamps
    BY <1>0, <2>2 DEF BarStamp
  <2> QED BY <2>1, <2>3
<1>4. \A d \in r.reads : d \in Int /\ d <= r.at - 1
  BY <1>0, <1>2, <1>3, CryptoReadsThePast
<1>5. r.end \in Int
  BY <1>0, <1>2, <1>3 DEF BarStamp
<1> QED BY <1>2, <1>3, <1>4, <1>5 DEF Rowlike, PointInTime, LastReadable

-----------------------------------------------------------------------------
(* Equity: a row reads its own session, never a later one. *)

EquityRow(r) == Rowlike(r) /\ \A d \in r.reads : d \in Int /\ d <= r.at

LEMMA EquityRows ==
  ASSUME NEW sessions, \A a \in DOMAIN sessions : sessions[a] \subseteq Days,
         NEW r \in EquitySamples(sessions)
  PROVE  EquityRow(r)
<1>0. \A a \in DOMAIN sessions : \A d \in sessions[a] : d \in Int /\ d \in Stamps
  BY StampFacts
<1>1. PICK h \in Horizons : r \in AttachTargets(EquitySnapshots(sessions), sessions, h)
  BY DEF EquitySamples
<1>2. PICK f \in EquitySnapshots(sessions) :
        /\ r.asset = f.asset /\ r.at = f.at /\ r.reads = f.reads
        /\ r.end \in sessions[f.asset] /\ r.end > r.at
  BY <1>1, LabelsEndLater
<1>3. /\ f.asset \in DOMAIN sessions /\ f.at \in sessions[f.asset]
      /\ f.reads = UNION {SessionsUntil(sessions[p], f.at) : p \in DOMAIN sessions}
  BY DEF EquitySnapshots
<1>4. \A d \in r.reads : d \in Int /\ d <= r.at
  BY <1>0, <1>2, <1>3 DEF SessionsUntil
<1> QED BY <1>0, <1>2, <1>3, <1>4 DEF EquityRow, Rowlike

\* The upgrade joins a row of the same snapshot.
LEMMA UpgradedRows ==
  ASSUME NEW rows, \A r \in rows : EquityRow(r), NEW u \in AddSpyMacro(rows)
  PROVE  EquityRow(u)
<1> DEFINE SpyRows(r) == {s \in rows : s.asset = Spy /\ s.at = r.at /\ s.horizon = r.horizon}
<1>1. PICK r \in rows : u = [r EXCEPT !.reads = @ \cup UNION {s.reads : s \in SpyRows(r)}]
  BY DEF AddSpyMacro
<1> QED BY <1>1 DEF EquityRow, Rowlike
\* An observation is read on its publication day, which its lag outlasts.
LEMMA MacroRows ==
  ASSUME NEW rows, \A r \in rows : EquityRow(r), MacroDays \subseteq Int,
         NEW u \in AttachMacro(rows, MacroDays)
  PROVE  EquityRow(u)
<1> DEFINE Available(r) == {o \in MacroDays : AvailableAt(o) <= r.at}
           Published(r) == {o + MacroRelease : o \in Available(r)}
<1>1. PICK r \in rows : u = [r EXCEPT !.reads = @ \cup Published(r)]
  BY DEF AttachMacro
<1>2. \A d \in Published(r) : d \in Int /\ d <= r.at
  BY DatasetConstants DEF AvailableAt, EquityRow, Rowlike
<1> QED BY <1>1, <1>2 DEF EquityRow, Rowlike

LEMMA EquityIsPointInTime ==
  ASSUME NEW r, EquityRow(r), NEW kind, kind # "crypto" PROVE PointInTime(kind, r)
BY DEF EquityRow, Rowlike, PointInTime, LastReadable

-----------------------------------------------------------------------------
LEMMA DayFacts ==
  /\ \A f \in Files : DaysOf[f] \subseteq Days
  /\ \A a \in Assets : EarlierDays[a] \subseteq Days /\ EarlierDerivatives[a] \subseteq Days
  /\ \A h \in EquityHistories : \A a \in DOMAIN SessionsOf[h] : SessionsOf[h][a] \subseteq Days
  /\ MacroDays \subseteq Int
BY BuildConstants DEF Days

LEMMA TableFacts ==
  ASSUME NEW from \in SUBSET Files
  PROVE  /\ DOMAIN BarsOf(from) = Assets
         /\ \A a \in Assets : BarsOf(from)[a] \subseteq Days /\ DerivativesOf(from)[a] \subseteq Days
<1>1. ASSUME NEW a \in Assets, NEW files \in SUBSET Files
      PROVE  UNION {DaysOf[f] : f \in {g \in files : AssetOf[g] = a}} \subseteq Days
  BY DayFacts
<1>2. from \cap Spot \subseteq Files /\ from \cap Futures \subseteq Files
  BY DEF Files
<1> QED BY <1>1, <1>2, DayFacts DEF BarsOf, DerivativesOf

(***************************************************************************)
(* Every dataset a build can leave is point in time: of no row lies a day  *)
(* it reads in the future of its stamp, and its label ends later.          *)
(***************************************************************************)
THEOREM DatasetsArePointInTime ==
  \A d \in Datasets : \A r \in d.rows : Rowlike(r) /\ PointInTime(d.kind, r)
<1> SUFFICES ASSUME NEW d \in Datasets, NEW r \in d.rows
             PROVE  Rowlike(r) /\ PointInTime(d.kind, r)
  OBVIOUS
<1>1. CASE \E files \in SUBSET Files :
             d = Dataset("crypto", files, CryptoSamples(BarsOf(files), DerivativesOf(files)))
  <2>1. PICK files \in SUBSET Files :
          d = Dataset("crypto", files, CryptoSamples(BarsOf(files), DerivativesOf(files)))
    BY <1>1
  <2>2. d.kind = "crypto" /\ r \in CryptoSamples(BarsOf(files), DerivativesOf(files))
    BY <2>1 DEF Dataset
  <2>3. \A a \in DOMAIN BarsOf(files) :
          BarsOf(files)[a] \subseteq Days /\ DerivativesOf(files)[a] \subseteq Days
    BY TableFacts
  <2> QED BY <2>2, <2>3, CryptoRows
<1>2. ASSUME NEW h \in EquityHistories,
             LET rows == EquitySamples(SessionsOf[h])
             IN  d \in {Dataset("equity", {h}, rows), Dataset("equity-v3", {h}, AddSpyMacro(rows)),
                        Dataset("macro", {h}, AttachMacro(rows, MacroDays))}
      PROVE  Rowlike(r) /\ PointInTime(d.kind, r)
  <2> DEFINE rows == EquitySamples(SessionsOf[h])
  <2>1. \A q \in rows : EquityRow(q)
    BY DayFacts, EquityRows
  <2>2. d.kind # "crypto" /\ r \in rows \cup AddSpyMacro(rows) \cup AttachMacro(rows, MacroDays)
    BY <1>2 DEF Dataset
  <2>3. EquityRow(r)
    <3> HIDE DEF rows
    <3> QED BY <2>1, <2>2, DayFacts, UpgradedRows, MacroRows
  <2> QED BY <2>2, <2>3, EquityIsPointInTime DEF EquityRow
<1> QED BY <1>1, <1>2 DEF Datasets

-----------------------------------------------------------------------------
(* Folds. *)

\* What a study may learn from.
BlindParts == {"train", "recent", "innerFit", "innerSelection", "validation", "calibrationFit",
               "calibrationSelection", "both"}

LEMMA YearStarts ==
  ASSUME NEW y \in Int
  PROVE  YearStart(y) \in Int /\ YearStart(y - 1) <= YearStart(y)
<1>1. (y - 1) * YearLength = y * YearLength - YearLength
  BY FoldConstants
<1> QED BY <1>1, FoldConstants DEF YearStart

LEMMA PurgedRows ==
  ASSUME NEW r, Rowlike(r), NEW y \in Int, Purged(r, YearStart(y - 1)) \/ Purged(r, YearStart(y))
  PROVE  r.end < YearStart(y) - Embargo
BY YearStarts, FoldConstants DEF Purged, LabelEnd, Rowlike

(***************************************************************************)
(* Every part a study may learn from ends, with the embargo to spare,      *)
(* before the test year of its fold, whatever days are missing.            *)
(***************************************************************************)
THEOREM BlindPartsEndBefore ==
  ASSUME NEW rows, \A r \in rows : Rowlike(r), NEW y \in Int, NEW part \in BlindParts,
         NEW r \in PartOf(rows, y, part)
  PROVE  r.end < YearStart(y) - Embargo
<1> DEFINE fold == Fold(rows, y)
<1>1. \A q \in fold.train : q \in rows /\ Purged(q, YearStart(y - 1))
  BY DEF Fold
<1>2. \A q \in fold.validation : q \in rows /\ Purged(q, YearStart(y))
  BY DEF Fold
<1> HIDE DEF fold
<1>3. r \in fold.train \cup fold.validation
  <2>1. CASE part \in {"train", "recent", "innerFit", "innerSelection"}
    BY <2>1 DEF PartOf, fold, Recent, InnerFit, InnerSelection
  <2>2. CASE part \in {"validation", "calibrationFit", "calibrationSelection", "both"}
    BY <2>2 DEF PartOf, fold, CalibrationFit, CalibrationSelection
  <2> QED BY <2>1, <2>2 DEF BlindParts
<1>4. CASE r \in fold.train
  BY <1>1, <1>4, PurgedRows
<1>5. CASE r \in fold.validation
  BY <1>2, <1>5, PurgedRows
<1> QED BY <1>3, <1>4, <1>5

\* At most the one year.
OfYear(s, y) == s \in Seq(3..6) /\ (Len(s) = 0 \/ (Len(s) = 1 /\ s[1] = y))

LEMMA FewYears ==
  ASSUME NEW i \in 0..1, NEW j \in 0..1, NEW k \in 0..1 PROVE i + j + k \in 0..3
OBVIOUS

\* The folds come in the order of their years, and four of them are all.
LEMMA FoldYearFacts ==
  ASSUME NEW rows, NEW locked \in BOOLEAN
  PROVE  LET years == FoldYears(rows, locked)
         IN  /\ years \in Seq(3..6) /\ Len(years) \in 0..4
             /\ Len(years) > 3 => locked /\ \A i \in 1..4 : years[i] = i + 2
<1> DEFINE last == IF locked THEN Kept(rows, 6) ELSE <<>>
           years == FoldYears(rows, locked)
<1>1. ASSUME NEW y \in 3..6 PROVE OfYear(Kept(rows, y), y) /\ OfYear(<<>>, y)
  <2>1. OfYear(<<y>>, y) /\ OfYear(<<>>, y)
    BY DEF OfYear
  <2> QED BY <2>1 DEF Kept
<1>2. OfYear(Kept(rows, 3), 3) /\ OfYear(Kept(rows, 4), 4) /\ OfYear(Kept(rows, 5), 5)
  BY <1>1
<1>3. OfYear(last, 6) /\ (Len(last) = 1 => locked)
  BY <1>1
<1>4. years = Kept(rows, 3) \o Kept(rows, 4) \o Kept(rows, 5) \o last
  BY DEF FoldYears
<1> DEFINE a == Kept(rows, 3)
           b == Kept(rows, 4)
           c == Kept(rows, 5)
<1> HIDE DEF a, b, c, last, years
<1>5. OfYear(a, 3) /\ OfYear(b, 4) /\ OfYear(c, 5) /\ years = ((a \o b) \o c) \o last
  BY <1>2, <1>4 DEF a, b, c
<1>6. /\ years \in Seq(3..6) /\ Len(years) = Len(a) + Len(b) + Len(c) + Len(last)
      /\ Len(years) = 4 => years[1] = 3 /\ years[2] = 4 /\ years[3] = 5 /\ years[4] = 6
  <2> DEFINE ab == a \o b
             abc == ab \o c
  <2>1. /\ ab \in Seq(3..6) /\ Len(ab) = Len(a) + Len(b)
        /\ Len(ab) = 2 => ab[1] = 3 /\ ab[2] = 4
    BY <1>5 DEF OfYear
  <2> HIDE DEF ab
  <2>2. /\ abc \in Seq(3..6) /\ Len(abc) = Len(ab) + Len(c)
        /\ Len(abc) = 3 => abc[1] = 3 /\ abc[2] = 4 /\ abc[3] = 5
    BY <1>5, <2>1 DEF ab, OfYear
  <2> HIDE DEF abc
  <2>3. years = abc \o last
    BY <1>5 DEF ab, abc
  <2>4. Len(abc) = 0 \/ Len(abc) = 1 \/ Len(abc) = 2 \/ Len(abc) = 3
    <3>1. Len(abc) = Len(a) + Len(b) + Len(c) /\ Len(a) \in 0..1 /\ Len(b) \in 0..1 /\ Len(c) \in 0..1
      BY <1>5, <2>1, <2>2 DEF OfYear
    <3> DEFINE n == Len(a) + Len(b) + Len(c)
    <3>2. n \in 0..3
      <4> HIDE DEF OfYear
      <4> QED BY <3>1, FewYears
    <3> HIDE DEF n
    <3>3. Len(abc) = n
      BY <3>1 DEF n
    <3> QED BY <3>2, <3>3
  <2>5. last \in Seq(3..6) /\ (Len(last) = 0 \/ (Len(last) = 1 /\ last[1] = 6))
    BY <1>3 DEF OfYear
  <2>6. /\ abc \o last \in Seq(3..6) /\ Len(abc \o last) = Len(abc) + Len(last)
        /\ Len(abc \o last) = 4 => /\ (abc \o last)[1] = 3 /\ (abc \o last)[2] = 4
                                   /\ (abc \o last)[3] = 5 /\ (abc \o last)[4] = 6
    BY <2>2, <2>4, <2>5
  <2> QED BY <2>1, <2>2, <2>3, <2>6
<1>7. Len(a) \in 0..1 /\ Len(b) \in 0..1 /\ Len(c) \in 0..1 /\ Len(last) \in 0..1
  BY <1>3, <1>5 DEF OfYear
<1>8. Len(years) \in 0..4 /\ (Len(years) > 3 => Len(years) = 4 /\ Len(last) = 1)
  <2> DEFINE la == Len(a)
             lb == Len(b)
             lc == Len(c)
             ll == Len(last)
             ly == Len(years)
  <2>1. la \in 0..1 /\ lb \in 0..1 /\ lc \in 0..1 /\ ll \in 0..1 /\ ly = la + lb + lc + ll
    BY <1>6, <1>7
  <2> HIDE DEF la, lb, lc, ll, ly
  <2>2. ly \in 0..4 /\ (ly > 3 => ly = 4 /\ ll = 1)
    BY <2>1
  <2> QED BY <2>2 DEF ly, ll
<1>9. \A i \in 1..4 : i = 1 \/ i = 2 \/ i = 3 \/ i = 4
  OBVIOUS
<1> QED BY <1>3, <1>6, <1>8, <1>9 DEF years

-----------------------------------------------------------------------------
(* Scripts. *)

\* What may be behind the stronger baseline, and what behind an artefact that is
\* compared in a choice; the others may have seen any part but the test year.
SeenParts == BlindParts \cup {"test"}

Origin(name) ==
  IF name = "stronger" THEN SeenParts
  ELSE IF name \in {"prior", "model", "binary", "candidates"} THEN {"train"}
  ELSE IF name = "innerCandidates" THEN {"innerFit"}
  ELSE IF name \in {"innerBlend", "innerMatrix", "innerMulticlass", "innerOrdinal"}
       THEN {"train", "calibrationFit"}
  ELSE BlindParts

\* The parts that are over before a selection period begins.
OverBefore(on) ==
  CASE on = "calibrationSelection" -> {"train", "calibrationFit"}
    [] on = "innerSelection" -> {"innerFit"}
    [] on = "validation" -> {"train"}
    [] on = "test" -> BlindParts
    [] OTHER -> {}

Names == {"prior", "model", "temperature", "blend", "logistic", "quantiles", "conformal",
          "baselineQuantiles", "risk", "thresholds", "innerBlend", "innerMatrix", "method", "current",
          "selected", "innerMulticlass", "innerOrdinal", "multiclass", "binary", "ordinal",
          "quantileDirection", "innerCandidates", "winner", "refitted", "recentPrior", "recentModel",
          "recentTemperature", "recentBlend", "absolute", "widthScaled", "volatilityScaled",
          "baseline", "trainGlobal", "candidates", "refit", "updatedGlobal", "score"}

\* Nothing is learnt with the stronger baseline, and no score is of it.
ArtNames == Names \cup {"stronger"}

Steps == [does : {"learn", "choose", "score"}, name : ArtNames, uses : SUBSET Names,
          against : SUBSET ArtNames, on : PartNames]

\* A step hands on no more than its artefact may have seen, and a choice is
\* between artefacts whose data was over.
SoundStep(s) ==
  /\ s.does # "score" => /\ s.on \in Origin(s.name)
                         /\ \A u \in s.uses : Origin(u) \subseteq Origin(s.name)
  /\ s.does = "choose" => \A u \in s.uses : Origin(u) \subseteq OverBefore(s.on)

SoundSteps == {s \in Steps : SoundStep(s)}

\* A script ends with its only score.
SoundScript(script) ==
  /\ script \in Seq(SoundSteps) /\ Len(script) > 0
  /\ \A i \in 1..Len(script) : script[i].does = "score" <=> i = Len(script)

LearnSteps == {s \in SoundSteps : s.does # "score"}

LEMMA OriginsAreBlind == \A name \in Names : Origin(name) \subseteq BlindParts
BY DEF Origin, BlindParts, Names

LEMMA OriginsAreSeen == \A name : Origin(name) \subseteq SeenParts
BY DEF Origin, BlindParts, SeenParts

LEMMA LearnIsSound ==
  ASSUME NEW name \in Names, NEW uses \in SUBSET Names, NEW on \in Origin(name),
         \A u \in uses : Origin(u) \subseteq Origin(name)
  PROVE  Learn(name, uses, on) \in LearnSteps
<1>1. on \in PartNames
  BY OriginsAreBlind DEF BlindParts, PartNames
<1>2. Learn(name, uses, on) = [does |-> "learn", name |-> name, uses |-> uses, against |-> {}, on |-> on]
  BY DEF Learn, Step
<1>3. Learn(name, uses, on) \in Steps
  BY <1>1, <1>2 DEF Steps, ArtNames
<1> QED BY <1>2, <1>3 DEF LearnSteps, SoundSteps, SoundStep

LEMMA ChooseIsSound ==
  ASSUME NEW name \in ArtNames, NEW among \in SUBSET Names, NEW on \in Origin(name),
         BlindParts \subseteq Origin(name), \A u \in among : Origin(u) \subseteq OverBefore(on)
  PROVE  Choose(name, among, on) \in LearnSteps
<1>1. on \in PartNames
  BY OriginsAreSeen DEF SeenParts, BlindParts, PartNames
<1>2. Choose(name, among, on) =
        [does |-> "choose", name |-> name, uses |-> among, against |-> {}, on |-> on]
  BY DEF Choose, Step
<1>3. Choose(name, among, on) \in Steps
  BY <1>1, <1>2 DEF Steps
<1>4. \A u \in among : Origin(u) \subseteq Origin(name)
  BY OriginsAreBlind
<1> QED BY <1>2, <1>3, <1>4 DEF LearnSteps, SoundSteps, SoundStep

\* Which baseline is the stronger one is decided by the test year itself.
LEMMA StrongerBaselineIsSound == StrongerBaseline \in LearnSteps
<1>1. Origin("stronger") = SeenParts /\ OverBefore("test") = BlindParts
  BY DEF Origin, OverBefore
<1>2. "stronger" \in ArtNames /\ {"prior", "logistic"} \in SUBSET Names
  BY DEF ArtNames, Names
<1> QED BY <1>1, <1>2, ChooseIsSound, OriginsAreBlind DEF StrongerBaseline, SeenParts

LEMMA ScoreAgainstIsSound ==
  ASSUME NEW uses \in SUBSET Names, NEW baselines \in SUBSET ArtNames
  PROVE  ScoreAgainst(baselines, uses) \in SoundSteps /\ ScoreAgainst(baselines, uses).does = "score"
<1>1. ScoreAgainst(baselines, uses) =
        [does |-> "score", name |-> "score", uses |-> uses, against |-> baselines, on |-> "test"]
  BY DEF ScoreAgainst, Step
<1>2. ScoreAgainst(baselines, uses) \in Steps
  BY <1>1 DEF Steps, PartNames, Names, ArtNames
<1>3. SoundStep(ScoreAgainst(baselines, uses))
  BY <1>1 DEF SoundStep
<1> QED BY <1>1, <1>2, <1>3 DEF SoundSteps

LEMMA ScoreIsSound ==
  ASSUME NEW uses \in SUBSET Names
  PROVE  Score(uses) \in SoundSteps /\ Score(uses).does = "score"
BY ScoreAgainstIsSound DEF Score

\* Learning and choosing first, then a script.
LEMMA MoreSteps ==
  ASSUME NEW front \in Seq(LearnSteps), NEW script, SoundScript(script)
  PROVE  SoundScript(front \o script)
<1>1. front \in Seq(SoundSteps) /\ \A i \in 1..Len(front) : front[i].does # "score"
  BY DEF LearnSteps
<1>2. script \in Seq(SoundSteps) /\ Len(script) \in Nat /\ Len(script) > 0
      /\ \A i \in 1..Len(script) : script[i].does = "score" <=> i = Len(script)
  BY DEF SoundScript
<1>3. front \o script \in Seq(SoundSteps) /\ Len(front \o script) = Len(front) + Len(script)
      /\ Len(front) \in Nat
  BY <1>1, <1>2
<1>4. ASSUME NEW i \in 1..Len(front \o script)
      PROVE  (front \o script)[i].does = "score" <=> i = Len(front \o script)
  <2>1. CASE i <= Len(front)
    BY <1>1, <1>2, <1>3, <2>1
  <2>2. CASE i > Len(front)
    <3>1. i - Len(front) \in 1..Len(script) /\ (front \o script)[i] = script[i - Len(front)]
      BY <1>1, <1>2, <1>3, <2>2, ConcatProperties
    <3> QED BY <1>2, <1>3, <3>1
  <2> QED BY <1>3, <2>1, <2>2
<1> QED BY <1>2, <1>3, <1>4 DEF SoundScript

\* The artefacts no choice compares may be learnt from and with anything.
Uncompared == Names \ {"prior", "model", "binary", "candidates", "innerCandidates", "innerBlend",
                        "innerMatrix", "innerMulticlass", "innerOrdinal"}

LEMMA UncomparedIsSound ==
  ASSUME NEW name \in Uncompared, NEW uses \in SUBSET Names, NEW on \in BlindParts
  PROVE  Learn(name, uses, on) \in LearnSteps
<1>1. name \in Names /\ Origin(name) = BlindParts
  BY DEF Uncompared, Names, Origin
<1> QED BY <1>1, LearnIsSound, OriginsAreBlind

LEMMA FromTraining ==
  ASSUME NEW name \in {"prior", "model", "binary", "candidates"}
  PROVE  Learn(name, {}, "train") \in LearnSteps
<1>1. name \in Names /\ "train" \in Origin(name)
  BY DEF Names, Origin
<1> QED BY <1>1, LearnIsSound

LEMMA CalibratedSteps == Calibrated \in Seq(LearnSteps)
<1> DEFINE a == Learn("prior", {}, "train")
           b == Learn("model", {}, "train")
           c == Learn("temperature", {"model"}, "validation")
           d == Learn("blend", {"temperature", "prior"}, "validation")
<1>1. a \in LearnSteps /\ b \in LearnSteps
  BY FromTraining
<1>2. c \in LearnSteps /\ d \in LearnSteps
  BY UncomparedIsSound DEF Uncompared, Names, BlindParts
<1>3. Calibrated = <<a, b, c, d>>
  BY DEF Calibrated
<1> HIDE DEF a, b, c, d
<1> QED BY <1>1, <1>2, <1>3

LEMMA SelectCalibratorSteps == SelectCalibrator \in Seq(LearnSteps)
<1> DEFINE a == Learn("innerBlend", {"model", "prior"}, "calibrationFit")
           b == Learn("innerMatrix", {"model"}, "calibrationFit")
           c == Choose("method", {"prior", "innerBlend", "innerMatrix"}, "calibrationSelection")
<1>1. a \in LearnSteps
  BY LearnIsSound DEF Names, Origin
<1>2. b \in LearnSteps
  BY LearnIsSound DEF Names, Origin
<1>3. c \in LearnSteps
  BY ChooseIsSound DEF Names, ArtNames, Origin, OverBefore, BlindParts
<1>4. SelectCalibrator = <<a, b, c>>
  BY DEF SelectCalibrator
<1> HIDE DEF a, b, c
<1> QED BY <1>1, <1>2, <1>3, <1>4

LEMMA InnerDirectionCalibratorsSteps == InnerDirectionCalibrators \in Seq(LearnSteps)
<1> DEFINE a == Learn("innerMulticlass", {"model", "prior"}, "calibrationFit")
           b == Learn("innerOrdinal", {"binary", "prior"}, "calibrationFit")
           c == Choose("method", {"prior", "innerMulticlass", "innerOrdinal"}, "calibrationSelection")
<1>1. a \in LearnSteps
  BY LearnIsSound DEF Names, Origin
<1>2. b \in LearnSteps
  BY LearnIsSound DEF Names, Origin
<1>3. c \in LearnSteps
  BY ChooseIsSound DEF Names, ArtNames, Origin, OverBefore, BlindParts
<1>4. InnerDirectionCalibrators = <<a, b, c>>
  BY DEF InnerDirectionCalibrators
<1> HIDE DEF a, b, c
<1> QED BY <1>1, <1>2, <1>3, <1>4

LEMMA SelectedLinearModelSteps == SelectedLinearModel \in Seq(LearnSteps)
<1> DEFINE a == Learn("innerCandidates", {}, "innerFit")
           b == Choose("winner", {"innerCandidates"}, "innerSelection")
           c == Learn("refitted", {"winner"}, "train")
<1>1. c \in LearnSteps
  BY UncomparedIsSound DEF Uncompared, Names, BlindParts
<1>2. a \in LearnSteps
  BY LearnIsSound DEF Names, Origin
<1>3. b \in LearnSteps
  BY ChooseIsSound DEF Names, ArtNames, Origin, OverBefore, BlindParts
<1>4. SelectedLinearModel = <<a, b, c>>
  BY DEF SelectedLinearModel
<1> HIDE DEF a, b, c
<1> QED BY <1>1, <1>2, <1>3, <1>4

LEMMA TrainingIsSound == SoundScript(Training)
<1> DEFINE part1 == Calibrated
           part2 == << Learn("logistic", {}, "train"),
                       Learn("quantiles", {}, "train"),
                       Learn("conformal", {"quantiles"}, "validation"),
                       Learn("baselineQuantiles", {}, "train"),
                       Learn("risk", {}, "train"),
                       StrongerBaseline,
                       ScoreAgainst({"stronger"},
                         {"blend", "prior", "logistic", "conformal", "baselineQuantiles", "risk"}) >>
<1>1. part1 \in Seq(LearnSteps)
  BY CalibratedSteps
<1>2. SoundScript(part2)
  <2> DEFINE a == Learn("logistic", {}, "train")
             b == Learn("quantiles", {}, "train")
             c == Learn("conformal", {"quantiles"}, "validation")
             d == Learn("baselineQuantiles", {}, "train")
             e == Learn("risk", {}, "train")
             f == StrongerBaseline
             g == ScoreAgainst({"stronger"},
                    {"blend", "prior", "logistic", "conformal", "baselineQuantiles", "risk"})
  <2>1. a \in LearnSteps /\ b \in LearnSteps /\ c \in LearnSteps /\ d \in LearnSteps /\ e \in LearnSteps
    BY UncomparedIsSound DEF Uncompared, Names, BlindParts
  <2>2. f \in LearnSteps
    BY StrongerBaselineIsSound
  <2>3. g \in SoundSteps /\ g.does = "score"
    BY ScoreAgainstIsSound DEF Names, ArtNames
  <2>4. part2 = <<a, b, c, d, e, f, g>>
    OBVIOUS
  <2> HIDE DEF part2, a, b, c, d, e, f, g
  <2> QED BY <2>1, <2>2, <2>3, <2>4 DEF SoundScript, LearnSteps
<1>3. Training = part1 \o part2
  BY DEF Training
<1> HIDE DEF part1, part2
<1> QED BY <1>1, <1>2, <1>3, MoreSteps

LEMMA FeatureAblationIsSound == SoundScript(FeatureAblation)
<1> DEFINE a == Learn("model", {}, "train")
           b == Learn("temperature", {"model"}, "validation")
           c == Learn("prior", {}, "train")
           d == Learn("risk", {}, "train")
           e == Score({"temperature", "prior", "risk"})
<1>1. a \in LearnSteps /\ c \in LearnSteps
  BY FromTraining
<1>2. b \in LearnSteps /\ d \in LearnSteps
  BY UncomparedIsSound DEF Uncompared, Names, BlindParts
<1>3. e \in SoundSteps /\ e.does = "score"
  BY ScoreIsSound DEF Names
<1>4. FeatureAblation = <<a, b, c, d, e>>
  BY DEF FeatureAblation
<1> HIDE DEF a, b, c, d, e
<1> QED BY <1>1, <1>2, <1>3, <1>4 DEF SoundScript, LearnSteps

LEMMA RegimeAnalysisIsSound == SoundScript(RegimeAnalysis)
<1> DEFINE part1 == Calibrated
           part2 == << Learn("logistic", {}, "train"),
                       StrongerBaseline,
                       Learn("thresholds", {}, "train"),
                       ScoreAgainst({"stronger"}, {"blend", "thresholds"}) >>
<1>1. part1 \in Seq(LearnSteps)
  BY CalibratedSteps
<1>2. SoundScript(part2)
  <2> DEFINE a == Learn("logistic", {}, "train")
             b == StrongerBaseline
             c == Learn("thresholds", {}, "train")
             d == ScoreAgainst({"stronger"}, {"blend", "thresholds"})
  <2>1. a \in LearnSteps /\ c \in LearnSteps
    BY UncomparedIsSound DEF Uncompared, Names, BlindParts
  <2>2. b \in LearnSteps
    BY StrongerBaselineIsSound
  <2>3. d \in SoundSteps /\ d.does = "score"
    BY ScoreAgainstIsSound DEF Names, ArtNames
  <2>4. part2 = <<a, b, c, d>>
    OBVIOUS
  <2> HIDE DEF part2, a, b, c, d
  <2> QED BY <2>1, <2>2, <2>3, <2>4 DEF SoundScript, LearnSteps
<1>3. RegimeAnalysis = part1 \o part2
  BY DEF RegimeAnalysis
<1> HIDE DEF part1, part2
<1> QED BY <1>1, <1>2, <1>3, MoreSteps

LEMMA CalibrationAblationIsSound == SoundScript(CalibrationAblation)
<1> DEFINE part1 == << Learn("model", {}, "train"),
                       Learn("prior", {}, "train"),
                       Learn("current", {"model", "prior"}, "validation") >>
           part2 == SelectCalibrator
           part3 == << Learn("selected", {"method", "model", "prior"}, "validation"),
                       Learn("thresholds", {}, "train"),
                       Score({"model", "prior", "current", "selected", "thresholds"}) >>
<1>1. part1 \in Seq(LearnSteps)
  <2> DEFINE a == Learn("model", {}, "train")
             b == Learn("prior", {}, "train")
             c == Learn("current", {"model", "prior"}, "validation")
  <2>1. a \in LearnSteps /\ b \in LearnSteps
    BY FromTraining
  <2>2. c \in LearnSteps
    BY UncomparedIsSound DEF Uncompared, Names, BlindParts
  <2>3. part1 = <<a, b, c>>
    OBVIOUS
  <2> HIDE DEF part1, a, b, c
  <2> QED BY <2>1, <2>2, <2>3
<1>2. part2 \in Seq(LearnSteps)
  BY SelectCalibratorSteps
<1>3. SoundScript(part3)
  <2> DEFINE a == Learn("selected", {"method", "model", "prior"}, "validation")
             b == Learn("thresholds", {}, "train")
             c == Score({"model", "prior", "current", "selected", "thresholds"})
  <2>1. a \in LearnSteps /\ b \in LearnSteps
    BY UncomparedIsSound DEF Uncompared, Names, BlindParts
  <2>2. c \in SoundSteps /\ c.does = "score"
    BY ScoreIsSound DEF Names
  <2>3. part3 = <<a, b, c>>
    OBVIOUS
  <2> HIDE DEF part3, a, b, c
  <2> QED BY <2>1, <2>2, <2>3 DEF SoundScript, LearnSteps
<1>4. CalibrationAblation = part1 \o part2 \o part3
  BY DEF CalibrationAblation
<1> HIDE DEF part1, part2, part3
<1>5. part1 \o part2 \in Seq(LearnSteps)
  BY <1>1, <1>2, ConcatProperties
<1> QED BY <1>5, <1>3, <1>4, MoreSteps

LEMMA DirectionModelsIsSound == SoundScript(DirectionModels)
<1> DEFINE part1 == << Learn("prior", {}, "train"),
                       Learn("model", {}, "train"),
                       Learn("multiclass", {"model", "prior"}, "validation"),
                       Learn("binary", {}, "train"),
                       Learn("ordinal", {"binary", "prior"}, "validation") >>
           part2 == InnerDirectionCalibrators
           part3 == << Learn("quantiles", {}, "train"),
                       Learn("quantileDirection", {"quantiles", "prior"}, "validation"),
                       Score({"multiclass", "ordinal", "method", "quantileDirection", "prior"}) >>
<1>1. part1 \in Seq(LearnSteps)
  <2> DEFINE a == Learn("prior", {}, "train")
             b == Learn("model", {}, "train")
             c == Learn("multiclass", {"model", "prior"}, "validation")
             d == Learn("binary", {}, "train")
             e == Learn("ordinal", {"binary", "prior"}, "validation")
  <2>1. a \in LearnSteps /\ b \in LearnSteps /\ d \in LearnSteps
    BY FromTraining
  <2>2. c \in LearnSteps /\ e \in LearnSteps
    BY UncomparedIsSound DEF Uncompared, Names, BlindParts
  <2>3. part1 = <<a, b, c, d, e>>
    OBVIOUS
  <2> HIDE DEF part1, a, b, c, d, e
  <2> QED BY <2>1, <2>2, <2>3
<1>2. part2 \in Seq(LearnSteps)
  BY InnerDirectionCalibratorsSteps
<1>3. SoundScript(part3)
  <2> DEFINE a == Learn("quantiles", {}, "train")
             b == Learn("quantileDirection", {"quantiles", "prior"}, "validation")
             c == Score({"multiclass", "ordinal", "method", "quantileDirection", "prior"})
  <2>1. a \in LearnSteps /\ b \in LearnSteps
    BY UncomparedIsSound DEF Uncompared, Names, BlindParts
  <2>2. c \in SoundSteps /\ c.does = "score"
    BY ScoreIsSound DEF Names
  <2>3. part3 = <<a, b, c>>
    OBVIOUS
  <2> HIDE DEF part3, a, b, c
  <2> QED BY <2>1, <2>2, <2>3 DEF SoundScript, LearnSteps
<1>4. DirectionModels = part1 \o part2 \o part3
  BY DEF DirectionModels
<1> HIDE DEF part1, part2, part3
<1>5. part1 \o part2 \in Seq(LearnSteps)
  BY <1>1, <1>2, ConcatProperties
<1> QED BY <1>5, <1>3, <1>4, MoreSteps

LEMMA LinearDirectionIsSound == SoundScript(LinearDirection)
<1> DEFINE part1 == << Learn("prior", {}, "train") >>
           part2 == SelectedLinearModel
           part3 == << Learn("temperature", {"refitted"}, "validation"),
                       Learn("blend", {"temperature", "prior"}, "validation"),
                       Score({"blend", "prior"}) >>
<1>1. part1 \in Seq(LearnSteps)
  <2> DEFINE a == Learn("prior", {}, "train")
  <2>1. a \in LearnSteps
    BY FromTraining
  <2>2. part1 = <<a>>
    OBVIOUS
  <2> HIDE DEF part1, a
  <2> QED BY <2>1, <2>2
<1>2. part2 \in Seq(LearnSteps)
  BY SelectedLinearModelSteps
<1>3. SoundScript(part3)
  <2> DEFINE a == Learn("temperature", {"refitted"}, "validation")
             b == Learn("blend", {"temperature", "prior"}, "validation")
             c == Score({"blend", "prior"})
  <2>1. a \in LearnSteps /\ b \in LearnSteps
    BY UncomparedIsSound DEF Uncompared, Names, BlindParts
  <2>2. c \in SoundSteps /\ c.does = "score"
    BY ScoreIsSound DEF Names
  <2>3. part3 = <<a, b, c>>
    OBVIOUS
  <2> HIDE DEF part3, a, b, c
  <2> QED BY <2>1, <2>2, <2>3 DEF SoundScript, LearnSteps
<1>4. LinearDirection = part1 \o part2 \o part3
  BY DEF LinearDirection
<1> HIDE DEF part1, part2, part3
<1>5. part1 \o part2 \in Seq(LearnSteps)
  BY <1>1, <1>2, ConcatProperties
<1> QED BY <1>5, <1>3, <1>4, MoreSteps

LEMMA TreeRegularizationIsSound == SoundScript(TreeRegularization)
<1> DEFINE part1 == Calibrated
           part2 == << Learn("recentPrior", {}, "recent"),
                       Learn("recentModel", {}, "recent"),
                       Learn("recentTemperature", {"recentModel"}, "validation"),
                       Learn("recentBlend", {"recentTemperature", "recentPrior"}, "validation"),
                       Score({"blend", "prior", "recentBlend", "recentPrior"}) >>
<1>1. part1 \in Seq(LearnSteps)
  BY CalibratedSteps
<1>2. SoundScript(part2)
  <2> DEFINE a == Learn("recentPrior", {}, "recent")
             b == Learn("recentModel", {}, "recent")
             c == Learn("recentTemperature", {"recentModel"}, "validation")
             d == Learn("recentBlend", {"recentTemperature", "recentPrior"}, "validation")
             e == Score({"blend", "prior", "recentBlend", "recentPrior"})
  <2>1. a \in LearnSteps /\ b \in LearnSteps /\ c \in LearnSteps /\ d \in LearnSteps
    BY UncomparedIsSound DEF Uncompared, Names, BlindParts
  <2>2. e \in SoundSteps /\ e.does = "score"
    BY ScoreIsSound DEF Names
  <2>3. part2 = <<a, b, c, d, e>>
    OBVIOUS
  <2> HIDE DEF part2, a, b, c, d, e
  <2> QED BY <2>1, <2>2, <2>3 DEF SoundScript, LearnSteps
<1>3. TreeRegularization = part1 \o part2
  BY DEF TreeRegularization
<1> HIDE DEF part1, part2
<1> QED BY <1>1, <1>2, <1>3, MoreSteps

LEMMA LabelCandidatesIsSound == SoundScript(LabelCandidates)
<1> DEFINE part1 == Calibrated
           part2 == << Score({"blend", "prior"}) >>
<1>1. part1 \in Seq(LearnSteps)
  BY CalibratedSteps
<1>2. SoundScript(part2)
  <2> DEFINE a == Score({"blend", "prior"})
  <2>1. a \in SoundSteps /\ a.does = "score"
    BY ScoreIsSound DEF Names
  <2>2. part2 = <<a>>
    OBVIOUS
  <2> HIDE DEF part2, a
  <2> QED BY <2>1, <2>2 DEF SoundScript, LearnSteps
<1>3. LabelCandidates = part1 \o part2
  BY DEF LabelCandidates
<1> HIDE DEF part1, part2
<1> QED BY <1>1, <1>2, <1>3, MoreSteps

LEMMA FredMacroIsSound == SoundScript(FredMacro)
<1> DEFINE part1 == Calibrated
           part2 == << Score({"blend", "prior"}) >>
<1>1. part1 \in Seq(LearnSteps)
  BY CalibratedSteps
<1>2. SoundScript(part2)
  <2> DEFINE a == Score({"blend", "prior"})
  <2>1. a \in SoundSteps /\ a.does = "score"
    BY ScoreIsSound DEF Names
  <2>2. part2 = <<a>>
    OBVIOUS
  <2> HIDE DEF part2, a
  <2> QED BY <2>1, <2>2 DEF SoundScript, LearnSteps
<1>3. FredMacro = part1 \o part2
  BY DEF FredMacro
<1> HIDE DEF part1, part2
<1> QED BY <1>1, <1>2, <1>3, MoreSteps

LEMMA IntervalCalibrationIsSound == SoundScript(IntervalCalibration)
<1> DEFINE a == Learn("quantiles", {}, "train")
           b == Learn("absolute", {"quantiles"}, "validation")
           c == Learn("widthScaled", {"quantiles"}, "validation")
           d == Learn("volatilityScaled", {"quantiles"}, "validation")
           e == Learn("baseline", {}, "train")
           f == Score({"absolute", "widthScaled", "volatilityScaled", "baseline"})
<1>1. a \in LearnSteps /\ b \in LearnSteps /\ c \in LearnSteps /\ d \in LearnSteps /\ e \in LearnSteps
  BY UncomparedIsSound DEF Uncompared, Names, BlindParts
<1>2. f \in SoundSteps /\ f.does = "score"
  BY ScoreIsSound DEF Names
<1>3. IntervalCalibration = <<a, b, c, d, e, f>>
  BY DEF IntervalCalibration
<1> HIDE DEF a, b, c, d, e, f
<1> QED BY <1>1, <1>2, <1>3 DEF SoundScript, LearnSteps

LEMMA ConditionalPriorsIsSound == SoundScript(ConditionalPriors)
<1> DEFINE a == Learn("trainGlobal", {}, "train")
           b == Learn("candidates", {}, "train")
           c == Choose("winner", {"candidates"}, "validation")
           d == Learn("refit", {"winner"}, "both")
           e == Learn("updatedGlobal", {"winner"}, "both")
           f == Score({"trainGlobal", "refit", "updatedGlobal"})
<1>1. b \in LearnSteps
  BY FromTraining
<1>2. a \in LearnSteps /\ d \in LearnSteps /\ e \in LearnSteps
  BY UncomparedIsSound DEF Uncompared, Names, BlindParts
<1>3. c \in LearnSteps
  BY ChooseIsSound DEF Names, ArtNames, Origin, OverBefore, BlindParts
<1>4. f \in SoundSteps /\ f.does = "score"
  BY ScoreIsSound DEF Names
<1>5. ConditionalPriors = <<a, b, c, d, e, f>>
  BY DEF ConditionalPriors
<1> HIDE DEF a, b, c, d, e, f
<1> QED BY <1>1, <1>2, <1>3, <1>4, <1>5 DEF SoundScript, LearnSteps
-----------------------------------------------------------------------------
(* The newest day of a set, and the day of a given rank: both exist. *)

Smaller == {p \in Nat \X Nat : p[1] < p[2]}

LEMMA LeastNatural ==
  ASSUME NEW T, T \subseteq Nat, T # {} PROVE \E m \in T : \A n \in T : m <= n
<1>1. IsWellFoundedOn(Smaller, Nat)
  BY NatLessThanWellFounded DEF Smaller, OpToRel
<1>2. PICK m \in T : \A n \in T : ~(<<n, m>> \in Smaller)
  BY <1>1, WFMin
<1>3. \A n \in T : n \in Nat /\ m \in Nat /\ ~(n < m)
  BY <1>2 DEF Smaller
<1> QED BY <1>3

LEMMA NewestExists ==
  ASSUME NEW T, T \subseteq Stamps, T # {} PROVE \E m \in T : \A d \in T : m >= d
<1> DEFINE ages == {LastDay + 1 - d : d \in T}
<1>0. LastDay \in Int /\ \A d \in T : d \in Int /\ LastDay + 1 - d \in Nat
  BY BuildConstants DEF Stamps
<1>1. ages \subseteq Nat /\ ages # {}
  BY <1>0
<1>2. PICK n \in ages : \A k \in ages : n <= k
  <2> HIDE DEF ages
  <2> QED BY <1>1, LeastNatural
<1>3. PICK m \in T : n = LastDay + 1 - m
  OBVIOUS
<1>4. \A d \in T : LastDay + 1 - m <= LastDay + 1 - d
  BY <1>2, <1>3
<1>5. \A d \in T : m >= d
  BY <1>0, <1>4
<1> QED BY <1>5

LEMMA OldestExists ==
  ASSUME NEW T, T \subseteq Stamps, T # {} PROVE \E m \in T : \A d \in T : m <= d
<1> DEFINE ages == {d - FirstDay : d \in T}
<1>0. FirstDay \in Int /\ \A d \in T : d \in Int /\ d - FirstDay \in Nat
  BY BuildConstants DEF Stamps
<1>1. ages \subseteq Nat /\ ages # {}
  BY <1>0
<1>2. PICK n \in ages : \A k \in ages : n <= k
  <2> HIDE DEF ages
  <2> QED BY <1>1, LeastNatural
<1>3. PICK m \in T : n = m - FirstDay
  OBVIOUS
<1>4. \A d \in T : m - FirstDay <= d - FirstDay
  BY <1>2, <1>3
<1>5. \A d \in T : m <= d
  BY <1>0, <1>4
<1> QED BY <1>5

\* The day with k earlier ones.
LEMMA RankExists ==
  ASSUME NEW T, T \subseteq Stamps, NEW k \in Nat, k < Cardinality(T)
  PROVE  \E d \in T : Cardinality({e \in T : e < d}) = k
<1> DEFINE Earlier(d) == {e \in T : e < d}
           Rank(d) == Cardinality(Earlier(d))
           late == {d \in T : Rank(d) >= k}
<1>0. FirstDay \in Int /\ LastDay + 1 \in Int
  BY BuildConstants
<1>1. (\A d \in T : d \in Int) /\ IsFiniteSet(Stamps)
  BY <1>0, FS_Interval DEF Stamps
<1>2. IsFiniteSet(T) /\ Cardinality(T) \in Nat /\ T # {}
  <2>1. IsFiniteSet(T)
    BY <1>1, FS_Subset
  <2>2. Cardinality(T) \in Nat
    BY <2>1, FS_CardinalityType
  <2> QED BY <2>1, <2>2, FS_EmptySet
<1>3. \A d \in T : IsFiniteSet(Earlier(d)) /\ Rank(d) \in Nat
  BY <1>2, FS_Subset, FS_CardinalityType
<1>4. late # {}
  <2>1. PICK m \in T : \A d \in T : m >= d
    BY <1>2, NewestExists
  <2>2. Earlier(m) = T \ {m}
    <3>1. \A e \in T : e < m <=> e # m
      BY <1>1, <2>1
    <3> QED BY <3>1
  <2>3. Rank(m) = Cardinality(T) - 1
    BY <1>2, <2>2, FS_RemoveElement
  <2> QED BY <1>2, <2>3
<1>5. PICK d \in late : \A e \in late : d <= e
  <2>1. late \subseteq Stamps
    OBVIOUS
  <2> HIDE DEF late
  <2> QED BY <1>4, <2>1, OldestExists
<1>6. Rank(d) <= k
  <2> SUFFICES ASSUME Rank(d) > k PROVE FALSE
    BY <1>3
  <2>1. Earlier(d) # {}
    BY <1>3, FS_EmptySet
  <2>2. PICK p \in Earlier(d) : \A e \in Earlier(d) : p >= e
    <3>1. Earlier(d) \subseteq Stamps
      OBVIOUS
    <3> QED BY <2>1, <3>1, NewestExists
  <2>3. Earlier(p) = Earlier(d) \ {p}
    <3>1. \A e \in T : e < p <=> (e < d /\ e # p)
      BY <1>1, <2>2
    <3> QED BY <3>1
  <2>4. Rank(p) = Rank(d) - 1
    BY <1>3, <2>3, FS_RemoveElement
  <2>5. p \in late
    BY <1>3, <2>4
  <2> QED BY <1>1, <1>5, <2>5
<1>7. Rank(d) = k
  BY <1>3, <1>5, <1>6
<1> QED BY <1>7

LEMMA LatestIsInt ==
  ASSUME NEW T, T \subseteq Stamps, T # {} PROVE Latest(T) \in Int
<1>1. Latest(T) \in T
  BY NewestExists DEF Latest
<1>2. Latest(T) \in Stamps
  BY <1>1
<1> QED BY <1>2, BuildConstants DEF Stamps

LEMMA SelectionStartIsInt ==
  ASSUME NEW rows, \A r \in rows : Rowlike(r), CalibrationUsable(rows)
  PROVE  SelectionStart(rows) \in Int
<1> DEFINE dates == Dates(rows)
           Rank(d) == Cardinality({e \in dates : e < d})
           k == (Cardinality(dates) * 67) \div 100
<1>1. dates \subseteq Stamps
  BY DEF Dates, Rowlike
<1>2. IsFiniteSet(dates) /\ Cardinality(dates) \in Nat
  <2>1. IsFiniteSet(Stamps)
    BY BuildConstants, FS_Interval DEF Stamps
  <2>2. IsFiniteSet(dates)
    BY <1>1, <2>1, FS_Subset
  <2> QED BY <2>2, FS_CardinalityType
<1>3. Cardinality(dates) >= 4
  BY DEF CalibrationUsable
<1>4. k \in Nat /\ k < Cardinality(dates)
  <2> SUFFICES ASSUME NEW n \in Nat, n >= 4
               PROVE  (n * 67) \div 100 \in Nat /\ (n * 67) \div 100 < n
    BY <1>2, <1>3
  <2> QED OBVIOUS
<1>5. PICK d \in dates : Rank(d) = k
  <2> HIDE DEF dates, k
  <2> QED BY <1>1, <1>4, RankExists
<1>6. SelectionStart(rows) \in dates
  BY <1>5 DEF SelectionStart
<1> QED BY <1>1, <1>6, BuildConstants DEF Stamps

(***************************************************************************)
(* What is over before a selection period really is: no candidate saw a    *)
(* label that ends after the first row it is compared on.                  *)
(***************************************************************************)
THEOREM SelectionComesAfter ==
  ASSUME NEW rows, \A r \in rows : Rowlike(r), NEW y \in Int, NEW on,
         PartUsable(rows, y, on), NEW part \in OverBefore(on),
         NEW r \in PartOf(rows, y, part), NEW t \in PartOf(rows, y, on)
  PROVE  r.end < t.at
<1> DEFINE fold == Fold(rows, y)
<1>1. \A q \in fold.train : q \in rows /\ Rowlike(q) /\ Purged(q, YearStart(y - 1))
  BY DEF Fold
<1>2. \A q \in fold.validation : q \in rows /\ Rowlike(q) /\ q.at >= YearStart(y - 1)
  BY DEF Fold
<1>3. YearStart(y - 1) \in Int
  BY FoldConstants DEF YearStart
<1> HIDE DEF fold
<1>4. \A q \in fold.train, v \in fold.validation : q.end < v.at
  BY <1>1, <1>2, <1>3, FoldConstants DEF Purged, LabelEnd, Rowlike
<1>5. CASE on = "validation"
  <2>1. r \in fold.train /\ t \in fold.validation
    BY <1>5 DEF OverBefore, PartOf, fold
  <2> QED BY <1>4, <2>1
<1>6. CASE on = "calibrationSelection"
  <2>1. t \in fold.validation /\ t.at >= SelectionStart(fold.validation)
    BY <1>6 DEF PartOf, fold, CalibrationSelection
  <2>2. SelectionStart(fold.validation) \in Int
    BY <1>2, <1>6, SelectionStartIsInt DEF PartUsable, fold
  <2>3. CASE part = "train"
    BY <1>4, <2>1, <2>3 DEF PartOf, fold
  <2>4. CASE part = "calibrationFit"
    <3>1. r \in fold.validation /\ Purged(r, SelectionStart(fold.validation))
      BY <2>4 DEF PartOf, fold, CalibrationFit
    <3> QED BY <1>2, <2>1, <2>2, <3>1, FoldConstants DEF Purged, LabelEnd, Rowlike
  <2> QED BY <1>6, <2>3, <2>4 DEF OverBefore
<1>7. CASE on = "innerSelection"
  <2>1. t \in fold.train /\ t.at >= InnerYear(fold.train)
    BY <1>7 DEF PartOf, fold, InnerSelection
  <2>2. InnerYear(fold.train) \in Int
    <3> DEFINE dates == {q.at : q \in fold.train}
    <3>1. dates \subseteq Stamps /\ dates # {}
      BY <1>1, <2>1 DEF Rowlike
    <3>2. Latest(dates) \in Int
      <4> HIDE DEF dates
      <4> QED BY <3>1, LatestIsInt
    <3> QED BY <3>2, FoldConstants DEF InnerYear, YearOf, YearStart
  <2>3. r \in fold.train /\ Purged(r, InnerYear(fold.train))
    BY <1>7 DEF OverBefore, PartOf, fold, InnerFit
  <2> QED BY <1>1, <2>1, <2>2, <2>3, FoldConstants DEF Purged, LabelEnd, Rowlike
<1>8. CASE on = "test"
  <2>1. r.end < YearStart(y) - Embargo
    BY <1>8, BlindPartsEndBefore DEF OverBefore
  <2>2. t \in rows /\ t.at >= YearStart(y)
    BY <1>8 DEF PartOf, Fold
  <2>3. YearStart(y) \in Int /\ r \in fold.train \cup fold.validation
    <3>1. YearStart(y) \in Int
      BY FoldConstants DEF YearStart
    <3>2. CASE part \in {"train", "recent", "innerFit", "innerSelection"}
      BY <3>1, <3>2 DEF PartOf, fold, Recent, InnerFit, InnerSelection
    <3>3. CASE part \in {"validation", "calibrationFit", "calibrationSelection", "both"}
      BY <3>1, <3>3 DEF PartOf, fold, CalibrationFit, CalibrationSelection
    <3> QED BY <1>8, <3>2, <3>3 DEF OverBefore, BlindParts
  <2>4. r.end \in Int /\ t.at \in Int
    BY <1>1, <1>2, <2>2, <2>3 DEF Rowlike
  <2> QED BY <2>1, <2>2, <2>3, <2>4, FoldConstants
<1> QED BY <1>5, <1>6, <1>7, <1>8 DEF OverBefore
=============================================================================
