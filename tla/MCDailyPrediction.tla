-------------------------- MODULE MCDailyPrediction --------------------------
(* Two crypto assets and SPY; two crypto models and one of the equities. *)
EXTENDS DailyPrediction

CONSTANTS BTC, ETH, SPY, old, new, spyModel

MCClassOf == [m \in Models |-> IF m = spyModel THEN "equity" ELSE "crypto"]

MCFirstFlags == [m \in Models |-> IF m = old THEN "production" ELSE "candidate"]

\* Every asset has its days and its derivatives of the day before; or ETH lacks
\* those; or ETH was listed today and SPY's last session is missing.
Yesterday(eth) == [a \in Crypto |-> IF a = BTC THEN {0} ELSE {eth}]
Complete == [a \in Assets |-> {-1, 0}]
MCFirstTables ==
  {[bars |-> Complete, derivatives |-> Yesterday(0)],
   [bars |-> Complete, derivatives |-> Yesterday(-1)],
   [bars |-> [Complete EXCEPT ![ETH] = {}, ![SPY] = {-2, -1}], derivatives |-> Yesterday(0)]}
MCEarliest == -2
MCPromotions == {{new}}
MCChoices == {{old, spyModel}}
MCTriggers == <<2, 0>>
=============================================================================
