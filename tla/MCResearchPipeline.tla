------------------------- MODULE MCResearchPipeline -------------------------
EXTENDS ResearchPipeline

\* Nine-day years: 0 is 2020, 6 is 2026.  The missing month ends 2022.
MCAssetOrder == <<"BTC", "ETH">>
MCAssetOf == [f \in {"spot", "metrics", "funding"} |-> IF f = "spot" THEN "BTC" ELSE "ETH"]
MCDaysOf == [spot |-> 24..26, metrics |-> 0..35, funding |-> 36..62]
MCEarlierDays == [a \in {"BTC", "ETH"} |-> IF a = "BTC" THEN 0..62 \ 24..26 ELSE 2..62]
MCEarlierDerivatives == [a \in {"BTC", "ETH"} |-> IF a = "BTC" THEN 0..62 ELSE {}]
MCSessionsOf ==
  [h \in {"full", "until2025"} |->
     CASE h = "full" -> [SPY |-> 0..59 \ {4, 20}, AAPL |-> 0..59 \ {4}]
       [] h = "until2025" -> [SPY |-> 0..53, AAPL |-> 0..53]]
MCPilot == {"SPY", "AAPL"}
MCMacroDays == {d \in 0..62 : d % 3 = 0}
MCUnreadable == {<<"funding", 1>>}
MCBothHorizons == <<1, 2>>
=============================================================================
