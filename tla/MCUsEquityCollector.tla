------------------------ MODULE MCUsEquityCollector -------------------------
(* Instances of UsEquityCollector for TLC: the symbols of the runs. *)
EXTENDS UsEquityCollector
CONSTANTS AAPL, SPY
TwoSymbols == <<AAPL, SPY>>
=============================================================================
