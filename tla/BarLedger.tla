----------------------------- MODULE BarLedger ------------------------------
(***************************************************************************)
(* What the rest of the system may rely on about price_bars, whatever the  *)
(* writers are: rows appear and are never deleted, a bar once final never  *)
(* becomes provisional again, and a settled bar (one that a reconciliation *)
(* has committed from data read after the candle closed) is frozen.        *)
(***************************************************************************)
CONSTANTS Bars, Versions, None

VARIABLES rows, settled

Row == [final : BOOLEAN, ver : Versions]

LedgerInit ==
  /\ rows = [k \in Bars |-> None]
  /\ settled = {}

\* A row that is present stays, and its finality only grows.
Advances(old, new) ==
  \/ old = None
  \/ new # None /\ (old.final => new.final)

Commit ==
  /\ rows' \in [Bars -> Row \cup {None}]
  /\ settled \subseteq settled'
  /\ settled' \subseteq Bars
  /\ \A k \in Bars : Advances(rows[k], rows'[k])
  /\ \A k \in settled : rows'[k] = rows[k]
  /\ \A k \in settled' : rows'[k] # None /\ rows'[k].final

LedgerSpec == LedgerInit /\ [][Commit]_<<rows, settled>>
=============================================================================
