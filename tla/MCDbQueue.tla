----------------------------- MODULE MCDbQueue -----------------------------
(* Finite instances of DbQueue for TLC: a vault that may be restored with a  *)
(* row of an unknown kind; then a replicated row, a metrics group with a     *)
(* malformed row and two risk snapshots.                                     *)
EXTENDS DbQueue

MCGroups == {"ledger", "metrics", "risk"}
MCGroupOf == <<"ledger", "ledger", "metrics", "metrics", "risk", "risk">>
=============================================================================
