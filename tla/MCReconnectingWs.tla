-------------------------- MODULE MCReconnectingWs --------------------------
(* ReconnectingWs for TLC: symmetric messages and sockets, and a bound on  *)
(* the timers a misbehaving reconnection can pile up.                      *)
EXTENDS ReconnectingWs, TLC

CONSTANT MaxOrphans  \* bound: reconnect timers nobody can cancel any more

Symmetry == Permutations(Msgs) \cup Permutations(Sockets)

FewOrphans == orphans <= MaxOrphans
=============================================================================
