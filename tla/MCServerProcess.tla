--------------------------- MODULE MCServerProcess ---------------------------
(***************************************************************************)
(* Instances of ServerProcess for TLC: one life with two requests for      *)
(* Redis, which comes and goes, and lives with audited requests.           *)
(***************************************************************************)
EXTENDS ServerProcess

CONSTANTS t1, t2, p1, p2

MCLives ==
  {[requests |-> {t1, t2}, outages |-> TRUE, broker |-> FALSE],
   [requests |-> {p1}, outages |-> FALSE, broker |-> FALSE],
   [requests |-> {p1, p2}, outages |-> FALSE, broker |-> TRUE]}

MCRedisLife == {[requests |-> {t1}, outages |-> TRUE, broker |-> FALSE]}

=============================================================================
