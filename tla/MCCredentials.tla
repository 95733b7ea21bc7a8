--------------------------- MODULE MCCredentials ---------------------------
(***************************************************************************)
(* A LAN listener with TLS (sessions, tickets, pairings) or plain loopback *)
(* (tickets for the access key); two requests in flight, two origins, two  *)
(* instances, a cap of two pairings, and a ticket that is outlived by      *)
(* pairings and sessions.                                                  *)
(***************************************************************************)
EXTENDS Credentials, TLC

Symmetry == Permutations(Request) \union Permutations(Origin)
              \union Permutations(Instance)
=============================================================================
