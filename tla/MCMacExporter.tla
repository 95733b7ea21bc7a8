--------------------------- MODULE MCMacExporter ---------------------------
(***************************************************************************)
(* Two scrapers; one unit of time is half a second: a reading is fresh for *)
(* one, a scrape waits for two, the supervisor pauses for two and takes a  *)
(* silence of three for a stall.                                           *)
(***************************************************************************)
EXTENDS MacExporter, TLC

Symmetry == Permutations(Client)
=============================================================================
