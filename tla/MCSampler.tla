----------------------------- MODULE MCSampler -----------------------------
(***************************************************************************)
(* One unit of time is the budget of the agents; the period is two, so an  *)
(* agent that is waited for in vain leaves the tick within its period, and *)
(* a fetch is given three, so a slow engine takes the tick past it.        *)
(***************************************************************************)
EXTENDS Sampler
=============================================================================
