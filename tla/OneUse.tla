------------------------------- MODULE OneUse -------------------------------
(***************************************************************************)
(* What the console promises about a one-use credential, whatever table    *)
(* and lock implement it.  Credentials are numbered in the order they are  *)
(* minted.  A minted credential is pending until it is either spent, once, *)
(* or withdrawn (it expired, was revoked or was evicted); it is never      *)
(* pending again.                                                          *)
(***************************************************************************)
EXTENDS Naturals

VARIABLES
    issued,     \* how many credentials have been minted
    pending,    \* the ones that can still be spent
    spent       \* the ones that bought something

vars == <<issued, pending, spent>>

Init ==
    /\ issued = 0
    /\ pending = {}
    /\ spent = {}

\* Minting one credential may withdraw others (expired or evicted ones).
Mint ==
    /\ issued' = issued + 1
    /\ pending' \subseteq pending \union {issued'}
    /\ issued' \in pending'
    /\ UNCHANGED spent

\* Only a pending credential is spent, one per step.
Spend(i) ==
    /\ i \in pending
    /\ i \notin pending'
    /\ pending' \subseteq pending
    /\ spent' = spent \union {i}
    /\ UNCHANGED issued

Withdraw ==
    /\ pending' \subseteq pending
    /\ UNCHANGED <<issued, spent>>

Next == Mint \/ (\E i \in pending : Spend(i)) \/ Withdraw

Spec == Init /\ [][Next]_vars
=============================================================================
