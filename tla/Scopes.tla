-------------------------------- MODULE Scopes -------------------------------
(***************************************************************************)
(* What Database::Transaction promises: a scope is entered, is held by     *)
(* exactly one owner, and ends with all of its changes kept if its commit  *)
(* succeeded and with none of them otherwise.  Nothing ends a scope but    *)
(* its owner.  The promise ends when its ground is breached: when the      *)
(* transaction, or the Database it runs on, is taken away from outside.    *)
(***************************************************************************)
EXTENDS Naturals

CONSTANT MaxScopes   \* bound: how many scopes are entered

VARIABLES
    fate,      \* per scope: "none", "active", "committed" or "rolledback"
    held,      \* the scopes that have an owner
    breached   \* the promise has ended

vars == <<fate, held, breached>>

Ids == 1..MaxScopes

Init ==
    /\ fate = [t \in Ids |-> "none"]
    /\ held = {}
    /\ breached = FALSE

Enter(t) ==
    /\ fate[t] = "none"
    /\ fate' = [fate EXCEPT ![t] = "active"]
    /\ held' = held \cup {t}

Keep(t) ==
    /\ t \in held /\ fate[t] = "active"
    /\ fate' = [fate EXCEPT ![t] = "committed"]
    /\ held' = held \ {t}

Discard(t) ==
    /\ t \in held /\ fate[t] = "active"
    /\ fate' = [fate EXCEPT ![t] = "rolledback"]
    /\ held' = held \ {t}

\* Once breached, whatever may happen to fate and held.
Next ==
    \/ breached'
    \/ UNCHANGED breached /\ \E t \in Ids : Enter(t) \/ Keep(t) \/ Discard(t)

Spec == Init /\ [][Next]_vars
=============================================================================
