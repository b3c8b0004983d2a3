----------------------------- MODULE PlayIntent -----------------------------
(***************************************************************************)
(* What the player promises about the track it plays, whatever happens on  *)
(* the network: a module is approved only while it is the one the user     *)
(* wants, and only an approved module ever becomes the current one.  How   *)
(* long approval waits for the main thread, and what the user wants by     *)
(* then, is left open, as LMCurrentPlayerManager.h leaves it.              *)
(***************************************************************************)
EXTENDS Naturals

VARIABLES
    target,     \* the index the user would like to hear
    current,    \* the current module, {} before the first
    approved    \* modules chosen for the target and not yet installed

vars == <<target, current, approved>>

Init == target = 0 /\ current = {} /\ approved = {}

Retarget == target' \in Nat /\ UNCHANGED <<current, approved>>

Approve ==
    /\ \E m \in approved' : m.index = target /\ approved' = approved \cup {m}
    /\ UNCHANGED <<target, current>>

Install ==
    /\ \E m \in approved : current' = {m} /\ approved' \in {approved, approved \ {m}}
    /\ UNCHANGED target

Next == Retarget \/ Approve \/ Install

Spec == Init /\ [][Next]_vars
=============================================================================
