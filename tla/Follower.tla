------------------------------ MODULE Follower ------------------------------
(***************************************************************************)
(* What the controllers of agents promise, without caches, versions,       *)
(* failures or retries: an agent follows the edits of its resource in two  *)
(* stages.  An edit is installed in the ConfigMap and then applied, by a   *)
(* restart or by the mark that stands for it.  Both stages only move       *)
(* forward, and an edit is applied only while it, or a later one, is       *)
(* installed; so it is applied at most once.                               *)
(***************************************************************************)
EXTENDS Naturals

VARIABLES wanted,     \* the number of the last edit
          installed,  \* the edit in the ConfigMap, 0 when there is none
          applied     \* the edit the agent runs with, 0 when there is none

vars == <<wanted, installed, applied>>

Init == wanted = 0 /\ installed = 0 /\ applied = 0

(* A user edits the resource, or removes what was made for it. *)
Edit ==
  /\ wanted' = wanted + 1
  /\ applied' \in {applied, 0}
  /\ UNCHANGED installed

Install ==
  /\ installed' \in installed + 1 .. wanted
  /\ UNCHANGED <<wanted, applied>>

Apply ==
  /\ applied' \in applied + 1 .. installed
  /\ UNCHANGED <<wanted, installed>>

Uninstall == installed' = 0 /\ UNCHANGED <<wanted, applied>>
Remove    == applied' = 0 /\ UNCHANGED <<wanted, installed>>

Next == Edit \/ Install \/ Apply \/ Uninstall \/ Remove
Spec == Init /\ [][Next]_vars
=============================================================================
