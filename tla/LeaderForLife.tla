--------------------------- MODULE LeaderForLife ---------------------------
(***************************************************************************)
(* How an operator becomes the one that reconciles: a lock, the ConfigMap  *)
(* appdynamics-operator-lock, is created by one pod and owned by it, and   *)
(* goes with that pod.  main drops the error of Become, so that a failed   *)
(* call lets an operator proceed without the lock.                         *)
(*                                                                         *)
(* The Deployment of the operator runs one pod, but two or more overlap    *)
(* during a rollout, a drain or while a node does not answer.              *)
(***************************************************************************)
EXTENDS Naturals, FiniteSets

CONSTANTS
  None,         \* no lock
  Pods,         \* pods of the operator's Deployment
  MaxFaults,    \* bound: calls that fail, or whose answer is lost
  MaxStops      \* bound: exits, evictions and deletions

ASSUME LeaderAssumption ==
  None \notin Pods /\ MaxFaults \in Nat /\ MaxStops \in Nat

VARIABLES
  state,        \* what each pod is doing
  lock,         \* the owner of the lock
  proceeded,    \* history: pods that got past Become with an error
  faults, stops

vars == <<state, lock, proceeded, faults, stops>>

(* evicted: the containers are gone, the pod object stays. *)
States == {"absent", "starting", "waiting", "leading", "exited", "evicted"}
InProcess == {"starting", "waiting", "leading"}

Become(p, s) == state' = [state EXCEPT ![p] = s]

-----------------------------------------------------------------------------
(* leader.Become, and main up to mgr.Start.                                *)

\* Faulty variant: an existing lock is enough, whoever owns it.
FindAnyLock(p) ==
  /\ state[p] = "starting"
  /\ Become(p, IF lock # None THEN "leading" ELSE "waiting")
  /\ UNCHANGED <<lock, proceeded, faults, stops>>

\* Faulty variant: a restarted container does not look for its own lock.
SkipLock(p) ==
  /\ state[p] = "starting"
  /\ Become(p, "waiting")
  /\ UNCHANGED <<lock, proceeded, faults, stops>>

(* Get: a lock that names this pod was taken before the container          *)
(* restarted.                                                              *)
FindLock(p) ==
  /\ state[p] = "starting"
  /\ Become(p, IF lock = p THEN "leading" ELSE "waiting")
  /\ UNCHANGED <<lock, proceeded, faults, stops>>

(* Create, tried again after a back-off as long as the lock exists. *)
CreateLock(p) ==
  /\ state[p] = "waiting" /\ lock = None
  /\ lock' = p
  /\ Become(p, "leading")
  /\ UNCHANGED <<proceeded, faults, stops>>

\* Faulty variant: Become runs again in the background while main goes on.
CallFailsRetried(p) ==
  /\ state[p] \in {"starting", "waiting"} /\ faults < MaxFaults
  /\ faults' = faults + 1
  /\ proceeded' = proceeded \cup {p}
  /\ Become(p, "starting")
  /\ UNCHANGED <<lock, stops>>

(* Any other error ends Become; main goes on all the same.  A Create whose *)
(* answer is lost has taken the lock.                                      *)
CallFails(p) ==
  /\ state[p] \in {"starting", "waiting"} /\ faults < MaxFaults
  /\ faults' = faults + 1
  /\ lock' \in {lock} \cup (IF state[p] = "waiting" /\ lock = None THEN {p} ELSE {})
  /\ proceeded' = proceeded \cup {p}
  /\ Become(p, "leading")
  /\ UNCHANGED stops

-----------------------------------------------------------------------------
(* The cluster.  A pod's name is never used again: a slot is free when no  *)
(* lock names it.                                                          *)

StartPod(p) ==
  /\ state[p] = "absent" /\ lock # p
  /\ Become(p, "starting")
  /\ UNCHANGED <<lock, proceeded, faults, stops>>

(* The Deployment replaces a pod that does not run. *)
ReplacePod(p) ==
  /\ \A q \in Pods : state[q] \in {"absent", "evicted"}
  /\ StartPod(p)

Stop(p, s) ==
  /\ stops < MaxStops /\ stops' = stops + 1
  /\ Become(p, s) /\ proceeded' = proceeded \ {p}
  /\ UNCHANGED <<lock, faults>>

ExitContainer(p) == state[p] \in InProcess /\ Stop(p, "exited")
EvictPod(p)      == state[p] \in InProcess \cup {"exited"} /\ Stop(p, "evicted")
DeletePod(p)     == state[p] # "absent" /\ Stop(p, "absent")

RestartContainer(p) ==
  /\ state[p] = "exited"
  /\ Become(p, "starting")
  /\ UNCHANGED <<lock, proceeded, faults, stops>>

CollectLock ==
  /\ lock # None /\ state[lock] = "absent"
  /\ lock' = None
  /\ UNCHANGED <<state, proceeded, faults, stops>>

-----------------------------------------------------------------------------
Init ==
  /\ state = [p \in Pods |-> "absent"]
  /\ lock = None /\ proceeded = {}
  /\ faults = 0 /\ stops = 0

Next ==
  \/ \E p \in Pods : \/ FindLock(p) \/ CreateLock(p) \/ CallFails(p)
                     \/ StartPod(p) \/ RestartContainer(p)
                     \/ ExitContainer(p) \/ EvictPod(p) \/ DeletePod(p)
  \/ CollectLock

(* Become is straight-line code and a loop with a bounded back-off; the    *)
(* kubelet restarts containers, the Deployment replaces a pod, the garbage *)
(* collector runs.  Pods stop and calls fail as they please.               *)
Fairness ==
  /\ \A p \in Pods : /\ WF_vars(FindLock(p)) /\ WF_vars(CreateLock(p))
                     /\ WF_vars(RestartContainer(p))
  /\ WF_vars(\E p \in Pods : ReplacePod(p))
  /\ WF_vars(CollectLock)

Spec == Init /\ [][Next]_vars
FairSpec == Spec /\ Fairness

-----------------------------------------------------------------------------
(* Properties.                                                             *)

Leading == {p \in Pods : state[p] = "leading"}

(* The values every variable takes.                                        *)
TypeOK ==
  /\ state \in [Pods -> States]
  /\ lock \in Pods \cup {None}
  /\ proceeded \subseteq Leading
  /\ faults \in 0..MaxFaults /\ stops \in 0..MaxStops

(* An operator that reconciles owns the lock, or main ignored an error of  *)
(* Become: no overlap of pods, restart of a container, eviction or         *)
(* collection of the lock makes a second leader.                           *)
LeadersOwnLock == \A p \in Leading : lock = p \/ p \in proceeded

(* How many operators reconcile at once: one, and one for each call that   *)
(* failed.  Without a failure there is never a second one.                 *)
FewLeaders == Cardinality(Leading) <= 1 + faults

(* Some operator leads in the end, unless the lock belongs to an evicted   *)
(* pod: its object stays, the garbage collector does not touch the lock    *)
(* and its successor waits.                                                *)
LeaderEmerges ==
  <>[](Leading # {} \/ (lock # None /\ state[lock] = "evicted"))
=============================================================================
