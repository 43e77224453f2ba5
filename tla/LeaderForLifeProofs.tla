------------------------ MODULE LeaderForLifeProofs ------------------------
(***************************************************************************)
(* That at most one operator reconciles, and one more for each call whose  *)
(* error main drops: for any number of pods, failures and stops.           *)
(***************************************************************************)
EXTENDS LeaderForLife, FiniteSetTheorems, TLAPS

(* There are no more pods without a lock than there were failures. *)
FewProceeded == IsFiniteSet(proceeded) /\ Cardinality(proceeded) <= faults

(* TypeOK is preserved by every step. *)
LEMMA TypeStep == TypeOK /\ [Next]_vars => TypeOK'
  <1> USE LeaderAssumption DEF TypeOK, Leading, States, InProcess, Become
  <1> SUFFICES ASSUME TypeOK, [Next]_vars PROVE TypeOK'
    OBVIOUS
  <1>1. ASSUME NEW p \in Pods, FindLock(p) PROVE TypeOK'
    BY <1>1 DEF FindLock
  <1>2. ASSUME NEW p \in Pods, CreateLock(p) PROVE TypeOK'
    BY <1>2 DEF CreateLock
  <1>3. ASSUME NEW p \in Pods, CallFails(p) PROVE TypeOK'
    BY <1>3 DEF CallFails
  <1>4. ASSUME NEW p \in Pods, StartPod(p) PROVE TypeOK'
    BY <1>4 DEF StartPod
  <1>5. ASSUME NEW p \in Pods, RestartContainer(p) PROVE TypeOK'
    BY <1>5 DEF RestartContainer
  <1>6. ASSUME NEW p \in Pods, ExitContainer(p) PROVE TypeOK'
    BY <1>6 DEF ExitContainer, Stop
  <1>7. ASSUME NEW p \in Pods, EvictPod(p) PROVE TypeOK'
    BY <1>7 DEF EvictPod, Stop
  <1>8. ASSUME NEW p \in Pods, DeletePod(p) PROVE TypeOK'
    BY <1>8 DEF DeletePod, Stop
  <1>9. CASE CollectLock
    BY <1>9 DEF CollectLock
  <1>10. CASE UNCHANGED vars
    BY <1>10 DEF vars
  <1>11. QED
    BY <1>1, <1>2, <1>3, <1>4, <1>5, <1>6, <1>7, <1>8, <1>9, <1>10 DEF Next

(* In every reachable state the variables have their types, and only a pod *)
(* that leads is past Become with an error.                                *)
THEOREM TypeCorrect == Spec => []TypeOK
  <1>1. Init => TypeOK
    BY LeaderAssumption DEF Init, TypeOK, States, Leading
  <1>2. QED
    BY <1>1, TypeStep, PTL DEF Spec

(* Leaders own the lock or proceeded with an error: every step keeps it.   *)
LEMMA OwnStep == TypeOK /\ LeadersOwnLock /\ [Next]_vars => LeadersOwnLock'
  <1> USE DEF TypeOK, LeadersOwnLock, Leading, Become
  <1> SUFFICES ASSUME TypeOK, LeadersOwnLock, [Next]_vars
               PROVE  LeadersOwnLock'
    OBVIOUS
  <1>1. ASSUME NEW p \in Pods, FindLock(p) PROVE LeadersOwnLock'
    BY <1>1 DEF FindLock
  <1>2. ASSUME NEW p \in Pods, CreateLock(p) PROVE LeadersOwnLock'
    BY <1>2, LeaderAssumption DEF CreateLock
  <1>3. ASSUME NEW p \in Pods, CallFails(p) PROVE LeadersOwnLock'
    BY <1>3, LeaderAssumption DEF CallFails
  <1>4. ASSUME NEW p \in Pods, StartPod(p) PROVE LeadersOwnLock'
    BY <1>4 DEF StartPod
  <1>5. ASSUME NEW p \in Pods, RestartContainer(p) PROVE LeadersOwnLock'
    BY <1>5 DEF RestartContainer
  <1>6. ASSUME NEW p \in Pods, ExitContainer(p) PROVE LeadersOwnLock'
    BY <1>6 DEF ExitContainer, Stop
  <1>7. ASSUME NEW p \in Pods, EvictPod(p) PROVE LeadersOwnLock'
    BY <1>7 DEF EvictPod, Stop
  <1>8. ASSUME NEW p \in Pods, DeletePod(p) PROVE LeadersOwnLock'
    BY <1>8 DEF DeletePod, Stop
  <1>9. CASE CollectLock
    \* the owner of a lock that is collected is absent, so it does not lead
    BY <1>9, LeaderAssumption DEF CollectLock
  <1>10. CASE UNCHANGED vars
    BY <1>10 DEF vars
  <1>11. QED
    BY <1>1, <1>2, <1>3, <1>4, <1>5, <1>6, <1>7, <1>8, <1>9, <1>10 DEF Next

(* An operator reconciles only with the lock, or after an error of Become. *)
THEOREM LockOwned == Spec => []LeadersOwnLock
  <1>1. Init => LeadersOwnLock
    BY DEF Init, LeadersOwnLock, Leading
  <1>2. QED
    BY <1>1, OwnStep, TypeCorrect, PTL DEF Spec

(* A step that fails adds one pod to proceeded, others only remove pods.   *)
LEMMA ProceededStep == TypeOK /\ FewProceeded /\ [Next]_vars => FewProceeded'
  <1> SUFFICES ASSUME TypeOK, FewProceeded, [Next]_vars PROVE FewProceeded'
    OBVIOUS
  <1>1. faults \in Nat /\ Cardinality(proceeded) \in Nat
    BY LeaderAssumption, FS_CardinalityType DEF TypeOK, FewProceeded
  <1>2. ASSUME NEW p \in Pods, CallFails(p) PROVE FewProceeded'
    <2>1. faults' = faults + 1 /\ proceeded' = proceeded \cup {p}
      BY <1>2 DEF CallFails
    <2>2. /\ IsFiniteSet(proceeded \cup {p})
          /\ Cardinality(proceeded \cup {p}) \in
               {Cardinality(proceeded), Cardinality(proceeded) + 1}
      BY FS_AddElement DEF FewProceeded
    <2>3. QED
      BY <1>1, <2>1, <2>2 DEF FewProceeded
  <1>3. ASSUME NEW p \in Pods, NEW s, Stop(p, s) PROVE FewProceeded'
    <2>1. faults' = faults /\ proceeded' = proceeded \ {p}
      BY <1>3 DEF Stop
    <2>2. /\ IsFiniteSet(proceeded \ {p})
          /\ Cardinality(proceeded \ {p}) \in
               {Cardinality(proceeded), Cardinality(proceeded) - 1}
      BY FS_RemoveElement DEF FewProceeded
    <2>3. QED
      BY <1>1, <2>1, <2>2 DEF FewProceeded
  <1>4. CASE UNCHANGED <<proceeded, faults>>
    BY <1>4 DEF FewProceeded
  <1>5. QED
    BY <1>2, <1>3, <1>4 DEF Next, vars, FindLock, CreateLock, StartPod,
       RestartContainer, ExitContainer, EvictPod, DeletePod, CollectLock

(* The owner of the lock and the pods that proceeded are all the leaders.  *)
LEMMA CountLeaders == TypeOK /\ LeadersOwnLock /\ FewProceeded => FewLeaders
  <1> SUFFICES ASSUME TypeOK, LeadersOwnLock, FewProceeded PROVE FewLeaders
    OBVIOUS
  <1>1. Leading \in SUBSET (proceeded \cup {lock})
    BY DEF LeadersOwnLock
  <1>2. /\ IsFiniteSet(proceeded \cup {lock})
        /\ Cardinality(proceeded \cup {lock}) \in
             {Cardinality(proceeded), Cardinality(proceeded) + 1}
    BY FS_AddElement DEF FewProceeded
  <1>3. /\ IsFiniteSet(Leading)
        /\ Cardinality(Leading) <= Cardinality(proceeded \cup {lock})
    BY <1>1, <1>2, FS_Subset
  <1>4. /\ Cardinality(Leading) \in Nat /\ Cardinality(proceeded) \in Nat
        /\ faults \in Nat
    BY <1>3, FS_CardinalityType, LeaderAssumption DEF FewProceeded, TypeOK
  <1>5. QED
    BY <1>2, <1>3, <1>4 DEF FewProceeded, FewLeaders

(* At most one operator reconciles, and one more for each failed call.     *)
THEOREM LeadersFew == Spec => []FewLeaders
  <1>1. Init => FewProceeded
    BY FS_EmptySet DEF Init, FewProceeded
  <1>2. QED
    BY <1>1, ProceededStep, CountLeaders, LockOwned, TypeCorrect, PTL DEF Spec
=============================================================================
