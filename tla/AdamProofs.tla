----------------------------- MODULE AdamProofs -----------------------------
(***************************************************************************)
(* Safety of Adam, for every set of specs and all bounds, and that Adam    *)
(* implements Follower.                                                    *)
(***************************************************************************)
EXTENDS Adam, PropertyBagProofs

-----------------------------------------------------------------------------
(* Values.                                                                 *)

LEMMA MadeBagOK ==
  ASSUME NEW c \in Confs, NEW v \in Versions, NEW b \in BOOLEAN
  PROVE  UpdatedBag(c, v, b) \in Bags
  BY DEF Bags

(* Loading a bag is making it with another version of the Secret. *)
LEMMA LoadedBagOK ==
  ASSUME NEW x \in Bags, NEW v \in Versions
  PROVE  LoadedBag(x, v) \in Bags /\ LoadedBag(x, v).props = x.props
<1>1. PICK c \in Confs, w \in Versions, b \in BOOLEAN : x = UpdatedBag(c, w, b)
  BY DEF Bags
<1>2. LoadedBag(x, v) = UpdatedBag(c, v, b)
  BY <1>1 DEF LoadedBag, UpdatedBag
<1> QED
  BY <1>1, <1>2, MadeBagOK DEF UpdatedBag

LEMMA BagFields == ASSUME NEW x \in Bags PROVE x.secretVersion \in Versions
  BY DEF Bags, UpdatedBag

LEMMA DefaultImageOK ==
  ASSUME NEW v \in CrValues
  PROVE  /\ WithImageDefault(v) \in CrValues
         /\ WithImageDefault(v).gen = v.gen /\ WithImageDefault(v).uid = v.uid
         /\ WithImageDefault(v).conf = v.conf
  BY DEF WithImageDefault, CrValues, Images

(* Writes put the value in place, and mark the cache as lagging. *)
LEMMA PutCrSets ==
  ASSUME NEW v, PutCr(v), staleCr \in BOOLEAN
  PROVE  cr' = v /\ staleCr' \in BOOLEAN
  BY DEF PutCr
LEMMA PutDepSets ==
  ASSUME NEW v, PutDep(v), staleDep \in BOOLEAN
  PROVE  dep' = v /\ staleDep' \in BOOLEAN
  BY DEF PutDep
LEMMA PutCmSets ==
  ASSUME NEW v, PutCm(v), staleCm \in BOOLEAN
  PROVE  cm' = v /\ staleCm' \in BOOLEAN
  BY DEF PutCm

(* A copy of the worker that is not needed any more, or kept. *)
LEMMA StopSets ==
  ASSUME Stop
  PROVE  /\ pc' = "idle" /\ ca' = None /\ exd' = None /\ bag' = None
         /\ outdated' = {}
  BY DEF Stop

LEMMA EndSets == ASSUME Done \/ Requeue PROVE Stop /\ dirty' = dirty
  BY DEF Done, Requeue, queue

-----------------------------------------------------------------------------
(* Type correctness.  A Secret that was seen is there: nothing deletes it. *)

ApiOK ==
  /\ cr \in CrValues \cup {None} /\ dep \in DepValues \cup {None}
  /\ cm \in CmValues \cup {None} /\ secret \in Versions \cup {None}
  /\ svc \in BOOLEAN
CacheOK ==
  /\ seenCr \in CrValues \cup {None} /\ seenDep \in DepValues \cup {None}
  /\ seenCm \in CmValues \cup {None} /\ seenSecret \in Versions \cup {None}
  /\ seenSvc \in BOOLEAN /\ staleCr \in BOOLEAN /\ staleDep \in BOOLEAN
  /\ staleCm \in BOOLEAN
  /\ seenSecret # None => secret # None
WorkerOK ==
  /\ pc \in Steps
  /\ ca \in CrValues \cup {None} /\ exd \in DepValues \cup {None}
  /\ bag \in Bags \cup {None} /\ outdated \subseteq {"ca", "exd", "cm"}
  /\ (ca = None) = (pc \in {"idle", "gone"})
  /\ pc \in {"map", "image", "restart"} => exd # None /\ bag # None
  /\ pc = "config" => seenSecret # None
CountersOK ==
  /\ dirty \in BOOLEAN /\ delayed \in BOOLEAN
  /\ edits \in 0..MaxEdits /\ faults \in 0..MaxFaults /\ restarted \in Gens
TypeInv == ApiOK /\ CacheOK /\ WorkerOK /\ CountersOK

LEMMA TypeInvOK == TypeInv => TypeOK
  BY DEF TypeInv, ApiOK, CacheOK, WorkerOK, CountersOK, TypeOK

(* A worker that stops has no copies to be typed. *)
LEMMA StopOK == Stop => WorkerOK'
  BY NoneAssumption DEF Stop, WorkerOK, Steps

LEMMA EndOK ==
  ASSUME CountersOK, Done \/ Requeue
  PROVE  WorkerOK' /\ dirty' \in BOOLEAN /\ delayed' \in BOOLEAN
  BY StopOK DEF Done, Requeue, CountersOK, queue

(* A worker that goes on with the copies it has. *)
LEMMA KeepOK ==
  ASSUME WorkerOK, CountersOK, pc \notin {"idle", "gone"},
         NEW step \in Steps \ {"idle", "gone"}, Goto(step), Keep,
         step \in {"map", "image", "restart"} => exd # None /\ bag # None,
         step = "config" => seenSecret' # None
  PROVE  WorkerOK' /\ dirty' \in BOOLEAN /\ delayed' \in BOOLEAN
  BY DEF WorkerOK, CountersOK, Goto, Keep, queue

LEMMA TypeInit == Init => TypeInv
<1> SUFFICES ASSUME Init PROVE TypeInv
  OBVIOUS
<1>1. 0 \in 0..MaxEdits /\ 0 \in 0..MaxFaults
  BY BoundsAssumption
<1>2. WorkerOK
  BY DEF Init, WorkerOK, Steps
<1>3. ApiOK /\ CacheOK
  BY DEF Init, ApiOK, CacheOK
<1>4. CountersOK
  BY <1>1 DEF Init, CountersOK, Gens
<1> QED
  BY <1>2, <1>3, <1>4 DEF TypeInv

(* The reads and what is created from them. *)
LEMMA TypeEnsure ==
  ASSUME TypeInv,
         \/ Fetch \/ CleanUp \/ EnsureSecret \/ ReloadSecret
         \/ EnsureConfigMap \/ EnsureAgentService \/ CreateDeployment
  PROVE  TypeInv'
<1> USE DEF TypeInv
<1>0. 0 \in Versions
  BY BoundsAssumption DEF Versions
<1>1. CASE Fetch
  <2>1. WorkerOK'
    <3>1. CASE seenCr = None
      BY <1>1, <3>1 DEF Fetch, WorkerOK, Steps
    <3>2. CASE seenCr # None
      BY <1>1, <3>2, NoneAssumption DEF Fetch, WorkerOK, CacheOK, Steps
    <3> QED
      BY <3>1, <3>2
  <2> QED
    <3>1. UNCHANGED <<api, cache, edits, faults, restarted, delayed>> /\ dirty' = FALSE
      BY <1>1 DEF Fetch
    <3>2. ApiOK' /\ CacheOK'
      BY <3>1 DEF api, cache, seen, ApiOK, CacheOK
    <3>3. CountersOK'
      BY <3>1 DEF CountersOK
    <3> QED
      BY <2>1, <3>2, <3>3
<1>2. CASE CleanUp
  <2>1. WorkerOK' /\ dirty' \in BOOLEAN /\ delayed' \in BOOLEAN
    BY <1>2, EndOK, KeepOK DEF CleanUp, Steps
  <2>2. cm' \in CmValues \cup {None} /\ staleCm' \in BOOLEAN
    BY <1>2, PutCmSets DEF CleanUp, ApiOK, CacheOK
  <2> QED
    BY <1>2, <2>1, <2>2 DEF CleanUp, Others, seen, ApiOK, CacheOK, CountersOK
<1>3. CASE EnsureSecret
  <2>1. WorkerOK' /\ dirty' \in BOOLEAN /\ delayed' \in BOOLEAN
    BY <1>3, EndOK, KeepOK DEF EnsureSecret, cache, seen, Steps
  <2>2. secret' \in Versions \cup {None} /\ (secret # None => secret' # None)
    BY <1>0, <1>3 DEF EnsureSecret, ApiOK
  <2> QED
    BY <1>3, <2>1, <2>2 DEF EnsureSecret, cache, seen, ApiOK, CacheOK, CountersOK
<1>4. CASE ReloadSecret
  <2>1. WorkerOK' /\ dirty' \in BOOLEAN /\ delayed' \in BOOLEAN
    BY <1>4, EndOK, KeepOK DEF ReloadSecret, cache, seen, Steps
  <2> QED
    BY <1>4, <2>1 DEF ReloadSecret, api, cache, seen, ApiOK, CacheOK, CountersOK
<1>5. CASE EnsureConfigMap
  <2>0. /\ ca \in CrValues /\ ca.conf \in Confs /\ ca.gen \in Gens
        /\ seenSecret \in Versions
    BY <1>5 DEF EnsureConfigMap, WorkerOK, CacheOK, CrValues
  <2>1. ASSUME bag' \in Bags, UNCHANGED ca, Goto(AfterConfig),
               outdated' \subseteq outdated \cup {"cm"}
        PROVE  WorkerOK' /\ dirty' \in BOOLEAN /\ delayed' \in BOOLEAN
    BY <1>5, <2>0, <2>1, NoneAssumption
       DEF EnsureConfigMap, Goto, AfterConfig, WorkerOK, CountersOK, queue, Steps
  <2>2. CASE seenCm # None
    <3>1. bag' \in Bags
      BY <1>5, <2>0, <2>2, LoadedBagOK DEF EnsureConfigMap, CacheOK, CmValues
    <3>2. WorkerOK' /\ dirty' \in BOOLEAN /\ delayed' \in BOOLEAN
      BY <1>5, <2>1, <2>2, <3>1 DEF EnsureConfigMap
    <3> QED
      <4>1. UNCHANGED <<cr, dep, cm, svc, secret, staleCr, staleDep, staleCm, Others,
                        restarted>>
        BY <1>5, <2>2 DEF EnsureConfigMap
      <4> QED
        BY <3>2, <4>1 DEF Others, seen, ApiOK, CacheOK, CountersOK
  <2>3. CASE seenCm = None /\ cm = None
    <3>1. bag' \in Bags
      BY <1>5, <2>0, <2>3, MadeBagOK DEF EnsureConfigMap
    <3>2. WorkerOK' /\ dirty' \in BOOLEAN /\ delayed' \in BOOLEAN
      BY <1>5, <2>1, <2>3, <3>1 DEF EnsureConfigMap
    <3>3. cm' \in CmValues /\ staleCm' \in BOOLEAN
      <4>1. [gen |-> ca.gen, bag |-> bag'] \in CmValues
        BY <2>0, <3>1 DEF CmValues
      <4> QED
        BY <1>5, <2>3, <4>1, PutCmSets DEF EnsureConfigMap, CacheOK
    <3> QED
      BY <1>5, <2>3, <3>2, <3>3 DEF EnsureConfigMap, Others, seen, ApiOK, CacheOK, CountersOK
  <2>4. CASE seenCm = None /\ cm # None
    <3>1. /\ Requeue
          /\ UNCHANGED <<cr, dep, cm, svc, secret, staleCr, staleDep, staleCm, Others,
                        restarted>>
      BY <1>5, <2>4 DEF EnsureConfigMap
    <3>2. WorkerOK' /\ dirty' \in BOOLEAN /\ delayed' \in BOOLEAN
      BY <3>1, EndOK
    <3> QED
      BY <3>1, <3>2 DEF Others, seen, ApiOK, CacheOK, CountersOK
  <2> QED
    BY <2>2, <2>3, <2>4
<1>6. CASE EnsureAgentService
  <2>1. WorkerOK' /\ dirty' \in BOOLEAN /\ delayed' \in BOOLEAN
    BY <1>6, EndOK, KeepOK DEF EnsureAgentService, Steps
  <2> QED
    <3>1. svc' \in BOOLEAN
      BY <1>6 DEF EnsureAgentService, ApiOK
    <3>2. UNCHANGED <<cr, dep, cm, secret, cache, edits, faults, restarted>>
      BY <1>6 DEF EnsureAgentService
    <3> QED
      BY <2>1, <3>1, <3>2 DEF cache, seen, ApiOK, CacheOK, CountersOK
<1>7. CASE CreateDeployment
  <2> DEFINE v == WithImageDefault(ca)
  <2>1. CASE dep # None
    <3>1. /\ Requeue
          /\ UNCHANGED <<cr, dep, cm, svc, secret, staleCr, staleDep, staleCm, Others,
                        restarted>>
      BY <1>7, <2>1 DEF CreateDeployment
    <3>2. WorkerOK' /\ dirty' \in BOOLEAN /\ delayed' \in BOOLEAN
      BY <3>1, EndOK
    <3> QED
      BY <3>1, <3>2 DEF Others, seen, ApiOK, CacheOK, CountersOK
  <2>2. CASE dep = None
    <3>1. ca \in CrValues /\ v \in CrValues
      BY <1>7, DefaultImageOK DEF CreateDeployment, WorkerOK
    <3>2. dep' \in DepValues /\ staleDep' \in BOOLEAN
      <4>1. [image |-> v.image, owner |-> v.uid] \in DepValues
        BY <3>1 DEF CrValues, DepValues
      <4> QED
        BY <1>7, <2>2, <4>1, PutDepSets DEF CreateDeployment, CacheOK
    <3>3. WorkerOK' /\ dirty' \in BOOLEAN /\ delayed' \in BOOLEAN
      <4>1. /\ Goto("update") /\ ca' = v /\ UNCHANGED <<bag, outdated>>
            /\ pc = "create"
        BY <1>7, <2>2 DEF CreateDeployment
      <4> HIDE DEF v
      <4> QED
        BY <3>1, <4>1, NoneAssumption DEF Goto, WorkerOK, CountersOK, queue, Steps
    <3> QED
      BY <1>7, <3>2, <3>3 DEF CreateDeployment, Others, seen, ApiOK, CacheOK, CountersOK
  <2> QED
    BY <2>1, <2>2
<1> QED
  BY <1>1, <1>2, <1>3, <1>4, <1>5, <1>6, <1>7

(* The updates of what is there. *)
LEMMA TypeUpdate ==
  ASSUME TypeInv,
         UpdateMap \/ RestartAgent \/ UpdateImage \/ UpdateCr \/ UpdateStatus
  PROVE  TypeInv'
<1> USE DEF TypeInv
<1>0. /\ ca \in CrValues /\ ca.gen \in Gens /\ ca.conf \in Confs
      /\ ca.image \in Images
  BY DEF UpdateMap, RestartAgent, UpdateImage, UpdateCr, UpdateStatus, WorkerOK, CrValues
<1>1. CASE UpdateMap
  <2> DEFINE b == UpdatedBag(ca.conf, bag.secretVersion, FALSE)
  <2>1. exd # None /\ bag \in Bags
    BY <1>1 DEF UpdateMap, WorkerOK
  <2>2. [gen |-> ca.gen, bag |-> b] \in CmValues
    BY <1>0, <2>1, BagFields, MadeBagOK DEF CmValues
  <2>3. cm' \in CmValues \cup {None} /\ staleCm' \in BOOLEAN
    <3> HIDE DEF b
    <3> QED
      BY <1>1, <2>2, PutCmSets DEF UpdateMap, b, ApiOK, CacheOK
  <2>4. AfterMap \in {"image", "restart", "update"}
    BY DEF AfterMap
  <2>5. WorkerOK' /\ dirty' \in BOOLEAN /\ delayed' \in BOOLEAN
    <3>1. CASE Requeue
      BY <3>1, EndOK
    <3>2. CASE Goto(AfterMap) /\ Keep
      <4>1. AfterMap \in Steps \ {"idle", "gone"} /\ AfterMap # "config"
        BY <2>4 DEF Steps
      <4>2. pc \notin {"idle", "gone"} /\ bag # None
        BY <1>1, <2>1 DEF UpdateMap, WorkerOK
      <4> QED
        BY <2>1, <3>2, <4>1, <4>2, KeepOK
    <3> QED
      BY <1>1, <3>1, <3>2 DEF UpdateMap
  <2> QED
    BY <1>1, <2>3, <2>5 DEF UpdateMap, Others, seen, ApiOK, CacheOK, CountersOK
<1>2. CASE RestartAgent
  BY <1>0, <1>2, EndOK DEF RestartAgent, api, cache, seen, ApiOK, CacheOK, CountersOK
<1>3. CASE UpdateImage
  <2>1. exd \in DepValues
    BY <1>3 DEF UpdateImage, WorkerOK
  <2>2. [exd EXCEPT !.image = ca.image] \in DepValues
    BY <1>0, <2>1 DEF DepValues
  <2>3. dep' \in DepValues \cup {None} /\ staleDep' \in BOOLEAN
    BY <1>3, <2>2, PutDepSets DEF UpdateImage, ApiOK, CacheOK
  <2>4. WorkerOK' /\ dirty' \in BOOLEAN /\ delayed' \in BOOLEAN
    BY <1>3, EndOK DEF UpdateImage
  <2> QED
    BY <1>3, <2>3, <2>4 DEF UpdateImage, Others, seen, ApiOK, CacheOK, CountersOK
<1>4. CASE UpdateCr
  <2>1. cr' \in CrValues \cup {None} /\ staleCr' \in BOOLEAN
    BY <1>0, <1>4, PutCrSets DEF UpdateCr, ApiOK, CacheOK
  <2>2. WorkerOK' /\ dirty' \in BOOLEAN /\ delayed' \in BOOLEAN
    BY <1>4, EndOK, KeepOK DEF UpdateCr, Steps
  <2> QED
    BY <1>4, <2>1, <2>2 DEF UpdateCr, Others, seen, ApiOK, CacheOK, CountersOK
<1>5. CASE UpdateStatus
  <2>1. WorkerOK' /\ dirty' \in BOOLEAN /\ delayed' \in BOOLEAN
    BY <1>5, EndOK DEF UpdateStatus
  <2>2. staleCr' \in BOOLEAN
    BY <1>5 DEF UpdateStatus, CacheOK
  <2> QED
    BY <1>5, <2>1, <2>2 DEF UpdateStatus, api, seen, ApiOK, CacheOK, CountersOK
<1> QED
  BY <1>1, <1>2, <1>3, <1>4, <1>5

(* Failures, caches and timers. *)
LEMMA TypeEnvironment ==
  ASSUME TypeInv, CallFails \/ Crash \/ Resync \/ Sync \/ DelayOver
  PROVE  TypeInv'
<1> USE DEF TypeInv
<1>1. CASE CallFails
  <2>1. WorkerOK' /\ dirty' \in BOOLEAN /\ delayed' \in BOOLEAN
    BY <1>1, EndOK, KeepOK DEF CallFails, Steps
  <2>2. faults' \in 0..MaxFaults
    BY <1>1, BoundsAssumption DEF CallFails, CountersOK
  <2> QED
    BY <1>1, <2>1, <2>2 DEF CallFails, api, cache, seen, ApiOK, CacheOK, CountersOK
<1>2. CASE Crash
  <2>1. WorkerOK'
    BY <1>2, StopOK DEF Crash
  <2>2. faults' \in 0..MaxFaults
    BY <1>2, BoundsAssumption DEF Crash, CountersOK
  <2> QED
    BY <1>2, <2>1, <2>2 DEF Crash, api, ApiOK, CacheOK, CountersOK
<1>3. CASE Resync
  BY <1>3 DEF Resync, api, cache, seen, worker, ApiOK, CacheOK, WorkerOK, CountersOK
<1>4. CASE DelayOver
  <2>1. UNCHANGED <<api, cache, worker, edits, faults, restarted>>
        /\ delayed' = FALSE /\ dirty' = TRUE
    BY <1>4 DEF DelayOver
  <2>2. ApiOK' /\ CacheOK' /\ WorkerOK'
    BY <2>1 DEF api, cache, seen, worker, ApiOK, CacheOK, WorkerOK
  <2>3. CountersOK'
    BY <2>1 DEF CountersOK
  <2> QED
    BY <2>2, <2>3
<1>5. CASE Sync
  <2>1. /\ UNCHANGED <<api, pc, ca, exd, bag, outdated, delayed, edits, faults, restarted>>
        /\ dirty' \in BOOLEAN
    BY <1>5 DEF Sync, SyncCr, SyncDep, SyncCm, SyncSvc, SyncSecret, worker, queue, CountersOK
  <2>2. ApiOK' /\ CountersOK'
    BY <2>1 DEF api, ApiOK, CountersOK
  <2>3. CacheOK'
    BY <1>5 DEF Sync, SyncCr, SyncDep, SyncCm, SyncSvc, SyncSecret, api, ApiOK, CacheOK
  <2>4. seenSecret # None => seenSecret' # None
    BY <1>5 DEF Sync, SyncCr, SyncDep, SyncCm, SyncSvc, SyncSecret, CacheOK
  <2> QED
    BY <2>1, <2>2, <2>3, <2>4 DEF WorkerOK
<1> QED
  BY <1>1, <1>2, <1>3, <1>4, <1>5

(* Users and the garbage collector. *)
LEMMA TypeUsers ==
  ASSUME TypeInv, Users \/ CollectGarbage
  PROVE  TypeInv'
<1> USE DEF TypeInv
<1>1. outdated \cup {"ca", "exd"} \subseteq {"ca", "exd", "cm"}
  BY DEF WorkerOK
<1>2. ASSUME NEW v \in CrValues \cup {None}, WriteCr(v) PROVE TypeInv'
  <2>1. WorkerOK'
    BY <1>1, <1>2 DEF WriteCr, Outdate, seen, WorkerOK
  <2>2. edits' \in 0..MaxEdits
    BY <1>2, BoundsAssumption DEF WriteCr, CountersOK
  <2>3. cr' \in CrValues \cup {None} /\ staleCr' \in BOOLEAN
    BY <1>2, PutCrSets DEF WriteCr, CacheOK
  <2> QED
    BY <1>2, <2>1, <2>2, <2>3 DEF WriteCr, seen, queue, ApiOK, CacheOK, CountersOK
<1>3. ASSUME RemoveDep, edits' \in 0..MaxEdits PROVE TypeInv'
  <2>1. WorkerOK'
    BY <1>1, <1>3 DEF RemoveDep, Outdate, seen, WorkerOK
  <2>2. dep' \in DepValues \cup {None} /\ staleDep' \in BOOLEAN
    BY <1>3, PutDepSets DEF RemoveDep, CacheOK
  <2> QED
    BY <1>3, <2>1, <2>2 DEF RemoveDep, seen, queue, ApiOK, CacheOK, CountersOK
<1>4. edits < MaxEdits => edits + 1 \in Gens
  BY BoundsAssumption DEF CountersOK, Gens
<1>5. CASE CreateCr
  <2>1. PICK s \in UserSpecs :
          WriteCr([gen |-> edits + 1, uid |-> edits + 1, conf |-> s.conf, image |-> s.image])
    BY <1>5 DEF CreateCr
  <2>2. [gen |-> edits + 1, uid |-> edits + 1, conf |-> s.conf, image |-> s.image]
          \in CrValues
    BY <1>4, <2>1 DEF WriteCr, CrValues, Confs, Images
  <2> QED
    BY <1>2, <2>1, <2>2
<1>6. CASE EditCr
  <2>1. PICK s \in UserSpecs :
          WriteCr([cr EXCEPT !.gen = edits + 1, !.conf = s.conf, !.image = s.image])
    BY <1>6 DEF EditCr
  <2>2. cr \in CrValues /\ edits + 1 \in Gens /\ s.conf \in Confs /\ s.image \in Images
    BY <1>4, <1>6, <2>1 DEF EditCr, WriteCr, ApiOK, Confs, Images
  <2>3. [cr EXCEPT !.gen = edits + 1, !.conf = s.conf, !.image = s.image] \in CrValues
    BY <2>2 DEF CrValues
  <2> QED
    BY <1>2, <2>1, <2>3
<1>7. CASE DeleteCr
  BY <1>2, <1>7 DEF DeleteCr
<1>8. CASE DeleteDeployment
  BY <1>3, <1>8, BoundsAssumption DEF DeleteDeployment, CountersOK
<1>9. CASE SetSecret
  <2>1. PICK v \in Versions \ {0} : secret' = v
    BY <1>9 DEF SetSecret
  <2>2. UNCHANGED <<cr, dep, cm, svc, cache, queue, worker, edits, faults, restarted>>
    BY <1>9 DEF SetSecret
  <2>3. WorkerOK'
    BY <2>2 DEF cache, seen, worker, WorkerOK
  <2>4. ApiOK' /\ CacheOK' /\ CountersOK'
    BY <2>1, <2>2, NoneAssumption DEF cache, seen, queue, ApiOK, CacheOK, CountersOK
  <2> QED
    BY <2>3, <2>4
<1>10. CASE CollectGarbage
  BY <1>3, <1>10 DEF CollectGarbage, CountersOK
<1> QED
  BY <1>5, <1>6, <1>7, <1>8, <1>9, <1>10 DEF Users

(* The invariant of the types. *)
LEMMA TypeStep == TypeInv /\ [Next]_vars => TypeInv'
<1> SUFFICES ASSUME TypeInv, [Next]_vars PROVE TypeInv'
  OBVIOUS
<1>1. CASE UNCHANGED vars
  BY <1>1 DEF TypeInv, ApiOK, CacheOK, WorkerOK, CountersOK,
              vars, api, cache, seen, queue, worker
<1>2. CASE Fetch \/ Reconcile
  BY <1>2, TypeEnsure, TypeUpdate DEF Reconcile
<1> QED
  BY <1>1, <1>2, TypeEnvironment, TypeUsers DEF Next

LEMMA TypesKept == Spec => []TypeInv
  BY TypeInit, TypeStep, PTL DEF Spec

(* Every variable has a value of its type, for any specs and bounds; the   *)
(* worker has the copies that its next step dereferences.                  *)
THEOREM TypeCorrect == Spec => []TypeOK
  BY TypesKept, TypeInvOK, PTL

-----------------------------------------------------------------------------
(* No edit is taken back.                                                  *)

(* A cache entry that is not stale is the resource, and a copy of the      *)
(* worker that is not outdated differs from it by the default image only.  *)
CopyCurrent ==
  /\ ~staleCr => seenCr = cr
  /\ ca # None /\ "ca" \notin outdated =>
       /\ cr # None /\ ca.gen = cr.gen /\ ca.uid = cr.uid /\ ca.conf = cr.conf
       /\ \/ ca.image = cr.image
          \/ /\ cr.image = NoImage /\ ca.image = DefaultImage
             /\ pc \in {"update", "status"}

LEMMA KeptSame == cr' = cr => EditsKept
  BY DEF EditsKept

(* What keeps the copies current: they are dropped, or stay as they are.   *)
LEMMA CopyKept ==
  ASSUME CopyCurrent, UNCHANGED <<cr, seenCr>>,
         staleCr' \/ staleCr' = staleCr,
         \/ ca' = None
         \/ /\ ca' = ca /\ pc \notin {"update", "status"}
            /\ "ca" \in outdated => "ca" \in outdated'
         \/ UNCHANGED <<ca, pc, outdated>>
  PROVE  CopyCurrent' /\ EditsKept
  BY KeptSame DEF CopyCurrent

LEMMA CopyReconcile ==
  ASSUME TypeInv, CopyCurrent, Fetch \/ Reconcile
  PROVE  CopyCurrent' /\ EditsKept
<1> USE DEF TypeInv
<1>1. Done \/ Requeue => ca' = None
  BY DEF Done, Requeue, Stop
<1>2. CASE Fetch
  <2>1. UNCHANGED <<cr, seenCr, staleCr>>
    BY <1>2 DEF Fetch, api, cache, seen
  <2>2. \/ UNCHANGED <<ca, outdated>> /\ pc = "idle"
        \/ ca' = seenCr /\ ("ca" \notin outdated' => ~staleCr)
    BY <1>2 DEF Fetch
  <2>3. pc = "idle" => ca = None
    BY DEF WorkerOK
  <2> QED
    BY <2>1, <2>2, <2>3, KeptSame DEF CopyCurrent
<1>3. CASE CleanUp \/ EnsureSecret \/ ReloadSecret
  <2>1. UNCHANGED <<cr, seenCr, staleCr>> /\ pc \notin {"update", "status"}
    BY <1>3 DEF CleanUp, EnsureSecret, ReloadSecret, api, cache, seen, Others
  <2>2. ca' = None \/ UNCHANGED <<ca, outdated>>
    BY <1>1, <1>3 DEF CleanUp, EnsureSecret, ReloadSecret, Keep
  <2> QED
    BY <2>1, <2>2, CopyKept
<1>4. CASE EnsureConfigMap \/ EnsureAgentService \/ UpdateMap
  <2>1. UNCHANGED <<cr, seenCr, staleCr>> /\ pc \notin {"update", "status"}
    BY <1>4 DEF EnsureConfigMap, EnsureAgentService, UpdateMap, cache, seen, Others
  <2>2. ca' = None \/ (ca' = ca /\ outdated \subseteq outdated')
    BY <1>1, <1>4 DEF EnsureConfigMap, EnsureAgentService, UpdateMap, Keep
  <2> QED
    BY <2>1, <2>2, CopyKept
<1>5. CASE CreateDeployment
  <2>1. UNCHANGED <<cr, seenCr, staleCr>> /\ pc = "create"
    BY <1>5 DEF CreateDeployment, Others, seen
  <2>2. CASE Requeue
    BY <1>1, <2>1, <2>2, CopyKept
  <2>3. CASE ~Requeue
    <3>1. ca' = WithImageDefault(ca) /\ pc' = "update" /\ UNCHANGED outdated
      BY <1>5, <2>3 DEF CreateDeployment, Goto
    <3>2. ca # None /\ ca \in CrValues
      BY <2>1 DEF WorkerOK
    <3>3. ca'.image = ca.image \/ (ca.image = NoImage /\ ca'.image = DefaultImage)
      BY <3>1, <3>2 DEF WithImageDefault, CrValues
    <3> QED
      BY <2>1, <3>1, <3>2, <3>3, DefaultImageOK, KeptSame DEF CopyCurrent
  <2> QED
    BY <2>2, <2>3
<1>6. CASE RestartAgent \/ UpdateImage
  <2>1. UNCHANGED <<cr, seenCr, staleCr>> /\ ca' = None
    BY <1>1, <1>6 DEF RestartAgent, UpdateImage, api, cache, seen, Others
  <2> QED
    BY <2>1, CopyKept
<1>7. CASE UpdateCr
  <2>1. UNCHANGED seenCr /\ ca \in CrValues /\ ca # None
    BY <1>7 DEF UpdateCr, Others, seen, WorkerOK
  <2>2. CASE "ca" \in outdated
    BY <1>1, <1>7, <2>1, <2>2, CopyKept DEF UpdateCr
  <2>3. CASE "ca" \notin outdated
    <3>1. PutCr(ca) /\ UNCHANGED <<ca, outdated>>
      BY <1>7, <2>3 DEF UpdateCr, Keep
    <3>2. cr' = ca /\ (staleCr' \/ (cr' = cr /\ staleCr' = staleCr))
      BY <3>1 DEF PutCr
    <3>3. CopyCurrent'
      BY <2>1, <2>3, <3>1, <3>2 DEF CopyCurrent
    <3>4. /\ cr \in CrValues /\ ca.gen = cr.gen /\ ca.uid = cr.uid
          /\ ca.conf = cr.conf
          /\ ca.image = cr.image \/ (cr.image = NoImage /\ ca.image = DefaultImage)
      BY <2>1, <2>3 DEF CopyCurrent, ApiOK
    <3>5. [ca EXCEPT !.image = NoImage] = [cr EXCEPT !.image = NoImage]
      BY <2>1, <3>4 DEF CrValues
    <3> QED
      BY <3>2, <3>3, <3>4, <3>5 DEF EditsKept
  <2> QED
    BY <2>2, <2>3
<1>8. CASE UpdateStatus
  <2>1. UNCHANGED <<cr, seenCr>> /\ ca' = None /\ (staleCr' \/ staleCr' = staleCr)
    BY <1>1, <1>8 DEF UpdateStatus, api, seen
  <2> QED
    BY <2>1, CopyKept
<1> QED
  BY <1>2, <1>3, <1>4, <1>5, <1>6, <1>7, <1>8 DEF Reconcile

LEMMA CopyOthers ==
  ASSUME TypeInv, CopyCurrent, [Next]_vars, ~Fetch, ~Reconcile
  PROVE  CopyCurrent' /\ EditsKept
<1>1. ASSUME UNCHANGED <<cr, seenCr, staleCr, ca, pc>>,
             ca # None /\ "ca" \in outdated => "ca" \in outdated'
      PROVE  CopyCurrent' /\ EditsKept
  BY <1>1, KeptSame DEF CopyCurrent
<1>2. CASE Users \/ CollectGarbage
  <2>0. pc = "idle" => ca = None
    BY DEF TypeInv, WorkerOK
  <2>1. ASSUME NEW v, WriteCr(v), cr # None => v = None \/ v.gen = edits + 1
        PROVE  CopyCurrent' /\ EditsKept
    <3>1. cr' = v /\ edits' = edits + 1 /\ edits' > edits
      BY <2>1, BoundsAssumption DEF WriteCr, PutCr, TypeInv, CountersOK
    <3>2. (~staleCr => seenCr = cr)'
      BY <2>1 DEF WriteCr, PutCr, CopyCurrent, seen
    <3>3. ca' = None \/ "ca" \in outdated'
      BY <2>0, <2>1 DEF WriteCr, Outdate
    <3> QED
      BY <2>1, <3>1, <3>2, <3>3 DEF CopyCurrent, EditsKept
  <2>2. CASE CreateCr
    BY <2>1, <2>2 DEF CreateCr
  <2>3. CASE EditCr
    <3>1. PICK s \in UserSpecs :
            WriteCr([cr EXCEPT !.gen = edits + 1, !.conf = s.conf, !.image = s.image])
      BY <2>3 DEF EditCr
    <3>2. cr \in CrValues
      BY <2>3 DEF EditCr, TypeInv, ApiOK
    <3>3. [cr EXCEPT !.gen = edits + 1, !.conf = s.conf, !.image = s.image].gen
            = edits + 1
      BY <3>2 DEF CrValues
    <3> QED
      BY <2>1, <3>1, <3>3
  <2>4. CASE DeleteCr
    BY <2>1, <2>4 DEF DeleteCr
  <2>5. CASE DeleteDeployment \/ CollectGarbage
    BY <1>1, <2>0, <2>5 DEF DeleteDeployment, CollectGarbage, RemoveDep, Outdate, seen
  <2>6. CASE SetSecret
    BY <1>1, <2>6 DEF SetSecret, cache, seen, worker
  <2> QED
    BY <1>2, <2>2, <2>3, <2>4, <2>5, <2>6 DEF Users
<1>3. CASE Sync \/ DelayOver \/ Resync
  <2>1. CASE SyncCr
    BY <2>1, KeptSame DEF SyncCr, CopyCurrent, api, worker
  <2>2. CASE SyncDep \/ SyncCm \/ SyncSvc \/ SyncSecret \/ DelayOver \/ Resync
    BY <1>1, <2>2 DEF SyncDep, SyncCm, SyncSvc, SyncSecret, DelayOver, Resync,
                      api, cache, seen, worker
  <2> QED
    BY <1>3, <2>1, <2>2 DEF Sync
<1>4. CASE CallFails
  <2>1. UNCHANGED <<cr, seenCr, staleCr>>
        /\ (ca' = None \/ (UNCHANGED <<ca, outdated>> /\ pc = "cleanup"))
    BY <1>4 DEF CallFails, Done, Requeue, Stop, Keep, api, cache, seen
  <2> QED
    BY <2>1, CopyKept
<1>5. CASE Crash
  BY <1>5, KeptSame DEF Crash, Stop, CopyCurrent, api
<1>6. CASE UNCHANGED vars
  BY <1>1, <1>6 DEF vars, api, cache, seen, worker
<1> QED
  BY <1>2, <1>3, <1>4, <1>5, <1>6 DEF Next

LEMMA CopyStep ==
  TypeInv /\ CopyCurrent /\ [Next]_vars => CopyCurrent' /\ EditsKept
  BY CopyReconcile, CopyOthers

LEMMA CopiesKept == Spec => []CopyCurrent
<1>1. Init => CopyCurrent
  BY DEF Init, CopyCurrent
<1> QED
  BY <1>1, CopyStep, TypesKept, PTL DEF Spec

(* No step of the operator takes an edit of a user back, whatever the lag  *)
(* of the caches and the failures.                                         *)
THEOREM EditsSurvive == Spec => UserEditsSurvive
<1>1. TypeInv /\ CopyCurrent /\ [Next]_vars => [EditsKept]_vars
  BY CopyStep
<1> QED
  BY <1>1, CopiesKept, TypesKept, PTL DEF Spec, UserEditsSurvive

-----------------------------------------------------------------------------
(* Edits are installed and applied in order.                               *)

InCm == IF cm = None THEN 0 ELSE cm.gen

(* The copies of the resource are ordered by age, and the ConfigMap and    *)
(* the last restart are not ahead of any of them.                          *)
Copies == {cr, seenCr, ca} \ {None}
EditsOrdered ==
  /\ InCm \in 0..edits /\ restarted \in 0..edits
  /\ cm # None => cm.gen # 0 /\ restarted <= cm.gen
  /\ \A x \in Copies : x.gen \in 1..edits /\ InCm <= x.gen /\ restarted <= x.gen
  /\ ca # None /\ cr # None => ca.gen <= cr.gen
  /\ ca # None /\ seenCr # None => ca.gen <= seenCr.gen
  /\ seenCr # None /\ cr # None => seenCr.gen <= cr.gen

(* Copies of one edit agree, and what the ConfigMap has of an edit is made *)
(* from it.                                                                *)
SameConf ==
  \A x \in Copies :
    /\ \A y \in Copies : x.gen = y.gen => x.conf = y.conf
    /\ cm # None /\ cm.gen = x.gen =>
         cm.bag.props = UpdatedBag(x.conf, 0, FALSE).props

(* The bag that is compared is the one that is stored, unless the write of *)
(* the ConfigMap will be refused.  A restart follows that write.           *)
BagCurrent ==
  /\ ~staleCm => seenCm = cm
  /\ pc = "map" /\ "cm" \notin outdated =>
       cm # None /\ bag.props = cm.bag.props
  /\ pc = "restart" => cm # None /\ cm.gen = ca.gen /\ restarted < ca.gen

FollowInv == EditsOrdered /\ SameConf /\ BagCurrent

LEMMA GenNat ==
  ASSUME TypeInv
  PROVE  /\ edits \in Nat /\ restarted \in Nat /\ InCm \in Nat
         /\ \A x \in Copies : x \in CrValues /\ x.gen \in Nat
         /\ cm # None => cm.gen \in Nat /\ cm.bag \in Bags
<1>1. \A v \in CrValues : v.gen \in Nat
  BY BoundsAssumption DEF CrValues, Gens
<1>2. \A v \in CmValues : v.gen \in Nat /\ v.bag \in Bags
  BY BoundsAssumption DEF CmValues, Gens
<1>3. edits \in Nat /\ restarted \in Nat
  BY BoundsAssumption DEF TypeInv, CountersOK, Gens
<1> QED
  BY <1>1, <1>2, <1>3 DEF TypeInv, ApiOK, CacheOK, WorkerOK, Copies, InCm

(* A step that leaves the resource and the ConfigMap alone, and drops the  *)
(* worker's copy or goes on with it.                                       *)
LEMMA OrderKept ==
  ASSUME FollowInv, UNCHANGED <<cr, seenCr, cm, edits, restarted>>,
         \/ ca' = None
         \/ ca # None /\ ca' # None /\ ca'.gen = ca.gen /\ ca'.conf = ca.conf
  PROVE  EditsOrdered' /\ SameConf'
<1>1. EditsOrdered'
  BY DEF FollowInv, EditsOrdered, Copies, InCm
<1>2. SameConf'
  <2>1. \A x \in Copies' : \E y \in Copies : x.gen = y.gen /\ x.conf = y.conf
    BY DEF Copies
  <2>2. ASSUME NEW x \in Copies', NEW y \in Copies', x.gen = y.gen
        PROVE  x.conf = y.conf
    BY <2>1, <2>2 DEF FollowInv, SameConf
  <2>3. ASSUME NEW x \in Copies', cm' # None, cm'.gen = x.gen
        PROVE  cm'.bag.props = UpdatedBag(x.conf, 0, FALSE).props
    <3>1. PICK y \in Copies : x.gen = y.gen /\ x.conf = y.conf
      BY <2>1
    <3> QED
      BY <2>3, <3>1 DEF FollowInv, SameConf
  <2> QED
    BY <2>2, <2>3 DEF SameConf
<1> QED
  BY <1>1, <1>2

(* ... or is elsewhere than at the ConfigMap. *)
LEMMA FollowKept ==
  ASSUME FollowInv, UNCHANGED <<cr, seenCr, cm, edits, restarted>>,
         ~staleCm' => seenCm' = cm',
         \/ ca' = None /\ pc' \notin {"map", "restart"}
         \/ /\ ca # None /\ ca' # None /\ ca'.gen = ca.gen /\ ca'.conf = ca.conf
            /\ \/ pc' \notin {"map", "restart"}
               \/ UNCHANGED <<pc, bag, ca>> /\ outdated \subseteq outdated'
  PROVE  FollowInv'
<1>1. EditsOrdered' /\ SameConf'
  BY OrderKept
<1>2. BagCurrent'
  BY DEF FollowInv, BagCurrent
<1> QED
  BY <1>1, <1>2 DEF FollowInv

(* ... or does not change either. *)
LEMMA FollowSame ==
  ASSUME TypeInv, FollowInv, edits' \in {edits, edits + 1},
         UNCHANGED <<cr, seenCr, ca, cm, restarted, pc, bag>>,
         ~staleCm' => seenCm' = cm',
         pc = "map" /\ "cm" \in outdated => "cm" \in outdated'
  PROVE  FollowInv'
<1>1. Copies' = Copies /\ InCm' = InCm
  BY DEF Copies, InCm
<1>2. EditsOrdered'
  BY <1>1, GenNat DEF FollowInv, EditsOrdered
<1>3. SameConf'
  BY <1>1 DEF FollowInv, SameConf
<1>4. BagCurrent'
  BY DEF FollowInv, BagCurrent
<1> QED
  BY <1>2, <1>3, <1>4 DEF FollowInv

LEMMA PutCmFresh ==
  ASSUME BagCurrent, NEW v, PutCm(v), UNCHANGED seenCm
  PROVE  ~staleCm' => seenCm' = cm'
  BY DEF BagCurrent, PutCm

(* The cache takes over what is there. *)
LEMMA FollowSynced ==
  ASSUME FollowInv, TypeInv, seenCr' = cr, UNCHANGED <<cr, cm, edits, restarted>>,
         ~staleCm' => seenCm' = cm',
         \/ ca' = None /\ pc' \notin {"map", "restart"}
         \/ UNCHANGED <<pc, ca, bag, outdated>>
  PROVE  FollowInv'
<1>1. EditsOrdered'
  BY GenNat DEF FollowInv, EditsOrdered, Copies, InCm
<1>2. SameConf'
  BY DEF FollowInv, SameConf, Copies
<1>3. BagCurrent'
  BY DEF FollowInv, BagCurrent
<1> QED
  BY <1>1, <1>2, <1>3 DEF FollowInv

(* The ConfigMap is deleted, or made from the worker's copy. *)
LEMMA FollowDeleted ==
  ASSUME TypeInv, FollowInv, UNCHANGED <<cr, seenCr, edits, restarted>>, cm' = None,
         ~staleCm' => seenCm' = cm',
         ca' = None \/ ca' = ca, pc' \notin {"map", "restart"}
  PROVE  FollowInv'
<1>1. EditsOrdered'
  BY GenNat DEF FollowInv, EditsOrdered, Copies, InCm
<1>2. SameConf' /\ BagCurrent'
  <2>1. Copies' \subseteq Copies
    BY DEF Copies
  <2> QED
    BY <2>1 DEF FollowInv, SameConf, BagCurrent
<1> QED
  BY <1>1, <1>2 DEF FollowInv

LEMMA FollowInstalled ==
  ASSUME TypeInv, FollowInv, UNCHANGED <<cr, seenCr, ca, edits, restarted>>,
         ca # None, NEW v \in Versions, NEW b \in BOOLEAN,
         cm' = [gen |-> ca.gen, bag |-> UpdatedBag(ca.conf, v, b)]
  PROVE  EditsOrdered' /\ SameConf'
<1>0. cm'.gen = ca.gen /\ cm'.bag.props = UpdatedBag(ca.conf, 0, FALSE).props /\ cm' # None
  <2>1. cm'.gen = ca.gen /\ cm'.bag = UpdatedBag(ca.conf, v, b)
    OBVIOUS
  <2>2. ca.gen \in Gens /\ ca.conf \in Confs
    BY DEF TypeInv, WorkerOK, CrValues
  <2>3. cm' \in CmValues
    BY <2>2, MadeBagOK DEF CmValues
  <2> QED
    <3>1. UpdatedBag(ca.conf, v, b).props = UpdatedBag(ca.conf, 0, FALSE).props
      BY PropsOfSettings
    <3> QED
      BY <2>1, <2>3, <3>1, NoneAssumption
<1>1. ca \in Copies /\ ca.gen \in Nat
  BY GenNat DEF Copies
<1>2. EditsOrdered'
  BY <1>0, <1>1, GenNat DEF FollowInv, EditsOrdered, Copies, InCm
<1>3. SameConf'
  <2>1. Copies' = Copies
    BY DEF Copies
  <2> QED
    BY <1>0, <1>1, <2>1 DEF FollowInv, SameConf
<1> QED
  BY <1>2, <1>3

(* What the two writes of the ConfigMap and the restart do.                *)
LEMMA FollowEnsureConfigMap ==
  ASSUME TypeInv, FollowInv, EnsureConfigMap
  PROVE  FollowInv'
<1>0. /\ ca # None /\ ca' \in {ca, None} /\ pc = "config" /\ seenSecret \in Versions
      /\ UNCHANGED <<cr, seenCr, seenCm, edits, restarted>>
  BY NoneAssumption
     DEF EnsureConfigMap, Requeue, Stop, Others, seen, TypeInv, WorkerOK, CacheOK
<1>1. CASE seenCm # None
  <2>1. /\ bag' = LoadedBag(seenCm.bag, seenSecret)
        /\ outdated' = outdated \cup (IF staleCm THEN {"cm"} ELSE {})
        /\ pc' = AfterConfig /\ UNCHANGED <<ca, cm, staleCm>>
    BY <1>1 DEF EnsureConfigMap, Goto
  <2>2. pc' # "restart"
    BY <2>1 DEF AfterConfig
  <2>3. bag'.props = seenCm.bag.props
    BY <1>0, <1>1, <2>1, LoadedBagOK DEF TypeInv, CacheOK, CmValues
  <2>4. EditsOrdered' /\ SameConf'
    BY <1>0, <2>1, OrderKept
  <2>5. BagCurrent'
    BY <1>0, <1>1, <2>1, <2>2, <2>3 DEF FollowInv, BagCurrent
  <2> QED
    BY <2>4, <2>5 DEF FollowInv
<1>2. CASE seenCm = None /\ cm = None
  <2>1. /\ bag' = UpdatedBag(ca.conf, seenSecret, TRUE)
        /\ PutCm([gen |-> ca.gen, bag |-> bag'])
        /\ pc' = AfterConfig /\ UNCHANGED <<ca, outdated>>
    BY <1>2 DEF EnsureConfigMap, Goto
  <2>2. pc' # "restart"
    BY <2>1 DEF AfterConfig
  <2>3. cm' = [gen |-> ca.gen, bag |-> bag']
    BY <2>1 DEF PutCm
  <2>4. EditsOrdered' /\ SameConf'
    BY <1>0, <2>1, <2>3, FollowInstalled
  <2>5. ~staleCm' => seenCm' = cm'
    BY <1>0, <2>1, PutCmFresh DEF FollowInv
  <2>6. cm' # None /\ cm'.bag = bag'
    <3>1. ca.gen \in Gens /\ ca.conf \in Confs
      BY <1>0 DEF TypeInv, WorkerOK, CrValues
    <3>2. bag' \in Bags
      BY <1>0, <2>1, <3>1, MadeBagOK
    <3>3. cm' \in CmValues
      BY <2>3, <3>1, <3>2 DEF CmValues
    <3> QED
      BY <2>3, <3>3, NoneAssumption
  <2> QED
    BY <2>2, <2>4, <2>5, <2>6 DEF FollowInv, BagCurrent
<1>3. CASE seenCm = None /\ cm # None
  <2>1. Stop /\ UNCHANGED <<cm, staleCm>>
    BY <1>3 DEF EnsureConfigMap, Requeue
  <2> QED
    BY <1>0, <2>1, FollowKept DEF Stop, FollowInv, BagCurrent
<1> QED
  BY <1>1, <1>2, <1>3

LEMMA FollowUpdateMap ==
  ASSUME TypeInv, FollowInv, UpdateMap
  PROVE  FollowInv'
<1>0. /\ ca # None /\ bag \in Bags /\ pc = "map"
      /\ UNCHANGED <<cr, seenCr, seenCm, edits, restarted>>
  BY DEF UpdateMap, Others, seen, TypeInv, WorkerOK
<1>1. CASE "cm" \in outdated
  <2>1. Stop /\ UNCHANGED <<cm, staleCm>>
    BY <1>1 DEF UpdateMap, Requeue
  <2> QED
    BY <1>0, <2>1, FollowKept DEF Stop, FollowInv, BagCurrent
<1>2. CASE "cm" \notin outdated
  <2> DEFINE b == UpdatedBag(ca.conf, bag.secretVersion, FALSE)
  <2>1. /\ PutCm([gen |-> ca.gen, bag |-> b])
        /\ pc' = AfterMap /\ UNCHANGED <<ca, bag, outdated>>
    BY <1>2 DEF UpdateMap, Goto, Keep
  <2>2. cm' = [gen |-> ca.gen, bag |-> b]
    BY <2>1 DEF PutCm
  <2>3. EditsOrdered' /\ SameConf'
    <3>1. bag.secretVersion \in Versions
      BY <1>0, BagFields
    <3> QED
      BY <1>0, <2>1, <2>2, <3>1, FollowInstalled
  <2>4. ~staleCm' => seenCm' = cm'
    BY <1>0, <2>1, PutCmFresh DEF FollowInv
  <2>5. cm' # None /\ cm'.gen = ca.gen
    <3>1. ca.gen \in Gens /\ ca.conf \in Confs
      BY <1>0 DEF TypeInv, WorkerOK, CrValues
    <3>2. b \in Bags
      BY <1>0, <3>1, BagFields, MadeBagOK
    <3>3. cm' \in CmValues
      BY <2>2, <3>1, <3>2 DEF CmValues
    <3> QED
      BY <2>2, <3>3, NoneAssumption
  <2>6. pc' # "map"
    BY <2>1 DEF AfterMap
  <2>7. ASSUME pc' = "restart" PROVE restarted < ca.gen
    <3>1. HasBreakingChanges(ca.conf, bag, bag.secretVersion)
      BY <2>1, <2>7 DEF AfterMap
    <3>2. cm # None /\ bag.props = cm.bag.props
      BY <1>0, <1>2 DEF FollowInv, BagCurrent
    <3>3. ca \in Copies
      BY <1>0 DEF Copies
    <3>4. cm.gen # ca.gen
      BY <3>1, <3>2, <3>3, StoredNotBreaking DEF FollowInv, SameConf
    <3> QED
      BY <3>2, <3>3, <3>4, GenNat DEF FollowInv, EditsOrdered, InCm
  <2> QED
    BY <1>0, <2>1, <2>3, <2>4, <2>5, <2>6, <2>7 DEF FollowInv, BagCurrent
<1> QED
  BY <1>1, <1>2

LEMMA FollowRestart ==
  ASSUME TypeInv, FollowInv, RestartAgent
  PROVE  FollowInv'
<1>1. /\ restarted' \in {restarted, ca.gen} /\ Stop
      /\ UNCHANGED <<cr, seenCr, cm, seenCm, staleCm, edits>>
  BY DEF RestartAgent, Requeue, api, cache, seen
<1>2. cm # None /\ cm.gen = ca.gen /\ restarted < ca.gen
  BY DEF RestartAgent, FollowInv, BagCurrent
<1>3. Copies' \subseteq Copies
  BY <1>1 DEF Copies, Stop
<1>4. EditsOrdered'
  BY <1>1, <1>2, <1>3, GenNat DEF FollowInv, EditsOrdered, InCm, Stop
<1>5. SameConf'
  BY <1>1, <1>3 DEF FollowInv, SameConf
<1>6. BagCurrent'
  BY <1>1 DEF FollowInv, BagCurrent, Stop
<1> QED
  BY <1>4, <1>5, <1>6 DEF FollowInv

(* The other steps of the worker. *)
LEMMA FollowReconcile ==
  ASSUME TypeInv, CopyCurrent, FollowInv, Fetch \/ Reconcile
  PROVE  FollowInv'
<1> USE DEF TypeInv
<1>0. ~staleCm => seenCm = cm
  BY DEF FollowInv, BagCurrent
<1>1. Done \/ Requeue => ca' = None /\ pc' = "idle"
  BY DEF Done, Requeue, Stop
<1>2. CASE Fetch
  <2>1. /\ UNCHANGED <<cr, seenCr, cm, seenCm, staleCm, edits, restarted>>
        /\ pc' \notin {"map", "restart"} /\ pc = "idle" /\ ca' \in {ca, seenCr}
    BY <1>2 DEF Fetch, api, cache, seen
  <2>2. ca = None
    BY <2>1 DEF WorkerOK
  <2>3. Copies' \subseteq Copies
    BY <2>1, <2>2 DEF Copies
  <2>4. EditsOrdered'
    BY <2>1, <2>2, <2>3, GenNat DEF FollowInv, EditsOrdered, InCm, Copies
  <2>5. SameConf' /\ BagCurrent'
    BY <2>1, <2>3 DEF FollowInv, SameConf, BagCurrent
  <2> QED
    BY <2>4, <2>5 DEF FollowInv
<1>3. CASE CleanUp
  <2>1. /\ UNCHANGED <<cr, seenCr, seenCm, edits, restarted>>
        /\ pc \in {"gone", "cleanup"} /\ pc' \notin {"map", "restart"}
        /\ ca' = None \/ ca' = ca
        /\ PutCm(None) \/ UNCHANGED <<cm, staleCm>>
    BY <1>1, <1>3 DEF CleanUp, Goto, Keep, Others, seen
  <2>2. CASE PutCm(None)
    <3>1. cm' = None
      BY <2>2 DEF PutCm
    <3> QED
      BY <2>1, <2>2, <3>1, PutCmFresh, FollowDeleted DEF FollowInv
  <2>3. CASE UNCHANGED <<cm, staleCm>>
    <3>1. ca' = None \/ (ca' = ca /\ ca # None)
      BY <2>1
    <3> QED
      BY <1>0, <2>1, <2>3, <3>1, FollowKept
  <2> QED
    BY <2>1, <2>2, <2>3
<1>4. CASE EnsureSecret \/ ReloadSecret \/ EnsureAgentService
  <2>1. /\ UNCHANGED <<cr, seenCr, cm, seenCm, staleCm, edits, restarted>>
        /\ pc' \notin {"map", "restart"} /\ ca' \in {None, ca} /\ ca # None
    BY <1>1, <1>4 DEF EnsureSecret, ReloadSecret, EnsureAgentService, Goto, Keep,
                      api, cache, seen, WorkerOK
  <2> QED
    BY <1>0, <2>1, FollowKept
<1>5. CASE CreateDeployment
  <2>1. /\ UNCHANGED <<cr, seenCr, cm, seenCm, staleCm, edits, restarted>>
        /\ pc' \notin {"map", "restart"} /\ ca' \in {None, WithImageDefault(ca)}
        /\ ca # None /\ ca \in CrValues
    BY <1>1, <1>5 DEF CreateDeployment, Goto, Others, seen, WorkerOK
  <2> QED
    BY <1>0, <2>1, DefaultImageOK, NoneAssumption, FollowKept
<1>6. CASE UpdateImage
  BY <1>0, <1>1, <1>6, FollowKept DEF UpdateImage, Others, seen
<1>7. CASE UpdateStatus
  BY <1>0, <1>1, <1>7, FollowKept DEF UpdateStatus, api, seen
<1>8. CASE UpdateCr
  <2>1. /\ UNCHANGED <<seenCr, cm, seenCm, staleCm, edits, restarted>> /\ ca # None
        /\ pc' \notin {"map", "restart"} /\ ca' \in {None, ca}
    BY <1>1, <1>8 DEF UpdateCr, Goto, Keep, Others, seen, WorkerOK
  <2>2. CASE "ca" \in outdated
    BY <1>0, <1>8, <2>1, <2>2, FollowKept DEF UpdateCr
  <2>3. CASE "ca" \notin outdated
    <3>1. cr' = ca /\ cr # None /\ ca.gen = cr.gen
      BY <1>8, <2>1, <2>3 DEF UpdateCr, PutCr, CopyCurrent
    <3>2. Copies' \subseteq Copies
      BY <2>1, <3>1 DEF Copies
    <3>3. EditsOrdered'
      BY <2>1, <3>1, <3>2, GenNat DEF FollowInv, EditsOrdered, InCm, Copies
    <3>4. SameConf' /\ BagCurrent'
      BY <2>1, <3>2 DEF FollowInv, SameConf, BagCurrent
    <3> QED
      BY <3>3, <3>4 DEF FollowInv
  <2> QED
    BY <2>2, <2>3
<1> QED
  BY <1>2, <1>3, <1>4, <1>5, <1>6, <1>7, <1>8,
     FollowEnsureConfigMap, FollowUpdateMap, FollowRestart DEF Reconcile

(* A user's edit gets the highest number. *)
LEMMA FollowUsers ==
  ASSUME TypeInv, FollowInv, Users \/ CollectGarbage
  PROVE  FollowInv'
<1>0. ~staleCm => seenCm = cm
  BY DEF FollowInv, BagCurrent
<1>1. ASSUME NEW v, WriteCr(v), v = None \/ v.gen = edits + 1
      PROVE  FollowInv'
  <2>1. /\ cr' = v /\ edits' = edits + 1
        /\ UNCHANGED <<seenCr, ca, cm, seenCm, staleCm, restarted, pc, bag>>
    BY <1>1 DEF WriteCr, PutCr, seen
  <2>2. Copies' \subseteq Copies \cup {v}
    BY <2>1 DEF Copies
  <2>3. EditsOrdered'
    BY <1>1, <2>1, GenNat DEF FollowInv, EditsOrdered, InCm, Copies
  <2>4. \A x \in Copies : x.gen # edits + 1
    BY GenNat DEF FollowInv, EditsOrdered
  <2>5. cm # None => cm.gen # edits + 1
    BY GenNat DEF FollowInv, EditsOrdered, InCm
  <2>6. SameConf'
    <3>1. None \notin Copies'
      BY DEF Copies
    <3> QED
      BY <1>1, <2>1, <2>2, <2>4, <2>5, <3>1 DEF FollowInv, SameConf
  <2>7. BagCurrent'
    <3>1. pc' = "map" /\ "cm" \notin outdated' => "cm" \notin outdated
      BY <1>1, <2>1 DEF WriteCr, Outdate
    <3> QED
      BY <2>1, <3>1 DEF FollowInv, BagCurrent
  <2> QED
    BY <2>3, <2>6, <2>7 DEF FollowInv
<1>2. CASE CreateCr
  BY <1>1, <1>2 DEF CreateCr
<1>3. CASE EditCr
  <2>1. PICK s \in UserSpecs :
          WriteCr([cr EXCEPT !.gen = edits + 1, !.conf = s.conf, !.image = s.image])
    BY <1>3 DEF EditCr
  <2>2. cr \in CrValues
    BY <1>3 DEF EditCr, TypeInv, ApiOK
  <2>3. [cr EXCEPT !.gen = edits + 1, !.conf = s.conf, !.image = s.image].gen
          = edits + 1
    BY <2>2 DEF CrValues
  <2> QED
    BY <1>1, <2>1, <2>3
<1>4. CASE DeleteCr
  BY <1>1, <1>4 DEF DeleteCr
<1>5. CASE DeleteDeployment \/ CollectGarbage
  <2>1. /\ edits' \in {edits, edits + 1} /\ outdated' \subseteq outdated \cup {"exd"}
        /\ UNCHANGED <<cr, seenCr, ca, cm, seenCm, staleCm, restarted, pc, bag>>
        /\ pc = "map" /\ "cm" \in outdated => "cm" \in outdated'
    BY <1>5 DEF DeleteDeployment, CollectGarbage, RemoveDep, Outdate, seen
  <2> QED
    BY <1>0, <2>1, FollowSame
<1>6. CASE SetSecret
  <2>1. UNCHANGED <<cr, seenCr, cm, seenCm, staleCm, pc, ca, bag, outdated, edits, restarted>>
    BY <1>6 DEF SetSecret, cache, seen, worker
  <2> QED
    BY <1>0, <2>1, FollowSame
<1> QED
  BY <1>2, <1>3, <1>4, <1>5, <1>6 DEF Users

(* Failures, caches and timers. *)
LEMMA FollowEnvironment ==
  ASSUME TypeInv, FollowInv, CallFails \/ Crash \/ Resync \/ Sync \/ DelayOver
  PROVE  FollowInv'
<1>0. ~staleCm => seenCm = cm
  BY DEF FollowInv, BagCurrent
<1>1. CASE CallFails
  <2>1. /\ UNCHANGED <<cr, seenCr, cm, seenCm, staleCm, edits, restarted>>
        /\ pc' \notin {"map", "restart"}
        /\ ca' = None \/ (ca' = ca /\ ca # None)
    BY <1>1 DEF CallFails, Done, Requeue, Stop, Goto, Keep, api, cache, seen,
                TypeInv, WorkerOK
  <2> QED
    BY <1>0, <2>1, FollowKept
<1>2. CASE Crash
  BY <1>2, FollowSynced DEF Crash, Stop, api
<1>3. CASE SyncCr
  BY <1>0, <1>3, FollowSynced DEF SyncCr, api, worker
<1>4. CASE SyncDep \/ SyncCm \/ SyncSvc \/ SyncSecret \/ DelayOver \/ Resync
  <2>1. /\ UNCHANGED <<cr, seenCr, cm, pc, ca, bag, outdated, edits, restarted>>
        /\ ~staleCm' => seenCm' = cm'
    BY <1>0, <1>4 DEF SyncDep, SyncCm, SyncSvc, SyncSecret, DelayOver, Resync,
                      api, cache, seen, worker
  <2> QED
    BY <1>0, <2>1, FollowSame
<1> QED
  BY <1>1, <1>2, <1>3, <1>4 DEF Sync

LEMMA FollowStep ==
  TypeInv /\ CopyCurrent /\ FollowInv /\ [Next]_vars => FollowInv'
<1> SUFFICES ASSUME TypeInv, CopyCurrent, FollowInv, [Next]_vars PROVE FollowInv'
  OBVIOUS
<1>1. CASE UNCHANGED vars
  <2>1. ~staleCm => seenCm = cm
    BY DEF FollowInv, BagCurrent
  <2> QED
    BY <1>1, <2>1, FollowSame DEF vars, api, cache, seen, worker
<1> QED
  BY <1>1, FollowReconcile, FollowUsers, FollowEnvironment DEF Next

LEMMA FollowKeeps == Spec => []FollowInv
<1>1. Init => FollowInv
  BY DEF Init, FollowInv, EditsOrdered, SameConf, BagCurrent, Copies, InCm
<1> QED
  BY <1>1, FollowStep, CopiesKept, TypesKept, PTL DEF Spec

(* The agent is restarted at most once for an edit: when a restart is      *)
(* decided, the edit it is for was not restarted for, whatever is retried. *)
THEOREM RestartsOnce == Spec => []RestartedOnce
<1>1. TypeInv /\ FollowInv => RestartedOnce
  BY GenNat DEF FollowInv, BagCurrent, RestartedOnce, TypeInv, WorkerOK, Copies
<1> QED
  BY <1>1, FollowKeeps, TypesKept, PTL

-----------------------------------------------------------------------------
(* Adam implements Follower.                                               *)

FollowerStep == [Follower!Next]_(Follower!vars)

LEMMA FollowerStutters ==
  ASSUME UNCHANGED <<cm, edits, restarted>> PROVE FollowerStep
  BY DEF FollowerStep, Follower!vars

LEMMA FollowerReconcile ==
  ASSUME TypeInv, FollowInv, Fetch \/ Reconcile
  PROVE  FollowerStep
<1>1. CASE \/ Fetch \/ EnsureSecret \/ ReloadSecret \/ EnsureAgentService
           \/ CreateDeployment \/ UpdateImage \/ UpdateCr \/ UpdateStatus
  <2>1. UNCHANGED <<cm, edits, restarted>>
    BY <1>1 DEF Fetch, EnsureSecret, ReloadSecret, EnsureAgentService,
         CreateDeployment, UpdateImage, UpdateCr, UpdateStatus, api, Others
  <2> QED
    BY <2>1, FollowerStutters
<1>2. ASSUME UNCHANGED <<edits, restarted>>, ca # None, NEW b \in Bags,
             PutCm([gen |-> ca.gen, bag |-> b])
      PROVE  FollowerStep
  <2>1. cm'.gen = ca.gen /\ cm' # None
    <3>1. cm' = [gen |-> ca.gen, bag |-> b] /\ ca.gen \in Gens
      BY <1>2 DEF PutCm, TypeInv, WorkerOK, CrValues
    <3>2. cm' \in CmValues
      BY <3>1 DEF CmValues
    <3> QED
      BY <3>1, <3>2, NoneAssumption
  <2>2. ca \in Copies
    BY <1>2 DEF Copies
  <2>3. InCm' \in Nat /\ InCm' = ca.gen /\ InCm <= ca.gen /\ ca.gen <= edits
    BY <2>1, <2>2, GenNat DEF FollowInv, EditsOrdered, InCm
  <2>4. InCm' = InCm \/ InCm' \in InCm + 1 .. edits
    BY <2>3, GenNat
  <2> QED
    BY <1>2, <2>4 DEF FollowerStep, Follower!Next, Follower!Install, Follower!vars, InCm
<1>3. CASE CleanUp
  <2>1. cm' \in {cm, None} /\ UNCHANGED <<edits, restarted>>
    BY <1>3 DEF CleanUp, PutCm, Others
  <2> QED
    BY <2>1, FollowerStutters DEF FollowerStep, Follower!Next, Follower!Uninstall
<1>4. CASE EnsureConfigMap
  <2>1. UNCHANGED <<edits, restarted>> /\ ca # None
    BY <1>4 DEF EnsureConfigMap, Others, TypeInv, WorkerOK
  <2>2. CASE UNCHANGED cm
    BY <2>1, <2>2, FollowerStutters
  <2>3. CASE cm' # cm
    <3>1. seenCm = None /\ cm = None /\ PutCm([gen |-> ca.gen, bag |-> bag'])
          /\ bag' = UpdatedBag(ca.conf, seenSecret, TRUE) /\ seenSecret \in Versions
      BY <1>4, <2>3 DEF EnsureConfigMap, TypeInv, WorkerOK, CacheOK
    <3>2. bag' \in Bags
      BY <2>1, <3>1, MadeBagOK DEF TypeInv, WorkerOK, CrValues
    <3> QED
      BY <1>2, <2>1, <3>1, <3>2
  <2> QED
    BY <2>2, <2>3
<1>5. CASE UpdateMap
  <2>1. UNCHANGED <<edits, restarted>> /\ ca # None /\ bag \in Bags
    BY <1>5 DEF UpdateMap, Others, TypeInv, WorkerOK
  <2>2. CASE UNCHANGED cm
    BY <2>1, <2>2, FollowerStutters
  <2>3. CASE cm' # cm
    <3> DEFINE b == UpdatedBag(ca.conf, bag.secretVersion, FALSE)
    <3>1. PutCm([gen |-> ca.gen, bag |-> b])
      BY <1>5, <2>3 DEF UpdateMap
    <3>2. b \in Bags
      BY <2>1, BagFields, MadeBagOK DEF TypeInv, WorkerOK, CrValues
    <3> QED
      BY <1>2, <2>1, <3>1, <3>2
  <2> QED
    BY <2>2, <2>3
<1>6. CASE RestartAgent
  <2>1. UNCHANGED <<cm, edits>> /\ restarted' \in {restarted, ca.gen}
    BY <1>6 DEF RestartAgent, api
  <2>2. cm # None /\ cm.gen = ca.gen /\ restarted < ca.gen
    BY <1>6 DEF RestartAgent, FollowInv, BagCurrent
  <2>3. restarted' = restarted \/ restarted' \in restarted + 1 .. cm.gen
    BY <2>1, <2>2, GenNat
  <2> QED
    BY <2>1, <2>2, <2>3, FollowerStutters DEF FollowerStep, Follower!Next, Follower!Apply
<1> QED
  BY <1>1, <1>3, <1>4, <1>5, <1>6 DEF Reconcile

(* Everybody else edits, or leaves the three alone. *)
LEMMA FollowerOthers ==
  ASSUME TypeInv, [Next]_vars, ~Fetch, ~Reconcile
  PROVE  FollowerStep
<1>1. CASE CreateCr \/ EditCr \/ DeleteCr \/ DeleteDeployment
  <2>1. edits' = edits + 1 /\ UNCHANGED <<cm, restarted>>
    BY <1>1 DEF CreateCr, EditCr, DeleteCr, DeleteDeployment, WriteCr, RemoveDep
  <2> QED
    BY <2>1 DEF FollowerStep, Follower!Next, Follower!Edit
<1>2. CASE \/ SetSecret \/ CollectGarbage \/ CallFails \/ Crash \/ Resync \/ Sync
           \/ DelayOver \/ UNCHANGED vars
  <2>1. UNCHANGED <<cm, edits, restarted>>
    BY <1>2 DEF SetSecret, CollectGarbage, RemoveDep, CallFails, Crash, Resync, Sync,
         SyncCr, SyncDep, SyncCm, SyncSvc, SyncSecret, DelayOver, vars, api
  <2> QED
    BY <2>1, FollowerStutters
<1> QED
  BY <1>1, <1>2 DEF Next, Users

(* The ConfigMap and the restarts follow the edits of the resource: for    *)
(* any specs and bounds, every step of Adam is one of Follower or none.    *)
THEOREM FollowsItsEdits == Spec => FollowsEdits
<1>1. Init => Follower!Init
  BY DEF Init, Follower!Init
<1>2. TypeInv /\ FollowInv /\ [Next]_vars => [Follower!Next]_(Follower!vars)
  BY FollowerReconcile, FollowerOthers DEF FollowerStep
<1> QED
  BY <1>1, <1>2, FollowKeeps, TypesKept, PTL DEF Spec, FollowsEdits, Follower!Spec
=============================================================================
