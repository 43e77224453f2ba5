--------------------------- MODULE InfraVizProofs ---------------------------
(***************************************************************************)
(* Safety of InfraViz, for every set of specs and nodes and all bounds.    *)
(***************************************************************************)
EXTENDS InfraViz, TLAPS

-----------------------------------------------------------------------------
(* What the helpers of the actions do to the types.                        *)

(* A reconcile that ends leaves an idle worker, and a queue that lost      *)
(* nothing or holds the key for later.                                     *)
LEMMA DoneOK == ASSUME QueueOK, Done PROVE WorkerOK' /\ dirty' = dirty /\ delayed' \in BOOLEAN
  BY DEF Done, Stop, WorkerOK, QueueOK, Steps, queue

LEMMA RequeueOK ==
  ASSUME QueueOK, Requeue
  PROVE  WorkerOK' /\ dirty' = dirty /\ delayed' \in BOOLEAN
  BY DEF Requeue, Stop, WorkerOK, QueueOK, Steps

(* A reconcile that goes on past the reads keeps its copies. *)
EarlySteps == {"idle", "service", "secret", "create"}

LEMMA GotoOK ==
  ASSUME WorkerOK, pc \notin EarlySteps, NEW step \in Steps \ EarlySteps, Goto(step),
         ca' \in CrValues, UNCHANGED <<exd, want>>,
         mac' \in CmValues \cup {None}, breaking' \in BOOLEAN,
         todo' \subseteq Nodes \cup {None}, outdated' \subseteq {"ca", "ds", "ma"}
  PROVE  WorkerOK' /\ UNCHANGED <<dirty, delayed>>
  BY DEF Goto, WorkerOK, EarlySteps, Steps, queue

LEMMA GotoSameOK ==
  ASSUME WorkerOK, pc \notin EarlySteps, NEW step \in Steps \ EarlySteps, Goto(step),
         UNCHANGED local
  PROVE  WorkerOK' /\ UNCHANGED <<dirty, delayed>>
  BY DEF Goto, WorkerOK, EarlySteps, Steps, queue, local

(* Writes put values of the right type in place. *)
LEMMA PutCrOK ==
  ASSUME TypeOK, NEW v \in CrValues \cup {None}, PutCr(v)
  PROVE  cr' \in CrValues \cup {None} /\ staleCr' \in BOOLEAN
  BY DEF PutCr, TypeOK, ApiOK, CacheOK

LEMMA PutDsOK ==
  ASSUME TypeOK, NEW v \in DsValues \cup {None}, PutDs(v)
  PROVE  ds' \in DsValues \cup {None} /\ staleDs' \in BOOLEAN
  BY DEF PutDs, TypeOK, ApiOK, CacheOK

LEMMA PutCmOK ==
  ASSUME TypeOK, NEW n \in CmNames, NEW v \in CmValues, PutCm(n, v)
  PROVE  cm' \in [CmNames -> CmValues \cup {None}] /\ staleCm' \subseteq CmNames
  BY DEF PutCm, TypeOK, ApiOK, CacheOK

LEMMA DefaultsOK ==
  ASSUME NEW v \in CrValues
  PROVE  WithPodDefaults(v) \in CrValues /\ WithVizDefault(v) \in CrValues
<1>1. v.spec \in Specs
  BY DEF CrValues
<1>2. [v.spec EXCEPT !.image = DefaultImage] \in Specs
  BY <1>1 DEF Specs
<1>3. [v.spec EXCEPT !.viz = "true"] \in Specs
  BY <1>1 DEF Specs
<1> QED
  BY <1>2, <1>3 DEF WithPodDefaults, WithVizDefault, CrValues

LEMMA RenderedOK ==
  ASSUME NEW n \in CmNames, NEW s \in Specs PROVE Rendered(n, s) \in CmValues
  BY DEF Rendered, CmNames, CmValues, Specs

LEMMA WantReadyOK ==
  ASSUME NEW w \in DsValues, NEW d \in DsValues
  PROVE  [w EXCEPT !.ready = d.ready] \in DsValues
  BY DEF DsValues

(* A pod that goes leaves the lists consistent. *)
LEMMA PodGoneOK ==
  ASSUME TypeOK, NEW n \in Nodes, PodGone(n)
  PROVE  /\ pods' \in [Nodes -> PodValues \cup {None}]
         /\ listed' \subseteq {m \in Nodes : pods'[m] # None}
         /\ phantom' \in BOOLEAN
  BY DEF PodGone, TypeOK, ApiOK, CacheOK

-----------------------------------------------------------------------------
(* Type correctness.                                                       *)

(* Initially nothing exists and the worker is idle. *)
LEMMA TypeInit == Init => TypeOK
<1> SUFFICES ASSUME Init PROVE TypeOK
  OBVIOUS
<1> USE DEF Init
<1>1. ApiOK
  BY DEF ApiOK
<1>2. CacheOK
  BY DEF CacheOK
<1>3. WorkerOK
  BY DEF WorkerOK, Steps
<1>4. QueueOK
  <2>1. edits = 0 /\ faults = 0 /\ dirty = FALSE /\ delayed = FALSE
    OBVIOUS
  <2>2. 0 \in 0..MaxEdits /\ 0 \in 0..MaxFaults
    BY BoundsAssumption
  <2> QED
    BY <2>1, <2>2 DEF QueueOK
<1> QED
  BY <1>1, <1>2, <1>3, <1>4 DEF TypeOK

(* The reads at the start of a reconcile. *)
LEMMA TypeStart ==
  TypeOK /\ (Fetch \/ EnsureAgentService \/ EnsureSecret) => TypeOK'
<1> SUFFICES ASSUME TypeOK, Fetch \/ EnsureAgentService \/ EnsureSecret
             PROVE  TypeOK'
  OBVIOUS
<1> USE DEF TypeOK
<1>1. CASE Fetch
  <2>1. WorkerOK'
    <3>1. CASE seenCr = None
      BY <1>1, <3>1 DEF Fetch, WorkerOK, worker, local
    <3>2. CASE seenCr # None
      <4> DEFINE v == WithPodDefaults(seenCr)
      <4>1. v \in CrValues
        BY <3>2, DefaultsOK DEF CacheOK
      <4>2. [spec |-> v.spec, owner |-> v.uid, ready |-> FALSE] \in DsValues
        BY <4>1 DEF CrValues, DsValues
      <4>3. pc = "idle" /\ pc' = "service"
        BY <1>1, <3>2 DEF Fetch
      <4> QED
        BY <1>1, <3>2, <4>1, <4>2, <4>3 DEF Fetch, WorkerOK, Steps
    <3> QED
      BY <3>1, <3>2
  <2> QED
    BY <1>1, <2>1 DEF Fetch, ApiOK, CacheOK, QueueOK, api, cache
<1>2. CASE EnsureAgentService
  <2>1. made' \subseteq {"service", "secret"}
    BY <1>2 DEF EnsureAgentService, Made, ApiOK
  <2>2. WorkerOK'
    BY <1>2 DEF EnsureAgentService, Goto, WorkerOK, Steps, local
  <2> QED
    BY <1>2, <2>1, <2>2 DEF EnsureAgentService, Goto, queue, ApiOK, CacheOK, QueueOK, cache
<1>3. CASE EnsureSecret
  <2>1. made' \subseteq {"service", "secret"}
    BY <1>3 DEF EnsureSecret, Made, ApiOK
  <2>2. WorkerOK'
    BY <1>3 DEF EnsureSecret, AfterSecret, Goto, WorkerOK, CacheOK, Steps
  <2> QED
    BY <1>3, <2>1, <2>2 DEF EnsureSecret, Goto, queue, ApiOK, CacheOK, QueueOK, cache
<1> QED
  BY <1>1, <1>2, <1>3

(* The ConfigMaps. *)
LEMMA TypeConfig ==
  TypeOK /\ (\/ EnsureNetVizConfig \/ EnsureLogConfig \/ EnsureMaConfig
             \/ EnsureSSLConfig) => TypeOK'
<1> SUFFICES ASSUME TypeOK,
                    \/ EnsureNetVizConfig \/ EnsureLogConfig \/ EnsureMaConfig
                    \/ EnsureSSLConfig
             PROVE  TypeOK'
  OBVIOUS
<1> USE DEF TypeOK
<1>0. pc \notin EarlySteps /\ ca \in CrValues /\ ca.spec \in Specs
  BY DEF EnsureNetVizConfig, EnsureLogConfig, EnsureMaConfig, EnsureSSLConfig,
         EarlySteps, WorkerOK, CrValues
<1>1. AfterConfig \in Steps \ EarlySteps
  BY DEF AfterConfig, AfterRestart, Steps, EarlySteps
<1>2. CASE EnsureNetVizConfig
  <2>1. cm' \in [CmNames -> CmValues \cup {None}] /\ staleCm' \subseteq CmNames
    <3>1. Rendered("netviz", ca.spec) \in CmValues /\ "netviz" \in CmNames
      BY <1>0, RenderedOK DEF CmNames
    <3> QED
      BY <1>2, <3>1, PutCmOK DEF EnsureNetVizConfig, ApiOK, CacheOK
  <2>2. WorkerOK' /\ UNCHANGED <<dirty, delayed>>
    BY <1>0, <1>2, GotoSameOK DEF EnsureNetVizConfig, Steps, EarlySteps
  <2> QED
    BY <1>2, <2>1, <2>2 DEF EnsureNetVizConfig, ApiOK, CacheOK, QueueOK, Lists,
                            Rest, Caches
<1>3. CASE EnsureLogConfig
  <2>1. cm' \in [CmNames -> CmValues \cup {None}] /\ staleCm' \subseteq CmNames
    <3>1. Rendered("log", ca.spec) \in CmValues /\ "log" \in CmNames
      BY <1>0, RenderedOK DEF CmNames
    <3> QED
      BY <1>3, <3>1, PutCmOK DEF EnsureLogConfig, ApiOK, CacheOK
  <2>2. WorkerOK' /\ dirty' = dirty /\ delayed' \in BOOLEAN
    <3>1. CASE Requeue
      BY <3>1, RequeueOK
    <3>2. CASE ~Requeue
      <4>1. /\ Goto("ma") /\ breaking' = Breaking /\ mac' = seenCm["ma"]
            /\ outdated' = outdated \cup IF "ma" \in staleCm THEN {"ma"} ELSE {}
            /\ UNCHANGED <<ca, exd, want, todo>>
        BY <1>3, <3>2 DEF EnsureLogConfig
      <4>2. breaking' \in BOOLEAN
        BY <4>1 DEF Breaking
      <4>3. mac' \in CmValues \cup {None}
        BY <4>1 DEF CacheOK, CmNames
      <4>4. outdated' \subseteq {"ca", "ds", "ma"} /\ todo' \subseteq Nodes \cup {None}
        BY <4>1 DEF WorkerOK
      <4> QED
        BY <1>0, <4>1, <4>2, <4>3, <4>4, GotoOK DEF Steps, EarlySteps, QueueOK
    <3> QED
      BY <3>1, <3>2
  <2> QED
    BY <1>3, <2>1, <2>2 DEF EnsureLogConfig, ApiOK, CacheOK, QueueOK, Lists, Rest, Caches
<1>4. CASE EnsureMaConfig
  <2>1. cm' \in [CmNames -> CmValues \cup {None}] /\ staleCm' \subseteq CmNames
    <3>1. Rendered("ma", ca.spec) \in CmValues /\ "ma" \in CmNames
      BY <1>0, RenderedOK DEF CmNames
    <3> QED
      BY <1>4, <3>1, PutCmOK DEF EnsureMaConfig, ApiOK, CacheOK
  <2>2. WorkerOK' /\ dirty' = dirty /\ delayed' \in BOOLEAN
    <3>1. CASE Requeue
      BY <3>1, RequeueOK
    <3>2. CASE ~Requeue
      <4> DEFINE step == IF ca.spec.ssl THEN "ssl" ELSE AfterConfig
      <4>1. /\ Goto(step) /\ ca' = WithVizDefault(ca) /\ mac' = None
            /\ UNCHANGED <<exd, want, breaking, todo, outdated>>
        BY <1>4, <3>2 DEF EnsureMaConfig
      <4>2. step \in Steps \ EarlySteps
        BY <1>1 DEF Steps, EarlySteps
      <4>3. ca' \in CrValues
        BY <1>0, <4>1, DefaultsOK
      <4>4. /\ breaking' \in BOOLEAN /\ outdated' \subseteq {"ca", "ds", "ma"}
            /\ todo' \subseteq Nodes \cup {None}
        BY <4>1 DEF WorkerOK
      <4> QED
        BY <1>0, <4>1, <4>2, <4>3, <4>4, GotoOK DEF QueueOK
    <3> QED
      BY <3>1, <3>2
  <2> QED
    BY <1>4, <2>1, <2>2 DEF EnsureMaConfig, ApiOK, CacheOK, QueueOK, Lists, Rest, Caches
<1>5. CASE EnsureSSLConfig
  <2>1. WorkerOK' /\ UNCHANGED <<dirty, delayed>>
    BY <1>0, <1>1, <1>5, GotoSameOK DEF EnsureSSLConfig
  <2> QED
    BY <1>5, <2>1 DEF EnsureSSLConfig, ApiOK, CacheOK, QueueOK, cache
<1> QED
  BY <1>2, <1>3, <1>4, <1>5

(* The writes of the DaemonSet, and the restart. *)
LEMMA TypeDaemonSet ==
  TypeOK /\ (CreateDaemonSet \/ UpdateDaemonSet \/ RestartPod \/ RespecDaemonSet)
    => TypeOK'
<1> SUFFICES ASSUME TypeOK,
                    \/ CreateDaemonSet \/ UpdateDaemonSet \/ RestartPod
                    \/ RespecDaemonSet
             PROVE  TypeOK'
  OBVIOUS
<1> USE DEF TypeOK
<1>0. /\ ca \in CrValues /\ want \in DsValues
      /\ pc # "create" => pc \notin EarlySteps
  BY DEF CreateDaemonSet, UpdateDaemonSet, RestartPod, RespecDaemonSet,
         EarlySteps, WorkerOK
<1>1. AfterRestart \in Steps \ EarlySteps /\ {"restart", "update"} \subseteq Steps \ EarlySteps
  BY DEF AfterRestart, Steps, EarlySteps
<1>2. CASE CreateDaemonSet
  <2>1. ds' \in DsValues \cup {None} /\ staleDs' \in BOOLEAN
    BY <1>0, <1>2, PutDsOK DEF CreateDaemonSet, ApiOK, CacheOK
  <2>2. WorkerOK' /\ dirty' = dirty /\ delayed' \in BOOLEAN
    BY <1>2, DoneOK, RequeueOK DEF CreateDaemonSet
  <2> QED
    BY <1>2, <2>1, <2>2 DEF CreateDaemonSet, ApiOK, CacheOK, QueueOK, Lists, Rest, Caches
<1>3. CASE UpdateDaemonSet
  <2>1. CASE ds = None
    <3>1. Requeue /\ UNCHANGED <<ds, staleDs>>
      BY <1>3, <2>1 DEF UpdateDaemonSet
    <3> QED
      BY <1>3, <3>1, RequeueOK DEF UpdateDaemonSet, ApiOK, CacheOK, QueueOK,
                                   Lists, Rest, Caches
  <2>2. CASE ds # None
    <3> DEFINE list == listed \cup (IF phantom THEN {None} ELSE {})
               step == IF list = {} THEN AfterRestart ELSE "restart"
    <3>1. /\ PutDs([want EXCEPT !.ready = ds.ready])
          /\ outdated' = outdated \ {"ds"} /\ todo' = list /\ Goto(step)
          /\ UNCHANGED <<ca, exd, want, mac, breaking>>
      BY <1>3, <2>2 DEF UpdateDaemonSet
    <3>2. ds' \in DsValues \cup {None} /\ staleDs' \in BOOLEAN
      BY <1>0, <2>2, <3>1, WantReadyOK, PutDsOK DEF ApiOK
    <3>3. WorkerOK' /\ UNCHANGED <<dirty, delayed>>
      <4>1. list \subseteq Nodes \cup {None}
        BY DEF CacheOK
      <4>2. step \in Steps \ EarlySteps
        BY <1>1
      <4>3. pc \notin EarlySteps
        BY <1>3 DEF UpdateDaemonSet, EarlySteps
      <4>4. /\ mac' \in CmValues \cup {None} /\ breaking' \in BOOLEAN
            /\ outdated' \subseteq {"ca", "ds", "ma"}
        BY <3>1 DEF WorkerOK
      <4> HIDE DEF list, step
      <4> QED
        BY <1>0, <3>1, <4>1, <4>2, <4>3, <4>4, GotoOK
    <3> QED
      BY <1>3, <3>2, <3>3 DEF UpdateDaemonSet, ApiOK, CacheOK, QueueOK,
                              Lists, Rest, Caches
  <2> QED
    BY <2>1, <2>2
<1>4. CASE RestartPod
  <2>1. CASE None \in todo /\ Requeue /\ UNCHANGED <<pods, Lists>>
    BY <1>4, <2>1, RequeueOK DEF RestartPod, ApiOK, CacheOK, QueueOK,
                                 Lists, Rest, Caches, Stales
  <2>2. ASSUME NEW n \in todo,
               IF n = None THEN UNCHANGED <<pods, Lists>> ELSE PodGone(n),
               todo' = todo \ {n},
               Goto(IF todo' = {} THEN AfterRestart ELSE "restart"),
               UNCHANGED <<ca, exd, want, mac, breaking, outdated>>
        PROVE  TypeOK'
    <3>1. /\ pods' \in [Nodes -> PodValues \cup {None}]
          /\ listed' \subseteq {m \in Nodes : pods'[m] # None}
          /\ phantom' \in BOOLEAN
      <4>1. CASE n = None
        BY <2>2, <4>1 DEF ApiOK, CacheOK, Lists
      <4>2. CASE n # None
        <5>1. n \in Nodes
          BY <4>2 DEF WorkerOK
        <5> QED
          BY <2>2, <4>2, <5>1, PodGoneOK
      <4> QED
        BY <4>1, <4>2
    <3>2. WorkerOK' /\ UNCHANGED <<dirty, delayed>>
      <4>1. pc \notin EarlySteps
        BY <1>4 DEF RestartPod, EarlySteps
      <4>2. /\ mac' \in CmValues \cup {None} /\ breaking' \in BOOLEAN
            /\ outdated' \subseteq {"ca", "ds", "ma"}
            /\ todo' \subseteq Nodes \cup {None}
        BY <2>2 DEF WorkerOK
      <4> QED
        BY <1>0, <1>1, <2>2, <4>1, <4>2, GotoOK
    <3> QED
      BY <1>4, <3>1, <3>2 DEF RestartPod, ApiOK, CacheOK, QueueOK, Rest, Caches, Stales
  <2> QED
    BY <1>4, <2>1, <2>2 DEF RestartPod
<1>5. CASE RespecDaemonSet
  <2>1. CASE ds = None \/ (breaking /\ "ds" \in outdated)
    <3>1. Requeue /\ UNCHANGED <<ds, staleDs>>
      BY <1>5, <2>1 DEF RespecDaemonSet
    <3> QED
      BY <1>5, <3>1, RequeueOK DEF RespecDaemonSet, ApiOK, CacheOK, QueueOK,
                                   Lists, Rest, Caches
  <2>2. CASE ~(ds = None \/ (breaking /\ "ds" \in outdated))
    <3>1. PutDs([want EXCEPT !.ready = ds.ready]) /\ Goto("update") /\ UNCHANGED local
      BY <1>5, <2>2 DEF RespecDaemonSet
    <3>2. ds' \in DsValues \cup {None} /\ staleDs' \in BOOLEAN
      BY <1>0, <2>2, <3>1, WantReadyOK, PutDsOK DEF ApiOK
    <3>3. WorkerOK' /\ UNCHANGED <<dirty, delayed>>
      <4>1. pc \notin EarlySteps
        BY <1>5 DEF RespecDaemonSet, EarlySteps
      <4> QED
        BY <1>1, <3>1, <4>1, GotoSameOK
    <3> QED
      BY <1>5, <3>2, <3>3 DEF RespecDaemonSet, ApiOK, CacheOK, QueueOK,
                              Lists, Rest, Caches
  <2> QED
    BY <2>1, <2>2
<1> QED
  BY <1>2, <1>3, <1>4, <1>5

(* The writes of the InfraViz itself. *)
LEMMA TypeUpdate == TypeOK /\ (UpdateCr \/ UpdateStatus) => TypeOK'
<1> SUFFICES ASSUME TypeOK, UpdateCr \/ UpdateStatus PROVE TypeOK'
  OBVIOUS
<1> USE DEF TypeOK
<1>0. ca \in CrValues /\ pc \notin EarlySteps
  BY DEF UpdateCr, UpdateStatus, EarlySteps, WorkerOK
<1>1. CASE UpdateCr
  <2>1. cr' \in CrValues \cup {None} /\ staleCr' \in BOOLEAN
    BY <1>0, <1>1, PutCrOK DEF UpdateCr, ApiOK, CacheOK
  <2>2. WorkerOK' /\ dirty' = dirty /\ delayed' \in BOOLEAN
    <3>1. CASE Done
      BY <3>1, DoneOK
    <3>2. CASE Goto("status") /\ UNCHANGED local
      BY <1>0, <3>2, GotoSameOK DEF Steps, EarlySteps, QueueOK
    <3> QED
      BY <1>1, <3>1, <3>2 DEF UpdateCr
  <2> QED
    BY <1>1, <2>1, <2>2 DEF UpdateCr, ApiOK, CacheOK, QueueOK, Lists, Rest, Caches
<1>2. CASE UpdateStatus
  <2>1. cr' \in CrValues \cup {None} /\ staleCr' \in BOOLEAN
    <3>1. [ca EXCEPT !.stamped = TRUE] \in CrValues
      BY <1>0 DEF CrValues
    <3> QED
      BY <1>2, <3>1, PutCrOK DEF UpdateStatus, ApiOK, CacheOK
  <2>2. WorkerOK' /\ dirty' = dirty /\ delayed' \in BOOLEAN
    BY <1>2, DoneOK DEF UpdateStatus
  <2> QED
    BY <1>2, <2>1, <2>2 DEF UpdateStatus, ApiOK, CacheOK, QueueOK, Lists, Rest, Caches
<1> QED
  BY <1>1, <1>2

(* Failures. *)
LEMMA TypeFailures == TypeOK /\ (CallFails \/ Crash \/ Resync) => TypeOK'
<1> SUFFICES ASSUME TypeOK, CallFails \/ Crash \/ Resync PROVE TypeOK'
  OBVIOUS
<1> USE DEF TypeOK
<1>0. faults' \in 0..MaxFaults /\ edits' \in 0..MaxEdits
  BY BoundsAssumption DEF CallFails, Crash, Resync, QueueOK
<1>1. CASE CallFails
  <2>1. WorkerOK' /\ dirty' = dirty /\ delayed' \in BOOLEAN
    <3>1. CASE pc = "service"
      <4>1. Goto("secret") /\ UNCHANGED local
        BY <1>1, <3>1 DEF CallFails
      <4> QED
        BY <3>1, <4>1 DEF Goto, WorkerOK, QueueOK, Steps, queue, local
    <3>2. CASE pc = "secret"
      <4>1. /\ Goto(AfterSecret) /\ exd' = seenDs
            /\ UNCHANGED <<ca, want, mac, breaking, todo, outdated>>
        BY <1>1, <3>2 DEF CallFails
      <4> QED
        BY <3>2, <4>1 DEF Goto, AfterSecret, WorkerOK, CacheOK, QueueOK, Steps, queue
    <3>3. CASE /\ pc \in {"netviz", "ssl"}
               /\ \E step \in {"log", AfterConfig} : Goto(step) /\ UNCHANGED local
      <4>1. PICK step \in {"log", AfterConfig} : Goto(step) /\ UNCHANGED local
        BY <3>3
      <4>2. step \in Steps \ EarlySteps
        BY DEF AfterConfig, AfterRestart, Steps, EarlySteps
      <4>3. pc \notin EarlySteps
        BY <3>3 DEF EarlySteps
      <4> QED
        BY <4>1, <4>2, <4>3, GotoSameOK DEF QueueOK
    <3>4. CASE Done
      BY <3>4, DoneOK
    <3>5. CASE Requeue
      BY <3>5, RequeueOK
    <3> QED
      BY <1>1, <3>1, <3>2, <3>3, <3>4, <3>5 DEF CallFails
  <2> QED
    BY <1>0, <1>1, <2>1 DEF CallFails, ApiOK, CacheOK, QueueOK, api, cache
<1>2. CASE Crash
  <2>1. WorkerOK'
    BY <1>2 DEF Crash, Stop, WorkerOK, Steps
  <2>2. CacheOK'
    BY <1>2 DEF Crash, ApiOK, CacheOK, api
  <2>3. ApiOK'
    BY <1>2 DEF Crash, ApiOK, api
  <2>4. dirty' \in BOOLEAN /\ delayed' \in BOOLEAN
    BY <1>2 DEF Crash
  <2> QED
    BY <1>0, <2>1, <2>2, <2>3, <2>4 DEF QueueOK
<1>3. CASE Resync
  <2>1. dirty' \in BOOLEAN
    BY <1>3 DEF Resync
  <2> QED
    BY <1>0, <1>3, <2>1 DEF Resync, ApiOK, CacheOK, WorkerOK, QueueOK,
                            api, cache, worker, local
<1> QED
  BY <1>1, <1>2, <1>3

(* Caches and timers. *)
LEMMA TypeSync == TypeOK /\ Sync => TypeOK'
<1> SUFFICES ASSUME TypeOK, Sync PROVE TypeOK'
  OBVIOUS
<1> USE DEF TypeOK, ApiOK, CacheOK, QueueOK, api, queue, Caches, Lists, Stales
<1>0. WorkerOK'
  BY DEF Sync, SyncCr, SyncDs, SyncConfig, SyncPods, DelayOver, WorkerOK, worker, local
<1>1. CASE SyncCr
  BY <1>0, <1>1 DEF SyncCr
<1>2. CASE SyncDs
  BY <1>0, <1>2 DEF SyncDs
<1>3. CASE SyncConfig
  BY <1>0, <1>3 DEF SyncConfig
<1>4. CASE SyncPods
  BY <1>0, <1>4 DEF SyncPods
<1>5. CASE DelayOver
  BY <1>0, <1>5 DEF DelayOver, cache
<1> QED
  BY <1>1, <1>2, <1>3, <1>4, <1>5 DEF Sync

(* Users. *)
LEMMA WriteCrOK ==
  ASSUME TypeOK, NEW v \in CrValues \cup {None}, WriteCr(v) PROVE TypeOK'
<1> USE DEF TypeOK
<1>1. cr' \in CrValues \cup {None} /\ staleCr' \in BOOLEAN
  BY PutCrOK DEF WriteCr
<1>2. WorkerOK'
  BY DEF WriteCr, Outdate, WorkerOK
<1>3. edits' \in 0..MaxEdits
  BY BoundsAssumption DEF WriteCr, QueueOK
<1> QED
  BY <1>1, <1>2, <1>3 DEF WriteCr, ApiOK, CacheOK, QueueOK, Caches, Lists, queue

(* The number of a new edit is within the bound. *)
LEMMA NewGen == ASSUME QueueOK, edits < MaxEdits PROVE edits + 1 \in Gens
  BY BoundsAssumption DEF QueueOK, Gens

LEMMA RemoveDsOK ==
  ASSUME TypeOK, RemoveDs, edits' \in 0..MaxEdits PROVE TypeOK'
<1> USE DEF TypeOK
<1>1. ds' \in DsValues \cup {None} /\ staleDs' \in BOOLEAN
  BY PutDsOK DEF RemoveDs
<1>2. WorkerOK'
  BY DEF RemoveDs, Outdate, WorkerOK
<1> QED
  BY <1>1, <1>2 DEF RemoveDs, ApiOK, CacheOK, QueueOK, Caches, Lists, queue

LEMMA TypeUsers == TypeOK /\ Users => TypeOK'
<1> SUFFICES ASSUME TypeOK, Users PROVE TypeOK'
  OBVIOUS
<1>1. CASE CreateCr
  <2>1. PICK s \in UserSpecs :
          WriteCr([gen |-> edits + 1, uid |-> edits + 1, spec |-> s, stamped |-> FALSE])
    BY <1>1 DEF CreateCr
  <2>2. edits + 1 \in Gens
    BY <2>1, NewGen DEF WriteCr, TypeOK
  <2>3. [gen |-> edits + 1, uid |-> edits + 1, spec |-> s, stamped |-> FALSE] \in CrValues
    BY <2>2, SpecsAssumption DEF CrValues
  <2> QED
    BY <2>1, <2>3, WriteCrOK
<1>2. CASE EditCr
  <2>1. PICK s \in UserSpecs : WriteCr([cr EXCEPT !.gen = edits + 1, !.spec = s])
    BY <1>2 DEF EditCr
  <2>2. edits + 1 \in Gens
    BY <2>1, NewGen DEF WriteCr, TypeOK
  <2>3. [cr EXCEPT !.gen = edits + 1, !.spec = s] \in CrValues
    BY <1>2, <2>2, SpecsAssumption DEF EditCr, CrValues, TypeOK, ApiOK
  <2> QED
    BY <2>1, <2>3, WriteCrOK
<1>3. CASE DeleteCr
  BY <1>3, WriteCrOK DEF DeleteCr
<1>4. CASE DeleteDaemonSet
  <2>1. edits' \in 0..MaxEdits
    BY <1>4, BoundsAssumption DEF DeleteDaemonSet, TypeOK, QueueOK
  <2> QED
    BY <1>4, <2>1, RemoveDsOK DEF DeleteDaemonSet
<1> QED
  BY <1>1, <1>2, <1>3, <1>4 DEF Users

(* The cluster. *)
LEMMA TypeCluster == TypeOK /\ Cluster => TypeOK'
<1> SUFFICES ASSUME TypeOK, Cluster PROVE TypeOK'
  OBVIOUS
<1> USE DEF TypeOK
<1>1. CASE CollectGarbage
  BY <1>1, RemoveDsOK DEF CollectGarbage, QueueOK
<1>2. CASE DaemonSetStatus
  <2> DEFINE ready == \A n \in Nodes : pods[n] # None
  <2>1. [ds EXCEPT !.ready = ready] \in DsValues
    <3>1. ds \in DsValues /\ ready \in BOOLEAN
      BY <1>2 DEF DaemonSetStatus, ApiOK
    <3> HIDE DEF ready
    <3> QED
      BY <3>1 DEF DsValues
  <2>2. ds' \in DsValues \cup {None} /\ staleDs' \in BOOLEAN
    BY <1>2, <2>1, PutDsOK DEF DaemonSetStatus
  <2>3. WorkerOK'
    BY <1>2 DEF DaemonSetStatus, Outdate, WorkerOK
  <2> QED
    BY <1>2, <2>2, <2>3 DEF DaemonSetStatus, ApiOK, CacheOK, QueueOK,
                            Caches, Lists, queue
<1>3. ASSUME NEW n \in Nodes, StartPod(n) PROVE TypeOK'
  <2> DEFINE p == [Template(ds) EXCEPT !.address = cm["ma"].address]
  <2>1. p \in PodValues
    <3>1. cm["ma"] \in CmValues
      BY <1>3 DEF StartPod, Wanted, CmNames, ApiOK
    <3>2. ds.spec \in Specs
      BY <1>3 DEF StartPod, ApiOK, DsValues
    <3>3. cm["ma"].address \in {s.address : s \in UserSpecs} \cup {None}
      BY <3>1 DEF CmValues
    <3>4. /\ ds.spec.image \in {s.image : s \in Specs} /\ ds.spec.ssl \in BOOLEAN
          /\ ds.spec.netviz \in {s.netviz : s \in UserSpecs}
      BY <3>2 DEF Specs
    <3> QED
      BY <3>3, <3>4 DEF Template, PodValues
  <2>2. pods' = [pods EXCEPT ![n] = p] /\ pods[n] = None
    BY <1>3 DEF StartPod
  <2>3. ApiOK' /\ listed \subseteq {m \in Nodes : pods'[m] # None}
    <3> HIDE DEF p
    <3>1. pods' \in [Nodes -> PodValues \cup {None}]
      BY <2>1, <2>2 DEF ApiOK
    <3>2. listed \subseteq {m \in Nodes : pods'[m] # None}
      BY <2>2 DEF CacheOK, ApiOK
    <3> QED
      BY <1>3, <3>1, <3>2 DEF StartPod, ApiOK
  <2> QED
    BY <1>3, <2>3 DEF StartPod, CacheOK, WorkerOK, QueueOK, cache, queue, worker, local
<1>4. ASSUME NEW n \in Nodes, RetirePod(n) PROVE TypeOK'
  <2>1. /\ pods' \in [Nodes -> PodValues \cup {None}]
        /\ listed' \subseteq {m \in Nodes : pods'[m] # None}
        /\ phantom' \in BOOLEAN
    BY <1>4, PodGoneOK DEF RetirePod
  <2>2. WorkerOK'
    BY <1>4 DEF RetirePod, StillListed, WorkerOK
  <2> QED
    BY <1>4, <2>1, <2>2 DEF RetirePod, ApiOK, CacheOK, QueueOK, Caches, Stales, queue
<1> QED
  BY <1>1, <1>2, <1>3, <1>4 DEF Cluster

LEMMA TypeStep == TypeOK /\ [Next]_vars => TypeOK'
<1> SUFFICES ASSUME TypeOK, [Next]_vars PROVE TypeOK'
  OBVIOUS
<1>1. CASE Reconcile
  BY <1>1, TypeStart, TypeConfig, TypeDaemonSet, TypeUpdate DEF Reconcile
<1>2. CASE UNCHANGED vars
  BY <1>2 DEF vars, api, cache, queue, worker, local, TypeOK, ApiOK, CacheOK,
              WorkerOK, QueueOK
<1> QED
  BY <1>1, <1>2, TypeSync, TypeUsers, TypeCluster, TypeFailures DEF Next

(* In every reachable state the variables have their types, and the worker *)
(* has the copies its next step dereferences.                              *)
THEOREM TypeCorrect == Spec => []TypeOK
  BY TypeInit, TypeStep, PTL DEF Spec

-----------------------------------------------------------------------------
(* The environment before the pods: from the write of ma-config on it is   *)
(* that of the copy (MaConfigWritten).                                     *)

(* The default of enableServerViz is rendered whether it is set or not. *)
LEMMA RenderedDefault ==
  ASSUME NEW v \in CrValues
  PROVE  Rendered("ma", WithVizDefault(v).spec) = Rendered("ma", v.spec)
<1>1. v.spec \in Specs
  BY DEF CrValues
<1> QED
  BY <1>1 DEF Rendered, WithVizDefault, CrValues, Specs

LEMMA MaConfigStep ==
  TypeOK /\ MaConfigWritten /\ [Next]_vars => MaConfigWritten'
<1> SUFFICES ASSUME TypeOK, MaConfigWritten, [Next]_vars PROVE MaConfigWritten'
  OBVIOUS
<1>1. ASSUME pc' \in {"idle", "service", "secret", "create", "netviz", "log", "ma"}
      PROVE  MaConfigWritten'
  BY <1>1 DEF MaConfigWritten, PastConfig
<1>2. ASSUME UNCHANGED <<cm, ca>>, pc' \in PastConfig => pc \in PastConfig
      PROVE  MaConfigWritten'
  BY <1>2 DEF MaConfigWritten
<1>3. ASSUME Stop PROVE MaConfigWritten'
  BY <1>1, <1>3 DEF Stop
<1>4. CASE Fetch \/ EnsureAgentService \/ EnsureSecret \/ CreateDaemonSet
  BY <1>1, <1>4 DEF Fetch, worker, EnsureAgentService, EnsureSecret, AfterSecret,
                    CreateDaemonSet, Done, Requeue, Stop, Goto
<1>5. CASE EnsureNetVizConfig \/ EnsureLogConfig
  BY <1>1, <1>5 DEF EnsureNetVizConfig, EnsureLogConfig, Requeue, Stop, Goto
<1>6. CASE EnsureMaConfig
  <2>1. CASE Requeue
    BY <1>3, <2>1 DEF Requeue
  <2>2. CASE ~Requeue
    <3>1. PutCm("ma", Rendered("ma", ca.spec)) /\ ca' = WithVizDefault(ca)
      BY <1>6, <2>2 DEF EnsureMaConfig
    <3>2. cm'["ma"] = Rendered("ma", ca.spec)
      BY <3>1 DEF PutCm, TypeOK, ApiOK, CmNames
    <3>3. ca \in CrValues
      BY <1>6 DEF EnsureMaConfig, TypeOK, WorkerOK
    <3> QED
      BY <3>1, <3>2, <3>3, RenderedDefault DEF MaConfigWritten
  <2> QED
    BY <2>1, <2>2
<1>7. CASE EnsureSSLConfig \/ UpdateDaemonSet \/ RestartPod \/ RespecDaemonSet
  <2>1. Stop \/ UNCHANGED <<cm, ca>>
    BY <1>7 DEF EnsureSSLConfig, UpdateDaemonSet, RestartPod, RespecDaemonSet,
                Requeue, local
  <2>2. pc \in PastConfig
    BY <1>7 DEF EnsureSSLConfig, UpdateDaemonSet, RestartPod, RespecDaemonSet,
                PastConfig
  <2> QED
    BY <1>2, <1>3, <2>1, <2>2
<1>8. CASE UpdateCr \/ UpdateStatus
  BY <1>2, <1>3, <1>8 DEF UpdateCr, UpdateStatus, Done, Goto, PastConfig, local
<1>9. CASE CallFails
  <2>1. CASE pc = "ssl"
    BY <1>2, <1>3, <1>9, <2>1 DEF CallFails, Requeue, PastConfig, local, api
  <2>2. CASE pc # "ssl"
    BY <1>1, <1>3, <1>9, <2>2 DEF CallFails, AfterSecret, Goto, Done, Requeue
  <2> QED
    BY <2>1, <2>2
<1>10. CASE Crash
  BY <1>3, <1>10 DEF Crash
<1>11. CASE Resync \/ Sync
  BY <1>2, <1>11 DEF Resync, Sync, SyncCr, SyncDs, SyncConfig, SyncPods, DelayOver,
                     worker, local, api
<1>12. CASE Users
  BY <1>2, <1>12 DEF Users, CreateCr, EditCr, DeleteCr, DeleteDaemonSet, WriteCr,
                     RemoveDs
<1>13. CASE Cluster
  BY <1>2, <1>13 DEF Cluster, CollectGarbage, RemoveDs, DaemonSetStatus, StartPod,
                     RetirePod, worker, local
<1>14. CASE UNCHANGED vars
  BY <1>2, <1>14 DEF vars, worker, local, api
<1> QED
  BY <1>4, <1>5, <1>6, <1>7, <1>8, <1>9, <1>10, <1>11, <1>12, <1>13, <1>14
     DEF Next, Reconcile

(* The DaemonSet is changed and pods are deleted only when ma-config holds *)
(* what the reconcile's copy asks for, for any specs, nodes and bounds.    *)
THEOREM ConfigComesFirst == Spec => []ConfigBeforeRestart
<1>1. Init => MaConfigWritten
  BY DEF Init, MaConfigWritten, PastConfig
<1>2. MaConfigWritten => ConfigBeforeRestart
  BY DEF MaConfigWritten, PastConfig, ConfigBeforeRestart
<1> QED
  BY <1>1, <1>2, MaConfigStep, TypeCorrect, PTL DEF Spec

-----------------------------------------------------------------------------
(* No edit is taken back.                                                  *)

(* A cache entry that is not stale is the InfraViz, and a copy of the      *)
(* worker that is not outdated has its fields, or their defaults: all of   *)
(* them by the time it is written back.                                    *)
AllDefaults(v) == WithVizDefault(WithPodDefaults(v))
CopyCurrent ==
  /\ ~staleCr => seenCr = cr
  /\ pc # "idle" /\ "ca" \notin outdated =>
       /\ cr \in CrValues /\ ca.gen = cr.gen /\ ca.uid = cr.uid
       /\ \/ ca.spec = AllDefaults(cr).spec
          \/ ca.spec = WithPodDefaults(cr).spec /\ pc \notin PastConfig

(* Filling in the defaults twice changes nothing. *)
LEMMA DefaultsTwice ==
  ASSUME NEW v \in CrValues, NEW w \in CrValues, w.spec = AllDefaults(v).spec
  PROVE  w.spec = AllDefaults(w).spec
<1>1. v.spec \in Specs /\ w.spec \in Specs
  BY DEF CrValues
<1>2. w.spec.viz = "true" /\ (w.spec.image = NoImage => DefaultImage = NoImage)
  BY <1>1 DEF AllDefaults, WithVizDefault, WithPodDefaults, CrValues, Specs
<1> QED
  BY <1>1, <1>2 DEF AllDefaults, WithVizDefault, WithPodDefaults, CrValues, Specs

(* The last default completes them. *)
LEMMA VizDefaultLast ==
  ASSUME NEW v \in CrValues, NEW w \in CrValues,
         w.spec \in {AllDefaults(v).spec, WithPodDefaults(v).spec}
  PROVE  /\ WithVizDefault(w).spec = AllDefaults(v).spec
         /\ WithVizDefault(w).gen = w.gen /\ WithVizDefault(w).uid = w.uid
<1>1. v.spec \in Specs /\ w.spec \in Specs
  BY DEF CrValues
<1>2. WithPodDefaults(v) \in CrValues /\ WithPodDefaults(v).spec \in Specs
  BY DefaultsOK DEF CrValues
<1>3. WithVizDefault(w).spec = [w.spec EXCEPT !.viz = "true"]
  BY DEF WithVizDefault, CrValues
<1>4. AllDefaults(v).spec = [WithPodDefaults(v).spec EXCEPT !.viz = "true"]
  BY <1>2 DEF AllDefaults, WithVizDefault, CrValues
<1>5. WithVizDefault(w).spec = AllDefaults(v).spec
  BY <1>1, <1>2, <1>3, <1>4 DEF Specs
<1>6. WithVizDefault(w).gen = w.gen /\ WithVizDefault(w).uid = w.uid
  BY DEF WithVizDefault, CrValues
<1> QED
  BY <1>5, <1>6

LEMMA PodDefaultsKeep ==
  ASSUME NEW v \in CrValues
  PROVE  WithPodDefaults(v).gen = v.gen /\ WithPodDefaults(v).uid = v.uid
  BY DEF WithPodDefaults, CrValues

(* An unchanged InfraViz has lost no edit. *)
LEMMA KeptSame == cr' = cr => EditsKept
  BY DEF EditsKept

(* The two steps that write the InfraViz for the operator. *)
LEMMA CopyUpdate ==
  TypeOK /\ CopyCurrent /\ (UpdateCr \/ UpdateStatus) => CopyCurrent' /\ EditsKept
<1> SUFFICES ASSUME TypeOK, CopyCurrent, UpdateCr \/ UpdateStatus
             PROVE  CopyCurrent' /\ EditsKept
  OBVIOUS
<1>1. ca \in CrValues /\ pc \in {"update", "status"} /\ seenCr' = seenCr
  BY DEF UpdateCr, UpdateStatus, TypeOK, WorkerOK, Rest, Caches
<1>2. CASE "ca" \in outdated
  <2>1. Done /\ UNCHANGED <<cr, staleCr>>
    BY <1>2 DEF UpdateCr, UpdateStatus
  <2> QED
    BY <1>1, <2>1, KeptSame DEF CopyCurrent, Done, Stop
<1>3. CASE "ca" \notin outdated
  <2>1. /\ cr \in CrValues /\ ca.gen = cr.gen /\ ca.uid = cr.uid
        /\ ca.spec = AllDefaults(cr).spec
    BY <1>1, <1>3 DEF CopyCurrent, PastConfig
  <2>2. PICK v \in CrValues :
          /\ PutCr(v) \/ (cr' = v /\ staleCr' = TRUE)
          /\ v.gen = ca.gen /\ v.uid = ca.uid /\ v.spec = ca.spec
    <3>1. CASE UpdateCr
      BY <1>1, <1>3, <3>1 DEF UpdateCr
    <3>2. CASE UpdateStatus
      <4> DEFINE v == [ca EXCEPT !.stamped = TRUE]
      <4>1. PutCr(v) \/ (cr' = v /\ staleCr' = TRUE)
        BY <1>3, <3>2 DEF UpdateStatus
      <4>2. /\ v \in CrValues
            /\ v.gen = ca.gen /\ v.uid = ca.uid /\ v.spec = ca.spec
        BY <1>1 DEF CrValues
      <4> QED
        BY <4>1, <4>2
    <3> QED
      BY <3>1, <3>2
  <2>3. cr' = v
    BY <2>2 DEF PutCr
  <2>4. EditsKept
    BY <2>1, <2>2, <2>3 DEF EditsKept, AllDefaults
  <2>5. (~staleCr => seenCr = cr)'
    BY <1>1, <2>2 DEF PutCr, CopyCurrent
  <2>6. pc' = "idle" \/ (pc' = "status" /\ UNCHANGED local)
    BY DEF UpdateCr, UpdateStatus, Done, Stop, Goto
  <2>7. pc' = "status" /\ UNCHANGED local => ca.spec = AllDefaults(v).spec
    BY <2>1, <2>2, DefaultsTwice
  <2> QED
    BY <2>2, <2>3, <2>4, <2>5, <2>6, <2>7 DEF CopyCurrent, local
<1> QED
  BY <1>2, <1>3

(* The other steps of the reconcile. *)
LEMMA CopyReconcile ==
  TypeOK /\ CopyCurrent /\ Reconcile => CopyCurrent' /\ EditsKept
<1> SUFFICES ASSUME TypeOK, CopyCurrent, Reconcile PROVE CopyCurrent' /\ EditsKept
  OBVIOUS
<1>1. ASSUME UNCHANGED <<cr, seenCr, staleCr, ca>>, pc # "idle",
             "ca" \in outdated => "ca" \in outdated',
             pc' \in PastConfig => pc \in PastConfig
      PROVE  CopyCurrent' /\ EditsKept
  BY <1>1, KeptSame DEF CopyCurrent
<1>2. ASSUME UNCHANGED <<cr, seenCr, staleCr>>, Stop PROVE CopyCurrent' /\ EditsKept
  BY <1>2, KeptSame DEF CopyCurrent, Stop
<1>3. CASE Fetch
  <2>1. UNCHANGED <<cr, seenCr, staleCr>>
    BY <1>3 DEF Fetch, api, cache
  <2>2. CASE seenCr = None
    BY <1>3, <2>1, <2>2, KeptSame DEF Fetch, CopyCurrent, worker, local
  <2>3. CASE seenCr # None
    <3>1. /\ pc' = "service" /\ ca' = WithPodDefaults(seenCr)
          /\ "ca" \notin outdated' => ~staleCr
      BY <1>3, <2>3 DEF Fetch
    <3>2. seenCr \in CrValues
      BY <2>3 DEF TypeOK, CacheOK
    <3> QED
      BY <2>1, <3>1, <3>2, KeptSame, PodDefaultsKeep
         DEF CopyCurrent, PastConfig
  <2> QED
    BY <2>2, <2>3
<1>4. CASE EnsureAgentService \/ EnsureSecret \/ EnsureNetVizConfig
  BY <1>1, <1>4 DEF EnsureAgentService, EnsureSecret, EnsureNetVizConfig,
                    AfterSecret, Goto, PastConfig, cache, local, Rest, Caches
<1>5. CASE CreateDaemonSet
  BY <1>2, <1>5 DEF CreateDaemonSet, Done, Requeue, Rest, Caches
<1>6. CASE EnsureLogConfig
  <2>1. CASE Requeue
    BY <1>2, <1>6, <2>1 DEF EnsureLogConfig, Requeue, Rest, Caches
  <2>2. CASE ~Requeue
    BY <1>1, <1>6, <2>2 DEF EnsureLogConfig, Goto, PastConfig, Rest, Caches
  <2> QED
    BY <2>1, <2>2
<1>7. CASE EnsureMaConfig
  <2>0. UNCHANGED <<cr, seenCr, staleCr>>
    BY <1>7 DEF EnsureMaConfig, Rest, Caches
  <2>1. CASE Requeue
    BY <1>2, <2>0, <2>1 DEF Requeue
  <2>2. CASE ~Requeue
    <3>1. ca' = WithVizDefault(ca) /\ UNCHANGED outdated /\ pc # "idle"
      BY <1>7, <2>2 DEF EnsureMaConfig
    <3>2. ca \in CrValues
      BY <3>1 DEF TypeOK, WorkerOK
    <3> QED
      BY <2>0, <3>1, <3>2, KeptSame, VizDefaultLast DEF CopyCurrent
  <2> QED
    BY <2>1, <2>2
<1>8. CASE EnsureSSLConfig \/ UpdateDaemonSet \/ RestartPod \/ RespecDaemonSet
  <2>1. UNCHANGED <<cr, seenCr, staleCr>>
    BY <1>8 DEF EnsureSSLConfig, UpdateDaemonSet, RestartPod, RespecDaemonSet,
                cache, Rest, Caches, Stales
  <2>2. Stop \/ (ca' = ca /\ ("ca" \in outdated => "ca" \in outdated'))
    BY <1>8 DEF EnsureSSLConfig, UpdateDaemonSet, RestartPod, RespecDaemonSet,
                Requeue, local
  <2>3. pc \in PastConfig /\ pc # "idle"
    BY <1>8 DEF EnsureSSLConfig, UpdateDaemonSet, RestartPod, RespecDaemonSet,
                PastConfig
  <2> QED
    BY <1>1, <1>2, <2>1, <2>2, <2>3
<1> QED
  BY <1>3, <1>4, <1>5, <1>6, <1>7, <1>8, CopyUpdate DEF Reconcile

(* The steps of everybody else. *)
LEMMA CopyOthers ==
  TypeOK /\ CopyCurrent /\ [Next]_vars /\ ~Reconcile => CopyCurrent' /\ EditsKept
<1> SUFFICES ASSUME TypeOK, CopyCurrent, [Next]_vars, ~Reconcile
             PROVE  CopyCurrent' /\ EditsKept
  OBVIOUS
<1>1. ASSUME UNCHANGED <<cr, seenCr, staleCr, ca, pc>>,
             pc # "idle" /\ "ca" \in outdated => "ca" \in outdated'
      PROVE  CopyCurrent' /\ EditsKept
  BY <1>1, KeptSame DEF CopyCurrent
<1>2. CASE Users
  <2>1. ASSUME NEW v, WriteCr(v),
               cr # None => v = None \/ v.gen = edits + 1
        PROVE  CopyCurrent' /\ EditsKept
    <3>1. cr' = v /\ edits' = edits + 1 /\ edits' > edits
      BY <2>1 DEF WriteCr, PutCr, TypeOK, QueueOK
    <3>2. (~staleCr => seenCr = cr)'
      BY <2>1 DEF WriteCr, PutCr, CopyCurrent, Caches
    <3>3. pc' = "idle" \/ "ca" \in outdated'
      BY <2>1 DEF WriteCr, Outdate
    <3> QED
      BY <2>1, <3>1, <3>2, <3>3 DEF CopyCurrent, EditsKept
  <2>2. CASE CreateCr
    BY <2>1, <2>2 DEF CreateCr
  <2>3. CASE EditCr
    <3>1. PICK s \in UserSpecs : WriteCr([cr EXCEPT !.gen = edits + 1, !.spec = s])
      BY <2>3 DEF EditCr
    <3>2. [cr EXCEPT !.gen = edits + 1, !.spec = s].gen = edits + 1
      BY <2>3 DEF EditCr, TypeOK, ApiOK, CrValues
    <3> QED
      BY <2>1, <3>1, <3>2
  <2>4. CASE DeleteCr
    BY <2>1, <2>4 DEF DeleteCr
  <2>5. CASE DeleteDaemonSet
    BY <1>1, <2>5 DEF DeleteDaemonSet, RemoveDs, Outdate, Caches
  <2> QED
    BY <1>2, <2>2, <2>3, <2>4, <2>5 DEF Users
<1>3. CASE Cluster
  BY <1>1, <1>3 DEF Cluster, CollectGarbage, RemoveDs, DaemonSetStatus, StartPod,
                    RetirePod, Outdate, Caches, Stales, cache, worker, local
<1>4. CASE Sync
  <2>1. CASE SyncCr
    BY <2>1, KeptSame DEF SyncCr, CopyCurrent, api, worker, local
  <2>2. CASE SyncDs \/ SyncConfig \/ SyncPods \/ DelayOver
    BY <1>1, <2>2 DEF SyncDs, SyncConfig, SyncPods, DelayOver, api, cache, worker,
                      local, Caches, Stales
  <2> QED
    BY <1>4, <2>1, <2>2 DEF Sync
<1>5. CASE CallFails
  <2>1. Stop \/ /\ UNCHANGED <<ca, outdated>>
                /\ pc' \in PastConfig => pc \in PastConfig
    BY <1>5 DEF CallFails, Done, Requeue, Goto, AfterSecret, PastConfig, local
  <2>2. UNCHANGED <<cr, seenCr, staleCr>> /\ pc # "idle"
    BY <1>5 DEF CallFails, api, cache
  <2> QED
    BY <2>1, <2>2, KeptSame DEF CopyCurrent, Stop
<1>6. CASE Crash
  BY <1>6, KeptSame DEF Crash, Stop, CopyCurrent, api
<1>7. CASE Resync
  BY <1>1, <1>7 DEF Resync, api, cache, worker, local
<1>8. CASE UNCHANGED vars
  BY <1>1, <1>8 DEF vars, api, cache, worker, local
<1> QED
  BY <1>2, <1>3, <1>4, <1>5, <1>6, <1>7, <1>8 DEF Next

(* No step of the operator takes an edit of a user back, whatever the lag  *)
(* of the caches and the failures.                                         *)
THEOREM EditsSurvive == Spec => UserEditsSurvive
<1>1. Init => CopyCurrent
  BY DEF Init, CopyCurrent
<1>2. TypeOK /\ CopyCurrent /\ [Next]_vars => CopyCurrent' /\ [EditsKept]_vars
  BY CopyReconcile, CopyOthers
<1> QED
  BY <1>1, <1>2, TypeCorrect, PTL DEF Spec, UserEditsSurvive

-----------------------------------------------------------------------------
(* No edit is forgotten.                                                   *)

Forgotten == CopiesWatched /\ NothingLeft

(* What the defaults leave alone. *)
LEMMA DefaultsSettle ==
  ASSUME NEW v \in CrValues
  PROVE  /\ WithVizDefault(v).spec.image = v.spec.image
         /\ WithVizDefault(v).spec.netviz = v.spec.netviz
         /\ WithVizDefault(v).spec.address = v.spec.address
         /\ WithPodDefaults(v).spec.netviz = v.spec.netviz
         /\ WithPodDefaults(v).spec.address = v.spec.address
         /\ Rendered("ma", WithPodDefaults(v).spec) = Rendered("ma", v.spec)
<1>1. v.spec \in Specs
  BY DEF CrValues
<1>2. WithVizDefault(v).spec = [v.spec EXCEPT !.viz = "true"]
  BY DEF WithVizDefault, CrValues
<1>3. WithPodDefaults(v).spec \in {v.spec, [v.spec EXCEPT !.image = DefaultImage]}
  BY DEF WithPodDefaults, CrValues
<1>4. Rendered("ma", WithPodDefaults(v).spec) = Rendered("ma", v.spec)
  BY <1>1, <1>3 DEF Rendered, Specs
<1> QED
  BY <1>1, <1>2, <1>3, <1>4 DEF Specs

(* A worker that is idle has no copies to worry about. *)
LEMMA ForgottenStop ==
  ASSUME ~staleDs' => seenDs' = ds', Stop PROVE Forgotten'
  BY DEF Forgotten, CopiesWatched, NothingLeft, PastConfig, Stop

(* A step that neither moves the worker nor writes. *)
LEMMA ForgottenKept ==
  ASSUME Forgotten, UNCHANGED <<ds, seenDs, staleDs, staleCr, pc, ca, exd, want, outdated>>,
         dirty => dirty'
  PROVE  Forgotten'
<1>1. CopiesWatched'
  BY DEF Forgotten, CopiesWatched
<1> QED
  BY <1>1 DEF Forgotten, NothingLeft

(* A write of the DaemonSet by somebody else, which the watch will tell.   *)
LEMMA ForgottenDs ==
  ASSUME Forgotten, NEW v, PutDs(v), Outdate("ds"),
         UNCHANGED <<seenDs, staleCr, dirty, pc, ca, exd, want>>
  PROVE  Forgotten'
<1>1. staleDs' \/ UNCHANGED <<ds, staleDs>>
  BY DEF PutDs
<1>2. "ca" \in outdated' => "ca" \in outdated
  BY DEF Outdate
<1>3. CopiesWatched'
  BY <1>1, <1>2 DEF Forgotten, CopiesWatched
<1> QED
  BY <1>1, <1>3 DEF Forgotten, NothingLeft

(* A step of the worker that goes on with its copies, except that it may   *)
(* fill in enableServerViz.                                                *)
LEMMA CopiesGoOn ==
  ASSUME TypeOK, CopiesWatched, pc \notin EarlySteps,
         UNCHANGED <<ds, seenDs, staleDs, staleCr, dirty, exd, want>>,
         ca' = ca \/ ca' = WithVizDefault(ca),
         "ca" \in outdated' => "ca" \in outdated
  PROVE  CopiesWatched'
<1>1. ca \in CrValues
  BY DEF TypeOK, WorkerOK, EarlySteps
<1>2. ca'.spec.image = ca.spec.image /\ ca'.spec.netviz = ca.spec.netviz
  BY <1>1, DefaultsSettle
<1> QED
  BY <1>2 DEF CopiesWatched

(* A reconcile that skips the restart has compared its copy with the       *)
(* DaemonSet, or with one that is about to bring the key back.             *)
LEMMA SameTemplate ==
  ASSUME TypeOK, CopiesWatched, pc \notin EarlySteps, ~DSpecChanged,
         ~staleDs, ~dirty
  PROVE  /\ ds # None
         /\ ds.spec.image = ca.spec.image /\ ds.spec.netviz = ca.spec.netviz
<1>1. exd \in DsValues /\ exd # None
  BY NoneAssumption DEF TypeOK, WorkerOK, EarlySteps
<1> QED
  BY <1>1 DEF CopiesWatched, DSpecChanged

(* The DaemonSet the worker writes has the template of its copy. *)
LEMMA TemplateWritten ==
  ASSUME TypeOK, CopiesWatched, pc \notin EarlySteps, ds # None,
         PutDs([want EXCEPT !.ready = ds.ready])
  PROVE  /\ ds' # None
         /\ ds'.spec.image = ca.spec.image /\ ds'.spec.netviz = ca.spec.netviz
<1>1. want \in DsValues /\ want # None /\ ds \in DsValues
  BY NoneAssumption DEF TypeOK, WorkerOK, ApiOK, EarlySteps
<1> DEFINE v == [want EXCEPT !.ready = ds.ready]
<1>2. v \in DsValues /\ v.spec = want.spec
  BY <1>1 DEF DsValues
<1>3. ds' = v
  BY DEF PutDs
<1> HIDE DEF v
<1> QED
  BY <1>1, <1>2, <1>3, NoneAssumption DEF CopiesWatched

(* A write of the DaemonSet by the worker leaves its copies watched. *)
LEMMA CopiesWrite ==
  ASSUME CopiesWatched, NEW v, PutDs(v),
         UNCHANGED <<seenDs, staleCr, dirty, ca, exd, want>>,
         "ca" \in outdated' => "ca" \in outdated
  PROVE  CopiesWatched'
<1>1. staleDs' \/ UNCHANGED <<ds, staleDs>>
  BY DEF PutDs
<1> QED
  BY <1>1 DEF CopiesWatched

(* The worker's own steps. *)
LEMMA ForgottenConfig ==
  ASSUME TypeOK, Forgotten,
         \/ EnsureNetVizConfig \/ EnsureLogConfig \/ EnsureMaConfig
         \/ EnsureSSLConfig
  PROVE  Forgotten'
<1>0. /\ pc \notin EarlySteps /\ ca \in CrValues
      /\ UNCHANGED <<ds, seenDs, staleDs, staleCr>>
  BY DEF EnsureNetVizConfig, EnsureLogConfig, EnsureMaConfig, EnsureSSLConfig,
         EarlySteps, Rest, Caches, cache, TypeOK, WorkerOK
<1>1. CASE Requeue
  BY <1>0, <1>1, ForgottenStop DEF Requeue, Forgotten, CopiesWatched
<1>2. CASE EnsureNetVizConfig
  <2>1. pc' = "log" /\ UNCHANGED <<dirty, exd, want, ca, outdated>>
    BY <1>2 DEF EnsureNetVizConfig, Goto, queue, local
  <2>2. CopiesWatched'
    BY <1>0, <2>1, CopiesGoOn DEF Forgotten
  <2> QED
    BY <2>1, <2>2 DEF Forgotten, NothingLeft, PastConfig
<1>3. CASE EnsureLogConfig /\ ~Requeue
  <2>1. /\ pc' = "ma" /\ ca.spec.address \notin InvalidAddresses
        /\ UNCHANGED <<dirty, exd, want, ca>>
        /\ "ca" \in outdated' => "ca" \in outdated
    BY <1>3 DEF EnsureLogConfig, Goto, queue
  <2>2. CopiesWatched'
    BY <1>0, <2>1, CopiesGoOn DEF Forgotten
  <2> QED
    BY <2>1, <2>2 DEF Forgotten, NothingLeft, PastConfig
<1>4. CASE (EnsureMaConfig /\ ~Requeue) \/ EnsureSSLConfig
  <2>1. /\ pc' \in {"ssl", AfterConfig} /\ pc \in {"ma", "ssl"}
        /\ ca' = ca \/ ca' = WithVizDefault(ca)
        /\ UNCHANGED <<dirty, exd, want, outdated>>
    BY <1>4 DEF EnsureMaConfig, EnsureSSLConfig, Goto, queue, local
  <2>2. CopiesWatched'
    BY <1>0, <2>1, CopiesGoOn DEF Forgotten
  <2>3. /\ ca'.spec.image = ca.spec.image /\ ca'.spec.netviz = ca.spec.netviz
        /\ ca'.spec.address = ca.spec.address
    BY <1>0, <2>1, DefaultsSettle
  <2>4. ca'.spec.address \notin InvalidAddresses
    BY <2>1, <2>3 DEF Forgotten, NothingLeft, PastConfig
  <2>5. ASSUME pc' \in {"update", "status"}, ~staleDs, ~dirty
        PROVE  /\ ds # None
               /\ ds.spec.image = ca'.spec.image /\ ds.spec.netviz = ca'.spec.netviz
    <3>1. ~DSpecChanged
      BY <2>1, <2>5 DEF AfterConfig, AfterRestart
    <3> QED
      BY <1>0, <2>3, <2>5, <3>1, SameTemplate DEF Forgotten
  <2> QED
    BY <1>0, <2>1, <2>2, <2>4, <2>5 DEF Forgotten, NothingLeft
<1> QED
  BY <1>1, <1>2, <1>3, <1>4

LEMMA ForgottenDaemonSet ==
  ASSUME TypeOK, Forgotten, UpdateDaemonSet \/ RestartPod \/ RespecDaemonSet
  PROVE  Forgotten'
<1>0. /\ pc \notin EarlySteps /\ pc \in PastConfig
      /\ UNCHANGED <<seenDs, staleCr>>
      /\ ca.spec.address \notin InvalidAddresses
  BY DEF UpdateDaemonSet, RestartPod, RespecDaemonSet, EarlySteps, PastConfig,
         Rest, Caches, Stales, Forgotten, NothingLeft
<1>1. CASE Requeue
  <2>1. UNCHANGED <<ds, staleDs>>
    BY <1>1 DEF UpdateDaemonSet, RestartPod, RespecDaemonSet, Requeue, Stop, Goto,
                AfterRestart, Stales
  <2> QED
    BY <1>0, <1>1, <2>1, ForgottenStop DEF Requeue, Forgotten, CopiesWatched
<1>2. CASE UpdateDaemonSet /\ ~Requeue
  <2>1. /\ ds # None /\ PutDs([want EXCEPT !.ready = ds.ready])
        /\ UNCHANGED <<dirty, ca, exd, want>>
        /\ "ca" \in outdated' => "ca" \in outdated
    BY <1>2 DEF UpdateDaemonSet, Goto, queue
  <2>2. CopiesWatched'
    BY <1>0, <2>1, CopiesWrite DEF Forgotten
  <2>3. /\ ds' # None
        /\ ds'.spec.image = ca.spec.image /\ ds'.spec.netviz = ca.spec.netviz
    BY <1>0, <2>1, TemplateWritten DEF Forgotten
  <2> QED
    BY <1>0, <2>1, <2>2, <2>3 DEF Forgotten, NothingLeft
<1>3. CASE RestartPod /\ ~Requeue
  <2>1. /\ pc' \in {AfterRestart, "restart"}
        /\ UNCHANGED <<ds, staleDs, dirty, ca, exd, want, outdated>>
    BY <1>3 DEF RestartPod, Goto, queue, Stales
  <2>2. CopiesWatched'
    BY <1>0, <2>1, CopiesGoOn DEF Forgotten
  <2>3. ASSUME pc' \in {"update", "status"}, ~staleDs, ~dirty
        PROVE  /\ ds # None
               /\ ds.spec.image = ca.spec.image /\ ds.spec.netviz = ca.spec.netviz
    <3>1. ~DSpecChanged
      BY <2>1, <2>3 DEF AfterRestart
    <3> QED
      BY <1>0, <2>3, <3>1, SameTemplate DEF Forgotten
  <2> QED
    BY <1>0, <2>1, <2>2, <2>3 DEF Forgotten, NothingLeft
<1>4. CASE RespecDaemonSet /\ ~Requeue
  <2>1. /\ ds # None /\ PutDs([want EXCEPT !.ready = ds.ready])
        /\ UNCHANGED <<dirty, ca, exd, want, outdated>>
    BY <1>4 DEF RespecDaemonSet, Goto, queue, local
  <2>2. CopiesWatched'
    BY <1>0, <2>1, CopiesWrite DEF Forgotten
  <2>3. /\ ds' # None
        /\ ds'.spec.image = ca.spec.image /\ ds'.spec.netviz = ca.spec.netviz
    BY <1>0, <2>1, TemplateWritten DEF Forgotten
  <2> QED
    BY <1>0, <2>1, <2>2, <2>3 DEF Forgotten, NothingLeft
<1> QED
  BY <1>1, <1>2, <1>3, <1>4

LEMMA ForgottenReconcile ==
  ASSUME TypeOK, CopyCurrent, Forgotten, Reconcile PROVE Forgotten'
<1>1. CASE Fetch
  <2>1. /\ pc = "idle" /\ exd = None
        /\ UNCHANGED <<ds, seenDs, staleDs, staleCr, exd>>
    BY <1>1 DEF Fetch, worker, local, api, cache, TypeOK, WorkerOK
  <2>2. CASE seenCr = None
    <3>1. UNCHANGED <<pc, ca, want, outdated>>
      BY <1>1, <2>2 DEF Fetch, worker, local
    <3>2. want = None /\ outdated = {}
      BY <2>1 DEF TypeOK, WorkerOK
    <3> QED
      BY <2>1, <3>1, <3>2 DEF Forgotten, CopiesWatched, NothingLeft, PastConfig
  <2>3. CASE seenCr # None
    <3> DEFINE v == WithPodDefaults(seenCr)
    <3>1. /\ pc' = "service" /\ ca' = v
          /\ want' = [spec |-> v.spec, owner |-> v.uid, ready |-> FALSE]
          /\ "ca" \in outdated' => staleCr
      BY <1>1, <2>3 DEF Fetch
    <3> HIDE DEF v
    <3>2. want'.spec = ca'.spec
      BY <3>1
    <3> QED
      BY <2>1, <3>1, <3>2 DEF Forgotten, CopiesWatched, NothingLeft, PastConfig
  <2> QED
    BY <2>2, <2>3
<1>2. CASE EnsureAgentService \/ EnsureSecret
  <2>1. /\ pc' \in {"secret", "create", "netviz", "log"}
        /\ UNCHANGED <<ds, seenDs, staleDs, staleCr, dirty, ca, want, outdated>>
        /\ exd' = exd \/ exd' = seenDs
    BY <1>2 DEF EnsureAgentService, EnsureSecret, AfterSecret, Goto, queue, cache,
                local
  <2> QED
    BY <2>1 DEF Forgotten, CopiesWatched, NothingLeft, PastConfig
<1>3. CASE CreateDaemonSet
  <2>1. Stop /\ seenDs' = seenDs
    BY <1>3 DEF CreateDaemonSet, Done, Requeue, Rest, Caches
  <2>2. staleDs' \/ UNCHANGED <<ds, staleDs>>
    BY <1>3 DEF CreateDaemonSet, PutDs
  <2> QED
    BY <2>1, <2>2, ForgottenStop DEF Forgotten, CopiesWatched
<1>4. CASE UpdateCr \/ UpdateStatus
  <2>1. /\ UNCHANGED <<ds, seenDs, staleDs, dirty>>
        /\ pc \in {"update", "status"}
        /\ staleCr => staleCr'
    BY <1>4 DEF UpdateCr, UpdateStatus, Done, Goto, PutCr, Rest, Caches, queue
  <2>2. Stop \/ (pc' = "status" /\ UNCHANGED local)
    BY <1>4 DEF UpdateCr, UpdateStatus, Done, Goto
  <2>3. CASE Stop
    BY <2>1, <2>3, ForgottenStop DEF Forgotten, CopiesWatched
  <2>4. CASE pc' = "status" /\ UNCHANGED local
    <3>1. UNCHANGED <<ca, exd, want, outdated>>
      BY <2>4 DEF local
    <3>2. CopiesWatched'
      BY <2>1, <3>1 DEF Forgotten, CopiesWatched
    <3> QED
      BY <2>1, <2>4, <3>1, <3>2 DEF Forgotten, NothingLeft, PastConfig
  <2> QED
    BY <2>2, <2>3, <2>4
<1> QED
  BY <1>1, <1>2, <1>3, <1>4, ForgottenConfig, ForgottenDaemonSet DEF Reconcile

(* The InfraViz carries the number of its last edit, or of an earlier one. *)

LEMMA EditsCounted == ASSUME [Next]_vars PROVE edits' \in {edits, edits + 1}
<1>1. CASE Fetch \/ EnsureAgentService \/ EnsureSecret
  BY <1>1 DEF Fetch, EnsureAgentService, EnsureSecret
<1>2. CASE EnsureNetVizConfig \/ EnsureLogConfig \/ EnsureMaConfig \/ EnsureSSLConfig
  BY <1>2 DEF EnsureNetVizConfig, EnsureLogConfig, EnsureMaConfig, EnsureSSLConfig, Rest
<1>3. CASE CreateDaemonSet \/ UpdateDaemonSet \/ RestartPod \/ RespecDaemonSet
  BY <1>3 DEF CreateDaemonSet, UpdateDaemonSet, RestartPod, RespecDaemonSet, Rest
<1>4. CASE UpdateCr \/ UpdateStatus
  BY <1>4 DEF UpdateCr, UpdateStatus, Rest
<1>5. CASE CallFails \/ Crash \/ Resync
  BY <1>5 DEF CallFails, Crash, Resync
<1>6. CASE Sync
  BY <1>6 DEF Sync, SyncCr, SyncDs, SyncConfig, SyncPods, DelayOver
<1>7. CASE Users
  BY <1>7 DEF Users, CreateCr, EditCr, DeleteCr, DeleteDaemonSet, WriteCr
<1>8. CASE Cluster
  BY <1>8 DEF Cluster, CollectGarbage, DaemonSetStatus, StartPod, RetirePod
<1>9. CASE UNCHANGED vars
  BY <1>9 DEF vars
<1> QED
  BY <1>1, <1>2, <1>3, <1>4, <1>5, <1>6, <1>7, <1>8, <1>9 DEF Next, Reconcile

(* Only a user creates one. *)
LEMMA UsersCreate ==
  ASSUME TypeOK, CopyCurrent, [Next]_vars, cr = None, cr' # None PROVE CreateCr
<1>1. CASE Users
  BY <1>1 DEF Users, EditCr, DeleteCr, DeleteDaemonSet, RemoveDs
<1>2. CASE UpdateCr \/ UpdateStatus
  <2>1. "ca" \in outdated
    BY <1>2, NoneAssumption DEF UpdateCr, UpdateStatus, CopyCurrent
  <2> QED
    BY <1>2, <2>1 DEF UpdateCr, UpdateStatus
<1>3. CASE Fetch \/ EnsureAgentService \/ EnsureSecret
  BY <1>3 DEF Fetch, EnsureAgentService, EnsureSecret, api
<1>4. CASE EnsureNetVizConfig \/ EnsureLogConfig \/ EnsureMaConfig \/ EnsureSSLConfig
  BY <1>4 DEF EnsureNetVizConfig, EnsureLogConfig, EnsureMaConfig, EnsureSSLConfig
<1>5. CASE CreateDaemonSet \/ UpdateDaemonSet \/ RestartPod \/ RespecDaemonSet
  BY <1>5 DEF CreateDaemonSet, UpdateDaemonSet, RestartPod, RespecDaemonSet
<1>6. CASE CallFails \/ Crash \/ Resync
  BY <1>6 DEF CallFails, Crash, Resync, api
<1>7. CASE Sync
  BY <1>7 DEF Sync, SyncCr, SyncDs, SyncConfig, SyncPods, DelayOver, api
<1>8. CASE Cluster
  BY <1>8 DEF Cluster, CollectGarbage, RemoveDs, DaemonSetStatus, StartPod, RetirePod
<1>9. CASE UNCHANGED vars
  BY <1>9 DEF vars, api
<1> QED
  BY <1>1, <1>2, <1>3, <1>4, <1>5, <1>6, <1>7, <1>8, <1>9 DEF Next, Reconcile

LEMMA GensStep ==
  ASSUME TypeOK, CopyCurrent, GensGiven, [Next]_vars, EditsKept PROVE GensGiven'
<1>1. edits \in Nat /\ edits' \in {edits, edits + 1}
  BY EditsCounted, BoundsAssumption DEF TypeOK, QueueOK
<1>2. cr # None => cr.gen \in Nat
  BY BoundsAssumption DEF TypeOK, ApiOK, CrValues, Gens
<1>3. CASE cr # None
  BY <1>1, <1>2, <1>3 DEF GensGiven, EditsKept
<1>4. CASE cr = None /\ cr' # None
  <2>1. CreateCr
    BY <1>4, UsersCreate
  <2>2. cr'.gen = edits + 1 /\ edits' = edits + 1
    BY <1>4, <2>1 DEF CreateCr, WriteCr, PutCr
  <2> QED
    BY <1>1, <2>2 DEF GensGiven
<1> QED
  BY <1>3, <1>4 DEF GensGiven

(* The steps of everybody else.  An edit is told by the watch, and by the  *)
(* copy that it makes outdated.                                            *)
LEMMA ForgottenUsers ==
  ASSUME TypeOK, GensGiven, Forgotten, Users PROVE Forgotten'
<1>1. ASSUME NEW v, WriteCr(v), cr # v PROVE Forgotten'
  <2>1. staleCr' /\ UNCHANGED <<ds, staleDs, seenDs, dirty, pc, ca, exd, want>>
    BY <1>1 DEF WriteCr, PutCr, Caches, queue
  <2>2. CopiesWatched'
    BY <2>1 DEF Forgotten, CopiesWatched
  <2> QED
    BY <2>1, <2>2 DEF Forgotten, NothingLeft
<1>2. CASE CreateCr
  <2>1. PICK s \in UserSpecs :
          WriteCr([gen |-> edits + 1, uid |-> edits + 1, spec |-> s, stamped |-> FALSE])
    BY <1>2 DEF CreateCr
  <2> DEFINE v == [gen |-> edits + 1, uid |-> edits + 1, spec |-> s, stamped |-> FALSE]
  <2>2. v \in CrValues
    <3>1. edits + 1 \in Gens
      BY <2>1, BoundsAssumption DEF WriteCr, Gens, TypeOK, QueueOK
    <3> QED
      BY <3>1, SpecsAssumption DEF CrValues
  <2>3. WriteCr(v)
    BY <2>1
  <2> HIDE DEF v
  <2> QED
    BY <1>1, <1>2, <2>2, <2>3, NoneAssumption DEF CreateCr
<1>3. CASE EditCr
  <2>1. PICK s \in UserSpecs : WriteCr([cr EXCEPT !.gen = edits + 1, !.spec = s])
    BY <1>3 DEF EditCr
  <2> DEFINE v == [cr EXCEPT !.gen = edits + 1, !.spec = s]
  <2>2. cr \in CrValues /\ cr.gen <= edits /\ edits \in Nat /\ cr.gen \in Nat
    BY <1>3, BoundsAssumption
       DEF EditCr, GensGiven, TypeOK, ApiOK, QueueOK, CrValues, Gens
  <2>3. v.gen = edits + 1
    BY <2>2 DEF CrValues
  <2>4. WriteCr(v)
    BY <2>1
  <2> HIDE DEF v
  <2> QED
    BY <1>1, <2>2, <2>3, <2>4
<1>4. CASE DeleteCr
  BY <1>1, <1>4 DEF DeleteCr
<1>5. CASE DeleteDaemonSet
  BY <1>5, ForgottenDs DEF DeleteDaemonSet, RemoveDs, Caches, queue
<1> QED
  BY <1>2, <1>3, <1>4, <1>5 DEF Users

LEMMA ForgottenOthers ==
  ASSUME TypeOK, Forgotten, [Next]_vars, ~Reconcile, ~Users PROVE Forgotten'
<1>0. ~staleDs => seenDs = ds
  BY DEF Forgotten, CopiesWatched
<1>1. CASE CallFails
  <2>1. UNCHANGED <<ds, seenDs, staleDs, staleCr>> /\ pc # "idle"
    BY <1>1 DEF CallFails, api, cache
  <2>2. CASE Stop
    BY <1>0, <2>1, <2>2, ForgottenStop
  <2>3. CASE ~Stop
    <3>1. /\ pc \in {"service", "secret", "netviz", "ssl"}
          /\ UNCHANGED <<ca, want, outdated, dirty>>
          /\ exd' = exd \/ (pc = "secret" /\ exd' = seenDs)
          /\ pc' \in {"secret", AfterSecret, "log", AfterConfig}
          /\ pc' = AfterConfig => pc = "ssl"
      BY <1>1, <2>3 DEF CallFails, Done, Requeue, Goto, AfterSecret, AfterConfig,
                        AfterRestart, queue, local
    <3>2. CopiesWatched'
      BY <1>0, <2>1, <3>1 DEF Forgotten, CopiesWatched
    <3>3. CASE pc' # AfterConfig
      BY <3>1, <3>2, <3>3 DEF Forgotten, NothingLeft, PastConfig, AfterSecret
    <3>4. CASE pc' = AfterConfig
      <4>1. ca.spec.address \notin InvalidAddresses /\ pc \notin EarlySteps
        BY <3>1, <3>4 DEF Forgotten, NothingLeft, PastConfig, EarlySteps
      <4>2. pc' \in {"update", "status"} => ~DSpecChanged
        BY <3>4 DEF AfterConfig, AfterRestart
      <4>3. ~staleDs /\ ~dirty /\ ~DSpecChanged =>
              /\ ds # None
              /\ ds.spec.image = ca.spec.image /\ ds.spec.netviz = ca.spec.netviz
        BY <4>1, SameTemplate DEF Forgotten
      <4> QED
        BY <2>1, <3>1, <3>2, <4>1, <4>2, <4>3 DEF Forgotten, NothingLeft
    <3> QED
      BY <3>3, <3>4
  <2> QED
    BY <2>2, <2>3
<1>2. CASE Crash
  BY <1>2, ForgottenStop DEF Crash, api
<1>3. CASE Resync \/ DelayOver
  BY <1>3, ForgottenKept DEF Resync, DelayOver, api, cache, worker, local
<1>4. CASE SyncCr
  <2>1. /\ dirty' /\ UNCHANGED <<ds, seenDs, staleDs, pc, ca, exd, want, outdated>>
    BY <1>4 DEF SyncCr, api, worker, local
  <2> QED
    BY <2>1 DEF Forgotten, CopiesWatched, NothingLeft
<1>5. CASE SyncDs
  <2>1. /\ dirty' /\ seenDs' = ds
        /\ UNCHANGED <<ds, staleCr, pc, ca, exd, want, outdated>>
    BY <1>5 DEF SyncDs, api, worker, local
  <2> QED
    BY <2>1 DEF Forgotten, CopiesWatched, NothingLeft
<1>6. CASE SyncConfig \/ SyncPods
  BY <1>6, ForgottenKept DEF SyncConfig, SyncPods, api, queue, worker, local,
                             Caches, Stales
<1>7. CASE CollectGarbage \/ DaemonSetStatus
  BY <1>7, ForgottenDs DEF CollectGarbage, RemoveDs, DaemonSetStatus, Caches, queue
<1>8. ASSUME NEW n \in Nodes, StartPod(n) \/ RetirePod(n) PROVE Forgotten'
  BY <1>8, ForgottenKept DEF StartPod, RetirePod, cache, queue, worker, local,
                             Caches, Stales
<1>9. CASE UNCHANGED vars
  BY <1>9, ForgottenKept DEF vars, api, cache, queue, worker, local
<1> QED
  BY <1>1, <1>2, <1>3, <1>4, <1>5, <1>6, <1>7, <1>8, <1>9 DEF Next, Sync, Cluster

(* The InfraViz has what EditsAttended asks for. *)
Handled ==
  /\ cr.spec.address \notin InvalidAddresses
  /\ ds # None
  /\ ds.spec.image = WithPodDefaults(cr).spec.image
  /\ ds.spec.netviz = cr.spec.netviz
  /\ cm["ma"] = Rendered("ma", cr.spec)

(* So it is at the end of a reconcile, when no event is pending. *)
LEMMA HandledNow ==
  ASSUME TypeOK, CopyCurrent, MaConfigWritten, Forgotten, pc \in {"update", "status"},
         ~staleCr, ~staleDs, ~dirty
  PROVE  Handled
<1>1. "ca" \notin outdated
  BY DEF Forgotten, CopiesWatched
<1>2. cr \in CrValues /\ ca.spec = AllDefaults(cr).spec
  BY <1>1 DEF CopyCurrent, PastConfig
<1> DEFINE w == WithPodDefaults(cr)
<1>3. w \in CrValues /\ ca.spec = WithVizDefault(w).spec
  BY <1>2, DefaultsOK DEF AllDefaults
<1>4. /\ ca.spec.image = w.spec.image
      /\ ca.spec.netviz = cr.spec.netviz /\ ca.spec.address = cr.spec.address
  <2> HIDE DEF w
  <2>1. /\ ca.spec.image = w.spec.image
        /\ ca.spec.netviz = w.spec.netviz /\ ca.spec.address = w.spec.address
    BY <1>3, DefaultsSettle
  <2>2. w.spec.netviz = cr.spec.netviz /\ w.spec.address = cr.spec.address
    BY <1>2, DefaultsSettle DEF w
  <2> QED
    BY <2>1, <2>2
<1>5. Rendered("ma", ca.spec) = Rendered("ma", cr.spec)
  <2>1. Rendered("ma", w.spec) = Rendered("ma", cr.spec)
    BY <1>2, DefaultsSettle
  <2> HIDE DEF w
  <2> QED
    BY <1>3, <2>1, RenderedDefault
<1> QED
  BY <1>4, <1>5 DEF Handled, Forgotten, NothingLeft, MaConfigWritten, PastConfig

(* What is written is told by the watch. *)
Told == /\ staleCr => staleCr'
        /\ staleDs => staleDs'
        /\ staleCr' \/ cr' = cr
        /\ staleDs' \/ ds' = ds

LEMMA PutCrTold == ASSUME NEW v, PutCr(v), UNCHANGED <<ds, staleDs>> PROVE Told
  BY DEF PutCr, Told

LEMMA PutDsTold == ASSUME NEW v, PutDs(v), UNCHANGED <<cr, staleCr>> PROVE Told
  BY DEF PutDs, Told

LEMMA UsersTold == ASSUME Users PROVE Told /\ UNCHANGED <<pc, queue, cm>>
<1>1. ASSUME NEW v, WriteCr(v) PROVE Told /\ UNCHANGED <<pc, queue, cm>>
  BY <1>1, PutCrTold DEF WriteCr
<1>2. CASE RemoveDs /\ UNCHANGED faults
  BY <1>2, PutDsTold DEF RemoveDs
<1> QED
  BY <1>1, <1>2 DEF Users, CreateCr, EditCr, DeleteCr, DeleteDaemonSet, RemoveDs

LEMMA ClusterTold == ASSUME Cluster PROVE Told /\ UNCHANGED <<pc, queue, cm>>
<1>1. CASE CollectGarbage
  BY <1>1, PutDsTold DEF CollectGarbage, RemoveDs
<1>2. CASE DaemonSetStatus
  BY <1>2, PutDsTold DEF DaemonSetStatus
<1>3. ASSUME NEW n \in Nodes, StartPod(n) \/ RetirePod(n)
      PROVE  Told /\ UNCHANGED <<pc, queue, cm>>
  BY <1>3 DEF StartPod, RetirePod, Told, cache, worker, Stales
<1> QED
  BY <1>1, <1>2, <1>3 DEF Cluster

(* Who stops watching an InfraViz is the reconcile that reached the end.   *)
LEMMA StopsWatching ==
  ASSUME TypeOK, CopyCurrent, [Next]_vars, Watched, ~Watched', cr' # None
  PROVE  pc \in {"update", "status"} /\ ~staleCr /\ ~staleDs /\ ~dirty
<1>1. pc' = "idle" /\ ~staleCr' /\ ~staleDs' /\ ~dirty' /\ ~delayed'
  BY DEF Watched
<1>3. CASE Reconcile
  <2>1. CASE Fetch
    <3>1. UNCHANGED <<cr, staleCr>>
      BY <2>1 DEF Fetch, api, cache
    <3>2. seenCr = None
      BY <1>1, <2>1 DEF Fetch
    <3> QED
      BY <1>1, <3>1, <3>2 DEF CopyCurrent
  <2>2. CASE CreateDaemonSet
    <3>1. Requeue \/ (ds = None /\ PutDs(want))
      BY <2>2 DEF CreateDaemonSet
    <3>2. want # None
      BY <2>2, NoneAssumption DEF CreateDaemonSet, TypeOK, WorkerOK
    <3> QED
      BY <1>1, <3>1, <3>2 DEF Requeue, PutDs
  <2>3. CASE UpdateCr \/ UpdateStatus
    <3>1. UNCHANGED <<staleDs, dirty>> /\ (staleCr => staleCr')
      BY <2>3 DEF UpdateCr, UpdateStatus, PutCr, Goto, Done, queue
    <3> QED
      BY <1>1, <2>3, <3>1 DEF UpdateCr, UpdateStatus
  <2>4. CASE \/ EnsureAgentService \/ EnsureSecret \/ EnsureNetVizConfig
             \/ EnsureLogConfig \/ EnsureMaConfig
    BY <1>1, <2>4 DEF EnsureAgentService, EnsureSecret, EnsureNetVizConfig,
                      EnsureLogConfig, EnsureMaConfig, AfterSecret, AfterConfig,
                      AfterRestart, Goto, Requeue
  <2>5. CASE EnsureSSLConfig \/ UpdateDaemonSet \/ RestartPod \/ RespecDaemonSet
    BY <1>1, <2>5 DEF EnsureSSLConfig, UpdateDaemonSet, RestartPod, RespecDaemonSet,
                      AfterConfig, AfterRestart, Goto, Requeue
  <2> QED
    BY <1>3, <2>1, <2>2, <2>3, <2>4, <2>5 DEF Reconcile
<1>4. CASE CallFails
  <2>1. UNCHANGED <<staleCr, staleDs, dirty>>
    BY <1>4 DEF CallFails, cache, Goto, Done, Requeue, queue
  <2>2. pc \in {"update", "status"}
    BY <1>1, <1>4 DEF CallFails, AfterSecret, AfterConfig, AfterRestart, Goto, Requeue
  <2> QED
    BY <1>1, <2>1, <2>2
<1>5. CASE Crash
  BY <1>1, <1>5 DEF Crash, api
<1>6. ASSUME staleCr => staleCr', staleDs => staleDs', dirty => dirty',
             delayed => delayed', pc' = pc
      PROVE  FALSE
  BY <1>1, <1>6 DEF Watched
<1>7. CASE Sync
  <2>1. CASE SyncCr \/ SyncDs \/ DelayOver
    BY <1>1, <2>1 DEF SyncCr, SyncDs, DelayOver
  <2>2. CASE SyncConfig \/ SyncPods
    BY <1>6, <2>2 DEF SyncConfig, SyncPods, queue, worker, Stales
  <2> QED
    BY <1>7, <2>1, <2>2 DEF Sync
<1>8. CASE Resync
  BY <1>6, <1>8 DEF Resync, cache, worker
<1>9. CASE Users
  BY <1>6, <1>9, UsersTold DEF Told, queue
<1>10. CASE Cluster
  BY <1>6, <1>10, ClusterTold DEF Told, queue
<1>11. CASE UNCHANGED vars
  BY <1>6, <1>11 DEF vars, cache, queue, worker
<1> QED
  BY <1>3, <1>4, <1>5, <1>7, <1>8, <1>9, <1>10, <1>11 DEF Next

(* The other steps do not touch it, as long as nobody watches. *)
LEMMA NothingTouched ==
  ASSUME TypeOK, [Next]_vars, ~Watched' PROVE cr' = cr /\ ds' = ds
<1>1. ~staleCr' /\ ~staleDs' /\ pc' = "idle"
  BY DEF Watched
<1>2. CASE Users \/ Cluster
  BY <1>1, <1>2, UsersTold, ClusterTold DEF Told
<1>3. CASE Fetch \/ EnsureAgentService \/ EnsureSecret
  BY <1>3 DEF Fetch, EnsureAgentService, EnsureSecret, api
<1>4. CASE EnsureNetVizConfig \/ EnsureLogConfig \/ EnsureMaConfig \/ EnsureSSLConfig
  BY <1>4 DEF EnsureNetVizConfig, EnsureLogConfig, EnsureMaConfig, EnsureSSLConfig
<1>5. CASE CreateDaemonSet
  <2>1. cr' = cr /\ (PutDs(want) \/ UNCHANGED ds)
    BY <1>5 DEF CreateDaemonSet
  <2> QED
    BY <1>1, <2>1 DEF PutDs
<1>6. CASE UpdateDaemonSet \/ RestartPod \/ RespecDaemonSet
  <2>1. cr' = cr /\ (PutDs([want EXCEPT !.ready = ds.ready]) \/ UNCHANGED ds)
    BY <1>6 DEF UpdateDaemonSet, RestartPod, RespecDaemonSet
  <2> QED
    BY <1>1, <2>1 DEF PutDs
<1>7. CASE UpdateCr \/ UpdateStatus
  BY <1>1, <1>7 DEF UpdateCr, UpdateStatus, PutCr
<1>8. CASE CallFails \/ Crash \/ Resync
  BY <1>8 DEF CallFails, Crash, Resync, api
<1>9. CASE Sync
  BY <1>9 DEF Sync, SyncCr, SyncDs, SyncConfig, SyncPods, DelayOver, api
<1>10. CASE UNCHANGED vars
  BY <1>10 DEF vars, api
<1> QED
  BY <1>2, <1>3, <1>4, <1>5, <1>6, <1>7, <1>8, <1>9, <1>10 DEF Next, Reconcile

(* ma-config is written by a reconcile that goes on, or is put off. *)
LEMMA ConfigUntouched ==
  ASSUME [Next]_vars, ~Watched', pc \in {"idle", "update", "status"} PROVE cm' = cm
<1>1. pc' = "idle"
  BY DEF Watched
<1>2. CASE Users \/ Cluster
  BY <1>2, UsersTold, ClusterTold
<1>3. CASE Fetch
  BY <1>3 DEF Fetch, api
<1>4. CASE Reconcile /\ ~Fetch
  BY <1>4 DEF Reconcile, EnsureAgentService, EnsureSecret, CreateDaemonSet,
              EnsureNetVizConfig, EnsureLogConfig, EnsureMaConfig, EnsureSSLConfig,
              UpdateDaemonSet, RestartPod, RespecDaemonSet, UpdateCr, UpdateStatus
<1>5. CASE CallFails \/ Crash \/ Resync
  BY <1>5 DEF CallFails, Crash, Resync, api
<1>6. CASE Sync
  BY <1>6 DEF Sync, SyncCr, SyncDs, SyncConfig, SyncPods, DelayOver, api
<1>7. CASE UNCHANGED vars
  BY <1>7 DEF vars, api
<1> QED
  BY <1>2, <1>3, <1>4, <1>5, <1>6, <1>7 DEF Next

LEMMA AttendedStep ==
  ASSUME TypeOK, CopyCurrent, MaConfigWritten, Forgotten, EditsAttended, [Next]_vars
  PROVE  EditsAttended'
<1> SUFFICES ASSUME cr' # None, ~Watched' PROVE Handled'
  BY DEF EditsAttended, Handled
<1>1. cr' = cr /\ ds' = ds
  BY NothingTouched
<1>2. ASSUME Handled, cm' = cm PROVE Handled'
  BY <1>1, <1>2 DEF Handled
<1>3. CASE ~Watched
  <2>1. Handled
    BY <1>1, <1>3 DEF EditsAttended, Handled
  <2>2. cm' = cm
    BY <1>3, ConfigUntouched DEF Watched
  <2> QED
    BY <1>2, <2>1, <2>2
<1>4. CASE Watched
  <2>1. pc \in {"update", "status"} /\ ~staleCr /\ ~staleDs /\ ~dirty
    BY <1>4, StopsWatching
  <2>2. cm' = cm
    BY <2>1, ConfigUntouched
  <2>3. Handled
    BY <2>1, HandledNow
  <2> QED
    BY <1>2, <2>2, <2>3
<1> QED
  BY <1>3, <1>4

(* An InfraViz nobody is about to look at is as its user wants it, whatever*)
(* fails: no request, event or error that matters is dropped.              *)
THEOREM NoEditForgotten == Spec => []EditsAttended
<1>1. Init => /\ CopyCurrent /\ MaConfigWritten /\ GensGiven /\ Forgotten
              /\ EditsAttended
  BY DEF Init, CopyCurrent, MaConfigWritten, PastConfig, GensGiven, Forgotten,
         CopiesWatched, NothingLeft, EditsAttended
<1>2. TypeOK /\ CopyCurrent /\ [Next]_vars => CopyCurrent'
  BY CopyReconcile, CopyOthers
<1>3. TypeOK /\ CopyCurrent /\ GensGiven /\ [Next]_vars => GensGiven'
  BY CopyReconcile, CopyOthers, GensStep
<1>4. TypeOK /\ CopyCurrent /\ GensGiven /\ Forgotten /\ [Next]_vars => Forgotten'
  BY ForgottenReconcile, ForgottenUsers, ForgottenOthers
<1>5. TypeOK /\ CopyCurrent /\ MaConfigWritten /\ Forgotten /\ EditsAttended
        /\ [Next]_vars => EditsAttended'
  BY AttendedStep
<1> QED
  BY <1>1, <1>2, <1>3, <1>4, <1>5, MaConfigStep, TypeCorrect, PTL DEF Spec
=============================================================================
