-------------------------- MODULE ClusterAgentProofs --------------------------
(***************************************************************************)
(* Safety of ClusterAgent, for every set of resources, specs and bounds.   *)
(***************************************************************************)
EXTENDS ClusterAgent, TLAPS

-----------------------------------------------------------------------------
(* What the helpers of the actions do to the types.                        *)

(* A reconcile that ends leaves an idle worker. *)
LEMMA StopOK == ASSUME Stop PROVE WorkerOK'
  BY DEF Stop, WorkerOK, Steps

(* ... and a queue that lost nothing, *)
LEMMA DoneOK == ASSUME QueueOK, Done PROVE WorkerOK' /\ QueueOK'
  BY StopOK DEF Done, QueueOK, queue

(* ... or that holds the key for later. *)
LEMMA RequeueOK == ASSUME QueueOK, key \in Agents, Requeue
                   PROVE  WorkerOK' /\ QueueOK'
  BY StopOK DEF Requeue, QueueOK

(* A reconcile that goes on keeps its key and a copy of the CR. *)
LEMMA GotoOK ==
  ASSUME QueueOK, WorkerOK, pc \notin {"idle", "gone"},
         NEW step \in Steps \ {"idle", "gone"}, Goto(step),
         step \in {"image", "annotate"} => exd # None,
         ca' \in CrValues, UNCHANGED outdated
  PROVE  WorkerOK' /\ QueueOK'
  BY DEF Goto, WorkerOK, QueueOK, queue

(* Writes put values of the right type in place. *)
LEMMA PutCrOK ==
  ASSUME ApiOK, CacheOK, NEW a \in Agents, NEW v \in CrValues \cup {None},
         PutCr(a, v)
  PROVE  cr' \in [Agents -> CrValues \cup {None}] /\ staleCr' \subseteq Agents
  BY DEF PutCr, ApiOK, CacheOK

LEMMA PutDepOK ==
  ASSUME ApiOK, CacheOK, NEW a \in Agents, NEW v \in DepValues \cup {None},
         PutDep(a, v)
  PROVE  dep' \in [Agents -> DepValues \cup {None}] /\ staleDep' \subseteq Agents
  BY DEF PutDep, ApiOK, CacheOK

LEMMA PutCmOK ==
  ASSUME ApiOK, CacheOK, NEW n \in CmNames, NEW v \in CmValues \cup {None},
         PutCm(n, v)
  PROVE  cm' \in [CmNames -> CmValues \cup {None}] /\ staleCm' \subseteq CmNames
  BY DEF PutCm, ApiOK, CacheOK

LEMMA RenderedOK ==
  ASSUME NEW n \in CmNames, NEW v \in CrValues PROVE Rendered(n, v) \in CmValues
  BY DEF Rendered, CmValues, CrValues

LEMMA DefaultsOK ==
  ASSUME NEW v \in CrValues
  PROVE  WithConfDefaults(v) \in CrValues /\ WithImageDefault(v) \in CrValues
  BY DEF WithConfDefaults, WithImageDefault, CrValues, Confs, Images

(* Writing a ConfigMap either succeeds and goes on, or comes back later. *)
LEMMA WriteCmOK ==
  ASSUME TypeOK, pc \notin {"idle", "gone"},
         NEW n \in CmNames, NEW v \in CrValues, NEW next \in Steps \ {"idle", "gone"},
         next \in {"image", "annotate"} => exd # None,
         WriteCm(n, v, next)
  PROVE  /\ WorkerOK' /\ QueueOK'
         /\ cm' \in [CmNames -> CmValues \cup {None}] /\ staleCm' \subseteq CmNames
<1> USE DEF TypeOK
<1>1. CASE CmAccepted(n)
  <2>1. PutCm(n, Rendered(n, v)) /\ Goto(next) /\ ca' = v /\ UNCHANGED outdated
    BY <1>1 DEF WriteCm
  <2>2. WorkerOK' /\ QueueOK'
    BY <2>1, GotoOK
  <2> QED
    BY <2>1, <2>2, PutCmOK, RenderedOK
<1>2. CASE ~CmAccepted(n)
  <2>1. Requeue /\ UNCHANGED <<cm, staleCm>>
    BY <1>2 DEF WriteCm
  <2>2. key \in Agents
    BY DEF WorkerOK
  <2> QED
    BY <2>1, <2>2, RequeueOK DEF ApiOK, CacheOK
<1> QED
  BY <1>1, <1>2

(* Pods only change their flag with their Deployment. *)
LEMMA OrphanPodsOK ==
  ASSUME ApiOK, NEW a \in Agents, OrphanPods(a)
  PROVE  pods' \in [PodIds -> PodValues \cup {None}]
<1>1. ASSUME NEW p \in PodIds, pods[p] # None
      PROVE  [pods[p] EXCEPT !.orphan = TRUE] \in PodValues
  BY <1>1 DEF ApiOK, PodValues
<1> QED
  BY <1>1 DEF ApiOK, OrphanPods

LEMMA PodLabelsOK == ASSUME ApiOK PROVE PodLabels \in [PodIds -> Agents \cup {None}]
  BY DEF ApiOK, PodLabels, PodValues

LEMMA TerminatingOK ==
  ASSUME ApiOK, NEW p \in PodIds, pods[p] # None
  PROVE  [pods EXCEPT ![p].terminating = TRUE] \in [PodIds -> PodValues \cup {None}]
<1>1. [pods[p] EXCEPT !.terminating = TRUE] \in PodValues
  BY DEF ApiOK, PodValues
<1> QED
  BY <1>1 DEF ApiOK

LEMMA OutdateOK ==
  ASSUME WorkerOK, NEW a \in Agents, NEW c \in {"ca", "exd"}, Outdate(a, c),
         UNCHANGED <<pc, key, ca, exd>>
  PROVE  WorkerOK'
  BY DEF WorkerOK, Outdate

-----------------------------------------------------------------------------
(* Type correctness.                                                       *)

(* Initially every object is absent and the worker is idle. *)
LEMMA TypeInit == Init => TypeOK
  BY BoundsAssumption DEF Init, TypeOK, ApiOK, CacheOK, QueueOK, WorkerOK,
                          CountersOK, Steps, Keys, Gens

(* Every step of a reconcile keeps the types: it finds the copies it needs *)
(* and writes whole values.                                                *)
LEMMA TypeReconcile == TypeOK /\ Reconcile => TypeOK'
<1> SUFFICES ASSUME TypeOK, Reconcile PROVE TypeOK'
  OBVIOUS
<1> USE NoneAssumption DEF TypeOK
<1>0. pc # "idle" => key \in Agents
  BY DEF WorkerOK
<1>1. CASE CleanUp
  <2>1. WorkerOK' /\ QueueOK'
    <3>1. CASE pc = "gone"
      BY <1>1, <3>1, DoneOK DEF CleanUp
    <3>2. CASE pc = "cleanup"
      <4>1. Goto("secret") /\ UNCHANGED <<ca, outdated>> /\ ca \in CrValues
        BY <1>1, <3>2 DEF CleanUp, WorkerOK
      <4> QED
        BY <3>2, <4>1, GotoOK DEF Steps
    <3> QED
      BY <1>1, <3>1, <3>2 DEF CleanUp
  <2>2. cm' \in [CmNames -> CmValues \cup {None}] /\ staleCm' \subseteq CmNames
    <3>1. PutCm("config", None) \/ UNCHANGED <<cm, staleCm>>
      BY <1>1 DEF CleanUp
    <3> QED
      BY <3>1, PutCmOK DEF CmNames, ApiOK, CacheOK
  <2> QED
    BY <1>1, <2>1, <2>2 DEF CleanUp, ApiOK, CacheOK, CountersOK, Others, seen, ghost
<1>2. CASE EnsureSecret
  <2>1. ca \in CrValues /\ key \in Agents /\ pc = "secret"
    BY <1>2 DEF EnsureSecret, WorkerOK
  <2>2. WorkerOK' /\ QueueOK'
    <3>1. CASE Requeue
      BY <2>1, <3>1, RequeueOK
    <3>2. CASE Goto("mon") /\ UNCHANGED <<ca, outdated>>
      BY <2>1, <3>2, GotoOK DEF Steps
    <3>3. CASE Goto("reload") /\ UNCHANGED <<ca, outdated>>
      BY <2>1, <3>3, GotoOK DEF Steps
    <3> QED
      BY <1>2, <3>1, <3>2, <3>3 DEF EnsureSecret
  <2>3. secret' \in Keys \cup {None}
    BY <1>2, BoundsAssumption DEF EnsureSecret, ApiOK, Keys
  <2> QED
    BY <1>2, <2>2, <2>3 DEF EnsureSecret, ApiOK, CacheOK, CountersOK, cache, seen, ghost
<1>3. CASE ReloadSecret
  <2>1. ca \in CrValues /\ key \in Agents /\ pc = "reload"
    BY <1>3 DEF ReloadSecret, WorkerOK
  <2>2. WorkerOK' /\ QueueOK'
    <3>1. CASE Requeue
      BY <2>1, <3>1, RequeueOK
    <3>2. CASE Goto("mon") /\ UNCHANGED <<ca, outdated>>
      BY <2>1, <3>2, GotoOK DEF Steps
    <3> QED
      BY <1>3, <3>1, <3>2 DEF ReloadSecret
  <2> QED
    BY <1>3, <2>2 DEF ReloadSecret, ApiOK, CacheOK, CountersOK, api, cache, seen, ghost
<1>4. CASE EnsureAgentMonConfig
  <2>1. pc = "mon" /\ WithConfDefaults(ca) \in CrValues
    BY <1>4, DefaultsOK DEF EnsureAgentMonConfig, WorkerOK
  <2>2. WriteCm("mon", WithConfDefaults(ca), "config")
    BY <1>4 DEF EnsureAgentMonConfig
  <2>3. /\ WorkerOK' /\ QueueOK'
        /\ cm' \in [CmNames -> CmValues \cup {None}] /\ staleCm' \subseteq CmNames
    BY <2>1, <2>2, WriteCmOK DEF CmNames, Steps
  <2> QED
    BY <1>4, <2>3 DEF EnsureAgentMonConfig, ApiOK, CacheOK, CountersOK, Others,
                      seen, ghost
<1>5. CASE EnsureAgentConfig
  <2>1. pc = "config" /\ key \in Agents /\ ca \in CrValues
    BY <1>5 DEF EnsureAgentConfig, WorkerOK
  <2>2. /\ WorkerOK' /\ QueueOK'
        /\ cm' \in [CmNames -> CmValues \cup {None}] /\ staleCm' \subseteq CmNames
    <3>1. CASE ca.url \in InvalidUrls
      BY <1>5, <2>1, <3>1, RequeueOK DEF EnsureAgentConfig, ApiOK, CacheOK
    <3>2. CASE ca.url \notin InvalidUrls
      <4>1. WriteCm("config", ca, "log")
        BY <1>5, <3>2 DEF EnsureAgentConfig
      <4> QED
        BY <2>1, <4>1, WriteCmOK DEF CmNames, Steps
    <3> QED
      BY <3>1, <3>2
  <2>3. cfgGen' \in Gens
    BY <1>5, <2>1 DEF EnsureAgentConfig, CrValues, CountersOK
  <2> QED
    BY <1>5, <2>2, <2>3 DEF EnsureAgentConfig, ApiOK, CacheOK, CountersOK, Others, seen
<1>6. CASE EnsureLogConfig
  <2>1. pc = "log" /\ ca \in CrValues
    BY <1>6 DEF EnsureLogConfig, WorkerOK
  <2>2. /\ AfterConfig \in Steps \ {"idle", "gone"}
        /\ AfterConfig \in {"image", "annotate"} => exd # None
    BY DEF AfterConfig, Steps
  <2>3. WriteCm("log", ca, AfterConfig)
    BY <1>6 DEF EnsureLogConfig
  <2>4. /\ WorkerOK' /\ QueueOK'
        /\ cm' \in [CmNames -> CmValues \cup {None}] /\ staleCm' \subseteq CmNames
    BY <2>1, <2>2, <2>3, WriteCmOK DEF CmNames
  <2> QED
    BY <1>6, <2>4 DEF EnsureLogConfig, ApiOK, CacheOK, CountersOK, Others, seen, ghost
<1>7. CASE CreateDeployment
  <2> DEFINE v == WithImageDefault(ca)
             d == [image |-> v.image, annoGen |-> v.gen, annoUrl |-> v.url,
                   owner |-> v.uid, ready |-> FALSE]
  <2>1. pc = "create" /\ key \in Agents /\ v \in CrValues
    BY <1>7, DefaultsOK DEF CreateDeployment, WorkerOK
  <2>2. d \in DepValues
    BY <2>1 DEF CrValues, DepValues
  <2>3. CASE dep[key] # None
    <3>1. Requeue /\ UNCHANGED <<dep, staleDep>>
      BY <1>7, <2>3 DEF CreateDeployment
    <3> QED
      BY <1>7, <2>1, <3>1, RequeueOK DEF CreateDeployment, ApiOK, CacheOK,
                                       CountersOK, Others, seen, ghost
  <2>4. CASE dep[key] = None
    <3>1. PutDep(key, d) /\ Goto("update") /\ ca' = v /\ UNCHANGED outdated
      BY <1>7, <2>4 DEF CreateDeployment
    <3>2. WorkerOK' /\ QueueOK'
      BY <2>1, <3>1, GotoOK DEF Steps
    <3>3. dep' \in [Agents -> DepValues \cup {None}] /\ staleDep' \subseteq Agents
      BY <2>1, <2>2, <3>1, PutDepOK
    <3> QED
      BY <1>7, <3>2, <3>3 DEF CreateDeployment, ApiOK, CacheOK, CountersOK,
                              Others, seen, ghost
  <2> QED
    BY <2>3, <2>4
<1>8. CASE UpdateImage
  <2>1. pc = "image" /\ key \in Agents /\ ca \in CrValues /\ exd \in DepValues
    BY <1>8 DEF UpdateImage, WorkerOK
  <2>2. [exd EXCEPT !.image = ca.image] \in DepValues
    BY <2>1 DEF CrValues, DepValues
  <2>3. dep' \in [Agents -> DepValues \cup {None}] /\ staleDep' \subseteq Agents
    BY <1>8, <2>1, <2>2, PutDepOK DEF UpdateImage, ApiOK, CacheOK
  <2>4. WorkerOK' /\ QueueOK'
    BY <1>8, <2>1, RequeueOK DEF UpdateImage
  <2> QED
    BY <1>8, <2>3, <2>4 DEF UpdateImage, ApiOK, CacheOK, CountersOK, Others, seen, ghost
<1>9. CASE SaveAnnotation
  <2>1. pc = "annotate" /\ key \in Agents /\ ca \in CrValues /\ exd \in DepValues
    BY <1>9 DEF SaveAnnotation, WorkerOK
  <2>2. [exd EXCEPT !.annoGen = ca.gen, !.annoUrl = ca.url] \in DepValues
    BY <2>1 DEF CrValues, DepValues
  <2>3. dep' \in [Agents -> DepValues \cup {None}] /\ staleDep' \subseteq Agents
    BY <1>9, <2>1, <2>2, PutDepOK DEF SaveAnnotation, ApiOK, CacheOK
  <2>4. WorkerOK' /\ QueueOK'
    <3>1. CASE Requeue
      BY <2>1, <3>1, RequeueOK
    <3>2. CASE Goto("restart") /\ UNCHANGED <<ca, outdated>>
      BY <2>1, <3>2, GotoOK DEF Steps
    <3> QED
      BY <1>9, <3>1, <3>2 DEF SaveAnnotation
  <2> QED
    BY <1>9, <2>3, <2>4 DEF SaveAnnotation, ApiOK, CacheOK, CountersOK, Others,
                            seen, ghost
<1>10. CASE RestartAgent
  <2>1. key \in Agents /\ ca \in CrValues
    BY <1>10 DEF RestartAgent, WorkerOK
  <2>2. WorkerOK' /\ QueueOK'
    BY <1>10, <2>1, RequeueOK DEF RestartAgent
  <2>3. pods' \in [PodIds -> PodValues \cup {None}]
    BY <1>10, TerminatingOK DEF RestartAgent, ListedPods, ApiOK
  <2>4. restarted' \in [Agents -> Gens]
    BY <1>10, <2>1 DEF RestartAgent, CountersOK, CrValues
  <2> QED
    BY <1>10, <2>2, <2>3, <2>4 DEF RestartAgent, ApiOK, CacheOK, CountersOK, cache, seen
<1>11. CASE UpdateCr
  <2>1. pc = "update" /\ key \in Agents /\ ca \in CrValues
    BY <1>11 DEF UpdateCr, WorkerOK
  <2>2. CASE "ca" \notin outdated
    <3>1. PutCr(key, ca) /\ Goto("status") /\ UNCHANGED <<ca, outdated>>
      BY <1>11, <2>2 DEF UpdateCr
    <3>2. WorkerOK' /\ QueueOK'
      BY <2>1, <3>1, GotoOK DEF Steps
    <3>3. cr' \in [Agents -> CrValues \cup {None}] /\ staleCr' \subseteq Agents
      BY <2>1, <3>1, PutCrOK
    <3> QED
      BY <1>11, <3>2, <3>3 DEF UpdateCr, ApiOK, CacheOK, CountersOK, Others, seen, ghost
  <2>3. CASE "ca" \in outdated
    <3>1. Done /\ UNCHANGED <<cr, staleCr>>
      BY <1>11, <2>3 DEF UpdateCr
    <3> QED
      BY <1>11, <3>1, DoneOK DEF UpdateCr, ApiOK, CacheOK, CountersOK, Others, seen, ghost
  <2> QED
    BY <2>2, <2>3
<1>12. CASE UpdateStatus
  <2>1. key \in Agents /\ ca \in CrValues /\ Done
    BY <1>12 DEF UpdateStatus, WorkerOK
  <2>2. [ca EXCEPT !.stamped = TRUE] \in CrValues
    BY <2>1 DEF CrValues
  <2>3. cr' \in [Agents -> CrValues \cup {None}] /\ staleCr' \subseteq Agents
    BY <1>12, <2>1, <2>2, PutCrOK DEF UpdateStatus, ApiOK, CacheOK
  <2> QED
    BY <1>12, <2>1, <2>3, DoneOK DEF UpdateStatus, ApiOK, CacheOK, CountersOK,
                                   Others, seen, ghost
<1> QED
  BY <1>1, <1>2, <1>3, <1>4, <1>5, <1>6, <1>7, <1>8, <1>9, <1>10, <1>11, <1>12
     DEF Reconcile

(* Taking a key, failures, caches and timers keep the types. *)
LEMMA TypeOperator ==
  TypeOK /\ (\/ \E a \in Agents : Fetch(a) \/ DelayOver(a)
             \/ Sync \/ CallFails \/ Crash \/ Resync) => TypeOK'
<1> SUFFICES ASSUME TypeOK,
                    \/ \E a \in Agents : Fetch(a) \/ DelayOver(a)
                    \/ Sync \/ CallFails \/ Crash \/ Resync
             PROVE  TypeOK'
  OBVIOUS
<1> USE NoneAssumption DEF TypeOK
<1>1. ASSUME NEW a \in Agents, Fetch(a) PROVE TypeOK'
  <2>1. WorkerOK'
    <3>1. seenCr[a] \in CrValues \cup {None} /\ seenDep[a] \in DepValues \cup {None}
      BY DEF CacheOK
    <3>2. pc = "idle" /\ ca = None
      BY <1>1 DEF Fetch, WorkerOK
    <3> QED
      BY <1>1, <3>1, <3>2 DEF Fetch, WorkerOK, Steps
  <2> QED
    BY <1>1, <2>1 DEF Fetch, ApiOK, CacheOK, CountersOK, QueueOK, api, cache, seen, ghost
<1>2. ASSUME NEW a \in Agents, DelayOver(a) PROVE TypeOK'
  BY <1>2 DEF DelayOver, ApiOK, CacheOK, QueueOK, WorkerOK, CountersOK, api,
              cache, seen, worker, ghost
<1>3. CASE SyncCr
  BY <1>3 DEF SyncCr, ApiOK, CacheOK, QueueOK, WorkerOK, CountersOK, api, worker, ghost
<1>4. CASE SyncDep
  BY <1>4 DEF SyncDep, ApiOK, CacheOK, QueueOK, WorkerOK, CountersOK, api, worker, ghost
<1>5. CASE SyncCm
  BY <1>5 DEF SyncCm, ApiOK, CacheOK, QueueOK, WorkerOK, CountersOK, api, queue,
              worker, ghost
<1>6. CASE SyncSecret
  BY <1>6 DEF SyncSecret, ApiOK, CacheOK, QueueOK, WorkerOK, CountersOK, api,
              queue, worker, ghost
<1>7. CASE SyncPods
  BY <1>7, PodLabelsOK DEF SyncPods, ApiOK, CacheOK, QueueOK, WorkerOK,
                           CountersOK, api, queue, worker, ghost
<1>8. CASE CallFails
  <2>1. WorkerOK' /\ QueueOK'
    <3>1. pc # "idle" /\ key \in Agents
      BY <1>8 DEF CallFails, WorkerOK
    <3>2. CASE pc = "cleanup"
      <4>1. Goto("secret") /\ UNCHANGED <<ca, outdated>> /\ ca \in CrValues
        BY <1>8, <3>2 DEF CallFails, WorkerOK
      <4> QED
        BY <3>2, <4>1, GotoOK DEF Steps
    <3>3. CASE Done
      BY <3>3, DoneOK
    <3>4. CASE Requeue
      BY <3>1, <3>4, RequeueOK
    <3> QED
      BY <1>8, <3>2, <3>3, <3>4 DEF CallFails
  <2> QED
    BY <1>8, <2>1, BoundsAssumption
       DEF CallFails, ApiOK, CacheOK, CountersOK, api, cache, seen, ghost
<1>9. CASE Crash
  <2>1. WorkerOK'
    BY <1>9, StopOK DEF Crash
  <2>2. CacheOK'
    BY <1>9, PodLabelsOK DEF Crash, ApiOK, CacheOK
  <2>3. QueueOK'
    BY <1>9 DEF Crash, QueueOK
  <2> QED
    BY <1>9, <2>1, <2>2, <2>3, BoundsAssumption
       DEF Crash, ApiOK, CountersOK, api, ghost
<1>10. CASE Resync
  BY <1>10, BoundsAssumption DEF Resync, ApiOK, CacheOK, QueueOK, WorkerOK,
                                 CountersOK, api, cache, seen, worker, ghost
<1> QED
  BY <1>1, <1>2, <1>3, <1>4, <1>5, <1>6, <1>7, <1>8, <1>9, <1>10 DEF Sync

(* Users and the cluster keep the types. *)
LEMMA TypeEnvironment == TypeOK /\ (Users \/ Cluster) => TypeOK'
<1> SUFFICES ASSUME TypeOK, Users \/ Cluster PROVE TypeOK'
  OBVIOUS
<1> USE NoneAssumption, BoundsAssumption DEF TypeOK
<1>1. ASSUME NEW a \in Agents, CreateCr(a) PROVE TypeOK'
  <2>1. PICK s \in UserSpecs :
          PutCr(a, [gen |-> edits', uid |-> edits', url |-> s.url,
                    image |-> s.image, conf |-> s.conf, stamped |-> FALSE])
    BY <1>1 DEF CreateCr
  <2>2. edits' \in Gens
    BY <1>1 DEF CreateCr, CountersOK, Gens
  <2>3. [gen |-> edits', uid |-> edits', url |-> s.url, image |-> s.image,
         conf |-> s.conf, stamped |-> FALSE] \in CrValues
    BY <2>2 DEF CrValues, Urls, Images, Confs
  <2>4. cr' \in [Agents -> CrValues \cup {None}] /\ staleCr' \subseteq Agents
    BY <2>1, <2>3, PutCrOK
  <2>5. WorkerOK'
    BY <1>1, OutdateOK DEF CreateCr
  <2> QED
    BY <1>1, <2>2, <2>4, <2>5 DEF CreateCr, ApiOK, CacheOK, QueueOK, CountersOK,
                                  Gens, seen, queue, ghost
<1>2. ASSUME NEW a \in Agents, EditCr(a) PROVE TypeOK'
  <2>1. PICK s \in UserSpecs :
          PutCr(a, [cr[a] EXCEPT !.gen = edits', !.url = s.url,
                                 !.image = s.image, !.conf = s.conf])
    BY <1>2 DEF EditCr
  <2>2. edits' \in Gens /\ cr[a] \in CrValues
    BY <1>2 DEF EditCr, CountersOK, ApiOK, Gens
  <2>3. [cr[a] EXCEPT !.gen = edits', !.url = s.url, !.image = s.image,
                      !.conf = s.conf] \in CrValues
    BY <2>2 DEF CrValues, Urls, Images, Confs
  <2>4. cr' \in [Agents -> CrValues \cup {None}] /\ staleCr' \subseteq Agents
    BY <2>1, <2>3, PutCrOK
  <2>5. WorkerOK'
    BY <1>2, OutdateOK DEF EditCr
  <2> QED
    BY <1>2, <2>2, <2>4, <2>5 DEF EditCr, ApiOK, CacheOK, QueueOK, CountersOK,
                                  Gens, seen, queue, ghost
<1>3. ASSUME NEW a \in Agents, DeleteCr(a) PROVE TypeOK'
  <2>1. cr' \in [Agents -> CrValues \cup {None}] /\ staleCr' \subseteq Agents
    BY <1>3, PutCrOK DEF DeleteCr
  <2>2. WorkerOK'
    BY <1>3, OutdateOK DEF DeleteCr
  <2> QED
    BY <1>3, <2>1, <2>2 DEF DeleteCr, ApiOK, CacheOK, QueueOK, CountersOK, seen,
                            queue, ghost
<1>4. ASSUME NEW a \in Agents, DeleteDeployment(a) PROVE TypeOK'
  <2>1. dep' \in [Agents -> DepValues \cup {None}] /\ staleDep' \subseteq Agents
    BY <1>4, PutDepOK DEF DeleteDeployment
  <2>2. WorkerOK' /\ pods' \in [PodIds -> PodValues \cup {None}]
    BY <1>4, OutdateOK, OrphanPodsOK DEF DeleteDeployment
  <2> QED
    BY <1>4, <2>1, <2>2 DEF DeleteDeployment, ApiOK, CacheOK, QueueOK,
                            CountersOK, seen, queue, ghost
<1>5. CASE SetSecret
  BY <1>5 DEF SetSecret, ApiOK, CacheOK, QueueOK, WorkerOK, CountersOK, cache,
              seen, queue, worker, ghost
<1>6. ASSUME NEW a \in Agents, CollectGarbage(a) PROVE TypeOK'
  <2>1. dep' \in [Agents -> DepValues \cup {None}] /\ staleDep' \subseteq Agents
    BY <1>6, PutDepOK DEF CollectGarbage
  <2>2. WorkerOK' /\ pods' \in [PodIds -> PodValues \cup {None}]
    BY <1>6, OutdateOK, OrphanPodsOK DEF CollectGarbage
  <2> QED
    BY <1>6, <2>1, <2>2 DEF CollectGarbage, ApiOK, CacheOK, QueueOK, CountersOK,
                            seen, queue, ghost
<1>7. ASSUME NEW a \in Agents, DeploymentStatus(a) PROVE TypeOK'
  <2> DEFINE ready == \E p \in PodIds : Running(p, a)
             d == [dep[a] EXCEPT !.ready = ready]
  <2>1. dep[a] \in DepValues /\ PutDep(a, d)
    BY <1>7 DEF DeploymentStatus, ApiOK
  <2>2. ready \in BOOLEAN
    OBVIOUS
  <2>3. d \in DepValues
    <3> HIDE DEF ready
    <3> QED
      BY <2>1, <2>2 DEF DepValues
  <2>4. dep' \in [Agents -> DepValues \cup {None}] /\ staleDep' \subseteq Agents
    <3> HIDE DEF d
    <3> QED
      BY <2>1, <2>3, PutDepOK
  <2>5. WorkerOK'
    BY <1>7, OutdateOK DEF DeploymentStatus
  <2> QED
    BY <1>7, <2>4, <2>5 DEF DeploymentStatus, ApiOK, CacheOK, QueueOK,
                            CountersOK, seen, queue, ghost
<1>8. ASSUME NEW p \in PodIds, NEW a \in Agents, SpawnPod(p, a) PROVE TypeOK'
  <2>1. [of |-> a, image |-> dep[a].image, env |-> None, terminating |-> FALSE,
         orphan |-> FALSE] \in PodValues
    BY <1>8 DEF SpawnPod, ApiOK, DepValues, PodValues
  <2>2. pods' \in [PodIds -> PodValues \cup {None}]
    BY <1>8, <2>1 DEF SpawnPod, ApiOK
  <2> QED
    BY <1>8, <2>2 DEF SpawnPod, ApiOK, CacheOK, QueueOK, WorkerOK, CountersOK,
                      cache, seen, queue, worker, ghost
<1>9. ASSUME NEW p \in PodIds, StartPod(p) PROVE TypeOK'
  <2> DEFINE env == [url |-> cm["config"].url, conf |-> cm["config"].conf,
                     secretKey |-> secret]
  <2>1. env \in [url : Urls \cup {None}, conf : Confs, secretKey : Keys]
    BY <1>9 DEF StartPod, ApiOK, CmNames, CmValues
  <2>2. [pods[p] EXCEPT !.env = env] \in PodValues
    <3> HIDE DEF env
    <3> QED
      BY <1>9, <2>1 DEF StartPod, ApiOK, PodValues
  <2>3. pods' \in [PodIds -> PodValues \cup {None}]
    BY <1>9, <2>2 DEF StartPod, ApiOK
  <2> QED
    BY <1>9, <2>3 DEF StartPod, ApiOK, CacheOK, QueueOK, WorkerOK, CountersOK,
                      cache, seen, queue, worker, ghost
<1>10. ASSUME NEW p \in PodIds, RetirePod(p) PROVE TypeOK'
  <2>1. pods' \in [PodIds -> PodValues \cup {None}]
    BY <1>10, TerminatingOK DEF RetirePod
  <2> QED
    BY <1>10, <2>1 DEF RetirePod, ApiOK, CacheOK, QueueOK, WorkerOK, CountersOK,
                       cache, seen, queue, worker, ghost
<1>11. ASSUME NEW p \in PodIds, RemovePod(p) PROVE TypeOK'
  BY <1>11 DEF RemovePod, ApiOK, CacheOK, QueueOK, WorkerOK, CountersOK, cache,
               seen, queue, worker, ghost
<1> QED
  BY <1>1, <1>2, <1>3, <1>4, <1>5, <1>6, <1>7, <1>8, <1>9, <1>10, <1>11
     DEF Users, Cluster

(* Whoever steps, every variable keeps its type. *)
LEMMA TypeNext == TypeOK /\ [Next]_vars => TypeOK'
<1>1. TypeOK /\ UNCHANGED vars => TypeOK'
  BY DEF TypeOK, ApiOK, CacheOK, QueueOK, WorkerOK, CountersOK, vars, api, cache,
         seen, queue, worker, ghost
<1> QED
  BY <1>1, TypeReconcile, TypeOperator, TypeEnvironment DEF Next, Operator

(* Every reachable state is well typed: no step of Reconcile dereferences  *)
(* a copy of the CR or of the Deployment it does not have, whatever was    *)
(* deleted, recreated or retried in between.                               *)
THEOREM TypeCorrect == Spec => []TypeOK
<1> QED
  BY TypeInit, TypeNext, PTL DEF Spec


-----------------------------------------------------------------------------
(* The ConfigMaps a reconcile leaves behind.                               *)

(* A step of the worker that goes on has written what it was to write. *)
LEMMA ConfigReconcile == TypeOK /\ ConfigSoFar /\ Reconcile => ConfigSoFar'
<1> SUFFICES ASSUME TypeOK, ConfigSoFar, Reconcile PROVE ConfigSoFar'
  OBVIOUS
<1>1. Stop => ConfigSoFar'
  BY DEF Stop, ConfigSoFar, PastConfig
<1>2. ASSUME NEW n \in CmNames, NEW v, NEW next, WriteCm(n, v, next)
      PROVE  \/ Stop
             \/ /\ pc' = next /\ ca' = v
                /\ cm' = [cm EXCEPT ![n] = Rendered(n, v)]
  BY <1>2 DEF WriteCm, PutCm, Goto, Requeue, TypeOK, ApiOK
<1>3. CASE CleanUp
  BY <1>1, <1>3 DEF CleanUp, Done, Goto, ConfigSoFar, PastConfig
<1>4. CASE EnsureSecret
  BY <1>1, <1>4 DEF EnsureSecret, Requeue, Goto, ConfigSoFar, PastConfig
<1>5. CASE ReloadSecret
  BY <1>1, <1>5 DEF ReloadSecret, Requeue, Goto, ConfigSoFar, PastConfig
<1>6. CASE EnsureAgentMonConfig
  <2>1. WriteCm("mon", WithConfDefaults(ca), "config")
    BY <1>6 DEF EnsureAgentMonConfig
  <2> QED
    BY <1>1, <1>2, <2>1 DEF ConfigSoFar, PastConfig, CmNames, TypeOK, ApiOK
<1>7. CASE EnsureAgentConfig
  <2>1. pc = "config" /\ (Stop \/ WriteCm("config", ca, "log"))
    BY <1>7 DEF EnsureAgentConfig, Requeue
  <2> QED
    BY <1>1, <1>2, <2>1 DEF ConfigSoFar, PastConfig, CmNames, TypeOK, ApiOK
<1>8. CASE EnsureLogConfig
  <2>1. pc = "log" /\ WriteCm("log", ca, AfterConfig)
    BY <1>8 DEF EnsureLogConfig
  <2>2. AfterConfig \in PastConfig
    BY DEF AfterConfig, PastConfig
  <2> QED
    BY <1>1, <1>2, <2>1, <2>2 DEF ConfigSoFar, PastConfig, CmNames, TypeOK, ApiOK
<1>9. CASE CreateDeployment
  <2>1. pc = "create" /\ UNCHANGED cm
        /\ (Stop \/ (pc' = "update" /\ ca' = WithImageDefault(ca)))
    BY <1>9 DEF CreateDeployment, Requeue, Goto
  <2>2. ca \in CrValues
    BY <2>1 DEF TypeOK, WorkerOK
  <2>3. \A n : Rendered(n, WithImageDefault(ca)) = Rendered(n, ca)
    BY <2>2 DEF Rendered, WithImageDefault, CrValues
  <2> QED
    BY <1>1, <2>1, <2>3 DEF ConfigSoFar, PastConfig
<1>10. CASE UpdateImage
  BY <1>1, <1>10 DEF UpdateImage, Requeue
<1>11. CASE SaveAnnotation
  <2>1. pc = "annotate" /\ UNCHANGED cm
        /\ (Stop \/ (pc' = "restart" /\ UNCHANGED ca))
    BY <1>11 DEF SaveAnnotation, Requeue, Goto
  <2> QED
    BY <1>1, <2>1 DEF ConfigSoFar, PastConfig, Rendered
<1>12. CASE RestartAgent
  BY <1>1, <1>12 DEF RestartAgent, Requeue
<1>13. CASE UpdateCr
  <2>1. pc = "update" /\ UNCHANGED cm
        /\ (Stop \/ (pc' = "status" /\ UNCHANGED ca))
    BY <1>13 DEF UpdateCr, Done, Goto
  <2> QED
    BY <1>1, <2>1 DEF ConfigSoFar, PastConfig, Rendered
<1>14. CASE UpdateStatus
  BY <1>1, <1>14 DEF UpdateStatus, Done
<1> QED
  BY <1>3, <1>4, <1>5, <1>6, <1>7, <1>8, <1>9, <1>10, <1>11, <1>12, <1>13, <1>14
     DEF Reconcile

(* Nobody else writes ConfigMaps or moves a busy worker, except to stop it.*)
LEMMA ConfigOthers == ConfigSoFar /\ [Next]_vars /\ ~Reconcile => ConfigSoFar'
<1> SUFFICES ASSUME ConfigSoFar, [Next]_vars, ~Reconcile PROVE ConfigSoFar'
  OBVIOUS
<1>1. UNCHANGED <<cm, pc, ca>> => ConfigSoFar'
  BY DEF ConfigSoFar, Rendered
<1>2. pc' \in {"idle", "gone", "secret"} => ConfigSoFar'
  BY DEF ConfigSoFar, PastConfig
<1>3. CASE \E a \in Agents : Fetch(a)
  BY <1>2, <1>3 DEF Fetch, ConfigSoFar, PastConfig
<1>4. CASE CallFails
  BY <1>2, <1>4 DEF CallFails, Goto, Done, Requeue, Stop
<1>5. CASE Crash
  BY <1>2, <1>5 DEF Crash, Stop
<1>6. CASE Sync \/ Resync \/ \E a \in Agents : DelayOver(a)
  BY <1>1, <1>6 DEF Sync, SyncCr, SyncDep, SyncCm, SyncSecret, SyncPods, Resync,
                    DelayOver, api, worker
<1>7. CASE Users
  BY <1>1, <1>7 DEF Users, SetSecret, CreateCr, EditCr, DeleteCr,
                    DeleteDeployment, worker
<1>8. CASE Cluster
  BY <1>1, <1>8 DEF Cluster, CollectGarbage, DeploymentStatus, SpawnPod,
                    StartPod, RetirePod, RemovePod, worker
<1>9. CASE UNCHANGED vars
  BY <1>1, <1>9 DEF vars, api, worker
<1> QED
  BY <1>3, <1>4, <1>5, <1>6, <1>7, <1>8, <1>9 DEF Next, Operator

LEMMA ConfigStaysSoFar == Spec => []ConfigSoFar
<1>1. Init => ConfigSoFar
  BY DEF Init, ConfigSoFar, PastConfig
<1>2. TypeOK /\ ConfigSoFar /\ [Next]_vars => ConfigSoFar'
  BY ConfigReconcile, ConfigOthers
<1> QED
  BY <1>1, <1>2, TypeCorrect, PTL DEF Spec

(* When a reconcile creates, updates or restarts anything, the ConfigMaps  *)
(* hold what its copy of the CR renders to, for any number of CRs that     *)
(* share them.                                                             *)
THEOREM ConfigIsInstalled == Spec => []ConfigInstalled
<1>1. ConfigSoFar => ConfigInstalled
  BY DEF ConfigSoFar, ConfigInstalled, CmNames
<1> QED
  BY <1>1, ConfigStaysSoFar, PTL

-----------------------------------------------------------------------------
(* What users wrote stays.                                                 *)

(* A CR is the same as itself, and stays so when its copy takes defaults. *)
LEMMA SameRefl == ASSUME NEW v PROVE SameOrDefault(v, v)
  BY DEF SameOrDefault

LEMMA SameWithDefaults ==
  ASSUME NEW old \in CrValues, NEW new \in CrValues, SameOrDefault(old, new)
  PROVE  /\ SameOrDefault(old, WithConfDefaults(new))
         /\ SameOrDefault(old, WithImageDefault(new))
         /\ WithConfDefaults(new).gen = new.gen
         /\ WithImageDefault(new).gen = new.gen
  BY DEF SameOrDefault, WithConfDefaults, WithImageDefault, CrValues

(* What a write of v leaves of the copies: the entry of the cache is stale *)
(* unless nothing changed.                                                 *)
LEMMA PutCrCopies ==
  ASSUME TypeOK, CopiesCurrent, NEW a \in Agents, NEW v, PutCr(a, v),
         UNCHANGED seenCr
  PROVE  /\ cr' = [cr EXCEPT ![a] = v]
         /\ \A b \in Agents \ staleCr' : seenCr'[b] = cr'[b]
  BY DEF PutCr, CopiesCurrent, TypeOK, ApiOK, CacheOK

(* A reconcile only ever writes a copy that is current. *)
LEMMA CopiesReconcile ==
  TypeOK /\ CopiesCurrent /\ Reconcile => CopiesCurrent' /\ EditsKept
<1> SUFFICES ASSUME TypeOK, CopiesCurrent, Reconcile
             PROVE  CopiesCurrent' /\ EditsKept
  OBVIOUS
<1> USE NoneAssumption
<1>1. ASSUME UNCHANGED <<cr, seenCr, staleCr, key, outdated>>, ca # None,
             \/ UNCHANGED ca
             \/ ca \in CrValues /\ ca' = WithConfDefaults(ca)
             \/ ca \in CrValues /\ ca' = WithImageDefault(ca)
      PROVE  CopiesCurrent' /\ EditsKept
  <2>1. EditsKept
    BY <1>1, SameRefl DEF EditsKept
  <2>2. ASSUME "ca" \notin outdated
        PROVE  cr[key] # None /\ ca'.gen = cr[key].gen /\ SameOrDefault(cr[key], ca')
    <3>1. cr[key] # None /\ ca.gen = cr[key].gen /\ SameOrDefault(cr[key], ca)
      BY <1>1, <2>2 DEF CopiesCurrent
    <3>2. key \in Agents
      BY <1>1 DEF TypeOK, WorkerOK
    <3>3. cr[key] \in CrValues
      BY <3>1, <3>2 DEF TypeOK, ApiOK
    <3>4. CASE UNCHANGED ca
      BY <3>1, <3>4
    <3>5. CASE ca \in CrValues /\ ca' = WithConfDefaults(ca)
      BY <3>1, <3>3, <3>5, SameWithDefaults
    <3>6. CASE ca \in CrValues /\ ca' = WithImageDefault(ca)
      BY <3>1, <3>3, <3>6, SameWithDefaults
    <3> QED
      BY <1>1, <3>4, <3>5, <3>6
  <2> QED
    BY <1>1, <2>1, <2>2 DEF CopiesCurrent
<1>2. ASSUME UNCHANGED <<cr, seenCr, staleCr>>, Stop
      PROVE  CopiesCurrent' /\ EditsKept
  BY <1>2, SameRefl DEF CopiesCurrent, EditsKept, Stop
<1>3. ASSUME NEW n \in CmNames, NEW v, NEW next, WriteCm(n, v, next)
      PROVE  Stop \/ (ca' = v /\ UNCHANGED <<key, outdated>>)
  BY <1>3 DEF WriteCm, Goto, Requeue
<1>4. CASE CleanUp
  <2>1. UNCHANGED <<cr, seenCr, staleCr>>
        /\ (Stop \/ (ca # None /\ UNCHANGED <<ca, key, outdated>>))
    BY <1>4 DEF CleanUp, Done, Goto, Others, seen, TypeOK, WorkerOK
  <2> QED
    BY <1>1, <1>2, <2>1
<1>5. CASE EnsureSecret
  <2>1. UNCHANGED <<cr, seenCr, staleCr>>
        /\ (Stop \/ (ca # None /\ UNCHANGED <<ca, key, outdated>>))
    BY <1>5 DEF EnsureSecret, Requeue, Goto, cache, seen, TypeOK, WorkerOK
  <2> QED
    BY <1>1, <1>2, <2>1
<1>6. CASE ReloadSecret
  <2>1. UNCHANGED <<cr, seenCr, staleCr>>
        /\ (Stop \/ (ca # None /\ UNCHANGED <<ca, key, outdated>>))
    BY <1>6 DEF ReloadSecret, Requeue, Goto, api, cache, seen, TypeOK, WorkerOK
  <2> QED
    BY <1>1, <1>2, <2>1
<1>7. CASE EnsureAgentMonConfig
  <2>1. UNCHANGED <<cr, seenCr, staleCr>> /\ ca \in CrValues
        /\ WriteCm("mon", WithConfDefaults(ca), "config")
    BY <1>7 DEF EnsureAgentMonConfig, Others, seen, TypeOK, WorkerOK
  <2> QED
    BY <1>1, <1>2, <1>3, <2>1 DEF CmNames
<1>8. CASE EnsureAgentConfig
  <2>1. UNCHANGED <<cr, seenCr, staleCr>> /\ ca # None
        /\ (Stop \/ WriteCm("config", ca, "log"))
    BY <1>8 DEF EnsureAgentConfig, Requeue, Others, seen, TypeOK, WorkerOK
  <2> QED
    BY <1>1, <1>2, <1>3, <2>1 DEF CmNames
<1>9. CASE EnsureLogConfig
  <2>1. UNCHANGED <<cr, seenCr, staleCr>> /\ ca # None
        /\ WriteCm("log", ca, AfterConfig)
    BY <1>9 DEF EnsureLogConfig, Others, seen, TypeOK, WorkerOK
  <2> QED
    BY <1>1, <1>2, <1>3, <2>1 DEF CmNames
<1>10. CASE CreateDeployment
  <2>1. UNCHANGED <<cr, seenCr, staleCr>> /\ ca \in CrValues
        /\ (Stop \/ (ca' = WithImageDefault(ca) /\ UNCHANGED <<key, outdated>>))
    BY <1>10 DEF CreateDeployment, Requeue, Goto, Others, seen, TypeOK, WorkerOK
  <2> QED
    BY <1>1, <1>2, <2>1
<1>11. CASE UpdateImage
  BY <1>2, <1>11 DEF UpdateImage, Requeue, Others, seen
<1>12. CASE SaveAnnotation
  <2>1. UNCHANGED <<cr, seenCr, staleCr>>
        /\ (Stop \/ (ca # None /\ UNCHANGED <<ca, key, outdated>>))
    BY <1>12 DEF SaveAnnotation, Requeue, Goto, Others, seen, TypeOK, WorkerOK
  <2> QED
    BY <1>1, <1>2, <2>1
<1>13. CASE RestartAgent
  BY <1>2, <1>13 DEF RestartAgent, Requeue, cache, seen
<1>14. CASE UpdateCr
  <2>1. pc = "update" /\ key \in Agents /\ ca \in CrValues
    BY <1>14 DEF UpdateCr, TypeOK, WorkerOK
  <2>2. CASE "ca" \notin outdated
    <3>1. PutCr(key, ca) /\ UNCHANGED <<ca, key, outdated, seenCr>>
      BY <1>14, <2>2 DEF UpdateCr, Goto, Others, seen
    <3>2. ca.gen = cr[key].gen /\ SameOrDefault(cr[key], ca)
      BY <2>1, <2>2 DEF CopiesCurrent
    <3>3. /\ cr' = [cr EXCEPT ![key] = ca]
          /\ \A b \in Agents \ staleCr' : seenCr'[b] = cr'[b]
      BY <2>1, <3>1, PutCrCopies
    <3>4. cr'[key] = ca /\ \A b \in Agents \ {key} : cr'[b] = cr[b]
      BY <2>1, <3>3 DEF TypeOK, ApiOK
    <3>5. CopiesCurrent'
      BY <2>1, <3>1, <3>3, <3>4, SameRefl DEF CopiesCurrent
    <3>6. EditsKept
      BY <3>2, <3>4, SameRefl DEF EditsKept
    <3> QED
      BY <3>5, <3>6
  <2>3. CASE "ca" \in outdated
    BY <1>2, <1>14, <2>3 DEF UpdateCr, Done, Others, seen
  <2> QED
    BY <2>2, <2>3
<1>15. CASE UpdateStatus
  <2>1. key \in Agents /\ ca \in CrValues /\ Stop /\ UNCHANGED seenCr
    BY <1>15 DEF UpdateStatus, Done, Others, seen, TypeOK, WorkerOK
  <2>2. CASE "ca" \notin outdated
    <3> DEFINE v == [ca EXCEPT !.stamped = TRUE]
    <3>1. PutCr(key, v)
      BY <1>15, <2>2 DEF UpdateStatus
    <3>2. ca.gen = cr[key].gen /\ SameOrDefault(cr[key], ca)
      BY <2>1, <2>2 DEF CopiesCurrent
    <3>3. v.gen = cr[key].gen /\ SameOrDefault(cr[key], v)
      BY <2>1, <3>2 DEF SameOrDefault, CrValues
    <3>4. /\ cr' = [cr EXCEPT ![key] = v]
          /\ \A b \in Agents \ staleCr' : seenCr'[b] = cr'[b]
      BY <2>1, <3>1, PutCrCopies
    <3>5. cr'[key] = v /\ \A b \in Agents \ {key} : cr'[b] = cr[b]
      BY <2>1, <3>4 DEF TypeOK, ApiOK
    <3>6. CopiesCurrent'
      BY <2>1, <3>4 DEF CopiesCurrent, Stop
    <3>7. EditsKept
      BY <3>3, <3>5, SameRefl DEF EditsKept
    <3> QED
      BY <3>6, <3>7
  <2>3. CASE "ca" \in outdated
    BY <1>2, <1>15, <2>1, <2>3 DEF UpdateStatus
  <2> QED
    BY <2>2, <2>3
<1> QED
  BY <1>4, <1>5, <1>6, <1>7, <1>8, <1>9, <1>10, <1>11, <1>12, <1>13, <1>14, <1>15
     DEF Reconcile

(* A user's write outdates the worker's copy and gets a new number. *)
LEMMA CopiesUsers == TypeOK /\ CopiesCurrent /\ Users => CopiesCurrent' /\ EditsKept
<1> SUFFICES ASSUME TypeOK, CopiesCurrent, Users PROVE CopiesCurrent' /\ EditsKept
  OBVIOUS
<1>1. UNCHANGED <<cr, seenCr, staleCr, key, ca>> /\ outdated \subseteq outdated'
      => CopiesCurrent' /\ EditsKept
  BY SameRefl DEF CopiesCurrent, EditsKept
<1>2. ASSUME NEW a \in Agents, NEW v, PutCr(a, v), Outdate(a, "ca"),
             UNCHANGED <<seenCr, key, ca>>,
             cr[a] = None \/ v = None \/ (v.gen = edits' /\ edits' > edits)
      PROVE  CopiesCurrent' /\ EditsKept
  <2>1. /\ cr' = [cr EXCEPT ![a] = v]
        /\ \A b \in Agents \ staleCr' : seenCr'[b] = cr'[b]
    BY <1>2, PutCrCopies
  <2>2. cr'[a] = v /\ \A b \in Agents \ {a} : cr'[b] = cr[b]
    BY <2>1 DEF TypeOK, ApiOK
  <2>3. EditsKept
    BY <1>2, <2>2, SameRefl DEF EditsKept
  <2>4. ASSUME ca' # None, "ca" \notin outdated'
        PROVE  /\ cr'[key'] # None /\ ca'.gen = cr'[key'].gen
               /\ SameOrDefault(cr'[key'], ca')
    <3>1. key # a /\ key \in Agents /\ "ca" \notin outdated /\ ca # None
      BY <1>2, <2>4 DEF Outdate, TypeOK, WorkerOK
    <3> QED
      BY <1>2, <2>2, <3>1 DEF CopiesCurrent
  <2> QED
    BY <2>1, <2>3, <2>4 DEF CopiesCurrent
<1>3. ASSUME NEW a \in Agents, CreateCr(a) PROVE CopiesCurrent' /\ EditsKept
  BY <1>2, <1>3 DEF CreateCr, seen
<1>4. ASSUME NEW a \in Agents, EditCr(a) PROVE CopiesCurrent' /\ EditsKept
  <2>1. PICK s \in UserSpecs :
          PutCr(a, [cr[a] EXCEPT !.gen = edits', !.url = s.url,
                                 !.image = s.image, !.conf = s.conf])
    BY <1>4 DEF EditCr
  <2>2. cr[a] \in CrValues /\ edits' > edits
    BY <1>4, BoundsAssumption DEF EditCr, TypeOK, ApiOK, CountersOK
  <2>3. [cr[a] EXCEPT !.gen = edits', !.url = s.url, !.image = s.image,
                      !.conf = s.conf].gen = edits'
    BY <2>2 DEF CrValues
  <2> QED
    BY <1>2, <1>4, <2>1, <2>2, <2>3 DEF EditCr, seen
<1>5. ASSUME NEW a \in Agents, DeleteCr(a) PROVE CopiesCurrent' /\ EditsKept
  BY <1>2, <1>5 DEF DeleteCr, seen
<1>6. ASSUME NEW a \in Agents, DeleteDeployment(a)
      PROVE  CopiesCurrent' /\ EditsKept
  BY <1>1, <1>6 DEF DeleteDeployment, Outdate, seen
<1>7. CASE SetSecret
  BY <1>1, <1>7 DEF SetSecret, cache, seen, worker
<1> QED
  BY <1>3, <1>4, <1>5, <1>6, <1>7 DEF Users

(* Everybody else leaves the CRs alone. *)
LEMMA CopiesOthers ==
  TypeOK /\ CopiesCurrent /\ [Next]_vars /\ ~Reconcile /\ ~Users
    => CopiesCurrent' /\ EditsKept
<1> SUFFICES ASSUME TypeOK, CopiesCurrent, [Next]_vars, ~Reconcile, ~Users
             PROVE  CopiesCurrent' /\ EditsKept
  OBVIOUS
<1>1. UNCHANGED cr => EditsKept
  BY SameRefl DEF EditsKept
<1>2. UNCHANGED <<cr, seenCr, staleCr, key, ca>> /\ outdated \subseteq outdated'
      => CopiesCurrent'
  BY DEF CopiesCurrent
<1>3. ASSUME UNCHANGED cr, seenCr' = cr, UNCHANGED <<ca, outdated, key>> \/ Stop
      PROVE  CopiesCurrent'
  BY <1>3 DEF CopiesCurrent, Stop
<1>4. ASSUME UNCHANGED <<cr, seenCr, staleCr>>, Stop PROVE CopiesCurrent'
  BY <1>4 DEF CopiesCurrent, Stop
<1>5. ASSUME NEW a \in Agents, Fetch(a) PROVE CopiesCurrent' /\ EditsKept
  <2>1. UNCHANGED <<cr, seenCr, staleCr>> /\ key' = a
    BY <1>5 DEF Fetch, api, cache, seen
  <2>2. CASE seenCr[a] = None
    <3>1. ca' = None
      BY <1>5, <2>2 DEF Fetch, TypeOK, WorkerOK
    <3> QED
      BY <1>1, <2>1, <3>1 DEF CopiesCurrent
  <2>3. CASE seenCr[a] # None
    <3>1. ca' = seenCr[a] /\ ("ca" \notin outdated' => a \notin staleCr)
      BY <1>5, <2>3 DEF Fetch
    <3>2. "ca" \notin outdated' => ca' = cr[a]
      BY <3>1 DEF CopiesCurrent
    <3> QED
      BY <1>1, <2>1, <2>3, <3>1, <3>2, SameRefl DEF CopiesCurrent
  <2> QED
    BY <2>2, <2>3
<1>6. CASE CallFails
  BY <1>1, <1>2, <1>4, <1>6 DEF CallFails, Goto, Done, Requeue, api, cache, seen
<1>7. CASE Crash
  BY <1>1, <1>3, <1>7 DEF Crash, api
<1>8. CASE SyncCr
  BY <1>1, <1>3, <1>8 DEF SyncCr, api, worker
<1>9. CASE SyncDep \/ SyncCm \/ SyncSecret \/ SyncPods \/ Resync
           \/ \E a \in Agents : DelayOver(a)
  BY <1>1, <1>2, <1>9 DEF SyncDep, SyncCm, SyncSecret, SyncPods, Resync,
                          DelayOver, api, cache, seen, worker
<1>10. CASE Cluster
  BY <1>1, <1>2, <1>10 DEF Cluster, CollectGarbage, DeploymentStatus, SpawnPod,
             StartPod, RetirePod, RemovePod, Outdate, cache, seen, worker
<1>11. CASE UNCHANGED vars
  BY <1>1, <1>2, <1>11 DEF vars, api, cache, seen, worker
<1> QED
  BY <1>5, <1>6, <1>7, <1>8, <1>9, <1>10, <1>11 DEF Next, Operator, Sync

(* The operator never takes an edit back, however old its copy of the CR   *)
(* is and whatever happened to the CR since it was read.                   *)
THEOREM EditsSurvive == Spec => UserEditsSurvive
<1>1. Init => CopiesCurrent
  BY DEF Init, CopiesCurrent
<1>2. TypeOK /\ CopiesCurrent /\ [Next]_vars => CopiesCurrent' /\ [EditsKept]_vars
  BY CopiesReconcile, CopiesUsers, CopiesOthers
<1> QED
  BY <1>1, <1>2, TypeCorrect, PTL DEF Spec, UserEditsSurvive

-----------------------------------------------------------------------------
(* No edit is forgotten.                                                   *)

(* A write of a Deployment: either nothing changed or its copy is stale. *)
LEMMA PutDepStale ==
  ASSUME TypeOK, CopiesWatched, NEW a \in Agents, NEW v, PutDep(a, v),
         UNCHANGED seenDep
  PROVE  /\ \A b \in Agents \ {a} : dep'[b] = dep[b]
         /\ dep'[a] = v /\ staleDep \subseteq staleDep'
         /\ a \in staleDep' \/ UNCHANGED <<dep, staleDep>>
         /\ \A b \in Agents \ staleDep' : seenDep'[b] = dep'[b]
  BY DEF PutDep, CopiesWatched, TypeOK, ApiOK, CacheOK

LEMMA PutCrApart ==
  ASSUME TypeOK, NEW a \in Agents, NEW v, PutCr(a, v)
  PROVE  /\ \A b \in Agents \ {a} : cr'[b] = cr[b]
         /\ cr'[a] = v /\ staleCr \subseteq staleCr'
         /\ a \in staleCr' \/ UNCHANGED <<cr, staleCr>>
         /\ cr[a] # v => a \in staleCr'
  BY DEF PutCr, TypeOK, ApiOK, CacheOK

(* A reconcile that ends keeps no copies, *)
LEMMA WatchedStop ==
  ASSUME Stop, \A a \in Agents \ staleDep' : seenDep'[a] = dep'[a]
  PROVE  CopiesWatched' /\ NothingLeft'
  BY DEF Stop, CopiesWatched, NothingLeft, PastConfig

(* ... and one that goes on writes no Deployment but its own. *)
LEMMA WatchedGoto ==
  ASSUME TypeOK, CopiesWatched, pc \notin {"idle", "gone"},
         UNCHANGED <<key, exd, outdated, dirty, seenDep>>,
         staleCr \subseteq staleCr', pc' \notin {"idle", "gone"},
         NEW v, PutDep(key, v) \/ UNCHANGED <<dep, staleDep>>
  PROVE  CopiesWatched'
<1>1. key \in Agents
  BY DEF TypeOK, WorkerOK
<1>2. CASE PutDep(key, v)
  BY <1>1, <1>2, PutDepStale DEF CopiesWatched
<1>3. CASE UNCHANGED <<dep, staleDep>>
  BY <1>3 DEF CopiesWatched
<1> QED
  BY <1>2, <1>3

(* Defaults that were applied are not applied again. *)
LEMMA DefaultsSettle ==
  ASSUME NEW v \in CrValues
  PROVE  /\ WithConfDefaults(WithConfDefaults(v)) = WithConfDefaults(v)
         /\ WithConfDefaults(v) = v =>
              WithConfDefaults(WithImageDefault(v)) = WithImageDefault(v)
         /\ WithConfDefaults([v EXCEPT !.stamped = TRUE])
              = [WithConfDefaults(v) EXCEPT !.stamped = TRUE]
         /\ WithImageDefault(v).url = v.url
  BY DEF WithConfDefaults, WithImageDefault, CrValues

(* A reconcile works with copies it will be called back for. *)
LEMMA WatchedReconcile ==
  ASSUME TypeOK, CopiesWatched, NothingLeft, Reconcile
  PROVE  CopiesWatched' /\ NothingLeft'
<1> USE NoneAssumption
<1>0. \A a \in Agents \ staleDep : seenDep[a] = dep[a]
  BY DEF CopiesWatched
<1>1. ASSUME Stop, UNCHANGED <<dep, seenDep, staleDep>>
      PROVE  CopiesWatched' /\ NothingLeft'
  BY <1>0, <1>1, WatchedStop
<1>2. ASSUME NEW step \in Steps \ {"idle", "gone"}, Goto(step),
             pc \notin {"idle", "gone"}, UNCHANGED <<outdated, seenDep>>,
             staleCr \subseteq staleCr',
             NEW v, PutDep(key, v) \/ UNCHANGED <<dep, staleDep>>
      PROVE  CopiesWatched'
  BY <1>2, WatchedGoto DEF Goto, queue
<1>3. pc \notin {"idle", "gone"} => ca \in CrValues /\ key \in Agents
  BY DEF TypeOK, WorkerOK
<1>4. CASE CleanUp \/ EnsureSecret \/ ReloadSecret
  <2>1. /\ UNCHANGED <<dep, seenDep, staleDep, staleCr>>
        /\ \/ Stop
           \/ \E step \in {"secret", "mon", "reload"} :
                Goto(step) /\ UNCHANGED outdated /\ pc \notin {"idle", "gone"}
    BY <1>4 DEF CleanUp, EnsureSecret, ReloadSecret, Done, Requeue, Others, api,
                cache, seen
  <2>2. CASE Stop
    BY <1>1, <2>1, <2>2
  <2>3. ASSUME NEW step \in {"secret", "mon", "reload"}, Goto(step),
               UNCHANGED outdated, pc \notin {"idle", "gone"}
        PROVE  CopiesWatched' /\ NothingLeft'
    <3>1. CopiesWatched'
      BY <1>2, <2>1, <2>3 DEF Steps
    <3> QED
      BY <2>3, <3>1 DEF Goto, NothingLeft, PastConfig
  <2> QED
    BY <2>1, <2>2, <2>3
<1>5. ASSUME NEW n, NEW v, NEW next \in Steps \ {"idle", "gone"}, WriteCm(n, v, next),
             pc \notin {"idle", "gone"}, UNCHANGED <<dep, seenDep, staleDep, staleCr>>
      PROVE  \/ CopiesWatched' /\ NothingLeft'
             \/ /\ CopiesWatched' /\ pc' = next /\ ca' = v
                /\ UNCHANGED <<key, exd, dirty, staleDep>>
  <2>1. CASE CmAccepted(n)
    <3>1. Goto(next) /\ ca' = v /\ UNCHANGED outdated
      BY <1>5, <2>1 DEF WriteCm
    <3> QED
      BY <1>2, <1>5, <3>1 DEF Goto, queue
  <2>2. CASE ~CmAccepted(n)
    BY <1>1, <1>5, <2>2 DEF WriteCm, Requeue
  <2> QED
    BY <2>1, <2>2
<1>6. CASE EnsureAgentMonConfig
  <2>1. /\ WriteCm("mon", WithConfDefaults(ca), "config") /\ pc = "mon"
        /\ UNCHANGED <<dep, seenDep, staleDep, staleCr>>
    BY <1>6 DEF EnsureAgentMonConfig, Others, seen
  <2>2. \/ CopiesWatched' /\ NothingLeft'
        \/ CopiesWatched' /\ pc' = "config" /\ ca' = WithConfDefaults(ca)
    BY <1>5, <2>1 DEF Steps
  <2> QED
    BY <1>3, <2>1, <2>2, DefaultsSettle DEF NothingLeft, PastConfig
<1>7. CASE EnsureAgentConfig
  <2>1. pc = "config" /\ UNCHANGED <<dep, seenDep, staleDep, staleCr>>
    BY <1>7 DEF EnsureAgentConfig, Others, seen
  <2>2. CASE ca.url \in InvalidUrls
    BY <1>1, <1>7, <2>1, <2>2 DEF EnsureAgentConfig, Requeue
  <2>3. CASE ca.url \notin InvalidUrls
    <3>1. WriteCm("config", ca, "log")
      BY <1>7, <2>3 DEF EnsureAgentConfig
    <3>2. \/ CopiesWatched' /\ NothingLeft'
          \/ CopiesWatched' /\ pc' = "log" /\ ca' = ca
      BY <1>5, <2>1, <3>1 DEF Steps
    <3> QED
      BY <2>1, <2>3, <3>2 DEF NothingLeft, PastConfig
  <2> QED
    BY <2>2, <2>3
<1>8. CASE EnsureLogConfig
  <2>1. /\ WriteCm("log", ca, AfterConfig) /\ pc = "log"
        /\ UNCHANGED <<dep, seenDep, staleDep, staleCr>>
    BY <1>8 DEF EnsureLogConfig, Others, seen
  <2>2. AfterConfig \in {"create", "image", "annotate", "update"}
    BY DEF AfterConfig
  <2>3. \/ CopiesWatched' /\ NothingLeft'
        \/ /\ CopiesWatched' /\ pc' = AfterConfig /\ ca' = ca
           /\ UNCHANGED <<key, exd, dirty, staleDep>>
    BY <1>5, <2>1, <2>2 DEF Steps
  <2>4. AfterConfig = "update" => exd # None /\ ~ImageChanged /\ ~AddressChanged
    BY DEF AfterConfig
  <2> QED
    BY <2>1, <2>2, <2>3, <2>4 DEF NothingLeft, PastConfig, ImageChanged, AddressChanged
<1>9. CASE CreateDeployment
  <2> DEFINE v == WithImageDefault(ca)
             d == [image |-> v.image, annoGen |-> v.gen, annoUrl |-> v.url,
                   owner |-> v.uid, ready |-> FALSE]
  <2>1. pc = "create" /\ UNCHANGED <<seenDep, staleCr>> /\ ca \in CrValues /\ key \in Agents
    BY <1>3, <1>9 DEF CreateDeployment, Others, seen
  <2>2. CASE dep[key] # None
    BY <1>1, <1>9, <2>1, <2>2 DEF CreateDeployment, Requeue
  <2>3. CASE dep[key] = None
    <3>1. PutDep(key, d) /\ Goto("update") /\ ca' = v /\ UNCHANGED outdated
      BY <1>9, <2>3 DEF CreateDeployment
    <3>2. d \in DepValues
      BY <2>1, DefaultsOK DEF CrValues, DepValues
    <3>3. key \in staleDep'
      BY <2>1, <2>3, <3>1, <3>2, PutDepStale
    <3>4. CopiesWatched'
      BY <1>2, <2>1, <3>1 DEF Steps
    <3>5. pc' = "update" /\ key' = key
      BY <3>1 DEF Goto
    <3>6. v.url = ca.url /\ WithConfDefaults(v) = v
      BY <2>1, DefaultsSettle DEF NothingLeft, PastConfig
    <3> HIDE DEF v, d
    <3> QED
      BY <2>1, <3>1, <3>3, <3>4, <3>5, <3>6 DEF NothingLeft, PastConfig
  <2> QED
    BY <2>2, <2>3
<1>10. CASE UpdateImage
  <2> DEFINE v == [exd EXCEPT !.image = ca.image]
  <2>1. /\ Stop /\ UNCHANGED seenDep /\ pc = "image"
        /\ PutDep(key, v) \/ UNCHANGED <<dep, staleDep>>
    BY <1>10 DEF UpdateImage, Requeue, Others, seen
  <2> HIDE DEF v
  <2> QED
    BY <1>1, <1>3, <2>1, WatchedStop, PutDepStale
<1>11. CASE SaveAnnotation
  <2> DEFINE v == [exd EXCEPT !.annoGen = ca.gen, !.annoUrl = ca.url]
  <2>1. /\ UNCHANGED <<seenDep, staleCr>> /\ pc = "annotate"
        /\ \/ PutDep(key, v) /\ Goto("restart") /\ UNCHANGED <<ca, outdated>>
           \/ Stop /\ UNCHANGED <<dep, staleDep>>
    BY <1>11 DEF SaveAnnotation, Requeue, Others, seen
  <2> HIDE DEF v
  <2>2. CASE PutDep(key, v) /\ Goto("restart") /\ UNCHANGED <<ca, outdated>>
    <3>1. CopiesWatched'
      BY <1>2, <2>1, <2>2 DEF Steps
    <3> QED
      BY <2>1, <2>2, <3>1 DEF Goto, NothingLeft, PastConfig
  <2>3. CASE Stop /\ UNCHANGED <<dep, staleDep>>
    BY <1>1, <2>1, <2>3
  <2> QED
    BY <2>1, <2>2, <2>3
<1>12. CASE RestartAgent
  BY <1>1, <1>12 DEF RestartAgent, Requeue, cache, seen
<1>13. CASE UpdateCr
  <2>1. pc = "update" /\ UNCHANGED <<dep, seenDep, staleDep>> /\ key \in Agents
    BY <1>3, <1>13 DEF UpdateCr, Others, seen
  <2>2. CASE "ca" \notin outdated
    <3>1. PutCr(key, ca) /\ Goto("status") /\ UNCHANGED <<ca, outdated>>
      BY <1>13, <2>2 DEF UpdateCr
    <3>2. staleCr \subseteq staleCr'
      BY <2>1, <3>1, PutCrApart
    <3>3. CopiesWatched'
      BY <1>2, <2>1, <3>1, <3>2 DEF Steps
    <3> QED
      BY <2>1, <3>1, <3>3 DEF Goto, queue, NothingLeft, PastConfig, ImageChanged,
                              AddressChanged
  <2>3. CASE "ca" \in outdated
    BY <1>1, <1>13, <2>1, <2>3 DEF UpdateCr, Done
  <2> QED
    BY <2>2, <2>3
<1>14. CASE UpdateStatus
  BY <1>1, <1>14 DEF UpdateStatus, Done, Others, seen
<1> QED
  BY <1>4, <1>6, <1>7, <1>8, <1>9, <1>10, <1>11, <1>12, <1>13, <1>14 DEF Reconcile

(* No CR has an edit that is still to come. *)
LEMMA GensStep ==
  ASSUME TypeOK, CopiesCurrent, GensGiven, [Next]_vars
  PROVE  GensGiven'
<1> USE NoneAssumption
<1>0. /\ edits \in Nat
      /\ \A v \in CrValues : v.gen \in Nat
  BY BoundsAssumption DEF TypeOK, CountersOK, CrValues, Gens
<1>1. ASSUME UNCHANGED cr, edits' \in {edits, edits + 1} PROVE GensGiven'
  <2>1. \A a \in Agents : cr[a] # None => cr[a].gen \in Nat
    BY <1>0 DEF TypeOK, ApiOK
  <2> QED
    BY <1>0, <1>1, <2>1 DEF GensGiven
<1>2. ASSUME NEW a \in Agents, NEW v, PutCr(a, v), edits' \in {edits, edits + 1},
             v # None => v.gen \in Nat /\ v.gen <= edits'
      PROVE  GensGiven'
  <2>1. cr'[a] = v /\ \A b \in Agents \ {a} : cr'[b] = cr[b]
    BY <1>2, PutCrApart
  <2>2. \A b \in Agents : cr[b] # None => cr[b].gen \in Nat
    BY <1>0 DEF TypeOK, ApiOK
  <2> QED
    BY <1>0, <1>2, <2>1, <2>2 DEF GensGiven
<1>3. CASE Users
  <2>1. ASSUME NEW a \in Agents, CreateCr(a) PROVE GensGiven'
    BY <1>0, <1>2, <2>1 DEF CreateCr
  <2>2. ASSUME NEW a \in Agents, EditCr(a) PROVE GensGiven'
    <3>1. PICK s \in UserSpecs :
            PutCr(a, [cr[a] EXCEPT !.gen = edits', !.url = s.url,
                                   !.image = s.image, !.conf = s.conf])
      BY <2>2 DEF EditCr
    <3>2. cr[a] \in CrValues /\ edits' = edits + 1
      BY <2>2 DEF EditCr, TypeOK, ApiOK
    <3>3. [cr[a] EXCEPT !.gen = edits', !.url = s.url, !.image = s.image,
                        !.conf = s.conf].gen = edits'
      BY <3>2 DEF CrValues
    <3>4. edits' \in Nat /\ edits' <= edits'
      BY <1>0, <3>2
    <3> DEFINE v == [cr[a] EXCEPT !.gen = edits', !.url = s.url,
                                  !.image = s.image, !.conf = s.conf]
    <3>5. PutCr(a, v) /\ v.gen = edits'
      BY <3>1, <3>3
    <3> HIDE DEF v
    <3> QED
      BY <1>2, <3>2, <3>4, <3>5
  <2>3. ASSUME NEW a \in Agents, DeleteCr(a) PROVE GensGiven'
    BY <1>2, <2>3 DEF DeleteCr
  <2> QED
    BY <1>1, <1>3, <2>1, <2>2, <2>3 DEF Users, SetSecret, DeleteDeployment
<1>4. CASE UpdateCr \/ UpdateStatus
  <2>1. key \in Agents /\ ca \in CrValues /\ UNCHANGED edits
    BY <1>4 DEF UpdateCr, UpdateStatus, Others, TypeOK, WorkerOK
  <2>2. CASE "ca" \notin outdated
    <3>1. ca.gen = cr[key].gen /\ cr[key] # None
      BY <2>1, <2>2 DEF CopiesCurrent
    <3>2. ca.gen \in Nat /\ ca.gen <= edits'
      BY <1>0, <2>1, <3>1 DEF GensGiven
    <3>3. PutCr(key, ca) \/ PutCr(key, [ca EXCEPT !.stamped = TRUE])
      BY <1>4, <2>2 DEF UpdateCr, UpdateStatus
    <3>4. [ca EXCEPT !.stamped = TRUE].gen = ca.gen
      BY <2>1 DEF CrValues
    <3> QED
      BY <1>2, <2>1, <3>2, <3>3, <3>4
  <2>3. CASE "ca" \in outdated
    BY <1>1, <1>4, <2>1, <2>3 DEF UpdateCr, UpdateStatus
  <2> QED
    BY <2>2, <2>3
<1>5. CASE Reconcile /\ ~UpdateCr /\ ~UpdateStatus
  <2>1. CASE CleanUp \/ EnsureSecret \/ ReloadSecret \/ RestartAgent
    BY <1>1, <2>1 DEF CleanUp, EnsureSecret, ReloadSecret, RestartAgent, Others, api
  <2>2. CASE EnsureAgentMonConfig \/ EnsureAgentConfig \/ EnsureLogConfig
    BY <1>1, <2>2 DEF EnsureAgentMonConfig, EnsureAgentConfig, EnsureLogConfig, Others
  <2>3. CASE CreateDeployment \/ UpdateImage \/ SaveAnnotation
    BY <1>1, <2>3 DEF CreateDeployment, UpdateImage, SaveAnnotation, Others
  <2> QED
    BY <1>5, <2>1, <2>2, <2>3 DEF Reconcile
<1>6. CASE Cluster
  BY <1>1, <1>6 DEF Cluster, CollectGarbage, DeploymentStatus, SpawnPod, StartPod,
                    RetirePod, RemovePod
<1>7. CASE \/ \E a \in Agents : Fetch(a) \/ DelayOver(a)
           \/ Sync \/ CallFails \/ Crash \/ Resync \/ UNCHANGED vars
  BY <1>1, <1>7 DEF Fetch, DelayOver, Sync, SyncCr, SyncDep, SyncCm, SyncSecret,
                    SyncPods, CallFails, Crash, Resync, vars, api
<1> QED
  BY <1>3, <1>4, <1>5, <1>6, <1>7 DEF Next, Operator

(* A write by somebody else raises an event. *)
LEMMA WatchedWrites ==
  ASSUME TypeOK, CopiesWatched, NothingLeft, NEW a \in Agents, NEW v,
         UNCHANGED <<pc, key, ca, exd, seenDep, dirty>>,
         \/ PutCr(a, v) /\ cr[a] # v /\ Outdate(a, "ca") /\ UNCHANGED <<dep, staleDep>>
         \/ PutDep(a, v) /\ Outdate(a, "exd") /\ UNCHANGED <<cr, staleCr>>
  PROVE  CopiesWatched' /\ NothingLeft'
<1> USE NoneAssumption
<1>1. pc = "idle" => key = None
  BY DEF TypeOK, WorkerOK
<1>2. CASE PutCr(a, v) /\ cr[a] # v /\ Outdate(a, "ca") /\ UNCHANGED <<dep, staleDep>>
  <2>1. /\ \A b \in Agents \ {a} : cr'[b] = cr[b]
        /\ staleCr \subseteq staleCr' /\ a \in staleCr'
    BY <1>2, PutCrApart
  <2>2. CopiesWatched'
    BY <1>1, <1>2, <2>1 DEF CopiesWatched, Outdate, TypeOK, WorkerOK
  <2> QED
    BY <1>2, <2>2 DEF NothingLeft, ImageChanged, AddressChanged
<1>3. CASE PutDep(a, v) /\ Outdate(a, "exd") /\ UNCHANGED <<cr, staleCr>>
  <2>1. /\ \A b \in Agents \ {a} : dep'[b] = dep[b]
        /\ staleDep \subseteq staleDep'
        /\ a \in staleDep' \/ UNCHANGED <<dep, staleDep>>
        /\ \A b \in Agents \ staleDep' : seenDep'[b] = dep'[b]
    BY <1>3, PutDepStale
  <2>2. exd # None => key \in Agents
    BY DEF CopiesWatched, TypeOK, WorkerOK
  <2>3. CopiesWatched'
    BY <1>1, <1>3, <2>1, <2>2 DEF CopiesWatched, Outdate
  <2> QED
    BY <1>3, <2>1, <2>3 DEF NothingLeft, ImageChanged, AddressChanged
<1> QED
  BY <1>2, <1>3

(* What leaves the objects and their copies alone. *)
LEMMA WatchedKept ==
  ASSUME CopiesWatched, NothingLeft, UNCHANGED <<pc, key, ca, exd, outdated>>,
         UNCHANGED <<cr, dep, seenDep, staleCr, staleDep>>, dirty \subseteq dirty'
  PROVE  CopiesWatched' /\ NothingLeft'
  BY DEF CopiesWatched, NothingLeft, PastConfig, ImageChanged, AddressChanged

(* A user writes one object, and changes it. *)
LEMMA UsersWrite ==
  ASSUME TypeOK, GensGiven, Users
  PROVE  /\ UNCHANGED <<pc, key, ca, exd, seenDep, queue, faults>>
         /\ \/ UNCHANGED <<cr, dep, staleCr, staleDep, outdated>>
            \/ \E a \in Agents : \E v :
                 \/ PutCr(a, v) /\ cr[a] # v /\ Outdate(a, "ca") /\ UNCHANGED <<dep, staleDep>>
                 \/ PutDep(a, v) /\ Outdate(a, "exd") /\ UNCHANGED <<cr, staleCr>>
<1> USE NoneAssumption
<1>1. UNCHANGED <<pc, key, ca, exd, seenDep, queue, faults>>
  BY DEF Users, SetSecret, CreateCr, EditCr, DeleteCr, DeleteDeployment, cache,
         seen, worker
<1> DEFINE Writes ==
      \E a \in Agents : \E v :
        \/ PutCr(a, v) /\ cr[a] # v /\ Outdate(a, "ca") /\ UNCHANGED <<dep, staleDep>>
        \/ PutDep(a, v) /\ Outdate(a, "exd") /\ UNCHANGED <<cr, staleCr>>
<1>2. ASSUME NEW a \in Agents, CreateCr(a) PROVE Writes
  <2>1. PICK s \in UserSpecs :
          PutCr(a, [gen |-> edits', uid |-> edits', url |-> s.url,
                    image |-> s.image, conf |-> s.conf, stamped |-> FALSE])
    BY <1>2 DEF CreateCr
  <2> DEFINE v == [gen |-> edits', uid |-> edits', url |-> s.url,
                   image |-> s.image, conf |-> s.conf, stamped |-> FALSE]
  <2>2. v \in CrValues
    <3>1. edits' \in Gens
      BY <1>2, BoundsAssumption DEF CreateCr, Gens, TypeOK, CountersOK
    <3> QED
      BY <3>1 DEF CrValues, Urls, Images, Confs
  <2>3. PutCr(a, v)
    BY <2>1
  <2> HIDE DEF v
  <2> QED
    BY <1>2, <2>2, <2>3 DEF CreateCr
<1>3. ASSUME NEW a \in Agents, EditCr(a) PROVE Writes
  <2>1. PICK s \in UserSpecs :
          PutCr(a, [cr[a] EXCEPT !.gen = edits', !.url = s.url,
                                 !.image = s.image, !.conf = s.conf])
    BY <1>3 DEF EditCr
  <2> DEFINE v == [cr[a] EXCEPT !.gen = edits', !.url = s.url,
                                !.image = s.image, !.conf = s.conf]
  <2>2. cr[a] \in CrValues
    BY <1>3 DEF EditCr, TypeOK, ApiOK
  <2>3. cr[a] # v
    <3>1. cr[a].gen <= edits /\ edits' = edits + 1 /\ edits \in Nat /\ cr[a].gen \in Nat
      BY <1>3, <2>2, BoundsAssumption
         DEF EditCr, GensGiven, TypeOK, CountersOK, CrValues, Gens
    <3>2. cr[a].gen # edits'
      BY <3>1
    <3> QED
      BY <2>2, <3>2 DEF CrValues
  <2>4. PutCr(a, v)
    BY <2>1
  <2> HIDE DEF v
  <2> QED
    BY <1>3, <2>3, <2>4 DEF EditCr
<1>4. ASSUME NEW a \in Agents, DeleteCr(a) PROVE Writes
  BY <1>4 DEF DeleteCr
<1>5. ASSUME NEW a \in Agents, DeleteDeployment(a) PROVE Writes
  BY <1>5 DEF DeleteDeployment
<1>6. SetSecret => UNCHANGED <<cr, dep, staleCr, staleDep, outdated>>
  BY DEF SetSecret, cache, worker
<1> QED
  BY <1>1, <1>2, <1>3, <1>4, <1>5, <1>6 DEF Users

LEMMA WatchedUsers ==
  ASSUME TypeOK, GensGiven, CopiesWatched, NothingLeft, Users
  PROVE  CopiesWatched' /\ NothingLeft'
  BY UsersWrite, WatchedWrites, WatchedKept DEF queue

(* An event that is delivered leaves its key in the queue. *)
LEMMA WatchedOthers ==
  ASSUME TypeOK, CopiesCurrent, CopiesWatched, NothingLeft,
         [Next]_vars, ~Reconcile, ~Users
  PROVE  CopiesWatched' /\ NothingLeft'
<1> USE NoneAssumption
<1>0. \A a \in Agents \ staleDep : seenDep[a] = dep[a]
  BY DEF CopiesWatched
<1>1. ASSUME NEW a \in Agents, Fetch(a) PROVE CopiesWatched' /\ NothingLeft'
  <2>1. /\ UNCHANGED <<cr, dep, seenDep, staleCr, staleDep>> /\ key' = a
        /\ pc = "idle" /\ outdated = {} /\ exd = None
    BY <1>1 DEF Fetch, api, cache, seen, CopiesWatched
  <2>2. CASE seenCr[a] = None
    <3>1. pc' = "gone" /\ outdated' = {} /\ exd' = None
      BY <1>1, <2>1, <2>2 DEF Fetch
    <3>2. a \notin staleCr => cr[a] = None
      BY <2>2 DEF CopiesCurrent
    <3> QED
      BY <1>0, <2>1, <3>1, <3>2 DEF CopiesWatched, NothingLeft, PastConfig
  <2>3. CASE seenCr[a] # None
    <3>1. /\ pc' \in {"cleanup", "secret"} /\ exd' = seenDep[a]
          /\ "ca" \in outdated' => a \in staleCr
      BY <1>1, <2>3 DEF Fetch
    <3> QED
      BY <1>0, <2>1, <3>1 DEF CopiesWatched, NothingLeft, PastConfig
  <2> QED
    BY <2>2, <2>3
<1>2. CASE CallFails
  <2>1. UNCHANGED <<dep, seenDep, staleDep, staleCr>>
    BY <1>2 DEF CallFails, api, cache, seen
  <2>2. CASE Stop
    BY <1>0, <2>1, <2>2, WatchedStop
  <2>3. CASE Goto("secret") /\ UNCHANGED outdated /\ pc = "cleanup"
    <3>1. CopiesWatched'
      BY <2>1, <2>3, WatchedGoto DEF Goto, queue
    <3> QED
      BY <2>3, <3>1 DEF Goto, NothingLeft, PastConfig
  <2> QED
    BY <1>2, <2>2, <2>3 DEF CallFails, Done, Requeue
<1>3. CASE Crash
  BY <1>3, WatchedStop DEF Crash, api
<1>4. CASE SyncCr
  <2>1. /\ UNCHANGED <<cr, dep, seenDep, staleDep, pc, key, ca, exd, outdated>>
        /\ staleCr' \cup dirty' = staleCr \cup dirty /\ dirty \subseteq dirty'
    BY <1>4 DEF SyncCr, api, worker
  <2>2. CopiesWatched'
    BY <2>1 DEF CopiesWatched
  <2> QED
    BY <2>1, <2>2 DEF NothingLeft, ImageChanged, AddressChanged
<1>5. CASE SyncDep
  <2>1. /\ UNCHANGED <<cr, dep, staleCr, pc, key, ca, exd, outdated>> /\ seenDep' = dep
        /\ staleDep' \cup dirty' = staleDep \cup dirty /\ dirty \subseteq dirty'
    BY <1>5 DEF SyncDep, api, worker
  <2>2. CopiesWatched'
    BY <2>1 DEF CopiesWatched
  <2> QED
    BY <2>1, <2>2 DEF NothingLeft, ImageChanged, AddressChanged
<1>6. CASE SyncCm \/ SyncSecret \/ SyncPods
  BY <1>6, WatchedKept DEF SyncCm, SyncSecret, SyncPods, api, queue, worker
<1>7. CASE Resync \/ \E a \in Agents : DelayOver(a)
  BY <1>7, WatchedKept DEF Resync, DelayOver, api, cache, seen, worker
<1>8. ASSUME NEW a \in Agents, CollectGarbage(a) \/ DeploymentStatus(a)
      PROVE  CopiesWatched' /\ NothingLeft'
  <2>1. /\ UNCHANGED <<pc, key, ca, exd, seenDep, dirty, cr, staleCr>>
        /\ \E v : PutDep(a, v) /\ Outdate(a, "exd")
    BY <1>8 DEF CollectGarbage, DeploymentStatus, seen, queue
  <2> QED
    BY <2>1, WatchedWrites
<1>9. ASSUME NEW p \in PodIds, \/ \E a \in Agents : SpawnPod(p, a)
                               \/ StartPod(p) \/ RetirePod(p) \/ RemovePod(p)
      PROVE  CopiesWatched' /\ NothingLeft'
  BY <1>9, WatchedKept DEF SpawnPod, StartPod, RetirePod, RemovePod, cache, seen,
                           queue, worker
<1>10. CASE UNCHANGED vars
  BY <1>10, WatchedKept DEF vars, api, cache, seen, queue, worker
<1> QED
  BY <1>1, <1>2, <1>3, <1>4, <1>5, <1>6, <1>7, <1>8, <1>9, <1>10
     DEF Next, Operator, Sync, Cluster

(* Whom a step leaves unwatched: a resource without a CR, one that it did  *)
(* not touch, or the one whose reconcile ends in it.                       *)
Untouched(a) == a \notin Watched /\ cr'[a] = cr[a] /\ dep'[a] = dep[a]
Finished(a) ==
  /\ a = key /\ pc \in {"update", "status"}
  /\ CallFails \/ (UpdateStatus /\ "ca" \notin outdated)
LetGo == \A a \in Agents \ Watched' : cr'[a] = None \/ Untouched(a) \/ Finished(a)

(* At the end of a reconcile, when no event is pending.                    *)
LEMMA HandledNow ==
  ASSUME TypeOK, CopiesCurrent, CopiesWatched, NothingLeft,
         pc \in {"update", "status"}, key \notin staleCr \cup staleDep \cup dirty
  PROVE  /\ key \in Agents /\ ca \in CrValues /\ cr[key] \in CrValues
         /\ "ca" \notin outdated /\ SameOrDefault(cr[key], ca)
         /\ cr[key].url \notin InvalidUrls
         /\ dep[key] # None /\ dep[key].annoUrl = cr[key].url
         /\ cr[key].image # NoImage => dep[key].image = cr[key].image
         /\ ca.image # NoImage => dep[key].image = ca.image
         /\ ca = WithConfDefaults(ca)
<1>1. key \in Agents /\ ca \in CrValues /\ ca # None
  BY NoneAssumption DEF TypeOK, WorkerOK
<1>2. "ca" \notin outdated
  BY DEF CopiesWatched
<1>3. cr[key] # None /\ SameOrDefault(cr[key], ca)
  BY <1>1, <1>2 DEF CopiesCurrent
<1>4. cr[key] \in CrValues
  BY <1>1, <1>3 DEF TypeOK, ApiOK
<1>5. exd # None /\ ~ImageChanged /\ ~AddressChanged /\ dep[key] = exd
  BY DEF NothingLeft, CopiesWatched
<1>6. ca.url \notin InvalidUrls /\ ca = WithConfDefaults(ca)
  BY DEF NothingLeft, PastConfig
<1> QED
  BY <1>1, <1>2, <1>3, <1>4, <1>5, <1>6 DEF SameOrDefault, ImageChanged, AddressChanged

(* A reconcile only touches its own resource, and lets go of it when it    *)
(* has been dealt with or will be looked at again.                         *)
LEMMA LetGoReconcile ==
  ASSUME TypeOK, CopiesCurrent, CopiesWatched, NothingLeft, Reconcile
  PROVE  LetGo
<1> USE NoneAssumption
<1>1. pc \notin {"idle", "gone"} => ca \in CrValues /\ key \in Agents
  BY DEF TypeOK, WorkerOK
<1>2. ASSUME NEW a \in Agents, a = key,
             \A b \in Agents \ {a} : cr'[b] = cr[b] /\ dep'[b] = dep[b],
             Watched \ {a} \subseteq Watched',
             a \in Watched' \/ cr'[a] = None \/ Finished(a)
      PROVE  LetGo
  BY <1>2 DEF LetGo, Untouched
<1>3. ASSUME UNCHANGED <<cr, dep, staleCr, staleDep, faults>>,
             Requeue \/ (UNCHANGED <<key, queue>>)
      PROVE  LetGo
  BY <1>3 DEF LetGo, Untouched, Requeue, Stop, Watched, queue
<1>4. CASE CleanUp
  <2>1. UNCHANGED <<cr, dep, staleCr, staleDep, faults>>
    BY <1>4 DEF CleanUp, Others
  <2>2. CASE pc = "gone"
    <3>1. key \in Agents /\ Stop /\ UNCHANGED queue
      BY <1>4, <2>2 DEF CleanUp, Done, TypeOK, WorkerOK
    <3>2. key \in staleCr \cup dirty \/ cr[key] = None
      BY <2>2 DEF CopiesWatched
    <3> QED
      BY <1>2, <2>1, <3>1, <3>2 DEF Watched, queue, Stop
  <2>3. CASE pc = "cleanup"
    BY <1>3, <1>4, <2>1, <2>3 DEF CleanUp, Goto
  <2> QED
    BY <1>4, <2>2, <2>3 DEF CleanUp
<1>5. CASE EnsureSecret \/ ReloadSecret
  BY <1>3, <1>5 DEF EnsureSecret, ReloadSecret, Goto, api, cache
<1>6. CASE EnsureAgentMonConfig \/ EnsureAgentConfig \/ EnsureLogConfig
  BY <1>3, <1>6 DEF EnsureAgentMonConfig, EnsureAgentConfig, EnsureLogConfig,
                    WriteCm, Goto, Others
<1>7. ASSUME NEW v, PutDep(key, v) \/ UNCHANGED <<dep, staleDep>>, key \in Agents,
             UNCHANGED <<cr, staleCr, seenDep, faults>>,
             Requeue \/ (UNCHANGED <<key, queue>>)
      PROVE  LetGo
  <2>1. \A b \in Agents \ {key} : dep'[b] = dep[b]
    BY <1>7, PutDepStale
  <2>2. staleDep \subseteq staleDep'
    BY <1>7, PutDepStale
  <2>3. Watched \subseteq Watched' /\ key \in Watched'
    BY <1>7, <2>2 DEF Watched, Requeue, Stop, queue
  <2> QED
    BY <1>2, <1>7, <2>1, <2>3
<1>8. CASE CreateDeployment \/ UpdateImage \/ SaveAnnotation
  <2>1. /\ UNCHANGED <<cr, staleCr, seenDep, faults>> /\ key \in Agents
        /\ (\E v : PutDep(key, v)) \/ UNCHANGED <<dep, staleDep>>
    BY <1>1, <1>8 DEF CreateDeployment, UpdateImage, SaveAnnotation, Others, seen
  <2>2. Requeue \/ (UNCHANGED <<key, queue>>)
    BY <1>8 DEF CreateDeployment, UpdateImage, SaveAnnotation, Goto
  <2> QED
    BY <1>7, <2>1, <2>2
<1>9. CASE RestartAgent
  BY <1>3, <1>9 DEF RestartAgent, cache
<1>10. CASE UpdateCr
  <2>1. key \in Agents /\ UNCHANGED <<dep, staleDep, faults>>
    BY <1>1, <1>10 DEF UpdateCr, Others
  <2>2. CASE "ca" \notin outdated
    <3>1. PutCr(key, ca) /\ UNCHANGED <<key, queue>>
      BY <1>10, <2>2 DEF UpdateCr, Goto
    <3>2. /\ \A b \in Agents \ {key} : cr'[b] = cr[b]
          /\ staleCr \subseteq staleCr'
      BY <2>1, <3>1, PutCrApart
    <3> QED
      BY <1>2, <2>1, <3>1, <3>2 DEF Watched, queue
  <2>3. CASE "ca" \in outdated
    <3>1. UNCHANGED <<cr, staleCr, queue>> /\ Stop
      BY <1>10, <2>3 DEF UpdateCr, Done
    <3>2. key \in staleCr \cup dirty
      BY <2>3 DEF CopiesWatched
    <3> QED
      BY <1>2, <2>1, <3>1, <3>2 DEF Watched, queue, Stop
  <2> QED
    BY <2>2, <2>3
<1>11. CASE UpdateStatus
  <2>1. /\ key \in Agents /\ ca \in CrValues /\ UNCHANGED <<dep, staleDep, faults, queue>>
        /\ Stop /\ pc = "status"
    BY <1>1, <1>11 DEF UpdateStatus, Done, Others
  <2>2. CASE "ca" \notin outdated
    <3> DEFINE v == [ca EXCEPT !.stamped = TRUE]
    <3>1. PutCr(key, v)
      BY <1>11, <2>2 DEF UpdateStatus
    <3> HIDE DEF v
    <3>3. /\ \A b \in Agents \ {key} : cr'[b] = cr[b]
          /\ cr'[key] = v /\ staleCr \subseteq staleCr'
      BY <2>1, <3>1, PutCrApart
    <3>4. Watched \ {key} \subseteq Watched'
      BY <2>1, <3>3 DEF Watched, queue, Stop
    <3>5. PICK a \in Agents : a = key
      BY <2>1
    <3>6. Finished(a)
      BY <1>11, <2>1, <2>2, <3>5 DEF Finished
    <3> QED
      BY <1>2, <2>1, <3>3, <3>4, <3>5, <3>6
  <2>3. CASE "ca" \in outdated
    <3>1. UNCHANGED <<cr, staleCr>>
      BY <1>11, <2>3 DEF UpdateStatus
    <3>2. key \in staleCr \cup dirty
      BY <2>3 DEF CopiesWatched
    <3> QED
      BY <1>2, <2>1, <3>1, <3>2 DEF Watched, queue, Stop
  <2> QED
    BY <2>2, <2>3
<1> QED
  BY <1>4, <1>5, <1>6, <1>8, <1>9, <1>10, <1>11 DEF Reconcile

(* Everybody else keeps what is watched, and is watched where it writes. *)
LEMMA LetGoOthers ==
  ASSUME TypeOK, GensGiven, CopiesCurrent, CopiesWatched, NothingLeft,
         [Next]_vars, ~Reconcile
  PROVE  LetGo
<1> USE NoneAssumption
<1>2. ASSUME UNCHANGED <<cr, dep>>, Watched \subseteq Watched' PROVE LetGo
  BY <1>2 DEF LetGo, Untouched
<1>3. ASSUME NEW a \in Agents, NEW v, UNCHANGED <<key, queue>>,
             \/ PutCr(a, v) /\ cr[a] # v /\ UNCHANGED <<dep, staleDep>>
             \/ PutDep(a, v) /\ UNCHANGED <<cr, staleCr, seenDep>>
      PROVE  LetGo
  <2>1. CASE PutCr(a, v) /\ cr[a] # v /\ UNCHANGED <<dep, staleDep>>
    <3>1. /\ \A b \in Agents \ {a} : cr'[b] = cr[b]
          /\ staleCr \subseteq staleCr' /\ a \in staleCr'
      BY <2>1, PutCrApart
    <3> QED
      BY <1>3, <2>1, <3>1 DEF LetGo, Untouched, Watched, queue
  <2>2. CASE PutDep(a, v) /\ UNCHANGED <<cr, staleCr, seenDep>>
    <3>1. /\ \A b \in Agents \ {a} : dep'[b] = dep[b]
          /\ staleDep \subseteq staleDep'
          /\ a \in staleDep' \/ UNCHANGED <<dep, staleDep>>
      BY <2>2, PutDepStale
    <3> QED
      BY <1>3, <2>2, <3>1 DEF LetGo, Untouched, Watched, queue
  <2> QED
    BY <1>3, <2>1, <2>2
<1>4. CASE Users
  <2>1. /\ UNCHANGED <<key, queue, seenDep>>
        /\ \/ UNCHANGED <<cr, dep, staleCr, staleDep>>
           \/ \E a \in Agents : \E v :
                \/ PutCr(a, v) /\ cr[a] # v /\ UNCHANGED <<dep, staleDep>>
                \/ PutDep(a, v) /\ UNCHANGED <<cr, staleCr>>
    BY <1>4, UsersWrite
  <2>2. CASE UNCHANGED <<cr, dep, staleCr, staleDep>>
    BY <1>2, <2>1, <2>2 DEF Watched, queue
  <2> QED
    BY <1>3, <2>1, <2>2
<1>5. ASSUME NEW a \in Agents, Fetch(a) PROVE LetGo
  <2>1. /\ UNCHANGED <<cr, dep, staleCr, staleDep, delayed>> /\ key' = a
        /\ dirty' = dirty \ {a} /\ pc = "idle"
    BY <1>5 DEF Fetch, api, cache
  <2>2. key = None
    BY <2>1 DEF TypeOK, WorkerOK
  <2> QED
    BY <2>1, <2>2 DEF LetGo, Untouched, Watched
<1>6. CASE CallFails
  <2>1. /\ UNCHANGED <<cr, dep, staleCr, staleDep>> /\ key \in Agents
    BY <1>6 DEF CallFails, api, cache, TypeOK, WorkerOK
  <2>2. CASE Requeue \/ UNCHANGED <<key, queue>>
    BY <1>2, <2>1, <2>2 DEF Requeue, Stop, Watched, queue
  <2>3. CASE Done /\ pc = "gone"
    <3>1. key \in staleCr \cup dirty \/ cr[key] = None
      BY <2>3 DEF CopiesWatched
    <3> QED
      BY <2>1, <2>3, <3>1 DEF LetGo, Untouched, Done, Stop, Watched, queue
  <2>4. CASE Done /\ pc \in {"update", "status"}
    <3> SUFFICES ASSUME NEW a \in Agents \ Watched' PROVE Untouched(a) \/ Finished(a)
      BY DEF LetGo
    <3>1. a = key => Finished(a)
      BY <1>6, <2>4 DEF Finished
    <3>2. a # key => Untouched(a)
      BY <2>1, <2>4 DEF Untouched, Done, Watched, queue
    <3> QED
      BY <3>1, <3>2
  <2> QED
    BY <1>6, <2>2, <2>3, <2>4 DEF CallFails, Goto
<1>7. CASE Crash
  <2>1. /\ UNCHANGED <<cr, dep>>
        /\ dirty' = {a \in Agents : cr[a] # None \/ dep[a] # None}
    BY <1>7 DEF Crash, api
  <2> QED
    BY <2>1 DEF LetGo, Untouched, Watched
<1>8. CASE SyncCr \/ SyncDep
  BY <1>2, <1>8 DEF SyncCr, SyncDep, Watched, api, worker
<1>9. CASE SyncCm \/ SyncSecret \/ SyncPods
  BY <1>2, <1>9 DEF SyncCm, SyncSecret, SyncPods, Watched, api, queue, worker
<1>10. CASE Resync \/ \E a \in Agents : DelayOver(a)
  BY <1>2, <1>10 DEF Resync, DelayOver, Watched, api, cache, worker
<1>11. ASSUME NEW a \in Agents, CollectGarbage(a) \/ DeploymentStatus(a)
       PROVE  LetGo
  <2>1. /\ UNCHANGED <<key, queue, cr, staleCr, seenDep>>
        /\ \E v : PutDep(a, v)
    BY <1>11 DEF CollectGarbage, DeploymentStatus, seen, queue
  <2> QED
    BY <1>3, <2>1
<1>12. ASSUME NEW p \in PodIds, \/ \E a \in Agents : SpawnPod(p, a)
                                \/ StartPod(p) \/ RetirePod(p) \/ RemovePod(p)
       PROVE  LetGo
  BY <1>2, <1>12 DEF SpawnPod, StartPod, RetirePod, RemovePod, cache, queue,
                     worker, Watched
<1>13. CASE UNCHANGED vars
  BY <1>2, <1>13 DEF vars, api, cache, queue, worker, Watched
<1> QED
  BY <1>4, <1>5, <1>6, <1>7, <1>8, <1>9, <1>10, <1>11, <1>12, <1>13
     DEF Next, Operator, Sync, Cluster

(* Whom a step lets go of has been dealt with. *)
LEMMA AttendedStep ==
  ASSUME TypeOK, CopiesCurrent, CopiesWatched, NothingLeft, EditsAttended, LetGo,
         [Next]_vars
  PROVE  EditsAttended'
<1>1. faults \in Nat
  BY BoundsAssumption DEF TypeOK, CountersOK
<1>2. faults' = faults \/ faults' = faults + 1
  <2>1. CASE Reconcile
    BY <2>1 DEF Reconcile, CleanUp, EnsureSecret, ReloadSecret, EnsureAgentMonConfig,
       EnsureAgentConfig, EnsureLogConfig, CreateDeployment, UpdateImage,
       SaveAnnotation, RestartAgent, UpdateCr, UpdateStatus, Others
  <2>2. CASE Users
    BY <2>2 DEF Users, SetSecret, CreateCr, EditCr, DeleteCr, DeleteDeployment
  <2>3. CASE Cluster
    BY <2>3 DEF Cluster, CollectGarbage, DeploymentStatus, SpawnPod, StartPod,
                RetirePod, RemovePod
  <2>4. CASE \/ \E a \in Agents : Fetch(a) \/ DelayOver(a)
             \/ Sync \/ CallFails \/ Crash \/ Resync \/ UNCHANGED vars
    BY <2>4 DEF Fetch, DelayOver, Sync, SyncCr, SyncDep, SyncCm, SyncSecret,
                SyncPods, CallFails, Crash, Resync, vars
  <2> QED
    BY <2>1, <2>2, <2>3, <2>4 DEF Next, Operator
<1>3. ASSUME NEW a \in Agents, a \notin Watched', cr'[a] # None PROVE Handled(a)'
  <2>1. CASE Untouched(a)
    BY <1>1, <1>2, <1>3, <2>1 DEF Untouched, EditsAttended, Attended, Handled
  <2>2. CASE Finished(a) /\ CallFails
    <3>0. ~Requeue
      BY <1>3, <2>2 DEF Finished, Requeue, Watched
    <3>1. /\ UNCHANGED <<cr, dep, staleCr, staleDep, dirty>> /\ faults' # 0
          /\ pc \in {"update", "status"} /\ a = key
      BY <1>1, <2>2, <3>0 DEF CallFails, Finished, Done, queue, api, cache
    <3>2. key \notin staleCr \cup staleDep \cup dirty
      BY <1>3, <3>1 DEF Watched
    <3> QED
      BY <3>1, <3>2, HandledNow DEF Handled
  <2>3. CASE Finished(a) /\ UpdateStatus /\ "ca" \notin outdated
    <3> DEFINE v == [ca EXCEPT !.stamped = TRUE]
    <3>1. /\ PutCr(key, v) /\ UNCHANGED <<dep, staleDep, dirty>>
          /\ pc \in {"update", "status"} /\ a = key /\ key \in Agents /\ ca \in CrValues
      BY <2>3 DEF UpdateStatus, Finished, Done, queue, TypeOK, WorkerOK
    <3>2. /\ v.url = ca.url /\ v.image = ca.image /\ v.stamped
      BY <3>1 DEF CrValues
    <3> HIDE DEF v
    <3>3. cr'[a] = v /\ staleCr \subseteq staleCr'
      BY <3>1, PutCrApart
    <3>4. key \notin staleCr \cup staleDep \cup dirty
      BY <1>3, <3>1, <3>3 DEF Watched
    <3>5. /\ ca.url = cr[key].url /\ ca.url \notin InvalidUrls
          /\ dep[key] # None /\ dep[key].annoUrl = ca.url
          /\ ca.image # NoImage => dep[key].image = ca.image
      BY <3>1, <3>4, HandledNow DEF SameOrDefault
    <3> QED
      BY <3>1, <3>2, <3>3, <3>5 DEF Handled
  <2> QED
    BY <1>3, <2>1, <2>2, <2>3 DEF LetGo, Finished
<1> QED
  BY <1>3 DEF EditsAttended, Attended

(* The invariant they need. *)
NothingForgotten == CopiesCurrent /\ GensGiven /\ CopiesWatched /\ NothingLeft

LEMMA ForgetsNothing == Spec => [](TypeOK /\ NothingForgotten)
<1>1. Init => NothingForgotten
  BY DEF Init, NothingForgotten, CopiesCurrent, GensGiven, CopiesWatched,
         NothingLeft, PastConfig
<1>2. TypeOK /\ NothingForgotten /\ [Next]_vars => NothingForgotten'
  <2> SUFFICES ASSUME TypeOK, NothingForgotten, [Next]_vars PROVE NothingForgotten'
    OBVIOUS
  <2>1. CopiesCurrent' /\ GensGiven'
    BY CopiesReconcile, CopiesUsers, CopiesOthers, GensStep DEF NothingForgotten
  <2>2. CopiesWatched' /\ NothingLeft'
    BY WatchedReconcile, WatchedUsers, WatchedOthers DEF NothingForgotten
  <2> QED
    BY <2>1, <2>2 DEF NothingForgotten
<1> QED
  BY <1>1, <1>2, TypeCorrect, PTL DEF Spec

LEMMA StepLetsGo ==
  ASSUME TypeOK, NothingForgotten, [Next]_vars PROVE LetGo
  BY LetGoReconcile, LetGoOthers DEF NothingForgotten

(* No edit is forgotten, with any number of CRs, failures, crashes and     *)
(* edits: a CR that is neither being reconciled, nor queued, nor about to  *)
(* be noticed has the Deployment it asks for.                              *)
THEOREM NoEditForgotten == Spec => []EditsAttended
<1>1. Init => EditsAttended
  BY DEF Init, EditsAttended, Attended
<1>2. TypeOK /\ NothingForgotten /\ EditsAttended /\ [Next]_vars => EditsAttended'
  BY StepLetsGo, AttendedStep DEF NothingForgotten
<1> QED
  BY <1>1, <1>2, ForgetsNothing, PTL DEF Spec

-----------------------------------------------------------------------------
(* The ConfigMaps are not forgotten either.                                *)

(* There is one resource: two would share the ConfigMaps. *)
OneAgent == Agents = {TheAgent}

LEMMA ConfigsApart == ASSUME [Next]_vars, ~Reconcile PROVE UNCHANGED cm
<1>1. CASE Users
  BY <1>1 DEF Users, SetSecret, CreateCr, EditCr, DeleteCr, DeleteDeployment
<1>2. CASE Cluster
  BY <1>2 DEF Cluster, CollectGarbage, DeploymentStatus, SpawnPod, StartPod,
              RetirePod, RemovePod
<1>3. CASE \/ \E a \in Agents : Fetch(a) \/ DelayOver(a)
           \/ Sync \/ CallFails \/ Crash \/ Resync \/ UNCHANGED vars
  BY <1>3 DEF Fetch, DelayOver, Sync, SyncCr, SyncDep, SyncCm, SyncSecret,
              SyncPods, CallFails, Crash, Resync, vars, api
<1> QED
  BY <1>1, <1>2, <1>3 DEF Next, Operator

(* At the end of a reconcile, when no event is pending.                    *)
LEMMA RenderedNow ==
  ASSUME TypeOK, NothingForgotten, ConfigSoFar, pc \in {"update", "status"},
         key \notin staleCr \cup staleDep \cup dirty, NEW n \in CmNames
  PROVE  /\ cm[n] = Rendered(n, WithConfDefaults(cr[key]))
         /\ cm[n] = Rendered(n, WithConfDefaults(ca))
<1>1. /\ ca = WithConfDefaults(ca) /\ SameOrDefault(cr[key], ca)
      /\ ca \in CrValues /\ cr[key] \in CrValues
  BY HandledNow DEF NothingForgotten
<1>2. cm[n] = Rendered(n, ca)
  BY DEF ConfigSoFar, PastConfig, CmNames
<1>3. /\ WithConfDefaults(cr[key]).conf = ca.conf
      /\ WithConfDefaults(cr[key]).url = ca.url
  BY <1>1 DEF WithConfDefaults, SameOrDefault, CrValues
<1> QED
  BY <1>1, <1>2, <1>3 DEF Rendered

(* The ConfigMaps are written by the worker, for the one resource. *)
LEMMA ConfigsStep ==
  ASSUME OneAgent, TypeOK, NothingForgotten, ConfigSoFar, ConfigsAttended, LetGo,
         [Next]_vars
  PROVE  ConfigsAttended'
<1> SUFFICES ASSUME NEW a \in Agents, a \notin Watched', cr'[a] # None, NEW n \in CmNames
             PROVE  cm'[n] = Rendered(n, WithConfDefaults(cr'[a]))
  BY DEF ConfigsAttended, Attended
<1> USE NoneAssumption
<1>1. CASE Untouched(a)
  <2>1. pc = "idle"
    BY <1>1 DEF Untouched, Watched, OneAgent, TypeOK, WorkerOK
  <2>2. ~Reconcile
    BY <2>1 DEF Reconcile, CleanUp, EnsureSecret, ReloadSecret, EnsureAgentMonConfig,
       EnsureAgentConfig, EnsureLogConfig, CreateDeployment, UpdateImage,
       SaveAnnotation, RestartAgent, UpdateCr, UpdateStatus
  <2>3. UNCHANGED cm
    BY <2>2, ConfigsApart
  <2> QED
    BY <1>1, <2>3 DEF Untouched, ConfigsAttended, Attended
<1>2. CASE Finished(a) /\ CallFails
  <2>0. ~Requeue
    BY <1>2 DEF Finished, Requeue, Watched
  <2>1. /\ UNCHANGED <<cr, dep, cm, staleCr, staleDep, dirty>>
        /\ pc \in {"update", "status"} /\ a = key
    BY <1>2, <2>0 DEF CallFails, Finished, Done, queue, api, cache
  <2>2. key \notin staleCr \cup staleDep \cup dirty
    BY <2>1 DEF Watched
  <2> QED
    BY <2>1, <2>2, RenderedNow
<1>3. CASE Finished(a) /\ UpdateStatus /\ "ca" \notin outdated
  <2> DEFINE v == [ca EXCEPT !.stamped = TRUE]
  <2>1. /\ PutCr(key, v) /\ UNCHANGED <<dep, cm, staleDep, dirty>>
        /\ pc \in {"update", "status"} /\ a = key /\ key \in Agents /\ ca \in CrValues
    BY <1>3 DEF UpdateStatus, Finished, Done, queue, TypeOK, WorkerOK
  <2>2. WithConfDefaults(v).conf = WithConfDefaults(ca).conf
        /\ WithConfDefaults(v).url = WithConfDefaults(ca).url
    BY <2>1 DEF CrValues, WithConfDefaults
  <2> HIDE DEF v
  <2>3. cr'[a] = v /\ staleCr \subseteq staleCr'
    BY <2>1, PutCrApart
  <2>4. key \notin staleCr \cup staleDep \cup dirty
    BY <2>1, <2>3 DEF Watched
  <2> QED
    BY <2>1, <2>2, <2>3, <2>4, RenderedNow DEF Rendered
<1> QED
  BY <1>1, <1>2, <1>3 DEF LetGo, Finished

(* The ConfigMaps of a CR that nobody will look at again are the ones it   *)
(* asks for, defaults included, whatever failed on the way.                *)
THEOREM NoConfigForgotten == ASSUME OneAgent PROVE Spec => []ConfigsAttended
<1>1. Init => ConfigsAttended
  BY DEF Init, ConfigsAttended, Attended
<1>2. TypeOK /\ NothingForgotten /\ ConfigSoFar /\ ConfigsAttended /\ [Next]_vars
        => ConfigsAttended'
  BY StepLetsGo, ConfigsStep
<1> QED
  BY <1>1, <1>2, ForgetsNothing, ConfigStaysSoFar, PTL DEF Spec
=============================================================================
