---------------------------- MODULE ClusterAgent ----------------------------
(***************************************************************************)
(* The controller that keeps a Clusteragent custom resource (CR) and its   *)
(* Deployment, ConfigMaps and Secret in step, in its environment:          *)
(*   - the API server, whose objects users edit at any time;               *)
(*   - the informer caches the operator reads, which lag behind it;        *)
(*   - the work queue with its back-off and its 60-second requeue;         *)
(*   - the Deployment controller and the kubelet, that run the agent's     *)
(*     pods from the Deployment, the ConfigMaps and the Secret;            *)
(*   - failing calls and a crash of the operator between any two calls.    *)
(* Reconcile is one action per API call, in the order of the code, so that *)
(* every other actor can move between two calls.                           *)
(*                                                                         *)
(* An object is its value, or None.  Its resource version, which is only   *)
(* ever compared with the version of a copy, is modelled by what that      *)
(* comparison tells: the stale... sets and outdated hold the copies whose  *)
(* object was written since they were read.  A write that changes nothing  *)
(* is dropped by the API server and makes no copy stale.                   *)
(***************************************************************************)
EXTENDS Naturals

CONSTANTS
  None,              \* the value of an object that does not exist
  Agents,            \* names of the Clusteragent resources
  UserSpecs,         \* the specs users apply: records [url, image, conf]
  InvalidUrls,       \* the urls validateControllerUrl refuses
  NoImage,           \* spec.image is empty
  DefaultImage,      \* the image newAgentDeployment falls back to
  Unset,             \* a configuration field that is zero or empty
  DefaultConf,       \* the defaults of setClusterAgentConfigDefaults
  PodIds,            \* names for the pods of the Deployments
  InDefaultNamespace,\* the resources live in namespace "appdynamics"
  PodDeleteAllowed,  \* the operator's role lets it delete pods
  MaxEdits,          \* bound: user edits of CRs and Deployments
  MaxKeys,           \* bound: contents the user gives to the Secret
  MaxFaults          \* bound: failed calls, crashes and resyncs

ASSUME BoundsAssumption ==
  MaxEdits \in Nat /\ MaxKeys \in Nat /\ MaxFaults \in Nat

VARIABLES
  cr, dep, cm, secret, pods,                          \* the API server
  seenCr, seenDep, seenCm, seenSecret, seenPod,       \* informer caches
  staleCr, staleDep, staleCm,                         \* their stale entries
  dirty, delayed,                                     \* the work queue
  pc, key, ca, exd, outdated,                         \* the worker
  edits, faults,                                      \* bounded counters
  cfgGen, restarted                                   \* history variables

api    == <<cr, dep, cm, secret, pods>>
seen   == <<seenCr, seenDep, seenCm, seenSecret, seenPod>>
cache  == <<seen, staleCr, staleDep, staleCm>>
queue  == <<dirty, delayed>>
worker == <<pc, key, ca, exd, outdated>>
ghost  == <<cfgGen, restarted>>
vars   == <<api, cache, queue, worker, edits, faults, ghost>>

-----------------------------------------------------------------------------
(* Values.  A user edit stamps the CR with its number, gen; uid is the gen *)
(* of the creation.  url stands for ControllerUrl and Account, conf for    *)
(* every other field the ConfigMaps are rendered from.                     *)

Urls   == {s.url : s \in UserSpecs}
Images == {s.image : s \in UserSpecs} \cup {NoImage, DefaultImage}
Confs  == {s.conf : s \in UserSpecs} \cup {Unset, DefaultConf}
Gens   == 0..MaxEdits
Keys   == 0..MaxKeys           \* 0 is the empty key ensureSecret creates

CrValues == [gen : Gens, uid : Gens, url : Urls, image : Images,
             conf : Confs, stamped : BOOLEAN]
DepValues == [image : Images, annoGen : Gens, annoUrl : Urls, owner : Gens,
              ready : BOOLEAN]

CmNames  == {"mon", "config", "log"}
CmValues == [conf : Confs, url : Urls \cup {None}]

PodValues == [of : Agents, image : Images, env : {None} \cup
                [url : Urls \cup {None}, conf : Confs, secretKey : Keys],
              terminating : BOOLEAN, orphan : BOOLEAN]

(* None is none of the values it stands for the absence of. *)
ASSUME NoneAssumption ==
  /\ None \notin Agents /\ None \notin Keys
  /\ None \notin CrValues /\ None \notin DepValues
  /\ None \notin CmValues /\ None \notin PodValues

Steps == {"idle", "gone", "cleanup", "secret", "reload", "mon", "config",
          "log", "create", "image", "annotate", "restart", "update",
          "status"}

(* setClusterAgentConfigDefaults and the image default of                  *)
(* newAgentDeployment, both applied to the copy in memory.                 *)
WithConfDefaults(v) ==
  IF v.conf = Unset THEN [v EXCEPT !.conf = DefaultConf] ELSE v
WithImageDefault(v) ==
  IF v.image = NoImage THEN [v EXCEPT !.image = DefaultImage] ELSE v

(* What the ConfigMap named n holds for the CR v: only cluster-agent-config*)
(* carries the controller's address.                                       *)
Rendered(n, v) ==
  [conf |-> v.conf, url |-> IF n = "config" THEN v.url ELSE None]

(* A started container that neither runs a deleted template nor terminates.*)
Live(p, a) == /\ pods[p] # None
              /\ pods[p].of = a
              /\ ~pods[p].terminating /\ ~pods[p].orphan
Running(p, a) == Live(p, a) /\ pods[p].env # None

-----------------------------------------------------------------------------
(* The worker's bookkeeping.                                               *)

Goto(step) == /\ pc' = step
              /\ UNCHANGED <<key, exd, queue>>

Stop == /\ pc' = "idle" /\ key' = None
        /\ ca' = None /\ exd' = None /\ outdated' = {}

(* Result{} without an error: the queue forgets the key. *)
Done == Stop /\ UNCHANGED queue

\* Faulty variant: the request is cleared before it is added again.
RequeueCleared == Stop /\ delayed' = delayed \cup {key'} /\ UNCHANGED dirty

(* An error (AddRateLimited) or RequeueAfter (AddAfter): the key comes     *)
(* back after a delay.                                                     *)
Requeue == /\ Stop
           /\ delayed' = delayed \cup {key}
           /\ UNCHANGED dirty

Others == <<seen, edits, faults>>

-----------------------------------------------------------------------------
(* Writes.                                                                 *)

PutCr(a, v) ==
  IF cr[a] = v THEN UNCHANGED <<cr, staleCr>>
  ELSE cr' = [cr EXCEPT ![a] = v] /\ staleCr' = staleCr \cup {a}

PutDep(a, v) ==
  IF dep[a] = v THEN UNCHANGED <<dep, staleDep>>
  ELSE dep' = [dep EXCEPT ![a] = v] /\ staleDep' = staleDep \cup {a}

PutCm(n, v) ==
  IF cm[n] = v THEN UNCHANGED <<cm, staleCm>>
  ELSE cm' = [cm EXCEPT ![n] = v] /\ staleCm' = staleCm \cup {n}

(* A write by someone else makes the copy of the worker outdated. *)
Outdate(a, copy) ==
  outdated' = IF key = a THEN outdated \cup {copy} ELSE outdated

(* Pods of a lose their ReplicaSet with the Deployment. *)
OrphanPods(a) ==
  pods' = [p \in PodIds |->
             IF pods[p] # None /\ pods[p].of = a
             THEN [pods[p] EXCEPT !.orphan = TRUE] ELSE pods[p]]

-----------------------------------------------------------------------------
(* Reconcile.                                                              *)

(* The worker takes a key and reads the CR and its Deployment from the     *)
(* cache, two reads with no call between them.                             *)
Fetch(a) ==
  /\ pc = "idle" /\ a \in dirty
  /\ dirty' = dirty \ {a} /\ UNCHANGED delayed
  /\ key' = a
  /\ IF seenCr[a] = None
     THEN pc' = "gone" /\ UNCHANGED <<ca, exd, outdated>>
     ELSE /\ ca' = seenCr[a] /\ exd' = seenDep[a]
          /\ outdated' = {c \in {"ca", "exd"} :
                            a \in IF c = "ca" THEN staleCr ELSE staleDep}
          /\ pc' = IF seenDep[a] = None THEN "cleanup" ELSE "secret"
  /\ UNCHANGED <<api, cache, edits, faults, ghost>>

(* cleanUp: delete cluster-agent-config if the cache shows it, whatever    *)
(* its version.  Without a CR only the namespace "appdynamics" is tried.   *)
CleanUp ==
  /\ pc \in {"gone", "cleanup"}
  /\ IF seenCm["config"] # None /\ (pc = "cleanup" \/ InDefaultNamespace)
     THEN PutCm("config", None) ELSE UNCHANGED <<cm, staleCm>>
  /\ IF pc = "gone" THEN Done ELSE Goto("secret") /\ UNCHANGED <<ca, outdated>>
  /\ UNCHANGED <<cr, dep, secret, pods, staleCr, staleDep, Others, ghost>>

(* ensureSecret: an empty Secret is created when the cache has none ...    *)
EnsureSecret ==
  /\ pc = "secret"
  /\ \/ /\ seenSecret # None
        /\ Goto("mon") /\ UNCHANGED <<secret, ca, outdated>>
     \/ /\ seenSecret = None /\ secret = None
        /\ secret' = 0
        /\ Goto("reload") /\ UNCHANGED <<ca, outdated>>
     \/ /\ seenSecret = None /\ secret # None
        /\ Requeue /\ UNCHANGED secret
  /\ UNCHANGED <<cr, dep, cm, pods, cache, edits, faults, ghost>>

(* ... and read back through the cache, which may not have it yet. *)
ReloadSecret ==
  /\ pc = "reload"
  /\ \/ seenSecret # None /\ Goto("mon") /\ UNCHANGED <<ca, outdated>>
     \/ seenSecret = None /\ Requeue
  /\ UNCHANGED <<api, cache, edits, faults, ghost>>

(* The common end of the three ensure*Config functions: create or update   *)
(* the ConfigMap, as the cache says whether it exists.                     *)
CmAccepted(n) == IF seenCm[n] = None THEN cm[n] = None ELSE n \notin staleCm
WriteCm(n, v, next) ==
  IF CmAccepted(n)
  THEN PutCm(n, Rendered(n, v)) /\ Goto(next) /\ ca' = v /\ UNCHANGED outdated
  ELSE Requeue /\ UNCHANGED <<cm, staleCm>>

\* Faulty variant: ensureConfigMap returns after the monitoring ConfigMap.
EnsureMonConfigOnly ==
  /\ pc = "mon"
  /\ WriteCm("mon", WithConfDefaults(ca), "log")
  /\ UNCHANGED <<cr, dep, secret, pods, staleCr, staleDep, Others, ghost>>

(* ensureConfigMap sets the defaults, then writes the ConfigMaps in turn. *)
EnsureAgentMonConfig ==
  /\ pc = "mon"
  /\ WriteCm("mon", WithConfDefaults(ca), "config")
  /\ UNCHANGED <<cr, dep, secret, pods, staleCr, staleDep, Others, ghost>>

\* Faulty variant: the agent's ConfigMap is written on creation only.
EnsureAgentConfigOnCreate ==
  /\ pc = "config"
  /\ IF exd # None \/ ca.url \in InvalidUrls
     THEN /\ IF exd # None THEN Goto("log") /\ UNCHANGED <<ca, outdated>> ELSE Requeue
          /\ UNCHANGED <<cm, staleCm, cfgGen>>
     ELSE /\ WriteCm("config", ca, "log")
          /\ cfgGen' = IF CmAccepted("config") THEN ca.gen ELSE cfgGen
  /\ UNCHANGED <<cr, dep, secret, pods, staleCr, staleDep, Others, restarted>>

(* ensureAgentConfig fails on a url validateControllerUrl refuses. *)
EnsureAgentConfig ==
  /\ pc = "config"
  /\ IF ca.url \in InvalidUrls
     THEN Requeue /\ UNCHANGED <<cm, staleCm, cfgGen>>
     ELSE /\ WriteCm("config", ca, "log")
          /\ cfgGen' = IF CmAccepted("config") THEN ca.gen ELSE cfgGen
  /\ UNCHANGED <<cr, dep, secret, pods, staleCr, staleDep, Others, restarted>>

(* hasBreakingChanges: a new image takes precedence over a new address. *)
ImageChanged == ca.image # NoImage /\ ca.image # exd.image
AddressChanged == ca.url # exd.annoUrl
\* Faulty variant: the pod is restarted without saving the annotation.
AfterConfigUnmarked ==
  IF exd = None THEN "create"
  ELSE IF ImageChanged THEN "image"
  ELSE IF AddressChanged THEN "restart" ELSE "update"

AfterConfig ==
  IF exd = None THEN "create"
  ELSE IF ImageChanged THEN "image"
  ELSE IF AddressChanged THEN "annotate" ELSE "update"

EnsureLogConfig ==
  /\ pc = "log"
  /\ WriteCm("log", ca, AfterConfig)
  /\ UNCHANGED <<cr, dep, secret, pods, staleCr, staleDep, Others, ghost>>

(* newAgentDeployment and its Create. *)
CreateDeployment ==
  /\ pc = "create"
  /\ LET v == WithImageDefault(ca) IN
     IF dep[key] # None THEN Requeue /\ UNCHANGED <<dep, staleDep>>
     ELSE /\ PutDep(key, [image |-> v.image, annoGen |-> v.gen,
                          annoUrl |-> v.url, owner |-> v.uid,
                          ready |-> FALSE])
          /\ Goto("update") /\ ca' = v /\ UNCHANGED outdated
  /\ UNCHANGED <<cr, cm, secret, pods, staleCr, staleCm, Others, ghost>>

(* The Update that rolls a new image out; refused or not, the key returns. *)
UpdateImage ==
  /\ pc = "image"
  /\ IF "exd" \notin outdated
     THEN PutDep(key, [exd EXCEPT !.image = ca.image])
     ELSE UNCHANGED <<dep, staleDep>>
  /\ Requeue
  /\ UNCHANGED <<cr, cm, secret, pods, staleCr, staleCm, Others, ghost>>

\* Faulty variant: a change of address is saved and the pod forgotten.
SaveAnnotationOnly ==
  /\ pc = "annotate"
  /\ IF "exd" \notin outdated
     THEN PutDep(key, [exd EXCEPT !.annoGen = ca.gen, !.annoUrl = ca.url])
     ELSE UNCHANGED <<dep, staleDep>>
  /\ Requeue
  /\ UNCHANGED <<cr, cm, secret, pods, staleCr, staleCm, Others, ghost>>

(* saveOrUpdateClusterAgentSpecAnnotation and its Update: from here on the *)
(* change of address counts as handled.                                    *)
SaveAnnotation ==
  /\ pc = "annotate"
  /\ IF "exd" \notin outdated
     THEN /\ PutDep(key, [exd EXCEPT !.annoGen = ca.gen, !.annoUrl = ca.url])
          /\ Goto("restart") /\ UNCHANGED <<ca, outdated>>
     ELSE Requeue /\ UNCHANGED <<dep, staleDep>>
  /\ UNCHANGED <<cr, cm, secret, pods, staleCr, staleCm, Others, ghost>>

(* restartAgent deletes the first pod the cache lists, in no fixed order.  *)
(* An empty list, a pod that is gone or a role without the verb: an error. *)
ListedPods == {p \in PodIds : seenPod[p] = key}
RestartAgent ==
  /\ pc = "restart"
  /\ \/ /\ PodDeleteAllowed
        /\ \E p \in ListedPods :
             /\ pods[p] # None
             /\ pods' = [pods EXCEPT ![p].terminating = TRUE]
        /\ restarted' = [restarted EXCEPT ![key] = ca.gen]
     \/ /\ \/ ListedPods = {} \/ ~PodDeleteAllowed
           \/ \E p \in ListedPods : pods[p] = None
        /\ UNCHANGED <<pods, restarted>>
  /\ Requeue
  /\ UNCHANGED <<cr, dep, cm, secret, cache, edits, faults, cfgGen>>

\* Faulty variant: the CR is written whatever its version.
UpdateCrUnconditionally ==
  /\ pc = "update"
  /\ IF cr[key] # None
     THEN PutCr(key, ca) /\ Goto("status") /\ UNCHANGED <<ca, outdated>>
     ELSE Done /\ UNCHANGED <<cr, staleCr>>
  /\ UNCHANGED <<dep, cm, secret, pods, staleDep, staleCm, Others, ghost>>

\* Faulty variant: updateStatus returns after the Update.
UpdateCrOnly ==
  /\ pc = "update"
  /\ IF "ca" \notin outdated THEN PutCr(key, ca) ELSE UNCHANGED <<cr, staleCr>>
  /\ Done
  /\ UNCHANGED <<dep, cm, secret, pods, staleDep, staleCm, Others, ghost>>

(* updateStatus: Update of the CR with the defaulted spec; the status it   *)
(* reads back is the stored one.  A refusal is logged and dropped.         *)
UpdateCr ==
  /\ pc = "update"
  /\ IF "ca" \notin outdated
     THEN PutCr(key, ca) /\ Goto("status") /\ UNCHANGED <<ca, outdated>>
     ELSE Done /\ UNCHANGED <<cr, staleCr>>
  /\ UNCHANGED <<dep, cm, secret, pods, staleDep, staleCm, Others, ghost>>

\* Faulty variant: every round writes a new LastUpdateTime.
UpdateStatusAfresh ==
  /\ pc = "status"
  /\ IF "ca" \notin outdated THEN PutCr(key, [ca EXCEPT !.stamped = ~ca.stamped])
     ELSE UNCHANGED <<cr, staleCr>>
  /\ Done
  /\ UNCHANGED <<dep, cm, secret, pods, staleDep, staleCm, Others, ghost>>

(* Status().Update: LastUpdateTime is set once and kept by later rounds. *)
UpdateStatus ==
  /\ pc = "status"
  /\ IF "ca" \notin outdated THEN PutCr(key, [ca EXCEPT !.stamped = TRUE])
     ELSE UNCHANGED <<cr, staleCr>>
  /\ Done
  /\ UNCHANGED <<dep, cm, secret, pods, staleDep, staleCm, Others, ghost>>

Reconcile ==
  \/ CleanUp \/ EnsureSecret \/ ReloadSecret
  \/ EnsureAgentMonConfig \/ EnsureAgentConfig \/ EnsureLogConfig
  \/ CreateDeployment \/ UpdateImage \/ SaveAnnotation \/ RestartAgent
  \/ UpdateCr \/ UpdateStatus

-----------------------------------------------------------------------------
(* Failures.                                                               *)

\* Faulty variant: a failure is logged everywhere and returned nowhere.
CallFailsDropped ==
  /\ pc # "idle" /\ faults < MaxFaults
  /\ faults' = faults + 1
  /\ Done
  /\ UNCHANGED <<api, cache, edits, ghost>>

(* The next call fails, or the last one was applied and its answer lost.   *)
(* cleanUp and updateStatus only log it; elsewhere Reconcile returns it.   *)
CallFails ==
  /\ pc # "idle" /\ faults < MaxFaults
  /\ faults' = faults + 1
  /\ \/ pc = "cleanup" /\ Goto("secret") /\ UNCHANGED <<ca, outdated>>
     \/ pc \in {"gone", "update", "status"} /\ Done
     \/ pc \notin {"gone", "cleanup", "status"} /\ Requeue
  /\ UNCHANGED <<api, cache, edits, ghost>>

(* What an up-to-date cache shows of the pods: whose labels they carry. *)
PodLabels == [p \in PodIds |-> IF pods[p] = None THEN None ELSE pods[p].of]

(* The operator dies; the next one lists every object and gets an event    *)
(* for each of them.                                                       *)
Crash ==
  /\ faults < MaxFaults
  /\ faults' = faults + 1
  /\ Stop
  /\ delayed' = {}
  /\ dirty' = {a \in Agents : cr[a] # None \/ dep[a] # None}
  /\ seenCr' = cr /\ seenDep' = dep /\ seenCm' = cm /\ seenSecret' = secret
  /\ seenPod' = PodLabels
  /\ staleCr' = {} /\ staleDep' = {} /\ staleCm' = {}
  /\ UNCHANGED <<api, edits, ghost>>

(* The informers' periodic resync queues every object in the cache. *)
Resync ==
  /\ faults < MaxFaults
  /\ faults' = faults + 1
  /\ dirty' = dirty \cup {a \in Agents : seenCr[a] # None \/ seenDep[a] # None}
  /\ UNCHANGED <<api, cache, worker, delayed, edits, ghost>>

-----------------------------------------------------------------------------
(* Caches and timers.  An informer catches up with everything of its kind  *)
(* at once; only the events of CRs and Deployments are watched.            *)

SyncCr ==
  /\ staleCr # {}
  /\ seenCr' = cr /\ staleCr' = {} /\ dirty' = dirty \cup staleCr
  /\ UNCHANGED <<api, seenDep, seenCm, seenSecret, seenPod, staleDep, staleCm,
                 delayed, worker, edits, faults, ghost>>

SyncDep ==
  /\ staleDep # {}
  /\ seenDep' = dep /\ staleDep' = {} /\ dirty' = dirty \cup staleDep
  /\ UNCHANGED <<api, seenCr, seenCm, seenSecret, seenPod, staleCr, staleCm,
                 delayed, worker, edits, faults, ghost>>

SyncCm ==
  /\ staleCm # {}
  /\ seenCm' = cm /\ staleCm' = {}
  /\ UNCHANGED <<api, seenCr, seenDep, seenSecret, seenPod, staleCr, staleDep,
                 queue, worker, edits, faults, ghost>>

SyncSecret ==
  /\ seenSecret # secret /\ seenSecret' = secret
  /\ UNCHANGED <<api, seenCr, seenDep, seenCm, seenPod, staleCr, staleDep,
                 staleCm, queue, worker, edits, faults, ghost>>

SyncPods ==
  /\ seenPod # PodLabels /\ seenPod' = PodLabels
  /\ UNCHANGED <<api, seenCr, seenDep, seenCm, seenSecret, staleCr, staleDep,
                 staleCm, queue, worker, edits, faults, ghost>>

Sync == SyncCr \/ SyncDep \/ SyncCm \/ SyncSecret \/ SyncPods

(* A delay is over: the key is due, once however often it was added. *)
DelayOver(a) ==
  /\ a \in delayed
  /\ delayed' = delayed \ {a} /\ dirty' = dirty \cup {a}
  /\ UNCHANGED <<api, cache, worker, edits, faults, ghost>>

-----------------------------------------------------------------------------
(* Users.                                                                  *)

CreateCr(a) ==
  /\ cr[a] = None /\ edits < MaxEdits
  /\ edits' = edits + 1
  /\ \E s \in UserSpecs :
       PutCr(a, [gen |-> edits', uid |-> edits', url |-> s.url,
                 image |-> s.image, conf |-> s.conf, stamped |-> FALSE])
  /\ Outdate(a, "ca")
  /\ UNCHANGED <<dep, cm, secret, pods, seen, staleDep, staleCm, queue,
                 pc, key, ca, exd, faults, ghost>>

EditCr(a) ==
  /\ cr[a] # None /\ edits < MaxEdits
  /\ edits' = edits + 1
  /\ \E s \in UserSpecs :
       PutCr(a, [cr[a] EXCEPT !.gen = edits', !.url = s.url,
                                  !.image = s.image, !.conf = s.conf])
  /\ Outdate(a, "ca")
  /\ UNCHANGED <<dep, cm, secret, pods, seen, staleDep, staleCm, queue,
                 pc, key, ca, exd, faults, ghost>>

DeleteCr(a) ==
  /\ cr[a] # None /\ edits < MaxEdits
  /\ edits' = edits + 1
  /\ PutCr(a, None)
  /\ Outdate(a, "ca")
  /\ UNCHANGED <<dep, cm, secret, pods, seen, staleDep, staleCm, queue,
                 pc, key, ca, exd, faults, ghost>>

DeleteDeployment(a) ==
  /\ dep[a] # None /\ edits < MaxEdits
  /\ edits' = edits + 1
  /\ PutDep(a, None) /\ OrphanPods(a) /\ Outdate(a, "exd")
  /\ UNCHANGED <<cr, cm, secret, seen, staleCr, staleCm, queue,
                 pc, key, ca, exd, faults, ghost>>

(* The user fills the Secret in, or deletes and recreates it with a new key.*)
SetSecret ==
  /\ \E k \in Keys \ {0} : /\ secret # None => secret < k
                          /\ secret' = k
  /\ UNCHANGED <<cr, dep, cm, pods, cache, queue, worker, edits, faults, ghost>>

-----------------------------------------------------------------------------
(* The cluster: garbage collection, the Deployment controller, kubelets.   *)

(* A Deployment goes with the CR that owns it, which it names by its uid. *)
CollectGarbage(a) ==
  /\ dep[a] # None
  /\ cr[a] # None => cr[a].uid # dep[a].owner
  /\ PutDep(a, None) /\ OrphanPods(a) /\ Outdate(a, "exd")
  /\ UNCHANGED <<cr, cm, secret, seen, staleCr, staleCm, queue,
                 pc, key, ca, exd, edits, faults, ghost>>

(* The Deployment's status follows its pods; watchers get an event. *)
DeploymentStatus(a) ==
  LET ready == \E p \in PodIds : Running(p, a) IN
  /\ dep[a] # None /\ dep[a].ready # ready
  /\ PutDep(a, [dep[a] EXCEPT !.ready = ready])
  /\ Outdate(a, "exd")
  /\ UNCHANGED <<cr, cm, secret, pods, seen, staleCr, staleCm, queue,
                 pc, key, ca, exd, edits, faults, ghost>>

(* One replica: a pod of the current template when there is none.  A pod's *)
(* name is free again when no cache shows the pod any more.                *)
SpawnPod(p, a) ==
  /\ dep[a] # None /\ pods[p] = None /\ seenPod[p] = None
  /\ \A q \in PodIds : Live(q, a) => pods[q].image # dep[a].image
  /\ pods' = [pods EXCEPT ![p] =
       [of |-> a, image |-> dep[a].image, env |-> None,
        terminating |-> FALSE, orphan |-> FALSE]]
  /\ UNCHANGED <<cr, dep, cm, secret, cache, queue, worker, edits, faults, ghost>>

(* The container starts: its environment is read here and never again.     *)
(* All the ConfigMaps and the Secret's key must exist.                     *)
StartPod(p) ==
  /\ pods[p] # None /\ pods[p].env = None /\ ~pods[p].terminating
  /\ \A n \in CmNames : cm[n] # None
  /\ secret # None
  /\ pods' = [pods EXCEPT ![p].env =
       [url |-> cm["config"].url, conf |-> cm["config"].conf,
        secretKey |-> secret]]
  /\ UNCHANGED <<cr, dep, cm, secret, cache, queue, worker, edits, faults, ghost>>

(* A pod goes with its ReplicaSet, or when the rollout replaced it. *)
RetirePod(p) ==
  /\ pods[p] # None /\ ~pods[p].terminating
  /\ \/ pods[p].orphan
     \/ \E q \in PodIds \ {p} :
          /\ Running(q, pods[p].of)
          /\ pods[q].image = dep[pods[p].of].image
          /\ pods[p].image # pods[q].image
  /\ pods' = [pods EXCEPT ![p].terminating = TRUE]
  /\ UNCHANGED <<cr, dep, cm, secret, cache, queue, worker, edits, faults, ghost>>

RemovePod(p) ==
  /\ pods[p] # None /\ pods[p].terminating
  /\ pods' = [pods EXCEPT ![p] = None]
  /\ UNCHANGED <<cr, dep, cm, secret, cache, queue, worker, edits, faults, ghost>>

-----------------------------------------------------------------------------
Init ==
  /\ cr = [a \in Agents |-> None] /\ seenCr = cr
  /\ dep = [a \in Agents |-> None] /\ seenDep = dep
  /\ cm = [n \in CmNames |-> None] /\ seenCm = cm
  /\ secret \in {None} \cup (Keys \cap {1}) /\ seenSecret = secret
  /\ pods = [p \in PodIds |-> None] /\ seenPod = pods
  /\ staleCr = {} /\ staleDep = {} /\ staleCm = {}
  /\ dirty = {} /\ delayed = {}
  /\ pc = "idle" /\ key = None
  /\ ca = None /\ exd = None /\ outdated = {}
  /\ edits = 0 /\ faults = 0
  /\ cfgGen = 0 /\ restarted = [a \in Agents |-> 0]

Users == SetSecret \/ \E a \in Agents : \/ CreateCr(a) \/ EditCr(a) \/ DeleteCr(a)
                                       \/ DeleteDeployment(a)
Cluster == \/ \E a \in Agents : CollectGarbage(a) \/ DeploymentStatus(a)
           \/ \E p \in PodIds : \/ \E a \in Agents : SpawnPod(p, a)
                               \/ StartPod(p) \/ RetirePod(p) \/ RemovePod(p)
Operator == \/ \E a \in Agents : Fetch(a) \/ DelayOver(a)
            \/ Reconcile \/ Sync

Next == Operator \/ Users \/ Cluster \/ CallFails \/ Crash \/ Resync

(* The worker and the informers are goroutines that are always scheduled;  *)
(* the queue is a FIFO, so that a key that keeps being queued is taken;    *)
(* delays end; the cluster's own controllers run.  Nothing is assumed of   *)
(* the users and of the failures.                                          *)
Fairness ==
  /\ WF_vars(Reconcile)
  /\ WF_vars(SyncCr) /\ WF_vars(SyncDep) /\ WF_vars(SyncCm)
  /\ WF_vars(SyncSecret) /\ WF_vars(SyncPods)
  /\ \A a \in Agents : /\ SF_vars(Fetch(a)) /\ WF_vars(DelayOver(a))
                      /\ WF_vars(CollectGarbage(a))
                      /\ WF_vars(DeploymentStatus(a))
  /\ \A p \in PodIds : /\ \A a \in Agents : WF_vars(SpawnPod(p, a))
                      /\ WF_vars(StartPod(p)) /\ WF_vars(RetirePod(p))
                      /\ WF_vars(RemovePod(p))

Spec == Init /\ [][Next]_vars
FairSpec == Spec /\ Fairness
(* Users who wait until the last change has reached the pods. *)
Quiet == /\ pc = "idle" /\ dirty = {} /\ delayed = {}
         /\ staleCr = {} /\ staleDep = {} /\ staleCm = {}
         /\ seenSecret = secret /\ seenPod = PodLabels
Settled == /\ Quiet
           /\ \A a \in Agents : dep[a] # None => \E p \in PodIds : Running(p, a)
           /\ \A p \in PodIds : pods[p] # None => Running(p, pods[p].of)
PatientNext == \/ Operator \/ Cluster \/ CallFails \/ Crash \/ Resync
               \/ Settled /\ Users
PatientSpec == Init /\ [][PatientNext]_vars /\ Fairness

-----------------------------------------------------------------------------
(* Properties.                                                             *)

ApiOK ==
  /\ cr \in [Agents -> CrValues \cup {None}]
  /\ dep \in [Agents -> DepValues \cup {None}]
  /\ cm \in [CmNames -> CmValues \cup {None}]
  /\ secret \in Keys \cup {None}
  /\ pods \in [PodIds -> PodValues \cup {None}]
CacheOK ==
  /\ seenCr \in [Agents -> CrValues \cup {None}]
  /\ seenDep \in [Agents -> DepValues \cup {None}]
  /\ seenCm \in [CmNames -> CmValues \cup {None}]
  /\ seenSecret \in Keys \cup {None}
  /\ seenPod \in [PodIds -> Agents \cup {None}]
  /\ staleCr \subseteq Agents /\ staleDep \subseteq Agents
  /\ staleCm \subseteq CmNames
QueueOK == dirty \subseteq Agents /\ delayed \subseteq Agents
WorkerOK ==
  /\ pc \in Steps
  /\ IF pc = "idle" THEN key = None ELSE key \in Agents
  /\ IF pc \in {"idle", "gone"} THEN ca = None ELSE ca \in CrValues
  /\ exd \in DepValues \cup {None}
  /\ pc \in {"image", "annotate"} => exd # None
  /\ outdated \subseteq {"ca", "exd"}
CountersOK ==
  /\ edits \in 0..MaxEdits /\ faults \in 0..MaxFaults
  /\ cfgGen \in Gens /\ restarted \in [Agents -> Gens]

(* The values every variable takes.  That no step of the worker lacks the  *)
(* copies it dereferences is part of it.                                   *)
TypeOK == ApiOK /\ CacheOK /\ QueueOK /\ WorkerOK /\ CountersOK

(* The steps that follow ensureConfigMap. *)
PastConfig == {"create", "image", "annotate", "restart", "update", "status"}

(* Once a reconcile has passed ensureConfigMap, the three ConfigMaps hold  *)
(* what its copy of the CR renders to, whatever the users, the cluster and *)
(* the caches do until the Deployment is created or changed.               *)
ConfigInstalled ==
  pc \in PastConfig => \A n \in CmNames : cm[n] = Rendered(n, ca)

(* Why it holds: each of the three writes stands until the reconcile ends. *)
ConfigSoFar ==
  /\ pc \in {"config", "log"} \cup PastConfig => cm["mon"] = Rendered("mon", ca)
  /\ pc \in {"log"} \cup PastConfig => cm["config"] = Rendered("config", ca)
  /\ pc \in PastConfig => cm["log"] = Rendered("log", ca)

(* The agent follows the edits of its CR: the ConfigMap its pods read the  *)
(* address from never goes back to an older edit, and the annotation that  *)
(* marks an address as handled never runs ahead of the ConfigMap: a pod    *)
(* that starts after the mark gets this address or a later one.  (One CR:  *)
(* two CRs share the ConfigMap.)                                           *)
TheAgent  == CHOOSE a \in Agents : TRUE
Installed == IF cm["config"] = None THEN 0 ELSE cfgGen
Applied   == IF dep[TheAgent] = None THEN 0 ELSE dep[TheAgent].annoGen
Follower  == INSTANCE Follower WITH
  wanted <- edits, installed <- Installed, applied <- Applied
FollowsEdits == Follower!Spec

(* Why it holds: no copy of the CR is older than the ConfigMap or newer    *)
(* than the copy it was made from ...                                      *)
EditsOrdered ==
  /\ cfgGen <= edits
  /\ \A a \in Agents :
       /\ cr[a] # None => cfgGen <= cr[a].gen /\ cr[a].gen <= edits
       /\ seenCr[a] # None => cfgGen <= seenCr[a].gen /\ seenCr[a].gen <= edits
       /\ cr[a] # None /\ seenCr[a] # None => seenCr[a].gen <= cr[a].gen
  /\ ca # None =>
       /\ cfgGen <= ca.gen /\ ca.gen <= edits
       /\ cr[key] # None => ca.gen <= cr[key].gen
       /\ seenCr[key] # None => ca.gen <= seenCr[key].gen

(* ... and the mark is saved in a current copy of the Deployment, for the  *)
(* edit that the ConfigMap has just received.                              *)
MarkCurrent ==
  /\ \A a \in Agents : dep[a] # None => dep[a].annoGen <= cfgGen
  /\ \A a \in Agents \ staleDep : seenDep[a] = dep[a]
  /\ exd # None => key \in Agents
  /\ exd # None /\ "exd" \notin outdated /\ pc # "restart" => dep[key] = exd
  /\ pc \in {"log"} \cup PastConfig => cfgGen = ca.gen

(* What a user wrote stays until a user changes it: no write of the        *)
(* operator, whose copy of the CR may be as old as a reconcile is long,    *)
(* takes an edit back; it only fills empty fields with their defaults.     *)
SameOrDefault(old, new) ==
  /\ new.uid = old.uid /\ new.url = old.url
  /\ new.image \in {old.image} \cup (IF old.image = NoImage THEN {DefaultImage} ELSE {})
  /\ new.conf \in {old.conf} \cup (IF old.conf = Unset THEN {DefaultConf} ELSE {})
  /\ old.stamped => new.stamped
EditsKept ==
  \A a \in Agents : cr[a] # None /\ cr'[a] # None =>
    \/ cr'[a].gen = edits' /\ edits' > edits
    \/ cr'[a].gen = cr[a].gen /\ SameOrDefault(cr[a], cr'[a])
UserEditsSurvive == [][EditsKept]_vars

(* Why it holds: a copy whose version is current has the fields of its CR. *)
CopiesCurrent ==
  /\ \A a \in Agents \ staleCr : seenCr[a] = cr[a]
  /\ ca # None /\ "ca" \notin outdated =>
       /\ cr[key] # None /\ ca.gen = cr[key].gen
       /\ SameOrDefault(cr[key], ca)

(* restartAgent deletes a pod at most once for each edit, however often    *)
(* calls fail, the operator dies or the key is retried: the annotation is  *)
(* saved first, under the optimistic lock.                                 *)
RestartOncePerEdit ==
  [][pc = "restart" /\ pc' = "idle" /\ pods' # pods => ca.gen > restarted[key]]_vars

(* The resources that will be looked at again: an event is on its way, the *)
(* queue holds the key, or the worker does.                                *)
Watched == staleCr \cup staleDep \cup dirty \cup delayed \cup {key}

(* No edit is forgotten: a CR that nobody will look at again has been dealt*)
(* with.  Its address was accepted, there is a Deployment with its image   *)
(* and its address, and unless something failed it has its status.  Who    *)
(* drops a request, an event or an error leaves a CR that waits for its    *)
(* next edit.                                                              *)
Attended(a) == cr[a] # None /\ a \notin Watched
Handled(a) ==
  /\ cr[a].url \notin InvalidUrls
  /\ dep[a] # None /\ dep[a].annoUrl = cr[a].url
  /\ cr[a].image # NoImage => dep[a].image = cr[a].image
  /\ faults = 0 => cr[a].stamped
EditsAttended == \A a \in Agents : Attended(a) => Handled(a)

(* The ConfigMaps of such a CR are the ones it asks for.  (One CR: two CRs *)
(* share the ConfigMaps.)                                                  *)
ConfigsAttended ==
  \A a \in Agents : Attended(a) =>
    \A n \in CmNames : cm[n] = Rendered(n, WithConfDefaults(cr[a]))

(* Why they hold: a copy that is out of date brings its key back, and a    *)
(* reconcile that reaches the status has found nothing left to do, or has  *)
(* just created the Deployment.                                            *)
GensGiven == \A a \in Agents : cr[a] # None => cr[a].gen <= edits
CopiesWatched ==
  /\ \A a \in Agents \ staleDep : seenDep[a] = dep[a]
  /\ pc = "idle" => outdated = {} /\ exd = None
  /\ "ca" \in outdated => key \in staleCr \cup dirty
  /\ pc = "gone" /\ key \notin staleCr \cup dirty => cr[key] = None
  /\ exd # None /\ key \notin staleDep \cup dirty => dep[key] = exd
NothingLeft ==
  /\ pc \in {"log"} \cup PastConfig => ca.url \notin InvalidUrls
  /\ pc \in {"config", "log"} \cup PastConfig => ca = WithConfDefaults(ca)
  /\ pc \in {"update", "status"} /\ key \notin staleDep \cup dirty =>
       exd # None /\ ~ImageChanged /\ ~AddressChanged

(* A Deployment that follows its CR: there is one, owned by it, with the   *)
(* image it asks for and with its address handled.                         *)
Follows(a) ==
  IF cr[a] = None THEN dep[a] = None
  ELSE cr[a].url \notin InvalidUrls =>
         /\ dep[a] # None
         /\ dep[a].owner = cr[a].uid /\ dep[a].annoUrl = cr[a].url
         /\ cr[a].image # NoImage => dep[a].image = cr[a].image
DeploymentConverges == <>[](\A a \in Agents : Follows(a))

(* The ConfigMaps follow the CR too, when no other CR shares them. *)
ConfigConverges ==
  <>[](\A a \in Agents : cr[a] # None /\ cr[a].url \notin InvalidUrls =>
         \A n \in CmNames : cm[n] = Rendered(n, WithConfDefaults(cr[a])))

AllValid == \A a \in Agents : cr[a] # None => cr[a].url \notin InvalidUrls

(* The operator's own writes raise events that bring the key back; they    *)
(* come to an end when every url is valid.                                 *)
Quiesces == <>[](AllValid => Quiet)

(* Every CR gets its status although a refused status update is dropped,   *)
(* as long as no call fails and the operator does not crash.               *)
StatusConverges ==
  <>[](faults = 0 => \A a \in Agents :
         cr[a] # None /\ cr[a].url \notin InvalidUrls => cr[a].stamped)

(* A new address reaches the agent: its running pod has it.                *)
AddressReachesPods ==
  <>[](\A a \in Agents, p \in PodIds :
         cr[a] # None /\ cr[a].url \notin InvalidUrls /\ Running(p, a)
         => pods[p].env.url = cr[a].url)

(* The ConfigMap an agent needs to start is there as long as its CR is.    *)
ConfigMapStays ==
  <>[](\A a \in Agents : cr[a] # None /\ cr[a].url \notin InvalidUrls
                          => cm["config"] # None)
=============================================================================
