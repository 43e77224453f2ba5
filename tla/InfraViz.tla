------------------------------- MODULE InfraViz -------------------------------
(***************************************************************************)
(* The controller that keeps an InfraViz custom resource (CR) and its      *)
(* DaemonSet, ConfigMaps, Service and Secret in step, for one CR, in the   *)
(* environment of module ClusterAgent: users, lagging caches, the queue,   *)
(* the cluster's controllers, failing calls and crashes.                   *)
(*                                                                         *)
(* It differs from the Clusteragent controller where it is harder to get   *)
(* right: the DaemonSet is written without a version; what changed is told *)
(* by comparing with the spec saved in an annotation and with the cached   *)
(* ConfigMap; one field gets its default after the annotation was made; a  *)
(* restart deletes one pod per node, one call each; and errors of several  *)
(* calls are printed and forgotten.                                        *)
(*                                                                         *)
(* Resource versions are modelled as in ClusterAgent, by the copies whose  *)
(* object was written since they were read.                                *)
(***************************************************************************)
EXTENDS Naturals

CONSTANTS
  None,             \* the value of an object that does not exist
  UserSpecs,        \* the specs users apply: [address, viz, log, image,
                    \*   netviz, ssl]
  InvalidAddresses, \* those ensureConfigMap refuses
  NoImage,          \* spec.image is empty
  DefaultImage,     \* the image newPodSpecForCR falls back to
  Unset,            \* spec.enableServerViz is empty; its default is "true"
  Nodes,            \* the nodes the DaemonSet runs on
  MaxEdits,         \* bound: user edits of the CR and of the DaemonSet
  MaxFaults         \* bound: failed calls, crashes and resyncs

ASSUME BoundsAssumption == MaxEdits \in Nat /\ MaxFaults \in Nat

VARIABLES
  cr, ds, cm, ssl, made, pods,                 \* the API server
  seenCr, seenDs, seenCm, seenSsl, seenMade,   \* informer caches
  listed, phantom,                             \* the cached pods
  staleCr, staleDs, staleCm,                   \* stale entries of the caches
  dirty, delayed,                              \* the work queue
  pc, ca, exd, want, mac, breaking, todo, outdated,  \* the worker
  edits, faults                                \* bounded counters

api    == <<cr, ds, cm, ssl, made, pods>>
cache  == <<seenCr, seenDs, seenCm, seenSsl, seenMade, listed, phantom,
            staleCr, staleDs, staleCm>>
queue  == <<dirty, delayed>>
local  == <<ca, exd, want, mac, breaking, todo, outdated>>
worker == <<pc, local>>
vars   == <<api, cache, queue, worker, edits, faults>>

-----------------------------------------------------------------------------
(* Values.  address stands for every field ma-config carries but the two   *)
(* named here, image and netviz (netVizPort, 0 for none) for the template  *)
(* fields hasDSpecChanged compares, ssl for those it does not.  gen        *)
(* numbers the edits, uid the creations; stamped says that the CR has a    *)
(* status.lastUpdateTime.                                                  *)

Gens == 0..MaxEdits
Specs == [address : {s.address : s \in UserSpecs}, viz : {Unset, "true"},
          log : {s.log : s \in UserSpecs},
          image : {s.image : s \in UserSpecs} \cup {NoImage, DefaultImage},
          netviz : {s.netviz : s \in UserSpecs}, ssl : BOOLEAN]
CrValues == [gen : Gens, uid : Gens, spec : Specs, stamped : BOOLEAN]

ASSUME SpecsAssumption == UserSpecs \subseteq Specs

DsValues == [spec : Specs, owner : Gens, ready : BOOLEAN]

ASSUME NoneAssumption == None \notin CrValues \cup DsValues

CmNames  == {"netviz", "log", "ma"}
CmValues == [log : {s.log : s \in UserSpecs} \cup {None},
             viz : {"true", None},
             address : {s.address : s \in UserSpecs} \cup {None},
             netviz : {s.netviz : s \in UserSpecs} \cup {0}]
PodValues == [image : {s.image : s \in Specs}, ssl : BOOLEAN,
              netviz : {s.netviz : s \in UserSpecs},
              address : {s.address : s \in UserSpecs} \cup {None}]

Steps == {"idle", "service", "secret", "create", "netviz", "log", "ma", "ssl",
          "daemonset", "restart", "respec", "update", "status"}

(* newInfraVizDaemonSet and newPodSpecForCR fill the copy in memory before *)
(* the annotation is made of it, ensureConfigMap once more afterwards.     *)
WithPodDefaults(v) ==
  IF v.spec.image = NoImage THEN [v EXCEPT !.spec.image = DefaultImage] ELSE v
WithVizDefault(v) == [v EXCEPT !.spec.viz = "true"]

(* What the ConfigMaps hold for the spec s: the agent_config.lua of        *)
(* NetViz, log4j.xml, the environment.                                     *)
Rendered(n, s) ==
  CASE n = "netviz" ->
         [log |-> None, viz |-> None, address |-> None, netviz |-> s.netviz]
    [] n = "log" ->
         [log |-> s.log, viz |-> None, address |-> None, netviz |-> 0]
    [] n = "ma" -> [log |-> s.log, viz |-> "true", address |-> s.address,
                    netviz |-> s.netviz]

(* The ConfigMaps a CR asks for. *)
Wanted(s) == CmNames \ (IF s.netviz = 0 THEN {"netviz"} ELSE {})

-----------------------------------------------------------------------------
(* The worker's bookkeeping and the writes.                                *)

Stop == /\ pc' = "idle" /\ ca' = None /\ exd' = None /\ want' = None
        /\ mac' = None /\ breaking' = FALSE /\ todo' = {} /\ outdated' = {}
Done    == Stop /\ UNCHANGED queue
Requeue == Stop /\ delayed' = TRUE /\ UNCHANGED dirty
Goto(step) == pc' = step /\ UNCHANGED queue

PutCr(v) == IF cr = v THEN UNCHANGED <<cr, staleCr>>
            ELSE cr' = v /\ staleCr' = TRUE

(* The annotation also has the version and the status of the CR, so that a *)
(* write of the same spec changes the object, too, or not.                 *)
PutDs(v) == /\ ds' = v
            /\ staleDs' \in IF ds = v THEN {staleDs, TRUE} ELSE {TRUE}

PutCm(n, v) == IF cm[n] = v THEN UNCHANGED <<cm, staleCm>>
               ELSE cm' = [cm EXCEPT ![n] = v] /\ staleCm' = staleCm \cup {n}

(* A pod that goes stays in the cache, and in the list being worked on.    *)
PodGone(n) ==
  /\ pods' = [pods EXCEPT ![n] = None]
  /\ listed' = listed \ {n}
  /\ phantom' = (phantom \/ n \in listed)
StillListed(n) == IF n \in todo THEN (todo \ {n}) \cup {None} ELSE todo

Caches == <<seenCr, seenDs, seenCm, seenSsl, seenMade>>
Lists  == <<listed, phantom>>
Stales == <<staleCr, staleDs, staleCm>>
Rest   == <<Caches, edits, faults>>

-----------------------------------------------------------------------------
(* Reconcile.                                                              *)

(* The CR is read from the cache; desiredDS, with the annotation, is made  *)
(* of the copy before anything is compared.                                *)
Fetch ==
  /\ pc = "idle" /\ dirty
  /\ dirty' = FALSE /\ UNCHANGED delayed
  /\ IF seenCr = None THEN UNCHANGED worker
     ELSE LET v == WithPodDefaults(seenCr) IN
          /\ pc' = "service" /\ ca' = v
          /\ want' = [spec |-> v.spec, owner |-> v.uid, ready |-> FALSE]
          /\ outdated' = IF staleCr THEN {"ca"} ELSE {}
          /\ UNCHANGED <<exd, mac, breaking, todo>>
  /\ UNCHANGED <<api, cache, edits, faults>>

(* ensureAgentService, ensureSecret: create what the cache does not show;  *)
(* an error is printed.                                                    *)
Made(x) == made' = IF x \in seenMade THEN made ELSE made \cup {x}

EnsureAgentService ==
  /\ pc = "service" /\ Made("service") /\ Goto("secret")
  /\ UNCHANGED <<cr, ds, cm, ssl, pods, cache, local, edits, faults>>

\* Faulty variant: an absent DaemonSet is not told apart.
AfterSecretBlind == "log"
(* The DaemonSet is read next, from the cache; then the address is parsed. *)
AfterSecret ==
  IF seenDs = None THEN "create"
  ELSE IF ca.spec.address \notin InvalidAddresses /\ ca.spec.netviz # 0
       THEN "netviz" ELSE "log"

EnsureSecret ==
  /\ pc = "secret" /\ Made("secret") /\ Goto(AfterSecret)
  /\ exd' = seenDs
  /\ UNCHANGED <<cr, ds, cm, ssl, pods, cache, ca, want, mac, breaking, todo,
                 outdated, edits, faults>>

(* The first reconcile creates the DaemonSet and no ConfigMap. *)
CreateDaemonSet ==
  /\ pc = "create"
  /\ IF ds = None THEN PutDs(want) /\ Done
     ELSE Requeue /\ UNCHANGED <<ds, staleDs>>
  /\ UNCHANGED <<cr, cm, ssl, made, pods, staleCr, staleCm, Lists, Rest>>

(* The outcome of a write of a ConfigMap read from the cache just before.  *)
CmAccepted(n) == IF seenCm[n] = None THEN cm[n] = None ELSE n \notin staleCm

(* ensureConfigMap.  netviz-config is written every time; its error is     *)
(* dropped.                                                                *)
EnsureNetVizConfig ==
  /\ pc = "netviz"
  /\ IF CmAccepted("netviz") THEN PutCm("netviz", Rendered("netviz", ca.spec))
     ELSE UNCHANGED <<cm, staleCm>>
  /\ Goto("log")
  /\ UNCHANGED <<cr, ds, ssl, made, pods, staleCr, staleDs, Lists, local, Rest>>

(* A spec other than the annotation's is breaking, but a new log level     *)
(* takes that back; another environment than the one in ma-config is       *)
(* breaking, too, but for NetViz.  enableServerViz has no default yet.     *)
Breaking ==
  IF seenCm["ma"] = None THEN exd.spec # ca.spec
  ELSE \/ seenCm["ma"].log = ca.spec.log /\ exd.spec # ca.spec
       \/ seenCm["ma"].address # ca.spec.address
       \/ seenCm["ma"].viz # ca.spec.viz

\* Faulty variant: the level is only looked at when there is a ma-config.
LogOnUpdateOnly == seenCm["ma"] # None /\ seenCm["ma"].log # ca.spec.log

(* An invalid address is refused; ma-log-config is written for a new level,*)
LogChanged == seenCm["ma"] = None \/ seenCm["ma"].log # ca.spec.log
LogAccepted == CmAccepted("log")
EnsureLogConfig ==
  /\ pc = "log"
  /\ IF ca.spec.address \in InvalidAddresses \/ (LogChanged /\ ~LogAccepted)
     THEN Requeue /\ UNCHANGED <<cm, staleCm>>
     ELSE /\ IF LogChanged THEN PutCm("log", Rendered("log", ca.spec))
             ELSE UNCHANGED <<cm, staleCm>>
          /\ Goto("ma")
          /\ breaking' = Breaking /\ mac' = seenCm["ma"]
          /\ outdated' = outdated \cup IF "ma" \in staleCm THEN {"ma"} ELSE {}
          /\ UNCHANGED <<ca, exd, want, todo>>
  /\ UNCHANGED <<cr, ds, ssl, made, pods, staleCr, staleDs, Lists, Rest>>

(* hasDSpecChanged, and the order of what follows ensureConfigMap.  (With   *)
(* enableMasters or pks, which are left out, it is always true: the        *)
(* template then has tolerations or arguments the spec has not.)           *)
DSpecChanged ==
  exd.spec.image # ca.spec.image \/ exd.spec.netviz # ca.spec.netviz
AfterRestart == IF DSpecChanged THEN "respec" ELSE "update"
AfterConfig == IF breaking THEN "daemonset" ELSE AfterRestart

\* Faulty variant: ma-config is written when it is created, never updated.
EnsureMaConfigOnCreate ==
  /\ pc = "ma"
  /\ IF mac = None /\ cm["ma"] # None THEN Requeue /\ UNCHANGED <<cm, staleCm>>
     ELSE /\ IF mac = None THEN PutCm("ma", Rendered("ma", ca.spec))
             ELSE UNCHANGED <<cm, staleCm>>
          /\ Goto(IF ca.spec.ssl THEN "ssl" ELSE AfterConfig)
          /\ ca' = WithVizDefault(ca) /\ mac' = None
          /\ UNCHANGED <<exd, want, breaking, todo, outdated>>
  /\ UNCHANGED <<cr, ds, ssl, made, pods, staleCr, staleDs, Lists, Rest>>

(* ... and writes ma-config, with the copy read before ma-log-config. *)
EnsureMaConfig ==
  /\ pc = "ma"
  /\ IF IF mac = None THEN cm["ma"] # None ELSE "ma" \in outdated
     THEN Requeue /\ UNCHANGED <<cm, staleCm>>
     ELSE /\ PutCm("ma", Rendered("ma", ca.spec))
          /\ Goto(IF ca.spec.ssl THEN "ssl" ELSE AfterConfig)
          /\ ca' = WithVizDefault(ca) /\ mac' = None
          /\ UNCHANGED <<exd, want, breaking, todo, outdated>>
  /\ UNCHANGED <<cr, ds, ssl, made, pods, staleCr, staleDs, Lists, Rest>>

(* ensureSSLConfig: a ma-ssl-config the cache shows is deleted and then    *)
(* updated, which fails as it is gone; the error is dropped.               *)
EnsureSSLConfig ==
  /\ pc = "ssl"
  /\ ssl' = IF seenSsl THEN FALSE ELSE TRUE
  /\ Goto(AfterConfig)
  /\ UNCHANGED <<cr, ds, cm, made, pods, cache, local, edits, faults>>

(* Update(desiredDS), whatever the version; then the pods are listed.      *)
UpdateDaemonSet ==
  /\ pc = "daemonset"
  /\ IF ds = None THEN Requeue /\ UNCHANGED <<ds, staleDs>>
     ELSE LET list == listed \cup (IF phantom THEN {None} ELSE {}) IN
          /\ PutDs([want EXCEPT !.ready = ds.ready])
          /\ outdated' = outdated \ {"ds"}
          /\ todo' = list
          /\ Goto(IF list = {} THEN AfterRestart ELSE "restart")
          /\ UNCHANGED <<ca, exd, want, mac, breaking>>
  /\ UNCHANGED <<cr, cm, ssl, made, pods, staleCr, staleCm, Lists, Rest>>

\* Faulty variant: only the first pod of the list is deleted.
RestartFirstPod ==
  /\ pc = "restart"
  /\ \/ None \in todo /\ Requeue /\ UNCHANGED <<pods, Lists>>
     \/ \E n \in todo :
          /\ IF n = None THEN UNCHANGED <<pods, Lists>> ELSE PodGone(n)
          /\ todo' = {} /\ Goto(AfterRestart)
          /\ UNCHANGED <<ca, exd, want, mac, breaking, outdated>>
  /\ UNCHANGED <<cr, ds, cm, ssl, made, Stales, Rest>>

(* restartDaemonSet: one Delete per listed pod; the first that fails, as   *)
(* for a pod that is gone already, ends it.  A pod that still terminates   *)
(* is deleted once more, to no effect.                                     *)
RestartPod ==
  /\ pc = "restart"
  /\ \/ None \in todo /\ Requeue /\ UNCHANGED <<pods, Lists>>
     \/ \E n \in todo :
          /\ IF n = None THEN UNCHANGED <<pods, Lists>> ELSE PodGone(n)
          /\ todo' = todo \ {n}
          /\ Goto(IF todo' = {} THEN AfterRestart ELSE "restart")
          /\ UNCHANGED <<ca, exd, want, mac, breaking, outdated>>
  /\ UNCHANGED <<cr, ds, cm, ssl, made, Stales, Rest>>

(* The Update for a changed template.  After the other Update, desiredDS   *)
(* has the version that one returned.                                      *)
RespecDaemonSet ==
  /\ pc = "respec"
  /\ IF ds = None \/ (breaking /\ "ds" \in outdated)
     THEN Requeue /\ UNCHANGED <<ds, staleDs>>
     ELSE /\ PutDs([want EXCEPT !.ready = ds.ready])
          /\ Goto("update") /\ UNCHANGED local
  /\ UNCHANGED <<cr, cm, ssl, made, pods, staleCr, staleCm, Lists, Rest>>

\* Faulty variant: the CR is written whatever its version.
UpdateCrUnconditionally ==
  /\ pc = "update"
  /\ IF cr # None THEN PutCr(ca) /\ Goto("status") /\ UNCHANGED local
     ELSE Done /\ UNCHANGED <<cr, staleCr>>
  /\ UNCHANGED <<ds, cm, ssl, made, pods, staleDs, staleCm, Lists, Rest>>

(* updateStatus; its error is dropped by Reconcile. *)
UpdateCr ==
  /\ pc = "update"
  /\ IF "ca" \in outdated THEN Done /\ UNCHANGED <<cr, staleCr>>
     ELSE PutCr(ca) /\ Goto("status") /\ UNCHANGED local
  /\ UNCHANGED <<ds, cm, ssl, made, pods, staleDs, staleCm, Lists, Rest>>

(* Status().Update with the present time: an event for the CR, unless it   *)
(* is still the second of the last one.                                    *)
UpdateStatus ==
  /\ pc = "status"
  /\ IF "ca" \in outdated THEN UNCHANGED <<cr, staleCr>>
     ELSE LET v == [ca EXCEPT !.stamped = TRUE] IN
          PutCr(v) \/ (cr' = v /\ staleCr' = TRUE)
  /\ Done
  /\ UNCHANGED <<ds, cm, ssl, made, pods, staleDs, staleCm, Lists, Rest>>

Reconcile ==
  \/ Fetch \/ EnsureAgentService \/ EnsureSecret \/ CreateDaemonSet
  \/ EnsureNetVizConfig \/ EnsureLogConfig \/ EnsureMaConfig \/ EnsureSSLConfig
  \/ UpdateDaemonSet \/ RestartPod \/ RespecDaemonSet
  \/ UpdateCr \/ UpdateStatus

-----------------------------------------------------------------------------
(* Failures.                                                               *)

\* Faulty variant: a failure is printed everywhere and returned nowhere.
CallFailsDropped ==
  /\ pc # "idle" /\ faults < MaxFaults
  /\ faults' = faults + 1
  /\ Done
  /\ UNCHANGED <<api, cache, edits>>

(* The next call fails, or the last one was applied and its answer lost.   *)
(* The errors of the Service, the Secret, netviz-config and the SSL        *)
(* ConfigMap are not returned, and updateStatus's is dropped; that of the  *)
(* write before the SSL ConfigMap or the status is returned.               *)
CallFails ==
  /\ pc # "idle" /\ faults < MaxFaults
  /\ faults' = faults + 1
  /\ \/ pc = "service" /\ Goto("secret") /\ UNCHANGED local
     \/ /\ pc = "secret" /\ Goto(AfterSecret) /\ exd' = seenDs
        /\ UNCHANGED <<ca, want, mac, breaking, todo, outdated>>
     \/ pc = "netviz" /\ Goto("log") /\ UNCHANGED local
     \/ pc = "ssl" /\ Goto(AfterConfig) /\ UNCHANGED local
     \/ pc \in {"update", "status"} /\ Done
     \/ pc \notin {"service", "secret", "netviz", "status"} /\ Requeue
  /\ UNCHANGED <<api, cache, edits>>

(* The operator dies; the next one lists every object. *)
Crash ==
  /\ faults < MaxFaults
  /\ faults' = faults + 1
  /\ Stop /\ delayed' = FALSE
  /\ dirty' = (cr # None \/ ds # None)
  /\ seenCr' = cr /\ seenDs' = ds /\ seenCm' = cm /\ seenSsl' = ssl
  /\ seenMade' = made /\ listed' = {n \in Nodes : pods[n] # None}
  /\ phantom' = FALSE
  /\ staleCr' = FALSE /\ staleDs' = FALSE /\ staleCm' = {}
  /\ UNCHANGED <<api, edits>>

(* The informers' periodic resync. *)
Resync ==
  /\ faults < MaxFaults
  /\ faults' = faults + 1
  /\ dirty' = (dirty \/ seenCr # None \/ seenDs # None)
  /\ UNCHANGED <<api, cache, worker, delayed, edits>>

-----------------------------------------------------------------------------
(* Caches and timers.                                                      *)

SyncCr ==
  /\ staleCr /\ seenCr' = cr /\ staleCr' = FALSE /\ dirty' = TRUE
  /\ UNCHANGED <<api, seenDs, seenCm, seenSsl, seenMade, Lists, staleDs, staleCm,
                 delayed, worker, edits, faults>>

\* Faulty variant: DaemonSets are cached but not watched.
SyncDsUnwatched ==
  /\ staleDs /\ seenDs' = ds /\ staleDs' = FALSE
  /\ UNCHANGED <<api, seenCr, seenCm, seenSsl, seenMade, Lists, staleCr, staleCm,
                 queue, worker, edits, faults>>

SyncDs ==
  /\ staleDs /\ seenDs' = ds /\ staleDs' = FALSE /\ dirty' = TRUE
  /\ UNCHANGED <<api, seenCr, seenCm, seenSsl, seenMade, Lists, staleCr, staleCm,
                 delayed, worker, edits, faults>>

(* The kinds that are read but not watched by this controller. *)
SyncConfig ==
  /\ staleCm # {} \/ seenSsl # ssl \/ seenMade # made
  /\ seenCm' = cm /\ staleCm' = {} /\ seenSsl' = ssl /\ seenMade' = made
  /\ UNCHANGED <<api, seenCr, seenDs, Lists, staleCr, staleDs, queue, worker,
                 edits, faults>>

SyncPods ==
  /\ phantom \/ \E n \in Nodes \ listed : pods[n] # None
  /\ listed' = {n \in Nodes : pods[n] # None} /\ phantom' = FALSE
  /\ UNCHANGED <<api, Caches, Stales, queue, worker, edits, faults>>

DelayOver ==
  /\ delayed /\ delayed' = FALSE /\ dirty' = TRUE
  /\ UNCHANGED <<api, cache, worker, edits, faults>>

-----------------------------------------------------------------------------
(* Users.                                                                  *)

(* A write by someone else makes the worker's copy outdated. *)
Outdate(copy) == outdated' = IF pc = "idle" THEN {} ELSE outdated \cup {copy}

WriteCr(v) ==
  /\ edits < MaxEdits /\ edits' = edits + 1
  /\ PutCr(v) /\ Outdate("ca")
  /\ UNCHANGED <<ds, cm, ssl, made, pods, Caches, Lists, staleDs, staleCm, queue,
                 pc, ca, exd, want, mac, breaking, todo, faults>>

CreateCr == cr = None /\ \E s \in UserSpecs :
  WriteCr([gen |-> edits + 1, uid |-> edits + 1, spec |-> s, stamped |-> FALSE])
EditCr == cr # None /\ \E s \in UserSpecs :
  WriteCr([cr EXCEPT !.gen = edits + 1, !.spec = s])
DeleteCr == cr # None /\ WriteCr(None)

RemoveDs ==
  /\ ds # None /\ PutDs(None) /\ Outdate("ds")
  /\ UNCHANGED <<cr, cm, ssl, made, pods, Caches, Lists, staleCr, staleCm, queue,
                 pc, ca, exd, want, mac, breaking, todo, faults>>

DeleteDaemonSet == edits < MaxEdits /\ edits' = edits + 1 /\ RemoveDs

-----------------------------------------------------------------------------
(* The cluster.                                                            *)

CollectGarbage ==
  /\ ds # None /\ (cr # None => cr.uid # ds.owner)
  /\ RemoveDs /\ UNCHANGED edits

DaemonSetStatus ==
  LET ready == \A n \in Nodes : pods[n] # None IN
  /\ ds # None /\ ds.ready # ready
  /\ PutDs([ds EXCEPT !.ready = ready]) /\ Outdate("ds")
  /\ UNCHANGED <<cr, cm, ssl, made, pods, Caches, Lists, staleCr, staleCm, queue,
                 pc, ca, exd, want, mac, breaking, todo, edits, faults>>

(* A pod's template; the address is not in it but in its environment. *)
Template(d) == [image |-> d.spec.image, netviz |-> d.spec.netviz,
                ssl |-> d.spec.ssl, address |-> None]

(* A pod is created and its container started, with the environment of the *)
(* moment; the ConfigMaps it mounts or reads and the Secret must exist.    *)
StartPod(n) ==
  /\ ds # None /\ pods[n] = None
  /\ \A c \in Wanted(ds.spec) : cm[c] # None
  /\ "secret" \in made
  /\ ds.spec.ssl => ssl
  /\ pods' = [pods EXCEPT ![n] =
                 [Template(ds) EXCEPT !.address = cm["ma"].address]]
  /\ UNCHANGED <<cr, ds, cm, ssl, made, cache, queue, worker, edits, faults>>

(* The DaemonSet is gone or has another template. *)
RetirePod(n) ==
  /\ pods[n] # None
  /\ ds # None => Template(ds) # [pods[n] EXCEPT !.address = None]
  /\ PodGone(n) /\ todo' = StillListed(n)
  /\ UNCHANGED <<cr, ds, cm, ssl, made, Caches, Stales, queue,
                 pc, ca, exd, want, mac, breaking, outdated, edits, faults>>

-----------------------------------------------------------------------------
Init ==
  /\ cr = None /\ ds = None /\ cm = [n \in CmNames |-> None] /\ ssl = FALSE
  /\ made = {} /\ pods = [n \in Nodes |-> None]
  /\ seenCr = cr /\ seenDs = ds /\ seenCm = cm /\ seenSsl = ssl /\ seenMade = made
  /\ listed = {} /\ phantom = FALSE
  /\ staleCr = FALSE /\ staleDs = FALSE /\ staleCm = {}
  /\ dirty = FALSE /\ delayed = FALSE
  /\ pc = "idle" /\ ca = None /\ exd = None /\ want = None /\ mac = None
  /\ breaking = FALSE /\ todo = {} /\ outdated = {}
  /\ edits = 0 /\ faults = 0

Sync  == SyncCr \/ SyncDs \/ SyncConfig \/ SyncPods \/ DelayOver
Users == CreateCr \/ EditCr \/ DeleteCr \/ DeleteDaemonSet
Cluster == \/ CollectGarbage \/ DaemonSetStatus
           \/ \E n \in Nodes : StartPod(n) \/ RetirePod(n)

Next == Reconcile \/ Sync \/ Users \/ Cluster \/ CallFails \/ Crash \/ Resync

(* The worker, the informers, the timers and the cluster are always        *)
(* scheduled; nothing is assumed of the users and of the failures.         *)
Fairness ==
  /\ WF_vars(Reconcile)
  /\ WF_vars(SyncCr) /\ WF_vars(SyncDs) /\ WF_vars(SyncConfig)
  /\ WF_vars(SyncPods) /\ WF_vars(DelayOver)
  /\ WF_vars(CollectGarbage) /\ WF_vars(DaemonSetStatus)
  /\ WF_vars(\E n \in Nodes : StartPod(n) \/ RetirePod(n))

Spec == Init /\ [][Next]_vars
FairSpec == Spec /\ Fairness

(* Users who wait until the last change has reached the pods. *)
Settled == /\ pc = "idle" /\ ~dirty /\ ~delayed
           /\ ~staleCr /\ ~staleDs /\ staleCm = {} /\ seenSsl = ssl
           /\ seenMade = made /\ ~phantom
           /\ listed = IF ds = None THEN {} ELSE Nodes
           /\ \A n \in Nodes :
                IF ds = None THEN pods[n] = None
                ELSE Template(ds) = [pods[n] EXCEPT !.address = None]
PatientNext == \/ Reconcile \/ Sync \/ Cluster \/ CallFails \/ Crash \/ Resync
               \/ Settled /\ Users
PatientSpec == Init /\ [][PatientNext]_vars /\ Fairness

-----------------------------------------------------------------------------
(* Properties.                                                             *)

ApiOK ==
  /\ cr \in CrValues \cup {None} /\ ds \in DsValues \cup {None}
  /\ cm \in [CmNames -> CmValues \cup {None}]
  /\ ssl \in BOOLEAN /\ made \subseteq {"service", "secret"}
  /\ pods \in [Nodes -> PodValues \cup {None}]
CacheOK ==
  /\ seenCr \in CrValues \cup {None} /\ seenDs \in DsValues \cup {None}
  /\ seenCm \in [CmNames -> CmValues \cup {None}]
  /\ seenSsl \in BOOLEAN /\ seenMade \subseteq {"service", "secret"}
  /\ listed \subseteq {n \in Nodes : pods[n] # None} /\ phantom \in BOOLEAN
  /\ staleCr \in BOOLEAN /\ staleDs \in BOOLEAN /\ staleCm \subseteq CmNames
WorkerOK ==
  /\ pc \in Steps
  /\ IF pc = "idle" THEN ca = None /\ want = None /\ outdated = {}
     ELSE ca \in CrValues /\ want \in DsValues
  /\ IF pc \in {"idle", "service", "secret", "create"} THEN exd = None
     ELSE exd \in DsValues
  /\ mac \in CmValues \cup {None}
  /\ breaking \in BOOLEAN /\ todo \subseteq Nodes \cup {None}
  /\ outdated \subseteq {"ca", "ds", "ma"}
QueueOK == /\ dirty \in BOOLEAN /\ delayed \in BOOLEAN
           /\ edits \in 0..MaxEdits /\ faults \in 0..MaxFaults

(* The values every variable takes; no step of the worker lacks the copies *)
(* it dereferences.                                                        *)
TypeOK == ApiOK /\ CacheOK /\ WorkerOK /\ QueueOK

(* The DaemonSet is changed and its pods are deleted only when ma-config,  *)
(* the environment of their successors, holds what the reconcile's copy of *)
(* the CR asks for.                                                        *)
ConfigBeforeRestart ==
  pc \in {"daemonset", "restart", "respec"} => cm["ma"] = Rendered("ma", ca.spec)

(* What a user wrote stays until a user changes it; the operator only      *)
(* fills empty fields with their defaults.                                 *)
EditsKept ==
  cr # None /\ cr' # None =>
    \/ cr'.gen = edits' /\ edits' > edits
    \/ /\ cr'.gen = cr.gen /\ cr'.uid = cr.uid
       /\ \/ cr'.spec = cr.spec
          \/ cr'.spec = WithVizDefault(WithPodDefaults(cr)).spec
UserEditsSurvive == [][EditsKept]_vars

(* A DaemonSet for each CR and for no other; it has the image and the      *)
(* NetViz port of the CR, and ma-config has its configuration.  (Of the    *)
(* other ConfigMaps less is true: netviz-config is not tried again, and    *)
(* for ma-log-config see LogLevelConverges.)                               *)
Valid == cr # None /\ cr.spec.address \notin InvalidAddresses
DaemonSetConverges ==
  <>[](/\ (cr = None) = (ds = None)
       /\ cr # None => ds.owner = cr.uid
       /\ Valid => /\ ds.spec.image = WithPodDefaults(cr).spec.image
                   /\ ds.spec.netviz = cr.spec.netviz)
ConfigConverges == <>[](Valid => cm["ma"] = Rendered("ma", cr.spec))

(* No edit is forgotten: a CR that neither the worker, the queue nor a late*)
(* event is about has been dealt with.  Its address was accepted, its      *)
(* DaemonSet has its image and its NetViz port, and ma-config is its own.  *)
(* Who drops a request, an event or an error leaves a CR that waits for    *)
(* its next edit.                                                          *)
Watched == staleCr \/ staleDs \/ dirty \/ delayed \/ pc # "idle"
EditsAttended ==
  cr # None /\ ~Watched =>
    /\ cr.spec.address \notin InvalidAddresses
    /\ ds # None
    /\ ds.spec.image = WithPodDefaults(cr).spec.image
    /\ ds.spec.netviz = cr.spec.netviz
    /\ cm["ma"] = Rendered("ma", cr.spec)

(* Why it holds: a copy that is out of date brings the key back, and a     *)
(* reconcile that reaches the status has a DaemonSet and a ma-config of    *)
(* its copy of the CR.                                                     *)
GensGiven == cr # None => cr.gen <= edits
CopiesWatched ==
  /\ "ca" \in outdated => staleCr \/ dirty
  /\ ~staleDs => seenDs = ds
  /\ exd # None /\ ~staleDs /\ ~dirty => ds = exd
  /\ want # None => /\ want.spec.image = ca.spec.image
                    /\ want.spec.netviz = ca.spec.netviz
PastConfig == {"ssl", "daemonset", "restart", "respec", "update", "status"}
MaConfigWritten == pc \in PastConfig => cm["ma"] = Rendered("ma", ca.spec)
NothingLeft ==
  /\ pc \in {"ma"} \cup PastConfig => ca.spec.address \notin InvalidAddresses
  /\ pc \in {"update", "status"} /\ ~staleDs /\ ~dirty =>
       /\ ds # None
       /\ ds.spec.image = ca.spec.image /\ ds.spec.netviz = ca.spec.netviz

(* A new log level reaches ma-log-config, whose writing hangs on the level *)
(* in ma-config, which is written after it.                                *)
LogLevelConverges == <>[](Valid => cm["log"] = Rendered("log", cr.spec))

(* A new address reaches the agents on all nodes. *)
AddressReachesPods ==
  <>[](Valid => \A n \in Nodes : /\ pods[n] # None
                                 /\ pods[n].address = cr.spec.address)

(* The other parts of the pod template follow the CR, too. *)
TemplateConverges ==
  <>[](Valid => ds # None /\ ds.spec.ssl = cr.spec.ssl)

(* The ma-ssl-config the pods of a CR with an SSL store mount is there.    *)
SslConfigStays == <>[](Valid /\ cr.spec.ssl => ssl)
=============================================================================
