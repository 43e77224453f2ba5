-------------------------------- MODULE Adam --------------------------------
(***************************************************************************)
(* The controller that keeps an Adam resource and its Deployment, Service, *)
(* ConfigMap and Secret in step, in the environment of ClusterAgent.tla:   *)
(* lagging caches, versions, a work queue, users and failures, one         *)
(* action per API call of Reconcile.                                       *)
(*                                                                         *)
(* What differs from the Clusteragent: the ConfigMap, a property bag, is   *)
(* itself the mark that an edit was handled; nothing but the resource is   *)
(* watched, so that a Deployment that goes is noticed by the periodic      *)
(* resync only.                                                            *)
(***************************************************************************)
EXTENDS PropertyBag

CONSTANTS
  None,              \* the value of an object that does not exist
  UserSpecs,         \* the specs users apply: records [conf, image]
  NoImage,           \* spec.image is empty
  DefaultImage,      \* the image newAgentDeployment falls back to
  InDefaultNamespace, \* whether the resource is in namespace appdynamics
  MaxEdits,          \* bound: user edits of the resource and the Deployment
  MaxSecrets,        \* bound: versions of the Secret
  MaxFaults          \* bound: failed calls and crashes

ASSUME BoundsAssumption ==
  /\ MaxEdits \in Nat /\ MaxSecrets \in Nat /\ MaxFaults \in Nat
  /\ InDefaultNamespace \in BOOLEAN

VARIABLES
  cr, dep, cm, svc, secret,                      \* the API server
  seenCr, seenDep, seenCm, seenSvc, seenSecret,  \* the informer caches
  staleCr, staleDep, staleCm,                    \* which of them lag
  dirty, delayed,                                \* the work queue
  pc, ca, exd, bag, outdated,                    \* the worker
  edits, faults,                                 \* bounded counters
  restarted                                      \* history variable

api    == <<cr, dep, cm, svc, secret>>
seen   == <<seenCr, seenDep, seenCm, seenSvc, seenSecret>>
cache  == <<seen, staleCr, staleDep, staleCm>>
queue  == <<dirty, delayed>>
worker == <<pc, ca, exd, bag, outdated>>
vars   == <<api, cache, queue, worker, edits, faults, restarted>>

-----------------------------------------------------------------------------
(* Values.                                                                 *)

Gens     == 0..MaxEdits
Versions == 0..MaxSecrets
Confs    == {s.conf : s \in UserSpecs}
Images   == {s.image : s \in UserSpecs} \cup {NoImage, DefaultImage}

CrValues  == [gen : Gens, uid : Gens, conf : Confs, image : Images]
DepValues == [image : Images, owner : Gens]
Bags      == {UpdatedBag(c, v, b) : c \in Confs, v \in Versions, b \in BOOLEAN}
CmValues  == [gen : Gens, bag : Bags]

ASSUME NoneAssumption ==
  /\ None \notin CrValues /\ None \notin DepValues
  /\ None \notin CmValues /\ None \notin Versions /\ None \notin Bags

Steps == {"idle", "gone", "cleanup", "secret", "reload", "config", "service",
          "create", "map", "restart", "image", "update", "status"}

WithImageDefault(v) ==
  IF v.image = NoImage THEN [v EXCEPT !.image = DefaultImage] ELSE v

-----------------------------------------------------------------------------
(* The worker's bookkeeping, and writes.                                   *)

Goto(step) == pc' = step /\ UNCHANGED <<exd, queue>>

Stop == /\ pc' = "idle" /\ ca' = None /\ exd' = None
        /\ bag' = None /\ outdated' = {}

Done    == Stop /\ UNCHANGED queue
Requeue == Stop /\ delayed' = TRUE /\ UNCHANGED dirty

Keep == UNCHANGED <<ca, bag, outdated>>

PutCr(v) ==
  IF cr = v THEN UNCHANGED <<cr, staleCr>> ELSE cr' = v /\ staleCr' = TRUE
PutDep(v) ==
  IF dep = v THEN UNCHANGED <<dep, staleDep>> ELSE dep' = v /\ staleDep' = TRUE
PutCm(v) ==
  IF cm = v THEN UNCHANGED <<cm, staleCm>> ELSE cm' = v /\ staleCm' = TRUE

(* A write by someone else makes the copy of the worker outdated. *)
Outdate(copy) == outdated' = IF pc = "idle" THEN {} ELSE outdated \cup {copy}

Others == <<seen, edits, faults>>

-----------------------------------------------------------------------------
(* Reconcile.                                                              *)

(* The resource and its Deployment are read from the cache. *)
Fetch ==
  /\ pc = "idle" /\ dirty
  /\ dirty' = FALSE /\ UNCHANGED delayed
  /\ IF seenCr = None
     THEN pc' = "gone" /\ UNCHANGED <<ca, exd, outdated>>
     ELSE /\ ca' = seenCr /\ exd' = seenDep
          /\ outdated' = {c \in {"ca", "exd"} :
                            IF c = "ca" THEN staleCr ELSE staleDep}
          /\ pc' = IF seenDep = None THEN "cleanup" ELSE "secret"
  /\ UNCHANGED <<api, cache, bag, edits, faults, restarted>>

(* cleanUp, without a Deployment, or without a resource: then it looks in  *)
(* namespace appdynamics.                                                  *)
CleanUp ==
  /\ pc \in {"gone", "cleanup"}
  /\ IF seenCm # None /\ (pc = "cleanup" \/ InDefaultNamespace)
     THEN PutCm(None) ELSE UNCHANGED <<cm, staleCm>>
  /\ IF pc = "gone" THEN Done ELSE Goto("secret") /\ Keep
  /\ UNCHANGED <<cr, dep, svc, secret, staleCr, staleDep, Others, restarted>>

(* ensureSecret creates an empty Secret when the cache has none ... *)
EnsureSecret ==
  /\ pc = "secret"
  /\ \/ /\ seenSecret # None
        /\ Goto("config") /\ Keep /\ UNCHANGED secret
     \/ /\ seenSecret = None /\ secret = None
        /\ secret' = 0 /\ Goto("reload") /\ Keep
     \/ /\ seenSecret = None /\ secret # None
        /\ Requeue /\ UNCHANGED secret
  /\ UNCHANGED <<cr, dep, cm, svc, cache, edits, faults, restarted>>

\* Faulty variant: the Secret is not read back.
ReloadSecretSkipped ==
  /\ pc = "reload" /\ Goto("config") /\ Keep
  /\ UNCHANGED <<api, cache, edits, faults, restarted>>

(* ... and reads it back through the cache. *)
ReloadSecret ==
  /\ pc = "reload"
  /\ \/ seenSecret # None /\ Goto("config") /\ Keep
     \/ seenSecret = None /\ Requeue
  /\ UNCHANGED <<api, cache, edits, faults, restarted>>

(* ensureConfigMap: what the cache shows is taken as it is, also when      *)
(* cleanUp has just deleted it; otherwise the ConfigMap is created.        *)
AfterConfig == IF exd = None THEN "service" ELSE "map"
EnsureConfigMap ==
  /\ pc = "config"
  /\ \/ /\ seenCm # None
        /\ bag' = LoadedBag(seenCm.bag, seenSecret)
        /\ outdated' = outdated \cup (IF staleCm THEN {"cm"} ELSE {})
        /\ Goto(AfterConfig) /\ UNCHANGED <<ca, cm, staleCm>>
     \/ /\ seenCm = None /\ cm = None
        /\ bag' = UpdatedBag(ca.conf, seenSecret, TRUE)
        /\ PutCm([gen |-> ca.gen, bag |-> bag'])
        /\ Goto(AfterConfig) /\ UNCHANGED <<ca, outdated>>
     \/ /\ seenCm = None /\ cm # None
        /\ Requeue /\ UNCHANGED <<cm, staleCm>>
  /\ UNCHANGED <<cr, dep, svc, secret, staleCr, staleDep, Others, restarted>>

(* ensureAgentService creates the Service once; nothing updates it. *)
EnsureAgentService ==
  /\ pc = "service"
  /\ \/ seenSvc /\ Goto("create") /\ Keep /\ UNCHANGED svc
     \/ ~seenSvc /\ ~svc /\ svc' = TRUE /\ Goto("create") /\ Keep
     \/ ~seenSvc /\ svc /\ Requeue /\ UNCHANGED svc
  /\ UNCHANGED <<cr, dep, cm, secret, cache, edits, faults, restarted>>

(* newAgentDeployment and its Create. *)
CreateDeployment ==
  /\ pc = "create"
  /\ LET v == WithImageDefault(ca) IN
     IF dep # None THEN Requeue /\ UNCHANGED <<dep, staleDep>>
     ELSE /\ PutDep([image |-> v.image, owner |-> v.uid])
          /\ Goto("update") /\ ca' = v /\ UNCHANGED <<bag, outdated>>
  /\ UNCHANGED <<cr, cm, svc, secret, staleCr, staleCm, Others, restarted>>

\* Faulty variant: an image is set only where the Deployment has none.
ImageChangedFromNone == ca.image # NoImage /\ exd.image = NoImage

(* hasBreakingChanges: a new image takes precedence. *)
ImageChanged == ca.image # NoImage /\ ca.image # exd.image
AfterMap ==
  IF ImageChanged THEN "image"
  ELSE IF HasBreakingChanges(ca.conf, bag, bag.secretVersion) THEN "restart"
  ELSE "update"

\* Faulty variant: the ConfigMap is written for breaking changes only.
UpdateMapIfBreaking ==
  /\ pc = "map"
  /\ IF "cm" \notin outdated
     THEN /\ IF AfterMap = "restart"
             THEN PutCm([gen |-> ca.gen,
                         bag |-> UpdatedBag(ca.conf, bag.secretVersion, FALSE)])
             ELSE UNCHANGED <<cm, staleCm>>
          /\ Goto(AfterMap) /\ Keep
     ELSE Requeue /\ UNCHANGED <<cm, staleCm>>
  /\ UNCHANGED <<cr, dep, svc, secret, staleCr, staleDep, Others, restarted>>

\* Faulty variant: the error of the Update is only logged.
UpdateMapLogged ==
  /\ pc = "map"
  /\ IF "cm" \notin outdated
     THEN PutCm([gen |-> ca.gen,
                 bag |-> UpdatedBag(ca.conf, bag.secretVersion, FALSE)])
     ELSE UNCHANGED <<cm, staleCm>>
  /\ Goto(AfterMap) /\ Keep
  /\ UNCHANGED <<cr, dep, svc, secret, staleCr, staleDep, Others, restarted>>

(* updateMap: from here on a breaking change counts as handled.  Only the  *)
(* worker writes the ConfigMap, so that a copy that was current is.        *)
UpdateMap ==
  /\ pc = "map"
  /\ IF "cm" \notin outdated
     THEN /\ PutCm([gen |-> ca.gen,
                    bag |-> UpdatedBag(ca.conf, bag.secretVersion, FALSE)])
          /\ Goto(AfterMap) /\ Keep
     ELSE Requeue /\ UNCHANGED <<cm, staleCm>>
  /\ UNCHANGED <<cr, dep, svc, secret, staleCr, staleDep, Others, restarted>>

(* restartAgent deletes the first pod of the list in the cache, which may  *)
(* be empty, or name a pod that is gone: then none is restarted.           *)
RestartAgent ==
  /\ pc = "restart"
  /\ restarted' \in {restarted, ca.gen}
  /\ Requeue
  /\ UNCHANGED <<api, cache, edits, faults>>

UpdateImage ==
  /\ pc = "image"
  /\ IF "exd" \notin outdated
     THEN PutDep([exd EXCEPT !.image = ca.image])
     ELSE UNCHANGED <<dep, staleDep>>
  /\ Requeue
  /\ UNCHANGED <<cr, cm, svc, secret, staleCr, staleCm, Others, restarted>>

\* Faulty variant: the resource is written whatever its version.
UpdateCrUnconditionally ==
  /\ pc = "update"
  /\ IF cr # None
     THEN PutCr(ca) /\ Goto("status") /\ Keep
     ELSE Done /\ UNCHANGED <<cr, staleCr>>
  /\ UNCHANGED <<dep, cm, svc, secret, staleDep, staleCm, Others, restarted>>

(* updateStatus: the agent's state over HTTP, then the Update.  Its errors *)
(* are dropped.                                                            *)
UpdateCr ==
  /\ pc = "update"
  /\ IF "ca" \notin outdated
     THEN PutCr(ca) /\ Goto("status") /\ Keep
     ELSE Done /\ UNCHANGED <<cr, staleCr>>
  /\ UNCHANGED <<dep, cm, svc, secret, staleDep, staleCm, Others, restarted>>

(* Status().Update: an event for the resource if it changes the status.    *)
(* The first one does; later ones need not, since the Update before has    *)
(* decoded the stored status, with its time, into the copy.                *)
UpdateStatus ==
  /\ pc = "status"
  /\ staleCr' \in {staleCr} \cup (IF "ca" \in outdated THEN {} ELSE {TRUE})
  /\ Done
  /\ UNCHANGED <<api, seen, staleDep, staleCm, edits, faults, restarted>>

Reconcile ==
  \/ CleanUp \/ EnsureSecret \/ ReloadSecret \/ EnsureConfigMap
  \/ EnsureAgentService \/ CreateDeployment
  \/ UpdateMap \/ RestartAgent \/ UpdateImage \/ UpdateCr \/ UpdateStatus

-----------------------------------------------------------------------------
(* Failures, caches and timers.                                            *)

(* The next call fails, or the answer to the last one was lost.  cleanUp   *)
(* and updateStatus do not return it.                                      *)
CallFails ==
  /\ pc # "idle" /\ faults < MaxFaults
  /\ faults' = faults + 1
  /\ \/ pc = "cleanup" /\ Goto("secret") /\ Keep
     \/ pc \in {"gone", "update", "status"} /\ Done
     \/ pc \notin {"gone", "cleanup", "status"} /\ Requeue
  /\ UNCHANGED <<api, cache, edits, restarted>>

(* The operator dies; the next one lists all objects, and gets an event    *)
(* for the resource.                                                       *)
Crash ==
  /\ faults < MaxFaults
  /\ faults' = faults + 1
  /\ Stop
  /\ delayed' = FALSE /\ dirty' = (cr # None)
  /\ seenCr' = cr /\ seenDep' = dep /\ seenCm' = cm /\ seenSvc' = svc
  /\ seenSecret' = secret
  /\ staleCr' = FALSE /\ staleDep' = FALSE /\ staleCm' = FALSE
  /\ UNCHANGED <<api, edits, restarted>>

(* Every ten hours the informer of the resource sends it again. *)
Resync ==
  /\ seenCr # None /\ ~dirty
  /\ dirty' = TRUE
  /\ UNCHANGED <<api, cache, worker, delayed, edits, faults, restarted>>

SyncCr ==
  /\ staleCr
  /\ seenCr' = cr /\ staleCr' = FALSE /\ dirty' = TRUE
  /\ UNCHANGED <<api, seenDep, seenCm, seenSvc, seenSecret, staleDep,
                 staleCm, delayed, worker, edits, faults, restarted>>

SyncDep ==
  /\ staleDep
  /\ seenDep' = dep /\ staleDep' = FALSE
  /\ UNCHANGED <<api, seenCr, seenCm, seenSvc, seenSecret, staleCr,
                 staleCm, queue, worker, edits, faults, restarted>>

SyncCm ==
  /\ staleCm
  /\ seenCm' = cm /\ staleCm' = FALSE
  /\ UNCHANGED <<api, seenCr, seenDep, seenSvc, seenSecret, staleCr,
                 staleDep, queue, worker, edits, faults, restarted>>

SyncSvc ==
  /\ seenSvc # svc /\ seenSvc' = svc
  /\ UNCHANGED <<api, seenCr, seenDep, seenCm, seenSecret, staleCr,
                 staleDep, staleCm, queue, worker, edits, faults, restarted>>

SyncSecret ==
  /\ seenSecret # secret /\ seenSecret' = secret
  /\ UNCHANGED <<api, seenCr, seenDep, seenCm, seenSvc, staleCr,
                 staleDep, staleCm, queue, worker, edits, faults, restarted>>

Sync == SyncCr \/ SyncDep \/ SyncCm \/ SyncSvc \/ SyncSecret

DelayOver ==
  /\ delayed
  /\ delayed' = FALSE /\ dirty' = TRUE
  /\ UNCHANGED <<api, cache, worker, edits, faults, restarted>>

-----------------------------------------------------------------------------
(* Users and the cluster.                                                  *)

WriteCr(v) ==
  /\ edits < MaxEdits /\ edits' = edits + 1
  /\ PutCr(v) /\ Outdate("ca")
  /\ UNCHANGED <<dep, cm, svc, secret, seen, staleDep, staleCm, queue,
                 pc, ca, exd, bag, faults, restarted>>

CreateCr ==
  /\ cr = None
  /\ \E s \in UserSpecs :
       WriteCr([gen |-> edits + 1, uid |-> edits + 1, conf |-> s.conf,
                image |-> s.image])
EditCr ==
  /\ cr # None
  /\ \E s \in UserSpecs :
       WriteCr([cr EXCEPT !.gen = edits + 1, !.conf = s.conf, !.image = s.image])
DeleteCr == cr # None /\ WriteCr(None)

RemoveDep ==
  /\ dep # None
  /\ PutDep(None) /\ Outdate("exd")
  /\ UNCHANGED <<cr, cm, svc, secret, seen, staleCr, staleCm, queue,
                 pc, ca, exd, bag, faults, restarted>>
DeleteDeployment ==
  /\ edits < MaxEdits /\ edits' = edits + 1
  /\ RemoveDep

(* The Secret is filled in, or replaced. *)
SetSecret ==
  /\ \E v \in Versions \ {0} : (secret # None => secret < v) /\ secret' = v
  /\ UNCHANGED <<cr, dep, cm, svc, cache, queue, worker, edits, faults,
                 restarted>>

CollectGarbage ==
  /\ cr # None => dep # None /\ cr.uid # dep.owner
  /\ RemoveDep /\ UNCHANGED edits

-----------------------------------------------------------------------------
Init ==
  /\ cr = None /\ dep = None /\ cm = None /\ svc = FALSE
  /\ secret \in {None} \cup (Versions \cap {1})
  /\ seenCr = cr /\ seenDep = dep /\ seenCm = cm /\ seenSvc = svc
  /\ seenSecret = secret
  /\ staleCr = FALSE /\ staleDep = FALSE /\ staleCm = FALSE
  /\ dirty = FALSE /\ delayed = FALSE
  /\ pc = "idle" /\ ca = None /\ exd = None /\ bag = None /\ outdated = {}
  /\ edits = 0 /\ faults = 0 /\ restarted = 0

Users == CreateCr \/ EditCr \/ DeleteCr \/ DeleteDeployment \/ SetSecret
Next == \/ Fetch \/ Reconcile \/ Sync \/ DelayOver \/ Resync
        \/ Users \/ CollectGarbage \/ CallFails \/ Crash

(* As in ClusterAgent.tla; the resync comes again and again.  That the     *)
(* worker moves on assumes that the agent answers, or refuses, its HTTP    *)
(* request for the status: the code sets no timeout.                       *)
Fairness ==
  /\ WF_vars(Fetch) /\ WF_vars(Reconcile) /\ WF_vars(DelayOver)
  /\ WF_vars(Resync)
  /\ WF_vars(SyncCr) /\ WF_vars(SyncDep) /\ WF_vars(SyncCm)
  /\ WF_vars(SyncSvc) /\ WF_vars(SyncSecret)
  /\ WF_vars(CollectGarbage)

Spec == Init /\ [][Next]_vars
FairSpec == Spec /\ Fairness

-----------------------------------------------------------------------------
(* Properties.                                                             *)

(* The values every variable takes; the worker has the copies its next     *)
(* step dereferences.                                                      *)
TypeOK ==
  /\ {cr, seenCr, ca} \subseteq CrValues \cup {None}
  /\ {dep, seenDep, exd} \subseteq DepValues \cup {None}
  /\ {cm, seenCm} \subseteq CmValues \cup {None}
  /\ {secret, seenSecret} \subseteq Versions \cup {None}
  /\ bag \in Bags \cup {None}
  /\ {svc, seenSvc, staleCr, staleDep, staleCm, dirty, delayed} \subseteq BOOLEAN
  /\ pc \in Steps
  /\ (ca = None) = (pc \in {"idle", "gone"})
  /\ pc \in {"map", "image", "restart"} => exd # None /\ bag # None
  /\ pc = "config" => seenSecret # None
  /\ outdated \subseteq {"ca", "exd", "cm"}
  /\ edits \in 0..MaxEdits /\ faults \in 0..MaxFaults /\ restarted \in Gens

(* The ConfigMap and the restarts of the agent follow the edits of the     *)
(* resource: the ConfigMap never goes back to an older edit, the agent is  *)
(* restarted for an edit when this edit is in the ConfigMap.               *)
Follower == INSTANCE Follower WITH
  wanted    <- edits,
  installed <- IF cm = None THEN 0 ELSE cm.gen,
  applied   <- restarted
FollowsEdits == Follower!Spec

(* The agent is restarted at most once for an edit, however often calls    *)
(* fail, caches lag and the key is retried.                                *)
RestartedOnce == pc = "restart" => ca.gen > restarted

(* No write of the operator takes an edit of a user back. *)
EditsKept ==
  cr # None /\ cr' # None =>
    \/ cr'.gen = edits' /\ edits' > edits
    \/ /\ [cr' EXCEPT !.image = NoImage] = [cr EXCEPT !.image = NoImage]
       /\ cr'.image \in {cr.image} \cup
            (IF cr.image = NoImage THEN {DefaultImage} ELSE {})
UserEditsSurvive == [][EditsKept]_vars

(* There is a Deployment in the end, owned by the resource and with the    *)
(* image it asks for, although nothing watches Deployments and the errors  *)
(* of the status are dropped: and none without a resource.                 *)
DeploymentFollows ==
  IF cr = None THEN dep = None
  ELSE /\ dep # None /\ svc
       /\ dep.owner = cr.uid
       /\ cr.image # NoImage => dep.image = cr.image
DeploymentConverges == <>[]DeploymentFollows

(* The ConfigMap holds what the resource asks for in the end, in its       *)
(* benign fields, too, and although the first reconcile may take a         *)
(* ConfigMap it has just deleted for the current one.                      *)
MapConverges ==
  <>[](cr # None => /\ cm # None
                    /\ cm.bag.props = UpdatedBag(cr.conf, 0, FALSE).props
                    /\ cm.bag.secretVersion = secret)
=============================================================================
