------------------------- MODULE ClusterAgentFollows -------------------------
(***************************************************************************)
(* ClusterAgent implements Follower, for one resource and every set of     *)
(* specs and every bound.                                                  *)
(***************************************************************************)
EXTENDS ClusterAgentProofs

-----------------------------------------------------------------------------
(* The copies of the CR are ordered by age.                                *)

LEMMA GenNat ==
  ASSUME TypeOK
  PROVE  /\ edits \in Nat /\ cfgGen \in Nat
         /\ \A a \in Agents : cr[a] # None => cr[a].gen \in Nat
         /\ \A a \in Agents : seenCr[a] # None => seenCr[a].gen \in Nat
         /\ ca # None => ca.gen \in Nat
<1>1. \A v \in CrValues : v.gen \in Nat
  BY BoundsAssumption DEF CrValues, Gens
<1> QED
  BY <1>1, BoundsAssumption
     DEF TypeOK, ApiOK, CacheOK, WorkerOK, CountersOK, Gens

LEMMA DefaultsKeepGen ==
  ASSUME NEW v \in CrValues
  PROVE  WithConfDefaults(v).gen = v.gen /\ WithImageDefault(v).gen = v.gen
  BY DEF WithConfDefaults, WithImageDefault, CrValues

(* What keeps the order: a copy that is dropped, or only takes defaults. *)
LEMMA OrderKept ==
  ASSUME EditsOrdered, UNCHANGED <<cr, seenCr, cfgGen, edits>>,
         \/ ca' = None
         \/ ca # None /\ ca'.gen = ca.gen /\ UNCHANGED key
  PROVE  EditsOrdered'
  BY DEF EditsOrdered

LEMMA OrderReconcile ==
  ASSUME OneAgent, TypeOK, CopiesCurrent, EditsOrdered, Reconcile
  PROVE  EditsOrdered'
<1> USE NoneAssumption
<1>1. Stop => ca' = None
  BY DEF Stop
<1>2. ca # None => ca \in CrValues /\ key \in Agents
  BY DEF TypeOK, WorkerOK
<1>3. ASSUME NEW n, NEW v, NEW next, WriteCm(n, v, next)
      PROVE  Stop \/ (ca' = v /\ UNCHANGED key)
  BY <1>3 DEF WriteCm, Goto, Requeue
<1>4. CASE CleanUp
  <2>1. UNCHANGED <<cr, seenCr, cfgGen, edits>>
        /\ (Stop \/ (ca # None /\ UNCHANGED <<ca, key>>))
    BY <1>4 DEF CleanUp, Done, Goto, Others, seen, ghost, TypeOK, WorkerOK
  <2> QED
    BY <1>1, <2>1, OrderKept
<1>5. CASE EnsureSecret
  <2>1. UNCHANGED <<cr, seenCr, cfgGen, edits>>
        /\ (Stop \/ (ca # None /\ UNCHANGED <<ca, key>>))
    BY <1>5 DEF EnsureSecret, Requeue, Goto, cache, seen, ghost, TypeOK, WorkerOK
  <2> QED
    BY <1>1, <2>1, OrderKept
<1>6. CASE ReloadSecret
  <2>1. UNCHANGED <<cr, seenCr, cfgGen, edits>>
        /\ (Stop \/ (ca # None /\ UNCHANGED <<ca, key>>))
    BY <1>6 DEF ReloadSecret, Requeue, Goto, api, cache, seen, ghost, TypeOK, WorkerOK
  <2> QED
    BY <1>1, <2>1, OrderKept
<1>7. CASE EnsureAgentMonConfig
  <2>1. UNCHANGED <<cr, seenCr, cfgGen, edits>> /\ ca \in CrValues
        /\ WriteCm("mon", WithConfDefaults(ca), "config")
    BY <1>7 DEF EnsureAgentMonConfig, Others, seen, ghost, TypeOK, WorkerOK
  <2>2. Stop \/ (ca'.gen = ca.gen /\ UNCHANGED key)
    BY <1>3, <2>1, DefaultsKeepGen
  <2> QED
    BY <1>1, <2>1, <2>2, OrderKept
<1>8. CASE EnsureAgentConfig
  <2>1. /\ UNCHANGED <<cr, seenCr, edits>> /\ ca \in CrValues /\ key \in Agents
        /\ Stop \/ WriteCm("config", ca, "log")
        /\ cfgGen' \in {cfgGen, ca.gen}
    BY <1>8 DEF EnsureAgentConfig, Requeue, Others, seen, TypeOK, WorkerOK
  <2>2. ca' = None \/ (ca' = ca /\ UNCHANGED key)
    BY <1>1, <1>3, <2>1
  <2>3. Agents = {key}
    BY <2>1 DEF OneAgent
  <2> QED
    BY <2>1, <2>2, <2>3, GenNat DEF EditsOrdered
<1>9. CASE EnsureLogConfig
  <2>1. UNCHANGED <<cr, seenCr, cfgGen, edits>> /\ ca # None
        /\ WriteCm("log", ca, AfterConfig)
    BY <1>9 DEF EnsureLogConfig, Others, seen, ghost, TypeOK, WorkerOK
  <2>2. Stop \/ (ca' = ca /\ UNCHANGED key)
    BY <1>3, <2>1
  <2> QED
    BY <1>1, <2>1, <2>2, OrderKept
<1>10. CASE CreateDeployment
  <2>1. UNCHANGED <<cr, seenCr, cfgGen, edits>> /\ ca \in CrValues
        /\ (Stop \/ (ca' = WithImageDefault(ca) /\ UNCHANGED key))
    BY <1>10 DEF CreateDeployment, Requeue, Goto, Others, seen, ghost, TypeOK, WorkerOK
  <2> QED
    BY <1>1, <2>1, OrderKept, DefaultsKeepGen
<1>11. CASE UpdateImage
  BY <1>1, <1>11, OrderKept DEF UpdateImage, Requeue, Others, seen, ghost
<1>12. CASE SaveAnnotation
  <2>1. UNCHANGED <<cr, seenCr, cfgGen, edits>>
        /\ (Stop \/ (ca # None /\ UNCHANGED <<ca, key>>))
    BY <1>12 DEF SaveAnnotation, Requeue, Goto, Others, seen, ghost, TypeOK, WorkerOK
  <2> QED
    BY <1>1, <2>1, OrderKept
<1>13. CASE RestartAgent
  BY <1>1, <1>13, OrderKept DEF RestartAgent, Requeue, cache, seen
<1>14. ASSUME NEW v \in CrValues, v.gen = ca.gen, ca # None, "ca" \notin outdated,
              PutCr(key, v), UNCHANGED <<seenCr, cfgGen, edits>>,
              ca' = None \/ UNCHANGED <<ca, key>>
       PROVE  EditsOrdered'
  <2>1. key \in Agents /\ cr[key] # None /\ ca.gen = cr[key].gen
    BY <1>2, <1>14 DEF CopiesCurrent
  <2>2. cr' = [cr EXCEPT ![key] = v]
    BY <1>14, <2>1, PutCrCopies
  <2>3. cr'[key] = v /\ \A b \in Agents \ {key} : cr'[b] = cr[b]
    BY <2>1, <2>2 DEF TypeOK, ApiOK
  <2> QED
    BY <1>14, <2>1, <2>3 DEF EditsOrdered
<1>15. CASE UpdateCr
  <2>1. ca \in CrValues /\ UNCHANGED <<seenCr, cfgGen, edits>>
    BY <1>15 DEF UpdateCr, Others, seen, ghost, TypeOK, WorkerOK
  <2>2. CASE "ca" \notin outdated
    BY <1>14, <1>15, <2>1, <2>2 DEF UpdateCr, Goto
  <2>3. CASE "ca" \in outdated
    BY <1>1, <1>15, <2>1, <2>3, OrderKept DEF UpdateCr, Done
  <2> QED
    BY <2>2, <2>3
<1>16. CASE UpdateStatus
  <2>1. ca \in CrValues /\ UNCHANGED <<seenCr, cfgGen, edits>> /\ ca' = None
    BY <1>1, <1>16 DEF UpdateStatus, Done, Others, seen, ghost, TypeOK, WorkerOK
  <2>2. CASE "ca" \notin outdated
    <3>1. /\ [ca EXCEPT !.stamped = TRUE] \in CrValues
          /\ [ca EXCEPT !.stamped = TRUE].gen = ca.gen
      BY <2>1 DEF CrValues
    <3> QED
      BY <1>14, <1>16, <2>1, <2>2, <3>1 DEF UpdateStatus
  <2>3. CASE "ca" \in outdated
    BY <1>16, <2>1, <2>3, OrderKept DEF UpdateStatus
  <2> QED
    BY <2>2, <2>3
<1> QED
  BY <1>4, <1>5, <1>6, <1>7, <1>8, <1>9, <1>10, <1>11, <1>12, <1>13, <1>15, <1>16
     DEF Reconcile

(* A user's edit gets the highest number. *)
LEMMA OrderUsers ==
  ASSUME TypeOK, EditsOrdered, Users
  PROVE  EditsOrdered'
<1>1. ASSUME NEW a \in Agents, NEW v, PutCr(a, v), edits' = edits + 1,
             UNCHANGED <<seenCr, key, ca, cfgGen>>,
             v = None \/ v.gen = edits'
      PROVE  EditsOrdered'
  <2>1. cr'[a] = v /\ \A b \in Agents \ {a} : cr'[b] = cr[b]
    BY <1>1 DEF PutCr, TypeOK, ApiOK
  <2>2. ca # None => key \in Agents
    BY DEF TypeOK, WorkerOK
  <2> QED
    BY <1>1, <2>1, <2>2, GenNat DEF EditsOrdered
<1>2. ASSUME NEW a \in Agents, CreateCr(a) PROVE EditsOrdered'
  BY <1>1, <1>2 DEF CreateCr, seen, ghost
<1>3. ASSUME NEW a \in Agents, EditCr(a) PROVE EditsOrdered'
  <2>1. PICK s \in UserSpecs :
          PutCr(a, [cr[a] EXCEPT !.gen = edits', !.url = s.url,
                                 !.image = s.image, !.conf = s.conf])
    BY <1>3 DEF EditCr
  <2>2. cr[a] \in CrValues
    BY <1>3 DEF EditCr, TypeOK, ApiOK
  <2>3. [cr[a] EXCEPT !.gen = edits', !.url = s.url, !.image = s.image,
                      !.conf = s.conf].gen = edits'
    BY <2>2 DEF CrValues
  <2> QED
    BY <1>1, <1>3, <2>1, <2>3 DEF EditCr, seen, ghost
<1>4. ASSUME NEW a \in Agents, DeleteCr(a) PROVE EditsOrdered'
  BY <1>1, <1>4 DEF DeleteCr, seen, ghost
<1>5. ASSUME NEW a \in Agents, DeleteDeployment(a) PROVE EditsOrdered'
  <2>1. edits' = edits + 1 /\ UNCHANGED <<cr, seenCr, key, ca, cfgGen>>
    BY <1>5 DEF DeleteDeployment, seen, ghost
  <2> QED
    BY <2>1, GenNat DEF EditsOrdered
<1>6. CASE SetSecret
  BY <1>6 DEF SetSecret, cache, seen, worker, ghost, EditsOrdered
<1> QED
  BY <1>2, <1>3, <1>4, <1>5, <1>6 DEF Users

(* The cache takes over what is there, the worker what the cache has. *)
LEMMA OrderOthers ==
  ASSUME TypeOK, EditsOrdered, [Next]_vars, ~Reconcile, ~Users
  PROVE  EditsOrdered'
<1>1. UNCHANGED <<cr, seenCr, cfgGen, edits, key, ca>> => EditsOrdered'
  BY DEF EditsOrdered
<1>2. ASSUME NEW a \in Agents, Fetch(a) PROVE EditsOrdered'
  <2>1. UNCHANGED <<cr, seenCr, cfgGen, edits>> /\ key' = a
    BY <1>2 DEF Fetch, api, cache, seen, ghost
  <2>2. ca' = None \/ (ca' = seenCr[a] /\ seenCr[a] # None)
    BY <1>2 DEF Fetch, TypeOK, WorkerOK
  <2> QED
    BY <2>1, <2>2, GenNat DEF EditsOrdered
<1>3. CASE CallFails
  <2>1. UNCHANGED <<cr, seenCr, cfgGen, edits>>
        /\ (ca' = None \/ UNCHANGED <<ca, key>>)
    BY <1>3 DEF CallFails, Goto, Done, Requeue, Stop, api, cache, seen, ghost
  <2> QED
    BY <2>1 DEF EditsOrdered
<1>4. ASSUME seenCr' = cr, UNCHANGED <<cr, cfgGen, edits>>,
             ca' = None \/ UNCHANGED <<ca, key>>
      PROVE  EditsOrdered'
  <2>1. ca # None => key \in Agents
    BY DEF TypeOK, WorkerOK
  <2> QED
    BY <1>4, <2>1, GenNat DEF EditsOrdered
<1>5. CASE Crash
  BY <1>4, <1>5 DEF Crash, Stop, api, ghost
<1>6. ASSUME SyncCr PROVE EditsOrdered'
  BY <1>4, <1>6 DEF SyncCr, api, worker, ghost
<1>7. CASE SyncDep \/ SyncCm \/ SyncSecret \/ SyncPods \/ Resync
           \/ \E a \in Agents : DelayOver(a)
  BY <1>1, <1>7 DEF SyncDep, SyncCm, SyncSecret, SyncPods, Resync,
                    DelayOver, api, cache, seen, worker, ghost
<1>8. CASE Cluster
  BY <1>1, <1>8 DEF Cluster, CollectGarbage, DeploymentStatus, SpawnPod,
             StartPod, RetirePod, RemovePod, cache, seen, worker, ghost
<1>9. CASE UNCHANGED vars
  BY <1>1, <1>9 DEF vars, api, cache, seen, worker, ghost
<1> QED
  BY <1>2, <1>3, <1>5, <1>6, <1>7, <1>8, <1>9 DEF Next, Operator, Sync

-----------------------------------------------------------------------------
(* The mark follows the ConfigMap.                                         *)

LEMMA PutDepCopies ==
  ASSUME TypeOK, MarkCurrent, NEW a \in Agents, NEW v, PutDep(a, v),
         UNCHANGED seenDep
  PROVE  /\ dep' = [dep EXCEPT ![a] = v]
         /\ \A b \in Agents \ staleDep' : seenDep'[b] = dep'[b]
  BY DEF PutDep, MarkCurrent, TypeOK, ApiOK, CacheOK

(* A write of an annotation that is not ahead of the ConfigMap. *)
LEMMA MarkWritten ==
  ASSUME TypeOK, MarkCurrent, NEW a \in Agents, NEW v, PutDep(a, v),
         UNCHANGED <<seenDep, cfgGen>>,
         v # None => v.annoGen <= cfgGen,
         exd' # None => key' \in Agents,
         exd' # None /\ "exd" \notin outdated' /\ pc' # "restart"
           => key' # a /\ dep[key'] = exd',
         pc' \in {"log"} \cup PastConfig => cfgGen = ca'.gen
  PROVE  MarkCurrent'
<1>1. /\ dep'[a] = v /\ \A b \in Agents \ {a} : dep'[b] = dep[b]
      /\ \A b \in Agents \ staleDep' : seenDep'[b] = dep'[b]
  BY PutDepCopies DEF TypeOK, ApiOK
<1> QED
  BY <1>1 DEF MarkCurrent

(* Steps that leave the Deployments and the worker's copy of one alone. *)
LEMMA MarkKept ==
  ASSUME MarkCurrent, UNCHANGED <<dep, seenDep, staleDep, cfgGen>>,
         \/ Stop
         \/ /\ UNCHANGED <<key, exd>> /\ outdated \subseteq outdated'
            /\ pc = "restart" => pc' = "restart"
            /\ pc' \in {"log"} \cup PastConfig => cfgGen = ca'.gen
  PROVE  MarkCurrent'
  BY DEF MarkCurrent, Stop, PastConfig

LEMMA MarkReconcile ==
  ASSUME OneAgent, TypeOK, CopiesCurrent, EditsOrdered, MarkCurrent, Reconcile
  PROVE  MarkCurrent'
<1> USE NoneAssumption
<1>1. ca # None => ca \in CrValues /\ key \in Agents
  BY DEF TypeOK, WorkerOK
<1>2. ASSUME NEW n, NEW v, NEW next, WriteCm(n, v, next)
      PROVE  \/ Stop
             \/ /\ ca' = v /\ UNCHANGED <<key, exd, outdated>>
                /\ pc' = next /\ CmAccepted(n)
  BY <1>2 DEF WriteCm, Goto, Requeue
<1>3. CASE CleanUp
  <2>1. /\ UNCHANGED <<dep, seenDep, staleDep, cfgGen>> /\ pc # "restart"
        /\ Stop \/ (UNCHANGED <<key, exd, outdated>> /\ pc' = "secret")
    BY <1>3 DEF CleanUp, Done, Goto, Others, seen, ghost
  <2> QED
    BY <2>1, MarkKept DEF PastConfig
<1>4. CASE EnsureSecret
  <2>1. /\ UNCHANGED <<dep, seenDep, staleDep, cfgGen>> /\ pc # "restart"
        /\ Stop \/ (UNCHANGED <<key, exd, outdated>> /\ pc' \in {"mon", "reload"})
    BY <1>4 DEF EnsureSecret, Requeue, Goto, cache, seen, ghost
  <2> QED
    BY <2>1, MarkKept DEF PastConfig
<1>5. CASE ReloadSecret
  <2>1. /\ UNCHANGED <<dep, seenDep, staleDep, cfgGen>> /\ pc # "restart"
        /\ Stop \/ (UNCHANGED <<key, exd, outdated>> /\ pc' = "mon")
    BY <1>5 DEF ReloadSecret, Requeue, Goto, api, cache, seen, ghost
  <2> QED
    BY <2>1, MarkKept DEF PastConfig
<1>6. CASE EnsureAgentMonConfig
  <2>1. /\ UNCHANGED <<dep, seenDep, staleDep, cfgGen>> /\ pc = "mon"
        /\ WriteCm("mon", WithConfDefaults(ca), "config")
    BY <1>6 DEF EnsureAgentMonConfig, Others, seen, ghost
  <2> QED
    BY <1>2, <2>1, MarkKept DEF PastConfig
<1>7. CASE EnsureAgentConfig
  <2>1. /\ UNCHANGED <<dep, seenDep, staleDep>> /\ pc = "config"
        /\ ca # None /\ ca \in CrValues
    BY <1>7 DEF EnsureAgentConfig, Others, seen, TypeOK, WorkerOK
  <2>2. CASE Stop /\ UNCHANGED cfgGen
    BY <2>1, <2>2, MarkKept
  <2>3. CASE /\ cfgGen' = ca.gen /\ ca' = ca /\ pc' = "log"
             /\ UNCHANGED <<key, exd, outdated>>
    <3>1. cfgGen <= cfgGen'
      BY <2>1, <2>3 DEF EditsOrdered
    <3>2. \A a \in Agents : dep[a] # None => dep[a].annoGen \in Nat
      <4>1. \A d \in DepValues : d.annoGen \in Nat
        BY BoundsAssumption DEF DepValues, Gens
      <4> QED
        BY <4>1 DEF TypeOK, ApiOK
    <3>3. \A a \in Agents : dep[a] # None => dep[a].annoGen <= cfgGen'
      BY <2>1, <2>3, <3>1, <3>2, GenNat DEF MarkCurrent
    <3> QED
      BY <2>1, <2>3, <3>3 DEF MarkCurrent
  <2>4. (Stop /\ UNCHANGED cfgGen)
        \/ (cfgGen' = ca.gen /\ WriteCm("config", ca, "log") /\ CmAccepted("config"))
    <3>1. CASE ca.url \in InvalidUrls
      BY <1>7, <3>1 DEF EnsureAgentConfig, Requeue
    <3>2. CASE ca.url \notin InvalidUrls /\ CmAccepted("config")
      BY <1>7, <3>2 DEF EnsureAgentConfig
    <3>3. CASE ca.url \notin InvalidUrls /\ ~CmAccepted("config")
      BY <1>7, <3>3 DEF EnsureAgentConfig, WriteCm, Requeue
    <3> QED
      BY <3>1, <3>2, <3>3
  <2>5. WriteCm("config", ca, "log") /\ CmAccepted("config")
        => ca' = ca /\ pc' = "log" /\ UNCHANGED <<key, exd, outdated>>
    BY DEF WriteCm, Goto
  <2> QED
    BY <2>2, <2>3, <2>4, <2>5
<1>8. CASE EnsureLogConfig
  <2>1. /\ UNCHANGED <<dep, seenDep, staleDep, cfgGen>> /\ pc = "log"
        /\ WriteCm("log", ca, AfterConfig)
    BY <1>8 DEF EnsureLogConfig, Others, seen, ghost
  <2>2. cfgGen = ca.gen
    BY <2>1 DEF MarkCurrent
  <2> QED
    BY <1>2, <2>1, <2>2, MarkKept
<1>9. CASE CreateDeployment
  <2> DEFINE v == WithImageDefault(ca)
             d == [image |-> v.image, annoGen |-> v.gen, annoUrl |-> v.url,
                   owner |-> v.uid, ready |-> FALSE]
  <2>1. /\ pc = "create" /\ ca \in CrValues /\ key \in Agents
        /\ UNCHANGED <<seenDep, cfgGen>>
    BY <1>9 DEF CreateDeployment, Others, seen, ghost, TypeOK, WorkerOK
  <2>2. cfgGen = ca.gen /\ v.gen = ca.gen
    BY <2>1, DefaultsKeepGen DEF MarkCurrent, PastConfig
  <2>3. cfgGen <= cfgGen
    BY GenNat
  <2>4. CASE dep[key] # None
    BY <1>9, <2>1, <2>4, MarkKept DEF CreateDeployment, Requeue
  <2>5. CASE dep[key] = None
    <3>1. PutDep(key, d) /\ Goto("update") /\ ca' = v /\ UNCHANGED outdated
      BY <1>9, <2>5 DEF CreateDeployment
    <3>2. exd' = exd /\ pc' = "update"
      BY <3>1 DEF Goto
    <3>3. ~(exd # None /\ "exd" \notin outdated)
      BY <2>1, <2>5 DEF MarkCurrent
    <3>4. d.annoGen <= cfgGen /\ d.annoGen = v.gen
      BY <2>2, <2>3
    <3> HIDE DEF d, v
    <3> QED
      BY <2>1, <2>2, <3>1, <3>2, <3>3, <3>4, MarkWritten DEF Goto
  <2> QED
    BY <2>4, <2>5
<1>10. CASE UpdateImage
  <2>1. /\ pc = "image" /\ exd \in DepValues /\ key \in Agents /\ exd # None
        /\ UNCHANGED <<seenDep, cfgGen>> /\ Stop
    BY <1>10 DEF UpdateImage, Requeue, Others, seen, ghost, TypeOK, WorkerOK
  <2>2. CASE "exd" \notin outdated
    <3>1. dep[key] = exd
      BY <2>1, <2>2 DEF MarkCurrent
    <3>2. [exd EXCEPT !.image = ca.image].annoGen <= cfgGen
      BY <2>1, <3>1 DEF MarkCurrent, DepValues
    <3>3. PutDep(key, [exd EXCEPT !.image = ca.image])
      BY <1>10, <2>2 DEF UpdateImage
    <3> QED
      BY <2>1, <3>2, <3>3, MarkWritten DEF Stop, PastConfig
  <2>3. CASE "exd" \in outdated
    BY <1>10, <2>1, <2>3, MarkKept DEF UpdateImage
  <2> QED
    BY <2>2, <2>3
<1>11. CASE SaveAnnotation
  <2>1. /\ pc = "annotate" /\ exd \in DepValues /\ key \in Agents
        /\ UNCHANGED <<seenDep, cfgGen>>
    BY <1>11 DEF SaveAnnotation, Others, seen, ghost, TypeOK, WorkerOK
  <2>2. cfgGen = ca.gen /\ cfgGen <= cfgGen
    BY <2>1, GenNat DEF MarkCurrent, PastConfig
  <2>3. CASE "exd" \notin outdated
    <3> DEFINE d == [exd EXCEPT !.annoGen = ca.gen, !.annoUrl = ca.url]
    <3>1. PutDep(key, d) /\ pc' = "restart" /\ UNCHANGED <<ca, outdated>>
      BY <1>11, <2>3 DEF SaveAnnotation, Goto
    <3>2. d.annoGen <= cfgGen
      BY <2>1, <2>2 DEF DepValues
    <3>3. key' = key
      BY <1>11, <2>3 DEF SaveAnnotation, Goto
    <3> HIDE DEF d
    <3> QED
      BY <2>1, <2>2, <3>1, <3>2, <3>3, MarkWritten
  <2>4. CASE "exd" \in outdated
    BY <1>11, <2>1, <2>4, MarkKept DEF SaveAnnotation, Requeue
  <2> QED
    BY <2>3, <2>4
<1>12. CASE RestartAgent
  BY <1>12, MarkKept DEF RestartAgent, Requeue, cache, seen
<1>13. CASE UpdateCr
  <2>1. /\ pc = "update" /\ UNCHANGED <<dep, seenDep, staleDep, cfgGen>>
        /\ Stop \/ (pc' = "status" /\ UNCHANGED <<key, exd, outdated, ca>>)
    BY <1>13 DEF UpdateCr, Done, Goto, Others, seen, ghost
  <2>2. cfgGen = ca.gen
    BY <2>1 DEF MarkCurrent, PastConfig
  <2> QED
    BY <2>1, <2>2, MarkKept
<1>14. CASE UpdateStatus
  BY <1>14, MarkKept DEF UpdateStatus, Done, Others, seen, ghost
<1> QED
  BY <1>3, <1>4, <1>5, <1>6, <1>7, <1>8, <1>9, <1>10, <1>11, <1>12, <1>13, <1>14
     DEF Reconcile

(* Users and the cluster outdate the worker's copy with every write. *)
LEMMA MarkOthers ==
  ASSUME OneAgent, TypeOK, MarkCurrent, [Next]_vars, ~Reconcile
  PROVE  MarkCurrent'
<1> USE NoneAssumption
<1>1. ASSUME UNCHANGED <<dep, seenDep, staleDep, cfgGen>>,
             UNCHANGED <<key, exd, pc, ca>>, outdated \subseteq outdated'
      PROVE  MarkCurrent'
  BY <1>1 DEF MarkCurrent
<1>2. ASSUME NEW a \in Agents, NEW v, PutDep(a, v), Outdate(a, "exd"),
             UNCHANGED <<seenDep, cfgGen, key, exd, pc, ca>>,
             v # None => v.annoGen <= cfgGen
      PROVE  MarkCurrent'
  <2>1. exd' # None => key' \in Agents
    BY <1>2 DEF MarkCurrent
  <2>2. exd' # None /\ "exd" \notin outdated' /\ pc' # "restart"
          => key' # a /\ dep[key'] = exd'
    BY <1>2, <2>1 DEF Outdate, MarkCurrent, TypeOK, WorkerOK
  <2>3. pc' \in {"log"} \cup PastConfig => cfgGen = ca'.gen
    BY <1>2 DEF MarkCurrent
  <2> QED
    BY <1>2, <2>1, <2>2, <2>3, MarkWritten
<1>3. ASSUME NEW a \in Agents, Fetch(a) PROVE MarkCurrent'
  <2>1. /\ UNCHANGED <<dep, seenDep, staleDep, cfgGen>> /\ key' = a
        /\ pc' \in {"gone", "cleanup", "secret"}
        /\ exd' # None /\ "exd" \notin outdated' => exd' = dep[a]
    <3>1. CASE seenCr[a] = None
      BY <1>3, <3>1 DEF Fetch, MarkCurrent, TypeOK, WorkerOK, api, cache, seen,
                        ghost
    <3>2. CASE seenCr[a] # None
      BY <1>3, <3>2 DEF Fetch, MarkCurrent, api, cache, seen, ghost
    <3> QED
      BY <3>1, <3>2
  <2> QED
    BY <2>1 DEF MarkCurrent, PastConfig
<1>4. CASE CallFails
  <2>1. /\ UNCHANGED <<dep, seenDep, staleDep, cfgGen>>
        /\ Stop \/ (pc = "cleanup" /\ pc' = "secret"
                      /\ UNCHANGED <<key, exd, ca, outdated>>)
    BY <1>4 DEF CallFails, Goto, Done, Requeue, api, cache, seen, ghost
  <2> QED
    BY <2>1, MarkKept DEF PastConfig
<1>5. CASE Crash
  BY <1>5 DEF Crash, Stop, api, ghost, MarkCurrent, PastConfig
<1>6. CASE SyncDep
  BY <1>6 DEF SyncDep, api, worker, ghost, MarkCurrent, PastConfig
<1>7. CASE SyncCr \/ SyncCm \/ SyncSecret \/ SyncPods \/ Resync
           \/ \E a \in Agents : DelayOver(a)
  BY <1>1, <1>7 DEF SyncCr, SyncCm, SyncSecret, SyncPods, Resync,
                    DelayOver, api, cache, seen, worker, ghost
<1>8. CASE Users
  <2>1. ASSUME NEW a \in Agents, DeleteDeployment(a) PROVE MarkCurrent'
    BY <1>2, <2>1 DEF DeleteDeployment, seen, ghost
  <2>2. ASSUME NEW a \in Agents, CreateCr(a) \/ EditCr(a) \/ DeleteCr(a)
        PROVE  MarkCurrent'
    BY <1>1, <2>2 DEF CreateCr, EditCr, DeleteCr, Outdate, seen, ghost
  <2>3. CASE SetSecret
    BY <1>1, <2>3 DEF SetSecret, cache, seen, worker, ghost
  <2> QED
    BY <1>8, <2>1, <2>2, <2>3 DEF Users
<1>9. CASE Cluster
  <2>1. ASSUME NEW a \in Agents, CollectGarbage(a) PROVE MarkCurrent'
    BY <1>2, <2>1 DEF CollectGarbage, seen, ghost
  <2>2. ASSUME NEW a \in Agents, DeploymentStatus(a) PROVE MarkCurrent'
    <3>1. PICK ready \in BOOLEAN : PutDep(a, [dep[a] EXCEPT !.ready = ready])
      <4>1. (\E p \in PodIds : Running(p, a)) \in BOOLEAN
        OBVIOUS
      <4> QED
        BY <2>2, <4>1, Zenon DEF DeploymentStatus
    <3>2. dep[a] \in DepValues /\ dep[a] # None
      BY <2>2 DEF DeploymentStatus, TypeOK, ApiOK
    <3>3. [dep[a] EXCEPT !.ready = ready].annoGen = dep[a].annoGen
      BY <3>2 DEF DepValues
    <3>4. /\ Outdate(a, "exd")
          /\ UNCHANGED <<seenDep, cfgGen, key, exd, pc, ca>>
      BY <2>2, Zenon DEF DeploymentStatus, seen, ghost
    <3>5. dep[a].annoGen <= cfgGen
      BY <3>2 DEF MarkCurrent
    <3> QED
      BY <1>2, <3>1, <3>3, <3>4, <3>5
  <2>3. CASE \E p \in PodIds : \/ \E a \in Agents : SpawnPod(p, a)
                               \/ StartPod(p) \/ RetirePod(p) \/ RemovePod(p)
    BY <1>1, <2>3 DEF SpawnPod, StartPod, RetirePod, RemovePod, cache, seen,
                      worker, ghost
  <2> QED
    BY <1>9, <2>1, <2>2, <2>3 DEF Cluster
<1>10. CASE UNCHANGED vars
  BY <1>1, <1>10 DEF vars, api, cache, seen, worker, ghost
<1> QED
  BY <1>3, <1>4, <1>5, <1>6, <1>7, <1>8, <1>9, <1>10 DEF Next, Operator, Sync
-----------------------------------------------------------------------------
(* The steps of Follower.                                                  *)

LEMMA AgentThere == ASSUME OneAgent PROVE TheAgent \in Agents
  BY DEF OneAgent

LEMMA Stutters ==
  ASSUME UNCHANGED <<edits, cfgGen, dep>>, cm'["config"] = cm["config"]
  PROVE  UNCHANGED Follower!vars
  BY DEF Follower!vars, Installed, Applied

(* A Deployment that goes, or that is only marked for an edit up to the    *)
(* one in the ConfigMap, is a step of Follower.                            *)
LEMMA MarkSteps ==
  ASSUME OneAgent, TypeOK, NEW v, PutDep(TheAgent, v),
         UNCHANGED <<edits, cm, cfgGen>>,
         \/ v = None
         \/ /\ v \in DepValues /\ dep[TheAgent] # None
            /\ v.annoGen = dep[TheAgent].annoGen
         \/ /\ v \in DepValues /\ v.annoGen = cfgGen
            /\ cm["config"] # None /\ Applied <= cfgGen
  PROVE  [Follower!Next]_(Follower!vars)
<1> USE NoneAssumption
<1>1. TheAgent \in Agents
  BY AgentThere
<1>2. dep'[TheAgent] = v
  BY <1>1 DEF PutDep, TypeOK, ApiOK
<1>3. Applied' = IF v = None THEN 0 ELSE v.annoGen
  BY <1>2 DEF Applied
<1>4. UNCHANGED <<edits, Installed>>
  BY DEF Installed
<1>5. CASE v = None
  BY <1>3, <1>4, <1>5 DEF Follower!Next, Follower!Remove
<1>6. CASE v \in DepValues /\ dep[TheAgent] # None
           /\ v.annoGen = dep[TheAgent].annoGen
  <2>1. Applied' = Applied
    BY <1>3, <1>6 DEF Applied
  <2> QED
    BY <1>4, <2>1 DEF Follower!vars
<1>7. CASE v \in DepValues /\ v.annoGen = cfgGen
           /\ cm["config"] # None /\ Applied <= cfgGen
  <2>1. Applied' = cfgGen /\ Installed = cfgGen
    BY <1>3, <1>7 DEF Installed
  <2>2. Applied \in Nat /\ cfgGen \in Nat
    <3>1. \A d \in DepValues : d.annoGen \in Nat
      BY BoundsAssumption DEF DepValues, Gens
    <3> QED
      BY <1>1, <3>1, GenNat DEF TypeOK, ApiOK, Applied
  <2>3. CASE Applied = cfgGen
    BY <1>4, <2>1, <2>3 DEF Follower!vars
  <2>4. CASE Applied # cfgGen
    <3>1. Applied' \in Applied + 1 .. Installed
      BY <1>7, <2>1, <2>2, <2>4
    <3> QED
      BY <1>4, <3>1 DEF Follower!Next, Follower!Apply
  <2> QED
    BY <2>3, <2>4
<1> QED
  BY <1>5, <1>6, <1>7

(* The Deployment's mark is not ahead of the ConfigMap. *)
LEMMA AppliedBehind ==
  ASSUME OneAgent, TypeOK, MarkCurrent PROVE Applied <= cfgGen
  BY AgentThere, GenNat DEF MarkCurrent, Applied

(* What a reconcile does is installing, applying, or nothing. *)
LEMMA FollowsReconcile ==
  ASSUME OneAgent, TypeOK, ConfigSoFar, EditsOrdered, MarkCurrent, Reconcile
  PROVE  [Follower!Next]_(Follower!vars)
<1> USE NoneAssumption
<1>1. ca # None => ca \in CrValues /\ key = TheAgent
  BY DEF TypeOK, WorkerOK, OneAgent
<1>2. pc \in PastConfig => cm["config"] # None
  <2>1. pc \in PastConfig => ca \in CrValues /\ cm["config"] = Rendered("config", ca)
    BY DEF ConfigSoFar, PastConfig, TypeOK, WorkerOK
  <2> QED
    BY <2>1, RenderedOK DEF CmNames
<1>3. ASSUME NEW n \in CmNames \ {"config"}, NEW v, NEW next, WriteCm(n, v, next)
      PROVE  cm'["config"] = cm["config"]
  BY <1>3 DEF WriteCm, PutCm, CmNames, TypeOK, ApiOK
<1>4. CASE CleanUp
  <2>1. UNCHANGED <<edits, cfgGen, dep>> /\ (PutCm("config", None) \/ UNCHANGED cm)
    BY <1>4 DEF CleanUp, Others, ghost
  <2>2. CASE PutCm("config", None)
    <3>1. cm'["config"] = None
      BY <2>2 DEF PutCm, TypeOK, ApiOK, CmNames
    <3>2. Installed' = 0 /\ UNCHANGED <<edits, Applied>>
      BY <2>1, <3>1 DEF Installed, Applied
    <3> QED
      BY <3>2 DEF Follower!Next, Follower!Uninstall
  <2>3. CASE UNCHANGED cm
    BY <2>1, <2>3, Stutters
  <2> QED
    BY <2>1, <2>2, <2>3
<1>5. CASE EnsureSecret \/ ReloadSecret \/ RestartAgent
  BY <1>5, Stutters DEF EnsureSecret, ReloadSecret, RestartAgent, api, ghost
<1>6. CASE UpdateCr \/ UpdateStatus
  BY <1>6, Stutters DEF UpdateCr, UpdateStatus, Others, ghost
<1>7. CASE EnsureAgentMonConfig
  BY <1>3, <1>7, Stutters DEF EnsureAgentMonConfig, Others, ghost, CmNames
<1>8. CASE EnsureLogConfig
  BY <1>3, <1>8, Stutters DEF EnsureLogConfig, Others, ghost, CmNames
<1>9. CASE EnsureAgentConfig
  <2>1. ca \in CrValues /\ UNCHANGED <<edits, dep>>
    BY <1>9 DEF EnsureAgentConfig, Others, TypeOK, WorkerOK
  <2>2. CASE ca.url \in InvalidUrls \/ ~CmAccepted("config")
    BY <1>9, <2>1, <2>2, Stutters DEF EnsureAgentConfig, WriteCm
  <2>3. CASE ca.url \notin InvalidUrls /\ CmAccepted("config")
    <3>1. PutCm("config", Rendered("config", ca)) /\ cfgGen' = ca.gen
      BY <1>9, <2>3 DEF EnsureAgentConfig, WriteCm
    <3>2. cm'["config"] = Rendered("config", ca)
      BY <3>1 DEF PutCm, TypeOK, ApiOK, CmNames
    <3>3. cm'["config"] # None
      BY <2>1, <3>2, RenderedOK DEF CmNames
    <3>4. Installed' = ca.gen
      BY <3>1, <3>3 DEF Installed
    <3>5. /\ Installed \in {0, cfgGen} /\ cfgGen <= ca.gen /\ ca.gen <= edits
          /\ {Installed, cfgGen, ca.gen, edits} \subseteq Nat
      BY <2>1, GenNat DEF Installed, EditsOrdered
    <3>6. Applied' = Applied
      BY <2>1 DEF Applied
    <3>7. CASE Installed = ca.gen
      BY <2>1, <3>4, <3>6, <3>7 DEF Follower!vars
    <3>8. CASE Installed # ca.gen
      <4>1. Installed' \in Installed + 1 .. edits
        BY <3>4, <3>5, <3>8
      <4> QED
        BY <2>1, <3>6, <4>1 DEF Follower!Next, Follower!Install
    <3> QED
      BY <3>7, <3>8
  <2> QED
    BY <2>2, <2>3
<1>10. CASE CreateDeployment
  <2> DEFINE v == WithImageDefault(ca)
             d == [image |-> v.image, annoGen |-> v.gen, annoUrl |-> v.url,
                   owner |-> v.uid, ready |-> FALSE]
  <2>1. ca \in CrValues /\ pc = "create" /\ UNCHANGED <<edits, cm, cfgGen>>
    BY <1>10 DEF CreateDeployment, Others, ghost, TypeOK, WorkerOK
  <2>2. CASE dep[key] # None
    BY <1>10, <2>1, <2>2, Stutters DEF CreateDeployment
  <2>3. CASE dep[key] = None
    <3>1. PutDep(TheAgent, d)
      BY <1>1, <1>10, <2>1, <2>3 DEF CreateDeployment
    <3>2. v \in CrValues /\ v.gen = cfgGen
      BY <2>1, DefaultsOK, DefaultsKeepGen DEF MarkCurrent, PastConfig
    <3>3. d \in DepValues /\ d.annoGen = cfgGen
      BY <3>2 DEF CrValues, DepValues
    <3>4. cm["config"] # None /\ Applied <= cfgGen
      BY <1>2, <2>1, AppliedBehind DEF PastConfig
    <3> HIDE DEF d, v
    <3> QED
      BY <2>1, <3>1, <3>3, <3>4, MarkSteps
  <2> QED
    BY <2>2, <2>3
<1>11. CASE UpdateImage
  <2>1. /\ pc = "image" /\ exd \in DepValues /\ exd # None /\ ca \in CrValues
        /\ UNCHANGED <<edits, cm, cfgGen>>
    BY <1>11 DEF UpdateImage, Others, ghost, TypeOK, WorkerOK
  <2>2. CASE "exd" \in outdated
    BY <1>11, <2>1, <2>2, Stutters DEF UpdateImage
  <2>3. CASE "exd" \notin outdated
    <3> DEFINE d == [exd EXCEPT !.image = ca.image]
    <3>1. PutDep(TheAgent, d)
      BY <1>1, <1>11, <2>1, <2>3 DEF UpdateImage
    <3>2. dep[TheAgent] = exd
      BY <1>1, <2>1, <2>3 DEF MarkCurrent
    <3>3. d \in DepValues /\ d.annoGen = exd.annoGen
      BY <2>1 DEF CrValues, DepValues
    <3> HIDE DEF d
    <3> QED
      BY <2>1, <3>1, <3>2, <3>3, MarkSteps
  <2> QED
    BY <2>2, <2>3
<1>12. CASE SaveAnnotation
  <2>1. /\ pc = "annotate" /\ exd \in DepValues /\ exd # None /\ ca \in CrValues
        /\ UNCHANGED <<edits, cm, cfgGen>>
    BY <1>12 DEF SaveAnnotation, Others, ghost, TypeOK, WorkerOK
  <2>2. CASE "exd" \in outdated
    BY <1>12, <2>1, <2>2, Stutters DEF SaveAnnotation
  <2>3. CASE "exd" \notin outdated
    <3> DEFINE d == [exd EXCEPT !.annoGen = ca.gen, !.annoUrl = ca.url]
    <3>1. PutDep(TheAgent, d)
      BY <1>1, <1>12, <2>1, <2>3 DEF SaveAnnotation
    <3>2. cfgGen = ca.gen
      BY <2>1 DEF MarkCurrent, PastConfig
    <3>3. d \in DepValues /\ d.annoGen = cfgGen
      BY <2>1, <3>2 DEF CrValues, DepValues
    <3>4. cm["config"] # None /\ Applied <= cfgGen
      BY <1>2, <2>1, AppliedBehind DEF PastConfig
    <3> HIDE DEF d
    <3> QED
      BY <2>1, <3>1, <3>3, <3>4, MarkSteps
  <2> QED
    BY <2>2, <2>3
<1> QED
  BY <1>4, <1>5, <1>6, <1>7, <1>8, <1>9, <1>10, <1>11, <1>12 DEF Reconcile

(* Everybody else edits, removes the Deployment, or leaves both alone. *)
LEMMA FollowsOthers ==
  ASSUME OneAgent, TypeOK, [Next]_vars, ~Reconcile
  PROVE  [Follower!Next]_(Follower!vars)
<1> USE NoneAssumption
<1>1. ASSUME NEW a \in Agents PROVE a = TheAgent
  BY DEF OneAgent
<1>2. CASE Users
  <2>1. CASE SetSecret
    BY <2>1, Stutters DEF SetSecret, ghost
  <2>2. ASSUME edits' = edits + 1, UNCHANGED <<cm, cfgGen>>, Applied' \in {Applied, 0}
        PROVE  [Follower!Next]_(Follower!vars)
    <3>1. UNCHANGED Installed
      BY <2>2 DEF Installed
    <3> QED
      BY <2>2, <3>1 DEF Follower!Next, Follower!Edit
  <2>3. ASSUME NEW a \in Agents, CreateCr(a) \/ EditCr(a) \/ DeleteCr(a)
        PROVE  [Follower!Next]_(Follower!vars)
    BY <2>2, <2>3 DEF CreateCr, EditCr, DeleteCr, ghost, Applied
  <2>4. ASSUME NEW a \in Agents, DeleteDeployment(a)
        PROVE  [Follower!Next]_(Follower!vars)
    <3>1. dep'[TheAgent] = None
      BY <1>1, <2>4 DEF DeleteDeployment, PutDep, TypeOK, ApiOK
    <3> QED
      BY <2>2, <2>4, <3>1 DEF DeleteDeployment, ghost, Applied
  <2> QED
    BY <1>2, <2>1, <2>3, <2>4 DEF Users
<1>3. CASE Cluster
  <2>1. ASSUME NEW a \in Agents, CollectGarbage(a)
        PROVE  [Follower!Next]_(Follower!vars)
    <3>1. PutDep(TheAgent, None) /\ UNCHANGED <<edits, cm, cfgGen>>
      BY <1>1, <2>1 DEF CollectGarbage, ghost
    <3> QED
      BY <3>1, MarkSteps
  <2>2. ASSUME NEW a \in Agents, DeploymentStatus(a)
        PROVE  [Follower!Next]_(Follower!vars)
    <3> DEFINE ready == \E p \in PodIds : Running(p, a)
               d == [dep[a] EXCEPT !.ready = ready]
    <3>1. dep[a] \in DepValues /\ dep[a] # None /\ PutDep(a, d)
      BY <2>2 DEF DeploymentStatus, TypeOK, ApiOK
    <3>2. ready \in BOOLEAN
      OBVIOUS
    <3>3. d \in DepValues /\ d.annoGen = dep[a].annoGen
      <4> HIDE DEF ready
      <4> QED
        BY <3>1, <3>2 DEF DepValues
    <3>4. UNCHANGED <<edits, cm, cfgGen>>
      BY <2>2, Zenon DEF DeploymentStatus, ghost
    <3> HIDE DEF d
    <3> QED
      BY <1>1, <3>1, <3>3, <3>4, MarkSteps
  <2>3. CASE \E p \in PodIds : \/ \E a \in Agents : SpawnPod(p, a)
                               \/ StartPod(p) \/ RetirePod(p) \/ RemovePod(p)
    BY <2>3, Stutters DEF SpawnPod, StartPod, RetirePod, RemovePod, ghost
  <2> QED
    BY <1>3, <2>1, <2>2, <2>3 DEF Cluster
<1>4. CASE \/ \E a \in Agents : Fetch(a) \/ DelayOver(a)
           \/ Sync \/ CallFails \/ Crash \/ Resync
  <2>1. UNCHANGED <<edits, cfgGen, dep, cm>>
    BY <1>4, Zenon DEF Fetch, DelayOver, Sync, SyncCr, SyncDep, SyncCm, SyncSecret,
                SyncPods, CallFails, Crash, Resync, api, ghost
  <2> QED
    BY <2>1, Stutters
<1>5. CASE UNCHANGED vars
  BY <1>5, Stutters DEF vars, api, ghost
<1> QED
  BY <1>2, <1>3, <1>4, <1>5 DEF Next, Operator

(* The ConfigMap follows the edits of the resource and the mark follows    *)
(* the ConfigMap: the operator implements Follower.                        *)
THEOREM FollowsItsEdits == ASSUME OneAgent PROVE Spec => FollowsEdits
<1>1. Init => /\ ConfigSoFar /\ CopiesCurrent /\ EditsOrdered /\ MarkCurrent
              /\ Follower!Init
  <2>1. ASSUME Init PROVE Follower!Init
    BY <2>1, AgentThere
       DEF Init, Follower!Init, Installed, Applied, CmNames
  <2>2. ASSUME Init PROVE EditsOrdered /\ MarkCurrent
    BY <2>2 DEF Init, EditsOrdered, MarkCurrent, PastConfig
  <2> QED
    BY <2>1, <2>2 DEF Init, ConfigSoFar, CopiesCurrent, PastConfig
<1>2. TypeOK /\ ConfigSoFar /\ CopiesCurrent /\ EditsOrdered /\ MarkCurrent
      /\ [Next]_vars
        => /\ ConfigSoFar' /\ CopiesCurrent' /\ EditsOrdered' /\ MarkCurrent'
           /\ [Follower!Next]_(Follower!vars)
  <2> SUFFICES ASSUME TypeOK, ConfigSoFar, CopiesCurrent, EditsOrdered,
                      MarkCurrent, [Next]_vars
               PROVE  /\ ConfigSoFar' /\ CopiesCurrent' /\ EditsOrdered'
                      /\ MarkCurrent' /\ [Follower!Next]_(Follower!vars)
    OBVIOUS
  <2>1. ConfigSoFar' /\ CopiesCurrent'
    BY ConfigReconcile, ConfigOthers, CopiesReconcile, CopiesUsers, CopiesOthers
  <2>2. EditsOrdered'
    BY OrderReconcile, OrderUsers, OrderOthers
  <2>3. MarkCurrent'
    BY MarkReconcile, MarkOthers
  <2>4. [Follower!Next]_(Follower!vars)
    BY FollowsReconcile, FollowsOthers
  <2> QED
    BY <2>1, <2>2, <2>3, <2>4
<1> QED
  BY <1>1, <1>2, TypeCorrect, PTL DEF Spec, FollowsEdits, Follower!Spec
===============================================================================
