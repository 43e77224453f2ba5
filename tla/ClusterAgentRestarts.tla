------------------------ MODULE ClusterAgentRestarts ------------------------
(***************************************************************************)
(* A pod is restarted at most once for an edit of its Clusteragent, for    *)
(* any set of resources, specs and pods and all bounds.                    *)
(***************************************************************************)
EXTENDS ClusterAgentProofs

(* The copies there are of a resource. *)
Copies(a) == ({cr[a], seenCr[a]} \cup (IF key = a THEN {ca} ELSE {})) \ {None}

(* The mark on the Deployment was made from an edit that no copy is older  *)
(* than; it has the address of the copies of this edit; the last restart   *)
(* was for an edit that is marked.                                         *)
MarkBehind(a) ==
  dep[a] # None =>
    /\ dep[a].annoGen <= edits /\ restarted[a] <= dep[a].annoGen
    /\ \A x \in Copies(a) :
         /\ dep[a].annoGen <= x.gen
         /\ dep[a].annoGen = x.gen => dep[a].annoUrl = x.url

(* The copies are ordered by age, and those of one edit agree. *)
CopiesAgree(a) ==
  /\ restarted[a] <= edits
  /\ \A x \in Copies(a) :
       /\ x.gen <= edits /\ restarted[a] <= x.gen
       /\ \A y \in Copies(a) : x.gen = y.gen => x.url = y.url
  /\ seenCr[a] # None /\ cr[a] # None => seenCr[a].gen <= cr[a].gen

CopyOldest == ca # None => \A x \in {cr[key], seenCr[key]} \ {None} : ca.gen <= x.gen

Ordered == CopyOldest /\ \A a \in Agents : CopiesAgree(a) /\ MarkBehind(a)

(* The address is compared with that of the mark that will be replaced,    *)
(* unless its write is refused.  A restart is for the edit just marked.    *)
MarkRead ==
  /\ \A a \in Agents \ staleDep : seenDep[a] = dep[a]
  /\ exd # None => key \in Agents
  /\ exd # None /\ "exd" \notin outdated /\ pc # "restart" => dep[key] = exd
  /\ pc = "annotate" => ca.url # exd.annoUrl
  /\ pc = "restart" => /\ restarted[key] < ca.gen
                       /\ dep[key] # None => dep[key].annoGen = ca.gen

LEMMA Values ==
  ASSUME TypeOK
  PROVE  /\ edits \in Nat
         /\ \A a \in Agents : /\ restarted[a] \in Nat
                              /\ cr[a] \in CrValues \cup {None}
                              /\ seenCr[a] \in CrValues \cup {None}
                              /\ dep[a] \in DepValues \cup {None}
                              /\ dep[a] # None => dep[a].annoGen \in Nat
                              /\ \A x \in Copies(a) : x \in CrValues /\ x.gen \in Nat
         /\ ca # None => ca \in CrValues /\ ca.gen \in Nat /\ key \in Agents /\ ca \in Copies(key)
<1>1. \A v \in CrValues : v.gen \in Nat
  BY BoundsAssumption DEF CrValues, Gens
<1>2. \A v \in DepValues : v.annoGen \in Nat
  BY BoundsAssumption DEF DepValues, Gens
<1>3. edits \in Nat /\ \A a \in Agents : restarted[a] \in Nat
  BY BoundsAssumption DEF TypeOK, CountersOK, Gens
<1>4. ca # None => ca \in CrValues /\ key \in Agents
  BY DEF TypeOK, WorkerOK
<1> QED
  BY <1>1, <1>2, <1>3, <1>4 DEF TypeOK, ApiOK, CacheOK, Copies

LEMMA DefaultsKeep ==
  ASSUME NEW v \in CrValues
  PROVE  /\ WithConfDefaults(v).gen = v.gen /\ WithImageDefault(v).gen = v.gen
         /\ WithConfDefaults(v).url = v.url /\ WithImageDefault(v).url = v.url
         /\ WithConfDefaults(v) # None /\ WithImageDefault(v) # None
<1>1. WithConfDefaults(v) # None /\ WithImageDefault(v) # None
  BY DefaultsOK, NoneAssumption
<1> QED
  BY <1>1 DEF WithConfDefaults, WithImageDefault, CrValues

-----------------------------------------------------------------------------
(* The order of the copies.                                                *)

(* Every copy there is later was there before, up to its defaults. *)
Descend ==
  /\ \A a \in Agents : \A x \in Copies(a)' :
       \E y \in Copies(a) : x.gen = y.gen /\ x.url = y.url
  /\ \A a \in Agents :
       seenCr'[a] # None /\ cr'[a] # None => seenCr'[a].gen <= cr'[a].gen
  /\ CopyOldest'

(* A Deployment keeps its mark, or goes. *)
MarkKept ==
  \A a \in Agents : dep'[a] # None =>
    /\ dep[a] # None /\ dep'[a].annoGen = dep[a].annoGen
    /\ dep'[a].annoUrl = dep[a].annoUrl

LEMMA OrderDescends ==
  ASSUME TypeOK, Ordered, Descend, MarkKept, UNCHANGED restarted,
         edits' \in {edits, edits + 1}
  PROVE  Ordered'
<1>1. edits <= edits' /\ edits' \in Nat
  BY Values
<1>2. ASSUME NEW a \in Agents PROVE CopiesAgree(a)'
  BY <1>1, Values DEF Ordered, CopiesAgree, Descend
<1>3. ASSUME NEW a \in Agents PROVE MarkBehind(a)'
  BY <1>1, Values DEF Ordered, MarkBehind, Descend, MarkKept
<1> QED
  BY <1>2, <1>3 DEF Ordered, Descend

(* A worker that drops its copy, or goes on with it. *)
LEMMA DescendKept ==
  ASSUME TypeOK, Ordered, UNCHANGED <<cr, seenCr>>,
         \/ ca' = None
         \/ ca # None /\ ca'.gen = ca.gen /\ ca'.url = ca.url /\ UNCHANGED key
  PROVE  Descend
<1>1. CopyOldest'
  BY DEF Ordered, CopyOldest
<1>2. ASSUME NEW a \in Agents, NEW x \in Copies(a)'
      PROVE  \E y \in Copies(a) : x.gen = y.gen /\ x.url = y.url
  BY <1>2 DEF Copies
<1> QED
  BY <1>1, <1>2 DEF Ordered, CopiesAgree, Descend

(* The cache takes over what is there. *)
LEMMA DescendSynced ==
  ASSUME TypeOK, Ordered, seenCr' = cr, UNCHANGED cr,
         ca' = None \/ UNCHANGED <<ca, key>>
  PROVE  Descend
<1>1. CopyOldest'
  BY DEF Ordered, CopyOldest
<1>2. ASSUME NEW a \in Agents, NEW x \in Copies(a)' PROVE x \in Copies(a)
  BY <1>2 DEF Copies
<1>3. \A a \in Agents : cr[a] # None => cr[a].gen <= cr[a].gen
  BY Values DEF Copies
<1> QED
  BY <1>1, <1>2, <1>3 DEF Descend

(* The worker's copy is the one to read, write, mark and restart for. *)
LEMMA OrderFetched ==
  ASSUME TypeOK, Ordered, NEW a \in Agents, ca = None, key' = a,
         ca' \in {None, seenCr[a]},
         UNCHANGED <<cr, seenCr, dep, edits, restarted>>
  PROVE  Ordered'
<1>1. CopyOldest'
  <2>1. ca' # None => seenCr[a] # None /\ seenCr[a].gen <= seenCr[a].gen
    BY Values DEF Copies
  <2> QED
    BY <2>1 DEF Ordered, CopiesAgree, CopyOldest
<1>2. ASSUME NEW b \in Agents, NEW x \in Copies(b)' PROVE x \in Copies(b)
  BY <1>2 DEF Copies
<1>3. Descend
  BY <1>1, <1>2 DEF Descend, Ordered, CopiesAgree
<1> QED
  BY <1>3, OrderDescends DEF MarkKept

LEMMA OrderUpdated ==
  ASSUME TypeOK, Ordered, CopiesCurrent, ca # None, "ca" \notin outdated,
         NEW v \in CrValues, v.gen = ca.gen, v.url = ca.url, PutCr(key, v),
         UNCHANGED <<seenCr, dep, edits, restarted>>,
         ca' = None \/ UNCHANGED <<ca, key>>
  PROVE  Ordered'
<1>1. key \in Agents /\ cr[key] # None /\ ca.gen = cr[key].gen /\ ca \in Copies(key)
  BY Values DEF CopiesCurrent
<1>2. cr'[key] = v /\ \A b \in Agents \ {key} : cr'[b] = cr[b]
  BY <1>1 DEF PutCr, TypeOK, ApiOK
<1>3. ASSUME NEW b \in Agents, NEW x \in Copies(b)'
      PROVE  \E y \in Copies(b) : x.gen = y.gen /\ x.url = y.url
  BY <1>1, <1>2, <1>3 DEF Copies
<1>4. CopyOldest'
  <2>1. ca.gen <= v.gen
    BY Values
  <2> QED
    BY <1>1, <1>2, <2>1 DEF Ordered, CopyOldest
<1>5. \A b \in Agents : seenCr'[b] # None /\ cr'[b] # None => seenCr'[b].gen <= cr'[b].gen
  BY <1>1, <1>2 DEF Ordered, CopiesAgree
<1> QED
  BY <1>3, <1>4, <1>5, OrderDescends DEF Descend, MarkKept

LEMMA OrderMarked ==
  ASSUME TypeOK, Ordered, ca # None, NEW d, d.annoGen = ca.gen, d.annoUrl = ca.url,
         PutDep(key, d), UNCHANGED <<cr, seenCr, edits, restarted, key>>,
         ca' # None, ca'.gen = ca.gen, ca'.url = ca.url
  PROVE  Ordered'
<1>1. key \in Agents /\ ca \in Copies(key)
  BY Values
<1>2. dep'[key] = d /\ \A b \in Agents \ {key} : dep'[b] = dep[b]
  BY <1>1 DEF PutDep, TypeOK, ApiOK
<1>3. Descend
  BY DescendKept
<1>4. ASSUME NEW a \in Agents PROVE CopiesAgree(a)'
  BY <1>3, Values DEF Ordered, CopiesAgree, Descend
<1>5. ASSUME NEW a \in Agents \ {key} PROVE MarkBehind(a)'
  BY <1>2, <1>3, Values DEF Ordered, MarkBehind, Descend
<1>6. MarkBehind(key)'
  <2>1. ca.gen <= edits /\ restarted[key] <= ca.gen
    BY <1>1 DEF Ordered, CopiesAgree
  <2>2. ASSUME NEW x \in Copies(key)'
        PROVE  ca.gen <= x.gen /\ (ca.gen = x.gen => ca.url = x.url)
    <3>1. PICK y \in Copies(key) : x.gen = y.gen /\ x.url = y.url
      BY <1>1, <1>3 DEF Descend
    <3>2. ca.gen <= y.gen
      BY <1>1, Values DEF Ordered, CopyOldest, Copies
    <3> QED
      BY <1>1, <3>1, <3>2 DEF Ordered, CopiesAgree
  <2> QED
    BY <1>1, <1>2, <2>1, <2>2 DEF MarkBehind
<1> QED
  BY <1>1, <1>3, <1>4, <1>5, <1>6 DEF Ordered, Descend

LEMMA OrderRestarted ==
  ASSUME TypeOK, Ordered, MarkRead, pc = "restart",
         restarted' = [restarted EXCEPT ![key] = ca.gen],
         ca' = None, UNCHANGED <<cr, seenCr, dep, edits>>
  PROVE  Ordered'
<1>1. ca # None
  BY NoneAssumption DEF TypeOK, WorkerOK
<1>2. key \in Agents /\ ca \in Copies(key) /\ ca.gen <= ca.gen
  BY <1>1, Values
<1>3. restarted'[key] = ca.gen /\ \A b \in Agents \ {key} : restarted'[b] = restarted[b]
  BY <1>2 DEF TypeOK, CountersOK
<1>4. \A a \in Agents : \A x \in Copies(a)' : x \in Copies(a) /\ (a = key => ca.gen <= x.gen)
  BY <1>1, <1>2 DEF Copies, Ordered, CopyOldest
<1>5. ASSUME NEW a \in Agents PROVE CopiesAgree(a)'
  BY <1>2, <1>3, <1>4 DEF Ordered, CopiesAgree
<1>6. ASSUME NEW a \in Agents PROVE MarkBehind(a)'
  BY <1>2, <1>3, <1>4 DEF Ordered, MarkBehind, MarkRead
<1> QED
  BY <1>5, <1>6 DEF Ordered, CopyOldest

(* A user's edit gets the highest number. *)
LEMMA OrderEdited ==
  ASSUME TypeOK, Ordered, NEW a \in Agents, NEW v \in CrValues \cup {None},
         PutCr(a, v), edits' = edits + 1, v = None \/ v.gen = edits',
         UNCHANGED <<seenCr, dep, restarted, ca, key>>
  PROVE  Ordered'
<1>1. cr'[a] = v /\ \A b \in Agents \ {a} : cr'[b] = cr[b]
  BY DEF PutCr, TypeOK, ApiOK
<1>2. edits \in Nat /\ edits' > edits
  BY Values
<1>3. ASSUME NEW b \in Agents, NEW x \in Copies(b)'
      PROVE  x \in Copies(b) \/ (b = a /\ x = v /\ v # None)
  BY <1>1, <1>3 DEF Copies
<1>4. CopyOldest'
  <2>1. ca # None => key \in Agents /\ ca.gen \in Nat /\ ca.gen <= edits
    BY Values DEF Ordered, CopiesAgree
  <2> QED
    BY <1>1, <1>2, <2>1 DEF Ordered, CopyOldest
<1>5. ASSUME NEW b \in Agents PROVE CopiesAgree(b)'
  <2>1. \A x \in Copies(b) : x.gen \in Nat /\ x.gen <= edits
    BY Values DEF Ordered, CopiesAgree
  <2>2. restarted[b] \in Nat /\ restarted[b] <= edits
    BY Values DEF Ordered, CopiesAgree
  <2>3. \A x \in Copies(b)' : x.gen <= edits' /\ restarted[b] <= x.gen
    BY <1>2, <1>3, <2>1, <2>2 DEF Ordered, CopiesAgree
  <2>4. \A x, y \in Copies(b)' : x.gen = y.gen => x.url = y.url
    BY <1>2, <1>3, <2>1 DEF Ordered, CopiesAgree
  <2>5. seenCr'[b] # None => seenCr'[b] \in Copies(b)
    BY DEF Copies
  <2>6. seenCr'[b] # None /\ cr'[b] # None => seenCr'[b].gen <= cr'[b].gen
    BY <1>1, <1>2, <2>1, <2>5 DEF Ordered, CopiesAgree
  <2> QED
    BY <1>2, <2>2, <2>3, <2>4, <2>6 DEF CopiesAgree
<1>6. ASSUME NEW b \in Agents PROVE MarkBehind(b)'
  <2>1. dep[b] # None => dep[b].annoGen \in Nat /\ dep[b].annoGen <= edits
    BY Values DEF Ordered, MarkBehind
  <2> QED
    BY <1>2, <1>3, <2>1 DEF Ordered, MarkBehind
<1> QED
  BY <1>4, <1>5, <1>6 DEF Ordered

-----------------------------------------------------------------------------
(* The mark that is read.                                                  *)

LEMMA PutDepFresh ==
  ASSUME TypeOK, MarkRead, NEW a \in Agents, NEW v, PutDep(a, v), UNCHANGED seenDep
  PROVE  /\ dep'[a] = v /\ \A b \in Agents \ {a} : dep'[b] = dep[b]
         /\ \A b \in Agents \ staleDep' : seenDep'[b] = dep'[b]
  BY DEF PutDep, MarkRead, TypeOK, ApiOK, CacheOK

(* A worker that stops, or goes on elsewhere than at the mark. *)
LEMMA ReadKept ==
  ASSUME MarkRead, UNCHANGED <<dep, seenDep, staleDep>>,
         \/ Stop
         \/ /\ UNCHANGED <<key, exd>> /\ outdated \subseteq outdated'
            /\ pc # "restart" /\ pc' # "restart"
            /\ pc' = "annotate" => ca'.url # exd.annoUrl
  PROVE  MarkRead'
  BY DEF MarkRead, Stop

(* Somebody else's write of a Deployment, and steps that do not concern it. *)
LEMMA ReadElsewhere ==
  ASSUME TypeOK, MarkRead, UNCHANGED <<dep, pc, key, ca, exd, restarted>>,
         outdated \subseteq outdated',
         \A a \in Agents \ staleDep' : seenDep'[a] = dep'[a]
  PROVE  MarkRead'
  BY DEF MarkRead

LEMMA ReadOutdated ==
  ASSUME TypeOK, MarkRead, NEW a \in Agents, NEW v, PutDep(a, v), Outdate(a, "exd"),
         dep[a] # None, v = None \/ v.annoGen = dep[a].annoGen,
         UNCHANGED <<seenDep, pc, key, ca, exd, restarted>>
  PROVE  MarkRead'
<1>1. /\ dep'[a] = v /\ \A b \in Agents \ {a} : dep'[b] = dep[b]
      /\ \A b \in Agents \ staleDep' : seenDep'[b] = dep'[b]
  BY PutDepFresh
<1>2. key = a => "exd" \in outdated'
  BY DEF Outdate
<1>3. key # a => UNCHANGED outdated
  BY DEF Outdate
<1>4. pc \in {"restart", "annotate"} => key \in Agents
  BY DEF TypeOK, WorkerOK
<1> QED
  BY <1>1, <1>2, <1>3, <1>4 DEF MarkRead

-----------------------------------------------------------------------------
(* The steps of the operator.                                              *)

LEMMA RestartsEnsure ==
  ASSUME TypeOK, Ordered, MarkRead,
         \/ CleanUp \/ EnsureSecret \/ ReloadSecret
         \/ EnsureAgentMonConfig \/ EnsureAgentConfig \/ EnsureLogConfig
  PROVE  Ordered' /\ MarkRead'
<1>1. ca # None => ca \in CrValues
  BY Values
<1>2. UNCHANGED <<cr, seenCr, dep, seenDep, staleDep, edits, restarted>>
  BY DEF CleanUp, EnsureSecret, ReloadSecret, EnsureAgentMonConfig,
         EnsureAgentConfig, EnsureLogConfig, Others, api, cache, seen, ghost
<1>3. pc # "restart"
  BY DEF CleanUp, EnsureSecret, ReloadSecret, EnsureAgentMonConfig,
         EnsureAgentConfig, EnsureLogConfig
<1>4. ASSUME NEW n, NEW v, NEW next, WriteCm(n, v, next)
      PROVE  Stop \/ (ca' = v /\ pc' = next /\ UNCHANGED <<key, exd, outdated>>)
  BY <1>4 DEF WriteCm, Goto, Requeue
<1>5. \/ Stop
      \/ /\ UNCHANGED <<key, exd, outdated>> /\ ca' \in {ca, WithConfDefaults(ca)}
         /\ pc' # "restart" /\ (pc' = "annotate" => ca'.url # exd.annoUrl)
  <2>1. CASE CleanUp \/ EnsureSecret \/ ReloadSecret
    BY <2>1 DEF CleanUp, EnsureSecret, ReloadSecret, Done, Requeue, Goto
  <2>2. CASE EnsureAgentMonConfig
    BY <1>4, <2>2 DEF EnsureAgentMonConfig
  <2>3. CASE EnsureAgentConfig
    BY <1>4, <2>3 DEF EnsureAgentConfig, Requeue
  <2>4. CASE EnsureLogConfig
    <3>1. AfterConfig # "restart" /\ (AfterConfig = "annotate" => ca.url # exd.annoUrl)
      BY DEF AfterConfig, AddressChanged
    <3> QED
      BY <1>4, <2>4, <3>1 DEF EnsureLogConfig
  <2> QED
    BY <2>1, <2>2, <2>3, <2>4
<1>6. MarkRead'
  BY <1>2, <1>3, <1>5, ReadKept
<1>7. ca' = None \/ (ca # None /\ ca'.gen = ca.gen /\ ca'.url = ca.url /\ UNCHANGED key)
  <2>1. Stop => ca' = None
    BY DEF Stop
  <2>2. ca # None \/ pc = "gone"
    BY NoneAssumption DEF CleanUp, EnsureSecret, ReloadSecret, EnsureAgentMonConfig,
         EnsureAgentConfig, EnsureLogConfig, TypeOK, WorkerOK
  <2>3. pc = "gone" => Stop
    BY DEF CleanUp, EnsureSecret, ReloadSecret, EnsureAgentMonConfig,
         EnsureAgentConfig, EnsureLogConfig, Done
  <2> QED
    BY <1>1, <1>5, <2>1, <2>2, <2>3, DefaultsKeep
<1>8. Descend
  BY <1>2, <1>7, DescendKept
<1> QED
  BY <1>2, <1>6, <1>8, OrderDescends DEF MarkKept

LEMMA RestartsDeployment ==
  ASSUME TypeOK, Ordered, MarkRead,
         CreateDeployment \/ UpdateImage \/ SaveAnnotation \/ RestartAgent
  PROVE  Ordered' /\ MarkRead'
<1> USE NoneAssumption
<1>0. /\ ca \in CrValues /\ ca # None /\ key \in Agents /\ ca \in Copies(key)
      /\ UNCHANGED <<cr, seenCr, seenDep, edits>>
  <2>1. ca \in CrValues
    BY DEF CreateDeployment, UpdateImage, SaveAnnotation, RestartAgent, TypeOK, WorkerOK
  <2> QED
    BY <2>1, Values DEF CreateDeployment, UpdateImage, SaveAnnotation, RestartAgent,
         Others, cache, seen
<1>1. ASSUME Stop, UNCHANGED <<dep, staleDep, restarted>>
      PROVE  Ordered' /\ MarkRead'
  <2>1. MarkRead'
    BY <1>0, <1>1, ReadKept
  <2>2. Descend
    BY <1>0, <1>1, DescendKept DEF Stop
  <2> QED
    BY <1>0, <1>1, <2>1, <2>2, OrderDescends DEF MarkKept
<1>2. CASE CreateDeployment
  <2> DEFINE v == WithImageDefault(ca)
             d == [image |-> v.image, annoGen |-> v.gen, annoUrl |-> v.url,
                   owner |-> v.uid, ready |-> FALSE]
  <2>1. CASE dep[key] # None
    BY <1>1, <1>2, <2>1 DEF CreateDeployment, Requeue, ghost
  <2>2. CASE dep[key] = None
    <3>1. /\ PutDep(key, d) /\ ca' = v /\ pc' = "update" /\ pc = "create"
          /\ UNCHANGED <<restarted, key, exd, outdated>>
      BY <1>2, <2>2 DEF CreateDeployment, Goto, ghost
    <3>2. /\ d.annoGen = ca.gen /\ d.annoUrl = ca.url
          /\ ca' # None /\ ca'.gen = ca.gen /\ ca'.url = ca.url
      BY <1>0, <3>1, DefaultsKeep
    <3> HIDE DEF d, v
    <3>3. Ordered'
      BY <1>0, <3>1, <3>2, OrderMarked
    <3>4. ~(exd # None /\ "exd" \notin outdated)
      BY <2>2, <3>1 DEF MarkRead
    <3>5. MarkRead'
      BY <1>0, <3>1, <3>4, PutDepFresh DEF MarkRead
    <3> QED
      BY <3>3, <3>5
  <2> QED
    BY <2>1, <2>2
<1>3. CASE UpdateImage
  <2>1. Stop /\ UNCHANGED restarted /\ pc = "image" /\ exd \in DepValues /\ exd # None
    BY <1>3 DEF UpdateImage, Requeue, ghost, TypeOK, WorkerOK
  <2>2. CASE "exd" \in outdated
    BY <1>1, <1>3, <2>1, <2>2 DEF UpdateImage
  <2>3. CASE "exd" \notin outdated
    <3> DEFINE d == [exd EXCEPT !.image = ca.image]
    <3>1. PutDep(key, d) /\ dep[key] = exd
      BY <1>3, <2>1, <2>3 DEF UpdateImage, MarkRead
    <3>2. d.annoGen = exd.annoGen /\ d.annoUrl = exd.annoUrl
      BY <2>1 DEF DepValues
    <3> HIDE DEF d
    <3>3. /\ dep'[key] = d /\ \A b \in Agents \ {key} : dep'[b] = dep[b]
          /\ \A b \in Agents \ staleDep' : seenDep'[b] = dep'[b]
      BY <1>0, <3>1, PutDepFresh
    <3>4. MarkKept
      BY <2>1, <3>1, <3>2, <3>3 DEF MarkKept
    <3>5. Descend
      BY <1>0, <2>1, DescendKept DEF Stop
    <3>6. MarkRead'
      BY <2>1, <3>3 DEF MarkRead, Stop
    <3> QED
      BY <1>0, <2>1, <3>4, <3>5, <3>6, OrderDescends
  <2> QED
    BY <2>2, <2>3
<1>4. CASE SaveAnnotation
  <2>1. UNCHANGED restarted /\ pc = "annotate" /\ exd \in DepValues /\ exd # None
    BY <1>4 DEF SaveAnnotation, ghost, TypeOK, WorkerOK
  <2>2. CASE "exd" \in outdated
    BY <1>1, <1>4, <2>1, <2>2 DEF SaveAnnotation, Requeue
  <2>3. CASE "exd" \notin outdated
    <3> DEFINE d == [exd EXCEPT !.annoGen = ca.gen, !.annoUrl = ca.url]
    <3>1. /\ PutDep(key, d) /\ pc' = "restart"
          /\ UNCHANGED <<ca, outdated, key, exd>>
      BY <1>4, <2>3 DEF SaveAnnotation, Goto
    <3>2. d.annoGen = ca.gen /\ d.annoUrl = ca.url
      BY <2>1 DEF DepValues
    <3> HIDE DEF d
    <3>3. Ordered'
      BY <1>0, <2>1, <3>1, <3>2, OrderMarked
    <3>4. restarted[key] < ca.gen
      <4>1. dep[key] = exd /\ ca.url # exd.annoUrl
        BY <2>1, <2>3 DEF MarkRead
      <4>2. restarted[key] <= exd.annoGen /\ exd.annoGen <= ca.gen /\ exd.annoGen # ca.gen
        BY <1>0, <2>1, <4>1 DEF Ordered, MarkBehind
      <4>3. exd.annoGen \in Nat /\ ca.gen \in Nat /\ restarted[key] \in Nat
        BY <1>0, <2>1, <4>1, Values
      <4> QED
        BY <4>2, <4>3
    <3>5. MarkRead'
      BY <1>0, <2>1, <3>1, <3>2, <3>4, PutDepFresh DEF MarkRead
    <3> QED
      BY <3>3, <3>5
  <2> QED
    BY <2>2, <2>3
<1>5. CASE RestartAgent
  <2>1. Stop /\ UNCHANGED <<dep, staleDep>> /\ pc = "restart"
    BY <1>5 DEF RestartAgent, Requeue, cache
  <2>2. CASE UNCHANGED restarted
    BY <1>1, <2>1, <2>2
  <2>3. CASE restarted' = [restarted EXCEPT ![key] = ca.gen]
    <3>1. Ordered'
      BY <1>0, <2>1, <2>3, OrderRestarted DEF Stop
    <3>2. MarkRead'
      BY <1>0, <2>1, ReadKept
    <3> QED
      BY <3>1, <3>2
  <2> QED
    BY <1>5, <2>2, <2>3 DEF RestartAgent
<1> QED
  BY <1>2, <1>3, <1>4, <1>5

LEMMA RestartsUpdate ==
  ASSUME TypeOK, CopiesCurrent, Ordered, MarkRead, UpdateCr \/ UpdateStatus
  PROVE  Ordered' /\ MarkRead'
<1>0. /\ ca \in CrValues /\ ca # None /\ pc \in {"update", "status"}
      /\ UNCHANGED <<seenCr, dep, seenDep, staleDep, edits, restarted>>
  BY NoneAssumption DEF UpdateCr, UpdateStatus, Others, seen, ghost, TypeOK, WorkerOK
<1>1. Stop \/ (UNCHANGED <<ca, key, exd, outdated>> /\ pc' = "status")
  BY DEF UpdateCr, UpdateStatus, Done, Goto
<1>2. MarkRead'
  BY <1>0, <1>1, ReadKept
<1>3. CASE "ca" \in outdated
  <2>1. Stop /\ UNCHANGED cr
    BY <1>3 DEF UpdateCr, UpdateStatus, Done
  <2>2. Descend
    BY <1>0, <2>1, DescendKept DEF Stop
  <2> QED
    BY <1>0, <1>2, <2>2, OrderDescends DEF MarkKept
<1>4. CASE "ca" \notin outdated
  <2>1. PICK v \in CrValues : PutCr(key, v) /\ v.gen = ca.gen /\ v.url = ca.url
    <3>1. CASE UpdateCr
      BY <1>0, <1>4, <3>1 DEF UpdateCr
    <3>2. CASE UpdateStatus
      <4>1. PutCr(key, [ca EXCEPT !.stamped = TRUE])
        BY <1>4, <3>2 DEF UpdateStatus
      <4>2. /\ [ca EXCEPT !.stamped = TRUE] \in CrValues
            /\ [ca EXCEPT !.stamped = TRUE].gen = ca.gen
            /\ [ca EXCEPT !.stamped = TRUE].url = ca.url
        BY <1>0 DEF CrValues
      <4> QED
        BY <4>1, <4>2
    <3> QED
      BY <3>1, <3>2
  <2>2. ca' = None \/ UNCHANGED <<ca, key>>
    BY <1>1 DEF Stop
  <2> QED
    BY <1>0, <1>2, <1>4, <2>1, <2>2, OrderUpdated
<1> QED
  BY <1>3, <1>4
LEMMA RestartsReconcile ==
  TypeOK /\ CopiesCurrent /\ Ordered /\ MarkRead /\ Reconcile => Ordered' /\ MarkRead'
  BY RestartsEnsure, RestartsDeployment, RestartsUpdate DEF Reconcile

-----------------------------------------------------------------------------
(* The steps of the others.                                                *)

(* A step that is about none of this. *)
LEMMA RestartsApart ==
  ASSUME TypeOK, Ordered, MarkRead,
         UNCHANGED <<cr, seenCr, dep, seenDep, staleDep, worker, edits, restarted>>
  PROVE  Ordered' /\ MarkRead'
<1>1. Descend
  BY DescendKept DEF worker
<1> QED
  BY <1>1, OrderDescends, ReadElsewhere DEF MarkKept, MarkRead, worker

(* A Deployment that goes or changes under its mark. *)
LEMMA RestartsMarkKept ==
  ASSUME TypeOK, Ordered, MarkRead, NEW a \in Agents, NEW v,
         PutDep(a, v), Outdate(a, "exd"),
         dep[a] # None, v = None \/ (v.annoGen = dep[a].annoGen /\ v.annoUrl = dep[a].annoUrl),
         UNCHANGED <<cr, seenCr, seenDep, pc, key, ca, exd, restarted>>,
         edits' \in {edits, edits + 1}
  PROVE  Ordered' /\ MarkRead'
<1>1. MarkRead'
  BY ReadOutdated
<1>2. MarkKept
  BY PutDepFresh DEF MarkKept
<1>3. Descend
  BY DescendKept
<1> QED
  BY <1>1, <1>2, <1>3, OrderDescends

LEMMA RestartsUsers ==
  TypeOK /\ Ordered /\ MarkRead /\ Users => Ordered' /\ MarkRead'
<1> SUFFICES ASSUME TypeOK, Ordered, MarkRead, Users PROVE Ordered' /\ MarkRead'
  OBVIOUS
<1>0. TypeOK'
  BY TypeEnvironment
<1>1. ASSUME NEW a \in Agents, NEW v, PutCr(a, v), edits' = edits + 1,
             v = None \/ (v \in CrValues /\ v.gen = edits'), Outdate(a, "ca"),
             UNCHANGED <<seenCr, dep, seenDep, staleDep, pc, key, ca, exd, restarted>>
      PROVE  Ordered' /\ MarkRead'
  <2>1. Ordered'
    BY <1>1, OrderEdited
  <2>2. outdated \subseteq outdated'
    BY <1>1 DEF Outdate
  <2> QED
    BY <1>1, <2>1, <2>2, ReadElsewhere DEF MarkRead
<1>2. ASSUME NEW a \in Agents, CreateCr(a) PROVE Ordered' /\ MarkRead'
  <2>1. PICK s \in UserSpecs :
          PutCr(a, [gen |-> edits', uid |-> edits', url |-> s.url,
                    image |-> s.image, conf |-> s.conf, stamped |-> FALSE])
    BY <1>2 DEF CreateCr
  <2>2. [gen |-> edits', uid |-> edits', url |-> s.url, image |-> s.image,
         conf |-> s.conf, stamped |-> FALSE] \in CrValues
    BY <1>0 DEF CrValues, Urls, Images, Confs, TypeOK, CountersOK, Gens
  <2> QED
    BY <1>1, <1>2, <2>1, <2>2 DEF CreateCr, seen, ghost
<1>3. ASSUME NEW a \in Agents, EditCr(a) PROVE Ordered' /\ MarkRead'
  <2>1. PICK s \in UserSpecs :
          PutCr(a, [cr[a] EXCEPT !.gen = edits', !.url = s.url,
                                 !.image = s.image, !.conf = s.conf])
    BY <1>3 DEF EditCr
  <2> DEFINE v == [cr[a] EXCEPT !.gen = edits', !.url = s.url,
                                !.image = s.image, !.conf = s.conf]
  <2>2. cr[a] \in CrValues /\ edits' \in Gens
    BY <1>0, <1>3 DEF EditCr, TypeOK, ApiOK, CountersOK, Gens
  <2>3. v \in CrValues /\ v.gen = edits'
    BY <2>2 DEF CrValues, Urls, Images, Confs
  <2> HIDE DEF v
  <2> QED
    BY <1>1, <1>3, <2>1, <2>3 DEF EditCr, seen, ghost, v
<1>4. ASSUME NEW a \in Agents, DeleteCr(a) PROVE Ordered' /\ MarkRead'
  BY <1>1, <1>4 DEF DeleteCr, seen, ghost
<1>5. ASSUME NEW a \in Agents, DeleteDeployment(a) PROVE Ordered' /\ MarkRead'
  BY <1>5, RestartsMarkKept DEF DeleteDeployment, seen, ghost
<1>6. CASE SetSecret
  BY <1>6, RestartsApart DEF SetSecret, cache, seen, ghost
<1> QED
  BY <1>2, <1>3, <1>4, <1>5, <1>6 DEF Users

LEMMA RestartsFetch ==
  ASSUME TypeOK, Ordered, MarkRead, NEW a \in Agents, Fetch(a)
  PROVE  Ordered' /\ MarkRead'
<1>1. /\ ca = None /\ key' = a /\ ca' \in {None, seenCr[a]}
      /\ pc' \in {"gone", "cleanup", "secret"}
      /\ UNCHANGED <<cr, seenCr, dep, seenDep, staleDep, edits, restarted>>
  BY DEF Fetch, TypeOK, WorkerOK, api, cache, seen, ghost
<1>2. exd' = None \/ (exd' = seenDep[a] /\ ("exd" \notin outdated' => a \notin staleDep))
  <2>1. exd = None
    BY NoneAssumption DEF Fetch, MarkRead, TypeOK, WorkerOK
  <2> QED
    BY <2>1 DEF Fetch
<1>3. MarkRead'
  BY <1>1, <1>2 DEF MarkRead
<1> QED
  BY <1>1, <1>3, OrderFetched

(* Failures, caches, timers and the cluster. *)
LEMMA RestartsOthers ==
  TypeOK /\ Ordered /\ MarkRead /\ [Next]_vars /\ ~Reconcile /\ ~Users
    => Ordered' /\ MarkRead'
<1> SUFFICES ASSUME TypeOK, Ordered, MarkRead, [Next]_vars, ~Reconcile, ~Users
             PROVE  Ordered' /\ MarkRead'
  OBVIOUS
<1>1. CASE CallFails
  <2>1. UNCHANGED <<cr, seenCr, dep, seenDep, staleDep, edits, restarted>>
    BY <1>1 DEF CallFails, api, cache, seen, ghost
  <2>2. \/ Stop
        \/ pc = "cleanup" /\ pc' = "secret" /\ UNCHANGED <<key, ca, exd, outdated>>
    BY <1>1 DEF CallFails, Goto, Done, Requeue
  <2>3. MarkRead'
    BY <2>1, <2>2, ReadKept
  <2>4. Descend
    BY <2>1, <2>2, DescendKept DEF Stop
  <2> QED
    BY <2>1, <2>3, <2>4, OrderDescends DEF MarkKept
<1>2. CASE Crash
  <2>1. MarkRead'
    BY <1>2 DEF Crash, Stop, api, MarkRead
  <2>2. Descend
    BY <1>2, DescendSynced DEF Crash, Stop, api
  <2> QED
    BY <1>2, <2>1, <2>2, OrderDescends DEF Crash, api, ghost, MarkKept
<1>3. CASE SyncCr
  <2>1. MarkRead'
    BY <1>3, ReadElsewhere DEF SyncCr, api, worker, ghost, MarkRead
  <2>2. Descend
    BY <1>3, DescendSynced DEF SyncCr, api, worker
  <2> QED
    BY <1>3, <2>1, <2>2, OrderDescends DEF SyncCr, api, ghost, MarkKept
<1>4. CASE SyncDep
  <2>1. MarkRead'
    BY <1>4, ReadElsewhere DEF SyncDep, api, worker, ghost
  <2>2. Descend
    BY <1>4, DescendKept DEF SyncDep, api, worker
  <2> QED
    BY <1>4, <2>1, <2>2, OrderDescends DEF SyncDep, api, ghost, MarkKept
<1>5. ASSUME NEW a \in Agents, CollectGarbage(a) PROVE Ordered' /\ MarkRead'
  BY <1>5, RestartsMarkKept DEF CollectGarbage, seen, ghost
<1>6. ASSUME NEW a \in Agents, DeploymentStatus(a) PROVE Ordered' /\ MarkRead'
  <2> DEFINE ready == \E p \in PodIds : Running(p, a)
             d == [dep[a] EXCEPT !.ready = ready]
  <2>1. PutDep(a, d) /\ dep[a] # None /\ dep[a] \in DepValues
    BY <1>6 DEF DeploymentStatus, TypeOK, ApiOK
  <2>2. d.annoGen = dep[a].annoGen /\ d.annoUrl = dep[a].annoUrl
    <3> HIDE DEF ready
    <3> QED
      BY <2>1 DEF DepValues
  <2> HIDE DEF d
  <2>3. /\ Outdate(a, "exd")
        /\ UNCHANGED <<cr, seenCr, seenDep, pc, key, ca, exd, restarted, edits>>
    BY <1>6 DEF DeploymentStatus, seen, ghost
  <2> QED
    BY <2>1, <2>2, <2>3, RestartsMarkKept
<1>7. CASE \/ SyncCm \/ SyncSecret \/ SyncPods \/ Resync \/ \E a \in Agents : DelayOver(a)
           \/ \E p \in PodIds : \/ \E a \in Agents : SpawnPod(p, a)
                                \/ StartPod(p) \/ RetirePod(p) \/ RemovePod(p)
           \/ UNCHANGED vars
  BY <1>7, RestartsApart
     DEF SyncCm, SyncSecret, SyncPods, Resync, DelayOver, SpawnPod, StartPod,
         RetirePod, RemovePod, vars, api, cache, seen, ghost
<1>8. CASE \E a \in Agents : Fetch(a)
  BY <1>8, RestartsFetch
<1> QED
  BY <1>1, <1>2, <1>3, <1>4, <1>5, <1>6, <1>7, <1>8 DEF Next, Operator, Sync, Cluster

-----------------------------------------------------------------------------
(* restartAgent deletes a pod at most once for each edit, whatever calls   *)
(* fail, whenever the operator dies and however often the key is retried,  *)
(* for any number of Clusteragents: the annotation that marks the address  *)
(* as handled is saved first, and only in a Deployment that is unchanged   *)
(* since the address was compared with it.                                 *)
THEOREM RestartsOnce == Spec => RestartOncePerEdit
<1>1. Init => CopiesCurrent /\ Ordered /\ MarkRead
  <2>1. Init => CopiesCurrent /\ MarkRead
    BY DEF Init, CopiesCurrent, MarkRead
  <2>2. ASSUME Init PROVE Ordered
    <3>1. \A a \in Agents : Copies(a) = {} /\ dep[a] = None /\ restarted[a] = 0
                            /\ seenCr[a] = None
      BY <2>2 DEF Init, Copies
    <3>2. edits = 0 /\ ca = None
      BY <2>2 DEF Init
    <3> QED
      BY <3>1, <3>2 DEF Ordered, CopyOldest, CopiesAgree, MarkBehind
  <2> QED
    BY <2>1, <2>2
<1>2. TypeOK /\ CopiesCurrent /\ Ordered /\ MarkRead /\ [Next]_vars
        => CopiesCurrent' /\ Ordered' /\ MarkRead'
  BY CopiesReconcile, CopiesUsers, CopiesOthers,
     RestartsReconcile, RestartsUsers, RestartsOthers
<1>3. TypeOK /\ MarkRead
        => [pc = "restart" /\ pc' = "idle" /\ pods' # pods => ca.gen > restarted[key]]_vars
  <2>1. ASSUME TypeOK, MarkRead, pc = "restart" PROVE ca.gen > restarted[key]
    <3>1. ca # None
      BY <2>1, NoneAssumption DEF TypeOK, WorkerOK
    <3> QED
      BY <2>1, <3>1, Values DEF MarkRead
  <2> QED
    BY <2>1
<1> QED
  BY <1>1, <1>2, <1>3, TypeCorrect, PTL DEF Spec, RestartOncePerEdit
=============================================================================
