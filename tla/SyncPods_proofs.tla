--------------------------- MODULE SyncPods_proofs ---------------------------
(***************************************************************************)
(* Proofs about SyncPods, for any pods, devices and bounds: what a sync    *)
(* leaves behind, whatever fails in it and whatever events arrive during   *)
(* it.                                                                     *)
(*                                                                         *)
(* The argument is about the pods of which nothing was handled since the   *)
(* sync began.  The list and the podInfo read again agree on them          *)
(* (ListFits), so that each is on the list still, or under way, or done    *)
(* with, its failures apart (Progress).  Without a request pending these   *)
(* are all pods, and then a VF that one pod has alone is programmed in its *)
(* turn only (LastProgrammed).                                             *)
(***************************************************************************)
EXTENDS SyncPods, TLAPS

\* What the sync knows of a pod that nothing was handled of is what podMap says,
\* and without a request pending nothing was handled of any.
ListFits ==
  /\ \A t \in todo : t[1] \in undisturbed => t[2] = podMap[t[1]]
  /\ pc = "interfaces" /\ current.name \in undisturbed =>
       current.info = podMap[current.name] /\ current.info.here
  /\ ~requested /\ pc # "idle" => undisturbed = Names

Done(u, d) == <<u, d>> \in hurt \/ (<<u, d>> \in served /\ Saved(u, d))

\* Such a pod of this node is listed still, or its directory is safe (unless it
\* could not be rendered) and its interfaces are done, or under way.
ProgressOf(n) ==
  \/ <<n, podMap[n]>> \in todo
  \/ LET u == podMap[n].UID
     IN  /\ u \in podsWithRules \/ {u} \X Devices \subseteq hurt
         /\ \A d \in podMap[n].devices :
              \/ Done(u, d)
              \/ pc = "interfaces" /\ current.name = n /\ d \in interfaces

Progress ==
  pc # "idle" => \A n \in Local(podMap) \cap undisturbed : ProgressOf(n)

\* What was programmed for a pod that has the VF alone is still there.
LastProgrammed ==
  pc # "idle" /\ undisturbed = Names =>
    \A n \in Local(podMap) : \A d \in podMap[n].devices :
      LET u == podMap[n].UID
      IN  Alone(podMap, d) /\ <<u, d>> \in served \ hurt => rep[d] = u

IInv == TypeOK /\ ListFits /\ Progress /\ LastProgrammed /\ QuietMeansProgrammed

-----------------------------------------------------------------------------
LEMMA InitTypeOK == Init => TypeOK
BY SyncPodsAssumption DEF Init, TypeOK, Rules

\* The handlers' part of a step.
LEMMA HandleTypeOK ==
  ASSUME TypeOK, NEW n \in Names, Handle(n),
         cluster' \in [Names -> PodInfo \cup {Nil}],
         created' \in 0..MaxCreated, updates' \in 0..MaxUpdates
  PROVE  TypeOK'
BY DEF Handle, TypeOK, Rules, storage, loop, history

\* Saving keeps files in directories.
LEMMA SaveTypeOK ==
  ASSUME TypeOK, NEW u \in UIDs, NEW d \in Devices, Save(u, d)
  PROVE  /\ dirs' \subseteq UIDs /\ files' \subseteq dirs' \X Devices
         /\ hurt' \subseteq UIDs \X Devices /\ hurt \subseteq hurt'
         /\ fails' \in 0..MaxFails
BY SyncPodsAssumption DEF Save, TypeOK, Failing

\* Every step keeps the types.
LEMMA NextTypeOK == TypeOK /\ [Next]_vars => TypeOK'
<1> SUFFICES ASSUME TypeOK, [Next]_vars PROVE TypeOK'
  OBVIOUS
<1> USE SyncPodsAssumption DEF storage, loop, history, counters
<1>1. ASSUME NEW n \in Names, Create(n) PROVE TypeOK'
  <2>1. created' \in UIDs /\ created' \in 0..MaxCreated
    BY <1>1 DEF Create, TypeOK, UIDs
  <2>2. cluster' \in [Names -> PodInfo \cup {Nil}]
    BY <1>1, <2>1 DEF Create, TypeOK, PodInfo
  <2> QED
    BY <1>1, <2>1, <2>2, HandleTypeOK DEF Create, TypeOK
<1>2. ASSUME NEW n \in Names, Update(n) PROVE TypeOK'
  <2>1. updates' \in 0..MaxUpdates
    BY <1>2 DEF Update, TypeOK
  <2>2. cluster[n] \in PodInfo
    BY <1>2 DEF Update, TypeOK
  <2>3. ASSUME NEW here \in BOOLEAN, NEW ds \in SUBSET Devices,
               cluster' = [cluster EXCEPT ![n].here = here, ![n].devices = ds]
        PROVE  cluster' \in [Names -> PodInfo \cup {Nil}]
    <3>1. [[cluster[n] EXCEPT !.here = here] EXCEPT !.devices = ds] \in PodInfo
      BY <2>2 DEF PodInfo
    <3> QED
      BY <2>3, <3>1 DEF TypeOK
  <2>4. cluster' \in [Names -> PodInfo \cup {Nil}]
    BY <1>2, <2>3 DEF Update, TypeOK
  <2> QED
    BY <1>2, <2>1, <2>4, HandleTypeOK DEF Update, TypeOK
<1>3. ASSUME NEW n \in Names, HandleInitial(n) PROVE TypeOK'
  BY <1>3, HandleTypeOK DEF HandleInitial, TypeOK
<1>4. CASE RunOnRequest \/ RunOnTimer
  <2>1. \A n \in Names : podMap[n] # Nil => podMap[n] \in PodInfo
    BY DEF TypeOK, podMap
  <2>2. todo' = {<<n, podMap[n]>> : n \in {m \in Names : podMap[m] # Nil}}
    BY <1>4 DEF RunOnRequest, RunOnTimer, Begin
  <2>3. todo' \subseteq Names \X PodInfo
    BY <2>1, <2>2
  <2> QED
    BY <1>4, <2>3 DEF RunOnRequest, RunOnTimer, Begin, TypeOK, Rules
<1>5. CASE SkipOtherNode
  BY <1>5 DEF SkipOtherNode, TypeOK, Rules
<1>6. ASSUME NEW t \in todo, Visit(t[1], t[2]) PROVE TypeOK'
  <2>1. t[1] \in Names /\ t[2].UID \in UIDs
    BY DEF TypeOK, PodInfo
  <2>2. podMap[t[1]] # Nil => podMap[t[1]] \in PodInfo
    BY <2>1 DEF podMap, TypeOK
  <2>3. podMap[t[1]] # Nil => podMap[t[1]].UID \in UIDs
    BY <2>2 DEF PodInfo
  <2> QED
    BY <1>6, <2>1, <2>2, <2>3 DEF Visit, TypeOK, Rules, Failing
<1>7. ASSUME NEW d \in Devices, Program(d) PROVE TypeOK'
  <2>1. current.info.UID \in UIDs
    BY <1>7 DEF Program, TypeOK, PodInfo
  <2>2. rep' \in [Devices -> Rules]
    BY <1>7, <2>1 DEF Program, TypeOK, Rules
  <2>3. /\ dirs' \subseteq UIDs /\ files' \subseteq dirs' \X Devices
        /\ hurt' \subseteq UIDs \X Devices /\ served' \subseteq UIDs \X Devices
        /\ fails' \in 0..MaxFails
    BY <1>7, <2>1, SaveTypeOK DEF Program, TypeOK, Failing
  <2> QED
    BY <1>7, <2>2, <2>3 DEF Program, TypeOK
<1>8. CASE NextPod
  BY <1>8 DEF NextPod, TypeOK, Rules
<1>9. CASE DeleteStale
  BY <1>9 DEF DeleteStale, TypeOK, Rules, Failing
<1>10. CASE Crash
  BY <1>10 DEF Crash, TypeOK, Rules, Failing
<1>11. CASE UNCHANGED vars
  BY <1>11 DEF vars, TypeOK, Rules
<1> QED
  BY <1>1, <1>2, <1>3, <1>4, <1>5, <1>6, <1>7, <1>8, <1>9, <1>10, <1>11 DEF Next, Loop

\* The variables keep their types, and files are in directories.
THEOREM TypeCorrect == Spec => []TypeOK
BY InitTypeOK, NextTypeOK, PTL DEF Spec

-----------------------------------------------------------------------------
\* An event disturbs the pod of its name only.
LEMMA EventDisturbs ==
  ASSUME TypeOK, NEW n \in Names, Create(n) \/ Update(n) \/ HandleInitial(n)
  PROVE  /\ requested' /\ n \notin undisturbed' /\ undisturbed' \subseteq undisturbed
         /\ \A m \in Names \ {n} : podMap'[m] = podMap[m]
         /\ UNCHANGED <<rep, dirs, files, pc, todo, current, interfaces, podsWithRules,
                        served, hurt>>
<1>1. Handle(n) /\ \A m \in Names \ {n} : cluster'[m] = cluster[m]
  BY DEF Create, Update, HandleInitial, TypeOK
<1>2. /\ unseen' = unseen \ {n} /\ requested' = TRUE /\ undisturbed' = undisturbed \ {n}
      /\ UNCHANGED <<storage, loop, history>>
  BY <1>1 DEF Handle
<1>3. \A m \in Names \ {n} : podMap'[m] = podMap[m]
  BY <1>1, <1>2 DEF podMap
<1> QED
  BY <1>2, <1>3 DEF storage, loop, history

\* The steps of a sync, but for its first and its last.
Working ==
  \/ SkipOtherNode \/ NextPod
  \/ \E t \in todo : Visit(t[1], t[2])
  \/ \E d \in Devices : Program(d)

\* They change nothing of what the handlers know.
LEMMA WorkingKeeps ==
  Working => UNCHANGED <<cluster, unseen, requested, undisturbed, podMap>>
BY DEF Working, SkipOtherNode, NextPod, Visit, Program, podMap

\* All kinds of steps.
LEMMA Steps ==
  [Next]_vars =>
    \/ \E n \in Names : Create(n) \/ Update(n) \/ HandleInitial(n)
    \/ RunOnRequest \/ RunOnTimer \/ Working \/ DeleteStale \/ Crash
    \/ UNCHANGED vars
BY DEF Next, Loop, Working

LEMMA InitListFits == Init => ListFits
BY DEF Init, ListFits

\* Every step keeps the list in agreement with podMap.
LEMMA NextListFits == TypeOK /\ ListFits /\ [Next]_vars => ListFits'
<1> SUFFICES ASSUME TypeOK, ListFits, [Next]_vars PROVE ListFits'
  OBVIOUS
<1> USE DEF storage, loop, history, counters
<1>1. ASSUME NEW n \in Names, Create(n) \/ Update(n) \/ HandleInitial(n) PROVE ListFits'
  BY <1>1, EventDisturbs DEF ListFits, TypeOK
<1>2. CASE RunOnRequest \/ RunOnTimer
  <2>1. podMap' = podMap
    BY <1>2 DEF RunOnRequest, RunOnTimer, Begin, podMap
  <2>2. /\ todo' = {<<n, podMap[n]>> : n \in {m \in Names : podMap[m] # Nil}}
        /\ pc' = "pods" /\ undisturbed' = Names
    BY <1>2 DEF RunOnRequest, RunOnTimer, Begin
  <2> QED
    BY <2>1, <2>2 DEF ListFits
<1>3. CASE Working
  <2>1. podMap' = podMap /\ undisturbed' = undisturbed /\ requested' = requested
    BY <1>3, WorkingKeeps
  <2>2. todo' \subseteq todo /\ pc # "idle"
    BY <1>3 DEF Working, SkipOtherNode, NextPod, Visit, Program
  <2>3. ASSUME pc' = "interfaces", current'.name \in undisturbed
        PROVE  current'.info = podMap[current'.name] /\ current'.info.here
    <3>1. ASSUME NEW t \in todo, Visit(t[1], t[2])
          PROVE  current'.info = podMap[current'.name] /\ current'.info.here
      BY <2>3, <3>1 DEF Visit, ListFits
    <3>2. CASE pc = "interfaces" /\ current' = current
      BY <2>3, <3>2 DEF ListFits
    <3> QED
      BY <1>3, <2>3, <3>1, <3>2 DEF Working, SkipOtherNode, NextPod, Program
  <2> QED
    BY <2>1, <2>2, <2>3 DEF ListFits
<1>4. CASE DeleteStale
  BY <1>4 DEF DeleteStale, ListFits
<1>5. CASE Crash
  BY <1>5 DEF Crash, ListFits
<1>6. CASE UNCHANGED vars
  <2>1. podMap' = podMap
    BY <1>6 DEF vars, podMap
  <2> QED
    BY <1>6, <2>1 DEF vars, ListFits
<1> QED
  BY <1>1, <1>2, <1>3, <1>4, <1>5, <1>6, Steps

-----------------------------------------------------------------------------
\* A pod that is to be programmed has a podInfo.
LEMMA LocalType ==
  ASSUME TypeOK, NEW n \in Local(podMap)
  PROVE  n \in Names /\ podMap[n] \in PodInfo /\ podMap[n].devices \subseteq Devices
BY DEF Local, TypeOK, podMap, PodInfo

\* What is done stays done, also if saving the rules of an interface fails.
LEMMA SaveKeepsDone ==
  ASSUME NEW u, NEW d, Save(u, d)
  PROVE  /\ hurt \subseteq hurt'
         /\ \A v, e : Saved(v, e) => Saved(v, e)' \/ <<v, e>> \in hurt'
         /\ Saved(u, d)' \/ <<u, d>> \in hurt'
BY DEF Save, Saved

LEMMA InitProgress == Init => Progress
BY DEF Init, Progress

\* A step of the sync brings each pod forward, or leaves it where it is.
LEMMA WorkingProgress ==
  ASSUME TypeOK, ListFits, Progress, Working,
         NEW n \in Local(podMap) \cap undisturbed
  PROVE  ProgressOf(n)'
<1> USE DEF storage, loop, history, counters
<1>u. PICK u : u = podMap[n].UID
  OBVIOUS
<1>0. /\ podMap' = podMap /\ pc # "idle" /\ ProgressOf(n)
      /\ n \in Names /\ podMap[n] \in PodInfo /\ podMap[n].devices \subseteq Devices
      /\ podMap[n] # Nil /\ podMap[n].here /\ podMap[n].devices # {}
  <2>1. pc # "idle"
    BY DEF Working, SkipOtherNode, NextPod, Visit, Program
  <2> QED
    BY <2>1, WorkingKeeps, LocalType DEF Progress, Local
<1>1. CASE SkipOtherNode
  <2>1. PICK t \in todo : ~t[2].here /\ todo' = todo \ {t}
    BY <1>1 DEF SkipOtherNode
  <2>2. t # <<n, podMap[n]>>
    BY <1>0, <2>1
  <2> QED
    BY <1>0, <1>1, <2>1, <2>2 DEF SkipOtherNode, ProgressOf, Done, Saved
<1>2. CASE NextPod
  BY <1>0, <1>2 DEF NextPod, ProgressOf, Done, Saved
<1>3. ASSUME NEW t \in todo, Visit(t[1], t[2]) PROVE ProgressOf(n)'
  <2>1. t = <<t[1], t[2]>>
    BY DEF TypeOK
  <2>2. /\ todo' = todo \ {t} /\ served' = served /\ files' = files
        /\ hurt \subseteq hurt' /\ podsWithRules \subseteq podsWithRules'
        /\ pc = "pods"
    BY <1>3, <2>1 DEF Visit
  <2>3. CASE t = <<n, podMap[n]>>
    <3>1. t[1] = n /\ t[2] = podMap[n]
      BY <2>3
    <3>2. CASE hurt' = hurt \cup ({u} \X Devices)
      BY <1>u, <1>0, <3>2 DEF ProgressOf, Done
    <3>3. CASE /\ pc' = "interfaces" /\ current' = [name |-> n, info |-> podMap[n]]
               /\ interfaces' = podMap[n].devices
               /\ podsWithRules' = podsWithRules \cup {u}
      BY <1>u, <1>0, <3>3 DEF ProgressOf
    <3> QED
      BY <1>u, <1>0, <1>3, <3>1, <3>2, <3>3 DEF Visit
  <2>4. CASE t # <<n, podMap[n]>> /\ <<n, podMap[n]>> \in todo
    BY <1>0, <2>2, <2>4 DEF ProgressOf
  <2>5. CASE <<n, podMap[n]>> \notin todo
    <3>1. u \in podsWithRules \/ {u} \X Devices \subseteq hurt
      BY <1>u, <1>0, <2>5 DEF ProgressOf
    <3>2. \A d \in podMap[n].devices : Done(u, d)
      BY <1>u, <1>0, <2>2, <2>5 DEF ProgressOf
    <3>3. \A d : Saved(u, d)' <=> Saved(u, d)
      BY <2>2 DEF Saved
    <3> QED
      BY <1>u, <1>0, <2>2, <3>1, <3>2, <3>3 DEF ProgressOf, Done
  <2> QED
    BY <2>3, <2>4, <2>5
<1>4. ASSUME NEW d \in Devices, Program(d) PROVE ProgressOf(n)'
  <2>v. PICK v : v = current.info.UID
    OBVIOUS
  <2>1. /\ pc = "interfaces" /\ pc' = pc /\ current' = current /\ todo' = todo
        /\ interfaces' = interfaces \ {d} /\ podsWithRules' = podsWithRules
    BY <1>4 DEF Program
  <2>2. /\ hurt \subseteq hurt' /\ served \subseteq served'
        /\ \A w, e : Saved(w, e) => Saved(w, e)' \/ <<w, e>> \in hurt'
        /\ <<v, d>> \in hurt' \/ (<<v, d>> \in served' /\ Saved(v, d)')
    <3>1. CASE Save(v, d) /\ served' = served \cup {<<v, d>>}
      BY <3>1, SaveKeepsDone
    <3>2. CASE hurt' = hurt \cup {<<v, d>>} /\ files' = files /\ served' = served
      BY <3>2 DEF Saved
    <3> QED
      BY <1>4, <2>v, <3>1, <3>2 DEF Program
  <2>3. CASE <<n, podMap[n]>> \in todo
    BY <1>0, <2>1, <2>3 DEF ProgressOf
  <2>4. CASE <<n, podMap[n]>> \notin todo
    <3>1. u \in podsWithRules \/ {u} \X Devices \subseteq hurt
      BY <1>u, <1>0, <2>4 DEF ProgressOf
    <3>2. ASSUME NEW e \in podMap[n].devices
          PROVE  Done(u, e)' \/ (current.name = n /\ e \in interfaces')
      <4>1. CASE Done(u, e)
        BY <1>0, <2>2, <4>1 DEF Done
      <4>2. CASE current.name = n /\ e = d
        <5>1. v = u
          BY <1>u, <2>1, <2>v, <4>2 DEF ListFits
        <5> QED
          BY <1>0, <2>2, <4>2, <5>1 DEF Done
      <4> QED
        BY <1>u, <1>0, <2>1, <2>4, <4>1, <4>2 DEF ProgressOf
    <3> QED
      BY <1>u, <1>0, <2>1, <2>2, <3>1, <3>2 DEF ProgressOf
  <2> QED
    BY <2>3, <2>4
<1> QED
  BY <1>1, <1>2, <1>3, <1>4 DEF Working

\* Every step keeps the progress of the pods that nothing was handled of.
LEMMA NextProgress == TypeOK /\ ListFits /\ Progress /\ [Next]_vars => Progress'
<1> SUFFICES ASSUME TypeOK, ListFits, Progress, [Next]_vars, pc' # "idle",
                    NEW n \in Local(podMap)' \cap undisturbed'
             PROVE  ProgressOf(n)'
  BY DEF Progress
<1> USE DEF storage, loop, history, counters
<1>1. ASSUME NEW m \in Names, Create(m) \/ Update(m) \/ HandleInitial(m)
      PROVE  ProgressOf(n)'
  <2>1. n \in Names /\ podMap'[n] = podMap[n] /\ n \in Local(podMap) \cap undisturbed
    BY <1>1, EventDisturbs DEF Local
  <2>2. /\ pc' = pc /\ todo' = todo /\ current' = current /\ interfaces' = interfaces
        /\ podsWithRules' = podsWithRules /\ served' = served /\ hurt' = hurt
        /\ files' = files
    BY <1>1, EventDisturbs
  <2>3. ProgressOf(n)
    BY <2>1, <2>2 DEF Progress
  <2> QED
    BY <2>1, <2>2, <2>3 DEF ProgressOf, Done, Saved
<1>2. CASE RunOnRequest \/ RunOnTimer
  <2>1. podMap' = podMap
    BY <1>2 DEF RunOnRequest, RunOnTimer, Begin, podMap
  <2>2. todo' = {<<m, podMap[m]>> : m \in {k \in Names : podMap[k] # Nil}}
    BY <1>2 DEF RunOnRequest, RunOnTimer, Begin
  <2> QED
    BY <2>1, <2>2 DEF ProgressOf, Local
<1>3. CASE Working
  <2>1. n \in Local(podMap) \cap undisturbed
    BY <1>3, WorkingKeeps DEF Local
  <2> QED
    BY <1>3, <2>1, WorkingProgress
<1>4. CASE DeleteStale \/ Crash
  BY <1>4 DEF DeleteStale, Crash
<1>5. CASE UNCHANGED vars
  <2>1. podMap' = podMap
    BY <1>5 DEF vars, podMap
  <2> QED
    BY <1>5, <2>1 DEF vars, Progress, ProgressOf, Done, Saved, Local
<1> QED
  BY <1>1, <1>2, <1>3, <1>4, <1>5, Steps

-----------------------------------------------------------------------------
LEMMA InitLastProgrammed == Init => LastProgrammed
BY DEF Init, LastProgrammed

\* Every step leaves alone what a pod was given on a VF that it has alone.
LEMMA NextLastProgrammed ==
  TypeOK /\ ListFits /\ LastProgrammed /\ [Next]_vars => LastProgrammed'
<1> SUFFICES ASSUME TypeOK, ListFits, LastProgrammed, [Next]_vars PROVE LastProgrammed'
  OBVIOUS
<1> USE DEF storage, loop, history, counters
<1>1. ASSUME NEW m \in Names, Create(m) \/ Update(m) \/ HandleInitial(m)
      PROVE  LastProgrammed'
  BY <1>1, EventDisturbs DEF LastProgrammed
<1>2. CASE RunOnRequest \/ RunOnTimer
  BY <1>2 DEF RunOnRequest, RunOnTimer, Begin, LastProgrammed
<1>3. CASE Working
  <2> SUFFICES ASSUME undisturbed = Names, NEW n \in Local(podMap),
                      NEW e \in podMap[n].devices, Alone(podMap, e),
                      NEW u, u = podMap[n].UID, <<u, e>> \in served' \ hurt'
               PROVE  rep'[e] = u
    <3>1. podMap' = podMap /\ undisturbed' = undisturbed
      BY <1>3, WorkingKeeps
    <3>2. Local(podMap)' = Local(podMap) /\ \A e : Alone(podMap, e)' <=> Alone(podMap, e)
      BY <3>1 DEF Local, Alone
    <3> QED
      BY <3>1, <3>2 DEF LastProgrammed
  <2>0. pc # "idle"
    BY <1>3 DEF Working, SkipOtherNode, NextPod, Visit, Program
  <2>1. CASE rep' = rep /\ served' = served /\ hurt \subseteq hurt'
    BY <2>0, <2>1 DEF LastProgrammed
  <2>2. ASSUME NEW d \in Devices, Program(d) PROVE rep'[e] = u
    <3>v. PICK v : v = current.info.UID
      OBVIOUS
    <3>1. hurt \subseteq hurt' /\ served' \subseteq served \cup {<<v, d>>}
      BY <2>2, <3>v DEF Program, Save
    <3>2. CASE e # d
      <4>1. rep'[e] = rep[e]
        BY <2>2, <3>2 DEF Program, TypeOK
      <4>2. <<u, e>> \in served \ hurt
        BY <3>1, <3>2
      <4> QED
        BY <2>0, <4>1, <4>2 DEF LastProgrammed
    <3>3. CASE e = d
      <4> DEFINE m == current.name
      <4>1. /\ m \in Names /\ current.info \in PodInfo /\ d \in current.info.devices
            /\ current.info = podMap[m] /\ current.info.here
        BY <2>2 DEF Program, TypeOK, ListFits
      <4>2. m \in Local(podMap) /\ d \in podMap[m].devices
        BY <4>1, SyncPodsAssumption DEF Local
      <4>3. m = n
        BY <3>3, <4>2 DEF Alone
      <4>4. v = u
        BY <3>v, <4>1, <4>3
      <4> QED
        BY <2>2, <3>v, <3>3, <4>4 DEF Program, TypeOK
    <3> QED
      BY <3>2, <3>3
  <2> QED
    BY <1>3, <2>1, <2>2 DEF Working, SkipOtherNode, NextPod, Visit
<1>4. CASE DeleteStale \/ Crash
  BY <1>4 DEF DeleteStale, Crash, LastProgrammed
<1>5. CASE UNCHANGED vars
  <2>1. podMap' = podMap
    BY <1>5 DEF vars, podMap
  <2> QED
    BY <1>5, <2>1 DEF vars, LastProgrammed, Local, Alone
<1> QED
  BY <1>1, <1>2, <1>3, <1>4, <1>5, Steps

-----------------------------------------------------------------------------
\* At the end of a sync its pods are done.
LEMMA ProgressEnds ==
  Progress => EveryPodServed
BY DEF Progress, ProgressOf, EveryPodServed, Done

LEMMA InitQuiet == Init => QuietMeansProgrammed
BY DEF Init, QuietMeansProgrammed

\* A sync without events and failures ends with every pod programmed.
LEMMA EndQuiet ==
  ASSUME TypeOK, ListFits, Progress, LastProgrammed, DeleteStale
  PROVE  QuietMeansProgrammed'
<1> USE DEF storage, loop, history, counters
<1>1. /\ podMap' = podMap /\ requested' = requested /\ hurt' = hurt /\ rep' = rep
      /\ pc = "pods" /\ todo = {}
  BY DEF DeleteStale, podMap
<1> SUFFICES ASSUME ~requested, hurt = {},
                    NEW n \in Local(podMap), NEW d \in podMap[n].devices,
                    NEW u, u = podMap[n].UID
             PROVE  /\ Alone(podMap, d) => rep[d] = u
                    /\ Saved(u, d)'
  <2>1. Local(podMap)' = Local(podMap) /\ \A d : Alone(podMap, d)' <=> Alone(podMap, d)
    BY <1>1 DEF Local, Alone
  <2> QED
    BY <1>1, <2>1 DEF QuietMeansProgrammed
<1>2. undisturbed = Names
  BY <1>1 DEF ListFits
<1>3. ProgressOf(n)
  BY <1>1, <1>2, LocalType DEF Progress
<1>4. <<u, d>> \in served /\ Saved(u, d) /\ u \in podsWithRules
  <2>1. d \in Devices
    BY LocalType
  <2> QED
    BY <1>1, <1>3, <2>1 DEF ProgressOf, Done
<1>5. Alone(podMap, d) => rep[d] = u
  BY <1>1, <1>2, <1>4 DEF LastProgrammed
<1>6. Saved(u, d)'
  <2>1. CASE ~podRulesPath
    BY <2>1 DEF Saved
  <2>2. CASE podRulesPath
    <3>1. <<u, d>> \in files /\ u \in dirs
      BY <1>4, <2>2 DEF Saved, TypeOK
    <3>2. <<u, d>> \in files'
      BY <1>4, <2>2, <3>1 DEF DeleteStale
    <3> QED
      BY <3>2 DEF Saved
  <2> QED
    BY <2>1, <2>2
<1> QED
  BY <1>5, <1>6

\* Every step keeps a loop at rest programmed, and only a sync brings it to rest.
LEMMA NextQuiet == IInv /\ [Next]_vars => QuietMeansProgrammed'
<1> SUFFICES ASSUME IInv, [Next]_vars PROVE QuietMeansProgrammed'
  OBVIOUS
<1> USE DEF storage, loop, history, counters
<1>1. ASSUME NEW m \in Names, Create(m) \/ Update(m) \/ HandleInitial(m)
      PROVE  QuietMeansProgrammed'
  BY <1>1, EventDisturbs DEF IInv, QuietMeansProgrammed
<1>2. CASE RunOnRequest \/ RunOnTimer
  BY <1>2 DEF RunOnRequest, RunOnTimer, Begin, QuietMeansProgrammed
<1>3. CASE Working
  BY <1>3 DEF Working, SkipOtherNode, NextPod, Visit, Program, QuietMeansProgrammed
<1>4. CASE DeleteStale
  BY <1>4, EndQuiet DEF IInv
<1>5. CASE Crash
  BY <1>5 DEF Crash, QuietMeansProgrammed
<1>6. CASE UNCHANGED vars
  <2>1. podMap' = podMap
    BY <1>6 DEF vars, podMap
  <2> QED
    BY <1>6, <2>1 DEF vars, IInv, QuietMeansProgrammed, Local, Alone, Saved
<1> QED
  BY <1>1, <1>2, <1>3, <1>4, <1>5, <1>6, Steps

LEMMA Inductive == Spec => []IInv
<1>1. Init => IInv
  BY InitTypeOK, InitListFits, InitProgress, InitLastProgrammed, InitQuiet DEF IInv
<1>2. IInv /\ [Next]_vars => IInv'
  BY NextTypeOK, NextListFits, NextProgress, NextLastProgrammed, NextQuiet DEF IInv
<1> QED
  BY <1>1, <1>2, PTL DEF Spec

-----------------------------------------------------------------------------
\* A failure stays where it is: at the end of a sync each interface of each pod
\* of this node is programmed and saved, unless it failed itself or something
\* of the pod was handled meanwhile.
THEOREM PodsServed == Spec => []EveryPodServed
<1>1. IInv => EveryPodServed
  BY ProgressEnds DEF IInv
<1> QED
  BY <1>1, Inductive, PTL

\* Only pods of this node are programmed, except one that was replaced after the
\* list was made.
THEOREM StrangersWereReplaced == Spec => []OnlyReplacedPodsAreStrangers
<1>1. IInv => OnlyReplacedPodsAreStrangers
  BY DEF IInv, ListFits, OnlyReplacedPodsAreStrangers
<1> QED
  BY <1>1, Inductive, PTL

\* The loop at rest, nothing requested and nothing failed: each VF enforces the
\* rules of its pod, and they are saved.
THEOREM QuietIsProgrammed == Spec => []QuietMeansProgrammed
<1>1. IInv => QuietMeansProgrammed
  BY DEF IInv
<1> QED
  BY <1>1, Inductive, PTL

\* The cleanup spares the directories of the pods that the sync rendered.
THEOREM CleanupSparesLivePods == Spec => LiveRulesKept
<1> DEFINE Kept(n) == LET u == podMap[n].UID
                      IN  u \in dirs \ dirs' => {u} \X Devices \subseteq hurt
<1>1. ASSUME IInv, [Next]_vars
      PROVE  [\A n \in Local(podMap) \cap undisturbed : Kept(n)]_vars
  <2> SUFFICES ASSUME NEW n \in Local(podMap) \cap undisturbed PROVE Kept(n)
    OBVIOUS
  <2> USE DEF storage, loop, history, counters
  <2>1. CASE DeleteStale
    <3>1. pc = "pods" /\ todo = {}
      BY <2>1 DEF DeleteStale
    <3>2. podMap[n].UID \in podsWithRules \/ {podMap[n].UID} \X Devices \subseteq hurt
      BY <1>1, <3>1 DEF IInv, Progress, ProgressOf
    <3> QED
      BY <2>1, <3>2 DEF DeleteStale
  <2>2. CASE dirs \subseteq dirs'
    BY <2>2
  <2>3. ASSUME NEW d \in Devices, Program(d) PROVE dirs \subseteq dirs'
    BY <2>3 DEF Program, Save
  <2>4. ASSUME NEW m \in Names, Create(m) \/ Update(m) \/ HandleInitial(m)
        PROVE  dirs \subseteq dirs'
    BY <1>1, <2>4, EventDisturbs DEF IInv
  <2> QED
    BY <1>1, <2>1, <2>2, <2>3, <2>4, Steps
       DEF vars, RunOnRequest, RunOnTimer, Begin, Working, SkipOtherNode, NextPod, Visit,
           Crash
<1> QED
  BY <1>1, Inductive, PTL DEF Spec, LiveRulesKept
=============================================================================
