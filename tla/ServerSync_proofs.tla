------------------------- MODULE ServerSync_proofs -------------------------
(***************************************************************************)
(* Proofs about ServerSync, for any set of objects, contents and pods of   *)
(* this node: the types, the start-up order, and that no wake-up is lost   *)
(* between the handlers, the maps and the kernel.                          *)
(*                                                                         *)
(* The argument for the wake-ups: a handler that reads a flag that is not  *)
(* yet set may drop its request only because the loop has not started      *)
(* (Startup), and the loop starts with a request of its own; a request     *)
(* taken from the channel is served by a sync that has all its updates of  *)
(* the maps still to do (MapsStaleIsOwed); and a pod not on the list of a  *)
(* sync was not in the pods' map, hence is owed another (KernelStaleIsOwed)*)
(***************************************************************************)
EXTENDS ServerSync, SequenceTheorems, TLAPS

\* The flags of the start-up protocol agree with each other and the loop.
Startup ==
  /\ \A k \in Kinds : synced[k] => listed[k]
  /\ initialized => AllSynced(synced)
  /\ pc # "polling" => initialized
  /\ startPodConfigClosed => AllExceptPodsSynced(synced)
  /\ listed["pod"] => startPodConfigClosed

-----------------------------------------------------------------------------
LEMMA InitTypeOK == Init => TypeOK
<1> SUFFICES ASSUME Init PROVE TypeOK
  OBVIOUS
<1>1. kernel \in [Local -> Rules] /\ todo \subseteq Local /\ failed \subseteq Local
  BY DEF Init, Rules
<1>2. notifications \in [Objects -> Seq(Contents \cup {Absent})]
  BY DEF Init
<1>3. changes \in 0..MaxChanges /\ crashes \in 0..MaxCrashes /\ fails \in 0..MaxFails
  BY ServerAssumption DEF Init
<1> QED
  BY <1>1, <1>2, <1>3 DEF Init, TypeOK

\* Updating maps of one kind keeps their type.
LEMMA UpdatedType ==
  ASSUME TypeOK, NEW k
  PROVE  /\ Updated(k) \in [Objects -> Contents \cup {Absent}]
         /\ Snapshot(Updated(k)) \in Rules
BY DEF TypeOK, Updated, Snapshot, Rules, Mapped

\* Every step keeps the types.
LEMMA NextTypeOK == TypeOK /\ [Next]_vars => TypeOK'
<1> SUFFICES ASSUME TypeOK, [Next]_vars PROVE TypeOK'
  OBVIOUS
<1> USE DEF informers, flags, loop, counters
<1>1. ASSUME NEW o \in Objects, ApiChange(o) PROVE TypeOK'
  <2>1. /\ api' \in [Objects -> Contents \cup {Absent}]
        /\ notifications' \in [Objects -> Seq(Contents \cup {Absent})]
    BY <1>1 DEF ApiChange, TypeOK
  <2>2. changes' \in 0..MaxChanges
    BY <1>1, ServerAssumption DEF ApiChange, TypeOK
  <2> QED
    BY <1>1, <2>1, <2>2 DEF ApiChange, TypeOK
<1>2. ASSUME NEW k \in Kinds, List(k) PROVE TypeOK'
  <2> DEFINE found == {o \in Objects : KindOf[o] = k /\ api[o] # Absent}
  <2>1. /\ notifications' = [o \in Objects |-> IF o \in found
                                               THEN <<api[o]>>
                                               ELSE notifications[o]]
        /\ initialList' = initialList \cup found
    BY <1>2 DEF List
  <2>2. \A o \in Objects : <<api[o]>> \in Seq(Contents \cup {Absent})
    BY DEF TypeOK
  <2>3. notifications' \in [Objects -> Seq(Contents \cup {Absent})]
    BY <2>1, <2>2 DEF TypeOK
  <2>4. initialList' \subseteq Objects
    BY <2>1 DEF TypeOK
  <2> QED
    BY <1>2, <2>3, <2>4 DEF List, TypeOK
<1>3. ASSUME NEW o \in Objects, Handle(o) PROVE TypeOK'
  <2>1. notifications[o] \in Seq(Contents \cup {Absent})
    BY DEF TypeOK
  <2>2. /\ Head(notifications[o]) \in Contents \cup {Absent}
        /\ Tail(notifications[o]) \in Seq(Contents \cup {Absent})
    BY <1>3, <2>1, HeadTailProperties DEF Handle
  <2>3. KindOf[o] \in Kinds
    BY ServerAssumption
  <2> QED
    BY <1>3, <2>2, <2>3 DEF Handle, TypeOK
<1>4. ASSUME NEW k \in Kinds, RequestSync(k) PROVE TypeOK'
  <2>1. (syncRequested \/ WantsSync(k)) \in BOOLEAN
    BY DEF TypeOK, WantsSync
  <2> QED
    BY <1>4, <2>1 DEF RequestSync, TypeOK
<1>5. ASSUME NEW k \in Kinds, OnSynced(k) PROVE TypeOK'
  BY <1>5 DEF OnSynced, TypeOK, AllSynced, AllExceptPodsSynced
<1>6. CASE StartLoop
  BY <1>6 DEF StartLoop, TypeOK
<1>7. CASE RunOnRequest
  BY <1>7 DEF RunOnRequest, TypeOK
<1>8. CASE RunOnTimer
  BY <1>8 DEF RunOnTimer, TypeOK
<1>9. CASE UpdateNamespaces
  BY <1>9, UpdatedType DEF UpdateNamespaces, TypeOK
<1>10. CASE UpdatePods
  BY <1>10, UpdatedType DEF UpdatePods, TypeOK
<1>11. CASE UpdatePolicies
  BY <1>11, UpdatedType DEF UpdatePolicies, TypeOK
<1>12. ASSUME NEW p \in Local, ProgramPod(p) PROVE TypeOK'
  <2>1. maps' \in [Objects -> Contents \cup {Absent}] /\ Snapshot(maps') \in Rules
    BY <1>12, UpdatedType DEF ProgramPod
  <2>2. kernel' \in [Local -> Rules]
    BY <1>12, <2>1 DEF ProgramPod, TypeOK, Rules
  <2>3. fails' \in 0..MaxFails
    BY <1>12, ServerAssumption DEF ProgramPod, TypeOK
  <2> QED
    BY <1>12, <2>1, <2>2, <2>3 DEF ProgramPod, TypeOK
<1>13. CASE EndSync
  BY <1>13 DEF EndSync, TypeOK
<1>14. CASE Crash
  <2>1. crashes' \in 0..MaxCrashes
    BY <1>14, ServerAssumption DEF Crash, TypeOK
  <2>2. notifications' \in [Objects -> Seq(Contents \cup {Absent})]
    BY <1>14 DEF Crash
  <2> QED
    BY <1>14, <2>1, <2>2 DEF Crash, TypeOK
<1>15. CASE UNCHANGED vars
  BY <1>15 DEF vars, TypeOK
<1> QED
  BY <1>1, <1>2, <1>3, <1>4, <1>5, <1>6, <1>7, <1>8, <1>9,
      <1>10, <1>11, <1>12, <1>13, <1>14, <1>15
     DEF Next, Informer, Loop

-----------------------------------------------------------------------------
LEMMA InitStartup == Init => Startup
BY DEF Init, Startup, Kinds

\* Every step keeps the start-up protocol in order.
LEMMA NextStartup == TypeOK /\ Startup /\ [Next]_vars => Startup'
<1> SUFFICES ASSUME TypeOK /\ Startup, [Next]_vars PROVE Startup'
  OBVIOUS
<1> USE DEF informers, flags, loop, counters
<1>1. ASSUME NEW o \in Objects, ApiChange(o) PROVE Startup'
  BY <1>1 DEF ApiChange, Startup
<1>2. ASSUME NEW k \in Kinds, List(k) PROVE Startup'
  BY <1>2 DEF List, TypeOK, Startup, Kinds
<1>3. ASSUME NEW o \in Objects, Handle(o) PROVE Startup'
  BY <1>3 DEF Handle, Startup
<1>4. ASSUME NEW k \in Kinds, RequestSync(k) PROVE Startup'
  BY <1>4 DEF RequestSync, Startup
<1>5. ASSUME NEW k \in Kinds, OnSynced(k) PROVE Startup'
  BY <1>5 DEF OnSynced, TypeOK, Startup, AllSynced, AllExceptPodsSynced, Kinds
<1>6. CASE StartLoop
  BY <1>6 DEF StartLoop, Startup
<1>7. CASE RunOnRequest
  BY <1>7 DEF RunOnRequest, Startup
<1>8. CASE RunOnTimer
  BY <1>8 DEF RunOnTimer, Startup
<1>9. CASE UpdateNamespaces
  BY <1>9 DEF UpdateNamespaces, Startup
<1>10. CASE UpdatePods
  BY <1>10 DEF UpdatePods, Startup
<1>11. CASE UpdatePolicies
  BY <1>11 DEF UpdatePolicies, Startup
<1>12. ASSUME NEW p \in Local, ProgramPod(p) PROVE Startup'
  BY <1>12 DEF ProgramPod, Startup
<1>13. CASE EndSync
  BY <1>13 DEF EndSync, Startup
<1>14. CASE Crash
  BY <1>14 DEF Crash, Startup, Kinds
<1>15. CASE UNCHANGED vars
  BY <1>15 DEF vars, Startup
<1> QED
  BY <1>1, <1>2, <1>3, <1>4, <1>5, <1>6, <1>7, <1>8, <1>9,
      <1>10, <1>11, <1>12, <1>13, <1>14, <1>15
     DEF Next, Informer, Loop

-----------------------------------------------------------------------------
LEMMA InitMapsStale == Init => MapsStaleIsOwed
BY DEF Init, MapsStaleIsOwed, Mapped

\* A sync is owed whenever a handler has just called its tracker, and stays
\* owed when the handler moves on.
LEMMA RequestSyncOwes ==
  ASSUME TypeOK, Startup, NEW k \in Kinds, RequestSync(k)
  PROVE  Owed'
<1>1. CASE WantsSync(k)
  BY <1>1 DEF RequestSync, Owed
<1>2. CASE ~WantsSync(k)
  <2>1. ~initialized
    BY <1>2 DEF WantsSync, Startup, AllSynced
  <2>2. pc = "polling"
    BY <2>1 DEF Startup
  <2> QED
    BY <2>2 DEF RequestSync, loop, Owed
<1> QED
  BY <1>1, <1>2

\* No step lets a map fall behind its tracker without a sync to come.
LEMMA NextMapsStale == TypeOK /\ Startup /\ MapsStaleIsOwed /\ [Next]_vars => MapsStaleIsOwed'
<1> SUFFICES ASSUME TypeOK /\ Startup /\ MapsStaleIsOwed, [Next]_vars PROVE MapsStaleIsOwed'
  OBVIOUS
<1> USE DEF informers, flags, loop, counters
<1>1. ASSUME NEW o \in Objects, ApiChange(o) PROVE MapsStaleIsOwed'
  BY <1>1 DEF ApiChange, MapsStaleIsOwed, Owed, StillToUpdate
<1>2. ASSUME NEW k \in Kinds, List(k) PROVE MapsStaleIsOwed'
  BY <1>2 DEF List, MapsStaleIsOwed, Owed, StillToUpdate
<1>3. ASSUME NEW o \in Objects, Handle(o) PROVE MapsStaleIsOwed'
  BY <1>3, ServerAssumption DEF Handle, TypeOK, MapsStaleIsOwed, Owed
<1>4. ASSUME NEW k \in Kinds, RequestSync(k) PROVE MapsStaleIsOwed'
  BY <1>4, RequestSyncOwes DEF MapsStaleIsOwed
<1>5. ASSUME NEW k \in Kinds, OnSynced(k) PROVE MapsStaleIsOwed'
  BY <1>5 DEF OnSynced, MapsStaleIsOwed, Owed, StillToUpdate
<1>6. CASE StartLoop
  BY <1>6 DEF StartLoop, MapsStaleIsOwed, Owed
<1>7. CASE RunOnRequest
  BY <1>7 DEF RunOnRequest, MapsStaleIsOwed, StillToUpdate, Mapped, MappedKinds, Kinds
<1>8. CASE RunOnTimer
  BY <1>8 DEF RunOnTimer, MapsStaleIsOwed, StillToUpdate, Mapped, MappedKinds, Kinds
<1>9. CASE UpdateNamespaces
  <2>1. \A o \in Mapped : IF KindOf[o] = "namespace" THEN maps'[o] = delivered[o]
                                               ELSE maps'[o] = maps[o]
    BY <1>9 DEF UpdateNamespaces, Updated, Mapped
  <2>2. Owed => Owed'
    BY <1>9 DEF UpdateNamespaces, Owed
  <2> SUFFICES ASSUME NEW o \in Mapped, maps'[o] # delivered[o], ~Owed'
               PROVE  StillToUpdate(KindOf[o])'
    BY <1>9 DEF UpdateNamespaces, MapsStaleIsOwed
  <2>3. KindOf[o] # "namespace" /\ StillToUpdate(KindOf[o]) /\ KindOf[o] \in MappedKinds
    BY <2>1, <2>2 DEF MapsStaleIsOwed, Mapped
  <2> QED
    BY <1>9, <2>3 DEF UpdateNamespaces, StillToUpdate, MappedKinds, Kinds
<1>10. CASE UpdatePods
  <2>1. \A o \in Mapped : IF KindOf[o] = "pod" THEN maps'[o] = delivered[o]
                                               ELSE maps'[o] = maps[o]
    BY <1>10 DEF UpdatePods, Updated, Mapped
  <2>2. Owed => Owed'
    BY <1>10 DEF UpdatePods, Owed
  <2> SUFFICES ASSUME NEW o \in Mapped, maps'[o] # delivered[o], ~Owed'
               PROVE  StillToUpdate(KindOf[o])'
    BY <1>10 DEF UpdatePods, MapsStaleIsOwed
  <2>3. KindOf[o] # "pod" /\ StillToUpdate(KindOf[o]) /\ KindOf[o] \in MappedKinds
    BY <2>1, <2>2 DEF MapsStaleIsOwed, Mapped
  <2> QED
    BY <1>10, <2>3 DEF UpdatePods, StillToUpdate, MappedKinds, Kinds
<1>11. CASE UpdatePolicies
  <2>1. \A o \in Mapped : IF KindOf[o] = "policy" THEN maps'[o] = delivered[o]
                                               ELSE maps'[o] = maps[o]
    BY <1>11 DEF UpdatePolicies, Updated, Mapped
  <2>2. Owed => Owed'
    BY <1>11 DEF UpdatePolicies, Owed
  <2> SUFFICES ASSUME NEW o \in Mapped, maps'[o] # delivered[o], ~Owed'
               PROVE  StillToUpdate(KindOf[o])'
    BY <1>11 DEF UpdatePolicies, MapsStaleIsOwed
  <2>3. KindOf[o] # "policy" /\ StillToUpdate(KindOf[o]) /\ KindOf[o] \in MappedKinds
    BY <2>1, <2>2 DEF MapsStaleIsOwed, Mapped
  <2> QED
    BY <1>11, <2>3 DEF UpdatePolicies, StillToUpdate, MappedKinds, Kinds
<1>12. ASSUME NEW p \in Local, ProgramPod(p) PROVE MapsStaleIsOwed'
  BY <1>12 DEF ProgramPod, Updated, MapsStaleIsOwed, Owed, StillToUpdate, Mapped
<1>13. CASE EndSync
  BY <1>13 DEF EndSync, MapsStaleIsOwed, Owed, StillToUpdate, Mapped, MappedKinds, Kinds
<1>14. CASE Crash
  BY <1>14 DEF Crash, MapsStaleIsOwed, Owed
<1>15. CASE UNCHANGED vars
  BY <1>15 DEF vars, MapsStaleIsOwed, Owed, StillToUpdate
<1> QED
  BY <1>1, <1>2, <1>3, <1>4, <1>5, <1>6, <1>7, <1>8, <1>9,
      <1>10, <1>11, <1>12, <1>13, <1>14, <1>15
     DEF Next, Informer, Loop

-----------------------------------------------------------------------------
LEMMA InitKernelStale == Init => KernelStaleIsOwed
BY DEF Init, KernelStaleIsOwed, Owed

\* A map that is not behind its tracker has what was delivered.
LEMMA FreshSnapshot ==
  ASSUME NEW m, \A o \in Mapped : m[o] = delivered[o]
  PROVE  Snapshot(m) = Snapshot(delivered)
BY DEF Snapshot

\* No step lets a pod's rules fall behind without a sync to come, but a failure.
LEMMA NextKernelStale == TypeOK /\ Startup /\ MapsStaleIsOwed /\ KernelStaleIsOwed /\ [Next]_vars => KernelStaleIsOwed'
<1> SUFFICES ASSUME TypeOK /\ Startup /\ MapsStaleIsOwed /\ KernelStaleIsOwed, [Next]_vars PROVE KernelStaleIsOwed'
  OBVIOUS
<1> USE DEF informers, flags, loop, counters
<1>1. ASSUME NEW o \in Objects, ApiChange(o) PROVE KernelStaleIsOwed'
  BY <1>1 DEF ApiChange, KernelStaleIsOwed, Owed
<1>2. ASSUME NEW k \in Kinds, List(k) PROVE KernelStaleIsOwed'
  BY <1>2 DEF List, KernelStaleIsOwed, Owed
<1>3. ASSUME NEW o \in Objects, Handle(o) PROVE KernelStaleIsOwed'
  BY <1>3, ServerAssumption DEF Handle, TypeOK, KernelStaleIsOwed, Owed
<1>4. ASSUME NEW k \in Kinds, RequestSync(k) PROVE KernelStaleIsOwed'
  BY <1>4, RequestSyncOwes DEF KernelStaleIsOwed
<1>5. ASSUME NEW k \in Kinds, OnSynced(k) PROVE KernelStaleIsOwed'
  BY <1>5 DEF OnSynced, KernelStaleIsOwed, Owed
<1>6. CASE StartLoop
  BY <1>6 DEF StartLoop, KernelStaleIsOwed, Owed
<1>7. CASE RunOnRequest
  BY <1>7 DEF RunOnRequest, KernelStaleIsOwed, Owed
<1>8. CASE RunOnTimer
  BY <1>8 DEF RunOnTimer, KernelStaleIsOwed, Owed
<1>9. CASE UpdateNamespaces
  BY <1>9 DEF UpdateNamespaces, KernelStaleIsOwed, Owed
<1>10. CASE UpdatePods
  BY <1>10 DEF UpdatePods, KernelStaleIsOwed, Owed
<1>11. CASE UpdatePolicies
  <2> SUFFICES ASSUME NEW p \in Local, delivered[p] \in Attached, ~Owed',
                      p \notin todo', p \notin failed
               PROVE  FALSE
    BY <1>11 DEF UpdatePolicies, KernelStaleIsOwed
  <2>1. p \in Mapped /\ KindOf[p] = "pod"
    BY ServerAssumption DEF Mapped, MappedKinds, Kinds
  <2>2. ~Owed /\ ~StillToUpdate("pod")
    BY <1>11 DEF UpdatePolicies, Owed, StillToUpdate
  <2>3. maps[p] = delivered[p]
    BY <2>1, <2>2 DEF MapsStaleIsOwed
  <2>4. maps[p] = Absent
    BY <1>11 DEF UpdatePolicies
  <2> QED
    BY <2>3, <2>4, ServerAssumption
<1>12. ASSUME NEW p \in Local, ProgramPod(p) PROVE KernelStaleIsOwed'
  <2> SUFFICES ASSUME NEW q \in Local, delivered[q] \in Attached, ~Owed',
                      q \notin todo', q \notin failed'
               PROVE  kernel'[q] = Snapshot(delivered)
    BY <1>12 DEF ProgramPod, KernelStaleIsOwed
  <2>1. ~Owed /\ pc = "program"
    BY <1>12 DEF ProgramPod, Owed
  <2>2. \A o \in Mapped : maps'[o] = delivered[o]
    BY <1>12, <2>1
       DEF ProgramPod, Updated, MapsStaleIsOwed, StillToUpdate, Mapped,
           MappedKinds, Kinds
  <2>3. CASE q = p
    <3>1. p \in Mapped
      BY ServerAssumption DEF Mapped, MappedKinds, Kinds
    <3>2. maps'[p] \in Attached
      BY <2>2, <2>3, <3>1
    <3>3. kernel'[p] = Snapshot(maps')
      BY <1>12, <2>3, <3>2 DEF ProgramPod, TypeOK
    <3> QED
      BY <2>2, <2>3, <3>3, FreshSnapshot
  <2>4. CASE q # p
    BY <1>12, <2>1, <2>4 DEF ProgramPod, KernelStaleIsOwed, TypeOK
  <2> QED
    BY <2>3, <2>4
<1>13. CASE EndSync
  BY <1>13 DEF EndSync, KernelStaleIsOwed, Owed
<1>14. CASE Crash
  BY <1>14 DEF Crash, KernelStaleIsOwed, Owed
<1>15. CASE UNCHANGED vars
  BY <1>15 DEF vars, KernelStaleIsOwed, Owed
<1> QED
  BY <1>1, <1>2, <1>3, <1>4, <1>5, <1>6, <1>7, <1>8, <1>9,
      <1>10, <1>11, <1>12, <1>13, <1>14, <1>15
     DEF Next, Informer, Loop

-----------------------------------------------------------------------------
IInv == TypeOK /\ Startup /\ MapsStaleIsOwed /\ KernelStaleIsOwed

\* The inductive invariant holds in every reachable state.
LEMMA Invariance == Spec => []IInv
<1>1. Init => IInv
  BY InitTypeOK, InitStartup, InitMapsStale, InitKernelStale DEF IInv
<1>2. IInv /\ [Next]_vars => IInv'
  BY NextTypeOK, NextStartup, NextMapsStale, NextKernelStale DEF IInv
<1> QED
  BY <1>1, <1>2, PTL DEF Spec

\* The variables keep their types.
THEOREM TypeCorrect == Spec => []TypeOK
BY Invariance, PTL DEF IInv

\* Pods are listed after the caches of the other kinds, and nothing is
\* programmed before the caches of all kinds.
THEOREM StartsInOrder == Spec => []StartupOrder
<1>1. IInv => StartupOrder
  BY DEF IInv, TypeOK, Startup, StartupOrder, AllSynced, AllExceptPodsSynced
<1> QED
  BY <1>1, Invariance, PTL

\* No wake-up is lost between the handlers and the maps.
THEOREM NoLostWakeup == Spec => []MapsStaleIsOwed
BY Invariance, PTL DEF IInv

\* Nor between the handlers and the rules in the kernel, but by a failure.
THEOREM NoForgottenPod == Spec => []KernelStaleIsOwed
BY Invariance, PTL DEF IInv
=============================================================================
