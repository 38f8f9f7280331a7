----------------------------- MODULE ServerSync -----------------------------
(***************************************************************************)
(* The daemon from the cluster's API to the node's kernel: four informers, *)
(* the handlers of Server they call, the start-up protocol, and the sync   *)
(* loop that brings the tc rules of the pods of this node in line.         *)
(*                                                                         *)
(* Goroutines: per kind of object one reflector (List), one that waits for *)
(* the cache and calls OnXSynced, one that calls the handlers in turn; and *)
(* the sync loop.  The trackers between handlers and maps are represented  *)
(* by what ChangeTracker is proved to implement: updating a map makes it   *)
(* equal to what was delivered.  A crash loses everything but the cluster  *)
(* and the kernel.                                                         *)
(***************************************************************************)
EXTENDS Naturals, Sequences

CONSTANTS
  Objects,      \* all API objects, of every kind
  KindOf,       \* their kinds
  Contents,     \* what an object may contain
  Absent,       \* the content of an object that does not exist
  Local,        \* the pods scheduled on this node
  Attached,     \* the contents that give a pod interfaces to program
  Unprogrammed, \* a pod's rules before the daemon ever touched them
  Partial,      \* a pod's rules after an update that failed half-way
  MaxChanges,   \* bound: changes of the cluster
  MaxCrashes,   \* bound: crashes of the daemon
  MaxFails      \* bound: failures while programming a pod

Kinds == {"namespace", "netdef", "policy", "pod"}

\* Server keeps a map of each kind but network attachment definitions, which
\* stay in their tracker.
MappedKinds == Kinds \ {"netdef"}

Mapped == {o \in Objects : KindOf[o] \in MappedKinds}

ASSUME ServerAssumption ==
  /\ KindOf \in [Objects -> Kinds]
  /\ Absent \notin Contents
  /\ Attached \subseteq Contents
  /\ Local \subseteq {o \in Objects : KindOf[o] = "pod"}
  /\ {Unprogrammed, Partial} \cap [Mapped -> Contents \cup {Absent}] = {}
  /\ MaxChanges \in Nat /\ MaxCrashes \in Nat /\ MaxFails \in Nat

VARIABLES
  \* The world outside the daemon.
  api,                   \* per object, its content in the cluster
  kernel,                \* per local pod, the maps its rules were rendered from
  \* The informers and the goroutines around them.
  listed,                \* per kind, HasSynced() of its informer
  notifications,         \* per object, contents not yet passed to the handler
  initialList,           \* listed objects not yet passed to the handler
  delivered,             \* per object, the content last passed to the handler
  handler,               \* per kind, where the handler's goroutine is
  \* Server.
  synced,                \* per kind: nsSynced, netdefSynced, ...
  initialized,
  startPodConfigClosed,
  syncRequested,         \* the runner's channel of capacity one
  maps,                  \* per object, its entry in Server's maps
  \* The sync loop's goroutine.
  pc,                    \* where it is
  todo,                  \* local pods still to visit in this sync
  failed,                \* pods whose last programming failed
  \* Counters for the bounds.
  changes, crashes, fails

informers == <<listed, notifications, initialList, delivered, handler>>
flags     == <<synced, initialized, startPodConfigClosed>>
loop      == <<pc, todo, failed>>
counters  == <<changes, crashes, fails>>
vars == <<api, kernel, informers, flags, syncRequested, maps, loop, counters>>

Init ==
  /\ api \in [Objects -> Contents \cup {Absent}]
  /\ kernel = [p \in Local |-> Unprogrammed]
  /\ listed = [k \in Kinds |-> FALSE]
  /\ notifications = [o \in Objects |-> <<>>]
  /\ initialList = {}
  /\ delivered = [o \in Objects |-> Absent]
  /\ handler = [k \in Kinds |-> "idle"]
  /\ synced = [k \in Kinds |-> FALSE]
  /\ initialized = FALSE
  /\ startPodConfigClosed = FALSE
  /\ syncRequested = FALSE
  /\ maps = [o \in Objects |-> Absent]
  /\ pc = "polling"
  /\ todo = {}
  /\ failed = {}
  /\ changes = 0 /\ crashes = 0 /\ fails = 0

-----------------------------------------------------------------------------
\* The cluster and the informers (client-go).

\* An object is created, modified or deleted; a running informer is told.
ApiChange(o) ==
  /\ changes < MaxChanges
  /\ changes' = changes + 1
  /\ \E c \in Contents \cup {Absent} :
       /\ c # api[o]
       /\ api' = [api EXCEPT ![o] = c]
       /\ notifications' = IF listed[KindOf[o]]
                           THEN [notifications EXCEPT ![o] = Append(@, c)]
                           ELSE notifications
  /\ UNCHANGED <<kernel, listed, initialList, delivered, handler, flags,
                 syncRequested, maps, loop, crashes, fails>>

\* The reflector lists its kind, and HasSynced() turns true once all it found
\* is queued for the handler.  Run starts the reflectors, of pods only after
\* startPodConfig is closed (RunPodConfig).
List(k) ==
  /\ ~listed[k]
  /\ k = "pod" => startPodConfigClosed
  /\ listed' = [listed EXCEPT ![k] = TRUE]
  /\ LET found == {o \in Objects : KindOf[o] = k /\ api[o] # Absent}
     IN  /\ notifications' = [o \in Objects |-> IF o \in found
                                                THEN <<api[o]>>
                                                ELSE notifications[o]]
         /\ initialList' = initialList \cup found
  /\ UNCHANGED <<api, kernel, delivered, handler, flags, syncRequested, maps,
                 loop, counters>>

-----------------------------------------------------------------------------
\* The handlers.

\* OnXAdd, OnXUpdate, OnXDelete, first half: the tracker's Update, which
\* returns true for every event.
Handle(o) ==
  LET k == KindOf[o]
  IN  /\ handler[k] = "idle"
      /\ notifications[o] # <<>>
      /\ delivered' = [delivered EXCEPT ![o] = Head(notifications[o])]
      /\ notifications' = [notifications EXCEPT ![o] = Tail(@)]
      /\ initialList' = initialList \ {o}
      /\ handler' = [handler EXCEPT ![k] = "updated"]
      /\ UNCHANGED <<api, kernel, listed, flags, syncRequested, maps, loop,
                     counters>>

\* Mutant: only the handlers of pods request a sync.
WantsSyncOnlyPods(k) == k = "pod" /\ synced["pod"]

\* Pod handlers look at podSynced, without s.mu, the others at initialized.
\* Neither ever turns false again, so looking and acting are one step.
WantsSync(k) == IF k = "pod" THEN synced["pod"] ELSE initialized

\* Second half: request a sync, unless one is already requested.
RequestSync(k) ==
  /\ handler[k] = "updated"
  /\ handler' = [handler EXCEPT ![k] = "idle"]
  /\ syncRequested' = (syncRequested \/ WantsSync(k))
  /\ UNCHANGED <<api, kernel, listed, notifications, initialList, delivered,
                 flags, maps, loop, counters>>

\* Mutant: policies are not waited for.
AllExceptPodsSyncedButPolicies(s) == s["namespace"] /\ s["netdef"]

AllSynced(s) == \A k \in Kinds : s[k]

AllExceptPodsSynced(s) == \A k \in Kinds \ {"pod"} : s[k]

\* Mutant: only OnPolicySynced closes the channel.
OnSyncedPolicyCloses(k) ==
  /\ listed[k]
  /\ ~synced[k]
  /\ synced' = [synced EXCEPT ![k] = TRUE]
  /\ initialized' = AllSynced(synced')
  /\ startPodConfigClosed' =
       (startPodConfigClosed \/ (k = "policy" /\ AllExceptPodsSynced(synced')))
  /\ UNCHANGED <<api, kernel, informers, syncRequested, maps, loop, counters>>

\* OnXSynced, under s.mu, called once the informer's cache has synced.
OnSynced(k) ==
  /\ listed[k]
  /\ ~synced[k]
  /\ synced' = [synced EXCEPT ![k] = TRUE]
  /\ initialized' = AllSynced(synced')
  /\ startPodConfigClosed' =
       (startPodConfigClosed \/ (k # "pod" /\ AllExceptPodsSynced(synced')))
  /\ UNCHANGED <<api, kernel, informers, syncRequested, maps, loop, counters>>

-----------------------------------------------------------------------------
\* The sync loop.

\* Mutant: the loop starts without requesting a first sync.
StartLoopWithoutSync ==
  /\ pc = "polling"
  /\ initialized
  /\ pc' = "idle"
  /\ UNCHANGED <<api, kernel, informers, flags, syncRequested, maps, todo,
                 failed, counters>>

\* SyncLoop: once the poll finds the server initialized, Sync() and Loop().
StartLoop ==
  /\ pc = "polling"
  /\ initialized
  /\ pc' = "idle"
  /\ syncRequested' = TRUE
  /\ UNCHANGED <<api, kernel, informers, flags, maps, todo, failed, counters>>

\* The runner calls syncMultiPolicy: on request (there is no minimum interval
\* to wait for), or because 30 seconds have passed since the last call.
RunOnRequest ==
  /\ pc = "idle"
  /\ syncRequested
  /\ syncRequested' = FALSE
  /\ pc' = "namespaces"
  /\ UNCHANGED <<api, kernel, informers, flags, maps, todo, failed, counters>>

RunOnTimer ==
  /\ pc = "idle"
  /\ pc' = "namespaces"
  /\ UNCHANGED <<api, kernel, informers, flags, syncRequested, maps, todo,
                 failed, counters>>

\* xMap.Update(xChanges).
Updated(k) ==
  [o \in Objects |-> IF KindOf[o] = k THEN delivered[o] ELSE maps[o]]

UpdateNamespaces ==
  /\ pc = "namespaces"
  /\ maps' = Updated("namespace")
  /\ pc' = "pods"
  /\ UNCHANGED <<api, kernel, informers, flags, syncRequested, todo, failed,
                 counters>>

UpdatePods ==
  /\ pc = "pods"
  /\ maps' = Updated("pod")
  /\ pc' = "policies"
  /\ UNCHANGED <<api, kernel, informers, flags, syncRequested, todo, failed,
                 counters>>

\* Mutants: pods of other nodes are not skipped; none is visited in a sync
\* that finds no new policies.
UpdatePoliciesAllNodes ==
  /\ pc = "policies"
  /\ maps' = Updated("policy")
  /\ todo' = {o \in Objects : KindOf[o] = "pod" /\ maps[o] # Absent}
  /\ pc' = "program"
  /\ UNCHANGED <<api, kernel, informers, flags, syncRequested, failed,
                 counters>>
UpdatePoliciesIfChanged ==
  /\ pc = "policies"
  /\ maps' = Updated("policy")
  /\ todo' = IF maps' = maps THEN {} ELSE {p \in Local : maps[p] # Absent}
  /\ pc' = "program"
  /\ UNCHANGED <<api, kernel, informers, flags, syncRequested, failed,
                 counters>>

\* The list of pods to visit is taken once, after the maps are updated.
UpdatePolicies ==
  /\ pc = "policies"
  /\ maps' = Updated("policy")
  /\ todo' = {p \in Local : maps[p] # Absent}
  /\ pc' = "program"
  /\ UNCHANGED <<api, kernel, informers, flags, syncRequested, failed,
                 counters>>

\* What the rules of a pod are rendered from.
Snapshot(m) == [o \in Mapped |-> m[o]]

\* One turn of syncMultiPolicy's loop: the pods' map, and only that one, is
\* updated again; a pod gone or without interfaces is skipped, its rules left
\* as they are; an error is logged and the pod left for the next sync.
ProgramPod(p) ==
  /\ pc = "program"
  /\ p \in todo
  /\ todo' = todo \ {p}
  /\ maps' = Updated("pod")
  /\ \/ /\ maps'[p] \notin Attached
        /\ UNCHANGED <<kernel, failed, fails>>
     \/ /\ maps'[p] \in Attached
        /\ kernel' = [kernel EXCEPT ![p] = Snapshot(maps')]
        /\ failed' = failed \ {p}
        /\ UNCHANGED fails
     \/ /\ maps'[p] \in Attached
        /\ fails < MaxFails
        /\ fails' = fails + 1
        /\ \E rules \in {kernel[p], Partial} :
             kernel' = [kernel EXCEPT ![p] = rules]
        /\ failed' = failed \cup {p}
  /\ UNCHANGED <<api, informers, flags, syncRequested, pc, changes, crashes>>

\* Mutant: requests made during a sync are taken as served by it.
EndSyncDropsRequest ==
  /\ pc = "program"
  /\ todo = {}
  /\ pc' = "idle"
  /\ syncRequested' = FALSE
  /\ UNCHANGED <<api, kernel, informers, flags, maps, todo, failed, counters>>

EndSync ==
  /\ pc = "program"
  /\ todo = {}
  /\ pc' = "idle"
  /\ UNCHANGED <<api, kernel, informers, flags, syncRequested, maps, todo,
                 failed, counters>>

\* The daemon crashes, at any point, and is started again.
Crash ==
  /\ crashes < MaxCrashes
  /\ crashes' = crashes + 1
  /\ listed' = [k \in Kinds |-> FALSE]
  /\ notifications' = [o \in Objects |-> <<>>]
  /\ initialList' = {}
  /\ delivered' = [o \in Objects |-> Absent]
  /\ handler' = [k \in Kinds |-> "idle"]
  /\ synced' = [k \in Kinds |-> FALSE]
  /\ initialized' = FALSE
  /\ startPodConfigClosed' = FALSE
  /\ syncRequested' = FALSE
  /\ maps' = [o \in Objects |-> Absent]
  /\ pc' = "polling"
  /\ todo' = {}
  /\ failed' = {}
  /\ UNCHANGED <<api, kernel, changes, fails>>

-----------------------------------------------------------------------------
\* The goroutines of one kind, and the sync loop without its timer.
Informer(k) ==
  \/ List(k) \/ OnSynced(k) \/ RequestSync(k)
  \/ \E o \in Objects : KindOf[o] = k /\ Handle(o)

Loop ==
  \/ StartLoop \/ RunOnRequest
  \/ UpdateNamespaces \/ UpdatePods \/ UpdatePolicies
  \/ (\E p \in Local : ProgramPod(p)) \/ EndSync

Next ==
  \/ \E o \in Objects : ApiChange(o)
  \/ \E k \in Kinds : Informer(k)
  \/ Loop
  \/ RunOnTimer
  \/ Crash

Spec == Init /\ [][Next]_vars

\* Goroutines that can run do.  Nothing is assumed of the cluster, of crashes
\* or of the timer.
Fairness == WF_vars(Loop) /\ \A k \in Kinds : WF_vars(Informer(k))

FairSpec == Spec /\ Fairness

-----------------------------------------------------------------------------
Rules == [Mapped -> Contents \cup {Absent}] \cup {Unprogrammed, Partial}

\* The variables keep their types.
TypeOK ==
  /\ api \in [Objects -> Contents \cup {Absent}]
  /\ kernel \in [Local -> Rules]
  /\ listed \in [Kinds -> BOOLEAN]
  /\ notifications \in [Objects -> Seq(Contents \cup {Absent})]
  /\ initialList \subseteq Objects
  /\ delivered \in [Objects -> Contents \cup {Absent}]
  /\ handler \in [Kinds -> {"idle", "updated"}]
  /\ synced \in [Kinds -> BOOLEAN]
  /\ initialized \in BOOLEAN
  /\ startPodConfigClosed \in BOOLEAN
  /\ syncRequested \in BOOLEAN
  /\ maps \in [Objects -> Contents \cup {Absent}]
  /\ pc \in {"polling", "idle", "namespaces", "pods", "policies", "program"}
  /\ todo \subseteq Local
  /\ failed \subseteq Local
  /\ changes \in 0..MaxChanges
  /\ crashes \in 0..MaxCrashes
  /\ fails \in 0..MaxFails

\* Someone will still request, or has requested, a sync.
Owed ==
  \/ syncRequested
  \/ \E k \in Kinds : handler[k] = "updated"
  \/ pc = "polling"

\* The sync under way has yet to update the map of kind k.
StillToUpdate(k) ==
  CASE k = "namespace" -> pc = "namespaces"
    [] k = "pod"       -> pc \in {"namespaces", "pods"}
    [] k = "policy"    -> pc \in {"namespaces", "pods", "policies"}

\* No lost wake-up between a handler and the maps: when an event reached a
\* tracker and not yet the map, a sync that will see it is owed, although the
\* handlers read their flags without a lock, events before start-up request
\* nothing, and the runner merges all requests into one.
MapsStaleIsOwed ==
  \A o \in Mapped :
    maps[o] # delivered[o] => Owed \/ StillToUpdate(KindOf[o])

\* The same up to the kernel: when the rules of a pod differ from what the
\* delivered objects ask for, this sync has yet to visit the pod, or another
\* sync is owed, or the pod's last programming failed (and only the timer will
\* try again).  It survives a restart with rules of the former life in place.
KernelStaleIsOwed ==
  \A p \in Local :
    delivered[p] \in Attached /\ kernel[p] # Snapshot(delivered) =>
      \/ Owed
      \/ pc \in {"namespaces", "pods", "policies"}
      \/ p \in todo
      \/ p \in failed

\* The start-up order startPodConfig and SyncLoop exist for: pods are listed
\* after the caches of the other kinds, and nothing is programmed before the
\* caches of all kinds.
StartupOrder ==
  /\ listed["pod"] => \A k \in Kinds : listed[k]
  /\ pc # "polling" => \A k \in Kinds : listed[k]

\* A pod's rules are those the cluster asks for, if it has interfaces.
UpToDate(p) == api[p] \in Attached => kernel[p] = Snapshot(api)

\* Once the cluster stops changing (and the daemon crashing), the events alone
\* bring the rules of every pod of this node up to date, without the runner's
\* timer; only pods whose programming failed may be left.
EventsConverge == <>[](\A p \in Local : UpToDate(p) \/ p \in failed)

\* Those are left to the timer: if it fires, the failures are repaired.
TimerConverges == WF_vars(RunOnTimer) => <>[](\A p \in Local : UpToDate(p))

\* "OnPodSynced is called once all the initial event handlers were called and
\* the state is fully propagated to local cache" (pod.go, and the same words
\* in the interfaces of the other kinds).
SyncedMeansDelivered ==
  \A o \in initialList : ~synced[KindOf[o]]
=============================================================================
