-------------------------------- MODULE SyncPods --------------------------------
(***************************************************************************)
(* syncMultiPolicy pod by pod and interface by interface: which            *)
(* representor gets whose rules, and which directories of rule files stay. *)
(* The cluster changes between any two steps: a pod is deleted and created *)
(* again under its name, here or on another node, gains or loses           *)
(* interfaces, or its VF is handed to another pod.                         *)
(*                                                                         *)
(* The pods' map is what ChangeTracker is proved to make of it, and every  *)
(* event requests a sync, as ServerSync says.  The rules themselves are    *)
(* those of Renderer and Actuator; here they are known by their pod.       *)
(***************************************************************************)
EXTENDS Naturals

CONSTANTS
  Names,         \* namespaced pod names
  Devices,       \* VFs of this node, each with its representor
  Nil,           \* no pod
  Unprogrammed,  \* the rules of a representor that was never programmed
  Partial,       \* its rules after an Actuate that failed half-way
  podRulesPath,  \* whether rules are saved to files
  MaxCreated,    \* bound: pods ever created, each with a UID of its own
  MaxUpdates,    \* bound: updates and deletions of pods
  MaxFails       \* bound: failures of a sync's steps, and crashes

UIDs == 1..MaxCreated

\* PodInfo: UID, whether NodeName is this node's, Interfaces (by DeviceID).
PodInfo == [UID : UIDs, here : BOOLEAN, devices : SUBSET Devices]

ASSUME SyncPodsAssumption ==
  /\ Nil \notin PodInfo
  /\ Unprogrammed \notin UIDs /\ Partial \notin UIDs
  /\ podRulesPath \in BOOLEAN
  /\ MaxCreated \in Nat /\ MaxUpdates \in Nat /\ MaxFails \in Nat

VARIABLES
  cluster,     \* per name, the pod as the API server has it
  unseen,      \* names whose pod was not handled yet since the start
  requested,   \* the runner's channel of capacity one
  rep,         \* per representor, the pod whose rules it was last given
  dirs,        \* directories under podRulesPath, by UID
  files,       \* <<UID, device>>: the rule files in them
  \* syncMultiPolicy.
  pc,
  todo,        \* <<name, pod>>: what is left of the list of pods
  current,     \* the pod being programmed: its name, and its podInfo
  interfaces,  \* those of its rule sets that are left
  podsWithRules,
  \* History of the sync under way, or of the last one.
  undisturbed, \* names of which nothing was handled since it began
  served,      \* <<UID, device>>: rules actuated
  hurt,        \* <<UID, device>>: rules not rendered, actuated or saved
  \* Counters for the bounds.
  created, updates, fails

storage  == <<rep, dirs, files>>
loop     == <<pc, todo, current, interfaces, podsWithRules>>
history  == <<served, hurt>>
counters == <<created, updates, fails>>
vars == <<cluster, unseen, requested, storage, loop, undisturbed, history, counters>>

\* The program is started on a node without pods; SyncLoop's first Sync().
Init ==
  /\ cluster = [n \in Names |-> Nil]
  /\ unseen = {}
  /\ requested = TRUE
  /\ rep = [d \in Devices |-> Unprogrammed]
  /\ dirs = {} /\ files = {}
  /\ pc = "idle"
  /\ todo = {} /\ current = Nil /\ interfaces = {} /\ podsWithRules = {}
  /\ undisturbed = {} /\ served = {} /\ hurt = {}
  /\ created = 0 /\ updates = 0 /\ fails = 0

\* What the handlers were last told, and podMap after podMap.Update, which
\* precedes every look at it.
podMap == [n \in Names |-> IF n \in unseen THEN Nil ELSE cluster[n]]

-----------------------------------------------------------------------------
\* Mutant: OnPodUpdate requests no sync.
HandleWithoutSync(n) ==
  /\ requested' = (requested \/ podMap[n] = Nil)
  /\ unseen' = unseen \ {n}
  /\ undisturbed' = undisturbed \ {n}
  /\ UNCHANGED <<storage, loop, history, fails>>

\* OnPodAdd, OnPodUpdate, OnPodDelete.
Handle(n) ==
  /\ requested' = TRUE
  /\ unseen' = unseen \ {n}
  /\ undisturbed' = undisturbed \ {n}
  /\ UNCHANGED <<storage, loop, history, fails>>

Create(n) ==
  /\ cluster[n] = Nil
  /\ created < MaxCreated
  /\ created' = created + 1
  /\ \E here \in BOOLEAN, ds \in SUBSET Devices :
       cluster' = [cluster EXCEPT ![n] = [UID |-> created', here |-> here, devices |-> ds]]
  /\ Handle(n)
  /\ UNCHANGED updates

\* A pod is scheduled, gets its interfaces, completes, or is deleted.
Update(n) ==
  /\ cluster[n] # Nil
  /\ updates < MaxUpdates
  /\ updates' = updates + 1
  /\ \/ \E here \in BOOLEAN, ds \in SUBSET Devices :
          /\ cluster[n].here => here
          /\ cluster' = [cluster EXCEPT ![n].here = here, ![n].devices = ds]
     \/ cluster' = [cluster EXCEPT ![n] = Nil]
  /\ Handle(n)
  /\ UNCHANGED created

\* After a start, the pods that are there are handled one by one.
HandleInitial(n) ==
  /\ n \in unseen
  /\ Handle(n)
  /\ UNCHANGED <<cluster, created, updates>>

-----------------------------------------------------------------------------
\* syncMultiPolicy: the pods' map is brought up to date and listed.
Begin ==
  /\ pc = "idle"
  /\ pc' = "pods"
  /\ todo' = {<<n, podMap[n]>> : n \in {m \in Names : podMap[m] # Nil}}
  /\ podsWithRules' = {}
  /\ undisturbed' = Names /\ served' = {} /\ hurt' = {}
  /\ UNCHANGED <<cluster, unseen, storage, current, interfaces, counters>>

RunOnRequest == requested /\ requested' = FALSE /\ Begin

\* The runner calls it after 30 seconds without a request, too.
RunOnTimer == ~requested /\ UNCHANGED requested /\ Begin

Failing ==
  /\ fails < MaxFails
  /\ fails' = fails + 1

\* CheckNodeNameIdentical, of the pod as it was listed.
SkipOtherNode ==
  /\ pc = "pods"
  /\ \E t \in todo :
       /\ ~t[2].here
       /\ todo' = todo \ {t}
  /\ UNCHANGED <<cluster, unseen, requested, storage, pc, current,
                 interfaces, podsWithRules, undisturbed, history, counters>>

\* Mutants: a pod of any node is looked at; the interfaces are those of the list.
VisitAnyNode(n, p) ==
  /\ pc = "pods"
  /\ todo' = todo \ {<<n, p>>}
  /\ IF podMap[n] = Nil
     THEN UNCHANGED <<pc, current, interfaces, podsWithRules>>
     ELSE /\ pc' = "interfaces"
          /\ current' = [name |-> n, info |-> podMap[n]]
          /\ interfaces' = podMap[n].devices
          /\ podsWithRules' = podsWithRules \cup {p.UID}
  /\ UNCHANGED <<cluster, unseen, requested, storage, undisturbed, history, counters>>
VisitListed(n, p) ==
  /\ pc = "pods"
  /\ p.here
  /\ todo' = todo \ {<<n, p>>}
  /\ IF podMap[n] = Nil
     THEN UNCHANGED <<pc, current, interfaces, podsWithRules>>
     ELSE /\ pc' = "interfaces"
          /\ current' = [name |-> n, info |-> podMap[n]]
          /\ interfaces' = p.devices
          /\ podsWithRules' = podsWithRules \cup {p.UID}
  /\ UNCHANGED <<cluster, unseen, requested, storage, undisturbed, history, counters>>

\* A pod of this node is read again from the updated map; without interfaces it
\* is skipped, or else its rules are rendered, which may fail.
Visit(n, p) ==
  /\ pc = "pods"
  /\ p.here
  /\ todo' = todo \ {<<n, p>>}
  /\ LET info == podMap[n]
     IN  \/ /\ info # Nil => info.devices = {}
            /\ UNCHANGED <<pc, current, interfaces, podsWithRules, hurt, fails>>
         \/ /\ info # Nil /\ info.devices # {}
            /\ pc' = "interfaces"
            /\ current' = [name |-> n, info |-> info]
            /\ interfaces' = info.devices
            /\ podsWithRules' = podsWithRules \cup {p.UID}
            /\ UNCHANGED <<hurt, fails>>
         \/ /\ info # Nil /\ info.devices # {}
            /\ Failing
            /\ hurt' = hurt \cup ({info.UID} \X Devices)
            /\ UNCHANGED <<pc, current, interfaces, podsWithRules>>
  /\ UNCHANGED <<cluster, unseen, requested, storage, undisturbed, served,
                 created, updates>>

\* savePodInterfaceRules: mkdir unless there, write unless equal.  It fails with
\* or without the directory made and with the file left as it was or incomplete,
\* and the interface with it.
Save(u, d) ==
  \/ /\ dirs' = IF podRulesPath THEN dirs \cup {u} ELSE dirs
     /\ files' = IF podRulesPath THEN files \cup {<<u, d>>} ELSE files
     /\ UNCHANGED <<hurt, fails>>
  \/ /\ podRulesPath
     /\ Failing
     /\ hurt' = hurt \cup {<<u, d>>}
     /\ \E made \in SUBSET {u} : dirs' = dirs \cup made
     /\ \E incomplete \in SUBSET {<<u, d>>} : files' = files \ incomplete

\* Mutant: a failure ends the pod's turn.
ProgramUntilFailure(d) ==
  /\ pc = "interfaces"
  /\ d \in interfaces
  /\ LET u == current.info.UID
     IN  \/ /\ rep' = [rep EXCEPT ![d] = u]
            /\ served' = served \cup {<<u, d>>}
            /\ interfaces' = interfaces \ {d}
            /\ Save(u, d)
         \/ /\ Failing
            /\ interfaces' = {}
            /\ hurt' = hurt \cup {<<u, d>>}
            /\ UNCHANGED <<rep, dirs, files, served>>
  /\ UNCHANGED <<cluster, unseen, requested, pc, todo, current,
                 podsWithRules, undisturbed, created, updates>>

\* One rule set: getRepresentor, GenerateFromPolicyRuleSet, createActuatorForRep,
\* Actuate, savePodInterfaceRules.  An error ends this interface's turn only;
\* Actuate's may come after it changed the kernel.
Program(d) ==
  /\ pc = "interfaces"
  /\ d \in interfaces
  /\ interfaces' = interfaces \ {d}
  /\ LET u == current.info.UID
     IN  \/ /\ rep' = [rep EXCEPT ![d] = u]
            /\ served' = served \cup {<<u, d>>}
            /\ Save(u, d)
         \/ /\ Failing
            /\ \E rules \in {rep[d], Partial} : rep' = [rep EXCEPT ![d] = rules]
            /\ hurt' = hurt \cup {<<u, d>>}
            /\ UNCHANGED <<dirs, files, served>>
  /\ UNCHANGED <<cluster, unseen, requested, pc, todo, current,
                 podsWithRules, undisturbed, created, updates>>

NextPod ==
  /\ pc = "interfaces"
  /\ interfaces = {}
  /\ pc' = "pods"
  /\ current' = Nil
  /\ UNCHANGED <<cluster, unseen, requested, storage, todo, interfaces,
                 podsWithRules, undisturbed, history, counters>>

\* Mutants: only pods programmed in this sync keep their directory; nothing is
\* deleted.
DeleteStaleUnlessServed ==
  /\ pc = "pods"
  /\ todo = {}
  /\ pc' = "idle"
  /\ undisturbed' = {} /\ served' = {} /\ podsWithRules' = {}
  /\ dirs' = {u \in dirs : \E d \in Devices : <<u, d>> \in served}
  /\ files' = {f \in files : f[1] \in dirs'}
  /\ UNCHANGED <<cluster, unseen, requested, rep, todo, current,
                 interfaces, hurt, counters>>
DeleteNothing ==
  /\ pc = "pods"
  /\ todo = {}
  /\ pc' = "idle"
  /\ undisturbed' = {} /\ served' = {} /\ podsWithRules' = {}
  /\ UNCHANGED <<cluster, unseen, requested, storage, todo, current,
                 interfaces, hurt, counters>>

\* deleteStalePodInterfaceRules: any of ReadDir and RemoveAll may fail, the
\* latter with some of the files deleted.
DeleteStale ==
  /\ pc = "pods"
  /\ todo = {}
  /\ pc' = "idle"
  /\ undisturbed' = {} /\ served' = {} /\ podsWithRules' = {}
  /\ LET stale == IF podRulesPath THEN dirs \ podsWithRules ELSE {}
     IN  \/ /\ dirs' = dirs \ stale
            /\ files' = {f \in files : f[1] \notin stale}
            /\ UNCHANGED fails
         \/ /\ Failing
            /\ \E kept \in (SUBSET stale) \ {{}} : dirs' = (dirs \ stale) \cup kept
            /\ \E gone \in SUBSET {f \in files : f[1] \in stale} :
                 files' = {f \in files \ gone : f[1] \in dirs'}
  /\ UNCHANGED <<cluster, unseen, requested, rep, todo, current, interfaces,
                 hurt, created, updates>>

\* The daemon dies and is started again: the handlers see all pods anew.
Crash ==
  /\ Failing
  /\ unseen' = {n \in Names : cluster[n] # Nil}
  /\ requested' = TRUE
  /\ pc' = "idle"
  /\ todo' = {} /\ current' = Nil /\ interfaces' = {} /\ podsWithRules' = {}
  /\ undisturbed' = {} /\ served' = {} /\ hurt' = {}
  /\ UNCHANGED <<cluster, storage, created, updates>>

-----------------------------------------------------------------------------
Loop ==
  \/ RunOnRequest
  \/ SkipOtherNode \/ \E t \in todo : Visit(t[1], t[2])
  \/ (\E d \in Devices : Program(d)) \/ NextPod
  \/ DeleteStale

Next ==
  \/ \E n \in Names : Create(n) \/ Update(n) \/ HandleInitial(n)
  \/ Loop
  \/ RunOnTimer
  \/ Crash

Spec == Init /\ [][Next]_vars

\* The handlers, the loop and its timer go on; nothing is assumed of the rest.
FairSpec ==
  /\ Spec
  /\ WF_vars(Loop) /\ WF_vars(RunOnTimer)
  /\ \A n \in Names : WF_vars(HandleInitial(n))

-----------------------------------------------------------------------------
\* The pods a sync is to program.
Local(pods) ==
  {n \in Names : pods[n] # Nil /\ pods[n].here /\ pods[n].devices # {}}

\* A device only one pod of this node has (or none).
Alone(pods, d) ==
  \A m, n \in Local(pods) : d \in pods[m].devices \cap pods[n].devices => m = n

Rules == UIDs \cup {Unprogrammed, Partial}

\* The variables keep their types, and files are in directories.
TypeOK ==
  /\ cluster \in [Names -> PodInfo \cup {Nil}]
  /\ unseen \subseteq Names
  /\ requested \in BOOLEAN
  /\ rep \in [Devices -> Rules]
  /\ dirs \subseteq UIDs /\ files \subseteq dirs \X Devices
  /\ pc \in {"idle", "pods", "interfaces"}
  /\ todo \subseteq Names \X PodInfo
  /\ pc = "interfaces" => /\ current \in [name : Names, info : PodInfo]
                          /\ interfaces \subseteq current.info.devices
  /\ podsWithRules \subseteq UIDs
  /\ undisturbed \subseteq Names
  /\ served \subseteq UIDs \X Devices /\ hurt \subseteq UIDs \X Devices
  /\ created \in 0..MaxCreated /\ updates \in 0..MaxUpdates
  /\ fails \in 0..MaxFails

Saved(u, d) == podRulesPath => <<u, d>> \in files

\* A failure stays where it is: at the end of a sync every pod of this node has
\* been programmed and saved on each of its representors, but for those of
\* its interfaces that failed themselves and the pods that changed meanwhile.
EveryPodServed ==
  pc = "pods" /\ todo = {} =>
    \A n \in Local(podMap) \cap undisturbed :
      LET u == podMap[n].UID
      IN  \A d \in podMap[n].devices :
            <<u, d>> \in hurt \/ (<<u, d>> \in served /\ Saved(u, d))

\* "skip pods that are not scheduled on this node": what is programmed here are
\* pods of this node, except when one is replaced by a pod of another node
\* after the list was made, the check being made of the list only.
OnlyReplacedPodsAreStrangers ==
  pc = "interfaces" => current.info.here \/ current.name \notin undisturbed

\* The loop at rest with nothing requested and no failure to repair: every VF
\* of a pod of this node that the handlers know has that pod's rules, although
\* it may have been programmed for an earlier holder, for a pod of another node
\* or half-way, and its files may have been deleted as stale.
QuietMeansProgrammed ==
  pc = "idle" /\ ~requested /\ hurt = {} =>
    \A n \in Local(podMap) : \A d \in podMap[n].devices :
      /\ Alone(podMap, d) => rep[d] = podMap[n].UID
      /\ Saved(podMap[n].UID, d)

\* The directory of a pod that the sync rendered is not deleted, be the failures
\* of its interfaces what they may; unless the pod changed meanwhile.
LiveRulesKept ==
  [][\A n \in Local(podMap) \cap undisturbed :
       LET u == podMap[n].UID
       IN  u \in dirs \ dirs' => {u} \X Devices \subseteq hurt]_vars

\* Once the cluster is at rest and failures stop, each VF that one pod has is
\* enforcing that pod's rules, and the directories are those of this node's pods.
Converges ==
  <>[](/\ \A n \in Local(cluster) : \A d \in cluster[n].devices :
            /\ Alone(cluster, d) => rep[d] = cluster[n].UID
            /\ Saved(cluster[n].UID, d)
       /\ podRulesPath => dirs = {cluster[n].UID : n \in Local(cluster)})
=============================================================================
