----------------------------- MODULE PodTracker -----------------------------
(***************************************************************************)
(* PodChangeTracker, PodMap and the tracker of network attachment          *)
(* definitions they depend on.  A pod's interfaces are computed from its   *)
(* network status and from the plugin types of the definitions, looked up  *)
(* one by one while the pod's event is handled; definitions are delivered  *)
(* by another goroutine, also between two lookups.  The module starts when *)
(* pods are about to be listed: the definitions have been listed, but not  *)
(* all of them need have reached their handler (see ServerSync).           *)
(*                                                                         *)
(* The tracker of definitions is represented by what ChangeTracker         *)
(* implements: updating netdefMap makes it equal to what was delivered.    *)
(***************************************************************************)
EXTENDS Naturals

CONSTANTS
  Pods,         \* namespaced names of pods
  Networks,     \* namespaced names of network attachment definitions
  Types,        \* CNI plugin types
  networkPlugins, \* those that the daemon is configured for
  Specs,        \* contents of a pod object, but for its UID
  Nil,          \* nil, or no definition of that name
  MaxUID,       \* bound: pods created under one name
  MaxChanges    \* bound: changes of definitions after they were listed

Definitions == [Networks -> Types \cup {Nil}]

Objects == [uid : 1..MaxUID, spec : Specs]

ASSUME PodTrackerAssumption ==
  /\ networkPlugins \subseteq Types
  /\ Nil \notin Types
  /\ MaxUID \in Nat /\ MaxChanges \in Nat
  /\ \A s \in Specs : /\ s.running \in BOOLEAN /\ s.hostNetwork \in BOOLEAN
                      /\ s.networks \subseteq Networks
                      /\ \A i \in s.status : i.network \in Networks

VARIABLES
  queued,       \* the listed definitions that are yet to be delivered
  definitions,  \* NetDefChangeTracker: what was delivered of each
  netdefMap,    \* its map
  delivered,    \* per pod, the object last passed to the handler, or Nil
  uids,         \* per name, the UID given last
  items,        \* PodChangeTracker: the pending change of each pod
  view,         \* PodMap
  handler,      \* the event being handled, under the tracker's lock
  undisturbed,  \* history: pods since whose creation no definition was delivered
  changes

netdefs == <<queued, definitions, netdefMap>>
pods == <<delivered, uids, items, view>>
vars == <<netdefs, pods, handler, undisturbed, changes>>

Idle == [pc |-> "idle"]

NoChange == Nil

Init ==
  /\ queued \in Definitions
  /\ definitions = [n \in Networks |-> Nil]
  /\ netdefMap = [n \in Networks |-> Nil]
  /\ delivered = [p \in Pods |-> Nil]
  /\ uids = [p \in Pods |-> 0]
  /\ items = [p \in Pods |-> NoChange]
  /\ view = [p \in Pods |-> Nil]
  /\ handler = Idle
  /\ undisturbed = {}
  /\ changes = 0

-----------------------------------------------------------------------------
\* The handler of definitions: the listed ones, then changes of any.
DeliverInitial(n) ==
  /\ queued[n] # Nil
  /\ queued' = [queued EXCEPT ![n] = Nil]
  /\ definitions' = [definitions EXCEPT ![n] = queued[n]]
  /\ undisturbed' = {}
  /\ UNCHANGED <<netdefMap, pods, handler, changes>>

ChangeDefinition(n) ==
  /\ queued[n] = Nil
  /\ changes < MaxChanges
  /\ changes' = changes + 1
  /\ \E t \in (Types \cup {Nil}) \ {definitions[n]} :
       definitions' = [definitions EXCEPT ![n] = t]
  /\ undisturbed' = {}
  /\ UNCHANGED <<queued, netdefMap, pods, handler>>

-----------------------------------------------------------------------------
IsMultiNetworkpolicyTarget(object) ==
  object.spec.running /\ ~object.spec.hostNetwork

\* The networks whose plugin type newPodInfo looks up.
NetworksOf(object) ==
  IF object # Nil /\ IsMultiNetworkpolicyTarget(object)
  THEN object.spec.networks
  ELSE {}

\* What newPodInfo takes from the object alone.
Identity(object) ==
  IF object = Nil
  THEN Nil
  ELSE [uid |-> object.uid, labels |-> object.spec.labels,
        networkStatus |-> IF IsMultiNetworkpolicyTarget(object)
                          THEN object.spec.status ELSE {}]

\* Mutant: an interface may lack a device.
InterfacesAnyDevice(object, plugins) ==
  IF IsMultiNetworkpolicyTarget(object)
  THEN {[network |-> i.network, device |-> i.device] :
          i \in {j \in object.spec.status : /\ j.network \in DOMAIN plugins
                                            /\ plugins[j.network] \in networkPlugins}}
  ELSE {}

\* The entries of the network status that have a device and belong to a
\* network of a supported type which the pod's annotation names.
Interfaces(object, plugins) ==
  IF IsMultiNetworkpolicyTarget(object)
  THEN {[network |-> i.network, device |-> i.device] :
          i \in {j \in object.spec.status : /\ j.network \in DOMAIN plugins
                                            /\ plugins[j.network] \in networkPlugins
                                            /\ j.device # Nil}}
  ELSE {}

\* podToPodMap: the entry of an object, nil for none.
podToPodMap(object, plugins) ==
  IF object = Nil
  THEN Nil
  ELSE [id |-> Identity(object), interfaces |-> Interfaces(object, plugins)]

\* The object being converted: the previous one first, unless the tracker has
\* a change already.
Converting == IF handler.pc = "previous" THEN delivered[handler.pod] ELSE handler.current

\* An event on a pod: its creation (with a new UID), an update (if a deletion
\* was missed, to another UID; in a resync, to the same object) or deletion.
StartUpdate(p) ==
  /\ handler = Idle
  /\ \E object \in Objects \cup {Nil} :
       /\ object = Nil => delivered[p] # Nil
       /\ object # Nil =>
            \/ object.uid = uids[p] + 1
            \/ delivered[p] # Nil /\ object.uid = uids[p]
       /\ handler' = [pc |-> IF items[p] = NoChange THEN "previous" ELSE "current",
                      pod |-> p, current |-> object, before |-> Nil, plugins |-> <<>>]
       /\ uids' = [uids EXCEPT ![p] = IF object = Nil THEN @ ELSE object.uid]
       /\ undisturbed' = IF object # Nil /\ object.uid # uids[p]
                         THEN undisturbed \cup {p}
                         ELSE undisturbed
  /\ UNCHANGED <<netdefs, delivered, items, view, changes>>

\* Mutant: the pending changes of definitions are not applied first.
GetPluginTypeFromMap(n) ==
  /\ handler # Idle
  /\ n \in NetworksOf(Converting) \ DOMAIN handler.plugins
  /\ netdefMap' = [netdefMap EXCEPT ![n] = IF @ = Nil THEN definitions[n] ELSE @]
  /\ handler' = [handler EXCEPT !.plugins =
                   [m \in DOMAIN @ \cup {n} |-> IF m = n THEN netdefMap'[n] ELSE @[m]]]
  /\ UNCHANGED <<queued, definitions, pods, undisturbed, changes>>

\* One lookup: netdefMap.Update, then the entry.
GetPluginType(n) ==
  /\ handler # Idle
  /\ n \in NetworksOf(Converting) \ DOMAIN handler.plugins
  /\ netdefMap' = definitions
  /\ handler' = [handler EXCEPT !.plugins =
                   [m \in DOMAIN @ \cup {n} |-> IF m = n THEN netdefMap'[n] ELSE @[m]]]
  /\ UNCHANGED <<queued, definitions, pods, undisturbed, changes>>

Converted ==
  /\ handler # Idle
  /\ NetworksOf(Converting) \subseteq DOMAIN handler.plugins

ConvertPrevious ==
  /\ Converted
  /\ handler.pc = "previous"
  /\ handler' = [handler EXCEPT !.pc = "current", !.plugins = <<>>,
                   !.before = podToPodMap(Converting, handler.plugins)]
  /\ UNCHANGED <<netdefs, pods, undisturbed, changes>>

\* Mutants: a pending change keeps the entry it ended at first; a change that
\* brings back the interfaces is dropped.
FoldedOnce(change, before, after) ==
  CASE change # NoChange -> change
    [] change = NoChange -> IF before = after THEN NoChange
                            ELSE [previous |-> before, current |-> after]
FoldedByInterfaces(change, before, after) ==
  LET start == IF change = NoChange THEN before ELSE change.previous
  IN  IF start # Nil /\ after # Nil /\ start.interfaces = after.interfaces
      THEN NoChange
      ELSE [previous |-> start, current |-> after]

Folded(change, before, after) ==
  LET start == IF change = NoChange THEN before ELSE change.previous
  IN  IF start = after THEN NoChange ELSE [previous |-> start, current |-> after]

\* The rest of Update, and the lock is released.
FinishUpdate ==
  /\ Converted
  /\ handler.pc = "current"
  /\ LET p == handler.pod
         after == podToPodMap(handler.current, handler.plugins)
     IN  /\ items' = [items EXCEPT ![p] = Folded(@, handler.before, after)]
         /\ delivered' = [delivered EXCEPT ![p] = handler.current]
  /\ handler' = Idle
  /\ UNCHANGED <<netdefs, uids, view, undisturbed, changes>>

\* Mutant: what a change replaces is not unmerged.
PendingNotUnmerged(p) ==
  IF items[p] # NoChange /\ items[p].current # Nil THEN items[p].current ELSE view[p]

\* The entry of a pod once its change is applied: unmerge, then merge.
Pending(p) ==
  CASE items[p] = NoChange -> view[p]
    [] items[p] # NoChange /\ items[p].current # Nil -> items[p].current
    [] items[p] # NoChange /\ items[p].current = Nil ->
         IF items[p].previous = Nil THEN view[p] ELSE Nil

\* PodMap.Update, in the sync loop, waits for the lock.
Apply ==
  /\ handler = Idle
  /\ view' = [p \in Pods |-> Pending(p)]
  /\ items' = [p \in Pods |-> NoChange]
  /\ UNCHANGED <<netdefs, delivered, uids, handler, undisturbed, changes>>

-----------------------------------------------------------------------------
Next ==
  \/ \E n \in Networks : DeliverInitial(n) \/ ChangeDefinition(n)
  \/ \E p \in Pods : StartUpdate(p)
  \/ \E n \in Networks : GetPluginType(n)
  \/ ConvertPrevious \/ FinishUpdate
  \/ Apply

Spec == Init /\ [][Next]_vars

-----------------------------------------------------------------------------
Identities == {Identity(o) : o \in Objects}

Infos == [id : Identities,
          interfaces : SUBSET [network : Networks, device : {i.device : i \in UNION {s.status : s \in Specs}} \ {Nil}]]

Entry == Infos \cup {Nil}

Changes == [previous : Entry, current : Entry]

\* nil is neither an object nor anything computed from one.
ASSUME NilAssumption == Nil \notin Objects \cup Identities \cup Infos \cup Changes

\* The plugin types looked up for one object so far.
Lookups == UNION {[N -> Types \cup {Nil}] : N \in SUBSET Networks}

Handlers == [pc : {"previous", "current"}, pod : Pods, current : Objects \cup {Nil},
             before : Entry, plugins : Lookups]

\* The variables keep their types.
TypeOK ==
  /\ {queued, definitions, netdefMap} \subseteq Definitions
  /\ delivered \in [Pods -> Objects \cup {Nil}]
  /\ uids \in [Pods -> 0..MaxUID]
  /\ items \in [Pods -> Changes \cup {NoChange}]
  /\ view \in [Pods -> Entry]
  /\ handler \in Handlers \cup {Idle}
  /\ undisturbed \subseteq Pods
  /\ changes \in 0..MaxChanges

\* What the definitions say of a pod now.
Current(p) ==
  podToPodMap(delivered[p], [n \in NetworksOf(delivered[p]) |-> definitions[n]])

\* Who a pod is, seen through its entry.
IdentityOf(entry) == IF entry = Nil THEN Nil ELSE entry.id

\* Who a pod is (its UID, labels, network status) never goes stale, whatever
\* definitions come and go while its events are folded: applying the changes
\* gives the informer's last word, although the entry a change starts from is
\* computed anew and may never have been in the map.
IdentityIsFresh ==
  \A p \in Pods :
    Identity(delivered[p]) = IdentityOf(Pending(p))

\* A pod's interfaces are those that the definitions give it, as long as no
\* definition was delivered since the pod was created; definitions that were
\* delivered but not applied are seen.
PodsSeeDefinitions ==
  \A p \in undisturbed :
    handler = Idle \/ handler.pod # p => Pending(p) = Current(p)

\* The step that ends an event on a pod.
Ends(p) == handler # Idle /\ handler.pod = p /\ handler' = Idle

\* If definitions did come late, an event after which the pod is not who the map
\* says it is repairs its interfaces (unless another definition arrives during
\* it).  No other event need do so: one that leads back to the map's entry, a
\* resync or the second of two updates between which the map was not updated,
\* may drop the change, and the stale interfaces stay.
ChangesRepair ==
  [][\A p \in Pods :
       /\ Ends(p)
       /\ Identity(delivered'[p]) # IdentityOf(view[p])
       /\ handler.plugins = [n \in DOMAIN handler.plugins |-> definitions[n]]
       => Pending(p)' = Current(p)']_vars

\* As far as it is about who pods are, the tracker with its map does what
\* SnapshotView promises, whatever the definitions make of the interfaces.
Who == INSTANCE SnapshotView WITH
  Keys  <- Pods,
  Infos <- Identities,
  truth <- [p \in Pods |-> Identity(delivered[p])],
  view  <- [p \in Pods |-> IdentityOf(view[p])]

ImplementsSnapshotOfIdentities == Who!Spec

\* "OnNetDefSynced is called once all the initial event handlers were called
\* and the state is fully propagated to local cache" (net-attach-def.go), and
\* pods are listed after that: so once everything is delivered and applied,
\* the pods' interfaces are those that the listed definitions give them.
InitialDefinitionsSeen ==
  \A p \in Pods :
    /\ handler = Idle
    /\ \A n \in Networks : queued[n] = Nil
    /\ changes = 0
    /\ items[p] = NoChange
    => view[p] = Current(p)
=============================================================================
