------------------------- MODULE PodTracker_proofs -------------------------
(***************************************************************************)
(* Proofs about PodTracker, for any pods, networks, plugin types and       *)
(* definitions: who a pod is never goes stale, and what its interfaces are *)
(* goes stale only through definitions that come after it.                 *)
(*                                                                         *)
(* The argument follows the entry a change starts from, which Update       *)
(* computes anew from the previous object and which the map need never     *)
(* have held.  It agrees with the map's entry on who the pod is            *)
(* (Identified); so a change is dropped only when the map is right about   *)
(* that.  It is the map's entry itself if no definition came since the pod *)
(* was created under its present UID (Defined); a start of another UID     *)
(* cannot be mistaken for the entry the change ends at.                    *)
(***************************************************************************)
EXTENDS PodTracker, TLAPS

\* The handler is in the middle of an event on the pod.
Handling(p) == handler # Idle /\ handler.pod = p

\* UIDs are handed out in order, and a pod's creation has a new one.
Numbered ==
  /\ \A p \in Pods : /\ delivered[p] # Nil => delivered[p].uid <= uids[p]
                     /\ view[p] # Nil => view[p].id.uid <= uids[p]
  /\ handler # Idle =>
       /\ handler.current # Nil => handler.current.uid = uids[handler.pod]
       /\ handler.current = Nil => delivered[handler.pod] # Nil

\* What is looked up is what the object's conversion asks for.
LooksUp == handler # Idle => DOMAIN handler.plugins \subseteq NetworksOf(Converting)

\* Without a pending change the map knows who the pod is; a change ends there,
\* starts from who it is in the map, and its ends differ.
Identified(p) ==
  /\ items[p] = NoChange => IdentityOf(view[p]) = Identity(delivered[p])
  /\ items[p] # NoChange =>
       /\ IdentityOf(items[p].current) = Identity(delivered[p])
       /\ IdentityOf(items[p].previous) = IdentityOf(view[p])
       /\ items[p].previous # items[p].current
  /\ Handling(p) /\ handler.pc = "previous" => items[p] = NoChange
  /\ Handling(p) /\ handler.pc = "current" /\ items[p] = NoChange =>
       IdentityOf(handler.before) = Identity(delivered[p])

\* An entry of an earlier pod of the same name.
Replaced(entry, p) == entry # Nil /\ entry.id.uid # uids[p]

\* As long as no definition comes after a pod's creation: the lookups agree with
\* the definitions, and a change starts from the map's entry or from an earlier
\* pod's.  While the creation itself is handled, the entry may be an earlier
\* pod's as well.
Defined(p) ==
  /\ \/ Pending(p) = Current(p)
     \/ Handling(p) /\ (delivered[p] = Nil \/ delivered[p].uid # uids[p])
  /\ items[p] # NoChange => items[p].previous = view[p] \/ Replaced(items[p].previous, p)
  /\ Handling(p) =>
       /\ \A n \in DOMAIN handler.plugins : handler.plugins[n] = definitions[n]
       /\ handler.pc = "current" /\ items[p] = NoChange =>
            handler.before = view[p] \/ Replaced(handler.before, p)

\* Who pods are, apart from what their interfaces are.
Identification == TypeOK /\ Numbered /\ LooksUp /\ \A p \in Pods : Identified(p)

IInv == Identification /\ \A p \in undisturbed : Defined(p)

-----------------------------------------------------------------------------
\* Idle is not the record of an event, and a change, an entry, an object or an
\* identity is not nil.
LEMMA NotNil ==
  /\ Idle \notin Handlers
  /\ NoChange \notin Changes /\ Nil \notin Infos
  /\ Nil \notin Objects /\ Nil \notin Identities
BY NilAssumption DEF Idle, Handlers, NoChange

\* Converting an object gives an entry, which says who the object is.
LEMMA ConvertedType ==
  ASSUME NEW object \in Objects \cup {Nil}, NEW plugins
  PROVE  /\ podToPodMap(object, plugins) \in Entry
         /\ IdentityOf(podToPodMap(object, plugins)) = Identity(object)
         /\ podToPodMap(object, plugins) = Nil <=> object = Nil
         /\ object # Nil => /\ podToPodMap(object, plugins).id = Identity(object)
                           /\ Identity(object).uid = object.uid
<1>1. CASE object = Nil
  BY <1>1, NotNil DEF podToPodMap, Entry, IdentityOf, Identity
<1>2. CASE object # Nil
  <2> DEFINE devices == {i.device : i \in UNION {s.status : s \in Specs}} \ {Nil}
             interfaces == Interfaces(object, plugins)
             entry == [id |-> Identity(object), interfaces |-> interfaces]
  <2>1. object \in Objects /\ object.spec \in Specs
    BY <1>2 DEF Objects
  <2>2. Identity(object) \in Identities
    BY <2>1 DEF Identities
  <2>3. ASSUME NEW i \in object.spec.status, i.device # Nil
        PROVE  [network |-> i.network, device |-> i.device]
                 \in [network : Networks, device : devices]
    BY <2>1, <2>3, PodTrackerAssumption
  <2>4. interfaces \in SUBSET [network : Networks, device : devices]
    BY <2>3 DEF Interfaces
  <2>5. entry \in Infos
    BY <2>2, <2>4 DEF Infos
  <2>6. podToPodMap(object, plugins) = entry
    BY <1>2 DEF podToPodMap
  <2>7. entry # Nil
    BY <2>5, NotNil
  <2>8. Identity(object).uid = object.uid
    BY <1>2 DEF Identity
  <2> HIDE DEF interfaces
  <2> QED
    BY <1>2, <2>5, <2>6, <2>7, <2>8 DEF Entry, IdentityOf
<1> QED
  BY <1>1, <1>2

\* Only nil is seen as nil.
LEMMA NilIdentity ==
  /\ \A e \in Entry : IdentityOf(e) = Nil <=> e = Nil
  /\ \A o \in Objects \cup {Nil} : Identity(o) = Nil <=> o = Nil
<1>1. \A e \in Infos : e.id \in Identities
  BY DEF Infos
<1>2. \A o \in Objects : Identity(o) \in Identities
  BY DEF Identities
<1> QED
  BY <1>1, <1>2, NotNil DEF Entry, IdentityOf, Identity

-----------------------------------------------------------------------------
LEMMA InitTypeOK == Init => TypeOK
BY PodTrackerAssumption DEF Init, TypeOK, Definitions, Entry

\* Every step keeps the types.
LEMMA NextTypeOK == TypeOK /\ [Next]_vars => TypeOK'
<1> SUFFICES ASSUME TypeOK, [Next]_vars PROVE TypeOK'
  OBVIOUS
<1> USE DEF netdefs, pods
<1>1. ASSUME NEW n \in Networks, DeliverInitial(n) PROVE TypeOK'
  BY <1>1 DEF DeliverInitial, TypeOK, Definitions
<1>2. ASSUME NEW n \in Networks, ChangeDefinition(n) PROVE TypeOK'
  BY <1>2, PodTrackerAssumption DEF ChangeDefinition, TypeOK, Definitions
<1>3. ASSUME NEW p \in Pods, StartUpdate(p) PROVE TypeOK'
  <2>1. PICK object \in Objects \cup {Nil} :
          /\ handler' = [pc |-> IF items[p] = NoChange THEN "previous" ELSE "current",
                         pod |-> p, current |-> object, before |-> Nil, plugins |-> <<>>]
          /\ uids' = [uids EXCEPT ![p] = IF object = Nil THEN @ ELSE object.uid]
          /\ undisturbed' \subseteq undisturbed \cup {p}
    BY <1>3 DEF StartUpdate
  <2>2. <<>> \in [{} -> Types \cup {Nil}]
    OBVIOUS
  <2>3. <<>> \in Lookups
    BY <2>2 DEF Lookups
  <2>4. handler' \in Handlers
    BY <2>1, <2>3 DEF Handlers, Entry
  <2>5. object # Nil => object.uid \in 0..MaxUID
    BY PodTrackerAssumption DEF Objects
  <2>6. uids' \in [Pods -> 0..MaxUID]
    BY <2>1, <2>5 DEF TypeOK
  <2> QED
    BY <1>3, <2>1, <2>4, <2>6 DEF StartUpdate, TypeOK
<1>4. ASSUME NEW n \in Networks, GetPluginType(n) PROVE TypeOK'
  <2> DEFINE plugins == [m \in DOMAIN handler.plugins \cup {n} |->
                           IF m = n THEN definitions[n] ELSE handler.plugins[m]]
  <2>1. handler \in Handlers
    BY <1>4 DEF GetPluginType, TypeOK
  <2>2. PICK N \in SUBSET Networks : handler.plugins \in [N -> Types \cup {Nil}]
    BY <2>1 DEF Handlers, Lookups
  <2>3. definitions[n] \in Types \cup {Nil}
    BY DEF TypeOK, Definitions
  <2>4. plugins \in [N \cup {n} -> Types \cup {Nil}] /\ N \cup {n} \in SUBSET Networks
    BY <2>2, <2>3
  <2>5. plugins \in Lookups
    BY <2>4 DEF Lookups
  <2>6. handler' = [handler EXCEPT !.plugins = plugins]
    BY <1>4 DEF GetPluginType, TypeOK, Definitions
  <2>7. handler' \in Handlers
    BY <2>1, <2>5, <2>6 DEF Handlers
  <2> QED
    BY <1>4, <2>7 DEF GetPluginType, TypeOK
<1>5. CASE ConvertPrevious
  <2>1. handler \in Handlers
    BY <1>5 DEF ConvertPrevious, Converted, TypeOK
  <2>2. podToPodMap(Converting, handler.plugins) \in Entry
    BY <2>1, ConvertedType DEF Converting, TypeOK, Handlers
  <2>3. <<>> \in [{} -> Types \cup {Nil}]
    OBVIOUS
  <2>4. <<>> \in Lookups
    BY <2>3 DEF Lookups
  <2>5. handler' \in Handlers
    BY <1>5, <2>1, <2>2, <2>4 DEF ConvertPrevious, Handlers
  <2> QED
    BY <1>5, <2>5 DEF ConvertPrevious, TypeOK
<1>6. CASE FinishUpdate
  <2> DEFINE p == handler.pod
             after == podToPodMap(handler.current, handler.plugins)
  <2>1. handler \in Handlers
    BY <1>6 DEF FinishUpdate, Converted, TypeOK
  <2>2. p \in Pods /\ handler.current \in Objects \cup {Nil} /\ handler.before \in Entry
    BY <2>1 DEF Handlers
  <2>3. after \in Entry
    BY <2>2, ConvertedType
  <2>4. items[p] \in Changes \cup {NoChange}
    BY <2>2 DEF TypeOK
  <2> HIDE DEF after
  <2>5. Folded(items[p], handler.before, after) \in Changes \cup {NoChange}
    BY <2>2, <2>3, <2>4 DEF Folded, Changes
  <2>6. items' \in [Pods -> Changes \cup {NoChange}]
    BY <1>6, <2>2, <2>5 DEF FinishUpdate, TypeOK, after
  <2> QED
    BY <1>6, <2>2, <2>6 DEF FinishUpdate, TypeOK
<1>7. CASE Apply
  <2>1. \A p \in Pods : Pending(p) \in Entry
    BY DEF Pending, TypeOK, Changes, Entry
  <2> QED
    BY <1>7, <2>1 DEF Apply, TypeOK
<1>8. CASE UNCHANGED vars
  BY <1>8 DEF vars, TypeOK
<1> QED
  BY <1>1, <1>2, <1>3, <1>4, <1>5, <1>6, <1>7, <1>8 DEF Next

\* The variables keep their types; the kernel of every argument below.
THEOREM TypeCorrect == Spec => []TypeOK
BY InitTypeOK, NextTypeOK, PTL DEF Spec

-----------------------------------------------------------------------------
\* Applying a pending change brings out who the pod is.
LEMMA PendingIdentity ==
  ASSUME TypeOK, NEW p \in Pods, Identified(p)
  PROVE  IdentityOf(Pending(p)) = Identity(delivered[p])
<1>1. CASE items[p] = NoChange
  BY <1>1 DEF Pending, Identified
<1>2. CASE items[p] # NoChange /\ items[p].current # Nil
  BY <1>2 DEF Pending, Identified
<1>3. CASE items[p] # NoChange /\ items[p].current = Nil
  BY <1>3 DEF Pending, Identified
<1> QED
  BY <1>1, <1>2, <1>3

LEMMA InitNumbered == Init => Numbered /\ LooksUp
BY DEF Init, Numbered, LooksUp

\* Every step keeps UIDs in order and lookups to what was asked for.
LEMMA NextNumbered ==
  TypeOK /\ Numbered /\ LooksUp /\ (\A p \in Pods : Identified(p)) /\ [Next]_vars
    => (Numbered /\ LooksUp)'
<1> SUFFICES ASSUME TypeOK, Numbered, LooksUp, \A p \in Pods : Identified(p), [Next]_vars
             PROVE  (Numbered /\ LooksUp)'
  OBVIOUS
<1> USE DEF netdefs, pods
<1>1. ASSUME NEW n \in Networks, DeliverInitial(n) PROVE (Numbered /\ LooksUp)'
  BY <1>1 DEF DeliverInitial, Numbered, LooksUp, Converting
<1>2. ASSUME NEW n \in Networks, ChangeDefinition(n) PROVE (Numbered /\ LooksUp)'
  BY <1>2 DEF ChangeDefinition, Numbered, LooksUp, Converting
<1>3. ASSUME NEW p \in Pods, StartUpdate(p) PROVE (Numbered /\ LooksUp)'
  <2>1. PICK object \in Objects \cup {Nil} :
          /\ object = Nil => delivered[p] # Nil
          /\ object # Nil =>
               \/ object.uid = uids[p] + 1
               \/ delivered[p] # Nil /\ object.uid = uids[p]
          /\ handler' = [pc |-> IF items[p] = NoChange THEN "previous" ELSE "current",
                         pod |-> p, current |-> object, before |-> Nil, plugins |-> <<>>]
          /\ uids' = [uids EXCEPT ![p] = IF object = Nil THEN @ ELSE object.uid]
    BY <1>3 DEF StartUpdate
  <2>2. \A q \in Pods : uids[q] \in Nat /\ uids'[q] \in Nat /\ uids[q] <= uids'[q]
    BY <2>1, PodTrackerAssumption DEF TypeOK, Objects
  <2>3. \A q \in Pods : /\ delivered[q] # Nil => delivered[q].uid \in Nat
                        /\ view[q] # Nil => view[q].id.uid \in Nat
    <3>1. \A e \in Infos : \E o \in Objects : e.id = Identity(o)
      BY DEF Infos, Identities
    <3>2. \A o \in Objects : o.uid \in Nat /\ Identity(o).uid = o.uid
      BY NotNil, PodTrackerAssumption DEF Objects, Identity
    <3> QED
      BY <3>1, <3>2 DEF TypeOK, Entry
  <2>4. delivered' = delivered /\ view' = view
    BY <1>3 DEF StartUpdate
  <2>5. \A q \in Pods : /\ delivered'[q] # Nil => delivered'[q].uid <= uids'[q]
                        /\ view'[q] # Nil => view'[q].id.uid <= uids'[q]
    BY <2>2, <2>3, <2>4 DEF Numbered
  <2>6. /\ handler'.current # Nil => handler'.current.uid = uids'[handler'.pod]
        /\ handler'.current = Nil => delivered'[handler'.pod] # Nil
        /\ DOMAIN handler'.plugins = {}
    BY <2>1, <2>4 DEF TypeOK
  <2> QED
    BY <2>5, <2>6 DEF Numbered, LooksUp
<1>4. ASSUME NEW n \in Networks, GetPluginType(n) PROVE (Numbered /\ LooksUp)'
  <2>1. handler \in Handlers
    BY <1>4 DEF GetPluginType, TypeOK
  <2>2. /\ handler'.pc = handler.pc /\ handler'.pod = handler.pod
        /\ handler'.current = handler.current
        /\ DOMAIN handler'.plugins = DOMAIN handler.plugins \cup {n}
    BY <1>4, <2>1 DEF GetPluginType, Handlers
  <2>3. Converting' = Converting
    BY <1>4, <2>2 DEF GetPluginType, Converting
  <2> QED
    BY <1>4, <2>2, <2>3 DEF GetPluginType, Numbered, LooksUp, NetworksOf
<1>5. CASE ConvertPrevious
  <2>1. handler \in Handlers
    BY <1>5 DEF ConvertPrevious, Converted, TypeOK
  <2>2. /\ handler'.pc = "current" /\ handler'.pod = handler.pod
        /\ handler'.current = handler.current /\ handler'.plugins = <<>>
    BY <1>5, <2>1 DEF ConvertPrevious, Handlers
  <2>3. DOMAIN handler'.plugins = {}
    BY <2>2
  <2> QED
    BY <1>5, <2>2, <2>3 DEF ConvertPrevious, Converted, Numbered, LooksUp
<1>6. CASE FinishUpdate
  <2>1. handler \in Handlers
    BY <1>6 DEF FinishUpdate, Converted, TypeOK
  <2>2. /\ uids' = uids /\ view' = view /\ handler' = Idle
        /\ delivered' = [delivered EXCEPT ![handler.pod] = handler.current]
    BY <1>6 DEF FinishUpdate
  <2>3. handler.current # Nil => /\ handler.current.uid = uids[handler.pod]
                                 /\ uids[handler.pod] \in Nat
    BY <1>6, <2>1, PodTrackerAssumption
       DEF FinishUpdate, Converted, Numbered, Handlers, TypeOK
  <2> QED
    BY <2>1, <2>2, <2>3 DEF Numbered, LooksUp, TypeOK
<1>7. CASE Apply
  <2>1. ASSUME NEW p \in Pods, Pending(p) # Nil
        PROVE  Pending(p).id.uid <= uids[p]
    <3>1. Pending(p).id = Identity(delivered[p])
      BY <2>1, PendingIdentity DEF IdentityOf
    <3>2. delivered[p] # Nil
      BY <2>1, PendingIdentity, NilIdentity DEF Identity, IdentityOf, TypeOK, Pending, Changes, Entry
    <3> QED
      BY <3>1, <3>2 DEF Identity, Numbered
  <2> QED
    BY <1>7, <2>1 DEF Apply, Numbered, LooksUp, TypeOK
<1>8. CASE UNCHANGED vars
  BY <1>8 DEF vars, Numbered, LooksUp, Converting
<1> QED
  BY <1>1, <1>2, <1>3, <1>4, <1>5, <1>6, <1>7, <1>8 DEF Next

-----------------------------------------------------------------------------
LEMMA InitIdentified == Init => \A p \in Pods : Identified(p)
BY DEF Init, Identified, Handling, IdentityOf, Identity, Idle

\* Every step keeps track of who a pod is.
LEMMA NextIdentified ==
  TypeOK /\ (\A p \in Pods : Identified(p)) /\ [Next]_vars
    => \A p \in Pods : Identified(p)'
<1> SUFFICES ASSUME TypeOK, \A q \in Pods : Identified(q), [Next]_vars,
                    NEW p \in Pods
             PROVE  Identified(p)'
  OBVIOUS
<1> USE DEF netdefs, pods
<1>0. Identified(p)
  OBVIOUS
<1>1. ASSUME NEW n \in Networks, DeliverInitial(n) PROVE Identified(p)'
  BY <1>0, <1>1 DEF DeliverInitial, Identified, Handling
<1>2. ASSUME NEW n \in Networks, ChangeDefinition(n) PROVE Identified(p)'
  BY <1>0, <1>2 DEF ChangeDefinition, Identified, Handling
<1>3. ASSUME NEW q \in Pods, StartUpdate(q) PROVE Identified(p)'
  <2>1. /\ handler'.pc = IF items[q] = NoChange THEN "previous" ELSE "current"
        /\ handler'.pod = q
        /\ items' = items /\ view' = view /\ delivered' = delivered
    BY <1>3 DEF StartUpdate
  <2> QED
    BY <1>0, <2>1 DEF Identified, Handling
<1>4. ASSUME NEW n \in Networks, GetPluginType(n) PROVE Identified(p)'
  <2>1. handler \in Handlers
    BY <1>4 DEF GetPluginType, TypeOK
  <2>2. /\ handler'.pc = handler.pc /\ handler'.pod = handler.pod
        /\ handler'.before = handler.before
        /\ handler # Idle
        /\ items' = items /\ view' = view /\ delivered' = delivered
    BY <1>4, <2>1 DEF GetPluginType, Handlers
  <2> QED
    BY <1>0, <2>2 DEF Identified, Handling
<1>5. CASE ConvertPrevious
  <2>1. handler \in Handlers
    BY <1>5 DEF ConvertPrevious, Converted, TypeOK
  <2>2. /\ handler'.pc = "current" /\ handler'.pod = handler.pod
        /\ handler'.before = podToPodMap(delivered[handler.pod], handler.plugins)
        /\ items' = items /\ view' = view /\ delivered' = delivered
    BY <1>5, <2>1 DEF ConvertPrevious, Handlers, Converting
  <2>3. IdentityOf(handler'.before) = Identity(delivered[handler.pod])
    BY <2>1, <2>2, ConvertedType DEF TypeOK, Handlers
  <2> QED
    BY <1>0, <2>2, <2>3 DEF Identified, Handling
<1>6. CASE FinishUpdate
  <2> DEFINE after == podToPodMap(handler.current, handler.plugins)
  <2>1. /\ handler \in Handlers /\ handler # Idle
        /\ handler.current \in Objects \cup {Nil} /\ handler.pod \in Pods
    BY <1>6 DEF FinishUpdate, Converted, TypeOK, Handlers
  <2>2. IdentityOf(after) = Identity(handler.current) /\ after \in Entry
    BY <2>1, ConvertedType
  <2>3. /\ items' = [items EXCEPT ![handler.pod] = Folded(@, handler.before, after)]
        /\ delivered' = [delivered EXCEPT ![handler.pod] = handler.current]
        /\ view' = view /\ handler' = Idle /\ handler.pc = "current"
    BY <1>6 DEF FinishUpdate
  <2> HIDE DEF after
  <2>4. CASE p # handler.pod
    BY <1>0, <2>1, <2>3, <2>4 DEF Identified, Handling, TypeOK
  <2>5. CASE p = handler.pod
    <3> DEFINE from == IF items[p] = NoChange THEN handler.before ELSE items[p].previous
    <3>1. IdentityOf(from) = IdentityOf(view[p])
      BY <1>0, <2>1, <2>3, <2>5 DEF Identified, Handling
    <3>2. /\ delivered'[p] = handler.current
          /\ items'[p] = IF from = after THEN NoChange
                         ELSE [previous |-> from, current |-> after]
      BY <2>1, <2>3, <2>5 DEF TypeOK, Folded
    <3>3. from \in Entry
      BY <2>1 DEF TypeOK, Changes, Handlers
    <3> HIDE DEF from
    <3>4. CASE from = after
      BY <2>2, <2>3, <3>1, <3>2, <3>4 DEF Identified, Handling
    <3>5. CASE from # after
      <4>1. items'[p] \in Changes
        BY <2>2, <3>2, <3>3, <3>5 DEF Changes
      <4> QED
        BY <2>2, <2>3, <3>1, <3>2, <3>5, <4>1, NotNil DEF Identified, Handling
    <3> QED
      BY <3>4, <3>5
  <2> QED
    BY <2>4, <2>5
<1>7. CASE Apply
  <2>1. /\ view'[p] = Pending(p) /\ items'[p] = NoChange
        /\ delivered' = delivered /\ handler' = Idle
    BY <1>7 DEF Apply
  <2> QED
    BY <1>0, <2>1, PendingIdentity DEF Identified, Handling
<1>8. CASE UNCHANGED vars
  BY <1>0, <1>8 DEF vars, Identified, Handling
<1> QED
  BY <1>1, <1>2, <1>3, <1>4, <1>5, <1>6, <1>7, <1>8 DEF Next

-----------------------------------------------------------------------------
\* A conversion whose lookups agree with the definitions is what they say.
LEMMA LookedUp ==
  ASSUME NEW object, NEW plugins \in Lookups,
         DOMAIN plugins = NetworksOf(object),
         \A n \in DOMAIN plugins : plugins[n] = definitions[n]
  PROVE  podToPodMap(object, plugins)
           = podToPodMap(object, [n \in NetworksOf(object) |-> definitions[n]])
<1>1. PICK N : plugins \in [N -> Types \cup {Nil}]
  BY DEF Lookups
<1>2. plugins = [n \in NetworksOf(object) |-> definitions[n]]
  BY <1>1
<1> QED
  BY <1>2

LEMMA InitDefined == Init => \A p \in undisturbed : Defined(p)
BY DEF Init

\* Every step keeps the interfaces to what the definitions give.
LEMMA NextDefined ==
  Identification /\ (\A p \in undisturbed : Defined(p)) /\ [Next]_vars
    => \A p \in undisturbed' : Defined(p)'
<1> SUFFICES ASSUME Identification, \A q \in undisturbed : Defined(q), [Next]_vars,
                    NEW p \in undisturbed'
             PROVE  Defined(p)'
  OBVIOUS
<1> USE DEF netdefs, pods
<1>0. /\ TypeOK /\ Numbered /\ LooksUp /\ \A q \in Pods : Identified(q)
      /\ p \in Pods
  BY NextTypeOK DEF Identification, TypeOK
<1>1. ASSUME NEW n \in Networks, DeliverInitial(n) PROVE Defined(p)'
  BY <1>1 DEF DeliverInitial
<1>2. ASSUME NEW n \in Networks, ChangeDefinition(n) PROVE Defined(p)'
  BY <1>2 DEF ChangeDefinition
<1>3. ASSUME NEW q \in Pods, StartUpdate(q) PROVE Defined(p)'
  <2>1. PICK object \in Objects \cup {Nil} :
          /\ object # Nil =>
               \/ object.uid = uids[q] + 1
               \/ delivered[q] # Nil /\ object.uid = uids[q]
          /\ handler' = [pc |-> IF items[q] = NoChange THEN "previous" ELSE "current",
                         pod |-> q, current |-> object, before |-> Nil, plugins |-> <<>>]
          /\ uids' = [uids EXCEPT ![q] = IF object = Nil THEN @ ELSE object.uid]
          /\ undisturbed' = IF object # Nil /\ object.uid # uids[q]
                            THEN undisturbed \cup {q}
                            ELSE undisturbed
    BY <1>3 DEF StartUpdate
  <2>2. /\ handler = Idle /\ items' = items /\ view' = view /\ delivered' = delivered
        /\ definitions' = definitions
    BY <1>3 DEF StartUpdate
  <2>3. Pending(p)' = Pending(p) /\ Current(p)' = Current(p)
    BY <2>2 DEF Pending, Current
  <2>4. /\ DOMAIN handler'.plugins = {} /\ handler'.pod = q
        /\ handler'.pc = IF items[q] = NoChange THEN "previous" ELSE "current"
        /\ handler' # Idle
    BY <2>1 DEF Idle
  <2>5. CASE p \in undisturbed /\ uids'[p] = uids[p]
    <3>1. /\ Pending(p) = Current(p)
          /\ items[p] # NoChange =>
               items[p].previous = view[p] \/ Replaced(items[p].previous, p)
      BY <2>2, <2>5 DEF Defined, Handling
    <3> QED
      BY <2>2, <2>3, <2>4, <2>5, <3>1 DEF Defined, Handling, Replaced
  <2>6. CASE p = q /\ uids'[p] = uids[p] + 1
    <3>1. uids[p] \in Nat
      BY <1>0, PodTrackerAssumption DEF TypeOK
    <3>2. delivered[p] = Nil \/ delivered[p].uid # uids'[p]
      <4>1. delivered[p] # Nil => delivered[p].uid \in Nat /\ delivered[p].uid <= uids[p]
        BY <1>0, PodTrackerAssumption DEF TypeOK, Objects, Numbered
      <4> QED
        BY <2>6, <3>1, <4>1
    <3>3. ASSUME items[p] # NoChange
          PROVE  items[p].previous = view[p] \/ Replaced(items[p].previous, p)'
      <4>1. items[p].previous \in Entry /\ view[p] \in Entry
        BY <1>0, <3>3 DEF TypeOK, Changes
      <4>2. IdentityOf(items[p].previous) = IdentityOf(view[p])
        BY <1>0, <3>3 DEF Identified
      <4>3. CASE view[p] = Nil
        BY <4>1, <4>2, <4>3, NilIdentity
      <4>4. CASE view[p] # Nil
        <5>1. items[p].previous # Nil
          BY <4>1, <4>2, <4>4, NilIdentity
        <5>2. items[p].previous.id = view[p].id
          BY <4>2, <4>4, <5>1 DEF IdentityOf
        <5>3. view[p].id.uid <= uids[p]
          BY <1>0, <4>4 DEF Numbered
        <5>4. view[p].id.uid \in Nat
          <6>1. PICK o \in Objects : view[p].id = Identity(o)
            BY <4>1, <4>4 DEF Entry, Infos, Identities
          <6> QED
            BY <6>1, NotNil, PodTrackerAssumption DEF Objects, Identity
        <5> QED
          BY <2>2, <2>6, <3>1, <5>1, <5>2, <5>3, <5>4 DEF Replaced
      <4> QED
        BY <4>3, <4>4
    <3> QED
      BY <2>1, <2>2, <2>3, <2>4, <2>6, <3>2, <3>3 DEF Defined, Handling, Replaced
  <2> QED
    BY <1>0, <2>1, <2>5, <2>6 DEF TypeOK
<1>4. ASSUME NEW n \in Networks, GetPluginType(n) PROVE Defined(p)'
  <2>1. handler \in Handlers /\ handler # Idle /\ p \in undisturbed
    BY <1>0, <1>4 DEF GetPluginType, TypeOK
  <2>2. /\ handler'.pc = handler.pc /\ handler'.pod = handler.pod
        /\ handler'.before = handler.before
        /\ handler'.plugins = [m \in DOMAIN handler.plugins \cup {n} |->
                                 IF m = n THEN netdefMap'[n] ELSE handler.plugins[m]]
    BY <1>4, <2>1 DEF GetPluginType, Handlers
  <2>3. /\ netdefMap' = definitions /\ definitions' = definitions
        /\ items' = items /\ view' = view /\ delivered' = delivered /\ uids' = uids
    BY <1>4 DEF GetPluginType
  <2>4. Pending(p)' = Pending(p) /\ Current(p)' = Current(p)
    BY <2>3 DEF Pending, Current
  <2>5. Handling(p) =>
          \A m \in DOMAIN handler'.plugins : handler'.plugins[m] = definitions'[m]
    BY <2>1, <2>2, <2>3 DEF Defined
  <2>6. Handling(p)' <=> Handling(p)
    BY <2>1, <2>2 DEF Handling, Handlers, Idle
  <2>7. Defined(p)
    BY <2>1
  <2> QED
    BY <2>2, <2>3, <2>4, <2>5, <2>6, <2>7 DEF Defined, Handling, Replaced
<1>5. CASE ConvertPrevious
  <2>1. handler \in Handlers /\ handler # Idle /\ p \in undisturbed
    BY <1>0, <1>5 DEF ConvertPrevious, Converted, TypeOK
  <2>2. /\ handler'.pc = "current" /\ handler'.pod = handler.pod
        /\ handler'.before = podToPodMap(delivered[handler.pod], handler.plugins)
        /\ handler'.plugins = <<>>
    BY <1>5, <2>1 DEF ConvertPrevious, Handlers, Converting
  <2>3. /\ definitions' = definitions
        /\ items' = items /\ view' = view /\ delivered' = delivered /\ uids' = uids
    BY <1>5 DEF ConvertPrevious
  <2>4. Pending(p)' = Pending(p) /\ Current(p)' = Current(p)
    BY <2>3 DEF Pending, Current
  <2>5. Handling(p)' <=> Handling(p)
    BY <2>1, <2>2 DEF Handling, Idle
  <2>6. Defined(p) /\ Identified(p)
    BY <1>0, <2>1
  <2>7. DOMAIN handler'.plugins = {}
    BY <2>2
  <2>8. ASSUME Handling(p)
        PROVE  handler'.before = view[p] \/ Replaced(handler'.before, p)
    <3>1. handler.pod = p /\ items[p] = NoChange /\ Pending(p) = view[p]
      BY <1>5, <2>6, <2>8 DEF ConvertPrevious, Handling, Identified, Pending
    <3>2. delivered[p] \in Objects \cup {Nil}
      BY <1>0 DEF TypeOK
    <3>3. CASE Pending(p) = Current(p)
      <4>1. DOMAIN handler.plugins = NetworksOf(delivered[p])
        BY <1>0, <1>5, <3>1 DEF ConvertPrevious, Converted, Converting, LooksUp
      <4>2. \A n \in DOMAIN handler.plugins : handler.plugins[n] = definitions[n]
        BY <2>6, <2>8 DEF Defined
      <4>3. handler.plugins \in Lookups
        BY <2>1 DEF Handlers
      <4>4. podToPodMap(delivered[p], handler.plugins) = Current(p)
        BY <4>1, <4>2, <4>3, LookedUp DEF Current
      <4> QED
        BY <2>2, <3>1, <3>3, <4>4
    <3>4. CASE delivered[p] = Nil
      <4>1. IdentityOf(view[p]) = Nil
        BY <2>6, <3>1, <3>4 DEF Identified, Identity
      <4>2. view[p] = Nil
        BY <1>0, <4>1, NilIdentity DEF TypeOK
      <4> QED
        BY <2>2, <3>1, <3>4, <4>2 DEF podToPodMap
    <3>5. CASE delivered[p] # Nil /\ delivered[p].uid # uids[p]
      BY <2>2, <3>1, <3>2, <3>5, ConvertedType DEF Replaced
    <3> QED
      BY <2>6, <3>3, <3>4, <3>5 DEF Defined
  <2> QED
    BY <2>3, <2>4, <2>5, <2>6, <2>7, <2>8 DEF Defined, Handling, Replaced
<1>6. CASE FinishUpdate
  <2> DEFINE after == podToPodMap(handler.current, handler.plugins)
  <2>1. /\ handler \in Handlers /\ handler # Idle /\ p \in undisturbed
        /\ handler.current \in Objects \cup {Nil} /\ handler.pod \in Pods
    BY <1>0, <1>6 DEF FinishUpdate, Converted, TypeOK, Handlers
  <2>2. /\ items' = [items EXCEPT ![handler.pod] = Folded(@, handler.before, after)]
        /\ delivered' = [delivered EXCEPT ![handler.pod] = handler.current]
        /\ definitions' = definitions /\ view' = view /\ uids' = uids
        /\ handler' = Idle /\ handler.pc = "current"
    BY <1>6 DEF FinishUpdate
  <2>3. Defined(p)
    BY <2>1
  <2>4. CASE p # handler.pod
    <3>1. items'[p] = items[p] /\ delivered'[p] = delivered[p]
      BY <1>0, <2>1, <2>2, <2>4 DEF TypeOK
    <3>2. Pending(p)' = Pending(p) /\ Current(p)' = Current(p)
      BY <2>2, <3>1 DEF Pending, Current
    <3> QED
      BY <2>2, <2>3, <2>4, <3>1, <3>2 DEF Defined, Handling, Replaced
  <2>5. CASE p = handler.pod
    <3> DEFINE from == IF items[p] = NoChange THEN handler.before ELSE items[p].previous
    <3>1. /\ delivered'[p] = handler.current
          /\ items'[p] = IF from = after THEN NoChange
                         ELSE [previous |-> from, current |-> after]
      BY <1>0, <2>1, <2>2, <2>5 DEF TypeOK, Folded
    <3>2. from \in Entry /\ after \in Entry
      BY <1>0, <2>1, ConvertedType DEF TypeOK, Changes, Handlers
    <3>3. from = view[p] \/ Replaced(from, p)
      BY <2>1, <2>2, <2>3, <2>5 DEF Defined, Handling
    <3>4. after = Current(p)'
      <4>1. DOMAIN handler.plugins = NetworksOf(handler.current)
        BY <1>0, <1>6 DEF FinishUpdate, Converted, Converting, LooksUp
      <4>2. \A n \in DOMAIN handler.plugins : handler.plugins[n] = definitions[n]
        BY <2>1, <2>3, <2>5 DEF Defined, Handling
      <4>3. handler.plugins \in Lookups
        BY <2>1 DEF Handlers
      <4> QED
        BY <2>2, <3>1, <4>1, <4>2, <4>3, LookedUp DEF Current
    <3>5. after # Nil => after.id.uid = uids[p]
      <4>1. after # Nil => after.id.uid = handler.current.uid /\ handler.current # Nil
        BY <2>1, ConvertedType
      <4> QED
        BY <1>0, <2>1, <2>5, <4>1 DEF Numbered
    <3> HIDE DEF after, from
    <3>6. CASE from = after
      BY <2>2, <3>1, <3>3, <3>4, <3>5, <3>6 DEF Defined, Handling, Replaced, Pending
    <3>7. CASE from # after
      <4>1. items'[p] # NoChange /\ items'[p].previous = from /\ items'[p].current = after
        BY <3>1, <3>2, <3>7, NotNil DEF Changes
      <4>2. Pending(p)' = after
        BY <3>7, <4>1 DEF Pending
      <4> QED
        BY <2>2, <3>3, <3>4, <4>1, <4>2 DEF Defined, Handling, Replaced
    <3> QED
      BY <3>6, <3>7
  <2> QED
    BY <2>4, <2>5
<1>7. CASE Apply
  <2>1. /\ view'[p] = Pending(p) /\ items'[p] = NoChange /\ p \in undisturbed
        /\ delivered' = delivered /\ definitions' = definitions /\ handler' = Idle
        /\ handler = Idle
    BY <1>0, <1>7 DEF Apply
  <2>2. Pending(p) = Current(p)
    BY <2>1 DEF Defined, Handling
  <2>3. Pending(p)' = Pending(p) /\ Current(p)' = Current(p)
    BY <2>1 DEF Pending, Current
  <2> QED
    BY <2>1, <2>2, <2>3 DEF Defined, Handling
<1>8. CASE UNCHANGED vars
  <2>1. Defined(p)
    BY <1>8 DEF vars
  <2> QED
    BY <1>8, <2>1 DEF vars, Defined, Handling, Replaced, Pending, Current
<1> QED
  BY <1>1, <1>2, <1>3, <1>4, <1>5, <1>6, <1>7, <1>8 DEF Next

LEMMA Inductive == Spec => []IInv
<1>1. Init => IInv
  BY InitTypeOK, InitNumbered, InitIdentified, InitDefined DEF IInv, Identification
<1>2. IInv /\ [Next]_vars => IInv'
  BY NextTypeOK, NextNumbered, NextIdentified, NextDefined DEF IInv, Identification
<1> QED
  BY <1>1, <1>2, PTL DEF Spec

-----------------------------------------------------------------------------
\* Who a pod is never goes stale in the pods' map, whatever definitions come and
\* go while its events are folded into one change.
THEOREM FreshIdentity == Spec => []IdentityIsFresh
<1>1. IInv => IdentityIsFresh
  BY PendingIdentity DEF IInv, Identification, IdentityIsFresh
<1> QED
  BY <1>1, Inductive, PTL

\* A pod has the interfaces that the definitions give it as long as none was
\* delivered since it was created, also when an earlier pod of its name is
\* still in the map.
THEOREM DefinitionsSeen == Spec => []PodsSeeDefinitions
<1>1. IInv => PodsSeeDefinitions
  BY DEF IInv, PodsSeeDefinitions, Defined, Handling
<1> QED
  BY <1>1, Inductive, PTL

\* What the end of an event does: the pending change ends at the object's
\* conversion unless it has vanished, which it does only if the pod is who it was.
LEMMA FinishedChange ==
  ASSUME Identification, FinishUpdate, NEW p, p = handler.pod
  PROVE  LET after == podToPodMap(handler.current, handler.plugins)
         IN  /\ p \in Pods /\ handler.current \in Objects \cup {Nil}
             /\ delivered' = [delivered EXCEPT ![p] = handler.current]
             /\ items'[p] # NoChange => Pending(p)' = after
             /\ items'[p] = NoChange =>
                  Identity(handler.current) = IdentityOf(view[p])
<1> DEFINE after == podToPodMap(handler.current, handler.plugins)
           from == IF items[p] = NoChange THEN handler.before ELSE items[p].previous
<1>0. TypeOK /\ \A q \in Pods : Identified(q)
  BY DEF Identification
<1>1. /\ handler \in Handlers /\ handler # Idle /\ handler.pc = "current"
      /\ handler.current \in Objects \cup {Nil} /\ p \in Pods
  BY <1>0 DEF FinishUpdate, Converted, TypeOK, Handlers
<1>2. /\ delivered' = [delivered EXCEPT ![p] = handler.current]
      /\ items'[p] = IF from = after THEN NoChange
                     ELSE [previous |-> from, current |-> after]
      /\ view' = view
  BY <1>0, <1>1 DEF FinishUpdate, TypeOK, Folded
<1>3. from \in Entry /\ after \in Entry /\ IdentityOf(after) = Identity(handler.current)
  BY <1>0, <1>1, ConvertedType DEF TypeOK, Changes, Handlers
<1>4. IdentityOf(from) = IdentityOf(view[p])
  BY <1>0, <1>1 DEF Identified, Handling
<1> HIDE DEF after, from
<1>5. CASE from = after
  BY <1>1, <1>2, <1>3, <1>4, <1>5 DEF after
<1>6. CASE from # after
  <2>1. items'[p] # NoChange /\ items'[p].previous = from /\ items'[p].current = after
    BY <1>2, <1>3, <1>6, NotNil DEF Changes
  <2>2. Pending(p)' = after
    BY <1>6, <2>1 DEF Pending
  <2> QED
    BY <1>1, <1>2, <2>1, <2>2 DEF after
<1> QED
  BY <1>5, <1>6

\* Interfaces that stale definitions gave are repaired by an event after which the
\* pod is not who the map says it is: its change is not dropped, since it does not
\* lead back to the map's entry, nor to what that would be today.
THEOREM StaleIsRepaired == Spec => ChangesRepair
<1> DEFINE Repaired(p) ==
      /\ Ends(p)
      /\ Identity(delivered'[p]) # IdentityOf(view[p])
      /\ handler.plugins = [n \in DOMAIN handler.plugins |-> definitions[n]]
      => Pending(p)' = Current(p)'
<1>1. ASSUME IInv, [Next]_vars PROVE [\A p \in Pods : Repaired(p)]_vars
  <2> SUFFICES ASSUME NEW p \in Pods, Ends(p),
                      Identity(delivered'[p]) # IdentityOf(view[p]),
                      handler.plugins = [n \in DOMAIN handler.plugins |-> definitions[n]]
               PROVE  Pending(p)' = Current(p)'
    OBVIOUS
  <2> USE DEF netdefs, pods
  <2>1. CASE FinishUpdate
    <3> DEFINE after == podToPodMap(handler.current, handler.plugins)
    <3>1. TypeOK /\ LooksUp
      BY <1>1 DEF IInv, Identification
    <3>2. p = handler.pod
      BY DEF Ends
    <3>3. /\ delivered' = [delivered EXCEPT ![p] = handler.current]
          /\ items'[p] # NoChange => Pending(p)' = after
          /\ items'[p] = NoChange =>
               Identity(handler.current) = IdentityOf(view[p])
      BY <1>1, <2>1, <3>2, FinishedChange DEF IInv
    <3>4. delivered'[p] = handler.current /\ Pending(p)' = after
      BY <3>1, <3>3 DEF TypeOK
    <3>5. /\ DOMAIN handler.plugins = NetworksOf(handler.current)
          /\ definitions' = definitions
      BY <2>1, <3>1 DEF FinishUpdate, Converted, Converting, LooksUp
    <3>6. handler.plugins = [n \in NetworksOf(delivered'[p]) |-> definitions'[n]]
      BY <3>4, <3>5
    <3> QED
      BY <3>4, <3>6 DEF Current
  <2>2. CASE handler' = handler
    BY <2>2 DEF Ends
  <2>3. CASE \/ \E q \in Pods : StartUpdate(q)
             \/ \E n \in Networks : GetPluginType(n)
             \/ ConvertPrevious
    <3>1. handler # Idle /\ handler \in Handlers
      BY <1>1 DEF Ends, IInv, Identification, TypeOK
    <3>2. handler'.pc \in {"previous", "current"}
      BY <2>3, <3>1 DEF StartUpdate, GetPluginType, ConvertPrevious, Handlers
    <3> QED
      BY <3>2 DEF Ends, Idle
  <2> QED
    BY <1>1, <2>1, <2>2, <2>3
       DEF Next, vars, DeliverInitial, ChangeDefinition, Apply
<1> QED
  BY <1>1, Inductive, PTL DEF Spec, ChangesRepair

\* For who pods are, the tracker and its map implement SnapshotView: the end of
\* an event is a Report, Apply is a Refresh, and all other steps are invisible.
THEOREM Refinement == Spec => ImplementsSnapshotOfIdentities
<1> DEFINE truth == [p \in Pods |-> Identity(delivered[p])]
           seen == [p \in Pods |-> IdentityOf(view[p])]
<1>1. Init => Who!Init
  BY DEF Init, Who!Init, Identity, IdentityOf
<1>2. ASSUME IInv, [Next]_vars PROVE [Who!Next]_<<truth, seen>>
  <2> USE DEF netdefs, pods
  <2>1. TypeOK /\ \A p \in Pods : Identified(p)
    BY <1>2 DEF IInv, Identification
  <2>2. CASE FinishUpdate
    <3>1. /\ handler.pod \in Pods /\ handler.current \in Objects \cup {Nil}
          /\ delivered' = [delivered EXCEPT ![handler.pod] = handler.current]
          /\ view' = view
      BY <1>2, <2>2, FinishedChange DEF IInv, FinishUpdate
    <3>2. truth' = [truth EXCEPT ![handler.pod] = Identity(handler.current)]
      BY <2>1, <3>1 DEF TypeOK
    <3>3. Identity(handler.current) \in Who!Entry
      BY <3>1 DEF Who!Entry, Identities, Identity
    <3>4. seen' = seen
      BY <3>1
    <3> QED
      BY <3>1, <3>2, <3>3, <3>4 DEF Who!Next, Who!Report
  <2>3. CASE Apply
    <3>1. /\ view' = [p \in Pods |-> Pending(p)] /\ delivered' = delivered
      BY <2>3 DEF Apply
    <3>2. seen' = truth
      BY <2>1, <3>1, PendingIdentity
    <3> QED
      BY <3>1, <3>2 DEF Who!Next, Who!Refresh
  <2>4. CASE delivered' = delivered /\ view' = view
    BY <2>4
  <2> QED
    BY <1>2, <2>2, <2>3, <2>4
       DEF Next, vars, DeliverInitial, ChangeDefinition, StartUpdate, GetPluginType,
           ConvertPrevious
<1> QED
  BY <1>1, <1>2, Inductive, PTL DEF Spec, ImplementsSnapshotOfIdentities, Who!Spec
=============================================================================
