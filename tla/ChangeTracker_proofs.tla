------------------------ MODULE ChangeTracker_proofs ------------------------
(***************************************************************************)
(* Proofs about ChangeTracker, for any set of names, objects and infos.    *)
(*                                                                         *)
(* The inductive invariant says of every name that its pending change      *)
(* leads from the map's entry to the entry of the object delivered last.   *)
(* The first half is what allows a change that leads back to its start to  *)
(* be dropped; without it the second half is not preserved.                *)
(***************************************************************************)
EXTENDS ChangeTracker, TLAPS

\* A pending change (or none), the map's entry and the last object delivered
\* of one name fit together.
Consistent(change, entry, object) ==
  \/ /\ change = NoChange
     /\ entry = ToEntry(object)
  \/ /\ change \in Change
     /\ change.previous = entry
     /\ change.current = ToEntry(object)
     /\ change.current # change.previous

IInv ==
  /\ TypeOK
  /\ \A k \in Keys : Consistent(items[k], view[k], delivered[k])

-----------------------------------------------------------------------------
\* What is kept of an object, or of none, is an entry.
LEMMA ToEntryType ==
  ASSUME NEW object \in Objects \cup {Nil}
  PROVE  ToEntry(object) \in Entry
BY TrackerAssumption DEF ToEntry, Entry

\* unmerge then merge: an applied change leaves its current entry, provided
\* it starts at the entry it is applied to.
LEMMA ApplyChange ==
  ASSUME NEW entry, NEW current
  PROVE  Merged(Unmerged(entry, entry), current) = current
BY DEF Merged, Unmerged

\* Update: folding an event whose previous object is the one delivered last
\* keeps the name consistent, with the event's current object delivered.
LEMMA FoldedConsistent ==
  ASSUME NEW change, NEW entry \in Entry,
         NEW previous \in Objects \cup {Nil},
         NEW current \in Objects \cup {Nil},
         Consistent(change, entry, previous)
  PROVE  /\ Folded(change, previous, current) \in Change \cup {NoChange}
         /\ Consistent(Folded(change, previous, current), entry, current)
<1> DEFINE folded == Folded(change, previous, current)
<1>1. ToEntry(previous) \in Entry /\ ToEntry(current) \in Entry
  BY ToEntryType
<1>2. \/ folded = NoChange /\ entry = ToEntry(current)
      \/ /\ entry # ToEntry(current)
         /\ folded = [previous |-> entry, current |-> ToEntry(current)]
  BY TrackerAssumption DEF Folded, Consistent, NoChange
<1>3. [previous |-> entry, current |-> ToEntry(current)] \in Change
  BY <1>1 DEF Change
<1> QED
  BY <1>2, <1>3 DEF Consistent

\* A consistent name's map entry, once its change is applied, is the entry of
\* the object delivered last.
LEMMA PendingConsistent ==
  ASSUME IInv, NEW k \in Keys
  PROVE  Pending(k) = ToEntry(delivered[k])
<1>1. Consistent(items[k], view[k], delivered[k])
  BY DEF IInv
<1>2. CASE items[k] = NoChange
  BY <1>1, <1>2, TrackerAssumption DEF Pending, Consistent, NoChange
<1>3. CASE items[k] # NoChange
  <2>1. items[k].previous = view[k] /\ items[k].current = ToEntry(delivered[k])
    BY <1>1, <1>3 DEF Consistent
  <2> QED
    BY <1>3, <2>1, ApplyChange DEF Pending
<1> QED
  BY <1>2, <1>3

\* The inductive invariant is strong enough.
LEMMA IInvImplies == IInv => PendingIsDelivered /\ ChangeStartsAtView
BY PendingConsistent
   DEF IInv, Consistent, PendingIsDelivered, ChangeStartsAtView

-----------------------------------------------------------------------------
\* The maps and trackers start empty, and nothing was delivered.
LEMMA InitIInv == Init => IInv
BY DEF Init, IInv, TypeOK, Entry, Consistent, ToEntry

\* One event on one name.
LEMMA EventIInv ==
  ASSUME IInv, NEW k \in Keys, NEW current \in Objects \cup {Nil},
         delivered' = [delivered EXCEPT ![k] = current],
         Update(k, delivered[k], current),
         UNCHANGED view
  PROVE  IInv'
<1> DEFINE folded == Folded(items[k], delivered[k], current)
<1>1. /\ folded \in Change \cup {NoChange}
      /\ Consistent(folded, view[k], current)
  BY FoldedConsistent DEF IInv, TypeOK
<1>2. items' = [items EXCEPT ![k] = folded]
  BY DEF Update
<1>3. TypeOK'
  BY <1>1, <1>2 DEF IInv, TypeOK
<1>4. ASSUME NEW j \in Keys
      PROVE  Consistent(items[j], view[j], delivered[j])'
  <2>1. CASE j = k
    BY <2>1, <1>1, <1>2 DEF IInv, TypeOK, Consistent, ToEntry
  <2>2. CASE j # k
    BY <2>2, <1>2 DEF IInv, TypeOK, Consistent, ToEntry
  <2> QED
    BY <2>1, <2>2
<1> QED
  BY <1>3, <1>4 DEF IInv

\* Updating the map takes every change in and leaves none.
LEMMA ApplyIInv == IInv /\ Apply => IInv'
<1> SUFFICES ASSUME IInv, Apply PROVE IInv'
  OBVIOUS
<1>1. \A k \in Keys : /\ view'[k] = ToEntry(delivered[k])
                      /\ items'[k] = NoChange
                      /\ delivered'[k] = delivered[k]
  BY PendingConsistent DEF Apply
<1>2. TypeOK'
  BY PendingConsistent, ToEntryType DEF Apply, IInv, TypeOK
<1> QED
  BY <1>1, <1>2 DEF IInv, Consistent, ToEntry

LEMMA NextIInv == IInv /\ [Next]_vars => IInv'
<1> SUFFICES ASSUME IInv, [Next]_vars PROVE IInv'
  OBVIOUS
<1>1. ASSUME NEW k \in Keys, OnAdd(k) PROVE IInv'
  BY <1>1, EventIInv DEF OnAdd
<1>2. ASSUME NEW k \in Keys, OnUpdate(k) PROVE IInv'
  BY <1>2, EventIInv DEF OnUpdate
<1>3. ASSUME NEW k \in Keys, OnDelete(k) PROVE IInv'
  BY <1>3, EventIInv DEF OnDelete
<1>4. CASE Apply
  BY <1>4, ApplyIInv
<1>5. CASE UNCHANGED vars
  BY <1>5 DEF vars, IInv, TypeOK, Consistent, ToEntry
<1> QED
  BY <1>1, <1>2, <1>3, <1>4, <1>5 DEF Next

\* The inductive invariant holds in every reachable state.
LEMMA Invariance == Spec => []IInv
BY InitIInv, NextIInv, PTL DEF Spec

-----------------------------------------------------------------------------
\* Trackers and maps hold what is kept of objects, never the objects.
THEOREM TypeCorrect == Spec => []TypeOK
BY Invariance, PTL DEF IInv

\* Folding never loses an event: what a map would hold if it were updated now
\* is the informer's last word on every name (Update then apply).
THEOREM NothingLost == Spec => []PendingIsDelivered
BY Invariance, IInvImplies, PTL

\* A pending change leads from the map's entry to a different one.
THEOREM ChangesStartAtView == Spec => []ChangeStartsAtView
BY Invariance, IInvImplies, PTL

\* A tracker and its map implement SnapshotView: a handler call is a Report or
\* a stutter, an update of the map is a Refresh.
THEOREM Refinement == Spec => ImplementsSnapshot
<1>1. Init => Abstract!Init
  BY DEF Init, Abstract!Init, truth, ToEntry
<1>2. ASSUME IInv, [Next]_vars
      PROVE  [Abstract!Next]_<<truth, view>>
  <2>1. ASSUME NEW k \in Keys, NEW current \in Objects \cup {Nil},
               delivered' = [delivered EXCEPT ![k] = current],
               UNCHANGED view
        PROVE  Abstract!Report(k)
    <3>1. ToEntry(current) \in Abstract!Entry
      BY ToEntryType DEF Entry, Abstract!Entry
    <3>2. truth' = [truth EXCEPT ![k] = ToEntry(current)]
      BY <1>2, <2>1 DEF IInv, TypeOK, truth, ToEntry
    <3> QED
      BY <2>1, <3>1, <3>2 DEF Abstract!Report
  <2>2. ASSUME NEW k \in Keys, OnAdd(k) \/ OnUpdate(k) \/ OnDelete(k)
        PROVE  Abstract!Report(k)
    BY <2>1, <2>2 DEF OnAdd, OnUpdate, OnDelete
  <2>3. ASSUME Apply PROVE Abstract!Refresh
    BY <1>2, <2>3, PendingConsistent
       DEF Apply, Abstract!Refresh, truth, ToEntry
  <2>4. CASE UNCHANGED vars
    BY <2>4 DEF vars, truth, ToEntry
  <2> QED
    BY <1>2, <2>2, <2>3, <2>4 DEF Next, Abstract!Next
<1> QED
  BY <1>1, <1>2, Invariance, PTL DEF Spec, ImplementsSnapshot, Abstract!Spec
=============================================================================
