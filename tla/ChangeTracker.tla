--------------------------- MODULE ChangeTracker ---------------------------
(***************************************************************************)
(* The change tracker of one object kind and the map it feeds: PolicyMap,  *)
(* NamespaceMap, NetDefMap and PodMap are four copies of this code.  (What *)
(* is kept of a pod also depends on the attachment definitions known when  *)
(* it is converted; here the conversion is a function of the object.)      *)
(*                                                                         *)
(* The informer's goroutine calls Update(previous, current) for each event.*)
(* Between two updates of the map the tracker folds all events on a name   *)
(* into one change, which disappears when it amounts to nothing.  The sync *)
(* goroutine applies and clears the changes.  Both run under the tracker's *)
(* lock, so each is one step here.                                         *)
(***************************************************************************)
CONSTANTS
  Keys,     \* namespaced names
  Objects,  \* API objects (contents)
  Infos,    \* what is kept of an object: PolicyInfo, NamespaceInfo, ...
  Nil,      \* a nil pointer, or a nil map
  InfoOf    \* conversion; Nil for an object that cannot be converted

\* What a map holds under a name.
Entry == Infos \cup {Nil}

\* policyChange: the map entries before and after the folded events.
Change == [previous : Entry, current : Entry]

NoChange == Nil

ASSUME TrackerAssumption ==
  /\ Nil \notin Objects \cup Infos \cup Change
  /\ InfoOf \in [Objects -> Entry]

VARIABLES
  delivered,  \* per name, the object the informer last passed to the handler
  items,      \* per name, the tracker's pending change
  view        \* the map built from the changes

vars == <<delivered, items, view>>

Init ==
  /\ delivered = [k \in Keys |-> Nil]
  /\ items = [k \in Keys |-> NoChange]
  /\ view = [k \in Keys |-> Nil]

-----------------------------------------------------------------------------
\* Mutant: keeps the object itself instead of its information.
ToEntryRaw(object) == object

\* The single-entry map of an object, nil for a nil object or one that does
\* not convert.  An object is converted alike whenever it is (in newNetDefInfo,
\* one with an empty spec depends on files, which are taken not to change).
ToEntry(object) ==
  IF object = Nil THEN Nil ELSE InfoOf[object]

\* Mutant: takes the previous state from the event even if a change exists.
FoldedResetsPrevious(change, previous, current) ==
  LET before == ToEntry(previous)
      after  == ToEntry(current)
  IN  IF before = after
      THEN NoChange
      ELSE [previous |-> before, current |-> after]

\* Update(previous, current) on a name: the first event since the last apply
\* records what was there before, every event records what is there now, and
\* a change that leads back to where it started is dropped.
Folded(change, previous, current) ==
  LET before == IF change = NoChange THEN ToEntry(previous) ELSE change.previous
      after  == ToEntry(current)
  IN  IF before = after
      THEN NoChange
      ELSE [previous |-> before, current |-> after]

Update(k, previous, current) ==
  items' = [items EXCEPT ![k] = Folded(@, previous, current)]

\* The informer's three events.  It always passes the object it passed last
\* as the previous one (a deletion gives it a newer resource version, which
\* only meets a nil in the comparison); a periodic resync updates an object
\* to itself, and a missed deletion looks like an update.
OnAdd(k) ==
  \E o \in Objects :
    /\ delivered[k] = Nil
    /\ delivered' = [delivered EXCEPT ![k] = o]
    /\ Update(k, Nil, o)
    /\ UNCHANGED view

OnUpdate(k) ==
  \E o \in Objects :
    /\ delivered[k] # Nil
    /\ delivered' = [delivered EXCEPT ![k] = o]
    /\ Update(k, delivered[k], o)
    /\ UNCHANGED view

OnDelete(k) ==
  /\ delivered[k] # Nil
  /\ delivered' = [delivered EXCEPT ![k] = Nil]
  /\ Update(k, delivered[k], Nil)
  /\ UNCHANGED view

-----------------------------------------------------------------------------
\* Mutant: a change without a current entry deletes nothing.
UnmergedNever(entry, previous) == entry

\* unmerge(change.previous) deletes the name if it was there before, then
\* merge(change.current) sets it if it is there now.
Unmerged(entry, previous) == IF previous = Nil THEN entry ELSE Nil

Merged(entry, current) == IF current = Nil THEN entry ELSE current

Pending(k) ==
  IF items[k] = NoChange
  THEN view[k]
  ELSE Merged(Unmerged(view[k], items[k].previous), items[k].current)

\* apply: every pending change goes into the map, and the tracker is emptied.
Apply ==
  /\ view' = [k \in Keys |-> Pending(k)]
  /\ items' = [k \in Keys |-> NoChange]
  /\ UNCHANGED delivered

Next ==
  \/ \E k \in Keys : OnAdd(k) \/ OnUpdate(k) \/ OnDelete(k)
  \/ Apply

Spec == Init /\ [][Next]_vars

-----------------------------------------------------------------------------
\* The variables keep their types: a tracker holds map entries (never API
\* objects), and its map holds entries of the tracker's kind.
TypeOK ==
  /\ delivered \in [Keys -> Objects \cup {Nil}]
  /\ items \in [Keys -> Change \cup {NoChange}]
  /\ view \in [Keys -> Entry]

\* Whatever the order and number of events folded into a change, applying it
\* gives exactly the informer's last word on that name: no event is lost by
\* folding, and no entry survives a deletion (apply after Update).
PendingIsDelivered ==
  \A k \in Keys : Pending(k) = ToEntry(delivered[k])

\* A pending change starts from what the map holds and ends somewhere else:
\* the reason why a change that folds to nothing may be dropped.
ChangeStartsAtView ==
  \A k \in Keys :
    items[k] # NoChange =>
      /\ items[k].previous = view[k]
      /\ items[k].current # items[k].previous

\* What the tracker and its map do is what SnapshotView promises.
truth == [k \in Keys |-> ToEntry(delivered[k])]

Abstract == INSTANCE SnapshotView WITH truth <- truth, view <- view

ImplementsSnapshot == Abstract!Spec
=============================================================================
