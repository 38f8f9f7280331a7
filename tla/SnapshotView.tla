---------------------------- MODULE SnapshotView ----------------------------
(***************************************************************************)
(* What a change tracker together with its map promises to the sync loop:  *)
(* the handlers move a hidden truth one object at a time, and an update of *)
(* the map replaces the whole view by the truth of that instant.  Nothing  *)
(* in between is ever visible, and nothing reported is ever lost.          *)
(***************************************************************************)
CONSTANTS
  Keys,   \* names of objects of one kind
  Infos,  \* what the daemon remembers of one object
  Nil     \* "no object of that name"

VARIABLES
  truth,  \* per name, the information last reported by the informer
  view    \* per name, the information the sync loop works with

Entry == Infos \cup {Nil}

Init ==
  /\ truth = [k \in Keys |-> Nil]
  /\ view = [k \in Keys |-> Nil]

\* The informer reports one object.
Report(k) ==
  /\ \E e \in Entry : truth' = [truth EXCEPT ![k] = e]
  /\ UNCHANGED view

\* The sync loop brings its map up to date.
Refresh ==
  /\ view' = truth
  /\ UNCHANGED truth

Next == Refresh \/ \E k \in Keys : Report(k)

Spec == Init /\ [][Next]_<<truth, view>>
=============================================================================
