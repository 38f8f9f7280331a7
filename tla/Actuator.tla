------------------------------ MODULE Actuator ------------------------------
(***************************************************************************)
(* ActuatorTCImpl.Actuate on one VF representor, one driver call at a      *)
(* time: between two calls packets pass through whatever filters are there,*)
(* any call may fail (Actuate returns, leaving things as they are), and    *)
(* the daemon may die.  The next sync calls Actuate again, with what the   *)
(* policies then ask for.                                                  *)
(*                                                                         *)
(* A filter is an element of Filters; FilterSetImpl's membership, Equals   *)
(* and Difference are those of sets.                                       *)
(***************************************************************************)
EXTENDS Naturals

CONSTANTS
  Filters,   \* flower filters, those of the generator and foreign ones
  Defaults,  \* genDefaultFilters: drop everything, at the lowest priority
  Packets,   \* classes of packets the filters tell apart
  Matches,   \* per filter, the packets it matches
  Priority,  \* per filter, its priority: the lowest number is tried first
  Passes,    \* the filters whose action is pass; the others drop
  Emitted,   \* per filter, its place in the generator's list
  Targets,   \* the objects generated for a representor over time
  Found,     \* what the daemon may find in the kernel when it starts
  MaxChanges,\* bound: changes of what the policies ask for
  MaxAborts  \* bound: failed driver calls and crashes

\* generator.Objects: without QDisc, or without Filters, nothing is enforced.
Objects == [qdisc : BOOLEAN, filters : SUBSET Filters]

ASSUME ActuatorAssumption ==
  /\ Defaults \subseteq Filters \ Passes
  /\ Passes \subseteq Filters
  /\ Matches \in [Filters -> SUBSET Packets]
  /\ \A x \in Packets : \E f \in Defaults : x \in Matches[f]
  /\ Priority \in [Filters -> Nat]
  /\ \A f, g \in Filters : Priority[f] = Priority[g] => (f \in Passes <=> g \in Passes)
  /\ Emitted \in [Filters -> Nat]
  /\ \A d \in Defaults, f \in Filters \ Defaults : Emitted[d] < Emitted[f]
  /\ Targets \subseteq Objects
  /\ Found \subseteq {o \in Objects : o.qdisc \/ o.filters = {}}
  /\ MaxChanges \in Nat /\ MaxAborts \in Nat

VARIABLES
  kernel,    \* the representor's ingress qdisc, and its filters in chain 0
  wanted,    \* what the generator now makes of the policies
  \* Actuate.
  pc,        \* the driver call it is about to make, or "idle"
  target,    \* its argument
  toRemove, toAdd,
  ok,        \* the last Actuate returned nil
  start,     \* the filters in the kernel when Actuate was called
  \* Counters for the bounds.
  changes, aborts

counters == <<changes, aborts>>
vars == <<kernel, wanted, pc, target, toRemove, toAdd, ok, start, counters>>

NoObjects == [qdisc |-> FALSE, filters |-> {}]

\* A qdisc may be there with filters of an earlier life, or of others.
Init ==
  /\ kernel \in Found
  /\ wanted \in Targets
  /\ pc = "idle"
  /\ target = NoObjects
  /\ toRemove = {} /\ toAdd = {}
  /\ ok = FALSE
  /\ start = kernel.filters
  /\ changes = 0 /\ aborts = 0

-----------------------------------------------------------------------------
\* Policies, pods or namespaces change, at any time.
Change ==
  /\ changes < MaxChanges
  /\ changes' = changes + 1
  /\ \E o \in Targets : wanted' = o
  /\ UNCHANGED <<kernel, pc, target, toRemove, toAdd, ok, start, aborts>>

\* A sync calls Actuate.  Filters without a qdisc are refused at once.
Call ==
  /\ pc = "idle"
  /\ target' = wanted
  /\ start' = kernel.filters
  /\ ok' = FALSE
  /\ pc' = IF ~wanted.qdisc /\ wanted.filters # {} THEN "idle" ELSE "QDiscList"
  /\ UNCHANGED <<kernel, wanted, toRemove, toAdd, counters>>

Return ==
  /\ pc' = "idle"
  /\ ok' = TRUE

\* Mutant: the qdisc is added when it is there and not when it is missing.
QDiscListInverted ==
  /\ pc = "QDiscList"
  /\ \/ /\ ~target.qdisc \/ target.filters = {}
        /\ Return
     \/ /\ target.qdisc /\ target.filters # {}
        /\ pc' = IF kernel.qdisc THEN "QDiscAdd" ELSE "FilterList"
        /\ UNCHANGED ok
  /\ UNCHANGED <<kernel, wanted, target, toRemove, toAdd, start, counters>>

\* What to do next depends on whether the ingress qdisc is there.
QDiscList ==
  /\ pc = "QDiscList"
  /\ \/ /\ ~target.qdisc /\ ~kernel.qdisc
        /\ Return
     \/ /\ ~target.qdisc /\ kernel.qdisc
        /\ pc' = "QDiscDel"
        /\ UNCHANGED ok
     \/ /\ target.qdisc /\ target.filters = {}
        /\ pc' = "ChainList"
        /\ UNCHANGED ok
     \/ /\ target.qdisc /\ target.filters # {}
        /\ pc' = IF kernel.qdisc THEN "FilterList" ELSE "QDiscAdd"
        /\ UNCHANGED ok
  /\ UNCHANGED <<kernel, wanted, target, toRemove, toAdd, start, counters>>

QDiscDel ==
  /\ pc = "QDiscDel"
  /\ kernel' = NoObjects
  /\ Return
  /\ UNCHANGED <<wanted, target, toRemove, toAdd, start, counters>>

\* Chain 0 is listed if it has filters, and perhaps if it has none left.
ChainList ==
  /\ pc = "ChainList"
  /\ \/ /\ kernel.filters = {}
        /\ Return
     \/ /\ kernel.qdisc
        /\ pc' = "ChainDel"
        /\ UNCHANGED ok
  /\ UNCHANGED <<kernel, wanted, target, toRemove, toAdd, start, counters>>

\* Mutant: deletes nothing.
ChainDelNothing ==
  /\ pc = "ChainDel"
  /\ Return
  /\ UNCHANGED <<kernel, wanted, target, toRemove, toAdd, start, counters>>

ChainDel ==
  /\ pc = "ChainDel"
  /\ kernel' = [kernel EXCEPT !.filters = {}]
  /\ Return
  /\ UNCHANGED <<wanted, target, toRemove, toAdd, start, counters>>

QDiscAdd ==
  /\ pc = "QDiscAdd"
  /\ kernel' = [kernel EXCEPT !.qdisc = TRUE]
  /\ pc' = "FilterList"
  /\ UNCHANGED <<wanted, target, toRemove, toAdd, ok, start, counters>>

\* Mutants: all existing filters are replaced; unneeded ones are kept.
FilterListReplacesAll ==
  /\ pc = "FilterList"
  /\ IF kernel.filters = target.filters
     THEN Return /\ UNCHANGED <<toRemove, toAdd>>
     ELSE /\ toRemove' = kernel.filters
          /\ toAdd' = target.filters
          /\ pc' = "FilterDel"
          /\ UNCHANGED ok
  /\ UNCHANGED <<kernel, wanted, target, start, counters>>
FilterListKeepsUnneeded ==
  /\ pc = "FilterList"
  /\ toRemove' = {}
  /\ toAdd' = target.filters \ kernel.filters
  /\ pc' = "FilterDel"
  /\ UNCHANGED <<kernel, wanted, target, ok, start, counters>>

\* The two filter sets, and the differences both ways unless they are equal.
FilterList ==
  /\ pc = "FilterList"
  /\ IF kernel.filters = target.filters
     THEN Return /\ UNCHANGED <<toRemove, toAdd>>
     ELSE /\ toRemove' = kernel.filters \ target.filters
          /\ toAdd' = target.filters \ kernel.filters
          /\ pc' = "FilterDel"
          /\ UNCHANGED ok
  /\ UNCHANGED <<kernel, wanted, target, start, counters>>

\* The filters of a set that come first in an order.
FirstOf(set, order) == {f \in set : \A g \in set : order[f] <= order[g]}

\* Mutant: a removal takes all filters of the priority along.
FilterDelWholePriority ==
  /\ pc = "FilterDel"
  /\ \/ /\ toRemove = {}
        /\ pc' = "FilterAdd"
        /\ UNCHANGED <<kernel, toRemove>>
     \/ /\ \E f \in FirstOf(toRemove, Priority) :
             /\ kernel' = [kernel EXCEPT !.filters =
                             {g \in @ : Priority[g] # Priority[f]}]
             /\ toRemove' = toRemove \ {f}
        /\ UNCHANGED pc
  /\ UNCHANGED <<wanted, target, toAdd, ok, start, counters>>

\* Un-needed filters are removed in the order they were listed in, which is
\* the kernel's, by priority.
FilterDel ==
  /\ pc = "FilterDel"
  /\ \/ /\ toRemove = {}
        /\ pc' = "FilterAdd"
        /\ UNCHANGED <<kernel, toRemove>>
     \/ /\ \E f \in FirstOf(toRemove, Priority) :
             /\ kernel' = [kernel EXCEPT !.filters = @ \ {f}]
             /\ toRemove' = toRemove \ {f}
        /\ UNCHANGED pc
  /\ UNCHANGED <<wanted, target, toAdd, ok, start, counters>>

\* Mutant: the missing ones are added in any order.
FilterAddUnordered ==
  /\ pc = "FilterAdd"
  /\ \E f \in toAdd :
       /\ kernel' = [kernel EXCEPT !.filters = @ \cup {f}]
       /\ toAdd' = toAdd \ {f}
  /\ UNCHANGED <<wanted, pc, target, toRemove, ok, start, counters>>

\* Missing ones are added in the generator's order.
FilterAdd ==
  /\ pc = "FilterAdd"
  /\ \/ /\ toAdd = {}
        /\ Return
        /\ UNCHANGED <<kernel, toAdd>>
     \/ /\ \E f \in FirstOf(toAdd, Emitted) :
             /\ kernel' = [kernel EXCEPT !.filters = @ \cup {f}]
             /\ toAdd' = toAdd \ {f}
        /\ UNCHANGED <<pc, ok>>
  /\ UNCHANGED <<wanted, target, toRemove, start, counters>>

\* Mutant: cleans up by deleting the qdisc.
AbortCleansUp ==
  /\ pc # "idle"
  /\ aborts < MaxAborts
  /\ aborts' = aborts + 1
  /\ pc' = "idle"
  /\ toRemove' = {} /\ toAdd' = {}
  /\ kernel' = NoObjects
  /\ UNCHANGED <<wanted, target, ok, start, changes>>

\* The driver call fails and Actuate returns its error, or the daemon dies
\* before making it.  Nothing is undone, the differences are forgotten.
Abort ==
  /\ pc # "idle"
  /\ aborts < MaxAborts
  /\ aborts' = aborts + 1
  /\ pc' = "idle"
  /\ toRemove' = {} /\ toAdd' = {}
  /\ UNCHANGED <<kernel, wanted, target, ok, start, changes>>

-----------------------------------------------------------------------------
Actuate ==
  \/ QDiscList \/ QDiscDel \/ ChainList \/ ChainDel \/ QDiscAdd
  \/ FilterList \/ FilterDel \/ FilterAdd

Next == Change \/ Call \/ Actuate \/ Abort

Spec == Init /\ [][Next]_vars

\* Actuate runs to its end, and the sync loop calls it at least on its timer.
FairSpec == Spec /\ WF_vars(Actuate) /\ WF_vars(Call)

-----------------------------------------------------------------------------
\* The classifier: the first filter that matches decides, and a packet that
\* none matches passes.
Admits(filters) ==
  {x \in Packets :
     LET matching == {f \in filters : x \in Matches[f]}
     IN  matching = {} \/ \E f \in FirstOf(matching, Priority) : f \in Passes}

\* The packets for which there is a pass filter.
Allowed(filters) == UNION {Matches[f] : f \in filters \cap Passes}

PCs == {"idle", "QDiscList", "QDiscDel", "ChainList", "ChainDel", "QDiscAdd",
        "FilterList", "FilterDel", "FilterAdd"}

\* The variables keep their types, and filters need a qdisc.
TypeOK ==
  /\ kernel \in Objects
  /\ kernel.filters # {} => kernel.qdisc
  /\ wanted \in Targets
  /\ pc \in PCs
  /\ target \in Objects
  /\ toRemove \subseteq Filters /\ toAdd \subseteq Filters
  /\ ok \in BOOLEAN
  /\ start \subseteq Filters
  /\ changes \in 0..MaxChanges /\ aborts \in 0..MaxAborts

\* The kernel enforces exactly what some objects say.
Applied(objects) ==
  /\ kernel.filters = objects.filters
  /\ objects.qdisc /\ objects.filters # {} => kernel.qdisc
  /\ ~objects.qdisc => ~kernel.qdisc

\* When Actuate returns nil, the kernel has the filters it was asked for,
\* whatever an earlier, failed Actuate left behind.
SuccessIsApplied == ok => Applied(target)

\* From a representor that is closed by default to one that is, nothing is
\* opened on the way, nor by a call that fails on the way: the defaults stay, and
\* a packet is let through only if the old or the new filters have a pass filter
\* for it.
StaysClosed ==
  Defaults \subseteq start \cap target.filters =>
    /\ Defaults \subseteq kernel.filters
    /\ Admits(kernel.filters) \subseteq Allowed(start) \cup Allowed(target.filters)

Decides(f, x, filters) ==
  f \in FirstOf({g \in filters : x \in Matches[g]}, Priority)

\* Filters are compared rather than replaced, so what policies before and after
\* have in common is enforced throughout, failures included: traffic that one
\* filter lets out under both is not interrupted, and what one filter drops under
\* both stays dropped.
KeepsVerdicts ==
  \A f \in start \cap target.filters, x \in Packets :
    Decides(f, x, start) /\ Decides(f, x, target.filters)
      => Decides(f, x, kernel.filters)

\* Where the defaults are wanted, no other new filter is added before all of
\* them are there, so that an Actuate that fails on the way leaves no other new
\* filter without them.  (It says nothing of the order among the others.)
DefaultsComeFirst ==
  Defaults \subseteq target.filters =>
    kernel.filters \ start \subseteq Defaults \/ Defaults \subseteq kernel.filters

Distance(filters, objects) ==
  (filters \ objects.filters) \cup (objects.filters \ filters)

\* No step moves the kernel away from the target, not even in a step sequence
\* with failures: what is right is not touched, so a second Actuate with equal
\* objects changes nothing, and a retry goes on where the last one stopped.
OnlyTowardsTarget ==
  [][target' = target =>
       Distance(kernel'.filters, target) \subseteq Distance(kernel.filters, target)]_vars

\* Once failures and changes stop, the kernel comes to enforce what is wanted,
\* from whatever partial state it was left in.
EventuallyApplied ==
  <>[](wanted.qdisc \/ wanted.filters = {} => Applied(wanted))

\* "Except is a slice of CIDRs that should not be included within an IP Block"
\* (the CRD): packets that neither the old nor the new policies let through
\* are not let through while one replaces the other.
AdmitsOldOrNew ==
  Defaults \subseteq start \cap target.filters =>
    Admits(kernel.filters) \subseteq Admits(start) \cup Admits(target.filters)
=============================================================================
