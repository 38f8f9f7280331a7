-------------------------- MODULE Actuator_proofs --------------------------
(***************************************************************************)
(* Proofs about Actuator, for any filters, packets and sequence of targets.*)
(*                                                                         *)
(* While Actuate is at work its local variables describe the kernel        *)
(* exactly: toRemove and toAdd are what still separates the kernel from    *)
(* the target, and the kernel lies between the filters found at the start  *)
(* and the target.  Everything else follows from that.                     *)
(***************************************************************************)
EXTENDS Actuator, WellFoundedInduction, TLAPS

\* Which branch of Actuate is taken for which target.
Branches ==
  /\ pc = "QDiscList" => target.qdisc \/ target.filters = {}
  /\ pc = "QDiscDel" => ~target.qdisc /\ target.filters = {}
  /\ pc = "ChainList" => target.qdisc /\ target.filters = {}
  /\ pc = "ChainDel" => target.qdisc /\ target.filters = {} /\ kernel.qdisc
  /\ pc = "QDiscAdd" => target.qdisc
  /\ pc \in {"FilterList", "FilterDel", "FilterAdd"} =>
       target.qdisc /\ kernel.qdisc

\* The differences are those between the kernel and the target, still.
Differences ==
  /\ pc \in {"FilterDel", "FilterAdd"} =>
       /\ toRemove = kernel.filters \ target.filters
       /\ toAdd = target.filters \ kernel.filters
  /\ pc = "FilterAdd" => toRemove = {}

\* The kernel lies between the filters found at the start and the target, also
\* after a call that failed, and nothing is added before everything is removed.
Between ==
  /\ start \cap target.filters \subseteq kernel.filters
  /\ kernel.filters \subseteq start \cup target.filters
  /\ pc \notin {"idle", "FilterAdd"} => kernel.filters \subseteq start

IInv ==
  /\ TypeOK
  /\ Branches
  /\ Differences
  /\ Between
  /\ ok => pc = "idle" /\ Applied(target)
  /\ DefaultsComeFirst

-----------------------------------------------------------------------------
\* The first filters of a set are filters of the set.
LEMMA FirstOfSubset ==
  ASSUME NEW set, NEW order
  PROVE  FirstOf(set, order) \subseteq set
BY DEF FirstOf

\* The generator lists the defaults before anything else, so whatever is
\* added before a default is a default.
LEMMA DefaultsEmittedFirst ==
  ASSUME NEW set \in SUBSET Filters, NEW f \in FirstOf(set, Emitted),
         f \notin Defaults
  PROVE  set \cap Defaults = {}
BY ActuatorAssumption DEF FirstOf

\* A closed set of filters admits a packet only if one of its filters passes it.
LEMMA ClosedAdmits ==
  ASSUME NEW filters \in SUBSET Filters, Defaults \subseteq filters
  PROVE  Admits(filters) \subseteq Allowed(filters)
<1> SUFFICES ASSUME NEW x \in Admits(filters) PROVE x \in Allowed(filters)
  OBVIOUS
<1>1. PICK d \in Defaults : x \in Matches[d]
  BY ActuatorAssumption DEF Admits
<1>2. {f \in filters : x \in Matches[f]} # {}
  BY <1>1
<1>3. PICK f \in filters : x \in Matches[f] /\ f \in Passes
  BY <1>2 DEF Admits, FirstOf
<1> QED
  BY <1>3 DEF Allowed

-----------------------------------------------------------------------------
LEMMA InitIInv == Init => IInv
<1> SUFFICES ASSUME Init PROVE IInv
  OBVIOUS
<1>1. kernel \in Objects /\ (kernel.filters # {} => kernel.qdisc)
  BY ActuatorAssumption DEF Init
<1>2. target \in Objects
  BY DEF Init, NoObjects, Objects
<1>3. start \subseteq Filters
  BY <1>1 DEF Init, Objects
<1>4. changes \in 0..MaxChanges /\ aborts \in 0..MaxAborts
  BY ActuatorAssumption DEF Init
<1>5. TypeOK
  BY <1>1, <1>2, <1>3, <1>4 DEF Init, TypeOK, PCs
<1> QED
  BY <1>5 DEF Init, IInv, Branches, Differences, Between, DefaultsComeFirst

LEMMA NextIInv == IInv /\ [Next]_vars => IInv'
<1> SUFFICES ASSUME IInv, [Next]_vars PROVE IInv'
  OBVIOUS
<1>1. CASE Change
  <2>1. TypeOK'
    <3>1. wanted' \in Targets /\ changes' \in 0..MaxChanges
      BY <1>1, ActuatorAssumption DEF Change, IInv, TypeOK
    <3> QED
      BY <1>1, <3>1 DEF Change, IInv, TypeOK
  <2>2. (Branches /\ Differences /\ Between)'
    BY <1>1 DEF Change, IInv, TypeOK, Branches, Differences, Between
  <2>3. (ok => pc = "idle" /\ Applied(target))'
    BY <1>1 DEF Change, IInv, TypeOK, Branches, Differences, Applied
  <2>4. DefaultsComeFirst'
    BY <1>1 DEF Change, IInv, TypeOK, Differences, Between, DefaultsComeFirst
  <2> QED
    BY <2>1, <2>2, <2>3, <2>4 DEF IInv
<1>2. CASE Call
  <2>1. TypeOK'
    <3>1. target' \in Objects /\ start' \subseteq Filters
      BY <1>2, ActuatorAssumption DEF Call, IInv, TypeOK, Objects
    <3> QED
      BY <1>2, <3>1 DEF Call, IInv, TypeOK, PCs, counters
  <2>2. (Branches /\ Differences /\ Between)'
    BY <1>2, ActuatorAssumption DEF Call, IInv, TypeOK, Branches, Differences, Between
  <2>3. (ok => pc = "idle" /\ Applied(target))'
    BY <1>2, ActuatorAssumption DEF Call, IInv, TypeOK, Branches, Differences, Applied
  <2>4. DefaultsComeFirst'
    BY <1>2, ActuatorAssumption DEF Call, IInv, TypeOK, Differences, Between, DefaultsComeFirst
  <2> QED
    BY <2>1, <2>2, <2>3, <2>4 DEF IInv
<1>3. CASE QDiscList
  <2>1. TypeOK'
    BY <1>3 DEF QDiscList, Return, IInv, TypeOK, PCs, Branches, counters
  <2>2. (Branches /\ Differences /\ Between)'
    BY <1>3 DEF QDiscList, Return, IInv, TypeOK, Branches, Differences, Between
  <2>3. (ok => pc = "idle" /\ Applied(target))'
    BY <1>3 DEF QDiscList, Return, IInv, TypeOK, Branches, Differences, Applied
  <2>4. DefaultsComeFirst'
    BY <1>3 DEF QDiscList, Return, IInv, TypeOK, Differences, Between, DefaultsComeFirst
  <2> QED
    BY <2>1, <2>2, <2>3, <2>4 DEF IInv
<1>4. CASE QDiscDel
  <2>1. TypeOK'
    BY <1>4 DEF QDiscDel, Return, NoObjects, Objects, IInv, TypeOK, PCs, Branches, counters
  <2>2. (Branches /\ Differences /\ Between)'
    BY <1>4 DEF QDiscDel, Return, NoObjects, Objects, IInv, TypeOK, Branches, Differences, Between
  <2>3. (ok => pc = "idle" /\ Applied(target))'
    BY <1>4 DEF QDiscDel, Return, NoObjects, Objects, IInv, TypeOK, Branches, Differences, Applied
  <2>4. DefaultsComeFirst'
    BY <1>4 DEF QDiscDel, Return, NoObjects, Objects, IInv, TypeOK, Differences, Between, DefaultsComeFirst
  <2> QED
    BY <2>1, <2>2, <2>3, <2>4 DEF IInv
<1>5. CASE ChainList
  <2>1. TypeOK'
    BY <1>5 DEF ChainList, Return, IInv, TypeOK, PCs, Branches, counters
  <2>2. (Branches /\ Differences /\ Between)'
    BY <1>5 DEF ChainList, Return, IInv, TypeOK, Branches, Differences, Between
  <2>3. (ok => pc = "idle" /\ Applied(target))'
    BY <1>5 DEF ChainList, Return, IInv, TypeOK, Branches, Differences, Applied
  <2>4. DefaultsComeFirst'
    BY <1>5 DEF ChainList, Return, IInv, TypeOK, Differences, Between, DefaultsComeFirst
  <2> QED
    BY <2>1, <2>2, <2>3, <2>4 DEF IInv
<1>6. CASE ChainDel
  <2>1. TypeOK'
    BY <1>6 DEF ChainDel, Return, Objects, IInv, TypeOK, PCs, Branches, counters
  <2>2. (Branches /\ Differences /\ Between)'
    BY <1>6 DEF ChainDel, Return, Objects, IInv, TypeOK, Branches, Differences, Between
  <2>3. (ok => pc = "idle" /\ Applied(target))'
    BY <1>6 DEF ChainDel, Return, Objects, IInv, TypeOK, Branches, Differences, Applied
  <2>4. DefaultsComeFirst'
    BY <1>6 DEF ChainDel, Return, Objects, IInv, TypeOK, Differences, Between, DefaultsComeFirst
  <2> QED
    BY <2>1, <2>2, <2>3, <2>4 DEF IInv
<1>7. CASE QDiscAdd
  <2>1. TypeOK'
    BY <1>7 DEF QDiscAdd, Objects, IInv, TypeOK, PCs, Branches, counters
  <2>2. (Branches /\ Differences /\ Between)'
    BY <1>7 DEF QDiscAdd, Objects, IInv, TypeOK, Branches, Differences, Between
  <2>3. (ok => pc = "idle" /\ Applied(target))'
    BY <1>7 DEF QDiscAdd, Objects, IInv, TypeOK, Branches, Differences, Applied
  <2>4. DefaultsComeFirst'
    BY <1>7 DEF QDiscAdd, Objects, IInv, TypeOK, Differences, Between, DefaultsComeFirst
  <2> QED
    BY <2>1, <2>2, <2>3, <2>4 DEF IInv
<1>8. CASE FilterList
  <2>1. TypeOK'
    <3>1. toRemove' \subseteq Filters /\ toAdd' \subseteq Filters
      BY <1>8 DEF FilterList, IInv, TypeOK, Objects
    <3> QED
      BY <1>8, <3>1 DEF FilterList, Return, IInv, TypeOK, PCs, counters
  <2>2. (Branches /\ Differences /\ Between)'
    BY <1>8 DEF FilterList, Return, IInv, TypeOK, Branches, Differences, Between
  <2>3. (ok => pc = "idle" /\ Applied(target))'
    BY <1>8 DEF FilterList, Return, IInv, TypeOK, Branches, Differences, Applied
  <2>4. DefaultsComeFirst'
    BY <1>8 DEF FilterList, Return, IInv, TypeOK, Differences, Between, DefaultsComeFirst
  <2> QED
    BY <2>1, <2>2, <2>3, <2>4 DEF IInv
<1>9. CASE FilterDel
  <2>1. TypeOK'
    BY <1>9, FirstOfSubset DEF FilterDel, Objects, IInv, TypeOK, PCs, Branches, counters
  <2>2. (Branches /\ Differences /\ Between)'
    BY <1>9, FirstOfSubset DEF FilterDel, Objects, IInv, TypeOK, Branches, Differences, Between
  <2>3. (ok => pc = "idle" /\ Applied(target))'
    BY <1>9, FirstOfSubset DEF FilterDel, Objects, IInv, TypeOK, Branches, Differences, Applied
  <2>4. DefaultsComeFirst'
    BY <1>9, FirstOfSubset DEF FilterDel, Objects, IInv, TypeOK, Differences, Between, DefaultsComeFirst
  <2> QED
    BY <2>1, <2>2, <2>3, <2>4 DEF IInv
<1>10. CASE FilterAdd
  <2>1. TypeOK'
    <3>1. /\ kernel' \in Objects
          /\ kernel'.filters # {} => kernel'.qdisc
          /\ toAdd' \subseteq Filters
      BY <1>10, FirstOfSubset DEF FilterAdd, Objects, IInv, TypeOK, Branches
    <3> QED
      BY <1>10, <3>1 DEF FilterAdd, Return, IInv, TypeOK, PCs, counters
  <2>2. (Branches /\ Differences /\ Between)'
    BY <1>10, FirstOfSubset DEF FilterAdd, Return, Objects, IInv, TypeOK, Branches, Differences, Between
  <2>3. (ok => pc = "idle" /\ Applied(target))'
    BY <1>10, FirstOfSubset DEF FilterAdd, Return, Objects, IInv, TypeOK, Branches, Differences, Applied
  <2>4. DefaultsComeFirst'
    BY <1>10, FirstOfSubset, DefaultsEmittedFirst DEF FilterAdd, Return, Objects, IInv, TypeOK, Differences, Between, DefaultsComeFirst
  <2> QED
    BY <2>1, <2>2, <2>3, <2>4 DEF IInv
<1>11. CASE Abort
  <2>1. TypeOK'
    <3>1. aborts' \in 0..MaxAborts
      BY <1>11, ActuatorAssumption DEF Abort, IInv, TypeOK
    <3> QED
      BY <1>11, <3>1 DEF Abort, IInv, TypeOK, PCs
  <2>2. (Branches /\ Differences /\ Between)'
    BY <1>11 DEF Abort, IInv, TypeOK, Branches, Differences, Between
  <2>3. (ok => pc = "idle" /\ Applied(target))'
    BY <1>11 DEF Abort, IInv, TypeOK, Branches, Differences, Applied
  <2>4. DefaultsComeFirst'
    BY <1>11 DEF Abort, IInv, TypeOK, Differences, Between, DefaultsComeFirst
  <2> QED
    BY <2>1, <2>2, <2>3, <2>4 DEF IInv
<1>12. CASE UNCHANGED vars
  <2>1. TypeOK'
    BY <1>12 DEF vars, IInv, TypeOK, PCs, Branches, counters
  <2>2. (Branches /\ Differences /\ Between)'
    BY <1>12 DEF vars, IInv, TypeOK, Branches, Differences, Between
  <2>3. (ok => pc = "idle" /\ Applied(target))'
    BY <1>12 DEF vars, IInv, TypeOK, Branches, Differences, Applied
  <2>4. DefaultsComeFirst'
    BY <1>12 DEF vars, IInv, TypeOK, Differences, Between, DefaultsComeFirst
  <2> QED
    BY <2>1, <2>2, <2>3, <2>4 DEF IInv
<1> QED
  BY <1>1, <1>2, <1>3, <1>4, <1>5, <1>6, <1>7, <1>8, <1>9, <1>10, <1>11, <1>12
     DEF Next, Actuate

\* The inductive invariant holds in every reachable state.
LEMMA Invariance == Spec => []IInv
BY InitIInv, NextIInv, PTL DEF Spec

-----------------------------------------------------------------------------
\* The variables keep their types; filters never outlive their qdisc.
THEOREM TypeCorrect == Spec => []TypeOK
BY Invariance, PTL DEF IInv

\* When Actuate returns nil, the kernel enforces the objects it was given.
THEOREM Success == Spec => []SuccessIsApplied
<1>1. IInv => SuccessIsApplied
  BY DEF IInv, SuccessIsApplied
<1> QED
  BY <1>1, Invariance, PTL

\* A representor in the course of being closed has no other new filter without
\* the defaults, nor has it after a failure.
THEOREM DefaultsFirst == Spec => []DefaultsComeFirst
BY Invariance, PTL DEF IInv

\* Between two sets of filters that drop by default, Actuate opens nothing
\* that neither of them has a pass filter for.
THEOREM ClosedOnTheWay == Spec => []StaysClosed
<1>1. IInv => StaysClosed
  <2> SUFFICES ASSUME IInv,
                      Defaults \subseteq start \cap target.filters
               PROVE  /\ Defaults \subseteq kernel.filters
                      /\ Admits(kernel.filters)
                           \subseteq Allowed(start) \cup Allowed(target.filters)
    BY DEF StaysClosed
  <2>1. /\ Defaults \subseteq kernel.filters
        /\ kernel.filters \subseteq start \cup target.filters
    BY DEF IInv, Between
  <2>2. kernel.filters \in SUBSET Filters
    BY DEF IInv, TypeOK, Objects
  <2>3. Admits(kernel.filters) \subseteq Allowed(kernel.filters)
    BY <2>1, <2>2, ClosedAdmits
  <2>4. Allowed(kernel.filters) \subseteq Allowed(start) \cup Allowed(target.filters)
    BY <2>1 DEF Allowed
  <2> QED
    BY <2>1, <2>3, <2>4
<1> QED
  BY <1>1, Invariance, PTL

\* A packet's verdict does not change on the way if one filter gives it before
\* and after: that filter stays, and no filter comes before it that did not.
THEOREM CommonVerdictsStay == Spec => []KeepsVerdicts
<1>1. IInv => KeepsVerdicts
  <2> SUFFICES ASSUME IInv, NEW f \in start \cap target.filters,
                      NEW x \in Packets, Decides(f, x, start),
                      Decides(f, x, target.filters)
               PROVE  Decides(f, x, kernel.filters)
    BY DEF KeepsVerdicts
  <2>1. f \in kernel.filters /\ kernel.filters \subseteq start \cup target.filters
    BY DEF IInv, Between
  <2> QED
    BY <2>1 DEF Decides, FirstOf
<1> QED
  BY <1>1, Invariance, PTL

-----------------------------------------------------------------------------
\* No drop filter comes before a pass filter that matches the same packet: the
\* policies except no part of what they allow.
Unexcepted(filters) ==
  \A p \in filters \cap Passes, d \in filters \ Passes :
    Matches[p] \cap Matches[d] # {} => Priority[p] < Priority[d]

\* A set of filters has a first one.
LEMMA SomeFirst ==
  ASSUME NEW set \in SUBSET Filters, set # {}
  PROVE  FirstOf(set, Priority) # {}
<1> DEFINE numbers == {Priority[f] : f \in set}
           less == {ss \in Nat \X Nat : ss[1] < ss[2]}
<1>1. numbers \subseteq Nat /\ numbers # {}
  BY ActuatorAssumption
<1>2. PICK n \in numbers : \A m \in numbers : <<m, n>> \notin less
  <2>1. IsWellFoundedOn(less, Nat)
    BY NatLessThanWellFounded, Zenon DEF OpToRel
  <2> QED
    BY <1>1, <2>1, WFMin, Zenon
<1>3. \A m \in numbers : n <= m
  <2> SUFFICES ASSUME NEW m \in numbers PROVE n <= m
    OBVIOUS
  <2>1. <<m, n>> \in Nat \X Nat /\ <<m, n>>[1] = m /\ <<m, n>>[2] = n
    BY <1>1
  <2> QED
    BY <1>1, <1>2, <2>1
<1>4. PICK f \in set : Priority[f] = n
  BY <1>2
<1> QED
  BY <1>3, <1>4 DEF FirstOf

\* Without exceptions, all that a pass filter matches is let out.
LEMMA UnexceptedAdmits ==
  ASSUME NEW filters \in SUBSET Filters, Unexcepted(filters)
  PROVE  Allowed(filters) \subseteq Admits(filters)
<1> SUFFICES ASSUME NEW p \in filters \cap Passes, NEW x \in Matches[p]
             PROVE  x \in Admits(filters)
  BY DEF Allowed
<1> DEFINE matching == {f \in filters : x \in Matches[f]}
<1>1. p \in matching /\ x \in Packets
  BY ActuatorAssumption
<1>2. PICK f \in matching : \A g \in matching : Priority[f] <= Priority[g]
  BY <1>1, SomeFirst DEF FirstOf
<1>3. f \in Passes
  <2> SUFFICES ASSUME f \notin Passes PROVE FALSE
    OBVIOUS
  <2>1. Priority[p] < Priority[f]
    BY <1>1 DEF Unexcepted
  <2> QED
    BY <1>1, <1>2, <2>1, ActuatorAssumption
<1> QED
  BY <1>1, <1>2, <1>3 DEF Admits, FirstOf

\* From policies without exceptions to others without exceptions, and both closed
\* by default, Actuate lets out nothing on the way that neither lets out: the
\* violation that TLC finds of AdmitsOldOrNew takes an excepted block.
THEOREM OldOrNewWithoutExceptions ==
  Spec => [](Unexcepted(start) /\ Unexcepted(target.filters) => AdmitsOldOrNew)
<1>1. TypeOK /\ StaysClosed =>
        (Unexcepted(start) /\ Unexcepted(target.filters) => AdmitsOldOrNew)
  <2> SUFFICES ASSUME TypeOK, StaysClosed,
                      Unexcepted(start), Unexcepted(target.filters),
                      Defaults \subseteq start \cap target.filters
               PROVE  Admits(kernel.filters)
                        \subseteq Admits(start) \cup Admits(target.filters)
    BY DEF AdmitsOldOrNew
  <2>1. start \in SUBSET Filters /\ target.filters \in SUBSET Filters
    BY DEF TypeOK, Objects
  <2> QED
    BY <2>1, UnexceptedAdmits DEF StaysClosed
<1> QED
  BY <1>1, TypeCorrect, ClosedOnTheWay, PTL

\* No step takes the kernel away from the target.
THEOREM Progress == Spec => OnlyTowardsTarget
<1> DEFINE Closer == target' = target =>
                       Distance(kernel'.filters, target)
                         \subseteq Distance(kernel.filters, target)
<1>1. ASSUME IInv, Next PROVE Closer
  <2> USE <1>1
  <2>1. CASE QDiscDel
    BY <2>1 DEF QDiscDel, NoObjects, IInv, Branches, Distance
  <2>2. CASE ChainDel
    BY <2>2 DEF ChainDel, IInv, TypeOK, Objects, Branches, Distance
  <2>3. CASE FilterDel
    BY <2>3, FirstOfSubset
       DEF FilterDel, IInv, TypeOK, Objects, Differences, Distance
  <2>4. CASE FilterAdd
    BY <2>4, FirstOfSubset
       DEF FilterAdd, IInv, TypeOK, Objects, Differences, Distance
  <2>5. CASE Change \/ Call \/ QDiscList \/ ChainList \/ QDiscAdd \/ FilterList
               \/ Abort
    <3>1. kernel'.filters = kernel.filters
      BY <2>5 DEF Change, Call, QDiscList, ChainList, QDiscAdd, FilterList,
                  Abort, IInv, TypeOK, Objects
    <3> QED
      BY <3>1
  <2> QED
    BY <2>1, <2>2, <2>3, <2>4, <2>5 DEF Next, Actuate
<1>2. IInv /\ [Next]_vars =>
        [target' = target =>
           Distance(kernel'.filters, target)
             \subseteq Distance(kernel.filters, target)]_vars
  BY <1>1
<1> QED
  BY <1>2, Invariance, PTL DEF Spec, OnlyTowardsTarget
=============================================================================
