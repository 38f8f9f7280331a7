---------------------------- MODULE Driver_proofs ----------------------------
(***************************************************************************)
(* Proofs about Driver, for any addresses, ports, wanted filters and       *)
(* filters found.                                                          *)
(*                                                                         *)
(* What the generator makes reads back field by field, two exceptions      *)
(* apart (RoundTrip).  Base is the part of the invariant that holds        *)
(* whatever was found.  If the filters found could be told apart           *)
(* (FoundApart), then no two entries ever read alike (Apart): of those     *)
(* that the daemon would write, the kernel refuses the second.  So what    *)
(* Actuate sees of the kernel is all of it, and what it has not removed    *)
(* serves the target (Differences).  From this follow the verdict of the   *)
(* kernel's classifier and the refinement of Actuator.                     *)
(***************************************************************************)
EXTENDS Driver, FiniteSetTheorems, TLAPS

PCs == {"idle", "QDiscList", "QDiscDel", "ChainList", "ChainDel", "QDiscAdd",
        "FilterList", "FilterDel", "FilterAdd"}

\* The local variables of Actuate fit the place it is at, and the target.
Phases ==
  /\ pc \in PCs
  /\ pc # "FilterDel" => toRemove = {}
  /\ pc \notin {"FilterDel", "FilterAdd"} => toAdd = {}
  /\ pc \in {"FilterList", "FilterDel", "FilterAdd"} => qdisc
  /\ pc \in {"QDiscAdd", "FilterList", "FilterDel", "FilterAdd"} =>
       target.qdisc /\ target.filters # {}
  /\ pc \in {"ChainList", "ChainDel"} => target.qdisc /\ target.filters = {}
  /\ pc = "QDiscDel" => ~target.qdisc
  /\ ok => pc = "idle"

\* The kernel's filters are finitely many, and as a kernel's filters are.
KernelOK ==
  /\ IsFiniteSet(entries)
  /\ \A e \in entries : e.handle \in Nat /\ (e.kind = "flower" => Agree(e))

\* What is about to be removed reads like nothing that is wanted.
RemovesUnwanted ==
  \A e \in toRemove : e.kind = "flower" /\ \A f \in target.filters : ~Same(f, e)

\* An entry that the daemon wrote.
Ours(e) == \E o \in Targets : \E f \in o.filters : Keys(e) = Written(f)

\* No two entries read alike; others than the daemon's were found; and those
\* do not read like what is about to be added.
Apart ==
  /\ \A e, g \in Listed : Comparable(Reading(e)) = Comparable(Reading(g)) => e = g
  /\ \A e \in Listed : Ours(e) \/ e \in UNION Found
  /\ \A f \in toAdd, e \in Listed : Ours(e) \/ ~Same(f, e)

\* An entry stands for a filter: it reads like it, or was written for it.
Serves(f, e) == Same(f, e) \/ Keys(e) = Written(f)

\* Once the filters are listed, and after success, the entries are those that
\* serve the target, but for what is yet to be removed and added.
Complete ==
  /\ \A e \in Listed \ toRemove : \E f \in target.filters : Serves(f, e)
  /\ \A f \in target.filters \ toAdd : \E e \in Listed \ toRemove : Serves(f, e)

Differences ==
  pc \in {"FilterDel", "FilterAdd"} \/ (ok /\ target.qdisc) => Complete

Base == TypeOK /\ Phases /\ KernelOK /\ RemovesUnwanted

IInv == Base /\ Apart /\ Differences

-----------------------------------------------------------------------------
\* The operators: what a conversion keeps of a filter.

Names == {"kind", "protocol", "priority", "ethType", "vlanEthType", "dstIP",
          "ipProto", "dstPort", "action", "hidden"}

\* What is written is a filter but for its handle.
LEMMA WrittenShape ==
  ASSUME NEW d, NEW f
  PROVE  LET e == WrittenBy(d, f)
         IN  /\ e = [x \in Names |-> e[x]]
             /\ e.kind = "flower" /\ ~e.hidden
             /\ e.protocol = f.protocol /\ e.priority = f.priority
             /\ e.dstIP = f.dstIP /\ e.action = f.action
             /\ e.ipProto = IF f.dstPort = Any THEN Any ELSE f.dstPort.protocol
BY DEF WrittenBy, flowerFilterToNlFlowerFilter, GenCmdLineArgs, FlowerFilter, Entry, Names

LEMMA EntryHandle ==
  ASSUME NEW e, e = [x \in Names |-> e[x]], NEW h
  PROVE  LET w == WithHandle(e, h)
         IN  /\ Keys(w) = e
             /\ w.handle = h
             /\ \A x \in Names : w[x] = e[x]
<1> DEFINE w == WithHandle(e, h)
<1>1. DOMAIN e = Names /\ "handle" \notin Names
  BY DEF Names
<1>2. DOMAIN w = Names \cup {"handle"} /\ w.handle = h /\ \A x \in Names : w[x] = e[x]
  BY <1>1 DEF WithHandle
<1>3. DOMAIN w \ {"handle"} = Names
  BY <1>1, <1>2
<1>4. Keys(w) = [x \in Names |-> w[x]]
  BY <1>3 DEF Keys
<1>5. Keys(w) = [x \in Names |-> e[x]]
  BY <1>2, <1>4
<1> QED
  BY <1>2, <1>5

LEMMA KeysFields ==
  ASSUME NEW e, NEW g, Keys(g) = e, e = [x \in Names |-> e[x]]
  PROVE  \A x \in Names : g[x] = e[x]
<1>1. DOMAIN Keys(g) = DOMAIN g \ {"handle"} /\ \A x \in DOMAIN g \ {"handle"} : Keys(g)[x] = g[x]
  BY DEF Keys
<1>2. DOMAIN e = Names
  OBVIOUS
<1> QED
  BY <1>1, <1>2

\* What the drivers read does not depend on the handle.
LEMMA ReadingOfKeys ==
  ASSUME NEW d, NEW e, NEW g, \A x \in Names : g[x] = e[x]
  PROVE  ReadingBy(d, g) = ReadingBy(d, e) /\ (Agree(g) <=> Agree(e))
<1>1. /\ g.protocol = e.protocol /\ g.priority = e.priority /\ g.ethType = e.ethType
      /\ g.vlanEthType = e.vlanEthType /\ g.dstIP = e.dstIP /\ g.ipProto = e.ipProto
      /\ g.dstPort = e.dstPort /\ g.action = e.action
  BY DEF Names
<1>2. \A v : Read(g, v) = Read(e, v)
  BY <1>1 DEF Read
<1> QED
  BY <1>1, <1>2 DEF ReadingBy, nlFlowerFilterToFlowerFilter, cFilterToFlowerFilter, Agree

\* Equals on what the generator makes and on what the drivers read.
LEMMA ComparableFields ==
  /\ \A f : Comparable(FlowerFilter(f)) = [FlowerFilter(f) EXCEPT !.chain = 0]
  /\ \A e, v : Comparable(Read(e, v)) = Read(e, v)
BY DEF Comparable, FlowerFilter, Read

LEMMA GenerableFields ==
  ASSUME NEW f \in Generable
  PROVE  /\ f.protocol \in FilterProtocols /\ f.action \in {"pass", "drop"}
         /\ f.vlanEthType \in {Any} \cup Families
         /\ f.protocol = "802.1q" <=> f.vlanEthType # Any
         /\ f.dstPort # Any => /\ f.dstPort.protocol \in {"tcp", "udp"}
                               /\ f.dstPort.number \in Numbers
         /\ (IF f.protocol = "802.1q" THEN f.vlanEthType ELSE f.protocol) \in FamiliesOf(f.dstIP)
BY DEF Generable, Filters, Ports

\* Either driver reads of what it has written, field by field.
LEMMA ReadingOfWritten ==
  ASSUME NEW d \in Drivers, NEW f \in Generable
  PROVE  LET e == WrittenBy(d, f)
         IN  Comparable(ReadingBy(d, e)) =
               [chain |-> 0, protocol |-> f.protocol, priority |-> f.priority,
                vlanEthType |-> f.vlanEthType,
                dstIP |-> IF f.dstIP \in Whole THEN Any ELSE f.dstIP,
                ipProto |-> e.ipProto, dstPort |-> e.dstPort, action |-> f.action]
<1> DEFINE e == WrittenBy(d, f)
<1> USE DriverAssumption, GeneratorAssumption, GenerableFields
<1>1. PICK v : ReadingBy(d, e) = Read(e, v) /\ v = f.vlanEthType
  <2>1. CASE d = "netlink"
    BY <2>1 DEF ReadingBy, WrittenBy, nlFlowerFilterToFlowerFilter, Known,
       flowerFilterToNlFlowerFilter, FlowerFilter, Entry, Families, FilterProtocols
  <2>2. CASE d = "cmdline"
    BY <2>2 DEF ReadingBy, WrittenBy, cFilterToFlowerFilter, Known,
       GenCmdLineArgs, FlowerFilter, Entry, Families, FilterProtocols
  <2> QED
    BY <2>1, <2>2 DEF Drivers
<1>2. /\ e.protocol = f.protocol /\ e.priority = f.priority
      /\ e.dstIP = f.dstIP /\ e.action = f.action
      /\ e.ipProto = IF f.dstPort = Any THEN Any ELSE f.dstPort.protocol
  BY WrittenShape
<1>3. Known(e.ipProto, {Any, "tcp", "udp"}) = e.ipProto
  BY <1>2 DEF Known
<1>4. Known(e.protocol, FilterProtocols) = f.protocol
  BY <1>2 DEF Known
<1>5. Read(e, v) =
        [chain |-> 0, protocol |-> f.protocol, priority |-> f.priority,
         vlanEthType |-> f.vlanEthType,
         dstIP |-> IF f.dstIP \in Whole THEN Any ELSE f.dstIP,
         ipProto |-> e.ipProto, dstPort |-> e.dstPort, action |-> f.action]
  BY <1>1, <1>2, <1>3, <1>4 DEF Read, ControlActions
<1> QED
  BY <1>1, <1>5, ComparableFields

\* What the generator makes reads back as it was written, with the exceptions.
LEMMA RoundTrip ==
  ASSUME NEW d \in Drivers, NEW f \in Generable, ~ExceptionalBy(d, f)
  PROVE  Comparable(FlowerFilter(f)) = Comparable(ReadingBy(d, WrittenBy(d, f)))
<1> DEFINE e == WrittenBy(d, f)
<1>1. e.dstPort = IF f.dstPort = Any THEN Any ELSE f.dstPort.number
  BY DEF ExceptionalBy, Drivers, WrittenBy, GenCmdLineArgs, FlowerFilter, Entry,
     flowerFilterToNlFlowerFilter
<1>2. e.ipProto = IF f.dstPort = Any THEN Any ELSE f.dstPort.protocol
  BY WrittenShape
<1>3. [FlowerFilter(f) EXCEPT !.chain = 0] =
        [chain |-> 0, protocol |-> f.protocol, priority |-> f.priority,
         vlanEthType |-> f.vlanEthType,
         dstIP |-> IF f.dstIP \in Whole THEN Any ELSE f.dstIP,
         ipProto |-> e.ipProto, dstPort |-> e.dstPort, action |-> f.action]
  BY <1>1, <1>2 DEF FlowerFilter, ExceptionalBy
<1> QED
  BY <1>3, ReadingOfWritten, ComparableFields

\* The types and the address of what is written agree.
LEMMA WrittenAgrees ==
  ASSUME NEW d \in Drivers, NEW f \in Generable
  PROVE  Agree(WrittenBy(d, f))
<1> DEFINE e == WrittenBy(d, f)
<1> USE DriverAssumption, GeneratorAssumption
<1>1. /\ f.protocol \in FilterProtocols /\ f.vlanEthType \in {Any} \cup Families
      /\ f.protocol = "802.1q" <=> f.vlanEthType # Any
      /\ (IF f.protocol = "802.1q" THEN f.vlanEthType ELSE f.protocol) \in FamiliesOf(f.dstIP)
  BY DEF Generable, Filters
<1>2. e.protocol = f.protocol /\ e.dstIP = f.dstIP
  BY WrittenShape
<1>3. CASE d = "netlink"
  <2>1. e.vlanEthType = Any /\ e.ethType = IF f.vlanEthType = Any THEN f.protocol ELSE f.vlanEthType
    BY <1>3 DEF WrittenBy, flowerFilterToNlFlowerFilter, FlowerFilter, Entry
  <2> QED
    BY <1>1, <1>2, <2>1 DEF Agree, Families, FilterProtocols
<1>4. CASE d = "cmdline"
  <2>1. e.vlanEthType = f.vlanEthType /\ e.ethType = f.protocol
    BY <1>4 DEF WrittenBy, GenCmdLineArgs, FlowerFilter, Entry
  <2> QED
    BY <1>1, <1>2, <2>1 DEF Agree, Families, FilterProtocols
<1> QED
  BY <1>3, <1>4 DEF Drivers

\* The handle the kernel gives a filter is free in its priority.
LEMMA FreeHandleIsFree ==
  ASSUME IsFiniteSet(entries), \A e \in entries : e.handle \in Nat, NEW p
  PROVE  /\ FreeHandle(p) \in Nat
         /\ \A e \in entries : e.priority = p => e.handle # FreeHandle(p)
<1> DEFINE S == {g \in entries : g.priority = p}
           used == {e.handle : e \in S}
           n == Cardinality(used)
<1>1. IsFiniteSet(S)
  BY FS_Subset
<1>2. IsFiniteSet(used)
  <2> DEFINE h == [e \in S |-> e.handle]
  <2>1. h \in Surjection(S, used)
    BY DEF Surjection
  <2> QED
    BY <1>1, <2>1, FS_Surjection
<1>3. n \in Nat
  BY <1>2, FS_CardinalityType
<1>4. \E h \in 1..(n + 1) : h \notin used
  <2> SUFFICES ASSUME 1..(n + 1) \subseteq used PROVE FALSE
    OBVIOUS
  <2>1. Cardinality(1..(n + 1)) <= n
    BY <1>2, FS_Subset
  <2>2. Cardinality(1..(n + 1)) = n + 1
    BY <1>3, FS_Interval
  <2> QED
    BY <1>3, <2>1, <2>2
<1>5. FreeHandle(p) \in 1..(n + 1) /\ FreeHandle(p) \notin used
  BY <1>4 DEF FreeHandle
<1> QED
  BY <1>3, <1>5

\* The entry that FilterAdd makes.
LEMMA AddedEntry ==
  ASSUME NEW f, NEW h
  PROVE  LET w == WithHandle(Written(f), h)
         IN  /\ Keys(w) = Written(f) /\ w.handle = h /\ w.kind = "flower"
             /\ w.priority = f.priority /\ Reading(w) = Reading(Written(f))
             /\ Agree(w) <=> Agree(Written(f))
<1> DEFINE e == Written(f)
           w == WithHandle(e, h)
<1>1. e = [x \in Names |-> e[x]] /\ e.kind = "flower" /\ e.priority = f.priority
  BY WrittenShape DEF Written
<1>2. Keys(w) = e /\ w.handle = h /\ \A x \in Names : w[x] = e[x]
  BY <1>1, EntryHandle
<1>3. Reading(w) = Reading(e) /\ (Agree(w) <=> Agree(e))
  BY <1>2, ReadingOfKeys DEF Reading
<1> QED
  BY <1>1, <1>2, <1>3 DEF Names

LEMMA TargetsGenerable == \A o \in Targets \cup {NoObjects} : o.filters \subseteq Generable
BY DriverAssumption DEF NoObjects

-----------------------------------------------------------------------------
LEMMA InitBase == Init => Base
<1> SUFFICES ASSUME Init PROVE Base
  OBVIOUS
<1>1. TypeOK
  <2>1. changes \in 0..MaxChanges /\ aborts \in 0..MaxAborts
    BY DriverAssumption DEF Init
  <2>2. \A e, g \in entries : e.priority = g.priority /\ e.handle = g.handle => e = g
    BY FoundAssumption DEF Init
  <2> QED
    BY <2>1, <2>2 DEF Init, TypeOK, NoObjects
<1>2. Phases /\ KernelOK /\ RemovesUnwanted
  BY FoundAssumption DEF Init, Phases, PCs, KernelOK, RemovesUnwanted, NoObjects
<1> QED
  BY <1>1, <1>2 DEF Base

\* A filter is added with a handle of its own.
LEMMA AddBase ==
  ASSUME Base, pc = "FilterAdd", NEW f \in NextToAdd,
         toAdd' = toAdd \ {f},
         entries' = entries \cup {WithHandle(Written(f), FreeHandle(f.priority))},
         UNCHANGED <<driver, qdisc, wanted, target, toRemove, start, changes, aborts, pc, ok>>
  PROVE  Base'
<1> DEFINE h == FreeHandle(f.priority)
           w == WithHandle(Written(f), h)
<1>1. f \in toAdd /\ f \in Generable
  BY TargetsGenerable DEF NextToAdd, Base, TypeOK
<1>2. w.priority = f.priority /\ w.handle = h /\ w.kind = "flower" /\ Agree(w)
  BY <1>1, AddedEntry, WrittenAgrees DEF Base, TypeOK, Written
<1>3. h \in Nat /\ \A e \in entries : e.priority = f.priority => e.handle # h
  BY FreeHandleIsFree DEF Base, KernelOK
<1>4. \A e, g \in entries' : e.priority = g.priority /\ e.handle = g.handle => e = g
  BY <1>2, <1>3 DEF Base, TypeOK
<1>5. TypeOK'
  BY <1>4 DEF Base, TypeOK, Phases
<1>6. KernelOK'
  BY <1>2, <1>3, FS_AddElement DEF Base, KernelOK
<1>7. Phases'
  BY DEF Base, Phases
<1>8. RemovesUnwanted'
  BY DEF Base, Phases, RemovesUnwanted
<1> QED
  BY <1>5, <1>6, <1>7, <1>8 DEF Base

LEMMA NextBase == Base /\ [Next]_vars => Base'
<1> SUFFICES ASSUME Base, [Next]_vars PROVE Base'
  OBVIOUS
<1> USE DEF Base, TypeOK, Phases, PCs, KernelOK, RemovesUnwanted, Same, Reading, local
<1>1. CASE Change
  <2>1. changes' \in 0..MaxChanges
    BY <1>1, DriverAssumption DEF Change
  <2> QED
    BY <1>1, <2>1 DEF Change
<1>2. CASE Call
  BY <1>2, DriverAssumption DEF Call
<1>3. CASE QDiscList
  <2>1. UNCHANGED <<driver, qdisc, entries, wanted, target, toRemove, toAdd, changes, aborts>>
        /\ pc = "QDiscList" /\ ~ok
    BY <1>3 DEF QDiscList
  <2>2. CASE Return
    BY <2>1, <2>2 DEF Return
  <2>3. CASE UNCHANGED ok
    BY <1>3, <2>1, <2>3 DEF QDiscList, Return
  <2> QED
    BY <1>3, <2>2, <2>3 DEF QDiscList
<1>4. CASE QDiscDel
  BY <1>4, FS_EmptySet DEF QDiscDel, Return
<1>5. CASE QDiscAdd
  BY <1>5 DEF QDiscAdd
<1>6. CASE ChainList
  <2>1. UNCHANGED <<driver, qdisc, entries, wanted, target, toRemove, toAdd, changes, aborts>>
        /\ pc = "ChainList" /\ ~ok
    BY <1>6 DEF ChainList
  <2>2. CASE Return
    BY <2>1, <2>2 DEF Return
  <2>3. CASE UNCHANGED ok
    BY <1>6, <2>1, <2>3 DEF ChainList, Return
  <2> QED
    BY <1>6, <2>2, <2>3 DEF ChainList
<1>7. CASE ChainDel
  BY <1>7, FS_EmptySet DEF ChainDel, Return
<1>8. CASE FilterList
  BY <1>8 DEF FilterList, Return, ExistingFilterSet, Listed
<1>9. CASE FilterDel
  <2>1. CASE toRemove = {} /\ pc' = "FilterAdd" /\ UNCHANGED <<entries, toRemove>>
    BY <1>9, <2>1 DEF FilterDel
  <2>2. ASSUME NEW e \in toRemove, toRemove' = toRemove \ {e},
               entries' = {g \in entries : g.priority # e.priority \/ g.handle # e.handle},
               UNCHANGED pc
        PROVE  Base'
    <3>1. IsFiniteSet(entries')
      BY <2>2, FS_Subset
    <3>2. toRemove' \subseteq entries' /\ entries' \subseteq entries
      BY <2>2
    <3> QED
      BY <1>9, <2>2, <3>1, <3>2 DEF FilterDel
  <2> QED
    BY <1>9, <2>1, <2>2 DEF FilterDel
<1>10. CASE FilterAdd
  <2>1. CASE toAdd = {} /\ Return /\ UNCHANGED <<entries, toAdd>>
    BY <1>10, <2>1 DEF FilterAdd, Return
  <2> QED
    BY <1>10, <2>1, AddBase DEF FilterAdd
<1>11. CASE Refused
  BY <1>11 DEF Refused, Fail
<1>12. CASE Abort
  <2>1. aborts' \in 0..MaxAborts
    BY <1>12, DriverAssumption DEF Abort
  <2> QED
    BY <1>12, <2>1 DEF Abort, Fail
<1>13. CASE UNCHANGED vars
  BY <1>13 DEF vars
<1> QED
  BY <1>1, <1>2, <1>3, <1>4, <1>5, <1>6, <1>7, <1>8, <1>9, <1>10, <1>11, <1>12, <1>13
  DEF Next, Actuate

LEMMA Invariance == Spec => []Base
BY InitBase, NextBase, PTL DEF Spec

\* The variables keep their types, filters need a qdisc, and handles tell the
\* filters of a priority apart, whatever was found and whatever fails.
THEOREM TypeCorrect == Spec => []TypeOK
<1>1. Base => TypeOK
  BY DEF Base
<1> QED
  BY <1>1, Invariance, PTL

\* Port 0 through netlink and CIDRs of prefix length 0 are all that does not
\* read back as it was written, whatever the generator is asked for.
THEOREM KnownExceptions == Spec => []OnlyKnownExceptions
<1>1. Base => OnlyKnownExceptions
  BY TargetsGenerable, RoundTrip
  DEF Base, TypeOK, OnlyKnownExceptions, ReadsBack, Exceptional, Same, Reading, Written
<1> QED
  BY <1>1, Invariance, PTL

\* What is in the kernel and wanted is not taken for something else.
LEMMA WantedReadsBack ==
  ASSUME Base, NEW f \in target.filters, ~Exceptional(f),
         NEW e, Keys(e) = Written(f)
  PROVE  Same(f, e)
<1>1. f \in Generable
  BY TargetsGenerable DEF Base, TypeOK
<1>2. Comparable(FlowerFilter(f)) = Comparable(Reading(Written(f)))
  BY <1>1, RoundTrip DEF Exceptional, Base, TypeOK, Reading, Written
<1>3. Reading(e) = Reading(Written(f))
  <2>1. Written(f) = [x \in Names |-> Written(f)[x]]
    BY WrittenShape DEF Written
  <2>2. \A x \in Names : e[x] = Written(f)[x]
    BY <2>1, KeysFields
  <2> QED
    BY <2>2, ReadingOfKeys DEF Reading
<1> QED
  BY <1>2, <1>3 DEF Same

\* A wanted filter stays in the kernel while others are removed: the entry that
\* was written for it reads like it, so that it is not to be removed, and a
\* removal by handle takes no other entry along.
THEOREM WantedStay == Spec => WantedFiltersStay
<1> DEFINE Kept == \A f \in target.filters :
                     /\ pc = "FilterDel"
                     /\ ~Exceptional(f)
                     /\ Written(f) \in {Keys(e) : e \in entries}
                     => Written(f) \in {Keys(e) : e \in entries'}
<1>1. Base /\ [Next]_vars => Kept
  <2> SUFFICES ASSUME Base, [Next]_vars, pc = "FilterDel",
                      NEW f \in target.filters, ~Exceptional(f),
                      NEW e \in entries, Written(f) = Keys(e)
               PROVE  \E g \in entries' : Written(f) = Keys(g)
    OBVIOUS
  <2>1. CASE entries' = entries
    BY <2>1
  <2>2. ASSUME NEW r \in toRemove,
               entries' = {g \in entries : g.priority # r.priority \/ g.handle # r.handle}
        PROVE  \E g \in entries' : Written(f) = Keys(g)
    <3>1. e # r
      BY WantedReadsBack DEF Base, RemovesUnwanted
    <3>2. e \in entries'
      BY <2>2, <3>1 DEF Base, TypeOK
    <3> QED
      BY <3>2
  <2> QED
    BY <2>1, <2>2 DEF Next, Change, Call, Actuate, QDiscList, QDiscDel, QDiscAdd,
       ChainList, ChainDel, FilterList, FilterDel, FilterAdd, Refused, Abort, Fail, vars
<1> QED
  BY <1>1, Invariance, PTL DEF Spec, WantedFiltersStay

-----------------------------------------------------------------------------
\* The generator makes nothing else than what DriverAssumption allows for.
THEOREM GeneratedAreGenerable ==
  \A rules \in (SUBSET Rules) \cup {NoRules} : GenerateFromPolicyRuleSet(rules) \subseteq Generable
<1> USE GeneratorAssumption
<1>1. ASSUME NEW cidrs \in SUBSET Cidrs, NEW ports \in SUBSET Ports,
             NEW base \in Nat, NEW action \in {"pass", "drop"}
      PROVE  genFilters(cidrs, ports, base, action) \subseteq Generable
  <2> SUFFICES ASSUME NEW d, NEW p, NEW f,
                      d \in {Any} \cup Cidrs, p \in {Any} \cup Ports, f \in FamiliesOf(d)
               PROVE  \A protocol, vlan :
                        \/ protocol = f /\ vlan = Any
                        \/ protocol = "802.1q" /\ vlan = f
                        => [protocol |-> protocol,
                            priority |-> PrioFromBaseAndProtcol(base, protocol),
                            vlanEthType |-> vlan, dstIP |-> d, dstPort |-> p,
                            action |-> action] \in Generable
    BY DEF genFilters
  <2>1. f \in Families
    BY DEF FamiliesOf, Families
  <2>2. \A protocol \in FilterProtocols : PrioFromBaseAndProtcol(base, protocol) \in Nat
    BY DEF PrioFromBaseAndProtcol, FilterProtocols, Families
  <2> QED
    BY <2>1, <2>2 DEF Generable, Filters, FilterProtocols, Families
<1>2. genDefaultFilters \subseteq Generable
  BY <1>1 DEF genDefaultFilters, BasePrioDefault
<1>3. \A r \in Rules : genPassFilters(r) \subseteq Generable /\ genDropFilters(r) \subseteq Generable
  BY <1>1 DEF Rules, genPassFilters, genDropFilters, BasePrioPass, BasePrioDrop
<1> QED
  BY <1>2, <1>3 DEF GenerateFromPolicyRuleSet

\* The filters of the daemon, and Actuator on a representor with no others.
OwnFilters == UNION {GenerateFromPolicyRuleSet(rules) : rules \in SUBSET Rules}

Own == INSTANCE Actuator WITH
  Filters    <- OwnFilters,
  Defaults   <- genDefaultFilters,
  Matches    <- [f \in OwnFilters |-> {x \in Packets : FilterMatches(f, x)}],
  Priority   <- [f \in OwnFilters |-> f.priority],
  Passes     <- {f \in OwnFilters : f.action = "pass"},
  Emitted    <- [f \in OwnFilters |-> Place(f)],
  Targets    <- {[qdisc |-> TRUE, filters |-> GenerateFromPolicyRuleSet(rules)] :
                   rules \in (SUBSET Rules) \cup {NoRules}},
  Found      <- {o \in [qdisc : BOOLEAN, filters : SUBSET OwnFilters] :
                   o.qdisc \/ o.filters = {}},
  kernel     <- [qdisc |-> qdisc, filters |-> FiltersRead]

\* What the generator makes of one verdict: a range of priorities of its own.
LEMMA VerdictFilters ==
  ASSUME NEW cidrs, NEW ports, NEW base \in Nat, NEW action
  PROVE  \A f \in genFilters(cidrs, ports, base, action) :
           f.action = action /\ f.priority \in base..(base + 2)
<1>1. \A protocol : PrioFromBaseAndProtcol(base, protocol) \in base..(base + 2)
  BY DEF PrioFromBaseAndProtcol
<1>2. \A protocol, vlan, d, p :
        LET f == [protocol |-> protocol,
                  priority |-> PrioFromBaseAndProtcol(base, protocol),
                  vlanEthType |-> vlan, dstIP |-> d, dstPort |-> p, action |-> action]
        IN  f.action = action /\ f.priority \in base..(base + 2)
  BY <1>1
<1> QED
  BY <1>2 DEF genFilters

LEMMA DefaultFilters ==
  ASSUME NEW x \in Packets
  PROVE  \E f \in genDefaultFilters : FilterMatches(f, x)
<1> DEFINE family == FamilyOf(x.dst)
           protocol == IF x.tagged THEN "802.1q" ELSE family
           f == [protocol |-> protocol,
                 priority |-> PrioFromBaseAndProtcol(BasePrioDefault, protocol),
                 vlanEthType |-> IF x.tagged THEN family ELSE Any,
                 dstIP |-> Any, dstPort |-> Any, action |-> "drop"]
<1>1. family \in FamiliesOf(Any)
  BY DEF FamiliesOf, FamilyOf, Families
<1>2. f \in genDefaultFilters
  <2> HIDE DEF family
  <2>1. CASE x.tagged
    BY <1>1, <2>1 DEF genDefaultFilters, genFilters
  <2>2. CASE ~x.tagged
    BY <1>1, <2>2 DEF genDefaultFilters, genFilters
  <2> QED
    BY <2>1, <2>2
<1>3. FilterMatches(f, x)
  BY DEF FilterMatches
<1> QED
  BY <1>2, <1>3

\* The generator's filters are as module Actuator assumes: the defaults drop
\* everything and come first, and a priority has one verdict.
THEOREM ActuatorFits == Own!ActuatorAssumption
<1> USE DEF BasePrioDefault, BasePrioPass, BasePrioDrop
<1>1. \A f \in genDefaultFilters : f.action = "drop" /\ f.priority \in 300..302
  BY VerdictFilters DEF genDefaultFilters
<1>2. \A r \in Rules :
        /\ \A f \in genPassFilters(r) : f.action = "pass" /\ f.priority \in 200..202
        /\ \A f \in genDropFilters(r) : f.action = "drop" /\ f.priority \in 100..102
  BY VerdictFilters DEF genPassFilters, genDropFilters
<1>3. ASSUME NEW rules \in SUBSET Rules, NEW f \in GenerateFromPolicyRuleSet(rules)
      PROVE  \/ f \in genDefaultFilters /\ f.action = "drop" /\ f.priority \in 300..302
             \/ f.action = "pass" /\ f.priority \in 200..202
             \/ f.action = "drop" /\ f.priority \in 100..102
  BY <1>1, <1>2, GeneratorAssumption DEF GenerateFromPolicyRuleSet
<1>4. \A f \in OwnFilters :
        \/ f \in genDefaultFilters /\ f.action = "drop" /\ f.priority \in 300..302
        \/ f.action = "pass" /\ f.priority \in 200..202
        \/ f.action = "drop" /\ f.priority \in 100..102
  BY <1>3 DEF OwnFilters
<1>5. genDefaultFilters \subseteq OwnFilters
  <2>1. GenerateFromPolicyRuleSet({}) = genDefaultFilters
    BY GeneratorAssumption DEF GenerateFromPolicyRuleSet
  <2> QED
    BY <2>1 DEF OwnFilters
<1>6. \A rules \in (SUBSET Rules) \cup {NoRules} : GenerateFromPolicyRuleSet(rules) \subseteq OwnFilters
  BY DEF OwnFilters, GenerateFromPolicyRuleSet
<1>7. \A x \in Packets : \E f \in genDefaultFilters :
        x \in [g \in OwnFilters |-> {y \in Packets : FilterMatches(g, y)}][f]
  BY <1>5, DefaultFilters
<1>8. /\ [f \in OwnFilters |-> f.priority] \in [OwnFilters -> Nat]
      /\ \A f, g \in OwnFilters : f.priority = g.priority => (f.action = "pass" <=> g.action = "pass")
  BY <1>4
<1>9. /\ [f \in OwnFilters |-> Place(f)] \in [OwnFilters -> Nat]
      /\ \A d \in genDefaultFilters, f \in OwnFilters \ genDefaultFilters : Place(d) < Place(f)
  BY <1>1, <1>4 DEF Place
<1>10. MaxChanges \in Nat /\ MaxAborts \in Nat
  BY DriverAssumption
<1>11. {[qdisc |-> TRUE, filters |-> GenerateFromPolicyRuleSet(rules)] :
          rules \in (SUBSET Rules) \cup {NoRules}} \subseteq Own!Objects
  <2>1. \A F \in SUBSET OwnFilters : [qdisc |-> TRUE, filters |-> F] \in Own!Objects
    BY DEF Own!Objects
  <2> QED
    BY <1>6, <2>1
<1> QED
  BY <1>1, <1>5, <1>7, <1>8, <1>9, <1>10, <1>11 DEF Own!ActuatorAssumption, Own!Objects

-----------------------------------------------------------------------------
LEMMA MaskedFields ==
  ASSUME NEW e, e = [x \in Names |-> e[x]]
  PROVE  Masked(e) = [x \in Names |->
           CASE x = "dstIP" -> IF e.dstIP \in Whole THEN Any ELSE e.dstIP
             [] x = "action" -> Any
             [] OTHER -> e[x]]
<1> DEFINE dst == IF e.dstIP \in Whole THEN Any ELSE e.dstIP
<1>1. Masked(e) = [e EXCEPT !["dstIP"] = dst, !["action"] = Any]
  BY DEF Masked
<1> HIDE DEF dst
<1>2. DOMAIN e = Names /\ {"dstIP", "action"} \subseteq Names
  BY DEF Names
<1>3. [e EXCEPT !["dstIP"] = dst, !["action"] = Any] =
        [x \in Names |-> CASE x = "dstIP" -> dst [] x = "action" -> Any [] OTHER -> e[x]]
  BY <1>2
<1> QED
  BY <1>1, <1>3 DEF dst

\* Of filters of the daemon that read alike the kernel takes only one.
LEMMA AlikeWritten ==
  ASSUME NEW d \in Drivers, NEW f \in Generable, NEW g \in Generable,
         Comparable(ReadingBy(d, WrittenBy(d, f))) = Comparable(ReadingBy(d, WrittenBy(d, g)))
  PROVE  f.priority = g.priority /\ Masked(WrittenBy(d, f)) = Masked(WrittenBy(d, g))
<1> DEFINE W(h) == WrittenBy(d, h)
           dst(h) == IF h.dstIP \in Whole THEN Any ELSE h.dstIP
<1>1. /\ f.protocol = g.protocol /\ f.priority = g.priority
      /\ f.vlanEthType = g.vlanEthType /\ dst(f) = dst(g) /\ f.action = g.action
      /\ W(f).ipProto = W(g).ipProto /\ W(f).dstPort = W(g).dstPort
  <2> DEFINE R(h) == [chain |-> 0, protocol |-> h.protocol, priority |-> h.priority,
                      vlanEthType |-> h.vlanEthType, dstIP |-> dst(h),
                      ipProto |-> W(h).ipProto, dstPort |-> W(h).dstPort, action |-> h.action]
  <2>1. R(f) = R(g)
    BY ReadingOfWritten
  <2> HIDE DEF W, dst
  <2> QED
    BY <2>1
<1>2. \A x \in Names \ {"dstIP"} : W(f)[x] = W(g)[x]
  <2>1. W(f).kind = W(g).kind /\ W(f).hidden = W(g).hidden
    BY DEF WrittenBy, flowerFilterToNlFlowerFilter, GenCmdLineArgs, Entry
  <2>2. W(f).ethType = W(g).ethType /\ W(f).vlanEthType = W(g).vlanEthType
    BY <1>1 DEF WrittenBy, flowerFilterToNlFlowerFilter, GenCmdLineArgs, FlowerFilter, Entry
  <2>3. W(f).protocol = W(g).protocol /\ W(f).priority = W(g).priority
        /\ W(f).action = W(g).action
    BY <1>1, WrittenShape
  <2> QED
    BY <1>1, <2>1, <2>2, <2>3 DEF Names
<1>3. dst(f) = (IF W(f).dstIP \in Whole THEN Any ELSE W(f).dstIP)
      /\ dst(g) = (IF W(g).dstIP \in Whole THEN Any ELSE W(g).dstIP)
  BY WrittenShape
<1>4. \A h \in {f, g} : Masked(W(h)) =
        [x \in Names |-> CASE x = "dstIP" -> dst(h) [] x = "action" -> Any
                           [] OTHER -> W(h)[x]]
  <2>1. W(f) = [x \in Names |-> W(f)[x]] /\ W(g) = [x \in Names |-> W(g)[x]]
    BY WrittenShape
  <2> HIDE DEF W, dst
  <2> QED
    BY <1>3, <2>1, MaskedFields
<1> HIDE DEF W, dst
<1>5. Masked(W(f)) = Masked(W(g))
  BY <1>1, <1>2, <1>4
<1> QED
  BY <1>1, <1>5 DEF W

-----------------------------------------------------------------------------
\* The daemon does not change its driver.
LEMMA SameDriver == [Next]_vars => driver' = driver
BY DEF Next, Change, Call, Actuate, QDiscList, QDiscDel, QDiscAdd, ChainList, ChainDel,
   FilterList, FilterDel, FilterAdd, Refused, Abort, Fail, vars

\* The listing has a filter under its first handle, and so all of them.
LEMMA ListingIsComplete == Base /\ Apart => ExistingFilterSet = Listed
BY DEF Base, KernelOK, Apart, ExistingFilterSet, Listed

LEMMA FewerApart ==
  ASSUME Apart, driver' = driver, entries' \subseteq entries, toAdd' \subseteq toAdd
  PROVE  Apart'
BY DEF Apart, Listed, Ours, Same, Reading, Written

LEMMA SameComplete ==
  ASSUME Complete, UNCHANGED <<driver, entries, target, toRemove, toAdd>>
  PROVE  Complete'
BY DEF Complete, Serves, Same, Reading, Written, Listed

\* What was found and reads like what is added reads like what is wanted.
LEMMA NotRefused ==
  ASSUME FoundApart, Base, Apart, NEW f \in toAdd, ~Refuses(Written(f)),
         NEW g \in Listed, Comparable(Reading(g)) = Comparable(Reading(Written(f)))
  PROVE  FALSE
<1>1. f \in Generable /\ target \in Targets /\ f \in target.filters
  BY TargetsGenerable DEF Base, TypeOK, NoObjects
<1>2. driver \in Drivers
  BY DEF Base, TypeOK
<1>3. CASE Ours(g)
  <2>1. PICK o \in Targets : \E k \in o.filters : Keys(g) = Written(k)
    BY <1>3 DEF Ours
  <2>2. PICK k \in o.filters : Keys(g) = Written(k)
    BY <2>1
  <2>3. k \in Generable
    BY <2>2, TargetsGenerable
  <2>4. Written(k) = [x \in Names |-> Written(k)[x]] /\ Written(k).priority = k.priority
    BY WrittenShape DEF Written
  <2>5. \A x \in Names : g[x] = Written(k)[x]
    BY <2>2, <2>4, KeysFields
  <2>6. Reading(g) = Reading(Written(k))
    BY <2>5, ReadingOfKeys DEF Reading
  <2>7. k.priority = f.priority /\ Masked(Written(k)) = Masked(Written(f))
    BY <1>1, <1>2, <2>3, <2>6, AlikeWritten DEF Reading, Written
  <2>8. g.priority = k.priority
    BY <2>4, <2>5 DEF Names
  <2>9. Written(f).priority = f.priority
    BY WrittenShape DEF Written
  <2> QED
    BY <2>2, <2>7, <2>8, <2>9 DEF Refuses, Listed
<1>4. CASE ~Ours(g)
  <2>1. PICK E \in Found : g \in E
    BY <1>4 DEF Apart
  <2>2. ~Exceptional(f)
    <3> SUFFICES ASSUME Exceptional(f) PROVE FALSE
      OBVIOUS
    <3>1. ~ Comparable(ReadingBy(driver, g)) = Comparable(ReadingBy(driver, WrittenBy(driver, f)))
      BY <1>1, <1>2, <2>1 DEF FoundApart, Exceptional, Listed
    <3> QED
      BY <3>1 DEF Reading, Written
  <2>3. Same(f, g)
    BY <1>1, <1>2, <2>2, RoundTrip DEF Same, Exceptional, Reading, Written
  <2> QED
    BY <1>4, <2>3 DEF Apart
<1> QED
  BY <1>3, <1>4

LEMMA InitIInv == FoundApart /\ Init => IInv
<1> SUFFICES ASSUME FoundApart, Init PROVE IInv
  OBVIOUS
<1>1. Base
  BY InitBase
<1>2. \A e \in Listed : e \in UNION Found
  BY DEF Init, Listed
<1>3. \A e, g \in Listed : Comparable(Reading(e)) = Comparable(Reading(g)) => e = g
  BY DEF Init, Listed, Reading, FoundApart
<1>4. toAdd = {} /\ ~ok /\ pc = "idle"
  BY DEF Init
<1> QED
  BY <1>1, <1>2, <1>3, <1>4 DEF IInv, Apart, Differences

\* An addition keeps the entries apart, and serves the filter added.
LEMMA AddIInv ==
  ASSUME FoundApart, IInv, Base', pc = "FilterAdd", NEW f \in toAdd, ~Refuses(Written(f)),
         NEW h, entries' = entries \cup {WithHandle(Written(f), h)},
         toAdd' = toAdd \ {f}, UNCHANGED <<driver, target, toRemove>>
  PROVE  Apart' /\ Complete'
<1> DEFINE w == WithHandle(Written(f), h)
<1> USE DEF IInv
<1>1. Keys(w) = Written(f) /\ w.kind = "flower" /\ Reading(w) = Reading(Written(f))
  BY AddedEntry
<1>2. f \in target.filters /\ target \in Targets
  BY DEF Base, TypeOK, NoObjects
<1>3. Ours(w)
  BY <1>1, <1>2 DEF Ours
<1>4. Listed' = Listed \cup {w}
  BY <1>1 DEF Listed
<1>5. \A g \in Listed : Comparable(Reading(g)) # Comparable(Reading(w))
  BY <1>1, NotRefused
<1>6. Apart'
  <2> HIDE DEF w
  <2>1. \A e : (Ours(e))' <=> Ours(e)
    BY DEF Ours, Written
  <2>2. \A e : (Reading(e))' = Reading(e)
    BY DEF Reading
  <2>3. \A k, e : (Same(k, e))' <=> Same(k, e)
    BY <2>2 DEF Same
  <2> QED
    BY <1>3, <1>4, <1>5, <2>1, <2>2, <2>3 DEF Apart
<1>7. Complete'
  <2> HIDE DEF w
  <2>1. toRemove = {} /\ toRemove' = {}
    BY DEF Base, Phases
  <2>2. \A k, e : (Serves(k, e))' <=> Serves(k, e)
    BY DEF Serves, Same, Reading, Written
  <2>3. Complete
    BY DEF Differences
  <2>4. Serves(f, w)
    BY <1>1 DEF Serves
  <2> QED
    BY <1>2, <1>4, <2>1, <2>2, <2>3, <2>4 DEF Complete
<1> QED
  BY <1>6, <1>7

LEMMA NextIInv == FoundApart /\ IInv /\ [Next]_vars => IInv'
<1> SUFFICES ASSUME FoundApart, IInv, [Next]_vars PROVE Apart' /\ Differences'
  BY NextBase DEF IInv
<1>1. driver' = driver /\ Base /\ Base' /\ Apart
  BY SameDriver, NextBase DEF IInv
<1> DEFINE Finished == pc \in {"FilterDel", "FilterAdd"} \/ (ok /\ target.qdisc)
<1>2. Finished => Complete
  BY DEF IInv, Differences
<1>3. Differences' <=> (Finished' => Complete')
  BY DEF Differences
<1>4. ASSUME UNCHANGED <<entries, target, toRemove, toAdd>>, Finished' => Finished
      PROVE  Apart' /\ Differences'
  BY <1>1, <1>2, <1>3, <1>4, FewerApart, SameComplete
<1>5. ASSUME entries' \subseteq entries, toAdd' \subseteq toAdd, ~Finished'
      PROVE  Apart' /\ Differences'
  BY <1>1, <1>3, <1>5, FewerApart
<1> USE DEF local
<1>6. CASE Change \/ UNCHANGED vars
  BY <1>4, <1>6 DEF Change, vars
<1>7. CASE Call
  BY <1>5, <1>7 DEF Call
<1>8. CASE QDiscList \/ QDiscDel \/ QDiscAdd
  <2>1. ~Finished'
    BY <1>1, <1>8 DEF QDiscList, QDiscDel, QDiscAdd, Return, Base, Phases
  <2> QED
    BY <1>5, <1>8, <2>1 DEF QDiscList, QDiscDel, QDiscAdd
<1>9. CASE ChainList \/ ChainDel
  <2>1. entries' \subseteq entries /\ toAdd' = toAdd /\ target' = target
    BY <1>9 DEF ChainList, ChainDel
  <2>2. Finished' => entries' = {}
    BY <1>1, <1>9 DEF ChainList, ChainDel, Return, Base, Phases
  <2>3. target'.filters = {}
    BY <1>1, <1>9, <2>1 DEF ChainList, ChainDel, Base, Phases
  <2>4. entries' = {} => Complete'
    BY <2>3 DEF Complete, Listed
  <2> QED
    BY <1>1, <1>3, <2>1, <2>2, <2>4, FewerApart
<1>10. CASE FilterList
  <2>1. UNCHANGED <<driver, entries, target>>
    BY <1>10 DEF FilterList
  <2>2. CASE Return /\ UNCHANGED <<toRemove, toAdd>>
            /\ {Comparable(FlowerFilter(f)) : f \in target.filters} = FiltersRead
    <3>1. toRemove = {} /\ toAdd = {}
      BY <1>1, <1>10 DEF FilterList, Base, Phases
    <3>2. Complete
      BY <2>2, <3>1 DEF Complete, Serves, Same, FiltersRead
    <3> QED
      BY <1>1, <1>3, <2>1, <2>2, <3>2, FewerApart, SameComplete
  <2>3. CASE /\ toRemove' = {e \in ExistingFilterSet : ~ \E f \in target.filters : Same(f, e)}
             /\ toAdd' = {f \in target.filters : ~ \E e \in Listed : Same(f, e)}
    <3>1. Listed' = Listed /\ \A f, e : (Same(f, e))' <=> Same(f, e)
      BY <2>1 DEF Listed, Same, Reading
    <3>2. \A e : (Ours(e))' <=> Ours(e)
      BY <2>1 DEF Ours, Written
    <3>3. \A e \in Listed' \ toRemove' : \E f \in target'.filters : Same(f, e)
      BY <1>1, <2>1, <2>3, <3>1, ListingIsComplete
    <3>4. \A f \in target'.filters \ toAdd' : \E e \in Listed' \ toRemove' : Same(f, e)
      BY <2>1, <2>3, <3>1
    <3>5. Complete'
      BY <3>1, <3>3, <3>4 DEF Complete, Serves
    <3>6. \A f \in toAdd', e \in Listed' : ~Same(f, e)
      BY <2>3, <3>1
    <3>7. \A e : (Reading(e))' = Reading(e)
      BY <2>1 DEF Reading
    <3> QED
      BY <1>1, <1>3, <3>1, <3>2, <3>5, <3>6, <3>7 DEF Apart
  <2> QED
    BY <1>10, <2>2, <2>3 DEF FilterList
<1>11. CASE FilterDel
  <2>1. pc = "FilterDel" /\ UNCHANGED <<driver, target, toAdd>> /\ Complete
    BY <1>2, <1>11 DEF FilterDel
  <2>2. CASE UNCHANGED <<entries, toRemove>>
    BY <1>4, <2>1, <2>2
  <2>3. ASSUME NEW r \in toRemove, toRemove' = toRemove \ {r},
               entries' = {g \in entries : g.priority # r.priority \/ g.handle # r.handle}
        PROVE  Apart' /\ Differences'
    <3>1. entries' = entries \ {r}
      BY <1>1, <2>3 DEF Base, TypeOK
    <3>2. Listed' \ toRemove' = Listed \ toRemove
      BY <2>3, <3>1 DEF Listed
    <3>3. \A f, e : (Serves(f, e))' <=> Serves(f, e)
      BY <2>1 DEF Serves, Same, Reading, Written
    <3>4. Complete'
      BY <2>1, <3>2, <3>3 DEF Complete
    <3> QED
      BY <1>1, <1>3, <2>1, <3>1, <3>4, FewerApart
  <2> QED
    BY <1>11, <2>2, <2>3 DEF FilterDel
<1>12. CASE FilterAdd
  <2>1. pc = "FilterAdd" /\ UNCHANGED <<driver, target, toRemove>>
    BY <1>12 DEF FilterAdd
  <2>2. CASE UNCHANGED <<entries, toAdd>>
    BY <1>4, <2>1, <2>2
  <2>3. ASSUME NEW f \in NextToAdd, ~Refuses(Written(f)), toAdd' = toAdd \ {f},
               entries' = entries \cup {WithHandle(Written(f), FreeHandle(f.priority))}
        PROVE  Apart' /\ Differences'
    <3>1. f \in toAdd
      BY DEF NextToAdd
    <3> QED
      BY <1>1, <1>3, <2>1, <2>3, <3>1, AddIInv
  <2> QED
    BY <1>12, <2>2, <2>3 DEF FilterAdd
<1>13. CASE Refused \/ Abort
  <2>1. Fail /\ ~ok
    BY <1>1, <1>13 DEF Refused, Abort, Base, Phases
  <2> QED
    BY <1>5, <2>1 DEF Fail
<1> QED
  BY <1>6, <1>7, <1>8, <1>9, <1>10, <1>11, <1>12, <1>13 DEF Next, Actuate

LEMMA ApartInvariance ==
  ASSUME FoundApart
  PROVE  Spec => []IInv
BY FoundApart, InitIInv, NextIInv, PTL DEF Spec

-----------------------------------------------------------------------------
\* A filter of the kernel matches packets as the one it serves says, if it
\* reads like it (what is not read does not contradict what is, Agree) ...
LEMMA ReadAlikeMatches ==
  ASSUME NEW d \in Drivers, NEW f \in Generable, NEW e, e.kind = "flower", Agree(e),
         Comparable(FlowerFilter(f)) = Comparable(ReadingBy(d, e)), NEW x \in Packets
  PROVE  /\ EntryMatches(e, x) <=> FilterMatches(f, x)
         /\ e.priority = f.priority
         /\ e.action = "pass" <=> f.action = "pass"
<1> USE DriverAssumption, GeneratorAssumption
<1>1. PICK v : ReadingBy(d, e) = Read(e, v)
               /\ v = IF d = "netlink"
                      THEN IF e.protocol = "802.1q" THEN Known(e.ethType, Families) ELSE Any
                      ELSE Known(e.vlanEthType, Families \cup {Any})
  BY DEF ReadingBy, nlFlowerFilterToFlowerFilter, cFilterToFlowerFilter
<1>2. [FlowerFilter(f) EXCEPT !.chain = 0] = Read(e, v)
  BY <1>1, ComparableFields
<1>3. /\ f.protocol = Known(e.protocol, FilterProtocols) /\ f.priority = e.priority
      /\ f.vlanEthType = v /\ f.dstIP = (IF e.dstIP \in Whole THEN Any ELSE e.dstIP)
      /\ FlowerFilter(f).ipProto = Known(e.ipProto, {Any, "tcp", "udp"})
      /\ FlowerFilter(f).dstPort = e.dstPort
      /\ f.action = (IF e.action \in ControlActions THEN e.action ELSE Any)
  BY <1>2 DEF FlowerFilter, Read
<1>4. /\ f.protocol \in FilterProtocols /\ f.action \in {"pass", "drop"}
      /\ f.vlanEthType \in {Any} \cup Families
      /\ f.protocol = "802.1q" <=> f.vlanEthType # Any
      /\ f.dstPort # Any => f.dstPort.protocol \in {"tcp", "udp"} /\ f.dstPort.number \in Numbers
  BY GenerableFields
<1>5. e.protocol = f.protocol
  BY <1>3, <1>4 DEF Known
<1>6. e.action = "pass" <=> f.action = "pass"
  BY <1>3, <1>4 DEF ControlActions
<1>7. e.ipProto = FlowerFilter(f).ipProto
  <2>1. FlowerFilter(f).ipProto \in {Any, "tcp", "udp"}
    BY <1>4 DEF FlowerFilter
  <2> QED
    BY <1>3, <2>1 DEF Known
<1>8. /\ e.ipProto # Any => e.ipProto = x.port.protocol
      /\ e.dstPort # Any => e.dstPort = x.port.number
      <=> (f.dstPort # Any => f.dstPort = x.port)
  <2>1. CASE f.dstPort = Any
    BY <1>3, <1>7, <2>1 DEF FlowerFilter
  <2>2. CASE f.dstPort # Any
    <3>1. f.dstPort \in Ports /\ x.port \in [protocol : {"tcp", "udp", "sctp"}, number : Numbers]
      BY <2>2 DEF Generable, Filters, Packets
    <3>2. f.dstPort = x.port <=>
            f.dstPort.protocol = x.port.protocol /\ f.dstPort.number = x.port.number
      BY <3>1 DEF Ports
    <3>3. e.ipProto = f.dstPort.protocol /\ e.dstPort = f.dstPort.number
      BY <1>3, <1>7, <2>2 DEF FlowerFilter
    <3> QED
      BY <1>4, <2>2, <3>2, <3>3
  <2> QED
    BY <2>1, <2>2
<1>9. PICK t \in Families :
        /\ t = IF f.protocol = "802.1q" THEN f.vlanEthType ELSE f.protocol
        /\ t \in {e.ethType, e.vlanEthType}
  <2>1. CASE f.protocol = "802.1q" /\ d = "netlink"
    BY <1>1, <1>3, <1>4, <1>5, <2>1 DEF Known, FilterProtocols
  <2>2. CASE f.protocol = "802.1q" /\ d = "cmdline"
    BY <1>1, <1>3, <1>4, <1>5, <2>2 DEF Known, FilterProtocols, Drivers
  <2>3. CASE f.protocol # "802.1q"
    BY <1>4, <1>5, <2>3 DEF Agree, FilterProtocols
  <2> QED
    BY <2>1, <2>2, <2>3 DEF Drivers
<1>10. e.ethType \in {t, "802.1q"} /\ e.vlanEthType \in {t, Any} /\ t \in FamiliesOf(e.dstIP)
       /\ (f.protocol # "802.1q" => e.ethType = t)
  BY <1>4, <1>5, <1>9 DEF Agree, FilterProtocols
<1>11. FamilyOf(x.dst) \in Families /\ x.dst \in Addresses
  BY DEF FamilyOf, Families, Packets
<1>12. /\ e.protocol = IF x.tagged THEN "802.1q" ELSE FamilyOf(x.dst)
       /\ e.ethType \in {"802.1q", FamilyOf(x.dst)}
       /\ e.vlanEthType \in {Any, FamilyOf(x.dst)}
       <=> t = FamilyOf(x.dst) /\ (x.tagged <=> f.protocol = "802.1q")
  BY <1>4, <1>5, <1>9, <1>10, <1>11 DEF Families, FilterProtocols
<1>13. (IF x.tagged THEN f.protocol = "802.1q" /\ f.vlanEthType \in {Any, FamilyOf(x.dst)}
                    ELSE f.protocol = FamilyOf(x.dst))
       <=> t = FamilyOf(x.dst) /\ (x.tagged <=> f.protocol = "802.1q")
  BY <1>4, <1>9, <1>11 DEF Families, FilterProtocols
<1>14. t = FamilyOf(x.dst) => ((e.dstIP # Any => x.dst \in e.dstIP) <=> (f.dstIP # Any => x.dst \in f.dstIP))
  <2>1. CASE e.dstIP \notin Whole
    BY <1>3, <2>1
  <2>2. CASE e.dstIP \in Whole
    <3> SUFFICES ASSUME t = FamilyOf(x.dst) PROVE x.dst \in e.dstIP
      BY <1>3, <2>2
    <3>1. e.dstIP # {} /\ e.dstIP # Any
      BY <2>2 DEF Cidrs
    <3>2. CASE e.dstIP = Addresses4
      BY <1>10, <1>11, <3>1, <3>2 DEF FamiliesOf, FamilyOf, Addresses
    <3>3. CASE e.dstIP = Addresses6
      BY <1>10, <1>11, <3>1, <3>3 DEF FamiliesOf, FamilyOf, Addresses
    <3> QED
      BY <2>2, <3>2, <3>3
  <2> QED
    BY <2>1, <2>2
<1> QED
  BY <1>3, <1>6, <1>8, <1>12, <1>13, <1>14 DEF EntryMatches, FilterMatches

\* ... or was written for it, port 0 through netlink apart.
LEMMA WrittenMatches ==
  ASSUME NEW d \in Drivers, NEW f \in Generable,
         d = "netlink" => (f.dstPort # Any => f.dstPort.number # 0),
         NEW e, Keys(e) = WrittenBy(d, f), NEW x \in Packets
  PROVE  /\ EntryMatches(e, x) <=> FilterMatches(f, x)
         /\ e.priority = f.priority
         /\ e.action = "pass" <=> f.action = "pass"
<1> DEFINE w == WrittenBy(d, f)
<1> USE DriverAssumption, GeneratorAssumption
<1>1. \A y \in Names : e[y] = w[y]
  BY WrittenShape, KeysFields
<1>2. /\ e.protocol = w.protocol /\ e.priority = w.priority /\ e.ethType = w.ethType
      /\ e.vlanEthType = w.vlanEthType /\ e.dstIP = w.dstIP /\ e.ipProto = w.ipProto
      /\ e.dstPort = w.dstPort /\ e.action = w.action
  BY <1>1 DEF Names
<1>3. /\ e.protocol = f.protocol /\ e.priority = f.priority
      /\ e.dstIP = f.dstIP /\ e.action = f.action
      /\ e.ipProto = IF f.dstPort = Any THEN Any ELSE f.dstPort.protocol
  BY <1>2, WrittenShape
<1>4. e.dstPort = IF f.dstPort = Any THEN Any ELSE f.dstPort.number
  BY <1>2 DEF Drivers, WrittenBy, GenCmdLineArgs, FlowerFilter, Entry,
     flowerFilterToNlFlowerFilter
<1>5. /\ f.protocol \in FilterProtocols
      /\ f.vlanEthType \in {Any} \cup Families
      /\ f.protocol = "802.1q" <=> f.vlanEthType # Any
      /\ f.dstPort # Any => f.dstPort.protocol \in {"tcp", "udp"} /\ f.dstPort.number \in Numbers
  BY GenerableFields
<1>6. \/ e.ethType = (IF f.vlanEthType = Any THEN f.protocol ELSE f.vlanEthType) /\ e.vlanEthType = Any
      \/ e.ethType = f.protocol /\ e.vlanEthType = f.vlanEthType
  BY <1>2 DEF Drivers, WrittenBy, GenCmdLineArgs, FlowerFilter, Entry,
     flowerFilterToNlFlowerFilter
<1>7. /\ e.ipProto # Any => e.ipProto = x.port.protocol
      /\ e.dstPort # Any => e.dstPort = x.port.number
      <=> (f.dstPort # Any => f.dstPort = x.port)
  <2>1. CASE f.dstPort = Any
    BY <1>3, <1>4, <2>1
  <2>2. CASE f.dstPort # Any
    <3>1. f.dstPort \in Ports /\ x.port \in [protocol : {"tcp", "udp", "sctp"}, number : Numbers]
      BY <2>2 DEF Generable, Filters, Packets
    <3>2. f.dstPort = x.port <=>
            f.dstPort.protocol = x.port.protocol /\ f.dstPort.number = x.port.number
      BY <3>1 DEF Ports
    <3> QED
      BY <1>3, <1>4, <1>5, <2>2, <3>2
  <2> QED
    BY <2>1, <2>2
<1>8. FamilyOf(x.dst) \in Families
  BY DEF FamilyOf, Families
<1>9. /\ e.protocol = IF x.tagged THEN "802.1q" ELSE FamilyOf(x.dst)
      /\ e.ethType \in {"802.1q", FamilyOf(x.dst)}
      /\ e.vlanEthType \in {Any, FamilyOf(x.dst)}
      <=> (IF x.tagged THEN f.protocol = "802.1q" /\ f.vlanEthType \in {Any, FamilyOf(x.dst)}
                       ELSE f.protocol = FamilyOf(x.dst))
  BY <1>3, <1>5, <1>6, <1>8 DEF Families, FilterProtocols
<1> QED
  BY <1>3, <1>7, <1>9 DEF EntryMatches, FilterMatches

\* Two sets of filters that correspond to each other admit the same packets.
LEMMA SuccessEnforces == IInv => SuccessIsEnforced
<1> SUFFICES ASSUME IInv, ok, pc = "idle", target.qdisc,
                    \A e \in entries : e.kind = "flower" /\ ~e.hidden,
                    driver = "netlink" =>
                      \A f \in target.filters : f.dstPort # Any => f.dstPort.number # 0,
                    NEW x \in Packets
             PROVE  x \in EntriesAdmit <=> x \in Admits(target.filters)
  BY DEF SuccessIsEnforced, EntriesAdmit, Admits
<1>1. Base /\ Complete
  BY DEF IInv, Differences
<1>2. driver \in Drivers /\ target.filters \subseteq Generable
  BY <1>1, TargetsGenerable DEF Base, TypeOK
<1>3. Listed = entries /\ toRemove = {} /\ toAdd = {}
  BY <1>1 DEF Listed, Base, Phases
<1>4. ASSUME NEW f \in target.filters, NEW e \in entries, Serves(f, e)
      PROVE  /\ EntryMatches(e, x) <=> FilterMatches(f, x)
             /\ e.priority = f.priority
             /\ e.action = "pass" <=> f.action = "pass"
  <2>1. CASE Same(f, e)
    BY <1>1, <1>2, <2>1, ReadAlikeMatches DEF Same, Reading, Base, KernelOK
  <2>2. CASE Keys(e) = Written(f)
    BY <1>2, <2>2, WrittenMatches DEF Written
  <2> QED
    BY <1>4, <2>1, <2>2 DEF Serves
<1>5. \A e \in entries : \E f \in target.filters : Serves(f, e)
  BY <1>1, <1>3 DEF Complete
<1>6. \A f \in target.filters : \E e \in entries : Serves(f, e)
  BY <1>1, <1>3 DEF Complete
<1> DEFINE M == {e \in entries : EntryMatches(e, x)}
           N == {f \in target.filters : FilterMatches(f, x)}
<1>7. \A e \in M : \E f \in N : e.priority = f.priority /\ (e.action = "pass" <=> f.action = "pass")
  BY <1>4, <1>5
<1>8. \A f \in N : \E e \in M : e.priority = f.priority /\ (e.action = "pass" <=> f.action = "pass")
  BY <1>4, <1>6
<1>9. x \in EntriesAdmit <=>
        M = {} \/ \E e \in M : e.action = "pass" /\ \A g \in M : e.priority <= g.priority
  BY DEF EntriesAdmit
<1>10. x \in Admits(target.filters) <=>
        N = {} \/ \E f \in N : f.action = "pass" /\ \A g \in N : f.priority <= g.priority
  BY DEF Admits
<1> HIDE DEF M, N
<1> QED
  BY <1>7, <1>8, <1>9, <1>10

\* After nil the kernel lets out what the generated filters say, whatever was
\* found, if the filters found could be told apart: then no two filters read
\* alike ever (the kernel refuses those of the daemon that would), so that what
\* Actuate has not removed serves the target.
THEOREM SuccessEnforced ==
  ASSUME FoundApart
  PROVE  Spec => []SuccessIsEnforced
BY FoundApart, ApartInvariance, SuccessEnforces, PTL

-----------------------------------------------------------------------------
\* The refinement: what the actuator sees of the filters.

Element(f) == Comparable(FlowerFilter(f))

ElementOf(e) == Comparable(Reading(e))

Removing == {ElementOf(e) : e \in toRemove}

Adding == {Element(f) : f \in toAdd}

LEMMA ElementRecord ==
  ASSUME NEW f
  PROVE  Element(f) =
           [chain |-> 0, protocol |-> f.protocol, priority |-> f.priority,
            vlanEthType |-> f.vlanEthType, dstIP |-> f.dstIP,
            ipProto |-> FlowerFilter(f).ipProto, dstPort |-> FlowerFilter(f).dstPort,
            action |-> f.action]
<1> DEFINE ipProto == FlowerFilter(f).ipProto
           dstPort == FlowerFilter(f).dstPort
<1>1. FlowerFilter(f) =
        [chain |-> Any, protocol |-> f.protocol, priority |-> f.priority,
         vlanEthType |-> f.vlanEthType, dstIP |-> f.dstIP,
         ipProto |-> ipProto, dstPort |-> dstPort, action |-> f.action]
  BY DEF FlowerFilter
<1> HIDE DEF ipProto, dstPort
<1>2. [FlowerFilter(f) EXCEPT !.chain = 0] =
        [chain |-> 0, protocol |-> f.protocol, priority |-> f.priority,
         vlanEthType |-> f.vlanEthType, dstIP |-> f.dstIP,
         ipProto |-> ipProto, dstPort |-> dstPort, action |-> f.action]
  BY <1>1
<1> QED
  BY <1>2, ComparableFields DEF Element, ipProto, dstPort

\* Equals tells the generator's filters apart.
LEMMA ElementsDiffer ==
  ASSUME NEW f \in Generable, NEW g \in Generable, Element(f) = Element(g)
  PROVE  f = g
<1>1. PICK i, p, j, q : i = FlowerFilter(f).ipProto /\ p = FlowerFilter(f).dstPort
                     /\ j = FlowerFilter(g).ipProto /\ q = FlowerFilter(g).dstPort
  OBVIOUS
<1>2. /\ f.protocol = g.protocol /\ f.priority = g.priority /\ f.vlanEthType = g.vlanEthType
      /\ f.dstIP = g.dstIP /\ f.action = g.action /\ i = j /\ p = q
  BY <1>1, ElementRecord
<1>3. f.dstPort = g.dstPort
  <2>1. \A h \in Generable : h.dstPort # Any => h.dstPort \in Ports /\ h.dstPort.protocol # Any
    BY DriverAssumption DEF Generable, Filters, Ports
  <2>2. /\ i = (IF f.dstPort = Any THEN Any ELSE f.dstPort.protocol)
        /\ j = (IF g.dstPort = Any THEN Any ELSE g.dstPort.protocol)
        /\ p = (IF f.dstPort = Any THEN Any ELSE f.dstPort.number)
        /\ q = (IF g.dstPort = Any THEN Any ELSE g.dstPort.number)
    BY <1>1 DEF FlowerFilter
  <2>3. f.dstPort = Any <=> g.dstPort = Any
    BY <1>2, <2>1, <2>2
  <2>4. CASE f.dstPort # Any
    <3>1. f.dstPort \in Ports /\ g.dstPort \in Ports
      BY <2>1, <2>3, <2>4
    <3>2. f.dstPort.protocol = g.dstPort.protocol /\ f.dstPort.number = g.dstPort.number
      BY <1>2, <2>2, <2>3, <2>4
    <3> QED
      BY <3>1, <3>2 DEF Ports
  <2> QED
    BY <2>3, <2>4
<1>4. f \in Filters /\ g \in Filters
  BY DEF Generable
<1> QED
  BY <1>2, <1>3, <1>4 DEF Filters

LEMMA ElementFields ==
  ASSUME NEW f, NEW e
  PROVE  /\ Element(f).priority = f.priority
         /\ ElementOf(e).priority = e.priority
<1>1. Element(f).priority = f.priority
  BY ElementRecord
<1>2. \A v : Read(e, v).priority = e.priority
  BY DEF Read
<1>3. \E v : Reading(e) = Read(e, v)
  BY DEF Reading, ReadingBy, nlFlowerFilterToFlowerFilter, cFilterToFlowerFilter
<1> QED
  BY <1>1, <1>2, <1>3, ComparableFields DEF ElementOf

\* The elements are among those the actuator's model was given.
LEMMA WantedElements == \A o \in Targets : \A f \in o.filters : Element(f) \in AllFilters
BY DEF Element, AllFilters

LEMMA ListedElements ==
  ASSUME NEW e, e \in UNION Found \/ Ours(e)
  PROVE  ElementOf(e) \in AllFilters
<1> DEFINE wantable == {FlowerFilter(f) : f \in UNION {o.filters : o \in Targets}}
           stored == (UNION Found) \cup {flowerFilterToNlFlowerFilter(f) : f \in wantable}
                                 \cup {GenCmdLineArgs(f) : f \in wantable}
<1>1. \A g \in stored : \A v \in Families \cup {Any, Other} : Comparable(Read(g, v)) \in AllFilters
  BY DEF AllFilters
<1>2. \A g : \E v \in Families \cup {Any, Other} : Reading(g) = Read(g, v)
  BY DEF Reading, ReadingBy, nlFlowerFilterToFlowerFilter, cFilterToFlowerFilter, Known
<1>3. \E g \in stored : Reading(e) = Reading(g)
  <2>1. CASE e \in UNION Found
    BY <2>1
  <2>2. CASE Ours(e)
    <3>1. PICK o \in Targets : \E f \in o.filters : Keys(e) = Written(f)
      BY <2>2 DEF Ours
    <3>2. PICK f \in o.filters : Keys(e) = Written(f)
      BY <3>1
    <3>3. Written(f) \in stored
      <4>1. FlowerFilter(f) \in wantable
        OBVIOUS
      <4> HIDE DEF wantable
      <4>2. /\ flowerFilterToNlFlowerFilter(FlowerFilter(f)) \in stored
            /\ GenCmdLineArgs(FlowerFilter(f)) \in stored
        BY <4>1
      <4> HIDE DEF stored
      <4> QED
        BY <4>2 DEF Written, WrittenBy
    <3>4. Written(f) = [x \in Names |-> Written(f)[x]]
      BY WrittenShape DEF Written
    <3>5. Reading(e) = Reading(Written(f))
      BY <3>2, <3>4, KeysFields, ReadingOfKeys DEF Reading
    <3> QED
      BY <3>3, <3>5
  <2> QED
    BY <2>1, <2>2
<1> QED
  BY <1>1, <1>2, <1>3 DEF ElementOf

LEMMA InitRefines == Init => Actuation!Init
<1> SUFFICES ASSUME Init PROVE Actuation!Init
  OBVIOUS
<1>1. FiltersRead \in SUBSET AllFilters
  BY ListedElements DEF Init, FiltersRead, ElementOf, Listed
<1>2. Abstract(target) = Actuation!NoObjects
  BY DEF Init, Abstract, NoObjects, Actuation!NoObjects
<1> QED
  BY <1>1, <1>2 DEF Init, Actuation!Init

\* Between calls of the listing nothing but these matter.
LEMMA Empties ==
  /\ \A o : Abstract(o).qdisc = o.qdisc /\ (Abstract(o).filters = {} <=> o.filters = {})
  /\ \A o : Abstract(o).filters = {Element(f) : f \in o.filters}
  /\ entries = {} => FiltersRead = {}
  /\ toRemove = {} <=> Removing = {}
  /\ toAdd = {} <=> Adding = {}
BY DEF Abstract, Element, FiltersRead, Listed, Removing, Adding

\* The differences between the filter sets are those of their elements.
LEMMA ListRefines ==
  ASSUME IInv, FilterList
  PROVE  Actuation!FilterList
<1>1. Base /\ Apart /\ toRemove = {} /\ toAdd = {}
  BY DEF IInv, FilterList, Base, Phases
<1>2. UNCHANGED <<driver, qdisc, entries, wanted, target, start, changes, aborts>>
      /\ pc = "FilterList"
  BY DEF FilterList
<1>3. FiltersRead' = FiltersRead /\ Abstract(target)' = Abstract(target)
      /\ Abstract(wanted)' = Abstract(wanted)
  BY <1>2 DEF FiltersRead, Listed, Reading, Abstract
<1>4. Abstract(target).filters = {Element(f) : f \in target.filters}
  BY Empties
<1>5. CASE {Element(f) : f \in target.filters} = FiltersRead
  <2>1. Return /\ UNCHANGED <<toRemove, toAdd>>
    BY <1>5 DEF FilterList, Element
  <2>2. Removing' = Removing /\ Adding' = Adding
    BY <1>2, <2>1 DEF Removing, Adding, ElementOf, Reading
  <2> QED
    BY <1>2, <1>3, <1>4, <1>5, <2>1, <2>2
    DEF Return, Actuation!FilterList, Actuation!Return, Actuation!counters, Removing, Adding, Element, ElementOf
<1>6. CASE {Element(f) : f \in target.filters} # FiltersRead
  <2>1. /\ toRemove' = {e \in Listed : ~ \E f \in target.filters : Element(f) = ElementOf(e)}
        /\ toAdd' = {f \in target.filters : ~ \E e \in Listed : Element(f) = ElementOf(e)}
        /\ pc' = "FilterDel"
        /\ UNCHANGED ok
    BY <1>1, <1>6, ListingIsComplete DEF FilterList, Element, ElementOf, Same
  <2>2. FiltersRead = {ElementOf(e) : e \in Listed}
    BY DEF FiltersRead, ElementOf
  <2>3. \A e : (ElementOf(e))' = ElementOf(e)
    BY <1>2 DEF ElementOf, Reading
  <2>4. Removing' = FiltersRead \ {Element(f) : f \in target.filters}
    BY <2>1, <2>2, <2>3 DEF Removing
  <2>5. Adding' = {Element(f) : f \in target.filters} \ FiltersRead
    BY <2>1, <2>2 DEF Adding
  <2> QED
    BY <1>2, <1>3, <1>4, <1>6, <2>1, <2>4, <2>5
    DEF Actuation!FilterList, Actuation!counters, Removing, Adding, Element, ElementOf
<1> QED
  BY <1>5, <1>6

\* The removal of an entry is that of its element: there is no other like it.
LEMMA DelRefines ==
  ASSUME IInv, FilterDel
  PROVE  Actuation!FilterDel
<1> DEFINE kernel == [qdisc |-> qdisc, filters |-> FiltersRead]
<1>1. Base /\ Apart
  BY DEF IInv
<1>2. UNCHANGED <<driver, qdisc, wanted, target, toAdd, ok, start, changes, aborts>>
      /\ pc = "FilterDel"
  BY DEF FilterDel
<1>3. \A e : (ElementOf(e))' = ElementOf(e)
  BY <1>2 DEF ElementOf, Reading
<1>4. Adding' = Adding /\ Abstract(target)' = Abstract(target) /\ Abstract(wanted)' = Abstract(wanted)
  BY <1>2 DEF Adding, Abstract
<1>5. FiltersRead = {ElementOf(e) : e \in Listed} /\ FiltersRead' = {ElementOf(e) : e \in Listed'}
  BY <1>3 DEF FiltersRead, ElementOf
<1>6. Removing' = {ElementOf(e) : e \in toRemove'}
  BY <1>3 DEF Removing
<1>7. CASE toRemove = {} /\ pc' = "FilterAdd" /\ UNCHANGED <<entries, toRemove>>
  <2>1. FiltersRead' = FiltersRead /\ Removing = {} /\ Removing' = Removing
    BY <1>5, <1>6, <1>7 DEF Listed, Removing
  <2> QED
    BY <1>2, <1>4, <1>7, <2>1 DEF Actuation!FilterDel, Actuation!counters, Removing, Adding, Element, ElementOf
<1>8. ASSUME NEW r \in toRemove, \A g \in toRemove : r.priority <= g.priority,
             toRemove' = toRemove \ {r},
             entries' = {g \in entries : g.priority # r.priority \/ g.handle # r.handle},
             UNCHANGED pc
      PROVE  Actuation!FilterDel
  <2>1. entries' = entries \ {r} /\ r \in Listed /\ toRemove \subseteq Listed
    BY <1>1, <1>8 DEF Base, TypeOK, RemovesUnwanted, Listed
  <2>2. \A e \in Listed : ElementOf(e) = ElementOf(r) => e = r
    BY <1>1, <2>1 DEF Apart, ElementOf
  <2>3. FiltersRead' = FiltersRead \ {ElementOf(r)}
    BY <1>5, <2>1, <2>2 DEF Listed
  <2>4. Removing' = Removing \ {ElementOf(r)}
    BY <1>6, <1>8, <2>1, <2>2 DEF Removing
  <2>5. \A e \in toRemove : ElementOf(e) \in AllFilters /\ ElementOf(e).priority = e.priority
    BY <1>1, <2>1, ListedElements, ElementFields DEF Apart
  <2>6. ElementOf(r) \in Actuation!FirstOf(Removing, [f \in AllFilters |-> f.priority])
    BY <1>8, <2>5 DEF Actuation!FirstOf, Removing
  <2>7. kernel' = [kernel EXCEPT !.filters = @ \ {ElementOf(r)}]
    BY <1>2, <2>3
  <2>8. \E c \in Actuation!FirstOf(Removing, [f \in AllFilters |-> f.priority]) :
          kernel' = [kernel EXCEPT !.filters = @ \ {c}] /\ Removing' = Removing \ {c}
    BY <2>4, <2>6, <2>7
  <2> QED
    BY <1>2, <1>4, <1>8, <2>8
    DEF Actuation!FilterDel, Actuation!counters, Removing, Adding, Element, ElementOf
<1> QED
  BY <1>7, <1>8 DEF FilterDel

\* The addition of a filter that reads back is that of its element.
LEMMA AddRefines ==
  ASSUME IInv, FilterAdd, \A f \in target.filters : ReadsBack(f)
  PROVE  Actuation!FilterAdd
<1> DEFINE kernel == [qdisc |-> qdisc, filters |-> FiltersRead]
<1>1. Base
  BY DEF IInv
<1>2. UNCHANGED <<driver, qdisc, wanted, target, toRemove, start, changes, aborts>>
      /\ pc = "FilterAdd"
  BY DEF FilterAdd
<1>3. \A e : (ElementOf(e))' = ElementOf(e)
  BY <1>2 DEF ElementOf, Reading
<1>4. Removing' = Removing /\ Abstract(target)' = Abstract(target) /\ Abstract(wanted)' = Abstract(wanted)
  BY <1>2, <1>3 DEF Removing, Abstract
<1>5. FiltersRead = {ElementOf(e) : e \in Listed} /\ FiltersRead' = {ElementOf(e) : e \in Listed'}
  BY <1>3 DEF FiltersRead, ElementOf
<1>6. CASE toAdd = {} /\ Return /\ UNCHANGED <<entries, toAdd>>
  <2>1. FiltersRead' = FiltersRead /\ Adding = {} /\ Adding' = Adding
    BY <1>5, <1>6 DEF Listed, Adding
  <2> QED
    BY <1>2, <1>4, <1>6, <2>1
    DEF Return, Actuation!Return, Actuation!FilterAdd, Actuation!counters, Removing, Adding, Element, ElementOf
<1>7. ASSUME NEW f \in NextToAdd, toAdd' = toAdd \ {f},
             entries' = entries \cup {WithHandle(Written(f), FreeHandle(f.priority))},
             UNCHANGED <<pc, ok>>
      PROVE  Actuation!FilterAdd
  <2>1. f \in toAdd /\ toAdd \subseteq target.filters /\ target \in Targets
    BY <1>1, <1>7 DEF NextToAdd, Base, TypeOK, NoObjects
  <2>2. toAdd \subseteq Generable
    BY <2>1, TargetsGenerable
  <2> DEFINE w == WithHandle(Written(f), FreeHandle(f.priority))
  <2>3. w.kind = "flower" /\ ElementOf(w) = Element(f)
    BY <2>1, AddedEntry DEF ReadsBack, Same, Element, ElementOf
  <2>4. FiltersRead' = FiltersRead \cup {Element(f)}
    <3> HIDE DEF w
    <3>1. Listed' = Listed \cup {w}
      BY <1>7, <2>3 DEF Listed, w
    <3> QED
      BY <1>5, <2>3, <3>1
  <2>5. Adding' = Adding \ {Element(f)}
    BY <1>7, <2>1, <2>2, ElementsDiffer DEF Adding
  <2>6. \A g \in toAdd : Element(g) \in AllFilters /\ Place(Element(g)) = Place(g)
    BY <2>1, WantedElements, ElementFields DEF Place
  <2>7. Element(f) \in Actuation!FirstOf(Adding, [g \in AllFilters |-> Place(g)])
    BY <1>7, <2>6 DEF Actuation!FirstOf, Adding, NextToAdd
  <2>8. kernel' = [kernel EXCEPT !.filters = @ \cup {Element(f)}]
    BY <1>2, <2>4
  <2>9. \E c \in Actuation!FirstOf(Adding, [g \in AllFilters |-> Place(g)]) :
          kernel' = [kernel EXCEPT !.filters = @ \cup {c}] /\ Adding' = Adding \ {c}
    BY <2>5, <2>7, <2>8
  <2> QED
    BY <1>2, <1>4, <1>7, <2>9
    DEF Actuation!FilterAdd, Actuation!counters, Removing, Adding, Element, ElementOf
<1> QED
  BY <1>6, <1>7 DEF FilterAdd

LEMMA NextRefines ==
  ASSUME IInv, [Next]_vars
  PROVE  [\/ Refused
          \/ \E f \in target.filters : ~ReadsBack(f)
          \/ Actuation!Next]_(Actuation!vars)
<1> DEFINE kernel == [qdisc |-> qdisc, filters |-> FiltersRead]
<1>1. Base /\ driver' = driver
  BY SameDriver DEF IInv
<1>2. UNCHANGED entries => FiltersRead' = FiltersRead
  BY <1>1 DEF FiltersRead, Listed, Reading
<1>3. UNCHANGED toRemove => Removing' = Removing
  BY <1>1 DEF Removing, ElementOf, Reading
<1>4. UNCHANGED toAdd => Adding' = Adding
  BY DEF Adding
<1>5. UNCHANGED target => Abstract(target)' = Abstract(target)
  OBVIOUS
<1>6. UNCHANGED wanted => Abstract(wanted)' = Abstract(wanted)
  OBVIOUS
<1> USE DEF Removing, Adding, Element, ElementOf, Actuation!counters, local
<1>7. CASE Change
  <2>1. Abstract(wanted)' \in {Abstract(o) : o \in Targets}
    BY <1>7 DEF Change
  <2> QED
    BY <1>2, <1>3, <1>4, <1>5, <1>7, <2>1
    DEF Change, Actuation!Change, Actuation!Next
<1>8. CASE Call
  <2>1. Abstract(wanted).qdisc = wanted.qdisc
        /\ (Abstract(wanted).filters = {} <=> wanted.filters = {})
    BY Empties
  <2>2. Abstract(target)' = Abstract(wanted)
    BY <1>8 DEF Call
  <2> QED
    BY <1>2, <1>3, <1>4, <1>6, <1>8, <2>1, <2>2 DEF Call, Actuation!Call, Actuation!Next
<1>9. CASE QDiscList
  <2>1. Abstract(target).qdisc = target.qdisc
        /\ (Abstract(target).filters = {} <=> target.filters = {})
    BY Empties
  <2>2. Actuation!QDiscList
    BY <1>2, <1>3, <1>4, <1>5, <1>6, <1>9, <2>1
    DEF QDiscList, Return, Actuation!QDiscList, Actuation!Return
  <2> QED
    BY <2>2 DEF Actuation!Next, Actuation!Actuate
<1>10. CASE QDiscDel
  <2>1. kernel' = Actuation!NoObjects
    BY <1>10 DEF QDiscDel, FiltersRead, Listed, Actuation!NoObjects
  <2>2. Actuation!QDiscDel
    BY <1>3, <1>4, <1>5, <1>6, <1>10, <2>1
    DEF QDiscDel, Return, Actuation!QDiscDel, Actuation!Return
  <2> QED
    BY <2>2 DEF Actuation!Next, Actuation!Actuate
<1>11. CASE QDiscAdd
  <2>1. kernel' = [kernel EXCEPT !.qdisc = TRUE]
    <3>1. qdisc' = TRUE /\ FiltersRead' = FiltersRead
      BY <1>2, <1>11 DEF QDiscAdd
    <3>2. \A b : [qdisc |-> b, filters |-> FiltersRead] = [kernel EXCEPT !.qdisc = b]
      OBVIOUS
    <3> QED
      BY <3>1, <3>2, Zenon
  <2>2. Actuation!QDiscAdd
    BY <1>3, <1>4, <1>5, <1>6, <1>11, <2>1 DEF QDiscAdd, Actuation!QDiscAdd
  <2> QED
    BY <2>2 DEF Actuation!Next, Actuation!Actuate
<1>12. CASE ChainList
  <2>1. Actuation!ChainList
    BY <1>2, <1>3, <1>4, <1>5, <1>6, <1>12, Empties
    DEF ChainList, Return, Actuation!ChainList, Actuation!Return
  <2> QED
    BY <2>1 DEF Actuation!Next, Actuation!Actuate
<1>13. CASE ChainDel
  <2>1. kernel' = [kernel EXCEPT !.filters = {}]
    <3>1. qdisc' = qdisc /\ FiltersRead' = {}
      BY <1>13 DEF ChainDel, FiltersRead, Listed
    <3> QED
      BY <3>1
  <2>2. Actuation!ChainDel
    BY <1>3, <1>4, <1>5, <1>6, <1>13, <2>1
    DEF ChainDel, Return, Actuation!ChainDel, Actuation!Return
  <2> QED
    BY <2>2 DEF Actuation!Next, Actuation!Actuate
<1>14. CASE FilterList \/ FilterDel
  BY <1>14, ListRefines, DelRefines DEF Actuation!Next, Actuation!Actuate
<1>15. CASE FilterAdd
  BY <1>15, AddRefines DEF Actuation!Next, Actuation!Actuate
<1>16. CASE Abort
  <2>1. Actuation!Abort
    BY <1>2, <1>5, <1>6, <1>16 DEF Abort, Fail, Actuation!Abort
  <2> QED
    BY <2>1 DEF Actuation!Next
<1>17. CASE UNCHANGED vars
  BY <1>2, <1>3, <1>4, <1>5, <1>6, <1>17 DEF vars, Actuation!vars
<1> QED
  BY <1>7, <1>8, <1>9, <1>10, <1>11, <1>12, <1>13, <1>14, <1>15, <1>16, <1>17
  DEF Next, Actuate

\* Driver implements Actuator, refused calls and filters that do not read back
\* apart, if the filters found could be told apart.
THEOREM Refinement ==
  ASSUME FoundApart
  PROVE  Spec => ImplementsActuator
BY FoundApart, ApartInvariance, InitRefines, NextRefines, PTL DEF Spec, ImplementsActuator
=============================================================================
