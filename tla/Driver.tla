--------------------------------- MODULE Driver ---------------------------------
(***************************************************************************)
(* Actuate through a TC driver: how the generator's filters are written    *)
(* to the kernel, what is read back, and whether the actuator, which       *)
(* decides by what is read back, may treat filters as elements of a set    *)
(* (module Actuator).  Both drivers, netlink and command line, and what    *)
(* others left in the kernel; everything is in chain 0, as Actuate assumes.*)
(*                                                                         *)
(* The kernel is external: a filter has a handle of its own within its     *)
(* priority, a priority takes one kind and one protocol, equal filters are *)
(* refused, and a match key with an empty mask is accepted but not dumped. *)
(***************************************************************************)
EXTENDS Generator, FiniteSets

CONSTANTS
  Whole,      \* CIDRs of prefix length 0: their mask is empty
  Targets,    \* the generator's objects over time
  Found,      \* sets of filters the daemon may find when it starts
  Other,      \* a value of a field that the program has no name for
  MaxChanges, \* bound: changes of what is wanted
  MaxAborts   \* bound: calls that fail for outside reasons

\* What an action of the kind "gact" does; the last stands for all that are
\* neither pass nor drop.
ControlActions == {"pass", "drop", "trap"}

\* The filters that the generator can make: a type behind a VLAN tag if and only
\* if there is a tag, and destinations of the family.
Generable ==
  {f \in Filters :
     /\ f.protocol = "802.1q" <=> f.vlanEthType # Any
     /\ (IF f.protocol = "802.1q" THEN f.vlanEthType ELSE f.protocol) \in FamiliesOf(f.dstIP)}

ASSUME DriverAssumption ==
  /\ Whole \subseteq {Addresses4, Addresses6} \ {{}}
  /\ Targets \subseteq [qdisc : BOOLEAN, filters : SUBSET Generable]
  /\ Other \notin FilterProtocols \cup {"tcp", "udp", Any}
  /\ Any \notin FilterProtocols \cup {"tcp", "udp"} \cup ControlActions
  /\ Any \notin Numbers
  /\ MaxChanges \in Nat /\ MaxAborts \in Nat

VARIABLES
  driver,    \* the option tc-driver
  qdisc,     \* whether the representor has an ingress qdisc
  entries,   \* the kernel's filters on it
  wanted,    \* what the generator makes of the policies
  \* Actuate, as in module Actuator.
  pc, target, toRemove, toAdd, ok, start,
  changes, aborts

local == <<pc, target, toRemove, toAdd, ok, start>>
vars == <<driver, qdisc, entries, wanted, local, changes, aborts>>

-----------------------------------------------------------------------------
\* A types.FlowerFilter as the generator builds it: no chain, no handle.
FlowerFilter(f) ==
  [chain |-> Any, protocol |-> f.protocol, priority |-> f.priority,
   vlanEthType |-> f.vlanEthType, dstIP |-> f.dstIP,
   ipProto |-> IF f.dstPort = Any THEN Any ELSE f.dstPort.protocol,
   dstPort |-> IF f.dstPort = Any THEN Any ELSE f.dstPort.number,
   action |-> f.action]

\* A filter in the kernel, but for its handle.  "hidden" stands for match keys
\* the program neither writes nor reads.
Entry(f, ethType, vlanEthType, dstPort) ==
  [kind |-> "flower", protocol |-> f.protocol, priority |-> f.priority,
   ethType |-> ethType, vlanEthType |-> vlanEthType, dstIP |-> f.dstIP,
   ipProto |-> f.ipProto, dstPort |-> dstPort, action |-> f.action,
   hidden |-> FALSE]

\* netlink: the type behind a tag goes into the type of the frame, and port 0
\* is how the library says no port.
flowerFilterToNlFlowerFilter(f) ==
  Entry(f, IF f.vlanEthType = Any THEN f.protocol ELSE f.vlanEthType, Any,
        IF f.dstPort = 0 THEN Any ELSE f.dstPort)

\* Mutant: the port is forgotten.
GenCmdLineArgsWithoutPort(f) == Entry(f, f.protocol, f.vlanEthType, Any)

\* tc: every key as an argument of its own, the protocol is the frame's type.
GenCmdLineArgs(f) == Entry(f, f.protocol, f.vlanEthType, f.dstPort)

Drivers == {"netlink", "cmdline"}

WrittenBy(d, f) ==
  IF d = "netlink" THEN flowerFilterToNlFlowerFilter(FlowerFilter(f))
                   ELSE GenCmdLineArgs(FlowerFilter(f))

Written(f) == WrittenBy(driver, f)

Known(value, values) == IF value \in values THEN value ELSE Other

\* What is common to the readings of both drivers.
Read(e, vlanEthType) ==
  [chain |-> 0, protocol |-> Known(e.protocol, FilterProtocols),
   priority |-> e.priority, vlanEthType |-> vlanEthType,
   dstIP |-> IF e.dstIP \in Whole THEN Any ELSE e.dstIP,
   ipProto |-> Known(e.ipProto, {Any, "tcp", "udp"}), dstPort |-> e.dstPort,
   action |-> IF e.action \in ControlActions THEN e.action ELSE Any]

\* Mutant: the type of an untagged frame is taken for one behind a tag.
nlFlowerFilterToFlowerFilterUntagged(e) == Read(e, Known(e.ethType, Families))

\* netlink: actions of other kinds are left out.
nlFlowerFilterToFlowerFilter(e) ==
  Read(e, IF e.protocol = "802.1q" THEN Known(e.ethType, Families) ELSE Any)

\* tc: the type behind a tag is a key of its own.
cFilterToFlowerFilter(e) == Read(e, Known(e.vlanEthType, Families \cup {Any}))

ReadingBy(d, e) ==
  IF d = "netlink" THEN nlFlowerFilterToFlowerFilter(e) ELSE cFilterToFlowerFilter(e)

Reading(e) == ReadingBy(driver, e)

\* Mutant: no chain and chain 0 are different.
ComparableWithChain(f) == f

\* FlowerFilter.Equals is equality of these: no chain is chain 0, and handles
\* are not compared.
Comparable(f) == [f EXCEPT !.chain = IF @ = Any THEN 0 ELSE @]

Same(f, e) == Comparable(FlowerFilter(f)) = Comparable(Reading(e))

\* The filters FilterList returns: those of other kinds are passed over by
\* netlink, while the command line driver fails on them, and on actions of other
\* kinds.
Listed == {e \in entries : e.kind = "flower"}

Unlistable ==
  /\ driver = "cmdline"
  /\ \E e \in entries : e.kind # "flower" \/ e.action \notin ControlActions

\* Mutant: filters of protocols that the program does not know are left alone.
ExistingFilterSetOfKnown == {e \in Listed : e.protocol \in FilterProtocols}

\* existingFilterSet: of filters that read equal, only the first is kept.
ExistingFilterSet ==
  {e \in Listed : \A g \in Listed :
     Comparable(Reading(g)) = Comparable(Reading(e)) => e.handle <= g.handle}

-----------------------------------------------------------------------------
NoObjects == [qdisc |-> FALSE, filters |-> {}]

FiltersRead == {Comparable(Reading(e)) : e \in Listed}

Init ==
  /\ driver \in Drivers
  /\ entries \in Found
  /\ qdisc \in BOOLEAN
  /\ entries # {} => qdisc
  /\ wanted \in Targets
  /\ pc = "idle"
  /\ target = NoObjects /\ toRemove = {} /\ toAdd = {} /\ ok = FALSE
  /\ start = FiltersRead
  /\ changes = 0 /\ aborts = 0

Change ==
  /\ changes < MaxChanges
  /\ changes' = changes + 1
  /\ wanted' \in Targets
  /\ UNCHANGED <<driver, qdisc, entries, local, aborts>>

Call ==
  /\ pc = "idle"
  /\ pc' = IF ~wanted.qdisc /\ wanted.filters # {} THEN "idle" ELSE "QDiscList"
  /\ target' = wanted
  /\ ok' = FALSE
  /\ start' = FiltersRead
  /\ UNCHANGED <<driver, qdisc, entries, wanted, toRemove, toAdd, changes, aborts>>

Return == pc' = "idle" /\ ok' = TRUE

\* Mutant: the qdisc is taken to be there.
QDiscListAlways ==
  /\ pc = "QDiscList"
  /\ pc' = IF target.filters = {} THEN "ChainList" ELSE "FilterList"
  /\ UNCHANGED <<driver, qdisc, entries, wanted, target, toRemove, toAdd, ok,
                 start, changes, aborts>>

QDiscList ==
  /\ pc = "QDiscList"
  /\ \/ ~target.qdisc /\ ~qdisc /\ Return
     \/ ~target.qdisc /\ qdisc /\ pc' = "QDiscDel" /\ UNCHANGED ok
     \/ target.qdisc /\ target.filters = {} /\ pc' = "ChainList" /\ UNCHANGED ok
     \/ /\ target.qdisc /\ target.filters # {}
        /\ pc' = IF qdisc THEN "FilterList" ELSE "QDiscAdd"
        /\ UNCHANGED ok
  /\ UNCHANGED <<driver, qdisc, entries, wanted, target, toRemove, toAdd,
                 start, changes, aborts>>

QDiscDel ==
  /\ pc = "QDiscDel"
  /\ qdisc' = FALSE
  /\ entries' = {}
  /\ Return
  /\ UNCHANGED <<driver, wanted, target, toRemove, toAdd, start, changes, aborts>>

QDiscAdd ==
  /\ pc = "QDiscAdd"
  /\ qdisc' = TRUE
  /\ pc' = "FilterList"
  /\ UNCHANGED <<driver, entries, wanted, target, toRemove, toAdd, ok, start,
                 changes, aborts>>

\* The kernel has a chain 0 if it has filters, and may keep an empty one.
ChainList ==
  /\ pc = "ChainList"
  /\ \/ entries = {} /\ Return
     \/ qdisc /\ pc' = "ChainDel" /\ UNCHANGED ok
  /\ UNCHANGED <<driver, qdisc, entries, wanted, target, toRemove, toAdd,
                 start, changes, aborts>>

ChainDel ==
  /\ pc = "ChainDel"
  /\ entries' = {}
  /\ Return
  /\ UNCHANGED <<driver, qdisc, wanted, target, toRemove, toAdd, start,
                 changes, aborts>>

FilterList ==
  /\ pc = "FilterList"
  /\ ~Unlistable
  /\ IF {Comparable(FlowerFilter(f)) : f \in target.filters} = FiltersRead
     THEN Return /\ UNCHANGED <<toRemove, toAdd>>
     ELSE /\ toRemove' = {e \in ExistingFilterSet :
                            ~ \E f \in target.filters : Same(f, e)}
          /\ toAdd' = {f \in target.filters : ~ \E e \in Listed : Same(f, e)}
          /\ pc' = "FilterDel"
          /\ UNCHANGED ok
  /\ UNCHANGED <<driver, qdisc, entries, wanted, target, start, changes, aborts>>

\* Mutant: the handle read is not passed on, and the whole priority goes.
FilterDelWithoutHandle ==
  /\ pc = "FilterDel"
  /\ \/ /\ toRemove = {}
        /\ pc' = "FilterAdd"
        /\ UNCHANGED <<entries, toRemove>>
     \/ /\ \E e \in toRemove :
             /\ toRemove' = {g \in toRemove : g.priority # e.priority}
             /\ entries' = {g \in entries : g.priority # e.priority}
        /\ UNCHANGED pc
  /\ UNCHANGED <<driver, qdisc, wanted, target, toAdd, ok, start, changes, aborts>>

\* By the attributes read, the handle among them, in the listing's order.
FilterDel ==
  /\ pc = "FilterDel"
  /\ \/ /\ toRemove = {}
        /\ pc' = "FilterAdd"
        /\ UNCHANGED <<entries, toRemove>>
     \/ /\ \E e \in toRemove :
             /\ \A g \in toRemove : e.priority <= g.priority
             /\ toRemove' = toRemove \ {e}
             /\ entries' = {g \in entries : g.priority # e.priority
                                            \/ g.handle # e.handle}
        /\ UNCHANGED pc
  /\ UNCHANGED <<driver, qdisc, wanted, target, toAdd, ok, start, changes, aborts>>

\* The place of a filter in the generator's list: the defaults come first.
Place(f) == IF f.priority >= BasePrioDefault THEN 0 ELSE 1

NextToAdd == {f \in toAdd : \A g \in toAdd : Place(f) <= Place(g)}

FreeHandle(priority) ==
  LET used == {e.handle : e \in {g \in entries : g.priority = priority}}
  IN  CHOOSE h \in 1..(Cardinality(used) + 1) : h \notin used

WithHandle(e, h) == [x \in DOMAIN e \cup {"handle"} |-> IF x = "handle" THEN h ELSE e[x]]

Keys(e) == [x \in DOMAIN e \ {"handle"} |-> e[x]]

\* What the classifier distinguishes: a key with an empty mask is no key, and an
\* action is none.
Masked(e) == [e EXCEPT !.dstIP = IF @ \in Whole THEN Any ELSE @, !.action = Any]

Refuses(e) ==
  \E g \in entries :
    /\ g.priority = e.priority
    /\ g.kind # e.kind \/ g.protocol # e.protocol \/ Masked(Keys(g)) = Masked(e)

FilterAdd ==
  /\ pc = "FilterAdd"
  /\ \/ /\ toAdd = {}
        /\ Return
        /\ UNCHANGED <<entries, toAdd>>
     \/ /\ \E f \in NextToAdd :
             /\ ~Refuses(Written(f))
             /\ toAdd' = toAdd \ {f}
             /\ entries' = entries \cup {WithHandle(Written(f), FreeHandle(f.priority))}
        /\ UNCHANGED <<pc, ok>>
  /\ UNCHANGED <<driver, qdisc, wanted, target, toRemove, start, changes, aborts>>

Fail ==
  /\ pc' = "idle"
  /\ toRemove' = {} /\ toAdd' = {}
  /\ UNCHANGED <<driver, qdisc, entries, wanted, target, ok, start, changes>>

\* The call fails for a reason in the kernel, and will fail again.
Refused ==
  /\ \/ pc = "FilterList" /\ Unlistable
     \/ pc = "FilterAdd" /\ \E f \in NextToAdd : Refuses(Written(f))
  /\ Fail
  /\ UNCHANGED aborts

\* It fails for another reason, or the daemon dies.
Abort ==
  /\ pc # "idle"
  /\ aborts < MaxAborts
  /\ aborts' = aborts + 1
  /\ Fail

Actuate ==
  \/ QDiscList \/ QDiscDel \/ QDiscAdd \/ ChainList \/ ChainDel
  \/ FilterList \/ FilterDel \/ FilterAdd

Next == Change \/ Call \/ Actuate \/ Refused \/ Abort

Spec == Init /\ [][Next]_vars

\* Actuate runs to its end, and the sync loop calls it at least on its timer.
FairSpec == Spec /\ WF_vars(Actuate \/ Refused) /\ WF_vars(Call)

-----------------------------------------------------------------------------
\* The kernel's classifier on what was written, key by key.
EntryMatches(e, x) ==
  /\ e.protocol = IF x.tagged THEN "802.1q" ELSE FamilyOf(x.dst)
  /\ e.ethType \in {"802.1q", FamilyOf(x.dst)}
  /\ e.vlanEthType \in {Any, FamilyOf(x.dst)}
  /\ e.dstIP # Any => x.dst \in e.dstIP
  /\ e.ipProto # Any => e.ipProto = x.port.protocol
  /\ e.dstPort # Any => e.dstPort = x.port.number

EntriesAdmit ==
  {x \in Packets :
     LET matching == {e \in entries : EntryMatches(e, x)}
     IN  \/ matching = {}
         \/ \E e \in matching : /\ e.action = "pass"
                                /\ \A g \in matching : e.priority <= g.priority}

\* The types and the address that a filter of the kernel names do not contradict
\* each other.
Agree(e) ==
  /\ e.protocol \in Families => e.ethType = e.protocol
  /\ \A t \in {e.ethType, e.vlanEthType} \cap Families :
       /\ e.ethType \in {t, "802.1q"} /\ e.vlanEthType \in {t, Any}
       /\ t \in FamiliesOf(e.dstIP)

\* What the kernel holds before the daemon starts.
ASSUME FoundAssumption ==
  \A E \in Found :
    /\ IsFiniteSet(E)
    /\ \A e \in E : e.handle \in Nat /\ (e.kind = "flower" => Agree(e))
    /\ \A e, g \in E : e.priority = g.priority /\ e.handle = g.handle => e = g

\* A filter that reads back as what was written, and the known exceptions.
ReadsBack(f) == Same(f, Written(f))

ExceptionalBy(d, f) ==
  \/ d = "netlink" /\ f.dstPort # Any /\ f.dstPort.number = 0
  \/ f.dstIP \in Whole

Exceptional(f) == ExceptionalBy(driver, f)

\* The filters found can be told apart, by either driver: no two of them read
\* alike, and none reads like what is written for an exceptional filter.  (Of
\* filters that read alike Actuate sees one, and the others stay.)
FoundApart ==
  \A d \in Drivers, E \in Found : \A e \in {g \in E : g.kind = "flower"} :
    LET Alike(g) == Comparable(ReadingBy(d, e)) = Comparable(ReadingBy(d, g))
    IN  /\ \A g \in E : g.kind = "flower" /\ Alike(g) => e = g
        /\ \A o \in Targets : \A f \in o.filters :
             ExceptionalBy(d, f) => ~Alike(WrittenBy(d, f))

\* The variables keep their types, no filter is without a qdisc, and handles
\* tell the filters of a priority apart.
TypeOK ==
  /\ driver \in Drivers
  /\ qdisc \in BOOLEAN
  /\ entries # {} => qdisc
  /\ \A e, g \in entries : e.priority = g.priority /\ e.handle = g.handle => e = g
  /\ wanted \in Targets
  /\ target \in Targets \cup {NoObjects}
  /\ toRemove \subseteq entries
  /\ toAdd \subseteq target.filters
  /\ ok \in BOOLEAN
  /\ changes \in 0..MaxChanges /\ aborts \in 0..MaxAborts

\* What the generator makes reads back as it was written, by either driver, with
\* two exceptions: port 0 through netlink, and CIDRs of prefix length 0.
OnlyKnownExceptions ==
  \A f \in wanted.filters : ReadsBack(f) \/ Exceptional(f)

\* When Actuate returned nil, the kernel lets out exactly what the generated
\* filters say, whatever was found there and failed before; provided that
\* every filter left is one the drivers can read, and that netlink was not
\* given a port 0, which it takes for all ports.
SuccessIsEnforced ==
  /\ ok /\ pc = "idle" /\ target.qdisc
  /\ \A e \in entries : e.kind = "flower" /\ ~e.hidden
  /\ driver = "netlink" =>
       \A f \in target.filters : f.dstPort # Any => f.dstPort.number # 0
  => EntriesAdmit = Admits(target.filters)

\* No wanted filter, the exceptions apart, leaves the kernel while others are
\* removed: neither is it taken for a different one because of how it reads
\* back, nor does the removal of a filter of its priority take it along.
WantedFiltersStay ==
  [][\A f \in target.filters :
       /\ pc = "FilterDel"
       /\ ~Exceptional(f)
       /\ Written(f) \in {Keys(e) : e \in entries}
       => Written(f) \in {Keys(e) : e \in entries'}]_vars

\* What others left in the kernel is in the way of what is wanted: the command
\* line driver cannot list it, or it has a priority that is needed.
InTheWay ==
  \/ Unlistable
  \/ \E e \in entries : /\ e.kind # "flower"
                        /\ \E f \in wanted.filters : f.priority = e.priority

\* Filters that others left, failures and changes of policies delay what is
\* wanted, but once failures and changes stop it is in the kernel for good, as far
\* as the driver can tell; unless something is in the way, which no retry
\* removes, or a filter never reads back as it was written.
EventuallyEnforced ==
  <>[](\/ InTheWay
       \/ \E f \in wanted.filters : ~ReadsBack(f)
       \/ FiltersRead = {Comparable(FlowerFilter(f)) : f \in wanted.filters})

-----------------------------------------------------------------------------
\* To the actuator a filter is what Equals compares.
Abstract(objects) ==
  [qdisc |-> objects.qdisc,
   filters |-> {Comparable(FlowerFilter(f)) : f \in objects.filters}]

AllFilters ==
  LET wantable == {FlowerFilter(f) : f \in UNION {o.filters : o \in Targets}}
      stored == (UNION Found) \cup {flowerFilterToNlFlowerFilter(f) : f \in wantable}
                            \cup {GenCmdLineArgs(f) : f \in wantable}
  IN  {Comparable(f) : f \in wantable} \cup
      {Comparable(Read(e, v)) : e \in stored, v \in Families \cup {Any, Other}}

Actuation == INSTANCE Actuator WITH
  Filters    <- AllFilters,
  Defaults   <- {Comparable(FlowerFilter(f)) : f \in genDefaultFilters},
  Matches    <- [f \in AllFilters |-> {}],
  Priority   <- [f \in AllFilters |-> f.priority],
  Passes     <- {f \in AllFilters : f.action = "pass"},
  Emitted    <- [f \in AllFilters |-> Place(f)],
  Targets    <- {Abstract(o) : o \in Targets},
  Found      <- [qdisc : BOOLEAN, filters : SUBSET AllFilters],
  kernel     <- [qdisc |-> qdisc, filters |-> FiltersRead],
  wanted     <- Abstract(wanted),
  target     <- Abstract(target),
  toRemove   <- {Comparable(Reading(e)) : e \in toRemove},
  toAdd      <- {Comparable(FlowerFilter(f)) : f \in toAdd}

\* Seen through either driver, Actuate is what module Actuator says it is: the
\* filters of others are removed or left out, calls the kernel refuses are
\* failures that change nothing, and each removal and addition changes one
\* element of the set; while no filter of the target reads back differently.
ImplementsActuator ==
  /\ Actuation!Init
  /\ [][\/ Refused
        \/ \E f \in target.filters : ~ReadsBack(f)
        \/ Actuation!Next]_(Actuation!vars)
=============================================================================
