------------------------------ MODULE Generator ------------------------------
(***************************************************************************)
(* SimpleTCGenerator: the flower filters made of the rules of an interface,*)
(* and what the kernel's classifier does with them.                        *)
(*                                                                         *)
(* The lists of the code are sets here: the actuator compares filters as   *)
(* sets, and their order matters only while it adds them (see Actuator).   *)
(* A CIDR is the set of the addresses in it, all of one family.            *)
(***************************************************************************)
EXTENDS Naturals

CONSTANTS
  Addresses4, Addresses6,  \* IP addresses
  Numbers,                 \* port numbers
  Any,                     \* a match key that is not set
  NoRules                  \* a nil list of rules

Addresses == Addresses4 \cup Addresses6

\* FlowerVlanEthType, and the protocol of an untagged filter.
Families == {"ip", "ipv6"}

FilterProtocols == Families \cup {"802.1q"}

Cidrs == ((SUBSET Addresses4) \cup (SUBSET Addresses6)) \ {{}}

Ports == [protocol : {"tcp", "udp"}, number : Numbers]

Rules == [cidrs : SUBSET Cidrs, ports : SUBSET Ports, action : {"pass", "drop"}]

\* FlowerFilter: attributes, match keys, action.
Filters == [protocol : FilterProtocols, priority : Nat,
            vlanEthType : {Any} \cup Families, dstIP : {Any} \cup Cidrs,
            dstPort : {Any} \cup Ports, action : {"pass", "drop"}]

ASSUME GeneratorAssumption ==
  /\ Addresses4 \cap Addresses6 = {}
  /\ Any \notin Families \cup Ports
  /\ \A c \in Cidrs : c # Any
  /\ NoRules \notin SUBSET Rules

-----------------------------------------------------------------------------
BasePrioDefault == 300
BasePrioPass    == 200
BasePrioDrop    == 100

\* Mutant: the two directions of a verdict share their priorities.
PrioFromBaseAndProtcolShared(base, protocol) ==
  (base % 100) + CASE protocol = "ip" -> 0 [] protocol = "ipv6" -> 1 [] OTHER -> 2

PrioFromBaseAndProtcol(base, protocol) ==
  base + CASE protocol = "ip" -> 0 [] protocol = "ipv6" -> 1 [] OTHER -> 2

\* The families a destination has addresses of.
FamiliesOf(dst) ==
  IF dst = Any THEN Families
  ELSE IF dst \subseteq Addresses4 THEN {"ip"} ELSE {"ipv6"}

\* Mutant: tagged traffic is forgotten.
genFiltersUntagged(cidrs, ports, base, action) ==
  LET dsts == IF cidrs = {} THEN {Any} ELSE cidrs
      keys == IF ports = {} THEN {Any} ELSE ports
  IN  UNION {{[protocol |-> f, priority |-> PrioFromBaseAndProtcol(base, f),
               vlanEthType |-> Any, dstIP |-> d, dstPort |-> p,
               action |-> action] : f \in FamiliesOf(d), p \in keys} : d \in dsts}

\* One filter per destination and port (whichever are given), for packets as
\* they are, and one for the same packets behind a VLAN tag.
genFilters(cidrs, ports, base, action) ==
  LET dsts == IF cidrs = {} THEN {Any} ELSE cidrs
      keys == IF ports = {} THEN {Any} ELSE ports
      filter(protocol, vlan, d, p) ==
        [protocol |-> protocol,
         priority |-> PrioFromBaseAndProtcol(base, protocol),
         vlanEthType |-> vlan, dstIP |-> d, dstPort |-> p, action |-> action]
  IN  UNION {{filter(f, Any, d, p) : f \in FamiliesOf(d), p \in keys} \cup
             {filter("802.1q", f, d, p) : f \in FamiliesOf(d), p \in keys}
             : d \in dsts}

genDefaultFilters == genFilters({}, {}, BasePrioDefault, "drop")

genPassFilters(rule) == genFilters(rule.cidrs, rule.ports, BasePrioPass, "pass")

genDropFilters(rule) == genFilters(rule.cidrs, rule.ports, BasePrioDrop, "drop")

\* No rules at all (nil) leave the interface open, an empty list closes it.
GenerateFromPolicyRuleSet(rules) ==
  IF rules = NoRules
  THEN {}
  ELSE genDefaultFilters \cup
       UNION {IF r.action = "pass" THEN genPassFilters(r) ELSE genDropFilters(r)
              : r \in rules}

-----------------------------------------------------------------------------
\* Packets a pod may send: the destination, what it carries, and whether a
\* VLAN tag is in front.  (QinQ is out of the program's scope.)
Packets == [dst : Addresses,
            port : [protocol : {"tcp", "udp", "sctp"}, number : Numbers],
            tagged : BOOLEAN]

FamilyOf(address) == IF address \in Addresses4 THEN "ip" ELSE "ipv6"

FilterMatches(filter, x) ==
  /\ IF x.tagged
     THEN /\ filter.protocol = "802.1q"
          /\ filter.vlanEthType \in {Any, FamilyOf(x.dst)}
     ELSE filter.protocol = FamilyOf(x.dst)
  /\ filter.dstIP # Any => x.dst \in filter.dstIP
  /\ filter.dstPort # Any => filter.dstPort = x.port

\* The filters of the lowest priority that match decide; none of them, and
\* the packet passes.
Admits(filters) ==
  {x \in Packets :
     LET matching == {f \in filters : FilterMatches(f, x)}
     IN  \/ matching = {}
         \/ \E f \in matching : /\ f.action = "pass"
                                /\ \A g \in matching : f.priority <= g.priority}
=============================================================================
