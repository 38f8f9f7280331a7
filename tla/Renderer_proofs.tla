-------------------------- MODULE Renderer_proofs --------------------------
(***************************************************************************)
(* Proofs about Renderer and Generator, for any policies, pods, addresses  *)
(* and ports: the filters of an interface admit exactly the packets that a *)
(* pass rule covers and no drop rule does (GeneratedVerdict); the rules    *)
(* are those of the policies that apply, whatever their order (Collected); *)
(* for plain policies the two together are what the CRD says.              *)
(***************************************************************************)
EXTENDS Renderer, TLAPS

\* A rule covers a packet, tagged or not.
Covers(cidrs, ports, x) ==
  /\ cidrs = {} \/ \E c \in cidrs : x.dst \in c
  /\ ports = {} \/ x.port \in ports

\* What the rules of an interface say of a packet.
Verdict(rules, x) ==
  /\ \E r \in rules : r.action = "pass" /\ Covers(r.cidrs, r.ports, x)
  /\ \A r \in rules : r.action = "drop" => ~Covers(r.cidrs, r.ports, x)

-----------------------------------------------------------------------------
\* The fields of a generated filter that do not depend on its match keys.
LEMMA FilterShape ==
  ASSUME NEW cidrs, NEW ports, NEW base, NEW action,
         NEW f \in genFilters(cidrs, ports, base, action)
  PROVE  /\ f.protocol \in FilterProtocols
         /\ f.priority = PrioFromBaseAndProtcol(base, f.protocol)
         /\ f.action = action
BY DEF genFilters, FamiliesOf, Families, FilterProtocols

\* The filters generated for a rule match the packets it covers.
LEMMA FiltersCover ==
  ASSUME NEW cidrs \in SUBSET Cidrs, NEW ports \in SUBSET Ports,
         NEW base, NEW action, NEW x \in Packets
  PROVE  (\E f \in genFilters(cidrs, ports, base, action) : FilterMatches(f, x))
         <=> Covers(cidrs, ports, x)
<1> DEFINE dsts == IF cidrs = {} THEN {Any} ELSE cidrs
           keys == IF ports = {} THEN {Any} ELSE ports
           filter(protocol, vlan, d, p) ==
             [protocol |-> protocol,
              priority |-> PrioFromBaseAndProtcol(base, protocol),
              vlanEthType |-> vlan, dstIP |-> d, dstPort |-> p, action |-> action]
<1>0. /\ x.dst \in Addresses /\ x.port \in [protocol : {"tcp", "udp", "sctp"}, number : Numbers]
      /\ x.tagged \in BOOLEAN
      /\ FamilyOf(x.dst) \in Families
  BY DEF Packets, FamilyOf, Families
<1>1. ASSUME NEW f \in genFilters(cidrs, ports, base, action), FilterMatches(f, x)
      PROVE  Covers(cidrs, ports, x)
  <2>1. PICK d \in dsts, p \in keys : f.dstIP = d /\ f.dstPort = p
    BY <1>1 DEF genFilters
  <2>2. cidrs = {} \/ \E c \in cidrs : x.dst \in c
    BY <1>1, <2>1, GeneratorAssumption DEF FilterMatches
  <2>3. ports = {} \/ x.port \in ports
    BY <1>1, <2>1, GeneratorAssumption DEF FilterMatches
  <2> QED
    BY <2>2, <2>3 DEF Covers
<1>2. ASSUME Covers(cidrs, ports, x)
      PROVE  \E f \in genFilters(cidrs, ports, base, action) : FilterMatches(f, x)
  <2>1. PICK d \in dsts : d = Any \/ x.dst \in d
    BY <1>2 DEF Covers
  <2>2. PICK p \in keys : p = Any \/ x.port = p
    BY <1>2 DEF Covers
  <2>3. FamilyOf(x.dst) \in FamiliesOf(d)
    <3>1. CASE d = Any
      BY <3>1, <1>0 DEF FamiliesOf
    <3>2. CASE d # Any
      <4>1. d \in Cidrs /\ x.dst \in d
        BY <2>1, <3>2
      <4>2. (d \subseteq Addresses4) <=> (x.dst \in Addresses4)
        BY <4>1, GeneratorAssumption DEF Cidrs
      <4> QED
        BY <3>2, <4>2 DEF FamiliesOf, FamilyOf
    <3> QED
      BY <3>1, <3>2
  <2>4. CASE x.tagged
    <3> DEFINE f == filter("802.1q", FamilyOf(x.dst), d, p)
    <3>1. f \in genFilters(cidrs, ports, base, action)
      BY <2>3 DEF genFilters
    <3>2. FilterMatches(f, x)
      BY <2>1, <2>2, <2>4 DEF FilterMatches
    <3> QED
      BY <3>1, <3>2
  <2>5. CASE ~x.tagged
    <3> DEFINE f == filter(FamilyOf(x.dst), Any, d, p)
    <3>1. f \in genFilters(cidrs, ports, base, action)
      BY <2>3 DEF genFilters
    <3>2. FilterMatches(f, x)
      BY <2>1, <2>2, <2>5 DEF FilterMatches
    <3> QED
      BY <3>1, <3>2
  <2> QED
    BY <2>4, <2>5
<1> QED
  BY <1>1, <1>2

-----------------------------------------------------------------------------
\* Where a filter comes from.
LEMMA FilterSource ==
  ASSUME NEW rules \in SUBSET Rules, NEW f
  PROVE  f \in GenerateFromPolicyRuleSet(rules)
         <=> \/ f \in genFilters({}, {}, BasePrioDefault, "drop")
             \/ \E r \in rules :
                  \/ /\ r.action = "pass"
                     /\ f \in genFilters(r.cidrs, r.ports, BasePrioPass, "pass")
                  \/ /\ r.action = "drop"
                     /\ f \in genFilters(r.cidrs, r.ports, BasePrioDrop, "drop")
<1>1. rules # NoRules
  BY GeneratorAssumption
<1>2. \A r \in rules : r.action \in {"pass", "drop"}
  BY DEF Rules
<1> QED
  BY <1>1, <1>2
     DEF GenerateFromPolicyRuleSet, genDefaultFilters, genPassFilters, genDropFilters

\* Two filters that match the same packet have the same protocol.
LEMMA MatchingProtocol ==
  ASSUME NEW x \in Packets, NEW f, NEW g, FilterMatches(f, x), FilterMatches(g, x)
  PROVE  f.protocol = g.protocol
BY DEF FilterMatches

\* A base priority is decisive: they are further apart than the offsets.
LEMMA BaseDecides ==
  ASSUME NEW a \in {BasePrioDefault, BasePrioPass, BasePrioDrop},
         NEW b \in {BasePrioDefault, BasePrioPass, BasePrioDrop},
         NEW p \in FilterProtocols, NEW q \in FilterProtocols
  PROVE  /\ PrioFromBaseAndProtcol(a, p) \in Nat
         /\ PrioFromBaseAndProtcol(a, p) = PrioFromBaseAndProtcol(b, q) => a = b /\ p = q
         /\ PrioFromBaseAndProtcol(a, p) <= PrioFromBaseAndProtcol(b, p) <=> a <= b
<1> DEFINE offset(r) == CASE r = "ip" -> 0 [] r = "ipv6" -> 1 [] OTHER -> 2
<1>1. \A r \in FilterProtocols : offset(r) \in 0..2
  BY DEF FilterProtocols, Families
<1>2. offset(p) = offset(q) => p = q
  BY DEF FilterProtocols, Families
<1>3. /\ PrioFromBaseAndProtcol(a, p) = a + offset(p)
      /\ PrioFromBaseAndProtcol(b, p) = b + offset(p)
      /\ PrioFromBaseAndProtcol(b, q) = b + offset(q)
  BY DEF PrioFromBaseAndProtcol
<1> HIDE DEF offset
<1> QED
  BY <1>1, <1>2, <1>3 DEF BasePrioDefault, BasePrioPass, BasePrioDrop

\* The generator is right: its filters admit the packets that a pass rule
\* covers and no drop rule does.
THEOREM GeneratedVerdict ==
  ASSUME NEW rules \in SUBSET Rules
  PROVE  Admits(GenerateFromPolicyRuleSet(rules)) = {x \in Packets : Verdict(rules, x)}
<1> DEFINE all == GenerateFromPolicyRuleSet(rules)
<1> SUFFICES ASSUME NEW x \in Packets
             PROVE  x \in Admits(all) <=> Verdict(rules, x)
  BY DEF Admits
<1> DEFINE matching == {f \in all : FilterMatches(f, x)}
<1>0. \A r \in rules : r.cidrs \in SUBSET Cidrs /\ r.ports \in SUBSET Ports
  BY DEF Rules
<1>1. matching # {}
  <2>1. Covers({}, {}, x)
    BY DEF Covers
  <2>2. PICK f \in genFilters({}, {}, BasePrioDefault, "drop") : FilterMatches(f, x)
    BY <2>1, FiltersCover
  <2> QED
    BY <2>2, FilterSource
<1>2. x \in Admits(all) <=> \E f \in matching : /\ f.action = "pass"
                                                /\ \A g \in matching : f.priority <= g.priority
  BY <1>1 DEF Admits
<1>3. ASSUME NEW f \in matching, f.action = "pass",
             \A g \in matching : f.priority <= g.priority
      PROVE  Verdict(rules, x)
  <2>1. PICK r \in rules : /\ r.action = "pass"
                           /\ f \in genFilters(r.cidrs, r.ports, BasePrioPass, "pass")
    BY <1>3, FilterSource, FilterShape
  <2>2. Covers(r.cidrs, r.ports, x)
    BY <1>0, <2>1, FiltersCover
  <2>3. ASSUME NEW s \in rules, s.action = "drop", Covers(s.cidrs, s.ports, x)
        PROVE  FALSE
    <3>1. PICK g \in genFilters(s.cidrs, s.ports, BasePrioDrop, "drop") : FilterMatches(g, x)
      BY <1>0, <2>3, FiltersCover
    <3>2. g \in matching
      BY <2>3, <3>1, FilterSource
    <3>3. f.protocol = g.protocol /\ f.protocol \in FilterProtocols
      BY <2>1, <3>2, MatchingProtocol, FilterShape
    <3>4. /\ f.priority = PrioFromBaseAndProtcol(BasePrioPass, f.protocol)
          /\ g.priority = PrioFromBaseAndProtcol(BasePrioDrop, f.protocol)
      BY <2>1, <3>1, <3>3, FilterShape
    <3>5. BasePrioPass <= BasePrioDrop
      BY <1>3, <3>2, <3>3, <3>4, BaseDecides
    <3> QED
      BY <3>5 DEF BasePrioPass, BasePrioDrop
  <2> QED
    BY <2>1, <2>2, <2>3 DEF Verdict
<1>4. ASSUME Verdict(rules, x)
      PROVE  \E f \in matching : /\ f.action = "pass"
                                 /\ \A g \in matching : f.priority <= g.priority
  <2>1. PICK r \in rules : r.action = "pass" /\ Covers(r.cidrs, r.ports, x)
    BY <1>4 DEF Verdict
  <2>2. PICK f \in genFilters(r.cidrs, r.ports, BasePrioPass, "pass") : FilterMatches(f, x)
    BY <1>0, <2>1, FiltersCover
  <2>3. f \in matching /\ f.action = "pass"
    BY <2>1, <2>2, FilterSource, FilterShape
  <2>4. ASSUME NEW g \in matching PROVE f.priority <= g.priority
    <3>1. f.protocol = g.protocol /\ f.protocol \in FilterProtocols
      BY <2>2, MatchingProtocol, FilterShape
    <3>2. f.priority = PrioFromBaseAndProtcol(BasePrioPass, f.protocol)
      BY <2>2, FilterShape
    <3>3. CASE g \in genFilters({}, {}, BasePrioDefault, "drop")
      <4>1. g.priority = PrioFromBaseAndProtcol(BasePrioDefault, f.protocol)
        BY <3>1, <3>3, FilterShape
      <4>2. BasePrioPass <= BasePrioDefault
        BY DEF BasePrioPass, BasePrioDefault
      <4> QED
        BY <3>1, <3>2, <4>1, <4>2, BaseDecides
    <3>4. ASSUME NEW s \in rules, s.action = "pass",
                 g \in genFilters(s.cidrs, s.ports, BasePrioPass, "pass")
          PROVE  f.priority <= g.priority
      <4>1. g.priority = PrioFromBaseAndProtcol(BasePrioPass, f.protocol)
        BY <3>1, <3>4, FilterShape
      <4>2. BasePrioPass <= BasePrioPass
        BY DEF BasePrioPass
      <4> QED
        BY <3>1, <3>2, <4>1, <4>2, BaseDecides
    <3>5. ASSUME NEW s \in rules, s.action = "drop",
                 g \in genFilters(s.cidrs, s.ports, BasePrioDrop, "drop")
          PROVE  FALSE
      <4>1. Covers(s.cidrs, s.ports, x)
        BY <1>0, <3>5, FiltersCover
      <4> QED
        BY <1>4, <3>5, <4>1 DEF Verdict
    <3> QED
      BY <3>3, <3>4, <3>5, FilterSource
  <2> QED
    BY <2>3, <2>4
<1> QED
  BY <1>2, <1>3, <1>4

-----------------------------------------------------------------------------
\* The policies among some that apply to an interface, and all their rules.
Applies(policy, network) ==
  PolicyAppliesForPod(policy) /\ AppliesForNetwork(policy, network)

Matched(some, u) == {p \in some : Applies(p, u[1])}

RulesOf(some, u) == UNION {renderEgressForInterface(u[1], p) : p \in Matched(some, u)}

UIDs == {UID(i) : i \in Interfaces}

\* The rule sets hold the rules of the policies visited so far, and in the end
\* those of all policies; the filters are generated from them.
Collected ==
  /\ pc \in {"render", "generate"}
  /\ remaining \subseteq policies
  /\ DOMAIN filters \subseteq UIDs
  /\ pc = "render" =>
       /\ DOMAIN filters = {}
       /\ DOMAIN ruleSets = {u \in UIDs : Matched(policies \ remaining, u) # {}}
       /\ \A u \in DOMAIN ruleSets : ruleSets[u] = RulesOf(policies \ remaining, u)
  /\ pc = "generate" =>
       /\ DOMAIN ruleSets = UIDs
       /\ \A u \in UIDs :
            ruleSets[u] = IF Matched(policies, u) = {} THEN NoRules ELSE RulesOf(policies, u)
  /\ \A u \in DOMAIN filters : filters[u] = GenerateFromPolicyRuleSet(ruleSets[u])

IInv == WellFormed(policies, pods, target) /\ Collected

LEMMA InitIInv == Init => IInv
<1> SUFFICES ASSUME Init PROVE IInv
  OBVIOUS
<1>1. WellFormed(policies, pods, target)
  BY RendererAssumption DEF Init
<1>2. DOMAIN <<>> = {}
  OBVIOUS
<1>3. \A u : Matched(policies \ remaining, u) = {}
  BY DEF Init, Matched
<1>4. Collected
  BY <1>2, <1>3 DEF Init, Collected
<1> QED
  BY <1>1, <1>4 DEF IInv

\* Policies, pods and the target do not change, and what depends on them.
LEMMA InputsStay ==
  ASSUME UNCHANGED inputs
  PROVE  /\ WellFormed(policies, pods, target) => WellFormed(policies, pods, target)'
         /\ UIDs' = UIDs
         /\ \A some, u : /\ Matched(some, u)' = Matched(some, u)
                         /\ RulesOf(some, u)' = RulesOf(some, u)
BY DEF inputs, WellFormed, UIDs, UID, Interfaces, Matched, RulesOf, Applies,
       PolicyAppliesForPod, AppliesForNetwork, NetworkListFromPolicy,
       renderEgressForInterface, RulesOfPeer, renderRulesWithSelectors, PeerPods,
       HostCidrs

\* A policy that has been visited adds its rules where it applies.
LEMMA VisitOne ==
  ASSUME NEW some, NEW policy, NEW u
  PROVE  /\ Matched(some \cup {policy}, u) # {} <=>
              Applies(policy, u[1]) \/ Matched(some, u) # {}
         /\ RulesOf(some \cup {policy}, u) =
              RulesOf(some, u) \cup
              (IF Applies(policy, u[1]) THEN renderEgressForInterface(u[1], policy) ELSE {})
<1>1. CASE Applies(policy, u[1])
  <2>1. Matched(some \cup {policy}, u) = Matched(some, u) \cup {policy}
    BY <1>1 DEF Matched
  <2> QED
    BY <1>1, <2>1 DEF RulesOf
<1>2. CASE ~Applies(policy, u[1])
  <2>1. Matched(some \cup {policy}, u) = Matched(some, u)
    BY <1>2 DEF Matched
  <2> QED
    BY <1>2, <2>1 DEF RulesOf
<1> QED
  BY <1>1, <1>2

LEMMA RenderPolicyIInv ==
  ASSUME IInv, NEW policy \in policies, RenderPolicy(policy)
  PROVE  IInv'
<1> DEFINE matched == {i \in Interfaces : /\ PolicyAppliesForPod(policy)
                                          /\ AppliesForNetwork(policy, i.network)}
           uids == {UID(i) : i \in matched}
           visited == policies \ remaining
<1>1. UNCHANGED inputs
  BY DEF RenderPolicy
<1>2. WellFormed(policies, pods, target)'
  BY <1>1, InputsStay DEF IInv
<1>3. policies' \ remaining' = visited \cup {policy}
  BY <1>1 DEF RenderPolicy, inputs, IInv, Collected
<1>4. uids = {u \in UIDs : Applies(policy, u[1])}
  BY DEF UIDs, UID, Applies
<1>5. /\ DOMAIN ruleSets = {u \in UIDs : Matched(visited, u) # {}}
      /\ \A u \in DOMAIN ruleSets : ruleSets[u] = RulesOf(visited, u)
  BY DEF RenderPolicy, IInv, Collected
<1>6. ruleSets' = [u \in DOMAIN ruleSets \cup uids |->
                     (IF u \in DOMAIN ruleSets THEN ruleSets[u] ELSE {}) \cup
                     (IF u \in uids THEN renderEgressForInterface(u[1], policy) ELSE {})]
  BY DEF RenderPolicy
<1> HIDE DEF uids, visited
<1>v. \A u :
        /\ Matched(visited \cup {policy}, u) # {} <=>
             Applies(policy, u[1]) \/ Matched(visited, u) # {}
        /\ RulesOf(visited \cup {policy}, u) =
             RulesOf(visited, u) \cup
             (IF Applies(policy, u[1]) THEN renderEgressForInterface(u[1], policy) ELSE {})
  BY VisitOne
<1>7. DOMAIN ruleSets' = {u \in UIDs : Matched(visited \cup {policy}, u) # {}}
  <2>1. DOMAIN ruleSets' = DOMAIN ruleSets \cup uids
    BY <1>6
  <2> QED
    BY <1>4, <1>5, <1>v, <2>1
<1>8. ASSUME NEW u \in DOMAIN ruleSets'
      PROVE  ruleSets'[u] = RulesOf(visited \cup {policy}, u)
  <2>1. u \in UIDs
    BY <1>7
  <2>2. (IF u \in DOMAIN ruleSets THEN ruleSets[u] ELSE {}) = RulesOf(visited, u)
    BY <1>5, <2>1 DEF RulesOf
  <2>3. ruleSets'[u] = (IF u \in DOMAIN ruleSets THEN ruleSets[u] ELSE {}) \cup
                       (IF u \in uids THEN renderEgressForInterface(u[1], policy) ELSE {})
    BY <1>6
  <2>4. (u \in uids) <=> Applies(policy, u[1])
    BY <1>4, <2>1
  <2> QED
    BY <2>2, <2>3, <2>4, <1>v
<1>9. /\ pc' = "render" /\ remaining' \subseteq policies' /\ DOMAIN filters' = {}
  BY <1>1 DEF RenderPolicy, inputs, IInv, Collected
<1>10. Collected'
  BY <1>1, <1>3, <1>7, <1>8, <1>9, InputsStay DEF Collected
<1> QED
  BY <1>2, <1>10 DEF IInv

LEMMA AppendEmptyIInv == IInv /\ AppendEmpty => IInv'
<1> SUFFICES ASSUME IInv, AppendEmpty PROVE IInv'
  OBVIOUS
<1>1. UNCHANGED inputs /\ UNCHANGED filters /\ UNCHANGED remaining
  BY DEF AppendEmpty
<1>2. policies \ remaining = policies
  BY DEF AppendEmpty
<1>3. /\ DOMAIN ruleSets = {u \in UIDs : Matched(policies, u) # {}}
      /\ \A u \in DOMAIN ruleSets : ruleSets[u] = RulesOf(policies, u)
      /\ DOMAIN filters = {} /\ remaining = {}
  BY <1>2 DEF AppendEmpty, IInv, Collected
<1>4. ruleSets' = [u \in UIDs |-> IF u \in DOMAIN ruleSets THEN ruleSets[u] ELSE NoRules]
  BY DEF AppendEmpty, UIDs
<1>5. \A u \in UIDs :
        ruleSets'[u] = IF Matched(policies, u) = {} THEN NoRules ELSE RulesOf(policies, u)
  BY <1>3, <1>4
<1>6. pc' = "generate" /\ policies' = policies
  BY <1>1 DEF AppendEmpty, inputs
<1>7. Collected'
  BY <1>1, <1>3, <1>4, <1>5, <1>6, InputsStay DEF Collected
<1>8. WellFormed(policies, pods, target)'
  BY <1>1, InputsStay DEF IInv
<1> QED
  BY <1>7, <1>8 DEF IInv

LEMMA GenerateIInv ==
  ASSUME IInv, NEW uid, Generate(uid)
  PROVE  IInv'
<1>1. UNCHANGED inputs
  BY DEF Generate
<1>2. WellFormed(policies, pods, target)'
  BY <1>1, InputsStay DEF IInv
<1>3. /\ pc = "generate" /\ pc' = "generate" /\ ruleSets' = ruleSets
      /\ remaining' = remaining /\ policies' = policies
  BY <1>1 DEF Generate, inputs
<1>4. /\ DOMAIN filters' \subseteq UIDs
      /\ \A u \in DOMAIN filters' : filters'[u] = GenerateFromPolicyRuleSet(ruleSets[u])
  BY <1>3 DEF Generate, IInv, Collected
<1>5. Collected'
  BY <1>1, <1>3, <1>4, InputsStay DEF IInv, Collected
<1> QED
  BY <1>2, <1>5 DEF IInv

LEMMA NextIInv == IInv /\ [Next]_vars => IInv'
<1> SUFFICES ASSUME IInv, [Next]_vars PROVE IInv'
  OBVIOUS
<1>1. CASE UNCHANGED vars
  <2>1. UNCHANGED inputs /\ UNCHANGED <<pc, remaining, ruleSets, filters>>
    BY <1>1 DEF vars
  <2>2. policies' = policies
    BY <2>1 DEF inputs
  <2>3. WellFormed(policies, pods, target)'
    BY <2>1, InputsStay DEF IInv
  <2>4. Collected'
    BY <2>1, <2>2, InputsStay DEF IInv, Collected
  <2> QED
    BY <2>3, <2>4 DEF IInv
<1> QED
  BY <1>1, RenderPolicyIInv, AppendEmptyIInv, GenerateIInv DEF Next

THEOREM Invariance == Spec => []IInv
<1>1. Init => IInv
  BY InitIInv
<1>2. IInv /\ [Next]_vars => IInv'
  BY NextIInv
<1> QED
  BY <1>1, <1>2, PTL DEF Spec

-----------------------------------------------------------------------------
\* Filters exist only once all rules are collected.
LEMMA Generated ==
  ASSUME IInv, NEW u \in DOMAIN filters
  PROVE  /\ u \in UIDs /\ u \in DOMAIN ruleSets
         /\ ruleSets[u] = IF Matched(policies, u) = {} THEN NoRules ELSE RulesOf(policies, u)
         /\ filters[u] = GenerateFromPolicyRuleSet(ruleSets[u])
BY DEF IInv, Collected

\* The order in which RenderEgress visits the policies does not matter.
THEOREM OrderIndependent == Spec => []OrderFree
<1>1. IInv => OrderFree
  <2> SUFFICES ASSUME IInv, NEW u \in DOMAIN filters
               PROVE  filters[u] = GenerateFromPolicyRuleSet(
                        IF Matched(policies, u) = {} THEN NoRules ELSE RulesOf(policies, u))
    BY DEF OrderFree, Matched, Applies, RulesOf
  <2> QED
    BY Generated
<1> QED
  BY <1>1, Invariance, PTL

-----------------------------------------------------------------------------
\* What the renderer makes of well-formed inputs is rules.
LEMMA GetPortsTyped ==
  ASSUME WellFormed(policies, pods, target), NEW p \in policies, NEW e \in p.egress
  PROVE  getPorts(e.ports) \subseteq Ports
BY RendererAssumption DEF WellFormed, getPorts, Supported, Ports

LEMMA HostCidrsTyped ==
  ASSUME WellFormed(policies, pods, target), NEW some \in SUBSET DOMAIN pods, NEW network
  PROVE  HostCidrs(some, network) \subseteq Cidrs
<1> SUFFICES ASSUME NEW c \in HostCidrs(some, network) PROVE c \in Cidrs
  OBVIOUS
<1>1. PICK p \in some : \E i \in pods[p].interfaces : \E a \in i.ips : c = {a}
  BY DEF HostCidrs
<1>2. PICK i \in pods[p].interfaces : \E a \in i.ips : c = {a}
  BY <1>1
<1>3. PICK a \in Addresses : c = {a}
  BY <1>2 DEF WellFormed
<1> QED
  BY <1>3 DEF Cidrs, Addresses

LEMMA RuleTyped ==
  ASSUME NEW cidrs \in SUBSET Cidrs, NEW ports \in SUBSET Ports
  PROVE  Pass(cidrs, ports) \in Rules /\ Drop(cidrs, ports) \in Rules
BY DEF Pass, Drop, Rules

LEMMA RulesOfPeerTyped ==
  ASSUME WellFormed(policies, pods, target), NEW p \in policies, NEW e \in p.egress,
         NEW peer \in e.to, NEW network
  PROVE  RulesOfPeer(peer, getPorts(e.ports), network, p.namespace) \subseteq Rules
<1> DEFINE ports == getPorts(e.ports)
<1>1. ports \in SUBSET Ports
  BY GetPortsTyped
<1> HIDE DEF ports
<1>2. CASE peer.kind = "ipBlock"
  <2>1. {peer.cidr} \cup peer.except \subseteq Cidrs \cup {Malformed}
    BY <1>2 DEF WellFormed
  <2>2. /\ peer.cidr # Malformed => Pass({peer.cidr}, ports) \in Rules
        /\ Drop(peer.except \ {Malformed}, ports) \in Rules
    BY <1>1, <2>1, RuleTyped
  <2> QED
    BY <1>2, <2>2 DEF ports, RulesOfPeer, renderRulesWithIPBlock
<1>3. CASE peer.kind = "selectors"
  <2>1. PeerPods(peer, p.namespace) \in SUBSET DOMAIN pods
    BY DEF PeerPods
  <2>2. Pass(HostCidrs(PeerPods(peer, p.namespace), network), ports) \in Rules
    BY <1>1, <2>1, HostCidrsTyped, RuleTyped
  <2> QED
    BY <1>3, <2>2 DEF ports, RulesOfPeer, renderRulesWithSelectors
<1>4. CASE peer.kind = "nothing"
  BY <1>4 DEF RulesOfPeer
<1> QED
  BY <1>2, <1>3, <1>4 DEF WellFormed

LEMMA RulesTyped ==
  ASSUME WellFormed(policies, pods, target), NEW u
  PROVE  RulesOf(policies, u) \in SUBSET Rules
<1> SUFFICES ASSUME NEW p \in policies, NEW r \in renderEgressForInterface(u[1], p)
             PROVE  r \in Rules
  BY DEF RulesOf, Matched
<1>1. PICK e \in p.egress :
        \/ e.to = {} /\ r = Pass({}, getPorts(e.ports))
        \/ \E peer \in e.to : r \in RulesOfPeer(peer, getPorts(e.ports), u[1], p.namespace)
  BY DEF renderEgressForInterface
<1>2. Pass({}, getPorts(e.ports)) \in Rules
  BY GetPortsTyped, RuleTyped
<1> QED
  BY <1>1, <1>2, RulesOfPeerTyped

LEMMA GeneratedTyped ==
  ASSUME NEW rules \in SUBSET Rules
  PROVE  GenerateFromPolicyRuleSet(rules) \subseteq Filters
<1>1. ASSUME NEW cidrs \in SUBSET Cidrs, NEW ports \in SUBSET Ports,
             NEW base \in {BasePrioDefault, BasePrioPass, BasePrioDrop},
             NEW action \in {"pass", "drop"},
             NEW f \in genFilters(cidrs, ports, base, action)
      PROVE  f \in Filters
  <2>1. PICK protocol \in FilterProtocols, vlan \in {Any} \cup Families,
             d \in {Any} \cup Cidrs, q \in {Any} \cup Ports :
          f = [protocol |-> protocol,
               priority |-> PrioFromBaseAndProtcol(base, protocol),
               vlanEthType |-> vlan, dstIP |-> d, dstPort |-> q, action |-> action]
    BY DEF genFilters, FamiliesOf, FilterProtocols, Families
  <2>2. PrioFromBaseAndProtcol(base, protocol) \in Nat
    BY BaseDecides
  <2> QED
    BY <2>1, <2>2 DEF Filters
<1>2. \A r \in rules : r.cidrs \in SUBSET Cidrs /\ r.ports \in SUBSET Ports
  BY DEF Rules
<1> QED
  BY <1>1, <1>2, FilterSource

\* The variables keep their types, for every input that is well formed.
THEOREM TypeCorrect == Spec => []TypeOK
<1>1. IInv => TypeOK
  <2> SUFFICES ASSUME IInv PROVE TypeOK
    OBVIOUS
  <2>1. target \in DOMAIN pods
    BY DEF IInv, WellFormed
  <2>2. ASSUME NEW u \in DOMAIN ruleSets
        PROVE  ruleSets[u] \in {NoRules} \cup SUBSET Rules
    <3>1. RulesOf(policies, u) \in SUBSET Rules
      BY RulesTyped DEF IInv
    <3>2. RulesOf(policies \ remaining, u) \subseteq RulesOf(policies, u)
      BY DEF RulesOf, Matched
    <3> QED
      BY <3>1, <3>2 DEF IInv, Collected
  <2>3. ASSUME NEW u \in DOMAIN filters
        PROVE  u \in DOMAIN ruleSets /\ filters[u] \subseteq Filters
    <3>1. /\ u \in DOMAIN ruleSets
          /\ filters[u] = GenerateFromPolicyRuleSet(ruleSets[u])
      BY Generated
    <3>2. CASE ruleSets[u] = NoRules
      BY <3>1, <3>2 DEF GenerateFromPolicyRuleSet
    <3>3. CASE ruleSets[u] \in SUBSET Rules
      BY <3>1, <3>3, GeneratedTyped
    <3> QED
      BY <2>2, <3>1, <3>2, <3>3
  <2>4. /\ pc \in {"render", "generate"} /\ remaining \subseteq policies
        /\ DOMAIN ruleSets \subseteq UIDs
        /\ pc = "generate" => DOMAIN ruleSets = UIDs
    BY DEF IInv, Collected
  <2> QED
    BY <2>1, <2>2, <2>3, <2>4 DEF TypeOK, UIDs
<1> QED
  BY <1>1, Invariance, PTL

-----------------------------------------------------------------------------
\* The rules of an interface, or nil.
LEMMA RuleSetsTyped ==
  ASSUME IInv, NEW u \in DOMAIN filters
  PROVE  /\ filters[u] = GenerateFromPolicyRuleSet(ruleSets[u])
         /\ ruleSets[u] = NoRules \/ ruleSets[u] \in SUBSET Rules
BY Generated, RulesTyped DEF IInv

\* Priorities tell actions and protocols apart, and an interface with rules
\* is closed by default.
THEOREM Priorities == Spec => []PrioritiesDecide
<1>1. IInv => PrioritiesDecide
  <2> SUFFICES ASSUME IInv, NEW u \in DOMAIN filters
               PROVE  /\ \A f, g \in filters[u] :
                           f.priority = g.priority =>
                             f.protocol = g.protocol /\ f.action = g.action
                      /\ ruleSets[u] # NoRules => genDefaultFilters \subseteq filters[u]
    BY DEF PrioritiesDecide
  <2>1. CASE ruleSets[u] = NoRules
    BY <2>1, RuleSetsTyped DEF GenerateFromPolicyRuleSet
  <2>2. CASE ruleSets[u] \in SUBSET Rules
    <3>1. genDefaultFilters \subseteq filters[u]
      BY <2>2, RuleSetsTyped, FilterSource DEF genDefaultFilters
    <3>2. ASSUME NEW f \in filters[u]
          PROVE  \E base \in {BasePrioDefault, BasePrioPass, BasePrioDrop} :
                   /\ f.protocol \in FilterProtocols
                   /\ f.priority = PrioFromBaseAndProtcol(base, f.protocol)
                   /\ f.action = IF base = BasePrioPass THEN "pass" ELSE "drop"
      <4>1. BasePrioDefault # BasePrioPass /\ BasePrioDrop # BasePrioPass
        BY DEF BasePrioDefault, BasePrioPass, BasePrioDrop
      <4>2. f \in GenerateFromPolicyRuleSet(ruleSets[u])
        BY RuleSetsTyped
      <4>3. CASE f \in genFilters({}, {}, BasePrioDefault, "drop")
        BY <4>1, <4>3, FilterShape
      <4>4. ASSUME NEW r \in ruleSets[u],
                   f \in genFilters(r.cidrs, r.ports, BasePrioPass, "pass")
            PROVE  /\ f.protocol \in FilterProtocols
                   /\ f.priority = PrioFromBaseAndProtcol(BasePrioPass, f.protocol)
                   /\ f.action = "pass"
        BY <4>4, FilterShape
      <4>5. ASSUME NEW r \in ruleSets[u],
                   f \in genFilters(r.cidrs, r.ports, BasePrioDrop, "drop")
            PROVE  /\ f.protocol \in FilterProtocols
                   /\ f.priority = PrioFromBaseAndProtcol(BasePrioDrop, f.protocol)
                   /\ f.action = "drop"
        BY <4>5, FilterShape
      <4> QED
        BY <2>2, <4>1, <4>2, <4>3, <4>4, <4>5, FilterSource
    <3>3. ASSUME NEW f \in filters[u], NEW g \in filters[u], f.priority = g.priority
          PROVE  f.protocol = g.protocol /\ f.action = g.action
      <4>1. PICK a \in {BasePrioDefault, BasePrioPass, BasePrioDrop} :
              /\ f.protocol \in FilterProtocols
              /\ f.priority = PrioFromBaseAndProtcol(a, f.protocol)
              /\ f.action = IF a = BasePrioPass THEN "pass" ELSE "drop"
        BY <3>2
      <4>2. PICK b \in {BasePrioDefault, BasePrioPass, BasePrioDrop} :
              /\ g.protocol \in FilterProtocols
              /\ g.priority = PrioFromBaseAndProtcol(b, g.protocol)
              /\ g.action = IF b = BasePrioPass THEN "pass" ELSE "drop"
        BY <3>2
      <4>3. PrioFromBaseAndProtcol(a, f.protocol) = PrioFromBaseAndProtcol(b, g.protocol)
        BY <3>3, <4>1, <4>2
      <4>4. f.protocol \in FilterProtocols /\ g.protocol \in FilterProtocols
        BY <4>1, <4>2
      <4>5. a = b /\ f.protocol = g.protocol
        BY <4>3, <4>4, BaseDecides
      <4> QED
        BY <4>1, <4>2, <4>5
    <3> QED
      BY <3>1, <3>3
  <2> QED
    BY <2>1, <2>2, RuleSetsTyped
<1> QED
  BY <1>1, Invariance, PTL

\* A verdict looks at destination and port only.
LEMMA VerdictIgnoresTag ==
  ASSUME NEW rules, NEW x \in Packets
  PROVE  /\ [x EXCEPT !.tagged = ~@] \in Packets
         /\ Verdict(rules, [x EXCEPT !.tagged = ~@]) <=> Verdict(rules, x)
<1> DEFINE y == [x EXCEPT !.tagged = ~@]
<1>1. y \in Packets
  BY DEF Packets
<1>2. y.dst = x.dst /\ y.port = x.port
  BY DEF Packets
<1> HIDE DEF y
<1>3. Verdict(rules, y) <=> Verdict(rules, x)
  BY <1>2 DEF Verdict, Covers
<1> QED
  BY <1>1, <1>3 DEF y

\* Tagged and untagged packets meet the same verdict.
THEOREM TagBlind == Spec => []TagsDoNotMatter
<1>1. IInv => TagsDoNotMatter
  <2> SUFFICES ASSUME IInv, NEW u \in DOMAIN filters, NEW x \in Packets
               PROVE  x \in Admits(filters[u]) <=>
                        [x EXCEPT !.tagged = ~@] \in Admits(filters[u])
    BY DEF TagsDoNotMatter
  <2>1. CASE ruleSets[u] = NoRules
    <3>1. filters[u] = {}
      BY <2>1, RuleSetsTyped DEF GenerateFromPolicyRuleSet
    <3>2. Admits(filters[u]) = Packets
      BY <3>1 DEF Admits
    <3> QED
      BY <3>2, VerdictIgnoresTag
  <2>2. CASE ruleSets[u] \in SUBSET Rules
    <3>1. Admits(filters[u]) = {y \in Packets : Verdict(ruleSets[u], y)}
      BY <2>2, RuleSetsTyped, GeneratedVerdict
    <3> QED
      BY <3>1, VerdictIgnoresTag
  <2> QED
    BY <2>1, <2>2, RuleSetsTyped
<1> QED
  BY <1>1, Invariance, PTL

-----------------------------------------------------------------------------
\* From here on, what the code computes against what the CRD says.

\* Selectors that convert select what the CRD says.
LEMMA SelectorsAgree ==
  ASSUME NEW selector, NEW labels, Mappable(selector)
  PROVE  Selects(selector, labels) <=> SelectsByCRD(selector, labels)
BY DEF Mappable, Selects, SelectsByCRD

LEMMA NetworksAgree ==
  ASSUME WellFormed(policies, pods, target), NEW p \in policies, NEW i \in Interfaces
  PROVE  Targets(p, i.network) <=> /\ p.namespace = pods[target].namespace
                                   /\ AppliesForNetwork(p, i.network)
<1>1. /\ i.network = <<i.network[1], i.network[2]>> /\ i.network[1] # Nil
      /\ \A n \in p.policyFor : n = <<n[1], n[2]>>
  BY DEF WellFormed, Interfaces
<1>2. ASSUME NEW n \in p.policyFor
      PROVE  \/ n = i.network
             \/ n = <<Nil, i.network[2]>> /\ i.network[1] = p.namespace
             <=> i.network = IF n[1] = Nil THEN <<p.namespace, n[2]>> ELSE n
  <2>1. CASE n[1] = Nil
    BY <1>1, <2>1
  <2>2. CASE n[1] # Nil
    BY <1>1, <2>2
  <2> QED
    BY <2>1, <2>2
<1> QED
  BY <1>2 DEF Targets, AppliesForNetwork, NetworkListFromPolicy

\* For plain policies, those that apply are those of the CRD.
LEMMA ApplyingAgree ==
  ASSUME WellFormed(policies, pods, target), NEW i \in Interfaces, Plain(i.network)
  PROVE  Applying(i.network) = {p \in policies : Applies(p, i.network)}
<1> SUFFICES ASSUME NEW p \in policies
             PROVE  /\ Targets(p, i.network)
                    /\ SelectsByCRD(p.podSelector, pods[target].labels)
                    /\ AffectsEgress(p)
                    <=> Applies(p, i.network)
  BY DEF Applying
<1>1. Targets(p, i.network) =>
        Mappable(p.podSelector) /\ (PolicyAppliesForPod(p) => AffectsEgress(p))
  BY DEF Plain
<1> QED
  BY <1>1, NetworksAgree, SelectorsAgree DEF Applies, PolicyAppliesForPod

\* Ports the code supports are kept as they are.
LEMMA PortsAgree ==
  ASSUME NEW e, \A q \in e.ports : Supported(q), NEW x \in Packets
  PROVE  PortListed(e, x.port) <=> getPorts(e.ports) = {} \/ x.port \in getPorts(e.ports)
<1>1. {q \in e.ports : Supported(q)} = e.ports
  OBVIOUS
<1>2. getPorts(e.ports) = {} <=> e.ports = {}
  BY <1>1 DEF getPorts
<1>3. x.port = [protocol |-> x.port.protocol, number |-> x.port.number]
  BY DEF Packets
<1>4. \A q \in e.ports : q.number # Nil
  BY RendererAssumption DEF Supported
<1>5. x.port \in getPorts(e.ports) <=>
        \E q \in e.ports : /\ q.number \in {Nil, x.port.number}
                           /\ x.port.protocol = IF q.protocol = Nil THEN "tcp" ELSE q.protocol
  BY <1>1, <1>3, <1>4 DEF getPorts
<1> QED
  BY <1>2, <1>5 DEF PortListed

\* A selector peer stands for the addresses of its pods on the network.
LEMMA PeersAgree ==
  ASSUME NEW peer, peer.kind = "selectors", Mappable(peer.podSel), Mappable(peer.nsSel),
         NEW namespace, NEW network, NEW dst
  PROVE  PeerHas(peer, namespace, network, dst)
         <=> \E c \in HostCidrs(PeerPods(peer, namespace), network) : dst \in c
<1>1. ASSUME NEW p \in DOMAIN pods
      PROVE  p \in PeerPods(peer, namespace) <=>
               /\ SelectsByCRD(peer.podSel, pods[p].labels)
               /\ \/ peer.nsSel = Nil /\ pods[p].namespace = namespace
                  \/ peer.nsSel # Nil /\ peer.nsSel.wanted \cup peer.nsSel.unwanted = {}
                  \/ /\ peer.nsSel # Nil
                     /\ pods[p].namespace \in DOMAIN namespaces
                     /\ SelectsByCRD(peer.nsSel, namespaces[pods[p].namespace])
  <2>1. Selects(peer.podSel, pods[p].labels) <=> SelectsByCRD(peer.podSel, pods[p].labels)
    BY SelectorsAgree
  <2>2. Selects(peer.nsSel, namespaces[pods[p].namespace])
        <=> SelectsByCRD(peer.nsSel, namespaces[pods[p].namespace])
    BY SelectorsAgree
  <2>3. peer.nsSel # Nil =>
          (peer.nsSel.wanted = {} <=> peer.nsSel.wanted \cup peer.nsSel.unwanted = {})
    BY DEF Mappable
  <2> QED
    BY <2>1, <2>2, <2>3 DEF PeerPods
<1>2. (\E c \in HostCidrs(PeerPods(peer, namespace), network) : dst \in c) <=>
        \E p \in PeerPods(peer, namespace) :
          \E i \in pods[p].interfaces : i.network = network /\ dst \in i.ips
  <2> DEFINE addresses == UNION {UNION {i.ips : i \in {j \in pods[p].interfaces :
                                                       j.network = network}}
                                 : p \in PeerPods(peer, namespace)}
  <2>1. dst \in addresses <=>
          \E p \in PeerPods(peer, namespace) :
            \E i \in pods[p].interfaces : i.network = network /\ dst \in i.ips
    OBVIOUS
  <2>2. HostCidrs(PeerPods(peer, namespace), network) = {{a} : a \in addresses}
    BY DEF HostCidrs
  <2> HIDE DEF addresses
  <2>3. (\E c \in {{a} : a \in addresses} : dst \in c) <=> dst \in addresses
    OBVIOUS
  <2> QED
    BY <2>1, <2>2, <2>3
<1>3. PeerPods(peer, namespace) \subseteq DOMAIN pods
  BY DEF PeerPods
<1>4. PeerHas(peer, namespace, network, dst) <=>
        \E p \in DOMAIN pods : /\ p \in PeerPods(peer, namespace)
                               /\ \E i \in pods[p].interfaces :
                                    i.network = network /\ dst \in i.ips
  BY <1>1 DEF PeerHas
<1> QED
  BY <1>2, <1>3, <1>4

\* Where a rule of an interface comes from.
LEMMA RuleSource ==
  ASSUME NEW u, NEW r
  PROVE  r \in RulesOf(policies, u) <=>
           \E p \in Matched(policies, u) : \E e \in p.egress :
             \/ e.to = {} /\ r = Pass({}, getPorts(e.ports))
             \/ \E peer \in e.to : r \in RulesOfPeer(peer, getPorts(e.ports), u[1], p.namespace)
<1>1. ASSUME NEW p
      PROVE  r \in renderEgressForInterface(u[1], p) <=>
               \E e \in p.egress :
                 \/ e.to = {} /\ r = Pass({}, getPorts(e.ports))
                 \/ \E peer \in e.to :
                      r \in RulesOfPeer(peer, getPorts(e.ports), u[1], p.namespace)
  <2> DEFINE R(e) == IF e.to = {}
                     THEN {Pass({}, getPorts(e.ports))}
                     ELSE UNION {RulesOfPeer(peer, getPorts(e.ports), u[1], p.namespace)
                                 : peer \in e.to}
  <2>1. renderEgressForInterface(u[1], p) = UNION {R(e) : e \in p.egress}
    BY DEF renderEgressForInterface
  <2>2. ASSUME NEW e \in p.egress
        PROVE  r \in R(e) <=>
                 \/ e.to = {} /\ r = Pass({}, getPorts(e.ports))
                 \/ \E peer \in e.to :
                      r \in RulesOfPeer(peer, getPorts(e.ports), u[1], p.namespace)
    OBVIOUS
  <2> HIDE DEF R
  <2> QED
    BY <2>1, <2>2
<1> QED
  BY <1>1 DEF RulesOf

\* A listed packet is covered by a pass rule.
LEMMA ListedIsPassed ==
  ASSUME WellFormed(policies, pods, target), NEW u,
         NEW p \in Matched(policies, u), NEW e \in p.egress, NEW x \in Packets,
         \A q \in e.ports : Supported(q),
         \A peer \in e.to : peer.kind = "selectors" =>
           Mappable(peer.podSel) /\ Mappable(peer.nsSel),
         DestinationListed(e, p.namespace, u[1], x.dst), PortListed(e, x.port)
  PROVE  \E r \in RulesOf(policies, u) : r.action = "pass" /\ Covers(r.cidrs, r.ports, x)
<1> DEFINE ports == getPorts(e.ports)
<1>1. ports = {} \/ x.port \in ports
  BY PortsAgree
<1> HIDE DEF ports
<1>2. CASE e.to = {}
  <2>1. Pass({}, ports) \in RulesOf(policies, u)
    BY <1>2, RuleSource DEF ports
  <2> QED
    BY <1>1, <2>1 DEF Pass, Covers
<1>3. ASSUME NEW peer \in e.to, PeerHas(peer, p.namespace, u[1], x.dst)
      PROVE  \E r \in RulesOf(policies, u) : r.action = "pass" /\ Covers(r.cidrs, r.ports, x)
  <2>1. CASE peer.kind = "ipBlock"
    <3>1. peer.cidr # Malformed /\ x.dst \in peer.cidr
      BY <1>3, <2>1 DEF PeerHas
    <3>2. Pass({peer.cidr}, ports) \in RulesOfPeer(peer, ports, u[1], p.namespace)
      BY <2>1, <3>1 DEF RulesOfPeer, renderRulesWithIPBlock
    <3>3. Pass({peer.cidr}, ports) \in RulesOf(policies, u)
      BY <3>2, RuleSource DEF ports
    <3> QED
      BY <1>1, <3>1, <3>3 DEF Pass, Covers
  <2>2. CASE peer.kind = "selectors"
    <3> DEFINE cidrs == HostCidrs(PeerPods(peer, p.namespace), u[1])
    <3>1. Mappable(peer.podSel) /\ Mappable(peer.nsSel)
      BY <2>2
    <3>2. PICK c \in cidrs : x.dst \in c
      BY <1>3, <2>2, <3>1, PeersAgree
    <3> HIDE DEF cidrs
    <3>3. Pass(cidrs, ports) \in RulesOfPeer(peer, ports, u[1], p.namespace)
      BY <2>2, <3>1, <3>2 DEF RulesOfPeer, renderRulesWithSelectors, cidrs
    <3>4. Pass(cidrs, ports) \in RulesOf(policies, u)
      BY <3>3, RuleSource DEF ports
    <3> QED
      BY <1>1, <3>2, <3>4 DEF Pass, Covers
  <2>3. peer.kind # "nothing"
    BY <1>3 DEF PeerHas
  <2> QED
    BY <2>1, <2>2, <2>3 DEF WellFormed, Matched
<1> QED
  BY <1>2, <1>3 DEF DestinationListed

\* A drop rule comes from the exceptions of a block.
LEMMA DropSource ==
  ASSUME WellFormed(policies, pods, target), NEW u,
         NEW r \in RulesOf(policies, u), r.action = "drop",
         NEW x \in Packets, Covers(r.cidrs, r.ports, x)
  PROVE  \E p \in Matched(policies, u) : \E e \in p.egress : \E peer \in e.to :
           /\ peer.kind = "ipBlock" /\ peer.cidr # Malformed
           /\ \E c \in peer.except \ {Malformed} : x.dst \in c
           /\ getPorts(e.ports) = {} \/ x.port \in getPorts(e.ports)
<1>0. PICK p \in Matched(policies, u) : \E e \in p.egress :
        \/ e.to = {} /\ r = Pass({}, getPorts(e.ports))
        \/ \E peer \in e.to : r \in RulesOfPeer(peer, getPorts(e.ports), u[1], p.namespace)
  BY RuleSource
<1>1. PICK e \in p.egress :
        \/ e.to = {} /\ r = Pass({}, getPorts(e.ports))
        \/ \E peer \in e.to : r \in RulesOfPeer(peer, getPorts(e.ports), u[1], p.namespace)
  BY <1>0
<1>2. \A cidrs, ports : r # Pass(cidrs, ports)
  BY DEF Pass
<1>3. PICK peer \in e.to : r \in RulesOfPeer(peer, getPorts(e.ports), u[1], p.namespace)
  BY <1>1, <1>2
<1>4. r \notin renderRulesWithSelectors(peer, getPorts(e.ports), u[1], p.namespace)
  BY <1>2 DEF renderRulesWithSelectors
<1>5. peer.kind \in {"ipBlock", "selectors", "nothing"}
  BY DEF WellFormed, Matched
<1>6. peer.kind = "ipBlock" /\ r \in renderRulesWithIPBlock(peer, getPorts(e.ports))
  BY <1>3, <1>4, <1>5 DEF RulesOfPeer
<1>7. /\ peer.cidr # Malformed /\ peer.except \ {Malformed} # {}
      /\ r = Drop(peer.except \ {Malformed}, getPorts(e.ports))
  BY <1>2, <1>6 DEF renderRulesWithIPBlock
<1>8. r.cidrs = peer.except \ {Malformed} /\ r.ports = getPorts(e.ports)
  BY <1>7 DEF Drop
<1> QED
  BY <1>6, <1>7, <1>8 DEF Covers

\* A packet that a pass rule covers and no drop rule does is listed.
LEMMA PassedIsListed ==
  ASSUME WellFormed(policies, pods, target), NEW u,
         NEW p \in Matched(policies, u), NEW e \in p.egress, NEW x \in Packets,
         \A q \in e.ports : Supported(q),
         \A peer \in e.to : peer.kind = "selectors" =>
           /\ Mappable(peer.podSel) /\ Mappable(peer.nsSel)
           /\ e.ports # {} =>
                \E a \in Addresses : PeerHas(peer, p.namespace, u[1], a),
         NEW r, r.action = "pass", Covers(r.cidrs, r.ports, x),
         \/ e.to = {} /\ r = Pass({}, getPorts(e.ports))
         \/ \E peer \in e.to : r \in RulesOfPeer(peer, getPorts(e.ports), u[1], p.namespace),
         \A s \in RulesOf(policies, u) : s.action = "drop" => ~Covers(s.cidrs, s.ports, x)
  PROVE  DestinationListed(e, p.namespace, u[1], x.dst) /\ PortListed(e, x.port)
<1> DEFINE ports == getPorts(e.ports)
<1>2. (PortListed(e, x.port) <=> ports = {} \/ x.port \in ports) /\ (ports # {} => e.ports # {})
  BY PortsAgree DEF getPorts
<1> HIDE DEF ports
<1>3. CASE e.to = {} /\ r = Pass({}, ports)
  BY <1>2, <1>3 DEF Pass, Covers, DestinationListed
<1>4. ASSUME NEW peer \in e.to, r \in RulesOfPeer(peer, ports, u[1], p.namespace)
      PROVE  PeerHas(peer, p.namespace, u[1], x.dst) /\ PortListed(e, x.port)
  <2>1. peer.kind \in {"ipBlock", "selectors", "nothing"}
    BY DEF WellFormed, Matched
  <2>2. CASE peer.kind = "ipBlock"
    <3>1. /\ peer.cidr # Malformed
          /\ r \in {Pass({peer.cidr}, ports), Drop(peer.except \ {Malformed}, ports)}
      BY <1>4, <2>2 DEF RulesOfPeer, renderRulesWithIPBlock
    <3>2. r = Pass({peer.cidr}, ports)
      BY <3>1 DEF Drop
    <3>3. x.dst \in peer.cidr /\ (ports = {} \/ x.port \in ports)
      BY <3>2 DEF Pass, Covers
    <3>4. ASSUME NEW c \in peer.except \ {Malformed}, x.dst \in c
          PROVE  FALSE
      <4> DEFINE drop == Drop(peer.except \ {Malformed}, ports)
      <4>1. drop \in RulesOfPeer(peer, ports, u[1], p.namespace)
        BY <2>2, <3>1, <3>4 DEF RulesOfPeer, renderRulesWithIPBlock
      <4>2. drop \in RulesOf(policies, u)
        BY <4>1, RuleSource DEF ports
      <4>3. drop.action = "drop" /\ Covers(drop.cidrs, drop.ports, x)
        BY <3>3, <3>4 DEF Drop, Covers
      <4> QED
        BY <4>2, <4>3
    <3> QED
      BY <1>2, <2>2, <3>1, <3>3, <3>4 DEF PeerHas
  <2>3. CASE peer.kind = "selectors"
    <3> DEFINE cidrs == HostCidrs(PeerPods(peer, p.namespace), u[1])
    <3>1. Mappable(peer.podSel) /\ Mappable(peer.nsSel)
      BY <2>3
    <3>2. \A a : PeerHas(peer, p.namespace, u[1], a) <=> \E c \in cidrs : a \in c
      BY <2>3, <3>1, PeersAgree
    <3>3. r = Pass(cidrs, ports) /\ ~(cidrs = {} /\ ports = {})
      BY <1>4, <2>3 DEF RulesOfPeer, renderRulesWithSelectors
    <3> HIDE DEF cidrs
    <3>4. cidrs # {}
      BY <1>2, <2>3, <3>2, <3>3
    <3>5. (\E c \in cidrs : x.dst \in c) /\ (ports = {} \/ x.port \in ports)
      BY <3>3, <3>4 DEF Pass, Covers
    <3> QED
      BY <1>2, <3>2, <3>5
  <2>4. CASE peer.kind = "nothing"
    BY <1>4, <2>4 DEF RulesOfPeer
  <2> QED
    BY <2>1, <2>2, <2>3, <2>4
<1> QED
  BY <1>3, <1>4 DEF ports, DestinationListed

\* For plain policies, the rules' verdict is the CRD's.
LEMMA VerdictIsListed ==
  ASSUME WellFormed(policies, pods, target), NEW i \in Interfaces, NEW name, NEW u,
         u = <<i.network, name>>, Plain(i.network), NEW x \in Packets
  PROVE  Verdict(RulesOf(policies, u), x) <=> Listed(i.network, x)
<1>0. u[1] = i.network
  OBVIOUS
<1>1. Applying(i.network) = Matched(policies, u)
  BY <1>0, ApplyingAgree DEF Matched
<1>2. \A p \in Matched(policies, u) : \A e \in p.egress :
        /\ \A q \in e.ports : Supported(q)
        /\ \A peer \in e.to :
             /\ peer.kind = "selectors" =>
                  /\ Mappable(peer.podSel) /\ Mappable(peer.nsSel)
                  /\ e.ports # {} =>
                       \E a \in Addresses : PeerHas(peer, p.namespace, i.network, a)
             /\ peer.kind = "ipBlock" /\ peer.cidr # Malformed =>
                  \A y \in Packets : /\ \E c \in peer.except \ {Malformed} : y.dst \in c
                                     /\ PortListed(e, y.port)
                                     => ~Listed(i.network, y)
  <2>1. \A p \in Matched(policies, u) :
          p \in policies /\ Targets(p, i.network) /\ PolicyAppliesForPod(p)
    BY <1>0, <1>1 DEF Applying, Matched, Applies
  <2> QED
    BY <2>1 DEF Plain
<1>3. ASSUME Verdict(RulesOf(policies, u), x) PROVE Listed(i.network, x)
  <2>1. PICK r \in RulesOf(policies, u) : r.action = "pass" /\ Covers(r.cidrs, r.ports, x)
    BY <1>3 DEF Verdict
  <2>2. PICK p \in Matched(policies, u) : \E e \in p.egress :
          \/ e.to = {} /\ r = Pass({}, getPorts(e.ports))
          \/ \E peer \in e.to : r \in RulesOfPeer(peer, getPorts(e.ports), u[1], p.namespace)
    BY RuleSource
  <2>3. PICK e \in p.egress :
          \/ e.to = {} /\ r = Pass({}, getPorts(e.ports))
          \/ \E peer \in e.to : r \in RulesOfPeer(peer, getPorts(e.ports), u[1], p.namespace)
    BY <2>2
  <2>4. \A s \in RulesOf(policies, u) : s.action = "drop" => ~Covers(s.cidrs, s.ports, x)
    BY <1>3 DEF Verdict
  <2>5. DestinationListed(e, p.namespace, u[1], x.dst) /\ PortListed(e, x.port)
    BY <1>0, <1>2, <2>1, <2>3, <2>4, PassedIsListed
  <2> QED
    BY <1>0, <1>1, <2>5 DEF Listed
<1>4. ASSUME Listed(i.network, x) PROVE Verdict(RulesOf(policies, u), x)
  <2>1. PICK p \in Matched(policies, u) : \E e \in p.egress :
          DestinationListed(e, p.namespace, u[1], x.dst) /\ PortListed(e, x.port)
    BY <1>0, <1>1, <1>4 DEF Listed
  <2>2. PICK e \in p.egress :
          DestinationListed(e, p.namespace, u[1], x.dst) /\ PortListed(e, x.port)
    BY <2>1
  <2>3. \E r \in RulesOf(policies, u) : r.action = "pass" /\ Covers(r.cidrs, r.ports, x)
    BY <1>2, <2>2, ListedIsPassed
  <2>4. ASSUME NEW s \in RulesOf(policies, u), s.action = "drop", Covers(s.cidrs, s.ports, x)
        PROVE  FALSE
    <3>1. PICK q \in Matched(policies, u) : \E f \in q.egress : \E peer \in f.to :
            /\ peer.kind = "ipBlock" /\ peer.cidr # Malformed
            /\ \E c \in peer.except \ {Malformed} : x.dst \in c
            /\ getPorts(f.ports) = {} \/ x.port \in getPorts(f.ports)
      BY <2>4, DropSource
    <3>2. PICK f \in q.egress : \E peer \in f.to :
            /\ peer.kind = "ipBlock" /\ peer.cidr # Malformed
            /\ \E c \in peer.except \ {Malformed} : x.dst \in c
            /\ getPorts(f.ports) = {} \/ x.port \in getPorts(f.ports)
      BY <3>1
    <3>3. PortListed(f, x.port)
      BY <1>2, <3>2, PortsAgree
    <3> QED
      BY <1>2, <1>4, <3>2, <3>3
  <2> QED
    BY <2>3, <2>4 DEF Verdict
<1> QED
  BY <1>3, <1>4

\* From policies to packets: for plain policies the filters of every
\* interface admit exactly what the CRD says.
THEOREM Enforcement == Spec => []EnforcesPolicies
<1>1. IInv => EnforcesPolicies
  <2> SUFFICES ASSUME IInv, NEW u \in DOMAIN filters, Plain(u[1])
               PROVE  Admits(filters[u]) = Allowed(u[1])
    BY DEF EnforcesPolicies
  <2>1. PICK i \in Interfaces : u = <<i.network, i.name>>
    BY Generated DEF UIDs, UID
  <2>2. u[1] = i.network /\ WellFormed(policies, pods, target)
    BY <2>1 DEF IInv
  <2>3. Applying(i.network) = Matched(policies, u)
    BY <2>2, ApplyingAgree DEF Matched
  <2>4. filters[u] = GenerateFromPolicyRuleSet(
          IF Matched(policies, u) = {} THEN NoRules ELSE RulesOf(policies, u))
    BY Generated
  <2>5. CASE Matched(policies, u) = {}
    <3>1. Admits(filters[u]) = Packets
      BY <2>4, <2>5 DEF GenerateFromPolicyRuleSet, Admits
    <3> QED
      BY <2>2, <2>3, <2>5, <3>1 DEF Allowed
  <2>6. CASE Matched(policies, u) # {}
    <3>1. RulesOf(policies, u) \in SUBSET Rules
      BY <2>2, RulesTyped
    <3>2. Admits(filters[u]) = {x \in Packets : Verdict(RulesOf(policies, u), x)}
      BY <2>4, <2>6, <3>1, GeneratedVerdict
    <3>3. \A x \in Packets : Verdict(RulesOf(policies, u), x) <=> Listed(i.network, x)
      BY <2>1, <2>2, VerdictIsListed
    <3>4. Allowed(i.network) = {x \in Packets : Listed(i.network, x)}
      BY <2>3, <2>6 DEF Allowed
    <3> QED
      BY <2>2, <3>2, <3>3, <3>4
  <2> QED
    BY <2>5, <2>6
<1> QED
  BY <1>1, Invariance, PTL
=============================================================================
