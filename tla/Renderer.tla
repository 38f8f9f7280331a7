------------------------------ MODULE Renderer ------------------------------
(***************************************************************************)
(* What one sync does for one pod before it touches the kernel.            *)
(* RenderEgress turns the policies that apply to the pod's interfaces into *)
(* rules, policy after policy in the order of a Go map, which is any order;*)
(* the generator turns the rules of each interface into filters.           *)
(***************************************************************************)
EXTENDS Generator

CONSTANTS
  Inputs,     \* what the sync loop may call RenderEgress with
  Nil,        \* a nil pointer (selector, protocol, port); no namespace given
  Malformed   \* a CIDR that does not parse

VARIABLES
  policies,   \* the values of the PolicyMap
  pods,       \* PodMap
  namespaces, \* NamespaceMap: the labels of the namespaces in it
  target,     \* the pod, a key of pods
  pc,
  remaining,  \* policies the loop has yet to visit
  ruleSets,   \* policyRulesMap: rules per interface UID
  filters     \* per interface UID, what was generated

inputs == <<policies, pods, namespaces, target>>

\* What the API server's validation and newPodInfo guarantee of them.
WellFormed(policySet, podMap, pod) ==
  /\ pod \in DOMAIN podMap
  /\ \A p \in DOMAIN podMap : \A i \in podMap[p].interfaces :
       /\ i.network = <<i.network[1], i.network[2]>> /\ i.network[1] # Nil
       /\ i.ips \subseteq Addresses
  /\ \A p \in policySet :
       /\ \A n \in p.policyFor : n = <<n[1], n[2]>>
       /\ \A r \in p.egress :
            /\ \A port \in r.ports : port.protocol \in {Nil, "tcp", "udp", "sctp"}
            /\ \A peer \in r.to :
                 /\ peer.kind \in {"ipBlock", "selectors", "nothing"}
                 /\ peer.kind = "ipBlock" =>
                      {peer.cidr} \cup peer.except \subseteq Cidrs \cup {Malformed}

ASSUME RendererAssumption ==
  /\ Nil \notin {"tcp", "udp", "sctp"} /\ Nil \notin Numbers
  /\ \A i \in Inputs : WellFormed(i.policies, i.pods, i.target)

vars == <<inputs, pc, remaining, ruleSets, filters>>

Init ==
  /\ \E i \in Inputs : /\ policies = i.policies
                       /\ pods = i.pods
                       /\ namespaces = i.namespaces
                       /\ target = i.target
  /\ pc = "render"
  /\ remaining = policies
  /\ ruleSets = <<>>
  /\ filters = <<>>

-----------------------------------------------------------------------------
\* InterfaceInfo.GetUID.
UID(ifc) == <<ifc.network, ifc.name>>

Interfaces == pods[target].interfaces

\* A label selector demands some labels and forbids others (matchExpressions
\* stand here for those that LabelSelectorAsMap refuses to convert).
Mappable(selector) == selector = Nil \/ selector.unwanted = {}

\* A converted selector; nil selects everything.
Selects(selector, labels) == selector = Nil \/ selector.wanted \subseteq labels

\* The networks of the policy-for annotation; those without a namespace are
\* in the policy's.
NetworkListFromPolicy(policy) ==
  {IF n[1] = Nil THEN <<policy.namespace, n[2]>> ELSE n : n \in policy.policyFor}

\* A policy whose selector does not convert is logged and skipped.
PolicyAppliesForPod(policy) ==
  /\ policy.namespace = pods[target].namespace
  /\ Mappable(policy.podSelector)
  /\ Selects(policy.podSelector, pods[target].labels)

AppliesForNetwork(policy, network) == network \in NetworkListFromPolicy(policy)

-----------------------------------------------------------------------------
\* Ports the code understands; the others are logged and left out.
Supported(port) == port.number \in Numbers /\ port.protocol # "sctp"

getPorts(ports) ==
  {[protocol |-> IF p.protocol = Nil THEN "tcp" ELSE p.protocol,
    number |-> p.number] : p \in {q \in ports : Supported(q)}}

Pass(cidrs, ports) == [cidrs |-> cidrs, ports |-> ports, action |-> "pass"]
Drop(cidrs, ports) == [cidrs |-> cidrs, ports |-> ports, action |-> "drop"]

renderRulesWithIPBlock(peer, ports) ==
  LET except == peer.except \ {Malformed}
  IN  IF peer.cidr = Malformed
      THEN {}
      ELSE {Pass({peer.cidr}, ports)} \cup
           (IF except = {} THEN {} ELSE {Drop(except, ports)})

\* Mutant: with a namespace selector, the pod selector is not looked at.
PeerPodsEither(peer, namespace) ==
  {p \in DOMAIN pods :
     IF peer.nsSel = Nil
     THEN pods[p].namespace = namespace /\ Selects(peer.podSel, pods[p].labels)
     ELSE /\ pods[p].namespace \in DOMAIN namespaces
          /\ Selects(peer.nsSel, namespaces[pods[p].namespace])}

\* The pods of a peer: those of the policy's namespace, or of the namespaces
\* selected (one that is not in the map is skipped, unless all are selected).
PeerPods(peer, namespace) ==
  {p \in DOMAIN pods :
     /\ Selects(peer.podSel, pods[p].labels)
     /\ IF peer.nsSel = Nil
        THEN pods[p].namespace = namespace
        ELSE \/ peer.nsSel.wanted = {}
             \/ /\ pods[p].namespace \in DOMAIN namespaces
                /\ Selects(peer.nsSel, namespaces[pods[p].namespace])}

\* Their addresses on the network, as host CIDRs.
HostCidrs(peerPods, network) ==
  {{a} : a \in UNION {UNION {i.ips : i \in {j \in pods[p].interfaces :
                                            j.network = network}}
                      : p \in peerPods}}

renderRulesWithSelectors(peer, ports, network, namespace) ==
  LET cidrs == HostCidrs(PeerPods(peer, namespace), network)
  IN  IF \/ ~Mappable(peer.podSel)
         \/ ~Mappable(peer.nsSel)
         \/ cidrs = {} /\ ports = {}
      THEN {}
      ELSE {Pass(cidrs, ports)}

\* A peer with nothing set makes no rule, and so does one that is invalid.
RulesOfPeer(peer, ports, network, namespace) ==
  CASE peer.kind = "ipBlock" -> renderRulesWithIPBlock(peer, ports)
    [] peer.kind = "selectors" ->
         renderRulesWithSelectors(peer, ports, network, namespace)
    [] peer.kind = "nothing" -> {}

renderEgressForInterface(network, policy) ==
  UNION {LET ports == getPorts(e.ports)
         IN  IF e.to = {}
             THEN {Pass({}, ports)}
             ELSE UNION {RulesOfPeer(peer, ports, network, policy.namespace)
                         : peer \in e.to}
         : e \in policy.egress}

-----------------------------------------------------------------------------
\* Mutant: the rules of a policy replace those of the policies before.
RenderPolicyReplaces(policy) ==
  LET matched == {i \in Interfaces : /\ PolicyAppliesForPod(policy)
                                     /\ AppliesForNetwork(policy, i.network)}
  IN  /\ pc = "render"
      /\ policy \in remaining
      /\ remaining' = remaining \ {policy}
      /\ ruleSets' =
           [u \in DOMAIN ruleSets \cup {UID(i) : i \in matched} |->
              IF u \in {UID(i) : i \in matched}
              THEN renderEgressForInterface(u[1], policy) ELSE ruleSets[u]]
      /\ UNCHANGED <<inputs, pc, filters>>

\* One turn of RenderEgress's loop over the policies.
RenderPolicy(policy) ==
  LET matched == {i \in Interfaces : /\ PolicyAppliesForPod(policy)
                                     /\ AppliesForNetwork(policy, i.network)}
      uids == {UID(i) : i \in matched}
  IN  /\ pc = "render"
      /\ policy \in remaining
      /\ remaining' = remaining \ {policy}
      /\ ruleSets' =
           [u \in DOMAIN ruleSets \cup uids |->
              (IF u \in DOMAIN ruleSets THEN ruleSets[u] ELSE {}) \cup
              (IF u \in uids THEN renderEgressForInterface(u[1], policy) ELSE {})]
      /\ UNCHANGED <<inputs, pc, filters>>

\* Mutant: interfaces no policy applies to are left out.
AppendEmptyNothing ==
  /\ pc = "render"
  /\ remaining = {}
  /\ pc' = "generate"
  /\ UNCHANGED <<inputs, remaining, ruleSets, filters>>

\* Interfaces no policy applies to get a rule set with nil rules.
AppendEmpty ==
  /\ pc = "render"
  /\ remaining = {}
  /\ pc' = "generate"
  /\ ruleSets' = [u \in {UID(i) : i \in Interfaces} |->
                    IF u \in DOMAIN ruleSets THEN ruleSets[u] ELSE NoRules]
  /\ UNCHANGED <<inputs, remaining, filters>>

\* The sync loop generates the filters of one rule set after the other.
Generate(uid) ==
  /\ pc = "generate"
  /\ uid \in DOMAIN ruleSets \ DOMAIN filters
  /\ filters' = [u \in DOMAIN filters \cup {uid} |->
                   IF u = uid THEN GenerateFromPolicyRuleSet(ruleSets[u])
                              ELSE filters[u]]
  /\ UNCHANGED <<inputs, pc, remaining, ruleSets>>

Next ==
  \/ \E policy \in policies : RenderPolicy(policy)
  \/ AppendEmpty
  \/ \E uid \in DOMAIN ruleSets : Generate(uid)

Spec == Init /\ [][Next]_vars

-----------------------------------------------------------------------------
\* What the CRD says of policies (MultiNetworkPolicy, egress), and the
\* policy-for annotation.
AffectsEgress(policy) ==
  IF policy.types = {} THEN policy.egress # {} ELSE "Egress" \in policy.types

SelectsByCRD(selector, labels) ==
  selector = Nil \/ (selector.wanted \subseteq labels /\ selector.unwanted \cap labels = {})

Targets(policy, network) ==
  /\ policy.namespace = pods[target].namespace
  /\ \E n \in policy.policyFor :
       \/ n = network
       \/ n = <<Nil, network[2]>> /\ network[1] = policy.namespace

Applying(network) ==
  {p \in policies : /\ Targets(p, network)
                    /\ SelectsByCRD(p.podSelector, pods[target].labels)
                    /\ AffectsEgress(p)}

PeerHas(peer, namespace, network, dst) ==
  CASE peer.kind = "ipBlock" ->
         /\ peer.cidr # Malformed
         /\ dst \in peer.cidr
         /\ \A e \in peer.except \ {Malformed} : dst \notin e
    [] peer.kind = "selectors" ->
         \E p \in DOMAIN pods :
           /\ SelectsByCRD(peer.podSel, pods[p].labels)
           /\ \/ peer.nsSel = Nil /\ pods[p].namespace = namespace
              \/ peer.nsSel # Nil /\ peer.nsSel.wanted \cup peer.nsSel.unwanted = {}
              \/ /\ peer.nsSel # Nil
                 /\ pods[p].namespace \in DOMAIN namespaces
                 /\ SelectsByCRD(peer.nsSel, namespaces[pods[p].namespace])
           /\ \E i \in pods[p].interfaces : i.network = network /\ dst \in i.ips
    [] peer.kind = "nothing" -> FALSE

DestinationListed(rule, namespace, network, dst) ==
  rule.to = {} \/ \E peer \in rule.to : PeerHas(peer, namespace, network, dst)

PortListed(rule, port) ==
  \/ rule.ports = {}
  \/ \E p \in rule.ports : /\ p.number \in {Nil, port.number}
                           /\ port.protocol = IF p.protocol = Nil THEN "tcp"
                                                                  ELSE p.protocol

Listed(network, x) ==
  \E p \in Applying(network) : \E r \in p.egress :
    DestinationListed(r, p.namespace, network, x.dst) /\ PortListed(r, x.port)

Allowed(network) ==
  {x \in Packets : Applying(network) = {} \/ Listed(network, x)}

\* Policies in which the code does what the CRD says: no selector, port or
\* policy type that it does not support, no ports for a peer without pods,
\* and no exception from a block that another peer or rule allows.
Plain(network) ==
  \A p \in policies :
    Targets(p, network) =>
      /\ Mappable(p.podSelector)
      /\ PolicyAppliesForPod(p) =>
           /\ AffectsEgress(p)
           /\ \A r \in p.egress :
                /\ \A port \in r.ports : Supported(port)
                /\ \A peer \in r.to :
                     /\ peer.kind = "selectors" =>
                          /\ Mappable(peer.podSel) /\ Mappable(peer.nsSel)
                          /\ r.ports # {} =>
                               \E a \in Addresses : PeerHas(peer, p.namespace, network, a)
                     /\ peer.kind = "ipBlock" /\ peer.cidr # Malformed =>
                          \A x \in Packets :
                            /\ \E e \in peer.except \ {Malformed} : x.dst \in e
                            /\ PortListed(r, x.port)
                            => ~Listed(network, x)

-----------------------------------------------------------------------------
\* The variables keep their types.
TypeOK ==
  /\ target \in DOMAIN pods
  /\ pc \in {"render", "generate"}
  /\ remaining \subseteq policies
  /\ DOMAIN ruleSets \subseteq {UID(i) : i \in Interfaces}
  /\ pc = "generate" => DOMAIN ruleSets = {UID(i) : i \in Interfaces}
  /\ \A u \in DOMAIN ruleSets : ruleSets[u] \in {NoRules} \cup SUBSET Rules
  /\ DOMAIN filters \subseteq DOMAIN ruleSets
  /\ \A u \in DOMAIN filters : filters[u] \subseteq Filters

\* End to end, from policies, pods and namespaces to the verdict on a packet:
\* the interface lets out what the CRD allows and nothing else, as long as
\* the policies are plain.
EnforcesPolicies ==
  \A u \in DOMAIN filters :
    Plain(u[1]) => Admits(filters[u]) = Allowed(u[1])

\* The filters do not depend on the order in which a Go map hands out the
\* policies: two syncs of the same cluster generate the same set, so that the
\* second one has nothing to do (the actuator compares sets).
OrderFree ==
  \A u \in DOMAIN filters :
    LET applying == {p \in policies :
                       PolicyAppliesForPod(p) /\ AppliesForNetwork(p, u[1])}
    IN  filters[u] = GenerateFromPolicyRuleSet(
          IF applying = {} THEN NoRules
          ELSE UNION {renderEgressForInterface(u[1], p) : p \in applying})

\* What priority.go is for, and what Actuator assumes of filters: those of
\* one priority have one protocol (the kernel refuses others) and one action
\* (so their order does not matter), and those of an interface that has rules
\* include a verdict for every packet.
PrioritiesDecide ==
  \A u \in DOMAIN filters :
    /\ \A f, g \in filters[u] :
         f.priority = g.priority => f.protocol = g.protocol /\ f.action = g.action
    /\ ruleSets[u] # NoRules => genDefaultFilters \subseteq filters[u]

\* A VLAN tag changes no verdict, whatever the policies are.
TagsDoNotMatter ==
  \A u \in DOMAIN filters : \A x \in Packets :
    x \in Admits(filters[u]) <=> [x EXCEPT !.tagged = ~@] \in Admits(filters[u])

\* The same for all policies, plain or not: "Outgoing traffic is allowed if
\* there are no NetworkPolicies selecting the pod [...] or if the traffic
\* matches at least one egress rule across all of the NetworkPolicy objects
\* whose podSelector matches the pod" (the CRD, egress), a rule with peers or
\* ports only what matches one of them (to, ports), and a policy affects egress
\* if it says so (policyTypes).
EnforcesEveryPolicy ==
  DOMAIN filters = {UID(i) : i \in Interfaces} =>
    \A u \in DOMAIN filters : Admits(filters[u]) = Allowed(u[1])
=============================================================================
