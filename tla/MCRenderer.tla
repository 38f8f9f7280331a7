----------------------------- MODULE MCRenderer -----------------------------
(***************************************************************************)
(* A target pod with interfaces on two networks, peers in two namespaces,  *)
(* one of which may not be known yet, and up to three policies of a dozen. *)
(***************************************************************************)
EXTENDS Renderer, FiniteSetsExt

CONSTANTS a1, a2, a3, b1, \* addresses: a1 the target's, a2 and a3 IPv4, b1 IPv6
          client, server, far, nilRules

\* A value that is not a set of rules.
MCNoRules == {nilRules}
MCAddresses4 == {a1, a2, a3}
MCAddresses6 == {b1}
MCNumbers == {53, 80}

Net == <<"ns", "net">>
Other == <<"infra", "net">>

Select(labels) == [wanted |-> labels, unwanted |-> {}]
Everything == Select({})
Odd == [wanted |-> {}, unwanted |-> {"web"}]

Block(cidr, except) == [kind |-> "ipBlock", cidr |-> cidr, except |-> except]
Peer(podSel, nsSel) == [kind |-> "selectors", podSel |-> podSel, nsSel |-> nsSel]
Nothing == [kind |-> "nothing"]
Port(protocol, number) == [protocol |-> protocol, number |-> number]
To(to, ports) == [to |-> to, ports |-> ports]

\* A policy of the target's namespace for both networks.
Policy(types, egress) ==
  [namespace |-> "ns", podSelector |-> Everything,
   policyFor |-> {<<Nil, "net">>, Other}, types |-> types, egress |-> egress]
Egress(egress) == Policy({"Egress"}, egress)

DenyAll == Egress({})
AllowAll == Egress({To({}, {})})
Dns == Egress({To({}, {Port("udp", 53), Port(Nil, 53)})})
BlockExcept == Egress({To({Block({a2, a3}, {{a3}, Malformed})}, {})})
TwoBlocks ==
  Egress({To({Block({b1}, {}), Block(Malformed, {}), Nothing}, {Port("tcp", 80)}),
          To({Block({a1, a2, a3}, {{a1}, {a3}})}, {Port("udp", 80)})})
ToApp == Egress({To({Peer(Select({"app"}), Nil)}, {Port("tcp", 80)})})
ToTeam == Egress({To({Peer(Nil, Select({"team"}))}, {})})
ToAppAnywhere == Egress({To({Peer(Select({"app"}), Everything)}, {})})
ToWebOfTeam ==
  Egress({To({Peer(Select({"web"}), Select({"team"})), Peer(Odd, Nil)}, {})})
ToWeb == Egress({To({Peer(Select({"web"}), Nil)}, {Port("tcp", 80)})})
OfWebPods == [AllowAll EXCEPT !.podSelector = Select({"web"})]
OfOddPods == [DenyAll EXCEPT !.podSelector = Odd]
OfOtherNamespace == [DenyAll EXCEPT !.namespace = "infra"]
ForOther == [DenyAll EXCEPT !.policyFor = {Other}]
Defaulted == Policy({}, {To({Peer(Nil, Nil)}, {Port("tcp", 53)})})
IngressOnly == Policy({"Ingress"}, {})
Sctp == Egress({To({}, {Port("sctp", 80)})})

Pod(namespace, labels, interfaces) ==
  [namespace |-> namespace, labels |-> labels, interfaces |-> interfaces]
Ifc(network, name, ips) == [network |-> network, name |-> name, ips |-> ips]

Client == Pod("ns", {"app"}, {Ifc(Net, "net1", {a1}), Ifc(Other, "net2", {})})
Server(labels) == Pod("ns", labels, {Ifc(Net, "net1", {a2, b1})})
Far == Pod("infra", {"app", "web"}, {Ifc(Net, "net1", {a3}), Ifc(Other, "net2", {b1})})

Cluster(policySet, podMap, namespaceMap) ==
  [policies |-> policySet, pods |-> podMap, namespaces |-> namespaceMap,
   target |-> client]

AllPods == [p \in {client, server, far} |->
              CASE p = client -> Client [] p = server -> Server({}) [] p = far -> Far]
Alone == [p \in {client} |-> Client]
AllNamespaces == [n \in {"ns", "infra"} |-> IF n = "infra" THEN {"team"} ELSE {}]
OneNamespace == [n \in {"ns"} |-> {"team"}]

AllPolicies ==
  {DenyAll, AllowAll, Dns, BlockExcept, TwoBlocks, ToApp, ToTeam, ToAppAnywhere,
   ToWebOfTeam, ToWeb, OfWebPods, OfOddPods, OfOtherNamespace, ForOther, Defaulted,
   IngressOnly, Sctp}

Clusters ==
  {Cluster(ps, pm, nm) : ps \in UNION {kSubset(k, AllPolicies) : k \in 0..3},
                         pm \in {AllPods, Alone},
                         nm \in {AllNamespaces, OneNamespace}}

\* One pod, one network per sentence of the CRD: a policy for ingress only; a
\* block with an exception, next to a policy that allows everything; peers
\* that do not exist and ports that are not supported.
Third == <<"ns", "third">>
For(policy, network) == [policy EXCEPT !.policyFor = {network}]
ToNobody ==
  Egress({To({Peer(Select({"web"}), Nil)}, {Port("tcp", 80)}),
          To({Block({a2}, {})}, {Port("sctp", 80)})})
OnThreeNetworks ==
  Pod("ns", {}, {Ifc(Net, "net1", {a1}), Ifc(Other, "net2", {}), Ifc(Third, "net3", {})})
OneExcept == Egress({To({Block({a2, a3}, {{a3}})}, {})})
Disputed ==
  {Cluster({For(IngressOnly, Net), For(OneExcept, Other), For(AllowAll, Other),
            For(ToNobody, Third)},
           [p \in {client} |-> OnThreeNetworks], AllNamespaces)}
=============================================================================
