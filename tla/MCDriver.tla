------------------------------ MODULE MCDriver ------------------------------
(***************************************************************************)
(* Two addresses of each family, the ports 0 and 80, six generated targets *)
(* and none, and filters that others left in the kernel.                   *)
(***************************************************************************)
EXTENDS Driver

CONSTANTS a4, b4, a6, b6, nilRules

MCNoRules == {nilRules}

MCWhole == {{a4, b4}, {a6, b6}}

Tcp(number) == [protocol |-> "tcp", number |-> number]
Pass(cidrs, ports) == [cidrs |-> cidrs, ports |-> ports, action |-> "pass"]
Generated(rules) == [qdisc |-> TRUE, filters |-> GenerateFromPolicyRuleSet(rules)]

MCTargets ==
  {NoObjects, Generated(NoRules), Generated({}),
   Generated({Pass({{b6}}, {Tcp(80)})}),
   Generated({Pass({{a4}}, {Tcp(0), Tcp(80)})}),
   Generated({Pass({{a4, b4}}, {}),
              [cidrs |-> {{b4}}, ports |-> {}, action |-> "drop"]}),
   Generated({Pass({{a4, b4}}, {}), Pass({}, {})})}

Foreign(kind, protocol, priority, action, hidden) ==
  [kind |-> kind, protocol |-> protocol, priority |-> priority,
   ethType |-> protocol, vlanEthType |-> Any, dstIP |-> Any, ipProto |-> Any,
   dstPort |-> Any, action |-> action, hidden |-> hidden, handle |-> 7]

OtherKind == Foreign("u32", "ip", 1, "pass", FALSE)
OtherAction == Foreign("flower", "ip", 2, "mirred", FALSE)
Trap == Foreign("flower", "ip", 3, "trap", FALSE)
OtherProtocol == Foreign("flower", "arp", 201, "drop", FALSE)

\* Nothing; filters that the drivers know, cannot list, or pass over; one in the
\* way of the generated ones; and keys that the program does not read.
MCFound ==
  {{}, {OtherProtocol, Trap}, {OtherKind, OtherAction, OtherProtocol},
   {Foreign("u32", "ip", 200, "pass", FALSE)},
   {Foreign("flower", "ip", 300, "drop", TRUE),
    Foreign("flower", "802.1q", 302, "pass", TRUE)}}

ASSUME FoundApart
=============================================================================
