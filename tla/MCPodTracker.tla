---------------------------- MODULE MCPodTracker ----------------------------
(***************************************************************************)
(* One pod name or two, two networks, a supported and an unsupported type; *)
(* pods with both networks, of other labels, without device, not running.  *)
(***************************************************************************)
EXTENDS PodTracker

CONSTANTS p1, p2, n1, n2, sriov, bridge, d1, d2

Status(network, device) == [network |-> network, device |-> device]
Spec1 == [labels |-> "a", running |-> TRUE, hostNetwork |-> FALSE,
          networks |-> {n1, n2}, status |-> {Status(n1, d1), Status(n2, d2)}]
OtherLabels == [Spec1 EXCEPT !.labels = "b"]
NoDevice == [Spec1 EXCEPT !.status = {Status(n1, d1), Status(n2, Nil)}]
NotAnnotated == [Spec1 EXCEPT !.networks = {n2}]
Pending1 == [Spec1 EXCEPT !.running = FALSE]
OnHost == [Spec1 EXCEPT !.hostNetwork = TRUE]

AllSpecs == {Spec1, OtherLabels, NoDevice, NotAnnotated, Pending1, OnHost}
OneSpec == {Spec1}
=============================================================================
