---------------------------- MODULE MCServerSync ----------------------------
(***************************************************************************)
(* Instances of ServerSync: one namespace, one network attachment, one or  *)
(* two policies, a pod of this node and a pod elsewhere, with one or two   *)
(* contents per object (the second one has no interface to program).       *)
(***************************************************************************)
EXTENDS ServerSync, TLC

CONSTANTS namespace, netdef, policy, pod, otherPod, remotePod,
          c1, c2

MCKindOf ==
  [o \in Objects |->
     CASE o = namespace -> "namespace"
       [] o = netdef -> "netdef"
       [] o = policy -> "policy"
       [] OTHER -> "pod"]

MCLocal == Objects \cap {pod, otherPod}
MCAttached == {c1}
=============================================================================
