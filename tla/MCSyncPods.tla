----------------------------- MODULE MCSyncPods -----------------------------
(***************************************************************************)
(* Two pod names, two VFs, three pods over time: enough for a pod to be    *)
(* replaced under its name, or its VF to be handed on, while another pod,  *)
(* of this node or not, is on the list of the same sync.                   *)
(***************************************************************************)
EXTENDS SyncPods

CONSTANTS podA, podB, vf0, vf1
=============================================================================
