-------------------------- MODULE MCChangeTracker --------------------------
(***************************************************************************)
(* Two names and three object contents: two that convert to different      *)
(* information, and one (a network attachment with an unreadable           *)
(* configuration) that does not convert.                                   *)
(***************************************************************************)
EXTENDS ChangeTracker

CONSTANTS k1, k2, a, b, broken, infoA, infoB

MCKeys == {k1, k2}
MCObjects == {a, b, broken}
MCInfos == {infoA, infoB}
MCInfoOf ==
  [o \in MCObjects |-> CASE o = a -> infoA [] o = b -> infoB [] OTHER -> Nil]
=============================================================================
