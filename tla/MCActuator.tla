----------------------------- MODULE MCActuator -----------------------------
(***************************************************************************)
(* Packet classes: "out" and "in" of the block the new policy allows, both *)
(* IPv4; "except", within the blocks of the old and the new policy and     *)
(* excepted from each; "v6", which neither mentions.  The except lists     *)
(* are written differently (say, a CIDR of another length), so the drop    *)
(* filters of the two policies differ.                                     *)
(***************************************************************************)
EXTENDS Actuator

CONSTANTS default4, default6, passOld, dropOld, passNew, dropNew, foreign

MCFilters ==
  {default4, default6, passOld, dropOld, passNew, dropNew, foreign}
MCPackets == {"in", "out", "except", "v6"}
MCMatches ==
  [f \in MCFilters |->
     CASE f = default4 -> {"in", "out", "except"}
       [] f = default6 -> {"v6"}
       [] f = passOld -> {"out", "except"}
       [] f = passNew -> {"in", "except"}
       [] f \in {dropOld, dropNew} -> {"except"}
       [] f = foreign -> {"in", "v6"}]
MCPriority ==
  [f \in MCFilters |->
     CASE f = default4 -> 300
       [] f = default6 -> 301
       [] f \in {passOld, passNew} -> 200
       [] f \in {dropOld, dropNew} -> 100
       [] f = foreign -> 1]
MCPasses == {passOld, passNew, foreign}
\* The defaults, then per rule of the policies its passes and its drops.
MCEmitted ==
  [f \in MCFilters |->
     CASE f = default4 -> 1
       [] f = default6 -> 2
       [] f \in {passOld, passNew} -> 3
       [] f \in {dropOld, dropNew} -> 4
       [] f = foreign -> 5]

MCDefaults == {default4, default6}
Old == MCDefaults \cup {passOld, dropOld}
New == MCDefaults \cup {passNew, dropNew}
Closed == [qdisc |-> TRUE, filters |-> MCDefaults]
Open == [qdisc |-> TRUE, filters |-> {}]
MCTargets ==
  {Open, Closed,
   [qdisc |-> TRUE, filters |-> Old], [qdisc |-> TRUE, filters |-> New],
   [qdisc |-> FALSE, filters |-> {}], [qdisc |-> FALSE, filters |-> Old]}

\* Whatever was left there, or a fresh representor.
Anything == {o \in Objects : o.qdisc \/ o.filters = {}}

\* A representor that one policy closes, and a policy with an exception.
DenyAll == {Closed}
WithException == {[qdisc |-> TRUE, filters |-> New]}
=============================================================================
