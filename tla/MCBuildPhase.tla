---------------------------- MODULE MCBuildPhase ----------------------------
(***************************************************************************)
(* Small instances of BuildPhase for TLC: work items a and b of the first  *)
(* plan, b after a, and identifiers that replacements, requests and the    *)
(* fix for the build may take.                                             *)
(***************************************************************************)
EXTENDS BuildPhase, TLC

CONSTANTS a, b, n, m

First(deps) == NewItem(deps, FALSE)

MCChain ==
  {[i \in Items |-> CASE i = a -> First({}) [] i = b -> First({a}) [] OTHER -> Absent]}

MCPair ==
  {[i \in Items |-> IF i \in {a, b} THEN First({}) ELSE Absent]}

MCSingle == {[i \in Items |-> IF i = a THEN First({}) ELSE Absent]}

(* The spare identifiers are alike. *)
MCSpares == Permutations({n, m})

(* A split into one item, and into two that are drafted in order. *)
MCInOrder == {<<{}>>, <<{}, {1}>>}

(* The same, and two items the first of which is drafted to follow the second. *)
MCAnyOrder == MCInOrder \cup {<<{2}, {}>>}

(* Repairs that free b, that would turn the chain round, or both. *)
MCFixes == {[item |-> b, deps |-> {}], [item |-> a, deps |-> {b}]}

=============================================================================
