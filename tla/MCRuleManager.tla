--------------------------- MODULE MCRuleManager ---------------------------
(***************************************************************************)
(* RuleManager on small instances: two rule sets, one packet that only the *)
(* empty one accepts, one more heap address than there are connections     *)
(* (m_rules and a collection being built by each).                         *)
(***************************************************************************)
EXTENDS RuleManager, TLC

CONSTANTS r0, r1, p1

MCRuleSets == {r0, r1}
MCPackets == {p1}
MCAccepts == [R \in MCRuleSets |-> IF R = r0 THEN {p1} ELSE {}]

\* The runs of liveness and of the doc comments need one rule set only.
MCOneRuleSet == {r0}
MCAcceptsNone == [R \in MCOneRuleSet |-> {}]

\* Connections are alike, and so are addresses: nothing compares them but by =.
\* Only for the runs without liveness properties.
Symmetry == Permutations(Conns) \cup Permutations(Objects)
=============================================================================
