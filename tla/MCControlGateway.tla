--------------------------- MODULE MCControlGateway ---------------------------
EXTENDS ControlGateway

CONSTANTS k1, k2, s1, a1, a2

MCScopeOf == [k \in Keys |-> s1]
\* k1 may be submitted again for another agent: the same identity, different
\* content.
MCSubmissions == {[key |-> k1, agent |-> a1], [key |-> k1, agent |-> a2],
                  [key |-> k2, agent |-> a1]}

MCAgentScopes == [a \in Agents |-> {s1}]
=============================================================================
