------------------------------ MODULE MCFileInbox ------------------------------
EXTENDS FileInbox

CONSTANTS k1, k2, s1, a1

MCScopeOf == [k \in Keys |-> s1]
MCAgentScopes == [a \in Agents |-> {s1}]
=============================================================================
