---------------------------- MODULE MCPostgresInbox ----------------------------
EXTENDS PostgresInbox, TLC

CONSTANTS k1, k2, k3, k4, s1, s2, s3, a1, c1, c2

\* Two identities compete for one scope's quota, all of them for the shared
\* capacity, which two scopes can overshoot; the agent's credential does not
\* cover the last scope, whose rows its scans nevertheless lock.
MCScopeOf == k1 :> s1 @@ k2 :> s1 @@ k3 :> s2 @@ k4 :> s3
MCAgentScopes == a1 :> {s1, s2}

SlotSymmetry == Permutations(Slots)
=============================================================================
