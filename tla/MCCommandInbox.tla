---------------------------- MODULE MCCommandInbox ----------------------------
EXTENDS CommandInbox, TLC

CONSTANTS k1, k2, k3, k4, s1, s2, s3, a1

\* Two identities compete for one scope's quota; a third and a fourth scope's
\* identity compete for the last place of the shared capacity.
MCScopeOf == k1 :> s1 @@ k2 :> s1 @@ k3 :> s2 @@ k4 :> s3

\* The agent's credential does not cover every scope a command can name it in.
MCAgentScopes == a1 :> {s1, s2}
=============================================================================
