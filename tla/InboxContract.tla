---------------------------- MODULE InboxContract ----------------------------
(***************************************************************************)
(* What every backend of the trait CommandInbox                            *)
(* (apps/control-plane-api/src/inbox.rs) promises its callers, with the    *)
(* clock, the order of delivery and the way identities are remembered      *)
(* left out: the life of a command, from its recording over its bounded    *)
(* deliveries to the moment it is forgotten, and the share of the inbox a  *)
(* scope may occupy.                                                       *)
(*                                                                         *)
(* CommandInbox (memory and file backends) implements it with Slack = 0,   *)
(* PostgresInbox with one command of slack per further connection.         *)
(***************************************************************************)
EXTENDS Integers, FiniteSets

CONSTANTS
    Keys, Scopes, ScopeOf, Agents, AgentScopes,
    Capacity, ScopeQuota, MaxAttempts,
    Slack        \* by how many commands the shared capacity may be overshot

VARIABLE commands  \* the commands known, a function from a subset of Keys

Fresh(a) == [agent |-> a, attempts |-> 0,
             acknowledged |-> FALSE, cancelled |-> FALSE]

\* An agent's delivery may include the command; a retention sweep may drop it.
Open(c) == ~c.acknowledged /\ ~c.cancelled /\ c.attempts < MaxAttempts
Closed(c) == c.acknowledged \/ c.cancelled \/ c.attempts = MaxAttempts

Init == commands = <<>>

\* record: never a second time under one identity; the scope's quota is exact.
Recorded(k, a) ==
    /\ k \notin DOMAIN commands
    /\ Cardinality({j \in DOMAIN commands : ScopeOf[j] = ScopeOf[k]}) < ScopeQuota
    /\ Cardinality(DOMAIN commands) < Capacity + Slack
    /\ commands' = [j \in DOMAIN commands \cup {k} |->
                      IF j = k THEN Fresh(a) ELSE commands[j]]

\* claim: open commands of this agent, in its scopes, each one attempt more.
HandedOut(a, S) ==
    /\ S # {}
    /\ \A k \in S : /\ commands[k].agent = a
                    /\ ScopeOf[k] \in AgentScopes[a]
                    /\ Open(commands[k])
    /\ commands' = [k \in DOMAIN commands |->
                      IF k \in S THEN [commands[k] EXCEPT !.attempts = @ + 1]
                      ELSE commands[k]]

\* acknowledge: by the agent it was handed to, once.
Acknowledged(a, k) ==
    /\ commands[k].agent = a
    /\ commands[k].attempts > 0
    /\ ~commands[k].acknowledged
    /\ commands' = [commands EXCEPT ![k].acknowledged = TRUE]

\* cancel: only what was never handed out, once.
Cancelled(k) ==
    /\ commands[k].attempts = 0
    /\ ~commands[k].cancelled
    /\ commands' = [commands EXCEPT ![k].cancelled = TRUE]

\* maintain: only what no agent is still owed.
Forgotten(S) ==
    /\ \A k \in S : Closed(commands[k])
    /\ commands' = [k \in DOMAIN commands \ S |-> commands[k]]

Next ==
    \/ \E k \in Keys, a \in Agents : Recorded(k, a)
    \/ \E a \in Agents, S \in SUBSET DOMAIN commands : HandedOut(a, S)
    \/ \E a \in Agents, k \in DOMAIN commands : Acknowledged(a, k)
    \/ \E k \in DOMAIN commands : Cancelled(k)
    \/ \E S \in SUBSET DOMAIN commands : Forgotten(S)

Spec == Init /\ [][Next]_commands

=============================================================================
