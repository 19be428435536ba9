---------------------------- MODULE CallAdmission ----------------------------
(***************************************************************************)
(* Calls through a managed proxy, on top of the grants of ServingGrants:   *)
(* the store's reservations                                                *)
(* (apps/control-plane-api/src/proxy/store/postgres/admissions) and the    *)
(* owner of the calls in each gateway process                              *)
(* (apps/mcp-gateway/src/managed/call-owner.ts).                           *)
(*                                                                         *)
(*   Start       the process takes a local ticket and asks to be           *)
(*               authorized                                                *)
(*   Reserve     the authority reserves, at any later moment               *)
(*   Authorize, Dispatch, Refuse, Close   the process goes on, or not      *)
(*   Complete    the authority releases the reservation; asking again      *)
(*               changes nothing                                           *)
(*   ReleaseTerminated   what a dead process left is released              *)
(***************************************************************************)
EXTENDS ServingGrants

CONSTANTS
    Calls,          \* call identities
    Limit           \* the policy's concurrency limit

ASSUME CallAssumption == Limit \in Nat \ {0}

VARIABLES
    call,       \* the call owner's job for each call
    row,        \* mcp_proxy_call_admissions
    counter     \* mcp_proxy_admission_counters.active_calls

callVars == <<call, row, counter>>
allVars  == <<vars, callVars>>

NoCall == [inst |-> None, step |-> "none", epoch |-> 0, started |-> 0]
NoRow  == [state |-> "none", epoch |-> 0, deadline |-> 0]

CallInit ==
    /\ Init
    /\ call = [c \in Calls |-> NoCall]
    /\ row = [c \in Calls |-> NoRow]
    /\ counter = 0

-----------------------------------------------------------------------------
\* start, up to the authorization request
Start(c, i) ==
    /\ call[c].step = "none"
    /\ BeginCall(i)
    /\ call' = [call EXCEPT ![c] = [inst |-> i, step |-> "asking", epoch |-> owner[i].epoch,
                                    started |-> now]]
    /\ UNCHANGED <<row, counter>>

\* admittable: the deployment is selected and was heard to admit under a grant
\* of this epoch that has not expired.
Admittable(i, until) ==
    /\ deployed[i].mode = "serve" /\ selection.instance = i
    /\ deployed[i].appliedMode = "serve" /\ deployed[i].admitting /\ target.serving
    /\ \E d \in decisions[i] :
        /\ d.seq = deployed[i].applied /\ d.epoch = selection.epoch /\ d.mode = "serve"
        /\ d.until = until /\ now < until

\* reserve, of a call not seen before; one that was gets the same reservation
\* again.  The process measures its validity from when the call started.
Reserve(c) ==
    /\ call[c].step \in {"asking", "unknown", "gone"} /\ row[c].state = "none"
    /\ counter < Limit
    /\ \E until \in 1..(MaxTime + GrantTime) :
        /\ Admittable(call[c].inst, until)
        /\ row' = [row EXCEPT ![c] = [state |-> "held", epoch |-> selection.epoch,
                                      deadline |-> call[c].started + (until - now)]]
    /\ counter' = counter + 1
    /\ UNCHANGED <<vars, call>>

\* The decision arrives, and is about the epoch the call began in.
Authorize(c) ==
    /\ call[c].step = "asking" /\ row[c].state = "held" /\ row[c].epoch = call[c].epoch
    /\ call' = [call EXCEPT ![c].step = "allowed"]
    /\ UNCHANGED <<vars, row, counter>>

\* authority: checked again when the request is written upstream
Authority(c) ==
    /\ Mode(call[c].inst) = "serve" /\ owner[call[c].inst].epoch = call[c].epoch
    /\ now < row[c].deadline

Dispatch(c) ==
    /\ call[c].step = "allowed" /\ Authority(c)
    /\ call' = [call EXCEPT ![c].step = "upstream"]
    /\ UNCHANGED <<vars, row, counter>>

\* No decision arrives, or one that is of no use: nothing is known of a
\* reservation, and nothing will be completed.
Refuse(c) ==
    /\ call[c].step = "asking"
    /\ EndCall(call[c].inst)
    /\ call' = [call EXCEPT ![c].step = "unknown"]
    /\ UNCHANGED <<row, counter>>

\* Mutant of Close: completion does not wait for the upstream exchange.
CloseEarly(c) ==
    /\ call[c].step \in {"allowed", "upstream"}
    /\ \/ call[c].step = "allowed" /\ EndCall(call[c].inst)
          /\ call' = [call EXCEPT ![c].step = "completing"]
          /\ UNCHANGED <<row, counter>>
       \/ /\ call[c].step = "upstream" /\ row[c].state = "held"
          /\ row' = [row EXCEPT ![c].state = "released"] /\ counter' = counter - 1
          /\ UNCHANGED <<vars, call>>

\* The upstream exchange, if there was one, is physically closed: the ticket is
\* released, and completion is asked for until it is confirmed.
Close(c) ==
    /\ call[c].step \in {"allowed", "upstream"}
    /\ EndCall(call[c].inst)
    /\ call' = [call EXCEPT ![c].step = "completing"]
    /\ UNCHANGED <<row, counter>>

\* complete, of a reservation that is not released yet; the request may outlive
\* the process.
Complete(c) ==
    /\ call[c].step \in {"completing", "gone"} /\ row[c].state = "held"
    /\ row' = [row EXCEPT ![c].state = "released"] /\ counter' = counter - 1
    /\ UNCHANGED <<vars, call>>

\* The receipt arrives.
Confirm(c) ==
    /\ call[c].step = "completing" /\ row[c].state = "released"
    /\ call' = [call EXCEPT ![c].step = "done"]
    /\ UNCHANGED <<vars, row, counter>>

HeldBy(i) == {c \in Calls : row[c].state = "held" /\ call[c].inst = i}

\* terminated
ReleaseTerminated(i) ==
    /\ deployed[i].terminated /\ HeldBy(i) # {}
    /\ row' = [c \in Calls |-> IF c \in HeldBy(i) THEN [row[c] EXCEPT !.state = "released"] ELSE row[c]]
    /\ counter' = counter - Cardinality(HeldBy(i))
    /\ UNCHANGED <<vars, call>>

\* The calls of a process end with it.
Gone(i) ==
    /\ Die(i)
    /\ call' = [c \in Calls |-> IF call[c].inst = i /\ call[c].step # "done"
                                THEN [call[c] EXCEPT !.step = "gone"] ELSE call[c]]
    /\ UNCHANGED <<row, counter>>

-----------------------------------------------------------------------------
CallNext ==
    \/ Grants /\ UNCHANGED callVars
    \/ \E i \in Instances : Gone(i) \/ ReleaseTerminated(i) \/ \E c \in Calls : Start(c, i)
    \/ \E c \in Calls :
        \/ Reserve(c) \/ Authorize(c) \/ Dispatch(c) \/ Refuse(c)
        \/ Close(c) \/ Complete(c) \/ Confirm(c)

CallSpec == CallInit /\ [][CallNext]_allVars

-----------------------------------------------------------------------------
InFlight == {c \in Calls : call[c].step = "upstream"}

\* The concurrency limit is a limit on what really happens: the calls that are
\* upstream, in all processes together, each hold a reservation, and the counter
\* is the number of reservations, whatever was lost, repeated or left behind.
LimitHolds ==
    /\ counter = Cardinality({c \in Calls : row[c].state = "held"}) /\ counter <= Limit
    /\ \A c \in InFlight : row[c].state = "held" /\ row[c].epoch = call[c].epoch

=============================================================================
