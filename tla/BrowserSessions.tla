--------------------------- MODULE BrowserSessions ---------------------------
(***************************************************************************)
(* Operator sessions of the browser edge                                   *)
(* (apps/control-plane-api/src/browser): the login attempts, the sessions  *)
(* and the login quota in Postgres, and the HTTP requests of all replicas  *)
(* that work on them, with the OIDC provider as their environment.         *)
(*                                                                         *)
(*   login     StartAdmit, Prune, StartInsert         (edge/login.rs)      *)
(*   callback  CallbackTake, CallbackExchange, Prune, CallbackInsert       *)
(*   page      Load, then Keep or Claim, Exchange, Commit, Reload, then    *)
(*             Touch and Forward            (edge/session.rs, refresh.rs)  *)
(*   logout    Load, Revoke                                                *)
(*                                                                         *)
(* Each store call is one transaction that locks its row first, run at     *)
(* most once by the worker thread that owns the connection: a request whose *)
(* answer does not come in time is Abandoned, before or after the          *)
(* transaction, and nobody repeats it.  A state digest, and the digest of   *)
(* the session its callback creates, are random: one name stands for both. *)
(* The refresh tokens of a session are numbered as the provider issues     *)
(* them.  One clock, in ticks, stands for the database's and the edge's.   *)
(***************************************************************************)
EXTENDS Integers, Sequences, FiniteSets, FiniteSetsExt

CONSTANTS
    Logins,       \* login attempts, and the sessions they lead to
    Requests,     \* HTTP requests in flight, over all replicas
    Burst,        \* BURST_US in tokens, one token per tick
    LoginTime,    \* lifetime of an attempt
    SessionTime,  \* session_max_age_secs
    IdleTime,     \* idle_timeout_secs
    AccessTime,   \* lifetime of an access token
    RefreshTime,  \* lifetime of a refresh token
    Lead,         \* how long before its expiry an access token is refreshed
    ClaimTime,    \* how long a refresh claim lasts
    SessionCap,   \* how many session rows the table takes
    MaxNow,       \* bound: the clock stops here
    MaxAdmitted,  \* bound: logins admitted
    MaxTokens     \* bound: refresh tokens of one session

ASSUME SessionsAssumption ==
    /\ Burst \in Nat \ {0} /\ LoginTime \in Nat \ {0} /\ SessionTime \in Nat \ {0}
    /\ IdleTime \in Nat \ {0} /\ AccessTime \in Nat \ {0} /\ RefreshTime \in Nat \ {0}
    /\ Lead \in Nat /\ ClaimTime \in Nat \ {0} /\ SessionCap \in Nat \ {0}
    /\ MaxNow \in Nat /\ MaxAdmitted \in Nat /\ MaxTokens \in Nat \ {0}

VARIABLES
    now,
    quota,      \* apex_browser_login_admission: tat, clock
    admitted,   \* history: when logins were admitted
    attempts,   \* apex_browser_login_attempts, by state: its expiry, 0 if none
    started,    \* history: the states ever used
    sessions,   \* apex_browser_sessions, by login
    deleted,    \* history: the sessions whose row was deleted
    presented,  \* history, at the provider: how often each token was presented
    requests    \* by request, what its handler holds

vars == <<now, quota, admitted, attempts, started, sessions, deleted, presented, requests>>
login == <<quota, admitted, attempts, started>>

\* Token 0 is the authorization code; the others are refresh tokens.
Tokens == 0..MaxTokens

\* What the sealed bundle says: the row says it too, and open compares them.
Seal(gen, access, refresh) == [gen |-> gen, access |-> access, refresh |-> refresh]
NoSeal == Seal(0, 0, 0)

NoRow == [state |-> "none", gen |-> 0, deadline |-> 0, absolute |-> 0, idle |-> 0,
          access |-> 0, refresh |-> 0, token |-> 0, sealed |-> NoSeal]

Idle == [step |-> "idle"]

Init ==
    /\ now = 0
    /\ quota = [tat |-> 0, clock |-> 0] /\ admitted = << >>
    /\ attempts = [l \in Logins |-> 0] /\ started = {}
    /\ sessions = [l \in Logins |-> NoRow] /\ deleted = {}
    /\ presented = [l \in Logins |-> [t \in Tokens |-> 0]]
    /\ requests = [r \in Requests |-> Idle]

At(r, step) == requests[r].step = step
Becomes(r, q) == requests' = [requests EXCEPT ![r] = q]

\* LIVE
Live(row) ==
    /\ row.state \in {"active", "refreshing"}
    /\ row.absolute > now /\ row.idle > now /\ row.refresh > now
    /\ row.state = "refreshing" => row.deadline > now

-----------------------------------------------------------------------------
(* Login                                                                   *)

\* Mutant of Candidate: a quiet time is saved up without limit.
CandidateSaved == quota.tat + 1

\* The new theoretical arrival time: one token later than the old one or now.
Candidate == Max({quota.tat, now}) + 1

\* admit_login, under the lock of the quota's only row. What it spends is never
\* given back.
StartAdmit(r) ==
    /\ At(r, "idle") /\ Len(admitted) < MaxAdmitted
    /\ now >= quota.clock /\ quota.tat <= quota.clock + Burst
    /\ Candidate <= now + Burst
    /\ quota' = [tat |-> Candidate, clock |-> now]
    /\ admitted' = Append(admitted, now)
    /\ Becomes(r, [step |-> "prune_login", until |-> now + LoginTime])
    /\ UNCHANGED <<now, attempts, started, sessions, deleted, presented>>

\* prune_expired, which precedes both inserts: a bounded number of dead rows.
Prune(r) ==
    /\ requests[r].step \in {"prune_login", "prune_session"}
    /\ \E gone \in SUBSET {l \in Logins : sessions[l] # NoRow /\ ~Live(sessions[l])} :
        /\ sessions' = [l \in Logins |-> IF l \in gone THEN NoRow ELSE sessions[l]]
        /\ deleted' = deleted \cup gone
    /\ \E gone \in SUBSET {l \in Logins : attempts[l] <= now} :
        attempts' = [l \in Logins |-> IF l \in gone THEN 0 ELSE attempts[l]]
    /\ Becomes(r, [requests[r] EXCEPT !.step = IF @ = "prune_login" THEN "insert_login"
                                               ELSE "insert_session"])
    /\ UNCHANGED <<now, quota, admitted, started, presented>>

\* create_login, with a random state
StartInsert(r, l) ==
    /\ At(r, "insert_login") /\ l \notin started
    /\ requests[r].until > now
    /\ attempts' = [attempts EXCEPT ![l] = requests[r].until]
    /\ started' = started \cup {l}
    /\ Becomes(r, Idle)
    /\ UNCHANGED <<now, quota, admitted, sessions, deleted, presented>>

\* take_login: the one-use claim, before any provider I/O
CallbackTake(r, l) ==
    /\ At(r, "idle") /\ attempts[l] > now
    /\ attempts' = [attempts EXCEPT ![l] = 0]
    /\ Becomes(r, [step |-> "code", login |-> l, token |-> 0])
    /\ UNCHANGED <<now, quota, admitted, started, sessions, deleted, presented>>

Present(r) == presented' = [presented EXCEPT ![requests[r].login][requests[r].token] = @ + 1]

\* The provider redeems the code.
CallbackExchange(r) ==
    /\ At(r, "code") /\ Present(r)
    /\ Becomes(r, [step |-> "prune_session", login |-> requests[r].login,
                   absolute |-> now + SessionTime, access |-> now + AccessTime,
                   refresh |-> now + RefreshTime])
    /\ UNCHANGED <<now, login, sessions, deleted>>

\* create_session
CallbackInsert(r) ==
    LET q == requests[r] IN
    /\ At(r, "insert_session")
    /\ Cardinality({l \in Logins : sessions[l] # NoRow}) < SessionCap
    /\ q.absolute > now /\ q.access > now /\ q.refresh > now
    /\ sessions' = [sessions EXCEPT ![q.login] =
            [state |-> "active", gen |-> 0, deadline |-> 0, absolute |-> q.absolute,
             idle |-> Min({q.absolute, now + IdleTime}), access |-> q.access,
             refresh |-> q.refresh, token |-> 1, sealed |-> Seal(0, q.access, q.refresh)]]
    /\ Becomes(r, Idle)
    /\ UNCHANGED <<now, login, deleted, presented>>

-----------------------------------------------------------------------------
(* A page                                                                  *)

\* SessionBundle::open: what a row says of itself must be what was sealed.
Opens(row) ==
    /\ row.idle > now /\ row.idle <= row.absolute /\ row.refresh > now
    /\ row.deadline # 0 => row.deadline > now /\ row.deadline <= row.idle
                           /\ row.deadline <= row.refresh
    /\ row.sealed = Seal(IF row.deadline # 0 THEN row.gen - 1 ELSE row.gen, row.access, row.refresh)

Holding(l, step) ==
    [step |-> step, login |-> l, gen |-> sessions[l].gen,
     access |-> sessions[l].access, refresh |-> sessions[l].refresh,
     token |-> sessions[l].token]

\* load; a page ends here while another request refreshes.
Load(r, l, step) ==
    /\ At(r, "idle") /\ Live(sessions[l]) /\ Opens(sessions[l])
    /\ step = "loaded" => sessions[l].deadline = 0
    /\ Becomes(r, Holding(l, step))
    /\ UNCHANGED <<now, login, sessions, deleted, presented>>

\* ensure_fresh, for a token that is not about to expire
Keep(r) ==
    /\ At(r, "loaded") /\ requests[r].access > now + Lead
    /\ Becomes(r, [requests[r] EXCEPT !.step = "touch"])
    /\ UNCHANGED <<now, login, sessions, deleted, presented>>

\* Mutant of MayClaim: an abandoned claim can be taken over.
MayClaimAgain(row, gen) ==
    /\ row.state \in {"active", "refreshing"} /\ row.absolute > now /\ row.idle > now
    /\ row.refresh > now /\ row.gen >= gen /\ row.access <= now + Lead

\* The WHERE of claim_refresh
MayClaim(row, gen) ==
    row.state = "active" /\ Live(row) /\ row.gen = gen /\ row.access <= now + Lead

Claimed(row) ==
    [row EXCEPT !.state = "refreshing", !.gen = @ + 1,
                !.deadline = Min({row.absolute, row.idle, row.refresh, now + ClaimTime})]

\* ensure_fresh up to the claim; the old token is then in the claimer's hands.
Claim(r) ==
    LET l == requests[r].login IN
    /\ At(r, "loaded") /\ requests[r].access <= now + Lead
    /\ MayClaim(sessions[l], requests[r].gen)
    /\ sessions' = [sessions EXCEPT ![l] = Claimed(@)]
    /\ Becomes(r, [requests[r] EXCEPT !.step = "exchange", !.gen = sessions[l].gen + 1,
                                      !.token = sessions[l].token])
    /\ UNCHANGED <<now, login, deleted, presented>>

\* The provider redeems the refresh token and issues the next one.
Exchange(r) ==
    /\ At(r, "exchange") /\ requests[r].token < MaxTokens
    /\ Present(r)
    /\ Becomes(r, [requests[r] EXCEPT !.step = "commit", !.token = @ + 1,
                       !.access = now + AccessTime, !.refresh = now + RefreshTime])
    /\ UNCHANGED <<now, login, sessions, deleted>>

\* Mutant of MayFinish: only the generation is compared.
MayFinishByGeneration(row, q) == row.gen = q.gen /\ q.access > now /\ q.refresh > now

\* The WHERE of finish_refresh
MayFinish(row, q) ==
    /\ row.state = "refreshing" /\ Live(row) /\ row.gen = q.gen
    /\ q.access > now /\ q.refresh > now

\* Mutant of Finished: the bundle is sealed under the generation it replaces.
FinishedStale(row, q) ==
    [row EXCEPT !.state = "active", !.deadline = 0, !.access = q.access,
                !.refresh = q.refresh, !.token = q.token,
                !.sealed = Seal(q.gen - 1, q.access, q.refresh)]

Finished(row, q) ==
    [row EXCEPT !.state = "active", !.deadline = 0, !.access = q.access,
                !.refresh = q.refresh, !.token = q.token,
                !.sealed = Seal(q.gen, q.access, q.refresh)]

\* finish_refresh; a commit that loses to a logout or to the deadline ends the
\* request and keeps nothing.
Commit(r) ==
    LET q == requests[r] IN
    /\ At(r, "commit") /\ MayFinish(sessions[q.login], q)
    /\ sessions' = [sessions EXCEPT ![q.login] = Finished(@, q)]
    /\ Becomes(r, [q EXCEPT !.step = "reload"])
    /\ UNCHANGED <<now, login, deleted, presented>>

\* The row is read back, and must still be the one written.
Reload(r) ==
    LET l == requests[r].login IN
    /\ At(r, "reload") /\ Live(sessions[l]) /\ Opens(sessions[l])
    /\ sessions[l].gen = requests[r].gen /\ sessions[l].deadline = 0
    /\ Becomes(r, Holding(l, "touch"))
    /\ UNCHANGED <<now, login, sessions, deleted, presented>>

\* access and touch: the exact active generation, just before it is used
Touch(r) ==
    LET l == requests[r].login
        row == sessions[l] IN
    /\ At(r, "touch") /\ requests[r].access > now
    /\ row.state = "active" /\ Live(row) /\ row.gen = requests[r].gen
    /\ sessions' = [sessions EXCEPT ![l].idle = Min({row.absolute, now + IdleTime})]
    /\ Becomes(r, [requests[r] EXCEPT !.step = "forward"])
    /\ UNCHANGED <<now, login, deleted, presented>>

\* The management call, or the session's own answer, goes out.
Forward(r) ==
    /\ At(r, "forward") /\ Becomes(r, Idle)
    /\ UNCHANGED <<now, login, sessions, deleted, presented>>

-----------------------------------------------------------------------------
(* Logout, and the environment                                             *)

\* revoke: in any state, without the time or the generation. The provider's
\* own revocation follows and may fail.
Revoke(r) ==
    LET l == requests[r].login IN
    /\ At(r, "revoke")
    /\ sessions' = IF sessions[l] = NoRow THEN sessions
                   ELSE [sessions EXCEPT ![l].state = "revoked", ![l].deadline = 0,
                                         ![l].token = 0, ![l].sealed = NoSeal]
    /\ Becomes(r, Idle)
    /\ UNCHANGED <<now, login, deleted, presented>>

\* The budget or the worker's deadline is over, the reply is lost, the provider
\* fails, a check fails, or the replica stops.
Abandon(r) ==
    /\ ~At(r, "idle") /\ Becomes(r, Idle)
    /\ UNCHANGED <<now, login, sessions, deleted, presented>>

Tick ==
    /\ now < MaxNow /\ now' = now + 1
    /\ UNCHANGED <<login, sessions, deleted, presented, requests>>

Login(r) ==
    \/ StartAdmit(r) \/ Prune(r) \/ CallbackExchange(r) \/ CallbackInsert(r)
    \/ \E l \in Logins : StartInsert(r, l) \/ CallbackTake(r, l)

Page(r) ==
    \/ \E l \in Logins : Load(r, l, "loaded")
    \/ Keep(r) \/ Claim(r) \/ Exchange(r) \/ Commit(r) \/ Reload(r) \/ Touch(r) \/ Forward(r)

Logout(r) == (\E l \in Logins : Load(r, l, "revoke")) \/ Revoke(r)

Next == Tick \/ \E r \in Requests : Login(r) \/ Page(r) \/ Logout(r) \/ Abandon(r)

Spec == Init /\ [][Next]_vars

-----------------------------------------------------------------------------
(* Properties. *)

\* A code or a refresh token is presented to the provider once at most: the
\* attempt or the claim that hands it out is spent before the exchange, and an
\* exchange of unknown outcome is never repeated, by no request and no replica
\* (login.rs, take_login; mutations.rs, claim_refresh).
TokensUsedOnce == \A l \in Logins, t \in Tokens : presented[l][t] <= 1

\* A row that is live is one its edge can open: the generation, the deadlines
\* and what is sealed agree however claims, commits and touches follow each
\* other, so no session locks its user out before it expires (bundle.rs, open).
LiveRowsOpen == \A l \in Logins : Live(sessions[l]) => Opens(sessions[l])

\* Logout wins: a session revoked, expired or abandoned in a refresh is never
\* live again, whatever a late commit or touch carries, the lifetime set at login
\* is never extended, and no callback or refresh brings back a row that was
\* deleted (store.rs, prune_expired: "no later refresh may resurrect").
NeverResurrected ==
    [][\A l \in Logins :
         /\ l \in deleted => sessions'[l] = NoRow
         /\ sessions[l] # NoRow =>
              /\ ~Live(sessions[l]) => ~Live(sessions[l])'
              /\ sessions'[l] # NoRow => /\ sessions'[l].absolute = sessions[l].absolute
                                         /\ sessions'[l].gen >= sessions[l].gen]_vars

\* The login quota: between any two admissions, both included, no more than the
\* burst and one per tick of the time between them (admission.rs).
AdmissionRate ==
    \A i, j \in DOMAIN admitted :
        i <= j => j - i + 1 <= Burst + admitted[j] - admitted[i]

=============================================================================
