------------------------ MODULE BrowserSessionsProofs ------------------------
(***************************************************************************)
(* Proofs about BrowserSessions, for every set of logins and requests, any *)
(* lifetimes and any size of the table.                                    *)
(***************************************************************************)
EXTENDS BrowserSessions, TLAPS

LoginSteps    == {"prune_login", "insert_login"}
InsertSteps   == {"prune_session", "insert_session"}
CallbackSteps == {"code"} \cup InsertSteps
RefreshSteps  == {"exchange", "commit"}
PageSteps     == RefreshSteps \cup {"loaded", "reload", "touch", "forward", "revoke"}

SealType == [gen : Nat, access : Nat, refresh : Nat]
RowType ==
    [state : {"none", "active", "refreshing", "revoked"}, gen : Nat, deadline : Nat,
     absolute : Nat, idle : Nat, access : Nat, refresh : Nat, token : Tokens, sealed : SealType]

LoginType  == [step : LoginSteps, until : Nat]
CodeType   == [step : {"code"}, login : Logins, token : {0}]
InsertType == [step : InsertSteps, login : Logins, absolute : Nat, access : Nat, refresh : Nat]
PageType   == [step : PageSteps, login : Logins, gen : Nat, access : Nat, refresh : Nat,
               token : Tokens]

\* What a handler holds depends on how far it is.
Held(q) ==
    /\ q.step \in {"idle", "code"} \cup LoginSteps \cup InsertSteps \cup PageSteps
    /\ q.step \in LoginSteps => q \in LoginType
    /\ q.step = "code" => q \in CodeType
    /\ q.step \in InsertSteps => q \in InsertType
    /\ q.step \in PageSteps => q \in PageType

TypeInv ==
    /\ now \in Nat /\ quota \in [tat : Nat, clock : Nat] /\ admitted \in Seq(Nat)
    /\ attempts \in [Logins -> Nat] /\ started \subseteq Logins
    /\ sessions \in [Logins -> RowType]
    /\ presented \in [Logins -> [Tokens -> Nat]]
    /\ DOMAIN requests = Requests /\ \A r \in Requests : Held(requests[r])

-----------------------------------------------------------------------------
(* The operators of the model. *)

LEMMA MinFacts ==
    ASSUME NEW a \in Nat, NEW b \in Nat
    PROVE  Min({a, b}) \in Nat /\ Min({a, b}) <= a /\ Min({a, b}) <= b
<1>1. \E x \in {a, b} : \A y \in {a, b} : x <= y
  OBVIOUS
<1>2. Min({a, b}) \in {a, b} /\ \A y \in {a, b} : Min({a, b}) <= y
  BY <1>1 DEF Min
<1> QED
  BY <1>2

LEMMA Min4Facts ==
    ASSUME NEW a \in Nat, NEW b \in Nat, NEW c \in Nat, NEW d \in Nat
    PROVE  /\ Min({a, b, c, d}) \in {a, b, c, d}
           /\ Min({a, b, c, d}) <= b /\ Min({a, b, c, d}) <= c
<1>1. \E x \in {a, b, c, d} : \A y \in {a, b, c, d} : x <= y
  OBVIOUS
<1>2. /\ Min({a, b, c, d}) \in {a, b, c, d}
      /\ \A y \in {a, b, c, d} : Min({a, b, c, d}) <= y
  BY <1>1 DEF Min
<1> QED
  BY <1>2

LEMMA MaxFacts ==
    ASSUME NEW a \in Nat, NEW b \in Nat
    PROVE  Max({a, b}) \in Nat /\ Max({a, b}) >= a /\ Max({a, b}) >= b
<1>1. \E x \in {a, b} : \A y \in {a, b} : x >= y
  OBVIOUS
<1>2. Max({a, b}) \in {a, b} /\ \A y \in {a, b} : Max({a, b}) >= y
  BY <1>1 DEF Max
<1> QED
  BY <1>2

LEMMA SealFacts ==
    \A g, a, f \in Nat :
        /\ Seal(g, a, f) \in SealType
        /\ Seal(g, a, f).gen = g /\ Seal(g, a, f).access = a /\ Seal(g, a, f).refresh = f
BY DEF Seal, SealType

LEMMA NoRowType == NoRow \in RowType /\ NoRow.state = "none"
BY SessionsAssumption, SealFacts DEF NoRow, RowType, Tokens, NoSeal

LEMMA IdleHeld == Held(Idle) /\ Idle.step = "idle"
BY DEF Idle, Held, LoginSteps, InsertSteps, RefreshSteps, PageSteps

\* One field of a page's record changes at a time.
LEMMA PageStep ==
    ASSUME NEW q \in PageType, NEW s \in PageSteps
    PROVE  /\ [q EXCEPT !.step = s] \in PageType
           /\ [q EXCEPT !.step = s].step = s
           /\ [q EXCEPT !.step = s].login = q.login
           /\ [q EXCEPT !.step = s].token = q.token
BY DEF PageType

LEMMA PageHeld ==
    ASSUME NEW q \in PageType
    PROVE  Held(q)
BY DEF PageType, Held, LoginSteps, InsertSteps, RefreshSteps, PageSteps

-----------------------------------------------------------------------------
LEMMA TypeInit == Init => TypeInv
<1> SUFFICES ASSUME Init PROVE TypeInv
  OBVIOUS
<1>1. 0 \in Tokens /\ 0 \in Nat /\ << >> \in Seq(Nat)
  BY SessionsAssumption DEF Tokens
<1> QED
  BY <1>1, NoRowType, IdleHeld DEF Init, TypeInv

\* A step of one request leaves the others alone.
LEMMA OneRequest ==
    ASSUME TypeInv, NEW r \in Requests, NEW q, Becomes(r, q)
    PROVE  /\ DOMAIN requests' = Requests /\ requests'[r] = q
           /\ \A s \in Requests : s # r => requests'[s] = requests[s]
           /\ Held(q) => \A s \in Requests : Held(requests'[s])
BY DEF TypeInv, Becomes

LEMMA RequestFacts ==
    ASSUME TypeInv, NEW r \in Requests
    PROVE  /\ requests[r].step \in LoginSteps => requests[r] \in LoginType
           /\ requests[r].step = "code" => requests[r] \in CodeType
           /\ requests[r].step \in InsertSteps => requests[r] \in InsertType
           /\ requests[r].step \in PageSteps => requests[r] \in PageType
BY DEF TypeInv, Held

LEMMA RowChanges ==
    ASSUME NEW row \in RowType
    PROVE  /\ \A n \in Nat : [row EXCEPT !.idle = n] \in RowType
           /\ \A n \in Nat : [row EXCEPT !.state = "refreshing", !.gen = @ + 1, !.deadline = n] \in RowType
           /\ [row EXCEPT !.state = "revoked", !.deadline = 0, !.token = 0, !.sealed = NoSeal] \in RowType
           /\ \A q \in PageType : Finished(row, q) \in RowType
<1> USE SessionsAssumption
<1>1. 0 \in Tokens
  BY DEF Tokens
<1>2. \A n \in Nat : [row EXCEPT !.idle = n] \in RowType
  BY DEF RowType
<1>3. \A n \in Nat : [row EXCEPT !.state = "refreshing", !.gen = @ + 1, !.deadline = n] \in RowType
  <2>1. row.gen + 1 \in Nat
    BY DEF RowType
  <2> SUFFICES ASSUME NEW n \in Nat
               PROVE  [row EXCEPT !.state = "refreshing", !.gen = row.gen + 1, !.deadline = n]
                        \in RowType
    BY DEF RowType
  <2> QED
    BY <2>1 DEF RowType
<1>4. [row EXCEPT !.state = "revoked", !.deadline = 0, !.token = 0, !.sealed = NoSeal] \in RowType
  <2>1. NoSeal \in SealType
    BY SealFacts DEF NoSeal
  <2> QED
    BY <1>1, <2>1 DEF RowType
<1>5. \A q \in PageType : Finished(row, q) \in RowType
  <2> SUFFICES ASSUME NEW q \in PageType PROVE Finished(row, q) \in RowType
    OBVIOUS
  <2>1. q.gen \in Nat /\ q.access \in Nat /\ q.refresh \in Nat /\ q.token \in Tokens
    BY DEF PageType
  <2>2. Seal(q.gen, q.access, q.refresh) \in SealType
    BY <2>1, SealFacts
  <2> QED
    BY <2>1, <2>2 DEF RowType, Finished
<1> QED
  BY <1>2, <1>3, <1>4, <1>5

\* The deadline of a claim lies within the row's other times.
LEMMA ClaimedFacts ==
    ASSUME TypeInv, NEW row \in RowType
    PROVE  /\ Claimed(row) \in RowType
           /\ Claimed(row).state = "refreshing" /\ Claimed(row).gen = row.gen + 1
           /\ Claimed(row).absolute = row.absolute /\ Claimed(row).idle = row.idle
           /\ Claimed(row).refresh = row.refresh /\ Claimed(row).sealed = row.sealed
           /\ Claimed(row).access = row.access
           /\ Claimed(row).deadline <= row.idle /\ Claimed(row).deadline <= row.refresh
           /\ Live(row) => Claimed(row).deadline > 0
<1> DEFINE m == Min({row.absolute, row.idle, row.refresh, now + ClaimTime})
<1>1. /\ row.absolute \in Nat /\ row.idle \in Nat /\ row.refresh \in Nat
      /\ now \in Nat /\ now + ClaimTime \in Nat /\ now + ClaimTime > 0
  BY SessionsAssumption DEF TypeInv, RowType
<1>2. /\ m \in {row.absolute, row.idle, row.refresh, now + ClaimTime}
      /\ m <= row.idle /\ m <= row.refresh
  BY <1>1, Min4Facts
<1>3. m \in Nat /\ (Live(row) => m > 0)
  BY <1>1, <1>2 DEF Live
<1>4. Claimed(row) = [row EXCEPT !.state = "refreshing", !.gen = @ + 1, !.deadline = m]
  BY DEF Claimed
<1> HIDE DEF m
<1>5. /\ Claimed(row).state = "refreshing" /\ Claimed(row).gen = row.gen + 1
      /\ Claimed(row).absolute = row.absolute /\ Claimed(row).idle = row.idle
      /\ Claimed(row).refresh = row.refresh /\ Claimed(row).sealed = row.sealed
      /\ Claimed(row).access = row.access /\ Claimed(row).deadline = m
  BY <1>4 DEF RowType
<1>6. Claimed(row) \in RowType
  BY <1>3, <1>4, RowChanges
<1> QED
  BY <1>2, <1>3, <1>5, <1>6

\* A presentation is counted at its login and token, and nowhere else.
LEMMA PresentFacts ==
    ASSUME TypeInv, NEW l \in Logins, NEW t \in Tokens,
           presented' = [presented EXCEPT ![l][t] = @ + 1]
    PROVE  /\ presented' \in [Logins -> [Tokens -> Nat]]
           /\ presented'[l][t] = presented[l][t] + 1
           /\ \A k \in Logins, u \in Tokens :
                k # l \/ u # t => presented'[k][u] = presented[k][u]
<1>1. presented \in [Logins -> [Tokens -> Nat]]
  BY DEF TypeInv
<1>2. presented' = [presented EXCEPT ![l] = [presented[l] EXCEPT ![t] = presented[l][t] + 1]]
  OBVIOUS
<1>3. [presented[l] EXCEPT ![t] = presented[l][t] + 1] \in [Tokens -> Nat]
  BY <1>1
<1> QED
  BY <1>1, <1>2, <1>3

LEMMA LoginTypes ==
    ASSUME TypeInv, NEW r \in Requests, Login(r)
    PROVE  TypeInv'
<1> USE SessionsAssumption
<1>1. CASE StartAdmit(r)
  <2>1. Candidate \in Nat
    <3>1. quota.tat \in Nat /\ now \in Nat
      BY DEF TypeInv
    <3>2. Max({quota.tat, now}) \in Nat
      BY <3>1, MaxFacts
    <3> QED
      BY <3>2 DEF Candidate
  <2> DEFINE q == [step |-> "prune_login", until |-> now + LoginTime]
  <2>2. Held(q)
    BY DEF TypeInv, Held, LoginType, LoginSteps, InsertSteps, PageSteps, RefreshSteps
  <2>3. Becomes(r, q) /\ UNCHANGED <<now, attempts, started, sessions, presented>>
        /\ quota' = [tat |-> Candidate, clock |-> now] /\ admitted' = Append(admitted, now)
    BY <1>1 DEF StartAdmit
  <2> HIDE DEF q
  <2> QED
    BY <2>1, <2>2, <2>3, OneRequest DEF TypeInv
<1>2. CASE Prune(r)
  <2> DEFINE q == [requests[r] EXCEPT !.step = IF @ = "prune_login" THEN "insert_login"
                                               ELSE "insert_session"]
  <2>1. Held(q)
    <3>1. CASE requests[r].step = "prune_login"
      <4>1. requests[r] \in LoginType
        BY <3>1, RequestFacts DEF LoginSteps
      <4>2. q \in LoginType /\ q.step = "insert_login"
        BY <3>1, <4>1 DEF LoginType, LoginSteps
      <4> QED
        BY <4>2 DEF Held, LoginSteps, InsertSteps, PageSteps, RefreshSteps
    <3>2. CASE requests[r].step = "prune_session"
      <4>1. requests[r] \in InsertType
        BY <3>2, RequestFacts DEF InsertSteps
      <4>2. q \in InsertType /\ q.step = "insert_session"
        BY <3>2, <4>1 DEF InsertType, InsertSteps
      <4> QED
        BY <4>2 DEF Held, LoginSteps, InsertSteps, PageSteps, RefreshSteps
    <3> QED
      BY <1>2, <3>1, <3>2 DEF Prune
  <2>2. Becomes(r, q) /\ UNCHANGED <<now, quota, admitted, started, presented>>
    BY <1>2 DEF Prune
  <2> HIDE DEF q
  <2>3. sessions' \in [Logins -> RowType]
    BY <1>2, NoRowType DEF Prune, TypeInv
  <2>4. attempts' \in [Logins -> Nat]
    BY <1>2 DEF Prune, TypeInv
  <2> QED
    BY <2>1, <2>2, <2>3, <2>4, OneRequest DEF TypeInv
<1>3. CASE CallbackExchange(r)
  <2>1. requests[r] \in CodeType
    BY <1>3, RequestFacts DEF CallbackExchange, At
  <2>2. requests[r].login \in Logins /\ requests[r].token = 0
    BY <2>1 DEF CodeType
  <2>3. presented' \in [Logins -> [Tokens -> Nat]]
    <3>1. presented' = [presented EXCEPT ![requests[r].login][0] = @ + 1] /\ 0 \in Tokens
      BY <1>3, <2>2 DEF CallbackExchange, Present, Tokens
    <3> QED
      BY <2>2, <3>1, PresentFacts
  <2> DEFINE q == [step |-> "prune_session", login |-> requests[r].login,
                   absolute |-> now + SessionTime, access |-> now + AccessTime,
                   refresh |-> now + RefreshTime]
  <2>4. Held(q)
    BY <2>2 DEF TypeInv, Held, InsertType, LoginSteps, InsertSteps, PageSteps, RefreshSteps
  <2>5. Becomes(r, q) /\ UNCHANGED <<now, quota, admitted, attempts, started, sessions>>
    BY <1>3 DEF CallbackExchange, login
  <2> HIDE DEF q
  <2> QED
    BY <2>3, <2>4, <2>5, OneRequest DEF TypeInv
<1>4. CASE CallbackInsert(r)
  <2> DEFINE q == requests[r]
             row == [state |-> "active", gen |-> 0, deadline |-> 0, absolute |-> q.absolute,
                     idle |-> Min({q.absolute, now + IdleTime}), access |-> q.access,
                     refresh |-> q.refresh, token |-> 1,
                     sealed |-> Seal(0, q.access, q.refresh)]
  <2>1. q \in InsertType
    BY <1>4, RequestFacts DEF CallbackInsert, At, InsertSteps
  <2>2. row \in RowType
    <3>1. /\ q.absolute \in Nat /\ q.access \in Nat /\ q.refresh \in Nat
          /\ now + IdleTime \in Nat /\ 1 \in Tokens
      BY <2>1 DEF TypeInv, InsertType, Tokens
    <3>2. Min({q.absolute, now + IdleTime}) \in Nat /\ Seal(0, q.access, q.refresh) \in SealType
      BY <3>1, MinFacts, SealFacts
    <3> QED
      BY <3>1, <3>2 DEF RowType
  <2>3. Becomes(r, Idle) /\ UNCHANGED <<now, quota, admitted, attempts, started, presented>>
        /\ sessions' = [sessions EXCEPT ![q.login] = row]
    BY <1>4 DEF CallbackInsert, login
  <2> HIDE DEF row
  <2> QED
    BY <2>2, <2>3, IdleHeld, OneRequest DEF TypeInv
<1>5. ASSUME NEW l \in Logins, StartInsert(r, l) PROVE TypeInv'
  <2>1. requests[r].until \in Nat
    BY <1>5, RequestFacts DEF StartInsert, At, LoginType, LoginSteps
  <2> QED
    BY <1>5, <2>1, IdleHeld, OneRequest DEF TypeInv, StartInsert
<1>6. ASSUME NEW l \in Logins, CallbackTake(r, l) PROVE TypeInv'
  <2> DEFINE q == [step |-> "code", login |-> l, token |-> 0]
  <2>1. Held(q)
    BY DEF Held, CodeType, LoginSteps, InsertSteps, PageSteps, RefreshSteps
  <2>2. Becomes(r, q) /\ attempts' = [attempts EXCEPT ![l] = 0]
        /\ UNCHANGED <<now, quota, admitted, started, sessions, presented>>
    BY <1>6 DEF CallbackTake
  <2> HIDE DEF q
  <2> QED
    BY <2>1, <2>2, OneRequest DEF TypeInv
<1> QED
  BY <1>1, <1>2, <1>3, <1>4, <1>5, <1>6 DEF Login

\* What a page holds after reading a row.
LEMMA HoldingType ==
    ASSUME TypeInv, NEW l \in Logins, NEW step \in PageSteps
    PROVE  /\ Holding(l, step) \in PageType
           /\ Holding(l, step).step = step /\ Holding(l, step).login = l
<1>1. sessions[l] \in RowType
  BY DEF TypeInv
<1> QED
  BY <1>1 DEF RowType, PageType, Holding

LEMMA ClaimRequest ==
    ASSUME NEW q \in PageType, NEW n \in Nat, NEW t \in Tokens
    PROVE  /\ [q EXCEPT !.step = "exchange", !.gen = n + 1, !.token = t] \in PageType
           /\ [q EXCEPT !.step = "exchange", !.gen = n + 1, !.token = t].step = "exchange"
           /\ [q EXCEPT !.step = "exchange", !.gen = n + 1, !.token = t].login = q.login
           /\ [q EXCEPT !.step = "exchange", !.gen = n + 1, !.token = t].token = t
<1>1. n + 1 \in Nat /\ "exchange" \in PageSteps
  BY DEF PageSteps, RefreshSteps
<1> QED
  BY <1>1 DEF PageType

LEMMA ExchangedRequest ==
    ASSUME NEW q \in PageType, q.token < MaxTokens, NEW a \in Nat, NEW b \in Nat
    PROVE  LET p == [q EXCEPT !.step = "commit", !.token = @ + 1, !.access = a, !.refresh = b]
           IN  /\ p \in PageType /\ p.step = "commit" /\ p.login = q.login
               /\ p.token = q.token + 1
<1>1. "commit" \in PageSteps
  BY DEF PageSteps, RefreshSteps
<1>2. q.token \in Tokens /\ q.token + 1 \in Tokens
  BY SessionsAssumption DEF PageType, Tokens
<1>3. [q EXCEPT !.step = "commit", !.token = q.token + 1, !.access = a, !.refresh = b] \in PageType
  BY <1>1, <1>2 DEF PageType
<1> QED
  BY <1>1, <1>2, <1>3 DEF PageType

LEMMA PageTypes ==
    ASSUME TypeInv, NEW r \in Requests, Page(r)
    PROVE  TypeInv'
<1> USE SessionsAssumption
<1> DEFINE q == requests[r]
<1>0. q.step \in PageSteps => q \in PageType /\ q.login \in Logins /\ sessions[q.login] \in RowType
  BY RequestFacts DEF PageType, TypeInv
<1>1. ASSUME NEW l \in Logins, Load(r, l, "loaded") PROVE TypeInv'
  <2>1. Held(Holding(l, "loaded"))
    BY HoldingType, PageHeld DEF PageSteps
  <2> QED
    BY <1>1, <2>1, OneRequest DEF Load, login, TypeInv
<1>2. CASE Keep(r)
  <2>1. Held([q EXCEPT !.step = "touch"])
    BY <1>0, <1>2, PageStep, PageHeld DEF Keep, At, PageSteps
  <2> QED
    BY <1>2, <2>1, OneRequest DEF Keep, login, TypeInv
<1>3. CASE Claim(r)
  <2>1. q \in PageType /\ q.login \in Logins /\ sessions[q.login] \in RowType
    BY <1>0, <1>3 DEF Claim, At, PageSteps
  <2>2. sessions[q.login].gen \in Nat /\ sessions[q.login].token \in Tokens
    BY <2>1 DEF RowType
  <2>3. Held([q EXCEPT !.step = "exchange", !.gen = sessions[q.login].gen + 1,
                       !.token = sessions[q.login].token])
    BY <2>1, <2>2, ClaimRequest, PageHeld
  <2>4. sessions' \in [Logins -> RowType]
    BY <1>3, <2>1, ClaimedFacts DEF Claim, TypeInv
  <2> QED
    BY <1>3, <2>3, <2>4, OneRequest DEF Claim, login, TypeInv
<1>4. CASE Exchange(r)
  <2>1. q \in PageType /\ q.login \in Logins /\ q.token \in Tokens /\ q.token < MaxTokens
    BY <1>0, <1>4 DEF Exchange, At, PageSteps, RefreshSteps, PageType
  <2>2. now + AccessTime \in Nat /\ now + RefreshTime \in Nat
    BY DEF TypeInv
  <2>3. Held([q EXCEPT !.step = "commit", !.token = @ + 1,
                       !.access = now + AccessTime, !.refresh = now + RefreshTime])
    BY <2>1, <2>2, ExchangedRequest, PageHeld
  <2>4. presented' \in [Logins -> [Tokens -> Nat]]
    BY <1>4, <2>1, PresentFacts DEF Exchange, Present
  <2> QED
    BY <1>4, <2>3, <2>4, OneRequest DEF Exchange, login, TypeInv
<1>5. CASE Commit(r)
  <2>1. q \in PageType /\ q.login \in Logins /\ sessions[q.login] \in RowType
    BY <1>0, <1>5 DEF Commit, At, PageSteps, RefreshSteps
  <2>2. Held([q EXCEPT !.step = "reload"])
    BY <2>1, PageStep, PageHeld DEF PageSteps
  <2>3. sessions' \in [Logins -> RowType]
    BY <1>5, <2>1, RowChanges DEF Commit, TypeInv
  <2> QED
    BY <1>5, <2>2, <2>3, OneRequest DEF Commit, login, TypeInv
<1>6. CASE Reload(r)
  <2>1. Held(Holding(q.login, "touch"))
    BY <1>0, <1>6, HoldingType, PageHeld DEF Reload, At, PageSteps
  <2> QED
    BY <1>6, <2>1, OneRequest DEF Reload, login, TypeInv
<1>7. CASE Touch(r)
  <2>1. q \in PageType /\ q.login \in Logins /\ sessions[q.login] \in RowType
    BY <1>0, <1>7 DEF Touch, At, PageSteps
  <2>2. Held([q EXCEPT !.step = "forward"])
    BY <2>1, PageStep, PageHeld DEF PageSteps
  <2>3. Min({sessions[q.login].absolute, now + IdleTime}) \in Nat
    <3>1. sessions[q.login].absolute \in Nat /\ now + IdleTime \in Nat
      BY <2>1 DEF RowType, TypeInv
    <3> QED
      BY <3>1, MinFacts
  <2>4. sessions' = [sessions EXCEPT ![q.login] =
                       [sessions[q.login] EXCEPT !.idle = Min({sessions[q.login].absolute, now + IdleTime})]]
    BY <1>7 DEF Touch
  <2>5. sessions' \in [Logins -> RowType]
    BY <2>1, <2>3, <2>4, RowChanges DEF TypeInv
  <2> QED
    BY <1>7, <2>2, <2>5, OneRequest DEF Touch, login, TypeInv
<1>8. CASE Forward(r)
  BY <1>8, IdleHeld, OneRequest DEF Forward, login, TypeInv
<1> QED
  BY <1>1, <1>2, <1>3, <1>4, <1>5, <1>6, <1>7, <1>8 DEF Page

LEMMA LogoutTypes ==
    ASSUME TypeInv, NEW r \in Requests, Logout(r) \/ Abandon(r)
    PROVE  TypeInv'
<1> DEFINE l == requests[r].login
<1>1. ASSUME NEW k \in Logins, Load(r, k, "revoke") PROVE TypeInv'
  <2>1. Held(Holding(k, "revoke"))
    BY HoldingType, PageHeld DEF PageSteps
  <2> QED
    BY <1>1, <2>1, OneRequest DEF Load, login, TypeInv
<1>2. CASE Revoke(r)
  <2>1. l \in Logins /\ sessions[l] \in RowType
    BY <1>2, RequestFacts DEF Revoke, At, PageSteps, PageType, TypeInv
  <2>2. \/ sessions' = sessions
        \/ sessions' = [sessions EXCEPT ![l] = [sessions[l] EXCEPT
                !.state = "revoked", !.deadline = 0, !.token = 0, !.sealed = NoSeal]]
    BY <1>2, <2>1 DEF Revoke, TypeInv
  <2>3. sessions' \in [Logins -> RowType]
    BY <2>1, <2>2, RowChanges DEF TypeInv
  <2> QED
    BY <1>2, <2>3, IdleHeld, OneRequest DEF Revoke, login, TypeInv
<1>3. CASE Abandon(r)
  BY <1>3, IdleHeld, OneRequest DEF Abandon, login, TypeInv
<1> QED
  BY <1>1, <1>2, <1>3 DEF Logout

LEMMA TypeNext == TypeInv /\ [Next]_vars => TypeInv'
<1> SUFFICES ASSUME TypeInv, [Next]_vars PROVE TypeInv'
  OBVIOUS
<1>1. CASE Tick
  BY <1>1 DEF Tick, login, TypeInv
<1>2. CASE UNCHANGED vars
  BY <1>2 DEF vars, TypeInv
<1> QED
  BY <1>1, <1>2, LoginTypes, PageTypes, LogoutTypes DEF Next

LEMMA TypeCorrect == Spec => []TypeInv
BY TypeInit, TypeNext, PTL DEF Spec

-----------------------------------------------------------------------------
(* Rows. *)

\* What a row that may be live says of itself.
RowOK(row) ==
    /\ row.state \in {"active", "refreshing"} => row.idle <= row.absolute
    /\ row.state = "active" => /\ row.deadline = 0
                               /\ row.sealed = Seal(row.gen, row.access, row.refresh)
    /\ row.state = "refreshing" =>
        /\ row.deadline > 0 /\ row.deadline <= row.idle /\ row.deadline <= row.refresh
        /\ row.sealed = Seal(row.gen - 1, row.access, row.refresh)

RowInv == \A l \in Logins : RowOK(sessions[l])

LEMMA NewRowOK ==
    ASSUME TypeInv, NEW r \in Requests, CallbackInsert(r)
    PROVE  LET l == requests[r].login IN
           /\ l \in Logins /\ RowOK(sessions'[l])
           /\ sessions'[l].state = "active" /\ sessions'[l].token = 1
           /\ \A k \in Logins : k # l => sessions'[k] = sessions[k]
<1> DEFINE q == requests[r]
           idle == Min({q.absolute, now + IdleTime})
<1>1. q.login \in Logins /\ q.absolute \in Nat /\ now + IdleTime \in Nat
  BY RequestFacts, SessionsAssumption DEF CallbackInsert, At, InsertSteps, InsertType, TypeInv
<1>2. idle <= q.absolute
  BY <1>1, MinFacts
<1> HIDE DEF idle
<1>3. sessions' = [sessions EXCEPT ![q.login] =
            [state |-> "active", gen |-> 0, deadline |-> 0, absolute |-> q.absolute,
             idle |-> idle, access |-> q.access, refresh |-> q.refresh, token |-> 1,
                     sealed |-> Seal(0, q.access, q.refresh)]]
  BY DEF CallbackInsert, idle
<1> QED
  BY <1>1, <1>2, <1>3 DEF TypeInv, RowOK

\* A claim, a commit, a touch and a revocation change one row, and say how.
LEMMA ClaimRow ==
    ASSUME TypeInv, NEW r \in Requests, Claim(r)
    PROVE  LET l == requests[r].login IN
           /\ l \in Logins /\ sessions[l] \in RowType
           /\ sessions[l].state = "active" /\ Live(sessions[l])
           /\ sessions'[l] = Claimed(sessions[l])
           /\ \A k \in Logins : k # l => sessions'[k] = sessions[k]
<1>1. requests[r].login \in Logins
  BY RequestFacts DEF Claim, At, PageSteps, PageType
<1> QED
  BY <1>1 DEF Claim, MayClaim, TypeInv

LEMMA CommitRow ==
    ASSUME TypeInv, NEW r \in Requests, Commit(r)
    PROVE  LET q == requests[r]
               l == q.login IN
           /\ l \in Logins /\ sessions[l] \in RowType
           /\ sessions[l].state = "refreshing" /\ Live(sessions[l]) /\ sessions[l].gen = q.gen
           /\ sessions'[l].state = "active" /\ sessions'[l].deadline = 0
           /\ sessions'[l].gen = sessions[l].gen 
           /\ sessions'[l].sealed = Seal(q.gen, sessions'[l].access, sessions'[l].refresh)
           /\ sessions'[l].absolute = sessions[l].absolute
           /\ sessions'[l].idle = sessions[l].idle
           /\ sessions'[l].token = q.token
           /\ \A k \in Logins : k # l => sessions'[k] = sessions[k]
<1> DEFINE q == requests[r]
           l == q.login
<1>1. l \in Logins /\ sessions[l] \in RowType
  BY RequestFacts DEF Commit, At, PageSteps, RefreshSteps, PageType, TypeInv
<1>2. sessions' = [sessions EXCEPT ![l] = Finished(sessions[l], q)]
      /\ sessions[l].state = "refreshing" /\ Live(sessions[l]) /\ sessions[l].gen = q.gen
  BY DEF Commit, MayFinish
<1>3. /\ Finished(sessions[l], q).state = "active" /\ Finished(sessions[l], q).deadline = 0
      /\ Finished(sessions[l], q).gen = sessions[l].gen
      /\ Finished(sessions[l], q).sealed = Seal(q.gen, q.access, q.refresh)
      /\ Finished(sessions[l], q).access = q.access /\ Finished(sessions[l], q).refresh = q.refresh
      /\ Finished(sessions[l], q).absolute = sessions[l].absolute
      /\ Finished(sessions[l], q).idle = sessions[l].idle
      /\ Finished(sessions[l], q).token = q.token
  BY <1>1 DEF Finished, RowType
<1>4. sessions'[l] = Finished(sessions[l], q) /\ \A k \in Logins : k # l => sessions'[k] = sessions[k]
  BY <1>1, <1>2 DEF TypeInv
<1> QED
  BY <1>1, <1>2, <1>3, <1>4

LEMMA TouchRow ==
    ASSUME TypeInv, NEW r \in Requests, Touch(r)
    PROVE  LET l == requests[r].login IN
           /\ l \in Logins /\ sessions[l] \in RowType
           /\ sessions[l].state = "active" /\ Live(sessions[l])
           /\ sessions'[l].state = "active" /\ sessions'[l].deadline = sessions[l].deadline
           /\ sessions'[l].gen = sessions[l].gen /\ sessions'[l].sealed = sessions[l].sealed
           /\ sessions'[l].access = sessions[l].access
           /\ sessions'[l].refresh = sessions[l].refresh
           /\ sessions'[l].absolute = sessions[l].absolute
           /\ sessions'[l].token = sessions[l].token
           /\ sessions'[l].idle <= sessions[l].absolute
           /\ \A k \in Logins : k # l => sessions'[k] = sessions[k]
<1> DEFINE l == requests[r].login
           idle == Min({sessions[l].absolute, now + IdleTime})
<1>1. l \in Logins /\ sessions[l] \in RowType
  BY RequestFacts DEF Touch, At, PageSteps, PageType, TypeInv
<1>2. sessions[l].absolute \in Nat /\ now + IdleTime \in Nat
  BY <1>1, SessionsAssumption DEF RowType, TypeInv
<1>3. idle <= sessions[l].absolute
  BY <1>2, MinFacts
<1> HIDE DEF idle
<1>4. sessions' = [sessions EXCEPT ![l] = [sessions[l] EXCEPT !.idle = idle]]
      /\ sessions[l].state = "active" /\ Live(sessions[l])
  BY DEF Touch, idle
<1>5. sessions'[l] = [sessions[l] EXCEPT !.idle = idle]
      /\ \A k \in Logins : k # l => sessions'[k] = sessions[k]
  BY <1>1, <1>4 DEF TypeInv
<1> QED
  BY <1>1, <1>3, <1>4, <1>5 DEF RowType

LEMMA RevokeRow ==
    ASSUME TypeInv, NEW r \in Requests, Revoke(r)
    PROVE  LET l == requests[r].login IN
           /\ l \in Logins
           /\ \A k \in Logins : k # l => sessions'[k] = sessions[k]
           /\ \/ sessions'[l] = sessions[l]
              \/ /\ sessions[l] # NoRow /\ sessions'[l].state = "revoked"
                 /\ sessions'[l].absolute = sessions[l].absolute
                 /\ sessions'[l].gen = sessions[l].gen
<1> DEFINE l == requests[r].login
<1>1. l \in Logins /\ sessions[l] \in RowType
  BY RequestFacts DEF Revoke, At, PageSteps, PageType, TypeInv
<1>2. CASE sessions[l] = NoRow
  BY <1>1, <1>2 DEF Revoke
<1>3. CASE sessions[l] # NoRow
  <2> DEFINE row == [sessions[l] EXCEPT !.state = "revoked", !.deadline = 0, !.token = 0, !.sealed = NoSeal]
  <2>1. sessions' = [sessions EXCEPT ![l] = row]
    BY <1>1, <1>3 DEF Revoke, TypeInv
  <2>2. row.state = "revoked" /\ row.absolute = sessions[l].absolute /\ row.gen = sessions[l].gen
    BY <1>1 DEF RowType
  <2> HIDE DEF row
  <2> QED
    BY <1>1, <1>3, <2>1, <2>2 DEF TypeInv
<1> QED
  BY <1>2, <1>3

\* The other steps of a request write no row, except that Prune deletes some
\* that are not live.
Quiet(r) ==
    \/ StartAdmit(r) \/ CallbackExchange(r) \/ Keep(r) \/ Exchange(r) \/ Reload(r)
    \/ Forward(r) \/ Abandon(r)
    \/ \E l \in Logins : \/ StartInsert(r, l) \/ CallbackTake(r, l)
                         \/ Load(r, l, "loaded") \/ Load(r, l, "revoke")

LEMMA QuietRows ==
    ASSUME NEW r \in Requests, Quiet(r)
    PROVE  sessions' = sessions /\ now' = now
BY DEF Quiet, StartAdmit, CallbackExchange, Keep, Exchange, Reload, Forward, Abandon,
       StartInsert, CallbackTake, Load

LEMMA PruneRows ==
    ASSUME NEW r \in Requests, Prune(r)
    PROVE  \A l \in Logins : \/ sessions'[l] = sessions[l]
                             \/ sessions'[l] = NoRow /\ ~Live(sessions[l])
BY DEF Prune

LEMMA RowInit == Init => RowInv
BY NoRowType DEF Init, RowInv, RowOK

LEMMA RowNext == TypeInv /\ RowInv /\ [Next]_vars => RowInv'
<1> SUFFICES ASSUME TypeInv, RowInv, [Next]_vars PROVE RowInv'
  OBVIOUS
<1>1. CASE Tick \/ UNCHANGED vars
  BY <1>1 DEF Tick, vars, RowInv
<1>2. ASSUME NEW r \in Requests, Quiet(r) PROVE RowInv'
  BY <1>2, QuietRows DEF RowInv
<1>3. ASSUME NEW r \in Requests, Prune(r) PROVE RowInv'
  <2>1. RowOK(NoRow)
    BY NoRowType DEF RowOK
  <2> QED
    BY <1>3, <2>1, PruneRows DEF RowInv
<1>4. ASSUME NEW r \in Requests, CallbackInsert(r) PROVE RowInv'
  BY <1>4, NewRowOK DEF RowInv
<1>5. ASSUME NEW r \in Requests, Claim(r) PROVE RowInv'
  <2>1. RowOK(Claimed(sessions[requests[r].login]))
    <3> DEFINE row == sessions[requests[r].login]
    <3>1. /\ row \in RowType /\ row.state = "active" /\ Live(row) /\ RowOK(row)
      BY <1>5, ClaimRow DEF RowInv
    <3>2. row.gen \in Nat
      BY <3>1 DEF RowType
    <3> HIDE DEF row
    <3>3. RowOK(Claimed(row))
      BY <3>1, <3>2, ClaimedFacts DEF RowOK
    <3> QED
      BY <3>3 DEF row
  <2> QED
    BY <1>5, <2>1, ClaimRow DEF RowInv
<1>6. ASSUME NEW r \in Requests, Commit(r) PROVE RowInv'
  BY <1>6, CommitRow DEF RowInv, RowOK
<1>7. ASSUME NEW r \in Requests, Touch(r) PROVE RowInv'
  BY <1>7, TouchRow DEF RowInv, RowOK
<1>8. ASSUME NEW r \in Requests, Revoke(r) PROVE RowInv'
  BY <1>8, RevokeRow DEF RowInv, RowOK
<1> QED
  BY <1>1, <1>2, <1>3, <1>4, <1>5, <1>6, <1>7, <1>8 DEF Next, Login, Page, Logout, Quiet

\* No live session locks its user out: a row that is live opens in every
\* reachable state (store/mutations.rs against bundle.rs, open).
THEOREM OpenCorrect == Spec => []LiveRowsOpen
<1>1. Spec => []RowInv
  BY RowInit, RowNext, TypeCorrect, PTL DEF Spec
<1>2. TypeInv /\ RowInv => LiveRowsOpen
  <2> SUFFICES ASSUME TypeInv, RowInv, NEW l \in Logins, Live(sessions[l])
               PROVE  Opens(sessions[l])
    BY DEF LiveRowsOpen
  <2>1. sessions[l] \in RowType /\ RowOK(sessions[l])
    BY DEF TypeInv, RowInv
  <2> QED
    BY <2>1 DEF RowOK, RowType, Live, Opens
<1> QED
  BY <1>1, <1>2, TypeCorrect, PTL

-----------------------------------------------------------------------------
(* Tokens. *)

\* The requests that hold a code or a token they may yet present, or the answer
\* to one; the first token that was not presented, as such a request knows it.
Busy(r) == requests[r].step \in CallbackSteps \cup RefreshSteps
First(r) == IF requests[r].step \in InsertSteps THEN 1 ELSE requests[r].token

Unused(l, n) == \A t \in Tokens : t >= n => presented[l][t] = 0

BusyOK(r) ==
    LET l == requests[r].login IN
    /\ l \in started /\ attempts[l] = 0 /\ sessions[l].state # "active"
    /\ requests[r].step \in CallbackSteps => sessions[l] = NoRow
    /\ Unused(l, First(r))
    /\ \A s \in Requests : s # r /\ Busy(s) => requests[s].login # l

\* Why no token is presented twice: at every time one party at most has what was
\* not presented: the attempt, a single request, or an active row.
UseInv ==
    /\ TokensUsedOnce
    /\ \A l \in Logins :
        /\ l \notin started \/ attempts[l] # 0 => sessions[l] = NoRow /\ Unused(l, 0)
        /\ l \notin started => attempts[l] = 0
        /\ sessions[l].state = "active" => Unused(l, sessions[l].token)
    /\ \A r \in Requests : Busy(r) => BusyOK(r)

LEMMA UseInit == Init => UseInv
<1> SUFFICES ASSUME Init PROVE UseInv
  OBVIOUS
<1>1. \A r \in Requests : ~Busy(r)
  BY IdleHeld DEF Init, Busy, CallbackSteps, InsertSteps, RefreshSteps
<1>2. \A l \in Logins, t \in Tokens : presented[l][t] = 0
  BY DEF Init
<1> QED
  BY <1>1, <1>2, NoRowType DEF Init, UseInv, TokensUsedOnce, Unused

\* A step that presents and starts nothing, deletes rows and attempts or changes
\* them within their state, and after which a request is busy only if it was.
LEMMA UseKept ==
    ASSUME TypeInv, UseInv, UNCHANGED <<started, presented>>,
           \A l \in Logins : attempts'[l] \in {0, attempts[l]},
           \A l \in Logins :
               \/ sessions'[l] = sessions[l] \/ sessions'[l] = NoRow
               \/ sessions[l] # NoRow /\ sessions'[l].state # "active"
               \/ /\ sessions[l] # NoRow
                  /\ sessions[l].state = "active" /\ sessions'[l].state = "active"
                  /\ sessions'[l].token = sessions[l].token,
           \A r \in Requests : Busy(r)' =>
               /\ Busy(r) /\ requests'[r].login = requests[r].login /\ First(r)' = First(r)
               /\ requests'[r].step \in CallbackSteps => requests[r].step \in CallbackSteps
    PROVE  UseInv'
<1>1. \A l \in Logins : \A n : Unused(l, n)' <=> Unused(l, n)
  BY DEF Unused
<1>2. TokensUsedOnce'
  BY DEF UseInv, TokensUsedOnce
<1>3. ASSUME NEW l \in Logins
      PROVE  /\ l \notin started' \/ attempts'[l] # 0 => sessions'[l] = NoRow /\ Unused(l, 0)'
             /\ l \notin started' => attempts'[l] = 0
             /\ sessions'[l].state = "active" => Unused(l, sessions[l].token)'
                                               /\ sessions'[l].token = sessions[l].token
  BY <1>1, NoRowType DEF UseInv
<1>4. ASSUME NEW r \in Requests, Busy(r)'
      PROVE  BusyOK(r)'
  <2>1. /\ Busy(r) /\ requests'[r].login = requests[r].login /\ First(r)' = First(r)
        /\ requests'[r].step \in CallbackSteps => requests[r].step \in CallbackSteps
    BY <1>4
  <2>2. BusyOK(r) /\ requests[r].login \in Logins
    BY <2>1 DEF UseInv, BusyOK, TypeInv
  <2>3. \A s \in Requests : s # r /\ Busy(s)' => requests'[s].login # requests[r].login
    BY <2>2 DEF BusyOK
  <2>4. Unused(requests[r].login, First(r))'
    BY <2>1, <2>2, <1>1 DEF Unused, BusyOK
  <2>5. sessions'[requests[r].login].state # "active"
        /\ (requests[r].step \in CallbackSteps => sessions'[requests[r].login] = NoRow)
    BY <2>2, NoRowType DEF BusyOK
  <2> QED
    BY <2>1, <2>2, <2>3, <2>4, <2>5 DEF BusyOK, Unused
<1> QED
  BY <1>2, <1>3, <1>4 DEF UseInv, Unused

\* A request that is not busy, or that is busy with the same, before and after.
LEMMA StillBusy ==
    ASSUME TypeInv, NEW r \in Requests, NEW q, Becomes(r, q),
           \/ q.step \notin CallbackSteps \cup RefreshSteps
           \/ /\ Busy(r) /\ q.login = requests[r].login
              /\ q.step \in InsertSteps /\ requests[r].step \in InsertSteps
    PROVE  \A s \in Requests : Busy(s)' =>
               /\ Busy(s) /\ requests'[s].login = requests[s].login /\ First(s)' = First(s)
               /\ requests'[s].step \in CallbackSteps => requests[s].step \in CallbackSteps
<1>1. requests'[r] = q /\ \A s \in Requests : s # r => requests'[s] = requests[s]
  BY OneRequest
<1>2. InsertSteps \subseteq CallbackSteps
  BY DEF CallbackSteps
<1> QED
  BY <1>1, <1>2 DEF Busy, First

\* The steps that neither present a token, nor start, take or hand over a login.
LEMMA UseQuiet ==
    ASSUME TypeInv, UseInv, NEW r \in Requests,
           \/ StartAdmit(r) \/ Prune(r) \/ Keep(r) \/ Reload(r) \/ Touch(r) \/ Forward(r)
           \/ Revoke(r) \/ Abandon(r)
           \/ \E l \in Logins : Load(r, l, "loaded") \/ Load(r, l, "revoke")
    PROVE  UseInv'
<1> DEFINE Rest == CallbackSteps \cup RefreshSteps
<1>0. /\ "prune_login" \notin Rest /\ "insert_login" \notin Rest /\ "touch" \notin Rest
      /\ "forward" \notin Rest /\ "idle" \notin Rest /\ "loaded" \notin Rest
      /\ "revoke" \notin Rest
  BY DEF CallbackSteps, InsertSteps, RefreshSteps
<1>1. CASE StartAdmit(r)
  <2>1. /\ Becomes(r, [step |-> "prune_login", until |-> now + LoginTime])
        /\ UNCHANGED <<attempts, started, sessions, presented>>
    BY <1>1 DEF StartAdmit
  <2>2. \A s \in Requests : Busy(s)' =>
               /\ Busy(s) /\ requests'[s].login = requests[s].login /\ First(s)' = First(s)
               /\ requests'[s].step \in CallbackSteps => requests[s].step \in CallbackSteps
    BY <1>0, <2>1, StillBusy
  <2> QED
    BY <2>1, <2>2, UseKept
<1>2. CASE Prune(r)
  <2> DEFINE q == [requests[r] EXCEPT !.step = IF @ = "prune_login" THEN "insert_login"
                                               ELSE "insert_session"]
  <2>1. Becomes(r, q) /\ UNCHANGED <<started, presented>>
        /\ requests[r].step \in {"prune_login", "prune_session"}
        /\ \A l \in Logins : attempts'[l] \in {0, attempts[l]}
    BY <1>2 DEF Prune
  <2>2. requests[r].step = "prune_login" => q.step \notin Rest
    BY <1>0, RequestFacts DEF LoginSteps, LoginType
  <2>3. requests[r].step = "prune_session" =>
          Busy(r) /\ q.login = requests[r].login /\ q.step \in InsertSteps
          /\ requests[r].step \in InsertSteps
    BY RequestFacts DEF InsertSteps, InsertType, Busy, CallbackSteps
  <2> HIDE DEF q
  <2>4. \A s \in Requests : Busy(s)' =>
               /\ Busy(s) /\ requests'[s].login = requests[s].login /\ First(s)' = First(s)
               /\ requests'[s].step \in CallbackSteps => requests[s].step \in CallbackSteps
    BY <2>1, <2>2, <2>3, StillBusy
  <2>5. \A l \in Logins : sessions'[l] = sessions[l] \/ sessions'[l] = NoRow
    BY <1>2, PruneRows
  <2> QED
    BY <2>1, <2>4, <2>5, UseKept
<1>3. CASE Touch(r)
  <2> DEFINE l == requests[r].login
             q == [requests[r] EXCEPT !.step = "forward"]
  <2>1. Becomes(r, q) /\ UNCHANGED <<attempts, started, presented>>
    BY <1>3 DEF Touch, login
  <2>2. q.step \notin Rest
    BY <1>0, <1>3, RequestFacts DEF Touch, At, PageSteps, PageType
  <2> HIDE DEF q
  <2>3. \A s \in Requests : Busy(s)' =>
               /\ Busy(s) /\ requests'[s].login = requests[s].login /\ First(s)' = First(s)
               /\ requests'[s].step \in CallbackSteps => requests[s].step \in CallbackSteps
    BY <2>1, <2>2, StillBusy
  <2>4. \A k \in Logins : sessions'[k] = sessions[k]
            \/ (/\ sessions[k] # NoRow
                /\ sessions[k].state = "active" /\ sessions'[k].state = "active"
                /\ sessions'[k].token = sessions[k].token)
    BY <1>3, TouchRow, NoRowType
  <2> QED
    BY <2>1, <2>3, <2>4, UseKept
<1>4. CASE Revoke(r)
  <2>1. Becomes(r, Idle) /\ UNCHANGED <<attempts, started, presented>>
    BY <1>4 DEF Revoke, login
  <2>2. \A s \in Requests : Busy(s)' =>
               /\ Busy(s) /\ requests'[s].login = requests[s].login /\ First(s)' = First(s)
               /\ requests'[s].step \in CallbackSteps => requests[s].step \in CallbackSteps
    BY <1>0, <2>1, StillBusy, IdleHeld
  <2>3. \A k \in Logins : sessions'[k] = sessions[k]
            \/ (sessions[k] # NoRow /\ sessions'[k].state # "active")
    BY <1>4, RevokeRow
  <2> QED
    BY <2>1, <2>2, <2>3, UseKept
<1>5. ASSUME NEW q, Becomes(r, q), q.step \notin Rest,
             UNCHANGED <<attempts, started, sessions, presented>>
      PROVE  UseInv'
  <2>1. \A s \in Requests : Busy(s)' =>
               /\ Busy(s) /\ requests'[s].login = requests[s].login /\ First(s)' = First(s)
               /\ requests'[s].step \in CallbackSteps => requests[s].step \in CallbackSteps
    BY <1>5, StillBusy
  <2> QED
    BY <1>5, <2>1, UseKept
<1>6. CASE Keep(r)
  <2>1. [requests[r] EXCEPT !.step = "touch"].step = "touch"
    BY <1>6, RequestFacts DEF Keep, At, PageSteps, PageType
  <2> QED
    BY <1>0, <1>5, <1>6, <2>1 DEF Keep, login
<1>7. CASE Forward(r) \/ Abandon(r)
  BY <1>0, <1>5, <1>7, IdleHeld DEF Forward, Abandon, login
<1>8. CASE Reload(r)
  <2>1. requests[r].login \in Logins
    BY <1>8, RequestFacts DEF Reload, At, PageSteps, PageType
  <2>2. Holding(requests[r].login, "touch").step = "touch"
    BY DEF Holding
  <2> QED
    BY <1>0, <1>5, <1>8, <2>2 DEF Reload, login
<1>9. ASSUME NEW l \in Logins, NEW step \in {"loaded", "revoke"}, Load(r, l, step)
      PROVE  UseInv'
  <2>1. Holding(l, step).step = step
    BY DEF Holding
  <2> QED
    BY <1>0, <1>5, <1>9, <2>1 DEF Load, login
<1> QED
  BY <1>1, <1>2, <1>3, <1>4, <1>6, <1>7, <1>8, <1>9

\* A presentation by a busy request of the first token it knows to be unused.
LEMMA UsePresented ==
    ASSUME TypeInv, UseInv, NEW r \in Requests, NEW q, Becomes(r, q),
           requests[r].step \in {"code", "exchange"}, requests[r].login \in Logins,
           requests[r].token \in Tokens, Present(r),
           UNCHANGED <<attempts, started, sessions>>,
           q.login = requests[r].login,
           \/ requests[r].step = "code" /\ q.step \in InsertSteps /\ requests[r].token = 0
           \/ requests[r].step = "exchange" /\ q.step = "commit" /\ q.token = requests[r].token + 1
    PROVE  UseInv'
<1> DEFINE l == requests[r].login
           t == requests[r].token
<1>1. requests'[r] = q /\ \A s \in Requests : s # r => requests'[s] = requests[s]
  BY OneRequest
<1>2. /\ presented'[l][t] = presented[l][t] + 1
      /\ \A k \in Logins, u \in Tokens : k # l \/ u # t => presented'[k][u] = presented[k][u]
  BY PresentFacts DEF Present
<1>3. Busy(r) /\ First(r) = t
  BY DEF Busy, First, CallbackSteps, InsertSteps, RefreshSteps
<1>4. BusyOK(r)
  BY <1>3 DEF UseInv
<1>5. presented[l][t] = 0 /\ t \in Nat
  <2>1. t \in Nat
    BY DEF Tokens
  <2> QED
    BY <1>3, <1>4, <2>1 DEF BusyOK, Unused
<1>6. \A k \in Logins : \A n : k # l => (Unused(k, n)' <=> Unused(k, n))
  BY <1>2 DEF Unused
<1>7. TokensUsedOnce'
  <2> SUFFICES ASSUME NEW k \in Logins, NEW u \in Tokens PROVE presented'[k][u] <= 1
    BY DEF TokensUsedOnce
  <2>1. CASE k = l /\ u = t
    BY <1>2, <1>5, <2>1
  <2>2. CASE ~(k = l /\ u = t)
    BY <1>2, <2>2 DEF UseInv, TokensUsedOnce
  <2> QED
    BY <2>1, <2>2
<1>8. Busy(r)' /\ First(r)' = t + 1 /\ (requests'[r].step \in CallbackSteps => requests[r].step \in CallbackSteps)
  BY <1>1, <1>5 DEF Busy, First, CallbackSteps, InsertSteps, RefreshSteps
<1>9. \A u \in Tokens : u >= t + 1 => presented'[l][u] = 0
  BY <1>2, <1>3, <1>4, <1>5 DEF BusyOK, Unused, Tokens
<1>10. ASSUME NEW s \in Requests, s # r PROVE Busy(s)' <=> Busy(s)
  BY <1>1, <1>10 DEF Busy
<1>11. BusyOK(r)'
  <2>1. requests'[r].login = l /\ (requests'[r].step \in CallbackSteps => sessions[l] = NoRow)
    BY <1>1, <1>4, <1>8 DEF BusyOK
  <2>2. Unused(requests[r].login, First(r))'
    BY <2>1, <1>8, <1>9 DEF Unused
  <2>3. \A s \in Requests : s # r /\ Busy(s)' => requests'[s].login # l
    BY <1>1, <1>4, <1>10 DEF BusyOK
  <2> QED
    BY <1>4, <2>1, <2>2, <2>3 DEF BusyOK
<1>12. ASSUME NEW s \in Requests, s # r, Busy(s)' PROVE BusyOK(s)'
  <2>1. Busy(s) /\ BusyOK(s) /\ requests'[s] = requests[s]
    BY <1>1, <1>10, <1>12 DEF UseInv
  <2>2. requests[s].login # l /\ requests[s].login \in Logins
    BY <1>3, <1>12, <2>1 DEF BusyOK, TypeInv
  <2>3. Unused(requests[s].login, First(s))'
    BY <1>6, <2>1, <2>2 DEF BusyOK, Unused, First
  <2>4. \A p \in Requests : p # s /\ Busy(p)' => requests'[p].login # requests[s].login
    BY <1>1, <1>3, <1>10, <2>1, <2>2 DEF BusyOK
  <2> QED
    BY <2>1, <2>3, <2>4 DEF BusyOK
<1>13. ASSUME NEW k \in Logins
       PROVE  /\ k \notin started \/ attempts[k] # 0 => sessions[k] = NoRow /\ Unused(k, 0)'
              /\ sessions[k].state = "active" => Unused(k, sessions[k].token)'
  <2>1. CASE k = l
    BY <1>4, <2>1 DEF BusyOK
  <2>2. CASE k # l
    BY <1>6, <2>2 DEF UseInv
  <2> QED
    BY <2>1, <2>2
<1> QED
  BY <1>7, <1>11, <1>12, <1>13 DEF UseInv, Unused

\* A login taken up: the attempt, or the active row, gives what was not
\* presented to one request.
LEMMA UseTaken ==
    ASSUME TypeInv, UseInv, NEW r \in Requests, NEW q, Becomes(r, q), NEW l \in Logins,
           UNCHANGED <<started, presented>>, ~Busy(r),
           q.login = l, q.step \in {"code", "exchange"}, q.token \in Tokens,
           \/ /\ q.step = "code" /\ q.token = 0 /\ sessions' = sessions
              /\ attempts[l] # 0 /\ attempts'[l] = 0
           \/ /\ q.step = "exchange" /\ q.token = sessions[l].token /\ attempts' = attempts
              /\ sessions[l].state = "active" /\ sessions'[l].state # "active",
           \A k \in Logins : k # l => sessions'[k] = sessions[k] /\ attempts'[k] = attempts[k]
    PROVE  UseInv'
<1>1. requests'[r] = q /\ \A s \in Requests : s # r => requests'[s] = requests[s]
  BY OneRequest
<1>2. \A k \in Logins : \A n : Unused(k, n)' <=> Unused(k, n)
  BY DEF Unused
<1>3. \A s \in Requests : Busy(s) => requests[s].login # l
  BY DEF UseInv, BusyOK
<1>4. Unused(l, q.token) /\ l \in started
  BY NoRowType DEF UseInv
<1>5. attempts'[l] = 0 /\ sessions'[l].state # "active" /\ (q.step = "code" => sessions'[l] = NoRow)
  BY NoRowType DEF UseInv
<1>6. First(r)' = q.token /\ Busy(r)' /\ (q.step \in CallbackSteps => q.step = "code")
  BY <1>1 DEF First, Busy, CallbackSteps, InsertSteps, RefreshSteps
<1>7. \A s \in Requests : s # r => (Busy(s)' <=> Busy(s))
  BY <1>1 DEF Busy
<1>8. BusyOK(r)'
  BY <1>1, <1>2, <1>3, <1>4, <1>5, <1>6, <1>7 DEF BusyOK, Unused
<1>9. ASSUME NEW s \in Requests, s # r, Busy(s)' PROVE BusyOK(s)'
  <2>1. Busy(s) /\ BusyOK(s) /\ requests'[s] = requests[s]
    BY <1>1, <1>7, <1>9 DEF UseInv
  <2>2. requests[s].login # l /\ requests[s].login \in Logins
    BY <1>3, <2>1 DEF BusyOK, TypeInv
  <2>3. Unused(requests[s].login, First(s))'
    BY <1>2, <2>1, <2>2 DEF BusyOK, Unused, First
  <2>4. \A p \in Requests : p # s /\ Busy(p)' => requests'[p].login # requests[s].login
    BY <1>1, <1>7, <2>1, <2>2 DEF BusyOK
  <2> QED
    BY <2>1, <2>2, <2>3, <2>4 DEF BusyOK
<1>10. ASSUME NEW k \in Logins
       PROVE  /\ k \notin started' \/ attempts'[k] # 0 => sessions'[k] = NoRow /\ Unused(k, 0)'
              /\ k \notin started' => attempts'[k] = 0
              /\ sessions'[k].state = "active" =>
                    Unused(k, sessions[k].token)' /\ sessions'[k] = sessions[k]
  BY <1>2, <1>4, <1>5 DEF UseInv
<1>11. TokensUsedOnce'
  BY DEF UseInv, TokensUsedOnce
<1> QED
  BY <1>8, <1>9, <1>10, <1>11 DEF UseInv, Unused

\* A row made active by the only request that holds what was not presented.
LEMMA UseGiven ==
    ASSUME TypeInv, UseInv, NEW r \in Requests, NEW q, Becomes(r, q),
           UNCHANGED <<attempts, started, presented>>, Busy(r),
           q.step \notin CallbackSteps \cup RefreshSteps,
           sessions'[requests[r].login].token = First(r),
           \A k \in Logins : k # requests[r].login => sessions'[k] = sessions[k]
    PROVE  UseInv'
<1> DEFINE l == requests[r].login
<1>1. requests'[r] = q /\ \A s \in Requests : s # r => requests'[s] = requests[s]
  BY OneRequest
<1>2. \A k \in Logins : \A n : Unused(k, n)' <=> Unused(k, n)
  BY DEF Unused
<1>3. BusyOK(r) /\ l \in Logins
  BY DEF UseInv, BusyOK, TypeInv
<1>4. ~Busy(r)' /\ \A s \in Requests : s # r => (Busy(s)' <=> Busy(s))
  BY <1>1 DEF Busy
<1>5. ASSUME NEW s \in Requests, Busy(s)' PROVE BusyOK(s)'
  <2>1. s # r /\ Busy(s) /\ BusyOK(s) /\ requests'[s] = requests[s]
    BY <1>1, <1>4, <1>5 DEF UseInv
  <2>2. requests[s].login # l /\ requests[s].login \in Logins
    BY <1>3, <2>1 DEF BusyOK, TypeInv
  <2>3. Unused(requests[s].login, First(s))'
    BY <1>2, <2>1, <2>2 DEF BusyOK, Unused, First
  <2>4. \A p \in Requests : p # s /\ Busy(p)' => requests'[p].login # requests[s].login
    BY <1>1, <1>4, <2>1, <2>2 DEF BusyOK
  <2> QED
    BY <2>1, <2>2, <2>3, <2>4 DEF BusyOK
<1>6. ASSUME NEW k \in Logins
      PROVE  /\ k \notin started' \/ attempts'[k] # 0 => sessions'[k] = NoRow /\ Unused(k, 0)'
             /\ k \notin started' => attempts'[k] = 0
             /\ sessions'[k].state = "active" => Unused(k, sessions'[k].token)
  <2>1. CASE k = l
    BY <1>3, <2>1 DEF BusyOK
  <2>2. CASE k # l
    BY <1>2, <2>2 DEF UseInv
  <2> QED
    BY <2>1, <2>2
<1>7. TokensUsedOnce'
  BY DEF UseInv, TokensUsedOnce
<1> QED
  BY <1>5, <1>6, <1>7 DEF UseInv, Unused

\* A login that starts: its state is new, and nothing was done with it.
LEMMA UseStarted ==
    ASSUME TypeInv, UseInv, NEW r \in Requests, NEW l \in Logins, StartInsert(r, l)
    PROVE  UseInv'
<1>1. /\ requests'[r] = Idle /\ \A s \in Requests : s # r => requests'[s] = requests[s]
      /\ UNCHANGED <<sessions, presented>> /\ l \notin started /\ started' = started \cup {l}
      /\ \A k \in Logins : k # l => attempts'[k] = attempts[k]
  BY OneRequest DEF StartInsert, TypeInv
<1>2. \A k \in Logins : \A n : Unused(k, n)' <=> Unused(k, n)
  BY <1>1 DEF Unused
<1>3. ~Busy(r)' /\ \A s \in Requests : s # r => (Busy(s)' <=> Busy(s))
  BY <1>1, IdleHeld DEF Busy, CallbackSteps, InsertSteps, RefreshSteps
<1>4. ASSUME NEW s \in Requests, Busy(s)' PROVE BusyOK(s)'
  <2>1. s # r /\ Busy(s) /\ BusyOK(s) /\ requests'[s] = requests[s]
    BY <1>1, <1>3, <1>4 DEF UseInv
  <2>2. requests[s].login # l /\ requests[s].login \in Logins
    BY <1>1, <2>1 DEF BusyOK, TypeInv
  <2>3. Unused(requests[s].login, First(s))'
    BY <1>2, <2>1, <2>2 DEF BusyOK, Unused, First
  <2>4. \A p \in Requests : p # s /\ Busy(p)' => requests'[p].login # requests[s].login
    BY <1>1, <1>3, <2>1, <2>2 DEF BusyOK
  <2> QED
    BY <1>1, <2>1, <2>2, <2>3, <2>4 DEF BusyOK
<1>5. ASSUME NEW k \in Logins
      PROVE  /\ k \notin started' \/ attempts'[k] # 0 => sessions'[k] = NoRow /\ Unused(k, 0)'
             /\ k \notin started' => attempts'[k] = 0
             /\ sessions'[k].state = "active" => Unused(k, sessions'[k].token)
  <2>1. CASE k = l
    BY <1>1, <1>2, <2>1 DEF UseInv
  <2>2. CASE k # l
    BY <1>1, <1>2, <2>2 DEF UseInv
  <2> QED
    BY <2>1, <2>2
<1>6. TokensUsedOnce'
  BY <1>1 DEF UseInv, TokensUsedOnce
<1> QED
  BY <1>1, <1>4, <1>5, <1>6 DEF UseInv, Unused

LEMMA UseNext == TypeInv /\ UseInv /\ [Next]_vars => UseInv'
<1> SUFFICES ASSUME TypeInv, UseInv, [Next]_vars PROVE UseInv'
  OBVIOUS
<1>1. CASE Tick \/ UNCHANGED vars
  <2>1. UNCHANGED <<started, presented, attempts, sessions, requests>>
    BY <1>1 DEF Tick, vars, login
  <2>2. \A r \in Requests : Busy(r)' =>
               /\ Busy(r) /\ requests'[r].login = requests[r].login /\ First(r)' = First(r)
               /\ requests'[r].step \in CallbackSteps => requests[r].step \in CallbackSteps
    BY <2>1 DEF Busy, First
  <2> QED
    BY <2>1, <2>2, UseKept
<1>2. ASSUME NEW r \in Requests, CallbackExchange(r) PROVE UseInv'
  <2> DEFINE q == [step |-> "prune_session", login |-> requests[r].login,
                   absolute |-> now + SessionTime, access |-> now + AccessTime,
                   refresh |-> now + RefreshTime]
  <2>1. requests[r].step = "code" /\ requests[r].login \in Logins /\ requests[r].token = 0
    BY <1>2, RequestFacts DEF CallbackExchange, At, CodeType
  <2>2. 0 \in Tokens
    BY SessionsAssumption DEF Tokens
  <2>3. Becomes(r, q) /\ Present(r) /\ UNCHANGED <<attempts, started, sessions>>
    BY <1>2 DEF CallbackExchange, login
  <2>4. q.login = requests[r].login /\ q.step \in InsertSteps
    BY DEF InsertSteps
  <2> HIDE DEF q
  <2> QED
    BY <2>1, <2>2, <2>3, <2>4, UsePresented
<1>3. ASSUME NEW r \in Requests, Exchange(r) PROVE UseInv'
  <2> DEFINE q == [requests[r] EXCEPT !.step = "commit", !.token = @ + 1,
                       !.access = now + AccessTime, !.refresh = now + RefreshTime]
  <2>1. /\ requests[r].step = "exchange" /\ requests[r] \in PageType
        /\ requests[r].token < MaxTokens
    BY <1>3, RequestFacts DEF Exchange, At, PageSteps, RefreshSteps
  <2>2. requests[r].login \in Logins /\ requests[r].token \in Tokens
    BY <2>1 DEF PageType
  <2>3. now + AccessTime \in Nat /\ now + RefreshTime \in Nat
    BY SessionsAssumption DEF TypeInv
  <2>4. q.step = "commit" /\ q.login = requests[r].login /\ q.token = requests[r].token + 1
    BY <2>1 DEF PageType
  <2>5. Becomes(r, q) /\ Present(r) /\ UNCHANGED <<attempts, started, sessions>>
    BY <1>3 DEF Exchange, login
  <2> HIDE DEF q
  <2> QED
    BY <2>1, <2>2, <2>4, <2>5, UsePresented
<1>4. ASSUME NEW r \in Requests, NEW l \in Logins, CallbackTake(r, l) PROVE UseInv'
  <2> DEFINE q == [step |-> "code", login |-> l, token |-> 0]
  <2>1. q.step = "code" /\ q.login = l /\ q.token = 0 /\ 0 \in Tokens
    BY SessionsAssumption DEF Tokens
  <2>2. /\ Becomes(r, q) /\ UNCHANGED <<started, presented, sessions>>
        /\ attempts[l] > now /\ attempts' = [attempts EXCEPT ![l] = 0] /\ ~Busy(r)
    BY <1>4 DEF CallbackTake, At, Busy, CallbackSteps, InsertSteps, RefreshSteps
  <2> HIDE DEF q
  <2>3. /\ attempts[l] # 0 /\ attempts'[l] = 0
        /\ \A k \in Logins : k # l => attempts'[k] = attempts[k]
    BY <2>2 DEF TypeInv
  <2> QED
    BY <2>1, <2>2, <2>3, UseTaken
<1>5. ASSUME NEW r \in Requests, Claim(r) PROVE UseInv'
  <2> DEFINE l == requests[r].login
             q == [requests[r] EXCEPT !.step = "exchange", !.gen = sessions[l].gen + 1,
                                      !.token = sessions[l].token]
  <2>1. /\ l \in Logins /\ sessions[l] \in RowType
        /\ sessions[l].state = "active" /\ sessions'[l].state # "active"
        /\ \A k \in Logins : k # l => sessions'[k] = sessions[k]
    BY <1>5, ClaimRow, ClaimedFacts
  <2>2. /\ requests[r] \in PageType /\ sessions[l].gen \in Nat /\ sessions[l].token \in Tokens
    BY <1>5, <2>1, RequestFacts DEF Claim, At, PageSteps, RowType
  <2>3. q.step = "exchange" /\ q.login = l /\ q.token = sessions[l].token
    BY <2>2 DEF PageType
  <2>4. Becomes(r, q) /\ UNCHANGED <<attempts, started, presented>> /\ ~Busy(r)
    BY <1>5 DEF Claim, login, At, Busy, CallbackSteps, InsertSteps, RefreshSteps
  <2> HIDE DEF q
  <2> QED
    BY <2>1, <2>2, <2>3, <2>4, UseTaken
<1>6. ASSUME NEW r \in Requests, CallbackInsert(r) PROVE UseInv'
  <2>1. Busy(r) /\ First(r) = 1
    BY <1>6 DEF CallbackInsert, At, Busy, First, CallbackSteps, InsertSteps
  <2>2. Becomes(r, Idle) /\ UNCHANGED <<attempts, started, presented>>
    BY <1>6 DEF CallbackInsert, login
  <2>3. Idle.step \notin CallbackSteps \cup RefreshSteps
    BY IdleHeld DEF CallbackSteps, InsertSteps, RefreshSteps
  <2> QED
    BY <1>6, <2>1, <2>2, <2>3, NewRowOK, UseGiven
<1>7. ASSUME NEW r \in Requests, Commit(r) PROVE UseInv'
  <2> DEFINE q == [requests[r] EXCEPT !.step = "reload"]
  <2>1. Busy(r) /\ First(r) = requests[r].token
    BY <1>7 DEF Commit, At, Busy, First, CallbackSteps, InsertSteps, RefreshSteps
  <2>2. requests[r] \in PageType
    BY <1>7, RequestFacts DEF Commit, At, PageSteps, RefreshSteps
  <2>3. q.step \notin CallbackSteps \cup RefreshSteps
    BY <2>2, PageStep DEF PageSteps, CallbackSteps, InsertSteps, RefreshSteps
  <2>4. Becomes(r, q) /\ UNCHANGED <<attempts, started, presented>>
    BY <1>7 DEF Commit, login
  <2> HIDE DEF q
  <2> QED
    BY <1>7, <2>1, <2>3, <2>4, CommitRow, UseGiven
<1> QED
  BY <1>1, <1>2, <1>3, <1>4, <1>5, <1>6, <1>7, UseQuiet, UseStarted
     DEF Next, Login, Page, Logout

\* The invariant of tokens, in every reachable state.
LEMMA UseCorrect == Spec => []UseInv
BY UseInit, UseNext, TypeCorrect, PTL DEF Spec

\* No code and no refresh token is presented twice, by however many requests and
\* replicas, however claims expire and requests are abandoned (take_login in
\* edge/login.rs; claim_refresh in store/mutations.rs).
THEOREM TokensCorrect == Spec => []TokensUsedOnce
<1>1. UseInv => TokensUsedOnce
  BY DEF UseInv
<1> QED
  BY <1>1, UseCorrect, PTL

-----------------------------------------------------------------------------
(* The end of a session. *)

\* What NeverResurrected asks of one row in one step.
Ends(l) ==
    sessions[l] # NoRow =>
      /\ ~Live(sessions[l]) => ~Live(sessions[l])'
      /\ sessions'[l] # NoRow => /\ sessions'[l].absolute = sessions[l].absolute
                                 /\ sessions'[l].gen >= sessions[l].gen

\* Time alone makes no row live.
LEMMA SameRowEnds ==
    ASSUME TypeInv, now' \in Nat, now' >= now, NEW l \in Logins, sessions'[l] = sessions[l]
    PROVE  Ends(l)
<1>1. now \in Nat /\ sessions[l] \in RowType
  BY DEF TypeInv
<1>2. /\ sessions[l].gen \in Nat /\ sessions[l].absolute \in Nat /\ sessions[l].idle \in Nat
      /\ sessions[l].refresh \in Nat /\ sessions[l].deadline \in Nat
  BY <1>1 DEF RowType
<1>3. ~Live(sessions[l]) => ~Live(sessions[l])'
  BY <1>1, <1>2 DEF Live
<1> QED
  BY <1>2, <1>3 DEF Ends

\* A row that is live may stay so; one that is written off does not come back.
LEMMA ChangedRowEnds ==
    ASSUME TypeInv, NEW l \in Logins,
           Live(sessions[l]) \/ sessions'[l].state \notin {"active", "refreshing"},
           \/ sessions'[l] = NoRow
           \/ sessions'[l].absolute = sessions[l].absolute /\ sessions'[l].gen >= sessions[l].gen
    PROVE  Ends(l)
BY DEF Ends, Live

\* A session whose row was deleted is over: no attempt and no callback is left
\* that could write it again, and no refresh writes a row that is not there.
DeletedOK(l) ==
    /\ l \in started /\ attempts[l] = 0 /\ sessions[l] = NoRow
    /\ \A r \in Requests : requests[r].step \in CallbackSteps => requests[r].login # l
DeletedInv == \A l \in Logins : l \in deleted => DeletedOK(l)

LEMMA DeletedInit == Init => DeletedInv
BY DEF Init, DeletedInv

LEMMA NoRowDead == ~Live(NoRow)
BY NoRowType DEF Live

\* A step that takes no attempt and makes no request one of a callback.
LEMMA DeletedKept ==
    ASSUME DeletedInv, deleted' = deleted, started \subseteq started',
           \A l \in Logins : l \in deleted => attempts'[l] = 0 /\ sessions'[l] = sessions[l],
           NEW r \in Requests, NEW q, TypeInv, Becomes(r, q),
           q.step \in CallbackSteps =>
               \/ q.login \notin deleted
               \/ requests[r].step \in CallbackSteps /\ q.login = requests[r].login
    PROVE  DeletedInv'
<1>1. requests'[r] = q /\ \A s \in Requests : s # r => requests'[s] = requests[s]
  BY OneRequest
<1>2. ASSUME NEW l \in Logins, l \in deleted PROVE DeletedOK(l)'
  <2>1. DeletedOK(l)
    BY <1>2 DEF DeletedInv
  <2>2. ASSUME NEW s \in Requests, requests'[s].step \in CallbackSteps PROVE requests'[s].login # l
    BY <1>1, <1>2, <2>1, <2>2 DEF DeletedOK
  <2> QED
    BY <1>2, <2>1, <2>2 DEF DeletedOK
<1> QED
  BY <1>2 DEF DeletedInv

LEMMA DeletedNext == TypeInv /\ UseInv /\ DeletedInv /\ [Next]_vars => DeletedInv'
<1> SUFFICES ASSUME TypeInv, UseInv, DeletedInv, [Next]_vars PROVE DeletedInv'
  OBVIOUS
<1>0. \A l \in Logins : l \in deleted => sessions[l] = NoRow /\ attempts[l] = 0 /\ l \in started
  BY DEF DeletedInv, DeletedOK
<1>1. CASE Tick \/ UNCHANGED vars
  BY <1>1 DEF Tick, vars, login, DeletedInv, DeletedOK
<1>2. ASSUME NEW r \in Requests, NEW q, Becomes(r, q), UNCHANGED <<deleted, started, attempts>>,
             \A l \in Logins : l \in deleted => sessions'[l] = sessions[l],
             \/ q.step \notin CallbackSteps
             \/ requests[r].step \in CallbackSteps /\ q.login = requests[r].login
      PROVE  DeletedInv'
  BY <1>0, <1>2, DeletedKept
<1>i. Idle.step \notin CallbackSteps
  BY IdleHeld DEF CallbackSteps, InsertSteps
<1>3. ASSUME NEW r \in Requests, StartAdmit(r) PROVE DeletedInv'
  <2> DEFINE q == [step |-> "prune_login", until |-> now + LoginTime]
  <2>1. q.step \notin CallbackSteps
    BY DEF CallbackSteps, InsertSteps
  <2>2. Becomes(r, q) /\ UNCHANGED <<deleted, started, attempts, sessions>>
    BY <1>3 DEF StartAdmit
  <2> HIDE DEF q
  <2> QED
    BY <1>2, <2>1, <2>2
<1>4. ASSUME NEW r \in Requests, Prune(r) PROVE DeletedInv'
  <2>1. PICK gone \in SUBSET {l \in Logins : sessions[l] # NoRow /\ ~Live(sessions[l])} :
          /\ sessions' = [l \in Logins |-> IF l \in gone THEN NoRow ELSE sessions[l]]
          /\ deleted' = deleted \cup gone
    BY <1>4 DEF Prune
  <2>2. /\ started' = started /\ \A l \in Logins : attempts'[l] \in {0, attempts[l]}
    BY <1>4 DEF Prune
  <2>3. PICK q : /\ Becomes(r, q) /\ q = [requests[r] EXCEPT !.step =
                        IF @ = "prune_login" THEN "insert_login" ELSE "insert_session"]
    BY <1>4 DEF Prune
  <2>4. /\ requests'[r] = q /\ \A s \in Requests : s # r => requests'[s] = requests[s]
    BY <2>3, OneRequest
  <2>5. q.step \in CallbackSteps => requests[r].step \in CallbackSteps /\ q.login = requests[r].login
    <3>1. CASE requests[r].step = "prune_login"
      <4>1. requests[r] \in LoginType
        BY <3>1, RequestFacts DEF LoginSteps
      <4>2. q.step = "insert_login"
        BY <2>3, <3>1, <4>1 DEF LoginType
      <4> QED
        BY <4>2 DEF CallbackSteps, InsertSteps
    <3>2. CASE requests[r].step = "prune_session"
      <4>1. requests[r] \in InsertType
        BY <3>2, RequestFacts DEF InsertSteps
      <4>2. q.login = requests[r].login
        BY <2>3, <4>1 DEF InsertType
      <4> QED
        BY <3>2, <4>2 DEF CallbackSteps, InsertSteps
    <3> QED
      BY <1>4, <3>1, <3>2 DEF Prune
  <2>6. ASSUME NEW l \in Logins, l \in deleted'
        PROVE  /\ l \in started /\ attempts[l] = 0 /\ sessions'[l] = NoRow
               /\ \A s \in Requests : requests[s].step \in CallbackSteps => requests[s].login # l
    <3>1. CASE l \in deleted
      BY <2>1, <3>1 DEF DeletedInv, DeletedOK
    <3>2. CASE l \in gone
      <4>1. sessions[l] # NoRow /\ sessions'[l] = NoRow
        BY <2>1, <3>2
      <4>2. l \in started /\ attempts[l] = 0
        BY <4>1 DEF UseInv
      <4>3. ASSUME NEW s \in Requests, requests[s].step \in CallbackSteps
            PROVE  requests[s].login # l
        <5>1. BusyOK(s)
          BY <4>3 DEF UseInv, Busy
        <5> QED
          BY <4>1, <4>3, <5>1 DEF BusyOK
      <4> QED
        BY <4>1, <4>2, <4>3
    <3> QED
      BY <2>1, <2>6, <3>1, <3>2
  <2>7. ASSUME NEW l \in Logins, l \in deleted' PROVE DeletedOK(l)'
    <3>1. ASSUME NEW s \in Requests, requests'[s].step \in CallbackSteps
          PROVE  requests'[s].login # l
      <4>1. CASE s = r
        BY <2>4, <2>5, <2>6, <2>7, <3>1, <4>1
      <4>2. CASE s # r
        BY <2>4, <2>6, <2>7, <3>1, <4>2
      <4> QED
        BY <4>1, <4>2
    <3> QED
      BY <2>2, <2>6, <2>7, <3>1 DEF DeletedOK
  <2> QED
    BY <2>7 DEF DeletedInv
<1>5. ASSUME NEW r \in Requests, NEW l \in Logins, StartInsert(r, l) PROVE DeletedInv'
  <2>1. /\ Becomes(r, Idle) /\ UNCHANGED <<deleted, sessions>> /\ started \subseteq started'
        /\ l \notin deleted /\ \A k \in Logins : k # l => attempts'[k] = attempts[k]
    BY <1>0, <1>5 DEF StartInsert, TypeInv
  <2>2. \A k \in Logins : k \in deleted => attempts'[k] = 0 /\ sessions'[k] = sessions[k]
    BY <1>0, <2>1
  <2> QED
    BY <1>i, <2>1, <2>2, DeletedKept
<1>6. ASSUME NEW r \in Requests, NEW l \in Logins, CallbackTake(r, l) PROVE DeletedInv'
  <2> DEFINE q == [step |-> "code", login |-> l, token |-> 0]
  <2>1. q.login = l
    OBVIOUS
  <2>2. /\ Becomes(r, q) /\ UNCHANGED <<deleted, sessions, started>>
        /\ attempts[l] > now /\ attempts' = [attempts EXCEPT ![l] = 0]
    BY <1>6 DEF CallbackTake
  <2> HIDE DEF q
  <2>3. l \notin deleted
    BY <1>0, <2>2 DEF TypeInv
  <2>4. \A k \in Logins : k \in deleted => attempts'[k] = 0 /\ sessions'[k] = sessions[k]
    BY <1>0, <2>2 DEF TypeInv
  <2>5. deleted' = deleted /\ started \subseteq started' /\ q.login \notin deleted /\ Becomes(r, q)
    BY <2>1, <2>2, <2>3
  <2> QED
    BY <2>4, <2>5, DeletedKept
<1>7. ASSUME NEW r \in Requests, CallbackExchange(r) PROVE DeletedInv'
  <2> DEFINE q == [step |-> "prune_session", login |-> requests[r].login,
                   absolute |-> now + SessionTime, access |-> now + AccessTime,
                   refresh |-> now + RefreshTime]
  <2>1. requests[r].step \in CallbackSteps /\ q.login = requests[r].login
    BY <1>7 DEF CallbackExchange, At, CallbackSteps
  <2>2. Becomes(r, q) /\ UNCHANGED <<deleted, started, attempts, sessions>>
    BY <1>7 DEF CallbackExchange, login
  <2> HIDE DEF q
  <2> QED
    BY <1>2, <2>1, <2>2
<1>8. ASSUME NEW r \in Requests, CallbackInsert(r) PROVE DeletedInv'
  <2>1. Becomes(r, Idle) /\ UNCHANGED <<deleted, started, attempts>>
    BY <1>8 DEF CallbackInsert, login
  <2>2. requests[r].step \in CallbackSteps
    BY <1>8 DEF CallbackInsert, At, CallbackSteps, InsertSteps
  <2>3. \A l \in Logins : l \in deleted => sessions'[l] = sessions[l]
    BY <1>8, <2>2, NewRowOK DEF DeletedInv, DeletedOK
  <2> QED
    BY <1>2, <1>i, <2>1, <2>3
<1>9. ASSUME NEW r \in Requests, Claim(r) PROVE DeletedInv'
  <2> DEFINE q == [requests[r] EXCEPT !.step = "exchange",
                     !.gen = sessions[requests[r].login].gen + 1,
                     !.token = sessions[requests[r].login].token]
  <2>1. requests[r] \in PageType
    BY <1>9, RequestFacts DEF Claim, At, PageSteps
  <2>2. q.step \notin CallbackSteps
    BY <2>1 DEF PageType, CallbackSteps, InsertSteps
  <2>3. Becomes(r, q) /\ UNCHANGED <<deleted, started, attempts>>
    BY <1>9 DEF Claim, login
  <2> HIDE DEF q
  <2>4. \A l \in Logins : l \in deleted => sessions'[l] = sessions[l]
    BY <1>0, <1>9, ClaimRow, NoRowDead
  <2> QED
    BY <1>2, <2>2, <2>3, <2>4
<1>10. ASSUME NEW r \in Requests, Exchange(r) PROVE DeletedInv'
  <2> DEFINE q == [requests[r] EXCEPT !.step = "commit", !.token = @ + 1,
                       !.access = now + AccessTime, !.refresh = now + RefreshTime]
  <2>1. requests[r] \in PageType
    BY <1>10, RequestFacts DEF Exchange, At, PageSteps, RefreshSteps
  <2>2. q.step \notin CallbackSteps
    BY <2>1 DEF PageType, CallbackSteps, InsertSteps
  <2>3. Becomes(r, q) /\ UNCHANGED <<deleted, started, attempts, sessions>>
    BY <1>10 DEF Exchange, login
  <2> HIDE DEF q
  <2> QED
    BY <1>2, <2>2, <2>3
<1>11. ASSUME NEW r \in Requests, NEW s \in {"touch", "reload", "forward"},
              requests[r].step \in PageSteps,
              Becomes(r, [requests[r] EXCEPT !.step = s]), UNCHANGED <<deleted, started, attempts>>,
              \A l \in Logins : l \in deleted => sessions'[l] = sessions[l]
       PROVE  DeletedInv'
  <2> DEFINE q == [requests[r] EXCEPT !.step = s]
  <2>1. requests[r] \in PageType /\ s \in PageSteps
    BY <1>11, RequestFacts DEF PageSteps
  <2>2. q.step \notin CallbackSteps
    BY <2>1, PageStep DEF CallbackSteps, InsertSteps
  <2>3. Becomes(r, q)
    BY <1>11
  <2> HIDE DEF q
  <2> QED
    BY <1>2, <1>11, <2>2, <2>3
<1>12. ASSUME NEW r \in Requests, Keep(r) PROVE DeletedInv'
  BY <1>11, <1>12 DEF Keep, At, PageSteps, login
<1>13. ASSUME NEW r \in Requests, Commit(r) PROVE DeletedInv'
  <2>1. \A l \in Logins : l \in deleted => sessions'[l] = sessions[l]
    BY <1>0, <1>13, CommitRow, NoRowDead
  <2>2. /\ Becomes(r, [requests[r] EXCEPT !.step = "reload"]) /\ requests[r].step \in PageSteps
        /\ UNCHANGED <<deleted, started, attempts>>
    BY <1>13 DEF Commit, At, PageSteps, RefreshSteps, login
  <2> QED
    BY <1>11, <2>1, <2>2
<1>14. ASSUME NEW r \in Requests, Touch(r) PROVE DeletedInv'
  <2>1. \A l \in Logins : l \in deleted => sessions'[l] = sessions[l]
    BY <1>0, <1>14, TouchRow, NoRowDead
  <2>2. /\ Becomes(r, [requests[r] EXCEPT !.step = "forward"]) /\ requests[r].step \in PageSteps
        /\ UNCHANGED <<deleted, started, attempts>>
    BY <1>14 DEF Touch, At, PageSteps, login
  <2> QED
    BY <1>11, <2>1, <2>2
<1>15. ASSUME NEW r \in Requests, Revoke(r) \/ Forward(r) \/ Abandon(r) PROVE DeletedInv'
  <2>1. Becomes(r, Idle) /\ UNCHANGED <<deleted, started, attempts>>
    BY <1>15 DEF Revoke, Forward, Abandon, login
  <2>2. \A l \in Logins : l \in deleted => sessions'[l] = sessions[l]
    BY <1>0, <1>15, RevokeRow DEF Forward, Abandon
  <2> QED
    BY <1>2, <1>i, <2>1, <2>2
<1>16. ASSUME NEW r \in Requests, NEW l, NEW s \in {"touch", "loaded", "revoke"},
              Becomes(r, Holding(l, s)), UNCHANGED <<deleted, started, attempts, sessions>>
       PROVE  DeletedInv'
  <2>1. Holding(l, s).step \notin CallbackSteps
    BY DEF Holding, CallbackSteps, InsertSteps
  <2> QED
    BY <1>2, <1>16, <2>1
<1>17. ASSUME NEW r \in Requests, Reload(r) PROVE DeletedInv'
  BY <1>16, <1>17 DEF Reload, login
<1>18. ASSUME NEW r \in Requests, NEW l \in Logins,
              Load(r, l, "loaded") \/ Load(r, l, "revoke")
       PROVE  DeletedInv'
  BY <1>16, <1>18 DEF Load, login
<1> QED
  BY <1>1, <1>3, <1>4, <1>5, <1>6, <1>7, <1>8, <1>9, <1>10, <1>12, <1>13, <1>14, <1>15,
     <1>17, <1>18 DEF Next, Login, Page, Logout

\* No step brings back a row that was deleted, in every reachable state.
LEMMA DeletedCorrect == Spec => []DeletedInv
BY DeletedInit, DeletedNext, TypeCorrect, UseCorrect, PTL DEF Spec

\* A deleted row stays away in every step.
LEMMA DeletedStays == DeletedInv /\ DeletedInv' /\ [Next]_vars =>
                        \A l \in Logins : l \in deleted => sessions'[l] = NoRow
<1> SUFFICES ASSUME DeletedInv', [Next]_vars, NEW l \in Logins, l \in deleted
             PROVE  sessions'[l] = NoRow
  OBVIOUS
<1>1. deleted \subseteq deleted'
  BY DEF Next, Tick, Login, Page, Logout, Abandon, StartAdmit, Prune, CallbackExchange,
         CallbackInsert, StartInsert, CallbackTake, Load, Keep, Claim, Exchange, Commit, Reload,
         Touch, Forward, Revoke, vars
<1> QED
  BY <1>1 DEF DeletedInv, DeletedOK

LEMMA EndsNext == TypeInv /\ UseInv /\ [Next]_vars => \A l \in Logins : Ends(l)
<1> SUFFICES ASSUME TypeInv, UseInv, [Next]_vars, NEW k \in Logins PROVE Ends(k)
  OBVIOUS
<1>0. now \in Nat /\ sessions[k] \in RowType
  BY DEF TypeInv
<1>1. sessions[k].gen \in Nat
  BY <1>0 DEF RowType
<1>2. CASE Tick
  <2>1. now' = now + 1 /\ sessions' = sessions
    BY <1>2 DEF Tick
  <2> QED
    BY <1>0, <2>1, SameRowEnds
<1>3. CASE UNCHANGED vars
  BY <1>0, <1>3, SameRowEnds DEF vars
<1>4. ASSUME NEW r \in Requests, Quiet(r) PROVE Ends(k)
  BY <1>0, <1>4, QuietRows, SameRowEnds
<1>5. ASSUME now' = now, sessions'[k] = sessions[k] PROVE Ends(k)
  BY <1>0, <1>5, SameRowEnds
<1>6. ASSUME NEW r \in Requests, Prune(r) PROVE Ends(k)
  <2>1. now' = now
    BY <1>6 DEF Prune
  <2>2. CASE sessions'[k] = NoRow
    BY <2>2, NoRowType, ChangedRowEnds
  <2> QED
    BY <1>5, <1>6, <2>1, <2>2, PruneRows
<1>7. ASSUME NEW r \in Requests, CallbackInsert(r) PROVE Ends(k)
  <2>1. now' = now
    BY <1>7 DEF CallbackInsert
  <2>2. BusyOK(r) /\ requests[r].step \in CallbackSteps
    BY <1>7 DEF UseInv, CallbackInsert, At, Busy, CallbackSteps, InsertSteps
  <2>3. sessions[requests[r].login] = NoRow
    BY <2>2 DEF BusyOK
  <2>4. CASE k = requests[r].login
    BY <2>3, <2>4 DEF Ends
  <2> QED
    BY <1>5, <1>7, <2>1, <2>4, NewRowOK
<1>8. ASSUME NEW r \in Requests, Claim(r) PROVE Ends(k)
  <2>1. now' = now
    BY <1>8 DEF Claim
  <2>2. CASE k = requests[r].login
    <3>1. Live(sessions[k]) /\ sessions'[k] = Claimed(sessions[k])
      BY <1>8, <2>2, ClaimRow
    <3>2. sessions'[k].absolute = sessions[k].absolute /\ sessions'[k].gen = sessions[k].gen + 1
      BY <1>0, <3>1, ClaimedFacts
    <3> QED
      BY <1>1, <3>1, <3>2, ChangedRowEnds
  <2> QED
    BY <1>5, <1>8, <2>1, <2>2, ClaimRow
<1>9. ASSUME NEW r \in Requests, Commit(r) PROVE Ends(k)
  <2>1. now' = now
    BY <1>9 DEF Commit
  <2>2. CASE k = requests[r].login
    BY <1>1, <1>9, <2>2, CommitRow, ChangedRowEnds
  <2> QED
    BY <1>5, <1>9, <2>1, <2>2, CommitRow
<1>10. ASSUME NEW r \in Requests, Touch(r) PROVE Ends(k)
  <2>1. now' = now
    BY <1>10 DEF Touch
  <2>2. CASE k = requests[r].login
    BY <1>1, <1>10, <2>2, TouchRow, ChangedRowEnds
  <2> QED
    BY <1>5, <1>10, <2>1, <2>2, TouchRow
<1>11. ASSUME NEW r \in Requests, Revoke(r) PROVE Ends(k)
  <2>1. now' = now
    BY <1>11 DEF Revoke
  <2>2. CASE k = requests[r].login /\ sessions'[k] # sessions[k]
    BY <1>1, <1>11, <2>2, RevokeRow, ChangedRowEnds
  <2> QED
    BY <1>5, <1>11, <2>1, <2>2, RevokeRow
<1> QED
  BY <1>2, <1>3, <1>4, <1>6, <1>7, <1>8, <1>9, <1>10, <1>11
     DEF Next, Login, Page, Logout, Quiet

\* A session that was revoked, ran out, was abandoned in a refresh or deleted
\* never lives again, and no step extends the lifetime given at login
\* (store/mutations.rs: finish_refresh, touch, revoke; login.rs, create_session).
THEOREM ResurrectCorrect == Spec => NeverResurrected
<1>1. TypeInv /\ UseInv /\ DeletedInv /\ DeletedInv' /\ [Next]_vars =>
        [\A l \in Logins :
           /\ l \in deleted => sessions'[l] = NoRow
           /\ sessions[l] # NoRow =>
                /\ ~Live(sessions[l]) => ~Live(sessions[l])'
                /\ sessions'[l] # NoRow => /\ sessions'[l].absolute = sessions[l].absolute
                                           /\ sessions'[l].gen >= sessions[l].gen]_vars
  BY EndsNext, DeletedStays DEF Ends
<1> QED
  BY <1>1, TypeCorrect, UseCorrect, DeletedCorrect, PTL DEF Spec, NeverResurrected

-----------------------------------------------------------------------------
(* The login quota. *)

\* Why the rate is kept: the theoretical arrival time is ahead of an admission
\* by as many tokens as were spent since, that admission's own included.
RateInv ==
    /\ AdmissionRate
    /\ \A i \in DOMAIN admitted : admitted[i] + (Len(admitted) - i + 1) <= quota.tat

LEMMA RateInit == Init => RateInv
BY DEF Init, RateInv, AdmissionRate

LEMMA RateNext == TypeInv /\ RateInv /\ [Next]_vars => RateInv'
<1> SUFFICES ASSUME TypeInv, RateInv, [Next]_vars PROVE RateInv'
  OBVIOUS
<1>1. ASSUME NEW r \in Requests, StartAdmit(r) PROVE RateInv'
  <2> DEFINE n == Len(admitted)
  <2>1. /\ now \in Nat /\ quota.tat \in Nat /\ admitted \in Seq(Nat) /\ n \in Nat
        /\ Burst \in Nat
    BY SessionsAssumption DEF TypeInv
  <2>2. Candidate >= quota.tat + 1 /\ Candidate >= now + 1 /\ Candidate <= now + Burst
        /\ Candidate \in Nat
    <3>1. /\ Max({quota.tat, now}) \in Nat /\ Max({quota.tat, now}) >= quota.tat
          /\ Max({quota.tat, now}) >= now
      BY <2>1, MaxFacts
    <3> QED
      BY <1>1, <2>1, <3>1 DEF StartAdmit, Candidate
  <2>3. /\ quota'.tat = Candidate /\ Len(admitted') = n + 1
        /\ DOMAIN admitted' = 1..(n + 1) /\ DOMAIN admitted = 1..n
        /\ \A i \in 1..n : admitted'[i] = admitted[i] /\ admitted[i] \in Nat
        /\ admitted'[n + 1] = now
    BY <1>1, <2>1 DEF StartAdmit
  <2> HIDE DEF n
  <2>4. ASSUME NEW i \in 1..(n + 1)
        PROVE  admitted'[i] + (n + 1 - i + 1) <= Candidate
    <3>1. CASE i = n + 1
      BY <2>1, <2>2, <2>3, <3>1
    <3>2. CASE i \in 1..n
      <4>1. admitted[i] + (n - i + 1) <= quota.tat
        BY <2>3, <3>2 DEF RateInv, n
      <4> QED
        BY <2>1, <2>2, <2>3, <3>2, <4>1
    <3> QED
      BY <2>1, <3>1, <3>2
  <2>5. ASSUME NEW i \in 1..(n + 1), NEW j \in 1..(n + 1), i <= j
        PROVE  j - i + 1 <= Burst + admitted'[j] - admitted'[i]
    <3>1. CASE j = n + 1
      <4>1. admitted'[i] \in Nat
        BY <2>1, <2>3
      <4> QED
        BY <2>1, <2>2, <2>3, <2>4, <3>1, <4>1
    <3>2. CASE j # n + 1
      <4>1. i \in 1..n /\ j \in 1..n
        BY <2>1, <2>5, <3>2
      <4> QED
        BY <2>3, <2>5, <4>1 DEF RateInv, AdmissionRate
    <3> QED
      BY <3>1, <3>2
  <2>6. AdmissionRate'
    BY <2>3, <2>5 DEF AdmissionRate
  <2>7. \A i \in DOMAIN admitted' : admitted'[i] + (Len(admitted') - i + 1) <= quota'.tat
    <3> SUFFICES ASSUME NEW i \in 1..(n + 1)
                 PROVE  admitted'[i] + (Len(admitted') - i + 1) <= quota'.tat
      BY <2>3
    <3>1. admitted'[i] + (n + 1 - i + 1) <= Candidate
      BY <2>4
    <3> QED
      BY <2>1, <2>2, <2>3, <3>1
  <2> QED
    BY <2>6, <2>7 DEF RateInv
<1>2. CASE UNCHANGED <<quota, admitted>>
  BY <1>2 DEF RateInv, AdmissionRate
<1>3. CASE Tick \/ UNCHANGED vars
  BY <1>2, <1>3 DEF Tick, vars, login
<1>4. ASSUME NEW r \in Requests, Login(r) \/ Page(r) \/ Logout(r) \/ Abandon(r), ~StartAdmit(r)
      PROVE  UNCHANGED <<quota, admitted>>
  BY <1>4 DEF Login, Page, Logout, Abandon, Prune, CallbackExchange, CallbackInsert,
              StartInsert, CallbackTake, Load, Keep, Claim, Exchange, Commit, Reload,
              Touch, Forward, Revoke, login
<1> QED
  BY <1>1, <1>2, <1>3, <1>4 DEF Next

\* Between any two admissions there are no more than the burst and one per tick,
\* however the clock and the requests of all replicas run (admission.rs).
THEOREM RateCorrect == Spec => []AdmissionRate
<1>1. RateInv => AdmissionRate
  BY DEF RateInv
<1> QED
  BY <1>1, RateInit, RateNext, TypeCorrect, PTL DEF Spec

=============================================================================
