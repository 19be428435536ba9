-------------------------- MODULE MCBrowserSessions --------------------------
(* BrowserSessions on a small instance: a session outlives its access token, *)
(* a claim outlives a tick, and the table is smaller than the logins.        *)
EXTENDS BrowserSessions, TLC

RequestSymmetry == Permutations(Requests)
=============================================================================
