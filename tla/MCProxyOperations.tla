-------------------------- MODULE MCProxyOperations --------------------------
(* ProxyOperations on a small instance.                                      *)
EXTENDS ProxyOperations

=============================================================================
