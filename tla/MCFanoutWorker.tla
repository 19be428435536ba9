---------------------------- MODULE MCFanoutWorker ----------------------------
(***************************************************************************)
(* Instances of FanoutWorker for TLC: two replicas, a well-formed and a    *)
(* malformed event, a ceiling of three attempts, and a lease that a        *)
(* publish may take as long as: the one publish stands for those of the    *)
(* events before it in a batch, which the lease does not cover either.     *)
(***************************************************************************)
EXTENDS FanoutWorker

CONSTANTS k1, k2, r1, r2
=============================================================================
