--------------------------- MODULE MCCallAdmission ---------------------------
(* CallAdmission on a small instance: the first process renews four times (it *)
(* is prepared, selected, told to serve, and heard to admit), or each of the   *)
(* two renews three times, so that the second serves after the first.  A grant *)
(* lasts two ticks, so a renewal can bridge one.                               *)
EXTENDS CallAdmission, TLC

Renewals == {<<4, 0>>, <<3, 3>>}
CallSymmetry == Permutations(Calls)

=============================================================================
