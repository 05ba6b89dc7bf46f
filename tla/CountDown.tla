----------------------------- MODULE CountDown -----------------------------
(***************************************************************************)
(* Leads-to by induction over the natural numbers, as a formula: if rank   *)
(* comes down from each of its values, unless goal comes about, then goal  *)
(* comes about.  It is true of every behaviour, whatever rank and goal     *)
(* are, since no natural number comes down for ever.  The provers at hand  *)
(* do no induction in a temporal formula, so a theorem that counts down    *)
(* names the instance it uses.                                             *)
(***************************************************************************)
EXTENDS Naturals

(* The premise for k. *)
ComesDown(rank, goal, k) == (rank = k) ~> (rank \in Nat /\ rank < k) \/ goal

CountsDown(rank, goal) ==
    (\A k \in Nat : ComesDown(rank, goal, k)) => ((rank \in Nat) ~> goal)
=============================================================================
