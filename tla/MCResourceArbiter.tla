-------------------------- MODULE MCResourceArbiter --------------------------
(* Two robots, one lift, and the additional claims that meet the defaults. *)
EXTENDS ResourceArbiter, TLC

CONSTANTS b1, b2

\* Lease ids are only compared.
LeaseSymmetry == Permutations(Lease)

Lift == <<"equipment", "lift">>
MCEquipment == {"lift"}
\* No additional claim; the lift, claimed twice; the motion of robot b1 claimed
\* by hand, beside a claim without a name.
MCAdditional ==
  {{},
   {ClaimOf(Lift, "Shared"), ClaimOf(Lift, "Exclusive")},
   {ClaimOf(MotionResource(b1), "Exclusive"), ClaimOf(NoName, "Shared")}}
=============================================================================
