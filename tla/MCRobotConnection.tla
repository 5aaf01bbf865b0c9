-------------------------- MODULE MCRobotConnection --------------------------
(* One robot whose row is changed while its connection comes and goes. *)
EXTENDS RobotConnection, TLC

\* Sessions are only told apart by what happens to them.
SessionSymmetry == Permutations(Session)

MCTopic == {"pose", "battery"}
=============================================================================
