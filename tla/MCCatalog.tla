------------------------------ MODULE MCCatalog ------------------------------
(* Two HTTP threads, as many as main.cpp starts. *)
EXTENDS Catalog

ThreadSymmetry == Permutations(Http)
=============================================================================
