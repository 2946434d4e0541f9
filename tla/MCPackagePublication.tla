-------------------------- MODULE MCPackagePublication --------------------------
(***************************************************************************)
(* A small instance of PackagePublication: two packages, one document that *)
(* is refused, and a verifier, with one power loss at any instant.         *)
(***************************************************************************)
EXTENDS PackagePublication, TLC

Symmetry == Permutations(Accepted)
================================================================================
