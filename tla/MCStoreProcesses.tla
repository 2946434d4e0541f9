---------------------------- MODULE MCStoreProcesses ----------------------------
(***************************************************************************)
(* A small instance of StoreProcesses: two commands and a server of three  *)
(* releases: the first, one with two migrations more, and a fork of it     *)
(* whose second migration is another.                                      *)
(***************************************************************************)
EXTENDS StoreProcesses

M(version, checksum) == [version |-> version, checksum |-> checksum]

SomeReleases ==
  {{M(1, "a")}, {M(1, "a"), M(2, "a"), M(3, "a")}, {M(1, "a"), M(2, "b")}}
===============================================================================
