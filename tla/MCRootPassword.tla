--------------------------- MODULE MCRootPassword ---------------------------
(***************************************************************************)
(* TLC instance of RootPassword: two other users, two runs of `baker       *)
(* passwd`, two runs cut short, any number of reinstallations.             *)
(***************************************************************************)
EXTENDS RootPassword

CONSTANTS daemon, nobody

Users == <<daemon, nobody>>
=============================================================================
