----------------------------- MODULE MCPrepare -----------------------------
(***************************************************************************)
(* TLC instance of Prepare: the kernel checkout with musl-blueyos inside,  *)
(* and one of the repositories of network.extra_repos.                     *)
(***************************************************************************)
EXTENDS Prepare

CONSTANTS biscuits, musl, extra

TrackedRepos == <<biscuits, musl>>

ExtraRepos == <<extra>>
=============================================================================
