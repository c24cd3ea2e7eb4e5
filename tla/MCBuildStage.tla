---------------------------- MODULE MCBuildStage ----------------------------
(***************************************************************************)
(* TLC instance of BuildStage: components of baker.yaml with the           *)
(* dependencies their recipes declare, one component without a recipe, and *)
(* a second graph in which two recipes wait for each other.  As in the     *)
(* code, musl does not write to the sysroot, glibc replaces lib, and bash  *)
(* edits etc/passwd, which base installs; base also has a file in lib.     *)
(***************************************************************************)
EXTENDS BuildStage

CONSTANTS musl, glibc, base, bash, login, ghost, lib, rest

Declared ==
    [c \in Component |->
        CASE c \in {glibc, base, bash} -> {musl}
          [] c = login -> {musl, base}
          [] OTHER -> {}]

Graphs == {Declared, [Declared EXCEPT ![musl] = {base}]}

Configs ==
    { [enabled |-> {glibc, base, bash}, exclude |-> {}],
      [enabled |-> {base, login, ghost}, exclude |-> {base}],
      [enabled |-> {bash}, exclude |-> {bash}] }

Places ==
    [c \in Component |->
        CASE c = glibc -> {lib}
          [] c = base -> {lib, rest}
          [] c \in {bash, login} -> {rest}
          [] OTHER -> {}]

Replaced == [c \in Component |-> IF c = glibc THEN {lib} ELSE {}]

Rewritten == [c \in Component |-> IF c = bash THEN {<<base, rest>>} ELSE {}]

InitialCheckout ==
    [c \in Component |->
        CASE c = musl -> "side"
          [] c \in {base, login} -> "behind"
          [] OTHER -> "none"]
=============================================================================
