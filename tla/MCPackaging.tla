---------------------------- MODULE MCPackaging ----------------------------
(***************************************************************************)
(* TLC instance of Packaging: the port nano; claw, which clears first; and *)
(* two recipes that package their checkout, yap, which looks for its own   *)
(* version, and blueyos-bash, which takes the newest file.  The second     *)
(* version has one file that the first has as well and lacks the other.    *)
(***************************************************************************)
EXTENDS Packaging

CONSTANTS nano, claw, yap, bash, bin, help

Configurations == {{nano}, {claw}, {yap, bash}}

PortOnly == {{nano}}

Picking ==
    [c \in Component |-> CASE c = yap -> "own" [] c = bash -> "newest" [] OTHER -> "any"]

Pinning == [c \in Component |-> None]

Files == <<{bin, help}, {bin}>>
=============================================================================
