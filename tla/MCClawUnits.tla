---------------------------- MODULE MCClawUnits ----------------------------
(***************************************************************************)
(* TLC instance of ClawUnits: claw, matey with a target that claw ships as *)
(* well, walkies, and scout, which does not register its unit.             *)
(***************************************************************************)
EXTENDS ClawUnits

CONSTANTS claw, matey, walkies, scout, tty, multiuser, network, dhcp

PayloadUnits ==
    [r \in Recipe |->
        CASE r = claw    -> {multiuser}
          [] r = matey   -> {tty, multiuser}
          [] r = walkies -> {network}
          [] r = scout   -> {dhcp}]

StockLines == <<multiuser>>
=============================================================================
