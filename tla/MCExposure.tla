------------------------------ MODULE MCExposure ------------------------------
(***************************************************************************)
(* Two machines that share no state, checked in one run: purchases of      *)
(* inventory under their guard, and the two paper loops under MASTER. The  *)
(* initial state says which of them runs.                                  *)
(*                                                                         *)
(* Purchases: a market with a coarse lot step, which lists its trades, one *)
(* with a fine step, which reports whole orders, one that publishes no     *)
(* minimum notional; requests below and above the cap; two calls under the *)
(* default limit of one, operators toggling the kill switch. The calls are *)
(* interchangeable: only one of two orders of their requests is an initial *)
(* state.                                                                  *)
(*                                                                         *)
(* MASTER: a CEX opportunity it governs and one it does not, and a         *)
(* dex_cross; requests for less and for more than each side has.           *)
(***************************************************************************)
EXTENDS MasterAuthority, InventoryConstitution, TLC

CONSTANTS a1, a2, coarse, fine, bare, c1, c2, d1

VARIABLE machine

MCStep == (coarse :> 2) @@ (fine :> 1) @@ (bare :> 1)
MCMinNotional == (coarse :> 3) @@ (fine :> 2) @@ (bare :> Unpublished)

MCRequests == {[market |-> coarse, notional |-> 4], [market |-> fine, notional |-> 6],
               [market |-> fine, notional |-> 3], [market |-> bare, notional |-> 2]}

MCCapital == [i \in Ids |-> CASE i = c1 -> 3 [] i = d1 -> 2 [] OTHER -> 1]
MCCexResults == {-1, 1}

ExposureInit ==
  /\ machine \in {"inventory", "master"}
  /\ IF machine = "inventory" THEN ConstitutionInit /\ req[a1].notional <= req[a2].notional
     ELSE ConstitutionInit /\ req = [a \in Attempts |-> [market |-> bare, notional |-> 2]]
  /\ Init

ExposureNext ==
  /\ UNCHANGED machine
  /\ \/ machine = "inventory" /\ ConstitutionNext /\ UNCHANGED vars
     \/ machine = "master" /\ Next /\ UNCHANGED constitutionVars

ExposureSpec == ExposureInit /\ [][ExposureNext]_<<machine, vars, constitutionVars>>
=============================================================================
