------------------------------ MODULE MCLapse -------------------------------
(* An instance of Lapse with one device and one address.                   *)
EXTENDS Lapse, TLC

CONSTANTS d1, a1

OneDevice == [a \in Address |-> d1]
OneId == [d \in Device |-> 1]

(* Which rule events got lost or were overtaken is of no consequence here: *)
(* two states that differ in nothing else are the same.                    *)
WithoutRuleHistory ==
    <<historyVars, rule, lease, inflight, events, ruleEvents, job, expired,
      lost \cap Address, raced \cap Address, moved, early>>

Inexact == {<<0, 2>>, <<1, 2>>}
=============================================================================
