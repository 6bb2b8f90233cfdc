------------------------------ MODULE CreditLedger ------------------------------
(***************************************************************************)
(* What an account owner is promised: credits leave an account only as the *)
(* recorded charge of one job of that account, each job is charged at most *)
(* once, and no charge exceeds the balance it is taken from.               *)
(***************************************************************************)
EXTENDS Naturals

CONSTANTS Jobs, Users, Owner, Credits, Grants

VARIABLES bal, spent, granted, billed

vars == <<bal, spent, granted, billed>>

Init ==
  /\ bal \in [Users -> Nat]
  /\ granted = bal
  /\ spent = [u \in Users |-> 0]
  /\ billed = {}

Charge(j, a) ==
  /\ j \notin billed
  /\ a <= bal[Owner[j]]
  /\ bal' = [bal EXCEPT ![Owner[j]] = @ - a]
  /\ spent' = [spent EXCEPT ![Owner[j]] = @ + a]
  /\ billed' = billed \cup {j}
  /\ UNCHANGED granted

Grant(u, n) ==
  /\ bal' = [bal EXCEPT ![u] = @ + n]
  /\ granted' = [granted EXCEPT ![u] = @ + n]
  /\ UNCHANGED <<spent, billed>>

Next ==
  \/ \E j \in Jobs, a \in Credits : Charge(j, a)
  \/ \E u \in Users, n \in Grants : Grant(u, n)

Spec == Init /\ [][Next]_vars
================================================================================
