------------------------------ MODULE MCPayments ------------------------------
(***************************************************************************)
(* What comes from Stripe, for TLC: top-ups of the stored card, webhooks   *)
(* and the e-mails to customers who have left.  They meet in no column of  *)
(* a row but the credits, to which all of them only add, so a behaviour is *)
(* of one of them, chosen at the start; the others rest.                   *)
(***************************************************************************)
EXTENDS AutoTopup, Subscriptions, Winback, TLC

CONSTANTS r1, r2, u1, creator, pro, studio, pack

VARIABLE branch

paymentVars == <<branch, vars, subVars, winVars>>

MCKind == [p \in Products |->
  CASE p \in {creator, pro} -> "creator" [] p = studio -> "credits" [] p = pack -> "purchase"]

Customer(things, ordered, trouble) ==
  [buys |-> things, inOrder |-> ordered, mishaps |-> trouble]
Idler == Customer({}, TRUE, 0)

MCCustomers ==
  {Idler,
   Customer({creator}, FALSE, 2), Customer({studio}, FALSE, 1), Customer({pack}, FALSE, 3),
   Customer({creator}, TRUE, 1), Customer({creator, studio}, TRUE, 1)}

\* Events come in order and nothing goes wrong.
MCSwitchers == {Idler, Customer({creator, pro}, TRUE, 0)}

--------------------------------------------------------------------------------
PaymentsInit ==
  /\ branch \in {"topup", "webhooks", "winback"}
  /\ Init /\ SubInit /\ WinInit
  /\ branch # "webhooks" => customer = Idler

PaymentsNext ==
  \/ branch = "topup" /\ Next /\ UNCHANGED <<branch, subVars, winVars>>
  \/ branch = "webhooks" /\ SubNext /\ UNCHANGED <<branch, vars, winVars>>
  \/ branch = "winback" /\ WinNext /\ UNCHANGED <<branch, vars, subVars>>

PaymentsSpec == PaymentsInit /\ [][PaymentsNext]_paymentVars

\* Goroutines, requests and processes are interchangeable.
Symmetry == Permutations({r1, r2})

\* Types and what ties the program counters to the rows.
PaymentsInv == AInv /\ WebhookInv /\ WinInv
================================================================================
