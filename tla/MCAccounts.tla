----------------------------- MODULE MCAccounts ------------------------------
(* Prices and balances for TLC: every price is one unit, and a new account   *)
(* has two diamonds and a ticket, so that a second operation, or two copies,  *)
(* may find too little, also because the GM has taken a diamond in between.   *)
EXTENDS Accounts

OneDiamond == [cost |-> 1, currency |-> "diamond", reward |-> 2]
OneTicket == [cost |-> 1, currency |-> "ticket", reward |-> 1]
Goods == {OneDiamond, OneTicket}
NewWallet == [gold |-> 0, diamond |-> 2, ticket |-> 1]
Mixed == [gold |-> 1, diamond |-> -1, ticket |-> 0]
AnyGrant == {Mixed}
=============================================================================
