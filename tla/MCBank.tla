------------------------------- MODULE MCBank --------------------------------
(* Bank for TLC: three requests that meet on an account that was created   *)
(* and paid into before, or that is only just being created.               *)
EXTENDS Bank

Send(route, fields) ==
  [route |-> route, body |-> [form |-> "object", type |-> "", fields |-> fields]]
Deposit(n) == Send("Deposit", <<n>>)
Withdraw(n) == Send("Withdraw", <<n>>)
Create == Send("Create", <<"owner">>)
Close == Send("Close", <<>>)

(* A closing by its route, whatever the body says it is. *)
Misnamed == [Close EXCEPT !.body.type = "Deposit"]
NoAmount == Send("Withdraw", <<>>)
Unread(form) == [route |-> "Deposit", body |-> [form |-> form]]

After(paid, requests) ==
  [past |-> 2, requests |-> <<Create, Deposit(paid)>> \o requests]
Before(requests) ==
  [past |-> 0, requests |-> requests \o <<Unread("no_json"), Unread("value")>>]

(* Floats of two significant bits: 3 + 2 is 4, and 1 less is 3, while      *)
(* 3 - 1 + 2 is 4.                                                         *)
MCFloats == LET above == {1, 2, 3, 4, 6, 8, 12, 16}
            IN  {0} \cup above \cup {-f : f \in above}

MCAmounts == -1..4

MCScenarios ==
  {After(3, <<Deposit(2), Withdraw(1), Withdraw(4)>>),
   After(2, <<Withdraw(2), Misnamed, Unread("no_content_type")>>),
   After(2, <<Withdraw(2), Deposit(-1), NoAmount>>),
   After(1, <<Withdraw(-1), Withdraw(0), Unread("value")>>),
   Before(<<Create, Deposit(1), Withdraw(1)>>)}
=============================================================================
