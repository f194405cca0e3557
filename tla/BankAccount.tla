---------------------------- MODULE BankAccount -----------------------------
(***************************************************************************)
(* The account aggregate of the bank example (example/bank/src/account)    *)
(* and its movement view.  Neither the owner nor a currency decides        *)
(* anything, so both are left out.                                         *)
(*                                                                         *)
(* An amount is an f64: a float is written as the integer multiple it is   *)
(* of the least one above 0, a sum is the float nearest to it, and which   *)
(* floats there are is a parameter.  The greatest and its opposite stand   *)
(* for the two infinities, where 2^1024 would be.                          *)
(***************************************************************************)
EXTENDS Integers, Sequences, Errors

CONSTANT Floats    \* the values of an f64, but for NaN

Abs(n) == IF n < 0 THEN -n ELSE n

(* The floats nearest to n, and of two the one IEEE 754 rounds to: that    *)
(* with an even significand.                                               *)
Nearest(n) == {f \in Floats : \A g \in Floats : Abs(f - n) <= Abs(g - n)}

RoundsTo(n, f) ==
  \A g \in Nearest(n) : f = g \/ f % (2 * Abs(f - g)) = 0

ASSUME FloatsAssumption ==
  /\ Floats \subseteq Int /\ 0 \in Floats
  /\ \A f \in Floats : -f \in Floats
  /\ \A f, g \in Floats : \E sum \in Nearest(f + g) : RoundsTo(f + g, sum)

Rounded ==
  [n \in {f + g : f, g \in Floats} |-> CHOOSE f \in Nearest(n) : RoundsTo(n, f)]

Infinite(f) == \A g \in Floats : Abs(g) <= Abs(f)

(* f + g, of which g is finite. *)
Plus(f, g) == IF Infinite(f) THEN f ELSE Rounded[f + g]

-----------------------------------------------------------------------------
DefaultAccount == [amount |-> 0, closed |-> FALSE]

(* The fields each command takes. *)
AccountCommands(amounts) ==
  [Create |-> {<<"owner">>}, Deposit |-> {<<n>> : n \in amounts},
   Withdraw |-> {<<n>> : n \in amounts}, Close |-> {<<>>}]

Amount(command) == command.fields[1]

AccountErrors ==
  [InsufficientFunds |-> <<1, 400>>, InvalidAmount |-> <<2, 400>>,
   AccountClosed |-> <<3, 410>>, NegativeDeposit |-> <<4, 400>>]

AccountError(name) == Raises(DomainError("account", 10, AccountErrors, name))

-----------------------------------------------------------------------------
Apply(account, event) ==
  CASE event.type = "AccountCreated" -> account
    [] event.type = "Deposited" -> [account EXCEPT !.amount = Plus(@, event.amount)]
    [] event.type = "Withdrawn" -> [account EXCEPT !.amount = Plus(@, -event.amount)]
    [] event.type = "Closed" -> [account EXCEPT !.closed = TRUE]

Account(events) ==
  LET after[n \in 0..Len(events)] ==
        IF n = 0 THEN DefaultAccount ELSE Apply(after[n - 1], events[n])
  IN  after[Len(events)]

(* The event of a deposit or withdrawal: a negative one is the other. *)
Moved(command) ==
  LET deposited == (command.type = "Deposit") = (Amount(command) > 0)
  IN  [type |-> IF deposited THEN "Deposited" ELSE "Withdrawn",
       amount |-> Abs(Amount(command))]

(* The one event a command that is not refused returns. *)
EventOf(command) ==
  CASE command.type = "Create" -> [type |-> "AccountCreated"]
    [] command.type = "Close" -> [type |-> "Closed"]
    [] OTHER -> Moved(command)

HandleCreate(command) == Returns(EventOf(command))

(* Mutant: the funds are not checked. *)
HandleUpdateOnCredit(account, command) ==
  IF account.closed THEN AccountError("AccountClosed")
  ELSE IF command.type = "Close" THEN Returns(EventOf(command))
  ELSE IF Amount(command) = 0 THEN AccountError("InvalidAmount")
  ELSE Returns(EventOf(command))

(* A deposit is never refused for want of funds, not even a negative one,  *)
(* which withdraws.                                                        *)
HandleUpdate(account, command) ==
  IF account.closed THEN AccountError("AccountClosed")
  ELSE IF command.type = "Close" THEN Returns(EventOf(command))
  ELSE IF Amount(command) = 0 THEN AccountError("InvalidAmount")
  ELSE IF /\ command.type = "Withdraw"
          /\ Amount(command) > 0
          /\ account.amount < Amount(command)
    THEN AccountError("InsufficientFunds")
  ELSE Returns(EventOf(command))

-----------------------------------------------------------------------------
(* Movement: one per event, known by its version; a closing has none. *)
HasMovement(event) == event.type # "Closed"

(* Mutant: the sign of a withdrawal is forgotten. *)
MovementUnsigned(version, event) ==
  [version |-> version,
   amount |-> IF event.type = "AccountCreated" THEN 0 ELSE event.amount]

Movement(version, event) ==
  [version |-> version,
   amount |-> CASE event.type = "AccountCreated" -> 0
                [] event.type = "Withdrawn" -> -event.amount
                [] event.type = "Deposited" -> event.amount]
=============================================================================
