-------------------------------- MODULE Bank --------------------------------
(***************************************************************************)
(* The bank example (example/bank/src/api.rs): the write routes of the     *)
(* accounts, over the command engine and MongoDBPersist, and the           *)
(* dispatcher that keeps the movements.                                    *)
(*                                                                         *)
(* A call of MongoEngine is an HTTP request here.  What its handler        *)
(* returns is no longer left open: it is what BankAccount says of the      *)
(* account the call has loaded.  The event of a request is a function of   *)
(* its command, so the journal needs no payloads.                          *)
(***************************************************************************)
EXTENDS MongoEngine, WriteRoute, BankAccount

CONSTANTS
  Amounts,     \* the amounts commands name
  Scenarios    \* the requests of a run, and how many of them were answered
               \* before it begins

(* A JSON number is finite. *)
ASSUME AmountsAssumption ==
  Amounts \subseteq Floats /\ \A n \in Amounts : ~ Infinite(n)

(* A handler of the account returns one event: the bound allows for it. *)
ASSUME OneEventAssumption == MaxEvents >= 1

VARIABLES
  request,     \* the route and the body of each request
  movements,   \* the movements view of each account
  unprojected, \* the calls whose movement could not be saved
  since        \* how many events the account had when a call first read it

bankVars == <<vars, request, movements, unprojected, since>>

Commands == AccountCommands(Amounts)

(* The routes of the two command enums. *)
AccountRoutes == Routes({"Create"}, {"Deposit", "Withdraw", "Close"})

RouteOf(sent) ==
  CHOOSE route \in AccountRoutes : route.discriminator = sent.route

KindOf(route) == IF route = "Create" THEN "create" ELSE "update"

CommandOf(sent) == AddDiscriminator(sent.body, RouteOf(sent))
Command(c) == CommandOf(request[c])

(* A request of one of the routes, and whether its command can be read. *)
IsRequest(sent) ==
  /\ \E route \in AccountRoutes : sent.route = route.discriminator
  /\ sent.body.form \in Forms
  /\ sent.body.form = "object" => "type" \in DOMAIN sent.body

IsReadable(sent) == Deserializes(CommandOf(sent), Commands)
Readable(c) == IsReadable(request[c])

(* The n-th request made the account, or the account accepted it. *)
WasAccepted(requests, n) ==
  LET before == [i \in 1..(n - 1) |-> EventOf(CommandOf(requests[i]))]
  IN  /\ IsReadable(requests[n])
      /\ requests[n].route = "Create" <=> n = 1
      /\ n > 1 => HandleUpdate(Account(before), CommandOf(requests[n])).ok

(* The past of a scenario is one the account can have. *)
ASSUME ScenariosAssumption ==
  \A scenario \in Scenarios :
    /\ scenario.past \in Nat /\ 1..scenario.past \subseteq Calls
    /\ \A c \in Calls : IsRequest(scenario.requests[c])
    /\ \A n \in 1..scenario.past : WasAccepted(scenario.requests, n)

(* The event of a request, and the events behind those of the engine. *)
Payload(c) == EventOf(Command(c))
Payloads(events) == [i \in DOMAIN events |-> Payload(events[i][1])]

(* What the handler of a call returns for the account it has loaded. *)
Outcome(c) ==
  IF kind[c] = "create"
    THEN HandleCreate(Command(c))
    ELSE HandleUpdate(Account(Payloads(agg[c])), Command(c))

(* An account and its movements as past answered requests left them. *)
BankInit ==
  \E scenario \in Scenarios, account \in Ids :
    LET past == scenario.past
        done == [i \in 1..past |-> [version |-> i, event |-> <<i, 1>>]]
        isPast(c) == c \in 1..past
        on(id, there, elsewhere) == IF id = account /\ past > 0 THEN there ELSE elsewhere
    IN  /\ request = [c \in Calls |-> scenario.requests[c]]
        /\ pc = [c \in Calls |-> IF isPast(c) THEN "done" ELSE "fetch_snapshot"]
        /\ kind = [c \in Calls |-> KindOf(request[c].route)]
        /\ target \in {t \in [Calls -> Ids] : \A c \in 1..past : t[c] = account}
        /\ agg = [c \in Calls |->
                    IF isPast(c) THEN EventsOf(SubSeq(done, 1, c)) ELSE <<>>]
        /\ ver = [c \in Calls |-> IF isPast(c) THEN c - 1 ELSE 0]
        /\ batch = [c \in Calls |-> IF isPast(c) THEN NewEvents(c, 1) ELSE <<>>]
        /\ reply = [c \in Calls |-> IF isPast(c) THEN "ok" ELSE "none"]
        /\ journal = [id \in Ids |-> on(id, done, <<>>)]
        /\ snapshots = [id \in Ids |->
             on(id, [state |-> EventsOf(done), version |-> past], NoSnapshot)]
        /\ disturbed = {}
        /\ movements = [id \in Ids |->
             on(id, {Movement(i, Payload(i)) : i \in {k \in 1..past : HasMovement(Payload(k))}},
                {})]
        /\ unprojected = {}
        /\ since = [c \in Calls |-> 0]

-----------------------------------------------------------------------------
(* A body that the extractor rejects, or that the command cannot be read   *)
(* from, makes no call of the engine.                                      *)
Unprocessed(c) ==
  /\ pc[c] = "fetch_snapshot"
  /\ ~ Readable(c)
  /\ Answer(c, "user_error")
  /\ UNCHANGED <<kind, target, agg, ver, batch, store, disturbed>>
  /\ UNCHANGED <<request, movements, unprojected, since>>

(* The handler returns one event, or it refuses. *)
HandlerDecides(c) ==
  pc[c] = "handle" /\ reply'[c] # "cancelled" =>
    IF Outcome(c).ok THEN Len(batch'[c]) = 1 ELSE reply'[c] = "user_error"

Arrives(c) ==
  since' = IF pc[c] = "fetch_snapshot"
             THEN [since EXCEPT ![c] = Len(journal[target[c]])] ELSE since

(* Movement is saved by its id, account and version, whoever saved it. *)
Upserted(c) ==
  LET new == Movement(ver[c] + 1, Payload(c))
  IN  [movements EXCEPT ![target[c]] =
         {m \in @ : m.version # new.version} \cup {new}]

(* The ViewDispatcher of the movements: the storage may fail it, and a     *)
(* request that is dropped may have it saved or not.                       *)
Projects(c) ==
  IF pc[c] # "dispatch" \/ ~ HasMovement(Payload(c))
    THEN UNCHANGED <<movements, unprojected>>
    ELSE \/ /\ movements' = Upserted(c)
            /\ UNCHANGED unprojected
         \/ /\ movements' \in {movements, Upserted(c)}
            /\ unprojected' = unprojected \cup {c}

Request(c) ==
  /\ Readable(c)
  /\ Step(c) \/ QueryFails(c) \/ Cancel(c) \/ CancelWrite(c) \/ LateWrite(c)
  /\ HandlerDecides(c)
  /\ Arrives(c)
  /\ Projects(c)
  /\ UNCHANGED request

BankNext ==
  \/ \E c \in Calls : Unprocessed(c) \/ Request(c)
  \/ Idle /\ UNCHANGED <<request, movements, unprojected, since>>

BankSpec == BankInit /\ [][BankNext]_bankVars

-----------------------------------------------------------------------------
(* Two calls wrote the same version: nothing kept them apart. *)
Forked(id) ==
  \E i, k \in DOMAIN journal[id] :
    i # k /\ journal[id][i].version = journal[id][k].version

Ledger(id) == Payloads(EventsOf(journal[id]))

(* The balance after the first n events. *)
Balance(id, n) == Account(SubSeq(Ledger(id), 1, n)).amount

(* A deposit of less than nothing, which takes money without a check. *)
DepositedNegative(c) ==
  Command(c).type = "Deposit" /\ Amount(Command(c)) < 0

(* The first n events, in an order in which a load may have applied them:  *)
(* sums of floats depend on it.                                            *)
Orders(id, n) ==
  LET first == {journal[id][i].event : i \in 1..n}
  IN  IF id \in disturbed
        THEN {order \in [1..n -> first] : Range(order) = first}
        ELSE {Replay(journal[id], n)}

(* The command of the n-th entry is one its account takes.                 *)
IsTaken(id, n) ==
  LET command == Command(journal[id][n].event[1])
  IN  IF command.type = "Create" THEN n = 1
      ELSE \E order \in Orders(id, n - 1) :
             HandleUpdate(Account(Payloads(order)), command).ok

(* As long as no version was written twice, every entry is of a command    *)
(* that the account accepts after exactly the entries before it: no event  *)
(* is decided on without one that precedes it.  HandleUpdate decides on a  *)
(* state read long before the event is inserted, through a snapshot that   *)
(* may be an old one and a tail in any order.  So nothing follows a        *)
(* closing, and where no load had to order several events or met a commit  *)
(* half done, only a negative deposit overdraws.                           *)
LedgerIsExplained ==
  \A id \in Ids : ~ Forked(id) =>
    /\ \A n \in DOMAIN Ledger(id) : IsTaken(id, n)
    /\ \A n \in DOMAIN Ledger(id) :
         Ledger(id)[n].type = "Closed" => n = Len(Ledger(id))
    /\ id \notin disturbed => \A n \in DOMAIN Ledger(id) :
         Balance(id, n) < 0 =>
           \E k \in 1..n : DepositedNegative(journal[id][k].event[1])

Projected(c) == Answered(c, "ok") /\ c \notin unprojected

(* What the movements add up to, in the order of their versions. *)
Total(moved, n) ==
  LET of(v) == {m \in moved : m.version = v}
      total[v \in 0..n] ==
        IF v = 0 THEN DefaultAccount.amount
        ELSE IF of(v) = {} THEN total[v - 1]
        ELSE Plus(total[v - 1], (CHOOSE m \in of(v) : TRUE).amount)
  IN  total[n]

(* Every movement is of an event of the journal, and once all the requests *)
(* that wrote to an account have been answered and their movements saved,  *)
(* the movements add up to its balance, version after version.             *)
MovementsAddUp ==
  \A id \in Ids :
    /\ \A m \in movements[id] : \E i \in DOMAIN journal[id] :
         LET event == Payload(journal[id][i].event[1])
         IN  HasMovement(event) /\ m = Movement(journal[id][i].version, event)
    /\ ~ Forked(id) /\ (\A i \in DOMAIN journal[id] : Projected(journal[id][i].event[1])) =>
         Total(movements[id], Len(Ledger(id))) = Balance(id, Len(Ledger(id)))

(* What a client is told. *)
Response(c) ==
  LET refused == IF Readable(c) /\ reply[c] = "user_error" THEN Outcome(c).error
                                                           ELSE Unprocessable
  IN  IF Extracted(request[c].body)
        THEN Respond(RouteOf(request[c]), reply[c], refused, c)
        ELSE Rejection(request[c].body)

(* The account refuses the command of c after its first n events. *)
RefusedAfter(c, n) ==
  \E order \in Orders(target[c], n) :
    LET decided == HandleUpdate(Account(Payloads(order)), Command(c))
    IN  ~ decided.ok /\ HttpStatus(decided.error) = Response(c).status

(* A refusal is the truth at some moment since the request arrived: the    *)
(* 400 or 410 that a handler returned is what the account would have       *)
(* answered after the events there were then, and a conflict means that    *)
(* another event came first, or that a load had to order several events or *)
(* met a commit half done.                                                 *)
RefusalsAreTrue ==
  \A c \in Calls : pc[c] = "done" /\ ~ Forked(target[c]) =>
    LET id == target[c]
        count == Len(journal[id])
    IN  /\ /\ reply[c] # "cancelled" /\ Extracted(request[c].body)
           /\ Response(c).status \in {400, 410}
           => \E n \in since[c]..count : RefusedAfter(c, n)
        /\ reply[c] = "concurrency_error" =>
             since[c] < count \/ id \in disturbed
=============================================================================
