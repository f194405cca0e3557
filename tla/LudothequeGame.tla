--------------------------- MODULE LudothequeGame ---------------------------
(***************************************************************************)
(* The game aggregate of the ludotheque example                            *)
(* (example/ludotheque/src/game) and its view.  Description, category and  *)
(* the numbers of players of a registered game decide nothing and are left *)
(* out, as is the date a loan ends.                                        *)
(***************************************************************************)
EXTENDS Sequences, Errors

EmptyTitle == ""
KeepTitle == "keep"     \* an update without a title
NoBorrower == "nobody"

(* The commands of the routes; a borrower is somebody. *)
IsGameCommand(command) ==
  /\ command.type \in {"Register", "Borrow", "Return", "Update"}
  /\ command.type = "Borrow" => command.borrower # NoBorrower

DefaultGame == [title |-> EmptyTitle, available |-> FALSE]

GameErrors ==
  [AlreadyBorrowed |-> <<1, 409>>, NotBorrowed |-> <<2, 409>>,
   EmptyTitle |-> <<3, 400>>, InvalidPlayerCount |-> <<4, 400>>]

GameError(name) == Raises(DomainError("ludotheque", 30, GameErrors, name))

-----------------------------------------------------------------------------
ApplyToGame(game, event) ==
  CASE event.type = "Registered" ->
         [title |-> event.title, available |-> TRUE]
    [] event.type = "Borrowed" -> [game EXCEPT !.available = FALSE]
    [] event.type = "Returned" -> [game EXCEPT !.available = TRUE]
    [] event.type = "Updated" ->
         [game EXCEPT !.title = IF event.title = KeepTitle THEN @ ELSE event.title]

GameOf(events) ==
  LET after[n \in 0..Len(events)] ==
        IF n = 0 THEN DefaultGame ELSE ApplyToGame(after[n - 1], events[n])
  IN  after[Len(events)]

(* The one event a command that is not refused returns. *)
GameEvent(command) ==
  CASE command.type = "Register" -> [type |-> "Registered", title |-> command.title]
    [] command.type = "Borrow" -> [type |-> "Borrowed", borrower |-> command.borrower]
    [] command.type = "Return" -> [type |-> "Returned"]
    [] command.type = "Update" -> [type |-> "Updated", title |-> command.title]

RegisterGame(command) ==
  IF command.title = EmptyTitle THEN GameError("EmptyTitle")
  ELSE IF command.min = 0 \/ command.min > command.max
    THEN GameError("InvalidPlayerCount")
  ELSE Returns(GameEvent(command))

(* Mutant: a game that is out is lent again. *)
UpdateGameLent(game, command) ==
  IF command.type = "Return" /\ game.available THEN GameError("NotBorrowed")
  ELSE IF command.type = "Update" /\ command.title = EmptyTitle
    THEN GameError("EmptyTitle")
  ELSE Returns(GameEvent(command))

UpdateGame(game, command) ==
  IF command.type = "Borrow" /\ ~ game.available
    THEN GameError("AlreadyBorrowed")
  ELSE IF command.type = "Return" /\ game.available
    THEN GameError("NotBorrowed")
  ELSE IF command.type = "Update" /\ command.title = EmptyTitle
    THEN GameError("EmptyTitle")
  ELSE Returns(GameEvent(command))

-----------------------------------------------------------------------------
DefaultGameView ==
  [title |-> EmptyTitle, available |-> FALSE, borrower |-> NoBorrower,
   version |-> 0]

(* GameView::update. *)
UpdateView(view, envelope) ==
  LET event == envelope.event
      seen == [view EXCEPT !.version = envelope.version]
  IN  CASE event.type = "Registered" ->
             [seen EXCEPT !.title = event.title, !.available = TRUE,
                          !.borrower = NoBorrower]
        [] event.type = "Borrowed" ->
             [seen EXCEPT !.available = FALSE, !.borrower = event.borrower]
        [] event.type = "Returned" ->
             [seen EXCEPT !.available = TRUE, !.borrower = NoBorrower]
        [] event.type = "Updated" ->
             [seen EXCEPT !.title = IF event.title = KeepTitle THEN @ ELSE event.title]

GameView(envelopes) ==
  LET after[n \in 0..Len(envelopes)] ==
        IF n = 0 THEN DefaultGameView ELSE UpdateView(after[n - 1], envelopes[n])
  IN  after[Len(envelopes)]
=============================================================================
