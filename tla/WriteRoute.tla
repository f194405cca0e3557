----------------------------- MODULE WriteRoute -----------------------------
(***************************************************************************)
(* CQRSWriteRouter (rest/write_router.rs) and the helpers it reads its     *)
(* routes from the command schemas with (rest/helpers.rs): which command a *)
(* request is, and which status the caller is answered.                    *)
(*                                                                         *)
(* A body is a JSON object with a type of its own, right or wrong, and the *)
(* other fields; or another JSON value; or no JSON, or not said to be any. *)
(***************************************************************************)
EXTENDS Errors

(* A route per variant of the command enum: its path is the name of the    *)
(* variant, which is also what its discriminator puts in the body.         *)
Routes(creates, updates) ==
  {[method |-> "POST", discriminator |-> variant, success |-> 201,
    errors |-> {400, 409, 422, 500}] : variant \in creates}
  \cup
  {[method |-> "PUT", discriminator |-> variant, success |-> 200,
    errors |-> {400, 404, 409, 422, 500}] : variant \in updates}

(* A route whose schema has no field with one single value has none.       *)
NoDiscriminator == "none"

Forms == {"object", "value", "no_json", "no_content_type"}

(* The Json<Value> extractor: a body it rejects never reaches the handler. *)
Extracted(body) == body.form \in {"object", "value"}

Rejection(body) ==
  [status |-> IF body.form = "no_content_type" THEN 415 ELSE 400,
   requestId |-> NoRequestId]

AddDiscriminator(body, route) ==
  IF body.form = "object" /\ route.discriminator # NoDiscriminator
    THEN [body EXCEPT !.type = route.discriminator] ELSE body

(* from_value: shapes gives the fields each variant takes. *)
Deserializes(body, shapes) ==
  /\ body.form = "object"
  /\ body.type \in DOMAIN shapes
  /\ body.fields \in shapes[body.type]

(* The error an answer of the engine is: refusal is the handler's own. *)
ErrorOf(reply, refusal) ==
  CASE reply = "already_exists" -> Infrastructure("Conflict")
    [] reply = "not_found" -> Infrastructure("AggregateNotFound")
    [] reply = "concurrency_error" -> Infrastructure("ConcurrencyError")
    [] reply = "database_error" -> Infrastructure("DatabaseError")
    [] reply = "unprocessable" -> Unprocessable
    [] reply = "user_error" -> refusal

(* create and update. *)
Respond(route, reply, refusal, requestId) ==
  IF reply = "ok"
    THEN [status |-> route.success, requestId |-> NoRequestId]
    ELSE LET error == WithRequestIdIfAbsent(ErrorOf(reply, refusal), requestId)
         IN  [status |-> HttpStatus(error), requestId |-> error.requestId]
=============================================================================
