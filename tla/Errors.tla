------------------------------- MODULE Errors -------------------------------
(***************************************************************************)
(* CqrsError (errors.rs) and the document it becomes (problem.rs): the     *)
(* code tables, how an error is made of a code or of an HTTP status, and   *)
(* what a caller is answered.  Messages and details are left out.          *)
(***************************************************************************)
EXTENDS Naturals

MaxU16 == 65535

(* http::StatusCode holds any number of three digits. *)
StatusCode == 100..999

NoRequestId == ""

-----------------------------------------------------------------------------
(* A code of a domain; internal_code is a u16 product and sum. *)
Code(domain, prefix, name, index, status) ==
  [domain |-> domain, prefix |-> prefix, name |-> name, index |-> index,
   status |-> status]

InternalCode(code) == (code.prefix * 1000 + code.index) % (MaxU16 + 1)

FromCode(code) ==
  [domain |-> code.domain, code |-> code.name,
   internalCode |-> InternalCode(code), status |-> code.status,
   requestId |-> NoRequestId]

WithRequestIdIfAbsent(error, id) ==
  [error EXCEPT !.requestId = IF @ = NoRequestId THEN id ELSE @]

(* The status is no part of the JSON of an error: one that was read back   *)
(* has status 0, which is none.                                            *)
Deserialized(error) == [error EXCEPT !.status = 0]

HttpStatus(error) == IF error.status \in StatusCode THEN error.status ELSE 500

-----------------------------------------------------------------------------
(* Infrastructure codes, prefix 0. *)

InfrastructureIndex ==
  [InternalError |-> 0, ValidationFailed |-> 1, NotFound |-> 2,
   Conflict |-> 3, Unauthorized |-> 4, Forbidden |-> 5, Gone |-> 6,
   DatabaseError |-> 10, SerializationError |-> 11, AggregateNotFound |-> 12,
   ConcurrencyError |-> 13, DomainError |-> 14, CqrsInternalError |-> 15,
   ConfigurationError |-> 16, Unknown |-> 99]

InfrastructureStatus ==
  [InternalError |-> 500, ValidationFailed |-> 400, NotFound |-> 404,
   Conflict |-> 409, Unauthorized |-> 401, Forbidden |-> 403, Gone |-> 410,
   DatabaseError |-> 500, SerializationError |-> 500,
   AggregateNotFound |-> 404, ConcurrencyError |-> 409, DomainError |-> 400,
   CqrsInternalError |-> 500, ConfigurationError |-> 500, Unknown |-> 500]

Infrastructure(name) ==
  FromCode(Code("infrastructure", 0, name, InfrastructureIndex[name],
                InfrastructureStatus[name]))

-----------------------------------------------------------------------------
(* Generic codes, prefix 1.  The first ones have indexes of their own, the *)
(* later ones and Other their status.                                      *)

HistoricalIndex ==
  [InternalError |-> 0, ValidationFailed |-> 1, NotFound |-> 2,
   Conflict |-> 3, Unauthorized |-> 4, Forbidden |-> 5, Gone |-> 6]

HistoricalStatus ==
  [InternalError |-> 500, ValidationFailed |-> 400, NotFound |-> 404,
   Conflict |-> 409, Unauthorized |-> 401, Forbidden |-> 403, Gone |-> 410]

LaterStatus ==
  [PaymentRequired |-> 402, MethodNotAllowed |-> 405, NotAcceptable |-> 406,
   RequestTimeout |-> 408, PreconditionFailed |-> 412,
   PayloadTooLarge |-> 413, UnsupportedMediaType |-> 415,
   UnprocessableEntity |-> 422, Locked |-> 423, PreconditionRequired |-> 428,
   TooManyRequests |-> 429, NotImplemented |-> 501,
   ServiceUnavailable |-> 503, GatewayTimeout |-> 504]

LaterIndex ==
  [PaymentRequired |-> 402, MethodNotAllowed |-> 405, NotAcceptable |-> 406,
   RequestTimeout |-> 408, PreconditionFailed |-> 412,
   PayloadTooLarge |-> 413, UnsupportedMediaType |-> 415,
   UnprocessableEntity |-> 422, Locked |-> 423, PreconditionRequired |-> 428,
   TooManyRequests |-> 429, NotImplemented |-> 501,
   ServiceUnavailable |-> 503, GatewayTimeout |-> 504]

Historical(name) ==
  Code("generic", 1, name, HistoricalIndex[name], HistoricalStatus[name])

Later(name) == Code("generic", 1, name, LaterIndex[name], LaterStatus[name])

Other(status) == Code("generic", 1, "Other", status, status)

(* The code of an HTTP status: a table of its own, the third of them.      *)
GenericFromStatus(status) ==
  CASE status = 400 -> Historical("ValidationFailed")
    [] status = 401 -> Historical("Unauthorized")
    [] status = 402 -> Later("PaymentRequired")
    [] status = 403 -> Historical("Forbidden")
    [] status = 404 -> Historical("NotFound")
    [] status = 405 -> Later("MethodNotAllowed")
    [] status = 406 -> Later("NotAcceptable")
    [] status = 408 -> Later("RequestTimeout")
    [] status = 409 -> Historical("Conflict")
    [] status = 410 -> Historical("Gone")
    [] status = 412 -> Later("PreconditionFailed")
    [] status = 413 -> Later("PayloadTooLarge")
    [] status = 415 -> Later("UnsupportedMediaType")
    [] status = 422 -> Later("UnprocessableEntity")
    [] status = 423 -> Later("Locked")
    [] status = 428 -> Later("PreconditionRequired")
    [] status = 429 -> Later("TooManyRequests")
    [] status = 500 -> Historical("InternalError")
    [] status = 501 -> Later("NotImplemented")
    [] status = 503 -> Later("ServiceUnavailable")
    [] status = 504 -> Later("GatewayTimeout")
    [] OTHER -> Other(status)

FromStatus(status) == FromCode(GenericFromStatus(status))

Unprocessable == FromCode(Later("UnprocessableEntity"))

-----------------------------------------------------------------------------
(* define_domain_errors: the table of a domain is name -> <<index, status>>. *)
DomainError(domain, prefix, table, name) ==
  FromCode(Code(domain, prefix, name, table[name][1], table[name][2]))

(* What a command handler returns: an event, or an error. *)
Returns(event) == [ok |-> TRUE, event |-> event]
Raises(error) == [ok |-> FALSE, error |-> error]

(* The type of a problem document: the error has none of its own here. *)
ProblemType(base, error) ==
  IF base = "" THEN <<"urn:cqrs-error", error.domain, error.code>>
               ELSE <<base, error.code>>

(* The answer, as a problem document; base is the one set at startup. *)
Problem(base, error) ==
  [status |-> HttpStatus(error), type |-> ProblemType(base, error),
   code |-> error.code, internalCode |-> error.internalCode,
   requestId |-> error.requestId]
=============================================================================
