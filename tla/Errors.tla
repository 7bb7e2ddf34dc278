--------------------------------- MODULE Errors ---------------------------------
(***************************************************************************)
(* The errors of flare-core-base (error/): the codes and their numbers,    *)
(* and what becomes of an error that leaves a service as a gRPC status, as *)
(* the ErrorDetail of a message or as an HTTP response, and of the status  *)
(* or detail that another service receives.                                *)
(*                                                                         *)
(* A FlareError is its code, or "System" or "Io" where it has none; its    *)
(* reason, details, parameters and time are left out.                      *)
(***************************************************************************)
EXTENDS Integers, Sequences

\* the HTTP codes of ErrorCode
HttpNumber ==
    [HttpBadRequest |-> 400, HttpUnauthorized |-> 401, HttpForbidden |-> 403,
     HttpNotFound |-> 404, HttpMethodNotAllowed |-> 405, HttpRequestTimeout |-> 408,
     HttpConflict |-> 409, HttpUnprocessableEntity |-> 422, HttpTooManyRequests |-> 429,
     HttpInternalServerError |-> 500, HttpBadGateway |-> 502,
     HttpServiceUnavailable |-> 503, HttpGatewayTimeout |-> 504]

\* its other codes
OwnNumber ==
    [ConnectionFailed |-> 1000, ConnectionTimeout |-> 1001, ConnectionClosed |-> 1002,
     ConnectionRefused |-> 1003, ConnectionLimitExceeded |-> 1004, NotConnected |-> 1005,
     ConnectionReconnecting |-> 1006,
     AuthenticationFailed |-> 2000, AuthenticationExpired |-> 2001,
     AuthenticationInvalid |-> 2002, AuthenticationRequired |-> 2003,
     PermissionDenied |-> 2004, TokenInvalid |-> 2005, TokenExpired |-> 2006,
     ProtocolError |-> 3000, ProtocolVersionMismatch |-> 3001,
     ProtocolNotSupported |-> 3002, MessageFormatError |-> 3003, MessageTooLarge |-> 3004,
     InvalidCommand |-> 3005,
     MessageSendFailed |-> 4000, MessageDeliveryFailed |-> 4001, MessageNotFound |-> 4002,
     MessageExpired |-> 4003, MessageRateLimitExceeded |-> 4004,
     MessageDecodeFailed |-> 4005,
     UserNotFound |-> 5000, UserOffline |-> 5001, UserBlocked |-> 5002,
     UserQuotaExceeded |-> 5003, UserSessionLimitExceeded |-> 5004,
     InternalError |-> 6000, ServiceUnavailable |-> 6001, ResourceExhausted |-> 6002,
     ConfigurationError |-> 6003, DatabaseError |-> 6004,
     NetworkError |-> 7000, NetworkTimeout |-> 7001, NetworkUnreachable |-> 7002,
     NetworkConnectionLost |-> 7003,
     SerializationError |-> 8000, DeserializationError |-> 8001, EncodingError |-> 8002,
     GeneralError |-> 9000, InvalidParameter |-> 9001, OperationNotSupported |-> 9002,
     OperationFailed |-> 9003, OperationTimeout |-> 9004, BadRequest |-> 9005,
     SyncCursorRegression |-> 9101, UnknownError |-> 9999]

\* the numbers of ErrorCode
Number == [c \in DOMAIN HttpNumber \cup DOMAIN OwnNumber |->
             IF c \in DOMAIN HttpNumber THEN HttpNumber[c] ELSE OwnNumber[c]]

ErrorCodes == DOMAIN Number

\* from_u32, with the default of those who call it
FromNumber(n, default) ==
    IF \E c \in ErrorCodes : Number[c] = n
    THEN CHOOSE c \in ErrorCodes : Number[c] = n ELSE default

\* category
Category(code) ==
    LET thousands == Number[code] \div 1000
    IN  IF thousands \in 1..8
        THEN <<"Connection", "Authentication", "Protocol", "Message", "User", "System",
               "Network", "Serialization">>[thousands]
        ELSE "General"

FlareErrors == ErrorCodes \cup {"System", "Io"}

\* to_localized: the code of an error that has none
CodeOf(e) ==
    CASE e = "System" -> "InternalError"
      [] e = "Io" -> "NetworkError"
      [] OTHER -> e

\* is_retryable: an error without a code is not
IsRetryable(e) ==
    e \in {"ConnectionTimeout", "ConnectionClosed", "NetworkTimeout",
           "NetworkConnectionLost", "ServiceUnavailable", "ResourceExhausted"}

------------------------------------------------------------------------------
(***************************************************************************)
(* gRPC                                                                    *)
(***************************************************************************)

Statuses == {"Ok", "Cancelled", "Unknown", "InvalidArgument", "DeadlineExceeded", "NotFound",
             "PermissionDenied", "ResourceExhausted", "FailedPrecondition", "Internal",
             "Unavailable", "Unauthenticated"}

\* map_error_code_to_grpc and Status::from(FlareError)
StatusOf(e) ==
    CASE e \in {"AuthenticationFailed", "AuthenticationExpired", "AuthenticationInvalid",
                "AuthenticationRequired", "TokenInvalid", "TokenExpired"} -> "Unauthenticated"
      [] e = "PermissionDenied" -> "PermissionDenied"
      [] e \in {"InvalidParameter", "MessageFormatError", "InvalidCommand"} -> "InvalidArgument"
      [] e \in {"UserNotFound", "MessageNotFound"} -> "NotFound"
      [] e \in {"ResourceExhausted", "ConnectionLimitExceeded", "UserQuotaExceeded",
                "MessageRateLimitExceeded"} -> "ResourceExhausted"
      [] e \in {"ServiceUnavailable", "NetworkError", "NetworkUnreachable",
                "NetworkConnectionLost", "Io"} -> "Unavailable"
      [] e \in {"ConnectionTimeout", "NetworkTimeout", "OperationTimeout"} -> "DeadlineExceeded"
      [] e \in {"InternalError", "DatabaseError", "ConfigurationError", "SerializationError",
                "DeserializationError", "EncodingError", "System"} -> "Internal"
      [] e = "SyncCursorRegression" -> "FailedPrecondition"
      [] OTHER -> "Unknown"

\* FlareError::from(Status), which looks at nothing but the status code
Received(status) ==
    CASE status = "Unauthenticated" -> "AuthenticationFailed"
      [] status = "PermissionDenied" -> "PermissionDenied"
      [] status = "InvalidArgument" -> "InvalidParameter"
      [] status = "NotFound" -> "UserNotFound"
      [] status = "ResourceExhausted" -> "ResourceExhausted"
      [] status = "Internal" -> "InternalError"
      [] status = "Unavailable" -> "ServiceUnavailable"
      [] status = "DeadlineExceeded" -> "OperationTimeout"
      [] OTHER -> "UnknownError"

\* context, with_context and From<anyhow::Error>: only the text stays
Wrapped(e) == "System"

------------------------------------------------------------------------------
(***************************************************************************)
(* Messages and HTTP                                                       *)
(***************************************************************************)

\* to_error_detail: the number of the code, as i32
ToDetail(e) == Number[CodeOf(e)]

\* from_error_detail
FromDetail(n) == FromNumber(IF n < 0 THEN 0 ELSE n, "GeneralError")

\* mutant: a code is missing from the table
HttpStatusPartial(e) ==
    IF e \in DOMAIN HttpNumber \ {"HttpUnprocessableEntity"} THEN HttpNumber[e] ELSE 500

\* status_from_flare_error
HttpStatus(e) == IF e \in DOMAIN HttpNumber THEN HttpNumber[e] ELSE 500

IsHttpErrorCode(n) == n \in 400..599

\* ApiResponse::from(FlareError), the code in the body; 0 in that of a success
HttpBody(e) ==
    LET code == Number[CodeOf(e)] IN IF IsHttpErrorCode(code) THEN code ELSE 500

\* HttpApiError: made of an error, a status, or another error that is only a text
HttpErrors(e) == {e, Wrapped(e), "HttpInternalServerError"}
HttpErrorsOfStatus(status) == HttpErrors(Received(status)) \cup {"HttpBadGateway"}

==============================================================================
