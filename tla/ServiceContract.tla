-------------------------- MODULE ServiceContract --------------------------
(***************************************************************************)
(* What the service-operation contract of crates/common/src/lib.rs says    *)
(* of one response, shared by the two transports that speak it: the        *)
(* persistent TLS channel and the JetStream operation.                     *)
(*                                                                         *)
(* A response is abstracted to the facts decode_service_response tells     *)
(* apart: the operation it names, its body class, and whose alarms it      *)
(* carries (identified with the bearer they were looked up for).           *)
(***************************************************************************)

CONSTANTS
  Request,    \* dashboard requests, each with the fresh Uuid of its operation
  NoRequest,  \* the operation id of a response that names no request
  Token,      \* bearers, and so the subjects they introspect to
  NoToken,    \* "no alarms in this response"
  Bearer      \* the bearer each request presents

ASSUME IdentityAssumption ==
  /\ NoRequest \notin Request
  /\ NoToken \notin Token
  /\ Bearer \in [Request -> Token]

\* What a response body can be to its reader.  "malformed" fails to parse or
\* carries another schema; "okWithError" is status Ok with an error present;
\* "oversized" is longer than MAX_RESPONSE_BYTES.
Body == {"ok", "okWithError", "unauthorized", "invalid", "unavailable",
         "malformed", "oversized"}

\* The bodies of an API that keeps its side of the contract.
ConformingBody == {"ok", "unauthorized", "unavailable"}

Response == [op : Request \cup {NoRequest}, body : Body,
             alarms : Token \cup {NoToken}]

\* The outcome of one alarm fetch: Ok(alarms), one of the WebError variants a
\* fetch can return, or "none" while there is no outcome yet.
Result == [kind : {"none", "ok", "Unauthorized", "ApiUnavailable", "Contract"},
           alarms : Token \cup {NoToken}]

NoResult     == [kind |-> "none", alarms |-> NoToken]
Served(t)    == [kind |-> "ok",   alarms |-> t]
Failed(kind) == [kind |-> kind,   alarms |-> NoToken]

\* Mutant: the decoder forgets to compare operation ids.
DecodeUncorrelated(resp, op) ==
  CASE resp.body \in {"oversized", "malformed", "okWithError"} -> Failed("Contract")
    [] resp.body = "ok"                        -> Served(resp.alarms)
    [] resp.body = "unauthorized"              -> Failed("Unauthorized")
    [] resp.body \in {"invalid", "unavailable"} -> Failed("ApiUnavailable")

\* The result a reader of operation op takes from response resp.
DecodeServiceResponse(resp, op) ==
  CASE resp.body \in {"oversized", "malformed"}        -> Failed("Contract")
    [] resp.body \notin {"oversized", "malformed"} /\ resp.op # op
                                                       -> Failed("Contract")
    [] resp.body = "ok" /\ resp.op = op                -> Served(resp.alarms)
    [] resp.body = "unauthorized" /\ resp.op = op      -> Failed("Unauthorized")
    [] resp.body \in {"invalid", "unavailable"} /\ resp.op = op
                                                       -> Failed("ApiUnavailable")
    [] resp.body = "okWithError" /\ resp.op = op       -> Failed("Contract")

=============================================================================
