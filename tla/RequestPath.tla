---------------------------- MODULE RequestPath -----------------------------
(***************************************************************************)
(* The middleware chain of gateway.go around one request: Recovery and     *)
(* Deadline as in module Deadline, and inside its handler, in this order,  *)
(* Logging (logging.go), CORS (cors.go), BodyLimit (bodylimit.go), the     *)
(* rate limiter's verdict, Auth (auth.go) and the router.  Every action is *)
(* one of Deadline's joined with what it means for the chain, or a step of *)
(* the handler of its own.                                                 *)
(*                                                                         *)
(* A request is a record: options, whether it is OPTIONS; body, the number *)
(* of its bytes; declared, whether Content-Length says so; text, whether   *)
(* its type is logged; level, the route's log level; admitted, what the    *)
(* limiter will say; secured, whether auth is on and the route asks for    *)
(* it; token, {} when there is none in the header, or whether it is valid  *)
(* and its scopes.  Bytes are numbered: the body is 1, 2, ...              *)
(* A write of the handler is a status, or 0 for a piece of the body.       *)
(***************************************************************************)
EXTENDS Deadline, SequencesExt

CONSTANTS
    Inputs,         \* request -> what its client may send
    Replies,        \* the sequences of writes a router may make
    MaxBody,        \* server.max_body_bytes
    MaxBodyLog,     \* logging.max_body_log_bytes
    Scopes          \* auth.scopes

\* Statuses that net/http sends at once and does not take for the answer.
Informational == (100..199) \ {101}

\* How the router writes: informational statuses, then at most one final status, then the
\* body.  A response that was buffered is replayed as its first status and its body, even if
\* that status was informational.
WellFormed(writes) ==
    /\ writes \in Seq(Nat)
    /\ \A i, j \in 1..Len(writes) : i < j /\ writes[i] \notin Informational => writes[j] = 0

ASSUME ChainAssumption ==
    /\ MaxBody \in Nat \ {0} /\ MaxBodyLog \in Nat \ {0} /\ IsFiniteSet(Scopes)
    /\ \A r \in Requests : \A q \in Inputs[r] : q.body \in Nat
    /\ \A reply \in Replies : WellFormed(reply)

VARIABLES
    logBody,        \* logging.body_logging (never changes)
    at,             \* request -> where its handler is in the chain: "off", "logging", "chain",
                    \*   "reply", "end"
    req,            \* request -> what the client sent, as a set of at most one
    body,           \* request -> r.Body: the bytes that the next reader gets
    reqBody,        \* request -> what Logging will log of the body
    out,            \* request -> the writes its handler still makes
    sent,           \* request -> the writes its handler has made
    recorded,       \* request -> statusRecorder.statusCode
    capture,        \* request -> bodyCapture.buf: whose response the bytes are of
    pool,           \* bodyCapturePool: what the buffers in it still hold
    logged,         \* request -> its line in the access log, as a set of at most one
    upstream        \* request -> the body that the router read, as a set of at most one

chainVars == <<logBody, at, req, body, reqBody, out, sent, recorded, capture, pool, logged, upstream>>
allVars   == <<vars, chainVars>>

InitChain ==
    /\ Init
    /\ logBody \in BOOLEAN
    /\ at = [r \in Requests |-> "off"] /\ req = [r \in Requests |-> {}]
    /\ body = [r \in Requests |-> <<>>] /\ reqBody = [r \in Requests |-> <<>>]
    /\ out = [r \in Requests |-> <<>>] /\ sent = [r \in Requests |-> <<>>]
    /\ recorded = [r \in Requests |-> 200] /\ capture = [r \in Requests |-> <<>>]
    /\ pool = {}
    /\ logged = [r \in Requests |-> {}] /\ upstream = [r \in Requests |-> {}]

Bytes(n) == [i \in 1..n |-> i]

First(s, n) == SubSeq(s, 1, IF Len(s) < n THEN Len(s) ELSE n)

-----------------------------------------------------------------------------
Enter(r) ==
    /\ Start(r)
    /\ \E q \in Inputs[r] : req' = Set(req, r, {q}) /\ body' = Set(body, r, Bytes(q.body))
    /\ at' = Set(at, r, "logging")
    /\ UNCHANGED <<logBody, reqBody, out, sent, recorded, capture, pool, logged, upstream>>

\* Fault: what is captured is gone from the body.
captureRequestBodyConsumes(b) ==
    LET captured == First(b, MaxBodyLog + 1)
    IN  [log |-> First(captured, MaxBodyLog), body |-> SubSeq(b, Len(captured) + 1, Len(b))]

\* captureRequestBody: one byte more than is logged is read, and put back in front of
\* what is left.
captureRequestBody(b) ==
    LET captured == First(b, MaxBodyLog + 1)
    IN  [log |-> First(captured, MaxBodyLog),
         body |-> captured \o SubSeq(b, Len(captured) + 1, Len(b))]

\* Fault: a buffer from the pool is used as it is.
ResetNot(buf) == buf

\* bodyCapture.Reset
Reset(buf) == <<>>

\* Logging, on the way in, for a level other than none: the request's body is captured if
\* it is text, and a buffer for the response is taken from the pool or made.
LogIn(r) ==
    /\ at[r] = "logging" /\ hpc[r] = "run" /\ \E q \in req[r] : q.level # "none"
    /\ at' = Set(at, r, "chain")
    /\ IF logBody /\ \E q \in req[r] : q.text
       THEN LET c == captureRequestBody(body[r])
            IN  body' = Set(body, r, c.body) /\ reqBody' = Set(reqBody, r, c.log)
       ELSE UNCHANGED <<body, reqBody>>
    /\ \/ UNCHANGED <<pool, capture>>
       \/ \E buf \in pool :
            logBody /\ pool' = pool \ {buf} /\ capture' = Set(capture, r, Reset(buf))
    /\ UNCHANGED <<vars, logBody, req, out, sent, recorded, logged, upstream>>

\* Logging, for level none.
LogSkip(r) ==
    /\ at[r] = "logging" /\ hpc[r] = "run" /\ \E q \in req[r] : q.level = "none"
    /\ at' = Set(at, r, "chain")
    /\ UNCHANGED <<vars, logBody, req, body, reqBody, out, sent, recorded, capture, pool, logged, upstream>>

-----------------------------------------------------------------------------
\* CORS answers every OPTIONS request itself.
Preflight(q) == q.options

\* BodyLimit, for a body that says how long it is.
TooLarge(q) == q.declared /\ q.body > MaxBody

\* auth.Middleware: no bearer token, one that does not verify (a matter of the jwt
\* library: HS256, secret, issuer, audience, expiry), one without a required scope.
Unauthorized(q) ==
    q.secured /\ \/ q.token = {}
                 \/ \E t \in q.token : ~t.valid

InsufficientScope(q) == q.secured /\ ~Unauthorized(q) /\ \E t \in q.token : ~(Scopes \subseteq t.scopes)

\* What the chain answers instead of the router, in its order; <<>> lets the request pass.
Verdict(q) ==
    IF Preflight(q) THEN <<204>>
    ELSE IF TooLarge(q) THEN <<413, 0>>
    ELSE IF ~q.admitted THEN <<429, 0>>
    ELSE IF Unauthorized(q) THEN <<401, 0>>
    ELSE IF InsufficientScope(q) THEN <<403, 0>>
    ELSE <<>>

Refuse(r) ==
    /\ at[r] = "chain" /\ hpc[r] = "run"
    /\ \E q \in req[r] : Verdict(q) # <<>> /\ out' = Set(out, r, Verdict(q))
    /\ at' = Set(at, r, "reply")
    /\ UNCHANGED <<vars, logBody, req, body, reqBody, sent, recorded, capture, pool, logged, upstream>>

\* The request passes; the router reads the body, through MaxBytesReader, and will
\* answer something.
Route(r) ==
    /\ at[r] = "chain" /\ hpc[r] = "run" /\ \E q \in req[r] : Verdict(q) = <<>>
    /\ upstream' = Set(upstream, r, {[bytes |-> First(body[r], MaxBody), whole |-> Len(body[r]) <= MaxBody]})
    /\ body' = Set(body, r, <<>>)
    /\ \E reply \in Replies : out' = Set(out, r, reply)
    /\ at' = Set(at, r, "reply")
    /\ UNCHANGED <<vars, logBody, req, reqBody, sent, recorded, capture, pool, logged>>

-----------------------------------------------------------------------------
Logs(r) == \E q \in req[r] : q.level # "none"

\* A write of the handler: deadlineWriter's claim comes first,
BeginWrite(r) ==
    /\ at[r] = "reply" /\ out[r] # <<>>
    /\ HandlerClaim(r)
    /\ UNCHANGED chainVars

\* and the recorders have it before the client has.
EndWrite(r) ==
    /\ HandlerWrite(r)
    /\ LET write == Head(out[r])
       IN  /\ sent' = Set(sent, r, Append(sent[r], write))
           /\ recorded' = IF Logs(r) /\ write # 0 THEN Set(recorded, r, write) ELSE recorded
           /\ capture' = IF Logs(r) /\ logBody /\ write = 0
                         THEN Set(capture, r, First(Append(capture[r], r), MaxBodyLog)) ELSE capture
    /\ out' = Set(out, r, Tail(out[r]))
    /\ UNCHANGED <<logBody, at, req, body, reqBody, pool, logged, upstream>>

\* Logging, on the way out: the line is written and the buffer goes back to the pool.
LogOut(r) ==
    /\ at[r] = "reply" /\ hpc[r] = "run" /\ out[r] = <<>>
    /\ at' = Set(at, r, "end")
    /\ IF Logs(r)
       THEN /\ logged' = Set(logged, r, {[status |-> recorded[r], request |-> reqBody[r], response |-> capture[r]]})
            /\ pool' = IF logBody THEN pool \cup {capture[r]} ELSE pool
       ELSE UNCHANGED <<logged, pool>>
    /\ UNCHANGED <<vars, logBody, req, body, reqBody, out, sent, recorded, capture, upstream>>

\* The handler returns, and what it kept of the request is gone.
Return(r) ==
    /\ at[r] = "end"
    /\ HandlerReturn(r)
    /\ at' = Set(at, r, "off") /\ req' = Set(req, r, {})
    /\ reqBody' = Set(reqBody, r, <<>>) /\ body' = Set(body, r, <<>>)
    /\ sent' = Set(sent, r, <<>>) /\ recorded' = Set(recorded, r, 200) /\ capture' = Set(capture, r, <<>>)
    /\ logged' = Set(logged, r, {}) /\ upstream' = Set(upstream, r, {})
    /\ UNCHANGED <<logBody, out, pool>>

\* The router panics (ReverseProxy does when the backend's body breaks off); nothing
\* is logged and the buffer is not put back.
Panic(r) == at[r] = "reply" /\ upstream[r] # {} /\ HandlerPanic(r) /\ UNCHANGED chainVars

-----------------------------------------------------------------------------
Chain(r) ==
    \/ LogIn(r) \/ LogSkip(r) \/ Refuse(r) \/ Route(r)
    \/ BeginWrite(r) \/ EndWrite(r) \/ LogOut(r) \/ Return(r) \/ Panic(r)

Middleware(r) == Step(r) /\ UNCHANGED chainVars

NextChain == \E r \in Requests :
    Enter(r) \/ (Expire(r) /\ UNCHANGED chainVars) \/ Middleware(r) \/ Chain(r)

\* Goroutines are scheduled, and the router answers or panics in the end.
ChainSpec ==
    /\ InitChain /\ [][NextChain]_allVars
    /\ \A r \in Requests : WF_allVars(Middleware(r)) /\ WF_allVars(Chain(r))

-----------------------------------------------------------------------------
\* The status the client gets from these writes: the first that is final, or the
\* implicit 200.
ClientStatus(writes) ==
    LET final == {i \in DOMAIN writes : writes[i] \notin Informational}
        first == CHOOSE i \in final : \A j \in final : i <= j
    IN  IF final = {} \/ writes[first] = 0 THEN 200 ELSE writes[first]

\* The access log tells the truth: unless the deadline answered for the handler, the
\* status is the one the client got, be it implicit or sent after 1xx responses; the
\* one exception is a line with an informational status, which replayTo (proxy.go:443-444)
\* causes and which stands for an implicit 200; the logged response is of this request,
\* though buffers are shared through a pool; and the logged part of the request is the
\* beginning of what the client sent.
LogTruthful ==
    \A r \in Requests : \A line \in logged[r] :
        /\ "deadline" \notin ToSet(wire[r]) =>
             ClientStatus(sent[r]) = IF line.status \in Informational THEN 200 ELSE line.status
        /\ ToSet(line.response) \subseteq {r} /\ Len(line.response) <= MaxBodyLog
        /\ \A q \in req[r] : IsPrefix(line.request, Bytes(q.body)) /\ Len(line.request) <= MaxBodyLog

\* The upstream sees only what passed every check, and of that the body the client sent,
\* byte for byte, though Logging read part of it before: all of it, or, when it is longer
\* than the limit and did not say so, what fits, followed by an error.
UpstreamSees ==
    \A r \in Requests : \A u \in upstream[r], q \in req[r] :
        /\ ~q.options /\ q.admitted
        /\ q.secured => \E t \in q.token : t.valid /\ Scopes \subseteq t.scopes
        /\ u.bytes = First(Bytes(q.body), MaxBody) /\ (u.whole <=> u.bytes = Bytes(q.body))
        /\ q.declared => u.whole
=============================================================================
