------------------------------- MODULE Proxy -------------------------------
(***************************************************************************)
(* internal/proxy/proxy.go: Router.ServeHTTP, the retry loop that drives   *)
(* one backend's breaker stack (CompositeBreaker) for many concurrent      *)
(* requests.  Several routes may share the backend.                        *)
(*                                                                         *)
(* rpc[r] is where the handler goroutine of request r stands:              *)
(*    "new"        before matchRoute                                       *)
(*    "allow"      inside breaker.Allow                                    *)
(*    "loop"       at the top of the attempt loop                          *)
(*    "buffering"  non-final attempt: the backend answers into a buffer    *)
(*    "streaming"  final attempt: the backend answers to the client        *)
(*    "replay"     buffered answer accepted, to be copied to the client    *)
(*    "retry"      buffered answer rejected, to be dropped                 *)
(*    "backoff"    in time.Sleep                                           *)
(*    "unwind"     about to run the deferred calls                         *)
(*    "done"       the handler has returned                                *)
(* The backend, httputil.ReverseProxy and sync.Pool are external: the      *)
(* first two answer any status in time (every attempt has a deadline), or  *)
(* panic when the body breaks off, the pool hands out any idle buffer.     *)
(***************************************************************************)
EXTENDS Integers, Sequences, FiniteSets

CONSTANTS
    Requests,       \* handler goroutines; each serves one request after another
    Routes,         \* [RetryAttempts, FallbackStatus] of the routes to the backend
    Buffers,        \* the responseBuffers the pool ever hands out
    Statuses,       \* what the backend may answer
    Configs, InitialConfig, Scale, MaxElapsed, MaxConcurrent, SlowThreshold,
    Adaptive, LatencyCeiling, MinThreshold, Latencies   \* see CompositeBreaker

ASSUME ProxyAssumption ==
    /\ \A rt \in Routes : rt.RetryAttempts \in Int /\ rt.FallbackStatus \in Nat
    /\ IsFiniteSet(Requests) /\ Cardinality(Buffers) >= Cardinality(Requests)
    /\ Statuses \subseteq 200..999

VARIABLES
    state, window, head, count, failures, halfOpenSuccess, sinceOpened,
    windowSize, failureThreshold, resetTimeout, halfOpenMax,
    sem, ewmaLatency, resetting, pc, latency,
    rpc, route, attempt,
    cancelled,      \* r.Context() is done: client gone or global deadline passed
    buf,            \* the buffer the current attempt uses
    pool,           \* idle buffers, with what their last user left in them
    content,        \* buffer -> [status, written]
    reply,          \* the final statuses written to the client
    answers,        \* what the backend answered to the attempts, 1xx responses included
    reported,       \* the outcomes reported to the breaker, TRUE = failure
    active          \* the ActiveConnections gauge

stackVars == <<state, halfOpenSuccess, sinceOpened, window, head, count, failures,
               windowSize, failureThreshold, resetTimeout, halfOpenMax,
               sem, ewmaLatency, resetting, pc, latency>>
bufVars == <<buf, pool, content>>
ghost   == <<reply, answers, reported>>
vars    == <<stackVars, rpc, route, attempt, cancelled, bufVars, ghost, active>>

CB == INSTANCE CompositeBreaker WITH Callers <- Requests

\* The stack is one that NewComposite builds.
ASSUME StackAssumption == CB!LayerAssumption /\ CB!BreakerAssumption

NoBuffer == "none"
NoRoute  == [RetryAttempts |-> 0, FallbackStatus |-> 0]

isRetryable(s) == s \in {502, 503, 504}

MaxAttempts(r) ==
    LET n == route[r].RetryAttempts + 1 IN IF n < 1 THEN 1 ELSE n

Goto(r, label) == rpc' = [rpc EXCEPT ![r] = label]
Reply(r, s)    == reply' = [reply EXCEPT ![r] = Append(@, s)]

-----------------------------------------------------------------------------
Init ==
    /\ CB!Init
    /\ rpc = [r \in Requests |-> "new"]
    /\ route = [r \in Requests |-> NoRoute]
    /\ attempt = [r \in Requests |-> 0]
    /\ cancelled = [r \in Requests |-> FALSE]
    /\ buf = [r \in Requests |-> NoBuffer]
    /\ pool = Buffers
    /\ content = [b \in Buffers |-> [status |-> 0, written |-> FALSE]]
    /\ reply = [r \in Requests |-> <<>>]
    /\ answers = [r \in Requests |-> <<>>]
    /\ reported = [r \in Requests |-> <<>>]
    /\ active = 0

-----------------------------------------------------------------------------
\* No route matches, or the route does not list the method.
Refuse(r) ==
    /\ rpc[r] = "new"
    /\ \E s \in {404, 405} : Reply(r, s)
    /\ Goto(r, "done")
    /\ UNCHANGED <<stackVars, route, attempt, cancelled, bufVars, answers, reported, active>>

Match(r) ==
    /\ rpc[r] = "new"
    /\ \E rt \in Routes : route' = [route EXCEPT ![r] = rt]
    /\ Goto(r, "allow")
    /\ UNCHANGED <<stackVars, attempt, cancelled, bufVars, ghost, active>>

\* breaker.Allow, step by step.
AskBreaker(r) ==
    /\ rpc[r] = "allow"
    /\ \/ CB!TakeSlot(r) \/ CB!NoSlot(r) \/ CB!GiveBack(r)
       \/ \E ok \in BOOLEAN : CB!InnerAllow(r, ok)
    /\ UNCHANGED <<rpc, route, attempt, cancelled, bufVars, ghost, active>>

\* Allow returned false: the route's fallback, or 503.
Shed(r) ==
    /\ rpc[r] = "allow"
    /\ CB!Leave(r)
    /\ Reply(r, IF route[r].FallbackStatus # 0 THEN route[r].FallbackStatus ELSE 503)
    /\ Goto(r, "done")
    /\ UNCHANGED <<route, attempt, cancelled, bufVars, answers, reported, active>>

\* Allow returned true: Release and the gauge's Dec are deferred.
Enter(r) ==
    /\ rpc[r] = "allow" /\ pc[r] = "in"
    /\ active' = active + 1
    /\ attempt' = [attempt EXCEPT ![r] = 1]
    /\ Goto(r, "loop")
    /\ UNCHANGED <<stackVars, route, cancelled, bufVars, ghost>>

-----------------------------------------------------------------------------
\* Fault: the early return of a cancelled request skips the deferred Release.
GiveUpKeepsSlot(r) ==
    /\ rpc[r] = "loop" /\ cancelled[r]
    /\ Reply(r, 504)
    /\ Goto(r, "done")
    /\ active' = active - 1
    /\ UNCHANGED <<stackVars, route, attempt, cancelled, bufVars, answers, reported>>

\* The context is done before the next attempt: 504, nothing is recorded.
GiveUp(r) ==
    /\ rpc[r] = "loop" /\ cancelled[r]
    /\ Reply(r, 504)
    /\ Goto(r, "unwind")
    /\ UNCHANGED <<stackVars, route, attempt, cancelled, bufVars, answers, reported, active>>

StartFinal(r) ==
    /\ rpc[r] = "loop" /\ ~cancelled[r]
    /\ attempt[r] = MaxAttempts(r)
    /\ Goto(r, "streaming")
    /\ UNCHANGED <<stackVars, route, attempt, cancelled, bufVars, ghost, active>>

\* Fault: the buffer is used as its last user left it.
StartBufferedNoReset(r) ==
    /\ rpc[r] = "loop" /\ ~cancelled[r]
    /\ attempt[r] < MaxAttempts(r)
    /\ \E b \in pool : /\ buf' = [buf EXCEPT ![r] = b]
                       /\ pool' = pool \ {b}
                       /\ UNCHANGED content
    /\ Goto(r, "buffering")
    /\ UNCHANGED <<stackVars, route, attempt, cancelled, ghost, active>>

\* responseBufferPool.Get and Reset.
StartBuffered(r) ==
    /\ rpc[r] = "loop" /\ ~cancelled[r]
    /\ attempt[r] < MaxAttempts(r)
    /\ \E b \in pool : /\ buf' = [buf EXCEPT ![r] = b]
                       /\ pool' = pool \ {b}
                       /\ content' = [content EXCEPT ![b] = [status |-> 200, written |-> FALSE]]
    /\ Goto(r, "buffering")
    /\ UNCHANGED <<stackVars, route, attempt, cancelled, ghost, active>>

\* Fault: the status is not captured and stays the default.
CapturedNot(before, s) == [before EXCEPT !.written = TRUE]

\* WriteHeader of responseBuffer and responseRecorder: the first status counts.
Captured(before, s) == IF before.written THEN before ELSE [status |-> s, written |-> TRUE]

\* The statuses ReverseProxy writes for one attempt: a 1xx may come first, and
\* a transport error or an expired attempt becomes the ErrorHandler's 502.
Written(s) == {<<s>>, <<103, s>>}

\* What a writer that started as before holds after the statuses ws.
CapturedAll(before, ws) ==
    IF Len(ws) = 1 THEN Captured(before, ws[1])
                   ELSE Captured(Captured(before, ws[1]), ws[2])

\* The outcome of the attempt, as the captured status s shows it.
Report(r, s) ==
    /\ \E l \in Latencies : IF isRetryable(s) THEN CB!RecordFailure(r, l)
                                              ELSE CB!RecordSuccess(r, l)
    /\ reported' = [reported EXCEPT ![r] = Append(@, isRetryable(s))]

Answered(r, ws) == answers' = [answers EXCEPT ![r] = Append(@, ws)]

\* The backend has answered a non-final attempt; its status decides whether the
\* answer is replayed or the request retried.
BufferedAnswer(r) ==
    /\ rpc[r] = "buffering"
    /\ \E s \in Statuses \cup {502} : \E ws \in Written(s) :
         LET after == CapturedAll(content[buf[r]], ws)
         IN  /\ content' = [content EXCEPT ![buf[r]] = after]
             /\ Report(r, after.status)
             /\ Answered(r, ws)
             /\ Goto(r, IF isRetryable(after.status) THEN "retry" ELSE "replay")
    /\ UNCHANGED <<route, attempt, cancelled, buf, pool, reply, active>>

\* The final attempt answers the client; the recorder's status is reported.
StreamedAnswer(r) ==
    /\ rpc[r] = "streaming"
    /\ \E s \in Statuses \cup {502} : \E ws \in Written(s) :
         /\ Report(r, CapturedAll([status |-> 200, written |-> FALSE], ws).status)
         /\ Answered(r, ws)
         /\ Reply(r, s)
    /\ Goto(r, "unwind")
    /\ UNCHANGED <<route, attempt, cancelled, bufVars, active>>

\* ReverseProxy panics in the middle of the body: nothing is recorded, a buffer
\* is not put back (the pool makes a new one), and a client that was being
\* streamed to has seen the header.
Abort(r) ==
    /\ \/ /\ rpc[r] = "buffering"
          /\ pool' = pool \cup {buf[r]}
          /\ content' = [content EXCEPT ![buf[r]] = [status |-> 0, written |-> FALSE]]
          /\ buf' = [buf EXCEPT ![r] = NoBuffer]
          /\ UNCHANGED <<reply, answers>>
       \/ /\ rpc[r] = "streaming"
          /\ \E s \in Statuses : Reply(r, s)
          /\ UNCHANGED <<bufVars, answers>>
    /\ Goto(r, "unwind")
    /\ UNCHANGED <<stackVars, route, attempt, cancelled, reported, active>>

-----------------------------------------------------------------------------
PutBack(r) ==
    /\ pool' = pool \cup {buf[r]}
    /\ buf' = [buf EXCEPT ![r] = NoBuffer]
    /\ UNCHANGED content

\* Fault: an accepted answer is followed by one more attempt.
ReplayRetries(r) ==
    /\ rpc[r] = "replay" /\ pc[r] = "in"
    /\ PutBack(r)
    /\ attempt' = [attempt EXCEPT ![r] = @ + 1]
    /\ Goto(r, "loop")
    /\ UNCHANGED <<stackVars, route, cancelled, ghost, active>>

\* replayTo: WriteHeader(statusCode) and Write(body).  After a 1xx status the
\* Write makes it a 200.
Replay(r) ==
    /\ rpc[r] = "replay" /\ pc[r] = "in"
    /\ LET s == content[buf[r]].status IN Reply(r, IF s = 103 THEN 200 ELSE s)
    /\ PutBack(r)
    /\ Goto(r, "unwind")
    /\ UNCHANGED <<stackVars, route, attempt, cancelled, answers, reported, active>>

Drop(r) ==
    /\ rpc[r] = "retry" /\ pc[r] = "in"
    /\ PutBack(r)
    /\ Goto(r, "backoff")
    /\ UNCHANGED <<stackVars, route, attempt, cancelled, ghost, active>>

\* Fault: only the end of the context ends the sleep.
WakeNever(r) ==
    /\ rpc[r] = "backoff" /\ cancelled[r]
    /\ attempt' = [attempt EXCEPT ![r] = @ + 1]
    /\ Goto(r, "loop")
    /\ UNCHANGED <<stackVars, route, cancelled, bufVars, ghost, active>>

\* The sleep ends; it does not watch the context.
Wake(r) ==
    /\ rpc[r] = "backoff"
    /\ attempt' = [attempt EXCEPT ![r] = @ + 1]
    /\ Goto(r, "loop")
    /\ UNCHANGED <<stackVars, route, cancelled, bufVars, ghost, active>>

\* The adaptive layer's second half of Record, while the handler waits in it.
FinishRecord(r) ==
    /\ CB!UpdateThreshold(r)
    /\ UNCHANGED <<rpc, route, attempt, cancelled, bufVars, ghost, active>>

\* The deferred calls: the gauge's Dec and breaker.Release.
Unwind(r) ==
    /\ rpc[r] = "unwind"
    /\ CB!Release(r)
    /\ active' = active - 1
    /\ Goto(r, "done")
    /\ UNCHANGED <<route, attempt, cancelled, bufVars, ghost>>

-----------------------------------------------------------------------------
Cancel(r) ==
    /\ rpc[r] \notin {"new", "done"} /\ ~cancelled[r]
    /\ cancelled' = [cancelled EXCEPT ![r] = TRUE]
    /\ UNCHANGED <<stackVars, rpc, route, attempt, bufVars, ghost, active>>

\* The next request.
Again(r) ==
    /\ rpc[r] = "done"
    /\ Goto(r, "new")
    /\ route' = [route EXCEPT ![r] = NoRoute]
    /\ attempt' = [attempt EXCEPT ![r] = 0]
    /\ cancelled' = [cancelled EXCEPT ![r] = FALSE]
    /\ reply' = [reply EXCEPT ![r] = <<>>]
    /\ answers' = [answers EXCEPT ![r] = <<>>]
    /\ reported' = [reported EXCEPT ![r] = <<>>]
    /\ UNCHANGED <<stackVars, bufVars, active>>

\* A reload of the breaker's parameters, and time.
Background ==
    /\ CB!Tick \/ \E cfg \in Configs : CB!UpdateConfig(cfg)
    /\ UNCHANGED <<rpc, route, attempt, cancelled, bufVars, ghost, active>>

\* One step of the handler of r.
Handle(r) ==
    \/ Refuse(r) \/ Match(r) \/ AskBreaker(r) \/ Shed(r) \/ Enter(r)
    \/ GiveUp(r) \/ StartFinal(r) \/ StartBuffered(r)
    \/ BufferedAnswer(r) \/ StreamedAnswer(r) \/ Abort(r)
    \/ Replay(r) \/ Drop(r) \/ Wake(r) \/ FinishRecord(r) \/ Unwind(r)

Next ==
    \/ \E r \in Requests : Handle(r) \/ Cancel(r) \/ Again(r)
    \/ Background

Spec == Init /\ [][Next]_vars

FairSpec == Spec /\ \A r \in Requests : WF_vars(Handle(r))

-----------------------------------------------------------------------------
\* The handler's own variables are of their type.
TypeOK ==
    /\ rpc \in [Requests -> {"new", "allow", "loop", "buffering", "streaming",
                             "replay", "retry", "backoff", "unwind", "done"}]
    /\ buf \in [Requests -> Buffers \cup {NoBuffer}]
    /\ pool \subseteq Buffers
    /\ \A r \in Requests : attempt[r] \in 0..MaxAttempts(r)
    /\ active \in 0..Cardinality(Requests)
    /\ cancelled \in [Requests -> BOOLEAN]

\* bulkhead.go:36-38, 60-61: "If Allow returns true, the caller MUST call Release
\* when the request completes", "exactly once".  On every way out of ServeHTTP
\* (replay, stream, cancellation, panic) the slot goes back and the gauge goes
\* down, and neither happens while the request still talks to the backend.
SlotsFollowRequests ==
    /\ TypeOK
    /\ MaxConcurrent > 0 =>
          sem = Cardinality({r \in Requests : /\ rpc[r] \notin {"new", "done"}
                                              /\ pc[r] \notin {"idle", "out"}})
    /\ active = Cardinality({r \in Requests : rpc[r] \notin {"new", "allow", "done"}})

\* The final status of an answer, and whether it came without a 1xx before it.
Final(ws) == ws[Len(ws)]
Plain(ws) == Len(ws) = 1

\* A client gets at most one response, and when the last attempt was answered it
\* is that answer: no earlier attempt's answer and nothing another request left
\* in a pooled buffer shows through.  (responseBuffer keeps the first status it
\* is given, so an answer that a 1xx preceded is not promised to show.)
OneTruthfulReply ==
    \A r \in Requests :
        /\ Len(reply[r]) <= 1
        /\ (rpc[r] = "done" /\ attempt[r] > 0 /\ Len(answers[r]) = attempt[r])
           => LET ws == answers[r][attempt[r]]
              IN  Plain(ws) => reply[r] = <<Final(ws)>>

\* PERFORMANCE_REVIEW.md #1, "The backend is now hit exactly once on success",
\* and the retry budget: every attempt but the last failed in a retryable way,
\* and there are at most RetryAttempts + 1 of them.
RetriesJustified ==
    \A r \in Requests :
        /\ Len(answers[r]) <= MaxAttempts(r)
        /\ \A i \in 1..(Len(answers[r]) - 1) : isRetryable(Final(answers[r][i]))

\* Every answered attempt is reported to the breaker once, in order, and with the
\* outcome the backend's final status calls for (unless a 1xx came before it):
\* the window the breaker decides on is the history of what the backend did.
ReportsMatchAnswers ==
    \A r \in Requests :
        /\ Len(reported[r]) = Len(answers[r])
        /\ \A i \in 1..Len(answers[r]) :
              Plain(answers[r][i]) => reported[r][i] = isRetryable(Final(answers[r][i]))

\* Every request is answered and returns, whatever the circuit, the other
\* requests and its own cancellation do.
EveryRequestReturns == \A r \in Requests : (rpc[r] = "allow") ~> (rpc[r] = "done")
=============================================================================
