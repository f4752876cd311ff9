----------------------------- MODULE Deadline -----------------------------
(***************************************************************************)
(* internal/middleware/deadline.go under internal/middleware/recovery.go:  *)
(* the global request deadline.  The rest of the chain runs in a goroutine *)
(* of its own (hpc) and races with the middleware (mpc) for the client's   *)
(* ResponseWriter.  wire[r] is the order in which the two write to it.     *)
(***************************************************************************)
EXTENDS Integers, Sequences, FiniteSets

CONSTANTS
    Requests,
    MaxWrites       \* bound on the WriteHeader/Write calls of one handler

ASSUME DeadlineAssumption == MaxWrites \in Nat

VARIABLES
    timeout,    \* global_timeout_ms > 0: the middleware is enabled (never changes)
    mpc,        \* the middleware: "idle", "direct", "select", "claim", "write",
                \*   "wait", "returned"; "gone": the process has ended
    hpc,        \* the handler: "off", "run", "writing", "done", "gone"
    expired,    \* ctx.Done() is closed
    claimed,    \* deadlineWriter.claimed
    wire        \* the writers that have written to the client, in order

vars == <<timeout, mpc, hpc, expired, claimed, wire>>

Set(f, r, v) == [f EXCEPT ![r] = v]

Writes(r, who) == Cardinality({i \in 1..Len(wire[r]) : wire[r][i] = who})

-----------------------------------------------------------------------------
Init ==
    /\ timeout \in BOOLEAN
    /\ mpc = [r \in Requests |-> "idle"]
    /\ hpc = [r \in Requests |-> "off"]
    /\ expired = [r \in Requests |-> FALSE]
    /\ claimed = [r \in Requests |-> FALSE]
    /\ wire = [r \in Requests |-> <<>>]

\* Deadline: the handler in a goroutine, or called directly when disabled.
Start(r) ==
    /\ mpc[r] = "idle"
    /\ mpc' = Set(mpc, r, IF timeout THEN "select" ELSE "direct")
    /\ hpc' = Set(hpc, r, "run")
    /\ UNCHANGED <<timeout, expired, claimed, wire>>

\* The deadline passes, or the client goes away.
Expire(r) ==
    /\ mpc[r] \in {"select", "direct"} /\ ~expired[r]
    /\ expired' = Set(expired, r, TRUE)
    /\ UNCHANGED <<timeout, mpc, hpc, claimed, wire>>

-----------------------------------------------------------------------------
\* deadlineWriter.WriteHeader and Write, first half: Store(true), which does not
\* look at who had claimed before.
HandlerClaim(r) ==
    /\ hpc[r] = "run" /\ Writes(r, "handler") < MaxWrites
    /\ claimed' = IF timeout THEN Set(claimed, r, TRUE) ELSE claimed
    /\ hpc' = Set(hpc, r, "writing")
    /\ UNCHANGED <<timeout, mpc, expired, wire>>

\* Second half: the underlying writer.
HandlerWrite(r) ==
    /\ hpc[r] = "writing"
    /\ wire' = [wire EXCEPT ![r] = Append(@, "handler")]
    /\ hpc' = Set(hpc, r, "run")
    /\ UNCHANGED <<timeout, mpc, expired, claimed>>

\* The handler returns; close(done), or the direct call returns.
HandlerReturn(r) ==
    /\ hpc[r] = "run"
    /\ hpc' = Set(hpc, r, "done")
    /\ mpc' = IF timeout THEN mpc ELSE Set(mpc, r, "returned")
    /\ UNCHANGED <<timeout, expired, claimed, wire>>

\* The handler panics.  Recovery's deferred recover is in the goroutine of the
\* middleware: it answers 500 for a direct call, and never sees a panic of the
\* other goroutine, which ends the process with all its requests.
HandlerPanic(r) ==
    /\ hpc[r] = "run"
    /\ IF timeout
       THEN /\ mpc' = [x \in Requests |-> "gone"]
            /\ hpc' = [x \in Requests |-> "gone"]
            /\ UNCHANGED wire
       ELSE /\ wire' = [wire EXCEPT ![r] = Append(@, "recovery")]
            /\ hpc' = Set(hpc, r, "done")
            /\ mpc' = Set(mpc, r, "returned")
    /\ UNCHANGED <<timeout, expired, claimed>>

-----------------------------------------------------------------------------
SelectDone(r) ==
    /\ mpc[r] = "select" /\ hpc[r] = "done"
    /\ mpc' = Set(mpc, r, "returned")
    /\ UNCHANGED <<timeout, hpc, expired, claimed, wire>>

SelectExpired(r) ==
    /\ mpc[r] = "select" /\ expired[r]
    /\ mpc' = Set(mpc, r, "claim")
    /\ UNCHANGED <<timeout, hpc, expired, claimed, wire>>

\* Fault: the middleware waits for a free response instead of giving way.
ClaimSpins(r) ==
    /\ mpc[r] = "claim" /\ ~claimed[r]
    /\ claimed' = Set(claimed, r, TRUE)
    /\ mpc' = Set(mpc, r, "write")
    /\ UNCHANGED <<timeout, hpc, expired, wire>>

\* tryClaimWrite: CompareAndSwap(false, true).
Claim(r) ==
    /\ mpc[r] = "claim"
    /\ claimed' = Set(claimed, r, TRUE)
    /\ mpc' = Set(mpc, r, IF claimed[r] THEN "wait" ELSE "write")
    /\ UNCHANGED <<timeout, hpc, expired, wire>>

\* apierror.WriteJSON with 504, on the underlying writer.
Write504(r) ==
    /\ mpc[r] = "write"
    /\ wire' = [wire EXCEPT ![r] = Append(@, "deadline")]
    /\ mpc' = Set(mpc, r, "wait")
    /\ UNCHANGED <<timeout, hpc, expired, claimed>>

\* Fault: the middleware returns without waiting for the handler.
WaitNot(r) ==
    /\ mpc[r] = "wait"
    /\ mpc' = Set(mpc, r, "returned")
    /\ UNCHANGED <<timeout, hpc, expired, claimed, wire>>

\* <-done
Wait(r) ==
    /\ mpc[r] = "wait" /\ hpc[r] = "done"
    /\ mpc' = Set(mpc, r, "returned")
    /\ UNCHANGED <<timeout, hpc, expired, claimed, wire>>

-----------------------------------------------------------------------------
Step(r) ==
    \/ SelectDone(r) \/ SelectExpired(r) \/ Claim(r) \/ Write504(r) \/ Wait(r)

Handler(r) ==
    HandlerClaim(r) \/ HandlerWrite(r) \/ HandlerReturn(r) \/ HandlerPanic(r)

Next == \E r \in Requests : Start(r) \/ Expire(r) \/ Step(r) \/ Handler(r)

Spec == Init /\ [][Next]_vars

-----------------------------------------------------------------------------
\* Every variable has its type.
TypeOK ==
    /\ timeout \in BOOLEAN
    /\ mpc \in [Requests -> {"idle", "direct", "select", "claim", "write", "wait", "returned", "gone"}]
    /\ hpc \in [Requests -> {"off", "run", "writing", "done", "gone"}]
    /\ expired \in [Requests -> BOOLEAN] /\ claimed \in [Requests -> BOOLEAN]
    /\ \A r \in Requests : Writes(r, "deadline") <= 1 /\ Writes(r, "handler") <= MaxWrites

\* deadline.go:42-43, "Wait for handler goroutine to finish to avoid leaks": the
\* ResponseWriter dies with ServeHTTP, so once the middleware has returned no
\* goroutine of the request can still write to it.  And a request whose deadline
\* passed without a byte from the handler is told so: whoever claims the response
\* also writes, and the middleware stays until then.
NoWriterOutlives ==
    /\ TypeOK
    /\ \A r \in Requests : mpc[r] = "returned" => hpc[r] = "done"
    /\ \A r \in Requests : (mpc[r] = "wait" /\ hpc[r] = "done") => wire[r] # <<>>

\* Every request that entered returns, unless the process is gone.
EveryRequestReturns ==
    \A r \in Requests : (mpc[r] \in {"select", "direct"}) ~> (mpc[r] \in {"returned", "gone"})

\* gateway.go:155-156, "Recovery must wrap everything": a panic of a handler is
\* recovered.
PanicsRecovered == \A r \in Requests : mpc[r] # "gone"
=============================================================================
