----------------------------- MODULE ProxyProofs -----------------------------
(***************************************************************************)
(* The retry loop of proxy.go, for any number of requests, routes,         *)
(* buffers and any backend.                                                *)
(*                                                                         *)
(* Every step of the proxy is a step of the breaker stack or leaves it     *)
(* alone.  The invariant relates, request by request, where the handler    *)
(* stands (rpc), where it stands in the stack (pc), and what the attempts  *)
(* so far were answered; the slots and the gauge are counts over all       *)
(* requests.                                                               *)
(***************************************************************************)
EXTENDS Proxy, FiniteSetTheorems, SequenceTheorems, TLAPS

CBP == INSTANCE CompositeBreakerProofs WITH Callers <- Requests

Places == {"new", "allow", "loop", "buffering", "streaming", "replay", "retry", "backoff", "unwind", "done"}
Labels == {"idle", "slot", "refused", "in", "adapt", "out"}
Inside == {"slot", "refused", "in", "adapt"}        \* holds a bulkhead slot
Served == Places \ {"new", "allow", "done"}         \* is counted by the gauge

Count(f, S) == Cardinality({r \in Requests : f[r] \in S})

Fresh   == [status |-> 200, written |-> FALSE]
Answers == UNION {Written(s) : s \in Statuses \cup {502}}

Holds(r) == rpc[r] \in {"buffering", "replay", "retry"}     \* has a buffer

\* Where the handler stands in the breaker stack.
Stacked(r) ==
    /\ rpc[r] \in {"new", "done"} => pc[r] = "idle"
    /\ rpc[r] = "allow" => pc[r] # "adapt"
    /\ rpc[r] \in {"loop", "buffering", "streaming", "backoff"} => pc[r] = "in"
    /\ rpc[r] \in {"replay", "retry", "unwind"} => pc[r] \in {"in", "adapt"}

\* The outcomes reported are those of the answers.
History(r) ==
    /\ answers[r] \in Seq(Answers) /\ reported[r] \in Seq(BOOLEAN)
    /\ Len(reported[r]) = Len(answers[r])
    /\ \A i \in 1..Len(answers[r]) :
          Plain(answers[r][i]) => reported[r][i] = isRetryable(Final(answers[r][i]))

\* The first n answers called for another attempt.
Failed(r, n) == \A i \in 1..n : isRetryable(Final(answers[r][i]))

\* What has happened by the time the handler stands where it does.
Placed(r) ==
    /\ rpc[r] \in {"new", "allow"} => attempt[r] = 0 /\ Len(answers[r]) = 0
    /\ rpc[r] \notin {"unwind", "done"} => reply[r] = <<>>
    /\ rpc[r] \in {"loop", "buffering", "streaming"} =>
         attempt[r] \in 1..MaxAttempts(r) /\ Len(answers[r]) = attempt[r] - 1 /\ Failed(r, attempt[r] - 1)
    /\ rpc[r] \in {"retry", "backoff"} =>
         attempt[r] \in 1..MaxAttempts(r) /\ Len(answers[r]) = attempt[r] /\ Failed(r, attempt[r])
    /\ rpc[r] \in {"buffering", "retry", "backoff"} => attempt[r] < MaxAttempts(r)
    /\ rpc[r] = "buffering" => content[buf[r]] = Fresh
    /\ rpc[r] = "replay" =>
         /\ attempt[r] \in 1..MaxAttempts(r) /\ Len(answers[r]) = attempt[r] /\ Failed(r, attempt[r] - 1)
         /\ content[buf[r]] = CapturedAll(Fresh, answers[r][attempt[r]])
    /\ rpc[r] \in {"unwind", "done"} =>
         /\ attempt[r] \in 0..MaxAttempts(r) /\ Len(answers[r]) <= attempt[r]
         /\ Failed(r, Len(answers[r]) - 1) /\ Len(reply[r]) <= 1
         /\ (attempt[r] > 0 /\ Len(answers[r]) = attempt[r]) =>
              LET ws == answers[r][attempt[r]] IN Plain(ws) => reply[r] = <<Final(ws)>>

Request(r) ==
    /\ route[r] \in Routes \cup {NoRoute}
    /\ Stacked(r) /\ History(r) /\ Placed(r)
    /\ Holds(r) => buf[r] \in Buffers /\ buf[r] \notin pool

HandlerFuns ==
    /\ rpc \in [Requests -> Places] /\ pc \in [Requests -> Labels]
    /\ buf \in [Requests -> Buffers \cup {NoBuffer}] /\ pool \subseteq Buffers /\ DOMAIN content = Buffers
    /\ DOMAIN route = Requests /\ attempt \in [Requests -> Nat] /\ cancelled \in [Requests -> BOOLEAN]
    /\ DOMAIN reply = Requests /\ DOMAIN answers = Requests /\ DOMAIN reported = Requests

Counts ==
    /\ MaxConcurrent > 0 => sem = Count(pc, Inside)
    /\ active = Count(rpc, Served)

Apart == \A r, q \in Requests : r # q /\ Holds(r) /\ Holds(q) => buf[r] # buf[q]

ProxyInv == HandlerFuns /\ Counts /\ Apart /\ \A r \in Requests : Request(r)

-----------------------------------------------------------------------------
\* Counting the requests in S after one of them has moved.
LEMMA CountStep ==
    ASSUME NEW S, NEW f, DOMAIN f = Requests, NEW r \in Requests, NEW v
    PROVE  /\ Count(f, S) \in 0..Cardinality(Requests)
           /\ Count([f EXCEPT ![r] = v], S)
                = Count(f, S) + (IF v \in S THEN 1 ELSE 0) - (IF f[r] \in S THEN 1 ELSE 0)
  <1> DEFINE g == [f EXCEPT ![r] = v]
             F == {q \in Requests : f[q] \in S}
             G == {q \in Requests : g[q] \in S}
  <1>1. IsFiniteSet(Requests) /\ Cardinality(Requests) \in Nat
    BY ProxyAssumption, FS_CardinalityType
  <1>2. F \in SUBSET Requests
    OBVIOUS
  <1>3. IsFiniteSet(F) /\ Cardinality(F) <= Cardinality(Requests) /\ Cardinality(F) \in Nat
    <2> HIDE DEF F
    <2> QED
      BY <1>1, <1>2, FS_Subset, FS_CardinalityType
  <1>4. G = IF v \in S THEN F \cup {r} ELSE F \ {r}
    OBVIOUS
  <1>5. r \in F <=> f[r] \in S
    OBVIOUS
  <1>6. /\ Cardinality(F \cup {r}) = IF r \in F THEN Cardinality(F) ELSE Cardinality(F) + 1
        /\ Cardinality(F \ {r}) = IF r \in F THEN Cardinality(F) - 1 ELSE Cardinality(F)
    <2> HIDE DEF F
    <2> QED
      BY <1>3, FS_AddElement, FS_RemoveElement
  <1>7. Count(f, S) = Cardinality(F) /\ Count(g, S) = Cardinality(G)
    BY DEF Count
  <1> HIDE DEF F, G
  <1>8. Cardinality(G) = Cardinality(F) + (IF v \in S THEN 1 ELSE 0) - (IF f[r] \in S THEN 1 ELSE 0)
    BY <1>3, <1>4, <1>5, <1>6
  <1> QED
    BY <1>1, <1>3, <1>7, <1>8

\* What responseBuffer and responseRecorder show of an answer.
LEMMA CaptureFacts ==
    ASSUME NEW s \in Statuses \cup {502}, NEW ws \in Written(s)
    PROVE  /\ ws \in Answers /\ Final(ws) = s /\ s \in Nat /\ s # 103
           /\ CapturedAll(Fresh, ws).status \in {s, 103}
           /\ Plain(ws) => CapturedAll(Fresh, ws).status = s
           /\ isRetryable(CapturedAll(Fresh, ws).status) => CapturedAll(Fresh, ws).status = s
  <1>1. s \in 200..999
    BY ProxyAssumption
  <1>2. CASE ws = <<s>>
    BY <1>1, <1>2 DEF Answers, Final, Plain, CapturedAll, Captured, Fresh
  <1>3. CASE ws = <<103, s>>
    <2>1. Len(ws) = 2 /\ ws[1] = 103 /\ ws[2] = s
      BY <1>3
    <2>2. CapturedAll(Fresh, ws).status = 103
      BY <2>1 DEF CapturedAll, Captured, Fresh
    <2> QED
      BY <1>1, <2>1, <2>2 DEF Answers, Final, Plain, isRetryable
  <1> QED
    BY <1>2, <1>3 DEF Written

\* A request that has a route is tried at least once.
LEMMA AttemptsPositive ==
    ASSUME NEW r \in Requests, route[r] \in Routes \cup {NoRoute}
    PROVE  MaxAttempts(r) \in Nat /\ MaxAttempts(r) >= 1
  <1>1. route[r].RetryAttempts \in Int
    BY ProxyAssumption DEF NoRoute
  <1> QED
    BY <1>1 DEF MaxAttempts

\* The outcome of the answer ws is reported.
Reported(r, ws) ==
    reported' = [reported EXCEPT ![r] = Append(@, isRetryable(CapturedAll(Fresh, ws).status))]

\* One more answered attempt, reported as it was captured.
LEMMA AnswerStep ==
    ASSUME NEW r \in Requests, HandlerFuns, History(r), NEW s \in Statuses \cup {502}, NEW ws \in Written(s),
           Answered(r, ws), Reported(r, ws)
    PROVE  /\ History(r)' /\ Len(answers'[r]) = Len(answers[r]) + 1 /\ Len(answers[r]) \in Nat
           /\ answers'[r][Len(answers[r]) + 1] = ws
           /\ \A i \in 1..Len(answers[r]) : answers'[r][i] = answers[r][i]
           /\ DOMAIN answers' = Requests /\ DOMAIN reported' = Requests
           /\ \A q \in Requests : q # r => answers'[q] = answers[q] /\ reported'[q] = reported[q]
  <1> DEFINE b == isRetryable(CapturedAll(Fresh, ws).status)
             n == Len(answers[r])
  <1>0. \A x : isRetryable(x) \in BOOLEAN
    <2>1. \A x : (x \in {502, 503, 504}) \in BOOLEAN
      OBVIOUS
    <2> QED
      BY <2>1 DEF isRetryable
  <1>1. b \in BOOLEAN
    BY <1>0, Zenon
  <1>2. /\ ws \in Answers /\ (Plain(ws) => b = isRetryable(Final(ws)))
    BY CaptureFacts
  <1>3. /\ answers'[r] = Append(answers[r], ws) /\ reported'[r] = Append(reported[r], b)
        /\ DOMAIN answers' = Requests /\ DOMAIN reported' = Requests
        /\ \A q \in Requests : q # r => answers'[q] = answers[q] /\ reported'[q] = reported[q]
    BY DEF Answered, Reported, HandlerFuns
  <1> HIDE DEF b
  <1>4. /\ answers[r] \in Seq(Answers) /\ reported[r] \in Seq(BOOLEAN) /\ Len(reported[r]) = n /\ n \in Nat
    BY LenProperties DEF History
  <1>5. /\ answers'[r] \in Seq(Answers) /\ Len(answers'[r]) = n + 1 /\ answers'[r][n + 1] = ws
        /\ \A i \in 1..n : answers'[r][i] = answers[r][i]
    BY <1>2, <1>3, <1>4, AppendProperties
  <1>6. /\ reported'[r] \in Seq(BOOLEAN) /\ Len(reported'[r]) = n + 1 /\ reported'[r][n + 1] = b
        /\ \A i \in 1..n : reported'[r][i] = reported[r][i]
    BY <1>1, <1>3, <1>4, AppendProperties
  <1> HIDE DEF n
  <1>7. ASSUME NEW i \in 1..(n + 1), Plain(answers'[r][i])
        PROVE  reported'[r][i] = isRetryable(Final(answers'[r][i]))
    <2>1. CASE i = n + 1
      BY <1>2, <1>5, <1>6, <1>7, <2>1
    <2>2. CASE i \in 1..n
      BY <1>5, <1>6, <1>7, <2>2 DEF History, n
    <2> QED
      BY <1>4, <2>1, <2>2
  <1> QED
    BY <1>3, <1>4, <1>5, <1>6, <1>7 DEF History, n

-----------------------------------------------------------------------------
\* What belongs to request q is as it was; its buffer is still its own.
SameFor(q) ==
    /\ route'[q] = route[q] /\ attempt'[q] = attempt[q] /\ buf'[q] = buf[q]
    /\ reply'[q] = reply[q] /\ answers'[q] = answers[q] /\ reported'[q] = reported[q]
    /\ Holds(q) => content'[buf[q]] = content[buf[q]] /\ buf[q] \notin pool'

\* A step that leaves a request's own state alone keeps what is known of it.
LEMMA SameRequest ==
    ASSUME NEW q \in Requests, Request(q), SameFor(q), rpc'[q] = rpc[q], pc'[q] = pc[q]
    PROVE  Request(q)'
  <1>1. Stacked(q)'
    BY DEF Request, Stacked
  <1>2. History(q)'
    BY DEF Request, SameFor, History
  <1>3. \A n : Failed(q, n)' <=> Failed(q, n)
    BY DEF SameFor, Failed
  <1>4. MaxAttempts(q)' = MaxAttempts(q)
    BY DEF SameFor, MaxAttempts
  <1>5. Holds(q)' <=> Holds(q)
    BY DEF Holds
  <1>6. Placed(q)'
    <2>1. (rpc[q] \in {"buffering", "replay"}) => content'[buf'[q]] = content[buf[q]]
      BY DEF SameFor, Holds
    <2> QED
      BY <1>3, <1>4, <2>1 DEF Request, SameFor, Placed
  <1> QED
    BY <1>1, <1>2, <1>5, <1>6 DEF Request, SameFor

\* Request r moves to another label of the stack, and to another place of the handler, and
\* the slots and the gauge follow.
SlotMoves(r, label) ==
    /\ pc' = [pc EXCEPT ![r] = label]
    /\ MaxConcurrent > 0 => sem' = sem + (IF label \in Inside THEN 1 ELSE 0) - (IF pc[r] \in Inside THEN 1 ELSE 0)

Moves(r, place) ==
    /\ rpc' = [rpc EXCEPT ![r] = place]
    /\ active' = active + (IF place \in Served THEN 1 ELSE 0) - (IF rpc[r] \in Served THEN 1 ELSE 0)

\* The other requests are where they were in their attempts.
OthersKeep(r) ==
    \A q \in Requests : q # r =>
        /\ route'[q] = route[q] /\ attempt'[q] = attempt[q]
        /\ reply'[q] = reply[q] /\ answers'[q] = answers[q] /\ reported'[q] = reported[q]

\* A step of one request keeps the invariant if it keeps the counts, leaves the other
\* requests their own and is right for the request itself.
LEMMA RequestStep ==
    ASSUME ProxyInv, NEW r \in Requests,
           NEW place \in Places, Moves(r, place), NEW label \in Labels, SlotMoves(r, label),
           HandlerFuns', Request(r)',
           \A q \in Requests : q # r => SameFor(q),
           place \in {"buffering", "replay", "retry"} => \A q \in Requests : q # r /\ Holds(q) => buf[q] # buf'[r]
    PROVE  ProxyInv'
  <1>0. HandlerFuns /\ Counts /\ Apart /\ \A q \in Requests : Request(q)
    BY DEF ProxyInv
  <1>1. \A q \in Requests : q # r => rpc'[q] = rpc[q] /\ pc'[q] = pc[q]
    BY <1>0 DEF HandlerFuns, Moves, SlotMoves
  <1>2. \A q \in Requests : Request(q)'
    BY <1>0, <1>1, SameRequest
  <1>3. Counts'
    <2>1. /\ Count(pc', Inside) = Count(pc, Inside) + (IF label \in Inside THEN 1 ELSE 0) - (IF pc[r] \in Inside THEN 1 ELSE 0)
          /\ Count(rpc', Served) = Count(rpc, Served) + (IF place \in Served THEN 1 ELSE 0) - (IF rpc[r] \in Served THEN 1 ELSE 0)
      <3>1. DOMAIN pc = Requests /\ DOMAIN rpc = Requests
        BY <1>0 DEF HandlerFuns
      <3>2. rpc' = [rpc EXCEPT ![r] = place] /\ pc' = [pc EXCEPT ![r] = label]
        BY DEF Moves, SlotMoves
      <3>3. Count(pc', Inside) = Count(pc, Inside) + (IF label \in Inside THEN 1 ELSE 0) - (IF pc[r] \in Inside THEN 1 ELSE 0)
        BY <3>1, <3>2, CountStep
      <3>4. Count(rpc', Served) = Count(rpc, Served) + (IF place \in Served THEN 1 ELSE 0) - (IF rpc[r] \in Served THEN 1 ELSE 0)
        BY <3>1, <3>2, CountStep
      <3> QED
        BY <3>3, <3>4
    <2> QED
      BY <1>0, <2>1 DEF Counts, Moves, SlotMoves
  <1>4. Apart'
    <2>1. \A q \in Requests : q # r => Holds(q)' = Holds(q) /\ buf'[q] = buf[q]
      BY <1>1 DEF Holds, SameFor
    <2>2. Holds(r)' => place \in {"buffering", "replay", "retry"}
      BY <1>0 DEF Holds, HandlerFuns, Moves
    <2> QED
      BY <1>0, <2>1, <2>2 DEF Apart
  <1> QED
    BY <1>2, <1>3, <1>4 DEF ProxyInv

\* The same for a step that does not touch the buffers.
LEMMA QuietStep ==
    ASSUME ProxyInv, NEW r \in Requests, UNCHANGED bufVars,
           NEW place \in Places, Moves(r, place), NEW label \in Labels, SlotMoves(r, label),
           place \in {"buffering", "replay", "retry"} => Holds(r),
           HandlerFuns', Request(r)', OthersKeep(r)
    PROVE  ProxyInv'
  <1>1. \A q \in Requests : q # r => SameFor(q)
    BY DEF SameFor, ProxyInv, Request, bufVars, OthersKeep
  <1>2. place \in {"buffering", "replay", "retry"} => \A q \in Requests : q # r /\ Holds(q) => buf[q] # buf'[r]
    BY DEF ProxyInv, Apart, bufVars
  <1> QED
    BY <1>1, <1>2, RequestStep

-----------------------------------------------------------------------------
\* What the calls of the breaker stack do to the caller's place in it and to its slot.
LEMMA StackMoves ==
    ASSUME HandlerFuns, Counts, NEW r \in Requests
    PROVE  /\ AskBreaker(r) => pc[r] # "in" /\ \E label \in Labels \ {"adapt"} : SlotMoves(r, label)
           /\ CB!Leave(r) => SlotMoves(r, "idle")
           /\ CB!Release(r) => SlotMoves(r, "idle") /\ pc[r] = "in"
           /\ CB!UpdateThreshold(r) => SlotMoves(r, "in") /\ pc[r] = "adapt"
           /\ \A f, l : CB!Report(r, f, l) => pc[r] = "in" /\ \E label \in {"in", "adapt"} : SlotMoves(r, label)
           /\ UNCHANGED stackVars => SlotMoves(r, pc[r])
  <1> USE DEF SlotMoves, Labels, Inside, CB!Goto, CB!Bulkhead
  <1>0. /\ pc \in [Requests -> Labels]
        /\ MaxConcurrent > 0 => sem = Count(pc, Inside) /\ Count(pc, Inside) \in Nat
    <2>1. DOMAIN pc = Requests
      BY DEF HandlerFuns
    <2>2. Count(pc, Inside) \in 0..Cardinality(Requests)
      BY <2>1, CountStep
    <2> QED
      BY <2>2 DEF HandlerFuns, Counts
  <1>1. ASSUME AskBreaker(r) PROVE pc[r] # "in" /\ \E label \in Labels \ {"adapt"} : SlotMoves(r, label)
    <2>1. CASE CB!TakeSlot(r)
      <3>1. pc[r] = "idle" /\ SlotMoves(r, "slot")
        BY <1>0, <2>1 DEF CB!TakeSlot
      <3> HIDE DEF SlotMoves
      <3> QED
        BY <3>1
    <2>2. CASE CB!NoSlot(r)
      <3>1. pc[r] = "idle" /\ SlotMoves(r, "out")
        BY <1>0, <2>2 DEF CB!NoSlot
      <3> HIDE DEF SlotMoves
      <3> QED
        BY <3>1
    <2>3. CASE CB!GiveBack(r)
      <3>1. pc[r] = "refused" /\ SlotMoves(r, "out")
        BY <1>0, <2>3 DEF CB!GiveBack
      <3> HIDE DEF SlotMoves
      <3> QED
        BY <3>1
    <2>4. ASSUME NEW ok \in BOOLEAN, CB!InnerAllow(r, ok)
          PROVE  pc[r] # "in" /\ \E label \in Labels \ {"adapt"} : SlotMoves(r, label)
      <3> DEFINE label == CASE ok -> "in" [] ~ok /\ CB!Bulkhead -> "refused" [] OTHER -> "out"
      <3>1. /\ label \in {"in", "refused", "out"} /\ (CB!Bulkhead => label \in Inside)
        OBVIOUS
      <3>2. /\ pc' = [pc EXCEPT ![r] = label] /\ UNCHANGED sem
            /\ pc[r] = (IF CB!Bulkhead THEN "slot" ELSE "idle")
        BY <2>4 DEF CB!InnerAllow
      <3> HIDE DEF label
      <3>3. pc[r] # "in" /\ SlotMoves(r, label)
        BY <1>0, <3>1, <3>2
      <3> HIDE DEF SlotMoves
      <3> QED
        BY <3>1, <3>3
    <2> QED
      BY <1>1, <2>1, <2>2, <2>3, <2>4 DEF AskBreaker
  <1>2. ASSUME CB!Leave(r) PROVE SlotMoves(r, "idle")
    BY <1>0, <1>2 DEF CB!Leave
  <1>3. ASSUME CB!Release(r) PROVE SlotMoves(r, "idle") /\ pc[r] = "in"
    BY <1>0, <1>3 DEF CB!Release
  <1>4. ASSUME CB!UpdateThreshold(r) PROVE SlotMoves(r, "in") /\ pc[r] = "adapt"
    BY <1>0, <1>4 DEF CB!UpdateThreshold
  <1>5. ASSUME NEW f, NEW l, CB!Report(r, f, l)
        PROVE  pc[r] = "in" /\ \E label \in {"in", "adapt"} : SlotMoves(r, label)
    <2>1. pc[r] = "in" /\ UNCHANGED sem
      BY <1>5 DEF CB!Report
    <2>2. CASE Adaptive
      BY <1>0, <1>5, <2>1, <2>2 DEF CB!Report
    <2>3. CASE ~Adaptive
      BY <1>0, <1>5, <2>1, <2>3 DEF CB!Report
    <2> QED
      BY <2>2, <2>3
  <1>6. ASSUME UNCHANGED stackVars PROVE SlotMoves(r, pc[r])
    <2>1. pc' = pc /\ sem' = sem /\ pc = [pc EXCEPT ![r] = pc[r]]
      BY <1>0, <1>6 DEF stackVars
    <2> QED
      BY <1>0, <2>1
  <1> QED
    BY <1>1, <1>2, <1>3, <1>4, <1>5, <1>6

\* The outcome of an attempt goes to the stack.
LEMMA ReportMoves ==
    ASSUME HandlerFuns, Counts, NEW r \in Requests, NEW s, Report(r, s)
    PROVE  /\ pc[r] = "in" /\ \E label \in {"in", "adapt"} : SlotMoves(r, label)
           /\ reported' = [reported EXCEPT ![r] = Append(@, isRetryable(s))]
  <1>1. \E f, l : CB!Report(r, f, l)
    BY DEF Report, CB!RecordFailure, CB!RecordSuccess
  <1> QED
    BY <1>1, StackMoves DEF Report

\* The parts of the invariant, and what does not change with the answers and the route.
LEMMA Parts ==
    ASSUME ProxyInv, NEW r \in Requests
    PROVE  /\ HandlerFuns /\ Counts /\ Apart /\ Request(r)
           /\ Stacked(r) /\ History(r) /\ Placed(r) /\ route[r] \in Routes \cup {NoRoute}
           /\ MaxAttempts(r) \in Nat /\ MaxAttempts(r) >= 1 /\ Len(answers[r]) \in Nat
           /\ attempt[r] \in Nat /\ active \in Int
           /\ answers'[r] = answers[r] => \A n : Failed(r, n)' <=> Failed(r, n)
           /\ answers'[r] = answers[r] /\ reported'[r] = reported[r] => History(r)'
           /\ route'[r] = route[r] => MaxAttempts(r)' = MaxAttempts(r)
  <1>1. HandlerFuns /\ Counts /\ Apart /\ Request(r)
    BY DEF ProxyInv
  <1>2. Stacked(r) /\ History(r) /\ Placed(r) /\ route[r] \in Routes \cup {NoRoute}
    BY <1>1 DEF Request
  <1>3. MaxAttempts(r) \in Nat /\ MaxAttempts(r) >= 1
    BY <1>2, AttemptsPositive
  <1>4. Len(answers[r]) \in Nat /\ attempt[r] \in Nat
    BY <1>1, <1>2, LenProperties DEF History, HandlerFuns
  <1>5. active \in Int
    <2>1. DOMAIN rpc = Requests
      BY <1>1 DEF HandlerFuns
    <2>2. Count(rpc, Served) \in 0..Cardinality(Requests)
      BY <2>1, CountStep
    <2> QED
      BY <1>1, <2>2 DEF Counts
  <1>6. answers'[r] = answers[r] => \A n : Failed(r, n)' <=> Failed(r, n)
    BY DEF Failed
  <1>7. answers'[r] = answers[r] /\ reported'[r] = reported[r] => History(r)'
    BY <1>2 DEF History
  <1>8. route'[r] = route[r] => MaxAttempts(r)' = MaxAttempts(r)
    BY DEF MaxAttempts
  <1> QED
    BY <1>1, <1>2, <1>3, <1>4, <1>5, <1>6, <1>7, <1>8

-----------------------------------------------------------------------------
\* Before the first attempt.
LEMMA EntryStep ==
    ASSUME ProxyInv, NEW r \in Requests,
           Refuse(r) \/ Match(r) \/ AskBreaker(r) \/ Shed(r) \/ Enter(r)
    PROVE  ProxyInv'
  <1> USE DEF HandlerFuns, Goto, Reply, ghost, bufVars
  <1>0. /\ HandlerFuns /\ Counts /\ Stacked(r) /\ History(r) /\ Placed(r) /\ route[r] \in Routes \cup {NoRoute}
        /\ MaxAttempts(r) \in Nat /\ MaxAttempts(r) >= 1 /\ Len(answers[r]) \in Nat /\ active \in Int
    BY Parts
  <1>1. CASE Refuse(r)
    <2>1. PICK st \in {404, 405} : reply' = [reply EXCEPT ![r] = Append(@, st)]
      BY <1>1 DEF Refuse
    <2>2. /\ rpc[r] = "new" /\ rpc' = [rpc EXCEPT ![r] = "done"] /\ SlotMoves(r, pc[r])
          /\ UNCHANGED <<route, attempt, cancelled, bufVars, answers, reported, active>>
      BY <1>0, <1>1, StackMoves DEF Refuse
    <2>3. reply[r] = <<>> /\ reply'[r] = <<st>> /\ attempt[r] = 0 /\ Len(answers[r]) = 0 /\ pc[r] = "idle"
      BY <1>0, <2>1, <2>2 DEF Placed, Stacked
    <2>4. Request(r)'
      <3>1. Stacked(r)' /\ History(r)' /\ ~Holds(r)' /\ MaxAttempts(r)' = MaxAttempts(r)
        BY <1>0, <2>2, <2>3, Parts DEF Stacked, SlotMoves, Holds
      <3>2. Placed(r)'
        BY <1>0, <2>2, <2>3, <3>1 DEF Placed, Failed
      <3> QED
        BY <1>0, <2>2, <3>1, <3>2 DEF Request
    <2>5. HandlerFuns'
      BY <1>0, <2>1, <2>2 DEF SlotMoves, Places, Labels
    <2>6. Moves(r, "done") /\ "done" \in Places /\ pc[r] \in Labels /\ OthersKeep(r)
      BY <1>0, <2>1, <2>2 DEF Moves, Places, Served, OthersKeep
    <2> QED
      BY <2>2, <2>4, <2>5, <2>6, QuietStep
  <1>2. CASE Match(r)
    <2>1. PICK rt \in Routes : route' = [route EXCEPT ![r] = rt]
      BY <1>2 DEF Match
    <2>2. /\ rpc[r] = "new" /\ rpc' = [rpc EXCEPT ![r] = "allow"] /\ SlotMoves(r, pc[r])
          /\ UNCHANGED <<attempt, cancelled, bufVars, reply, answers, reported, active>>
      BY <1>0, <1>2, StackMoves DEF Match
    <2>3. Request(r)'
      <3>1. Stacked(r)' /\ History(r)' /\ ~Holds(r)' /\ route'[r] = rt
        BY <1>0, <2>1, <2>2, Parts DEF Stacked, SlotMoves, Holds
      <3>2. Placed(r)'
        BY <1>0, <2>2 DEF Placed
      <3> QED
        BY <3>1, <3>2 DEF Request
    <2>4. HandlerFuns'
      BY <1>0, <2>1, <2>2 DEF SlotMoves, Places, Labels
    <2>5. Moves(r, "allow") /\ "allow" \in Places /\ pc[r] \in Labels /\ OthersKeep(r)
      BY <1>0, <2>1, <2>2 DEF Moves, Places, Served, OthersKeep
    <2> QED
      BY <2>2, <2>3, <2>4, <2>5, QuietStep
  <1>3. CASE AskBreaker(r)
    <2>1. PICK label \in Labels \ {"adapt"} : SlotMoves(r, label)
      BY <1>0, <1>3, StackMoves
    <2>2. /\ rpc[r] = "allow" /\ rpc' = [rpc EXCEPT ![r] = "allow"]
          /\ UNCHANGED <<rpc, route, attempt, cancelled, bufVars, reply, answers, reported, active>>
      BY <1>0, <1>3 DEF AskBreaker
    <2>3. Request(r)'
      <3>1. Stacked(r)' /\ History(r)' /\ ~Holds(r)'
        BY <1>0, <2>1, <2>2, Parts DEF Stacked, SlotMoves, Holds
      <3>2. Placed(r)'
        BY <1>0, <2>2 DEF Placed
      <3> QED
        BY <1>0, <2>2, <3>1, <3>2 DEF Request
    <2>4. HandlerFuns'
      BY <1>0, <2>1, <2>2 DEF SlotMoves
    <2>5. Moves(r, "allow") /\ "allow" \in Places /\ OthersKeep(r)
      BY <1>0, <2>2 DEF Moves, Places, Served, OthersKeep
    <2> QED
      BY <2>1, <2>2, <2>3, <2>4, <2>5, QuietStep
  <1>4. CASE Shed(r)
    <2>1. /\ rpc[r] = "allow" /\ rpc' = [rpc EXCEPT ![r] = "done"] /\ SlotMoves(r, "idle")
          /\ \E st : reply' = [reply EXCEPT ![r] = Append(@, st)]
          /\ UNCHANGED <<route, attempt, cancelled, bufVars, answers, reported, active>>
      BY <1>0, <1>4, StackMoves DEF Shed
    <2>2. Len(reply'[r]) = 1 /\ attempt[r] = 0 /\ Len(answers[r]) = 0
      BY <1>0, <2>1 DEF Placed
    <2>3. Request(r)'
      <3>1. Stacked(r)' /\ History(r)' /\ ~Holds(r)' /\ MaxAttempts(r)' = MaxAttempts(r)
        BY <1>0, <2>1, Parts DEF Stacked, SlotMoves, Holds
      <3>2. Placed(r)'
        BY <1>0, <2>1, <2>2, <3>1 DEF Placed, Failed
      <3> QED
        BY <1>0, <2>1, <3>1, <3>2 DEF Request
    <2>4. HandlerFuns'
      BY <1>0, <2>1 DEF SlotMoves, Places, Labels
    <2>5. Moves(r, "done") /\ "done" \in Places /\ "idle" \in Labels /\ OthersKeep(r)
      BY <1>0, <2>1 DEF Moves, Places, Labels, Served, OthersKeep
    <2> QED
      BY <2>1, <2>3, <2>4, <2>5, QuietStep
  <1>5. CASE Enter(r)
    <2>1. /\ rpc[r] = "allow" /\ rpc' = [rpc EXCEPT ![r] = "loop"] /\ SlotMoves(r, pc[r]) /\ pc[r] = "in"
          /\ active' = active + 1 /\ attempt' = [attempt EXCEPT ![r] = 1]
          /\ UNCHANGED <<route, cancelled, bufVars, reply, answers, reported>>
      BY <1>0, <1>5, StackMoves DEF Enter
    <2>2. attempt'[r] = 1 /\ Len(answers[r]) = 0 /\ reply[r] = <<>>
      BY <1>0, <2>1 DEF Placed
    <2>3. Request(r)'
      <3>1. Stacked(r)' /\ History(r)' /\ ~Holds(r)' /\ MaxAttempts(r)' = MaxAttempts(r)
        BY <1>0, <2>1, Parts DEF Stacked, SlotMoves, Holds
      <3>2. Placed(r)'
        BY <1>0, <2>1, <2>2, <3>1 DEF Placed, Failed
      <3> QED
        BY <1>0, <2>1, <3>1, <3>2 DEF Request
    <2>4. HandlerFuns'
      BY <1>0, <2>1 DEF SlotMoves, Places, Labels
    <2>5. Moves(r, "loop") /\ "loop" \in Places /\ pc[r] \in Labels /\ OthersKeep(r)
      BY <1>0, <2>1 DEF Moves, Places, Served, OthersKeep
    <2> QED
      BY <2>1, <2>3, <2>4, <2>5, QuietStep
  <1> QED
    BY <1>1, <1>2, <1>3, <1>4, <1>5

\* Steps of the attempt loop that leave the buffers alone.
LEMMA LoopStep ==
    ASSUME ProxyInv, NEW r \in Requests, GiveUp(r) \/ StartFinal(r) \/ Wake(r)
    PROVE  ProxyInv'
  <1> USE DEF HandlerFuns, Goto, Reply, ghost, bufVars
  <1>0. /\ HandlerFuns /\ Counts /\ Stacked(r) /\ History(r) /\ Placed(r) /\ route[r] \in Routes \cup {NoRoute}
        /\ MaxAttempts(r) \in Nat /\ attempt[r] \in Nat /\ active \in Int
    BY Parts
  <1>1. CASE GiveUp(r)
    <2>1. /\ rpc[r] = "loop" /\ rpc' = [rpc EXCEPT ![r] = "unwind"] /\ SlotMoves(r, pc[r])
          /\ reply' = [reply EXCEPT ![r] = Append(@, 504)]
          /\ UNCHANGED <<route, attempt, cancelled, bufVars, answers, reported, active>>
      BY <1>0, <1>1, StackMoves DEF GiveUp
    <2>2. /\ reply'[r] = <<504>> /\ attempt[r] \in 1..MaxAttempts(r) /\ Len(answers[r]) = attempt[r] - 1
          /\ Failed(r, attempt[r] - 1) /\ pc[r] = "in"
      BY <1>0, <2>1 DEF Placed, Stacked
    <2>3. Request(r)'
      <3>1. /\ Stacked(r)' /\ History(r)' /\ ~Holds(r)' /\ MaxAttempts(r)' = MaxAttempts(r)
            /\ \A n : Failed(r, n)' <=> Failed(r, n)
        BY <1>0, <2>1, <2>2, Parts DEF Stacked, SlotMoves, Holds
      <3>2. Failed(r, attempt[r] - 2)
        BY <2>2 DEF Failed
      <3>3. Placed(r)'
        BY <1>0, <2>1, <2>2, <3>1, <3>2 DEF Placed
      <3> QED
        BY <1>0, <2>1, <3>1, <3>3 DEF Request
    <2>4. HandlerFuns'
      BY <1>0, <2>1 DEF SlotMoves, Places, Labels
    <2>5. Moves(r, "unwind") /\ "unwind" \in Places /\ pc[r] \in Labels /\ OthersKeep(r)
      BY <1>0, <2>1 DEF Moves, Places, Served, OthersKeep
    <2> QED
      <3>1. UNCHANGED bufVars /\ SlotMoves(r, pc[r])
        BY <2>1
      <3>2. "unwind" \notin {"buffering", "replay", "retry"}
        OBVIOUS
      <3> HIDE DEF HandlerFuns, bufVars
      <3> QED
        BY <2>3, <2>4, <2>5, <3>1, <3>2, QuietStep
  <1>2. CASE StartFinal(r)
    <2>1. /\ rpc[r] = "loop" /\ rpc' = [rpc EXCEPT ![r] = "streaming"] /\ SlotMoves(r, pc[r])
          /\ UNCHANGED <<route, attempt, cancelled, bufVars, reply, answers, reported, active>>
      BY <1>0, <1>2, StackMoves DEF StartFinal
    <2>2. Request(r)'
      <3>1. /\ Stacked(r)' /\ History(r)' /\ ~Holds(r)' /\ MaxAttempts(r)' = MaxAttempts(r)
            /\ \A n : Failed(r, n)' <=> Failed(r, n)
        BY <1>0, <2>1, Parts DEF Stacked, SlotMoves, Holds
      <3>2. Placed(r)'
        BY <1>0, <2>1, <3>1 DEF Placed
      <3> QED
        BY <1>0, <2>1, <3>1, <3>2 DEF Request
    <2>3. HandlerFuns'
      BY <1>0, <2>1 DEF SlotMoves, Places, Labels
    <2>4. Moves(r, "streaming") /\ "streaming" \in Places /\ pc[r] \in Labels /\ OthersKeep(r)
      BY <1>0, <2>1 DEF Moves, Places, Served, OthersKeep
    <2> QED
      BY <2>1, <2>2, <2>3, <2>4, QuietStep
  <1>3. CASE Wake(r)
    <2>1. /\ rpc[r] = "backoff" /\ rpc' = [rpc EXCEPT ![r] = "loop"] /\ SlotMoves(r, pc[r])
          /\ attempt' = [attempt EXCEPT ![r] = attempt[r] + 1]
          /\ UNCHANGED <<route, cancelled, bufVars, reply, answers, reported, active>>
      BY <1>0, <1>3, StackMoves DEF Wake
    <2>2. /\ attempt[r] \in 1..MaxAttempts(r) /\ attempt[r] < MaxAttempts(r)
          /\ attempt'[r] = attempt[r] + 1 /\ Len(answers[r]) = attempt[r] /\ Failed(r, attempt[r]) /\ reply[r] = <<>>
      BY <1>0, <2>1 DEF Placed
    <2>3. Request(r)'
      <3>1. /\ Stacked(r)' /\ History(r)' /\ ~Holds(r)' /\ MaxAttempts(r)' = MaxAttempts(r)
            /\ \A n : Failed(r, n)' <=> Failed(r, n)
        BY <1>0, <2>1, Parts DEF Stacked, SlotMoves, Holds
      <3>2. attempt'[r] - 1 = attempt[r] /\ attempt'[r] \in 1..MaxAttempts(r)
        BY <1>0, <2>2
      <3>3. Placed(r)'
        BY <1>0, <2>1, <2>2, <3>1, <3>2 DEF Placed
      <3> QED
        BY <1>0, <2>1, <3>1, <3>3 DEF Request
    <2>4. HandlerFuns'
      BY <1>0, <2>1 DEF SlotMoves, Places, Labels
    <2>5. Moves(r, "loop") /\ "loop" \in Places /\ pc[r] \in Labels /\ OthersKeep(r)
      BY <1>0, <2>1 DEF Moves, Places, Served, OthersKeep
    <2> QED
      BY <2>1, <2>3, <2>4, <2>5, QuietStep
  <1> QED
    BY <1>1, <1>2, <1>3

\* A buffer of the pool becomes the request's own, and is reset.
LEMMA StartBufferedStep ==
    ASSUME ProxyInv, NEW r \in Requests, StartBuffered(r)
    PROVE  ProxyInv'
  <1> USE DEF HandlerFuns
  <1>0. /\ HandlerFuns /\ Counts /\ Stacked(r) /\ History(r) /\ Placed(r) /\ route[r] \in Routes \cup {NoRoute}
        /\ active \in Int /\ \A q \in Requests : Request(q)
    BY Parts DEF ProxyInv
  <1>1. PICK b \in pool : /\ buf' = [buf EXCEPT ![r] = b] /\ pool' = pool \ {b}
                          /\ content' = [content EXCEPT ![b] = Fresh]
    BY DEF StartBuffered, Fresh
  <1>2. /\ rpc[r] = "loop" /\ rpc' = [rpc EXCEPT ![r] = "buffering"] /\ SlotMoves(r, pc[r])
        /\ attempt[r] < MaxAttempts(r)
        /\ UNCHANGED <<route, attempt, cancelled, reply, answers, reported, active>>
    BY <1>0, StackMoves DEF StartBuffered, Goto, ghost
  <1>3. b \in Buffers /\ buf'[r] = b /\ content'[b] = Fresh /\ b \notin pool'
    BY <1>0, <1>1
  <1>4. Request(r)'
    <2>1. /\ Stacked(r)' /\ History(r)' /\ MaxAttempts(r)' = MaxAttempts(r)
          /\ \A n : Failed(r, n)' <=> Failed(r, n)
      BY <1>0, <1>2, Parts DEF Stacked, SlotMoves
    <2>2. Placed(r)'
      BY <1>0, <1>2, <1>3, <2>1 DEF Placed
    <2> QED
      BY <1>0, <1>2, <1>3, <2>1, <2>2 DEF Request
  <1>5. HandlerFuns'
    BY <1>0, <1>1, <1>2 DEF SlotMoves, Places, Labels
  <1>6. Moves(r, "buffering") /\ "buffering" \in Places /\ pc[r] \in Labels
    BY <1>0, <1>2 DEF Moves, Places, Served
  <1>7. ASSUME NEW q \in Requests, q # r PROVE SameFor(q) /\ (Holds(q) => buf[q] # buf'[r])
    <2>1. Holds(q) => buf[q] \in Buffers /\ buf[q] \notin pool
      BY <1>0 DEF Request
    <2> QED
      BY <1>0, <1>1, <1>2, <1>3, <1>7, <2>1 DEF SameFor
  <1> QED
    BY <1>2, <1>4, <1>5, <1>6, <1>7, RequestStep

\* The backend has answered into the buffer.
LEMMA BufferedAnswerStep ==
    ASSUME ProxyInv, NEW r \in Requests, BufferedAnswer(r)
    PROVE  ProxyInv'
  <1>0. /\ HandlerFuns /\ Counts /\ Apart /\ Stacked(r) /\ History(r) /\ Placed(r) /\ route[r] \in Routes \cup {NoRoute}
        /\ MaxAttempts(r) \in Nat /\ attempt[r] \in Nat /\ Len(answers[r]) \in Nat
        /\ active \in Int /\ \A q \in Requests : Request(q)
    BY Parts DEF ProxyInv
  <1>1. /\ rpc[r] = "buffering" /\ content[buf[r]] = Fresh /\ buf[r] \in Buffers /\ buf[r] \notin pool
        /\ attempt[r] \in 1..MaxAttempts(r) /\ attempt[r] < MaxAttempts(r)
        /\ Len(answers[r]) = attempt[r] - 1 /\ Failed(r, attempt[r] - 1) /\ reply[r] = <<>>
    BY <1>0 DEF BufferedAnswer, Placed, Request, Holds
  <1>a. PICK st \in Statuses \cup {502} : \E ws \in Written(st) :
          LET after == CapturedAll(content[buf[r]], ws)
          IN  /\ content' = [content EXCEPT ![buf[r]] = after]
              /\ Report(r, after.status)
              /\ Answered(r, ws)
              /\ Goto(r, IF isRetryable(after.status) THEN "retry" ELSE "replay")
    BY DEF BufferedAnswer
  <1>b. PICK ws \in Written(st) :
          LET after == CapturedAll(content[buf[r]], ws)
          IN  /\ content' = [content EXCEPT ![buf[r]] = after]
              /\ Report(r, after.status)
              /\ Answered(r, ws)
              /\ Goto(r, IF isRetryable(after.status) THEN "retry" ELSE "replay")
    BY <1>a
  <1>2. /\ content' = [content EXCEPT ![buf[r]] = CapturedAll(Fresh, ws)]
        /\ Report(r, CapturedAll(Fresh, ws).status) /\ Answered(r, ws)
        /\ rpc' = [rpc EXCEPT ![r] = IF isRetryable(CapturedAll(Fresh, ws).status) THEN "retry" ELSE "replay"]
    BY <1>1, <1>b DEF Goto
  <1> DEFINE c == CapturedAll(Fresh, ws)
             place == IF isRetryable(c.status) THEN "retry" ELSE "replay"
  <1>3. PICK label \in {"in", "adapt"} : SlotMoves(r, label)
    BY <1>0, <1>2, ReportMoves
  <1>4. Reported(r, ws)
    BY <1>0, <1>2, ReportMoves DEF Reported
  <1>5. UNCHANGED <<route, attempt, cancelled, buf, pool, reply, active>>
    BY DEF BufferedAnswer
  <1>6. /\ History(r)' /\ Len(answers'[r]) = Len(answers[r]) + 1
        /\ answers'[r][Len(answers[r]) + 1] = ws
        /\ \A i \in 1..Len(answers[r]) : answers'[r][i] = answers[r][i]
        /\ DOMAIN answers' = Requests /\ DOMAIN reported' = Requests
        /\ \A q \in Requests : q # r => answers'[q] = answers[q] /\ reported'[q] = reported[q]
    <2>1. HandlerFuns /\ History(r) /\ Answered(r, ws)
      BY <1>0, <1>2
    <2> QED
      BY <1>4, <2>1, AnswerStep
  <1>7. Len(answers'[r]) = attempt[r] /\ answers'[r][attempt[r]] = ws
    BY <1>0, <1>1, <1>6
  <1>8. Failed(r, attempt[r] - 1)'
    <2>1. attempt'[r] = attempt[r]
      BY <1>5
    <2>2. \A i \in 1..(attempt[r] - 1) : answers'[r][i] = answers[r][i]
      BY <1>1, <1>6
    <2> QED
      BY <1>1, <2>1, <2>2 DEF Failed
  <1>9. isRetryable(c.status) => Failed(r, attempt[r])'
    <2>1. isRetryable(c.status) => isRetryable(Final(ws))
      BY CaptureFacts
    <2>2. ASSUME isRetryable(c.status), NEW i \in 1..attempt[r] PROVE isRetryable(Final(answers'[r][i]))
      <3>1. CASE i = attempt[r]
        BY <1>7, <2>1, <2>2, <3>1
      <3>2. CASE i \in 1..(attempt[r] - 1)
        BY <1>5, <1>8, <3>2 DEF Failed
      <3> QED
        BY <1>0, <3>1, <3>2
    <2> QED
      BY <1>5, <2>2 DEF Failed
  <1>10. /\ rpc'[r] = place /\ place \in {"retry", "replay"} /\ pc'[r] = label
         /\ content'[buf'[r]] = c /\ DOMAIN content' = Buffers
    BY <1>0, <1>1, <1>2, <1>3, <1>5 DEF HandlerFuns, SlotMoves
  <1> HIDE DEF c
  <1>11. Request(r)'
    <2>1. Stacked(r)' /\ MaxAttempts(r)' = MaxAttempts(r)
      BY <1>3, <1>5, <1>10 DEF Stacked, MaxAttempts
    <2>2. Placed(r)'
      BY <1>1, <1>5, <1>7, <1>8, <1>9, <1>10, <2>1 DEF Placed, c
    <2> QED
      BY <1>0, <1>1, <1>5, <1>6, <2>1, <2>2 DEF Request
  <1>12. HandlerFuns'
    BY <1>0, <1>2, <1>3, <1>5, <1>6, <1>10 DEF HandlerFuns, SlotMoves, Places, Labels
  <1>13. Moves(r, place) /\ place \in Places /\ label \in Labels
    BY <1>0, <1>1, <1>2, <1>5 DEF Moves, Places, Served, Labels, c
  <1>14. ASSUME NEW q \in Requests, q # r PROVE SameFor(q) /\ (Holds(q) => buf[q] # buf'[r])
    <2>1. Holds(q) => buf[q] \in Buffers /\ buf[q] \notin pool /\ buf[q] # buf[r]
      BY <1>0, <1>1, <1>14 DEF Request, Apart, Holds
    <2>2. Holds(q) => content'[buf[q]] = content[buf[q]]
      BY <1>0, <1>2, <2>1 DEF HandlerFuns
    <2> QED
      BY <1>5, <1>6, <1>14, <2>1, <2>2 DEF SameFor
  <1> HIDE DEF place
  <1> QED
    BY <1>3, <1>11, <1>12, <1>13, <1>14, RequestStep

\* The final attempt has answered the client.
LEMMA StreamedAnswerStep ==
    ASSUME ProxyInv, NEW r \in Requests, StreamedAnswer(r)
    PROVE  ProxyInv'
  <1>0. /\ HandlerFuns /\ Counts /\ Stacked(r) /\ History(r) /\ Placed(r) /\ route[r] \in Routes \cup {NoRoute}
        /\ MaxAttempts(r) \in Nat /\ attempt[r] \in Nat /\ Len(answers[r]) \in Nat /\ active \in Int
    BY Parts
  <1>1. /\ rpc[r] = "streaming" /\ attempt[r] \in 1..MaxAttempts(r)
        /\ Len(answers[r]) = attempt[r] - 1 /\ Failed(r, attempt[r] - 1) /\ reply[r] = <<>>
    BY <1>0 DEF StreamedAnswer, Placed
  <1>a. PICK st \in Statuses \cup {502} : \E ws \in Written(st) :
          /\ Report(r, CapturedAll(Fresh, ws).status) /\ Answered(r, ws)
          /\ reply' = [reply EXCEPT ![r] = Append(@, st)]
    BY DEF StreamedAnswer, Fresh, Reply
  <1>2. PICK ws \in Written(st) :
          /\ Report(r, CapturedAll(Fresh, ws).status) /\ Answered(r, ws)
          /\ reply' = [reply EXCEPT ![r] = Append(@, st)]
    BY <1>a
  <1>3. PICK label \in {"in", "adapt"} : SlotMoves(r, label)
    BY <1>0, <1>2, ReportMoves
  <1>4. Reported(r, ws)
    BY <1>0, <1>2, ReportMoves DEF Reported
  <1>5. rpc' = [rpc EXCEPT ![r] = "unwind"] /\ UNCHANGED <<route, attempt, cancelled, bufVars, active>>
    BY DEF StreamedAnswer, Goto
  <1>6. /\ History(r)' /\ Len(answers'[r]) = Len(answers[r]) + 1
        /\ answers'[r][Len(answers[r]) + 1] = ws
        /\ \A i \in 1..Len(answers[r]) : answers'[r][i] = answers[r][i]
        /\ DOMAIN answers' = Requests /\ DOMAIN reported' = Requests
        /\ \A q \in Requests : q # r => answers'[q] = answers[q] /\ reported'[q] = reported[q]
    <2>1. HandlerFuns /\ History(r) /\ Answered(r, ws)
      BY <1>0, <1>2
    <2> QED
      BY <1>4, <2>1, AnswerStep
  <1>7. Len(answers'[r]) = attempt[r] /\ answers'[r][attempt[r]] = ws
    BY <1>0, <1>1, <1>6
  <1>8. Failed(r, attempt[r] - 1)'
    <2>1. attempt'[r] = attempt[r]
      BY <1>5
    <2>2. \A i \in 1..(attempt[r] - 1) : answers'[r][i] = answers[r][i]
      BY <1>1, <1>6
    <2> QED
      BY <1>1, <2>1, <2>2 DEF Failed
  <1>9. reply'[r] = <<Final(ws)>>
    <2>1. reply'[r] = Append(reply[r], st)
      BY <1>0, <1>2 DEF HandlerFuns
    <2>2. Append(<<>>, st) = <<st>>
      OBVIOUS
    <2>3. Final(ws) = st
      BY CaptureFacts
    <2> QED
      BY <1>1, <2>1, <2>2, <2>3
  <1>10. Request(r)'
    <2>1. Stacked(r)' /\ MaxAttempts(r)' = MaxAttempts(r) /\ ~Holds(r)' /\ rpc'[r] = "unwind"
      BY <1>0, <1>3, <1>5 DEF Stacked, MaxAttempts, SlotMoves, HandlerFuns, Holds
    <2>2. Placed(r)'
      <3>1. Len(reply'[r]) = 1
        BY <1>9
      <3> QED
        BY <1>0, <1>1, <1>5, <1>7, <1>8, <1>9, <2>1, <3>1 DEF Placed
    <2> QED
      BY <1>0, <1>5, <1>6, <2>1, <2>2 DEF Request
  <1>11. HandlerFuns'
    BY <1>0, <1>2, <1>3, <1>5, <1>6 DEF HandlerFuns, SlotMoves, Places, Labels, bufVars
  <1>12. Moves(r, "unwind") /\ "unwind" \in Places /\ label \in Labels /\ OthersKeep(r)
    BY <1>0, <1>1, <1>2, <1>5, <1>6 DEF Moves, Places, Served, Labels, OthersKeep, HandlerFuns
  <1> QED
    BY <1>3, <1>5, <1>10, <1>11, <1>12, QuietStep

\* A request gives its buffer back; the others keep theirs.
LEMMA GivesBack ==
    ASSUME ProxyInv, NEW r \in Requests, Holds(r),
           pool' = pool \cup {buf[r]}, buf' = [buf EXCEPT ![r] = NoBuffer],
           DOMAIN content' = Buffers, \A b \in Buffers : b # buf[r] => content'[b] = content[b],
           OthersKeep(r)
    PROVE  /\ buf' \in [Requests -> Buffers \cup {NoBuffer}] /\ pool' \subseteq Buffers
           /\ \A q \in Requests : q # r => SameFor(q)
  <1>0. HandlerFuns /\ Apart /\ \A q \in Requests : Request(q)
    BY DEF ProxyInv
  <1>1. ASSUME NEW q \in Requests, q # r PROVE SameFor(q)
    <2>1. Holds(q) => buf[q] \in Buffers /\ buf[q] \notin pool /\ buf[q] # buf[r]
      BY <1>0, <1>1 DEF Request, Apart
    <2> QED
      BY <1>0, <1>1, <2>1 DEF SameFor, HandlerFuns, OthersKeep
  <1>2. buf[r] \in Buffers
    BY <1>0 DEF Request
  <1> QED
    BY <1>0, <1>1, <1>2 DEF HandlerFuns

\* An accepted answer is replayed, a rejected one dropped.
LEMMA BufferStep ==
    ASSUME ProxyInv, NEW r \in Requests, Replay(r) \/ Drop(r)
    PROVE  ProxyInv'
  <1>0. /\ HandlerFuns /\ Counts /\ Stacked(r) /\ History(r) /\ Placed(r) /\ route[r] \in Routes \cup {NoRoute}
        /\ MaxAttempts(r) \in Nat /\ attempt[r] \in Nat /\ Len(answers[r]) \in Nat /\ active \in Int
    BY Parts
  <1>1. /\ Holds(r) /\ pc[r] = "in" /\ SlotMoves(r, pc[r]) /\ pc[r] \in Labels
        /\ pool' = pool \cup {buf[r]} /\ buf' = [buf EXCEPT ![r] = NoBuffer] /\ UNCHANGED content
        /\ UNCHANGED <<route, attempt, cancelled, answers, reported, active>>
    BY <1>0, StackMoves DEF Replay, Drop, PutBack, Holds, ghost, HandlerFuns
  <1>2. /\ History(r)' /\ MaxAttempts(r)' = MaxAttempts(r) /\ \A n : Failed(r, n)' <=> Failed(r, n)
    BY <1>1, Parts
  <1>3. CASE Replay(r)
    <2> DEFINE st == content[buf[r]].status
               ws == answers[r][attempt[r]]
    <2>1. /\ rpc[r] = "replay" /\ rpc' = [rpc EXCEPT ![r] = "unwind"]
          /\ reply' = [reply EXCEPT ![r] = Append(@, IF st = 103 THEN 200 ELSE st)]
      BY <1>3 DEF Replay, Goto, Reply
    <2>2. /\ attempt[r] \in 1..MaxAttempts(r) /\ Len(answers[r]) = attempt[r] /\ Failed(r, attempt[r] - 1)
          /\ st = CapturedAll(Fresh, ws).status /\ reply[r] = <<>>
      BY <1>0, <2>1 DEF Placed
    <2>3. ws \in Answers
      <3>1. attempt[r] \in 1..Len(answers[r]) /\ answers[r] \in Seq(Answers)
        BY <1>0, <2>2 DEF History
      <3> QED
        BY <3>1, ElementOfSeq
    <2>4. Plain(ws) => st = Final(ws) /\ st # 103
      <3>1. PICK s \in Statuses \cup {502} : ws \in Written(s)
        BY <2>3 DEF Answers
      <3> HIDE DEF ws
      <3> QED
        BY <2>2, <3>1, CaptureFacts
    <2>5. Len(reply'[r]) = 1 /\ (Plain(ws) => reply'[r] = <<Final(ws)>>)
      <3> HIDE DEF ws, st
      <3>1. reply'[r] = <<IF st = 103 THEN 200 ELSE st>>
        BY <1>0, <2>1, <2>2 DEF HandlerFuns
      <3> QED
        BY <2>4, <3>1
    <2>6. Request(r)'
      <3>1. Stacked(r)' /\ ~Holds(r)' /\ rpc'[r] = "unwind"
        BY <1>0, <1>1, <2>1 DEF Stacked, SlotMoves, Holds, HandlerFuns
      <3>2. Placed(r)'
        BY <1>0, <1>1, <1>2, <2>2, <2>5, <3>1 DEF Placed
      <3> QED
        BY <1>0, <1>1, <1>2, <3>1, <3>2 DEF Request
    <2>7. Moves(r, "unwind") /\ "unwind" \in Places /\ OthersKeep(r)
      BY <1>0, <1>1, <2>1 DEF Moves, Places, Served, OthersKeep
    <2>8. /\ buf' \in [Requests -> Buffers \cup {NoBuffer}] /\ pool' \subseteq Buffers
          /\ \A q \in Requests : q # r => SameFor(q)
      BY <1>0, <1>1, <2>7, GivesBack DEF HandlerFuns
    <2>9. HandlerFuns'
      BY <1>0, <1>1, <2>1, <2>8 DEF HandlerFuns, SlotMoves, Places, Labels
    <2> QED
      BY <1>1, <2>6, <2>7, <2>8, <2>9, RequestStep
  <1>4. CASE Drop(r)
    <2>1. rpc[r] = "retry" /\ rpc' = [rpc EXCEPT ![r] = "backoff"] /\ UNCHANGED reply
      BY <1>4 DEF Drop, Goto, ghost
    <2>2. Request(r)'
      <3>1. Stacked(r)' /\ ~Holds(r)' /\ rpc'[r] = "backoff"
        BY <1>0, <1>1, <2>1 DEF Stacked, SlotMoves, Holds, HandlerFuns
      <3>2. Placed(r)'
        BY <1>0, <1>1, <1>2, <2>1, <3>1 DEF Placed
      <3> QED
        BY <1>0, <1>1, <1>2, <3>1, <3>2 DEF Request
    <2>3. Moves(r, "backoff") /\ "backoff" \in Places /\ OthersKeep(r)
      BY <1>0, <1>1, <2>1 DEF Moves, Places, Served, OthersKeep
    <2>4. /\ buf' \in [Requests -> Buffers \cup {NoBuffer}] /\ pool' \subseteq Buffers
          /\ \A q \in Requests : q # r => SameFor(q)
      BY <1>0, <1>1, <2>3, GivesBack DEF HandlerFuns
    <2>5. HandlerFuns'
      BY <1>0, <1>1, <2>1, <2>4 DEF HandlerFuns, SlotMoves, Places, Labels
    <2> QED
      BY <1>1, <2>2, <2>3, <2>4, <2>5, RequestStep
  <1> QED
    BY <1>3, <1>4

\* The reverse proxy panics.
LEMMA AbortStep ==
    ASSUME ProxyInv, NEW r \in Requests, Abort(r)
    PROVE  ProxyInv'
  <1>0. /\ HandlerFuns /\ Counts /\ Stacked(r) /\ History(r) /\ Placed(r) /\ route[r] \in Routes \cup {NoRoute}
        /\ MaxAttempts(r) \in Nat /\ attempt[r] \in Nat /\ Len(answers[r]) \in Nat /\ active \in Int
    BY Parts
  <1>1. /\ rpc[r] \in {"buffering", "streaming"} /\ rpc' = [rpc EXCEPT ![r] = "unwind"]
        /\ SlotMoves(r, pc[r]) /\ pc[r] \in Labels
        /\ UNCHANGED <<route, attempt, cancelled, answers, reported, active>>
    BY <1>0, StackMoves DEF Abort, Goto, HandlerFuns
  <1>2. /\ History(r)' /\ MaxAttempts(r)' = MaxAttempts(r) /\ \A n : Failed(r, n)' <=> Failed(r, n)
    BY <1>1, Parts
  <1>3. /\ attempt[r] \in 1..MaxAttempts(r) /\ Len(answers[r]) = attempt[r] - 1 /\ Failed(r, attempt[r] - 1)
        /\ reply[r] = <<>> /\ pc[r] = "in"
    BY <1>0, <1>1 DEF Placed, Stacked
  <1>4. Moves(r, "unwind") /\ "unwind" \in Places
    BY <1>0, <1>1 DEF Moves, Places, Served
  <1>5. ASSUME Len(reply'[r]) <= 1 PROVE Request(r)'
    <2>1. Stacked(r)' /\ ~Holds(r)' /\ rpc'[r] = "unwind"
      BY <1>0, <1>1, <1>3 DEF Stacked, SlotMoves, Holds, HandlerFuns
    <2>2. Failed(r, attempt[r] - 2)
      BY <1>3 DEF Failed
    <2>3. Placed(r)'
      BY <1>0, <1>1, <1>2, <1>3, <1>5, <2>1, <2>2 DEF Placed
    <2> QED
      BY <1>0, <1>1, <1>2, <2>1, <2>3 DEF Request
  <1>6. CASE rpc[r] = "buffering"
    <2>1. /\ pool' = pool \cup {buf[r]} /\ buf' = [buf EXCEPT ![r] = NoBuffer]
          /\ content' = [content EXCEPT ![buf[r]] = [status |-> 0, written |-> FALSE]] /\ UNCHANGED reply
      BY <1>6 DEF Abort
    <2>2. Request(r)'
      <3>1. Len(reply'[r]) = 0
        BY <1>3, <2>1
      <3> QED
        BY <1>5, <3>1
    <2>3. OthersKeep(r) /\ Holds(r) /\ DOMAIN content' = Buffers
      BY <1>0, <1>1, <1>6, <2>1 DEF OthersKeep, Holds, HandlerFuns
    <2>4. /\ buf' \in [Requests -> Buffers \cup {NoBuffer}] /\ pool' \subseteq Buffers
          /\ \A q \in Requests : q # r => SameFor(q)
      <3>1. \A b \in Buffers : b # buf[r] => content'[b] = content[b]
        BY <1>0, <2>1 DEF HandlerFuns
      <3> QED
        BY <2>1, <2>3, <3>1, GivesBack
    <2>5. HandlerFuns'
      BY <1>0, <1>1, <2>1, <2>3, <2>4 DEF HandlerFuns, SlotMoves, Places, Labels
    <2> QED
      BY <1>1, <1>4, <2>2, <2>4, <2>5, RequestStep
  <1>7. CASE rpc[r] = "streaming"
    <2>1. PICK st \in Statuses : reply' = [reply EXCEPT ![r] = Append(@, st)]
      BY <1>7 DEF Abort, Reply
    <2>2. UNCHANGED bufVars
      BY <1>7 DEF Abort
    <2>3. Request(r)'
      <3>1. reply'[r] = <<st>>
        BY <1>0, <1>3, <2>1 DEF HandlerFuns
      <3>2. Len(reply'[r]) = 1
        BY <3>1
      <3> QED
        BY <1>5, <3>2
    <2>4. OthersKeep(r)
      BY <1>1, <2>1 DEF OthersKeep
    <2>5. HandlerFuns'
      BY <1>0, <1>1, <2>1, <2>2 DEF HandlerFuns, SlotMoves, Places, Labels, bufVars
    <2> QED
      BY <1>1, <1>4, <2>2, <2>3, <2>4, <2>5, QuietStep
  <1> QED
    BY <1>1, <1>6, <1>7

\* The end of an attempt's report, of the request, and the next request.
LEMMA EndStep ==
    ASSUME ProxyInv, NEW r \in Requests, FinishRecord(r) \/ Unwind(r) \/ Cancel(r) \/ Again(r)
    PROVE  ProxyInv'
  <1> USE DEF HandlerFuns, Goto, ghost, bufVars
  <1>0. /\ HandlerFuns /\ Counts /\ Stacked(r) /\ History(r) /\ Placed(r) /\ route[r] \in Routes \cup {NoRoute}
        /\ MaxAttempts(r) \in Nat /\ attempt[r] \in Nat /\ active \in Int /\ Request(r)
    BY Parts
  <1>1. CASE FinishRecord(r)
    <2>1. /\ SlotMoves(r, "in") /\ pc[r] = "adapt"
          /\ UNCHANGED <<rpc, route, attempt, cancelled, bufVars, reply, answers, reported, active>>
      BY <1>0, <1>1, StackMoves DEF FinishRecord
    <2>2. Request(r)'
      <3>1. Stacked(r)' /\ History(r)' /\ (Holds(r)' <=> Holds(r)) /\ MaxAttempts(r)' = MaxAttempts(r)
            /\ \A n : Failed(r, n)' <=> Failed(r, n)
        BY <1>0, <2>1, Parts DEF Stacked, SlotMoves, Holds
      <3>2. Placed(r)'
        BY <1>0, <2>1, <3>1 DEF Placed
      <3> QED
        BY <1>0, <2>1, <3>1, <3>2 DEF Request
    <2>3. HandlerFuns'
      BY <1>0, <2>1 DEF SlotMoves, Labels
    <2>4. Moves(r, rpc[r]) /\ rpc[r] \in Places /\ "in" \in Labels /\ OthersKeep(r)
      BY <1>0, <2>1 DEF Moves, Places, Labels, Served, OthersKeep
    <2>5. rpc[r] \in {"buffering", "replay", "retry"} => Holds(r)
      BY DEF Holds
    <2> QED
      BY <2>1, <2>2, <2>3, <2>4, <2>5, QuietStep
  <1>2. CASE Unwind(r)
    <2>1. /\ rpc[r] = "unwind" /\ rpc' = [rpc EXCEPT ![r] = "done"] /\ SlotMoves(r, "idle") /\ active' = active - 1
          /\ UNCHANGED <<route, attempt, cancelled, bufVars, reply, answers, reported>>
      BY <1>0, <1>2, StackMoves DEF Unwind
    <2>2. Request(r)'
      <3>1. Stacked(r)' /\ History(r)' /\ ~Holds(r)' /\ MaxAttempts(r)' = MaxAttempts(r)
            /\ \A n : Failed(r, n)' <=> Failed(r, n)
        BY <1>0, <2>1, Parts DEF Stacked, SlotMoves, Holds
      <3>2. Placed(r)'
        BY <1>0, <2>1, <3>1 DEF Placed
      <3> QED
        BY <1>0, <2>1, <3>1, <3>2 DEF Request
    <2>3. HandlerFuns'
      BY <1>0, <2>1 DEF SlotMoves, Places, Labels
    <2>4. Moves(r, "done") /\ "done" \in Places /\ "idle" \in Labels /\ OthersKeep(r)
      BY <1>0, <2>1 DEF Moves, Places, Labels, Served, OthersKeep
    <2> QED
      BY <2>1, <2>2, <2>3, <2>4, QuietStep
  <1>3. CASE Cancel(r)
    <2>1. /\ SlotMoves(r, pc[r]) /\ pc[r] \in Labels /\ cancelled' = [cancelled EXCEPT ![r] = TRUE]
          /\ UNCHANGED <<pc, rpc, route, attempt, bufVars, reply, answers, reported, active>>
      BY <1>0, <1>3, StackMoves DEF Cancel, stackVars
    <2>2. Request(r)'
      <3>1. SameFor(r)
        BY <1>0, <2>1 DEF SameFor, Request
      <3> QED
        BY <1>0, <2>1, <3>1, SameRequest
    <2>3. HandlerFuns'
      BY <1>0, <2>1
    <2>4. Moves(r, rpc[r]) /\ rpc[r] \in Places /\ OthersKeep(r)
      BY <1>0, <2>1 DEF Moves, Places, Served, OthersKeep
    <2>5. rpc[r] \in {"buffering", "replay", "retry"} => Holds(r)
      BY DEF Holds
    <2> QED
      BY <2>1, <2>2, <2>3, <2>4, <2>5, QuietStep
  <1>4. CASE Again(r)
    <2>1. /\ rpc[r] = "done" /\ rpc' = [rpc EXCEPT ![r] = "new"] /\ SlotMoves(r, pc[r]) /\ pc[r] \in Labels
          /\ route' = [route EXCEPT ![r] = NoRoute] /\ attempt' = [attempt EXCEPT ![r] = 0]
          /\ cancelled' = [cancelled EXCEPT ![r] = FALSE] /\ reply' = [reply EXCEPT ![r] = <<>>]
          /\ answers' = [answers EXCEPT ![r] = <<>>] /\ reported' = [reported EXCEPT ![r] = <<>>]
          /\ UNCHANGED <<bufVars, active>>
      BY <1>0, <1>4, StackMoves DEF Again
    <2>2. Request(r)'
      <3>1. Stacked(r)' /\ ~Holds(r)' /\ rpc'[r] = "new" /\ route'[r] = NoRoute
        BY <1>0, <2>1 DEF Stacked, SlotMoves, Holds
      <3>2. answers'[r] = <<>> /\ reported'[r] = <<>> /\ reply'[r] = <<>> /\ attempt'[r] = 0
        BY <1>0, <2>1
      <3>3. History(r)' /\ Placed(r)'
        BY <3>1, <3>2, EmptySeq DEF History, Placed
      <3> QED
        BY <3>1, <3>3 DEF Request
    <2>3. HandlerFuns'
      BY <1>0, <2>1 DEF SlotMoves, Places
    <2>4. Moves(r, "new") /\ "new" \in Places /\ OthersKeep(r)
      BY <1>0, <2>1 DEF Moves, Places, Served, OthersKeep
    <2> QED
      BY <2>1, <2>2, <2>3, <2>4, QuietStep
  <1> QED
    BY <1>1, <1>2, <1>3, <1>4

\* Steps that leave the requests and the slots alone.
LEMMA IdleStep ==
    ASSUME ProxyInv, UNCHANGED <<sem, pc, rpc, route, attempt, cancelled, bufVars, ghost, active>>
    PROVE  ProxyInv'
  <1>0. HandlerFuns /\ Counts /\ Apart /\ \A q \in Requests : Request(q)
    BY DEF ProxyInv
  <1>1. \A q \in Requests : SameFor(q)
    BY <1>0 DEF SameFor, Request, bufVars, ghost
  <1>2. \A q \in Requests : Request(q)'
    BY <1>0, <1>1, SameRequest
  <1>3. HandlerFuns' /\ Counts'
    BY <1>0 DEF HandlerFuns, Counts, Count, bufVars, ghost
  <1>4. Apart'
    BY <1>0 DEF Apart, Holds, bufVars
  <1> QED
    BY <1>2, <1>3, <1>4 DEF ProxyInv

\* Every step of the proxy keeps the invariant.
LEMMA ProxyStep ==
    ASSUME ProxyInv, [Next]_vars
    PROVE  ProxyInv'
  <1>1. ASSUME NEW r \in Requests, Handle(r) \/ Cancel(r) \/ Again(r) PROVE ProxyInv'
    BY <1>1, EntryStep, LoopStep, StartBufferedStep, BufferedAnswerStep, StreamedAnswerStep, AbortStep,
       BufferStep, EndStep DEF Handle
  <1>2. CASE Background
    <2>1. UNCHANGED <<sem, pc>>
      BY <1>2 DEF Background, CB!Tick, CB!UpdateConfig, CB!callerVars
    <2> QED
      BY <1>2, <2>1, IdleStep DEF Background
  <1>3. CASE UNCHANGED vars
    BY <1>3, IdleStep DEF vars, stackVars
  <1> QED
    BY <1>1, <1>2, <1>3 DEF Next

\* Before the first request.
LEMMA ProxyInit == Init => ProxyInv
  <1> SUFFICES ASSUME Init PROVE ProxyInv
    OBVIOUS
  <1>1. pc = [r \in Requests |-> "idle"] /\ sem = 0
    BY DEF Init, CB!Init
  <1>2. HandlerFuns
    BY <1>1 DEF Init, HandlerFuns, Places, Labels
  <1>3. Counts
    <2>1. {r \in Requests : pc[r] \in Inside} = {} /\ {r \in Requests : rpc[r] \in Served} = {}
      BY <1>1 DEF Init, Inside, Served
    <2> QED
      BY <1>1, <2>1, FS_EmptySet DEF Init, Counts, Count
  <1>4. ASSUME NEW r \in Requests PROVE Request(r) /\ ~Holds(r)
    BY <1>1, EmptySeq DEF Init, Request, Stacked, History, Placed, Holds
  <1> QED
    BY <1>2, <1>3, <1>4 DEF ProxyInv, Apart

\* The invariant holds in every reachable state.
LEMMA ProxySafe == Spec => []ProxyInv
  BY ProxyInit, ProxyStep, PTL DEF Spec

-----------------------------------------------------------------------------
\* bulkhead.go:36-38, 60-61: on every way out of ServeHTTP the slot goes back and the gauge goes
\* down, and not before.
THEOREM ProxySlotsFollowRequests == Spec => []SlotsFollowRequests
  <1>1. ProxyInv => SlotsFollowRequests
    <2> SUFFICES ASSUME ProxyInv PROVE SlotsFollowRequests
      OBVIOUS
    <2>0. HandlerFuns /\ Counts /\ \A r \in Requests : Stacked(r) /\ Placed(r)
      BY DEF ProxyInv, Request
    <2>1. {r \in Requests : rpc[r] \in Served} = {r \in Requests : rpc[r] \notin {"new", "allow", "done"}}
      BY <2>0 DEF HandlerFuns, Served
    <2>2. {r \in Requests : pc[r] \in Inside}
            = {r \in Requests : rpc[r] \notin {"new", "done"} /\ pc[r] \notin {"idle", "out"}}
      BY <2>0 DEF HandlerFuns, Inside, Labels, Places, Stacked
    <2>3. active \in 0..Cardinality(Requests)
      <3> DEFINE F == {r \in Requests : rpc[r] \in Served}
      <3>1. F \in SUBSET Requests
        OBVIOUS
      <3> HIDE DEF F
      <3>2. Cardinality(F) \in 0..Cardinality(Requests)
        BY <3>1, ProxyAssumption, FS_Subset, FS_CardinalityType
      <3> QED
        BY <2>0, <3>2 DEF Counts, Count, F
    <2>4. ASSUME NEW r \in Requests PROVE attempt[r] \in 0..MaxAttempts(r)
      <3>1. rpc[r] \in Places /\ MaxAttempts(r) \in Nat /\ attempt[r] \in Nat
        BY <2>0, Parts DEF HandlerFuns
      <3> QED
        BY <2>0, <3>1 DEF Placed, Places
    <2> QED
      BY <2>0, <2>1, <2>2, <2>3, <2>4 DEF SlotsFollowRequests, TypeOK, HandlerFuns, Counts, Count, Places
  <1> QED
    BY <1>1, ProxySafe, PTL

\* proxy.go: a client gets at most one response, and it is the last attempt's answer: neither an
\* earlier attempt nor another request's pooled buffer shows through.
THEOREM ProxyOneTruthfulReply == Spec => []OneTruthfulReply
  <1>1. ProxyInv => OneTruthfulReply
    <2> SUFFICES ASSUME ProxyInv, NEW r \in Requests
                 PROVE  /\ Len(reply[r]) <= 1
                        /\ (rpc[r] = "done" /\ attempt[r] > 0 /\ Len(answers[r]) = attempt[r])
                           => LET ws == answers[r][attempt[r]]
                              IN  Plain(ws) => reply[r] = <<Final(ws)>>
      BY DEF OneTruthfulReply
    <2>1. Placed(r) /\ Len(<<>>) = 0
      BY Parts
    <2> QED
      BY <2>1 DEF Placed
  <1> QED
    BY <1>1, ProxySafe, PTL

\* proxy.go's retry budget: at most RetryAttempts + 1 attempts, and every one but the last failed
\* in a retryable way.
THEOREM ProxyRetriesJustified == Spec => []RetriesJustified
  <1>1. ProxyInv => RetriesJustified
    <2> SUFFICES ASSUME ProxyInv, NEW r \in Requests
                 PROVE  /\ Len(answers[r]) <= MaxAttempts(r)
                        /\ Failed(r, Len(answers[r]) - 1)
      BY DEF RetriesJustified, Failed
    <2>1. /\ Placed(r) /\ rpc[r] \in Places /\ MaxAttempts(r) \in Nat /\ attempt[r] \in Nat
          /\ Len(answers[r]) \in Nat
      BY Parts DEF HandlerFuns
    <2>2. \A m, n \in Int : Failed(r, n) /\ m <= n => Failed(r, m)
      BY DEF Failed
    <2>3. CASE rpc[r] \in {"new", "allow"}
      BY <2>1, <2>3 DEF Placed, Failed
    <2>4. CASE rpc[r] \in {"loop", "buffering", "streaming"}
      BY <2>1, <2>2, <2>4 DEF Placed
    <2>5. CASE rpc[r] \in {"retry", "backoff"}
      BY <2>1, <2>2, <2>5 DEF Placed
    <2>6. CASE rpc[r] \in {"replay", "unwind", "done"}
      BY <2>1, <2>6 DEF Placed
    <2> QED
      BY <2>1, <2>3, <2>4, <2>5, <2>6 DEF Places
  <1> QED
    BY <1>1, ProxySafe, PTL

\* proxy.go: every answered attempt is reported to the breaker once, in order, with the outcome its
\* final status calls for.
THEOREM ProxyReportsMatchAnswers == Spec => []ReportsMatchAnswers
  <1>1. ProxyInv => ReportsMatchAnswers
    BY DEF ProxyInv, Request, History, ReportsMatchAnswers
  <1> QED
    BY <1>1, ProxySafe, PTL

\* composite.go under proxy.go: the handlers call the stack as it may be called, Allow before any
\* outcome and Release last, so that what is proved of the stack holds under the proxy.
THEOREM ProxyUsesStack == Spec => CB!Spec
  <1>1. Init => CB!Init
    BY DEF Init
  <1>2. [Next]_vars => [CB!Next]_CB!vars
    <2> SUFFICES ASSUME [Next]_vars PROVE [CB!Next]_CB!vars
      OBVIOUS
    <2>1. UNCHANGED stackVars => UNCHANGED CB!vars
      BY DEF stackVars, CB!vars, CB!breakerVars, CB!callerVars
    <2>2. ASSUME NEW r \in Requests, Handle(r) \/ Cancel(r) \/ Again(r)
          PROVE  CB!Next \/ UNCHANGED stackVars
      <3>1. CASE AskBreaker(r)
        BY <3>1 DEF AskBreaker, CB!Next, CB!Serving, CB!CallerStep
      <3>2. CASE Shed(r)
        BY <3>2 DEF Shed, CB!Next, CB!Serving, CB!CallerStep
      <3>3. CASE BufferedAnswer(r) \/ StreamedAnswer(r)
        <4>1. \E l \in Latencies : CB!RecordFailure(r, l) \/ CB!RecordSuccess(r, l)
          BY <3>3 DEF BufferedAnswer, StreamedAnswer, Report
        <4> QED
          BY <4>1 DEF CB!Next, CB!Serving, CB!CallerStep
      <3>4. CASE FinishRecord(r)
        BY <3>4 DEF FinishRecord, CB!Next, CB!Serving, CB!CallerStep
      <3>5. CASE Unwind(r)
        BY <3>5 DEF Unwind, CB!Next, CB!Serving, CB!CallerStep
      <3> QED
        BY <2>2, <3>1, <3>2, <3>3, <3>4, <3>5
           DEF Handle, Refuse, Match, Enter, GiveUp, StartFinal, StartBuffered, Abort, Replay, Drop, Wake, Cancel, Again
    <2>3. CASE Background
      BY <2>3 DEF Background, CB!Next, CB!Serving
    <2>4. CASE UNCHANGED vars
      BY <2>1, <2>4 DEF vars
    <2> QED
      BY <2>1, <2>2, <2>3, <2>4 DEF Next
  <1> QED
    BY <1>1, <1>2, PTL DEF Spec, CB!Spec

\* The failure-rate breaker of CompositeBreakerProofs is the proxy's, method by method.
LEMMA SameInner ==
    /\ \A cfg : CB!FR!NewFailureRateBreaker(cfg) <=> CBP!FR!NewFailureRateBreaker(cfg)
    /\ \A ok : CB!FR!Allow(ok) <=> CBP!FR!Allow(ok)
    /\ CB!FR!RecordSuccess <=> CBP!FR!RecordSuccess
    /\ CB!FR!RecordFailure <=> CBP!FR!RecordFailure
    /\ \A t : CB!FR!SetFailureThreshold(t) <=> CBP!FR!SetFailureThreshold(t)
    /\ CB!FR!Reset <=> CBP!FR!Reset
    /\ \A cfg : CB!FR!UpdateConfig(cfg) <=> CBP!FR!UpdateConfig(cfg)
    /\ CB!FR!Tick <=> CBP!FR!Tick
  <1> USE DEF CB!FR!transitionTo, CB!FR!enterState, CB!FR!emptyWindow, CB!FR!recordOutcome, CB!FR!Tripped,
              CB!FR!EmptyWindow, CB!FR!Slots, CB!FR!ring, CB!FR!fsm, CB!FR!params, CBP!FR!transitionTo,
              CBP!FR!enterState, CBP!FR!emptyWindow, CBP!FR!recordOutcome, CBP!FR!Tripped,
              CBP!FR!EmptyWindow, CBP!FR!Slots, CBP!FR!ring, CBP!FR!fsm, CBP!FR!params
  <1>1. \A cfg : CB!FR!NewFailureRateBreaker(cfg) <=> CBP!FR!NewFailureRateBreaker(cfg)
    BY DEF CB!FR!NewFailureRateBreaker, CBP!FR!NewFailureRateBreaker
  <1>2. \A ok : CB!FR!Allow(ok) <=> CBP!FR!Allow(ok)
    BY DEF CB!FR!Allow, CBP!FR!Allow
  <1>3. CB!FR!RecordSuccess <=> CBP!FR!RecordSuccess
    BY DEF CB!FR!RecordSuccess, CBP!FR!RecordSuccess
  <1>4. CB!FR!RecordFailure <=> CBP!FR!RecordFailure
    BY DEF CB!FR!RecordFailure, CBP!FR!RecordFailure
  <1>5. \A t : CB!FR!SetFailureThreshold(t) <=> CBP!FR!SetFailureThreshold(t)
    BY DEF CB!FR!SetFailureThreshold, CBP!FR!SetFailureThreshold
  <1>6. CB!FR!Reset <=> CBP!FR!Reset
    BY DEF CB!FR!Reset, CBP!FR!Reset
  <1>7. \A cfg : CB!FR!UpdateConfig(cfg) <=> CBP!FR!UpdateConfig(cfg)
    BY DEF CB!FR!UpdateConfig, CBP!FR!UpdateConfig
  <1>8. CB!FR!Tick <=> CBP!FR!Tick
    BY DEF CB!FR!Tick, CBP!FR!Tick
  <1> QED
    BY <1>1, <1>2, <1>3, <1>4, <1>5, <1>6, <1>7, <1>8

\* The stack of CompositeBreakerProofs is the proxy's.
LEMMA SameStack ==
    /\ CB!Init <=> CBP!Init
    /\ CB!Next <=> CBP!Next
    /\ UNCHANGED CB!vars <=> UNCHANGED CBP!vars
  <1>1. UNCHANGED CB!vars <=> UNCHANGED CBP!vars
    BY DEF CB!vars, CB!breakerVars, CB!callerVars, CBP!vars, CBP!breakerVars, CBP!callerVars
  <1>2. CB!Init <=> CBP!Init
    BY SameInner DEF CB!Init, CBP!Init
  <1>3. ASSUME NEW c \in Requests
        PROVE  CB!CallerStep(c) <=> CBP!CallerStep(c)
    <2>1. /\ CB!TakeSlot(c) <=> CBP!TakeSlot(c)
          /\ CB!NoSlot(c) <=> CBP!NoSlot(c)
          /\ CB!GiveBack(c) <=> CBP!GiveBack(c)
          /\ CB!Leave(c) <=> CBP!Leave(c)
          /\ CB!Release(c) <=> CBP!Release(c)
      BY DEF CB!TakeSlot, CB!NoSlot, CB!GiveBack, CB!Leave, CB!Release, CB!Bulkhead, CB!Goto,
             CB!breakerVars, CBP!TakeSlot, CBP!NoSlot, CBP!GiveBack, CBP!Leave, CBP!Release, CBP!Bulkhead,
             CBP!Goto, CBP!breakerVars
    <2>2. ASSUME NEW ok \in BOOLEAN
          PROVE  CB!InnerAllow(c, ok) <=> CBP!InnerAllow(c, ok)
      BY SameInner DEF CB!InnerAllow, CB!Bulkhead, CB!Goto, CBP!InnerAllow, CBP!Bulkhead, CBP!Goto
    <2>3. ASSUME NEW l \in Latencies
          PROVE  /\ CB!RecordSuccess(c, l) <=> CBP!RecordSuccess(c, l)
                 /\ CB!RecordFailure(c, l) <=> CBP!RecordFailure(c, l)
      BY SameInner DEF CB!RecordSuccess, CB!RecordFailure, CB!Report, CB!Goto, CBP!RecordSuccess, CBP!RecordFailure,
             CBP!Report, CBP!Goto
    <2>4. CB!UpdateThreshold(c) <=> CBP!UpdateThreshold(c)
      BY SameInner DEF CB!UpdateThreshold, CB!Ewma, CB!ThresholdFor, CB!BaseThreshold, CB!Goto, CBP!UpdateThreshold,
             CBP!Ewma, CBP!ThresholdFor, CBP!BaseThreshold, CBP!Goto
    <2> QED
      BY <2>1, <2>2, <2>3, <2>4 DEF CB!CallerStep, CBP!CallerStep
  <1>4. ASSUME NEW cfg \in Configs
        PROVE  CB!UpdateConfig(cfg) <=> CBP!UpdateConfig(cfg)
    BY SameInner DEF CB!UpdateConfig, CB!callerVars, CBP!UpdateConfig, CBP!callerVars
  <1>5. (CB!Tick <=> CBP!Tick) /\ (CB!Reset <=> CBP!Reset)
    BY SameInner DEF CB!Tick, CB!Reset, CB!callerVars, CBP!Tick, CBP!Reset, CBP!callerVars
  <1>6. CB!ResetAdaptive <=> CBP!ResetAdaptive
    BY SameInner DEF CB!ResetAdaptive, CB!callerVars, CB!BaseThreshold, CBP!ResetAdaptive, CBP!callerVars, CBP!BaseThreshold
  <1> QED
    BY <1>1, <1>2, <1>3, <1>4, <1>5, <1>6 DEF CB!Next, CB!Serving, CBP!Next, CBP!Serving

\* proxy.go over composite.go over failure_rate.go: under every interleaving of handlers,
\* retries, panics and reloads, the bulkhead's slots are accounted for, the failure-rate breaker
\* takes steps of its own only, and the circuit opens and closes as the sliding window of the
\* reported outcomes demands.
THEOREM ProxyDecidesOnWindow ==
    Spec => []CBP!SlotAccounting /\ CBP!ImplementsFailureRate /\ CBP!FRP!ImplementsSlidingWindow
  <1>1. CBP!LayerAssumption /\ CBP!BreakerAssumption
    BY StackAssumption DEF CB!LayerAssumption, CBP!LayerAssumption
  <1>2. CBP!Spec => []CBP!SlotAccounting /\ CBP!ImplementsFailureRate /\ CBP!FRP!ImplementsSlidingWindow
    BY <1>1, CBP!StackSlotAccounting, CBP!StackImplementsBreaker, CBP!StackImplementsWindow
  <1>3. CB!Spec => CBP!Spec
    <2>1. [CB!Next]_CB!vars => [CBP!Next]_CBP!vars
      BY SameStack
    <2> QED
      BY <2>1, SameStack, PTL DEF CB!Spec, CBP!Spec
  <1> QED
    BY <1>2, <1>3, ProxyUsesStack, PTL
=============================================================================
