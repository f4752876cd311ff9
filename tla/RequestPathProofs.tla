-------------------------- MODULE RequestPathProofs --------------------------
(***************************************************************************)
(* The global deadline and the middleware chain, for any number of         *)
(* requests and any requests, replies and limits.                          *)
(*                                                                         *)
(* First module Deadline on its own; then the chain, every step of which   *)
(* is one of Deadline's or leaves Deadline's variables alone, so that it   *)
(* inherits what was proved there; then what the upstream sees and what    *)
(* the access log says.                                                    *)
(***************************************************************************)
EXTENDS RequestPath, FiniteSetTheorems, SequenceTheorems, TLAPS

Writers == {"handler", "deadline", "recovery"}

\* Where the two goroutines of one request can be relative to each other.  Whoever claimed
\* the response has written, or is about to; the middleware writes once.
Race(r) ==
    /\ mpc[r] = "idle" <=> hpc[r] = "off"
    /\ mpc[r] = "returned" => hpc[r] = "done"
    /\ mpc[r] = "direct" => hpc[r] # "done"
    /\ mpc[r] = "gone" => hpc[r] = "gone"
    /\ claimed[r] => \/ wire[r] # <<>> \/ hpc[r] = "writing" \/ mpc[r] \in {"write", "gone"}
    /\ mpc[r] \in {"write", "wait"} => claimed[r]
    /\ mpc[r] \in {"idle", "direct", "select", "claim", "write"} => Writes(r, "deadline") = 0
    /\ hpc[r] = "writing" => Writes(r, "handler") < MaxWrites
    /\ mpc[r] \in {"select", "claim", "write", "wait"} => timeout
    /\ timeout => mpc[r] # "direct"

DeadlineInv ==
    /\ TypeOK
    /\ wire \in [Requests -> Seq(Writers)]
    /\ \A r \in Requests : Race(r)

-----------------------------------------------------------------------------
\* Writes counts, and one more write is counted once.
LEMMA WritesStep ==
    ASSUME wire \in [Requests -> Seq(Writers)], NEW r \in Requests, NEW who \in Writers,
           wire' = [wire EXCEPT ![r] = Append(@, who)]
    PROVE  /\ wire' \in [Requests -> Seq(Writers)] /\ wire'[r] # <<>>
           /\ \A x \in Requests : x # r => wire'[x] = wire[x]
           /\ \A w \in Writers : /\ Writes(r, w) \in Nat
                                 /\ Writes(r, w)' = IF w = who THEN Writes(r, w) + 1 ELSE Writes(r, w)
  <1> DEFINE s == wire[r]
             t == wire'[r]
             In(w) == {i \in 1..Len(s) : s[i] = w}
             Out(w) == {i \in 1..Len(t) : t[i] = w}
  <1>1. s \in Seq(Writers) /\ t = Append(s, who) /\ wire' \in [Requests -> Seq(Writers)] /\ t # <<>>
    BY AppendProperties
  <1>2. /\ Len(s) \in Nat /\ Len(t) = Len(s) + 1
        /\ \A i \in 1..Len(t) : t[i] = IF i <= Len(s) THEN s[i] ELSE who
    BY <1>1, AppendProperties
  <1>3. ASSUME NEW w \in Writers
        PROVE  /\ Writes(r, w) \in Nat
               /\ Writes(r, w)' = IF w = who THEN Writes(r, w) + 1 ELSE Writes(r, w)
    <2>1. Writes(r, w) = Cardinality(In(w)) /\ Writes(r, w)' = Cardinality(Out(w))
      BY DEF Writes
    <2>2. IsFiniteSet(In(w))
      <3>1. IsFiniteSet(1..Len(s)) /\ In(w) \in SUBSET (1..Len(s))
        BY <1>2, FS_Interval
      <3> QED
        BY <3>1, FS_Subset
    <2>3. Out(w) = IF w = who THEN In(w) \cup {Len(s) + 1} ELSE In(w)
      BY <1>2
    <2>4. Len(s) + 1 \notin In(w)
      BY <1>2
    <2>5. /\ Cardinality(In(w)) \in Nat
          /\ Cardinality(In(w) \cup {Len(s) + 1}) = Cardinality(In(w)) + 1
      BY <2>2, <2>4, FS_CardinalityType, FS_AddElement
    <2> QED
      BY <2>1, <2>3, <2>5
  <1>4. \A x \in Requests : x # r => wire'[x] = wire[x]
    OBVIOUS
  <1> QED
    BY <1>1, <1>3, <1>4

\* A request that a step does not touch keeps its race as it was.
LEMMA RaceFrame ==
    ASSUME NEW x \in Requests, Race(x),
           mpc'[x] = mpc[x], hpc'[x] = hpc[x], claimed'[x] = claimed[x], wire'[x] = wire[x], UNCHANGED timeout
    PROVE  Race(x)'
  <1>1. \A w : Writes(x, w)' = Writes(x, w)
    BY DEF Writes
  <1> QED
    BY <1>1 DEF Race

\* Every step of Deadline keeps the invariant.
LEMMA DeadlineStep ==
    ASSUME DeadlineInv, [Next]_vars
    PROVE  DeadlineInv'
  <1> USE DeadlineAssumption DEF Set
  <1>0. /\ TypeOK /\ wire \in [Requests -> Seq(Writers)] /\ \A x \in Requests : Race(x)
    BY DEF DeadlineInv
  <1>1. ASSUME NEW r \in Requests, Start(r) \/ Expire(r) \/ Step(r) \/ Handler(r)
        PROVE  DeadlineInv'
    <2>1. ASSUME UNCHANGED <<timeout, wire>>
          PROVE  \A x \in Requests, w \in Writers : Writes(x, w)' = Writes(x, w)
      BY <2>1 DEF Writes
    <2>2. ASSUME UNCHANGED <<timeout, wire>>,
                 mpc' \in [Requests -> {"idle", "direct", "select", "claim", "write", "wait", "returned", "gone"}],
                 hpc' \in [Requests -> {"off", "run", "writing", "done", "gone"}],
                 expired' \in [Requests -> BOOLEAN], claimed' \in [Requests -> BOOLEAN],
                 \A x \in Requests : x # r => mpc'[x] = mpc[x] /\ hpc'[x] = hpc[x] /\ claimed'[x] = claimed[x],
                 Race(r)'
          PROVE  DeadlineInv'
      <3>1. TypeOK'
        BY <1>0, <2>1, <2>2 DEF TypeOK, Writers
      <3>2. \A x \in Requests : Race(x)'
        BY <1>0, <2>2, RaceFrame
      <3> QED
        BY <1>0, <2>2, <3>1, <3>2 DEF DeadlineInv
    <2>3. CASE Start(r)
      <3>1. Race(r)'
        BY <1>0, <2>1, <2>3 DEF Start, Race, TypeOK, Writers
      <3> QED
        BY <1>0, <2>2, <2>3, <3>1 DEF Start, TypeOK
    <2>4. CASE Expire(r)
      <3>1. Race(r)'
        BY <1>0, <2>4, RaceFrame DEF Expire
      <3> QED
        BY <1>0, <2>2, <2>4, <3>1 DEF Expire, TypeOK
    <2>5. CASE SelectDone(r)
      <3>1. Race(r)'
        BY <1>0, <2>1, <2>5 DEF SelectDone, Race, TypeOK, Writers
      <3> QED
        BY <1>0, <2>2, <2>5, <3>1 DEF SelectDone, TypeOK
    <2>6. CASE SelectExpired(r)
      <3>1. Race(r)'
        BY <1>0, <2>1, <2>6 DEF SelectExpired, Race, TypeOK, Writers
      <3> QED
        BY <1>0, <2>2, <2>6, <3>1 DEF SelectExpired, TypeOK
    <2>7. CASE Claim(r)
      <3>1. Race(r)'
        BY <1>0, <2>1, <2>7 DEF Claim, Race, TypeOK, Writers
      <3> QED
        BY <1>0, <2>2, <2>7, <3>1 DEF Claim, TypeOK
    <2>8. CASE Wait(r)
      <3>1. Race(r)'
        BY <1>0, <2>1, <2>8 DEF Wait, Race, TypeOK, Writers
      <3> QED
        BY <1>0, <2>2, <2>8, <3>1 DEF Wait, TypeOK
    <2>9. CASE HandlerClaim(r)
      <3>1. Race(r)'
        BY <1>0, <2>1, <2>9 DEF HandlerClaim, Race, TypeOK, Writers
      <3> QED
        BY <1>0, <2>2, <2>9, <3>1 DEF HandlerClaim, TypeOK
    <2>10. CASE HandlerReturn(r)
      <3>1. Race(r)'
        BY <1>0, <2>1, <2>10 DEF HandlerReturn, Race, TypeOK, Writers
      <3> QED
        BY <1>0, <2>2, <2>10, <3>1 DEF HandlerReturn, TypeOK
    <2>11. CASE HandlerPanic(r) /\ timeout
      <3>1. /\ UNCHANGED <<timeout, wire, expired, claimed>>
            /\ \A x \in Requests : mpc'[x] = "gone" /\ hpc'[x] = "gone"
            /\ mpc' = [y \in Requests |-> "gone"] /\ hpc' = [y \in Requests |-> "gone"]
        BY <2>11 DEF HandlerPanic
      <3>2. \A x \in Requests : Race(x)'
        BY <3>1, <2>1 DEF Race
      <3>3. TypeOK'
        BY <1>0, <2>1, <3>1 DEF TypeOK, Writers
      <3> QED
        BY <1>0, <3>1, <3>2, <3>3 DEF DeadlineInv
    <2>12. ASSUME NEW who \in Writers, wire' = [wire EXCEPT ![r] = Append(@, who)],
                  HandlerWrite(r) \/ Write504(r) \/ (HandlerPanic(r) /\ ~timeout),
                  who = IF HandlerWrite(r) THEN "handler" ELSE IF Write504(r) THEN "deadline" ELSE "recovery"
           PROVE  DeadlineInv'
      <3>1. /\ wire' \in [Requests -> Seq(Writers)] /\ wire'[r] # <<>>
            /\ \A x \in Requests : x # r => wire'[x] = wire[x]
            /\ \A w \in Writers : /\ Writes(r, w) \in Nat
                                  /\ Writes(r, w)' = IF w = who THEN Writes(r, w) + 1 ELSE Writes(r, w)
        BY <1>0, <2>12, WritesStep
      <3>2. /\ UNCHANGED <<timeout, expired, claimed>>
            /\ mpc' \in [Requests -> {"idle", "direct", "select", "claim", "write", "wait", "returned", "gone"}]
            /\ hpc' \in [Requests -> {"off", "run", "writing", "done", "gone"}]
            /\ \A x \in Requests : x # r => mpc'[x] = mpc[x] /\ hpc'[x] = hpc[x]
        BY <1>0, <2>12 DEF HandlerWrite, Write504, HandlerPanic, TypeOK
      <3>3. \A x \in Requests : x # r => Race(x)'
        BY <1>0, <3>1, <3>2, RaceFrame
      <3>4. Race(r)' /\ Writes(r, "deadline")' <= 1 /\ Writes(r, "handler")' <= MaxWrites
        <4>1. CASE HandlerWrite(r)
          <5>1. /\ mpc'[r] = mpc[r] /\ hpc[r] = "writing" /\ hpc'[r] = "run" /\ who = "handler"
            BY <1>0, <2>12, <4>1 DEF HandlerWrite, TypeOK
          <5> QED
            BY <1>0, <3>1, <3>2, <5>1 DEF Race, TypeOK, Writers
        <4>2. CASE Write504(r) /\ ~HandlerWrite(r)
          <5>1. /\ hpc'[r] = hpc[r] /\ mpc[r] = "write" /\ mpc'[r] = "wait" /\ who = "deadline"
            BY <1>0, <2>12, <4>2 DEF Write504, TypeOK
          <5>2. claimed[r]
            BY <1>0, <5>1 DEF Race
          <5> QED
            BY <1>0, <3>1, <3>2, <5>1, <5>2 DEF Race, TypeOK, Writers
        <4>3. CASE HandlerPanic(r) /\ ~timeout /\ ~HandlerWrite(r) /\ ~Write504(r)
          BY <1>0, <2>12, <3>1, <4>3 DEF HandlerPanic, Race, TypeOK, Writers
        <4> QED
          BY <2>12, <4>1, <4>2, <4>3
      <3>5. \A x \in Requests : \A w : x # r => Writes(x, w)' = Writes(x, w)
        BY <3>1 DEF Writes
      <3>6. TypeOK'
        BY <1>0, <3>2, <3>4, <3>5 DEF TypeOK
      <3> QED
        BY <3>1, <3>3, <3>4, <3>6 DEF DeadlineInv
    <2>13. CASE HandlerWrite(r) \/ Write504(r) \/ (HandlerPanic(r) /\ ~timeout)
      <3>1. \E who \in Writers :
              /\ wire' = [wire EXCEPT ![r] = Append(@, who)]
              /\ who = IF HandlerWrite(r) THEN "handler" ELSE IF Write504(r) THEN "deadline" ELSE "recovery"
        BY <2>13 DEF HandlerWrite, Write504, HandlerPanic, Writers
      <3> QED
        BY <2>12, <2>13, <3>1
    <2> QED
      BY <1>1, <2>3, <2>4, <2>5, <2>6, <2>7, <2>8, <2>9, <2>10, <2>11, <2>13 DEF Step, Handler
  <1>2. CASE UNCHANGED vars
    <2>1. \A x \in Requests : \A w : Writes(x, w)' = Writes(x, w)
      BY <1>2 DEF Writes, vars
    <2> QED
      BY <1>0, <1>2, <2>1, RaceFrame DEF vars, DeadlineInv, TypeOK
  <1> QED
    BY <1>1, <1>2 DEF Next

\* Before the first request nothing is claimed and nothing written.
LEMMA DeadlineInit == Init => DeadlineInv
  <1> SUFFICES ASSUME Init PROVE DeadlineInv
    OBVIOUS
  <1>1. \A r \in Requests : \A w : Writes(r, w) = 0
    <2>1. ASSUME NEW r \in Requests, NEW w PROVE {i \in 1..Len(wire[r]) : wire[r][i] = w} = {}
      BY DEF Init
    <2> QED
      BY <2>1, FS_EmptySet DEF Writes
  <1>2. wire \in [Requests -> Seq(Writers)]
    BY EmptySeq DEF Init
  <1>3. \A r \in Requests : claimed[r] = FALSE /\ mpc[r] = "idle" /\ hpc[r] = "off"
    BY DEF Init
  <1> QED
    BY <1>1, <1>2, <1>3, DeadlineAssumption DEF Init, DeadlineInv, Race, TypeOK

\* What the invariant is for.
LEMMA DeadlineInvSuffices == DeadlineInv => NoWriterOutlives
  BY DEF DeadlineInv, NoWriterOutlives, Race, TypeOK

\* deadline.go: no goroutine of a request can write to the client after the middleware has
\* returned, and a request that was given up without a byte from its handler was answered.
THEOREM DeadlineNoWriterOutlives == Spec => []NoWriterOutlives
  BY DeadlineInit, DeadlineStep, DeadlineInvSuffices, PTL DEF Spec

-----------------------------------------------------------------------------
\* What statusRecorder holds after these writes: the last status, or the 200 it starts with.
LastStatus(writes, status) ==
    \/ status = 200 /\ \A i \in 1..Len(writes) : writes[i] = 0
    \/ \E k \in 1..Len(writes) : /\ writes[k] = status /\ status # 0
                                /\ \A j \in 1..Len(writes) : k < j => writes[j] = 0

\* One request in the chain: what it carries from one middleware to the next.
Carries(r) ==
    /\ req[r] \subseteq Inputs[r] /\ \A p, q \in req[r] : p = q
    /\ at[r] = "off" => req[r] = {}
    /\ hpc[r] = "off" => at[r] = "off"
    /\ at[r] \in {"off", "logging"} => reqBody[r] = <<>>
    /\ at[r] \in {"off", "logging", "chain"} =>
         /\ sent[r] = <<>> /\ out[r] = <<>> /\ recorded[r] = 200 /\ upstream[r] = {}
    /\ at[r] \in {"logging", "chain"} => \A q \in req[r] : body[r] = Bytes(q.body)
    /\ at[r] \in {"reply", "end"} => WellFormed(sent[r] \o out[r])
    /\ at[r] = "end" => out[r] = <<>>
    /\ hpc[r] = "writing" => at[r] = "reply" /\ out[r] # <<>>
    /\ sent[r] \in Seq(Nat) /\ out[r] \in Seq(Nat)
    /\ Logs(r) => LastStatus(sent[r], recorded[r])
    /\ capture[r] \in Seq({r}) /\ Len(capture[r]) <= MaxBodyLog
    /\ reqBody[r] # <<>> => \A q \in req[r] : reqBody[r] = First(Bytes(q.body), MaxBodyLog)
    /\ \A line \in logged[r] :
         /\ at[r] = "end" /\ Logs(r)
         /\ line = [status |-> recorded[r], request |-> reqBody[r], response |-> capture[r]]
    /\ \A u \in upstream[r], q \in req[r] :
         /\ Verdict(q) = <<>>
         /\ u = [bytes |-> First(Bytes(q.body), MaxBody), whole |-> q.body <= MaxBody]

ChainFuns ==
    /\ DOMAIN at = Requests /\ DOMAIN req = Requests /\ DOMAIN body = Requests
    /\ DOMAIN reqBody = Requests /\ DOMAIN out = Requests /\ DOMAIN sent = Requests
    /\ DOMAIN recorded = Requests /\ DOMAIN capture = Requests
    /\ DOMAIN logged = Requests /\ DOMAIN upstream = Requests

ChainInv == DeadlineInv /\ ChainFuns /\ \A r \in Requests : Carries(r)

-----------------------------------------------------------------------------
\* The beginning of a sequence.
LEMMA FirstFacts ==
    ASSUME NEW S, NEW s \in Seq(S), NEW n \in Nat
    PROVE  /\ First(s, n) \in Seq(S)
           /\ Len(First(s, n)) = IF Len(s) < n THEN Len(s) ELSE n
           /\ \A i \in 1..Len(First(s, n)) : First(s, n)[i] = s[i]
           /\ Len(s) <= n => First(s, n) = s
  <1> DEFINE k == IF Len(s) < n THEN Len(s) ELSE n
  <1>1. k \in 0..Len(s) /\ \A i \in 1..k : s[i] \in S
    BY LenProperties, ElementOfSeq
  <1>2. First(s, n) = SubSeq(s, 1, k)
    BY DEF First
  <1> HIDE DEF k
  <1>3. /\ SubSeq(s, 1, k) \in Seq(S) /\ Len(SubSeq(s, 1, k)) = k
        /\ \A i \in 1..k : SubSeq(s, 1, k)[i] = s[i]
    <2>1. /\ SubSeq(s, 1, k) \in Seq(S) /\ Len(SubSeq(s, 1, k)) = IF 1 <= k THEN k - 1 + 1 ELSE 0
          /\ \A i \in 1..(k - 1 + 1) : SubSeq(s, 1, k)[i] = s[1 + i - 1]
      BY <1>1, SubSeqProperties
    <2> QED
      BY <1>1, <2>1
  <1>4. Len(s) <= n => k = Len(s)
    BY DEF k
  <1>5. k = Len(s) => SubSeq(s, 1, k) = s
    BY SubSeqFull
  <1> QED
    BY <1>2, <1>3, <1>4, <1>5 DEF k

\* A body of n bytes.
LEMMA BytesFacts ==
    ASSUME NEW n \in Nat
    PROVE  Bytes(n) \in Seq(Nat) /\ Len(Bytes(n)) = n /\ \A i \in 1..n : Bytes(n)[i] = i
  BY DEF Bytes

\* captureRequestBody puts back what it read, and logs the beginning.
LEMMA CaptureKeepsBody ==
    ASSUME NEW b \in Seq(Nat)
    PROVE  /\ captureRequestBody(b).body = b
           /\ captureRequestBody(b).log = First(b, MaxBodyLog)
  <1> DEFINE c == First(b, MaxBodyLog + 1)
  <1>0. MaxBodyLog \in Nat
    BY ChainAssumption
  <1>1. /\ c \in Seq(Nat) /\ Len(c) \in 0..Len(b)
        /\ Len(c) = IF Len(b) < MaxBodyLog + 1 THEN Len(b) ELSE MaxBodyLog + 1
        /\ \A i \in 1..Len(c) : c[i] = b[i]
    BY <1>0, FirstFacts, LenProperties
  <1>2. c = SubSeq(b, 1, Len(c))
    BY <1>1 DEF First
  <1>3. c \o SubSeq(b, Len(c) + 1, Len(b)) = b
    <2>1. Len(b) \in Nat
      BY LenProperties
    <2>2. SubSeq(b, 1, Len(c)) \o SubSeq(b, Len(c) + 1, Len(b)) = SubSeq(b, 1, Len(b))
      <3> HIDE DEF c
      <3>1. 1 \in 1..(Len(b) + 1) /\ Len(c) \in (1 - 1)..Len(b) /\ Len(b) \in Len(c)..Len(b)
        BY <1>1, <2>1
      <3> QED
        BY <3>1, ConcatAdjacentSubSeq
    <2> QED
      BY <1>2, <2>2, SubSeqFull
  <1>4. First(c, MaxBodyLog) = First(b, MaxBodyLog)
    <2> HIDE DEF c
    <2>1. /\ First(c, MaxBodyLog) \in Seq(Nat) /\ First(b, MaxBodyLog) \in Seq(Nat)
          /\ Len(First(c, MaxBodyLog)) = IF Len(c) < MaxBodyLog THEN Len(c) ELSE MaxBodyLog
          /\ Len(First(b, MaxBodyLog)) = IF Len(b) < MaxBodyLog THEN Len(b) ELSE MaxBodyLog
          /\ \A i \in 1..Len(First(c, MaxBodyLog)) : First(c, MaxBodyLog)[i] = c[i]
          /\ \A i \in 1..Len(First(b, MaxBodyLog)) : First(b, MaxBodyLog)[i] = b[i]
      BY <1>0, <1>1, FirstFacts
    <2>2. Len(b) \in Nat
      BY LenProperties
    <2>3. Len(First(c, MaxBodyLog)) = Len(First(b, MaxBodyLog))
      BY <1>0, <1>1, <2>1, <2>2
    <2>4. \A i \in 1..Len(First(c, MaxBodyLog)) : First(c, MaxBodyLog)[i] = First(b, MaxBodyLog)[i]
      BY <1>0, <1>1, <2>1, <2>2, <2>3
    <2> QED
      BY <2>1, <2>3, <2>4, SeqEqual
  <1> QED
    BY <1>3, <1>4 DEF captureRequestBody

\* statusRecorder.WriteHeader, and Write, which does not touch the status.
LEMMA RecordsLast ==
    ASSUME NEW s \in Seq(Nat), NEW status \in Nat, LastStatus(s, status), NEW w \in Nat
    PROVE  LastStatus(Append(s, w), IF w # 0 THEN w ELSE status)
  <1> DEFINE t == Append(s, w)
  <1>1. /\ Len(s) \in Nat /\ Len(t) = Len(s) + 1
        /\ \A i \in 1..Len(t) : t[i] = IF i <= Len(s) THEN s[i] ELSE w
    BY AppendProperties, LenProperties
  <1> HIDE DEF t
  <1>2. CASE w # 0
    <2>1. t[Len(t)] = w /\ Len(t) \in 1..Len(t) /\ \A j \in 1..Len(t) : ~(Len(t) < j)
      BY <1>1
    <2> QED
      BY <1>2, <2>1 DEF LastStatus, t
  <1>3. CASE w = 0
    <2>1. CASE status = 200 /\ \A i \in 1..Len(s) : s[i] = 0
      BY <1>1, <1>3, <2>1 DEF LastStatus, t
    <2>2. CASE \E k \in 1..Len(s) : /\ s[k] = status /\ status # 0
                                    /\ \A j \in 1..Len(s) : k < j => s[j] = 0
      <3>1. PICK k \in 1..Len(s) : /\ s[k] = status /\ status # 0
                                   /\ \A j \in 1..Len(s) : k < j => s[j] = 0
        BY <2>2
      <3>2. k \in 1..Len(t) /\ t[k] = status /\ \A j \in 1..Len(t) : k < j => t[j] = 0
        BY <1>1, <1>3, <3>1
      <3> QED
        BY <1>3, <3>1, <3>2 DEF LastStatus, t
    <2> QED
      BY <2>1, <2>2 DEF LastStatus
  <1> QED
    BY <1>2, <1>3

\* For writes as the router makes them, the last status is the one that counts, unless it is
\* informational.
LEMMA LastIsFirstFinal ==
    ASSUME NEW s, WellFormed(s), NEW status, LastStatus(s, status)
    PROVE  ClientStatus(s) = IF status \in Informational THEN 200 ELSE status
  <1> DEFINE final == {i \in DOMAIN s : s[i] \notin Informational}
             first == CHOOSE i \in final : \A j \in final : i <= j
             n == Len(s)
  <1>1. /\ n \in Nat /\ DOMAIN s = 1..n /\ \A i \in 1..n : s[i] \in Nat
        /\ \A i, j \in 1..n : i < j /\ s[i] \notin Informational => s[j] = 0
        /\ 0 \notin Informational /\ 200 \notin Informational
    BY LenProperties, ElementOfSeq DEF WellFormed, Informational
  <1>2. ClientStatus(s) = IF final = {} \/ s[first] = 0 THEN 200 ELSE s[first]
    BY DEF ClientStatus
  <1>3. final \subseteq 1..n /\ \A i \in 1..n : i \in final <=> s[i] \notin Informational
    BY <1>1
  <1>4. ASSUME NEW k \in final, \A j \in final : k <= j
        PROVE  first = k
    <2> HIDE DEF final
    <2>1. first \in final /\ \A j \in final : first <= j
      BY <1>4
    <2> HIDE DEF first
    <2>2. first \in Int /\ k \in Int /\ first <= k /\ k <= first
      BY <1>1, <1>3, <1>4, <2>1
    <2> QED
      BY <2>2
  <1>5. CASE status = 200 /\ \A i \in 1..n : s[i] = 0
    <2> HIDE DEF first, final, n
    <2>1. CASE n = 0
      BY <1>2, <1>3, <1>5, <2>1
    <2>2. CASE n > 0
      <3>1. 1 \in final /\ \A j \in final : 1 <= j
        <4>1. 1 \in 1..n /\ s[1] \notin Informational
          BY <1>1, <1>5, <2>2
        <4>2. 1 \in final
          BY <1>3, <4>1
        <4>3. ASSUME NEW j \in final PROVE 1 <= j
          BY <1>1, <1>3
        <4> QED
          BY <4>2, <4>3
      <3>2. first = 1
        BY <1>4, <3>1
      <3> QED
        BY <1>1, <1>2, <1>5, <2>2, <3>2
    <2> QED
      BY <1>1, <2>1, <2>2
  <1>6. CASE \E k \in 1..n : /\ s[k] = status /\ status # 0
                             /\ \A j \in 1..n : k < j => s[j] = 0
    <2>1. PICK k \in 1..n : /\ s[k] = status /\ status # 0
                            /\ \A j \in 1..n : k < j => s[j] = 0
      BY <1>6
    <2> HIDE DEF first, final, n
    <2>2. CASE status \notin Informational
      <3>1. k \in final
        BY <1>1, <1>3, <2>1, <2>2
      <3>2. ASSUME NEW j \in final PROVE k <= j
        BY <1>1, <1>3, <2>1
      <3>3. first = k
        BY <1>4, <3>1, <3>2
      <3> QED
        BY <1>2, <2>1, <2>2, <3>1, <3>3
    <2>3. CASE status \in Informational
      <3>1. ASSUME NEW j \in final PROVE j > k
        <4>1. j \in 1..n /\ j # k /\ ~(j < k)
          BY <1>1, <1>3, <2>1, <2>3
        <4> QED
          BY <2>1, <4>1
      <3>2. CASE k = n
        <4>1. final = {}
          BY <1>1, <1>3, <3>1, <3>2
        <4> QED
          BY <1>2, <2>3, <4>1
      <3>3. CASE k # n
        <4>1. k + 1 \in 1..n /\ s[k + 1] = 0
          BY <1>1, <2>1, <3>3
        <4>2. k + 1 \in final
          BY <1>1, <1>3, <4>1
        <4>3. ASSUME NEW j \in final PROVE k + 1 <= j
          BY <1>1, <1>3, <2>1, <3>1
        <4>4. first = k + 1
          BY <1>4, <4>2, <4>3
        <4> QED
          BY <1>2, <2>3, <4>1, <4>4
      <3> QED
        BY <3>2, <3>3
    <2> QED
      BY <2>2, <2>3
  <1> QED
    BY <1>5, <1>6 DEF LastStatus

\* A write moves from what is still to be written to what has been.
LEMMA WriteMoves ==
    ASSUME NEW s \in Seq(Nat), NEW o \in Seq(Nat), o # <<>>
    PROVE  /\ Append(s, Head(o)) \o Tail(o) = s \o o
           /\ Append(s, Head(o)) \in Seq(Nat) /\ Tail(o) \in Seq(Nat) /\ Head(o) \in Nat
  <1>1. Head(o) \in Nat /\ Tail(o) \in Seq(Nat) /\ Len(o) \in Nat \ {0} /\ Head(o) = o[1]
    BY HeadTailProperties, EmptySeq
  <1>2. Append(s, Head(o)) = s \o <<Head(o)>> /\ Append(s, Head(o)) \in Seq(Nat)
    BY <1>1, AppendIsConcat, AppendProperties
  <1>3. <<Head(o)>> \o Tail(o) = o
    <2>1. SubSeq(o, 1, Len(o)) = <<o[1]>> \o SubSeq(o, 1 + 1, Len(o))
      <3>1. 1 \in 1..Len(o) /\ Len(o) \in 1..Len(o)
        BY <1>1
      <3> QED
        BY <3>1, SubSeqRecursiveFirst
    <2>2. SubSeq(o, 1, Len(o)) = o /\ Tail(o) = SubSeq(o, 2, Len(o))
      BY SubSeqFull, TailIsSubSeq
    <2> QED
      BY <1>1, <2>1, <2>2
  <1>4. (s \o <<Head(o)>>) \o Tail(o) = s \o (<<Head(o)>> \o Tail(o))
    <2>1. <<Head(o)>> \in Seq(Nat)
      BY <1>1
    <2> QED
      BY <1>1, <2>1, ConcatAssociative
  <1> QED
    BY <1>1, <1>2, <1>3, <1>4

-----------------------------------------------------------------------------
\* Every step of the chain is a step of Deadline or leaves its variables alone.
LEMMA ChainStepRefines ==
    ASSUME [NextChain]_allVars
    PROVE  [Next]_vars
  <1>1. ASSUME NEW r \in Requests,
               Enter(r) \/ (Expire(r) /\ UNCHANGED chainVars) \/ Middleware(r) \/ Chain(r)
        PROVE  [Next]_vars
    <2>1. \/ Start(r) \/ Expire(r) \/ Step(r) \/ Handler(r) \/ UNCHANGED vars
      BY <1>1 DEF Enter, Middleware, Chain, LogIn, LogSkip, Refuse, Route, BeginWrite, EndWrite,
                  LogOut, Return, Panic, Handler
    <2> QED
      BY <2>1 DEF Next
  <1>2. CASE UNCHANGED allVars
    BY <1>2 DEF allVars
  <1> QED
    BY <1>1, <1>2 DEF NextChain

\* What belongs to request x is as it was, and x has not begun to write.
SameFor(x) ==
    /\ at'[x] = at[x] /\ req'[x] = req[x] /\ body'[x] = body[x] /\ reqBody'[x] = reqBody[x]
    /\ out'[x] = out[x] /\ sent'[x] = sent[x] /\ recorded'[x] = recorded[x]
    /\ capture'[x] = capture[x] /\ logged'[x] = logged[x] /\ upstream'[x] = upstream[x]
    /\ hpc'[x] = hpc[x] \/ hpc'[x] \notin {"off", "writing"}

\* Such a request carries what it carried.
LEMMA CarriesFrame ==
    ASSUME NEW x \in Requests, Carries(x), SameFor(x)
    PROVE  Carries(x)'
  <1>1. Logs(x)' <=> Logs(x)
    BY DEF Logs, SameFor
  <1> QED
    BY <1>1 DEF Carries, SameFor

\* The steps of one request leave the others alone, but for a panic that ends the process.
LEMMA OthersSame ==
    ASSUME DeadlineInv, ChainFuns, NEW r \in Requests,
           Enter(r) \/ (Expire(r) /\ UNCHANGED chainVars) \/ Middleware(r) \/ Chain(r)
    PROVE  ChainFuns' /\ \A x \in Requests : x # r => SameFor(x)
  <1> USE DEF Set, chainVars, vars, ChainFuns, SameFor
  <1>0. hpc \in [Requests -> {"off", "run", "writing", "done", "gone"}]
    BY DEF DeadlineInv, TypeOK
  <1>1. CASE Enter(r)
    BY <1>0, <1>1 DEF Enter, Start
  <1>2. CASE Expire(r) /\ UNCHANGED chainVars
    BY <1>2 DEF Expire
  <1>3. CASE Middleware(r)
    BY <1>3 DEF Middleware, Step, SelectDone, SelectExpired, Claim, Write504, Wait
  <1>4. CASE LogIn(r)
    BY <1>4 DEF LogIn
  <1>5. CASE LogSkip(r)
    BY <1>5 DEF LogSkip
  <1>6. CASE Refuse(r)
    BY <1>6 DEF Refuse
  <1>7. CASE Route(r)
    BY <1>7 DEF Route
  <1>8. CASE BeginWrite(r)
    BY <1>0, <1>8 DEF BeginWrite, HandlerClaim
  <1>9. CASE EndWrite(r)
    BY <1>0, <1>9 DEF EndWrite, HandlerWrite
  <1>10. CASE LogOut(r)
    BY <1>10 DEF LogOut
  <1>11. CASE Return(r)
    BY <1>0, <1>11 DEF Return, HandlerReturn
  <1>12. CASE Panic(r)
    BY <1>0, <1>12 DEF Panic, HandlerPanic
  <1> QED
    BY <1>1, <1>2, <1>3, <1>4, <1>5, <1>6, <1>7, <1>8, <1>9, <1>10, <1>11, <1>12 DEF Chain

\* What the chain answers instead of the router is well-formed.
LEMMA VerdictWellFormed ==
    ASSUME NEW q
    PROVE  Verdict(q) \in Seq(Nat) /\ WellFormed(Verdict(q))
  <1>1. ASSUME NEW n \in {401, 403, 413, 429} PROVE <<n, 0>> \in Seq(Nat) /\ WellFormed(<<n, 0>>)
    BY <1>1 DEF WellFormed, Informational
  <1>2. <<204>> \in Seq(Nat) /\ WellFormed(<<204>>)
    BY DEF WellFormed, Informational
  <1>3. <<>> \in Seq(Nat) /\ WellFormed(<<>>)
    BY DEF WellFormed, Informational
  <1> QED
    BY <1>1, <1>2, <1>3 DEF Verdict

\* The steps of a request keep what it carries.
LEMMA CarriesStep ==
    ASSUME ChainInv, NEW r \in Requests,
           Enter(r) \/ (Expire(r) /\ UNCHANGED chainVars) \/ Middleware(r) \/ Chain(r)
    PROVE  Carries(r)'
  <1> USE DEF Set
  <1>0. /\ DeadlineInv /\ ChainFuns /\ Carries(r)
        /\ hpc \in [Requests -> {"off", "run", "writing", "done", "gone"}]
    BY DEF ChainInv, DeadlineInv, TypeOK
  <1>a. MaxBody \in Nat /\ MaxBodyLog \in Nat /\ \A q \in Inputs[r] : q.body \in Nat
    BY ChainAssumption
  <1>1. CASE Enter(r)
    <2>1. PICK q \in Inputs[r] : req' = Set(req, r, {q}) /\ body' = Set(body, r, Bytes(q.body))
      BY <1>1 DEF Enter
    <2>2. /\ hpc[r] = "off" /\ hpc'[r] = "run" /\ at'[r] = "logging"
          /\ req'[r] = {q} /\ body'[r] = Bytes(q.body)
          /\ UNCHANGED <<reqBody, out, sent, recorded, capture, logged, upstream>>
      BY <1>0, <1>1, <2>1 DEF Enter, Start, ChainFuns, DeadlineInv, Race
    <2>3. at[r] = "off"
      BY <1>0, <2>2 DEF Carries
    <2>4. sent[r] = <<>> /\ recorded[r] = 200 /\ reqBody[r] = <<>> /\ logged[r] = {} /\ upstream[r] = {} /\ out[r] = <<>>
      BY <1>0, <2>3 DEF Carries
    <2>5. LastStatus(<<>>, 200)
      BY DEF LastStatus
    <2> QED
      BY <1>0, <2>2, <2>4, <2>5 DEF Carries
  <1>2. CASE Expire(r) /\ UNCHANGED chainVars
    BY <1>0, <1>2, CarriesFrame DEF Expire, SameFor, chainVars
  <1>3. CASE Middleware(r)
    BY <1>0, <1>3, CarriesFrame DEF Middleware, Step, SelectDone, SelectExpired, Claim, Write504, Wait, SameFor, chainVars
  <1>4. CASE LogIn(r)
    <2>1. /\ at[r] = "logging" /\ at'[r] = "chain"
          /\ UNCHANGED <<hpc, req, out, sent, recorded, logged, upstream>>
      BY <1>0, <1>4 DEF LogIn, vars, ChainFuns
    <2>2. capture'[r] \in Seq({r}) /\ Len(capture'[r]) <= MaxBodyLog
      <3>1. capture'[r] = capture[r] \/ capture'[r] = <<>>
        BY <1>0, <1>4 DEF LogIn, ChainFuns, Reset
      <3>2. <<>> \in Seq({r}) /\ Len(<<>>) = 0
        OBVIOUS
      <3>3. capture[r] \in Seq({r}) /\ Len(capture[r]) <= MaxBodyLog
        BY <1>0 DEF Carries
      <3> QED
        <4>1. CASE capture'[r] = capture[r]
          BY <3>3, <4>1
        <4>2. CASE capture'[r] = <<>>
          <5>1. Len(capture'[r]) = 0
            BY <3>2, <4>2
          <5> QED
            BY <1>a, <3>2, <4>2, <5>1
        <4> QED
          BY <3>1, <4>1, <4>2
    <2>3. \A q \in req[r] : /\ body'[r] = Bytes(q.body)
                            /\ reqBody'[r] # <<>> => reqBody'[r] = First(Bytes(q.body), MaxBodyLog)
      <3> SUFFICES ASSUME NEW q \in req[r]
                   PROVE  /\ body'[r] = Bytes(q.body)
                          /\ reqBody'[r] # <<>> => reqBody'[r] = First(Bytes(q.body), MaxBodyLog)
        OBVIOUS
      <3>0. body[r] = Bytes(q.body) /\ q \in Inputs[r] /\ reqBody[r] = <<>>
        BY <1>0, <2>1 DEF Carries
      <3>1. body[r] = Bytes(q.body) /\ body[r] \in Seq(Nat) /\ reqBody[r] = <<>>
        BY <1>a, <3>0, BytesFacts
      <3>2. captureRequestBody(body[r]).body = body[r] /\ captureRequestBody(body[r]).log = First(body[r], MaxBodyLog)
        BY <3>1, CaptureKeepsBody
      <3>3. \/ body'[r] = body[r] /\ reqBody'[r] = reqBody[r]
            \/ body'[r] = captureRequestBody(body[r]).body /\ reqBody'[r] = captureRequestBody(body[r]).log
        BY <1>0, <1>4 DEF LogIn, ChainFuns
      <3> QED
        BY <3>1, <3>2, <3>3
    <2>4. Logs(r)' <=> Logs(r)
      BY <2>1 DEF Logs
    <2> QED
      BY <1>0, <2>1, <2>2, <2>3, <2>4 DEF Carries
  <1>5. CASE LogSkip(r)
    <2>1. /\ at[r] = "logging" /\ at'[r] = "chain"
          /\ UNCHANGED <<hpc, req, body, reqBody, out, sent, recorded, capture, logged, upstream>>
      BY <1>0, <1>5 DEF LogSkip, vars, ChainFuns
    <2>2. Logs(r)' <=> Logs(r)
      BY <2>1 DEF Logs
    <2> QED
      BY <1>0, <2>1, <2>2 DEF Carries
  <1>6. CASE Refuse(r)
    <2>1. /\ at[r] = "chain" /\ at'[r] = "reply" /\ hpc[r] = "run"
          /\ \E q \in req[r] : out'[r] = Verdict(q)
          /\ UNCHANGED <<hpc, req, body, reqBody, sent, recorded, capture, logged, upstream>>
      BY <1>0, <1>6 DEF Refuse, vars, ChainFuns
    <2>2. out'[r] \in Seq(Nat) /\ WellFormed(out'[r]) /\ sent[r] = <<>>
      BY <1>0, <2>1, VerdictWellFormed DEF Carries
    <2>3. sent'[r] \o out'[r] = out'[r]
      BY <2>1, <2>2, ConcatEmptySeq
    <2>4. Logs(r)' <=> Logs(r)
      BY <2>1 DEF Logs
    <2> QED
      BY <1>0, <2>1, <2>2, <2>3, <2>4 DEF Carries
  <1>7. CASE Route(r)
    <2>1. /\ at[r] = "chain" /\ at'[r] = "reply" /\ hpc[r] = "run"
          /\ out'[r] \in Replies /\ \E q \in req[r] : Verdict(q) = <<>>
          /\ upstream'[r] = {[bytes |-> First(body[r], MaxBody), whole |-> Len(body[r]) <= MaxBody]}
          /\ UNCHANGED <<hpc, req, reqBody, sent, recorded, capture, logged>>
      BY <1>0, <1>7 DEF Route, vars, ChainFuns
    <2>2. out'[r] \in Seq(Nat) /\ WellFormed(out'[r]) /\ sent[r] = <<>>
      BY <1>0, <2>1, ChainAssumption DEF Carries, WellFormed
    <2>3. sent'[r] \o out'[r] = out'[r]
      BY <2>1, <2>2, ConcatEmptySeq
    <2>4. Logs(r)' <=> Logs(r)
      BY <2>1 DEF Logs
    <2>5. ASSUME NEW u \in upstream'[r], NEW q \in req[r]
          PROVE  /\ Verdict(q) = <<>>
                 /\ u = [bytes |-> First(Bytes(q.body), MaxBody), whole |-> q.body <= MaxBody]
      <3>1. Verdict(q) = <<>> /\ body[r] = Bytes(q.body)
        BY <1>0, <2>1 DEF Carries
      <3>2. q.body \in Nat
        BY <1>0, <1>a, <2>5 DEF Carries
      <3>3. Len(body[r]) = q.body
        BY <3>1, <3>2, BytesFacts
      <3> QED
        BY <2>1, <2>5, <3>1, <3>3
    <2> QED
      BY <1>0, <2>1, <2>2, <2>3, <2>4, <2>5 DEF Carries
  <1>8. CASE BeginWrite(r)
    <2>1. /\ at[r] = "reply" /\ out[r] # <<>> /\ hpc'[r] = "writing" /\ UNCHANGED chainVars
      BY <1>0, <1>8 DEF BeginWrite, HandlerClaim
    <2>2. Logs(r)' <=> Logs(r)
      BY <2>1 DEF Logs, chainVars
    <2> QED
      BY <1>0, <2>1, <2>2 DEF Carries, chainVars
  <1>9. CASE EndWrite(r)
    <2> DEFINE write == Head(out[r])
    <2>1. /\ hpc[r] = "writing" /\ hpc'[r] = "run"
          /\ sent'[r] = Append(sent[r], write) /\ out'[r] = Tail(out[r])
          /\ recorded'[r] = IF Logs(r) /\ write # 0 THEN write ELSE recorded[r]
          /\ capture'[r] = IF Logs(r) /\ logBody /\ write = 0
                           THEN First(Append(capture[r], r), MaxBodyLog) ELSE capture[r]
          /\ UNCHANGED <<at, req, body, reqBody, logged, upstream>>
      BY <1>0, <1>9 DEF EndWrite, HandlerWrite, ChainFuns
    <2>2. at[r] = "reply" /\ out[r] # <<>> /\ sent[r] \in Seq(Nat) /\ out[r] \in Seq(Nat)
      BY <1>0, <2>1 DEF Carries
    <2>3. /\ sent'[r] \o out'[r] = sent[r] \o out[r]
          /\ sent'[r] \in Seq(Nat) /\ out'[r] \in Seq(Nat) /\ write \in Nat
      BY <2>1, <2>2, WriteMoves
    <2>4. Logs(r)' <=> Logs(r)
      BY <2>1 DEF Logs
    <2>5. ASSUME Logs(r) PROVE LastStatus(sent'[r], recorded'[r])
      <3>1. LastStatus(sent[r], recorded[r])
        BY <1>0, <2>5 DEF Carries
      <3>2. recorded[r] \in Nat
        BY <2>2, <3>1, ElementOfSeq DEF LastStatus
      <3>3. recorded'[r] = IF write # 0 THEN write ELSE recorded[r]
        BY <2>1, <2>5
      <3> HIDE DEF write
      <3>4. LastStatus(Append(sent[r], write), IF write # 0 THEN write ELSE recorded[r])
        BY <2>2, <2>3, <3>1, <3>2, RecordsLast
      <3> QED
        BY <2>1, <3>3, <3>4
    <2>6. capture'[r] \in Seq({r}) /\ Len(capture'[r]) <= MaxBodyLog
      <3>1. capture[r] \in Seq({r}) /\ Len(capture[r]) <= MaxBodyLog
        BY <1>0 DEF Carries
      <3>2. Append(capture[r], r) \in Seq({r}) /\ Len(Append(capture[r], r)) \in Nat
        BY <3>1, AppendProperties, LenProperties
      <3>3. /\ First(Append(capture[r], r), MaxBodyLog) \in Seq({r})
            /\ Len(First(Append(capture[r], r), MaxBodyLog)) <= MaxBodyLog
        <4> DEFINE c == Append(capture[r], r)
        <4>1. c \in Seq({r}) /\ Len(c) \in Nat
          BY <3>2
        <4> HIDE DEF c
        <4>2. First(c, MaxBodyLog) \in Seq({r}) /\ Len(First(c, MaxBodyLog)) = IF Len(c) < MaxBodyLog THEN Len(c) ELSE MaxBodyLog
          BY <1>a, <4>1, FirstFacts
        <4>3. Len(First(c, MaxBodyLog)) <= MaxBodyLog
          BY <1>a, <4>1, <4>2
        <4> QED
          BY <4>2, <4>3 DEF c
      <3> QED
        BY <2>1, <3>1, <3>3
    <2>7. logged'[r] = {}
      BY <1>0, <2>1, <2>2 DEF Carries
    <2>8. WellFormed(sent'[r] \o out'[r])
      BY <1>0, <2>2, <2>3 DEF Carries
    <2> HIDE DEF write
    <2> QED
      <3>1. \A u \in upstream'[r], q \in req'[r] :
              /\ Verdict(q) = <<>>
              /\ u = [bytes |-> First(Bytes(q.body), MaxBody), whole |-> q.body <= MaxBody]
        BY <1>0, <2>1 DEF Carries
      <3>2. /\ req'[r] \subseteq Inputs[r] /\ \A p, q \in req'[r] : p = q
            /\ at'[r] = "reply" /\ hpc'[r] = "run"
            /\ reqBody'[r] # <<>> => \A q \in req'[r] : reqBody'[r] = First(Bytes(q.body), MaxBodyLog)
        BY <1>0, <2>1, <2>2 DEF Carries
      <3> QED
        BY <2>3, <2>4, <2>5, <2>6, <2>7, <2>8, <3>1, <3>2 DEF Carries
  <1>10. CASE LogOut(r)
    <2>1. /\ at[r] = "reply" /\ at'[r] = "end" /\ hpc[r] = "run" /\ out[r] = <<>>
          /\ logged'[r] = IF Logs(r) THEN {[status |-> recorded[r], request |-> reqBody[r], response |-> capture[r]]} ELSE logged[r]
          /\ UNCHANGED <<hpc, req, body, reqBody, out, sent, recorded, capture, upstream>>
      BY <1>0, <1>10 DEF LogOut, vars, ChainFuns
    <2>2. Logs(r)' <=> Logs(r)
      BY <2>1 DEF Logs
    <2>3. logged[r] = {}
      BY <1>0, <2>1 DEF Carries
    <2>4. \A line \in logged'[r] :
            /\ Logs(r)
            /\ line = [status |-> recorded'[r], request |-> reqBody'[r], response |-> capture'[r]]
      BY <2>1, <2>3
    <2>5. WellFormed(sent[r] \o out[r])
      BY <1>0, <2>1 DEF Carries
    <2> QED
      BY <1>0, <2>1, <2>2, <2>4, <2>5 DEF Carries
  <1>11. CASE Return(r)
    <2>1. /\ at[r] = "end" /\ at'[r] = "off" /\ hpc'[r] = "done" /\ req'[r] = {}
          /\ reqBody'[r] = <<>> /\ sent'[r] = <<>> /\ recorded'[r] = 200 /\ capture'[r] = <<>>
          /\ logged'[r] = {} /\ upstream'[r] = {} /\ out' = out
      BY <1>0, <1>11 DEF Return, HandlerReturn, ChainFuns
    <2>2. out[r] = <<>>
      BY <1>0, <2>1 DEF Carries
    <2> QED
      BY <1>a, <2>1, <2>2, EmptySeq DEF Carries, Logs
  <1>12. CASE Panic(r)
    <2>1. SameFor(r)
      BY <1>0, <1>12 DEF Panic, HandlerPanic, SameFor, chainVars
    <2> QED
      BY <1>0, <2>1, CarriesFrame
  <1> QED
    BY <1>1, <1>2, <1>3, <1>4, <1>5, <1>6, <1>7, <1>8, <1>9, <1>10, <1>11, <1>12 DEF Chain

\* Every step of the chain keeps the invariant.
LEMMA ChainStepInv ==
    ASSUME ChainInv, [NextChain]_allVars
    PROVE  ChainInv'
  <1>0. DeadlineInv /\ ChainFuns /\ \A x \in Requests : Carries(x)
    BY DEF ChainInv
  <1>1. DeadlineInv'
    BY <1>0, ChainStepRefines, DeadlineStep
  <1>2. ASSUME NEW r \in Requests,
               Enter(r) \/ (Expire(r) /\ UNCHANGED chainVars) \/ Middleware(r) \/ Chain(r)
        PROVE  ChainInv'
    <2>1. ChainFuns' /\ \A x \in Requests : x # r => SameFor(x)
      BY <1>0, <1>2, OthersSame
    <2>2. \A x \in Requests : x # r => Carries(x)'
      BY <1>0, <2>1, CarriesFrame
    <2>3. Carries(r)'
      BY <1>2, CarriesStep
    <2> QED
      BY <1>1, <2>1, <2>2, <2>3 DEF ChainInv
  <1>3. CASE UNCHANGED allVars
    <2>1. ChainFuns' /\ \A x \in Requests : SameFor(x)
      BY <1>0, <1>3 DEF allVars, chainVars, vars, ChainFuns, SameFor
    <2> QED
      BY <1>0, <1>1, <2>1, CarriesFrame DEF ChainInv
  <1> QED
    BY <1>2, <1>3 DEF NextChain

\* Before the first request nobody carries anything.
LEMMA ChainInit == InitChain => ChainInv
  <1> SUFFICES ASSUME InitChain PROVE ChainInv
    OBVIOUS
  <1>1. DeadlineInv
    BY DeadlineInit DEF InitChain
  <1>2. ChainFuns
    BY DEF InitChain, ChainFuns
  <1>3. ASSUME NEW r \in Requests PROVE Carries(r)
    BY ChainAssumption, EmptySeq DEF InitChain, Init, Carries, Logs
  <1> QED
    BY <1>1, <1>2, <1>3 DEF ChainInv

\* The invariant holds in every reachable state of the chain.
LEMMA ChainSafe == ChainSpec => []ChainInv
  BY ChainInit, ChainStepInv, PTL DEF ChainSpec

-----------------------------------------------------------------------------
\* The chain of gateway.go implements Deadline: what is inside the handler only chooses
\* among the steps the deadline allows for.
THEOREM ChainImplementsDeadline == ChainSpec => Spec
  <1>1. InitChain => Init
    BY DEF InitChain
  <1> QED
    BY <1>1, ChainStepRefines, PTL DEF ChainSpec, Spec

\* deadline.go, in the whole chain: no goroutine of a request writes to the client after the
\* middleware has returned.
THEOREM ChainNoWriterOutlives == ChainSpec => []NoWriterOutlives
  BY ChainImplementsDeadline, DeadlineNoWriterOutlives, PTL

\* cors.go, bodylimit.go, auth.go and logging.go: the upstream sees only what passed every
\* check, and of that the client's body byte for byte, up to the limit.
THEOREM ChainUpstreamSees == ChainSpec => []UpstreamSees
  <1>1. ChainInv => UpstreamSees
    <2> SUFFICES ASSUME ChainInv, NEW r \in Requests, NEW u \in upstream[r], NEW q \in req[r]
                 PROVE  /\ ~q.options /\ q.admitted
                        /\ q.secured => \E t \in q.token : t.valid /\ Scopes \subseteq t.scopes
                        /\ u.bytes = First(Bytes(q.body), MaxBody) /\ (u.whole <=> u.bytes = Bytes(q.body))
                        /\ q.declared => u.whole
      BY DEF UpstreamSees
    <2>0. Carries(r)
      BY DEF ChainInv
    <2>1. /\ q \in Inputs[r] /\ Verdict(q) = <<>>
          /\ u.bytes = First(Bytes(q.body), MaxBody) /\ u.whole = (q.body <= MaxBody)
      <3>1. q \in Inputs[r]
        BY <2>0 DEF Carries
      <3>2. /\ Verdict(q) = <<>>
            /\ u = [bytes |-> First(Bytes(q.body), MaxBody), whole |-> q.body <= MaxBody]
        BY <2>0, Zenon DEF Carries
      <3> QED
        BY <3>1, <3>2
    <2>2. ~q.options /\ q.admitted /\ ~TooLarge(q) /\ ~Unauthorized(q) /\ ~InsufficientScope(q)
      BY <2>1 DEF Verdict, Preflight
    <2>3. q.secured => \E t \in q.token : t.valid /\ Scopes \subseteq t.scopes
      BY <2>2 DEF Unauthorized, InsufficientScope
    <2>4. q.body \in Nat /\ MaxBody \in Nat
      BY <2>1, ChainAssumption
    <2>5. /\ Len(Bytes(q.body)) = q.body
          /\ Len(First(Bytes(q.body), MaxBody)) = IF q.body < MaxBody THEN q.body ELSE MaxBody
          /\ q.body <= MaxBody => First(Bytes(q.body), MaxBody) = Bytes(q.body)
      BY <2>4, BytesFacts, FirstFacts
    <2>6. q.body <= MaxBody <=> First(Bytes(q.body), MaxBody) = Bytes(q.body)
      BY <2>4, <2>5
    <2> QED
      <3>1. q.declared => u.whole
        <4>1. q.declared => q.body <= MaxBody
          BY <2>2, <2>4 DEF TooLarge
        <4> QED
          BY <2>1, <4>1, Zenon
      <3>2. u.whole <=> u.bytes = Bytes(q.body)
        BY <2>1, <2>6
      <3> QED
        BY <2>1, <2>2, <2>3, <3>1, <3>2
  <1> QED
    BY <1>1, ChainSafe, PTL

\* logging.go: the line of the access log has the status the client got (unless the deadline
\* answered, and but for a replayed 1xx, where the client got 200), of the response only this
\* request's bytes, of the request its beginning.
THEOREM ChainLogTruthful == ChainSpec => []LogTruthful
  <1>1. ChainInv => LogTruthful
    <2> SUFFICES ASSUME ChainInv, NEW r \in Requests, NEW line \in logged[r]
                 PROVE  /\ ClientStatus(sent[r]) = IF line.status \in Informational THEN 200 ELSE line.status
                        /\ ToSet(line.response) \subseteq {r} /\ Len(line.response) <= MaxBodyLog
                        /\ \A q \in req[r] : IsPrefix(line.request, Bytes(q.body)) /\ Len(line.request) <= MaxBodyLog
      BY DEF LogTruthful
    <2>1. /\ at[r] = "end" /\ out[r] = <<>> /\ Logs(r) /\ Carries(r)
          /\ line.status = recorded[r] /\ line.request = reqBody[r] /\ line.response = capture[r]
      <3>1. Carries(r)
        BY DEF ChainInv
      <3>2. /\ at[r] = "end" /\ Logs(r)
            /\ line = [status |-> recorded[r], request |-> reqBody[r], response |-> capture[r]]
        BY <3>1, Zenon DEF Carries
      <3>3. out[r] = <<>>
        BY <3>1, <3>2 DEF Carries
      <3> QED
        BY <3>1, <3>2, <3>3
    <2>2. ClientStatus(sent[r]) = IF line.status \in Informational THEN 200 ELSE line.status
      <3>1. WellFormed(sent[r]) /\ LastStatus(sent[r], recorded[r])
        BY <2>1, ConcatEmptySeq DEF Carries
      <3> QED
        BY <2>1, <3>1, LastIsFirstFinal
    <2>3. ToSet(line.response) \subseteq {r} /\ Len(line.response) <= MaxBodyLog
      BY <2>1, ElementOfSeq, LenProperties DEF Carries, ToSet
    <2>4. ASSUME NEW q \in req[r]
          PROVE  IsPrefix(line.request, Bytes(q.body)) /\ Len(line.request) <= MaxBodyLog
      <3> DEFINE b == Bytes(q.body)
      <3>1. q.body \in Nat /\ MaxBodyLog \in Nat
        BY <2>1, ChainAssumption DEF Carries
      <3>2. b \in Seq(Nat) /\ Len(b) \in Nat
        BY <3>1, BytesFacts
      <3>3. CASE line.request = <<>>
        <4> HIDE DEF b
        <4>1. Len(<<>>) = 0 /\ SubSeq(<<>>, 1, 0) = <<>> /\ SubSeq(b, 1, 0) = <<>>
          BY <3>2, SubSeqEmpty, EmptySeq
        <4> QED
          BY <3>1, <3>2, <3>3, <4>1 DEF IsPrefix, b
      <3>4. CASE line.request = First(b, MaxBodyLog)
        <4> DEFINE f == First(b, MaxBodyLog)
        <4> HIDE DEF b
        <4>1. /\ f \in Seq(Nat) /\ Len(f) = IF Len(b) < MaxBodyLog THEN Len(b) ELSE MaxBodyLog
          BY <3>1, <3>2, FirstFacts
        <4>2. f = SubSeq(b, 1, Len(f))
          BY <4>1 DEF First
        <4> HIDE DEF f
        <4>3. SubSeq(f, 1, Len(f)) = f
          BY <4>1, SubSeqFull
        <4>4. Len(f) <= Len(b) /\ Len(f) <= MaxBodyLog
          BY <3>1, <3>2, <4>1
        <4> QED
          BY <3>4, <4>2, <4>3, <4>4 DEF IsPrefix, b, f
      <3> QED
        BY <2>1, <3>3, <3>4 DEF Carries
    <2> QED
      BY <2>2, <2>3, <2>4
  <1> QED
    BY <1>1, ChainSafe, PTL
=============================================================================
