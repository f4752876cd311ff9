--------------------------- MODULE BackgroundProofs --------------------------
(***************************************************************************)
(* The parts that work beside the requests: hot reload, the janitor of the *)
(* rate limiter and the readiness endpoint.                                *)
(*                                                                         *)
(* Hot reload, for any number of goroutines, parts and edits of the file,  *)
(* and rejections at any part: a success of a Reload that ran alone brings *)
(* all parts in line, and what rollbacks leave behind is in order.         *)
(* Neither is inductive.  Both need to know what a goroutine carries       *)
(* (Carried), the first what the only running Reload has done (Alone), the *)
(* second what is in force while it runs (Serial).                         *)
(*                                                                         *)
(* The limiter, for any number of requests, keys and configurations:       *)
(* lastSeen lags behind the use of a bucket by half the TTL at most        *)
(* (LagsBehindUse), and a request that reaches the map has a key of it,    *)
(* wherever the two limits in it were read (KeysForm), and while a pass    *)
(* of the janitor runs what is idle is on its list (PassCovers).           *)
(*                                                                         *)
(* Readiness, for any number of pollers and backends: a poll's results and *)
(* what it met agree at every moment (ProbesTruthful), and evidence grows  *)
(* old no faster than the answer that rests on it.                         *)
(***************************************************************************)
EXTENDS Reloader, RateLimiter, Readiness, FiniteSetTheorems, TLAPS

\* What a goroutine carries through Reload was loaded from the file, as what the parts run
\* with was, and the parts it has passed accept it; before the swap it has passed none.
Carried ==
    /\ \A p \in Parts : applied[p] <= disk
    /\ \A w \in Runners :
        /\ new[w] \notin Invalid /\ new[w] <= disk
        /\ pc[w] \in {"idle", "load", "swap"} => at[w] = 1
        /\ pc[w] = "rollback" => at[w] <= NumParts
        /\ pc[w] \in {"observe", "rollback"} => \A p \in Parts : p < at[w] => ~Rejects(p, new[w])

\* At most one Reload runs unless they overlap; the one that runs has brought the parts
\* before at[w] in line, and after a success all are.
Alone ==
    overlap # "now" =>
        /\ \A v, w \in Runners : pc[v] # "idle" /\ pc[w] # "idle" => v = w
        /\ Quiet => InLineAfterSuccess
        /\ \A w \in Runners : pc[w] = "observe" =>
             current = new[w] /\ \A p \in Parts : p < at[w] => applied[p] = new[w]

\* What is in force when reloads have never overlapped and none runs.
InForceIsSound(v) == Acceptable(v) /\ applied[NumParts] = v

\* While reloads never overlapped, what is in force stays until the one that runs has come
\* to the last part, and what that one brings is newer than all the parts have.
Serial ==
    overlap = "never" =>
        /\ \A p, q \in Parts : p < q => applied[p] >= applied[q]
        /\ Quiet => InForceIsSound(current)
        /\ \A w \in Runners :
            /\ pc[w] \in {"load", "swap"} => InForceIsSound(current)
            /\ pc[w] \in {"swap", "observe"} => \A p \in Parts : applied[p] <= new[w]
            /\ pc[w] \in {"observe", "rollback"} =>
                 Acceptable(old[w]) /\ (at[w] <= NumParts => applied[NumParts] = old[w])

Inv == TypeOK /\ Carried /\ Alone /\ Serial

-----------------------------------------------------------------------------
\* The configuration the program starts with is neither invalid nor rejected.
LEMMA ConstantFacts ==
    /\ NumParts \in Nat \ {0} /\ MaxEdits \in Nat /\ NumParts \in Parts
    /\ 0 \in Edits /\ 0 \notin Invalid /\ Acceptable(0)
    /\ \A p : ~Rejects(p, 0)
  <1>1. NumParts \in Nat \ {0} /\ MaxEdits \in Nat /\ NumParts \in Parts
    BY ReloaderAssumption DEF Parts
  <1>2. ASSUME NEW p PROVE ~Rejects(p, 0)
    BY ReloaderAssumption DEF Rejects
  <1>3. 0 \in Edits /\ 0 \notin Invalid
    BY ReloaderAssumption DEF Edits
  <1> QED
    BY <1>1, <1>2, <1>3 DEF Acceptable

-----------------------------------------------------------------------------
\* Steps of the watcher, the timers, the signals and the file: they start Reload at most.
Outside ==
    \/ StartWatch \/ StartFails \/ Edit \/ Replace \/ Signal \/ Stop
    \/ WatchEvent \/ WatchStop \/ WatchClosed \/ TakeSignal
    \/ \E w \in Runners : TimerFires(w)

\* What such a step leaves alone, and what it does to the goroutine it starts.
LEMMA OutsideFrame ==
    ASSUME TypeOK, Outside
    PROVE  /\ TypeOK' /\ disk' >= disk /\ UNCHANGED <<current, applied, new, old, at, lastOk>>
           /\ \/ UNCHANGED <<pc, overlap>>
              \/ \E w \in Runners : pc[w] = "idle" /\ Start(w)
  <1>0. disk' >= disk
    <2>1. disk \in Int
      BY DEF TypeOK, Edits
    <2>2. disk' = disk \/ disk' = disk + 1
      BY DEF Outside, StartWatch, StartFails, Edit, Replace, Signal, Stop, WatchEvent, WatchStop,
             WatchClosed, TakeSignal, TimerFires
    <2> QED
      BY <2>1, <2>2
  <1> SUFFICES /\ TypeOK' /\ UNCHANGED <<current, applied, new, old, at, lastOk>>
               /\ \/ UNCHANGED <<pc, overlap>>
                  \/ \E w \in Runners : pc[w] = "idle" /\ Start(w)
    BY <1>0
  <1> USE ConstantFacts, ReloaderAssumption DEF TypeOK, Edits, sight, runVars, ghost
  <1>1. CASE StartWatch \/ StartFails
    BY <1>1 DEF StartWatch, StartFails
  <1>2. CASE Edit
    <2>1. event' \in BOOLEAN /\ missed' \in BOOLEAN
      BY <1>2, Zenon DEF Edit
    <2> QED
      BY <1>2, <2>1 DEF Edit
  <1>3. CASE Replace
    BY <1>3 DEF Replace
  <1>4. CASE Signal
    BY <1>4 DEF Signal
  <1>5. CASE Stop
    BY <1>5 DEF Stop
  <1>6. CASE WatchEvent
    BY <1>6 DEF WatchEvent
  <1>7. CASE WatchStop
    BY <1>7 DEF WatchStop
  <1>8. CASE WatchClosed
    BY <1>8 DEF WatchClosed
  <1>9. CASE TakeSignal
    BY <1>9 DEF TakeSignal, Start, Goto, Quiet, Runners
  <1>10. ASSUME NEW w \in Runners, TimerFires(w)
         PROVE  /\ TypeOK' /\ UNCHANGED <<current, applied, new, old, at, lastOk>>
                /\ pc[w] = "idle" /\ Start(w)
    BY <1>10 DEF TimerFires, Start, Goto, Quiet
  <1> QED
    BY <1>1, <1>2, <1>3, <1>4, <1>5, <1>6, <1>7, <1>8, <1>9, <1>10 DEF Outside

\* A Reload starts: the others are as they were, and if it is alone all were idle.
LEMMA StartFrame ==
    ASSUME TypeOK, NEW w \in Runners, pc[w] = "idle", Start(w)
    PROVE  /\ \A v \in Runners : pc'[v] = IF v = w THEN "load" ELSE pc[v]
           /\ overlap' # "now" => Quiet
           /\ overlap' = "never" => overlap = "never"
  BY DEF Start, Goto, TypeOK

-----------------------------------------------------------------------------
\* One step of a Reload keeps the types.
LEMMA RunType ==
    ASSUME TypeOK, NEW w \in Runners, Run(w)
    PROVE  TypeOK'
  <1> USE ConstantFacts DEF TypeOK, sight, runVars, ghost, Goto, Finish
  <1>1. CASE Load(w)
    <2>1. CASE disk \in Invalid /\ Finish(w, FALSE)
      <3>1. lastOk' \in BOOLEAN /\ missed' \in BOOLEAN
        BY <1>1, <2>1, Zenon DEF Load
      <3> QED
        BY <1>1, <2>1, <3>1 DEF Load
    <2>2. CASE ~(disk \in Invalid /\ Finish(w, FALSE))
      BY <1>1, <2>2 DEF Load
    <2> QED
      BY <2>1, <2>2
  <1>2. CASE Swap(w)
    BY <1>2 DEF Swap
  <1>3. CASE Apply(w)
    BY <1>3 DEF Apply, Parts
  <1>4. CASE Reject(w)
    BY <1>4 DEF Reject
  <1>5. CASE Rollback(w)
    <2>1. lastOk' \in BOOLEAN
      BY <1>5, Zenon DEF Rollback
    <2> QED
      BY <1>5, <2>1 DEF Rollback
  <1>6. CASE Return(w)
    BY <1>6 DEF Return
  <1> QED
    BY <1>1, <1>2, <1>3, <1>4, <1>5, <1>6 DEF Run

\* What a step of Reload does to its goroutine, and that it leaves the others alone.
LEMMA RunFrame ==
    ASSUME TypeOK, NEW w \in Runners, Run(w)
    PROVE  /\ UNCHANGED <<disk, overlap>> /\ pc[w] # "idle"
           /\ \A v \in Runners : v # w => /\ pc'[v] = pc[v] /\ at'[v] = at[v]
                                          /\ new'[v] = new[v] /\ old'[v] = old[v]
  BY DEF TypeOK, Run, Load, Swap, Apply, Reject, Rollback, Return, Goto, Finish, ghost

\* Apply at one part.
LEMMA ApplyFrame ==
    ASSUME TypeOK, NEW w \in Runners, Apply(w)
    PROVE  /\ at[w] \in Parts /\ pc[w] = "observe" /\ pc'[w] = "observe" /\ at'[w] = at[w] + 1
           /\ ~Rejects(at[w], new[w]) /\ UNCHANGED <<current, new, old>>
           /\ \A p \in Parts : applied'[p] = IF p = at[w] THEN new[w] ELSE applied[p]
           /\ \A p \in Parts : p < at'[w] <=> p < at[w] \/ p = at[w]
  <1>1. at[w] \in Parts
    BY ConstantFacts DEF Apply, TypeOK, Parts
  <1> QED
    BY <1>1, ConstantFacts DEF Apply, TypeOK, Parts

-----------------------------------------------------------------------------
\* Every step keeps what the parts and the goroutines have.
LEMMA CarriedStep ==
    ASSUME Inv, [Next]_vars
    PROVE  TypeOK' /\ Carried'
  <1> USE ConstantFacts
  <1>0. TypeOK /\ Carried /\ disk \in Int /\ applied \in [Parts -> Int] /\ new \in [Runners -> Int]
    BY DEF Inv, TypeOK, Edits
  <1>1. CASE Outside
    <2>1. /\ TypeOK' /\ UNCHANGED <<current, applied, new, old, at, lastOk>>
          /\ disk' >= disk /\ disk' \in Int
      BY <1>0, <1>1, OutsideFrame DEF TypeOK, Edits
    <2>2. CASE UNCHANGED pc
      BY <1>0, <2>1, <2>2 DEF Carried
    <2>3. ASSUME NEW w \in Runners, pc[w] = "idle", Start(w)
          PROVE  Carried'
      BY <1>0, <2>1, <2>3, StartFrame DEF Carried
    <2> QED
      BY <1>0, <1>1, <2>1, <2>2, <2>3, OutsideFrame
  <1>2. ASSUME NEW w \in Runners, Run(w)
        PROVE  TypeOK' /\ Carried'
    <2>1. TypeOK'
      BY <1>0, <1>2, RunType
    <2>2. UNCHANGED disk
      BY <1>0, <1>2, RunFrame
    <2>3. \A v \in Runners : v # w =>
             /\ new'[v] \notin Invalid /\ new'[v] <= disk'
             /\ pc'[v] \in {"idle", "load", "swap"} => at'[v] = 1
             /\ pc'[v] = "rollback" => at'[v] <= NumParts
             /\ pc'[v] \in {"observe", "rollback"} =>
                  \A p \in Parts : p < at'[v] => ~Rejects(p, new'[v])
      BY <1>0, <1>2, <2>2, RunFrame DEF Carried
    <2>4. CASE Apply(w)
      BY <1>0, <2>1, <2>2, <2>3, <2>4, ApplyFrame DEF Carried
    <2>5. CASE ~Apply(w)
      <3>1. UNCHANGED applied
        BY <1>2, <2>5 DEF Run, Load, Swap, Reject, Rollback, Return
      <3> USE DEF Goto, Finish, ghost
      <3>2. CASE Load(w)
        <4>1. /\ new'[w] \notin Invalid /\ new'[w] <= disk /\ at'[w] = 1
              /\ pc'[w] \in {"idle", "swap"}
          BY <1>0, <3>2 DEF Load, Carried, TypeOK, Edits
        <4> QED
          BY <1>0, <2>1, <2>2, <2>3, <3>1, <4>1 DEF Carried
      <3>3. CASE Swap(w)
        <4>1. \A p \in Parts : ~(p < 1)
          BY DEF Parts
        <4> QED
          BY <1>0, <2>1, <2>2, <2>3, <3>1, <3>3, <4>1 DEF Swap, Carried, TypeOK
      <3>4. CASE Reject(w)
        BY <1>0, <2>1, <2>2, <2>3, <3>1, <3>4 DEF Reject, Carried, TypeOK
      <3>5. CASE Rollback(w) \/ Return(w)
        BY <1>0, <2>1, <2>2, <2>3, <3>1, <3>5 DEF Rollback, Return, Carried, TypeOK, Edits
      <3> QED
        BY <1>2, <2>5, <3>2, <3>3, <3>4, <3>5 DEF Run
    <2> QED
      BY <2>4, <2>5
  <1>3. CASE UNCHANGED vars
    BY <1>0, <1>3 DEF vars, Carried, TypeOK
  <1> QED
    BY <1>1, <1>2, <1>3 DEF Next, Outside

\* Every step of a Reload that is alone brings it nearer to parts in line.
LEMMA AloneStep ==
    ASSUME Inv, [Next]_vars
    PROVE  Alone'
  <1> USE ConstantFacts
  <1> SUFFICES ASSUME overlap' # "now"
               PROVE  /\ \A v, w \in Runners : pc'[v] # "idle" /\ pc'[w] # "idle" => v = w
                      /\ Quiet' => InLineAfterSuccess'
                      /\ \A w \in Runners : pc'[w] = "observe" =>
                           current' = new'[w] /\ \A p \in Parts : p < at'[w] => applied'[p] = new'[w]
    BY DEF Alone
  <1>0. TypeOK /\ Carried
    BY DEF Inv
  <1>1. CASE Outside
    <2>1. UNCHANGED <<current, applied, new, old, at, lastOk>>
      BY <1>0, <1>1, OutsideFrame
    <2>2. CASE UNCHANGED <<pc, overlap>>
      BY <2>1, <2>2 DEF Inv, Alone, Quiet, InLineAfterSuccess
    <2>3. ASSUME NEW w \in Runners, pc[w] = "idle", Start(w)
          PROVE  \A v \in Runners : pc'[v] = IF v = w THEN "load" ELSE "idle"
      BY <1>0, <2>3, StartFrame DEF Quiet
    <2> QED
      BY <1>0, <1>1, <2>1, <2>2, <2>3, OutsideFrame DEF Quiet
  <1>2. ASSUME NEW w \in Runners, Run(w)
        PROVE  /\ \A u, v \in Runners : pc'[u] # "idle" /\ pc'[v] # "idle" => u = v
               /\ Quiet' => InLineAfterSuccess'
               /\ \A v \in Runners : pc'[v] = "observe" =>
                    current' = new'[v] /\ \A p \in Parts : p < at'[v] => applied'[p] = new'[v]
    <2>1. overlap # "now" /\ pc[w] # "idle"
      BY <1>0, <1>2, RunFrame
    <2>2. \A v \in Runners : v # w => pc'[v] = "idle"
      BY <1>0, <1>2, <2>1, RunFrame DEF Inv, Alone
    <2> SUFFICES /\ pc'[w] = "idle" => InLineAfterSuccess'
                 /\ pc'[w] = "observe" =>
                      current' = new'[w] /\ \A p \in Parts : p < at'[w] => applied'[p] = new'[w]
      BY <2>2 DEF Quiet
    <2>3. CASE Apply(w)
      BY <1>0, <2>1, <2>3, ApplyFrame DEF Inv, Alone
    <2> USE DEF Goto, Finish, ghost
    <2>4. CASE Load(w)
      BY <1>0, <2>4 DEF Load, TypeOK, InLineAfterSuccess
    <2>5. CASE Swap(w)
      <3>1. at[w] = 1 /\ \A p \in Parts : ~(p < 1)
        BY <1>0, <2>5 DEF Swap, Carried, Parts
      <3> QED
        BY <1>0, <2>5, <3>1 DEF Swap, TypeOK
    <2>6. CASE Reject(w)
      BY <1>0, <2>6 DEF Reject, TypeOK
    <2>7. CASE Rollback(w)
      BY <1>0, <2>7 DEF Rollback, TypeOK, InLineAfterSuccess
    <2>8. CASE Return(w)
      <3>1. current = new[w] /\ \A p \in Parts : applied[p] = new[w]
        BY <1>0, <2>1, <2>8 DEF Return, Inv, Alone, TypeOK, Parts
      <3> QED
        BY <1>0, <2>8, <3>1 DEF Return, TypeOK, InLineAfterSuccess
    <2> QED
      BY <1>2, <2>3, <2>4, <2>5, <2>6, <2>7, <2>8 DEF Run
  <1>3. CASE UNCHANGED vars
    BY <1>3 DEF vars, Inv, Alone, Quiet, InLineAfterSuccess
  <1> QED
    BY <1>1, <1>2, <1>3 DEF Next, Outside

\* Every step of a Reload keeps the order of the parts, if reloads never overlapped.
LEMMA SerialStep ==
    ASSUME Inv, [Next]_vars
    PROVE  Serial'
  <1> USE ConstantFacts
  <1> SUFFICES ASSUME overlap' = "never"
               PROVE  /\ \A p, q \in Parts : p < q => applied'[p] >= applied'[q]
                      /\ Quiet' => InForceIsSound(current)'
                      /\ \A w \in Runners :
                          /\ pc'[w] \in {"load", "swap"} => InForceIsSound(current)'
                          /\ pc'[w] \in {"swap", "observe"} => \A p \in Parts : applied'[p] <= new'[w]
                          /\ pc'[w] \in {"observe", "rollback"} =>
                               Acceptable(old'[w]) /\ (at'[w] <= NumParts => applied'[NumParts] = old'[w])
    BY DEF Serial, Acceptable
  <1>0. TypeOK /\ Carried /\ applied \in [Parts -> Int] /\ new \in [Runners -> Int]
    BY DEF Inv, TypeOK, Edits
  <1>1. CASE Outside
    <2>1. UNCHANGED <<current, applied, new, old, at, lastOk>>
      BY <1>0, <1>1, OutsideFrame
    <2>2. InForceIsSound(current)' <=> InForceIsSound(current)
      BY <2>1 DEF InForceIsSound, Acceptable
    <2>3. CASE UNCHANGED <<pc, overlap>>
      BY <2>1, <2>2, <2>3 DEF Inv, Serial, Quiet
    <2>4. ASSUME NEW w \in Runners, pc[w] = "idle", Start(w)
          PROVE  /\ overlap = "never" /\ Quiet
                 /\ \A v \in Runners : pc'[v] = IF v = w THEN "load" ELSE "idle"
      BY <1>0, <2>4, StartFrame DEF Quiet
    <2> QED
      BY <1>0, <1>1, <2>1, <2>2, <2>3, <2>4, OutsideFrame DEF Inv, Serial, Quiet
  <1>2. ASSUME NEW w \in Runners, Run(w)
        PROVE  /\ \A p, q \in Parts : p < q => applied'[p] >= applied'[q]
               /\ Quiet' => InForceIsSound(current)'
               /\ \A v \in Runners :
                   /\ pc'[v] \in {"load", "swap"} => InForceIsSound(current)'
                   /\ pc'[v] \in {"swap", "observe"} => \A p \in Parts : applied'[p] <= new'[v]
                   /\ pc'[v] \in {"observe", "rollback"} =>
                        Acceptable(old'[v]) /\ (at'[v] <= NumParts => applied'[NumParts] = old'[v])
    <2>1. overlap = "never" /\ pc[w] # "idle"
      BY <1>0, <1>2, RunFrame
    <2>2. \A v \in Runners : v # w => pc'[v] = "idle"
      BY <1>0, <1>2, <2>1, RunFrame DEF Inv, Alone
    <2>3. \A p, q \in Parts : p < q => applied[p] >= applied[q]
      BY <2>1 DEF Inv, Serial
    <2> SUFFICES
          /\ \A p, q \in Parts : p < q => applied'[p] >= applied'[q]
          /\ pc'[w] \in {"idle", "load", "swap"} => InForceIsSound(current)'
          /\ pc'[w] \in {"swap", "observe"} => \A p \in Parts : applied'[p] <= new'[w]
          /\ pc'[w] \in {"observe", "rollback"} =>
               Acceptable(old'[w]) /\ (at'[w] <= NumParts => applied'[NumParts] = old'[w])
      BY <2>2 DEF Quiet
    <2> USE DEF Goto, Finish, ghost
    <2>4. CASE Load(w)
      <3>1. InForceIsSound(current) /\ \A p \in Parts : applied[p] <= disk
        BY <1>0, <2>1, <2>4 DEF Load, Inv, Serial, Carried
      <3>2. InForceIsSound(current)'
        BY <2>4, <3>1 DEF Load, InForceIsSound, Acceptable
      <3> QED
        BY <1>0, <2>3, <2>4, <3>1, <3>2 DEF Load, TypeOK
    <2>5. CASE Swap(w)
      <3>1. InForceIsSound(current) /\ \A p \in Parts : applied[p] <= new[w]
        BY <2>1, <2>5 DEF Swap, Inv, Serial
      <3> QED
        BY <1>0, <2>3, <2>5, <3>1 DEF Swap, TypeOK, InForceIsSound
    <2>6. CASE Apply(w)
      <3>1. /\ \A p \in Parts : applied[p] <= new[w]
            /\ \A p \in Parts : p < at[w] => applied[p] = new[w]
            /\ Acceptable(old[w]) /\ applied[NumParts] = old[w]
        BY <1>0, <2>1, <2>6, ApplyFrame DEF Inv, Serial, Alone, Parts
      <3>2. \A p \in Parts : applied'[p] <= new'[w]
        BY <1>0, <2>6, <3>1, ApplyFrame
      <3>3. ASSUME NEW p \in Parts, NEW q \in Parts, p < q
            PROVE  applied'[p] >= applied'[q]
        <4>1. /\ at[w] \in Int /\ p \in Int /\ q \in Int /\ new[w] \in Int
              /\ applied[p] \in Int /\ applied[q] \in Int
          BY <1>0, <2>6, ApplyFrame DEF Parts
        <4>2. /\ applied'[p] = IF p = at[w] THEN new[w] ELSE applied[p]
              /\ applied'[q] = IF q = at[w] THEN new[w] ELSE applied[q]
          BY <1>0, <2>6, ApplyFrame
        <4>3. CASE q = at[w]
          BY <3>1, <3>3, <4>1, <4>2, <4>3
        <4>4. CASE q # at[w]
          <5>1. applied[q] <= new[w] /\ applied[p] >= applied[q]
            BY <2>3, <3>1, <3>3
          <5> QED
            BY <4>1, <4>2, <4>4, <5>1
        <4> QED
          BY <4>3, <4>4
      <3>4. at'[w] <= NumParts => applied'[NumParts] = old'[w]
        BY <1>0, <2>6, <3>1, ApplyFrame DEF Parts
      <3> QED
        BY <1>0, <2>6, <3>1, <3>2, <3>3, <3>4, ApplyFrame
    <2>7. CASE Reject(w)
      <3>1. Acceptable(old[w]) /\ applied[NumParts] = old[w]
        BY <2>1, <2>7 DEF Reject, Inv, Serial
      <3> QED
        BY <1>0, <2>3, <2>7, <3>1 DEF Reject, TypeOK
    <2>8. CASE Rollback(w)
      <3>1. Acceptable(old[w]) /\ applied[NumParts] = old[w]
        BY <1>0, <2>1, <2>8 DEF Rollback, Inv, Serial, Carried
      <3>2. pc'[w] = "idle" /\ current' = old[w] /\ UNCHANGED applied
        BY <1>0, <2>8 DEF Rollback, TypeOK
      <3> QED
        BY <2>3, <3>1, <3>2 DEF InForceIsSound, Acceptable
    <2>9. CASE Return(w)
      <3>1. current = new[w] /\ \A p \in Parts : applied[p] = new[w] /\ ~Rejects(p, new[w])
        BY <1>0, <2>1, <2>9 DEF Return, Inv, Alone, Carried, TypeOK, Parts
      <3>2. Acceptable(current) /\ applied[NumParts] = current
        BY <1>0, <3>1 DEF Acceptable, Carried
      <3>3. pc'[w] = "idle" /\ UNCHANGED <<current, applied>>
        BY <1>0, <2>9 DEF Return, TypeOK
      <3> QED
        BY <2>3, <3>2, <3>3 DEF InForceIsSound, Acceptable
    <2> QED
      BY <1>2, <2>4, <2>5, <2>6, <2>7, <2>8, <2>9 DEF Run
  <1>3. CASE UNCHANGED vars
    BY <1>3 DEF vars, Inv, Serial, InForceIsSound, Acceptable, Quiet
  <1> QED
    BY <1>1, <1>2, <1>3 DEF Next, Outside

\* The program starts with everything in line.
LEMMA InitInv == Init => Inv
  <1> SUFFICES ASSUME Init PROVE Inv
    OBVIOUS
  <1> USE ConstantFacts
  <1>1. TypeOK
    <2>1. /\ event \in BOOLEAN /\ timer \in BOOLEAN /\ hup \in BOOLEAN
          /\ stopped \in BOOLEAN /\ watching \in BOOLEAN /\ missed \in BOOLEAN
          /\ lastOk \in BOOLEAN
      BY Zenon DEF Init
    <2> QED
      BY <2>1 DEF Init, TypeOK, Parts
  <1>2. Carried /\ Alone
    BY DEF Init, Carried, Alone, Quiet, InLineAfterSuccess, Parts
  <1>3. Serial
    BY DEF Init, Serial, InForceIsSound, Quiet, Parts
  <1> QED
    BY <1>1, <1>2, <1>3 DEF Inv

\* Inv holds always.
LEMMA InvHolds == Spec => []Inv
  <1>1. ASSUME Inv, [Next]_vars PROVE Inv'
    BY <1>1, CarriedStep, AloneStep, SerialStep DEF Inv
  <1> QED
    BY <1>1, InitInv, PTL DEF Spec

-----------------------------------------------------------------------------
\* Reload and Gateway.OnReload, for any number of goroutines, parts and edits, and
\* observers that give up at any part: while reloads have not overlapped, what
\* rollbacks leave behind is newer towards the front, and the last part runs what the
\* pointer is at.
THEOREM ReloadTornInOrder == Spec => []TornInOrder
  <1>1. Inv => TornInOrder
    BY DEF Inv, Serial, TornInOrder, InForceIsSound
  <1> QED
    BY <1>1, InvHolds, PTL

\* A success of a Reload that ran alone brings all parts in line, whatever was before;
\* reloads that never overlapped leave an acceptable configuration in force.
THEOREM ReloadsSettle == Spec => []SerialReloadsSettle
  <1>1. Inv => SerialReloadsSettle
    BY DEF Inv, Alone, Serial, SerialReloadsSettle, InForceIsSound
  <1> QED
    BY <1>1, InvHolds, PTL

-----------------------------------------------------------------------------
\* Readiness.

\* What a poll under way has in its results and what it met agree; a poller that waits
\* carries nothing over to its next poll.
ProbesTruthful ==
    \A p \in Pollers :
        /\ ppc[p] = "idle" => ~sawDown[p] /\ ~cancelled[p]
        /\ ppc[p] = "probe" =>
             /\ sawDown[p] => \E b \in Backends : probe[p][b] = "down"
             /\ (\E b \in Backends : probe[p][b] = "down") => sawDown[p] \/ cancelled[p]

\* Until it expires, a stored answer rests on probes that were no older than a poll
\* when it was stored.
EvidenceAges == cachedAt = TTL \/ evidence <= cachedAt + MaxPoll

ReadyInv ==
    /\ ReadyTypeOK
    /\ cancelled \in [Pollers -> BOOLEAN] /\ sawDown \in [Pollers -> BOOLEAN]
    /\ ProbesTruthful /\ EvidenceAges /\ VerdictTruthful

\* One goroutine of a poll notes its result: a result is "down" only if the backend was
\* down, its circuit open or the client gone.
LEMMA ProbeStep ==
    ASSUME ReadyInv, NEW p \in Pollers, NEW b \in Backends, Inspect(p, b) \/ Dial(p, b)
    PROVE  ReadyInv'
  <1> USE ReadinessAssumption
  <1> DEFINE met == (probe[p][b] = "start" /\ circuit[b] = "Open") \/ (probe[p][b] = "dial" /\ ~up[b])
  <1>1. /\ ppc[p] = "probe" /\ probe[p][b] \in {"start", "dial"}
        /\ UNCHANGED <<world, cache, ppc, cancelled, elapsed, answer>>
    BY DEF Inspect, Dial
  <1>2. PICK result \in {"dial", "ok", "down"} :
            /\ probe' = [probe EXCEPT ![p][b] = result]
            /\ sawDown' = [sawDown EXCEPT ![p] = @ \/ met]
            /\ met => result = "down"
            /\ result = "down" => met \/ cancelled[p]
    <2>1. CASE Inspect(p, b)
      BY <2>1 DEF Inspect, Saw, ReadyInv, ReadyTypeOK
    <2>2. CASE Dial(p, b)
      BY <2>2 DEF Dial, Saw, ReadyInv, ReadyTypeOK
    <2> QED
      BY <2>1, <2>2
  <1>3. probe' \in [Pollers -> [Backends -> {"start", "dial", "ok", "down"}]]
    BY <1>2 DEF ReadyInv, ReadyTypeOK
  <1>4. sawDown' \in [Pollers -> BOOLEAN]
    BY <1>2 DEF ReadyInv
  <1>5. ReadyTypeOK'
    BY <1>1, <1>2, <1>3 DEF world, cache, ReadyInv, ReadyTypeOK, NotAsked
  <1>6. ProbesTruthful'
    <2> SUFFICES ASSUME NEW q \in Pollers
                 PROVE  ProbesTruthful!(q)'
      BY DEF ProbesTruthful
    <2>1. CASE q # p
      BY <1>1, <1>2, <2>1 DEF ProbesTruthful, ReadyInv, ReadyTypeOK
    <2>2. CASE q = p
      <3>1. /\ \A c \in Backends : probe'[p][c] = IF c = b THEN result ELSE probe[p][c]
            /\ cancelled'[p] = cancelled[p] /\ ppc'[p] = "probe"
        BY <1>1, <1>2 DEF ReadyInv, ReadyTypeOK
      <3>2. sawDown'[p] <=> sawDown[p] \/ met
        <4> HIDE DEF met
        <4> QED
          BY <1>2, Zenon DEF ReadyInv
      <3>3. /\ sawDown[p] => \E c \in Backends : probe[p][c] = "down" /\ c # b
            /\ (\E c \in Backends : probe[p][c] = "down") => sawDown[p] \/ cancelled[p]
        BY <1>1 DEF ReadyInv, ProbesTruthful
      <3>4. sawDown'[p] => \E c \in Backends : probe'[p][c] = "down"
        BY <1>2, <3>1, <3>2, <3>3
      <3>5. (\E c \in Backends : probe'[p][c] = "down") => sawDown'[p] \/ cancelled'[p]
        BY <1>2, <3>1, <3>2, <3>3
      <3> QED
        BY <2>2, <3>1, <3>4, <3>5
    <2> QED
      BY <2>1, <2>2
  <1>7. EvidenceAges' /\ VerdictTruthful'
    BY <1>1 DEF cache, ReadyInv, EvidenceAges, VerdictTruthful
  <1> QED
    BY <1>1, <1>4, <1>5, <1>6, <1>7 DEF ReadyInv

\* The verdict that is stored agrees with what its poll met.
LEMMA StoreStep ==
    ASSUME ReadyInv, NEW p \in Pollers, Store(p)
    PROVE  ReadyInv'
  <1> USE ReadinessAssumption
  <1>1. ReadyTypeOK'
    BY DEF Store, Verdict, world, ReadyInv, ReadyTypeOK, NotAsked
  <1>2. EvidenceAges'
    BY DEF Store, ReadyInv, ReadyTypeOK, EvidenceAges
  <1>3. VerdictTruthful'
    BY DEF Store, Verdict, ReadyInv, ProbesTruthful, VerdictTruthful
  <1>4. ProbesTruthful' /\ cancelled' \in [Pollers -> BOOLEAN] /\ sawDown' \in [Pollers -> BOOLEAN]
    BY DEF Store, ReadyInv, ReadyTypeOK, ProbesTruthful
  <1> QED
    BY <1>1, <1>2, <1>3, <1>4 DEF ReadyInv

\* Every step keeps ReadyInv.
LEMMA ReadyStep ==
    ASSUME ReadyInv, [ReadyNext]_readyVars
    PROVE  ReadyInv'
  <1> USE ReadinessAssumption
  <1>1. ASSUME NEW b \in Backends, Flip(b) \/ Trip(b)
        PROVE  ReadyInv'
    <2>1. up' \in [Backends -> BOOLEAN] /\ circuit' \in [Backends -> {"Closed", "Open", "HalfOpen"}]
      <3>1. CASE Flip(b)
        <4>1. [up EXCEPT ![b] = ~@] \in [Backends -> BOOLEAN]
          BY Zenon DEF ReadyInv, ReadyTypeOK
        <4> QED
          BY <3>1, <4>1 DEF Flip, ReadyInv, ReadyTypeOK
      <3>2. CASE Trip(b)
        BY <3>2 DEF Trip, ReadyInv, ReadyTypeOK
      <3> QED
        BY <1>1, <3>1, <3>2
    <2>2. UNCHANGED <<cache, poll>>
      BY <1>1 DEF Flip, Trip
    <2> QED
      BY <2>1, <2>2 DEF cache, poll, ReadyInv, ReadyTypeOK, ProbesTruthful, EvidenceAges, VerdictTruthful, NotAsked
  <1>2. ASSUME NEW p \in Pollers, ServeCached(p)
        PROVE  ReadyInv'
    BY <1>2 DEF ServeCached, world, cache, poll, ReadyInv, ReadyTypeOK, ProbesTruthful, EvidenceAges, VerdictTruthful, NotAsked
  <1>3. ASSUME NEW p \in Pollers, Ask(p)
        PROVE  ReadyInv'
    <2>1. ReadyTypeOK' /\ cancelled' \in [Pollers -> BOOLEAN] /\ sawDown' \in [Pollers -> BOOLEAN]
      BY <1>3 DEF Ask, world, cache, ReadyInv, ReadyTypeOK, NotAsked
    <2>2. ProbesTruthful'
      BY <1>3 DEF Ask, ReadyInv, ReadyTypeOK, ProbesTruthful, NotAsked
    <2>3. EvidenceAges' /\ VerdictTruthful'
      BY <1>3 DEF Ask, cache, ReadyInv, EvidenceAges, VerdictTruthful
    <2> QED
      BY <2>1, <2>2, <2>3 DEF ReadyInv
  <1>4. ASSUME NEW p \in Pollers, Work(p)
        PROVE  ReadyInv'
    BY <1>4, ProbeStep, StoreStep DEF Work
  <1>5. ASSUME NEW p \in Pollers, Cancel(p)
        PROVE  ReadyInv'
    <2>1. ReadyTypeOK' /\ cancelled' \in [Pollers -> BOOLEAN] /\ sawDown' \in [Pollers -> BOOLEAN]
      BY <1>5 DEF Cancel, world, cache, ReadyInv, ReadyTypeOK, NotAsked
    <2>2. ProbesTruthful'
      BY <1>5 DEF Cancel, ReadyInv, ReadyTypeOK, ProbesTruthful
    <2>3. EvidenceAges' /\ VerdictTruthful'
      BY <1>5 DEF Cancel, cache, ReadyInv, EvidenceAges, VerdictTruthful
    <2> QED
      BY <2>1, <2>2, <2>3 DEF ReadyInv
  <1>6. CASE ReadyTick
    <2>1. ReadyTypeOK'
      BY <1>6 DEF ReadyTick, world, ReadyInv, ReadyTypeOK, NotAsked
    <2>2. EvidenceAges'
      BY <1>6 DEF ReadyTick, ReadyInv, ReadyTypeOK, EvidenceAges
    <2>3. UNCHANGED <<cancelled, sawDown>> /\ ProbesTruthful' /\ VerdictTruthful'
      BY <1>6 DEF ReadyTick, ReadyInv, ProbesTruthful, VerdictTruthful
    <2> QED
      BY <2>1, <2>2, <2>3 DEF ReadyInv
  <1>7. CASE UNCHANGED readyVars
    BY <1>7 DEF readyVars, world, cache, poll, ReadyInv, ReadyTypeOK, ProbesTruthful, EvidenceAges, VerdictTruthful, NotAsked
  <1> QED
    BY <1>1, <1>2, <1>3, <1>4, <1>5, <1>6, <1>7 DEF ReadyNext

\* ReadyInv holds always.
LEMMA ReadyInvHolds == ReadySpec => []ReadyInv
  <1>1. ReadyInit => ReadyInv
    <2> SUFFICES ASSUME ReadyInit PROVE ReadyInv
      OBVIOUS
    <2>1. ReadyTypeOK
      BY ReadinessAssumption DEF ReadyInit, ReadyTypeOK, NotAsked
    <2>2. cancelled \in [Pollers -> BOOLEAN] /\ sawDown \in [Pollers -> BOOLEAN]
      BY DEF ReadyInit
    <2>3. ProbesTruthful /\ EvidenceAges /\ VerdictTruthful
      BY ReadinessAssumption DEF ReadyInit, ProbesTruthful, EvidenceAges, VerdictTruthful
    <2> QED
      BY <2>1, <2>2, <2>3 DEF ReadyInv
  <1> QED
    BY <1>1, ReadyStep, PTL DEF ReadySpec

\* health.go:59-71 and 161-165: for any number of overlapping polls, an answer that is served from
\* the cache rests on no probe older than a poll and the TTL together.
THEOREM ReadinessAnswerIsRecent == ReadySpec => []AnswerIsRecent
  <1>1. ReadyInv => AnswerIsRecent
    BY ReadinessAssumption DEF ReadyInv, AnswerIsRecent, ReadyTypeOK, EvidenceAges, Fresh
  <1> QED
    BY <1>1, ReadyInvHolds, PTL

\* health.go:136-165: the stored verdict is 200 only if its poll met no backend that was down, and 503 only
\* if it met one or its client went away.
THEOREM ReadinessVerdictTruthful == ReadySpec => []VerdictTruthful
  <1>1. ReadyInv => VerdictTruthful
    BY DEF ReadyInv
  <1> QED
    BY <1>1, ReadyInvHolds, PTL

-----------------------------------------------------------------------------
\* The rate limiter.

\* l.rate, l.burst and l.routes come from configurations, if not from the same one.
ConfigsForm ==
    /\ \E c \in Configs : rate = c.rate
    /\ \E c \in Configs : burst = c.burst
    /\ \E c \in Configs : routes = c.override

\* A key with the limits of an override, or with a rate and a burst of configurations, which
\* need not be the same one.
Gathered(k) ==
    \E ip \in IPs : \/ \E c, d \in Configs : k = <<ip, c.rate, d.burst>>
                    \/ \E c \in Configs : /\ c.override # NoOverride
                                          /\ k = <<ip, c.override.rate, c.override.burst>>

\* What a request has gathered of its key where it stands; in front of the map and after,
\* all of it.
KeysForm ==
    /\ rpc \in [Requests -> {"idle", "routes", "rate", "burst", "lookup", "refresh", "insert", "allow"}]
    /\ DOMAIN key = Requests
    /\ \A r \in Requests :
        /\ rpc[r] \in {"routes", "rate"} => \E ip \in IPs : key[r] = <<ip, 0, 0>>
        /\ rpc[r] = "burst" => \E ip \in IPs, c \in Configs : key[r] = <<ip, c.rate, 0>>
        /\ rpc[r] \in {"lookup", "refresh", "insert", "allow"} => Gathered(key[r])
        /\ rpc[r] = "insert" => bucket[r] = NoBucket

\* lastSeen is behind the last use by what the lazy refresh allows and no more.
LagsBehindUse ==
    \A b \in Buckets : idle[b] = LongIdle \/ lastSeen[b] <= idle[b] + IdleTTL \div 2

LimiterInv == LimiterTypeOK /\ ConfigsForm /\ KeysForm /\ LagsBehindUse

\* The ages.
LEMMA Ages ==
    /\ IdleTTL \div 2 \in Nat /\ LongIdle \in Nat \ {0} /\ MaxAge \in Nat \ {0}
    /\ LongIdle - 1 + IdleTTL \div 2 = IdleTTL
    /\ MaxAge > IdleTTL
  BY LimiterAssumption DEF LongIdle, MaxAge

\* Limits contains the limits of every configuration and every override there is.
LEMMA LimitsFacts ==
    /\ \A c \in Configs : \E l \in Limits : l.rate = c.rate /\ l.burst = c.burst
    /\ \A c \in Configs : c.override # NoOverride => c.override \in Limits
  <1>1. ASSUME NEW c \in Configs
        PROVE  \E l \in Limits : l.rate = c.rate /\ l.burst = c.burst
    <2>1. [rate |-> c.rate, burst |-> c.burst] \in Limits
      BY DEF Limits
    <2> QED
      BY <2>1
  <1>2. ASSUME NEW c \in Configs, c.override # NoOverride
        PROVE  c.override \in Limits
    BY <1>2 DEF Limits
  <1> QED
    BY <1>1, <1>2

\* The map has a place for every key that is gathered.
LEMMA GatheredIsKey ==
    ASSUME NEW k, Gathered(k)
    PROVE  k \in Keys
  <1>1. ASSUME NEW ip \in IPs, NEW c \in Configs, NEW d \in Configs, k = <<ip, c.rate, d.burst>>
        PROVE  k \in Keys
    <2>1. PICK l \in Limits : l.rate = c.rate
      BY LimitsFacts
    <2>2. PICK m \in Limits : m.burst = d.burst
      BY LimitsFacts
    <2> QED
      BY <1>1, <2>1, <2>2 DEF Keys
  <1>2. ASSUME NEW ip \in IPs, NEW l \in Limits, k = <<ip, l.rate, l.burst>>
        PROVE  k \in Keys
    BY <1>2 DEF Keys
  <1> QED
    BY <1>1, <1>2, LimitsFacts DEF Gathered

\* The values of a function on a finite set are no more than its arguments.
LEMMA ImageBound ==
    ASSUME NEW S, IsFiniteSet(S), NEW f
    PROVE  IsFiniteSet({f[x] : x \in S}) /\ Cardinality({f[x] : x \in S}) <= Cardinality(S)
  <1> DEFINE T == {f[x] : x \in S}
             g == [x \in S |-> f[x]]
  <1>1. g \in Surjection(S, T)
    BY DEF Surjection
  <1> QED
    BY <1>1, FS_Surjection

\* rate.NewLimiter finds a free bucket for a request that has none and whose key has none.
LEMMA SomeFree ==
    ASSUME NEW r \in Requests, bucket[r] = NoBucket,
           NEW k \in Keys, clients[k] = NoBucket
    PROVE  NewLimiter \in Free /\ NewLimiter \in Buckets
  <1> DEFINE K == {clients[x] : x \in Keys \ {k}}
             R == {bucket[x] : x \in Requests \ {r}}
  <1>1. /\ IsFiniteSet(Keys \ {k}) /\ Cardinality(Keys \ {k}) = Cardinality(Keys) - 1
        /\ IsFiniteSet(Requests \ {r}) /\ Cardinality(Requests \ {r}) = Cardinality(Requests) - 1
    BY BucketAssumption, FS_RemoveElement
  <1>2. IsFiniteSet(K) /\ Cardinality(K) <= Cardinality(Keys) - 1
    BY <1>1, ImageBound
  <1>3. IsFiniteSet(R) /\ Cardinality(R) <= Cardinality(Requests) - 1
    BY <1>1, ImageBound
  <1>4. /\ IsFiniteSet(K \cup R)
        /\ Cardinality(K \cup R) = Cardinality(K) + Cardinality(R) - Cardinality(K \cap R)
    BY <1>2, <1>3, FS_Union
  <1>5. /\ Cardinality(K \cup R) \in Nat /\ Cardinality(K) \in Nat /\ Cardinality(R) \in Nat
        /\ Cardinality(K \cap R) \in Nat
        /\ Cardinality(Keys) \in Nat /\ Cardinality(Requests) \in Nat /\ Cardinality(Buckets) \in Nat
    <2>1. IsFiniteSet(K \cap R)
      BY <1>2, FS_Subset
    <2> QED
      BY <1>2, <1>3, <1>4, <2>1, BucketAssumption, FS_CardinalityType
  <1>6. Cardinality(K \cup R) < Cardinality(Buckets)
    BY <1>2, <1>3, <1>4, <1>5, BucketAssumption
  <1>7. Free # {}
    <2> SUFFICES ASSUME Free = {} PROVE FALSE
      OBVIOUS
    <2>1. Buckets \subseteq K \cup R
      BY BucketAssumption DEF Free
    <2>2. Cardinality(Buckets) <= Cardinality(K \cup R)
      BY <1>4, <2>1, FS_Subset
    <2> QED
      BY <1>5, <1>6, <2>2
  <1> QED
    BY <1>7 DEF NewLimiter, Free

\* limitsForPath and Allow touch neither the map nor the ages.
LEMMA ReadStep ==
    ASSUME LimiterInv, NEW r \in Requests,
           Arrive(r) \/ ReadRoutes(r) \/ ReadRate(r) \/ ReadBurst(r) \/ Allow(r)
    PROVE  LimiterInv' /\ clients' = clients
  <1> USE DEF LimiterInv, KeysForm
  <1>1. UNCHANGED <<config, map, janitor>>
    BY DEF Arrive, ReadRoutes, ReadRate, ReadBurst, Allow
  <1>2. /\ clients' = clients /\ ConfigsForm' /\ LagsBehindUse'
        /\ bucket' \in [Requests -> Buckets \cup {NoBucket}]
        /\ (\A q \in Requests : rpc'[q] \in {"refresh", "allow"} => bucket'[q] # NoBucket) => LimiterTypeOK'
    <2>1. bucket' \in [Requests -> Buckets \cup {NoBucket}]
      BY DEF LimiterTypeOK, Arrive, ReadRoutes, ReadRate, ReadBurst, Allow
    <2> QED
      BY <1>1, <2>1 DEF config, map, janitor, ConfigsForm, LagsBehindUse, LimiterTypeOK
  <1>3. CASE Arrive(r)
    <2>1. PICK ip \in IPs : key' = [key EXCEPT ![r] = <<ip, 0, 0>>]
      BY <1>3 DEF Arrive
    <2>2. KeysForm' /\ \A q \in Requests : rpc'[q] \in {"refresh", "allow"} => bucket'[q] # NoBucket
      BY <1>3, <2>1 DEF Arrive, Advance, LimiterTypeOK
    <2> QED
      BY <1>2, <2>2
  <1>4. CASE ReadRoutes(r)
    <2>1. PICK ip \in IPs : key[r] = <<ip, 0, 0>>
      BY <1>4 DEF ReadRoutes
    <2>2. CASE Advance(r, "rate") /\ UNCHANGED key
      <3>1. KeysForm' /\ \A q \in Requests : rpc'[q] \in {"refresh", "allow"} => bucket'[q] # NoBucket
        BY <1>4, <2>2 DEF ReadRoutes, Advance, LimiterTypeOK
      <3> QED
        BY <1>2, <3>1
    <2>3. CASE /\ routes # NoOverride
               /\ key' = [key EXCEPT ![r][2] = routes.rate, ![r][3] = routes.burst]
               /\ Advance(r, "lookup")
      <3>1. PICK c \in Configs : routes = c.override
        BY DEF ConfigsForm
      <3>2. key'[r] = <<ip, routes.rate, routes.burst>>
        BY <2>1, <2>3
      <3>3. Gathered(key'[r])
        BY <2>3, <3>1, <3>2 DEF Gathered
      <3>4. DOMAIN key' = Requests /\ \A q \in Requests \ {r} : key'[q] = key[q]
        BY <2>3
      <3>5. KeysForm' /\ \A q \in Requests : rpc'[q] \in {"refresh", "allow"} => bucket'[q] # NoBucket
        BY <1>4, <2>3, <3>3, <3>4 DEF ReadRoutes, Advance, LimiterTypeOK
      <3> QED
        BY <1>2, <3>5
    <2> QED
      BY <1>4, <2>2, <2>3 DEF ReadRoutes
  <1>5. CASE ReadRate(r)
    <2>1. PICK ip \in IPs : key[r] = <<ip, 0, 0>>
      BY <1>5 DEF ReadRate
    <2>2. PICK c \in Configs : rate = c.rate
      BY DEF ConfigsForm
    <2>3. key'[r] = <<ip, c.rate, 0>>
      BY <1>5, <2>1, <2>2 DEF ReadRate
    <2>4. DOMAIN key' = Requests /\ \A q \in Requests \ {r} : key'[q] = key[q]
      BY <1>5 DEF ReadRate
    <2>5. KeysForm' /\ \A q \in Requests : rpc'[q] \in {"refresh", "allow"} => bucket'[q] # NoBucket
      BY <1>5, <2>3, <2>4 DEF ReadRate, Advance, LimiterTypeOK
    <2> QED
      BY <1>2, <2>5
  <1>6. CASE ReadBurst(r)
    <2>1. PICK ip \in IPs, c \in Configs : key[r] = <<ip, c.rate, 0>>
      BY <1>6 DEF ReadBurst
    <2>2. PICK d \in Configs : burst = d.burst
      BY DEF ConfigsForm
    <2>3. key'[r] = <<ip, c.rate, d.burst>>
      BY <1>6, <2>1, <2>2 DEF ReadBurst
    <2>4. Gathered(key'[r])
      BY <2>3 DEF Gathered
    <2>5. DOMAIN key' = Requests /\ \A q \in Requests \ {r} : key'[q] = key[q]
      BY <1>6 DEF ReadBurst
    <2>6. KeysForm' /\ \A q \in Requests : rpc'[q] \in {"refresh", "allow"} => bucket'[q] # NoBucket
      BY <1>6, <2>4, <2>5 DEF ReadBurst, Advance, LimiterTypeOK
    <2> QED
      BY <1>2, <2>6
  <1>7. CASE Allow(r)
    <2>1. KeysForm' /\ \A q \in Requests : rpc'[q] \in {"refresh", "allow"} => bucket'[q] # NoBucket
      BY <1>7 DEF Allow, Advance, LimiterTypeOK
    <2> QED
      BY <1>2, <2>1
  <1> QED
    BY <1>3, <1>4, <1>5, <1>6, <1>7

\* getLimiter hands a bucket out: its lastSeen is not behind its use by more than half the
\* TTL, whether it was refreshed or not.
LEMMA HandOut ==
    ASSUME LimiterInv, NEW r \in Requests, NEW b \in Buckets,
           \/ Touch(r, b)
           \/ /\ UNCHANGED lastSeen /\ idle' = [idle EXCEPT ![b] = 0]
              /\ lastSeen[b] <= IdleTTL \div 2
    PROVE  /\ lastSeen' \in [Buckets -> 0..MaxAge] /\ idle' \in [Buckets -> 0..LongIdle]
           /\ LagsBehindUse'
  <1> USE Ages DEF LimiterInv, LimiterTypeOK
  <1>1. lastSeen' \in [Buckets -> 0..MaxAge] /\ idle' \in [Buckets -> 0..LongIdle]
    BY DEF Touch
  <1>2. ASSUME NEW c \in Buckets
        PROVE  idle'[c] = LongIdle \/ lastSeen'[c] <= idle'[c] + IdleTTL \div 2
    BY DEF Touch, LagsBehindUse
  <1>3. LongIdle' = LongIdle
    BY DEF LongIdle
  <1> QED
    BY <1>1, <1>2, <1>3 DEF LagsBehindUse

\* getLimiter: only Insert writes to the map, where it has no entry.
LEMMA GetStep ==
    ASSUME LimiterInv, NEW r \in Requests, Lookup(r) \/ Refresh(r) \/ Insert(r)
    PROVE  LimiterInv' /\ \A k \in Keys : clients[k] # NoBucket => clients'[k] = clients[k]
  <1> USE BucketAssumption DEF LimiterInv, KeysForm, LimiterTypeOK
  <1>1. UNCHANGED <<config, janitor, key>> /\ Gathered(key[r]) /\ key[r] \in Keys
    BY GatheredIsKey DEF Lookup, Refresh, Insert
  <1>2. ConfigsForm' /\ UNCHANGED <<updating, next, expired, jage>>
    BY <1>1 DEF config, janitor, ConfigsForm
  <1>3. CASE Lookup(r)
    <2> DEFINE b == clients[key[r]]
    <2>1. b \in Buckets \cup {NoBucket} /\ clients' = clients /\ lastSeen' = lastSeen
      BY <1>1, <1>3 DEF Lookup
    <2>2. /\ bucket' = [bucket EXCEPT ![r] = b]
          /\ \/ b = NoBucket /\ Advance(r, "insert") /\ UNCHANGED idle
             \/ b # NoBucket /\ Advance(r, "refresh") /\ UNCHANGED idle
             \/ b # NoBucket /\ ~Stale(lastSeen[b]) /\ Advance(r, "allow") /\ idle' = [idle EXCEPT ![b] = 0]
      BY <1>3 DEF Lookup
    <2>3. idle' \in [Buckets -> 0..LongIdle] /\ LagsBehindUse'
      <3>1. CASE UNCHANGED idle
        BY <2>1, <3>1 DEF LagsBehindUse, LongIdle
      <3>2. CASE b # NoBucket /\ ~Stale(lastSeen[b]) /\ idle' = [idle EXCEPT ![b] = 0]
        <4>1. b \in Buckets /\ lastSeen[b] <= IdleTTL \div 2
          BY <2>1, <3>2, Ages DEF Stale
        <4> QED
          BY <2>1, <3>2, <4>1, HandOut
      <3> QED
        BY <2>2, <3>1, <3>2
    <2>4. KeysForm' /\ bucket' \in [Requests -> Buckets \cup {NoBucket}]
          /\ \A q \in Requests : rpc'[q] \in {"refresh", "allow"} => bucket'[q] # NoBucket
      BY <1>1, <2>1, <2>2 DEF Advance
    <2> QED
      BY <1>2, <2>1, <2>3, <2>4
  <1>4. ASSUME NEW b \in Buckets, Touch(r, b), clients' \in [Keys -> Buckets \cup {NoBucket}]
        PROVE  LimiterInv'
    <2>1. /\ lastSeen' \in [Buckets -> 0..MaxAge] /\ idle' \in [Buckets -> 0..LongIdle]
          /\ LagsBehindUse'
      BY <1>4, HandOut
    <2>2. KeysForm' /\ bucket' \in [Requests -> Buckets \cup {NoBucket}]
          /\ \A q \in Requests : rpc'[q] \in {"refresh", "allow"} => bucket'[q] # NoBucket
      BY <1>1, <1>4 DEF Touch, Advance
    <2> QED
      BY <1>2, <1>4, <2>1, <2>2
  <1>5. CASE Refresh(r)
    <2>1. bucket[r] \in Buckets
      BY <1>5 DEF Refresh
    <2> QED
      BY <1>4, <1>5, <2>1 DEF Refresh
  <1>6. CASE Insert(r)
    <2>1. CASE clients[key[r]] # NoBucket
      BY <1>1, <1>4, <1>6, <2>1 DEF Insert
    <2>2. CASE clients[key[r]] = NoBucket
      <3>1. NewLimiter \in Buckets
        BY <1>1, <1>6, <2>2, SomeFree DEF Insert
      <3>2. clients' = [clients EXCEPT ![key[r]] = NewLimiter] /\ Touch(r, NewLimiter)
        BY <1>6, <2>2 DEF Insert
      <3> QED
        BY <1>1, <1>4, <2>2, <3>1, <3>2
    <2> QED
      BY <2>1, <2>2
  <1> QED
    BY <1>3, <1>5, <1>6

\* What may not happen to an entry outside a reload while its bucket is in use.
KeepsUsed ==
    \A k \in Keys : (clients[k] # NoBucket /\ clients'[k] # clients[k] /\ Unlocked)
                    => idle[clients[k]] = LongIdle

\* A bucket that the janitor finds expired, at whatever now, has not been used for more
\* than half the TTL.
LEMMA ExpiredIsIdle ==
    ASSUME LimiterInv, NEW k \in Keys, NEW since \in Nat, Expired(k, since)
    PROVE  idle[clients[k]] = LongIdle
  <1> DEFINE b    == clients[k]
             half == IdleTTL \div 2
  <1>1. b \in Buckets /\ lastSeen[b] - since > IdleTTL
    BY DEF Expired, LimiterInv, LimiterTypeOK
  <1>2. lastSeen[b] \in Nat /\ idle[b] \in 0..LongIdle
    BY <1>1, Ages DEF LimiterInv, LimiterTypeOK
  <1>3. idle[b] = LongIdle \/ lastSeen[b] <= idle[b] + half
    BY <1>1 DEF LimiterInv, LagsBehindUse
  <1>4. half \in Nat /\ LongIdle \in Nat /\ IdleTTL \in Nat /\ LongIdle - 1 + half = IdleTTL
    BY Ages, LimiterAssumption
  <1> HIDE DEF b, half
  <1>5. idle[b] = LongIdle
    BY <1>1, <1>2, <1>3, <1>4
  <1> QED
    BY <1>5 DEF b

\* The steps of a reload and of the janitor leave the requests and the ages alone.
LEMMA ServiceStep ==
    ASSUME LimiterInv, UpdateConfig \/ Scan \/ EvictBatch \/ JanitorReturns \/ Close
    PROVE  LimiterInv' /\ KeepsUsed
  <1>1. UNCHANGED <<lastSeen, idle, request>>
    BY DEF UpdateConfig, Scan, EvictBatch, JanitorReturns, Close, map
  <1>2. KeysForm' /\ LagsBehindUse'
    BY <1>1 DEF request, LimiterInv, KeysForm, LagsBehindUse, LongIdle
  <1>3. ASSUME UNCHANGED config, expired' \subseteq Keys, jage' \in 0..MaxPass,
               clients' \in [Keys -> Buckets \cup {NoBucket}]
        PROVE  LimiterInv'
    BY <1>1, <1>2, <1>3 DEF config, request, LimiterInv, LimiterTypeOK, ConfigsForm, MaxAge, LongIdle
  <1>4. CASE UpdateConfig
    <2>1. UNCHANGED <<expired, jage>>
      BY <1>4 DEF UpdateConfig, janitor
    <2>2. ConfigsForm' /\ next' \in Configs /\ updating' \in {"no", "burst", "routes", "clients"}
      BY <1>4 DEF UpdateConfig, LimiterInv, LimiterTypeOK, ConfigsForm
    <2>3. clients' \in [Keys -> Buckets \cup {NoBucket}] /\ (Unlocked => clients' = clients)
      BY <1>4 DEF UpdateConfig, LimiterInv, LimiterTypeOK, Unlocked
    <2>4. LimiterTypeOK'
      BY <1>1, <2>1, <2>2, <2>3 DEF request, LimiterInv, LimiterTypeOK, MaxAge, LongIdle
    <2> QED
      BY <1>2, <2>2, <2>3, <2>4 DEF LimiterInv, KeepsUsed
  <1>5. CASE Scan
    <2>1. UNCHANGED <<config, clients>> /\ expired' \subseteq Keys /\ jage' = 0
      BY <1>5 DEF Scan, map
    <2> QED
      BY <1>3, <2>1, LimiterAssumption DEF LimiterInv, LimiterTypeOK, KeepsUsed
  <1>6. CASE EvictBatch
    <2>1. PICK batch \in SUBSET expired :
              /\ clients' = [k \in Keys |-> IF k \in batch /\ Expired(k, jage) THEN NoBucket ELSE clients[k]]
              /\ expired' = expired \ batch
      BY <1>6 DEF EvictBatch
    <2>2. UNCHANGED <<config, jage>> /\ jage \in Nat
      BY <1>6, LimiterAssumption DEF EvictBatch, LimiterInv, LimiterTypeOK
    <2>3. clients' \in [Keys -> Buckets \cup {NoBucket}]
      BY <2>1 DEF LimiterInv, LimiterTypeOK
    <2>4. LimiterInv'
      BY <1>3, <2>1, <2>2, <2>3 DEF LimiterInv, LimiterTypeOK
    <2>5. KeepsUsed
      BY <2>1, <2>2, ExpiredIsIdle DEF KeepsUsed
    <2> QED
      BY <2>4, <2>5
  <1>7. CASE JanitorReturns \/ Close
    <2>1. UNCHANGED <<config, clients, expired, jage>>
      BY <1>7 DEF JanitorReturns, Close, map
    <2> QED
      BY <1>3, <2>1 DEF LimiterInv, LimiterTypeOK, KeepsUsed
  <1> QED
    BY <1>4, <1>5, <1>6, <1>7

\* Time passes for lastSeen and for the use of a bucket alike.
LEMMA TickStep ==
    ASSUME LimiterInv, LimiterTick
    PROVE  LimiterInv' /\ clients' = clients
  <1> USE Ages
  <1>1. UNCHANGED <<config, clients, request, expired>> /\ jage' \in 0..MaxPass
    BY LimiterAssumption DEF LimiterTick, LimiterInv, LimiterTypeOK
  <1>2. ASSUME NEW b \in Buckets
        PROVE  /\ lastSeen'[b] \in 0..MaxAge /\ idle'[b] \in 0..LongIdle
               /\ idle'[b] = LongIdle \/ lastSeen'[b] <= idle'[b] + IdleTTL \div 2
    <2>1. /\ lastSeen[b] \in 0..MaxAge /\ idle[b] \in 0..LongIdle
          /\ idle[b] = LongIdle \/ lastSeen[b] <= idle[b] + IdleTTL \div 2
      BY DEF LimiterInv, LimiterTypeOK, LagsBehindUse
    <2>2. \/ lastSeen'[b] = 0 /\ idle'[b] = 0
          \/ lastSeen'[b] = Older(lastSeen[b], MaxAge) /\ idle'[b] = Older(idle[b], LongIdle)
      BY DEF LimiterTick
    <2> QED
      BY <2>1, <2>2 DEF Older
  <1>3. lastSeen' \in [Buckets -> 0..MaxAge] /\ idle' \in [Buckets -> 0..LongIdle]
    BY <1>2 DEF LimiterTick
  <1>4. LimiterTypeOK'
    BY <1>1, <1>3 DEF config, request, LimiterInv, LimiterTypeOK, MaxAge, LongIdle
  <1>5. ConfigsForm' /\ KeysForm' /\ LagsBehindUse'
    BY <1>1, <1>2 DEF config, request, LimiterInv, ConfigsForm, KeysForm, LagsBehindUse, LongIdle
  <1> QED
    BY <1>1, <1>4, <1>5 DEF LimiterInv

\* Every step keeps LimiterInv and the entries in use.
LEMMA LimiterStep ==
    ASSUME LimiterInv, [LimiterNext]_limiterVars
    PROVE  LimiterInv' /\ [KeepsUsed]_limiterVars
  <1>1. ASSUME NEW r \in Requests, Arrive(r) \/ Handle(r)
        PROVE  LimiterInv' /\ KeepsUsed
    BY <1>1, ReadStep, GetStep DEF Handle, KeepsUsed
  <1>2. CASE UpdateConfig \/ Scan \/ EvictBatch \/ JanitorReturns \/ Close
    BY <1>2, ServiceStep
  <1>3. CASE LimiterTick
    BY <1>3, TickStep DEF KeepsUsed
  <1>4. CASE UNCHANGED limiterVars
    BY <1>4 DEF limiterVars, config, map, request, janitor, LimiterInv, LimiterTypeOK, ConfigsForm, KeysForm,
                LagsBehindUse, LongIdle, MaxAge
  <1> QED
    BY <1>1, <1>2, <1>3, <1>4 DEF LimiterNext

\* New starts with an empty map and no request.
LEMMA LimiterStarts == LimiterInit => LimiterInv
  <1> SUFFICES ASSUME LimiterInit PROVE LimiterInv
    OBVIOUS
  <1> USE LimiterAssumption, Ages
  <1>1. LimiterTypeOK
    BY DEF LimiterInit, LimiterTypeOK
  <1>2. ConfigsForm /\ KeysForm
    BY DEF LimiterInit, ConfigsForm, KeysForm
  <1>3. LagsBehindUse
    BY DEF LimiterInit, LagsBehindUse
  <1> QED
    BY <1>1, <1>2, <1>3 DEF LimiterInv

\* While a pass runs, what is idle at its now is still on its list.
PassCovers == jpc = "delete" => \A k \in Keys : Expired(k, jage) => k \in expired

\* What a pass may not do at its end.
PassEnds == jpc = "delete" /\ jpc' = "wait" => \A k \in Keys : ~Expired(k, jage)'

\* While a pass runs, no step makes an entry older than it makes the now of the pass.
LEMMA NotOlder ==
    ASSUME LimiterInv, jpc = "delete",
           LimiterTick \/ UpdateConfig \/ Close \/ \E r \in Requests : Arrive(r) \/ Handle(r)
    PROVE  UNCHANGED <<jpc, expired>> /\ \A k \in Keys : Expired(k, jage)' => Expired(k, jage)
  <1> USE BucketAssumption, LimiterAssumption DEF LimiterInv, LimiterTypeOK
  <1>0. IdleTTL \in Nat /\ jage \in Nat /\ \A b \in Buckets : lastSeen[b] \in Nat
    BY Ages
  <1>1. CASE LimiterTick
    <2>1. UNCHANGED <<jpc, expired, clients>> /\ jage' = jage + 1
      BY <1>1 DEF LimiterTick
    <2>2. ASSUME NEW b \in Buckets
          PROVE  lastSeen'[b] \in Nat /\ lastSeen'[b] <= lastSeen[b] + 1
      BY <1>0, <1>1, Ages DEF LimiterTick, Older
    <2>3. ASSUME NEW k \in Keys, Expired(k, jage)'
          PROVE  Expired(k, jage)
      <3>1. clients[k] \in Buckets /\ lastSeen'[clients[k]] - (jage + 1) > IdleTTL
        BY <2>1, <2>3 DEF Expired
      <3> QED
        BY <1>0, <2>2, <3>1 DEF Expired
    <2> QED
      BY <2>1, <2>3
  <1>2. ASSUME UNCHANGED <<jpc, expired, jage>>,
               \A k \in Keys : \/ clients'[k] = NoBucket
                               \/ clients'[k] = clients[k]
                               \/ clients'[k] \in Buckets /\ lastSeen'[clients'[k]] = 0,
               \A b \in Buckets : lastSeen'[b] = lastSeen[b] \/ lastSeen'[b] = 0
        PROVE  UNCHANGED <<jpc, expired>> /\ \A k \in Keys : Expired(k, jage)' => Expired(k, jage)
    <2> SUFFICES ASSUME NEW k \in Keys, Expired(k, jage)' PROVE Expired(k, jage)
      BY <1>2
    <2>1. clients'[k] # NoBucket /\ lastSeen'[clients'[k]] - jage > IdleTTL
      BY <1>2 DEF Expired
    <2>2. lastSeen'[clients'[k]] # 0
      BY <1>0, <2>1
    <2>3. clients'[k] = clients[k] /\ clients[k] \in Buckets
      BY <1>2, <2>1, <2>2
    <2> QED
      BY <1>2, <2>1, <2>2, <2>3 DEF Expired
  <1>3. CASE UpdateConfig \/ Close
    BY <1>2, <1>3 DEF UpdateConfig, Close, janitor, map
  <1>4. ASSUME NEW r \in Requests, Arrive(r) \/ Handle(r)
        PROVE  UNCHANGED <<jpc, expired>> /\ \A k \in Keys : Expired(k, jage)' => Expired(k, jage)
    <2>1. UNCHANGED <<jpc, expired, jage>>
      BY <1>4 DEF Arrive, Handle, ReadRoutes, ReadRate, ReadBurst, Lookup, Refresh, Insert, Allow, janitor
    <2>2. CASE ~Refresh(r) /\ ~Insert(r)
      <3>1. UNCHANGED <<clients, lastSeen>>
        BY <1>4, <2>2 DEF Arrive, Handle, ReadRoutes, ReadRate, ReadBurst, Lookup, Allow, map
      <3> QED
        BY <1>2, <2>1, <3>1
    <2>3. CASE Refresh(r)
      BY <1>2, <2>1, <2>3 DEF Refresh, Touch
    <2>4. CASE Insert(r)
      <3>1. key[r] \in Keys /\ bucket[r] = NoBucket
        BY <2>4, GatheredIsKey DEF Insert, KeysForm
      <3>2. CASE clients[key[r]] # NoBucket
        BY <1>2, <2>1, <2>4, <3>2 DEF Insert, Touch
      <3>3. CASE clients[key[r]] = NoBucket
        <4>1. NewLimiter \in Buckets
          BY <3>1, <3>3, SomeFree
        <4>2. clients' = [clients EXCEPT ![key[r]] = NewLimiter] /\ lastSeen' = [lastSeen EXCEPT ![NewLimiter] = 0]
          BY <2>4, <3>3 DEF Insert, Touch
        <4>3. \A k \in Keys : clients'[k] = clients[k] \/ (clients'[k] \in Buckets /\ lastSeen'[clients'[k]] = 0)
          BY <4>1, <4>2
        <4> QED
          BY <1>2, <2>1, <4>1, <4>2, <4>3
      <3> QED
        BY <3>2, <3>3
    <2> QED
      BY <2>2, <2>3, <2>4
  <1> QED
    BY <1>1, <1>3, <1>4

\* Every step keeps PassCovers, and a pass ends with an empty list.
LEMMA PassStep ==
    ASSUME LimiterInv, PassCovers, [LimiterNext]_limiterVars
    PROVE  PassCovers' /\ [PassEnds]_limiterVars
  <1>1. CASE Scan
    <2>1. /\ expired' = {k \in Keys : Expired(k, 0)} /\ jage' = 0 /\ UNCHANGED <<clients, lastSeen>>
          /\ jpc = "wait"
      BY <1>1 DEF Scan, map
    <2>2. \A k \in Keys : Expired(k, jage)' <=> Expired(k, 0)
      BY <2>1 DEF Expired
    <2> QED
      BY <2>1, <2>2 DEF PassCovers, PassEnds
  <1>2. CASE EvictBatch
    <2>1. PICK batch \in SUBSET expired :
            /\ clients' = [k \in Keys |-> IF k \in batch /\ Expired(k, jage) THEN NoBucket ELSE clients[k]]
            /\ expired' = expired \ batch
      BY <1>2 DEF EvictBatch
    <2>2. /\ jpc = "delete" /\ UNCHANGED <<lastSeen, jage>>
          /\ jpc' = IF expired' = {} THEN "wait" ELSE "delete"
      BY <1>2 DEF EvictBatch
    <2>3. ASSUME NEW k \in Keys, Expired(k, jage)' PROVE k \in expired'
      <3>1. clients'[k] # NoBucket /\ lastSeen[clients'[k]] - jage > IdleTTL
        BY <2>2, <2>3 DEF Expired
      <3>2. clients'[k] = clients[k] /\ ~(k \in batch /\ Expired(k, jage))
        BY <2>1, <3>1
      <3>3. Expired(k, jage)
        BY <3>1, <3>2 DEF Expired
      <3> QED
        BY <2>1, <2>2, <3>2, <3>3 DEF PassCovers
    <2> QED
      BY <2>2, <2>3 DEF PassCovers, PassEnds
  <1>3. CASE JanitorReturns
    BY <1>3 DEF JanitorReturns, PassCovers, PassEnds
  <1>4. CASE UNCHANGED limiterVars
    <2>1. UNCHANGED <<jpc, expired, jage, clients, lastSeen>>
      BY <1>4 DEF limiterVars, map, janitor
    <2> QED
      BY <1>4, <2>1 DEF PassCovers, Expired
  <1>5. CASE LimiterTick \/ UpdateConfig \/ Close \/ \E r \in Requests : Arrive(r) \/ Handle(r)
    <2>1. CASE jpc = "delete"
      BY <1>5, <2>1, NotOlder DEF PassCovers, PassEnds
    <2>2. CASE jpc # "delete"
      <3>1. UNCHANGED jpc
        BY <1>5 DEF LimiterTick, UpdateConfig, Close, Arrive, Handle, ReadRoutes, ReadRate, ReadBurst, Lookup,
                    Refresh, Insert, Allow, janitor
      <3> QED
        BY <2>2, <3>1 DEF PassCovers, PassEnds
    <2> QED
      BY <2>1, <2>2
  <1> QED
    BY <1>1, <1>2, <1>3, <1>4, <1>5 DEF LimiterNext

\* ratelimit.go:230-266 and 286-324: for any number of requests, keys, configurations and any
\* batch size, the janitor deletes no entry whose bucket getLimiter has returned within half
\* the TTL, although lastSeen is refreshed lazily and the now it decides with has passed.
THEOREM LimiterEvictsOnlyIdle == LimiterSpec => EvictsOnlyIdle
  BY LimiterStarts, LimiterStep, PTL DEF LimiterSpec, EvictsOnlyIdle, KeepsUsed, LimiterInv

\* ratelimit.go:205-223 reads l.routes, l.rate and l.burst without the lock.  Whatever
\* UpdateConfig does in between, a request asks for the whole override of a route, or for a
\* rate and a burst that configurations have, at worst of two.
THEOREM LimiterKeysForm == LimiterSpec => []KeysForm
  BY LimiterStarts, LimiterStep, PTL DEF LimiterSpec, LimiterInv

\* ratelimit.go:286-324: for any number of keys and requests and any batch size, a pass of
\* the janitor leaves no entry that was idle when it began.
THEOREM LimiterPassIsComplete == LimiterSpec => PassIsComplete
  <1>1. LimiterInit => PassCovers
    BY DEF LimiterInit, PassCovers
  <1> QED
    BY <1>1, LimiterStarts, LimiterStep, PassStep, PTL DEF LimiterSpec, PassIsComplete, PassEnds
=============================================================================
