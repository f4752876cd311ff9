---------------------------- MODULE RateLimiter ----------------------------
(***************************************************************************)
(* internal/ratelimit/ratelimit.go: the per-client token buckets, their    *)
(* double-checked creation, the janitor and the hot reload of the limits.  *)
(*                                                                         *)
(* rpc[r] is where the handler goroutine of request r stands:              *)
(*    "idle", "routes", "rate", "burst"   before and in limitsForPath,     *)
(*                   which reads l.routes, l.rate and l.burst unlocked     *)
(*    "lookup"       getLimiter, before its RLock                          *)
(*    "refresh"      stale hit: between RUnlock and Lock                   *)
(*    "insert"       miss: between RUnlock and Lock                        *)
(*    "allow"        holds a bucket, limiter.Allow not called yet          *)
(* Time is kept as ages, which stop growing where no comparison can tell   *)
(* them apart any more.  What matters about a bucket (rate.Limiter, which  *)
(* is external) is its identity: whoever gets a new one gets a full burst. *)
(***************************************************************************)
EXTENDS Integers, FiniteSets

CONSTANTS
    Requests,           \* handler goroutines
    IPs,
    Buckets,            \* the rate.Limiters that exist at one time
    Configs,            \* [rate, burst, override] of the configurations
    InitialConfig,
    IdleTTL,
    BatchSize,          \* evictBatchSize
    MaxPass             \* bound on the time one janitor pass takes

NoOverride == [rate |-> 0, burst |-> 0]

ASSUME LimiterAssumption ==
    /\ InitialConfig \in Configs
    /\ \A c \in Configs : c.rate \in Nat /\ c.burst \in Nat
    /\ IdleTTL \in Nat \ {0} /\ BatchSize \in Nat \ {0} /\ MaxPass \in Nat

VARIABLES
    rate, burst, routes,    \* l.rate, l.burst, l.routes (as the override it gives)
    updating,               \* "no", or what UpdateConfig, which holds the lock, writes next
    next,                   \* the configuration it installs
    clients,                \* key -> bucket, or NoBucket
    lastSeen,               \* bucket -> age of client.lastSeen
    rpc, key, bucket,       \* request -> where it stands, its key, its limiter
    jpc, expired, jage,     \* janitor: "wait" or "delete", the keys, age of its now
    stopCh, doneCh,         \* is the channel closed?
    idle                    \* bucket -> time since getLimiter last returned it

config  == <<rate, burst, routes, updating, next>>
map     == <<clients, lastSeen, idle>>
request == <<rpc, key, bucket>>
janitor == <<jpc, expired, jage, stopCh, doneCh>>
limiterVars == <<config, map, request, janitor>>

NoBucket == "none"
NoKey    == <<"none", 0, 0>>
Limits   == {[rate |-> c.rate, burst |-> c.burst] : c \in Configs}
            \cup ({c.override : c \in Configs} \ {NoOverride})
\* rate and burst may come from two configurations.
Keys == {<<ip, l.rate, m.burst>> : ip \in IPs, l \in Limits, m \in Limits}

\* rate.NewLimiter always finds memory: there are as many buckets as can be referred to
\* when a request inserts one.
ASSUME BucketAssumption ==
    /\ NoBucket \notin Buckets
    /\ IsFiniteSet(Keys) /\ IsFiniteSet(Requests) /\ IsFiniteSet(Buckets)
    /\ Cardinality(Buckets) >= Cardinality(Keys) + Cardinality(Requests) - 1

MaxAge == IdleTTL + MaxPass + 1
Older(age, cap) == IF age < cap THEN age + 1 ELSE age

\* idle is only asked whether it is more than what the lazy refresh leaves.
LongIdle == IdleTTL - IdleTTL \div 2 + 1

Unlocked == updating = "no"

Advance(r, label) == rpc' = [rpc EXCEPT ![r] = label]

\* Buckets nothing refers to any more, and the one rate.NewLimiter returns (which
\* one does not matter).
Free == Buckets \ ({clients[k] : k \in Keys} \cup {bucket[r] : r \in Requests})
NewLimiter == CHOOSE b \in Free : TRUE

-----------------------------------------------------------------------------
\* New
LimiterInit ==
    /\ rate = InitialConfig.rate /\ burst = InitialConfig.burst
    /\ routes = InitialConfig.override
    /\ updating = "no" /\ next = InitialConfig
    /\ clients = [k \in Keys |-> NoBucket]
    /\ lastSeen = [b \in Buckets |-> 0]
    /\ idle = [b \in Buckets |-> 0]
    /\ rpc = [r \in Requests |-> "idle"]
    /\ key = [r \in Requests |-> NoKey]
    /\ bucket = [r \in Requests |-> NoBucket]
    /\ jpc = "wait" /\ expired = {} /\ jage = 0
    /\ stopCh = FALSE /\ doneCh = FALSE

-----------------------------------------------------------------------------
\* Middleware: the client's address is known.
Arrive(r) ==
    /\ rpc[r] = "idle"
    /\ \E ip \in IPs : key' = [key EXCEPT ![r] = <<ip, 0, 0>>]
    /\ Advance(r, "routes")
    /\ UNCHANGED <<config, map, bucket, janitor>>

\* limitsForPath: one scan of l.routes; the override of a route that the path
\* belongs to gives both limits at once.
ReadRoutes(r) ==
    /\ rpc[r] = "routes"
    /\ \/ /\ routes # NoOverride
          /\ key' = [key EXCEPT ![r][2] = routes.rate, ![r][3] = routes.burst]
          /\ Advance(r, "lookup")
       \/ Advance(r, "rate") /\ UNCHANGED key
    /\ UNCHANGED <<config, map, bucket, janitor>>

ReadRate(r) ==
    /\ rpc[r] = "rate"
    /\ key' = [key EXCEPT ![r][2] = rate]
    /\ Advance(r, "burst")
    /\ UNCHANGED <<config, map, bucket, janitor>>

ReadBurst(r) ==
    /\ rpc[r] = "burst"
    /\ key' = [key EXCEPT ![r][3] = burst]
    /\ Advance(r, "lookup")
    /\ UNCHANGED <<config, map, bucket, janitor>>

\* Is lastSeen too old to be left alone?
Stale(age) == age > IdleTTL \div 2

\* getLimiter's fast path, under the read lock.
Lookup(r) ==
    /\ rpc[r] = "lookup" /\ Unlocked
    /\ LET b == clients[key[r]]
       IN  /\ bucket' = [bucket EXCEPT ![r] = b]
           /\ IF b = NoBucket
              THEN Advance(r, "insert") /\ UNCHANGED idle
              ELSE IF Stale(lastSeen[b])
              THEN Advance(r, "refresh") /\ UNCHANGED idle
              ELSE Advance(r, "allow") /\ idle' = [idle EXCEPT ![b] = 0]
    /\ UNCHANGED <<config, clients, lastSeen, key, janitor>>

\* lastSeen = time.Now(), and the bucket is returned.
Touch(r, b) ==
    /\ lastSeen' = [lastSeen EXCEPT ![b] = 0]
    /\ idle' = [idle EXCEPT ![b] = 0]
    /\ bucket' = [bucket EXCEPT ![r] = b]
    /\ Advance(r, "allow")

\* The refresh, under the write lock; the map is not looked at again.
Refresh(r) ==
    /\ rpc[r] = "refresh" /\ Unlocked
    /\ Touch(r, bucket[r])
    /\ UNCHANGED <<config, clients, key, janitor>>

\* The slow path: check again, then insert, under the write lock.
Insert(r) ==
    /\ rpc[r] = "insert" /\ Unlocked
    /\ IF clients[key[r]] # NoBucket
       THEN Touch(r, clients[key[r]]) /\ UNCHANGED clients
       ELSE clients' = [clients EXCEPT ![key[r]] = NewLimiter] /\ Touch(r, NewLimiter)
    /\ UNCHANGED <<config, key, janitor>>

\* limiter.Allow and the rest of the request; which of the two answers the bucket
\* gives changes nothing here.
Allow(r) ==
    /\ rpc[r] = "allow"
    /\ bucket' = [bucket EXCEPT ![r] = NoBucket]
    /\ key' = [key EXCEPT ![r] = NoKey]
    /\ Advance(r, "idle")
    /\ UNCHANGED <<config, map, janitor>>

-----------------------------------------------------------------------------
\* UpdateConfig: four assignments under the lock that limitsForPath ignores.
UpdateConfig ==
    /\ \/ /\ updating = "no"
          /\ \E c \in Configs : next' = c /\ rate' = c.rate
          /\ updating' = "burst"
          /\ UNCHANGED <<burst, routes, clients>>
       \/ /\ updating = "burst"
          /\ burst' = next.burst
          /\ updating' = "routes"
          /\ UNCHANGED <<rate, routes, next, clients>>
       \/ /\ updating = "routes"
          /\ routes' = next.override
          /\ updating' = "clients"
          /\ UNCHANGED <<rate, burst, next, clients>>
       \/ /\ updating = "clients"
          /\ clients' = [k \in Keys |-> NoBucket]
          /\ updating' = "no"
          /\ UNCHANGED <<rate, burst, routes, next>>
    /\ UNCHANGED <<lastSeen, idle, request, janitor>>

\* Is the entry of k idle for longer than the TTL at the janitor's now?
Expired(k, since) ==
    clients[k] # NoBucket /\ lastSeen[clients[k]] - since > IdleTTL

\* A tick of the janitor, which may also be served after Close.  evictOnce, phase
\* 1: the keys to delete, under the read lock.
Scan ==
    /\ jpc = "wait" /\ ~doneCh /\ Unlocked
    /\ expired' = {k \in Keys : Expired(k, 0)}
    /\ jage' = 0
    /\ jpc' = IF expired' = {} THEN "wait" ELSE "delete"
    /\ UNCHANGED <<config, map, request, stopCh, doneCh>>

\* Fault: a pass ends after its first batch.
EvictOneBatch ==
    /\ jpc = "delete" /\ Unlocked
    /\ \E batch \in SUBSET expired :
         /\ \/ Cardinality(batch) = BatchSize
            \/ batch = expired /\ Cardinality(expired) < BatchSize
         /\ clients' = [k \in Keys |-> IF k \in batch /\ Expired(k, jage) THEN NoBucket ELSE clients[k]]
    /\ expired' = {} /\ jpc' = "wait"
    /\ UNCHANGED <<config, lastSeen, idle, request, jage, stopCh, doneCh>>

\* Fault: what the scan found is deleted without a second look.
EvictBatchUnchecked ==
    /\ jpc = "delete" /\ Unlocked
    /\ \E batch \in SUBSET expired :
         /\ \/ Cardinality(batch) = BatchSize
            \/ batch = expired /\ Cardinality(expired) < BatchSize
         /\ clients' = [k \in Keys |-> IF k \in batch THEN NoBucket ELSE clients[k]]
         /\ expired' = expired \ batch
    /\ jpc' = IF expired' = {} THEN "wait" ELSE "delete"
    /\ UNCHANGED <<config, lastSeen, idle, request, jage, stopCh, doneCh>>

\* evictOnce, phase 2: one batch of deletes, each checked again.
EvictBatch ==
    /\ jpc = "delete" /\ Unlocked
    /\ \E batch \in SUBSET expired :
         /\ \/ Cardinality(batch) = BatchSize
            \/ batch = expired /\ Cardinality(expired) < BatchSize
         /\ clients' = [k \in Keys |-> IF k \in batch /\ Expired(k, jage) THEN NoBucket ELSE clients[k]]
         /\ expired' = expired \ batch
    /\ jpc' = IF expired' = {} THEN "wait" ELSE "delete"
    /\ UNCHANGED <<config, lastSeen, idle, request, jage, stopCh, doneCh>>

\* Close: closes stopCh, if it is open, and then waits for doneCh.  Only one goroutine
\* calls it, at the end of Run: the look at stopCh and its closing can be one step.
Close ==
    /\ ~stopCh
    /\ stopCh' = TRUE
    /\ UNCHANGED <<config, map, request, jpc, expired, jage, doneCh>>

\* Fault: the janitor returns and leaves doneCh open.
JanitorReturnsSilently ==
    /\ jpc = "wait" /\ stopCh /\ ~doneCh
    /\ jpc' = "gone"
    /\ UNCHANGED <<config, map, request, expired, jage, stopCh, doneCh>>

\* The janitor returns and closes doneCh.
JanitorReturns ==
    /\ jpc = "wait" /\ stopCh /\ ~doneCh
    /\ doneCh' = TRUE
    /\ UNCHANGED <<config, map, request, jpc, expired, jage, stopCh>>

\* Time passes.
LimiterTick ==
    /\ jpc = "delete" => jage < MaxPass
    /\ jage' = IF jpc = "delete" THEN jage + 1 ELSE jage
    /\ lastSeen' = [b \in Buckets |-> IF b \in Free THEN 0 ELSE Older(lastSeen[b], MaxAge)]
    /\ idle' = [b \in Buckets |-> IF b \in Free THEN 0 ELSE Older(idle[b], LongIdle)]
    /\ UNCHANGED <<config, clients, request, jpc, expired, stopCh, doneCh>>

-----------------------------------------------------------------------------
Handle(r) ==
    \/ ReadRoutes(r) \/ ReadRate(r) \/ ReadBurst(r)
    \/ Lookup(r) \/ Refresh(r) \/ Insert(r) \/ Allow(r)

LimiterNext ==
    \/ \E r \in Requests : Arrive(r) \/ Handle(r)
    \/ UpdateConfig
    \/ Scan \/ EvictBatch \/ JanitorReturns
    \/ Close
    \/ LimiterTick

LimiterSpec == LimiterInit /\ [][LimiterNext]_limiterVars

\* The janitor is scheduled, a reload that holds the lock goes on, and time
\* passes.  sync.RWMutex does not starve whoever waits for it, and a select does
\* not pass over a ready case for ever.
FairLimiterSpec ==
    /\ LimiterSpec
    /\ SF_limiterVars(Scan \/ EvictBatch) /\ SF_limiterVars(JanitorReturns)
    /\ WF_limiterVars(LimiterTick)
    /\ WF_limiterVars(~Unlocked /\ UpdateConfig)

-----------------------------------------------------------------------------
\* Every variable has its type, and a request that uses a limiter has one.
LimiterTypeOK ==
    /\ updating \in {"no", "burst", "routes", "clients"} /\ next \in Configs
    /\ clients \in [Keys -> Buckets \cup {NoBucket}]
    /\ lastSeen \in [Buckets -> 0..MaxAge] /\ idle \in [Buckets -> 0..LongIdle]
    /\ bucket \in [Requests -> Buckets \cup {NoBucket}]
    /\ \A r \in Requests : rpc[r] \in {"refresh", "allow"} => bucket[r] # NoBucket
    /\ expired \subseteq Keys /\ jage \in 0..MaxPass

\* A spent bucket is not forgotten while its client is active: outside a reload, an
\* entry leaves the map only if no getLimiter has returned it for more than half
\* the TTL.  It holds although lastSeen is refreshed only when older than the other
\* half, the janitor decides at a now that has passed, and several requests may
\* find no entry at the same time.
EvictsOnlyIdle ==
    /\ []LimiterTypeOK
    /\ [][\A k \in Keys : (clients[k] # NoBucket /\ clients'[k] # clients[k] /\ Unlocked)
                          => idle[clients[k]] = LongIdle]_limiterVars

\* ratelimit.go:305-323: a pass that ends has left no entry that was idle when it began,
\* however many batches that took and whoever held the lock between them.
PassIsComplete ==
    [][jpc = "delete" /\ jpc' = "wait" => \A k \in Keys : ~Expired(k, jage)']_limiterVars

\* The janitor's job: no pass leaves a batch out, and the entry of a client that stays
\* away is deleted in the end, unless the limiter is closed.
IdleIsEvicted ==
    /\ PassIsComplete
    /\ (<>[][\A r \in Requests : ~Arrive(r)]_limiterVars)
       => <>[](stopCh \/ \A k \in Keys : clients[k] = NoBucket)

\* Close waits for the janitor, and the janitor always gets there.
CloseReturns == stopCh ~> doneCh
=============================================================================
