------------------------------ MODULE FrontDoor ------------------------------
(***************************************************************************)
(* What a request passes before a handler sees it, and where that comes    *)
(* from: config.yaml and the environment at boot, the rate limiter with    *)
(* its counters in Redis or in the process, and the API keys that name the *)
(* caller's tenant.                                                        *)
(*                                                                         *)
(* A key is written <<k>>, or <<"sha256", k>> for the hash of <<k>>; <<>>   *)
(* is a blank.  All requests come from one address: the limiter treats     *)
(* addresses apart.                                                        *)
(***************************************************************************)
EXTENDS Integers, FiniteSets, FiniteSetsExt, SequencesExt

CONSTANTS
  Pods,            \* instances of the API behind one Redis
  Secrets,         \* keys that a client may hold
  Files, Envs,     \* contents of config.yaml, environments
  Handlers,        \* requests that may be sent to Redis again at one time
  MaxRetries,      \* how often one is sent again (redis.max_retries)
  MaxClock, MaxFaults,
  MaxHits          \* hits in one window

VARIABLES
  file, env,       \* what every instance reads at boot
  conf,            \* [Pods -> the settings in force, or Off]
  store,           \* [Pods -> where the instance counts: "redis" or itself]
  redisUp,
  counts,          \* [stores -> counter of the address; None]
  waiting,         \* [Handlers -> a request that Redis has not answered, or Off]
  clock, faults,
  counted,         \* [stores -> the times of the hits that were within the limit]
  lost,            \* those of them in Redis whose answer never arrived, by position
  refused,         \* the store and the time of the last refusal
  served           \* key and tenant of the last request that reached a handler

inputs == <<file, env>>
logs == <<counted, lost, refused>>
vars == <<inputs, conf, store, redisUp, counts, waiting, clock, faults, logs, served>>

Off  == << >>
None == [n |-> 0, until |-> -1]
Stores == Pods \cup {"redis"}

-----------------------------------------------------------------------------
(* LoadConfig.  A file is a record of all settings, the defaults where the  *)
(* YAML is silent; an environment is a record of the variables that are set. *)

Flags      == {"auth", "limit", "cache", "sync", "wal", "batching", "webhook"}
Numbers    == {"port", "redisPort", "batchSize", "max", "window"}
Lists      == {"apiKeys", "tenants", "tenantChannels", "origins"}
Required   == {"url", "database", "collection", "channel", "chaincode"}
Credential == {"mspId", "peerEndpoint", "peerTLSCAFile", "identityCertFile", "identityKeyDir"}
Texts      == Required \cup Credential \cup {"transport", "walDir", "level", "headerName", "webhookURL"}

\* A key as it is configured or presented; the order of keys does not count.
Keys == {<<>>} \cup {<<k>> : k \in Secrets} \cup {<<"sha256", k>> : k \in Secrets}

splitAndTrim(items) == items \ {<<>>}

\* Groups and pairs without a colon, an id or a value are skipped; the others
\* keep their order.
parseTenants(groups) ==
  [k \in {k \in DOMAIN groups : groups[k].id # "" /\ splitAndTrim(groups[k].keys) # {}} |->
    [id |-> groups[k].id, keys |-> splitAndTrim(groups[k].keys)]]

Parsed(s, val) == IF s \in {"tenants", "tenantChannels"} THEN parseTenants(val) ELSE splitAndTrim(val)

\* Mutant of Override: keys of the file and of the environment add up.
Override_Adds(s, old, val) ==
  CASE s \in Flags   -> IF val = "" THEN old ELSE val = "true"
    [] s \in Texts   -> IF val = "" THEN old ELSE val
    [] s \in Numbers -> IF val = {} THEN old ELSE CHOOSE n \in val : TRUE
    [] s \in Lists   -> IF s \in {"tenants", "tenantChannels"} THEN Parsed(s, val) ELSE old \cup Parsed(s, val)

\* A list of which nothing is left is ignored, unless it is one of keys.
Ignored(s, val) ==
  \/ s = "origins" /\ Parsed(s, val) = {}
  \/ s = "tenantChannels" /\ Parsed(s, val) = << >>

\* A flag is on for "true" alone.  A variable that is empty, and a number that
\* does not parse (val holds what parses), are ignored.
Override(s, old, val) ==
  CASE s \in Flags   -> IF val = "" THEN old ELSE val = "true"
    [] s \in Texts   -> IF val = "" THEN old ELSE val
    [] s \in Numbers -> IF val = {} THEN old ELSE CHOOSE n \in val : TRUE
    [] s \in Lists   -> IF Ignored(s, val) THEN old ELSE Parsed(s, val)

overrideFromEnv(f, e) == [s \in DOMAIN f |-> IF s \in DOMAIN e THEN Override(s, f[s], e[s]) ELSE f[s]]

Settings == overrideFromEnv(file, env)

MaxPort == 65535

Validate(c) ==
  /\ {c.port, c.redisPort} \subseteq 1 .. MaxPort
  /\ \A s \in Required : c[s] # ""
  /\ c.transport \in {"", "gateway"}
  /\ c.sync => \A s \in Credential : c[s] # ""
  /\ c.wal => c.walDir # ""
  /\ c.batching => c.batchSize >= 1
  /\ c.level \in {"debug", "info", "warn", "error"}
  /\ c.auth => /\ c.apiKeys # {} \/ DOMAIN c.tenants # {}
               /\ \A k \in DOMAIN c.tenants : c.tenants[k].id # "" /\ c.tenants[k].keys # {}
               /\ c.headerName # ""
  /\ c.limit => c.max >= 1 /\ c.window > 0
  /\ c.webhook => c.webhookURL # ""

\* A file has all settings, an environment some; the types are those of Config.
FrontDoorAssumption ==
  /\ "redis" \notin Pods
  /\ MaxClock \in Nat /\ MaxRetries \in Nat
  /\ \A f \in Files :
       /\ DOMAIN f = Flags \cup Numbers \cup Lists \cup Texts
       /\ f.max \in Int /\ f.window \in Int
  /\ \A e \in Envs :
       /\ "max" \in DOMAIN e => e.max \subseteq Int
       /\ "window" \in DOMAIN e => e.window \subseteq Int
  /\ \A s \in Files \cup Envs :
       /\ "apiKeys" \in DOMAIN s => s.apiKeys \subseteq Keys
       /\ "tenants" \in DOMAIN s => s.tenants \in Seq([id : STRING, keys : SUBSET Keys])
ASSUME FrontDoorAssumption

-----------------------------------------------------------------------------
(* API keys.                                                               *)

\* The groups that a configured key is written under; the last one counts.
Writers(c, key) == {k \in DOMAIN c.tenants : key \in c.tenants[k].keys}

AllKeys(c) == c.apiKeys \cup UNION {c.tenants[k].keys : k \in DOMAIN c.tenants}

KeyToTenant(c) ==
  [key \in AllKeys(c) |-> IF Writers(c, key) = {} THEN "default" ELSE c.tenants[Max(Writers(c, key))].id]

Equal(presented, key) == IF Len(key) = 2 THEN presented = <<key[2]>> ELSE presented = key

\* Every configured key is compared, in any order, and the last match counts.
matchAPIKey(presented, tenantOf) == {tenantOf[key] : key \in {k \in DOMAIN tenantOf : Equal(presented, k)}}

\* The tenants that a request may be given; none is a 401.
APIKeyAuth(c, presented) ==
  IF ~c.auth THEN {"default"}
  ELSE IF presented = <<>> THEN {} ELSE matchAPIKey(presented, KeyToTenant(c))

-----------------------------------------------------------------------------
(* The limiter.                                                            *)

\* A Redis key is gone when its time to live is over; an entry in memory is
\* swept after its last moment.
Live(s) == counts[s] # None /\ IF s = "redis" THEN clock < counts[s].until ELSE clock <= counts[s].until

\* Mutant of Incr: every hit renews the window.
Incr_Sliding(s, window) ==
  [n |-> IF Live(s) THEN counts[s].n + 1 ELSE 1, until |-> clock + window]

\* The first hit of a window sets its end.
Incr(s, window) ==
  IF Live(s) THEN [counts[s] EXCEPT !.n = @ + 1] ELSE [n |-> 1, until |-> clock + window]

\* Mutant of Passes: off by one.
Passes_OneMore(c, n) == n <= c.max + 1

Passes(c, n) == n <= c.max

\* The handlers behind the limiter: ValidateDomain, then the key.
Handle(p, presented) ==
  IF APIKeyAuth(conf[p], presented) = {} THEN UNCHANGED served
  ELSE \E tenant \in APIKeyAuth(conf[p], presented) :
         served' = IF conf[p].auth THEN {<<presented, tenant>>} ELSE {}

-----------------------------------------------------------------------------
Init ==
  /\ file \in Files /\ env \in Envs
  /\ conf = [p \in Pods |-> Off] /\ store = [p \in Pods |-> p]
  /\ redisUp = TRUE
  /\ counts = [s \in Stores |-> None] /\ waiting = [h \in Handlers |-> Off]
  /\ clock = 0 /\ faults = 0
  /\ counted = [s \in Stores |-> << >>] /\ lost = {}
  /\ refused = [by |-> "none", at |-> 0] /\ served = {}

Tick ==
  /\ clock < MaxClock /\ clock' = clock + 1
  /\ UNCHANGED <<inputs, conf, store, redisUp, counts, waiting, faults, logs, served>>

\* main and NewRedisClient: without Redis at boot the instance counts by itself.
Boot(p) ==
  /\ conf[p] = Off
  /\ Validate(Settings)
  /\ conf' = [conf EXCEPT ![p] = Settings]
  /\ store' = [store EXCEPT ![p] = IF Settings.cache /\ redisUp THEN "redis" ELSE p]
  /\ UNCHANGED <<inputs, redisUp, counts, waiting, clock, faults, logs, served>>

\* The process ends, and its counters and requests with it.
Killed(p) ==
  /\ conf[p] # Off /\ faults < MaxFaults /\ faults' = faults + 1
  /\ conf' = [conf EXCEPT ![p] = Off]
  /\ counts' = [counts EXCEPT ![p] = None]
  /\ waiting' = [h \in Handlers |-> IF waiting[h] # Off /\ waiting[h].pod = p THEN Off ELSE waiting[h]]
  /\ counted' = [counted EXCEPT ![p] = << >>]
  /\ refused' = IF refused.by = p THEN [by |-> "none", at |-> 0] ELSE refused
  /\ UNCHANGED <<inputs, store, redisUp, clock, lost, served>>

\* Redis cannot be reached for a while; what it holds stays.
Redis ==
  /\ redisUp => faults < MaxFaults
  /\ redisUp' = ~redisUp /\ faults' = IF redisUp THEN faults + 1 ELSE faults
  /\ UNCHANGED <<inputs, conf, store, counts, waiting, clock, logs, served>>

\* A hit of p in s makes its counter c; the answer is heard or lost.
Hit(p, s, c, heard) ==
  /\ counts' = [counts EXCEPT ![s] = c]
  /\ IF Passes(conf[p], c.n)
     THEN /\ counted' = [counted EXCEPT ![s] = Append(@, clock)]
          /\ lost' = IF heard THEN lost ELSE lost \cup {Len(counted[s]) + 1}
     ELSE UNCHANGED <<counted, lost>>

\* The store answers: RateLimiter lets the request through or refuses it (429).
Answered(p, presented) ==
  LET s == store[p]
      c == Incr(s, conf[p].window)
  IN  /\ s = "redis" => redisUp
      /\ c.n <= MaxHits
      /\ Hit(p, s, c, TRUE)
      /\ IF Passes(conf[p], c.n)
         THEN Handle(p, presented) /\ UNCHANGED refused
         ELSE refused' = [by |-> s, at |-> clock] /\ UNCHANGED served

\* Redis does not answer in time: it cannot be reached, or it has counted the
\* hit, or not, when the connection fails.
Unanswered(p) ==
  LET c == Incr("redis", conf[p].window)
  IN  /\ store[p] = "redis"
      /\ redisUp => faults < MaxFaults
      /\ faults' = IF redisUp THEN faults + 1 ELSE faults
      /\ \/ redisUp /\ c.n <= MaxHits /\ Hit(p, "redis", c, FALSE)
         \/ UNCHANGED <<counts, counted, lost>>
      /\ UNCHANGED <<refused, served>>

\* A request arrives; if there is no limit, it passes.
Request(p, presented) ==
  /\ conf[p] # Off
  /\ IF conf[p].limit THEN Answered(p, presented)
     ELSE Handle(p, presented) /\ UNCHANGED <<counts, logs>>
  /\ UNCHANGED <<inputs, conf, store, redisUp, waiting, clock, faults>>

\* ... and is not answered at the first attempt.
RequestFails(h, p, presented) ==
  /\ conf[p] # Off /\ conf[p].limit
  /\ waiting[h] = Off
  /\ Unanswered(p)
  /\ waiting' = [waiting EXCEPT ![h] = [pod |-> p, key |-> presented, left |-> MaxRetries]]
  /\ UNCHANGED <<inputs, conf, store, redisUp, clock>>

\* The Redis client sends the script again, whatever became of it before.
Retry(h) ==
  /\ waiting[h] # Off /\ waiting[h].left > 0
  /\ Answered(waiting[h].pod, waiting[h].key)
  /\ waiting' = [waiting EXCEPT ![h] = Off]
  /\ UNCHANGED <<inputs, conf, store, redisUp, clock, faults>>

RetryFails(h) ==
  /\ waiting[h] # Off /\ waiting[h].left > 0
  /\ Unanswered(waiting[h].pod)
  /\ waiting' = [waiting EXCEPT ![h].left = @ - 1]
  /\ UNCHANGED <<inputs, conf, store, redisUp, clock>>

\* After the last attempt, or an error that is not worth another one, Incr
\* returns an error, and RateLimiter lets the request through.
FailOpen(h) ==
  /\ waiting[h] # Off
  /\ Handle(waiting[h].pod, waiting[h].key)
  /\ waiting' = [waiting EXCEPT ![h] = Off]
  /\ UNCHANGED <<inputs, conf, store, redisUp, counts, clock, faults, logs>>

Next ==
  \/ \E p \in Pods :
       \/ Boot(p) \/ Killed(p)
       \/ \E presented \in Keys :
            Request(p, presented) \/ \E h \in Handlers : RequestFails(h, p, presented)
  \/ \E h \in Handlers : Retry(h) \/ RetryFails(h) \/ FailOpen(h)
  \/ Redis \/ Tick

Spec == Init /\ [][Next]_vars

-----------------------------------------------------------------------------
(* Properties.                                                             *)

\* The hits that s counted within the limit from one time to another; with one
\* that is answered in time a request is let through.
Within(log, from, to) == {k \in DOMAIN log : from <= log[k] /\ log[k] <= to}
Unheard(s) == IF s = "redis" THEN lost ELSE {}
AdmittedIn(s, from, to) == Cardinality(Within(counted[s], from, to) \ Unheard(s))
LostIn(s, from, to) == Cardinality(Within(counted[s], from, to) \cap Unheard(s))
HitsIn(s, from, to) == AdmittedIn(s, from, to) + LostIn(s, from, to)

\* Around the edge of a fixed window two bursts may meet, and no more: in any
\* stretch as long as the window a store finds less than twice the limit within
\* it, hits whose answer is lost included, whichever instances count in it and
\* whatever is restarted (memRateStore.Incr, rateLimitScript).
BurstBound ==
  LET c == Settings IN
  Validate(c) /\ c.limit =>
    \A s \in Stores, t \in 0 .. MaxClock : HitsIn(s, t, t + c.window - 1) < 2 * c.max

\* A client is refused only for what happened within the last window: as many
\* hits as the limit allows, each of which let a request through or got no answer
\* in time.  An address that keeps asking is not locked out by its own refusals,
\* no counter outlives its window (PEXPIRE on the first hit only), and a request
\* that is sent again after a lost answer costs one more hit for each such answer
\* and nothing else (RateLimiter, RedisRateStore.Incr).
RefusedForCause ==
  refused.by # "none" =>
    LET c == Settings
        from == refused.at - c.window
    IN  HitsIn(refused.by, from, refused.at) >= c.max

\* The sources that are in force: the environment before the file.
FlatKeys == IF "apiKeys" \in DOMAIN env THEN env.apiKeys ELSE file.apiKeys
TenantGroups == Range(IF "tenants" \in DOMAIN env THEN env.tenants ELSE file.tenants)

GroupKeys(groups) == UNION {group.keys : group \in groups}

WrittenFor(tenant) ==
  GroupKeys({g \in TenantGroups : g.id = tenant}) \cup
  (IF tenant = "default" THEN FlatKeys \ GroupKeys({g \in TenantGroups : g.id # ""}) ELSE {})

\* A request that is served while authentication is on carried a key that the
\* environment, or the file where the environment is silent, writes for the
\* tenant it is served as, in plain or as its hash; the hash itself is no key,
\* and the default tenant gets none that is written for another one
\* (overrideFromEnv, parseTenants, KeyToTenant, matchAPIKey).
ServedIsEntitled ==
  \A s \in served : \E k \in Secrets : s[1] = <<k>> /\ {<<k>>, <<"sha256", k>>} \cap WrittenFor(s[2]) # {}
=============================================================================
