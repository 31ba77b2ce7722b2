------------------------------ MODULE Resolver ------------------------------
(***************************************************************************)
(* The address resolution shared by every viewer of the Go server: the     *)
(* TTL caches and the flight groups of cache.go, the platform resolvers of *)
(* resolve.go that use them, and the goroutines that resolvePlayback       *)
(* (stream_session.go) and the health check (health.go) start.             *)
(*                                                                         *)
(* One member of Goroutines is one goroutine running "resolve(rid)" with   *)
(* the viewer that waits for it.  Everything the code does under a mutex   *)
(* is one step; a room page being fetched is the only step that takes      *)
(* time.  An address is abstracted to what its users depend on: whether it *)
(* is a playable address or "", when its fetch began and when it was       *)
(* signed and stored.                                                      *)
(***************************************************************************)
EXTENDS Naturals, FiniteSets, Functions

CONSTANTS
  Goroutines,       \* goroutines that may be resolving at the same time
  Viewers,          \* those with a viewer that may leave; a health check has none
  Rooms,            \* rooms of all platforms
  Platform,         \* the platform of each room
  HUYA_CACHE_TTL,   \* configured lifetimes, in clock ticks
  DOUYU_CACHE_TTL,
  FixedTTL,         \* the literal 60 of the resolvers without a setting
  FAIL_TTL,         \* lifetime of a failed answer
  CacheLimit,       \* size above which a cache sweeps its expired entries
  MaxTime           \* bound on the clock

Platforms == {"huya", "douyu", "douyin", "yy"}

ASSUME ResolverAssumption ==
  /\ Platform \in [Rooms -> Platforms]
  /\ {HUYA_CACHE_TTL, DOUYU_CACHE_TTL, FixedTTL, FAIL_TTL} \subseteq Nat
  /\ {CacheLimit, MaxTime} \subseteq Nat
  /\ Rooms # {}
  /\ Viewers \subseteq Goroutines

VARIABLES
  now,      \* the wall clock, in ticks
  cache,    \* ttlCache.m of every platform: a function on the cached rooms
  flights,  \* stringFlightGroup.m: the calls in the map, by room
  pc,       \* where each goroutine stands
  job,      \* what each goroutine was asked
  ans       \* what each goroutine has obtained

vars == <<now, cache, flights, pc, job, ans>>

Addresses == [ok : BOOLEAN, began : Nat, at : Nat]
NoAddress == [ok |-> FALSE, began |-> 0, at |-> 0]
Entries   == [val : Addresses, expire : Nat]
Calls     == [leader : Goroutines, done : BOOLEAN, val : Addresses]
Jobs      == [room : Rooms, fresh : BOOLEAN, asked : Nat, began : Nat,
              watched : BOOLEAN]
NoJob     == [room |-> CHOOSE r \in Rooms : TRUE, fresh |-> FALSE,
              asked |-> 0, began |-> 0, watched |-> FALSE]
Labels    == {"idle", "delete", "get", "do", "wait", "recheck", "fetch",
              "close", "forget", "return"}

(***************************************************************************)
(* The platform resolvers differ in three ways only: whether concurrent    *)
(* calls are merged, how long an answer is kept, and whether one can       *)
(* succeed (resolveYY is a placeholder).                                   *)
(***************************************************************************)
Merged(r) == Platform[r] \in {"huya", "douyu"}

Outcomes(r) == IF Platform[r] = "yy" THEN {FALSE} ELSE BOOLEAN

SuccessTTL(r) ==
  CASE Platform[r] = "huya"  -> HUYA_CACHE_TTL
    [] Platform[r] = "douyu" -> DOUYU_CACHE_TTL
    [] OTHER                 -> FixedTTL

FailureTTL(r) == IF Platform[r] = "douyu" THEN DOUYU_CACHE_TTL ELSE FixedTTL

MinInt(a, b) == IF a < b THEN a ELSE b

\* ttlCache.set: "" is kept for min(ttl, FAIL_TTL).
Lifetime(r, ok) ==
  IF ok THEN SuccessTTL(r) ELSE MinInt(FailureTTL(r), FAIL_TTL)

(***************************************************************************)
(* ttlCache                                                                *)
(***************************************************************************)
Expired(entry) == now > entry.expire

Hit(r) == r \in DOMAIN cache /\ ~Expired(cache[r])

\* del, and the lazy removal in get.
Without(r) == Restrict(cache, DOMAIN cache \ {r})

\* The sweep of set: one platform's map, and only its expired entries.
Filled(r, entry) ==
  [k \in DOMAIN cache \cup {r} |-> IF k = r THEN entry ELSE cache[k]]

SweepAll(r, m) ==
  LET mine == {k \in DOMAIN m : Platform[k] = Platform[r]}
  IN  IF Cardinality(mine) > CacheLimit
        THEN Restrict(m, DOMAIN m \ (mine \ {r}))
        ELSE m
Sweep(r, m) ==
  LET mine == {k \in DOMAIN m : Platform[k] = Platform[r]}
  IN  IF Cardinality(mine) > CacheLimit
        THEN Restrict(m, DOMAIN m \ {k \in mine : Expired(m[k])})
        ELSE m

Stored(r, v) ==
  Sweep(r, Filled(r, [val |-> v, expire |-> now + Lifetime(r, v.ok)]))

(***************************************************************************)
(* A goroutine, from the request to the answer                             *)
(***************************************************************************)
Goto(g, label) == pc' = [pc EXCEPT ![g] = label]

\* resolvePlayback starts the goroutine; fresh asks it to drop the cached
\* address first.  resolveDouyuFresh of the health check is a fresh request.
Ask(g) ==
  /\ pc[g] = "idle"
  /\ \E r \in Rooms, fresh \in BOOLEAN :
       /\ job' = [job EXCEPT ![g] = [room |-> r, fresh |-> fresh, asked |-> now,
                                     began |-> 0, watched |-> g \in Viewers]]
       /\ Goto(g, IF fresh THEN "delete" ELSE "get")
  /\ UNCHANGED <<now, cache, flights, ans>>

\* delCacheFor
Delete(g) ==
  /\ pc[g] = "delete"
  /\ cache' = Without(job[g].room)
  /\ Goto(g, "get")
  /\ UNCHANGED <<now, flights, job, ans>>

\* ttlCache.get, before and inside the flight: onHit and onMiss say where
\* the resolver goes next.  A miss that leads to a fetch notes its start.
Lookup(g, onHit, onMiss) ==
  LET r == job[g].room IN
  \/ /\ Hit(r)
     /\ ans' = [ans EXCEPT ![g] = cache[r].val]
     /\ Goto(g, onHit)
     /\ UNCHANGED <<now, cache, flights, job>>
  \/ /\ ~Hit(r)
     /\ cache' = Without(r)
     /\ Goto(g, onMiss)
     /\ job' = IF onMiss = "fetch" THEN [job EXCEPT ![g].began = now] ELSE job
     /\ UNCHANGED <<now, flights, ans>>

Get(g) ==
  /\ pc[g] = "get"
  /\ Lookup(g, "return", IF Merged(job[g].room) THEN "do" ELSE "fetch")

\* stringFlightGroup.do up to the unlock: join the call in the map, which may
\* already be closed, or become its leader.
DoAlone(g) ==
  LET r == job[g].room IN
  /\ pc[g] = "do"
  /\ flights' = [k \in DOMAIN flights \cup {r} |->
                   IF k = r
                     THEN [leader |-> g, done |-> FALSE, val |-> NoAddress]
                     ELSE flights[k]]
  /\ Goto(g, "recheck")
  /\ UNCHANGED <<now, cache, job, ans>>
Do(g) ==
  LET r == job[g].room IN
  /\ pc[g] = "do"
  /\ \/ /\ r \in DOMAIN flights
        /\ flights[r].done
        /\ ans' = [ans EXCEPT ![g] = flights[r].val]
        /\ Goto(g, "return")
        /\ UNCHANGED flights
     \/ /\ r \in DOMAIN flights
        /\ ~flights[r].done
        /\ Goto(g, "wait")
        /\ UNCHANGED <<flights, ans>>
     \/ /\ r \notin DOMAIN flights
        /\ flights' = [k \in DOMAIN flights \cup {r} |->
                         IF k = r
                           THEN [leader |-> g, done |-> FALSE, val |-> NoAddress]
                           ELSE flights[k]]
        /\ Goto(g, "recheck")
        /\ UNCHANGED ans
  /\ UNCHANGED <<now, cache, job>>

\* The second look at the cache, by the leader of the flight.
Recheck(g) ==
  /\ pc[g] = "recheck"
  /\ Lookup(g, "close", "fetch")

\* The room page and the signature, which may fail, and the ttlCache.set
\* every resolver ends with.
Fetch(g) ==
  LET r == job[g].room IN
  /\ pc[g] = "fetch"
  /\ \E ok \in Outcomes(r) :
       LET v == [ok |-> ok, began |-> job[g].began, at |-> now]
       IN  /\ cache' = Stored(r, v)
           /\ ans' = [ans EXCEPT ![g] = v]
  /\ Goto(g, IF Merged(r) THEN "close" ELSE "return")
  /\ UNCHANGED <<now, flights, job>>

Waiters(r) == {w \in Goroutines : pc[w] = "wait" /\ job[w].room = r}

\* close(call.done): the value is published and every waiter receives it.
CloseSilently(g) ==
  /\ pc[g] = "close"
  /\ flights' = [flights EXCEPT ![job[g].room].done = TRUE,
                                ![job[g].room].val  = ans[g]]
  /\ Goto(g, "forget")
  /\ UNCHANGED <<now, cache, job, ans>>
Close(g) ==
  LET r == job[g].room IN
  /\ pc[g] = "close"
  /\ flights' = [flights EXCEPT ![r].done = TRUE, ![r].val = ans[g]]
  /\ ans' = [w \in Goroutines |-> IF w \in Waiters(r) THEN ans[g] ELSE ans[w]]
  /\ pc' = [w \in Goroutines |->
              IF w \in Waiters(r) THEN "return"
              ELSE IF w = g THEN "forget" ELSE pc[w]]
  /\ UNCHANGED <<now, cache, job>>

\* delete(g.m, key), the last critical section of do.
Forget(g) ==
  /\ pc[g] = "forget"
  /\ flights' = Restrict(flights, DOMAIN flights \ {job[g].room})
  /\ Goto(g, "return")
  /\ UNCHANGED <<now, cache, job, ans>>

\* The viewer's context ends while resolvePlayback selects: the viewer leaves
\* with "", the goroutine carries on for whoever shares its work.
Cancel(g) ==
  /\ pc[g] # "idle"
  /\ job[g].watched
  /\ job' = [job EXCEPT ![g].watched = FALSE]
  /\ UNCHANGED <<now, cache, flights, pc, ans>>

\* result <- resolve(rid): the channel holds one answer, so the goroutine
\* ends whether or not anybody receives it.
Return(g) ==
  /\ pc[g] = "return"
  /\ Goto(g, "idle")
  /\ job' = [job EXCEPT ![g] = NoJob]
  /\ ans' = [ans EXCEPT ![g] = NoAddress]
  /\ UNCHANGED <<now, cache, flights>>

\* Time passes only while goroutines fetch, wait for a fetch or are idle: the
\* steps in memory are instantaneous at the clock's grain.
Tick ==
  /\ now < MaxTime
  /\ \A g \in Goroutines : pc[g] \in {"idle", "fetch", "wait"}
  /\ now' = now + 1
  /\ UNCHANGED <<cache, flights, pc, job, ans>>

Init ==
  /\ now = 0
  /\ cache = <<>>
  /\ flights = <<>>
  /\ pc = [g \in Goroutines |-> "idle"]
  /\ job = [g \in Goroutines |-> NoJob]
  /\ ans = [g \in Goroutines |-> NoAddress]

Progress(g) ==
  \/ Delete(g) \/ Get(g) \/ Do(g) \/ Recheck(g) \/ Fetch(g)
  \/ Close(g) \/ Forget(g) \/ Return(g)

Next == Tick \/ \E g \in Goroutines : Ask(g) \/ Cancel(g) \/ Progress(g)

Spec == Init /\ [][Next]_vars

\* Runnable goroutines are scheduled, and a fetch ends: every request of a
\* resolver has the timeout TIMEOUT_S.
FairSpec == Spec /\ \A g \in Goroutines : WF_vars(Progress(g))

-----------------------------------------------------------------------------
(***************************************************************************)
(* Properties                                                              *)
(***************************************************************************)

\* Types of the shared maps and of the goroutines' state; an address is signed
\* between the start of its fetch and now, and expires no earlier than that.
TypeOK ==
  /\ now \in 0..MaxTime
  /\ DOMAIN cache \subseteq Rooms /\ cache \in [DOMAIN cache -> Entries]
  /\ DOMAIN flights \subseteq Rooms /\ flights \in [DOMAIN flights -> Calls]
  /\ pc \in [Goroutines -> Labels]
  /\ job \in [Goroutines -> Jobs]
  /\ ans \in [Goroutines -> Addresses]
  /\ \A r \in DOMAIN cache :
       LET v == cache[r].val
       IN  v.began <= v.at /\ v.at <= now /\ v.at <= cache[r].expire

Fetching(r) == {g \in Goroutines : pc[g] = "fetch" /\ job[g].room = r}

\* However the requests interleave, a room of a merging platform has at most
\* one page fetch under way (cache.go, "merge concurrent resolutions").
OneFetchPerRoom ==
  \A r \in Rooms : Merged(r) =>
    \A g, h \in Fetching(r) : g = h

\* A goroutine blocked on call.done can be woken: the call is still in the
\* map, still open, and its leader is on the way to closing it.
WaiterHasLeader ==
  \A w \in Goroutines : pc[w] = "wait" =>
    LET r == job[w].room IN
    /\ r \in DOMAIN flights
    /\ ~flights[r].done
    /\ pc[flights[r].leader] \in {"recheck", "fetch", "close"}
    /\ job[flights[r].leader].room = r

\* What a request is answered with was still within its lifetime when the
\* request was made, and a failure never outlives FAIL_TTL, whichever
\* resolver stored it and whoever fetched it (cache.go, set and get).
BoundedStaleness ==
  \A g \in Goroutines : pc[g] = "return" =>
    job[g].asked <= ans[g].at + (IF ans[g].ok THEN SuccessTTL(job[g].room)
                                              ELSE FAIL_TTL)

\* A fresh request never gets an address signed before it was made, even when
\* it shares the flight of somebody who did not ask for a fresh one.
FreshNotStale ==
  \A g \in Goroutines :
    pc[g] = "return" /\ job[g].fresh => ans[g].at >= job[g].asked

\* Nobody loses a cached address that is still good, except to a fresh
\* request for that very room: not by the sweep of a full cache, nor by the
\* removal that a late reader does.
NoEarlyLoss ==
  [][\A r \in DOMAIN cache :
       ~Expired(cache[r]) /\ r \notin DOMAIN cache' =>
         \E g \in Goroutines :
           /\ pc[g] = "delete" /\ pc'[g] = "get"
           /\ job[g].room = r]_vars

\* In the cache of a merging platform an address is never replaced by one
\* whose fetch began earlier: a slow page cannot overwrite a newer one.
NoRollback ==
  [][\A r \in DOMAIN cache \cap DOMAIN cache' :
       Merged(r) => cache'[r].val.began >= cache[r].val.began]_vars

(***************************************************************************)
(* The inductive invariant behind the safety properties.                   *)
(***************************************************************************)
Leading(g) ==
  /\ pc[g] \in {"recheck", "fetch", "close", "forget"}
  /\ Merged(job[g].room)

\* The calls in the map and the goroutines that lead them correspond one to
\* one, and a call is closed exactly when its leader is about to remove it.
FlightInv ==
  /\ \A g \in Goroutines :
       pc[g] \in {"do", "wait", "recheck", "close", "forget"} =>
         Merged(job[g].room)
  /\ \A g \in Goroutines : Leading(g) =>
       /\ job[g].room \in DOMAIN flights
       /\ flights[job[g].room].leader = g
       /\ flights[job[g].room].done <=> pc[g] = "forget"
  /\ \A r \in DOMAIN flights :
       Leading(flights[r].leader) /\ job[flights[r].leader].room = r
  /\ \A w \in Goroutines : pc[w] = "wait" =>
       job[w].room \in DOMAIN flights /\ ~flights[job[w].room].done

DateInv ==
  /\ \A r \in DOMAIN cache :
       LET v == cache[r].val
       IN  /\ v.began <= v.at /\ v.at <= now
           /\ cache[r].expire = v.at + Lifetime(r, v.ok)
  /\ \A g \in Goroutines : job[g].asked <= now /\ job[g].began <= now

\* Who has seen the room missing from the cache, a moment ago, can only find
\* there, or be handed by a flight, an address signed in this very moment.
MomentInv ==
  /\ \A g \in Goroutines :
       /\ pc[g] \in {"do", "recheck"} \/ (pc[g] = "get" /\ job[g].fresh)
       /\ job[g].room \in DOMAIN cache
       => cache[job[g].room].val.at = now
  /\ \A g \in Goroutines : pc[g] \in {"close", "forget"} => ans[g].at = now
  /\ \A r \in DOMAIN flights : flights[r].done => flights[r].val.at = now

\* The leader's own fetch is the latest one to have begun.
FetchOrder ==
  \A g \in Goroutines :
    /\ pc[g] = "fetch"
    /\ Merged(job[g].room)
    /\ job[g].room \in DOMAIN cache
    => cache[job[g].room].val.began <= job[g].began

\* The conjunction that every step preserves: it contains the type invariant
\* and the two properties of answers, and implies the rest.
IInv ==
  /\ TypeOK
  /\ FlightInv
  /\ DateInv
  /\ MomentInv
  /\ FetchOrder
  /\ BoundedStaleness
  /\ FreshNotStale

(***************************************************************************)
(* Refinement.  A request is answered from the moment its goroutine returns *)
(* (a leader that still has to close its flight has not answered yet).     *)
(***************************************************************************)
Request(g) ==
  IF pc[g] = "idle" THEN [phase |-> "none"]
  ELSE [phase |-> IF pc[g] = "return" THEN "answered" ELSE "asked",
        room |-> job[g].room, fresh |-> job[g].fresh, asked |-> job[g].asked]

Service ==
  INSTANCE AddressService WITH
    Clients     <- Goroutines,
    GoodFor     <- [r \in Rooms |-> SuccessTTL(r)],
    FailGoodFor <- FAIL_TTL,
    request     <- [g \in Goroutines |-> Request(g)],
    answer      <- [g \in Goroutines |->
                      IF pc[g] = "return" THEN ans[g] ELSE NoAddress]

\* The resolver implements the abstract service, liveness included: one
\* acceptable answer per request, shared only between requests for one room.
ImplementsService == Service!Spec
=============================================================================
