--------------------------- MODULE ResolverProofs ---------------------------
(***************************************************************************)
(* The safety properties of Resolver, for any number of goroutines, rooms  *)
(* and platforms and any lifetimes.  IInv is preserved by every step; the  *)
(* lemmas below take the actions one at a time.                            *)
(***************************************************************************)
EXTENDS Resolver, TLAPS

LEMMA NoJobType == NoJob \in Jobs
  BY ResolverAssumption DEF NoJob, Jobs

LEMMA LifetimeType ==
  ASSUME NEW r \in Rooms, NEW ok \in BOOLEAN
  PROVE  /\ Lifetime(r, ok) \in Nat
         /\ Lifetime(r, ok) <= (IF ok THEN SuccessTTL(r) ELSE FAIL_TTL)
         /\ SuccessTTL(r) \in Nat
  <1>1. Platform[r] \in Platforms
    BY ResolverAssumption
  <1>2. /\ HUYA_CACHE_TTL \in Nat /\ DOUYU_CACHE_TTL \in Nat
        /\ FixedTTL \in Nat /\ FAIL_TTL \in Nat
    BY ResolverAssumption
  <1>3. SuccessTTL(r) \in Nat
    BY <1>1, <1>2 DEF SuccessTTL, Platforms
  <1>4. FailureTTL(r) \in Nat
    BY <1>2 DEF FailureTTL
  <1>5. MinInt(FailureTTL(r), FAIL_TTL) \in Nat
        /\ MinInt(FailureTTL(r), FAIL_TTL) <= FAIL_TTL
    BY <1>2, <1>4 DEF MinInt
  <1> QED
    BY <1>3, <1>5 DEF Lifetime

\* What a cache looks like after an address is stored: the new entry is there
\* unless it was already expired, and every other entry is an old one.
LEMMA StoredShape ==
  ASSUME TypeOK, NEW r \in Rooms, NEW v \in Addresses
  PROVE  LET c == Stored(r, v) IN
         /\ DOMAIN c \subseteq DOMAIN cache \cup {r}
         /\ \A k \in DOMAIN c : k # r => c[k] = cache[k]
         /\ r \in DOMAIN c => c[r] = [val |-> v, expire |-> now + Lifetime(r, v.ok)]
         /\ \A k \in DOMAIN cache : ~Expired(cache[k]) => k \in DOMAIN c
         /\ c = [k \in DOMAIN c |-> c[k]]
  <1> DEFINE e == [val |-> v, expire |-> now + Lifetime(r, v.ok)]
             f == Filled(r, e)
  <1>1. /\ DOMAIN f = DOMAIN cache \cup {r}
        /\ \A k \in DOMAIN f : f[k] = IF k = r THEN e ELSE cache[k]
    BY DEF Filled
  <1>2. ~(now > e.expire)
    <2>1. v.ok \in BOOLEAN /\ now \in Nat
      BY ResolverAssumption DEF TypeOK, Addresses
    <2>2. Lifetime(r, v.ok) \in Nat
      BY <2>1, LifetimeType
    <2> QED
      BY <2>1, <2>2
  <1>3. Stored(r, v) = Sweep(r, f)
    BY DEF Stored
  <1> HIDE DEF f, e
  <1>4. \/ Sweep(r, f) = f
        \/ \E S : /\ Sweep(r, f) = [k \in DOMAIN f \ S |-> f[k]]
                  /\ \A k \in S : k \in DOMAIN f /\ Expired(f[k])
    BY DEF Sweep, Restrict
  <1>5. f = [k \in DOMAIN f |-> f[k]]
    BY DEF f, Filled
  <1>6. \A k \in DOMAIN cache : ~Expired(cache[k]) => ~Expired(f[k])
    BY <1>1, <1>2 DEF Expired
  <1>7. CASE Sweep(r, f) = f
    BY <1>1, <1>3, <1>5, <1>7 DEF e
  <1>8. CASE \E S : /\ Sweep(r, f) = [k \in DOMAIN f \ S |-> f[k]]
                    /\ \A k \in S : k \in DOMAIN f /\ Expired(f[k])
    <2>1. PICK S : /\ Sweep(r, f) = [k \in DOMAIN f \ S |-> f[k]]
                   /\ \A k \in S : k \in DOMAIN f /\ Expired(f[k])
      BY <1>8
    <2> QED
      BY <1>1, <1>3, <1>6, <2>1 DEF e
  <1> QED
    BY <1>4, <1>7, <1>8

LEMMA InitIInv == Init => IInv
  <1> SUFFICES ASSUME Init PROVE IInv
    OBVIOUS
  <1> USE DEF Init
  <1>1. TypeOK
    <2>1. now \in 0..MaxTime
      BY ResolverAssumption
    <2>2. DOMAIN cache = {} /\ DOMAIN flights = {}
      OBVIOUS
    <2>3. NoAddress \in Addresses
      BY DEF NoAddress, Addresses
    <2>4. /\ pc \in [Goroutines -> Labels] /\ job \in [Goroutines -> Jobs]
          /\ ans \in [Goroutines -> Addresses]
      BY <2>3, NoJobType DEF Labels
    <2>5. cache \in [DOMAIN cache -> Entries] /\ flights \in [DOMAIN flights -> Calls]
      BY <2>2
    <2> QED
      BY <2>1, <2>2, <2>4, <2>5 DEF TypeOK
  <1>2. FlightInv /\ MomentInv /\ FetchOrder /\ BoundedStaleness /\ FreshNotStale
    BY DEF FlightInv, Leading, MomentInv, FetchOrder, BoundedStaleness, FreshNotStale
  <1>3. DateInv
    BY DEF DateInv, NoJob
  <1> QED
    BY <1>1, <1>2, <1>3 DEF IInv

LEMMA AskStep ==
  ASSUME IInv, NEW g \in Goroutines, Ask(g)
  PROVE  IInv'
  <1>1. PICK r \in Rooms, fresh \in BOOLEAN :
          /\ job' = [job EXCEPT ![g] = [room |-> r, fresh |-> fresh, asked |-> now,
                                        began |-> 0, watched |-> g \in Viewers]]
          /\ pc' = [pc EXCEPT ![g] = IF fresh THEN "delete" ELSE "get"]
    BY DEF Ask, Goto
  <1>2. UNCHANGED <<now, cache, flights, ans>> /\ pc[g] = "idle"
    BY DEF Ask
  <1>3. now \in Nat
    BY ResolverAssumption DEF IInv, TypeOK
  <1> USE DEF IInv
  <1>4. TypeOK'
    BY <1>1, <1>2, <1>3 DEF TypeOK, Jobs, Labels
  <1>5. FlightInv'
    BY <1>1, <1>2 DEF FlightInv, Leading, TypeOK, Calls
  <1>6. DateInv'
    BY <1>1, <1>2, <1>3 DEF DateInv, TypeOK
  <1>7. MomentInv'
    BY <1>1, <1>2 DEF MomentInv, TypeOK
  <1>8. FetchOrder' /\ BoundedStaleness' /\ FreshNotStale'
    BY <1>1, <1>2 DEF FetchOrder, BoundedStaleness, FreshNotStale, TypeOK
  <1> QED
    BY <1>4, <1>5, <1>6, <1>7, <1>8

LEMMA DeleteStep ==
  ASSUME IInv, NEW g \in Goroutines, Delete(g)
  PROVE  IInv'
  <1> USE DEF IInv
  <1>1. /\ pc[g] = "delete" /\ pc' = [pc EXCEPT ![g] = "get"]
        /\ UNCHANGED <<now, flights, job, ans>>
    BY DEF Delete, Goto
  <1>2. cache' = [k \in DOMAIN cache \ {job[g].room} |-> cache[k]]
    BY DEF Delete, Without, Restrict
  <1>3. TypeOK'
    BY <1>1, <1>2 DEF TypeOK, Labels
  <1>4. FlightInv'
    BY <1>1 DEF FlightInv, Leading, TypeOK, Calls
  <1>5. DateInv' /\ MomentInv'
    BY <1>1, <1>2 DEF DateInv, MomentInv, TypeOK
  <1>6. FetchOrder' /\ BoundedStaleness' /\ FreshNotStale'
    BY <1>1, <1>2 DEF FetchOrder, BoundedStaleness, FreshNotStale, TypeOK
  <1> QED
    BY <1>3, <1>4, <1>5, <1>6

\* A hit is within its lifetime, and fresh requests only see new addresses.
LEMMA HitAnswers ==
  ASSUME IInv, NEW g \in Goroutines, Hit(job[g].room),
         pc[g] = "get" \/ pc[g] = "recheck"
  PROVE  LET r == job[g].room
             v == cache[r].val
         IN  /\ v \in Addresses
             /\ job[g].asked <= v.at + (IF v.ok THEN SuccessTTL(r) ELSE FAIL_TTL)
             /\ job[g].fresh \/ pc[g] = "recheck" => v.at = now
             /\ job[g].asked <= now
  <1> USE DEF IInv
  <1> DEFINE r == job[g].room
             v == cache[r].val
  <1>1. r \in Rooms /\ r \in DOMAIN cache /\ cache[r] \in Entries /\ now \in Nat
    BY ResolverAssumption DEF TypeOK, Hit, Jobs
  <1>2. v \in Addresses /\ v.ok \in BOOLEAN /\ v.at \in Nat /\ cache[r].expire \in Nat
        /\ job[g].asked \in Nat
    BY <1>1 DEF Entries, Addresses, TypeOK, Jobs
  <1>3. /\ Lifetime(r, v.ok) \in Nat
        /\ Lifetime(r, v.ok) <= (IF v.ok THEN SuccessTTL(r) ELSE FAIL_TTL)
        /\ SuccessTTL(r) \in Nat /\ FAIL_TTL \in Nat
    BY <1>1, <1>2, LifetimeType, ResolverAssumption
  <1>4. now <= v.at + Lifetime(r, v.ok) /\ job[g].asked <= now
    BY <1>1, <1>2 DEF DateInv, Hit, Expired
  <1>5. job[g].fresh \/ pc[g] = "recheck" => v.at = now
    BY <1>1 DEF MomentInv
  <1> HIDE DEF v, r
  <1>6. job[g].asked <= v.at + (IF v.ok THEN SuccessTTL(r) ELSE FAIL_TTL)
    BY <1>1, <1>2, <1>3, <1>4
  <1> QED
    BY <1>2, <1>4, <1>5, <1>6 DEF v, r

LEMMA GetStep ==
  ASSUME IInv, NEW g \in Goroutines, Get(g)
  PROVE  IInv'
  <1> USE DEF IInv
  <1> DEFINE r == job[g].room
             onMiss == IF Merged(r) THEN "do" ELSE "fetch"
  <1>1. pc[g] = "get" /\ UNCHANGED <<now, flights>> /\ r \in Rooms /\ now \in Nat
    BY ResolverAssumption DEF Get, Lookup, TypeOK, Jobs
  <1>2. CASE /\ Hit(r)
             /\ ans' = [ans EXCEPT ![g] = cache[r].val]
             /\ pc' = [pc EXCEPT ![g] = "return"]
             /\ UNCHANGED <<cache, job>>
    <2>1. TypeOK'
      BY <1>1, <1>2, HitAnswers DEF TypeOK, Labels
    <2>2. FlightInv'
      BY <1>1, <1>2 DEF FlightInv, Leading, TypeOK, Calls
    <2>3. DateInv' /\ MomentInv' /\ FetchOrder'
      BY <1>1, <1>2 DEF DateInv, MomentInv, FetchOrder, TypeOK
    <2>4. BoundedStaleness' /\ FreshNotStale'
      BY <1>1, <1>2, HitAnswers DEF BoundedStaleness, FreshNotStale, TypeOK
    <2> QED
      BY <2>1, <2>2, <2>3, <2>4
  <1>3. CASE /\ cache' = [k \in DOMAIN cache \ {r} |-> cache[k]]
             /\ pc' = [pc EXCEPT ![g] = onMiss]
             /\ job' = IF onMiss = "fetch" THEN [job EXCEPT ![g].began = now] ELSE job
             /\ UNCHANGED ans
    <2>1. TypeOK'
      BY <1>1, <1>3 DEF TypeOK, Labels, Jobs
    <2>2. FlightInv'
      BY <1>1, <1>3 DEF FlightInv, Leading, TypeOK, Calls, Jobs
    <2>3. DateInv'
      BY <1>1, <1>3 DEF DateInv, TypeOK, Jobs
    <2>4. MomentInv' /\ FetchOrder'
      BY <1>1, <1>3 DEF MomentInv, FetchOrder, TypeOK, Jobs
    <2>5. BoundedStaleness' /\ FreshNotStale'
      BY <1>1, <1>3 DEF BoundedStaleness, FreshNotStale, TypeOK, Jobs
    <2> QED
      BY <2>1, <2>2, <2>3, <2>4, <2>5
  <1> QED
    BY <1>1, <1>2, <1>3 DEF Get, Lookup, Goto, Without, Restrict

LEMMA RecheckStep ==
  ASSUME IInv, NEW g \in Goroutines, Recheck(g)
  PROVE  IInv'
  <1> USE DEF IInv
  <1> DEFINE r == job[g].room
  <1>1. pc[g] = "recheck" /\ UNCHANGED <<now, flights>> /\ r \in Rooms /\ now \in Nat
    BY ResolverAssumption DEF Recheck, Lookup, TypeOK, Jobs
  <1>2. CASE /\ Hit(r)
             /\ ans' = [ans EXCEPT ![g] = cache[r].val]
             /\ pc' = [pc EXCEPT ![g] = "close"]
             /\ UNCHANGED <<cache, job>>
    <2>1. TypeOK'
      BY <1>1, <1>2, HitAnswers DEF TypeOK, Labels
    <2>2. FlightInv'
      BY <1>1, <1>2 DEF FlightInv, Leading, TypeOK, Calls
    <2>3. DateInv' /\ FetchOrder'
      BY <1>1, <1>2 DEF DateInv, FetchOrder, TypeOK
    <2>4. MomentInv'
      BY <1>1, <1>2, HitAnswers DEF MomentInv, TypeOK
    <2>5. BoundedStaleness' /\ FreshNotStale'
      BY <1>1, <1>2 DEF BoundedStaleness, FreshNotStale, TypeOK
    <2> QED
      BY <2>1, <2>2, <2>3, <2>4, <2>5
  <1>3. CASE /\ cache' = [k \in DOMAIN cache \ {r} |-> cache[k]]
             /\ pc' = [pc EXCEPT ![g] = "fetch"]
             /\ job' = [job EXCEPT ![g].began = now]
             /\ UNCHANGED ans
    <2>1. TypeOK'
      BY <1>1, <1>3 DEF TypeOK, Labels, Jobs
    <2>2. FlightInv'
      BY <1>1, <1>3 DEF FlightInv, Leading, TypeOK, Calls, Jobs
    <2>3. DateInv'
      BY <1>1, <1>3 DEF DateInv, TypeOK, Jobs
    <2>4. MomentInv' /\ FetchOrder'
      BY <1>1, <1>3 DEF MomentInv, FetchOrder, TypeOK, Jobs
    <2>5. BoundedStaleness' /\ FreshNotStale'
      BY <1>1, <1>3 DEF BoundedStaleness, FreshNotStale, TypeOK, Jobs
    <2> QED
      BY <2>1, <2>2, <2>3, <2>4, <2>5
  <1> QED
    BY <1>1, <1>2, <1>3 DEF Recheck, Lookup, Goto, Without, Restrict

LEMMA DoStep ==
  ASSUME IInv, NEW g \in Goroutines, Do(g)
  PROVE  IInv'
  <1> USE DEF IInv
  <1> DEFINE r == job[g].room
             call == [leader |-> g, done |-> FALSE, val |-> NoAddress]
  <1>1. /\ pc[g] = "do" /\ UNCHANGED <<now, cache, job>>
        /\ r \in Rooms /\ Merged(r) /\ now \in Nat
    BY ResolverAssumption DEF Do, TypeOK, Jobs, FlightInv
  <1>2. DateInv'
    BY <1>1 DEF DateInv
  <1>3. call \in Calls
    BY DEF Calls, NoAddress, Addresses
  <1>4. CASE /\ r \in DOMAIN flights /\ flights[r].done
             /\ ans' = [ans EXCEPT ![g] = flights[r].val]
             /\ pc' = [pc EXCEPT ![g] = "return"]
             /\ UNCHANGED flights
    <2>1. TypeOK'
      BY <1>1, <1>4 DEF TypeOK, Labels, Calls
    <2>2. FlightInv'
      BY <1>1, <1>4 DEF FlightInv, Leading, TypeOK, Calls
    <2>3. MomentInv' /\ FetchOrder'
      BY <1>1, <1>4 DEF MomentInv, FetchOrder, TypeOK
    <2>4. /\ flights[r].val.at = now /\ flights[r].val \in Addresses
          /\ job[g].asked <= now /\ SuccessTTL(r) \in Nat /\ FAIL_TTL \in Nat
          /\ job[g].asked \in Nat
      BY <1>1, <1>4, LifetimeType, ResolverAssumption DEF MomentInv, TypeOK, Calls, DateInv, Jobs
    <2>5. BoundedStaleness' /\ FreshNotStale'
      BY <1>1, <1>4, <2>4 DEF BoundedStaleness, FreshNotStale, TypeOK
    <2> QED
      BY <1>2, <2>1, <2>2, <2>3, <2>5
  <1>5. CASE /\ r \in DOMAIN flights /\ ~flights[r].done
             /\ pc' = [pc EXCEPT ![g] = "wait"]
             /\ UNCHANGED <<flights, ans>>
    <2>1. TypeOK'
      BY <1>1, <1>5 DEF TypeOK, Labels
    <2>2. FlightInv'
      BY <1>1, <1>5 DEF FlightInv, Leading, TypeOK, Calls
    <2>3. MomentInv' /\ FetchOrder' /\ BoundedStaleness' /\ FreshNotStale'
      BY <1>1, <1>5 DEF MomentInv, FetchOrder, TypeOK, BoundedStaleness, FreshNotStale
    <2> QED
      BY <1>2, <2>1, <2>2, <2>3
  <1>6. CASE /\ r \notin DOMAIN flights
             /\ flights' = [k \in DOMAIN flights \cup {r} |->
                              IF k = r THEN call ELSE flights[k]]
             /\ pc' = [pc EXCEPT ![g] = "recheck"]
             /\ UNCHANGED ans
    <2>1. TypeOK'
      BY <1>1, <1>3, <1>6 DEF TypeOK, Labels
    <2>2. FlightInv'
      BY <1>1, <1>6 DEF FlightInv, Leading, TypeOK, Calls
    <2>3. MomentInv'
      BY <1>1, <1>6 DEF MomentInv, TypeOK
    <2>4. FetchOrder' /\ BoundedStaleness' /\ FreshNotStale'
      BY <1>1, <1>6 DEF FetchOrder, TypeOK, BoundedStaleness, FreshNotStale
    <2> QED
      BY <1>2, <2>1, <2>2, <2>3, <2>4
  <1> QED
    BY <1>1, <1>4, <1>5, <1>6 DEF Do, Goto

\* Two goroutines never lead, and so never fetch, the same merged room.
LEMMA OneLeader ==
  ASSUME FlightInv, NEW g \in Goroutines, NEW h \in Goroutines,
         Leading(g), Leading(h), job[g].room = job[h].room
  PROVE  g = h
  BY DEF FlightInv

LEMMA FetchStep ==
  ASSUME IInv, NEW g \in Goroutines, Fetch(g)
  PROVE  IInv'
  <1> USE DEF IInv
  <1> DEFINE r == job[g].room
  <1>1. PICK ok \in Outcomes(r) :
          LET v == [ok |-> ok, began |-> job[g].began, at |-> now]
          IN  cache' = Stored(r, v) /\ ans' = [ans EXCEPT ![g] = v]
    BY DEF Fetch
  <1> DEFINE v == [ok |-> ok, began |-> job[g].began, at |-> now]
             entry == [val |-> v, expire |-> now + Lifetime(r, v.ok)]
  <1>2. /\ pc[g] = "fetch" /\ UNCHANGED <<now, flights, job>>
        /\ pc' = [pc EXCEPT ![g] = IF Merged(r) THEN "close" ELSE "return"]
    BY DEF Fetch, Goto
  <1>3. /\ r \in Rooms /\ now \in Nat /\ ok \in BOOLEAN
        /\ job[g].began \in Nat /\ job[g].asked \in Nat
        /\ job[g].began <= now /\ job[g].asked <= now
    <2>1. ok \in BOOLEAN
      BY DEF Outcomes
    <2>2. now \in Nat /\ job[g] \in Jobs
      BY ResolverAssumption DEF TypeOK
    <2> QED
      BY <2>1, <2>2 DEF Jobs, DateInv
  <1>4. v \in Addresses
    BY <1>3 DEF Addresses
  <1>5. /\ DOMAIN cache' \subseteq DOMAIN cache \cup {r}
        /\ \A k \in DOMAIN cache' : k # r => cache'[k] = cache[k]
        /\ r \in DOMAIN cache' => cache'[r] = entry
        /\ cache' = [k \in DOMAIN cache' |-> cache'[k]]
    BY <1>1, <1>3, <1>4, StoredShape
  <1>6. /\ Lifetime(r, ok) \in Nat /\ SuccessTTL(r) \in Nat /\ FAIL_TTL \in Nat
        /\ now + Lifetime(r, ok) \in Nat
    BY <1>3, LifetimeType, ResolverAssumption
  <1>7. TypeOK'
    <2>1. entry \in Entries
      BY <1>4, <1>6 DEF Entries
    <2>2. DOMAIN cache' \subseteq Rooms
      BY <1>3, <1>5 DEF TypeOK
    <2>3. \A k \in DOMAIN cache' : cache'[k] \in Entries
      BY <1>5, <2>1 DEF TypeOK
    <2>4. cache' \in [DOMAIN cache' -> Entries]
      BY <1>5, <2>3
    <2>5. \A k \in DOMAIN cache' :
            LET w == cache'[k].val
            IN  w.began <= w.at /\ w.at <= now' /\ w.at <= cache'[k].expire
      BY <1>2, <1>3, <1>5, <1>6 DEF TypeOK
    <2> QED
      BY <1>1, <1>2, <1>4, <2>2, <2>4, <2>5 DEF TypeOK, Labels
  <1>8. FlightInv'
    BY <1>2 DEF FlightInv, Leading, TypeOK, Calls
  <1>9. DateInv'
    BY <1>2, <1>3, <1>5, <1>6 DEF DateInv
  <1>10. MomentInv'
    BY <1>1, <1>2, <1>3, <1>5 DEF MomentInv, TypeOK
  <1>11. FetchOrder'
    <2> SUFFICES ASSUME NEW h \in Goroutines, pc'[h] = "fetch",
                        Merged(job'[h].room), job'[h].room \in DOMAIN cache'
                 PROVE  cache'[job'[h].room].val.began <= job'[h].began
      BY DEF FetchOrder
    <2>1. h # g /\ pc[h] = "fetch"
      BY <1>2 DEF TypeOK
    <2>2. job[h].room # r
      BY <1>2, <2>1, OneLeader DEF Leading
    <2> QED
      BY <1>2, <1>5, <2>1, <2>2 DEF FetchOrder
  <1>12. BoundedStaleness' /\ FreshNotStale'
    BY <1>1, <1>2, <1>3, <1>6 DEF BoundedStaleness, FreshNotStale, TypeOK
  <1> QED
    BY <1>7, <1>8, <1>9, <1>10, <1>11, <1>12

LEMMA CloseStep ==
  ASSUME IInv, NEW g \in Goroutines, Close(g)
  PROVE  IInv'
  <1> USE DEF IInv
  <1> DEFINE r == job[g].room
  <1>1. /\ pc[g] = "close" /\ UNCHANGED <<now, cache, job>>
        /\ flights' = [flights EXCEPT ![r].done = TRUE, ![r].val = ans[g]]
        /\ ans' = [w \in Goroutines |-> IF w \in Waiters(r) THEN ans[g] ELSE ans[w]]
        /\ pc' = [w \in Goroutines |->
                    IF w \in Waiters(r) THEN "return"
                    ELSE IF w = g THEN "forget" ELSE pc[w]]
    BY DEF Close
  <1>2. /\ r \in Rooms /\ now \in Nat /\ Merged(r) /\ ans[g] \in Addresses
        /\ ans[g].at = now
    BY <1>1, ResolverAssumption DEF TypeOK, Jobs, FlightInv, MomentInv
  <1>3. /\ r \in DOMAIN flights /\ flights[r].leader = g
        /\ g \notin Waiters(r)
    BY <1>1, <1>2 DEF FlightInv, Leading, Waiters
  <1>4. TypeOK'
    <2>1. flights' \in [DOMAIN flights' -> Calls] /\ DOMAIN flights' = DOMAIN flights
      BY <1>1, <1>2, <1>3 DEF TypeOK, Calls
    <2> QED
      BY <1>1, <1>2, <2>1 DEF TypeOK, Labels
  <1>5. FlightInv'
    <2>1. \A h \in Goroutines : Leading(h)' <=> Leading(h)
      BY <1>1, <1>2, <1>3 DEF Leading, Waiters
    <2>2. \A k \in DOMAIN flights :
            /\ flights'[k].leader = flights[k].leader
            /\ flights'[k].done = (k = r \/ flights[k].done)
      BY <1>1, <1>3 DEF TypeOK, Calls
    <2>3. DOMAIN flights' = DOMAIN flights
      BY <1>1
    <2>4. \A h \in Goroutines : Leading(h) /\ job[h].room = r => h = g
      BY <1>1, <1>2, OneLeader DEF Leading
    <2>5. \A w \in Goroutines : pc'[w] = "wait" => pc[w] = "wait" /\ job[w].room # r
      BY <1>1 DEF Waiters
    <2>6. \A h \in Goroutines :
            pc'[h] \in {"do", "wait", "recheck", "close", "forget"} =>
              Merged(job'[h].room)
      BY <1>1, <1>2 DEF FlightInv
    <2>7. \A h \in Goroutines : Leading(h)' =>
            /\ job'[h].room \in DOMAIN flights'
            /\ flights'[job'[h].room].leader = h
            /\ flights'[job'[h].room].done <=> pc'[h] = "forget"
      <3> SUFFICES ASSUME NEW h \in Goroutines, Leading(h)
                   PROVE  /\ job[h].room \in DOMAIN flights
                          /\ flights'[job[h].room].leader = h
                          /\ flights'[job[h].room].done <=> pc'[h] = "forget"
        BY <1>1, <2>1, <2>3
      <3>1. CASE h = g
        BY <1>1, <1>2, <1>3, <2>2, <3>1
      <3>2. CASE h # g
        <4>1. job[h].room # r /\ pc'[h] = pc[h]
          BY <1>1, <2>4, <3>2 DEF Leading, Waiters
        <4> QED
          BY <2>2, <4>1 DEF FlightInv
      <3> QED
        BY <3>1, <3>2
    <2>8. \A k \in DOMAIN flights' : \E h \in Goroutines :
            /\ flights'[k].leader = h
            /\ pc'[h] \in {"recheck", "fetch", "close", "forget"}
            /\ Merged(job'[h].room)
            /\ job'[h].room = k
      BY <1>1, <2>1, <2>2, <2>3 DEF FlightInv, TypeOK, Calls, Leading
    <2>9. \A w \in Goroutines : pc'[w] = "wait" =>
            job'[w].room \in DOMAIN flights' /\ ~flights'[job'[w].room].done
      BY <1>1, <2>2, <2>3, <2>5 DEF FlightInv
    <2> QED
      BY <2>6, <2>7, <2>8, <2>9 DEF FlightInv, Leading
  <1>6. DateInv' /\ FetchOrder'
    BY <1>1 DEF DateInv, FetchOrder, Waiters
  <1>7. MomentInv'
    BY <1>1, <1>2, <1>3 DEF MomentInv, TypeOK, Calls, Waiters
  <1>8. BoundedStaleness' /\ FreshNotStale'
    <2>1. \A w \in Waiters(r) :
            /\ job[w].asked <= now /\ job[w].asked \in Nat
            /\ job[w].room = r
      BY DEF Waiters, DateInv, TypeOK, Jobs
    <2>2. SuccessTTL(r) \in Nat /\ FAIL_TTL \in Nat
      BY <1>2, LifetimeType, ResolverAssumption
    <2> QED
      BY <1>1, <1>2, <1>3, <2>1, <2>2 DEF BoundedStaleness, FreshNotStale
  <1> QED
    BY <1>4, <1>5, <1>6, <1>7, <1>8

LEMMA ForgetStep ==
  ASSUME IInv, NEW g \in Goroutines, Forget(g)
  PROVE  IInv'
  <1> USE DEF IInv
  <1> DEFINE r == job[g].room
  <1>1. /\ pc[g] = "forget" /\ UNCHANGED <<now, cache, job, ans>>
        /\ flights' = [k \in DOMAIN flights \ {r} |-> flights[k]]
        /\ pc' = [pc EXCEPT ![g] = "return"]
    BY DEF Forget, Goto, Restrict
  <1>2. /\ Merged(r) /\ r \in DOMAIN flights /\ flights[r].done
        /\ r \in Rooms /\ now \in Nat
    BY <1>1, ResolverAssumption DEF FlightInv, Leading, TypeOK, Jobs
  <1>3. TypeOK'
    BY <1>1 DEF TypeOK, Labels
  <1>4. FlightInv'
    <2>1. \A h \in Goroutines : Leading(h)' <=> Leading(h) /\ h # g
      BY <1>1 DEF Leading, TypeOK
    <2>2. \A h \in Goroutines : Leading(h) /\ h # g => job[h].room # r
      BY <1>1, <1>2, OneLeader DEF Leading
    <2>3. \A h \in Goroutines :
            pc'[h] \in {"do", "wait", "recheck", "close", "forget"} =>
              Merged(job'[h].room)
      BY <1>1 DEF FlightInv, TypeOK
    <2>4. \A h \in Goroutines : Leading(h)' =>
            /\ job'[h].room \in DOMAIN flights'
            /\ flights'[job'[h].room].leader = h
            /\ flights'[job'[h].room].done <=> pc'[h] = "forget"
      BY <1>1, <2>1, <2>2 DEF FlightInv, TypeOK
    <2>5. \A k \in DOMAIN flights' : \E h \in Goroutines :
            /\ flights'[k].leader = h
            /\ pc'[h] \in {"recheck", "fetch", "close", "forget"}
            /\ Merged(job'[h].room)
            /\ job'[h].room = k
      <3> SUFFICES ASSUME NEW k \in DOMAIN flights, k # r
                   PROVE  \E h \in Goroutines :
                            /\ flights[k].leader = h
                            /\ pc'[h] \in {"recheck", "fetch", "close", "forget"}
                            /\ Merged(job[h].room)
                            /\ job[h].room = k
        BY <1>1
      <3>1. flights[k].leader \in Goroutines
        BY DEF TypeOK, Calls
      <3>2. Leading(flights[k].leader) /\ job[flights[k].leader].room = k
        BY DEF FlightInv
      <3>3. flights[k].leader # g
        BY <3>2
      <3>4. pc'[flights[k].leader] = pc[flights[k].leader]
        BY <1>1, <3>1, <3>3 DEF TypeOK
      <3> QED
        BY <3>1, <3>2, <3>4 DEF Leading
    <2>6. \A w \in Goroutines : pc'[w] = "wait" =>
            job'[w].room \in DOMAIN flights' /\ ~flights'[job'[w].room].done
      BY <1>1, <1>2 DEF FlightInv, TypeOK
    <2> QED
      BY <2>3, <2>4, <2>5, <2>6 DEF FlightInv, Leading
  <1>5. DateInv' /\ MomentInv' /\ FetchOrder'
    BY <1>1 DEF DateInv, MomentInv, FetchOrder, TypeOK
  <1>6. BoundedStaleness' /\ FreshNotStale'
    <2>1. /\ ans[g].at = now /\ job[g].asked <= now /\ job[g].asked \in Nat
          /\ SuccessTTL(r) \in Nat /\ FAIL_TTL \in Nat
      BY <1>1, <1>2, LifetimeType, ResolverAssumption DEF MomentInv, DateInv, TypeOK, Jobs
    <2> QED
      BY <1>1, <1>2, <2>1 DEF BoundedStaleness, FreshNotStale, TypeOK
  <1> QED
    BY <1>3, <1>4, <1>5, <1>6

LEMMA CancelStep ==
  ASSUME IInv, NEW g \in Goroutines, Cancel(g)
  PROVE  IInv'
  <1> USE DEF IInv
  <1>1. /\ UNCHANGED <<now, cache, flights, pc, ans>>
        /\ job' = [job EXCEPT ![g].watched = FALSE]
    BY DEF Cancel
  <1>2. \A h \in Goroutines :
          /\ job'[h] \in Jobs /\ job'[h].room = job[h].room
          /\ job'[h].fresh = job[h].fresh /\ job'[h].asked = job[h].asked
          /\ job'[h].began = job[h].began
    BY <1>1 DEF TypeOK, Jobs
  <1>3. TypeOK'
    BY <1>1, <1>2 DEF TypeOK
  <1>4. FlightInv' /\ DateInv'
    BY <1>1, <1>2 DEF FlightInv, Leading, DateInv, TypeOK, Calls
  <1>5. MomentInv' /\ FetchOrder' /\ BoundedStaleness' /\ FreshNotStale'
    BY <1>1, <1>2 DEF MomentInv, FetchOrder, BoundedStaleness, FreshNotStale
  <1> QED
    BY <1>3, <1>4, <1>5

LEMMA ReturnStep ==
  ASSUME IInv, NEW g \in Goroutines, Return(g)
  PROVE  IInv'
  <1> USE DEF IInv
  <1>1. /\ pc[g] = "return" /\ UNCHANGED <<now, cache, flights>>
        /\ pc' = [pc EXCEPT ![g] = "idle"]
        /\ job' = [job EXCEPT ![g] = NoJob]
        /\ ans' = [ans EXCEPT ![g] = NoAddress]
    BY DEF Return, Goto
  <1>2. NoJob.asked = 0 /\ NoJob.began = 0 /\ now \in Nat
    BY ResolverAssumption DEF NoJob, TypeOK
  <1>3. TypeOK'
    BY <1>1, NoJobType DEF TypeOK, Labels, NoAddress, Addresses
  <1>4. FlightInv'
    BY <1>1 DEF FlightInv, Leading, TypeOK, Calls
  <1>5. DateInv'
    BY <1>1, <1>2 DEF DateInv, TypeOK
  <1>6. MomentInv' /\ FetchOrder' /\ BoundedStaleness' /\ FreshNotStale'
    BY <1>1 DEF MomentInv, FetchOrder, BoundedStaleness, FreshNotStale, TypeOK
  <1> QED
    BY <1>3, <1>4, <1>5, <1>6

LEMMA TickStep ==
  ASSUME IInv, Tick
  PROVE  IInv'
  <1> USE DEF IInv
  <1>1. /\ now' = now + 1 /\ now < MaxTime
        /\ \A g \in Goroutines : pc[g] \in {"idle", "fetch", "wait"}
        /\ UNCHANGED <<cache, flights, pc, job, ans>>
    BY DEF Tick
  <1>2. now \in Nat /\ MaxTime \in Nat
    BY ResolverAssumption DEF TypeOK
  <1>3. TypeOK'
    BY <1>1, <1>2 DEF TypeOK, Entries, Addresses
  <1>4. FlightInv'
    BY <1>1 DEF FlightInv, Leading
  <1>5. DateInv'
    BY <1>1, <1>2 DEF DateInv, TypeOK, Entries, Addresses, Jobs
  <1>6. MomentInv'
    BY <1>1 DEF MomentInv, FlightInv, TypeOK, Calls
  <1>7. FetchOrder' /\ BoundedStaleness' /\ FreshNotStale'
    BY <1>1 DEF FetchOrder, BoundedStaleness, FreshNotStale
  <1> QED
    BY <1>3, <1>4, <1>5, <1>6, <1>7

LEMMA StutterStep == IInv /\ UNCHANGED vars => IInv'
  <1> SUFFICES ASSUME IInv, UNCHANGED vars PROVE IInv'
    OBVIOUS
  <1> USE DEF IInv, vars
  <1>1. TypeOK' /\ DateInv'
    BY DEF TypeOK, DateInv
  <1>2. FlightInv'
    BY DEF FlightInv, Leading
  <1>3. MomentInv' /\ FetchOrder' /\ BoundedStaleness' /\ FreshNotStale'
    BY DEF MomentInv, FetchOrder, BoundedStaleness, FreshNotStale
  <1> QED
    BY <1>1, <1>2, <1>3

LEMMA NextStep == IInv /\ [Next]_vars => IInv'
  <1> SUFFICES ASSUME IInv, [Next]_vars PROVE IInv'
    OBVIOUS
  <1>1. CASE Tick
    BY <1>1, TickStep
  <1>2. CASE UNCHANGED vars
    BY <1>2, StutterStep
  <1>3. ASSUME NEW g \in Goroutines, Ask(g) \/ Cancel(g) \/ Progress(g)
        PROVE  IInv'
    <2>1. CASE Ask(g)
      BY <2>1, AskStep
    <2>2. CASE Cancel(g)
      BY <2>2, CancelStep
    <2>3. CASE Delete(g)
      BY <2>3, DeleteStep
    <2>4. CASE Get(g)
      BY <2>4, GetStep
    <2>5. CASE Do(g)
      BY <2>5, DoStep
    <2>6. CASE Recheck(g)
      BY <2>6, RecheckStep
    <2>7. CASE Fetch(g)
      BY <2>7, FetchStep
    <2>8. CASE Close(g)
      BY <2>8, CloseStep
    <2>9. CASE Forget(g)
      BY <2>9, ForgetStep
    <2>10. CASE Return(g)
      BY <2>10, ReturnStep
    <2> QED
      BY <1>3, <2>1, <2>2, <2>3, <2>4, <2>5, <2>6, <2>7, <2>8, <2>9, <2>10
         DEF Progress
  <1> QED
    BY <1>1, <1>2, <1>3 DEF Next

\* Every reachable state satisfies the inductive invariant, and with it the
\* type invariant and the two guarantees about what a request is answered with.
THEOREM Invariant == Spec => []IInv
  BY InitIInv, NextStep, PTL DEF Spec

\* The state has the declared types (cache.go, stream_session.go).
THEOREM TypeCorrect == Spec => []TypeOK
  <1>1. IInv => TypeOK
    BY DEF IInv
  <1> QED
    BY <1>1, Invariant, PTL

\* A room of a merging platform is fetched by one goroutine at a time, however
\* many ask for it (stringFlightGroup.do).
THEOREM OneFetch == Spec => []OneFetchPerRoom
  <1>1. IInv => OneFetchPerRoom
    BY OneLeader DEF IInv, OneFetchPerRoom, Fetching, Leading
  <1> QED
    BY <1>1, Invariant, PTL

\* Whoever waits for a call has a leader that is about to close it: no wake-up
\* is lost (stringFlightGroup.do).
THEOREM WaitersAreLed == Spec => []WaiterHasLeader
  <1>1. IInv => WaiterHasLeader
    <2> SUFFICES ASSUME IInv, NEW w \in Goroutines, pc[w] = "wait"
                 PROVE  LET r == job[w].room IN
                        /\ r \in DOMAIN flights
                        /\ ~flights[r].done
                        /\ pc[flights[r].leader] \in {"recheck", "fetch", "close"}
                        /\ job[flights[r].leader].room = r
      BY DEF WaiterHasLeader
    <2> DEFINE r == job[w].room
               l == flights[r].leader
    <2>1. r \in DOMAIN flights /\ ~flights[r].done
      BY DEF IInv, FlightInv
    <2>2. Leading(l) /\ job[l].room = r /\ l \in Goroutines
      BY <2>1 DEF IInv, FlightInv, TypeOK, Calls
    <2>3. pc[l] # "forget"
      BY <2>1, <2>2 DEF IInv, FlightInv
    <2> QED
      BY <2>1, <2>2, <2>3 DEF Leading
  <1> QED
    BY <1>1, Invariant, PTL

\* No answer outlives its lifetime, and no failure outlives FAIL_TTL
\* (ttlCache.get and ttlCache.set).
THEOREM Staleness == Spec => []BoundedStaleness
  <1>1. IInv => BoundedStaleness
    BY DEF IInv
  <1> QED
    BY <1>1, Invariant, PTL

\* A fresh request is never handed an address signed before it (resolvePlayback
\* with fresh, resolveDouyuFresh).
THEOREM Freshness == Spec => []FreshNotStale
  <1>1. IInv => FreshNotStale
    BY DEF IInv
  <1> QED
    BY <1>1, Invariant, PTL

\* The steps that touch the cache: a deletion for a fresh request, a lookup
\* that misses, and the store at the end of a fetch.
LEMMA CacheSteps ==
  ASSUME IInv, [Next]_vars
  PROVE  \/ cache' = cache
         \/ \E g \in Goroutines :
              /\ pc[g] = "delete" /\ pc'[g] = "get"
              /\ cache' = Without(job[g].room)
         \/ \E g \in Goroutines :
              ~Hit(job[g].room) /\ cache' = Without(job[g].room)
         \/ \E g \in Goroutines : Fetch(g)
  <1>1. CASE Tick \/ UNCHANGED vars
    BY <1>1 DEF Tick, vars
  <1>2. ASSUME NEW g \in Goroutines, Ask(g) \/ Cancel(g) \/ Progress(g),
               cache' # cache, ~Fetch(g)
        PROVE  \/ /\ pc[g] = "delete" /\ pc'[g] = "get"
                  /\ cache' = Without(job[g].room)
               \/ ~Hit(job[g].room) /\ cache' = Without(job[g].room)
    <2>1. CASE Delete(g)
      BY <2>1 DEF Delete, Goto, IInv, TypeOK
    <2>2. CASE Get(g) \/ Recheck(g)
      BY <1>2, <2>2 DEF Get, Recheck, Lookup
    <2> QED
      BY <1>2, <2>1, <2>2
         DEF Progress, Ask, Cancel, Do, Close, Forget, Return
  <1> QED
    BY <1>1, <1>2 DEF Next, Progress

\* StoredShape, for the address that a fetch stores.
LEMMA FetchStores ==
  ASSUME IInv, NEW g \in Goroutines, Fetch(g)
  PROVE  LET r == job[g].room IN
         /\ pc[g] = "fetch" /\ r \in Rooms
         /\ \A k \in DOMAIN cache' : k # r => cache'[k] = cache[k]
         /\ r \in DOMAIN cache' => cache'[r].val.began = job[g].began
         /\ \A k \in DOMAIN cache : ~Expired(cache[k]) => k \in DOMAIN cache'
  <1> DEFINE r == job[g].room
  <1>1. PICK ok \in Outcomes(r) :
          cache' = Stored(r, [ok |-> ok, began |-> job[g].began, at |-> now])
    BY DEF Fetch
  <1> DEFINE v == [ok |-> ok, began |-> job[g].began, at |-> now]
  <1>2. ok \in BOOLEAN
    BY DEF Outcomes
  <1>3. TypeOK /\ now \in Nat /\ job[g] \in Jobs
    BY ResolverAssumption DEF IInv, TypeOK
  <1>4. r \in Rooms /\ v \in Addresses /\ v.began = job[g].began
    BY <1>2, <1>3 DEF Jobs, Addresses
  <1>5. cache' = Stored(r, v)
    BY <1>1
  <1> HIDE DEF v, r
  <1>6. /\ \A k \in DOMAIN cache' : k # r => cache'[k] = cache[k]
        /\ r \in DOMAIN cache' =>
             cache'[r] = [val |-> v, expire |-> now + Lifetime(r, v.ok)]
        /\ \A k \in DOMAIN cache : ~Expired(cache[k]) => k \in DOMAIN cache'
    BY <1>3, <1>4, <1>5, StoredShape
  <1>7. pc[g] = "fetch"
    BY DEF Fetch
  <1> QED
    BY <1>4, <1>6, <1>7 DEF r

\* A good address only leaves the cache for a fresh request of its own room
\* (ttlCache.get, ttlCache.set and its sweep, delCacheFor).
THEOREM GoodAddressesStay == Spec => NoEarlyLoss
  <1> DEFINE Keep(r) ==
        ~Expired(cache[r]) /\ r \notin DOMAIN cache' =>
          \E g \in Goroutines :
            /\ pc[g] = "delete" /\ pc'[g] = "get"
            /\ job[g].room = r
  <1>1. ASSUME IInv, [Next]_vars, NEW r \in DOMAIN cache
        PROVE  Keep(r)
    <2> SUFFICES ASSUME ~Expired(cache[r]), r \notin DOMAIN cache'
                 PROVE  \E g \in Goroutines :
                          /\ pc[g] = "delete" /\ pc'[g] = "get"
                          /\ job[g].room = r
      OBVIOUS
    <2>1. CASE \E g \in Goroutines :
                 /\ pc[g] = "delete" /\ pc'[g] = "get"
                 /\ cache' = Without(job[g].room)
      BY <2>1 DEF Without, Restrict
    <2>2. CASE \E g \in Goroutines :
                 ~Hit(job[g].room) /\ cache' = Without(job[g].room)
      BY <2>2 DEF Without, Restrict, Hit
    <2>3. ASSUME NEW g \in Goroutines, Fetch(g)
          PROVE  FALSE
      BY <1>1, <2>3, FetchStores
    <2> QED
      BY <1>1, <2>1, <2>2, <2>3, CacheSteps
  <1>2. IInv /\ [Next]_vars => [\A r \in DOMAIN cache : Keep(r)]_vars
    BY <1>1
  <1> QED
    BY <1>2, Invariant, PTL DEF Spec, NoEarlyLoss

\* In the cache of a merging platform a newer address is never replaced by one
\* whose page was requested earlier (stringFlightGroup.do, ttlCache.set).
THEOREM NewestStays == Spec => NoRollback
  <1> DEFINE Newer(r) == Merged(r) => cache'[r].val.began >= cache[r].val.began
  <1>1. ASSUME IInv, [Next]_vars, NEW r \in DOMAIN cache \cap DOMAIN cache'
        PROVE  Newer(r)
    <2> SUFFICES ASSUME Merged(r)
                 PROVE  cache'[r].val.began >= cache[r].val.began
      OBVIOUS
    <2>1. cache[r].val.began \in Nat
      BY <1>1 DEF IInv, TypeOK, Entries, Addresses
    <2>2. CASE cache'[r] = cache[r]
      BY <2>1, <2>2
    <2>3. ASSUME NEW g \in Goroutines, Fetch(g)
          PROVE  cache'[r].val.began >= cache[r].val.began
      <3>1. /\ pc[g] = "fetch" /\ job[g].began \in Nat
            /\ r # job[g].room => cache'[r] = cache[r]
            /\ r = job[g].room => cache'[r].val.began = job[g].began
        BY <1>1, <2>3, FetchStores DEF IInv, TypeOK, Jobs
      <3>2. r = job[g].room => cache[r].val.began <= job[g].began
        BY <1>1, <3>1 DEF IInv, FetchOrder
      <3> QED
        BY <2>1, <3>1, <3>2
    <2>4. CASE \E g \in Goroutines : cache' = Without(job[g].room)
      BY <1>1, <2>1, <2>4 DEF Without, Restrict
    <2> QED
      BY <1>1, <2>2, <2>3, <2>4, CacheSteps
  <1>2. IInv /\ [Next]_vars =>
          [\A r \in DOMAIN cache \cap DOMAIN cache' : Newer(r)]_vars
    BY <1>1
  <1> QED
    BY <1>2, Invariant, PTL DEF Spec, NoRollback

(***************************************************************************)
(* Refinement                                                              *)
(***************************************************************************)
\* An answer is signed after its fetch began and before it is given.
Past(v) == v.began <= v.at /\ v.at <= now

PastInv ==
  /\ \A g \in Goroutines : pc[g] \in {"close", "forget", "return"} => Past(ans[g])
  /\ \A r \in DOMAIN flights : flights[r].done => Past(flights[r].val)

LEMMA PastStep == ASSUME IInv, PastInv, [Next]_vars PROVE PastInv'
  <1> USE DEF IInv
  <1>0. now \in Nat
    BY ResolverAssumption DEF TypeOK
  <1>1. ASSUME NEW g \in Goroutines, Get(g) \/ Recheck(g) PROVE PastInv'
    <2>1. /\ UNCHANGED <<now, flights>>
          /\ \/ /\ Past(cache[job[g].room].val)
                /\ ans' = [ans EXCEPT ![g] = cache[job[g].room].val]
             \/ ans' = ans /\ pc'[g] \notin {"close", "forget", "return"}
          /\ \A h \in Goroutines \ {g} : pc'[h] = pc[h]
      BY <1>1 DEF Get, Recheck, Lookup, Hit, Goto, TypeOK, Past
    <2> QED
      BY <2>1 DEF PastInv, Past, TypeOK
  <1>2. ASSUME NEW g \in Goroutines, Do(g) PROVE PastInv'
    <2>1. /\ UNCHANGED now
          /\ \/ /\ job[g].room \in DOMAIN flights /\ flights[job[g].room].done
                /\ ans' = [ans EXCEPT ![g] = flights[job[g].room].val]
                /\ flights' = flights
             \/ /\ ans' = ans /\ pc'[g] \notin {"close", "forget", "return"}
                /\ \A r \in DOMAIN flights' : ~flights'[r].done \/ (r \in DOMAIN flights /\ flights'[r] = flights[r])
          /\ \A h \in Goroutines \ {g} : pc'[h] = pc[h]
      BY <1>2 DEF Do, Goto, TypeOK
    <2> QED
      BY <2>1 DEF PastInv, Past, TypeOK
  <1>3. ASSUME NEW g \in Goroutines, Fetch(g) PROVE PastInv'
    <2>1. /\ UNCHANGED <<now, flights>> /\ Past(ans'[g])
          /\ \A h \in Goroutines \ {g} : pc'[h] = pc[h] /\ ans'[h] = ans[h]
      BY <1>0, <1>3 DEF Fetch, Goto, TypeOK, Past, DateInv, Jobs
    <2> QED
      BY <2>1 DEF PastInv, Past, TypeOK
  <1>4. ASSUME NEW g \in Goroutines, Close(g) PROVE PastInv'
    <2>1. /\ UNCHANGED now /\ Past(ans[g])
          /\ \A h \in Goroutines : ans'[h] = ans[g] \/ (ans'[h] = ans[h] /\ (pc'[h] = pc[h] \/ h = g))
          /\ \A r \in DOMAIN flights' : r \in DOMAIN flights /\
                (flights'[r] = flights[r] \/ flights'[r].val = ans[g])
      BY <1>4 DEF Close, TypeOK, PastInv, Calls
    <2> QED
      BY <2>1, <1>4 DEF PastInv, Past, Close
  <1>5. ASSUME NEW g \in Goroutines, Forget(g) PROVE PastInv'
    <2>1. /\ UNCHANGED <<now, ans>> /\ pc[g] = "forget"
          /\ \A h \in Goroutines \ {g} : pc'[h] = pc[h]
          /\ \A r \in DOMAIN flights' : r \in DOMAIN flights /\ flights'[r] = flights[r]
      BY <1>5 DEF Forget, Goto, TypeOK, Restrict
    <2> QED
      BY <2>1 DEF PastInv, Past, TypeOK
  <1>6. ASSUME NEW g \in Goroutines, Ask(g) \/ Delete(g) \/ Cancel(g) \/ Return(g) PROVE PastInv'
    <2>1. /\ UNCHANGED <<now, flights>>
          /\ \A h \in Goroutines : \/ pc'[h] \notin {"close", "forget", "return"}
                                   \/ pc'[h] = pc[h] /\ ans'[h] = ans[h]
      BY <1>6 DEF Ask, Delete, Cancel, Return, Goto, TypeOK
    <2> QED
      BY <2>1 DEF PastInv, Past
  <1>7. CASE Tick \/ UNCHANGED vars
    <2>1. UNCHANGED <<pc, ans, flights>> /\ (now' = now \/ now' = now + 1)
      BY <1>0, <1>7 DEF Tick, vars
    <2>2. \A v \in Addresses : Past(v) => Past(v)'
      BY <1>0, <2>1 DEF Past, Addresses
    <2>3. /\ \A g \in Goroutines : ans[g] \in Addresses
          /\ \A r \in DOMAIN flights : flights[r].val \in Addresses
      BY DEF TypeOK, Calls
    <2> QED
      BY <1>0, <2>1, <2>3 DEF PastInv, Past, Addresses
  <1> QED
    BY <1>1, <1>2, <1>3, <1>4, <1>5, <1>6, <1>7 DEF Next, Progress

LEMMA PastInit == Init => PastInv
  BY DEF Init, PastInv

Reply(g) == IF pc[g] = "return" THEN ans[g] ELSE NoAddress

\* Goroutines whose answers coincide and that reach "return" together.
LEMMA AnswerStep ==
  ASSUME IInv, IInv', PastInv', now' = now, NEW S \in SUBSET Goroutines, S # {},
         \A c \in S : /\ pc[c] \notin {"idle", "return"} /\ pc'[c] = "return"
                      /\ job'[c] = job[c],
         \A c, d \in S : ans'[c] = ans'[d] /\ job[c].room = job[d].room,
         \A c \in Goroutines \ S : Request(c)' = Request(c) /\ Reply(c)' = Reply(c)
  PROVE  Service!Answer(S)
  <1>1. \A c \in S : /\ Request(c) = [phase |-> "asked", room |-> job[c].room,
                                      fresh |-> job[c].fresh, asked |-> job[c].asked]
                     /\ Request(c)' = [phase |-> "answered", room |-> job[c].room,
                                      fresh |-> job[c].fresh, asked |-> job[c].asked]
                     /\ Reply(c)' = ans'[c]
    BY DEF Request, Reply
  <1>2. PICK c \in S : TRUE
    OBVIOUS
  <1> DEFINE v == ans'[c]
  <1>3. /\ v \in Addresses /\ v.began <= v.at /\ v.at <= now /\ now \in Nat
    BY ResolverAssumption DEF IInv, TypeOK, PastInv, Past
  <1>4. v \in [ok : BOOLEAN, began : 0..now, at : 0..now]
    BY <1>3 DEF Addresses
  <1>5. \A d \in S : v \in Service!Acceptable(Request(d))
    <2> SUFFICES ASSUME NEW d \in S PROVE v \in Service!Acceptable(Request(d))
      OBVIOUS
    <2>1. job[d].room \in Rooms /\ ans'[d] = v /\ pc'[d] = "return" /\ job'[d] = job[d]
      BY <1>2 DEF IInv, TypeOK, Jobs
    <2>2. job[d].asked <= v.at + (IF v.ok THEN SuccessTTL(job[d].room) ELSE FAIL_TTL)
      BY <2>1 DEF IInv, BoundedStaleness
    <2>3. job[d].fresh => v.at >= job[d].asked
      BY <2>1 DEF IInv, FreshNotStale
    <2> HIDE DEF v
    <2> QED
      BY <1>1, <1>3, <1>4, <2>1, <2>2, <2>3 DEF Service!Acceptable
  <1> DEFINE request == [g \in Goroutines |-> Request(g)]
             answer == [g \in Goroutines |-> Reply(g)]
  <1>6. request' = [d \in Goroutines |->
                      IF d \in S THEN [request[d] EXCEPT !.phase = "answered"] ELSE request[d]]
    BY <1>1
  <1>7. answer' = [d \in Goroutines |-> IF d \in S THEN v ELSE answer[d]]
    BY <1>1, <1>2
  <1>8. /\ \A d \in S : request[d].phase = "asked"
        /\ \A d, e \in S : request[d].room = request[e].room
    BY <1>1
  <1>9. \A d \in S : v \in Service!Acceptable(request[d])
    BY <1>5
  <1> HIDE DEF v, request, answer
  <1>10. \E e \in S : \E w \in Service!Acceptable(request[e]) :
           /\ \A d \in S : w \in Service!Acceptable(request[d])
           /\ answer' = [d \in Goroutines |-> IF d \in S THEN w ELSE answer[d]]
    BY <1>2, <1>7, <1>9
  <1> QED
    BY <1>6, <1>8, <1>10 DEF Service!Answer, request, answer, Reply

\* Before it returns, nothing that happens to a goroutine shows.
Silent(c) ==
  /\ \/ pc'[c] = pc[c] /\ ans'[c] = ans[c]
     \/ {pc[c], pc'[c]} \cap {"idle", "return"} = {}
  /\ job'[c].room = job[c].room /\ job'[c].fresh = job[c].fresh
  /\ job'[c].asked = job[c].asked

LEMMA SilentStep ==
  ASSUME NEW c \in Goroutines, Silent(c)
  PROVE  Request(c)' = Request(c) /\ Reply(c)' = Reply(c)
  BY DEF Silent, Request, Reply

LEMMA Unseen ==
  ASSUME now' = now, \A c \in Goroutines : Silent(c)
  PROVE  UNCHANGED Service!vars
  <1>1. \A c \in Goroutines : Request(c)' = Request(c) /\ Reply(c)' = Reply(c)
    BY SilentStep
  <1>2. /\ [c \in Goroutines |-> Request(c)]' = [c \in Goroutines |-> Request(c)]
        /\ [c \in Goroutines |-> Reply(c)]' = [c \in Goroutines |-> Reply(c)]
    BY <1>1
  <1> QED
    BY <1>2 DEF Service!vars, Reply

\* A goroutine that returns by itself answers its own request.
LEMMA OwnAnswer ==
  ASSUME IInv, IInv', PastInv', now' = now, job' = job, NEW g \in Goroutines,
         pc[g] \notin {"idle", "return"}, pc'[g] = "return",
         \A c \in Goroutines \ {g} : Silent(c)
  PROVE  Service!Next
  <1>1. Service!Answer({g})
    BY AnswerStep, SilentStep
  <1> QED
    BY <1>1 DEF Service!Next

LEMMA Refines ==
  ASSUME IInv, IInv', PastInv', [Next]_vars
  PROVE  [Service!Next]_(Service!vars)
  <1> USE DEF IInv
  <1>1. CASE Tick
    <2>1. Service!Tick
      BY <1>1 DEF Tick, Service!Tick, Request
    <2> QED
      BY <2>1 DEF Service!Next
  <1>2. CASE UNCHANGED vars
    BY <1>2, Unseen DEF vars, Silent
  <1>3. ASSUME NEW g \in Goroutines, Ask(g)
        PROVE  Service!Next
    <2>1. PICK r \in Rooms, fresh \in BOOLEAN :
            /\ job' = [job EXCEPT ![g] = [room |-> r, fresh |-> fresh, asked |-> now,
                                          began |-> 0, watched |-> g \in Viewers]]
            /\ pc' = [pc EXCEPT ![g] = IF fresh THEN "delete" ELSE "get"]
      BY <1>3 DEF Ask, Goto
    <2>2. UNCHANGED <<now, ans>> /\ pc[g] = "idle"
      BY <1>3 DEF Ask
    <2>3. /\ Request(g)' = [phase |-> "asked", room |-> r, fresh |-> fresh, asked |-> now]
          /\ Request(g) = [phase |-> "none"]
          /\ Reply(g)' = Reply(g)
      BY <2>1, <2>2 DEF Request, Reply, TypeOK
    <2>4. \A c \in Goroutines \ {g} : Request(c)' = Request(c) /\ Reply(c)' = Reply(c)
      BY <2>1, <2>2, SilentStep DEF Silent, TypeOK
    <2> DEFINE request == [c \in Goroutines |-> Request(c)]
               reply == [c \in Goroutines |-> Reply(c)]
    <2>5. request' = [request EXCEPT ![g] =
                        [phase |-> "asked", room |-> r, fresh |-> fresh, asked |-> now]]
      BY <2>3, <2>4
    <2>6. reply' = reply
      BY <2>3, <2>4
    <2>7. request[g].phase = "none"
      BY <2>3
    <2>8. Service!Ask(g)
      <3> HIDE DEF request, reply
      <3> QED
        BY <2>2, <2>5, <2>6, <2>7 DEF Service!Ask, request, reply, Reply
    <2> QED
      BY <2>8 DEF Service!Next
  <1>4. ASSUME NEW g \in Goroutines, Return(g)
        PROVE  Service!Next
    <2>1. /\ pc[g] = "return" /\ pc' = [pc EXCEPT ![g] = "idle"]
          /\ job' = [job EXCEPT ![g] = NoJob] /\ ans' = [ans EXCEPT ![g] = NoAddress]
          /\ now' = now
      BY <1>4 DEF Return, Goto
    <2>2. /\ Request(g)' = [phase |-> "none"] /\ Request(g).phase = "answered"
          /\ Reply(g)' = NoAddress
      BY <2>1 DEF Request, Reply, TypeOK
    <2>3. \A c \in Goroutines \ {g} : Request(c)' = Request(c) /\ Reply(c)' = Reply(c)
      BY <2>1, SilentStep DEF Silent, TypeOK
    <2>4. /\ [c \in Goroutines |-> Request(c)]' =
               [[c \in Goroutines |-> Request(c)] EXCEPT ![g] = [phase |-> "none"]]
          /\ [c \in Goroutines |-> Request(c)][g].phase = "answered"
          /\ [c \in Goroutines |-> Reply(c)]' =
               [[c \in Goroutines |-> Reply(c)] EXCEPT ![g] = NoAddress]
      BY <2>2, <2>3
    <2> DEFINE request == [c \in Goroutines |-> Request(c)]
               reply == [c \in Goroutines |-> Reply(c)]
    <2>5. Service!Finish(g)
      <3>1. /\ request[g].phase = "answered" /\ now' = now
            /\ request' = [request EXCEPT ![g] = Service!None]
            /\ reply' = [reply EXCEPT ![g] = Service!NoAnswer]
        BY <2>1, <2>4 DEF Service!None, Service!NoAnswer, NoAddress
      <3> HIDE DEF request, reply
      <3> QED
        BY <3>1 DEF Service!Finish, request, reply, Reply
    <2> QED
      BY <2>5 DEF Service!Next
  <1>5. ASSUME NEW g \in Goroutines, Close(g)
        PROVE  [Service!Next]_(Service!vars)
    <2>1. PICK S \in SUBSET Goroutines : S = Waiters(job[g].room)
      BY DEF Waiters
    <2>2. /\ pc[g] = "close" /\ UNCHANGED <<now, job>>
          /\ \A c \in S : pc[c] = "wait" /\ pc'[c] = "return" /\ ans'[c] = ans[g]
                          /\ job[c].room = job[g].room
          /\ \A c \in Goroutines \ S : Silent(c)
      BY <1>5, <2>1 DEF Close, Waiters, Silent, TypeOK
    <2>3. CASE S = {}
      BY <2>2, <2>3, Unseen
    <2>4. CASE S # {}
      <3>1. \A c \in Goroutines \ S : Request(c)' = Request(c) /\ Reply(c)' = Reply(c)
        BY <2>2, SilentStep
      <3>2. Service!Answer(S)
        BY <2>2, <2>4, <3>1, AnswerStep
      <3> QED
        BY <3>2 DEF Service!Next
    <2> QED
      BY <2>3, <2>4
  <1>6. ASSUME NEW g \in Goroutines, Delete(g) \/ Cancel(g)
        PROVE  UNCHANGED Service!vars
    <2>1. now' = now /\ \A c \in Goroutines : Silent(c)
      BY <1>6 DEF Delete, Cancel, Goto, Silent, TypeOK, Jobs
    <2> QED
      BY <2>1, Unseen
  <1>7. ASSUME NEW g \in Goroutines, Get(g) \/ Do(g) \/ Recheck(g) \/ Fetch(g) \/ Forget(g)
        PROVE  [Service!Next]_(Service!vars)
    <2>1. /\ pc[g] \notin {"idle", "return"} /\ now' = now
          /\ \A c \in Goroutines \ {g} : Silent(c)
          /\ \/ pc'[g] = "return" /\ job' = job
             \/ Silent(g)
      <3>1. CASE Get(g) \/ Recheck(g)
        BY <3>1 DEF Get, Recheck, Lookup, Goto, Silent, TypeOK, Jobs
      <3>2. CASE Do(g)
        BY <3>2 DEF Do, Goto, Silent, TypeOK
      <3>3. CASE Fetch(g) \/ Forget(g)
        BY <3>3 DEF Fetch, Forget, Goto, Silent, TypeOK
      <3> QED
        BY <1>7, <3>1, <3>2, <3>3
    <2>2. CASE pc'[g] = "return" /\ job' = job
      BY <2>1, <2>2, OwnAnswer
    <2>3. CASE Silent(g)
      BY <2>1, <2>3, Unseen
    <2> QED
      BY <2>1, <2>2, <2>3
  <1> QED
    BY <1>1, <1>2, <1>3, <1>4, <1>5, <1>6, <1>7 DEF Next, Progress

\* Resolver implements AddressService but for its fairness: every request is
\* answered once, with an acceptable address (resolvePlayback, cache.go).
THEOREM ImplementsServiceSafely == Spec => Service!Init /\ [][Service!Next]_(Service!vars)
  <1>1. Init => Service!Init
    BY DEF Init, Service!Init, Service!None, Service!NoAnswer, NoAddress, Request
  <1>2. Spec => []PastInv
    <2>1. IInv /\ PastInv /\ [Next]_vars => PastInv'
      BY PastStep
    <2> QED
      BY <2>1, PastInit, Invariant, PTL DEF Spec
  <1>3. IInv /\ IInv' /\ PastInv' /\ [Next]_vars => [Service!Next]_(Service!vars)
    BY Refines
  <1> QED
    BY <1>1, <1>2, <1>3, Invariant, PTL DEF Spec
=============================================================================
