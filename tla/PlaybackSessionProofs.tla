----------------------- MODULE PlaybackSessionProofs ------------------------
(***************************************************************************)
(* What a player is sent, for any lifetime, any limits and any duration:    *)
(* one status line, one FLV header, no retry on top of a stream, and no     *)
(* more than maxConsecFail fruitless connections in a row.                  *)
(***************************************************************************)
EXTENDS PlaybackSession, TLAPS

\* What clientWrote stands for, and where it decides.
WrittenInv ==
  /\ clientWrote \in BOOLEAN /\ cancelled \in BOOLEAN /\ prefetching \in BOOLEAN
  /\ pc \in Labels
  /\ attempt \in {1, 2}
  /\ clientWrote => responses = 1 /\ flvHeaders = 1
  /\ ~clientWrote =>
       /\ reconn = 0 /\ flvHeaders = 0
       /\ ~prefetching /\ prefetched = NoEntry
       /\ IF pc = "done" THEN responses = 1 \/ (responses = 0 /\ cancelled)
                         ELSE responses = 0
  /\ pc \in {"pump", "backoff", "resync"} => clientWrote
  /\ pc \in {"resolve", "retry"} => ~clientWrote
  /\ pc \in {"loop", "resync", "open", "backoff"} /\ clientWrote => reconn # 0

\* How the failures in a row count the fruitless connections.
BarrenInv ==
  /\ reconn \in Nat /\ consecFail \in Nat /\ barren \in Nat /\ wrote \in BOOLEAN
  /\ pc \in {"resolve", "loop", "resync", "open", "backoff"} =>
       barren <= consecFail /\ consecFail < MaxConsecFail
  /\ pc = "pump" =>
       /\ consecFail < MaxConsecFail
       /\ barren <= consecFail + 1
       /\ wrote => barren = 0
  /\ barren <= MaxConsecFail

LEMMA InitInv == Init => WrittenInv /\ BarrenInv
  <1> SUFFICES ASSUME Init PROVE WrittenInv /\ BarrenInv
    OBVIOUS
  <1>1. WrittenInv
    BY DEF Init, WrittenInv, Labels
  <1>2. BarrenInv
    <2>1. /\ 0 <= consecFail /\ 0 < MaxConsecFail /\ 0 <= MaxConsecFail
          /\ 0 \in Nat
      BY SessionAssumption DEF Init
    <2>2. barren = 0 /\ consecFail = 0 /\ reconn = 0 /\ pc = "resolve" /\ wrote = FALSE
      BY DEF Init
    <2> QED
      BY <2>1, <2>2 DEF BarrenInv
  <1> QED
    BY <1>1, <1>2

LEMMA WrittenStep == WrittenInv /\ BarrenInv /\ [Next]_vars => WrittenInv'
  <1> SUFFICES ASSUME WrittenInv, BarrenInv, [Next]_vars PROVE WrittenInv'
    OBVIOUS
  <1> USE DEF WrittenInv, Labels
  <1>1. CASE Resolve
    BY <1>1 DEF Resolve, Goto, Respond, prefetch
  <1>2. CASE Returned
    BY <1>2 DEF Returned, Goto, Respond, prefetch
  <1>3. CASE Retry
    <2>1. /\ pc = "retry" /\ ~clientWrote /\ responses = 0 /\ flvHeaders = 0
          /\ ~prefetching
      BY <1>3 DEF Retry
    <2>2. /\ clientWrote' = FALSE /\ reconn' = 0 /\ attempt' = 2
          /\ prefetched' = NoEntry
          /\ UNCHANGED <<cancelled, prefetching, flvHeaders>>
      BY <1>3 DEF Retry
    <2>3. \/ pc' = "done" /\ responses' = 1
          \/ pc' = "loop" /\ responses' = 0
      BY <1>3, <2>1 DEF Retry, Goto, Respond
    <2> QED
      BY <2>1, <2>2, <2>3
  <1>4. CASE Loop
    BY <1>4 DEF Loop, Goto, Return, history, BarrenInv
  <1>5. CASE Resync
    BY <1>5 DEF Resync, Goto, Return, history, prefetch
  <1>6. CASE OpenFails
    <2>1. UNCHANGED <<cancelled, attempt, clientWrote, prefetching, prefetched,
                      responses, flvHeaders>>
          /\ pc = "open"
      BY <1>6 DEF OpenFails, prefetch
    <2>2. \/ reconn = 0 /\ reconn' = 0 /\ pc' = "returned"
          \/ reconn # 0 /\ reconn' = reconn + 1 /\ pc' \in {"returned", "backoff"}
      BY <1>6 DEF OpenFails, Goto, Return
    <2>3. reconn # 0 => reconn + 1 # 0
      BY DEF BarrenInv
    <2> QED
      BY <2>1, <2>2, <2>3
  <1>13. CASE BadRequest
    BY <1>13 DEF BadRequest, Goto, Return, history, prefetch
  <1>7. CASE OpenStream
    <2>1. /\ clientWrote' = TRUE /\ UNCHANGED <<cancelled, attempt>>
          /\ pc' \in {"pump", "returned"}
      BY <1>7 DEF OpenStream, Goto, Return
    <2>2. prefetching' \in BOOLEAN
      BY <1>7 DEF OpenStream, StartPrefetch
    <2>3. responses' = 1
      BY <1>7 DEF OpenStream, Respond
    <2>4. flvHeaders' = 1
      <3>1. CASE clientWrote
        BY <1>7, <3>1 DEF OpenStream, WrittenInv
      <3>2. CASE ~clientWrote
        BY <1>7, <3>2 DEF OpenStream
      <3> QED
        BY <3>1, <3>2
    <2> QED
      BY <2>1, <2>2, <2>3, <2>4
  <1>8. CASE Backoff
    BY <1>8 DEF Backoff, Goto, Return, history, prefetch
  <1>9. CASE WriteTag
    BY <1>9 DEF WriteTag, prefetch
  <1>10. CASE ClientClosed \/ UpstreamEnds
    <2>1. UNCHANGED <<cancelled, attempt, clientWrote, prefetching, prefetched,
                      responses, flvHeaders>>
          /\ pc = "pump" /\ clientWrote
      BY <1>10 DEF ClientClosed, UpstreamEnds, history, prefetch
    <2>2. \/ pc' = "returned"
          \/ pc' \in {"loop", "backoff"} /\ reconn' = reconn + 1
      BY <1>10 DEF ClientClosed, UpstreamEnds, Goto, Return
    <2>3. reconn + 1 # 0
      BY DEF BarrenInv
    <2> QED
      BY <2>1, <2>2, <2>3
  <1>11. CASE PrefetchEnds
    BY <1>11 DEF PrefetchEnds, history, session
  <1>12. CASE PlayerLeaves \/ Tick \/ UNCHANGED vars
    <2>1. CASE PlayerLeaves
      BY <2>1 DEF PlayerLeaves, history, session, prefetch
    <2>2. CASE Tick
      BY <2>2 DEF Tick, history, session, prefetch
    <2>3. CASE UNCHANGED vars
      BY <2>3 DEF vars, history, session, prefetch
    <2> QED
      BY <1>12, <2>1, <2>2, <2>3
  <1> QED
    BY <1>1, <1>2, <1>3, <1>4, <1>5, <1>6, <1>7, <1>8, <1>9, <1>10, <1>11, <1>12,
       <1>13 DEF Next, Handler

LEMMA BarrenStep == WrittenInv /\ BarrenInv /\ [Next]_vars => BarrenInv'
  <1> SUFFICES ASSUME WrittenInv, BarrenInv, [Next]_vars PROVE BarrenInv'
    OBVIOUS
  <1>0. MaxConsecFail \in Nat /\ MaxConsecFail > 0 /\ MaxReconn \in Nat
    BY SessionAssumption
  <1> USE <1>0 DEF BarrenInv
  <1>1. CASE Resolve
    BY <1>1 DEF Resolve, Goto
  <1>2. CASE Returned
    BY <1>2 DEF Returned, Goto
  <1>3. CASE Retry
    BY <1>3 DEF Retry, Goto
  <1>4. CASE Loop
    BY <1>4 DEF Loop, Goto, Return, history
  <1>5. CASE Resync
    BY <1>5 DEF Resync, Goto, Return, history
  <1>6. CASE OpenFails
    BY <1>6 DEF OpenFails, Connected, Goto, Return
  <1>13. CASE BadRequest
    BY <1>13 DEF BadRequest, Goto, Return, history
  <1>7. CASE OpenStream
    <2>1. /\ barren' = barren + 1 /\ wrote' = FALSE /\ pc = "open"
          /\ UNCHANGED <<reconn, consecFail>>
          /\ pc' \in {"pump", "returned"}
      BY <1>7 DEF OpenStream, Connected, Goto, Return
    <2>2. /\ barren' \in Nat /\ barren' <= consecFail + 1
          /\ barren' <= MaxConsecFail /\ consecFail < MaxConsecFail
      BY <2>1
    <2> QED
      BY <2>1, <2>2
  <1>8. CASE Backoff
    BY <1>8 DEF Backoff, Goto, Return, history
  <1>9. CASE WriteTag
    BY <1>9 DEF WriteTag
  <1>10. CASE ClientClosed \/ UpstreamEnds
    BY <1>10 DEF ClientClosed, UpstreamEnds, Goto, Return, history
  <1>11. CASE PrefetchEnds
    BY <1>11 DEF PrefetchEnds, history, session
  <1>12. CASE PlayerLeaves \/ Tick \/ UNCHANGED vars
    BY <1>12 DEF PlayerLeaves, Tick, vars, history, session
  <1> QED
    BY <1>1, <1>2, <1>3, <1>4, <1>5, <1>6, <1>7, <1>8, <1>9, <1>10, <1>11, <1>12,
       <1>13 DEF Next, Handler

\* The two invariants hold in every reachable state (ServeHTTP, openAndServe).
THEOREM Invariant == Spec => [](WrittenInv /\ BarrenInv)
  BY InitInv, WrittenStep, BarrenStep, PTL DEF Spec

\* The player is sent at most one status line, and one exactly unless it left
\* (ServeHTTP, openAndServe).
THEOREM OneStatusLine == Spec => []OneResponse
  <1>1. WrittenInv /\ BarrenInv => OneResponse
    <2> SUFFICES ASSUME WrittenInv PROVE OneResponse
      OBVIOUS
    <2>1. CASE clientWrote
      BY <2>1 DEF WrittenInv, OneResponse
    <2>2. CASE ~clientWrote
      <3>1. responses = 0 \/ responses = 1
        BY <2>2 DEF WrittenInv
      <3>2. responses <= 1
        BY <3>1
      <3> QED
        BY <2>2, <3>2 DEF WrittenInv, OneResponse
    <2> QED
      BY <2>1, <2>2
  <1> QED
    BY <1>1, Invariant, PTL

\* A stream fed by any number of connections has one FLV header (openAndServe).
THEOREM OneFLVHeader == Spec => []OneHeader
  <1>1. WrittenInv /\ BarrenInv => OneHeader
    <2> SUFFICES ASSUME WrittenInv PROVE OneHeader
      OBVIOUS
    <2>1. flvHeaders = 0 \/ flvHeaders = 1
      BY DEF WrittenInv
    <2>2. flvHeaders <= 1
      BY <2>1
    <2> QED
      BY <2>2 DEF WrittenInv, OneHeader
  <1> QED
    BY <1>1, Invariant, PTL

\* The fresh retry starts with no prefetch goroutine and nothing written
\* (ServeHTTP).
THEOREM RetryIsClean == Spec => []CleanRetry
  <1>1. WrittenInv /\ BarrenInv => CleanRetry
    BY DEF WrittenInv, CleanRetry
  <1> QED
    BY <1>1, Invariant, PTL

\* At most maxConsecFail connections in a row bring the player nothing
\* (openAndServe).
THEOREM BoundedFailures == Spec => []GivesUp
  <1>1. WrittenInv /\ BarrenInv => GivesUp
    BY DEF BarrenInv, GivesUp
  <1> QED
    BY <1>1, Invariant, PTL

(***************************************************************************)
(* Addresses.  Unless two resolutions shared an answer, each answer has a   *)
(* number above all before it, so the one in the prefetch slot differs from *)
(* the one in use and from all that were.                                   *)
(***************************************************************************)
Ready == pc = "open" \/ (pc = "loop" /\ reconn = 0)

AddressTypes ==
  /\ now \in 0..MaxTime
  /\ url \in URLs /\ latest \in URLs /\ prefetched.url \in URLs
  /\ prefetched.expire \in Nat
  /\ ask \in Asks /\ pfAsk \in Asks
  /\ used \subseteq Nat
  /\ shared \in BOOLEAN /\ reused \in BOOLEAN /\ stopped \in BOOLEAN

Dated ==
  /\ prefetched.url # NoURL => prefetched.expire = prefetched.url.signed + TTL
  /\ pc = "loop" /\ reconn = 0 => now <= url.signed + CacheTTL

Fresh ==
  /\ ~reused
  /\ url.id <= latest.id
  /\ \A id \in used : id <= latest.id
  /\ Ready => url.id \notin used
  /\ prefetched.url # NoURL =>
       /\ prefetched.url.id <= latest.id
       /\ prefetched.url.id # url.id
       /\ prefetched.url.id \notin used

AddressInv == AddressTypes /\ Dated /\ (~shared => Fresh)

LEMMA AddressInit == Init => AddressInv
  <1> SUFFICES ASSUME Init PROVE AddressInv
    OBVIOUS
  <1>1. /\ CacheTTL \in 0..MaxTime /\ 0 \in 0..MaxTime /\ CacheTTL <= 0 + CacheTTL
        /\ 0 <= 0 /\ MaxTime \in Nat /\ CacheTTL \in Nat
    BY SessionAssumption
  <1>2. AddressTypes
    BY <1>1 DEF Init, AddressTypes, URLs, Asks, NoEntry, NoURL
  <1>3. Dated /\ Fresh
    BY <1>1 DEF Init, Dated, Fresh, Ready, NoEntry, NoURL
  <1> QED
    BY <1>2, <1>3 DEF AddressInv

LEMMA Nothing ==
  NoURL \in URLs /\ NoURL.id = 0 /\ NoEntry.url = NoURL /\ NoEntry.expire \in Nat
  BY SessionAssumption DEF NoURL, NoEntry, URLs

\* What every resolution of the session may be given.
LEMMA Answered ==
  ASSUME AddressTypes, NEW a \in Asks, NEW fresh \in BOOLEAN,
         NEW u \in Answers(a, fresh), HandOut(u)
  PROVE  /\ u \in URLs /\ latest' \in URLs /\ latest.id <= latest'.id
         /\ shared' \in BOOLEAN
         /\ u # NoURL => now <= u.signed + CacheTTL
         /\ fresh /\ u # NoURL => u.signed = now
         /\ ~shared' => ~shared
         /\ ~shared' /\ u # NoURL => latest.id < u.id /\ u.id <= latest'.id
  <1>1. MaxTime \in Nat /\ TTL \in Nat /\ CacheTTL \in Nat
    BY SessionAssumption
  <1>2. /\ u \in URLs
        /\ u # NoURL => now <= u.signed + CacheTTL
        /\ fresh /\ u # NoURL => u.signed = now
    <2>1. CASE u = NoURL
      BY <1>1, <2>1 DEF NoURL, URLs
    <2>2. CASE u = [id |-> latest.id + 1, signed |-> now]
      BY <1>1, <2>2 DEF AddressTypes, URLs
    <2>3. CASE Shareable(a) /\ u = latest
      BY <1>1, <2>3 DEF AddressTypes, URLs, Shareable
    <2>4. CASE ~fresh /\ \E t \in 0..now : t + CacheTTL >= now /\ u = [id |-> latest.id + 1, signed |-> t]
      BY <1>1, <2>4 DEF AddressTypes, URLs
    <2> QED
      BY <2>1, <2>2, <2>3, <2>4 DEF Answers
  <1>3. latest' \in URLs /\ latest.id <= latest'.id /\ u.id <= latest'.id
    BY <1>2 DEF HandOut, AddressTypes, URLs
  <1> QED
    BY <1>1, <1>2, <1>3 DEF HandOut, AddressTypes, URLs

LEMMA AddressStep ==
  WrittenInv /\ BarrenInv /\ AddressInv /\ [Next]_vars => AddressInv'
  <1> SUFFICES ASSUME WrittenInv, BarrenInv, AddressInv, [Next]_vars PROVE AddressInv'
    OBVIOUS
  <1>0. /\ MaxTime \in Nat /\ TTL \in Nat /\ CacheTTL \in Nat /\ reconn \in Nat
        /\ AskNow \in Asks
    BY SessionAssumption DEF AskNow, Asks, AddressInv, AddressTypes, URLs, BarrenInv
  <1> USE <1>0 DEF AddressInv
  <1>1. CASE Resolve
    <2>0. PICK fresh \in BOOLEAN : \E u \in Answers(ask, fresh) :
            /\ HandOut(u) /\ url' = u
            /\ pc' = "done" \/ (pc' = "loop" /\ u # NoURL)
      BY <1>1 DEF Resolve, Goto
    <2>1. PICK u \in Answers(ask, fresh) :
            /\ HandOut(u) /\ url' = u
            /\ pc' = "done" \/ (pc' = "loop" /\ u # NoURL)
      BY <2>0
    <2>2. /\ UNCHANGED <<now, ask, reconn, stopped, prefetched, pfAsk, used, reused>>
          /\ prefetched = NoEntry
      BY <1>1 DEF Resolve, prefetch, WrittenInv
    <2>a. /\ u \in URLs /\ latest' \in URLs /\ latest.id <= latest'.id /\ shared' \in BOOLEAN
          /\ u # NoURL => now <= u.signed + CacheTTL
          /\ ~shared' => ~shared /\ (u # NoURL => latest.id < u.id /\ u.id <= latest'.id)
      BY <2>1, Answered DEF AddressTypes
    <2>3. AddressTypes'
      BY <2>1, <2>2, <2>a, Nothing DEF AddressTypes
    <2>4. Dated'
      BY <2>1, <2>2, <2>a, Nothing DEF AddressTypes, Dated
    <2>5. ~shared' => Fresh'
      BY <2>1, <2>2, <2>a, Nothing DEF AddressTypes, Fresh, Ready, URLs
    <2> QED
      BY <2>3, <2>4, <2>5
  <1>2. CASE Retry
    <2>1. PICK u \in Answers(ask, TRUE) :
            /\ HandOut(u) /\ url' = u
            /\ pc' = "done" \/ (pc' = "loop" /\ u # NoURL)
      BY <1>2 DEF Retry, Goto
    <2>2. /\ prefetched' = NoEntry /\ stopped' = FALSE
          /\ UNCHANGED <<now, ask, pfAsk, used, reused>>
      BY <1>2 DEF Retry
    <2>a. /\ u \in URLs /\ latest' \in URLs /\ latest.id <= latest'.id /\ shared' \in BOOLEAN
          /\ u # NoURL => u.signed = now
          /\ ~shared' => ~shared /\ (u # NoURL => latest.id < u.id /\ u.id <= latest'.id)
      BY <2>1, Answered DEF AddressTypes
    <2>3. AddressTypes'
      BY <2>1, <2>2, <2>a, Nothing DEF AddressTypes, NoURL, URLs
    <2>4. Dated'
      BY <2>1, <2>2, <2>a, Nothing DEF AddressTypes, Dated
    <2>5. ~shared' => Fresh'
      BY <2>1, <2>2, <2>a, Nothing DEF AddressTypes, Fresh, Ready, URLs
    <2> QED
      BY <2>3, <2>4, <2>5
  <1>3. CASE Loop
    <2>1. /\ UNCHANGED <<now, latest, shared, used, reused, reconn, pfAsk>>
          /\ pc = "loop" /\ ask' \in {ask, AskNow} /\ stopped' \in {stopped, TRUE}
      BY <1>3 DEF Loop, Return, history
    <2>2. \/ pc' \in {"returned", "resync"} /\ url' = url /\ prefetched' \in {prefetched, NoEntry}
          \/ pc' = "open" /\ reconn = 0 /\ UNCHANGED <<url, prefetched>>
          \/ /\ pc' = "open" /\ prefetched' = NoEntry
             /\ url' = prefetched.url /\ prefetched.url # NoURL
      BY <1>3 DEF Loop, Return, Goto, Emptied, Taken
    <2>3. AddressTypes'
      BY <2>1, <2>2, Nothing DEF AddressTypes
    <2>4. Dated'
      BY <2>1, <2>2, Nothing DEF AddressTypes, Dated
    <2>5. ~shared' => Fresh'
      BY <2>1, <2>2, Nothing DEF AddressTypes, Fresh, Ready
    <2> QED
      BY <2>3, <2>4, <2>5
  <1>4. CASE Resync
    <2>1. PICK u \in Answers(ask, TRUE) :
            /\ HandOut(u)
            /\ \/ pc' = "returned" /\ url' = url
               \/ pc' = "open" /\ url' = u /\ u # NoURL
      BY <1>4 DEF Resync, Goto, Return
    <2>2. /\ UNCHANGED <<now, ask, reconn, prefetched, pfAsk, used, reused>>
          /\ stopped' \in {stopped, TRUE}
      BY <1>4 DEF Resync, Return, prefetch, history
    <2>a. /\ u \in URLs /\ latest' \in URLs /\ latest.id <= latest'.id /\ shared' \in BOOLEAN
          /\ u # NoURL => u.signed = now
          /\ ~shared' => ~shared /\ (u # NoURL => latest.id < u.id /\ u.id <= latest'.id)
      BY <2>1, Answered DEF AddressTypes
    <2>3. AddressTypes'
      BY <2>1, <2>2, <2>a, Nothing DEF AddressTypes
    <2>4. Dated'
      BY <2>1, <2>2 DEF Dated
    <2>5. ~shared' => Fresh'
      BY <2>1, <2>2, <2>a, Nothing DEF AddressTypes, Fresh, Ready, URLs
    <2> QED
      BY <2>3, <2>4, <2>5
  <1>5. CASE OpenFails \/ OpenStream
    <2>1. /\ UNCHANGED <<now, ask, url, latest, shared, prefetched>>
          /\ pc = "open" /\ pc' \in {"returned", "backoff", "pump"}
          /\ stopped' \in {stopped, TRUE} /\ pfAsk' \in {pfAsk, AskNow}
          /\ used' = used \cup {url.id} /\ reused' = (reused \/ url.id \in used)
      BY <1>5 DEF OpenFails, OpenStream, Connected, StartPrefetch, Goto, Return, prefetch
    <2>2. AddressTypes'
      BY <2>1 DEF AddressTypes, URLs
    <2>3. Dated'
      BY <2>1 DEF Dated
    <2>4. ~shared' => Fresh'
      BY <2>1 DEF Fresh, Ready, AddressTypes
    <2> QED
      BY <2>2, <2>3, <2>4
  <1>6. CASE PrefetchEnds
    <2>1. PICK u \in Answers(pfAsk, TRUE) :
            HandOut(u) /\ prefetched' = [url |-> u, expire |-> now + TTL]
      BY <1>6 DEF PrefetchEnds
    <2>2. UNCHANGED <<now, pc, ask, url, reconn, stopped, pfAsk, used, reused>>
      BY <1>6 DEF PrefetchEnds, session, history
    <2>a. /\ u \in URLs /\ latest' \in URLs /\ latest.id <= latest'.id /\ shared' \in BOOLEAN
          /\ u # NoURL => u.signed = now
          /\ ~shared' => ~shared /\ (u # NoURL => latest.id < u.id /\ u.id <= latest'.id)
      BY <2>1, Answered DEF AddressTypes
    <2>3. AddressTypes'
      BY <2>1, <2>2, <2>a, Nothing DEF AddressTypes
    <2>4. Dated'
      BY <2>1, <2>2, <2>a, Nothing DEF AddressTypes, Dated
    <2>5. ~shared' => Fresh'
      BY <2>1, <2>2, <2>a, Nothing DEF AddressTypes, Fresh, Ready, URLs
    <2> QED
      BY <2>3, <2>4, <2>5
  <1>7. CASE Returned
    <2>1. /\ UNCHANGED <<now, url, latest, shared, prefetched, pfAsk, used, reused, stopped>>
          /\ ask' \in {ask, AskNow} /\ pc' \in {"done", "retry"}
      BY <1>7 DEF Returned, Goto, prefetch
    <2> QED
      BY <2>1 DEF AddressTypes, Dated, Fresh, Ready
  <1>8. CASE UpstreamEnds
    <2>1. /\ UNCHANGED <<now, ask, url, latest, shared, prefetched, pfAsk, used, reused>>
          /\ stopped' \in {stopped, TRUE}
          /\ \/ pc' = "returned"
             \/ pc' \in {"loop", "backoff"} /\ reconn' = reconn + 1
      BY <1>8 DEF UpstreamEnds, Goto, Return, prefetch, history
    <2>2. reconn + 1 # 0
      OBVIOUS
    <2> QED
      BY <2>1, <2>2 DEF AddressTypes, Dated, Fresh, Ready
  <1>9. CASE \/ BadRequest \/ Backoff \/ WriteTag \/ ClientClosed \/ PlayerLeaves \/ Tick \/ UNCHANGED vars
    <2>1. UNCHANGED <<ask, url, latest, shared, prefetched, pfAsk, used, reused, reconn>>
      BY <1>9 DEF BadRequest, Backoff, WriteTag, ClientClosed, PlayerLeaves, Tick, vars, session, prefetch, history
    <2>2. stopped' \in {stopped, TRUE}
      BY <1>9 DEF BadRequest, Backoff, WriteTag, ClientClosed, PlayerLeaves, Tick, vars, session, Return
    <2>3. /\ now' \in 0..MaxTime
          /\ now' # now => pc' = pc /\ pc # "loop"
      BY <1>9 DEF BadRequest, Backoff, WriteTag, ClientClosed, PlayerLeaves, Tick, vars, AddressTypes
    <2>4. \/ pc' = pc \/ pc' = "returned" \/ (pc' = "loop" /\ pc = "backoff")
      BY <1>9 DEF BadRequest, Backoff, WriteTag, ClientClosed, PlayerLeaves, Tick, vars, Goto, Return
    <2>5. pc = "backoff" => reconn # 0
      BY DEF WrittenInv
    <2> QED
      BY <2>1, <2>2, <2>3, <2>4, <2>5 DEF AddressTypes, Dated, Fresh, Ready
  <1> QED
    BY <1>1, <1>2, <1>3, <1>4, <1>5, <1>6, <1>7, <1>8, <1>9 DEF Next, Handler

\* All three invariants (ServeHTTP, openAndServe, startPrefetch).
THEOREM AddressesSafe == Spec => [](WrittenInv /\ BarrenInv /\ AddressInv)
  BY InitInv, WrittenStep, BarrenStep, AddressInit, AddressStep, PTL DEF Spec

\* Each address is connected to once, unless resolutions shared it
\* (takeFreshPrefetch, startPrefetch).
THEOREM ConsumedOnceHolds == Spec => []ConsumedOnce
  <1>1. AddressInv => ConsumedOnce
    BY DEF AddressInv, Fresh, ConsumedOnce
  <1> QED
    BY <1>1, AddressesSafe, PTL

\* No address is connected to after its lifetime, prefetched or not
\* (takeFreshPrefetch).
THEOREM ConnectsInTimeHolds == Spec => ConnectsInTime
  <1>1. WrittenInv /\ BarrenInv /\ AddressInv /\ [Next]_vars =>
          [pc # "open" /\ pc' = "open" =>
             now <= url'.signed + (IF reconn = 0 THEN CacheTTL ELSE TTL)]_vars
    <2> SUFFICES ASSUME AddressInv, WrittenInv, Next, pc # "open", pc' = "open"
                 PROVE  now <= url'.signed + (IF reconn = 0 THEN CacheTTL ELSE TTL)
      BY DEF vars
    <2>0. MaxTime \in Nat /\ TTL \in Nat /\ CacheTTL \in Nat
      BY SessionAssumption
    <2>1. CASE Loop
      <3>1. \/ reconn = 0 /\ url' = url /\ pc = "loop"
            \/ /\ reconn # 0 /\ url' = prefetched.url /\ prefetched.url # NoURL
               /\ now < prefetched.expire
        BY <2>1 DEF Loop, Goto, Return, Taken
      <3> QED
        BY <2>0, <3>1 DEF AddressInv, AddressTypes, Dated, URLs
    <2>2. CASE Resync
      <3>1. PICK u \in Answers(ask, TRUE) : HandOut(u) /\ url' = u /\ u # NoURL
        BY <2>2 DEF Resync, Goto, Return
      <3>2. u.signed = now
        BY <3>1, Answered DEF AddressInv, AddressTypes
      <3> QED
        BY <2>0, <3>1, <3>2 DEF AddressInv, AddressTypes
    <2>3. CASE ~(Loop \/ Resync)
      BY <2>3 DEF Next, Handler, Resolve, Returned, Retry, BadRequest, OpenFails, OpenStream,
         Backoff, WriteTag, ClientClosed, UpstreamEnds, PrefetchEnds, PlayerLeaves, Tick, Goto, Return
    <2> QED
      BY <2>1, <2>2, <2>3
  <1> QED
    BY <1>1, AddressesSafe, PTL DEF Spec, ConnectsInTime

(***************************************************************************)
(* Counters: maxReconn is looked at before a connection, maxConsecFail      *)
(* after it.                                                               *)
(***************************************************************************)
CountInv ==
  /\ consecFail <= MaxConsecFail
  /\ reconn <= MaxReconn + 1
  /\ pc \in {"resync", "open", "pump"} => reconn <= MaxReconn

LEMMA CountInit == Init => CountInv
  BY SessionAssumption DEF Init, CountInv

LEMMA CountStep == WrittenInv /\ BarrenInv /\ CountInv /\ [Next]_vars => CountInv'
  <1> SUFFICES ASSUME WrittenInv, BarrenInv, CountInv, [Next]_vars PROVE CountInv'
    OBVIOUS
  <1>0. /\ MaxReconn \in Nat /\ MaxConsecFail \in Nat
        /\ reconn \in Nat /\ consecFail \in Nat
        /\ pc \in {"open", "pump"} => consecFail < MaxConsecFail
    BY SessionAssumption DEF BarrenInv
  <1> USE <1>0 DEF CountInv
  <1>1. CASE Retry
    BY <1>1 DEF Retry, Goto
  <1>2. CASE Loop
    BY <1>2 DEF Loop, Goto, Return
  <1>3. CASE OpenFails
    BY <1>3 DEF OpenFails, Goto, Return
  <1>4. CASE UpstreamEnds
    BY <1>4 DEF UpstreamEnds, Goto, Return
  <1>5. CASE ~(Retry \/ Loop \/ OpenFails \/ UpstreamEnds)
    <2>1. UNCHANGED <<reconn, consecFail>>
      BY <1>5 DEF Next, Handler, Resolve, Returned, Resync, BadRequest, OpenStream, Backoff, WriteTag,
         ClientClosed, PrefetchEnds, PlayerLeaves, Tick, vars, session
    <2>2. pc' \in {"resync", "open", "pump"} => pc \in {"resync", "open", "pump"}
      BY <1>5 DEF Next, Handler, Resolve, Returned, Resync, BadRequest, OpenStream, Backoff, WriteTag,
         ClientClosed, PrefetchEnds, PlayerLeaves, Tick, vars, Goto, Return
    <2> QED
      BY <2>1, <2>2
  <1> QED
    BY <1>1, <1>2, <1>3, <1>4, <1>5

\* The types of the session and the limits of its counters (openAndServe).
THEOREM TypeCorrect == Spec => []TypeOK
  <1>1. WrittenInv /\ BarrenInv /\ AddressInv /\ CountInv => TypeOK
    <2> SUFFICES ASSUME WrittenInv, BarrenInv, AddressInv, CountInv PROVE TypeOK
      OBVIOUS
    <2>1. /\ responses \in Nat /\ flvHeaders \in Nat
      BY DEF WrittenInv
    <2>2. reconn \in 0..(MaxReconn + 1) /\ consecFail \in 0..MaxConsecFail
      BY SessionAssumption DEF BarrenInv, CountInv
    <2> QED
      BY <2>1, <2>2 DEF TypeOK, WrittenInv, BarrenInv, AddressInv, AddressTypes
  <1> QED
    BY <1>1, AddressesSafe, CountInit, CountStep, PTL DEF Spec
=============================================================================
