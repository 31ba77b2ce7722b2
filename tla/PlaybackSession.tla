-------------------------- MODULE PlaybackSession ---------------------------
(***************************************************************************)
(* One player's request to the stream proxy: proxyHandler.ServeHTTP and     *)
(* openAndServe of proxy.go with the goroutine that resolves the next       *)
(* address while a connection lasts, the player leaving at any moment, and  *)
(* CDN connections that fail, break or last.                                *)
(*                                                                         *)
(* Resolver stands behind the calls of resolve: what they may answer, and   *)
(* when the address was signed, is what is proved there (Answers below).    *)
(* What a connection carries is the business of FlvResume: here it matters  *)
(* only whether the player got a tag from it.                               *)
(***************************************************************************)
EXTENDS Naturals

CONSTANTS
  CacheTTL,        \* how long the resolver keeps an address, in clock ticks
  TTL,             \* playbackTTL of the platform: how long a prefetched one counts
  MaxReconn,       \* maxReconn (600)
  MaxConsecFail,   \* maxConsecFail (3)
  MaxTime          \* bound on the clock

\* Equal for Huya and Douyu; Douyin's are 60 s (resolve.go:624) and 30 s.
ASSUME SessionAssumption ==
  /\ TTL \in Nat \ {0} /\ CacheTTL \in Nat
  /\ MaxReconn \in Nat \ {0}
  /\ MaxConsecFail \in Nat \ {0}
  /\ MaxTime \in Nat /\ MaxTime >= TTL /\ MaxTime >= CacheTTL

VARIABLES
  now,
  cancelled,     \* r.Context() is done: the player left
  pc,            \* where ServeHTTP stands
  attempt,       \* 1: first openAndServe; 2: the one after the fresh retry
  ask,           \* the resolution the handler waits for
  url,           \* rawURL
  reconn, consecFail, clientWrote,   \* of openAndServe
  wrote,         \* sw.written > 0 on the connection being pumped
  stopped,       \* openAndServe returned: its context is cancelled
  prefetched,    \* the entry kept for the next connection
  prefetching,   \* a prefetch goroutine is running
  pfAsk,         \* the resolution it waits for
  latest,        \* the last address handed out
  responses,     \* history: status lines sent to the player
  flvHeaders,    \* history: FLV headers sent to the player
  barren,        \* history: connections opened since the player last got a tag
  used,          \* history: addresses connected to, by number
  shared,        \* history: two resolutions of this session shared an address
  reused         \* history: an address was connected to twice

session == <<attempt, ask, url, reconn, consecFail, clientWrote, wrote, stopped>>
prefetch == <<prefetched, prefetching, pfAsk>>
history == <<responses, flvHeaders, barren, used, reused>>
vars == <<now, cancelled, pc, session, prefetch, latest, shared, history>>

NoURL   == [id |-> 0, signed |-> 0]
URLs    == [id : Nat, signed : 0..MaxTime]
Asks    == [ticket : Nat, at : 0..MaxTime]
NoEntry == [url |-> NoURL, expire |-> 0]
Labels  == {"resolve", "loop", "resync", "open", "pump", "backoff", "returned",
            "retry", "done"}

(***************************************************************************)
(* resolvePlayback.  "" and an offline test stream are treated alike by     *)
(* every caller: NoURL.  A fresh answer was signed at the moment it is      *)
(* returned, and may be the one another resolution in flight returns too; a *)
(* cached one may be as old as its lifetime allows.                         *)
(***************************************************************************)
AskNow == [ticket |-> latest.id, at |-> now]

Shareable(a) == latest.id > a.ticket /\ latest.signed = now

Answers(a, fresh) ==
  {NoURL}
  \cup {[id |-> latest.id + 1, signed |-> now]}
  \cup (IF Shareable(a) THEN {latest} ELSE {})
  \cup (IF fresh \/ a.at # now THEN {}
        ELSE {[id |-> latest.id + 1, signed |-> t] :
                t \in {t \in 0..now : t + CacheTTL >= now}})

\* Record an answer: whether it is a new address or one already handed out.
HandOut(u) ==
  /\ latest' = IF u.id > latest.id THEN u ELSE latest
  /\ shared' = (shared \/ (u # NoURL /\ u.id <= latest.id))

Goto(label) == pc' = label

Respond == responses' = responses + 1

(***************************************************************************)
(* ServeHTTP                                                               *)
(***************************************************************************)

\* The first resolution; its failure is answered with 404, unless the player
\* has left.
Resolve ==
  /\ pc = "resolve"
  /\ \E fresh \in BOOLEAN : \E u \in Answers(ask, fresh) :
       /\ HandOut(u)
       /\ url' = u
       /\ \/ cancelled /\ Goto("done") /\ UNCHANGED responses
          \/ ~cancelled /\ u = NoURL /\ Goto("done") /\ Respond
          \/ ~cancelled /\ u # NoURL /\ Goto("loop") /\ UNCHANGED responses
  /\ UNCHANGED <<now, cancelled, attempt, ask, reconn, consecFail, clientWrote,
                 wrote, stopped, prefetch, flvHeaders, barren, used, reused>>

\* openAndServe has returned clientWrote (every "return true" follows a
\* write): a stream ends the request, a first failure is retried with a fresh
\* address, a second one answered with 502.
Returned ==
  /\ pc = "returned"
  /\ \/ /\ clientWrote \/ cancelled
        /\ Goto("done")
        /\ UNCHANGED <<ask, responses>>
     \/ /\ ~clientWrote /\ ~cancelled /\ attempt = 1
        /\ Goto("retry")
        /\ ask' = AskNow
        /\ UNCHANGED responses
     \/ /\ ~clientWrote /\ ~cancelled /\ attempt = 2
        /\ Goto("done")
        /\ Respond
        /\ UNCHANGED ask
  /\ UNCHANGED <<now, cancelled, attempt, url, reconn, consecFail, clientWrote,
                 wrote, stopped, prefetch, latest, shared, flvHeaders, barren,
                 used, reused>>

\* The fresh retry: a second openAndServe, with state of its own.
Retry ==
  /\ pc = "retry"
  /\ \E u \in Answers(ask, TRUE) :
       /\ HandOut(u)
       /\ url' = u
       /\ IF u = NoURL THEN Goto("done") /\ Respond
                       ELSE Goto("loop") /\ UNCHANGED responses
  /\ attempt' = 2
  /\ reconn' = 0 /\ consecFail' = 0 /\ clientWrote' = FALSE /\ stopped' = FALSE
  /\ prefetched' = NoEntry
  /\ barren' = 0
  /\ UNCHANGED <<now, cancelled, ask, wrote, prefetching, pfAsk, flvHeaders,
                 used, reused>>

(***************************************************************************)
(* openAndServe                                                            *)
(***************************************************************************)

\* takeFreshPrefetch: the entry is emptied whether or not it still counts.
TakenAnyAge == prefetched.url
Taken == IF now < prefetched.expire THEN prefetched.url ELSE NoURL

EmptiedNever == prefetched
Emptied == NoEntry

\* return: the deferred stop() cancels the context of the prefetch goroutine.
Return ==
  /\ Goto("returned")
  /\ stopped' = TRUE

\* The head of the loop: give up, connect to the prefetched address, or
\* resolve one.
LoopUnbounded ==
  /\ pc = "loop"
  /\ \/ /\ cancelled
        /\ Return
        /\ UNCHANGED <<ask, url, prefetched>>
     \/ /\ ~cancelled /\ reconn = 0
        /\ Goto("open")
        /\ UNCHANGED <<ask, url, prefetched, stopped>>
     \/ /\ ~cancelled /\ reconn > 0
        /\ ask' = AskNow /\ Goto("resync")
        /\ UNCHANGED <<url, prefetched, stopped>>
  /\ UNCHANGED <<now, cancelled, attempt, reconn, consecFail, clientWrote,
                 wrote, prefetching, pfAsk, latest, shared, history>>
Loop ==
  /\ pc = "loop"
  /\ \/ /\ cancelled \/ reconn > MaxReconn
        /\ Return
        /\ UNCHANGED <<ask, url, prefetched>>
     \/ /\ ~cancelled /\ reconn = 0
        /\ Goto("open")
        /\ UNCHANGED <<ask, url, prefetched, stopped>>
     \/ /\ ~cancelled /\ reconn \in 1..MaxReconn
        /\ prefetched' = Emptied
        /\ IF Taken # NoURL
             THEN url' = Taken /\ Goto("open") /\ UNCHANGED ask
             ELSE ask' = AskNow /\ Goto("resync") /\ UNCHANGED url
        /\ UNCHANGED stopped
  /\ UNCHANGED <<now, cancelled, attempt, reconn, consecFail, clientWrote,
                 wrote, prefetching, pfAsk, latest, shared, history>>

\* The synchronous resolution of a reconnection.
Resync ==
  /\ pc = "resync"
  /\ \E u \in Answers(ask, TRUE) :
       /\ HandOut(u)
       /\ IF u = NoURL THEN Return /\ UNCHANGED url
                       ELSE url' = u /\ Goto("open") /\ UNCHANGED stopped
  /\ UNCHANGED <<now, cancelled, attempt, ask, reconn, consecFail, clientWrote,
                 wrote, prefetch, history>>

\* What an attempt to connect records of the address it uses.
Connected ==
  /\ used' = used \cup {url.id}
  /\ reused' = (reused \/ url.id \in used)
  /\ barren' = barren + 1

\* startPrefetch
StartPrefetch ==
  IF prefetching \/ cancelled
    THEN UNCHANGED <<prefetching, pfAsk>>
    ELSE prefetching' = TRUE /\ pfAsk' = AskNow

\* The connection fails, has a status other than 200, or is no FLV stream.
\* On the first connection that ends openAndServe, later it counts as one of
\* the consecutive failures.
OpenFailsForever ==
  /\ pc = "open"
  /\ Connected
  /\ IF reconn = 0
       THEN Return /\ UNCHANGED <<reconn, consecFail>>
       ELSE /\ reconn' = reconn + 1
            /\ Goto("backoff") /\ UNCHANGED <<stopped, consecFail>>
  /\ UNCHANGED <<now, cancelled, attempt, ask, url, clientWrote, wrote, prefetch,
                 latest, shared, responses, flvHeaders>>
OpenFails ==
  /\ pc = "open"
  /\ Connected
  /\ IF reconn = 0
       THEN Return /\ UNCHANGED <<reconn, consecFail>>
       ELSE /\ reconn' = reconn + 1
            /\ consecFail' = consecFail + 1
            /\ IF consecFail' >= MaxConsecFail
                 THEN Return
                 ELSE Goto("backoff") /\ UNCHANGED stopped
  /\ UNCHANGED <<now, cancelled, attempt, ask, url, clientWrote, wrote, prefetch,
                 latest, shared, responses, flvHeaders>>

\* No request can be made of the address: the loop ends at once, on a reconnection
\* too, and no connection is counted.
BadRequest ==
  /\ pc = "open"
  /\ Return
  /\ UNCHANGED <<now, cancelled, attempt, ask, url, reconn, consecFail,
                 clientWrote, wrote, prefetch, latest, shared, history>>

\* An FLV stream: the status line and the FLV header are sent once, the next
\* address is resolved in the background, and tags are pumped - unless the
\* write of the header fails.
OpenStreamForgets ==
  /\ pc = "open"
  /\ Connected
  /\ Respond
  /\ flvHeaders' = IF reconn = 0 THEN flvHeaders + 1 ELSE flvHeaders
  /\ StartPrefetch
  /\ wrote' = FALSE
  /\ Goto("pump") /\ UNCHANGED <<stopped, clientWrote>>
  /\ UNCHANGED <<now, cancelled, attempt, ask, url, reconn, consecFail,
                 prefetched, latest, shared>>
OpenStream ==
  /\ pc = "open"
  /\ Connected
  /\ clientWrote' = TRUE
  /\ IF clientWrote THEN UNCHANGED responses ELSE Respond
  /\ flvHeaders' = IF reconn = 0 THEN flvHeaders + 1 ELSE flvHeaders
  /\ StartPrefetch
  /\ wrote' = FALSE
  /\ \/ Goto("pump") /\ UNCHANGED stopped
     \/ reconn = 0 /\ Return
  /\ UNCHANGED <<now, cancelled, attempt, ask, url, reconn, consecFail,
                 prefetched, latest, shared>>

\* pump writes a tag.
WriteTag ==
  /\ pc = "pump"
  /\ wrote' = TRUE
  /\ barren' = 0
  /\ UNCHANGED <<now, cancelled, pc, attempt, ask, url, reconn, consecFail,
                 clientWrote, stopped, prefetch, latest, shared, responses,
                 flvHeaders, used, reused>>

\* A write to the player fails.
ClientClosed ==
  /\ pc = "pump"
  /\ Return
  /\ UNCHANGED <<now, cancelled, attempt, ask, url, reconn, consecFail,
                 clientWrote, wrote, prefetch, latest, shared, history>>

\* The CDN ends the connection, or nothing arrived for
\* STREAM_READ_IDLE_SECONDS, or the player's context ended the read.
UpstreamEndsAlone ==
  /\ pc = "pump"
  /\ ~cancelled
  /\ Return
  /\ UNCHANGED <<now, cancelled, attempt, ask, url, reconn, consecFail,
                 clientWrote, wrote, prefetch, latest, shared, history>>
UpstreamEnds ==
  /\ pc = "pump"
  /\ IF reconn >= MaxReconn
       THEN Return /\ UNCHANGED <<reconn, consecFail>>
       ELSE /\ reconn' = reconn + 1
            /\ consecFail' = IF wrote THEN 0 ELSE consecFail + 1
            /\ IF consecFail' >= MaxConsecFail THEN Return
               ELSE /\ UNCHANGED stopped
                    /\ Goto(IF prefetched.url # NoURL /\ now < prefetched.expire
                              THEN "loop" ELSE "backoff")
  /\ UNCHANGED <<now, cancelled, attempt, ask, url, clientWrote, wrote, prefetch,
                 latest, shared, history>>

\* waitPlayback: the delay passes, or the player leaves; the head of the loop
\* looks at the context again.
Backoff ==
  /\ pc = "backoff"
  /\ IF cancelled THEN Return ELSE Goto("loop") /\ UNCHANGED stopped
  /\ UNCHANGED <<now, cancelled, attempt, ask, url, reconn, consecFail,
                 clientWrote, wrote, prefetch, latest, shared, history>>

(***************************************************************************)
(* The prefetch goroutine, the player and the clock                        *)
(***************************************************************************)

\* The resolution returns, with "" when the context ended, and its answer is
\* kept, replacing what was there.
PrefetchEnds ==
  /\ prefetching
  /\ \E u \in Answers(pfAsk, TRUE) :
       /\ HandOut(u)
       /\ prefetched' = [url |-> u, expire |-> now + TTL]
  /\ prefetching' = FALSE
  /\ UNCHANGED <<now, cancelled, pc, session, pfAsk, history>>

PlayerLeaves ==
  /\ ~cancelled
  /\ pc # "done"
  /\ cancelled' = TRUE
  /\ UNCHANGED <<now, pc, session, prefetch, latest, shared, history>>

\* Time passes while the handler waits for somebody else.
Tick ==
  /\ now < MaxTime
  /\ pc \in {"resolve", "resync", "retry", "open", "pump", "backoff"}
  /\ now' = now + 1
  /\ UNCHANGED <<cancelled, pc, session, prefetch, latest, shared, history>>

\* The clock starts late enough for the first address to be an old one.
Init ==
  /\ now = CacheTTL
  /\ cancelled = FALSE
  /\ pc = "resolve"
  /\ attempt = 1
  /\ ask = [ticket |-> 0, at |-> CacheTTL]
  /\ url = NoURL
  /\ reconn = 0 /\ consecFail = 0 /\ clientWrote = FALSE /\ wrote = FALSE
  /\ stopped = FALSE
  /\ prefetched = NoEntry /\ prefetching = FALSE
  /\ pfAsk = [ticket |-> 0, at |-> CacheTTL]
  /\ latest = NoURL
  /\ responses = 0 /\ flvHeaders = 0 /\ barren = 0
  /\ used = {} /\ shared = FALSE /\ reused = FALSE

\* The handler's steps that nothing but the scheduler delays.
Handler ==
  \/ Resolve \/ Returned \/ Retry \/ Loop \/ Resync
  \/ BadRequest \/ OpenFails \/ OpenStream \/ Backoff

Next ==
  \/ Handler
  \/ WriteTag \/ ClientClosed \/ UpstreamEnds
  \/ PrefetchEnds
  \/ PlayerLeaves
  \/ Tick

Spec == Init /\ [][Next]_vars

\* Resolutions and attempts to connect have timeouts; a stream may go on for
\* ever, but not once its context has ended.
FairSpec ==
  /\ Spec
  /\ WF_vars(Handler)
  /\ WF_vars(cancelled /\ UpstreamEnds)
  /\ WF_vars(PrefetchEnds)

-----------------------------------------------------------------------------
(***************************************************************************)
(* Properties                                                              *)
(***************************************************************************)

\* Types and the ranges of the counters, maxReconn and maxConsecFail included.
TypeOK ==
  /\ now \in 0..MaxTime
  /\ {cancelled, clientWrote, wrote, stopped, prefetching, shared, reused}
       \subseteq BOOLEAN
  /\ pc \in Labels
  /\ attempt \in {1, 2}
  /\ {ask, pfAsk} \subseteq Asks
  /\ {url, latest, prefetched.url} \subseteq URLs
  /\ prefetched.expire \in Nat
  /\ reconn \in 0..(MaxReconn + 1)
  /\ consecFail \in 0..MaxConsecFail
  /\ {responses, flvHeaders, barren} \subseteq Nat
  /\ used \subseteq Nat

\* The player gets one status line, never an error after the stream began,
\* and always one if it is still there when the handler ends.
OneResponse ==
  /\ responses <= 1
  /\ pc = "done" /\ ~cancelled => responses = 1
  /\ clientWrote => responses = 1

\* However many connections feed it, the player's stream has one FLV header.
OneHeader ==
  /\ flvHeaders <= 1
  /\ clientWrote => flvHeaders = 1

\* The second attempt starts with nothing left of the first: no goroutine that
\* could put an address into its prefetch slot, nothing written.
CleanRetry ==
  pc = "retry" => ~prefetching /\ prefetched = NoEntry /\ flvHeaders = 0

\* No more than maxConsecFail connections in a row bring the player nothing.
GivesUp == barren <= MaxConsecFail

\* An address is only connected to within its lifetime (docs/configuration.md:186):
\* the first one within the cache's, that of a reconnection within playbackTTL,
\* also when it waited in the prefetch slot.
ConnectsInTime ==
  [][pc # "open" /\ pc' = "open" =>
       now <= url'.signed + (IF reconn = 0 THEN CacheTTL ELSE TTL)]_vars

\* As long as no two resolutions of the session shared an answer, no address is
\* connected to twice: the prefetched one is consumed by its first use.
ConsumedOnce == ~shared => ~reused

\* When the player leaves, the handler and its prefetch goroutine end.
LeavingEndsAll ==
  cancelled ~> pc = "done" /\ ~prefetching

=============================================================================
