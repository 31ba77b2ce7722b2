----------------------------- MODULE IptvFilter -----------------------------
(***************************************************************************)
(* Which lines of an IPTV list survive the probe of docker/filter_iptv.py: *)
(* verify_channel_candidates goes through the list in rounds.  A round     *)
(* takes the next line of every channel that has too few good ones, and    *)
(* verify_entries probes it in a pool of threads, equal addresses once.    *)
(*                                                                         *)
(* A line is its index, a channel and an address are values; a probe of a  *)
(* live address may succeed or fail, the same one differently next time.   *)
(* IptvBridge runs it on what a bridge has read, and says what its         *)
(* constants are.                                                          *)
(***************************************************************************)
EXTENDS Naturals, FiniteSets

CONSTANTS
  Size,       \* lines of the upstream list
  Channels,
  Keys,
  Channel,    \* the normalised name of each line
  Key,        \* the address and options of each line
  Limit,      \* urls_per_channel
  Workers     \* verify_workers

Lines == 1..Size

VARIABLES
  pc,
  entries,                \* the lines left by reject_reason and the channel scope
  positions, successes,   \* of each channel: lines taken, good ones
  accepted,               \* good lines
  failures,               \* how many lines were not
  batch,                  \* the lines of the round
  waiting, running,       \* addresses in the pool
  results                 \* addresses that passed in this round

vars == <<pc, entries, positions, successes, accepted, failures, batch, waiting, running, results>>
pool == <<waiting, running, results>>

LinesOf(c) == {i \in entries : Channel[i] = c}
CountOf(c) == Cardinality(LinesOf(c))

Fresh ==
  /\ positions' = [c \in Channels |-> 0]
  /\ successes' = [c \in Channels |-> 0]
  /\ accepted' = {} /\ failures' = 0 /\ batch' = {}
  /\ waiting' = {} /\ running' = {} /\ results' = {}

Init ==
  /\ pc = "idle" /\ entries = {}
  /\ positions = [c \in Channels |-> 0]
  /\ successes = [c \in Channels |-> 0]
  /\ accepted = {} /\ failures = 0 /\ batch = {}
  /\ waiting = {} /\ running = {} /\ results = {}

Start(candidates) == pc = "idle" /\ pc' = "build" /\ entries' = candidates /\ Fresh

\* Everything here is local to one call.
Reset == pc' = "idle" /\ entries' = {} /\ Fresh

\* The line a channel is to try next: as many of its lines lie before it
\* as it has taken.
IsNext(i) ==
  Cardinality({j \in LinesOf(Channel[i]) : j < i}) = positions[Channel[i]]

\* Channels with enough good lines, or without further ones, sit out.
HungryByTries(c) == positions[c] < Limit /\ positions[c] < CountOf(c)
Hungry(c) == successes[c] < Limit /\ positions[c] < CountOf(c)

Build ==
  LET next == {i \in entries : Hungry(Channel[i]) /\ IsNext(i)} IN
  /\ pc = "build"
  /\ batch' = next
  /\ positions' = [c \in Channels |->
       positions[c] + Cardinality(next \cap LinesOf(c))]
  /\ waiting' = {Key[i] : i \in next}
  /\ results' = {}
  /\ pc' = IF next = {} THEN "done" ELSE "probe"
  /\ UNCHANGED <<entries, successes, accepted, failures, running>>

Submit ==
  /\ pc = "probe"
  /\ Cardinality(running) < Workers
  /\ \E k \in waiting :
       /\ waiting' = waiting \ {k}
       /\ running' = running \cup {k}
  /\ UNCHANGED <<pc, entries, positions, successes, accepted, failures, batch, results>>

\* ffmpeg_probe: one frame decoded, or an error or the timeout.
Probed ==
  /\ pc = "probe"
  /\ \E k \in running :
       /\ running' = running \ {k}
       /\ results' \in {results, results \cup {k}}
  /\ UNCHANGED <<pc, entries, positions, successes, accepted, failures, batch, waiting>>

\* When the pool is empty every line of the round is judged.
Good == {i \in batch : Key[i] \in results}

Collect ==
  /\ pc = "probe" /\ waiting = {} /\ running = {}
  /\ accepted' = accepted \cup Good
  /\ successes' = [c \in Channels |->
       successes[c] + Cardinality(Good \cap LinesOf(c))]
  /\ failures' = failures + Cardinality(batch \ Good)
  /\ batch' = {}
  /\ pc' = "build"
  /\ UNCHANGED <<entries, positions, pool>>

Round == Build \/ Submit \/ Probed \/ Collect

(***************************************************************************)
(* Properties                                                              *)
(***************************************************************************)
\* In the end a channel has its share of lines, or has tried them all.
ShareOrExhausted ==
  pc = "done" => \A c \in Channels :
    Cardinality(accepted \cap LinesOf(c)) = Limit \/ positions[c] = CountOf(c)
=============================================================================
