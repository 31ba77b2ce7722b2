------------------------------ MODULE Prewarm -------------------------------
(***************************************************************************)
(* maybePrewarmPlatform of m3u.go: whoever loads a list of channels starts *)
(* a pass in the background that resolves the first channels of each group *)
(* with a few workers, at most one pass of a platform at a time and none   *)
(* within five minutes (Gap) of the start of the last.                     *)
(***************************************************************************)
EXTENDS Naturals, Sequences, SequencesExt

CONSTANTS
  Platforms,
  Catalogs,               \* the lists of channels that may be loaded
  Resolvers,              \* PREWARM_WORKERS: the goroutines of a pass
  PREWARM_PER_GROUP, PREWARM_MAX_CHANNELS,
  NoRid,                  \* the empty room number
  Gap

ASSUME GapAssumption == Gap \in Nat \ {0}

VARIABLES
  running,    \* prewarmRunning
  since,      \* time since prewarmLast, counted up to Gap
  queue,      \* candidates the pass has not handed out
  doing       \* the room each worker resolves

prewarmVars == <<running, since, queue, doing>>

Nothing == [p \in Platforms |-> [w \in Resolvers |-> NoRid]]

PrewarmInit ==
  /\ running = [p \in Platforms |-> FALSE]
  /\ since = [p \in Platforms |-> Gap]
  /\ queue = [p \in Platforms |-> <<>>]
  /\ doing = Nothing

\* prewarmCandidates: an entry is a room and its group.
Candidates(entries) ==
  LET Add(chosen, e) ==
        IF e.rid = NoRid \/ Len(chosen) >= PREWARM_MAX_CHANNELS
           \/ Len(SelectSeq(chosen, LAMBDA c : c.group = e.group)) >= PREWARM_PER_GROUP
        THEN chosen ELSE Append(chosen, e)
  IN  FoldLeft(Add, <<>>, entries)

MaybePrewarmAgain(p, entries) ==
  /\ since[p] >= Gap /\ Candidates(entries) # <<>>
  /\ running' = [running EXCEPT ![p] = TRUE]
  /\ since' = [since EXCEPT ![p] = 0]
  /\ queue' = [queue EXCEPT ![p] = Candidates(entries)]
  /\ UNCHANGED doing
MaybePrewarm(p, entries) ==
  /\ ~running[p] /\ since[p] >= Gap /\ Candidates(entries) # <<>>
  /\ running' = [running EXCEPT ![p] = TRUE]
  /\ since' = [since EXCEPT ![p] = 0]
  /\ queue' = [queue EXCEPT ![p] = Candidates(entries)]
  /\ UNCHANGED doing

\* A worker receives a room, and has resolved it (see Resolver).
Take(p, w) ==
  /\ queue[p] # <<>> /\ doing[p][w] = NoRid
  /\ doing' = [doing EXCEPT ![p][w] = Head(queue[p]).rid]
  /\ queue' = [queue EXCEPT ![p] = Tail(@)]
  /\ UNCHANGED <<running, since>>
Resolved(p, w) ==
  /\ doing[p][w] # NoRid
  /\ doing' = [doing EXCEPT ![p][w] = NoRid]
  /\ UNCHANGED <<running, since, queue>>

\* All workers are done.
Idle(p) == queue[p] = <<>> /\ \A w \in Resolvers : doing[p][w] = NoRid
EndPassSilently(p) == running[p] /\ Idle(p) /\ UNCHANGED prewarmVars
EndPass(p) ==
  /\ running[p] /\ Idle(p)
  /\ running' = [running EXCEPT ![p] = FALSE]
  /\ UNCHANGED <<since, queue, doing>>

Pass == \E p \in Platforms : EndPass(p) \/ \E w \in Resolvers : Take(p, w) \/ Resolved(p, w)

Minute ==
  /\ \E p \in Platforms : since[p] < Gap
  /\ since' = [p \in Platforms |-> IF since[p] < Gap THEN since[p] + 1 ELSE Gap]
  /\ UNCHANGED <<running, queue, doing>>

PrewarmCrash ==
  /\ running' = [p \in Platforms |-> FALSE]
  /\ since' = [p \in Platforms |-> Gap]
  /\ queue' = [p \in Platforms |-> <<>>]
  /\ doing' = Nothing

(***************************************************************************)
(* Properties                                                              *)
(***************************************************************************)
\* A pass starts (and since with it) only when all that the pass before it began
\* is over, also when that took longer than five minutes, and not within five
\* minutes of its start: never more than PREWARM_WORKERS resolve for a platform.
OnePassAtATime ==
  [][\A p \in Platforms : since'[p] < since[p] => since[p] = Gap /\ Idle(p)]_prewarmVars

\* Every pass ends and lets the next one start, however its resolutions go.
PassEnds == \A p \in Platforms : running[p] ~> ~running[p]
=============================================================================
