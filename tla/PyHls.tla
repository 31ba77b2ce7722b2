------------------------------- MODULE PyHls --------------------------------
(***************************************************************************)
(* The HLS half of docker/stream-proxy.py, the older service on 19091:     *)
(* start_ffmpeg, handle_hls and hls_watchdog.  It keeps the same state as  *)
(* the Go service (module Hls) but holds hls_lock for single accesses of   *)
(* the dictionary only: the watchdog decides, kills, removes the entry and *)
(* deletes the directory in separate steps, and nothing marks a start      *)
(* under way.                                                              *)
(*                                                                         *)
(* Threads are the handlers of ThreadingHTTPServer and the one watchdog.   *)
(* An exception ends a handler's request only, and the watchdog for good:  *)
(* its pc then says which one.                                             *)
(* Ages stop counting beyond the limit they are compared with.  HlsServices *)
(* states what is assumed of the constants.                                *)
(***************************************************************************)
EXTENDS Naturals, FiniteSets

CONSTANTS
  Keys,        \* platform_rid
  Handlers,    \* requests served at the same time
  Procs,       \* process identifiers, reused once nobody refers to them
  None,
  HLS_IDLE, HLS_STALE, HLS_WARMUP

\* The watchdog is a thread too: it runs start_ffmpeg itself.
Watchdog == "watchdog"
Threads == Handlers \cup {Watchdog}

VARIABLES
  hls_state,   \* the entry of each key, named by its process
  proc,        \* each process and its entry: last, started
  list,        \* age of each key's index.m3u8, or Missing
  pc, key, st  \* each thread: where it is, its key, the process it holds

vars == <<hls_state, proc, list, pc, key, st>>

Missing == HLS_STALE + 2

Entries == [running : BOOLEAN, key : Keys \cup {None},
            started : 0..(HLS_WARMUP + 1), last : 0..(HLS_IDLE + 1)]
NoProc == [running |-> FALSE, key |-> None, started |-> 0, last |-> HLS_IDLE + 1]

Labels == {"idle", "check", "resolve", "clear", "spawn", "store", "result",
           "wait", "stat", "stop idle", "stop dead", "pop idle", "pop dead", "rmtree",
          "KeyError", "OSError"}

TypeOK ==
  /\ hls_state \in [Keys -> Procs \cup {None}]
  /\ proc \in [Procs -> Entries]
  /\ list \in [Keys -> 0..Missing]
  /\ pc \in [Threads -> Labels]
  /\ key \in [Threads -> Keys]
  /\ st \in [Threads -> Procs \cup {None}]
  /\ \A h \in Handlers : pc[h] = "wait" => st[h] \in Procs

Init ==
  /\ hls_state = [k \in Keys |-> None]
  /\ proc = [p \in Procs |-> NoProc]
  /\ list = [k \in Keys |-> Missing]
  /\ pc = [t \in Threads |-> "idle"]
  /\ key = [t \in Threads |-> CHOOSE k \in Keys : TRUE]
  /\ st = [t \in Threads |-> None]

Goto(t, label) == pc' = [pc EXCEPT ![t] = label]
Alive(p) == p # None /\ proc[p].running

\* Nothing in the watchdog catches an exception, a server does in its handlers.
Raise(t, exception) == Goto(t, IF t = Watchdog THEN exception ELSE "idle")

\* hls_lock is held for one step at most, but for the two looks of Look and Stat.
LockFree == pc[Watchdog] # "stat"

(***************************************************************************)
(* start_ffmpeg                                                            *)
(***************************************************************************)
\* handle_hls
Request(h) ==
  /\ pc[h] = "idle"
  /\ \E k \in Keys : key' = [key EXCEPT ![h] = k]
  /\ Goto(h, "check")
  /\ UNCHANGED <<hls_state, proc, list, st>>

\* After start_ffmpeg a handler marks the entry it was given as used and
\* waits for its file; the watchdog ignores the result.
Use(t, p) ==
  IF t = Watchdog
    THEN /\ Goto(t, "idle") /\ st' = [st EXCEPT ![t] = None] /\ UNCHANGED proc
    ELSE /\ Goto(t, "wait") /\ st' = [st EXCEPT ![t] = p]
         /\ proc' = [proc EXCEPT ![p].last = 0]

CheckDeletes(t) ==
  LET p == hls_state[key[t]] IN
  /\ pc[t] = "check" /\ LockFree
  /\ \/ Alive(p) /\ Use(t, p) /\ UNCHANGED hls_state
     \/ /\ ~Alive(p) /\ Goto(t, "resolve")
        /\ hls_state' = [hls_state EXCEPT ![key[t]] = None]
        /\ UNCHANGED <<proc, st>>
  /\ UNCHANGED <<list, key>>
Check(t) ==
  LET p == hls_state[key[t]] IN
  /\ pc[t] = "check" /\ LockFree
  /\ \/ Alive(p) /\ Use(t, p)
     \/ ~Alive(p) /\ Goto(t, "resolve") /\ UNCHANGED <<proc, st>>
  /\ UNCHANGED <<hls_state, list, key>>

\* resolve_with_curl: no address, no ffmpeg, 502.
Resolve(t) ==
  /\ pc[t] = "resolve"
  /\ \E online \in BOOLEAN : Goto(t, IF online THEN "clear" ELSE "idle")
  /\ UNCHANGED <<hls_state, proc, list, key, st>>

Clear(t) ==
  /\ pc[t] = "clear"
  /\ list' = [list EXCEPT ![key[t]] = Missing]
  /\ Goto(t, "spawn")
  /\ UNCHANGED <<hls_state, proc, key, st>>

Unused(p) ==
  /\ ~proc[p].running
  /\ \A k \in Keys : hls_state[k] # p
  /\ \A t \in Threads : st[t] # p

\* The log is opened and Popen starts ffmpeg, or one of them raises: the
\* directory may be gone again.
Spawn(t) ==
  /\ pc[t] = "spawn"
  /\ \/ \E p \in Procs :
          /\ Unused(p)
          /\ st' = [st EXCEPT ![t] = p]
          /\ proc' = [proc EXCEPT ![p] =
                [running |-> TRUE, key |-> key[t], started |-> 0, last |-> 0]]
          /\ Goto(t, "store")
     \/ Raise(t, "OSError") /\ UNCHANGED <<st, proc>>
  /\ UNCHANGED <<hls_state, list, key>>

\* The entry is made now, so its times begin now.
Store(t) ==
  /\ pc[t] = "store" /\ LockFree
  /\ hls_state' = [hls_state EXCEPT ![key[t]] = st[t]]
  /\ proc' = [proc EXCEPT ![st[t]].started = 0, ![st[t]].last = 0]
  /\ Goto(t, "result")
  /\ UNCHANGED <<list, key, st>>

\* "return hls_state[key]", after the lock is released: whatever is there
\* now, or a KeyError.
ResultByGet(t) ==
  /\ pc[t] = "result"
  /\ Use(t, hls_state[key[t]])
  /\ UNCHANGED <<hls_state, list, key>>
Result(t) ==
  LET p == hls_state[key[t]] IN
  /\ pc[t] = "result"
  /\ \/ p # None /\ Use(t, p)
     \/ /\ p = None
        /\ Raise(t, "KeyError")
        /\ st' = [st EXCEPT ![t] = None]
        /\ UNCHANGED proc
  /\ UNCHANGED <<hls_state, list, key>>

\* The file is there, ffmpeg has ended, or 300 rounds are over.
Answer(h) ==
  /\ pc[h] = "wait"
  /\ st' = [st EXCEPT ![h] = None]
  /\ Goto(h, "idle")
  /\ UNCHANGED <<hls_state, proc, list, key>>

(***************************************************************************)
(* hls_watchdog                                                            *)
(***************************************************************************)
Idle(k) == proc[hls_state[k]].last > HLS_IDLE

\* Under the lock an entry is judged.  What follows happens after the lock
\* is released: its process is killed, the key's entry removed, and the key
\* restarted, or the directory of an idle one deleted.
Judge(k, stale) ==
  IF Idle(k) \/ ~Alive(hls_state[k]) \/ stale
    THEN /\ st' = [st EXCEPT ![Watchdog] = hls_state[k]]
         /\ Goto(Watchdog, IF Idle(k) THEN "stop idle" ELSE "stop dead")
    ELSE /\ st' = [st EXCEPT ![Watchdog] = None]
         /\ Goto(Watchdog, "idle")

\* os.path.exists(m3u), and the verdict when there is no playlist.
Look ==
  /\ pc[Watchdog] = "idle"
  /\ \E k \in Keys :
       /\ hls_state[k] # None
       /\ key' = [key EXCEPT ![Watchdog] = k]
       /\ \/ list[k] # Missing /\ Goto(Watchdog, "stat") /\ UNCHANGED st
          \/ list[k] = Missing /\ Judge(k, proc[hls_state[k]].started > HLS_WARMUP)
  /\ UNCHANGED <<hls_state, proc, list>>

\* os.path.getmtime(m3u): the lock does not protect the file, which a request
\* that starts the key anew may have removed since.
Stat ==
  /\ pc[Watchdog] = "stat"
  /\ \/ list[key[Watchdog]] # Missing
        /\ Judge(key[Watchdog], list[key[Watchdog]] > HLS_STALE)
     \/ list[key[Watchdog]] = Missing /\ Raise(Watchdog, "OSError") /\ UNCHANGED st
  /\ UNCHANGED <<hls_state, proc, list, key>>

\* stop_process
Stop ==
  /\ pc[Watchdog] \in {"stop idle", "stop dead"}
  /\ proc' = [proc EXCEPT ![st[Watchdog]].running = FALSE]
  /\ Goto(Watchdog, IF pc[Watchdog] = "stop idle" THEN "pop idle" ELSE "pop dead")
  /\ UNCHANGED <<hls_state, list, key, st>>

\* hls_state.pop(key, None) removes whatever entry the key has by now.
Pop ==
  /\ pc[Watchdog] \in {"pop idle", "pop dead"}
  /\ hls_state' = [hls_state EXCEPT ![key[Watchdog]] = None]
  /\ st' = [st EXCEPT ![Watchdog] = None]
  /\ Goto(Watchdog, IF pc[Watchdog] = "pop idle" THEN "rmtree" ELSE "check")
  /\ UNCHANGED <<proc, list, key>>

Rmtree ==
  /\ pc[Watchdog] = "rmtree"
  /\ list' = [list EXCEPT ![key[Watchdog]] = Missing]
  /\ Goto(Watchdog, "idle")
  /\ UNCHANGED <<hls_state, proc, key, st>>

(***************************************************************************)
(* ffmpeg (external) and the clock                                         *)
(***************************************************************************)
Playlist(p) ==
  /\ proc[p].running
  /\ list' = [list EXCEPT ![proc[p].key] = 0]
  /\ UNCHANGED <<hls_state, proc, pc, key, st>>

Exit(p) ==
  /\ proc[p].running
  /\ proc' = [proc EXCEPT ![p] = [NoProc EXCEPT !.last = proc[p].last]]
  /\ UNCHANGED <<hls_state, list, pc, key, st>>

Older(age, limit) == IF age > limit THEN age ELSE age + 1

Tick ==
  /\ proc' = [p \in Procs |-> [proc[p] EXCEPT
        !.started = IF proc[p].running THEN Older(@, HLS_WARMUP) ELSE @,
        !.last = Older(@, HLS_IDLE)]]
  /\ list' = [k \in Keys |->
        IF list[k] = Missing THEN Missing ELSE Older(list[k], HLS_STALE)]
  /\ UNCHANGED <<hls_state, pc, key, st>>

(***************************************************************************)
(* The service                                                             *)
(***************************************************************************)
\* Steps that leave the directories as they are.
Aside ==
  \/ \E h \in Handlers : Request(h) \/ Answer(h)
  \/ \E t \in Threads : Check(t) \/ Resolve(t) \/ Spawn(t) \/ Store(t) \/ Result(t)
  \/ Look \/ Stat \/ Stop \/ Pop
  \/ \E p \in Procs : Exit(p)

Step ==
  \/ Aside
  \/ \E t \in Threads : Clear(t)
  \/ Rmtree
  \/ \E p \in Procs : Playlist(p)

Next == Step \/ Tick

Spec == Init /\ [][Next]_vars

(***************************************************************************)
(* Properties                                                              *)
(***************************************************************************)
\* The watchdog never meets the KeyError at the end of start_ffmpeg, which
\* would end it and with it every restart: what it has just stored nobody else
\* removes.  (The files it looks at are not so safe: see Stat.)
NoKeyError == pc[Watchdog] # "KeyError"

\* Inductive with TypeOK: who is about to store has an ffmpeg, and what the
\* watchdog stored is replaced at most until it reads it again.
HasProcess == \A t \in Threads : pc[t] = "store" => st[t] \in Procs
StoredStays == pc[Watchdog] = "result" => hls_state[key[Watchdog]] # None

\* "ffmpeg is reclaimed after five idle minutes" (stream-proxy.py:8): the
\* watchdog knows every ffmpeg that runs, except one that a thread is about
\* to store.
EveryFfmpegIsWatched ==
  \A p \in Procs : proc[p].running =>
    \/ \E k \in Keys : hls_state[k] = p
    \/ \E t \in Threads : pc[t] = "store" /\ st[t] = p
    \/ pc[Watchdog] \in {"stop idle", "stop dead"} /\ st[Watchdog] = p
=============================================================================
