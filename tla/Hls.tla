-------------------------------- MODULE Hls ---------------------------------
(***************************************************************************)
(* The HLS half of proxy.go: one ffmpeg per channel, started by the first  *)
(* request, watched by hlsWatchdog, which reaps the processes nobody asks  *)
(* for and restarts the dead or stuck ones.                                *)
(*                                                                         *)
(* A worker is a goroutine: a Viewer runs handleHLS, a Restarter runs the  *)
(* startFFmpeg that the watchdog spawned.  What the code does between      *)
(* hlsMu.Lock and hlsMu.Unlock is one step.  Times are kept as ages, which *)
(* stop counting one tick beyond the limit they are compared with, so that *)
(* the clock needs no bound.  A channel's directory is abstracted to the   *)
(* process that wrote it, whether it holds segments and a playlist, and    *)
(* the age of the playlist.                                                *)
(***************************************************************************)
EXTENDS Naturals, FiniteSets, Functions

CONSTANTS
  Channels,    \* the keys of hlsState, platform_rid
  Viewers,     \* requests served at the same time
  Restarters,  \* restarts under way at the same time
  Procs,       \* process identifiers, reused once nobody refers to them
  None,        \* nil
  IDLE,        \* 300 s without a request, in ticks
  STALE,       \* 25 s without an update of the playlist
  WARMUP       \* 45 s without a first playlist

Workers == Viewers \cup Restarters

ASSUME HlsAssumption ==
  /\ {IDLE, STALE, WARMUP} \subseteq Nat
  /\ Viewers \cap Restarters = {}
  /\ None \notin Procs \cup Workers \cup Channels
  /\ Channels # {}

VARIABLES
  hlsState,     \* the map of the channels' processes
  hlsStarting,  \* the worker that is starting a channel: its ready channel
  proc,         \* every hlsProc
  dir,          \* the directory of each channel
  pc,           \* where each worker stands
  chan,         \* the channel each worker works for
  file,         \* what each viewer asked for
  st,           \* the hlsProc each worker holds
  asked         \* age of the last request of each channel (history)

vars == <<hlsState, hlsStarting, proc, dir, pc, chan, file, st, asked>>

Labels == {"idle", "enter", "join", "joined", "resolve", "clear", "launch",
           "publish", "file", "segments", "read"}

\* Between the insertion into hlsStarting and the deferred publication.
Starting == {"resolve", "clear", "launch", "publish"}

HlsProcs == [running : BOOLEAN, chan : Channels \cup {None},
             started : 0..(WARMUP + 1), last : 0..(IDLE + 1)]
Dirs == [by : Procs \cup {None}, segments : BOOLEAN, list : BOOLEAN,
         age : 0..(STALE + 1)]

NoFiles == [by |-> None, segments |-> FALSE, list |-> FALSE, age |-> 0]
NoProc  == [running |-> FALSE, chan |-> None, started |-> 0, last |-> IDLE + 1]

\* Every value has its type, and no nil hlsProc is dereferenced by handleHLS
\* after startFFmpeg returned one.
TypeOK ==
  /\ hlsState \in [Channels -> Procs \cup {None}]
  /\ hlsStarting \in [Channels -> Workers \cup {None}]
  /\ proc \in [Procs -> HlsProcs]
  /\ dir \in [Channels -> Dirs]
  /\ pc \in [Workers -> Labels]
  /\ chan \in [Workers -> Channels]
  /\ file \in [Workers -> {"index", "segment"}]
  /\ st \in [Workers -> Procs \cup {None}]
  /\ asked \in [Channels -> 0..(IDLE + 1)]
  /\ \A w \in Workers : pc[w] \in {"file", "segments", "read"} => st[w] \in Procs

Init ==
  /\ hlsState = [k \in Channels |-> None]
  /\ hlsStarting = [k \in Channels |-> None]
  /\ proc = [p \in Procs |-> NoProc]
  /\ dir = [k \in Channels |-> NoFiles]
  /\ pc = [w \in Workers |-> "idle"]
  /\ chan = [w \in Workers |-> CHOOSE k \in Channels : TRUE]
  /\ file = [w \in Workers |-> "index"]
  /\ st = [w \in Workers |-> None]
  /\ asked = [k \in Channels |-> IDLE + 1]

Goto(w, label) == pc' = [pc EXCEPT ![w] = label]

\* hlsProcDone
Done(p) == ~proc[p].running

(***************************************************************************)
(* handleHLS, its first critical section: a request for a file of a        *)
(* channel takes the channel's process, whatever its state, and marks it   *)
(* as used.                                                                *)
(***************************************************************************)
AskUnmarked(v) ==
  /\ pc[v] = "idle"
  /\ \E k \in Channels, f \in {"index", "segment"} :
       /\ chan' = [chan EXCEPT ![v] = k]
       /\ file' = [file EXCEPT ![v] = f]
       /\ st' = [st EXCEPT ![v] = hlsState[k]]
       /\ asked' = [asked EXCEPT ![k] = 0]
       /\ Goto(v, IF hlsState[k] # None THEN "file" ELSE "enter")
  /\ UNCHANGED <<hlsState, hlsStarting, proc, dir>>
Ask(v) ==
  /\ pc[v] = "idle"
  /\ \E k \in Channels, f \in {"index", "segment"} :
       /\ chan' = [chan EXCEPT ![v] = k]
       /\ file' = [file EXCEPT ![v] = f]
       /\ st' = [st EXCEPT ![v] = hlsState[k]]
       /\ asked' = [asked EXCEPT ![k] = 0]
       /\ \/ /\ hlsState[k] # None
             /\ proc' = [proc EXCEPT ![hlsState[k]].last = 0]
             /\ Goto(v, "file")
          \/ /\ hlsState[k] = None
             /\ Goto(v, "enter")
             /\ UNCHANGED proc
  /\ UNCHANGED <<hlsState, hlsStarting, dir>>

(***************************************************************************)
(* startFFmpeg                                                             *)
(***************************************************************************)
\* Back in handleHLS with a process, or with nil and a 502; a restarter is
\* done either way.
ReturnTo(w, p) ==
  /\ st' = [st EXCEPT ![w] = IF w \in Viewers THEN p ELSE None]
  /\ Goto(w, IF w \in Viewers /\ p # None THEN "file" ELSE "idle")

AlreadyRunning(k) == hlsState[k] # None /\ ~Done(hlsState[k])

EnterUnguarded(w) ==
  /\ pc[w] = "enter"
  /\ \/ /\ AlreadyRunning(chan[w])
        /\ ReturnTo(w, hlsState[chan[w]])
        /\ UNCHANGED <<hlsState, hlsStarting>>
     \/ /\ ~AlreadyRunning(chan[w])
        /\ hlsState' = [hlsState EXCEPT ![chan[w]] = None]
        /\ hlsStarting' = [hlsStarting EXCEPT ![chan[w]] = w]
        /\ Goto(w, "resolve")
        /\ UNCHANGED st
  /\ UNCHANGED <<proc, dir, chan, file, asked>>
Enter(w) ==
  LET k == chan[w] IN
  /\ pc[w] = "enter"
  /\ \/ /\ AlreadyRunning(k)
        /\ ReturnTo(w, hlsState[k])
        /\ UNCHANGED <<hlsState, hlsStarting>>
     \/ /\ ~AlreadyRunning(k)
        /\ hlsState' = [hlsState EXCEPT ![k] = None]
        /\ \/ /\ hlsStarting[k] # None
              /\ Goto(w, "join")
              /\ UNCHANGED hlsStarting
           \/ /\ hlsStarting[k] = None
              /\ hlsStarting' = [hlsStarting EXCEPT ![k] = w]
              /\ Goto(w, "resolve")
        /\ UNCHANGED st
  /\ UNCHANGED <<proc, dir, chan, file, asked>>

\* A room that is offline gets no ffmpeg.
ResolveRoom(w) ==
  /\ pc[w] = "resolve"
  /\ \E online \in BOOLEAN : Goto(w, IF online THEN "clear" ELSE "publish")
  /\ UNCHANGED <<hlsState, hlsStarting, proc, dir, chan, file, st, asked>>

\* The segments and the playlist of an earlier process are removed.
ClearNothing(w) ==
  /\ pc[w] = "clear"
  /\ Goto(w, "launch")
  /\ UNCHANGED <<hlsState, hlsStarting, proc, dir, chan, file, st, asked>>
Clear(w) ==
  /\ pc[w] = "clear"
  /\ dir' = [dir EXCEPT ![chan[w]] = NoFiles]
  /\ Goto(w, "launch")
  /\ UNCHANGED <<hlsState, hlsStarting, proc, chan, file, st, asked>>

Unused(p) ==
  /\ Done(p)
  /\ \A k \in Channels : hlsState[k] # p /\ dir[k].by # p
  /\ \A w \in Workers : st[w] # p

\* cmd.Start may fail: nothing is started then, and the result is nil.
Launch(w) ==
  /\ pc[w] = "launch"
  /\ Goto(w, "publish")
  /\ \/ \E p \in Procs :
          /\ Unused(p)
          /\ st' = [st EXCEPT ![w] = p]
          /\ proc' = [proc EXCEPT ![p] =
                [running |-> TRUE, chan |-> chan[w], started |-> 0, last |-> 0]]
     \/ UNCHANGED <<proc, st>>
  /\ UNCHANGED <<hlsState, hlsStarting, dir, chan, file, asked>>

\* The deferred function: the process enters the map, if there is one, and
\* close(ready) wakes all that wait for this start.
Awoken(w, label) ==
  [u \in Workers |->
     IF u = w THEN label
     ELSE IF pc[u] = "join" /\ chan[u] = chan[w] THEN "joined"
     ELSE pc[u]]

AfterStartUnchecked(w) == IF w \in Viewers THEN "file" ELSE "idle"
AfterStart(w) == IF w \in Viewers /\ st[w] # None THEN "file" ELSE "idle"

PublishForgotten(w) ==
  /\ pc[w] = "publish"
  /\ hlsStarting' = [hlsStarting EXCEPT ![chan[w]] = None]
  /\ pc' = Awoken(w, AfterStart(w))
  /\ st' = [st EXCEPT ![w] = IF w \in Viewers THEN st[w] ELSE None]
  /\ UNCHANGED <<hlsState, proc, dir, chan, file, asked>>
PublishSilently(w) ==
  /\ pc[w] = "publish"
  /\ hlsState' = IF st[w] # None
                   THEN [hlsState EXCEPT ![chan[w]] = st[w]] ELSE hlsState
  /\ hlsStarting' = [hlsStarting EXCEPT ![chan[w]] = None]
  /\ Goto(w, AfterStart(w))
  /\ st' = [st EXCEPT ![w] = IF w \in Viewers THEN st[w] ELSE None]
  /\ UNCHANGED <<proc, dir, chan, file, asked>>
Publish(w) ==
  /\ pc[w] = "publish"
  /\ hlsState' = IF st[w] # None
                   THEN [hlsState EXCEPT ![chan[w]] = st[w]] ELSE hlsState
  /\ hlsStarting' = [hlsStarting EXCEPT ![chan[w]] = None]
  /\ pc' = Awoken(w, AfterStart(w))
  /\ st' = [st EXCEPT ![w] = IF w \in Viewers THEN st[w] ELSE None]
  /\ UNCHANGED <<proc, dir, chan, file, asked>>

\* After <-ready the joiner reads the map again: what it finds there may
\* already be another process, or none.
Joined(w) ==
  /\ pc[w] = "joined"
  /\ ReturnTo(w, hlsState[chan[w]])
  /\ UNCHANGED <<hlsState, hlsStarting, proc, dir, chan, file, asked>>

(***************************************************************************)
(* handleHLS, from a process to the answer                                 *)
(***************************************************************************)
\* A segment is named by the player: it may be one that is not there.
Present(v) ==
  IF file[v] = "index" THEN {dir[chan[v]].list} ELSE {FALSE, dir[chan[v]].segments}

WaitFile(v) ==
  /\ pc[v] = "file"
  /\ \/ /\ Done(st[v])
        /\ Goto(v, "read")
     \/ /\ TRUE \in Present(v)
        /\ Goto(v, IF file[v] = "index" THEN "segments" ELSE "read")
  /\ UNCHANGED <<hlsState, hlsStarting, proc, dir, chan, file, st, asked>>

WaitSegments(v) ==
  /\ pc[v] = "segments"
  /\ dir[chan[v]].segments \/ Done(st[v])
  /\ Goto(v, "read")
  /\ UNCHANGED <<hlsState, hlsStarting, proc, dir, chan, file, st, asked>>

\* The 30 s are over in either loop: the file is read as it is.
Deadline(v) ==
  /\ pc[v] \in {"file", "segments"}
  /\ Goto(v, "read")
  /\ UNCHANGED <<hlsState, hlsStarting, proc, dir, chan, file, st, asked>>

\* 200 with the file, or 404.
Read(v) ==
  /\ pc[v] = "read"
  /\ st' = [st EXCEPT ![v] = None]
  /\ file' = [file EXCEPT ![v] = "index"]
  /\ Goto(v, "idle")
  /\ UNCHANGED <<hlsState, hlsStarting, proc, dir, chan, asked>>

(***************************************************************************)
(* hlsWatchdog: one pass under hlsMu, over every channel.  The pass waits  *)
(* for the processes it kills.                                             *)
(***************************************************************************)
Held == {k \in Channels : hlsState[k] # None}

Idle(k) == proc[hlsState[k]].last > IDLE

IsStale(k) ==
  IF dir[k].list THEN dir[k].age > STALE
                 ELSE proc[hlsState[k]].started > WARMUP

ToReap    == {k \in Held : Idle(k)}
ToRestartDead == {k \in Held \ ToReap : Done(hlsState[k])}
ToRestart == {k \in Held \ ToReap : Done(hlsState[k]) \/ IsStale(k)}

\* A process that left the map is only ever asked whether it is done.
Killed(ks) ==
  [p \in Procs |-> IF \E k \in ks : hlsState[k] = p
                     THEN NoProc ELSE proc[p]]

Pass ==
  /\ ToReap \cup ToRestart # {}
  /\ proc' = Killed(ToReap \cup ToRestart)
  /\ hlsState' = [k \in Channels |->
       IF k \in ToReap \cup ToRestart THEN None ELSE hlsState[k]]
  /\ dir' = [k \in Channels |-> IF k \in ToReap THEN NoFiles ELSE dir[k]]
  /\ \E go \in [ToRestart -> {r \in Restarters : pc[r] = "idle"}] :
       /\ IsInjective(go)
       /\ pc' = [w \in Workers |->
                   IF \E k \in ToRestart : go[k] = w THEN "enter" ELSE pc[w]]
       /\ chan' = [w \in Workers |->
                   IF \E k \in ToRestart : go[k] = w
                     THEN CHOOSE k \in ToRestart : go[k] = w ELSE chan[w]]
  /\ UNCHANGED <<hlsStarting, file, st, asked>>

(***************************************************************************)
(* ffmpeg (external), as far as this code can see it                       *)
(***************************************************************************)
\* A segment is complete before the playlist names it.
Segment(p) ==
  /\ proc[p].running
  /\ dir' = [dir EXCEPT ![proc[p].chan] =
       [@ EXCEPT !.by = p, !.segments = TRUE]]
  /\ UNCHANGED <<hlsState, hlsStarting, proc, pc, chan, file, st, asked>>

Playlist(p) ==
  /\ proc[p].running
  /\ dir[proc[p].chan].segments
  /\ dir' = [dir EXCEPT ![proc[p].chan] =
       [@ EXCEPT !.by = p, !.list = TRUE, !.age = 0]]
  /\ UNCHANGED <<hlsState, hlsStarting, proc, pc, chan, file, st, asked>>

\* The stream ended, or ffmpeg failed; Wait returns and done is closed.
Exit(p) ==
  /\ proc[p].running
  /\ proc' = [proc EXCEPT ![p] = [NoProc EXCEPT !.last = proc[p].last]]
  /\ UNCHANGED <<hlsState, hlsStarting, dir, pc, chan, file, st, asked>>

Older(age, limit) == IF age > limit THEN age ELSE age + 1

\* Publishing takes no more than hlsMu, which is less than a tick.
Tick ==
  /\ \A w \in Workers : pc[w] # "publish"
  /\ proc' = [p \in Procs |-> [proc[p] EXCEPT
        !.started = IF proc[p].running THEN Older(@, WARMUP) ELSE @,
        !.last = Older(@, IDLE)]]
  /\ dir' = [k \in Channels |->
        IF dir[k].list THEN [dir[k] EXCEPT !.age = Older(@, STALE)] ELSE dir[k]]
  /\ asked' = [k \in Channels |-> Older(asked[k], IDLE)]
  /\ UNCHANGED <<hlsState, hlsStarting, pc, chan, file, st>>

(***************************************************************************)
(* The system                                                              *)
(***************************************************************************)
Start(w) ==
  \/ Enter(w) \/ ResolveRoom(w) \/ Clear(w) \/ Launch(w) \/ Publish(w)
  \/ Joined(w)

Answer(v) == WaitFile(v) \/ WaitSegments(v) \/ Deadline(v) \/ Read(v)

Ffmpeg(p) == Segment(p) \/ Playlist(p) \/ Exit(p)

Step ==
  \/ \E v \in Viewers : Ask(v) \/ Answer(v)
  \/ \E w \in Workers : Start(w)
  \/ \E p \in Procs : Ffmpeg(p)
  \/ Pass

Next == Step \/ Tick

Spec == Init /\ [][Next]_vars

\* Goroutines are scheduled, a resolution ends within its timeouts, the
\* ticker fires and the clock advances.  Nothing is assumed of ffmpeg.
Fairness ==
  /\ \A w \in Workers : WF_vars(Start(w))
  /\ \A v \in Viewers : WF_vars(Answer(v))
  /\ WF_vars(Pass)
  /\ WF_vars(Tick)

FairSpec == Spec /\ Fairness

(***************************************************************************)
(* Safety                                                                  *)
(***************************************************************************)
Running(k) == {p \in Procs : proc[p].running /\ proc[p].chan = k}

\* Whatever requests, restarts and passes of the watchdog meet, two ffmpeg
\* never write the same directory (startFFmpeg, hlsStarting).
SingleWriter ==
  \A k \in Channels : \A p, q \in Running(k) : p = q

\* A running ffmpeg is always in the map, where the watchdog finds it, or
\* with the worker that is about to put it there.
NoOrphan ==
  \A k \in Channels : \A p \in Running(k) :
    \/ hlsState[k] = p
    \/ \E w \in Workers : hlsStarting[k] = w /\ pc[w] = "publish" /\ st[w] = p

\* While an ffmpeg runs its directory holds nothing of an earlier one: the
\* watchdog never takes an old playlist for the new one's.
OwnFiles ==
  \A k \in Channels : \A p \in Running(k) :
    /\ dir[k].by \in {p, None}
    /\ dir[k].by = None => ~dir[k].segments /\ ~dir[k].list

\* Who waits on a ready channel waits for a start that is under way: no
\* wake-up is lost (close(ready) under hlsMu).
JoinerHasStarter ==
  \A w \in Workers : pc[w] = "join" =>
    \E u \in Workers :
      hlsStarting[chan[w]] = u /\ chan[u] = chan[w] /\ pc[u] \in Starting

\* A process is reaped as idle only when its channel has not been asked for
\* longer than IDLE, by any of the requests, joined ones included.
Reaped(k) == k \in ToReap /\ hlsState'[k] = None
NoEarlyReap == [][\A k \in Channels : Reaped(k) => asked[k] > IDLE]_vars

(***************************************************************************)
(* The inductive invariant: hlsStarting names exactly the workers between   *)
(* its insertion and the deferred publication, a channel that is being      *)
(* started is not in the map, and a launch finds the directory empty.       *)
(***************************************************************************)
StartersListed ==
  /\ \A w \in Workers : pc[w] \in Starting => hlsStarting[chan[w]] = w
  /\ \A k \in Channels, w \in Workers :
       hlsStarting[k] = w => chan[w] = k /\ pc[w] \in Starting

StartingIsAbsent ==
  \A k \in Channels : hlsStarting[k] # None => hlsState[k] = None

NothingYet ==
  \A w \in Workers :
    pc[w] \in {"idle", "enter", "join", "joined", "resolve", "clear", "launch"}
      => st[w] = None

RightChannel ==
  /\ \A k \in Channels, p \in Procs :
       hlsState[k] = p /\ proc[p].running => proc[p].chan = k
  /\ \A w \in Workers, p \in Procs :
       pc[w] = "publish" /\ st[w] = p /\ proc[p].running => proc[p].chan = chan[w]

Emptied ==
  /\ \A k \in Channels : dir[k].by = None => ~dir[k].segments /\ ~dir[k].list
  /\ \A w \in Workers : pc[w] = "launch" => dir[chan[w]].by = None

Core ==
  /\ TypeOK
  /\ StartersListed
  /\ StartingIsAbsent
  /\ NothingYet
  /\ RightChannel
  /\ NoOrphan
  /\ JoinerHasStarter

\* What holds of the directories while no other program writes to them.
Files == Emptied /\ OwnFiles

IInv == Core /\ Files

(***************************************************************************)
(* Liveness                                                                *)
(***************************************************************************)
\* A dead ffmpeg, one that stopped updating its playlist or never began to,
\* and one nobody asks for leaves the map, unless it recovers.
Stuck(p) ==
  \E k \in Channels :
    /\ hlsState[k] = p
    /\ \/ Done(p)
       \/ proc[p].last > IDLE
       \/ dir[k].list /\ dir[k].age > STALE
       \/ ~dir[k].list /\ proc[p].started > WARMUP
StuckIsReplaced == \A p \in Procs : Stuck(p) ~> ~Stuck(p)
=============================================================================
