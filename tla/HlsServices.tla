---------------------------- MODULE HlsServices -----------------------------
(***************************************************************************)
(* Both HLS services in the container.  entry.sh starts the Go service     *)
(* (Hls) and the older Python one (PyHls) on ports of their own but gives  *)
(* both one root, DATA/lnmp/allinone/hls, in which both name a channel's   *)
(* directory platform_rid.  Each knows its own processes only: a room      *)
(* asked for on both ports has two ffmpeg in one directory, and either     *)
(* service removes files of the other and judges its own process by them.  *)
(*                                                                         *)
(* So the one playlist of a directory is what PyHls calls list, and a file *)
(* of the older service is one that no process of Hls wrote.               *)
(***************************************************************************)
EXTENDS Hls

CONSTANTS OldHandlers, OldProcs   \* of the older service

VARIABLES hls_state, old_proc, old_pc, old_key, old_st

list == [k \in Channels |-> IF dir[k].list THEN dir[k].age ELSE STALE + 2]

Old == INSTANCE PyHls WITH
  Keys <- Channels, Handlers <- OldHandlers, Procs <- OldProcs,
  HLS_IDLE <- IDLE, HLS_STALE <- STALE, HLS_WARMUP <- WARMUP,
  proc <- old_proc, pc <- old_pc, key <- old_key, st <- old_st

ASSUME ServicesAssumption ==
  /\ Old!Watchdog \notin OldHandlers
  /\ None \notin OldProcs

goVars  == <<hlsState, hlsStarting, proc, pc, chan, file, st, asked>>
oldVars == <<hls_state, old_proc, old_pc, old_key, old_st>>

ServicesInit == Init /\ Old!Init

GoStep == Step /\ UNCHANGED oldVars

(***************************************************************************)
(* What the older service does to a directory.                             *)
(***************************************************************************)
Removed(k) == dir' = [dir EXCEPT ![k] = NoFiles]

OldRemoves ==
  \/ \E t \in Old!Threads : Removed(old_key[t]) /\ Old!Clear(t)
  \/ Removed(old_key[Old!Watchdog]) /\ Old!Rmtree

OldWrites(p) ==
  LET k == old_proc[p].key IN
  \/ /\ dir' = [dir EXCEPT ![k] = [@ EXCEPT !.by = None, !.segments = TRUE]]
     /\ old_proc[p].running /\ UNCHANGED oldVars
  \/ /\ dir' = [dir EXCEPT ![k] = [by |-> None, segments |-> TRUE, list |-> TRUE, age |-> 0]]
     /\ Old!Playlist(p)

OldStep ==
  /\ \/ OldRemoves
     \/ \E p \in OldProcs : OldWrites(p)
     \/ UNCHANGED dir /\ Old!Aside
  /\ UNCHANGED goVars

ServicesNext ==
  \/ GoStep
  \/ OldStep
  \/ Tick /\ Old!Tick

ServicesSpec == ServicesInit /\ [][ServicesNext]_<<vars, oldVars>>

(***************************************************************************)
(* Of what PyHls promises these hold in spite of the newer service.  (Of   *)
(* what Hls promises only OwnFiles is lost.)                               *)
(***************************************************************************)
\* Every value of the older service has its type, and no handler waits for
\* an entry that is not there.
OldTypeOK == Old!TypeOK

\* Its watchdog is never ended by a KeyError.
OldNoKeyError == Old!NoKeyError
=============================================================================
