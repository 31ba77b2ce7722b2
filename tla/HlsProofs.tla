----------------------------- MODULE HlsProofs ------------------------------
(***************************************************************************)
(* One ffmpeg per channel, found by the watchdog or about to be published,  *)
(* in a directory of its own, for any number of channels, requests and      *)
(* restarts and any limits of the watchdog; and no process reaped early.    *)
(***************************************************************************)
EXTENDS HlsServices, TLAPS

LEMMA Sets ==
  /\ None \notin Procs /\ None \notin Workers
  /\ \A v \in Viewers : v \in Workers /\ v \notin Restarters
  /\ \A r \in Restarters : r \in Workers
  BY HlsAssumption DEF Workers

LEMMA OlderRange == \A limit \in Nat : \A age \in 0..(limit + 1) :
                      Older(age, limit) \in 0..(limit + 1)
  BY DEF Older

LEMMA InitIInv == Init => IInv
  <1> SUFFICES ASSUME Init PROVE IInv
    OBVIOUS
  <1> USE DEF Init, NoFiles, NoProc
  <1>1. TypeOK
    BY HlsAssumption, Sets DEF TypeOK, Labels, HlsProcs, Dirs
  <1>2. StartersListed /\ StartingIsAbsent /\ NothingYet
    BY Sets DEF StartersListed, StartingIsAbsent, NothingYet, Starting
  <1>3. RightChannel /\ NoOrphan /\ JoinerHasStarter /\ Emptied /\ OwnFiles
    BY Sets DEF RightChannel, NoOrphan, JoinerHasStarter, Emptied, OwnFiles, Running
  <1> QED
    BY <1>1, <1>2, <1>3 DEF IInv, Core, Files

\* What every step does for the invariant; Core does not need Files.
Kept == Core' /\ (Files => Files')

(***************************************************************************)
(* A step that leaves the maps, what runs and what the directories hold as  *)
(* they are, and moves no worker into or out of a start or a wait for one.  *)
(***************************************************************************)
Quiet ==
  /\ hlsState' = hlsState /\ hlsStarting' = hlsStarting
  /\ \A p \in Procs : /\ proc'[p].running = proc[p].running
                      /\ proc'[p].chan = proc[p].chan
  /\ \A k \in Channels : /\ dir'[k].by = dir[k].by
                         /\ dir'[k].segments = dir[k].segments
                         /\ dir'[k].list = dir[k].list
  /\ \A u \in Workers :
       \/ pc'[u] = pc[u] /\ chan'[u] = chan[u] /\ st'[u] = st[u]
       \/ /\ pc[u] \notin Starting /\ pc[u] # "join"
          /\ pc'[u] \notin Starting /\ pc'[u] # "join"

LEMMA QuietStep == ASSUME Core, Quiet, TypeOK', NothingYet' PROVE Kept
  <1> USE Sets DEF Core, Quiet, Starting
  <1>1. StartersListed'
    <2>1. ASSUME NEW w \in Workers, pc'[w] \in Starting PROVE hlsStarting'[chan'[w]] = w
      BY <2>1 DEF StartersListed
    <2>2. ASSUME NEW k \in Channels, NEW w \in Workers, hlsStarting'[k] = w
          PROVE  chan'[w] = k /\ pc'[w] \in Starting
      <3>1. chan[w] = k /\ pc[w] \in Starting
        BY <2>2 DEF StartersListed
      <3> QED
        BY <3>1
    <2> QED
      BY <2>1, <2>2 DEF StartersListed
  <1>2. StartingIsAbsent'
    BY DEF StartingIsAbsent
  <1>3. RightChannel'
    <2>1. ASSUME NEW k \in Channels, NEW p \in Procs, hlsState'[k] = p, proc'[p].running
          PROVE  proc'[p].chan = k
      BY <2>1 DEF RightChannel
    <2>2. ASSUME NEW w \in Workers, NEW p \in Procs,
                 pc'[w] = "publish", st'[w] = p, proc'[p].running
          PROVE  proc'[p].chan = chan'[w]
      BY <2>2 DEF RightChannel
    <2> QED
      BY <2>1, <2>2 DEF RightChannel
  <1>4. NoOrphan'
    <2> SUFFICES ASSUME NEW k \in Channels, NEW p \in Running(k)', hlsState'[k] # p
                 PROVE  \E w \in Workers :
                          hlsStarting'[k] = w /\ pc'[w] = "publish" /\ st'[w] = p
      BY DEF NoOrphan
    <2>1. p \in Running(k) /\ hlsState[k] # p
      BY DEF Running
    <2>2. PICK w \in Workers : hlsStarting[k] = w /\ pc[w] = "publish" /\ st[w] = p
      BY <2>1 DEF NoOrphan
    <2> QED
      BY <2>2
  <1>5. JoinerHasStarter'
    <2> SUFFICES ASSUME NEW w \in Workers, pc'[w] = "join"
                 PROVE  \E u \in Workers :
                          /\ hlsStarting'[chan'[w]] = u /\ chan'[u] = chan'[w]
                          /\ pc'[u] \in Starting
      BY DEF JoinerHasStarter
    <2>1. pc[w] = "join" /\ chan'[w] = chan[w]
      OBVIOUS
    <2>2. PICK u \in Workers :
            hlsStarting[chan[w]] = u /\ chan[u] = chan[w] /\ pc[u] \in Starting
      BY <2>1 DEF JoinerHasStarter
    <2> QED
      BY <2>1, <2>2
  <1>6. ASSUME Files PROVE Emptied'
    <2> USE <1>6 DEF Files
    <2>1. \A k \in Channels : dir'[k].by = None => ~dir'[k].segments /\ ~dir'[k].list
      BY DEF Emptied
    <2>2. \A w \in Workers : pc'[w] = "launch" => dir'[chan'[w]].by = None
      BY DEF Emptied, TypeOK
    <2> QED
      BY <2>1, <2>2 DEF Emptied
  <1>7. ASSUME Files PROVE OwnFiles'
    BY <1>7 DEF Files, OwnFiles, Running
  <1> QED
    BY <1>1, <1>2, <1>3, <1>4, <1>5, <1>6, <1>7 DEF Core, Kept, Files

LEMMA Exclusive == ASSUME Core PROVE SingleWriter
  <1> USE Sets DEF Core
  <1> SUFFICES ASSUME NEW k \in Channels, NEW p \in Running(k), NEW q \in Running(k)
               PROVE  p = q
    BY DEF SingleWriter
  <1>1. p \in Procs /\ q \in Procs
    BY DEF Running
  <1>2. CASE hlsState[k] = p \/ hlsState[k] = q
    <2>1. hlsStarting[k] = None
      BY <1>1, <1>2 DEF StartingIsAbsent
    <2> QED
      BY <2>1, <1>1, <1>2 DEF NoOrphan
  <1>3. CASE hlsState[k] # p /\ hlsState[k] # q
    BY <1>3 DEF NoOrphan
  <1> QED
    BY <1>2, <1>3 DEF Core, Kept, Files

LEMMA AskStep == ASSUME Core, NEW v \in Viewers, Ask(v) PROVE Kept
  <1> USE Sets DEF Core
  <1>1. PICK k \in Channels, f \in {"index", "segment"} :
          /\ chan' = [chan EXCEPT ![v] = k]
          /\ file' = [file EXCEPT ![v] = f]
          /\ st' = [st EXCEPT ![v] = hlsState[k]]
          /\ asked' = [asked EXCEPT ![k] = 0]
          /\ \/ /\ hlsState[k] # None
                /\ proc' = [proc EXCEPT ![hlsState[k]].last = 0]
                /\ pc' = [pc EXCEPT ![v] = "file"]
             \/ /\ hlsState[k] = None
                /\ pc' = [pc EXCEPT ![v] = "enter"]
                /\ UNCHANGED proc
    BY DEF Ask, Goto
  <1>2. pc[v] = "idle" /\ UNCHANGED <<hlsState, hlsStarting, dir>>
    BY DEF Ask
  <1>3. hlsState[k] \in Procs \cup {None}
    BY DEF TypeOK
  <1>4. 0 \in 0..(IDLE + 1)
    BY HlsAssumption
  <1>5. /\ proc' \in [Procs -> HlsProcs]
        /\ \A p \in Procs : /\ proc'[p].running = proc[p].running
                            /\ proc'[p].chan = proc[p].chan
    <2>1. proc \in [Procs -> HlsProcs]
      BY DEF TypeOK
    <2>2. CASE proc' = proc
      BY <2>1, <2>2
    <2>3. CASE hlsState[k] \in Procs /\ proc' = [proc EXCEPT ![hlsState[k]].last = 0]
      BY <1>4, <2>1, <2>3 DEF HlsProcs
    <2> QED
      BY <1>1, <1>3, <2>2, <2>3
  <1>6. TypeOK'
    BY <1>1, <1>2, <1>3, <1>4, <1>5 DEF TypeOK, Labels
  <1>7. NothingYet'
    BY <1>1, <1>2 DEF NothingYet, TypeOK
  <1>8. Quiet
    BY <1>1, <1>2, <1>5 DEF Quiet, Starting, TypeOK
  <1> QED
    BY <1>6, <1>7, <1>8, QuietStep

LEMMA WaitFileStep == ASSUME Core, NEW v \in Viewers, WaitFile(v) PROVE Kept
  <1> USE Sets DEF Core, WaitFile, Goto
  <1>1. TypeOK'
    BY DEF TypeOK, Labels, NothingYet
  <1>2. NothingYet'
    BY DEF NothingYet, TypeOK
  <1>3. Quiet
    BY DEF Quiet, Starting, TypeOK
  <1> QED
    BY <1>1, <1>2, <1>3, QuietStep

LEMMA WaitSegmentsStep == ASSUME Core, NEW v \in Viewers, WaitSegments(v) PROVE Kept
  <1> USE Sets DEF Core, WaitSegments, Goto
  <1>1. TypeOK'
    BY DEF TypeOK, Labels, NothingYet
  <1>2. NothingYet'
    BY DEF NothingYet, TypeOK
  <1>3. Quiet
    BY DEF Quiet, Starting, TypeOK
  <1> QED
    BY <1>1, <1>2, <1>3, QuietStep

LEMMA DeadlineStep == ASSUME Core, NEW v \in Viewers, Deadline(v) PROVE Kept
  <1> USE Sets DEF Core, Deadline, Goto
  <1>1. TypeOK'
    BY DEF TypeOK, Labels, NothingYet
  <1>2. NothingYet'
    BY DEF NothingYet, TypeOK
  <1>3. Quiet
    BY DEF Quiet, Starting, TypeOK
  <1> QED
    BY <1>1, <1>2, <1>3, QuietStep

LEMMA ReadStep == ASSUME Core, NEW v \in Viewers, Read(v) PROVE Kept
  <1> USE Sets DEF Core, Read, Goto
  <1>1. TypeOK'
    BY DEF TypeOK, Labels, NothingYet
  <1>2. NothingYet'
    BY DEF NothingYet, TypeOK
  <1>3. Quiet
    BY DEF Quiet, Starting, TypeOK
  <1> QED
    BY <1>1, <1>2, <1>3, QuietStep

LEMMA EnterStep == ASSUME Core, NEW w \in Workers, Enter(w) PROVE Kept
  <1> USE HlsAssumption, Sets DEF Core, Enter, Goto, Done, Starting, ReturnTo, AlreadyRunning
  <1>1. TypeOK'
    <2>1. hlsState[chan[w]] \in Procs \cup {None} /\ w \in Workers
      BY DEF TypeOK
    <2>2. CASE /\ AlreadyRunning(chan[w])
               /\ ReturnTo(w, hlsState[chan[w]])
               /\ UNCHANGED <<hlsState, hlsStarting>>
      <3>1. /\ st' \in [Workers -> Procs \cup {None}]
            /\ pc' \in [Workers -> Labels]
        BY <2>1, <2>2 DEF TypeOK, Labels
      <3>2. \A u \in Workers :
              pc'[u] \in {"file", "segments", "read"} => st'[u] \in Procs
        BY <2>1, <2>2 DEF TypeOK
      <3> QED
        BY <2>2, <3>1, <3>2 DEF TypeOK
    <2>3. CASE ~AlreadyRunning(chan[w])
      BY <2>3 DEF TypeOK, Labels
    <2> QED
      BY <2>2, <2>3
  <1>2. StartersListed'
    BY DEF TypeOK, StartersListed
  <1>3. StartingIsAbsent'
    BY DEF TypeOK, StartersListed, StartingIsAbsent
  <1>4. NothingYet'
    BY DEF TypeOK, NothingYet
  <1>5. RightChannel'
    BY DEF TypeOK, RightChannel, NothingYet, StartersListed
  <1>6. NoOrphan'
    BY DEF TypeOK, StartersListed, StartingIsAbsent, NothingYet, NoOrphan, RightChannel, Running
  <1>7. JoinerHasStarter'
    BY DEF TypeOK, StartersListed, JoinerHasStarter
  <1>8. ASSUME Files PROVE Emptied'
    BY <1>8 DEF Files, TypeOK, Emptied, StartersListed, StartingIsAbsent, NoOrphan, Running
  <1>9. ASSUME Files PROVE OwnFiles'
    BY <1>9 DEF Files, TypeOK, OwnFiles, Emptied, RightChannel, NoOrphan, StartersListed, Running
  <1> QED
    BY <1>1, <1>2, <1>3, <1>4, <1>5, <1>6, <1>7, <1>8, <1>9 DEF Core, Kept, Files

LEMMA ResolveRoomStep == ASSUME Core, NEW w \in Workers, ResolveRoom(w) PROVE Kept
  <1> USE HlsAssumption, Sets DEF Core, ResolveRoom, Goto, Done, Starting
  <1>1. TypeOK'
    BY DEF TypeOK, Labels, HlsProcs, Dirs
  <1>2. StartersListed'
    BY DEF TypeOK, StartersListed
  <1>3. StartingIsAbsent'
    BY DEF TypeOK, StartersListed, StartingIsAbsent
  <1>4. NothingYet'
    BY DEF TypeOK, NothingYet
  <1>5. RightChannel'
    BY DEF TypeOK, RightChannel, NothingYet, StartersListed
  <1>6. NoOrphan'
    BY DEF TypeOK, StartersListed, StartingIsAbsent, NothingYet, NoOrphan, RightChannel, Running
  <1>7. JoinerHasStarter'
    BY DEF TypeOK, StartersListed, JoinerHasStarter
  <1>8. ASSUME Files PROVE Emptied'
    BY <1>8 DEF Files, TypeOK, Emptied, StartersListed, StartingIsAbsent, NoOrphan, Running
  <1>9. ASSUME Files PROVE OwnFiles'
    BY <1>9 DEF Files, TypeOK, OwnFiles, Emptied, RightChannel, NoOrphan, StartersListed, Running
  <1> QED
    BY <1>1, <1>2, <1>3, <1>4, <1>5, <1>6, <1>7, <1>8, <1>9 DEF Core, Kept, Files

LEMMA ClearStep == ASSUME Core, NEW w \in Workers, Clear(w) PROVE Kept
  <1> USE HlsAssumption, Sets DEF Core, Clear, Goto, Done, Starting, NoFiles
  <1>1. TypeOK'
    BY DEF TypeOK, Labels, HlsProcs, Dirs
  <1>2. StartersListed'
    BY DEF TypeOK, StartersListed
  <1>3. StartingIsAbsent'
    BY DEF TypeOK, StartersListed, StartingIsAbsent
  <1>4. NothingYet'
    BY DEF TypeOK, NothingYet
  <1>5. RightChannel'
    BY DEF TypeOK, RightChannel, NothingYet, StartersListed
  <1>6. NoOrphan'
    BY DEF TypeOK, StartersListed, StartingIsAbsent, NothingYet, NoOrphan, RightChannel, Running
  <1>7. JoinerHasStarter'
    BY DEF TypeOK, StartersListed, JoinerHasStarter
  <1>8. ASSUME Files PROVE Emptied'
    BY <1>8 DEF Files, TypeOK, Emptied, StartersListed, StartingIsAbsent, NoOrphan, Running
  <1>9. ASSUME Files PROVE OwnFiles'
    BY <1>9 DEF Files, TypeOK, OwnFiles, Emptied, RightChannel, NoOrphan, StartersListed, Running
  <1> QED
    BY <1>1, <1>2, <1>3, <1>4, <1>5, <1>6, <1>7, <1>8, <1>9 DEF Core, Kept, Files

LEMMA LaunchStep == ASSUME Core, NEW w \in Workers, Launch(w) PROVE Kept
  <1> USE HlsAssumption, Sets DEF Core, Launch, Goto, Done, Starting, Unused
  <1>1. TypeOK'
    <2>1. pc' \in [Workers -> Labels]
      BY DEF TypeOK, Labels
    <2>2. CASE UNCHANGED <<proc, st>>
      BY <2>1, <2>2 DEF TypeOK
    <2>3. ASSUME NEW p \in Procs,
                 st' = [st EXCEPT ![w] = p],
                 proc' = [proc EXCEPT ![p] = [running |-> TRUE, chan |-> chan[w],
                                              started |-> 0, last |-> 0]]
          PROVE  TypeOK'
      <3>1. [running |-> TRUE, chan |-> chan[w], started |-> 0, last |-> 0] \in HlsProcs
        BY DEF TypeOK, HlsProcs
      <3>2. proc' \in [Procs -> HlsProcs]
        BY <2>3, <3>1 DEF TypeOK
      <3>3. /\ st' \in [Workers -> Procs \cup {None}]
            /\ \A u \in Workers :
                 pc'[u] \in {"file", "segments", "read"} => st'[u] \in Procs
        BY <2>3 DEF TypeOK
      <3> QED
        BY <2>1, <3>2, <3>3 DEF TypeOK
    <2> QED
      BY <2>2, <2>3
  <1>2. StartersListed'
    BY DEF TypeOK, StartersListed
  <1>3. StartingIsAbsent'
    BY DEF TypeOK, StartersListed, StartingIsAbsent
  <1>4. NothingYet'
    BY DEF TypeOK, NothingYet
  <1>5. RightChannel'
    BY DEF TypeOK, RightChannel, NothingYet, StartersListed
  <1>6. NoOrphan'
    <2>1. /\ pc[w] = "launch" /\ pc'[w] = "publish" /\ hlsStarting[chan[w]] = w
          /\ UNCHANGED <<hlsState, hlsStarting, chan>>
          /\ \A u \in Workers : u # w => pc'[u] = pc[u] /\ st'[u] = st[u]
      BY DEF TypeOK, StartersListed
    <2> SUFFICES ASSUME NEW k \in Channels, NEW p \in Running(k)', hlsState[k] # p
                 PROVE  \E u \in Workers :
                          hlsStarting[k] = u /\ pc'[u] = "publish" /\ st'[u] = p
      BY <2>1 DEF NoOrphan
    <2>2. CASE p \in Running(k)
      BY <2>1, <2>2 DEF NoOrphan
    <2>3. CASE p \notin Running(k)
      <3>1. p \in Procs /\ proc'[p].running /\ proc'[p].chan = k
            /\ proc'[p] # proc[p]
        BY <2>3 DEF Running
      <3>2. k = chan[w] /\ st'[w] = p
        BY <3>1 DEF TypeOK
      <3> QED
        BY <2>1, <3>2
    <2> QED
      BY <2>2, <2>3
  <1>7. JoinerHasStarter'
    BY DEF TypeOK, StartersListed, JoinerHasStarter
  <1>8. ASSUME Files PROVE Emptied'
    BY <1>8 DEF Files, TypeOK, Emptied, StartersListed, StartingIsAbsent, NoOrphan, Running
  <1>9. ASSUME Files PROVE OwnFiles'
    BY <1>9 DEF Files, TypeOK, OwnFiles, Emptied, RightChannel, NoOrphan, StartersListed, Running
  <1> QED
    BY <1>1, <1>2, <1>3, <1>4, <1>5, <1>6, <1>7, <1>8, <1>9 DEF Core, Kept, Files

LEMMA PublishStep == ASSUME Core, NEW w \in Workers, Publish(w) PROVE Kept
  <1> USE HlsAssumption, Sets DEF Core, Publish, Goto, Done, Starting, Awoken, AfterStart
  <1>1. TypeOK'
    BY DEF TypeOK, Labels, HlsProcs, Dirs
  <1>2. StartersListed'
    BY DEF TypeOK, StartersListed
  <1>3. StartingIsAbsent'
    BY DEF TypeOK, StartersListed, StartingIsAbsent
  <1>4. NothingYet'
    BY DEF TypeOK, NothingYet
  <1>5. RightChannel'
    BY DEF TypeOK, RightChannel, NothingYet, StartersListed
  <1>6. NoOrphan'
    BY DEF TypeOK, StartersListed, StartingIsAbsent, NothingYet, NoOrphan, RightChannel, Running
  <1>7. JoinerHasStarter'
    BY DEF TypeOK, StartersListed, JoinerHasStarter
  <1>8. ASSUME Files PROVE Emptied'
    BY <1>8 DEF Files, TypeOK, Emptied, StartersListed, StartingIsAbsent, NoOrphan, Running
  <1>9. ASSUME Files PROVE OwnFiles'
    BY <1>9 DEF Files, TypeOK, OwnFiles, Emptied, RightChannel, NoOrphan, StartersListed, Running
  <1> QED
    BY <1>1, <1>2, <1>3, <1>4, <1>5, <1>6, <1>7, <1>8, <1>9 DEF Core, Kept, Files

LEMMA JoinedStep == ASSUME Core, NEW w \in Workers, Joined(w) PROVE Kept
  <1> USE Sets DEF Core, Joined, Goto, ReturnTo
  <1>1. TypeOK'
    BY DEF TypeOK, Labels, NothingYet
  <1>2. NothingYet'
    BY DEF NothingYet, TypeOK
  <1>3. Quiet
    BY DEF Quiet, Starting, TypeOK
  <1> QED
    BY <1>1, <1>2, <1>3, QuietStep

LEMMA SegmentStep == ASSUME Core, NEW p \in Procs, Segment(p) PROVE Kept
  <1> USE Sets DEF Core
  <1>1. /\ proc[p].running /\ proc[p].chan \in Channels \cup {None}
        /\ dir' = [dir EXCEPT ![proc[p].chan] =
                     [@ EXCEPT !.by = p, !.segments = TRUE]]
        /\ UNCHANGED <<hlsState, hlsStarting, proc, pc, chan, file, st, asked>>
    BY DEF Segment, TypeOK, HlsProcs
  <1> DEFINE c == proc[p].chan
  <1>2. dir \in [Channels -> Dirs]
    BY DEF TypeOK
  <1>3. \A k \in Channels :
          /\ dir'[k] = IF k = c THEN [dir[k] EXCEPT !.by = p, !.segments = TRUE]
                                ELSE dir[k]
          /\ dir'[k] \in Dirs
    BY <1>1, <1>2 DEF Dirs
  <1>4. dir' \in [Channels -> Dirs]
    BY <1>1, <1>2, <1>3
  <1>5. TypeOK'
    BY <1>1, <1>4 DEF TypeOK
  <1>6. /\ StartersListed' /\ StartingIsAbsent' /\ NothingYet'
        /\ RightChannel' /\ JoinerHasStarter'
    BY <1>1 DEF StartersListed, StartingIsAbsent, NothingYet, RightChannel,
                JoinerHasStarter
  <1>7. NoOrphan'
    BY <1>1 DEF NoOrphan, Running
  <1>8. \A k \in Channels : k = c => dir'[k].by = p /\ dir'[k].segments
    BY <1>2, <1>3 DEF Dirs
  <1>9. ASSUME Files PROVE Emptied'
    <2> USE <1>9 DEF Files
    <2>1. \A k \in Channels : dir'[k].by = None => ~dir'[k].segments /\ ~dir'[k].list
      BY <1>3, <1>8 DEF Emptied
    <2>2. ASSUME NEW w \in Workers, pc[w] = "launch" PROVE dir'[chan[w]].by = None
      <3>1. chan[w] \in Channels /\ hlsStarting[chan[w]] = w /\ hlsState[chan[w]] = None
        BY <2>2 DEF TypeOK, StartersListed, StartingIsAbsent, Starting
      <3>2. c # chan[w]
        BY <1>1, <2>2, <3>1 DEF NoOrphan, Running
      <3> QED
        BY <1>3, <2>2, <3>1, <3>2 DEF Emptied
    <2> QED
      BY <1>1, <2>1, <2>2 DEF Emptied
  <1>10. ASSUME Files PROVE OwnFiles'
    <2> USE <1>10 DEF Files
    <2> SUFFICES ASSUME NEW k \in Channels, NEW q \in Running(k)
                 PROVE  /\ dir'[k].by \in {q, None}
                        /\ dir'[k].by = None => ~dir'[k].segments /\ ~dir'[k].list
      BY <1>1 DEF OwnFiles, Running
    <2>1. CASE k = c
      <3>1. p \in Running(k)
        BY <1>1, <2>1 DEF Running
      <3>2. q = p
        BY <3>1, Exclusive DEF SingleWriter
      <3> QED
        BY <1>8, <2>1, <3>2
    <2>2. CASE k # c
      BY <1>3, <2>2 DEF OwnFiles
    <2> QED
      BY <2>1, <2>2
  <1> QED
    BY <1>5, <1>6, <1>7, <1>9, <1>10 DEF Core, Kept, Files

LEMMA PlaylistStep == ASSUME Core, NEW p \in Procs, Playlist(p) PROVE Kept
  <1> USE Sets DEF Core
  <1>1. /\ proc[p].running /\ proc[p].chan \in Channels \cup {None}
        /\ dir' = [dir EXCEPT ![proc[p].chan] =
                     [@ EXCEPT !.by = p, !.list = TRUE, !.age = 0]]
        /\ UNCHANGED <<hlsState, hlsStarting, proc, pc, chan, file, st, asked>>
    BY DEF Playlist, TypeOK, HlsProcs
  <1> DEFINE c == proc[p].chan
  <1>2. dir \in [Channels -> Dirs]
    BY DEF TypeOK
  <1>13. 0 \in 0..(STALE + 1)
    BY HlsAssumption
  <1>3. \A k \in Channels :
          /\ dir'[k] = IF k = c THEN [dir[k] EXCEPT !.by = p, !.list = TRUE, !.age = 0]
                                ELSE dir[k]
          /\ dir'[k] \in Dirs
    BY <1>1, <1>2, <1>13 DEF Dirs
  <1>4. dir' \in [Channels -> Dirs]
    BY <1>1, <1>2, <1>3
  <1>5. TypeOK'
    BY <1>1, <1>4 DEF TypeOK
  <1>6. /\ StartersListed' /\ StartingIsAbsent' /\ NothingYet'
        /\ RightChannel' /\ JoinerHasStarter'
    BY <1>1 DEF StartersListed, StartingIsAbsent, NothingYet, RightChannel,
                JoinerHasStarter
  <1>7. NoOrphan'
    BY <1>1 DEF NoOrphan, Running
  <1>8. \A k \in Channels : k = c => dir'[k].by = p 
    BY <1>2, <1>3 DEF Dirs
  <1>9. ASSUME Files PROVE Emptied'
    <2> USE <1>9 DEF Files
    <2>1. \A k \in Channels : dir'[k].by = None => ~dir'[k].segments /\ ~dir'[k].list
      BY <1>3, <1>8 DEF Emptied
    <2>2. ASSUME NEW w \in Workers, pc[w] = "launch" PROVE dir'[chan[w]].by = None
      <3>1. chan[w] \in Channels /\ hlsStarting[chan[w]] = w /\ hlsState[chan[w]] = None
        BY <2>2 DEF TypeOK, StartersListed, StartingIsAbsent, Starting
      <3>2. c # chan[w]
        BY <1>1, <2>2, <3>1 DEF NoOrphan, Running
      <3> QED
        BY <1>3, <2>2, <3>1, <3>2 DEF Emptied
    <2> QED
      BY <1>1, <2>1, <2>2 DEF Emptied
  <1>10. ASSUME Files PROVE OwnFiles'
    <2> USE <1>10 DEF Files
    <2> SUFFICES ASSUME NEW k \in Channels, NEW q \in Running(k)
                 PROVE  /\ dir'[k].by \in {q, None}
                        /\ dir'[k].by = None => ~dir'[k].segments /\ ~dir'[k].list
      BY <1>1 DEF OwnFiles, Running
    <2>1. CASE k = c
      <3>1. p \in Running(k)
        BY <1>1, <2>1 DEF Running
      <3>2. q = p
        BY <3>1, Exclusive DEF SingleWriter
      <3> QED
        BY <1>8, <2>1, <3>2
    <2>2. CASE k # c
      BY <1>3, <2>2 DEF OwnFiles
    <2> QED
      BY <2>1, <2>2
  <1> QED
    BY <1>5, <1>6, <1>7, <1>9, <1>10 DEF Core, Kept, Files

LEMMA ExitStep == ASSUME Core, NEW p \in Procs, Exit(p) PROVE Kept
  <1> USE HlsAssumption, Sets DEF Core, Exit, Goto, Done, Starting, NoProc
  <1>1. TypeOK'
    <2>3. proc[p].last \in 0..(IDLE + 1) /\ 0 \in 0..(WARMUP + 1)
      BY HlsAssumption DEF TypeOK, HlsProcs
    <2>1. [NoProc EXCEPT !.last = proc[p].last] \in HlsProcs
      BY <2>3 DEF HlsProcs
    <2>2. proc' \in [Procs -> HlsProcs]
      BY <2>1 DEF TypeOK
    <2> QED
      BY <2>2 DEF TypeOK
  <1>2. StartersListed'
    BY DEF TypeOK, StartersListed
  <1>3. StartingIsAbsent'
    BY DEF TypeOK, StartersListed, StartingIsAbsent
  <1>4. NothingYet'
    BY DEF TypeOK, NothingYet
  <1>5. RightChannel'
    BY DEF TypeOK, RightChannel, NothingYet, StartersListed
  <1>6. NoOrphan'
    BY DEF TypeOK, StartersListed, StartingIsAbsent, NothingYet, NoOrphan, RightChannel, Running
  <1>7. JoinerHasStarter'
    BY DEF TypeOK, StartersListed, JoinerHasStarter
  <1>8. ASSUME Files PROVE Emptied'
    BY <1>8 DEF Files, TypeOK, Emptied, StartersListed, StartingIsAbsent, NoOrphan, Running
  <1>9. ASSUME Files PROVE OwnFiles'
    BY <1>9 DEF Files, TypeOK, OwnFiles, Emptied, RightChannel, NoOrphan, StartersListed, Running
  <1> QED
    BY <1>1, <1>2, <1>3, <1>4, <1>5, <1>6, <1>7, <1>8, <1>9 DEF Core, Kept, Files

LEMMA PassStep == ASSUME Core, Pass PROVE Kept
  <1> USE HlsAssumption, Sets DEF Core, Pass, Goto, Done, Starting, Killed, NoProc, NoFiles, ToReap, ToRestart, Held
  <1>1. TypeOK'
    BY DEF TypeOK, Labels, HlsProcs, Dirs
  <1>2. StartersListed'
    BY DEF TypeOK, StartersListed
  <1>3. StartingIsAbsent'
    BY DEF TypeOK, StartersListed, StartingIsAbsent
  <1>4. NothingYet'
    BY DEF TypeOK, NothingYet
  <1>5. RightChannel'
    BY DEF TypeOK, RightChannel, NothingYet, StartersListed
  <1>6. NoOrphan'
    BY DEF TypeOK, StartersListed, StartingIsAbsent, NothingYet, NoOrphan, RightChannel, Running
  <1>7. JoinerHasStarter'
    BY DEF TypeOK, StartersListed, JoinerHasStarter
  <1>8. ASSUME Files PROVE Emptied'
    <2> USE <1>8 DEF Files
    <2>1. \A k \in Channels : dir'[k].by = None => ~dir'[k].segments /\ ~dir'[k].list
      BY DEF TypeOK, Emptied
    <2>2. ASSUME NEW w \in Workers, pc'[w] = "launch" PROVE dir'[chan'[w]].by = None
      <3>1. pc[w] = "launch" /\ chan'[w] = chan[w]
        BY <2>2 DEF TypeOK
      <3>2. dir[chan[w]].by = None /\ chan[w] \in Channels
        BY <3>1 DEF Emptied, TypeOK
      <3> QED
        BY <3>1, <3>2 DEF TypeOK
    <2> QED
      BY <2>1, <2>2 DEF Emptied
  <1>9. ASSUME Files PROVE OwnFiles'
    BY <1>9 DEF Files, TypeOK, OwnFiles, Emptied, RightChannel, NoOrphan, StartersListed, Running
  <1> QED
    BY <1>1, <1>2, <1>3, <1>4, <1>5, <1>6, <1>7, <1>8, <1>9 DEF Core, Kept, Files

LEMMA TickStep == ASSUME Core, Tick PROVE Kept
  <1> USE Sets DEF Core
  <1>1. UNCHANGED <<hlsState, hlsStarting, pc, chan, file, st>>
    BY DEF Tick
  <1>2. ASSUME NEW p \in Procs
        PROVE  /\ proc'[p] \in HlsProcs
               /\ proc'[p].running = proc[p].running
               /\ proc'[p].chan = proc[p].chan
    <2>1. /\ proc[p].started \in 0..(WARMUP + 1)
          /\ Older(proc[p].started, WARMUP) \in 0..(WARMUP + 1)
          /\ Older(proc[p].last, IDLE) \in 0..(IDLE + 1)
      BY HlsAssumption, OlderRange DEF TypeOK, HlsProcs
    <2>2. proc'[p] = [proc[p] EXCEPT
            !.started = IF proc[p].running THEN Older(@, WARMUP) ELSE @,
            !.last = Older(@, IDLE)]
      BY DEF Tick
    <2>3. proc[p] \in HlsProcs
      BY DEF TypeOK
    <2> QED
      BY <2>1, <2>2, <2>3 DEF HlsProcs
  <1>3. ASSUME NEW k \in Channels
        PROVE  /\ dir'[k] \in Dirs
               /\ dir'[k].by = dir[k].by
               /\ dir'[k].segments = dir[k].segments
               /\ dir'[k].list = dir[k].list
    <2>1. Older(dir[k].age, STALE) \in 0..(STALE + 1)
      BY HlsAssumption, OlderRange DEF TypeOK, Dirs
    <2>2. dir'[k] = IF dir[k].list THEN [dir[k] EXCEPT !.age = Older(@, STALE)]
                                   ELSE dir[k]
      BY DEF Tick
    <2>3. dir[k] \in Dirs
      BY DEF TypeOK
    <2> QED
      BY <2>1, <2>2, <2>3 DEF Dirs
  <1>4. asked' \in [Channels -> 0..(IDLE + 1)]
    BY HlsAssumption, OlderRange DEF TypeOK, Tick
  <1>5. /\ proc' = [p \in Procs |-> proc'[p]]
        /\ dir' = [k \in Channels |-> dir'[k]]
    BY DEF Tick
  <1>6. TypeOK'
    BY <1>1, <1>2, <1>3, <1>4, <1>5 DEF TypeOK
  <1>7. NothingYet'
    BY <1>1 DEF NothingYet
  <1>8. Quiet
    BY <1>1, <1>2, <1>3 DEF Quiet
  <1> QED
    BY <1>6, <1>7, <1>8, QuietStep

LEMMA StepKeeps == ASSUME Core, [Next]_vars PROVE Kept
  <1>1. CASE UNCHANGED vars
    <2>1. Quiet /\ TypeOK' /\ NothingYet'
      BY <1>1 DEF vars, Quiet, Core, TypeOK, NothingYet
    <2> QED
      BY <2>1, QuietStep
  <1>2. ASSUME NEW v \in Viewers, Ask(v) \/ Answer(v) PROVE Kept
    BY <1>2, AskStep, WaitFileStep, WaitSegmentsStep, DeadlineStep, ReadStep DEF Answer
  <1>3. ASSUME NEW w \in Workers, Start(w) PROVE Kept
    BY <1>3, EnterStep, ResolveRoomStep, ClearStep, LaunchStep, PublishStep,
       JoinedStep DEF Start
  <1>4. ASSUME NEW p \in Procs, Ffmpeg(p) PROVE Kept
    BY <1>4, SegmentStep, PlaylistStep, ExitStep DEF Ffmpeg
  <1>5. CASE Pass
    BY <1>5, PassStep
  <1>6. CASE Tick
    BY <1>6, TickStep
  <1> QED
    BY <1>1, <1>2, <1>3, <1>4, <1>5, <1>6 DEF Next, Step

\* The invariant is inductive.
THEOREM Invariant == Spec => []IInv
  <1>1. ASSUME IInv, [Next]_vars PROVE IInv'
    BY <1>1, StepKeeps DEF IInv, Kept
  <1> QED
    BY InitIInv, <1>1, PTL DEF Spec

\* Every value keeps its type, and no nil hlsProc is dereferenced.
THEOREM TypeCorrect == Spec => []TypeOK
  BY Invariant, PTL DEF IInv, Core, Files

\* startFFmpeg and hlsStarting: never two ffmpeg in one directory.
THEOREM OneWriter == Spec => []SingleWriter
  BY Invariant, Exclusive, PTL DEF IInv

\* The watchdog, or the worker about to publish it, knows every ffmpeg.
THEOREM NothingOrphaned == Spec => []NoOrphan
  BY Invariant, PTL DEF IInv, Core, Files

\* A new ffmpeg is never judged by the playlist of an earlier one.
THEOREM FilesAreItsOwn == Spec => []OwnFiles
  BY Invariant, PTL DEF IInv, Core, Files

\* No joiner is left waiting for a start that is over.
THEOREM NoWakeUpIsLost == Spec => []JoinerHasStarter
  BY Invariant, PTL DEF IInv, Core, Files

(***************************************************************************)
(* NoEarlyReap.  The age of a process's last request, which the watchdog    *)
(* reads, is never more than the age of its channel's: a process belongs to *)
(* one channel, and between its launch and its publication the clock stands *)
(* still, so that it enters the map as fresh as a request can be.           *)
(***************************************************************************)
Fresh ==
  \A k \in Channels : hlsState[k] # None => proc[hlsState[k]].last <= asked[k]

OneChannel ==
  \A j, k \in Channels : hlsState[j] = hlsState[k] /\ hlsState[k] # None => j = k

Publishing(w) == pc[w] = "publish" /\ st[w] # None

Unpublished ==
  \A w \in Workers : Publishing(w) =>
    /\ proc[st[w]].last = 0
    /\ \A k \in Channels : hlsState[k] # st[w]
    /\ \A u \in Workers : Publishing(u) /\ st[u] = st[w] => u = w

LastInv == Fresh /\ OneChannel /\ Unpublished

\* A step that adds nothing to the map or to what is about to enter it, and
\* makes no process look older.
NoOlder ==
  /\ \A k \in Channels : hlsState'[k] \in {hlsState[k], None}
  /\ \A p \in Procs : (\E k \in Channels : hlsState'[k] = p)
       \/ (\E w \in Workers : Publishing(w) /\ st[w] = p)
         => proc'[p].last \in {0, proc[p].last}
  /\ asked' = asked
  /\ \A w \in Workers : Publishing(w)' => Publishing(w) /\ st'[w] = st[w]

LEMMA LastTypes == ASSUME TypeOK
  PROVE  /\ \A k \in Channels : hlsState[k] \in Procs \cup {None} /\ asked[k] \in Nat
         /\ \A p \in Procs : proc[p].last \in Nat
         /\ \A w \in Workers : st[w] \in Procs \cup {None}
  <1>1. IDLE \in Nat
    BY HlsAssumption
  <1>2. \A x \in 0..(IDLE + 1) : x \in Nat
    BY <1>1
  <1> QED
    BY <1>2 DEF TypeOK, HlsProcs

LEMMA NoOlderStep == ASSUME TypeOK, LastInv, NoOlder PROVE LastInv'
  <1> USE Sets DEF LastInv
  <1>1. Fresh'
    <2> SUFFICES ASSUME NEW k \in Channels, hlsState'[k] # None
                 PROVE  proc'[hlsState'[k]].last <= asked'[k]
      BY DEF Fresh
    <2>1. hlsState'[k] = hlsState[k] /\ hlsState[k] \in Procs
      BY LastTypes DEF NoOlder
    <2>2. proc'[hlsState[k]].last \in {0, proc[hlsState[k]].last} /\ asked' = asked
      BY <2>1 DEF NoOlder
    <2>3. proc[hlsState[k]].last <= asked[k] /\ asked[k] \in Nat
      BY <2>1, LastTypes DEF Fresh
    <2> QED
      BY <2>1, <2>2, <2>3
  <1>2. OneChannel'
    BY DEF OneChannel, NoOlder
  <1>3. Unpublished'
    <2> SUFFICES ASSUME NEW w \in Workers, Publishing(w)'
                 PROVE  /\ proc'[st'[w]].last = 0
                        /\ \A k \in Channels : hlsState'[k] # st'[w]
                        /\ \A u \in Workers :
                             Publishing(u)' /\ st'[u] = st'[w] => u = w
      BY DEF Unpublished
    <2>1. Publishing(w) /\ st'[w] = st[w] /\ st[w] \in Procs
      BY LastTypes DEF NoOlder, Publishing
    <2>2. proc'[st[w]].last = 0
      BY <2>1 DEF NoOlder, Unpublished
    <2>3. \A k \in Channels : hlsState'[k] # st[w]
      BY <2>1 DEF NoOlder, Unpublished
    <2>4. ASSUME NEW u \in Workers, Publishing(u)', st'[u] = st'[w] PROVE u = w
      BY <2>1, <2>4 DEF NoOlder, Unpublished
    <2> QED
      BY <2>1, <2>2, <2>3, <2>4
  <1> QED
    BY <1>1, <1>2, <1>3

LEMMA AskLast == ASSUME Core, LastInv, NEW v \in Viewers, Ask(v) PROVE LastInv'
  <1> USE Sets DEF LastInv, Core
  <1>1. PICK k \in Channels :
          /\ asked' = [asked EXCEPT ![k] = 0]
          /\ \/ /\ hlsState[k] # None
                /\ proc' = [proc EXCEPT ![hlsState[k]].last = 0]
             \/ hlsState[k] = None /\ UNCHANGED proc
    BY DEF Ask
  <1>2. hlsState' = hlsState
    BY DEF Ask
  <1>3. ASSUME NEW p \in Procs
        PROVE  proc'[p].last = IF hlsState[k] = p THEN 0 ELSE proc[p].last
    <2>1. proc \in [Procs -> HlsProcs] /\ hlsState[k] \in Procs \cup {None}
      BY DEF TypeOK
    <2> QED
      BY <1>1, <2>1 DEF HlsProcs
  <1>4. ASSUME NEW u \in Workers, Publishing(u)' PROVE Publishing(u) /\ st'[u] = st[u]
    <2>1. pc'[v] \in {"file", "enter"} /\ \A x \in Workers : x # v =>
            pc'[x] = pc[x] /\ st'[x] = st[x]
      BY DEF Ask, Goto, TypeOK
    <2> QED
      BY <1>4, <2>1 DEF Publishing
  <1>5. Fresh'
    <2> SUFFICES ASSUME NEW j \in Channels, hlsState[j] # None
                 PROVE  proc'[hlsState[j]].last <= asked'[j]
      BY <1>2 DEF Fresh
    <2>1. hlsState[j] \in Procs /\ proc[hlsState[j]].last <= asked[j]
      BY LastTypes DEF Fresh
    <2>2. CASE j = k
      <3>1. proc'[hlsState[j]].last = 0 /\ asked'[j] = 0
        BY <1>1, <1>3, <2>1, <2>2 DEF TypeOK
      <3> QED
        BY <3>1
    <2>3. CASE j # k
      <3>1. hlsState[j] # hlsState[k]
        BY <2>1, <2>3 DEF OneChannel
      <3>2. proc'[hlsState[j]].last = proc[hlsState[j]].last /\ asked'[j] = asked[j]
        BY <1>1, <1>3, <2>1, <2>3, <3>1 DEF TypeOK
      <3> QED
        BY <2>1, <3>2
    <2> QED
      BY <2>2, <2>3
  <1>6. OneChannel'
    BY <1>2 DEF OneChannel
  <1>7. Unpublished'
    <2> SUFFICES ASSUME NEW w \in Workers, Publishing(w)'
                 PROVE  /\ proc'[st'[w]].last = 0
                        /\ \A j \in Channels : hlsState[j] # st'[w]
                        /\ \A u \in Workers :
                             Publishing(u)' /\ st'[u] = st'[w] => u = w
      BY <1>2 DEF Unpublished
    <2>1. Publishing(w) /\ st'[w] = st[w] /\ st[w] \in Procs
      BY <1>4, LastTypes DEF Publishing
    <2>2. proc'[st[w]].last = 0
      BY <1>3, <2>1 DEF Unpublished
    <2> QED
      BY <1>4, <2>1, <2>2 DEF Unpublished
  <1> QED
    BY <1>5, <1>6, <1>7

LEMMA LaunchLast == ASSUME Core, LastInv, NEW w \in Workers, Launch(w) PROVE LastInv'
  <1> USE Sets DEF LastInv, Core
  <1>1. CASE UNCHANGED <<proc, st>>
    <2>1. st[w] = None
      BY DEF NothingYet, Launch
    <2>2. \A u \in Workers : Publishing(u)' => Publishing(u) /\ st'[u] = st[u]
      BY <1>1, <2>1 DEF Launch, Goto, Publishing, TypeOK
    <2>3. NoOlder
      BY <1>1, <2>2 DEF NoOlder, Launch
    <2> QED
      BY <2>3, NoOlderStep
  <1>2. ASSUME NEW p \in Procs, Unused(p), st' = [st EXCEPT ![w] = p],
               proc' = [proc EXCEPT ![p] =
                 [running |-> TRUE, chan |-> chan[w], started |-> 0, last |-> 0]]
        PROVE  LastInv'
    <2>1. /\ hlsState' = hlsState /\ asked' = asked
          /\ \A u \in Workers : u # w => pc'[u] = pc[u] /\ st'[u] = st[u]
          /\ st'[w] = p
      BY <1>2 DEF Launch, Goto, TypeOK
    <2>2. /\ proc'[p].last = 0
          /\ \A q \in Procs : q # p => proc'[q].last = proc[q].last
      BY <1>2 DEF TypeOK
    <2>3. /\ \A k \in Channels : hlsState[k] # p
          /\ \A u \in Workers : st[u] # p
      BY <1>2 DEF Unused
    <2>4. Fresh'
      BY <2>1, <2>2, <2>3, LastTypes DEF Fresh
    <2>5. OneChannel'
      BY <2>1 DEF OneChannel
    <2>6. Unpublished'
      BY <2>1, <2>2, <2>3, LastTypes DEF Unpublished, Publishing
    <2> QED
      BY <2>4, <2>5, <2>6
  <1> QED
    BY <1>1, <1>2 DEF Launch

LEMMA PublishLast == ASSUME Core, LastInv, NEW w \in Workers, Publish(w) PROVE LastInv'
  <1> USE Sets DEF LastInv, Core
  <1>1. /\ proc' = proc /\ asked' = asked
        /\ \A u \in Workers : Publishing(u)' => Publishing(u) /\ st'[u] = st[u] /\ u # w
    BY DEF Publish, Awoken, AfterStart, Publishing, TypeOK
  <1>2. CASE st[w] = None
    <2>1. hlsState' = hlsState
      BY <1>2 DEF Publish
    <2>2. NoOlder
      BY <1>1, <2>1 DEF NoOlder
    <2> QED
      BY <2>2, NoOlderStep
  <1>3. CASE st[w] # None
    <2>1. /\ chan[w] \in Channels /\ Publishing(w)
          /\ hlsState' = [hlsState EXCEPT ![chan[w]] = st[w]]
      BY <1>3 DEF Publish, Publishing, TypeOK
    <2>2. /\ hlsState'[chan[w]] = st[w]
          /\ \A k \in Channels : k # chan[w] => hlsState'[k] = hlsState[k]
      BY <2>1 DEF TypeOK
    <2>3. proc[st[w]].last = 0 /\ \A k \in Channels : hlsState[k] # st[w]
      BY <2>1 DEF Unpublished
    <2>4. Fresh'
      BY <1>1, <2>1, <2>2, <2>3, LastTypes DEF Fresh
    <2>5. OneChannel'
      BY <2>1, <2>2, <2>3 DEF OneChannel
    <2>6. Unpublished'
      BY <1>1, <2>1, <2>2 DEF Unpublished
    <2> QED
      BY <2>4, <2>5, <2>6
  <1> QED
    BY <1>2, <1>3

LEMMA PassLast == ASSUME Core, LastInv, Pass PROVE LastInv'
  <1> USE Sets DEF LastInv, Core
  <1>1. asked' = asked /\ st' = st
    BY DEF Pass
  <1>2. \A k \in Channels : hlsState'[k] \in {hlsState[k], None}
    BY DEF Pass
  <1>3. ASSUME NEW p \in Procs, (\E k \in Channels : hlsState'[k] = p)
               \/ (\E w \in Workers : Publishing(w) /\ st[w] = p)
        PROVE  proc'[p].last = proc[p].last
    <2>1. \A k \in ToReap \cup ToRestart : hlsState[k] # p
      <3>1. CASE \E w \in Workers : Publishing(w) /\ st[w] = p
        BY <3>1 DEF Unpublished, ToReap, ToRestart, Held
      <3>2. ASSUME NEW j \in Channels, hlsState'[j] = p
            PROVE  \A k \in ToReap \cup ToRestart : hlsState[k] # p
        <4>1. j \notin ToReap \cup ToRestart /\ hlsState[j] = p
          BY <3>2 DEF Pass
        <4> QED
          BY <4>1 DEF OneChannel, ToReap, ToRestart, Held
      <3> QED
        BY <1>3, <3>1, <3>2
    <2> QED
      BY <2>1 DEF Pass, Killed
  <1>4. \A w \in Workers : Publishing(w)' => Publishing(w) /\ st'[w] = st[w]
    BY <1>1 DEF Pass, Publishing
  <1>5. NoOlder
    BY <1>1, <1>2, <1>3, <1>4 DEF NoOlder
  <1> QED
    BY <1>5, NoOlderStep

LEMMA OlderMonotone == ASSUME NEW a \in Nat, NEW b \in Nat, a <= b, NEW limit \in Nat,
                              b <= limit + 1
                       PROVE  Older(a, limit) <= Older(b, limit)
  BY DEF Older

LEMMA TickLast == ASSUME Core, LastInv, Tick PROVE LastInv'
  <1> USE Sets DEF LastInv, Core
  <1>1. hlsState' = hlsState /\ \A w \in Workers : ~Publishing(w)'
    BY DEF Tick, Publishing
  <1>2. Fresh'
    <2> SUFFICES ASSUME NEW k \in Channels, hlsState[k] # None
                 PROVE  proc'[hlsState[k]].last <= asked'[k]
      BY <1>1 DEF Fresh
    <2>1. hlsState[k] \in Procs /\ proc[hlsState[k]].last <= asked[k]
      BY LastTypes DEF Fresh
    <2>2. asked'[k] = Older(asked[k], IDLE)
      BY DEF Tick
    <2>3. proc'[hlsState[k]].last = Older(proc[hlsState[k]].last, IDLE)
      <3>1. proc[hlsState[k]] \in HlsProcs
        BY <2>1 DEF TypeOK
      <3> QED
        BY <2>1, <3>1 DEF Tick, HlsProcs
    <2>4. IDLE \in Nat /\ asked[k] \in 0..(IDLE + 1)
      BY HlsAssumption DEF TypeOK
    <2>5. proc[hlsState[k]].last \in Nat
      BY <2>1, LastTypes
    <2> QED
      BY <2>1, <2>2, <2>3, <2>4, <2>5, OlderMonotone
  <1>3. OneChannel' /\ Unpublished'
    BY <1>1 DEF OneChannel, Unpublished
  <1> QED
    BY <1>2, <1>3

LEMMA OtherLast ==
  ASSUME Core, LastInv,
         \/ UNCHANGED vars
         \/ \E v \in Viewers : Answer(v)
         \/ \E w \in Workers : Enter(w) \/ ResolveRoom(w) \/ Clear(w) \/ Joined(w)
         \/ \E p \in Procs : Ffmpeg(p)
  PROVE  LastInv'
  <1> USE Sets DEF LastInv, Core
  <1>1. CASE UNCHANGED vars
    BY <1>1, NoOlderStep DEF vars, NoOlder, Publishing
  <1>2. ASSUME NEW v \in Viewers, Answer(v) PROVE NoOlder
    BY <1>2 DEF Answer, WaitFile, WaitSegments, Deadline, Read, Goto, NoOlder,
                Publishing, TypeOK
  <1>3. ASSUME NEW w \in Workers, Enter(w) \/ Joined(w) PROVE NoOlder
    BY <1>3 DEF Enter, Joined, ReturnTo, Goto, NoOlder, Publishing, TypeOK
  <1>4. ASSUME NEW w \in Workers, ResolveRoom(w) \/ Clear(w) PROVE NoOlder
    <2>1. st[w] = None
      BY <1>4 DEF ResolveRoom, Clear, NothingYet
    <2> QED
      BY <1>4, <2>1 DEF ResolveRoom, Clear, Goto, NoOlder, Publishing, TypeOK
  <1>5. ASSUME NEW p \in Procs, Ffmpeg(p) PROVE NoOlder
    <2>1. \A q \in Procs : proc'[q].last = proc[q].last
      <3>1. CASE Segment(p) \/ Playlist(p)
        BY <3>1 DEF Segment, Playlist
      <3>2. CASE Exit(p)
        <4>1. /\ proc' = [proc EXCEPT ![p] = [NoProc EXCEPT !.last = proc[p].last]]
              /\ proc \in [Procs -> HlsProcs]
          BY <3>2 DEF Exit, TypeOK
        <4>2. [NoProc EXCEPT !.last = proc[p].last].last = proc[p].last
          BY DEF NoProc
        <4> QED
          BY <4>1, <4>2
      <3> QED
        BY <1>5, <3>1, <3>2 DEF Ffmpeg
    <2> QED
      BY <1>5, <2>1 DEF Ffmpeg, Segment, Playlist, Exit, NoOlder, Publishing
  <1> QED
    BY <1>1, <1>2, <1>3, <1>4, <1>5, NoOlderStep

LEMMA ReapedIdle == ASSUME Core, LastInv, NEW k \in Channels, Reaped(k)
                    PROVE  asked[k] > IDLE
  <1>1. hlsState[k] \in Procs /\ proc[hlsState[k]].last > IDLE
    BY LastTypes DEF Reaped, ToReap, Held, Idle, Core
  <1>2. proc[hlsState[k]].last <= asked[k]
    BY <1>1, Sets DEF LastInv, Fresh
  <1> QED
    BY <1>1, <1>2, LastTypes, HlsAssumption DEF Core

LEMMA LastInit == Init => LastInv
  BY Sets DEF Init, LastInv, Fresh, OneChannel, Unpublished, Publishing

LEMMA LastStep == ASSUME Core, LastInv, [Next]_vars PROVE LastInv'
  BY AskLast, LaunchLast, PublishLast, PassLast, TickLast, OtherLast DEF Next, Step, Start

\* The watchdog (hlsWatchdog) reaps a process as idle only when nobody has
\* asked for its channel for longer than IDLE, joined requests included.
THEOREM NoEarlyReapHolds == Spec => NoEarlyReap
  <1> DEFINE Late == \A k \in Channels : Reaped(k) => asked[k] > IDLE
  <1>1. ASSUME IInv, LastInv, [Next]_vars PROVE LastInv' /\ [Late]_vars
    BY <1>1, LastStep, ReapedIdle DEF IInv
  <1> QED
    BY <1>1, LastInit, Invariant, PTL DEF Spec, NoEarlyReap

(***************************************************************************)
(* Both services.  The newer one meets the older only in dir, which Core    *)
(* and LastInv do not depend on, but for its type; the older one meets the  *)
(* newer only in list, which no part of OldInv mentions.                    *)
(***************************************************************************)
OldTypes ==
  /\ hls_state \in [Channels -> OldProcs \cup {None}]
  /\ old_proc \in [OldProcs -> Old!Entries]
  /\ old_pc \in [Old!Threads -> Old!Labels]
  /\ old_key \in [Old!Threads -> Channels]
  /\ old_st \in [Old!Threads -> OldProcs \cup {None}]
  /\ \A h \in OldHandlers : old_pc[h] = "wait" => old_st[h] \in OldProcs

OldInv == OldTypes /\ Old!HasProcess /\ Old!StoredStays /\ OldNoKeyError

LEMMA ListRange == ASSUME TypeOK PROVE list \in [Channels -> 0..Old!Missing]
  <1>1. STALE \in Nat
    BY HlsAssumption
  <1>2. ASSUME NEW k \in Channels PROVE list[k] \in 0..(STALE + 2)
    <2>1. dir[k].age \in 0..(STALE + 1)
      BY DEF TypeOK, Dirs
    <2> QED
      BY <1>1, <2>1 DEF list
  <1> QED
    BY <1>2 DEF list, Old!Missing

LEMMA OldSets == /\ None \notin OldProcs
                 /\ Old!Watchdog \in Old!Threads /\ Old!Watchdog \notin OldHandlers
                 /\ \A h \in OldHandlers : h \in Old!Threads
  BY ServicesAssumption DEF Old!Threads

LEMMA OldAges == /\ IDLE \in Nat /\ WARMUP \in Nat
                 /\ 0 \in 0..(IDLE + 1) /\ 0 \in 0..(WARMUP + 1)
  BY HlsAssumption

LEMMA OldUsed == \A e \in Old!Entries : [e EXCEPT !.last = 0] \in Old!Entries
  BY OldAges DEF Old!Entries

LEMMA OldOlder == \A limit \in Nat : \A age \in 0..(limit + 1) :
                    Old!Older(age, limit) \in 0..(limit + 1)
  BY DEF Old!Older

LEMMA OldUse ==
  ASSUME OldTypes, NEW t \in Old!Threads, NEW p \in OldProcs, Old!Use(t, p),
         UNCHANGED <<hls_state, old_key>>
  PROVE  OldTypes'
  <1> USE OldSets DEF OldTypes, Old!Use, Old!Goto, Old!Labels
  <1>1. [old_proc[p] EXCEPT !.last = 0] \in Old!Entries
    BY OldUsed
  <1>2. old_proc' = old_proc \/ old_proc' = [old_proc EXCEPT ![p].last = 0]
    OBVIOUS
  <1>3. old_proc' \in [OldProcs -> Old!Entries]
    BY <1>1, <1>2
  <1> QED
    BY <1>3

LEMMA OldRequest == ASSUME OldInv, NEW h \in OldHandlers, Old!Request(h) PROVE OldInv'
  <1> USE OldSets DEF OldInv, Old!Request, Old!Goto
  <1>1. OldTypes'
    BY DEF OldTypes, Old!Labels
  <1>2. Old!HasProcess'
    BY DEF OldTypes, Old!HasProcess
  <1>3. Old!StoredStays'
    BY DEF OldTypes, Old!HasProcess, Old!StoredStays
  <1>4. OldNoKeyError'
    BY DEF OldTypes, Old!StoredStays, OldNoKeyError, Old!NoKeyError
  <1> QED
    BY <1>1, <1>2, <1>3, <1>4

LEMMA OldAnswer == ASSUME OldInv, NEW h \in OldHandlers, Old!Answer(h) PROVE OldInv'
  <1> USE OldSets DEF OldInv, Old!Answer, Old!Goto
  <1>1. OldTypes'
    BY DEF OldTypes, Old!Labels
  <1>2. Old!HasProcess'
    BY DEF OldTypes, Old!HasProcess
  <1>3. Old!StoredStays'
    BY DEF OldTypes, Old!HasProcess, Old!StoredStays
  <1>4. OldNoKeyError'
    BY DEF OldTypes, Old!StoredStays, OldNoKeyError, Old!NoKeyError
  <1> QED
    BY <1>1, <1>2, <1>3, <1>4

LEMMA OldCheck == ASSUME OldInv, NEW t \in Old!Threads, Old!Check(t) PROVE OldInv'
  <1> USE OldSets DEF OldInv, Old!Check, Old!Goto, Old!Use, Old!Alive
  <1>1. OldTypes'
    <2>1. hls_state[old_key[t]] \in OldProcs \cup {None}
      BY DEF OldTypes
    <2>2. CASE /\ Old!Alive(hls_state[old_key[t]])
               /\ Old!Use(t, hls_state[old_key[t]])
      BY <2>1, <2>2, OldUse
    <2>3. CASE ~Old!Alive(hls_state[old_key[t]])
      BY <2>3 DEF OldTypes, Old!Labels
    <2> QED
      BY <2>2, <2>3
  <1>2. Old!HasProcess'
    BY DEF OldTypes, Old!HasProcess
  <1>3. Old!StoredStays'
    BY DEF OldTypes, Old!HasProcess, Old!StoredStays
  <1>4. OldNoKeyError'
    BY DEF OldTypes, Old!StoredStays, OldNoKeyError, Old!NoKeyError
  <1> QED
    BY <1>1, <1>2, <1>3, <1>4

LEMMA OldResolve == ASSUME OldInv, NEW t \in Old!Threads, Old!Resolve(t) PROVE OldInv'
  <1> USE OldSets DEF OldInv, Old!Resolve, Old!Goto
  <1>1. OldTypes'
    BY DEF OldTypes, Old!Labels
  <1>2. Old!HasProcess'
    BY DEF OldTypes, Old!HasProcess
  <1>3. Old!StoredStays'
    BY DEF OldTypes, Old!HasProcess, Old!StoredStays
  <1>4. OldNoKeyError'
    BY DEF OldTypes, Old!StoredStays, OldNoKeyError, Old!NoKeyError
  <1> QED
    BY <1>1, <1>2, <1>3, <1>4

LEMMA OldClear == ASSUME OldInv, NEW t \in Old!Threads, Old!Clear(t) PROVE OldInv'
  <1> USE OldSets DEF OldInv, Old!Clear, Old!Goto
  <1>1. OldTypes'
    BY DEF OldTypes, Old!Labels
  <1>2. Old!HasProcess'
    BY DEF OldTypes, Old!HasProcess
  <1>3. Old!StoredStays'
    BY DEF OldTypes, Old!HasProcess, Old!StoredStays
  <1>4. OldNoKeyError'
    BY DEF OldTypes, Old!StoredStays, OldNoKeyError, Old!NoKeyError
  <1> QED
    BY <1>1, <1>2, <1>3, <1>4

LEMMA OldSpawn == ASSUME OldInv, NEW t \in Old!Threads, Old!Spawn(t) PROVE OldInv'
  <1> USE OldSets DEF OldInv, Old!Spawn, Old!Goto, Old!Raise
  <1>1. OldTypes'
    <2>1. /\ old_proc' \in [OldProcs -> Old!Entries]
          /\ old_st' \in [Old!Threads -> OldProcs \cup {None}]
      <3>1. [running |-> TRUE, key |-> old_key[t], started |-> 0, last |-> 0]
              \in Old!Entries
        BY OldAges DEF OldTypes, Old!Entries
      <3> QED
        <4>1. CASE UNCHANGED <<old_st, old_proc>>
          BY <4>1 DEF OldTypes
        <4>2. CASE \E p \in OldProcs :
                     /\ old_st' = [old_st EXCEPT ![t] = p]
                     /\ old_proc' = [old_proc EXCEPT ![p] =
                          [running |-> TRUE, key |-> old_key[t],
                           started |-> 0, last |-> 0]]
          BY <3>1, <4>2 DEF OldTypes
        <4> QED
          BY <4>1, <4>2
    <2>2. /\ old_pc' \in [Old!Threads -> Old!Labels]
          /\ old_pc'[t] \in {"store", "OSError", "idle"}
          /\ \A u \in Old!Threads : u # t =>
               old_pc'[u] = old_pc[u] /\ old_st'[u] = old_st[u]
      BY DEF OldTypes, Old!Labels
    <2> QED
      BY <2>1, <2>2 DEF OldTypes
  <1>2. Old!HasProcess'
    BY DEF OldTypes, Old!HasProcess
  <1>3. Old!StoredStays'
    BY DEF OldTypes, Old!HasProcess, Old!StoredStays
  <1>4. OldNoKeyError'
    BY DEF OldTypes, Old!StoredStays, OldNoKeyError, Old!NoKeyError
  <1> QED
    BY <1>1, <1>2, <1>3, <1>4

LEMMA OldStore == ASSUME OldInv, NEW t \in Old!Threads, Old!Store(t) PROVE OldInv'
  <1> USE OldSets DEF OldInv, Old!Store, Old!Goto
  <1>1. OldTypes'
    <2>1. old_proc' \in [OldProcs -> Old!Entries]
      BY OldAges DEF OldTypes, Old!Entries
    <2> QED
      BY <2>1 DEF OldTypes, Old!HasProcess, Old!Labels
  <1>2. Old!HasProcess'
    BY DEF OldTypes, Old!HasProcess
  <1>3. Old!StoredStays'
    BY DEF OldTypes, Old!HasProcess, Old!StoredStays
  <1>4. OldNoKeyError'
    BY DEF OldTypes, Old!StoredStays, OldNoKeyError, Old!NoKeyError
  <1> QED
    BY <1>1, <1>2, <1>3, <1>4

LEMMA OldResult == ASSUME OldInv, NEW t \in Old!Threads, Old!Result(t) PROVE OldInv'
  <1> USE OldSets DEF OldInv, Old!Result, Old!Goto, Old!Use, Old!Raise
  <1>1. OldTypes'
    <2>1. hls_state[old_key[t]] \in OldProcs \cup {None}
      BY DEF OldTypes
    <2>2. CASE hls_state[old_key[t]] # None
      BY <2>1, <2>2, OldUse
    <2>3. CASE hls_state[old_key[t]] = None
      BY <2>3 DEF OldTypes, Old!Labels
    <2> QED
      BY <2>2, <2>3
  <1>2. Old!HasProcess'
    BY DEF OldTypes, Old!HasProcess
  <1>3. Old!StoredStays'
    BY DEF OldTypes, Old!HasProcess, Old!StoredStays
  <1>4. OldNoKeyError'
    BY DEF OldTypes, Old!StoredStays, OldNoKeyError, Old!NoKeyError
  <1> QED
    BY <1>1, <1>2, <1>3, <1>4

LEMMA OldLook == ASSUME OldInv, Old!Look PROVE OldInv'
  <1> USE OldSets DEF OldInv, Old!Look, Old!Goto, Old!Judge
  <1>1. OldTypes'
    <2>1. PICK k \in Channels :
            /\ hls_state[k] # None
            /\ old_key' = [old_key EXCEPT ![Old!Watchdog] = k]
            /\ \/ /\ old_pc' = [old_pc EXCEPT ![Old!Watchdog] = "stat"]
                  /\ UNCHANGED old_st
               \/ Old!Judge(k, old_proc[hls_state[k]].started > WARMUP)
      OBVIOUS
    <2>2. hls_state[k] \in OldProcs \cup {None} /\ UNCHANGED <<hls_state, old_proc>>
      BY DEF OldTypes
    <2>3. \E label \in {"stat", "stop idle", "stop dead", "idle"} :
            old_pc' = [old_pc EXCEPT ![Old!Watchdog] = label]
      BY <2>1
    <2>4. \/ UNCHANGED old_st
          \/ \E p \in OldProcs \cup {None} : old_st' = [old_st EXCEPT ![Old!Watchdog] = p]
      BY <2>1, <2>2
    <2>5. /\ old_pc' \in [Old!Threads -> Old!Labels]
          /\ old_st' \in [Old!Threads -> OldProcs \cup {None}]
      BY <2>3, <2>4 DEF OldTypes, Old!Labels
    <2>6. \A h \in OldHandlers : old_pc'[h] = old_pc[h] /\ old_st'[h] = old_st[h]
      BY <2>3, <2>4 DEF OldTypes
    <2> QED
      BY <2>1, <2>2, <2>5, <2>6 DEF OldTypes
  <1>2. Old!HasProcess'
    BY DEF OldTypes, Old!HasProcess
  <1>3. Old!StoredStays'
    BY DEF OldTypes, Old!HasProcess, Old!StoredStays
  <1>4. OldNoKeyError'
    BY DEF OldTypes, Old!StoredStays, OldNoKeyError, Old!NoKeyError
  <1> QED
    BY <1>1, <1>2, <1>3, <1>4

LEMMA OldStat == ASSUME OldInv, Old!Stat PROVE OldInv'
  <1> USE OldSets DEF OldInv, Old!Stat, Old!Goto, Old!Judge, Old!Raise
  <1>1. OldTypes'
    <2>1. /\ hls_state[old_key[Old!Watchdog]] \in OldProcs \cup {None}
          /\ UNCHANGED <<hls_state, old_proc, old_key>>
      BY DEF OldTypes
    <2>2. \E label \in {"OSError", "stop idle", "stop dead", "idle"} :
            old_pc' = [old_pc EXCEPT ![Old!Watchdog] = label]
      OBVIOUS
    <2>3. \/ UNCHANGED old_st
          \/ \E p \in OldProcs \cup {None} : old_st' = [old_st EXCEPT ![Old!Watchdog] = p]
      BY <2>1
    <2>4. /\ old_pc' \in [Old!Threads -> Old!Labels]
          /\ old_st' \in [Old!Threads -> OldProcs \cup {None}]
      BY <2>2, <2>3 DEF OldTypes, Old!Labels
    <2>5. \A h \in OldHandlers : old_pc'[h] = old_pc[h] /\ old_st'[h] = old_st[h]
      BY <2>2, <2>3 DEF OldTypes
    <2> QED
      BY <2>1, <2>4, <2>5 DEF OldTypes
  <1>2. Old!HasProcess'
    BY DEF OldTypes, Old!HasProcess
  <1>3. Old!StoredStays'
    BY DEF OldTypes, Old!HasProcess, Old!StoredStays
  <1>4. OldNoKeyError'
    BY DEF OldTypes, Old!StoredStays, OldNoKeyError, Old!NoKeyError
  <1> QED
    BY <1>1, <1>2, <1>3, <1>4

LEMMA OldStop == ASSUME OldInv, Old!Stop PROVE OldInv'
  <1> USE OldSets DEF OldInv, Old!Stop, Old!Goto
  <1>1. OldTypes'
    <2>1. old_proc' \in [OldProcs -> Old!Entries]
      BY DEF OldTypes, Old!Entries
    <2> QED
      BY <2>1 DEF OldTypes, Old!Labels
  <1>2. Old!HasProcess'
    BY DEF OldTypes, Old!HasProcess
  <1>3. Old!StoredStays'
    BY DEF OldTypes, Old!HasProcess, Old!StoredStays
  <1>4. OldNoKeyError'
    BY DEF OldTypes, Old!StoredStays, OldNoKeyError, Old!NoKeyError
  <1> QED
    BY <1>1, <1>2, <1>3, <1>4

LEMMA OldPop == ASSUME OldInv, Old!Pop PROVE OldInv'
  <1> USE OldSets DEF OldInv, Old!Pop, Old!Goto
  <1>1. OldTypes'
    BY DEF OldTypes, Old!Labels
  <1>2. Old!HasProcess'
    BY DEF OldTypes, Old!HasProcess
  <1>3. Old!StoredStays'
    BY DEF OldTypes, Old!HasProcess, Old!StoredStays
  <1>4. OldNoKeyError'
    BY DEF OldTypes, Old!StoredStays, OldNoKeyError, Old!NoKeyError
  <1> QED
    BY <1>1, <1>2, <1>3, <1>4

LEMMA OldRmtree == ASSUME OldInv, Old!Rmtree PROVE OldInv'
  <1> USE OldSets DEF OldInv, Old!Rmtree, Old!Goto
  <1>1. OldTypes'
    BY DEF OldTypes, Old!Labels
  <1>2. Old!HasProcess'
    BY DEF OldTypes, Old!HasProcess
  <1>3. Old!StoredStays'
    BY DEF OldTypes, Old!HasProcess, Old!StoredStays
  <1>4. OldNoKeyError'
    BY DEF OldTypes, Old!StoredStays, OldNoKeyError, Old!NoKeyError
  <1> QED
    BY <1>1, <1>2, <1>3, <1>4

LEMMA OldExit == ASSUME OldInv, NEW p \in OldProcs, Old!Exit(p) PROVE OldInv'
  <1> USE OldSets DEF OldInv, Old!Exit, Old!NoProc
  <1>1. OldTypes'
    <2>1. old_proc[p].last \in 0..(IDLE + 1)
      BY DEF OldTypes, Old!Entries
    <2>2. [Old!NoProc EXCEPT !.last = old_proc[p].last] \in Old!Entries
      BY <2>1, OldAges DEF Old!Entries
    <2> QED
      BY <2>2 DEF OldTypes
  <1>2. Old!HasProcess'
    BY DEF OldTypes, Old!HasProcess
  <1>3. Old!StoredStays'
    BY DEF OldTypes, Old!HasProcess, Old!StoredStays
  <1>4. OldNoKeyError'
    BY DEF OldTypes, Old!StoredStays, OldNoKeyError, Old!NoKeyError
  <1> QED
    BY <1>1, <1>2, <1>3, <1>4

LEMMA OldTick == ASSUME OldInv, Old!Tick PROVE OldInv'
  <1> USE OldSets DEF OldInv, Old!Tick
  <1>1. OldTypes'
    <2>1. ASSUME NEW p \in OldProcs PROVE old_proc'[p] \in Old!Entries
      <3>1. old_proc[p] \in Old!Entries
        BY DEF OldTypes
      <3>2. /\ Old!Older(old_proc[p].started, WARMUP) \in 0..(WARMUP + 1)
            /\ Old!Older(old_proc[p].last, IDLE) \in 0..(IDLE + 1)
        <4>1. /\ old_proc[p].started \in 0..(WARMUP + 1)
              /\ old_proc[p].last \in 0..(IDLE + 1)
          BY <3>1 DEF Old!Entries
        <4> QED
          BY <4>1, OldAges, OldOlder
      <3> QED
        BY <3>1, <3>2 DEF Old!Entries
    <2> QED
      BY <2>1 DEF OldTypes
  <1>2. Old!HasProcess'
    BY DEF OldTypes, Old!HasProcess
  <1>3. Old!StoredStays'
    BY DEF OldTypes, Old!HasProcess, Old!StoredStays
  <1>4. OldNoKeyError'
    BY DEF OldTypes, Old!StoredStays, OldNoKeyError, Old!NoKeyError
  <1> QED
    BY <1>1, <1>2, <1>3, <1>4

LEMMA OldInit == ASSUME Old!Init PROVE OldInv
  <1> USE OldSets DEF Old!Init
  <1>1. Old!NoProc \in Old!Entries
    BY OldAges DEF Old!NoProc, Old!Entries
  <1>2. OldTypes
    BY <1>1, HlsAssumption DEF OldTypes, Old!Labels
  <1> QED
    BY <1>2 DEF OldInv, Old!HasProcess, Old!StoredStays, OldNoKeyError, Old!NoKeyError

LEMMA OldNext == ASSUME OldInv, Old!Next \/ UNCHANGED oldVars PROVE OldInv'
  <1>1. CASE UNCHANGED oldVars
    BY <1>1 DEF oldVars, OldInv, OldTypes, Old!HasProcess, Old!StoredStays,
                OldNoKeyError, Old!NoKeyError
  <1>2. CASE Old!Aside
    BY <1>2, OldRequest, OldAnswer, OldCheck, OldResolve, OldSpawn, OldStore,
       OldResult, OldLook, OldStat, OldStop, OldPop, OldExit DEF Old!Aside
  <1>3. ASSUME NEW t \in Old!Threads, Old!Clear(t) PROVE OldInv'
    BY <1>3, OldClear
  <1>4. CASE Old!Rmtree
    BY <1>4, OldRmtree
  <1>5. ASSUME NEW p \in OldProcs, Old!Playlist(p) PROVE OldInv'
    <2>1. UNCHANGED oldVars
      BY <1>5 DEF Old!Playlist, oldVars
    <2> QED
      BY <2>1, <1>1
  <1>6. CASE Old!Tick
    BY <1>6, OldTick
  <1> QED
    BY <1>1, <1>2, <1>3, <1>4, <1>5, <1>6 DEF Old!Next, Old!Step

\* A step of the older service is one of PyHls, or leaves it as it is while
\* its ffmpeg writes a segment.
LEMMA OldStepIsStep == ASSUME OldStep PROVE Old!Next \/ UNCHANGED oldVars
  BY DEF OldStep, OldRemoves, OldWrites, Old!Next, Old!Step

LEMMA OldLeavesCore == ASSUME Core, OldTypes, OldStep PROVE Core' /\ UNCHANGED goVars
  <1> USE Sets DEF Core
  <1>1. UNCHANGED goVars
    BY DEF OldStep
  <1>2. dir \in [Channels -> Dirs]
    BY DEF TypeOK
  <1>3. dir' \in [Channels -> Dirs]
    <2>1. 0 \in 0..(STALE + 1)
      BY HlsAssumption
    <2>2. CASE UNCHANGED dir
      BY <1>2, <2>2
    <2>3. CASE OldRemoves
      <3>1. NoFiles \in Dirs
        BY <2>1 DEF NoFiles, Dirs
      <3> QED
        BY <1>2, <2>3, <3>1 DEF OldRemoves, Removed
    <2>4. ASSUME NEW p \in OldProcs, OldWrites(p) PROVE dir' \in [Channels -> Dirs]
      <3>1. [by |-> None, segments |-> TRUE, list |-> TRUE, age |-> 0] \in Dirs
        BY <2>1 DEF Dirs
      <3>2. \A d \in Dirs : [d EXCEPT !.by = None, !.segments = TRUE] \in Dirs
        BY DEF Dirs
      <3> DEFINE k == old_proc[p].key
      <3>3. \/ dir' = [dir EXCEPT ![k] = [@ EXCEPT !.by = None, !.segments = TRUE]]
            \/ dir' = [dir EXCEPT ![k] =
                         [by |-> None, segments |-> TRUE, list |-> TRUE, age |-> 0]]
        BY <2>4 DEF OldWrites
      <3>4. ASSUME NEW c \in Channels PROVE dir'[c] \in Dirs
        <4>1. dir'[c] \in {dir[c], [dir[c] EXCEPT !.by = None, !.segments = TRUE],
                           [by |-> None, segments |-> TRUE, list |-> TRUE, age |-> 0]}
          BY <1>2, <3>3
        <4> QED
          BY <1>2, <3>1, <3>2, <4>1
      <3>5. dir' = [c \in Channels |-> dir'[c]]
        BY <1>2, <3>3
      <3> QED
        BY <3>4, <3>5
    <2> QED
      BY <2>2, <2>3, <2>4 DEF OldStep
  <1>4. TypeOK'
    BY <1>1, <1>3 DEF TypeOK, goVars
  <1>5. /\ StartersListed' /\ StartingIsAbsent' /\ NothingYet' /\ RightChannel'
        /\ NoOrphan' /\ JoinerHasStarter'
    BY <1>1 DEF goVars, StartersListed, StartingIsAbsent, NothingYet, RightChannel,
                NoOrphan, Running, JoinerHasStarter
  <1> QED
    BY <1>1, <1>4, <1>5

\* What the two services keep, each in spite of the other: neither the starts
\* nor the map of the newer one, nor the entries of the older one, depend on
\* what the shared directory holds.
BothInv == Core /\ LastInv /\ OldInv

THEOREM BothServices == ServicesSpec => []BothInv
  <1>1. ServicesInit => BothInv
    BY InitIInv, LastInit, OldInit DEF ServicesInit, BothInv, IInv
  <1>2. ASSUME BothInv, [ServicesNext]_<<vars, oldVars>> PROVE BothInv'
    <2> USE <1>2 DEF BothInv
    <2>1. CASE GoStep \/ UNCHANGED <<vars, oldVars>>
      BY <2>1, StepKeeps, LastStep, OldNext DEF GoStep, Next, Kept
    <2>2. CASE OldStep
      <3>1. Core' /\ UNCHANGED goVars
        BY <2>2, OldLeavesCore DEF OldInv
      <3>2. LastInv'
        BY <3>1, NoOlderStep DEF goVars, NoOlder, Publishing, Core
      <3>3. OldInv'
        BY <2>2, OldStepIsStep, OldNext
      <3> QED
        BY <3>1, <3>2, <3>3
    <2>3. CASE Tick /\ Old!Tick
      BY <2>3, StepKeeps, LastStep, OldTick DEF Next, Kept
    <2> QED
      BY <2>1, <2>2, <2>3, <1>2 DEF ServicesNext
  <1> QED
    BY <1>1, <1>2, PTL DEF ServicesSpec

\* startFFmpeg: of its own the newer service has one ffmpeg per channel.
THEOREM OneWriterOfItsOwn == ServicesSpec => []SingleWriter
  BY BothServices, Exclusive, PTL DEF BothInv

\* It loses none of them, whatever files the older service removes.
THEOREM NothingOrphanedByOld == ServicesSpec => []NoOrphan
  BY BothServices, PTL DEF BothInv, Core

\* It forgets none of the requests that wait for a start.
THEOREM NoWakeUpIsLostByOld == ServicesSpec => []JoinerHasStarter
  BY BothServices, PTL DEF BothInv, Core

\* Its watchdog still reaps as idle only what nobody asked it for.
THEOREM NoEarlyReapByOld == ServicesSpec => NoEarlyReap
  <1> DEFINE Late == \A k \in Channels : Reaped(k) => asked[k] > IDLE
  <1>1. ASSUME BothInv, [ServicesNext]_<<vars, oldVars>> PROVE [Late]_vars
    BY <1>1, ReapedIdle DEF BothInv
  <1> QED
    BY <1>1, BothServices, PTL DEF ServicesSpec, NoEarlyReap

\* stream-proxy.py: every value keeps its type, and no handler waits for an
\* entry that is not there.
THEOREM OldTypeCorrect == ServicesSpec => []OldTypeOK
  <1>1. BothInv => OldTypeOK
    BY ListRange DEF BothInv, Core, OldInv, OldTypes, OldTypeOK, Old!TypeOK
  <1> QED
    BY <1>1, BothServices, PTL

\* The watchdog of stream-proxy.py never meets the KeyError of start_ffmpeg.
THEOREM OldMeetsNoKeyError == ServicesSpec => []OldNoKeyError
  BY BothServices, PTL DEF BothInv, OldInv
=============================================================================
