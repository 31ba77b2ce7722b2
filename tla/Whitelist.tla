----------------------------- MODULE Whitelist ------------------------------
(***************************************************************************)
(* Which Douyu rooms a playlist shows: the health check of health.go, the  *)
(* snapshot file it leaves, and the playlists of m3u.go that hide the      *)
(* rooms the snapshot does not list.                                       *)
(*                                                                         *)
(* Four parties meet in two files.  Checkers are goroutines that run       *)
(* runHealthCheck (at start, by the timer, or triggered by a playlist      *)
(* request); Requests build a playlist; a process of its own replaces the  *)
(* catalogue, channels.json (module CatalogSync); and the server may       *)
(* crash and start again, which keeps the files only.  Times are ages that *)
(* stop counting where the code stops telling them apart.                  *)
(***************************************************************************)
EXTENDS Naturals, FiniteSets

CONSTANTS
  Rooms,
  Checkers,
  Requests,
  ALIVE_MAXAGE,    \* 300 s: older snapshots hide nothing
  ALIVE_TRIGGER,   \* 300 s: older snapshots make a playlist request check
  RECENT           \* 60 s between the starts of triggered checks

ASSUME WhitelistAssumption ==
  {ALIVE_MAXAGE, ALIVE_TRIGGER, RECENT} \subseteq Nat \ {0}

VARIABLES
  catalog,        \* the Douyu rooms of channels.json, {} when it is missing
  snapshot,       \* douyu-alive.txt.json
  tmp,            \* douyu-alive.txt.json.tmp
  healthRunning,  \* the compare-and-swap lock
  sinceRun,       \* age of healthLastRun
  pc,             \* checkers and requests
  check,          \* the locals of each running check
  ch,             \* the catalogue each request has loaded
  seen,           \* the snapshot maybeTriggerHealth has read, but for its list
  failed          \* age of the last failed test of each room (history)

vars == <<catalog, snapshot, tmp, healthRunning, sinceRun, pc, check, ch, seen,
          failed>>

\* Ages beyond every limit are one age.
Old == IF ALIVE_MAXAGE > ALIVE_TRIGGER THEN ALIVE_MAXAGE ELSE ALIVE_TRIGGER
Ages == 0..Old

\* A file may be absent or unreadable (torn), which the code treats alike,
\* or hold a snapshot.
Snapshots == [whole : BOOLEAN, catalog : SUBSET Rooms, age : Ages, alive : SUBSET Rooms]
NoSnapshot == [whole |-> FALSE, catalog |-> {}, age |-> Old, alive |-> {}]
Checks == [catalog : SUBSET Rooms, age : Ages, todo : SUBSET Rooms,
           candidates : SUBSET Rooms, alive : SUBSET Rooms]
NoCheck == [catalog |-> {}, age |-> 0, todo |-> {}, candidates |-> {}, alive |-> {}]

CheckLabels == {"idle", "enter", "begin", "resolve", "pull", "open", "write",
                "rename", "release"}
RequestLabels == {"idle", "recent", "age", "compare", "load", "filter"}

TypeOK ==
  /\ catalog \in SUBSET Rooms
  /\ snapshot \in Snapshots /\ tmp \in Snapshots
  /\ healthRunning \in BOOLEAN
  /\ sinceRun \in 0..RECENT
  /\ pc \in [Checkers \cup Requests -> CheckLabels \cup RequestLabels]
  /\ check \in [Checkers -> Checks]
  /\ ch \in [Requests -> SUBSET Rooms]
  /\ seen \in [Requests -> Snapshots]
  /\ failed \in [Rooms -> Ages]

Goto(x, label) == pc' = [pc EXCEPT ![x] = label]

\* main starts with a check; the files may be left from an earlier run.
Init ==
  /\ catalog \in SUBSET Rooms
  /\ snapshot = NoSnapshot /\ tmp = NoSnapshot
  /\ healthRunning = FALSE
  /\ sinceRun = RECENT
  /\ pc = [x \in Checkers \cup Requests |-> "idle"]
  /\ check = [h \in Checkers |-> NoCheck]
  /\ ch = [q \in Requests |-> {}]
  /\ seen = [q \in Requests |-> NoSnapshot]
  /\ failed = [r \in Rooms |-> Old]

(***************************************************************************)
(* runHealthCheck                                                          *)
(***************************************************************************)
\* At start and every HealthIntervalS; a triggered one is started by Age.
Launch(h) ==
  /\ pc[h] = "idle"
  /\ Goto(h, "enter")
  /\ UNCHANGED <<catalog, snapshot, tmp, healthRunning, sinceRun, check, ch, seen, failed>>

\* CompareAndSwap, or not.
EnterUnlocked(h) ==
  /\ pc[h] = "enter"
  /\ healthRunning' = TRUE
  /\ Goto(h, "begin")
  /\ UNCHANGED <<catalog, snapshot, tmp, sinceRun, check, ch, seen, failed>>
Enter(h) ==
  /\ pc[h] = "enter"
  /\ healthRunning' = TRUE
  /\ Goto(h, IF healthRunning THEN "idle" ELSE "begin")
  /\ UNCHANGED <<catalog, snapshot, tmp, sinceRun, check, ch, seen, failed>>

\* Without a catalogue there is nothing to check, and the snapshot stays.
BeginForgets(h) ==
  /\ pc[h] = "begin"
  /\ sinceRun' = 0
  /\ check' = [check EXCEPT ![h] =
       [NoCheck EXCEPT !.catalog = catalog, !.todo = catalog]]
  /\ Goto(h, IF catalog = {} THEN "idle" ELSE "resolve")
  /\ UNCHANGED <<catalog, snapshot, tmp, healthRunning, ch, seen, failed>>
Begin(h) ==
  /\ pc[h] = "begin"
  /\ sinceRun' = 0
  /\ check' = [check EXCEPT ![h] =
       [NoCheck EXCEPT !.catalog = catalog, !.todo = catalog]]
  /\ Goto(h, IF catalog = {} THEN "release" ELSE "resolve")
  /\ UNCHANGED <<catalog, snapshot, tmp, healthRunning, ch, seen, failed>>

\* Stage 1, room by room in random order: two fresh resolutions at most.
ResolveRoom(h) ==
  /\ pc[h] = "resolve"
  /\ \/ \E r \in check[h].todo :
          \/ /\ check' = [check EXCEPT ![h].todo = @ \ {r},
                                       ![h].candidates = @ \cup {r}]
             /\ UNCHANGED failed
          \/ /\ check' = [check EXCEPT ![h].todo = @ \ {r}]
             /\ failed' = [failed EXCEPT ![r] = 0]
        /\ UNCHANGED pc
     \/ /\ check[h].todo = {}
        /\ Goto(h, "pull")
        /\ UNCHANGED <<check, failed>>
  /\ UNCHANGED <<catalog, snapshot, tmp, healthRunning, sinceRun, ch, seen>>

\* Stage 2: the pulls end in any order and append to alive under a mutex;
\* wg.Wait waits for all.
PullRoom(h) ==
  /\ pc[h] = "pull"
  /\ \/ \E r \in check[h].candidates :
          \/ /\ check' = [check EXCEPT ![h].candidates = @ \ {r},
                                       ![h].alive = @ \cup {r}]
             /\ UNCHANGED failed
          \/ /\ check' = [check EXCEPT ![h].candidates = @ \ {r}]
             /\ failed' = [failed EXCEPT ![r] = 0]
        /\ UNCHANGED pc
     \/ /\ check[h].candidates = {}
        /\ Goto(h, "open")
        /\ UNCHANGED <<check, failed>>
  /\ UNCHANGED <<catalog, snapshot, tmp, healthRunning, sinceRun, ch, seen>>

\* writeAliveSnapshot: os.WriteFile truncates and then writes, or fails at
\* either, which ends the writing but not the check.
Open(h) ==
  /\ pc[h] = "open"
  /\ \/ tmp' = NoSnapshot /\ Goto(h, "write")
     \/ Goto(h, "release") /\ UNCHANGED tmp
  /\ UNCHANGED <<catalog, snapshot, healthRunning, sinceRun, check, ch, seen, failed>>

\* The date of the snapshot is the start of its check, and its catalogue
\* the one that was checked.
ResultDatedNow(h) ==
  [whole |-> TRUE, catalog |-> check[h].catalog, age |-> 0,
   alive |-> check[h].alive]
Result(h) ==
  [whole |-> TRUE, catalog |-> check[h].catalog, age |-> check[h].age,
   alive |-> check[h].alive]

Write(h) ==
  /\ pc[h] = "write"
  /\ \/ tmp' = Result(h) /\ Goto(h, "rename")
     \/ Goto(h, "release") /\ UNCHANGED tmp
  /\ UNCHANGED <<catalog, snapshot, healthRunning, sinceRun, check, ch, seen, failed>>

\* os.Rename: whatever the temporary file holds becomes the snapshot.
Rename(h) ==
  /\ pc[h] = "rename"
  /\ \/ snapshot' = tmp /\ tmp' = NoSnapshot
     \/ UNCHANGED <<snapshot, tmp>>
  /\ Goto(h, "release")
  /\ UNCHANGED <<catalog, healthRunning, sinceRun, check, ch, seen, failed>>

\* The deferred store, after the old text file has been written for others.
Release(h) ==
  /\ pc[h] = "release"
  /\ healthRunning' = FALSE
  /\ check' = [check EXCEPT ![h] = NoCheck]
  /\ Goto(h, "idle")
  /\ UNCHANGED <<catalog, snapshot, tmp, sinceRun, ch, seen, failed>>

(***************************************************************************)
(* A playlist request: maybeTriggerHealth runs beside it and is a request  *)
(* of its own here.                                                        *)
(***************************************************************************)
Ask(q) ==
  /\ pc[q] = "idle"
  /\ \E label \in {"recent", "load"} : Goto(q, label)
  /\ UNCHANGED <<catalog, snapshot, tmp, healthRunning, sinceRun, check, ch, seen, failed>>

\* maybeTriggerHealth: nothing within RECENT of the last start.
Recent(q) ==
  /\ pc[q] = "recent"
  /\ Goto(q, IF sinceRun < RECENT THEN "idle" ELSE "age")
  /\ UNCHANGED <<catalog, snapshot, tmp, healthRunning, sinceRun, check, ch, seen, failed>>

Trigger(q) ==
  \E h \in Checkers :
    /\ pc[h] = "idle"
    /\ pc' = [pc EXCEPT ![q] = "idle", ![h] = "enter"]

\* aliveAgeSec reads the snapshot, and says -1 if it cannot ...
ReadSnapshot(q) ==
  /\ pc[q] = "age"
  /\ \/ ~snapshot.whole /\ Trigger(q) /\ UNCHANGED seen
     \/ /\ snapshot.whole
        /\ seen' = [seen EXCEPT ![q] = [snapshot EXCEPT !.alive = {}]]
        /\ Goto(q, "compare")
  /\ UNCHANGED <<catalog, snapshot, tmp, healthRunning, sinceRun, check, ch, failed>>

\* ... and then the catalogue: -1 if the snapshot is of another one.
NeedsCheck(s) == s.catalog # catalog \/ s.age >= ALIVE_TRIGGER

Age(q) ==
  /\ pc[q] = "compare"
  /\ seen' = [seen EXCEPT ![q] = NoSnapshot]
  /\ IF NeedsCheck(seen[q]) THEN Trigger(q) ELSE Goto(q, "idle")
  /\ UNCHANGED <<catalog, snapshot, tmp, healthRunning, sinceRun, check, ch, failed>>

\* aggregateM3U and lineM3U load the catalogue once ...
Load(q) ==
  /\ pc[q] = "load"
  /\ ch' = [ch EXCEPT ![q] = catalog]
  /\ Goto(q, "filter")
  /\ UNCHANGED <<catalog, snapshot, tmp, healthRunning, sinceRun, check, seen, failed>>

\* ... and hide from it what aliveWhitelistFor says, if it says anything.
UsableAnyCatalog(rooms) == snapshot.whole /\ snapshot.age < ALIVE_MAXAGE
Usable(rooms) ==
  /\ snapshot.whole
  /\ snapshot.age < ALIVE_MAXAGE
  /\ snapshot.catalog = rooms

Hidden(rooms) == IF Usable(rooms) THEN rooms \ snapshot.alive ELSE {}

Filter(q) ==
  /\ pc[q] = "filter"
  /\ ch' = [ch EXCEPT ![q] = {}]
  /\ Goto(q, "idle")
  /\ UNCHANGED <<catalog, snapshot, tmp, healthRunning, sinceRun, check, seen, failed>>

(***************************************************************************)
(* The rest of the world                                                   *)
(***************************************************************************)
\* sync_channels.py replaces the catalogue by another, never by none.
Sync ==
  /\ catalog' \in (SUBSET Rooms) \ {{}, catalog}
  /\ UNCHANGED <<snapshot, tmp, healthRunning, sinceRun, pc, check, ch, seen, failed>>

Older(age) == IF age < Old THEN age + 1 ELSE age

Tick ==
  /\ snapshot' = [snapshot EXCEPT !.age = Older(@)]
  /\ tmp' = [tmp EXCEPT !.age = Older(@)]
  /\ check' = [h \in Checkers |-> [check[h] EXCEPT !.age =
                 IF check[h] = NoCheck /\ pc[h] \notin {"resolve", "pull"} THEN 0
                 ELSE Older(@)]]
  /\ seen' = [q \in Requests |-> [seen[q] EXCEPT !.age = Older(@)]]
  /\ sinceRun' = IF sinceRun < RECENT THEN sinceRun + 1 ELSE sinceRun
  /\ failed' = [r \in Rooms |-> Older(failed[r])]
  /\ UNCHANGED <<catalog, healthRunning, pc, ch>>

\* The server process ends at any point; the guard of entry.sh starts it
\* again, with the files as they are and a check at once.
Crash ==
  /\ healthRunning' = FALSE
  /\ sinceRun' = RECENT
  /\ pc' = [x \in Checkers \cup Requests |-> "idle"]
  /\ check' = [h \in Checkers |-> NoCheck]
  /\ ch' = [q \in Requests |-> {}]
  /\ seen' = [q \in Requests |-> NoSnapshot]
  /\ UNCHANGED <<catalog, snapshot, tmp, failed>>

Work(h) ==
  \/ Enter(h) \/ Begin(h) \/ ResolveRoom(h) \/ PullRoom(h)
  \/ Open(h) \/ Write(h) \/ Rename(h) \/ Release(h)

Serve(q) == Recent(q) \/ ReadSnapshot(q) \/ Age(q) \/ Load(q) \/ Filter(q)

Next ==
  \/ \E h \in Checkers : Launch(h) \/ Work(h)
  \/ \E q \in Requests : Ask(q) \/ Serve(q)
  \/ Sync
  \/ Tick
  \/ Crash

Spec == Init /\ [][Next]_vars

(***************************************************************************)
(* Properties                                                              *)
(***************************************************************************)
Checking == {h \in Checkers : pc[h] \in CheckLabels \ {"idle", "enter"}}

\* health.go: at most one check at a time, and the lock says so.
OneCheck ==
  /\ Cardinality(Checking) <= 1
  /\ healthRunning <=> Checking # {}

\* A snapshot file that can be read is one check's whole result: it covers
\* a catalogue, lists rooms of it only, and every room it leaves out failed
\* a test after the date it bears.
HonestSnapshot ==
  snapshot.whole =>
    /\ snapshot.alive \subseteq snapshot.catalog
    /\ \A r \in snapshot.catalog \ snapshot.alive : failed[r] <= snapshot.age

\* A playlist never hides a room that was not tested, or whose failure is
\* ALIVE_MAXAGE old: new rooms are shown, and so is everything when no
\* check has come to an end in time.
OnlyRecentFailuresHidden ==
  \A q \in Requests : pc[q] = "filter" =>
    \A r \in Hidden(ch[q]) : failed[r] < ALIVE_MAXAGE

\* Time aside, a snapshot is only replaced by a whole one that is not older: a
\* check never publishes over the result of one that began after it.
NoSnapshotRegress ==
  [][snapshot' # snapshot /\ snapshot.whole /\ ~Tick =>
       snapshot'.whole /\ snapshot'.age <= snapshot.age]_vars
=============================================================================
