---------------------------- MODULE CatalogSync -----------------------------
(***************************************************************************)
(* How channels.json is replaced: docker/sync_channels.py, run by entry.sh *)
(* at start and by cron every few minutes.  Each run takes the file lock   *)
(* or leaves, fetches both platforms' directories page by page, and        *)
(* publishes the result through a temporary file of its own if it is       *)
(* large enough.  An alarm or a crash may end a run at any step.           *)
(*                                                                         *)
(* A directory page is the set of its rooms; order and groups are left     *)
(* out.  Whitelist sees this module as its action Sync.                    *)
(***************************************************************************)
EXTENDS Naturals, FiniteSets

CONSTANTS
  Syncs,         \* runs that may overlap
  Rooms,
  Directories,   \* of Huya: the general list and the extra categories
  PageLimit,     \* requested pages of each, 0 for all the site reports
  MaxPages,      \* max_pages, 100
  DouyuPages,    \* --douyu-pages, 20
  MinHuya, MinDouyu,
  NoOne, NoFile

ASSUME CatalogAssumption ==
  /\ NoOne \notin Syncs
  /\ PageLimit \in [Directories -> Nat]
  /\ {MaxPages, DouyuPages} \subseteq Nat \ {0}
  /\ {MinHuya, MinDouyu} \subseteq Nat \ {0}

VARIABLES
  channels,     \* channels.json
  lock,         \* who holds the flock of channels.json.lock
  pc,
  left,         \* the directories a run has yet to fetch
  target,       \* pages to fetch of the one in hand, 0 between two
  results,      \* its pages fetched so far
  failures,     \* its pages given up after three attempts
  huya, douyu,  \* the rooms of a run so far
  page,         \* Douyu pages fetched
  superseded    \* another run has published since this one began (history)

vars == <<channels, lock, pc, left, target, results, failures, huya, douyu, page, superseded>>
fetch == <<left, target, results, failures, huya, douyu, page>>

Labels == {"idle", "huya", "douyu", "check", "write", "replace", "unlock"}
Holding == Labels \ {"idle"}

Catalogues == [huya : SUBSET Rooms, douyu : SUBSET Rooms]
ASSUME FileAssumption == NoFile \notin Catalogues

Torn == [huya |-> {}, douyu |-> {}]

TypeOK ==
  /\ channels \in Catalogues \cup {NoFile}
  /\ lock \in Syncs \cup {NoOne}
  /\ pc \in [Syncs -> Labels]
  /\ left \in [Syncs -> SUBSET Directories]
  /\ target \in [Syncs -> 0..MaxPages]
  /\ results \in [Syncs -> SUBSET (1..MaxPages)]
  /\ failures \in [Syncs -> SUBSET (1..MaxPages)]
  /\ huya \in [Syncs -> SUBSET Rooms]
  /\ douyu \in [Syncs -> SUBSET Rooms]
  /\ page \in [Syncs -> 0..DouyuPages]
  /\ superseded \in [Syncs -> BOOLEAN]

Init ==
  /\ channels = NoFile
  /\ lock = NoOne
  /\ pc = [s \in Syncs |-> "idle"]
  /\ left = [s \in Syncs |-> {}]
  /\ target = [s \in Syncs |-> 0]
  /\ results = [s \in Syncs |-> {}]
  /\ failures = [s \in Syncs |-> {}]
  /\ huya = [s \in Syncs |-> {}]
  /\ douyu = [s \in Syncs |-> {}]
  /\ page = [s \in Syncs |-> 0]
  /\ superseded = [s \in Syncs |-> FALSE]

Goto(s, label) == pc' = [pc EXCEPT ![s] = label]

(***************************************************************************)
(* guarded_sync                                                            *)
(***************************************************************************)
\* A run that finds the lock taken ends at once and changes nothing.
StartUnlocked(s) ==
  /\ pc[s] = "idle"
  /\ lock' = s
  /\ left' = [left EXCEPT ![s] = Directories]
  /\ huya' = [huya EXCEPT ![s] = {}]
  /\ douyu' = [douyu EXCEPT ![s] = {}]
  /\ page' = [page EXCEPT ![s] = 0]
  /\ superseded' = [superseded EXCEPT ![s] = FALSE]
  /\ Goto(s, "huya")
  /\ UNCHANGED <<channels, target, results, failures>>
Start(s) ==
  /\ pc[s] = "idle" /\ lock = NoOne
  /\ lock' = s
  /\ left' = [left EXCEPT ![s] = Directories]
  /\ huya' = [huya EXCEPT ![s] = {}]
  /\ douyu' = [douyu EXCEPT ![s] = {}]
  /\ page' = [page EXCEPT ![s] = 0]
  /\ superseded' = [superseded EXCEPT ![s] = FALSE]
  /\ Goto(s, "huya")
  /\ UNCHANGED <<channels, target, results, failures>>

\* The finally clause, after success, a refusal or an exception.
UnlockNot(s) ==
  /\ pc[s] = "unlock"
  /\ Goto(s, "idle")
  /\ UNCHANGED <<channels, lock, fetch, superseded>>
Unlock(s) ==
  /\ pc[s] = "unlock"
  /\ lock' = NoOne
  /\ Goto(s, "idle")
  /\ UNCHANGED <<channels, fetch, superseded>>

\* SIGALRM after 240 s: os._exit, and the kernel lets go of the lock.
Alarm(s) ==
  /\ pc[s] \in Holding
  /\ lock' = NoOne
  /\ target' = [target EXCEPT ![s] = 0]
  /\ results' = [results EXCEPT ![s] = {}]
  /\ failures' = [failures EXCEPT ![s] = {}]
  /\ Goto(s, "idle")
  /\ UNCHANGED <<channels, left, huya, douyu, page, superseded>>

(***************************************************************************)
(* fetch_huya and _fetch_huya_directory                                    *)
(***************************************************************************)
Lesser(m, n) == IF m < n THEN m ELSE n

\* How many pages to fetch when the first one reports total of them.
Target(d, total) ==
  LET requested == IF PageLimit[d] > 0 THEN PageLimit[d]
                   ELSE IF total > 0 THEN total ELSE 1
  IN  Lesser(Lesser(requested, IF total > 0 THEN total ELSE requested), MaxPages)

\* An exception leaves fetch_huya, and the run, without publishing.
GiveUp(s) ==
  /\ target' = [target EXCEPT ![s] = 0]
  /\ results' = [results EXCEPT ![s] = {}]
  /\ failures' = [failures EXCEPT ![s] = {}]
  /\ Goto(s, "unlock")
  /\ UNCHANGED <<left, huya, douyu, page>>

\* The first page of a directory: three failed attempts or an empty page
\* are an error.
FirstPage(s) ==
  /\ pc[s] = "huya" /\ target[s] = 0
  /\ \/ \E d \in left[s], total \in 0..MaxPages + 1, rooms \in (SUBSET Rooms) \ {{}} :
          /\ left' = [left EXCEPT ![s] = @ \ {d}]
          /\ target' = [target EXCEPT ![s] = Target(d, total)]
          /\ results' = [results EXCEPT ![s] = {1}]
          /\ huya' = [huya EXCEPT ![s] = @ \cup rooms]
          /\ UNCHANGED <<pc, failures, douyu, page>>
     \/ /\ left[s] # {}
        /\ GiveUp(s)
     \/ /\ left[s] = {}
        /\ Goto(s, "douyu")
        /\ UNCHANGED fetch
  /\ UNCHANGED <<channels, lock, superseded>>

\* The others come back from the pool in any order, some not at all.
OtherPage(s) ==
  /\ pc[s] = "huya"
  /\ \E p \in 2..target[s] \ (results[s] \cup failures[s]) :
       \/ \E rooms \in SUBSET Rooms :
            /\ results' = [results EXCEPT ![s] = @ \cup {p}]
            /\ huya' = [huya EXCEPT ![s] = @ \cup rooms]
            /\ UNCHANGED failures
       \/ /\ failures' = [failures EXCEPT ![s] = @ \cup {p}]
          /\ UNCHANGED <<results, huya>>
  /\ UNCHANGED <<channels, lock, pc, left, target, douyu, page, superseded>>

\* min_page_ratio: four fifths of the pages, or the old catalogue stays.
Covered(s) == 5 * Cardinality(results[s]) >= 4 * target[s]

EndDirectory(s) ==
  /\ pc[s] = "huya" /\ target[s] > 0
  /\ 2..target[s] \subseteq results[s] \cup failures[s]
  /\ \/ ~Covered(s) /\ GiveUp(s)
     \/ /\ Covered(s)
        /\ target' = [target EXCEPT ![s] = 0]
        /\ results' = [results EXCEPT ![s] = {}]
        /\ failures' = [failures EXCEPT ![s] = {}]
        /\ UNCHANGED <<pc, left, huya, douyu, page>>
  /\ UNCHANGED <<channels, lock, superseded>>

(***************************************************************************)
(* fetch_douyu: page after page, up to the last, the first that fails, or  *)
(* the first that brings nothing new.                                      *)
(***************************************************************************)
DouyuPage(s) ==
  /\ pc[s] = "douyu" /\ page[s] < DouyuPages
  /\ \E rooms \in SUBSET Rooms :
       /\ page' = [page EXCEPT ![s] = @ + 1]
       /\ douyu' = [douyu EXCEPT ![s] = @ \cup rooms]
       /\ IF rooms \subseteq douyu[s] THEN Goto(s, "check") ELSE UNCHANGED pc
  /\ UNCHANGED <<channels, lock, left, target, results, failures, huya, superseded>>

DouyuEnd(s) ==
  /\ pc[s] = "douyu"
  /\ Goto(s, "check")
  /\ UNCHANGED <<channels, lock, fetch, superseded>>

(***************************************************************************)
(* sync_channels: the check and the publication                            *)
(***************************************************************************)
Enough(h, d) == Cardinality(h) >= MinHuya /\ Cardinality(d) >= MinDouyu

Check(s) ==
  /\ pc[s] = "check"
  /\ Goto(s, IF Enough(huya[s], douyu[s]) THEN "write" ELSE "unlock")
  /\ UNCHANGED <<channels, lock, fetch, superseded>>

\* json.dump into a new temporary file that no one else knows, or not (a
\* full disk).
WriteInPlace(s) ==
  /\ pc[s] = "write"
  /\ channels' = Torn
  /\ Goto(s, "replace")
  /\ UNCHANGED <<lock, fetch, superseded>>
Write(s) ==
  /\ pc[s] = "write"
  /\ \E label \in {"replace", "unlock"} : Goto(s, label)
  /\ UNCHANGED <<channels, lock, fetch, superseded>>

\* os.replace.
Replace(s) ==
  /\ pc[s] = "replace"
  /\ channels' = [huya |-> huya[s], douyu |-> douyu[s]]
  /\ superseded' = [x \in Syncs |-> x # s]
  /\ Goto(s, "unlock")
  /\ UNCHANGED <<lock, fetch>>

\* The container stops; only the file is left.
Crash ==
  /\ lock' = NoOne
  /\ pc' = [s \in Syncs |-> "idle"]
  /\ target' = [s \in Syncs |-> 0]
  /\ results' = [s \in Syncs |-> {}]
  /\ failures' = [s \in Syncs |-> {}]
  /\ UNCHANGED <<channels, left, huya, douyu, page, superseded>>

Step(s) ==
  \/ FirstPage(s) \/ OtherPage(s) \/ EndDirectory(s)
  \/ DouyuPage(s) \/ DouyuEnd(s)
  \/ Check(s) \/ Write(s) \/ Replace(s)
  \/ Unlock(s)
  \/ Alarm(s)

Next ==
  \/ \E s \in Syncs : Start(s) \/ Step(s)
  \/ Crash

Spec == Init /\ [][Next]_vars

\* A process that has the lock is scheduled, and the alarm bounds what the
\* network may take of its time.
FairSpec == Spec /\ \A s \in Syncs : WF_vars(Step(s))

(***************************************************************************)
(* Properties                                                              *)
(***************************************************************************)
\* guarded_sync: the lock covers the whole run, and belongs to the one run
\* there is.
LockCoversRun == \A s \in Syncs : pc[s] \in Holding <=> lock = s

\* "no interleaved writing of old results": a run never publishes what it
\* began to fetch before another run published.
NoOldResult == [][\A s \in Syncs : Replace(s) => ~superseded[s]]_vars

\* channels.json is at all times absent or a whole catalogue with enough
\* rooms of both platforms, whatever failed, timed out or crashed: last-good
\* is kept.
LastGood ==
  channels # NoFile =>
    /\ Cardinality(channels.huya) >= MinHuya
    /\ Cardinality(channels.douyu) >= MinDouyu

\* What the readers of channels.json take for the rooms of Douyu, none when
\* there is no file, only changes by steps that Whitelist allows its action
\* Sync: to another catalogue, and never to none.
DouyuCatalog == IF channels = NoFile THEN {} ELSE channels.douyu
OnlySyncs == [][DouyuCatalog' \in (SUBSET Rooms) \ {{}, DouyuCatalog}]_DouyuCatalog

\* No run keeps the others out for ever.
LockFreed == \A s \in Syncs : lock = s ~> lock # s
=============================================================================
