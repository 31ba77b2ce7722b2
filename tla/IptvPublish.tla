---------------------------- MODULE IptvPublish -----------------------------
(***************************************************************************)
(* The IPTV snapshot .iptv-result.m3u and its writers.  The bridge runs    *)
(* docker/filter_iptv.py (from the start-up loop of entry.sh and from      *)
(* cron) on what iptv-api has written; an optional cron job copies the     *)
(* list of a NAS over the same file (docker/scripts/sync_iptv_from_nas.sh).*)
(*                                                                         *)
(* A list is the set of its channels.  Here the probe keeps any set of the *)
(* candidates; IptvBridge has it go through their lines as IptvFilter does.*)
(* reject_reason refuses lines: a channel is Rejected when all its lines   *)
(* are, and of the others only the lines it lets pass are in the model.    *)
(***************************************************************************)
EXTENDS Naturals, FiniteSets

CONSTANTS
  Bridges, Copies,   \* runs of the bridge and of the NAS script
  Channels,
  Rejected,          \* all lines on the blocklist, or files rather than streams
  Results,           \* lists iptv-api and the NAS may offer
  MinChannels,       \* --min-channels, and MIN_LINES
  NoOne, NoFile

ASSUME PublishAssumption ==
  /\ Bridges \cap Copies = {} /\ NoOne \notin Bridges
  /\ Rejected \subseteq Channels
  /\ \A list \in SUBSET Channels : list # NoFile
  /\ Results \subseteq SUBSET Channels
  /\ MinChannels \in Nat

Runs == Bridges \cup Copies

VARIABLES
  source,       \* result.m3u of iptv-api
  published,    \* .iptv-result.m3u
  lock,         \* who holds the flock of .iptv-result.m3u.lock
  pc,
  text,         \* what a run has read, or is to write
  superseded    \* another bridge has published since this one read (history)

vars == <<source, published, lock, pc, text, superseded>>

Labels == {"idle", "read", "verify", "fallback", "gate", "write", "replace", "exit",
           "count", "copy", "move"}
Locked == {"read", "verify", "fallback", "gate", "write", "replace", "exit"}
Lists == SUBSET Channels

TypeOK ==
  /\ source \in Lists \cup {NoFile}
  /\ published \in Lists \cup {NoFile}
  /\ lock \in Bridges \cup {NoOne}
  /\ pc \in [Runs -> Labels]
  /\ text \in [Runs -> Lists]
  /\ superseded \in [Bridges -> BOOLEAN]

Init ==
  /\ source = NoFile /\ published = NoFile
  /\ lock = NoOne
  /\ pc = [r \in Runs |-> "idle"]
  /\ text = [r \in Runs |-> {}]
  /\ superseded = [b \in Bridges |-> FALSE]

Goto(r, label) == pc' = [pc EXCEPT ![r] = label]
Floor == IF MinChannels > 1 THEN MinChannels ELSE 1
Candidates(list) == list \ Rejected

\* iptv-api writes a new result.
Update ==
  /\ source' \in Results
  /\ UNCHANGED <<published, lock, pc, text, superseded>>

(***************************************************************************)
(* bridge_iptv.sh and filter_iptv.py                                       *)
(***************************************************************************)
\* main: take the lock, or leave.
EnterUnlocked(b) ==
  /\ pc[b] = "idle" /\ source # NoFile
  /\ lock' = b
  /\ Goto(b, "read")
  /\ UNCHANGED <<source, published, text, superseded>>
Enter(b) ==
  /\ pc[b] = "idle" /\ source # NoFile /\ lock = NoOne
  /\ lock' = b
  /\ Goto(b, "read")
  /\ UNCHANGED <<source, published, text, superseded>>

\* publish reads the source once; both calls of filter_m3u work on that text.
Read(b) ==
  /\ pc[b] = "read"
  /\ text' = [text EXCEPT ![b] = source]
  /\ superseded' = [superseded EXCEPT ![b] = FALSE]
  /\ Goto(b, "verify")
  /\ UNCHANGED <<source, published, lock>>

\* No channel passing at all is taken for an outage of the probe
\* (--fallback-on-probe-outage).
AcceptWhenFew(b, good) ==
  /\ \/ Cardinality(good) < Floor /\ Goto(b, "fallback") /\ UNCHANGED text
     \/ text' = [text EXCEPT ![b] = good] /\ Goto(b, "gate")
  /\ UNCHANGED <<source, published, lock, superseded>>
Accept(b, good) ==
  /\ \/ good = {} /\ Goto(b, "fallback") /\ UNCHANGED text
     \/ text' = [text EXCEPT ![b] = good] /\ Goto(b, "gate")
  /\ UNCHANGED <<source, published, lock, superseded>>

\* The probes accept what they accept of the candidates.
Verify(b) ==
  /\ pc[b] = "verify"
  /\ \E good \in SUBSET Candidates(text[b]) : Accept(b, good)

\* The outage: all candidates of the text, unprobed, if there are enough.
FallbackRaw(b) ==
  /\ pc[b] = "fallback"
  /\ text' = [text EXCEPT ![b] = IF Cardinality(@) >= Floor THEN @ ELSE {}]
  /\ Goto(b, "gate")
  /\ UNCHANGED <<source, published, lock, superseded>>
FallbackAlways(b) ==
  /\ pc[b] = "fallback"
  /\ text' = [text EXCEPT ![b] = Candidates(@)]
  /\ Goto(b, "write")
  /\ UNCHANGED <<source, published, lock, superseded>>
Fallback(b) ==
  /\ pc[b] = "fallback"
  /\ text' = [text EXCEPT ![b] =
       IF Cardinality(Candidates(@)) >= Floor THEN Candidates(@) ELSE {}]
  /\ Goto(b, "gate")
  /\ UNCHANGED <<source, published, lock, superseded>>

\* Too few channels: the old snapshot stays.
Gate(b) ==
  /\ pc[b] = "gate"
  /\ Goto(b, IF Cardinality(text[b]) >= Floor THEN "write" ELSE "exit")
  /\ UNCHANGED <<source, published, lock, text, superseded>>

\* atomic_write: mkstemp, write and fsync, or an error, which unlinks it.
Write(b) ==
  /\ pc[b] = "write"
  /\ \E label \in {"replace", "exit"} : Goto(b, label)
  /\ UNCHANGED <<source, published, lock, text, superseded>>

Replace(b) ==
  /\ pc[b] = "replace"
  /\ published' = text[b]
  /\ superseded' = [x \in Bridges |-> superseded[x] \/ (x # b /\ pc[x] # "idle")]
  /\ Goto(b, "exit")
  /\ UNCHANGED <<source, lock, text>>

\* The lock goes with its file, at the end or when the process dies.
Exit(b) ==
  /\ pc[b] = "exit"
  /\ lock' = NoOne
  /\ text' = [text EXCEPT ![b] = {}]
  /\ superseded' = [superseded EXCEPT ![b] = FALSE]
  /\ Goto(b, "idle")
  /\ UNCHANGED <<source, published>>

Die(b) ==
  /\ pc[b] \in Locked
  /\ lock' = NoOne
  /\ text' = [text EXCEPT ![b] = {}]
  /\ superseded' = [superseded EXCEPT ![b] = FALSE]
  /\ Goto(b, "idle")
  /\ UNCHANGED <<source, published>>

(***************************************************************************)
(* sync_iptv_from_nas.sh                                                   *)
(***************************************************************************)
\* ssh brings any file that is there, or fails and the script ends.  Its lists
\* have one line a channel: Count counts lines.
Fetch(n) ==
  /\ pc[n] = "idle"
  /\ \E list \in Results : text' = [text EXCEPT ![n] = list]
  /\ Goto(n, "count")
  /\ UNCHANGED <<source, published, lock, superseded>>

\* The script ends, and its copy of the file goes.
Leave(n) == Goto(n, "idle") /\ text' = [text EXCEPT ![n] = {}]

\* grep -c prints 0 and fails when no line matches, so `|| echo 0` makes the
\* count two lines and the test of it an error, which refuses nothing; the
\* mark of a CCTV channel is looked for in any line.
Count(n) ==
  /\ pc[n] = "count"
  /\ \/ Leave(n)
     \/ Cardinality(text[n]) \notin 1..MinChannels - 1 /\ Goto(n, "copy") /\ UNCHANGED text
  /\ UNCHANGED <<source, published, lock, superseded>>

\* cp to a file of its own beside the target, then mv.
Copy(n) ==
  /\ pc[n] = "copy"
  /\ Leave(n) \/ (Goto(n, "move") /\ UNCHANGED text)
  /\ UNCHANGED <<source, published, lock, superseded>>

Move(n) ==
  /\ pc[n] = "move"
  /\ published' = text[n]
  /\ Leave(n)
  /\ UNCHANGED <<source, lock, superseded>>

AfterProbe(b) == Fallback(b) \/ Gate(b) \/ Write(b) \/ Replace(b)

Bridge(b) == Read(b) \/ Verify(b) \/ AfterProbe(b) \/ Exit(b)

CopyStep(n) == Count(n) \/ Copy(n) \/ Move(n)

Next ==
  \/ Update
  \/ \E b \in Bridges : Enter(b) \/ Bridge(b) \/ Die(b)
  \/ \E n \in Copies : Fetch(n) \/ CopyStep(n)

Spec == Init /\ [][Next]_vars

(***************************************************************************)
(* Properties                                                              *)
(***************************************************************************)
\* What a bridge publishes has the channels --min-channels asks for, however
\* badly its probes went (filter_iptv.py:438): otherwise last-good stays.
EnoughByBridge ==
  [][\A b \in Bridges : Replace(b) => Cardinality(published') >= Floor]_vars

\* What a bridge publishes has nothing the filter rejects, also when it falls
\* back on candidates it could not probe.
NothingRejectedByBridge ==
  [][\A b \in Bridges : Replace(b) => published' \cap Rejected = {}]_vars

\* The snapshot, once there, always has MinChannels channels: both its writers
\* promise it (--min-channels; sync_iptv_from_nas.sh:22).
EnoughPublished ==
  published # NoFile => Cardinality(published) >= Floor

\* One bridge at a time, from reading to publishing.
OneBridge == \A b \in Bridges : pc[b] \in Locked <=> lock = b

\* No bridge publishes what it read before another one published.
NoOldList == [][\A b \in Bridges : Replace(b) => ~superseded[b]]_vars
=============================================================================
