-------------------------- MODULE WhitelistProofs ---------------------------
(***************************************************************************)
(* Proofs about Whitelist, for any rooms, any number of checks and         *)
(* requests and any ages: one check at a time, what a snapshot says of the *)
(* rooms it leaves out, what a playlist hides, and that snapshots only get *)
(* younger.                                                                *)
(***************************************************************************)
EXTENDS Whitelist, FiniteSetTheorems, TLAPS

Busy == CheckLabels \ {"idle", "enter"}

\* Who holds the lock is the one check that has passed it.
Locked ==
  /\ \A h, k \in Checkers : pc[h] \in Busy /\ pc[k] \in Busy => h = k
  /\ healthRunning <=> \E h \in Checkers : pc[h] \in Busy

\* What a file or a check says of a room that it leaves out.
Honest(s) ==
  s.whole =>
    /\ s.alive \subseteq s.catalog
    /\ \A r \in s.catalog \ s.alive : failed[r] <= s.age

\* A room that a check has gone through without putting it on its list has
\* failed since the check began; in the end it has gone through all.
Tested(h) ==
  LET c == check[h] IN
  /\ pc[h] \in {"resolve", "pull", "open", "write"} =>
       /\ c.todo \cup c.candidates \cup c.alive \subseteq c.catalog
       /\ \A r \in c.catalog \ (c.todo \cup c.candidates \cup c.alive) : failed[r] <= c.age
  /\ pc[h] \in {"pull", "open", "write"} => c.todo = {}
  /\ pc[h] \in {"open", "write"} => c.candidates = {}

\* The check under way began after the one that left the snapshot.
Younger(h) ==
  /\ pc[h] \in {"resolve", "pull", "open", "write"} => check[h].age <= snapshot.age
  /\ pc[h] = "rename" => tmp.whole /\ tmp.age <= snapshot.age

IInv ==
  /\ TypeOK /\ Locked
  /\ Honest(snapshot) /\ Honest(tmp)
  /\ \A h \in Checkers : Tested(h) /\ Younger(h)

LEMMA AgesNat == Old \in Nat /\ Ages \subseteq Nat
BY WhitelistAssumption DEF Old, Ages

LEMMA OlderFacts ==
  /\ \A x \in Ages : Older(x) \in Ages
  /\ \A x, y \in Ages : x <= y => Older(x) <= Older(y)
BY AgesNat DEF Older, Ages

LEMMA Blanks == NoSnapshot \in Snapshots /\ NoCheck \in Checks
BY AgesNat, WhitelistAssumption DEF NoSnapshot, Snapshots, NoCheck, Checks, Ages

LEMMA TypeStep == TypeOK /\ [Next]_vars => TypeOK'
<1> SUFFICES ASSUME TypeOK, [Next]_vars PROVE TypeOK'
  OBVIOUS
<1> USE WhitelistAssumption DEF TypeOK, Goto, CheckLabels, RequestLabels
<1>1. ASSUME NEW h \in Checkers, Launch(h) \/ Enter(h) PROVE TypeOK'
  BY <1>1 DEF Launch, Enter
<1>2. ASSUME NEW h \in Checkers, Begin(h) PROVE TypeOK'
  <2>1. [NoCheck EXCEPT !.catalog = catalog, !.todo = catalog] \in Checks
    BY Blanks DEF Checks, NoCheck
  <2> QED
    BY <1>2, <2>1 DEF Begin
<1>3. ASSUME NEW h \in Checkers, ResolveRoom(h) \/ PullRoom(h) PROVE TypeOK'
  <2>1. check' \in [Checkers -> Checks]
    <3> USE DEF Checks
    <3>1. CASE UNCHANGED check
      BY <3>1
    <3>2. ASSUME NEW r \in check[h].todo,
                 \/ check' = [check EXCEPT ![h].todo = @ \ {r},
                                           ![h].candidates = @ \cup {r}]
                 \/ check' = [check EXCEPT ![h].todo = @ \ {r}]
          PROVE  check' \in [Checkers -> Checks]
      BY <3>2
    <3>3. ASSUME NEW r \in check[h].candidates,
                 \/ check' = [check EXCEPT ![h].candidates = @ \ {r},
                                           ![h].alive = @ \cup {r}]
                 \/ check' = [check EXCEPT ![h].candidates = @ \ {r}]
          PROVE  check' \in [Checkers -> Checks]
      BY <3>3
    <3> QED
      BY <1>3, <3>1, <3>2, <3>3 DEF ResolveRoom, PullRoom
  <2>2. failed' \in [Rooms -> Ages]
    <3>1. 0 \in Ages
      BY AgesNat DEF Ages
    <3>2. \/ UNCHANGED failed
          \/ \E r : failed' = [failed EXCEPT ![r] = 0]
      BY <1>3 DEF ResolveRoom, PullRoom
    <3> QED
      BY <3>1, <3>2
  <2>3. pc' \in [Checkers \cup Requests -> CheckLabels \cup RequestLabels]
    BY <1>3 DEF ResolveRoom, PullRoom
  <2> QED
    BY <1>3, <2>1, <2>2, <2>3 DEF ResolveRoom, PullRoom
<1>4. ASSUME NEW h \in Checkers, Open(h) \/ Write(h) \/ Rename(h) \/ Release(h) PROVE TypeOK'
  <2>1. Result(h) \in Snapshots
    BY DEF Result, Snapshots, Checks
  <2> QED
    BY <1>4, <2>1, Blanks DEF Open, Write, Rename, Release
<1>5. ASSUME NEW q \in Requests, Ask(q) \/ Recent(q) \/ Load(q) \/ Filter(q) PROVE TypeOK'
  BY <1>5 DEF Ask, Recent, Load, Filter
<1>6. ASSUME NEW q \in Requests, ReadSnapshot(q) \/ Age(q) PROVE TypeOK'
  <2>1. [snapshot EXCEPT !.alive = {}] \in Snapshots
    BY DEF Snapshots
  <2>2. seen' \in [Requests -> Snapshots]
    BY <1>6, <2>1, Blanks DEF ReadSnapshot, Age
  <2>3. pc' \in [Checkers \cup Requests -> CheckLabels \cup RequestLabels]
    BY <1>6 DEF ReadSnapshot, Age, Trigger
  <2> QED
    BY <1>6, <2>2, <2>3 DEF ReadSnapshot, Age
<1>7. CASE Sync
  BY <1>7 DEF Sync
<1>8. CASE Tick
  <2>1. snapshot' \in Snapshots /\ tmp' \in Snapshots
    BY <1>8, OlderFacts DEF Tick, Snapshots
  <2>2. check' \in [Checkers -> Checks]
    <3>1. ASSUME NEW h \in Checkers, NEW n \in Ages
          PROVE  [check[h] EXCEPT !.age = n] \in Checks
      BY DEF Checks
    <3>2. 0 \in Ages
      BY AgesNat DEF Ages
    <3> QED
      BY <1>8, <3>1, <3>2, OlderFacts DEF Tick, Checks
  <2>3. failed' \in [Rooms -> Ages] /\ sinceRun' \in 0..RECENT
    BY <1>8, OlderFacts DEF Tick
  <2>4. seen' \in [Requests -> Snapshots]
    BY <1>8, OlderFacts DEF Tick, Snapshots
  <2> QED
    BY <1>8, <2>1, <2>2, <2>3, <2>4 DEF Tick
<1>9. CASE Crash
  <2>1. check' \in [Checkers -> Checks]
    BY <1>9, Blanks DEF Crash
  <2>2. /\ ch' \in [Requests -> SUBSET Rooms] /\ sinceRun' \in 0..RECENT
        /\ seen' \in [Requests -> Snapshots]
    BY <1>9, Blanks DEF Crash
  <2> QED
    BY <1>9, <2>1, <2>2 DEF Crash
<1>10. CASE UNCHANGED vars
  BY <1>10 DEF vars
<1> QED
  BY <1>1, <1>2, <1>3, <1>4, <1>5, <1>6, <1>7, <1>8, <1>9, <1>10 DEF Next, Work, Serve

LEMMA LockedStep == TypeOK /\ Locked /\ [Next]_vars => Locked'
<1> SUFFICES ASSUME TypeOK, Locked, [Next]_vars PROVE Locked'
  OBVIOUS
<1> USE DEF TypeOK, Locked, Busy, Goto, CheckLabels, RequestLabels
<1>1. ASSUME NEW h \in Checkers, Launch(h) \/ Begin(h) \/ ResolveRoom(h) \/ PullRoom(h)
      PROVE  Locked'
  <2>1. healthRunning' = healthRunning
    BY <1>1 DEF Launch, Begin, ResolveRoom, PullRoom
  <2>2. /\ \A k \in Checkers \ {h} : pc'[k] = pc[k]
        /\ pc'[h] \in Busy <=> pc[h] \in Busy
    BY <1>1 DEF Launch, Begin, ResolveRoom, PullRoom
  <2> QED
    BY <2>1, <2>2
<1>2. ASSUME NEW h \in Checkers, Enter(h) PROVE Locked'
  BY <1>2 DEF Enter
<1>3. ASSUME NEW h \in Checkers, Open(h) \/ Write(h) \/ Rename(h) PROVE Locked'
  BY <1>3 DEF Open, Write, Rename
<1>4. ASSUME NEW h \in Checkers, Release(h) PROVE Locked'
  BY <1>4 DEF Release
<1>5. ASSUME NEW q \in Requests, Ask(q) \/ Recent(q) \/ Load(q) \/ Filter(q) PROVE Locked'
  BY <1>5 DEF Ask, Recent, Load, Filter
<1>6. ASSUME NEW q \in Requests, ReadSnapshot(q) \/ Age(q) PROVE Locked'
  BY <1>6 DEF ReadSnapshot, Age, Trigger
<1>7. CASE Sync \/ Tick
  BY <1>7 DEF Sync, Tick
<1>8. CASE Crash
  BY <1>8 DEF Crash
<1>9. CASE UNCHANGED vars
  BY <1>9 DEF vars
<1> QED
  BY <1>1, <1>2, <1>3, <1>4, <1>5, <1>6, <1>7, <1>8, <1>9 DEF Next, Work, Serve

LEMMA FailedFacts ==
  ASSUME TypeOK, NEW r, failed' = failed \/ failed' = [failed EXCEPT ![r] = 0]
  PROVE  \A x \in Rooms : failed[x] \in Nat /\ failed'[x] \in Nat /\ failed'[x] <= failed[x]
<1>1. \A x \in Rooms : failed[x] \in Nat
  BY AgesNat DEF TypeOK
<1>2. \A x \in Rooms : failed'[x] = failed[x] \/ failed'[x] = 0
  BY DEF TypeOK
<1> QED
  BY <1>1, <1>2

\* Failures only make the claims of a file truer.
LEMMA HonestKept ==
  ASSUME TypeOK, NEW s \in Snapshots, Honest(s), NEW r,
         failed' = failed \/ failed' = [failed EXCEPT ![r] = 0]
  PROVE  s.whole => /\ s.alive \subseteq s.catalog
                    /\ \A x \in s.catalog \ s.alive : failed'[x] <= s.age
<1>1. \A x \in Rooms : failed'[x] \in Nat /\ failed'[x] <= failed[x]
  BY FailedFacts
<1>2. s.age \in Nat /\ \A x \in Rooms : failed[x] \in Nat
  BY AgesNat DEF Snapshots, TypeOK
<1> QED
  BY <1>1, <1>2 DEF Honest, Snapshots

LEMMA HonestStep == IInv /\ [Next]_vars => Honest(snapshot)' /\ Honest(tmp)'
<1> SUFFICES ASSUME IInv, [Next]_vars PROVE Honest(snapshot)' /\ Honest(tmp)'
  OBVIOUS
<1> USE DEF IInv, Honest
<1>1. ASSUME NEW h \in Checkers, Launch(h) \/ Enter(h) \/ Begin(h) \/ Release(h)
      PROVE  Honest(snapshot)' /\ Honest(tmp)'
  BY <1>1 DEF Launch, Enter, Begin, Release
<1>2. ASSUME NEW h \in Checkers, ResolveRoom(h) \/ PullRoom(h)
      PROVE  Honest(snapshot)' /\ Honest(tmp)'
  <2>1. \E r : failed' = failed \/ failed' = [failed EXCEPT ![r] = 0]
    BY <1>2 DEF ResolveRoom, PullRoom
  <2>2. UNCHANGED <<snapshot, tmp>> /\ snapshot \in Snapshots /\ tmp \in Snapshots
    BY <1>2 DEF ResolveRoom, PullRoom, TypeOK
  <2> QED
    BY <2>1, <2>2, HonestKept
<1>3. ASSUME NEW h \in Checkers, Open(h) PROVE Honest(snapshot)' /\ Honest(tmp)'
  BY <1>3 DEF Open, NoSnapshot
<1>4. ASSUME NEW h \in Checkers, Write(h) PROVE Honest(snapshot)' /\ Honest(tmp)'
  <2>1. CASE UNCHANGED tmp
    BY <1>4, <2>1 DEF Write
  <2>2. CASE tmp' = Result(h)
    BY <1>4, <2>2 DEF Write, Result, Tested
  <2> QED
    BY <1>4, <2>1, <2>2 DEF Write
<1>5. ASSUME NEW h \in Checkers, Rename(h) PROVE Honest(snapshot)' /\ Honest(tmp)'
  BY <1>5 DEF Rename, NoSnapshot
<1>6. CASE UNCHANGED <<snapshot, tmp, failed>>
  BY <1>6
<1>7. CASE Tick
  <2>1. ASSUME NEW s \in Snapshots, Honest(s)
        PROVE  LET t == [s EXCEPT !.age = Older(@)] IN
               t.whole => /\ t.alive \subseteq t.catalog
                          /\ \A r \in t.catalog \ t.alive : failed'[r] <= t.age
    BY <1>7, <2>1, OlderFacts DEF Tick, TypeOK, Snapshots
  <2> QED
    BY <1>7, <2>1 DEF Tick, TypeOK
<1>8. \A q \in Requests : Ask(q) \/ Serve(q) => UNCHANGED <<snapshot, tmp, failed>>
  BY DEF Ask, Serve, Recent, ReadSnapshot, Age, Load, Filter
<1>9. Sync \/ Crash \/ UNCHANGED vars => UNCHANGED <<snapshot, tmp, failed>>
  BY DEF Sync, Crash, vars
<1> QED
  BY <1>1, <1>2, <1>3, <1>4, <1>5, <1>6, <1>7, <1>8, <1>9 DEF Next, Work

LEMMA TestedStep ==
  ASSUME IInv, [Next]_vars, NEW h \in Checkers
  PROVE  Tested(h)'
<1> USE DEF IInv, Goto
<1>1. ASSUME NEW k \in Checkers, k # h, Work(k) \/ Launch(k) PROVE Tested(h)'
  <2>1. pc'[h] = pc[h] /\ check'[h] = check[h]
    BY <1>1 DEF Work, Launch, Enter, Begin, ResolveRoom, PullRoom, Open, Write, Rename, Release, TypeOK
  <2>2. \E r : failed' = failed \/ failed' = [failed EXCEPT ![r] = 0]
    BY <1>1 DEF Work, Launch, Enter, Begin, ResolveRoom, PullRoom, Open, Write, Rename, Release
  <2>3. \A x \in Rooms : failed'[x] \in Nat /\ failed'[x] <= failed[x] /\ failed[x] \in Nat
    BY <2>2, FailedFacts
  <2>4. check[h].catalog \subseteq Rooms /\ check[h].age \in Nat
    BY AgesNat DEF TypeOK, Checks
  <2> QED
    BY <2>1, <2>3, <2>4 DEF Tested
<1>2. CASE Launch(h) \/ Enter(h) \/ Release(h) \/ Rename(h)
  BY <1>2 DEF Launch, Enter, Release, Rename, Tested, TypeOK
<1>3. CASE Begin(h)
  <2>1. check'[h] = [NoCheck EXCEPT !.catalog = catalog, !.todo = catalog]
    BY <1>3 DEF Begin, TypeOK
  <2>2. pc'[h] \in {"release", "resolve"}
    BY <1>3 DEF Begin, TypeOK
  <2> QED
    BY <2>1, <2>2 DEF Tested, NoCheck
<1>4. CASE ResolveRoom(h)
  <2>1. CASE check[h].todo = {} /\ Goto(h, "pull") /\ UNCHANGED <<check, failed>>
    BY <1>4, <2>1 DEF ResolveRoom, Tested, TypeOK
  <2>2. ASSUME NEW r \in check[h].todo, UNCHANGED <<pc, failed>>,
               check' = [check EXCEPT ![h].todo = @ \ {r}, ![h].candidates = @ \cup {r}]
        PROVE  Tested(h)'
    <3>1. /\ check'[h].todo = check[h].todo \ {r}
          /\ check'[h].candidates = check[h].candidates \cup {r}
          /\ check'[h].alive = check[h].alive
          /\ check'[h].catalog = check[h].catalog
          /\ check'[h].age = check[h].age
      BY <2>2 DEF TypeOK, Checks
    <3> QED
      BY <1>4, <2>2, <3>1 DEF ResolveRoom, Tested
  <2>3. ASSUME NEW r \in check[h].todo, UNCHANGED pc, failed' = [failed EXCEPT ![r] = 0],
               check' = [check EXCEPT ![h].todo = @ \ {r}]
        PROVE  Tested(h)'
    <3>1. \A x \in Rooms : failed'[x] = IF x = r THEN 0 ELSE failed[x]
      BY <2>3 DEF TypeOK
    <3>2. check[h].age \in Nat /\ check[h].catalog \subseteq Rooms
      BY AgesNat DEF TypeOK, Checks
    <3>3. /\ check'[h].todo = check[h].todo \ {r} /\ check'[h].candidates = check[h].candidates
          /\ check'[h].alive = check[h].alive /\ check'[h].catalog = check[h].catalog
          /\ check'[h].age = check[h].age
      BY <2>3 DEF TypeOK, Checks
    <3> QED
      BY <1>4, <2>3, <3>1, <3>2, <3>3 DEF ResolveRoom, Tested
  <2> QED
    BY <1>4, <2>1, <2>2, <2>3 DEF ResolveRoom
<1>5. CASE PullRoom(h)
  <2>1. CASE check[h].candidates = {} /\ Goto(h, "open") /\ UNCHANGED <<check, failed>>
    BY <1>5, <2>1 DEF PullRoom, Tested, TypeOK
  <2>2. ASSUME NEW r \in check[h].candidates, UNCHANGED <<pc, failed>>,
               check' = [check EXCEPT ![h].candidates = @ \ {r}, ![h].alive = @ \cup {r}]
        PROVE  Tested(h)'
    <3>1. /\ check'[h].todo = check[h].todo
          /\ check'[h].candidates = check[h].candidates \ {r}
          /\ check'[h].alive = check[h].alive \cup {r}
          /\ check'[h].catalog = check[h].catalog
          /\ check'[h].age = check[h].age
      BY <2>2 DEF TypeOK, Checks
    <3> QED
      BY <1>5, <2>2, <3>1 DEF PullRoom, Tested
  <2>3. ASSUME NEW r \in check[h].candidates, UNCHANGED pc, failed' = [failed EXCEPT ![r] = 0],
               check' = [check EXCEPT ![h].candidates = @ \ {r}]
        PROVE  Tested(h)'
    <3>1. \A x \in Rooms : failed'[x] = IF x = r THEN 0 ELSE failed[x]
      BY <2>3 DEF TypeOK
    <3>2. check[h].age \in Nat /\ check[h].catalog \subseteq Rooms
      BY AgesNat DEF TypeOK, Checks
    <3>3. /\ check'[h].candidates = check[h].candidates \ {r} /\ check'[h].todo = check[h].todo
          /\ check'[h].alive = check[h].alive /\ check'[h].catalog = check[h].catalog
          /\ check'[h].age = check[h].age
      BY <2>3 DEF TypeOK, Checks
    <3> QED
      BY <1>5, <2>3, <3>1, <3>2, <3>3 DEF PullRoom, Tested
  <2> QED
    BY <1>5, <2>1, <2>2, <2>3 DEF PullRoom
<1>6. CASE Open(h) \/ Write(h)
  BY <1>6 DEF Open, Write, Tested, TypeOK
<1>7. ASSUME NEW q \in Requests, Ask(q) \/ Recent(q) \/ Load(q) \/ Filter(q)
      PROVE  Tested(h)'
  BY <1>7 DEF Ask, Recent, Load, Filter, Tested, TypeOK
<1>8. ASSUME NEW q \in Requests, ReadSnapshot(q) \/ Age(q) PROVE Tested(h)'
  BY <1>8 DEF ReadSnapshot, Age, Trigger, Tested, TypeOK
<1>9. CASE Tick
  <2>1. \A x \in Rooms : failed[x] \in Ages /\ failed'[x] = Older(failed[x])
    BY <1>9 DEF Tick, TypeOK
  <2>2. check[h] \in Checks /\ check[h].age \in Ages
    BY DEF TypeOK, Checks
  <2>3. CASE check[h] = NoCheck /\ pc[h] \notin {"resolve", "pull"}
    BY <1>9, <2>3 DEF Tick, Tested, NoCheck
  <2>4. CASE ~(check[h] = NoCheck /\ pc[h] \notin {"resolve", "pull"})
    <3>1. check'[h] = [check[h] EXCEPT !.age = Older(@)]
      BY <1>9, <2>4 DEF Tick
    <3>2. /\ check'[h].todo = check[h].todo /\ check'[h].candidates = check[h].candidates
          /\ check'[h].alive = check[h].alive /\ check'[h].catalog = check[h].catalog
          /\ check'[h].age = Older(check[h].age)
      BY <2>2, <3>1 DEF Checks
    <3>3. check[h].catalog \subseteq Rooms /\ pc' = pc
      BY <1>9, <2>2 DEF Tick, Checks
    <3> QED
      BY <2>1, <2>2, <3>2, <3>3, OlderFacts DEF Tested
  <2> QED
    BY <2>3, <2>4
<1>10. CASE Crash
  BY <1>10 DEF Crash, Tested
<1>11. CASE Sync \/ UNCHANGED vars
  BY <1>11 DEF Sync, vars, Tested
<1> QED
  BY <1>1, <1>2, <1>3, <1>4, <1>5, <1>6, <1>7, <1>8, <1>9, <1>10, <1>11 DEF Next, Work, Serve

LEMMA YoungerStep ==
  ASSUME IInv, [Next]_vars, NEW h \in Checkers
  PROVE  Younger(h)'
<1> USE DEF IInv, Goto
<1>0. /\ check[h].age \in Ages /\ snapshot.age \in Ages /\ tmp.age \in Ages
      /\ Ages \subseteq Nat
  BY AgesNat DEF TypeOK, Checks, Snapshots
<1>1. ASSUME NEW k \in Checkers, k # h, Work(k) \/ Launch(k) PROVE Younger(h)'
  <2>1. pc'[h] = pc[h] /\ check'[h] = check[h]
    BY <1>1 DEF Work, Launch, Enter, Begin, ResolveRoom, PullRoom, Open, Write, Rename, Release, TypeOK
  <2>2. CASE pc[h] \in Busy
    <3>1. pc[k] \notin Busy
      BY <1>1, <2>2 DEF Locked
    <3>2. UNCHANGED <<snapshot, tmp>>
      BY <1>1, <3>1 DEF Work, Launch, Enter, Begin, ResolveRoom, PullRoom, Open, Write, Rename,
                        Release, Busy, CheckLabels
    <3> QED
      BY <2>1, <3>2 DEF Younger
  <2>3. CASE pc[h] \notin Busy
    BY <2>1, <2>3 DEF Younger, Busy, CheckLabels
  <2> QED
    BY <2>2, <2>3
<1>2. CASE Launch(h) \/ Enter(h) \/ Release(h) \/ Rename(h) \/ Open(h)
  BY <1>2 DEF Launch, Enter, Release, Rename, Open, Younger, TypeOK
<1>3. CASE Begin(h)
  <2>1. check'[h].age = 0 /\ snapshot' = snapshot /\ pc'[h] \in {"release", "resolve"}
    BY <1>3 DEF Begin, TypeOK, NoCheck
  <2> QED
    <3>0. snapshot.age \in Nat
      BY <1>0
    <3>1. 0 <= snapshot.age
      BY <3>0
    <3> HIDE DEF IInv
    <3> QED
      BY <2>1, <3>1 DEF Younger
<1>4. CASE ResolveRoom(h) \/ PullRoom(h)
  <2>1. check'[h].age = check[h].age
    <3>1. ASSUME NEW r, \/ check' = [check EXCEPT ![h].todo = @ \ {r},
                                                  ![h].candidates = @ \cup {r}]
                        \/ check' = [check EXCEPT ![h].todo = @ \ {r}]
          PROVE  check'[h].age = check[h].age
      BY <3>1 DEF TypeOK, Checks
    <3>2. ASSUME NEW r, \/ check' = [check EXCEPT ![h].candidates = @ \ {r},
                                                  ![h].alive = @ \cup {r}]
                        \/ check' = [check EXCEPT ![h].candidates = @ \ {r}]
          PROVE  check'[h].age = check[h].age
      BY <3>2 DEF TypeOK, Checks
    <3> QED
      BY <1>4, <3>1, <3>2 DEF ResolveRoom, PullRoom
  <2>2. pc[h] \in {"resolve", "pull"} /\ pc'[h] \in {"resolve", "pull", "open"}
    BY <1>4 DEF ResolveRoom, PullRoom, TypeOK
  <2> QED
    BY <1>4, <2>1, <2>2 DEF ResolveRoom, PullRoom, Younger
<1>5. CASE Write(h)
  <2>1. CASE tmp' = Result(h)
    BY <1>5, <2>1 DEF Write, Result, Younger, TypeOK
  <2>2. CASE pc'[h] = "release"
    BY <2>2 DEF Younger
  <2> QED
    BY <1>5, <2>1, <2>2 DEF Write, TypeOK
<1>6. ASSUME NEW q \in Requests, Ask(q) \/ Recent(q) \/ Load(q) \/ Filter(q)
      PROVE  Younger(h)'
  BY <1>6 DEF Ask, Recent, Load, Filter, Younger, TypeOK
<1>7. ASSUME NEW q \in Requests, ReadSnapshot(q) \/ Age(q) PROVE Younger(h)'
  BY <1>7 DEF ReadSnapshot, Age, Trigger, Younger, TypeOK
<1>8. CASE Tick
  <2>1. /\ snapshot'.age = Older(snapshot.age) /\ tmp'.age = Older(tmp.age)
        /\ tmp'.whole = tmp.whole /\ pc' = pc
    BY <1>8 DEF Tick, TypeOK, Snapshots
  <2>2. check'[h].age = 0 \/ check'[h].age = Older(check[h].age)
    BY <1>8 DEF Tick, TypeOK, Checks
  <2>3. Older(snapshot.age) \in Nat
    BY <1>0, OlderFacts
  <2> QED
    <3>1. ASSUME pc[h] \in {"resolve", "pull", "open", "write"}
          PROVE  check'[h].age <= snapshot'.age
      <4>1. Older(check[h].age) <= Older(snapshot.age)
        BY <1>0, <3>1, OlderFacts DEF Younger
      <4> QED
        BY <2>1, <2>2, <2>3, <4>1
    <3>2. ASSUME pc[h] = "rename"
          PROVE  tmp'.whole /\ tmp'.age <= snapshot'.age
      <4>1. Older(tmp.age) <= Older(snapshot.age)
        BY <1>0, <3>2, OlderFacts DEF Younger
      <4> QED
        BY <2>1, <3>2, <4>1 DEF Younger
    <3> QED
      BY <2>1, <3>1, <3>2 DEF Younger
<1>9. CASE Crash
  BY <1>9 DEF Crash, Younger
<1>10. CASE Sync \/ UNCHANGED vars
  BY <1>10 DEF Sync, vars, Younger
<1> QED
  BY <1>1, <1>2, <1>3, <1>4, <1>5, <1>6, <1>7, <1>8, <1>9, <1>10 DEF Next, Work, Serve

LEMMA InvInit == Init => IInv
<1> SUFFICES ASSUME Init PROVE IInv
  OBVIOUS
<1>1. TypeOK
  <2>1. Old \in Ages
    BY AgesNat DEF Ages
  <2> QED
    <3>1. sinceRun \in 0..RECENT /\ failed \in [Rooms -> Ages]
      BY <2>1, WhitelistAssumption DEF Init
    <3>2. pc \in [Checkers \cup Requests -> CheckLabels \cup RequestLabels]
      BY DEF Init, CheckLabels, RequestLabels
    <3> QED
      BY <3>1, <3>2, Blanks DEF Init, TypeOK
<1> QED
  BY <1>1 DEF Init, IInv, Locked, Busy, Honest, NoSnapshot, Tested, Younger

\* Inductive invariant of the whole module.
THEOREM Invariant == Spec => []IInv
<1>1. IInv /\ [Next]_vars => IInv'
  BY TypeStep, LockedStep, HonestStep, TestedStep, YoungerStep DEF IInv
<1> QED
  BY <1>1, InvInit, PTL DEF Spec

\* runHealthCheck runs once at a time, and the lock is held exactly meanwhile.
THEOREM OneCheckHolds == Spec => []OneCheck
<1>1. IInv => OneCheck
  <2> SUFFICES ASSUME IInv PROVE OneCheck
    OBVIOUS
  <2>1. CASE Checking = {}
    BY <2>1, FS_EmptySet DEF IInv, Locked, OneCheck, Checking, Busy
  <2>2. ASSUME NEW h \in Checking PROVE OneCheck
    <3>1. Checking = {h}
      BY <2>2 DEF IInv, Locked, Checking, Busy
    <3>2. Cardinality(Checking) = 1
      BY <3>1, FS_Singleton
    <3> QED
      BY <3>1, <3>2 DEF IInv, Locked, OneCheck, Checking, Busy
  <2> QED
    BY <2>1, <2>2
<1> QED
  BY <1>1, Invariant, PTL

\* What a snapshot leaves out has failed since the date it bears.
THEOREM HonestSnapshotHolds == Spec => []HonestSnapshot
<1>1. IInv => HonestSnapshot
  BY DEF IInv, Honest, HonestSnapshot
<1> QED
  BY <1>1, Invariant, PTL

\* A playlist hides no room whose failure is ALIVE_MAXAGE old, and no other.
THEOREM RecentFailuresOnly == Spec => []OnlyRecentFailuresHidden
<1>1. IInv => OnlyRecentFailuresHidden
  <2> SUFFICES ASSUME IInv, NEW q \in Requests, NEW r \in Hidden(ch[q])
               PROVE  failed[r] < ALIVE_MAXAGE
    BY DEF OnlyRecentFailuresHidden
  <2>1. /\ snapshot.whole /\ snapshot.age < ALIVE_MAXAGE
        /\ r \in snapshot.catalog \ snapshot.alive
    BY DEF Hidden, Usable
  <2>2. failed[r] <= snapshot.age
    BY <2>1 DEF IInv, Honest
  <2>3. failed[r] \in Nat /\ snapshot.age \in Nat /\ ALIVE_MAXAGE \in Nat
    BY <2>1, AgesNat, WhitelistAssumption DEF IInv, TypeOK, Snapshots
  <2> QED
    BY <2>1, <2>2, <2>3
<1> QED
  BY <1>1, Invariant, PTL

\* A snapshot is never replaced by that of a check that began earlier.
THEOREM NoSnapshotRegressHolds == Spec => NoSnapshotRegress
<1>1. IInv /\ [Next]_vars =>
        [snapshot' # snapshot /\ snapshot.whole /\ ~Tick =>
           snapshot'.whole /\ snapshot'.age <= snapshot.age]_vars
  <2> SUFFICES ASSUME IInv, Next, snapshot' # snapshot, snapshot.whole, ~Tick
               PROVE  snapshot'.whole /\ snapshot'.age <= snapshot.age
    OBVIOUS
  <2>1. PICK h \in Checkers : Rename(h)
    BY DEF Next, Work, Launch, Enter, Begin, ResolveRoom, PullRoom, Open, Write, Release,
           Serve, Ask, Recent, ReadSnapshot, Age, Load, Filter, Sync, Crash
  <2> QED
    BY <2>1 DEF Rename, IInv, Younger
<1> QED
  BY <1>1, Invariant, PTL DEF Spec, NoSnapshotRegress
=============================================================================
