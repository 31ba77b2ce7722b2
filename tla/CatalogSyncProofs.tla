------------------------- MODULE CatalogSyncProofs --------------------------
(***************************************************************************)
(* Proofs about CatalogSync, for any number of overlapping runs, rooms,    *)
(* directories and pages.                                                  *)
(***************************************************************************)
EXTENDS CatalogSync, FiniteSetTheorems, TLAPS

\* While a run holds the lock nobody else can have published since it began.
NotSuperseded == \A s \in Syncs : pc[s] \in Holding => ~superseded[s]

\* Only a large enough result gets as far as the temporary file.
EnoughToWrite ==
  \A s \in Syncs : pc[s] \in {"write", "replace"} => Enough(huya[s], douyu[s])

IInv == TypeOK /\ LockCoversRun /\ NotSuperseded /\ EnoughToWrite /\ LastGood

\* The number of pages of a directory is a number within the cap.
LEMMA TargetInRange ==
  ASSUME NEW d \in Directories, NEW total \in Nat
  PROVE  Target(d, total) \in 0..MaxPages
<1>1. PageLimit[d] \in Nat /\ MaxPages \in Nat
  BY CatalogAssumption
<1> QED
  BY <1>1 DEF Target, Lesser

\* Types: one step per action.
LEMMA TypeStep == TypeOK /\ [Next]_vars => TypeOK'
<1> SUFFICES ASSUME TypeOK, [Next]_vars PROVE TypeOK'
  OBVIOUS
<1> USE CatalogAssumption
<1>1. ASSUME NEW s \in Syncs, Start(s) PROVE TypeOK'
  BY <1>1 DEF Start, Goto, TypeOK, Labels
<1>2. ASSUME NEW s \in Syncs, FirstPage(s) PROVE TypeOK'
  <2>1. ASSUME NEW d \in left[s], NEW total \in 0..MaxPages + 1,
               NEW rooms \in (SUBSET Rooms) \ {{}},
               left' = [left EXCEPT ![s] = @ \ {d}],
               target' = [target EXCEPT ![s] = Target(d, total)],
               results' = [results EXCEPT ![s] = {1}],
               huya' = [huya EXCEPT ![s] = @ \cup rooms],
               UNCHANGED <<pc, failures, douyu, page>>
        PROVE  TypeOK'
    <3>1. d \in Directories
      BY <2>1 DEF TypeOK
    <3>2. Target(d, total) \in 0..MaxPages
      BY <3>1, TargetInRange
    <3>3. {1} \in SUBSET (1..MaxPages)
      OBVIOUS
    <3> QED
      BY <1>2, <2>1, <3>2, <3>3 DEF FirstPage, TypeOK
  <2>2. ASSUME GiveUp(s) PROVE TypeOK'
    BY <1>2, <2>2 DEF FirstPage, GiveUp, Goto, TypeOK, Labels
  <2>3. ASSUME Goto(s, "douyu"), UNCHANGED fetch PROVE TypeOK'
    BY <1>2, <2>3 DEF FirstPage, Goto, fetch, TypeOK, Labels
  <2> QED
    BY <1>2, <2>1, <2>2, <2>3 DEF FirstPage
<1>3. ASSUME NEW s \in Syncs, OtherPage(s) PROVE TypeOK'
  BY <1>3 DEF OtherPage, TypeOK
<1>4. ASSUME NEW s \in Syncs, EndDirectory(s) PROVE TypeOK'
  BY <1>4 DEF EndDirectory, GiveUp, Goto, TypeOK, Labels
<1>5. ASSUME NEW s \in Syncs, DouyuPage(s) PROVE TypeOK'
  BY <1>5 DEF DouyuPage, Goto, TypeOK, Labels
<1>6. ASSUME NEW s \in Syncs, DouyuEnd(s) \/ Check(s) \/ Write(s) \/ Unlock(s) PROVE TypeOK'
  BY <1>6 DEF DouyuEnd, Check, Write, Unlock, Goto, fetch, TypeOK, Labels
<1>7. ASSUME NEW s \in Syncs, Replace(s) PROVE TypeOK'
  BY <1>7 DEF Replace, Goto, fetch, TypeOK, Labels, Catalogues
<1>8. ASSUME NEW s \in Syncs, Alarm(s) PROVE TypeOK'
  BY <1>8 DEF Alarm, Goto, TypeOK, Labels
<1>9. CASE Crash
  BY <1>9 DEF Crash, TypeOK, Labels
<1>10. CASE UNCHANGED vars
  BY <1>10 DEF vars, TypeOK
<1> QED
  BY <1>1, <1>2, <1>3, <1>4, <1>5, <1>6, <1>7, <1>8, <1>9, <1>10 DEF Next, Step

\* What each kind of step does to lock and pc: enough for the lock.
LEMMA LockStep == IInv /\ [Next]_vars => LockCoversRun'
<1> SUFFICES ASSUME IInv, [Next]_vars PROVE LockCoversRun'
  OBVIOUS
<1> USE CatalogAssumption DEF IInv, TypeOK, LockCoversRun, Holding, Labels, Goto
<1>1. ASSUME NEW s \in Syncs, Start(s) PROVE LockCoversRun'
  BY <1>1 DEF Start
<1>2. ASSUME NEW s \in Syncs, FirstPage(s) \/ EndDirectory(s) PROVE LockCoversRun'
  BY <1>2 DEF FirstPage, EndDirectory, GiveUp
<1>3. ASSUME NEW s \in Syncs, OtherPage(s) \/ DouyuPage(s) \/ DouyuEnd(s) PROVE LockCoversRun'
  BY <1>3 DEF OtherPage, DouyuPage, DouyuEnd
<1>4. ASSUME NEW s \in Syncs, Check(s) \/ Write(s) \/ Replace(s) PROVE LockCoversRun'
  BY <1>4 DEF Check, Write, Replace
<1>5. ASSUME NEW s \in Syncs, Unlock(s) \/ Alarm(s) PROVE LockCoversRun'
  BY <1>5 DEF Unlock, Alarm
<1>6. CASE Crash
  BY <1>6 DEF Crash
<1>7. CASE UNCHANGED vars
  BY <1>7 DEF vars
<1> QED
  BY <1>1, <1>2, <1>3, <1>4, <1>5, <1>6, <1>7 DEF Next, Step

\* A run that begins is not superseded, and one that publishes holds the
\* lock, so it supersedes runs that are over.
LEMMA SupersededStep == IInv /\ [Next]_vars => NotSuperseded'
<1> SUFFICES ASSUME IInv, [Next]_vars PROVE NotSuperseded'
  OBVIOUS
<1> USE CatalogAssumption DEF IInv, TypeOK, NotSuperseded, Holding, Labels, Goto
<1>1. ASSUME NEW s \in Syncs, Start(s) PROVE NotSuperseded'
  BY <1>1 DEF Start
<1>2. ASSUME NEW s \in Syncs, FirstPage(s) \/ EndDirectory(s) PROVE NotSuperseded'
  BY <1>2 DEF FirstPage, EndDirectory, GiveUp
<1>3. ASSUME NEW s \in Syncs, OtherPage(s) \/ DouyuPage(s) \/ DouyuEnd(s) PROVE NotSuperseded'
  BY <1>3 DEF OtherPage, DouyuPage, DouyuEnd
<1>4. ASSUME NEW s \in Syncs, Check(s) \/ Write(s) PROVE NotSuperseded'
  BY <1>4 DEF Check, Write
<1>5. ASSUME NEW s \in Syncs, Replace(s) PROVE NotSuperseded'
  <2>1. lock = s
    BY <1>5 DEF Replace, LockCoversRun
  <2>2. \A x \in Syncs : pc'[x] \in Holding => x = s
    BY <1>5, <2>1 DEF Replace, LockCoversRun
  <2>3. superseded' = [x \in Syncs |-> x # s]
    BY <1>5 DEF Replace
  <2> QED
    BY <2>2, <2>3
<1>6. ASSUME NEW s \in Syncs, Unlock(s) \/ Alarm(s) PROVE NotSuperseded'
  BY <1>6 DEF Unlock, Alarm
<1>7. CASE Crash
  BY <1>7 DEF Crash
<1>8. CASE UNCHANGED vars
  BY <1>8 DEF vars
<1> QED
  BY <1>1, <1>2, <1>3, <1>4, <1>5, <1>6, <1>7, <1>8 DEF Next, Step

\* The size is checked after the last page and nothing is added later.
LEMMA EnoughStep == IInv /\ [Next]_vars => EnoughToWrite'
<1> SUFFICES ASSUME IInv, [Next]_vars PROVE EnoughToWrite'
  OBVIOUS
<1> USE DEF IInv, TypeOK, EnoughToWrite, Labels, Goto
<1>1. ASSUME NEW s \in Syncs, Start(s) PROVE EnoughToWrite'
  BY <1>1 DEF Start
<1>2. ASSUME NEW s \in Syncs, FirstPage(s) \/ EndDirectory(s) PROVE EnoughToWrite'
  BY <1>2 DEF FirstPage, EndDirectory, GiveUp, fetch
<1>3. ASSUME NEW s \in Syncs, OtherPage(s) \/ DouyuPage(s) \/ DouyuEnd(s) PROVE EnoughToWrite'
  BY <1>3 DEF OtherPage, DouyuPage, DouyuEnd, fetch
<1>4. ASSUME NEW s \in Syncs, Check(s) \/ Write(s) \/ Replace(s) PROVE EnoughToWrite'
  BY <1>4 DEF Check, Write, Replace, fetch
<1>5. ASSUME NEW s \in Syncs, Unlock(s) \/ Alarm(s) PROVE EnoughToWrite'
  BY <1>5 DEF Unlock, Alarm, fetch
<1>6. CASE Crash
  BY <1>6 DEF Crash
<1>7. CASE UNCHANGED vars
  BY <1>7 DEF vars
<1> QED
  BY <1>1, <1>2, <1>3, <1>4, <1>5, <1>6, <1>7 DEF Next, Step

\* The file changes in Replace only.
LEMMA FileChanges == [Next]_vars => channels' = channels \/ \E s \in Syncs : Replace(s)
<1>1. ASSUME NEW s \in Syncs, Start(s) \/ Step(s) PROVE Replace(s) \/ channels' = channels
  BY <1>1 DEF Start, Step, FirstPage, OtherPage, EndDirectory, DouyuPage, DouyuEnd,
              Check, Write, Unlock, Alarm
<1>2. Crash \/ UNCHANGED vars => channels' = channels
  BY DEF Crash, vars
<1> QED
  BY <1>1, <1>2 DEF Next

LEMMA FileStep == IInv /\ [Next]_vars => LastGood'
<1> SUFFICES ASSUME IInv, [Next]_vars PROVE LastGood'
  OBVIOUS
<1>1. ASSUME NEW s \in Syncs, Replace(s) PROVE LastGood'
  <2>1. Enough(huya[s], douyu[s])
    BY <1>1 DEF Replace, IInv, EnoughToWrite
  <2>2. channels'.huya = huya[s] /\ channels'.douyu = douyu[s]
    BY <1>1 DEF Replace
  <2> QED
    BY <2>1, <2>2 DEF LastGood, Enough
<1>2. ASSUME channels' = channels PROVE LastGood'
  BY <1>2 DEF IInv, LastGood
<1> QED
  BY <1>1, <1>2, FileChanges

\* The invariant holds always.
THEOREM Invariant == Spec => []IInv
<1>1. Init => IInv
  BY CatalogAssumption
     DEF Init, IInv, TypeOK, LockCoversRun, NotSuperseded, EnoughToWrite, LastGood,
         Labels, Holding
<1>2. IInv /\ [Next]_vars => IInv'
  BY TypeStep, LockStep, SupersededStep, EnoughStep, FileStep DEF IInv
<1> QED
  BY <1>1, <1>2, PTL DEF Spec

\* Every variable keeps its type.
THEOREM TypeCorrect == Spec => []TypeOK
<1>1. IInv => TypeOK
  BY DEF IInv
<1> QED
  BY <1>1, Invariant, PTL

\* The lock covers the whole of the one run there is (sync_channels.py:175).
THEOREM LockCorrect == Spec => []LockCoversRun
<1>1. IInv => LockCoversRun
  BY DEF IInv
<1> QED
  BY <1>1, Invariant, PTL

\* channels.json is absent or a whole and large enough catalogue
\* (sync_channels.py:215-216, 236-246).
THEOREM LastGoodKept == Spec => []LastGood
<1>1. IInv => LastGood
  BY DEF IInv
<1> QED
  BY <1>1, Invariant, PTL

\* No run publishes what it began to fetch before another one published.
THEOREM NoOldResultHolds == Spec => NoOldResult
<1>1. IInv => \A s \in Syncs : Replace(s) => ~superseded[s]
  BY DEF IInv, NotSuperseded, Replace, Holding, Labels
<1>2. IInv /\ [Next]_vars => [\A s \in Syncs : Replace(s) => ~superseded[s]]_vars
  BY <1>1
<1> QED
  BY <1>2, Invariant, PTL DEF Spec, NoOldResult

\* To Whitelist every step is its action Sync or leaves the catalogue alone
\* (m3u.go:129, sync_channels.py:236-246).
THEOREM CatalogueOnlyReplaced == Spec => OnlySyncs
<1>1. IInv' => DouyuCatalog' \in SUBSET Rooms /\ (channels' # NoFile => DouyuCatalog' # {})
  <2> SUFFICES ASSUME IInv', channels' # NoFile
               PROVE  DouyuCatalog' \in SUBSET Rooms /\ DouyuCatalog' # {}
    BY DEF DouyuCatalog
  <2>1. channels' \in Catalogues /\ DouyuCatalog' = channels'.douyu
    BY DEF IInv, TypeOK, DouyuCatalog
  <2>2. Cardinality(channels'.douyu) >= MinDouyu /\ MinDouyu \in Nat \ {0}
    BY CatalogAssumption DEF IInv, LastGood
  <2>3. channels'.douyu # {}
    BY <2>2, FS_EmptySet
  <2> QED
    BY <2>1, <2>3 DEF Catalogues
<1>2. IInv /\ [Next]_vars /\ channels # NoFile => channels' # NoFile
  <2> SUFFICES ASSUME IInv, [Next]_vars, channels # NoFile PROVE channels' # NoFile
    OBVIOUS
  <2>1. ASSUME NEW s \in Syncs, Replace(s) PROVE channels' # NoFile
    BY <2>1, FileAssumption DEF Replace, IInv, TypeOK, Catalogues
  <2> QED
    BY <2>1, FileChanges
<1>3. IInv /\ IInv' /\ [Next]_vars =>
        [DouyuCatalog' \in (SUBSET Rooms) \ {{}, DouyuCatalog}]_DouyuCatalog
  <2> SUFFICES ASSUME IInv, IInv', [Next]_vars, DouyuCatalog' # DouyuCatalog
               PROVE  DouyuCatalog' \in (SUBSET Rooms) \ {{}, DouyuCatalog}
    OBVIOUS
  <2>1. channels' # NoFile
    BY <1>2 DEF DouyuCatalog
  <2>2. DouyuCatalog' \in SUBSET Rooms /\ DouyuCatalog' # {}
    BY <1>1, <2>1
  <2> QED
    BY <2>2
<1> QED
  BY <1>3, Invariant, PTL DEF Spec, OnlySyncs
=============================================================================
