-------------------------- MODULE IptvBridgeProofs --------------------------
(***************************************************************************)
(* Proofs about IptvPublish and IptvBridge, for any number of runs, any    *)
(* lists and any limits.  What holds of the published list itself, whoever *)
(* wrote it, is proved of a deployment without the NAS script, which       *)
(* breaks it.                                                              *)
(*                                                                         *)
(* IptvBridge implements IptvPublish: its probe is a way to choose what    *)
(* Verify keeps, so that the theorems about Spec hold of BridgeSpec too.   *)
(***************************************************************************)
EXTENDS IptvBridge, FiniteSetTheorems, WellFoundedInduction, TLAPS

\* The locked region cannot be overtaken.
NotSuperseded ==
  \A b \in Bridges : pc[b] \in Locked \ {"read", "exit"} => ~superseded[b]

\* What a bridge holds has passed the filter, and the gate before it writes.
Filtered ==
  \A b \in Bridges :
    /\ pc[b] \in {"gate", "write", "replace"} => text[b] \cap Rejected = {}
    /\ pc[b] \in {"write", "replace"} => Cardinality(text[b]) >= Floor

\* bridge_iptv.sh only runs it on a file that is there.
SourceThere == \A b \in Bridges : pc[b] = "read" => source # NoFile

IInv == TypeOK /\ SourceThere /\ OneBridge /\ NotSuperseded /\ Filtered

LEMMA TypeStep == TypeOK /\ SourceThere /\ [Next]_vars => TypeOK'
<1> SUFFICES ASSUME TypeOK, SourceThere, [Next]_vars PROVE TypeOK'
  OBVIOUS
<1> USE PublishAssumption DEF TypeOK, Goto, Runs, Lists, Labels
<1>1. CASE Update
  BY <1>1 DEF Update
<1>2. ASSUME NEW b \in Bridges, Enter(b) \/ Gate(b) \/ Write(b) PROVE TypeOK'
  BY <1>2 DEF Enter, Gate, Write
<1>3. ASSUME NEW b \in Bridges, Read(b) PROVE TypeOK'
  <2>1. source \in SUBSET Channels \/ source = NoFile
    OBVIOUS
  <2>2. source # NoFile
    BY <1>3 DEF Read, SourceThere
  <2> QED
    BY <1>3, <2>1, <2>2 DEF Read
<1>4. ASSUME NEW b \in Bridges, Verify(b) PROVE TypeOK'
  BY <1>4 DEF Verify, Accept, Candidates
<1>5. ASSUME NEW b \in Bridges, Fallback(b) PROVE TypeOK'
  BY <1>5 DEF Fallback, Candidates
<1>6. ASSUME NEW b \in Bridges, Replace(b) PROVE TypeOK'
  BY <1>6 DEF Replace
<1>7. ASSUME NEW b \in Bridges, Exit(b) \/ Die(b) PROVE TypeOK'
  BY <1>7 DEF Exit, Die
<1>8. ASSUME NEW n \in Copies, Fetch(n) \/ Count(n) \/ Copy(n) PROVE TypeOK'
  BY <1>8 DEF Fetch, Count, Copy, Leave
<1>9. ASSUME NEW n \in Copies, Move(n) PROVE TypeOK'
  BY <1>9 DEF Move, Leave
<1>10. CASE UNCHANGED vars
  BY <1>10 DEF vars
<1> QED
  BY <1>1, <1>2, <1>3, <1>4, <1>5, <1>6, <1>7, <1>8, <1>9, <1>10 DEF Next, Bridge, AfterProbe, CopyStep

LEMMA SourceStep == IInv /\ [Next]_vars => SourceThere'
<1> SUFFICES ASSUME IInv, [Next]_vars PROVE SourceThere'
  OBVIOUS
<1> USE PublishAssumption DEF IInv, TypeOK, SourceThere, Goto, Runs, Labels
<1>1. CASE Update
  BY <1>1 DEF Update, Lists
<1>2. ASSUME NEW b \in Bridges, Enter(b) \/ Bridge(b) \/ Die(b) PROVE SourceThere'
  BY <1>2 DEF Enter, Bridge, AfterProbe, Die, Read, Verify, Accept, Fallback, Gate, Write, Replace, Exit
<1>3. ASSUME NEW n \in Copies, Fetch(n) \/ Count(n) \/ Copy(n) \/ Move(n) PROVE SourceThere'
  BY <1>3 DEF Fetch, Count, Copy, Move, Leave
<1>4. CASE UNCHANGED vars
  BY <1>4 DEF vars
<1> QED
  BY <1>1, <1>2, <1>3, <1>4 DEF Next, CopyStep

LEMMA LockStep == IInv /\ [Next]_vars => OneBridge'
<1> SUFFICES ASSUME IInv, [Next]_vars PROVE OneBridge'
  OBVIOUS
<1> USE PublishAssumption DEF IInv, TypeOK, OneBridge, Goto, Runs, Labels, Locked
<1>1. CASE Update
  BY <1>1 DEF Update
<1>2. ASSUME NEW b \in Bridges, Enter(b) PROVE OneBridge'
  BY <1>2 DEF Enter
<1>3. ASSUME NEW b \in Bridges, Read(b) \/ Verify(b) \/ Fallback(b) PROVE OneBridge'
  BY <1>3 DEF Read, Verify, Accept, Fallback
<1>4. ASSUME NEW b \in Bridges, Gate(b) \/ Write(b) \/ Replace(b) PROVE OneBridge'
  BY <1>4 DEF Gate, Write, Replace
<1>5. ASSUME NEW b \in Bridges, Exit(b) \/ Die(b) PROVE OneBridge'
  BY <1>5 DEF Exit, Die
<1>6. ASSUME NEW n \in Copies, Fetch(n) \/ Count(n) \/ Copy(n) \/ Move(n) PROVE OneBridge'
  BY <1>6 DEF Fetch, Count, Copy, Move, Leave
<1>7. CASE UNCHANGED vars
  BY <1>7 DEF vars
<1> QED
  BY <1>1, <1>2, <1>3, <1>4, <1>5, <1>6, <1>7 DEF Next, Bridge, AfterProbe, CopyStep

LEMMA SupersededStep == IInv /\ [Next]_vars => NotSuperseded'
<1> SUFFICES ASSUME IInv, [Next]_vars PROVE NotSuperseded'
  OBVIOUS
<1> USE PublishAssumption DEF IInv, TypeOK, NotSuperseded, Goto, Runs, Labels, Locked
<1>1. CASE Update
  BY <1>1 DEF Update
<1>2. ASSUME NEW b \in Bridges, Enter(b) PROVE NotSuperseded'
  BY <1>2 DEF Enter
<1>3. ASSUME NEW b \in Bridges, Read(b) \/ Verify(b) \/ Fallback(b) PROVE NotSuperseded'
  BY <1>3 DEF Read, Verify, Accept, Fallback
<1>4. ASSUME NEW b \in Bridges, Gate(b) \/ Write(b) PROVE NotSuperseded'
  BY <1>4 DEF Gate, Write
<1>5. ASSUME NEW b \in Bridges, Replace(b) PROVE NotSuperseded'
  <2>1. \A x \in Bridges : pc[x] \in Locked => x = b
    BY <1>5 DEF Replace, OneBridge
  <2> QED
    BY <1>5, <2>1 DEF Replace
<1>6. ASSUME NEW b \in Bridges, Exit(b) \/ Die(b) PROVE NotSuperseded'
  BY <1>6 DEF Exit, Die
<1>7. ASSUME NEW n \in Copies, Fetch(n) \/ Count(n) \/ Copy(n) \/ Move(n) PROVE NotSuperseded'
  BY <1>7 DEF Fetch, Count, Copy, Move, Leave
<1>8. CASE UNCHANGED vars
  BY <1>8 DEF vars
<1> QED
  BY <1>1, <1>2, <1>3, <1>4, <1>5, <1>6, <1>7, <1>8 DEF Next, Bridge, AfterProbe, CopyStep

LEMMA FilteredStep == IInv /\ [Next]_vars => Filtered'
<1> SUFFICES ASSUME IInv, [Next]_vars PROVE Filtered'
  OBVIOUS
<1> USE PublishAssumption DEF IInv, TypeOK, Filtered, Goto, Runs, Labels
<1>1. CASE Update
  BY <1>1 DEF Update
<1>2. ASSUME NEW b \in Bridges, Enter(b) PROVE Filtered'
  BY <1>2 DEF Enter
<1>3. ASSUME NEW b \in Bridges, Read(b) PROVE Filtered'
  BY <1>3 DEF Read
<1>4. ASSUME NEW b \in Bridges, Verify(b) PROVE Filtered'
  BY <1>4 DEF Verify, Accept, Candidates
<1>5. ASSUME NEW b \in Bridges, Fallback(b) PROVE Filtered'
  BY <1>5 DEF Fallback, Candidates
<1>6. ASSUME NEW b \in Bridges, Gate(b) PROVE Filtered'
  BY <1>6 DEF Gate
<1>7. ASSUME NEW b \in Bridges, Write(b) \/ Replace(b) PROVE Filtered'
  BY <1>7 DEF Write, Replace
<1>8. ASSUME NEW b \in Bridges, Exit(b) \/ Die(b) PROVE Filtered'
  BY <1>8 DEF Exit, Die
<1>9. ASSUME NEW n \in Copies, Fetch(n) \/ Count(n) \/ Copy(n) \/ Move(n) PROVE Filtered'
  BY <1>9 DEF Fetch, Count, Copy, Move, Leave
<1>10. CASE UNCHANGED vars
  BY <1>10 DEF vars
<1> QED
  BY <1>1, <1>2, <1>3, <1>4, <1>5, <1>6, <1>7, <1>8, <1>9, <1>10 DEF Next, Bridge, AfterProbe, CopyStep

LEMMA InvariantStep == IInv /\ [Next]_vars => IInv'
BY TypeStep, SourceStep, LockStep, SupersededStep, FilteredStep DEF IInv

LEMMA InvariantInit == Init => IInv
BY PublishAssumption
   DEF Init, IInv, TypeOK, SourceThere, OneBridge, NotSuperseded, Filtered, Lists, Labels, Locked, Runs

\* The invariant holds always.
THEOREM Invariant == Spec => []IInv
BY InvariantInit, InvariantStep, PTL DEF Spec

\* One bridge at a time, whatever the NAS script does.
THEOREM OneBridgeHolds == Spec => []OneBridge
<1>1. IInv => OneBridge
  BY DEF IInv
<1> QED
  BY <1>1, Invariant, PTL

\* No bridge publishes what it read before another one published.
THEOREM NoOldListHolds == Spec => NoOldList
<1>1. IInv => \A b \in Bridges : Replace(b) => ~superseded[b]
  BY DEF IInv, NotSuperseded, Replace, Locked
<1>2. IInv /\ [Next]_vars => [\A b \in Bridges : Replace(b) => ~superseded[b]]_vars
  BY <1>1
<1> QED
  BY <1>2, Invariant, PTL DEF Spec, NoOldList

\* Every list a bridge publishes is large enough, beside a NAS script too ...
THEOREM BridgesPublishEnough == Spec => EnoughByBridge
<1>1. IInv => \A b \in Bridges : Replace(b) => Cardinality(published') >= Floor
  BY DEF IInv, Filtered, Replace
<1>2. IInv /\ [Next]_vars =>
        [\A b \in Bridges : Replace(b) => Cardinality(published') >= Floor]_vars
  BY <1>1
<1> QED
  BY <1>2, Invariant, PTL DEF Spec, EnoughByBridge

\* ... and has nothing that the filter rejects (filter_iptv.py:145).
THEOREM BridgesPublishFiltered == Spec => NothingRejectedByBridge
<1>1. IInv => \A b \in Bridges : Replace(b) => published' \cap Rejected = {}
  BY DEF IInv, Filtered, Replace
<1>2. IInv /\ [Next]_vars =>
        [\A b \in Bridges : Replace(b) => published' \cap Rejected = {}]_vars
  BY <1>1
<1> QED
  BY <1>2, Invariant, PTL DEF Spec, NothingRejectedByBridge

\* Only Replace publishes when there is no NAS script.
LEMMA OnlyReplacePublishes ==
  Copies = {} /\ [Next]_vars => published' = published \/ \E b \in Bridges : Replace(b)
<1> SUFFICES ASSUME Copies = {}, [Next]_vars
             PROVE  published' = published \/ \E b \in Bridges : Replace(b)
  OBVIOUS
<1>1. ASSUME NEW b \in Bridges, Enter(b) \/ Bridge(b) \/ Die(b)
      PROVE  published' = published \/ Replace(b)
  BY <1>1 DEF Enter, Bridge, AfterProbe, Die, Read, Verify, Accept, Fallback, Gate, Write, Exit
<1>2. CASE Update
  BY <1>2 DEF Update
<1> QED
  BY <1>1, <1>2 DEF Next, vars

\* Without a NAS script the snapshot never falls below the limit
\* (filter_iptv.py:438).
THEOREM EnoughWithoutNas ==
  ASSUME Copies = {}
  PROVE  Spec => []EnoughPublished
<1>1. Init => EnoughPublished
  BY DEF Init, EnoughPublished
<1>2. IInv /\ EnoughPublished /\ [Next]_vars => EnoughPublished'
  <2> SUFFICES ASSUME IInv, EnoughPublished, [Next]_vars PROVE EnoughPublished'
    OBVIOUS
  <2>1. CASE published' = published
    BY <2>1 DEF EnoughPublished, Floor
  <2>2. ASSUME NEW b \in Bridges, Replace(b) PROVE EnoughPublished'
    <3>1. published' = text[b] /\ Cardinality(text[b]) >= Floor
      BY <2>2 DEF Replace, IInv, Filtered
    <3> QED
      BY <3>1 DEF EnoughPublished, Floor
  <2> QED
    BY <2>1, <2>2, OnlyReplacePublishes
<1> QED
  BY <1>1, <1>2, Invariant, PTL DEF Spec

(***************************************************************************)
(* Counting lines                                                          *)
(***************************************************************************)
LEMMA Least ==
  ASSUME NEW S, S \subseteq Nat, S # {}
  PROVE  \E i \in S : \A j \in S : i <= j
<1>1. PICK i \in S : \A j \in S : ~ (<<j, i>> \in OpToRel(<, Nat))
  BY NatLessThanWellFounded, WFMin
<1>2. \A j \in S : (<<j, i>> \in OpToRel(<, Nat)) <=> j < i
  BY DEF OpToRel
<1>3. \A j \in S : ~ (j < i)
  BY <1>1, <1>2
<1> QED
  BY <1>3

\* The lines before a line, and the lines a channel has taken.
Before(L, i) == {j \in L : j < i}
Taken(c) ==
  {i \in Filter!LinesOf(c) : Cardinality(Before(Filter!LinesOf(c), i)) < positions[c]}

LEMMA BeforeGrows ==
  ASSUME NEW L, L \subseteq Nat, IsFiniteSet(L), NEW i \in L, NEW k \in L, i < k
  PROVE  Cardinality(Before(L, i)) < Cardinality(Before(L, k))
<1>0. \A j \in L : j \in Nat
  OBVIOUS
<1>1. /\ Before(L, i) \in SUBSET L /\ i \notin Before(L, i)
      /\ Before(L, k) \in SUBSET L
      /\ Before(L, i) \cup {i} \in SUBSET Before(L, k)
  <2>1. \A j \in L : j < i => j < k
    BY <1>0
  <2>2. ~(i < i)
    BY <1>0
  <2> QED
    BY <2>1, <2>2 DEF Before
<1>2. IsFiniteSet(Before(L, i)) /\ IsFiniteSet(Before(L, k))
  BY <1>1, FS_Subset
<1>3. Cardinality(Before(L, i) \cup {i}) = Cardinality(Before(L, i)) + 1
  BY <1>1, <1>2, FS_AddElement
<1>4. Cardinality(Before(L, i) \cup {i}) <= Cardinality(Before(L, k))
  BY <1>1, <1>2, FS_Subset
<1> QED
  BY <1>2, <1>3, <1>4, FS_CardinalityType

\* The first p lines are p lines, and one more when there is one.
LEMMA OneMore ==
  ASSUME NEW L, L \subseteq Nat, IsFiniteSet(L), NEW p \in Nat, p < Cardinality(L),
         Cardinality({i \in L : Cardinality(Before(L, i)) < p}) = p
  PROVE  \E i \in L :
           /\ \A j \in L : Cardinality(Before(L, j)) = p <=> j = i
           /\ {j \in L : Cardinality(Before(L, j)) < p + 1} =
                {j \in L : Cardinality(Before(L, j)) < p} \cup {i}
           /\ Cardinality({j \in L : Cardinality(Before(L, j)) < p + 1}) = p + 1
<1> DEFINE T == {j \in L : Cardinality(Before(L, j)) < p}
<1>1. \A j \in L : Cardinality(Before(L, j)) \in Nat
  BY FS_Subset, FS_CardinalityType DEF Before
<1>2. L \ T # {} /\ T \in SUBSET L /\ L \ T \subseteq Nat
  <2>1. L \ T = {} => T = L
    OBVIOUS
  <2>2. p # Cardinality(L) /\ Cardinality(T) = p
    OBVIOUS
  <2>3. L \ T # {}
    <3> HIDE DEF T
    <3> QED
      BY <2>1, <2>2
  <2> QED
    BY <2>3
<1>3. PICK i \in L \ T : \A j \in L \ T : i <= j
  <2> HIDE DEF T
  <2> QED
    BY <1>2, Least
<1>4. Before(L, i) = T
  <2>1. \A j \in T : j < i
    <3> SUFFICES ASSUME NEW j \in T, ~(j < i) PROVE FALSE
      OBVIOUS
    <3>1. i < j /\ i \in L /\ j \in L
      BY <1>2, <1>3
    <3>2. Cardinality(Before(L, i)) < Cardinality(Before(L, j))
      BY <3>1, BeforeGrows
    <3> QED
      BY <1>1, <1>3, <3>1, <3>2
  <2>2. \A j \in L : j < i => j \in T
    <3> HIDE DEF T
    <3> QED
      BY <1>2, <1>3
  <2> QED
    BY <2>1, <2>2 DEF Before
<1>5. \A j \in L : Cardinality(Before(L, j)) = p <=> j = i
  <2> SUFFICES ASSUME NEW j \in L, Cardinality(Before(L, j)) = p PROVE j = i
    BY <1>4
  <2>1. ~(i < j) /\ ~(j < i)
    BY <1>4, <1>1, BeforeGrows
  <2> QED
    BY <2>1, <1>2
<1>6. {j \in L : Cardinality(Before(L, j)) < p + 1} = T \cup {i}
  <2>1. \A j \in L : Cardinality(Before(L, j)) < p + 1 <=>
          Cardinality(Before(L, j)) < p \/ Cardinality(Before(L, j)) = p
    BY <1>1
  <2>2. {j \in L : Cardinality(Before(L, j)) < p + 1} = T \cup {j \in L : j = i}
    BY <1>5, <2>1
  <2> QED
    BY <2>2, <1>3
<1>7. Cardinality(T \cup {i}) = p + 1
  <2>1. IsFiniteSet(T)
    BY FS_Subset
  <2>2. i \notin T /\ Cardinality(T) = p
    BY <1>3
  <2> HIDE DEF T
  <2> QED
    BY <2>1, <2>2, FS_AddElement
<1> QED
  BY <1>3, <1>5, <1>6, <1>7

(***************************************************************************)
(* The probe                                                               *)
(***************************************************************************)
L(c) == Filter!LinesOf(c)
Tried == {i \in entries : i \in Taken(Channel[i])}

FilterType ==
  /\ probe \in {"idle", "build", "probe", "done"}
  /\ entries \subseteq 1..Size
  /\ positions \in [Channels -> Nat] /\ successes \in [Channels -> Nat]
  /\ failures \in Nat
  /\ accepted \subseteq entries /\ batch \subseteq entries

\* What a channel has taken are its first lines; each of them is good, of
\* this round, or a failure.
FilterInv ==
  /\ FilterType
  /\ accepted \cap batch = {} /\ (probe # "probe" => batch = {})
  /\ accepted \cup batch \subseteq Tried
  /\ failures = Cardinality(Tried \ (accepted \cup batch))
  /\ \A c \in Channels :
       /\ Cardinality(Taken(c)) = positions[c]
       /\ successes[c] = Cardinality(accepted \cap L(c))
       /\ successes[c] + Cardinality(batch \cap L(c)) <= Limit
  /\ probe = "done" => \A c \in Channels : ~Filter!Hungry(c)

LEMMA Counting == \A S : Filter!Cardinality(S) = Cardinality(S)
BY DEF Filter!Cardinality, Cardinality

LEMMA LineFacts ==
  ASSUME FilterType
  PROVE  /\ IsFiniteSet(entries)
         /\ \A S \in SUBSET entries : IsFiniteSet(S) /\ Cardinality(S) \in Nat
         /\ \A c \in Channels : L(c) \in SUBSET entries /\ Taken(c) \in SUBSET L(c)
         /\ \A i \in entries : Channel[i] \in Channels /\ i \in L(Channel[i]) /\ i \in Nat
         /\ \A c \in Channels : Cardinality(Taken(c)) <= Filter!CountOf(c) /\ Filter!CountOf(c) \in Nat
<1>1. IsFiniteSet(1..Size) /\ 1..Size \subseteq Nat
  BY FilterAssumption, FS_Interval
<1>2. IsFiniteSet(entries)
  BY <1>1, FS_Subset DEF FilterType
<1>3. \A S \in SUBSET entries : IsFiniteSet(S) /\ Cardinality(S) \in Nat
  BY <1>2, FS_Subset, FS_CardinalityType
<1>4. \A c \in Channels : L(c) \in SUBSET entries /\ Taken(c) \in SUBSET L(c)
  BY DEF L, Taken, Filter!LinesOf
<1>5. \A i \in entries : Channel[i] \in Channels /\ i \in L(Channel[i]) /\ i \in Nat
  BY <1>1, FilterAssumption DEF FilterType, L, Filter!LinesOf
<1>6. \A c \in Channels : Cardinality(Taken(c)) <= Filter!CountOf(c) /\ Filter!CountOf(c) \in Nat
  <2> SUFFICES ASSUME NEW c \in Channels
               PROVE  Cardinality(Taken(c)) <= Filter!CountOf(c) /\ Filter!CountOf(c) \in Nat
    OBVIOUS
  <2>1. IsFiniteSet(L(c)) /\ Cardinality(L(c)) \in Nat /\ Taken(c) \in SUBSET L(c)
    BY <1>3, <1>4
  <2>2. Cardinality(Taken(c)) <= Cardinality(L(c))
    BY <2>1, FS_Subset
  <2> QED
    BY <2>1, <2>2, Counting DEF L, Filter!CountOf
<1> QED
  BY <1>2, <1>3, <1>4, <1>5, <1>6

\* Nothing tried: at the start, and when the run is over.
LEMMA FreshFilter ==
  ASSUME entries' \subseteq 1..Size, Filter!Fresh, probe' \in {"idle", "build"}
  PROVE  FilterInv'
<1>0. FilterType'
  BY DEF FilterType, Filter!Fresh
<1>1. \A c \in Channels : Taken(c)' = {}
  <2> SUFFICES ASSUME NEW c \in Channels PROVE Taken(c)' = {}
    OBVIOUS
  <2>1. /\ positions'[c] = 0
        /\ L(c)' \subseteq Nat /\ IsFiniteSet(L(c)')
    <3>1. IsFiniteSet(1..Size) /\ 1..Size \subseteq Nat
      BY FilterAssumption, FS_Interval
    <3>2. L(c)' \in SUBSET (1..Size)
      BY DEF L, Filter!LinesOf
    <3> QED
      BY <3>1, <3>2, FS_Subset DEF Filter!Fresh
  <2>2. \A i \in L(c)' : Cardinality(Before(L(c)', i)) \in Nat
    BY <2>1, FS_Subset, FS_CardinalityType DEF Before
  <2> QED
    BY <2>1, <2>2 DEF Taken, L
<1>2. Tried' = {}
  BY <1>1, FilterAssumption DEF Tried
<1>3. /\ accepted' = {} /\ batch' = {} /\ failures' = 0
      /\ \A c \in Channels : positions'[c] = 0 /\ successes'[c] = 0
      /\ Limit \in Nat
  BY FilterAssumption DEF Filter!Fresh
<1>4. /\ failures' = Cardinality(Tried' \ (accepted' \cup batch'))
      /\ accepted' \cup batch' \subseteq Tried'
  BY <1>2, <1>3, FS_EmptySet
<1>5. ASSUME NEW c \in Channels
      PROVE  /\ Cardinality(Taken(c)') = positions'[c]
             /\ successes'[c] = Cardinality(accepted' \cap L(c)')
             /\ successes'[c] + Cardinality(batch' \cap L(c)') <= Limit
  BY <1>1, <1>3, FS_EmptySet
<1> QED
  BY <1>0, <1>3, <1>4, <1>5 DEF FilterInv

LEMMA SameTaken ==
  ASSUME UNCHANGED <<entries, positions>>
  PROVE  /\ \A c \in Channels : Taken(c)' = Taken(c) /\ L(c)' = L(c)
         /\ Tried' = Tried
<1>1. \A c \in Channels : Taken(c)' = Taken(c) /\ L(c)' = L(c)
  BY DEF Taken, L, Filter!LinesOf
<1> QED
  BY <1>1 DEF Tried, Taken, Filter!LinesOf

LEMMA BuildStep == ASSUME FilterInv, Filter!Build PROVE FilterInv'
<1> DEFINE next == {i \in entries : Filter!Hungry(Channel[i]) /\ Filter!IsNext(i)}
<1>0. /\ batch = {} /\ batch' = next
      /\ positions' = [c \in Channels |-> positions[c] + Cardinality(next \cap L(c))]
      /\ probe' = IF next = {} THEN "done" ELSE "probe"
      /\ UNCHANGED <<entries, successes, accepted, failures>>
  <2>1. [c \in Channels |-> positions[c] + Filter!Cardinality(next \cap Filter!LinesOf(c))]
          = [c \in Channels |-> positions[c] + Cardinality(next \cap L(c))]
    BY Counting DEF L
  <2>2. probe = "build"
    BY DEF Filter!Build
  <2> QED
    BY <2>1, <2>2 DEF Filter!Build, FilterInv
<1>1. \A c \in Channels :
        /\ Taken(c)' = Taken(c) \cup (next \cap L(c))
        /\ Taken(c) \cap next = {}
        /\ Cardinality(Taken(c)') = positions'[c] /\ positions'[c] \in Nat
        /\ successes[c] + Cardinality(next \cap L(c)) <= Limit
        /\ Filter!Hungry(c) => next \cap L(c) # {}
  <2> SUFFICES ASSUME NEW c \in Channels
               PROVE  /\ Taken(c)' = Taken(c) \cup (next \cap L(c))
                      /\ Taken(c) \cap next = {}
                      /\ Cardinality(Taken(c)') = positions'[c] /\ positions'[c] \in Nat
                      /\ successes[c] + Cardinality(next \cap L(c)) <= Limit
                      /\ Filter!Hungry(c) => next \cap L(c) # {}
    OBVIOUS
  <2>0. /\ L(c)' = L(c) /\ L(c) \in SUBSET entries /\ IsFiniteSet(L(c)) /\ L(c) \subseteq Nat
        /\ positions[c] \in Nat /\ successes[c] \in Nat
        /\ Cardinality(Taken(c)) = positions[c]
        /\ \A i \in L(c) : i \in entries /\ Channel[i] = c
        /\ successes[c] <= Limit
    <3>0. L(c) \in SUBSET entries /\ L(c)' = L(c) /\ \A i \in L(c) : i \in entries /\ Channel[i] = c
      BY <1>0 DEF L, Filter!LinesOf
    <3>1. successes[c] + Cardinality({}) <= Limit /\ Cardinality({}) = 0 /\ Limit \in Nat
      BY <1>0, FS_EmptySet, FilterAssumption DEF FilterInv
    <3>2. FilterType
      BY DEF FilterInv
    <3>3. IsFiniteSet(L(c)) /\ L(c) \subseteq Nat
      BY <3>0, <3>2, LineFacts
    <3>4. batch \cap L(c) = {}
      BY <1>0
    <3>5. /\ successes[c] + Cardinality(batch \cap L(c)) <= Limit
          /\ Cardinality(Taken(c)) = positions[c] /\ successes[c] \in Nat
      BY DEF FilterInv, FilterType
    <3>6. successes[c] <= Limit
      BY <3>1, <3>4, <3>5
    <3> QED
      BY <3>0, <3>2, <3>3, <3>5, <3>6 DEF FilterType
  <2>1. Taken(c) = {i \in L(c) : Cardinality(Before(L(c), i)) < positions[c]}
    BY DEF Taken, L
  <2>2. Taken(c)' = {i \in L(c) : Cardinality(Before(L(c), i)) < positions'[c]}
    BY <2>0 DEF Taken, L
  <2>3. next \cap L(c) = {i \in L(c) : Filter!Hungry(c) /\ Cardinality(Before(L(c), i)) = positions[c]}
    <3>1. \A i \in L(c) : Filter!IsNext(i) <=> Cardinality(Before(L(c), i)) = positions[c]
      BY <2>0, Counting DEF Filter!IsNext, Before, L
    <3> QED
      BY <2>0, <3>1
  <2>4. CASE Filter!Hungry(c)
    <3>1. positions[c] < Cardinality(L(c)) /\ successes[c] < Limit
      BY <2>4, Counting DEF Filter!Hungry, Filter!CountOf, L
    <3>2. PICK i \in L(c) :
            /\ \A j \in L(c) : Cardinality(Before(L(c), j)) = positions[c] <=> j = i
            /\ {j \in L(c) : Cardinality(Before(L(c), j)) < positions[c] + 1} = Taken(c) \cup {i}
            /\ Cardinality({j \in L(c) : Cardinality(Before(L(c), j)) < positions[c] + 1}) = positions[c] + 1
      BY <2>0, <2>1, <3>1, OneMore
    <3>3. next \cap L(c) = {i} /\ Cardinality({i}) = 1
      BY <2>3, <2>4, <3>2, FS_Singleton
    <3>4. positions'[c] = positions[c] + 1
      BY <1>0, <3>3
    <3>5. i \notin Taken(c)
      BY <2>0, <2>1, <3>2
    <3>6. Taken(c) \cap next = {}
      BY <3>3, <3>5, LineFacts DEF FilterInv
    <3>7. successes[c] + 1 <= Limit
      BY <2>0, <3>1, FilterAssumption
    <3>8. Taken(c)' = Taken(c) \cup {i}
      BY <2>2, <3>2, <3>4
    <3>9. Cardinality(Taken(c)') = positions'[c] /\ positions'[c] \in Nat
      BY <2>0, <2>2, <3>2, <3>4
    <3> QED
      BY <3>3, <3>6, <3>7, <3>8, <3>9
  <2>5. CASE ~Filter!Hungry(c)
    <3>1. next \cap L(c) = {} /\ Cardinality({}) = 0
      BY <2>3, <2>5, FS_EmptySet
    <3>2. positions'[c] = positions[c]
      BY <1>0, <2>0, <3>1
    <3>3. Taken(c)' = Taken(c)
      BY <2>1, <2>2, <3>2
    <3>4. Taken(c) \cap next = {}
      BY <3>1, LineFacts DEF FilterInv
    <3> QED
      BY <2>0, <2>5, <3>1, <3>2, <3>3, <3>4
  <2> QED
    BY <2>4, <2>5
<1>2. /\ Tried' = Tried \cup next /\ Tried \cap next = {}
  <2>1. FilterType
    BY DEF FilterInv
  <2>2. \A i \in entries : Channel[i] \in Channels /\ i \in L(Channel[i])
    BY <2>1, LineFacts
  <2>3. \A i \in entries : i \in Taken(Channel[i])' <=> i \in Taken(Channel[i]) \/ i \in next
    BY <1>1, <2>2
  <2>4. Tried' = {i \in entries : i \in Taken(Channel[i])'}
    BY <1>0 DEF Tried
  <2>5. Tried' = Tried \cup next
    BY <2>3, <2>4 DEF Tried
  <2>6. Tried \cap next = {}
    BY <1>1, <2>2 DEF Tried
  <2> QED
    BY <2>5, <2>6
<1>3. FilterType'
  BY <1>0, <1>1 DEF FilterInv, FilterType
<1>4. Tried' \ (accepted' \cup batch') = Tried \ (accepted \cup batch)
  BY <1>0, <1>2
<1>5. accepted' \cap batch' = {} /\ accepted' \cup batch' \subseteq Tried'
  BY <1>0, <1>2 DEF FilterInv
<1>6. probe' = "done" => batch' = {} /\ \A c \in Channels : ~Filter!Hungry(c)'
  <2> SUFFICES ASSUME probe' = "done", NEW c \in Channels PROVE next = {} /\ ~Filter!Hungry(c)'
    BY <1>0, FilterAssumption DEF FilterInv
  <2>1. next = {} /\ ~Filter!Hungry(c)
    BY <1>0, <1>1
  <2>2. positions'[c] = positions[c]
    BY <1>0, <2>1, FS_EmptySet DEF FilterInv, FilterType
  <2> QED
    BY <1>0, <2>1, <2>2 DEF Filter!Hungry, Filter!CountOf, Filter!LinesOf
<1>7. \A c \in Channels : L(c)' = L(c)
  BY <1>0 DEF L, Filter!LinesOf
<1> HIDE DEF next
<1> QED
  BY <1>0, <1>1, <1>3, <1>4, <1>5, <1>6, <1>7 DEF FilterInv

LEMMA Disjoint ==
  ASSUME NEW S, NEW T, IsFiniteSet(S), IsFiniteSet(T), S \cap T = {}
  PROVE  Cardinality(S \cup T) = Cardinality(S) + Cardinality(T)
<1>1. Cardinality(S \cup T) = Cardinality(S) + Cardinality(T) - Cardinality(S \cap T)
  BY FS_Union
<1>2. Cardinality(S \cap T) = 0 /\ Cardinality(S) \in Nat /\ Cardinality(T) \in Nat
  BY FS_EmptySet, FS_CardinalityType
<1> QED
  BY <1>1, <1>2

LEMMA CollectStep == ASSUME FilterInv, Filter!Collect PROVE FilterInv'
<1> DEFINE good == Filter!Good
<1>0. /\ good \subseteq batch /\ batch' = {} /\ probe' = "build"
      /\ accepted' = accepted \cup good
      /\ successes' = [c \in Channels |-> successes[c] + Cardinality(good \cap L(c))]
      /\ failures' = failures + Cardinality(batch \ good)
      /\ UNCHANGED <<entries, positions>>
  <2>1. /\ [c \in Channels |-> successes[c] + Filter!Cardinality(good \cap Filter!LinesOf(c))]
             = [c \in Channels |-> successes[c] + Cardinality(good \cap L(c))]
        /\ Filter!Cardinality(batch \ good) = Cardinality(batch \ good)
    BY Counting DEF L
  <2>2. good \subseteq batch
    BY DEF Filter!Good
  <2> QED
    BY <2>1, <2>2 DEF Filter!Collect
<1> HIDE DEF good
<1>1. FilterType /\ accepted \cap batch = {} /\ accepted \cup batch \subseteq Tried
  BY DEF FilterInv
<1>2. /\ \A c \in Channels : Taken(c)' = Taken(c) /\ L(c)' = L(c)
      /\ Tried' = Tried
  BY <1>0, SameTaken
<1>3. \A S \in SUBSET entries : IsFiniteSet(S) /\ Cardinality(S) \in Nat
  BY <1>1, LineFacts
<1>4. failures' = Cardinality(Tried' \ (accepted' \cup batch'))
  <2> DEFINE old == Tried \ (accepted \cup batch)
             bad == batch \ good
  <2>1. Tried' \ (accepted' \cup batch') = old \cup bad /\ old \cap bad = {}
    BY <1>0, <1>1, <1>2
  <2>2. old \in SUBSET entries /\ bad \in SUBSET entries
    BY <1>1 DEF Tried, FilterType
  <2>3. failures = Cardinality(old)
    BY DEF FilterInv
  <2> HIDE DEF old, bad
  <2>4. Cardinality(old \cup bad) = Cardinality(old) + Cardinality(bad)
    BY <1>3, <2>1, <2>2, Disjoint
  <2> QED
    BY <1>0, <2>1, <2>3, <2>4 DEF bad
<1>5. ASSUME NEW c \in Channels
      PROVE  /\ Cardinality(Taken(c)') = positions'[c]
             /\ successes'[c] = Cardinality(accepted' \cap L(c)')
             /\ successes'[c] + Cardinality(batch' \cap L(c)') <= Limit
             /\ successes'[c] \in Nat
  <2>1. /\ accepted \cap L(c) \in SUBSET entries /\ good \cap L(c) \in SUBSET entries
        /\ batch \cap L(c) \in SUBSET entries
        /\ (accepted \cap L(c)) \cap (good \cap L(c)) = {}
        /\ accepted' \cap L(c)' = (accepted \cap L(c)) \cup (good \cap L(c))
        /\ good \cap L(c) \in SUBSET (batch \cap L(c))
        /\ batch' \cap L(c)' = {}
    BY <1>0, <1>1, <1>2 DEF FilterType
  <2>2. Cardinality(accepted' \cap L(c)') =
          Cardinality(accepted \cap L(c)) + Cardinality(good \cap L(c))
    BY <1>3, <2>1, Disjoint
  <2>3. Cardinality(good \cap L(c)) <= Cardinality(batch \cap L(c))
    BY <1>3, <2>1, FS_Subset
  <2>4. /\ successes[c] = Cardinality(accepted \cap L(c))
        /\ successes[c] + Cardinality(batch \cap L(c)) <= Limit
        /\ Cardinality(Taken(c)) = positions[c]
    BY DEF FilterInv
  <2>5. successes'[c] = successes[c] + Cardinality(good \cap L(c))
    BY <1>0
  <2>6. Cardinality(batch' \cap L(c)') = 0
    BY <2>1, FS_EmptySet
  <2>7. /\ Cardinality(accepted \cap L(c)) \in Nat /\ Cardinality(good \cap L(c)) \in Nat
        /\ Cardinality(batch \cap L(c)) \in Nat /\ Limit \in Nat
    BY <1>3, <2>1, FilterAssumption
  <2>8. /\ successes'[c] = Cardinality(accepted' \cap L(c)') /\ successes'[c] \in Nat
        /\ successes'[c] + 0 <= Limit
    BY <2>2, <2>3, <2>4, <2>5, <2>7
  <2> QED
    BY <1>0, <1>2, <2>4, <2>6, <2>8
<1>6. FilterType'
  <2>1. Cardinality(batch \ good) \in Nat
    BY <1>1, <1>3 DEF FilterType
  <2>2. failures' \in Nat
    BY <1>0, <1>1, <2>1 DEF FilterType
  <2>3. successes' \in [Channels -> Nat]
    BY <1>0, <1>5
  <2> QED
    BY <1>0, <1>1, <2>2, <2>3 DEF FilterType
<1>7. /\ accepted' \cap batch' = {} /\ (probe' # "probe" => batch' = {})
      /\ accepted' \cup batch' \subseteq Tried'
      /\ probe' # "done"
  BY <1>0, <1>1, <1>2
<1> QED
  BY <1>4, <1>5, <1>6, <1>7 DEF FilterInv

LEMMA SameFilter ==
  ASSUME FilterInv,
         UNCHANGED <<probe, entries, positions, successes, accepted, failures, batch>>
  PROVE  FilterInv'
<1>1. /\ \A c \in Channels : Taken(c)' = Taken(c) /\ L(c)' = L(c)
      /\ Tried' = Tried
  BY SameTaken
<1>2. \A c \in Channels : Filter!Hungry(c)' <=> Filter!Hungry(c)
  BY DEF Filter!Hungry, Filter!CountOf, Filter!LinesOf
<1> QED
  BY <1>1, <1>2 DEF FilterInv, FilterType

LEMMA RoundStep == ASSUME FilterInv, Filter!Round PROVE FilterInv'
<1>1. CASE Filter!Submit \/ Filter!Probed
  BY <1>1, SameFilter DEF Filter!Submit, Filter!Probed
<1> QED
  BY <1>1, BuildStep, CollectStep DEF Filter!Round

\* When the probe is over, a channel has as many good lines as it may have or
\* has tried all, and without a good line everything has failed.
LEMMA ProbeOver ==
  ASSUME FilterInv, probe = "done"
  PROVE  /\ Filter!ShareOrExhausted
         /\ accepted = {} => failures = Cardinality(entries)
<1>1. FilterType /\ batch = {} /\ accepted \subseteq entries
  BY DEF FilterInv, FilterType
<1>2. \A c \in Channels :
        /\ successes[c] = Cardinality(accepted \cap L(c)) /\ successes[c] <= Limit
        /\ ~(successes[c] < Limit /\ positions[c] < Filter!CountOf(c))
        /\ Cardinality(Taken(c)) = positions[c]
        /\ positions[c] <= Filter!CountOf(c)
        /\ successes[c] \in Nat /\ positions[c] \in Nat /\ Filter!CountOf(c) \in Nat /\ Limit \in Nat
  <2> SUFFICES ASSUME NEW c \in Channels
      PROVE  /\ successes[c] = Cardinality(accepted \cap L(c)) /\ successes[c] <= Limit
             /\ ~(successes[c] < Limit /\ positions[c] < Filter!CountOf(c))
             /\ Cardinality(Taken(c)) = positions[c]
             /\ positions[c] <= Filter!CountOf(c)
             /\ successes[c] \in Nat /\ positions[c] \in Nat /\ Filter!CountOf(c) \in Nat /\ Limit \in Nat
    OBVIOUS
  <2>1. batch \cap L(c) = {} /\ Cardinality({}) = 0
    BY <1>1, FS_EmptySet
  <2>2. /\ successes[c] = Cardinality(accepted \cap L(c))
        /\ successes[c] + Cardinality(batch \cap L(c)) <= Limit
        /\ Cardinality(Taken(c)) = positions[c]
        /\ ~Filter!Hungry(c)
    BY DEF FilterInv
  <2>3. successes[c] \in Nat /\ positions[c] \in Nat /\ Filter!CountOf(c) \in Nat /\ Limit \in Nat
    BY <1>1, LineFacts, FilterAssumption DEF FilterType
  <2>4. Cardinality(Taken(c)) <= Filter!CountOf(c)
    BY <1>1, LineFacts
  <2> QED
    BY <2>1, <2>2, <2>3, <2>4 DEF Filter!Hungry
<1>3. ASSUME NEW c \in Channels
      PROVE  successes[c] = Limit \/ positions[c] = Filter!CountOf(c)
  <2> DEFINE n == Filter!CountOf(c)
  <2>1. /\ successes[c] <= Limit /\ positions[c] <= n
        /\ ~(successes[c] < Limit /\ positions[c] < n)
        /\ successes[c] \in Nat /\ positions[c] \in Nat /\ n \in Nat /\ Limit \in Nat
    BY <1>2
  <2> HIDE DEF n
  <2>2. successes[c] = Limit \/ positions[c] = n
    BY <2>1
  <2> QED
    BY <2>2 DEF n
<1>4. Filter!ShareOrExhausted
  <2> SUFFICES ASSUME NEW c \in Channels
               PROVE  \/ Filter!Cardinality(accepted \cap Filter!LinesOf(c)) = Limit
                      \/ positions[c] = Filter!CountOf(c)
    BY DEF Filter!ShareOrExhausted
  <2>1. successes[c] = Limit \/ positions[c] = Filter!CountOf(c)
    BY <1>3
  <2> QED
    BY <1>2, <2>1, Counting DEF L
<1>5. ASSUME accepted = {} PROVE failures = Cardinality(entries)
  <2>1. ASSUME NEW i \in entries PROVE i \in Taken(Channel[i])
    <3> DEFINE c == Channel[i]
    <3>1. c \in Channels /\ i \in L(c) /\ L(c) \in SUBSET entries /\ Taken(c) \in SUBSET L(c)
      BY <1>1, LineFacts
    <3> HIDE DEF c
    <3>2. successes[c] = 0
      BY <1>2, <1>5, <3>1, FS_EmptySet
    <3>3. Limit # 0
      BY FilterAssumption
    <3>4. positions[c] = Filter!CountOf(c)
      BY <1>3, <3>1, <3>2, <3>3
    <3>5. Cardinality(Taken(c)) = Cardinality(L(c))
      BY <1>2, <3>1, <3>4, Counting DEF L, Filter!CountOf
    <3>6. IsFiniteSet(L(c))
      BY <1>1, <3>1, LineFacts
    <3>7. L(c) = Taken(c)
      BY <3>1, <3>5, <3>6, FS_Subset
    <3> QED
      BY <3>1, <3>7 DEF c
  <2>2. Tried \ (accepted \cup batch) = entries
    BY <1>1, <1>5, <2>1 DEF Tried
  <2> QED
    BY <2>2 DEF FilterInv
<1> QED
  BY <1>4, <1>5

(***************************************************************************)
(* IptvBridge                                                              *)
(***************************************************************************)
AllFailed == accepted = {} /\ failures = Cardinality(entries)

\* The filter belongs to the bridge that holds the lock, is new when that
\* begins, and has what it publishes.
BridgeInv ==
  /\ IInv /\ FilterInv
  /\ lock = NoOne => probe = "idle"
  /\ \A b \in Bridges :
       /\ pc[b] = "read" => probe = "idle"
       /\ pc[b] = "verify" => \A i \in entries : probe # "idle" => Channel[i] \in Candidates(text[b])
       /\ pc[b] = "fallback" => AllFailed
       /\ pc[b] \in {"gate", "write", "replace"} => text[b] = Passed \/ AllFailed

\* Judge keeps what Verify may keep, and the probe does not show.
LEMMA BridgeRefines ==
  ASSUME BridgeInv, [BridgeNext]_<<vars, filterVars>>
  PROVE  [Next]_vars
<1>1. ASSUME NEW b \in Bridges, Judge(b)
      PROVE  Verify(b)
  <2>1. Passed \in SUBSET Candidates(text[b])
    BY <1>1 DEF BridgeInv, FilterInv, FilterType, Passed, Judge
  <2> QED
    BY <1>1, <2>1 DEF Judge, Verify
<1>2. ASSUME NEW b \in Bridges, StartProbe(b) \/ Probe(b)
      PROVE  UNCHANGED vars
  BY <1>2 DEF StartProbe, Probe
<1> QED
  BY <1>1, <1>2 DEF BridgeNext, Next, Bridge

LEMMA BridgeInvInit == BridgeInit => BridgeInv
<1> SUFFICES ASSUME BridgeInit PROVE BridgeInv
  OBVIOUS
<1>1. IInv
  BY InvariantInit DEF BridgeInit
<1>2. FilterInv
  <2>1. /\ probe = "idle" /\ entries = {} /\ accepted = {} /\ batch = {} /\ failures = 0
        /\ positions = [c \in Channels |-> 0] /\ successes = [c \in Channels |-> 0]
        /\ Limit \in Nat
    BY FilterAssumption DEF BridgeInit, Filter!Init
  <2>2. \A c \in Channels : L(c) = {} /\ Taken(c) = {}
    BY <2>1 DEF L, Taken, Filter!LinesOf
  <2>3. Tried = {}
    BY <2>1 DEF Tried
  <2> QED
    BY <2>1, <2>2, <2>3, FS_EmptySet DEF FilterInv, FilterType
<1> QED
  BY <1>1, <1>2 DEF BridgeInit, BridgeInv, Init, Filter!Init, Runs

LEMMA BridgeInvStep ==
  ASSUME BridgeInv, [BridgeNext]_<<vars, filterVars>>
  PROVE  BridgeInv'
<1>0. IInv /\ IInv' /\ FilterInv /\ [Next]_vars
  BY BridgeRefines, InvariantStep DEF BridgeInv
<1> USE PublishAssumption DEF Goto, Runs
<1>t. /\ pc \in [Runs -> Labels] /\ text \in [Runs -> Lists]
      /\ \A b \in Bridges : pc[b] \in Locked <=> lock = b
  BY <1>0 DEF IInv, TypeOK, OneBridge
<1>1. ASSUME NEW b \in Bridges, StartProbe(b) PROVE BridgeInv'
  <2>1. FilterInv'
    BY <1>1, FreshFilter DEF StartProbe, Filter!Start
  <2>2. /\ UNCHANGED vars /\ pc[b] = "verify" /\ lock = b
        /\ entries' = {i \in 1..Size : Channel[i] \in Candidates(text[b])}
    BY <1>1, <1>t DEF StartProbe, Filter!Start, Locked
  <2>3. \A x \in Bridges : pc[x] \in Locked => x = b
    BY <1>t, <2>2
  <2> QED
    BY <1>0, <2>1, <2>2, <2>3 DEF BridgeInv, vars, Locked
<1>2. ASSUME NEW b \in Bridges, Probe(b) PROVE BridgeInv'
  <2>1. FilterInv'
    BY <1>0, <1>2, RoundStep DEF Probe
  <2>2. UNCHANGED vars /\ entries' = entries /\ pc[b] = "verify" /\ lock = b /\ probe # "idle"
    BY <1>2, <1>t DEF Probe, Filter!Round, Filter!Build, Filter!Submit, Filter!Probed, Filter!Collect, Locked
  <2>3. \A x \in Bridges : pc[x] \in Locked => x = b
    BY <1>t, <2>2
  <2> QED
    BY <1>0, <2>1, <2>2, <2>3 DEF BridgeInv, vars, Locked
<1>3. ASSUME NEW b \in Bridges, Judge(b) PROVE BridgeInv'
  <2>1. FilterInv'
    BY <1>0, <1>3, SameFilter DEF Judge, filterVars
  <2>2. /\ UNCHANGED lock /\ UNCHANGED filterVars /\ pc[b] = "verify" /\ lock = b
        /\ \A x \in Bridges \ {b} : pc'[x] = pc[x] /\ text'[x] = text[x]
        /\ \/ Passed = {} /\ pc'[b] = "fallback"
           \/ pc'[b] = "gate" /\ text'[b] = Passed
    BY <1>3, <1>t DEF Judge, Accept, Locked
  <2>3. Passed = {} => AllFailed
    <3>1. Passed = {} => accepted = {}
      BY DEF Passed
    <3> QED
      BY <1>0, <1>3, <3>1, ProbeOver DEF Judge, AllFailed
  <2>4. AllFailed' = AllFailed /\ Passed' = Passed
    BY <2>2 DEF filterVars, AllFailed, Passed
  <2> QED
    BY <1>0, <2>1, <2>2, <2>3, <2>4 DEF BridgeInv, filterVars
<1>4. ASSUME NEW b \in Bridges, Enter(b) \/ Read(b) \/ AfterProbe(b), UNCHANGED filterVars
      PROVE  BridgeInv'
  <2>1. FilterInv'
    BY <1>0, <1>4, SameFilter DEF filterVars
  <2>2. AllFailed' = AllFailed /\ Passed' = Passed /\ probe' = probe /\ entries' = entries
    BY <1>4 DEF filterVars, AllFailed, Passed
  <2>3. \A x \in Bridges \ {b} : pc'[x] = pc[x] /\ text'[x] = text[x]
    BY <1>4, <1>t DEF Enter, Read, AfterProbe, Fallback, Gate, Write, Replace
  <2>4. CASE Enter(b)
    BY <1>0, <1>t, <2>1, <2>2, <2>3, <2>4 DEF BridgeInv, Enter
  <2>5. CASE Read(b)
    BY <1>0, <1>t, <2>1, <2>2, <2>3, <2>5 DEF BridgeInv, Read
  <2>6. CASE AfterProbe(b)
    <3>1. /\ lock' = lock
          /\ \/ pc[b] = "fallback" /\ pc'[b] = "gate"
             \/ /\ pc[b] \in {"gate", "write", "replace"} /\ text'[b] = text[b]
                /\ pc'[b] \in {"write", "replace", "exit"}
      BY <2>6, <1>t DEF AfterProbe, Fallback, Gate, Write, Replace
    <3> QED
      BY <1>0, <2>1, <2>2, <2>3, <3>1 DEF BridgeInv
  <2> QED
    BY <1>4, <2>4, <2>5, <2>6
<1>5. ASSUME NEW b \in Bridges, Exit(b) \/ Die(b), Filter!Reset PROVE BridgeInv'
  <2>1. FilterInv'
    BY <1>5, FreshFilter DEF Filter!Reset
  <2>2. /\ pc[b] \in Locked /\ probe' = "idle" /\ entries' = {} /\ lock' = NoOne
        /\ pc'[b] = "idle" /\ \A x \in Bridges \ {b} : pc'[x] = pc[x]
    BY <1>5, <1>t DEF Exit, Die, Filter!Reset, Locked
  <2>3. \A x \in Bridges : pc'[x] \notin Locked
    BY <1>t, <2>2 DEF Locked
  <2> QED
    BY <1>0, <2>1, <2>2, <2>3 DEF BridgeInv, Locked
<1>6. ASSUME Update \/ \E n \in Copies : Fetch(n) \/ CopyStep(n), UNCHANGED filterVars
      PROVE  BridgeInv'
  <2>1. FilterInv'
    BY <1>0, <1>6, SameFilter DEF filterVars
  <2>2. /\ AllFailed' = AllFailed /\ Passed' = Passed /\ probe' = probe /\ entries' = entries
        /\ lock' = lock
    BY <1>6 DEF filterVars, AllFailed, Passed, Update, Fetch, CopyStep, Count, Copy, Move, Leave
  <2>3. \A x \in Bridges : pc'[x] = pc[x] /\ text'[x] = text[x]
    BY <1>6, <1>t DEF Update, Fetch, CopyStep, Count, Copy, Move, Leave
  <2> QED
    BY <1>0, <2>1, <2>2, <2>3 DEF BridgeInv
<1>7. CASE UNCHANGED <<vars, filterVars>>
  <2>1. FilterInv'
    BY <1>0, <1>7, SameFilter DEF filterVars
  <2>2. /\ AllFailed' = AllFailed /\ Passed' = Passed /\ UNCHANGED <<probe, entries, lock, pc, text>>
    BY <1>7 DEF filterVars, vars, AllFailed, Passed
  <2> QED
    BY <1>0, <2>1, <2>2 DEF BridgeInv
<1> QED
  BY <1>1, <1>2, <1>3, <1>4, <1>5, <1>6, <1>7 DEF BridgeNext

THEOREM BridgeInvariant == BridgeSpec => []BridgeInv
<1>1. BridgeInv /\ [BridgeNext]_<<vars, filterVars>> => BridgeInv'
  BY BridgeInvStep
<1> QED
  BY <1>1, BridgeInvInit, PTL DEF BridgeSpec

\* The bridge with its probe implements IptvPublish, whose filter keeps any
\* set of candidates.
THEOREM BridgeImplements == BridgeSpec => Spec
<1>1. BridgeInit => Init
  BY DEF BridgeInit
<1>2. BridgeInv /\ [BridgeNext]_<<vars, filterVars>> => [Next]_vars
  BY BridgeRefines
<1> QED
  BY <1>1, <1>2, BridgeInvariant, PTL DEF BridgeSpec, Spec

\* So what bridges publish is large enough, filtered and never overtaken,
\* with the real probe (filter_iptv.py:390-470).
THEOREM BridgePublishes ==
  BridgeSpec => EnoughByBridge /\ NothingRejectedByBridge /\ NoOldList
BY BridgeImplements, BridgesPublishEnough, BridgesPublishFiltered, NoOldListHolds

\* At the end of the rounds a channel has its share or has tried every line
\* (verify_channel_candidates), in any order of the pool's probes.
THEOREM ShareOrExhaustedHolds == BridgeSpec => []ShareOrExhausted
<1>1. BridgeInv => ShareOrExhausted
  BY ProbeOver DEF BridgeInv, ShareOrExhausted, Filter!ShareOrExhausted
<1> QED
  BY <1>1, BridgeInvariant, PTL

\* Published is what passed in this run, or everything failed
\* (filter_iptv.py:413).
THEOREM PublishedPassedHolds == BridgeSpec => []PublishedPassed
<1>1. BridgeInv => PublishedPassed
  BY DEF BridgeInv, PublishedPassed, AllFailed
<1> QED
  BY <1>1, BridgeInvariant, PTL
=============================================================================
