----------------------------- MODULE RoomPages ------------------------------
(***************************************************************************)
(* What a platform resolver of resolve.go does when nothing is cached:     *)
(* which pages and interfaces it asks, in which order, what ends the       *)
(* search, and which of the offered streams it takes.                      *)
(*                                                                         *)
(* A resolution shares nothing with others.  A page that cannot be had and *)
(* one that lacks what is looked for are treated alike by the code.  The   *)
(* interface of Douyu is not: a request that fails is made again, but an   *)
(* answer that offers no stream (error 0 without an address, 102 and the   *)
(* like) is final.  Signatures are not modelled beyond whether one can be  *)
(* built.                                                                  *)
(***************************************************************************)
EXTENDS Integers, Sequences, SequencesExt, FiniteSets

CONSTANTS
  Askers,       \* goroutines that may resolve
  Pages,        \* what Huya room pages may offer
  Kinds,        \* how a Douyu room may be named: by its own number, by a short
                \* number, or by a name
  HUYA_MAX_RATIO

ASSUME KindAssumption == Kinds \subseteq {"real", "number", "name"}

\* A line of a Huya page: whether its CDN is the configured one, how much its
\* host is preferred, the weight the page gives it, and whether it is usable:
\* with a stream name and parameters that can be signed.
HuyaLines == [preferred : BOOLEAN, rank : 1..5, priority : Int, usable : BOOLEAN]

\* The limit is 2000 if what is configured is no number or below 0, and rates
\* below 0 are passed over.
ASSUME PageAssumption ==
  /\ HUYA_MAX_RATIO \in Nat
  /\ \A page \in Pages :
       /\ {page.payload, page.fields} \subseteq Seq(HuyaLines)
       /\ page.rates \subseteq Nat

VARIABLES
  step,      \* where each resolution stands
  room,      \* the room, as it is on the platform
  real,      \* whether realRid is the room's own number
  attempt,   \* of resolveDouyuPreview
  dated,     \* whether the page at hand shows a show of a day ago
  lost,      \* requests that failed so far, or were denied a stream (history)
  found      \* the stream that was taken, or None

roomVars == <<step, room, real, attempt, dated, lost, found>>

None == [ok |-> FALSE]
Stream(s) == [ok |-> TRUE, stream |-> s]
Blank == [platform |-> "none"]
NoLoss == [page |-> 0, api |-> 0, denied |-> 0]

RoomInit ==
  /\ step = [a \in Askers |-> "idle"]
  /\ room = [a \in Askers |-> Blank]
  /\ real = [a \in Askers |-> FALSE]
  /\ attempt = [a \in Askers |-> 1]
  /\ dated = [a \in Askers |-> FALSE]
  /\ lost = [a \in Askers |-> NoLoss]
  /\ found = [a \in Askers |-> None]

To(a, s) == step' = [step EXCEPT ![a] = s]
Settle(a, f) == To(a, "done") /\ found' = [found EXCEPT ![a] = f]
Lose(a, what) == lost' = [lost EXCEPT ![a][what] = @ + 1]

(***************************************************************************)
(* Huya                                                                    *)
(***************************************************************************)
Before(m, n) ==
  \/ m.preferred /\ ~n.preferred
  \/ m.preferred = n.preferred
     /\ (m.rank < n.rank \/ (m.rank = n.rank /\ m.priority > n.priority))

\* The structured payload, or the older fields when it offers no line.
Offered(page) == IF page.payload # <<>> THEN page.payload ELSE page.fields

\* The stable sort, by insertion: the lines up to the nth, in order.
Insert(sorted, m) ==
  LET i == SelectInSeq(sorted, LAMBDA n : Before(m, n))
  IN  IF i = 0 THEN Append(sorted, m) ELSE InsertAt(sorted, i, m)
Sorting(lines) ==
  LET sorted[n \in 0..Len(lines)] ==
        IF n = 0 THEN <<>> ELSE Insert(sorted[n - 1], lines[n])
  IN  sorted
InPageOrder(lines) == lines
InOrder(lines) == Sorting(lines)[Len(lines)]

\* The first line whose parameters can be signed, or 0.
Usable(m) == m.usable
FirstUsable(lines) == SelectInSeq(lines, Usable)

Highest(S) == CHOOSE x \in S : \A y \in S : y <= x
Lowest(S) == CHOOSE x \in S : \A y \in S : x <= y

\* chooseHuyaRatio: 0 is the source, no element at all is "no ratio".
Ratio(rates, max) ==
  LET coded == rates \ {0}
      allowed == {r \in coded : r <= max}
  IN  IF max = 0 /\ 0 \in rates THEN {0}
      ELSE IF max = 0 /\ coded # {} THEN {Highest(coded)}
      ELSE IF allowed # {} THEN {Highest(allowed)}
      ELSE IF coded # {} THEN {Lowest(coded)}
      ELSE rates

HuyaPage(a) ==
  /\ step[a] = "huya"
  /\ \/ Lose(a, "page") /\ Settle(a, None) /\ UNCHANGED room
     \/ \E page \in Pages :
          LET lines == InOrder(Offered(page))
              i == FirstUsable(lines)
          IN
          /\ room' = [room EXCEPT ![a] = [platform |-> "huya", page |-> page]]
          /\ Settle(a, IF i = 0 THEN None
                       ELSE Stream([line |-> lines[i],
                                    ratio |-> IF page.payload = <<>> THEN {}
                                              ELSE Ratio(page.rates, HUYA_MAX_RATIO)]))
          /\ UNCHANGED lost
  /\ UNCHANGED <<real, attempt, dated>>

(***************************************************************************)
(* Douyu: resolveDouyuInner.  The interface knows a room by its own number *)
(* only.  742017, which it gives for dead rooms and for streams that are   *)
(* interrupted for a moment, is tried again like a failure.                *)
(***************************************************************************)
\* The page tells the room's own number and since when its show runs.
DouyuPage(a) ==
  /\ step[a] = "page"
  /\ \/ /\ real' = [real EXCEPT ![a] = TRUE]
        /\ dated' = [dated EXCEPT ![a] = room[a].old]
        /\ UNCHANGED lost
     \/ Lose(a, "page") /\ UNCHANGED <<real, dated>>
  /\ To(a, "preview")
  /\ UNCHANGED <<room, attempt, found>>

\* After a preview without a stream: a number may be an alias.
PreviewEnds(a) ==
  /\ IF step[a] = "preview" /\ room[a].kind # "name"
     THEN To(a, "alias") /\ UNCHANGED found ELSE Settle(a, None)
  /\ UNCHANGED attempt

RetryNever(a) == PreviewEnds(a)
Retry(a) ==
  IF attempt[a] = 1 THEN attempt' = [attempt EXCEPT ![a] = 2] /\ UNCHANGED <<step, found>>
  ELSE PreviewEnds(a)

\* One request of resolveDouyuPreview: the stream, an answer that offers none, a
\* failure, or 742017 for a room whose page shows an old show.
Preview(a) ==
  LET live == real[a] /\ room[a].live IN
  /\ step[a] \in {"preview", "again"}
  /\ \/ live /\ Settle(a, Stream("flv")) /\ UNCHANGED <<attempt, lost>>
     \/ PreviewEnds(a) /\ IF live THEN Lose(a, "denied") ELSE UNCHANGED lost
     \/ /\ Retry(a) \/ (dated[a] /\ PreviewEnds(a))
        /\ IF real[a] THEN Lose(a, "api") ELSE UNCHANGED lost
  /\ UNCHANGED <<room, real, dated>>

\* resolveDouyuInner again: only a page that names another number helps.
AliasPage(a) ==
  /\ step[a] = "alias"
  /\ \/ /\ room[a].kind = "number"
        /\ real' = [real EXCEPT ![a] = TRUE]
        /\ dated' = [dated EXCEPT ![a] = room[a].old]
        /\ attempt' = [attempt EXCEPT ![a] = 1]
        /\ To(a, "again") /\ UNCHANGED <<lost, found>>
     \/ room[a].kind = "real" /\ Settle(a, None) /\ UNCHANGED <<real, dated, attempt, lost>>
     \/ Lose(a, "page") /\ Settle(a, None) /\ UNCHANGED <<real, dated, attempt>>
  /\ UNCHANGED room

(***************************************************************************)
(* Douyin takes the first of three fields of one answer.  YY finds nothing.*)
(***************************************************************************)
DouyinPage(a) ==
  /\ step[a] = "douyin"
  /\ \/ Settle(a, None)
     \/ \E field \in {"rtmp_pull_url", "flv_pull_url", "hls_pull_url"} : Settle(a, Stream(field))
  /\ UNCHANGED <<room, real, attempt, dated, lost>>

AskRoom(a) ==
  /\ step[a] = "idle"
  /\ \/ To(a, "huya") /\ UNCHANGED <<room, real, found>>
     \/ \E kind \in Kinds, live, old \in BOOLEAN :
          /\ room' = [room EXCEPT ![a] =
                [platform |-> "douyu", kind |-> kind, live |-> live, old |-> old]]
          /\ real' = [real EXCEPT ![a] = kind = "real"]
          /\ To(a, IF kind = "name" THEN "page" ELSE "preview") /\ UNCHANGED found
     \/ To(a, "douyin") /\ UNCHANGED <<room, real, found>>
     \/ Settle(a, None) /\ UNCHANGED <<room, real>>
  /\ UNCHANGED <<attempt, dated, lost>>

Resolve(a) == HuyaPage(a) \/ DouyuPage(a) \/ Preview(a) \/ AliasPage(a) \/ DouyinPage(a)

\* What is known of a resolution goes with it.
Leave(S) ==
  LET Reset(f, v) == [a \in Askers |-> IF a \in S THEN v ELSE f[a]]
  IN  /\ step' = Reset(step, "idle")
      /\ room' = Reset(room, Blank)
      /\ real' = Reset(real, FALSE)
      /\ attempt' = Reset(attempt, 1)
      /\ dated' = Reset(dated, FALSE)
      /\ lost' = Reset(lost, NoLoss)
      /\ found' = Reset(found, None)

\* The answer is given: 302, or 404 for a room that is not found.
Answer(a) == step[a] = "done" /\ Leave({a})

RoomCrash == Leave(Askers)

(***************************************************************************)
(* Properties                                                              *)
(***************************************************************************)
\* resolveDouyuInner: a live room is found, however it is named, though one
\* request for its stream fails, as long as its page can be read and the
\* interface never answers that there is no stream (resolve.go:532-548, which
\* ends the search at the first try); a page that shows a show of yesterday takes
\* the second try away.
LiveRoomFound ==
  \A a \in Askers :
    step[a] = "done" /\ room[a].platform = "douyu" /\ ~found[a].ok /\ room[a].live =>
      \/ lost[a].page > 0
      \/ lost[a].denied > 0
      \/ lost[a].api > 1
      \/ dated[a] /\ lost[a].api > 0

\* resolveHuyaUncached: the stream that is taken is one that works if the page
\* has any, no other that works comes before it (configured CDN, then host,
\* then weight), and it is above the limit only if all are.
BestStream ==
  \A a \in Askers : step[a] = "done" /\ room[a].platform = "huya" =>
    LET page == room[a].page
        working == {m \in Range(Offered(page)) : m.usable}
    IN  /\ found[a].ok <=> working # {}
        /\ found[a].ok => LET s == found[a].stream IN
             /\ s.line \in working
             /\ \A m \in working : ~Before(m, s.line)
             /\ \A c \in s.ratio, r \in page.rates :
                  HUYA_MAX_RATIO > 0 /\ r \in 1..HUYA_MAX_RATIO => c \in r..HUYA_MAX_RATIO
=============================================================================
