-------------------------- MODULE AioServerProofs ---------------------------
(***************************************************************************)
(* Proofs about AioServer, for any number of requests, logos, platforms    *)
(* and workers, any lists and any pages: of logos, that the flight group   *)
(* lets one request download at a time and that only whole files are sent; *)
(* of prewarming, that passes do not overlap; of rooms, that one failed    *)
(* request does not hide a live one and that the best stream of a page is  *)
(* taken.                                                                  *)
(***************************************************************************)
EXTENDS AioServer, TLAPS, WellFoundedInduction

(***************************************************************************)
(* Logos                                                                   *)
(***************************************************************************)
Leading == {"recheck", "source", "download", "write", "rename", "close", "forget"}

\* Who works on a logo leads the call in the map, and the call is done once
\* that handler is about to remove it.
Led ==
  /\ \A h \in Handlers : at[h] \in Leading =>
       target[h] \in DOMAIN calls /\ calls[target[h]].leader = h
  /\ \A l \in DOMAIN calls :
       /\ at[calls[l].leader] \in Leading /\ target[calls[l].leader] = l
       /\ calls[l].done =>
            at[calls[l].leader] = "forget" /\ calls[l].ok = result[calls[l].leader]

\* What a handler knows of the file: it is not there from the second look
\* until it is moved into place, and whole when the flight went well.
Known ==
  /\ \A l \in Logos : logo[l] # "part"
  /\ \A h \in Handlers :
       /\ at[h] \in {"source", "download", "write", "rename"} => logo[target[h]] = "absent"
       /\ at[h] \in {"close", "forget"} /\ result[h] => logo[target[h]] = "whole"
       /\ at[h] \in {"check", "send"} => logo[target[h]] = "whole"

LogoInv == LogoTypeOK /\ Led /\ Known

LogoStep == \E h \in Handlers : OpenLogo(h) \/ ServeLogo(h)

LEMMA LogoInvInit == LogoInit => LogoInv
<1> SUFFICES ASSUME LogoInit PROVE LogoInv
  OBVIOUS
<1>1. DOMAIN calls = {}
  BY DEF LogoInit
<1> QED
  BY <1>1 DEF LogoInit, LogoInv, LogoTypeOK, Stages, Led, Known, Leading

LEMMA LogoTypeStep == ASSUME LogoTypeOK, LogoStep PROVE LogoTypeOK'
<1> USE DEF LogoTypeOK, Stages, Move, End, After
<1> SUFFICES ASSUME NEW h \in Handlers, OpenLogo(h) \/ ServeLogo(h) PROVE LogoTypeOK'
  BY DEF LogoStep
<1>1. CASE OpenLogo(h)
  BY <1>1 DEF OpenLogo
<1>2. CASE Look(h) \/ Send(h)
  BY <1>2 DEF Look, Send
<1>3. CASE Join(h)
  <2>1. CASE UNCHANGED calls
    BY <1>3, <2>1 DEF Join, Lead
  <2>2. CASE Lead(h)
    BY <1>3, <2>2 DEF Join, Lead
  <2> QED
    BY <1>3, <2>1, <2>2 DEF Join
<1>4. CASE Recheck(h) \/ Source(h) \/ Download(h) \/ Write(h) \/ Rename(h)
  BY <1>4 DEF Recheck, Source, Download, Write, Rename
<1>5. CASE Close(h)
  BY <1>5 DEF Close
<1>6. CASE Forget(h)
  BY <1>6 DEF Forget, Restrict
<1> QED
  BY <1>1, <1>2, <1>3, <1>4, <1>5, <1>6 DEF ServeLogo

LEMMA LedStep == ASSUME LogoInv, LogoStep PROVE Led'
<1> USE DEF LogoInv, LogoTypeOK, Led, Leading, Move, End, After
<1> SUFFICES ASSUME NEW h \in Handlers, OpenLogo(h) \/ ServeLogo(h) PROVE Led'
  BY DEF LogoStep
<1>1. CASE OpenLogo(h)
  BY <1>1 DEF OpenLogo
<1>2. CASE Look(h) \/ Send(h)
  BY <1>2 DEF Look, Send
<1>3. CASE Join(h)
  <2>1. CASE target[h] \in DOMAIN calls
    BY <1>3, <2>1 DEF Join, Lead
  <2>2. CASE target[h] \notin DOMAIN calls
    BY <1>3, <2>2 DEF Join, Lead
  <2> QED
    BY <2>1, <2>2
<1>4. CASE Recheck(h) \/ Source(h) \/ Download(h) \/ Write(h) \/ Rename(h)
  BY <1>4 DEF Recheck, Source, Download, Write, Rename
<1>5. CASE Close(h)
  BY <1>5 DEF Close
<1>6. CASE Forget(h)
  <2>1. /\ DOMAIN calls' = DOMAIN calls \ {target[h]}
        /\ \A l \in DOMAIN calls' : calls'[l] = calls[l]
    BY <1>6 DEF Forget, Restrict
  <2>2. at[h] = "forget" /\ at'[h] \notin Leading
    BY <1>6 DEF Forget
  <2>3. \A k \in Handlers \ {h} :
          at'[k] = at[k] /\ target'[k] = target[k] /\ result'[k] = result[k]
    BY <1>6 DEF Forget
  <2>4. ASSUME NEW k \in Handlers, at'[k] \in Leading
        PROVE  target'[k] \in DOMAIN calls' /\ calls'[target'[k]].leader = k
    BY <2>1, <2>2, <2>3, <2>4
  <2>5. ASSUME NEW l \in DOMAIN calls'
        PROVE  calls[l].leader \in Handlers \ {h}
    BY <2>1, <2>2, <2>5
  <2> QED
    BY <2>1, <2>3, <2>4, <2>5
<1> QED
  BY <1>1, <1>2, <1>3, <1>4, <1>5, <1>6 DEF ServeLogo

LEMMA KnownStep == ASSUME LogoInv, LogoStep PROVE Known'
<1> USE DEF LogoInv, LogoTypeOK, Known, Move, End, After
<1> SUFFICES ASSUME NEW h \in Handlers, OpenLogo(h) \/ ServeLogo(h) PROVE Known'
  BY DEF LogoStep
<1>1. CASE OpenLogo(h)
  BY <1>1 DEF OpenLogo
<1>2. CASE Look(h) \/ Send(h)
  BY <1>2 DEF Look, Send, Present
<1>3. CASE Join(h)
  <2>1. CASE target[h] \in DOMAIN calls
    BY <1>3, <2>1 DEF Join, Lead, Led
  <2>2. CASE target[h] \notin DOMAIN calls
    BY <1>3, <2>2 DEF Join, Lead
  <2> QED
    BY <2>1, <2>2
<1>4. CASE Recheck(h) \/ Source(h) \/ Download(h) \/ Write(h)
  BY <1>4 DEF Recheck, Source, Download, Write, Present
<1>5. CASE Rename(h)
  BY <1>5 DEF Rename, Led, Leading
<1>6. CASE Close(h)
  BY <1>6 DEF Close
<1>7. CASE Forget(h)
  BY <1>7 DEF Forget
<1> QED
  BY <1>1, <1>2, <1>3, <1>4, <1>5, <1>6, <1>7 DEF ServeLogo

LEMMA LogoInvStep == ASSUME LogoInv, [AioNext]_aioVars PROVE LogoInv'
<1>1. CASE UNCHANGED logoVars
  BY <1>1 DEF logoVars, LogoInv, LogoTypeOK, Led, Known
<1>2. CASE LogoStep
  BY <1>2, LogoTypeStep, LedStep, KnownStep DEF LogoInv
<1>3. CASE LogoCrash
  <2>1. DOMAIN calls' = {}
    BY <1>3 DEF LogoCrash
  <2> QED
    BY <1>3, <2>1 DEF LogoCrash, LogoInv, LogoTypeOK, Stages, Led, Known, Leading
<1> QED
  BY <1>1, <1>2, <1>3 DEF AioNext, ServeList, Logo, LogoStep, Playback, Prewarming, AioCrash, aioVars

\* Inductive invariant of the logos, in particular LogoTypeOK.
THEOREM LogosSafe == AioSpec => []LogoInv
<1>1. AioInit => LogoInv
  BY LogoInvInit DEF AioInit
<1> QED
  BY <1>1, LogoInvStep, PTL DEF AioSpec

\* No logo is downloaded by two requests at once or although it is there.
THEOREM NoSecondDownloadHolds == AioSpec => []NoSecondDownload
<1>1. LogoInv => NoSecondDownload
  BY DEF LogoInv, LogoTypeOK, Led, Leading, Known, NoSecondDownload, Present
<1> QED
  BY <1>1, LogosSafe, PTL

\* A logo that is sent is whole, and it is there for who was told so.
THEOREM SentWholeHolds == AioSpec => []SentWhole
<1>1. LogoInv => SentWhole
  BY DEF LogoInv, Known, SentWhole
<1> QED
  BY <1>1, LogosSafe, PTL

(***************************************************************************)
(* Prewarming                                                              *)
(***************************************************************************)
\* The flag is up as long as anything of a pass is left to do.
PrewarmInv ==
  /\ DOMAIN running = Platforms /\ DOMAIN queue = Platforms
  /\ since \in [Platforms -> 0..Gap]
  /\ doing = [p \in Platforms |-> [w \in Resolvers |-> doing[p][w]]]
  /\ \A p \in Platforms : running[p] \/ Idle(p)

PrewarmStep ==
  \/ \E p \in Platforms, entries \in Catalogs : MaybePrewarm(p, entries)
  \/ Pass \/ Minute

LEMMA PrewarmInvInit == PrewarmInit => PrewarmInv
BY GapAssumption DEF PrewarmInit, PrewarmInv, Nothing, Idle

LEMMA PrewarmInvStep == ASSUME PrewarmInv, PrewarmStep \/ PrewarmCrash PROVE PrewarmInv'
<1> USE GapAssumption DEF PrewarmInv, Idle
<1>1. ASSUME NEW p \in Platforms, NEW entries \in Catalogs, MaybePrewarm(p, entries)
      PROVE  PrewarmInv'
  BY <1>1 DEF MaybePrewarm
<1>2. ASSUME NEW p \in Platforms, EndPass(p) PROVE PrewarmInv'
  BY <1>2 DEF EndPass
<1>3. ASSUME NEW p \in Platforms, NEW w \in Resolvers, Take(p, w) PROVE PrewarmInv'
  <2>1. running[p]
    BY <1>3 DEF Take
  <2>2. \A q \in Platforms : running'[q] \/ Idle(q)'
    BY <1>3, <2>1 DEF Take
  <2> HIDE DEF Idle
  <2>3. doing' = [q \in Platforms |-> [v \in Resolvers |-> doing'[q][v]]]
    BY <1>3 DEF Take
  <2> QED
    BY <1>3, <2>2, <2>3 DEF Take
<1>4. ASSUME NEW p \in Platforms, NEW w \in Resolvers, Resolved(p, w) PROVE PrewarmInv'
  <2>1. running[p]
    BY <1>4 DEF Resolved
  <2> QED
    BY <1>4, <2>1 DEF Resolved
<1>5. CASE Minute
  BY <1>5 DEF Minute
<1>6. CASE PrewarmCrash
  BY <1>6 DEF PrewarmCrash, Nothing
<1> QED
  BY <1>1, <1>2, <1>3, <1>4, <1>5, <1>6 DEF PrewarmStep, Pass

\* Only the start of a pass takes the time back to zero.
LEMMA StartStep ==
  ASSUME PrewarmInv, PrewarmStep \/ PrewarmCrash, NEW p \in Platforms, since'[p] < since[p]
  PROVE  since[p] = Gap /\ Idle(p)
<1> USE GapAssumption DEF PrewarmInv
<1>1. CASE \E q \in Platforms, entries \in Catalogs : MaybePrewarm(q, entries)
  BY <1>1 DEF MaybePrewarm
<1>2. CASE Pass
  BY <1>2 DEF Pass, EndPass, Take, Resolved
<1>3. CASE Minute
  BY <1>3 DEF Minute
<1>4. CASE PrewarmCrash
  BY <1>4 DEF PrewarmCrash
<1> QED
  BY <1>1, <1>2, <1>3, <1>4 DEF PrewarmStep

LEMMA PrewarmPart ==
  [AioNext]_aioVars => PrewarmStep \/ PrewarmCrash \/ UNCHANGED prewarmVars
BY DEF AioNext, ServeList, Logo, Playback, Prewarming, AioCrash, PrewarmStep, aioVars

\* The passes of a platform do not overlap, and start five minutes apart.
THEOREM OnePassAtATimeHolds == AioSpec => OnePassAtATime
<1>1. AioInit => PrewarmInv
  BY PrewarmInvInit DEF AioInit
<1>2. PrewarmInv /\ [AioNext]_aioVars => PrewarmInv'
  BY PrewarmPart, PrewarmInvStep DEF prewarmVars, PrewarmInv, Idle
<1>3. PrewarmInv /\ [AioNext]_aioVars =>
        [\A p \in Platforms : since'[p] < since[p] => since[p] = Gap /\ Idle(p)]_prewarmVars
  BY PrewarmPart, StartStep
<1> QED
  BY <1>1, <1>2, <1>3, PTL DEF AioSpec, OnePassAtATime

(***************************************************************************)
(* Rooms                                                                   *)
(***************************************************************************)
\* A page was unreadable or a stream denied, one request more than the first has
\* failed, or the second try is ruled out.
Excused(a) ==
  \/ lost[a].page > 0 \/ lost[a].denied > 0
  \/ lost[a].api > 1 \/ (dated[a] /\ lost[a].api > 0)

\* How far a resolution of a live Douyu room can be when its page was readable:
\* only a number that may be an alias is asked for under a number not its own.
RoomStands(a) ==
  LET r == room[a] IN
  /\ r.kind \in Kinds
  /\ step[a] = "page" => r.kind = "name" /\ attempt[a] = 1
  /\ step[a] \in {"preview", "again"} /\ attempt[a] = 2 /\ real[a] => lost[a].api > 0
  /\ step[a] = "preview" /\ ~real[a] => r.kind = "number" \/ lost[a].page > 0
  /\ step[a] = "again" => real[a]
  /\ step[a] = "alias" =>
       /\ r.kind \in {"real", "number"}
       /\ r.live => r.kind = "number" \/ Excused(a)
  /\ step[a] = "done" /\ ~found[a].ok /\ r.live => Excused(a)

Placed(a) ==
  /\ step[a] = "idle" => attempt[a] = 1
  /\ step[a] \in {"idle", "huya", "douyin"} => room[a].platform # "douyu"
  /\ room[a].platform = "douyu" => RoomStands(a)

RoomTypes ==
  /\ DOMAIN step = Askers /\ DOMAIN room = Askers /\ DOMAIN found = Askers
  /\ real \in [Askers -> BOOLEAN] /\ DOMAIN dated = Askers
  /\ attempt \in [Askers -> {1, 2}]
  /\ lost \in [Askers -> [page : Nat, api : Nat, denied : Nat]]

RoomInv == RoomTypes /\ \A a \in Askers : Placed(a)

RoomStep == \E a \in Askers : AskRoom(a) \/ Resolve(a) \/ Answer(a)

LEMMA RoomInvInit == RoomInit => RoomInv
BY DEF RoomInit, RoomInv, RoomTypes, Placed, Blank, NoLoss

\* What is left behind stands again where it began.
LEMMA LeaveStep == ASSUME RoomInv, NEW S \in SUBSET Askers, Leave(S) PROVE RoomInv'
BY DEF RoomInv, RoomTypes, Placed, RoomStands, Excused, Leave, Blank, NoLoss

\* A failure adds one to its own counter.
LEMMA LoseStep ==
  ASSUME RoomTypes, NEW a \in Askers, NEW what \in {"page", "api", "denied"}, Lose(a, what)
  PROVE  /\ lost' \in [Askers -> [page : Nat, api : Nat, denied : Nat]]
         /\ lost'[a][what] = lost[a][what] + 1
         /\ \A other \in {"page", "api", "denied"} \ {what} : lost'[a][other] = lost[a][other]
<1>1. CASE what = "page"
  <2>1. lost' = [lost EXCEPT ![a].page = @ + 1]
    BY <1>1 DEF Lose
  <2> QED
    BY <1>1, <2>1 DEF RoomTypes
<1>2. CASE what = "api"
  <2>1. lost' = [lost EXCEPT ![a].api = @ + 1]
    BY <1>2 DEF Lose
  <2> QED
    BY <1>2, <2>1 DEF RoomTypes
<1>3. CASE what = "denied"
  <2>1. lost' = [lost EXCEPT ![a].denied = @ + 1]
    BY <1>3 DEF Lose
  <2> QED
    BY <1>3, <2>1 DEF RoomTypes
<1> QED
  BY <1>1, <1>2, <1>3

\* Whatever the page says, the resolution is over.
LEMMA HuyaShape ==
  ASSUME NEW a \in Askers, HuyaPage(a)
  PROVE  /\ step' = [step EXCEPT ![a] = "done"]
         /\ \E f : found' = [found EXCEPT ![a] = f]
         /\ \/ room' = room /\ lost' = [lost EXCEPT ![a].page = @ + 1]
            \/ /\ \E page : room' = [room EXCEPT ![a] = [platform |-> "huya", page |-> page]]
               /\ lost' = lost
         /\ UNCHANGED <<real, attempt, dated>>
BY DEF HuyaPage, Settle, To, Lose

LEMMA RoomTypesStep ==
  ASSUME RoomTypes, NEW a \in Askers, AskRoom(a) \/ Resolve(a)
  PROVE  RoomTypes'
<1> USE DEF RoomTypes, To, Settle, Lose
<1>1. CASE AskRoom(a)
  BY <1>1 DEF AskRoom
<1> HIDE DEF Lose, To, Settle
<1>2. CASE HuyaPage(a)
  <2>1. lost' \in [Askers -> [page : Nat, api : Nat, denied : Nat]]
    <3>1. CASE lost' = lost
      BY <3>1
    <3>2. CASE lost' = [lost EXCEPT ![a].page = @ + 1]
      BY <3>2
    <3> QED
      BY <1>2, <3>1, <3>2, HuyaShape
  <2> QED
    BY <1>2, <2>1, HuyaShape
<1> USE DEF To, Settle
<1>3. CASE DouyuPage(a)
  BY <1>3, LoseStep DEF DouyuPage
<1>4. CASE AliasPage(a)
  BY <1>4, LoseStep DEF AliasPage
<1>5. CASE Preview(a)
  BY <1>5, LoseStep DEF Preview, PreviewEnds, Retry
<1>6. CASE DouyinPage(a)
  BY <1>6 DEF DouyinPage
<1> QED
  BY <1>1, <1>2, <1>3, <1>4, <1>5, <1>6 DEF Resolve

\* A step of one resolution leaves the others where they are.
LEMMA OthersStay ==
  ASSUME RoomInv, NEW a \in Askers, AskRoom(a) \/ Resolve(a), NEW b \in Askers \ {a}
  PROVE  Placed(b)'
<1>1. /\ step'[b] = step[b] /\ room'[b] = room[b] /\ real'[b] = real[b] /\ found'[b] = found[b]
      /\ attempt'[b] = attempt[b] /\ dated'[b] = dated[b] /\ lost'[b] = lost[b]
  <2> USE DEF RoomInv, RoomTypes, To, Settle, Lose
  <2>1. CASE AskRoom(a)
    BY <2>1 DEF AskRoom
  <2>2. CASE HuyaPage(a)
    BY <2>2, HuyaShape
  <2>3. CASE DouyuPage(a) \/ AliasPage(a) \/ DouyinPage(a)
    BY <2>3 DEF DouyuPage, AliasPage, DouyinPage
  <2>4. CASE Preview(a)
    BY <2>4 DEF Preview, PreviewEnds, Retry
  <2> QED
    BY <2>1, <2>2, <2>3, <2>4 DEF Resolve
<1> QED
  BY <1>1 DEF RoomInv, Placed, RoomStands, Excused

LEMMA OwnStep ==
  ASSUME RoomInv, NEW a \in Askers, AskRoom(a) \/ Resolve(a)
  PROVE  Placed(a)'
<1> USE KindAssumption DEF RoomInv, RoomTypes, Placed, RoomStands, Excused, To, Settle, Lose
<1>1. CASE AskRoom(a)
  <2>0. step[a] = "idle" /\ attempt' = attempt
    BY <1>1 DEF AskRoom
  <2>1. ASSUME NEW kind \in Kinds, NEW live \in BOOLEAN, NEW old \in BOOLEAN,
               room'[a] = [platform |-> "douyu", kind |-> kind, live |-> live, old |-> old],
               real'[a] <=> kind = "real",
               step'[a] = IF kind = "name" THEN "page" ELSE "preview"
        PROVE  Placed(a)'
    BY <2>0, <2>1
  <2>2. CASE room' = room /\ step'[a] \in {"huya", "douyin", "done"}
    BY <1>1, <2>2 DEF AskRoom
  <2> QED
    <3>1. CASE UNCHANGED room
      BY <1>1, <2>2, <3>1 DEF AskRoom
    <3>2. ASSUME NEW kind \in Kinds, NEW live \in BOOLEAN, NEW old \in BOOLEAN,
                 room' = [room EXCEPT ![a] =
                   [platform |-> "douyu", kind |-> kind, live |-> live, old |-> old]],
                 real' = [real EXCEPT ![a] = kind = "real"],
                 To(a, IF kind = "name" THEN "page" ELSE "preview")
          PROVE  Placed(a)'
      BY <2>1, <3>2
    <3> QED
      BY <1>1, <3>1, <3>2 DEF AskRoom
<1>2. CASE HuyaPage(a)
  <2>1. step'[a] = "done" /\ step[a] = "huya"
    BY <1>2, HuyaShape DEF HuyaPage
  <2>2. room'[a].platform # "douyu"
    BY <1>2, <2>1, HuyaShape
  <2> QED
    BY <2>1, <2>2
<1>3. CASE DouyuPage(a)
  BY <1>3 DEF DouyuPage
<1>4. CASE Preview(a)
  <2> HIDE DEF RoomInv, RoomTypes, Placed, RoomStands, Excused, To, Settle, Lose
  <2>0. /\ step[a] \in {"preview", "again"}
        /\ room' = room /\ real' = real /\ dated' = dated
    BY <1>4 DEF Preview
  <2>1. ASSUME PreviewEnds(a)
        PROVE  \/ step[a] = "preview" /\ room[a].kind # "name" /\ step'[a] = "alias"
               \/ /\ step[a] = "again" \/ room[a].kind = "name"
                  /\ step'[a] = "done" /\ ~found'[a].ok
    BY <2>0, <2>1 DEF PreviewEnds, Settle, To, None, RoomInv, RoomTypes
  <2>2. ASSUME Retry(a)
        PROVE  \/ attempt'[a] = 2 /\ step'[a] = step[a]
               \/ attempt[a] = 2 /\ PreviewEnds(a)
    BY <2>2 DEF Retry, RoomInv, RoomTypes
  <2>3. CASE real[a] /\ room[a].live /\ Settle(a, Stream("flv"))
    BY <2>0, <2>3 DEF Settle, To, Stream, RoomInv, RoomTypes, Placed, RoomStands
  <2>4. CASE ~(real[a] /\ room[a].live) /\ PreviewEnds(a) /\ UNCHANGED lost
    BY <2>0, <2>1, <2>4 DEF RoomInv, RoomTypes, Placed, RoomStands, Excused
  <2>5. CASE real[a] /\ Lose(a, "api") /\ (Retry(a) \/ (dated[a] /\ PreviewEnds(a)))
    <3>1. lost'[a].api = lost[a].api + 1 /\ lost'[a].page = lost[a].page
      BY <2>5, LoseStep DEF RoomInv
    <3>2. lost[a].api \in Nat /\ lost[a].page \in Nat /\ dated'[a] = dated[a]
      BY <2>0 DEF RoomInv, RoomTypes
    <3>3. CASE attempt'[a] = 2 /\ step'[a] = step[a]
      BY <2>0, <3>1, <3>2, <3>3 DEF RoomInv, Placed, RoomStands, Excused
    <3>4. CASE PreviewEnds(a) /\ (attempt[a] = 2 \/ dated[a])
      <4>1. room[a].platform = "douyu" => Excused(a)'
        BY <2>0, <2>5, <3>1, <3>2, <3>4 DEF RoomInv, Placed, RoomStands, Excused
      <4> QED
        BY <2>0, <2>1, <3>4, <4>1 DEF RoomInv, Placed, RoomStands
    <3> QED
      BY <2>2, <2>5, <3>3, <3>4
  <2>7. CASE PreviewEnds(a) /\ real[a] /\ Lose(a, "denied")
    <3>1. lost'[a].denied > 0
      BY <2>7, LoseStep DEF RoomInv, RoomTypes
    <3>2. Excused(a)'
      BY <3>1 DEF Excused
    <3> QED
      BY <2>0, <2>1, <2>7, <3>2 DEF RoomInv, RoomTypes, Placed, RoomStands
  <2>6. CASE ~real[a] /\ UNCHANGED lost /\ (Retry(a) \/ (dated[a] /\ PreviewEnds(a)))
    BY <2>0, <2>1, <2>2, <2>6 DEF RoomInv, RoomTypes, Placed, RoomStands, Excused
  <2> QED
    BY <1>4, <2>3, <2>4, <2>5, <2>6, <2>7 DEF Preview
<1>5. CASE AliasPage(a)
  BY <1>5 DEF AliasPage
<1>6. CASE DouyinPage(a)
  BY <1>6 DEF DouyinPage
<1> QED
  BY <1>1, <1>2, <1>3, <1>4, <1>5, <1>6 DEF Resolve

LEMMA RoomInvStep == ASSUME RoomInv, RoomStep \/ RoomCrash PROVE RoomInv'
<1>1. CASE RoomCrash
  BY <1>1, LeaveStep DEF RoomCrash
<1>2. ASSUME NEW a \in Askers, Answer(a) PROVE RoomInv'
  BY <1>2, LeaveStep DEF Answer
<1>3. ASSUME NEW a \in Askers, AskRoom(a) \/ Resolve(a) PROVE RoomInv'
  BY <1>3, RoomTypesStep, OthersStay, OwnStep DEF RoomInv
<1> QED
  BY <1>1, <1>2, <1>3 DEF RoomStep

\* One failed request does not hide a live room, unless it is its page.
THEOREM LiveRoomFoundHolds == AioSpec => []LiveRoomFound
<1>1. AioInit => RoomInv
  BY RoomInvInit DEF AioInit
<1>2. RoomInv /\ [AioNext]_aioVars => RoomInv'
  <2>1. [AioNext]_aioVars => RoomStep \/ RoomCrash \/ UNCHANGED roomVars
    BY DEF AioNext, ServeList, Logo, Playback, Prewarming, AioCrash, RoomStep, aioVars
  <2> QED
    BY <2>1, RoomInvStep DEF roomVars, RoomInv, RoomTypes, Placed, RoomStands, Excused
<1>3. RoomInv => LiveRoomFound
  BY DEF RoomInv, Placed, RoomStands, Excused, LiveRoomFound
<1> QED
  BY <1>1, <1>2, <1>3, PTL DEF AioSpec

(***************************************************************************)
(* Huya: the stream that is taken is the best that works.  Induction over  *)
(* the lines of a page is by least counterexample: the numbers of lines    *)
(* for which a fact fails would have a least element (WFMin), which the    *)
(* fact for one line less excludes.                                        *)
(***************************************************************************)
\* Every set of numbers has a least element.
LEMMA LeastElement ==
  ASSUME NEW T \in SUBSET Nat, T # {}
  PROVE  \E x \in T : \A y \in T : x <= y
<1>1. \A R : IsWellFoundedOn(R, Nat) => \E x \in T : \A y \in T : <<y, x>> \notin R
  BY WFMin
<1>2. \E x \in T : \A y \in T : <<y, x>> \notin OpToRel(<, Nat)
  BY <1>1, NatLessThanWellFounded
<1>3. OpToRel(<, Nat) = {ss \in Nat \X Nat : ss[1] < ss[2]}
  BY DEF OpToRel
<1>4. ASSUME NEW x \in T, NEW y \in T, <<y, x>> \notin OpToRel(<, Nat)
      PROVE  x <= y
  <2>1. <<y, x>> \in Nat \X Nat /\ <<y, x>>[1] = y /\ <<y, x>>[2] = x
    OBVIOUS
  <2>2. ~(y < x)
    BY <1>3, <1>4, <2>1, Zenon
  <2> QED
    BY <2>2
<1> QED
  BY <1>2, <1>4

\* The least element of a set of indexes, or 0.
LEMMA FirstOf ==
  ASSUME NEW n \in Nat, NEW T \in SUBSET (1..n)
  PROVE  LET i == IF T # {} THEN Min(T) ELSE 0 IN
         \/ i = 0 /\ T = {}
         \/ i \in T /\ i \in 1..n /\ \A j \in 1..(i - 1) : j \notin T
<1>1. CASE T # {}
  <2>1. \E x \in T : \A y \in T : x <= y
    BY <1>1, LeastElement
  <2>2. Min(T) \in T /\ \A y \in T : Min(T) <= y
    BY <2>1 DEF Min
  <2>3. Min(T) \in 1..n
    BY <2>2
  <2>4. \A j \in 1..(Min(T) - 1) : ~(Min(T) <= j)
    BY <2>3
  <2> QED
    BY <1>1, <2>2, <2>3, <2>4
<1> QED
  BY <1>1

\* The first line that is usable.
LEMMA FirstUsableIs ==
  ASSUME NEW lines \in Seq(HuyaLines)
  PROVE  LET i == FirstUsable(lines) IN
         \/ i = 0 /\ \A j \in 1..Len(lines) : ~lines[j].usable
         \/ /\ i \in 1..Len(lines) /\ lines[i].usable
            /\ \A j \in 1..(i - 1) : ~lines[j].usable
<1> DEFINE T == {i \in 1..Len(lines) : lines[i].usable}
           i == FirstUsable(lines)
<1>1. i = IF T # {} THEN Min(T) ELSE 0
  BY DEF FirstUsable, SelectInSeq, Usable
<1>2. T \in SUBSET (1..Len(lines)) /\ Len(lines) \in Nat
  OBVIOUS
<1>3. \/ i = 0 /\ T = {}
      \/ i \in T /\ i \in 1..Len(lines) /\ \A j \in 1..(i - 1) : j \notin T
  <2> HIDE DEF T, i
  <2> QED
    BY <1>1, <1>2, FirstOf, Zenon
<1>4. i \in 1..Len(lines) => \A j \in 1..(i - 1) : j \in 1..Len(lines)
  <2> HIDE DEF i
  <2> QED
    BY <1>2
<1> HIDE DEF i
<1> QED
  BY <1>3, <1>4 DEF i

\* The place of a line among sorted ones.
LEMMA PlaceIs ==
  ASSUME NEW s \in Seq(HuyaLines), NEW m \in HuyaLines
  PROVE  LET i == SelectInSeq(s, LAMBDA n : Before(m, n)) IN
         \/ i = 0 /\ \A j \in 1..Len(s) : ~Before(m, s[j])
         \/ /\ i \in 1..Len(s) /\ Before(m, s[i])
            /\ \A j \in 1..(i - 1) : ~Before(m, s[j])
<1> DEFINE T == {i \in 1..Len(s) : Before(m, s[i])}
           i == SelectInSeq(s, LAMBDA n : Before(m, n))
<1>1. i = IF T # {} THEN Min(T) ELSE 0
  BY DEF SelectInSeq
<1>2. T \in SUBSET (1..Len(s)) /\ Len(s) \in Nat
  OBVIOUS
<1>3. \/ i = 0 /\ T = {}
      \/ i \in T /\ i \in 1..Len(s) /\ \A j \in 1..(i - 1) : j \notin T
  <2> HIDE DEF T, i
  <2> QED
    BY <1>1, <1>2, FirstOf, Zenon
<1>4. i \in 1..Len(s) => \A j \in 1..(i - 1) : j \in 1..Len(s)
  <2> HIDE DEF i
  <2> QED
    BY <1>2
<1> HIDE DEF i
<1> QED
  BY <1>3, <1>4 DEF i

\* The order of the lines is strict, and not being before goes through.
LEMMA BeforeOrders ==
  ASSUME NEW x \in HuyaLines, NEW y \in HuyaLines, NEW z \in HuyaLines
  PROVE  /\ ~(Before(x, y) /\ Before(y, x))
         /\ ~Before(x, y) /\ ~Before(y, z) => ~Before(x, z)
         /\ Before(x, y) /\ ~Before(z, y) => ~Before(z, x)
BY DEF Before, HuyaLines

\* No line is before an earlier one.
Sorted(s) == \A i, j \in 1..Len(s) : i < j => ~Before(s[j], s[i])

\* A line more: all the lines are there and still in order.
LEMMA InsertKeeps ==
  ASSUME NEW s \in Seq(HuyaLines), NEW m \in HuyaLines
  PROVE  /\ Insert(s, m) \in Seq(HuyaLines)
         /\ Sorted(s) => Sorted(Insert(s, m))
         /\ Range(Insert(s, m)) = Range(s) \union {m}
<1> DEFINE i == SelectInSeq(s, LAMBDA n : Before(m, n))
           t == Insert(s, m)
<1>1. \/ i = 0 /\ \A j \in 1..Len(s) : ~Before(m, s[j])
      \/ /\ i \in 1..Len(s) /\ Before(m, s[i])
         /\ \A j \in 1..(i - 1) : ~Before(m, s[j])
  BY PlaceIs
<1>2. t = IF i = 0 THEN Append(s, m) ELSE InsertAt(s, i, m)
  BY DEF Insert
<1> HIDE DEF i, t
<1>3. CASE i = 0
  <2>1. t \in Seq(HuyaLines) /\ Len(t) = Len(s) + 1
    BY <1>2, <1>3
  <2>2. /\ \A k \in 1..Len(s) : t[k] = s[k]
        /\ t[Len(s) + 1] = m
    BY <1>2, <1>3
  <2>3. Sorted(s) => Sorted(t)
    BY <1>1, <1>3, <2>1, <2>2 DEF Sorted
  <2>4. Range(t) = Range(s) \union {m}
    BY <2>1, <2>2 DEF Range
  <2> QED
    BY <2>1, <2>3, <2>4 DEF t
<1>4. CASE i \in 1..Len(s)
  <2> DEFINE a == SubSeq(s, 1, i - 1)
             b == SubSeq(s, i, Len(s))
             u == a \o <<m>>
  <2>1. t = u \o b
    BY <1>2, <1>4 DEF InsertAt
  <2>2. /\ a \in Seq(HuyaLines) /\ Len(a) = i - 1
        /\ \A k \in 1..(i - 1) : a[k] = s[k]
    BY <1>4
  <2>3. /\ b \in Seq(HuyaLines) /\ Len(b) = Len(s) - i + 1
        /\ \A k \in 1..(Len(s) - i + 1) : b[k] = s[i + k - 1]
    BY <1>4
  <2> HIDE DEF a, b, t
  <2>4. /\ u \in Seq(HuyaLines) /\ Len(u) = i
        /\ \A k \in 1..i : u[k] = IF k < i THEN s[k] ELSE m
    BY <1>4, <2>2
  <2> HIDE DEF u
  <2>5. t \in Seq(HuyaLines) /\ Len(t) = Len(s) + 1
    <3>1. t \in Seq(HuyaLines) /\ Len(t) = Len(u) + Len(b)
      BY <2>1, <2>3, <2>4
    <3> QED
      BY <1>4, <2>3, <2>4, <3>1
  <2>6. /\ \A k \in 1..(i - 1) : t[k] = s[k]
        /\ t[i] = m
        /\ \A k \in (i + 1)..(Len(s) + 1) : t[k] = s[k - 1]
    <3>1. ASSUME NEW k \in 1..i PROVE t[k] = u[k]
      BY <1>4, <2>1, <2>3, <2>4
    <3>2. ASSUME NEW k \in (i + 1)..(Len(s) + 1) PROVE t[k] = s[k - 1]
      <4>1. t[k] = b[k - i]
        BY <1>4, <2>1, <2>3, <2>4
      <4>2. k - i \in 1..(Len(s) - i + 1) /\ i + (k - i) - 1 = k - 1
        BY <1>4
      <4> QED
        BY <2>3, <4>1, <4>2
    <3> QED
      BY <1>4, <2>4, <3>1, <3>2
  <2>7. Sorted(s) => Sorted(t)
    <3> SUFFICES ASSUME Sorted(s), NEW j \in 1..Len(t), NEW k \in 1..Len(t), j < k
                 PROVE  ~Before(t[k], t[j])
      BY DEF Sorted
    <3>0. \A l \in 1..Len(s) : s[l] \in HuyaLines
      OBVIOUS
    <3>1. \A l \in 1..Len(s) : l >= i => ~Before(s[l], m)
      <4> SUFFICES ASSUME NEW l \in 1..Len(s), l >= i PROVE ~Before(s[l], m)
        OBVIOUS
      <4>1. Before(m, s[i])
        BY <1>1, <1>4
      <4>2. l = i \/ ~Before(s[l], s[i])
        BY <1>4 DEF Sorted
      <4> QED
        BY <1>4, <3>0, <4>1, <4>2, BeforeOrders
    <3>2. \A l \in 1..(i - 1) : ~Before(m, s[l])
      BY <1>1, <1>4
    <3>3. Len(s) \in Nat /\ i \in Nat /\ j \in Nat /\ k \in Nat /\ k <= Len(s) + 1
      BY <1>4, <2>5
    <3>4. CASE k < i
      <4>1. j \in 1..(i - 1) /\ k \in 1..(i - 1) /\ j \in 1..Len(s) /\ k \in 1..Len(s)
        BY <1>4, <3>3, <3>4
      <4> QED
        BY <2>6, <4>1 DEF Sorted
    <3>5. CASE k = i
      <4>1. j \in 1..(i - 1)
        BY <3>3, <3>5
      <4> QED
        BY <2>6, <3>2, <3>5, <4>1
    <3>6. CASE k > i
      <4>1. t[k] = s[k - 1] /\ k - 1 \in 1..Len(s)
        <5>1. k \in (i + 1)..(Len(s) + 1)
          BY <3>3, <3>6
        <5> QED
          BY <1>4, <2>6, <3>3, <5>1
      <4>2. CASE j < i
        <5>1. j \in 1..(i - 1) /\ j \in 1..Len(s) /\ j < k - 1
          BY <1>4, <3>3, <3>6, <4>2
        <5> QED
          BY <2>6, <4>1, <5>1 DEF Sorted
      <4>3. CASE j = i
        BY <2>6, <3>1, <3>3, <3>6, <4>1, <4>3
      <4>4. CASE j > i
        <5>1. j \in (i + 1)..(Len(s) + 1) /\ j - 1 \in 1..Len(s) /\ j - 1 < k - 1
          BY <1>4, <3>3, <4>4
        <5> QED
          BY <2>6, <4>1, <5>1 DEF Sorted
      <4> QED
        BY <3>3, <4>2, <4>3, <4>4
    <3> QED
      BY <3>3, <3>4, <3>5, <3>6
  <2>8. Range(t) = Range(s) \union {m}
    <3>1. \A k \in 1..Len(t) : t[k] \in Range(s) \union {m}
      <4> SUFFICES ASSUME NEW k \in 1..Len(t) PROVE t[k] \in Range(s) \union {m}
        OBVIOUS
      <4>1. \A l \in 1..Len(s) : s[l] \in Range(s)
        BY DEF Range
      <4>2. CASE k \in 1..(i - 1)
        <5>1. t[k] = s[k] /\ k \in 1..Len(s)
          BY <1>4, <2>6, <4>2
        <5> QED
          BY <4>1, <5>1
      <4>3. CASE k \in (i + 1)..(Len(s) + 1)
        <5>1. t[k] = s[k - 1] /\ k - 1 \in 1..Len(s)
          BY <1>4, <2>6, <4>3
        <5> QED
          BY <4>1, <5>1
      <4>4. k \in 1..(i - 1) \/ k = i \/ k \in (i + 1)..(Len(s) + 1)
        BY <1>4, <2>5
      <4> QED
        BY <2>6, <4>2, <4>3, <4>4
    <3>2. \A l \in 1..Len(s) : \E k \in 1..Len(t) : t[k] = s[l]
      <4> SUFFICES ASSUME NEW l \in 1..Len(s) PROVE \E k \in 1..Len(t) : t[k] = s[l]
        OBVIOUS
      <4>1. CASE l < i
        BY <1>4, <2>5, <2>6, <4>1
      <4>2. CASE l >= i
        <5>1. /\ l + 1 \in (i + 1)..(Len(s) + 1) /\ (l + 1) - 1 = l
              /\ l + 1 \in 1..Len(t)
          BY <1>4, <2>5, <4>2
        <5>2. t[l + 1] = s[(l + 1) - 1]
          BY <2>6, <5>1
        <5> QED
          BY <5>1, <5>2
      <4> QED
        BY <1>4, <4>1, <4>2
    <3>3. \E k \in 1..Len(t) : t[k] = m
      BY <1>4, <2>5, <2>6
    <3>4. DOMAIN t = 1..Len(t) /\ DOMAIN s = 1..Len(s)
      BY <2>5
    <3> QED
      BY <3>1, <3>2, <3>3, <3>4, Zenon DEF Range
  <2> QED
    BY <2>5, <2>7, <2>8 DEF t
<1> QED
  BY <1>1, <1>3, <1>4

\* The lines up to each, in order, one step after the other.
Sorts(g, lines, k) ==
  g = [n \in 0..k |-> IF n = 0 THEN <<>> ELSE Insert(g[n - 1], lines[n])]

\* There is such a function, so that Sorting is one.
LEMMA SortsExists ==
  ASSUME NEW lines, NEW size \in Nat
  PROVE  \E g : Sorts(g, lines, size)
<1> DEFINE T == {k \in Nat : ~\E g : Sorts(g, lines, k)}
<1>1. SUFFICES ASSUME T # {} PROVE FALSE
  OBVIOUS
<1>2. PICK k \in T : \A j \in T : k <= j
  <2>1. T \in SUBSET Nat
    OBVIOUS
  <2> HIDE DEF T
  <2> QED
    BY <1>1, <2>1, LeastElement
<1>3. k # 0
  <2>1. Sorts([n \in 0..0 |-> <<>>], lines, 0)
    BY DEF Sorts
  <2> QED
    BY <1>2, <2>1
<1>4. k \in Nat /\ k - 1 \in Nat /\ k - 1 \notin T
  <2>1. k \in Nat
    OBVIOUS
  <2> HIDE DEF T
  <2> QED
    BY <1>2, <1>3, <2>1
<1>5. PICK g : Sorts(g, lines, k - 1)
  BY <1>4
<1> DEFINE h == [n \in 0..k |-> IF n = k THEN Insert(g[k - 1], lines[k]) ELSE g[n]]
<1>6. ASSUME NEW n \in 0..k
      PROVE  h[n] = IF n = 0 THEN <<>> ELSE Insert(h[n - 1], lines[n])
  <2> DEFINE I(s, m) == Insert(s, m)
  <2> HIDE DEF I
  <2>0. /\ \A j \in 0..(k - 1) : g[j] = IF j = 0 THEN <<>> ELSE I(g[j - 1], lines[j])
        /\ h = [j \in 0..k |-> IF j = k THEN I(g[k - 1], lines[k]) ELSE g[j]]
    <3>1. g = [j \in 0..(k - 1) |-> IF j = 0 THEN <<>> ELSE I(g[j - 1], lines[j])]
      BY <1>5 DEF Sorts, I
    <3> QED
      BY <3>1 DEF I
  <2> HIDE DEF h
  <2>1. CASE n = k
    <3>1. h[n - 1] = g[k - 1]
      BY <1>3, <1>4, <2>0, <2>1
    <3>2. h[n] = I(g[k - 1], lines[k])
      BY <2>0, <2>1
    <3> QED
      BY <1>3, <2>1, <3>1, <3>2 DEF I
  <2>2. CASE n # k /\ n # 0
    <3>1. h[n] = g[n] /\ h[n - 1] = g[n - 1]
      BY <1>4, <2>0, <2>2
    <3>2. n \in 0..(k - 1)
      BY <1>4, <2>2
    <3> QED
      BY <2>0, <2>2, <3>1, <3>2 DEF I
  <2>3. CASE n # k /\ n = 0
    <3>1. h[n] = g[n] /\ n \in 0..(k - 1)
      BY <1>4, <2>0, <2>3
    <3> QED
      BY <2>0, <2>3, <3>1
  <2> QED
    BY <2>1, <2>2, <2>3
<1>7. Sorts(h, lines, k)
  <2> DEFINE e(n) == IF n = 0 THEN <<>> ELSE Insert(h[n - 1], lines[n])
  <2>1. h = [n \in 0..k |-> h[n]]
    OBVIOUS
  <2>2. \A n \in 0..k : h[n] = e(n)
    BY <1>6
  <2> HIDE DEF h, e
  <2>3. h = [n \in 0..k |-> e(n)]
    BY <2>1, <2>2, Zenon
  <2> QED
    BY <2>3 DEF Sorts, e
<1> QED
  BY <1>2, <1>7

\* What Sorting is at each number of lines.
LEMMA SortingIs ==
  ASSUME NEW lines \in Seq(HuyaLines)
  PROVE  /\ Sorting(lines)[0] = <<>>
         /\ \A n \in 1..Len(lines) :
              Sorting(lines)[n] = Insert(Sorting(lines)[n - 1], lines[n])
<1> DEFINE g == Sorting(lines)
<1>1. g = CHOOSE f : Sorts(f, lines, Len(lines))
  BY Zenon DEF Sorting, Sorts
<1>2. \E f : Sorts(f, lines, Len(lines))
  BY SortsExists
<1>3. Sorts(g, lines, Len(lines))
  BY <1>1, <1>2, Zenon
<1> HIDE DEF g
<1> DEFINE e(n) == IF n = 0 THEN <<>> ELSE Insert(g[n - 1], lines[n])
<1>4. g = [n \in 0..Len(lines) |-> e(n)]
  BY <1>3 DEF Sorts
<1> HIDE DEF e
<1>5. \A n \in 0..Len(lines) : g[n] = e(n)
  BY <1>4
<1>6. g[0] = e(0) /\ \A n \in 1..Len(lines) : g[n] = e(n) /\ n # 0
  BY <1>5
<1> QED
  BY <1>6, Zenon DEF e, g

\* The lines in order: all of them, and none before an earlier one.
LEMMA InOrderIs ==
  ASSUME NEW lines \in Seq(HuyaLines)
  PROVE  /\ InOrder(lines) \in Seq(HuyaLines)
         /\ Sorted(InOrder(lines))
         /\ Range(InOrder(lines)) = Range(lines)
<1> DEFINE g == Sorting(lines)
           Right(n) == /\ g[n] \in Seq(HuyaLines)
                       /\ Sorted(g[n])
                       /\ Range(g[n]) = {lines[j] : j \in 1..n}
           T == {n \in 0..Len(lines) : ~Right(n)}
<1>0. Len(lines) \in Nat /\ \A n \in 1..Len(lines) : lines[n] \in HuyaLines
  OBVIOUS
<1>1. T = {}
  <2> SUFFICES ASSUME T # {} PROVE FALSE
    OBVIOUS
  <2>1. PICK n \in T : \A j \in T : n <= j
    <3>1. T \in SUBSET Nat
      BY <1>0
    <3> HIDE DEF T
    <3> QED
      BY <3>1, LeastElement
  <2>2. n \in 0..Len(lines) /\ ~Right(n)
    OBVIOUS
  <2>3. n # 0
    <3>1. g[0] = <<>>
      BY SortingIs
    <3> HIDE DEF g
    <3>2. Right(0)
      BY <3>1 DEF Sorted, Range
    <3> QED
      BY <2>2, <3>2
  <2>4. Right(n - 1)
    <3>1. n - 1 \in 0..Len(lines) /\ ~(n <= n - 1)
      BY <1>0, <2>2, <2>3
    <3> HIDE DEF Right
    <3> QED
      BY <2>1, <3>1
  <2>5. g[n] = Insert(g[n - 1], lines[n]) /\ lines[n] \in HuyaLines
    BY <1>0, <2>2, <2>3, SortingIs
  <2>6. {lines[j] : j \in 1..n} = {lines[j] : j \in 1..(n - 1)} \union {lines[n]}
    BY <1>0, <2>2, <2>3
  <2> HIDE DEF g
  <2>7. Right(n)
    <3>1. /\ Insert(g[n - 1], lines[n]) \in Seq(HuyaLines)
          /\ Sorted(Insert(g[n - 1], lines[n]))
          /\ Range(Insert(g[n - 1], lines[n])) = Range(g[n - 1]) \union {lines[n]}
      BY <2>4, <2>5, InsertKeeps
    <3> QED
      BY <2>4, <2>5, <2>6, <3>1, Zenon
  <2> QED
    BY <2>2, <2>7
<1>2. Right(Len(lines))
  <2> HIDE DEF Right
  <2> QED
    BY <1>0, <1>1
<1>3. Range(lines) = {lines[j] : j \in 1..Len(lines)}
  BY DEF Range
<1> QED
  BY <1>2, <1>3 DEF InOrder

\* A bounded set of numbers has a greatest element.
LEMMA GreatestElement ==
  ASSUME NEW max \in Nat, NEW S \in SUBSET (0..max), S # {}
  PROVE  Highest(S) \in S /\ \A y \in S : y <= Highest(S)
<1> DEFINE T == {max - y : y \in S}
<1>1. T \in SUBSET Nat /\ T # {}
  <2>1. \A y \in S : max - y \in Nat
    OBVIOUS
  <2>2. \E y : y \in S
    OBVIOUS
  <2> QED
    BY <2>1, <2>2
<1>2. PICK x \in T : \A y \in T : x <= y
  <2> HIDE DEF T
  <2> QED
    BY <1>1, LeastElement
<1>3. PICK z \in S : x = max - z
  OBVIOUS
<1>4. \A y \in S : y <= z
  <2> SUFFICES ASSUME NEW y \in S PROVE y <= z
    OBVIOUS
  <2>1. max - y \in T
    OBVIOUS
  <2>2. max - z <= max - y
    BY <1>2, <1>3, <2>1
  <2> QED
    BY <2>2
<1> QED
  BY <1>4 DEF Highest

\* When an allowed ratio is offered, the best of them is taken.
LEMMA RatioIs ==
  ASSUME NEW rates \in SUBSET Nat, NEW max \in Nat \ {0},
         NEW c \in Ratio(rates, max), NEW r \in rates, r \in 1..max
  PROVE  c \in r..max
<1> DEFINE allowed == {q \in rates \ {0} : q <= max}
<1>1. r \in allowed /\ \A q \in allowed : q \in 0..max
  OBVIOUS
<1>2. c = Highest(allowed)
  BY <1>1 DEF Ratio
<1> HIDE DEF allowed
<1>3. Highest(allowed) \in allowed /\ \A y \in allowed : y <= Highest(allowed)
  <2>1. allowed \in SUBSET (0..max) /\ allowed # {} /\ max \in Nat
    BY <1>1
  <2> QED
    BY <2>1, GreatestElement, Zenon
<1>4. r <= c /\ c \in 0..max
  BY <1>1, <1>2, <1>3
<1> QED
  BY <1>4

Working(page) == {m \in Range(Offered(page)) : m.usable}

\* The first usable line of the sorted ones.
LEMMA FirstIsBest ==
  ASSUME NEW page \in Pages
  PROVE  LET lines == InOrder(Offered(page))
             i == FirstUsable(lines)
         IN  /\ i # 0 <=> Working(page) # {}
             /\ i # 0 => /\ lines[i] \in Working(page)
                         /\ \A m \in Working(page) : ~Before(m, lines[i])
<1> DEFINE lines == InOrder(Offered(page))
           i == FirstUsable(lines)
<1>1. Offered(page) \in Seq(HuyaLines)
  BY PageAssumption DEF Offered
<1>2. /\ lines \in Seq(HuyaLines)
      /\ Sorted(lines)
      /\ Working(page) = {m \in Range(lines) : m.usable}
  BY <1>1, InOrderIs DEF Working
<1>3. \/ i = 0 /\ \A j \in 1..Len(lines) : ~lines[j].usable
      \/ /\ i \in 1..Len(lines) /\ lines[i].usable
         /\ \A j \in 1..(i - 1) : ~lines[j].usable
  BY <1>2, FirstUsableIs
<1> HIDE DEF lines, i
<1>4. DOMAIN lines = 1..Len(lines) /\ \A j \in 1..Len(lines) : lines[j] \in HuyaLines
  BY <1>2
<1>5. Working(page) = {lines[j] : j \in {k \in 1..Len(lines) : lines[k].usable}}
  BY <1>2, <1>4 DEF Range
<1>6. CASE i = 0
  BY <1>3, <1>5, <1>6 DEF lines, i
<1>7. CASE i \in 1..Len(lines) /\ lines[i].usable
  <2>1. lines[i] \in Working(page) /\ i # 0
    BY <1>5, <1>7
  <2>2. ASSUME NEW m \in Working(page) PROVE ~Before(m, lines[i])
    <3>1. PICK j \in 1..Len(lines) : m = lines[j] /\ lines[j].usable
      BY <1>5
    <3>2. ~(j < i)
      BY <1>3, <1>7, <3>1
    <3>3. CASE j = i
      BY <1>4, <3>1, <3>3, BeforeOrders
    <3>4. CASE i < j
      BY <1>2, <1>7, <3>1, <3>4 DEF Sorted
    <3> QED
      BY <1>7, <3>2, <3>3, <3>4
  <2> QED
    BY <2>1, <2>2 DEF lines, i
<1> QED
  BY <1>3, <1>6, <1>7

\* What the answer to a page must be.
Best(f, page) ==
  /\ f.ok <=> Working(page) # {}
  /\ f.ok => LET s == f.stream IN
       /\ s.line \in Working(page)
       /\ \A m \in Working(page) : ~Before(m, s.line)
       /\ \A c \in s.ratio, r \in page.rates :
            HUYA_MAX_RATIO > 0 /\ r \in 1..HUYA_MAX_RATIO => c \in r..HUYA_MAX_RATIO

\* A page is only known once the resolution is over.
HuyaInv ==
  /\ RoomTypes
  /\ \A a \in Askers : room[a].platform = "huya" =>
       step[a] = "done" /\ Best(found[a], room[a].page)

\* The handler of a page, whether it could be read or not.
LEMMA PageIsBest ==
  ASSUME RoomTypes, NEW a \in Askers, HuyaPage(a)
  PROVE  \/ room' = room
         \/ /\ room'[a].platform = "huya" /\ step'[a] = "done"
            /\ Best(found'[a], room'[a].page)
<1>1. CASE room' = room
  BY <1>1
<1>2. ASSUME NEW page \in Pages,
             LET lines == InOrder(Offered(page))
                 i == FirstUsable(lines)
             IN
             /\ room' = [room EXCEPT ![a] = [platform |-> "huya", page |-> page]]
             /\ Settle(a, IF i = 0 THEN None
                          ELSE Stream([line |-> lines[i],
                                       ratio |-> IF page.payload = <<>> THEN {}
                                                 ELSE Ratio(page.rates, HUYA_MAX_RATIO)]))
      PROVE  room'[a].platform = "huya" /\ step'[a] = "done" /\ Best(found'[a], room'[a].page)
  <2> DEFINE lines == InOrder(Offered(page))
             i == FirstUsable(lines)
             q == IF page.payload = <<>> THEN {} ELSE Ratio(page.rates, HUYA_MAX_RATIO)
             f == IF i = 0 THEN None ELSE Stream([line |-> lines[i], ratio |-> q])
  <2>1. room'[a].platform = "huya" /\ room'[a].page = page
    BY <1>2 DEF RoomTypes
  <2>2. step'[a] = "done" /\ found'[a] = f
    BY <1>2 DEF RoomTypes, Settle, To
  <2>3. /\ i # 0 <=> Working(page) # {}
        /\ i # 0 => /\ lines[i] \in Working(page)
                    /\ \A m \in Working(page) : ~Before(m, lines[i])
    BY FirstIsBest
  <2>4. ASSUME NEW c \in q, NEW r \in page.rates, HUYA_MAX_RATIO > 0, r \in 1..HUYA_MAX_RATIO
        PROVE  c \in r..HUYA_MAX_RATIO
    BY <2>4, RatioIs, PageAssumption
  <2> HIDE DEF lines, i, q
  <2>5. CASE i = 0
    <3>1. ~f.ok
      BY <2>5 DEF None
    <3> QED
      BY <2>1, <2>2, <2>3, <2>5, <3>1 DEF Best
  <2>6. CASE i # 0
    <3>1. f.ok /\ f.stream.line = lines[i] /\ f.stream.ratio = q
      BY <2>6 DEF Stream
    <3> HIDE DEF f
    <3> QED
      BY <2>1, <2>2, <2>3, <2>4, <2>6, <3>1 DEF Best
  <2> QED
    BY <2>5, <2>6
<1> QED
  BY <1>1, <1>2 DEF HuyaPage

\* No other step of a resolution touches the page or what was found for it.
LEMMA HuyaInvStep == ASSUME HuyaInv, RoomStep \/ RoomCrash PROVE HuyaInv'
<1>1. ASSUME NEW S \in SUBSET Askers, Leave(S) PROVE HuyaInv'
  BY <1>1 DEF HuyaInv, RoomTypes, Leave, Blank, NoLoss
<1>2. ASSUME NEW a \in Askers, AskRoom(a) \/ Resolve(a) PROVE HuyaInv'
  <2> USE DEF HuyaInv, RoomTypes, To, Settle
  <2>0. RoomTypes'
    BY <1>2, RoomTypesStep
  <2>1. \A b \in Askers \ {a} :
          step'[b] = step[b] /\ room'[b] = room[b] /\ found'[b] = found[b]
    <3>1. CASE AskRoom(a)
      BY <3>1 DEF AskRoom
    <3>2. CASE HuyaPage(a)
      BY <3>2, HuyaShape
    <3>3. CASE DouyuPage(a) \/ AliasPage(a) \/ DouyinPage(a)
      BY <3>3 DEF DouyuPage, AliasPage, DouyinPage
    <3>4. CASE Preview(a)
      BY <3>4 DEF Preview, PreviewEnds, Retry
    <3> QED
      BY <1>2, <3>1, <3>2, <3>3, <3>4 DEF Resolve
  <2>2. room'[a].platform = "huya" =>
          step'[a] = "done" /\ Best(found'[a], room'[a].page)
    <3>1. step[a] # "done"
      BY <1>2 DEF AskRoom, Resolve, HuyaPage, DouyuPage, Preview, AliasPage, DouyinPage
    <3>2. room[a].platform # "huya"
      BY <3>1
    <3>3. CASE room'[a] = room[a]
      BY <3>2, <3>3
    <3>4. CASE AskRoom(a)
      BY <3>2, <3>4 DEF AskRoom
    <3>5. CASE HuyaPage(a)
      BY <3>3, <3>5, PageIsBest
    <3>6. CASE DouyuPage(a) \/ AliasPage(a) \/ DouyinPage(a) \/ Preview(a)
      BY <3>3, <3>6 DEF DouyuPage, AliasPage, DouyinPage, Preview
    <3> QED
      BY <1>2, <3>4, <3>5, <3>6 DEF Resolve
  <2> QED
    BY <2>0, <2>1, <2>2
<1> QED
  BY <1>1, <1>2 DEF RoomStep, RoomCrash, Answer

\* The best of the streams that work is taken.
THEOREM BestStreamHolds == AioSpec => []BestStream
<1>1. AioInit => HuyaInv
  BY RoomInvInit DEF AioInit, RoomInit, RoomInv, HuyaInv, Blank
<1>2. HuyaInv /\ [AioNext]_aioVars => HuyaInv'
  <2>1. [AioNext]_aioVars => RoomStep \/ RoomCrash \/ UNCHANGED roomVars
    BY DEF AioNext, ServeList, Logo, Playback, Prewarming, AioCrash, RoomStep, aioVars
  <2> QED
    BY <2>1, HuyaInvStep DEF roomVars, HuyaInv, RoomTypes
<1>3. HuyaInv => BestStream
  BY DEF HuyaInv, Best, Working, BestStream
<1> QED
  BY <1>1, <1>2, <1>3, PTL DEF AioSpec
=============================================================================
