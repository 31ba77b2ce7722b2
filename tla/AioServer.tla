----------------------------- MODULE AioServer ------------------------------
(***************************************************************************)
(* The server of port 35455 (main.go): lists of channels, which start      *)
(* prewarming, logos and addresses of rooms, each request in a goroutine   *)
(* of its own, in one process that may end at any time.                    *)
(*                                                                         *)
(* /allinone.m3u does for one platform and then for the other what a list  *)
(* of one platform does for that one.  The cache and the flights before a  *)
(* resolution are those of Resolver and are left out here.                 *)
(***************************************************************************)
EXTENDS LogoCache, RoomPages, Prewarm

aioVars == <<logoVars, roomVars, prewarmVars>>

AioInit == LogoInit /\ RoomInit /\ PrewarmInit

ServeList ==
  /\ \E p \in Platforms, entries \in Catalogs : MaybePrewarm(p, entries)
  /\ UNCHANGED <<logoVars, roomVars>>

Logo ==
  /\ \E h \in Handlers : OpenLogo(h) \/ ServeLogo(h)
  /\ UNCHANGED <<roomVars, prewarmVars>>

Playback ==
  /\ \E a \in Askers : AskRoom(a) \/ Resolve(a) \/ Answer(a)
  /\ UNCHANGED <<logoVars, prewarmVars>>

Prewarming == (Pass \/ Minute) /\ UNCHANGED <<logoVars, roomVars>>

\* What is in memory is lost.
AioCrash == LogoCrash /\ RoomCrash /\ PrewarmCrash

AioNext == ServeList \/ Logo \/ Playback \/ Prewarming \/ AioCrash

\* Goroutines that can go on do: the platforms answer, or time out.
AioSpec ==
  /\ AioInit /\ [][AioNext]_aioVars
  /\ WF_aioVars(Pass /\ UNCHANGED <<logoVars, roomVars>>)
=============================================================================
