--------------------------- MODULE AddressService ---------------------------
(***************************************************************************)
(* What the resolver of a platform promises to whoever asks for the        *)
(* address of a room, with no word about caches, flights or goroutines:    *)
(* every request is answered once, with an address (or the failure "")     *)
(* that was signed early enough and late enough for that request.          *)
(* Resolver implements it.                                                 *)
(***************************************************************************)
EXTENDS Naturals

CONSTANTS
  Clients,        \* whoever asks
  Rooms,
  GoodFor,       \* [Rooms -> Nat]: how long an address may be handed out
  FailGoodFor,   \* how long a failure may be handed out
  MaxTime

VARIABLES now, request, answer

vars == <<now, request, answer>>

None      == [phase |-> "none"]
Asked     == [phase : {"asked", "answered"}, room : Rooms, fresh : BOOLEAN,
              asked : 0..MaxTime]
NoAnswer  == [ok |-> FALSE, began |-> 0, at |-> 0]

\* The addresses a request may be answered with: signed by now, not outlived
\* when the request was made and, for a fresh request, not older than it.
Acceptable(q) ==
  {v \in [ok : BOOLEAN, began : 0..now, at : 0..now] :
     /\ v.began <= v.at
     /\ q.asked <= v.at + (IF v.ok THEN GoodFor[q.room] ELSE FailGoodFor)
     /\ q.fresh => v.at >= q.asked}

Ask(c) ==
  /\ request[c].phase = "none"
  /\ \E r \in Rooms, fresh \in BOOLEAN :
       request' = [request EXCEPT ![c] = [phase |-> "asked", room |-> r,
                                          fresh |-> fresh, asked |-> now]]
  /\ UNCHANGED <<now, answer>>

\* One address answers every request of a set: they share its fetch.
Answer(S) ==
  /\ S # {}
  /\ \A c \in S : request[c].phase = "asked"
  /\ \A c, d \in S : request[c].room = request[d].room
  /\ \E c \in S : \E v \in Acceptable(request[c]) :
       /\ \A d \in S : v \in Acceptable(request[d])
       /\ answer' = [d \in Clients |-> IF d \in S THEN v ELSE answer[d]]
  /\ request' = [d \in Clients |->
                   IF d \in S THEN [request[d] EXCEPT !.phase = "answered"]
                              ELSE request[d]]
  /\ UNCHANGED now

Finish(c) ==
  /\ request[c].phase = "answered"
  /\ request' = [request EXCEPT ![c] = None]
  /\ answer' = [answer EXCEPT ![c] = NoAnswer]
  /\ UNCHANGED now

Tick ==
  /\ now < MaxTime
  /\ now' = now + 1
  /\ UNCHANGED <<request, answer>>

Init ==
  /\ now = 0
  /\ request = [c \in Clients |-> None]
  /\ answer = [c \in Clients |-> NoAnswer]

Next ==
  \/ Tick
  \/ \E c \in Clients : Ask(c) \/ Finish(c)
  \/ \E S \in SUBSET Clients : Answer(S)

Serve(c) == Finish(c) \/ \E S \in SUBSET Clients : c \in S /\ Answer(S)

Spec == Init /\ [][Next]_vars /\ \A c \in Clients : WF_vars(Serve(c))
=============================================================================
