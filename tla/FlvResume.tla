----------------------------- MODULE FlvResume ------------------------------
(***************************************************************************)
(* flvStreamWriter of proxy.go and the part of openAndServe that chains     *)
(* writers: one FLV stream sent to a player out of several CDN connections, *)
(* each with a time base of its own.  From the second connection on the     *)
(* writer drops tags up to a key frame and rewrites the timestamps.         *)
(*                                                                         *)
(* A tag is its kind and its 32-bit timestamp.  Only complete tags reach    *)
(* the player (pump), so a connection that breaks inside a tag is one that  *)
(* ends before it.                                                          *)
(***************************************************************************)
EXTENDS Naturals

CONSTANTS
  Modulus,          \* 2^32, the range of a timestamp (a smaller one for TLC)
  UpstreamTS,       \* the timestamps that CDN connections send
  MaxConnections,   \* bound on the connections of one session
  MaxTags           \* bound on the tags written per connection

ASSUME FlvAssumption ==
  /\ Modulus \in Nat /\ Modulus > 60
  /\ UpstreamTS \subseteq 0..(Modulus - 1)
  /\ {MaxConnections, MaxTags} \subseteq Nat

Config == {"script", "avcHeader", "aacHeader"}
Video  == {"avcHeader", "idr", "inter"}   \* "inter": any other video tag
Audio  == {"aacHeader", "audio"}
Kinds  == Config \cup Video \cup Audio
TS     == 0..(Modulus - 1)
Never  == Modulus                         \* no timestamp
NoTag  == [kind |-> "none", ts |-> 0]

VARIABLES
  state,        \* "connecting", "pumping" or "gone" (the player left)
  connections,  \* connections opened so far
  lastTS,       \* openAndServe: the timestamp the next connection resumes from
  writer,       \* the flvStreamWriter of the connection
  last,         \* the last tag written: its kind and original timestamp
  sent,         \* the last timestamp the player got, per medium, or Never
  regular       \* whether the media timestamps of this connection increase and
                \* fit in 32 bits with the offset (the last three are history)

vars == <<state, connections, lastTS, writer, last, sent, regular>>

Writers == [rewrite : BOOLEAN, baseTS : TS, offset : TS, offsetSet : BOOLEAN,
            seenIDR : BOOLEAN, lastVTS : TS, lastATS : TS, written : 0..MaxTags]

NewFLVStreamWriter(baseTS, rewrite) ==
  [rewrite |-> rewrite, baseTS |-> baseTS, offset |-> 0, offsetSet |-> FALSE,
   seenIDR |-> FALSE, lastVTS |-> 0, lastATS |-> 0, written |-> 0]

\* uint32 addition: the operands are below 2^32, so there is one carry at most.
Wrap(x) == IF x >= Modulus THEN x - Modulus ELSE x

\* On a resumed connection nothing is forwarded before a key frame, and no
\* stream configuration after it.
Forwarded(kind) ==
  \/ ~writer.rewrite
  \/ ~writer.seenIDR /\ kind = "idr"
  \/ writer.seenIDR /\ kind \notin Config

\* The offset, computed from the first tag forwarded and kept from then on.
FirstOffset(ts) ==
  LET resume == Wrap(writer.baseTS + 60)
      o      == IF resume > ts THEN resume - ts ELSE 0
      s      == Wrap(ts + o)
  IN  IF writer.baseTS # 0 /\ s <= writer.baseTS
        THEN Wrap(o + (writer.baseTS + 1 - s))
        ELSE o

OffsetMoving(ts) == FirstOffset(ts)
Offset(ts) == IF writer.offsetSet THEN writer.offset ELSE FirstOffset(ts)

\* A media timestamp never repeats or goes back with respect to the last one
\* of its medium on this connection; 0 stands for "none yet".
BumpNever(s, previous) == s
Bump(s, previous) ==
  IF previous # 0 /\ s <= previous THEN Wrap(previous + 1) ELSE s

Rewritten(kind, ts) ==
  LET s == Wrap(ts + Offset(ts))
  IN  IF kind \in Video THEN Bump(s, writer.lastVTS)
      ELSE IF kind \in Audio THEN Bump(s, writer.lastATS)
      ELSE s

\* openAndServe hands the first connection through and rewrites the others.
Connect ==
  /\ state = "connecting"
  /\ connections < MaxConnections
  /\ state' = "pumping"
  /\ connections' = connections + 1
  /\ writer' = NewFLVStreamWriter(lastTS, connections > 0)
  /\ last' = NoTag
  /\ regular' = TRUE
  /\ UNCHANGED <<lastTS, sent>>

\* One round of pump that forwards a tag; a tag that is not forwarded changes
\* nothing.
Pump(kind, ts) ==
  LET out == IF writer.rewrite THEN Rewritten(kind, ts) ELSE ts
      same == IF kind \in Video THEN writer.lastVTS ELSE writer.lastATS
  IN
  /\ state = "pumping"
  /\ writer.written < MaxTags
  /\ Forwarded(kind)
  /\ writer' = [writer EXCEPT
       !.offset    = IF writer.rewrite THEN Offset(ts) ELSE @,
       !.offsetSet = @ \/ writer.rewrite,
       !.seenIDR   = @ \/ writer.rewrite,
       !.lastVTS   = IF kind \in Video THEN out ELSE @,
       !.lastATS   = IF kind \in Audio THEN out ELSE @,
       !.written   = @ + 1]
  /\ last' = [kind |-> kind, ts |-> ts]
  /\ sent' = [sent EXCEPT !.video = IF kind \in Video THEN out ELSE @,
                          !.audio = IF kind \in Audio THEN out ELSE @]
  /\ regular' = (/\ regular
                 /\ ts + Offset(ts) < Modulus
                 /\ same # 0 => ts + Offset(ts) > same)
  /\ UNCHANGED <<state, connections, lastTS>>

\* The CDN ends the connection, possibly inside a tag: the next one resumes
\* from the last video timestamp, or from the last audio one.
DisconnectForgets ==
  /\ state = "pumping"
  /\ state' = "connecting"
  /\ lastTS' = writer.lastVTS
  /\ UNCHANGED <<connections, writer, last, sent, regular>>
Disconnect ==
  /\ state = "pumping"
  /\ state' = "connecting"
  /\ lastTS' = IF writer.lastVTS # 0 THEN writer.lastVTS
               ELSE IF writer.lastATS # 0 THEN writer.lastATS
               ELSE lastTS
  /\ UNCHANGED <<connections, writer, last, sent, regular>>

\* A write to the player fails: pump returns true and the session ends.
ClientGone ==
  /\ state = "pumping"
  /\ state' = "gone"
  /\ UNCHANGED <<connections, lastTS, writer, last, sent, regular>>

Init ==
  /\ state = "connecting"
  /\ connections = 0
  /\ lastTS = 0
  /\ writer = NewFLVStreamWriter(0, FALSE)
  /\ last = NoTag
  /\ sent = [video |-> Never, audio |-> Never]
  /\ regular = TRUE

Next ==
  \/ Connect
  \/ \E kind \in Kinds, ts \in UpstreamTS : Pump(kind, ts)
  \/ Disconnect
  \/ ClientGone

Spec == Init /\ [][Next]_vars

-----------------------------------------------------------------------------
(***************************************************************************)
(* Properties                                                              *)
(***************************************************************************)

\* Types, and the order in which a writer's flags are set: on a resumed
\* connection the key frame, the offset and the first write come together.
TypeOK ==
  /\ state \in {"connecting", "pumping", "gone"}
  /\ connections \in 0..MaxConnections
  /\ lastTS \in TS
  /\ writer \in Writers
  /\ last \in [kind : Kinds, ts : UpstreamTS] \cup {NoTag}
  /\ sent \in [video : TS \cup {Never}, audio : TS \cup {Never}]
  /\ regular \in BOOLEAN
  /\ writer.offsetSet = writer.seenIDR
  /\ writer.seenIDR = (writer.rewrite /\ writer.written > 0)

Wrote(kinds) ==
  writer'.written > writer.written /\ last'.kind \in kinds

\* From the first reconnection on, the player's video timestamps strictly
\* increase, across connections too, whatever the CDN sends: the decoder never
\* sees time stand still or go back (proxy.go:231-233).  The exception is the
\* end of the 32-bit range, and 0, which the code reads as "no timestamp yet".
VideoAdvances ==
  [][Wrote(Video) /\ writer.rewrite /\ sent.video \notin {Never, 0, Modulus - 1}
       => sent'.video > sent.video]_vars

\* Why VideoAdvances holds: the writer and openAndServe always know the last
\* video timestamp the player got, unless there is none or it is 0.
Anchored ==
  /\ connections = 0 => sent.video = Never /\ state # "pumping"
  /\ state = "connecting" /\ sent.video \notin {Never, 0} => lastTS = sent.video
  /\ state = "pumping" =>
       /\ ~writer.rewrite => \/ sent.video = Never /\ writer.lastVTS = 0
                            \/ sent.video = writer.lastVTS
       /\ writer.rewrite /\ writer.seenIDR => sent.video = writer.lastVTS
       /\ writer.rewrite /\ ~writer.seenIDR =>
            /\ writer.lastVTS = 0 /\ writer.lastATS = 0
            /\ lastTS = writer.baseTS
            /\ sent.video \notin {Never, 0} => sent.video = writer.baseTS

\* The same for audio, within a resumed connection.
AudioAdvancesInConnection ==
  [][Wrote(Audio) /\ writer.rewrite /\ writer.lastATS \notin {0, Modulus - 1}
       => sent'.audio > sent.audio]_vars

\* The timestamp the player got with the last tag.
Shown == IF last.kind \in Video THEN sent.video ELSE sent.audio

\* Sound and picture stay in step (proxy.go:349-351): as long as the media
\* timestamps of a resumed connection are regular, each tag is shifted exactly
\* as far as the one before it, whatever the interleaving of sound and picture.
InStep ==
  [][Wrote(Kinds) /\ writer.rewrite /\ writer.written > 0 /\ regular'
       => Shown' + last.ts = Shown + last'.ts]_vars

\* proxy.go:233 and :407 say that timestamps are rewritten to be monotonic
\* when a stream is resumed: so audio does not go back either, at least when
\* the sound that follows the first key frame is not older than that frame,
\* and neither the resumption nor a media timestamp is at the end of the range.
AudioAdvances ==
  [][Wrote(Audio) /\ writer.rewrite /\ regular'
     /\ writer.baseTS + 60 < Modulus
     /\ writer.written = 1 /\ last'.ts >= last.ts
     /\ sent.audio \notin {Never, 0, Modulus - 1}
       => sent'.audio > sent.audio]_vars
=============================================================================
