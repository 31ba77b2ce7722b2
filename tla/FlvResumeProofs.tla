-------------------------- MODULE FlvResumeProofs ---------------------------
(***************************************************************************)
(* The player's video timeline, for any number of connections and tags and *)
(* any timestamps the CDN sends.                                           *)
(***************************************************************************)
EXTENDS FlvResume, TLAPS

LEMMA WrapType ==
  ASSUME NEW x \in Nat, x < 2 * Modulus
  PROVE  Wrap(x) \in TS
  BY FlvAssumption DEF Wrap, TS

\* The first timestamp of a resumed connection lies beyond the point it resumes
\* from, also when the 60 ms step passes the end of the 32-bit range.
LEMMA FirstOffsetAdvances ==
  ASSUME NEW ts \in TS, writer.baseTS \in TS
  PROVE  /\ FirstOffset(ts) \in TS
         /\ writer.baseTS \notin {0, Modulus - 1} =>
              Wrap(ts + FirstOffset(ts)) > writer.baseTS
  <1> DEFINE b == writer.baseTS
             resume == Wrap(b + 60)
             o == IF resume > ts THEN resume - ts ELSE 0
             s == Wrap(ts + o)
  <1>1. Modulus \in Nat /\ Modulus > 60 /\ b \in Nat /\ b < Modulus
        /\ ts \in Nat /\ ts < Modulus
    BY FlvAssumption DEF TS
  <1>2. resume \in Nat /\ resume < Modulus
    BY <1>1 DEF Wrap
  <1> HIDE DEF resume
  <1>3. o \in Nat /\ o < Modulus
    BY <1>1, <1>2
  <1>4. s = ts + o /\ s \in Nat /\ s < Modulus
    BY <1>1, <1>2 DEF Wrap
  <1>5. FirstOffset(ts) = IF b # 0 /\ s <= b THEN Wrap(o + (b + 1 - s)) ELSE o
    BY DEF FirstOffset, resume
  <1>6. CASE b # 0 /\ s <= b
    <2>1. o + (b + 1 - s) = b + 1 - ts
      BY <1>1, <1>3, <1>4
    <2>2. b + 1 - ts \in Nat /\ b + 1 - ts <= Modulus
      BY <1>1, <1>3, <1>4, <1>6
    <2>3. FirstOffset(ts) = Wrap(b + 1 - ts)
      BY <1>5, <1>6, <2>1
    <2>4. FirstOffset(ts) \in TS
      BY <1>1, <2>2, <2>3 DEF Wrap, TS
    <2>5. b # Modulus - 1 => FirstOffset(ts) = b + 1 - ts
      BY <1>1, <1>6, <2>2, <2>3 DEF Wrap
    <2>6. b # Modulus - 1 => Wrap(ts + FirstOffset(ts)) = b + 1
      BY <1>1, <2>5 DEF Wrap
    <2> QED
      BY <1>1, <2>4, <2>6
  <1>7. CASE ~(b # 0 /\ s <= b)
    BY <1>1, <1>3, <1>4, <1>5, <1>7 DEF TS
  <1> QED
    BY <1>6, <1>7

LEMMA OffsetType ==
  ASSUME TypeOK, NEW ts \in UpstreamTS
  PROVE  Offset(ts) \in TS /\ ts \in TS
  <1>1. ts \in TS
    BY FlvAssumption DEF TS
  <1>2. writer.baseTS \in TS /\ writer.offset \in TS
    BY DEF TypeOK, Writers
  <1> QED
    BY <1>1, <1>2, FirstOffsetAdvances DEF Offset

LEMMA RewrittenType ==
  ASSUME TypeOK, NEW kind \in Kinds, NEW ts \in UpstreamTS
  PROVE  Rewritten(kind, ts) \in TS
  <1>1. Modulus \in Nat /\ Modulus > 60
    BY FlvAssumption
  <1>2. \A x \in TS : x \in Nat /\ x < Modulus
    BY <1>1 DEF TS
  <1>3. Wrap(ts + Offset(ts)) \in TS
    <2>1. ts + Offset(ts) \in Nat /\ ts + Offset(ts) < 2 * Modulus
      BY <1>1, <1>2, OffsetType
    <2> QED
      BY <2>1, WrapType
  <1>4. \A s \in TS, p \in TS : Bump(s, p) \in TS
    <2> SUFFICES ASSUME NEW s \in TS, NEW p \in TS PROVE Bump(s, p) \in TS
      OBVIOUS
    <2>1. p + 1 \in Nat /\ p + 1 < 2 * Modulus
      BY <1>1, <1>2
    <2>2. Wrap(p + 1) \in TS
      BY <2>1, WrapType
    <2> QED
      BY <2>2 DEF Bump
  <1>5. writer.lastVTS \in TS /\ writer.lastATS \in TS
    BY DEF TypeOK, Writers
  <1> QED
    BY <1>3, <1>4, <1>5 DEF Rewritten

LEMMA InitInv == Init => TypeOK /\ Anchored
  <1> SUFFICES ASSUME Init PROVE TypeOK /\ Anchored
    OBVIOUS
  <1>1. 0 \in TS /\ 0 \in 0..MaxConnections /\ 0 \in 0..MaxTags
    BY FlvAssumption DEF TS
  <1>2. TypeOK
    BY <1>1 DEF Init, TypeOK, Writers, NewFLVStreamWriter, NoTag, Never
  <1> QED
    BY <1>2 DEF Init, Anchored

LEMMA ConnectStep == TypeOK /\ Anchored /\ Connect => TypeOK' /\ Anchored'
  <1> SUFFICES ASSUME TypeOK, Anchored, Connect PROVE TypeOK' /\ Anchored'
    OBVIOUS
  <1>1. 0 \in TS /\ 0 \in 0..MaxTags /\ MaxConnections \in Nat
    BY FlvAssumption DEF TS
  <1>2. writer' = [rewrite |-> connections > 0, baseTS |-> lastTS, offset |-> 0,
                   offsetSet |-> FALSE, seenIDR |-> FALSE, lastVTS |-> 0,
                   lastATS |-> 0, written |-> 0]
    BY DEF Connect, NewFLVStreamWriter
  <1>3. lastTS \in TS /\ connections \in Nat /\ connections < MaxConnections
    BY <1>1 DEF Connect, TypeOK
  <1>4. /\ state' = "pumping" /\ connections' = connections + 1
        /\ last' = NoTag /\ regular' = TRUE /\ UNCHANGED <<lastTS, sent>>
    BY DEF Connect
  <1>5. TypeOK'
    <2>1. writer' \in Writers
      BY <1>1, <1>2, <1>3 DEF Writers
    <2>2. /\ writer'.offsetSet = writer'.seenIDR
          /\ writer'.seenIDR = (writer'.rewrite /\ writer'.written > 0)
      <3>1. /\ writer'.offsetSet = FALSE /\ writer'.seenIDR = FALSE
            /\ writer'.written = 0
        BY <1>2
      <3>2. ~(writer'.written > 0)
        BY <3>1
      <3> QED
        BY <3>1, <3>2
    <2>3. connections' \in 0..MaxConnections
      BY <1>1, <1>3, <1>4
    <2> QED
      BY <1>4, <2>1, <2>2, <2>3 DEF TypeOK
  <1>6. Anchored'
    <2>1. connections' # 0
      BY <1>3, <1>4
    <2>2. connections = 0 => sent.video = Never
      BY DEF Anchored
    <2>3. connections # 0 => connections > 0
      BY <1>3
    <2>4. sent.video \notin {Never, 0} => lastTS = sent.video
      BY DEF Connect, Anchored
    <2> QED
      BY <1>2, <1>4, <2>1, <2>2, <2>3, <2>4 DEF Anchored
  <1> QED
    BY <1>5, <1>6

LEMMA PumpStep ==
  ASSUME TypeOK, Anchored, NEW kind \in Kinds, NEW ts \in UpstreamTS, Pump(kind, ts)
  PROVE  TypeOK' /\ Anchored'
  <1> DEFINE out == IF writer.rewrite THEN Rewritten(kind, ts) ELSE ts
  <1>1. /\ state = "pumping" /\ writer.written < MaxTags /\ Forwarded(kind)
        /\ writer' = [writer EXCEPT
             !.offset    = IF writer.rewrite THEN Offset(ts) ELSE @,
             !.offsetSet = @ \/ writer.rewrite,
             !.seenIDR   = @ \/ writer.rewrite,
             !.lastVTS   = IF kind \in Video THEN out ELSE @,
             !.lastATS   = IF kind \in Audio THEN out ELSE @,
             !.written   = @ + 1]
        /\ last' = [kind |-> kind, ts |-> ts]
        /\ sent' = [sent EXCEPT !.video = IF kind \in Video THEN out ELSE @,
                                !.audio = IF kind \in Audio THEN out ELSE @]
        /\ UNCHANGED <<state, connections, lastTS>>
    BY DEF Pump
  <1>2. out \in TS
    BY OffsetType, RewrittenType
  <1> HIDE DEF out
  <1>3. writer \in Writers /\ sent \in [video : TS \cup {Never}, audio : TS \cup {Never}]
    BY DEF TypeOK
  <1>4. Offset(ts) \in TS /\ MaxTags \in Nat
    BY OffsetType, FlvAssumption
  <1>5. writer.written + 1 \in 0..MaxTags /\ writer.written + 1 > 0
    BY <1>1, <1>3, <1>4 DEF Writers
  <1>6. writer' \in Writers
    BY <1>1, <1>2, <1>3, <1>4, <1>5 DEF Writers
  <1>7. /\ writer'.rewrite = writer.rewrite /\ writer'.baseTS = writer.baseTS
        /\ writer'.seenIDR = (writer.seenIDR \/ writer.rewrite)
        /\ writer'.offsetSet = (writer.offsetSet \/ writer.rewrite)
        /\ writer'.written = writer.written + 1
        /\ writer'.lastVTS = IF kind \in Video THEN out ELSE writer.lastVTS
        /\ sent'.video = IF kind \in Video THEN out ELSE sent.video
    BY <1>1, <1>3 DEF Writers
  <1>8. TypeOK'
    <2>1. regular' \in BOOLEAN
      BY DEF Pump
    <2>2. sent' \in [video : TS \cup {Never}, audio : TS \cup {Never}]
      BY <1>1, <1>2, <1>3
    <2>3. writer'.offsetSet = writer'.seenIDR
          /\ writer'.seenIDR = (writer'.rewrite /\ writer'.written > 0)
      BY <1>3, <1>5, <1>7 DEF TypeOK, Writers
    <2> QED
      BY <1>1, <1>6, <2>1, <2>2, <2>3 DEF TypeOK
  <1>9. Anchored'
    <2>1. CASE ~writer.rewrite
      BY <1>1, <1>7, <2>1 DEF Anchored
    <2>2. CASE writer.rewrite /\ writer.seenIDR
      BY <1>1, <1>7, <2>2 DEF Anchored
    <2>3. CASE writer.rewrite /\ ~writer.seenIDR
      <3>1. kind = "idr"
        BY <1>1, <2>3 DEF Forwarded
      <3>2. kind \in Video
        BY <3>1 DEF Video
      <3> QED
        BY <1>1, <1>7, <2>3, <3>2 DEF Anchored
    <2>4. writer.rewrite \in BOOLEAN /\ writer.seenIDR \in BOOLEAN
      BY <1>3 DEF Writers
    <2> QED
      BY <2>1, <2>2, <2>3, <2>4
  <1> QED
    BY <1>8, <1>9

LEMMA DisconnectStep == TypeOK /\ Anchored /\ Disconnect => TypeOK' /\ Anchored'
  <1> SUFFICES ASSUME TypeOK, Anchored, Disconnect PROVE TypeOK' /\ Anchored'
    OBVIOUS
  <1>1. /\ state = "pumping" /\ state' = "connecting"
        /\ lastTS' = IF writer.lastVTS # 0 THEN writer.lastVTS
                     ELSE IF writer.lastATS # 0 THEN writer.lastATS ELSE lastTS
        /\ UNCHANGED <<connections, writer, last, sent, regular>>
    BY DEF Disconnect
  <1>2. writer.lastVTS \in TS /\ writer.lastATS \in TS /\ lastTS \in TS
        /\ writer.rewrite \in BOOLEAN /\ writer.seenIDR \in BOOLEAN
    BY DEF TypeOK, Writers
  <1>3. TypeOK'
    BY <1>1, <1>2 DEF TypeOK
  <1>4. Anchored'
    BY <1>1, <1>2 DEF Anchored
  <1> QED
    BY <1>3, <1>4

LEMMA NextStep ==
  TypeOK /\ Anchored /\ [Next]_vars => TypeOK' /\ Anchored'
  <1> SUFFICES ASSUME TypeOK, Anchored, [Next]_vars PROVE TypeOK' /\ Anchored'
    OBVIOUS
  <1>1. CASE ClientGone
    BY <1>1 DEF ClientGone, TypeOK, Anchored
  <1>2. CASE UNCHANGED vars
    BY <1>2 DEF vars, TypeOK, Anchored
  <1> QED
    BY <1>1, <1>2, ConnectStep, PumpStep, DisconnectStep DEF Next

\* The writer's state has the declared types, and its flags are set together
\* (flvStreamWriter.pump).
THEOREM TypeCorrect == Spec => []TypeOK
  BY InitInv, NextStep, PTL DEF Spec

\* The writer always resumes from what the player last saw (openAndServe).
THEOREM AlwaysAnchored == Spec => []Anchored
  BY InitInv, NextStep, PTL DEF Spec

\* The player's video timestamps increase from the first reconnection on,
\* whatever the CDN connections send (flvStreamWriter.pump, openAndServe).
THEOREM VideoNeverGoesBack == Spec => VideoAdvances
  <1> DEFINE Advances ==
        Wrote(Video) /\ writer.rewrite /\ sent.video \notin {Never, 0, Modulus - 1}
          => sent'.video > sent.video
  <1>1. ASSUME TypeOK, Anchored, [Next]_vars
        PROVE  Advances
    <2> SUFFICES ASSUME Wrote(Video), writer.rewrite,
                        sent.video \notin {Never, 0, Modulus - 1}
                 PROVE  sent'.video > sent.video
      OBVIOUS
    <2>1. writer'.written > writer.written /\ last'.kind \in Video
      BY DEF Wrote
    <2>2. writer \in Writers /\ writer.written \in Nat
      BY <1>1, FlvAssumption DEF TypeOK, Writers
    <2>3. ~Disconnect /\ ~ClientGone /\ ~UNCHANGED vars
      BY <2>1, <2>2 DEF Disconnect, ClientGone, vars
    <2>4. ~Connect
      BY <2>1, <2>2 DEF Connect, NewFLVStreamWriter
    <2>5. PICK kind \in Kinds, ts \in UpstreamTS : Pump(kind, ts)
      BY <1>1, <2>3, <2>4 DEF Next
    <2>6. kind \in Video
      BY <2>1, <2>5 DEF Pump
    <2>7. sent \in [video : TS \cup {Never}, audio : TS \cup {Never}]
      BY <1>1 DEF TypeOK
    <2>8. sent'.video = Rewritten(kind, ts)
      BY <2>5, <2>6, <2>7 DEF Pump
    <2>9. Rewritten(kind, ts) = Bump(Wrap(ts + Offset(ts)), writer.lastVTS)
      BY <2>6 DEF Rewritten
    <2>10. sent.video \in TS /\ sent.video # 0 /\ sent.video # Modulus - 1
           /\ Modulus \in Nat
      BY <2>7, FlvAssumption
    <2>11. state = "pumping" /\ Forwarded(kind) /\ ts \in TS
      BY <1>1, <2>5, OffsetType DEF Pump
    <2>12. CASE writer.seenIDR
      <3>1. sent.video = writer.lastVTS
        BY <1>1, <2>11, <2>12 DEF Anchored
      <3>2. Wrap(sent.video + 1) = sent.video + 1
        BY <2>10 DEF Wrap, TS
      <3>3. Wrap(ts + Offset(ts)) \in TS
        <4>1. ts \in Nat /\ ts < Modulus /\ Offset(ts) \in Nat /\ Offset(ts) < Modulus
          BY <1>1, <2>10, <2>11, OffsetType DEF TS
        <4> QED
          BY <2>10, <4>1, WrapType
      <3> QED
        BY <2>8, <2>9, <2>10, <3>1, <3>2, <3>3 DEF Bump, TS
    <2>13. CASE ~writer.seenIDR
      <3>1. sent.video = writer.baseTS /\ writer.lastVTS = 0
        BY <1>1, <2>10, <2>11, <2>13 DEF Anchored
      <3>2. Offset(ts) = FirstOffset(ts)
        BY <1>1, <2>13 DEF Offset, TypeOK
      <3>3. Wrap(ts + FirstOffset(ts)) > writer.baseTS
        BY <2>10, <2>11, <3>1, FirstOffsetAdvances
      <3> QED
        BY <2>8, <2>9, <3>1, <3>2, <3>3 DEF Bump
    <2> QED
      BY <2>2, <2>12, <2>13 DEF Writers
  <1>2. TypeOK /\ Anchored /\ [Next]_vars => [Advances]_vars
    BY <1>1
  <1> QED
    BY <1>2, TypeCorrect, AlwaysAnchored, PTL DEF Spec, VideoAdvances

(***************************************************************************)
(* Sound and picture                                                       *)
(***************************************************************************)
\* A regular connection has shifted the last tag by the writer's offset, and
\* the writer knows the last sound of its connection.
Aligned ==
  state = "pumping" /\ writer.rewrite =>
    /\ writer.lastATS # 0 => sent.audio = writer.lastATS
    /\ writer.written > 0 /\ regular => Shown = last.ts + writer.offset

\* What the player gets when a resumed connection forwards a tag.
LEMMA Forwarding ==
  ASSUME TypeOK, NEW kind \in Kinds, NEW ts \in UpstreamTS, Pump(kind, ts), writer.rewrite
  PROVE  /\ kind \in {"idr", "inter", "audio"}
         /\ Shown' = Rewritten(kind, ts) /\ last'.ts = ts /\ last'.kind = kind
         /\ writer'.offset = Offset(ts) /\ writer'.offsetSet /\ writer'.rewrite
         /\ kind = "audio" => writer'.lastATS = Rewritten(kind, ts) /\ sent'.audio = Rewritten(kind, ts)
         /\ kind # "audio" => writer'.lastATS = writer.lastATS /\ sent'.audio = sent.audio
         /\ writer'.written = writer.written + 1
         /\ regular' => regular /\ Rewritten(kind, ts) = ts + Offset(ts)
  <1>1. kind \in {"idr", "inter", "audio"}
    BY DEF Pump, Forwarded, Kinds, Video, Audio, Config
  <1>2. writer \in Writers /\ sent \in [video : TS \cup {Never}, audio : TS \cup {Never}]
    BY DEF TypeOK
  <1>3. /\ last' = [kind |-> kind, ts |-> ts]
        /\ writer' = [writer EXCEPT
             !.offset = Offset(ts), !.offsetSet = TRUE, !.seenIDR = TRUE,
             !.lastVTS = IF kind \in Video THEN Rewritten(kind, ts) ELSE @,
             !.lastATS = IF kind \in Audio THEN Rewritten(kind, ts) ELSE @,
             !.written = @ + 1]
        /\ sent' = [sent EXCEPT
             !.video = IF kind \in Video THEN Rewritten(kind, ts) ELSE @,
             !.audio = IF kind \in Audio THEN Rewritten(kind, ts) ELSE @]
    BY <1>2 DEF Pump, Writers
  <1>4. kind \in Video <=> kind # "audio"
    BY <1>1 DEF Video
  <1>5. kind \in Audio <=> kind = "audio"
    BY <1>1 DEF Audio
  <1>6. Shown' = Rewritten(kind, ts)
    BY <1>2, <1>3, <1>4, <1>5 DEF Shown
  <1>7. ASSUME regular'
        PROVE  regular /\ Rewritten(kind, ts) = ts + Offset(ts)
    <2> DEFINE same == IF kind \in Video THEN writer.lastVTS ELSE writer.lastATS
    <2>1. regular /\ ts + Offset(ts) < Modulus /\ (same # 0 => ts + Offset(ts) > same)
      BY <1>7 DEF Pump
    <2>2. ts + Offset(ts) \in Nat /\ same \in Nat /\ Modulus \in Nat
      BY <1>2, OffsetType, FlvAssumption DEF TS, Writers
    <2>3. Wrap(ts + Offset(ts)) = ts + Offset(ts)
      BY <2>1, <2>2 DEF Wrap
    <2>4. Rewritten(kind, ts) = Bump(Wrap(ts + Offset(ts)), same)
      BY <1>4, <1>5 DEF Rewritten
    <2> HIDE DEF same
    <2> QED
      BY <2>1, <2>2, <2>3, <2>4 DEF Bump
  <1> QED
    BY <1>1, <1>2, <1>3, <1>4, <1>5, <1>6, <1>7 DEF Writers

LEMMA AlignedInit == Init => Aligned
  BY DEF Init, Aligned

LEMMA AlignedStep == TypeOK /\ Aligned /\ [Next]_vars => Aligned'
  <1> SUFFICES ASSUME TypeOK, Aligned, [Next]_vars PROVE Aligned'
    OBVIOUS
  <1>1. CASE Connect
    BY <1>1 DEF Connect, NewFLVStreamWriter, Aligned
  <1>2. CASE Disconnect \/ ClientGone
    BY <1>2 DEF Disconnect, ClientGone, Aligned
  <1>3. ASSUME NEW kind \in Kinds, NEW ts \in UpstreamTS, Pump(kind, ts) PROVE Aligned'
    <2>1. state' = state /\ state = "pumping" /\ writer'.rewrite = writer.rewrite
      BY <1>3 DEF Pump, TypeOK, Writers
    <2>2. CASE writer.rewrite
      BY <1>3, <2>1, <2>2, Forwarding DEF Aligned
    <2> QED
      BY <2>1, <2>2 DEF Aligned
  <1>4. CASE UNCHANGED vars
    BY <1>4 DEF vars, Aligned, Shown
  <1> QED
    BY <1>1, <1>2, <1>3, <1>4 DEF Next

LEMMA AlwaysAligned == Spec => [](TypeOK /\ Aligned)
  BY InitInv, AlignedInit, AlignedStep, TypeCorrect, PTL DEF Spec

\* A step that writes is a round of pump.
LEMMA WritingPumps ==
  ASSUME TypeOK, [Next]_vars, writer'.written > writer.written
  PROVE  \E kind \in Kinds, ts \in UpstreamTS : Pump(kind, ts)
  <1>1. writer.written \in Nat
    BY FlvAssumption DEF TypeOK, Writers
  <1>2. ~Disconnect /\ ~ClientGone /\ ~UNCHANGED vars /\ ~Connect
    BY <1>1 DEF Disconnect, ClientGone, vars, Connect, NewFLVStreamWriter
  <1> QED
    BY <1>2 DEF Next

\* Sound and picture are shifted by the same amount throughout a resumed
\* connection (flvStreamWriter.pump).
THEOREM StaysInStep == Spec => InStep
  <1> DEFINE Steady ==
        Wrote(Kinds) /\ writer.rewrite /\ writer.written > 0 /\ regular'
          => Shown' + last.ts = Shown + last'.ts
  <1>1. ASSUME TypeOK, Aligned, [Next]_vars, Wrote(Kinds), writer.rewrite,
               writer.written > 0, regular'
        PROVE  Shown' + last.ts = Shown + last'.ts
    <2>1. PICK kind \in Kinds, ts \in UpstreamTS : Pump(kind, ts)
      BY <1>1, WritingPumps DEF Wrote
    <2>2. writer.offsetSet /\ state = "pumping"
      BY <1>1, <2>1 DEF TypeOK, Pump
    <2>3. Offset(ts) = writer.offset
      BY <2>2 DEF Offset
    <2>4. regular /\ Shown' = ts + writer.offset /\ last'.ts = ts
      BY <1>1, <2>1, <2>3, Forwarding
    <2>5. Shown = last.ts + writer.offset
      BY <1>1, <2>2, <2>4 DEF Aligned
    <2>6. ts \in Nat /\ writer.offset \in Nat /\ last.ts \in Nat
      <3>1. ts \in TS /\ writer.offset \in TS
        BY <1>1, OffsetType DEF TypeOK, Writers
      <3>2. last.ts \in UpstreamTS \cup {0}
        BY <1>1 DEF TypeOK, NoTag
      <3>3. Modulus \in Nat /\ \A x \in UpstreamTS : x \in TS
        BY FlvAssumption DEF TS
      <3>4. \A x \in TS : x \in Nat
        BY <3>3 DEF TS
      <3>5. last.ts \in TS \/ last.ts = 0
        BY <3>2, <3>3
      <3> QED
        BY <3>1, <3>4, <3>5
    <2> QED
      BY <2>4, <2>5, <2>6
  <1>2. TypeOK /\ Aligned /\ [Next]_vars => [Steady]_vars
    BY <1>1
  <1> QED
    BY <1>2, AlwaysAligned, PTL DEF Spec, InStep

\* On a resumed connection sound never repeats or goes back, whatever the CDN
\* sends (flvStreamWriter.pump).
THEOREM AudioKeepsAdvancing == Spec => AudioAdvancesInConnection
  <1> DEFINE Advances ==
        Wrote(Audio) /\ writer.rewrite /\ writer.lastATS \notin {0, Modulus - 1}
          => sent'.audio > sent.audio
  <1>1. ASSUME TypeOK, Aligned, [Next]_vars, Wrote(Audio), writer.rewrite,
               writer.lastATS \notin {0, Modulus - 1}
        PROVE  sent'.audio > sent.audio
    <2>1. PICK kind \in Kinds, ts \in UpstreamTS : Pump(kind, ts)
      BY <1>1, WritingPumps DEF Wrote
    <2>2. kind = "audio" /\ sent'.audio = Rewritten(kind, ts)
      <3>1. kind \in {"idr", "inter", "audio"} /\ kind \in Audio
        BY <1>1, <2>1, Forwarding DEF Wrote
      <3>2. kind = "audio"
        BY <3>1 DEF Audio
      <3> QED
        BY <1>1, <2>1, <3>2, Forwarding
    <2>3. sent.audio = writer.lastATS
      BY <1>1, <2>1 DEF Aligned, Pump
    <2>4. Rewritten(kind, ts) = Bump(Wrap(ts + Offset(ts)), writer.lastATS)
      BY <2>2 DEF Rewritten, Video, Audio
    <2>5. /\ writer.lastATS \in Nat /\ writer.lastATS < Modulus - 1 /\ writer.lastATS # 0
          /\ Modulus \in Nat
      BY <1>1, FlvAssumption DEF TypeOK, Writers, TS
    <2>6. Wrap(ts + Offset(ts)) \in Nat
      <3>1. ts \in Nat /\ ts < Modulus /\ Offset(ts) \in Nat /\ Offset(ts) < Modulus
        BY <1>1, <2>5, OffsetType DEF TS
      <3> QED
        BY <2>5, <3>1 DEF Wrap
    <2>7. Wrap(writer.lastATS + 1) = writer.lastATS + 1
      BY <2>5 DEF Wrap
    <2> QED
      BY <2>2, <2>3, <2>4, <2>5, <2>6, <2>7 DEF Bump
  <1>2. TypeOK /\ Aligned /\ [Next]_vars => [Advances]_vars
    BY <1>1
  <1> QED
    BY <1>2, AlwaysAligned, PTL DEF Spec, AudioAdvancesInConnection
=============================================================================
