----------------------------- MODULE IptvBridge -----------------------------
(***************************************************************************)
(* The bridge with its probe: IptvPublish where the bridge that holds the  *)
(* lock goes through the lines of what it has read as IptvFilter does,     *)
(* while other bridges come and leave, iptv-api and the NAS script write,  *)
(* and the process may be killed in any round.                             *)
(***************************************************************************)
EXTENDS IptvPublish

CONSTANTS Size, Keys, Channel, Key, Limit, Workers

ASSUME FilterAssumption ==
  /\ Size \in Nat
  /\ {Limit, Workers} \subseteq Nat \ {0}
  /\ Channel \in [1..Size -> Channels]
  /\ Key \in [1..Size -> Keys]
  /\ IsFiniteSet(Channels)

VARIABLES
  probe,    \* pc of the filter
  entries, positions, successes, accepted, failures, batch, waiting, running, results

Filter == INSTANCE IptvFilter WITH pc <- probe

filterVars ==
  <<probe, entries, positions, successes, accepted, failures, batch, waiting, running, results>>

BridgeInit == Init /\ Filter!Init

\* filter_m3u with verify_streams and urls_per_channel > 0, as bridge_iptv.sh
\* calls it unless its environment turns one of them off
StartProbe(b) ==
  /\ pc[b] = "verify"
  /\ Filter!Start({i \in 1..Size : Channel[i] \in Candidates(text[b])})
  /\ UNCHANGED vars

Probe(b) == pc[b] = "verify" /\ Filter!Round /\ UNCHANGED vars

Passed == {Channel[i] : i \in accepted}

Judge(b) ==
  /\ pc[b] = "verify" /\ probe = "done"
  /\ Accept(b, Passed)
  /\ UNCHANGED filterVars

\* What the filter found is kept until the run is over.
BridgeNext ==
  \/ \E b \in Bridges :
       \/ StartProbe(b) \/ Probe(b) \/ Judge(b)
       \/ (Enter(b) \/ Read(b) \/ AfterProbe(b)) /\ UNCHANGED filterVars
       \/ (Exit(b) \/ Die(b)) /\ Filter!Reset
  \/ (Update \/ \E n \in Copies : Fetch(n) \/ CopyStep(n)) /\ UNCHANGED filterVars

BridgeSpec == BridgeInit /\ [][BridgeNext]_<<vars, filterVars>>

(***************************************************************************)
(* Properties                                                              *)
(***************************************************************************)
\* When the probe is over a channel has its share of lines, or has tried all
\* (verify_channel_candidates).
ShareOrExhausted == Filter!ShareOrExhausted

\* What a bridge is about to publish are the channels with a line that passed
\* in this very run; unprobed candidates only when every line of every
\* candidate was tried and failed, whatever other runs did meanwhile.
PublishedPassed ==
  \A b \in Bridges : pc[b] = "replace" =>
    \/ text[b] = Passed
    \/ accepted = {} /\ failures = Cardinality(entries)
=============================================================================
