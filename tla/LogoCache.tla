----------------------------- MODULE LogoCache ------------------------------
(***************************************************************************)
(* handleLogo of logo.go: channel logos are downloaded on first request,   *)
(* through a flight group, into files that are served from then on.        *)
(*                                                                         *)
(* A logo is named by its target path.  Each file operation, the download  *)
(* and each critical section of the flight group is a step; the process    *)
(* may end between any two of them and leaves the files as they are.       *)
(***************************************************************************)
EXTENDS FiniteSets, Functions

CONSTANTS Handlers, Logos

VARIABLES
  logo,       \* the file at each target
  calls,      \* logoFlights.m: the calls in the map, by target
  at,         \* where each handler stands
  target,     \* the logo it was asked for
  result      \* whether its flight went well ("" in the code)

logoVars == <<logo, calls, at, target, result>>

Stages == {"idle", "look", "do", "wait", "recheck", "source", "download",
           "write", "rename", "close", "forget", "check", "send"}

LogoTypeOK ==
  /\ logo \in [Logos -> {"absent", "part", "whole"}]
  /\ DOMAIN calls \subseteq Logos
  /\ calls \in [DOMAIN calls -> [leader : Handlers, done : BOOLEAN, ok : BOOLEAN]]
  /\ at \in [Handlers -> Stages]
  /\ target \in [Handlers -> Logos]
  /\ result \in [Handlers -> BOOLEAN]

LogoInit ==
  /\ logo = [l \in Logos |-> "absent"]
  /\ calls = <<>>
  /\ at = [h \in Handlers |-> "idle"]
  /\ target \in [Handlers -> Logos]
  /\ result = [h \in Handlers |-> FALSE]

Move(h, stage) == at' = [at EXCEPT ![h] = stage]

\* os.Stat: a regular file that is not empty.
Present(l) == logo[l] # "absent"

OpenLogo(h) ==
  /\ at[h] = "idle"
  /\ \E l \in Logos : target' = [target EXCEPT ![h] = l]
  /\ Move(h, "look")
  /\ UNCHANGED <<logo, calls, result>>

\* serveCachedLogo, before the flight and after it; the second time a missing
\* file is answered with 500.
Look(h) ==
  /\ at[h] \in {"look", "check"}
  /\ Move(h, IF Present(target[h]) THEN "send"
             ELSE IF at[h] = "look" THEN "do" ELSE "idle")
  /\ UNCHANGED <<logo, calls, target, result>>

Send(h) ==
  /\ at[h] = "send"
  /\ Move(h, "idle")
  /\ UNCHANGED <<logo, calls, target, result>>

(***************************************************************************)
(* stringFlightGroup.do                                                    *)
(***************************************************************************)
\* After the flight: another look at the file, or 502.
After(ok) == IF ok THEN "check" ELSE "idle"

Lead(h) ==
  /\ calls' = [l \in DOMAIN calls \cup {target[h]} |->
        IF l = target[h] THEN [leader |-> h, done |-> FALSE, ok |-> FALSE] ELSE calls[l]]
  /\ Move(h, "recheck")

Join(h) ==
  LET l == target[h] IN
  /\ at[h] = "do"
  /\ \/ l \notin DOMAIN calls /\ Lead(h)
     \/ /\ l \in DOMAIN calls
        /\ Move(h, IF calls[l].done THEN After(calls[l].ok) ELSE "wait")
        /\ UNCHANGED calls
  /\ UNCHANGED <<logo, target, result>>

\* close(call.done) wakes whoever waits.
Close(h) ==
  /\ at[h] = "close"
  /\ calls' = [calls EXCEPT ![target[h]].done = TRUE, ![target[h]].ok = result[h]]
  /\ at' = [k \in Handlers |->
        IF at[k] = "wait" /\ target[k] = target[h] THEN After(result[h])
        ELSE IF k = h THEN "forget" ELSE at[k]]
  /\ UNCHANGED <<logo, target, result>>

Forget(h) ==
  /\ at[h] = "forget"
  /\ calls' = Restrict(calls, DOMAIN calls \ {target[h]})
  /\ Move(h, After(result[h]))
  /\ result' = [result EXCEPT ![h] = FALSE]
  /\ UNCHANGED <<logo, target>>

(***************************************************************************)
(* What the leader does                                                    *)
(***************************************************************************)
End(h, ok) == Move(h, "close") /\ result' = [result EXCEPT ![h] = ok]

RecheckNothing(h) ==
  /\ at[h] = "recheck"
  /\ Move(h, "source") /\ UNCHANGED result
  /\ UNCHANGED <<logo, calls, target>>
Recheck(h) ==
  /\ at[h] = "recheck"
  /\ \/ Present(target[h]) /\ End(h, TRUE)
     \/ ~Present(target[h]) /\ Move(h, "source") /\ UNCHANGED result
  /\ UNCHANGED <<logo, calls, target>>

\* channelLogoSource and allowedLogoSource: the catalogue of this moment names
\* a source or none.  Then the response, its status, size and type.
Source(h) ==
  /\ at[h] = "source"
  /\ (Move(h, "download") /\ UNCHANGED result) \/ End(h, FALSE)
  /\ UNCHANGED <<logo, calls, target>>

Download(h) ==
  /\ at[h] = "download"
  /\ (Move(h, "write") /\ UNCHANGED result) \/ End(h, FALSE)
  /\ UNCHANGED <<logo, calls, target>>

\* CreateTemp, Chmod, Write and Close; an error removes the temporary file.
WriteInPlace(h) ==
  /\ at[h] = "write"
  /\ logo' = [logo EXCEPT ![target[h]] = "part"]
  /\ (Move(h, "rename") /\ UNCHANGED result) \/ End(h, FALSE)
  /\ UNCHANGED <<calls, target>>
Write(h) ==
  /\ at[h] = "write"
  /\ (Move(h, "rename") /\ UNCHANGED result) \/ End(h, FALSE)
  /\ UNCHANGED <<logo, calls, target>>

Rename(h) ==
  /\ at[h] = "rename"
  /\ \/ logo' = [logo EXCEPT ![target[h]] = "whole"] /\ End(h, TRUE)
     \/ UNCHANGED logo /\ End(h, FALSE)
  /\ UNCHANGED <<calls, target>>

\* The process ends; a temporary file that is left is never looked at.
LogoCrash ==
  /\ calls' = <<>>
  /\ at' = [h \in Handlers |-> "idle"]
  /\ result' = [h \in Handlers |-> FALSE]
  /\ UNCHANGED <<logo, target>>

ServeLogo(h) ==
  \/ Look(h) \/ Join(h) \/ Recheck(h) \/ Source(h) \/ Download(h) \/ Write(h)
  \/ Rename(h) \/ Close(h) \/ Forget(h) \/ Send(h)

(***************************************************************************)
(* Properties                                                              *)
(***************************************************************************)
\* A logo is downloaded by one request at a time and never again once it is
\* there, however requests overlap with the flight that fetches it.
NoSecondDownload ==
  \A h, k \in Handlers : at[h] = "download" =>
    /\ ~Present(target[h])
    /\ at[k] = "download" /\ target[k] = target[h] => k = h

\* Only whole files are sent, whatever downloads failed and whenever the
\* process ended, and who was told that the logo is there finds it there
\* ("logo cache unavailable" is never answered).
SentWhole == \A h \in Handlers : at[h] \in {"check", "send"} => logo[target[h]] = "whole"
=============================================================================
