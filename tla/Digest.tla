-------------------------------- MODULE Digest --------------------------------
(***************************************************************************)
(* The daily digest (src/server/digest.ts): a timer for the next local     *)
(* occurrence of an hour, which summarises the twenty-four hours before it *)
(* fires and arms itself again, and its start and stop by the backend      *)
(* (startPoller in src/server/backend.ts).                                 *)
(*                                                                         *)
(* Time counts hours from the first midnight.  A day has as many hours as  *)
(* Lengths says: one more where the clocks go back (the hour with label 1  *)
(* comes twice), one less where they go forward (label 1 is missing).      *)
(***************************************************************************)
EXTENDS Integers, Sequences, FiniteSetsExt

CONSTANTS
  DayHours,   \* hours of an ordinary day and of the window of a digest
  Lengths,    \* the hours of each day, a sequence
  DigestHours,\* what hourLocal may be
  MaxFaults   \* bound: how often something goes wrong
ASSUME DigestAssumption ==
  /\ DayHours \in Nat \ 0 .. 2
  /\ Lengths \in Seq(DayHours - 1 .. DayHours + 1) /\ Len(Lengths) > 1
  /\ DigestHours \subseteq 0 .. DayHours - 1 /\ DigestHours # {}

VARIABLES
  hour,        \* the instant
  digestConfig,\* [enabled, hourLocal] as the running configuration has it
  digestTimer, \* the instant it is armed for, or Unarmed
  digests,     \* the instants of the digests that were sent
  upset,       \* days on which something went wrong (history)
  faults       \* how often
digestVars == <<hour, digestConfig, digestTimer, digests, upset, faults>>

Unarmed == -1
Midnight[d \in 1 .. Len(Lengths) + 1] ==
  IF d = 1 THEN 0 ELSE Midnight[d - 1] + Lengths[d - 1]
InDay(t, d) == Midnight[d] <= t /\ t < Midnight[d + 1]
DayOf(t)    == CHOOSE d \in DOMAIN Lengths : InDay(t, d)
HourLabel(t)  ==
  LET offset == t - Midnight[DayOf(t)]
      shift  == Lengths[DayOf(t)] - DayHours
  IN IF offset > 1 \/ (offset = 1 /\ shift < 0) THEN offset - shift ELSE offset

\* setHours(h): the first such hour of the day, or the next one if it is missing.
FirstHour(d, h) == Min({t \in Midnight[d] .. Midnight[d + 1] - 1 : HourLabel(t) >= h})

\* Variant (not the code): tomorrow's digest comes a day's hours after today's.
NextDigestByInterval(now, h) ==
  LET today == FirstHour(DayOf(now), h)
  IN IF today > now THEN today ELSE today + DayHours

\* The next occurrence, strictly in the future.
NextDigest(now, h) ==
  LET today == FirstHour(DayOf(now), h)
  IN IF today > now THEN today ELSE FirstHour(DayOf(now) + 1, h)

Window(t) == t - DayHours + 1 .. t

DigestInit ==
  /\ hour = 0
  /\ digestConfig = [enabled |-> TRUE, hourLocal |-> Min(DigestHours)]
  /\ digestTimer = NextDigest(0, Min(DigestHours))
  /\ digests = {}
  /\ upset = {1}
  /\ faults = 0

Faulty(days) == faults < MaxFaults /\ faults' = faults + 1 /\ upset' = upset \cup days

\* An hour passes while nothing is due; without a timer the day has no digest.
HourPasses ==
  /\ DayOf(hour) < Len(Lengths) - 1
  /\ digestTimer # hour
  /\ hour' = hour + 1
  /\ upset' = IF digestTimer = Unarmed THEN upset \cup {DayOf(hour)} ELSE upset
  /\ UNCHANGED <<digestConfig, digestTimer, digests, faults>>

\* The host sleeps past the due hour.
TimerIsLate ==
  /\ DayOf(hour) < Len(Lengths) - 1
  /\ digestTimer = hour
  /\ hour' = hour + 1
  /\ digestTimer' = hour'
  /\ Faulty({DayOf(hour), DayOf(hour + 1)})
  /\ UNCHANGED <<digestConfig, digests>>

\* Gather, compose and send; the chain goes on also when sending fails.
DigestFires ==
  /\ digestTimer = hour
  /\ digestTimer' = NextDigest(hour, digestConfig.hourLocal)
  /\ \/ digests' = digests \cup {hour} /\ UNCHANGED <<upset, faults>>
     \/ UNCHANGED digests /\ Faulty({DayOf(hour)})
  /\ UNCHANGED <<hour, digestConfig>>

DigestStart ==
  /\ digestTimer = Unarmed
  /\ digestConfig.enabled
  /\ digestTimer' = NextDigest(hour, digestConfig.hourLocal)
  /\ upset' = upset \cup {DayOf(hour)}
  /\ UNCHANGED <<hour, digestConfig, digests, faults>>

DigestStop ==
  /\ digestTimer # Unarmed
  /\ digestTimer' = Unarmed
  /\ Faulty({DayOf(hour)})
  /\ UNCHANGED <<hour, digestConfig, digests>>

\* The operator edits the file and some request makes the process read it: the timer
\* that is armed stays, and enabled is only looked at by DigestStart.
DigestReconfigured ==
  /\ \E enabled \in BOOLEAN, h \in DigestHours :
       digestConfig' = [enabled |-> enabled, hourLocal |-> h]
  /\ Faulty({DayOf(hour), DayOf(hour) + 1})
  /\ UNCHANGED <<hour, digestTimer, digests>>

DigestNext ==
  HourPasses \/ TimerIsLate \/ DigestFires \/ DigestStart \/ DigestStop \/ DigestReconfigured

DigestSpec == DigestInit /\ [][DigestNext]_digestVars

\* A day on which nothing went wrong has exactly one digest, at the configured local
\* hour, also where the clocks change; and between two such days of ordinary length
\* every hour is in the window of a digest ("no 24h-interval drift across DST").
DigestIsDaily ==
  \A d \in 1 .. DayOf(hour) : d \notin upset /\ Midnight[d + 1] <= hour =>
    LET ofDay(e) == {t \in digests : DayOf(t) = e}
    IN /\ ofDay(d) = {FirstHour(d, digestConfig.hourLocal)} \/ faults > 0
       /\ \E t \in ofDay(d) : ofDay(d) = {t} /\ \E h \in DigestHours : t = FirstHour(d, h)
       /\ d - 1 \notin upset /\ d > 1 =>
            LET from == CHOOSE t \in ofDay(d - 1) : TRUE
                to   == CHOOSE t \in ofDay(d) : TRUE
            IN to - from = DayHours => \A t \in from .. to : \E s \in digests : t \in Window(s)
=============================================================================
