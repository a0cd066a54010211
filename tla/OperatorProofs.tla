----------------------------- MODULE OperatorProofs -----------------------------
(***************************************************************************)
(* What people change through the tool: the routes of the runners, the     *)
(* configuration file, and pull requests.                                  *)
(***************************************************************************)
EXTENDS RunnerRouting, Settings, Actions, FiniteSetTheorems, TLAPS

(***************************************************************************)
(* For every set of maps, whether deleteVar hides its errors or not and    *)
(* whether the process restarts or not: at most one gh call is out, and,   *)
(* as long as a call reported as failed had no effect, the hash the        *)
(* controller remembers is that of the variable GitHub holds.              *)
(***************************************************************************)
\* inFlight stands for a call that was started and is not handled yet.
LatchOwned == inFlight <=> ghCalls # {}

\* A call that succeeded left its map behind; until one does, the hash
\* is that of the variable, also while a call is out.
HashAgrees ==
  /\ \A c \in ghCalls : c.outcome = "ok" => variable = c.map
  /\ (\A c \in ghCalls : c.outcome # "ok")
       => (lastPushedHash # Unknown => variable = lastPushedHash)

RoutingInv == RoutingTyped /\ SingleInFlight /\ LatchOwned /\ HashAgrees

LEMMA RoutingStart == RoutingInit => RoutingInv
  BY RoutingAssumption DEF RoutingInit, RoutingInv, RoutingTyped, SingleInFlight, LatchOwned, HashAgrees

LEMMA RoutingStep ==
  ASSUME RoutingInv, [RoutingNext]_routingVars, ~Ambiguous
  PROVE  RoutingInv'
<1> USE RoutingAssumption DEF RoutingInv
<1>1. CASE SetEnabled
  BY <1>1 DEF SetEnabled, state, RoutingTyped, SingleInFlight, LatchOwned, HashAgrees
<1>2. CASE PlanChanges
  BY <1>2 DEF PlanChanges, state, RoutingTyped, SingleInFlight, LatchOwned, HashAgrees
<1>3. CASE Tick
  <2>1. ghCalls = {}
    BY <1>3 DEF Tick, LatchOwned
  <2>2. variable' = variable /\ lastPushedHash' = lastPushedHash
    BY <1>3 DEF Tick, TickDisabled, TickEnabled
  <2>3. UNCHANGED <<enabled, plan, cooling>> /\ deletedOnce' \in BOOLEAN
    BY <1>3 DEF Tick, TickDisabled, TickEnabled, config, RoutingTyped
  <2>4. CASE UNCHANGED <<ghCalls, inFlight>>
    BY <2>1, <2>2, <2>3, <2>4 DEF RoutingTyped, SingleInFlight, LatchOwned, HashAgrees
  <2>5. CASE \E c \in [op : {"write"}, map : Maps, outcome : {"pending"}]
                     \cup [op : {"delete"}, map : {Absent}, outcome : {"pending"}] :
               ghCalls' = {c} /\ inFlight' = TRUE
    <3>1. PICK c \in [op : {"write"}, map : Maps, outcome : {"pending"}]
                     \cup [op : {"delete"}, map : {Absent}, outcome : {"pending"}] :
               ghCalls' = {c} /\ inFlight' = TRUE
      BY <2>5
    <3>2. c.outcome = "pending"
      OBVIOUS
    <3>3. c \in [op : {"write"}, map : Maps, outcome : Outcomes]
                \cup [op : {"delete"}, map : {Absent}, outcome : Outcomes]
      BY DEF Outcomes
    <3>4. RoutingTyped'
      BY <2>2, <2>3, <3>1, <3>3 DEF RoutingTyped
    <3>5. SingleInFlight' /\ LatchOwned' /\ HashAgrees'
      BY <2>1, <2>2, <3>1, <3>2 DEF SingleInFlight, LatchOwned, HashAgrees
    <3> QED BY <3>4, <3>5
  <2>6. CASE TickDisabled
    <3>1. ghCalls' = {GhCall("delete", Absent, "pending")} /\ inFlight' = TRUE
      BY <2>1, <2>6 DEF TickDisabled, Start
    <3>2. GhCall("delete", Absent, "pending") \in
            [op : {"delete"}, map : {Absent}, outcome : {"pending"}]
      BY DEF GhCall
    <3> QED BY <2>5, <3>1, <3>2
  <2>7. CASE TickEnabled
    <3>1. CASE plan = lastPushedHash \/ cooling
      BY <2>4, <2>7, <3>1 DEF TickEnabled
    <3>2. CASE ~(plan = lastPushedHash \/ cooling)
      <4>1. plan \in Maps
        BY DEF RoutingTyped
      <4>2. ghCalls' = {GhCall("write", plan, "pending")} /\ inFlight' = TRUE
        BY <2>1, <2>7, <3>2 DEF TickEnabled, Start
      <4>3. GhCall("write", plan, "pending") \in
              [op : {"write"}, map : Maps, outcome : {"pending"}]
        BY <4>1 DEF GhCall
      <4> QED BY <2>5, <4>2, <4>3
    <3> QED BY <3>1, <3>2
  <2> QED BY <1>3, <2>6, <2>7 DEF Tick
<1>4. CASE Answer
  <2>1. PICK c \in ghCalls : Lands(c) \/ Lost(c)
    BY <1>4 DEF Answer
  <2>2. ghCalls = {c} /\ c.outcome = "pending"
    BY <2>1 DEF SingleInFlight, Lands, Lost
  <2>3. UNCHANGED <<config, state>>
    BY <2>1 DEF Lands, Lost
  <2>4. PICK o \in {"ok", "error"} : ghCalls' = {[c EXCEPT !.outcome = o]}
    BY <2>1, <2>2 DEF Lands, Lost
  <2>5. /\ [c EXCEPT !.outcome = o].outcome = o
        /\ [c EXCEPT !.outcome = o].map = c.map
        /\ [c EXCEPT !.outcome = o] \in
             [op : {"write"}, map : Maps, outcome : Outcomes]
               \cup [op : {"delete"}, map : {Absent}, outcome : Outcomes]
        /\ c.map \in Maps \cup {Absent}
        /\ c.op = "delete" => c.map = Absent
    BY <2>1, <2>2 DEF RoutingTyped, Outcomes
  <2>6. /\ o = "ok" => variable' = c.map
        /\ o = "error" => variable' = variable
    <3>1. CASE Lost(c)
      <4>1. \A x : x \in ghCalls' => x.outcome = "error"
        BY <2>2, <2>5, <3>1 DEF Lost, RoutingTyped, Outcomes
      <4> QED BY <2>4, <2>5, <3>1, <4>1 DEF Lost
    <3>2. CASE Lands(c)
      <4>1. PICK p \in {"ok", "error"} :
              /\ p = "error" => c.op = "delete" /\ variable = Absent
              /\ ghCalls' = (ghCalls \ {c}) \cup {[c EXCEPT !.outcome = p]}
        BY <3>2 DEF Lands
      <4>2. ghCalls' = {[c EXCEPT !.outcome = p]}
        BY <2>2, <4>1
      <4>3. [c EXCEPT !.outcome = p].outcome = p
        BY <2>1, <2>2, <4>1 DEF RoutingTyped, Outcomes
      <4>4. p = o
        BY <2>4, <2>5, <4>2, <4>3
      <4> QED BY <2>5, <3>2, <4>1, <4>4 DEF Lands
    <3> QED BY <2>1, <3>1, <3>2
  <2>7. RoutingTyped'
    BY <2>3, <2>4, <2>5, <2>6 DEF RoutingTyped, config, state
  <2>8. SingleInFlight' /\ LatchOwned'
    BY <2>2, <2>3, <2>4 DEF SingleInFlight, LatchOwned, state
  <2>9. HashAgrees'
    BY <2>2, <2>3, <2>4, <2>5, <2>6 DEF HashAgrees, state
  <2> QED BY <2>7, <2>8, <2>9
<1>5. CASE Settle
  <2>1. PICK c \in ghCalls : DeleteSettles(c) \/ WriteSettles(c)
    BY <1>5 DEF Settle
  <2>2. /\ ghCalls = {c} /\ ghCalls' = {} /\ inFlight' = FALSE
        /\ UNCHANGED <<config, variable>>
    BY <2>1 DEF SingleInFlight, DeleteSettles, WriteSettles, Settled
  <2>3. CASE DeleteSettles(c)
    BY <2>2, <2>3
    DEF DeleteSettles, config, RoutingTyped, SingleInFlight, LatchOwned, HashAgrees
  <2>4. CASE WriteSettles(c)
    <3>1. c.map \in Maps
      BY <2>1, <2>4 DEF WriteSettles, RoutingTyped
    <3> QED
      BY <2>2, <2>4, <3>1
      DEF WriteSettles, config, RoutingTyped, SingleInFlight, LatchOwned, HashAgrees
  <2> QED BY <2>1, <2>3, <2>4
<1>6. CASE Cools
  BY <1>6 DEF Cools, config, RoutingTyped, SingleInFlight, LatchOwned, HashAgrees
<1>7. CASE Restart
  BY <1>7 DEF Restart, config, RoutingTyped, SingleInFlight, LatchOwned, HashAgrees
<1>8. CASE UNCHANGED routingVars
  BY <1>8 DEF routingVars, RoutingTyped, SingleInFlight, LatchOwned, HashAgrees
<1> QED BY <1>1, <1>2, <1>3, <1>4, <1>5, <1>6, <1>7, <1>8 DEF RoutingNext

LEMMA RoutingKept ==
  ASSUME ~Ambiguous
  PROVE  RoutingSpec => []RoutingInv
<1>1. RoutingInv /\ [RoutingNext]_routingVars => RoutingInv'
  BY RoutingStep
<1> QED BY RoutingStart, <1>1, PTL DEF RoutingSpec

\* The hash the controller skips writes by is the variable's whenever no call
\* is out.
THEOREM HashCorrect ==
  ASSUME ~Ambiguous
  PROVE  RoutingSpec => [](RoutingTyped /\ HashIsLive)
<1>1. RoutingInv => RoutingTyped /\ HashIsLive
  BY DEF RoutingInv, LatchOwned, HashAgrees, HashIsLive
<1> QED BY RoutingKept, <1>1, PTL

(***************************************************************************)
(* That calls never overlap needs nothing of how they fail.                *)
(***************************************************************************)
LatchInv == SingleInFlight /\ LatchOwned

LEMMA LatchStep ==
  ASSUME LatchInv, [RoutingNext]_routingVars
  PROVE  LatchInv'
<1> USE DEF LatchInv
<1>1. CASE SetEnabled \/ PlanChanges \/ Cools \/ Restart \/ UNCHANGED routingVars
  BY <1>1
  DEF SetEnabled, PlanChanges, Cools, Restart, routingVars, state, SingleInFlight, LatchOwned
<1>2. CASE Tick
  <2>1. ghCalls = {}
    BY <1>2 DEF Tick, LatchOwned
  <2> QED
    BY <1>2, <2>1
    DEF Tick, TickDisabled, TickEnabled, Start, SingleInFlight, LatchOwned
<1>3. CASE Answer
  <2>1. PICK c \in ghCalls : Lands(c) \/ Lost(c)
    BY <1>3 DEF Answer
  <2>2. ghCalls = {c} /\ inFlight' = inFlight
    BY <2>1 DEF SingleInFlight, Lands, Lost, state
  <2>3. \E d : ghCalls' = {d}
    BY <2>1, <2>2 DEF Lands, Lost
  <2> QED BY <2>2, <2>3 DEF SingleInFlight, LatchOwned
<1>4. CASE Settle
  <2>1. PICK c \in ghCalls : DeleteSettles(c) \/ WriteSettles(c)
    BY <1>4 DEF Settle
  <2>2. ghCalls = {c} /\ ghCalls' = {} /\ inFlight' = FALSE
    BY <2>1 DEF SingleInFlight, DeleteSettles, WriteSettles, Settled
  <2> QED BY <2>2 DEF SingleInFlight, LatchOwned
<1> QED BY <1>1, <1>2, <1>3, <1>4 DEF RoutingNext

\* One gh call at a time, whatever fails and however.
THEOREM OneCallAtATime == RoutingSpec => []SingleInFlight
<1>1. RoutingInit => LatchInv
  BY DEF RoutingInit, LatchInv, SingleInFlight, LatchOwned
<1>2. LatchInv /\ [RoutingNext]_routingVars => LatchInv'
  BY LatchStep
<1>3. LatchInv => SingleInFlight
  BY DEF LatchInv
<1> QED BY <1>1, <1>2, <1>3, PTL DEF RoutingSpec

(***************************************************************************)
(* For any requests of the browser and anything the operator writes: what  *)
(* only the operator may write survives, and every process runs with a     *)
(* configuration it could boot with.                                       *)
(***************************************************************************)
\* A configuration in memory has a value for every path.
IsLoaded(conf) ==
  /\ conf = [values |-> conf.values, hotMsExplicit |-> conf.hotMsExplicit]
  /\ conf.values = [p \in Paths |-> conf.values[p]]
\* It could have been booted from, and it has owners.
IsSound(conf) == IsLoaded(conf) /\ BootAccepts(conf.values) /\ conf.values["owners"] # "empty"
SettingsInv ==
  /\ configFile = [parses |-> configFile.parses, keys |-> configFile.keys]
  /\ Running => IsSound(live)
  /\ HandWrittenSurvives

\* What a boot accepts does not depend on the owners, nor on what is sanitised.
LEMMA AcceptanceIgnores ==
  ASSUME NEW f, NEW g, BootAccepts(f),
         \A p \in Paths \ (Sanitised \cup {"owners"}) : Value(g, p) = Value(f, p)
  PROVE  BootAccepts(g)
<1>1. /\ \A p \in Checked \ Sanitised : p \in Paths \ (Sanitised \cup {"owners"})
      /\ {"tokenSource", "app.appId", "app.privateKeyPath", "webhooks.enabled", "webhooks.secretPath",
          "notifications.enabled", "notifications.command", "notifications.webhookUrl"}
           \subseteq Paths \ (Sanitised \cup {"owners"})
  BY DEF Checked, Sanitised, Paths, Safe, RoutingWritable, FileOnly
<1>2. \A p \in Checked \ Sanitised : Value(g, p) = Value(f, p)
  BY <1>1
<1>3. /\ Value(g, "tokenSource") = Value(f, "tokenSource")
      /\ Value(g, "app.appId") = Value(f, "app.appId")
      /\ Value(g, "app.privateKeyPath") = Value(f, "app.privateKeyPath")
      /\ Value(g, "webhooks.enabled") = Value(f, "webhooks.enabled")
      /\ Value(g, "webhooks.secretPath") = Value(f, "webhooks.secretPath")
      /\ Value(g, "notifications.enabled") = Value(f, "notifications.enabled")
      /\ Value(g, "notifications.command") = Value(f, "notifications.command")
      /\ Value(g, "notifications.webhookUrl") = Value(f, "notifications.webhookUrl")
  BY <1>1
<1>. QED BY <1>2, <1>3 DEF BootAccepts, Accepts, AppIsComplete, HasSink

\* A write asks for more than a boot.
LEMMA WrittenBoots == ASSUME NEW f, WriteAccepts(f) PROVE BootAccepts(f)
  BY DEF WriteAccepts, BootAccepts, Accepts, AppIsComplete

\* Loading an accepted file and settling the owners gives a sound configuration.
LEMMA LoadedIsSound ==
  ASSUME NEW f, BootAccepts(f), NEW conf, NEW owners, owners # "empty",
         conf = IF LoadConfig(f).values["owners"] # "empty" THEN LoadConfig(f)
                  ELSE [LoadConfig(f) EXCEPT !.values["owners"] = owners]
  PROVE  /\ IsSound(conf)
         /\ Value(f, "owners") # "empty" => conf.values["owners"] = Value(f, "owners")
<1>. DEFINE loaded == [p \in Paths |-> IF p \in Sanitised /\ Value(f, p) = "bad" THEN Defaults[p] ELSE Value(f, p)]
            hot == "intervals.hotMs" \in DOMAIN f
<1>1. "owners" \in Paths /\ "owners" \notin Sanitised
  BY DEF Paths, Sanitised, Safe, RoutingWritable
<1>2. LoadConfig(f) = [values |-> loaded, hotMsExplicit |-> hot]
  BY DEF LoadConfig
<1>3. loaded["owners"] = Value(f, "owners") /\ \A p \in Paths \ Sanitised : loaded[p] = Value(f, p)
  BY <1>1
<1>4. DOMAIN loaded = Paths
  OBVIOUS
<1>. HIDE DEF loaded, hot
<1>5. CASE loaded["owners"] # "empty"
  <2>1. conf = [values |-> loaded, hotMsExplicit |-> hot]
    BY <1>2, <1>5
  <2>2. conf.values = loaded /\ loaded = [p \in Paths |-> loaded[p]]
    BY <2>1 DEF loaded
  <2>3. BootAccepts(loaded)
    BY <1>3, <1>4, AcceptanceIgnores DEF Value
  <2>. QED BY <1>3, <1>5, <2>1, <2>2, <2>3 DEF IsSound, IsLoaded
<1>6. CASE loaded["owners"] = "empty"
  <2>. DEFINE kept == [loaded EXCEPT !["owners"] = owners]
  <2>1. conf = [values |-> kept, hotMsExplicit |-> hot]
    BY <1>2, <1>6
  <2>2. kept = [p \in Paths |-> kept[p]] /\ DOMAIN kept = Paths /\ kept["owners"] = owners
        /\ \A p \in Paths \ {"owners"} : kept[p] = loaded[p]
    BY <1>1, <1>4
  <2>. HIDE DEF kept
  <2>3. BootAccepts(kept)
    <3>1. \A p \in Paths \ (Sanitised \cup {"owners"}) : Value(kept, p) = Value(f, p)
      BY <1>3, <2>2 DEF Value
    <3>. QED BY <3>1, AcceptanceIgnores
  <2>4. conf.values = kept /\ conf = [values |-> conf.values, hotMsExplicit |-> conf.hotMsExplicit]
    BY <2>1
  <2>5. IsLoaded(conf)
    BY <2>2, <2>4 DEF IsLoaded
  <2>. QED BY <1>3, <1>6, <2>2, <2>3, <2>4, <2>5 DEF IsSound
<1>. QED BY <1>5, <1>6

LEMMA SettingsStart == SettingsInit => SettingsInv
<1>1. \A S : Restrict(Content0, DOMAIN Content0 \cap S) = Content0
  BY DEF Restrict, Content0
<1>. QED BY <1>1 DEF SettingsInit, SettingsInv, HandWrittenSurvives, Running, Content0

\* A patch of the browser changes nothing that only the operator may write.
LEMMA PatchSpares ==
  ASSUME NEW body, NEW writable, writable \cap FileOnly = {}, ValidPatch(body, writable), NEW keys
  PROVE  Restrict(Merged(keys, body), DOMAIN Merged(keys, body) \cap FileOnly) = Restrict(keys, DOMAIN keys \cap FileOnly)
<1>1. DOMAIN body \cap FileOnly = {}
  BY DEF ValidPatch
<1>2. DOMAIN Merged(keys, body) = DOMAIN keys \cup DOMAIN body
      /\ \A p \in DOMAIN keys \ DOMAIN body : Merged(keys, body)[p] = keys[p]
  BY DEF Merged
<1>3. DOMAIN Merged(keys, body) \cap FileOnly = DOMAIN keys \cap FileOnly
  BY <1>1, <1>2
<1>4. \A p \in DOMAIN keys \cap FileOnly : Merged(keys, body)[p] = keys[p]
  BY <1>1, <1>2
<1>. QED BY <1>3, <1>4 DEF Restrict

LEMMA PutStep ==
  ASSUME SettingsInv, NEW body, NEW writable, writable \cap FileOnly = {}, Put(body, writable)
  PROVE  SettingsInv'
<1>. DEFINE next == Merged(configFile.keys, body)
<1>1. Running /\ UNCHANGED <<embedded, byHand>>
  BY DEF Put
<1>2. CASE UNCHANGED <<configFile, live>> /\ answer' # "200"
  BY <1>1, <1>2 DEF SettingsInv, HandWrittenSurvives, Running, IsSound, IsLoaded,
     BootAccepts, Accepts, AppIsComplete, HasSink, Value
<1>3. ASSUME ValidPatch(body, writable), configFile' = [configFile EXCEPT !.keys = next]
      PROVE  /\ configFile' = [parses |-> configFile'.parses, keys |-> configFile'.keys]
             /\ configFile'.keys = next
             /\ Restrict(configFile'.keys, DOMAIN configFile'.keys \cap FileOnly) = byHand'
  <2>1. configFile'.keys = next /\ configFile' = [parses |-> configFile'.parses, keys |-> configFile'.keys]
    BY <1>3 DEF SettingsInv
  <2>2. Restrict(next, DOMAIN next \cap FileOnly) = byHand
    BY <1>3, PatchSpares DEF SettingsInv, HandWrittenSurvives
  <2>. QED BY <1>1, <2>1, <2>2
<1>4. ASSUME ValidPatch(body, writable), configFile' = [configFile EXCEPT !.keys = next],
             WriteAccepts(next), answer' = "200", live' = KeepOwners(LoadConfig(next))
      PROVE  SettingsInv'
  <2>1. IsSound(live') /\ (Value(next, "owners") # "empty" => live'.values["owners"] = Value(next, "owners"))
    <3>1. BootAccepts(next)
      BY <1>4, WrittenBoots
    <3>2. live.values["owners"] # "empty"
      BY <1>1 DEF SettingsInv, HandWrittenSurvives
    <3>3. live' = IF LoadConfig(next).values["owners"] # "empty" THEN LoadConfig(next)
                  ELSE [LoadConfig(next) EXCEPT !.values["owners"] = live.values["owners"]]
      BY <1>4 DEF KeepOwners
    <3>. HIDE DEF next
    <3>. QED BY <3>1, <3>2, <3>3, LoadedIsSound
  <2>2. IsSound(live)' 
    BY <1>1, <2>1 DEF IsSound, IsLoaded, BootAccepts, Accepts, AppIsComplete, HasSink, Value
  <2>. QED BY <1>3, <1>4, <2>1, <2>2 DEF SettingsInv, HandWrittenSurvives, IsSound, Value
<1>5. ASSUME ValidPatch(body, writable), configFile' = [configFile EXCEPT !.keys = next],
             answer' = "500", UNCHANGED live
      PROVE  SettingsInv'
  <2>1. (Running => IsSound(live))'
    BY <1>1, <1>5 DEF SettingsInv, Running, IsSound, IsLoaded, BootAccepts, Accepts, AppIsComplete, HasSink, Value
  <2>. QED BY <1>3, <1>5, <2>1 DEF SettingsInv, HandWrittenSurvives, IsSound
<1>. QED BY <1>2, <1>4, <1>5 DEF Put

\* A crash, an edit, a typing error: the running configuration is not touched.
LEMMA SoundStays ==
  ASSUME SettingsInv, UNCHANGED <<embedded, live>>
  PROVE  (Running => IsSound(live))'
  BY DEF SettingsInv, Running, IsSound, IsLoaded, BootAccepts, Accepts, AppIsComplete, HasSink, Value

LEMMA HandEditStep ==
  ASSUME SettingsInv, NEW p, NEW v, HandEdit(p, v)
  PROVE  SettingsInv'
<1>1. /\ configFile' = [parses |-> configFile'.parses, keys |-> configFile'.keys]
      /\ byHand' = Restrict(configFile'.keys, DOMAIN configFile'.keys \cap FileOnly)
      /\ answer' = "edited" /\ UNCHANGED <<embedded, live>>
  BY DEF HandEdit
<1>. QED BY <1>1, SoundStays DEF SettingsInv, HandWrittenSurvives, IsSound

LEMMA BootStep == ASSUME SettingsInv, Boot PROVE SettingsInv'
<1>1. UNCHANGED <<embedded, configFile, byHand>> /\ answer' = "none"
  BY DEF Boot
<1>2. IsSound(live')
  <2>1. live' = IF LoadConfig(configFile.keys).values["owners"] # "empty" THEN LoadConfig(configFile.keys)
                ELSE [LoadConfig(configFile.keys) EXCEPT !.values["owners"] = "derived"]
    BY DEF Boot, ResolveOwners
  <2>. QED BY <2>1, LoadedIsSound DEF Boot
<1>3. IsSound(live)'
  BY <1>1, <1>2 DEF IsSound, IsLoaded, BootAccepts, Accepts, AppIsComplete, HasSink, Value
<1>. QED BY <1>1, <1>3 DEF SettingsInv, HandWrittenSurvives, IsSound

LEMMA SettingsStep ==
  ASSUME NEW edits, NEW bodies, NEW routings,
         SettingsInv, [SettingsNext(edits, bodies, routings)]_settingVars
  PROVE  SettingsInv'
<1>1. CASE ProcessEnds
  <2>1. UNCHANGED <<embedded, configFile, byHand>> /\ ~Running'
    BY <1>1 DEF ProcessEnds, Running
  <2>. QED BY <2>1 DEF SettingsInv, HandWrittenSurvives
<1>2. CASE Corrupted \/ Repaired
  <2>1. UNCHANGED <<embedded, byHand, live, answer>> /\ \E b \in BOOLEAN : configFile' = [configFile EXCEPT !.parses = b]
    BY <1>2 DEF Corrupted, Repaired
  <2>2. configFile'.keys = configFile.keys /\ configFile' = [parses |-> configFile'.parses, keys |-> configFile'.keys]
    BY <2>1 DEF SettingsInv
  <2>. QED BY <2>1, <2>2, SoundStays DEF SettingsInv, HandWrittenSurvives, IsSound, Running
<1>3. CASE UNCHANGED settingVars
  BY <1>3, SoundStays DEF settingVars, SettingsInv, HandWrittenSurvives, IsSound, Running
<1>4. Safe \cap FileOnly = {} /\ RoutingWritable \cap FileOnly = {}
  BY DEF Safe, RoutingWritable, FileOnly
<1>5. ASSUME NEW b, PutConfig(b) \/ PutRouting(b) PROVE SettingsInv'
  BY <1>4, <1>5, PutStep DEF PutConfig, PutRouting
<1>. QED BY <1>1, <1>2, <1>3, <1>5, BootStep, HandEditStep DEF SettingsNext

\* Whatever the operator and the browser write, in whatever order, with whatever
\* processes started, restarted and ended in between: what only the operator may write
\* survives, and what a process runs with it could boot with.
THEOREM HandsOff ==
  ASSUME NEW CONSTANT edits, NEW CONSTANT bodies, NEW CONSTANT routings
  PROVE  SettingsInit /\ [][SettingsNext(edits, bodies, routings)]_settingVars => []HandWrittenSurvives
<1>1. SettingsInv => HandWrittenSurvives BY DEF SettingsInv
<1>2. SettingsInit => SettingsInv BY SettingsStart
<1>3. SettingsInv /\ [SettingsNext(edits, bodies, routings)]_settingVars => SettingsInv'
  BY SettingsStep
<1>. QED BY <1>1, <1>2, <1>3, PTL

\* A patch can break a file that boots in one way only: by switching notifications on.
LEMMA PatchedBoots ==
  ASSUME NEW body, NEW writable, writable \cap FileOnly = {}, ValidPatch(body, writable),
         NEW keys, BootAccepts(keys), HasSink(keys)
  PROVE  BootAccepts(Merged(keys, body))
<1>. DEFINE next == Merged(keys, body)
<1>1. \A p : Value(next, p) = IF p \in DOMAIN body THEN body[p] ELSE Value(keys, p)
  BY DEF Merged, Value
<1>2. \A p \in FileOnly : Value(next, p) = Value(keys, p)
  BY <1>1 DEF ValidPatch
<1>3. \A p \in Checked \ Sanitised : Value(next, p) # "bad"
  BY <1>1 DEF ValidPatch, BootAccepts, Accepts
<1>. HIDE DEF next
<1>4. /\ Value(next, "tokenSource") = Value(keys, "tokenSource")
      /\ Value(next, "app.appId") = Value(keys, "app.appId")
      /\ Value(next, "app.privateKeyPath") = Value(keys, "app.privateKeyPath")
      /\ Value(next, "webhooks.enabled") = Value(keys, "webhooks.enabled")
      /\ Value(next, "webhooks.secretPath") = Value(keys, "webhooks.secretPath")
      /\ Value(next, "notifications.command") = Value(keys, "notifications.command")
      /\ Value(next, "notifications.webhookUrl") = Value(keys, "notifications.webhookUrl")
  BY <1>2 DEF FileOnly
<1>5. HasSink(next)
  BY <1>4 DEF HasSink
<1>6. BootAccepts(next)
  BY <1>3, <1>4, <1>5 DEF BootAccepts, Accepts, AppIsComplete
<1>. QED BY <1>6 DEF next

\* The finding about accepted patches has no second cause: while the file names a command
\* or a webhook, no request of the browser, answered as it may be, turns a file that
\* boots into one that does not (writeConfigPatch, writeRunnerRoutingPatch).
THEOREM FilesWithSinksBoot ==
  ASSUME NEW CONSTANT edits, NEW CONSTANT bodies, NEW CONSTANT routings
  PROVE  SettingsInit /\ [][SettingsNext(edits, bodies, routings)]_settingVars =>
           [][BootAccepts(configFile.keys) /\ HasSink(configFile.keys) /\ ~BootAccepts(configFile.keys)'
                => answer' = "edited"]_settingVars
<1>1. ASSUME SettingsInv, [SettingsNext(edits, bodies, routings)]_settingVars,
             BootAccepts(configFile.keys), HasSink(configFile.keys)
      PROVE  BootAccepts(configFile.keys)' \/ answer' = "edited"
  <2>1. ASSUME UNCHANGED embedded, configFile'.keys = configFile.keys
        PROVE  BootAccepts(configFile.keys)'
    BY <1>1, <2>1 DEF BootAccepts, Accepts, AppIsComplete, HasSink, Value
  <2>2. ASSUME NEW b, PutConfig(b) \/ PutRouting(b)
        PROVE  BootAccepts(configFile.keys)'
    <3>1. PICK writable \in {Safe, RoutingWritable} : Put(b, writable)
      BY <2>2 DEF PutConfig, PutRouting
    <3>2. writable \cap FileOnly = {}
      BY DEF Safe, RoutingWritable, FileOnly
    <3>3. UNCHANGED embedded
      BY <3>1 DEF Put
    <3>4. CASE UNCHANGED configFile
      BY <2>1, <3>3, <3>4
    <3>5. CASE ValidPatch(b, writable) /\ configFile' = [configFile EXCEPT !.keys = Merged(configFile.keys, b)]
      <4>1. configFile'.keys = Merged(configFile.keys, b)
        BY <1>1, <3>5 DEF SettingsInv
      <4>2. BootAccepts(Merged(configFile.keys, b))
        BY <1>1, <3>2, <3>5, PatchedBoots
      <4>. QED BY <3>3, <4>1, <4>2 DEF BootAccepts, Accepts, AppIsComplete, HasSink, Value
    <3>. QED BY <3>1, <3>4, <3>5 DEF Put
  <2>3. CASE Boot \/ ProcessEnds \/ UNCHANGED settingVars
    BY <2>1, <2>3 DEF Boot, ProcessEnds, settingVars
  <2>4. CASE Corrupted \/ Repaired
    <3>1. UNCHANGED embedded /\ \E b \in BOOLEAN : configFile' = [configFile EXCEPT !.parses = b]
      BY <2>4 DEF Corrupted, Repaired
    <3>2. configFile'.keys = configFile.keys
      BY <1>1, <3>1 DEF SettingsInv
    <3>. QED BY <2>1, <3>1, <3>2
  <2>5. ASSUME NEW p, NEW v, HandEdit(p, v) PROVE answer' = "edited"
    BY <2>5 DEF HandEdit
  <2>. QED BY <1>1, <2>2, <2>3, <2>4, <2>5 DEF SettingsNext
<1>2. SettingsInit => SettingsInv BY SettingsStart
<1>3. SettingsInv /\ [SettingsNext(edits, bodies, routings)]_settingVars => SettingsInv'
  BY SettingsStep
<1>. QED BY <1>1, <1>2, <1>3, PTL

(***************************************************************************)
(* For any number of requests at once, and whichever of their calls fail   *)
(* or lose their answer: what a ready-merge answered with success means,   *)
(* and what the open proposals hold.                                       *)
(***************************************************************************)
ReadySteps == {"lookup", "mark", "arm"}
ProposalSteps == {"head", "ref", "commit", "pull"}
Steps == ReadySteps \cup ProposalSteps \cup {"idle", "done"}
Calls == [at : Steps, ask : RequestBodies, client : Nat, wasArmed : BOOLEAN, armed : BOOLEAN,
          clean : BOOLEAN, status : Nat, touched : BOOLEAN]
Pulls == [state : {"OPEN", "CLOSED", "MERGED"}, draft : BOOLEAN, armed : BOOLEAN, green : BOOLEAN]
Registry == installed \in Nat /\ registered \in Nat /\ appMode \in BOOLEAN
ActionsTyped == Registry /\ target \in Pulls /\ requests \in [Slots -> Calls]

\* A request in a step is of the kind that has the step, and not answered.
RightStep(r) ==
  /\ r.at \in ReadySteps => r.ask.kind = "ready"
  /\ r.at \in ProposalSteps => r.ask.kind # "ready"
  /\ r.at \in ReadySteps \cup ProposalSteps => r.status # 200
\* What a request remembers of the pull request is true until people edit it.
Remembers(r, pull) ==
  r.ask.kind = "ready" /\ ~r.touched /\ pull.state = "OPEN" =>
    /\ r.at = "mark" /\ r.wasArmed => pull.armed
    /\ r.status = 200 => ~pull.draft /\ (r.armed => pull.armed) /\ (r.armed \/ r.clean)

\* The names of a proposal's branch and document determine each other.
Named(p) ==
  \/ p.branch = <<"demote", p.path[2]>> /\ p.path[1] = "demotion-proposals"
  \/ p.branch = <<"promote", p.path[2]>> /\ p.path[1] = "promotion-proposals"
Whole ==
  /\ \A b \in DOMAIN branches :
       /\ \A p, q \in branches[b] : p = q
       /\ \A p \in branches[b] : p.branch = b /\ Named(p)
  /\ \A d \in drafts :
       /\ d = [branch |-> d.branch, docs |-> d.docs]
       /\ d.branch \in DOMAIN branches /\ branches[d.branch] = d.docs /\ d.docs # {}
BranchOf(r) ==
  (IF r.ask.kind = "demote" THEN Demotion(r.ask.candidate) ELSE Promotion(r.ask.candidate)).branch
Working(r) ==
  /\ r.at \in {"commit", "pull"} => BranchOf(r) \in DOMAIN branches
  /\ r.at = "pull" => branches[BranchOf(r)] # {}

Sound(r) == RightStep(r) /\ Remembers(r, target) /\ Working(r)
ActionsInv == ActionsTyped /\ Whole /\ \A s \in Slots : Sound(requests[s])

LEMMA Statuses ==
  ASSUME NEW kind, NEW error
  PROVE  Status(kind, error) \in Nat /\ Status(kind, error) # 200
  BY DEF Status, ReadyStatus, DraftStatus

\* The fields of an answered request.
LEMMA Answered ==
  ASSUME ActionsTyped, NEW s \in Slots, NEW status \in Nat, Answers(s, status)
  PROVE  \E q \in Calls :
           /\ requests' = [requests EXCEPT ![s] = q]
           /\ q.at = "done" /\ q.status = status /\ q.ask = requests[s].ask
           /\ q.armed = requests[s].armed /\ q.clean = requests[s].clean /\ q.touched = requests[s].touched
<1>1. requests[s] \in Calls
  BY DEF ActionsTyped
<1>2. PICK q : /\ q = [requests[s] EXCEPT !.at = "done", !.status = status, !.client = 0, !.wasArmed = FALSE]
               /\ requests' = [requests EXCEPT ![s] = q]
  BY DEF Answers
<1>3. /\ q \in Calls /\ q.at = "done" /\ q.status = status /\ q.ask = requests[s].ask
      /\ q.armed = requests[s].armed /\ q.clean = requests[s].clean /\ q.touched = requests[s].touched
  <2>1. PICK done \in Steps : done = "done"
    BY DEF Steps
  <2>2. PICK none \in Nat, no \in BOOLEAN : none = 0 /\ no = FALSE
    OBVIOUS
  <2>3. PICK r \in Calls : r = requests[s]
    BY <1>1
  <2>4. q = [r EXCEPT !.at = done, !.status = status, !.client = none, !.wasArmed = no]
    BY <1>2, <2>1, <2>2, <2>3
  <2>5. /\ q \in Calls /\ q.at = done /\ q.status = status /\ q.ask = r.ask
        /\ q.armed = r.armed /\ q.clean = r.clean /\ q.touched = r.touched
    BY <2>4 DEF Calls
  <2> QED BY <2>1, <2>3, <2>5
<1> QED BY <1>2, <1>3

\* A step of one request, which keeps what the others rely on.
LEMMA OneMoves ==
  ASSUME ActionsInv, NEW s \in Slots, NEW q \in Calls, requests' = [requests EXCEPT ![s] = q],
         Registry', target' \in Pulls, Whole', Sound(q)', \A r \in Calls : Sound(r) => Sound(r)'
  PROVE  ActionsInv'
<1>1. ActionsTyped'
  BY DEF ActionsInv, ActionsTyped
<1>2. ASSUME NEW t \in Slots
      PROVE  Sound(requests[t])'
  <2>1. PICK r \in Calls : r = requests[t] /\ requests'[t] = IF t = s THEN q ELSE r
    BY DEF ActionsInv, ActionsTyped
  <2>2. Sound(r)'
    BY <2>1 DEF ActionsInv
  <2>3. PICK x \in {q, r} : requests'[t] = x
    BY <2>1
  <2>4. Sound(x)'
    BY <2>2, <2>3
  <2> QED BY <2>3, <2>4 DEF Sound, RightStep, Remembers, Working
<1> QED BY <1>1, <1>2 DEF ActionsInv

\* A step of one request that leaves the pull request and the branches alone.
LEMMA OnlyOneMoves ==
  ASSUME ActionsInv, NEW s \in Slots, NEW q \in Calls, requests' = [requests EXCEPT ![s] = q],
         Registry', UNCHANGED <<target, branches, drafts>>, Sound(q)
  PROVE  ActionsInv'
<1>1. Whole' /\ target' \in Pulls
  BY DEF ActionsInv, Whole, ActionsTyped
<1>2. Sound(q)' /\ \A r \in Calls : Sound(r) => Sound(r)'
  BY DEF Sound, RightStep, Remembers, Working
<1> QED BY <1>1, <1>2, OneMoves

\* A request that fails, whatever the step.
LEMMA FailStep ==
  ASSUME ActionsInv, NEW s \in Slots, NEW error, Fails(s, error),
         Registry', target' \in Pulls, Whole', \A r \in Calls : Sound(r) => Sound(r)'
  PROVE  ActionsInv'
<1>1. PICK q \in Calls :
        /\ requests' = [requests EXCEPT ![s] = q]
        /\ q.at = "done" /\ q.status = Status(requests[s].ask.kind, error)
  BY Statuses, Answered DEF Fails, ActionsInv
<1>2. Sound(q)'
  BY <1>1, Statuses DEF Sound, RightStep, Remembers, Working, ReadySteps, ProposalSteps
<1> QED BY <1>1, <1>2, OneMoves

\* The fields of a request that goes on.
LEMMA GoesOn ==
  ASSUME ActionsTyped, NEW s \in Slots, NEW step \in Steps, Goes(s, step)
  PROVE  \E q \in Calls :
           /\ requests' = [requests EXCEPT ![s] = q]
           /\ q.at = step /\ q.ask = requests[s].ask /\ q.status = requests[s].status
           /\ q.touched = requests[s].touched
<1>1. PICK r \in Calls : r = requests[s]
  BY DEF ActionsTyped
<1>2. PICK q : q = [r EXCEPT !.at = step] /\ requests' = [requests EXCEPT ![s] = q]
  BY <1>1 DEF Goes, ActionsTyped
<1>3. q \in Calls /\ q.at = step /\ q.ask = r.ask /\ q.status = r.status /\ q.touched = r.touched
  BY <1>2 DEF Calls
<1> QED BY <1>1, <1>2, <1>3

LEMMA Proceeded ==
  ASSUME ActionsTyped, NEW s \in Slots, NEW step \in {"arm", "done"}, NEW armed \in BOOLEAN, NEW clean \in BOOLEAN,
         Proceeds(s, step, armed, clean)
  PROVE  \E q \in Calls :
           /\ requests' = [requests EXCEPT ![s] = q]
           /\ q.at = step /\ q.ask = requests[s].ask /\ q.armed = armed /\ q.clean = clean
           /\ q.touched = requests[s].touched
           /\ step = "done" => q.status = 200
           /\ step = "arm" => q.status = requests[s].status
<1>1. PICK r \in Calls : r = requests[s]
  BY DEF ActionsTyped
<1>2. PICK at \in Steps : at = step
  BY DEF Steps, ReadySteps
<1>3. PICK x : x = [r EXCEPT !.at = at, !.armed = armed, !.clean = clean]
  OBVIOUS
<1>4. /\ x \in Calls /\ x.at = step /\ x.ask = r.ask /\ x.armed = armed /\ x.clean = clean
      /\ x.touched = r.touched /\ x.status = r.status
  BY <1>2, <1>3 DEF Calls
<1>5. PICK none \in Nat, no \in BOOLEAN, ok \in Nat : none = 0 /\ no = FALSE /\ ok = 200
  OBVIOUS
<1>6. PICK y : y = [x EXCEPT !.status = ok, !.client = none, !.wasArmed = no]
  OBVIOUS
<1>7. /\ y \in Calls /\ y.at = x.at /\ y.ask = x.ask /\ y.armed = x.armed /\ y.clean = x.clean
      /\ y.touched = x.touched /\ y.status = ok
  <2>1. x \in Calls
    BY <1>4
  <2> QED BY <1>6, <2>1 DEF Calls
<1>8. requests' = [requests EXCEPT ![s] = IF step = "done" THEN y ELSE x]
  BY <1>1, <1>2, <1>3, <1>5, <1>6 DEF Proceeds
<1>9. CASE step = "done"
  BY <1>1, <1>4, <1>5, <1>7, <1>8, <1>9
<1>10. CASE step = "arm"
  BY <1>1, <1>4, <1>8, <1>10
<1> QED BY <1>9, <1>10

-------------------------------------------------------------------------------
LEMMA NoCallTyped ==
  NoCall \in Calls /\ NoCall.status = 0 /\ NoCall.touched = FALSE /\ NoCall.at = "idle"
<1>1. NoAsk \in RequestBodies
  BY ActionsAssumption DEF NoAsk, RequestBodies, ReadyFields
<1>2. PICK at \in Steps, none \in Nat, no \in BOOLEAN : at = "idle" /\ none = 0 /\ no = FALSE
  BY DEF Steps
<1>3. NoCall = [at |-> at, ask |-> NoAsk, client |-> none, wasArmed |-> no, armed |-> no, clean |-> no,
                status |-> none, touched |-> no]
  BY <1>2 DEF NoCall
<1> QED BY <1>1, <1>2, <1>3 DEF Calls

LEMMA AskStep ==
  ASSUME ActionsInv, NEW s \in Slots, NEW ask \in RequestBodies, Ask(s, ask)
  PROVE  ActionsInv'
<1>1. Registry' /\ UNCHANGED <<target, branches, drafts>>
  BY DEF Ask, ActionsInv, ActionsTyped, Registry
<1>2. PICK x \in Calls : x = NoCall /\ x.status = 0
  BY NoCallTyped
<1>3. ClientFor \in Nat
  BY DEF ClientFor, ActionsInv, ActionsTyped, Registry
<1>4. CASE ~Valid(ask) \/ ClientFor = 0
  <2>1. PICK status \in Nat, done \in Steps :
          /\ status # 200 /\ done = "done"
          /\ requests' = [requests EXCEPT ![s] = [x EXCEPT !.at = done, !.ask = ask, !.status = status]]
    <3>1. PICK done \in Steps : done = "done"
      BY DEF Steps
    <3>2. CASE ~Valid(ask)
      <4>1. PICK status \in Nat : status = 400
        OBVIOUS
      <4>2. requests' = [requests EXCEPT ![s] = [x EXCEPT !.at = done, !.ask = ask, !.status = status]]
        BY <1>2, <3>1, <3>2, <4>1 DEF Ask
      <4>3. status # 200
        BY <4>1
      <4>4. WITNESS status \in Nat, done \in Steps
      <4> QED BY <3>1, <4>2, <4>3
    <3>3. CASE Valid(ask)
      <4>1. requests' = [requests EXCEPT ![s] =
              [x EXCEPT !.at = done, !.ask = ask, !.status = Status(ask.kind, "no installation")]]
        BY <1>2, <1>4, <3>1, <3>3 DEF Ask
      <4>2. PICK status \in Nat : status # 200 /\ status = Status(ask.kind, "no installation")
        BY DEF Status, ReadyStatus, DraftStatus
      <4>3. WITNESS status \in Nat, done \in Steps
      <4> QED BY <3>1, <4>1, <4>2
    <3> QED BY <3>2, <3>3
  <2>2. PICK q : q = [x EXCEPT !.at = done, !.ask = ask, !.status = status]
    OBVIOUS
  <2>3. q \in Calls /\ q.at = done /\ q.status = status
    BY <2>2 DEF Calls
  <2>4. Sound(q)
    BY <2>1, <2>3 DEF Sound, RightStep, Remembers, Working, ReadySteps, ProposalSteps
  <2> QED BY <1>1, <2>1, <2>2, <2>3, <2>4, OnlyOneMoves
<1>5. CASE Valid(ask) /\ ClientFor # 0
  <2>1. PICK first \in Steps : first = First(ask.kind)
    BY DEF First, Steps, ReadySteps, ProposalSteps
  <2>2. PICK q : q = [x EXCEPT !.at = first, !.ask = ask, !.client = ClientFor]
    OBVIOUS
  <2>3. q \in Calls /\ q.at = first /\ q.status = x.status /\ q.ask = ask
    BY <1>3, <2>2 DEF Calls
  <2>4. requests' = [requests EXCEPT ![s] = q]
    BY <1>2, <1>5, <2>1, <2>2 DEF Ask
  <2>5. \/ first = "lookup" /\ ask.kind = "ready"
        \/ first = "head" /\ ask.kind # "ready"
    BY <2>1 DEF First
  <2>6. Sound(q)
    BY <1>2, <2>3, <2>5 DEF Sound, RightStep, Remembers, Working, ReadySteps, ProposalSteps
  <2> QED BY <1>1, <2>3, <2>4, <2>6, OnlyOneMoves
<1> QED BY <1>4, <1>5

LEMMA CallFailsStep ==
  ASSUME ActionsInv, NEW s \in Slots, NEW step, NEW mutation, CallFails(s, step, mutation)
  PROVE  ActionsInv'
<1>1. Registry' /\ UNCHANGED <<target, branches, drafts>>
  BY DEF CallFails, ActionsInv, ActionsTyped, Registry
<1>2. Whole' /\ target' \in Pulls /\ \A r \in Calls : Sound(r) => Sound(r)'
  BY <1>1 DEF ActionsInv, Whole, ActionsTyped, Sound, RightStep, Remembers, Working
<1>3. Fails(s, "failed") \/ Fails(s, "forbidden")
  BY DEF CallFails
<1> QED BY <1>1, <1>2, <1>3, FailStep

LEMMA LookUpStep ==
  ASSUME ActionsInv, NEW s \in Slots, LookUp(s)
  PROVE  ActionsInv'
<1>1. Registry' /\ UNCHANGED <<target, branches, drafts>>
  BY DEF LookUp, ActionsInv, ActionsTyped, Registry
<1>2. Whole' /\ target' \in Pulls /\ \A r \in Calls : Sound(r) => Sound(r)'
  BY <1>1 DEF ActionsInv, Whole, ActionsTyped, Sound, RightStep, Remembers, Working
<1>3. CASE Fails(s, "not found") \/ Fails(s, "not OPEN")
  BY <1>1, <1>2, <1>3, FailStep
<1>4. CASE ~(Fails(s, "not found") \/ Fails(s, "not OPEN"))
  <2>1. PICK r \in Calls : r = requests[s] /\ r.at = "lookup" /\ r.ask.kind = "ready"
    <3>1. PICK r \in Calls : r = requests[s]
      BY DEF ActionsInv, ActionsTyped
    <3> QED BY <3>1 DEF ActionsInv, Sound, RightStep, ReadySteps, LookUp, At
  <2>2. PICK step \in Steps, armed \in BOOLEAN, status \in Nat, no \in BOOLEAN :
          /\ step = AfterLookup(target) /\ armed = target.armed /\ no = FALSE
          /\ status = IF step = "done" THEN 200 ELSE 0
    BY DEF AfterLookup, Steps, ReadySteps, ActionsInv, ActionsTyped, Pulls
  <2>3. PICK q : q = [r EXCEPT !.at = step, !.wasArmed = armed, !.armed = armed, !.touched = no, !.status = status]
    OBVIOUS
  <2>4. /\ q \in Calls /\ q.at = step /\ q.ask = r.ask /\ q.wasArmed = armed /\ q.armed = armed
        /\ q.status = status
    BY <2>3 DEF Calls
  <2>5. requests' = [requests EXCEPT ![s] = q]
    BY <1>4, <2>1, <2>2, <2>3 DEF LookUp
  <2>6. \/ step \in {"mark", "arm"} /\ status = 0
        \/ step = "done" /\ status = 200 /\ ~target.draft /\ target.armed
    BY <2>2 DEF AfterLookup
  <2>7. RightStep(q) /\ Working(q)
    BY <2>1, <2>4, <2>6 DEF RightStep, Working, ReadySteps, ProposalSteps
  <2>8. Remembers(q, target)
    BY <2>2, <2>4, <2>6 DEF Remembers
  <2> QED BY <1>1, <2>4, <2>5, <2>7, <2>8, OnlyOneMoves DEF Sound
<1> QED BY <1>3, <1>4

\* Marking and arming only help the others; their branches are not touched.
LEMMA HelpsOthers ==
  ASSUME ActionsInv, UNCHANGED <<branches, drafts>>, target' \in Pulls, target'.state = target.state,
         target.draft \/ ~target'.draft, target.armed => target'.armed
  PROVE  Whole' /\ \A r \in Calls : Sound(r) => Sound(r)'
  BY DEF ActionsInv, Whole, ActionsTyped, Pulls, Sound, RightStep, Remembers, Working

LEMMA MarkReadyStep ==
  ASSUME ActionsInv, NEW s \in Slots, MarkReady(s)
  PROVE  ActionsInv'
<1>1. Registry' /\ UNCHANGED <<branches, drafts>>
  BY DEF MarkReady, ActionsInv, ActionsTyped, Registry
<1>2. /\ target' \in Pulls /\ target'.state = target.state /\ target'.armed = target.armed
      /\ ~target'.draft
  <2>1. PICK no \in BOOLEAN : no = FALSE /\ target' = [target EXCEPT !.draft = no]
    BY DEF MarkReady
  <2>2. target \in Pulls
    BY DEF ActionsInv, ActionsTyped
  <2> QED BY <2>1, <2>2 DEF Pulls
<1>3. Whole' /\ \A r \in Calls : Sound(r) => Sound(r)'
  BY <1>1, <1>2, HelpsOthers
<1>4. CASE Fails(s, "failed")
  BY <1>1, <1>2, <1>3, <1>4, FailStep
<1>5. CASE ~Fails(s, "failed")
  <2>1. PICK r \in Calls : r = requests[s] /\ r.at = "mark" /\ Sound(r)
    BY DEF ActionsInv, ActionsTyped, MarkReady, Granted, At
  <2>2. PICK step \in {"arm", "done"}, armed \in BOOLEAN, no \in BOOLEAN :
          /\ step = IF r.wasArmed THEN "done" ELSE "arm"
          /\ armed = r.wasArmed /\ no = FALSE
    BY DEF Calls
  <2>3. Proceeds(s, step, armed, no)
    BY <1>5, <2>1, <2>2 DEF MarkReady
  <2>4. PICK q \in Calls :
          /\ requests' = [requests EXCEPT ![s] = q]
          /\ q.at = step /\ q.ask = r.ask /\ q.armed = armed /\ q.touched = r.touched
          /\ step = "done" => q.status = 200
          /\ step = "arm" => q.status = r.status
    BY <2>1, <2>3, Proceeded DEF ActionsInv
  <2>5. r.ask.kind = "ready" /\ r.status # 200
    BY <2>1 DEF Sound, RightStep, ReadySteps
  <2>6. RightStep(q)' /\ Working(q)'
    BY <2>4, <2>5 DEF RightStep, Working, ReadySteps, ProposalSteps
  <2>7. CASE step = "done"
    <3>1. r.wasArmed /\ armed
      BY <2>2, <2>7
    <3>2. ~r.touched /\ target.state = "OPEN" => target.armed
      BY <2>1, <2>5, <3>1 DEF Sound, Remembers
    <3>3. Remembers(q, target)'
      BY <1>2, <2>4, <2>7, <3>1, <3>2 DEF Remembers
    <3> QED BY <1>1, <1>2, <1>3, <2>4, <2>6, <3>3, OneMoves DEF Sound
  <2>8. CASE step = "arm"
    <3>1. Remembers(q, target)'
      BY <2>4, <2>5, <2>8 DEF Remembers
    <3> QED BY <1>1, <1>2, <1>3, <2>4, <2>6, <3>1, OneMoves DEF Sound
  <2> QED BY <2>2, <2>7, <2>8
<1> QED BY <1>4, <1>5

LEMMA ArmStep ==
  ASSUME ActionsInv, NEW s \in Slots, Arm(s)
  PROVE  ActionsInv'
<1>1. Registry' /\ UNCHANGED <<branches, drafts>>
  BY DEF Arm, ActionsInv, ActionsTyped, Registry
<1>2. /\ target' \in Pulls /\ target'.state = target.state /\ target'.draft = target.draft /\ ~target.draft
      /\ target.armed => target'.armed
  <2>1. PICK yes \in BOOLEAN : yes = TRUE /\ (target' = target \/ target' = [target EXCEPT !.armed = yes])
    BY DEF Arm
  <2>2. target \in Pulls /\ ~target.draft
    BY DEF ActionsInv, ActionsTyped, Arm
  <2> QED BY <2>1, <2>2 DEF Pulls
<1>3. Whole' /\ \A r \in Calls : Sound(r) => Sound(r)'
  BY <1>1, <1>2, HelpsOthers
<1>4. CASE Fails(s, "failed")
  BY <1>1, <1>2, <1>3, <1>4, FailStep
<1>5. CASE ~Fails(s, "failed")
  <2>1. PICK r \in Calls : r = requests[s] /\ r.at = "arm" /\ Sound(r)
    BY DEF ActionsInv, ActionsTyped, Arm, Granted, At
  <2>2. PICK step \in {"arm", "done"}, armed \in BOOLEAN, clean \in BOOLEAN :
          /\ step = "done" /\ Proceeds(s, step, armed, clean)
          /\ (armed => target'.armed) /\ (armed \/ clean)
    <3>1. \/ Proceeds(s, "done", FALSE, TRUE)
          \/ Proceeds(s, "done", TRUE, FALSE) /\ target' = [target EXCEPT !.armed = TRUE]
      BY <1>5 DEF Arm
    <3>2. target' = [target EXCEPT !.armed = TRUE] => target'.armed
      BY DEF ActionsInv, ActionsTyped, Pulls
    <3> QED BY <3>1, <3>2
  <2>3. PICK q \in Calls :
          /\ requests' = [requests EXCEPT ![s] = q]
          /\ q.at = "done" /\ q.status = 200 /\ q.armed = armed /\ q.clean = clean
    BY <2>2, Proceeded DEF ActionsInv
  <2>4. Sound(q)'
    BY <1>2, <2>2, <2>3 DEF Sound, RightStep, Remembers, Working, ReadySteps, ProposalSteps
  <2> QED BY <1>1, <1>2, <1>3, <2>3, <2>4, OneMoves
<1> QED BY <1>4, <1>5

-------------------------------------------------------------------------------
LEMMA DefaultBranchStep ==
  ASSUME ActionsInv, NEW s \in Slots, DefaultBranch(s)
  PROVE  ActionsInv'
<1>1. Registry' /\ UNCHANGED <<target, branches, drafts>>
  BY DEF DefaultBranch, ActionsInv, ActionsTyped, Registry
<1>2. Whole' /\ target' \in Pulls /\ \A r \in Calls : Sound(r) => Sound(r)'
  BY <1>1 DEF ActionsInv, Whole, ActionsTyped, Sound, RightStep, Remembers, Working
<1>3. CASE Fails(s, "default branch")
  BY <1>1, <1>2, <1>3, FailStep
<1>4. CASE Goes(s, "ref")
  <2>1. PICK r \in Calls : r = requests[s] /\ r.at = "head" /\ Sound(r)
    BY DEF ActionsInv, ActionsTyped, DefaultBranch, At
  <2>2. PICK step \in Steps : step = "ref"
    BY DEF Steps, ProposalSteps
  <2>3. PICK q \in Calls :
          /\ requests' = [requests EXCEPT ![s] = q]
          /\ q.at = "ref" /\ q.ask = r.ask /\ q.status = r.status
    BY <1>4, <2>1, <2>2, GoesOn DEF ActionsInv
  <2>4. Sound(q)
    BY <2>1, <2>3 DEF Sound, RightStep, Remembers, Working, ReadySteps, ProposalSteps
  <2> QED BY <1>1, <2>3, <2>4, OnlyOneMoves
<1> QED BY <1>3, <1>4 DEF DefaultBranch

\* Both documents are named after the same slug as their branches.
LEMMA ProposalsNamed ==
  ASSUME NEW s \in Slots
  PROVE  Named(Proposal(s)) /\ Proposal(s).branch = BranchOf(requests[s])
  BY DEF Named, Proposal, BranchOf, Demotion, Promotion

LEMMA ProposalRefStep ==
  ASSUME ActionsInv, NEW s \in Slots, ProposalRef(s)
  PROVE  ActionsInv'
<1> DEFINE b == BranchOf(requests[s])
<1>1. Registry' /\ UNCHANGED <<target, drafts>> /\ target' \in Pulls
  BY DEF ProposalRef, ActionsInv, ActionsTyped, Registry
<1>2. /\ b \notin DOMAIN branches
      /\ branches' = [x \in DOMAIN branches \cup {b} |-> IF x = b THEN {} ELSE branches[x]]
  BY ProposalsNamed DEF ProposalRef
<1>3. /\ DOMAIN branches' = DOMAIN branches \cup {b} /\ branches'[b] = {}
      /\ \A x \in DOMAIN branches : branches'[x] = branches[x]
  BY <1>2
<1>5. Whole'
  BY <1>1, <1>2, <1>3 DEF ActionsInv, Whole
<1>6. \A r \in Calls : Sound(r) => Sound(r)'
  BY <1>1, <1>3 DEF Sound, RightStep, Remembers, Working
<1>7. CASE Fails(s, "failed")
  BY <1>1, <1>5, <1>6, <1>7, FailStep
<1>8. CASE Goes(s, "commit")
  <2>1. PICK r \in Calls : r = requests[s] /\ r.at = "ref" /\ Sound(r)
    BY DEF ActionsInv, ActionsTyped, ProposalRef, Granted, At
  <2>2. PICK step \in Steps : step = "commit"
    BY DEF Steps, ProposalSteps
  <2>3. PICK q \in Calls :
          /\ requests' = [requests EXCEPT ![s] = q]
          /\ q.at = "commit" /\ q.ask = r.ask /\ q.status = r.status
    BY <1>8, <2>1, <2>2, GoesOn DEF ActionsInv
  <2>4. BranchOf(q) \in DOMAIN branches'
    BY <1>3, <2>1, <2>3 DEF BranchOf
  <2>5. Sound(q)'
    BY <2>1, <2>3, <2>4 DEF Sound, RightStep, Remembers, Working, ReadySteps, ProposalSteps
  <2> QED BY <1>1, <1>5, <1>6, <2>3, <2>5, OneMoves
<1> QED BY <1>7, <1>8 DEF ProposalRef

LEMMA ProposalCommitStep ==
  ASSUME ActionsInv, NEW s \in Slots, ProposalCommit(s)
  PROVE  ActionsInv'
<1>1. Registry' /\ UNCHANGED <<target, drafts>> /\ target' \in Pulls
  BY DEF ProposalCommit, ActionsInv, ActionsTyped, Registry
<1>2. PICK r \in Calls : r = requests[s] /\ r.at = "commit" /\ Sound(r)
  BY DEF ActionsInv, ActionsTyped, ProposalCommit, Granted, At
<1>3. PICK p, b : p = Proposal(s) /\ b = BranchOf(r) /\ p.branch = b /\ Named(p)
  BY <1>2, ProposalsNamed
<1>4. b \in DOMAIN branches /\ branches[b] = {} /\ branches' = [branches EXCEPT ![b] = {p}]
  BY <1>2, <1>3 DEF ProposalCommit, Sound, Working
<1>5. /\ DOMAIN branches' = DOMAIN branches /\ branches'[b] = {p}
      /\ \A x \in DOMAIN branches : x # b => branches'[x] = branches[x]
  BY <1>4
<1>6. Whole'
  <2>1. \A d \in drafts : d.branch # b
    BY <1>4 DEF ActionsInv, Whole
  <2> QED BY <1>1, <1>3, <1>5, <2>1 DEF ActionsInv, Whole
<1>7. \A x \in Calls : Sound(x) => Sound(x)'
  BY <1>1, <1>5 DEF Sound, RightStep, Remembers, Working
<1>8. CASE Fails(s, "failed")
  BY <1>1, <1>6, <1>7, <1>8, FailStep
<1>9. CASE Goes(s, "pull")
  <2>1. PICK step \in Steps : step = "pull"
    BY DEF Steps, ProposalSteps
  <2>2. PICK q \in Calls :
          /\ requests' = [requests EXCEPT ![s] = q]
          /\ q.at = "pull" /\ q.ask = r.ask /\ q.status = r.status
    BY <1>2, <1>9, <2>1, GoesOn DEF ActionsInv
  <2>3. BranchOf(q) = b
    BY <1>3, <2>2 DEF BranchOf
  <2>4. Sound(q)'
    BY <1>2, <1>4, <1>5, <2>2, <2>3 DEF Sound, RightStep, Remembers, Working, ReadySteps, ProposalSteps
  <2> QED BY <1>1, <1>6, <1>7, <2>2, <2>4, OneMoves
<1> QED BY <1>8, <1>9 DEF ProposalCommit

LEMMA ProposalPullStep ==
  ASSUME ActionsInv, NEW s \in Slots, ProposalPull(s)
  PROVE  ActionsInv'
<1>1. Registry' /\ UNCHANGED <<target, branches>> /\ target' \in Pulls
  BY DEF ProposalPull, ActionsInv, ActionsTyped, Registry
<1>2. PICK r \in Calls : r = requests[s] /\ r.at = "pull" /\ Sound(r)
  BY DEF ActionsInv, ActionsTyped, ProposalPull, Granted, At
<1>3. PICK p, b : p = Proposal(s) /\ b = BranchOf(r) /\ p.branch = b
  BY <1>2, ProposalsNamed
<1>4. b \in DOMAIN branches /\ branches[b] # {}
  BY <1>2, <1>3 DEF Sound, Working
<1>5. drafts' = drafts \cup {[branch |-> b, docs |-> branches[b]]}
  BY <1>3 DEF ProposalPull
<1>6. Whole'
  BY <1>1, <1>4, <1>5 DEF ActionsInv, Whole
<1>7. \A x \in Calls : Sound(x) => Sound(x)'
  BY <1>1 DEF Sound, RightStep, Remembers, Working
<1>8. CASE Fails(s, "failed")
  BY <1>1, <1>6, <1>7, <1>8, FailStep
<1>9. CASE Answers(s, 200)
  <2>1. PICK status \in Nat : status = 200
    OBVIOUS
  <2>2. PICK q \in Calls :
          /\ requests' = [requests EXCEPT ![s] = q]
          /\ q.at = "done" /\ q.ask = r.ask
    BY <1>2, <1>9, <2>1, Answered DEF ActionsInv
  <2>3. q.ask.kind # "ready"
    BY <1>2, <2>2 DEF Sound, RightStep, ProposalSteps
  <2>4. Sound(q)'
    BY <2>2, <2>3 DEF Sound, RightStep, Remembers, Working, ReadySteps, ProposalSteps
  <2> QED BY <1>1, <1>6, <1>7, <2>2, <2>4, OneMoves
<1> QED BY <1>8, <1>9 DEF ProposalPull

-------------------------------------------------------------------------------
LEMMA ActionStart == ActionInit => ActionsInv
<1> SUFFICES ASSUME ActionInit PROVE ActionsInv
  OBVIOUS
<1>1. \A s \in Slots : requests[s] = NoCall
  BY DEF ActionInit
<1>2. requests \in [Slots -> Calls]
  BY NoCallTyped DEF ActionInit
<1>3. target \in Pulls
  BY DEF ActionInit, Pulls
<1>4. Registry
  BY DEF ActionInit, Registry
<1>5. Whole
  BY DEF ActionInit, Whole
<1>6. Sound(NoCall)
  BY NoCallTyped DEF Sound, RightStep, Remembers, Working, ReadySteps, ProposalSteps
<1> QED BY <1>1, <1>2, <1>3, <1>4, <1>5, <1>6 DEF ActionsInv, ActionsTyped

\* People, GitHub and the registry.
LEMMA WorldStep ==
  ASSUME ActionsInv,
         RefreshRegistry \/ InstallationMoves \/ PeopleEdit \/ GithubMoves \/ BranchDeleted
         \/ UNCHANGED actionVars
  PROVE  ActionsInv'
<1>1. CASE RefreshRegistry \/ InstallationMoves \/ UNCHANGED actionVars
  <2>1. UNCHANGED <<target, branches, drafts, requests>>
    BY <1>1 DEF RefreshRegistry, InstallationMoves, actionVars
  <2>2. Registry'
    BY <1>1, ActionsAssumption DEF RefreshRegistry, InstallationMoves, actionVars, ActionsInv, ActionsTyped, Registry
  <2> QED BY <2>1, <2>2 DEF ActionsInv, ActionsTyped, Whole, Sound, RightStep, Remembers, Working
<1>2. CASE PeopleEdit
  <2>1. UNCHANGED <<branches, drafts>> /\ Registry'
    BY <1>2 DEF PeopleEdit, ActionsInv, ActionsTyped, Registry
  <2>2. target' \in Pulls
    BY <1>2 DEF PeopleEdit, ActionsInv, ActionsTyped, Pulls
  <2>3. PICK yes \in BOOLEAN : yes = TRUE
    OBVIOUS
  <2>4. requests' = [s \in Slots |-> [requests[s] EXCEPT !.touched = yes]]
    BY <1>2, <2>3 DEF PeopleEdit, Touched
  <2>5. ASSUME NEW s \in Slots
        PROVE  requests'[s] \in Calls /\ Sound(requests[s])'
    <3>1. PICK r \in Calls : r = requests[s] /\ Sound(r)
      BY DEF ActionsInv, ActionsTyped
    <3>2. PICK q : q = [r EXCEPT !.touched = yes] /\ requests'[s] = q
      BY <2>4, <3>1
    <3>3. q \in Calls /\ q.at = r.at /\ q.ask = r.ask /\ q.status = r.status /\ q.touched = yes
      BY <3>2 DEF Calls
    <3>4. Sound(q)'
      BY <2>1, <2>3, <3>1, <3>3 DEF Sound, RightStep, Remembers, Working, BranchOf
    <3> QED BY <3>2, <3>3, <3>4 DEF Sound, RightStep, Remembers, Working
  <2>6. requests' \in [Slots -> Calls]
    BY <2>4, <2>5
  <2>7. Whole'
    BY <2>1 DEF ActionsInv, Whole
  <2> QED BY <2>1, <2>2, <2>5, <2>6, <2>7 DEF ActionsInv, ActionsTyped
<1>3. CASE GithubMoves
  <2>1. UNCHANGED <<branches, drafts, requests>> /\ Registry'
    BY <1>3 DEF GithubMoves, ActionsInv, ActionsTyped, Registry
  <2>2. /\ target' \in Pulls
        /\ target'.state = "OPEN" =>
             target.state = "OPEN" /\ target'.draft = target.draft /\ target'.armed = target.armed
    <3>1. target \in Pulls /\ target.state = "OPEN"
      BY <1>3 DEF GithubMoves, ActionsInv, ActionsTyped
    <3>2. CASE target' = [target EXCEPT !.green = ~target.green]
      <4>1. PICK g \in BOOLEAN : target' = [target EXCEPT !.green = g]
        BY <3>2
      <4> QED BY <3>1, <4>1 DEF Pulls
    <3>3. CASE target' = [target EXCEPT !.state = "MERGED"]
      BY <3>1, <3>3 DEF Pulls
    <3> QED BY <1>3, <3>2, <3>3 DEF GithubMoves
  <2> QED BY <2>1, <2>2 DEF ActionsInv, ActionsTyped, Whole, Sound, RightStep, Remembers, Working
<1>4. CASE BranchDeleted
  <2>1. UNCHANGED <<target, requests>> /\ Registry'
    BY <1>4 DEF BranchDeleted, ActionsInv, ActionsTyped, Registry
  <2>2. PICK b \in DOMAIN branches :
          /\ \A s \in Slots : Pending(s) /\ requests[s].ask.kind # "ready" => Proposal(s).branch # b
          /\ branches' = [x \in DOMAIN branches \ {b} |-> branches[x]]
          /\ drafts' = {d \in drafts : d.branch # b}
    BY <1>4 DEF BranchDeleted
  <2>3. DOMAIN branches' = DOMAIN branches \ {b} /\ \A x \in DOMAIN branches' : branches'[x] = branches[x]
    BY <2>2
  <2>4. Whole'
    BY <2>2, <2>3 DEF ActionsInv, Whole
  <2>5. ASSUME NEW s \in Slots
        PROVE  Sound(requests[s])'
    <3>1. Sound(requests[s])
      BY DEF ActionsInv
    <3>2. requests[s].at \in {"commit", "pull"} => BranchOf(requests[s]) # b
      BY <2>2, <3>1, ProposalsNamed DEF Pending, Sound, RightStep, ProposalSteps
    <3>3. Working(requests[s])'
      BY <2>1, <2>3, <3>1, <3>2 DEF Sound, Working
    <3> QED BY <2>1, <3>1, <3>3 DEF Sound, RightStep, Remembers
  <2> QED BY <2>1, <2>4, <2>5 DEF ActionsInv, ActionsTyped
<1> QED BY <1>1, <1>2, <1>3, <1>4

LEMMA ActionStep ==
  ASSUME NEW asks, asks \subseteq RequestBodies, ActionsInv, [ActionNext(asks)]_actionVars
  PROVE  ActionsInv'
<1>1. CASE RefreshRegistry \/ InstallationMoves \/ PeopleEdit \/ GithubMoves \/ BranchDeleted
           \/ UNCHANGED actionVars
  BY <1>1, WorldStep
<1>2. ASSUME NEW s \in Slots, NEW ask \in asks, Ask(s, ask)
      PROVE  ActionsInv'
  BY <1>2, AskStep
<1>3. ASSUME NEW s \in Slots,
             \/ \E step \in {"lookup", "head"} : CallFails(s, step, FALSE)
             \/ \E step \in {"mark", "arm", "ref", "commit", "pull"} : CallFails(s, step, TRUE)
      PROVE  ActionsInv'
  BY <1>3, CallFailsStep
<1>4. ASSUME NEW s \in Slots, LookUp(s) \/ MarkReady(s) \/ Arm(s)
      PROVE  ActionsInv'
  BY <1>4, LookUpStep, MarkReadyStep, ArmStep
<1>5. ASSUME NEW s \in Slots, DefaultBranch(s) \/ ProposalRef(s) \/ ProposalCommit(s) \/ ProposalPull(s)
      PROVE  ActionsInv'
  BY <1>5, DefaultBranchStep, ProposalRefStep, ProposalCommitStep, ProposalPullStep
<1> QED BY <1>1, <1>2, <1>3, <1>4, <1>5 DEF ActionNext

\* A ready-merge answered with success leaves a pull request that will merge, for any
\* number of requests, lost answers and repeats (pr-actions.ts), until people edit it.
THEOREM SuccessMeansMerging ==
  ASSUME NEW CONSTANT asks, asks \subseteq RequestBodies
  PROVE  ActionSpec(asks) => []ReadyMeansMerging
<1>1. ActionsInv => ReadyMeansMerging
  BY DEF ActionsInv, Sound, Remembers, ReadyMeansMerging
<1>2. ActionInit => ActionsInv
  BY ActionStart
<1>3. ActionsInv /\ [ActionNext(asks)]_actionVars => ActionsInv'
  BY ActionStep
<1> QED BY <1>1, <1>2, <1>3, PTL DEF ActionSpec

\* Every open proposal holds one document and no two hold the same, however often and
\* in whatever order the buttons are pressed (scaffold-pr.ts, demotion-action.ts,
\* promotion-action.ts).
THEOREM ProposalsStayWhole ==
  ASSUME NEW CONSTANT asks, asks \subseteq RequestBodies
  PROVE  ActionSpec(asks) => []ProposalsAreWhole
<1>1. ActionsInv => ProposalsAreWhole
  <2> SUFFICES ASSUME ActionsInv PROVE ProposalsAreWhole
    OBVIOUS
  <2>1. ASSUME NEW d \in drafts
        PROVE  branches[d.branch] = d.docs /\ Cardinality(d.docs) = 1
    <3>1. branches[d.branch] = d.docs /\ d.docs # {} /\ d.branch \in DOMAIN branches
      BY DEF ActionsInv, Whole
    <3>2. PICK p \in d.docs : \A q \in d.docs : q = p
      BY <3>1 DEF ActionsInv, Whole
    <3>3. Cardinality({p}) = 1
      BY FS_Singleton
    <3>4. d.docs = {p}
      BY <3>2
    <3> QED BY <3>1, <3>3, <3>4
  <2>2. ASSUME NEW d \in drafts, NEW e \in drafts, NEW x \in d.docs, NEW y \in e.docs, x.path = y.path
        PROVE  d = e
    <3>1. x.branch = d.branch /\ y.branch = e.branch /\ Named(x) /\ Named(y)
      BY DEF ActionsInv, Whole
    <3>2. x.branch = y.branch
      BY <2>2, <3>1 DEF Named
    <3> QED BY <3>1, <3>2 DEF ActionsInv, Whole
  <2> QED BY <2>1, <2>2 DEF ProposalsAreWhole
<1>2. ActionInit => ActionsInv
  BY ActionStart
<1>3. ActionsInv /\ [ActionNext(asks)]_actionVars => ActionsInv'
  BY ActionStep
<1> QED BY <1>1, <1>2, <1>3, PTL DEF ActionSpec
===============================================================================
