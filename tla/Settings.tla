-------------------------------- MODULE Settings --------------------------------
(***************************************************************************)
(* The instance's configuration: its file, the process that loaded it and  *)
(* the two endpoints through which the browser writes part of it           *)
(* (src/server/config.ts, backend.ts, api.ts, index.ts).                   *)
(*                                                                         *)
(* A file maps the paths it sets to values; "bad" is any value of the      *)
(* wrong type or range.  Lists are "empty" or not.                         *)
(***************************************************************************)
EXTENDS FiniteSets, Functions

VARIABLES
  embedded,  \* does a host mount the backend and supply the App's key?
  configFile,      \* the configuration file: does it parse, and what it sets
  byHand,    \* what the operator last wrote into it by hand
  live,      \* the configuration in memory, or Down
  answer     \* what the last request of the browser was answered, or edited
settingVars == <<embedded, configFile, byHand, live, answer>>

Missing == "missing"
Down == [down |-> TRUE]
Running == live # Down
Content0 == [p \in {} |-> Missing]

(***************************************************************************)
(* The schema.                                                             *)
(***************************************************************************)
Safe == {"owners", "retentionDays", "intervals.sweepMs", "intervals.hotMs", "notifications.enabled"}
RoutingWritable == {"runnerRouting.enabled", "runnerRouting.overrides"}
FileOnly == {"tokenSource", "app.appId", "app.privateKeyPath", "webhooks.enabled", "webhooks.secretPath",
             "notifications.command", "notifications.webhookUrl", "runnerRouting.targetRepo", "deploy"}
Paths == Safe \cup RoutingWritable \cup FileOnly

Defaults ==
  [p \in Paths |->
     CASE p = "owners" -> "empty"
       [] p = "tokenSource" -> "gh"
       [] p \in {"notifications.enabled", "webhooks.enabled", "runnerRouting.enabled"} -> "false"
       [] p = "notifications.command" -> "empty"
       [] p \in {"app.appId", "app.privateKeyPath", "webhooks.secretPath", "notifications.webhookUrl"} -> Missing
       [] OTHER -> "default"]

Value(f, p) == IF p \in DOMAIN f THEN f[p] ELSE Defaults[p]

\* A bad value falls back to the default; a bad value is an error; the others
\* are taken as they are.
Sanitised == {p \in Paths : p \in RoutingWritable \cup {"runnerRouting.targetRepo"}}
Checked   == FileOnly \cup {"notifications.enabled"}

AppIsComplete(f) ==
  /\ Value(f, "app.appId") # Missing
  /\ embedded \/ Value(f, "app.privateKeyPath") # Missing
HasSink(f) == Value(f, "notifications.command") # "empty" \/ Value(f, "notifications.webhookUrl") # Missing
Accepts(f, complete) ==
  /\ \A p \in Checked \ Sanitised : Value(f, p) # "bad"
  /\ Value(f, "tokenSource") = "app" => complete
  /\ Value(f, "webhooks.enabled") = "true" => Value(f, "webhooks.secretPath") # Missing
  /\ Value(f, "notifications.enabled") = "true" => HasSink(f)

\* At boot a host's key makes the path of a key file optional; after a write it
\* is required again.
BootAccepts(f) == Accepts(f, AppIsComplete(f))
WriteAccepts(f) ==
  Accepts(f, Value(f, "app.appId") # Missing /\ Value(f, "app.privateKeyPath") # Missing)

LoadConfig(f) ==
  [values |-> [p \in Paths |-> IF p \in Sanitised /\ Value(f, p) = "bad" THEN Defaults[p] ELSE Value(f, p)],
   hotMsExplicit |-> "intervals.hotMs" \in DOMAIN f]

(***************************************************************************)
(* Boot: the configuration, the credentials, the owners; whatever fails    *)
(* ends the process (index.ts) or is thrown to the host.                   *)
(***************************************************************************)
SettingsInit ==
  /\ embedded \in BOOLEAN
  /\ configFile = [parses |-> TRUE, keys |-> Content0]
  /\ byHand = Content0 /\ live = Down /\ answer = "none"

\* Configured owners win; otherwise the accounts of the App or the viewer.
ResolveOwners(config) ==
  IF config.values["owners"] # "empty" THEN config
  ELSE [config EXCEPT !.values["owners"] = "derived"]

Boot ==
  /\ ~Running /\ configFile.parses /\ BootAccepts(configFile.keys)
  /\ live' = ResolveOwners(LoadConfig(configFile.keys)) /\ answer' = "none"
  /\ UNCHANGED <<embedded, configFile, byHand>>

\* A crash, or POST /api/admin/restart.
ProcessEnds == Running /\ live' = Down /\ answer' = "none" /\ UNCHANGED <<embedded, configFile, byHand>>

\* The operator edits the file: one key set or removed, or a typing error.
HandEdit(p, v) ==
  LET kept == Restrict(configFile.keys, DOMAIN configFile.keys \ {p})
      keys == IF v = Missing THEN kept
              ELSE [q \in DOMAIN kept \cup {p} |-> IF q = p THEN v ELSE kept[q]]
  IN /\ configFile' = [parses |-> TRUE, keys |-> keys]
     /\ byHand' = Restrict(keys, DOMAIN keys \cap FileOnly)
     /\ answer' = "edited" /\ UNCHANGED <<embedded, live>>
Corrupted == configFile.parses /\ configFile' = [configFile EXCEPT !.parses = FALSE] /\ UNCHANGED <<embedded, byHand, live, answer>>
Repaired == ~configFile.parses /\ configFile' = [configFile EXCEPT !.parses = TRUE] /\ UNCHANGED <<embedded, byHand, live, answer>>

(***************************************************************************)
(* PUT /api/config and PUT /api/runner-routing.                            *)
(***************************************************************************)
\* Only writable keys, no bad value, and no empty list of owners.
ValidPatch(body, writable) ==
  /\ DOMAIN body \subseteq writable /\ \A p \in DOMAIN body : body[p] # "bad"
  /\ "owners" \in DOMAIN body => body["owners"] # "empty"

Block(p) == CASE p \in {"notifications.enabled", "notifications.command", "notifications.webhookUrl"} -> "notifications"
              [] p \in {"intervals.sweepMs", "intervals.hotMs"} -> "intervals"
              [] p \in RoutingWritable \cup {"runnerRouting.targetRepo"} -> "runnerRouting"
              [] OTHER -> p

\* Variant (not the code): a block of the patch replaces the block of the configFile.
MergedFlat(keys, patch) ==
  LET kept == {p \in DOMAIN keys : \A q \in DOMAIN patch : Block(p) # Block(q)}
  IN [p \in kept \cup DOMAIN patch |-> IF p \in DOMAIN patch THEN patch[p] ELSE keys[p]]

\* Only the keys of the patch change; blocks are merged key by key.
Merged(keys, patch) ==
  [p \in DOMAIN keys \cup DOMAIN patch |-> IF p \in DOMAIN patch THEN patch[p] ELSE keys[p]]

\* The owners that were derived at boot stay when the file names none.
KeepOwners(config) ==
  IF config.values["owners"] = "empty" THEN [config EXCEPT !.values["owners"] = live.values["owners"]]
  ELSE config

\* Read, merge, write, load again: an error of the load comes after the write.
Put(body, writable) ==
  LET next == Merged(configFile.keys, body) IN
  /\ Running
  /\ UNCHANGED <<embedded, byHand>>
  /\ \/ ~ValidPatch(body, writable) /\ answer' = "400" /\ UNCHANGED <<configFile, live>>
     \/ ValidPatch(body, writable) /\ ~configFile.parses /\ answer' = "500" /\ UNCHANGED <<configFile, live>>
     \/ /\ ValidPatch(body, writable) /\ configFile.parses
        /\ configFile' = [configFile EXCEPT !.keys = next]
        /\ IF WriteAccepts(next)
           THEN answer' = "200" /\ live' = KeepOwners(LoadConfig(next))
           ELSE answer' = "500" /\ UNCHANGED live
PutConfig(body)  == Put(body, Safe)
PutRouting(body) == Put(body, RoutingWritable)

SettingsNext(edits, bodies, routings) ==
  \/ Boot \/ ProcessEnds \/ Corrupted \/ Repaired
  \/ (\E e \in edits : HandEdit(e[1], e[2]))
  \/ (\E b \in bodies : PutConfig(b))
  \/ (\E b \in routings : PutRouting(b))

(***************************************************************************)
(* What the panel shows, and what the layers above make of it.             *)
(***************************************************************************)
\* Per key: set in the file or default; a file that cannot be read is all default.
ConfigFileSources == [p \in Paths |-> IF configFile.parses /\ p \in DOMAIN configFile.keys THEN "file" ELSE "default"]

\* A webhook URL is shown as its host only.
Shown(config) ==
  [config.values EXCEPT !["notifications.webhookUrl"] = IF @ = Missing THEN @ ELSE "masked"]

\* An instance entry shadows the in-repository one as a whole; an in-repository
\* entry that would make this instance touch a host outside the list is dropped.
\* An entry is [health, clone]: its hosts; "none" is one that cannot be derived.
InRepoDeployAllowed(entry, allowlist, ancestry) ==
  LET hosts == entry.health \cup IF ancestry = "clone" THEN {entry.clone} ELSE {}
  IN "none" \notin hosts /\ hosts \subseteq allowlist
EffectiveDeployMap(instance, inRepo, limited, allowlist, ancestry) ==
  LET taken == {r \in DOMAIN inRepo \ DOMAIN instance :
                  limited => InRepoDeployAllowed(inRepo[r], allowlist, ancestry)}
  IN [r \in DOMAIN instance \cup taken |-> IF r \in DOMAIN instance THEN instance[r] ELSE inRepo[r]]

\* A repository's environments: a name other than qa or prod, or no health URL, is
\* an error; qa deploys by itself unless it says otherwise.
NormalizeDeployConfig(envs) ==
  IF \E e \in envs : e.name \notin {"qa", "prod"} \/ e.health = Missing THEN "bad"
  ELSE {[e EXCEPT !.auto = IF @ = Missing THEN (IF e.name = "qa" THEN "true" ELSE "false") ELSE @] : e \in envs}

\* The guard of mutating requests: no cross-site request, no foreign origin; a
\* client that sends neither header is let through.
PassesGuard(request, allowedHosts) ==
  /\ request.site \in {Missing, "same-origin", "none"}
  /\ request.origin # Missing => request.origin \in allowedHosts

\* Cost actuals are imported all or none; a row for a day that is none, or with an
\* unknown key, is invalid; the scope defaults to the fleet.
MaxActuals == 1000
ActualIsValid(r) ==
  /\ DOMAIN r \subseteq {"scope", "date", "dollars", "source"}
  /\ "date" \in DOMAIN r /\ r.date # "bad" /\ "dollars" \in DOMAIN r /\ r.dollars # "bad"
  /\ \A k \in {"scope", "source"} \cap DOMAIN r : r[k] # "bad"
CostActuals(rows) ==
  IF rows = {} \/ Cardinality(rows) > MaxActuals \/ \E r \in rows : ~ActualIsValid(r) THEN {}
  ELSE {[scope  |-> IF "scope" \in DOMAIN r THEN r.scope ELSE "fleet", date |-> r.date,
         dollars |-> r.dollars, source |-> IF "source" \in DOMAIN r THEN r.source ELSE "none"] : r \in rows}

-------------------------------------------------------------------------------
\* What only the operator may write survives every request of the browser, the
\* rejected and the failed ones included: token source, keys, hooks, the command
\* and the target of the routing stay what the operator last wrote, and the running
\* configuration is one that loadConfig would accept, with at least one owner; after
\* an accepted request its owners are those of the file when that names some
\* (writeConfigPatch, writeRunnerRoutingPatch, apply in backend.ts).
HandWrittenSurvives ==
  /\ Restrict(configFile.keys, DOMAIN configFile.keys \cap FileOnly) = byHand
  /\ Running => BootAccepts(live.values) /\ live.values["owners"] # "empty"
  /\ Running /\ answer = "200" /\ Value(configFile.keys, "owners") # "empty"
       => live.values["owners"] = Value(configFile.keys, "owners")

\* "Normalization mirrors loadConfig: the accepted patch round-trips through the
\* config file unchanged": only the operator can turn a file that boots into one
\* that does not.
AcceptedPatchBoots ==
  [][BootAccepts(configFile.keys) /\ ~BootAccepts(configFile'.keys) => answer' = "edited"]_settingVars
================================================================================
