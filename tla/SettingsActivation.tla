-------------------------- MODULE SettingsActivation --------------------------
(***************************************************************************)
(* What a promoted Runtime Settings candidate does outside PostgreSQL:     *)
(* after the commit a durable activation intent writes the configuration   *)
(* files, publishes a version through PostgreSQL and Redis, and makes the  *)
(* processes serve the new value (services/runtime_settings_lifecycle.py,  *)
(* services/runtime_settings.py).                                          *)
(*                                                                         *)
(* Two processes matter: "api", which serves the requests of this module   *)
(* and runs the activations, and "worker", which builds the shadow graphs. *)
(* Each has an environment and settings read from it, and takes up a       *)
(* version it has not seen when it refreshes.                              *)
(***************************************************************************)
EXTENDS SettingsCandidates, Sequences

CONSTANTS
  Attempts,     \* threads that may apply an intent at the same time
  MaxSaves,     \* bound: settings saved directly
  MaxVersions,  \* bound: published versions
  MaxEvents     \* bound: further candidates, saves, batches, build requests that fail or
                \* come late, silences of Redis, failed writes, activations at the same
                \* time and restarts, all together

ASSUME ActivationAssumption ==
  /\ MaxSaves \in Nat
  /\ MaxVersions \in Nat
  /\ MaxEvents \in Nat

Processes == {"api", "worker"}
Directions == {"promotion", "rollback"}
Files == [rebuild : Values, hot : 0 .. MaxSaves]

VARIABLES
  files,        \* .env and settings.json: the rebuild value, the revision of the rest
  env,          \* os.environ of each process, rebuild value
  slice,        \* the rebuild value its cached Settings hold
  seenVersion,  \* _LAST_RUNTIME_SETTINGS_VERSION
  seenFiles,    \* _LAST_RUNTIME_CONFIGURATION_IDENTITY
  versions,     \* RuntimeSettingsVersion rows
  announced,    \* the version Redis holds, 0 when none
  audit,        \* latest RuntimeSettingsAudit: files it describes, rebuild key pending
  intents,      \* RuntimeSettingsActivationIntent rows, oldest first
  attempt,      \* what each thread is doing
  events,       \* events of MaxEvents so far
  deviations    \* history: the known ways the settings part from the pointers

activationVars == <<files, env, slice, seenVersion, seenFiles, versions, announced, audit,
                    intents, attempt, events, deviations>>
processVars == <<env, slice, seenVersion, seenFiles>>

Idle == [pc |-> "idle", intent |-> 0]

ActivationInit ==
  /\ CandidatesInit
  /\ files = [rebuild |-> Base, hot |-> 0]
  /\ env = [p \in Processes |-> Base]
  /\ slice = [p \in Processes |-> Base]
  /\ seenVersion = [p \in Processes |-> 0]
  /\ seenFiles = [p \in Processes |-> files]
  /\ versions = <<>>
  /\ announced = 0
  /\ audit = [files |-> files, pending |-> FALSE]
  /\ intents = <<>>
  /\ attempt = [a \in Attempts |-> Idle]
  /\ events = 0
  /\ deviations = {}

Event == events < MaxEvents /\ events' = events + 1
Answers(answered) == IF answered THEN UNCHANGED events ELSE Event

\* What a process reads from Redis: the announced version, or nothing.
Reads(version) ==
  \/ version = announced /\ UNCHANGED events
  \/ version = 0 /\ announced # 0 /\ Event

Pending == audit.files = files /\ audit.pending
IntentOf(c, direction) ==
  {i \in DOMAIN intents : intents[i].candidate = c /\ intents[i].direction = direction}
Expected(i) == IF intents[i].direction = "promotion" THEN "promoted" ELSE "rolled_back"
Wanted(i) ==
  LET c == intents[i].candidate
  IN IF intents[i].direction = "promotion" THEN c ELSE baseSlice[c]

(***************************************************************************)
(* _create_activation_intent: one per candidate and direction, for ever.   *)
(***************************************************************************)
CreateIntent(c, direction) ==
  intents' = IF IntentOf(c, direction) # {} THEN intents
             ELSE Append(intents, [candidate |-> c, direction |-> direction,
                                   status |-> "pending", expired |-> FALSE])

StageCandidate(c) ==
  /\ Stage(c, slice["api"], Pending)
  /\ IF \A d \in Candidates : candidate[d] = "none" THEN UNCHANGED events ELSE Event
  /\ UNCHANGED <<files, processVars, versions, announced, audit, intents, attempt, deviations>>

EvaluateCandidate(c, k) ==
  /\ Evaluate(c, k, slice["api"])
  /\ UNCHANGED activationVars

AbandonCandidate(c) ==
  /\ Abandon(c, slice["api"])
  /\ UNCHANGED activationVars

Ingest(k) ==
  /\ Reindex(k)
  /\ Event
  /\ UNCHANGED <<files, processVars, versions, announced, audit, intents, attempt, deviations>>

PromoteCandidate(c) ==
  /\ PromoteRows(c, slice["api"])
  /\ CreateIntent(c, "promotion")
  /\ deviations' = deviations
       \union (IF IntentOf(c, "promotion") # {} THEN {"again"} ELSE {})
       \union (IF \E k \in KBs : pointer[k].owner # slice["api"] THEN {"ahead"} ELSE {})
  /\ UNCHANGED <<files, processVars, versions, announced, audit, attempt, events>>

RollBackCandidate(c) ==
  /\ RollBackRows(c)
  /\ CreateIntent(c, "rollback")
  /\ UNCHANGED <<files, processVars, versions, announced, audit, attempt, events,
                 deviations>>

(***************************************************************************)
(* refresh_runtime_settings_if_needed of process p, which reads "version"  *)
(* from Redis, 0 when Redis does not answer.  Rebuild-required values are  *)
(* taken up only with the row of an activation, and that row is looked at  *)
(* only when the version is new or the files are not.                      *)
(***************************************************************************)
TakesRebuild(p, version) ==
  /\ version # 0
  /\ version # seenVersion[p] \/ files = seenFiles[p]
  /\ versions[version].intent # 0

Refreshes(p, version) ==
  /\ env' = [env EXCEPT ![p] = IF TakesRebuild(p, version) THEN files.rebuild ELSE @]
  /\ slice' = [slice EXCEPT ![p] = env'[p]]
  /\ seenVersion' = [seenVersion EXCEPT ![p] = IF version = 0 THEN @ ELSE version]
  /\ seenFiles' = [seenFiles EXCEPT ![p] = files]

\* The middleware of the API: only when the version or the files are new.
Refresh(version) ==
  /\ Reads(version)
  /\ files # seenFiles["api"] \/ version \notin {0, seenVersion["api"]}
  /\ Refreshes("api", version)
  /\ UNCHANGED <<candidateVars, files, versions, announced, audit, intents, attempt,
                 deviations>>

(***************************************************************************)
(* The worker refreshes by force before every build.  A request may be     *)
(* delivered late or again, when the candidate has long been decided.      *)
(***************************************************************************)
RunBuild(c, k, version) ==
  /\ Refreshes("worker", version)
  /\ \/ /\ BuildShadow(c, k, slice'["worker"])
        /\ IF build[c][k] = "failed" THEN version = announced /\ Event ELSE Reads(version)
     \/ BuildFails(c, k, slice'["worker"]) /\ version = announced /\ Event
  /\ deviations' = deviations \union
       (IF candidate[c] \in {"promoted", "rolled_back"} THEN {"late"} ELSE {})
  /\ UNCHANGED <<files, versions, announced, audit, intents, attempt>>

(***************************************************************************)
(* apply_runtime_settings_activation_intent, first transaction.  It runs   *)
(* right after a promotion or a rollback, on request, and from the         *)
(* reconcile command; an intent someone else applies is taken over when    *)
(* its lease is over.                                                      *)
(***************************************************************************)
BeginApply(a, i) ==
  /\ attempt[a].pc = "idle"
  /\ i \in DOMAIN intents
  /\ candidate[intents[i].candidate] = Expected(i)
  /\ intents[i].status # "applied"
  /\ intents[i].status = "applying" => intents[i].expired
  /\ intents' = [intents EXCEPT ![i].status = "applying", ![i].expired = FALSE]
  /\ attempt' = [attempt EXCEPT ![a] = [pc |-> "write", intent |-> i]]
  /\ IF \A b \in Attempts : attempt[b] = Idle THEN UNCHANGED events ELSE Event
  /\ UNCHANGED <<candidateVars, files, processVars, versions, announced, audit, deviations>>

LeaseExpires(i) ==
  /\ i \in DOMAIN intents
  /\ intents[i].status = "applying"
  /\ ~intents[i].expired
  /\ intents' = [intents EXCEPT ![i].expired = TRUE]
  /\ UNCHANGED <<candidateVars, files, processVars, versions, announced, audit, attempt,
                 events, deviations>>

(***************************************************************************)
(* _update_env_file and _apply_runtime_env; the cached Settings stay.      *)
(***************************************************************************)
WriteFiles(a) ==
  LET i == attempt[a].intent IN
  /\ attempt[a].pc = "write"
  /\ files' = [files EXCEPT !.rebuild = Wanted(i)]
  /\ env' = [env EXCEPT !["api"] = Wanted(i)]
  /\ attempt' = [attempt EXCEPT ![a].pc = "publish"]
  /\ deviations' = deviations \union (IF i < Len(intents) THEN {"overtaken"} ELSE {})
  /\ UNCHANGED <<candidateVars, slice, seenVersion, seenFiles, versions, announced, audit,
                 intents, events>>

\* Faulty variant: the idempotency key is not looked up.
NoRow(i) == {}

RowsOf(i) == {v \in DOMAIN versions : versions[v].intent = i}

\* Faulty variant: the publisher goes on with the settings it has cached.
PublishedSlice(activation) == slice["api"]

\* _local_runtime_refresh: a save leaves the rebuild value of the process alone.
LocalSlice(activation) == IF activation THEN files.rebuild ELSE env["api"]

(***************************************************************************)
(* publish_runtime_settings_version of row v: Redis may not answer, the    *)
(* own process takes the version up all the same.                          *)
(***************************************************************************)
Announce(v, activation, answered) ==
  /\ announced' = IF answered THEN v ELSE announced
  /\ env' = [env EXCEPT !["api"] = IF activation THEN files'.rebuild ELSE @]
  /\ slice' = [slice EXCEPT !["api"] = LocalSlice(activation)]
  /\ seenVersion' = [seenVersion EXCEPT !["api"] = v]
  /\ UNCHANGED seenFiles

(***************************************************************************)
(* The activation publishes under the intent as idempotency key.  A row    *)
(* published earlier for other files is an error.                          *)
(***************************************************************************)
PublishVersion(a, answered) ==
  LET i == attempt[a].intent
      old == RowsOf(i)
  IN
  /\ attempt[a].pc = "publish"
  /\ UNCHANGED files
  /\ \/ /\ old = {}
        /\ Len(versions) < MaxVersions
        /\ versions' = Append(versions, [intent |-> i, files |-> files])
        /\ Announce(Len(versions'), TRUE, answered)
     \/ \E v \in old :
          /\ versions[v].files = files
          /\ UNCHANGED versions
          /\ Announce(v, TRUE, answered)
  /\ attempt' = [attempt EXCEPT ![a].pc = IF answered THEN "confirmed" ELSE "unconfirmed"]
  /\ Answers(answered)
  /\ UNCHANGED <<candidateVars, audit, intents, deviations>>

(***************************************************************************)
(* A step of the attempt raises: the file lock or a rename fails, or the   *)
(* row of the intent was published for other files.                        *)
(***************************************************************************)
ApplyRaises(a) ==
  /\ \/ attempt[a].pc = "write" /\ Event
     \/ attempt[a].pc = "publish" /\ UNCHANGED events
          /\ \E v \in RowsOf(attempt[a].intent) : versions[v].files # files
  /\ attempt' = [attempt EXCEPT ![a].pc = "raised"]
  /\ UNCHANGED <<candidateVars, files, processVars, versions, announced, audit, intents,
                 deviations>>

(***************************************************************************)
(* The last transaction.  A failure is written whatever the status is; a   *)
(* success only by an attempt that still finds the intent applying.        *)
(***************************************************************************)
EndApply(a) ==
  LET i == attempt[a].intent
      confirmed == attempt[a].pc = "confirmed"
      stillOurs == attempt[a].pc # "raised" /\ intents[i].status = "applying"
  IN
  /\ attempt[a].pc \in {"confirmed", "unconfirmed", "raised"}
  /\ intents' =
       IF attempt[a].pc = "raised" \/ (stillOurs /\ ~confirmed)
         THEN [intents EXCEPT ![i].status = "failed", ![i].expired = FALSE]
       ELSE IF stillOurs
         THEN [intents EXCEPT ![i].status = "applied", ![i].expired = FALSE]
       ELSE intents
  /\ audit' = IF stillOurs /\ confirmed /\ intents[i].direction = "promotion"
                   /\ audit.files = files
                THEN [audit EXCEPT !.pending = FALSE]
              ELSE audit
  /\ attempt' = [attempt EXCEPT ![a] = Idle]
  /\ UNCHANGED <<candidateVars, files, processVars, versions, announced, events, deviations>>

(***************************************************************************)
(* save_model_settings_to_root_configuration: files, audit row and version *)
(* row of one request.  A rebuild value is written and waits; the field    *)
(* statuses of the audit before are kept while they describe the files.    *)
(***************************************************************************)
Save(value, answered) ==
  LET rebuild == value # files.rebuild IN
  /\ files.hot < MaxSaves
  /\ Len(versions) < MaxVersions
  /\ files' = [rebuild |-> value, hot |-> files.hot + 1]
  /\ audit' = [files |-> files',
               pending |-> IF rebuild THEN value # slice["api"] ELSE Pending]
  /\ versions' = Append(versions, [intent |-> 0, files |-> files'])
  /\ Announce(Len(versions'), FALSE, answered)
  /\ deviations' = deviations \union (IF rebuild THEN {"edited"} ELSE {})
  /\ Event
  /\ UNCHANGED <<candidateVars, intents, attempt>>

(***************************************************************************)
(* The API process dies and starts again:                                  *)
(* initialize_runtime_configuration_from_root_files takes every key.       *)
(***************************************************************************)
Restart ==
  /\ Event
  /\ attempt' = [a \in Attempts |-> Idle]
  /\ env' = [env EXCEPT !["api"] = files.rebuild]
  /\ slice' = [slice EXCEPT !["api"] = files.rebuild]
  /\ seenVersion' = [seenVersion EXCEPT !["api"] = 0]
  /\ seenFiles' = [seenFiles EXCEPT !["api"] = files]
  /\ UNCHANGED <<candidateVars, files, versions, announced, audit, intents, deviations>>

OfCandidate(c) ==
  \/ StageCandidate(c) \/ PromoteCandidate(c) \/ RollBackCandidate(c) \/ AbandonCandidate(c)
  \/ \E k \in KBs : \/ EvaluateCandidate(c, k)
                    \/ \E version \in {0, announced} : RunBuild(c, k, version)

OfAttempt(a) ==
  \/ \E i \in DOMAIN intents : BeginApply(a, i)
  \/ WriteFiles(a)
  \/ \E answered \in BOOLEAN : PublishVersion(a, answered)
  \/ ApplyRaises(a)
  \/ EndApply(a)

ActivationNext ==
  \/ \E c \in Candidates : OfCandidate(c)
  \/ \E k \in KBs : Ingest(k)
  \/ \E a \in Attempts : OfAttempt(a)
  \/ \E i \in DOMAIN intents : LeaseExpires(i)
  \/ \E version \in {0, announced} : Refresh(version)
  \/ \E value \in Candidates \union {files.rebuild}, answered \in BOOLEAN : Save(value, answered)
  \/ Restart

settingsVars == <<candidateVars, activationVars>>
ActivationSpec == ActivationInit /\ [][ActivationNext]_settingsVars

ActivationTypeOK ==
  /\ CandidatesTypeOK
  /\ files \in Files
  /\ env \in [Processes -> Values]
  /\ slice \in [Processes -> Values]
  /\ seenVersion \in [Processes -> 0 .. Len(versions)]
  /\ seenFiles \in [Processes -> Files]
  /\ \A v \in DOMAIN versions : versions[v] \in [intent : 0 .. Len(intents), files : Files]
  /\ announced \in 0 .. Len(versions)
  /\ audit \in [files : Files, pending : BOOLEAN]
  /\ \A i \in DOMAIN intents : intents[i] \in
       [candidate : Candidates, direction : Directions,
        status : {"pending", "applying", "failed", "applied"}, expired : BOOLEAN]
  /\ \A a \in Attempts : attempt[a] \in
       [pc : {"idle", "write", "publish", "confirmed", "unconfirmed", "raised"},
        intent : 0 .. Len(intents)]
  /\ events \in 0 .. MaxEvents
  /\ deviations \subseteq {"again", "ahead", "overtaken", "edited", "late"}

(***************************************************************************)
(* However often an activation is begun, taken over and retried, its       *)
(* intent is published under one version, and an intent recorded as        *)
(* applied has been published.                                             *)
(***************************************************************************)
OneVersionPerIntent ==
  \A i \in DOMAIN intents :
    LET rows == {v \in DOMAIN versions : versions[v].intent = i} IN
    /\ Cardinality(rows) <= 1
    /\ intents[i].status = "applied" => rows # {}

(***************************************************************************)
(* When no activation is under way and every intent that still fits its    *)
(* candidate is applied, the API serves the value of the promotion the     *)
(* pointers name -- through lost announcements, leases taken over, hot     *)
(* saves, rollbacks and restarts.  The ways out are named: an activation   *)
(* that wrote its value after a later one was decided, a candidate         *)
(* promoted before the one under it was activated or for a second time, a  *)
(* rebuild value saved directly, and a build request that came after the   *)
(* promotion and marked its candidate failed.                              *)
(***************************************************************************)
Settled ==
  /\ \A a \in Attempts : attempt[a].pc = "idle"
  /\ \A i \in DOMAIN intents :
       candidate[intents[i].candidate] = Expected(i) => intents[i].status = "applied"

SettledSettingsServe ==
  Settled /\ deviations = {} =>
    \A k \in KBs : slice["api"] = pointer[k].owner
=============================================================================
