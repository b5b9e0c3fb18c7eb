--------------------------- MODULE Configuration ----------------------------
(***************************************************************************)
(* How the operator deploys itself.  The configuration (one object, guarded*)
(* by a webhook) is turned by the manager into a Secret with the           *)
(* certificates of the agents and a DaemonSet that runs them; the reboot   *)
(* duration calculator gets the configuration on the way.  The manager     *)
(* reads the configuration, the Secret and, to find out about an upgrade,  *)
(* the DaemonSet from its caches, but reads the DaemonSet it applies from  *)
(* the API server.  It may fail or stop between any two of its calls.      *)
(*                                                                         *)
(* A spec that was stored is known by its generation; 0 stands for a       *)
(* DaemonSet whose template somebody else edited.                          *)
(***************************************************************************)
EXTENDS Naturals, FiniteSets

CONSTANTS
    Agents,         \* the nodes an agent runs on
    Specs,          \* specs that are asked for, see AllSpecs
    DefaultSpec,    \* of NewDefaultSelfNodeRemediationConfig
    Revisions,      \* force-deletion-revisions of the operator's versions
    FirstRevision,
    MaxDisturbances \* bound on what users do, failed calls and stops

ConfigCRName == "self-node-remediation-config"
Names == {ConfigCRName, "other"}
DeploymentNamespace == "operator"
Namespaces == {DeploymentNamespace, "default"}

----------------------------------------------------------------------------
\* Admission (api/v1alpha1/selfnoderemediationconfig_webhook.go).

\* The least values of the durations, in milliseconds.
minDuration ==
    [PeerApiServerTimeout |-> 10, ApiServerTimeout |-> 10,
     PeerDialTimeout |-> 10, PeerRequestTimeout |-> 10,
     ApiCheckInterval |-> 1000, PeerUpdateInterval |-> 10000]

\* A toleration without operator or effect has "".
TolerationOperators == {"Equal", "Exists"}
TaintEffects == {"NoSchedule", "PreferNoSchedule", "NoExecute"}
Tolerations == [operator : TolerationOperators \cup {"", "In"},
                hasValue : BOOLEAN,
                effect : TaintEffects \cup {"", "Evict"}]

AllSpecs == [times : [DOMAIN minDuration -> Nat],
             tolerations : SUBSET Tolerations]

ASSUME SpecsAssumption == Specs \subseteq AllSpecs /\ DefaultSpec \in Specs
ASSUME RevisionsAssumption == FirstRevision \in Revisions
ASSUME AgentsAssumption == IsFiniteSet(Agents)
ASSUME BoundAssumption == MaxDisturbances \in Nat

validateTimes(spec) ==
    \A f \in DOMAIN minDuration : spec.times[f] >= minDuration[f]

validateToleration(t) ==
    /\ t.operator \in TolerationOperators \cup {""}
    /\ t.operator = "Exists" => ~t.hasValue
    /\ t.effect \in TaintEffects \cup {""}

validateCustomTolerations(spec) ==
    \A t \in spec.tolerations : validateToleration(t)

validateSingleton(name, namespace) ==
    name = ConfigCRName /\ namespace = DeploymentNamespace

ValidateCreate(name, namespace, spec) ==
    /\ validateTimes(spec)
    /\ validateCustomTolerations(spec)
    /\ validateSingleton(name, namespace)

\* Mutant: only a new configuration has its times validated.
ValidateUpdateTolerations(spec) == validateCustomTolerations(spec)

ValidateUpdate(spec) == validateTimes(spec) /\ validateCustomTolerations(spec)

\* The defaults that the API server fills in satisfy the webhook.
ASSUME DefaultAssumption ==
    validateTimes(DefaultSpec) /\ validateCustomTolerations(DefaultSpec)

----------------------------------------------------------------------------
VARIABLES
    \* the API server
    config,        \* the configuration
    ds,            \* the DaemonSet of the agents
    secret,        \* the certificates in the Secret, 0: there is none
    gens,          \* generations of specs, and certificates, so far
    \* the manager
    revision,      \* of its version of the DaemonSet
    pc,            \* "down", "idle" or the call its reconcile makes next
    queued,        \* a reconcile of the configuration is due
    initializing,  \* the default configuration is still to be created
    calculator,    \* generation SetConfig was called with, 0: none
    current,       \* the configuration a reconcile works on
    existing,      \* the DaemonSet ApplyObject has read
    cachedConfig, cachedDS, cachedSecret,
    dsEvent,       \* an event of the DaemonSet that is watched for is underway
    \* the nodes
    pods,          \* the agents' pods
    \* bound
    disturbances

server == <<config, ds, dsEvent, secret, gens>>
reconciler == <<queued, calculator, current, existing>>
cache == <<cachedConfig, cachedDS, cachedSecret>>
vars == <<server, revision, pc, initializing, reconciler, cache, pods,
          disturbances>>

\* uid 0: there is none; gen tells the specs that were stored apart.
NoConfig == [uid |-> 0, gen |-> 0, spec |-> DefaultSpec]
NoDS == [uid |-> 0, owner |-> 0, revision |-> FirstRevision, gen |-> 0]
NoPod == [ds |-> 0, gen |-> 0, certs |-> 0]

Exists(o) == o.uid # 0

Disturb ==
    /\ disturbances < MaxDisturbances
    /\ disturbances' = disturbances + 1

\* A new configuration has its first generation for its identity.
storedConfig(uid, spec) == [uid |-> uid, gen |-> gens + 1, spec |-> spec]

\* DaemonSets come and go without end: identities nobody has seen or still
\* refers to are used again.
DSIdentities == 1 .. Cardinality(Agents) + 3
freshDS == CHOOSE u \in DSIdentities :
             u \notin {pods[a].ds : a \in Agents}
                        \cup {cachedDS.uid, existing.uid}

\* Mutant: only updates of the DaemonSet are watched.
isWatchedUpdates(old, new) ==
    old.uid = new.uid /\ old.gen # new.gen

\* The DaemonSet was created or deleted, or its template has changed.
isWatched(old, new) == old.uid # new.uid \/ old.gen # new.gen

\* A write of the DaemonSet, and the event of it.
WriteDS(new) == ds' = new /\ dsEvent' = (dsEvent \/ isWatched(ds, new))

----------------------------------------------------------------------------
\* The reconciler of the configuration.

\* A reconcile ends; again: it is to be repeated.
Return(again) ==
    /\ pc' = "idle"
    /\ queued' = (queued \/ again)
    /\ current' = NoConfig
    /\ existing' = NoDS

\* Without a configuration nothing is done.
ConfigDeleted ==
    /\ pc = "idle"
    /\ queued
    /\ ~Exists(cachedConfig)
    /\ queued' = FALSE
    /\ UNCHANGED <<server, revision, pc, initializing, calculator, current,
                   existing, cache, pods, disturbances>>

\* Mutant: the DaemonSet is deployed first, the certificates never checked.
firstCallDS == "removeOldDs"

\* syncCerts looks for the certificates.
firstCall == IF cachedSecret = 0 THEN "storeCerts" ELSE "removeOldDs"

\* Mutant: the calculator keeps the configuration it has.
SetConfigOnce ==
    calculator' = IF calculator = 0 THEN cachedConfig.gen ELSE calculator

SetConfig == calculator' = cachedConfig.gen

BeginReconcile ==
    /\ pc = "idle"
    /\ queued
    /\ Exists(cachedConfig)
    /\ queued' = FALSE
    /\ current' = cachedConfig
    /\ SetConfig
    /\ pc' = firstCall
    /\ UNCHANGED <<server, revision, initializing, existing, cache, pods,
                   disturbances>>

\* Mutant: new certificates replace the stored ones.
storedCertsLatest == gens + 1

\* Certificates that are already there are kept.
storedCerts == IF secret = 0 THEN gens + 1 ELSE secret

StoreCerts ==
    /\ pc = "storeCerts"
    /\ pc' = "removeOldDs"
    /\ secret' = storedCerts
    /\ gens' = IF storedCerts > gens THEN storedCerts ELSE gens
    /\ UNCHANGED <<config, ds, dsEvent, revision, initializing, reconciler,
                   cache, pods, disturbances>>

\* The cached DaemonSet is of another version of the operator.
isOldDS == Exists(cachedDS) /\ cachedDS.revision # revision

\* Deletion is by name: whatever the DaemonSet has become meanwhile, it goes.
\* It is an error if there is none.
RemoveOldDs ==
    /\ pc = "removeOldDs"
    /\ WriteDS(IF isOldDS THEN NoDS ELSE ds)
    /\ IF isOldDS /\ ~Exists(ds)
       THEN Return(TRUE)
       ELSE pc' = "getDs" /\ UNCHANGED <<queued, current, existing>>
    /\ UNCHANGED <<config, secret, gens, revision, initializing, calculator,
                   cache, pods, disturbances>>

\* ApplyObject reads the DaemonSet from the API server.
GetDs ==
    /\ pc = "getDs"
    /\ existing' = ds
    /\ pc' = "applyDs"
    /\ UNCHANGED <<server, revision, initializing, queued, calculator,
                   current, cache, pods, disturbances>>

\* The DaemonSet as rendered from the configuration, which owns it; gen stands
\* for all the values and tolerations it gets from there.
renderedDS == [uid |-> 0, owner |-> current.uid, revision |-> revision,
               gen |-> current.gen]

\* It replaces the existing one, whose identity it takes over, under the version
\* that was read.
mergeMetadataForUpdate(old, new) == [new EXCEPT !.uid = old.uid]

appliedDS == IF Exists(existing)
             THEN mergeMetadataForUpdate(existing, renderedDS)
             ELSE [renderedDS EXCEPT !.uid = freshDS]

\* A conflict comes back after a second, other errors by the queue's backoff.
ApplyDs ==
    /\ pc = "applyDs"
    /\ UNCHANGED <<config, secret, gens, revision, initializing, calculator,
                   cache, pods, disturbances>>
    /\ \/ /\ ds # existing
          /\ Return(TRUE)
          /\ UNCHANGED <<ds, dsEvent>>
       \/ /\ ds = existing
          /\ WriteDS(appliedDS)
          /\ pc' = "enable"
          /\ UNCHANGED <<queued, current, existing>>

\* setCRsEnabledStatus ends the reconcile; Remediation has its effect.
SetCRsEnabledStatus ==
    /\ pc = "enable"
    /\ Return(FALSE)
    /\ UNCHANGED <<server, revision, initializing, calculator, cache, pods,
                   disturbances>>

\* Any of the calls may fail, an update of the DaemonSet also because its
\* status has changed.
CallFails ==
    /\ pc \notin {"down", "idle"}
    /\ Disturb
    /\ Return(TRUE)
    /\ UNCHANGED <<server, revision, initializing, calculator, cache, pods>>

Reconcile == \/ ConfigDeleted \/ BeginReconcile \/ StoreCerts \/ RemoveOldDs
             \/ GetDs \/ ApplyDs \/ SetCRsEnabledStatus

----------------------------------------------------------------------------
\* Start, stop and caches of the manager.

\* Also what a failed InitializeConfig ends in.
StopManager ==
    /\ pc # "down"
    /\ Disturb
    /\ pc' = "down"
    /\ calculator' = 0
    /\ current' = NoConfig
    /\ existing' = NoDS
    /\ queued' = FALSE
    /\ initializing' = FALSE
    /\ UNCHANGED <<server, revision, cache, pods>>

\* The caches are filled before the reconcilers start, and what is in them is
\* reconciled.  The operator may have been upgraded.
StartManager ==
    /\ pc = "down"
    /\ pc' = "idle"
    /\ revision' \in Revisions
    /\ cachedConfig' = config
    /\ cachedDS' = ds
    /\ cachedSecret' = secret
    /\ dsEvent' = FALSE
    /\ queued' = Exists(config)
    /\ initializing' = TRUE
    /\ UNCHANGED <<config, ds, secret, gens, calculator, current, existing,
                   pods, disturbances>>

\* A default configuration is created unless there is a configuration.
InitializeConfig ==
    /\ initializing
    /\ initializing' = FALSE
    /\ config' = IF Exists(config) THEN config
                 ELSE storedConfig(gens + 1, DefaultSpec)
    /\ gens' = IF Exists(config) THEN gens ELSE gens + 1
    /\ UNCHANGED <<ds, dsEvent, secret, revision, pc, reconciler, cache, pods,
                   disturbances>>

DeliverConfig ==
    /\ pc # "down"
    /\ cachedConfig # config
    /\ cachedConfig' = config
    /\ queued' = TRUE
    /\ UNCHANGED <<server, revision, pc, initializing, calculator, current,
                   existing, cachedDS, cachedSecret, pods, disturbances>>

DeliverDS ==
    /\ pc # "down"
    /\ cachedDS # ds \/ dsEvent
    /\ cachedDS' = ds
    /\ queued' = (queued \/ dsEvent)
    /\ dsEvent' = FALSE
    /\ UNCHANGED <<config, ds, secret, gens, revision, pc, initializing,
                   calculator, current, existing, cachedConfig, cachedSecret,
                   pods, disturbances>>

DeliverSecret ==
    /\ pc # "down"
    /\ cachedSecret # secret
    /\ cachedSecret' = secret
    /\ UNCHANGED <<server, revision, pc, initializing, reconciler,
                   cachedConfig, cachedDS, pods, disturbances>>

----------------------------------------------------------------------------
\* The cluster.

\* What is owned by a configuration that is gone is collected.
CollectDS ==
    /\ Exists(ds)
    /\ ds.owner # config.uid
    /\ WriteDS(NoDS)
    /\ UNCHANGED <<config, secret, gens, revision, pc, initializing,
                   reconciler, cache, pods, disturbances>>

StartPod(a) ==
    /\ pods[a].ds = 0
    /\ Exists(ds)
    /\ pods' = [pods EXCEPT
                   ![a] = [ds |-> ds.uid, gen |-> ds.gen, certs |-> 0]]
    /\ UNCHANGED <<server, revision, pc, initializing, reconciler, cache,
                   disturbances>>

StopPod(a) ==
    /\ pods[a].ds # 0
    /\ pods[a].ds # ds.uid \/ pods[a].gen # ds.gen
    /\ pods' = [pods EXCEPT ![a] = NoPod]
    /\ UNCHANGED <<server, revision, pc, initializing, reconciler, cache,
                   disturbances>>

\* The agent's peer health server loads the certificates once, when it starts.
LoadCerts(a) ==
    /\ pods[a].ds # 0
    /\ pods[a].certs = 0
    /\ secret # 0
    /\ pods' = [pods EXCEPT ![a].certs = secret]
    /\ UNCHANGED <<server, revision, pc, initializing, reconciler, cache,
                   disturbances>>

\* Users.  Their requests for the configuration are refused while the webhook
\* is down.
CreateConfig(name, namespace, spec) ==
    /\ Disturb
    /\ pc # "down"
    /\ ~Exists(config)
    /\ ValidateCreate(name, namespace, spec)
    /\ config' = storedConfig(gens + 1, spec)
    /\ gens' = gens + 1
    /\ UNCHANGED <<ds, dsEvent, secret, revision, pc, initializing,
                   reconciler, cache, pods>>

UpdateConfig(spec) ==
    /\ Disturb
    /\ pc # "down"
    /\ Exists(config)
    /\ config.spec # spec
    /\ ValidateUpdate(spec)
    /\ config' = storedConfig(config.uid, spec)
    /\ gens' = gens + 1
    /\ UNCHANGED <<ds, dsEvent, secret, revision, pc, initializing,
                   reconciler, cache, pods>>

DeleteConfig ==
    /\ Disturb
    /\ pc # "down"
    /\ Exists(config)
    /\ config' = NoConfig
    /\ UNCHANGED <<ds, dsEvent, secret, gens, revision, pc, initializing,
                   reconciler, cache, pods>>

DeleteDS ==
    /\ Disturb
    /\ Exists(ds)
    /\ WriteDS(NoDS)
    /\ UNCHANGED <<config, secret, gens, revision, pc, initializing,
                   reconciler, cache, pods>>

EditDS ==
    /\ Disturb
    /\ Exists(ds)
    /\ WriteDS([ds EXCEPT !.gen = 0])
    /\ UNCHANGED <<config, secret, gens, revision, pc, initializing,
                   reconciler, cache, pods>>

----------------------------------------------------------------------------
Init ==
    /\ config = NoConfig
    /\ ds = NoDS
    /\ dsEvent = FALSE
    /\ secret = 0
    /\ gens = 0
    /\ revision = FirstRevision
    /\ pc = "down"
    /\ queued = FALSE
    /\ initializing = FALSE
    /\ calculator = 0
    /\ current = NoConfig
    /\ existing = NoDS
    /\ cachedConfig = NoConfig
    /\ cachedDS = NoDS
    /\ cachedSecret = 0
    /\ pods = [a \in Agents |-> NoPod]
    /\ disturbances = 0

Cluster == \/ CollectDS
           \/ \E a \in Agents : StartPod(a) \/ StopPod(a) \/ LoadCerts(a)

Users ==
    \/ \E name \in Names, namespace \in Namespaces, spec \in Specs :
         CreateConfig(name, namespace, spec)
    \/ \E spec \in Specs : UpdateConfig(spec)
    \/ DeleteConfig \/ DeleteDS \/ EditDS

Next == \/ Reconcile \/ CallFails \/ StopManager \/ StartManager
        \/ InitializeConfig \/ DeliverConfig \/ DeliverDS \/ DeliverSecret
        \/ Cluster \/ Users

\* The manager runs and is restarted, events arrive, and the cluster's own
\* controllers do their part.
Fairness ==
    /\ WF_vars(Reconcile) /\ WF_vars(StartManager) /\ WF_vars(InitializeConfig)
    /\ WF_vars(DeliverConfig) /\ WF_vars(DeliverDS) /\ WF_vars(DeliverSecret)
    /\ WF_vars(CollectDS)
    /\ \A a \in Agents : /\ WF_vars(StartPod(a)) /\ WF_vars(StopPod(a))
                         /\ WF_vars(LoadCerts(a))

Spec == Init /\ [][Next]_vars

FairSpec == Spec /\ Fairness

----------------------------------------------------------------------------
\* Properties.

ConfigObjects == [uid : 0 .. gens, gen : 0 .. gens, spec : Specs]
DaemonSets == [uid : DSIdentities \cup {0}, owner : 0 .. gens,
               revision : Revisions, gen : 0 .. gens]
Pods == [ds : DSIdentities \cup {0}, gen : 0 .. gens, certs : 0 .. gens]

\* The types of the variables.  A stored configuration has passed the webhook.
TypeOK ==
    /\ gens \in Nat
    /\ config \in ConfigObjects
    /\ Exists(config) => /\ validateTimes(config.spec)
                         /\ validateCustomTolerations(config.spec)
    /\ ds \in DaemonSets
    /\ dsEvent \in BOOLEAN
    /\ secret \in 0 .. gens
    /\ revision \in Revisions
    /\ pc \in {"down", "idle", "storeCerts", "removeOldDs", "getDs", "applyDs",
               "enable"}
    /\ queued \in BOOLEAN
    /\ initializing \in BOOLEAN
    /\ calculator \in 0 .. gens
    /\ current \in ConfigObjects
    /\ existing \in DaemonSets
    /\ cachedConfig \in ConfigObjects
    /\ cachedDS \in DaemonSets
    /\ cachedSecret \in 0 .. gens
    /\ pods \in [Agents -> Pods]
    /\ disturbances \in 0 .. MaxDisturbances

\* Agents can talk to each other: all that have loaded certificates have those
\* of the Secret, also after a manager whose cache lacked the Secret made new
\* ones.
CertsAgree == \A a \in Agents : pods[a].certs \in {0, secret}

\* No agent is deployed before there are certificates for it.
CertsBeforeAgents == Exists(ds) => secret # 0

\* The calculator is given a configuration before the agents are: a manager
\* that knows a configuration never has an older one than any agent runs with.
CalculatorAhead ==
    calculator # 0 => \A a \in Agents : pods[a].gen <= calculator

\* What is deployed is what is configured.
Deployed ==
    /\ ds.owner = config.uid
    /\ ds.gen = config.gen
    /\ ds.revision = revision
    /\ calculator = config.gen
    /\ \A a \in Agents :
         pods[a] = [ds |-> ds.uid, gen |-> ds.gen, certs |-> secret]

Undeployed == ~Exists(ds) /\ \A a \in Agents : pods[a] = NoPod

\* When users leave the configuration and the DaemonSet alone and nothing
\* fails any more, the agents end up running what is configured, of the
\* operator's current version, and the calculator knows it; without a
\* configuration no agent is left.
Converges ==
    <>[](IF Exists(config) THEN Exists(ds) /\ Deployed ELSE Undeployed)

============================================================================
