------------------------ MODULE ConfigurationProofs -------------------------
(***************************************************************************)
(* Proofs about Configuration, for any number of agents, specs, revisions  *)
(* and disturbances.                                                       *)
(***************************************************************************)
EXTENDS Configuration, FiniteSetTheorems, TLAPS

----------------------------------------------------------------------------
\* Types.

\* The identities that are in use leave one free.
LEMMA FreshDSExists ==
    ASSUME NEW S \in SUBSET DSIdentities,
           IsFiniteSet(S), Cardinality(S) < Cardinality(Agents) + 3
    PROVE  \E u \in DSIdentities : u \notin S
<1>1. Cardinality(Agents) \in Nat
  BY AgentsAssumption, FS_CardinalityType
<1>2. Cardinality(DSIdentities) = Cardinality(Agents) + 3
  BY <1>1, FS_Interval DEF DSIdentities
<1>3. SUFFICES ASSUME DSIdentities \subseteq S PROVE FALSE
  OBVIOUS
<1>4. S = DSIdentities
  BY <1>3
<1> QED
  BY <1>1, <1>2, <1>4

LEMMA FreshDSType ==
    ASSUME TypeOK
    PROVE  freshDS \in DSIdentities
<1> DEFINE used == {pods[a].ds : a \in Agents}
           S == (used \cup {cachedDS.uid, existing.uid}) \cap DSIdentities
<1>1. IsFiniteSet(used) /\ Cardinality(used) <= Cardinality(Agents)
  <2> DEFINE f == [a \in Agents |-> pods[a].ds]
  <2>1. f \in Surjection(Agents, used)
    BY DEF Surjection
  <2> QED
    BY <2>1, AgentsAssumption, FS_Surjection
<1>2. Cardinality(Agents) \in Nat
  BY AgentsAssumption, FS_CardinalityType
<1> HIDE DEF used
<1>3. /\ IsFiniteSet(used \cup {cachedDS.uid})
      /\ Cardinality(used \cup {cachedDS.uid}) <= Cardinality(Agents) + 1
      /\ Cardinality(used \cup {cachedDS.uid}) \in Nat
  <2>1. Cardinality(used) \in Nat
    BY <1>1, FS_CardinalityType
  <2>2. /\ IsFiniteSet(used \cup {cachedDS.uid})
        /\ \/ Cardinality(used \cup {cachedDS.uid}) = Cardinality(used)
           \/ Cardinality(used \cup {cachedDS.uid}) = Cardinality(used) + 1
    BY <1>1, FS_AddElement
  <2> QED BY <1>1, <1>2, <2>1, <2>2
<1>4. /\ IsFiniteSet(used \cup {cachedDS.uid} \cup {existing.uid})
      /\ Cardinality(used \cup {cachedDS.uid} \cup {existing.uid})
           <= Cardinality(Agents) + 2
      /\ Cardinality(used \cup {cachedDS.uid} \cup {existing.uid}) \in Nat
  <2> DEFINE T == used \cup {cachedDS.uid}
  <2>1. /\ IsFiniteSet(T \cup {existing.uid})
        /\ \/ Cardinality(T \cup {existing.uid}) = Cardinality(T)
           \/ Cardinality(T \cup {existing.uid}) = Cardinality(T) + 1
    BY <1>3, FS_AddElement
  <2> QED BY <1>2, <1>3, <2>1
<1>5. S \subseteq used \cup {cachedDS.uid} \cup {existing.uid}
  OBVIOUS
<1>6. /\ IsFiniteSet(S)
      /\ Cardinality(S) <= Cardinality(used \cup {cachedDS.uid} \cup {existing.uid})
  BY <1>4, <1>5, FS_Subset
<1>7. Cardinality(S) \in Nat
  BY <1>6, FS_CardinalityType
<1>8. Cardinality(S) < Cardinality(Agents) + 3
  BY <1>2, <1>4, <1>6, <1>7
<1>9. PICK u \in DSIdentities : u \notin S
  <2>1. S \in SUBSET DSIdentities
    OBVIOUS
  <2> HIDE DEF S
  <2> QED BY <1>6, <1>8, <2>1, FreshDSExists
<1> QED
  BY <1>9 DEF freshDS, used

\* Everything that is typed stays typed when generations are added.
LEMMA TypesGrow ==
    ASSUME gens \in Nat, gens' \in Nat, gens <= gens'
    PROVE  /\ ConfigObjects \subseteq ConfigObjects'
           /\ DaemonSets \subseteq DaemonSets'
           /\ Pods \subseteq Pods'
           /\ 0 .. gens \subseteq 0 .. gens'
BY DEF ConfigObjects, DaemonSets, Pods, DSIdentities

\* A DaemonSet, a configuration or a pod that is not there has its type too.
LEMMA NothingTyped ==
    ASSUME gens \in Nat
    PROVE  /\ NoConfig \in ConfigObjects
           /\ NoDS \in DaemonSets
           /\ NoPod \in Pods
BY SpecsAssumption, RevisionsAssumption
   DEF NoConfig, NoDS, NoPod, ConfigObjects, DaemonSets, Pods

LEMMA AppliedDSType ==
    ASSUME TypeOK
    PROVE  appliedDS \in DaemonSets
<1>1. freshDS \in DSIdentities
  BY FreshDSType
<1> QED
  BY <1>1 DEF TypeOK, DaemonSets, ConfigObjects, appliedDS, renderedDS,
              mergeMetadataForUpdate

\* Everything has the declared type in every reachable state, for every set of
\* agents, specs and revisions: in particular a stored configuration has passed
\* the webhook, and there is always an identity for a new DaemonSet.
THEOREM ConfigurationTypes == Spec => []TypeOK
<1>1. Init => TypeOK
  <2> SUFFICES ASSUME Init PROVE TypeOK
    OBVIOUS
  <2>1. ~Exists(config) /\ gens = 0
    BY DEF Init, NoConfig, Exists
  <2>2. pods \in [Agents -> Pods]
    BY <2>1, NothingTyped DEF Init
  <2>3. disturbances \in 0 .. MaxDisturbances
    BY BoundAssumption DEF Init
  <2>4. dsEvent \in BOOLEAN /\ queued \in BOOLEAN /\ initializing \in BOOLEAN
    BY DEF Init
  <2> QED
    BY <2>1, <2>2, <2>3, <2>4, NothingTyped, RevisionsAssumption
       DEF Init, TypeOK
<1>2. TypeOK /\ [Next]_vars => TypeOK'
  <2> SUFFICES ASSUME TypeOK, [Next]_vars PROVE TypeOK'
    OBVIOUS
  <2> USE DEF TypeOK
  <2>0. CASE UNCHANGED vars
    BY <2>0 DEF vars, server, reconciler, cache, ConfigObjects, DaemonSets, Pods,
                DSIdentities
  <2>1. CASE ConfigDeleted
    BY <2>1, NothingTyped
       DEF ConfigDeleted, server, cache, ConfigObjects, DaemonSets, Pods, DSIdentities
  <2>2. CASE BeginReconcile
    BY <2>2, NothingTyped
       DEF BeginReconcile, server, cache, SetConfig, firstCall, ConfigObjects,
           DaemonSets, Pods, DSIdentities
  <2>3. CASE StoreCerts
    <3>1. gens' \in Nat /\ gens <= gens'
      BY <2>3 DEF StoreCerts, reconciler, cache, storedCerts
    <3>2. config' \in ConfigObjects'
      BY <2>3, <3>1, TypesGrow, SpecsAssumption
         DEF StoreCerts, reconciler, cache, storedCerts, ConfigObjects
    <3>3. Exists(config') => /\ validateTimes(config'.spec)
                             /\ validateCustomTolerations(config'.spec)
      BY <2>3, DefaultAssumption DEF StoreCerts, reconciler, cache, storedCerts, Exists
    <3> QED
      BY <2>3, <3>1, <3>2, <3>3, TypesGrow, BoundAssumption
         DEF StoreCerts, reconciler, cache, storedCerts
  <2>4. CASE RemoveOldDs
    BY <2>4, NothingTyped
       DEF RemoveOldDs, cache, WriteDS, isWatched, Return, ConfigObjects, DaemonSets,
           Pods, DSIdentities
  <2>5. CASE GetDs
    BY <2>5, NothingTyped
       DEF GetDs, server, cache, ConfigObjects, DaemonSets, Pods, DSIdentities
  <2>6. CASE ApplyDs
    BY <2>6, AppliedDSType, NothingTyped
       DEF ApplyDs, cache, WriteDS, isWatched, Return, ConfigObjects, DaemonSets, Pods,
           DSIdentities
  <2>7. CASE SetCRsEnabledStatus
    BY <2>7, NothingTyped
       DEF SetCRsEnabledStatus, server, cache, Return, ConfigObjects, DaemonSets, Pods,
           DSIdentities
  <2>8. CASE CallFails
    BY <2>8, NothingTyped, BoundAssumption
       DEF CallFails, server, cache, Return, Disturb, ConfigObjects, DaemonSets, Pods,
           DSIdentities
  <2>9. CASE StopManager
    <3>1. disturbances' \in 0 .. MaxDisturbances
      BY <2>9, BoundAssumption DEF StopManager, Disturb
    <3>2. UNCHANGED <<ConfigObjects, DaemonSets, Pods>>
      BY <2>9 DEF StopManager, server, ConfigObjects, DaemonSets, Pods, DSIdentities
    <3>3. queued' \in BOOLEAN /\ initializing' \in BOOLEAN
      BY <2>9 DEF StopManager
    <3> QED
      BY <2>9, <3>1, <3>2, <3>3, NothingTyped DEF StopManager, server, cache
  <2>10. CASE StartManager
    BY <2>10, NothingTyped
       DEF StartManager, ConfigObjects, DaemonSets, Pods, DSIdentities, Exists
  <2>11. CASE InitializeConfig
    <3>1. gens' \in Nat /\ gens <= gens'
      BY <2>11 DEF InitializeConfig, reconciler, cache, storedConfig
    <3>2. config' \in ConfigObjects'
      BY <2>11, <3>1, TypesGrow, SpecsAssumption
         DEF InitializeConfig, reconciler, cache, storedConfig, ConfigObjects
    <3>3. Exists(config') => /\ validateTimes(config'.spec)
                             /\ validateCustomTolerations(config'.spec)
      BY <2>11, DefaultAssumption
         DEF InitializeConfig, reconciler, cache, storedConfig, Exists
    <3> QED
      BY <2>11, <3>1, <3>2, <3>3, TypesGrow, BoundAssumption
         DEF InitializeConfig, reconciler, cache, storedConfig
  <2>12. CASE DeliverConfig
    BY <2>12, NothingTyped
       DEF DeliverConfig, server, ConfigObjects, DaemonSets, Pods, DSIdentities
  <2>13. CASE DeliverDS
    BY <2>13, NothingTyped
       DEF DeliverDS, ConfigObjects, DaemonSets, Pods, DSIdentities
  <2>14. CASE DeliverSecret
    BY <2>14, NothingTyped
       DEF DeliverSecret, server, reconciler, ConfigObjects, DaemonSets, Pods,
           DSIdentities
  <2>15. CASE CollectDS
    BY <2>15, NothingTyped
       DEF CollectDS, reconciler, cache, WriteDS, isWatched, ConfigObjects, DaemonSets,
           Pods, DSIdentities
  <2>16. ASSUME NEW a \in Agents, StartPod(a)
        PROVE  TypeOK'
    <3>1. [ds |-> ds.uid, gen |-> ds.gen, certs |-> 0] \in Pods
      BY DEF Pods, DaemonSets
    <3>2. pods' \in [Agents -> Pods]
      BY <2>16, <3>1 DEF StartPod
    <3> QED
      BY <2>16, <3>2
         DEF StartPod, server, reconciler, cache, NoPod, Exists, ConfigObjects,
             DaemonSets, Pods, DSIdentities
  <2>17. ASSUME NEW a \in Agents, StopPod(a)
        PROVE  TypeOK'
    BY <2>17, NothingTyped
       DEF StopPod, server, reconciler, cache, ConfigObjects, DaemonSets, Pods,
           DSIdentities
  <2>18. ASSUME NEW a \in Agents, LoadCerts(a)
        PROVE  TypeOK'
    BY <2>18, NothingTyped
       DEF LoadCerts, server, reconciler, cache, ConfigObjects, DaemonSets, Pods,
           DSIdentities
  <2>19. ASSUME NEW name \in Names, NEW namespace \in Namespaces, NEW spec \in Specs,
                  CreateConfig(name, namespace, spec)
        PROVE  TypeOK'
    <3>1. gens' \in Nat /\ gens <= gens'
      BY <2>19
         DEF CreateConfig, reconciler, cache, storedConfig, Disturb, ValidateCreate
    <3>2. config' \in ConfigObjects'
      BY <2>19, <3>1, TypesGrow, SpecsAssumption
         DEF CreateConfig, reconciler, cache, storedConfig, Disturb, ValidateCreate,
             ConfigObjects
    <3>3. Exists(config') => /\ validateTimes(config'.spec)
                             /\ validateCustomTolerations(config'.spec)
      BY <2>19, DefaultAssumption
         DEF CreateConfig, reconciler, cache, storedConfig, Disturb, ValidateCreate,
             Exists
    <3> QED
      BY <2>19, <3>1, <3>2, <3>3, TypesGrow, BoundAssumption
         DEF CreateConfig, reconciler, cache, storedConfig, Disturb, ValidateCreate
  <2>20. ASSUME NEW spec \in Specs, UpdateConfig(spec)
        PROVE  TypeOK'
    <3>1. gens' \in Nat /\ gens <= gens'
      BY <2>20
         DEF UpdateConfig, reconciler, cache, storedConfig, Disturb, ValidateUpdate
    <3>2. config' \in ConfigObjects'
      BY <2>20, <3>1, TypesGrow, SpecsAssumption
         DEF UpdateConfig, reconciler, cache, storedConfig, Disturb, ValidateUpdate,
             ConfigObjects
    <3>3. Exists(config') => /\ validateTimes(config'.spec)
                             /\ validateCustomTolerations(config'.spec)
      BY <2>20, DefaultAssumption
         DEF UpdateConfig, reconciler, cache, storedConfig, Disturb, ValidateUpdate,
             Exists
    <3> QED
      BY <2>20, <3>1, <3>2, <3>3, TypesGrow, BoundAssumption
         DEF UpdateConfig, reconciler, cache, storedConfig, Disturb, ValidateUpdate
  <2>21. CASE DeleteConfig
    BY <2>21, NothingTyped, BoundAssumption
       DEF DeleteConfig, reconciler, cache, Disturb, ConfigObjects, DaemonSets, Pods,
           DSIdentities, NoConfig, Exists
  <2>22. CASE DeleteDS
    BY <2>22, NothingTyped, BoundAssumption
       DEF DeleteDS, reconciler, cache, WriteDS, isWatched, Disturb, ConfigObjects,
           DaemonSets, Pods, DSIdentities
  <2>23. CASE EditDS
    BY <2>23, NothingTyped, BoundAssumption
       DEF EditDS, reconciler, cache, WriteDS, isWatched, Disturb, ConfigObjects,
           DaemonSets, Pods, DSIdentities
  <2> QED
    BY <2>0, <2>1, <2>2, <2>3, <2>4, <2>5, <2>6, <2>7, <2>8, <2>9, <2>10, <2>11, <2>12,
        <2>13, <2>14, <2>15, <2>16, <2>17, <2>18, <2>19, <2>20, <2>21, <2>22, <2>23
       DEF Next, Reconcile, Cluster, Users
<1> QED
  BY <1>1, <1>2, PTL DEF Spec

----------------------------------------------------------------------------
\* Certificates.

\* The Secret is written once; a cache may lack it but never has another one,
\* and the reconciler is past syncCerts only if there is one.
CertsInv ==
    /\ cachedSecret \in {0, secret}
    /\ pc \in {"removeOldDs", "getDs", "applyDs", "enable"} => secret # 0
    /\ CertsBeforeAgents
    /\ CertsAgree

LEMMA CertsInvHolds == Spec => []CertsInv
<1>1. Init => CertsInv
  BY DEF Init, CertsInv, CertsBeforeAgents, CertsAgree, NoDS, NoPod, Exists
<1>2. TypeOK /\ CertsInv /\ [Next]_vars => CertsInv'
  <2> SUFFICES ASSUME TypeOK, CertsInv, [Next]_vars PROVE CertsInv'
    OBVIOUS
  <2>0. CASE UNCHANGED vars
    BY <2>0 DEF vars, server, reconciler, cache, CertsInv, CertsBeforeAgents, CertsAgree
  <2>1. CASE ConfigDeleted
    BY <2>1 DEF ConfigDeleted, server, cache, CertsInv, CertsBeforeAgents,
                CertsAgree, TypeOK, NoDS, NoPod, Exists
  <2>2. CASE BeginReconcile
    BY <2>2
       DEF BeginReconcile, server, cache, SetConfig, firstCall, CertsInv,
           CertsBeforeAgents,
                CertsAgree, TypeOK, NoDS, NoPod, Exists
  <2>3. CASE StoreCerts
    BY <2>3 DEF StoreCerts, reconciler, cache, storedCerts, CertsInv, CertsBeforeAgents,
                CertsAgree, TypeOK, NoDS, NoPod, Exists
  <2>4. CASE RemoveOldDs
    BY <2>4 DEF RemoveOldDs, cache, WriteDS, Return, CertsInv, CertsBeforeAgents,
                CertsAgree, TypeOK, NoDS, NoPod, Exists
  <2>5. CASE GetDs
    BY <2>5 DEF GetDs, server, cache, CertsInv, CertsBeforeAgents,
                CertsAgree, TypeOK, NoDS, NoPod, Exists
  <2>6. CASE ApplyDs
    BY <2>6 DEF ApplyDs, cache, WriteDS, Return, CertsInv, CertsBeforeAgents,
                CertsAgree, TypeOK, NoDS, NoPod, Exists
  <2>7. CASE SetCRsEnabledStatus
    BY <2>7 DEF SetCRsEnabledStatus, server, cache, Return, CertsInv, CertsBeforeAgents,
                CertsAgree, TypeOK, NoDS, NoPod, Exists
  <2>8. CASE CallFails
    BY <2>8 DEF CallFails, server, cache, Return, CertsInv, CertsBeforeAgents,
                CertsAgree, TypeOK, NoDS, NoPod, Exists
  <2>9. CASE StopManager
    BY <2>9 DEF StopManager, server, cache, CertsInv, CertsBeforeAgents,
                CertsAgree, TypeOK, NoDS, NoPod, Exists
  <2>10. CASE StartManager
    BY <2>10 DEF StartManager, CertsInv, CertsBeforeAgents,
                CertsAgree, TypeOK, NoDS, NoPod, Exists
  <2>11. CASE InitializeConfig
    BY <2>11
       DEF InitializeConfig, reconciler, cache, storedConfig, CertsInv,
           CertsBeforeAgents,
                CertsAgree, TypeOK, NoDS, NoPod, Exists
  <2>12. CASE DeliverConfig
    BY <2>12 DEF DeliverConfig, server, CertsInv, CertsBeforeAgents,
                CertsAgree, TypeOK, NoDS, NoPod, Exists
  <2>13. CASE DeliverDS
    BY <2>13 DEF DeliverDS, CertsInv, CertsBeforeAgents,
                CertsAgree, TypeOK, NoDS, NoPod, Exists
  <2>14. CASE DeliverSecret
    BY <2>14 DEF DeliverSecret, server, reconciler, CertsInv, CertsBeforeAgents,
                CertsAgree, TypeOK, NoDS, NoPod, Exists
  <2>15. CASE CollectDS
    BY <2>15 DEF CollectDS, reconciler, cache, WriteDS, CertsInv, CertsBeforeAgents,
                CertsAgree, TypeOK, NoDS, NoPod, Exists
  <2>16. ASSUME NEW a \in Agents, StartPod(a)
        PROVE  CertsInv'
    BY <2>16 DEF StartPod, server, reconciler, cache, CertsInv, CertsBeforeAgents,
                CertsAgree, TypeOK, NoDS, NoPod, Exists
  <2>17. ASSUME NEW a \in Agents, StopPod(a)
        PROVE  CertsInv'
    BY <2>17 DEF StopPod, server, reconciler, cache, CertsInv, CertsBeforeAgents,
                CertsAgree, TypeOK, NoDS, NoPod, Exists
  <2>18. ASSUME NEW a \in Agents, LoadCerts(a)
        PROVE  CertsInv'
    BY <2>18 DEF LoadCerts, server, reconciler, cache, CertsInv, CertsBeforeAgents,
                CertsAgree, TypeOK, NoDS, NoPod, Exists
  <2>19. ASSUME NEW name \in Names, NEW namespace \in Namespaces,
               NEW spec \in Specs,
               CreateConfig(name, namespace, spec)
        PROVE  CertsInv'
    BY <2>19
       DEF CreateConfig, reconciler, cache, storedConfig, CertsInv, CertsBeforeAgents,
                CertsAgree, TypeOK, NoDS, NoPod, Exists
  <2>20. ASSUME NEW spec \in Specs, UpdateConfig(spec)
        PROVE  CertsInv'
    BY <2>20
       DEF UpdateConfig, reconciler, cache, storedConfig, CertsInv, CertsBeforeAgents,
                CertsAgree, TypeOK, NoDS, NoPod, Exists
  <2>21. CASE DeleteConfig
    BY <2>21 DEF DeleteConfig, reconciler, cache, CertsInv, CertsBeforeAgents,
                CertsAgree, TypeOK, NoDS, NoPod, Exists
  <2>22. CASE DeleteDS
    BY <2>22 DEF DeleteDS, reconciler, cache, WriteDS, CertsInv, CertsBeforeAgents,
                CertsAgree, TypeOK, NoDS, NoPod, Exists
  <2>23. CASE EditDS
    BY <2>23 DEF EditDS, reconciler, cache, WriteDS, CertsInv, CertsBeforeAgents,
                CertsAgree, TypeOK, NoDS, NoPod, Exists
  <2> QED
    BY <2>0, <2>1, <2>2, <2>3, <2>4, <2>5, <2>6, <2>7, <2>8, <2>9, <2>10,
       <2>11, <2>12, <2>13, <2>14, <2>15, <2>16, <2>17, <2>18, <2>19, <2>20, <2>21,
       <2>22, <2>23
       DEF Next, Reconcile, Cluster, Users
<1> QED
  BY <1>1, <1>2, ConfigurationTypes, PTL DEF Spec

\* Agents that have certificates have the same, whatever the manager's cache
\* says, for any number of agents, failures and restarts.
THEOREM AgentsTrustEachOther == Spec => []CertsAgree
BY CertsInvHolds, PTL DEF CertsInv

\* The DaemonSet never exists without the Secret its agents need.
THEOREM AgentsFindCerts == Spec => []CertsBeforeAgents
BY CertsInvHolds, PTL DEF CertsInv


----------------------------------------------------------------------------
\* The configuration of the calculator.

\* A configuration is at least as new as what has been deployed, and as the one
\* a reconcile works with.
Newest(c) ==
    Exists(c) => /\ ds.gen <= c.gen
                 /\ current.gen <= c.gen
                 /\ \A a \in Agents : pods[a].gen <= c.gen

\* Generations only grow on their way from the server through the cache, the
\* calculator and the DaemonSet to the agents.
OrderInv ==
    /\ Newest(config)
    /\ Newest(cachedConfig)
    /\ Exists(config) => cachedConfig.gen <= config.gen
    /\ pc \notin {"down", "idle"} => calculator = current.gen
    /\ calculator # 0 => ds.gen <= calculator
    /\ CalculatorAhead

LEMMA OrderInvHolds == Spec => []OrderInv
<1>1. Init => OrderInv
  BY DEF Init, OrderInv, Newest, CalculatorAhead, NoConfig, NoDS, NoPod, Exists
<1>2. TypeOK /\ OrderInv /\ [Next]_vars => OrderInv'
  <2> SUFFICES ASSUME TypeOK, OrderInv, [Next]_vars PROVE OrderInv'
    OBVIOUS
  <2>0. CASE UNCHANGED vars
    BY <2>0 DEF vars, server, reconciler, cache, OrderInv, Newest, CalculatorAhead
  <2>1. CASE ConfigDeleted
    BY <2>1 DEF ConfigDeleted, server, cache, OrderInv, Newest, CalculatorAhead, TypeOK,
                ConfigObjects, DaemonSets, Pods, NoConfig, NoDS, NoPod, Exists
  <2>2. CASE BeginReconcile
    BY <2>2
       DEF BeginReconcile, server, cache, SetConfig, firstCall, OrderInv, Newest,
           CalculatorAhead, TypeOK,
                ConfigObjects, DaemonSets, Pods, NoConfig, NoDS, NoPod, Exists
  <2>3. CASE StoreCerts
    BY <2>3
       DEF StoreCerts, reconciler, cache, storedCerts, OrderInv, Newest,
           CalculatorAhead, TypeOK,
                ConfigObjects, DaemonSets, Pods, NoConfig, NoDS, NoPod, Exists
  <2>4. CASE RemoveOldDs
    BY <2>4
       DEF RemoveOldDs, cache, WriteDS, Return, OrderInv, Newest, CalculatorAhead,
           TypeOK,
                ConfigObjects, DaemonSets, Pods, NoConfig, NoDS, NoPod, Exists
  <2>5. CASE GetDs
    BY <2>5 DEF GetDs, server, cache, OrderInv, Newest, CalculatorAhead, TypeOK,
                ConfigObjects, DaemonSets, Pods, NoConfig, NoDS, NoPod, Exists
  <2>6. CASE ApplyDs
    <3>1. appliedDS.gen = current.gen
      BY DEF appliedDS, renderedDS, mergeMetadataForUpdate
    <3> QED
      BY <2>6, <3>1
         DEF ApplyDs, cache, WriteDS, Return, OrderInv, Newest, CalculatorAhead, TypeOK,
                ConfigObjects, DaemonSets, Pods, NoConfig, NoDS, NoPod, Exists
  <2>7. CASE SetCRsEnabledStatus
    BY <2>7
       DEF SetCRsEnabledStatus, server, cache, Return, OrderInv, Newest,
           CalculatorAhead, TypeOK,
                ConfigObjects, DaemonSets, Pods, NoConfig, NoDS, NoPod, Exists
  <2>8. CASE CallFails
    BY <2>8
       DEF CallFails, server, cache, Return, OrderInv, Newest, CalculatorAhead, TypeOK,
                ConfigObjects, DaemonSets, Pods, NoConfig, NoDS, NoPod, Exists
  <2>9. CASE StopManager
    BY <2>9 DEF StopManager, server, cache, OrderInv, Newest, CalculatorAhead, TypeOK,
                ConfigObjects, DaemonSets, Pods, NoConfig, NoDS, NoPod, Exists
  <2>10. CASE StartManager
    BY <2>10 DEF StartManager, OrderInv, Newest, CalculatorAhead, TypeOK,
                ConfigObjects, DaemonSets, Pods, NoConfig, NoDS, NoPod, Exists
  <2>11. CASE InitializeConfig
    BY <2>11
       DEF InitializeConfig, reconciler, cache, storedConfig, OrderInv, Newest,
           CalculatorAhead, TypeOK,
                ConfigObjects, DaemonSets, Pods, NoConfig, NoDS, NoPod, Exists
  <2>12. CASE DeliverConfig
    BY <2>12 DEF DeliverConfig, server, OrderInv, Newest, CalculatorAhead, TypeOK,
                ConfigObjects, DaemonSets, Pods, NoConfig, NoDS, NoPod, Exists
  <2>13. CASE DeliverDS
    BY <2>13 DEF DeliverDS, OrderInv, Newest, CalculatorAhead, TypeOK,
                ConfigObjects, DaemonSets, Pods, NoConfig, NoDS, NoPod, Exists
  <2>14. CASE DeliverSecret
    BY <2>14
       DEF DeliverSecret, server, reconciler, OrderInv, Newest, CalculatorAhead, TypeOK,
                ConfigObjects, DaemonSets, Pods, NoConfig, NoDS, NoPod, Exists
  <2>15. CASE CollectDS
    BY <2>15
       DEF CollectDS, reconciler, cache, WriteDS, OrderInv, Newest, CalculatorAhead,
           TypeOK,
                ConfigObjects, DaemonSets, Pods, NoConfig, NoDS, NoPod, Exists
  <2>16. ASSUME NEW a \in Agents, StartPod(a)
        PROVE  OrderInv'
    BY <2>16
       DEF StartPod, server, reconciler, cache, OrderInv, Newest, CalculatorAhead,
           TypeOK,
                ConfigObjects, DaemonSets, Pods, NoConfig, NoDS, NoPod, Exists
  <2>17. ASSUME NEW a \in Agents, StopPod(a)
        PROVE  OrderInv'
    BY <2>17
       DEF StopPod, server, reconciler, cache, OrderInv, Newest, CalculatorAhead,
           TypeOK,
                ConfigObjects, DaemonSets, Pods, NoConfig, NoDS, NoPod, Exists
  <2>18. ASSUME NEW a \in Agents, LoadCerts(a)
        PROVE  OrderInv'
    BY <2>18
       DEF LoadCerts, server, reconciler, cache, OrderInv, Newest, CalculatorAhead,
           TypeOK,
                ConfigObjects, DaemonSets, Pods, NoConfig, NoDS, NoPod, Exists
  <2>19. ASSUME NEW name \in Names, NEW namespace \in Namespaces,
               NEW spec \in Specs,
               CreateConfig(name, namespace, spec)
        PROVE  OrderInv'
    BY <2>19
       DEF CreateConfig, reconciler, cache, storedConfig, OrderInv, Newest,
           CalculatorAhead, TypeOK,
                ConfigObjects, DaemonSets, Pods, NoConfig, NoDS, NoPod, Exists
  <2>20. ASSUME NEW spec \in Specs, UpdateConfig(spec)
        PROVE  OrderInv'
    BY <2>20
       DEF UpdateConfig, reconciler, cache, storedConfig, OrderInv, Newest,
           CalculatorAhead, TypeOK,
                ConfigObjects, DaemonSets, Pods, NoConfig, NoDS, NoPod, Exists
  <2>21. CASE DeleteConfig
    BY <2>21
       DEF DeleteConfig, reconciler, cache, OrderInv, Newest, CalculatorAhead, TypeOK,
                ConfigObjects, DaemonSets, Pods, NoConfig, NoDS, NoPod, Exists
  <2>22. CASE DeleteDS
    BY <2>22
       DEF DeleteDS, reconciler, cache, WriteDS, OrderInv, Newest, CalculatorAhead,
           TypeOK,
                ConfigObjects, DaemonSets, Pods, NoConfig, NoDS, NoPod, Exists
  <2>23. CASE EditDS
    BY <2>23
       DEF EditDS, reconciler, cache, WriteDS, OrderInv, Newest, CalculatorAhead,
           TypeOK,
                ConfigObjects, DaemonSets, Pods, NoConfig, NoDS, NoPod, Exists
  <2> QED
    BY <2>0, <2>1, <2>2, <2>3, <2>4, <2>5, <2>6, <2>7, <2>8, <2>9, <2>10,
       <2>11, <2>12, <2>13, <2>14, <2>15, <2>16, <2>17, <2>18, <2>19, <2>20, <2>21,
       <2>22, <2>23
       DEF Next, Reconcile, Cluster, Users
<1> QED
  BY <1>1, <1>2, ConfigurationTypes, PTL DEF Spec

\* A manager that knows a configuration waits at least as long as the newest
\* one any agent runs with asks for: the calculator never has an older one,
\* through deletions, upgrades, stale caches and DaemonSets that others edit.
THEOREM CalculatorIsAhead == Spec => []CalculatorAhead
BY OrderInvHolds, PTL DEF OrderInv


============================================================================
