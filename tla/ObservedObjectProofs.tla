-------------------------- MODULE ObservedObjectProofs --------------------------
(***************************************************************************)
(* Why the controller implements ObservedObject: the versions of the       *)
(* AddonConfig reach the worker in the order in which they were stored, so *)
(* that the generation it reports is one that the present incarnation had, *)
(* and not an older one than it reported before.                           *)
(***************************************************************************)
EXTENDS ReconcileProofs

-----------------------------------------------------------------------------
(* The inductive invariant.                                                *)

\* o is an earlier version than p, or the same: of an earlier incarnation, or
\* of the same one before it was deleted and with no later spec.
Earlier(o, p) ==
  \/ o.uid < p.uid
  \/ o.uid = p.uid /\ (p.exists => o.exists /\ o.generation <= p.generation)

\* Incarnations and the versions of their specs are counted from 1.
Numbered(o) == o.uid >= 1 /\ (o.exists => o.generation >= 1)

VersionsNumbered ==
  /\ Numbered(store) /\ Numbered(cache)
  /\ \A i \in 1..Len(events) : Numbered(events[i])

\* What is cached, what is still to be delivered and what is stored follow
\* each other.
VersionsOrdered ==
  /\ Earlier(cache, store)
  /\ \A i \in 1..Len(events) : Earlier(cache, events[i]) /\ Earlier(events[i], store)
  /\ \A i, j \in 1..Len(events) : i < j => Earlier(events[i], events[j])

\* So do what the worker has read and what is cached.
CopyEarlier == w.pc # "idle" => Numbered(w.before) /\ Earlier(w.before, cache)

\* As long as the first incarnation lives, nobody but the controller that
\* read it has reported on it, and nothing later than what is cached.
ReportedBefore ==
  store.exists /\ store.uid = 1 =>
    /\ store.status.observedGeneration <= cache.generation
    /\ w.pc # "idle" => store.status.observedGeneration <= w.ac.generation

VersionInv ==
  ReconcileInv /\ VersionsNumbered /\ VersionsOrdered /\ CopyEarlier /\ ReportedBefore

-----------------------------------------------------------------------------
(* What a step does to the stored version.                                 *)

SameVersion(o, p) ==
  p.exists = o.exists /\ p.uid = o.uid /\ p.generation = o.generation

SameReport(o, p) == p.status.observedGeneration = o.status.observedGeneration

NextVersion(o, p) ==
  o.exists /\ p.exists /\ p.uid = o.uid /\ p.generation = o.generation + 1

\* A write of the API server keeps the incarnation, and counts the specs.
LEMMA WrittenVersion ==
  ASSUME NEW o \in AddonConfig, NEW n \in AddonConfig, SameVersion(o, n)
  PROVE  LET p == Written(o, n)
         IN  /\ p.exists = o.exists /\ p.uid = o.uid /\ p.status = n.status
             /\ p.generation = IF n.spec = o.spec THEN o.generation ELSE o.generation + 1
  <1>1. CASE n = o
    BY <1>1 DEF Written
  <1>2. CASE n # o
    BY <1>2 DEF Written, AddonConfig, SameVersion
  <1> QED  BY <1>1, <1>2

\* The patches of the controller: of the conditions, of the spec and of the
\* status.
LEMMA PatchedVersions ==
  ASSUME NEW b \in AddonConfig, NEW a \in AddonConfig, NEW l \in AddonConfig,
         NEW o \in AddonConfig
  PROVE  /\ LET p == PatchedConditions(b, a, l, o, Now) IN SameVersion(o, p) /\ SameReport(o, p)
         /\ LET p == PatchedSpec(b, a, o)
            IN  /\ SameReport(o, p)
                /\ o.exists => SameVersion(o, p) \/ NextVersion(o, p)
         /\ LET p == PatchedStatus(b, a, o)
            IN  /\ SameVersion(o, p)
                /\ \/ SameReport(o, p)
                   \/ p.status.observedGeneration = a.status.observedGeneration
  <1>1. LET p == PatchedConditions(b, a, l, o, Now) IN SameVersion(o, p) /\ SameReport(o, p)
    <2> DEFINE conds == Apply(b.conditions, a.conditions, l.conditions, Now)
               n == [o EXCEPT !.conditions = conds]
    <2>1. conds \in ConditionList
      BY ApplyType DEF AddonConfig
    <2> HIDE DEF conds
    <2>2. n \in AddonConfig /\ SameVersion(o, n) /\ n.spec = o.spec /\ n.status = o.status
      BY <2>1 DEF AddonConfig, SameVersion
    <2> HIDE DEF n
    <2>3. PatchedConditions(b, a, l, o, Now) = Written(o, n)
      BY DEF PatchedConditions, n, conds
    <2> QED  BY <2>2, <2>3, WrittenVersion DEF SameVersion, SameReport
  <1>2. LET p == PatchedSpec(b, a, o)
        IN  SameReport(o, p) /\ (o.exists => SameVersion(o, p) \/ NextVersion(o, p))
    <2> DEFINE spec == [ref    |-> Merge(b.spec.ref, a.spec.ref, o.spec.ref),
                        target |-> Merge(b.spec.target, a.spec.target, o.spec.target),
                        values |-> Merge(b.spec.values, a.spec.values, o.spec.values)]
               n == [o EXCEPT !.spec = spec]
    <2>1. spec \in AddonConfigSpec
      BY DEF AddonConfig, AddonConfigSpec, Merge
    <2> HIDE DEF spec
    <2>2. n \in AddonConfig /\ SameVersion(o, n) /\ n.status = o.status
      BY <2>1 DEF AddonConfig, SameVersion
    <2> HIDE DEF n
    <2>3. PatchedSpec(b, a, o) = Written(o, n)
      BY DEF PatchedSpec, n, spec
    <2> QED  BY <2>2, <2>3, WrittenVersion DEF SameVersion, NextVersion, SameReport
  <1>3. LET p == PatchedStatus(b, a, o)
        IN  /\ SameVersion(o, p)
            /\ \/ SameReport(o, p)
               \/ p.status.observedGeneration = a.status.observedGeneration
    <2> DEFINE s == b.status  t == a.status  u == o.status
               status == [observedGeneration |->
                            Merge(s.observedGeneration, t.observedGeneration, u.observedGeneration),
                          observedSchemaUID |->
                            Merge(s.observedSchemaUID, t.observedSchemaUID, u.observedSchemaUID),
                          fieldErrors |-> MergeKeys(s.fieldErrors, t.fieldErrors, u.fieldErrors),
                          outputRef   |-> MergeKeys(s.outputRef, t.outputRef, u.outputRef)]
               n == [o EXCEPT !.status = status]
    <2>1. s \in AddonConfigStatus /\ t \in AddonConfigStatus /\ u \in AddonConfigStatus
      BY DEF AddonConfig
    <2>2. /\ status \in AddonConfigStatus
          /\ \/ status.observedGeneration = t.observedGeneration
             \/ status.observedGeneration = u.observedGeneration
      BY <2>1 DEF AddonConfigStatus, Merge, MergeKeys
    <2>3. PatchedStatus(b, a, o) = Written(o, n)
      BY DEF PatchedStatus
    <2> HIDE DEF status
    <2>4. n \in AddonConfig /\ SameVersion(o, n) /\ n.spec = o.spec /\ n.status = status
      BY <2>2 DEF AddonConfig, SameVersion
    <2> HIDE DEF n
    <2> QED  BY <2>2, <2>3, <2>4, WrittenVersion DEF SameVersion, SameReport
  <1> QED  BY <1>1, <1>2, <1>3

\* Every step leaves the stored version, gives it another spec, reports on
\* it, or makes or deletes an incarnation.
LEMMA VersionStep ==
  ASSUME TypeOK, [Next]_vars
  PROVE  \/ SameVersion(store, store') /\ SameReport(store, store')
         \/ /\ PatchSpec \/ EditConfig
            /\ NextVersion(store, store') /\ SameReport(store, store')
         \/ /\ PatchStatus /\ store.exists
            /\ SameVersion(store, store')
            /\ store'.status.observedGeneration = w.ac.status.observedGeneration
         \/ CreateConfig /\ \E spec \in Specs : store' = Created(store, spec)
         \/ DeleteConfig /\ store' = Deleted(store)
  <1>1. store \in AddonConfig /\ cache \in AddonConfig /\ w.before \in AddonConfig /\ w.ac \in AddonConfig
    BY DEF TypeOK, Worker
  <1>2. CASE store' = store
    BY <1>2 DEF SameVersion, SameReport
  <1>3. CASE PatchConditions
    <2>1. store' \in {store, PatchedConditions(w.before, w.ac, cache, store, Now)}
      BY <1>3 DEF PatchConditions, Uncertain, Write
    <2> QED  BY <1>1, <1>2, <2>1, PatchedVersions
  <1>4. CASE PatchSpec
    <2>1. store' = store \/ (store.exists /\ store' = PatchedSpec(w.before, w.ac, store))
      BY <1>4 DEF PatchSpec, Uncertain, Write
    <2> QED  BY <1>1, <1>2, <1>4, <2>1, PatchedVersions
  <1>5. CASE PatchStatus
    <2>1. store' = store \/ (store.exists /\ store' = PatchedStatus(w.before, w.ac, store))
      BY <1>5 DEF PatchStatus, Uncertain, Write
    <2> QED  BY <1>1, <1>2, <1>5, <2>1, PatchedVersions
  <1>6. CASE CreateConfig
    BY <1>6 DEF CreateConfig, Write
  <1>7. CASE DeleteConfig
    BY <1>7 DEF DeleteConfig, Write
  <1>8. CASE EditConfig
    <2>1. PICK spec \in Specs \ {store.spec} : store' = Written(store, [store EXCEPT !.spec = spec])
      BY <1>8 DEF EditConfig, Write
    <2> DEFINE n == [store EXCEPT !.spec = spec]
    <2>2. n \in AddonConfig /\ SameVersion(store, n) /\ n.spec # store.spec /\ n.status = store.status
      BY <1>1, <2>1, ControllerAssumption DEF AddonConfig, SameVersion
    <2> HIDE DEF n
    <2>3. store.exists /\ store' = Written(store, n)
      BY <1>8, <2>1 DEF EditConfig, n
    <2> QED  BY <1>1, <1>8, <2>2, <2>3, WrittenVersion DEF NextVersion, SameReport
  <1>9. CASE SetForeignCondition
    <2> DEFINE conds(c) == Set(store.conditions, "Foreign", c, Now)
    <2>1. PICK c \in {TrueCondition, FalseCondition("Foreign", "Error")} :
            store' = Written(store, [store EXCEPT !.conditions = conds(c)])
      BY <1>9 DEF SetForeignCondition, Write
    <2>2. "Foreign" \in ConditionTypes /\ "Foreign" \in Reasons /\ "Error" \in Severities
      BY DEF ConditionTypes, Reasons, Severities
    <2>3. conds(c) \in ConditionList
      BY <1>1, <2>1, <2>2, ConditionsAreConditions, SetType DEF AddonConfig
    <2> HIDE DEF conds
    <2> DEFINE n == [store EXCEPT !.conditions = conds(c)]
    <2>4. n \in AddonConfig /\ SameVersion(store, n) /\ n.spec = store.spec /\ n.status = store.status
      BY <1>1, <2>3 DEF AddonConfig, SameVersion
    <2>5. store' = Written(store, n)
      BY <2>1
    <2> HIDE DEF n
    <2> QED  BY <1>1, <2>4, <2>5, WrittenVersion DEF SameVersion, SameReport
  <1>10. CASE Start \/ Validate \/ Target \/ ResolveDependency \/ DependenciesResolved
              \/ RenderAndSave
    BY <1>2, <1>10 DEF Start, Validate, Target, ResolveDependency, DependenciesResolved,
       RenderAndSave, api
  <1>11. CASE DeliverConfig \/ DeliverDefinition \/ Timer \/ UNCHANGED vars
    BY <1>2, <1>11 DEF DeliverConfig, DeliverDefinition, Timer, vars, api
  <1>12. CASE Define \/ Undefine \/ ChangeCluster \/ ChangeObjects \/ Restart \/ Resync
    BY <1>2, <1>12 DEF Define, Undefine, ChangeCluster, ChangeObjects, Restart, Resync, api
  <1> QED
    BY <1>3, <1>4, <1>5, <1>6, <1>7, <1>8, <1>9, <1>10, <1>11, <1>12 DEF Next, Reconcile, Environment

-----------------------------------------------------------------------------
(* The order of the versions.                                              *)

\* The facts about numbers that the order needs.
LEMMA VersionTypes ==
  ASSUME NEW o \in AddonConfig
  PROVE  /\ o.exists \in BOOLEAN /\ o.uid \in Nat /\ o.generation \in Nat
         /\ o.status.observedGeneration \in Nat
  BY DEF AddonConfig, AddonConfigStatus

\* The order is a preorder.
LEMMA EarlierPreorder ==
  ASSUME NEW o \in AddonConfig, NEW p \in AddonConfig, NEW q \in AddonConfig
  PROVE  /\ Earlier(o, o)
         /\ Earlier(o, p) /\ Earlier(p, q) => Earlier(o, q)
  BY VersionTypes DEF Earlier

\* The stored version is followed by a later one, and is numbered.
LEMMA StoredLater ==
  ASSUME TypeOK, TypeOK', Numbered(store), [Next]_vars
  PROVE  Earlier(store, store') /\ Numbered(store')
  <1>1. store \in AddonConfig /\ store' \in AddonConfig
    BY DEF TypeOK
  <1>2. CASE SameVersion(store, store') \/ NextVersion(store, store')
    BY <1>1, <1>2, VersionTypes DEF SameVersion, NextVersion, Earlier, Numbered
  <1>3. CASE \E spec \in Specs : store' = Created(store, spec)
    BY <1>1, <1>3, VersionTypes DEF Created, Earlier, Numbered
  <1>4. CASE store' = Deleted(store)
    BY <1>1, <1>4, VersionTypes DEF Deleted, NoAddonConfig, Earlier, Numbered
  <1> QED  BY <1>2, <1>3, <1>4, VersionStep

\* The events are the ones that were pending, in order, and the stored
\* version last if it is new.
LEMMA WriteAppends ==
  ASSUME NEW o, Write(o), TypeOK, TypeOK'
  PROVE  \/ events' = events
         \/ /\ Len(events') = Len(events) + 1 /\ events'[Len(events')] = store'
            /\ \A i \in 1..Len(events) : events'[i] = events[i]
  BY AppendProperties DEF Write, TypeOK

\* Delivering takes the first of them.
LEMMA DeliverTakes ==
  ASSUME TypeOK, DeliverConfig
  PROVE  /\ Len(events) >= 1 /\ cache' = events[1]
         /\ Len(events') = Len(events) - 1
         /\ \A i \in 1..Len(events') : events'[i] = events[i + 1]
  <1>1. /\ events \in Seq(AddonConfig) /\ events # <<>>
        /\ cache' = Head(events) /\ events' = Tail(events)
    BY DEF TypeOK, DeliverConfig
  <1>2. Len(events) \in Nat \ {0}
    BY <1>1, EmptySeq
  <1> QED  BY <1>1, <1>2, HeadTailProperties

\* Versions are numbered.
LEMMA NumberedStep ==
  ASSUME TypeOK, TypeOK', VersionsNumbered, [Next]_vars
  PROVE  VersionsNumbered'
  <1>1. events \in Seq(AddonConfig) /\ events' \in Seq(AddonConfig) /\ Numbered(store')
    BY StoredLater DEF TypeOK, VersionsNumbered
  <1>2. Len(events) \in Nat /\ Len(events') \in Nat
    BY <1>1
  <1>3. CASE UNCHANGED <<store, events, cache>>
    BY <1>3 DEF VersionsNumbered
  <1>4. CASE UNCHANGED cache /\ \E o : Write(o)
    BY <1>1, <1>2, <1>4, WriteAppends DEF VersionsNumbered
  <1>5. CASE DeliverConfig
    <2>1. \A i \in 1..Len(events') : i + 1 \in 1..Len(events)
      BY <1>2, <1>5, DeliverTakes
    <2>2. 1 \in 1..Len(events)
      BY <1>2, <1>5, DeliverTakes
    <2> QED  BY <1>1, <1>5, <2>1, <2>2, DeliverTakes DEF VersionsNumbered
  <1>6. CASE Restart
    BY <1>1, <1>6 DEF Restart, VersionsNumbered
  <1> QED  BY <1>3, <1>4, <1>5, <1>6, StoreStep

\* They reach the cache in the order in which they were stored.
LEMMA OrderedStep ==
  ASSUME TypeOK, TypeOK', VersionsNumbered, VersionsOrdered, [Next]_vars
  PROVE  VersionsOrdered'
  <1>1. /\ store \in AddonConfig /\ store' \in AddonConfig /\ cache \in AddonConfig
        /\ events \in Seq(AddonConfig) /\ events' \in Seq(AddonConfig)
    BY DEF TypeOK
  <1>2. Len(events) \in Nat /\ Len(events') \in Nat
    BY <1>1
  <1>3. \A i \in 1..Len(events) : events[i] \in AddonConfig
    BY <1>1
  <1>4. Earlier(store, store')
    BY StoredLater DEF VersionsNumbered
  <1>5. /\ Earlier(cache, store')
        /\ \A i \in 1..Len(events) : Earlier(events[i], store')
    BY <1>1, <1>3, <1>4, EarlierPreorder DEF VersionsOrdered
  <1>6. CASE UNCHANGED <<events, cache>>
    BY <1>5, <1>6 DEF VersionsOrdered
  <1>7. CASE UNCHANGED cache /\ \E o : Write(o)
    <2>1. CASE events' = events
      BY <1>6, <1>7, <2>1
    <2>2. CASE /\ Len(events') = Len(events) + 1 /\ events'[Len(events')] = store'
               /\ \A i \in 1..Len(events) : events'[i] = events[i]
      <3> DEFINE n == Len(events')
      <3>1. \A i \in 1..n : i \in 1..Len(events) \/ i = n
        BY <1>2, <2>2
      <3>2. \A i \in 1..n : Earlier(cache, events'[i]) /\ Earlier(events'[i], store')
        BY <1>1, <1>5, <2>2, <3>1, EarlierPreorder DEF VersionsOrdered
      <3>3. ASSUME NEW i \in 1..n, NEW j \in 1..n, i < j
            PROVE  Earlier(events'[i], events'[j])
        <4>1. i \in 1..Len(events)
          BY <1>2, <2>2, <3>3
        <4>2. CASE j \in 1..Len(events)
          BY <2>2, <3>3, <4>1, <4>2 DEF VersionsOrdered
        <4>3. CASE j = n
          BY <1>5, <2>2, <4>1, <4>3
        <4> QED  BY <3>1, <4>2, <4>3
      <3> HIDE DEF n
      <3>4. Earlier(cache', store')
        BY <1>5, <1>7
      <3> QED  BY <1>7, <3>2, <3>3, <3>4 DEF VersionsOrdered, n
    <2> QED  BY <1>7, <2>1, <2>2, WriteAppends
  <1>8. CASE DeliverConfig
    <2>1. /\ 1 \in 1..Len(events) /\ cache' = events[1]
          /\ \A i \in 1..Len(events') : /\ i + 1 \in 1..Len(events) /\ 1 < i + 1
                                        /\ events'[i] = events[i + 1]
      BY <1>2, <1>8, DeliverTakes
    <2>2. \A i, j \in 1..Len(events') : i < j => i + 1 < j + 1
      OBVIOUS
    <2> QED  BY <1>5, <2>1, <2>2 DEF VersionsOrdered
  <1>9. CASE Restart
    BY <1>1, <1>9, EarlierPreorder DEF Restart, VersionsOrdered
  <1> QED  BY <1>6, <1>7, <1>8, <1>9, StoreStep

-----------------------------------------------------------------------------
(* The worker.                                                             *)

\* The worker takes the version that is cached, works on it, and stops.
LEMMA WorkerStep ==
  ASSUME TypeOK, [Next]_vars
  PROVE  \/ w'.pc = "idle"
         \/ w.pc = "idle" /\ UNCHANGED <<store, cache>> /\ CopyOf(w', cache)
         \/ /\ w.pc # "idle" /\ w'.before = w.before
            /\ w'.ac.uid = w.ac.uid /\ w'.ac.generation = w.ac.generation
            /\ DeliverConfig \/ UNCHANGED cache
         \/ w' = w /\ (DeliverConfig \/ UNCHANGED cache)
  <1>1. CASE Start
    BY <1>1, StartStep DEF Start, Idle, api
  <1>2. CASE Validate
    BY <1>2, ValidateStep DEF Validate, Continues
  <1>3. CASE Target \/ ResolveDependency \/ DependenciesResolved
    BY <1>3, PhaseStep DEF ContinuesCopy, Continues, Target, ResolveDependency,
       DependenciesResolved
  <1>4. CASE RenderAndSave
    BY <1>4, RenderStep DEF ContinuesCopy, Continues, RenderAndSave
  <1>5. CASE PatchConditions \/ PatchSpec
    BY <1>5, PatchStep DEF PatchConditions, PatchSpec
  <1>6. CASE PatchStatus \/ Restart
    BY <1>6 DEF PatchStatus, Finish, Restart, Idle
  <1>7. CASE DeliverConfig \/ DeliverDefinition \/ Timer \/ UNCHANGED vars
    BY <1>7 DEF DeliverConfig, DeliverDefinition, Timer, vars
  <1>8. CASE Environment /\ ~Restart
    BY <1>8, OutsideStep
  <1> QED
    BY <1>1, <1>2, <1>3, <1>4, <1>5, <1>6, <1>7, <1>8 DEF Next, Reconcile

\* What the worker has read is not later than what is cached.
LEMMA CopyEarlierStep ==
  ASSUME TypeOK, TypeOK', VersionsNumbered, VersionsOrdered, CopyEarlier, [Next]_vars
  PROVE  CopyEarlier'
  <1>1. /\ cache \in AddonConfig /\ cache' \in AddonConfig
        /\ w.before \in AddonConfig /\ w'.before \in AddonConfig
    BY DEF TypeOK, Worker
  <1>2. DeliverConfig => Earlier(cache, cache')
    <2>1. Len(events) \in Nat
      BY DEF TypeOK
    <2> QED  BY <2>1, DeliverTakes DEF VersionsOrdered
  <1>3. CASE w'.pc = "idle"
    BY <1>3 DEF CopyEarlier
  <1>4. CASE UNCHANGED cache /\ CopyOf(w', cache)
    BY <1>1, <1>4, EarlierPreorder DEF CopyEarlier, CopyOf, VersionsNumbered
  <1>5. CASE w.pc # "idle" /\ w'.before = w.before /\ (DeliverConfig \/ UNCHANGED cache)
    BY <1>1, <1>2, <1>5, EarlierPreorder DEF CopyEarlier
  <1>6. CASE w' = w /\ (DeliverConfig \/ UNCHANGED cache)
    BY <1>3, <1>5, <1>6
  <1> QED  BY <1>3, <1>4, <1>5, <1>6, WorkerStep

\* What is cached is followed by a later version.
LEMMA CacheLater ==
  ASSUME TypeOK, TypeOK', VersionsOrdered, [Next]_vars
  PROVE  Earlier(cache, cache')
  <1>1. cache \in AddonConfig /\ Len(events) \in Nat
    BY DEF TypeOK
  <1>2. CASE UNCHANGED cache
    BY <1>1, <1>2, EarlierPreorder
  <1>3. CASE DeliverConfig
    BY <1>1, <1>3, DeliverTakes DEF VersionsOrdered
  <1>4. CASE Restart
    BY <1>4 DEF Restart, VersionsOrdered
  <1> QED  BY <1>2, <1>3, <1>4, StoreStep

\* Whatever lies between two versions of an incarnation is one of it.
LEMMA Between ==
  ASSUME NEW o \in AddonConfig, NEW p \in AddonConfig, NEW q \in AddonConfig,
         Earlier(o, p), Earlier(p, q), o.uid = q.uid, q.exists
  PROVE  /\ p.uid = q.uid /\ p.exists /\ o.exists
         /\ o.generation <= p.generation /\ p.generation <= q.generation
  BY VersionTypes DEF Earlier

\* A reconciliation reports the generation of the version that it has read.
LEMMA ReportIsRead ==
  ASSUME TypeOK, CopiesCurrent, Recorded, PatchStatus
  PROVE  /\ w.ac.status.observedGeneration = w.before.generation
         /\ w.ac.uid = w.before.uid /\ w.ac.generation = w.before.generation
         /\ w.pc # "idle" /\ w'.pc = "idle" /\ UNCHANGED cache
  BY DEF PatchStatus, Finish, Idle, CopiesCurrent, CopyOf, Recorded, Patching, Summarised

\* No report is later than what is cached, and none is taken back.
LEMMA ReportedBeforeStep ==
  ASSUME VersionInv, TypeOK', VersionsNumbered', VersionsOrdered', [Next]_vars
  PROVE  ReportedBefore'
  <1> USE DEF VersionInv, ReconcileInv
  <1> SUFFICES ASSUME store'.exists, store'.uid = 1
               PROVE  /\ store'.status.observedGeneration <= cache'.generation
                      /\ w'.pc # "idle" =>
                           store'.status.observedGeneration <= w'.ac.generation
    BY DEF ReportedBefore
  <1>1. /\ store \in AddonConfig /\ store' \in AddonConfig
        /\ cache \in AddonConfig /\ cache' \in AddonConfig /\ w.before \in AddonConfig
    BY DEF TypeOK, Worker
  <1>2. store.exists /\ store.uid = 1
    <2>1. store.uid >= 1 /\ store.uid \in Nat
      BY <1>1, VersionTypes DEF VersionsNumbered, Numbered
    <2>2. CASE SameVersion(store, store') \/ NextVersion(store, store')
      BY <2>2 DEF SameVersion, NextVersion
    <2>3. CASE \E spec \in Specs : store' = Created(store, spec)
      BY <2>1, <2>3 DEF Created
    <2>4. CASE store' = Deleted(store)
      BY <2>4 DEF Deleted, NoAddonConfig
    <2> QED  BY <2>2, <2>3, <2>4, VersionStep
  <1>3. Earlier(cache, cache') /\ Earlier(cache', store') /\ Numbered(cache)
    BY CacheLater DEF VersionsOrdered, VersionsNumbered
  <1>4. cache.uid = 1
    BY <1>1, <1>2, <1>3, VersionTypes DEF VersionsOrdered, Earlier, Numbered
  <1>5. cache'.uid = 1 /\ cache.exists /\ cache.generation <= cache'.generation
    BY <1>1, <1>3, <1>4, Between
  <1>6. /\ store.status.observedGeneration <= cache.generation
        /\ w.pc # "idle" => store.status.observedGeneration <= w.ac.generation
    BY <1>2 DEF ReportedBefore
  <1>7. CASE SameReport(store, store')
    <2>1. store'.status.observedGeneration <= cache'.generation
      BY <1>1, <1>5, <1>6, <1>7, VersionTypes DEF SameReport
    <2>2. w'.pc # "idle" => store'.status.observedGeneration <= w'.ac.generation
      BY <1>6, <1>7, WorkerStep DEF SameReport, CopyOf
    <2> QED  BY <2>1, <2>2
  <1>8. CASE PatchStatus /\ store'.status.observedGeneration = w.ac.status.observedGeneration
    <2>1. /\ store'.status.observedGeneration = w.before.generation
          /\ w.pc # "idle" /\ w'.pc = "idle" /\ UNCHANGED cache
      BY <1>8, ReportIsRead
    <2>2. Earlier(w.before, cache) /\ Numbered(w.before)
      BY <2>1 DEF CopyEarlier
    <2>3. w.before.generation <= cache.generation
      BY <1>1, <1>4, <1>5, <2>2, VersionTypes DEF Earlier, Numbered
    <2> QED  BY <2>1, <2>3
  <1>9. CASE \E spec \in Specs : store' = Created(store, spec)
    BY <1>2, <1>9 DEF Created
  <1>10. CASE store' = Deleted(store)
    BY <1>10 DEF Deleted, NoAddonConfig
  <1> QED  BY <1>7, <1>8, <1>9, <1>10, VersionStep

\* The invariant holds throughout.
LEMMA VersionInvInductive == Spec => []VersionInv
  <1>1. Init => VersionInv
    <2> SUFFICES ASSUME Init PROVE VersionInv
      OBVIOUS
    <2>1. ReconcileInv
      BY ReconcileInvInductive
    <2>2. PICK spec \in Specs : store = Created(NoAddonConfig, spec)
      BY DEF Init
    <2>3. /\ store.uid = 1 /\ store.generation = 1 /\ store.status.observedGeneration = 0
          /\ cache = store /\ events = <<>> /\ w.pc = "idle"
      BY <2>2 DEF Init, Idle, Created, NoAddonConfig, NoStatus
    <2> QED
      BY <2>1, <2>3 DEF VersionInv, VersionsNumbered, Numbered, VersionsOrdered, Earlier,
         CopyEarlier, ReportedBefore
  <1>2. VersionInv /\ [Next]_vars => VersionInv'
    <2> SUFFICES ASSUME VersionInv, [Next]_vars PROVE VersionInv'
      OBVIOUS
    <2>1. ReconcileInv'
      BY ReconcileInvInductive DEF VersionInv
    <2>2. VersionsNumbered' /\ VersionsOrdered' /\ CopyEarlier'
      BY <2>1, NumberedStep, OrderedStep, CopyEarlierStep DEF VersionInv, ReconcileInv
    <2>3. ReportedBefore'
      BY <2>1, <2>2, ReportedBeforeStep DEF ReconcileInv
    <2> QED  BY <2>1, <2>2, <2>3 DEF VersionInv
  <1> QED  BY <1>1, <1>2, PTL DEF Spec

-----------------------------------------------------------------------------
(* The refinement.                                                         *)

\* Having caught up with an incarnation, the controller does not fall behind
\* it again.
LEMMA NotBehindAgain ==
  ASSUME VersionInv, VersionInv', [Next]_vars,
         store.exists, store'.exists, store'.uid = store.uid, ~Behind
  PROVE  ~Behind'
  <1> USE DEF VersionInv, ReconcileInv
  <1>1. /\ store' \in AddonConfig /\ cache \in AddonConfig /\ cache' \in AddonConfig
    BY DEF TypeOK
  <1>2. cache.uid = store.uid /\ (w.pc # "idle" => w.ac.uid = store.uid)
    BY DEF Behind
  <1>3. Earlier(cache, cache') /\ Earlier(cache', store')
    BY CacheLater DEF VersionsOrdered
  <1>4. cache'.uid = store'.uid
    BY <1>1, <1>2, <1>3, Between
  <1>5. w'.pc # "idle" => w'.ac.uid = store'.uid
    BY <1>2, WorkerStep DEF CopyOf
  <1> QED  BY <1>4, <1>5 DEF Behind

\* A report is on the incarnation that the worker read, unless the worker is
\* behind.
LEMMA ReportStep ==
  ASSUME VersionInv, VersionInv', PatchStatus, store.exists,
         SameVersion(store, store'),
         store'.status.observedGeneration = w.ac.status.observedGeneration
  PROVE  [Observed!Next]_(Observed!vars)
  <1> USE DEF VersionInv, ReconcileInv
  <1> DEFINE reported == store'.status.observedGeneration
  <1>1. /\ store \in AddonConfig /\ cache \in AddonConfig /\ w.before \in AddonConfig
    BY DEF TypeOK, Worker
  <1>2. /\ reported = w.before.generation /\ w.ac.generation = w.before.generation
        /\ w.ac.uid = w.before.uid /\ w.pc # "idle"
    BY ReportIsRead
  <1>3. /\ store'.exists = store.exists /\ store'.uid = store.uid
        /\ store'.generation = store.generation
    BY DEF SameVersion
  <1>4. Behind' \in BOOLEAN /\ reported \in Nat
    BY <1>1, <1>2, VersionTypes DEF Behind
  <1>5. CASE Behind
    <2>1. Observed!ReportOfPredecessor
      BY <1>3, <1>4, <1>5 DEF Observed!ReportOfPredecessor
    <2> QED  BY <2>1 DEF Observed!Next
  <1>6. CASE ~Behind
    <2>1. w.before.uid = store.uid
      BY <1>2, <1>6 DEF Behind
    <2>2. w.before.exists /\ w.before.generation <= store.generation
      <3>1. Earlier(w.before, cache) /\ Earlier(cache, store)
        BY <1>2 DEF CopyEarlier, VersionsOrdered
      <3>2. w.before.generation <= cache.generation /\ cache.generation <= store.generation
        BY <1>1, <2>1, <3>1, Between
      <3>3. w.before.exists
        BY <1>1, <2>1, <3>1, Between
      <3> QED  BY <1>1, <3>2, <3>3, VersionTypes
    <2>3. reported \in 1..store.generation
      BY <1>1, <1>2, <2>2, VersionTypes DEF CopyEarlier, Numbered
    <2>4. store.uid = 1 => store.status.observedGeneration <= reported
      BY <1>2 DEF ReportedBefore
    <2>5. ~Behind'
      BY <1>3, <1>6, NotBehindAgain DEF Next, Reconcile
    <2>6. CASE reported = store.status.observedGeneration
      <3>1. Behind' = Behind
        BY <1>6, <2>5 DEF Behind
      <3> QED  BY <1>3, <2>6, <3>1 DEF Observed!vars
    <2>7. CASE reported # store.status.observedGeneration
      <3>1. store.uid = 1 => reported > store.status.observedGeneration
        BY <1>1, <1>4, <2>4, <2>7, VersionTypes
      <3>2. Behind' = Behind
        BY <1>6, <2>5 DEF Behind
      <3>3. Observed!Report
        BY <1>3, <1>6, <2>3, <3>1, <3>2 DEF Observed!Report
      <3> QED  BY <3>3 DEF Observed!Next
    <2> QED  BY <2>6, <2>7
  <1> QED  BY <1>5, <1>6

\* A new spec, of a user or of the controller.
LEMMA ChangeSpecStep ==
  ASSUME PatchSpec \/ EditConfig, TypeOK, NextVersion(store, store'), SameReport(store, store')
  PROVE  Observed!ChangeSpec
  <1>1. Behind' = Behind
    <2>1. /\ store'.uid = store.uid /\ store'.exists /\ store.exists /\ cache' = cache
      BY DEF NextVersion, PatchSpec, EditConfig
    <2>2. CASE w' = w
      BY <2>1, <2>2 DEF Behind
    <2>3. CASE w.pc # "idle" /\ w'.pc # "idle" /\ w'.ac = w.ac
      BY <2>1, <2>3 DEF Behind
    <2> QED  BY <2>2, <2>3, PatchStep DEF EditConfig
  <1> QED  BY <1>1 DEF Observed!ChangeSpec, NextVersion, SameReport

\* A step that the version and the report do not show.
LEMMA QuietVersionStep ==
  ASSUME VersionInv, VersionInv', [Next]_vars,
         SameVersion(store, store'), SameReport(store, store')
  PROVE  [Observed!Next]_(Observed!vars)
  <1>1. /\ store'.exists = store.exists /\ store'.uid = store.uid
        /\ store'.generation = store.generation
        /\ store'.status.observedGeneration = store.status.observedGeneration
    BY DEF SameVersion, SameReport
  <1>2. CASE Behind /\ ~Behind'
    BY <1>1, <1>2 DEF Observed!CatchUp, Observed!Next
  <1>3. CASE ~(Behind /\ ~Behind')
    <2>1. ~Behind => ~Behind'
      BY <1>1, NotBehindAgain DEF Behind
    <2>2. Behind' = Behind
      BY <1>3, <2>1 DEF Behind
    <2> QED  BY <1>1, <2>2 DEF Observed!vars
  <1> QED  BY <1>2, <1>3

\* Every step of the controller and its environment is one of ObservedObject,
\* or none.
LEMMA ObservedStep ==
  ASSUME VersionInv, VersionInv', [Next]_vars
  PROVE  [Observed!Next]_(Observed!vars)
  <1> USE DEF VersionInv, ReconcileInv
  <1>1. CASE SameVersion(store, store') /\ SameReport(store, store')
    BY <1>1, QuietVersionStep
  <1>2. CASE /\ PatchSpec \/ EditConfig
             /\ NextVersion(store, store') /\ SameReport(store, store')
    BY <1>2, ChangeSpecStep DEF Observed!Next
  <1>3. CASE /\ PatchStatus /\ store.exists
             /\ SameVersion(store, store')
             /\ store'.status.observedGeneration = w.ac.status.observedGeneration
    BY <1>3, ReportStep
  <1>4. CASE CreateConfig /\ \E spec \in Specs : store' = Created(store, spec)
    <2>1. /\ ~store.exists /\ store'.exists /\ store'.uid = store.uid + 1
          /\ store'.generation = 1 /\ store'.status.observedGeneration = 0
      BY <1>4 DEF CreateConfig, Created, NoStatus
    <2>2. cache' = cache /\ cache.uid # store.uid + 1
      <3>1. store \in AddonConfig /\ cache \in AddonConfig
        BY DEF TypeOK
      <3> QED  BY <1>4, <3>1, VersionTypes DEF CreateConfig, VersionsOrdered, Earlier
    <2>3. Behind'
      BY <2>1, <2>2 DEF Behind
    <2> QED  BY <2>1, <2>3 DEF Observed!Create, Observed!Next
  <1>5. CASE DeleteConfig /\ store' = Deleted(store)
    <2>1. /\ store.exists /\ ~store'.exists /\ store'.uid = store.uid
          /\ store'.generation = 0 /\ store'.status.observedGeneration = 0
      BY <1>5 DEF DeleteConfig, Deleted, NoAddonConfig, NoStatus
    <2>2. ~Behind'
      BY <2>1 DEF Behind
    <2> QED  BY <2>1, <2>2 DEF Observed!Delete, Observed!Next
  <1> QED  BY <1>1, <1>2, <1>3, <1>4, <1>5, VersionStep

\* The controller implements ObservedObject: whatever caches, patches, lost
\* replies and restarts do, observedGeneration claims no generation that does
\* not exist, and does not go back before the first deletion; later, only a
\* patch for a deleted predecessor may break this, and only until the
\* controller has caught up.
THEOREM ObservedImplemented == Spec => ReportsObservedGeneration
  <1>1. Init => Observed!Init
    <2> SUFFICES ASSUME Init PROVE Observed!Init
      OBVIOUS
    <2>1. PICK spec \in Specs : store = Created(NoAddonConfig, spec)
      BY DEF Init
    <2>2. /\ store.exists = TRUE /\ store.uid = 1 /\ store.generation = 1
          /\ store.status.observedGeneration = 0
      BY <2>1 DEF Created, NoAddonConfig, NoStatus
    <2>3. Behind = FALSE
      BY DEF Init, Idle, Behind
    <2> QED  BY <2>2, <2>3 DEF Observed!Init
  <1>2. VersionInv /\ VersionInv' /\ [Next]_vars => [Observed!Next]_(Observed!vars)
    BY ObservedStep
  <1> QED
    BY <1>1, <1>2, VersionInvInductive, PTL DEF Spec, ReportsObservedGeneration, Observed!Spec
=============================================================================
