--------------------------- MODULE EventDispatchProofs ---------------------------
(***************************************************************************)
(* Why an AddonConfig of which nothing is under way has observed the       *)
(* definition that it refers to, for any number of AddonConfigs,           *)
(* definitions and changes.                                                *)
(***************************************************************************)
EXTENDS EventDispatch, FiniteSetTheorems, SequenceTheorems, TLAPS

-----------------------------------------------------------------------------
(* The inductive invariant.                                                *)

Status ==
  [observedGeneration : Nat, observedSchemaUID : Nat \cup {NoUID},
   updated : BOOLEAN, outputRef : Outputs \cup {NoOutput}]

Object == [generation : Nat, definitionRef : Definitions, status : Status]
Definition == [exists : BOOLEAN, uid : Nat, revision : Nat]

Queues ==
  [waiting : Seq(Configs), dirty : SUBSET Configs, processing : SUBSET Configs]

Worker ==
  [pc : {"phases", "patch"}, config : Configs, before : Object, status : Status]

TypeInv ==
  /\ configs \in [Configs -> Object] /\ configCache \in [Configs -> Object]
  /\ configEvents \in Seq([name : Configs, object : Object])
  /\ definitions \in [Definitions -> Definition] /\ defCache \in [Definitions -> Definition]
  /\ defEvents \in Seq([name : Definitions, object : Definition])
  /\ notes \in Seq(Definitions)
  /\ queue \in Queues
  /\ delayed \in SUBSET Configs
  /\ w = Idle \/ w \in Worker
  /\ DOMAIN outputs = Outputs

\* There is an event about `n' to deliver.
About(n, pending) == \E i \in DOMAIN pending : pending[i].name = n

\* The last event about `n' has the stored version; if there is none, the
\* cache has it.
Follows(n, cached, pending, stored) ==
  /\ ~About(n, pending) => cached = stored
  /\ \A i \in DOMAIN pending :
       pending[i].name = n /\ (\A j \in DOMAIN pending : j > i => pending[j].name # n) =>
         pending[i].object = stored

InformersFollow ==
  /\ \A c \in Configs : Follows(c, configCache[c], configEvents, configs[c])
  /\ \A d \in Definitions : Follows(d, defCache[d], defEvents, definitions[d])

\* What is being processed is what the worker has, and unless it was added
\* again meanwhile, the worker's copy is the version in the cache.
WorkerServes ==
  /\ queue.processing = IF w.pc = "idle" THEN {} ELSE {w.config}
  /\ w.pc # "idle" /\ w.config \notin queue.dirty => w.before = configCache[w.config]

Noted(d) == Contains(notes, d)

\* Nothing will bring the AddonConfig back to the worker.
Undisturbed(c) ==
  /\ configs[c].generation # 0
  /\ c \notin queue.dirty \cup delayed
  /\ ~About(c, configEvents)
  /\ ~About(configs[c].definitionRef, defEvents)
  /\ ~Noted(configs[c].definitionRef)

\* The status is about the definition, and the output is its rendering.
Rendered(c, status) ==
  LET ref == configs[c].definitionRef  d == definitions[ref]
  IN  /\ status.updated = d.exists
      /\ status.observedSchemaUID = IF d.exists THEN d.uid ELSE NoUID
      /\ d.exists =>
           /\ status.outputRef = OutputOf(c, ref)
           /\ Exclusive(c) => outputs[OutputOf(c, ref)] =
                                [config |-> c, uid |-> d.uid, revision |-> d.revision]

\* An AddonConfig that will not come back to the worker has been served, or
\* is about to be: the worker has it, and what it patches is current.
Served ==
  \A c \in Configs :
    Undisturbed(c) =>
      /\ c \notin queue.processing =>
           /\ configs[c].status.observedGeneration = configs[c].generation
           /\ Rendered(c, configs[c].status)
      /\ c \in queue.processing /\ w.pc = "patch" => Rendered(c, w.status)

DispatchInv == TypeInv /\ InformersFollow /\ WorkerServes /\ Served

-----------------------------------------------------------------------------
(* Events on their way to an informer.                                     *)

\* A new event is one more to deliver.
LEMMA AboutAppend ==
  ASSUME NEW S, NEW pending \in Seq(S), NEW event \in S, NEW n
  PROVE  About(n, Append(pending, event)) <=> About(n, pending) \/ event.name = n
  <1>1. /\ Len(Append(pending, event)) = Len(pending) + 1
        /\ \A i \in 1..Len(pending) : Append(pending, event)[i] = pending[i]
        /\ Append(pending, event)[Len(pending) + 1] = event
        /\ DOMAIN pending = 1..Len(pending) /\ Len(pending) \in Nat
        /\ DOMAIN Append(pending, event) = 1..(Len(pending) + 1)
    BY AppendProperties, LenProperties
  <1>2. ASSUME About(n, pending) PROVE About(n, Append(pending, event))
    BY <1>1, <1>2 DEF About
  <1>3. ASSUME event.name = n PROVE About(n, Append(pending, event))
    BY <1>1, <1>3 DEF About
  <1>4. ASSUME About(n, Append(pending, event)), event.name # n PROVE About(n, pending)
    <2>1. PICK i \in 1..(Len(pending) + 1) : Append(pending, event)[i].name = n
      BY <1>1, <1>4 DEF About
    <2>2. i \in 1..Len(pending)
      BY <1>1, <1>4, <2>1
    <2> QED BY <1>1, <2>1, <2>2 DEF About
  <1> QED BY <1>2, <1>3, <1>4

\* What is to deliver is the first event and the others.
LEMMA AboutTail ==
  ASSUME NEW S, NEW pending \in Seq(S), pending # <<>>, NEW n
  PROVE  About(n, pending) <=> Head(pending).name = n \/ About(n, Tail(pending))
  <1>1. /\ Len(Tail(pending)) = Len(pending) - 1
        /\ \A i \in 1..Len(Tail(pending)) : Tail(pending)[i] = pending[i + 1]
        /\ Tail(pending) \in Seq(S) /\ Head(pending) = pending[1]
        /\ DOMAIN pending = 1..Len(pending) /\ Len(pending) \in Nat /\ Len(pending) >= 1
        /\ DOMAIN Tail(pending) = 1..(Len(pending) - 1)
    BY HeadTailProperties, LenProperties, EmptySeq
  <1>2. ASSUME Head(pending).name = n PROVE About(n, pending)
    BY <1>1, <1>2 DEF About
  <1>3. ASSUME About(n, Tail(pending)) PROVE About(n, pending)
    <2>1. PICK i \in 1..(Len(pending) - 1) : Tail(pending)[i].name = n
      BY <1>1, <1>3 DEF About
    <2>2. i + 1 \in 1..Len(pending) /\ pending[i + 1].name = n
      BY <1>1, <2>1
    <2> QED BY <1>1, <2>2 DEF About
  <1>4. ASSUME About(n, pending), Head(pending).name # n PROVE About(n, Tail(pending))
    <2>1. PICK i \in 1..Len(pending) : pending[i].name = n
      BY <1>1, <1>4 DEF About
    <2>2. i - 1 \in 1..(Len(pending) - 1) /\ Tail(pending)[i - 1] = pending[i]
      BY <1>1, <1>4, <2>1
    <2> QED BY <1>1, <2>1, <2>2 DEF About
  <1> QED BY <1>2, <1>3, <1>4

\* A version that is written becomes the last event.
LEMMA FollowsAppend ==
  ASSUME NEW S, NEW pending \in Seq(S), NEW event \in S, NEW n, NEW cached, NEW stored,
         Follows(n, cached, pending, stored)
  PROVE  Follows(n, cached, Append(pending, event),
                 IF event.name = n THEN event.object ELSE stored)
  <1> DEFINE p == Append(pending, event)
             last == Len(pending) + 1
  <1>1. /\ \A i \in 1..Len(pending) : p[i] = pending[i]
        /\ p[last] = event
        /\ DOMAIN pending = 1..Len(pending) /\ Len(pending) \in Nat
        /\ DOMAIN p = 1..last
    BY AppendProperties, LenProperties
  <1>2. ASSUME ~About(n, p) PROVE event.name # n /\ cached = stored
    BY AboutAppend, <1>2 DEF Follows
  <1>3. ASSUME NEW i \in DOMAIN p, p[i].name = n, \A j \in DOMAIN p : j > i => p[j].name # n
        PROVE  p[i].object = IF event.name = n THEN event.object ELSE stored
    <2>1. CASE i = last
      BY <1>1, <1>3, <2>1
    <2>2. CASE i # last
      <3>1. i \in DOMAIN pending /\ last > i /\ last \in DOMAIN p
        BY <1>1, <2>2
      <3>2. event.name # n
        BY <1>1, <1>3, <3>1
      <3>3. \A j \in DOMAIN pending : j > i => pending[j].name # n
        BY <1>1, <1>3
      <3>4. pending[i].object = stored
        BY <1>1, <1>3, <3>1, <3>3 DEF Follows
      <3> QED BY <1>1, <3>1, <3>2, <3>4
    <2> QED BY <2>1, <2>2
  <1> HIDE DEF p
  <1>4. Follows(n, cached, p, IF event.name = n THEN event.object ELSE stored)
    BY <1>2, <1>3 DEF Follows
  <1> QED BY <1>4 DEF p

\* A version that is delivered is put in the cache.
LEMMA FollowsTail ==
  ASSUME NEW S, NEW pending \in Seq(S), pending # <<>>, NEW n, NEW cached, NEW stored,
         Follows(n, cached, pending, stored)
  PROVE  Follows(n, IF Head(pending).name = n THEN Head(pending).object ELSE cached,
                 Tail(pending), stored)
  <1> DEFINE p == Tail(pending)
  <1>1. /\ \A i \in 1..(Len(pending) - 1) : p[i] = pending[i + 1]
        /\ Head(pending) = pending[1]
        /\ DOMAIN pending = 1..Len(pending) /\ Len(pending) \in Nat /\ Len(pending) >= 1
        /\ DOMAIN p = 1..(Len(pending) - 1)
    BY HeadTailProperties, LenProperties, EmptySeq
  <1>2. ASSUME ~About(n, p)
        PROVE  stored = IF Head(pending).name = n THEN Head(pending).object ELSE cached
    <2>1. CASE Head(pending).name = n
      <3>1. ASSUME NEW j \in DOMAIN pending, j > 1 PROVE pending[j].name # n
        <4>1. j - 1 \in DOMAIN p /\ p[j - 1] = pending[j]
          BY <1>1, <3>1
        <4> QED BY <1>2, <4>1 DEF About
      <3> QED BY <1>1, <2>1, <3>1 DEF Follows
    <2>2. CASE Head(pending).name # n
      BY <1>2, <2>2, AboutTail DEF Follows
    <2> QED BY <2>1, <2>2
  <1>3. ASSUME NEW i \in DOMAIN p, p[i].name = n, \A j \in DOMAIN p : j > i => p[j].name # n
        PROVE  p[i].object = stored
    <2>1. i + 1 \in DOMAIN pending /\ pending[i + 1] = p[i]
      BY <1>1, <1>3
    <2>2. ASSUME NEW j \in DOMAIN pending, j > i + 1 PROVE pending[j].name # n
      <3>1. j - 1 \in DOMAIN p /\ p[j - 1] = pending[j] /\ j - 1 > i
        BY <1>1, <1>3, <2>2
      <3> QED BY <1>3, <3>1
    <2> QED BY <1>3, <2>1, <2>2 DEF Follows
  <1> HIDE DEF p
  <1>4. Follows(n, IF Head(pending).name = n THEN Head(pending).object ELSE cached, p, stored)
    BY <1>2, <1>3 DEF Follows
  <1> QED BY <1>4 DEF p

\* Nothing is to deliver at the start.
LEMMA FollowsEmpty ==
  ASSUME NEW n, NEW stored
  PROVE  Follows(n, stored, <<>>, stored)
  BY DEF Follows, About

-----------------------------------------------------------------------------
(* The workqueue.                                                          *)

\* A request that is added is dirty, whether it has to wait or not.
LEMMA AddQueue ==
  ASSUME NEW q \in Queues, NEW c \in Configs
  PROVE  /\ Add(q, c) \in Queues
         /\ Add(q, c).dirty = q.dirty \cup {c}
         /\ Add(q, c).processing = q.processing
  <1>1. Append(q.waiting, c) \in Seq(Configs)
    BY AppendProperties DEF Queues
  <1> QED BY <1>1 DEF Add, Queues

\* Several requests at once: none is lost.
LEMMA AddAllQueue ==
  ASSUME NEW q \in Queues, NEW requests \in SUBSET Configs,
         NEW order \in SetToSeqs(Fresh(q, requests))
  PROVE  /\ AddAll(q, requests, order) \in Queues
         /\ AddAll(q, requests, order).dirty = q.dirty \cup requests
         /\ AddAll(q, requests, order).processing = q.processing
  <1>1. IsFiniteSet(Fresh(q, requests)) /\ Fresh(q, requests) \subseteq Configs
    BY FS_Subset, DispatchAssumption DEF Fresh, DispatchAssumption
  <1>2. Cardinality(Fresh(q, requests)) \in Nat
    BY <1>1, FS_CardinalityType
  <1>3. order \in Seq(Configs)
    BY <1>1, <1>2 DEF SetToSeqs
  <1>4. q.waiting \o order \in Seq(Configs)
    BY <1>3, ConcatProperties DEF Queues
  <1> QED BY <1>4 DEF AddAll, Queues

\* A request that is taken is processed, and no longer dirty.
LEMMA TakeQueue ==
  ASSUME NEW q \in Queues, q.waiting # <<>>
  PROVE  /\ Head(q.waiting) \in Configs
         /\ Take(q) \in Queues
         /\ Take(q).dirty = q.dirty \ {Head(q.waiting)}
         /\ Take(q).processing = {Head(q.waiting)}
  <1>1. Head(q.waiting) \in Configs /\ Tail(q.waiting) \in Seq(Configs)
    BY HeadTailProperties DEF Queues
  <1> QED BY <1>1 DEF Take, Queues

\* A request that was added again while it was processed is still dirty.
LEMMA DoneQueue ==
  ASSUME NEW q \in Queues, NEW c \in Configs
  PROVE  /\ Done(q, c) \in Queues
         /\ Done(q, c).dirty = q.dirty
         /\ Done(q, c).processing = {}
  <1>1. Append(q.waiting, c) \in Seq(Configs)
    BY AppendProperties DEF Queues
  <1> QED BY <1>1 DEF Done, Queues

-----------------------------------------------------------------------------
(* The objects.                                                            *)

\* What a user creates is well typed.
LEMMA NewConfigType ==
  ASSUME NEW d \in Definitions
  PROVE  NewConfig(d) \in Object
  BY DEF NewConfig, Object, Status, NoStatus

\* Of two possible sources, each field of a patched status has one.
LEMMA PatchedType ==
  ASSUME TypeInv, w \in Worker, NEW c \in Configs, NEW observed \in Status
  PROVE  /\ Patched(c, observed) \in Status
         /\ \A f \in DOMAIN NoStatus :
              Patched(c, observed)[f] =
                IF observed[f] = w.before.status[f] \/ (f = "updated" /\ Lagging(c))
                THEN configs[c].status[f] ELSE observed[f]
  <1> DEFINE p == Patched(c, observed)
             stored == configs[c].status
  <1>1. stored \in Status
    BY DEF TypeInv, Object
  <1>2. DOMAIN NoStatus = {"observedGeneration", "observedSchemaUID", "updated", "outputRef"}
    BY DEF NoStatus
  <1>3. \A f \in DOMAIN NoStatus : p[f] = stored[f] \/ p[f] = observed[f]
    BY DEF Patched
  <1>4. p = [observedGeneration |-> p.observedGeneration,
             observedSchemaUID |-> p.observedSchemaUID,
             updated |-> p.updated, outputRef |-> p.outputRef]
    BY <1>2 DEF Patched
  <1>5. /\ p.observedGeneration \in Nat
        /\ p.observedSchemaUID \in Nat \cup {NoUID}
        /\ p.outputRef \in Outputs \cup {NoOutput}
    <2> HIDE DEF p, stored
    <2> QED BY <1>1, <1>2, <1>3 DEF Status
  <1>6. p.updated \in BOOLEAN
    <2>1. stored.updated \in BOOLEAN /\ observed.updated \in BOOLEAN
      BY <1>1 DEF Status
    <2>2. p.updated = stored.updated \/ p.updated = observed.updated
      BY <1>2, <1>3
    <2> HIDE DEF p, stored
    <2> QED BY <2>1, <2>2
  <1>7. p \in Status
    <2> HIDE DEF p, stored
    <2> QED BY <1>4, <1>5, <1>6 DEF Status
  <1>8. \A f \in DOMAIN NoStatus :
          p[f] = IF observed[f] = w.before.status[f] \/ (f = "updated" /\ Lagging(c))
                 THEN configs[c].status[f] ELSE observed[f]
    BY DEF Patched
  <1> QED BY <1>7, <1>8

\* As for events, of the definitions a handler is to be told of.
LEMMA ContainsAppend ==
  ASSUME NEW S, NEW seq \in Seq(S), NEW d \in S, NEW n
  PROVE  Contains(Append(seq, d), n) <=> Contains(seq, n) \/ d = n
  <1>1. /\ \A i \in 1..Len(seq) : Append(seq, d)[i] = seq[i]
        /\ Append(seq, d)[Len(seq) + 1] = d
        /\ Len(seq) \in Nat /\ Len(Append(seq, d)) = Len(seq) + 1
    BY AppendProperties, LenProperties
  <1>2. ASSUME d = n PROVE Contains(Append(seq, d), n)
    BY <1>1, <1>2 DEF Contains
  <1>3. ASSUME NEW i \in 1..Len(seq), seq[i] = n PROVE Contains(Append(seq, d), n)
    BY <1>1, <1>3 DEF Contains
  <1>4. ASSUME NEW i \in 1..Len(Append(seq, d)), Append(seq, d)[i] = n, d # n
        PROVE  Contains(seq, n)
    BY <1>1, <1>4 DEF Contains
  <1> QED BY <1>2, <1>3, <1>4 DEF Contains

\* What is noted is the first note and the others.
LEMMA ContainsTail ==
  ASSUME NEW S, NEW seq \in Seq(S), seq # <<>>, NEW n
  PROVE  Contains(seq, n) <=> Head(seq) = n \/ Contains(Tail(seq), n)
  <1>1. /\ \A i \in 1..(Len(seq) - 1) : Tail(seq)[i] = seq[i + 1]
        /\ Head(seq) = seq[1]
        /\ Len(seq) \in Nat /\ Len(seq) >= 1
        /\ Len(Tail(seq)) = Len(seq) - 1
    BY HeadTailProperties, LenProperties, EmptySeq
  <1>2. ASSUME Head(seq) = n PROVE Contains(seq, n)
    BY <1>1, <1>2 DEF Contains
  <1>3. ASSUME NEW i \in 1..Len(Tail(seq)), Tail(seq)[i] = n PROVE Contains(seq, n)
    <2>1. i + 1 \in 1..Len(seq) /\ seq[i + 1] = n
      BY <1>1, <1>3
    <2> QED BY <2>1 DEF Contains
  <1>4. ASSUME NEW i \in 1..Len(seq), seq[i] = n, Head(seq) # n PROVE Contains(Tail(seq), n)
    <2>1. i - 1 \in 1..Len(Tail(seq)) /\ Tail(seq)[i - 1] = n
      BY <1>1, <1>4
    <2> QED BY <2>1 DEF Contains
  <1> QED BY <1>2, <1>3, <1>4 DEF Contains

-----------------------------------------------------------------------------
(* The watches.                                                            *)

\* Every version of an AddonConfig brings it back to the worker.
LEMMA DeliverConfigStep ==
  ASSUME DispatchInv, DeliverConfig
  PROVE  DispatchInv'
  <1> DEFINE event == Head(configEvents)
  <1> USE DEF DispatchInv
  <1>1. /\ configEvents # <<>>
        /\ configCache' = [configCache EXCEPT ![event.name] = event.object]
        /\ queue' = Add(queue, event.name)
        /\ configEvents' = Tail(configEvents)
        /\ UNCHANGED <<configs, definitions, defEvents, defCache, notes, delayed, w, outputs>>
    BY DEF DeliverConfig
  <1>2. event \in [name : Configs, object : Object]
        /\ Tail(configEvents) \in Seq([name : Configs, object : Object])
    BY <1>1, HeadTailProperties DEF TypeInv
  <1>3. event.name \in Configs /\ event.object \in Object
    BY <1>2
  <1>4. /\ queue' \in Queues
        /\ queue'.dirty = queue.dirty \cup {event.name}
        /\ queue'.processing = queue.processing
    BY <1>1, <1>3, AddQueue DEF TypeInv
  <1>5. \A c \in Configs :
          configCache'[c] = IF event.name = c THEN event.object ELSE configCache[c]
    BY <1>1, <1>3 DEF TypeInv
  <1>6. \A c : About(c, configEvents) <=> event.name = c \/ About(c, configEvents')
    BY <1>1, AboutTail DEF TypeInv
  <1> HIDE DEF event
  <1>7. TypeInv'
    <2>1. configCache' \in [Configs -> Object]
      BY <1>1, <1>3 DEF TypeInv
    <2> QED BY <1>1, <1>2, <1>4, <2>1 DEF TypeInv, Idle
  <1>8. InformersFollow'
    <2>1. ASSUME NEW c \in Configs
          PROVE  Follows(c, configCache'[c], configEvents', configs[c])
      <3>1. Follows(c, IF event.name = c THEN event.object ELSE configCache[c],
                    configEvents', configs[c])
        BY <1>1, FollowsTail DEF InformersFollow, TypeInv, event
      <3> QED BY <3>1, <1>5
    <2> QED BY <1>1, <2>1 DEF InformersFollow
  <1>9. WorkerServes'
    <2>1. ASSUME w.pc # "idle", w.config \notin queue'.dirty
          PROVE  w.before = configCache'[w.config]
      <3>1. w.config \in Configs
        BY <2>1 DEF TypeInv, Idle, Worker
      <3> QED BY <1>4, <1>5, <2>1, <3>1 DEF WorkerServes
    <2> QED BY <1>1, <1>4, <2>1 DEF WorkerServes
  <1>10. Served'
    <2> SUFFICES ASSUME NEW c \in Configs, Undisturbed(c)'
                 PROVE  /\ c \notin queue'.processing =>
                             /\ configs[c].status.observedGeneration = configs[c].generation
                             /\ Rendered(c, configs[c].status)
                        /\ c \in queue'.processing /\ w.pc = "patch" => Rendered(c, w.status)
      BY <1>1 DEF Served, Rendered
    <2>1. Undisturbed(c)
      BY <1>1, <1>4, <1>6 DEF Undisturbed, Noted
    <2> QED BY <1>4, <2>1 DEF Served
  <1> QED BY <1>7, <1>8, <1>9, <1>10

\* A version of a definition is in the cache before its handler runs.
LEMMA DeliverDefinitionStep ==
  ASSUME DispatchInv, DeliverDefinition
  PROVE  DispatchInv'
  <1> DEFINE event == Head(defEvents)
  <1> USE DEF DispatchInv
  <1>1. /\ defEvents # <<>>
        /\ defCache' = [defCache EXCEPT ![event.name] = event.object]
        /\ notes' = Append(notes, event.name)
        /\ defEvents' = Tail(defEvents)
        /\ UNCHANGED <<configs, definitions, configEvents, configCache, queue, delayed, w, outputs>>
    BY DEF DeliverDefinition
  <1>2. event \in [name : Definitions, object : Definition]
        /\ Tail(defEvents) \in Seq([name : Definitions, object : Definition])
    BY <1>1, HeadTailProperties DEF TypeInv
  <1>3. event.name \in Definitions /\ event.object \in Definition
    BY <1>2
  <1>4. \A d \in Definitions :
          defCache'[d] = IF event.name = d THEN event.object ELSE defCache[d]
    BY <1>1, <1>3 DEF TypeInv
  <1>5. \A d : About(d, defEvents) <=> event.name = d \/ About(d, defEvents')
    BY <1>1, AboutTail DEF TypeInv
  <1>6. \A d : Noted(d)' <=> Noted(d) \/ event.name = d
    BY <1>1, <1>3, ContainsAppend DEF TypeInv, Noted
  <1> HIDE DEF event
  <1>7. TypeInv'
    <2>1. defCache' \in [Definitions -> Definition]
      BY <1>1, <1>3 DEF TypeInv
    <2>2. notes' \in Seq(Definitions)
      BY <1>1, <1>3, AppendProperties DEF TypeInv
    <2> QED BY <1>1, <1>2, <2>1, <2>2 DEF TypeInv, Idle
  <1>8. InformersFollow'
    <2>1. ASSUME NEW d \in Definitions
          PROVE  Follows(d, defCache'[d], defEvents', definitions[d])
      <3>1. Follows(d, IF event.name = d THEN event.object ELSE defCache[d],
                    defEvents', definitions[d])
        BY <1>1, FollowsTail DEF InformersFollow, TypeInv, event
      <3> QED BY <3>1, <1>4
    <2> QED BY <1>1, <2>1 DEF InformersFollow
  <1>9. WorkerServes'
    BY <1>1 DEF WorkerServes
  <1>10. Served'
    <2> SUFFICES ASSUME NEW c \in Configs, Undisturbed(c)'
                 PROVE  /\ c \notin queue.processing =>
                             /\ configs[c].status.observedGeneration = configs[c].generation
                             /\ Rendered(c, configs[c].status)
                        /\ c \in queue.processing /\ w.pc = "patch" => Rendered(c, w.status)
      BY <1>1 DEF Served, Rendered
    <2>1. Undisturbed(c)
      BY <1>1, <1>5, <1>6 DEF Undisturbed
    <2> QED BY <2>1 DEF Served
  <1> QED BY <1>7, <1>8, <1>9, <1>10

\* The handler finds every AddonConfig that refers to the definition, unless
\* the cache is about to get another version of it.
LEMMA HandlerStep ==
  ASSUME DispatchInv, addonConfigDefinitionToAddonConfig
  PROVE  DispatchInv'
  <1> DEFINE d == Head(notes)
             requests == GetAddonConfigsByType(d)
  <1> USE DEF DispatchInv
  <1>1. /\ notes # <<>> /\ notes' = Tail(notes)
        /\ UNCHANGED <<configs, definitions, configEvents, configCache, defEvents, defCache,
                       delayed, w, outputs>>
    BY DEF addonConfigDefinitionToAddonConfig
  <1>2. PICK order \in SetToSeqs(Fresh(queue, requests)) : queue' = AddAll(queue, requests, order)
    BY DEF addonConfigDefinitionToAddonConfig
  <1>3. requests \in SUBSET Configs
    BY DEF GetAddonConfigsByType
  <1>4. /\ queue' \in Queues
        /\ queue'.dirty = queue.dirty \cup requests
        /\ queue'.processing = queue.processing
    BY <1>2, <1>3, AddAllQueue DEF TypeInv
  <1>5. \A n : Noted(n) <=> d = n \/ Noted(n)'
    BY <1>1, ContainsTail DEF TypeInv, Noted
  <1>6. TypeInv'
    <2>1. notes' \in Seq(Definitions)
      BY <1>1, HeadTailProperties DEF TypeInv
    <2> QED BY <1>1, <1>4, <2>1 DEF TypeInv, Idle
  <1>7. InformersFollow'
    BY <1>1 DEF InformersFollow
  <1>8. WorkerServes'
    BY <1>1, <1>4 DEF WorkerServes
  <1>9. Served'
    <2> SUFFICES ASSUME NEW c \in Configs, Undisturbed(c)'
                 PROVE  /\ c \notin queue'.processing =>
                             /\ configs[c].status.observedGeneration = configs[c].generation
                             /\ Rendered(c, configs[c].status)
                        /\ c \in queue'.processing /\ w.pc = "patch" => Rendered(c, w.status)
      BY <1>1 DEF Served, Rendered
    <2>1. configCache[c] = configs[c]
      BY <1>1 DEF Undisturbed, InformersFollow, Follows
    <2>2. configs[c].definitionRef # d
      BY <1>1, <1>4, <2>1 DEF Undisturbed, GetAddonConfigsByType
    <2>3. Undisturbed(c)
      BY <1>1, <1>4, <1>5, <2>2 DEF Undisturbed
    <2> QED BY <1>4, <2>3 DEF Served
  <1> QED BY <1>6, <1>7, <1>8, <1>9

\* A request whose delay is over is added again.
LEMMA TimerStep ==
  ASSUME DispatchInv, NEW k \in Configs, Timer(k)
  PROVE  DispatchInv'
  <1> USE DEF DispatchInv
  <1>1. /\ delayed' = delayed \ {k} /\ queue' = Add(queue, k)
        /\ UNCHANGED <<configs, definitions, configEvents, configCache, defEvents, defCache,
                       notes, w, outputs>>
    BY DEF Timer, informers
  <1>2. /\ queue' \in Queues
        /\ queue'.dirty = queue.dirty \cup {k}
        /\ queue'.processing = queue.processing
    BY <1>1, AddQueue DEF TypeInv
  <1>3. TypeInv'
    BY <1>1, <1>2 DEF TypeInv, Idle
  <1>4. InformersFollow'
    BY <1>1 DEF InformersFollow
  <1>5. WorkerServes'
    BY <1>1, <1>2 DEF WorkerServes
  <1>6. Served'
    <2> SUFFICES ASSUME NEW c \in Configs, Undisturbed(c)'
                 PROVE  /\ c \notin queue'.processing =>
                             /\ configs[c].status.observedGeneration = configs[c].generation
                             /\ Rendered(c, configs[c].status)
                        /\ c \in queue'.processing /\ w.pc = "patch" => Rendered(c, w.status)
      BY <1>1 DEF Served, Rendered
    <2>1. Undisturbed(c)
      BY <1>1, <1>2 DEF Undisturbed, Noted
    <2> QED BY <1>2, <2>1 DEF Served
  <1> QED BY <1>3, <1>4, <1>5, <1>6

-----------------------------------------------------------------------------
(* The worker.                                                             *)

\* The worker reads a version that is not outdated, or comes back; if the
\* version is that of a removed AddonConfig, there is nothing to serve.
LEMMA StartStep ==
  ASSUME DispatchInv, Start
  PROVE  DispatchInv'
  <1> DEFINE k == Head(queue.waiting)
  <1> USE DEF DispatchInv
  <1>1. /\ w.pc = "idle" /\ queue.waiting # <<>>
        /\ \/ configCache[k].generation = 0 /\ queue' = Done(Take(queue), k) /\ w' = w
           \/ queue' = Take(queue) /\ w' = Reading(k)
        /\ UNCHANGED <<configs, definitions, configEvents, configCache, defEvents, defCache,
                       notes, delayed, outputs>>
    BY DEF Start, informers
  <1>2. /\ k \in Configs /\ Take(queue) \in Queues
        /\ Take(queue).dirty = queue.dirty \ {k} /\ Take(queue).processing = {k}
    BY <1>1, TakeQueue DEF TypeInv
  <1>3. /\ Done(Take(queue), k) \in Queues
        /\ Done(Take(queue), k).dirty = queue.dirty \ {k}
        /\ Done(Take(queue), k).processing = {}
    BY <1>2, DoneQueue
  <1>4. Reading(k) \in Worker /\ Reading(k).pc = "phases" /\ Reading(k).config = k
        /\ Reading(k).before = configCache[k]
    BY <1>2 DEF Reading, Worker, TypeInv, Object
  <1>5. queue' \in Queues /\ queue'.dirty = queue.dirty \ {k}
    BY <1>1, <1>2, <1>3
  <1>6. queue.processing = {}
    BY <1>1 DEF WorkerServes
  <1> HIDE DEF k
  <1>7. TypeInv'
    BY <1>1, <1>4, <1>5 DEF TypeInv, Idle
  <1>8. InformersFollow'
    BY <1>1 DEF InformersFollow
  <1>9. WorkerServes'
    BY <1>1, <1>2, <1>3, <1>4 DEF WorkerServes
  <1>10. Served'
    <2> SUFFICES ASSUME NEW c \in Configs, Undisturbed(c)'
                 PROVE  /\ c \notin queue'.processing =>
                             /\ configs[c].status.observedGeneration = configs[c].generation
                             /\ Rendered(c, configs[c].status)
                        /\ c \in queue'.processing /\ w'.pc = "patch" => Rendered(c, w'.status)
      BY <1>1 DEF Served, Rendered
    <2>1. CASE c = k
      <3>1. configs[c].generation # 0 /\ configCache[c] = configs[c]
        BY <1>1 DEF Undisturbed, InformersFollow, Follows
      <3>2. queue' = Take(queue) /\ w' = Reading(k)
        BY <1>1, <2>1, <3>1
      <3> QED BY <1>2, <1>4, <2>1, <3>2
    <2>2. CASE c # k
      <3>1. Undisturbed(c)
        BY <1>1, <1>5, <2>2 DEF Undisturbed, Noted
      <3>2. c \notin queue.processing /\ c \notin queue'.processing
        BY <1>1, <1>2, <1>3, <1>6, <2>2
      <3> QED BY <3>1, <3>2 DEF Served
    <2> QED BY <2>1, <2>2
  <1> QED BY <1>7, <1>8, <1>9, <1>10

\* Two AddonConfigs have different outputs if one of them is alone with its
\* cluster.
LEMMA OutputsApart ==
  ASSUME NEW c \in Configs, NEW k \in Configs, NEW d \in Definitions, NEW e \in Definitions,
         Exclusive(c), k # c
  PROVE  OutputOf(k, e) # OutputOf(c, d)
  BY DEF OutputOf, Exclusive

\* What is rendered is the definition that the AddonConfig refers to now.
LEMMA RenderAndSaveStep ==
  ASSUME DispatchInv, RenderAndSave
  PROVE  DispatchInv'
  <1> DEFINE k == w.config
             e == w.before.definitionRef
             found == defCache[e]
             rendering == [config |-> k, uid |-> found.uid, revision |-> found.revision]
  <1> USE DEF DispatchInv
  <1>1. /\ w.pc = "phases"
        /\ UNCHANGED <<configs, definitions, configEvents, configCache, defEvents, defCache,
                       notes, queue, delayed>>
    BY DEF RenderAndSave, informers
  <1>2. w \in Worker /\ k \in Configs /\ w.status \in Status
        /\ e \in Definitions /\ found \in Definition
    BY <1>1 DEF TypeInv, Idle, Worker, Object
  <1>3. OutputOf(k, e) \in Outputs
    BY <1>2 DEF Outputs, OutputOf
  <1>4. \/ /\ found.exists
           /\ outputs' = [outputs EXCEPT ![OutputOf(k, e)] = rendering]
           /\ w' = [w EXCEPT !.pc = "patch",
                             !.status = [@ EXCEPT !.observedSchemaUID = found.uid,
                                                  !.updated = TRUE, !.outputRef = OutputOf(k, e)]]
        \/ /\ ~found.exists
           /\ outputs' = outputs
           /\ w' = [w EXCEPT !.pc = "patch",
                             !.status = [@ EXCEPT !.observedSchemaUID = NoUID,
                                                  !.updated = FALSE]]
    BY DEF RenderAndSave
  <1> HIDE DEF k, e, found
  <1>5. /\ w' \in Worker /\ w'.pc = "patch" /\ w'.config = k
        /\ w'.before = w.before
        /\ w'.status.updated = found.exists
        /\ w'.status.observedSchemaUID = IF found.exists THEN found.uid ELSE NoUID
        /\ found.exists => w'.status.outputRef = OutputOf(k, e)
    <2>1. PICK status \in Status :
            /\ w' = [w EXCEPT !.pc = "patch", !.status = status]
            /\ status.updated = found.exists
            /\ status.observedSchemaUID = IF found.exists THEN found.uid ELSE NoUID
            /\ found.exists => status.outputRef = OutputOf(k, e)
      <3>1. CASE found.exists
        <4> DEFINE status == [w.status EXCEPT !.observedSchemaUID = found.uid,
                                              !.updated = TRUE, !.outputRef = OutputOf(k, e)]
        <4>1. status \in Status /\ status.updated = TRUE
              /\ status.observedSchemaUID = found.uid /\ status.outputRef = OutputOf(k, e)
          BY <1>2, <1>3 DEF Status, Definition
        <4>2. w' = [w EXCEPT !.pc = "patch", !.status = status]
          BY <1>2, <1>4, <3>1 DEF Worker
        <4>3. found.exists = TRUE
          BY <1>2, <3>1 DEF Definition
        <4> HIDE DEF status
        <4> QED BY <4>1, <4>2, <4>3
      <3>2. CASE ~found.exists
        <4> DEFINE status == [w.status EXCEPT !.observedSchemaUID = NoUID, !.updated = FALSE]
        <4>1. status \in Status /\ status.updated = FALSE /\ status.observedSchemaUID = NoUID
          BY <1>2 DEF Status
        <4>2. w' = [w EXCEPT !.pc = "patch", !.status = status]
          BY <1>2, <1>4, <3>2 DEF Worker
        <4>3. found.exists = FALSE
          BY <1>2, <3>2 DEF Definition
        <4> HIDE DEF status
        <4> QED BY <4>1, <4>2, <4>3
      <3> QED BY <3>1, <3>2
    <2>2. /\ w' \in Worker /\ w'.pc = "patch" /\ w'.config = k
          /\ w'.before = w.before /\ w'.status = status
      BY <1>2, <2>1 DEF Worker, k
    <2> QED BY <2>1, <2>2
  <1>6. /\ DOMAIN outputs' = Outputs
        /\ \A o \in Outputs : o # OutputOf(k, e) => outputs'[o] = outputs[o]
        /\ found.exists => outputs'[OutputOf(k, e)] = rendering
    <2> HIDE DEF rendering
    <2> QED BY <1>3, <1>4 DEF TypeInv
  <1>7. TypeInv'
    BY <1>1, <1>5, <1>6 DEF TypeInv
  <1>8. InformersFollow'
    BY <1>1 DEF InformersFollow
  <1>9. WorkerServes'
    BY <1>1, <1>5 DEF WorkerServes, k
  <1>10. Served'
    <2> SUFFICES ASSUME NEW c \in Configs, Undisturbed(c)'
                 PROVE  /\ c \notin queue.processing =>
                             /\ configs[c].status.observedGeneration = configs[c].generation
                             /\ Rendered(c, configs[c].status)'
                        /\ c \in queue.processing => Rendered(c, w.status)'
      BY <1>1 DEF Served
    <2>1. Undisturbed(c)
      BY <1>1 DEF Undisturbed, Noted
    <2>2. configs[c].definitionRef \in Definitions
      BY DEF TypeInv, Object
    <2>3. CASE c = k
      <3>1. c \in queue.processing
        BY <1>1, <2>3 DEF WorkerServes, k
      <3>2. configCache[c] = configs[c] /\ w.before = configCache[c]
        BY <1>1, <2>1, <2>3 DEF Undisturbed, InformersFollow, Follows, WorkerServes, k
      <3>3. e = configs[c].definitionRef
        BY <3>2 DEF e
      <3>4. found = definitions[e]
        BY <1>2, <2>1, <3>3 DEF Undisturbed, InformersFollow, Follows, found
      <3>5. Rendered(c, w.status)'
        BY <1>1, <1>5, <1>6, <2>3, <3>3, <3>4 DEF Rendered, Exclusive
      <3> QED BY <3>1, <3>5
    <2>4. CASE c # k
      <3>1. c \notin queue.processing
        BY <1>1, <2>4 DEF WorkerServes, k
      <3>2. configs[c].status.observedGeneration = configs[c].generation
            /\ Rendered(c, configs[c].status)
        BY <2>1, <3>1 DEF Served
      <3>3. OutputOf(c, configs[c].definitionRef) \in Outputs
        BY <2>2 DEF Outputs, OutputOf
      <3>4. Exclusive(c) => OutputOf(c, configs[c].definitionRef) # OutputOf(k, e)
        BY <1>2, <2>2, <2>4, OutputsApart
      <3>5. Exclusive(c) => outputs'[OutputOf(c, configs[c].definitionRef)] =
                              outputs[OutputOf(c, configs[c].definitionRef)]
        BY <1>6, <3>3, <3>4
      <3>6. Rendered(c, configs[c].status)'
        BY <1>1, <3>2, <3>5 DEF Rendered, Exclusive
      <3> QED BY <3>1, <3>2, <3>6
    <2> QED BY <2>3, <2>4
  <1> QED BY <1>7, <1>8, <1>9, <1>10

\* A version that is written is stored, and on its way to the informer.
LEMMA WriteStep ==
  ASSUME DispatchInv, NEW k \in Configs, NEW o \in Object, Write(k, o)
  PROVE  /\ configs' = [configs EXCEPT ![k] = o]
         /\ configs' \in [Configs -> Object] /\ configs'[k] = o
         /\ \A c \in Configs \ {k} : configs'[c] = configs[c]
         /\ configEvents' \in Seq([name : Configs, object : Object])
         /\ \A c \in Configs : Follows(c, configCache[c], configEvents', configs'[c])
         /\ \A c \in Configs : ~About(c, configEvents') => ~About(c, configEvents)
         /\ ~About(k, configEvents') => configs'[k] = configs[k]
  <1> DEFINE event == [name |-> k, object |-> o]
  <1> USE DEF DispatchInv
  <1>1. /\ configs' = [configs EXCEPT ![k] = o]
        /\ configEvents' = IF o = configs[k] THEN configEvents ELSE Append(configEvents, event)
    BY DEF Write
  <1>2. configs' \in [Configs -> Object] /\ configs'[k] = o
        /\ \A c \in Configs \ {k} : configs'[c] = configs[c]
    BY <1>1 DEF TypeInv
  <1>3. event \in [name : Configs, object : Object] /\ event.name = k /\ event.object = o
    OBVIOUS
  <1>4. configEvents \in Seq([name : Configs, object : Object])
    BY DEF TypeInv
  <1> HIDE DEF event
  <1>5. CASE o = configs[k]
    <2>1. \A c \in Configs : configs'[c] = configs[c]
      BY <1>2, <1>5
    <2> QED BY <1>1, <1>2, <1>4, <1>5, <2>1 DEF InformersFollow
  <1>6. CASE o # configs[k]
    <2>1. configEvents' = Append(configEvents, event)
      BY <1>1, <1>6
    <2>2. configEvents' \in Seq([name : Configs, object : Object])
      BY <1>3, <1>4, <2>1, AppendProperties
    <2>3. \A c \in Configs : About(c, configEvents') <=> About(c, configEvents) \/ event.name = c
      BY <1>3, <1>4, <2>1, AboutAppend
    <2>4. ASSUME NEW c \in Configs PROVE Follows(c, configCache[c], configEvents', configs'[c])
      <3>1. Follows(c, configCache[c], Append(configEvents, event),
                    IF event.name = c THEN event.object ELSE configs[c])
        BY <1>3, <1>4, FollowsAppend DEF InformersFollow
      <3>2. configs'[c] = IF event.name = c THEN event.object ELSE configs[c]
        BY <1>2, <1>3
      <3> QED BY <2>1, <3>1, <3>2
    <2> QED BY <1>1, <1>2, <1>3, <2>2, <2>3, <2>4
  <1> QED BY <1>5, <1>6

\* The patch of a copy that is not outdated brings the status up to date; one
\* that changes the status will be delivered, and one that could not, retried.
LEMMA PatchStep ==
  ASSUME DispatchInv, Patch
  PROVE  DispatchInv'
  <1> DEFINE k == w.config
             observed == [w.status EXCEPT !.observedGeneration = w.before.generation]
             patched == Patched(k, observed)
             o == [configs[k] EXCEPT !.status = patched]
  <1> USE DEF DispatchInv
  <1>1. /\ w.pc = "patch" /\ w' = Idle /\ queue' = Done(queue, k)
        /\ delayed \subseteq delayed' /\ delayed' \subseteq delayed \cup {k}
        /\ UNCHANGED <<definitions, configCache, defEvents, defCache, notes, outputs>>
    BY DEF Patch
  <1>2. \/ configs[k].generation # 0 /\ Write(k, o)
        \/ /\ configs[k].generation = 0
           /\ configs' = configs /\ configEvents' = configEvents
    BY DEF Patch
  <1>3. /\ w \in Worker /\ k \in Configs /\ w.status \in Status /\ w.before \in Object
    BY <1>1 DEF TypeInv, Idle, Worker
  <1>4. /\ observed \in Status /\ observed.observedGeneration = w.before.generation
        /\ observed.observedSchemaUID = w.status.observedSchemaUID
        /\ observed.updated = w.status.updated /\ observed.outputRef = w.status.outputRef
    BY <1>3 DEF Status, Object
  <1> HIDE DEF observed
  <1>5. /\ patched \in Status
        /\ \A f \in DOMAIN NoStatus :
             patched[f] = IF observed[f] = w.before.status[f] \/ (f = "updated" /\ Lagging(k))
                          THEN configs[k].status[f] ELSE observed[f]
    BY <1>3, <1>4, PatchedType
  <1> HIDE DEF k, patched
  <1>6. o \in Object /\ o.status = patched /\ o.generation = configs[k].generation
        /\ o.definitionRef = configs[k].definitionRef
    BY <1>3, <1>5 DEF TypeInv, Object
  <1> HIDE DEF o
  <1>7. /\ queue' \in Queues /\ queue'.dirty = queue.dirty /\ queue'.processing = {}
    BY <1>1, <1>3, DoneQueue DEF TypeInv
  <1>8. /\ configs' \in [Configs -> Object]
        /\ \A c \in Configs \ {k} : configs'[c] = configs[c]
        /\ configEvents' \in Seq([name : Configs, object : Object])
        /\ \A c \in Configs : Follows(c, configCache[c], configEvents', configs'[c])
        /\ \A c \in Configs : ~About(c, configEvents') => ~About(c, configEvents)
        /\ ~About(k, configEvents') => configs'[k] = configs[k]
        /\ configs'[k].generation # 0 => configs[k].generation # 0 /\ configs'[k] = o
    <2>1. CASE configs[k].generation # 0 /\ Write(k, o)
      BY <1>3, <1>6, <2>1, WriteStep
    <2>2. CASE configs[k].generation = 0 /\ configs' = configs /\ configEvents' = configEvents
      BY <2>2 DEF TypeInv, InformersFollow
    <2> QED BY <1>2, <2>1, <2>2
  <1>9. TypeInv'
    <2>1. delayed' \in SUBSET Configs
      BY <1>1, <1>3 DEF TypeInv
    <2> QED BY <1>1, <1>7, <1>8, <2>1 DEF TypeInv, Idle
  <1>10. InformersFollow'
    BY <1>1, <1>8 DEF InformersFollow
  <1>11. WorkerServes'
    BY <1>1, <1>7 DEF WorkerServes, Idle
  <1>12. Served'
    <2> SUFFICES ASSUME NEW c \in Configs, Undisturbed(c)'
                 PROVE  /\ configs'[c].status.observedGeneration = configs'[c].generation
                        /\ Rendered(c, configs[c].status)'
      BY <1>7 DEF Served
    <2>1. configs'[c] = configs[c]
      BY <1>8 DEF Undisturbed
    <2>2. Undisturbed(c)
      BY <1>1, <1>7, <1>8, <2>1 DEF Undisturbed, Noted
    <2>3. CASE c = k
      <3>1. Rendered(c, w.status)
        BY <1>1, <2>2, <2>3 DEF Served, WorkerServes, k
      <3>2. w.before = configs[c]
        <4>1. configCache[c] = configs[c]
          BY <2>2 DEF Undisturbed, InformersFollow, Follows
        <4> QED BY <1>1, <2>2, <2>3, <4>1 DEF Undisturbed, WorkerServes, k
      <3>3. configs[c].status = patched
        BY <1>6, <1>8, <2>1, <2>2, <2>3 DEF Undisturbed
      <3>4. ~Lagging(k)
        BY <2>2, <2>3 DEF Undisturbed, Lagging, About
      <3>5. \A f \in DOMAIN NoStatus : patched[f] = observed[f]
        BY <1>5, <2>3, <3>2, <3>3, <3>4
      <3>6. /\ patched.observedGeneration = configs[c].generation
            /\ patched.observedSchemaUID = w.status.observedSchemaUID
            /\ patched.updated = w.status.updated
            /\ patched.outputRef = w.status.outputRef
        BY <1>4, <3>2, <3>5 DEF NoStatus
      <3>7. configs'[c].status = patched
        BY <2>1, <3>3
      <3>8. Rendered(c, configs[c].status)'
        BY <1>1, <2>1, <3>1, <3>6, <3>7 DEF Rendered, Exclusive
      <3> QED BY <2>1, <3>6, <3>7, <3>8
    <2>4. CASE c # k
      <3>1. c \notin queue.processing
        BY <1>1, <2>4 DEF WorkerServes, k
      <3>2. configs[c].status.observedGeneration = configs[c].generation
            /\ Rendered(c, configs[c].status)
        BY <2>2, <3>1 DEF Served
      <3> QED BY <1>1, <2>1, <3>2 DEF Rendered, Exclusive
    <2> QED BY <2>3, <2>4
  <1> QED BY <1>9, <1>10, <1>11, <1>12

-----------------------------------------------------------------------------
(* The users.                                                              *)

\* A change of an AddonConfig leaves an event to deliver about it.
LEMMA ChangeConfigStep ==
  ASSUME DispatchInv, ChangeConfig
  PROVE  DispatchInv'
  <1> USE DEF DispatchInv
  <1>1. UNCHANGED <<definitions, configCache, defEvents, defCache, notes, queue, delayed, w, outputs>>
    BY DEF ChangeConfig
  <1>2. PICK k \in Configs, o \in Object : Write(k, o)
    <2>1. PICK k \in Configs :
            \/ \E d \in Definitions : Write(k, NewConfig(d))
            \/ \E d \in Definitions :
                 Write(k, [configs[k] EXCEPT !.definitionRef = d, !.generation = @ + 1])
            \/ Write(k, Removed(configs[k]))
      BY DEF ChangeConfig
    <2>2. configs[k] \in Object
      BY DEF TypeInv
    <2>3. \A d \in Definitions :
            [configs[k] EXCEPT !.definitionRef = d, !.generation = @ + 1] \in Object
      <3>1. configs[k].generation + 1 \in Nat
        BY <2>2 DEF Object
      <3> QED BY <2>2, <3>1 DEF Object
    <2>4. Removed(configs[k]) \in Object
      <3>1. NoStatus \in Status
        BY DEF NoStatus, Status
      <3> QED BY <2>2, <3>1 DEF Removed, Object
    <2> QED BY <2>1, <2>3, <2>4, NewConfigType
  <1>3. /\ configs' \in [Configs -> Object]
        /\ \A c \in Configs \ {k} : configs'[c] = configs[c]
        /\ configEvents' \in Seq([name : Configs, object : Object])
        /\ \A c \in Configs : Follows(c, configCache[c], configEvents', configs'[c])
        /\ \A c \in Configs : ~About(c, configEvents') => ~About(c, configEvents)
        /\ ~About(k, configEvents') => configs'[k] = configs[k]
    BY <1>2, WriteStep
  <1>4. TypeInv'
    BY <1>1, <1>3 DEF TypeInv, Idle
  <1>5. InformersFollow'
    BY <1>1, <1>3 DEF InformersFollow
  <1>6. WorkerServes'
    BY <1>1 DEF WorkerServes
  <1>7. Served'
    <2> SUFFICES ASSUME NEW c \in Configs, Undisturbed(c)'
                 PROVE  /\ c \notin queue.processing =>
                             /\ configs'[c].status.observedGeneration = configs'[c].generation
                             /\ Rendered(c, configs[c].status)'
                        /\ c \in queue.processing /\ w.pc = "patch" => Rendered(c, w.status)'
      BY <1>1 DEF Served
    <2>1. configs'[c] = configs[c]
      BY <1>3 DEF Undisturbed
    <2>2. Undisturbed(c)
      BY <1>1, <1>3, <2>1 DEF Undisturbed, Noted
    <2> QED BY <1>1, <2>1, <2>2 DEF Served, Rendered, Exclusive
  <1> QED BY <1>4, <1>5, <1>6, <1>7

\* So does a change of a definition, for everyone who refers to it.
LEMMA ChangeDefinitionStep ==
  ASSUME DispatchInv, ChangeDefinition
  PROVE  DispatchInv'
  <1> USE DEF DispatchInv
  <1>1. UNCHANGED <<configs, configEvents, configCache, defCache, notes, queue, delayed, w, outputs>>
    BY DEF ChangeDefinition
  <1>2. PICK d \in Definitions, new \in Definition :
          /\ definitions' = [definitions EXCEPT ![d] = new]
          /\ defEvents' = Append(defEvents, [name |-> d, object |-> new])
    <2>1. PICK d \in Definitions :
            \E new \in {[definitions[d] EXCEPT !.revision = @ + 1],
                        [definitions[d] EXCEPT !.exists = FALSE],
                        [exists |-> TRUE, uid |-> definitions[d].uid + 1, revision |-> 1]} :
              /\ definitions' = [definitions EXCEPT ![d] = new]
              /\ defEvents' = Append(defEvents, [name |-> d, object |-> new])
      BY DEF ChangeDefinition
    <2>2. definitions[d] \in Definition
      BY DEF TypeInv
    <2>3. /\ [definitions[d] EXCEPT !.revision = @ + 1] \in Definition
          /\ [definitions[d] EXCEPT !.exists = FALSE] \in Definition
          /\ [exists |-> TRUE, uid |-> definitions[d].uid + 1, revision |-> 1] \in Definition
      <3>1. definitions[d].revision + 1 \in Nat /\ definitions[d].uid + 1 \in Nat
        BY <2>2 DEF Definition
      <3> QED BY <2>2, <3>1 DEF Definition
    <2> QED BY <2>1, <2>3
  <1> DEFINE event == [name |-> d, object |-> new]
  <1>3. event \in [name : Definitions, object : Definition] /\ event.name = d /\ event.object = new
    OBVIOUS
  <1>4. defEvents' = Append(defEvents, event)
    BY <1>2
  <1> HIDE DEF event
  <1>5. \A n : About(n, defEvents') <=> About(n, defEvents) \/ event.name = n
    BY <1>3, <1>4, AboutAppend DEF TypeInv
  <1>6. TypeInv'
    <2>1. defEvents' \in Seq([name : Definitions, object : Definition])
      BY <1>3, <1>4, AppendProperties DEF TypeInv
    <2>2. definitions' \in [Definitions -> Definition]
      BY <1>2 DEF TypeInv
    <2> QED BY <1>1, <2>1, <2>2 DEF TypeInv, Idle
  <1>7. InformersFollow'
    <2>1. ASSUME NEW n \in Definitions PROVE Follows(n, defCache[n], defEvents', definitions'[n])
      <3>1. Follows(n, defCache[n], Append(defEvents, event),
                    IF event.name = n THEN event.object ELSE definitions[n])
        BY <1>3, FollowsAppend DEF InformersFollow, TypeInv
      <3>2. definitions'[n] = IF event.name = n THEN event.object ELSE definitions[n]
        BY <1>2, <1>3 DEF TypeInv
      <3> QED BY <1>4, <3>1, <3>2
    <2> QED BY <1>1, <2>1 DEF InformersFollow
  <1>8. WorkerServes'
    BY <1>1 DEF WorkerServes
  <1>9. Served'
    <2> SUFFICES ASSUME NEW c \in Configs, Undisturbed(c)'
                 PROVE  /\ c \notin queue.processing =>
                             /\ configs[c].status.observedGeneration = configs[c].generation
                             /\ Rendered(c, configs[c].status)'
                        /\ c \in queue.processing /\ w.pc = "patch" => Rendered(c, w.status)'
      BY <1>1 DEF Served
    <2>1. configs[c].definitionRef # d
      BY <1>1, <1>3, <1>5 DEF Undisturbed
    <2>2. Undisturbed(c)
      BY <1>1, <1>5 DEF Undisturbed, Noted
    <2>3. definitions'[configs[c].definitionRef] = definitions[configs[c].definitionRef]
      BY <1>2, <2>1 DEF TypeInv, Object
    <2> QED BY <1>1, <2>2, <2>3 DEF Served, Rendered, Exclusive
  <1> QED BY <1>6, <1>7, <1>8, <1>9

-----------------------------------------------------------------------------

\* At the start everything is in the queue.
LEMMA DispatchInit ==
  ASSUME Init
  PROVE  DispatchInv
  <1>1. PICK refs \in [Configs -> Definitions] : configs = [c \in Configs |-> NewConfig(refs[c])]
    BY DEF Init
  <1>2. PICK order \in SetToSeqs(Configs) :
          queue = [waiting |-> order, dirty |-> Configs, processing |-> {}]
    BY DEF Init
  <1>3. Cardinality(Configs) \in Nat
    BY DispatchAssumption, FS_CardinalityType DEF DispatchAssumption
  <1>4. order \in Seq(Configs)
    BY <1>3 DEF SetToSeqs
  <1>5. TypeInv
    <2>1. configs \in [Configs -> Object]
      BY <1>1, NewConfigType
    <2>2. definitions \in [Definitions -> Definition]
      BY DEF Init, Definition
    <2>3. queue \in Queues
      BY <1>2, <1>4 DEF Queues
    <2> QED BY <2>1, <2>2, <2>3, EmptySeq DEF Init, TypeInv
  <1>6. InformersFollow
    BY FollowsEmpty DEF Init, InformersFollow
  <1>7. WorkerServes
    BY <1>2 DEF Init, WorkerServes, Idle
  <1>8. Served
    BY <1>2 DEF Served, Undisturbed
  <1> QED BY <1>5, <1>6, <1>7, <1>8 DEF DispatchInv

\* Every step preserves the invariant.
LEMMA DispatchStep ==
  ASSUME DispatchInv, [Next]_vars
  PROVE  DispatchInv'
  <1>1. CASE UNCHANGED vars
    BY <1>1 DEF vars, informers, DispatchInv, TypeInv, InformersFollow, WorkerServes, Served,
                Undisturbed, Noted, Rendered, Exclusive, Idle
  <1>2. CASE Next
    BY <1>2, DeliverConfigStep, DeliverDefinitionStep, HandlerStep, TimerStep, StartStep,
       RenderAndSaveStep, PatchStep, ChangeConfigStep, ChangeDefinitionStep DEF Next, Reconcile
  <1> QED BY <1>1, <1>2

\* An AddonConfig of which nothing is under way is undisturbed, and served.
LEMMA DispatchInvImplies ==
  ASSUME DispatchInv
  PROVE  QuietMeansCurrent
  <1> SUFFICES ASSUME NEW c \in Configs, Quiet(c), configs[c].generation # 0
               PROVE  /\ configs[c].status.observedGeneration = configs[c].generation
                      /\ Rendered(c, configs[c].status)
    BY DEF QuietMeansCurrent, Current, Rendered
  <1>1. notes \in Seq(Definitions)
    BY DEF DispatchInv, TypeInv
  <1>2. ~Noted(configs[c].definitionRef)
    BY <1>1, LenProperties DEF Quiet, Noted, Contains
  <1>3. Undisturbed(c) /\ c \notin queue.processing
    BY <1>2 DEF Quiet, Undisturbed, Lagging, About
  <1> QED BY <1>3 DEF DispatchInv, Served

\* Nothing falls between the two watches: an AddonConfig of which nothing is
\* under way has observed the definition that it refers to now, and its output
\* is the rendering of that definition (SetupWithManager, the handler
\* addonConfigDefinitionToAddonConfig, the workqueue, Reconcile).
THEOREM QuietCurrent == Spec => []QuietMeansCurrent
  <1>1. Init => DispatchInv
    BY DispatchInit
  <1>2. DispatchInv /\ [Next]_vars => DispatchInv'
    BY DispatchStep
  <1>3. DispatchInv => QuietMeansCurrent
    BY DispatchInvImplies
  <1> QED BY <1>1, <1>2, <1>3, PTL DEF Spec
=============================================================================
