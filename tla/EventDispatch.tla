---------------------------- MODULE EventDispatch ----------------------------
(***************************************************************************)
(* Many AddonConfigs and definitions, one controller: how the events of    *)
(* the two kinds become requests, and how one worker serves them all.      *)
(*                                                                         *)
(* The AddonConfigs and definitions are in order, so a reconciliation      *)
(* either renders the definition or finds none; what else its phases may   *)
(* find, and the steps of its patches, are in AddonConfigController.  A    *)
(* definition names its output after the cluster of the AddonConfig and    *)
(* after itself, as the samples do.                                        *)
(***************************************************************************)
EXTENDS Naturals, SequencesExt

CONSTANTS
  Configs,      \* the names of AddonConfigs
  Definitions,  \* the names of definitions
  Installed,    \* the definitions that are there at the start
  ClusterOf,    \* the target cluster of each AddonConfig
  NoUID,        \* the nil of status.observedSchemaUID
  NoOutput,     \* no output resource
  MaxChanges    \* bound: what users do

ASSUME DispatchAssumption ==
  /\ IsFiniteSet(Configs) /\ IsFiniteSet(Definitions)
  /\ Installed \subseteq Definitions
  /\ DOMAIN ClusterOf = Configs
  /\ NoUID \notin Nat
  /\ NoOutput \notin {ClusterOf[c] : c \in Configs} \X Definitions
  /\ MaxChanges \in Nat

VARIABLES
  configs,       \* the AddonConfigs in the API server
  definitions,   \* the definitions in the API server
  configEvents,  \* the versions the informer of AddonConfigs has not seen yet
  configCache,   \* its cache
  defEvents,     \* as configEvents, for definitions
  defCache,      \* as configCache, for definitions
  notes,         \* definitions in the cache of which no handler was told yet
  queue,         \* the workqueue
  delayed,       \* requests that are to be added again later
  w,             \* the worker
  outputs,       \* the content of the output resources
  changes

informers == <<configEvents, configCache, defEvents, defCache, notes>>
vars == <<configs, definitions, informers, queue, delayed, w, outputs, changes>>

Outputs == {ClusterOf[c] : c \in Configs} \X Definitions
OutputOf(c, d) == <<ClusterOf[c], d>>

NoStatus == [observedGeneration |-> 0, observedSchemaUID |-> NoUID,
             updated |-> FALSE, outputRef |-> NoOutput]

\* An AddonConfig is absent at generation 0.
NewConfig(d) == [generation |-> 1, definitionRef |-> d, status |-> NoStatus]
Removed(o) == [o EXCEPT !.generation = 0, !.status = NoStatus]

Idle == [pc |-> "idle"]

-----------------------------------------------------------------------------
(* The workqueue: what is to be done is handed out once, in the order it   *)
(* was added; what is added while it is being done waits until then.       *)

Add(q, c) ==
  [q EXCEPT !.dirty = @ \cup {c},
            !.waiting = IF c \in q.dirty \cup q.processing THEN @ ELSE Append(@, c)]

\* Several requests, in the order given for those that are not there yet.
Fresh(q, requests) == requests \ (q.dirty \cup q.processing)

AddAll(q, requests, order) ==
  [q EXCEPT !.dirty = @ \cup requests, !.waiting = @ \o order]

Take(q) ==
  LET c == Head(q.waiting)
  IN  [waiting |-> Tail(q.waiting), dirty |-> q.dirty \ {c}, processing |-> {c}]

Done(q, c) ==
  [q EXCEPT !.processing = {}, !.waiting = IF c \in q.dirty THEN Append(@, c) ELSE @]

\* The controller has just started: the objects are listed and enqueued.
Init ==
  /\ \E refs \in [Configs -> Definitions] : configs = [c \in Configs |-> NewConfig(refs[c])]
  /\ definitions = [d \in Definitions |-> [exists |-> d \in Installed, uid |-> 1, revision |-> 1]]
  /\ configCache = configs /\ defCache = definitions
  /\ configEvents = <<>> /\ defEvents = <<>> /\ notes = <<>>
  /\ \E order \in SetToSeqs(Configs) :
       queue = [waiting |-> order, dirty |-> Configs, processing |-> {}]
  /\ delayed = {}
  /\ w = Idle
  /\ outputs = [o \in Outputs |-> NoOutput]
  /\ changes = 0

-----------------------------------------------------------------------------
(* The watches.                                                            *)

DeliverConfig ==
  /\ configEvents # <<>>
  /\ LET event == Head(configEvents)
     IN  /\ configCache' = [configCache EXCEPT ![event.name] = event.object]
         /\ queue' = Add(queue, event.name)
  /\ configEvents' = Tail(configEvents)
  /\ UNCHANGED <<configs, definitions, defEvents, defCache, notes, delayed, w, outputs, changes>>

\* The cache takes a version in, and the handler is told later.
DeliverDefinition ==
  /\ defEvents # <<>>
  /\ LET event == Head(defEvents)
     IN  /\ defCache' = [defCache EXCEPT ![event.name] = event.object]
         /\ notes' = Append(notes, event.name)
  /\ defEvents' = Tail(defEvents)
  /\ UNCHANGED <<configs, definitions, configEvents, configCache, queue, delayed, w,
                 outputs, changes>>

\* The AddonConfigs in the cache that refer to the definition.
GetAddonConfigsByType(d) ==
  {c \in Configs : configCache[c].generation # 0 /\ configCache[c].definitionRef = d}

\* Faulty variant: one AddonConfig of the definition is enough.
addonConfigDefinitionToAddonConfigFirst ==
  /\ notes # <<>>
  /\ LET found == GetAddonConfigsByType(Head(notes))
     IN  queue' = IF found = {} THEN queue ELSE Add(queue, CHOOSE c \in found : TRUE)
  /\ notes' = Tail(notes)
  /\ UNCHANGED <<configs, definitions, configEvents, configCache, defEvents, defCache,
                 delayed, w, outputs, changes>>

addonConfigDefinitionToAddonConfig ==
  /\ notes # <<>>
  /\ LET requests == GetAddonConfigsByType(Head(notes))
     IN  \E order \in SetToSeqs(Fresh(queue, requests)) :
           queue' = AddAll(queue, requests, order)
  /\ notes' = Tail(notes)
  /\ UNCHANGED <<configs, definitions, configEvents, configCache, defEvents, defCache,
                 delayed, w, outputs, changes>>

Timer(c) ==
  /\ c \in delayed
  /\ delayed' = delayed \ {c}
  /\ queue' = Add(queue, c)
  /\ UNCHANGED <<configs, definitions, informers, w, outputs, changes>>

-----------------------------------------------------------------------------
(* The worker.                                                             *)

Reading(c) == [pc |-> "phases", config |-> c, before |-> configCache[c],
               status |-> configCache[c].status]

\* A request for an AddonConfig that is gone is done at once.
Start ==
  /\ w.pc = "idle" /\ queue.waiting # <<>>
  /\ LET c == Head(queue.waiting)
     IN  IF configCache[c].generation = 0
         THEN queue' = Done(Take(queue), c) /\ UNCHANGED w
         ELSE queue' = Take(queue) /\ w' = Reading(c)
  /\ UNCHANGED <<configs, definitions, informers, delayed, outputs, changes>>

\* Faulty variant: the worker waits for the definition to appear.
RenderAndSaveWaiting ==
  /\ w.pc = "phases"
  /\ LET d == w.before.definitionRef  def == defCache[d]  o == OutputOf(w.config, d)
     IN  /\ def.exists
         /\ outputs' = [outputs EXCEPT ![o] =
                          [config |-> w.config, uid |-> def.uid, revision |-> def.revision]]
         /\ w' = [w EXCEPT !.pc = "patch",
                           !.status = [@ EXCEPT !.observedSchemaUID = def.uid,
                                                !.updated = TRUE, !.outputRef = o]]
  /\ UNCHANGED <<configs, definitions, informers, queue, delayed, changes>>

\* The definition is rendered and saved, or there is none: nothing is
\* saved then, and outputRef stays.
RenderAndSave ==
  /\ w.pc = "phases"
  /\ LET d == w.before.definitionRef  def == defCache[d]  o == OutputOf(w.config, d)
     IN  \/ /\ def.exists
            /\ outputs' = [outputs EXCEPT ![o] =
                             [config |-> w.config, uid |-> def.uid, revision |-> def.revision]]
            /\ w' = [w EXCEPT !.pc = "patch",
                              !.status = [@ EXCEPT !.observedSchemaUID = def.uid,
                                                   !.updated = TRUE, !.outputRef = o]]
         \/ /\ ~def.exists
            /\ UNCHANGED outputs
            /\ w' = [w EXCEPT !.pc = "patch",
                              !.status = [@ EXCEPT !.observedSchemaUID = NoUID,
                                                   !.updated = FALSE]]
  /\ UNCHANGED <<configs, definitions, informers, queue, delayed, changes>>

Write(c, o) ==
  /\ configs' = [configs EXCEPT ![c] = o]
  /\ configEvents' = IF o = configs[c] THEN configEvents
                     ELSE Append(configEvents, [name |-> c, object |-> o])

\* The informer has versions of the AddonConfig to deliver.
Lagging(c) == \E i \in DOMAIN configEvents : configEvents[i].name = c

\* The fields that differ from the copy that was read; the conditions, of
\* which `updated' is one, only if that is the stored version.
Patched(c, observed) ==
  [f \in DOMAIN NoStatus |->
     IF observed[f] = w.before.status[f] \/ (f = "updated" /\ Lagging(c))
     THEN configs[c].status[f] ELSE observed[f]]

\* The patches, in one step.  A conflict, an AddonConfig that is gone and a
\* definition that was not found bring the request back later.
Patch ==
  /\ w.pc = "patch"
  /\ LET c == w.config
         observed == [w.status EXCEPT !.observedGeneration = w.before.generation]
         conflict == Lagging(c) /\ observed.updated # w.before.status.updated
         gone == configs[c].generation = 0 /\ observed # w.before.status
     IN  /\ \/ /\ configs[c].generation # 0
               /\ Write(c, [configs[c] EXCEPT !.status = Patched(c, observed)])
            \/ configs[c].generation = 0 /\ UNCHANGED <<configs, configEvents>>
         /\ delayed' = IF conflict \/ gone \/ observed.observedSchemaUID = NoUID
                       THEN delayed \cup {c} ELSE delayed
         /\ queue' = Done(queue, c)
         /\ w' = Idle
  /\ UNCHANGED <<definitions, configCache, defEvents, defCache, notes, outputs, changes>>

Reconcile == Start \/ RenderAndSave \/ Patch

-----------------------------------------------------------------------------
(* The users.                                                              *)

Change == changes < MaxChanges /\ changes' = changes + 1

\* An AddonConfig is created, or refers to another definition, or is deleted.
ChangeConfig ==
  /\ Change
  /\ \E c \in Configs :
       LET o == configs[c]
       IN  \/ o.generation = 0 /\ \E d \in Definitions : Write(c, NewConfig(d))
           \/ /\ o.generation # 0
              /\ \E d \in Definitions \ {o.definitionRef} :
                   Write(c, [o EXCEPT !.definitionRef = d, !.generation = @ + 1])
           \/ o.generation # 0 /\ Write(c, Removed(o))
  /\ UNCHANGED <<definitions, configCache, defEvents, defCache, notes, queue, delayed, w, outputs>>

\* A definition is created, edited or deleted.
ChangeDefinition ==
  /\ Change
  /\ \E d \in Definitions :
       LET o == definitions[d]
       IN  \E new \in IF o.exists
                      THEN {[o EXCEPT !.revision = @ + 1], [o EXCEPT !.exists = FALSE]}
                      ELSE {[exists |-> TRUE, uid |-> o.uid + 1, revision |-> 1]} :
             /\ definitions' = [definitions EXCEPT ![d] = new]
             /\ defEvents' = Append(defEvents, [name |-> d, object |-> new])
  /\ UNCHANGED <<configs, configEvents, configCache, defCache, notes, queue, delayed, w, outputs>>

Next ==
  \/ ChangeConfig \/ ChangeDefinition
  \/ DeliverConfig \/ DeliverDefinition \/ addonConfigDefinitionToAddonConfig
  \/ \E c \in Configs : Timer(c)
  \/ Reconcile

Spec == Init /\ [][Next]_vars

\* Neither the worker nor a watch stalls, and no delay is forever.
Fairness ==
  /\ WF_vars(Reconcile) /\ WF_vars(DeliverConfig) /\ WF_vars(DeliverDefinition)
  /\ WF_vars(addonConfigDefinitionToAddonConfig)
  /\ \A c \in Configs : WF_vars(Timer(c))

FairSpec == Spec /\ Fairness

-----------------------------------------------------------------------------
(* Properties.                                                             *)

\* Nothing is under way that concerns the AddonConfig.
Quiet(c) ==
  /\ c \notin queue.dirty \cup queue.processing \cup delayed
  /\ ~Lagging(c)
  /\ \A i \in DOMAIN defEvents : defEvents[i].name # configs[c].definitionRef
  /\ \A i \in DOMAIN notes : notes[i] # configs[c].definitionRef

Exclusive(c) == \A other \in Configs \ {c} : ClusterOf[other] # ClusterOf[c]

\* The status is about the definition that the AddonConfig now refers to, or
\* its absence, and the output is the rendering of its present revision.
Current(c) ==
  LET o == configs[c]  d == definitions[o.definitionRef]
  IN  o.generation # 0 =>
        /\ o.status.observedGeneration = o.generation
        /\ o.status.updated = d.exists
        /\ o.status.observedSchemaUID = IF d.exists THEN d.uid ELSE NoUID
        /\ d.exists =>
             /\ o.status.outputRef = OutputOf(c, o.definitionRef)
             /\ Exclusive(c) => outputs[o.status.outputRef] =
                                  [config |-> c, uid |-> d.uid, revision |-> d.revision]

\* Nothing falls between the two watches: a definition event is mapped to
\* requests through a cache that may not know yet which AddonConfigs refer to
\* it, and requests added twice, or while they are served, are merged; still,
\* every AddonConfig of which nothing is under way has observed the definition
\* that it refers to now, whatever goes on with the others.
QuietMeansCurrent == \A c \in Configs : Quiet(c) => Current(c)

\* One worker serves all: an AddonConfig whose definition is missing is
\* reconciled again and again, and does not keep the others from being served.
EveryoneServed == \A c \in Configs : <>[]Current(c)

-----------------------------------------------------------------------------
(* What a comment says, and the code does not always do.                   *)

\* api/v1alpha1/addonconfig_types.go:96: OutputResourceUpdated "documents
\* whether the rendered tempalte has been persisted into the output resource".
\* Nothing tells whose rendering an output resource holds.
OutputIsOwn ==
  (\A c \in Configs : Quiet(c)) =>
    \A c \in Configs :
      LET status == configs[c].status
      IN  status.updated => outputs[status.outputRef].config = c
=============================================================================
