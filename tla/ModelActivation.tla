--------------------------- MODULE ModelActivation ---------------------------
(***************************************************************************)
(* Switching the model of a serving process (routes.activate_model,         *)
(* VllmBackend.activate_model) next to the creation and the runs of          *)
(* sessions.  The route checks that no session is active and then awaits the *)
(* engine several times; a phase of an activation is the await it is in.     *)
(* The engine is external: every adapter is registered under the id 1, to    *)
(* add an id that is registered already changes nothing, to pin one that is  *)
(* not registered fails, a pin that fails for another reason leaves it       *)
(* registered, and a generation registers its adapter if need be.            *)
(***************************************************************************)
EXTENDS Naturals, Sequences, FiniteSets

CONSTANTS
  Catalog,       \* the registry: a sequence of [id, base, adapter, onDisk]
  LoadedBase,    \* settings.base_model_path
  Default,       \* settings.default_model_id, started with its adapter
  Callers,       \* activation requests
  Sessions,
  None,
  MaxFaults      \* bound: engine calls that fail

VARIABLES
  slot,          \* engine: the adapter registered under id 1, or None
  stray,         \* history: the adapter a failed pin left in the engine, or None
  lora_request, metadata,   \* VllmBackend._lora_request, _metadata
  act,           \* activation in flight of each caller
  stage, rowModel,   \* a session, the model in its row
  disturbed,     \* history: an activation met another one or a generation
  builtDuring,   \* history: the activations in flight when a session's row was built
  faults

activationVars == <<slot, stray, lora_request, metadata, act, stage, rowModel,
                    disturbed, builtDuring, faults>>
engineVars  == <<slot, stray, lora_request, metadata>>
sessionVars == <<stage, rowModel, builtDuring>>

\* ModelCatalog.get and list_models: identify names the first entry whose base
\* and adapter are those of the metadata.
SpecOf(id) == Catalog[CHOOSE i \in DOMAIN Catalog : Catalog[i].id = id]
Known == {Catalog[i].id : i \in DOMAIN Catalog}
Available(id) == SpecOf(id).onDisk
SameFiles(i, meta) == Catalog[i].base = meta.base /\ Catalog[i].adapter = meta.adapter
Identify(meta) ==
  IF \E i \in DOMAIN Catalog : SameFiles(i, meta)
  THEN Catalog[CHOOSE i \in DOMAIN Catalog : SameFiles(i, meta) /\ \A k \in 1..(i - 1) : ~SameFiles(k, meta)].id
  ELSE meta.id

\* The registry is a list and the service starts on one of its models. No two entries
\* are the same files: so it is in configs/service/models.yaml, although load refuses
\* nothing but duplicate ids.
RegistryAssumption ==
  /\ Len(Catalog) \in Nat /\ DOMAIN Catalog = 1..Len(Catalog)
  /\ \A i, k \in DOMAIN Catalog :
       Catalog[i].base = Catalog[k].base /\ Catalog[i].adapter = Catalog[k].adapter => i = k
  /\ Default \in Known
  /\ IsFiniteSet(Sessions)

MetadataOf(id) == [id |-> id, base |-> SpecOf(id).base, adapter |-> SpecOf(id).adapter]

NoActivation == [phase |-> "idle", model |-> None, oldRequest |-> None, oldMetadata |-> None]

Init ==
  /\ slot = SpecOf(Default).adapter /\ stray = None
  /\ lora_request = SpecOf(Default).adapter
  /\ metadata = MetadataOf(Default)
  /\ act = [c \in Callers |-> NoActivation]
  /\ stage = [s \in Sessions |-> "absent"]
  /\ rowModel = [s \in Sessions |-> None] /\ builtDuring = [s \in Sessions |-> {}]
  /\ disturbed = FALSE /\ faults = 0

InFlight == {c \in Callers : act[c].phase \notin {"idle", "done", "failed"}}
Fault == faults < MaxFaults /\ faults' = faults + 1

\* orchestrator.active_count: registered sessions that are not terminal.
Active(s) == stage[s] \in {"created", "running"}
active_count == Cardinality({s \in Sessions : Active(s)})

\* The assignments after the last await of the try block.
Activated(c, model) ==
  /\ lora_request' = SpecOf(model).adapter
  /\ metadata' = MetadataOf(model)
  /\ act' = [act EXCEPT ![c].phase = "done"]

\* The try block up to its first await: nothing to add for the base model.
EnterTry(c, a) ==
  IF SpecOf(a.model).adapter = None
  THEN /\ lora_request' = None
       /\ metadata' = MetadataOf(a.model)
       /\ act' = [act EXCEPT ![c] = [a EXCEPT !.phase = "done"]]
  ELSE /\ act' = [act EXCEPT ![c] = [a EXCEPT !.phase = "adding"]]
       /\ UNCHANGED <<lora_request, metadata>>

\* The guards of the route and of the backend, with no await between them and
\* the first call of the engine; a refused request changes nothing.
MaySwitchAnyTime == active_count >= 0
MaySwitch == active_count = 0

Activate(c, model) ==
  LET a == [phase |-> "removing", model |-> model, oldRequest |-> lora_request, oldMetadata |-> metadata]
  IN /\ act[c].phase = "idle"
     /\ MaySwitch
     /\ model \in Known /\ Available(model)
     /\ SpecOf(model).base = LoadedBase
     /\ IF lora_request = None
        THEN EnterTry(c, a)
        ELSE act' = [act EXCEPT ![c] = a] /\ UNCHANGED <<lora_request, metadata>>
     /\ disturbed' = (disturbed \/ InFlight # {})
     /\ UNCHANGED <<slot, stray, sessionVars, faults>>

\* await remove_lora, which is outside the try block.
RemovedSlotKept == slot
RemovedSlot == None

Removed(c) ==
  /\ act[c].phase = "removing"
  /\ slot' = RemovedSlot /\ stray' = None
  /\ EnterTry(c, act[c])
  /\ UNCHANGED <<sessionVars, disturbed, faults>>

RemoveFails(c) ==
  /\ act[c].phase = "removing" /\ Fault
  /\ act' = [act EXCEPT ![c].phase = "failed"]
  /\ UNCHANGED <<engineVars, sessionVars, disturbed>>

\* await add_lora(next_request)
Register(adapter) == IF slot = None THEN adapter ELSE slot

Added(c) ==
  /\ act[c].phase = "adding"
  /\ slot' = Register(SpecOf(act[c].model).adapter)
  /\ act' = [act EXCEPT ![c].phase = "pinning"]
  /\ UNCHANGED <<stray, lora_request, metadata, sessionVars, disturbed, faults>>

\* await pin_lora(1), then the assignments.
Pinned(c) ==
  /\ act[c].phase = "pinning" /\ slot # None
  /\ Activated(c, act[c].model)
  /\ UNCHANGED <<slot, stray, sessionVars, disturbed, faults>>

\* Pinning fails because no adapter is there, or with the adapter in place.
PinFails == IF slot = None THEN UNCHANGED faults ELSE Fault

\* The except block: put the old request back, or raise at once.
TryFails(c) ==
  /\ \/ act[c].phase = "adding" /\ Fault /\ UNCHANGED stray
     \/ act[c].phase = "pinning" /\ PinFails /\ stray' = slot
  /\ IF act[c].oldRequest # None
     THEN act' = [act EXCEPT ![c].phase = "restoring"] /\ UNCHANGED <<lora_request, metadata>>
     ELSE /\ act' = [act EXCEPT ![c].phase = "failed"]
          /\ lora_request' = act[c].oldRequest /\ metadata' = act[c].oldMetadata
  /\ UNCHANGED <<slot, sessionVars, disturbed>>

Restored(c) ==
  \/ /\ act[c].phase = "restoring"
     /\ slot' = Register(act[c].oldRequest)
     /\ act' = [act EXCEPT ![c].phase = "repinning"]
     /\ UNCHANGED <<stray, lora_request, metadata, sessionVars, disturbed, faults>>
  \/ /\ act[c].phase = "repinning" /\ slot # None
     /\ lora_request' = act[c].oldRequest /\ metadata' = act[c].oldMetadata
     /\ act' = [act EXCEPT ![c].phase = "failed"]
     /\ UNCHANGED <<slot, stray, sessionVars, disturbed, faults>>

RestoreFails(c) ==
  /\ \/ act[c].phase = "restoring" /\ Fault
     \/ act[c].phase = "repinning" /\ PinFails
  /\ act' = [act EXCEPT ![c].phase = "failed"]
  /\ UNCHANGED <<engineVars, sessionVars, disturbed>>

\* create_session and create_query_session: an await, then the row and the
\* registration without another one.
CreateStarts(s) ==
  /\ stage[s] = "absent"
  /\ stage' = [stage EXCEPT ![s] = "creating"]
  /\ UNCHANGED <<engineVars, act, rowModel, builtDuring, disturbed, faults>>

RowBuilt(s) ==
  /\ stage[s] = "creating"
  /\ stage' = [stage EXCEPT ![s] = "created"]
  /\ rowModel' = [rowModel EXCEPT ![s] = metadata]
  /\ builtDuring' = [builtDuring EXCEPT ![s] = InFlight]
  /\ UNCHANGED <<engineVars, act, disturbed, faults>>

\* VllmBackend.generate reads _lora_request when it is called.
Generate(s) ==
  /\ Active(s)
  /\ stage' = [stage EXCEPT ![s] = "running"]
  /\ slot' = IF lora_request = None THEN slot ELSE Register(lora_request)
  /\ disturbed' = (disturbed \/ InFlight # {})
  /\ UNCHANGED <<stray, lora_request, metadata, act, rowModel, builtDuring, faults>>

SessionEnds(s) ==
  /\ stage[s] = "running"
  /\ stage' = [stage EXCEPT ![s] = "ended"]
  /\ UNCHANGED <<engineVars, act, rowModel, builtDuring, disturbed, faults>>

ActivationStep(c) ==
  \/ \E m \in Known : Activate(c, m)
  \/ Removed(c) \/ RemoveFails(c) \/ Added(c) \/ Pinned(c)
  \/ TryFails(c) \/ Restored(c) \/ RestoreFails(c)

SessionStep(s) == CreateStarts(s) \/ RowBuilt(s) \/ Generate(s) \/ SessionEnds(s)

Next ==
  \/ \E c \in Callers : ActivationStep(c)
  \/ \E s \in Sessions : SessionStep(s)

Spec == Init /\ [][Next]_activationVars

(***************************************************************************)
(* Properties.  Nothing in the code keeps an activation that waits for the   *)
(* engine from another one or from a generation: two requests may both find  *)
(* no active session, and a session may be created and run after the check   *)
(* of the route.  Such histories are `disturbed`.                             *)
(***************************************************************************)

\* Whatever activations, engine failures and generations meet, the metadata and the
\* request that generations pass to the engine name one model, which the registry
\* shows as the active one.  And unless an activation met another one or a generation,
\* the engine then holds that model's adapter under id 1, or none; the exception is an
\* adapter whose pin failed: it stays registered, the add_lora of the rollback changes
\* nothing, and only the next remove_lora takes it away (backend.py activate_model).
ActivationConsistent ==
  /\ metadata.adapter = lora_request
  /\ Identify(metadata) = metadata.id
  /\ (InFlight = {} /\ ~disturbed) => slot \in {None, lora_request, stray}

\* The adapter that a generation of this moment is answered with.
Answering == IF lora_request = None THEN None ELSE Register(lora_request)

\* What the activations that were waiting when a session's row was built, and wait
\* still, may leave in place.
InPlay(s) ==
  UNION {({lora_request, slot} \ {None}) \cup {act[c].oldRequest, SpecOf(act[c].model).adapter} :
           c \in builtDuring[s] \cap InFlight}

\* The model that answers an active session changes only by an activation that was
\* waiting for the engine already when the session's row was built, and to one of the
\* models it switches between, whatever meets whatever: none that begins later may
\* touch it.  A session whose row was built outside every activation is so answered
\* by one model for its whole life, and that is the model its row names, unless
\* earlier activations met one another or a failed pin left its adapter behind
\* (routes.py activate_model, orchestrator.py create_session).
AnswersAsBuilt(s) ==
  /\ Active(s) => Answering' \in {Answering} \cup InPlay(s)
  /\ (stage[s] = "creating" /\ Active(s)' /\ InFlight = {} /\ ~disturbed /\ stray = None) =>
       rowModel'[s].adapter = Answering'

SessionKeepsItsModel == [][\A s \in Sessions : AnswersAsBuilt(s)]_activationVars
=============================================================================
