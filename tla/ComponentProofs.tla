---------------------------- MODULE ComponentProofs ----------------------------
(***************************************************************************)
(* Theorems about components that share no state: switching the served      *)
(* model, the review of replay candidates, the lineage of the databases,    *)
(* the translation of questions, the generation of the corpus and the       *)
(* catalogue beside the drift factory.  For every registry, any number of   *)
(* requests and sessions, engine calls failing at will, and any candidates, *)
(* decisions, deaths, databases and queries.                                *)
(***************************************************************************)
EXTENDS Components, StatePolicyProofs, FiniteSetTheorems

-----------------------------------------------------------------------------
\* The inductive invariant.

Phases == {"idle", "removing", "adding", "pinning", "restoring", "repinning",
           "done", "failed"}

Requests == {Activation!SpecOf(id).adapter : id \in Activation!Known} \cup {None}
Metas == {Activation!MetadataOf(id) : id \in Activation!Known} \cup {None}
Activations ==
  [phase : Phases, model : Activation!Known \cup {None}, oldRequest : Requests, oldMetadata : Metas]
Stages == {"absent", "creating", "created", "running", "ended"}

ActivationTyped ==
  /\ lora_request \in Requests /\ metadata \in Metas
  /\ act \in [Callers -> Activations]
  /\ \A c \in Callers : act[c].phase # "idle" => act[c].model \in Activation!Known
  /\ stage \in [Sessions -> Stages]
  /\ rowModel = [s \in Sessions |-> rowModel[s]]
  /\ builtDuring = [s \in Sessions |-> builtDuring[s]]

\* A request and the metadata of one model of the registry.
Agreed(request, meta) ==
  \E id \in Activation!Known : request = Activation!SpecOf(id).adapter /\ meta = Activation!MetadataOf(id)

\* So do the request and the metadata in place, and those that an activation will put
\* back, whatever meets whatever.
RequestsAgree ==
  /\ Agreed(lora_request, metadata)
  /\ \A c \in Activation!InFlight : Agreed(act[c].oldRequest, act[c].oldMetadata)

\* What the engine holds while an undisturbed activation is at each of its awaits.
Underway(a) ==
  /\ a.oldRequest = lora_request /\ a.oldMetadata = metadata
  /\ a.phase = "removing" => slot \in {None, lora_request, stray}
  /\ a.phase \in {"adding", "restoring"} => slot \in {None, stray}
  /\ a.phase = "pinning" => slot \in {Activation!SpecOf(a.model).adapter, stray}
  /\ a.phase = "repinning" => slot \in {lora_request, stray}

Resting == slot \in {None, lora_request, stray}

OneAtATime ==
  ~disturbed =>
    /\ Activation!InFlight = {} => Resting
    /\ \A c \in Activation!InFlight : Underway(act[c]) /\ \A d \in Activation!InFlight : c = d

\* No activation begins beside an active session.
Foreseen ==
  \A s \in Sessions : Activation!Active(s) => Activation!InFlight \subseteq builtDuring[s]

ActivationInv == ActivationTyped /\ RequestsAgree /\ OneAtATime /\ Foreseen
-----------------------------------------------------------------------------
\* What the steps have in common.

\* One activation takes a step: the others stay where they were.
LEMMA Moved ==
  ASSUME ActivationTyped, NEW c \in Callers, NEW a \in Activations,
         act' = [act EXCEPT ![c] = a], a.phase # "idle" => a.model \in Activation!Known
  PROVE  /\ act' \in [Callers -> Activations] /\ act'[c] = a
         /\ \A d \in Callers : d # c => act'[d] = act[d]
         /\ \A d \in Callers : act'[d].phase # "idle" => act'[d].model \in Activation!Known
         /\ Activation!InFlight' = (Activation!InFlight \ {c})
              \cup (IF a.phase \in {"idle", "done", "failed"} THEN {} ELSE {c})
<1>1. /\ act' \in [Callers -> Activations] /\ act'[c] = a
      /\ \A d \in Callers : d # c => act'[d] = act[d]
  BY DEF ActivationTyped
<1>. QED
  BY <1>1 DEF ActivationTyped, Activation!InFlight

\* A new phase is all that an update of one field changes.
LEMMA NextPhase ==
  ASSUME ActivationTyped, NEW c \in Callers, NEW phase \in Phases,
         NEW a, a = [act[c] EXCEPT !.phase = phase]
  PROVE  /\ a \in Activations /\ a.phase = phase /\ a.model = act[c].model
         /\ a.oldRequest = act[c].oldRequest /\ a.oldMetadata = act[c].oldMetadata
<1>1. act[c] \in Activations
  BY DEF ActivationTyped
<1>. QED
  BY <1>1 DEF Activations

\* What is left to show of a step of an activation in flight: what it leaves in the
\* engine and in the backend, whether it goes on or has come to its end.
LEMMA FlightStep ==
  ASSUME ActivationInv, NEW c \in Activation!InFlight, NEW a \in Activations,
         act' = [act EXCEPT ![c] = a], a.phase # "idle", a.model \in Activation!Known,
         a.oldRequest = act[c].oldRequest, a.oldMetadata = act[c].oldMetadata,
         UNCHANGED <<Activation!sessionVars, disturbed>>,
         lora_request' \in Requests, metadata' \in Metas, Agreed(lora_request', metadata'),
         ~disturbed =>
           /\ a.phase \in {"done", "failed"} => Resting'
           /\ a.phase \notin {"done", "failed"} => Underway(a)'
  PROVE  ActivationInv'
<1>1. c \in Callers
  BY DEF Activation!InFlight
<1>2. /\ act' \in [Callers -> Activations] /\ act'[c] = a
      /\ \A d \in Callers : d # c => act'[d] = act[d]
      /\ \A d \in Callers : act'[d].phase # "idle" => act'[d].model \in Activation!Known
      /\ Activation!InFlight' = (Activation!InFlight \ {c})
           \cup (IF a.phase \in {"idle", "done", "failed"} THEN {} ELSE {c})
  BY <1>1, Moved DEF ActivationInv
<1>3. Activation!InFlight' \subseteq Activation!InFlight /\ Activation!InFlight \subseteq Callers
  BY <1>2 DEF Activation!InFlight
<1>4. ActivationTyped'
  BY <1>2 DEF ActivationInv, ActivationTyped, Activation!sessionVars
<1>5. RequestsAgree'
  <2>1. ASSUME NEW d \in Activation!InFlight' PROVE Agreed(act'[d].oldRequest, act'[d].oldMetadata)
    <3>1. d \in Activation!InFlight /\ d \in Callers /\ Agreed(act[d].oldRequest, act[d].oldMetadata)
      BY <1>3 DEF ActivationInv, RequestsAgree
    <3>2. act'[d].oldRequest = act[d].oldRequest /\ act'[d].oldMetadata = act[d].oldMetadata
      BY <1>2, <3>1
    <3>. QED
      BY <3>1, <3>2
  <2>. QED
    BY <2>1 DEF RequestsAgree, Agreed
<1>6. OneAtATime'
  <2>. SUFFICES ASSUME ~disturbed PROVE
         /\ Activation!InFlight' = {} => Resting'
         /\ \A d \in Activation!InFlight' : Underway(act[d])' /\ \A e \in Activation!InFlight' : d = e
    BY DEF OneAtATime
  <2>1. Activation!InFlight = {c}
    BY DEF ActivationInv, OneAtATime
  <2>2. CASE a.phase \in {"done", "failed"}
    BY <1>2, <2>1, <2>2
  <2>3. CASE a.phase \notin {"done", "failed"}
    <3>1. Activation!InFlight' = {c} /\ Underway(act[c])'
      BY <1>2, <2>1, <2>3 DEF Underway
    <3>. QED
      BY <3>1
  <2>. QED
    BY <2>2, <2>3
<1>7. Foreseen'
  BY <1>3 DEF ActivationInv, Foreseen, Activation!Active, Activation!sessionVars
<1>. QED
  BY <1>4, <1>5, <1>6, <1>7 DEF ActivationInv

\* Models of the registry give requests and metadata that agree.
LEMMA ModelAgreed ==
  ASSUME NEW model \in Activation!Known
  PROVE  /\ Activation!SpecOf(model).adapter \in Requests /\ Activation!MetadataOf(model) \in Metas
         /\ Agreed(Activation!SpecOf(model).adapter, Activation!MetadataOf(model))
BY DEF Requests, Metas, Agreed

-----------------------------------------------------------------------------
\* The steps of an activation.

\* The route lets an activation begin when no session is active.
LEMMA NoneActive ==
  ASSUME Activation!RegistryAssumption, NEW c \in Callers, NEW model \in Activation!Known,
         Activation!Activate(c, model), NEW s \in Sessions
  PROVE  ~Activation!Active(s)
<1>. PICK atWork : atWork = {r \in Sessions : Activation!Active(r)}
  OBVIOUS
<1>1. IsFiniteSet(Sessions)
  BY Zenon DEF Activation!RegistryAssumption, Activation!IsFiniteSet, IsFiniteSet
<1>2. IsFiniteSet(atWork)
  <2>1. atWork \subseteq Sessions
    OBVIOUS
  <2>. QED
    BY <1>1, <2>1, FS_Subset
<1>3. Activation!active_count = Cardinality(atWork)
  BY Zenon DEF Activation!active_count, Activation!Cardinality, Cardinality
<1>4. Activation!active_count = 0
  BY DEF Activation!Activate, Activation!MaySwitch
<1>5. atWork = {}
  BY <1>2, <1>3, <1>4, FS_EmptySet
<1>. QED
  BY <1>5

\* It is then alone, unless another one began under the same guard.
LEMMA ActivateKeeps ==
  ASSUME Activation!RegistryAssumption, ActivationInv, NEW c \in Callers, NEW model \in Activation!Known,
         Activation!Activate(c, model)
  PROVE  ActivationInv'
<1>. DEFINE a == [phase |-> "removing", model |-> model,
                  oldRequest |-> lora_request, oldMetadata |-> metadata]
<1>1. /\ act[c].phase = "idle"
      /\ disturbed' = (disturbed \/ Activation!InFlight # {})
      /\ UNCHANGED <<slot, stray, Activation!sessionVars, faults>>
  BY DEF Activation!Activate
<1>2. PICK b \in Activations :
        /\ act' = [act EXCEPT ![c] = b] /\ b.model = model
        /\ b.oldRequest = lora_request /\ b.oldMetadata = metadata
        /\ \/ /\ b.phase = "removing" /\ UNCHANGED <<lora_request, metadata>>
           \/ /\ b.phase = "adding" /\ UNCHANGED <<lora_request, metadata>>
              /\ lora_request = None
           \/ /\ b.phase = "done" /\ lora_request = None /\ lora_request' = None
              /\ Activation!SpecOf(model).adapter = None /\ metadata' = Activation!MetadataOf(model)
  <2>1. \A phase \in Phases :
          /\ [a EXCEPT !.phase = phase] \in Activations
          /\ [a EXCEPT !.phase = phase].phase = phase
          /\ [a EXCEPT !.phase = phase].model = model
          /\ [a EXCEPT !.phase = phase].oldRequest = lora_request
          /\ [a EXCEPT !.phase = phase].oldMetadata = metadata
    BY DEF ActivationInv, ActivationTyped, Activations
  <2>2. /\ a \in Activations /\ a.phase = "removing" /\ a.model = model
        /\ a.oldRequest = lora_request /\ a.oldMetadata = metadata
    BY DEF ActivationInv, ActivationTyped, Activations, Phases
  <2>3. IF lora_request = None THEN Activation!EnterTry(c, a)
        ELSE act' = [act EXCEPT ![c] = a] /\ UNCHANGED <<lora_request, metadata>>
    BY DEF Activation!Activate
  <2>. HIDE DEF a
  <2>4. CASE lora_request # None
    BY <2>2, <2>3, <2>4
  <2>5. CASE lora_request = None /\ Activation!SpecOf(model).adapter = None
    BY <2>1, <2>2, <2>3, <2>5 DEF Activation!EnterTry, Phases
  <2>6. CASE lora_request = None /\ Activation!SpecOf(model).adapter # None
    BY <2>1, <2>2, <2>3, <2>6 DEF Activation!EnterTry, Phases
  <2>. QED
    BY <2>4, <2>5, <2>6
<1>3. /\ act' \in [Callers -> Activations] /\ act'[c] = b
      /\ \A d \in Callers : d # c => act'[d] = act[d]
      /\ \A d \in Callers : act'[d].phase # "idle" => act'[d].model \in Activation!Known
      /\ Activation!InFlight' = (Activation!InFlight \ {c})
           \cup (IF b.phase \in {"idle", "done", "failed"} THEN {} ELSE {c})
  BY <1>2, Moved DEF ActivationInv
<1>4. ActivationTyped'
  BY <1>1, <1>2, <1>3, ModelAgreed DEF ActivationInv, ActivationTyped, Activation!sessionVars
<1>5. Agreed(lora_request, metadata) /\ Agreed(lora_request', metadata')
  BY <1>2, ModelAgreed DEF ActivationInv, RequestsAgree
<1>6. RequestsAgree'
  <2>1. ASSUME NEW d \in Activation!InFlight' PROVE Agreed(act'[d].oldRequest, act'[d].oldMetadata)
    <3>1. d \in Callers
      BY DEF Activation!InFlight
    <3>2. CASE d = c
      BY <1>2, <1>3, <1>5, <3>2
    <3>3. CASE d # c
      BY <1>3, <3>1, <3>3 DEF ActivationInv, RequestsAgree
    <3>. QED
      BY <3>2, <3>3
  <2>. QED
    BY <1>5, <2>1 DEF RequestsAgree, Agreed
<1>7. OneAtATime'
  <2>. SUFFICES ASSUME ~disturbed' PROVE
         /\ Activation!InFlight' = {} => Resting'
         /\ \A d \in Activation!InFlight' : Underway(act[d])' /\ \A e \in Activation!InFlight' : d = e
    BY DEF OneAtATime
  <2>1. ~disturbed /\ Activation!InFlight = {}
    BY <1>1
  <2>2. Resting
    BY <2>1 DEF ActivationInv, OneAtATime
  <2>3. Resting'
    BY <1>1, <1>2, <2>2 DEF Resting
  <2>4. b.phase \in {"removing", "adding"} => Underway(b)'
    BY <1>1, <1>2, <2>2 DEF Underway, Resting
  <2>5. Activation!InFlight' \subseteq {c} /\ (Activation!InFlight' # {} => Underway(act[c])')
    BY <1>2, <1>3, <2>1, <2>4 DEF Underway
  <2>. QED
    BY <2>3, <2>5
<1>8. Foreseen'
  <2>1. \A s \in Sessions : ~Activation!Active(s)'
    BY <1>1, NoneActive DEF Activation!Active, Activation!sessionVars
  <2>. QED
    BY <2>1 DEF Foreseen
<1>. QED
  BY <1>4, <1>6, <1>7, <1>8 DEF ActivationInv

\* The engine gives its adapter up, and the try block begins.
LEMMA RemovedKeeps ==
  ASSUME ActivationInv, NEW c \in Callers, Activation!Removed(c)
  PROVE  ActivationInv'
<1>1. /\ act[c].phase = "removing" /\ slot' = None /\ Activation!EnterTry(c, act[c])
      /\ UNCHANGED <<Activation!sessionVars, disturbed>>
  BY DEF Activation!Removed, Activation!RemovedSlot
<1>2. /\ c \in Activation!InFlight /\ act[c] \in Activations /\ act[c].model \in Activation!Known
      /\ ActivationTyped /\ Agreed(lora_request, metadata) /\ "done" \in Phases /\ "adding" \in Phases
  BY <1>1 DEF Activation!InFlight, ActivationInv, ActivationTyped, RequestsAgree, Phases
<1>3. CASE Activation!SpecOf(act[c].model).adapter = None
  <2>. PICK a : a = [act[c] EXCEPT !.phase = "done"]
    OBVIOUS
  <2>1. /\ lora_request' = None /\ metadata' = Activation!MetadataOf(act[c].model)
        /\ act' = [act EXCEPT ![c] = a]
    BY <1>1, <1>3 DEF Activation!EnterTry
  <2>2. /\ a \in Activations /\ a.phase = "done" /\ a.model = act[c].model
        /\ a.oldRequest = act[c].oldRequest /\ a.oldMetadata = act[c].oldMetadata
    BY <1>2, NextPhase
  <2>3. Agreed(lora_request', metadata') /\ Resting'
    BY <1>1, <1>2, <1>3, <2>1, ModelAgreed DEF Resting
  <2>4. lora_request' \in Requests /\ metadata' \in Metas
    BY <1>2, <1>3, <2>1, ModelAgreed
  <2>. QED
    BY <1>1, <1>2, <2>1, <2>2, <2>3, <2>4, FlightStep
<1>4. CASE Activation!SpecOf(act[c].model).adapter # None
  <2>. PICK a : a = [act[c] EXCEPT !.phase = "adding"]
    OBVIOUS
  <2>1. act' = [act EXCEPT ![c] = a] /\ UNCHANGED <<lora_request, metadata>>
    BY <1>1, <1>4 DEF Activation!EnterTry
  <2>2. /\ a \in Activations /\ a.phase = "adding" /\ a.model = act[c].model
        /\ a.oldRequest = act[c].oldRequest /\ a.oldMetadata = act[c].oldMetadata
    BY <1>2, NextPhase
  <2>3. ~disturbed => Underway(a)'
    BY <1>1, <1>2, <2>1, <2>2 DEF ActivationInv, OneAtATime, Underway
  <2>4. lora_request' \in Requests /\ metadata' \in Metas /\ Agreed(lora_request', metadata')
    BY <1>2, <2>1 DEF ActivationTyped
  <2>. QED
    BY <1>1, <1>2, <2>1, <2>2, <2>3, <2>4, FlightStep
<1>. QED
  BY <1>3, <1>4

\* A step that changes no more than the phase and, maybe, what the engine holds.
LEMMA PhaseStep ==
  ASSUME ActivationInv, NEW c \in Activation!InFlight, NEW phase \in Phases \ {"idle"},
         act' = [act EXCEPT ![c].phase = phase],
         UNCHANGED <<Activation!sessionVars, disturbed, lora_request, metadata>>,
         ~disturbed /\ Underway(act[c]) =>
           /\ phase \in {"done", "failed"} => Resting'
           /\ phase \notin {"done", "failed"} =>
                \A a \in Activations :
                  /\ a.phase = phase /\ a.model = act[c].model
                  /\ a.oldRequest = lora_request /\ a.oldMetadata = metadata
                  => Underway(a)'
  PROVE  ActivationInv'
<1>1. /\ c \in Callers /\ act[c].phase # "idle" /\ act[c].model \in Activation!Known
      /\ phase \in Phases /\ ActivationTyped
  BY DEF Activation!InFlight, ActivationInv, ActivationTyped
<1>. PICK a : a = [act[c] EXCEPT !.phase = phase]
  OBVIOUS
<1>2. /\ act' = [act EXCEPT ![c] = a]
      /\ a \in Activations /\ a.phase = phase /\ a.model = act[c].model
      /\ a.oldRequest = act[c].oldRequest /\ a.oldMetadata = act[c].oldMetadata
  BY <1>1, NextPhase
<1>3. ~disturbed =>
        /\ a.phase \in {"done", "failed"} => Resting'
        /\ a.phase \notin {"done", "failed"} => Underway(a)'
  <2>. SUFFICES ASSUME ~disturbed
                PROVE  /\ a.phase \in {"done", "failed"} => Resting'
                       /\ a.phase \notin {"done", "failed"} => Underway(a)'
    OBVIOUS
  <2>1. Underway(act[c])
    BY DEF ActivationInv, OneAtATime
  <2>2. act[c].oldRequest = lora_request /\ act[c].oldMetadata = metadata
    BY <2>1 DEF Underway
  <2>. QED
    BY <1>2, <2>1, <2>2
<1>4. lora_request' \in Requests /\ metadata' \in Metas /\ Agreed(lora_request', metadata')
  BY DEF ActivationInv, ActivationTyped, RequestsAgree
<1>. QED
  BY <1>1, <1>2, <1>3, <1>4, FlightStep

\* An await that fails before the engine changed ends in what was there.
LEMMA RemoveFailsKeeps ==
  ASSUME ActivationInv, NEW c \in Callers, Activation!RemoveFails(c)
  PROVE  ActivationInv'
<1>1. /\ act[c].phase = "removing" /\ act' = [act EXCEPT ![c].phase = "failed"]
      /\ UNCHANGED <<Activation!engineVars, Activation!sessionVars, disturbed>>
  BY DEF Activation!RemoveFails
<1>2. c \in Activation!InFlight /\ "failed" \in Phases \ {"idle"}
  BY <1>1 DEF Activation!InFlight, Phases
<1>3. Underway(act[c]) => Resting'
  BY <1>1 DEF Underway, Resting, Activation!engineVars
<1>. QED
  BY <1>1, <1>2, <1>3, PhaseStep DEF Activation!engineVars

\* The adapter is added, unless a failed pin had left another one under the same id.
LEMMA AddedKeeps ==
  ASSUME ActivationInv, NEW c \in Callers, Activation!Added(c)
  PROVE  ActivationInv'
<1>1. /\ act[c].phase = "adding" /\ act' = [act EXCEPT ![c].phase = "pinning"]
      /\ slot' = Activation!Register(Activation!SpecOf(act[c].model).adapter)
      /\ UNCHANGED <<stray, lora_request, metadata, Activation!sessionVars, disturbed>>
  BY DEF Activation!Added
<1>2. c \in Activation!InFlight /\ "pinning" \in Phases \ {"idle"}
  BY <1>1 DEF Activation!InFlight, Phases
<1>3. ASSUME Underway(act[c]), NEW a \in Activations, a.phase = "pinning",
             a.model = act[c].model, a.oldRequest = lora_request, a.oldMetadata = metadata
      PROVE  Underway(a)'
  BY <1>1, <1>3 DEF Underway, Activation!Register
<1>. QED
  BY <1>1, <1>2, <1>3, PhaseStep

\* Pinned: the request and the metadata follow the engine.
LEMMA PinnedKeeps ==
  ASSUME ActivationInv, NEW c \in Callers, Activation!Pinned(c)
  PROVE  ActivationInv'
<1>1. /\ act[c].phase = "pinning"
      /\ lora_request' = Activation!SpecOf(act[c].model).adapter
      /\ metadata' = Activation!MetadataOf(act[c].model)
      /\ act' = [act EXCEPT ![c].phase = "done"]
      /\ UNCHANGED <<slot, stray, Activation!sessionVars, disturbed>>
  BY DEF Activation!Pinned, Activation!Activated
<1>2. /\ c \in Activation!InFlight /\ act[c].model \in Activation!Known /\ "done" \in Phases
      /\ ActivationTyped
  BY <1>1 DEF Activation!InFlight, Phases, ActivationInv, ActivationTyped
<1>. PICK a : a = [act[c] EXCEPT !.phase = "done"]
  OBVIOUS
<1>3. /\ act' = [act EXCEPT ![c] = a]
      /\ a \in Activations /\ a.phase = "done" /\ a.model = act[c].model
      /\ a.oldRequest = act[c].oldRequest /\ a.oldMetadata = act[c].oldMetadata
  BY <1>1, <1>2, NextPhase
<1>4. ~disturbed => Resting'
  BY <1>1, <1>2 DEF ActivationInv, OneAtATime, Underway, Resting
<1>5. lora_request' \in Requests /\ metadata' \in Metas /\ Agreed(lora_request', metadata')
  BY <1>1, <1>2, ModelAgreed
<1>. QED
  BY <1>1, <1>2, <1>3, <1>4, <1>5, FlightStep

\* An activation that comes to its end by putting back the request and the metadata
\* that it found.
LEMMA PutBack ==
  ASSUME ActivationInv, NEW c \in Activation!InFlight,
         act' = [act EXCEPT ![c].phase = "failed"],
         lora_request' = act[c].oldRequest, metadata' = act[c].oldMetadata,
         UNCHANGED <<Activation!sessionVars, disturbed>>,
         ~disturbed => Resting'
  PROVE  ActivationInv'
<1>1. /\ c \in Callers /\ act[c] \in Activations /\ act[c].phase # "idle"
      /\ act[c].model \in Activation!Known /\ "failed" \in Phases /\ ActivationTyped
  BY DEF Activation!InFlight, ActivationInv, ActivationTyped, Phases
<1>. PICK a : a = [act[c] EXCEPT !.phase = "failed"]
  OBVIOUS
<1>2. /\ act' = [act EXCEPT ![c] = a]
      /\ a \in Activations /\ a.phase = "failed" /\ a.model = act[c].model
      /\ a.oldRequest = act[c].oldRequest /\ a.oldMetadata = act[c].oldMetadata
  BY <1>1, NextPhase
<1>3. lora_request' \in Requests /\ metadata' \in Metas
  BY <1>1 DEF Activations
<1>4. Agreed(lora_request', metadata')
  BY DEF ActivationInv, RequestsAgree
<1>. QED
  BY <1>1, <1>2, <1>3, <1>4, FlightStep

\* An await that fails in the try block: the adapter that was there is put back. One
\* whose pin failed stays, as the stray one.
LEMMA TryFailsKeeps ==
  ASSUME ActivationInv, NEW c \in Callers, Activation!TryFails(c)
  PROVE  ActivationInv'
<1>1. /\ \/ act[c].phase = "adding" /\ UNCHANGED stray
         \/ act[c].phase = "pinning" /\ stray' = slot
      /\ UNCHANGED <<slot, Activation!sessionVars, disturbed>>
  BY DEF Activation!TryFails
<1>2. c \in Activation!InFlight /\ "restoring" \in Phases \ {"idle"}
  BY <1>1 DEF Activation!InFlight, Phases
<1>3. CASE act[c].oldRequest # None
  <2>1. act' = [act EXCEPT ![c].phase = "restoring"] /\ UNCHANGED <<lora_request, metadata>>
    BY <1>3 DEF Activation!TryFails
  <2>2. ASSUME Underway(act[c]), NEW a \in Activations, a.phase = "restoring",
               a.model = act[c].model, a.oldRequest = lora_request, a.oldMetadata = metadata
        PROVE  Underway(a)'
    BY <1>1, <2>1, <2>2 DEF Underway
  <2>. QED
    BY <1>1, <1>2, <2>1, <2>2, PhaseStep
<1>4. CASE act[c].oldRequest = None
  <2>1. /\ act' = [act EXCEPT ![c].phase = "failed"]
        /\ lora_request' = act[c].oldRequest /\ metadata' = act[c].oldMetadata
    BY <1>4 DEF Activation!TryFails
  <2>2. ~disturbed => Resting'
    BY <1>1, <1>2, <2>1 DEF ActivationInv, OneAtATime, Underway, Resting
  <2>. QED
    BY <1>1, <1>2, <2>1, <2>2, PutBack
<1>. QED
  BY <1>3, <1>4

\* The old adapter is added and pinned again, and the backend says so.
LEMMA RestoredKeeps ==
  ASSUME ActivationInv, NEW c \in Callers, Activation!Restored(c)
  PROVE  ActivationInv'
<1>1. CASE /\ act[c].phase = "restoring"
           /\ slot' = Activation!Register(act[c].oldRequest)
           /\ act' = [act EXCEPT ![c].phase = "repinning"]
           /\ UNCHANGED <<stray, lora_request, metadata, Activation!sessionVars, disturbed, faults>>
  <2>1. c \in Activation!InFlight /\ "repinning" \in Phases \ {"idle"}
    BY <1>1 DEF Activation!InFlight, Phases
  <2>2. ASSUME Underway(act[c]), NEW a \in Activations, a.phase = "repinning",
               a.model = act[c].model, a.oldRequest = lora_request, a.oldMetadata = metadata
        PROVE  Underway(a)'
    BY <1>1, <2>2 DEF Underway, Activation!Register
  <2>. QED
    BY <1>1, <2>1, <2>2, PhaseStep
<1>2. CASE /\ act[c].phase = "repinning"
           /\ lora_request' = act[c].oldRequest /\ metadata' = act[c].oldMetadata
           /\ act' = [act EXCEPT ![c].phase = "failed"]
           /\ UNCHANGED <<slot, stray, Activation!sessionVars, disturbed, faults>>
  <2>1. c \in Activation!InFlight
    BY <1>2 DEF Activation!InFlight
  <2>2. ~disturbed => Resting'
    BY <1>2, <2>1 DEF ActivationInv, OneAtATime, Underway, Resting
  <2>. QED
    BY <1>2, <2>1, <2>2, PutBack
<1>. QED
  BY <1>1, <1>2 DEF Activation!Restored

\* When even that fails, the engine is left with what it holds.
LEMMA RestoreFailsKeeps ==
  ASSUME ActivationInv, NEW c \in Callers, Activation!RestoreFails(c)
  PROVE  ActivationInv'
<1>1. /\ act[c].phase \in {"restoring", "repinning"}
      /\ act' = [act EXCEPT ![c].phase = "failed"]
      /\ UNCHANGED <<Activation!engineVars, Activation!sessionVars, disturbed>>
  BY DEF Activation!RestoreFails
<1>2. c \in Activation!InFlight /\ "failed" \in Phases \ {"idle"}
  BY <1>1 DEF Activation!InFlight, Phases
<1>3. Underway(act[c]) => Resting'
  BY <1>1 DEF Underway, Resting, Activation!engineVars
<1>. QED
  BY <1>1, <1>2, <1>3, PhaseStep DEF Activation!engineVars
-----------------------------------------------------------------------------
\* The steps of a session.

\* While the engine, the backend and the activations stay as they are, so does what
\* is known of them.
LEMMA EngineStill ==
  ASSUME ActivationInv, UNCHANGED <<Activation!engineVars, act, disturbed>>
  PROVE  OneAtATime'
<1>1. Activation!InFlight' = Activation!InFlight
  BY DEF Activation!InFlight
<1>. QED
  BY <1>1 DEF ActivationInv, OneAtATime, Underway, Resting, Activation!engineVars

\* A session takes its next stage and no activation moves. One that becomes active
\* knows the activations that wait.
LEMMA StageStep ==
  ASSUME ActivationInv, NEW s \in Sessions, NEW next \in Stages,
         stage' = [stage EXCEPT ![s] = next],
         UNCHANGED <<lora_request, metadata, act>>,
         rowModel' = [r \in Sessions |-> rowModel'[r]],
         builtDuring' = [r \in Sessions |-> builtDuring'[r]],
         \A r \in Sessions : r # s => builtDuring'[r] = builtDuring[r],
         next \in {"created", "running"} => Activation!InFlight \subseteq builtDuring'[s],
         OneAtATime'
  PROVE  ActivationInv'
<1>1. ActivationTyped'
  BY DEF ActivationInv, ActivationTyped
<1>2. Activation!InFlight' = Activation!InFlight /\ RequestsAgree'
  BY DEF ActivationInv, RequestsAgree, Activation!InFlight, Agreed
<1>3. Foreseen'
  <2>. SUFFICES ASSUME NEW r \in Sessions, Activation!Active(r)'
                PROVE  Activation!InFlight \subseteq builtDuring'[r]
    BY <1>2 DEF Foreseen
  <2>1. stage'[r] \in {"created", "running"} /\ stage \in [Sessions -> Stages]
    BY DEF Activation!Active, ActivationInv, ActivationTyped
  <2>2. CASE r = s
    BY <2>1, <2>2
  <2>3. CASE r # s
    BY <2>1, <2>3 DEF ActivationInv, Foreseen, Activation!Active
  <2>. QED
    BY <2>2, <2>3
<1>. QED
  BY <1>1, <1>2, <1>3 DEF ActivationInv

\* A session begins to be created, or ends.
LEMMA OffStageKeeps ==
  ASSUME ActivationInv, NEW s \in Sessions, Activation!CreateStarts(s) \/ Activation!SessionEnds(s)
  PROVE  ActivationInv'
<1>. PICK next \in {"creating", "ended"} : stage' = [stage EXCEPT ![s] = next]
  BY DEF Activation!CreateStarts, Activation!SessionEnds
<1>1. UNCHANGED <<Activation!engineVars, act, rowModel, builtDuring, disturbed>>
  BY DEF Activation!CreateStarts, Activation!SessionEnds
<1>2. rowModel' = [r \in Sessions |-> rowModel'[r]] /\ builtDuring' = [r \in Sessions |-> builtDuring'[r]]
  BY <1>1 DEF ActivationInv, ActivationTyped
<1>3. OneAtATime'
  BY <1>1, EngineStill
<1>4. next \in Stages /\ next \notin {"created", "running"}
  BY DEF Stages
<1>. QED
  BY <1>1, <1>2, <1>3, <1>4, StageStep DEF Activation!engineVars

\* The row takes its model from the metadata of the moment.
LEMMA RowBuiltKeeps ==
  ASSUME ActivationInv, NEW s \in Sessions, Activation!RowBuilt(s)
  PROVE  ActivationInv'
<1>1. /\ stage' = [stage EXCEPT ![s] = "created"]
      /\ rowModel' = [rowModel EXCEPT ![s] = metadata]
      /\ builtDuring' = [builtDuring EXCEPT ![s] = Activation!InFlight]
      /\ UNCHANGED <<Activation!engineVars, act, disturbed>>
  BY DEF Activation!RowBuilt
<1>2. /\ rowModel' = [r \in Sessions |-> rowModel'[r]]
      /\ builtDuring' = [r \in Sessions |-> builtDuring'[r]]
      /\ \A r \in Sessions : r # s => builtDuring'[r] = builtDuring[r]
      /\ builtDuring'[s] = Activation!InFlight
  BY <1>1 DEF ActivationInv, ActivationTyped
<1>3. OneAtATime'
  BY <1>1, EngineStill
<1>4. "created" \in Stages
  BY DEF Stages
<1>. QED
  BY <1>1, <1>2, <1>3, <1>4, StageStep DEF Activation!engineVars

\* A generation registers the adapter of the request, if none is there.
LEMMA GenerateKeeps ==
  ASSUME ActivationInv, NEW s \in Sessions, Activation!Generate(s)
  PROVE  ActivationInv'
<1>1. /\ Activation!Active(s) /\ stage' = [stage EXCEPT ![s] = "running"]
      /\ slot' = IF lora_request = None THEN slot ELSE Activation!Register(lora_request)
      /\ disturbed' = (disturbed \/ Activation!InFlight # {})
      /\ UNCHANGED <<stray, lora_request, metadata, act, rowModel, builtDuring>>
  BY DEF Activation!Generate
<1>2. rowModel' = [r \in Sessions |-> rowModel'[r]] /\ builtDuring' = [r \in Sessions |-> builtDuring'[r]]
  BY <1>1 DEF ActivationInv, ActivationTyped
<1>3. Activation!InFlight \subseteq builtDuring'[s]
  BY <1>1 DEF ActivationInv, Foreseen
<1>4. Activation!InFlight' = Activation!InFlight
  BY <1>1 DEF Activation!InFlight
<1>5. ~disturbed' => Activation!InFlight = {} /\ Resting'
  BY <1>1 DEF ActivationInv, OneAtATime, Resting, Activation!Register
<1>6. OneAtATime'
  BY <1>4, <1>5 DEF OneAtATime
<1>7. "running" \in Stages
  BY DEF Stages
<1>. QED
  BY <1>1, <1>2, <1>3, <1>6, <1>7, StageStep

-----------------------------------------------------------------------------
\* The theorems.

\* The registry shows the model of the metadata as the active one.
LEMMA Identified ==
  ASSUME Activation!RegistryAssumption, NEW model \in Activation!Known
  PROVE  /\ Activation!MetadataOf(model).adapter = Activation!SpecOf(model).adapter
         /\ Activation!Identify(Activation!MetadataOf(model)) = Activation!MetadataOf(model).id
<1>. DEFINE meta == Activation!MetadataOf(model)
            i == CHOOSE k \in DOMAIN Catalog : Catalog[k].id = model
            first == CHOOSE k \in DOMAIN Catalog :
                       Activation!SameFiles(k, meta) /\ \A l \in 1..(k - 1) : ~Activation!SameFiles(l, meta)
<1>1. i \in DOMAIN Catalog /\ Catalog[i].id = model
  BY DEF Activation!Known
<1>2. meta.id = model /\ meta.base = Catalog[i].base /\ meta.adapter = Catalog[i].adapter
  BY DEF Activation!MetadataOf, Activation!SpecOf
<1>. HIDE DEF meta, i
<1>3. \A k \in DOMAIN Catalog : Activation!SameFiles(k, meta) <=> k = i
  BY <1>1, <1>2 DEF Activation!SameFiles, Activation!RegistryAssumption
<1>4. \A l \in 1..(i - 1) : ~Activation!SameFiles(l, meta)
  BY <1>1, <1>3 DEF Activation!RegistryAssumption
<1>5. first = i
  BY <1>1, <1>3, <1>4
<1>6. Activation!Identify(meta) = Catalog[i].id
  BY <1>1, <1>3, <1>5 DEF Activation!Identify
<1>. QED
  BY <1>1, <1>2, <1>6 DEF meta, Activation!MetadataOf

\* The inductive invariant of activations and sessions (backend.py activate_model,
\* routes.py activate_model, orchestrator.py create_session).
THEOREM ActivationKept == Activation!Spec => []ActivationInv
<1>. USE RegistrySound
<1>1. Activation!Init => ActivationInv
  <2>. SUFFICES ASSUME Activation!Init PROVE ActivationInv
    OBVIOUS
  <2>1. Default \in Activation!Known
    BY DEF Activation!RegistryAssumption
  <2>2. Activation!NoActivation \in Activations /\ Activation!NoActivation.phase = "idle"
    BY DEF Activation!NoActivation, Activations, Phases, Requests, Metas
  <2>3. Activation!InFlight = {}
    BY <2>2 DEF Activation!Init, Activation!InFlight
  <2>4. ActivationTyped
    BY <2>1, <2>2, ModelAgreed DEF Activation!Init, ActivationTyped, Stages
  <2>5. RequestsAgree /\ OneAtATime
    BY <2>1, <2>3, ModelAgreed DEF Activation!Init, RequestsAgree, OneAtATime, Resting
  <2>6. Foreseen
    BY <2>3 DEF Foreseen
  <2>. QED
    BY <2>4, <2>5, <2>6 DEF ActivationInv
<1>2. ActivationInv /\ [Activation!Next]_(Activation!activationVars) => ActivationInv'
  <2>. SUFFICES ASSUME ActivationInv, [Activation!Next]_(Activation!activationVars) PROVE ActivationInv'
    OBVIOUS
  <2>1. ASSUME NEW c \in Callers, Activation!ActivationStep(c)
        PROVE  ActivationInv'
    BY <2>1, ActivateKeeps, RemovedKeeps, RemoveFailsKeeps, AddedKeeps, PinnedKeeps,
       TryFailsKeeps, RestoredKeeps, RestoreFailsKeeps DEF Activation!ActivationStep
  <2>2. ASSUME NEW s \in Sessions, Activation!SessionStep(s)
        PROVE  ActivationInv'
    BY <2>2, OffStageKeeps, RowBuiltKeeps, GenerateKeeps DEF Activation!SessionStep
  <2>3. CASE UNCHANGED Activation!activationVars
    <3>1. ActivationTyped'
      BY <2>3 DEF Activation!activationVars, ActivationInv, ActivationTyped
    <3>2. Activation!InFlight' = Activation!InFlight /\ OneAtATime'
      BY <2>3, EngineStill DEF Activation!activationVars, Activation!engineVars, Activation!InFlight
    <3>3. RequestsAgree' /\ Foreseen'
      BY <2>3, <3>2 DEF Activation!activationVars, ActivationInv, RequestsAgree, Agreed, Foreseen,
                        Activation!Active
    <3>. QED
      BY <3>1, <3>2, <3>3 DEF ActivationInv
  <2>. QED
    BY <2>1, <2>2, <2>3 DEF Activation!Next
<1>. QED
  BY <1>1, <1>2, PTL DEF Activation!Spec

\* Request, metadata and registry name one model whatever activations meet, and so
\* does the engine after an undisturbed one, but for an adapter whose pin failed
\* (backend.py activate_model).
THEOREM ActivationsAgree == Activation!Spec => []ActivationConsistent
<1>1. ActivationInv => ActivationConsistent
  <2>. SUFFICES ASSUME ActivationInv
                PROVE  /\ metadata.adapter = lora_request
                       /\ Activation!Identify(metadata) = metadata.id
                       /\ Activation!InFlight = {} /\ ~disturbed => Resting
    BY DEF ActivationConsistent, Activation!ActivationConsistent, Resting
  <2>1. Agreed(lora_request, metadata)
    BY DEF ActivationInv, RequestsAgree
  <2>2. Activation!InFlight = {} /\ ~disturbed => Resting
    BY DEF ActivationInv, OneAtATime
  <2>. QED
    BY <2>1, <2>2, RegistrySound, Identified DEF Agreed
<1>. QED
  BY <1>1, ActivationKept, PTL

\* A step of an activation leaves what answers as it is, or makes it one of the models
\* that are in play.
LEMMA Switched ==
  ASSUME NEW c \in Callers,
         \/ Activation!Removed(c) \/ Activation!RemoveFails(c) \/ Activation!Added(c)
         \/ Activation!Pinned(c) \/ Activation!TryFails(c) \/ Activation!Restored(c)
         \/ Activation!RestoreFails(c)
  PROVE  /\ c \in Activation!InFlight
         /\ Activation!Answering' \in {Activation!Answering} \cup ({lora_request, slot} \ {None})
              \cup {act[c].oldRequest, Activation!SpecOf(act[c].model).adapter}
<1>. PICK target : target = Activation!SpecOf(act[c].model).adapter
  OBVIOUS
<1>1. CASE Activation!Removed(c)
  <2>1. lora_request' \in {None, lora_request} /\ (lora_request' = None => lora_request = None \/ target = None)
    BY <1>1 DEF Activation!Removed, Activation!EnterTry
  <2>. QED
    BY <1>1, <2>1 DEF Activation!Removed, Activation!RemovedSlot, Activation!Answering, Activation!Register,
                      Activation!InFlight
<1>2. CASE Activation!RemoveFails(c) \/ Activation!RestoreFails(c)
  BY <1>2 DEF Activation!RemoveFails, Activation!RestoreFails, Activation!engineVars, Activation!Answering,
              Activation!Register, Activation!InFlight
<1>3. CASE Activation!Added(c)
  BY <1>3 DEF Activation!Added, Activation!Answering, Activation!Register, Activation!InFlight
<1>4. CASE Activation!Pinned(c)
  BY <1>4 DEF Activation!Pinned, Activation!Activated, Activation!Answering, Activation!Register,
              Activation!InFlight
<1>5. CASE Activation!TryFails(c)
  <2>1. /\ slot' = slot /\ lora_request' \in {lora_request, act[c].oldRequest}
        /\ c \in Activation!InFlight
    BY <1>5 DEF Activation!TryFails, Activation!InFlight
  <2>. QED
    BY <2>1 DEF Activation!Answering, Activation!Register
<1>6. CASE Activation!Restored(c)
  BY <1>6 DEF Activation!Restored, Activation!Answering, Activation!Register, Activation!InFlight
<1>. QED
  BY <1>1, <1>2, <1>3, <1>4, <1>5, <1>6

\* A step of a session changes nothing of what answers; a row is built by one step,
\* with the metadata of the moment.
LEMMA Undistracted ==
  ASSUME ActivationInv, NEW r \in Sessions, Activation!SessionStep(r)
  PROVE  /\ Activation!Answering' = Activation!Answering
         /\ \A s \in Sessions : stage[s] = "creating" /\ Activation!Active(s)' => rowModel'[s] = metadata
<1>1. Activation!Answering' = Activation!Answering
  BY DEF Activation!SessionStep, Activation!CreateStarts, Activation!RowBuilt, Activation!Generate,
         Activation!SessionEnds, Activation!engineVars, Activation!Answering, Activation!Register
<1>2. ASSUME NEW s \in Sessions, stage[s] = "creating", Activation!Active(s)'
      PROVE  rowModel'[s] = metadata
  <2>1. stage \in [Sessions -> Stages] /\ rowModel = [x \in Sessions |-> rowModel[x]]
    BY DEF ActivationInv, ActivationTyped
  <2>2. s = r
    BY <1>2, <2>1 DEF Activation!SessionStep, Activation!CreateStarts, Activation!RowBuilt,
                      Activation!Generate, Activation!SessionEnds, Activation!Active
  <2>3. Activation!RowBuilt(s)
    BY <1>2, <2>1, <2>2 DEF Activation!SessionStep, Activation!CreateStarts,
                            Activation!Generate, Activation!SessionEnds, Activation!Active
  <2>. QED
    BY <2>1, <2>3 DEF Activation!RowBuilt
<1>. QED
  BY <1>1, <1>2

\* What answers an active session changes only by activations that its row knew of,
\* and a row built outside every activation names what answers (routes.py
\* activate_model, orchestrator.py create_session).
THEOREM SessionsKeepTheirModel == Activation!Spec => SessionKeepsItsModel
<1>1. ASSUME ActivationInv, Activation!Next, NEW s \in Sessions
      PROVE  Activation!AnswersAsBuilt(s)
  <2>1. Agreed(lora_request, metadata) /\ (Activation!Active(s) => Activation!InFlight \subseteq builtDuring[s])
    BY <1>1 DEF ActivationInv, RequestsAgree, Foreseen
  <2>2. ASSUME NEW c \in Callers, Activation!ActivationStep(c)
        PROVE  Activation!AnswersAsBuilt(s)
    <3>1. stage' = stage
      BY <2>2 DEF Activation!ActivationStep, Activation!Activate, Activation!Removed, Activation!RemoveFails,
                  Activation!Added, Activation!Pinned, Activation!TryFails, Activation!Restored,
                  Activation!RestoreFails, Activation!sessionVars
    <3>2. ASSUME Activation!Active(s)
          PROVE  Activation!Answering' \in {Activation!Answering} \cup Activation!InPlay(s)
      <4>1. \A model \in Activation!Known : ~Activation!Activate(c, model)
        BY <3>2, RegistrySound, NoneActive
      <4>2. /\ c \in Activation!InFlight
            /\ Activation!Answering' \in {Activation!Answering} \cup ({lora_request, slot} \ {None})
                 \cup {act[c].oldRequest, Activation!SpecOf(act[c].model).adapter}
        BY <2>2, <4>1, Switched DEF Activation!ActivationStep
      <4>3. c \in builtDuring[s] \cap Activation!InFlight
        BY <2>1, <3>2, <4>2
      <4>4. ({lora_request, slot} \ {None}) \cup {act[c].oldRequest, Activation!SpecOf(act[c].model).adapter}
              \subseteq Activation!InPlay(s)
        BY <4>3 DEF Activation!InPlay
      <4>. QED
        BY <4>2, <4>4
    <3>. QED
      BY <3>1, <3>2 DEF Activation!AnswersAsBuilt, Activation!Active
  <2>3. ASSUME NEW r \in Sessions, Activation!SessionStep(r)
        PROVE  Activation!AnswersAsBuilt(s)
    <3>1. /\ Activation!Answering' = Activation!Answering
          /\ stage[s] = "creating" /\ Activation!Active(s)' => rowModel'[s] = metadata
      BY <1>1, <2>3, Undistracted
    <3>2. ASSUME Activation!InFlight = {}, ~disturbed, stray = None
          PROVE  metadata.adapter = Activation!Answering
      <4>1. slot \in {None, lora_request}
        BY <1>1, <3>2 DEF ActivationInv, OneAtATime, Resting
      <4>2. metadata.adapter = lora_request
        BY <2>1, RegistrySound, Identified DEF Agreed
      <4>. QED
        BY <4>1, <4>2 DEF Activation!Answering, Activation!Register
    <3>. QED
      BY <3>1, <3>2 DEF Activation!AnswersAsBuilt
  <2>. QED
    BY <1>1, <2>2, <2>3 DEF Activation!Next
<1>2. ActivationInv /\ [Activation!Next]_(Activation!activationVars)
        => [\A s \in Sessions : Activation!AnswersAsBuilt(s)]_(Activation!activationVars)
  BY <1>1
<1>. QED
  BY <1>2, ActivationKept, PTL DEF Activation!Spec, SessionKeepsItsModel, Activation!SessionKeepsItsModel

-----------------------------------------------------------------------------
\* The review of replay candidates.

ReviewLines ==
  [candidate : ReviewCandidates \cup {None}, decision : Decisions \cup {None}]

ReviewTyped ==
  /\ failed \subseteq ReviewCandidates /\ mined \subseteq ReviewCandidates
  /\ reviews \in Seq(ReviewLines)
  /\ tool \in ReviewLines
  /\ acked \in [ReviewCandidates -> Decisions \cup {None}]
  /\ durable \in [ReviewCandidates -> SUBSET (Decisions \cup {None})]

\* What the store shows is inductive with the types: a file that can be read
\* after a write could be read before it.
ReviewInv == ReviewTyped /\ Replay!ShowsLastDecision

\* Every line of the file is whole and about one of these candidates.
AllAccepted(file, known) ==
  \A i \in DOMAIN file : file[i] # Replay!Garbage /\ file[i].candidate \in known

\* A file that can be read after a write was closed and readable before it.
LEMMA AppendedReadable ==
  ASSUME ReviewTyped, NEW line \in ReviewLines, NEW file, file = Replay!Appended(line)
  PROVE  /\ file \in Seq(ReviewLines)
         /\ AllAccepted(file, mined) =>
              /\ closed /\ Replay!Readable /\ Replay!Accepts(line)
              /\ file = Append(reviews, line)
<1>1. Replay!Garbage \in ReviewLines
  BY DEF Replay!Garbage, ReviewLines
<1>2. reviews \in Seq(ReviewLines) /\ Len(reviews) \in Nat
  BY DEF ReviewTyped
<1>3. CASE closed
  <2>1. file = Append(reviews, line)
    BY <1>3 DEF Replay!Appended
  <2>2. /\ file \in Seq(ReviewLines) /\ Len(file) = Len(reviews) + 1
        /\ \A i \in 1..Len(reviews) : file[i] = reviews[i]
        /\ file[Len(reviews) + 1] = line
    BY <1>2, <2>1, AppendProperties
  <2>3. ASSUME AllAccepted(file, mined)
        PROVE  Replay!Readable /\ Replay!Accepts(line)
    <3>1. DOMAIN file = 1..(Len(reviews) + 1) /\ DOMAIN reviews = 1..Len(reviews)
      BY <1>2, <2>2
    <3>2. Replay!Accepts(line)
      BY <1>2, <2>2, <2>3, <3>1 DEF AllAccepted, Replay!Accepts
    <3>3. Replay!Readable
      BY <1>2, <2>2, <2>3, <3>1 DEF AllAccepted, Replay!Accepts, Replay!Readable
    <3>. QED
      BY <3>2, <3>3
  <2>. QED
    BY <1>3, <2>1, <2>2, <2>3
<1>4. CASE ~closed
  <2>1. PICK kept : kept = SubSeq(reviews, 1, Len(reviews) - 1)
    OBVIOUS
  <2>2. kept \in Seq(ReviewLines)
    BY <1>2, <2>1
  <2>3. file = Append(kept, Replay!Garbage)
    BY <1>4, <2>1 DEF Replay!Appended
  <2>4. file \in Seq(ReviewLines) /\ Len(file) = Len(kept) + 1 /\ file[Len(kept) + 1] = Replay!Garbage
    BY <1>1, <2>2, <2>3, AppendProperties
  <2>5. Len(kept) + 1 \in DOMAIN file
    BY <2>2, <2>4
  <2>. QED
    BY <2>4, <2>5 DEF AllAccepted
<1>. QED
  BY <1>3, <1>4

\* The last line about a candidate is what is shown for it, and for no other.
LEMMA ShownAfter ==
  ASSUME reviews \in Seq(ReviewLines), NEW line \in ReviewLines, reviews' = Append(reviews, line),
         NEW c \in ReviewCandidates
  PROVE  Replay!Shown(c)' = IF line.candidate = c THEN line.decision ELSE Replay!Shown(c)
<1>1. PICK n : n = Len(reviews) + 1
  OBVIOUS
<1>2. /\ n \in Nat /\ Len(reviews') = n /\ DOMAIN reviews' = 1..n
      /\ DOMAIN reviews = 1..(n - 1) /\ Len(reviews) = n - 1
      /\ reviews'[n] = line
      /\ \A i \in 1..(n - 1) : reviews'[i] = reviews[i]
  BY <1>1
<1>3. CASE line.candidate = c
  <2>1. Replay!LastOf(c)' = {n}
    BY <1>2, <1>3 DEF Replay!LastOf
  <2>. QED
    BY <1>2, <1>3, <2>1 DEF Replay!Shown
<1>4. CASE line.candidate # c
  <2>1. ASSUME NEW i
        PROVE  i \in Replay!LastOf(c)' <=> i \in Replay!LastOf(c)
    BY <1>2, <1>4 DEF Replay!LastOf
  <2>2. Replay!LastOf(c)' = Replay!LastOf(c)
    BY <2>1
  <2>3. \A i \in Replay!LastOf(c) : reviews'[i] = reviews[i]
    BY <1>2 DEF Replay!LastOf
  <2>4. CASE Replay!LastOf(c) = {}
    BY <1>4, <2>2, <2>4 DEF Replay!Shown
  <2>5. CASE Replay!LastOf(c) # {}
    <3>1. PICK i : i = CHOOSE k \in Replay!LastOf(c) : TRUE
      OBVIOUS
    <3>2. i \in Replay!LastOf(c)
      BY <2>5, <3>1
    <3>3. Replay!Shown(c) = reviews[i].decision
      BY <2>5, <3>1 DEF Replay!Shown
    <3>4. Replay!Shown(c)' = reviews'[i].decision
      BY <2>2, <2>5, <3>1 DEF Replay!Shown
    <3>. QED
      BY <1>4, <2>3, <3>2, <3>3, <3>4
  <2>. QED
    BY <2>4, <2>5
<1>. QED
  BY <1>3, <1>4

\* A line that was written whole is either unreadable or shown, and whoever wrote
\* it is on record.
LEMMA WholeLineShown ==
  ASSUME ReviewInv, NEW line \in ReviewLines, reviews' = Replay!Appended(line), mined' = mined,
         Replay!Readable',
         \A c \in ReviewCandidates :
           IF line.candidate = c THEN line.decision \in {acked'[c]} \cup durable'[c]
           ELSE acked'[c] = acked[c] /\ durable'[c] = durable[c]
  PROVE  \A c \in mined : Replay!Shown(c)' \in {acked'[c]} \cup durable'[c]
<1>1. PICK file : file = Replay!Appended(line)
  OBVIOUS
<1>2. AllAccepted(file, mined)
  BY <1>1 DEF AllAccepted, Replay!Readable, Replay!Accepts
<1>3. Replay!Readable /\ reviews' = Append(reviews, line)
  BY <1>1, <1>2, AppendedReadable DEF ReviewInv
<1>4. ASSUME NEW c \in mined
      PROVE  Replay!Shown(c)' \in {acked'[c]} \cup durable'[c]
  <2>. c \in ReviewCandidates
    BY DEF ReviewInv, ReviewTyped
  <2>1. Replay!Shown(c)' = IF line.candidate = c THEN line.decision ELSE Replay!Shown(c)
    BY <1>3, ShownAfter DEF ReviewInv, ReviewTyped
  <2>2. Replay!Shown(c) \in {acked[c]} \cup durable[c]
    BY <1>3 DEF ReviewInv, Replay!ShowsLastDecision
  <2>3. CASE line.candidate = c
    BY <2>1, <2>3
  <2>4. CASE line.candidate # c
    BY <2>1, <2>2, <2>4
  <2>. QED
    BY <2>3, <2>4
<1>. QED
  BY <1>4

\* A file that ends with text that is no line is not read.
LEMMA GarbageUnread ==
  ASSUME ReviewTyped, reviews' = Replay!Appended(Replay!Garbage), mined' = mined
  PROVE  reviews' \in Seq(ReviewLines) /\ ~Replay!Readable'
<1>1. Replay!Garbage \in ReviewLines
  BY DEF Replay!Garbage, ReviewLines
<1>2. PICK file : file = Replay!Appended(Replay!Garbage)
  OBVIOUS
<1>3. file \in Seq(ReviewLines) /\ ~AllAccepted(file, mined)
  BY <1>1, <1>2, AppendedReadable DEF Replay!Accepts
<1>. QED
  BY <1>2, <1>3 DEF AllAccepted, Replay!Readable, Replay!Accepts

\* What a sequence holds after one more line was appended to it.
LEMMA NewLine ==
  ASSUME ReviewTyped, NEW c \in ReviewCandidates, NEW d \in Decisions
  PROVE  /\ Replay!Line(c, d) \in ReviewLines
         /\ Replay!Line(c, d).candidate = c
         /\ Replay!Line(c, d).decision = d
  BY DEF Replay!Line, ReviewLines

\* A review through the service appends a decision and reports it.
LEMMA ReviewKeeps ==
  ASSUME ReviewInv, NEW c \in ReviewCandidates, NEW d \in Decisions, Replay!Review(c, d)
  PROVE  ReviewInv'
<1>1. PICK line : line = Replay!Line(c, d)
  OBVIOUS
<1>2. line \in ReviewLines /\ line.candidate = c /\ line.decision = d
  BY <1>1, NewLine DEF ReviewInv
<1>3. /\ reviews' = Replay!Appended(line) /\ UNCHANGED <<failed, mined, tool>>
      /\ acked' = [acked EXCEPT ![c] = d] /\ durable' = [durable EXCEPT ![c] = {}]
  BY <1>1 DEF Replay!Review
<1>4. ReviewTyped'
  <2>1. reviews' \in Seq(ReviewLines)
    BY <1>2, <1>3, AppendedReadable DEF ReviewInv
  <2>. QED
    BY <1>3, <2>1 DEF ReviewInv, ReviewTyped
<1>5. \A e \in ReviewCandidates :
        IF line.candidate = e THEN line.decision \in {acked'[e]} \cup durable'[e]
        ELSE acked'[e] = acked[e] /\ durable'[e] = durable[e]
  BY <1>2, <1>3 DEF ReviewInv, ReviewTyped
<1>6. Replay!ShowsLastDecision'
  BY <1>2, <1>3, <1>5, WholeLineShown DEF Replay!ShowsLastDecision
<1>. QED
  BY <1>4, <1>6 DEF ReviewInv

\* A process that dies in its append leaves no line, or one that nobody reported.
LEMMA TornKeeps ==
  ASSUME ReviewInv, NEW line \in ReviewLines, Replay!TornAppend(line), UNCHANGED <<failed, mined, acked>>, tool' \in ReviewLines
  PROVE  ReviewInv'
<1>1. CASE reviews' = Replay!Appended(Replay!Garbage) /\ UNCHANGED durable
  <2>1. reviews' \in Seq(ReviewLines) /\ ~Replay!Readable'
    BY <1>1, GarbageUnread DEF ReviewInv
  <2>2. ReviewTyped'
    BY <1>1, <2>1 DEF ReviewInv, ReviewTyped
  <2>. QED
    BY <2>1, <2>2 DEF ReviewInv, Replay!ShowsLastDecision
<1>2. CASE /\ reviews' = Replay!Appended(line)
           /\ durable' = IF closed /\ line.candidate \in mined
                         THEN [durable EXCEPT ![line.candidate] = @ \cup {line.decision}] ELSE durable
  <2>1. PICK file : file = Replay!Appended(line)
    OBVIOUS
  <2>2. /\ file \in Seq(ReviewLines)
        /\ AllAccepted(file, mined) => closed /\ Replay!Readable /\ Replay!Accepts(line)
    BY <2>1, AppendedReadable DEF ReviewInv
  <2>3. ReviewTyped'
    <3>1. line.decision \in Decisions \cup {None}
      BY DEF ReviewLines
    <3>2. durable' \in [ReviewCandidates -> SUBSET (Decisions \cup {None})]
      BY <1>2, <3>1 DEF ReviewInv, ReviewTyped
    <3>. QED
      BY <1>2, <2>1, <2>2, <3>2 DEF ReviewInv, ReviewTyped
  <2>4. ASSUME Replay!Readable'
        PROVE  \A c \in mined : Replay!Shown(c)' \in {acked'[c]} \cup durable'[c]
    <3>1. AllAccepted(file, mined)
      BY <1>2, <2>1, <2>4 DEF AllAccepted, Replay!Readable, Replay!Accepts
    <3>2. durable' = [durable EXCEPT ![line.candidate] = @ \cup {line.decision}]
      BY <1>2, <2>2, <3>1 DEF Replay!Accepts
    <3>3. \A c \in ReviewCandidates :
            IF line.candidate = c THEN line.decision \in {acked'[c]} \cup durable'[c]
            ELSE acked'[c] = acked[c] /\ durable'[c] = durable[c]
      BY <3>2 DEF ReviewInv, ReviewTyped
    <3>. QED
      BY <1>2, <2>4, <3>3, WholeLineShown
  <2>. QED
    BY <2>3, <2>4 DEF ReviewInv, Replay!ShowsLastDecision
<1>. QED
  BY <1>1, <1>2 DEF Replay!TornAppend

\* A writer that dies within its append leaves a whole line, a torn one or none.
LEMMA ReviewDiesKeeps ==
  ASSUME ReviewInv, NEW c \in ReviewCandidates, NEW d \in Decisions, Replay!ReviewDies(c, d)
  PROVE  ReviewInv'
<1>1. PICK line : line = Replay!Line(c, d)
  OBVIOUS
<1>2. line \in ReviewLines
  BY <1>1, NewLine DEF ReviewInv
<1>3. Replay!TornAppend(line) /\ UNCHANGED <<failed, mined, acked>> /\ tool' \in ReviewLines
  BY <1>1 DEF Replay!ReviewDies, ReviewInv, ReviewTyped
<1>. QED
  BY <1>2, <1>3, TornKeeps

\* Without a write nothing else is shown.
LEMMA UntouchedShown ==
  ASSUME Replay!ShowsLastDecision, UNCHANGED <<mined, reviews, acked, durable>>
  PROVE  Replay!ShowsLastDecision'
<1>1. Replay!Readable' <=> Replay!Readable
  BY DEF Replay!Readable, Replay!Accepts
<1>2. ASSUME NEW c \in mined
      PROVE  Replay!Shown(c)' = Replay!Shown(c)
  <2>1. Replay!LastOf(c)' = Replay!LastOf(c)
    BY DEF Replay!LastOf
  <2>. QED
    BY <2>1 DEF Replay!Shown
<1>. QED
  BY <1>1, <1>2 DEF Replay!ShowsLastDecision

\* The command line tool reads the file and composes the line of its decision.
LEMMA ToolReadsKeeps ==
  ASSUME ReviewInv, NEW c \in ReviewCandidates, NEW d \in Decisions, Replay!ToolReads(c, d)
  PROVE  ReviewInv'
<1>1. tool' \in ReviewLines /\ UNCHANGED <<failed, mined, reviews, acked, durable>>
  BY NewLine DEF Replay!ToolReads, ReviewInv
<1>2. ReviewTyped'
  BY <1>1 DEF ReviewInv, ReviewTyped
<1>3. Replay!ShowsLastDecision'
  BY <1>1, UntouchedShown DEF ReviewInv
<1>. QED
  BY <1>2, <1>3 DEF ReviewInv

\* The tool appends what it made of the directory it read, which may be gone.
LEMMA ToolAppendsKeeps == ASSUME ReviewInv, Replay!ToolAppends PROVE ReviewInv'
<1>1. /\ tool \in ReviewLines /\ Replay!Idle \in ReviewLines
      /\ tool' = Replay!Idle /\ UNCHANGED <<failed, mined>>
  BY DEF ReviewInv, ReviewTyped, Replay!ToolAppends, Replay!Idle, Replay!Garbage, ReviewLines
<1>2. CASE Replay!TornAppend(tool) /\ UNCHANGED acked
  BY <1>1, <1>2, TornKeeps
<1>3. CASE /\ reviews' = Replay!Appended(tool)
           /\ IF tool.candidate \in mined
              THEN /\ acked' = [acked EXCEPT ![tool.candidate] = tool.decision]
                   /\ durable' = [durable EXCEPT ![tool.candidate] = {}]
              ELSE UNCHANGED <<acked, durable>>
  <2>1. PICK file : file = Replay!Appended(tool)
    OBVIOUS
  <2>2. /\ file \in Seq(ReviewLines)
        /\ AllAccepted(file, mined) => Replay!Accepts(tool)
    BY <1>1, <2>1, AppendedReadable DEF ReviewInv
  <2>3. ReviewTyped'
    <3>1. tool.decision \in Decisions \cup {None}
      BY <1>1 DEF ReviewLines
    <3>2. /\ acked' \in [ReviewCandidates -> Decisions \cup {None}]
          /\ durable' \in [ReviewCandidates -> SUBSET (Decisions \cup {None})]
      BY <1>3, <3>1 DEF ReviewInv, ReviewTyped
    <3>. QED
      BY <1>1, <1>3, <2>1, <2>2, <3>2 DEF ReviewInv, ReviewTyped
  <2>4. ASSUME Replay!Readable'
        PROVE  \A c \in mined : Replay!Shown(c)' \in {acked'[c]} \cup durable'[c]
    <3>1. AllAccepted(file, mined)
      BY <1>1, <1>3, <2>1, <2>4 DEF AllAccepted, Replay!Readable, Replay!Accepts
    <3>2. /\ acked' = [acked EXCEPT ![tool.candidate] = tool.decision]
          /\ durable' = [durable EXCEPT ![tool.candidate] = {}]
      BY <1>3, <2>2, <3>1 DEF Replay!Accepts
    <3>3. \A c \in ReviewCandidates :
            IF tool.candidate = c THEN tool.decision \in {acked'[c]} \cup durable'[c]
            ELSE acked'[c] = acked[c] /\ durable'[c] = durable[c]
      BY <3>2 DEF ReviewInv, ReviewTyped
    <3>. QED
      BY <1>1, <1>3, <2>4, <3>3, WholeLineShown
  <2>. QED
    BY <1>1, <2>3, <2>4 DEF ReviewInv, Replay!ShowsLastDecision
<1>. QED
  BY <1>2, <1>3 DEF Replay!ToolAppends

\* A session fails, which touches no file.
LEMMA SessionFailsKeeps ==
  ASSUME ReviewInv, NEW c \in ReviewCandidates, Replay!SessionFails(c)
  PROVE  ReviewInv'
<1>1. failed' = failed \cup {c} /\ UNCHANGED <<mined, reviews, tool, acked, durable>>
  BY DEF Replay!SessionFails
<1>2. ReviewTyped'
  BY <1>1 DEF ReviewInv, ReviewTyped
<1>3. Replay!ShowsLastDecision'
  BY <1>1, UntouchedShown DEF ReviewInv
<1>. QED
  BY <1>2, <1>3 DEF ReviewInv

\* A new mining starts with an empty file.
LEMMA MineKeeps == ASSUME ReviewInv, Replay!Mine PROVE ReviewInv'
<1>1. /\ mined' \subseteq failed /\ failed' = failed /\ reviews' = <<>> /\ tool' = tool
      /\ acked' = [c \in ReviewCandidates |-> None] /\ durable' = [c \in ReviewCandidates |-> {}]
  BY DEF Replay!Mine
<1>2. ReviewTyped'
  <2>1. <<>> \in Seq(ReviewLines)
    OBVIOUS
  <2>. QED
    BY <1>1, <2>1 DEF ReviewInv, ReviewTyped
<1>3. \A c \in mined' : Replay!Shown(c)' = None
    /\ c \in ReviewCandidates
  BY <1>1 DEF Replay!Shown, Replay!LastOf, ReviewInv, ReviewTyped
<1>. QED
  BY <1>1, <1>2, <1>3 DEF ReviewInv, Replay!ShowsLastDecision

\* Whoever wrote, died or mined in between, the store shows the last decision
\* reported since the directory was mined, one written by a process that died before
\* it could report it, or nothing at all (replay.py _state, review).
THEOREM ReviewsShowLastDecision == Replay!Spec => []ShowsLastDecision
<1>1. Replay!Init => ReviewInv
  <2>. SUFFICES ASSUME Replay!Init PROVE ReviewInv
    OBVIOUS
  <2>1. <<>> \in Seq(ReviewLines) /\ Replay!Idle \in ReviewLines
    BY DEF Replay!Idle, Replay!Garbage, ReviewLines
  <2>2. ReviewTyped
    BY <2>1 DEF Replay!Init, ReviewTyped
  <2>3. \A c \in mined : Replay!Shown(c) = None /\ c \in ReviewCandidates
    BY DEF Replay!Init, Replay!Shown, Replay!LastOf
  <2>. QED
    BY <2>2, <2>3 DEF Replay!Init, ReviewInv, Replay!ShowsLastDecision
<1>2. ReviewInv /\ [Replay!Next]_(Replay!reviewVars) => ReviewInv'
  <2>. SUFFICES ASSUME ReviewInv, [Replay!Next]_(Replay!reviewVars)
                PROVE  ReviewInv'
    OBVIOUS
  <2>1. CASE UNCHANGED Replay!reviewVars
    <3>1. ReviewTyped'
      BY <2>1 DEF Replay!reviewVars, ReviewInv, ReviewTyped
    <3>2. Replay!ShowsLastDecision'
      BY <2>1, UntouchedShown DEF Replay!reviewVars, ReviewInv
    <3>. QED
      BY <3>1, <3>2 DEF ReviewInv
  <2>2. CASE Replay!Next
    BY <2>2, ReviewKeeps, ReviewDiesKeeps, ToolReadsKeeps, ToolAppendsKeeps, SessionFailsKeeps, MineKeeps
       DEF Replay!Next
  <2>. QED
    BY <2>1, <2>2
<1>3. ReviewInv => ShowsLastDecision
  BY DEF ReviewInv, ShowsLastDecision
<1>. QED
  BY <1>1, <1>2, <1>3, PTL DEF Replay!Spec

-----------------------------------------------------------------------------
\* The lineage of the databases.

\* What each split says of the one it was made from.
LineageInv ==
  /\ datasetV2 # None =>
       /\ Lineage!Disjoint(datasetV2) /\ Frozen \subseteq datasetV2.final
       /\ datasetV2.train \cup datasetV2.held \cup datasetV2.final \subseteq TaskDatabases
  /\ stage6 # None =>
       /\ datasetV2 # None /\ Lineage!Disjoint(stage6)
       /\ stage6.train \subseteq datasetV2.train
  /\ stage7 # None =>
       /\ stage6 # None
       /\ stage7.train \cup stage7.held \cup stage7.final \subseteq stage6.train
  /\ scaleup # None =>
       /\ datasetV2 # None /\ Lineage!Disjoint(scaleup)
       /\ datasetV2.train \subseteq scaleup.train
       /\ scaleup.train \cap (datasetV2.held \cup datasetV2.final) = {}
  /\ traced = [db |-> traced.db, reached |-> traced.reached]
  /\ traced.reached # "" => scaleup # None /\ traced.db \in scaleup.train
  /\ traced.reached = "" => traced.db = None

\* Whatever way the databases of a set are assigned, they stay in the set.
LEMMA AssignedWithin ==
  ASSUME NEW databases, NEW split \in Lineage!Assignments(databases)
  PROVE  split.train \cup split.held \cup split.final \subseteq databases
  BY DEF Lineage!Assignments

\* What a stratified allocation takes comes from the databases it was offered.
LEMMA StratifiedWithin ==
  ASSUME NEW databases, NEW train, NEW tune, NEW denominator,
         NEW split \in Lineage!Stratified(databases, train, tune, denominator)
  PROVE  /\ split.train \cup split.held \cup split.final \subseteq databases
         /\ Lineage!Disjoint(split)
  BY AssignedWithin DEF Lineage!Stratified

\* The scripts that split databases keep what is held out away from training.
LEMMA SplitsKeep ==
  ASSUME LineageInv, Lineage!SplitDatasetV2 \/ Lineage!SplitStage6 \/ Lineage!BuildStage7
  PROVE  LineageInv'
<1>1. CASE Lineage!SplitDatasetV2
  <2>1. /\ datasetV2 = None /\ UNCHANGED <<stage6, stage7, scaleup, traced>>
        /\ Lineage!Disjoint(datasetV2') /\ Frozen \subseteq datasetV2'.final
        /\ datasetV2'.train \cup datasetV2'.held \cup datasetV2'.final \subseteq TaskDatabases
    BY <1>1, AssignedWithin DEF Lineage!SplitDatasetV2
  <2>. QED
    BY <2>1 DEF LineageInv, Lineage!Disjoint
<1>2. CASE Lineage!SplitStage6
  <2>1. /\ datasetV2 # None /\ stage6 = None /\ UNCHANGED <<datasetV2, stage7, scaleup, traced>>
        /\ Lineage!Disjoint(stage6') /\ stage6'.train \subseteq datasetV2.train
    BY <1>2, StratifiedWithin DEF Lineage!SplitStage6
  <2>. QED
    BY <2>1 DEF LineageInv, Lineage!Disjoint
<1>3. CASE Lineage!BuildStage7
  <2>1. /\ stage6 # None /\ UNCHANGED <<datasetV2, stage6, scaleup, traced>>
        /\ stage7'.train \cup stage7'.held \cup stage7'.final \subseteq stage6.train
    BY <1>3, StratifiedWithin DEF Lineage!BuildStage7
  <2>. QED
    BY <2>1 DEF LineageInv, Lineage!Disjoint
<1>. QED
  BY <1>1, <1>2, <1>3

\* Sets that a bijection from 1..n enumerates: the counts of an instance are those of
\* the standard module.
LEMMA Counted == \A S : Lineage!Cardinality(S) = Cardinality(S)
  BY Zenon DEF Lineage!Cardinality, Cardinality

LEMMA TogetherCounted ==
  ASSUME NEW S, NEW T, IsFiniteSet(S), IsFiniteSet(T), S \cap T = {}
  PROVE  IsFiniteSet(S \cup T) /\ Cardinality(S \cup T) = Cardinality(S) + Cardinality(T)
<1>1. Cardinality(S \cap T) = 0 /\ Cardinality(S) \in Nat /\ Cardinality(T) \in Nat
  BY FS_EmptySet, FS_CardinalityType
<1>2. /\ IsFiniteSet(S \cup T)
      /\ Cardinality(S \cup T) = Cardinality(S) + Cardinality(T) - Cardinality(S \cap T)
  BY FS_Union, Zenon
<1>. QED
  BY <1>1, <1>2

\* Parts of the expected sizes leave no room for a database of the tasks: whatever the
\* list names, nothing that is neither trained on nor listed is one of them.
LEMMA FreshOutside ==
  ASSUME NEW fresh \in SUBSET Lineage!Unused, NEW tune \in SUBSET (Lineage!Unused \ fresh),
         Lineage!AsCounted(fresh, tune), datasetV2.train \subseteq TaskDatabases
  PROVE  Lineage!Unused \cap TaskDatabases = {}
<1>. DEFINE others == LocalDatabases \ TaskDatabases
            final == (Lineage!Unused \ fresh) \ tune
<1>1. /\ HistoricalReserved \subseteq TaskDatabases /\ TaskDatabases \subseteq LocalDatabases
      /\ Lineage!IsFiniteSet(LocalDatabases)
      /\ FreshTrain \in Nat /\ FreshTune \in Nat /\ FreshBlind \in Nat
      /\ Cardinality(others) = FreshTrain + FreshTune + FreshBlind
  BY DatabasesSound, Counted DEF Lineage!LineageAssumption
<1>2. IsFiniteSet(LocalDatabases)
  BY <1>1, Zenon DEF Lineage!IsFiniteSet, IsFiniteSet
<1>3. others \subseteq Lineage!Unused /\ Lineage!Unused \subseteq LocalDatabases
  BY <1>1 DEF Lineage!Unused
<1>4. IsFiniteSet(Lineage!Unused)
  BY <1>2, <1>3, FS_Subset
<1>5. /\ IsFiniteSet(fresh) /\ IsFiniteSet(tune) /\ IsFiniteSet(final)
      /\ fresh \cap tune = {} /\ (fresh \cup tune) \cap final = {}
      /\ Lineage!Unused = (fresh \cup tune) \cup final
  BY <1>4, FS_Subset
<1>6. /\ Cardinality(fresh) = FreshTrain /\ Cardinality(tune) = FreshTune
      /\ Cardinality(final) = FreshBlind
  BY Counted DEF Lineage!AsCounted, Lineage!FreshTaken
<1>. HIDE DEF final, others
<1>7. IsFiniteSet(fresh \cup tune) /\ Cardinality(fresh \cup tune) = FreshTrain + FreshTune
  BY <1>1, <1>5, <1>6, TogetherCounted
<1>8. Cardinality(Lineage!Unused) = FreshTrain + FreshTune + FreshBlind
  BY <1>1, <1>5, <1>6, <1>7, TogetherCounted
<1>9. others = Lineage!Unused
  BY <1>1, <1>3, <1>4, <1>8, FS_Subset
<1>. QED
  BY <1>9 DEF others

\* The fresh databases were in no part of Dataset V2.
LEMMA ScaleupKeeps == ASSUME LineageInv, Lineage!AllocateScaleup PROVE LineageInv'
<1>1. PICK fresh \in SUBSET Lineage!Unused : \E tune \in SUBSET (Lineage!Unused \ fresh) :
        /\ Lineage!AsCounted(fresh, tune)
        /\ scaleup'.train = datasetV2.train \cup fresh
        /\ Lineage!Disjoint(scaleup')
  BY DEF Lineage!AllocateScaleup
<1>2. datasetV2 # None /\ scaleup = None /\ UNCHANGED <<datasetV2, stage6, stage7, traced>>
  BY DEF Lineage!AllocateScaleup
<1>3. Lineage!Unused \cap TaskDatabases = {}
  BY <1>1, <1>2, FreshOutside DEF LineageInv
<1>4. scaleup'.train \cap (datasetV2.held \cup datasetV2.final) = {}
  BY <1>1, <1>2, <1>3 DEF LineageInv, Lineage!Disjoint
<1>5. scaleup'.train = datasetV2.train \cup fresh /\ Lineage!Disjoint(scaleup')
  BY <1>1
<1>. QED
  BY <1>2, <1>4, <1>5 DEF LineageInv, Lineage!Disjoint

\* The scripts that build training data draw from the databases of their split.
LEMMA TasksKeep ==
  ASSUME LineageInv, Lineage!SelectPool \/ Lineage!SelectSupplement \/ Lineage!MineFailures
  PROVE  LineageInv'
<1>1. UNCHANGED <<datasetV2, stage6, stage7, scaleup>>
  BY DEF Lineage!SelectPool, Lineage!SelectSupplement, Lineage!MineFailures
<1>2. scaleup # None /\ traced' = [db |-> traced'.db, reached |-> traced'.reached]
      /\ traced'.db \in scaleup.train /\ traced'.reached # ""
  <2>1. CASE Lineage!SelectPool
    <3>1. PICK db \in scaleup.train : traced' = [db |-> db, reached |-> "pool"]
      BY <2>1 DEF Lineage!SelectPool
    <3>. QED
      BY <2>1, <3>1 DEF Lineage!SelectPool
  <2>2. ASSUME NEW set \in {"supplement", "recovery"}, traced' = [traced EXCEPT !.reached = set],
               traced.reached # ""
        PROVE  /\ traced' = [db |-> traced.db, reached |-> set]
               /\ scaleup # None /\ traced.db \in scaleup.train
    BY <2>2 DEF LineageInv
  <2>3. CASE Lineage!SelectSupplement
    BY <2>3, <2>2 DEF Lineage!SelectSupplement
  <2>4. CASE Lineage!MineFailures
    BY <2>4, <2>2 DEF Lineage!MineFailures
  <2>. QED
    BY <2>1, <2>3, <2>4
<1>3. LineageInv!1 /\ LineageInv!2 /\ LineageInv!3 /\ LineageInv!4
  BY DEF LineageInv
<1>. QED
  BY <1>1, <1>2, <1>3 DEF LineageInv, Lineage!Disjoint

\* The frozen databases, dev and test, and the blind set, reach no training data of
\* Stage 6, Stage 7 and the scale-up, even when the scale-up's list of dev and test was
\* written for another split (build_p6_scaleup_protocol.py, allocate_databases).
THEOREM LineageStaysIsolated == Lineage!Spec => []LineageIsolated
<1>1. Lineage!Init => LineageInv
  <2>. SUFFICES ASSUME Lineage!Init PROVE LineageInv
    OBVIOUS
  <2>1. traced = [db |-> None, reached |-> ""] /\ traced.db = None /\ traced.reached = ""
    BY DEF Lineage!Init
  <2>. QED
    BY <2>1 DEF Lineage!Init, LineageInv
<1>2. LineageInv /\ [Lineage!Next]_(Lineage!vars) => LineageInv'
  <2>. SUFFICES ASSUME LineageInv, [Lineage!Next]_(Lineage!vars)
                PROVE  LineageInv'
    OBVIOUS
  <2>1. CASE UNCHANGED Lineage!vars \/ Lineage!RunStage6Gate
    <3>1. UNCHANGED <<datasetV2, stage6, stage7, scaleup, traced>>
      BY <2>1 DEF Lineage!vars, Lineage!RunStage6Gate
    <3>. QED
      BY <3>1 DEF LineageInv, Lineage!Disjoint
  <2>. QED
    BY <2>1, SplitsKeep, ScaleupKeeps, TasksKeep DEF Lineage!Next
<1>3. LineageInv => LineageIsolated
  <2>. SUFFICES ASSUME LineageInv PROVE LineageIsolated
    OBVIOUS
  <2>1. ASSUME datasetV2 # None
        PROVE  Lineage!Trained \cap (datasetV2.held \cup datasetV2.final \cup Frozen) = {}
    BY <2>1 DEF LineageInv, Lineage!Trained, Lineage!Part, Lineage!Disjoint
  <2>2. Lineage!Trained \cap Lineage!Part(scaleup, "final") = {}
    BY DEF LineageInv, Lineage!Trained, Lineage!Part, Lineage!Disjoint
  <2>3. ASSUME stage7 # None
        PROVE  (stage7.train \cup stage7.held \cup stage7.final)
                 \cap (stage6.held \cup stage6.final) = {}
    BY <2>3 DEF LineageInv, Lineage!Disjoint
  <2>. QED
    BY <2>1, <2>2, <2>3 DEF LineageIsolated, Lineage!LineageIsolated
<1>. QED
  BY <1>1, <1>2, <1>3, PTL DEF Lineage!Spec
-----------------------------------------------------------------------------
(* The translation of questions. *)

Unspelt(literals) == \A i \in DOMAIN literals : Translator!SpeltLater(literals, i) = {}
Drafted(literals, draft) == draft \in Translator!Drafts(Len(literals)) /\ Translator!Complete(draft)

\* An answer holds the literals of its question as they were, or as they were put
\* back into a draft that has every placeholder once.
Kept(r) ==
  \/ answer[r].standing = Translator!Plainly(text[r].literals)
  \/ \E draft : /\ Drafted(text[r].literals, draft)
                /\ answer[r].standing = Translator!Restored(text[r].literals, draft)

TranslationInv ==
  /\ text \in [TranslationRequests -> Translator!Questions]
  /\ DOMAIN answer = TranslationRequests /\ DOMAIN progress = TranslationRequests
  /\ \A r \in TranslationRequests : progress[r] = "answered" => Kept(r)

\* No literal lies within another.
LEMMA PathsUnspelt ==
  ASSUME NEW m \in Nat, NEW literals \in [1..m -> Literals], Unspelt(literals)
  PROVE  Translator!Paths(literals) = {<<i>> : i \in 1..m}
<1>1. DOMAIN literals = 1..m /\ Len(literals) = m
  OBVIOUS
<1>2. ASSUME NEW path \in Translator!Paths(literals)
      PROVE  \E i \in 1..m : path = <<i>>
  <2>1. /\ path \in Translator!SeqOf(1..m, m) /\ path # <<>>
        /\ \A k \in 1..(Len(path) - 1) : path[k + 1] \in Translator!SpeltLater(literals, path[k])
    BY <1>1, <1>2 DEF Translator!Paths
  <2>2. PICK n \in 0..m : path \in [1..n -> 1..m]
    BY <2>1 DEF Translator!SeqOf
  <2>3. Len(path) = n /\ n # 0
    BY <2>1, <2>2
  <2>4. n = 1
    <3>1. SUFFICES ASSUME n > 1
                   PROVE  FALSE
      BY <2>2, <2>3
    <3>2. path[1] \in 1..m /\ path[2] \in Translator!SpeltLater(literals, path[1])
      BY <2>1, <2>2, <2>3, <3>1
    <3>. QED
      BY <1>1, <3>2, Zenon DEF Unspelt
  <2>. QED
    BY <2>2, <2>4
<1>3. ASSUME NEW i \in 1..m
      PROVE  <<i>> \in Translator!Paths(literals)
  <2>1. <<i>> \in [1..1 -> 1..m] /\ 1 \in 0..m
    OBVIOUS
  <2>2. <<i>> \in Translator!SeqOf(1..m, m)
    BY <2>1 DEF Translator!SeqOf
  <2>. QED
    BY <1>1, <2>2 DEF Translator!Paths
<1>. QED
  BY <1>2, <1>3

\* So each stands once, where its placeholder stood, but for one that was stripped.
LEMMA StandsOnce ==
  ASSUME NEW m \in Nat, NEW literals \in [1..m -> Literals], Unspelt(literals),
         NEW draft, Drafted(literals, draft), NEW i \in 1..m
  PROVE  {spot \in Translator!Restored(literals, draft) : Translator!Last(spot.path) = i}
           = IF i = draft.last /\ literals[i] \in EndQuoted THEN {} ELSE {[path |-> <<i>>, copy |-> 1]}
<1>1. DOMAIN literals = 1..m /\ Len(literals) = m
  OBVIOUS
<1>2. /\ DOMAIN draft.count = 1..m /\ \A j \in 1..m : draft.count[j] = 1
  BY <1>1 DEF Drafted, Translator!Drafts, Translator!Complete
<1>3. Translator!Paths(literals) = {<<j>> : j \in 1..m}
  BY PathsUnspelt
<1>4. \A j \in 1..m : Translator!Last(<<j>>) = j /\ Head(<<j>>) = j
  BY DEF Translator!Last
<1>5. Translator!Replaced(literals, draft) = {[path |-> <<j>>, copy |-> 1] : j \in 1..m}
  <2>1. ASSUME NEW spot \in Translator!Replaced(literals, draft)
        PROVE  \E j \in 1..m : spot = [path |-> <<j>>, copy |-> 1]
    <3>1. spot \in [path : {<<j>> : j \in 1..m}, copy : 1..2] /\ spot.copy <= draft.count[Head(spot.path)]
      BY <1>3, <2>1 DEF Translator!Replaced
    <3>2. PICK j \in 1..m : spot.path = <<j>>
      BY <3>1
    <3>3. spot.copy = 1
      BY <1>2, <1>4, <3>1, <3>2
    <3>. QED
      BY <3>1, <3>2, <3>3
  <2>2. ASSUME NEW j \in 1..m
        PROVE  [path |-> <<j>>, copy |-> 1] \in Translator!Replaced(literals, draft)
    <3>1. Translator!SpeltLater(literals, Translator!Last(<<j>>)) = {}
      BY <1>1, <1>4, Zenon DEF Unspelt
    <3>. QED
      BY <1>2, <1>3, <1>4, <3>1 DEF Translator!Replaced
  <2>. QED
    BY <2>1, <2>2
<1>6. Translator!Stripped(literals, draft)
        = {[path |-> <<j>>, copy |-> 1] : j \in {k \in 1..m : k = draft.last /\ literals[k] \in EndQuoted}}
  BY <1>1, <1>2 DEF Translator!Stripped
<1>. QED
  BY <1>4, <1>5, <1>6 DEF Translator!Restored

\* A question's literals are the members of a sequence.
LEMMA QuestionLiterals ==
  ASSUME TranslationInv, NEW r \in TranslationRequests
  PROVE  \E m \in Nat : text[r].literals \in [1..m -> Literals]
<1>1. text[r].literals \in Translator!SeqOf(Literals, MaxLiterals)
  BY DEF TranslationInv, Translator!Questions
<1>. QED
  BY <1>1, LiteralsSound DEF Translator!SeqOf, Translator!TranslationAssumption

LEMMA CountNone == Translator!Cardinality({}) = 0 /\ \A x : Translator!Cardinality({x}) = 1
<1>1. \A S : Translator!Cardinality(S) = Cardinality(S)
  BY Zenon DEF Translator!Cardinality, Cardinality
<1>. QED
  BY <1>1, FS_EmptySet, FS_Singleton, Zenon

LEMMA KeptSurvive ==
  TranslationInv => LiteralsSurvive
<1>. SUFFICES ASSUME TranslationInv, NEW r \in TranslationRequests, progress[r] = "answered",
                     Unspelt(text[r].literals)
              PROVE  \E cut \in 0..Len(text[r].literals) :
                       \A i \in DOMAIN text[r].literals :
                         Translator!Cardinality(Translator!Stands(r, i))
                           = IF i = cut /\ text[r].literals[i] \in EndQuoted THEN 0 ELSE 1
  BY Zenon DEF LiteralsSurvive, Translator!LiteralsSurvive, Unspelt
<1>. DEFINE literals == text[r].literals
<1>1. PICK m \in Nat : literals \in [1..m -> Literals]
  BY QuestionLiterals
<1>2. DOMAIN literals = 1..m /\ Len(literals) = m
  BY <1>1
<1>3. CASE answer[r].standing = Translator!Plainly(literals)
  <2>1. ASSUME NEW i \in 1..m
        PROVE  Translator!Stands(r, i) = {[path |-> <<i>>, copy |-> 1]}
    <3>1. \A j \in 1..m : Translator!Last(<<j>>) = j
      BY DEF Translator!Last
    <3>2. answer[r].standing = {[path |-> <<j>>, copy |-> 1] : j \in 1..m}
      BY <1>2, <1>3 DEF Translator!Plainly
    <3>. QED
      BY <3>1, <3>2 DEF Translator!Stands
  <2>2. \A i \in 1..m : Translator!Cardinality(Translator!Stands(r, i)) = 1
    BY <2>1, CountNone, Zenon
  <2>3. 0 \in 0..m /\ \A i \in 1..m : i # 0
    OBVIOUS
  <2>. QED
    BY <1>2, <2>2, <2>3, Zenon
<1>4. ASSUME NEW draft, Drafted(literals, draft),
             answer[r].standing = Translator!Restored(literals, draft)
      PROVE  \E cut \in 0..m : \A i \in 1..m :
               Translator!Cardinality(Translator!Stands(r, i))
                 = IF i = cut /\ literals[i] \in EndQuoted THEN 0 ELSE 1
  <2>1. draft.last \in 0..m
    BY <1>2, <1>4 DEF Drafted, Translator!Drafts
  <2>2. ASSUME NEW i \in 1..m
        PROVE  Translator!Stands(r, i)
                 = IF i = draft.last /\ literals[i] \in EndQuoted THEN {} ELSE {[path |-> <<i>>, copy |-> 1]}
    <3>1. {spot \in Translator!Restored(literals, draft) : Translator!Last(spot.path) = i}
            = IF i = draft.last /\ literals[i] \in EndQuoted THEN {} ELSE {[path |-> <<i>>, copy |-> 1]}
      BY <1>1, <1>4, StandsOnce
    <3>. QED
      BY <1>4, <3>1, Zenon DEF Translator!Stands
  <2>3. ASSUME NEW i \in 1..m
        PROVE  Translator!Cardinality(Translator!Stands(r, i))
                 = IF i = draft.last /\ literals[i] \in EndQuoted THEN 0 ELSE 1
    <3>1. CASE i = draft.last /\ literals[i] \in EndQuoted
      BY <2>2, <3>1, CountNone, Zenon
    <3>2. CASE ~(i = draft.last /\ literals[i] \in EndQuoted)
      BY <2>2, <3>2, CountNone, Zenon
    <3>. QED
      BY <3>1, <3>2
  <2>. QED
    BY <2>1, <2>3
<1>. QED
  BY <1>2, <1>3, <1>4, Zenon DEF TranslationInv, Kept

\* A step answers one request, or none.
LEMMA TranslationSteps ==
  ASSUME TranslationInv, [Translator!Next]_Translator!translationVars
  PROVE  TranslationInv'
<1>1. CASE UNCHANGED Translator!translationVars
  BY <1>1, Zenon DEF TranslationInv, Kept, Translator!translationVars
<1>2. ASSUME NEW r \in TranslationRequests,
             \/ Translator!PassesThrough(r) \/ Translator!Locks(r)
             \/ Translator!Load(r) \/ Translator!Generates(r)
      PROVE  TranslationInv'
  <2>1. text' = text /\ \A other \in TranslationRequests : other # r => progress'[other] = progress[other]
    BY <1>2 DEF TranslationInv, Translator!PassesThrough, Translator!Locks, Translator!Load, Translator!Generates,
      Translator!Moves
  <2>2. /\ DOMAIN answer' = TranslationRequests
        /\ \A other \in TranslationRequests : other # r => answer'[other] = answer[other]
        /\ DOMAIN progress' = TranslationRequests
    BY <1>2 DEF TranslationInv, Translator!PassesThrough, Translator!Locks, Translator!Load,
      Translator!Generates, Translator!Moves
  <2>3. progress'[r] = "answered" => Kept(r)'
    <3>1. CASE Translator!PassesThrough(r)
      <4>1. answer'[r].standing = Translator!Plainly(text[r].literals)
        BY <3>1 DEF Translator!PassesThrough, TranslationInv
      <4>. QED
        BY <2>1, <4>1, Zenon DEF Kept
    <3>2. CASE Translator!Locks(r) \/ Translator!Load(r)
      BY <3>2 DEF TranslationInv, Translator!Locks, Translator!Load, Translator!Moves
    <3>3. CASE Translator!Generates(r)
      <4>1. PICK draft \in Translator!Drafts(Len(text[r].literals)) :
              \/ /\ Translator!Complete(draft)
                 /\ answer' = [answer EXCEPT ![r] =
                      [applied |-> TRUE, standing |-> Translator!Restored(text[r].literals, draft)]]
              \/ Translator!Moves(r, "generating", "refused")
        BY <3>3, Zenon DEF Translator!Generates
      <4>2. CASE Translator!Moves(r, "generating", "refused")
        BY <4>2 DEF TranslationInv, Translator!Moves
      <4>3. CASE /\ Translator!Complete(draft)
                 /\ answer' = [answer EXCEPT ![r] =
                      [applied |-> TRUE, standing |-> Translator!Restored(text[r].literals, draft)]]
        <5>1. answer'[r].standing = Translator!Restored(text[r].literals, draft)
          BY <4>3 DEF TranslationInv
        <5>. QED
          BY <2>1, <4>1, <4>3, <5>1, Zenon DEF Kept, Drafted
      <4>. QED
        BY <4>1, <4>2, <4>3
    <3>. QED
      BY <1>2, <3>1, <3>2, <3>3
  <2>4. \A other \in TranslationRequests : other # r => (progress'[other] = "answered" => Kept(other)')
    BY <2>1, <2>2, Zenon DEF TranslationInv, Kept
  <2>. QED
    BY <2>1, <2>2, <2>3, <2>4, Zenon DEF TranslationInv
<1>. QED
  BY <1>1, <1>2, Zenon DEF Translator!Next

\* Whatever the language model writes, and however loading fails: where no literal
\* spells the placeholder of a later one, an answer has every literal once, but for one
\* that ended in a double quote.
THEOREM LiteralsAlwaysSurvive == Translator!Spec => []LiteralsSurvive
<1>1. Translator!Init => TranslationInv
  <2>. SUFFICES ASSUME Translator!Init
                PROVE  TranslationInv
    OBVIOUS
  <2>1. \A r \in TranslationRequests : progress[r] # "answered"
    BY DEF Translator!Init
  <2>. QED
    BY <2>1 DEF Translator!Init, TranslationInv
<1>2. TranslationInv /\ [Translator!Next]_Translator!translationVars => TranslationInv'
  BY TranslationSteps
<1>. QED
  BY <1>1, <1>2, KeptSurvive, PTL DEF Translator!Spec

-----------------------------------------------------------------------------
\* The generation of the corpus.

GenerationLines ==
  [db : Generation!Databases, variant : Nat, state : {"whole", "unterminated", "garbled"}]

GenerationTyped ==
  /\ rowsFile \in Seq(GenerationLines) /\ rejectedFile \in Seq(GenerationLines)
  /\ rows \in Seq(GenerationLines) /\ variants \in [Generation!Databases -> Nat]
  /\ place \in {"stopped", "failed", "refused", "coverage", "round", "between", "generated"}
  /\ at \in Nat \ {0} /\ written \in Nat /\ runs \in Nat

Generating == place \in {"coverage", "round", "between", "generated"}

Listed == Generation!ToSet(Coverage)

\* Rows of every database of the coverage list, or of some of them only and one each.
AllCovered(file) == \A db \in Listed : \E i \in DOMAIN file : file[i].db = db
OnePerDatabase(file) ==
  /\ \A i \in DOMAIN file : file[i].db \in Listed
  /\ \A i, j \in DOMAIN file : file[i].db = file[j].db => i = j

\* How far a run has come, whatever the files say.
Advanced ==
  /\ place = "coverage" => \A k \in DOMAIN Coverage : k < at => Generation!Covered(Coverage[k])
  /\ place \in {"round", "between", "generated"} => AllCovered(rows)
  /\ place = "generated" => Target <= Len(rows)
  /\ written > 0 =>
       place \in {"generated", "stopped", "refused"} /\ AllCovered(rows) /\ Target <= Len(rows)

\* The variants on record are below the next ones, and there are no more than lines.
Under(file, n) == \A i \in DOMAIN file : file[i].variant < n
Below(file, next) == \A i \in DOMAIN file : file[i].variant < next[file[i].db]
Numbered(file) ==
  /\ Under(file, Len(rowsFile) + Len(rejectedFile))
  /\ Generating => Below(file, variants)

\* While the files can be read, a run has in memory what is on record, and starts
\* again with all of it.
OnRecord ==
  /\ Generating =>
       /\ rows = rowsFile
       /\ \A db \in Generation!Databases : variants[db] <= Len(rowsFile) + Len(rejectedFile)
  /\ Len(rowsFile) <= Target /\ (AllCovered(rowsFile) \/ OnePerDatabase(rowsFile))
  /\ Numbered(rowsFile) /\ Numbered(rejectedFile)

\* The turns of two databases that only take turns, the earlier one first: it is
\* ahead by the rounds that were cut short between them, and by the one under way.
InStep(i, j, earlier, later) ==
  /\ later <= earlier /\ earlier <= later + runs
  /\ place = "coverage" \/ (place = "between" /\ Len(rows) < Target)
       => earlier + 1 <= later + runs
  /\ place = "round" =>
       IF i < at /\ at <= j THEN later + 1 <= earlier ELSE earlier + 1 <= later + runs

Paced(i, j) == InStep(i, j, Generation!Attempts(Small[i]), Generation!Attempts(Small[j]))

TurnsPaced ==
  \A i, j \in DOMAIN Small :
    i < j /\ Generation!TurnsOnly(i) /\ Generation!TurnsOnly(j) => Paced(i, j)

GenerationInv ==
  /\ GenerationTyped /\ Advanced
  /\ Generation!Legible => OnRecord /\ Generation!NoVariantTwice /\ TurnsPaced

\* The files' counts are counts, and the largest of a bounded set is in it.
LEMMA SameCount == ASSUME NEW S PROVE Generation!Cardinality(S) = Cardinality(S)
  BY Zenon DEF Generation!Cardinality, Cardinality

LEMMA LargestOf ==
  ASSUME NEW n \in Nat, NEW S, S \subseteq 0..n, S # {}
  PROVE  Generation!Max(S) \in S /\ \A x \in S : x <= Generation!Max(S)
<1>. DEFINE T == {n - x : x \in S}
<1>1. T \subseteq Nat /\ T # {}
  <2>1. \A x \in S : n - x \in Nat
    OBVIOUS
  <2>. QED
    BY <2>1
<1>2. PICK t \in T : \A u \in T : t <= u
  <2>. HIDE DEF T
  <2>. QED
    BY <1>1, OldestOf
<1>3. PICK x \in S : t = n - x
  BY <1>2
<1>4. ASSUME NEW y \in S
      PROVE  y <= x
  <2>1. n - y \in T
    OBVIOUS
  <2>2. n - x <= n - y
    BY <1>2, <1>3, <2>1
  <2>3. n \in Int /\ x \in Int /\ y \in Int
    OBVIOUS
  <2>. HIDE DEF T
  <2>. QED
    BY <2>2, <2>3
<1>5. \E z \in S : \A y \in S : z >= y
  <2>1. \A y \in S : x \in Int /\ y \in Int
    OBVIOUS
  <2>. QED
    BY <1>4, <2>1
<1>6. Generation!Max(S) = CHOOSE z \in S : \A y \in S : z >= y
  BY DEF Generation!Max
<1>7. Generation!Max(S) \in S /\ \A y \in S : Generation!Max(S) >= y
  BY <1>5, <1>6, Zenon
<1>. QED
  BY <1>7

\* A file that can be read after a line was appended could be read before, and the
\* line continues nothing.
LEMMA AppendedLegibly ==
  ASSUME NEW file \in Seq(GenerationLines), NEW line \in GenerationLines,
         NEW longer, longer = Generation!AppendJsonl(file, line)
  PROVE  /\ longer \in Seq(GenerationLines)
         /\ Generation!Readable(longer) => Generation!Readable(file) /\ longer = Append(file, line)
<1>1. Len(file) \in Nat /\ DOMAIN file = 1..Len(file)
  BY LenProperties
<1>2. CASE file # <<>> /\ Generation!Last(file).state = "unterminated"
  <2>. DEFINE spoilt == [Generation!Last(file) EXCEPT !.state = "garbled"]
  <2>1. Len(file) # 0
    BY <1>2, EmptySeq
  <2>2. Generation!Last(file) \in GenerationLines
    BY <1>1, <2>1 DEF Generation!Last
  <2>3. spoilt \in GenerationLines /\ spoilt.state = "garbled"
    BY <2>2 DEF GenerationLines
  <2>. HIDE DEF spoilt
  <2>4. PICK front : front = Generation!Front(file)
    OBVIOUS
  <2>5. front \in Seq(GenerationLines)
    BY <1>1, <2>1, <2>4 DEF Generation!Front
  <2>6. longer = Append(front, spoilt)
    BY <1>2, <2>4 DEF Generation!AppendJsonl, spoilt
  <2>7. /\ longer \in Seq(GenerationLines) /\ Len(longer) = Len(front) + 1
        /\ Len(front) \in Nat /\ longer[Len(front) + 1] = spoilt
    BY <2>3, <2>5, <2>6, AppendProperties, LenProperties
  <2>8. Len(front) + 1 \in DOMAIN longer
    BY <2>7
  <2>9. ~Generation!Readable(longer)
    BY <2>3, <2>7, <2>8 DEF Generation!Readable
  <2>. QED
    BY <2>7, <2>9
<1>3. CASE ~(file # <<>> /\ Generation!Last(file).state = "unterminated")
  <2>1. longer = Append(file, line)
    BY <1>3 DEF Generation!AppendJsonl
  <2>2. /\ longer \in Seq(GenerationLines) /\ Len(longer) = Len(file) + 1
        /\ \A i \in 1..Len(file) : longer[i] = file[i]
    BY <2>1, AppendProperties
  <2>3. \A i \in DOMAIN file : i \in DOMAIN longer /\ longer[i] = file[i]
    BY <1>1, <2>2
  <2>4. Generation!Readable(longer) => Generation!Readable(file)
    BY <2>3 DEF Generation!Readable
  <2>. QED
    BY <2>1, <2>2, <2>4
<1>. QED
  BY <1>2, <1>3

\* What one more line adds to a file.
LEMMA LineAdded ==
  ASSUME NEW file \in Seq(GenerationLines), NEW line \in GenerationLines,
         NEW longer, longer = Append(file, line)
  PROVE  /\ longer \in Seq(GenerationLines) /\ Len(file) \in Nat /\ Len(longer) = Len(file) + 1
         /\ DOMAIN longer = DOMAIN file \cup {Len(longer)} /\ Len(longer) \notin DOMAIN file
         /\ \A i \in DOMAIN file : longer[i] = file[i]
         /\ longer[Len(longer)] = line
BY LenProperties, AppendProperties

\* ... and to the attempts on record.
LEMMA AttemptCounted ==
  ASSUME NEW file \in Seq(GenerationLines), NEW line \in GenerationLines, NEW db
  PROVE  /\ Generation!Cardinality(Generation!Tried(file, db)) \in Nat
         /\ Generation!Cardinality(Generation!Tried(Append(file, line), db))
              = Generation!Cardinality(Generation!Tried(file, db)) + (IF line.db = db THEN 1 ELSE 0)
<1>. DEFINE longer == Append(file, line)
            n == Len(longer)
            tried == Generation!Tried(file, db)
<1>1. /\ Len(file) \in Nat /\ DOMAIN longer = DOMAIN file \cup {n} /\ n \notin DOMAIN file
      /\ \A i \in DOMAIN file : longer[i] = file[i]
      /\ longer[n] = line
  BY LineAdded
<1>2. DOMAIN file = 1..Len(file) /\ tried \subseteq DOMAIN file
  BY LenProperties DEF Generation!Tried
<1>. HIDE DEF longer, n, tried
<1>3. IsFiniteSet(tried) /\ Cardinality(tried) \in Nat
  <2>1. IsFiniteSet(DOMAIN file)
    BY <1>1, <1>2, FS_Interval
  <2>. QED
    BY <1>2, <2>1, FS_Subset, FS_CardinalityType
<1>4. Generation!Tried(longer, db) = tried \cup (IF line.db = db THEN {n} ELSE {})
  BY <1>1 DEF Generation!Tried, tried
<1>5. n \notin tried
  BY <1>1, <1>2
<1>6. Cardinality(tried \cup {n}) = Cardinality(tried) + 1
  BY <1>3, <1>5, FS_AddElement
<1>7. Cardinality(Generation!Tried(longer, db))
        = Cardinality(tried) + (IF line.db = db THEN 1 ELSE 0)
  <2>1. CASE line.db = db
    <3>1. Generation!Tried(longer, db) = tried \cup {n}
      BY <1>4, <2>1, Zenon
    <3>. QED
      BY <1>6, <2>1, <3>1
  <2>2. CASE line.db # db
    <3>1. Generation!Tried(longer, db) = tried
      <4>1. Generation!Tried(longer, db) = tried \cup {}
        BY <1>4, <2>2, Zenon
      <4>. QED
        BY <4>1, Zenon
    <3>. QED
      BY <1>3, <2>2, <3>1
  <2>. QED
    BY <2>1, <2>2
<1>8. Generation!Cardinality(tried) = Cardinality(tried)
  BY SameCount, Zenon
<1>9. Generation!Cardinality(Generation!Tried(longer, db)) = Cardinality(Generation!Tried(longer, db))
  BY SameCount, Zenon
<1>10. /\ Generation!Cardinality(tried) \in Nat
       /\ Generation!Cardinality(Generation!Tried(longer, db))
            = Generation!Cardinality(tried) + (IF line.db = db THEN 1 ELSE 0)
  BY <1>3, <1>7, <1>8, <1>9
<1>. QED
  BY <1>10 DEF longer, tried

\* An attempt uses up a variant and adds its line to one of the files.
LEMMA AttemptMade ==
  ASSUME GenerationTyped, NEW db \in Generation!Databases,
         NEW state \in {"whole", "unterminated", "garbled"}, Generation!Attempt(db, state)
  PROVE  /\ variants' \in [Generation!Databases -> Nat] /\ variants'[db] = variants[db] + 1
         /\ \A other \in Generation!Databases : other # db => variants'[other] = variants[other]
         /\ \E line \in GenerationLines :
              /\ line.db = db /\ line.variant = variants[db]
              /\ \/ /\ rows' = Append(rows, line) /\ rejectedFile' = rejectedFile
                    /\ rowsFile' = Generation!AppendJsonl(rowsFile, line)
                 \/ /\ rows' = rows /\ rowsFile' = rowsFile
                    /\ rejectedFile' = Generation!AppendJsonl(rejectedFile, line)
<1>. DEFINE line == Generation!Line(db, variants[db], state)
<1>1. line \in GenerationLines /\ line.db = db /\ line.variant = variants[db]
  BY DEF GenerationTyped, GenerationLines, Generation!Line
<1>2. /\ variants' = [variants EXCEPT ![db] = variants[db] + 1]
      /\ \/ /\ rows' = Append(rows, line) /\ rejectedFile' = rejectedFile
            /\ rowsFile' = Generation!AppendJsonl(rowsFile, line)
         \/ /\ rows' = rows /\ rowsFile' = rowsFile
            /\ rejectedFile' = Generation!AppendJsonl(rejectedFile, line)
  BY DEF Generation!Attempt
<1>3. /\ variants' \in [Generation!Databases -> Nat] /\ variants'[db] = variants[db] + 1
      /\ \A other \in Generation!Databases : other # db => variants'[other] = variants[other]
  <2>1. variants \in [Generation!Databases -> Nat]
    BY DEF GenerationTyped
  <2>2. variants' = [variants EXCEPT ![db] = variants[db] + 1]
    BY <1>2
  <2>. QED
    BY ONLY <2>1, <2>2
<1>. HIDE DEF line
<1>. QED
  BY <1>1, <1>2, <1>3, Zenon

\* Whatever becomes of the files, the rows of the run only grow.
LEMMA AttemptTyped ==
  ASSUME GenerationTyped, NEW line \in GenerationLines,
         \/ /\ rows' = Append(rows, line) /\ rejectedFile' = rejectedFile
            /\ rowsFile' = Generation!AppendJsonl(rowsFile, line)
         \/ /\ rows' = rows /\ rowsFile' = rowsFile
            /\ rejectedFile' = Generation!AppendJsonl(rejectedFile, line)
  PROVE  /\ rowsFile' \in Seq(GenerationLines) /\ rejectedFile' \in Seq(GenerationLines)
         /\ rows' \in Seq(GenerationLines)
         /\ \A i \in DOMAIN rows : i \in DOMAIN rows' /\ rows'[i] = rows[i]
         /\ Len(rows) \in Nat /\ Len(rows') \in Nat /\ Len(rows) <= Len(rows')
<1>1. /\ rows \in Seq(GenerationLines) /\ rowsFile \in Seq(GenerationLines)
      /\ rejectedFile \in Seq(GenerationLines)
  BY DEF GenerationTyped
<1>2. /\ Generation!AppendJsonl(rowsFile, line) \in Seq(GenerationLines)
      /\ Generation!AppendJsonl(rejectedFile, line) \in Seq(GenerationLines)
  BY <1>1, AppendedLegibly, Zenon
<1>3. rowsFile' \in Seq(GenerationLines) /\ rejectedFile' \in Seq(GenerationLines)
  BY <1>1, <1>2, Zenon
<1>4. CASE rows' = Append(rows, line)
  <2>1. /\ rows' \in Seq(GenerationLines) /\ Len(rows) \in Nat /\ Len(rows') = Len(rows) + 1
        /\ \A i \in DOMAIN rows : i \in DOMAIN rows' /\ rows'[i] = rows[i]
    <3>. DEFINE longer == Append(rows, line)
    <3>1. /\ longer \in Seq(GenerationLines) /\ Len(rows) \in Nat /\ Len(longer) = Len(rows) + 1
          /\ DOMAIN longer = DOMAIN rows \cup {Len(longer)}
          /\ \A i \in DOMAIN rows : longer[i] = rows[i]
      BY <1>1, LineAdded
    <3>. HIDE DEF longer
    <3>2. rows' = longer
      BY <1>4 DEF longer
    <3>. QED
      BY <3>1, <3>2
  <2>. QED
    BY <1>3, <2>1
<1>5. CASE rows' = rows
  BY <1>1, <1>3, <1>5, LenProperties
<1>. QED
  BY <1>4, <1>5

\* As long as the files can be read, they are one line longer.
LEMMA AttemptRecorded ==
  ASSUME GenerationTyped, NEW line \in GenerationLines, Generation!Legible',
         \/ /\ rows' = Append(rows, line) /\ rejectedFile' = rejectedFile
            /\ rowsFile' = Generation!AppendJsonl(rowsFile, line)
         \/ /\ rows' = rows /\ rowsFile' = rowsFile
            /\ rejectedFile' = Generation!AppendJsonl(rejectedFile, line)
  PROVE  /\ Generation!Legible
         /\ \/ /\ rows' = Append(rows, line) /\ rejectedFile' = rejectedFile
               /\ rowsFile' = Append(rowsFile, line)
            \/ /\ rows' = rows /\ rowsFile' = rowsFile
               /\ rejectedFile' = Append(rejectedFile, line)
<1>1. rowsFile \in Seq(GenerationLines) /\ rejectedFile \in Seq(GenerationLines)
  BY DEF GenerationTyped
<1>2. /\ Generation!Readable(Generation!AppendJsonl(rowsFile, line))
           => /\ Generation!Readable(rowsFile)
              /\ Generation!AppendJsonl(rowsFile, line) = Append(rowsFile, line)
      /\ Generation!Readable(Generation!AppendJsonl(rejectedFile, line))
           => /\ Generation!Readable(rejectedFile)
              /\ Generation!AppendJsonl(rejectedFile, line) = Append(rejectedFile, line)
  BY <1>1, AppendedLegibly, Zenon
<1>3. Generation!Readable(rowsFile') /\ Generation!Readable(rejectedFile')
  BY DEF Generation!Legible, Generation!Readable
<1>. QED
  BY <1>2, <1>3, Zenon DEF Generation!Legible

\* A line with the next variant is new to both files.
Distinct(file) == \A i, j \in DOMAIN file : Generation!SameVariant(file[i], file[j]) => i = j
Apart(file, other) ==
  \A i \in DOMAIN file, j \in DOMAIN other : ~Generation!SameVariant(file[i], other[j])

\* Numbered and told apart, as far as the variants of a file and its next ones go.
InOrder(file, other, next, n) ==
  /\ Under(file, n) /\ Under(other, n) /\ Below(file, next) /\ Below(other, next)
  /\ Distinct(file) /\ Apart(file, other)
Counts(D) == [D -> Nat]
Drawn(line, next, later, n) ==
  /\ line.variant = next[line.db] /\ next[line.db] <= n
  /\ later[line.db] = next[line.db] + 1
  /\ \A db \in Generation!Databases : next[db] <= later[db]

LEMMA VariantIsNew ==
  ASSUME NEW file \in Seq(GenerationLines), NEW other \in Seq(GenerationLines),
         NEW line \in GenerationLines, NEW longer, longer = Append(file, line), NEW n \in Nat,
         NEW next \in Counts(Generation!Databases), NEW later \in Counts(Generation!Databases),
         InOrder(file, other, next, n), Drawn(line, next, later, n)
  PROVE  InOrder(longer, other, later, n + 1)
<1>0. /\ Under(file, n) /\ Under(other, n) /\ Below(file, next) /\ Below(other, next)
      /\ Distinct(file) /\ Apart(file, other)
      /\ line.variant = next[line.db] /\ next[line.db] <= n
      /\ later[line.db] = next[line.db] + 1
      /\ \A db \in Generation!Databases : next[db] <= later[db]
      /\ \A db \in Generation!Databases : next[db] \in Nat /\ later[db] \in Nat
  BY DEF InOrder, Drawn, Counts
<1>1. /\ DOMAIN longer = DOMAIN file \cup {Len(longer)}
      /\ \A i \in DOMAIN file : longer[i] = file[i]
      /\ longer[Len(longer)] = line
  BY LineAdded
<1>2. /\ line.db \in Generation!Databases /\ line.variant \in Nat
      /\ \A i \in DOMAIN file : /\ file[i] \in GenerationLines
                               /\ file[i].db \in Generation!Databases /\ file[i].variant \in Nat
      /\ \A i \in DOMAIN other : other[i].db \in Generation!Databases /\ other[i].variant \in Nat
  <2>1. \A i \in DOMAIN file : file[i] \in GenerationLines
    BY ElementOfSeq, LenProperties
  <2>2. \A i \in DOMAIN other : other[i] \in GenerationLines
    BY ElementOfSeq, LenProperties
  <2>. QED
    BY <2>1, <2>2 DEF GenerationLines
<1>3. /\ \A i \in DOMAIN file : ~Generation!SameVariant(line, file[i]) /\ ~Generation!SameVariant(file[i], line)
      /\ \A i \in DOMAIN other : ~Generation!SameVariant(line, other[i])
  BY <1>0, <1>2 DEF Below, Generation!SameVariant
<1>4. Distinct(longer)
  <2>1. ASSUME NEW i \in DOMAIN longer, NEW j \in DOMAIN longer,
               Generation!SameVariant(longer[i], longer[j])
        PROVE  i = j
    <3>1. CASE i \in DOMAIN file /\ j \in DOMAIN file
      <4>1. Generation!SameVariant(file[i], file[j])
        BY <1>1, <2>1, <3>1, Zenon
      <4>. QED
        BY <1>0, <3>1, <4>1, Zenon DEF Distinct
    <3>2. CASE i \notin DOMAIN file \/ j \notin DOMAIN file
      BY <1>1, <1>3, <2>1, <3>2, Zenon
    <3>. QED
      BY <3>1, <3>2
  <2>. QED
    BY <2>1, Zenon DEF Distinct
<1>5. Apart(longer, other)
  BY <1>0, <1>1, <1>3, Zenon DEF Apart
<1>6. Under(longer, n + 1) /\ Under(other, n + 1)
  BY <1>0, <1>1, <1>2 DEF Under
<1>7. Below(longer, later)
  <2>1. ASSUME NEW i \in DOMAIN file
        PROVE  longer[i].variant < later[longer[i].db]
    <3>1. /\ longer[i] = file[i] /\ file[i].variant < next[file[i].db]
          /\ file[i].db \in Generation!Databases
      BY <1>0, <1>1, <1>2, Zenon DEF Below
    <3>. QED
      BY <1>0, <1>2, <3>1
  <2>2. line.variant < later[line.db]
    BY <1>0, <1>2
  <2>. QED
    BY <1>1, <2>1, <2>2, Zenon DEF Below
<1>8. Below(other, later)
  <2>1. ASSUME NEW i \in DOMAIN other
        PROVE  other[i].variant < later[other[i].db]
    <3>1. other[i].variant < next[other[i].db] /\ other[i].db \in Generation!Databases
      BY <1>0, <1>2, Zenon DEF Below
    <3>. QED
      BY <1>0, <1>2, <3>1
  <2>. QED
    BY <2>1, Zenon DEF Below
<1>. QED
  BY <1>4, <1>5, <1>6, <1>7, <1>8 DEF InOrder

LEMMA NoVariantTwiceParts ==
  /\ Generation!NoVariantTwice
       = (Distinct(rowsFile) /\ Distinct(rejectedFile) /\ Apart(rowsFile, rejectedFile))
  /\ \A file, other : Apart(file, other) => Apart(other, file)
<1>1. ASSUME NEW file, NEW other, Apart(file, other)
      PROVE  Apart(other, file)
  BY <1>1 DEF Apart, Generation!SameVariant
<1>. QED
  BY <1>1, Zenon DEF Generation!NoVariantTwice, Distinct, Apart

\* What is on record after an attempt.
LEMMA AttemptKeepsRecord ==
  ASSUME GenerationTyped, Generation!NoVariantTwice, OnRecord, Generating,
         NEW db \in Generation!Databases, NEW line \in GenerationLines,
         line.db = db, line.variant = variants[db],
         variants' \in [Generation!Databases -> Nat], variants'[db] = variants[db] + 1,
         \A other \in Generation!Databases : other # db => variants'[other] = variants[other],
         \/ /\ rows' = Append(rows, line) /\ rejectedFile' = rejectedFile
            /\ rowsFile' = Append(rowsFile, line)
         \/ /\ rows' = rows /\ rowsFile' = rowsFile
            /\ rejectedFile' = Append(rejectedFile, line)
  PROVE  /\ rows' = rowsFile'
         /\ \A x \in Generation!Databases : variants'[x] <= Len(rowsFile') + Len(rejectedFile')
         /\ Numbered(rowsFile)' /\ Numbered(rejectedFile)'
         /\ Distinct(rowsFile') /\ Distinct(rejectedFile') /\ Apart(rowsFile', rejectedFile')
<1>. DEFINE n == Len(rowsFile) + Len(rejectedFile)
<1>1. rowsFile \in Seq(GenerationLines) /\ rejectedFile \in Seq(GenerationLines)
  BY DEF GenerationTyped
<1>2. /\ rows = rowsFile /\ \A x \in Generation!Databases : variants[x] <= n
      /\ Under(rowsFile, n) /\ Under(rejectedFile, n)
      /\ Below(rowsFile, variants) /\ Below(rejectedFile, variants)
  BY Zenon DEF OnRecord, Numbered
<1>3. n \in Nat /\ Len(rowsFile) \in Nat /\ Len(rejectedFile) \in Nat
  <2>1. Len(rowsFile) \in Nat /\ Len(rejectedFile) \in Nat
    BY ONLY <1>1, LenProperties, Zenon
  <2>. QED
    BY <2>1
<1>4. /\ Distinct(rowsFile) /\ Distinct(rejectedFile)
      /\ Apart(rowsFile, rejectedFile) /\ Apart(rejectedFile, rowsFile)
  BY NoVariantTwiceParts, Zenon
<1>5. \A x \in Generation!Databases :
        variants[x] \in Nat /\ variants[x] <= variants'[x] /\ variants'[x] <= n + 1
  <2>1. ASSUME NEW x \in Generation!Databases
        PROVE  variants[x] \in Nat /\ variants[x] <= variants'[x] /\ variants'[x] <= n + 1
    <3>1. variants[x] \in Nat
      BY DEF GenerationTyped
    <3>2. variants'[x] = variants[x] \/ variants'[x] = variants[x] + 1
      OBVIOUS
    <3>3. variants[x] <= n
      BY <1>2
    <3>. QED
      BY <1>3, <3>1, <3>2, <3>3
  <2>. QED
    BY <2>1
<1>6. /\ variants \in Counts(Generation!Databases) /\ variants' \in Counts(Generation!Databases)
      /\ Drawn(line, variants, variants', n)
  BY <1>2, <1>5 DEF GenerationTyped, Counts, Drawn
<1>. HIDE DEF n
<1>7. CASE /\ rows' = Append(rows, line) /\ rejectedFile' = rejectedFile
           /\ rowsFile' = Append(rowsFile, line)
  <2>1. Len(rowsFile') + Len(rejectedFile') = n + 1
    BY <1>1, <1>3, <1>7, AppendProperties DEF n
  <2>2. InOrder(rowsFile', rejectedFile, variants', n + 1)
    <3>1. InOrder(rowsFile, rejectedFile, variants, n)
      BY <1>2, <1>4, Zenon DEF InOrder
    <3>. QED
      BY <1>1, <1>3, <1>6, <1>7, <3>1, VariantIsNew, Zenon
  <2>. QED
    BY <1>2, <1>4, <1>5, <1>7, <2>1, <2>2 DEF Numbered, InOrder
<1>8. CASE /\ rows' = rows /\ rowsFile' = rowsFile
           /\ rejectedFile' = Append(rejectedFile, line)
  <2>1. Len(rowsFile') + Len(rejectedFile') = n + 1
    BY <1>1, <1>3, <1>8, AppendProperties DEF n
  <2>2. InOrder(rejectedFile', rowsFile, variants', n + 1)
    <3>1. InOrder(rejectedFile, rowsFile, variants, n)
      BY <1>2, <1>4, Zenon DEF InOrder
    <3>. QED
      BY <1>1, <1>3, <1>6, <1>8, <3>1, VariantIsNew, Zenon
  <2>3. Apart(rowsFile', rejectedFile')
    BY <1>8, <2>2, NoVariantTwiceParts, Zenon DEF InOrder
  <2>. QED
    BY <1>2, <1>4, <1>5, <1>8, <2>1, <2>2, <2>3 DEF Numbered, InOrder
<1>. QED
  BY <1>7, <1>8

\* ... and one attempt more at its database, none at the others.
LEMMA AttemptIsCounted ==
  ASSUME GenerationTyped, NEW line \in GenerationLines, NEW db,
         \/ rejectedFile' = rejectedFile /\ rowsFile' = Append(rowsFile, line)
         \/ rowsFile' = rowsFile /\ rejectedFile' = Append(rejectedFile, line)
  PROVE  /\ Generation!Attempts(db) \in Nat
         /\ Generation!Attempts(db)' = Generation!Attempts(db) + (IF line.db = db THEN 1 ELSE 0)
<1>1. rowsFile \in Seq(GenerationLines) /\ rejectedFile \in Seq(GenerationLines)
  BY DEF GenerationTyped
<1>. DEFINE kept(file) == Generation!Cardinality(Generation!Tried(file, db))
            more == IF line.db = db THEN 1 ELSE 0
<1>2. /\ kept(rowsFile) \in Nat /\ kept(rejectedFile) \in Nat
      /\ kept(Append(rowsFile, line)) = kept(rowsFile) + more
      /\ kept(Append(rejectedFile, line)) = kept(rejectedFile) + more
  BY <1>1, AttemptCounted
<1>3. /\ Generation!Attempts(db) = kept(rowsFile) + kept(rejectedFile)
      /\ Generation!Attempts(db)' = kept(rowsFile') + kept(rejectedFile')
  BY Zenon DEF Generation!Attempts, Generation!Tried
<1>4. more \in Nat
  OBVIOUS
<1>. HIDE DEF kept, more
<1>5. /\ kept(rowsFile) + kept(rejectedFile) \in Nat
      /\ kept(rowsFile') + kept(rejectedFile') = kept(rowsFile) + kept(rejectedFile) + more
  <2>1. CASE rejectedFile' = rejectedFile /\ rowsFile' = Append(rowsFile, line)
    <3>1. kept(rejectedFile') = kept(rejectedFile) /\ kept(rowsFile') = kept(rowsFile) + more
      BY <1>2, <2>1, Zenon
    <3>. QED
      BY <1>2, <1>4, <3>1
  <2>2. CASE rowsFile' = rowsFile /\ rejectedFile' = Append(rejectedFile, line)
    <3>1. kept(rowsFile') = kept(rowsFile) /\ kept(rejectedFile') = kept(rejectedFile) + more
      BY <1>2, <2>2, Zenon
    <3>. QED
      BY <1>2, <1>4, <3>1
  <2>. QED
    BY <2>1, <2>2
<1>. QED
  BY <1>3, <1>5, Zenon DEF more

\* The plan: what the lists hold.
LEMMA PlanFacts ==
  /\ Target \in Nat /\ IsFiniteSet(Listed) /\ Cardinality(Listed) \in Nat
  /\ Cardinality(Listed) <= Target
  /\ Len(Coverage) \in Nat /\ DOMAIN Coverage = 1..Len(Coverage)
  /\ Len(Small) \in Nat /\ DOMAIN Small = 1..Len(Small)
  /\ \A i \in DOMAIN Coverage : Coverage[i] \in Listed /\ Coverage[i] \in Generation!Databases
  /\ \A i \in DOMAIN Small : Small[i] \in Generation!Databases
  /\ \A i, j \in DOMAIN Small : Small[i] = Small[j] => i = j
<1>1. /\ Small \in Seq(Generation!ToSet(Small)) /\ Coverage \in Seq(Listed)
      /\ \A i, j \in DOMAIN Small : Small[i] = Small[j] => i = j
      /\ Target \in Nat /\ Generation!Cardinality(Listed) <= Target
  BY CorpusPlanned DEF Generation!GenerationAssumption, Listed
<1>2. Listed = {Coverage[i] : i \in DOMAIN Coverage}
  BY DEF Listed, Generation!ToSet
<1>3. /\ Len(Coverage) \in Nat /\ DOMAIN Coverage = 1..Len(Coverage)
      /\ Len(Small) \in Nat /\ DOMAIN Small = 1..Len(Small)
  BY <1>1, LenProperties
<1>4. IsFiniteSet(Listed)
  <2>1. Coverage \in Surjection(DOMAIN Coverage, Listed)
    BY <1>1, <1>2, <1>3 DEF Surjection
  <2>2. IsFiniteSet(DOMAIN Coverage)
    BY <1>3, FS_Interval
  <2>. QED
    BY <2>1, <2>2, FS_Surjection
<1>5. Cardinality(Listed) \in Nat /\ Cardinality(Listed) <= Target
  <2>1. Generation!Cardinality(Listed) = Cardinality(Listed)
    BY SameCount, Zenon
  <2>. QED
    BY <1>1, <1>4, <2>1, FS_CardinalityType
<1>6. /\ \A i \in DOMAIN Coverage : Coverage[i] \in Listed /\ Coverage[i] \in Generation!Databases
      /\ \A i \in DOMAIN Small : Small[i] \in Generation!Databases
  BY Zenon DEF Listed, Generation!ToSet, Generation!Databases
<1>. QED
  BY <1>1, <1>3, <1>4, <1>5, <1>6

\* With a row each of some listed databases, but not of all, the target is not met.
LEMMA RoomForListed ==
  ASSUME NEW file \in Seq(GenerationLines), OnePerDatabase(file), ~AllCovered(file)
  PROVE  Len(file) < Target
<1>1. PICK db \in Listed : \A i \in DOMAIN file : file[i].db # db
  BY DEF AllCovered
<1>2. Len(file) \in Nat /\ DOMAIN file = 1..Len(file)
  BY LenProperties
<1>. DEFINE T == Listed \ {db}
            f == [i \in DOMAIN file |-> file[i].db]
<1>3. /\ IsFiniteSet(T) /\ Cardinality(T) = Cardinality(Listed) - 1
      /\ Cardinality(Listed) \in Nat /\ Cardinality(Listed) <= Target /\ Target \in Nat
  BY <1>1, PlanFacts, FS_RemoveElement
<1>4. f \in [DOMAIN file -> T]
  BY <1>1 DEF OnePerDatabase
<1>5. IsFiniteSet(DOMAIN file) /\ Cardinality(DOMAIN file) = Len(file)
  BY <1>2, FS_Interval
<1>6. \A i, j \in DOMAIN file : f[i] = f[j] => i = j
  BY DEF OnePerDatabase
<1>. HIDE DEF T, f
<1>7. ~(Cardinality(T) < Cardinality(DOMAIN file))
  BY <1>3, <1>4, <1>5, <1>6, FS_PigeonHole
<1>. QED
  BY <1>2, <1>3, <1>5, <1>7

\* An attempt, whoever makes it.
LEMMA Attempted ==
  ASSUME GenerationInv, Generating, NEW db \in Generation!Databases,
         NEW state \in {"whole", "unterminated", "garbled"}, Generation!Attempt(db, state)
  PROVE  /\ rowsFile' \in Seq(GenerationLines) /\ rejectedFile' \in Seq(GenerationLines)
         /\ rows' \in Seq(GenerationLines) /\ variants' \in [Generation!Databases -> Nat]
         /\ \A i \in DOMAIN rows : i \in DOMAIN rows' /\ rows'[i] = rows[i]
         /\ Len(rows) \in Nat /\ Len(rows') \in Nat /\ Len(rows) <= Len(rows')
         /\ \E line \in GenerationLines : line.db = db /\ rows' \in {rows, Append(rows, line)}
         /\ Generation!Legible' =>
              /\ Generation!Legible /\ rows' = rowsFile'
              /\ \A x \in Generation!Databases : variants'[x] <= Len(rowsFile') + Len(rejectedFile')
              /\ Numbered(rowsFile)' /\ Numbered(rejectedFile)' /\ Generation!NoVariantTwice'
              /\ \A x : /\ Generation!Attempts(x) \in Nat
                        /\ Generation!Attempts(x)'
                             = Generation!Attempts(x) + (IF db = x THEN 1 ELSE 0)
<1>1. GenerationTyped /\ (Generation!Legible => OnRecord /\ Generation!NoVariantTwice)
  BY Zenon DEF GenerationInv
<1>2. /\ variants' \in [Generation!Databases -> Nat] /\ variants'[db] = variants[db] + 1
      /\ \A other \in Generation!Databases : other # db => variants'[other] = variants[other]
  BY <1>1, AttemptMade, Zenon
<1>3. PICK line \in GenerationLines :
        /\ line.db = db /\ line.variant = variants[db]
        /\ \/ /\ rows' = Append(rows, line) /\ rejectedFile' = rejectedFile
              /\ rowsFile' = Generation!AppendJsonl(rowsFile, line)
           \/ /\ rows' = rows /\ rowsFile' = rowsFile
              /\ rejectedFile' = Generation!AppendJsonl(rejectedFile, line)
  BY <1>1, AttemptMade, Zenon
<1>4. /\ rowsFile' \in Seq(GenerationLines) /\ rejectedFile' \in Seq(GenerationLines)
      /\ rows' \in Seq(GenerationLines)
      /\ \A i \in DOMAIN rows : i \in DOMAIN rows' /\ rows'[i] = rows[i]
      /\ Len(rows) \in Nat /\ Len(rows') \in Nat /\ Len(rows) <= Len(rows')
  BY <1>1, <1>3, AttemptTyped, Zenon
<1>5. rows' = rows \/ rows' = Append(rows, line)
  BY <1>3, Zenon
<1>6. ASSUME Generation!Legible'
      PROVE  /\ Generation!Legible /\ rows' = rowsFile'
             /\ \A x \in Generation!Databases : variants'[x] <= Len(rowsFile') + Len(rejectedFile')
             /\ Numbered(rowsFile)' /\ Numbered(rejectedFile)' /\ Generation!NoVariantTwice'
             /\ \A x : /\ Generation!Attempts(x) \in Nat
                       /\ Generation!Attempts(x)'
                            = Generation!Attempts(x) + (IF db = x THEN 1 ELSE 0)
  <2>1. /\ Generation!Legible
        /\ \/ /\ rows' = Append(rows, line) /\ rejectedFile' = rejectedFile
              /\ rowsFile' = Append(rowsFile, line)
           \/ /\ rows' = rows /\ rowsFile' = rowsFile
              /\ rejectedFile' = Append(rejectedFile, line)
    BY <1>1, <1>3, <1>6, AttemptRecorded, Zenon
  <2>2. OnRecord /\ Generation!NoVariantTwice
    BY <1>1, <2>1
  <2>3. /\ rows' = rowsFile'
        /\ \A x \in Generation!Databases : variants'[x] <= Len(rowsFile') + Len(rejectedFile')
        /\ Numbered(rowsFile)' /\ Numbered(rejectedFile)'
        /\ Distinct(rowsFile') /\ Distinct(rejectedFile') /\ Apart(rowsFile', rejectedFile')
    BY <1>1, <1>2, <1>3, <2>1, <2>2, AttemptKeepsRecord, Zenon
  <2>4. Generation!NoVariantTwice'
    BY <2>3, Zenon DEF Generation!NoVariantTwice, Distinct, Apart, Generation!SameVariant
  <2>5. \A x : /\ Generation!Attempts(x) \in Nat
               /\ Generation!Attempts(x)' = Generation!Attempts(x) + (IF line.db = x THEN 1 ELSE 0)
    BY <1>1, <2>1, AttemptIsCounted, Zenon
  <2>. QED
    BY <1>3, <2>1, <2>3, <2>4, <2>5, Zenon
<1>. QED
  BY <1>2, <1>3, <1>4, <1>5, <1>6, Zenon

LEMMA AttemptsAreCounts ==
  ASSUME GenerationTyped
  PROVE  \A x : Generation!Attempts(x) \in Nat
<1>1. rowsFile \in Seq(GenerationLines) /\ rejectedFile \in Seq(GenerationLines)
  BY DEF GenerationTyped
<1>2. ASSUME NEW x, NEW file \in Seq(GenerationLines)
      PROVE  Generation!Cardinality(Generation!Tried(file, x)) \in Nat
  <2>1. IsFiniteSet(DOMAIN file) /\ Generation!Tried(file, x) \subseteq DOMAIN file
    BY <1>2, LenProperties, FS_Interval DEF Generation!Tried
  <2>2. Cardinality(Generation!Tried(file, x)) \in Nat
    BY <2>1, FS_Subset, FS_CardinalityType
  <2>. QED
    BY <2>2, SameCount, Zenon
<1>3. ASSUME NEW x
      PROVE  Generation!Attempts(x) \in Nat
  <2>. DEFINE a == Generation!Cardinality(Generation!Tried(rowsFile, x))
              b == Generation!Cardinality(Generation!Tried(rejectedFile, x))
  <2>1. a \in Nat /\ b \in Nat
    BY <1>1, <1>2
  <2>2. Generation!Attempts(x) = a + b
    BY Zenon DEF Generation!Attempts
  <2>. HIDE DEF a, b
  <2>3. a + b \in Nat
    BY <2>1
  <2>. QED
    BY <2>2, <2>3, Zenon
<1>. QED
  BY <1>3

\* A step without an attempt leaves all that is on record.
LEMMA AttemptsKept ==
  ASSUME GenerationTyped, UNCHANGED <<rowsFile, rejectedFile>>
  PROVE  \A x : Generation!Attempts(x) \in Nat /\ Generation!Attempts(x)' = Generation!Attempts(x)
<1>1. \A x : Generation!Attempts(x)' = Generation!Attempts(x)
  BY Zenon DEF Generation!Attempts, Generation!Tried
<1>. QED
  BY <1>1, AttemptsAreCounts, Zenon

LEMMA RecordKept ==
  ASSUME OnRecord, Generation!NoVariantTwice, Generating' => Generating,
         UNCHANGED <<rowsFile, rejectedFile, rows, variants>>
  PROVE  OnRecord' /\ Generation!NoVariantTwice'
<1>1. Generation!NoVariantTwice'
  BY DEF Generation!NoVariantTwice, Generation!SameVariant
<1>2. rowsFile' = rowsFile /\ rejectedFile' = rejectedFile /\ rows' = rows /\ variants' = variants
  OBVIOUS
<1>3. Numbered(rowsFile)' /\ Numbered(rejectedFile)'
  BY <1>2 DEF OnRecord, Numbered, Under, Below
<1>4. AllCovered(rowsFile)' \/ OnePerDatabase(rowsFile)'
  BY <1>2, Zenon DEF OnRecord, AllCovered, OnePerDatabase
<1>5. OnRecord'
  BY <1>2, <1>3, <1>4, Zenon DEF OnRecord
<1>. QED
  BY <1>1, <1>5

\* A row of a listed database that had none.
LEMMA OneMoreListed ==
  ASSUME NEW file \in Seq(GenerationLines), AllCovered(file) \/ OnePerDatabase(file),
         NEW line \in GenerationLines, line.db \in Listed, \A i \in DOMAIN file : file[i].db # line.db,
         NEW longer, longer = Append(file, line)
  PROVE  Len(longer) <= Target /\ OnePerDatabase(longer)
<1>1. ~AllCovered(file) /\ OnePerDatabase(file)
  BY DEF AllCovered
<1>2. Len(file) < Target /\ Target \in Nat
  BY <1>1, RoomForListed, PlanFacts
<1>3. /\ Len(file) \in Nat /\ Len(longer) = Len(file) + 1
      /\ DOMAIN longer = DOMAIN file \cup {Len(longer)}
      /\ \A i \in DOMAIN file : longer[i] = file[i]
      /\ longer[Len(longer)] = line
  BY LineAdded
<1>4. OnePerDatabase(longer)
  <2>1. ASSUME NEW i \in DOMAIN longer, NEW j \in DOMAIN longer, longer[i].db = longer[j].db
        PROVE  i = j
    <3>1. CASE i \in DOMAIN file /\ j \in DOMAIN file
      <4>1. file[i].db = file[j].db
        BY <1>3, <2>1, <3>1, Zenon
      <4>. QED
        BY <1>1, <3>1, <4>1, Zenon DEF OnePerDatabase
    <3>2. CASE i \notin DOMAIN file \/ j \notin DOMAIN file
      BY <1>3, <2>1, <3>2, Zenon
    <3>. QED
      BY <3>1, <3>2
  <2>2. ASSUME NEW i \in DOMAIN longer
        PROVE  longer[i].db \in Listed
    BY <1>1, <1>3, Zenon DEF OnePerDatabase
  <2>. QED
    BY <2>1, <2>2, Zenon DEF OnePerDatabase
<1>. QED
  BY <1>2, <1>3, <1>4

\* One turn more keeps two databases in step.
Level(i, j, t, earlier, later, r) ==
  /\ later <= earlier /\ earlier <= later + r
  /\ IF i < t /\ t <= j THEN later + 1 <= earlier ELSE earlier + 1 <= later + r
AfterTurn(n, t, i) == n + (IF t = i THEN 1 ELSE 0)

LEMMA TurnTaken ==
  ASSUME NEW a \in Nat, NEW b \in Nat, NEW r \in Nat, NEW i \in Nat, NEW j \in Nat, NEW t \in Nat,
         i < j, Level(i, j, t, a, b, r)
  PROVE  Level(i, j, t + 1, AfterTurn(a, t, i), AfterTurn(b, t, j), r)
<1>. USE DEF Level, AfterTurn
<1>1. CASE t = i
  BY <1>1
<1>2. CASE t = j
  BY <1>2
<1>3. CASE t # i /\ t # j
  BY <1>3
<1>. QED
  BY <1>1, <1>2, <1>3

\* Rows of all listed databases stay so, and so does what has been covered.
LEMMA RowsGrow ==
  ASSUME NEW file, NEW longer, \A i \in DOMAIN file : i \in DOMAIN longer /\ longer[i] = file[i]
  PROVE  /\ AllCovered(file) => AllCovered(longer)
         /\ \A db : (\E i \in DOMAIN file : file[i].db = db) => \E i \in DOMAIN longer : longer[i].db = db
<1>1. ASSUME NEW db, NEW i \in DOMAIN file, file[i].db = db
      PROVE  \E k \in DOMAIN longer : longer[k].db = db
  BY <1>1, Zenon
<1>. QED
  BY <1>1, Zenon DEF AllCovered

\* An attempt at a database of the coverage list, that has no row yet.
LEMMA CoverAttempt ==
  ASSUME GenerationInv, place = "coverage", at \in DOMAIN Coverage,
         ~Generation!Covered(Coverage[at]), place' \in {"coverage", "failed", "stopped"},
         UNCHANGED <<at, written, runs>>,
         NEW state \in {"whole", "unterminated", "garbled"}, Generation!Attempt(Coverage[at], state)
  PROVE  GenerationInv'
<1>. DEFINE db == Coverage[at]
<1>1. /\ GenerationTyped /\ Advanced /\ (Generation!Legible => OnRecord /\ TurnsPaced)
      /\ written = 0
  <2>1. GenerationTyped /\ Advanced /\ (Generation!Legible => OnRecord /\ TurnsPaced)
    BY Zenon DEF GenerationInv
  <2>2. written \in Nat /\ ~(written > 0)
    BY <2>1, Zenon DEF GenerationTyped, Advanced
  <2>3. written = 0
    BY ONLY <2>2
  <2>. QED
    BY <2>1, <2>3, Zenon
<1>2. db \in Listed /\ db \in Generation!Databases /\ Generating
  BY PlanFacts DEF Generating
<1>3. Generation!Attempt(db, state)
  OBVIOUS
<1>4. \A i \in DOMAIN rows : rows[i].db # db
  BY DEF Generation!Covered
<1>. HIDE DEF db
<1>5. /\ rowsFile' \in Seq(GenerationLines) /\ rejectedFile' \in Seq(GenerationLines)
      /\ rows' \in Seq(GenerationLines) /\ variants' \in [Generation!Databases -> Nat]
      /\ \A i \in DOMAIN rows : i \in DOMAIN rows' /\ rows'[i] = rows[i]
      /\ \E line \in GenerationLines : line.db = db /\ rows' \in {rows, Append(rows, line)}
  BY <1>2, <1>3, Attempted, Zenon
<1>6. Generation!Legible' =>
        /\ Generation!Legible /\ rows' = rowsFile'
        /\ \A x \in Generation!Databases : variants'[x] <= Len(rowsFile') + Len(rejectedFile')
        /\ Numbered(rowsFile)' /\ Numbered(rejectedFile)' /\ Generation!NoVariantTwice'
        /\ \A x : /\ Generation!Attempts(x) \in Nat
                  /\ Generation!Attempts(x)' = Generation!Attempts(x) + (IF db = x THEN 1 ELSE 0)
  BY <1>2, <1>3, Attempted, Zenon
<1>7. GenerationTyped'
  BY <1>1, <1>5 DEF GenerationTyped
<1>8. Advanced'
  <2>1. ASSUME place' = "coverage", NEW k \in DOMAIN Coverage, k < at
        PROVE  Generation!Covered(Coverage[k])'
    <3>1. \E i \in DOMAIN rows : rows[i].db = Coverage[k]
      BY <1>1, <2>1 DEF Advanced, Generation!Covered
    <3>2. \E i \in DOMAIN rows' : rows'[i].db = Coverage[k]
      BY <1>5, <3>1, RowsGrow, Zenon
    <3>. QED
      BY <3>2 DEF Generation!Covered
  <2>. QED
    BY <1>1, <2>1 DEF Advanced
<1>9. ASSUME Generation!Legible'
      PROVE  OnRecord' /\ TurnsPaced'
  <2>1. OnRecord /\ TurnsPaced /\ rows' = rowsFile' /\ rows = rowsFile
    BY <1>1, <1>2, <1>6, <1>9, Zenon DEF OnRecord
  <2>2. Len(rows') <= Target /\ (AllCovered(rows') \/ OnePerDatabase(rows'))
    <3>0. Len(rows) <= Target /\ (AllCovered(rows) \/ OnePerDatabase(rows))
      BY <2>1, Zenon DEF OnRecord
    <3>1. PICK line \in GenerationLines : line.db = db /\ rows' \in {rows, Append(rows, line)}
      BY <1>5, Zenon
    <3>2. CASE rows' = Append(rows, line)
      <4>1. rows \in Seq(GenerationLines)
        BY <1>1 DEF GenerationTyped
      <4>. QED
        BY <1>2, <1>4, <3>0, <3>1, <3>2, <4>1, OneMoreListed, Zenon
    <3>3. CASE rows' = rows
      BY <3>0, <3>3, Zenon
    <3>. QED
      BY <3>1, <3>2, <3>3
  <2>3. OnRecord'
    BY <1>6, <1>9, <2>1, <2>2, Zenon DEF OnRecord, AllCovered, OnePerDatabase
  <2>4. ASSUME NEW i \in DOMAIN Small, NEW j \in DOMAIN Small, i < j,
               Generation!TurnsOnly(i), Generation!TurnsOnly(j)
        PROVE  Paced(i, j)'
    <3>1. Paced(i, j)
      BY <2>1, <2>4, Zenon DEF TurnsPaced
    <3>2. Small[i] # db /\ Small[j] # db
      BY <1>2, <2>4, Zenon DEF Generation!TurnsOnly, Listed
    <3>3. PICK a \in Nat : a = Generation!Attempts(Small[i]) /\ a = Generation!Attempts(Small[i])'
      <4>1. /\ Generation!Attempts(Small[i]) \in Nat
            /\ Generation!Attempts(Small[i])' = Generation!Attempts(Small[i]) + 0
        BY <1>6, <1>9, <3>2, Zenon
      <4>2. \A n \in Nat : n + 0 = n
        BY ONLY SMT
      <4>. QED
        BY <4>1, <4>2, Zenon
    <3>4. PICK b \in Nat : b = Generation!Attempts(Small[j]) /\ b = Generation!Attempts(Small[j])'
      <4>1. /\ Generation!Attempts(Small[j]) \in Nat
            /\ Generation!Attempts(Small[j])' = Generation!Attempts(Small[j]) + 0
        BY <1>6, <1>9, <3>2, Zenon
      <4>2. \A n \in Nat : n + 0 = n
        BY ONLY SMT
      <4>. QED
        BY <4>1, <4>2, Zenon
    <3>5. InStep(i, j, a, b)
      BY <3>1, <3>3, <3>4, Zenon DEF Paced
    <3>6. InStep(i, j, a, b)'
      BY <3>5 DEF InStep
    <3>. QED
      BY <3>3, <3>4, <3>6, Zenon DEF Paced, InStep
  <2>. QED
    BY <2>3, <2>4, Zenon DEF TurnsPaced, Generation!TurnsOnly
<1>. QED
  BY <1>6, <1>7, <1>8, <1>9, Zenon DEF GenerationInv

\* A turn of a small database, once all listed ones are covered.
LEMMA TurnAttempt ==
  ASSUME GenerationInv, place = "round", at \in DOMAIN Small, Len(rows) < Target,
         (place' = "round" /\ at' = at + 1) \/ (place' = "stopped" /\ at' = at),
         UNCHANGED <<written, runs>>,
         NEW state \in {"whole", "unterminated", "garbled"}, Generation!Attempt(Small[at], state)
  PROVE  GenerationInv'
<1>. DEFINE db == Small[at]
<1>1. /\ GenerationTyped /\ Advanced /\ (Generation!Legible => OnRecord /\ TurnsPaced)
      /\ written = 0 /\ AllCovered(rows) /\ runs \in Nat /\ at \in Nat /\ at # 0
  <2>1. GenerationTyped /\ Advanced /\ (Generation!Legible => OnRecord /\ TurnsPaced)
    BY Zenon DEF GenerationInv
  <2>. QED
    BY <2>1 DEF GenerationTyped, Advanced
<1>2. db \in Generation!Databases /\ Generating
  BY PlanFacts DEF Generating
<1>3. Generation!Attempt(db, state)
  OBVIOUS
<1>5. /\ rowsFile' \in Seq(GenerationLines) /\ rejectedFile' \in Seq(GenerationLines)
      /\ rows' \in Seq(GenerationLines) /\ variants' \in [Generation!Databases -> Nat]
      /\ \A i \in DOMAIN rows : i \in DOMAIN rows' /\ rows'[i] = rows[i]
      /\ \E line \in GenerationLines : rows' \in {rows, Append(rows, line)}
  <2>. HIDE DEF db
  <2>. QED
    BY <1>2, <1>3, Attempted, Zenon
<1>6. Generation!Legible' =>
        /\ Generation!Legible /\ rows' = rowsFile'
        /\ \A x \in Generation!Databases : variants'[x] <= Len(rowsFile') + Len(rejectedFile')
        /\ Numbered(rowsFile)' /\ Numbered(rejectedFile)' /\ Generation!NoVariantTwice'
        /\ \A x : /\ Generation!Attempts(x) \in Nat
                  /\ Generation!Attempts(x)' = Generation!Attempts(x) + (IF db = x THEN 1 ELSE 0)
  <2>. HIDE DEF db
  <2>. QED
    BY <1>2, <1>3, Attempted, Zenon
<1>7. GenerationTyped'
  BY <1>1, <1>5 DEF GenerationTyped
<1>8. Advanced'
  <2>1. AllCovered(rows')
    BY <1>1, <1>5, RowsGrow, Zenon
  <2>. QED
    BY <1>1, <2>1 DEF Advanced, AllCovered
<1>9. ASSUME Generation!Legible'
      PROVE  OnRecord' /\ TurnsPaced'
  <2>1. OnRecord /\ TurnsPaced /\ rows' = rowsFile'
    BY <1>1, <1>6, <1>9, Zenon
  <2>2. Len(rows') <= Target /\ AllCovered(rows')
    <3>1. PICK line \in GenerationLines : rows' \in {rows, Append(rows, line)}
      BY <1>5, Zenon
    <3>2. rows \in Seq(GenerationLines) /\ Target \in Nat
      BY <1>1, PlanFacts DEF GenerationTyped
    <3>3. Len(rows) \in Nat /\ (rows' = rows \/ Len(rows') = Len(rows) + 1)
      BY <3>1, <3>2, LineAdded, LenProperties
    <3>4. AllCovered(rows')
      BY <1>1, <1>5, RowsGrow, Zenon
    <3>. QED
      BY <3>2, <3>3, <3>4
  <2>3. OnRecord'
    BY <1>6, <1>9, <2>1, <2>2, Zenon DEF OnRecord, AllCovered, OnePerDatabase
  <2>4. ASSUME NEW i \in DOMAIN Small, NEW j \in DOMAIN Small, i < j,
               Generation!TurnsOnly(i), Generation!TurnsOnly(j)
        PROVE  Paced(i, j)'
    <3>1. Paced(i, j)
      BY <2>1, <2>4, Zenon DEF TurnsPaced
    <3>2. (db = Small[i] <=> at = i) /\ (db = Small[j] <=> at = j)
      BY PlanFacts, Zenon
    <3>3. PICK a \in Nat : a = Generation!Attempts(Small[i])
      BY <1>6, <1>9, Zenon
    <3>4. PICK b \in Nat : b = Generation!Attempts(Small[j])
      BY <1>6, <1>9, Zenon
    <3>5. PICK c : c = Generation!Attempts(Small[i])' /\ c = AfterTurn(a, at, i)
      BY <1>6, <1>9, <3>2, <3>3, Zenon DEF AfterTurn
    <3>6. PICK d : d = Generation!Attempts(Small[j])' /\ d = AfterTurn(b, at, j)
      BY <1>6, <1>9, <3>2, <3>4, Zenon DEF AfterTurn
    <3>7. InStep(i, j, a, b)
      BY <3>1, <3>3, <3>4, Zenon DEF Paced
    <3>8. i \in Nat /\ j \in Nat
      BY PlanFacts
    <3>9. Level(i, j, at + 1, c, d, runs)
      <4>1. Level(i, j, at, a, b, runs)
        BY <3>7, Zenon DEF InStep, Level
      <4>2. runs \in Nat /\ at \in Nat /\ i < j
        BY <1>1, <2>4, Zenon
      <4>3. Level(i, j, at + 1, AfterTurn(a, at, i), AfterTurn(b, at, j), runs)
        BY ONLY <3>8, <4>1, <4>2, TurnTaken
      <4>. QED
        BY <3>5, <3>6, <4>3, Zenon
    <3>10. InStep(i, j, c, d)'
      BY <3>9 DEF InStep, Level
    <3>. QED
      BY <3>5, <3>6, <3>10, Zenon DEF Paced, InStep
  <2>. QED
    BY <2>3, <2>4, Zenon DEF TurnsPaced, Generation!TurnsOnly
<1>. QED
  BY <1>6, <1>7, <1>8, <1>9, Zenon DEF GenerationInv

\* The next variant is above all that were tried, and not above their number.
LEMMA UntriedIsNext ==
  ASSUME NEW kept \in Seq(GenerationLines), NEW rejected \in Seq(GenerationLines), NEW n \in Nat,
         Under(kept, n), Under(rejected, n), NEW db
  PROVE  /\ Generation!Untried(db, kept, rejected) \in 0..n
         /\ \A i \in DOMAIN kept :
              kept[i].db = db => kept[i].variant < Generation!Untried(db, kept, rejected)
         /\ \A i \in DOMAIN rejected :
              rejected[i].db = db => rejected[i].variant < Generation!Untried(db, kept, rejected)
<1>. DEFINE A == {kept[i].variant + 1 : i \in {j \in DOMAIN kept : kept[j].db = db}}
            B == {rejected[i].variant + 1 : i \in {j \in DOMAIN rejected : rejected[j].db = db}}
            S == {0} \cup A \cup B
<1>1. /\ \A i \in DOMAIN kept : kept[i].variant \in Nat /\ kept[i].variant < n
      /\ \A i \in DOMAIN rejected : rejected[i].variant \in Nat /\ rejected[i].variant < n
  <2>1. /\ \A i \in DOMAIN kept : kept[i] \in GenerationLines
        /\ \A i \in DOMAIN rejected : rejected[i] \in GenerationLines
    BY ElementOfSeq, LenProperties
  <2>. QED
    BY <2>1 DEF GenerationLines, Under
<1>2. S \subseteq 0..n /\ S # {}
  <2>1. A \subseteq 0..n
    BY <1>1
  <2>2. B \subseteq 0..n
    BY <1>1
  <2>. QED
    BY <2>1, <2>2
<1>3. /\ \A i \in DOMAIN kept : kept[i].db = db => kept[i].variant + 1 \in S
      /\ \A i \in DOMAIN rejected : rejected[i].db = db => rejected[i].variant + 1 \in S
  OBVIOUS
<1>4. Generation!Untried(db, kept, rejected) = Generation!Max(S)
  BY Zenon DEF Generation!Untried
<1>. HIDE DEF S
<1>5. Generation!Max(S) \in S /\ \A x \in S : x <= Generation!Max(S)
  BY <1>2, LargestOf
<1>6. PICK m : m = Generation!Max(S)
  OBVIOUS
<1>7. m \in 0..n /\ \A x \in S : x <= m
  BY <1>2, <1>5, <1>6, Zenon
<1>8. /\ \A i \in DOMAIN kept : kept[i].db = db => kept[i].variant < m
      /\ \A i \in DOMAIN rejected : rejected[i].db = db => rejected[i].variant < m
  BY <1>1, <1>3, <1>7
<1>. QED
  BY <1>4, <1>6, <1>7, <1>8, Zenon

\* A run that starts finds no more rows than it keeps.
LEMMA AllKept ==
  ASSUME NEW file \in Seq(GenerationLines), Len(file) <= Target
  PROVE  SubSeq(file, 1, Generation!Min({Target, Len(file)})) = file
<1>1. Target \in Nat /\ Len(file) \in Nat
  BY PlanFacts, LenProperties
<1>2. \E x \in {Target, Len(file)} : \A y \in {Target, Len(file)} : x <= y
  BY <1>1
<1>3. Generation!Min({Target, Len(file)})
        = CHOOSE x \in {Target, Len(file)} : \A y \in {Target, Len(file)} : x <= y
  BY DEF Generation!Min
<1>4. PICK m : m = Generation!Min({Target, Len(file)})
  OBVIOUS
<1>5. m \in {Target, Len(file)} /\ \A y \in {Target, Len(file)} : m <= y
  BY <1>2, <1>3, <1>4, Zenon
<1>6. m = Len(file)
  BY <1>1, <1>5
<1>7. SubSeq(file, 1, Len(file)) = file
  BY LenProperties, SubSeqProperties
<1>. QED
  BY <1>4, <1>6, <1>7, Zenon

\* Without an attempt, only what the pace is measured against changes.
LEMMA PacedOn ==
  ASSUME GenerationTyped, TurnsPaced, UNCHANGED <<rowsFile, rejectedFile>>,
         \A i, j \in DOMAIN Small, a, b \in Nat : i < j /\ InStep(i, j, a, b) => InStep(i, j, a, b)'
  PROVE  TurnsPaced'
<1>1. \A x : Generation!Attempts(x) \in Nat /\ Generation!Attempts(x)' = Generation!Attempts(x)
  BY AttemptsKept, Zenon
<1>2. ASSUME NEW i \in DOMAIN Small, NEW j \in DOMAIN Small, i < j,
             Generation!TurnsOnly(i), Generation!TurnsOnly(j)
      PROVE  Paced(i, j)'
  <2>1. PICK a \in Nat : a = Generation!Attempts(Small[i]) /\ a = Generation!Attempts(Small[i])'
    BY <1>1, Zenon
  <2>2. PICK b \in Nat : b = Generation!Attempts(Small[j]) /\ b = Generation!Attempts(Small[j])'
    BY <1>1, Zenon
  <2>3. InStep(i, j, a, b)
    BY <1>2, <2>1, <2>2, Zenon DEF TurnsPaced, Paced
  <2>4. InStep(i, j, a, b)'
    BY <1>2, <2>3, Zenon
  <2>. QED
    BY <2>1, <2>2, <2>4, Zenon DEF Paced, InStep
<1>. QED
  BY <1>2, Zenon DEF TurnsPaced, Generation!TurnsOnly

LEMMA GenerationSteps ==
  ASSUME GenerationInv, [Generation!Next]_Generation!vars
  PROVE  GenerationInv'
<1>1. /\ GenerationTyped /\ Advanced
      /\ Generation!Legible => OnRecord /\ Generation!NoVariantTwice /\ TurnsPaced
  BY Zenon DEF GenerationInv
<1>2. ASSUME UNCHANGED <<rowsFile, rejectedFile, rows, variants>>, Generating' => Generating,
             GenerationTyped', Advanced', TurnsPaced => TurnsPaced'
      PROVE  GenerationInv'
  <2>1. Generation!Legible' = Generation!Legible
    BY <1>2 DEF Generation!Legible, Generation!Readable
  <2>2. OnRecord /\ Generation!NoVariantTwice => OnRecord' /\ Generation!NoVariantTwice'
    BY <1>2, RecordKept
  <2>. QED
    BY <1>1, <1>2, <2>1, <2>2, Zenon DEF GenerationInv
<1>3. CASE Generation!Start
  <2>1. CASE ~(written = 0 /\ Generation!Readable(rowsFile) /\ Generation!Readable(rejectedFile))
    <3>1. /\ place' = "refused" /\ runs' = runs + 1
          /\ UNCHANGED <<rowsFile, rejectedFile, rows, variants, at, written>>
      BY <1>3, <2>1 DEF Generation!Start, Generation!fileVars
    <3>2. GenerationTyped'
      BY <1>1, <3>1 DEF GenerationTyped
    <3>3. Advanced'
      BY <1>1, <3>1 DEF Advanced, AllCovered
    <3>4. ASSUME TurnsPaced
          PROVE  TurnsPaced'
      <4>1. \A i, j \in DOMAIN Small, a, b \in Nat :
              i < j /\ InStep(i, j, a, b) => InStep(i, j, a, b)'
        BY <1>1, <3>1 DEF InStep, GenerationTyped
      <4>. QED
        BY <1>1, <3>1, <3>4, <4>1, PacedOn
    <3>5. Generating' => Generating
      BY <3>1 DEF Generating
    <3>. QED
      BY <1>2, <3>1, <3>2, <3>3, <3>4, <3>5
  <2>2. CASE written = 0 /\ Generation!Readable(rowsFile) /\ Generation!Readable(rejectedFile)
    <3>1. OnRecord /\ Generation!NoVariantTwice /\ TurnsPaced /\ Generation!Legible
      BY <1>1, <2>2, Zenon DEF Generation!Legible
    <3>2. /\ rowsFile \in Seq(GenerationLines) /\ rejectedFile \in Seq(GenerationLines)
          /\ Len(rowsFile) <= Target
      BY <1>1, <3>1 DEF GenerationTyped, OnRecord
    <3>3. /\ place' = "coverage" /\ at' = 1 /\ runs' = runs + 1
          /\ UNCHANGED <<rowsFile, rejectedFile, written>>
      BY <1>3, <2>2 DEF Generation!Start, Generation!fileVars
    <3>4. /\ rows' = rowsFile
          /\ variants' = [db \in Generation!Databases |->
                            Generation!Untried(db, rowsFile, rejectedFile)]
      <4>1. PICK kept : kept = SubSeq(rowsFile, 1, Generation!Min({Target, Len(rowsFile)}))
        OBVIOUS
      <4>2. /\ rows' = kept
            /\ variants' = [db \in Generation!Databases |-> Generation!Untried(db, kept, rejectedFile)]
        BY <1>3, <2>2, <4>1 DEF Generation!Start
      <4>3. kept = rowsFile
        BY <3>2, <4>1, AllKept, Zenon
      <4>. QED
        BY <4>2, <4>3
    <3>. DEFINE n == Len(rowsFile) + Len(rejectedFile)
                next(db) == Generation!Untried(db, rowsFile, rejectedFile)
    <3>5. n \in Nat /\ Under(rowsFile, n) /\ Under(rejectedFile, n)
      <4>1. Len(rowsFile) \in Nat /\ Len(rejectedFile) \in Nat
        BY <3>2, LenProperties
      <4>. QED
        BY <3>1, <4>1 DEF OnRecord, Numbered
    <3>6. ASSUME NEW db
          PROVE  /\ next(db) \in 0..n
                 /\ \A i \in DOMAIN rowsFile : rowsFile[i].db = db => rowsFile[i].variant < next(db)
                 /\ \A i \in DOMAIN rejectedFile :
                      rejectedFile[i].db = db => rejectedFile[i].variant < next(db)
      <4>. HIDE DEF n
      <4>. QED
        BY <3>2, <3>5, UntriedIsNext, Zenon
    <3>. HIDE DEF n, next
    <3>7. /\ variants' \in [Generation!Databases -> Nat]
          /\ \A db \in Generation!Databases : variants'[db] = next(db) /\ variants'[db] <= n
      <4>1. variants' = [db \in Generation!Databases |-> next(db)]
        BY <3>4 DEF next
      <4>2. \A db \in Generation!Databases : next(db) \in Nat /\ next(db) <= n
        BY <3>5, <3>6
      <4>. QED
        BY <4>1, <4>2
    <3>8. Below(rowsFile, variants') /\ Below(rejectedFile, variants')
      <4>1. /\ \A i \in DOMAIN rowsFile : rowsFile[i] \in GenerationLines
            /\ \A i \in DOMAIN rejectedFile : rejectedFile[i] \in GenerationLines
        BY <3>2, ElementOfSeq, LenProperties
      <4>2. /\ \A i \in DOMAIN rowsFile : rowsFile[i].db \in Generation!Databases
            /\ \A i \in DOMAIN rejectedFile : rejectedFile[i].db \in Generation!Databases
        BY <4>1 DEF GenerationLines
      <4>. QED
        BY <3>6, <3>7, <4>2 DEF Below
    <3>9. GenerationTyped'
      BY <1>1, <3>2, <3>3, <3>4, <3>7 DEF GenerationTyped
    <3>10. Advanced'
      <4>1. \A k \in DOMAIN Coverage : ~(k < 1)
        BY PlanFacts
      <4>. QED
        BY <2>2, <3>3, <4>1 DEF Advanced
    <3>11. Numbered(rowsFile)' /\ Numbered(rejectedFile)'
      BY <3>3, <3>5, <3>8 DEF Numbered, Under, Below, n
    <3>12. OnRecord'
      <4>1. AllCovered(rowsFile)' \/ OnePerDatabase(rowsFile)'
        BY <3>1, <3>3, Zenon DEF OnRecord, AllCovered, OnePerDatabase
      <4>2. \A db \in Generation!Databases : variants'[db] <= Len(rowsFile') + Len(rejectedFile')
        BY <3>3, <3>7 DEF n
      <4>. QED
        BY <3>2, <3>3, <3>4, <3>11, <4>1, <4>2, Zenon DEF OnRecord
    <3>13. Generation!NoVariantTwice'
      BY <3>1, <3>3 DEF Generation!NoVariantTwice, Generation!SameVariant
    <3>14. TurnsPaced'
      <4>1. \A i, j \in DOMAIN Small, a, b \in Nat :
              i < j /\ InStep(i, j, a, b) => InStep(i, j, a, b)'
        BY <1>1, <3>3 DEF InStep, GenerationTyped
      <4>. QED
        BY <1>1, <3>1, <3>3, <4>1, PacedOn
    <3>. QED
      BY <3>9, <3>10, <3>12, <3>13, <3>14, Zenon DEF GenerationInv
  <2>. QED
    BY <2>1, <2>2
<1>4. CASE Generation!Cover
  <2>1. /\ place = "coverage" /\ at \in DOMAIN Coverage /\ UNCHANGED <<written, runs>>
        /\ at \in Nat
    BY <1>1, <1>4, PlanFacts DEF Generation!Cover, GenerationTyped
  <2>2. CASE Generation!Covered(Coverage[at])
    <3>1. at' = at + 1 /\ UNCHANGED <<rowsFile, rejectedFile, rows, variants, place>>
      BY <1>4, <2>2 DEF Generation!Cover, Generation!fileVars
    <3>2. GenerationTyped'
      BY <1>1, <2>1, <3>1 DEF GenerationTyped
    <3>3. Advanced'
      <4>1. ASSUME NEW k \in DOMAIN Coverage, k < at + 1
            PROVE  Generation!Covered(Coverage[k])'
        <5>1. k < at \/ k = at
          BY <2>1, <4>1, PlanFacts
        <5>2. Generation!Covered(Coverage[k])
          BY <1>1, <2>1, <2>2, <5>1, Zenon DEF Advanced
        <5>. QED
          BY <3>1, <5>2 DEF Generation!Covered
      <4>. QED
        BY <1>1, <2>1, <3>1, <4>1 DEF Advanced, AllCovered
    <3>4. ASSUME TurnsPaced
          PROVE  TurnsPaced'
      <4>1. \A i, j \in DOMAIN Small, a, b \in Nat :
              i < j /\ InStep(i, j, a, b) => InStep(i, j, a, b)'
        BY <2>1, <3>1 DEF InStep
      <4>. QED
        BY <1>1, <3>1, <3>4, <4>1, PacedOn
    <3>5. Generating' => Generating
      BY <3>1 DEF Generating
    <3>. QED
      BY <1>2, <3>1, <3>2, <3>3, <3>4, <3>5
  <2>3. CASE ~Generation!Covered(Coverage[at])
    <3>1. /\ Generation!Attempt(Coverage[at], "whole") /\ at' = at
          /\ place' \in {"coverage", "failed", "stopped"}
      BY <1>4, <2>1, <2>3 DEF Generation!Cover
    <3>. QED
      BY <2>1, <2>3, <3>1, CoverAttempt
  <2>. QED
    BY <2>2, <2>3
<1>5. CASE Generation!BeginRound
  <2>1. /\ UNCHANGED <<rowsFile, rejectedFile, rows, variants, written, runs>> /\ at' = 1
        /\ (place = "coverage" /\ at > Len(Coverage)) \/ place = "between"
        /\ place' = IF Len(rows) < Target THEN "round" ELSE "generated"
    BY <1>5 DEF Generation!BeginRound, Generation!fileVars
  <2>2. Len(rows) \in Nat /\ Target \in Nat /\ at \in Nat
    BY <1>1, PlanFacts, LenProperties DEF GenerationTyped
  <2>3. AllCovered(rows)
    <3>1. CASE place = "coverage" /\ at > Len(Coverage)
      <4>1. \A k \in DOMAIN Coverage : k < at
        BY <2>2, <3>1, PlanFacts
      <4>2. \A k \in DOMAIN Coverage : \E i \in DOMAIN rows : rows[i].db = Coverage[k]
        BY <1>1, <3>1, <4>1, Zenon DEF Advanced, Generation!Covered
      <4>. QED
        BY <4>2 DEF AllCovered, Listed, Generation!ToSet
    <3>2. CASE place = "between"
      BY <1>1, <3>2 DEF Advanced
    <3>. QED
      BY <2>1, <3>1, <3>2
  <2>4. GenerationTyped'
    BY <1>1, <2>1 DEF GenerationTyped
  <2>5. Advanced'
    BY <1>1, <2>1, <2>2, <2>3 DEF Advanced, AllCovered
  <2>6. ASSUME TurnsPaced
        PROVE  TurnsPaced'
    <3>1. \A i \in DOMAIN Small : ~(i < 1)
      BY PlanFacts
    <3>2. \A i, j \in DOMAIN Small, a, b \in Nat :
            i < j /\ InStep(i, j, a, b) => InStep(i, j, a, b)'
      BY <2>1, <2>2, <3>1 DEF InStep
    <3>. QED
      BY <1>1, <2>1, <2>6, <3>2, PacedOn
  <2>7. Generating' => Generating
    BY <2>1 DEF Generating
  <2>. QED
    BY <1>2, <2>1, <2>4, <2>5, <2>6, <2>7
<1>6. CASE Generation!TakeTurn
  <2>1. /\ place = "round" /\ at \in DOMAIN Small /\ Len(rows) < Target
        /\ UNCHANGED <<place, written, runs>> /\ at' = at + 1
        /\ Generation!Attempt(Small[at], "whole")
    BY <1>1, <1>6, PlanFacts DEF Generation!TakeTurn, GenerationTyped
  <2>2. place' = "round" /\ UNCHANGED <<written, runs>>
    BY <2>1
  <2>3. "whole" \in {"whole", "unterminated", "garbled"}
    OBVIOUS
  <2>. QED
    BY <2>1, <2>2, <2>3, TurnAttempt
<1>7. CASE Generation!EndRound
  <2>1. /\ UNCHANGED <<rowsFile, rejectedFile, rows, variants, at, written, runs>>
        /\ place = "round" /\ (at > Len(Small) \/ Len(rows) >= Target)
        /\ place' \in {"failed", "between"}
    BY <1>7 DEF Generation!EndRound, Generation!fileVars
  <2>2. Len(rows) \in Nat /\ Target \in Nat /\ at \in Nat
    BY <1>1, PlanFacts, LenProperties DEF GenerationTyped
  <2>3. GenerationTyped'
    BY <1>1, <2>1 DEF GenerationTyped
  <2>4. Advanced'
    BY <1>1, <2>1 DEF Advanced, AllCovered
  <2>5. ASSUME TurnsPaced
        PROVE  TurnsPaced'
    <3>1. at > Len(Small) => \A j \in DOMAIN Small : ~(at <= j)
      BY <2>2, PlanFacts
    <3>2. \A i, j \in DOMAIN Small, a, b \in Nat :
            i < j /\ InStep(i, j, a, b) => InStep(i, j, a, b)'
      BY <2>1, <2>2, <3>1 DEF InStep
    <3>. QED
      BY <1>1, <2>1, <2>5, <3>2, PacedOn
  <2>6. Generating' => Generating
    BY <2>1 DEF Generating
  <2>. QED
    BY <1>2, <2>1, <2>3, <2>4, <2>5, <2>6
<1>8. CASE Generation!WriteOutput
  <2>1. /\ place = "generated" /\ written' = written + 1
        /\ UNCHANGED <<rowsFile, rejectedFile, rows, variants, place, at, runs>>
    BY <1>8 DEF Generation!WriteOutput, Generation!fileVars, Generation!memory
  <2>2. GenerationTyped'
    BY <1>1, <2>1 DEF GenerationTyped
  <2>3. Advanced'
    BY <1>1, <2>1 DEF Advanced, AllCovered
  <2>4. ASSUME TurnsPaced
        PROVE  TurnsPaced'
    <3>1. \A i, j \in DOMAIN Small, a, b \in Nat :
            i < j /\ InStep(i, j, a, b) => InStep(i, j, a, b)'
      BY <2>1 DEF InStep
    <3>. QED
      BY <1>1, <2>1, <2>4, <3>1, PacedOn
  <2>. QED
    BY <1>2, <2>1, <2>2, <2>3, <2>4 DEF Generating
<1>9. CASE Generation!Stop
  <2>1. place' = "stopped" /\ Generating /\ UNCHANGED <<at, written, runs>>
    BY <1>9 DEF Generation!Stop, Generating
  <2>2. CASE UNCHANGED <<rows, variants, rowsFile, rejectedFile>>
    <3>1. GenerationTyped'
      BY <1>1, <2>1, <2>2 DEF GenerationTyped
    <3>2. Advanced'
      BY <1>1, <2>1, <2>2 DEF Advanced, AllCovered
    <3>3. ASSUME TurnsPaced
          PROVE  TurnsPaced'
      <4>1. \A i, j \in DOMAIN Small, a, b \in Nat :
              i < j /\ InStep(i, j, a, b) => InStep(i, j, a, b)'
        BY <2>1, <2>2 DEF InStep
      <4>. QED
        BY <1>1, <2>2, <3>3, <4>1, PacedOn
    <3>. QED
      BY <1>2, <2>1, <2>2, <3>1, <3>2, <3>3 DEF Generating
  <2>3. ASSUME NEW state \in {"unterminated", "garbled"}, place = "coverage",
               at <= Len(Coverage), ~Generation!Covered(Coverage[at]),
               Generation!Attempt(Coverage[at], state)
        PROVE  GenerationInv'
    <3>1. at \in DOMAIN Coverage
      BY <1>1, <2>3, PlanFacts DEF GenerationTyped
    <3>. QED
      BY <2>1, <2>3, <3>1, CoverAttempt
  <2>4. ASSUME NEW state \in {"unterminated", "garbled"}, place = "round",
               at <= Len(Small), Len(rows) < Target, Generation!Attempt(Small[at], state)
        PROVE  GenerationInv'
    <3>1. at \in DOMAIN Small
      BY <1>1, <2>4, PlanFacts DEF GenerationTyped
    <3>. QED
      BY <2>1, <2>4, <3>1, TurnAttempt
  <2>. QED
    BY <1>9, <2>2, <2>3, <2>4 DEF Generation!Stop, Generation!fileVars
<1>10. CASE UNCHANGED Generation!vars
  <2>1. UNCHANGED <<rowsFile, rejectedFile, rows, variants, place, at, written, runs>>
    BY <1>10 DEF Generation!vars, Generation!fileVars, Generation!memory
  <2>2. GenerationTyped'
    BY <1>1, <2>1 DEF GenerationTyped
  <2>3. Advanced'
    BY <1>1, <2>1 DEF Advanced, AllCovered, Generation!Covered
  <2>4. ASSUME TurnsPaced
        PROVE  TurnsPaced'
    <3>1. \A i, j \in DOMAIN Small, a, b \in Nat :
            i < j /\ InStep(i, j, a, b) => InStep(i, j, a, b)'
      BY <2>1 DEF InStep
    <3>. QED
      BY <1>1, <2>1, <2>4, <3>1, PacedOn
  <2>. QED
    BY <1>2, <2>1, <2>2, <2>3, <2>4 DEF Generating
<1>. QED
  BY <1>3, <1>4, <1>5, <1>6, <1>7, <1>8, <1>9, <1>10 DEF Generation!Next

LEMMA GenerationStarts ==
  Generation!Init => GenerationInv
<1>. SUFFICES ASSUME Generation!Init
              PROVE  GenerationInv
  OBVIOUS
<1>1. /\ rowsFile = <<>> /\ rejectedFile = <<>> /\ rows = <<>>
      /\ variants = [db \in Generation!Databases |-> 0]
      /\ place = "stopped" /\ at = 1 /\ written = 0 /\ runs = 0
  BY DEF Generation!Init
<1>2. \A i \in DOMAIN rowsFile, j \in DOMAIN rejectedFile : FALSE
  BY <1>1
<1>3. rowsFile \in Seq(GenerationLines) /\ DOMAIN rowsFile = {} /\ DOMAIN rejectedFile = {}
  BY <1>1
<1>4. GenerationTyped
  BY <1>1, <1>3 DEF GenerationTyped
<1>5. Advanced
  BY <1>1 DEF Advanced
<1>6. OnRecord
  BY <1>1, <1>3, PlanFacts DEF OnRecord, Generating, Numbered, Under, OnePerDatabase
<1>7. Generation!NoVariantTwice
  BY <1>3 DEF Generation!NoVariantTwice
<1>8. TurnsPaced
  <2>1. \A x : Generation!Tried(rowsFile, x) = {} /\ Generation!Tried(rejectedFile, x) = {}
    BY <1>3 DEF Generation!Tried
  <2>2. Generation!Cardinality({}) = 0
    BY SameCount, FS_EmptySet, Zenon
  <2>3. \A x : Generation!Attempts(x) = 0 + 0
    BY <2>1, <2>2, Zenon DEF Generation!Attempts
  <2>4. \A i, j : InStep(i, j, 0 + 0, 0 + 0)
    BY <1>1 DEF InStep
  <2>. QED
    BY <2>3, <2>4, Zenon DEF TurnsPaced, Paced
<1>. QED
  BY <1>4, <1>5, <1>6, <1>7, <1>8, Zenon DEF GenerationInv

\* Two databases in step are not further apart than the script was started.
LEMMA CorpusFollows ==
  GenerationInv => CorpusSound
<1>. SUFFICES ASSUME GenerationInv
              PROVE  CorpusSound
  OBVIOUS
<1>1. /\ GenerationTyped /\ Advanced
      /\ Generation!Legible => OnRecord /\ Generation!NoVariantTwice /\ TurnsPaced
  BY Zenon DEF GenerationInv
<1>2. ASSUME Generation!Legible, NEW i \in DOMAIN Small, NEW j \in DOMAIN Small,
             Generation!TurnsOnly(i), Generation!TurnsOnly(j)
      PROVE  Generation!Attempts(Small[i]) <= Generation!Attempts(Small[j]) + runs
  <2>1. \A x : Generation!Attempts(x) \in Nat
    BY <1>1, AttemptsAreCounts, Zenon
  <2>2. PICK a \in Nat : a = Generation!Attempts(Small[i])
    BY <2>1, Zenon
  <2>3. PICK b \in Nat : b = Generation!Attempts(Small[j])
    BY <2>1, Zenon
  <2>4. (i < j => InStep(i, j, a, b)) /\ (j < i => InStep(j, i, b, a))
    BY <1>1, <1>2, <2>2, <2>3, Zenon DEF TurnsPaced, Paced
  <2>5. i = j => a = b
    BY <2>2, <2>3, Zenon
  <2>6. a <= b + runs
    BY <1>1, <2>4, <2>5, PlanFacts DEF InStep, GenerationTyped
  <2>. QED
    BY <2>2, <2>3, <2>6, Zenon
<1>3. written > 0 =>
        (\A db \in Generation!ToSet(Coverage) : Generation!Covered(db)) /\ Len(rows) >= Target
  <2>1. written > 0 => AllCovered(rows) /\ Target <= Len(rows)
    BY <1>1 DEF Advanced
  <2>2. AllCovered(rows) => \A db \in Generation!ToSet(Coverage) : Generation!Covered(db)
    BY Zenon DEF AllCovered, Listed, Generation!Covered
  <2>. QED
    BY <2>1, <2>2
<1>. QED
  BY <1>1, <1>2, <1>3, Zenon DEF CorpusSound, Generation!CorpusSound, Generation!EvenTurns

\* The generation keeps the invariant: the run in progress has in memory what is on
\* record, and the turns of the small databases are apart by the rounds cut short.
THEOREM CorpusKept == Generation!Spec => []GenerationInv
<1>1. Generation!Init => GenerationInv
  BY GenerationStarts
<1>2. GenerationInv /\ [Generation!Next]_Generation!vars => GenerationInv'
  BY GenerationSteps
<1>. QED
  BY <1>1, <1>2, PTL DEF Generation!Spec

\* However often the script is stopped, within a line too, and started again: no
\* variant is on record twice, the small databases keep pace, and what is published
\* covers the list and meets the target.
THEOREM CorpusStaysSound == Generation!Spec => []CorpusSound
  BY CorpusKept, CorpusFollows, PTL

-----------------------------------------------------------------------------
(* The drift factory and the catalogue that reads its episodes back: along a diff
   the listing and the copy of the database change together, operation by operation,
   and the diffs that reach a record can be applied to the end. *)

Changes == {"rename_column", "rename_table", "replace_column", "add_column", "metric_definition_change"}

IsDiff(ops) ==
  ops \in Seq(Factory!ToSet(ops)) /\ \A i \in DOMAIN ops : ops[i].type \in Changes

\* A chain of copies, and of listings, along the first n operations of a diff.
Copies(copy, db, ops, n) ==
  /\ copy = [k \in 0..n |-> copy[k]]
  /\ copy[0] = db
  /\ \A k \in 1..n : copy[k] = IF copy[k - 1] = Factory!NoDatabase THEN Factory!NoDatabase
                               ELSE Factory!MaterializeOperation(copy[k - 1], ops[k])

Listings(tables, db, ops, n) ==
  /\ tables = [k \in 0..n |-> tables[k]]
  /\ tables[0] = Factory!Listing(db)
  /\ \A k \in 1..n : tables[k] = Factory!Replayed(tables[k - 1], ops[k])

\* A set of lengths has one whose predecessor is outside it: induction along a diff
\* by the shortest counterexample.
LEMMA LeastOf ==
  ASSUME NEW n \in Nat, NEW S, S \subseteq 0..n, S # {}
  PROVE  \E m \in S : m - 1 \notin S
<1>1. S \subseteq Nat
  OBVIOUS
<1>2. Min(S) \in S /\ \A x \in S : Min(S) <= x
  BY <1>1, OldestOf
<1>3. PICK m \in S : \A x \in S : m <= x
  BY <1>2, Zenon
<1>4. m - 1 \notin S
  BY <1>1, <1>3
<1>. QED
  BY <1>4

LEMMA CopiesExist ==
  ASSUME NEW ops, NEW db, NEW n \in Nat
  PROVE  \E copy : Copies(copy, db, ops, n)
<1>. DEFINE S == {m \in 0..n : ~\E copy : Copies(copy, db, ops, m)}
<1>1. SUFFICES ASSUME S # {}
               PROVE  FALSE
  <2>1. n \in 0..n
    OBVIOUS
  <2>. QED
    BY <2>1
<1>2. PICK m \in S : m - 1 \notin S
  <2>1. S \subseteq 0..n
    OBVIOUS
  <2>. HIDE DEF S
  <2>. QED
    BY <1>1, <2>1, LeastOf
<1>3. CASE m = 0
  <2>. DEFINE copy == [k \in 0..0 |-> db]
  <2>1. Copies(copy, db, ops, 0)
    BY DEF Copies
  <2>. QED
    BY <1>2, <1>3, <2>1
<1>4. CASE m # 0
  <2>1. m - 1 \in 0..n /\ m \in 0..n /\ m >= 1
    BY <1>2, <1>4
  <2>2. PICK copy : Copies(copy, db, ops, m - 1)
    BY <1>2, <2>1
  <2>. DEFINE last == IF copy[m - 1] = Factory!NoDatabase THEN Factory!NoDatabase
                      ELSE Factory!MaterializeOperation(copy[m - 1], ops[m])
              longer == [k \in 0..m |-> IF k = m THEN last ELSE copy[k]]
  <2>3. Copies(longer, db, ops, m)
    <3>1. longer[0] = db
      BY <2>1, <2>2 DEF Copies
    <3>2. longer[m] = last /\ longer[m - 1] = copy[m - 1]
      BY <2>1
    <3>3. \A k \in 1..(m - 1) : longer[k] = copy[k] /\ longer[k - 1] = copy[k - 1]
      BY <2>1
    <3>4. longer = [k \in 0..m |-> longer[k]]
      OBVIOUS
    <3>. HIDE DEF longer
    <3>5. \A k \in 1..(m - 1) : longer[k] =
            IF longer[k - 1] = Factory!NoDatabase THEN Factory!NoDatabase
            ELSE Factory!MaterializeOperation(longer[k - 1], ops[k])
      BY <2>2, <3>3 DEF Copies
    <3>6. \A k \in 1..m : k = m \/ k \in 1..(m - 1)
      BY <2>1
    <3>. QED
      BY <3>1, <3>2, <3>4, <3>5, <3>6 DEF Copies
  <2>. QED
    BY <1>2, <2>3
<1>. QED
  BY <1>3, <1>4

LEMMA MaterializedBy ==
  ASSUME NEW ops, Len(ops) \in Nat, NEW db
  PROVE  \E copy : Copies(copy, db, ops, Len(ops)) /\ Factory!Materialize(db, ops) = copy[Len(ops)]
<1>. DEFINE Chain(copy) ==
       copy = [n \in 0..Len(ops) |->
         IF n = 0 THEN db
         ELSE IF copy[n - 1] = Factory!NoDatabase THEN Factory!NoDatabase
         ELSE Factory!MaterializeOperation(copy[n - 1], ops[n])]
<1>1. PICK copy : Copies(copy, db, ops, Len(ops))
  BY CopiesExist, Zenon
<1>2. Chain(copy)
  BY <1>1 DEF Copies
<1>3. Chain(CHOOSE c : Chain(c))
  BY <1>2
<1>4. \A c : Chain(c) => Copies(c, db, ops, Len(ops))
  BY DEF Copies
<1>5. Factory!Materialize(db, ops) = (CHOOSE c : Chain(c))[Len(ops)]
  BY DEF Factory!Materialize
<1>. QED
  BY <1>3, <1>4, <1>5

LEMMA ListingsExist ==
  ASSUME NEW ops, NEW db, NEW n \in Nat
  PROVE  \E tables : Listings(tables, db, ops, n)
<1>. DEFINE S == {m \in 0..n : ~\E tables : Listings(tables, db, ops, m)}
<1>1. SUFFICES ASSUME S # {}
               PROVE  FALSE
  <2>1. n \in 0..n
    OBVIOUS
  <2>. QED
    BY <2>1
<1>2. PICK m \in S : m - 1 \notin S
  <2>1. S \subseteq 0..n
    OBVIOUS
  <2>. HIDE DEF S
  <2>. QED
    BY <1>1, <2>1, LeastOf
<1>3. CASE m = 0
  <2>. DEFINE tables == [k \in 0..0 |-> Factory!Listing(db)]
  <2>1. Listings(tables, db, ops, 0)
    BY DEF Listings
  <2>. QED
    BY <1>2, <1>3, <2>1
<1>4. CASE m # 0
  <2>1. m - 1 \in 0..n /\ m \in 0..n /\ m >= 1
    BY <1>2, <1>4
  <2>2. PICK tables : Listings(tables, db, ops, m - 1)
    BY <1>2, <2>1
  <2>. DEFINE longer == [k \in 0..m |-> IF k = m THEN Factory!Replayed(tables[m - 1], ops[m]) ELSE tables[k]]
  <2>3. Listings(longer, db, ops, m)
    <3>1. longer[0] = Factory!Listing(db)
      BY <2>1, <2>2 DEF Listings
    <3>2. longer[m] = Factory!Replayed(tables[m - 1], ops[m]) /\ longer[m - 1] = tables[m - 1]
      BY <2>1
    <3>3. \A k \in 1..(m - 1) : longer[k] = tables[k] /\ longer[k - 1] = tables[k - 1]
      BY <2>1
    <3>4. longer = [k \in 0..m |-> longer[k]]
      OBVIOUS
    <3>. HIDE DEF longer
    <3>5. \A k \in 1..(m - 1) : longer[k] = Factory!Replayed(longer[k - 1], ops[k])
      BY <2>2, <3>3 DEF Listings
    <3>6. \A k \in 1..m : k = m \/ k \in 1..(m - 1)
      BY <2>1
    <3>. QED
      BY <3>1, <3>2, <3>4, <3>5, <3>6 DEF Listings
  <2>. QED
    BY <1>2, <2>3
<1>. QED
  BY <1>3, <1>4

LEMMA AppliedBy ==
  ASSUME NEW ops, Len(ops) \in Nat, NEW db
  PROVE  \E tables : Listings(tables, db, ops, Len(ops))
                     /\ Factory!ApplySchemaDiff(db, ops) = tables[Len(ops)]
<1>. DEFINE Chain(tables) ==
       tables = [n \in 0..Len(ops) |->
         IF n = 0 THEN Factory!Listing(db) ELSE Factory!Replayed(tables[n - 1], ops[n])]
<1>1. PICK tables : Listings(tables, db, ops, Len(ops))
  BY ListingsExist, Zenon
<1>2. Chain(tables)
  BY <1>1 DEF Listings
<1>3. Chain(CHOOSE t : Chain(t))
  BY <1>2
<1>4. \A t : Chain(t) => Listings(t, db, ops, Len(ops))
  BY DEF Listings
<1>5. Factory!ApplySchemaDiff(db, ops) = (CHOOSE t : Chain(t))[Len(ops)]
  BY DEF Factory!ApplySchemaDiff
<1>. QED
  BY <1>3, <1>4, <1>5

-----------------------------------------------------------------------------
\* A table keeps its column names apart; a listing shows its columns when it has the
\* same names and types, in any order.
Shape(column) == <<column.name, column.type>>
Shapes(columns) == {Shape(columns[i]) : i \in DOMAIN columns}

Lists(listing, columns) ==
  /\ listing \in Seq(Factory!ToSet(listing))
  /\ Len(listing) = Len(columns) /\ Factory!ToSet(listing) = Shapes(columns)

Lawful(db) == \A t \in DOMAIN db : Factory!IsTable(db[t])

\* No table of a database has the name of a view.
ClearOfViews(db) == DOMAIN db \intersect DOMAIN Views = {}

Shows(tables, db) ==
  /\ ClearOfViews(db) /\ DOMAIN tables = DOMAIN db \union DOMAIN Views
  /\ \A t \in DOMAIN db : Lists(tables[t], db[t])

LEMMA SequenceOf ==
  ASSUME NEW s
  PROVE  s \in Seq(Factory!ToSet(s)) <=>
           \E n \in Nat : DOMAIN s = 1..n /\ s = [i \in 1..n |-> s[i]] /\ Len(s) = n
<1>1. ASSUME s \in Seq(Factory!ToSet(s))
      PROVE  \E n \in Nat : DOMAIN s = 1..n /\ s = [i \in 1..n |-> s[i]] /\ Len(s) = n
  BY <1>1, LenProperties
<1>2. ASSUME NEW n \in Nat, DOMAIN s = 1..n, s = [i \in 1..n |-> s[i]]
      PROVE  s \in Seq(Factory!ToSet(s))
  <2>1. s \in [1..n -> Factory!ToSet(s)]
    BY <1>2 DEF Factory!ToSet
  <2>. QED
    BY <2>1, IsASeq
<1>. QED
  BY <1>1, <1>2

\* A function on 1..n is a sequence.
LEMMA Tabulated ==
  ASSUME NEW s, NEW n \in Nat, DOMAIN s = 1..n, s = [i \in 1..n |-> s[i]]
  PROVE  s \in Seq(Factory!ToSet(s)) /\ Len(s) = n
<1>1. s \in [1..n -> Factory!ToSet(s)]
  BY DEF Factory!ToSet
<1>. QED
  BY <1>1, IsASeq, LenProperties

\* The listing after a rename or a replacement, as Replayed has it.
Relisted(listing, op) ==
  [i \in DOMAIN listing |->
     IF listing[i][1] # op.old_name THEN listing[i]
     ELSE <<op.new_name, IF op.type = "replace_column" THEN op.declared_type ELSE listing[i][2]>>]

LEMMA ListsRelisted ==
  ASSUME NEW columns, NEW changed, NEW listing, NEW op, Lists(listing, columns),
         Len(changed) = Len(columns),
         \A i \in DOMAIN columns :
           (IF columns[i].name # op.old_name THEN Shape(columns[i])
            ELSE <<op.new_name, IF op.type = "replace_column" THEN op.declared_type ELSE columns[i].type>>)
             \in Shapes(changed),
         \A x \in Shapes(changed) : \E i \in DOMAIN columns :
           x = IF columns[i].name # op.old_name THEN Shape(columns[i])
               ELSE <<op.new_name, IF op.type = "replace_column" THEN op.declared_type ELSE columns[i].type>>
  PROVE  Lists(Relisted(listing, op), changed)
<1>. DEFINE new == Relisted(listing, op)
<1>1. PICK n \in Nat : DOMAIN listing = 1..n /\ Len(listing) = n
  BY SequenceOf DEF Lists
<1>2. /\ DOMAIN new = 1..n /\ new = [i \in 1..n |-> new[i]]
      /\ \A i \in 1..n : new[i] =
           IF listing[i][1] # op.old_name THEN listing[i]
           ELSE <<op.new_name, IF op.type = "replace_column" THEN op.declared_type ELSE listing[i][2]>>
  BY <1>1 DEF Relisted
<1>. HIDE DEF new
<1>3. new \in Seq(Factory!ToSet(new)) /\ Len(new) = n
  BY <1>2, Tabulated
<1>4. ASSUME NEW i \in 1..n
      PROVE  new[i] \in Shapes(changed)
  <2>1. listing[i] \in Shapes(columns)
    BY <1>1 DEF Lists, Factory!ToSet
  <2>2. PICK j \in DOMAIN columns : listing[i] = Shape(columns[j])
    BY <2>1, Zenon DEF Shapes
  <2>3. listing[i][1] = columns[j].name /\ listing[i][2] = columns[j].type
    BY <2>2 DEF Shape
  <2>4. new[i] = IF columns[j].name # op.old_name THEN Shape(columns[j])
                 ELSE <<op.new_name, IF op.type = "replace_column" THEN op.declared_type ELSE columns[j].type>>
    BY <1>2, <2>2, <2>3
  <2>. QED
    BY <2>4
<1>5. ASSUME NEW x \in Shapes(changed)
      PROVE  \E i \in 1..n : x = new[i]
  <2>1. PICK j \in DOMAIN columns :
          x = IF columns[j].name # op.old_name THEN Shape(columns[j])
              ELSE <<op.new_name, IF op.type = "replace_column" THEN op.declared_type ELSE columns[j].type>>
    BY <1>5, Zenon
  <2>2. Shape(columns[j]) \in Factory!ToSet(listing)
    BY Zenon DEF Lists, Shapes
  <2>3. PICK i \in 1..n : Shape(columns[j]) = listing[i]
    BY <1>1, <2>2 DEF Factory!ToSet
  <2>4. listing[i][1] = columns[j].name /\ listing[i][2] = columns[j].type
    BY <2>3 DEF Shape
  <2>. QED
    BY <1>2, <2>1, <2>3, <2>4
<1>6. Factory!ToSet(new) = Shapes(changed)
  BY <1>2, <1>4, <1>5 DEF Factory!ToSet
<1>7. Len(new) = Len(changed)
  BY <1>1, <1>3 DEF Lists
<1>. QED
  BY <1>3, <1>6, <1>7, Zenon DEF Lists, new

\* ALTER TABLE RENAME COLUMN.
LEMMA WithNameListed ==
  ASSUME NEW columns, Factory!IsTable(columns), NEW listing, Lists(listing, columns), NEW op,
         op.old_name \in Factory!Names(columns), op.new_name \notin Factory!Names(columns),
         op.type = "replace_column" =>
           \A i \in DOMAIN columns : columns[i].name = op.old_name => columns[i].type = op.declared_type
  PROVE  /\ Factory!IsTable(Factory!WithName(columns, op.old_name, op.new_name))
         /\ Lists(Relisted(listing, op), Factory!WithName(columns, op.old_name, op.new_name))
<1>. DEFINE new == Factory!WithName(columns, op.old_name, op.new_name)
<1>1. PICK n \in Nat : DOMAIN columns = 1..n /\ Len(columns) = n
  BY SequenceOf DEF Factory!IsTable
<1>2. /\ DOMAIN new = 1..n /\ new = [i \in 1..n |-> new[i]]
      /\ \A i \in 1..n : new[i] = IF columns[i].name = op.old_name
                                 THEN [columns[i] EXCEPT !.name = op.new_name] ELSE columns[i]
  BY <1>1 DEF Factory!WithName
<1>. HIDE DEF new
<1>3. new \in Seq(Factory!ToSet(new)) /\ Len(new) = n
  BY <1>2, Tabulated
<1>4. \A i \in 1..n : DOMAIN columns[i] = {"name", "type", "cells", "indexed"}
  BY <1>1 DEF Factory!IsTable
<1>5. \A i \in 1..n : /\ DOMAIN new[i] = {"name", "type", "cells", "indexed"}
                       /\ new[i].type = columns[i].type
                       /\ new[i].name = IF columns[i].name = op.old_name THEN op.new_name ELSE columns[i].name
  BY <1>2, <1>4
<1>6. \A i \in 1..n : Shape(new[i]) =
        IF columns[i].name # op.old_name THEN Shape(columns[i])
        ELSE <<op.new_name, columns[i].type>>
  BY <1>5 DEF Shape
<1>7. \A i \in 1..n : Shape(new[i]) =
        IF columns[i].name # op.old_name THEN Shape(columns[i])
        ELSE <<op.new_name, IF op.type = "replace_column" THEN op.declared_type ELSE columns[i].type>>
  BY <1>1, <1>6
<1>8. Factory!IsTable(new)
  <2>1. \A i \in 1..n : columns[i].name # op.new_name
    BY <1>1 DEF Factory!Names
  <2>2. \A i, j \in 1..n : columns[i].name = columns[j].name => i = j
    BY <1>1 DEF Factory!IsTable
  <2>3. \A i, j \in 1..n : new[i].name = new[j].name => i = j
    BY <1>5, <2>1, <2>2
  <2>. QED
    BY <1>2, <1>3, <1>5, <2>3 DEF Factory!IsTable
<1>9. Len(new) = Len(columns)
  BY <1>1, <1>3
<1>10. \A x \in Shapes(new) : \E i \in 1..n : x = Shape(new[i])
  BY <1>2 DEF Shapes
<1>11. \A i \in 1..n : Shape(new[i]) \in Shapes(new)
  BY <1>2 DEF Shapes
<1>12. Lists(Relisted(listing, op), new)
  BY <1>1, <1>7, <1>9, <1>10, <1>11, ListsRelisted
<1>. QED
  BY <1>8, <1>12 DEF new

\* ALTER TABLE ADD COLUMN.
LEMMA Appended ==
  ASSUME NEW columns, Factory!IsTable(columns), NEW column,
         DOMAIN column = {"name", "type", "cells", "indexed"},
         column.name \notin Factory!Names(columns)
  PROVE  /\ Factory!IsTable(Append(columns, column))
         /\ Len(Append(columns, column)) = Len(columns) + 1
         /\ DOMAIN Append(columns, column) = 1..(Len(columns) + 1)
         /\ \A i \in 1..Len(columns) : Append(columns, column)[i] = columns[i]
         /\ Append(columns, column)[Len(columns) + 1] = column
<1>. DEFINE new == Append(columns, column)
<1>1. PICK n \in Nat : DOMAIN columns = 1..n /\ Len(columns) = n
  BY SequenceOf DEF Factory!IsTable
<1>2. columns \in Seq(Factory!ToSet(columns) \cup {column})
  BY SeqMonotonic DEF Factory!IsTable
<1>3. /\ Len(new) = n + 1 /\ new \in Seq(Factory!ToSet(columns) \cup {column})
      /\ \A i \in 1..n : new[i] = columns[i]
      /\ new[n + 1] = column
  BY <1>1, <1>2, AppendProperties
<1>4. DOMAIN new = 1..(n + 1) /\ new = [i \in 1..(n + 1) |-> new[i]]
  BY <1>3, LenProperties
<1>. HIDE DEF new
<1>5. new \in Seq(Factory!ToSet(new))
  BY <1>4, Tabulated
<1>6. \A i \in 1..n : columns[i].name # column.name
  BY <1>1 DEF Factory!Names
<1>7. /\ \A i \in 1..n : DOMAIN columns[i] = {"name", "type", "cells", "indexed"}
      /\ \A i, j \in 1..n : columns[i].name = columns[j].name => i = j
  BY <1>1 DEF Factory!IsTable
<1>8. \A i \in 1..(n + 1) : i \in 1..n \/ i = n + 1
  OBVIOUS
<1>9. \A i \in 1..(n + 1) : DOMAIN new[i] = {"name", "type", "cells", "indexed"}
  BY <1>3, <1>7, <1>8
<1>10. \A i, j \in 1..(n + 1) : new[i].name = new[j].name => i = j
  BY <1>3, <1>6, <1>7, <1>8
<1>11. Factory!IsTable(new)
  BY <1>4, <1>5, <1>9, <1>10 DEF Factory!IsTable
<1>. QED
  BY <1>1, <1>3, <1>4, <1>11 DEF new

LEMMA ListsAppended ==
  ASSUME NEW columns, Factory!IsTable(columns), NEW listing, Lists(listing, columns), NEW column,
         DOMAIN column = {"name", "type", "cells", "indexed"},
         column.name \notin Factory!Names(columns)
  PROVE  Lists(Append(listing, Shape(column)), Append(columns, column))
<1>. DEFINE new == Append(columns, column)
            longer == Append(listing, Shape(column))
<1>1. PICK n \in Nat : DOMAIN columns = 1..n /\ Len(columns) = n
  BY SequenceOf DEF Factory!IsTable
<1>2. DOMAIN listing = 1..n /\ Len(listing) = n
  BY <1>1, SequenceOf DEF Lists
<1>3. /\ Len(new) = n + 1 /\ DOMAIN new = 1..(n + 1)
      /\ \A i \in 1..n : new[i] = columns[i]
      /\ new[n + 1] = column
  BY <1>1, Appended
<1>4. listing \in Seq(Factory!ToSet(listing) \cup {Shape(column)})
  BY SeqMonotonic DEF Lists
<1>5. /\ Len(longer) = n + 1 /\ longer \in Seq(Factory!ToSet(listing) \cup {Shape(column)})
      /\ \A i \in 1..n : longer[i] = listing[i]
      /\ longer[n + 1] = Shape(column)
  BY <1>2, <1>4, AppendProperties
<1>6. DOMAIN longer = 1..(n + 1) /\ longer = [i \in 1..(n + 1) |-> longer[i]] /\ n + 1 \in Nat
  BY <1>5, LenProperties
<1>. HIDE DEF new, longer
<1>7. longer \in Seq(Factory!ToSet(longer))
  BY <1>6, Tabulated
<1>8. Factory!ToSet(longer) = Factory!ToSet(listing) \cup {Shape(column)}
  <2>1. \A i \in 1..(n + 1) : i \in 1..n \/ i = n + 1
    OBVIOUS
  <2>2. \A i \in 1..n : i \in 1..(n + 1)
    OBVIOUS
  <2>3. n + 1 \in 1..(n + 1)
    OBVIOUS
  <2>4. \A x \in Factory!ToSet(longer) : x \in Factory!ToSet(listing) \cup {Shape(column)}
    BY <1>2, <1>5, <1>6, <2>1, Zenon DEF Factory!ToSet
  <2>5. \A x \in Factory!ToSet(listing) : x \in Factory!ToSet(longer)
    BY <1>2, <1>5, <1>6, <2>2, Zenon DEF Factory!ToSet
  <2>6. Shape(column) \in Factory!ToSet(longer)
    BY <1>5, <1>6, <2>3, Zenon DEF Factory!ToSet
  <2>. QED
    BY <2>4, <2>5, <2>6
<1>9. Shapes(new) = Shapes(columns) \cup {Shape(column)}
  BY <1>1, <1>3 DEF Shapes
<1>10. Lists(longer, new)
  BY <1>3, <1>5, <1>7, <1>8, <1>9 DEF Lists
<1>. QED
  BY <1>10 DEF new, longer

\* ALTER TABLE DROP COLUMN.
LEMMA Dropped ==
  ASSUME NEW columns, Factory!IsTable(columns), NEW p \in DOMAIN columns
  PROVE  /\ Factory!IsTable(Factory!RemoveAt(columns, p))
         /\ Len(Factory!RemoveAt(columns, p)) = Len(columns) - 1
         /\ Shapes(Factory!RemoveAt(columns, p)) = {Shape(columns[i]) : i \in DOMAIN columns \ {p}}
<1>. DEFINE new == Factory!RemoveAt(columns, p)
            head == SubSeq(columns, 1, p - 1)
            tail == SubSeq(columns, p + 1, Len(columns))
            S == Factory!ToSet(columns)
<1>1. PICK n \in Nat : DOMAIN columns = 1..n /\ Len(columns) = n
  BY SequenceOf DEF Factory!IsTable
<1>2. columns \in Seq(S)
  BY DEF Factory!IsTable
<1>3. /\ head \in Seq(S) /\ Len(head) = p - 1
      /\ \A i \in 1..(p - 1) : head[i] = columns[i]
  BY <1>1, <1>2, SubSeqProperties
<1>4. /\ tail \in Seq(S) /\ Len(tail) = n - p
      /\ \A i \in 1..(n - p) : tail[i] = columns[p + i]
  BY <1>1, <1>2, SubSeqProperties
<1>5. new = head \o tail
  BY DEF Factory!RemoveAt
<1>. HIDE DEF head, tail, new
<1>6. /\ new \in Seq(S) /\ Len(new) = n - 1
      /\ \A i \in 1..(n - 1) : new[i] = IF i < p THEN columns[i] ELSE columns[i + 1]
  <2>1. /\ new \in Seq(S) /\ Len(new) = (p - 1) + (n - p)
        /\ \A i \in 1..((p - 1) + (n - p)) : new[i] = IF i <= p - 1 THEN head[i] ELSE tail[i - (p - 1)]
    <3>1. /\ new \in Seq(S) /\ Len(new) = Len(head) + Len(tail)
          /\ \A i \in 1..(Len(head) + Len(tail)) :
               new[i] = IF i <= Len(head) THEN head[i] ELSE tail[i - Len(head)]
      BY <1>3, <1>4, <1>5, ConcatProperties, Zenon
    <3>. QED
      BY <1>3, <1>4, <3>1
  <2>2. p \in 1..n /\ (p - 1) + (n - p) = n - 1
    BY <1>1
  <2>3. \A i \in 1..(n - 1) : i < p => head[i] = columns[i]
    BY <1>3, <2>2
  <2>4. \A i \in 1..(n - 1) : ~(i < p) => tail[i - (p - 1)] = columns[i + 1]
    <3>1. \A i \in 1..(n - 1) : ~(i < p) => i - (p - 1) \in 1..(n - p) /\ p + (i - (p - 1)) = i + 1
      BY <2>2
    <3>. QED
      BY <1>4, <3>1
  <2>. QED
    BY <2>1, <2>2, <2>3, <2>4
<1>7. DOMAIN new = 1..(n - 1) /\ new = [i \in 1..(n - 1) |-> new[i]] /\ n - 1 \in Nat
  BY <1>1, <1>6, LenProperties
<1>8. new \in Seq(Factory!ToSet(new))
  BY <1>7, Tabulated
<1>9. /\ \A i \in 1..n : DOMAIN columns[i] = {"name", "type", "cells", "indexed"}
      /\ \A i, j \in 1..n : columns[i].name = columns[j].name => i = j
  BY <1>1 DEF Factory!IsTable
<1>10. \A i \in 1..(n - 1) : i \in 1..n /\ i + 1 \in 1..n /\ (i < p => i # p) /\ (~(i < p) => i + 1 # p)
  BY <1>1
<1>11. \A i \in 1..(n - 1) : DOMAIN new[i] = {"name", "type", "cells", "indexed"}
  BY <1>6, <1>9, <1>10
<1>12. \A i, j \in 1..(n - 1) : new[i].name = new[j].name => i = j
  BY <1>1, <1>6, <1>9, <1>10
<1>13. Factory!IsTable(new)
  BY <1>7, <1>8, <1>11, <1>12 DEF Factory!IsTable
<1>14. \A i \in 1..(n - 1) : \E j \in 1..n \ {p} : new[i] = columns[j]
  BY <1>6, <1>10
<1>15. \A j \in 1..n \ {p} : \E i \in 1..(n - 1) : new[i] = columns[j]
  <2>. SUFFICES ASSUME NEW j \in 1..n, j # p
                PROVE  \E i \in 1..(n - 1) : new[i] = columns[j]
    OBVIOUS
  <2>1. CASE j < p
    <3>1. j \in 1..(n - 1) /\ new[j] = columns[j]
      BY <1>1, <1>6, <2>1
    <3>. QED
      BY <3>1
  <2>2. CASE ~(j < p)
    <3>1. j - 1 \in 1..(n - 1) /\ ~(j - 1 < p) /\ (j - 1) + 1 = j
      BY <1>1, <2>2
    <3>2. new[j - 1] = columns[j]
      BY <1>6, <3>1
    <3>. QED
      BY <3>1, <3>2
  <2>. QED
    BY <2>1, <2>2
<1>16. Shapes(new) = {Shape(columns[i]) : i \in 1..n \ {p}}
  BY <1>7, <1>14, <1>15 DEF Shapes
<1>. QED
  BY <1>1, <1>6, <1>13, <1>16 DEF new

\* A column with another type is added at the end and the old one dropped; the listing
\* replaces it in place.
LEMMA ReplacedListed ==
  ASSUME NEW columns, Factory!IsTable(columns), NEW listing, Lists(listing, columns), NEW op,
         op.type = "replace_column",
         op.old_name \in Factory!Names(columns), op.new_name \notin Factory!Names(columns),
         NEW column, DOMAIN column = {"name", "type", "cells", "indexed"},
         column.name = op.new_name, column.type = op.declared_type,
         NEW changed, changed = Factory!RemoveAt(Append(columns, column),
                                  Factory!Position(Append(columns, column), op.old_name))
  PROVE  Factory!IsTable(changed) /\ Lists(Relisted(listing, op), changed)
<1>. DEFINE longer == Append(columns, column)
            p == Factory!Position(longer, op.old_name)
<1>1. PICK n \in Nat : DOMAIN columns = 1..n /\ Len(columns) = n
  BY SequenceOf DEF Factory!IsTable
<1>2. /\ Factory!IsTable(longer) /\ Len(longer) = n + 1 /\ DOMAIN longer = 1..(n + 1)
      /\ \A i \in 1..n : longer[i] = columns[i]
      /\ longer[n + 1] = column
  BY <1>1, Appended
<1>. HIDE DEF longer
<1>3. op.old_name # op.new_name
  OBVIOUS
<1>4. p \in 1..(n + 1) /\ longer[p].name = op.old_name
  <2>1. PICK i \in 1..n : columns[i].name = op.old_name
    BY <1>1 DEF Factory!Names
  <2>2. i \in DOMAIN longer /\ longer[i].name = op.old_name
    BY <1>2, <2>1
  <2>. QED
    BY <1>2, <2>2 DEF Factory!Position
<1>. HIDE DEF p
<1>5. p \in 1..n /\ columns[p].name = op.old_name
  BY <1>2, <1>3, <1>4
<1>6. \A i \in 1..n : columns[i].name = op.old_name => i = p
  BY <1>1, <1>5 DEF Factory!IsTable
<1>7. /\ Factory!IsTable(changed) /\ Len(changed) = n
      /\ Shapes(changed) = {Shape(longer[i]) : i \in 1..(n + 1) \ {p}}
  <2>1. changed = Factory!RemoveAt(longer, p)
    BY DEF longer, p
  <2>2. p \in DOMAIN longer
    BY <1>2, <1>4
  <2>3. /\ Factory!IsTable(Factory!RemoveAt(longer, p))
        /\ Len(Factory!RemoveAt(longer, p)) = Len(longer) - 1
        /\ Shapes(Factory!RemoveAt(longer, p)) = {Shape(longer[i]) : i \in DOMAIN longer \ {p}}
    BY <1>2, <2>2, Dropped
  <2>. QED
    BY <1>2, <2>1, <2>3
<1>8. Shape(column) = <<op.new_name, op.declared_type>>
  BY DEF Shape
<1>9. \A i \in 1..n : (IF columns[i].name # op.old_name THEN Shape(columns[i])
                       ELSE <<op.new_name, op.declared_type>>) \in Shapes(changed)
  <2>1. ASSUME NEW i \in 1..n, columns[i].name # op.old_name
        PROVE  Shape(columns[i]) \in Shapes(changed)
    <3>1. i # p /\ i \in 1..(n + 1) /\ longer[i] = columns[i]
      BY <1>2, <1>5, <2>1
    <3>. QED
      BY <1>7, <3>1
  <2>2. <<op.new_name, op.declared_type>> \in Shapes(changed)
    <3>1. n + 1 \in 1..(n + 1) /\ n + 1 # p
      BY <1>5
    <3>. QED
      BY <1>2, <1>7, <1>8, <3>1
  <2>. QED
    BY <2>1, <2>2
<1>10. ASSUME NEW x \in Shapes(changed)
       PROVE  \E i \in 1..n : x = IF columns[i].name # op.old_name THEN Shape(columns[i])
                                  ELSE <<op.new_name, op.declared_type>>
  <2>1. PICK i \in 1..(n + 1) : i # p /\ x = Shape(longer[i])
    BY <1>7, <1>10
  <2>2. CASE i = n + 1
    BY <1>2, <1>5, <1>8, <2>1, <2>2
  <2>3. CASE i # n + 1
    <3>1. i \in 1..n /\ longer[i] = columns[i] /\ columns[i].name # op.old_name
      BY <1>2, <1>6, <2>1, <2>3
    <3>. QED
      BY <2>1, <3>1
  <2>. QED
    BY <2>2, <2>3
<1>11. Lists(Relisted(listing, op), changed)
  <2>1. Len(changed) = Len(columns)
    BY <1>1, <1>7
  <2>2. \A i \in DOMAIN columns :
          (IF columns[i].name # op.old_name THEN Shape(columns[i])
           ELSE <<op.new_name, IF op.type = "replace_column" THEN op.declared_type ELSE columns[i].type>>)
             \in Shapes(changed)
    BY <1>1, <1>9
  <2>3. \A x \in Shapes(changed) : \E i \in DOMAIN columns :
          x = IF columns[i].name # op.old_name THEN Shape(columns[i])
              ELSE <<op.new_name, IF op.type = "replace_column" THEN op.declared_type ELSE columns[i].type>>
    BY <1>1, <1>10
  <2>. QED
    BY <2>1, <2>2, <2>3, ListsRelisted, Zenon
<1>. QED
  BY <1>7, <1>11

\* One operation: the listing and the copy change together.
LEMMA ShownAt ==
  ASSUME NEW tables, NEW db, Lawful(db), Shows(tables, db), NEW t \in DOMAIN db,
         NEW columns, Factory!IsTable(columns), NEW listing, Lists(listing, columns)
  PROVE  /\ Lawful([db EXCEPT ![t] = columns])
         /\ Shows([tables EXCEPT ![t] = listing], [db EXCEPT ![t] = columns])
<1>1. \A u \in DOMAIN db : Factory!IsTable([db EXCEPT ![t] = columns][u])
  <2>. TAKE u \in DOMAIN db
  <2>1. CASE u = t
    <3>1. [db EXCEPT ![t] = columns][u] = columns
      BY <2>1
    <3>. QED
      BY <3>1
  <2>2. CASE u # t
    <3>1. [db EXCEPT ![t] = columns][u] = db[u]
      BY <2>2
    <3>. QED
      BY <3>1, Zenon DEF Lawful
  <2>. QED
    BY <2>1, <2>2
<1>2. \A u \in DOMAIN db : Lists([tables EXCEPT ![t] = listing][u], [db EXCEPT ![t] = columns][u])
  <2>. TAKE u \in DOMAIN db
  <2>1. CASE u = t
    <3>1. [db EXCEPT ![t] = columns][u] = columns /\ [tables EXCEPT ![t] = listing][u] = listing
      BY <2>1 DEF Shows
    <3>. QED
      BY <3>1
  <2>2. CASE u # t
    <3>1. [db EXCEPT ![t] = columns][u] = db[u] /\ [tables EXCEPT ![t] = listing][u] = tables[u]
      BY <2>2 DEF Shows
    <3>. QED
      BY <3>1, Zenon DEF Shows
  <2>. QED
    BY <2>1, <2>2
<1>3. /\ DOMAIN [db EXCEPT ![t] = columns] = DOMAIN db
      /\ DOMAIN [tables EXCEPT ![t] = listing] = DOMAIN tables
  OBVIOUS
<1>. QED
  BY <1>1, <1>2, <1>3, Zenon DEF Lawful, Shows, ClearOfViews

LEMMA ColumnRenameShown ==
  ASSUME NEW tables, NEW db, Lawful(db), Shows(tables, db), NEW op,
         op.type \in {"rename_column", "replace_column"},
         Factory!RenameColumn(db, op) # Factory!NoDatabase,
         op.type = "replace_column" =>
           \A i \in DOMAIN db[op.table] :
             db[op.table][i].name = op.old_name => db[op.table][i].type = op.declared_type
  PROVE  /\ Lawful(Factory!RenameColumn(db, op))
         /\ Shows(Factory!Replayed(tables, op), Factory!RenameColumn(db, op))
<1>. DEFINE columns == db[op.table]
            new == Factory!WithName(columns, op.old_name, op.new_name)
            listing == tables[op.table]
<1>1. /\ op.table \in DOMAIN db
      /\ op.old_name \in Factory!Names(columns) /\ op.new_name \notin Factory!Names(columns)
  BY DEF Factory!RenameColumn
<1>2. Factory!RenameColumn(db, op) = [db EXCEPT ![op.table] = new]
  BY <1>1 DEF Factory!RenameColumn
<1>3. Factory!IsTable(columns) /\ Lists(listing, columns)
  BY <1>1 DEF Lawful, Shows
<1>4. Factory!IsTable(new) /\ Lists(Relisted(listing, op), new)
  BY <1>1, <1>3, WithNameListed
<1>5. Factory!Replayed(tables, op) = [tables EXCEPT ![op.table] = Relisted(listing, op)]
  BY <1>1 DEF Factory!Replayed, Relisted, Shows
<1>. HIDE DEF new, columns, listing
<1>6. /\ Lawful([db EXCEPT ![op.table] = new])
      /\ Shows([tables EXCEPT ![op.table] = Relisted(listing, op)], [db EXCEPT ![op.table] = new])
  BY <1>1, <1>4, ShownAt, Zenon
<1>. QED
  BY <1>2, <1>5, <1>6, Zenon

LEMMA ReplacementShown ==
  ASSUME NEW tables, NEW db, Lawful(db), Shows(tables, db), NEW op, op.type = "replace_column",
         Factory!ReplaceColumn(db, op) # Factory!NoDatabase
  PROVE  /\ Lawful(Factory!ReplaceColumn(db, op))
         /\ Shows(Factory!Replayed(tables, op), Factory!ReplaceColumn(db, op))
<1>. DEFINE columns == db[op.table]
            listing == tables[op.table]
            old == Factory!ColumnNamed(columns, op.old_name)
            cells == Factory!Copied(old, op.declared_type)
            added == Factory!AddColumn(db, op, cells)
<1>1. op.table \in DOMAIN db /\ op.old_name \in Factory!Names(columns)
  BY DEF Factory!ReplaceColumn
<1>2. Factory!IsTable(columns) /\ Lists(listing, columns)
  BY <1>1 DEF Lawful, Shows
<1>3. CASE old.type = op.declared_type
  <2>1. Factory!ReplaceColumn(db, op) = Factory!RenameColumn(db, op)
    BY <1>1, <1>3 DEF Factory!ReplaceColumn
  <2>2. \A i \in DOMAIN columns : columns[i].name = op.old_name => columns[i].type = op.declared_type
    <3>1. \E i \in DOMAIN columns : columns[i].name = op.old_name
      BY <1>1 DEF Factory!Names
    <3>2. /\ Factory!Position(columns, op.old_name) \in DOMAIN columns
          /\ columns[Factory!Position(columns, op.old_name)].name = op.old_name
      BY <3>1 DEF Factory!Position
    <3>3. \A i, j \in DOMAIN columns : columns[i].name = columns[j].name => i = j
      BY <1>2 DEF Factory!IsTable
    <3>4. columns[Factory!Position(columns, op.old_name)].type = op.declared_type
      BY <1>3 DEF Factory!ColumnNamed
    <3>. QED
      BY <3>2, <3>3, <3>4
  <2>. QED
    BY <2>1, <2>2, ColumnRenameShown
<1>4. CASE old.type # op.declared_type
  <2>1. /\ added # Factory!NoDatabase
        /\ Factory!ReplaceColumn(db, op) =
             [added EXCEPT ![op.table] = Factory!RemoveAt(@, Factory!Position(@, op.old_name))]
    BY <1>1, <1>4 DEF Factory!ReplaceColumn
  <2>. DEFINE column == [name |-> op.new_name, type |-> op.declared_type, cells |-> cells, indexed |-> FALSE]
              longer == Append(columns, column)
              new == Factory!RemoveAt(longer, Factory!Position(longer, op.old_name))
  <2>2. op.new_name \notin Factory!Names(columns) /\ added = [db EXCEPT ![op.table] = longer]
    BY <2>1 DEF Factory!AddColumn
  <2>3. DOMAIN column = {"name", "type", "cells", "indexed"}
        /\ column.name = op.new_name /\ column.type = op.declared_type
    OBVIOUS
  <2>. HIDE DEF column, cells, old
  <2>4. Factory!IsTable(new) /\ Lists(Relisted(listing, op), new)
    BY <1>1, <1>2, <2>2, <2>3, ReplacedListed
  <2>5. Factory!ReplaceColumn(db, op) = [db EXCEPT ![op.table] = new]
    <3>1. DOMAIN added = DOMAIN db /\ added[op.table] = longer
      BY <1>1, <2>2
    <3>2. [added EXCEPT ![op.table] = new] = [db EXCEPT ![op.table] = new]
      BY <2>2
    <3>. QED
      BY <2>1, <3>1, <3>2
  <2>6. Factory!Replayed(tables, op) = [tables EXCEPT ![op.table] = Relisted(listing, op)]
    BY <1>1 DEF Factory!Replayed, Relisted, Shows
  <2>. HIDE DEF new, columns, listing
  <2>7. /\ Lawful([db EXCEPT ![op.table] = new])
        /\ Shows([tables EXCEPT ![op.table] = Relisted(listing, op)], [db EXCEPT ![op.table] = new])
    BY <1>1, <2>4, ShownAt, Zenon
  <2>. QED
    BY <2>5, <2>6, <2>7, Zenon
<1>. QED
  BY <1>3, <1>4

LEMMA AdditionShown ==
  ASSUME NEW tables, NEW db, Lawful(db), Shows(tables, db), NEW op, op.type = "add_column", NEW cells,
         Factory!AddColumn(db, op, cells) # Factory!NoDatabase
  PROVE  /\ Lawful(Factory!AddColumn(db, op, cells))
         /\ Shows(Factory!Replayed(tables, op), Factory!AddColumn(db, op, cells))
<1>. DEFINE columns == db[op.table]
            listing == tables[op.table]
            column == [name |-> op.new_name, type |-> op.declared_type, cells |-> cells, indexed |-> FALSE]
<1>1. op.table \in DOMAIN db /\ op.new_name \notin Factory!Names(columns)
  BY DEF Factory!AddColumn
<1>2. Factory!AddColumn(db, op, cells) = [db EXCEPT ![op.table] = Append(columns, column)]
  BY <1>1 DEF Factory!AddColumn
<1>3. Factory!IsTable(columns) /\ Lists(listing, columns)
  BY <1>1 DEF Lawful, Shows
<1>4. /\ DOMAIN column = {"name", "type", "cells", "indexed"}
      /\ column.name = op.new_name /\ Shape(column) = <<op.new_name, op.declared_type>>
  BY DEF Shape
<1>5. op.new_name \notin {listing[i][1] : i \in DOMAIN listing}
  <2>1. \A i \in DOMAIN listing : \E j \in DOMAIN columns : listing[i] = Shape(columns[j])
    <3>1. \A i \in DOMAIN listing : listing[i] \in Shapes(columns)
      BY <1>3 DEF Lists, Factory!ToSet
    <3>. QED
      BY <3>1, Zenon DEF Shapes
  <2>2. \A i \in DOMAIN listing : \E j \in DOMAIN columns : listing[i][1] = columns[j].name
    BY <2>1 DEF Shape
  <2>. QED
    BY <1>1, <2>2 DEF Factory!Names
<1>6. Factory!Replayed(tables, op) = [tables EXCEPT ![op.table] = Append(listing, Shape(column))]
  BY <1>1, <1>4, <1>5 DEF Factory!Replayed, Shows
<1>. HIDE DEF column, columns, listing
<1>7. /\ Factory!IsTable(Append(columns, column))
      /\ Lists(Append(listing, Shape(column)), Append(columns, column))
  BY <1>1, <1>3, <1>4, Appended, ListsAppended
<1>8. /\ Lawful([db EXCEPT ![op.table] = Append(columns, column)])
      /\ Shows([tables EXCEPT ![op.table] = Append(listing, Shape(column))],
               [db EXCEPT ![op.table] = Append(columns, column)])
  BY <1>1, <1>7, ShownAt, Zenon
<1>. QED
  BY <1>2, <1>6, <1>8, Zenon

LEMMA TableRenameShown ==
  ASSUME NEW tables, NEW db, Lawful(db), Shows(tables, db), NEW op, op.type = "rename_table",
         Factory!RenameTable(db, op) # Factory!NoDatabase
  PROVE  /\ Lawful(Factory!RenameTable(db, op))
         /\ Shows(Factory!Replayed(tables, op), Factory!RenameTable(db, op))
<1>. DEFINE D == (DOMAIN db \ {op.old_name}) \union {op.new_name}
            new == [t \in D |-> IF t = op.new_name THEN db[op.old_name] ELSE db[t]]
            listings == [t \in (DOMAIN tables \ {op.old_name}) \union {op.new_name} |->
                           IF t = op.new_name THEN tables[op.old_name] ELSE tables[t]]
<1>1. op.old_name \in DOMAIN db /\ op.new_name \notin DOMAIN Views
  BY DEF Factory!RenameTable
<1>2. Factory!RenameTable(db, op) = new
  BY DEF Factory!RenameTable
<1>3. Factory!Replayed(tables, op) = listings
  BY <1>1 DEF Factory!Replayed, Shows
<1>4. \A t \in D : \E u \in DOMAIN db : new[t] = db[u] /\ listings[t] = tables[u]
  BY <1>1 DEF Shows
<1>5. /\ DOMAIN new = D /\ D \intersect DOMAIN Views = {}
      /\ DOMAIN listings = D \union DOMAIN Views
  BY <1>1 DEF Shows, ClearOfViews
<1>. HIDE DEF D, new, listings
<1>6. \A t \in D : Factory!IsTable(new[t]) /\ Lists(listings[t], new[t])
  BY <1>4 DEF Lawful, Shows
<1>. QED
  BY <1>2, <1>3, <1>5, <1>6 DEF Lawful, Shows, ClearOfViews

LEMMA OperationShown ==
  ASSUME NEW tables, NEW db, Lawful(db), Shows(tables, db), NEW op, op.type \in Changes,
         Factory!MaterializeOperation(db, op) # Factory!NoDatabase
  PROVE  /\ Lawful(Factory!MaterializeOperation(db, op))
         /\ Shows(Factory!Replayed(tables, op), Factory!MaterializeOperation(db, op))
<1>1. CASE op.type = "rename_column"
  <2>1. Factory!MaterializeOperation(db, op) = Factory!RenameColumn(db, op)
    BY <1>1 DEF Factory!MaterializeOperation
  <2>. QED
    BY <1>1, <2>1, ColumnRenameShown
<1>2. CASE op.type = "rename_table"
  <2>1. Factory!MaterializeOperation(db, op) = Factory!RenameTable(db, op)
    BY <1>2 DEF Factory!MaterializeOperation
  <2>. QED
    BY <1>2, <2>1, TableRenameShown
<1>3. CASE op.type = "replace_column"
  <2>1. Factory!MaterializeOperation(db, op) = Factory!ReplaceColumn(db, op)
    BY <1>3 DEF Factory!MaterializeOperation
  <2>. QED
    BY <1>3, <2>1, ReplacementShown
<1>4. CASE op.type = "add_column"
  <2>. DEFINE cells == [of |-> <<op.table, op.new_name>>, asText |-> FALSE]
  <2>1. Factory!MaterializeOperation(db, op) = Factory!AddColumn(db, op, cells)
    BY <1>4 DEF Factory!MaterializeOperation
  <2>. HIDE DEF cells
  <2>. QED
    BY <1>4, <2>1, AdditionShown
<1>5. CASE op.type = "metric_definition_change"
  <2>1. Factory!MaterializeOperation(db, op) = db
    BY <1>5 DEF Factory!MaterializeOperation
  <2>2. Factory!Replayed(tables, op) = tables
    BY <1>5 DEF Factory!Replayed
  <2>. QED
    BY <2>1, <2>2
<1>. QED
  BY <1>1, <1>2, <1>3, <1>4, <1>5 DEF Changes

LEMMA DiffShown ==
  ASSUME NEW db, Lawful(db), ClearOfViews(db), NEW ops, IsDiff(ops),
         Factory!Materialize(db, ops) # Factory!NoDatabase
  PROVE  /\ Shows(Factory!ApplySchemaDiff(db, ops), Factory!Materialize(db, ops))
         /\ Lawful(Factory!Materialize(db, ops))
<1>1. PICK n \in Nat : DOMAIN ops = 1..n /\ Len(ops) = n
  BY SequenceOf DEF IsDiff
<1>2. PICK copy : Copies(copy, db, ops, n) /\ Factory!Materialize(db, ops) = copy[n]
  BY <1>1, MaterializedBy
<1>3. PICK tables : Listings(tables, db, ops, n) /\ Factory!ApplySchemaDiff(db, ops) = tables[n]
  BY <1>1, AppliedBy
<1>. DEFINE Stands(m) == copy[m] = Factory!NoDatabase \/ (Lawful(copy[m]) /\ Shows(tables[m], copy[m]))
            S == {m \in 0..n : ~Stands(m)}
<1>4. ASSUME S # {}
      PROVE  FALSE
  <2>1. PICK m \in S : m - 1 \notin S
    <3>1. S \subseteq 0..n
      OBVIOUS
    <3>. HIDE DEF S
    <3>. QED
      BY <1>4, <3>1, LeastOf
  <2>2. CASE m = 0
    <3>1. copy[0] = db /\ tables[0] = Factory!Listing(db)
      BY <1>2, <1>3 DEF Copies, Listings
    <3>2. Shows(Factory!Listing(db), db)
      <4>1. ASSUME NEW t \in DOMAIN db
            PROVE  Lists(Factory!Listing(db)[t], db[t])
        <5>. DEFINE shown == Factory!Listing(db)[t]
        <5>1. PICK k \in Nat : DOMAIN db[t] = 1..k /\ Len(db[t]) = k
          BY <4>1, SequenceOf DEF Lawful, Factory!IsTable
        <5>2. DOMAIN shown = 1..k /\ shown = [i \in 1..k |-> shown[i]]
              /\ \A i \in 1..k : shown[i] = Shape(db[t][i])
          BY <4>1, <5>1 DEF Factory!Listing, Shape, ClearOfViews
        <5>. HIDE DEF shown
        <5>3. shown \in Seq(Factory!ToSet(shown)) /\ Len(shown) = k
          BY <5>2, Tabulated
        <5>4. Factory!ToSet(shown) = Shapes(db[t])
          BY <5>1, <5>2 DEF Factory!ToSet, Shapes
        <5>. QED
          BY <5>1, <5>3, <5>4 DEF Lists, shown
      <4>2. DOMAIN Factory!Listing(db) = DOMAIN db \union DOMAIN Views
        BY DEF Factory!Listing
      <4>. QED
        BY <4>1, <4>2 DEF Shows
    <3>3. Stands(m)
      BY <2>2, <3>1, <3>2
    <3>. QED
      BY <2>1, <3>3
  <2>3. CASE m # 0
    <3>1. m \in 1..n /\ m - 1 \in 0..n
      BY <1>1, <2>1, <2>3
    <3>2. Stands(m - 1)
      BY <2>1, <3>1
    <3>3. /\ copy[m] = IF copy[m - 1] = Factory!NoDatabase THEN Factory!NoDatabase
                       ELSE Factory!MaterializeOperation(copy[m - 1], ops[m])
          /\ tables[m] = Factory!Replayed(tables[m - 1], ops[m])
      BY <1>2, <1>3, <3>1 DEF Copies, Listings
    <3>4. ops[m].type \in Changes
      BY <1>1, <3>1 DEF IsDiff
    <3>. HIDE DEF S
    <3>5. Stands(m)
      <4>1. CASE copy[m - 1] = Factory!NoDatabase
        BY <3>3, <4>1
      <4>2. CASE copy[m - 1] # Factory!NoDatabase
        <5>1. Lawful(copy[m - 1]) /\ Shows(tables[m - 1], copy[m - 1])
          BY <3>2, <4>2
        <5>2. copy[m] = Factory!MaterializeOperation(copy[m - 1], ops[m])
          BY <3>3, <4>2
        <5>3. CASE Factory!MaterializeOperation(copy[m - 1], ops[m]) = Factory!NoDatabase
          BY <5>2, <5>3
        <5>4. CASE Factory!MaterializeOperation(copy[m - 1], ops[m]) # Factory!NoDatabase
          <6>1. /\ Lawful(Factory!MaterializeOperation(copy[m - 1], ops[m]))
                /\ Shows(Factory!Replayed(tables[m - 1], ops[m]),
                         Factory!MaterializeOperation(copy[m - 1], ops[m]))
            BY <3>4, <5>1, <5>4, OperationShown
          <6>. QED
            BY <3>3, <5>2, <6>1
        <5>. QED
          BY <5>3, <5>4
      <4>. QED
        BY <4>1, <4>2
    <3>. QED
      BY <2>1, <3>5 DEF S
  <2>. QED
    BY <2>2, <2>3
<1>5. Stands(n)
  BY <1>4
<1>. QED
  BY <1>2, <1>3, <1>5

-----------------------------------------------------------------------------
\* What the builders accept: a diff whose chain of copies comes to an end.
Builds(db, ops) == IsDiff(ops) /\ Factory!Materialize(db, ops) # Factory!NoDatabase

LEMMA SingleDiff ==
  ASSUME NEW op, op.type \in Changes
  PROVE  IsDiff(<<op>>)
BY DEF IsDiff, Factory!ToSet

LEMMA EmptyDiff ==
  ASSUME NEW db, db # Factory!NoDatabase
  PROVE  Builds(db, <<>>)
<1>1. Len(<<>>) = 0 /\ 0 \in Nat
  OBVIOUS
<1>2. PICK copy : Copies(copy, db, <<>>, Len(<<>>)) /\ Factory!Materialize(db, <<>>) = copy[Len(<<>>)]
  BY <1>1, MaterializedBy
<1>3. Factory!Materialize(db, <<>>) = db
  BY <1>1, <1>2 DEF Copies
<1>. QED
  BY <1>3 DEF Builds, IsDiff, Factory!ToSet

LEMMA MetricDiff ==
  ASSUME NEW db, db # Factory!NoDatabase, NEW op, op.type = "metric_definition_change"
  PROVE  Builds(db, <<op>>)
<1>1. Len(<<op>>) = 1 /\ 1 \in Nat /\ <<op>>[1] = op
  OBVIOUS
<1>2. PICK copy : Copies(copy, db, <<op>>, 1) /\ Factory!Materialize(db, <<op>>) = copy[1]
  BY <1>1, MaterializedBy
<1>3. copy[1] = Factory!MaterializeOperation(db, op)
  BY <1>1, <1>2 DEF Copies
<1>4. Factory!MaterializeOperation(db, op) = db
  BY DEF Factory!MaterializeOperation
<1>5. IsDiff(<<op>>)
  BY SingleDiff DEF Changes
<1>. QED
  BY <1>2, <1>3, <1>4, <1>5 DEF Builds

LEMMA ConcatenatedDiff ==
  ASSUME NEW f, NEW g, IsDiff(f), IsDiff(g)
  PROVE  IsDiff(f \o g)
<1>. DEFINE S == Factory!ToSet(f) \cup Factory!ToSet(g)
            h == f \o g
<1>1. f \in Seq(S) /\ g \in Seq(S)
  BY SeqMonotonic DEF IsDiff
<1>2. PICK n \in Nat : DOMAIN f = 1..n /\ Len(f) = n
  BY SequenceOf DEF IsDiff
<1>3. PICK m \in Nat : DOMAIN g = 1..m /\ Len(g) = m
  BY SequenceOf DEF IsDiff
<1>4. /\ h \in Seq(S) /\ Len(h) = n + m
      /\ \A i \in 1..(n + m) : h[i] = IF i <= n THEN f[i] ELSE g[i - n]
  BY <1>1, <1>2, <1>3, ConcatProperties
<1>5. DOMAIN h = 1..(n + m) /\ h = [i \in 1..(n + m) |-> h[i]]
  BY <1>4, LenProperties
<1>. HIDE DEF h
<1>6. h \in Seq(Factory!ToSet(h))
  <2>1. n + m \in Nat
    OBVIOUS
  <2>. QED
    BY <1>5, <2>1, Tabulated
<1>7. \A i \in 1..(n + m) : (i <= n => i \in 1..n) /\ (~(i <= n) => i - n \in 1..m)
  OBVIOUS
<1>8. \A i \in 1..(n + m) : h[i].type \in Changes
  BY <1>2, <1>3, <1>4, <1>7 DEF IsDiff
<1>. QED
  BY <1>5, <1>6, <1>8 DEF IsDiff, h

\* A set listed, repetitions allowed, by the places of a sequence is written out by SetToSeq.
LEMMA Enumerated ==
  ASSUME NEW S, NEW n \in Nat, NEW f, \A x \in S : \E i \in 1..n : f[i] = x
  PROVE  \E k \in Nat : Factory!SetToSeq(S) \in [1..k -> S]
<1>. DEFINE I == {i \in 1..n : f[i] \in S}
            g == [i \in I |-> f[i]]
<1>1. IsFiniteSet(I)
  <2>1. IsFiniteSet(1..n)
    BY FS_Interval
  <2>. QED
    BY <2>1, FS_Subset
<1>2. g \in Surjection(I, S)
  BY DEF Surjection
<1>3. IsFiniteSet(S)
  BY <1>1, <1>2, FS_Surjection
<1>4. Cardinality(S) \in Nat /\ ExistsBijection(1..Cardinality(S), S)
  BY <1>3, FS_CardinalityType
<1>5. PICK h \in [1..Cardinality(S) -> S] : IsInjective(h)
  BY <1>4 DEF ExistsBijection, Bijection, Injection
<1>6. Factory!Cardinality(S) = Cardinality(S)
  BY Zenon DEF Factory!Cardinality, Cardinality
<1>7. Factory!IsInjective(h)
  BY <1>5, Zenon DEF Factory!IsInjective, IsInjective
<1>8. Factory!SetToSeq(S) = CHOOSE e \in [1..Cardinality(S) -> S] : Factory!IsInjective(e)
  BY <1>6 DEF Factory!SetToSeq
<1>9. Factory!SetToSeq(S) \in [1..Cardinality(S) -> S]
  BY <1>7, <1>8
<1>. QED
  BY <1>4, <1>9

SchemaKinds == {"rename_column", "rename_table", "replace_column"}

LEMMA RenamesBuild ==
  ASSUME NEW kind \in SchemaKinds, NEW db, NEW q, NEW ex \in Factory!Examples(kind, db, q)
  PROVE  Builds(db, ex.ops)
<1>1. Factory!Breaks(db, q, ex) => Factory!Materialize(db, ex.ops) # Factory!NoDatabase
  BY Zenon DEF Factory!Breaks
<1>2. CASE kind = "rename_column"
  <2>1. ex \in Factory!ColumnRenames(db, q)
    BY <1>2 DEF Factory!Examples
  <2>2. /\ Factory!Breaks(db, q, ex)
        /\ \E c : ex.ops = <<[type |-> "rename_column", table |-> c[1], old_name |-> c[2],
                              new_name |-> Factory!NewName(c[2], Factory!Names(db[c[1]]))]>>
    BY <2>1 DEF Factory!ColumnRenames
  <2>3. IsDiff(ex.ops)
    BY <2>2, SingleDiff DEF Changes
  <2>. QED
    BY <1>1, <2>2, <2>3 DEF Builds
<1>3. CASE kind = "rename_table"
  <2>1. ex \in Factory!TableRenames(db, q)
    BY <1>3 DEF Factory!Examples
  <2>2. /\ Factory!Breaks(db, q, ex)
        /\ \E t : ex.ops = <<[type |-> "rename_table", old_name |-> t,
                              new_name |-> Factory!NewName(t, DOMAIN db)]>>
    BY <2>1 DEF Factory!TableRenames
  <2>3. IsDiff(ex.ops)
    BY <2>2, SingleDiff DEF Changes
  <2>. QED
    BY <1>1, <2>2, <2>3 DEF Builds
<1>4. CASE kind = "replace_column"
  <2>1. ex \in Factory!ColumnReplacements(db, q)
    BY <1>4 DEF Factory!Examples
  <2>2. /\ Factory!Breaks(db, q, ex)
        /\ \E c : ex.ops = <<[type |-> "replace_column", table |-> c[1], old_name |-> c[2],
                              new_name |-> Factory!NewName(c[2], Factory!Names(db[c[1]])),
                              declared_type |-> Factory!TypeOf(db, c)]>>
    BY <2>1 DEF Factory!ColumnReplacements
  <2>3. IsDiff(ex.ops)
    BY <2>2, SingleDiff DEF Changes
  <2>. QED
    BY <1>1, <2>2, <2>3 DEF Builds
<1>. QED
  BY <1>2, <1>3, <1>4 DEF SchemaKinds

LEMMA AdditionsBuild ==
  ASSUME NEW db, NEW q \in Queries, NEW ex \in Factory!ColumnAdditions(db, q)
  PROVE  Builds(db, ex.ops)
<1>. DEFINE added(t) == [type |-> "add_column", table |-> t, declared_type |-> "INTEGER",
                         new_name |-> Factory!NewName(AuditFlag, Factory!Names(db[t]))]
<1>1. PICK T \in SUBSET (Factory!WildcardTables(q) \intersect DOMAIN db) :
        ex.ops = Factory!SetToSeq({added(t) : t \in T})
  BY DEF Factory!ColumnAdditions
<1>2. Factory!Answer(Factory!Materialize(db, ex.ops), q).ok
  BY DEF Factory!ColumnAdditions
<1>3. Factory!Materialize(db, ex.ops) # Factory!NoDatabase
  BY <1>2 DEF Factory!Answer, Factory!Failed
<1>4. PICK n \in Nat : DOMAIN q.from = 1..n
  BY SourcesSound, SequenceOf DEF Factory!FactoryAssumption
<1>5. \A t \in T : \E i \in 1..n : q.from[i].table = t
  BY <1>4 DEF Factory!WildcardTables
<1>. DEFINE S == {added(t) : t \in T}
            f == [i \in 1..n |-> added(q.from[i].table)]
<1>6. \A x \in S : \E i \in 1..n : f[i] = x
  BY <1>5
<1>7. \A x \in S : x.type \in Changes
  BY DEF Changes
<1>8. ex.ops = Factory!SetToSeq(S)
  BY <1>1, Zenon
<1>. HIDE DEF added, S, f
<1>9. PICK k \in Nat : ex.ops \in [1..k -> S]
  <2>1. \E k \in Nat : Factory!SetToSeq(S) \in [1..k -> S]
    BY <1>6, Enumerated
  <2>. QED
    BY <1>8, <2>1
<1>10. ex.ops \in Seq(Factory!ToSet(ex.ops))
  BY <1>9, Tabulated
<1>11. \A i \in 1..k : ex.ops[i].type \in Changes
  BY <1>7, <1>9
<1>12. IsDiff(ex.ops)
  BY <1>9, <1>10, <1>11 DEF IsDiff
<1>. QED
  BY <1>3, <1>12 DEF Builds

LEMMA ExamplesBuild ==
  ASSUME NEW kind \in Factory!Kinds, NEW db, db # Factory!NoDatabase, NEW q \in Queries,
         NEW ex \in Factory!Examples(kind, db, q)
  PROVE  Builds(db, ex.ops)
<1>1. CASE kind \in SchemaKinds
  BY <1>1, RenamesBuild
<1>2. CASE kind = "add_column"
  <2>1. ex \in Factory!ColumnAdditions(db, q)
    BY <1>2 DEF Factory!Examples
  <2>. QED
    BY <2>1, AdditionsBuild
<1>3. CASE kind = "metric_definition_change"
  <2>1. ex \in Factory!MetricChanges(db, q)
    BY <1>3 DEF Factory!Examples
  <2>2. \E m : ex.ops = <<[type |-> "metric_definition_change",
                           old_expression |-> m[1], new_expression |-> m[2]]>>
    BY <2>1 DEF Factory!MetricChanges
  <2>. QED
    BY <2>2, MetricDiff
<1>4. CASE kind = "clean"
  <2>1. ex.ops = <<>>
    BY <1>4 DEF Factory!Examples
  <2>. QED
    BY <2>1, EmptyDiff
<1>. QED
  BY <1>1, <1>2, <1>3, <1>4 DEF Factory!Kinds, SchemaKinds

-----------------------------------------------------------------------------
\* The inductive invariant: the compound builder holds half a diff, every written
\* episode's diff can be applied to the source, and a listing is that of the episode
\* it was read from.

HalfBuilt ==
  /\ pending = [pair |-> pending.pair, ops |-> pending.ops, repaired |-> pending.repaired]
  /\ IsDiff(pending.ops)
  /\ pending.ops # <<>> => pending.pair \in DOMAIN Factory!Pairs

Episodes ==
  /\ records \in Seq(Factory!ToSet(records))
  /\ \A i \in DOMAIN records : Builds(database, records[i].ops)

ListingServed ==
  serving.tables # <<>> =>
    /\ serving.scenario \in DOMAIN records
    /\ serving.tables = Factory!ApplySchemaDiff(database, records[serving.scenario].ops)
    /\ serving.text = Factory!RenderLogicalSchema(serving.tables)

CatalogueInv ==
  /\ database \in SourceDatabases
  /\ sql \in Queries \cup {Factory!NoQuery}
  /\ HalfBuilt /\ Episodes /\ ListingServed

LEMMA CatalogueInitial == ASSUME Factory!Init PROVE CatalogueInv
<1>1. pending = [pair |-> 0, ops |-> <<>>, repaired |-> Factory!NoQuery] /\ serving.tables = <<>>
  BY DEF Factory!Init, Factory!NotCompound, Factory!NotLoaded
<1>2. IsDiff(<<>>) /\ <<>> \in Seq(Factory!ToSet(<<>>)) /\ DOMAIN <<>> = {}
  BY DEF IsDiff, Factory!ToSet
<1>3. HalfBuilt
  BY <1>1, <1>2 DEF HalfBuilt
<1>4. Episodes /\ ListingServed
  BY <1>1, <1>2 DEF Factory!Init, Episodes, ListingServed
<1>. QED
  BY <1>3, <1>4 DEF Factory!Init, CatalogueInv

\* An episode more: those before it, and the listing served, stay.
LEMMA Written ==
  ASSUME CatalogueInv, NEW ops, NEW repaired, Factory!Write(ops, repaired), Builds(database, ops)
  PROVE  CatalogueInv'
<1>. DEFINE line == [stale |-> sql, ops |-> ops, repaired |-> repaired]
            S == Factory!ToSet(records) \cup {line}
<1>1. records' = Append(records, line) /\ line.ops = ops
  BY DEF Factory!Write
<1>2. PICK n \in Nat : DOMAIN records = 1..n /\ Len(records) = n
  BY SequenceOf DEF CatalogueInv, Episodes
<1>3. records \in Seq(S)
  BY SeqMonotonic DEF CatalogueInv, Episodes
<1>. HIDE DEF line, S
<1>4. line \in S
  BY DEF S
<1>5. /\ records' \in Seq(S) /\ Len(records') = n + 1
      /\ \A i \in 1..n : records'[i] = records[i]
      /\ records'[n + 1] = line
  BY <1>1, <1>2, <1>3, <1>4, AppendProperties
<1>6. DOMAIN records' = 1..(n + 1) /\ records' = [i \in 1..(n + 1) |-> records'[i]] /\ n + 1 \in Nat
  BY <1>2, <1>5, LenProperties
<1>7. records' \in Seq(Factory!ToSet(records'))
  BY <1>6, Tabulated
<1>8. UNCHANGED <<database, serving>>
  BY DEF Factory!Write
<1>9. Episodes'
  <2>1. \A i \in 1..(n + 1) : i \in 1..n \/ i = n + 1
    BY <1>2
  <2>2. \A i \in 1..n : Builds(database, records[i].ops)
    BY <1>2 DEF CatalogueInv, Episodes
  <2>3. \A i \in 1..(n + 1) : Builds(database, records'[i].ops)
    BY <1>1, <1>5, <2>1, <2>2
  <2>4. \A i \in DOMAIN records' : Builds(database', records'[i].ops)
    BY <1>6, <1>8, <2>3
  <2>5. Factory!ToSet(records)' = Factory!ToSet(records')
    BY DEF Factory!ToSet
  <2>6. \A i : Builds(database, records[i].ops)' <=> Builds(database', records'[i].ops)
    BY DEF Builds
  <2>. QED
    BY <1>7, <2>4 DEF Episodes
<1>10. ListingServed'
  <2>. SUFFICES ASSUME serving.tables # <<>>
                PROVE  /\ serving.scenario \in DOMAIN records'
                       /\ serving.tables = Factory!ApplySchemaDiff(database, records'[serving.scenario].ops)
                       /\ serving.text = Factory!RenderLogicalSchema(serving.tables)
    BY <1>8 DEF ListingServed
  <2>1. /\ serving.scenario \in 1..n
        /\ serving.tables = Factory!ApplySchemaDiff(database, records[serving.scenario].ops)
        /\ serving.text = Factory!RenderLogicalSchema(serving.tables)
    BY <1>2 DEF CatalogueInv, ListingServed
  <2>. QED
    BY <1>2, <1>5, <1>6, <2>1
<1>11. HalfBuilt'
  <2>1. pending' = [pair |-> 0, ops |-> <<>>, repaired |-> Factory!NoQuery]
    BY DEF Factory!Write, Factory!NotCompound
  <2>2. IsDiff(<<>>)
    BY DEF IsDiff, Factory!ToSet
  <2>. QED
    BY <2>1, <2>2 DEF HalfBuilt
<1>12. database' \in SourceDatabases /\ sql' \in Queries \cup {Factory!NoQuery}
  BY <1>8 DEF Factory!Write, CatalogueInv
<1>. QED
  BY <1>9, <1>10, <1>11, <1>12 DEF CatalogueInv

LEMMA HalfBuiltBy ==
  ASSUME NEW p, NEW ops, NEW q, IsDiff(ops), ops = <<>> \/ p \in DOMAIN Factory!Pairs,
         pending' = [pair |-> p, ops |-> ops, repaired |-> q]
  PROVE  HalfBuilt'
BY DEF HalfBuilt

LEMMA CatalogueStep ==
  ASSUME CatalogueInv, [Factory!Next]_(Factory!factoryVars)
  PROVE  CatalogueInv'
<1>1. IsDiff(<<>>)
  BY DEF IsDiff, Factory!ToSet
<1>2. CASE UNCHANGED Factory!factoryVars
  BY <1>2 DEF Factory!factoryVars, CatalogueInv, HalfBuilt, Episodes, ListingServed, Builds
<1>. DEFINE FileKept == UNCHANGED <<database, records, serving>>
<1>3. ASSUME FileKept
      PROVE  Episodes' /\ ListingServed' /\ database' \in SourceDatabases
  BY <1>3 DEF CatalogueInv, Episodes, ListingServed, Builds
<1>4. CASE Factory!TakeQuery
  <2>1. FileKept /\ UNCHANGED pending /\ sql' \in Queries
    BY <1>4 DEF Factory!TakeQuery
  <2>. QED
    BY <1>3, <2>1 DEF CatalogueInv, HalfBuilt
<1>5. ASSUME NEW kind \in Factory!Kinds, Factory!Build(kind)
      PROVE  CatalogueInv'
  <2>1. PICK ex \in Factory!Examples(kind, database, sql) : Factory!Write(ex.ops, ex.repaired)
    BY <1>5 DEF Factory!Build
  <2>2. sql \in Queries
    BY <1>5 DEF Factory!Build, CatalogueInv
  <2>3. database # Factory!NoDatabase
    BY SourcesSound DEF Factory!FactoryAssumption, CatalogueInv
  <2>4. Builds(database, ex.ops)
    BY <2>2, <2>3, ExamplesBuild
  <2>. QED
    BY <2>1, <2>4, Written
<1>6. ASSUME NEW kind \in Factory!Kinds, Factory!BuildFails(kind)
      PROVE  CatalogueInv'
  <2>1. FileKept /\ UNCHANGED pending /\ sql' = Factory!NoQuery
    BY <1>6 DEF Factory!BuildFails
  <2>. QED
    BY <1>3, <2>1 DEF CatalogueInv, HalfBuilt
<1>. DEFINE ToNextPair == /\ UNCHANGED <<database, sql, records, serving>>
                          /\ \E p : pending' = [pair |-> p, ops |-> <<>>, repaired |-> Factory!NoQuery]
<1>7. ASSUME ToNextPair
      PROVE  CatalogueInv'
  <2>1. HalfBuilt'
    BY <1>1, <1>7, HalfBuiltBy
  <2>. QED
    BY <1>3, <1>7, <2>1 DEF CatalogueInv
<1>8. CASE Factory!BuildCompound
  <2>1. ToNextPair
    BY <1>8 DEF Factory!BuildCompound, Factory!NotCompound
  <2>. QED
    BY <1>7, <2>1
<1>9. CASE Factory!CompoundFirst
  <2>. DEFINE kind == Factory!Pairs[pending.pair][1]
  <2>1. pending.pair \in DOMAIN Factory!Pairs /\ kind \in SchemaKinds
    <3>1. pending.pair \in DOMAIN Factory!Pairs
      BY <1>9 DEF Factory!CompoundFirst
    <3>. QED
      BY <3>1 DEF Factory!Pairs, SchemaKinds
  <2>2. UNCHANGED <<database, sql, records, serving>>
    BY <1>9 DEF Factory!CompoundFirst
  <2>3. \/ pending' = Factory!NextPair
        \/ \E ex \in Factory!Examples(kind, database, sql) :
             pending' = [pending EXCEPT !.ops = ex.ops, !.repaired = ex.repaired]
    BY <1>9 DEF Factory!CompoundFirst
  <2>4. CASE pending' = Factory!NextPair
    <3>1. ToNextPair
      BY <2>2, <2>4 DEF Factory!NextPair, Factory!NotCompound
    <3>. QED
      BY <1>7, <3>1
  <2>5. CASE \E ex \in Factory!Examples(kind, database, sql) :
               pending' = [pending EXCEPT !.ops = ex.ops, !.repaired = ex.repaired]
    <3>1. PICK ex \in Factory!Examples(kind, database, sql) :
            pending' = [pending EXCEPT !.ops = ex.ops, !.repaired = ex.repaired]
      BY <2>5
    <3>2. IsDiff(ex.ops)
      BY <2>1, RenamesBuild DEF Builds
    <3>3. pending' = [pair |-> pending.pair, ops |-> ex.ops, repaired |-> ex.repaired]
      BY <3>1 DEF CatalogueInv, HalfBuilt
    <3>4. HalfBuilt'
      BY <2>1, <3>2, <3>3, HalfBuiltBy
    <3>. QED
      BY <1>3, <2>2, <3>4 DEF CatalogueInv
  <2>. QED
    BY <2>3, <2>4, <2>5
<1>10. CASE Factory!CompoundSecond
  <2>. DEFINE kind == Factory!Pairs[pending.pair][2]
              first == Factory!Materialize(database, pending.ops)
  <2>1. pending.pair \in DOMAIN Factory!Pairs
    BY <1>10 DEF Factory!CompoundSecond, CatalogueInv, HalfBuilt
  <2>2. kind \in SchemaKinds
    BY <2>1 DEF Factory!Pairs, SchemaKinds
  <2>3. \/ \E ex \in Factory!Examples(kind, first, pending.repaired) :
             /\ Factory!CompoundHolds(pending.ops \o ex.ops, ex.repaired)
             /\ Factory!Write(pending.ops \o ex.ops, ex.repaired)
        \/ pending' = Factory!NextPair /\ UNCHANGED <<database, sql, records, serving>>
    BY <1>10 DEF Factory!CompoundSecond
  <2>4. ASSUME NEW ex \in Factory!Examples(kind, first, pending.repaired),
               Factory!CompoundHolds(pending.ops \o ex.ops, ex.repaired),
               Factory!Write(pending.ops \o ex.ops, ex.repaired)
        PROVE  CatalogueInv'
    <3>1. IsDiff(ex.ops)
      BY <2>2, RenamesBuild DEF Builds
    <3>2. IsDiff(pending.ops \o ex.ops)
      BY <3>1, ConcatenatedDiff DEF CatalogueInv, HalfBuilt
    <3>3. Factory!Materialize(database, pending.ops \o ex.ops) # Factory!NoDatabase
      BY <2>4 DEF Factory!CompoundHolds
    <3>. QED
      BY <2>4, <3>2, <3>3, Written DEF Builds
  <2>5. CASE pending' = Factory!NextPair /\ UNCHANGED <<database, sql, records, serving>>
    <3>1. ToNextPair
      BY <2>5 DEF Factory!NextPair, Factory!NotCompound
    <3>. QED
      BY <1>7, <3>1
  <2>. QED
    BY <2>3, <2>4, <2>5
<1>11. CASE Factory!CompoundFails
  <2>1. /\ FileKept /\ sql' = Factory!NoQuery
        /\ pending' = [pair |-> 0, ops |-> <<>>, repaired |-> Factory!NoQuery]
    BY <1>11 DEF Factory!CompoundFails, Factory!NotCompound
  <2>2. HalfBuilt'
    BY <1>1, <2>1, HalfBuiltBy
  <2>. QED
    BY <1>3, <2>1, <2>2 DEF CatalogueInv
<1>. DEFINE Others == UNCHANGED <<database, sql, pending, records>>
<1>12. ASSUME Others
       PROVE  HalfBuilt' /\ Episodes' /\ database' \in SourceDatabases /\ sql' \in Queries \cup {Factory!NoQuery}
  BY <1>12 DEF CatalogueInv, HalfBuilt, Episodes, Builds
<1>13. CASE Factory!QueryEnvironment
  <2>1. Others
    BY <1>13 DEF Factory!QueryEnvironment
  <2>2. /\ serving'.scenario = 1 /\ serving'.tables = Factory!ApplySchemaDiff(database, records[1].ops)
        /\ serving'.text = Factory!RenderLogicalSchema(serving'.tables)
        /\ records # <<>>
    BY <1>13 DEF Factory!QueryEnvironment, Factory!LogicalSchema, Factory!ScenarioForDatabase
  <2>3. 1 \in DOMAIN records
    BY <2>2 DEF CatalogueInv, Episodes
  <2>4. ListingServed'
    BY <2>1, <2>2, <2>3 DEF ListingServed
  <2>. QED
    BY <1>12, <2>1, <2>4 DEF CatalogueInv
<1>14. ASSUME NEW n \in 1..MaxRecords, Factory!ServeScenario(n)
       PROVE  CatalogueInv'
  <2>1. Others /\ serving'.tables = <<>>
    BY <1>14 DEF Factory!ServeScenario
  <2>2. ListingServed'
    BY <2>1 DEF ListingServed
  <2>. QED
    BY <1>12, <2>1, <2>2 DEF CatalogueInv
<1>. QED
  BY <1>2, <1>4, <1>5, <1>6, <1>8, <1>9, <1>10, <1>11, <1>13, <1>14, Zenon DEF Factory!Next

\* The text of a listed table: the same names, and TEXT for a type that is missing.
LEMMA RenderedAgrees ==
  ASSUME Shows(serving.tables, Factory!ActiveDatabase), Lawful(Factory!ActiveDatabase),
         serving.text = Factory!RenderLogicalSchema(serving.tables)
  PROVE  Factory!CatalogAgrees
<1>. DEFINE db == Factory!ActiveDatabase
<1>1. /\ DOMAIN serving.tables = DOMAIN db \union DOMAIN Views
      /\ DOMAIN serving.text = DOMAIN serving.tables
  BY DEF Shows, Factory!RenderLogicalSchema
<1>2. ASSUME NEW t \in DOMAIN db
      PROVE  /\ Len(serving.tables[t]) = Len(db[t]) /\ Len(serving.text[t]) = Len(db[t])
             /\ Factory!ToSet(serving.tables[t]) = {<<db[t][i].name, db[t][i].type>> : i \in DOMAIN db[t]}
             /\ Factory!ToSet(serving.text[t]) =
                  {<<db[t][i].name, Factory!Declared(db[t][i].type)>> : i \in DOMAIN db[t]}
  <2>. DEFINE columns == db[t]
              listing == serving.tables[t]
              lines == serving.text[t]
  <2>1. Lists(listing, columns)
    BY DEF Shows
  <2>2. PICK n \in Nat : DOMAIN listing = 1..n /\ listing = [i \in 1..n |-> listing[i]] /\ Len(listing) = n
    BY <2>1, SequenceOf DEF Lists
  <2>3. t \in DOMAIN serving.tables
    BY <1>1
  <2>4. lines = [i \in 1..n |-> <<listing[i][1], Factory!Declared(listing[i][2])>>]
    BY <2>2, <2>3 DEF Factory!RenderLogicalSchema
  <2>. HIDE DEF columns, listing, lines, db
  <2>5. Len(lines) = n
    <3>1. DOMAIN lines = 1..n /\ lines = [i \in 1..n |-> lines[i]]
      BY <2>4
    <3>. QED
      BY <3>1, Tabulated
  <2>6. \A i \in 1..n : \E j \in DOMAIN columns : listing[i] = Shape(columns[j])
    <3>1. \A i \in 1..n : listing[i] \in Shapes(columns)
      BY <2>1, <2>2 DEF Lists, Factory!ToSet
    <3>. QED
      BY <3>1, Zenon DEF Shapes
  <2>7. \A j \in DOMAIN columns : \E i \in 1..n : listing[i] = Shape(columns[j])
    <3>1. \A j \in DOMAIN columns : Shape(columns[j]) \in Factory!ToSet(listing)
      BY <2>1, Zenon DEF Lists, Shapes
    <3>. QED
      BY <2>2, <3>1 DEF Factory!ToSet
  <2>8. Factory!ToSet(lines) = {<<columns[i].name, Factory!Declared(columns[i].type)>> : i \in DOMAIN columns}
    <3>. DEFINE line(j) == <<columns[j].name, Factory!Declared(columns[j].type)>>
    <3>1. ASSUME NEW i \in 1..n, NEW j, listing[i] = Shape(columns[j])
          PROVE  lines[i] = line(j)
      <4>1. listing[i][1] = columns[j].name /\ listing[i][2] = columns[j].type
        BY <3>1 DEF Shape
      <4>2. lines[i] = <<listing[i][1], Factory!Declared(listing[i][2])>>
        BY <2>4
      <4>. QED
        BY <4>1, <4>2, Zenon
    <3>. HIDE DEF line
    <3>2. \A i \in 1..n : \E j \in DOMAIN columns : lines[i] = line(j)
      BY <2>6, <3>1
    <3>3. \A j \in DOMAIN columns : \E i \in 1..n : lines[i] = line(j)
      BY <2>7, <3>1
    <3>4. Factory!ToSet(lines) = {lines[i] : i \in 1..n}
      BY <2>4 DEF Factory!ToSet
    <3>5. Factory!ToSet(lines) = {line(j) : j \in DOMAIN columns}
      BY <3>2, <3>3, <3>4
    <3>. QED
      BY <3>5, Zenon DEF line
  <2>. QED
    BY <2>1, <2>2, <2>5, <2>8 DEF Lists, Shapes, Shape, columns, listing, lines
<1>. QED
  BY <1>1, <1>2 DEF Factory!CatalogAgrees

LEMMA CatalogueAgreed == ASSUME CatalogueInv PROVE CatalogAgrees
<1>. SUFFICES ASSUME serving.tables # <<>>
              PROVE  Shows(serving.tables, Factory!ActiveDatabase) /\ Lawful(Factory!ActiveDatabase)
  <2>1. serving.tables = <<>> => Factory!CatalogAgrees
    BY DEF Factory!CatalogAgrees
  <2>2. serving.tables # <<>> => serving.text = Factory!RenderLogicalSchema(serving.tables)
    BY DEF CatalogueInv, ListingServed
  <2>. QED
    BY <2>1, <2>2, RenderedAgrees, Zenon DEF CatalogAgrees
<1>. DEFINE ops == records[serving.scenario].ops
<1>1. Builds(database, ops) /\ serving.tables = Factory!ApplySchemaDiff(database, ops)
  BY DEF CatalogueInv, Episodes, ListingServed
<1>2. Lawful(database) /\ ClearOfViews(database)
  BY SourcesSound DEF Factory!FactoryAssumption, CatalogueInv, Lawful, ClearOfViews
<1>. HIDE DEF ops
<1>3. /\ Shows(serving.tables, Factory!Materialize(database, ops))
      /\ Lawful(Factory!Materialize(database, ops))
  BY <1>1, <1>2, DiffShown DEF Builds
<1>. QED
  BY <1>3 DEF Factory!ActiveDatabase, ops

\* Every diff on record can be applied to the end, and a listing served is that of
\* the episode it was read from (build_*_example, ScenarioCatalog).
THEOREM CatalogueKept == Factory!Spec => []CatalogueInv
<1>1. Factory!Init => CatalogueInv
  BY CatalogueInitial
<1>2. CatalogueInv /\ [Factory!Next]_(Factory!factoryVars) => CatalogueInv'
  BY CatalogueStep
<1>. QED
  BY <1>1, <1>2, PTL DEF Factory!Spec

\* The schema that the catalogue shows for a database, replayed on a listing, is the
\* schema of the copy its sessions query (service/catalog.py, drift/factory.py): for
\* any databases and queries, whatever chain of changes the builders put together.
THEOREM CatalogAlwaysAgrees == Factory!Spec => []CatalogAgrees
<1>1. CatalogueInv => CatalogAgrees
  BY CatalogueAgreed
<1>. QED
  BY <1>1, CatalogueKept, PTL
=============================================================================
