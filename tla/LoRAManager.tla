----------------------------- MODULE LoRAManager -----------------------------
(***************************************************************************)
(* DiffusionLoRAManager: an LRU cache of adapters with pins, and one slot   *)
(* in every replaced layer of the pipeline for the adapter in use.  The    *)
(* worker process calls it from one loop, so a call is a step.             *)
(*                                                                         *)
(* An adapter is abstracted to its rank, the layers it has weights for     *)
(* (which are its target modules) and those of them its tensors do not     *)
(* fit; the lookup by full, relative, suffix and packed names only decides *)
(* which layers these are.  A slot is abstracted to whose weights it holds *)
(* and at which scale.  A call that raises may leave its work half done.   *)
(***************************************************************************)
EXTENDS Integers, FiniteSets, Selection

CONSTANTS
  Adapters,        \* lora_int_ids
  Layers,          \* the linear layers of the pipeline
  Scales,          \* values of lora_scale
  Rank,            \* rank of each adapter
  Targets,         \* layers each adapter has weights for
  Misfits,         \* those of them set_lora raises for
  MaxCached,       \* max_cached_adapters
  MaxFaults,       \* bound: calls that raise half way
  None

ASSUME LoRAAssumption ==
  /\ IsFiniteSet(Adapters)
  /\ Rank \in [Adapters -> Nat \ {0}]
  /\ Targets \in [Adapters -> SUBSET Layers]
  /\ Misfits \in [Adapters -> SUBSET Layers]
  /\ \A a \in Adapters : Misfits[a] \subseteq Targets[a]
  /\ MaxCached \in Nat \ {0}
  /\ MaxFaults \in Nat
  /\ None \notin Adapters \cup Scales

VARIABLES
  registered,      \* keys of _registered_adapters
  scales,          \* _adapter_scales; None for no entry
  access_order,    \* _adapter_access_order, the least recent first
  pinned,          \* _pinned_adapters
  device,          \* the active adapter and what the layers hold
  generated,       \* the adapter and scale the last call ran with (history)
  faults

cacheVars == <<registered, scales, access_order, pinned>>
loraVars == <<cacheVars, device, generated, faults>>

Nothing == [adapter |-> None, scale |-> None]
NotRun == [ran |-> FALSE, adapter |-> None, scale |-> None]
Ran(a, scale) == [ran |-> TRUE, adapter |-> a, scale |-> scale]
Contents == [adapter : Adapters \cup {None}, scale : Scales \cup {None}]
Devices == [active : Adapters \cup {None}, max_rank : Nat, replaced : SUBSET Layers,
            rank : [Layers -> Nat], slot : [Layers -> Contents]]

LoRAInit ==
  /\ registered = {}
  /\ scales = [a \in Adapters |-> None]
  /\ access_order = <<>>
  /\ pinned = {}
  /\ device = [active |-> None, max_rank |-> 0, replaced |-> {},
               rank |-> [l \in Layers |-> 0], slot |-> [l \in Layers |-> Nothing]]
  /\ generated = NotRun
  /\ faults = 0

-----------------------------------------------------------------------------
(* The layers.                                                             *)

Deactivated(d) == [d EXCEPT !.active = None, !.slot = [l \in Layers |-> Nothing]]

(* The slots after the layers in on were given adapter a: a layer it has   *)
(* no weights for is reset.                                                *)
SlotsWith(d, a, scale, on) ==
  [l \in Layers |-> IF l \notin on THEN d.slot[l]
                    ELSE IF l \in Targets[a] THEN [adapter |-> a, scale |-> scale]
                    ELSE Nothing]

(* set_lora copies the tensors into buffers of the layer's shape and rank. *)
Fits(d, a, l) == l \in Targets[a] => l \notin Misfits[a] /\ Rank[a] <= d.rank[l]

(* An adapter that is active already is skipped.                           *)
Activated(d, a, scale) ==
  IF d.active = a THEN d
  ELSE [d EXCEPT !.active = a, !.slot = SlotsWith(d, a, scale, d.replaced)]

(* The buffers of all replaced layers, recreated for rank r.               *)
Recreated(d, r) ==
  [d EXCEPT !.max_rank = r, !.slot = [l \in Layers |-> Nothing],
            !.rank = [l \in Layers |-> IF l \in d.replaced THEN r ELSE 0]]

(* Faulty: the active adapter is not applied again.                        *)
RankEnsuredForgetsActive(d, r) == IF r <= d.max_rank THEN d ELSE Recreated(d, r)

(* Larger buffers are empty; the active adapter is applied to them again.  *)
RankEnsured(d, r) ==
  IF r <= d.max_rank THEN d
  ELSE IF d.active = None THEN Recreated(d, r)
  ELSE [Recreated(d, r) EXCEPT
          !.slot = SlotsWith(Recreated(d, r), d.active, scales[d.active], d.replaced)]
Reapplies(d, r) ==
  r > d.max_rank /\ d.active # None =>
    \A l \in d.replaced : Fits(Recreated(d, r), d.active, l)

(* Faulty: the new layers are not written down in _lora_modules.           *)
WithLayersUntracked(d, new) ==
  [d EXCEPT !.rank = [l \in Layers |-> IF l \in new THEN d.max_rank ELSE d.rank[l]]]

(* Layers that are replaced now; those replaced before are skipped.        *)
WithLayers(d, new) ==
  [d EXCEPT !.replaced = @ \cup new,
            !.rank = [l \in Layers |-> IF l \in new THEN d.max_rank ELSE d.rank[l]]]
NewLayers(d, a) == Targets[a] \ d.replaced

-----------------------------------------------------------------------------
(* The cache.                                                              *)

Touched(order, a) == Append(Without(order, {a}), a)

(* Faulty: pins are not looked at.                                         *)
EvictedAnyPinned(order, over) ==
  {order[i] : i \in 1..IF over < Len(order) THEN over ELSE Len(order)}

(* _evict_if_needed: as many as there are too many, the least recent first *)
(* and none that is pinned.                                                *)
Evicted(order, over) ==
  LET candidates == Without(order, pinned)
      n == IF over < Len(candidates) THEN over ELSE Len(candidates)
  IN {candidates[i] : i \in 1..n}

(* What add_adapter of a leaves behind if a is not registered.             *)
Gone(a) == Evicted(Touched(access_order, a), Cardinality(registered \cup {a}) - MaxCached)
AddedDevice(a) ==
  LET d == RankEnsured(device, Rank[a])
      wrapped == WithLayers(d, NewLayers(d, a))
  IN IF d.active \in Gone(a) THEN Deactivated(wrapped) ELSE wrapped
Register(a, scale) ==
  /\ registered' = (registered \cup {a}) \ Gone(a)
  /\ access_order' = Without(Touched(access_order, a), Gone(a))
  /\ pinned' = pinned \ Gone(a)
  /\ scales' = [x \in Adapters |-> IF x \in Gone(a) THEN None
                                   ELSE IF x = a THEN scale ELSE scales[x]]

-----------------------------------------------------------------------------
(* Calls that raise.                                                       *)

Fault == faults < MaxFaults /\ faults' = faults + 1

(* Of some layers the buffers were recreated when the next one raised.     *)
RecreateFails(a) ==
  /\ Rank[a] > device.max_rank
  /\ \E done \in SUBSET device.replaced :
       /\ done # device.replaced
       /\ device' = [device EXCEPT !.max_rank = Rank[a],
            !.rank = [l \in Layers |-> IF l \in done THEN Rank[a] ELSE @[l]],
            !.slot = [l \in Layers |-> IF l \in done THEN Nothing ELSE @[l]]]

(* All of them were, and applying the active adapter again raised.         *)
ReapplyFails(a) ==
  LET d == Recreated(device, Rank[a])
  IN /\ ~Reapplies(device, Rank[a])
     /\ \E done \in SUBSET {l \in d.replaced : Fits(d, d.active, l)} :
          device' = [d EXCEPT !.active = None,
                       !.slot = SlotsWith(d, d.active, scales[d.active], done)]

(* The buffers are large enough; some layers were replaced.                *)
WrapFails(a) ==
  LET d == RankEnsured(device, Rank[a])
  IN /\ Reapplies(device, Rank[a])
     /\ \E done \in SUBSET NewLayers(d, a) :
          /\ done # NewLayers(d, a) \/ done = {}
          /\ device' = WithLayers(d, done)

(* The adapter is registered already, and in no place of the order.        *)
AddFails(a, scale) ==
  /\ a \notin registered /\ Fault
  /\ RecreateFails(a) \/ ReapplyFails(a) \/ WrapFails(a)
  /\ registered' = registered \cup {a}
  /\ scales' = [scales EXCEPT ![a] = scale]
  /\ generated' = NotRun
  /\ UNCHANGED <<access_order, pinned>>

-----------------------------------------------------------------------------
(* The calls of the worker.                                                *)

AddLora(a, scale) ==
  /\ a \notin registered /\ Reapplies(device, Rank[a])
  /\ Register(a, scale)
  /\ device' = AddedDevice(a)
  /\ generated' = NotRun
  /\ UNCHANGED faults

(* A call that changes nothing: an adapter that cannot be loaded, one that *)
(* is added again, list_loras, or pin and remove of an unknown one.        *)
NoChange == generated' = NotRun /\ UNCHANGED <<cacheVars, device, faults>>

(* _activate_adapter on device d, and then the forward pass.               *)
ActivateAndRun(d, a, scale) ==
  /\ d.active = a \/ \A l \in d.replaced : Fits(d, a, l)
  /\ device' = Activated(d, a, scale)
  /\ generated' = Ran(a, scale)
  /\ UNCHANGED faults

(* set_lora raised for a layer; done are those before it.                  *)
ActivateRaises(d, a, scale) ==
  /\ d.active # a /\ Fault
  /\ \E l \in d.replaced : ~Fits(d, a, l)
  /\ \E done \in SUBSET {l \in d.replaced : Fits(d, a, l)} :
       device' = [d EXCEPT !.slot = SlotsWith(d, a, scale, done)]
  /\ generated' = NotRun

GenerateCached(a, scale) ==
  /\ a \in registered
  /\ scales' = [scales EXCEPT ![a] = scale]
  /\ access_order' = Touched(access_order, a)
  /\ ActivateAndRun(device, a, scale) \/ ActivateRaises(device, a, scale)
  /\ UNCHANGED <<registered, pinned>>

(* The new adapter is the one evicted if all others are pinned: KeyError.  *)
GenerateLoads(a, scale) ==
  /\ a \notin registered /\ Reapplies(device, Rank[a])
  /\ Register(a, scale)
  /\ \/ /\ a \notin Gone(a)
        /\ \/ ActivateAndRun(AddedDevice(a), a, scale)
           \/ ActivateRaises(AddedDevice(a), a, scale)
     \/ /\ a \in Gone(a)
        /\ device' = AddedDevice(a)
        /\ generated' = NotRun
        /\ UNCHANGED faults

(* A request without an adapter.                                           *)
GenerateBase ==
  /\ device' = Deactivated(device)
  /\ generated' = Ran(None, None)
  /\ UNCHANGED <<cacheVars, faults>>

(* Faulty: the slots of the removed adapter stay as they are.              *)
RemoveLoraKeepsSlots(a) ==
  /\ a \in registered
  /\ registered' = registered \ {a}
  /\ scales' = [scales EXCEPT ![a] = None]
  /\ access_order' = Without(access_order, {a})
  /\ pinned' = pinned \ {a}
  /\ generated' = NotRun
  /\ UNCHANGED <<device, faults>>

RemoveLora(a) ==
  /\ a \in registered
  /\ registered' = registered \ {a}
  /\ scales' = [scales EXCEPT ![a] = None]
  /\ access_order' = Without(access_order, {a})
  /\ pinned' = pinned \ {a}
  /\ device' = IF device.active = a THEN Deactivated(device) ELSE device
  /\ generated' = NotRun
  /\ UNCHANGED faults

PinLora(a) ==
  /\ a \in registered
  /\ pinned' = pinned \cup {a}
  /\ access_order' = Touched(access_order, a)
  /\ generated' = NotRun
  /\ UNCHANGED <<registered, scales, device, faults>>

LoRANext ==
  \/ \E a \in Adapters, scale \in Scales :
       \/ AddLora(a, scale) \/ AddFails(a, scale)
       \/ GenerateCached(a, scale) \/ GenerateLoads(a, scale)
  \/ \E a \in Adapters : RemoveLora(a) \/ PinLora(a)
  \/ GenerateBase
  \/ NoChange

LoRASpec == LoRAInit /\ [][LoRANext]_loraVars

-----------------------------------------------------------------------------
(* Properties.                                                             *)

InOrder == {access_order[i] : i \in 1..Len(access_order)}

(* The types; a layer has buffers iff it is replaced, and holds nothing     *)
(* before that.                                                            *)
LoRATypeOK ==
  /\ registered \subseteq Adapters /\ pinned \subseteq Adapters
  /\ scales \in [Adapters -> Scales \cup {None}]
  /\ access_order \in Seq(Adapters)
  /\ device \in Devices
  /\ \A l \in Layers : device.rank[l] > 0 <=> l \in device.replaced
  /\ \A l \in Layers \ device.replaced : device.slot[l] = Nothing
  /\ generated \in [ran : BOOLEAN, adapter : Adapters \cup {None}, scale : Scales \cup {None}]
  /\ faults \in Nat

(* The four tables of the cache agree: an adapter has a scale iff it is    *)
(* registered, the order holds registered adapters once, and every one of  *)
(* them unless a call raised; pins are of adapters in the order, and the   *)
(* active adapter is registered, although an eviction can hit it.  Pins    *)
(* and calls in any order never fill the cache beyond its limit, and a     *)
(* call that raised leaves at most one adapter too many.                   *)
CacheConsistent ==
  /\ registered = {a \in Adapters : scales[a] # None}
  /\ InOrder \subseteq registered /\ Len(access_order) = Cardinality(InOrder)
  /\ pinned \subseteq InOrder
  /\ device.active \in registered \cup {None}
  /\ Cardinality(registered \ InOrder) <= faults
  /\ Cardinality(registered) <= MaxCached + faults

(* "adapters are cached and evicted when the cache is full (unless         *)
(* pinned)": only remove_lora takes a pinned adapter out of the cache, and *)
(* what is evicted was used less recently than every unpinned adapter that *)
(* stays.                                                                  *)
EvictsLeastRecent ==
  [][\A gone \in registered \ registered' :
       \/ RemoveLora(gone)
       \/ /\ gone \notin pinned
          /\ \A i, j \in 1..Len(access_order) :
               access_order[i] = gone /\ access_order[j] \in registered' \ pinned => i < j]_loraVars

(* "Ensure LoRA buffers can accommodate adapters": whatever the order of   *)
(* loads, each registered adapter's rank fits the layers it targets.       *)
RanksFit ==
  faults = 0 => \A a \in registered, l \in Layers :
    l \in Targets[a] => l \in device.replaced /\ Rank[a] <= device.rank[l]

(* A request runs with the adapter it asked for in every replaced layer    *)
(* the adapter has weights for and with no adapter in all others; a        *)
(* request without one runs with the base model, whatever happened before. *)
(* The buffers of the layers have room for every registered adapter.       *)
RunsWithAdapter ==
  /\ generated.ran /\ (faults = 0 \/ generated.adapter = None) =>
       \A l \in Layers :
         device.slot[l].adapter =
           IF generated.adapter # None /\ l \in Targets[generated.adapter]
           THEN generated.adapter ELSE None
  /\ RanksFit
=============================================================================
