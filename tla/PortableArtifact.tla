--------------------------- MODULE PortableArtifact ----------------------------
(***************************************************************************)
(* Portable kernel artifacts (nnis-core kernel_artifact.rs) and their      *)
(* binding to a WGPU device (nnis-wgpu lib.rs): what an artifact requires  *)
(* is derived once from its fields, capabilities once from the limits the  *)
(* device was granted, and a binding compares the two.                     *)
(*                                                                         *)
(* A fingerprint is the descriptor itself: SHA-256 is taken to be free of  *)
(* collisions.  Sizes are in units of two bytes.                           *)
(***************************************************************************)
EXTENDS Integers, Sequences, FiniteSets, FiniteSetsExt, SequencesExt

CONSTANTS
  Artifacts,     \* KernelArtifactFieldsV1 offered to KernelArtifactV1::new
  DeviceLimits,  \* limits a device may be granted
  Unlimited,     \* greatest u32, at which products and sums saturate
  MaxBindings,   \* MAX_KERNEL_ARTIFACT_BINDINGS
  AddWorkgroup,  \* ADD_F32_WORKGROUP_SIZE
  MaxAdded       \* bound: elements of an add_f32

BindingFields ==
  [group : Nat, slot : Nat, kind : {"read", "write", "uniform"}, element : {"F32", "F16", "U32"}, size : Nat]
ArtifactFields ==
  [id : STRING, revision : Nat, source : {"builtin", "wgsl", "ir"}, workgroup : Nat \X Nat,
   bindings : Seq(BindingFields)]
Limits ==
  [groups : Nat, perGroup : Nat, buffer : Nat, storage : Nat, uniform : Nat, storages : Nat, uniforms : Nat,
   half : BOOLEAN, workgroup : Nat \X Nat, invocations : Nat, dispatch : Nat]

ASSUME ArtifactAssumption ==
  /\ Artifacts \subseteq ArtifactFields /\ DeviceLimits \subseteq Limits
  /\ {Unlimited, MaxBindings, MaxAdded} \subseteq Nat
  /\ AddWorkgroup \in Nat \ {0}

VARIABLES
  granted,     \* limits and features of the discovered device, or NoDevice
  artifact,    \* a validated artifact, or NoArtifact
  binding,     \* BoundKernelArtifactV1, or NoArtifact
  added,       \* what an add_f32 dispatched and wrote, or NoArtifact
  discovering  \* threads inside discover

artifactVars == <<granted, artifact, binding, added, discovering>>

NoDevice == [groups |-> 0]
NoArtifact == [id |-> "none"]
Threads == {"first", "second"}
Storage == {"read", "write"}
Saturate(n) == IF n > Unlimited THEN Unlimited ELSE n
Least(a, b) == IF a < b THEN a ELSE b

\* --- Artifacts -------------------------------------------------------------
FamilyOf(source) == IF source = "builtin" THEN "cpu" ELSE "wgpu"
ElementSize(b) == IF b.element = "F16" THEN 1 ELSE 2
GroupThreads(f) == f.workgroup[1] * f.workgroup[2]

\* bindings: [group, slot, kind, element, size].
Earlier(a, b) == a.group < b.group \/ (a.group = b.group /\ a.slot < b.slot)
BindingValid(b) == b.size # 0 /\ b.size % ElementSize(b) = 0
\* Mutant: a slot may be given twice.
FieldsValidRepeated(f) ==
  /\ f.id # "" /\ f.revision # 0 /\ f.bindings # <<>> /\ Len(f.bindings) <= MaxBindings
  /\ \A i \in 2..Len(f.bindings) : ~Earlier(f.bindings[i], f.bindings[i - 1])
  /\ \A b \in ToSet(f.bindings) : BindingValid(b)
  /\ \E b \in ToSet(f.bindings) : b.kind = "write"
  /\ GroupThreads(f) \in 1..Unlimited
FieldsValid(f) ==
  /\ f.id # "" /\ f.revision # 0 /\ f.bindings # <<>> /\ Len(f.bindings) <= MaxBindings
  /\ \A i \in 2..Len(f.bindings) : Earlier(f.bindings[i - 1], f.bindings[i])
  /\ \A b \in ToSet(f.bindings) : BindingValid(b)
  /\ \E b \in ToSet(f.bindings) : b.kind = "write"
  /\ GroupThreads(f) \in 1..Unlimited
Requirements(f) ==
  [family |-> FamilyOf(f.source), workgroup |-> f.workgroup, invocations |-> GroupThreads(f),
   bindings |-> Len(f.bindings), bytes |-> Max({b.size : b \in ToSet(f.bindings)}),
   half |-> \E b \in ToSet(f.bindings) : b.element = "F16"]
\* Mutant: the sizes of the bindings are left out.
DescriptorUnsized(f) ==
  <<f.id, f.revision, f.source, f.workgroup,
    [i \in DOMAIN f.bindings |->
       <<f.bindings[i].group, f.bindings[i].slot, f.bindings[i].kind, f.bindings[i].element>>]>>
\* descriptor_fingerprint.
Descriptor(f) ==
  <<f.id, f.revision, f.source, f.workgroup,
    [i \in DOMAIN f.bindings |->
       <<f.bindings[i].group, f.bindings[i].slot, f.bindings[i].kind, f.bindings[i].element,
         f.bindings[i].size>>]>>

\* --- Devices -----------------------------------------------------------------
\* Mutant: buffers may be as large as the device makes them.
CapabilitiesOfBuffers(d) ==
  [bytes |-> d.buffer, workgroup |-> d.workgroup, invocations |-> d.invocations, half |-> d.half,
   bindings |-> Least(Saturate(d.storages + d.uniforms), Saturate(d.perGroup * d.groups))]
\* capabilities_from_limits.
CapabilitiesFromLimits(d) ==
  [bytes |-> Least(d.buffer, d.storage), workgroup |-> d.workgroup,
   invocations |-> d.invocations, half |-> d.half,
   bindings |-> Least(Saturate(d.storages + d.uniforms), Saturate(d.perGroup * d.groups))]
CheckCapabilities(r, c) ==
  /\ \A axis \in 1..2 : r.workgroup[axis] <= c.workgroup[axis]
  /\ r.invocations <= c.invocations /\ r.bindings <= c.bindings
  /\ r.bytes <= c.bytes /\ (r.half => c.half)
Of(f, kinds) == {i \in DOMAIN f.bindings : f.bindings[i].kind \in kinds}
\* Mutant: the kinds share one budget.
WgpuBindingLimitsPooled(f, d) ==
  /\ \A i \in DOMAIN f.bindings : f.bindings[i].group < d.groups /\ f.bindings[i].slot < d.perGroup
  /\ \A i \in Of(f, {"uniform"}) : f.bindings[i].size <= d.uniform
  /\ Cardinality(DOMAIN f.bindings) <= d.storages + d.uniforms
\* check_wgpu_binding_limits.
WgpuBindingLimits(f, d) ==
  /\ \A i \in DOMAIN f.bindings : f.bindings[i].group < d.groups /\ f.bindings[i].slot < d.perGroup
  /\ \A i \in Of(f, {"uniform"}) : f.bindings[i].size <= d.uniform
  /\ Cardinality(Of(f, Storage)) <= d.storages
  /\ Cardinality(Of(f, {"uniform"})) <= d.uniforms

\* KernelArtifactV1::bind and the limits WgpuDevice::bind adds to it.
Binds(f, expected) ==
  /\ Descriptor(f) = expected
  /\ Requirements(f).family = "wgpu"
  /\ CheckCapabilities(Requirements(f), CapabilitiesFromLimits(granted))
  /\ WgpuBindingLimits(f, granted)

\* add_f32_artifact: two inputs and the output of n elements.
AddArtifact(n) ==
  [id |-> "add_f32", revision |-> 1, source |-> "wgsl", workgroup |-> <<AddWorkgroup, 1>>,
   bindings |-> [i \in 1..3 |-> [group |-> 0, slot |-> i - 1, element |-> "F32", size |-> 2 * n,
                                kind |-> IF i = 3 THEN "write" ELSE "read"]]]
\* Mutant: the last partial work group is not dispatched.
AddGroupsWhole(n) == n \div AddWorkgroup
AddGroups(n) == (n + AddWorkgroup - 1) \div AddWorkgroup
\* ADD_F32_WGSL: a thread past the output does nothing.
AddWrites(n, groups) == {i \in 0..(groups * AddWorkgroup) - 1 : i < n}

\* --- Behaviour -----------------------------------------------------------------
ArtifactInit ==
  /\ granted = NoDevice /\ artifact = NoArtifact /\ binding = NoArtifact /\ added = NoArtifact
  /\ discovering = {}

\* discover: one thread at a time, whatever device it comes back with.
EnterDiscover(t) ==
  /\ granted = NoDevice /\ discovering = {}
  /\ discovering' = {t} /\ UNCHANGED <<granted, artifact, binding, added>>
LeaveDiscover(t, d) ==
  /\ t \in discovering
  /\ discovering' = discovering \ {t} /\ granted' = d /\ UNCHANGED <<artifact, binding, added>>
NewArtifact(f) ==
  /\ granted # NoDevice /\ artifact = NoArtifact /\ added = NoArtifact /\ FieldsValid(f)
  /\ artifact' = f /\ UNCHANGED <<granted, binding, added, discovering>>
\* WgpuDevice::bind with the fingerprint the caller expects.
BindArtifact(expected) ==
  /\ artifact # NoArtifact /\ binding = NoArtifact
  /\ Binds(artifact, expected)
  /\ binding' = [id |-> artifact.id, revision |-> artifact.revision, fingerprint |-> expected,
                 capabilities |-> CapabilitiesFromLimits(granted)]
  /\ UNCHANGED <<granted, artifact, added, discovering>>
DropArtifact ==
  /\ artifact # NoArtifact
  /\ artifact' = NoArtifact /\ binding' = NoArtifact /\ UNCHANGED <<granted, added, discovering>>
\* WgpuDevice::add_f32 on two inputs of n finite values.
AddF32(n) ==
  /\ granted # NoDevice /\ artifact = NoArtifact /\ added = NoArtifact
  /\ FieldsValid(AddArtifact(n)) /\ Binds(AddArtifact(n), Descriptor(AddArtifact(n)))
  /\ AddGroups(n) <= granted.dispatch
  /\ added' = [id |-> "sum", elements |-> n, groups |-> AddGroups(n), written |-> AddWrites(n, AddGroups(n))]
  /\ UNCHANGED <<granted, artifact, binding, discovering>>

ArtifactNext ==
  \/ \E t \in Threads : EnterDiscover(t)
  \/ \E t \in Threads, d \in DeviceLimits \cup {NoDevice} : LeaveDiscover(t, d)
  \/ \E f \in Artifacts : NewArtifact(f)
  \/ artifact # NoArtifact /\ \E f \in Artifacts : BindArtifact(Descriptor(f))
  \/ DropArtifact
  \/ \E n \in 0..MaxAdded : AddF32(n)

ArtifactSpec == ArtifactInit /\ [][ArtifactNext]_artifactVars

-----------------------------------------------------------------------------
\* A device can make a pipeline of f: no slot is given twice, every slot, size
\* and number of bindings of each kind is within what it was granted, and it
\* runs f's work group and element types.
Runs(f, d) ==
  LET b == f.bindings
      number(kinds) == Cardinality({i \in DOMAIN b : b[i].kind \in kinds})
  IN /\ \A i, j \in DOMAIN b : i # j => <<b[i].group, b[i].slot>> # <<b[j].group, b[j].slot>>
     /\ \A i \in DOMAIN b :
          /\ b[i].group < d.groups /\ b[i].slot < d.perGroup
          /\ b[i].size <= d.buffer
          /\ b[i].size <= IF b[i].kind = "uniform" THEN d.uniform ELSE d.storage
          /\ b[i].element = "F16" => d.half
     /\ number({"read", "write"}) <= d.storages /\ number({"uniform"}) <= d.uniforms
     /\ number({"write"}) > 0
     /\ \A axis \in 1..2 : f.workgroup[axis] <= d.workgroup[axis]
     /\ f.workgroup[1] * f.workgroup[2] <= d.invocations
     /\ f.source \in {"wgsl", "ir"}

\* kernel_artifact.rs:186-365 and wgpu/lib.rs:187-262, 391-515: whatever artifact
\* the fingerprint of a binding names, the device it is bound to can run; and an
\* add_f32 that returns wrote each of its elements in a dispatch the device takes.
BoundFits ==
  /\ binding # NoArtifact =>
       \A f \in Artifacts : Descriptor(f) = binding.fingerprint => Runs(f, granted)
  /\ added # NoArtifact =>
       added.groups <= granted.dispatch /\ added.written = 0..added.elements - 1
================================================================================
