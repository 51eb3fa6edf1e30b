---------------------------- MODULE WeightEvidence -----------------------------
(***************************************************************************)
(* The weight qualification campaign of nnis-model and what becomes of it: *)
(* the runner (examples/qualify_smollm2_weight_campaign.rs) checks its     *)
(* inputs, loads the checkpoint once per family, lets each representation  *)
(* generate, and writes one JSON artifact; the command line later reads an *)
(* artifact and issues the records a downstream consumer works from.       *)
(*                                                                         *)
(* The files are read one after the other while others may replace them,   *)
(* and an artifact is a JSON file anybody may edit.  A digest is the thing *)
(* it is taken of; `current` says that every schema number, contract       *)
(* string and hexadecimal field has its required form.                     *)
(***************************************************************************)
EXTENDS WeightStorage

CONSTANTS
  Payloads,      \* model.safetensors: [sha, config]
  Tokenizers,    \* contents of a tokenizer file
  Encoding,      \* those that encode the prompt as preregistered
  Commits,
  Devices,       \* what a capture of the device may say: [uuid, arch, capability, driver]
  Stored,        \* family -> numbers of its storage summary and of the conversion
  MaxChanges,    \* files replaced during a campaign
  MaxEdits       \* edits of its artifact

\* A summary counts what a loaded model holds: at least one weight in one buffer,
\* every buffer under at least one name.
ASSUME EvidenceAssumption ==
  /\ Encoding \subseteq Tokenizers /\ MaxChanges \in Nat /\ MaxEdits \in Nat
  /\ \A f \in Families :
       /\ {"values", "references", "elements", "buffers", "kept", "serialized", "host"} = DOMAIN Stored[f]
       /\ \A field \in DOMAIN Stored[f] : Stored[f][field] \in Nat \ {0}
       /\ Stored[f].elements >= Stored[f].values

VARIABLES
  disk,       \* [payload, tokenizer, clean, commit]
  changes, edits,
  step,       \* the runner's next step, "written" or "ended"
  noted,      \* what the runner keeps: [commit, device, tokenizer]
  evidences,  \* of the families that have run
  ran,        \* payload each of them was loaded from
  artifact,   \* the file, or NoFile
  issued      \* [kind, given, accepted, record] of the last command, or NoFile

evidenceVars == <<disk, changes, edits, step, noted, evidences, ran, artifact, issued>>
NoFile == [file |-> FALSE]
\* The fields of both records (@@ of TLC has no definition the provers expand).
Joined(r, s) == [x \in DOMAIN r \cup DOMAIN s |-> IF x \in DOMAIN r THEN r[x] ELSE s[x]]

\* --- The exact checkpoint and the preregistered protocol -------------------------
ExactSha == "exact"
Spec135M == [sha |-> ExactSha, config |-> "smollm2"]
\* canonical_identity names every field of the specification.
EvidenceKey(spec) == <<spec.sha, spec.config>>
ExactKey == EvidenceKey(Spec135M)
\* validate_config compares the geometry and the capability record.
ConfigMatches(payload) == payload.config = Spec135M.config
PayloadVerified(payload) == payload.sha = Spec135M.sha
Expected == <<"t260", "t3075">>
Protocol == [prompt |-> "Gravity is", expected |-> Expected, count |-> 2, threshold |-> 5]
ProtocolValid(p) ==
  /\ p.prompt = "Gravity is" /\ p.expected = Expected /\ p.count = Len(Expected) /\ p.threshold = 5
\* GeneratedTokenEvidenceV1: the count and a digest of count and tokens.
TokenEvidence(tokens) == [count |-> Len(tokens), digest |-> tokens]
TokenEvidenceValid(t) == t.count > 0
RuntimeFinite(values) == values # <<>> /\ \A i \in DOMAIN values : values[i] # NonFinite

\* --- Accounting and qualification of one family ------------------------------------
DenominatorValid(d) ==
  /\ \A n \in {d.references, d.elements, d.buffers, d.values, d.source} : n > 0
  /\ d.elements >= d.values
\* Bits per value are kept as a fraction.
Accounting(d, bytes, owned) ==
  [denominator |-> d, serialized |-> bytes, resident |-> owned,
   serializedBits |-> <<8 * bytes, d.values>>, residentBits |-> <<8 * owned, d.values>>]
AccountingValid(a) ==
  /\ DenominatorValid(a.denominator) /\ a.serialized > 0 /\ a.resident > 0
  /\ a = Accounting(a.denominator, a.serialized, a.resident)
QualificationValid(q) ==
  /\ q.current /\ q.version > 0 /\ q.metrics /\ AccountingValid(q.accounting)
  /\ CASE q.level = "storage" -> ~q.physical /\ ~q.verified
       [] q.level = "projection" -> q.physical /\ ~q.verified
       [] OTHER -> q.physical /\ q.verified
\* What a storage summary alone qualifies for.
StorageQualification(f, key) ==
  LET s == Stored[f]
  IN [current |-> TRUE, family |-> f, version |-> 1, checkpoint |-> key, level |-> "storage",
      physical |-> FALSE, verified |-> FALSE, metrics |-> TRUE,
      accounting |-> Accounting([references |-> s.references, elements |-> s.elements, buffers |-> s.buffers,
                                 values |-> s.values, source |-> 4 * s.values], s.serialized, s.kept)]

\* DenseWeightMaterializationEvidence of the loaded model.
Materialization(f) ==
  LET s == Stored[f]
      e == EvidenceOf(s.values, 4 * s.values, s.kept, 4 * s.values, 0, s.host)
  IN [family |-> f, lowBit |-> FALSE, storage |-> "dense_f32_materialized", values |-> e.values, source |-> e.source,
      kept |-> e.kept, executed |-> e.executed, final |-> e.final, peak |-> e.peak, host |-> e.host]
\* from_physical_observation
FullModelEvidence(f, version, observation) ==
  LET s == Stored[f]
  IN [current |-> TRUE, family |-> f, version |-> version, checkpoint |-> ExactKey,
      commit |-> observation.commit, entrypoint |-> observation.entrypoint, physical |-> TRUE,
      tokens |-> observation.tokens, finite |-> TRUE, serialized |-> s.serialized,
      references |-> s.references, elements |-> s.elements, buffers |-> s.buffers, metrics |-> TRUE,
      materialization |-> Materialization(f)]
Int4FullModelEvidence(o) == FullModelEvidence("int4", 1, o)
Int2FullModelEvidence(o) == FullModelEvidence("int2", 1, o)
SparseFullModelEvidence(o) == FullModelEvidence("sparse", 1, o)
FullModelValid(e) ==
  LET device == e.materialization
  IN /\ e.current /\ e.version > 0 /\ e.physical /\ TokenEvidenceValid(e.tokens) /\ e.finite /\ e.metrics
     /\ \A n \in {e.serialized, e.references, e.elements, e.buffers} : n > 0
     /\ EvidenceValid(device) /\ device.family = e.family /\ ~device.lowBit
     /\ device.storage = "dense_f32_materialized" /\ e.elements >= device.values
\* A full model's resident bytes are those that stay owned.
QualificationRecord(e) ==
  LET device == e.materialization
  IN [current |-> TRUE, family |-> e.family, version |-> e.version, checkpoint |-> e.checkpoint, level |-> "full",
      physical |-> TRUE, verified |-> TRUE, metrics |-> e.metrics,
      accounting |-> Accounting([references |-> e.references, elements |-> e.elements, buffers |-> e.buffers,
                                 values |-> device.values, source |-> device.source], e.serialized, device.final)]

\* --- Campaign, artifact ----------------------------------------------------------------
FamiliesOf(s) == {s[i].family : i \in DOMAIN s}
BundleValid(b) ==
  /\ b.records # <<>>
  /\ \A i \in DOMAIN b.records : QualificationValid(b.records[i]) /\ b.records[i].checkpoint = b.checkpoint
  /\ Cardinality(FamiliesOf(b.records)) = Len(b.records)
\* validate_elastic_stage_b_readiness
BundleReady(b) ==
  /\ BundleValid(b) /\ Families \subseteq FamiliesOf(b.records)
  /\ \A i \in DOMAIN b.records : b.records[i].level = "full"
\* Mutant: the commits of the evidences are not compared.
CampaignValidAnyCommit(c) ==
  /\ c.current /\ Len(c.evidences) = 3 /\ FamiliesOf(c.evidences) = Families
  /\ \A i \in DOMAIN c.evidences :
       FullModelValid(c.evidences[i]) /\ c.evidences[i].checkpoint = c.checkpoint
CampaignValid(c) ==
  /\ c.current /\ Len(c.evidences) = 3 /\ FamiliesOf(c.evidences) = Families
  /\ \A i \in DOMAIN c.evidences :
       /\ FullModelValid(c.evidences[i])
       /\ c.evidences[i].commit = c.commit /\ c.evidences[i].checkpoint = c.checkpoint
Bundle(c) ==
  [checkpoint |-> c.checkpoint, records |-> [i \in DOMAIN c.evidences |-> QualificationRecord(c.evidences[i])]]
RecipeValid(r) == r.prompt # "" /\ r.count > 0 /\ r.threshold >= 0 /\ r.greedy
EnvironmentValid(d) == d.uuid # "" /\ d.driver > 0 /\ d.arch = d.capability
\* WeightFullModelCampaignArtifactV1::validate
CampaignArtifactValid(a) ==
  /\ CampaignValid(a.campaign) /\ BundleReady(Bundle(a.campaign)) /\ RecipeValid(a.recipe) /\ a.basename
  /\ \A i \in DOMAIN a.campaign.evidences : a.campaign.evidences[i].tokens.count = a.recipe.count
ArtifactValid(a) == a.current /\ CampaignArtifactValid(a) /\ EnvironmentValid(a.device)
\* verify_tokenizer_file: the file a command is given, by name and content.
TokenizerVerified(a, given) == a.basename /\ given.named /\ given.content = a.tokenizer

\* --- The records a command issues --------------------------------------------------------
FamilyCapability(e) ==
  LET q == QualificationRecord(e)
      device == e.materialization
  IN [family |-> e.family, version |-> e.version, entrypoint |-> e.entrypoint, values |-> device.values,
      serializedBits |-> q.accounting.serializedBits, residentBits |-> q.accounting.residentBits,
      peak |-> device.peak, host |-> device.host, lowBit |-> device.lowBit, tokens |-> e.tokens]
FamilyCapabilityValid(c) ==
  c.version > 0 /\ c.values > 0 /\ c.peak > 0 /\ TokenEvidenceValid(c.tokens) /\ ~c.lowBit
\* QualifiedWeightCapabilityRecordV1::from_artifact
Capabilities(a) ==
  [commit |-> a.campaign.commit, checkpoint |-> a.campaign.checkpoint, tokenizer |-> a.tokenizer,
   recipe |-> a.recipe, ready |-> TRUE,
   families |-> [i \in DOMAIN a.campaign.evidences |-> FamilyCapability(a.campaign.evidences[i])]]
CapabilitiesValid(r) ==
  /\ RecipeValid(r.recipe) /\ r.ready /\ Len(r.families) = 3 /\ FamiliesOf(r.families) = Families
  /\ \A i \in DOMAIN r.families :
       FamilyCapabilityValid(r.families[i]) /\ r.families[i].tokens.count = r.recipe.count
CapabilitiesV2(a) == Joined([device |-> a.device], Capabilities(a))
Fingerprint(a) ==
  [digest |-> a, commit |-> a.campaign.commit, checkpoint |-> a.campaign.checkpoint,
   tokenizer |-> a.tokenizer, device |-> a.device]
FingerprintValid(p) == p.device.uuid # "" /\ p.device.arch # "" /\ p.device.driver > 0
Handoff(a) == Joined([fingerprint |-> Fingerprint(a)], CapabilitiesV2(a))
HandoffValid(h) ==
  /\ FingerprintValid(h.fingerprint) /\ CapabilitiesValid(h) /\ EnvironmentValid(h.device)
  /\ h.fingerprint.commit = h.commit /\ h.fingerprint.checkpoint = h.checkpoint
  /\ h.fingerprint.tokenizer = h.tokenizer /\ h.fingerprint.device = h.device
\* ElasticStageBPreregistrationHandoffV1
StageB(a) ==
  Joined([preregister |-> TRUE, authorized |-> FALSE, partition |-> "locked"], Handoff(a))
StageBValid(s) ==
  /\ HandoffValid(s) /\ s.checkpoint = ExactKey
  /\ s.ready /\ s.preregister /\ ~s.authorized /\ s.partition = "locked"
Packet(a) == Joined([source |-> Spec135M], StageB(a))
PacketValid(p) == StageBValid(p) /\ p.source = Spec135M

Kinds == {"artifact", "capabilities", "capabilities_v2", "handoff", "stage_b", "packet"}
Record(kind, a) ==
  CASE kind \in {"artifact", "capabilities"} -> Capabilities(a)
    [] kind = "capabilities_v2" -> CapabilitiesV2(a)
    [] kind = "handoff" -> Handoff(a)
    [] kind = "stage_b" -> StageB(a)
    [] OTHER -> Packet(a)
RecordValid(kind, r) ==
  CASE kind = "artifact" -> TRUE
    [] kind = "capabilities" -> CapabilitiesValid(r)
    [] kind = "capabilities_v2" -> CapabilitiesValid(r) /\ EnvironmentValid(r.device)
    [] kind = "handoff" -> HandoffValid(r)
    [] kind = "stage_b" -> StageBValid(r)
    [] OTHER -> PacketValid(r)
\* The commands read the file, validate it, verify the tokenizer they are given,
\* and derive the record; the V1 commands read the inner artifact.
Accepts(kind, given, a) ==
  /\ IF kind \in {"artifact", "capabilities"} THEN CampaignArtifactValid(a) ELSE ArtifactValid(a)
  /\ TokenizerVerified(a, given) /\ RecordValid(kind, Record(kind, a))
Answer(kind, given, a) ==
  [kind |-> kind, given |-> given, accepted |-> Accepts(kind, given, a),
   record |-> IF Accepts(kind, given, a) THEN Record(kind, a) ELSE NoFile]
\* A command keeps nothing, so one of them per file is enough.
Command(kind, given) ==
  /\ artifact # NoFile /\ issued = NoFile
  /\ issued' = Answer(kind, given, artifact)
  /\ UNCHANGED <<disk, changes, edits, step, noted, evidences, ran, artifact>>

\* --- The runner ---------------------------------------------------------------------------
Keeps == UNCHANGED <<disk, changes, edits, artifact, issued>>
Proceeds(from, ok, to) == step = from /\ step' = IF ok THEN to ELSE "ended"
\* parse_args, validate_args_against_protocol
BeginCampaign(args) ==
  /\ Proceeds("idle", ProtocolValid(Protocol) /\ args = Protocol, "worktree")
  /\ Keeps /\ UNCHANGED <<noted, evidences, ran>>
VerifyWorktree == Proceeds("worktree", disk.clean, "payload") /\ Keeps /\ UNCHANGED <<noted, evidences, ran>>
VerifyPayload ==
  Proceeds("payload", PayloadVerified(disk.payload), "prompt") /\ Keeps /\ UNCHANGED <<noted, evidences, ran>>
VerifyPrompt ==
  Proceeds("prompt", disk.tokenizer \in Encoding, "commit") /\ Keeps /\ UNCHANGED <<noted, evidences, ran>>
ReadCommit ==
  Proceeds("commit", TRUE, "device") /\ noted' = [noted EXCEPT !.commit = disk.commit]
  /\ Keeps /\ UNCHANGED <<evidences, ran>>
CaptureDevice(d) ==
  Proceeds("device", EnvironmentValid(d), "int4") /\ noted' = [noted EXCEPT !.device = d]
  /\ Keeps /\ UNCHANGED <<evidences, ran>>
\* load_source, and observe_generation, which fails unless the logits are finite
\* and the tokens are the preregistered ones.
Observed(logits, tokens) == RuntimeFinite(logits) /\ tokens = Expected
Runs(from, to, full(_), entrypoint, logits, tokens) ==
  LET ok == ConfigMatches(disk.payload) /\ Observed(logits, tokens)
      o == [commit |-> noted.commit, entrypoint |-> entrypoint, tokens |-> TokenEvidence(tokens)]
  IN /\ Proceeds(from, ok, to) /\ Keeps /\ UNCHANGED noted
     /\ IF ok THEN evidences' = Append(evidences, full(o)) /\ ran' = Append(ran, disk.payload)
        ELSE UNCHANGED <<evidences, ran>>
RunInt4(logits, tokens) ==
  Runs("int4", "int2", Int4FullModelEvidence, "Int4DenseMaterializedModelV1::model", logits, tokens)
RunInt2(logits, tokens) ==
  Runs("int2", "sparse", Int2FullModelEvidence, "Int2DenseMaterializedModelV1::model", logits, tokens)
RunSparse(logits, tokens) ==
  Runs("sparse", "assemble", SparseFullModelEvidence, "SparseDenseMaterializedModelV1::model", logits, tokens)
Campaign ==
  [current |-> TRUE, commit |-> evidences[1].commit, checkpoint |-> evidences[1].checkpoint, evidences |-> evidences]
Recipe == [prompt |-> Protocol.prompt, count |-> Protocol.count, threshold |-> Protocol.threshold, greedy |-> TRUE]
NewArtifact ==
  [current |-> TRUE, campaign |-> Campaign, recipe |-> Recipe, basename |-> TRUE, tokenizer |-> noted.tokenizer,
   device |-> noted.device]
\* WeightFullModelCampaignArtifactV1::new, with the tokenizer's digest as it is now.
Assemble ==
  LET a == [NewArtifact EXCEPT !.tokenizer = disk.tokenizer]
  IN Proceeds("assemble", CampaignArtifactValid(a), "write") /\ noted' = [noted EXCEPT !.tokenizer = disk.tokenizer]
     /\ Keeps /\ UNCHANGED <<evidences, ran>>
\* The tokenizer is verified once more, and the file is written.
WriteArtifact ==
  LET ok == TokenizerVerified(NewArtifact, [named |-> TRUE, content |-> disk.tokenizer]) /\ ArtifactValid(NewArtifact)
  IN /\ Proceeds("write", ok, "written") /\ artifact' = IF ok THEN NewArtifact ELSE NoFile
     /\ UNCHANGED <<disk, changes, edits, noted, evidences, ran, issued>>
\* Reading, loading, allocating or writing fails.
CampaignFails ==
  /\ step \notin {"idle", "written", "ended"} /\ step' = "ended"
  /\ Keeps /\ UNCHANGED <<noted, evidences, ran>>

\* --- Others ----------------------------------------------------------------------------------
ReplaceFile(d) ==
  /\ step \notin {"idle", "written", "ended"} /\ changes < MaxChanges /\ d # disk
  /\ disk' = d /\ changes' = changes + 1
  /\ UNCHANGED <<edits, step, noted, evidences, ran, artifact, issued>>
Replaced ==
  {[disk EXCEPT !.payload = p] : p \in Payloads} \cup {[disk EXCEPT !.tokenizer = t] : t \in Tokenizers}
  \cup {[disk EXCEPT !.clean = FALSE]} \cup {[disk EXCEPT !.commit = c] : c \in Commits}
\* One field of the JSON file, one evidence more or less, or a checkpoint throughout.
EditedEvidence(e) ==
  {[e EXCEPT !.family = f] : f \in Families} \cup {[e EXCEPT !.commit = c] : c \in Commits}
  \cup {[e EXCEPT !.checkpoint = <<"other", "other">>], [e EXCEPT !.physical = FALSE], [e EXCEPT !.finite = FALSE],
        [e EXCEPT !.tokens = TokenEvidence(<<"t260">>)], [e EXCEPT !.tokens.count = 0], [e EXCEPT !.elements = 1],
        [e EXCEPT !.serialized = 0], [e EXCEPT !.materialization.family = "int4"],
        [e EXCEPT !.materialization.peak = @ - 1], [e EXCEPT !.materialization.kept = @ + 1],
        [e EXCEPT !.materialization.lowBit = TRUE], [e EXCEPT !.version = 0]}
EditedEvidences(s) ==
  UNION {{[s EXCEPT ![i] = e] : e \in EditedEvidence(s[i])} \cup {Tail(s), Append(s, s[i])} : i \in DOMAIN s}
Edited(a) ==
  {[a EXCEPT !.campaign.evidences = s] : s \in EditedEvidences(a.campaign.evidences)}
  \cup {[a EXCEPT !.campaign.checkpoint = <<"other", "other">>], [a EXCEPT !.recipe.count = 1],
        [a EXCEPT !.recipe.greedy = FALSE],
        [a EXCEPT !.basename = FALSE], [a EXCEPT !.device.arch = "sm_00"], [a EXCEPT !.current = FALSE]}
  \cup {[a EXCEPT !.tokenizer = t] : t \in Tokenizers} \cup {[a EXCEPT !.campaign.commit = c] : c \in Commits}
  \cup {[a EXCEPT !.campaign.checkpoint = <<"other", "other">>,
                  !.campaign.evidences = [i \in DOMAIN @ |-> [@[i] EXCEPT !.checkpoint = <<"other", "other">>]]]}
EditFile ==
  /\ artifact # NoFile /\ edits < MaxEdits
  /\ \E a \in Edited(artifact) \ {artifact} : artifact' = a
  /\ edits' = edits + 1 /\ issued' = NoFile
  /\ UNCHANGED <<disk, changes, step, noted, evidences, ran>>

EvidenceStart ==
  /\ changes = 0 /\ edits = 0 /\ step = "idle" /\ evidences = <<>> /\ ran = <<>>
  /\ noted = [commit |-> 0, device |-> NoFile, tokenizer |-> "none"]
  /\ artifact = NoFile /\ issued = NoFile
EvidenceInit ==
  /\ disk \in [payload : Payloads, tokenizer : Tokenizers, clean : BOOLEAN, commit : Commits]
  /\ EvidenceStart
EvidenceNext ==
  \/ \E args \in {Protocol, [Protocol EXCEPT !.threshold = 0]} : BeginCampaign(args)
  \/ VerifyWorktree \/ VerifyPayload \/ VerifyPrompt \/ ReadCommit
  \/ \E d \in Devices : CaptureDevice(d)
  \/ \E logits \in {<<0>>, <<NonFinite>>, <<>>}, tokens \in {Expected, <<"t260">>} :
       RunInt4(logits, tokens) \/ RunInt2(logits, tokens) \/ RunSparse(logits, tokens)
  \/ Assemble \/ WriteArtifact \/ CampaignFails
  \/ \E d \in Replaced : ReplaceFile(d)
  \/ EditFile
  \/ \E kind \in Kinds, t \in Tokenizers, named \in BOOLEAN : Command(kind, [named |-> named, content |-> t])
EvidenceSpec == EvidenceInit /\ [][EvidenceNext]_evidenceVars

-----------------------------------------------------------------------------
\* elastic_stage_b_handoff.rs:1-4, weight_full_model_campaign.rs:42-85 and
\* qualified_weight_capability_record.rs:1-5: whoever edited the file, an issued
\* record speaks of three families that ran at one commit on one checkpoint and
\* generated as many tokens as its recipe says, with the memory numbers of one
\* ledger (the source is owned at the peak and gone in the end), for the
\* tokenizer the command was given; nothing for the consumer authorizes a
\* measurement or names another checkpoint; and a storage summary in the place of
\* a model that ran would not have made the bundle ready.  An artifact as it was written, in a
\* campaign during which no file was replaced, is of the exact payload, and of a
\* tokenizer that encodes the prompt.
HandoffHonest ==
  issued # NoFile /\ issued.accepted =>
    LET r == issued.record
        ran3 == artifact.campaign.evidences
    IN /\ FamiliesOf(r.families) = Families /\ Len(r.families) = 3
       /\ \A i \in DOMAIN ran3 : ran3[i].commit = r.commit /\ ran3[i].checkpoint = r.checkpoint /\ ran3[i].physical
       /\ \A i \in DOMAIN r.families :
            LET f == r.families[i]
            IN /\ f.tokens.count = r.recipe.count /\ ~f.lowBit
               /\ 8 * (f.peak - 4 * f.values) = f.residentBits[1] /\ f.residentBits[2] = f.values
               /\ f.residentBits[1] > 32 * f.values
       /\ issued.given = [named |-> TRUE, content |-> r.tokenizer]
       /\ issued.kind \in {"stage_b", "packet"} => r.checkpoint = ExactKey /\ ~r.authorized
       /\ \A i \in DOMAIN ran3 :
            LET b == Bundle(artifact.campaign)
                c == [b EXCEPT !.records[i] = StorageQualification(ran3[i].family, b.checkpoint)]
            IN BundleReady(b) /\ BundleValid(c) /\ ~BundleReady(c)
       /\ edits = 0 /\ changes = 0 =>
            /\ ran = [i \in 1..3 |-> disk.payload] /\ PayloadVerified(disk.payload) /\ disk.clean
            /\ r.commit = disk.commit /\ r.tokenizer \in Encoding
            /\ \A i \in 1..3 : ran3[i].tokens = TokenEvidence(Expected)
================================================================================
