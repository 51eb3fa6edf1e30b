----------------------- MODULE RebuildTransitionProofs ------------------------
(***************************************************************************)
(* Proofs about a model's life outside its sessions.  RebuildTransition:   *)
(* for any plans, clients and byte width.  WeightEvidence: for any files,  *)
(* devices and storage summaries, and any number of replaced files and of  *)
(* edits of the artifact.  CheckpointLoader: for any geometry, contents,   *)
(* files and order of the tensors in them.                                 *)
(***************************************************************************)
EXTENDS RebuildTransition, WeightEvidence, TLAPS, SequenceTheorems

\* Init establishes the inductive invariant: nothing prepared, nothing queued.
LEMMA InitHolds == Init => IInv
<1> SUFFICES ASSUME Init PROVE IInv
    OBVIOUS
<1>1. TypeOK
  <2>1. tx \in Transactions /\ active \in Plans /\ admitting \in BOOLEAN
        /\ kv \subseteq Plans /\ candidate \in Plans \cup {None}
        /\ running \in BOOLEAN /\ stuck \in BOOLEAN
    BY DEF Init
  <2>2. sessions \in [Clients -> Plans \cup {None}] /\ created \in 0..MaxTx
    BY RebuildAssumption DEF Init
  <2>3. ~running /\ candidate = None
    BY DEF Init
  <2> QED
    BY <2>1, <2>2, <2>3 DEF TypeOK
<1>2. TxProgress /\ StateMatchesModel /\ CandidateAdmitted /\ AdmissionRestored
  BY DEF Init, TxProgress, StateMatchesModel, CandidateAdmitted, AdmissionRestored
<1> QED
  BY <1>1, <1>2 DEF IInv

\* Every step keeps the invariant: one case per action.
LEMMA StepHolds == IInv /\ [Next]_vars => IInv'
<1> SUFFICES ASSUME IInv, [Next]_vars PROVE IInv'
    OBVIOUS
<1> USE RebuildAssumption DEF IInv, TypeOK, TxProgress, StateMatchesModel,
        CandidateAdmitted, AdmissionRestored, Transactions, Phases, Calling,
        Ended, Bytes, runtime, At, Goto, Valid, BudgetValid, Required
<1>1. ASSUME NEW c \in Clients, OpenSession(c) PROVE IInv'
  BY <1>1 DEF OpenSession
<1>2. ASSUME NEW c \in Clients, CloseSession(c) PROVE IInv'
  BY <1>2 DEF CloseSession
<1>3. ASSUME NEW t \in Transactions, Create(t) PROVE IInv'
  BY <1>3 DEF Create
<1>4. CASE Execute
  BY <1>4 DEF Execute
<1>5. CASE Quiesce
  BY <1>5 DEF Quiesce
<1>6. CASE CheckQuiesced
  BY <1>6 DEF CheckQuiesced
<1>7. CASE Rebuild
  BY <1>7 DEF Rebuild
<1>8. CASE Verify
  BY <1>8 DEF Verify
<1>9. CASE Invalidate
  BY <1>9 DEF Invalidate
<1>10. CASE Commit
  BY <1>10 DEF Commit
<1>11. CASE CallFails
  BY <1>11 DEF CallFails
<1>12. CASE Rollback
  BY <1>12 DEF Rollback
<1>13. CASE UNCHANGED vars
  BY <1>13 DEF vars
<1> QED
  BY <1>1, <1>2, <1>3, <1>4, <1>5, <1>6, <1>7, <1>8, <1>9, <1>10, <1>11, <1>12,
     <1>13 DEF Next

\* A session or KV state never outlives the model it belongs to, a candidate is
\* resident only within its budget, and admission comes back after every
\* transaction whose rollback works: for any plans, clients and byte width.
THEOREM RebuildSafe ==
    Spec => []TransitionSafe
<1>1. IInv => TransitionSafe
  BY DEF IInv, TransitionSafe
<1> QED
  BY InitHolds, StepHolds, <1>1, PTL DEF Spec

\* What one step can do to an ended transaction and to the authoritative model.
LEMMA StepCommitsOnce ==
    ASSUME IInv, Next
    PROVE  /\ tx.phase \in Ended /\ created' = created => tx' = tx
           /\ active' # active => tx.phase = "Committing" /\ tx'.phase = "Committed"
                                  /\ active' = tx.target
  BY RebuildAssumption
     DEF IInv, TypeOK, TxProgress, Next, OpenSession, CloseSession, Create, Execute,
         Quiesce, CheckQuiesced, Rebuild, Verify, Invalidate, Commit, CallFails,
         Rollback, Valid, At, Goto, runtime, Ended, Calling, Transactions

\* A transaction object commits at most once, and only a commit changes the
\* authoritative model.
THEOREM CommitsOnceHolds == Spec => CommitsOnce
<1>1. IInv /\ [Next]_vars =>
      [/\ tx.phase \in Ended /\ created' = created => tx' = tx
       /\ active' # active => tx.phase = "Committing" /\ tx'.phase = "Committed"
                              /\ active' = tx.target]_vars
  BY StepCommitsOnce
<1> QED
  BY InitHolds, StepHolds, <1>1, PTL DEF Spec, CommitsOnce

-----------------------------------------------------------------------------
\* --- What a campaign may hold ------------------------------------------------------
Keys == {ExactKey, <<"other", "other">>}
EntryPoints == {"Int4DenseMaterializedModelV1::model", "Int2DenseMaterializedModelV1::model",
                "SparseDenseMaterializedModelV1::model"}
Ledgers == [family : Families, lowBit : BOOLEAN, storage : {"dense_f32_materialized"}, values : Int, source : Int,
            kept : Int, executed : Int, final : Int, peak : Int, host : Int]
TokenRecords == [count : Nat, digest : {Expected, <<"t260">>}]
Evidences == [current : BOOLEAN, family : Families, version : Nat, checkpoint : Keys, commit : Commits,
              entrypoint : EntryPoints, physical : BOOLEAN, tokens : TokenRecords, finite : BOOLEAN,
              serialized : Nat, references : Nat, elements : Nat, buffers : Nat, metrics : BOOLEAN,
              materialization : Ledgers]
Campaigns == [current : BOOLEAN, commit : Commits, checkpoint : Keys, evidences : Seq(Evidences)]
Recipes == [prompt : {"Gravity is"}, count : Nat, threshold : Nat, greedy : BOOLEAN]
\* A device that was captured, or one whose architecture was edited.
EditedDevices == Devices \cup {[d EXCEPT !.arch = "sm_00"] : d \in Devices}
Artifacts == [current : BOOLEAN, campaign : Campaigns, recipe : Recipes, basename : BOOLEAN,
              tokenizer : Tokenizers, device : EditedDevices]
Disks == [payload : Payloads, tokenizer : Tokenizers, clean : BOOLEAN, commit : Commits]
Notes == [commit : Commits \cup {0}, device : Devices \cup {NoFile}, tokenizer : Tokenizers \cup {"none"}]

\* --- The inductive invariant of the campaign ----------------------------------------
\* The steps from which on what the runner did before holds.
Finishing == {"write", "written"}
Assembling == {"assemble"} \cup Finishing
Running == {"int4", "int2", "sparse"} \cup Assembling
Capturing == {"device"} \cup Running
Reading == {"commit"} \cup Capturing
Prompting == {"prompt"} \cup Reading
Verifying == {"payload"} \cup Prompting
Preparing == {"idle", "worktree", "payload", "prompt", "commit", "device", "int4"}
AllSteps == Preparing \cup Running \cup {"ended"}
CampaignTypes ==
  /\ disk \in Disks /\ changes \in Nat /\ edits \in Nat /\ step \in AllSteps /\ noted \in Notes
  /\ evidences \in Seq(Evidences) /\ ran \in Seq(Payloads)
\* What the runner has noted, and how many families have run.
Noted ==
  /\ step \in Running => noted.device \in Devices
  /\ step \in Capturing => noted.commit \in Commits
  /\ step \in Finishing => noted.tokenizer \in Tokenizers
Counted ==
  /\ step \in Preparing => evidences = <<>>
  /\ step = "int2" => Len(evidences) = 1
  /\ step = "sparse" => Len(evidences) = 2
  /\ step \in Assembling => Len(evidences) = 3
  /\ Len(ran) = Len(evidences)
\* Every family ran at the noted commit and generated the preregistered tokens.
Agreeing ==
  \A i \in DOMAIN evidences : evidences[i].commit = noted.commit /\ evidences[i].tokens = TokenEvidence(Expected)
\* While no file is replaced, the disk is still what the runner verified.
Unreplaced ==
  changes = 0 =>
    /\ step \in Verifying => disk.clean
    /\ step \in Prompting => PayloadVerified(disk.payload)
    /\ step \in Reading => disk.tokenizer \in Encoding
    /\ step \in Capturing => noted.commit = disk.commit
    /\ step \in Finishing => noted.tokenizer = disk.tokenizer
    /\ \A i \in DOMAIN ran : ran[i] = disk.payload
\* The file, and what a command answered about it.
Written ==
  artifact # NoFile => step = "written" /\ artifact \in Artifacts /\ (edits = 0 => artifact = NewArtifact)
AnsweredIssue ==
  issued # NoFile =>
    /\ artifact # NoFile
    /\ \E kind \in Kinds, t \in Tokenizers, named \in BOOLEAN :
         issued = Answer(kind, [named |-> named, content |-> t], artifact)
CampaignInv == CampaignTypes /\ Noted /\ Counted /\ Agreeing /\ Unreplaced /\ Written /\ AnsweredIssue

\* --- What a command accepts ----------------------------------------------------------
\* Whichever record a command derives carries the fields of the V1 record.
LEMMA RecordFields ==
  ASSUME NEW kind \in Kinds, NEW a
  PROVE  /\ Record(kind, a).commit = a.campaign.commit
         /\ Record(kind, a).checkpoint = a.campaign.checkpoint
         /\ Record(kind, a).tokenizer = a.tokenizer
         /\ Record(kind, a).recipe = a.recipe
         /\ Record(kind, a).families = [i \in DOMAIN a.campaign.evidences |-> FamilyCapability(a.campaign.evidences[i])]
<1> DEFINE Carries(r) ==
      /\ r.commit = a.campaign.commit
      /\ r.checkpoint = a.campaign.checkpoint
      /\ r.tokenizer = a.tokenizer
      /\ r.recipe = a.recipe
      /\ r.families = [i \in DOMAIN a.campaign.evidences |-> FamilyCapability(a.campaign.evidences[i])]
<1>1. Carries(Capabilities(a))
  BY DEF Capabilities
<1>2. Carries(CapabilitiesV2(a))
  BY DEF Capabilities, CapabilitiesV2, Joined
<1>3. Carries(Handoff(a))
  BY DEF Capabilities, CapabilitiesV2, Handoff, Joined
<1>4. Carries(StageB(a))
  BY DEF Capabilities, CapabilitiesV2, Handoff, StageB, Joined
<1>5. Carries(Packet(a))
  BY DEF Capabilities, CapabilitiesV2, Handoff, StageB, Packet, Joined
<1>6. Record(kind, a) \in {Capabilities(a), CapabilitiesV2(a), Handoff(a), StageB(a), Packet(a)}
  BY DEF Record, Kinds
<1> HIDE DEF Carries
<1>7. Carries(Record(kind, a))
  BY <1>1, <1>2, <1>3, <1>4, <1>5, <1>6
<1> QED
  BY <1>7 DEF Carries

\* A handoff that was accepted is of the exact checkpoint and authorizes nothing.
LEMMA StageBAuthorizesNothing ==
  ASSUME NEW kind \in {"stage_b", "packet"}, NEW a, RecordValid(kind, Record(kind, a))
  PROVE  Record(kind, a).checkpoint = ExactKey /\ ~Record(kind, a).authorized
<1>1. StageBValid(Record(kind, a))
  BY DEF RecordValid, PacketValid
<1> QED
  BY <1>1 DEF StageBValid

\* An artifact that passes its checks is of three valid evidences that agree.
LEMMA ThreeFamilies ==
  ASSUME NEW a \in Artifacts, CampaignArtifactValid(a)
  PROVE  /\ DOMAIN a.campaign.evidences = 1..3
         /\ \A i \in 1..3 : a.campaign.evidences[i] \in Evidences
         /\ \A i \in 1..3 : FullModelValid(a.campaign.evidences[i])
         /\ \A i \in 1..3 : a.campaign.evidences[i].commit = a.campaign.commit
         /\ \A i \in 1..3 : a.campaign.evidences[i].checkpoint = a.campaign.checkpoint
         /\ \A i \in 1..3 : a.campaign.evidences[i].tokens.count = a.recipe.count
         /\ FamiliesOf(a.campaign.evidences) = Families
         /\ BundleReady(Bundle(a.campaign))
<1>1. a.campaign.evidences \in Seq(Evidences)
  BY DEF Artifacts, Campaigns
<1>2. Len(a.campaign.evidences) = 3
  BY DEF CampaignArtifactValid, CampaignValid
<1>3. DOMAIN a.campaign.evidences = 1..3
  BY <1>1, <1>2
<1>4. \A i \in 1..3 : a.campaign.evidences[i] \in Evidences
  BY <1>1, <1>2
<1> QED
  BY <1>3, <1>4 DEF CampaignArtifactValid, CampaignValid

\* The numbers of an evidence that is valid are those of one ledger: the source
\* is owned at the peak and gone in the end.
LEMMA OneLedger ==
  ASSUME NEW e \in Evidences, FullModelValid(e)
  PROVE  LET f == FamilyCapability(e)
         IN /\ ~f.lowBit
            /\ 8 * (f.peak - 4 * f.values) = f.residentBits[1] /\ f.residentBits[2] = f.values
            /\ f.residentBits[1] > 32 * f.values
<1> DEFINE m == e.materialization
           f == FamilyCapability(e)
<1>1. m.values \in Int /\ m.source \in Int /\ m.kept \in Int /\ m.executed \in Int /\ m.final \in Int /\ m.peak \in Int
  BY DEF Evidences, Ledgers
<1>2. EvidenceValid(m) /\ ~m.lowBit
  BY DEF FullModelValid
<1>3. f.peak = m.peak /\ f.values = m.values /\ f.residentBits = <<8 * m.final, m.values>> /\ ~f.lowBit
  BY <1>2 DEF FamilyCapability, QualificationRecord, Accounting
<1>4. f.residentBits[1] = 8 * m.final /\ f.residentBits[2] = m.values
  BY <1>3
<1>5. m.source = 4 * m.values /\ m.peak = m.source + m.final /\ m.final = m.kept + m.executed
      /\ m.executed = 4 * m.values /\ m.kept > 0
  BY <1>2 DEF EvidenceValid
<1> HIDE DEF m, f
<1>6. 8 * (f.peak - 4 * f.values) = f.residentBits[1] /\ f.residentBits[1] > 32 * f.values
  BY <1>1, <1>3, <1>4, <1>5
<1> QED
  BY <1>3, <1>4, <1>6 DEF f

\* The numbers of a storage summary qualify it for its storage.
LEMMA StorageQualifies ==
  ASSUME NEW f \in Families, NEW key
  PROVE  /\ QualificationValid(StorageQualification(f, key))
         /\ StorageQualification(f, key).level = "storage"
         /\ StorageQualification(f, key).family = f
         /\ StorageQualification(f, key).checkpoint = key
<1> DEFINE s == Stored[f]
           d == [references |-> s.references, elements |-> s.elements, buffers |-> s.buffers,
                 values |-> s.values, source |-> 4 * s.values]
           q == StorageQualification(f, key)
<1>1. \A field \in {"values", "references", "elements", "buffers", "kept", "serialized", "host"} : s[field] \in Nat \ {0}
  BY EvidenceAssumption
<1>2. /\ s.values \in Nat \ {0} /\ s.references \in Nat \ {0} /\ s.elements \in Nat \ {0} /\ s.buffers \in Nat \ {0}
      /\ s.kept \in Nat \ {0} /\ s.serialized \in Nat \ {0}
  BY <1>1
<1>3. s.elements >= s.values
  BY EvidenceAssumption
<1>4. q = [current |-> TRUE, family |-> f, version |-> 1, checkpoint |-> key, level |-> "storage",
           physical |-> FALSE, verified |-> FALSE, metrics |-> TRUE,
           accounting |-> Accounting(d, s.serialized, s.kept)]
  BY DEF StorageQualification
<1> HIDE DEF s
<1>5. DenominatorValid(d)
  BY <1>2, <1>3 DEF DenominatorValid
<1> HIDE DEF d
<1>6. AccountingValid(Accounting(d, s.serialized, s.kept))
  BY <1>2, <1>5 DEF AccountingValid, Accounting
<1> HIDE DEF q
<1>7. QualificationValid(q)
  BY <1>4, <1>6 DEF QualificationValid
<1> QED
  BY <1>4, <1>7 DEF q

\* The records of a bundle, one of them replaced by what a storage summary
\* qualifies for: still valid, no longer ready.
LEMMA StorageIsNotReady ==
  ASSUME NEW a \in Artifacts, CampaignArtifactValid(a), NEW i \in 1..3
  PROVE  LET e == a.campaign.evidences[i]
             b == Bundle(a.campaign)
             c == [b EXCEPT !.records[i] = StorageQualification(e.family, b.checkpoint)]
         IN BundleValid(c) /\ ~BundleReady(c)
<1> DEFINE ev == a.campaign.evidences
           b == Bundle(a.campaign)
           s == StorageQualification(ev[i].family, b.checkpoint)
           c == [b EXCEPT !.records[i] = s]
<1>1. DOMAIN ev = 1..3 /\ ev[i] \in Evidences /\ BundleReady(b)
  BY ThreeFamilies
<1>2. ev[i].family \in Families
  BY <1>1 DEF Evidences
<1> HIDE DEF ev
<1>3. b = [checkpoint |-> a.campaign.checkpoint, records |-> [j \in 1..3 |-> QualificationRecord(ev[j])]]
  BY <1>1 DEF Bundle, ev
<1>4. b.records = [j \in 1..3 |-> QualificationRecord(ev[j])] /\ b.checkpoint = a.campaign.checkpoint
  BY <1>3
<1>5. QualificationValid(s) /\ s.level = "storage" /\ s.family = ev[i].family /\ s.checkpoint = b.checkpoint
  BY <1>2, StorageQualifies
<1> HIDE DEF s
<1>6. c.checkpoint = b.checkpoint /\ c.records = [b.records EXCEPT ![i] = s]
  BY <1>3
<1> DEFINE old == b.records
           new == c.records
<1>7. DOMAIN old = 1..3 /\ DOMAIN new = 1..3 /\ new[i] = s /\ \A j \in 1..3 \ {i} : new[j] = old[j]
  BY <1>4, <1>6
<1>8. old[i].family = ev[i].family
  BY <1>4 DEF QualificationRecord
<1>9. BundleValid(b)
  BY <1>1 DEF BundleReady
<1> HIDE DEF b, c
<1>10. \A j \in 1..3 : QualificationValid(new[j]) /\ new[j].checkpoint = c.checkpoint
  BY <1>5, <1>6, <1>7, <1>9 DEF BundleValid
<1>11. \A j \in 1..3 : new[j].family = old[j].family
  BY <1>5, <1>7, <1>8
<1>12. FamiliesOf(new) = FamiliesOf(old)
  BY <1>7, <1>11 DEF FamiliesOf
<1>13. Len(new) = 3 /\ Len(old) = 3 /\ new # <<>>
  BY <1>4, <1>6, <1>7
<1>14. BundleValid(c)
  BY <1>7, <1>9, <1>10, <1>12, <1>13 DEF BundleValid
<1>15. ~BundleReady(c)
  BY <1>5, <1>7 DEF BundleReady
<1> QED
  BY <1>14, <1>15 DEF b, c, s, ev

\* Whoever edited the file: what an accepted record says, by the checks alone.
AcceptedIsHonest(kind, given, a, r) ==
  LET ran3 == a.campaign.evidences
  IN /\ FamiliesOf(r.families) = Families /\ Len(r.families) = 3
     /\ \A i \in DOMAIN ran3 : ran3[i].commit = r.commit /\ ran3[i].checkpoint = r.checkpoint /\ ran3[i].physical
     /\ \A i \in DOMAIN r.families :
          LET f == r.families[i]
          IN /\ f.tokens.count = r.recipe.count /\ ~f.lowBit
             /\ 8 * (f.peak - 4 * f.values) = f.residentBits[1] /\ f.residentBits[2] = f.values
             /\ f.residentBits[1] > 32 * f.values
     /\ given = [named |-> TRUE, content |-> r.tokenizer]
     /\ kind \in {"stage_b", "packet"} => r.checkpoint = ExactKey /\ ~r.authorized
     /\ \A i \in DOMAIN ran3 :
          LET b == Bundle(a.campaign)
              c == [b EXCEPT !.records[i] = StorageQualification(ran3[i].family, b.checkpoint)]
          IN BundleReady(b) /\ BundleValid(c) /\ ~BundleReady(c)

\* The checks of a command leave nothing else to accept.
LEMMA AcceptedHonest ==
  ASSUME NEW kind \in Kinds, NEW named \in BOOLEAN, NEW t, NEW a \in Artifacts,
         Accepts(kind, [named |-> named, content |-> t], a)
  PROVE  AcceptedIsHonest(kind, [named |-> named, content |-> t], a, Record(kind, a))
<1> DEFINE r == Record(kind, a)
           ev == a.campaign.evidences
           given == [named |-> named, content |-> t]
<1>1. CampaignArtifactValid(a)
  BY DEF Accepts, ArtifactValid
<1>2. /\ DOMAIN ev = 1..3
      /\ \A i \in 1..3 : ev[i] \in Evidences /\ FullModelValid(ev[i])
      /\ \A i \in 1..3 : ev[i].commit = a.campaign.commit /\ ev[i].checkpoint = a.campaign.checkpoint
      /\ \A i \in 1..3 : ev[i].tokens.count = a.recipe.count
      /\ FamiliesOf(ev) = Families /\ BundleReady(Bundle(a.campaign))
  BY <1>1, ThreeFamilies
<1>3. /\ r.commit = a.campaign.commit /\ r.checkpoint = a.campaign.checkpoint
      /\ r.tokenizer = a.tokenizer /\ r.recipe = a.recipe
      /\ r.families = [i \in DOMAIN ev |-> FamilyCapability(ev[i])]
  BY RecordFields
<1>4. kind \in {"stage_b", "packet"} => r.checkpoint = ExactKey /\ ~r.authorized
  BY StageBAuthorizesNothing DEF Accepts
<1>5. named /\ t = a.tokenizer
  BY DEF Accepts, TokenizerVerified
<1>6. \A i \in 1..3 :
        LET b == Bundle(a.campaign)
            c == [b EXCEPT !.records[i] = StorageQualification(ev[i].family, b.checkpoint)]
        IN BundleValid(c) /\ ~BundleReady(c)
  BY <1>1, StorageIsNotReady
<1>7. \A i \in 1..3 : ev[i].physical
  BY <1>2 DEF FullModelValid
<1> HIDE DEF r, ev
<1>8. DOMAIN r.families = 1..3 /\ \A i \in 1..3 : r.families[i] = FamilyCapability(ev[i])
  BY <1>2, <1>3
<1>9. Len(r.families) = 3
  BY <1>2, <1>3
<1>10. \A i \in 1..3 : r.families[i].family = ev[i].family /\ r.families[i].tokens = ev[i].tokens
  BY <1>8 DEF FamilyCapability
<1>11. FamiliesOf(r.families) = FamiliesOf(ev)
  BY <1>2, <1>8, <1>10 DEF FamiliesOf
<1>12. \A i \in 1..3 :
        LET f == r.families[i]
        IN /\ f.tokens.count = r.recipe.count /\ ~f.lowBit
           /\ 8 * (f.peak - 4 * f.values) = f.residentBits[1] /\ f.residentBits[2] = f.values
           /\ f.residentBits[1] > 32 * f.values
  <2> TAKE i \in 1..3
  <2>1. r.families[i] = FamilyCapability(ev[i]) /\ ev[i] \in Evidences /\ FullModelValid(ev[i])
    BY <1>2, <1>8
  <2>2. r.families[i].tokens.count = r.recipe.count
    BY <1>2, <1>3, <1>10
  <2> QED
    BY <2>1, <2>2, OneLedger
<1>13. given = [named |-> TRUE, content |-> r.tokenizer]
  BY <1>3, <1>5
<1> QED
  BY <1>2, <1>3, <1>4, <1>6, <1>7, <1>8, <1>9, <1>11, <1>12, <1>13 DEF AcceptedIsHonest, r, ev

\* --- What the runner writes and what an edit leaves --------------------------------------
\* The numbers of a materialized model are integers.
LEMMA MaterializationTyped ==
  ASSUME NEW f \in Families
  PROVE  Materialization(f) \in Ledgers
<1> DEFINE s == Stored[f]
           e == EvidenceOf(s.values, 4 * s.values, s.kept, 4 * s.values, 0, s.host)
<1>1. s.values \in Int /\ s.kept \in Int /\ s.host \in Int
  BY EvidenceAssumption
<1> HIDE DEF s
<1>2. /\ e.values \in Int /\ e.source \in Int /\ e.kept \in Int /\ e.executed \in Int /\ e.final \in Int
      /\ e.peak \in Int /\ e.host \in Int
  BY <1>1 DEF EvidenceOf
<1>3. Materialization(f) =
        [family |-> f, lowBit |-> FALSE, storage |-> "dense_f32_materialized", values |-> e.values,
         source |-> e.source, kept |-> e.kept, executed |-> e.executed, final |-> e.final, peak |-> e.peak,
         host |-> e.host]
  BY DEF Materialization, s
<1> HIDE DEF e
<1> QED
  BY <1>2, <1>3 DEF Ledgers

\* The evidence of a family that ran is one a campaign may hold, of the noted commit.
LEMMA EvidenceTyped ==
  ASSUME NEW f \in Families, NEW commit \in Commits, NEW entrypoint \in EntryPoints,
         NEW o, o = [commit |-> commit, entrypoint |-> entrypoint, tokens |-> TokenEvidence(Expected)]
  PROVE  /\ FullModelEvidence(f, 1, o) \in Evidences
         /\ FullModelEvidence(f, 1, o).commit = commit
         /\ FullModelEvidence(f, 1, o).tokens = TokenEvidence(Expected)
<1> DEFINE s == Stored[f]
           e == FullModelEvidence(f, 1, o)
<1>1. s.serialized \in Nat /\ s.references \in Nat /\ s.elements \in Nat /\ s.buffers \in Nat
  BY EvidenceAssumption
<1>2. TokenEvidence(Expected) \in TokenRecords
  BY DEF TokenEvidence, TokenRecords, Expected
<1>3. Materialization(f) \in Ledgers
  BY MaterializationTyped
<1>4. o.commit = commit /\ o.entrypoint = entrypoint /\ o.tokens = TokenEvidence(Expected)
  OBVIOUS
<1>5. e = [current |-> TRUE, family |-> f, version |-> 1, checkpoint |-> ExactKey,
           commit |-> commit, entrypoint |-> entrypoint, physical |-> TRUE,
           tokens |-> TokenEvidence(Expected), finite |-> TRUE, serialized |-> s.serialized,
           references |-> s.references, elements |-> s.elements, buffers |-> s.buffers, metrics |-> TRUE,
           materialization |-> Materialization(f)]
  BY <1>4 DEF FullModelEvidence
<1> HIDE DEF s, e
<1>6. e \in Evidences
  BY <1>1, <1>2, <1>3, <1>5 DEF Evidences, Keys
<1> QED
  BY <1>5, <1>6 DEF e

\* The artifact of three families that ran is one the file may hold.
LEMMA NewArtifactTyped ==
  ASSUME evidences \in Seq(Evidences), Len(evidences) = 3, noted.device \in Devices, noted.tokenizer \in Tokenizers
  PROVE  NewArtifact \in Artifacts
<1>1. evidences[1] \in Evidences
  OBVIOUS
<1>2. evidences[1].commit \in Commits /\ evidences[1].checkpoint \in Keys
  BY <1>1 DEF Evidences
<1>3. Campaign \in Campaigns
  BY <1>2 DEF Campaign, Campaigns
<1>4. Recipe \in Recipes
  <2>1. Recipe = [prompt |-> "Gravity is", count |-> 2, threshold |-> 5, greedy |-> TRUE]
    BY DEF Recipe, Protocol
  <2> QED
    BY <2>1 DEF Recipes
<1>5. noted.device \in EditedDevices
  BY DEF EditedDevices
<1> QED
  BY <1>3, <1>4, <1>5 DEF NewArtifact, Artifacts

\* One edited field leaves an evidence a campaign may hold.
LEMMA EditedEvidenceTyped ==
  ASSUME NEW e \in Evidences, NEW x \in EditedEvidence(e)
  PROVE  x \in Evidences
<1>1. TokenEvidence(<<"t260">>) \in TokenRecords
  BY DEF TokenEvidence, TokenRecords
<1>2. e.tokens \in TokenRecords /\ e.materialization \in Ledgers
  BY DEF Evidences
<1>3. [e.tokens EXCEPT !.count = 0] \in TokenRecords
  BY <1>2 DEF TokenRecords
<1>4. /\ [e.materialization EXCEPT !.family = "int4"] \in Ledgers
      /\ [e.materialization EXCEPT !.peak = @ - 1] \in Ledgers
      /\ [e.materialization EXCEPT !.kept = @ + 1] \in Ledgers
      /\ [e.materialization EXCEPT !.lowBit = TRUE] \in Ledgers
  <2>1. [e.materialization EXCEPT !.family = "int4"] \in Ledgers
    BY <1>2 DEF Ledgers, Families
  <2>2. [e.materialization EXCEPT !.peak = @ - 1] \in Ledgers
    BY <1>2 DEF Ledgers
  <2>3. [e.materialization EXCEPT !.kept = @ + 1] \in Ledgers
    BY <1>2 DEF Ledgers
  <2>4. [e.materialization EXCEPT !.lowBit = TRUE] \in Ledgers
    BY <1>2 DEF Ledgers
  <2> QED
    BY <2>1, <2>2, <2>3, <2>4
<1>5. CASE \E f \in Families : x = [e EXCEPT !.family = f]
  BY <1>5 DEF Evidences
<1>6. CASE \E c \in Commits : x = [e EXCEPT !.commit = c]
  BY <1>6 DEF Evidences
<1>7. CASE x \in {[e EXCEPT !.checkpoint = <<"other", "other">>], [e EXCEPT !.physical = FALSE],
                  [e EXCEPT !.finite = FALSE], [e EXCEPT !.elements = 1], [e EXCEPT !.serialized = 0],
                  [e EXCEPT !.version = 0]}
  <2>1. CASE x = [e EXCEPT !.checkpoint = <<"other", "other">>]
    BY <2>1 DEF Evidences, Keys
  <2>2. CASE x = [e EXCEPT !.physical = FALSE]
    BY <2>2 DEF Evidences
  <2>3. CASE x = [e EXCEPT !.finite = FALSE]
    BY <2>3 DEF Evidences
  <2>4. CASE x = [e EXCEPT !.elements = 1]
    BY <2>4 DEF Evidences
  <2>5. CASE x = [e EXCEPT !.serialized = 0]
    BY <2>5 DEF Evidences
  <2>6. CASE x = [e EXCEPT !.version = 0]
    BY <2>6 DEF Evidences
  <2> QED
    BY <1>7, <2>1, <2>2, <2>3, <2>4, <2>5, <2>6
<1>8. CASE x \in {[e EXCEPT !.tokens = TokenEvidence(<<"t260">>)], [e EXCEPT !.tokens.count = 0]}
  BY <1>1, <1>3, <1>8 DEF Evidences
<1>9. CASE x \in {[e EXCEPT !.materialization.family = "int4"], [e EXCEPT !.materialization.peak = @ - 1],
                  [e EXCEPT !.materialization.kept = @ + 1], [e EXCEPT !.materialization.lowBit = TRUE]}
  BY <1>4, <1>9 DEF Evidences
<1> QED
  BY <1>5, <1>6, <1>7, <1>8, <1>9 DEF EditedEvidence

\* A file with other evidences is still one that may be edited.
LEMMA WithEvidences ==
  ASSUME NEW a \in Artifacts, NEW s \in Seq(Evidences)
  PROVE  [a EXCEPT !.campaign.evidences = s] \in Artifacts
<1>1. a.campaign \in Campaigns
  BY DEF Artifacts
<1>2. [a.campaign EXCEPT !.evidences = s] \in Campaigns
  BY <1>1 DEF Campaigns
<1> QED
  BY <1>2 DEF Artifacts

\* So do the evidences of a campaign of which one is edited, missing or doubled.
LEMMA EditedEvidencesTyped ==
  ASSUME NEW s \in Seq(Evidences), NEW x \in EditedEvidences(s)
  PROVE  x \in Seq(Evidences)
<1>1. PICK i \in DOMAIN s : x \in {[s EXCEPT ![i] = e] : e \in EditedEvidence(s[i])} \cup {Tail(s), Append(s, s[i])}
  BY DEF EditedEvidences
<1>2. s[i] \in Evidences
  OBVIOUS
<1>3. CASE x = Tail(s) \/ x = Append(s, s[i])
  <2>1. Tail(s) \in Seq(Evidences) /\ Append(s, s[i]) \in Seq(Evidences)
    BY <1>2
  <2> QED
    BY <1>3, <2>1
<1>4. CASE x \in {[s EXCEPT ![i] = e] : e \in EditedEvidence(s[i])}
  <2>1. PICK e \in EditedEvidence(s[i]) : x = [s EXCEPT ![i] = e]
    BY <1>4
  <2>2. e \in Evidences
    BY <1>2, EditedEvidenceTyped
  <2> QED
    BY <2>1, <2>2
<1> QED
  BY <1>1, <1>3, <1>4

\* An edited file holds what an artifact may hold.
LEMMA EditedTyped ==
  ASSUME NEW a \in Artifacts, NEW x \in Edited(a)
  PROVE  x \in Artifacts
<1> DEFINE ev == a.campaign.evidences
<1>1. a.campaign \in Campaigns /\ a.recipe \in Recipes /\ a.device \in EditedDevices
  BY DEF Artifacts
<1>2. ev \in Seq(Evidences)
  BY <1>1 DEF Campaigns
<1>3. CASE \E s \in EditedEvidences(ev) : x = [a EXCEPT !.campaign.evidences = s]
  <2>1. PICK s \in EditedEvidences(ev) : x = [a EXCEPT !.campaign.evidences = s]
    BY <1>3
  <2> HIDE DEF ev
  <2>2. s \in Seq(Evidences)
    BY <1>2, EditedEvidencesTyped
  <2> QED
    BY <2>1, <2>2, WithEvidences
<1> DEFINE k == <<"other", "other">>
<1>5. k \in Keys
  BY DEF Keys
<1>6. CASE x = [a EXCEPT !.campaign.checkpoint = <<"other", "other">>]
  <2>1. [a.campaign EXCEPT !.checkpoint = k] \in Campaigns
    BY <1>1, <1>5 DEF Campaigns
  <2> QED
    BY <1>6, <2>1 DEF Artifacts
<1>7. CASE x = [a EXCEPT !.recipe.count = 1] \/ x = [a EXCEPT !.recipe.greedy = FALSE]
  <2>1. [a.recipe EXCEPT !.count = 1] \in Recipes
    BY <1>1 DEF Recipes
  <2>2. [a.recipe EXCEPT !.greedy = FALSE] \in Recipes
    BY <1>1 DEF Recipes
  <2> QED
    BY <1>7, <2>1, <2>2 DEF Artifacts
<1>8. CASE x = [a EXCEPT !.basename = FALSE] \/ x = [a EXCEPT !.current = FALSE]
  BY <1>8 DEF Artifacts
<1>9. CASE x = [a EXCEPT !.device.arch = "sm_00"]
  <2>1. [a.device EXCEPT !.arch = "sm_00"] \in EditedDevices
    BY <1>1 DEF EditedDevices
  <2> QED
    BY <1>9, <2>1 DEF Artifacts
<1>10. CASE \E t \in Tokenizers : x = [a EXCEPT !.tokenizer = t]
  BY <1>10 DEF Artifacts
<1>11. CASE \E c \in Commits : x = [a EXCEPT !.campaign.commit = c]
  <2>1. PICK c \in Commits : x = [a EXCEPT !.campaign.commit = c]
    BY <1>11
  <2>2. [a.campaign EXCEPT !.commit = c] \in Campaigns
    BY <1>1 DEF Campaigns
  <2> QED
    BY <2>1, <2>2 DEF Artifacts
<1>12. CASE x = [a EXCEPT !.campaign.checkpoint = <<"other", "other">>,
                          !.campaign.evidences = [i \in DOMAIN @ |-> [@[i] EXCEPT !.checkpoint = <<"other", "other">>]]]
  <2> DEFINE s == [i \in DOMAIN ev |-> [ev[i] EXCEPT !.checkpoint = k]]
             b == [a EXCEPT !.campaign.checkpoint = k]
  <2>1. \A i \in DOMAIN ev : [ev[i] EXCEPT !.checkpoint = k] \in Evidences
    <3> TAKE i \in DOMAIN ev
    <3>1. ev[i] \in Evidences
      BY <1>2
    <3> QED
      BY <1>5, <3>1 DEF Evidences
  <2>2. s \in Seq(Evidences)
    <3>1. DOMAIN ev = 1..Len(ev) /\ Len(ev) \in Nat
      BY <1>2
    <3>2. s \in [1..Len(ev) -> Evidences]
      BY <2>1, <3>1
    <3> QED
      BY <3>1, <3>2, SeqDef
  <2>3. [a.campaign EXCEPT !.checkpoint = k] \in Campaigns
    BY <1>1, <1>5 DEF Campaigns
  <2>4. b \in Artifacts
    BY <2>3 DEF Artifacts
  <2>5. x = [b EXCEPT !.campaign.evidences = s]
    BY <1>1, <1>12, <2>3 DEF Artifacts, Campaigns
  <2> HIDE DEF s, b
  <2> QED
    BY <2>2, <2>4, <2>5, WithEvidences
<1> QED
  BY <1>3, <1>6, <1>7, <1>8, <1>9, <1>10, <1>11, <1>12 DEF Edited

\* --- The steps of a campaign --------------------------------------------------------------
\* A campaign starts with nothing noted, run, written or answered.
LEMMA CampaignStarts == EvidenceInit => CampaignInv
<1> SUFFICES ASSUME EvidenceInit PROVE CampaignInv
  OBVIOUS
<1>1. /\ changes = 0 /\ edits = 0 /\ step = "idle" /\ evidences = <<>> /\ ran = <<>>
      /\ noted = [commit |-> 0, device |-> NoFile, tokenizer |-> "none"] /\ artifact = NoFile /\ issued = NoFile
      /\ disk \in Disks
  BY DEF EvidenceInit, EvidenceStart, Disks
<1>2. noted \in Notes
  BY <1>1 DEF Notes
<1>3. evidences \in Seq(Evidences) /\ ran \in Seq(Payloads) /\ DOMAIN evidences = {} /\ DOMAIN ran = {}
  BY <1>1
<1>4. step \notin Verifying /\ step \in AllSteps
  BY <1>1 DEF AllSteps, Preparing, Running, Verifying, Prompting, Reading, Capturing, Assembling, Finishing
<1>5. step \notin Running /\ step \notin Capturing /\ step \notin Finishing /\ step \notin Assembling
      /\ step \notin Prompting /\ step \notin Reading
  BY <1>4 DEF Verifying, Prompting, Reading, Capturing, Running, Assembling
<1>6. CampaignTypes
  BY <1>1, <1>2, <1>3, <1>4 DEF CampaignTypes
<1>7. Noted /\ Counted
  BY <1>1, <1>5 DEF Noted, Counted
<1>8. Agreeing /\ Unreplaced
  BY <1>3, <1>4, <1>5 DEF Agreeing, Unreplaced
<1>9. Written /\ AnsweredIssue
  BY <1>1 DEF Written, AnsweredIssue
<1> QED
  BY <1>6, <1>7, <1>8, <1>9 DEF CampaignInv

\* Until the file is written there is none, and nothing is answered about it.
LEMMA NothingWritten ==
  ASSUME CampaignInv, step # "written"
  PROVE  artifact = NoFile /\ issued = NoFile
  BY DEF CampaignInv, Written, AnsweredIssue

\* So a step of the runner that writes no file leaves both parts as they are.
LEMMA RunnerWritesNothing ==
  ASSUME CampaignInv, step # "written", artifact' = artifact, issued' = issued
  PROVE  Written' /\ AnsweredIssue'
  BY NothingWritten DEF Written, AnsweredIssue

\* The runner's steps before the first family, none of which runs one: what is
\* left to show of them is what they note and verify.
LEMMA PreparingStep ==
  ASSUME CampaignInv, Keeps, step \in Preparing \ {"int4"}, step' \in Preparing \cup {"ended"},
         evidences' = evidences, ran' = ran, noted' \in Notes, Noted', Unreplaced'
  PROVE  CampaignInv'
<1>1. evidences = <<>> /\ Len(ran) = Len(evidences)
  BY DEF CampaignInv, Counted, Preparing
<1>2. CampaignTypes'
  BY DEF CampaignInv, CampaignTypes, Keeps, AllSteps
<1>3. Counted'
  BY <1>1 DEF Counted, Preparing, Assembling, Finishing
<1>4. Agreeing'
  BY <1>1 DEF Agreeing
<1>5. Written' /\ AnsweredIssue'
  BY RunnerWritesNothing DEF Keeps, Preparing
<1> QED
  BY <1>2, <1>3, <1>4, <1>5 DEF CampaignInv

\* The files are those on disk, so what the runner verifies of them holds until
\* one is replaced.
LEMMA VerifyingKeeps ==
  ASSUME CampaignInv,
         \/ \E args : BeginCampaign(args)
         \/ VerifyWorktree \/ VerifyPayload \/ VerifyPrompt \/ ReadCommit
         \/ \E d \in Devices : CaptureDevice(d)
  PROVE  CampaignInv'
<1> USE DEF Proceeds
<1>0. /\ noted \in Notes /\ disk \in Disks
      /\ step \in Verifying => (changes = 0 => disk.clean)
      /\ step \in Prompting => (changes = 0 => PayloadVerified(disk.payload))
      /\ step \in Reading => (changes = 0 => disk.tokenizer \in Encoding)
      /\ step \in Capturing => noted.commit \in Commits /\ (changes = 0 => noted.commit = disk.commit)
      /\ changes = 0 => \A i \in DOMAIN ran : ran[i] = disk.payload
  BY DEF CampaignInv, CampaignTypes, Noted, Unreplaced
<1> DEFINE Stays == Keeps /\ evidences' = evidences /\ ran' = ran
<1>1. CASE \E args : BeginCampaign(args)
  <2>1. Stays /\ noted' = noted /\ step = "idle" /\ step' \in {"worktree", "ended"}
    BY <1>1 DEF BeginCampaign
  <2>2. Noted' /\ Unreplaced'
    BY <1>0, <2>1 DEF Noted, Unreplaced, Keeps, Verifying, Prompting, Reading, Capturing, Running, Assembling, Finishing
  <2> QED
    BY <1>0, <2>1, <2>2, PreparingStep DEF Preparing
<1>2. CASE VerifyWorktree
  <2>1. /\ Stays /\ noted' = noted /\ step = "worktree" /\ step' \in {"payload", "ended"}
        /\ step' = "payload" => disk.clean
    BY <1>2 DEF VerifyWorktree
  <2>2. Noted' /\ Unreplaced'
    BY <1>0, <2>1 DEF Noted, Unreplaced, Keeps, Verifying, Prompting, Reading, Capturing, Running, Assembling, Finishing
  <2> QED
    BY <1>0, <2>1, <2>2, PreparingStep DEF Preparing
<1>3. CASE VerifyPayload
  <2>1. /\ Stays /\ noted' = noted /\ step = "payload" /\ step' \in {"prompt", "ended"}
        /\ step' = "prompt" => PayloadVerified(disk.payload)
    BY <1>3 DEF VerifyPayload
  <2>2. Noted' /\ Unreplaced'
    BY <1>0, <2>1 DEF Noted, Unreplaced, Keeps, Verifying, Prompting, Reading, Capturing, Running, Assembling, Finishing
  <2> QED
    BY <1>0, <2>1, <2>2, PreparingStep DEF Preparing
<1>4. CASE VerifyPrompt
  <2>1. /\ Stays /\ noted' = noted /\ step = "prompt" /\ step' \in {"commit", "ended"}
        /\ step' = "commit" => disk.tokenizer \in Encoding
    BY <1>4 DEF VerifyPrompt
  <2>2. Noted' /\ Unreplaced'
    BY <1>0, <2>1 DEF Noted, Unreplaced, Keeps, Verifying, Prompting, Reading, Capturing, Running, Assembling, Finishing
  <2> QED
    BY <1>0, <2>1, <2>2, PreparingStep DEF Preparing
<1>5. CASE ReadCommit
  <2>1. Stays /\ noted' = [noted EXCEPT !.commit = disk.commit] /\ step = "commit" /\ step' = "device"
    BY <1>5 DEF ReadCommit
  <2>2. disk.commit \in Commits
    BY <1>0 DEF Disks
  <2>3. noted' \in Notes /\ noted'.commit = disk.commit
    BY <1>0, <2>1, <2>2 DEF Notes
  <2>4. Noted' /\ Unreplaced'
    BY <1>0, <2>1, <2>2, <2>3
       DEF Noted, Unreplaced, Keeps, Verifying, Prompting, Reading, Capturing, Running, Assembling, Finishing
  <2> QED
    BY <2>1, <2>3, <2>4, PreparingStep DEF Preparing
<1>6. CASE \E d \in Devices : CaptureDevice(d)
  <2>1. PICK d \in Devices : CaptureDevice(d)
    BY <1>6
  <2>2. Stays /\ noted' = [noted EXCEPT !.device = d] /\ step = "device" /\ step' \in {"int4", "ended"}
    BY <2>1 DEF CaptureDevice
  <2>3. noted' \in Notes /\ noted'.device = d /\ noted'.commit = noted.commit
    BY <1>0, <2>2 DEF Notes
  <2>4. Noted' /\ Unreplaced'
    BY <1>0, <2>2, <2>3
       DEF Noted, Unreplaced, Keeps, Verifying, Prompting, Reading, Capturing, Running, Assembling, Finishing
  <2> QED
    BY <2>2, <2>3, <2>4, PreparingStep DEF Preparing
<1> QED
  BY <1>1, <1>2, <1>3, <1>4, <1>5, <1>6

\* How many families have run when one of them is next.
FamilyAt(from) ==
  CASE from = "int4" -> 0
    [] from = "int2" -> 1
    [] OTHER -> 2

\* One more family has run, on the payload the disk holds now, or has failed to.
LEMMA RunStep ==
  ASSUME CampaignInv, Keeps, noted' = noted,
         NEW from \in {"int4", "int2", "sparse"}, NEW to, step = from,
         <<from, to>> \in {<<"int4", "int2">>, <<"int2", "sparse">>, <<"sparse", "assemble">>},
         \/ /\ step' = "ended" /\ evidences' = evidences /\ ran' = ran
         \/ /\ step' = to
            /\ \E e \in Evidences :
                 /\ e.commit = noted.commit /\ e.tokens = TokenEvidence(Expected)
                 /\ evidences' = Append(evidences, e) /\ ran' = Append(ran, disk.payload)
  PROVE  CampaignInv'
<1>0. /\ disk \in Disks /\ evidences \in Seq(Evidences) /\ ran \in Seq(Payloads) /\ Len(ran) = Len(evidences)
      /\ Len(evidences) = FamilyAt(from)
      /\ step \in Running /\ step \in Capturing /\ step \in Reading /\ step \in Prompting /\ step \in Verifying
      /\ step \notin Finishing /\ step # "written"
  BY DEF CampaignInv, CampaignTypes, Counted, FamilyAt, Preparing,
         Running, Capturing, Reading, Prompting, Verifying, Assembling, Finishing
<1>1. disk' = disk /\ changes' = changes /\ edits' = edits /\ artifact' = artifact /\ issued' = issued
  BY DEF Keeps
<1>2. Written' /\ AnsweredIssue'
  BY <1>0, <1>1, RunnerWritesNothing
<1>3. step' \in {"int2", "sparse", "assemble", "ended"}
  OBVIOUS
<1>4. Noted'
  BY <1>0, <1>3 DEF CampaignInv, Noted, Capturing, Running, Assembling, Finishing
<1>5. /\ changes = 0 => /\ disk.clean /\ PayloadVerified(disk.payload) /\ disk.tokenizer \in Encoding
                        /\ noted.commit = disk.commit /\ \A i \in DOMAIN ran : ran[i] = disk.payload
      /\ step' \notin Finishing
  BY <1>0, <1>3 DEF CampaignInv, Unreplaced, Finishing
<1>6. CASE step' = "ended" /\ evidences' = evidences /\ ran' = ran
  <2>1. CampaignTypes'
    BY <1>1, <1>6 DEF CampaignInv, CampaignTypes, AllSteps
  <2>2. Counted' /\ Agreeing'
    BY <1>0, <1>6 DEF CampaignInv, Counted, Agreeing, Preparing, Assembling, Finishing
  <2>3. Unreplaced'
    BY <1>1, <1>5, <1>6 DEF Unreplaced
  <2> QED
    BY <1>2, <1>4, <2>1, <2>2, <2>3 DEF CampaignInv
<1>7. CASE step' = to /\ \E e \in Evidences :
                           /\ e.commit = noted.commit /\ e.tokens = TokenEvidence(Expected)
                           /\ evidences' = Append(evidences, e) /\ ran' = Append(ran, disk.payload)
  <2>1. PICK e \in Evidences : /\ e.commit = noted.commit /\ e.tokens = TokenEvidence(Expected)
                               /\ evidences' = Append(evidences, e) /\ ran' = Append(ran, disk.payload)
    BY <1>7
  <2>2. disk.payload \in Payloads
    BY <1>0 DEF Disks
  <2>3. /\ evidences' \in Seq(Evidences) /\ Len(evidences') = Len(evidences) + 1
        /\ DOMAIN evidences' = 1..(Len(evidences) + 1)
        /\ \A i \in 1..Len(evidences) : evidences'[i] = evidences[i]
        /\ evidences'[Len(evidences) + 1] = e
    BY <1>0, <2>1
  <2>4. /\ ran' \in Seq(Payloads) /\ Len(ran') = Len(ran) + 1
        /\ DOMAIN ran' = 1..(Len(ran) + 1)
        /\ \A i \in 1..Len(ran) : ran'[i] = ran[i]
        /\ ran'[Len(ran) + 1] = disk.payload
    BY <1>0, <2>1, <2>2
  <2>5. Len(evidences) \in Nat /\ Len(ran) \in Nat /\ DOMAIN evidences = 1..Len(evidences) /\ DOMAIN ran = 1..Len(ran)
    BY <1>0
  <2>6. CampaignTypes'
    BY <1>1, <1>3, <2>3, <2>4 DEF CampaignInv, CampaignTypes, AllSteps, Running, Preparing, Assembling, Finishing
  <2>7. Counted'
    BY <1>0, <1>7, <2>3, <2>4 DEF Counted, FamilyAt, Preparing, Assembling, Finishing
  <2>8. Agreeing'
    <3>1. \A i \in 1..Len(evidences) : evidences[i].commit = noted.commit /\ evidences[i].tokens = TokenEvidence(Expected)
      BY <2>5 DEF CampaignInv, Agreeing
    <3>2. \A i \in 1..(Len(evidences) + 1) : i \in 1..Len(evidences) \/ i = Len(evidences) + 1
      BY <2>5
    <3> QED
      BY <2>1, <2>3, <3>1, <3>2 DEF Agreeing
  <2>9. changes = 0 => \A i \in DOMAIN ran' : ran'[i] = disk.payload
    <3>1. \A i \in 1..(Len(ran) + 1) : i \in 1..Len(ran) \/ i = Len(ran) + 1
      BY <2>5
    <3> QED
      BY <1>5, <2>4, <2>5, <3>1
  <2>10. Unreplaced'
    BY <1>1, <1>5, <2>9 DEF Unreplaced
  <2> QED
    BY <1>2, <1>4, <2>6, <2>7, <2>8, <2>10 DEF CampaignInv
<1> QED
  BY <1>6, <1>7

\* Which family runs when, and the evidence it leaves.
LEMMA RunningKeeps ==
  ASSUME CampaignInv, NEW logits, NEW tokens,
         RunInt4(logits, tokens) \/ RunInt2(logits, tokens) \/ RunSparse(logits, tokens)
  PROVE  CampaignInv'
<1> DEFINE Leaves(from, to) ==
      /\ step = from /\ Keeps /\ noted' = noted
      /\ \/ /\ step' = "ended" /\ evidences' = evidences /\ ran' = ran
         \/ /\ step' = to
            /\ \E e \in Evidences :
                 /\ e.commit = noted.commit /\ e.tokens = TokenEvidence(Expected)
                 /\ evidences' = Append(evidences, e) /\ ran' = Append(ran, disk.payload)
<1>0. step \in {"int4", "int2", "sparse"} => noted.commit \in Commits
  BY DEF CampaignInv, Noted, Capturing, Running
<1> DEFINE o(entrypoint) == [commit |-> noted.commit, entrypoint |-> entrypoint, tokens |-> TokenEvidence(Expected)]
<1>1. CASE RunInt4(logits, tokens)
  <2> DEFINE p == o("Int4DenseMaterializedModelV1::model")
             e == Int4FullModelEvidence(p)
  <2>1. step = "int4" /\ Keeps /\ noted' = noted
        /\ \/ step' = "ended" /\ evidences' = evidences /\ ran' = ran
           \/ /\ step' = "int2" /\ evidences' = Append(evidences, e) /\ ran' = Append(ran, disk.payload)
    BY <1>1 DEF RunInt4, Runs, Proceeds, Observed
  <2>2. e \in Evidences /\ e.commit = noted.commit /\ e.tokens = TokenEvidence(Expected)
    <3>1. noted.commit \in Commits /\ "int4" \in Families
          /\ "Int4DenseMaterializedModelV1::model" \in EntryPoints
      BY <1>0, <2>1 DEF Families, EntryPoints
    <3> QED
      BY <3>1, EvidenceTyped DEF Int4FullModelEvidence
  <2> HIDE DEF e
  <2>3. Leaves("int4", "int2")
    BY <2>1, <2>2
  <2> QED
    BY <2>3, RunStep
<1>2. CASE RunInt2(logits, tokens)
  <2> DEFINE p == o("Int2DenseMaterializedModelV1::model")
             e == Int2FullModelEvidence(p)
  <2>1. step = "int2" /\ Keeps /\ noted' = noted
        /\ \/ step' = "ended" /\ evidences' = evidences /\ ran' = ran
           \/ /\ step' = "sparse" /\ evidences' = Append(evidences, e) /\ ran' = Append(ran, disk.payload)
    BY <1>2 DEF RunInt2, Runs, Proceeds, Observed
  <2>2. e \in Evidences /\ e.commit = noted.commit /\ e.tokens = TokenEvidence(Expected)
    <3>1. noted.commit \in Commits /\ "int2" \in Families
          /\ "Int2DenseMaterializedModelV1::model" \in EntryPoints
      BY <1>0, <2>1 DEF Families, EntryPoints
    <3> QED
      BY <3>1, EvidenceTyped DEF Int2FullModelEvidence
  <2> HIDE DEF e
  <2>3. Leaves("int2", "sparse")
    BY <2>1, <2>2
  <2> QED
    BY <2>3, RunStep
<1>3. CASE RunSparse(logits, tokens)
  <2> DEFINE p == o("SparseDenseMaterializedModelV1::model")
             e == SparseFullModelEvidence(p)
  <2>1. step = "sparse" /\ Keeps /\ noted' = noted
        /\ \/ step' = "ended" /\ evidences' = evidences /\ ran' = ran
           \/ /\ step' = "assemble" /\ evidences' = Append(evidences, e) /\ ran' = Append(ran, disk.payload)
    BY <1>3 DEF RunSparse, Runs, Proceeds, Observed
  <2>2. e \in Evidences /\ e.commit = noted.commit /\ e.tokens = TokenEvidence(Expected)
    <3>1. noted.commit \in Commits /\ "sparse" \in Families
          /\ "SparseDenseMaterializedModelV1::model" \in EntryPoints
      BY <1>0, <2>1 DEF Families, EntryPoints
    <3> QED
      BY <3>1, EvidenceTyped DEF SparseFullModelEvidence
  <2> HIDE DEF e
  <2>3. Leaves("sparse", "assemble")
    BY <2>1, <2>2
  <2> QED
    BY <2>3, RunStep
<1> QED
  BY <1>1, <1>2, <1>3

\* The tokenizer's digest is taken.
LEMMA AssembleKeeps == ASSUME CampaignInv, Assemble PROVE CampaignInv'
<1>1. /\ step = "assemble" /\ step' \in {"write", "ended"} /\ Keeps
      /\ noted' = [noted EXCEPT !.tokenizer = disk.tokenizer] /\ evidences' = evidences /\ ran' = ran
  BY DEF Assemble, Proceeds
<1>2. /\ disk \in Disks /\ noted \in Notes /\ Len(evidences) = 3 /\ Len(ran) = Len(evidences)
      /\ noted.device \in Devices /\ noted.commit \in Commits
  BY <1>1 DEF CampaignInv, CampaignTypes, Counted, Noted, Capturing, Running, Assembling
<1>3. /\ noted' \in Notes /\ noted'.tokenizer = disk.tokenizer /\ disk.tokenizer \in Tokenizers
      /\ noted'.commit = noted.commit /\ noted'.device = noted.device
  BY <1>1, <1>2 DEF Notes, Disks
<1>4. disk' = disk /\ changes' = changes /\ edits' = edits /\ artifact' = artifact /\ issued' = issued
  BY <1>1 DEF Keeps
<1>5. CampaignTypes'
  BY <1>1, <1>3, <1>4
     DEF CampaignInv, CampaignTypes, AllSteps, Running, Preparing, Assembling, Finishing
<1>6. Noted'
  BY <1>2, <1>3 DEF Noted
<1>7. Counted'
  BY <1>1, <1>2 DEF Counted, Preparing, Assembling, Finishing
<1>8. Agreeing'
  BY <1>1, <1>3 DEF CampaignInv, Agreeing
<1>9. Unreplaced'
  BY <1>1, <1>3, <1>4
     DEF CampaignInv, Unreplaced, Verifying, Prompting, Reading, Capturing, Running, Assembling, Finishing
<1>10. Written' /\ AnsweredIssue'
  BY <1>1, <1>4, RunnerWritesNothing
<1> QED
  BY <1>5, <1>6, <1>7, <1>8, <1>9, <1>10 DEF CampaignInv

\* The file is written from what was noted, or not at all.
LEMMA WriteArtifactKeeps == ASSUME CampaignInv, WriteArtifact PROVE CampaignInv'
<1>1. /\ step = "write" /\ step' \in {"written", "ended"}
      /\ (step' = "written" /\ artifact' = NewArtifact) \/ artifact' = NoFile
      /\ UNCHANGED <<disk, changes, edits, noted, evidences, ran, issued>>
  BY DEF WriteArtifact, Proceeds
<1>2. /\ evidences \in Seq(Evidences) /\ Len(evidences) = 3 /\ Len(ran) = Len(evidences)
      /\ noted.device \in Devices /\ noted.commit \in Commits /\ noted.tokenizer \in Tokenizers
  BY <1>1 DEF CampaignInv, CampaignTypes, Counted, Noted, Capturing, Running, Assembling, Finishing
<1>3. NewArtifact \in Artifacts
  BY <1>2, NewArtifactTyped
<1>4. NewArtifact' = NewArtifact
  BY <1>1 DEF NewArtifact, Campaign, Recipe
<1>5. CampaignTypes'
  BY <1>1 DEF CampaignInv, CampaignTypes, AllSteps, Running, Assembling, Finishing
<1>6. Noted'
  BY <1>1, <1>2 DEF Noted
<1>7. Counted'
  BY <1>1, <1>2 DEF Counted, Preparing
<1>8. Agreeing'
  BY <1>1 DEF CampaignInv, Agreeing
<1>9. Unreplaced'
  BY <1>1
     DEF CampaignInv, Unreplaced, Verifying, Prompting, Reading, Capturing, Running, Assembling, Finishing
<1>10. Written'
  BY <1>1, <1>3, <1>4 DEF Written
<1>11. AnsweredIssue'
  BY <1>1, NothingWritten DEF AnsweredIssue
<1> QED
  BY <1>5, <1>6, <1>7, <1>8, <1>9, <1>10, <1>11 DEF CampaignInv

\* A campaign that fails ends with what it has.
LEMMA FailureKeeps == ASSUME CampaignInv, CampaignFails PROVE CampaignInv'
<1>1. /\ step # "written" /\ step' = "ended"
      /\ UNCHANGED <<disk, changes, edits, artifact, issued, noted, evidences, ran>>
  BY DEF CampaignFails, Keeps
<1>2. CampaignTypes'
  BY <1>1 DEF CampaignInv, CampaignTypes, AllSteps
<1>3. Noted' /\ Counted'
  BY <1>1
     DEF CampaignInv, Noted, Counted, Preparing, Capturing, Running, Assembling, Finishing
<1>4. Agreeing'
  BY <1>1 DEF CampaignInv, Agreeing
<1>5. Unreplaced'
  BY <1>1
     DEF CampaignInv, Unreplaced, Verifying, Prompting, Reading, Capturing, Running, Assembling, Finishing
<1>6. Written' /\ AnsweredIssue'
  BY <1>1, RunnerWritesNothing
<1> QED
  BY <1>2, <1>3, <1>4, <1>5, <1>6 DEF CampaignInv

\* Another process replaces a file; the runner still believes what it noted.
LEMMA ReplacedKeeps ==
  ASSUME CampaignInv, NEW d \in Replaced, ReplaceFile(d)
  PROVE  CampaignInv'
<1>1. /\ step # "written" /\ disk' = d /\ changes' = changes + 1
      /\ UNCHANGED <<edits, step, noted, evidences, ran, artifact, issued>>
  BY DEF ReplaceFile
<1>2. disk \in Disks /\ changes \in Nat
  BY DEF CampaignInv, CampaignTypes
<1>3. disk' \in Disks
  <2>1. \/ \E p \in Payloads : d = [disk EXCEPT !.payload = p]
        \/ \E t \in Tokenizers : d = [disk EXCEPT !.tokenizer = t]
        \/ d = [disk EXCEPT !.clean = FALSE]
        \/ \E c \in Commits : d = [disk EXCEPT !.commit = c]
    BY DEF Replaced
  <2> QED
    BY <1>1, <1>2, <2>1 DEF Disks
<1>4. changes' \in Nat /\ changes' # 0
  BY <1>1, <1>2
<1>5. CampaignTypes'
  BY <1>1, <1>3, <1>4 DEF CampaignInv, CampaignTypes
<1>6. Noted' /\ Counted'
  BY <1>1 DEF CampaignInv, Noted, Counted
<1>7. Agreeing' /\ Unreplaced'
  BY <1>1, <1>4 DEF CampaignInv, Agreeing, Unreplaced
<1>8. Written' /\ AnsweredIssue'
  BY <1>1, RunnerWritesNothing
<1> QED
  BY <1>5, <1>6, <1>7, <1>8 DEF CampaignInv

\* Somebody edits the file that was written.
LEMMA EditKeeps == ASSUME CampaignInv, EditFile PROVE CampaignInv'
<1>1. PICK a \in Edited(artifact) : artifact' = a
  BY DEF EditFile
<1>2. /\ artifact # NoFile /\ edits' = edits + 1 /\ issued' = NoFile
      /\ UNCHANGED <<disk, changes, step, noted, evidences, ran>>
  BY DEF EditFile
<1>3. step = "written" /\ artifact \in Artifacts
  BY <1>2 DEF CampaignInv, Written
<1>4. artifact' \in Artifacts
  BY <1>1, <1>3, EditedTyped
<1>5. edits' \in Nat /\ edits' # 0
  BY <1>2 DEF CampaignInv, CampaignTypes
<1>6. CampaignTypes'
  BY <1>2, <1>5 DEF CampaignInv, CampaignTypes
<1>7. Noted' /\ Counted'
  BY <1>2 DEF CampaignInv, Noted, Counted
<1>8. Agreeing' /\ Unreplaced'
  BY <1>2 DEF CampaignInv, Agreeing, Unreplaced
<1>9. Written' /\ AnsweredIssue'
  BY <1>2, <1>3, <1>4, <1>5 DEF Written, AnsweredIssue
<1> QED
  BY <1>6, <1>7, <1>8, <1>9 DEF CampaignInv

\* A command answers about the file as it is.
LEMMA CommandKeeps ==
  ASSUME CampaignInv, NEW kind \in Kinds, NEW t \in Tokenizers, NEW named \in BOOLEAN,
         Command(kind, [named |-> named, content |-> t])
  PROVE  CampaignInv'
<1>1. /\ artifact # NoFile /\ issued' = Answer(kind, [named |-> named, content |-> t], artifact)
      /\ UNCHANGED <<disk, changes, edits, step, noted, evidences, ran, artifact>>
  BY DEF Command
<1>2. CampaignTypes'
  BY <1>1 DEF CampaignInv, CampaignTypes
<1>3. Noted' /\ Counted'
  BY <1>1 DEF CampaignInv, Noted, Counted
<1>4. Agreeing' /\ Unreplaced'
  BY <1>1 DEF CampaignInv, Agreeing, Unreplaced
<1>5. NewArtifact' = NewArtifact
  BY <1>1 DEF NewArtifact, Campaign, Recipe
<1>6. Written'
  BY <1>1, <1>5 DEF CampaignInv, Written
<1>7. AnsweredIssue'
  BY <1>1 DEF AnsweredIssue
<1> QED
  BY <1>2, <1>3, <1>4, <1>6, <1>7 DEF CampaignInv

\* Every step keeps the invariant of the campaign: one case per action.
LEMMA CampaignStep == CampaignInv /\ [EvidenceNext]_evidenceVars => CampaignInv'
<1> SUFFICES ASSUME CampaignInv, [EvidenceNext]_evidenceVars PROVE CampaignInv'
  OBVIOUS
<1>1. CASE \/ \E args \in {Protocol, [Protocol EXCEPT !.threshold = 0]} : BeginCampaign(args)
           \/ VerifyWorktree \/ VerifyPayload \/ VerifyPrompt \/ ReadCommit
           \/ \E d \in Devices : CaptureDevice(d)
  BY <1>1, VerifyingKeeps
<1>2. CASE \E logits \in {<<0>>, <<NonFinite>>, <<>>}, tokens \in {Expected, <<"t260">>} :
             RunInt4(logits, tokens) \/ RunInt2(logits, tokens) \/ RunSparse(logits, tokens)
  BY <1>2, RunningKeeps
<1>3. CASE Assemble
  BY <1>3, AssembleKeeps
<1>4. CASE WriteArtifact
  BY <1>4, WriteArtifactKeeps
<1>5. CASE CampaignFails
  BY <1>5, FailureKeeps
<1>6. CASE \E d \in Replaced : ReplaceFile(d)
  BY <1>6, ReplacedKeeps
<1>7. CASE EditFile
  BY <1>7, EditKeeps
<1>8. CASE \E kind \in Kinds, t \in Tokenizers, named \in BOOLEAN : Command(kind, [named |-> named, content |-> t])
  BY <1>8, CommandKeeps
<1>9. CASE UNCHANGED evidenceVars
  <2>1. UNCHANGED <<disk, changes, edits, step, noted, evidences, ran, artifact, issued>>
    BY <1>9 DEF evidenceVars
  <2>2. NewArtifact' = NewArtifact
    BY <2>1 DEF NewArtifact, Campaign, Recipe
  <2>3. CampaignTypes' /\ Noted' /\ Counted'
    BY <2>1 DEF CampaignInv, CampaignTypes, Noted, Counted
  <2>4. Agreeing' /\ Unreplaced'
    BY <2>1 DEF CampaignInv, Agreeing, Unreplaced
  <2>5. Written' /\ AnsweredIssue'
    BY <2>1, <2>2 DEF CampaignInv, Written, AnsweredIssue
  <2> QED
    BY <2>3, <2>4, <2>5 DEF CampaignInv
<1> QED
  BY <1>1, <1>2, <1>3, <1>4, <1>5, <1>6, <1>7, <1>8, <1>9 DEF EvidenceNext

\* What an unedited file of a campaign without replaced files says.
LEMMA UntouchedIsExact ==
  ASSUME CampaignInv, artifact # NoFile, edits = 0, changes = 0
  PROVE  /\ ran = [i \in 1..3 |-> disk.payload] /\ PayloadVerified(disk.payload) /\ disk.clean
         /\ artifact.tokenizer \in Encoding
         /\ artifact.campaign.commit = disk.commit
         /\ \A i \in 1..3 : artifact.campaign.evidences[i].tokens = TokenEvidence(Expected)
<1>1. step = "written" /\ artifact = NewArtifact
  BY DEF CampaignInv, Written
<1>2. artifact.campaign.evidences = evidences /\ artifact.campaign.commit = evidences[1].commit
      /\ artifact.tokenizer = noted.tokenizer
  BY <1>1 DEF NewArtifact, Campaign
<1>3. evidences \in Seq(Evidences) /\ ran \in Seq(Payloads) /\ Len(evidences) = 3 /\ Len(ran) = 3
  BY <1>1 DEF CampaignInv, CampaignTypes, Counted, Assembling, Finishing
<1>4. DOMAIN evidences = 1..3 /\ DOMAIN ran = 1..3
  BY <1>3
<1>5. /\ disk.clean /\ PayloadVerified(disk.payload) /\ disk.tokenizer \in Encoding /\ noted.commit = disk.commit
      /\ noted.tokenizer = disk.tokenizer /\ \A i \in 1..3 : ran[i] = disk.payload
  BY <1>1, <1>4
     DEF CampaignInv, Unreplaced, Verifying, Prompting, Reading, Capturing, Running, Assembling, Finishing
<1>6. ran = [i \in 1..3 |-> disk.payload]
  BY <1>3, <1>4, <1>5
<1>7. \A i \in 1..3 : evidences[i].commit = noted.commit /\ evidences[i].tokens = TokenEvidence(Expected)
  BY <1>4 DEF CampaignInv, Agreeing
<1> QED
  BY <1>2, <1>5, <1>6, <1>7

\* Whoever edits the artifact and whatever files are replaced meanwhile, for any
\* payloads, tokenizers, devices and summaries, and any number of changes and
\* edits: a record that a command issues says of the three families what
\* HandoffHonest asks, and after a campaign nobody disturbed it is of the exact
\* payload and of a tokenizer that encodes the prompt.
THEOREM HandoffHolds == EvidenceSpec => []HandoffHonest
<1>1. CampaignInv => HandoffHonest
  <2> SUFFICES ASSUME CampaignInv, issued # NoFile, issued.accepted
               PROVE  HandoffHonest
    BY DEF HandoffHonest
  <2>1. artifact # NoFile /\ artifact \in Artifacts
    BY DEF CampaignInv, AnsweredIssue, Written
  <2>2. PICK kind \in Kinds, t \in Tokenizers, named \in BOOLEAN :
          issued = Answer(kind, [named |-> named, content |-> t], artifact)
    BY DEF CampaignInv, AnsweredIssue
  <2> DEFINE given == [named |-> named, content |-> t]
  <2>3. Accepts(kind, given, artifact)
    BY <2>2 DEF Answer
  <2>4. issued.kind = kind /\ issued.given = given /\ issued.record = Record(kind, artifact)
    BY <2>2, <2>3 DEF Answer
  <2>5. AcceptedIsHonest(kind, given, artifact, Record(kind, artifact))
    BY <2>1, <2>3, AcceptedHonest
  <2> HIDE DEF given
  <2>6. /\ issued.record.commit = artifact.campaign.commit
        /\ issued.record.tokenizer = artifact.tokenizer
    <3>1. /\ Record(kind, artifact).commit = artifact.campaign.commit
          /\ Record(kind, artifact).tokenizer = artifact.tokenizer
      BY RecordFields
    <3> QED
      BY <2>4, <3>1
  <2>7. edits = 0 /\ changes = 0 =>
          /\ ran = [i \in 1..3 |-> disk.payload] /\ PayloadVerified(disk.payload) /\ disk.clean
          /\ issued.record.commit = disk.commit /\ issued.record.tokenizer \in Encoding
          /\ \A i \in 1..3 : artifact.campaign.evidences[i].tokens = TokenEvidence(Expected)
    BY <2>1, <2>6, UntouchedIsExact
  <2>8. AcceptedIsHonest(issued.kind, issued.given, artifact, issued.record)
    BY <2>4, <2>5
  <2> QED
    BY Zenon, <2>7, <2>8 DEF HandoffHonest, AcceptedIsHonest
<1> QED
  BY CampaignStarts, CampaignStep, <1>1, PTL DEF EvidenceSpec

-----------------------------------------------------------------------------
\* Checkpoint loading: the weights are the source's, and the two readers agree.

Hf == dir.kind = "hf"
Numbers == {"F32", "BF16"}
\* What a load may execute with: the source's configuration, perhaps in F32.
Executions(d) == {HfMetadata(d.config), [HfMetadata(d.config) EXCEPT !.dtype = "F32"]}
KnownSlots(d) == {p \in Slots(d) : NameAt(d, p) \in Names(d.config)}
Found(d) == {NameAt(d, p) : p \in KnownSlots(d)}
Apart(d, slots) == \A p, q \in slots : NameAt(d, p) = NameAt(d, q) => p = q
Declared(d, slots) == \A p \in slots : StoredAsDeclared(d, NameAt(d, p))
Passes(d) ==
  /\ PreflightAccepts(d.config) /\ Discovered(d)
  /\ Declared(d, KnownSlots(d)) /\ Apart(d, KnownSlots(d)) /\ Complete(d.config, Found(d))
\* The slots a load has still to visit, and those with a name that it has visited.
Ahead == Range(pending) \cup UNION {{s} \X DOMAIN dir.files[s] : s \in unread}
Behind == KnownSlots(dir) \ Ahead
\* What a weight is made of.
Wanted(n) ==
  IF n = Head0 /\ Head0 \notin Found(dir)
  THEN Transpose(Prepared(dir, Embedding), execution.vocab, execution.hidden)
  ELSE Prepared(dir, n)

Working == {"loading", "tying", "building"}
LoaderTypes ==
  /\ dir \in Directories
  /\ Hf /\ loading \in Working \cup {"loaded"} =>
       HfAccepts(dir.config) /\ Discovered(dir) /\ execution \in Executions(dir)
  /\ Hf => pending \in Seq(Slots(dir)) /\ unread \subseteq WeightFiles(dir)
  /\ Hf /\ loading = "idle" => tensors = <<>> /\ pending = <<>> /\ unread = {}
\* A slot comes once, and the tensors are those of the slots behind.
Visiting ==
  Hf /\ loading = "loading" =>
    /\ \A i, j \in DOMAIN pending : pending[i] = pending[j] => i = j
    /\ \A i \in DOMAIN pending : pending[i][1] \notin unread
    /\ DOMAIN tensors = {NameAt(dir, p) : p \in Behind}
    /\ Declared(dir, Behind) /\ Apart(dir, Behind)
Visited ==
  /\ Hf /\ loading \in {"tying", "building", "loaded"} =>
       Declared(dir, KnownSlots(dir)) /\ Apart(dir, KnownSlots(dir))
  /\ Hf /\ loading = "tying" => DOMAIN tensors = Found(dir) /\ dir.config.tied /\ Head0 \notin Found(dir)
  /\ Hf /\ loading = "building" =>
       DOMAIN tensors = Found(dir) \cup (IF dir.config.tied THEN {Head0} ELSE {})
Contents ==
  Hf /\ loading \in Working =>
    \A n \in DOMAIN tensors :
      tensors[n] = [shape |-> Shape(execution, n), dtype |-> execution.dtype, words |-> Wanted(n)]
LoadedWhole ==
  Hf /\ loading = "loaded" =>
    /\ Complete(dir.config, Found(dir))
    /\ \A n \in Names(execution) : weights.owner[n] = n /\ weights.buffer[n].words = Wanted(n)
Judged ==
  /\ Hf /\ loading = "refused" => ~Passes(dir)
  /\ report = "error" => Hf /\ ~Passes(dir)
  /\ report \in {"ready", "widens"} => Hf /\ Passes(dir)
LoaderInv == LoaderTypes /\ Visiting /\ Visited /\ Contents /\ LoadedWhole /\ Judged

\* Element c of row r of a rows x cols matrix, in a row-major buffer.
LEMMA RowMajor ==
    ASSUME NEW rows \in Nat, NEW cols \in Nat, NEW r \in 1..rows, NEW c \in 1..cols,
           NEW i, i = (r - 1) * cols + c
    PROVE  /\ i \in 1..rows * cols
           /\ (i - 1) % cols = c - 1 /\ (i - 1) \div cols = r - 1
<1>1. (r - 1) * cols \in Nat /\ cols \in Nat \ {0} /\ r - 1 \in Nat /\ c - 1 \in 0..(cols - 1)
  OBVIOUS
<1>2. i \in 1..rows * cols
  <2>1. PICK d \in Nat : rows = (r - 1) + 1 + d
    <3>1. rows - r \in Nat /\ rows = (r - 1) + 1 + (rows - r)
      OBVIOUS
    <3> QED BY <3>1
  <2>2. rows * cols = (r - 1) * cols + cols + d * cols
    BY <2>1, <1>1
  <2>3. d * cols \in Nat
    OBVIOUS
  <2> QED BY <2>2, <2>3, <1>1
<1> DEFINE x == i - 1
           q == x \div cols
           m == x % cols
<1>3. x \in Nat /\ q \in Nat /\ m \in 0..(cols - 1) /\ x = q * cols + m /\ x = (r - 1) * cols + (c - 1)
  <2>1. \A y \in Nat : y \div cols \in Nat /\ y % cols \in 0..(cols - 1)
                       /\ y = (y \div cols) * cols + (y % cols)
    BY <1>1
  <2>2. x \in Nat /\ x = (r - 1) * cols + (c - 1)
    BY <1>1
  <2> QED BY <2>1, <2>2
<1> HIDE DEF x, q, m
<1>4. q = r - 1 /\ m = c - 1
  <2>1. ASSUME NEW u \in Nat, NEW v \in Nat, NEW s \in 0..(cols - 1), u < v
        PROVE  u * cols + s < v * cols
    <3>1. PICK d \in Nat : v = u + 1 + d
      <4>1. v - u - 1 \in Nat /\ v = u + 1 + (v - u - 1)
        BY <2>1
      <4> QED BY <4>1
    <3>2. v * cols = u * cols + cols + d * cols
      BY <3>1, <1>1
    <3>3. d * cols \in Nat /\ u * cols \in Nat
      BY <1>1
    <3> QED BY <3>2, <3>3, <1>1
  <2>2. q * cols \in Nat
    BY <1>1, <1>3
  <2>3. q < r - 1 => q * cols + m < (r - 1) * cols
    BY <2>1, <1>1, <1>3
  <2>4. r - 1 < q => (r - 1) * cols + (c - 1) < q * cols
    BY <2>1, <1>1, <1>3
  <2>5. q = r - 1
    BY <2>2, <2>3, <2>4, <1>1, <1>3
  <2> QED BY <2>5, <2>2, <1>1, <1>3
<1> QED BY <1>2, <1>4 DEF q, m, x

\* transpose_matrix: element (c, r) of the matrix is element (r, c) of the result.
LEMMA TransposeAt ==
    ASSUME NEW rows \in Nat, NEW cols \in Nat, NEW words, NEW r \in 1..cols, NEW c \in 1..rows
    PROVE  /\ (r - 1) * rows + c \in 1..rows * cols
           /\ (c - 1) * cols + r \in 1..rows * cols
           /\ Transpose(words, rows, cols)[(r - 1) * rows + c] = words[(c - 1) * cols + r]
<1> DEFINE i == (r - 1) * rows + c
<1>1. i \in 1..cols * rows /\ (i - 1) % rows = c - 1 /\ (i - 1) \div rows = r - 1
  BY RowMajor
<1>2. cols * rows = rows * cols
  OBVIOUS
<1>3. (c - 1) * cols + r \in 1..rows * cols
  BY RowMajor
<1>4. Transpose(words, rows, cols)[i] = words[((i - 1) % rows) * cols + ((i - 1) \div rows) + 1]
  BY <1>1, <1>2 DEF Transpose
<1>5. (c - 1) * cols + (r - 1) + 1 = (c - 1) * cols + r
  <2>1. (c - 1) * cols \in Int
    OBVIOUS
  <2> QED BY <2>1
<1> QED BY <1>1, <1>2, <1>3, <1>4, <1>5

\* What a load executes with has the source's geometry.
LEMMA SameGeometry ==
    ASSUME NEW d \in Directories, NEW x \in Executions(d), NEW n
    PROVE  /\ Names(x) = Names(d.config) /\ x.tied = d.config.tied
           /\ x.vocab = d.config.vocab /\ x.hidden = d.config.hidden
           /\ Shape(x, n) = Shape(HfMetadata(d.config), n)
           /\ HfShape(x, n) = PreflightShape(HfMetadata(d.config), n)
           /\ x.dtype \in {d.config.dtype, "F32"}
<1>1. d.config \in Configs
  BY CheckpointAssumption
<1> DEFINE m == HfMetadata(d.config)
<1>2. /\ m.vocab = d.config.vocab /\ m.hidden = d.config.hidden /\ m.layers = d.config.layers
      /\ m.tied = d.config.tied /\ m.dtype = d.config.dtype
  BY <1>1 DEF Configs, HfMetadata
<1>3. /\ x.vocab = m.vocab /\ x.hidden = m.hidden /\ x.inter = m.inter /\ x.layers = m.layers
      /\ x.heads = m.heads /\ x.kvHeads = m.kvHeads /\ x.tied = m.tied /\ x.dtype \in {m.dtype, "F32"}
  BY <1>1 DEF Configs, HfMetadata, Executions
<1> HIDE DEF m
<1>4. Shape(x, n) = Shape(m, n)
  BY <1>3 DEF Shape, KvWidth, HeadDim
<1> QED
  BY <1>2, <1>3, <1>4 DEF Names, HfShape, PreflightShape, m

\* The sizes of a weight are numbers.
LEMMA ShapeTyped ==
    ASSUME NEW d \in Directories, NEW x \in Executions(d), HfAccepts(d.config), NEW n
    PROVE  /\ x.vocab \in Nat /\ x.hidden \in Nat
           /\ \/ \E a \in Nat : Shape(x, n) = <<a>>
              \/ \E a, b \in Nat : Shape(x, n) = <<a, b>>
<1>1. d.config \in Configs
  BY CheckpointAssumption
<1> DEFINE m == HfMetadata(d.config)
<1>2. /\ m.vocab \in Nat /\ m.hidden \in Nat /\ m.inter \in Nat /\ m.heads \in Nat \ {0}
      /\ m.kvHeads \in Nat
  BY <1>1 DEF Configs, HfMetadata, HfAccepts, Absent
<1>3. /\ x.vocab = m.vocab /\ x.hidden = m.hidden /\ x.inter = m.inter
      /\ x.heads = m.heads /\ x.kvHeads = m.kvHeads
  BY <1>1 DEF Configs, HfMetadata, Executions
<1> HIDE DEF m
<1>4. HeadDim(x) \in Nat
  BY <1>2, <1>3 DEF HeadDim
<1>5. KvWidth(x) \in Nat
  BY <1>2, <1>3, <1>4 DEF KvWidth
<1> QED
  BY <1>2, <1>3, <1>5 DEF Shape

\* The last demand of the preflight follows from the others.
LEMMA PassesIs ==
    ASSUME NEW d
    PROVE  Passes(d) <=> PreflightAccepts(d.config) /\ Discovered(d) /\ PreflightOk(d)
<1>1. ASSUME Complete(d.config, Found(d))
      PROVE  Found(d) \cup (IF d.config.tied THEN {Head0} ELSE {}) = Names(d.config)
  <2>1. Found(d) \subseteq Names(d.config) /\ Head0 \in Names(d.config)
    BY DEF Found, KnownSlots, Names
  <2> QED BY <1>1, <2>1 DEF Complete
<1> QED
  BY <1>1 DEF Passes, PreflightOk, Found, KnownSlots, Declared, Apart

\* The loader and the preflight accept the same configurations.
LEMMA ReadersAccept == \A c : HfAccepts(c) <=> PreflightAccepts(c)
  BY DEF HfAccepts, PreflightAccepts

\* load_shard asks of a new tensor what the preflight asks.
LEMMA FitsIs ==
    ASSUME dir \in Directories, execution \in Executions(dir), HfAccepts(dir.config), NEW n
    PROVE  ShardTensorFits(dir, n) <=> StoredAsDeclared(dir, n) /\ n \notin DOMAIN tensors
<1>1. HfShape(execution, n) = PreflightShape(HfMetadata(dir.config), n)
      /\ execution.dtype \in {dir.config.dtype, "F32"}
  BY SameGeometry
<1>2. Materializes(dir.config.dtype, execution.dtype)
  BY <1>1 DEF Materializes, HfAccepts
<1> QED
  BY <1>1, <1>2 DEF ShardTensorFits, StoredAsDeclared

LEMMA LoaderStarts == CheckpointInit => LoaderInv
<1> SUFFICES ASSUME CheckpointInit PROVE LoaderInv
  OBVIOUS
<1>1. /\ dir \in Directories /\ report = "none" /\ loading = "idle"
      /\ unread = {} /\ pending = <<>> /\ tensors = <<>>
  BY DEF CheckpointInit
<1>2. pending \in Seq(Slots(dir))
  BY <1>1
<1>3. LoaderTypes
  BY <1>1, <1>2 DEF LoaderTypes, Working
<1> QED
  BY <1>1, <1>3 DEF LoaderInv, Visiting, Visited, Contents, LoadedWhole, Judged, Working

\* A step that leaves the load alone keeps what is said of the load.
LEMMA LoadUntouched ==
    ASSUME LoaderInv, UNCHANGED <<dir, loading, execution, unread, pending, tensors, weights>>
    PROVE  /\ LoaderTypes' /\ Visiting' /\ Visited' /\ Contents' /\ LoadedWhole'
           /\ (Hf <=> Hf') /\ (Passes(dir) <=> Passes(dir)')
<1> USE DEF LoaderInv
<1>1. LoaderTypes'
  BY DEF LoaderTypes, Hf
<1>2. Behind' = Behind
  BY DEF Behind, Ahead
<1>3. Visiting'
  BY <1>2 DEF Visiting, Hf
<1>4. Visited'
  BY DEF Visited, Hf
<1>5. \A n : Wanted(n)' = Wanted(n)
  BY DEF Wanted, Prepared
<1>6. Contents' /\ LoadedWhole'
  BY <1>5 DEF Contents, LoadedWhole, Hf
<1> QED BY <1>1, <1>3, <1>4, <1>6 DEF Hf

LEMMA PreflightKeeps == ASSUME LoaderInv, Preflight PROVE LoaderInv'
<1>1. UNCHANGED <<dir, loading, execution, unread, pending, tensors, weights>>
  BY DEF Preflight
<1>2. report' = IF Passes(dir) THEN (IF dir.config.dtype = "F32" THEN "ready" ELSE "widens") ELSE "error"
  BY PassesIs DEF Preflight
<1>3. Judged'
  BY <1>1, <1>2 DEF LoaderInv, Judged, Hf, Preflight
<1> QED BY <1>1, <1>3, LoadUntouched DEF LoaderInv

\* An error: what was refused, the preflight refuses.
LEMMA EndsKeeps ==
    ASSUME LoaderInv, NEW how \in {"refused", "failed"}, Ends(how), how = "refused" /\ Hf => ~Passes(dir)
    PROVE  LoaderInv'
<1>1. dir' = dir /\ report' = report /\ loading' = how /\ pending' = <<>> /\ unread' = {}
  BY DEF Ends
<1>2. LoaderTypes'
  <2>1. pending' \in Seq(Slots(dir'))
    BY <1>1
  <2> QED BY <1>1, <2>1 DEF LoaderInv, LoaderTypes, Working
<1>3. Visiting' /\ Visited' /\ Contents' /\ LoadedWhole'
  BY <1>1 DEF Visiting, Visited, Contents, LoadedWhole, Working
<1>4. Judged'
  BY <1>1 DEF LoaderInv, Judged, Hf
<1> QED BY <1>2, <1>3, <1>4 DEF LoaderInv

LEMMA BeginLoadKeeps == ASSUME LoaderInv, NEW asF32 \in BOOLEAN, BeginLoad(asF32) PROVE LoaderInv'
<1>1. loading = "idle" /\ Hf /\ tensors = <<>> /\ pending = <<>> /\ dir \in Directories
  BY DEF BeginLoad, Hf, LoaderInv, LoaderTypes
<1>2. CASE ~(HfAccepts(dir.config) /\ Discovered(dir))
  <2>1. Ends("refused") /\ ~Passes(dir)
    BY <1>2, ReadersAccept DEF BeginLoad, Passes
  <2> QED BY <2>1, EndsKeeps
<1>3. CASE HfAccepts(dir.config) /\ Discovered(dir)
  <2>1. /\ loading' = "loading" /\ unread' = WeightFiles(dir)
        /\ execution' = [HfMetadata(dir.config) EXCEPT !.dtype = IF asF32 THEN "F32" ELSE @]
        /\ UNCHANGED <<dir, report, pending, tensors, weights>>
    BY <1>3 DEF BeginLoad
  <2>2. execution' \in Executions(dir)
    <3>1. dir.config \in Configs
      BY <1>1, CheckpointAssumption
    <3>2. HfMetadata(dir.config) = [HfMetadata(dir.config) EXCEPT !.dtype = @]
      BY <3>1 DEF Configs, HfMetadata
    <3> QED BY <2>1, <3>2 DEF Executions
  <2>3. LoaderTypes'
    <3>1. pending' \in Seq(Slots(dir'))
      BY <1>1, <2>1
    <3> QED BY <1>1, <1>3, <2>1, <2>2, <3>1 DEF LoaderTypes, Hf
  <2>4. Visiting'
    <3>1. Slots(dir) \subseteq Ahead'
      BY <2>1 DEF Ahead, Slots
    <3>2. Behind' = {}
      BY <2>1, <3>1 DEF Behind, KnownSlots
    <3> QED BY <1>1, <2>1, <3>2 DEF Visiting, Declared, Apart
  <2>5. Visited' /\ Contents' /\ LoadedWhole' /\ Judged'
    BY <1>1, <2>1 DEF Visited, Contents, LoadedWhole, Judged, LoaderInv, Hf
  <2> QED BY <2>3, <2>4, <2>5 DEF LoaderInv
<1> QED BY <1>2, <1>3

\* The slots of a file that is opened are still ahead.
LEMMA OpenFileKeeps ==
    ASSUME LoaderInv, NEW s \in unread, NEW order \in Orders(Len(dir.files[s])), OpenFile(s, order)
    PROVE  LoaderInv'
<1>1. /\ loading = "loading" /\ pending = <<>> /\ loading' = "loading"
      /\ pending' = InFile(dir, s, order) /\ unread' = unread \ {s}
      /\ UNCHANGED <<dir, report, execution, tensors, weights>>
  BY DEF OpenFile
<1>2. CASE ~Hf
  BY <1>1, <1>2 DEF LoaderInv, LoaderTypes, Visiting, Visited, Contents, LoadedWhole, Judged, Hf, Working
<1>3. CASE Hf
  <2> DEFINE n == Len(dir.files[s])
  <2>1. s \in WeightFiles(dir) /\ dir \in Directories /\ unread \subseteq WeightFiles(dir)
    BY <1>3 DEF LoaderInv, LoaderTypes
  <2>2. dir.files[s] \in Seq(STRING \X Nat) /\ Permutes(order, n)
    BY <2>1, CheckpointAssumption
  <2>3. n \in Nat /\ DOMAIN dir.files[s] = 1..n
    BY <2>2
  <2> HIDE DEF n
  <2>4. pending' = [i \in 1..n |-> <<s, order[i]>>]
    BY <1>1, <2>3 DEF InFile
  <2>5. \A i \in 1..n : order[i] \in 1..n
    BY <2>2 DEF Permutes
  <2>6. \A i \in 1..n : pending'[i] = <<s, order[i]>> /\ pending'[i] \in {s} \X (1..n)
    BY <2>4, <2>5
  <2>7. {s} \X (1..n) \subseteq Slots(dir)
    BY <2>1, <2>3 DEF Slots
  <2>8. pending' \in Seq(Slots(dir))
    BY <2>3, <2>4, <2>6, <2>7
  <2>9. DOMAIN pending' = 1..n
    BY <2>4
  <2>10. \A i, j \in DOMAIN pending' : pending'[i] = pending'[j] => i = j
    BY <2>2, <2>6, <2>9 DEF Permutes
  <2>11. \A i \in DOMAIN pending' : pending'[i][1] \notin unread'
    BY <1>1, <2>6, <2>9
  <2>12. Range(pending') = {s} \X (1..n)
    <3>1. ASSUME NEW p \in {s} \X (1..n) PROVE p \in Range(pending')
      <4>1. PICK i \in 1..n : order[i] = p[2]
        BY <2>2 DEF Permutes
      <4>2. p = <<s, order[i]>>
        BY <4>1
      <4> QED BY <4>2, <2>6, <2>9 DEF Range
    <3>2. Range(pending') \subseteq {s} \X (1..n)
      BY <2>6, <2>9 DEF Range
    <3> QED BY <3>1, <3>2
  <2>13. Ahead' = Ahead
    <3>1. Range(pending) = {}
      BY <1>1 DEF Range
    <3>2. Ahead = UNION {{t} \X DOMAIN dir.files[t] : t \in unread}
      BY <3>1 DEF Ahead
    <3>3. Ahead' = ({s} \X DOMAIN dir.files[s]) \cup UNION {{t} \X DOMAIN dir.files[t] : t \in unread \ {s}}
      BY <1>1, <2>3, <2>12 DEF Ahead
    <3> QED BY <3>2, <3>3
  <2>14. Behind' = Behind
    BY <1>1, <2>13 DEF Behind
  <2>15. LoaderTypes'
    BY <1>1, <1>3, <2>1, <2>8 DEF LoaderInv, LoaderTypes, Hf, Working
  <2>16. Visiting'
    BY <1>1, <1>3, <2>10, <2>11, <2>14 DEF LoaderInv, Visiting, Hf
  <2>17. \A m : Wanted(m)' = Wanted(m)
    BY <1>1 DEF Wanted, Prepared
  <2>18. Visited' /\ Contents' /\ LoadedWhole' /\ Judged'
    BY <1>1, <1>3, <2>17 DEF LoaderInv, Visited, Contents, LoadedWhole, Judged, Hf, Working
  <2> QED BY <2>15, <2>16, <2>18 DEF LoaderInv
<1> QED BY <1>2, <1>3

\* Visiting the next slot takes it from those ahead.
LEMMA SlotVisited ==
    ASSUME LoaderInv, Hf, loading = "loading", pending # <<>>,
           pending' = Tail(pending), UNCHANGED <<dir, unread>>, NEW p, p = Head(pending)
    PROVE  /\ p \in Slots(dir) /\ p \notin Behind
           /\ pending' \in Seq(Slots(dir))
           /\ \A i, j \in DOMAIN pending' : pending'[i] = pending'[j] => i = j
           /\ \A i \in DOMAIN pending' : pending'[i][1] \notin unread'
           /\ Behind' = Behind \cup ({p} \cap KnownSlots(dir))
<1>1. pending \in Seq(Slots(dir)) /\ unread \subseteq WeightFiles(dir)
  BY DEF LoaderInv, LoaderTypes
<1>2. /\ \A i, j \in DOMAIN pending : pending[i] = pending[j] => i = j
      /\ \A i \in DOMAIN pending : pending[i][1] \notin unread
  BY DEF LoaderInv, Visiting
<1> DEFINE n == Len(pending)
<1>3. n \in Nat \ {0} /\ DOMAIN pending = 1..n /\ p = pending[1] /\ p \in Slots(dir)
  BY <1>1
<1>4. /\ pending' \in Seq(Slots(dir)) /\ Len(pending') = n - 1 /\ DOMAIN pending' = 1..(n - 1)
      /\ \A i \in 1..(n - 1) : pending'[i] = pending[i + 1]
  BY <1>1, <1>3
<1> HIDE DEF n
<1>5. \A i, j \in DOMAIN pending' : pending'[i] = pending'[j] => i = j
  BY <1>2, <1>3, <1>4
<1>6. \A i \in DOMAIN pending' : pending'[i][1] \notin unread'
  BY <1>2, <1>3, <1>4
<1>7. Range(pending') = Range(pending) \ {p}
  <2>1. ASSUME NEW x \in Range(pending') PROVE x \in Range(pending) \ {p}
    <3>1. PICK i \in 1..(n - 1) : x = pending[i + 1]
      BY <1>4, <2>1 DEF Range
    <3>2. i + 1 \in 1..n /\ i + 1 # 1
      BY <1>3
    <3> QED BY <1>2, <1>3, <3>1, <3>2 DEF Range
  <2>2. ASSUME NEW x \in Range(pending) \ {p} PROVE x \in Range(pending')
    <3>1. PICK i \in 1..n : x = pending[i]
      BY <1>3 DEF Range
    <3>2. i # 1
      BY <1>3, <3>1
    <3>3. i - 1 \in 1..(n - 1) /\ pending'[i - 1] = x
      BY <1>3, <1>4, <3>1, <3>2
    <3> QED BY <1>4, <3>3 DEF Range
  <2> QED BY <2>1, <2>2
<1>8. p \in Range(pending)
  BY <1>3 DEF Range
<1>9. \A s \in unread : p \notin {s} \X DOMAIN dir.files[s]
  BY <1>2, <1>3
<1>10. Ahead' = Ahead \ {p} /\ p \in Ahead
  BY <1>7, <1>8, <1>9 DEF Ahead
<1>11. p \notin Behind /\ Behind' = Behind \cup ({p} \cap KnownSlots(dir))
  BY <1>10 DEF Behind
<1> QED BY <1>3, <1>4, <1>5, <1>6, <1>11

LEMMA LoadTensorKeeps == ASSUME LoaderInv, LoadTensor PROVE LoaderInv'
<1> DEFINE p == Head(pending)
           n == NameAt(dir, p)
<1>1. /\ Hf /\ loading = "loading" /\ pending # <<>> /\ pending' = Tail(pending)
      /\ UNCHANGED <<dir, report, loading, execution, unread, weights>>
  BY DEF LoadTensor, Hf
<1>2. dir \in Directories /\ HfAccepts(dir.config) /\ Discovered(dir) /\ execution \in Executions(dir)
  BY <1>1 DEF LoaderInv, LoaderTypes, Working
<1>3. Names(execution) = Names(dir.config)
  BY <1>2, SameGeometry
<1>4. \/ n \notin Names(dir.config) /\ UNCHANGED tensors
      \/ /\ n \in Names(dir.config) /\ ShardTensorFits(dir, n)
         /\ Uploaded(n, Shape(execution, n), execution.dtype, Prepared(dir, n))
  BY <1>3 DEF LoadTensor, ThisTensor
<1> HIDE DEF n
<1>5. /\ p \in Slots(dir) /\ p \notin Behind
      /\ pending' \in Seq(Slots(dir))
      /\ \A i, j \in DOMAIN pending' : pending'[i] = pending'[j] => i = j
      /\ \A i \in DOMAIN pending' : pending'[i][1] \notin unread'
      /\ Behind' = Behind \cup ({p} \cap KnownSlots(dir))
  BY <1>1, SlotVisited
<1> HIDE DEF p
<1>6. LoaderTypes'
  BY <1>1, <1>5 DEF LoaderInv, LoaderTypes, Hf, Working
<1>7. \A m : Wanted(m)' = Wanted(m)
  BY <1>1 DEF Wanted, Prepared
<1>8. Visited' /\ LoadedWhole' /\ Judged'
  BY <1>1 DEF Visited, LoadedWhole, LoaderInv, Judged, Hf, Working
<1>9. /\ DOMAIN tensors = {NameAt(dir, q) : q \in Behind}
      /\ Declared(dir, Behind) /\ Apart(dir, Behind)
      /\ \A m \in DOMAIN tensors :
           tensors[m] = [shape |-> Shape(execution, m), dtype |-> execution.dtype, words |-> Wanted(m)]
  BY <1>1 DEF LoaderInv, Visiting, Contents, Working
<1>10. CASE n \notin Names(dir.config) /\ UNCHANGED tensors
  <2>1. Behind' = Behind
    BY <1>5, <1>10 DEF KnownSlots, n
  <2>2. Visiting'
    <3>1. DOMAIN tensors' = {NameAt(dir', q) : q \in Behind'}
      BY <1>1, <1>9, <1>10, <2>1
    <3>2. Declared(dir', Behind') /\ Apart(dir', Behind')
      BY <1>1, <1>9, <2>1
    <3> QED BY <1>5, <3>1, <3>2 DEF Visiting
  <2>3. Contents'
    BY <1>1, <1>7, <1>9, <1>10 DEF Contents, Hf, Working
  <2> QED BY <1>6, <1>8, <2>2, <2>3 DEF LoaderInv
<1>11. CASE /\ n \in Names(dir.config) /\ ShardTensorFits(dir, n)
            /\ Uploaded(n, Shape(execution, n), execution.dtype, Prepared(dir, n))
  <2>1. p \in KnownSlots(dir) /\ n \in Found(dir)
    BY <1>5, <1>11 DEF KnownSlots, Found, n
  <2>2. Behind' = Behind \cup {p}
    BY <1>5, <2>1
  <2>3. StoredAsDeclared(dir, n) /\ n \notin DOMAIN tensors
    BY <1>2, <1>11, FitsIs
  <2>4. tensors' = [m \in DOMAIN tensors \cup {n} |->
                      IF m = n THEN [shape |-> Shape(execution, n), dtype |-> execution.dtype,
                                     words |-> Prepared(dir, n)]
                      ELSE tensors[m]]
    BY <1>11 DEF Uploaded
  <2>5. Wanted(n) = Prepared(dir, n)
    BY <2>1 DEF Wanted
  <2>6. DOMAIN tensors' = {NameAt(dir, q) : q \in Behind'}
    BY <1>9, <2>2, <2>4 DEF n
  <2>7. Declared(dir, Behind')
    BY <1>9, <2>2, <2>3 DEF Declared, n
  <2>8. Apart(dir, Behind')
    <3>1. \A q \in Behind : NameAt(dir, q) # NameAt(dir, p)
      BY <1>9, <2>3 DEF n
    <3> QED BY <1>9, <2>2, <3>1 DEF Apart
  <2>9. Visiting'
    BY <1>1, <1>5, <2>6, <2>7, <2>8 DEF Visiting, Hf
  <2>10. Contents'
    <3>1. \A m \in DOMAIN tensors' :
            tensors'[m] = [shape |-> Shape(execution, m), dtype |-> execution.dtype, words |-> Wanted(m)]
      BY <1>9, <2>4, <2>5
    <3> QED BY <1>1, <1>7, <3>1 DEF Contents
  <2> QED BY <1>6, <1>8, <2>9, <2>10 DEF LoaderInv
<1> QED BY <1>4, <1>10, <1>11

\* What the manifest loads is its own business.
LEMMA ManifestKeeps == ASSUME LoaderInv, BeginManifest \/ LoadEntry PROVE LoaderInv'
<1>1. ~Hf /\ dir' = dir /\ report' = report
  BY DEF BeginManifest, LoadEntry, Ends, Hf
<1> QED
  BY <1>1 DEF LoaderInv, LoaderTypes, Visiting, Visited, Contents, LoadedWhole, Judged, Hf

\* A tensor that the loader refuses is one the preflight refuses.
LEMMA TensorEndsKeeps == ASSUME LoaderInv, TensorEnds PROVE LoaderInv'
<1>1. CASE Ends("failed")
  BY <1>1, EndsKeeps
<1>2. CASE ~Ends("failed")
  <2>1. /\ loading = "loading" /\ pending # <<>> /\ Ends("refused")
        /\ Hf => ThisTensor \in Names(execution) /\ ~ShardTensorFits(dir, ThisTensor)
    BY <1>2 DEF TensorEnds, Hf
  <2>2. ASSUME Hf PROVE ~Passes(dir)
    <3> DEFINE p == Head(pending)
               n == NameAt(dir, p)
    <3>1. dir \in Directories /\ HfAccepts(dir.config) /\ execution \in Executions(dir)
          /\ pending \in Seq(Slots(dir))
      BY <2>1, <2>2 DEF LoaderInv, LoaderTypes, Working
    <3>2. p \in Slots(dir) /\ p \in Ahead
      BY <2>1, <3>1 DEF Ahead, Range
    <3>3. n \in Names(dir.config) /\ ~ShardTensorFits(dir, n)
      BY <2>1, <2>2, <3>1, SameGeometry DEF ThisTensor
    <3>4. p \in KnownSlots(dir) /\ p \notin Behind
      BY <3>2, <3>3 DEF KnownSlots, Behind
    <3>5. CASE ~StoredAsDeclared(dir, n)
      BY <3>4, <3>5 DEF Passes, Declared
    <3>6. CASE n \in DOMAIN tensors
      <4>1. PICK q \in Behind : NameAt(dir, q) = n
        BY <2>1, <2>2, <3>6 DEF LoaderInv, Visiting
      <4>2. q \in KnownSlots(dir) /\ q # p
        BY <3>4 DEF Behind
      <4> QED BY <3>4, <4>1, <4>2 DEF Passes, Apart
    <3> QED BY <3>1, <3>3, <3>5, <3>6, FitsIs
  <2> QED BY <2>1, <2>2, EndsKeeps
<1> QED BY <1>1, <1>2

LEMMA FilesReadKeeps == ASSUME LoaderInv, FilesRead PROVE LoaderInv'
<1>1. /\ loading = "loading" /\ pending = <<>> /\ unread = {}
      /\ loading' = IF dir.kind = "hf" /\ NeedsTied THEN "tying" ELSE "building"
      /\ UNCHANGED <<dir, report, execution, unread, pending, tensors, weights>>
  BY DEF FilesRead
<1>2. CASE ~Hf
  BY <1>1, <1>2 DEF LoaderInv, LoaderTypes, Visiting, Visited, Contents, LoadedWhole, Judged, Hf
<1>3. CASE Hf
  <2>1. dir \in Directories /\ execution \in Executions(dir)
    BY <1>1, <1>3 DEF LoaderInv, LoaderTypes, Working
  <2>2. execution.tied = dir.config.tied /\ dir.config.tied \in BOOLEAN
    BY <2>1, SameGeometry, CheckpointAssumption DEF Configs
  <2>3. Behind = KnownSlots(dir)
    BY <1>1 DEF Behind, Ahead, Range
  <2>4. DOMAIN tensors = Found(dir) /\ Declared(dir, KnownSlots(dir)) /\ Apart(dir, KnownSlots(dir))
    BY <1>1, <1>3, <2>3 DEF LoaderInv, Visiting, Found
  <2>5. loading' = IF dir.config.tied /\ Head0 \notin Found(dir) THEN "tying" ELSE "building"
    BY <1>1, <1>3, <2>2, <2>4 DEF NeedsTied, Hf
  <2>6. LoaderTypes'
    BY <1>1, <1>3, <2>5 DEF LoaderInv, LoaderTypes, Hf, Working
  <2>7. Visiting' /\ LoadedWhole' /\ Judged'
    BY <1>1, <1>3, <2>5 DEF LoaderInv, Visiting, LoadedWhole, Judged, Hf
  <2>8. Visited'
    BY <1>1, <1>3, <2>4, <2>5 DEF Visited, Hf
  <2>9. \A m : Wanted(m)' = Wanted(m)
    BY <1>1 DEF Wanted, Prepared
  <2>10. Contents'
    BY <1>1, <1>3, <2>5, <2>9 DEF LoaderInv, Contents, Hf, Working
  <2> QED BY <2>6, <2>7, <2>8, <2>10 DEF LoaderInv
<1> QED BY <1>2, <1>3

\* The tied head is the embedding, turned.
LEMMA TieHeadKeeps == ASSUME LoaderInv, TieHead PROVE LoaderInv'
<1>1. /\ loading = "tying" /\ loading' = "building" /\ Embedding \in DOMAIN tensors
      /\ Uploaded(Head0, Shape(execution, Head0), tensors[Embedding].dtype,
                  Transpose(tensors[Embedding].words, execution.vocab, execution.hidden))
      /\ UNCHANGED <<dir, report, execution, unread, pending, weights>>
  BY DEF TieHead
<1>2. CASE ~Hf
  BY <1>1, <1>2 DEF LoaderInv, LoaderTypes, Visiting, Visited, Contents, LoadedWhole, Judged, Hf
<1>3. CASE Hf
  <2>1. /\ DOMAIN tensors = Found(dir) /\ dir.config.tied /\ Head0 \notin Found(dir)
        /\ Declared(dir, KnownSlots(dir)) /\ Apart(dir, KnownSlots(dir))
        /\ \A m \in DOMAIN tensors :
             tensors[m] = [shape |-> Shape(execution, m), dtype |-> execution.dtype, words |-> Wanted(m)]
    BY <1>1, <1>3 DEF LoaderInv, Visited, Contents, Working
  <2>2. Embedding # Head0
    BY DEF Embedding, Head0
  <2>3. tensors[Embedding].dtype = execution.dtype /\ tensors[Embedding].words = Prepared(dir, Embedding)
    BY <1>1, <2>1, <2>2 DEF Wanted
  <2>4. tensors' = [m \in DOMAIN tensors \cup {Head0} |->
                      IF m = Head0 THEN [shape |-> Shape(execution, Head0), dtype |-> execution.dtype,
                                         words |-> Wanted(Head0)]
                      ELSE tensors[m]]
    BY <1>1, <2>1, <2>3 DEF Uploaded, Wanted
  <2>5. LoaderTypes'
    BY <1>1, <1>3 DEF LoaderInv, LoaderTypes, Hf, Working
  <2>6. Visiting' /\ LoadedWhole' /\ Judged'
    BY <1>1, <1>3 DEF LoaderInv, Visiting, LoadedWhole, Judged, Hf
  <2>7. Visited'
    BY <1>1, <1>3, <2>1, <2>4 DEF Visited, Hf
  <2>8. \A m : Wanted(m)' = Wanted(m)
    BY <1>1 DEF Wanted, Prepared
  <2>9. \A m \in DOMAIN tensors' :
          tensors'[m] = [shape |-> Shape(execution, m), dtype |-> execution.dtype, words |-> Wanted(m)]
    BY <2>1, <2>4
  <2>10. Contents'
    BY <1>1, <2>8, <2>9 DEF Contents
  <2> QED BY <2>5, <2>6, <2>7, <2>10 DEF LoaderInv
<1> QED BY <1>2, <1>3

LEMMA TieEndsKeeps == ASSUME LoaderInv, TieEnds PROVE LoaderInv'
<1>1. CASE Ends("failed")
  BY <1>1, EndsKeeps
<1>2. CASE ~Ends("failed")
  <2>1. loading = "tying" /\ Ends("refused") /\ (Embedding \notin DOMAIN tensors \/ Head0 \in DOMAIN tensors)
    BY <1>2 DEF TieEnds
  <2>2. ASSUME Hf PROVE ~Passes(dir)
    <3>1. DOMAIN tensors = Found(dir) /\ Head0 \notin Found(dir)
      BY <2>1, <2>2 DEF LoaderInv, Visited
    <3>2. Embedding \in Names(dir.config) /\ Embedding # Head0
      BY DEF Names, Embedding, Head0
    <3> QED BY <2>1, <3>1, <3>2 DEF Passes, Complete
  <2> QED BY <2>1, <2>2, EndsKeeps
<1> QED BY <1>1, <1>2

\* What does not assemble is not complete.
LEMMA BuildKeeps == ASSUME LoaderInv, Build PROVE LoaderInv'
<1>1. loading = "building"
  BY DEF Build
<1>2. CASE ~Hf
  <2>1. dir' = dir /\ report' = report
    BY DEF Build, Ends
  <2> QED
    BY <1>2, <2>1 DEF LoaderInv, LoaderTypes, Visiting, Visited, Contents, LoadedWhole, Judged, Hf
<1>3. CASE Hf
  <2>1. /\ dir \in Directories /\ execution \in Executions(dir)
        /\ DOMAIN tensors = Found(dir) \cup (IF dir.config.tied THEN {Head0} ELSE {})
        /\ Declared(dir, KnownSlots(dir)) /\ Apart(dir, KnownSlots(dir))
        /\ \A m \in DOMAIN tensors :
             tensors[m] = [shape |-> Shape(execution, m), dtype |-> execution.dtype, words |-> Wanted(m)]
    BY <1>1, <1>3 DEF LoaderInv, LoaderTypes, Visited, Contents, Working
  <2>2. Names(execution) = Names(dir.config)
    BY <2>1, SameGeometry
  <2>3. Found(dir) \subseteq Names(dir.config) /\ Head0 \in Names(dir.config)
    BY DEF Found, KnownSlots, Names
  <2>4. Complete(dir.config, Found(dir)) <=> DOMAIN tensors = Names(execution)
    BY <2>1, <2>2, <2>3 DEF Complete
  <2>5. Assembles <=> Complete(dir.config, Found(dir))
    <3>1. ASSUME NEW m \in DOMAIN tensors
          PROVE  tensors[m].shape = Shape(execution, m) /\ tensors[m].dtype = execution.dtype
      <4>1. tensors[m] = [shape |-> Shape(execution, m), dtype |-> execution.dtype, words |-> Wanted(m)]
        BY <2>1
      <4> QED BY <4>1
    <3> QED BY <2>4, <3>1 DEF Assembles
  <2>6. CASE ~Assembles
    <3>1. Ends("refused") /\ ~Passes(dir)
      BY <2>5, <2>6 DEF Build, Passes
    <3> QED BY <3>1, EndsKeeps
  <2>7. CASE Assembles
    <3>1. /\ loading' = "loaded" /\ UNCHANGED <<dir, report, execution, unread, pending>>
          /\ weights' = [owner |-> [n \in Names(execution) |-> n],
                         buffer |-> [n \in Names(execution) |->
                                       [dtype |-> tensors[n].dtype, words |-> tensors[n].words]]]
      BY <2>7 DEF Build
    <3>2. LoaderTypes'
      BY <1>1, <1>3, <3>1 DEF LoaderInv, LoaderTypes, Hf, Working
    <3>3. Visiting' /\ Contents' /\ Judged'
      BY <1>1, <1>3, <3>1 DEF LoaderInv, Visiting, Contents, Judged, Hf, Working
    <3>4. Visited'
      BY <2>1, <3>1 DEF Visited
    <3>5. \A n \in Names(execution) : weights'.owner[n] = n /\ weights'.buffer[n].words = Wanted(n)
      <4>1. ASSUME NEW n \in Names(execution) PROVE tensors[n].words = Wanted(n)
        <5>1. n \in DOMAIN tensors
          BY <2>4, <2>5, <2>7
        <5>2. tensors[n] = [shape |-> Shape(execution, n), dtype |-> execution.dtype, words |-> Wanted(n)]
          BY <2>1, <5>1
        <5> QED BY <5>2
      <4> QED BY <3>1, <4>1
    <3>6. \A m : Wanted(m)' = Wanted(m)
      BY <3>1 DEF Wanted, Prepared
    <3>7. LoadedWhole'
      BY <2>5, <2>7, <3>1, <3>5, <3>6 DEF LoadedWhole
    <3> QED BY <3>2, <3>3, <3>4, <3>7 DEF LoaderInv
  <2> QED BY <2>6, <2>7
<1> QED BY <1>2, <1>3

\* A caller's own weights are not the loader's.
LEMMA BuildSharedKeeps == ASSUME LoaderInv, NEW a, NEW b, BuildShared(a, b) PROVE LoaderInv'
<1>1. ~Hf /\ dir' = dir /\ report' = report
  BY DEF BuildShared, Hf
<1> QED
  BY <1>1 DEF LoaderInv, LoaderTypes, Visiting, Visited, Contents, LoadedWhole, Judged, Hf

\* Every step of a model's life keeps the invariant: one case per action of the
\* loader; what happens to loaded weights later leaves the loader's state alone.
LEMMA LoaderStep ==
    LoaderInv /\ [WeightsNext]_<<checkpointVars, storageVars>> => LoaderInv'
<1> SUFFICES ASSUME LoaderInv, [WeightsNext]_<<checkpointVars, storageVars>> PROVE LoaderInv'
  OBVIOUS
<1>1. CASE UNCHANGED checkpointVars
  <2>1. UNCHANGED <<dir, loading, execution, unread, pending, tensors, weights>> /\ report' = report
    BY <1>1 DEF checkpointVars
  <2>2. Judged'
    BY <2>1 DEF LoaderInv, Judged, Hf
  <2> QED BY <2>1, <2>2, LoadUntouched DEF LoaderInv
<1>2. CASE CheckpointNext
  <2>1. CASE Preflight
    BY <2>1, PreflightKeeps
  <2>2. ASSUME NEW asF32 \in BOOLEAN, BeginLoad(asF32) PROVE LoaderInv'
    BY <2>2, BeginLoadKeeps
  <2>3. ASSUME NEW s \in unread, NEW order \in Orders(Len(dir.files[s])), OpenFile(s, order) PROVE LoaderInv'
    BY <2>3, OpenFileKeeps
  <2>4. CASE BeginManifest \/ LoadEntry
    BY <2>4, ManifestKeeps
  <2>5. CASE LoadTensor
    BY <2>5, LoadTensorKeeps
  <2>6. CASE TensorEnds
    BY <2>6, TensorEndsKeeps
  <2>7. CASE FilesRead
    BY <2>7, FilesReadKeeps
  <2>8. CASE TieHead
    BY <2>8, TieHeadKeeps
  <2>9. CASE TieEnds
    BY <2>9, TieEndsKeeps
  <2>10. CASE Build
    BY <2>10, BuildKeeps
  <2>11. ASSUME NEW p \in SharedPairs, BuildShared(p[1], p[2]) PROVE LoaderInv'
    BY <2>11, BuildSharedKeeps
  <2> QED
    BY <1>2, <2>1, <2>2, <2>3, <2>4, <2>5, <2>6, <2>7, <2>8, <2>9, <2>10, <2>11 DEF CheckpointNext
<1> QED BY <1>1, <1>2 DEF WeightsNext, checkpointVars

\* A number of the source in the execution type.
Number(w) == IF dir.config.dtype = execution.dtype THEN w ELSE Widen(w)

\* materialize_host_dtype converts word for word.
LEMMA MaterializeAt ==
    ASSUME NEW words, NEW i \in DOMAIN words
    PROVE  Materialize(words, dir.config.dtype, execution.dtype)[i] = Number(words[i])
  BY DEF Materialize, Number

\* What load_shard uploads for element (r, c) of an a x b weight: a matrix stored
\* (out, in) is read (in, out).
ReadsSource(n, a, b, r, c) ==
  /\ HfShape(execution, n)[2] = (IF Transposed(n) THEN a ELSE b)
  /\ Prepared(dir, n)[(r - 1) * b + c] =
       Number(IF Transposed(n) THEN Content(dir.fill, n, (c - 1) * a + r)
              ELSE Content(dir.fill, n, (r - 1) * b + c))
LEMMA PreparedAt ==
    ASSUME dir \in Directories, execution \in Executions(dir), Hf,
           NEW n, StoredAsDeclared(dir, n),
           NEW a \in Nat, NEW b \in Nat, Shape(execution, n) = <<a, b>>,
           NEW r \in 1..a, NEW c \in 1..b
    PROVE  ReadsSource(n, a, b, r, c)
<1> DEFINE stored == StoredWords(dir, n)
           i == (r - 1) * b + c
<1>1. Reverse(<<a, b>>) = <<b, a>>
  BY DEF Reverse
<1>2. HfShape(execution, n) = IF Transposed(n) THEN <<b, a>> ELSE <<a, b>>
  BY <1>1 DEF HfShape
<1>3. StoredShape(dir, n) = HfShape(execution, n)
  BY SameGeometry DEF StoredAsDeclared
<1>4. CASE Transposed(n)
  <2>1. StoredShape(dir, n) = <<b, a>>
    BY <1>2, <1>3, <1>4
  <2>2. Elements(<<b, a>>) = b * a
    BY DEF Elements
  <2>3. stored = [k \in 1..b * a |-> Content(dir.fill, n, k)]
    BY <2>1, <2>2 DEF StoredWords
  <2> DEFINE turned == Transpose(stored, b, a)
  <2>4. Prepared(dir, n) = Materialize(turned, dir.config.dtype, execution.dtype)
    <3>1. StoredShape(dir, n)[1] = b /\ StoredShape(dir, n)[2] = a
      BY <2>1
    <3> QED BY <1>4, <3>1 DEF Prepared, Hf
  <2> HIDE DEF stored
  <2>5. /\ i \in 1..b * a /\ (c - 1) * a + r \in 1..b * a
        /\ turned[i] = stored[(c - 1) * a + r]
    BY TransposeAt
  <2>6. turned[i] = Content(dir.fill, n, (c - 1) * a + r)
    BY <2>3, <2>5
  <2>7. DOMAIN turned = 1..b * a
    BY DEF Transpose
  <2> HIDE DEF turned, i
  <2>9. Prepared(dir, n)[i] = Number(turned[i])
    BY <2>4, <2>5, <2>7, MaterializeAt
  <2> QED BY <1>2, <1>4, <2>6, <2>9 DEF i, ReadsSource
<1>5. CASE ~Transposed(n)
  <2>1. StoredShape(dir, n) = <<a, b>>
    BY <1>2, <1>3, <1>5
  <2>2. Elements(<<a, b>>) = a * b
    BY DEF Elements
  <2>3. stored = [k \in 1..a * b |-> Content(dir.fill, n, k)]
    BY <2>1, <2>2 DEF StoredWords
  <2>4. Prepared(dir, n) = Materialize(stored, dir.config.dtype, execution.dtype)
    BY <1>5 DEF Prepared, Hf
  <2> HIDE DEF stored
  <2>5. i \in 1..a * b
    BY RowMajor
  <2>6. stored[i] = Content(dir.fill, n, i) /\ DOMAIN stored = 1..a * b
    BY <2>3, <2>5
  <2> HIDE DEF i
  <2>8. Prepared(dir, n)[i] = Number(stored[i])
    BY <2>4, <2>5, <2>6, MaterializeAt
  <2> QED BY <1>2, <1>5, <2>6, <2>8 DEF i, ReadsSource
<1> QED BY <1>4, <1>5

\* The weights that come from a file, and a tied head, which is the embedding's
\* transpose.
LEMMA LoadedRight == ASSUME LoaderInv PROVE LoadedIsSource
<1> SUFFICES ASSUME loading = "loaded", Hf,
                    NEW n \in Names(execution), Len(Shape(execution, n)) = 2,
                    NEW r \in 1..Shape(execution, n)[1], NEW c \in 1..Shape(execution, n)[2]
             PROVE  LET from == IF n = Head0 /\ \A p \in Slots(dir) : NameAt(dir, p) # Head0
                                THEN Embedding ELSE n
                        read(k, j) == Content(dir.fill, from, (k - 1) * HfShape(execution, from)[2] + j)
                    IN  WeightAt(n, r, c) = Number(IF Transposed(n) THEN read(c, r) ELSE read(r, c))
  BY DEF LoadedIsSource, Number, Hf
<1>1. /\ dir \in Directories /\ execution \in Executions(dir) /\ HfAccepts(dir.config)
      /\ Declared(dir, KnownSlots(dir)) /\ Complete(dir.config, Found(dir))
      /\ weights.owner[n] = n /\ weights.buffer[n].words = Wanted(n)
  BY DEF LoaderInv, LoaderTypes, Visited, LoadedWhole
<1>2. PICK a \in Nat, b \in Nat : Shape(execution, n) = <<a, b>>
  <2>1. \/ \E a \in Nat : Shape(execution, n) = <<a>>
        \/ \E a, b \in Nat : Shape(execution, n) = <<a, b>>
    BY <1>1, ShapeTyped
  <2>2. \A a \in Nat : Shape(execution, n) # <<a>>
    OBVIOUS
  <2> QED BY <2>1, <2>2
<1>3. r \in 1..a /\ c \in 1..b /\ Shape(execution, n)[2] = b
  BY <1>2
<1>4. WeightAt(n, r, c) = Wanted(n)[(r - 1) * b + c]
  BY <1>1, <1>3 DEF WeightAt
<1>5. ASSUME NEW m \in Found(dir) PROVE StoredAsDeclared(dir, m)
  BY <1>1, <1>5 DEF Found, Declared
<1>6. Names(execution) = Names(dir.config)
  BY <1>1, SameGeometry
<1>7. Head0 \in Found(dir) <=> \E p \in Slots(dir) : NameAt(dir, p) = Head0
  BY DEF Found, KnownSlots, Names
<1>8. CASE n \in Found(dir)
  <2>1. Wanted(n) = Prepared(dir, n)
    BY <1>8 DEF Wanted
  <2>2. ~(n = Head0 /\ \A p \in Slots(dir) : NameAt(dir, p) # Head0)
    BY <1>7, <1>8
  <2>3. /\ HfShape(execution, n)[2] = (IF Transposed(n) THEN a ELSE b)
        /\ Prepared(dir, n)[(r - 1) * b + c] =
             Number(IF Transposed(n) THEN Content(dir.fill, n, (c - 1) * a + r)
                    ELSE Content(dir.fill, n, (r - 1) * b + c))
    <3>1. StoredAsDeclared(dir, n)
      BY <1>5, <1>8
    <3>2. ReadsSource(n, a, b, r, c)
      BY <1>1, <1>2, <1>3, <3>1, PreparedAt
    <3> QED BY <3>2 DEF ReadsSource
  <2> QED BY <1>4, <2>1, <2>2, <2>3
<1>9. CASE n \notin Found(dir)
  <2>1. n = Head0 /\ Embedding \in Found(dir) /\ Embedding # Head0 /\ Head0 \notin Found(dir)
    <3>1. Embedding \in Names(dir.config) /\ Embedding # Head0
      BY DEF Names, Embedding, Head0
    <3> QED BY <1>1, <1>6, <1>9, <3>1 DEF Complete
  <2>2. /\ Shape(execution, Embedding) = <<execution.vocab, execution.hidden>>
        /\ Shape(execution, Head0) = <<execution.hidden, execution.vocab>>
        /\ ~Transposed(Embedding) /\ Transposed(Head0)
    BY DEF Shape, Embedding, Head0, Norms, Transposed
  <2>3. a = execution.hidden /\ b = execution.vocab
    BY <1>2, <2>1, <2>2
  <2>4. Wanted(n)[(r - 1) * b + c] = Prepared(dir, Embedding)[(c - 1) * a + r]
    BY <1>3, <2>1, <2>3, TransposeAt DEF Wanted
  <2>5. /\ HfShape(execution, Embedding)[2] = a
        /\ Prepared(dir, Embedding)[(c - 1) * a + r] = Number(Content(dir.fill, Embedding, (c - 1) * a + r))
    <3> DEFINE vocab == execution.vocab
               hidden == execution.hidden
               e == Embedding
    <3>1. StoredAsDeclared(dir, e)
      BY <1>5, <2>1
    <3>2. vocab \in Nat /\ hidden \in Nat /\ c \in 1..vocab /\ r \in 1..hidden
      BY <1>3, <2>3
    <3>3. Shape(execution, e) = <<vocab, hidden>> /\ ~Transposed(e)
      BY <2>2
    <3> HIDE DEF vocab, hidden, e
    <3>4. ReadsSource(e, vocab, hidden, c, r)
      BY <1>1, <3>1, <3>2, <3>3, PreparedAt
    <3> QED BY <2>3, <3>3, <3>4 DEF vocab, hidden, e, ReadsSource
  <2> QED BY <1>4, <1>7, <2>1, <2>2, <2>4, <2>5
<1> QED BY <1>8, <1>9

\* The preflight accepts what the loader would load, and refuses what it refuses.
LEMMA ReadersAgree == ASSUME LoaderInv PROVE PreflightAgrees
<1>1. Hf /\ loading = "loaded" => Passes(dir)
  BY ReadersAccept DEF LoaderInv, LoaderTypes, Visited, LoadedWhole, Passes
<1> QED
  BY <1>1 DEF LoaderInv, Judged, PreflightAgrees

LEMMA LoaderInvariant == WeightsSpec => []LoaderInv
<1>1. WeightsInit => LoaderInv
  BY LoaderStarts DEF WeightsInit
<1> QED
  BY <1>1, LoaderStep, PTL DEF WeightsSpec

\* safetensors_loader.rs:455-460 and 734-746: for any geometry, checkpoint and order
\* of its tensors, and whatever later happens to the weights, a loaded projection
\* maps in to out as the checkpoint's (out, in) matrix does, number for number, and
\* a tied head reads the embedding.
THEOREM LoadedHolds == WeightsSpec => []LoadedIsSource
  BY LoaderInvariant, LoadedRight, PTL

\* nnis-hf.rs:17: for any checkpoint, the preflight on the host and the loader accept
\* the same directories.
THEOREM PreflightHolds == WeightsSpec => []PreflightAgrees
  BY LoaderInvariant, ReadersAgree, PTL

=============================================================================
