--------------------------- MODULE PortableEvidence ----------------------------
(***************************************************************************)
(* Evidence of a portable backend: the integer oracle that judges the host *)
(* (nnis-cpu evidence/oracle.rs), the qualification suites and the records *)
(* they are written to (nnis-cpu and nnis-wgpu evidence, nnis-core         *)
(* adapter_evidence.rs and host_evidence.rs), the command that runs and    *)
(* reviews them (nnis-cli evidence.rs), and the preregistered campaigns of *)
(* nnis-core dsv41_campaign.rs.                                            *)
(*                                                                         *)
(* The oracle has floats of OracleBits mantissa bits, its constants scaled *)
(* with them.  A text is one of a few shapes: "text" and the named ones    *)
(* are canonical, "padded" has spaces around it, "control" a control       *)
(* character inside, "blank" only spaces; "marker" names a software        *)
(* adapter, "native" the architecture of this build.                       *)
(***************************************************************************)
EXTENDS Integers, Sequences, FiniteSets, SequencesExt

CONSTANTS
  OracleBits,      \* bits of a mantissa: 24 in the code
  LowestExponent,  \* of the last bit of a subnormal: -149
  InfiniteBiased,  \* biased exponent of infinity: 255
  StickyGap,       \* orders below which a term only is a sticky bit: 60
  OracleInputs,    \* magnitudes the oracle is asked about
  ReplayRows,      \* bound: rows of the replay suite's source, 16 in the code
  CommandLines,    \* arguments of nnis evidence
  AdapterReports,  \* what discovery may report of an adapter
  MaxSuites,       \* MAX_EVIDENCE_SUITES
  Registrations    \* fields offered as a campaign's preregistration

ASSUME OracleAssumption ==
  /\ OracleBits \in Nat \ {0, 1} /\ LowestExponent \in Int /\ InfiniteBiased \in Nat \ {0, 1}
  /\ StickyGap >= 2 * OracleBits + 1
  /\ OracleInputs \subseteq 0..InfiniteBiased * 2^(OracleBits - 1) - 1

VARIABLES
  judged,     \* what the oracle was asked and answered, or the idle record
  qualified,  \* a run of the suites: its input, record, verdict and exit status
  reviewed,   \* nnis evidence validate: the record read and what came of it
  registered, \* a campaign's preregistration, or the idle record
  submitted   \* evidence validated for it

evidenceVars == <<judged, qualified, reviewed, registered, submitted>>
Idle == [operation |-> "none"]
EvidenceInit ==
  judged = Idle /\ qualified = Idle /\ reviewed = Idle /\ registered = Idle /\ submitted = Idle

-----------------------------------------------------------------------------
(* The oracle: (-1)^negative * mantissa * 2^exponent, rounded once.        *)

HiddenBit == 2^(OracleBits - 1)
InfinityBits == InfiniteBiased * HiddenBit
BitLength(n) == Cardinality({k \in 0..StickyGap + 2 * OracleBits + 4 : 2^k <= n})
ExactOf(f) ==
  LET biased == f.bits \div HiddenBit
      fraction == f.bits % HiddenBit
  IN IF biased = 0 THEN [negative |-> f.negative, mantissa |-> fraction, exponent |-> LowestExponent]
     ELSE [negative |-> f.negative, mantissa |-> fraction + HiddenBit, exponent |-> LowestExponent + biased - 1]

\* mantissa / 2^shift to the nearest integer, ties to even.
Quotient(mantissa, shift) ==
  IF shift <= 0 THEN mantissa * 2^(-shift)
  ELSE LET quotient == mantissa \div 2^shift
           remainder == mantissa % 2^shift
           half == 2^(shift - 1)
       IN IF remainder > half \/ (remainder = half /\ quotient % 2 = 1) THEN quotient + 1 ELSE quotient

\* The magnitude of a value that is not zero: a carry out of the mantissa moves
\* to the next exponent, a subnormal's to the smallest normal.
RoundedBits(v) ==
  LET top == v.exponent + BitLength(v.mantissa) - 1
      normal == top >= LowestExponent + OracleBits - 1
      shift == IF normal THEN BitLength(v.mantissa) - OracleBits ELSE LowestExponent - v.exponent
      quotient == Quotient(v.mantissa, shift)
      carry == quotient = 2 * HiddenBit
      biased == top - LowestExponent - OracleBits + 2 + IF carry THEN 1 ELSE 0
      mantissa == IF carry THEN quotient \div 2 ELSE quotient
  IN IF ~normal THEN quotient
     ELSE IF biased >= InfiniteBiased THEN InfinityBits
     ELSE biased * HiddenBit + (mantissa % HiddenBit)
RoundExact(v) == [negative |-> v.negative, bits |-> IF v.mantissa = 0 THEN 0 ELSE RoundedBits(v)]

ProductExact(x, y) ==
  [negative |-> x.negative # y.negative, mantissa |-> x.mantissa * y.mantissa, exponent |-> x.exponent + y.exponent]
Top(v) == v.exponent + BitLength(v.mantissa)
\* A term too far below the other to meet its last bit becomes a one below it.
StickyLost(tiny, big) ==
  IF Top(tiny) < Top(big) - StickyGap
  THEN [negative |-> tiny.negative, mantissa |-> 0, exponent |-> Top(big)]
  ELSE tiny
Sticky(tiny, big) ==
  IF Top(tiny) < Top(big) - StickyGap
  THEN [negative |-> tiny.negative, mantissa |-> 1, exponent |-> Top(big) - StickyGap - 1]
  ELSE tiny
SumExact(x, y) ==
  IF x.mantissa = 0 /\ y.mantissa = 0
  THEN [negative |-> x.negative /\ y.negative, mantissa |-> 0, exponent |-> 0]
  ELSE IF y.mantissa = 0 THEN x
  ELSE IF x.mantissa = 0 THEN y
  ELSE LET left == Sticky(x, y)
           right == Sticky(y, x)
           exponent == IF left.exponent < right.exponent THEN left.exponent ELSE right.exponent
           signed(v) == (IF v.negative THEN -1 ELSE 1) * v.mantissa * 2^(v.exponent - exponent)
           total == signed(left) + signed(right)
       IN [negative |-> total < 0, mantissa |-> IF total < 0 THEN -total ELSE total, exponent |-> exponent]

OracleAdd(x, y) == RoundExact(SumExact(ExactOf(x), ExactOf(y)))
OracleMultiply(x, y) == RoundExact(ProductExact(ExactOf(x), ExactOf(y)))
OracleFused(x, w, accumulator) == RoundExact(SumExact(ProductExact(ExactOf(x), ExactOf(w)), ExactOf(accumulator)))
OracleRelu(x) == IF x.negative \/ x.bits = 0 THEN [negative |-> FALSE, bits |-> 0] ELSE x
\* FP4 E2M1 magnitudes in halves: 0, 1/2, 1, 3/2, 2, 3, 4, 6.
Fp4Halves == <<0, 1, 2, 3, 4, 6, 8, 12>>
OracleFp4(code, scale) ==
  RoundExact([negative |-> code >= 8, mantissa |-> Fp4Halves[(code % 8) + 1] * ExactOf(scale).mantissa,
              exponent |-> ExactOf(scale).exponent - 1])

OracleFloats == [negative : BOOLEAN, bits : OracleInputs]
AskOracle(question, answer) ==
  /\ judged = Idle
  /\ judged' = question @@ [answer |-> answer]
  /\ UNCHANGED <<qualified, reviewed, registered, submitted>>
AskAdd(x, y) == AskOracle([operation |-> "add", x |-> x, y |-> y], OracleAdd(x, y))
AskMultiply(x, y) == AskOracle([operation |-> "multiply", x |-> x, y |-> y], OracleMultiply(x, y))
AskFused(x, y, z) == AskOracle([operation |-> "fused", x |-> x, y |-> y, z |-> z], OracleFused(x, y, z))
AskRelu(x) == AskOracle([operation |-> "relu", x |-> x], OracleRelu(x))
AskFp4(code, scale) == AskOracle([operation |-> "fp4", code |-> code, x |-> scale], OracleFp4(code, scale))

-----------------------------------------------------------------------------
(* The suites: what each compares, in order.  "bits" compares two slices,  *)
(* "zip" their lengths and then the common part, "each" single values.     *)

Bits(n) == [how |-> "bits", size |-> n]
Paired(n) == [how |-> "zip", size |-> n]
Each(n) == [how |-> "each", size |-> n]

BinaryChecks == <<Bits(2144), Bits(2144)>>
ReluGatherChecks == <<Bits(512), Bits(700)>>
SerialChecks == [i \in 1..8 |-> Bits(1)] \o <<Bits(40)>>
ProjectionChecks == <<Bits(1), Bits(1), Bits(2), Bits(70), Bits(9)>>
CpuGraphChecks == FlattenSeq([i \in 1..5 |-> <<Bits(1), Bits(300), Bits(300)>>])
CpuFp4Checks == <<Bits(255 * 16), Bits(606 * 16)>>
CpuSuites ==
  << [id |-> "f32_binary", checks |-> BinaryChecks], [id |-> "f32_relu_gather", checks |-> ReluGatherChecks],
     [id |-> "f32_serial_accumulation", checks |-> SerialChecks],
     [id |-> "f32_fused_projection", checks |-> ProjectionChecks],
     [id |-> "f32_graph", checks |-> CpuGraphChecks], [id |-> "dsv41_fp4_decode", checks |-> CpuFp4Checks] >>

AddChecks == <<Bits(1), Bits(63), Bits(64), Bits(4097)>>
MemoryChecks == [i \in 1..8 |-> Each(1)]
KernelChecks == <<Bits(1000), Bits(1000), Bits(305), Bits(200), Bits(1), Bits(40), Each(70)>>
GraphChecks == <<Bits(1), Bits(300)>>
\* Every window of a source's rows, six values wide.
ReplayChecks == FlattenSeq([first \in 1..ReplayRows |-> [rows \in 1..ReplayRows - first + 1 |-> Bits(6 * rows)]])
Fp4Checks == <<Bits(255 * 16), Bits(605 * 16)>>
SpeculativeChecks == <<Each(32), Each(32)>>
\* Words of each of the seven banks: after one transform, its statistics, after two.
BankWords == <<2, 4, 16, 32, 192, 640, 2304>>
PvpChecks == FlattenSeq([b \in DOMAIN BankWords |-> <<Paired(BankWords[b]), Each(5), Paired(BankWords[b])>>])
WgpuSuites ==
  << [id |-> "add_f32", checks |-> AddChecks], [id |-> "portable_memory", checks |-> MemoryChecks],
     [id |-> "f32_kernels", checks |-> KernelChecks], [id |-> "f32_graph", checks |-> GraphChecks],
     [id |-> "dsv41_replay_kv", checks |-> ReplayChecks], [id |-> "dsv41_fp4_decode", checks |-> Fp4Checks],
     [id |-> "dsv41_speculative", checks |-> SpeculativeChecks],
     [id |-> "pvp_cross_session", checks |-> PvpChecks] >>

\* What may go wrong in a run: one value of a comparison differs, it is short of
\* one, or the suite ends before it with an error (or a panic), whose text may
\* be cut at a space.
NoFault == [suite |-> 0, at |-> 0, kind |-> "none"]
Faults(suites) ==
  {f \in UNION {[suite : {s}, at : {1, Len(suites[s].checks)}, kind : {"differ", "short", "error", "padded"}] :
                  s \in DOMAIN suites} :
     f.kind = "short" => suites[f.suite].checks[f.at].how # "each"}

\* Tally::bits and Tally::equal, of n expected values, m observed, d of them wrong.
TalliedCommon(t, how, n, m, d) ==
  LET lesser == IF n > m THEN m ELSE n
  IN [checks |-> t.checks + lesser, mismatches |-> t.mismatches + d]
Tallied(t, how, n, m, d) ==
  LET greater == IF n > m THEN n ELSE m
      lesser == IF n > m THEN m ELSE n
      off == IF n = m THEN 0 ELSE 1
  IN CASE how = "bits" -> [checks |-> t.checks + greater,
                           mismatches |-> t.mismatches + IF n = m THEN d ELSE greater]
       [] how = "zip"  -> [checks |-> t.checks + 1 + lesser, mismatches |-> t.mismatches + off + d]
       [] how = "each" -> [checks |-> t.checks + n, mismatches |-> t.mismatches + d]

\* Bound of the model: one comparison of one suite goes wrong.
RunSuite(suite, fault) ==
  LET ended == IF fault.kind \in {"error", "padded"} THEN fault.at - 1 ELSE Len(suite.checks)
      wrong(i, kind) == IF fault.at = i /\ fault.kind = kind THEN 1 ELSE 0
      tally[i \in 0..ended] ==
        IF i = 0 THEN [checks |-> 0, mismatches |-> 0]
        ELSE LET c == suite.checks[i]
             IN Tallied(tally[i - 1], c.how, c.size, c.size - wrong(i, "short"), wrong(i, "differ"))
      t == tally[ended]
      failed == fault.kind \in {"error", "padded"} \/ t.mismatches > 0 \/ t.checks = 0
  IN [id |-> suite.id, outcome |-> IF failed THEN "fail" ELSE "pass", checks |-> t.checks,
      mismatches |-> t.mismatches,
      detail |-> IF ~failed THEN "empty" ELSE IF fault.kind = "padded" THEN "padded" ELSE "text"]
RunSuites(suites, fault) ==
  [i \in DOMAIN suites |-> RunSuite(suites[i], IF fault.suite = i THEN fault ELSE NoFault)]

-----------------------------------------------------------------------------
(* Arguments and identities.  A target is "native" when it names the       *)
(* architecture the suites ran on.                                         *)

CanonicalText(t) == IF t \in {"padded", "control"} THEN "text" ELSE IF t = "blank" THEN "empty" ELSE t
Trimmed(t) == IF t = "padded" THEN "text" ELSE IF t = "blank" THEN "empty" ELSE t
RequiredText(t) == t \notin {"empty", "padded", "control", "blank"}
OptionalText(t) == t = "empty" \/ RequiredText(t)

\* parse_run; the CPU model is an argument of cpu-host only.
CommandParses(c, cpu) ==
  /\ c.commit # "absent" /\ c.clean \in {"true", "false"} /\ c.toolchain # "absent"
  /\ cpu \/ c.model = "absent"
EvidenceSource(c) ==
  [commit |-> c.commit, clean |-> c.clean = "true", toolchain |-> Trimmed(c.toolchain),
   target |-> IF c.target = "absent" THEN "native" ELSE Trimmed(c.target)]
HostIdentity(c) ==
  [arch |-> "native", endian |-> "little", width |-> 64,
   model |-> IF c.model = "absent" THEN "empty" ELSE CanonicalText(c.model)]

ClassifyAdapter(a) ==
  IF a.device = "Cpu" \/ a.name = "marker" \/ a.driver = "marker" THEN "software"
  ELSE IF a.device \in {"DiscreteGpu", "IntegratedGpu", "VirtualGpu"} THEN "hardware" ELSE "unknown"
AdapterIdentity(a) ==
  [name |-> CanonicalText(a.name), driver |-> CanonicalText(a.driver), device |-> a.device, class |-> ClassifyAdapter(a)]

\* A record as its JSON document: "exact" has the members of the schema and no
\* others, each of its type.
HostRecord(c, fault) ==
  [kind |-> "host", schema |-> 1, members |-> "exact", source |-> EvidenceSource(c), host |-> HostIdentity(c),
   suites |-> RunSuites(CpuSuites, fault)]
AdapterRecord(c, a, fault) ==
  [kind |-> "adapter", schema |-> 1, members |-> "exact", source |-> EvidenceSource(c),
   adapter |-> AdapterIdentity(a), suites |-> RunSuites(WgpuSuites, fault)]

-----------------------------------------------------------------------------
(* The validators.                                                         *)

Verdict(name, suites) == [verdict |-> name, suites |-> suites]
RejectedRecord == Verdict("rejected", {})

SourceValid(s) == s.commit = "sha" /\ RequiredText(s.toolchain) /\ RequiredText(s.target)
SuiteValidLoosely(suites, i) ==
  LET s == suites[i]
  IN /\ \A j \in 1..i - 1 : suites[j].id # s.id
     /\ OptionalText(s.detail) /\ s.mismatches <= s.checks
     /\ s.outcome = "pass" => s.checks > 0
SuiteValid(suites, i) ==
  LET s == suites[i]
  IN /\ \A j \in 1..i - 1 : suites[j].id # s.id
     /\ OptionalText(s.detail) /\ s.mismatches <= s.checks
     /\ CASE s.outcome = "pass" -> s.mismatches = 0 /\ s.checks > 0
          [] s.outcome = "skip" -> s.checks = 0 /\ s.mismatches = 0 /\ s.detail # "empty"
          [] s.outcome = "fail" -> s.detail # "empty"
SuitesValid(suites) ==
  suites # <<>> /\ Len(suites) <= MaxSuites /\ \A i \in DOMAIN suites : SuiteValid(suites, i)
\* Failures come first, then what is required and did not pass.
SummarizeSuites(suites, required) ==
  LET having(outcome) == {s.id : s \in {r \in Range(suites) : r.outcome = outcome}}
      wanted == {s.id : s \in Range(required)}
  IN IF having("fail") # {} THEN Verdict("failed", having("fail"))
     ELSE IF ~wanted \subseteq having("pass") THEN Verdict("incomplete", wanted \ having("pass"))
     ELSE Verdict("passed", {})

ValidateHost(r) ==
  IF ~(/\ SourceValid(r.source) /\ OptionalText(r.host.model) /\ r.host.endian \in {"little", "big"}
       /\ r.host.width \in {16, 32, 64} /\ r.source.target = r.host.arch /\ SuitesValid(r.suites))
  THEN RejectedRecord
  ELSE LET s == SummarizeSuites(r.suites, CpuSuites)
       IN IF s.verdict # "passed" THEN s
          ELSE Verdict(IF r.source.clean THEN "observed" ELSE "dirty", {})
ValidateAdapter(r) ==
  LET a == r.adapter
      conflict == a.class = "hardware" /\ (a.device = "Cpu" \/ a.name = "marker" \/ a.driver = "marker")
  IN IF ~(/\ SourceValid(r.source) /\ RequiredText(a.name) /\ OptionalText(a.driver) /\ ~conflict
          /\ SuitesValid(r.suites))
     THEN RejectedRecord
     ELSE LET s == SummarizeSuites(r.suites, WgpuSuites)
          IN IF s.verdict # "passed" THEN s
             ELSE IF ~r.source.clean THEN Verdict("dirty", {})
             ELSE Verdict(CASE a.class = "hardware" -> "observed" [] a.class = "software" -> "code path only"
                            [] a.class = "unknown" -> "unclassified", {})

\* The strict parsers: the schema of the kind they read and nothing else.
HostParses(r) == r.kind = "host" /\ r.schema = 1 /\ r.members = "exact" /\ "host" \in DOMAIN r
AdapterParses(r) == r.kind = "adapter" /\ r.schema = 1 /\ r.members = "exact" /\ "adapter" \in DOMAIN r
ValidateRecordText(r) ==
  IF HostParses(r) THEN ValidateHost(r) ELSE IF AdapterParses(r) THEN ValidateAdapter(r) ELSE RejectedRecord

-----------------------------------------------------------------------------
(* nnis evidence cpu-host, wgpu-adapter, validate.                         *)

\* Exit status, and whether the record was written: an invalid one never is, and
\* a path that cannot be written fails the run.
Finished(c, v) ==
  LET broken == v.verdict = "rejected" \/ c.out = "bad"
  IN [exit |-> IF broken \/ v.verdict = "failed" THEN 1 ELSE 0, written |-> ~broken /\ c.out = "file",
      verdict |-> v.verdict, suites |-> v.suites]
Stopped(status) == [exit |-> status, written |-> FALSE, verdict |-> "none", suites |-> {}]
Qualify(command, c, a, fault, record, end) ==
  /\ qualified' = [operation |-> command, line |-> c, adapter |-> a, fault |-> fault, record |-> record, end |-> end]
  /\ UNCHANGED <<judged, reviewed, registered, submitted>>
NoRecord == [kind |-> "none"]
NoAdapter == [device |-> "none"]

RunCpuHost(c, fault) ==
  /\ qualified = Idle
  /\ IF CommandParses(c, TRUE)
     THEN LET r == HostRecord(c, fault)
          IN Qualify("cpu-host", c, NoAdapter, fault, r, Finished(c, ValidateHost(r)))
     ELSE fault = NoFault /\ Qualify("cpu-host", c, NoAdapter, fault, NoRecord, Stopped(1))
\* Discovery finds an adapter, none (exit status 3), or fails.
RunWgpuAdapter(c, a, fault) ==
  /\ qualified = Idle
  /\ IF CommandParses(c, FALSE) /\ a.device \notin {"none", "error"}
     THEN LET r == AdapterRecord(c, a, fault)
          IN Qualify("wgpu-adapter", c, a, fault, r, Finished(c, ValidateAdapter(r)))
     ELSE /\ fault = NoFault
          /\ Qualify("wgpu-adapter", c, a, fault, NoRecord,
                     Stopped(IF CommandParses(c, FALSE) /\ a.device = "none" THEN 3 ELSE 1))

\* Hands on a written record: one member changed, a suite left out or repeated.
EditedRecords(r, fault) ==
  LET touched == {1, fault.suite} \ {0}
  IN UNION {{[r EXCEPT !.suites[i].outcome = o] : o \in {"pass", "fail", "skip"}}
              \cup {[r EXCEPT !.suites[i].mismatches = n] : n \in 0..1}
              \cup {[r EXCEPT !.suites[i].checks = 0], [r EXCEPT !.suites[i].detail = "empty"],
                    [r EXCEPT !.suites = RemoveAt(@, i)], [r EXCEPT !.suites = Append(@, @[i])]} : i \in touched}
     \cup {[r EXCEPT !.source.clean = TRUE], [r EXCEPT !.source.commit = "other"],
           [r EXCEPT !.source.target = "foreign"], [r EXCEPT !.schema = 2]}
     \cup {[r EXCEPT !.kind = k] : k \in {"host", "adapter", "other"}}
     \cup {[r EXCEPT !.members = m] : m \in {"unknown", "missing", "mistyped"}}
     \cup IF "adapter" \in DOMAIN r THEN {[r EXCEPT !.adapter.class = c] : c \in {"hardware", "software"}}
          ELSE {[r EXCEPT !.host.endian = "middle"], [r EXCEPT !.host.width = 48]}
ValidateFile(r) ==
  /\ qualified # Idle /\ qualified.end.written /\ reviewed = Idle
  /\ reviewed' = [operation |-> "validate", record |-> r, result |-> ValidateRecordText(r)]
  /\ UNCHANGED <<judged, qualified, registered, submitted>>

-----------------------------------------------------------------------------
(* Preregistered campaigns.  Fifty stands for a value that is not finite;  *)
(* a metric may be absent: <<>>.                                           *)

FiniteMetric(x) == x # 50
Increasing(s) == \A i \in 1..Len(s) - 1 : s[i] < s[i + 1]
NotDecreasing(s) == \A i \in 1..Len(s) - 1 : s[i] <= s[i + 1]
LengthsLoose(s) == s # <<>> /\ s[1] # 0 /\ NotDecreasing(s)
LengthsValid(s) == s # <<>> /\ s[1] # 0 /\ Increasing(s)
ArmsValid(arms) ==
  /\ \A i, j \in DOMAIN arms : i # j => arms[i].id # arms[j].id
  /\ \A i \in DOMAIN arms : Increasing(arms[i].primitives)
  /\ Cardinality({i \in DOMAIN arms : arms[i].primitives = <<>>}) = 1
  /\ \E i \in DOMAIN arms : arms[i].primitives # <<>>
PreregistrationValid(f) ==
  /\ f.texts /\ f.prompts > 0 /\ LengthsValid(f.contexts) /\ LengthsValid(f.decodes)
  /\ f.repetitions >= 2 /\ FiniteMetric(f.budget) /\ f.budget >= 0 /\ ArmsValid(f.arms)
RequiredCells(p) == Len(p.arms) * Len(p.contexts) * Len(p.decodes)

LatencyValid(p, l) ==
  /\ l.samples >= p.repetitions
  /\ \A i \in DOMAIN l.times : FiniteMetric(l.times[i]) /\ l.times[i] > 0
  /\ NotDecreasing(l.times)
CellValid(p, c) ==
  /\ c.repetitions = p.repetitions
  /\ c.quality # <<>> /\ FiniteMetric(c.quality[1])
  /\ c.metric = <<p.metric>>
  /\ c.bytes # <<>> /\ c.bytes[1] # 0
  /\ c.latency # <<>> /\ LatencyValid(p, c.latency[1])
  /\ c.rate # <<>> /\ FiniteMetric(c.rate[1]) /\ c.rate[1] > 0
Matching(p, e, arm, context, decode) ==
  {i \in DOMAIN e.cells : /\ e.cells[i].arm = p.arms[arm].id /\ e.cells[i].context = p.contexts[context]
                          /\ e.cells[i].decode = p.decodes[decode]}
CellsCounted(p, e) ==
  /\ Len(e.cells) = RequiredCells(p)
  /\ \A i \in DOMAIN e.cells : CellValid(p, e.cells[i])
CellsComplete(p, e) ==
  /\ Len(e.cells) = RequiredCells(p)
  /\ \A a \in DOMAIN p.arms, c \in DOMAIN p.contexts, d \in DOMAIN p.decodes :
       /\ Cardinality(Matching(p, e, a, c, d)) = 1
       /\ \A i \in Matching(p, e, a, c, d) : CellValid(p, e.cells[i])
StructureValid(p, e) ==
  /\ e.campaign = p.campaign /\ e.head /\ e.clean /\ e.ci # 0 /\ e.green /\ e.backend = p.backend /\ e.texts
  /\ CellsComplete(p, e)
EvidenceValid(p, e) == StructureValid(p, e) /\ e.record = "physical"

\* preregistration_to_json, evidence_to_json: numbers that are not finite are
\* refused; what is written is read back as it was, absent metrics as null.
EncodesEvidence(e) ==
  \A i \in DOMAIN e.cells :
    LET c == e.cells[i]
        times == IF c.latency = <<>> THEN <<>> ELSE c.latency[1].times
    IN \A s \in {c.quality, c.rate, times} : \A k \in DOMAIN s : FiniteMetric(s[k])
EncodesPreregistration(p) == FiniteMetric(p.budget)

Preregister(f) ==
  /\ registered = Idle /\ PreregistrationValid(f)
  /\ registered' = [operation |-> "registered", fields |-> f]
  /\ UNCHANGED <<judged, qualified, reviewed, submitted>>
SubmitEvidence(e) ==
  /\ registered # Idle /\ submitted = Idle
  /\ submitted' = [operation |-> "submitted", evidence |-> e, accepted |-> EvidenceValid(registered.fields, e),
                   encoded |-> EncodesEvidence(e)]
  /\ UNCHANGED <<judged, qualified, reviewed, registered>>

\* What a campaign may hand in: all that p asks for, or one thing otherwise.
CompleteCell(p, i) ==
  LET decodes == Len(p.decodes)
      contexts == Len(p.contexts)
  IN [arm |-> p.arms[((i - 1) \div (contexts * decodes)) + 1].id,
      context |-> p.contexts[(((i - 1) \div decodes) % contexts) + 1],
      decode |-> p.decodes[((i - 1) % decodes) + 1], repetitions |-> p.repetitions, quality |-> <<1>>,
      metric |-> <<p.metric>>, bytes |-> <<1>>,
      latency |-> <<[samples |-> p.repetitions, times |-> <<1, 1, 2, 3>>]>>, rate |-> <<1>>]
CompleteEvidence(p) ==
  [record |-> "physical", campaign |-> p.campaign, head |-> TRUE, clean |-> TRUE, ci |-> 1, green |-> TRUE,
   backend |-> p.backend, texts |-> TRUE, cells |-> [i \in 1..RequiredCells(p) |-> CompleteCell(p, i)]]
Latencies(p) ==
  {[samples |-> p.repetitions - 1, times |-> <<1, 1, 2, 3>>]}
    \cup {[samples |-> p.repetitions, times |-> t] : t \in {<<1, 2, 1, 3>>, <<0, 1, 1, 1>>, <<1, 1, 1, 50>>}}
Submissions(p) ==
  LET e == CompleteEvidence(p)
      cells == DOMAIN e.cells
  IN {e} \cup {[e EXCEPT !.record = "synthetic"], [e EXCEPT !.campaign = "other"], [e EXCEPT !.head = FALSE],
               [e EXCEPT !.clean = FALSE], [e EXCEPT !.ci = 0], [e EXCEPT !.green = FALSE],
               [e EXCEPT !.backend = "other"], [e EXCEPT !.texts = FALSE], [e EXCEPT !.cells = Append(@, @[1])]}
       \cup {[e EXCEPT !.cells = RemoveAt(@, i)] : i \in cells}
       \cup {[e EXCEPT !.cells[i] = e.cells[j]] : i, j \in cells}
       \cup UNION {{[e EXCEPT !.cells[i].arm = "other"], [e EXCEPT !.cells[i].context = 9],
                    [e EXCEPT !.cells[i].repetitions = 1], [e EXCEPT !.cells[i].metric = <<"other">>]}
                     \cup {[e EXCEPT !.cells[i].quality = q] : q \in {<<>>, <<50>>, <<-1>>}}
                     \cup {[e EXCEPT !.cells[i].bytes = b] : b \in {<<>>, <<0>>}}
                     \cup {[e EXCEPT !.cells[i].rate = v] : v \in {<<>>, <<0>>, <<50>>}}
                     \cup {[e EXCEPT !.cells[i].latency = <<>>]}
                     \cup {[e EXCEPT !.cells[i].latency = <<l>>] : l \in Latencies(p)} : i \in cells}

-----------------------------------------------------------------------------
EvidenceIdle == judged = Idle /\ qualified = Idle /\ registered = Idle
OracleNext ==
  /\ EvidenceIdle
  /\ \/ \E x, y \in OracleFloats : AskAdd(x, y) \/ AskMultiply(x, y)
     \/ \E x, y, z \in OracleFloats : AskFused(x, y, z)
     \/ \E x \in OracleFloats : AskRelu(x)
     \/ \E code \in 0..15, scale \in OracleFloats : ~scale.negative /\ AskFp4(code, scale)
QualifyNext ==
  \/ EvidenceIdle /\ \E c \in CommandLines, f \in Faults(CpuSuites) \cup {NoFault} : RunCpuHost(c, f)
  \/ EvidenceIdle /\ \E c \in CommandLines, a \in AdapterReports, f \in Faults(WgpuSuites) \cup {NoFault} :
                       RunWgpuAdapter(c, a, f)
  \/ /\ qualified # Idle /\ qualified.end.written
     /\ \E r \in {qualified.record} \cup EditedRecords(qualified.record, qualified.fault) : ValidateFile(r)
CampaignNext ==
  \/ EvidenceIdle /\ \E f \in Registrations : Preregister(f)
  \/ registered # Idle /\ \E e \in Submissions(registered.fields) : SubmitEvidence(e)
EvidenceNext == OracleNext \/ QualifyNext \/ CampaignNext

-----------------------------------------------------------------------------
\* A float in units of the smallest one; infinity as the float after the last.
Units(bits) ==
  IF bits < HiddenBit THEN bits ELSE (HiddenBit + (bits % HiddenBit)) * 2^((bits \div HiddenBit) - 1)
Signed(f) == IF f.negative THEN -Units(f.bits) ELSE Units(f.bits)
Distance(x, y) == IF x > y THEN x - y ELSE y - x

\* nnis-cpu evidence/oracle.rs:19-143: what the oracle answers is the float next to
\* the integer computed without rounding, the even one of two, with the sign of
\* IEEE 754: nothing is lost below the last bit of a sum and no mantissa outgrows
\* the range the oracle asserts.
OracleIsExact ==
  judged # Idle =>
    LET j == judged
        single == 2^(1 - LowestExponent)  \* a sum in halves of the unit of a product
        zero == CASE j.operation = "add" -> j.x.negative /\ j.y.negative
                  [] j.operation = "multiply" -> j.x.negative # j.y.negative
                  [] j.operation = "fused" -> (j.x.negative # j.y.negative) /\ j.z.negative
                  [] j.operation = "relu" -> FALSE
                  [] j.operation = "fp4" -> j.code >= 8
        n == CASE j.operation = "add" -> (Signed(j.x) + Signed(j.y)) * single
               [] j.operation = "multiply" -> 2 * Signed(j.x) * Signed(j.y)
               [] j.operation = "fused" -> (2 * Signed(j.x) * Signed(j.y)) + (Signed(j.z) * single)
               [] j.operation = "relu" -> (IF Signed(j.x) > 0 THEN Signed(j.x) ELSE 0) * single
               [] j.operation = "fp4" ->
                    LET halves == <<0, 1, 2, 3, 4, 6, 8, 12>>[(j.code % 8) + 1] * Signed(j.x)
                    IN (IF j.code >= 8 THEN -halves ELSE halves) * (single \div 2)
        magnitude == IF n < 0 THEN -n ELSE n
        away(bits) == Distance(magnitude, Units(bits) * single)
    IN /\ \A bits \in 0..InfinityBits :
            \/ away(j.answer.bits) < away(bits)
            \/ away(j.answer.bits) = away(bits) /\ (bits = j.answer.bits \/ j.answer.bits % 2 = 0)
       /\ j.answer.negative = IF n = 0 THEN zero ELSE n < 0
       /\ j.operation = "fused" =>
            SumExact(ProductExact(ExactOf(j.x), ExactOf(j.y)), ExactOf(j.z)).mantissa
              < 2^(StickyGap + 2 * OracleBits + 4)

\* Values a suite compares when nothing goes wrong.
AllChecks(suite) ==
  LET compared[i \in 0..Len(suite.checks)] ==
        IF i = 0 THEN 0
        ELSE compared[i - 1] + suite.checks[i].size + IF suite.checks[i].how = "zip" THEN 1 ELSE 0
  IN compared[Len(suite.checks)]
SoftwareReport(a) == a.device = "Cpu" \/ "marker" \in {a.name, a.driver}

\* nnis-cli evidence.rs:206-281 and the suites it runs: a run is only said to agree
\* when every value of every suite was compared and agreed, on a clean commit and
\* on hardware; whatever went wrong is named in the record, and no run with a
\* failure exits with success.
RunHonest ==
  qualified # Idle =>
    LET q == qualified
        suites == IF q.operation = "cpu-host" THEN CpuSuites ELSE WgpuSuites
        wrong == q.fault.kind # "none"
        agrees ==
          /\ ~wrong /\ q.line.commit = "sha" /\ q.line.clean = "true"
          /\ \A i \in DOMAIN suites : q.record.suites[i].checks = AllChecks(suites[i])
          /\ IF q.operation = "cpu-host" THEN q.record.source.target = "native"
             ELSE ~SoftwareReport(q.adapter) /\ q.adapter.device # "Other"
    IN /\ q.end.verdict = "observed" => agrees
       /\ wrong /\ q.end.verdict # "rejected" =>
            q.end.verdict = "failed" /\ q.end.suites = {suites[q.fault.suite].id}
       /\ q.end.exit = 0 => ~wrong /\ q.line.out # "bad"
       /\ q.end.written => q.end.verdict \notin {"none", "rejected"}

\* nnis-core adapter_evidence.rs:296-453, nnis-cli evidence.rs:291-347: a record is
\* reviewed to the verdict its run printed; and no one changed member makes a
\* record agree whose suites counted a mismatch or compared nothing, whose
\* adapter is software, or which is no longer of its schema.
ReviewHonest ==
  reviewed # Idle =>
    LET r == reviewed.record
        o == qualified.record
    IN /\ r = o => reviewed.result = Verdict(qualified.end.verdict, qualified.end.suites)
       /\ reviewed.result.verdict = "observed" =>
            /\ \A s \in Range(o.suites) : s.mismatches = 0 /\ s.checks > 0
            /\ {s.id : s \in Range(o.suites)} = {s.id : s \in Range(r.suites)}
            /\ r.kind = o.kind /\ r.members = "exact" /\ r.source.commit = qualified.line.commit
            /\ qualified.operation = "wgpu-adapter" => ~SoftwareReport(qualified.adapter)

\* nnis-core dsv41_campaign.rs:153-527: accepted evidence reports every arm at every
\* context and decode length once and nothing else, measured and not synthetic, and
\* can be written as it is; and what a preregistration asks for can be handed in.
CampaignComplete ==
  submitted # Idle =>
    LET p == registered.fields
        e == submitted.evidence
        cells == {<<c.arm, c.context, c.decode>> : c \in Range(e.cells)}
        wanted == {a.id : a \in Range(p.arms)} \X Range(p.contexts) \X Range(p.decodes)
    IN /\ submitted.accepted =>
            /\ cells = wanted /\ Len(e.cells) = Cardinality(wanted)
            /\ submitted.encoded /\ EncodesPreregistration(p) /\ e.record = "physical"
            /\ \A c \in Range(e.cells) : {c.quality, c.bytes, c.latency, c.rate} \cap {<<>>} = {}
       /\ e = CompleteEvidence(p) => submitted.accepted

\* The evidence a person reviews says what was run.
EvidenceHonest == OracleIsExact /\ RunHonest /\ ReviewHonest /\ CampaignComplete
================================================================================
