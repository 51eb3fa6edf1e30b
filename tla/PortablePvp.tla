------------------------------ MODULE PortablePvp ------------------------------
(***************************************************************************)
(* A PVP bank, addresses of gate bits, packed in wide words on the CPU and *)
(* in narrow words on WGPU (nnis-core pvp.rs); the in-place subset-zeta    *)
(* transform of the CPU session (nnis-cpu pvp.rs) and, of the WGPU session  *)
(* (nnis-wgpu pvp.rs), one dispatch per stage whose invocations load and   *)
(* store in any order.  A word is the set of its bits that are one.        *)
(***************************************************************************)
EXTENDS Integers, Sequences, FiniteSets

CONSTANTS
  PvpLayouts,     \* [addresses, gates] offered to PvpLayoutAdapterV1::new
  Narrow,         \* bits of a WGPU word (u32); a CPU word has twice as many
  PvpGroup,       \* NNIS_PVP_WGPU_WORKGROUP_SIZE
  MaxExecutions   \* bound: transforms of a session

Wide == 2 * Narrow
ASSUME PvpAssumption == Narrow \in Nat \ {0} /\ PvpGroup \in Nat \ {0}

VARIABLES
  pvp,       \* layout of the sessions, or NoPvp
  seed,      \* the bank the sessions were started from: set of <<address, gate>>
  wideBank,  \* words of the CPU session
  narrowBank,\* words of the WGPU session
  runs,      \* backend -> execution_count
  stride,    \* of the stage being dispatched, 0 when none is
  lanes      \* invocation -> how far it got

pvpVars == <<pvp, seed, wideBank, narrowBank, runs, stride, lanes>>

NoPvp == [addresses |-> 0, gates |-> 0]
PvpLayoutValid(l) == (\E k \in 0..l.addresses : 2^k = l.addresses) /\ l.gates > 0
Xor(a, b) == (a \ b) \cup (b \ a)

\* --- Storage (words and addresses from 0) ----------------------------------
WordsPerAddress(l, bits) == (l.gates + bits - 1) \div bits
StorageWords(l, bits) == 0..l.addresses * WordsPerAddress(l, bits) - 1
\* Bits of the last word of an address that stand for no gate.
Padding(l, bits) == {b \in 0..bits - 1 : l.gates % bits # 0 /\ b >= l.gates % bits}
Canonical(l, bits, words) ==
  /\ DOMAIN words = StorageWords(l, bits)
  /\ \A a \in 0..l.addresses - 1 :
       words[(a + 1) * WordsPerAddress(l, bits) - 1] \cap Padding(l, bits) = {}
\* to_wgpu_u32: a narrow word is half of a wide one.
ToNarrow(l, words) ==
  LET target == WordsPerAddress(l, Narrow)
      source == WordsPerAddress(l, Wide)
  IN [i \in StorageWords(l, Narrow) |->
        LET word == i % target
            shift == (word % 2) * Narrow
        IN {b \in 0..Narrow - 1 : b + shift \in words[(i \div target) * source + word \div 2]}]
\* Mutant: every narrow word lands in the low half.
ToWideUnshifted(l, words) ==
  LET target == WordsPerAddress(l, Wide)
      source == WordsPerAddress(l, Narrow)
  IN [i \in StorageWords(l, Wide) |->
        UNION {words[(i \div target) * source + w] : w \in {v \in 0..source - 1 : v \div 2 = i % target}}]
\* to_cpu_u64.
ToWide(l, words) ==
  LET target == WordsPerAddress(l, Wide)
      source == WordsPerAddress(l, Narrow)
  IN [i \in StorageWords(l, Wide) |->
        UNION {{b + (w % 2) * Narrow : b \in words[(i \div target) * source + w]} :
                 w \in {v \in 0..source - 1 : v \div 2 = i % target}}]
\* A bank in the words of the CPU; dirty: the last address has a padding bit.
Packed(l, bits, cells, dirty) ==
  [i \in StorageWords(l, bits) |->
     LET per == WordsPerAddress(l, bits)
     IN {b \in 0..bits - 1 : <<i \div per, ((i % per) * bits) + b>> \in cells}
        \cup (IF dirty /\ i = l.addresses * per - 1 THEN Padding(l, bits) ELSE {})]

\* --- The transform -----------------------------------------------------------
\* Mutant: the target is added into the source.
ButterflySwapped(l, words, s) ==
  LET per == WordsPerAddress(l, Wide)
  IN [i \in DOMAIN words |-> IF ((i \div per) \div s) % 2 = 0 THEN Xor(words[i], words[i + s * per]) ELSE words[i]]
\* One pass of the CPU loop: in each block of 2*s addresses the upper half takes
\* in the lower half, which the pass does not touch.
Butterfly(l, words, s) ==
  LET per == WordsPerAddress(l, Wide)
  IN [i \in DOMAIN words |-> IF ((i \div per) \div s) % 2 = 1 THEN Xor(words[i], words[i - s * per]) ELSE words[i]]
Strides(l) == {s \in 1..l.addresses - 1 : \E k \in 0..s : s = 2^k}
CpuZeta(l, words) ==
  LET stage[s \in 1..l.addresses] ==
        IF s = 1 THEN words
        ELSE IF s % 2 = 0 THEN Butterfly(l, stage[s \div 2], s \div 2) ELSE words
  IN stage[l.addresses]

\* WGSL: the cells invocation n of a stage works on.
Pairs(l) == l.addresses \div 2
Invocations(l) == Pairs(l) * WordsPerAddress(l, Narrow)
WorkGroups(l) == (Invocations(l) + PvpGroup - 1) \div PvpGroup
\* Mutant: blocks of one stride instead of two.
SourceIndexPacked(l, s, n) ==
  LET per == WordsPerAddress(l, Narrow)
  IN ((((n \div per) \div s) * s + ((n \div per) % s)) * per) + (n % per)
SourceIndex(l, s, n) ==
  LET per == WordsPerAddress(l, Narrow)
      pair == n \div per
  IN (((pair \div s) * 2 * s + (pair % s)) * per) + (n % per)
TargetIndex(l, s, n) == SourceIndex(l, s, n) + s * WordsPerAddress(l, Narrow)
Active(l, s, n) ==
  n < Invocations(l) /\ TargetIndex(l, s, n) < l.addresses * WordsPerAddress(l, Narrow)

\* --- Behaviour ---------------------------------------------------------------
NoBank == [i \in {} |-> {}]
NoRuns == [b \in {"cpu", "wgpu"} |-> 0]
PvpIdle ==
  /\ pvp = NoPvp /\ seed = {} /\ wideBank = NoBank /\ narrowBank = NoBank
  /\ runs = NoRuns /\ stride = 0 /\ lanes = <<>>
PvpInit == PvpIdle

\* PvpCpuU64V1::new, from_words and WgpuPvpSessionV1::new on the converted bank.
OpenPvp(l, cells, dirty) ==
  /\ pvp = NoPvp /\ PvpLayoutValid(l)
  /\ LET words == Packed(l, Wide, cells, dirty)
     IN /\ Canonical(l, Wide, words) /\ Canonical(l, Narrow, ToNarrow(l, words))
        /\ wideBank' = words /\ narrowBank' = ToNarrow(l, words)
  /\ pvp' = l /\ seed' = cells
  /\ UNCHANGED <<runs, stride, lanes>>

\* execute_subset_zeta of the CPU.
ExecuteCpu ==
  /\ pvp # NoPvp /\ runs["cpu"] < MaxExecutions
  /\ wideBank' = CpuZeta(pvp, wideBank)
  /\ runs' = [runs EXCEPT !["cpu"] = @ + 1]
  /\ UNCHANGED <<pvp, seed, narrowBank, stride, lanes>>

Loading == [at |-> "load", target |-> {}, source |-> {}]
StageLanes(l) == [n \in 0..WorkGroups(l) * PvpGroup - 1 |-> Loading]
\* execute_subset_zeta of WGPU: the passes of one encoder, one after another.
ExecuteWgpu ==
  /\ pvp # NoPvp /\ stride = 0 /\ runs["wgpu"] < MaxExecutions
  /\ IF Strides(pvp) = {}
     THEN runs' = [runs EXCEPT !["wgpu"] = @ + 1] /\ UNCHANGED <<stride, lanes>>
     ELSE stride' = 1 /\ lanes' = StageLanes(pvp) /\ UNCHANGED runs
  /\ UNCHANGED <<pvp, seed, wideBank, narrowBank>>
Load(n) ==
  /\ stride # 0 /\ lanes[n].at = "load"
  /\ lanes' = [lanes EXCEPT ![n] =
       IF Active(pvp, stride, n)
       THEN [at |-> "store", target |-> narrowBank[TargetIndex(pvp, stride, n)],
             source |-> narrowBank[SourceIndex(pvp, stride, n)]]
       ELSE [Loading EXCEPT !.at = "done"]]
  /\ UNCHANGED <<pvp, seed, wideBank, narrowBank, runs, stride>>
Store(n) ==
  /\ stride # 0 /\ lanes[n].at = "store"
  /\ narrowBank' = [narrowBank EXCEPT ![TargetIndex(pvp, stride, n)] = Xor(lanes[n].target, lanes[n].source)]
  /\ lanes' = [lanes EXCEPT ![n] = [Loading EXCEPT !.at = "done"]]
  /\ UNCHANGED <<pvp, seed, wideBank, runs, stride>>
StageEnds ==
  /\ stride # 0 /\ \A n \in DOMAIN lanes : lanes[n].at = "done"
  /\ IF 2 * stride < pvp.addresses
     THEN stride' = 2 * stride /\ lanes' = StageLanes(pvp) /\ UNCHANGED runs
     ELSE stride' = 0 /\ lanes' = <<>> /\ runs' = [runs EXCEPT !["wgpu"] = @ + 1]
  /\ UNCHANGED <<pvp, seed, wideBank, narrowBank>>

\* Seeds: the transform is linear, so banks of at most two bits tell its errors.
Banks(l) == {{x, y} : x, y \in (0..l.addresses - 1) \X (0..l.gates - 1)}
PvpNext ==
  \/ \E l \in PvpLayouts, dirty \in BOOLEAN : \E cells \in Banks(l) : OpenPvp(l, cells, dirty)
  \/ ExecuteCpu
  \/ ExecuteWgpu
  \/ \E n \in DOMAIN lanes : Load(n) \/ Store(n)
  \/ StageEnds

-----------------------------------------------------------------------------
\* pvp.rs (cpu) 78-138 and pvp.rs (wgpu) 33-66, 228-332: after a transform an
\* address holds the sum, bit by bit, of the seeds at the addresses that are
\* subsets of it, and after a second one the seed again; the narrow bank is the
\* wide one whatever the order of the invocations, and padding stays zero.
ZetaIsSubsetXor ==
  LET bitsOf(a) == {k \in 0..a : (a \div 2^k) % 2 = 1}
      under(c) == {x \in seed : x[2] = c[2] /\ bitsOf(x[1]) \subseteq bitsOf(c[1])}
      after(n) == IF n % 2 = 0 THEN seed
                  ELSE {c \in (0..pvp.addresses - 1) \X (0..pvp.gates - 1) : Cardinality(under(c)) % 2 = 1}
  IN pvp # NoPvp =>
       /\ wideBank = Packed(pvp, Wide, after(runs["cpu"]), FALSE)
       /\ stride = 0 => /\ narrowBank = Packed(pvp, Narrow, after(runs["wgpu"]), FALSE)
                        /\ Canonical(pvp, Narrow, narrowBank)
                        /\ runs["cpu"] = runs["wgpu"] => ToWide(pvp, narrowBank) = wideBank
================================================================================
