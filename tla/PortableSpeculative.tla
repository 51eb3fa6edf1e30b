-------------------------- MODULE PortableSpeculative --------------------------
(***************************************************************************)
(* Speculative verification: a draft of tokens with confidences, the       *)
(* schedule that decides how much of it is verified and the acceptance     *)
(* statistics (nnis-core speculative_verify.rs), with the greedy verifiers  *)
(* of the CPU (nnis-cpu speculative.rs: compares values) and of WGPU        *)
(* (nnis-wgpu speculative.rs: one invocation per row of logits, compares   *)
(* order keys of the bit patterns).                                        *)
(*                                                                         *)
(* A logit is the bit pattern of a float: from SignBit on it is negative,  *)
(* and the rest is the magnitude, the greatest one standing for infinity   *)
(* and NaN.                                                                *)
(***************************************************************************)
EXTENDS Integers, Sequences, FiniteSets, FiniteSetsExt

CONSTANTS
  Drafts,          \* [tokens, confidences] pairs a caller offers
  Schedules,       \* [least, cap]: min_confidence and max_verify_tokens
  TargetLogits,    \* sequences of rows of logits of a target model
  Vocabulary,      \* vocab_size
  MaxDraft,        \* MAX_SPECULATIVE_DRAFT_TOKENS
  SignBit,         \* the pattern of -0.0, 2^31 of an f32
  Certain,         \* the confidence 1.0, in steps of the scale
  MaxCount         \* greatest u64

ASSUME SpeculativeAssumption ==
  /\ Vocabulary \in Nat \ {0} /\ SignBit \in Nat \ {0} /\ MaxDraft \in Nat /\ Certain \in Nat /\ MaxCount \in Nat
  /\ Drafts \subseteq [tokens : Seq(Nat), confidences : Seq(Nat)]
  /\ Schedules \subseteq [least : Nat, cap : Nat]
  /\ TargetLogits \subseteq Seq([1..Vocabulary -> 0..2 * SignBit - 1])

VARIABLES
  asked,      \* the verification in progress, or NotAsked
  targets,    \* row -> what the invocation of the row wrote
  verified,   \* backend -> outcome
  accepted    \* backend -> SpeculativeAcceptanceStatsV1

speculativeVars == <<asked, targets, verified, accepted>>

NotAsked == [draft |-> [tokens |-> <<>>, confidences |-> <<>>], rows |-> <<>>]
Backends == {"cpu", "wgpu"}
Unwritten == [best |-> Vocabulary, bad |-> -1]

\* --- Logits --------------------------------------------------------------
LogitMagnitude(bits) == bits % SignBit
Negative(bits) == bits >= SignBit
InfiniteOrNaN(bits) == LogitMagnitude(bits) = SignBit - 1
Number(bits) == IF Negative(bits) THEN -LogitMagnitude(bits) ELSE LogitMagnitude(bits)
\* Mutant: the two zeroes keep keys of their own.
OrderKeySigned(bits) == IF Negative(bits) THEN 2 * SignBit - 1 - bits ELSE bits + SignBit
\* order_key: -0.0 folded onto +0.0, then the patterns in order of value.
OrderKey(bits) ==
  LET folded == IF LogitMagnitude(bits) = 0 THEN 0 ELSE bits
  IN IF Negative(folded) THEN 2 * SignBit - 1 - folded ELSE folded + SignBit

\* --- Argmax of a row: [best (from 0), bad (first bad column or -1)] --------
\* The loop of greedy_argmax, from column i on what it has so far.
VisitValue(row, acc, i) ==
  IF acc.bad >= 0 THEN acc
  ELSE IF InfiniteOrNaN(row[i]) THEN [acc EXCEPT !.bad = i - 1]
  ELSE IF Number(row[i]) > Number(row[acc.best + 1]) THEN [acc EXCEPT !.best = i - 1]
  ELSE acc
ValueScan(row) ==
  LET seen[i \in 0..Len(row)] ==
        IF i = 0 THEN [best |-> 0, bad |-> -1] ELSE VisitValue(row, seen[i - 1], i)
  IN seen
GreedyArgmax(row) == ValueScan(row)[Len(row)]
\* The loop of ARGMAX_SOURCE, which keeps the key of the best column.
VisitKey(row, acc, i) ==
  IF acc.bad >= 0 THEN acc
  ELSE IF InfiniteOrNaN(row[i]) THEN [acc EXCEPT !.bad = i - 1]
  ELSE IF i = 1 \/ OrderKey(row[i]) > acc.key THEN [acc EXCEPT !.best = i - 1, !.key = OrderKey(row[i])]
  ELSE acc
KeyScan(row) ==
  LET seen[i \in 0..Len(row)] ==
        IF i = 0 THEN [best |-> 0, key |-> 0, bad |-> -1] ELSE VisitKey(row, seen[i - 1], i)
  IN seen
RowInvocation(row) ==
  LET end == KeyScan(row)[Len(row)] IN [best |-> end.best, bad |-> end.bad]

\* --- Drafts and schedules --------------------------------------------------
DraftValid(d) ==
  /\ Len(d.tokens) \in 1..MaxDraft /\ Len(d.confidences) = Len(d.tokens)
  /\ \A i \in DOMAIN d.confidences : d.confidences[i] \in 0..Certain
ScheduleValid(s) == s.least \in 0..Certain /\ s.cap > 0
Min2(a, b) == IF a < b THEN a ELSE b
\* Length of the longest prefix of 1..n all of whose places satisfy ok.
Leading(n, ok) == Cardinality({i \in 1..n : \A j \in 1..i : ok[j]})
\* scheduled_len.
ScheduledLen(d, s) ==
  Min2(Leading(Len(d.tokens), [i \in DOMAIN d.tokens |-> d.confidences[i] >= s.least]), s.cap)

\* Mutant: an accepted draft is not followed by a token of the target's own.
VerifyWithoutBonus(d, s, target) ==
  LET n == ScheduledLen(d, s)
      a == Leading(n, [i \in 1..n |-> d.tokens[i] = target[i]])
  IN [ok |-> TRUE, drafted |-> Len(d.tokens), scheduled |-> n, accepted |-> a, rejected |-> a < n,
      emitted |-> IF a < n THEN Append(SubSeq(d.tokens, 1, a), target[a + 1]) ELSE SubSeq(d.tokens, 1, a)]
\* verify_scheduled_draft.
VerifyScheduledDraft(d, s, target) ==
  LET n == ScheduledLen(d, s)
      a == Leading(n, [i \in 1..n |-> d.tokens[i] = target[i]])
  IN [ok |-> TRUE, drafted |-> Len(d.tokens), scheduled |-> n, accepted |-> a, rejected |-> a < n,
      emitted |-> Append(SubSeq(d.tokens, 1, a), target[a + 1])]

\* Both verifiers refuse in the same order: a token, the length, a logit.
Outside(d) == {i \in DOMAIN d.tokens : d.tokens[i] >= Vocabulary}
Refusal(what, where) == [ok |-> FALSE, what |-> what, where |-> where]
\* marks: row -> [best, bad].
Outcome(a, marks) ==
  LET expected == ScheduledLen(a.draft, a.schedule) + 1
      spoiled == {r \in DOMAIN marks : marks[r].bad >= 0}
  IN IF Outside(a.draft) # {} THEN Refusal("token", <<Min(Outside(a.draft)), 0>>)
     ELSE IF Len(a.rows) # expected THEN Refusal("length", <<expected, Len(a.rows)>>)
     ELSE IF spoiled # {} THEN Refusal("logit", <<Min(spoiled), marks[Min(spoiled)].bad>>)
     ELSE VerifyScheduledDraft(a.draft, a.schedule, [r \in DOMAIN marks |-> marks[r].best])
CpuVerify(a) == Outcome(a, [r \in DOMAIN a.rows |-> GreedyArgmax(a.rows[r])])

\* --- Statistics ------------------------------------------------------------
NoCounts == [steps |-> 0, drafted |-> 0, scheduled |-> 0, accepted |-> 0, emitted |-> 0, skipped |-> 0,
             rejections |-> 0]
Added(outcome) ==
  [steps |-> 1, drafted |-> outcome.drafted, scheduled |-> outcome.scheduled, accepted |-> outcome.accepted,
   emitted |-> Len(outcome.emitted), skipped |-> outcome.drafted - outcome.scheduled,
   rejections |-> IF outcome.rejected THEN 1 ELSE 0]
\* Mutant: the counters that still fit are advanced.
RecordInPlace(stats, outcome) ==
  [f \in DOMAIN stats |-> IF stats[f] + Added(outcome)[f] > MaxCount THEN stats[f] ELSE stats[f] + Added(outcome)[f]]
\* record: one counter that does not fit leaves them all.
Record(stats, outcome) ==
  LET next == [f \in DOMAIN stats |-> stats[f] + Added(outcome)[f]]
  IN IF \E f \in DOMAIN next : next[f] > MaxCount THEN stats ELSE next

\* --- Behaviour -------------------------------------------------------------
SpeculativeIdle ==
  /\ asked = NotAsked /\ targets = <<>> /\ verified = <<>>
  /\ accepted = [b \in Backends |-> NoCounts]
SpeculativeInit == SpeculativeIdle

\* A call of verify_and_record on both backends, with as many rows of logits as
\* the caller has.
Ask(d, s, rows) ==
  /\ asked = NotAsked /\ DraftValid(d) /\ ScheduleValid(s)
  /\ asked' = [draft |-> d, schedule |-> s, rows |-> rows]
  /\ targets' = [r \in DOMAIN rows |-> Unwritten] /\ verified' = <<>>
  /\ UNCHANGED accepted

\* The CPU and, for a request that is refused before the dispatch, WGPU.
VerifyOnCpu ==
  /\ asked # NotAsked /\ "cpu" \notin DOMAIN verified
  /\ LET outcome == CpuVerify(asked)
     IN /\ verified' = [b \in {"cpu"} \cup DOMAIN verified |-> IF b = "cpu" THEN outcome ELSE verified[b]]
        /\ accepted' = IF outcome.ok THEN [accepted EXCEPT !["cpu"] = Record(@, outcome)] ELSE accepted
  /\ UNCHANGED <<asked, targets>>

Dispatched ==
  /\ asked # NotAsked
  /\ Outside(asked.draft) = {} /\ Len(asked.rows) = ScheduledLen(asked.draft, asked.schedule) + 1
Invoke(r) ==
  /\ Dispatched /\ targets[r] = Unwritten
  /\ targets' = [targets EXCEPT ![r] = RowInvocation(asked.rows[r])]
  /\ UNCHANGED <<asked, verified, accepted>>
VerifyOnWgpu ==
  /\ asked # NotAsked /\ "wgpu" \notin DOMAIN verified
  /\ Dispatched => \A r \in DOMAIN targets : targets[r] # Unwritten
  /\ LET outcome == Outcome(asked, IF Dispatched THEN targets ELSE <<>>)
     IN /\ verified' = [b \in {"wgpu"} \cup DOMAIN verified |-> IF b = "wgpu" THEN outcome ELSE verified[b]]
        /\ accepted' = IF outcome.ok THEN [accepted EXCEPT !["wgpu"] = Record(@, outcome)] ELSE accepted
  /\ UNCHANGED <<asked, targets>>
Answer ==
  /\ DOMAIN verified = Backends
  /\ asked' = NotAsked /\ targets' = <<>> /\ verified' = <<>> /\ UNCHANGED accepted

SpeculativeNext ==
  \/ \E d \in Drafts, s \in Schedules, rows \in TargetLogits : Ask(d, s, rows)
  \/ VerifyOnCpu
  \/ \E r \in DOMAIN targets : Invoke(r)
  \/ VerifyOnWgpu
  \/ Answer
SpeculativeSpec == SpeculativeInit /\ [][SpeculativeNext]_speculativeVars

-----------------------------------------------------------------------------
\* speculative_verify.rs:196-270, cpu/speculative.rs:48-118 and
\* wgpu/speculative.rs:53-320: both backends give the same tokens or the same
\* refusal; the tokens are the greedy continuation of the target, draft tokens
\* of enough confidence as long as they agree with it and then one token of its
\* own; and the counters of any sequence of calls, some of which did not fit,
\* still add up.
VerifyGreedy ==
  /\ DOMAIN verified = Backends =>
       /\ verified["cpu"] = verified["wgpu"] /\ accepted["cpu"] = accepted["wgpu"]
       /\ verified["cpu"].ok =>
            LET d == asked.draft
                tokens == verified["cpu"].emitted
                greedy(row) == CHOOSE t \in 0..Vocabulary - 1 :
                  /\ \A u \in 0..Vocabulary - 1 : Number(row[u + 1]) <= Number(row[t + 1])
                  /\ \A u \in 0..t - 1 : Number(row[u + 1]) < Number(row[t + 1])
            IN /\ tokens # <<>> /\ \A i \in DOMAIN tokens : tokens[i] = greedy(asked.rows[i])
               /\ \A i \in 1..Len(tokens) - 1 : tokens[i] = d.tokens[i] /\ d.confidences[i] >= asked.schedule.least
               /\ Len(tokens) <= asked.schedule.cap + 1
               /\ \/ Len(tokens) = Len(asked.rows)
                  \/ tokens[Len(tokens)] # d.tokens[Len(tokens)]
  /\ \A b \in Backends :
       LET s == accepted[b]
       IN /\ s.emitted = s.accepted + s.steps /\ s.drafted = s.scheduled + s.skipped
          /\ s.accepted <= s.scheduled /\ s.rejections <= s.steps
          /\ s.accepted + s.rejections <= s.scheduled
================================================================================
