---------------------------- MODULE PortableProofs -----------------------------
(***************************************************************************)
(* The portable engine, for every value of the constants: SumIsCommitted,  *)
(* LogitsCurrent and EncodePrefix of PortableSession, ReplayExact of       *)
(* PortableReplay, BoundFits of PortableArtifact, MemoryAgrees and         *)
(* ErrorsReported of PortableBuffers, VerifyGreedy of PortableSpeculative  *)
(* and KernelsAgree of PortableNumerical.                                  *)
(***************************************************************************)
EXTENDS PortableSession, PortableBuffers, PortableReplay, PortableArtifact, PortableSpeculative,
        PortableNumerical, SequenceTheorems, FiniteSetTheorems, WellFoundedInduction, TLAPS

-----------------------------------------------------------------------------
\* The session.

\* A pending row has been staged: there is room for it, and the logits are
\* those of the sum with the row.
PendingIsStaged ==
    pending # <<>> => length < Capacity /\ logits = sum \o pending

\* What encode was asked is what it has committed, staged and still to do.
EncodeProgress ==
    call.op = "encode" => call.asked = Committed \o pending \o call.todo

Types ==
    /\ slots \in [1..Capacity -> Tokens \cup {"zero"}]
    /\ length \in 0..Capacity
    /\ pending \in Seq(Tokens) /\ Len(pending) <= 1
    /\ Committed \in Seq(Tokens) /\ logits \in Seq(Tokens)
    /\ call \in [op : {"idle", "stage", "advance", "encode", "decode"},
                 todo : Seq(Tokens), asked : Seq(Tokens)]

IInv == Types /\ SumIsCommitted /\ LogitsCurrent /\ PendingIsStaged /\ EncodeProgress

\* The session starts with no rows, no sum and no logits.
LEMMA InitHolds == Init => IInv
<1> SUFFICES ASSUME Init PROVE IInv
    OBVIOUS
<1>1. Committed = <<>>
  BY DEF Init, Committed
<1>2. Types
  BY <1>1, PortableAssumption DEF Init, Types, NoCall
<1> QED
  BY <1>1, <1>2 DEF Init, IInv, SumIsCommitted, LogitsCurrent, PendingIsStaged,
     EncodeProgress, NoCall

\* A sequence of at most one element that is not empty.
LEMMA SingleRow ==
    ASSUME NEW S, NEW s \in Seq(S), s # <<>>, Len(s) <= 1
    PROVE  s = <<Head(s)>> /\ Head(s) \in S /\ Len(s) = 1
<1>1. Len(s) = 1
  <2>1. Len(s) \in Nat \ {0}
    BY EmptySeq, Zenon
  <2> QED
    BY <2>1
<1>2. Head(s) \in S /\ Head(s) = s[1]
  BY <1>1, HeadTailProperties
<1>3. <<Head(s)>> \in Seq(S) /\ Len(<<Head(s)>>) = 1 /\ <<Head(s)>>[1] = Head(s)
  BY <1>2
<1>4. s = <<Head(s)>>
  BY <1>1, <1>2, <1>3, SeqEqual
<1> QED
  BY <1>1, <1>2, <1>4

\* A commit writes the pending row behind the committed ones.
LEMMA CommitAppends ==
    ASSUME IInv, Commit
    PROVE  /\ Committed' = Committed \o pending
           /\ Committed' \in Seq(Tokens)
           /\ slots' \in [1..Capacity -> Tokens \cup {"zero"}]
           /\ length' \in 0..Capacity
<1>1. pending = <<Head(pending)>> /\ Head(pending) \in Tokens /\ Len(pending) = 1
  BY SingleRow DEF Commit, IInv, Types
<1>2. length < Capacity /\ length \in 0..Capacity /\ Capacity \in Nat
  BY PortableAssumption DEF Commit, PendingIsStaged, IInv, Types
<1>3. slots' = [slots EXCEPT ![length + 1] = Head(pending)] /\ length' = length + 1
  BY DEF Commit
<1>4. slots' \in [1..Capacity -> Tokens \cup {"zero"}] /\ length' \in 0..Capacity
  BY <1>1, <1>2, <1>3 DEF IInv, Types
<1>5. /\ Committed \in Seq(Tokens) /\ Len(Committed) = length
      /\ \A i \in 1..length : Committed[i] = slots[i]
  BY <1>2 DEF IInv, Types, Committed
<1>6. /\ Committed \o pending \in Seq(Tokens) /\ Len(Committed \o pending) = length + 1
      /\ \A i \in 1..length + 1 :
           (Committed \o pending)[i] = IF i <= length THEN Committed[i] ELSE Head(pending)
  <2>1. pending \in Seq(Tokens) /\ pending[1] = Head(pending)
    BY <1>1 DEF IInv, Types
  <2>2. /\ Committed \o pending \in Seq(Tokens)
        /\ Len(Committed \o pending) = Len(Committed) + Len(pending)
        /\ \A i \in 1..Len(Committed) + Len(pending) :
             (Committed \o pending)[i] = IF i <= Len(Committed) THEN Committed[i] ELSE pending[i - Len(Committed)]
    BY <1>5, <2>1, ConcatProperties, Zenon
  <2>3. \A i \in 1..length + 1 : i <= length \/ i - length = 1
    BY <1>2
  <2> QED
    BY <1>1, <1>2, <1>5, <2>1, <2>2, <2>3
<1>7. Committed' = [i \in 1..length + 1 |-> slots'[i]]
  BY <1>3 DEF Committed
<1>8. \A i \in 1..length + 1 : slots'[i] = (Committed \o pending)[i]
  BY <1>2, <1>3, <1>5, <1>6 DEF IInv, Types
<1>9. Committed' \in Seq(Tokens) /\ Len(Committed') = length + 1
  <2>1. \A i \in 1..length + 1 : slots'[i] \in Tokens
    BY <1>6, <1>8, ElementOfSeq
  <2>2. Committed' \in [1..length + 1 -> Tokens] /\ length + 1 \in Nat
    BY <1>2, <1>7, <2>1
  <2> QED
    BY <2>2, SeqDef
<1>10. Committed' = Committed \o pending
  BY <1>6, <1>7, <1>8, <1>9, SeqEqual
<1> QED
  BY <1>4, <1>9, <1>10

\* A cut to n rows leaves the first n of them.
LEMMA CutKeeps ==
    ASSUME IInv, NEW n \in 0..Capacity, n <= length, length' = n, UNCHANGED slots
    PROVE  Committed' = SubSeq(Committed, 1, n) /\ Committed' \in Seq(Tokens)
<1> USE PortableAssumption DEF IInv, Types
<1>1. Len(Committed) = length /\ \A i \in 1..length : Committed[i] = slots[i]
  BY DEF Committed
<1>2. Committed' = [i \in 1..n |-> slots[i]]
  BY DEF Committed
<1>3. SubSeq(Committed, 1, n) = [i \in 1..n |-> Committed[i]]
  BY <1>1
<1>4. Committed' = SubSeq(Committed, 1, n)
  BY <1>1, <1>2, <1>3
<1> QED
  BY <1>1, <1>4

\* A sequence is its head before the rest.
LEMMA HeadFirst ==
    ASSUME NEW S, NEW s \in Seq(S), s # <<>>
    PROVE  s = <<Head(s)>> \o Tail(s) /\ Head(s) \in S /\ Tail(s) \in Seq(S)
<1>1. /\ Head(s) \in S /\ Tail(s) \in Seq(S) /\ Len(Tail(s)) = Len(s) - 1
      /\ \A i \in 1..Len(Tail(s)) : Tail(s)[i] = s[i + 1]
  BY HeadTailProperties, Zenon
<1>2. <<Head(s)>> \in Seq(S) /\ Len(<<Head(s)>>) = 1 /\ <<Head(s)>>[1] = s[1] /\ Len(s) \in Nat
  BY <1>1, LenProperties
<1>3. /\ <<Head(s)>> \o Tail(s) \in Seq(S) /\ Len(<<Head(s)>> \o Tail(s)) = Len(s)
      /\ \A i \in 1..Len(s) :
           (<<Head(s)>> \o Tail(s))[i] = IF i <= 1 THEN <<Head(s)>>[i] ELSE Tail(s)[i - 1]
  BY <1>1, <1>2, ConcatProperties
<1>4. \A i \in 1..Len(s) : s[i] = (<<Head(s)>> \o Tail(s))[i]
  BY <1>1, <1>2, <1>3
<1> QED
  BY <1>1, <1>3, <1>4, SeqEqual

\* Concatenation may be regrouped, in the form the steps below cite it.
LEMMA Regroup ==
    \A s, t, u \in Seq(Tokens) : (s \o t) \o u = s \o (t \o u)
<1> QED
  BY ConcatAssociative

\* A call begins: nothing but the call record changes.
LEMMA BeginKeeps ==
    ASSUME IInv, NEW op \in {"stage", "advance", "encode", "decode"}, NEW todo \in Seq(Tokens),
           Begin(op, todo), op = "encode" => Committed = <<>> /\ pending = <<>>
    PROVE  IInv'
<1>1. call' = [op |-> op, todo |-> todo, asked |-> todo] /\ UNCHANGED <<slots, length, pending, sum, logits, position>>
  BY DEF Begin, data
<1>2. Committed' = Committed
  BY <1>1 DEF Committed
<1>3. Types'
  BY <1>1, <1>2 DEF IInv, Types
<1>4. EncodeProgress'
  <2>1. CASE op = "encode"
    <3>1. Committed' \o pending' \o call'.todo = todo
      BY <1>1, <1>2, <2>1, ConcatEmptySeq, EmptySeq
    <3> QED
      BY <1>1, <3>1 DEF EncodeProgress
  <2>2. CASE op # "encode"
    BY <1>1, <2>2 DEF EncodeProgress
  <2> QED
    BY <2>1, <2>2
<1> QED
  BY <1>1, <1>2, <1>3, <1>4 DEF IInv, SumIsCommitted, LogitsCurrent, PendingIsStaged

\* A token is staged: the call keeps its rest.
LEMMA StageKeeps == ASSUME IInv, Stage PROVE IInv'
<1>1. Committed' = Committed /\ Committed \in Seq(Tokens) /\ pending = <<>> /\ call.todo \in Seq(Tokens)
  BY DEF Stage, Committed, IInv, Types
<1> DEFINE row == Head(call.todo)
<1>2. call.todo = <<row>> \o Tail(call.todo) /\ row \in Tokens /\ Tail(call.todo) \in Seq(Tokens)
  BY <1>1, HeadFirst DEF Stage
<1>3. pending' = <<row>> /\ <<row>> \in Seq(Tokens) /\ Len(<<row>>) = 1
  BY <1>2 DEF Stage
<1>4. logits' = Committed \o <<row>> /\ logits' \in Seq(Tokens)
  <2>1. logits' = Append(Committed, row)
    BY DEF Stage, IInv, SumIsCommitted
  <2> QED
    BY <1>1, <1>2, <2>1, AppendIsConcat, AppendProperties
<1>5. UNCHANGED <<slots, length, sum, position>> /\ length < Capacity
  BY DEF Stage
<1>6. CASE call.op = "stage"
  <2>1. call' = NoCall /\ ret' = "ok"
    BY <1>6 DEF Stage, Return
  <2> QED
    BY <1>1, <1>3, <1>4, <1>5, <2>1
    DEF NoCall, IInv, Types, SumIsCommitted, LogitsCurrent, PendingIsStaged, EncodeProgress
<1>7. CASE call.op # "stage"
  <2>1. /\ call' = [call EXCEPT !.todo = Tail(@)] /\ call'.op = call.op /\ call'.op # "idle"
        /\ call'.todo = Tail(call.todo) /\ call'.asked = call.asked
    BY <1>7 DEF Stage, IInv, Types
  <2>2. Types'
    <3>1. call' \in [op : {"idle", "stage", "advance", "encode", "decode"}, todo : Seq(Tokens), asked : Seq(Tokens)]
      BY <1>2, <2>1 DEF IInv, Types
    <3>2. pending' \in Seq(Tokens) /\ Len(pending') <= 1
      BY <1>3
    <3> QED
      BY <1>1, <1>4, <1>5, <3>1, <3>2 DEF IInv, Types
  <2>3. EncodeProgress'
    <3>1. Committed \o pending \o call.todo = Committed \o <<row>> \o Tail(call.todo)
      <4>1. Committed \o pending = Committed
        BY <1>1, ConcatEmptySeq
      <4>2. (Committed \o <<row>>) \o Tail(call.todo) = Committed \o (<<row>> \o Tail(call.todo))
        BY <1>1, <1>2, <1>3, Regroup, Zenon
      <4> QED
        BY <1>2, <4>1, <4>2
    <3> QED
      BY <1>1, <1>3, <2>1, <3>1 DEF IInv, EncodeProgress
  <2> QED
    BY <1>1, <1>3, <1>4, <1>5, <2>1, <2>2, <2>3 DEF IInv, SumIsCommitted, LogitsCurrent, PendingIsStaged
<1> QED
  BY <1>6, <1>7

\* The row is committed, or the commit fails and only the row is gone.
LEMMA CommitKeeps == ASSUME IInv, Commit PROVE IInv'
<1>1. /\ Committed' = Committed \o pending /\ Committed' \in Seq(Tokens)
      /\ slots' \in [1..Capacity -> Tokens \cup {"zero"}] /\ length' \in 0..Capacity
  BY CommitAppends
<1>2. /\ sum' = sum \o pending /\ pending' = <<>> /\ logits' = logits
      /\ length' = length + 1 /\ position' = position + 1 /\ logits = sum \o pending /\ call.op # "idle"
  BY DEF Commit, IInv, PendingIsStaged
<1>3. Committed' \o pending' = Committed'
  BY <1>1, <1>2, ConcatEmptySeq
<1>4. SumIsCommitted' /\ logits' = Committed' \o pending'
  BY <1>1, <1>2, <1>3 DEF IInv, SumIsCommitted
<1>5. Len(pending') = 0 /\ pending' \in Seq(Tokens)
  BY <1>2
<1>6. CASE call.todo = <<>>
  <2>1. call' = NoCall
    BY <1>6 DEF Commit, Return
  <2> QED
    BY <1>1, <1>2, <1>4, <1>5, <2>1
    DEF NoCall, IInv, Types, LogitsCurrent, PendingIsStaged, EncodeProgress
<1>7. CASE call.todo # <<>>
  <2>1. call' = call
    BY <1>7 DEF Commit
  <2>2. EncodeProgress'
    BY <1>1, <1>3, <2>1 DEF IInv, EncodeProgress
  <2> QED
    BY <1>1, <1>2, <1>4, <1>5, <2>1, <2>2 DEF IInv, Types, LogitsCurrent, PendingIsStaged
<1> QED
  BY <1>6, <1>7

\* A call ends early: the pending row may be gone, no row and no sum is.
LEMMA FailKeeps ==
    ASSUME IInv, UNCHANGED <<slots, length, sum, logits, position>>, pending' \in {pending, <<>>},
           call' = NoCall, ret' = "err"
    PROVE  IInv'
<1>1. Committed' = Committed
  BY DEF Committed
<1>2. pending' \in Seq(Tokens) /\ Len(pending') <= 1
  <2>1. <<>> \in Seq(Tokens) /\ Len(<<>>) = 0
    BY EmptySeq, Zenon
  <2>2. pending \in Seq(Tokens) /\ Len(pending) <= 1
    BY DEF IInv, Types
  <2>3. CASE pending' = pending
    BY <2>2, <2>3, Zenon
  <2>4. CASE pending' = <<>>
    BY <2>1, <2>4
  <2> QED
    BY <2>3, <2>4
<1> QED
  BY <1>1, <1>2
  DEF NoCall, IInv, Types, SumIsCommitted, LogitsCurrent, PendingIsStaged, EncodeProgress

\* Back to n rows: the sum is added up again, the logits only if the call succeeds.
LEMMA CutKeepsInvariant ==
    ASSUME IInv, NEW n \in 0..Capacity, n <= length, length' = n, position' = n, pending' = <<>>,
           sum' = SubSeq(Committed, 1, n), UNCHANGED slots, call' = NoCall,
           logits' = sum' \/ (logits' = logits /\ ret' = "err")
    PROVE  IInv'
<1>1. Committed' = sum' /\ Committed' \in Seq(Tokens)
  BY CutKeeps
<1>2. Committed' \o pending' = Committed'
  BY <1>1, ConcatEmptySeq
<1>3. logits' \in Seq(Tokens) /\ Len(pending') = 0 /\ pending' \in Seq(Tokens)
  <2>1. logits \in Seq(Tokens)
    BY DEF IInv, Types
  <2>2. <<>> \in Seq(Tokens) /\ Len(<<>>) = 0
    BY EmptySeq, Zenon
  <2> QED
    BY <1>1, <2>1, <2>2
<1> QED
  BY <1>1, <1>2, <1>3
  DEF NoCall, IInv, Types, SumIsCommitted, LogitsCurrent, PendingIsStaged, EncodeProgress

\* Every step keeps the invariant: one case per action.
LEMMA StepHolds == IInv /\ [Next]_vars => IInv'
<1> SUFFICES ASSUME IInv, [Next]_vars PROVE IInv'
    OBVIOUS
<1>1. ASSUME NEW t \in Tokens, StageToken(t) \/ DecodeOne(t) PROVE IInv'
  <2>1. <<t>> \in Seq(Tokens)
    OBVIOUS
  <2> QED
    BY <1>1, <2>1, BeginKeeps DEF StageToken, DecodeOne
<1>2. CASE AdvanceKv
  <2>1. <<>> \in Seq(Tokens)
    OBVIOUS
  <2> QED
    BY <1>2, <2>1, BeginKeeps DEF AdvanceKv
<1>3. ASSUME NEW tokens \in Prompts, Encode(tokens) PROVE IInv'
  <2>1. tokens \in Seq(Tokens)
    BY PortableAssumption, SeqDef DEF Prompts
  <2>2. Committed = <<>>
    BY <1>3 DEF Encode, Committed
  <2> QED
    BY <1>3, <2>1, <2>2, BeginKeeps DEF Encode
<1>4. CASE Stage
  BY <1>4, StageKeeps
<1>5. CASE StageFail \/ CommitFail
  BY <1>5, FailKeeps DEF StageFail, CommitFail, Return, data
<1>6. CASE Commit
  BY <1>6, CommitKeeps
<1>7. ASSUME NEW n \in 0..Capacity, Truncate(n) \/ TruncateFail(n) PROVE IInv'
  BY <1>7, CutKeepsInvariant DEF Truncate, TruncateFail
<1>8. CASE Reset
  <2>1. SubSeq(Committed, 1, 0) = <<>> /\ 0 \in 0..Capacity /\ 0 <= length
    BY PortableAssumption, SubSeqEmpty DEF IInv, Types
  <2> QED
    BY <1>8, <2>1, CutKeepsInvariant DEF Reset
<1>9. CASE UNCHANGED vars
  <2>1. Committed' = Committed
    BY <1>9 DEF vars, Committed
  <2> QED
    BY <1>9, <2>1
    DEF vars, IInv, Types, SumIsCommitted, LogitsCurrent, PendingIsStaged, EncodeProgress
<1> QED
  BY <1>1, <1>2, <1>3, <1>4, <1>5, <1>6, <1>7, <1>8, <1>9 DEF Next

\* The invariant holds in every state of the session.
LEMMA Invariant == Spec => []IInv
<1> QED
  BY InitHolds, StepHolds, PTL DEF Spec

\* session.rs:326-409: whichever kernels fail in whichever call, the running sum is
\* that of the committed rows in their order, and position counts them.
THEOREM SumHolds == Spec => []SumIsCommitted
<1>1. IInv => SumIsCommitted
  BY DEF IInv
<1> QED
  BY <1>1, Invariant, PTL

\* session.rs:304-323, 380-409: the logits after a call that succeeds are those of
\* the committed rows and the pending one.
THEOREM LogitsHold == Spec => []LogitsCurrent
<1>1. IInv => LogitsCurrent
  BY DEF IInv
<1> QED
  BY <1>1, Invariant, PTL

\* A sequence is a prefix of what is put behind it.
LEMMA PrefixOfConcat ==
    ASSUME NEW S, NEW s \in Seq(S), NEW t \in Seq(S)
    PROVE  IsPrefix(s, s \o t)
<1>1. Len(s \o t) = Len(s) + Len(t) /\ Len(s) \in Nat /\ Len(t) \in Nat /\ s \o t \in Seq(S)
  BY ConcatProperties, LenProperties
<1>2. SubSeq(s, 1, Len(s)) = SubSeq(s \o t, 1, Len(s))
  <2>1. CASE Len(s) = 0
    BY <2>1, SubSeqEmpty
  <2>2. CASE Len(s) # 0
    BY <1>1, <2>2, SubSeqOfConcat1
  <2> QED
    BY <2>1, <2>2
<1> QED
  BY <1>1, <1>2 DEF IsPrefix

\* session.rs:351-367: an encode that fails leaves a prefix of its tokens committed,
\* one that succeeds all of them.
THEOREM EncodeHolds == Spec => EncodePrefix
<1> DEFINE Ends == call.op = "encode" /\ call'.op = "idle" =>
                     /\ IsPrefix(Committed', call.asked)
                     /\ ret' = "ok" => Committed' = call.asked
<1>1. ASSUME IInv, [Next]_vars PROVE [Ends]_vars
  <2> SUFFICES ASSUME Next, call.op = "encode", call'.op = "idle"
               PROVE  IsPrefix(Committed', call.asked) /\ (ret' = "ok" => Committed' = call.asked)
    BY <1>1
  <2>1. /\ Committed \in Seq(Tokens) /\ pending \in Seq(Tokens) /\ call.todo \in Seq(Tokens)
        /\ call.asked = Committed \o pending \o call.todo
    BY <1>1 DEF IInv, Types, EncodeProgress
  <2>2. pending \o call.todo \in Seq(Tokens) /\ call.asked = Committed \o (pending \o call.todo)
    <3>1. pending \o call.todo \in Seq(Tokens)
      BY <2>1, ConcatProperties, Zenon
    <3>2. (Committed \o pending) \o call.todo = Committed \o (pending \o call.todo)
      BY <2>1, Regroup, Zenon
    <3> QED
      BY <2>1, <3>1, <3>2
  <2>3. StageFail \/ CommitFail \/ Commit
    <3>1. ~Stage
      <4>1. call' = [call EXCEPT !.todo = Tail(@)] => call'.op = "encode"
        BY <1>1 DEF IInv, Types
      <4> QED
        BY <4>1 DEF Stage
    <3>2. ~Enter
      BY DEF Enter
    <3> QED
      BY <3>1, <3>2 DEF Next, StageToken, DecodeOne, AdvanceKv, Encode, Begin, Truncate, TruncateFail, Reset
  <2>4. CASE StageFail \/ CommitFail
    <3>1. Committed' = Committed /\ ret' = "err"
      BY <2>4 DEF StageFail, CommitFail, Return, data, Committed
    <3> QED
      BY <2>1, <2>2, <3>1, PrefixOfConcat
  <2>5. CASE Commit
    <3>1. call.todo = <<>>
      BY <2>5 DEF Commit
    <3>2. Committed' = Committed \o pending
      BY <1>1, <2>5, CommitAppends
    <3>3. Committed' = call.asked
      BY <2>1, <3>1, <3>2, ConcatEmptySeq, ConcatProperties
    <3>4. Committed' \in Seq(Tokens) /\ call.asked = Committed' \o <<>>
      BY <1>1, <2>5, <3>3, CommitAppends, ConcatEmptySeq
    <3> QED
      BY <3>3, <3>4, PrefixOfConcat, EmptySeq
  <2> QED
    BY <2>3, <2>4, <2>5
<1> QED
  BY <1>1, Invariant, PTL DEF Spec, EncodePrefix

-----------------------------------------------------------------------------
\* Replay of rows.

\* Division with remainder.
LEMMA DivMod ==
    ASSUME NEW n \in Nat \ {0}, NEW a \in Nat
    PROVE  /\ a \div n \in Nat /\ a % n \in 0..(n - 1)
           /\ a = (a \div n) * n + (a % n)
OBVIOUS

\* Quotient and remainder are the only ones.
LEMMA QuotientUnique ==
    ASSUME NEW n \in Nat \ {0}, NEW a \in Nat, NEW b \in Nat,
           NEW r \in 0..(n - 1), NEW s \in 0..(n - 1), a * n + r = b * n + s
    PROVE  a = b /\ r = s
<1>1. ASSUME NEW u \in Nat, NEW v \in Nat, NEW q \in 0..(n - 1), u < v
      PROVE  u * n + q < v * n
  <2>1. PICK d \in Nat : v = u + 1 + d
    <3>1. v - u - 1 \in Nat /\ v = u + 1 + (v - u - 1)
      BY <1>1
    <3> QED BY <3>1
  <2>2. v * n = u * n + n + d * n
    BY <2>1
  <2>3. d * n \in Nat /\ u * n \in Nat
    OBVIOUS
  <2> QED BY <2>2, <2>3
<1>2. a * n \in Nat /\ b * n \in Nat
  OBVIOUS
<1>3. ~(a < b)
  <2>1. a < b => a * n + r < b * n
    BY <1>1
  <2> QED BY <2>1, <1>2
<1>4. ~(b < a)
  <2>1. b < a => b * n + s < a * n
    BY <1>1
  <2> QED BY <2>1, <1>2
<1>5. a = b
  BY <1>3, <1>4
<1> QED BY <1>2, <1>5

\* The row and the column of a value k whole rows further on.
LEMMA RowFurtherOn ==
    ASSUME NEW n \in Nat \ {0}, NEW k \in Nat, NEW j \in Nat
    PROVE  (k * n + j) \div n = k + j \div n /\ (k * n + j) % n = j % n
<1>1. k * n \in Nat /\ k * n + j \in Nat
  OBVIOUS
<1>2. PICK q \in Nat, r \in 0..(n - 1) : q = j \div n /\ r = j % n /\ j = q * n + r
  BY DivMod
<1>3. PICK p \in Nat, s \in 0..(n - 1) :
         p = (k * n + j) \div n /\ s = (k * n + j) % n /\ k * n + j = p * n + s
  BY <1>1, DivMod
<1>4. (k + q) * n = k * n + q * n /\ q * n \in Nat
  OBVIOUS
<1>5. (k + q) * n + r = p * n + s /\ k + q \in Nat
  BY <1>1, <1>2, <1>3, <1>4
<1>6. k + q = p /\ r = s
  BY <1>5, QuotientUnique
<1> QED BY <1>2, <1>3, <1>6

\* A request asks for positions of the source it names, for as many of them as
\* the caller meant.
RequestMade ==
    request # NoRequest =>
        /\ request.start \in 0..LastPosition /\ request.end \in 0..LastPosition
        /\ request.from.start <= request.start /\ request.start <= request.end
        /\ request.end <= request.from.end
        /\ request.items = request.end - request.start + 1

\* Every owner has its source of the present generation, nobody else has one.
OwnersBound ==
    bound # Unbound =>
        \A c \in Components, l \in LayerIds :
            IF reusePlan[c][l] = Own
            THEN \E s, e \in 0..LastPosition :
                    Makeable(s, e) /\ bound[c][l] = MadeSource(Identity(c, l, generation, s, e))
            ELSE bound[c][l] = NoSource

ReplayIInv ==
    /\ reusePlan \in [Components -> [LayerIds -> LayerIds \cup {Own}]] /\ PlanValid(reusePlan)
    /\ bound = [c \in Components |-> [l \in LayerIds |-> bound[c][l]]]
    /\ generation \in Nat
    /\ OwnersBound /\ RequestMade /\ ReplayExact

\* A layer of a valid plan has an owner, itself or an earlier one.
LEMMA OwnerOwns ==
    ASSUME reusePlan \in [Components -> [LayerIds -> LayerIds \cup {Own}]], PlanValid(reusePlan),
           NEW c \in Components, NEW l \in LayerIds
    PROVE  Owner(reusePlan, c, l) \in LayerIds /\ reusePlan[c][Owner(reusePlan, c, l)] = Own
  BY DEF PlanValid, Owner

\* The count of a window overflows only with the count of its source.
LEMMA WindowCounts ==
    ASSUME NEW s \in 0..LastPosition, NEW e \in 0..LastPosition, Makeable(s, e),
           NEW a \in 0..LastPosition, NEW b \in 0..LastPosition, s <= a, a <= b, b <= e
    PROVE  LogicalItems(a, b) = b - a + 1 /\ LogicalItems(s, e) = e - s + 1
<1>1. e - s # LastPosition /\ e - s \in 0..LastPosition
  BY ReplayAssumption DEF Makeable, LogicalItems
<1>2. b - a # LastPosition
  BY <1>1, ReplayAssumption
<1> QED BY <1>1, <1>2 DEF LogicalItems

\* What a replay that succeeds returns of positions a..b: their rows, from the
\* source the request names.
WindowIs(result, r, source, c, l, gen, a, b) ==
    result.ok => /\ r.from = source.id
                 /\ Len(result.cells) = (b - a + 1) * RowWidth
                 /\ \A i \in DOMAIN result.cells :
                       result.cells[i] = <<<<c, l>>, gen, a + (i - 1) \div RowWidth, (i - 1) % RowWidth>>

\* The rows of a window of a source: all columns of its positions, in order.
LEMMA WindowRows ==
    ASSUME NEW c \in Components, NEW l \in LayerIds, NEW gen \in Nat,
           NEW s \in 0..LastPosition, NEW e \in 0..LastPosition, Makeable(s, e),
           NEW a \in 0..LastPosition, NEW b \in 0..LastPosition, s <= a, a <= b, b <= e,
           NEW r, r.start = a, r.end = b,
           NEW source, source = MadeSource(Identity(c, l, gen, s, e)),
           NEW result, result = ReplayWindow(source, r)
    PROVE  WindowIs(result, r, source, c, l, gen, a, b)
<1>1. LogicalItems(a, b) = b - a + 1 /\ LogicalItems(s, e) = e - s + 1
  BY WindowCounts
<1>2. PICK id : /\ id = Identity(c, l, gen, s, e)
                /\ id.from = <<c, l>> /\ id.gen = gen /\ id.start = s /\ id.end = e
  BY DEF Identity
<1>3. PICK n \in Nat, k \in Nat, m \in Nat : n = e - s + 1 /\ k = a - s /\ m = b - a + 1
  OBVIOUS
<1>4. source.id = id /\ source.rows = Cells(id, n)
  BY <1>1, <1>2, <1>3 DEF MadeSource
<1>5. RowWidth \in Nat \ {0} /\ n * RowWidth \in Nat /\ k * RowWidth \in Nat /\ m * RowWidth \in Nat
  BY ReplayAssumption
<1>6. k + m <= n
  BY <1>3
<1>7. k * RowWidth + m * RowWidth <= n * RowWidth
  <2>1. PICK d \in Nat : n = k + m + d
    <3>1. n - (k + m) \in Nat /\ n = k + m + (n - (k + m))
      BY <1>6
    <3> QED BY <3>1
  <2>2. n * RowWidth = k * RowWidth + m * RowWidth + d * RowWidth /\ d * RowWidth \in Nat
    BY <2>1, <1>5
  <2> QED BY <2>2, <1>5
<1>8. PICK from \in Nat, len \in Nat, all \in Nat :
         from = k * RowWidth /\ len = m * RowWidth /\ all = n * RowWidth /\ from + len <= all
  BY <1>5, <1>7
<1>9. RowExtent(source, r) = [start |-> from, len |-> len]
  BY <1>1, <1>2, <1>3, <1>4, <1>8 DEF RowExtent
<1>10. PICK rows : rows = Cells(id, n)
  OBVIOUS
<1>11. /\ DOMAIN rows = 1..all
       /\ \A i \in 1..all : rows[i] = <<<<c, l>>, gen, s + (i - 1) \div RowWidth, (i - 1) % RowWidth>>
  BY <1>2, <1>8, <1>10 DEF Cells
<1>12. Len(rows) = all
  BY <1>8, <1>11
<1>13. PICK part : part = SubSeq(rows, from + 1, from + len)
  OBVIOUS
<1>14. Len(part) = len /\ DOMAIN part = 1..len /\ \A i \in 1..len : part[i] = rows[from + i]
  <2> DEFINE S == {rows[i] : i \in 1..all}
  <2>1. from + 1 \in Int /\ from + len \in Int /\ \A i \in (from + 1)..(from + len) : rows[i] \in S
    <3>1. \A i \in (from + 1)..(from + len) : i \in 1..all
      BY <1>8
    <3> QED BY <3>1, <1>8
  <2> HIDE DEF S
  <2>2. /\ SubSeq(rows, from + 1, from + len) \in Seq(S)
        /\ Len(SubSeq(rows, from + 1, from + len))
              = IF from + 1 <= from + len THEN (from + len) - (from + 1) + 1 ELSE 0
        /\ \A i \in 1..((from + len) - (from + 1) + 1) :
              SubSeq(rows, from + 1, from + len)[i] = rows[(from + 1) + i - 1]
    BY <2>1, SubSeqProperties
  <2>6. /\ part \in Seq(S)
        /\ Len(part) = IF from + 1 <= from + len THEN (from + len) - (from + 1) + 1 ELSE 0
        /\ \A i \in 1..((from + len) - (from + 1) + 1) : part[i] = rows[(from + 1) + i - 1]
    BY <2>2, <1>13
  <2>3. (from + len) - (from + 1) + 1 = len /\ \A i \in 1..len : (from + 1) + i - 1 = from + i
    BY <1>8
  <2>4. Len(part) = len
    BY <2>6, <2>3, <1>8
  <2>5. DOMAIN part = 1..len
    BY <2>6, <2>4
  <2> QED BY <2>6, <2>3, <2>4, <2>5
<1>15. ASSUME NEW i \in 1..len
       PROVE  part[i] = <<<<c, l>>, gen, a + (i - 1) \div RowWidth, (i - 1) % RowWidth>>
  <2>1. from + i \in 1..all /\ (from + i) - 1 = k * RowWidth + (i - 1) /\ i - 1 \in Nat
    BY <1>8
  <2>2. /\ (k * RowWidth + (i - 1)) \div RowWidth = k + (i - 1) \div RowWidth
        /\ (k * RowWidth + (i - 1)) % RowWidth = (i - 1) % RowWidth
    BY <2>1, <1>5, RowFurtherOn
  <2>3. (i - 1) \div RowWidth \in Nat
    BY <2>1, <1>5, DivMod
  <2>4. s + (k + (i - 1) \div RowWidth) = a + (i - 1) \div RowWidth
    BY <2>3, <1>3
  <2> QED BY <2>1, <2>2, <2>4, <1>11, <1>14
<1>16. ASSUME result.ok PROVE r.from = source.id /\ result.cells = part
  <2>1. result = IF source.id # r.from \/ from + len > Len(source.rows) THEN Refused
                 ELSE [ok |-> TRUE, cells |-> part]
    BY <1>4, <1>9, <1>10, <1>13 DEF ReplayWindow
  <2>2. ~Refused.ok
    BY DEF Refused
  <2> QED BY <2>1, <2>2, <1>16
<1>17. len = (b - a + 1) * RowWidth
  BY <1>3, <1>8
<1> QED BY <1>14, <1>15, <1>16, <1>17 DEF WindowIs

\* Records joined keep their fields.
LEMMA JoinedFields ==
    ASSUME NEW f, NEW g
    PROVE  /\ DOMAIN Joined(f, g) = DOMAIN f \cup DOMAIN g
           /\ \A x \in DOMAIN f : Joined(f, g)[x] = f[x]
           /\ \A x \in DOMAIN g \ DOMAIN f : Joined(f, g)[x] = g[x]
  BY DEF Joined

\* A source in place is its layer's of the present generation, of a range that
\* has an item count; it is no other than that.
LEMMA BoundSource ==
    ASSUME ReplayIInv, NEW c \in Components, NEW l \in LayerIds, bound[c][l] # NoSource
    PROVE  \E s, e \in 0..LastPosition :
              Makeable(s, e) /\ bound[c][l] = MadeSource(Identity(c, l, generation, s, e))
<1>1. bound # Unbound
  BY DEF Unbound
<1> QED BY <1>1 DEF ReplayIInv, OwnersBound

LEMMA BindKeeps ==
    ASSUME ReplayIInv,
           NEW keys \in Bindable("key"), NEW values \in Bindable("value"),
           NEW start \in 0..1, NEW end \in 0..LastPosition, BindSources(keys, values, start, end)
    PROVE  ReplayIInv'
<1>1. ToSet(keys) = Owners(reusePlan, "key") /\ ToSet(values) = Owners(reusePlan, "value")
  BY DEF Bindable, BindComponent
<1>2. start \in 0..LastPosition /\ Makeable(start, end)
  BY ReplayAssumption DEF BindSources, Makeable
<1>3. ASSUME NEW c \in Components, NEW l \in LayerIds
      PROVE  IF reusePlan[c][l] = Own
             THEN bound'[c][l] = MadeSource(Identity(c, l, generation + 1, start, end))
             ELSE bound'[c][l] = NoSource
  <2>1. bound'[c][l] = IF l \in ToSet(IF c = "key" THEN keys ELSE values)
                       THEN MadeSource(Identity(c, l, generation + 1, start, end)) ELSE NoSource
    BY DEF BindSources
  <2>2. ToSet(IF c = "key" THEN keys ELSE values) = Owners(reusePlan, c)
    BY <1>1 DEF Components
  <2> QED BY <2>1, <2>2 DEF Owners
<1>4. OwnersBound'
  BY <1>2, <1>3 DEF BindSources, OwnersBound
<1>5. RequestMade'
  BY DEF ReplayIInv, RequestMade, BindSources
<1>6. ReplayExact'
  <2>1. played' = Refused
    BY DEF BindSources
  <2> QED BY <2>1 DEF ReplayExact, Refused
<1>7. /\ reusePlan' = reusePlan /\ generation' \in Nat
      /\ bound' = [c \in Components |-> [l \in LayerIds |-> bound'[c][l]]]
  BY DEF BindSources, ReplayIInv
<1> QED BY <1>4, <1>5, <1>6, <1>7 DEF ReplayIInv

\* What Window and Recent return is inside the source and counts its positions.
LEMMA WindowAsks ==
    ASSUME NEW id, NEW start \in 0..LastPosition, NEW end \in 0..LastPosition,
           Window(id, start, end).ok
    PROVE  /\ Window(id, start, end) = [ok |-> TRUE, from |-> id, start |-> start, end |-> end]
           /\ id.start <= start /\ start <= end /\ end <= id.end
  BY DEF Window, Refused

LEMMA RecentAsks ==
    ASSUME NEW id, NEW items \in 0..LastPosition,
           id.start \in 0..LastPosition, id.end \in 0..LastPosition, Recent(id, items).ok
    PROVE  \E start \in 0..LastPosition :
              /\ Recent(id, items) = [ok |-> TRUE, from |-> id, start |-> start, end |-> id.end]
              /\ id.start <= start /\ start <= id.end /\ items = id.end - start + 1
<1>1. /\ items # 0 /\ items - 1 <= id.end - id.start
      /\ Recent(id, items) = Window(id, id.end - (items - 1), id.end)
  BY ReplayAssumption DEF Recent, Refused
<1>2. PICK start \in 0..LastPosition : start = id.end - (items - 1)
  BY <1>1, ReplayAssumption
<1>3. Window(id, start, id.end).ok
  BY <1>1, <1>2
<1>4. /\ Window(id, start, id.end) = [ok |-> TRUE, from |-> id, start |-> start, end |-> id.end]
      /\ id.start <= start /\ start <= id.end
  BY <1>3, WindowAsks
<1>5. items = id.end - start + 1
  BY <1>2, ReplayAssumption
<1> QED BY <1>1, <1>2, <1>4, <1>5

LEMMA RequestKeeps ==
    ASSUME ReplayIInv, NEW id, NEW start \in 0..LastPosition, NEW end \in 0..LastPosition,
           id.start <= start, start <= end, end <= id.end,
           MakeRequest([ok |-> TRUE, from |-> id, start |-> start, end |-> end], end - start + 1)
    PROVE  ReplayIInv'
<1>1. PICK r : r = [ok |-> TRUE, from |-> id, start |-> start, end |-> end]
  OBVIOUS
<1>2. PICK i : i = [items |-> end - start + 1]
  OBVIOUS
<1>3. request' = Joined(r, i)
  BY <1>1, <1>2 DEF MakeRequest
<1>4. /\ DOMAIN r = {"ok", "from", "start", "end"} /\ DOMAIN i = {"items"}
      /\ r["from"] = id /\ r["start"] = start /\ r["end"] = end
      /\ i["items"] = end - start + 1
  BY <1>1, <1>2
<1>5. /\ request'.from = id /\ request'.start = start /\ request'.end = end
      /\ request'.items = end - start + 1
  <2>1. /\ \A x \in DOMAIN r : Joined(r, i)[x] = r[x]
        /\ \A x \in DOMAIN i \ DOMAIN r : Joined(r, i)[x] = i[x]
    BY JoinedFields, Zenon
  <2>2. /\ request'["from"] = r["from"] /\ request'["start"] = r["start"]
        /\ request'["end"] = r["end"] /\ request'["items"] = i["items"]
    BY <2>1, <1>3, <1>4
  <2> QED BY <2>2, <1>4
<1>6. RequestMade'
  BY <1>5 DEF RequestMade
<1>7. ReplayExact'
  <2>1. played' = Refused
    BY DEF MakeRequest
  <2> QED BY <2>1 DEF ReplayExact, Refused
<1>8. reusePlan' = reusePlan /\ bound' = bound /\ generation' = generation
  BY DEF MakeRequest
<1>9. OwnersBound'
  BY <1>8 DEF ReplayIInv, OwnersBound
<1> QED BY <1>6, <1>7, <1>8, <1>9 DEF ReplayIInv

LEMMA ReplayKeeps ==
    ASSUME ReplayIInv, NEW c \in Components, NEW l \in LayerIds, Replay(c, l)
    PROVE  ReplayIInv'
<1>1. PICK o \in LayerIds : o = Owner(reusePlan, c, l) /\ reusePlan[c][o] = Own
  BY OwnerOwns DEF ReplayIInv
<1>2. bound # Unbound /\ request # NoRequest
  BY DEF Replay
<1>3. PICK s \in 0..LastPosition, e \in 0..LastPosition :
         Makeable(s, e) /\ bound[c][o] = MadeSource(Identity(c, o, generation, s, e))
  BY <1>1, <1>2 DEF ReplayIInv, OwnersBound
<1>4. PICK source : source = MadeSource(Identity(c, o, generation, s, e)) /\ source = SourceOf(c, l)
  BY <1>1, <1>3 DEF SourceOf
<1>5. source # NoSource
  <2>1. "id" \in DOMAIN source /\ "id" \notin DOMAIN NoSource
    BY <1>4 DEF MadeSource, NoSource
  <2> QED BY <2>1
<1>6. PICK result : result = ReplayWindow(source, request)
  OBVIOUS
<1>7. PICK tag : tag = [component |-> c, layer |-> l, asked |-> request, gen |-> generation]
  OBVIOUS
<1>8. played' = Joined(result, tag)
  BY <1>4, <1>5, <1>6, <1>7 DEF Replay
<1>9. /\ DOMAIN tag = {"component", "layer", "asked", "gen"}
      /\ tag["component"] = c /\ tag["layer"] = l /\ tag["asked"] = request /\ tag["gen"] = generation
  BY <1>7
<1>10. \/ result = Refused
       \/ DOMAIN result = {"ok", "cells"} /\ result["ok"] = TRUE
  BY <1>6 DEF ReplayWindow
<1>11. reusePlan' = reusePlan /\ bound' = bound /\ generation' = generation /\ request' = request
  BY DEF Replay
<1>14. /\ DOMAIN played' = DOMAIN result \cup DOMAIN tag
       /\ \A x \in DOMAIN result : played'[x] = result[x]
       /\ \A x \in DOMAIN tag \ DOMAIN result : played'[x] = tag[x]
  <2>1. /\ DOMAIN Joined(result, tag) = DOMAIN result \cup DOMAIN tag
        /\ \A x \in DOMAIN result : Joined(result, tag)[x] = result[x]
        /\ \A x \in DOMAIN tag \ DOMAIN result : Joined(result, tag)[x] = tag[x]
    BY JoinedFields, Zenon
  <2> QED BY <2>1, <1>8
<1>12. ReplayExact'
  <2>1. CASE result = Refused
    <3>1. DOMAIN result = {"ok"} /\ result["ok"] = FALSE
      BY <2>1 DEF Refused
    <3>2. "missing" \notin DOMAIN played' /\ played'["ok"] = FALSE
      BY <3>1, <1>9, <1>14
    <3> QED BY <3>2 DEF ReplayExact
  <2>2. CASE DOMAIN result = {"ok", "cells"} /\ result["ok"] = TRUE
    <3>1. /\ "missing" \notin DOMAIN played' /\ played'.ok = TRUE
          /\ played'.cells = result.cells /\ played'.component = c /\ played'.layer = l
          /\ played'.asked = request /\ played'.gen = generation
      <4>1. /\ played'["ok"] = TRUE /\ played'["cells"] = result["cells"]
            /\ played'["component"] = c /\ played'["layer"] = l
            /\ played'["asked"] = request /\ played'["gen"] = generation
        BY <2>2, <1>9, <1>14
      <4> QED BY <4>1, <2>2, <1>9, <1>14
    <3>2. PICK a \in 0..LastPosition, b \in 0..LastPosition :
             /\ a = request.start /\ b = request.end /\ a <= b
             /\ request.from.start <= a /\ b <= request.from.end
             /\ request.items = b - a + 1
      BY <1>2 DEF ReplayIInv, RequestMade
    <3>3. request.from = source.id /\ source.id = Identity(c, o, generation, s, e)
      <4>1. request.from = source.id
        BY <2>2, <1>6 DEF ReplayWindow, Refused
      <4> QED BY <4>1, <1>4 DEF MadeSource
    <3>4. /\ request.from.start = s /\ request.from.end = e
          /\ request.from.from = <<c, o>> /\ request.from.gen = generation
      BY <3>3 DEF Identity
    <3>5. s <= a /\ b <= e
      BY <3>2, <3>4
    <3>6. /\ Len(result.cells) = (b - a + 1) * RowWidth
          /\ \A i \in DOMAIN result.cells :
                result.cells[i] = <<<<c, o>>, generation, a + (i - 1) \div RowWidth,
                                    (i - 1) % RowWidth>>
      <4>1. generation \in Nat /\ result.ok
        BY <2>2 DEF ReplayIInv
      <4>2. request.start = a /\ request.end = b /\ a <= b /\ s <= a /\ b <= e
        BY <3>2, <3>5
      <4>3. PICK r : r = request
        OBVIOUS
      <4>4. r.start = a /\ r.end = b /\ result = ReplayWindow(source, r)
        BY <4>2, <4>3, <1>6
      <4>5. result.ok => /\ r.from = source.id
                         /\ Len(result.cells) = (b - a + 1) * RowWidth
                         /\ \A i \in DOMAIN result.cells :
                               result.cells[i] = <<<<c, o>>, generation, a + (i - 1) \div RowWidth,
                                                   (i - 1) % RowWidth>>
        <5>1. PICK gen \in Nat : gen = generation
          BY <4>1
        <5>2. /\ s <= a /\ a <= b /\ b <= e /\ Makeable(s, e) /\ r.start = a /\ r.end = b
              /\ source = MadeSource(Identity(c, o, gen, s, e)) /\ result = ReplayWindow(source, r)
          BY <4>2, <4>4, <1>3, <1>4, <5>1
        <5>3. WindowIs(result, r, source, c, o, gen, a, b)
          BY <5>2, WindowRows
        <5> QED BY <5>1, <5>3 DEF WindowIs
      <4> QED BY <4>1, <4>5
    <3>7. (IF reusePlan[c][l] = Own THEN l ELSE reusePlan[c][l]) = o
      BY <1>1 DEF Owner
    <3> QED BY <3>1, <3>2, <3>4, <3>6, <3>7, <1>1, <1>11 DEF ReplayExact
  <2> QED BY <1>10, <2>1, <2>2
<1>13. OwnersBound' /\ RequestMade'
  BY <1>11 DEF ReplayIInv, OwnersBound, RequestMade
<1> QED BY <1>11, <1>12, <1>13 DEF ReplayIInv

\* replay_state.rs, replay.rs of both backends and kv_reuse.rs: a replay returns
\* exactly the values it was asked for, or nothing.
THEOREM ReplayHolds == ReplaySpec => []ReplayExact
<1>1. ReplayInit => ReplayIInv
  <2> SUFFICES ASSUME ReplayInit PROVE ReplayIInv
    OBVIOUS
  <2>1. reusePlan \in [Components -> [LayerIds -> LayerIds \cup {Own}]] /\ PlanValid(reusePlan)
    BY DEF ReplayInit, Sources
  <2>2. bound = [c \in Components |-> [l \in LayerIds |-> bound[c][l]]] /\ generation \in Nat
    BY DEF ReplayInit, Unbound
  <2>3. ReplayExact
    BY DEF ReplayInit, ReplayExact, Refused
  <2> QED BY <2>1, <2>2, <2>3 DEF ReplayInit, ReplayIInv, OwnersBound, RequestMade
<1>2. ReplayIInv /\ [ReplayNext]_replayVars => ReplayIInv'
  <2> SUFFICES ASSUME ReplayIInv, [ReplayNext]_replayVars PROVE ReplayIInv'
    OBVIOUS
  <2>1. ASSUME NEW keys \in Bindable("key"), NEW values \in Bindable("value"),
               NEW start \in 0..1, NEW end \in 0..LastPosition, BindSources(keys, values, start, end)
        PROVE  ReplayIInv'
    BY <2>1, BindKeeps
  <2>2. ASSUME NEW id \in BoundIds
        PROVE  id.start \in 0..LastPosition /\ id.end \in 0..LastPosition
    <3>1. PICK c \in Components, l \in LayerIds : bound[c][l] # NoSource /\ id = bound[c][l].id
      BY <2>2 DEF BoundIds
    <3>2. PICK s \in 0..LastPosition, e \in 0..LastPosition :
             bound[c][l] = MadeSource(Identity(c, l, generation, s, e))
      BY <3>1, BoundSource
    <3> QED BY <3>1, <3>2 DEF MadeSource, Identity
  <2>3. ASSUME NEW id \in BoundIds, NEW start \in 0..LastPosition, NEW end \in 0..LastPosition,
               MakeRequest(Window(id, start, end), IF start <= end THEN end - start + 1 ELSE 0)
        PROVE  ReplayIInv'
    <3>1. Window(id, start, end).ok
      BY <2>3 DEF MakeRequest
    <3>2. /\ Window(id, start, end) = [ok |-> TRUE, from |-> id, start |-> start, end |-> end]
          /\ id.start <= start /\ start <= end /\ end <= id.end
      BY <3>1, WindowAsks
    <3>3. MakeRequest([ok |-> TRUE, from |-> id, start |-> start, end |-> end], end - start + 1)
      BY <3>2, <2>3
    <3> QED BY <3>2, <3>3, RequestKeeps
  <2>4. ASSUME NEW id \in BoundIds, NEW items \in 0..LastPosition,
               MakeRequest(Recent(id, items), items)
        PROVE  ReplayIInv'
    <3>1. Recent(id, items).ok
      BY <2>4 DEF MakeRequest
    <3>2. PICK start \in 0..LastPosition :
             /\ Recent(id, items) = [ok |-> TRUE, from |-> id, start |-> start, end |-> id.end]
             /\ id.start <= start /\ start <= id.end /\ items = id.end - start + 1
      BY <3>1, <2>2, RecentAsks
    <3>3. id.end <= id.end
      BY <2>2
    <3> QED BY <3>2, <3>3, <2>2, <2>4, RequestKeeps
  <2>5. ASSUME NEW c \in Components, NEW l \in LayerIds, Replay(c, l)
        PROVE  ReplayIInv'
    BY <2>5, ReplayKeeps
  <2>6. CASE UNCHANGED replayVars
    BY <2>6 DEF replayVars, ReplayIInv, OwnersBound, RequestMade, ReplayExact
  <2> QED BY <2>1, <2>3, <2>4, <2>5, <2>6 DEF ReplayNext
<1>3. ReplayIInv => ReplayExact
  BY DEF ReplayIInv
<1> QED BY <1>1, <1>2, <1>3, PTL DEF ReplaySpec

-----------------------------------------------------------------------------
\* Artifacts and their binding.

\* Where the artifact, its binding and the device stand to each other.  Only a
\* thread that is to bring a device may change which one is granted.
ArtifactIInv ==
    /\ \A t, u \in discovering : t = u
    /\ granted # NoDevice => discovering = {} /\ granted \in DeviceLimits
    /\ granted = NoDevice => artifact = NoArtifact /\ added = NoArtifact
    /\ artifact # NoArtifact => artifact \in Artifacts /\ FieldsValid(artifact)
    /\ binding # NoArtifact =>
          artifact # NoArtifact /\ binding.fingerprint = Descriptor(artifact)
          /\ Binds(artifact, binding.fingerprint)
    /\ added # NoArtifact =>
          added.groups <= granted.dispatch /\ added.written = 0..added.elements - 1

\* A nonempty set of natural numbers has a least one.
LEMMA LeastNumber ==
    ASSUME NEW T, T \subseteq Nat, T # {}
    PROVE  \E x \in T : \A y \in T : x <= y
<1> DEFINE R == OpToRel(<, Nat)
<1>1. IsWellFoundedOn(R, Nat)
  BY NatLessThanWellFounded
<1>2. \A x, y \in Nat : y < x => <<y, x>> \in R
  BY DEF OpToRel
<1> HIDE DEF R
<1>3. PICK x \in T : \A y \in T : ~(<<y, x>> \in R)
  BY <1>1, WFMin
<1>4. \A y \in T : ~(y < x)
  BY <1>2, <1>3, Zenon
<1>5. x \in Nat /\ \A y \in T : y \in Nat
  OBVIOUS
<1>6. \A y \in T : x <= y
  BY <1>4, <1>5
<1> QED BY <1>6

\* Slots that increase from neighbour to neighbour are all different.
LEMMA SlotsIncrease ==
    ASSUME NEW b \in Seq(BindingFields), \A i \in 2..Len(b) : Earlier(b[i - 1], b[i]),
           NEW i \in DOMAIN b, NEW k \in DOMAIN b, i < k
    PROVE  Earlier(b[i], b[k])
<1> SUFFICES ASSUME ~Earlier(b[i], b[k]) PROVE FALSE
  OBVIOUS
<1> DEFINE T == {j \in DOMAIN b : i < j /\ ~Earlier(b[i], b[j])}
<1>1. /\ DOMAIN b = 1..Len(b) /\ Len(b) \in Nat
      /\ \A j \in DOMAIN b : b[j].group \in Nat /\ b[j].slot \in Nat
  <2>1. DOMAIN b = 1..Len(b) /\ Len(b) \in Nat
    BY LenProperties
  <2>2. ASSUME NEW j \in DOMAIN b PROVE b[j].group \in Nat /\ b[j].slot \in Nat
    <3>1. b[j] \in BindingFields
      BY <2>1, ElementOfSeq
    <3> QED BY <3>1 DEF BindingFields
  <2> QED BY <2>1, <2>2
<1>2. PICK j \in T : \A m \in T : j <= m
  <2>1. T \subseteq Nat /\ T # {}
    BY <1>1
  <2> HIDE DEF T
  <2> QED BY <2>1, LeastNumber
<1>3. j - 1 \in DOMAIN b /\ j \in 2..Len(b) /\ i <= j - 1
  BY <1>1, <1>2
<1>4. Earlier(b[j - 1], b[j])
  BY <1>3
<1>5. CASE i = j - 1
  BY <1>2, <1>4, <1>5
<1>6. CASE i # j - 1
  <2>1. Earlier(b[i], b[j - 1])
    <3>1. j - 1 \notin T
      BY <1>1, <1>2
    <3> QED BY <3>1, <1>1, <1>3, <1>6
  <2>2. Earlier(b[i], b[j])
    <3>1. PICK x, y, z : x = b[i] /\ y = b[j - 1] /\ z = b[j]
      OBVIOUS
    <3>2. /\ x.group \in Nat /\ y.group \in Nat /\ z.group \in Nat
          /\ x.slot \in Nat /\ y.slot \in Nat /\ z.slot \in Nat
      BY <3>1, <1>1, <1>2, <1>3
    <3>3. Earlier(x, y) /\ Earlier(y, z)
      BY <3>1, <2>1, <1>4
    <3>4. Earlier(x, z)
      BY <3>2, <3>3 DEF Earlier
    <3> QED BY <3>1, <3>4
  <2> QED BY <2>2, <1>2
<1> QED BY <1>5, <1>6

\* A nonempty sequence of natural numbers has a greatest, and Max finds it.
LEMMA GreatestOf ==
    ASSUME NEW n \in Nat \ {0}, NEW v \in [1..n -> Nat]
    PROVE  /\ Max({v[k] : k \in 1..n}) \in Nat
           /\ \A i \in 1..n : v[i] <= Max({v[k] : k \in 1..n})
<1> DEFINE Bounded(m) == \E k \in 1..m : \A i \in 1..m : v[i] <= v[k]
           T == {m \in 1..n : ~Bounded(m)}
<1>1. T = {}
  <2> SUFFICES ASSUME T # {} PROVE FALSE
    OBVIOUS
  <2>1. PICK m \in T : \A l \in T : m <= l
    <3>1. T \subseteq Nat
      OBVIOUS
    <3> HIDE DEF T
    <3> QED BY <3>1, LeastNumber
  <2>2. m # 1
    <3>1. 1 \in 1..n /\ v[1] \in Nat
      OBVIOUS
    <3>2. Bounded(1)
      BY <3>1
    <3> QED BY <3>2, <2>1
  <2>3. m - 1 \in 1..n /\ m \in 1..n /\ m - 1 \in Nat
    BY <2>1, <2>2
  <2>4. Bounded(m - 1)
    <3>1. m - 1 \in T => m <= m - 1
      BY <2>1, Zenon
    <3>2. m - 1 \notin T
      <4> HIDE DEF T
      <4> QED BY <3>1, <2>3
    <3>3. \A l \in 1..n : l \notin T => Bounded(l)
      BY Zenon
    <3> QED BY <3>2, <3>3, <2>3
  <2>5. PICK k \in 1..(m - 1) : \A i \in 1..(m - 1) : v[i] <= v[k]
    BY <2>4
  <2>6. /\ k \in 1..n /\ \A i \in 1..m : i \in 1..n
        /\ \A i \in 1..m : i \in 1..(m - 1) \/ i = m
    BY <2>3, <2>5
  <2>7. /\ v[k] \in Nat /\ v[m] \in Nat /\ \A i \in 1..m : v[i] \in Nat
    BY <2>3, <2>6
  <2>8. CASE v[m] <= v[k]
    <3>1. k \in 1..m /\ \A i \in 1..m : v[i] <= v[k]
      <4>1. k \in 1..m
        BY <2>3
      <4>2. ASSUME NEW i \in 1..m PROVE v[i] <= v[k]
        <5>1. CASE i \in 1..(m - 1)
          BY <5>1, <2>5
        <5>2. CASE i = m
          BY <5>2, <2>8
        <5> QED BY <5>1, <5>2, <2>6
      <4> QED BY <4>1, <4>2
    <3> QED BY <3>1, <2>1
  <2>9. CASE v[k] <= v[m]
    <3>1. \A i \in 1..m : v[i] <= v[m]
      <4> SUFFICES ASSUME NEW i \in 1..m PROVE v[i] <= v[m]
        OBVIOUS
      <4>1. CASE i \in 1..(m - 1)
        <5>1. v[i] <= v[k] /\ v[i] \in Nat
          BY <4>1, <2>5, <2>7
        <5>2. v[k] \in Nat /\ v[m] \in Nat
          BY <2>7
        <5>3. \A x, y, z \in Nat : x <= y /\ y <= z => x <= z
          OBVIOUS
        <5> QED BY <5>1, <5>2, <5>3, <2>9, Zenon
      <4>2. CASE i = m
        BY <4>2, <2>7
      <4> QED BY <4>1, <4>2, <2>6
    <3>2. m \in 1..m
      BY <2>3
    <3> QED BY <3>1, <3>2, <2>1
  <2> QED BY <2>7, <2>8, <2>9
<1>2. n \in 1..n
  OBVIOUS
<1>3. PICK k \in 1..n : \A i \in 1..n : v[i] <= v[k]
  BY <1>1, <1>2
<1> DEFINE S == {v[j] : j \in 1..n}
<1>4. v[k] \in S /\ \A y \in S : v[k] >= y
  BY <1>3
<1>5. \A y \in S : Max(S) >= y
  <2> HIDE DEF S
  <2> QED BY <1>4 DEF Max
<1>6. Max(S) \in S
  <2> HIDE DEF S
  <2> QED BY <1>4 DEF Max
<1>7. \A i \in 1..n : v[i] \in S /\ v[i] \in Nat
  OBVIOUS
<1>8. Max(S) \in Nat
  <2>1. S \subseteq Nat
    OBVIOUS
  <2> HIDE DEF S
  <2> QED BY <2>1, <1>6
<1>9. ASSUME NEW i \in 1..n PROVE v[i] <= Max(S)
  <2>1. v[i] \in S /\ v[i] \in Nat
    BY <1>7
  <2> HIDE DEF S
  <2>2. Max(S) >= v[i]
    BY <2>1, <1>5
  <2> QED BY <2>1, <2>2, <1>8
<1> QED BY <1>8, <1>9

\* The fingerprint of an artifact is that of no other.
LEMMA FingerprintNames ==
    ASSUME NEW f \in ArtifactFields, NEW g \in ArtifactFields, Descriptor(f) = Descriptor(g)
    PROVE  f = g
<1> DEFINE Slots(h) == [i \in DOMAIN h.bindings |->
                          <<h.bindings[i].group, h.bindings[i].slot, h.bindings[i].kind,
                            h.bindings[i].element, h.bindings[i].size>>]
<1>1. /\ f.id = g.id /\ f.revision = g.revision /\ f.source = g.source /\ f.workgroup = g.workgroup
      /\ Slots(f) = Slots(g)
  BY DEF Descriptor
<1>2. f.bindings \in Seq(BindingFields) /\ g.bindings \in Seq(BindingFields)
  BY DEF ArtifactFields
<1>3. DOMAIN f.bindings = DOMAIN g.bindings
  <2>1. DOMAIN Slots(f) = DOMAIN f.bindings /\ DOMAIN Slots(g) = DOMAIN g.bindings
    OBVIOUS
  <2> QED BY <2>1, <1>1
<1>4. ASSUME NEW i \in DOMAIN f.bindings PROVE f.bindings[i] = g.bindings[i]
  <2>1. Slots(f)[i] = Slots(g)[i]
    BY <1>1
  <2>2. /\ Slots(f)[i] = <<f.bindings[i].group, f.bindings[i].slot, f.bindings[i].kind,
                           f.bindings[i].element, f.bindings[i].size>>
        /\ Slots(g)[i] = <<g.bindings[i].group, g.bindings[i].slot, g.bindings[i].kind,
                           g.bindings[i].element, g.bindings[i].size>>
    BY <1>3
  <2> HIDE DEF Slots
  <2>3. PICK x, y : x = f.bindings[i] /\ y = g.bindings[i]
    OBVIOUS
  <2>4. x \in BindingFields /\ y \in BindingFields
    BY <1>2, <1>3, <2>3, ElementOfSeq
  <2>5. /\ x.group = y.group /\ x.slot = y.slot /\ x.kind = y.kind
        /\ x.element = y.element /\ x.size = y.size
    <3>1. <<x.group, x.slot, x.kind, x.element, x.size>>
             = <<y.group, y.slot, y.kind, y.element, y.size>>
      BY <2>1, <2>2, <2>3
    <3> QED BY <3>1
  <2>6. x = y
    BY <2>4, <2>5 DEF BindingFields
  <2> QED BY <2>3, <2>6
<1>5. f.bindings = g.bindings
  <2>1. /\ DOMAIN f.bindings = 1..Len(f.bindings) /\ DOMAIN g.bindings = 1..Len(g.bindings)
        /\ Len(f.bindings) \in Nat /\ Len(g.bindings) \in Nat
    BY <1>2
  <2>2. Len(f.bindings) = Len(g.bindings)
    BY <2>1, <1>3
  <2> QED BY <1>2, <1>3, <1>4, <2>1, <2>2, SeqEqual
<1> HIDE DEF Slots
<1> QED BY <1>1, <1>5 DEF ArtifactFields

\* An artifact that is valid and binds to a device is one that it runs.
LEMMA BoundRuns ==
    ASSUME NEW f \in ArtifactFields, NEW d \in Limits, FieldsValid(f), Requirements(f).family = "wgpu",
           CheckCapabilities(Requirements(f), CapabilitiesFromLimits(d)), WgpuBindingLimits(f, d)
    PROVE  Runs(f, d)
<1>1. PICK b \in Seq(BindingFields) : b = f.bindings
  BY DEF ArtifactFields
<1>2. PICK n \in Nat \ {0} : n = Len(b) /\ DOMAIN b = 1..n
  <2>1. b # <<>>
    BY <1>1 DEF FieldsValid
  <2> QED BY <2>1, EmptySeq, LenProperties
<1>3. \A i \in 1..n : b[i] \in BindingFields /\ b[i] \in ToSet(b)
  BY <1>2 DEF ToSet
<1>4. \A i \in 1..n : /\ b[i].group \in Nat /\ b[i].slot \in Nat /\ b[i].size \in Nat
                      /\ b[i].kind \in {"read", "write", "uniform"}
  BY <1>3 DEF BindingFields
<1>5. ASSUME NEW i \in 1..n, NEW j \in 1..n, i # j
      PROVE  <<b[i].group, b[i].slot>> # <<b[j].group, b[j].slot>>
  <2>1. \A k \in 2..Len(b) : Earlier(b[k - 1], b[k])
    BY <1>1 DEF FieldsValid
  <2>2. i < j \/ j < i
    BY <1>5
  <2>3. Earlier(b[i], b[j]) \/ Earlier(b[j], b[i])
    BY <2>1, <2>2, <1>2, SlotsIncrease
  <2> QED BY <2>3, <1>4 DEF Earlier
<1>6. \A i \in 1..n : b[i].group < d.groups /\ b[i].slot < d.perGroup
  BY <1>1, <1>2 DEF WgpuBindingLimits
<1>7. /\ d.buffer \in Nat /\ d.storage \in Nat
  BY DEF Limits
<1>8. ASSUME NEW i \in 1..n PROVE b[i].size <= d.buffer /\ b[i].size <= d.storage
  <2> DEFINE v == [k \in 1..n |-> b[k].size]
  <2>1. v \in [1..n -> Nat]
    BY <1>4
  <2>2. {v[k] : k \in 1..n} = {x.size : x \in ToSet(b)}
    BY <1>2 DEF ToSet
  <2>3. v[i] = b[i].size
    OBVIOUS
  <2> HIDE DEF v
  <2>4. PICK most \in Nat : most = Max({v[k] : k \in 1..n}) /\ b[i].size <= most
    BY <2>1, <2>3, GreatestOf
  <2>5. most = Requirements(f).bytes
    BY <2>2, <2>4, <1>1 DEF Requirements
  <2>6. Requirements(f).bytes <= Least(d.buffer, d.storage)
    BY DEF CheckCapabilities, CapabilitiesFromLimits
  <2> QED BY <2>4, <2>5, <2>6, <1>4, <1>7 DEF Least
<1>9. ASSUME NEW i \in 1..n, b[i].element = "F16" PROVE d.half
  <2>1. Requirements(f).half
    BY <1>1, <1>3, <1>9 DEF Requirements
  <2> QED BY <2>1 DEF CheckCapabilities, CapabilitiesFromLimits
<1>10. \A i \in 1..n : b[i].kind = "uniform" => b[i].size <= d.uniform
  BY <1>1, <1>2 DEF WgpuBindingLimits, Of
<1>11. /\ Cardinality({i \in DOMAIN b : b[i].kind \in {"read", "write"}}) <= d.storages
       /\ Cardinality({i \in DOMAIN b : b[i].kind \in {"uniform"}}) <= d.uniforms
  BY <1>1 DEF WgpuBindingLimits, Of, Storage
<1>12. Cardinality({i \in DOMAIN b : b[i].kind \in {"write"}}) > 0
  <2> DEFINE W == {i \in DOMAIN b : b[i].kind \in {"write"}}
  <2>1. PICK x \in ToSet(b) : x.kind = "write"
    BY <1>1 DEF FieldsValid
  <2>2. W # {}
    BY <2>1 DEF ToSet
  <2>3. IsFiniteSet(1..n) /\ W \subseteq 1..n
    BY <1>2, FS_Interval
  <2>4. IsFiniteSet(W)
    BY <2>3, FS_Subset
  <2> HIDE DEF W
  <2>5. Cardinality(W) \in Nat /\ Cardinality(W) # 0
    BY <2>2, <2>4, FS_CardinalityType, FS_EmptySet
  <2>6. Cardinality(W) > 0
    BY <2>5
  <2> QED BY <2>6 DEF W
<1>13. /\ \A axis \in 1..2 : f.workgroup[axis] <= d.workgroup[axis]
       /\ f.workgroup[1] * f.workgroup[2] <= d.invocations
  BY DEF CheckCapabilities, CapabilitiesFromLimits, Requirements, GroupThreads
<1>14. f.source \in {"wgsl", "ir"}
  BY DEF Requirements, FamilyOf, ArtifactFields
<1>15. \A i, j \in DOMAIN b : i # j => <<b[i].group, b[i].slot>> # <<b[j].group, b[j].slot>>
  BY <1>2, <1>5
<1>16. \A i \in DOMAIN b :
         /\ b[i].group < d.groups /\ b[i].slot < d.perGroup
         /\ b[i].size <= d.buffer
         /\ b[i].size <= IF b[i].kind = "uniform" THEN d.uniform ELSE d.storage
         /\ b[i].element = "F16" => d.half
  BY <1>2, <1>6, <1>8, <1>9, <1>10
<1> QED BY <1>1, <1>11, <1>12, <1>13, <1>14, <1>15, <1>16 DEF Runs

\* The groups of an add cover its elements, and no thread past them writes.
LEMMA GroupsCover ==
    ASSUME NEW n \in Nat
    PROVE  AddWrites(n, AddGroups(n)) = 0..(n - 1)
<1>1. PICK w \in Nat \ {0} : w = AddWorkgroup
  BY ArtifactAssumption
<1>2. PICK g \in Nat, r \in 0..(w - 1) : g = AddGroups(n) /\ n + w - 1 = g * w + r
  <2>1. n + w - 1 \in Nat
    OBVIOUS
  <2>2. PICK m \in Nat : m = n + w - 1
    BY <2>1
  <2>3. m \div w \in Nat /\ m % w \in 0..(w - 1) /\ m = (m \div w) * w + (m % w)
    BY <2>2
  <2> QED BY <2>2, <2>3, <1>1 DEF AddGroups
<1>3. g * w \in Nat
  OBVIOUS
<1>4. PICK c \in Nat : c = g * w /\ n + w - 1 = c + r
  BY <1>2, <1>3
<1>5. n <= c
  BY <1>4
<1>6. AddWrites(n, AddGroups(n)) = {i \in 0..(c - 1) : i < n}
  BY <1>1, <1>2, <1>4 DEF AddWrites
<1>7. {i \in 0..(c - 1) : i < n} = 0..(n - 1)
  BY <1>5
<1> QED BY <1>6, <1>7

\* kernel_artifact.rs and nnis-wgpu lib.rs: what a device bound it can run, and
\* what it added is whole.
THEOREM BoundHolds == ArtifactSpec => []BoundFits
<1>1. ArtifactInit => ArtifactIInv
  BY DEF ArtifactInit, ArtifactIInv
<1>2. ArtifactIInv /\ [ArtifactNext]_artifactVars => ArtifactIInv'
  <2> SUFFICES ASSUME ArtifactIInv, [ArtifactNext]_artifactVars PROVE ArtifactIInv'
    OBVIOUS
  <2>1. ASSUME NEW t \in Threads, EnterDiscover(t) PROVE ArtifactIInv'
    BY <2>1 DEF ArtifactIInv, EnterDiscover
  <2>2. ASSUME NEW t \in Threads, NEW d \in DeviceLimits \cup {NoDevice}, LeaveDiscover(t, d)
        PROVE  ArtifactIInv'
    BY <2>2 DEF ArtifactIInv, LeaveDiscover
  <2>3. ASSUME NEW f \in Artifacts, NewArtifact(f) PROVE ArtifactIInv'
    BY <2>3 DEF ArtifactIInv, NewArtifact
  <2>4. ASSUME NEW f \in Artifacts, BindArtifact(Descriptor(f)) PROVE ArtifactIInv'
    BY <2>4 DEF ArtifactIInv, BindArtifact, Binds
  <2>5. ASSUME DropArtifact PROVE ArtifactIInv'
    BY <2>5 DEF ArtifactIInv, DropArtifact
  <2>6. ASSUME NEW n \in 0..MaxAdded, AddF32(n) PROVE ArtifactIInv'
    BY <2>6, GroupsCover DEF ArtifactIInv, AddF32
  <2>7. CASE UNCHANGED artifactVars
    BY <2>7 DEF artifactVars, ArtifactIInv, Binds
  <2> QED BY <2>1, <2>2, <2>3, <2>4, <2>5, <2>6, <2>7 DEF ArtifactNext
<1>3. ArtifactIInv => BoundFits
  <2> SUFFICES ASSUME ArtifactIInv, binding # NoArtifact, NEW f \in Artifacts,
                      Descriptor(f) = binding.fingerprint
               PROVE  Runs(f, granted)
    BY DEF ArtifactIInv, BoundFits
  <2>1. /\ artifact \in Artifacts /\ FieldsValid(artifact) /\ Descriptor(artifact) = Descriptor(f)
        /\ Binds(artifact, binding.fingerprint)
    BY DEF ArtifactIInv
  <2>2. artifact = f
    BY <2>1, ArtifactAssumption, FingerprintNames
  <2>3. granted \in Limits /\ f \in ArtifactFields
    BY <2>1, ArtifactAssumption DEF ArtifactIInv
  <2> QED BY <2>1, <2>2, <2>3, BoundRuns DEF Binds
<1> QED BY <1>1, <1>2, <1>3, PTL DEF ArtifactSpec

-----------------------------------------------------------------------------
\* The buffers on the two backends.
\*
\* Between calls the device holds the host's bytes, padded with zeros.  During a
\* call the program left to do says how far it is: which scopes of its own are
\* open, where an error can have gone, and what the span in hand holds.

Padded(bytes) == [i \in 1..Up(Len(bytes)) |-> IF i <= Len(bytes) THEN bytes[i] ELSE 0]
AllPadded == \A b \in Buffers : device[b] = Padded(host[b])

\* What a write or a copy that succeeds leaves in its buffer.
Written == Patch(host[unit.to], unit.at, unit.payload)
OnePatched == device = [b \in Buffers |-> IF b = unit.to THEN Padded(Written) ELSE Padded(host[b])]

\* The call has opened n scopes; the i-th one is of this kind and holds no error.
OwnScopes(n) == Len(scopes) = unit.open + n
Untouched(i, kind) == scopes[unit.open + i] = [kind |-> kind, hit |-> FALSE]
Hit(i) == scopes[unit.open + i].hit

\* The readback of n bytes at `at`, above d scopes of the call, with the steps
\* that follow it.
StageStep(b, at, n) == [op |-> "stage", from |-> b, at |-> Down(at), n |-> Up(at + n) - Down(at)]
MapStep(at, n) == [op |-> "map", at |-> at % Align, n |-> n]
Staged(b, at, n) == Part(device[b], Down(at), Up(at + n) - Down(at))
Reading(b, at, n, rest, d) ==
  /\ n > 0 /\ AllPadded
  /\ \/ /\ unit.todo = ReadSteps(b, at, n) \o rest
        /\ OwnScopes(d) /\ ~unit.raised
     \/ /\ unit.todo = <<Push("validation"), StageStep(b, at, n), PopScopes, MapStep(at, n)>> \o rest
        /\ OwnScopes(d + 1) /\ ~unit.raised /\ Untouched(d + 1, "oom")
     \/ /\ unit.todo = <<StageStep(b, at, n), PopScopes, MapStep(at, n)>> \o rest
        /\ OwnScopes(d + 2) /\ ~unit.raised
        /\ Untouched(d + 1, "oom") /\ Untouched(d + 2, "validation")
     \/ /\ unit.todo = <<PopScopes, MapStep(at, n)>> \o rest
        /\ OwnScopes(d + 2)
        /\ IF unit.raised THEN Hit(d + 1) \/ Hit(d + 2)
           ELSE ~Hit(d + 1) /\ ~Hit(d + 2) /\ unit.span = Staged(b, at, n)
     \/ /\ unit.todo = <<MapStep(at, n)>> \o rest
        /\ OwnScopes(d) /\ ~unit.raised /\ unit.span = Staged(b, at, n)

\* A read, until the bytes are those of the host.
ReadPhase ==
  \/ \E n \in 0..Len(host[unit.to]) :
       unit.at + n <= Len(host[unit.to]) /\ Reading(unit.to, unit.at, n, <<>>, 0)
  \/ /\ unit.todo = <<>> /\ OwnScopes(0) /\ ~unit.raised /\ AllPadded
     /\ unit.at + Len(unit.span) <= Len(host[unit.to])
     /\ unit.span = Part(host[unit.to], unit.at, Len(unit.span))

\* A write, or a copy with its payload in hand.
Size == Len(unit.payload)
First == Down(unit.at)
Width == Up(unit.at + Size) - First
StoreStep(at) == [op |-> "store", to |-> unit.to, at |-> at]
OverlayStep == [op |-> "overlay", at |-> unit.at % Align]
Landing == <<OverlayStep, StoreStep(First), Pop(1)>>
Writing ==
  \/ /\ unit.todo = WriteSteps(unit.to, unit.at, Size)
     /\ Size > 0 /\ AllPadded /\ OwnScopes(0) /\ ~unit.raised
  \/ /\ unit.todo = <<[op |-> "load"], StoreStep(unit.at), Pop(1)>>
     /\ AllPadded /\ OwnScopes(1) /\ ~unit.raised /\ Untouched(1, "validation")
  \/ /\ Reading(unit.to, First, Width, Landing, 1)
     /\ Untouched(1, "validation") /\ Size > 0
  \/ /\ unit.todo = Landing
     /\ Size > 0 /\ AllPadded /\ OwnScopes(1) /\ ~unit.raised /\ Untouched(1, "validation")
     /\ unit.span = Part(device[unit.to], First, Width)

\* A copy of the bytes at `from` of b, up to the write of its payload.
Taking(b, from) ==
  \/ Reading(b, from, Size, <<[op |-> "take"]>> \o WriteSteps(unit.to, unit.at, Size), 0)
  \/ /\ unit.todo = <<[op |-> "take"]>> \o WriteSteps(unit.to, unit.at, Size)
     /\ Size > 0 /\ AllPadded /\ OwnScopes(0) /\ ~unit.raised /\ unit.span = unit.payload
CopyStep(b, from) == [op |-> "copy", from |-> b, start |-> from, to |-> unit.to, at |-> unit.at, n |-> Size]
Copying(b, from) ==
  \/ /\ unit.todo = <<Push("validation"), CopyStep(b, from), Pop(1)>>
     /\ AllPadded /\ OwnScopes(0) /\ ~unit.raised
  \/ /\ unit.todo = <<CopyStep(b, from), Pop(1)>>
     /\ AllPadded /\ OwnScopes(1) /\ ~unit.raised /\ Untouched(1, "validation")
CopyPhase ==
  \E b \in Buffers : \E from \in 0..Len(host[b]) :
    /\ from + Size <= Len(host[b]) /\ unit.payload = Part(host[b], from, Size)
    /\ Taking(b, from) \/ Copying(b, from)

\* The bytes reach the device: its own scope holds the error of a refused
\* submission, and without one the buffer is patched.
Closing ==
  \/ /\ AllPadded /\ OwnScopes(1) /\ ~unit.raised /\ Untouched(1, "validation")
     /\ \E at \in {unit.at, First} :
          /\ unit.todo = <<StoreStep(at), Pop(1)>>
          /\ Patch(device[unit.to], at, unit.span) = Padded(Written)
  \/ /\ unit.todo = <<Pop(1)>> /\ OwnScopes(1)
     /\ IF unit.raised THEN Hit(1) /\ AllPadded ELSE ~Hit(1) /\ OnePatched
  \/ unit.todo = <<>> /\ OwnScopes(0) /\ ~unit.raised /\ OnePatched
TransferPhase ==
  /\ unit.at + Size <= Len(host[unit.to])
  /\ Writing \/ Closing \/ (unit.op = "copy" /\ CopyPhase)

Steps ==
  [op : {"push"}, kind : {"oom", "validation"}] \cup [op : {"pop"}, n : {1, 2}]
  \cup [op : {"stage"}, from : Buffers, at : Nat, n : Nat] \cup [op : {"map"}, at : Nat, n : Nat]
  \cup [op : {"take", "load"}] \cup [op : {"overlay"}, at : Nat] \cup [op : {"store"}, to : Buffers, at : Nat]
  \cup [op : {"copy"}, from : Buffers, start : Nat, to : Buffers, at : Nat, n : Nat]
BufferTypes ==
  /\ host \in [Buffers -> Seq(Bytes \cup {0})]
  /\ device \in [Buffers -> Seq(Bytes \cup {0})]
  /\ scopes \in Seq([kind : {"oom", "validation"}, hit : BOOLEAN])
  /\ unit \in [op : {"none", "read", "write", "copy"}, to : Buffers, at : Nat, todo : Seq(Steps),
               payload : Seq(Bytes \cup {0}), span : Seq(Bytes \cup {0}), raised : BOOLEAN, open : Nat]

\* What a call that has returned leaves to its caller.
Answered ==
  /\ answer.cpu = answer.wgpu /\ answer.leaked \in 0..1
  /\ answer.raised \/ answer.leaked = 1 => answer.ret = "err"

Phases ==
  \/ unit.op = "none" /\ unit.todo = <<>> /\ AllPadded
  \/ unit.op = "read" /\ ReadPhase
  \/ unit.op \in {"write", "copy"} /\ TransferPhase
BufferInv == BufferTypes /\ Answered /\ Phases

\* A multiple of the unit is aligned.
LEMMA MultipleAligned ==
    ASSUME NEW k \in Nat
    PROVE  k * Align \in Nat /\ (k * Align) % Align = 0
<1>1. Align \in Nat \ {0} /\ k * Align \in Nat
  BY BufferAssumption
<1>2. k * Align = ((k * Align) \div Align) * Align + ((k * Align) % Align)
  BY <1>1, DivMod
<1>3. (k * Align) \div Align \in Nat /\ (k * Align) % Align \in 0..(Align - 1)
  BY <1>1, DivMod
<1>4. 0 \in 0..(Align - 1) /\ k * Align + 0 = ((k * Align) \div Align) * Align + ((k * Align) % Align)
  BY <1>1, <1>2
<1> QED
  BY <1>1, <1>3, <1>4, QuotientUnique

\* Rounding down: the greatest multiple of the unit not above a number.
LEMMA DownAligned ==
    ASSUME NEW x \in Nat
    PROVE  /\ Down(x) \in Nat /\ Down(x) <= x /\ x - Down(x) = x % Align /\ x % Align \in 0..(Align - 1)
           /\ Down(x) % Align = 0 /\ Down(Down(x)) = Down(x)
<1>1. /\ x = (x \div Align) * Align + (x % Align) /\ x \div Align \in Nat
      /\ x % Align \in 0..(Align - 1)
  BY DivMod, BufferAssumption
<1>2. (x \div Align) * Align \in Nat
  BY <1>1, MultipleAligned
<1>3. Down(x) = (x \div Align) * Align
  BY <1>1, <1>2, BufferAssumption DEF Down
<1>4. Down(x) % Align = 0
  BY <1>1, <1>3, MultipleAligned
<1>5. Down(x) \in Nat /\ Down(x) <= x /\ x - Down(x) = x % Align
  BY <1>1, <1>2, <1>3, BufferAssumption
<1>6. Down(Down(x)) = Down(x) - 0
  BY <1>4 DEF Down
<1> QED
  BY <1>1, <1>4, <1>5, <1>6

\* Rounding up: a multiple of the unit less than a unit above a number,
LEMMA UpAligned ==
    ASSUME NEW x \in Nat
    PROVE  /\ Up(x) \in Nat /\ x <= Up(x) /\ Up(x) < x + Align /\ Up(x) % Align = 0
           /\ \E q \in Nat : Up(x) = q * Align
<1> DEFINE y == x + Align - 1
<1>1. y \in Nat /\ Align \in Nat \ {0}
  BY BufferAssumption
<1>2. y = (y \div Align) * Align + (y % Align) /\ y \div Align \in Nat /\ y % Align \in 0..(Align - 1)
  BY <1>1, DivMod
<1>3. (y \div Align) * Align \in Nat /\ ((y \div Align) * Align) % Align = 0
  BY <1>2, MultipleAligned
<1>4. Up(x) = (y \div Align) * Align
  BY DEF Up
<1>5. x <= Up(x) /\ Up(x) < x + Align
  <2> DEFINE z == (y \div Align) * Align
             r == y % Align
  <2>1. z \in Nat /\ r \in 0..(Align - 1) /\ x + Align - 1 = z + r
    BY <1>2, <1>3
  <2> HIDE DEF z, r
  <2>2. x <= z /\ z < x + Align
    BY <2>1, <1>1
  <2> QED
    BY <2>2, <1>4 DEF z
<1> QED
  BY <1>2, <1>3, <1>4, <1>5

\* ... and no multiple that covers the number is smaller.
LEMMA UpIsLeast ==
    ASSUME NEW x \in Nat, NEW q \in Nat, x <= q * Align
    PROVE  Up(x) <= q * Align
<1>1. PICK p \in Nat : Up(x) = p * Align
  BY UpAligned
<1>2. Up(x) < x + Align /\ Align \in Nat \ {0}
  BY UpAligned, BufferAssumption
<1>3. q * Align \in Nat /\ p * Align \in Nat
  BY <1>2
<1>4. CASE p <= q
  <2>1. PICK e \in Nat : q = p + e
    <3>1. q - p \in Nat /\ q = p + (q - p)
      BY <1>4
    <3> QED BY <3>1
  <2>2. q * Align = p * Align + e * Align /\ e * Align \in Nat
    BY <2>1, <1>2
  <2> QED
    BY <2>2, <1>1, <1>3
<1>5. CASE q < p
  <2>1. PICK e \in Nat : p = q + 1 + e
    <3>1. p - q - 1 \in Nat /\ p = q + 1 + (p - q - 1)
      BY <1>5
    <3> QED BY <3>1
  <2>2. p * Align = q * Align + Align + e * Align /\ e * Align \in Nat
    BY <2>1, <1>2
  <2>3. q * Align + Align <= Up(x)
    BY <2>2, <1>1, <1>2, <1>3
  <2>4. Up(x) < q * Align + Align
    BY <1>1, <1>2, <1>3
  <2> QED
    BY <2>3, <2>4, <1>1, <1>2, <1>3
<1> QED
  BY <1>4, <1>5

\* So rounding up keeps the order,
LEMMA UpMonotone ==
    ASSUME NEW x \in Nat, NEW y \in Nat, x <= y
    PROVE  Up(x) <= Up(y)
<1>1. PICK q \in Nat : Up(y) = q * Align
  BY UpAligned
<1>2. x <= q * Align
  BY <1>1, UpAligned
<1> QED
  BY <1>1, <1>2, UpIsLeast

\* ... and what is rounded up stays.
LEMMA UpTwice ==
    ASSUME NEW x \in Nat
    PROVE  Up(Up(x)) = Up(x)
<1>1. PICK q \in Nat : Up(x) = q * Align
  BY UpAligned
<1>2. Up(x) \in Nat /\ Up(x) <= q * Align
  BY <1>1, UpAligned
<1>3. Up(Up(x)) <= Up(x)
  BY <1>1, <1>2, UpIsLeast
<1>4. Up(Up(x)) \in Nat /\ Up(x) <= Up(Up(x))
  BY <1>2, UpAligned
<1> QED
  BY <1>2, <1>3, <1>4

\* A part of a sequence.
LEMMA PartOf ==
    ASSUME NEW S, NEW s \in Seq(S), NEW at \in Nat, NEW n \in Nat, at + n <= Len(s)
    PROVE  /\ Part(s, at, n) \in Seq(S) /\ Len(Part(s, at, n)) = n
           /\ \A i \in 1..n : Part(s, at, n)[i] = s[at + i]
<1>1. at + 1 \in Int /\ at + n \in Int /\ \A i \in at + 1..at + n : s[i] \in S
  BY ElementOfSeq
<1>2. /\ Part(s, at, n) \in Seq(S)
      /\ Len(Part(s, at, n)) = IF at + 1 <= at + n THEN at + n - (at + 1) + 1 ELSE 0
      /\ \A i \in 1..(at + n) - (at + 1) + 1 : Part(s, at, n)[i] = s[at + 1 + i - 1]
  BY <1>1, SubSeqProperties DEF Part
<1>3. (at + n) - (at + 1) + 1 = n /\ \A i \in 1..n : at + 1 + i - 1 = at + i
  OBVIOUS
<1> QED
  BY <1>2, <1>3

\* A part written over a sequence.
LEMMA PatchOf ==
    ASSUME NEW S, NEW s \in Seq(S), NEW at \in Nat, NEW part \in Seq(S)
    PROVE  /\ Patch(s, at, part) \in Seq(S) /\ Len(Patch(s, at, part)) = Len(s)
           /\ \A i \in 1..Len(s) : Patch(s, at, part)[i] =
                IF i > at /\ i <= at + Len(part) THEN part[i - at] ELSE s[i]
<1> DEFINE p == Patch(s, at, part)
<1>1. Len(s) \in Nat /\ Len(part) \in Nat
  BY LenProperties
<1>2. \A i \in 1..Len(s) : p[i] = IF i > at /\ i <= at + Len(part) THEN part[i - at] ELSE s[i]
  BY DEF Patch
<1>3. ASSUME NEW i \in 1..Len(s) PROVE p[i] \in S
  <2>1. CASE i > at /\ i <= at + Len(part)
    <3>1. i - at \in 1..Len(part)
      BY <2>1, <1>1
    <3> QED
      BY <3>1, <2>1, <1>2, ElementOfSeq
  <2>2. CASE ~(i > at /\ i <= at + Len(part))
    BY <2>2, <1>2, ElementOfSeq
  <2> QED
    BY <2>1, <2>2
<1>4. p \in [1..Len(s) -> S]
  BY <1>3 DEF Patch
<1>5. p \in Seq(S)
  BY <1>1, <1>4, SeqDef
<1>6. Len(p) = Len(s)
  BY <1>1, <1>4, <1>5, LenProperties
<1> QED
  BY <1>2, <1>5, <1>6

\* Nothing written changes nothing.
LEMMA PatchNothing ==
    ASSUME NEW S, NEW s \in Seq(S), NEW at \in Nat
    PROVE  Patch(s, at, <<>>) = s
<1>1. <<>> \in Seq(S) /\ Len(<<>>) = 0 /\ Len(s) \in Nat
  BY EmptySeq, LenProperties
<1>2. Patch(s, at, <<>>) \in Seq(S) /\ Len(Patch(s, at, <<>>)) = Len(s)
  BY <1>1, PatchOf
<1>3. ASSUME NEW i \in 1..Len(s) PROVE Patch(s, at, <<>>)[i] = s[i]
  <2>1. Patch(s, at, <<>>)[i] = IF i > at /\ i <= at + Len(<<>>) THEN <<>>[i - at] ELSE s[i]
    BY DEF Patch
  <2>2. ~(i > at /\ i <= at + Len(<<>>))
    BY <1>1
  <2> QED
    BY <2>1, <2>2
<1> QED
  BY <1>2, <1>3, SeqEqual

\* A padded buffer: the bytes of the host, then zeros up to a whole unit.
LEMMA PaddedOf ==
    ASSUME NEW S, 0 \in S, NEW s \in Seq(S)
    PROVE  /\ Padded(s) \in Seq(S) /\ Len(Padded(s)) = Up(Len(s))
           /\ \A i \in 1..Up(Len(s)) : Padded(s)[i] = IF i <= Len(s) THEN s[i] ELSE 0
<1>1. Len(s) \in Nat /\ Up(Len(s)) \in Nat /\ Len(s) <= Up(Len(s))
  BY LenProperties, UpAligned
<1>2. \A i \in 1..Up(Len(s)) : Padded(s)[i] = IF i <= Len(s) THEN s[i] ELSE 0
  BY DEF Padded
<1>3. \A i \in 1..Up(Len(s)) : Padded(s)[i] \in S
  BY <1>1, <1>2, ElementOfSeq
<1>4. Padded(s) \in [1..Up(Len(s)) -> S]
  BY <1>3 DEF Padded
<1>5. Padded(s) \in Seq(S)
  BY <1>1, <1>4, SeqDef
<1> QED
  BY <1>1, <1>2, <1>4, <1>5, LenProperties

\* The host's bytes of a padded buffer.
LEMMA PartOfPadded ==
    ASSUME NEW S, 0 \in S, NEW s \in Seq(S), NEW at \in Nat, NEW n \in Nat, at + n <= Len(s)
    PROVE  Part(Padded(s), at, n) = Part(s, at, n)
<1>1. Len(s) \in Nat /\ Len(s) <= Up(Len(s)) /\ Up(Len(s)) \in Nat
  BY LenProperties, UpAligned
<1>2. Padded(s) \in Seq(S) /\ at + n <= Len(Padded(s))
  BY <1>1, PaddedOf
<1>3. ASSUME NEW i \in 1..n PROVE Part(Padded(s), at, n)[i] = Part(s, at, n)[i]
  <2>1. at + i \in 1..Up(Len(s)) /\ at + i <= Len(s)
    BY <1>1
  <2>2. Padded(s)[at + i] = s[at + i]
    BY <2>1, PaddedOf
  <2> QED
    BY <2>2, <1>2, PartOf
<1>4. /\ Part(Padded(s), at, n) \in Seq(S) /\ Len(Part(Padded(s), at, n)) = n
      /\ Part(s, at, n) \in Seq(S) /\ Len(Part(s, at, n)) = n
  BY <1>2, PartOf
<1> QED
  BY <1>3, <1>4, SeqEqual

\* Writing inside the host's bytes leaves the padding as it was.
LEMMA PatchOfPadded ==
    ASSUME NEW S, 0 \in S, NEW s \in Seq(S), NEW at \in Nat, NEW part \in Seq(S),
           at + Len(part) <= Len(s)
    PROVE  Patch(Padded(s), at, part) = Padded(Patch(s, at, part))
<1> DEFINE l == Len(s)
           p == Patch(s, at, part)
           q == Padded(s)
<1>1. l \in Nat /\ Len(part) \in Nat /\ l <= Up(l) /\ Up(l) \in Nat
  BY LenProperties, UpAligned
<1>2. p \in Seq(S) /\ Len(p) = l /\ q \in Seq(S) /\ Len(q) = Up(l)
  BY PatchOf, PaddedOf
<1>3. /\ Patch(q, at, part) \in Seq(S) /\ Len(Patch(q, at, part)) = Up(l)
      /\ Padded(p) \in Seq(S) /\ Len(Padded(p)) = Up(l)
  <2> HIDE DEF p, q
  <2> QED BY <1>2, PatchOf, PaddedOf
<1>4. ASSUME NEW i \in 1..Up(l) PROVE Patch(q, at, part)[i] = Padded(p)[i]
  <2>1. Patch(q, at, part)[i] = IF i > at /\ i <= at + Len(part) THEN part[i - at] ELSE q[i]
    <3>1. i \in 1..Len(q)
      BY <1>2
    <3> HIDE DEF q
    <3> QED BY <3>1 DEF Patch
  <2>2. q[i] = IF i <= l THEN s[i] ELSE 0
    BY PaddedOf
  <2>3. Padded(p)[i] = IF i <= l THEN p[i] ELSE 0
    <3> HIDE DEF p
    <3> QED BY <1>2, PaddedOf
  <2>4. i <= l => p[i] = IF i > at /\ i <= at + Len(part) THEN part[i - at] ELSE s[i]
    BY <1>1, PatchOf
  <2> HIDE DEF p, q, l
  <2>5. ~(i <= l) => ~(i <= at + Len(part))
    BY <1>1 DEF l
  <2> QED
    BY <2>1, <2>2, <2>3, <2>4, <2>5
<1> HIDE DEF p, q, l
<1>5. Patch(q, at, part) = Padded(p)
  BY <1>3, <1>4, SeqEqual
<1> QED
  BY <1>5 DEF p, q

\* A part of a part.
LEMMA PartOfPart ==
    ASSUME NEW S, NEW s \in Seq(S), NEW low \in Nat, NEW m \in Nat, low + m <= Len(s),
           NEW at \in Nat, NEW n \in Nat, at + n <= m
    PROVE  Part(Part(s, low, m), at, n) = Part(s, low + at, n)
<1> DEFINE t == Part(s, low, m)
<1>1. t \in Seq(S) /\ Len(t) = m /\ (\A i \in 1..m : t[i] = s[low + i]) /\ Len(s) \in Nat
  BY PartOf, LenProperties
<1> HIDE DEF t
<1>2. /\ Part(t, at, n) \in Seq(S) /\ Len(Part(t, at, n)) = n
      /\ \A i \in 1..n : Part(t, at, n)[i] = t[at + i]
  <2>1. at + n <= Len(t) /\ t \in Seq(S)
    BY <1>1
  <2> HIDE <1>1
  <2> QED
    BY <2>1, PartOf
<1>3. low + at \in Nat /\ (low + at) + n <= Len(s)
  BY <1>1
<1>4. /\ Part(s, low + at, n) \in Seq(S) /\ Len(Part(s, low + at, n)) = n
      /\ \A i \in 1..n : Part(s, low + at, n)[i] = s[(low + at) + i]
  BY <1>3, PartOf
<1>5. ASSUME NEW i \in 1..n PROVE Part(t, at, n)[i] = Part(s, low + at, n)[i]
  <2>1. at + i \in 1..m /\ low + (at + i) = (low + at) + i
    OBVIOUS
  <2> QED
    BY <2>1, <1>1, <1>2, <1>4
<1>6. Part(t, at, n) = Part(s, low + at, n)
  BY <1>2, <1>4, <1>5, SeqEqual
<1> QED
  BY <1>6 DEF t

\* A payload laid over the span that was read around it and the span written
\* back is the payload written in place.
LEMMA PatchThroughSpan ==
    ASSUME NEW S, NEW s \in Seq(S), NEW low \in Nat, NEW m \in Nat, low + m <= Len(s),
           NEW at \in Nat, NEW part \in Seq(S), at + Len(part) <= m
    PROVE  Patch(s, low, Patch(Part(s, low, m), at, part)) = Patch(s, low + at, part)
<1> DEFINE t == Part(s, low, m)
           u == Patch(t, at, part)
<1>1. t \in Seq(S) /\ Len(t) = m /\ (\A i \in 1..m : t[i] = s[low + i])
      /\ Len(s) \in Nat /\ Len(part) \in Nat
  BY PartOf, LenProperties
<1> HIDE DEF t
<1>2. u \in Seq(S) /\ Len(u) = m
      /\ \A i \in 1..m : u[i] = IF i > at /\ i <= at + Len(part) THEN part[i - at] ELSE t[i]
  <2>1. u \in Seq(S) /\ Len(u) = Len(t)
    BY <1>1, PatchOf
  <2>2. \A i \in 1..Len(t) : u[i] = IF i > at /\ i <= at + Len(part) THEN part[i - at] ELSE t[i]
    BY DEF Patch
  <2> QED
    BY <2>1, <2>2, <1>1
<1> HIDE DEF u
<1>3. /\ Patch(s, low, u) \in Seq(S) /\ Len(Patch(s, low, u)) = Len(s)
      /\ \A i \in 1..Len(s) : Patch(s, low, u)[i] = IF i > low /\ i <= low + m THEN u[i - low] ELSE s[i]
  BY <1>2, PatchOf
<1>4. low + at \in Nat
  OBVIOUS
<1>5. /\ Patch(s, low + at, part) \in Seq(S) /\ Len(Patch(s, low + at, part)) = Len(s)
      /\ \A i \in 1..Len(s) : Patch(s, low + at, part)[i] =
           IF i > low + at /\ i <= (low + at) + Len(part) THEN part[i - (low + at)] ELSE s[i]
  BY <1>4, PatchOf
<1>6. ASSUME NEW i \in 1..Len(s) PROVE Patch(s, low, u)[i] = Patch(s, low + at, part)[i]
  <2>1. CASE i > low /\ i <= low + m
    <3>1. i - low \in 1..m /\ low + (i - low) = i
      BY <2>1
    <3>2. u[i - low] = IF i - low > at /\ i - low <= at + Len(part) THEN part[(i - low) - at] ELSE s[i]
      BY <3>1, <1>1, <1>2
    <3>3. (i - low) - at = i - (low + at) /\ (i - low > at <=> i > low + at)
          /\ (i - low <= at + Len(part) <=> i <= (low + at) + Len(part))
      BY <1>1
    <3> QED
      BY <3>2, <3>3, <2>1, <1>3, <1>5
  <2>2. CASE ~(i > low /\ i <= low + m)
    <3>1. ~(i > low + at /\ i <= (low + at) + Len(part))
      BY <2>2, <1>1
    <3> QED
      BY <3>1, <2>2, <1>3, <1>5
  <2> QED
    BY <2>1, <2>2
<1>7. Patch(s, low, u) = Patch(s, low + at, part)
  BY <1>3, <1>5, <1>6, SeqEqual
<1> QED
  BY <1>7 DEF t, u

\* The first step of a short program, and those after it.
LEMMA Tails ==
    ASSUME NEW S, NEW a \in S, NEW b \in S, NEW c \in S, NEW e \in S, NEW f \in S
    PROVE  /\ Head(<<a>>) = a /\ Tail(<<a>>) = <<>>
           /\ Head(<<a, b>>) = a /\ Tail(<<a, b>>) = <<b>>
           /\ Head(<<a, b, c>>) = a /\ Tail(<<a, b, c>>) = <<b, c>>
           /\ Head(<<a, b, c, e>>) = a /\ Tail(<<a, b, c, e>>) = <<b, c, e>>
           /\ Head(<<a, b, c, e, f>>) = a /\ Tail(<<a, b, c, e, f>>) = <<b, c, e, f>>
<1>1. Tail(<<a>>) = <<>>
  OBVIOUS
<1>2. Tail(<<a, b>>) = <<b>>
  OBVIOUS
<1>3. Tail(<<a, b, c>>) = <<b, c>>
  OBVIOUS
<1>4. Tail(<<a, b, c, e>>) = <<b, c, e>>
  OBVIOUS
<1>5. Tail(<<a, b, c, e, f>>) = <<b, c, e, f>>
  OBVIOUS
<1> QED
  BY <1>1, <1>2, <1>3, <1>4, <1>5

\* The first step of a program with others after it.
LEMMA FirstOf ==
    ASSUME NEW S, NEW s \in Seq(S), s # <<>>, NEW rest \in Seq(S)
    PROVE  s \o rest # <<>> /\ Head(s \o rest) = Head(s) /\ Tail(s \o rest) = Tail(s) \o rest
<1>1. Len(s) \in Nat \ {0} /\ Len(rest) \in Nat
  BY EmptySeq, LenProperties
<1>2. /\ s \o rest \in Seq(S) /\ Len(s \o rest) = Len(s) + Len(rest)
      /\ \A i \in 1..Len(s) + Len(rest) : (s \o rest)[i] = IF i <= Len(s) THEN s[i] ELSE rest[i - Len(s)]
  BY ConcatProperties
<1>3. s \o rest # <<>>
  BY <1>1, <1>2, EmptySeq
<1>4. Head(s \o rest) = Head(s)
  BY <1>1, <1>2
<1>5. /\ Tail(s \o rest) \in Seq(S) /\ Len(Tail(s \o rest)) = (Len(s) + Len(rest)) - 1
      /\ \A i \in 1..(Len(s) + Len(rest)) - 1 : Tail(s \o rest)[i] = (s \o rest)[i + 1]
  BY <1>2, <1>3, HeadTailProperties
<1>6. /\ Tail(s) \in Seq(S) /\ Len(Tail(s)) = Len(s) - 1
      /\ \A i \in 1..Len(s) - 1 : Tail(s)[i] = s[i + 1]
  BY HeadTailProperties
<1>7. /\ Tail(s) \o rest \in Seq(S) /\ Len(Tail(s) \o rest) = Len(Tail(s)) + Len(rest)
      /\ \A i \in 1..Len(Tail(s)) + Len(rest) : (Tail(s) \o rest)[i] =
           IF i <= Len(Tail(s)) THEN Tail(s)[i] ELSE rest[i - Len(Tail(s))]
  BY <1>6, ConcatProperties
<1>8. ASSUME NEW i \in 1..(Len(s) + Len(rest)) - 1 PROVE Tail(s \o rest)[i] = (Tail(s) \o rest)[i]
  <2>1. i + 1 \in 1..Len(s) + Len(rest) /\ i \in 1..Len(Tail(s)) + Len(rest)
    BY <1>1, <1>6
  <2>2. CASE i + 1 <= Len(s)
    BY <2>1, <2>2, <1>1, <1>2, <1>5, <1>6, <1>7
  <2>3. CASE ~(i + 1 <= Len(s))
    <3>1. (i + 1) - Len(s) = i - (Len(s) - 1)
      BY <1>1
    <3>2. ~(i <= Len(Tail(s))) /\ i - Len(Tail(s)) = (i + 1) - Len(s)
      BY <2>3, <3>1, <1>1, <1>6
    <3> QED
      BY <3>2, <2>1, <2>3, <1>2, <1>5, <1>7
  <2> QED
    BY <2>2, <2>3
<1>9. Len(Tail(s \o rest)) = Len(Tail(s) \o rest)
  BY <1>1, <1>5, <1>6, <1>7
<1>10. Tail(s \o rest) = Tail(s) \o rest
  BY <1>5, <1>7, <1>8, <1>9, SeqEqual
<1> QED
  BY <1>3, <1>4, <1>10

Scope == [kind : {"oom", "validation"}, hit : BOOLEAN]

\* The error scopes: a push,
LEMMA Pushed ==
    ASSUME NEW s \in Seq(Scope), NEW kind \in {"oom", "validation"}
    PROVE  LET t == Append(s, [kind |-> kind, hit |-> FALSE])
           IN  /\ t \in Seq(Scope) /\ Len(t) = Len(s) + 1
               /\ \A i \in 1..Len(s) : t[i] = s[i]
               /\ t[Len(s) + 1] = [kind |-> kind, hit |-> FALSE]
<1>1. [kind |-> kind, hit |-> FALSE] \in Scope
  BY DEF Scope
<1> QED
  BY <1>1, AppendProperties

\* ... a pop,
LEMMA Popped ==
    ASSUME NEW s \in Seq(Scope), NEW n \in Nat, n <= Len(s)
    PROVE  LET t == SubSeq(s, 1, Len(s) - n)
           IN  /\ t \in Seq(Scope) /\ Len(t) = Len(s) - n
               /\ \A i \in 1..Len(s) - n : t[i] = s[i]
<1>1. Len(s) \in Nat /\ Len(s) - n \in Int /\ 1 \in Int /\ (Len(s) - n) - 1 + 1 = Len(s) - n
  BY LenProperties
<1>2. \A i \in 1..Len(s) - n : s[i] \in Scope
  BY <1>1, ElementOfSeq
<1>3. /\ SubSeq(s, 1, Len(s) - n) \in Seq(Scope)
      /\ Len(SubSeq(s, 1, Len(s) - n)) = IF 1 <= Len(s) - n THEN (Len(s) - n) - 1 + 1 ELSE 0
      /\ \A i \in 1..(Len(s) - n) - 1 + 1 : SubSeq(s, 1, Len(s) - n)[i] = s[1 + i - 1]
  <2> HIDE DEF Scope
  <2> QED BY <1>1, <1>2, SubSeqProperties
<1>4. ASSUME NEW i \in 1..Len(s) - n PROVE SubSeq(s, 1, Len(s) - n)[i] = s[i]
  <2>1. i \in 1..(Len(s) - n) - 1 + 1 /\ 1 + i - 1 = i
    BY <1>1
  <2> QED BY <2>1, <1>3
<1>5. Len(SubSeq(s, 1, Len(s) - n)) = Len(s) - n
  <2>1. Len(SubSeq(s, 1, Len(s) - n)) = IF 1 <= Len(s) - n THEN (Len(s) - n) - 1 + 1 ELSE 0
    BY <1>3
  <2>2. PICK l \in Nat : l = Len(s)
    BY <1>1
  <2>3. (l - n) - 1 + 1 = l - n /\ (~(1 <= l - n) => l - n = 0)
    <3>1. n <= l
      BY <2>2
    <3> QED BY <3>1
  <2> QED BY <2>1, <2>2, <2>3, Zenon
<1> QED
  BY <1>3, <1>4, <1>5

\* ... and an error, which goes to the innermost scope of its kind.
LEMMA RaisedIn ==
    ASSUME scopes \in Seq(Scope), NEW kind, NEW n \in 1..Len(scopes),
           scopes[n].kind = kind, \A j \in n + 1..Len(scopes) : scopes[j].kind # kind,
           Raise(kind)
    PROVE  /\ scopes' \in Seq(Scope) /\ Len(scopes') = Len(scopes) /\ scopes'[n].hit
           /\ \A i \in 1..Len(scopes) : i # n => scopes'[i] = scopes[i]
<1> DEFINE P(i) == scopes[i].kind = kind /\ \A j \in i + 1..Len(scopes) : scopes[j].kind # kind
           at == CHOOSE i \in DOMAIN scopes : P(i)
<1>1. Len(scopes) \in Nat /\ DOMAIN scopes = 1..Len(scopes)
  BY LenProperties
<1>2. n \in DOMAIN scopes /\ P(n)
  BY <1>1
<1>3. at \in DOMAIN scopes /\ P(at)
  <2> HIDE DEF P
  <2> QED BY <1>2
<1>4. at = n
  <2>1. ~(at < n)
    BY <1>1, <1>2, <1>3
  <2>2. ~(n < at)
    BY <1>1, <1>2, <1>3
  <2> QED
    BY <2>1, <2>2, <1>1, <1>3
<1>5. scopes' = [scopes EXCEPT ![at].hit = TRUE]
  BY DEF Raise
<1> HIDE DEF at
<1>6. scopes' = [scopes EXCEPT ![n] = [scopes[n] EXCEPT !.hit = TRUE]]
  BY <1>4, <1>5
<1>7. scopes[n] \in Scope
  BY ElementOfSeq
<1>8. [scopes[n] EXCEPT !.hit = TRUE] \in Scope /\ [scopes[n] EXCEPT !.hit = TRUE].hit
  BY <1>7 DEF Scope
<1> DEFINE e == [scopes[n] EXCEPT !.hit = TRUE]
<1> HIDE DEF e
<1>9. /\ [scopes EXCEPT ![n] = e] \in Seq(Scope)
      /\ Len([scopes EXCEPT ![n] = e]) = Len(scopes)
      /\ \A j \in 1..Len(scopes) : [scopes EXCEPT ![n] = e][j] = IF j = n THEN e ELSE scopes[j]
  <2>1. e \in Scope
    BY <1>8 DEF e
  <2> QED BY <2>1, ExceptSeq
<1> QED
  BY <1>6, <1>8, <1>9 DEF e

\* What a byte of a buffer can be.
Contents == Bytes \cup {0}

\* The steps of the programs.
LEMMA StepsOf ==
    ASSUME NEW b \in Buffers, NEW from \in Nat, NEW c \in Buffers, NEW at \in Nat, NEW n \in Nat
    PROVE  /\ Push("oom") \in Steps /\ Push("validation") \in Steps /\ Pop(1) \in Steps /\ PopScopes \in Steps
           /\ StageStep(b, at, n) \in Steps /\ MapStep(at, n) \in Steps
           /\ [op |-> "take"] \in Steps /\ [op |-> "load"] \in Steps
           /\ [op |-> "overlay", at |-> at] \in Steps /\ [op |-> "store", to |-> b, at |-> at] \in Steps
           /\ [op |-> "copy", from |-> b, start |-> from, to |-> c, at |-> at, n |-> n] \in Steps
<1>1. /\ Push("oom") \in Steps /\ Push("validation") \in Steps /\ Pop(1) \in Steps /\ PopScopes \in Steps
  BY DEF Push, Pop, PopScopes, Steps
<1>2. /\ [op |-> "take"] \in Steps /\ [op |-> "load"] \in Steps
      /\ [op |-> "overlay", at |-> at] \in Steps /\ [op |-> "store", to |-> b, at |-> at] \in Steps
  BY DEF Steps
<1>3. [op |-> "copy", from |-> b, start |-> from, to |-> c, at |-> at, n |-> n] \in Steps
  BY DEF Steps
<1>4. Down(at) \in Nat /\ Up(at + n) - Down(at) \in Nat /\ at % Align \in Nat
  <2>1. Down(at) \in Nat /\ Down(at) <= at /\ at % Align \in 0..(Align - 1)
    BY DownAligned
  <2>2. at + n \in Nat /\ Up(at + n) \in Nat /\ at + n <= Up(at + n)
    BY UpAligned
  <2> QED
    BY <2>1, <2>2, BufferAssumption
<1>5. StageStep(b, at, n) \in Steps
  BY <1>4 DEF StageStep, Steps
<1>6. MapStep(at, n) \in Steps
  BY <1>4 DEF MapStep, Steps
<1> QED
  BY <1>1, <1>2, <1>3, <1>5, <1>6

\* The call in progress stays the same one, and the host has heard nothing.
Steady == /\ unit'.op = unit.op /\ unit'.to = unit.to /\ unit'.at = unit.at /\ unit'.open = unit.open
          /\ host' = host /\ answer' = answer

\* What a step does, and all it does.
LEMMA StepEffect ==
    ASSUME BufferTypes, StepOk
    PROVE  LET s == Head(unit.todo)
           IN  /\ Steady /\ unit.todo # <<>> /\ unit'.todo = Tail(unit.todo) /\ unit'.raised = unit.raised
               /\ unit' = [op |-> unit.op, to |-> unit.to, at |-> unit.at, todo |-> Tail(unit.todo),
                           payload |-> unit'.payload, span |-> unit'.span, raised |-> unit.raised,
                           open |-> unit.open]
               /\ unit'.payload = IF s.op = "take" THEN unit.span ELSE unit.payload
               /\ s.op \in {"push", "pop", "take", "store", "copy"} => unit'.span = unit.span
               /\ s.op = "load" => unit'.span = unit.payload
               /\ s.op = "stage" => unit'.span = Part(device[s.from], s.at, s.n)
               /\ s.op = "map" => unit'.span = Part(unit.span, s.at, s.n)
               /\ s.op = "overlay" =>
                    unit'.span = Patch(IF unit.span = <<>> THEN [i \in 1..Up(s.at + Len(unit.payload)) |-> 0]
                                       ELSE unit.span, s.at, unit.payload)
               /\ s.op \notin {"store", "copy"} => device' = device
               /\ s.op = "store" => device' = [device EXCEPT ![s.to] = Patch(@, s.at, unit.span)]
               /\ s.op = "copy" =>
                    device' = [device EXCEPT ![s.to] = Patch(@, s.at, Part(device[s.from], s.start, s.n))]
               /\ s.op \notin {"push", "pop"} => scopes' = scopes
               /\ s.op = "push" => scopes' = Append(scopes, [kind |-> s.kind, hit |-> FALSE])
               /\ s.op = "pop" => /\ \A i \in Len(scopes) - s.n + 1..Len(scopes) : ~scopes[i].hit
                                  /\ scopes' = SubSeq(scopes, 1, Len(scopes) - s.n)
<1> DEFINE s == Head(unit.todo)
           Patched == Patch(IF unit.span = <<>> THEN [i \in 1..Up(s.at + Len(unit.payload)) |-> 0]
                            ELSE unit.span, s.at, unit.payload)
<1>1. unit \in [op : {"none", "read", "write", "copy"}, to : Buffers, at : Nat, todo : Seq(Steps),
                payload : Seq(Bytes \cup {0}), span : Seq(Bytes \cup {0}), raised : BOOLEAN, open : Nat]
  BY DEF BufferTypes
<1>2. host' = host /\ answer' = answer /\ unit.todo # <<>>
  BY DEF StepOk
<1>3. \/ s.op = "push" /\ scopes' = Append(scopes, [kind |-> s.kind, hit |-> FALSE])
         /\ unit' = [unit EXCEPT !.todo = Tail(@)] /\ device' = device
      \/ s.op = "pop" /\ (\A i \in Len(scopes) - s.n + 1..Len(scopes) : ~scopes[i].hit)
         /\ scopes' = SubSeq(scopes, 1, Len(scopes) - s.n)
         /\ unit' = [unit EXCEPT !.todo = Tail(@)] /\ device' = device
      \/ s.op = "stage" /\ unit' = [[unit EXCEPT !.span = Part(device[s.from], s.at, s.n)] EXCEPT !.todo = Tail(@)]
         /\ scopes' = scopes /\ device' = device
      \/ s.op = "map" /\ unit' = [[unit EXCEPT !.span = Part(@, s.at, s.n)] EXCEPT !.todo = Tail(@)]
         /\ scopes' = scopes /\ device' = device
      \/ s.op = "take" /\ unit' = [[unit EXCEPT !.payload = unit.span] EXCEPT !.todo = Tail(@)]
         /\ scopes' = scopes /\ device' = device
      \/ s.op = "load" /\ unit' = [[unit EXCEPT !.span = unit.payload] EXCEPT !.todo = Tail(@)]
         /\ scopes' = scopes /\ device' = device
      \/ s.op = "overlay" /\ unit' = [[unit EXCEPT !.span = Patched] EXCEPT !.todo = Tail(@)]
         /\ scopes' = scopes /\ device' = device
      \/ s.op = "store" /\ device' = [device EXCEPT ![s.to] = Patch(@, s.at, unit.span)]
         /\ unit' = [unit EXCEPT !.todo = Tail(@)] /\ scopes' = scopes
      \/ s.op = "copy"
         /\ device' = [device EXCEPT ![s.to] = Patch(@, s.at, Part(device[s.from], s.start, s.n))]
         /\ unit' = [unit EXCEPT !.todo = Tail(@)] /\ scopes' = scopes
  BY Zenon DEF StepOk, Then
<1> HIDE DEF s, Patched
<1>4. unit' = [op |-> unit.op, to |-> unit.to, at |-> unit.at, todo |-> Tail(unit.todo),
               payload |-> unit'.payload, span |-> unit'.span, raised |-> unit.raised, open |-> unit.open]
  BY <1>1, <1>3
<1>5. Steady /\ unit'.todo = Tail(unit.todo) /\ unit'.raised = unit.raised
  BY <1>2, <1>4 DEF Steady
<1>6. unit'.payload = IF s.op = "take" THEN unit.span ELSE unit.payload
  BY <1>1, <1>3
<1>7. /\ s.op \in {"push", "pop", "take", "store", "copy"} => unit'.span = unit.span
      /\ s.op = "load" => unit'.span = unit.payload
      /\ s.op = "stage" => unit'.span = Part(device[s.from], s.at, s.n)
      /\ s.op = "map" => unit'.span = Part(unit.span, s.at, s.n)
      /\ s.op = "overlay" => unit'.span = Patched
  BY <1>1, <1>3
<1>8. /\ s.op \notin {"store", "copy"} => device' = device
      /\ s.op = "store" => device' = [device EXCEPT ![s.to] = Patch(@, s.at, unit.span)]
      /\ s.op = "copy" =>
           device' = [device EXCEPT ![s.to] = Patch(@, s.at, Part(device[s.from], s.start, s.n))]
  BY <1>3
<1>9. /\ s.op \notin {"push", "pop"} => scopes' = scopes
      /\ s.op = "push" => scopes' = Append(scopes, [kind |-> s.kind, hit |-> FALSE])
      /\ s.op = "pop" => /\ \A i \in Len(scopes) - s.n + 1..Len(scopes) : ~scopes[i].hit
                         /\ scopes' = SubSeq(scopes, 1, Len(scopes) - s.n)
  BY <1>3
<1> QED
  BY <1>2, <1>4, <1>5, <1>6, <1>7, <1>8, <1>9, Zenon DEF s, Patched

\* What a refused step does: its effect is lost and its error raised.
LEMMA RaiseEffect ==
    ASSUME BufferTypes, NEW kind, StepRaises(kind)
    PROVE  /\ Steady /\ unit.todo # <<>> /\ unit'.todo = Tail(unit.todo) /\ ~unit.raised /\ unit'.raised
           /\ unit' = [op |-> unit.op, to |-> unit.to, at |-> unit.at, todo |-> Tail(unit.todo),
                       payload |-> unit.payload, span |-> unit.span, raised |-> TRUE, open |-> unit.open]
           /\ unit'.payload = unit.payload /\ unit'.span = unit.span
           /\ device' = device /\ Raise(kind)
           /\ Head(unit.todo).op = "stage" \/ (Head(unit.todo).op \in {"store", "copy"} /\ kind = "validation")
<1>1. unit \in [op : {"none", "read", "write", "copy"}, to : Buffers, at : Nat, todo : Seq(Steps),
                payload : Seq(Bytes \cup {0}), span : Seq(Bytes \cup {0}), raised : BOOLEAN, open : Nat]
  BY DEF BufferTypes
<1>2. /\ host' = host /\ answer' = answer /\ device' = device /\ unit.todo # <<>> /\ ~unit.raised
      /\ Raise(kind)
      /\ Head(unit.todo).op = "stage" \/ (Head(unit.todo).op \in {"store", "copy"} /\ kind = "validation")
      /\ unit' = [[unit EXCEPT !.raised = TRUE] EXCEPT !.todo = Tail(@)]
  BY Zenon DEF StepRaises, Then
<1>3. unit' = [op |-> unit.op, to |-> unit.to, at |-> unit.at, todo |-> Tail(unit.todo),
               payload |-> unit.payload, span |-> unit.span, raised |-> TRUE, open |-> unit.open]
  BY <1>1, <1>2
<1> QED
  BY <1>2, <1>3 DEF Steady

\* The types after a step, from those of the new span and the new scopes.
LEMMA StepTypes ==
    ASSUME BufferTypes, unit'.todo = Tail(unit.todo), unit.todo # <<>>, host' = host,
           unit' = [op |-> unit.op, to |-> unit.to, at |-> unit.at, todo |-> Tail(unit.todo),
                    payload |-> unit'.payload, span |-> unit'.span, raised |-> unit'.raised, open |-> unit.open],
           unit'.payload \in Seq(Contents), unit'.span \in Seq(Contents), unit'.raised \in BOOLEAN,
           device' \in [Buffers -> Seq(Contents)], scopes' \in Seq(Scope)
    PROVE  BufferTypes'
<1>1. unit.todo \in Seq(Steps) /\ unit.op \in {"none", "read", "write", "copy"} /\ unit.to \in Buffers
      /\ unit.at \in Nat /\ unit.open \in Nat
  BY DEF BufferTypes
<1>2. Tail(unit.todo) \in Seq(Steps)
  BY <1>1, HeadTailProperties
<1> DEFINE p == unit'.payload
           s == unit'.span
           r == unit'.raised
           t == Tail(unit.todo)
           u == [op |-> unit.op, to |-> unit.to, at |-> unit.at, todo |-> t, payload |-> p, span |-> s,
                 raised |-> r, open |-> unit.open]
<1>3. p \in Seq(Contents) /\ s \in Seq(Contents) /\ r \in BOOLEAN /\ t \in Seq(Steps) /\ unit' = u
  BY <1>2
<1> HIDE DEF p, s, r, t
<1>4. u \in [op : {"none", "read", "write", "copy"}, to : Buffers, at : Nat, todo : Seq(Steps),
             payload : Seq(Contents), span : Seq(Contents), raised : BOOLEAN, open : Nat]
  <2> HIDE DEF Steps, Contents
  <2> QED BY <1>1, <1>3
<1>5. unit' \in [op : {"none", "read", "write", "copy"}, to : Buffers, at : Nat, todo : Seq(Steps),
                 payload : Seq(Contents), span : Seq(Contents), raised : BOOLEAN, open : Nat]
  BY <1>3, <1>4, Zenon
<1> QED
  BY <1>5 DEF BufferTypes, Contents, Scope

\* A call that fails: nothing was written.
LEMMA FailureKeeps ==
    ASSUME BufferInv, AllPadded, scopes' \in Seq(Scope), Len(scopes') - unit.open \in 0..1, Finish("err")
    PROVE  BufferInv'
<1>1. /\ host' = host /\ device' = device /\ unit' = Resting
      /\ answer'.cpu = <<>> /\ answer'.wgpu = <<>> /\ answer'.ret = "err"
      /\ answer'.leaked = Len(scopes') - unit.open
  BY DEF Finish
<1>2. AllPadded' /\ Answered'
  BY <1>1 DEF AllPadded, Padded, Up, Answered
<1>3. unit' \in [op : {"none", "read", "write", "copy"}, to : Buffers, at : Nat, todo : Seq(Steps),
                 payload : Seq(Bytes \cup {0}), span : Seq(Bytes \cup {0}), raised : BOOLEAN, open : Nat]
      /\ unit'.op = "none" /\ unit'.todo = <<>>
  <2> HIDE DEF Steps
  <2> QED BY <1>1, EmptySeq DEF Resting, Buffers
<1>4. BufferTypes'
  BY <1>1, <1>3 DEF BufferInv, BufferTypes, Scope
<1> QED
  BY <1>2, <1>3, <1>4 DEF BufferInv, Phases

\* The buffers of a state with no bytes on their way.
LEMMA PaddedBuffers ==
    ASSUME BufferTypes, AllPadded, NEW b \in Buffers
    PROVE  /\ host[b] \in Seq(Contents) /\ device[b] \in Seq(Contents)
           /\ device[b] = Padded(host[b]) /\ Len(device[b]) = Up(Len(host[b]))
           /\ Len(host[b]) \in Nat /\ Len(host[b]) <= Len(device[b]) /\ Len(device[b]) \in Nat
<1>1. host[b] \in Seq(Contents) /\ device[b] \in Seq(Contents) /\ device[b] = Padded(host[b])
  BY DEF BufferTypes, Contents, AllPadded
<1>2. 0 \in Contents
  BY DEF Contents
<1>3. Len(device[b]) = Up(Len(host[b]))
  <2> HIDE DEF Contents
  <2>1. Len(Padded(host[b])) = Up(Len(host[b]))
    BY <1>1, <1>2, PaddedOf
  <2> QED BY <2>1, <1>1
<1> QED
  BY <1>1, <1>3, LenProperties, UpAligned

\* The staged span lies inside the device buffer and holds the bytes asked for.
LEMMA StagedHolds ==
    ASSUME BufferTypes, AllPadded, NEW b \in Buffers, NEW at \in Nat, NEW n \in Nat,
           at + n <= Len(device[b])
    PROVE  /\ Staged(b, at, n) \in Seq(Contents)
           /\ Part(Staged(b, at, n), at % Align, n) = Part(device[b], at, n)
           /\ Part(device[b], at, n) \in Seq(Contents) /\ Len(Part(device[b], at, n)) = n
<1> DEFINE low == Down(at)
           m == Up(at + n) - low
           r == at % Align
           s == device[b]
<1>1. s \in Seq(Contents) /\ Len(s) \in Nat /\ Len(s) = Up(Len(host[b])) /\ Len(host[b]) \in Nat
  BY PaddedBuffers
<1>2. low \in Nat /\ low <= at /\ at - low = r /\ r \in Nat
  <2>1. low \in Nat /\ low <= at /\ at - low = r
    BY DownAligned
  <2> HIDE DEF low, r
  <2> QED BY <2>1
<1>3. at + n \in Nat /\ Up(at + n) \in Nat /\ at + n <= Up(at + n)
  BY UpAligned
<1>4. Up(at + n) <= Len(s)
  <2>1. Up(at + n) <= Up(Len(s))
    BY <1>1, <1>3, UpMonotone
  <2>2. Up(Len(s)) = Len(s)
    BY <1>1, UpTwice
  <2> QED BY <2>1, <2>2
<1>5. m \in Nat /\ low + m <= Len(s) /\ r + n <= m /\ low + r = at
  <2> HIDE DEF low, r, s
  <2> QED BY <1>1, <1>2, <1>3, <1>4
<1> HIDE DEF low, m, r, s
<1>6. Part(s, low, m) \in Seq(Contents)
  BY <1>1, <1>2, <1>5, PartOf
<1>7. Part(Part(s, low, m), r, n) = Part(s, low + r, n)
  BY <1>1, <1>2, <1>5, PartOfPart
<1>8. Part(s, at, n) \in Seq(Contents) /\ Len(Part(s, at, n)) = n
  BY <1>1, PartOf DEF s
<1> QED
  BY <1>5, <1>6, <1>7, <1>8 DEF low, m, r, s, Staged

\* Nothing reaches the buffers: they stay padded.
LEMMA StayPadded ==
    ASSUME AllPadded, device' = device, host' = host
    PROVE  AllPadded'
BY DEF AllPadded, Padded, Up

\* The readback has the bytes it was asked for, and the scopes below it are as
\* they were.
ReadDone(b, at, n, rest, d) ==
  /\ unit.todo = rest /\ OwnScopes(d) /\ ~unit.raised /\ AllPadded
  /\ unit.span = Part(device[b], at, n)
Below(d) == \A i \in 1..unit.open + d : scopes'[i] = scopes[i]

\* Where the scopes of a readback above d others are.
LEMMA StepIndices ==
    ASSUME NEW u \in Nat, NEW d \in Nat
    PROVE  /\ u + (d + 1) \in 1..u + (d + 1) /\ u + (d + 1) = (u + d) + 1 /\ u + (d + 2) = (u + (d + 1)) + 1
           /\ u + (d + 1) \in 1..u + (d + 2) /\ u + (d + 2) \in 1..u + (d + 2) /\ u + d \in Nat
           /\ u + (d + 1) \in (u + (d + 2)) - 2 + 1..u + (d + 2)
           /\ u + (d + 2) \in (u + (d + 2)) - 2 + 1..u + (d + 2)
           /\ (u + (d + 2)) - 2 = u + d /\ 2 <= u + (d + 2) /\ u + (d + 2) \in Nat
           /\ \A j \in u + (d + 1) + 1..u + (d + 2) : j = u + (d + 2)
           /\ \A j \in u + (d + 2) + 1..u + (d + 2) : FALSE
           /\ \A i \in 1..u + d : /\ i \in 1..u + (d + 1) /\ i \in 1..u + (d + 2)
                                 /\ i # u + (d + 1) /\ i # u + (d + 2)
OBVIOUS

\* A readback goes on: it leaves the scopes below it alone and ends with the
\* bytes it was asked for.
LEMMA ReadingGoes ==
    ASSUME BufferTypes, NEW b \in Buffers, NEW at \in Nat, NEW n \in Nat, at + n <= Len(device[b]),
           NEW rest \in Seq(Steps), NEW d \in Nat, Reading(b, at, n, rest, d),
           StepOk \/ \E kind \in {"oom", "validation"} : StepRaises(kind)
    PROVE  /\ BufferTypes' /\ Steady /\ device' = device /\ unit'.payload = unit.payload /\ Below(d)
           /\ Reading(b, at, n, rest, d)' \/ ReadDone(b, at, n, rest, d)'
<1> DEFINE o == Push("oom")
           v == Push("validation")
           s == StageStep(b, at, n)
           p == PopScopes
           m == MapStep(at, n)
<1>1. o \in Steps /\ v \in Steps /\ s \in Steps /\ p \in Steps /\ m \in Steps
  BY StepsOf
<1>2. /\ o.op = "push" /\ o.kind = "oom" /\ v.op = "push" /\ v.kind = "validation"
      /\ s.op = "stage" /\ s.from = b /\ s.at = Down(at) /\ s.n = Up(at + n) - Down(at)
      /\ p.op = "pop" /\ p.n = 2 /\ m.op = "map" /\ m.at = at % Align /\ m.n = n
  BY DEF Push, Pop, PopScopes, StageStep, MapStep
<1>3. n > 0 /\ AllPadded /\ ReadSteps(b, at, n) = <<o, v, s, p, m>>
  BY DEF Reading, ReadSteps, StageStep, MapStep
<1>4. unit.payload \in Seq(Contents) /\ unit.span \in Seq(Contents) /\ unit.open \in Nat
      /\ device \in [Buffers -> Seq(Contents)] /\ scopes \in Seq(Scope) /\ unit.raised \in BOOLEAN
  BY DEF BufferTypes, Contents, Scope
<1>0. /\ unit.open + (d + 1) \in 1..unit.open + (d + 1) /\ unit.open + (d + 1) = (unit.open + d) + 1 /\ unit.open + (d + 2) = (unit.open + (d + 1)) + 1
      /\ unit.open + (d + 1) \in 1..unit.open + (d + 2) /\ unit.open + (d + 2) \in 1..unit.open + (d + 2) /\ unit.open + d \in Nat
      /\ unit.open + (d + 1) \in (unit.open + (d + 2)) - 2 + 1..unit.open + (d + 2)
      /\ unit.open + (d + 2) \in (unit.open + (d + 2)) - 2 + 1..unit.open + (d + 2)
      /\ (unit.open + (d + 2)) - 2 = unit.open + d /\ 2 <= unit.open + (d + 2) /\ unit.open + (d + 2) \in Nat
      /\ \A j \in unit.open + (d + 1) + 1..unit.open + (d + 2) : j = unit.open + (d + 2)
      /\ \A j \in unit.open + (d + 2) + 1..unit.open + (d + 2) : FALSE
      /\ \A i \in 1..unit.open + d : /\ i \in 1..unit.open + (d + 1) /\ i \in 1..unit.open + (d + 2)
                            /\ i # unit.open + (d + 1) /\ i # unit.open + (d + 2)
  <2>1. unit.open \in Nat
    BY <1>4
  <2> QED BY <2>1, StepIndices
<1>5. \/ unit.todo = <<o, v, s, p, m>> \o rest /\ OwnScopes(d) /\ ~unit.raised
      \/ /\ unit.todo = <<v, s, p, m>> \o rest /\ OwnScopes(d + 1) /\ ~unit.raised /\ Untouched(d + 1, "oom")
      \/ /\ unit.todo = <<s, p, m>> \o rest /\ OwnScopes(d + 2) /\ ~unit.raised
         /\ Untouched(d + 1, "oom") /\ Untouched(d + 2, "validation")
      \/ /\ unit.todo = <<p, m>> \o rest /\ OwnScopes(d + 2)
         /\ IF unit.raised THEN Hit(d + 1) \/ Hit(d + 2)
            ELSE ~Hit(d + 1) /\ ~Hit(d + 2) /\ unit.span = Staged(b, at, n)
      \/ /\ unit.todo = <<m>> \o rest /\ OwnScopes(d) /\ ~unit.raised /\ unit.span = Staged(b, at, n)
  BY <1>3 DEF Reading
<1>6. /\ Staged(b, at, n) \in Seq(Contents)
      /\ Part(Staged(b, at, n), at % Align, n) = Part(device[b], at, n)
      /\ Part(device[b], at, n) \in Seq(Contents)
  BY <1>3, StagedHolds
<1> HIDE DEF o, v, s, p, m, Steps
<1>7. /\ Head(<<o, v, s, p, m>> \o rest) = o /\ Tail(<<o, v, s, p, m>> \o rest) = <<v, s, p, m>> \o rest
      /\ Head(<<v, s, p, m>> \o rest) = v /\ Tail(<<v, s, p, m>> \o rest) = <<s, p, m>> \o rest
      /\ Head(<<s, p, m>> \o rest) = s /\ Tail(<<s, p, m>> \o rest) = <<p, m>> \o rest
      /\ Head(<<p, m>> \o rest) = p /\ Tail(<<p, m>> \o rest) = <<m>> \o rest
      /\ Head(<<m>> \o rest) = m /\ Tail(<<m>> \o rest) = rest
  <2>1. /\ <<o, v, s, p, m>> \in Seq(Steps) /\ <<o, v, s, p, m>> # <<>>
        /\ <<v, s, p, m>> \in Seq(Steps) /\ <<v, s, p, m>> # <<>>
        /\ <<s, p, m>> \in Seq(Steps) /\ <<s, p, m>> # <<>>
        /\ <<p, m>> \in Seq(Steps) /\ <<p, m>> # <<>>
        /\ <<m>> \in Seq(Steps) /\ <<m>> # <<>>
    BY <1>1
  <2>2. /\ Head(<<o, v, s, p, m>>) = o /\ Tail(<<o, v, s, p, m>>) = <<v, s, p, m>>
        /\ Head(<<v, s, p, m>>) = v /\ Tail(<<v, s, p, m>>) = <<s, p, m>>
        /\ Head(<<s, p, m>>) = s /\ Tail(<<s, p, m>>) = <<p, m>>
        /\ Head(<<p, m>>) = p /\ Tail(<<p, m>>) = <<m>>
        /\ Head(<<m>>) = m /\ Tail(<<m>>) = <<>>
    BY <1>1, Tails
  <2>3. <<>> \o rest = rest
    BY ConcatEmptySeq
  <2>4. \A t \in Seq(Steps) : t # <<>> => Head(t \o rest) = Head(t) /\ Tail(t \o rest) = Tail(t) \o rest
    BY FirstOf
  <2> QED
    BY <2>1, <2>2, <2>3, <2>4, Zenon
<1> DEFINE q == Head(unit.todo)
<1>8. ASSUME StepOk
      PROVE  /\ Steady /\ unit.todo # <<>> /\ unit'.todo = Tail(unit.todo) /\ unit'.raised = unit.raised
             /\ unit' = [op |-> unit.op, to |-> unit.to, at |-> unit.at, todo |-> Tail(unit.todo),
                         payload |-> unit'.payload, span |-> unit'.span, raised |-> unit'.raised,
                         open |-> unit.open]
             /\ q.op \notin {"take"} => unit'.payload = unit.payload
             /\ q.op \in {"push", "pop"} => unit'.span = unit.span
             /\ q.op = "stage" => unit'.span = Part(device[q.from], q.at, q.n)
             /\ q.op = "map" => unit'.span = Part(unit.span, q.at, q.n)
             /\ q.op \notin {"store", "copy"} => device' = device
             /\ q.op \notin {"push", "pop"} => scopes' = scopes
             /\ q.op = "push" => scopes' = Append(scopes, [kind |-> q.kind, hit |-> FALSE])
             /\ q.op = "pop" => /\ \A i \in Len(scopes) - q.n + 1..Len(scopes) : ~scopes[i].hit
                                /\ scopes' = SubSeq(scopes, 1, Len(scopes) - q.n)
  BY <1>8, StepEffect
<1> HIDE DEF q
<1>9. ASSUME NEW kind, StepRaises(kind)
      PROVE  /\ Steady /\ unit.todo # <<>> /\ unit'.todo = Tail(unit.todo) /\ ~unit.raised /\ unit'.raised
             /\ unit' = [op |-> unit.op, to |-> unit.to, at |-> unit.at, todo |-> Tail(unit.todo),
                         payload |-> unit'.payload, span |-> unit'.span, raised |-> unit'.raised,
                         open |-> unit.open]
             /\ unit'.payload = unit.payload /\ unit'.span = unit.span /\ unit'.raised \in BOOLEAN
             /\ device' = device /\ Raise(kind) /\ q.op \in {"stage", "store", "copy"}
  BY <1>9, RaiseEffect DEF q
<1>10. ASSUME Steady, device' = device, unit'.todo = Tail(unit.todo), unit.todo # <<>>,
              unit'.payload = unit.payload, unit'.span \in Seq(Contents), unit'.raised \in BOOLEAN,
              scopes' \in Seq(Scope),
              unit' = [op |-> unit.op, to |-> unit.to, at |-> unit.at, todo |-> Tail(unit.todo),
                       payload |-> unit'.payload, span |-> unit'.span, raised |-> unit'.raised,
                       open |-> unit.open]
       PROVE  BufferTypes' /\ AllPadded' /\ unit'.open = unit.open
  <2>1. host' = host /\ unit'.open = unit.open
    BY <1>10 DEF Steady
  <2>2. BufferTypes'
    BY <1>4, <1>10, <2>1, StepTypes
  <2>3. AllPadded'
    BY <1>3, <1>10, <2>1, StayPadded
  <2> QED BY <2>1, <2>2, <2>3
<1>11. CASE unit.todo = <<o, v, s, p, m>> \o rest /\ OwnScopes(d) /\ ~unit.raised
  <2>1. q = o /\ Tail(unit.todo) = <<v, s, p, m>> \o rest
    BY <1>11, <1>7 DEF q
  <2>2. StepOk
    BY <2>1, <1>2, <1>9
  <2>3. /\ Steady /\ device' = device /\ unit'.span = unit.span /\ unit'.payload = unit.payload
        /\ scopes' = Append(scopes, [kind |-> "oom", hit |-> FALSE]) /\ unit'.raised = unit.raised
        /\ unit'.todo = <<v, s, p, m>> \o rest
    BY <2>1, <2>2, <1>2, <1>8
  <2>4. Len(scopes) = unit.open + d
    BY <1>11 DEF OwnScopes
  <2>5. /\ scopes' \in Seq(Scope) /\ Len(scopes') = Len(scopes) + 1
        /\ \A i \in 1..Len(scopes) : scopes'[i] = scopes[i]
        /\ scopes'[Len(scopes) + 1] = [kind |-> "oom", hit |-> FALSE]
    BY <2>3, <1>4, Pushed
  <2>6. BufferTypes' /\ AllPadded' /\ unit'.open = unit.open
    BY <2>2, <2>3, <2>5, <1>4, <1>8, <1>10
  <2>7. OwnScopes(d + 1)' /\ Untouched(d + 1, "oom")' /\ Below(d)
    <3>1. unit.open + (d + 1) = Len(scopes) + 1
      BY <2>4, <1>0
    <3> QED
      BY <3>1, <2>4, <2>5, <2>6 DEF OwnScopes, Untouched, Below
  <2>8. Reading(b, at, n, rest, d)'
    BY <2>3, <2>6, <2>7, <1>3, <1>11 DEF Reading, v, s, p, m, StageStep, MapStep, Down, Up, PopScopes, Pop, Push
  <2> QED
    BY <2>3, <2>6, <2>7, <2>8
<1>12. CASE unit.todo = <<v, s, p, m>> \o rest /\ OwnScopes(d + 1) /\ ~unit.raised /\ Untouched(d + 1, "oom")
  <2>1. q = v /\ Tail(unit.todo) = <<s, p, m>> \o rest
    BY <1>12, <1>7 DEF q
  <2>2. StepOk
    BY <2>1, <1>2, <1>9
  <2>3. /\ Steady /\ device' = device /\ unit'.span = unit.span /\ unit'.payload = unit.payload
        /\ scopes' = Append(scopes, [kind |-> "validation", hit |-> FALSE]) /\ unit'.raised = unit.raised
        /\ unit'.todo = <<s, p, m>> \o rest
    BY <2>1, <2>2, <1>2, <1>8
  <2>4. Len(scopes) = unit.open + (d + 1)
    BY <1>12 DEF OwnScopes
  <2>5. /\ scopes' \in Seq(Scope) /\ Len(scopes') = Len(scopes) + 1
        /\ \A i \in 1..Len(scopes) : scopes'[i] = scopes[i]
        /\ scopes'[Len(scopes) + 1] = [kind |-> "validation", hit |-> FALSE]
    BY <2>3, <1>4, Pushed
  <2>6. BufferTypes' /\ AllPadded' /\ unit'.open = unit.open
    BY <2>2, <2>3, <2>5, <1>4, <1>8, <1>10
  <2>7. OwnScopes(d + 2)' /\ Untouched(d + 1, "oom")' /\ Untouched(d + 2, "validation")' /\ Below(d)
    <3>1. /\ unit.open + (d + 2) = Len(scopes) + 1 /\ unit.open + (d + 1) \in 1..Len(scopes)
          /\ \A i \in 1..unit.open + d : i \in 1..Len(scopes)
      BY <2>4, <1>0
    <3> QED
      BY <3>1, <2>4, <2>5, <2>6, <1>12 DEF OwnScopes, Untouched, Below
  <2>8. Reading(b, at, n, rest, d)'
    BY <2>3, <2>6, <2>7, <1>3, <1>12 DEF Reading, s, p, m, StageStep, MapStep, Down, Up, PopScopes, Pop
  <2> QED
    BY <2>3, <2>6, <2>7, <2>8
<1>13. CASE /\ unit.todo = <<s, p, m>> \o rest /\ OwnScopes(d + 2) /\ ~unit.raised
            /\ Untouched(d + 1, "oom") /\ Untouched(d + 2, "validation")
  <2>1. q = s /\ Tail(unit.todo) = <<p, m>> \o rest
    BY <1>13, <1>7 DEF q
  <2>2. /\ Len(scopes) = unit.open + (d + 2) /\ scopes[unit.open + (d + 1)] = [kind |-> "oom", hit |-> FALSE]
        /\ scopes[unit.open + (d + 2)] = [kind |-> "validation", hit |-> FALSE]
    BY <1>13 DEF OwnScopes, Untouched
  <2>3. /\ unit.open + (d + 1) \in 1..Len(scopes) /\ unit.open + (d + 2) \in 1..Len(scopes)
        /\ \A j \in unit.open + (d + 1) + 1..Len(scopes) : j = unit.open + (d + 2)
        /\ \A j \in unit.open + (d + 2) + 1..Len(scopes) : FALSE
        /\ \A i \in 1..unit.open + d : i \in 1..Len(scopes) /\ i # unit.open + (d + 1) /\ i # unit.open + (d + 2)
    BY <2>2, <1>0
  <2>4. CASE StepOk
    <3>1. /\ Steady /\ device' = device /\ unit'.span = Staged(b, at, n) /\ unit'.payload = unit.payload
          /\ scopes' = scopes /\ unit'.raised = unit.raised
          /\ unit'.todo = <<p, m>> \o rest
      BY <2>1, <2>4, <1>2, <1>8 DEF Staged
    <3>2. BufferTypes' /\ AllPadded' /\ unit'.open = unit.open
      BY <3>1, <2>4, <1>4, <1>6, <1>8, <1>10
    <3>3. OwnScopes(d + 2)' /\ ~Hit(d + 1)' /\ ~Hit(d + 2)' /\ Below(d)
      BY <2>2, <3>1, <3>2 DEF OwnScopes, Hit, Below
    <3>4. unit'.span = Staged(b, at, n)'
      BY <3>1 DEF Staged, Part, Down, Up
    <3>5. Reading(b, at, n, rest, d)'
      BY <3>1, <3>2, <3>3, <3>4, <1>3, <1>13 DEF Reading, p, m, MapStep, PopScopes, Pop
    <3> QED
      BY <3>1, <3>2, <3>3, <3>5
  <2>5. ASSUME NEW kind \in {"oom", "validation"}, StepRaises(kind)
        PROVE  /\ BufferTypes' /\ Steady /\ device' = device /\ unit'.payload = unit.payload /\ Below(d)
               /\ Reading(b, at, n, rest, d)'
    <3>1. /\ Steady /\ device' = device /\ unit'.span = unit.span /\ unit'.payload = unit.payload
          /\ Raise(kind) /\ unit'.raised /\ unit'.todo = <<p, m>> \o rest
      BY <2>1, <2>5, <1>9
    <3>2. PICK j \in {unit.open + (d + 1), unit.open + (d + 2)} :
             scopes[j].kind = kind /\ \A i \in j + 1..Len(scopes) : scopes[i].kind # kind
      BY <2>2, <2>3
    <3>3. /\ scopes' \in Seq(Scope) /\ Len(scopes') = Len(scopes) /\ scopes'[j].hit
          /\ \A i \in 1..Len(scopes) : i # j => scopes'[i] = scopes[i]
      <4>1. j \in 1..Len(scopes)
        BY <2>3
      <4> QED BY <4>1, <3>1, <3>2, <1>4, RaisedIn
    <3>4. BufferTypes' /\ AllPadded' /\ unit'.open = unit.open
      BY <3>1, <3>3, <2>5, <1>4, <1>9, <1>10
    <3>5. OwnScopes(d + 2)' /\ (Hit(d + 1)' \/ Hit(d + 2)') /\ Below(d)
      BY <2>2, <2>3, <3>3, <3>4 DEF OwnScopes, Hit, Below
    <3>6. Reading(b, at, n, rest, d)'
      BY <3>1, <3>4, <3>5, <1>3, <1>13 DEF Reading, p, m, MapStep, PopScopes, Pop
    <3> QED
      BY <3>1, <3>4, <3>5, <3>6
  <2> QED
    BY <2>4, <2>5
<1>14. CASE /\ unit.todo = <<p, m>> \o rest /\ OwnScopes(d + 2)
            /\ IF unit.raised THEN Hit(d + 1) \/ Hit(d + 2)
               ELSE ~Hit(d + 1) /\ ~Hit(d + 2) /\ unit.span = Staged(b, at, n)
  <2>1. q = p /\ Tail(unit.todo) = <<m>> \o rest
    BY <1>14, <1>7 DEF q
  <2>2. StepOk
    BY <2>1, <1>2, <1>9
  <2>3. /\ Steady /\ device' = device /\ unit'.span = unit.span /\ unit'.payload = unit.payload
        /\ (\A i \in Len(scopes) - 2 + 1..Len(scopes) : ~scopes[i].hit)
        /\ scopes' = SubSeq(scopes, 1, Len(scopes) - 2) /\ unit'.raised = unit.raised
        /\ unit'.todo = <<m>> \o rest
    BY <2>1, <2>2, <1>2, <1>8
  <2>4. Len(scopes) = unit.open + (d + 2)
    BY <1>14 DEF OwnScopes
  <2>5. /\ unit.open + (d + 1) \in Len(scopes) - 2 + 1..Len(scopes)
        /\ unit.open + (d + 2) \in Len(scopes) - 2 + 1..Len(scopes)
        /\ Len(scopes) - 2 = unit.open + d /\ 2 <= Len(scopes)
    BY <2>4, <1>0
  <2>6. ~unit.raised /\ unit.span = Staged(b, at, n)
    BY <2>3, <2>5, <1>14 DEF Hit
  <2>7. /\ scopes' \in Seq(Scope) /\ Len(scopes') = unit.open + d
        /\ \A i \in 1..unit.open + d : scopes'[i] = scopes[i]
    <3>1. 2 \in Nat
      OBVIOUS
    <3> QED BY <3>1, <2>3, <2>5, <1>4, Popped
  <2>8. BufferTypes' /\ AllPadded' /\ unit'.open = unit.open
    BY <2>2, <2>3, <2>7, <1>4, <1>8, <1>10
  <2>9. OwnScopes(d)' /\ Below(d)
    BY <2>7, <2>8 DEF OwnScopes, Below
  <2>10. unit'.span = Staged(b, at, n)'
    BY <2>3, <2>6 DEF Staged, Part, Down, Up
  <2>11. Reading(b, at, n, rest, d)'
    BY <2>3, <2>6, <2>8, <2>9, <2>10, <1>3 DEF Reading, m, MapStep
  <2> QED
    BY <2>3, <2>8, <2>9, <2>11
<1>15. CASE unit.todo = <<m>> \o rest /\ OwnScopes(d) /\ ~unit.raised /\ unit.span = Staged(b, at, n)
  <2>1. q = m /\ Tail(unit.todo) = rest
    BY <1>15, <1>7 DEF q
  <2>2. StepOk
    BY <2>1, <1>2, <1>9
  <2>3. /\ Steady /\ device' = device /\ unit'.span = Part(unit.span, at % Align, n)
        /\ unit'.payload = unit.payload /\ scopes' = scopes /\ unit'.raised = unit.raised /\ unit'.todo = rest
    BY <2>1, <2>2, <1>2, <1>8
  <2>4. unit'.span = Part(device[b], at, n)
    BY <2>3, <1>6, <1>15
  <2>5. BufferTypes' /\ AllPadded' /\ unit'.open = unit.open
    BY <2>2, <2>3, <2>4, <1>4, <1>6, <1>8, <1>10
  <2>6. OwnScopes(d)' /\ Below(d)
    BY <2>3, <2>5, <1>15 DEF OwnScopes, Below
  <2>7. ReadDone(b, at, n, rest, d)'
    BY <2>3, <2>4, <2>5, <2>6, <1>15 DEF ReadDone, Part
  <2> QED
    BY <2>3, <2>5, <2>6, <2>7
<1> QED
  BY <1>5, <1>11, <1>12, <1>13, <1>14, <1>15

\* The operation at the head of a readback's program.
LEMMA ReadingHead ==
    ASSUME BufferTypes, NEW b \in Buffers, NEW at \in Nat, NEW n \in Nat, NEW rest \in Seq(Steps),
           NEW d \in Nat, Reading(b, at, n, rest, d)
    PROVE  /\ unit.todo # <<>> /\ Head(unit.todo).op \in {"push", "stage", "pop", "map"}
           /\ Head(unit.todo).op = "pop" => Head(unit.todo).n = 2 /\ OwnScopes(d + 2)
           /\ Head(unit.todo).op = "map" => OwnScopes(d)
<1> DEFINE o == Push("oom")
           v == Push("validation")
           s == StageStep(b, at, n)
           p == PopScopes
           m == MapStep(at, n)
<1>1. o \in Steps /\ v \in Steps /\ s \in Steps /\ p \in Steps /\ m \in Steps
  BY StepsOf
<1>2. o.op = "push" /\ v.op = "push" /\ s.op = "stage" /\ p.op = "pop" /\ p.n = 2 /\ m.op = "map"
  BY DEF Push, Pop, PopScopes, StageStep, MapStep
<1>3. ReadSteps(b, at, n) = <<o, v, s, p, m>>
  BY DEF Reading, ReadSteps, StageStep, MapStep
<1>4. \/ unit.todo = <<o, v, s, p, m>> \o rest
      \/ unit.todo = <<v, s, p, m>> \o rest
      \/ unit.todo = <<s, p, m>> \o rest
      \/ unit.todo = <<p, m>> \o rest /\ OwnScopes(d + 2)
      \/ unit.todo = <<m>> \o rest /\ OwnScopes(d)
  BY <1>3 DEF Reading
<1> HIDE DEF o, v, s, p, m, Steps
<1>5. /\ <<o, v, s, p, m>> \in Seq(Steps) /\ <<o, v, s, p, m>> # <<>> /\ Head(<<o, v, s, p, m>>) = o
      /\ <<v, s, p, m>> \in Seq(Steps) /\ <<v, s, p, m>> # <<>> /\ Head(<<v, s, p, m>>) = v
      /\ <<s, p, m>> \in Seq(Steps) /\ <<s, p, m>> # <<>> /\ Head(<<s, p, m>>) = s
      /\ <<p, m>> \in Seq(Steps) /\ <<p, m>> # <<>> /\ Head(<<p, m>>) = p
      /\ <<m>> \in Seq(Steps) /\ <<m>> # <<>> /\ Head(<<m>>) = m
  BY <1>1
<1>6. \A t \in Seq(Steps) : t # <<>> => t \o rest # <<>> /\ Head(t \o rest) = Head(t)
  BY FirstOf
<1>7. \/ unit.todo # <<>> /\ Head(unit.todo) = o
      \/ unit.todo # <<>> /\ Head(unit.todo) = v
      \/ unit.todo # <<>> /\ Head(unit.todo) = s
      \/ unit.todo # <<>> /\ Head(unit.todo) = p /\ OwnScopes(d + 2)
      \/ unit.todo # <<>> /\ Head(unit.todo) = m /\ OwnScopes(d)
  BY <1>4, <1>5, <1>6, Zenon
<1> QED
  BY <1>2, <1>7

\* A readback that fails leaves what was below it.
LEMMA ReadingFails ==
    ASSUME BufferInv, NEW b \in Buffers, NEW at \in Nat, NEW n \in Nat, NEW rest \in Seq(Steps),
           NEW d \in 0..1, Reading(b, at, n, rest, d), PopFails \/ MapFails
    PROVE  BufferInv'
<1>1. BufferTypes /\ AllPadded /\ d \in Nat
  BY DEF BufferInv, Reading
<1>2. /\ Head(unit.todo).op = "pop" => Head(unit.todo).n = 2 /\ OwnScopes(d + 2)
      /\ Head(unit.todo).op = "map" => OwnScopes(d)
  BY <1>1, ReadingHead
<1>3. unit.open \in Nat /\ scopes \in Seq(Scope)
  BY <1>1 DEF BufferTypes, Scope
<1>4. Finish("err")
  BY Zenon DEF PopFails, MapFails
<1>5. scopes' \in Seq(Scope) /\ Len(scopes') - unit.open \in 0..1
  <2>1. CASE PopFails
    <3>1. scopes' = SubSeq(scopes, 1, Len(scopes) - 2) /\ Len(scopes) = unit.open + (d + 2)
      BY <2>1, <1>2 DEF PopFails, OwnScopes
    <3>2. 2 \in Nat /\ 2 <= Len(scopes) /\ Len(scopes) - 2 = unit.open + d
      BY <3>1, <1>1, <1>3, StepIndices
    <3>3. scopes' \in Seq(Scope) /\ Len(scopes') = unit.open + d
      BY <3>1, <3>2, <1>3, Popped
    <3> QED BY <3>3, <1>3
  <2>2. CASE MapFails
    <3>1. scopes' = scopes /\ Len(scopes) = unit.open + d
      BY <2>2, <1>2 DEF MapFails, OwnScopes
    <3> QED BY <3>1, <1>3
  <2> QED BY <2>1, <2>2
<1> QED
  BY <1>1, <1>4, <1>5, FailureKeeps

-----------------------------------------------------------------------------
\* Writes and copies.
Transferring == unit.op \in {"write", "copy"} /\ unit.at + Size <= Len(host[unit.to])

\* What a transfer's arithmetic gives: the span covers the payload and lies in
\* the buffer, and both ways of landing leave the bytes of the host's patch.
LEMMA Landed ==
    ASSUME BufferTypes, AllPadded, Transferring
    PROVE  /\ unit.to \in Buffers /\ unit.at \in Nat /\ Size \in Nat /\ First \in Nat /\ Width \in Nat
           /\ First + Width <= Len(device[unit.to]) /\ (Size > 0 => Width > 0)
           /\ Part(device[unit.to], First, Width) \in Seq(Contents)
           /\ Len(Part(device[unit.to], First, Width)) = Width
           /\ Patch(device[unit.to], unit.at, unit.payload) = Padded(Written)
           /\ Patch(device[unit.to], First,
                    Patch(Part(device[unit.to], First, Width), unit.at % Align, unit.payload)) = Padded(Written)
<1> DEFINE c == unit.to
           x == unit.at
           pl == unit.payload
           l == Len(host[c])
           r == x % Align
<1>1. c \in Buffers /\ x \in Nat /\ pl \in Seq(Contents) /\ Size = Len(pl) /\ Size \in Nat
  BY LenProperties DEF BufferTypes, Contents, Size
<1>2. /\ host[c] \in Seq(Contents) /\ device[c] \in Seq(Contents) /\ device[c] = Padded(host[c])
      /\ Len(device[c]) = Up(l) /\ l \in Nat /\ l <= Len(device[c]) /\ Len(device[c]) \in Nat
  BY <1>1, PaddedBuffers
<1>3. x + Size <= l
  BY DEF Transferring
<1>4. First \in Nat /\ First <= x /\ x - First = r
  BY <1>1, DownAligned DEF First
<1>5. x + Size \in Nat /\ Up(x + Size) \in Nat /\ x + Size <= Up(x + Size) /\ Up(x + Size) <= Up(l)
  <2>1. x + Size \in Nat
    BY <1>1
  <2> QED BY <2>1, <1>2, <1>3, UpAligned, UpMonotone
<1>6. Width = Up(x + Size) - First
  BY DEF Width
<1> HIDE DEF c, x, pl, l, r
<1>7. /\ Width \in Nat /\ First + Width <= Len(device[c]) /\ (Size > 0 => Width > 0)
      /\ r \in Nat /\ r + Size <= Width /\ First + r = x /\ x + Size <= Len(host[c])
  BY <1>1, <1>2, <1>3, <1>4, <1>5, <1>6 DEF l
<1>8. Part(device[c], First, Width) \in Seq(Contents) /\ Len(Part(device[c], First, Width)) = Width
  <2>1. device[c] \in Seq(Contents) /\ First \in Nat /\ Width \in Nat /\ First + Width <= Len(device[c])
    BY <1>2, <1>4, <1>7
  <2> QED BY <2>1, PartOf
<1>9. Patch(device[c], x, pl) = Padded(Patch(host[c], x, pl))
  <2>1. 0 \in Contents
    BY DEF Contents
  <2> QED BY <2>1, <1>1, <1>2, <1>7, PatchOfPadded
<1>10. Patch(device[c], First, Patch(Part(device[c], First, Width), r, pl)) = Patch(device[c], First + r, pl)
  <2>1. /\ device[c] \in Seq(Contents) /\ First \in Nat /\ Width \in Nat /\ First + Width <= Len(device[c])
        /\ r \in Nat /\ pl \in Seq(Contents) /\ r + Len(pl) <= Width
    BY <1>1, <1>2, <1>4, <1>7
  <2> QED BY <2>1, PatchThroughSpan
<1> QED
  BY <1>1, <1>4, <1>7, <1>8, <1>9, <1>10 DEF c, x, pl, r, Written

\* The call in hand is still the same one.
LEMMA SameCall ==
    ASSUME Steady, unit'.payload = unit.payload
    PROVE  /\ Size' = Size /\ First' = First /\ Width' = Width /\ Landing' = Landing /\ Written' = Written
           /\ OverlayStep' = OverlayStep /\ \A at : StoreStep(at)' = StoreStep(at)
           /\ \A b, from : CopyStep(b, from)' = CopyStep(b, from)
           /\ (Transferring => Transferring')
           /\ WriteSteps(unit.to, unit.at, Size)' = WriteSteps(unit.to, unit.at, Size)
<1>1. /\ unit'.op = unit.op /\ unit'.to = unit.to /\ unit'.at = unit.at /\ host' = host
  BY DEF Steady
<1>2. Size' = Size
  BY DEF Size
<1>3. First' = First
  BY <1>1 DEF First, Down
<1>4. Width' = Width
  BY <1>1, <1>2, <1>3 DEF Width, Up
<1>5. OverlayStep' = OverlayStep /\ (\A at : StoreStep(at)' = StoreStep(at))
  BY <1>1 DEF OverlayStep, StoreStep
<1>6. Landing' = Landing
  BY <1>3, <1>5 DEF Landing, Pop
<1>7. Written' = Written
  BY <1>1 DEF Written, Patch
<1>8. \A b, from : CopyStep(b, from)' = CopyStep(b, from)
  BY <1>1, <1>2 DEF CopyStep
<1>9. Transferring => Transferring'
  BY <1>1, <1>2 DEF Transferring
<1>10. WriteSteps(unit.to, unit.at, Size)' = WriteSteps(unit.to, unit.at, Size)
  BY <1>1, <1>2 DEF WriteSteps, ReadSteps, Push, Pop, PopScopes, Down, Up
<1> QED
  BY <1>2, <1>3, <1>4, <1>5, <1>6, <1>7, <1>8, <1>9, <1>10

\* The steps of a transfer are steps.
LEMMA TransferSteps ==
    ASSUME BufferTypes, Transferring
    PROVE  /\ \A at \in Nat : StoreStep(at) \in Steps
           /\ OverlayStep \in Steps /\ Pop(1) \in Steps /\ Push("validation") \in Steps
           /\ [op |-> "load"] \in Steps /\ [op |-> "take"] \in Steps
           /\ StoreStep(First) \in Steps /\ StoreStep(unit.at) \in Steps
           /\ Landing \in Seq(Steps)
           /\ \A b \in Buffers, from \in Nat : CopyStep(b, from) \in Steps
<1>1. unit.to \in Buffers /\ unit.at \in Nat /\ Size \in Nat
  BY LenProperties DEF BufferTypes, Size
<1>2. First \in Nat /\ unit.at % Align \in Nat
  <2>1. First \in Nat /\ unit.at % Align \in 0..(Align - 1)
    BY <1>1, DownAligned DEF First
  <2> QED BY <2>1, BufferAssumption
<1>3. /\ Pop(1) \in Steps /\ Push("validation") \in Steps /\ [op |-> "load"] \in Steps /\ [op |-> "take"] \in Steps
  BY <1>1, StepsOf
<1>4. ASSUME NEW at \in Nat PROVE StoreStep(at) \in Steps
  BY <1>1, StepsOf DEF StoreStep
<1>5. OverlayStep \in Steps
  BY <1>1, <1>2, StepsOf DEF OverlayStep
<1>6. ASSUME NEW b \in Buffers, NEW from \in Nat PROVE CopyStep(b, from) \in Steps
  BY <1>1, StepsOf DEF CopyStep
<1> HIDE DEF Steps
<1>7. StoreStep(First) \in Steps /\ StoreStep(unit.at) \in Steps
  BY <1>1, <1>2, <1>4
<1>8. Landing \in Seq(Steps)
  BY <1>3, <1>5, <1>7 DEF Landing
<1> QED
  BY <1>3, <1>4, <1>5, <1>6, <1>7, <1>8

\* The first step of a write opens its scope.
LEMMA WriteBegins ==
    ASSUME BufferTypes, AllPadded, Transferring, Size > 0
    PROVE  /\ WriteSteps(unit.to, unit.at, Size) \in Seq(Steps)
           /\ WriteSteps(unit.to, unit.at, Size) # <<>>
           /\ Head(WriteSteps(unit.to, unit.at, Size)) = Push("validation")
           /\ \/ Tail(WriteSteps(unit.to, unit.at, Size)) = <<[op |-> "load"], StoreStep(unit.at), Pop(1)>>
              \/ Tail(WriteSteps(unit.to, unit.at, Size)) = ReadSteps(unit.to, First, Width) \o Landing
<1> DEFINE W == WriteSteps(unit.to, unit.at, Size)
           v == Push("validation")
           e == [op |-> "load"]
           t == StoreStep(unit.at)
           p == Pop(1)
           R == ReadSteps(unit.to, First, Width)
<1>1. /\ Landing \in Seq(Steps) /\ v \in Steps /\ e \in Steps /\ t \in Steps /\ p \in Steps
  BY TransferSteps
<1>2. unit.to \in Buffers /\ unit.at \in Nat /\ Size \in Nat /\ First \in Nat /\ Width \in Nat /\ Width > 0
  BY Landed
<1>3. R \in Seq(Steps)
  <2>1. R = <<Push("oom"), v, StageStep(unit.to, First, Width), PopScopes, MapStep(First, Width)>>
    BY <1>2 DEF ReadSteps, StageStep, MapStep
  <2>2. /\ Push("oom") \in Steps /\ StageStep(unit.to, First, Width) \in Steps /\ PopScopes \in Steps
        /\ MapStep(First, Width) \in Steps
    BY <1>2, StepsOf
  <2> HIDE DEF Steps, R, v
  <2> QED BY <2>1, <2>2, <1>1
<1>4. W = <<v, e, t, p>> \/ W = (<<v>> \o R) \o Landing
  BY <1>2 DEF WriteSteps, StoreStep, Landing, OverlayStep, First, Width
<1> HIDE DEF W, v, e, t, p, R, Steps
<1>5. CASE W = <<v, e, t, p>>
  <2>1. W \in Seq(Steps) /\ W # <<>> /\ Head(W) = v /\ Tail(W) = <<e, t, p>>
    BY <1>5, <1>1, Tails
  <2> QED BY <2>1 DEF W, v, e, t, p
<1>6. CASE W = (<<v>> \o R) \o Landing
  <2>1. <<v>> \in Seq(Steps) /\ <<v>> # <<>> /\ R \o Landing \in Seq(Steps)
    BY <1>1, <1>3, ConcatProperties
  <2>2. W = <<v>> \o (R \o Landing)
    BY <2>1, <1>6, <1>1, <1>3, ConcatAssociative
  <2>3. Head(<<v>>) = v /\ Tail(<<v>>) = <<>>
    BY <1>1, Tails
  <2>4. W # <<>> /\ Head(W) = v /\ Tail(W) = <<>> \o (R \o Landing)
    BY <2>1, <2>2, <2>3, FirstOf
  <2>5. <<>> \o (R \o Landing) = R \o Landing
    BY <2>1, ConcatEmptySeq
  <2>6. W \in Seq(Steps)
    BY <2>1, <2>2, ConcatProperties
  <2> QED BY <2>4, <2>5, <2>6 DEF W, v, R
<1> QED
  BY <1>4, <1>5, <1>6

\* The steps of a transfer, by the operation at its head: a push,
LEMMA PushGoes ==
    ASSUME BufferTypes, StepOk, Head(unit.todo) = Push("validation"), NEW d \in Nat, OwnScopes(d)
    PROVE  /\ BufferTypes' /\ Steady /\ unit'.payload = unit.payload /\ unit'.span = unit.span
           /\ device' = device /\ unit'.raised = unit.raised /\ unit'.todo = Tail(unit.todo)
           /\ OwnScopes(d + 1)' /\ Untouched(d + 1, "validation")'
<1>1. Head(unit.todo).op = "push" /\ Head(unit.todo).kind = "validation"
  BY DEF Push
<1>2. /\ Steady /\ unit.todo # <<>> /\ unit'.todo = Tail(unit.todo) /\ unit'.raised = unit.raised
      /\ unit' = [op |-> unit.op, to |-> unit.to, at |-> unit.at, todo |-> Tail(unit.todo),
                  payload |-> unit'.payload, span |-> unit'.span, raised |-> unit'.raised, open |-> unit.open]
      /\ unit'.payload = unit.payload /\ unit'.span = unit.span /\ device' = device
      /\ scopes' = Append(scopes, [kind |-> "validation", hit |-> FALSE])
  BY <1>1, StepEffect
<1>3. /\ unit.payload \in Seq(Contents) /\ unit.span \in Seq(Contents) /\ unit.open \in Nat
      /\ device \in [Buffers -> Seq(Contents)] /\ scopes \in Seq(Scope) /\ unit.raised \in BOOLEAN
  BY DEF BufferTypes, Contents, Scope
<1>4. /\ scopes' \in Seq(Scope) /\ Len(scopes') = Len(scopes) + 1
      /\ scopes'[Len(scopes) + 1] = [kind |-> "validation", hit |-> FALSE]
  BY <1>2, <1>3, Pushed
<1>5. Len(scopes) + 1 = unit.open + (d + 1)
  <2>1. unit.open \in Nat /\ Len(scopes) = unit.open + d
    BY <1>3 DEF OwnScopes
  <2> QED BY <2>1
<1>6. host' = host /\ unit'.open = unit.open
  BY <1>2 DEF Steady
<1>7. BufferTypes'
  BY <1>2, <1>3, <1>4, <1>6, StepTypes
<1> QED
  BY <1>2, <1>4, <1>5, <1>6, <1>7 DEF OwnScopes, Untouched

\* ... the pop of its only scope, which held no error,
LEMMA PopGoes ==
    ASSUME BufferTypes, StepOk, Head(unit.todo) = Pop(1), OwnScopes(1)
    PROVE  /\ BufferTypes' /\ Steady /\ unit'.payload = unit.payload /\ unit'.span = unit.span
           /\ device' = device /\ unit'.raised = unit.raised /\ unit'.todo = Tail(unit.todo)
           /\ OwnScopes(0)' /\ ~Hit(1)
<1>1. Head(unit.todo).op = "pop" /\ Head(unit.todo).n = 1
  BY DEF Pop
<1>2. /\ Steady /\ unit.todo # <<>> /\ unit'.todo = Tail(unit.todo) /\ unit'.raised = unit.raised
      /\ unit' = [op |-> unit.op, to |-> unit.to, at |-> unit.at, todo |-> Tail(unit.todo),
                  payload |-> unit'.payload, span |-> unit'.span, raised |-> unit'.raised, open |-> unit.open]
      /\ unit'.payload = unit.payload /\ unit'.span = unit.span /\ device' = device
      /\ (\A i \in Len(scopes) - 1 + 1..Len(scopes) : ~scopes[i].hit)
      /\ scopes' = SubSeq(scopes, 1, Len(scopes) - 1)
  BY <1>1, StepEffect
<1>3. /\ unit.payload \in Seq(Contents) /\ unit.span \in Seq(Contents) /\ unit.open \in Nat
      /\ device \in [Buffers -> Seq(Contents)] /\ scopes \in Seq(Scope) /\ unit.raised \in BOOLEAN
  BY DEF BufferTypes, Contents, Scope
<1>4. /\ Len(scopes) = unit.open + 1 /\ 1 \in Nat /\ 1 <= Len(scopes) /\ Len(scopes) - 1 = unit.open + 0
      /\ unit.open + 1 \in Len(scopes) - 1 + 1..Len(scopes)
  <2>1. unit.open \in Nat /\ Len(scopes) = unit.open + 1
    BY <1>3 DEF OwnScopes
  <2> QED BY <2>1
<1>5. scopes' \in Seq(Scope) /\ Len(scopes') = unit.open + 0
  <2>1. scopes' \in Seq(Scope) /\ Len(scopes') = Len(scopes) - 1
    BY <1>2, <1>3, <1>4, Popped
  <2> QED BY <2>1, <1>4
<1>6. host' = host /\ unit'.open = unit.open
  BY <1>2 DEF Steady
<1>7. BufferTypes'
  BY <1>2, <1>3, <1>5, <1>6, StepTypes
<1> QED
  BY <1>2, <1>4, <1>5, <1>6, <1>7 DEF OwnScopes, Hit

\* ... a step that moves bytes,
LEMMA DataGoes ==
    ASSUME BufferTypes, StepOk, Head(unit.todo).op \in {"load", "take", "overlay", "store", "copy"},
           unit'.span \in Seq(Contents), device' \in [Buffers -> Seq(Contents)]
    PROVE  /\ BufferTypes' /\ Steady /\ unit'.raised = unit.raised /\ unit'.todo = Tail(unit.todo)
           /\ scopes' = scopes /\ (\A i : OwnScopes(i) => OwnScopes(i)')
           /\ (\A i, kind : Untouched(i, kind) => Untouched(i, kind)')
<1>1. /\ Steady /\ unit.todo # <<>> /\ unit'.todo = Tail(unit.todo) /\ unit'.raised = unit.raised
      /\ unit' = [op |-> unit.op, to |-> unit.to, at |-> unit.at, todo |-> Tail(unit.todo),
                  payload |-> unit'.payload, span |-> unit'.span, raised |-> unit'.raised, open |-> unit.open]
      /\ unit'.payload \in {unit.payload, unit.span} /\ scopes' = scopes
  BY StepEffect
<1>2. /\ unit.payload \in Seq(Contents) /\ unit.span \in Seq(Contents)
      /\ scopes \in Seq(Scope) /\ unit.raised \in BOOLEAN
  BY DEF BufferTypes, Contents, Scope
<1>3. host' = host /\ unit'.open = unit.open
  BY <1>1 DEF Steady
<1>4. unit'.payload \in Seq(Contents)
  BY <1>1, <1>2
<1>5. BufferTypes'
  BY <1>1, <1>2, <1>3, <1>4, StepTypes
<1> QED
  BY <1>1, <1>3, <1>5 DEF OwnScopes, Untouched

\* ... and a refused submission, whose error its own scope holds.
LEMMA RefusedGoes ==
    ASSUME BufferTypes, NEW kind \in {"oom", "validation"}, StepRaises(kind),
           Head(unit.todo).op \in {"store", "copy"}, OwnScopes(1), Untouched(1, "validation")
    PROVE  /\ BufferTypes' /\ Steady /\ unit'.payload = unit.payload /\ device' = device
           /\ unit'.raised /\ unit'.todo = Tail(unit.todo) /\ OwnScopes(1)' /\ Hit(1)'
<1>1. /\ Steady /\ unit.todo # <<>> /\ unit'.todo = Tail(unit.todo) /\ unit'.raised
      /\ unit' = [op |-> unit.op, to |-> unit.to, at |-> unit.at, todo |-> Tail(unit.todo),
                  payload |-> unit'.payload, span |-> unit'.span, raised |-> TRUE, open |-> unit.open]
      /\ unit'.payload = unit.payload /\ unit'.span = unit.span /\ device' = device
      /\ Raise("validation")
  BY RaiseEffect
<1>2. /\ unit.payload \in Seq(Contents) /\ unit.span \in Seq(Contents) /\ unit.open \in Nat
      /\ device \in [Buffers -> Seq(Contents)] /\ scopes \in Seq(Scope)
  BY DEF BufferTypes, Contents, Scope
<1>3. /\ unit.open + 1 \in 1..Len(scopes) /\ Len(scopes) = unit.open + 1
      /\ scopes[unit.open + 1].kind = "validation" /\ \A j \in unit.open + 1 + 1..Len(scopes) : FALSE
  <2>1. unit.open \in Nat /\ Len(scopes) = unit.open + 1
    BY <1>2 DEF OwnScopes
  <2>2. scopes[unit.open + 1].kind = "validation"
    BY DEF Untouched
  <2> QED BY <2>1, <2>2
<1>4. scopes' \in Seq(Scope) /\ Len(scopes') = Len(scopes) /\ scopes'[unit.open + 1].hit
  BY <1>1, <1>2, <1>3, RaisedIn
<1>5. host' = host /\ unit'.open = unit.open
  BY <1>1 DEF Steady
<1>6. BufferTypes'
  <2>1. unit'.raised = TRUE
    BY <1>1
  <2>2. unit' = [op |-> unit.op, to |-> unit.to, at |-> unit.at, todo |-> Tail(unit.todo),
                 payload |-> unit'.payload, span |-> unit'.span, raised |-> unit'.raised, open |-> unit.open]
    BY <1>1, <2>1
  <2> QED BY <1>1, <1>2, <1>4, <1>5, <2>1, <2>2, StepTypes
<1> QED
  BY <1>1, <1>3, <1>4, <1>5, <1>6 DEF OwnScopes, Hit

\* A transfer that goes on keeps the invariant with its phase.
LEMMA Advanced ==
    ASSUME BufferInv, Transferring, Steady, BufferTypes', Transferring',
           (Writing \/ Closing \/ (unit.op = "copy" /\ CopyPhase))'
    PROVE  BufferInv'
<1>1. Answered'
  BY DEF BufferInv, Answered, Steady
<1>2. TransferPhase' /\ unit'.op \in {"write", "copy"}
  BY DEF TransferPhase, Transferring
<1> QED
  BY <1>1, <1>2 DEF BufferInv, Phases

\* What can happen while a call is in progress.
DeviceStep == StepOk \/ \E kind \in {"oom", "validation"} : StepRaises(kind)
CallEnds == PopFails \/ MapFails \/ CallReturns

\* Which of it, by the head of the program.
LEMMA ByHead ==
    ASSUME BufferTypes, unit.todo # <<>>, DeviceStep \/ CallEnds
    PROVE  /\ Head(unit.todo).op \in {"push", "load", "take", "overlay"} => StepOk
           /\ Head(unit.todo).op \in {"store", "copy"} => DeviceStep
           /\ Head(unit.todo).op = "pop" => StepOk \/ PopFails
           /\ ~CallReturns
<1>1. ~CallReturns
  BY DEF CallReturns
<1>2. PopFails => Head(unit.todo).op = "pop"
  BY DEF PopFails
<1>3. MapFails => Head(unit.todo).op = "map"
  BY DEF MapFails
<1>4. ASSUME NEW kind, StepRaises(kind) PROVE Head(unit.todo).op \in {"stage", "store", "copy"}
  BY <1>4, RaiseEffect
<1> QED
  BY <1>1, <1>2, <1>3, <1>4 DEF DeviceStep, CallEnds

\* The program of a write begins.
LEMMA BeginGoes ==
    ASSUME BufferInv, Transferring, DeviceStep \/ CallEnds,
           unit.todo = WriteSteps(unit.to, unit.at, Size), Size > 0, AllPadded, OwnScopes(0), ~unit.raised
    PROVE  BufferInv'
<1>1. BufferTypes
  BY DEF BufferInv
<1>2. /\ unit.todo # <<>> /\ Head(unit.todo) = Push("validation")
      /\ \/ Tail(unit.todo) = <<[op |-> "load"], StoreStep(unit.at), Pop(1)>>
         \/ Tail(unit.todo) = ReadSteps(unit.to, First, Width) \o Landing
  BY <1>1, WriteBegins
<1>3. StepOk
  BY <1>1, <1>2, ByHead DEF Push
<1>4. /\ BufferTypes' /\ Steady /\ unit'.payload = unit.payload /\ unit'.span = unit.span
      /\ device' = device /\ unit'.raised = unit.raised /\ unit'.todo = Tail(unit.todo)
      /\ OwnScopes(1)' /\ Untouched(1, "validation")'
  <2>1. 0 \in Nat /\ 0 + 1 = 1
    OBVIOUS
  <2> QED BY <2>1, <1>1, <1>2, <1>3, PushGoes
<1>5. /\ Size' = Size /\ First' = First /\ Width' = Width /\ Landing' = Landing
      /\ (\A at : StoreStep(at)' = StoreStep(at)) /\ Transferring'
  BY <1>4, SameCall
<1>6. AllPadded' /\ unit'.to = unit.to /\ unit'.at = unit.at
  BY <1>4, StayPadded DEF Steady
<1>7. CASE Tail(unit.todo) = <<[op |-> "load"], StoreStep(unit.at), Pop(1)>>
  <2>1. unit'.todo = <<[op |-> "load"], StoreStep(unit.at)', Pop(1)>>
    BY <1>4, <1>6, <1>7 DEF StoreStep
  <2>2. Writing'
    BY <2>1, <1>4, <1>6 DEF Writing, Pop
  <2> QED BY <2>2, <1>1, <1>4, <1>5, Advanced
<1>8. CASE Tail(unit.todo) = ReadSteps(unit.to, First, Width) \o Landing
  <2>1. Width > 0
    BY <1>1, Landed
  <2>2. unit'.todo = ReadSteps(unit'.to, First', Width') \o Landing'
    BY <1>4, <1>5, <1>6, <1>8
  <2>3. Reading(unit.to, First, Width, Landing, 1)'
    BY <2>1, <2>2, <1>4, <1>5, <1>6 DEF Reading, ReadSteps, Push, PopScopes, Pop, Down, Up
  <2>4. Writing'
    BY <2>3, <1>4, <1>5 DEF Writing
  <2> QED BY <2>4, <1>1, <1>4, <1>5, Advanced
<1> QED
  BY <1>2, <1>7, <1>8

\* The aligned payload is loaded.
LEMMA LoadGoes ==
    ASSUME BufferInv, Transferring, DeviceStep \/ CallEnds,
           unit.todo = <<[op |-> "load"], StoreStep(unit.at), Pop(1)>>,
           AllPadded, OwnScopes(1), ~unit.raised, Untouched(1, "validation")
    PROVE  BufferInv'
<1> DEFINE e == [op |-> "load"]
           t == StoreStep(unit.at)
           p == Pop(1)
<1>1. BufferTypes /\ e \in Steps /\ t \in Steps /\ p \in Steps
  <2>1. BufferTypes
    BY DEF BufferInv
  <2> QED BY <2>1, TransferSteps
<1>2. unit.todo # <<>> /\ Head(unit.todo) = e /\ Tail(unit.todo) = <<t, p>>
  <2> HIDE DEF e, t, p, Steps
  <2>1. unit.todo = <<e, t, p>>
    BY DEF e, t, p
  <2> QED BY <1>1, <2>1, Tails
<1>3. StepOk
  BY <1>1, <1>2, ByHead
<1>4. unit'.span = unit.payload /\ unit'.payload = unit.payload /\ device' = device
  BY <1>1, <1>2, <1>3, StepEffect
<1>5. unit'.span \in Seq(Contents) /\ device' \in [Buffers -> Seq(Contents)]
  BY <1>1, <1>4 DEF BufferTypes, Contents
<1>6. /\ BufferTypes' /\ Steady /\ unit'.raised = unit.raised /\ unit'.todo = Tail(unit.todo)
      /\ OwnScopes(1)' /\ Untouched(1, "validation")'
  BY <1>1, <1>2, <1>3, <1>5, DataGoes
<1>7. Written' = Written /\ (\A at : StoreStep(at)' = StoreStep(at)) /\ Transferring'
  BY <1>4, <1>6, SameCall
<1>8. AllPadded' /\ unit'.to = unit.to /\ unit'.at = unit.at
  BY <1>4, <1>6, StayPadded DEF Steady
<1>9. Patch(device'[unit'.to], unit'.at, unit'.span) = Padded(Written)'
  <2>1. Patch(device[unit.to], unit.at, unit.payload) = Padded(Written)
    BY <1>1, Landed
  <2>2. Padded(Written)' = Padded(Written)
    BY <1>7 DEF Padded, Up
  <2>3. Patch(device'[unit'.to], unit'.at, unit'.span) = Patch(device[unit.to], unit.at, unit.payload)
    BY <1>4, <1>8
  <2> QED BY <2>1, <2>2, <2>3
<1>10. unit'.todo = <<StoreStep(unit.at)', Pop(1)>>
  BY <1>2, <1>6, <1>8 DEF StoreStep
<1>11. Closing'
  BY <1>6, <1>8, <1>9, <1>10 DEF Closing, Pop, Patch
<1> QED
  BY <1>1, <1>6, <1>7, <1>11, Advanced

\* The readback of the span around an unaligned payload.
LEMMA SpanGoes ==
    ASSUME BufferInv, Transferring, DeviceStep \/ CallEnds,
           Reading(unit.to, First, Width, Landing, 1), Untouched(1, "validation"), Size > 0
    PROVE  BufferInv'
<1>1. BufferTypes /\ AllPadded
  BY DEF BufferInv, Reading
<1>2. PICK c \in Buffers, low \in Nat, m \in Nat, rest \in Seq(Steps) :
        c = unit.to /\ low = First /\ m = Width /\ rest = Landing /\ low + m <= Len(device[c])
  <2>1. unit.to \in Buffers /\ First \in Nat /\ Width \in Nat /\ First + Width <= Len(device[unit.to])
    BY <1>1, Landed
  <2>2. Landing \in Seq(Steps)
    BY <1>1, TransferSteps
  <2> QED BY <2>1, <2>2, Zenon
<1>3. Reading(c, low, m, rest, 1) /\ 1 \in Nat /\ 1 \in 0..1
  BY <1>2
<1>4. CASE DeviceStep
  <2>1. /\ BufferTypes' /\ Steady /\ device' = device /\ unit'.payload = unit.payload /\ Below(1)
        /\ Reading(c, low, m, rest, 1)' \/ ReadDone(c, low, m, rest, 1)'
    <3>1. StepOk \/ \E kind \in {"oom", "validation"} : StepRaises(kind)
      BY <1>4 DEF DeviceStep
    <3>2. low + m <= Len(device[c])
      BY <1>2
    <3> QED BY <3>1, <3>2, <1>1, <1>3, ReadingGoes
  <2>2. Untouched(1, "validation")'
    <3>1. unit.open + 1 \in 1..unit.open + 1 /\ unit'.open = unit.open
      BY <1>1, <2>1 DEF BufferTypes, Steady
    <3> QED BY <3>1, <2>1 DEF Untouched, Below
  <2>3. /\ Size' = Size /\ First' = First /\ Width' = Width /\ Landing' = Landing /\ Transferring'
        /\ unit'.to = unit.to
    BY <2>1, SameCall DEF Steady
  <2>4. Writing'
    <3>1. CASE Reading(c, low, m, rest, 1)'
      <4>1. Reading(unit.to, First, Width, Landing, 1)'
        BY <3>1, <1>2, <2>3
      <4> QED BY <4>1, <2>2, <2>3 DEF Writing
    <3>2. CASE ReadDone(c, low, m, rest, 1)'
      <4>1. /\ unit'.todo = Landing' /\ OwnScopes(1)' /\ ~unit'.raised /\ AllPadded'
            /\ unit'.span = Part(device[unit.to], First, Width)' /\ Size' > 0
        BY <3>2, <1>2, <2>3 DEF ReadDone, Part
      <4> QED BY <4>1, <2>2 DEF Writing
    <3> QED BY <2>1, <3>1, <3>2
  <2> QED BY <2>1, <2>3, <2>4, Advanced
<1>5. CASE CallEnds
  <2>1. unit.todo # <<>>
    BY <1>1, <1>3, ReadingHead
  <2>2. PopFails \/ MapFails
    BY <1>5, <2>1 DEF CallEnds, CallReturns
  <2> QED BY <2>2, <1>3, ReadingFails
<1> QED
  BY <1>4, <1>5

\* The payload is laid over the span.
LEMMA OverlayGoes ==
    ASSUME BufferInv, Transferring, DeviceStep \/ CallEnds, unit.todo = Landing, Size > 0,
           AllPadded, OwnScopes(1), ~unit.raised, Untouched(1, "validation"),
           unit.span = Part(device[unit.to], First, Width)
    PROVE  BufferInv'
<1> DEFINE e == OverlayStep
           t == StoreStep(First)
           p == Pop(1)
<1>1. BufferTypes /\ e \in Steps /\ t \in Steps /\ p \in Steps
  <2>1. BufferTypes
    BY DEF BufferInv
  <2> QED BY <2>1, TransferSteps
<1>2. unit.todo # <<>> /\ Head(unit.todo) = e /\ Tail(unit.todo) = <<t, p>>
  <2>1. unit.todo = <<e, t, p>>
    BY DEF Landing
  <2> HIDE DEF e, t, p, Steps
  <2> QED BY <1>1, <2>1, Tails
<1>3. e.op = "overlay" /\ e.at = unit.at % Align
  BY DEF OverlayStep
<1>4. StepOk
  BY <1>1, <1>2, <1>3, ByHead
<1>5. unit.span # <<>>
  <2>1. Width > 0 /\ Width \in Nat /\ Len(unit.span) = Width
    BY <1>1, Landed
  <2> QED BY <2>1
<1>6. /\ unit'.payload = unit.payload /\ device' = device
      /\ unit'.span = Patch(unit.span, unit.at % Align, unit.payload)
  BY <1>1, <1>2, <1>3, <1>4, <1>5, StepEffect
<1>7. unit'.span \in Seq(Contents) /\ device' \in [Buffers -> Seq(Contents)]
  <2>1. unit.span \in Seq(Contents) /\ unit.payload \in Seq(Contents) /\ unit.at \in Nat
        /\ device \in [Buffers -> Seq(Contents)]
    BY <1>1 DEF BufferTypes, Contents
  <2>2. unit.at % Align \in Nat
    BY <2>1, BufferAssumption
  <2> QED BY <2>1, <2>2, <1>6, PatchOf
<1>8. /\ BufferTypes' /\ Steady /\ unit'.raised = unit.raised /\ unit'.todo = Tail(unit.todo)
      /\ OwnScopes(1)' /\ Untouched(1, "validation")'
  BY <1>1, <1>2, <1>3, <1>4, <1>7, DataGoes
<1>9. First' = First /\ Written' = Written /\ (\A at : StoreStep(at)' = StoreStep(at)) /\ Transferring'
  BY <1>6, <1>8, SameCall
<1>10. AllPadded' /\ unit'.to = unit.to
  BY <1>6, <1>8, StayPadded DEF Steady
<1>11. Patch(device'[unit'.to], First', unit'.span) = Padded(Written)'
  <2>1. Patch(device[unit.to], First, Patch(unit.span, unit.at % Align, unit.payload)) = Padded(Written)
    BY <1>1, Landed
  <2>2. Padded(Written)' = Padded(Written)
    BY <1>9 DEF Padded, Up
  <2>3. Patch(device'[unit'.to], First', unit'.span)
          = Patch(device[unit.to], First, Patch(unit.span, unit.at % Align, unit.payload))
    BY <1>6, <1>9, <1>10
  <2> QED BY <2>1, <2>2, <2>3
<1>12. unit'.todo = <<StoreStep(First)', Pop(1)>>
  BY <1>2, <1>8, <1>9 DEF StoreStep
<1>13. Closing'
  BY <1>8, <1>10, <1>11, <1>12 DEF Closing, Pop, Patch
<1> QED
  BY <1>1, <1>8, <1>9, <1>13, Advanced

\* The bytes are submitted, or the submission is refused.
LEMMA StoreGoes ==
    ASSUME BufferInv, Transferring, DeviceStep \/ CallEnds,
           AllPadded, OwnScopes(1), ~unit.raised, Untouched(1, "validation"),
           NEW at \in Nat, unit.todo = <<StoreStep(at), Pop(1)>>,
           Patch(device[unit.to], at, unit.span) = Padded(Written)
    PROVE  BufferInv'
<1> DEFINE t == StoreStep(at)
           p == Pop(1)
<1>1. BufferTypes /\ t \in Steps /\ p \in Steps
  <2>1. BufferTypes
    BY DEF BufferInv
  <2> QED BY <2>1, TransferSteps
<1>2. unit.todo # <<>> /\ Head(unit.todo) = t /\ Tail(unit.todo) = <<p>>
  <2> HIDE DEF t, p, Steps
  <2>1. unit.todo = <<t, p>>
    BY DEF t, p
  <2> QED BY <1>1, <2>1, Tails
<1>3. t.op = "store" /\ t.to = unit.to /\ t.at = at
  BY DEF StoreStep
<1>4. DeviceStep
  BY <1>1, <1>2, <1>3, ByHead
<1>5. CASE StepOk
  <2>1. /\ unit'.span = unit.span /\ unit'.payload = unit.payload
        /\ device' = [device EXCEPT ![unit.to] = Padded(Written)]
    BY <1>1, <1>2, <1>3, <1>5, StepEffect
  <2>2. unit.span \in Seq(Contents) /\ device \in [Buffers -> Seq(Contents)] /\ unit.to \in Buffers
    BY <1>1 DEF BufferTypes, Contents
  <2>3. Padded(Written) \in Seq(Contents)
    <3>1. device[unit.to] \in Seq(Contents)
      BY <2>2
    <3>2. Patch(device[unit.to], at, unit.span) \in Seq(Contents)
      BY <3>1, <2>2, PatchOf
    <3> QED BY <3>2
  <2>4. device' \in [Buffers -> Seq(Contents)]
    BY <2>1, <2>2, <2>3
  <2>5. /\ BufferTypes' /\ Steady /\ unit'.raised = unit.raised /\ unit'.todo = Tail(unit.todo)
        /\ OwnScopes(1)' /\ Untouched(1, "validation")'
    BY <1>1, <1>2, <1>3, <1>5, <2>1, <2>2, <2>4, DataGoes
  <2>6. Written' = Written /\ Transferring' /\ unit'.to = unit.to /\ host' = host
    BY <2>1, <2>5, SameCall DEF Steady
  <2>7. OnePatched'
    <3>1. device' = [b \in Buffers |-> IF b = unit.to THEN Padded(Written) ELSE Padded(host[b])]
      BY <2>1, <2>2 DEF AllPadded
    <3>2. Padded(Written)' = Padded(Written) /\ \A b \in Buffers : Padded(host[b])' = Padded(host[b])
      BY <2>6 DEF Padded, Up
    <3> QED BY <3>1, <3>2, <2>6 DEF OnePatched
  <2>8. Closing'
    <3>1. unit'.todo = <<Pop(1)>> /\ ~unit'.raised /\ ~Hit(1)'
      BY <1>2, <2>5 DEF Hit, Untouched
    <3> QED BY <3>1, <2>5, <2>7 DEF Closing, Pop
  <2> QED BY <1>1, <2>5, <2>6, <2>8, Advanced
<1>6. ASSUME NEW kind \in {"oom", "validation"}, StepRaises(kind) PROVE BufferInv'
  <2>1. /\ BufferTypes' /\ Steady /\ unit'.payload = unit.payload /\ device' = device
        /\ unit'.raised /\ unit'.todo = Tail(unit.todo) /\ OwnScopes(1)' /\ Hit(1)'
    BY <1>1, <1>2, <1>3, <1>6, RefusedGoes
  <2>2. AllPadded' /\ Transferring'
    BY <2>1, StayPadded, SameCall DEF Steady
  <2>3. Closing'
    BY <1>2, <2>1, <2>2 DEF Closing, Pop
  <2> QED BY <1>1, <2>1, <2>2, <2>3, Advanced
<1> QED
  BY <1>4, <1>5, <1>6 DEF DeviceStep

\* The transfer's own scope is popped.
LEMMA CloseGoes ==
    ASSUME BufferInv, Transferring, DeviceStep \/ CallEnds, unit.todo = <<Pop(1)>>, OwnScopes(1),
           IF unit.raised THEN Hit(1) /\ AllPadded ELSE ~Hit(1) /\ OnePatched
    PROVE  BufferInv'
<1> DEFINE p == Pop(1)
<1>1. BufferTypes /\ p \in Steps
  <2>1. BufferTypes
    BY DEF BufferInv
  <2> QED BY <2>1, TransferSteps
<1>2. unit.todo # <<>> /\ Head(unit.todo) = p /\ Tail(unit.todo) = <<>>
  <2> HIDE DEF p, Steps
  <2>1. unit.todo = <<p>>
    BY DEF p
  <2> QED BY <1>1, <2>1, Tails
<1>3. p.op = "pop" /\ p.n = 1
  BY DEF Pop
<1>4. StepOk \/ PopFails
  BY <1>1, <1>2, <1>3, ByHead
<1>5. CASE StepOk
  <2>1. /\ BufferTypes' /\ Steady /\ unit'.payload = unit.payload /\ unit'.span = unit.span
        /\ device' = device /\ unit'.raised = unit.raised /\ unit'.todo = <<>>
        /\ OwnScopes(0)' /\ ~Hit(1)
    BY <1>1, <1>2, <1>5, PopGoes
  <2>2. Written' = Written /\ Transferring' /\ unit'.to = unit.to /\ host' = host
    BY <2>1, SameCall DEF Steady
  <2>3. ~unit.raised /\ OnePatched
    BY <2>1
  <2>4. OnePatched'
    <3>1. Padded(Written)' = Padded(Written) /\ \A b \in Buffers : Padded(host[b])' = Padded(host[b])
      BY <2>2 DEF Padded, Up
    <3> QED BY <3>1, <2>1, <2>2, <2>3 DEF OnePatched
  <2>5. Closing'
    BY <2>1, <2>3, <2>4 DEF Closing
  <2> QED BY <1>1, <2>1, <2>2, <2>5, Advanced
<1>6. CASE PopFails
  <2>1. /\ Finish("err") /\ scopes' = SubSeq(scopes, 1, Len(scopes) - 1)
        /\ \E i \in Len(scopes) - 1 + 1..Len(scopes) : scopes[i].hit
    BY <1>2, <1>3, <1>6 DEF PopFails
  <2>2. scopes \in Seq(Scope) /\ unit.open \in Nat /\ Len(scopes) = unit.open + 1
    BY <1>1 DEF BufferTypes, Scope, OwnScopes
  <2>3. /\ 1 \in Nat /\ 1 <= Len(scopes) /\ Len(scopes) - 1 = unit.open
        /\ \A i \in Len(scopes) - 1 + 1..Len(scopes) : i = unit.open + 1
    <3>1. unit.open \in Nat /\ Len(scopes) = unit.open + 1
      BY <2>2
    <3> QED BY <3>1
  <2>4. Hit(1)
    BY <2>1, <2>3 DEF Hit
  <2>5. AllPadded
    BY <2>4
  <2>6. scopes' \in Seq(Scope) /\ Len(scopes') - unit.open \in 0..1
    <3>1. scopes' \in Seq(Scope) /\ Len(scopes') = unit.open
      BY <2>1, <2>2, <2>3, Popped
    <3> QED BY <3>1, <2>2
  <2> QED BY <2>1, <2>5, <2>6, FailureKeeps
<1> QED
  BY <1>4, <1>5, <1>6

\* The transfer returns: the CPU patches its bytes as the device did.
LEMMA TransferReturns ==
    ASSUME BufferInv, Transferring, DeviceStep \/ CallEnds, unit.todo = <<>>, OwnScopes(0),
           ~unit.raised, OnePatched
    PROVE  BufferInv'
<1>1. BufferTypes
  BY DEF BufferInv
<1>2. CallReturns
  BY DEF DeviceStep, CallEnds, StepOk, StepRaises, PopFails, MapFails
<1>3. /\ scopes' = scopes /\ Finish("ok")
  BY <1>2 DEF CallReturns
<1>4. unit.op # "read"
  BY DEF Transferring
<1>5. /\ host' = [host EXCEPT ![unit.to] = Written] /\ device' = device /\ unit' = Resting
      /\ answer'.cpu = <<>> /\ answer'.wgpu = <<>> /\ answer'.raised = unit.raised
      /\ answer'.leaked = Len(scopes') - unit.open
  BY <1>3, <1>4 DEF Finish, Written
<1>6. /\ unit.to \in Buffers /\ unit.at \in Nat /\ unit.payload \in Seq(Contents) /\ unit.open \in Nat
      /\ host \in [Buffers -> Seq(Contents)] /\ Len(scopes) = unit.open
  <2>1. /\ unit.to \in Buffers /\ unit.at \in Nat /\ unit.payload \in Seq(Contents) /\ unit.open \in Nat
        /\ host \in [Buffers -> Seq(Contents)]
    BY <1>1 DEF BufferTypes, Contents
  <2>2. Len(scopes) = unit.open + 0
    BY DEF OwnScopes
  <2> QED BY <2>1, <2>2
<1>7. Written \in Seq(Contents)
  BY <1>6, PatchOf DEF Written
<1>8. host' \in [Buffers -> Seq(Contents)]
  BY <1>5, <1>6, <1>7
<1>9. unit' \in [op : {"none", "read", "write", "copy"}, to : Buffers, at : Nat, todo : Seq(Steps),
                 payload : Seq(Bytes \cup {0}), span : Seq(Bytes \cup {0}), raised : BOOLEAN, open : Nat]
      /\ unit'.op = "none" /\ unit'.todo = <<>>
  <2> HIDE DEF Steps
  <2> QED BY <1>5, EmptySeq DEF Resting, Buffers
<1>10. BufferTypes'
  BY <1>1, <1>3, <1>5, <1>8, <1>9 DEF BufferTypes, Contents
<1>11. AllPadded'
  <2>1. \A b \in Buffers : device[b] = Padded(IF b = unit.to THEN Written ELSE host[b])
    BY DEF OnePatched
  <2>2. \A b \in Buffers : host'[b] = IF b = unit.to THEN Written ELSE host[b]
    BY <1>5, <1>6
  <2>3. \A b \in Buffers : device'[b] = Padded(host'[b])
    BY <1>5, <2>1, <2>2
  <2> QED BY <2>3 DEF AllPadded, Padded, Up
<1>12. Answered'
  <2>1. answer'.leaked = 0
    BY <1>3, <1>5, <1>6
  <2> QED BY <2>1, <1>5 DEF Answered
<1> QED
  BY <1>9, <1>10, <1>11, <1>12 DEF BufferInv, Phases

\* The buffer a copy reads from, and the payload it will have read.
Source(b, from) == from + Size <= Len(host[b]) /\ unit.payload = Part(host[b], from, Size)

\* It holds those bytes on the device too.
LEMMA SourceHolds ==
    ASSUME BufferTypes, AllPadded, NEW b \in Buffers, NEW from \in Nat, Source(b, from)
    PROVE  from + Size <= Len(device[b]) /\ Part(device[b], from, Size) = unit.payload /\ Size \in Nat
<1>1. /\ host[b] \in Seq(Contents) /\ device[b] = Padded(host[b]) /\ Len(host[b]) \in Nat
      /\ Len(host[b]) <= Len(device[b]) /\ Len(device[b]) \in Nat
  BY PaddedBuffers
<1>2. Size \in Nat
  <2>1. unit.payload \in Seq(Contents)
    BY DEF BufferTypes, Contents
  <2> QED BY <2>1, LenProperties DEF Size
<1>3. from + Size <= Len(device[b])
  <2>1. from + Size <= Len(host[b])
    BY DEF Source
  <2> QED BY <2>1, <1>1, <1>2
<1>4. Part(Padded(host[b]), from, Size) = Part(host[b], from, Size)
  <2>1. 0 \in Contents /\ from + Size <= Len(host[b])
    BY DEF Contents, Source
  <2> QED BY <2>1, <1>1, <1>2, PartOfPadded
<1> QED
  BY <1>1, <1>2, <1>3, <1>4 DEF Source

\* A copy that goes on keeps the invariant with its phase.
LEMMA CopyAdvanced ==
    ASSUME BufferInv, Transferring, unit.op = "copy", Steady, BufferTypes', unit'.payload = unit.payload,
           NEW b \in Buffers, NEW from \in 0..Len(host[b]), Source(b, from),
           (Taking(b, from) \/ Copying(b, from))'
    PROVE  BufferInv'
<1>1. Transferring' /\ Size' = Size /\ host' = host /\ unit'.op = "copy"
  BY SameCall DEF Steady
<1>2. CopyPhase'
  <2>1. from \in 0..Len(host'[b]) /\ from + Size' <= Len(host'[b]) /\ unit'.payload = Part(host[b], from, Size)'
    BY <1>1 DEF Source, Part
  <2> QED BY <2>1 DEF CopyPhase
<1> QED
  BY <1>1, <1>2, Advanced

\* The source of a copy is read back.
LEMMA TakingReads ==
    ASSUME BufferInv, Transferring, unit.op = "copy", DeviceStep \/ CallEnds,
           NEW b \in Buffers, NEW from \in 0..Len(host[b]), Source(b, from),
           Reading(b, from, Size, <<[op |-> "take"]>> \o WriteSteps(unit.to, unit.at, Size), 0)
    PROVE  BufferInv'
<1>1. BufferTypes /\ AllPadded /\ Size > 0
  BY DEF BufferInv, Reading
<1>2. from \in Nat
  <2>1. Len(host[b]) \in Nat
    BY <1>1, PaddedBuffers
  <2> QED BY <2>1
<1>3. from + Size <= Len(device[b]) /\ Part(device[b], from, Size) = unit.payload /\ Size \in Nat
  BY <1>1, <1>2, SourceHolds
<1>4. PICK n \in Nat, rest \in Seq(Steps) :
        /\ n = Size /\ rest = <<[op |-> "take"]>> \o WriteSteps(unit.to, unit.at, Size)
        /\ from + n <= Len(device[b])
  <2>1. <<[op |-> "take"]>> \in Seq(Steps)
    <3>1. [op |-> "take"] \in Steps
      BY <1>1, TransferSteps
    <3> HIDE DEF Steps
    <3> QED BY <3>1
  <2>2. <<[op |-> "take"]>> \o WriteSteps(unit.to, unit.at, Size) \in Seq(Steps)
    <3> HIDE DEF Steps
    <3> QED BY <2>1, <1>1, WriteBegins, ConcatProperties
  <2> QED BY <2>2, <1>3, Zenon
<1>5. Reading(b, from, n, rest, 0) /\ 0 \in Nat /\ 0 \in 0..1
  BY <1>4
<1>6. CASE DeviceStep
  <2>1. /\ BufferTypes' /\ Steady /\ device' = device /\ unit'.payload = unit.payload
        /\ Reading(b, from, n, rest, 0)' \/ ReadDone(b, from, n, rest, 0)'
    <3>1. StepOk \/ \E kind \in {"oom", "validation"} : StepRaises(kind)
      BY <1>6 DEF DeviceStep
    <3>2. from + n <= Len(device[b])
      BY <1>4
    <3> QED BY <3>1, <3>2, <1>1, <1>2, <1>5, ReadingGoes
  <2>2. /\ Size' = Size /\ WriteSteps(unit.to, unit.at, Size)' = WriteSteps(unit.to, unit.at, Size)
    BY <2>1, SameCall
  <2>3. Taking(b, from)'
    <3>1. CASE Reading(b, from, n, rest, 0)'
      <4>1. Reading(b, from, Size, <<[op |-> "take"]>> \o WriteSteps(unit.to, unit.at, Size), 0)'
        BY <3>1, <1>4, <2>2
      <4> QED BY <4>1 DEF Taking
    <3>2. CASE ReadDone(b, from, n, rest, 0)'
      <4>1. unit'.todo = <<[op |-> "take"]>> \o WriteSteps(unit.to, unit.at, Size)'
        BY <3>2, <1>4, <2>2 DEF ReadDone
      <4>2. unit'.span = unit'.payload
        BY <3>2, <1>3, <1>4, <2>1 DEF ReadDone, Part
      <4>3. OwnScopes(0)' /\ ~unit'.raised /\ AllPadded' /\ Size' > 0
        BY <3>2, <1>1, <2>2 DEF ReadDone
      <4> QED BY <4>1, <4>2, <4>3 DEF Taking
    <3> QED BY <2>1, <3>1, <3>2
  <2> QED BY <2>1, <2>3, CopyAdvanced
<1>7. CASE CallEnds
  <2>1. unit.todo # <<>>
    BY <1>1, <1>2, <1>5, ReadingHead
  <2>2. PopFails \/ MapFails
    BY <1>7, <2>1 DEF CallEnds, CallReturns
  <2> QED BY <2>2, <1>2, <1>5, ReadingFails
<1> QED
  BY <1>6, <1>7

\* What was read back becomes the payload.
LEMMA TakeGoes ==
    ASSUME BufferInv, Transferring, DeviceStep \/ CallEnds, Size > 0,
           unit.todo = <<[op |-> "take"]>> \o WriteSteps(unit.to, unit.at, Size),
           AllPadded, OwnScopes(0), ~unit.raised, unit.span = unit.payload
    PROVE  BufferInv'
<1> DEFINE e == [op |-> "take"]
           W == WriteSteps(unit.to, unit.at, Size)
<1>1. BufferTypes /\ e \in Steps
  <2>1. BufferTypes
    BY DEF BufferInv
  <2> QED BY <2>1, TransferSteps
<1>2. W \in Seq(Steps)
  BY <1>1, WriteBegins
<1>3. unit.todo # <<>> /\ Head(unit.todo) = e /\ Tail(unit.todo) = W
  <2>1. unit.todo = <<e>> \o W
    OBVIOUS
  <2> HIDE DEF e, W, Steps
  <2>2. <<e>> \in Seq(Steps) /\ <<e>> # <<>> /\ Head(<<e>>) = e /\ Tail(<<e>>) = <<>>
    BY <1>1, Tails
  <2>3. <<>> \o W = W
    BY <1>2, ConcatEmptySeq
  <2> QED BY <2>1, <2>2, <2>3, <1>2, FirstOf
<1>4. StepOk
  BY <1>1, <1>3, ByHead
<1>5. unit'.span = unit.span /\ unit'.payload = unit.payload /\ device' = device
  BY <1>1, <1>3, <1>4, StepEffect
<1>6. unit'.span \in Seq(Contents) /\ device' \in [Buffers -> Seq(Contents)]
  BY <1>1, <1>5 DEF BufferTypes, Contents
<1>7. /\ BufferTypes' /\ Steady /\ unit'.raised = unit.raised /\ unit'.todo = Tail(unit.todo)
      /\ OwnScopes(0)'
  BY <1>1, <1>3, <1>4, <1>6, DataGoes
<1>8. /\ Size' = Size /\ WriteSteps(unit.to, unit.at, Size)' = WriteSteps(unit.to, unit.at, Size)
      /\ Transferring'
  BY <1>5, <1>7, SameCall
<1>9. AllPadded'
  BY <1>5, <1>7, StayPadded DEF Steady
<1>10. Writing'
  BY <1>3, <1>7, <1>8, <1>9 DEF Writing
<1> QED
  BY <1>1, <1>7, <1>8, <1>10, Advanced

\* A copy of aligned bytes goes from buffer to buffer.
LEMMA CopyBegins ==
    ASSUME BufferInv, Transferring, unit.op = "copy", DeviceStep \/ CallEnds,
           NEW b \in Buffers, NEW from \in 0..Len(host[b]), Source(b, from),
           unit.todo = <<Push("validation"), CopyStep(b, from), Pop(1)>>,
           AllPadded, OwnScopes(0), ~unit.raised
    PROVE  BufferInv'
<1> DEFINE v == Push("validation")
           t == CopyStep(b, from)
           p == Pop(1)
<1>1. BufferTypes /\ from \in Nat
  <2>1. BufferTypes
    BY DEF BufferInv
  <2>2. Len(host[b]) \in Nat
    BY <2>1, PaddedBuffers
  <2> QED BY <2>1, <2>2
<1>2. v \in Steps /\ t \in Steps /\ p \in Steps
  BY <1>1, TransferSteps
<1>3. unit.todo # <<>> /\ Head(unit.todo) = v /\ Tail(unit.todo) = <<t, p>>
  <2>1. unit.todo = <<v, t, p>>
    OBVIOUS
  <2> HIDE DEF v, t, p, Steps
  <2> QED BY <1>2, <2>1, Tails
<1>4. StepOk
  BY <1>1, <1>3, ByHead DEF Push
<1>5. /\ BufferTypes' /\ Steady /\ unit'.payload = unit.payload /\ unit'.span = unit.span
      /\ device' = device /\ unit'.raised = unit.raised /\ unit'.todo = Tail(unit.todo)
      /\ OwnScopes(1)' /\ Untouched(1, "validation")'
  <2>1. 0 \in Nat /\ 0 + 1 = 1
    OBVIOUS
  <2> QED BY <2>1, <1>1, <1>3, <1>4, PushGoes
<1>6. AllPadded'
  BY <1>5, StayPadded DEF Steady
<1>7. CopyStep(b, from)' = CopyStep(b, from)
  BY <1>5, SameCall
<1>8. unit'.todo = <<CopyStep(b, from)', Pop(1)>>
  BY <1>3, <1>5, <1>7
<1>9. Copying(b, from)'
  BY <1>5, <1>6, <1>8 DEF Copying, Pop
<1> QED
  BY <1>1, <1>5, <1>9, CopyAdvanced

\* ... and its bytes are submitted, or the submission is refused.
LEMMA CopyGoes ==
    ASSUME BufferInv, Transferring, DeviceStep \/ CallEnds,
           NEW b \in Buffers, NEW from \in Nat, Source(b, from),
           unit.todo = <<CopyStep(b, from), Pop(1)>>,
           AllPadded, OwnScopes(1), ~unit.raised, Untouched(1, "validation")
    PROVE  BufferInv'
<1> DEFINE t == CopyStep(b, from)
           p == Pop(1)
<1>1. BufferTypes /\ t \in Steps /\ p \in Steps
  <2>1. BufferTypes
    BY DEF BufferInv
  <2> QED BY <2>1, TransferSteps
<1>2. unit.todo # <<>> /\ Head(unit.todo) = t /\ Tail(unit.todo) = <<p>>
  <2>1. unit.todo = <<t, p>>
    OBVIOUS
  <2> HIDE DEF t, p, Steps
  <2> QED BY <1>1, <2>1, Tails
<1>3. t.op = "copy" /\ t.from = b /\ t.start = from /\ t.to = unit.to /\ t.at = unit.at /\ t.n = Size
  BY DEF CopyStep
<1>4. DeviceStep
  BY <1>1, <1>2, <1>3, ByHead
<1>5. Part(device[b], from, Size) = unit.payload
  BY <1>1, SourceHolds
<1>6. /\ unit.to \in Buffers /\ Patch(device[unit.to], unit.at, unit.payload) = Padded(Written)
      /\ device[unit.to] \in Seq(Contents) /\ unit.payload \in Seq(Contents) /\ unit.at \in Nat
      /\ device \in [Buffers -> Seq(Contents)] /\ unit.span \in Seq(Contents)
  <2>1. unit.to \in Buffers /\ Patch(device[unit.to], unit.at, unit.payload) = Padded(Written)
    BY <1>1, Landed
  <2> QED BY <2>1, <1>1 DEF BufferTypes, Contents
<1>7. CASE StepOk
  <2>1. /\ unit'.span = unit.span /\ unit'.payload = unit.payload
        /\ device' = [device EXCEPT ![unit.to] = Padded(Written)]
    BY <1>1, <1>2, <1>3, <1>5, <1>6, <1>7, StepEffect
  <2>2. Padded(Written) \in Seq(Contents)
    <3>1. Patch(device[unit.to], unit.at, unit.payload) \in Seq(Contents)
      BY <1>6, PatchOf
    <3> QED BY <3>1, <1>6
  <2>3. device' \in [Buffers -> Seq(Contents)] /\ unit'.span \in Seq(Contents)
    BY <1>6, <2>1, <2>2
  <2>4. /\ BufferTypes' /\ Steady /\ unit'.raised = unit.raised /\ unit'.todo = Tail(unit.todo)
        /\ OwnScopes(1)' /\ Untouched(1, "validation")'
    BY <1>1, <1>2, <1>3, <1>7, <2>3, DataGoes
  <2>5. Written' = Written /\ Transferring' /\ unit'.to = unit.to /\ host' = host
    BY <2>1, <2>4, SameCall DEF Steady
  <2>6. OnePatched'
    <3>1. device' = [c \in Buffers |-> IF c = unit.to THEN Padded(Written) ELSE Padded(host[c])]
      BY <1>6, <2>1 DEF AllPadded
    <3>2. Padded(Written)' = Padded(Written) /\ \A c \in Buffers : Padded(host[c])' = Padded(host[c])
      BY <2>5 DEF Padded, Up
    <3> QED BY <3>1, <3>2, <2>5 DEF OnePatched
  <2>7. Closing'
    <3>1. unit'.todo = <<Pop(1)>> /\ ~unit'.raised /\ ~Hit(1)'
      BY <1>2, <2>4 DEF Hit, Untouched
    <3> QED BY <3>1, <2>4, <2>6 DEF Closing, Pop
  <2> QED BY <1>1, <2>4, <2>5, <2>7, Advanced
<1>8. ASSUME NEW kind \in {"oom", "validation"}, StepRaises(kind) PROVE BufferInv'
  <2>1. /\ BufferTypes' /\ Steady /\ unit'.payload = unit.payload /\ device' = device
        /\ unit'.raised /\ unit'.todo = Tail(unit.todo) /\ OwnScopes(1)' /\ Hit(1)'
    BY <1>1, <1>2, <1>3, <1>8, RefusedGoes
  <2>2. AllPadded' /\ Transferring'
    BY <2>1, StayPadded, SameCall DEF Steady
  <2>3. Closing'
    BY <1>2, <2>1, <2>2 DEF Closing, Pop
  <2> QED BY <1>1, <2>1, <2>2, <2>3, Advanced
<1> QED
  BY <1>4, <1>7, <1>8 DEF DeviceStep

\* Every step of a transfer.
LEMMA TransferGoes ==
    ASSUME BufferInv, unit.op \in {"write", "copy"}, TransferPhase, DeviceStep \/ CallEnds
    PROVE  BufferInv'
<1>1. BufferTypes /\ Transferring
  BY DEF BufferInv, TransferPhase, Transferring
<1>2. unit.at \in Nat /\ First \in Nat
  <2>1. unit.at \in Nat
    BY <1>1 DEF BufferTypes
  <2> QED BY <2>1, DownAligned DEF First
<1>3. CASE Writing
  BY <1>1, <1>3, BeginGoes, LoadGoes, SpanGoes, OverlayGoes DEF Writing
<1>4. CASE Closing
  <2>1. CASE /\ AllPadded /\ OwnScopes(1) /\ ~unit.raised /\ Untouched(1, "validation")
             /\ \E at \in {unit.at, First} :
                  /\ unit.todo = <<StoreStep(at), Pop(1)>>
                  /\ Patch(device[unit.to], at, unit.span) = Padded(Written)
    <3>1. PICK at \in Nat : /\ unit.todo = <<StoreStep(at), Pop(1)>>
                            /\ Patch(device[unit.to], at, unit.span) = Padded(Written)
      BY <2>1, <1>2
    <3> QED BY <2>1, <3>1, <1>1, StoreGoes
  <2>2. CASE /\ unit.todo = <<Pop(1)>> /\ OwnScopes(1)
             /\ IF unit.raised THEN Hit(1) /\ AllPadded ELSE ~Hit(1) /\ OnePatched
    BY <2>2, <1>1, CloseGoes
  <2>3. CASE unit.todo = <<>> /\ OwnScopes(0) /\ ~unit.raised /\ OnePatched
    BY <2>3, <1>1, TransferReturns
  <2> QED BY <1>4, <2>1, <2>2, <2>3 DEF Closing
<1>5. CASE unit.op = "copy" /\ CopyPhase
  <2>0. PICK b \in Buffers :
          \E from \in 0..Len(host[b]) : Source(b, from) /\ (Taking(b, from) \/ Copying(b, from))
    BY <1>5 DEF CopyPhase, Source
  <2>1. PICK from \in 0..Len(host[b]) : Source(b, from) /\ (Taking(b, from) \/ Copying(b, from))
    BY <2>0
  <2>2. from \in Nat
    <3>1. Len(host[b]) \in Nat
      BY <1>1, LenProperties DEF BufferTypes
    <3> QED BY <3>1
  <2>3. CASE Taking(b, from)
    BY <2>1, <2>3, <1>1, <1>5, TakingReads, TakeGoes DEF Taking
  <2>4. CASE Copying(b, from)
    BY <2>1, <2>2, <2>4, <1>1, <1>5, CopyBegins, CopyGoes DEF Copying
  <2> QED BY <2>1, <2>3, <2>4
<1> QED
  BY <1>3, <1>4, <1>5 DEF TransferPhase

\* Every step of a read.
LEMMA ReadGoes ==
    ASSUME BufferInv, unit.op = "read", ReadPhase, DeviceStep \/ CallEnds
    PROVE  BufferInv'
<1>1. /\ BufferTypes /\ Answered /\ unit.to \in Buffers /\ unit.at \in Nat /\ unit.open \in Nat
      /\ unit.payload \in Seq(Contents)
  BY DEF BufferInv, BufferTypes, Contents
<1>2. ASSUME AllPadded
      PROVE  Len(host[unit.to]) \in Nat /\ Len(host[unit.to]) <= Len(device[unit.to])
             /\ Len(device[unit.to]) \in Nat /\ host[unit.to] \in Seq(Contents)
             /\ device[unit.to] = Padded(host[unit.to])
  BY <1>1, <1>2, PaddedBuffers
<1>3. ASSUME NEW n \in 0..Len(host[unit.to]), unit.at + n <= Len(host[unit.to]),
             Reading(unit.to, unit.at, n, <<>>, 0)
      PROVE  BufferInv'
  <2>1. AllPadded
    BY <1>3 DEF Reading
  <2>2. n \in Nat /\ unit.at + n <= Len(device[unit.to])
    BY <1>1, <1>2, <1>3, <2>1
  <2>3. PICK b \in Buffers, at \in Nat : b = unit.to /\ at = unit.at
    BY <1>1
  <2>4. /\ Reading(b, at, n, <<>>, 0) /\ 0 \in Nat /\ 0 \in 0..1 /\ <<>> \in Seq(Steps)
        /\ at + n <= Len(device[b])
    BY <1>3, <2>2, <2>3, EmptySeq
  <2>5. CASE DeviceStep
    <3>1. /\ BufferTypes' /\ Steady /\ device' = device /\ unit'.payload = unit.payload
          /\ Reading(b, at, n, <<>>, 0)' \/ ReadDone(b, at, n, <<>>, 0)'
      <4>1. StepOk \/ \E kind \in {"oom", "validation"} : StepRaises(kind)
        BY <2>5 DEF DeviceStep
      <4>2. at + n <= Len(device[b])
        BY <2>4
      <4> QED BY <4>1, <4>2, <1>1, <2>2, <2>4, ReadingGoes
    <3>2. unit'.to = unit.to /\ unit'.at = unit.at /\ unit'.op = "read" /\ host' = host /\ Answered'
      BY <1>1, <3>1 DEF Steady, Answered
    <3>3. ReadPhase'
      <4>1. CASE Reading(b, at, n, <<>>, 0)'
        <5>1. Reading(unit.to, unit.at, n, <<>>, 0)'
          BY <4>1, <2>3, <3>2
        <5> QED BY <5>1, <1>3, <3>2 DEF ReadPhase
      <4>2. CASE ReadDone(b, at, n, <<>>, 0)'
        <5>1. unit'.todo = <<>> /\ OwnScopes(0)' /\ ~unit'.raised /\ AllPadded'
          BY <4>2 DEF ReadDone
        <5>2. unit'.span = Part(device[unit.to], unit.at, n)
          BY <4>2, <2>3, <3>1 DEF ReadDone, Part
        <5>3. 0 \in Contents /\ unit.at + n <= Len(host[unit.to]) /\ host[unit.to] \in Seq(Contents)
              /\ device[unit.to] = Padded(host[unit.to])
          BY <1>2, <1>3, <2>1 DEF Contents
        <5>4. unit'.span = Part(host[unit.to], unit.at, n)
          BY <5>2, <5>3, <1>1, <2>2, PartOfPadded
        <5>5. Len(unit'.span) = n
          BY <5>3, <5>4, <1>1, <2>2, PartOf
        <5> QED BY <5>1, <5>4, <5>5, <1>3, <3>2 DEF ReadPhase, Part
      <4> QED BY <3>1, <4>1, <4>2
    <3> QED BY <3>1, <3>2, <3>3 DEF BufferInv, Phases
  <2>6. CASE CallEnds
    <3>1. unit.todo # <<>>
      BY <1>1, <2>2, <2>4, ReadingHead
    <3>2. PopFails \/ MapFails
      BY <2>6, <3>1 DEF CallEnds, CallReturns
    <3> QED BY <3>2, <2>2, <2>4, ReadingFails
  <2> QED BY <2>5, <2>6
<1>4. CASE /\ unit.todo = <<>> /\ OwnScopes(0) /\ ~unit.raised /\ AllPadded
           /\ unit.span = Part(host[unit.to], unit.at, Len(unit.span))
  <2>1. CallReturns
    BY <1>4 DEF DeviceStep, CallEnds, StepOk, StepRaises, PopFails, MapFails
  <2>2. scopes' = scopes /\ Finish("ok")
    BY <2>1 DEF CallReturns
  <2>3. /\ host' = host /\ device' = device /\ unit' = Resting
        /\ answer'.cpu = Part(host[unit.to], unit.at, Len(unit.span)) /\ answer'.wgpu = unit.span
        /\ answer'.raised = unit.raised /\ answer'.leaked = Len(scopes') - unit.open
    BY <2>2 DEF Finish
  <2>4. answer'.leaked = 0
    <3>1. Len(scopes) = unit.open + 0
      BY <1>4 DEF OwnScopes
    <3> QED BY <3>1, <1>1, <2>2, <2>3
  <2>5. Answered'
    BY <1>4, <2>3, <2>4 DEF Answered
  <2>6. AllPadded'
    BY <1>4, <2>3, StayPadded
  <2>7. unit' \in [op : {"none", "read", "write", "copy"}, to : Buffers, at : Nat, todo : Seq(Steps),
                   payload : Seq(Bytes \cup {0}), span : Seq(Bytes \cup {0}), raised : BOOLEAN, open : Nat]
        /\ unit'.op = "none" /\ unit'.todo = <<>>
    <3> HIDE DEF Steps
    <3> QED BY <2>3, EmptySeq DEF Resting, Buffers
  <2>8. BufferTypes'
    BY <1>1, <2>2, <2>3, <2>7 DEF BufferTypes
  <2> QED BY <2>5, <2>6, <2>7, <2>8 DEF BufferInv, Phases
<1> QED
  BY <1>3, <1>4 DEF ReadPhase

-----------------------------------------------------------------------------
\* Calls from rest.

\* A call that starts keeps the types, with a program of steps and a payload.
LEMMA CallStarts ==
    ASSUME BufferInv, NEW op \in {"read", "write", "copy"}, NEW b \in Buffers, NEW at \in Nat,
           NEW payload \in Seq(Contents), NEW steps \in Seq(Steps), Call(op, b, at, payload, steps)
    PROVE  /\ BufferTypes' /\ Answered' /\ AllPadded /\ AllPadded' /\ unit.op = "none"
           /\ unit'.op = op /\ unit'.to = b /\ unit'.at = at /\ unit'.todo = steps
           /\ unit'.payload = payload /\ unit'.span = <<>> /\ ~unit'.raised /\ OwnScopes(0)'
           /\ host' = host /\ device' = device /\ Size' = Len(payload)
<1>1. /\ unit' = [op |-> op, to |-> b, at |-> at, todo |-> steps, payload |-> payload, span |-> <<>>,
                  raised |-> FALSE, open |-> Len(scopes)]
      /\ host' = host /\ device' = device /\ scopes' = scopes /\ answer' = answer /\ unit.op = "none"
  BY DEF Call
<1>2. Len(scopes) \in Nat
  BY LenProperties DEF BufferInv, BufferTypes
<1>3. unit' \in [op : {"none", "read", "write", "copy"}, to : Buffers, at : Nat, todo : Seq(Steps),
                 payload : Seq(Bytes \cup {0}), span : Seq(Bytes \cup {0}), raised : BOOLEAN, open : Nat]
  <2>1. <<>> \in Seq(Contents)
    BY EmptySeq
  <2> HIDE DEF Steps
  <2> QED BY <1>1, <1>2, <2>1 DEF Contents
<1>4. BufferTypes'
  BY <1>1, <1>3 DEF BufferInv, BufferTypes
<1>5. Answered'
  BY <1>1 DEF BufferInv, Answered
<1>6. AllPadded
  BY <1>1 DEF BufferInv, Phases
<1>7. AllPadded'
  BY <1>1, <1>6, StayPadded
<1>8. OwnScopes(0)'
  BY <1>1, <1>2 DEF OwnScopes
<1>9. Size' = Len(payload)
  BY <1>1 DEF Size
<1> QED
  BY <1>1, <1>4, <1>5, <1>6, <1>7, <1>8, <1>9

\* The program of a readback,
LEMMA ReadProgram ==
    ASSUME NEW b \in Buffers, NEW at \in Nat, NEW n \in Nat
    PROVE  ReadSteps(b, at, n) \in Seq(Steps) /\ (n = 0 => ReadSteps(b, at, n) = <<>>)
<1> DEFINE o == Push("oom")
           v == Push("validation")
           s == StageStep(b, at, n)
           p == PopScopes
           m == MapStep(at, n)
<1>1. o \in Steps /\ v \in Steps /\ s \in Steps /\ p \in Steps /\ m \in Steps
  BY StepsOf
<1>2. ReadSteps(b, at, n) = IF n = 0 THEN <<>> ELSE <<o, v, s, p, m>>
  BY DEF ReadSteps, StageStep, MapStep
<1> HIDE DEF o, v, s, p, m, Steps
<1>3. <<o, v, s, p, m>> \in Seq(Steps) /\ <<>> \in Seq(Steps)
  BY <1>1
<1> QED
  BY <1>2, <1>3

\* ... and the program of a write.
LEMMA WriteProgram ==
    ASSUME NEW b \in Buffers, NEW at \in Nat, NEW n \in Nat
    PROVE  WriteSteps(b, at, n) \in Seq(Steps)
<1> DEFINE v == Push("validation")
           e == [op |-> "load"]
           t == [op |-> "store", to |-> b, at |-> at]
           p == Pop(1)
           w == [op |-> "overlay", at |-> at % Align]
           u == [op |-> "store", to |-> b, at |-> Down(at)]
           m == Up(at + n) - Down(at)
           R == ReadSteps(b, Down(at), m)
<1>1. Down(at) \in Nat /\ m \in Nat /\ at % Align \in Nat
  <2>1. Down(at) \in Nat /\ Down(at) <= at /\ at % Align \in 0..(Align - 1)
    BY DownAligned
  <2>2. at + n \in Nat /\ Up(at + n) \in Nat /\ at + n <= Up(at + n)
    BY UpAligned
  <2>3. Align \in Nat
    BY BufferAssumption
  <2> QED BY <2>1, <2>2, <2>3
<1>2. v \in Steps /\ e \in Steps /\ t \in Steps /\ p \in Steps /\ w \in Steps /\ u \in Steps
  <2>1. v \in Steps /\ e \in Steps /\ t \in Steps /\ p \in Steps
    BY StepsOf
  <2>2. w \in Steps /\ u \in Steps
    <3>1. \A x \in Nat : [op |-> "overlay", at |-> x] \in Steps /\ [op |-> "store", to |-> b, at |-> x] \in Steps
      BY StepsOf
    <3> QED BY <3>1, <1>1
  <2> QED BY <2>1, <2>2
<1>3. R \in Seq(Steps)
  <2> HIDE DEF m
  <2> QED BY <1>1, ReadProgram
<1>4. WriteSteps(b, at, n) \in {<<>>, <<v, e, t, p>>, (<<v>> \o R) \o <<w, u, p>>}
  BY DEF WriteSteps
<1> HIDE DEF v, e, t, p, w, u, R, Steps
<1>5. <<>> \in Seq(Steps) /\ <<v, e, t, p>> \in Seq(Steps) /\ <<v>> \in Seq(Steps) /\ <<w, u, p>> \in Seq(Steps)
  BY <1>2
<1>6. (<<v>> \o R) \o <<w, u, p>> \in Seq(Steps)
  BY <1>3, <1>5, ConcatProperties
<1> QED
  BY <1>4, <1>5, <1>6

\* A transfer of nothing has nothing to do.
LEMMA NothingLands ==
    ASSUME BufferTypes', AllPadded', unit'.payload = <<>>
    PROVE  OnePatched'
<1>1. host'[unit'.to] \in Seq(Contents) /\ unit'.at \in Nat
  BY DEF BufferTypes, Contents
<1>2. Patch(host'[unit'.to], unit'.at, <<>>) = host'[unit'.to]
  BY <1>1, PatchNothing
<1>3. Written' = host'[unit'.to]
  BY <1>2 DEF Written, Patch
<1>4. device' \in [Buffers -> Seq(Contents)]
  BY DEF BufferTypes, Contents
<1>5. \A b \in Buffers : device'[b] = IF b = unit'.to THEN Padded(Written)' ELSE Padded(host[b])'
  BY <1>3 DEF AllPadded, Padded, Up
<1> QED
  BY <1>4, <1>5 DEF OnePatched

\* A write is called.
LEMMA WriteCalled ==
    ASSUME BufferInv, NEW b \in Buffers, NEW at \in Nat, NEW bytes \in Seq(Contents), WriteBuffer(b, at, bytes)
    PROVE  BufferInv'
<1>1. Len(bytes) \in Nat
  BY LenProperties
<1>2. WriteSteps(b, at, Len(bytes)) \in Seq(Steps)
  BY <1>1, WriteProgram
<1>3. Call("write", b, at, bytes, WriteSteps(b, at, Len(bytes))) /\ InRange(b, at, Len(bytes))
  BY DEF WriteBuffer
<1>4. /\ BufferTypes' /\ Answered' /\ AllPadded'
      /\ unit'.op = "write" /\ unit'.to = b /\ unit'.at = at /\ unit'.todo = WriteSteps(b, at, Len(bytes))
      /\ unit'.payload = bytes /\ ~unit'.raised /\ OwnScopes(0)' /\ host' = host /\ Size' = Len(bytes)
  BY <1>2, <1>3, CallStarts
<1>5. unit'.at + Size' <= Len(host'[unit'.to])
  BY <1>3, <1>4 DEF InRange
<1>6. WriteSteps(unit.to, unit.at, Size)' = WriteSteps(b, at, Len(bytes))
  BY <1>4 DEF WriteSteps, ReadSteps, Push, Pop, PopScopes, Down, Up
<1>7. CASE Len(bytes) > 0
  <2>1. Writing'
    BY <1>4, <1>6, <1>7 DEF Writing
  <2> QED BY <2>1, <1>4, <1>5 DEF BufferInv, Phases, TransferPhase
<1>8. CASE Len(bytes) = 0
  <2>1. bytes = <<>> /\ unit'.todo = <<>>
    BY <1>4, <1>8, EmptySeq DEF WriteSteps
  <2>2. OnePatched'
    <3>1. unit'.payload = <<>>
      BY <1>4, <2>1
    <3> QED BY <3>1, <1>4, NothingLands
  <2>3. Closing'
    BY <1>4, <2>1, <2>2 DEF Closing
  <2> QED BY <2>3, <1>4, <1>5 DEF BufferInv, Phases, TransferPhase
<1> QED
  BY <1>1, <1>7, <1>8

\* A read is called.
LEMMA ReadCalled ==
    ASSUME BufferInv, NEW b \in Buffers, NEW at \in Nat, NEW n \in Nat, ReadBuffer(b, at, n)
    PROVE  BufferInv'
<1>1. ReadSteps(b, at, n) \in Seq(Steps) /\ (n = 0 => ReadSteps(b, at, n) = <<>>)
  BY ReadProgram
<1>2. Call("read", b, at, <<>>, ReadSteps(b, at, n)) /\ InRange(b, at, n)
  BY DEF ReadBuffer
<1>3. /\ BufferTypes' /\ Answered' /\ AllPadded'
      /\ unit'.op = "read" /\ unit'.to = b /\ unit'.at = at /\ unit'.todo = ReadSteps(b, at, n)
      /\ unit'.span = <<>> /\ ~unit'.raised /\ OwnScopes(0)' /\ host' = host
  <2>1. <<>> \in Seq(Contents)
    BY EmptySeq
  <2> QED BY <2>1, <1>1, <1>2, CallStarts
<1>4. at + n <= Len(host[b]) /\ Len(host[b]) \in Nat /\ host[b] \in Seq(Contents)
  <2>1. host[b] \in Seq(Contents)
    BY DEF BufferInv, BufferTypes, Contents
  <2> QED BY <2>1, <1>2, LenProperties DEF InRange
<1>5. ReadPhase'
  <2>1. CASE n > 0
    <3>1. ReadSteps(b, at, n) \o <<>> = ReadSteps(b, at, n)
      BY <1>1, ConcatEmptySeq
    <3>2. unit'.todo = ReadSteps(unit.to, unit.at, n)' \o <<>>
      BY <3>1, <1>3 DEF ReadSteps, Push, Pop, PopScopes, Down, Up
    <3>3. Reading(unit.to, unit.at, n, <<>>, 0)'
      BY <2>1, <3>2, <1>3 DEF Reading
    <3>4. n \in 0..Len(host'[unit'.to]) /\ unit'.at + n <= Len(host'[unit'.to])
      BY <1>3, <1>4
    <3> QED BY <3>3, <3>4 DEF ReadPhase
  <2>2. CASE n = 0
    <3>1. Part(host[b], at, 0) = <<>>
      BY SubSeqEmpty DEF Part
    <3>2. Len(unit'.span) = 0 /\ unit'.span = Part(host'[unit'.to], unit'.at, 0)
      BY <3>1, <1>3
    <3>3. unit'.at + Len(unit'.span) <= Len(host'[unit'.to])
      BY <2>2, <3>2, <1>3, <1>4
    <3> QED BY <2>2, <3>2, <3>3, <1>1, <1>3 DEF ReadPhase, Part
  <2> QED BY <2>1, <2>2
<1> QED
  BY <1>3, <1>5 DEF BufferInv, Phases

\* A copy is called.
LEMMA CopyCalled ==
    ASSUME BufferInv, NEW b \in Buffers, NEW from \in Nat, NEW c \in Buffers, NEW at \in Nat, NEW n \in Nat,
           CopyBuffer(b, from, c, at, n)
    PROVE  BufferInv'
<1> DEFINE payload == Part(host[b], from, n)
           steps == CopySteps(b, from, c, at, n)
           v == Push("validation")
           t == [op |-> "copy", from |-> b, start |-> from, to |-> c, at |-> at, n |-> n]
           p == Pop(1)
           e == [op |-> "take"]
           R == ReadSteps(b, from, n)
           W == WriteSteps(c, at, n)
<1>1. /\ Call("copy", c, at, payload, steps) /\ from + n <= Len(host[b]) /\ at + n <= Len(host[c])
      /\ host[b] \in Seq(Contents) /\ Len(host[b]) \in Nat
  <2>1. host[b] \in Seq(Contents)
    BY DEF BufferInv, BufferTypes, Contents
  <2> QED BY <2>1, LenProperties DEF CopyBuffer, InRange
<1>2. payload \in Seq(Contents) /\ Len(payload) = n
  BY <1>1, PartOf
<1>3. R \in Seq(Steps) /\ W \in Seq(Steps) /\ v \in Steps /\ t \in Steps /\ p \in Steps /\ e \in Steps
  BY ReadProgram, WriteProgram, StepsOf
<1>4. steps \in {<<>>, <<v, t, p>>, (R \o <<e>>) \o W} /\ (n = 0 <=> steps = <<>>)
      /\ (n # 0 => steps \in {<<v, t, p>>, (R \o <<e>>) \o W})
  <2>1. n # 0 => steps \in {<<v, t, p>>, (R \o <<e>>) \o W}
    BY DEF CopySteps
  <2>2. n = 0 => steps = <<>>
    BY DEF CopySteps
  <2>3. <<v, t, p>> # <<>>
    OBVIOUS
  <2>4. (R \o <<e>>) \o W # <<>>
    <3> HIDE DEF R, W, e, Steps
    <3>1. <<e>> \in Seq(Steps) /\ <<e>> # <<>>
      BY <1>3
    <3>2. R \o <<e>> \in Seq(Steps) /\ R \o <<e>> # <<>>
      BY <3>1, <1>3, ConcatProperties, ConcatSimplifications
    <3> QED BY <3>2, <1>3, ConcatSimplifications
  <2> HIDE DEF steps, R, W, v, t, p, e
  <2> QED BY <2>1, <2>2, <2>3, <2>4
<1> HIDE DEF steps, R, W, v, t, p, e, payload, Steps
<1>5. <<e>> \in Seq(Steps) /\ <<e>> \o W \in Seq(Steps) /\ (R \o <<e>>) \o W = R \o (<<e>> \o W)
  <2>1. <<e>> \in Seq(Steps)
    BY <1>3
  <2> QED BY <2>1, <1>3, ConcatProperties, ConcatAssociative
<1>6. steps \in Seq(Steps)
  <2>1. <<v, t, p>> \in Seq(Steps) /\ <<>> \in Seq(Steps)
    BY <1>3
  <2>2. R \o (<<e>> \o W) \in Seq(Steps)
    BY <1>3, <1>5, ConcatProperties
  <2> QED BY <2>1, <2>2, <1>4, <1>5
<1>7. /\ BufferTypes' /\ Answered' /\ AllPadded'
      /\ unit'.op = "copy" /\ unit'.to = c /\ unit'.at = at /\ unit'.todo = steps
      /\ unit'.payload = payload /\ ~unit'.raised /\ OwnScopes(0)' /\ host' = host /\ Size' = n
  BY <1>1, <1>2, <1>6, CallStarts
<1>8. unit'.at + Size' <= Len(host'[unit'.to])
  BY <1>1, <1>7
<1>9. from \in 0..Len(host'[b]) /\ from + Size' <= Len(host'[b]) /\ unit'.payload = Part(host[b], from, Size)'
  BY <1>1, <1>7 DEF payload, Part
<1>10. CASE n = 0
  <2>1. payload = <<>> /\ unit'.todo = <<>>
    BY <1>2, <1>4, <1>7, <1>10, EmptySeq
  <2>2. OnePatched'
    <3>1. unit'.payload = <<>>
      BY <1>7, <2>1
    <3> QED BY <3>1, <1>7, NothingLands
  <2>3. Closing'
    BY <1>7, <2>1, <2>2 DEF Closing
  <2> QED BY <2>3, <1>7, <1>8 DEF BufferInv, Phases, TransferPhase
<1>11. CASE steps = <<v, t, p>>
  <2>1. unit'.todo = <<Push("validation"), CopyStep(b, from)', Pop(1)>>
    BY <1>7, <1>11 DEF CopyStep, v, t, p
  <2>2. Copying(b, from)'
    BY <2>1, <1>7 DEF Copying, Push, Pop
  <2>3. CopyPhase'
    BY <2>2, <1>9 DEF CopyPhase
  <2> QED BY <2>3, <1>7, <1>8 DEF BufferInv, Phases, TransferPhase
<1>12. CASE n # 0 /\ steps = R \o (<<e>> \o W)
  <2>1. WriteSteps(unit.to, unit.at, Size)' = W
    BY <1>7 DEF W, WriteSteps, ReadSteps, Push, Pop, PopScopes, Down, Up
  <2>2. ReadSteps(b, from, Size)' = R
    BY <1>7 DEF R, ReadSteps, Push, Pop, PopScopes, Down, Up
  <2>3. Reading(b, from, Size, <<[op |-> "take"]>> \o WriteSteps(unit.to, unit.at, Size), 0)'
    <3>1. Size' > 0
      BY <1>7, <1>12
    <3> QED BY <3>1, <2>1, <2>2, <1>7, <1>12 DEF Reading, e
  <2>4. CopyPhase'
    BY <2>3, <1>9 DEF CopyPhase, Taking
  <2> QED BY <2>4, <1>7, <1>8 DEF BufferInv, Phases, TransferPhase
<1> QED
  BY <1>4, <1>5, <1>10, <1>11, <1>12

\* A new buffer holds zeros, and so does its padding.
LEMMA CreateKeeps ==
    ASSUME BufferInv, NEW b \in Buffers, NEW d \in Descriptors, CreateBuffer(b, d)
    PROVE  BufferInv'
<1> DEFINE h == [i \in 1..d.size |-> 0]
           g == [i \in 1..Up(d.size) |-> 0]
<1>1. /\ host' = [host EXCEPT ![b] = h] /\ device' = [device EXCEPT ![b] = g]
      /\ unit' = unit /\ scopes' = scopes /\ answer' = answer /\ unit.op = "none"
  BY DEF CreateBuffer
<1>2. d.size \in Nat /\ Up(d.size) \in Nat /\ d.size <= Up(d.size)
  <2>1. d.size \in Nat
    BY BufferAssumption DEF Descriptors
  <2> QED BY <2>1, UpAligned
<1>3. h \in Seq(Contents) /\ g \in Seq(Contents) /\ Len(h) = d.size
  <2>1. h \in [1..d.size -> Contents] /\ g \in [1..Up(d.size) -> Contents]
    BY DEF Contents
  <2> HIDE DEF h, g
  <2>2. h \in Seq(Contents) /\ g \in Seq(Contents)
    BY <1>2, <2>1, SeqDef
  <2>3. Len(h) = d.size
    BY <1>2, <2>1, <2>2, LenProperties
  <2> QED BY <2>2, <2>3
<1>4. Padded(h) = g
  <2>1. Padded(h) = [i \in 1..Up(d.size) |-> IF i <= d.size THEN h[i] ELSE 0]
    <3> HIDE DEF h
    <3> QED BY <1>3, Zenon DEF Padded
  <2>2. \A i \in 1..Up(d.size) : (IF i <= d.size THEN h[i] ELSE 0) = 0
    BY <1>2
  <2>3. [i \in 1..Up(d.size) |-> IF i <= d.size THEN h[i] ELSE 0] = [i \in 1..Up(d.size) |-> 0]
    <3> HIDE DEF h
    <3> QED BY <2>2
  <2> QED BY <2>1, <2>3, Zenon
<1> HIDE DEF h, g
<1>5. host \in [Buffers -> Seq(Contents)] /\ device \in [Buffers -> Seq(Contents)]
  BY DEF BufferInv, BufferTypes, Contents
<1>6. BufferTypes'
  <2>1. host' \in [Buffers -> Seq(Contents)] /\ device' \in [Buffers -> Seq(Contents)]
    BY <1>1, <1>3, <1>5
  <2> QED BY <2>1, <1>1 DEF BufferInv, BufferTypes, Contents
<1>7. AllPadded'
  <2>1. AllPadded
    BY <1>1 DEF BufferInv, Phases
  <2>2. \A c \in Buffers : device'[c] = Padded(host'[c])
    BY <2>1, <1>1, <1>4, <1>5 DEF AllPadded
  <2> QED BY <2>2 DEF AllPadded, Padded, Up
<1>8. Answered'
  BY <1>1 DEF BufferInv, Answered
<1> QED
  BY <1>1, <1>6, <1>7, <1>8 DEF BufferInv, Phases

-----------------------------------------------------------------------------

\* The buffers before the first call.
LEMMA BuffersStart == BufferInit => BufferInv
<1> SUFFICES ASSUME BufferInit PROVE BufferInv
  OBVIOUS
<1>1. /\ host = [b \in Buffers |-> <<>>] /\ device = host /\ scopes = <<>> /\ unit = Resting
      /\ answer = [ret |-> "ok", raised |-> FALSE, cpu |-> <<>>, wgpu |-> <<>>, leaked |-> 0]
  BY DEF BufferInit
<1>2. Padded(<<>>) = <<>>
  <2>1. Up(0) \in Nat /\ Up(0) <= 0 * Align
    <3>1. 0 \in Nat /\ 0 <= 0 * Align
      BY BufferAssumption
    <3> QED BY <3>1, UpAligned, UpIsLeast
  <2>2. Up(0) = 0
    BY <2>1, BufferAssumption
  <2>3. 0 \in Contents /\ <<>> \in Seq(Contents) /\ Len(<<>>) = 0
    BY EmptySeq DEF Contents
  <2>4. Padded(<<>>) \in Seq(Contents) /\ Len(Padded(<<>>)) = 0
    BY <2>2, <2>3, PaddedOf
  <2> QED BY <2>4, EmptySeq
<1>3. AllPadded
  BY <1>1, <1>2 DEF AllPadded
<1>4. BufferTypes
  <2>1. host \in [Buffers -> Seq(Bytes \cup {0})] /\ device \in [Buffers -> Seq(Bytes \cup {0})]
    BY <1>1, EmptySeq
  <2>2. scopes \in Seq([kind : {"oom", "validation"}, hit : BOOLEAN])
    BY <1>1, EmptySeq
  <2>3. unit \in [op : {"none", "read", "write", "copy"}, to : Buffers, at : Nat, todo : Seq(Steps),
                  payload : Seq(Bytes \cup {0}), span : Seq(Bytes \cup {0}), raised : BOOLEAN, open : Nat]
    <3> HIDE DEF Steps
    <3> QED BY <1>1, EmptySeq DEF Resting, Buffers
  <2> QED BY <2>1, <2>2, <2>3 DEF BufferTypes
<1>5. Answered
  BY <1>1 DEF Answered
<1> QED
  BY <1>1, <1>3, <1>4, <1>5 DEF BufferInv, Phases, Resting

\* The fence and the transfer count are no part of the invariant.
LEMMA BuffersStill ==
    ASSUME BufferInv, UNCHANGED <<host, device, scopes, unit, answer>>
    PROVE  BufferInv'
<1>1. Steady /\ unit' = unit /\ host' = host /\ device' = device /\ scopes' = scopes
  BY DEF Steady
<1>2. /\ Size' = Size /\ First' = First /\ Width' = Width /\ Landing' = Landing /\ Written' = Written
      /\ (\A at : StoreStep(at)' = StoreStep(at)) /\ (\A b, from : CopyStep(b, from)' = CopyStep(b, from))
      /\ WriteSteps(unit.to, unit.at, Size)' = WriteSteps(unit.to, unit.at, Size)
  BY <1>1, SameCall
<1>3. BufferTypes' /\ Answered'
  BY DEF BufferInv, BufferTypes, Answered
<1>4. AllPadded => AllPadded'
  BY <1>1, StayPadded
<1>5. /\ \A n : OwnScopes(n) => OwnScopes(n)'
      /\ \A i, kind : Untouched(i, kind) => Untouched(i, kind)'
      /\ \A i : Hit(i)' = Hit(i)
      /\ \A b, at, n : Staged(b, at, n)' = Staged(b, at, n)
      /\ OnePatched => OnePatched'
  <2>1. Padded(Written)' = Padded(Written) /\ \A b \in Buffers : Padded(host[b])' = Padded(host[b])
    BY <1>1, <1>2 DEF Padded, Up
  <2>2. OnePatched => OnePatched'
    BY <1>1, <2>1 DEF OnePatched
  <2>3. \A b, at, n : Staged(b, at, n)' = Staged(b, at, n)
    BY <1>1 DEF Staged, Part, Down, Up
  <2> QED BY <1>1, <2>2, <2>3 DEF OwnScopes, Untouched, Hit
<1>6. ASSUME NEW b, NEW at, NEW n, NEW rest, NEW d, Reading(b, at, n, rest, d)
      PROVE  Reading(b, at, n, rest, d)'
  <2>1. ReadSteps(b, at, n)' = ReadSteps(b, at, n) /\ StageStep(b, at, n)' = StageStep(b, at, n)
        /\ MapStep(at, n)' = MapStep(at, n) /\ PopScopes' = PopScopes
    BY DEF ReadSteps, StageStep, MapStep, PopScopes, Pop, Push, Down, Up
  <2> QED BY <2>1, <1>1, <1>4, <1>5, <1>6 DEF Reading, Push
<1>7. ReadPhase => ReadPhase'
  BY <1>1, <1>4, <1>5, <1>6 DEF ReadPhase, Part
<1>8. Writing => Writing'
  BY <1>1, <1>2, <1>4, <1>5, <1>6 DEF Writing, Part, Pop
<1>9. Closing => Closing'
  BY <1>1, <1>2, <1>4, <1>5 DEF Closing, Pop, Patch, Padded, Up
<1>10. CopyPhase => CopyPhase'
  <2>1. ASSUME NEW b, NEW from, Taking(b, from) PROVE Taking(b, from)'
    BY <2>1, <1>1, <1>2, <1>4, <1>5, <1>6 DEF Taking
  <2>2. ASSUME NEW b, NEW from, Copying(b, from) PROVE Copying(b, from)'
    BY <2>2, <1>1, <1>2, <1>4, <1>5 DEF Copying, Push, Pop
  <2> QED BY <2>1, <2>2, <1>1, <1>2 DEF CopyPhase, Part
<1>11. Phases'
  BY <1>1, <1>2, <1>4, <1>7, <1>8, <1>9, <1>10 DEF BufferInv, Phases, TransferPhase
<1> QED
  BY <1>3, <1>11 DEF BufferInv

\* Every step keeps the invariant.
LEMMA BuffersStep == BufferInv /\ [BufferNext]_bufferVars => BufferInv'
<1> SUFFICES ASSUME BufferInv, [BufferNext]_bufferVars PROVE BufferInv'
  OBVIOUS
<1>1. ASSUME NEW b \in Buffers, NEW d \in Descriptors, CreateBuffer(b, d) PROVE BufferInv'
  BY <1>1, CreateKeeps
<1>2. ASSUME NEW b \in Buffers, NEW at \in Offsets, NEW bytes \in Payloads, WriteBuffer(b, at, bytes)
      PROVE  BufferInv'
  <2>1. at \in Nat
    BY BufferAssumption DEF Offsets
  <2>2. bytes \in Seq(Contents)
    <3>1. PICK n \in 0..3 : bytes \in [1..n -> Bytes]
      BY DEF Payloads
    <3>2. n \in Nat /\ bytes \in [1..n -> Contents]
      BY <3>1 DEF Contents
    <3> QED BY <3>2, SeqDef
  <2> QED BY <1>2, <2>1, <2>2, WriteCalled
<1>3. ASSUME NEW b \in Buffers, NEW at \in Offsets, NEW n \in Offsets, ReadBuffer(b, at, n)
      PROVE  BufferInv'
  BY <1>3, BufferAssumption, ReadCalled DEF Offsets
<1>4. ASSUME NEW b \in Buffers, NEW c \in Buffers, NEW from \in Offsets, NEW at \in Offsets,
             NEW n \in Offsets, CopyBuffer(b, from, c, at, n)
      PROVE  BufferInv'
  BY <1>4, BufferAssumption, CopyCalled DEF Offsets
<1>5. CASE DeviceStep \/ CallEnds
  <2>1. unit.op # "none"
    <3>1. unit.op = "none" => unit.todo = <<>>
      BY DEF BufferInv, Phases
    <3>2. unit.todo = <<>> => ~DeviceStep /\ ~PopFails /\ ~MapFails
      BY DEF DeviceStep, StepOk, StepRaises, PopFails, MapFails
    <3>3. unit.op = "none" => ~CallReturns
      BY DEF CallReturns
    <3> QED BY <1>5, <3>1, <3>2, <3>3 DEF CallEnds
  <2> QED BY <1>5, <2>1, ReadGoes, TransferGoes DEF BufferInv, Phases
<1>6. CASE FenceDone \/ UNCHANGED bufferVars
  BY <1>6, BuffersStill DEF FenceDone, bufferVars
<1> QED
  BY <1>1, <1>2, <1>3, <1>4, <1>5, <1>6 DEF BufferNext, DeviceStep, CallEnds

\* So it holds in every state.
LEMMA BuffersHold == BufferSpec => []BufferInv
BY BuffersStart, BuffersStep, PTL DEF BufferSpec

\* memory.rs:150-186, 300-328 against nnis-cpu lib.rs:147-207: between calls both
\* backends hold the same bytes, whatever failed before, the reads returned the
\* same ones, and the padding of a device buffer is still zero.
THEOREM MemoryHolds == BufferSpec => []MemoryAgrees
<1>1. ASSUME BufferInv PROVE MemoryAgrees
  <2>1. SUFFICES ASSUME unit.op = "none"
        PROVE  /\ answer.cpu = answer.wgpu
               /\ \A b \in Buffers :
                    /\ SubSeq(device[b], 1, Len(host[b])) = host[b]
                    /\ \A i \in Len(host[b]) + 1..Len(device[b]) : device[b][i] = 0
    BY DEF MemoryAgrees
  <2>2. BufferTypes /\ AllPadded /\ answer.cpu = answer.wgpu
    BY <1>1, <2>1 DEF BufferInv, Phases, Answered
  <2>3. ASSUME NEW b \in Buffers
        PROVE  /\ SubSeq(device[b], 1, Len(host[b])) = host[b]
               /\ \A i \in Len(host[b]) + 1..Len(device[b]) : device[b][i] = 0
    <3>1. /\ host[b] \in Seq(Contents) /\ device[b] = Padded(host[b]) /\ Len(device[b]) = Up(Len(host[b]))
          /\ Len(host[b]) \in Nat /\ 0 \in Contents /\ Up(Len(host[b])) \in Nat
      BY <2>2, PaddedBuffers, UpAligned DEF Contents
    <3>2. Part(Padded(host[b]), 0, Len(host[b])) = Part(host[b], 0, Len(host[b]))
      <4>1. 0 \in Nat /\ 0 + Len(host[b]) <= Len(host[b])
        BY <3>1
      <4> QED BY <3>1, <4>1, PartOfPadded
    <3>3. 0 + 1 = 1 /\ 0 + Len(host[b]) = Len(host[b])
      BY <3>1
    <3>4. SubSeq(device[b], 1, Len(host[b])) = SubSeq(host[b], 1, Len(host[b]))
      BY <3>1, <3>2, <3>3 DEF Part
    <3>5. SubSeq(device[b], 1, Len(host[b])) = host[b]
      BY <3>1, <3>4, SubSeqFull
    <3>6. ASSUME NEW i \in Len(host[b]) + 1..Len(device[b]) PROVE device[b][i] = 0
      <4>1. i \in 1..Up(Len(host[b])) /\ ~(i <= Len(host[b]))
        BY <3>1
      <4>2. Padded(host[b])[i] = IF i <= Len(host[b]) THEN host[b][i] ELSE 0
        BY <3>1, <4>1, PaddedOf
      <4> QED BY <3>1, <4>1, <4>2
    <3> QED BY <3>5, <3>6
  <2> QED BY <2>2, <2>3
<1> QED
  BY <1>1, BuffersHold, PTL

\* memory.rs:230-239, 265-297, 313-330, 441-450: a call that raised a device error
\* returns it, and the one scope a call can leave behind is that of a failed
\* readback inside a write.
THEOREM ErrorsHold == BufferSpec => []ErrorsReported
<1>1. BufferInv => ErrorsReported
  BY DEF BufferInv, Answered, ErrorsReported
<1> QED
  BY <1>1, BuffersHold, PTL

-----------------------------------------------------------------------------
\* The verification of drafts.

Patterns == 0..2 * SignBit - 1
LogitRows == [1..Vocabulary -> Patterns]

\* The magnitude of a pattern is what is left without its sign.
LEMMA MagnitudeOf ==
    ASSUME NEW b \in Patterns
    PROVE  LogitMagnitude(b) = IF b >= SignBit THEN b - SignBit ELSE b
<1>1. SignBit \in Nat /\ SignBit > 0 /\ b \in Nat /\ b < 2 * SignBit
  BY SpeculativeAssumption DEF Patterns
<1>2. CASE b < SignBit
  BY <1>1, <1>2 DEF LogitMagnitude
<1>3. CASE b >= SignBit
  <2>1. b - SignBit \in 0..SignBit - 1 /\ b = SignBit * 1 + (b - SignBit)
    BY <1>1, <1>3
  <2>2. b % SignBit = b - SignBit
    BY <1>1, <2>1
  <2> QED
    BY <1>1, <1>3, <2>2 DEF LogitMagnitude
<1> QED
  BY <1>1, <1>2, <1>3

\* Keys are in the order of the numbers, the two zeroes having one key.
LEMMA KeysOrder ==
    ASSUME NEW b \in Patterns, NEW c \in Patterns
    PROVE  /\ OrderKey(b) \in Int /\ Number(b) \in Int
           /\ OrderKey(b) > OrderKey(c) <=> Number(b) > Number(c)
<1>1. SignBit \in Nat /\ SignBit > 0 /\ b \in Nat /\ b < 2 * SignBit /\ c \in Nat /\ c < 2 * SignBit
  BY SpeculativeAssumption DEF Patterns
<1>2. \A x \in Patterns :
        /\ Number(x) = IF x >= SignBit THEN SignBit - x ELSE x
        /\ OrderKey(x) = IF x > SignBit THEN 2 * SignBit - 1 - x ELSE IF x = SignBit THEN SignBit ELSE x + SignBit
  <2> TAKE x \in Patterns
  <2>1. x \in Nat
    BY DEF Patterns
  <2>2. LogitMagnitude(x) = IF x >= SignBit THEN x - SignBit ELSE x
    BY MagnitudeOf
  <2> QED
    BY <1>1, <2>1, <2>2 DEF Number, OrderKey, Negative
<1> QED
  BY <1>1, <1>2

LoopRuns(A, n, e, G) == \E f \in [0..n -> A] : f[0] = e /\ \A i \in 1..n : f[i] = G[<<f[i - 1], i>>]

\* A loop over 1..n has values: one function gives what it has after every turn.
LEMMA LoopHasValues ==
    ASSUME NEW A, NEW n \in Nat, NEW e \in A, NEW G \in [A \X (1..n) -> A]
    PROVE  LoopRuns(A, n, e, G)
<1> DEFINE Upto(m, f) == f[0] = e /\ \A i \in 1..m : f[i] = G[<<f[i - 1], i>>]
           Without == {m \in 0..n : \A f \in [0..m -> A] : ~Upto(m, f)}
<1>1. Without = {}
  <2> SUFFICES ASSUME Without # {} PROVE FALSE
    OBVIOUS
  <2>0. Without \subseteq 0..n /\ Without \subseteq Nat
    OBVIOUS
  <2>1. PICK m \in Without : \A k \in Without : m <= k
    <3> HIDE DEF Without
    <3> QED
      BY <2>0, LeastNumber
  <2>2. m # 0
    <3>1. [i \in 0..0 |-> e] \in [0..0 -> A] /\ Upto(0, [i \in 0..0 |-> e])
      OBVIOUS
    <3> QED
      BY <2>1, <3>1
  <2>3. m - 1 \in 0..n /\ m - 1 \notin Without /\ m \in 1..n
    <3>1. m \in 0..n
      BY <2>0, <2>1
    <3> HIDE DEF Without
    <3>2. m - 1 \in 0..n /\ m \in 1..n /\ ~(m <= m - 1)
      BY <2>2, <3>1
    <3> QED
      BY <2>1, <3>2
  <2>4. PICK f \in [0..m - 1 -> A] : Upto(m - 1, f)
    BY <2>3
  <2> DEFINE g == [i \in 0..m |-> IF i = m THEN G[<<f[m - 1], m>>] ELSE f[i]]
  <2>5. f[m - 1] \in A /\ G[<<f[m - 1], m>>] \in A
    <3>1. m - 1 \in 0..m - 1
      BY <2>3
    <3>2. f[m - 1] \in A
      BY <3>1
    <3>3. <<f[m - 1], m>> \in A \X (1..n)
      BY <3>2, <2>3
    <3> QED
      BY <3>2, <3>3
  <2>6. g \in [0..m -> A]
    <3>1. \A i \in 0..m : i # m => i \in 0..m - 1
      BY <2>3
    <3> QED
      BY <3>1, <2>5
  <2>7. Upto(m, g)
    <3>1. g[0] = e
      BY <2>3, <2>4
    <3>2. ASSUME NEW i \in 1..m PROVE g[i] = G[<<g[i - 1], i>>]
      <4>1. i \in 0..m /\ i - 1 \in 0..m /\ i - 1 # m
        BY <2>3
      <4>2. g[i - 1] = f[i - 1]
        BY <4>1
      <4>3. CASE i = m
        BY <4>1, <4>2, <4>3
      <4>4. CASE i # m
        <5>1. i \in 1..m - 1
          BY <4>4, <2>3
        <5> QED
          BY <5>1, <4>1, <4>2, <2>4
      <4> QED
        BY <4>3, <4>4
    <3> QED
      BY <3>1, <3>2
  <2> QED
    BY <2>1, <2>6, <2>7
<1>2. n \in 0..n
  OBVIOUS
<1> QED
  BY <1>1, <1>2 DEF LoopRuns

\* What holds before the loop and is kept by every turn holds all along.
LEMMA LoopStays ==
    ASSUME NEW A, NEW n \in Nat, NEW v, v = [i \in 0..n |-> v[i]], v[0] \in A,
           \A i \in 1..n : v[i - 1] \in A => v[i] \in A
    PROVE  v \in [0..n -> A]
<1> DEFINE Stray == {i \in 0..n : v[i] \notin A}
<1>1. Stray = {}
  <2> SUFFICES ASSUME Stray # {} PROVE FALSE
    OBVIOUS
  <2>1. PICK i \in Stray : \A k \in Stray : i <= k
    <3>1. Stray \subseteq Nat
      OBVIOUS
    <3> QED
      BY <3>1, LeastNumber
  <2>2. i \in 0..n /\ i # 0
    BY <2>1
  <2>3. i \in 1..n /\ i - 1 \in 0..n /\ ~(i <= i - 1)
    BY <2>2
  <2>4. v[i - 1] \in A
    BY <2>1, <2>3
  <2> QED
    BY <2>1, <2>3, <2>4
<1>2. \A i \in 0..n : v[i] \in A
  BY <1>1
<1> QED
  BY <1>2

Visited == [best : 0..Vocabulary - 1, bad : -1..Vocabulary - 1]
Keyed == [best : 0..Vocabulary - 1, key : Int, bad : -1..Vocabulary - 1]

\* One turn of either loop keeps its type.
LEMMA VisitTypes ==
    ASSUME NEW row \in LogitRows, NEW i \in 1..Vocabulary
    PROVE  /\ \A acc \in Visited : VisitValue(row, acc, i) \in Visited
           /\ \A acc \in Keyed : VisitKey(row, acc, i) \in Keyed
<1>1. Vocabulary \in Nat \ {0} /\ row[i] \in Patterns /\ i - 1 \in 0..Vocabulary - 1
  BY SpeculativeAssumption DEF LogitRows
<1>2. OrderKey(row[i]) \in Int
  BY <1>1, KeysOrder
<1>3. ASSUME NEW acc \in Visited PROVE VisitValue(row, acc, i) \in Visited
  BY <1>1 DEF VisitValue, Visited
<1>4. ASSUME NEW acc \in Keyed PROVE VisitKey(row, acc, i) \in Keyed
  <2>1. [[acc EXCEPT !.best = i - 1] EXCEPT !.key = OrderKey(row[i])] \in Keyed
    BY <1>1, <1>2 DEF Keyed
  <2>2. [acc EXCEPT !.bad = i - 1] \in Keyed
    BY <1>1 DEF Keyed
  <2> QED
    BY <2>1, <2>2 DEF VisitKey
<1> QED
  BY <1>3, <1>4

\* What the two loops have after i turns.
LEMMA ScansRun ==
    ASSUME NEW row \in LogitRows
    PROVE  /\ Len(row) = Vocabulary
           /\ ValueScan(row) \in [0..Vocabulary -> Visited]
           /\ ValueScan(row)[0] = [best |-> 0, bad |-> -1]
           /\ \A i \in 1..Vocabulary : ValueScan(row)[i] = VisitValue(row, ValueScan(row)[i - 1], i)
           /\ KeyScan(row) \in [0..Vocabulary -> Keyed]
           /\ KeyScan(row)[0] = [best |-> 0, key |-> 0, bad |-> -1]
           /\ \A i \in 1..Vocabulary : KeyScan(row)[i] = VisitKey(row, KeyScan(row)[i - 1], i)
<1>0. Vocabulary \in Nat \ {0}
  BY SpeculativeAssumption
<1>1. Len(row) = Vocabulary
  BY <1>0 DEF LogitRows
<1> DEFINE first == [best |-> 0, bad |-> -1]
           P(f) == f = [i \in 0..Len(row) |-> IF i = 0 THEN first ELSE VisitValue(row, f[i - 1], i)]
           v == ValueScan(row)
           begun == [best |-> 0, key |-> 0, bad |-> -1]
           Q(f) == f = [i \in 0..Len(row) |-> IF i = 0 THEN begun ELSE VisitKey(row, f[i - 1], i)]
           w == KeyScan(row)
<1>2. /\ v \in [0..Vocabulary -> Visited] /\ v[0] = first
      /\ \A i \in 1..Vocabulary : v[i] = VisitValue(row, v[i - 1], i)
  <2> DEFINE G == [x \in Visited \X (1..Vocabulary) |-> VisitValue(row, x[1], x[2])]
  <2>1. first \in Visited
    BY <1>0 DEF Visited
  <2>2. G \in [Visited \X (1..Vocabulary) -> Visited]
    BY VisitTypes
  <2>3. \A a \in Visited, i \in 1..Vocabulary : G[<<a, i>>] = VisitValue(row, a, i)
    OBVIOUS
  <2> HIDE DEF G, first
  <2>4. PICK f \in [0..Vocabulary -> Visited] :
          f[0] = first /\ \A i \in 1..Vocabulary : f[i] = G[<<f[i - 1], i>>]
    <3>1. Vocabulary \in Nat
      BY <1>0
    <3>2. LoopRuns(Visited, Vocabulary, first, G)
      BY <2>1, <2>2, <3>1, LoopHasValues, Zenon
    <3> QED
      BY <3>2 DEF LoopRuns
  <2>5. P(f)
    <3>1. \A i \in 0..Vocabulary : i # 0 => f[i - 1] \in Visited /\ i \in 1..Vocabulary
      BY <1>0
    <3>2. \A i \in 0..Vocabulary : f[i] = IF i = 0 THEN first ELSE VisitValue(row, f[i - 1], i)
      BY <2>3, <2>4, <3>1
    <3> QED
      BY <1>1, <2>4, <3>2
  <2>6. v = CHOOSE g : P(g)
    BY Zenon DEF ValueScan, first
  <2>7. P(v)
    <3> HIDE DEF P, v
    <3> QED
      BY <2>5, <2>6, Zenon
  <2>8. \A g : P(g) => /\ DOMAIN g = 0..Vocabulary /\ g[0] = first
                       /\ \A i \in 1..Vocabulary : g[i] = VisitValue(row, g[i - 1], i)
    BY <1>0, <1>1
  <2>9. /\ DOMAIN v = 0..Vocabulary /\ v[0] = first
        /\ \A i \in 1..Vocabulary : v[i] = VisitValue(row, v[i - 1], i)
    BY <2>7, <2>8
  <2>10. v = [i \in 0..Vocabulary |-> v[i]]
    BY <2>7, <1>1
  <2> HIDE DEF v
  <2>11. v \in [0..Vocabulary -> Visited]
    <3>1. v[0] \in Visited /\ \A i \in 1..Vocabulary : v[i - 1] \in Visited => v[i] \in Visited
      BY <2>1, <2>9, VisitTypes
    <3> QED
      BY <1>0, <2>10, <3>1, LoopStays
  <2> QED
    BY <2>9, <2>11 DEF first
<1>3. /\ w \in [0..Vocabulary -> Keyed] /\ w[0] = begun
      /\ \A i \in 1..Vocabulary : w[i] = VisitKey(row, w[i - 1], i)
  <2> DEFINE G == [x \in Keyed \X (1..Vocabulary) |-> VisitKey(row, x[1], x[2])]
  <2>1. begun \in Keyed
    BY <1>0 DEF Keyed
  <2>2. G \in [Keyed \X (1..Vocabulary) -> Keyed]
    BY VisitTypes
  <2>3. \A a \in Keyed, i \in 1..Vocabulary : G[<<a, i>>] = VisitKey(row, a, i)
    OBVIOUS
  <2> HIDE DEF G, begun
  <2>4. PICK f \in [0..Vocabulary -> Keyed] :
          f[0] = begun /\ \A i \in 1..Vocabulary : f[i] = G[<<f[i - 1], i>>]
    <3>1. Vocabulary \in Nat
      BY <1>0
    <3>2. LoopRuns(Keyed, Vocabulary, begun, G)
      BY <2>1, <2>2, <3>1, LoopHasValues, Zenon
    <3> QED
      BY <3>2 DEF LoopRuns
  <2>5. Q(f)
    <3>1. \A i \in 0..Vocabulary : i # 0 => f[i - 1] \in Keyed /\ i \in 1..Vocabulary
      BY <1>0
    <3>2. \A i \in 0..Vocabulary : f[i] = IF i = 0 THEN begun ELSE VisitKey(row, f[i - 1], i)
      BY <2>3, <2>4, <3>1
    <3> QED
      BY <1>1, <2>4, <3>2
  <2>6. w = CHOOSE g : Q(g)
    BY Zenon DEF KeyScan, begun
  <2>7. Q(w)
    <3> HIDE DEF Q, w
    <3> QED
      BY <2>5, <2>6, Zenon
  <2>8. \A g : Q(g) => /\ DOMAIN g = 0..Vocabulary /\ g[0] = begun
                       /\ \A i \in 1..Vocabulary : g[i] = VisitKey(row, g[i - 1], i)
    BY <1>0, <1>1
  <2>9. /\ DOMAIN w = 0..Vocabulary /\ w[0] = begun
        /\ \A i \in 1..Vocabulary : w[i] = VisitKey(row, w[i - 1], i)
    BY <2>7, <2>8
  <2>10. w = [i \in 0..Vocabulary |-> w[i]]
    BY <2>7, <1>1
  <2> HIDE DEF w
  <2>11. w \in [0..Vocabulary -> Keyed]
    <3>1. w[0] \in Keyed /\ \A i \in 1..Vocabulary : w[i - 1] \in Keyed => w[i] \in Keyed
      BY <2>1, <2>9, VisitTypes
    <3> QED
      BY <1>0, <2>10, <3>1, LoopStays
  <2> QED
    BY <2>9, <2>11 DEF begun
<1> QED
  BY <1>1, <1>2, <1>3

\* t is the first of the greatest among the first n columns.
FirstOfGreatest(row, n, t) ==
    /\ t \in 0..n - 1
    /\ \A u \in 0..n - 1 : Number(row[u + 1]) <= Number(row[t + 1])
    /\ \A u \in 0..t - 1 : Number(row[u + 1]) < Number(row[t + 1])

\* After i turns the two loops are at the same column, and it is the first of
\* the greatest unless a logit was refused.
Abreast(row, i, v, w) ==
    /\ v.best = w.best /\ v.bad = w.bad
    /\ v.bad = -1 /\ i > 0 => FirstOfGreatest(row, i, v.best) /\ w.key = OrderKey(row[w.best + 1])
    /\ i = 0 => v.best = 0 /\ v.bad = -1

\* A turn leaves them abreast.
LEMMA TurnKeeps ==
    ASSUME NEW row \in LogitRows, NEW i \in 1..Vocabulary, NEW v \in Visited, NEW w \in Keyed,
           Abreast(row, i - 1, v, w)
    PROVE  Abreast(row, i, VisitValue(row, v, i), VisitKey(row, w, i))
<1> DEFINE v1 == VisitValue(row, v, i)
           w1 == VisitKey(row, w, i)
<1>0. Vocabulary \in Nat \ {0} /\ i \in Nat /\ \A j \in 1..Vocabulary : row[j] \in Patterns
  BY SpeculativeAssumption DEF LogitRows
<1>1. v.best = w.best /\ v.bad = w.bad /\ v.best \in 0..Vocabulary - 1 /\ v.bad \in -1..Vocabulary - 1
  BY DEF Abreast, Visited
<1>2. CASE v.bad >= 0
  <2>1. v1 = v /\ w1 = w
    BY <1>1, <1>2 DEF VisitValue, VisitKey
  <2> QED
    BY <1>0, <1>1, <1>2, <2>1 DEF Abreast
<1>3. CASE v.bad < 0 /\ InfiniteOrNaN(row[i])
  <2>1. v1 = [v EXCEPT !.bad = i - 1] /\ w1 = [w EXCEPT !.bad = i - 1]
    BY <1>1, <1>3 DEF VisitValue, VisitKey
  <2>2. v1.best = v.best /\ w1.best = w.best /\ v1.bad = i - 1 /\ w1.bad = i - 1
    BY <2>1 DEF Visited, Keyed
  <2> QED
    BY <1>0, <1>1, <2>2 DEF Abreast
<1>4. CASE v.bad < 0 /\ ~InfiniteOrNaN(row[i])
  <2>1. v.bad = -1
    BY <1>0, <1>1, <1>4
  <2>2. /\ v1 = IF Number(row[i]) > Number(row[v.best + 1]) THEN [v EXCEPT !.best = i - 1] ELSE v
        /\ w1 = IF i = 1 \/ OrderKey(row[i]) > w.key
                THEN [w EXCEPT !.best = i - 1, !.key = OrderKey(row[i])] ELSE w
    BY <1>0, <1>1, <1>4 DEF VisitValue, VisitKey
  <2>3. \A j, k \in 1..Vocabulary :
          /\ Number(row[j]) \in Int
          /\ OrderKey(row[j]) > OrderKey(row[k]) <=> Number(row[j]) > Number(row[k])
    BY <1>0, KeysOrder
  <2>4. CASE i = 1
    <3>1. v.best = 0
      BY <2>4 DEF Abreast
    <3>2. v1 = v
      BY <1>0, <2>2, <2>3, <2>4, <3>1
    <3>3. w1.best = 0 /\ w1.bad = w.bad /\ w1.key = OrderKey(row[1])
      BY <2>2, <2>4 DEF Keyed
    <3>4. FirstOfGreatest(row, 1, 0)
      <4>1. Number(row[1]) \in Int
        BY <1>0, <2>3
      <4> QED
        BY <4>1 DEF FirstOfGreatest
    <3> QED
      BY <1>1, <2>4, <3>1, <3>2, <3>3, <3>4 DEF Abreast
  <2>5. CASE i > 1
    <3>1. FirstOfGreatest(row, i - 1, v.best) /\ w.key = OrderKey(row[v.best + 1])
      BY <1>0, <1>1, <2>1, <2>5 DEF Abreast
    <3>2. v.best + 1 \in 1..i - 1 /\ v.best + 1 \in 1..Vocabulary
      BY <1>0, <1>1, <3>1 DEF FirstOfGreatest
    <3>3. OrderKey(row[i]) > w.key <=> Number(row[i]) > Number(row[v.best + 1])
      BY <2>3, <3>1, <3>2
    <3>4. CASE Number(row[i]) > Number(row[v.best + 1])
      <4>1. v1.best = i - 1 /\ w1.best = i - 1 /\ v1.bad = v.bad /\ w1.bad = w.bad /\ w1.key = OrderKey(row[i])
        BY <2>2, <3>3, <3>4 DEF Visited, Keyed
      <4>2. \A u \in 0..i - 2 : Number(row[u + 1]) < Number(row[i])
        <5> TAKE u \in 0..i - 2
        <5>1. u \in 0..(i - 1) - 1 /\ u + 1 \in 1..Vocabulary
          BY <1>0
        <5>2. Number(row[u + 1]) <= Number(row[v.best + 1])
          BY <3>1, <5>1 DEF FirstOfGreatest
        <5> QED
          BY <2>3, <3>2, <3>4, <5>1, <5>2
      <4>3. FirstOfGreatest(row, i, i - 1)
        <5>1. (i - 1) + 1 = i /\ i - 1 \in 0..i - 1 /\ 0..(i - 1) - 1 = 0..i - 2
          BY <1>0, <2>5
        <5>2. ASSUME NEW u \in 0..i - 1 PROVE Number(row[u + 1]) <= Number(row[i])
          <6>1. u \in 0..i - 2 \/ u + 1 = i
            BY <1>0
          <6>2. Number(row[i]) \in Int /\ Number(row[u + 1]) \in Int
            <7>1. u + 1 \in 1..Vocabulary
              BY <1>0
            <7> QED
              BY <2>3, <7>1
          <6> QED
            BY <4>2, <6>1, <6>2
        <5> QED
          BY <4>2, <5>1, <5>2 DEF FirstOfGreatest
      <4>4. (i - 1) + 1 = i
        BY <1>0
      <4> QED
        BY <1>0, <1>1, <4>1, <4>3, <4>4 DEF Abreast
    <3>5. CASE ~(Number(row[i]) > Number(row[v.best + 1]))
      <4>1. v1 = v /\ w1 = w
        BY <2>2, <2>5, <3>3, <3>5
      <4>2. FirstOfGreatest(row, i, v.best)
        <5>1. ASSUME NEW u \in 0..i - 1 PROVE Number(row[u + 1]) <= Number(row[v.best + 1])
          <6>1. u \in 0..(i - 1) - 1 \/ u + 1 = i
            BY <1>0
          <6>2. Number(row[i]) <= Number(row[v.best + 1])
            BY <2>3, <3>2, <3>5
          <6> QED
            BY <3>1, <6>1, <6>2 DEF FirstOfGreatest
        <5>2. v.best \in 0..i - 1
          BY <1>0, <3>2, <1>1
        <5> QED
          BY <3>1, <5>1, <5>2 DEF FirstOfGreatest
      <4> QED
        BY <1>0, <1>1, <2>5, <3>1, <4>1, <4>2 DEF Abreast
    <3> QED
      BY <3>4, <3>5
  <2> QED
    BY <1>0, <2>4, <2>5
<1> QED
  BY <1>1, <1>2, <1>3, <1>4

\* Comparing values and comparing order keys find the same column and refuse the
\* same one.
LEMMA ArgmaxAgrees ==
    ASSUME NEW row \in LogitRows
    PROVE  /\ RowInvocation(row) = GreedyArgmax(row) /\ GreedyArgmax(row) \in Visited
           /\ GreedyArgmax(row).bad = -1 => FirstOfGreatest(row, Vocabulary, GreedyArgmax(row).best)
<1> DEFINE v == ValueScan(row)
           w == KeyScan(row)
           Apart == {i \in 0..Vocabulary : ~Abreast(row, i, v[i], w[i])}
<1>0. Vocabulary \in Nat \ {0} /\ Len(row) = Vocabulary
  BY SpeculativeAssumption, ScansRun
<1>1. /\ v \in [0..Vocabulary -> Visited] /\ v[0] = [best |-> 0, bad |-> -1]
      /\ \A i \in 1..Vocabulary : v[i] = VisitValue(row, v[i - 1], i)
      /\ w \in [0..Vocabulary -> Keyed] /\ w[0] = [best |-> 0, key |-> 0, bad |-> -1]
      /\ \A i \in 1..Vocabulary : w[i] = VisitKey(row, w[i - 1], i)
  BY ScansRun
<1>2. GreedyArgmax(row) = v[Vocabulary]
  BY <1>0 DEF GreedyArgmax
<1>3. RowInvocation(row) = [best |-> w[Vocabulary].best, bad |-> w[Vocabulary].bad]
  BY <1>0 DEF RowInvocation
<1> HIDE DEF v, w
<1>4. Apart = {}
  <2> SUFFICES ASSUME Apart # {} PROVE FALSE
    OBVIOUS
  <2>1. PICK i \in Apart : \A k \in Apart : i <= k
    <3>1. Apart \subseteq Nat
      OBVIOUS
    <3> HIDE DEF Apart
    <3> QED
      BY <3>1, LeastNumber
  <2>2. i \in 0..Vocabulary /\ ~Abreast(row, i, v[i], w[i])
    BY <2>1
  <2>3. i # 0
    <3>1. Abreast(row, 0, v[0], w[0])
      BY <1>1 DEF Abreast
    <3> QED
      BY <2>2, <3>1
  <2>4. i \in 1..Vocabulary /\ i - 1 \in 0..Vocabulary /\ ~(i <= i - 1)
    BY <1>0, <2>2, <2>3
  <2>5. Abreast(row, i - 1, v[i - 1], w[i - 1])
    BY <2>1, <2>4
  <2>6. v[i - 1] \in Visited /\ w[i - 1] \in Keyed
    BY <1>1, <2>4
  <2>7. Abreast(row, i, VisitValue(row, v[i - 1], i), VisitKey(row, w[i - 1], i))
    BY <2>4, <2>5, <2>6, TurnKeeps
  <2> QED
    BY <1>1, <2>2, <2>4, <2>7
<1>5. Vocabulary \in 0..Vocabulary
  BY <1>0
<1>6. v[Vocabulary] \in Visited /\ w[Vocabulary] \in Keyed
  BY <1>1, <1>5
<1>7. Abreast(row, Vocabulary, v[Vocabulary], w[Vocabulary])
  BY <1>4, <1>5
<1>8. [best |-> w[Vocabulary].best, bad |-> w[Vocabulary].bad] = v[Vocabulary]
  BY <1>6, <1>7 DEF Abreast, Visited
<1>9. v[Vocabulary].bad = -1 => FirstOfGreatest(row, Vocabulary, v[Vocabulary].best)
  BY <1>0, <1>7 DEF Abreast
<1> QED
  BY <1>2, <1>3, <1>6, <1>8, <1>9

\* The longest prefix that satisfies a condition: it does, and the place after
\* it does not.
LEMMA LeadingOf ==
    ASSUME NEW n \in Nat, NEW ok
    PROVE  /\ Leading(n, ok) \in 0..n /\ \A j \in 1..Leading(n, ok) : ok[j]
           /\ Leading(n, ok) < n => ~ok[Leading(n, ok) + 1]
<1> DEFINE Good == {i \in 1..n : \A j \in 1..i : ok[j]}
           Broken == {i \in 1..n : ~ok[i]}
<1>1. \E a \in 0..n : Good = 1..a /\ (\A j \in 1..a : ok[j]) /\ (a < n => ~ok[a + 1])
  <2>1. CASE Broken = {}
    <3>1. Good = 1..n
      BY <2>1
    <3> QED
      BY <2>1, <3>1
  <2>2. CASE Broken # {}
    <3>1. PICK i \in Broken : \A k \in Broken : i <= k
      <4>1. Broken \subseteq Nat
        OBVIOUS
      <4> HIDE DEF Broken
      <4> QED
        BY <2>2, <4>1, LeastNumber
    <3>2. i \in 1..n /\ ~ok[i] /\ i - 1 \in 0..n /\ (i - 1) + 1 = i
      BY <3>1
    <3>3. \A j \in 1..i - 1 : ok[j]
      BY <3>1, <3>2
    <3>4. Good = 1..i - 1
      <4>1. \A k \in Good : k \in 1..i - 1
        BY <3>2
      <4>2. \A k \in 1..i - 1 : k \in Good
        BY <3>2, <3>3
      <4> QED
        BY <4>1, <4>2
    <3> QED
      BY <3>2, <3>3, <3>4
  <2> QED
    BY <2>1, <2>2
<1>2. PICK a \in 0..n : Good = 1..a /\ (\A j \in 1..a : ok[j]) /\ (a < n => ~ok[a + 1])
  BY <1>1
<1>3. Cardinality(1..a) = a
  BY FS_Interval
<1>4. Leading(n, ok) = a
  BY <1>2, <1>3 DEF Leading
<1> QED
  BY <1>2, <1>4

\* A request the verifiers are called with.
AskedValid(a) ==
    /\ a.draft \in Drafts /\ DraftValid(a.draft) /\ a.schedule \in Schedules /\ ScheduleValid(a.schedule)
    /\ a.rows \in TargetLogits

LEMMA AskedTypes ==
    ASSUME NEW a, AskedValid(a)
    PROVE  /\ a.draft.tokens \in Seq(Nat) /\ Len(a.draft.tokens) \in Nat /\ a.schedule.cap \in Nat \ {0}
           /\ a.draft.confidences \in Seq(Nat) /\ a.schedule.least \in Nat
           /\ Len(a.draft.confidences) = Len(a.draft.tokens)
           /\ a.rows \in Seq(LogitRows) /\ Len(a.rows) \in Nat /\ DOMAIN a.rows = 1..Len(a.rows)
           /\ \A r \in 1..Len(a.rows) : a.rows[r] \in LogitRows
<1>1. /\ a.draft \in [tokens : Seq(Nat), confidences : Seq(Nat)] /\ a.schedule \in [least : Nat, cap : Nat]
      /\ a.rows \in Seq(LogitRows)
  BY SpeculativeAssumption DEF AskedValid, LogitRows, Patterns
<1> QED
  BY <1>1 DEF AskedValid, DraftValid, ScheduleValid

\* The scheduled prefix is confident and no longer than the cap.
LEMMA ScheduledOf ==
    ASSUME NEW a, AskedValid(a)
    PROVE  LET n == ScheduledLen(a.draft, a.schedule)
           IN /\ n \in 0..Len(a.draft.tokens) /\ n <= a.schedule.cap
              /\ \A i \in 1..n : a.draft.confidences[i] >= a.schedule.least
<1> DEFINE t == a.draft.tokens
           ok == [i \in DOMAIN t |-> a.draft.confidences[i] >= a.schedule.least]
           n == ScheduledLen(a.draft, a.schedule)
<1>1. t \in Seq(Nat) /\ Len(t) \in Nat /\ DOMAIN t = 1..Len(t) /\ a.schedule.cap \in Nat
  BY AskedTypes
<1>2. Leading(Len(t), ok) \in 0..Len(t) /\ \A j \in 1..Leading(Len(t), ok) : ok[j]
  <2> HIDE DEF t, ok
  <2> QED
    BY <1>1, LeadingOf
<1>3. n = IF Leading(Len(t), ok) < a.schedule.cap THEN Leading(Len(t), ok) ELSE a.schedule.cap
  BY DEF ScheduledLen, Min2
<1>4. n \in 0..Len(t) /\ n <= a.schedule.cap /\ n <= Leading(Len(t), ok)
  <2> HIDE DEF t, ok, n
  <2> QED
    BY <1>1, <1>2, <1>3
<1>5. ASSUME NEW i \in 1..n PROVE a.draft.confidences[i] >= a.schedule.least
  <2>1. i \in 1..Leading(Len(t), ok) /\ i \in DOMAIN t
    <3> HIDE DEF t, ok, n
    <3> QED
      BY <1>1, <1>2, <1>4
  <2>2. ok[i]
    BY <1>2, <2>1
  <2> QED
    BY <2>1, <2>2
<1> QED
  BY <1>4, <1>5

\* What an accepted outcome says of the request.
Continues(a, o) ==
    /\ o.emitted \in Seq(Nat) /\ Len(o.emitted) = o.accepted + 1
    /\ o.drafted = Len(a.draft.tokens)
    /\ o.drafted \in Nat /\ o.scheduled \in 0..o.drafted /\ o.accepted \in 0..o.scheduled
    /\ o.rejected = (o.accepted < o.scheduled)
    /\ o.scheduled <= a.schedule.cap /\ Len(a.rows) = o.scheduled + 1
    /\ \A i \in 1..o.scheduled : a.draft.confidences[i] >= a.schedule.least
    /\ \A i \in 1..o.accepted + 1 : FirstOfGreatest(a.rows[i], Vocabulary, o.emitted[i])
    /\ \A i \in 1..o.accepted : o.emitted[i] = a.draft.tokens[i]
    /\ o.accepted < o.scheduled => o.emitted[o.accepted + 1] # a.draft.tokens[o.accepted + 1]

\* What the rows' loops have found.
Marks(a) == [r \in DOMAIN a.rows |-> GreedyArgmax(a.rows[r])]

LEMMA OutcomeContinues ==
    ASSUME NEW a, AskedValid(a), CpuVerify(a).ok
    PROVE  Continues(a, CpuVerify(a))
<1> DEFINE n == ScheduledLen(a.draft, a.schedule)
           best == [r \in DOMAIN Marks(a) |-> Marks(a)[r].best]
           t == a.draft.tokens
           ok == [i \in 1..n |-> t[i] = best[i]]
           k == Leading(n, ok)
           o == CpuVerify(a)
<1>1. /\ Len(a.rows) = n + 1 /\ {r \in DOMAIN Marks(a) : Marks(a)[r].bad >= 0} = {}
      /\ o = VerifyScheduledDraft(a.draft, a.schedule, best)
  <2>1. o = Outcome(a, Marks(a))
    BY DEF CpuVerify, Marks
  <2>2. \A what, where : ~Refusal(what, where).ok
    BY DEF Refusal
  <2>3. Outcome(a, Marks(a)).ok
    BY <2>1
  <2> DEFINE spoiled == {r \in DOMAIN Marks(a) : Marks(a)[r].bad >= 0}
             accept == VerifyScheduledDraft(a.draft, a.schedule, best)
  <2>4. Outcome(a, Marks(a)) =
          IF Outside(a.draft) # {} THEN Refusal("token", <<Min(Outside(a.draft)), 0>>)
          ELSE IF Len(a.rows) # n + 1 THEN Refusal("length", <<n + 1, Len(a.rows)>>)
          ELSE IF spoiled # {} THEN Refusal("logit", <<Min(spoiled), Marks(a)[Min(spoiled)].bad>>)
          ELSE accept
    BY DEF Outcome
  <2> HIDE DEF o, best, n, spoiled, accept
  <2>5. Len(a.rows) = n + 1 /\ spoiled = {} /\ Outcome(a, Marks(a)) = accept
    BY <2>2, <2>3, <2>4, Zenon
  <2> QED
    BY <2>1, <2>5 DEF spoiled, accept
<1>2. /\ t \in Seq(Nat) /\ Len(t) \in Nat /\ n \in 0..Len(t) /\ n <= a.schedule.cap
      /\ \A i \in 1..n : a.draft.confidences[i] >= a.schedule.least
      /\ DOMAIN a.rows = 1..n + 1 /\ \A r \in 1..n + 1 : a.rows[r] \in LogitRows
  <2>1. a.rows \in Seq(LogitRows) /\ \A r \in 1..Len(a.rows) : a.rows[r] \in LogitRows
    BY AskedTypes
  <2> QED
    BY <1>1, <2>1, AskedTypes, ScheduledOf
<1>3. ASSUME NEW r \in 1..n + 1
      PROVE  FirstOfGreatest(a.rows[r], Vocabulary, best[r]) /\ best[r] \in Nat
  <2>1. r \in DOMAIN Marks(a) /\ Marks(a)[r] = GreedyArgmax(a.rows[r]) /\ best[r] = GreedyArgmax(a.rows[r]).best
    BY <1>2 DEF Marks
  <2>2. GreedyArgmax(a.rows[r]) \in Visited /\ ~(GreedyArgmax(a.rows[r]).bad >= 0)
    BY <1>1, <1>2, <2>1, ArgmaxAgrees
  <2>3. GreedyArgmax(a.rows[r]).bad = -1 /\ GreedyArgmax(a.rows[r]).best \in Nat
    BY <2>2, SpeculativeAssumption DEF Visited
  <2> QED
    BY <1>2, <2>1, <2>3, ArgmaxAgrees
<1>4. o = [ok |-> TRUE, drafted |-> Len(t), scheduled |-> n, accepted |-> k, rejected |-> k < n,
           emitted |-> Append(SubSeq(t, 1, k), best[k + 1])]
  BY <1>1 DEF VerifyScheduledDraft
<1> HIDE DEF best, t, n, o
<1>5. k \in 0..n /\ (\A j \in 1..k : ok[j]) /\ (k < n => ~ok[k + 1])
  <2>1. n \in Nat
    BY <1>2
  <2> HIDE DEF ok
  <2> QED
    BY <2>1, LeadingOf
<1>6. (\A j \in 1..k : t[j] = best[j]) /\ (k < n => t[k + 1] # best[k + 1])
  <2>1. \A j \in 1..k : j \in 1..n
    BY <1>2, <1>5
  <2>2. k < n => k + 1 \in 1..n
    BY <1>2, <1>5
  <2> HIDE DEF k
  <2> QED
    BY <1>5, <2>1, <2>2
<1> HIDE DEF k, ok
<1>7. k + 1 \in 1..n + 1 /\ best[k + 1] \in Nat /\ k \in Nat /\ k <= Len(t)
  BY <1>2, <1>3, <1>5
<1>8. /\ SubSeq(t, 1, k) \in Seq(Nat) /\ Len(SubSeq(t, 1, k)) = k
      /\ \A i \in 1..k : SubSeq(t, 1, k)[i] = t[i]
  BY <1>2, <1>7
<1> DEFINE e == Append(SubSeq(t, 1, k), best[k + 1])
<1>9. /\ e \in Seq(Nat) /\ Len(e) = k + 1 /\ e[k + 1] = best[k + 1]
      /\ \A i \in 1..k : e[i] = t[i]
  BY <1>7, <1>8
<1>10. \A i \in 1..k + 1 : e[i] = best[i]
  <2>1. \A i \in 1..k + 1 : i \in 1..k \/ i = k + 1
    BY <1>7
  <2> QED
    BY <1>6, <1>9, <2>1
<1>11. \A i \in 1..k + 1 : FirstOfGreatest(a.rows[i], Vocabulary, e[i])
  <2>1. \A i \in 1..k + 1 : i \in 1..n + 1
    BY <1>2, <1>5
  <2> QED
    BY <1>3, <1>10, <2>1
<1> HIDE DEF e
<1>12. o.drafted = Len(t) /\ o.scheduled = n /\ o.accepted = k /\ o.rejected = (k < n) /\ o.emitted = e
  BY <1>4 DEF e
<1>13. n \in Nat /\ k \in 0..n /\ n \in 0..Len(t) /\ Len(t) \in Nat
  BY <1>2, <1>5
<1>14. k < n => e[k + 1] # t[k + 1]
  BY <1>6, <1>9
<1> QED
  BY <1>1, <1>2, <1>9, <1>11, <1>12, <1>13, <1>14 DEF Continues, t, o

\* Counters that add up, as those of any sequence of recorded outcomes do.
Counters == [steps : Nat, drafted : Nat, scheduled : Nat, accepted : Nat, emitted : Nat, skipped : Nat,
             rejections : Nat]
Balanced(s) ==
    /\ s \in Counters
    /\ s.emitted = s.accepted + s.steps /\ s.drafted = s.scheduled + s.skipped
    /\ s.rejections <= s.steps /\ s.accepted + s.rejections <= s.scheduled

\* The counters after an outcome: a refusal leaves them.
Settled(s, o) == IF o.ok THEN Record(s, o) ELSE s

\* An accepted outcome keeps the counters balanced, whether it fits or not.
LEMMA SettledBalanced ==
    ASSUME NEW s, Balanced(s), NEW a, AskedValid(a)
    PROVE  Balanced(Settled(s, CpuVerify(a)))
<1> DEFINE o == CpuVerify(a)
           next == [f \in DOMAIN s |-> s[f] + Added(o)[f]]
<1>1. CASE ~o.ok
  BY <1>1 DEF Settled
<1>2. CASE o.ok
  <2>1. /\ o.drafted \in Nat /\ o.scheduled \in 0..o.drafted /\ o.accepted \in 0..o.scheduled
        /\ o.rejected = (o.accepted < o.scheduled) /\ Len(o.emitted) = o.accepted + 1
    BY <1>2, OutcomeContinues DEF Continues
  <2> HIDE DEF o
  <2>2. /\ s \in Counters /\ s.emitted = s.accepted + s.steps /\ s.drafted = s.scheduled + s.skipped
        /\ s.rejections <= s.steps /\ s.accepted + s.rejections <= s.scheduled
    BY DEF Balanced
  <2>3. Record(s, o) = s \/ Record(s, o) = next
    BY DEF Record
  <2>4. DOMAIN s = {"steps", "drafted", "scheduled", "accepted", "emitted", "skipped", "rejections"}
    BY <2>2 DEF Counters
  <2> DEFINE c == IF o.rejected THEN 1 ELSE 0
             raised == [steps |-> s.steps + 1, drafted |-> s.drafted + o.drafted,
                     scheduled |-> s.scheduled + o.scheduled, accepted |-> s.accepted + o.accepted,
                     emitted |-> s.emitted + Len(o.emitted),
                     skipped |-> s.skipped + (o.drafted - o.scheduled), rejections |-> s.rejections + c]
  <2>5. next = raised
    <3>1. DOMAIN raised = DOMAIN s /\ DOMAIN next = DOMAIN s
      BY <2>4
    <3>2. \A f \in DOMAIN s : next[f] = raised[f]
      BY <2>4 DEF Added
    <3>3. next = [f \in DOMAIN s |-> next[f]] /\ raised = [f \in DOMAIN raised |-> raised[f]]
      OBVIOUS
    <3> HIDE DEF next, raised
    <3> QED
      BY <3>1, <3>2, <3>3
  <2> DEFINE len == Len(o.emitted)
             more == o.drafted - o.scheduled
  <2>6. /\ o.drafted \in Nat /\ o.scheduled \in Nat /\ o.accepted \in Nat /\ len = o.accepted + 1
        /\ more \in Nat /\ o.drafted = o.scheduled + more
        /\ c \in 0..1 /\ o.accepted + c <= o.scheduled
    <3>1. /\ o.drafted \in Nat /\ o.scheduled \in 0..o.drafted /\ o.accepted \in 0..o.scheduled
          /\ len = o.accepted + 1
      BY <2>1
    <3>2. CASE o.accepted < o.scheduled
      <4>1. c \in 0..1
        OBVIOUS
      <4> QED
        BY <3>1, <3>2, <4>1
    <3>3. CASE ~(o.accepted < o.scheduled)
      <4>1. ~o.rejected
        BY <2>1, <3>3, Zenon
      <4>2. c = 0
        BY <4>1
      <4> HIDE DEF c
      <4> QED
        BY <3>1, <4>2
    <3> QED
      BY <3>2, <3>3
  <2> HIDE DEF c, next, len, more
  <2>7. Balanced(raised)
    <3>1. /\ s.steps \in Nat /\ s.drafted \in Nat /\ s.scheduled \in Nat /\ s.accepted \in Nat
          /\ s.emitted \in Nat /\ s.skipped \in Nat /\ s.rejections \in Nat
      BY <2>2 DEF Counters
    <3>2. raised \in Counters
      <4>1. /\ s.drafted + o.drafted \in Nat /\ s.scheduled + o.scheduled \in Nat
            /\ s.accepted + o.accepted \in Nat /\ s.emitted + len \in Nat /\ s.skipped + more \in Nat
            /\ s.rejections + c \in Nat /\ s.steps + 1 \in Nat
        BY <2>6, <3>1
      <4> QED
        BY <4>1 DEF Counters, len, more
    <3>3. /\ s.emitted + len = (s.accepted + o.accepted) + (s.steps + 1)
          /\ s.drafted + o.drafted = (s.scheduled + o.scheduled) + (s.skipped + more)
          /\ s.rejections + c <= s.steps + 1
          /\ (s.accepted + o.accepted) + (s.rejections + c) <= s.scheduled + o.scheduled
      BY <2>2, <2>6, <3>1
    <3> QED
      BY <3>2, <3>3 DEF Balanced, len, more
  <2> QED
    BY <1>2, <2>3, <2>5, <2>7 DEF Settled, o
<1> QED
  BY <1>1, <1>2

\* The counters of a backend are those of the other one, or one outcome ahead.
Counted ==
    /\ DOMAIN accepted = Backends /\ \A b \in Backends : Balanced(accepted[b])
    /\ \A b, c \in Backends :
         /\ (b \in DOMAIN verified <=> c \in DOMAIN verified) => accepted[b] = accepted[c]
         /\ b \in DOMAIN verified /\ c \notin DOMAIN verified =>
              accepted[b] = Settled(accepted[c], CpuVerify(asked))

SpeculativeInv ==
    /\ asked = NotAsked => targets = <<>> /\ verified = <<>>
    /\ asked # NotAsked =>
         /\ AskedValid(asked) /\ DOMAIN targets = DOMAIN asked.rows
         /\ \A r \in DOMAIN targets : targets[r] \in {Unwritten, RowInvocation(asked.rows[r])}
    /\ DOMAIN verified \subseteq Backends /\ \A b \in DOMAIN verified : verified[b] = CpuVerify(asked)
    /\ targets = [r \in DOMAIN targets |-> targets[r]]
    /\ Counted

LEMMA VerificationStarts == SpeculativeInit => SpeculativeInv
<1> SUFFICES ASSUME SpeculativeInit PROVE SpeculativeInv
  OBVIOUS
<1>1. /\ asked = NotAsked /\ targets = <<>> /\ verified = <<>> /\ DOMAIN verified = {}
      /\ accepted = [b \in Backends |-> NoCounts]
  BY DEF SpeculativeInit, SpeculativeIdle
<1>2. Balanced(NoCounts)
  BY DEF Balanced, NoCounts, Counters
<1>3. Counted
  BY <1>1, <1>2 DEF Counted
<1> QED
  BY <1>1, <1>3 DEF SpeculativeInv

\* A call starts from counters that agree.
LEMMA AskKeeps ==
    ASSUME SpeculativeInv, NEW d \in Drafts, NEW s \in Schedules, NEW rows \in TargetLogits, Ask(d, s, rows)
    PROVE  SpeculativeInv'
<1>1. /\ asked = NotAsked /\ verified = <<>> /\ DraftValid(d) /\ ScheduleValid(s) /\ verified' = <<>>
      /\ asked' = [draft |-> d, schedule |-> s, rows |-> rows] /\ accepted' = accepted
      /\ targets' = [r \in DOMAIN rows |-> Unwritten]
  BY DEF Ask, SpeculativeInv
<1>2. asked' # NotAsked
  <2>1. "schedule" \in DOMAIN asked' /\ "schedule" \notin DOMAIN NotAsked
    BY <1>1 DEF NotAsked
  <2> QED
    BY <2>1
<1>3. AskedValid(asked')
  BY <1>1 DEF AskedValid
<1>4. Counted'
  <2>1. DOMAIN verified = {} /\ DOMAIN verified' = {}
    BY <1>1
  <2> QED
    BY <1>1, <2>1 DEF SpeculativeInv, Counted
<1> QED
  BY <1>1, <1>2, <1>3, <1>4 DEF SpeculativeInv

\* A backend that answers what the CPU answers keeps up with the other one.
LEMMA VerifiedKeeps ==
    ASSUME SpeculativeInv, NEW b \in Backends, b \notin DOMAIN verified, asked # NotAsked,
           verified' = [c \in {b} \cup DOMAIN verified |-> IF c = b THEN CpuVerify(asked) ELSE verified[c]],
           accepted' = IF CpuVerify(asked).ok THEN [accepted EXCEPT ![b] = Record(@, CpuVerify(asked))]
                       ELSE accepted,
           UNCHANGED <<asked, targets>>
    PROVE  SpeculativeInv'
<1> DEFINE o == CpuVerify(asked)
<1>0. AskedValid(asked) /\ asked' = asked /\ targets' = targets /\ Counted
  BY DEF SpeculativeInv
<1>1. /\ DOMAIN accepted' = Backends /\ accepted'[b] = Settled(accepted[b], o)
      /\ \A c \in Backends \ {b} : accepted'[c] = accepted[c]
  <2> HIDE DEF o
  <2>1. accepted' = IF o.ok THEN [accepted EXCEPT ![b] = Record(@, o)] ELSE accepted
    BY DEF o
  <2> QED
    BY <1>0, <2>1 DEF Counted, Settled
<1>2. DOMAIN verified' = {b} \cup DOMAIN verified /\ \A c \in DOMAIN verified' : verified'[c] = o
  BY DEF SpeculativeInv
<1>3. CpuVerify(asked') = o
  BY <1>0
<1> HIDE DEF o
<1>4. Balanced(Settled(accepted[b], o))
  BY <1>0, SettledBalanced DEF Counted, o
<1>5. \A c \in Backends : Balanced(accepted'[c])
  BY <1>0, <1>1, <1>4 DEF Counted
<1>6. ASSUME NEW c \in Backends, NEW e \in Backends
      PROVE  /\ (c \in DOMAIN verified' <=> e \in DOMAIN verified') => accepted'[c] = accepted'[e]
             /\ c \in DOMAIN verified' /\ e \notin DOMAIN verified' => accepted'[c] = Settled(accepted'[e], o)
  <2>1. \A x, y \in Backends :
          /\ (x \in DOMAIN verified <=> y \in DOMAIN verified) => accepted[x] = accepted[y]
          /\ x \in DOMAIN verified /\ y \notin DOMAIN verified => accepted[x] = Settled(accepted[y], o)
    BY <1>0 DEF Counted, o
  <2>2. c = b \/ e = b \/ c = e
    BY DEF Backends
  <2> QED
    BY <1>1, <1>2, <2>1, <2>2
<1>7. Counted'
  BY <1>1, <1>3, <1>5, <1>6 DEF Counted
<1>8. DOMAIN verified' \subseteq Backends
  BY <1>2 DEF SpeculativeInv
<1> QED
  BY <1>0, <1>2, <1>3, <1>7, <1>8 DEF SpeculativeInv

\* Once the rows' invocations have run, WGPU answers what the CPU does; a
\* request that is refused before the dispatch is refused alike.
LEMMA WgpuAnswers ==
    ASSUME SpeculativeInv, asked # NotAsked, Dispatched => \A r \in DOMAIN targets : targets[r] # Unwritten
    PROVE  Outcome(asked, IF Dispatched THEN targets ELSE <<>>) = CpuVerify(asked)
<1>0. AskedValid(asked) /\ CpuVerify(asked) = Outcome(asked, Marks(asked))
  BY DEF SpeculativeInv, CpuVerify, Marks
<1>1. CASE Dispatched
  <2>1. /\ DOMAIN targets = DOMAIN asked.rows /\ targets = [r \in DOMAIN targets |-> targets[r]]
        /\ \A r \in DOMAIN targets : targets[r] = RowInvocation(asked.rows[r])
    BY <1>1 DEF SpeculativeInv
  <2>2. \A r \in DOMAIN asked.rows : RowInvocation(asked.rows[r]) = GreedyArgmax(asked.rows[r])
    BY <1>0, AskedTypes, ArgmaxAgrees
  <2>3. targets = Marks(asked)
    BY <2>1, <2>2 DEF Marks
  <2> QED
    BY <1>0, <1>1, <2>3
<1>2. CASE ~Dispatched
  <2>1. Outside(asked.draft) # {} \/ Len(asked.rows) # ScheduledLen(asked.draft, asked.schedule) + 1
    BY <1>2 DEF Dispatched
  <2>2. \A marks : Outcome(asked, marks) =
          IF Outside(asked.draft) # {} THEN Refusal("token", <<Min(Outside(asked.draft)), 0>>)
          ELSE Refusal("length", <<ScheduledLen(asked.draft, asked.schedule) + 1, Len(asked.rows)>>)
    BY <2>1, Zenon DEF Outcome
  <2>3. Outcome(asked, <<>>) = Outcome(asked, Marks(asked))
    BY <2>2, Zenon
  <2> QED
    BY <1>0, <1>2, <2>3
<1> QED
  BY <1>1, <1>2

LEMMA VerificationStep == SpeculativeInv /\ [SpeculativeNext]_speculativeVars => SpeculativeInv'
<1> SUFFICES ASSUME SpeculativeInv, [SpeculativeNext]_speculativeVars PROVE SpeculativeInv'
  OBVIOUS
<1>1. ASSUME NEW d \in Drafts, NEW s \in Schedules, NEW rows \in TargetLogits, Ask(d, s, rows)
      PROVE  SpeculativeInv'
  BY <1>1, AskKeeps
<1>2. CASE VerifyOnCpu
  <2>1. /\ verified' = [b \in {"cpu"} \cup DOMAIN verified |-> IF b = "cpu" THEN CpuVerify(asked) ELSE verified[b]]
        /\ accepted' = IF CpuVerify(asked).ok THEN [accepted EXCEPT !["cpu"] = Record(@, CpuVerify(asked))]
                       ELSE accepted
        /\ "cpu" \in Backends /\ "cpu" \notin DOMAIN verified /\ asked # NotAsked
        /\ UNCHANGED <<asked, targets>>
    BY <1>2 DEF VerifyOnCpu, Backends
  <2> QED
    BY <2>1, VerifiedKeeps
<1>3. ASSUME NEW r \in DOMAIN targets, Invoke(r) PROVE SpeculativeInv'
  <2>1. /\ targets' = [targets EXCEPT ![r] = RowInvocation(asked.rows[r])] /\ asked' = asked
        /\ verified' = verified /\ accepted' = accepted /\ asked # NotAsked
    BY <1>3 DEF Invoke, Dispatched
  <2>2. Counted'
    BY <2>1 DEF SpeculativeInv, Counted
  <2>3. /\ DOMAIN targets' = DOMAIN targets /\ targets' = [q \in DOMAIN targets' |-> targets'[q]]
        /\ \A q \in DOMAIN targets' : targets'[q] \in {Unwritten, RowInvocation(asked.rows[q])}
    BY <2>1 DEF SpeculativeInv
  <2> QED
    BY <2>1, <2>2, <2>3 DEF SpeculativeInv
<1>4. CASE VerifyOnWgpu
  <2>1. Outcome(asked, IF Dispatched THEN targets ELSE <<>>) = CpuVerify(asked)
    BY <1>4, WgpuAnswers DEF VerifyOnWgpu
  <2>2. /\ verified' = [b \in {"wgpu"} \cup DOMAIN verified |-> IF b = "wgpu" THEN CpuVerify(asked) ELSE verified[b]]
        /\ accepted' = IF CpuVerify(asked).ok THEN [accepted EXCEPT !["wgpu"] = Record(@, CpuVerify(asked))]
                       ELSE accepted
        /\ "wgpu" \in Backends /\ "wgpu" \notin DOMAIN verified /\ asked # NotAsked
        /\ UNCHANGED <<asked, targets>>
    BY <1>4, <2>1 DEF VerifyOnWgpu, Backends
  <2> QED
    BY <2>2, VerifiedKeeps
<1>5. CASE Answer
  <2>1. /\ asked' = NotAsked /\ targets' = <<>> /\ verified' = <<>> /\ accepted' = accepted
        /\ DOMAIN verified = Backends /\ DOMAIN verified' = {}
    BY <1>5 DEF Answer
  <2>2. Counted'
    BY <2>1 DEF SpeculativeInv, Counted
  <2> QED
    BY <2>1, <2>2 DEF SpeculativeInv
<1>6. CASE UNCHANGED speculativeVars
  <2>1. asked' = asked /\ targets' = targets /\ verified' = verified /\ accepted' = accepted
    BY <1>6 DEF speculativeVars
  <2>2. Counted'
    BY <2>1 DEF SpeculativeInv, Counted
  <2> QED
    BY <2>1, <2>2 DEF SpeculativeInv
<1> QED
  BY <1>1, <1>2, <1>3, <1>4, <1>5, <1>6 DEF SpeculativeNext

LEMMA VerificationHolds == SpeculativeSpec => []SpeculativeInv
<1>1. SpeculativeInv /\ [SpeculativeNext]_speculativeVars => SpeculativeInv'
  BY VerificationStep
<1> QED
  BY <1>1, VerificationStarts, PTL DEF SpeculativeSpec

\* The first of the greatest is the only one.
LEMMA GreedyIsFirst ==
    ASSUME NEW row \in LogitRows, NEW t, FirstOfGreatest(row, Vocabulary, t)
    PROVE  t = CHOOSE x \in 0..Vocabulary - 1 :
                 /\ \A u \in 0..Vocabulary - 1 : Number(row[u + 1]) <= Number(row[x + 1])
                 /\ \A u \in 0..x - 1 : Number(row[u + 1]) < Number(row[x + 1])
<1>1. Vocabulary \in Nat \ {0} /\ \A j \in 0..Vocabulary - 1 : Number(row[j + 1]) \in Int
  <2>1. Vocabulary \in Nat \ {0}
    BY SpeculativeAssumption
  <2>2. ASSUME NEW j \in 0..Vocabulary - 1 PROVE Number(row[j + 1]) \in Int
    <3>1. j + 1 \in 1..Vocabulary
      BY <2>1
    <3>2. row[j + 1] \in Patterns
      BY <3>1 DEF LogitRows
    <3> QED
      BY <3>2, KeysOrder
  <2> QED
    BY <2>1, <2>2
<1>2. ASSUME NEW x \in 0..Vocabulary - 1, FirstOfGreatest(row, Vocabulary, x) PROVE x = t
  <2>1. t \in 0..Vocabulary - 1
    BY DEF FirstOfGreatest
  <2>2. Number(row[x + 1]) = Number(row[t + 1])
    BY <1>1, <1>2, <2>1 DEF FirstOfGreatest
  <2>3. ~(x < t)
    <3> SUFFICES ASSUME x < t PROVE FALSE
      OBVIOUS
    <3>1. x \in 0..t - 1
      BY <2>1
    <3> QED
      BY <1>1, <2>1, <2>2, <3>1 DEF FirstOfGreatest
  <2>4. ~(t < x)
    <3> SUFFICES ASSUME t < x PROVE FALSE
      OBVIOUS
    <3>1. t \in 0..x - 1
      BY <2>1
    <3> QED
      BY <1>1, <1>2, <2>1, <2>2, <3>1 DEF FirstOfGreatest
  <2> QED
    BY <2>1, <2>3, <2>4
<1>3. t \in 0..Vocabulary - 1
  BY DEF FirstOfGreatest
<1> QED
  BY <1>2, <1>3 DEF FirstOfGreatest

\* Any sequence of calls on both backends, with their invocations in any order.
THEOREM SpeculationHolds == SpeculativeSpec => []VerifyGreedy
<1>1. SpeculativeInv => VerifyGreedy
  <2> SUFFICES ASSUME SpeculativeInv PROVE VerifyGreedy
    OBVIOUS
  <2>1. \A b \in Backends :
          LET s == accepted[b]
          IN /\ s.emitted = s.accepted + s.steps /\ s.drafted = s.scheduled + s.skipped
             /\ s.accepted <= s.scheduled /\ s.rejections <= s.steps
             /\ s.accepted + s.rejections <= s.scheduled
    <3> TAKE b \in Backends
    <3>1. Balanced(accepted[b])
      BY DEF SpeculativeInv, Counted
    <3> QED
      BY <3>1 DEF Balanced, Counters
  <2>2. ASSUME DOMAIN verified = Backends
        PROVE  /\ verified["cpu"] = verified["wgpu"] /\ accepted["cpu"] = accepted["wgpu"]
               /\ verified["cpu"] = CpuVerify(asked) /\ AskedValid(asked)
    <3>1. "cpu" \in Backends /\ "wgpu" \in Backends /\ verified # <<>>
      BY <2>2 DEF Backends
    <3>2. accepted["cpu"] = accepted["wgpu"]
      BY <2>2, <3>1 DEF SpeculativeInv, Counted
    <3> QED
      BY <2>2, <3>1, <3>2 DEF SpeculativeInv
  <2>3. ASSUME DOMAIN verified = Backends, verified["cpu"].ok
        PROVE  LET d == asked.draft
                   tokens == verified["cpu"].emitted
                   greedy(row) == CHOOSE t \in 0..Vocabulary - 1 :
                     /\ \A u \in 0..Vocabulary - 1 : Number(row[u + 1]) <= Number(row[t + 1])
                     /\ \A u \in 0..t - 1 : Number(row[u + 1]) < Number(row[t + 1])
               IN /\ tokens # <<>> /\ \A i \in DOMAIN tokens : tokens[i] = greedy(asked.rows[i])
                  /\ \A i \in 1..Len(tokens) - 1 : tokens[i] = d.tokens[i] /\ d.confidences[i] >= asked.schedule.least
                  /\ Len(tokens) <= asked.schedule.cap + 1
                  /\ \/ Len(tokens) = Len(asked.rows)
                     \/ tokens[Len(tokens)] # d.tokens[Len(tokens)]
    <3> DEFINE o == verified["cpu"]
               tokens == o.emitted
               n == o.accepted
    <3>1. AskedValid(asked) /\ Continues(asked, o)
      BY <2>2, <2>3, OutcomeContinues
    <3>2. asked.schedule.cap \in Nat /\ \A r \in 1..Len(asked.rows) : asked.rows[r] \in LogitRows
      BY <3>1, AskedTypes
    <3> HIDE DEF o
    <3>3. /\ tokens \in Seq(Nat) /\ Len(tokens) = n + 1 /\ n \in Nat /\ o.scheduled \in Nat /\ n <= o.scheduled
          /\ o.scheduled <= asked.schedule.cap /\ Len(asked.rows) = o.scheduled + 1
      BY <3>1 DEF Continues
    <3>4. DOMAIN tokens = 1..n + 1 /\ tokens # <<>> /\ Len(tokens) - 1 = n
      BY <3>3
    <3>5. \A i \in 1..n + 1 : FirstOfGreatest(asked.rows[i], Vocabulary, tokens[i]) /\ asked.rows[i] \in LogitRows
      <4>1. \A i \in 1..n + 1 : i \in 1..Len(asked.rows)
        BY <3>3
      <4> QED
        BY <3>1, <3>2, <4>1 DEF Continues
    <3>6. \A i \in 1..n : tokens[i] = asked.draft.tokens[i] /\ asked.draft.confidences[i] >= asked.schedule.least
      <4>1. \A i \in 1..n : i \in 1..o.scheduled
        BY <3>3
      <4> QED
        BY <3>1, <4>1 DEF Continues
    <3>7. n < o.scheduled => tokens[n + 1] # asked.draft.tokens[n + 1]
      BY <3>1 DEF Continues
    <3>8. Len(tokens) <= asked.schedule.cap + 1 /\ (n = o.scheduled \/ n < o.scheduled)
      BY <3>2, <3>3
    <3>9. \/ Len(tokens) = Len(asked.rows)
          \/ tokens[Len(tokens)] # asked.draft.tokens[Len(tokens)]
      BY <3>3, <3>7, <3>8
    <3> HIDE DEF tokens, n
    <3>10. \A i \in DOMAIN tokens :
             tokens[i] = CHOOSE t \in 0..Vocabulary - 1 :
               /\ \A u \in 0..Vocabulary - 1 : Number(asked.rows[i][u + 1]) <= Number(asked.rows[i][t + 1])
               /\ \A u \in 0..t - 1 : Number(asked.rows[i][u + 1]) < Number(asked.rows[i][t + 1])
      BY <3>4, <3>5, GreedyIsFirst
    <3> QED
      BY <3>4, <3>6, <3>8, <3>9, <3>10, Zenon DEF o, tokens
  <2> QED
    BY <2>1, <2>2, <2>3 DEF VerifyGreedy
<1> QED
  BY <1>1, VerificationHolds, PTL

-----------------------------------------------------------------------------
\* The F32 kernels.

KernelOps == {"relu", "sum", "add", "multiply", "project", "gather", "scatter"}
FiniteValues == Int \ {NonFinite}
WorkValid(w, old) ==
    /\ w.op \in KernelOps /\ w.left \in Seq(Int) /\ w.right \in Seq(Int) /\ w.idx \in Seq(Nat)
    /\ old \in Seq(Int) /\ Shaped(w, Len(old))

\* A scatter over finite values keeps its scratch finite, also when it stops at
\* a sum that is not.
LEMMA ScatterFinite ==
    ASSUME NEW w, NEW old, WorkValid(w, old), w.op = "scatter", AllFinite(w.left), AllFinite(old)
    PROVE  Scattered(w, old) \in [out : [1..Len(old) -> FiniteValues], bad : BOOLEAN]
<1> DEFINE A == [out : [1..Len(old) -> FiniteValues], bad : BOOLEAN]
           n == Len(w.idx)
           first == [out |-> old, bad |-> FALSE]
           P(f) == f = [i \in 0..Len(w.idx) |-> IF i = 0 THEN first ELSE ScatterAdd(w, f[i - 1], i)]
           v == ScatterLoop(w, old)
           G == [x \in A \X (1..n) |-> ScatterAdd(w, x[1], x[2])]
<1>1. /\ n \in Nat /\ Len(old) \in Nat /\ DOMAIN old = 1..Len(old)
      /\ \A i \in 1..Len(old) : old[i] \in FiniteValues
      /\ \A i \in 1..n : w.idx[i] + 1 \in 1..Len(old) /\ w.left[i] \in FiniteValues
  <2>1. /\ w.idx \in Seq(Nat) /\ w.left \in Seq(Int) /\ old \in Seq(Int) /\ Len(w.left) = Len(w.idx)
        /\ \A i \in DOMAIN w.idx : w.idx[i] < Len(old)
    BY DEF WorkValid, Shaped
  <2>2. \A i \in 1..n : w.idx[i] \in Nat /\ w.idx[i] < Len(old) /\ w.left[i] \in Int /\ w.left[i] # NonFinite
    BY <2>1 DEF AllFinite, Finite
  <2>3. \A i \in 1..Len(old) : old[i] \in Int /\ old[i] # NonFinite
    BY <2>1 DEF AllFinite, Finite
  <2>4. n \in Nat /\ Len(old) \in Nat /\ DOMAIN old = 1..Len(old)
    BY <2>1
  <2>5. \A i \in 1..n : w.idx[i] + 1 \in 1..Len(old)
    <3> HIDE DEF n
    <3> QED
      BY <2>2, <2>4
  <2> QED
    BY <2>2, <2>3, <2>4, <2>5 DEF FiniteValues
<1>2. first \in A
  <2>1. old \in [1..Len(old) -> FiniteValues]
    <3>1. old = [i \in 1..Len(old) |-> old[i]]
      BY <1>1 DEF WorkValid
    <3> QED
      BY <1>1, <3>1
  <2> QED
    BY <2>1
<1>3. ASSUME NEW x \in A, NEW i \in 1..n PROVE ScatterAdd(w, x, i) \in A
  <2> DEFINE place == w.idx[i] + 1
             total == Plus(x.out[place], w.left[i])
  <2>1. x.out \in [1..Len(old) -> FiniteValues] /\ place \in 1..Len(old) /\ w.left[i] \in FiniteValues
    BY <1>1
  <2>2. total \in Int
    BY <2>1, NumericalAssumption DEF Plus, Round, NonFinite, FiniteValues
  <2>3. Finite(total) => total \in FiniteValues
    BY <2>2 DEF Finite, FiniteValues
  <2>4. ScatterAdd(w, x, i) =
          IF x.bad THEN x
          ELSE IF Finite(total) THEN [out |-> [x.out EXCEPT ![place] = total], bad |-> FALSE]
          ELSE [out |-> x.out, bad |-> TRUE]
    BY DEF ScatterAdd
  <2> HIDE DEF place, total
  <2>5. Finite(total) => [x.out EXCEPT ![place] = total] \in [1..Len(old) -> FiniteValues]
    BY <2>1, <2>3
  <2> QED
    BY <2>1, <2>4, <2>5
<1>4. G \in [A \X (1..n) -> A] /\ \A x \in A, i \in 1..n : G[<<x, i>>] = ScatterAdd(w, x, i)
  <2> HIDE DEF A
  <2> QED
    BY <1>3
<1> HIDE DEF A, G, first
<1>5. LoopRuns(A, n, first, G)
  BY <1>1, <1>2, <1>4, LoopHasValues, Zenon
<1>6. PICK f \in [0..n -> A] : f[0] = first /\ \A i \in 1..n : f[i] = G[<<f[i - 1], i>>]
  BY <1>5 DEF LoopRuns
<1>7. P(f)
  <2>1. \A i \in 0..n : i # 0 => f[i - 1] \in A /\ i \in 1..n
    BY <1>1
  <2>2. \A i \in 0..n : f[i] = IF i = 0 THEN first ELSE ScatterAdd(w, f[i - 1], i)
    BY <1>4, <1>6, <2>1
  <2> QED
    BY <1>6, <2>2
<1>8. v = CHOOSE g : P(g)
  BY Zenon DEF ScatterLoop, first
<1>9. P(v)
  <2> HIDE DEF P, v
  <2> QED
    BY <1>7, <1>8, Zenon
<1>10. \A g : P(g) => /\ g = [i \in 0..n |-> g[i]] /\ g[0] = first
                      /\ \A i \in 1..n : g[i] = ScatterAdd(w, g[i - 1], i)
  BY <1>1
<1>11. /\ v = [i \in 0..n |-> v[i]] /\ v[0] = first
       /\ \A i \in 1..n : v[i] = ScatterAdd(w, v[i - 1], i)
  BY <1>9, <1>10
<1> HIDE DEF P, v
<1>12. v \in [0..n -> A]
  <2>1. v[0] \in A /\ \A i \in 1..n : v[i - 1] \in A => v[i] \in A
    BY <1>2, <1>3, <1>11
  <2> QED
    BY <1>1, <1>11, <2>1, LoopStays
<1>13. Scattered(w, old) = v[n] /\ n \in 0..n
  BY <1>1 DEF Scattered, v
<1> QED
  BY <1>12, <1>13 DEF A

\* A kernel without a status word writes nothing but finite inputs.
LEMMA UnflaggedFinite ==
    ASSUME NEW w, NEW old, WorkValid(w, old), w.op \in {"relu", "gather"}, AllFinite(w.left)
    PROVE  AllFinite([i \in DOMAIN old |-> Element(w, i)])
<1>1. /\ w.left \in Seq(Int) /\ old \in Seq(Int) /\ DOMAIN old = 1..Len(old) /\ DOMAIN w.left = 1..Len(w.left)
      /\ Len(old) = Outputs(w) /\ w.op # "scatter" /\ w.idx \in Seq(Nat) /\ Len(w.left) \in Nat
  BY DEF WorkValid, Shaped
<1>2. \A i \in DOMAIN w.left : w.left[i] # NonFinite
  BY DEF AllFinite, Finite
<1>3. CASE w.op = "relu"
  <2>1. \A i \in DOMAIN old : i \in DOMAIN w.left /\ Element(w, i) = Relu(w, i)
    BY <1>1, <1>3 DEF Outputs, Element
  <2>2. \A i \in DOMAIN old : Element(w, i) # NonFinite
    BY <1>2, <2>1, NumericalAssumption DEF Relu, NonFinite
  <2> QED
    BY <2>2 DEF AllFinite, Finite
<1>4. CASE w.op = "gather"
  <2>1. \A i \in DOMAIN old : i \in DOMAIN w.idx /\ Element(w, i) = w.left[w.idx[i] + 1]
    BY <1>1, <1>4 DEF Outputs, Element, Gathered
  <2>2. \A i \in DOMAIN w.idx : w.idx[i] < Len(w.left) /\ w.idx[i] \in Nat
    BY <1>1, <1>4 DEF WorkValid, Shaped
  <2>3. ASSUME NEW i \in DOMAIN old PROVE w.idx[i] + 1 \in DOMAIN w.left
    <3>1. w.idx[i] \in Nat /\ w.idx[i] < Len(w.left)
      BY <2>1, <2>2
    <3>2. Len(w.left) \in Nat
      BY <1>1
    <3>3. w.idx[i] + 1 \in 1..Len(w.left)
      BY <3>1, <3>2
    <3> QED
      BY <1>1, <3>3
  <2> QED
    BY <1>2, <2>1, <2>3 DEF AllFinite, Finite
<1> QED
  BY <1>3, <1>4

\* What goes up in steps of one, goes all the way.
LEMMA Upward ==
    ASSUME NEW n \in Nat, NEW Good, 0 \in Good, \A i \in 1..n : i - 1 \in Good => i \in Good
    PROVE  \A i \in 0..n : i \in Good
<1> DEFINE v == [i \in 0..n |-> i]
<1>1. v = [i \in 0..n |-> v[i]] /\ v[0] \in Good /\ \A i \in 1..n : v[i - 1] \in Good => v[i] \in Good
  OBVIOUS
<1> HIDE DEF v
<1>2. v \in [0..n -> Good]
  BY <1>1, LoopStays
<1> QED
  BY <1>2 DEF v

\* Multiples of a natural number: the next one, and the smaller ones.
LEMMA Multiples ==
    ASSUME NEW n \in Nat, NEW m \in Nat
    PROVE  /\ n * m \in Nat /\ (n + 1) * m = n * m + m
           /\ \A i \in 0..n : i * m \in Nat /\ i * m <= n * m
<1>1. \A a, b \in Nat : a * b \in Nat
  OBVIOUS
<1>2. (n + 1) * m = n * m + m
  OBVIOUS
<1>3. ASSUME NEW i \in 0..n PROVE i * m \in Nat /\ i * m <= n * m
  <2>1. i \in Nat /\ n - i \in Nat
    OBVIOUS
  <2>2. i * m \in Nat /\ (n - i) * m \in Nat
    BY <1>1, <2>1
  <2>3. n * m = i * m + (n - i) * m
    BY <2>1
  <2> QED
    BY <2>2, <2>3
<1> QED
  BY <1>1, <1>2, <1>3

\* One step of a column from sums that are close: both ends finite, they are
\* close still, by one slip more.
LEMMA FmaClose ==
    ASSUME NEW a \in FiniteValues, NEW b \in FiniteValues, NEW x \in Int, NEW c \in Int, NEW far \in Nat,
           Finite(x) /\ Finite(c) => x - c \in -far..far,
           NEW y \in DeviceFmas(a, b, x)
    PROVE  /\ Fma(a, b, c) \in Int /\ y \in Int
           /\ Finite(y) /\ Finite(Fma(a, b, c)) => y - Fma(a, b, c) \in -(far + Slip)..far + Slip
<1> DEFINE p == a * b
<1>0. Largest \in Nat /\ Slip \in Nat /\ p \in Int /\ Finite(a) /\ Finite(b) /\ a \in Int /\ b \in Int
  BY NumericalAssumption DEF FiniteValues, Finite
<1>1. /\ Times(a, b) = Round(p)
      /\ \A z \in Int : Fma(a, b, z) = IF Finite(z) THEN Round(p + z) ELSE NonFinite
  BY <1>0 DEF Times, Fma
<1>2. \/ y = Fma(a, b, x)
      \/ \E slip \in Slips(Times(a, b)) : y = Plus(Plus(Times(a, b), slip), x)
  BY DEF DeviceFmas
<1> HIDE DEF p
<1>3. Fma(a, b, c) \in Int /\ Fma(a, b, x) \in Int
  BY <1>0, <1>1 DEF Round, NonFinite
<1>4. CASE y = Fma(a, b, x)
  BY <1>0, <1>1, <1>3, <1>4 DEF Round, NonFinite, Finite
<1>5. ASSUME NEW slip \in Slips(Times(a, b)), y = Plus(Plus(Times(a, b), slip), x)
      PROVE  y \in Int /\ (Finite(y) /\ Finite(Fma(a, b, c)) => y - Fma(a, b, c) \in -(far + Slip)..far + Slip)
  <2>1. slip \in Int /\ -Slip <= slip /\ slip <= Slip
    BY <1>0 DEF Slips
  <2> QED
    BY <1>0, <1>1, <1>3, <1>5, <2>1 DEF Round, NonFinite, Finite, Plus
<1> QED
  BY <1>2, <1>3, <1>4, <1>5

\* One step of an ample column stays as far from the limits as its products.
LEMMA FmaAmple ==
    ASSUME NEW a \in FiniteValues, NEW b \in FiniteValues, NEW x \in Int, NEW far \in Nat, NEW most \in Nat,
           x \in -far..far, far + most <= Largest, a * b \in -(most - Slip)..most - Slip,
           NEW y \in DeviceFmas(a, b, x)
    PROVE  y \in -(far + most)..far + most
<1> DEFINE p == a * b
<1>0. /\ Largest \in Nat /\ Slip \in Nat /\ p \in Int /\ Finite(a) /\ Finite(b) /\ Finite(x)
      /\ p \in -(most - Slip)..most - Slip /\ a \in Int /\ b \in Int
  BY NumericalAssumption DEF FiniteValues, Finite, NonFinite
<1>1. Times(a, b) = Round(p) /\ Fma(a, b, x) = Round(p + x)
  BY <1>0 DEF Times, Fma
<1>2. \/ y = Fma(a, b, x)
      \/ \E slip \in Slips(Times(a, b)) : y = Plus(Plus(Times(a, b), slip), x)
  BY DEF DeviceFmas
<1> HIDE DEF p
<1>3. Round(p) = p /\ Round(p + x) = p + x
  BY <1>0 DEF Round
<1>4. ASSUME NEW slip \in Slips(Times(a, b)), y = Plus(Plus(Times(a, b), slip), x)
      PROVE  y \in -(far + most)..far + most
  <2>1. slip \in Int /\ -Slip <= slip /\ slip <= Slip
    BY <1>0 DEF Slips
  <2> QED
    BY <1>0, <1>1, <1>3, <1>4, <2>1 DEF Round, NonFinite, Finite, Plus
<1> QED
  BY <1>0, <1>1, <1>2, <1>3, <1>4

\* The operands of a projection: every weight a column names is there.
ColumnValid(w, i) ==
    /\ Len(w.left) \in Nat \ {0}
    /\ \A row \in 1..Len(w.left) : w.left[row] \in FiniteValues /\ Weight(w, row, i) \in FiniteValues

LEMMA ColumnsValid ==
    ASSUME NEW w, NEW old, WorkValid(w, old), w.op = "project", CpuInputsFinite(w, old)
    PROVE  w.n = Len(old) /\ w.n \in Nat /\ \A i \in 1..w.n : ColumnValid(w, i)
<1> DEFINE k == Len(w.left)
<1>1. /\ w.left \in Seq(Int) /\ w.right \in Seq(Int) /\ old \in Seq(Int)
      /\ Len(old) = w.n /\ w.n # 0 /\ k # 0 /\ Len(w.right) = k * w.n
      /\ AllFinite(w.left) /\ AllFinite(w.right)
  BY DEF WorkValid, Shaped, Outputs, CpuInputsFinite
<1>2. k \in Nat \ {0} /\ w.n \in Nat \ {0} /\ Len(w.right) \in Nat
  BY <1>1
<1>3. /\ \A row \in 1..k : w.left[row] \in FiniteValues
      /\ \A cell \in 1..Len(w.right) : w.right[cell] \in FiniteValues
  BY <1>1 DEF AllFinite, Finite, FiniteValues
<1>4. ASSUME NEW i \in 1..w.n, NEW row \in 1..k PROVE (row - 1) * w.n + i \in 1..Len(w.right)
  <2> HIDE DEF k
  <2>1. row \in Nat /\ row - 1 \in Nat /\ row \in 0..k
    BY <1>2
  <2>2. (row - 1) * w.n \in Nat /\ row * w.n = (row - 1) * w.n + w.n
    BY <1>2, <2>1, Multiples
  <2>3. row * w.n <= k * w.n /\ k * w.n \in Nat
    BY <1>2, <2>1, Multiples
  <2> DEFINE lower == (row - 1) * w.n
             upper == row * w.n
             all == k * w.n
  <2>4. lower \in Nat /\ upper = lower + w.n /\ upper <= all /\ all = Len(w.right)
    BY <1>1, <2>2, <2>3 DEF k
  <2> HIDE DEF lower, upper, all
  <2>5. lower + i \in 1..all
    BY <1>2, <2>3, <2>4
  <2> QED
    BY <2>4, <2>5 DEF lower
<1> QED
  BY <1>1, <1>2, <1>3, <1>4 DEF ColumnValid, Weight

\* The sums the CPU has down a column.
LEMMA ColumnSumsAre ==
    ASSUME NEW w, NEW i, ColumnValid(w, i)
    PROVE  /\ ColumnSums(w, i)[0] = 0
           /\ \A row \in 0..Len(w.left) : ColumnSums(w, i)[row] \in Int
           /\ \A row \in 1..Len(w.left) :
                ColumnSums(w, i)[row] = Fma(w.left[row], Weight(w, row, i), ColumnSums(w, i)[row - 1])
<1> DEFINE n == Len(w.left)
           P(f) == f = [row \in 0..Len(w.left) |->
                          IF row = 0 THEN 0 ELSE Fma(w.left[row], Weight(w, row, i), f[row - 1])]
           v == ColumnSums(w, i)
           G == [x \in Int \X (1..n) |-> Fma(w.left[x[2]], Weight(w, x[2], i), x[1])]
<1>1. n \in Nat /\ \A row \in 1..n : w.left[row] \in Int /\ Weight(w, row, i) \in Int
  BY DEF ColumnValid, FiniteValues
<1>2. ASSUME NEW c \in Int, NEW row \in 1..n PROVE Fma(w.left[row], Weight(w, row, i), c) \in Int
  <2>1. w.left[row] \in Int /\ Weight(w, row, i) \in Int
    BY <1>1
  <2>2. \A a, b \in Int : a * b \in Int
    OBVIOUS
  <2> QED
    BY <2>1, <2>2, NumericalAssumption DEF Fma, Round, NonFinite
<1>3. G \in [Int \X (1..n) -> Int] /\ \A c \in Int, row \in 1..n : G[<<c, row>>] = Fma(w.left[row], Weight(w, row, i), c)
  BY <1>2
<1> HIDE DEF G
<1>4. PICK f \in [0..n -> Int] : f[0] = 0 /\ \A row \in 1..n : f[row] = G[<<f[row - 1], row>>]
  <2>1. LoopRuns(Int, n, 0, G)
    <3>1. 0 \in Int
      OBVIOUS
    <3> QED
      BY <1>1, <1>3, <3>1, LoopHasValues, Zenon
  <2> QED
    BY <2>1 DEF LoopRuns
<1>5. P(f)
  <2>1. \A row \in 0..n : row # 0 => f[row - 1] \in Int /\ row \in 1..n
    BY <1>1
  <2>2. \A row \in 0..n : f[row] = IF row = 0 THEN 0 ELSE Fma(w.left[row], Weight(w, row, i), f[row - 1])
    BY <1>3, <1>4, <2>1
  <2> QED
    BY <1>4, <2>2
<1>6. v = CHOOSE g : P(g)
  BY Zenon DEF ColumnSums
<1>7. P(v)
  <2> HIDE DEF P, v
  <2> QED
    BY <1>5, <1>6, Zenon
<1>8. \A g : P(g) => /\ g = [row \in 0..n |-> g[row]] /\ g[0] = 0
                     /\ \A row \in 1..n : g[row] = Fma(w.left[row], Weight(w, row, i), g[row - 1])
  <2> TAKE g
  <2> HAVE P(g)
  <2> DEFINE value(row) == IF row = 0 THEN 0 ELSE Fma(w.left[row], Weight(w, row, i), g[row - 1])
  <2>1. g = [row \in 0..n |-> value(row)]
    OBVIOUS
  <2>2. value(0) = 0 /\ 0 \in 0..n /\ \A row \in 1..n : row \in 0..n /\ row # 0
    BY <1>1
  <2>3. \A row \in 1..n : value(row) = Fma(w.left[row], Weight(w, row, i), g[row - 1])
    BY <2>2
  <2> HIDE DEF value, n, P
  <2> QED
    BY <2>1, <2>2, <2>3
<1>9. /\ v = [row \in 0..n |-> v[row]] /\ v[0] = 0
      /\ \A row \in 1..n : v[row] = Fma(w.left[row], Weight(w, row, i), v[row - 1])
  BY <1>7, <1>8
<1> HIDE DEF P, v
<1>10. v \in [0..n -> Int]
  <2> HIDE DEF n
  <2>1. v[0] \in Int /\ \A row \in 1..n : v[row - 1] \in Int => v[row] \in Int
    <3>1. v[0] \in Int
      BY <1>9
    <3>2. ASSUME NEW row \in 1..n, v[row - 1] \in Int PROVE v[row] \in Int
      <4>1. Fma(w.left[row], Weight(w, row, i), v[row - 1]) \in Int
        BY <1>2, <3>2
      <4>2. v[row] = Fma(w.left[row], Weight(w, row, i), v[row - 1])
        BY <1>9
      <4> QED
        BY <4>1, <4>2, Zenon
    <3> QED
      BY <3>1, <3>2
  <2> QED
    BY <1>1, <1>9, <2>1, LoopStays
<1> QED
  BY <1>9, <1>10 DEF v

\* As long as both are finite, a device's sum is within one slip per row of the CPU's.
LEMMA ColumnsClose ==
    ASSUME NEW w, NEW i, ColumnValid(w, i), NEW sums \in DeviceColumns(w, i)
    PROVE  LET k == Len(w.left)
           IN Finite(sums[k]) /\ Finite(Projected(w, i)) => sums[k] - Projected(w, i) \in -(k * Slip)..k * Slip
<1> DEFINE k == Len(w.left)
           cpu == ColumnSums(w, i)
           Close == {row \in 0..k : Finite(sums[row]) /\ Finite(cpu[row]) =>
                                      sums[row] - cpu[row] \in -(row * Slip)..row * Slip}
<1>1. k \in Nat /\ Slip \in Nat /\ 0 * Slip = 0
  BY NumericalAssumption DEF ColumnValid
<1>2. /\ sums[0] = 0 /\ \A row \in 0..k : sums[row] \in Int
      /\ \A row \in 1..k : sums[row] \in DeviceFmas(w.left[row], Weight(w, row, i), sums[row - 1])
  <2>1. /\ sums \in [0..k -> -Largest..NonFinite] /\ sums[0] = 0
        /\ \A row \in 1..k : sums[row] \in DeviceFmas(w.left[row], Weight(w, row, i), sums[row - 1])
    BY DEF DeviceColumns
  <2>2. \A x \in -Largest..NonFinite : x \in Int
    OBVIOUS
  <2> HIDE DEF k
  <2>3. \A row \in 0..k : sums[row] \in Int
    BY <2>1, <2>2
  <2> QED
    BY <2>1, <2>3
<1>3. /\ cpu[0] = 0 /\ \A row \in 0..k : cpu[row] \in Int
      /\ \A row \in 1..k : cpu[row] = Fma(w.left[row], Weight(w, row, i), cpu[row - 1])
  BY ColumnSumsAre
<1>4. 0 \in Close
  BY <1>1, <1>2, <1>3
<1> HIDE DEF cpu
<1>5. ASSUME NEW row \in 1..k, row - 1 \in Close PROVE row \in Close
  <2>1. row - 1 \in 0..k /\ row - 1 \in Nat /\ row \in 0..k /\ (row - 1) + 1 = row
    BY <1>1
  <2>2. (row - 1) * Slip \in Nat /\ row * Slip = (row - 1) * Slip + Slip
    BY <1>1, <2>1, Multiples
  <2>3. /\ Finite(sums[row - 1]) /\ Finite(cpu[row - 1]) =>
             sums[row - 1] - cpu[row - 1] \in -((row - 1) * Slip)..(row - 1) * Slip
        /\ sums[row - 1] \in Int /\ cpu[row - 1] \in Int
    BY <1>2, <1>3, <1>5, <2>1
  <2>4. w.left[row] \in FiniteValues /\ Weight(w, row, i) \in FiniteValues
    BY DEF ColumnValid
  <2>5. Finite(sums[row]) /\ Finite(Fma(w.left[row], Weight(w, row, i), cpu[row - 1])) =>
          sums[row] - Fma(w.left[row], Weight(w, row, i), cpu[row - 1])
            \in -((row - 1) * Slip + Slip)..(row - 1) * Slip + Slip
    BY <1>2, <2>2, <2>3, <2>4, FmaClose
  <2> QED
    BY <1>3, <2>1, <2>2, <2>5
<1>6. k \in Close
  <2> HIDE DEF Close, k
  <2>1. \A row \in 0..k : row \in Close
    BY <1>1, <1>4, <1>5, Upward
  <2> QED
    BY <1>1, <2>1
<1> QED
  BY <1>6 DEF Projected, cpu

\* In an ample projection no sum leaves the finite values.
LEMMA ColumnsAmple ==
    ASSUME NEW w, NEW i \in 1..w.n, ColumnValid(w, i), Ample(w)
    PROVE  /\ Finite(Projected(w, i))
           /\ \A sums \in DeviceColumns(w, i) : Finite(sums[Len(w.left)])
<1> DEFINE k == Len(w.left)
           cpu == ColumnSums(w, i)
<1>1. PICK most \in 0..Largest :
        /\ k * most <= Largest
        /\ \A row \in 1..k : w.left[row] * Weight(w, row, i) \in -(most - Slip)..most - Slip
  BY DEF Ample
<1>2. k \in Nat /\ most \in Nat /\ Largest \in Nat /\ 0 * most = 0 /\ k * most \in Nat
  <2>1. k \in Nat /\ most \in Nat /\ Largest \in Nat
    BY NumericalAssumption DEF ColumnValid
  <2> QED
    BY <2>1, Multiples
<1>3. ASSUME NEW s, s[0] = 0,
             \A row \in 1..k : s[row] \in DeviceFmas(w.left[row], Weight(w, row, i), s[row - 1])
      PROVE  Finite(s[k])
  <2> DEFINE Inside == {row \in 0..k : s[row] \in -(row * most)..row * most}
  <2>1. 0 \in Inside
    BY <1>2, <1>3
  <2>2. ASSUME NEW row \in 1..k, row - 1 \in Inside PROVE row \in Inside
    <3>1. row - 1 \in 0..k /\ row - 1 \in Nat /\ row \in 0..k /\ (row - 1) + 1 = row
      BY <1>2
    <3>2. (row - 1) * most \in Nat /\ row * most = (row - 1) * most + most
      BY <1>2, <3>1, Multiples
    <3>3. row * most <= k * most
      BY <1>2, <3>1, Multiples
    <3>4. s[row - 1] \in -((row - 1) * most)..(row - 1) * most /\ s[row - 1] \in Int
      BY <2>2, <3>2
    <3>5. (row - 1) * most + most <= Largest
      BY <1>1, <1>2, <3>2, <3>3
    <3>6. w.left[row] \in FiniteValues /\ Weight(w, row, i) \in FiniteValues
      BY DEF ColumnValid
    <3>7. /\ w.left[row] * Weight(w, row, i) \in -(most - Slip)..most - Slip
          /\ s[row] \in DeviceFmas(w.left[row], Weight(w, row, i), s[row - 1])
      BY <1>1, <1>3
    <3>8. s[row] \in -((row - 1) * most + most)..(row - 1) * most + most
      <4> HIDE DEF Inside, k
      <4> QED
        BY <1>2, <3>2, <3>4, <3>5, <3>6, <3>7, FmaAmple
    <3> QED
      BY <3>1, <3>2, <3>8
  <2>3. k \in Inside
    <3> HIDE DEF Inside, k
    <3>1. \A row \in 0..k : row \in Inside
      BY <1>2, <2>1, <2>2, Upward
    <3> QED
      BY <1>2, <3>1
  <2> QED
    BY <1>1, <1>2, <2>3 DEF Finite, NonFinite
<1>4. Finite(Projected(w, i))
  <2>1. cpu[0] = 0 /\ \A row \in 1..k : cpu[row] \in DeviceFmas(w.left[row], Weight(w, row, i), cpu[row - 1])
    BY ColumnSumsAre DEF DeviceFmas
  <2> HIDE DEF cpu, k
  <2>2. Finite(cpu[k])
    BY <1>3, <2>1
  <2> QED
    BY <2>2 DEF Projected, cpu, k
<1>5. ASSUME NEW sums \in DeviceColumns(w, i) PROVE Finite(sums[k])
  <2>1. sums[0] = 0 /\ \A row \in 1..k : sums[row] \in DeviceFmas(w.left[row], Weight(w, row, i), sums[row - 1])
    BY DEF DeviceColumns
  <2> HIDE DEF k
  <2> QED
    BY <1>3, <2>1
<1> QED
  BY <1>4, <1>5

\* The CPU accepts an ample projection, whatever the device does.
LEMMA AmpleAccepted ==
    ASSUME NEW w, NEW old, WorkValid(w, old), w.op = "project", CpuInputsFinite(w, old), Ample(w)
    PROVE  CpuRuns(w, old).ret = "ok"
<1> DEFINE cpu == [i \in 1..Len(old) |-> Element(w, i)]
<1>1. w.n = Len(old) /\ \A i \in 1..w.n : ColumnValid(w, i)
  BY ColumnsValid
<1>2. \A i \in 1..Len(old) : Finite(Projected(w, i))
  BY <1>1, ColumnsAmple
<1>3. AllFinite(cpu)
  BY <1>2 DEF AllFinite, Element
<1>4. ~CpuScratch(w, old).bad
  <2> DEFINE spoiled == ~AllFinite(cpu)
  <2>1. CpuScratch(w, old) = [out |-> cpu, bad |-> spoiled]
    BY DEF CpuScratch
  <2> HIDE DEF cpu, spoiled
  <2>2. CpuScratch(w, old).bad <=> spoiled
    BY <2>1
  <2> QED
    BY <1>3, <2>2 DEF spoiled
<1> QED
  BY <1>4 DEF CpuRuns

\* A call of the CPU ends with finite values or with what the output held.
LEMMA CpuKeeps ==
    ASSUME NEW w, NEW old, WorkValid(w, old)
    PROVE  /\ CpuRuns(w, old).ret = "ok" => AllFinite(CpuRuns(w, old).out)
           /\ CpuRuns(w, old).ret # "ok" => CpuRuns(w, old).out = old
           /\ CpuRuns(w, old).ret \in {"ok", "err"}
           /\ ~CpuInputsFinite(w, old) => CpuRuns(w, old).ret = "err"
<1> DEFINE scratch == CpuScratch(w, old)
<1>1. CpuInputsFinite(w, old) /\ ~scratch.bad => AllFinite(scratch.out)
  <2> SUFFICES ASSUME CpuInputsFinite(w, old), ~scratch.bad PROVE AllFinite(scratch.out)
    OBVIOUS
  <2>1. CASE w.op = "scatter"
    <3>1. scratch = Scattered(w, old)
      BY <2>1 DEF CpuScratch
    <3>2. scratch \in [out : [1..Len(old) -> FiniteValues], bad : BOOLEAN]
      BY <2>1, <3>1, ScatterFinite DEF CpuInputsFinite
    <3> HIDE DEF scratch
    <3> QED
      BY <3>2 DEF AllFinite, Finite, FiniteValues
  <2>2. CASE w.op # "scatter"
    <3> DEFINE out == [i \in 1..Len(old) |-> Element(w, i)]
               spoiled == ~AllFinite(out)
    <3>1. scratch = [out |-> out, bad |-> spoiled]
      BY <2>2 DEF CpuScratch
    <3> HIDE DEF out, spoiled, scratch
    <3>2. scratch.out = out /\ (scratch.bad <=> spoiled)
      BY <3>1
    <3> QED
      BY <3>2 DEF spoiled
  <2> QED
    BY <2>1, <2>2
<1> HIDE DEF scratch
<1>2. CpuRuns(w, old) = IF CpuInputsFinite(w, old) /\ ~scratch.bad THEN [ret |-> "ok", out |-> scratch.out]
                        ELSE [ret |-> "err", out |-> old]
  BY DEF CpuRuns, scratch
<1> QED
  BY <1>1, <1>2

\* But for a projection, a dispatch over operands that were validated computes
\* and refuses what the CPU does, and what it does not refuse is finite.
LEMMA DispatchAgrees ==
    ASSUME NEW w, NEW old, WorkValid(w, old), w.op # "project", CpuInputsFinite(w, old),
           NEW s, Len(s) = Len(old), w.op = "scatter" => s = old, NEW run \in DeviceRuns(w, s)
    PROVE  /\ ~run.bad => CpuRuns(w, old) = [ret |-> "ok", out |-> run.out] /\ AllFinite(run.out)
           /\ run.bad => CpuRuns(w, old) = [ret |-> "err", out |-> old]
<1> DEFINE out == [i \in 1..Len(old) |-> Element(w, i)]
<1>1. CpuRuns(w, old) = IF ~CpuScratch(w, old).bad THEN [ret |-> "ok", out |-> CpuScratch(w, old).out]
                        ELSE [ret |-> "err", out |-> old]
  BY DEF CpuRuns
<1>2. CpuRuns(w, old).ret = "ok" => AllFinite(CpuRuns(w, old).out)
  BY CpuKeeps
<1>3. CASE w.op = "scatter"
  <2>1. run = CpuScratch(w, old)
    BY <1>3 DEF DeviceRuns, CpuScratch
  <2> QED
    BY <1>1, <1>2, <2>1
<1>4. CASE w.op # "scatter"
  <2>1. DeviceOutputs(w, Len(s)) = {out}
    BY DEF DeviceOutputs
  <2>2. run = [out |-> out, bad |-> KernelFlags(w, out)]
    <3> HIDE DEF out
    <3> QED
      BY <1>4, <2>1 DEF DeviceRuns
  <2>3. CpuScratch(w, old) = [out |-> out, bad |-> ~AllFinite(out)]
    BY <1>4 DEF CpuScratch
  <2>4. KernelFlags(w, out) <=> ~AllFinite(out)
    <3>1. w.op \in {"relu", "gather"} => AllFinite(out)
      <4>1. DOMAIN old = 1..Len(old)
        BY DEF WorkValid
      <4> QED
        BY <4>1, UnflaggedFinite DEF CpuInputsFinite
    <3> HIDE DEF out
    <3> QED
      BY <1>4, <3>1 DEF KernelFlags
  <2> DEFINE flagged == KernelFlags(w, out)
             spoiled == ~AllFinite(out)
  <2>5. run = [out |-> out, bad |-> flagged] /\ CpuScratch(w, old) = [out |-> out, bad |-> spoiled]
    BY <2>2, <2>3
  <2>6. flagged <=> spoiled
    BY <2>4
  <2> HIDE DEF out, flagged, spoiled
  <2>7. run.out = out /\ CpuScratch(w, old).out = out /\ (run.bad <=> flagged) /\ (CpuScratch(w, old).bad <=> spoiled)
    BY <2>5
  <2> QED
    BY <1>1, <1>2, <2>6, <2>7
<1> QED
  BY <1>3, <1>4

\* What a dispatched projection leaves, accepted or not, and what the CPU does.
ProjectionLeaves(w, old, out, taken) ==
    /\ taken => AllFinite(out)
    /\ CpuInputsFinite(w, old) /\ Ample(w) => taken
    /\ CpuInputsFinite(w, old) /\ taken /\ CpuRuns(w, old).ret = "ok" =>
         \A i \in DOMAIN CpuRuns(w, old).out :
           out[i] - CpuRuns(w, old).out[i] \in -(Len(w.left) * Slip)..Len(w.left) * Slip

LEMMA DispatchProjects ==
    ASSUME NEW w, NEW old, WorkValid(w, old), w.op = "project",
           NEW s, Len(s) = Len(old), NEW run \in DeviceRuns(w, s)
    PROVE  ProjectionLeaves(w, old, run.out, ~run.bad)
<1> DEFINE k == Len(w.left)
           cpu == [i \in 1..Len(old) |-> Element(w, i)]
           spoiled == ~AllFinite(cpu)
<1>1. PICK out \in DeviceOutputs(w, Len(old)) : run = [out |-> out, bad |-> KernelFlags(w, out)]
  BY DEF DeviceRuns
<1>2. /\ DOMAIN out = 1..Len(old)
      /\ \A i \in 1..Len(old) : \E sums \in DeviceColumns(w, i) : out[i] = sums[k]
  BY DEF DeviceOutputs
<1>3. run.out = out /\ (run.bad <=> ~AllFinite(out))
  <2> DEFINE flagged == KernelFlags(w, out)
  <2>1. flagged <=> ~AllFinite(out)
    BY DEF KernelFlags
  <2>2. run = [out |-> out, bad |-> flagged]
    BY <1>1
  <2> HIDE DEF flagged
  <2>3. run.out = out /\ (run.bad <=> flagged)
    BY <2>2
  <2> QED
    BY <2>1, <2>3
<1>4. /\ CpuScratch(w, old) = [out |-> cpu, bad |-> spoiled]
      /\ \A i \in 1..Len(old) : cpu[i] = Projected(w, i)
  BY DEF CpuScratch, Element
<1> HIDE DEF cpu, spoiled
<1>5. CpuScratch(w, old).out = cpu /\ (CpuScratch(w, old).bad <=> spoiled)
  BY <1>4
<1>6. CpuInputsFinite(w, old) => CpuRuns(w, old) = IF spoiled THEN [ret |-> "err", out |-> old]
                                                   ELSE [ret |-> "ok", out |-> cpu]
  BY <1>5 DEF CpuRuns
<1>7. DOMAIN cpu = 1..Len(old)
  BY DEF cpu
<1>8. ASSUME CpuInputsFinite(w, old) PROVE w.n = Len(old) /\ \A i \in 1..Len(old) : ColumnValid(w, i)
  BY <1>8, ColumnsValid
<1>9. ASSUME CpuInputsFinite(w, old), Ample(w) PROVE AllFinite(out)
  <2>1. \A i \in 1..Len(old) : Finite(out[i])
    <3> TAKE i \in 1..Len(old)
    <3>1. ColumnValid(w, i) /\ i \in 1..w.n
      BY <1>8, <1>9
    <3>2. PICK sums \in DeviceColumns(w, i) : out[i] = sums[k]
      BY <1>2
    <3>3. Finite(sums[k])
      BY <1>9, <3>1, ColumnsAmple
    <3> QED
      BY <3>2, <3>3
  <2> QED
    BY <1>2, <2>1 DEF AllFinite
<1>10. ASSUME CpuInputsFinite(w, old), AllFinite(out), CpuRuns(w, old).ret = "ok"
       PROVE  \A i \in DOMAIN CpuRuns(w, old).out : out[i] - CpuRuns(w, old).out[i] \in -(k * Slip)..k * Slip
  <2>1. CpuRuns(w, old).out = cpu /\ AllFinite(cpu)
    BY <1>6, <1>10 DEF spoiled
  <2>2. ASSUME NEW i \in 1..Len(old) PROVE out[i] - cpu[i] \in -(k * Slip)..k * Slip
    <3>1. ColumnValid(w, i)
      BY <1>8, <1>10
    <3>2. PICK sums \in DeviceColumns(w, i) : out[i] = sums[k]
      BY <1>2
    <3>3. Finite(out[i]) /\ Finite(cpu[i]) /\ cpu[i] = Projected(w, i)
      BY <1>2, <1>4, <1>7, <1>10, <2>1 DEF AllFinite
    <3>4. sums[k] - Projected(w, i) \in -(k * Slip)..k * Slip
      BY <3>1, <3>2, <3>3, ColumnsClose
    <3> QED
      BY <3>2, <3>3, <3>4
  <2> QED
    BY <1>7, <2>1, <2>2
<1> QED
  BY <1>3, <1>9, <1>10 DEF ProjectionLeaves

\* What the call has done to scratch and status so far, and that it has not
\* touched its output.
KernelCall ==
    /\ WorkValid(work, output) /\ deviceOut = output /\ before = output
    /\ verdicts = [cpu |-> CpuRuns(work, output).ret, wgpu |-> "none"]
    /\ phase \in {"validate", "dispatch"} =>
         Len(scratchOut) = Len(output) /\ (work.op = "scatter" => scratchOut = output)
    /\ phase \in {"allocate", "validate"} => status = 0
    /\ phase = "dispatch" => (status = 0 <=> CpuInputsFinite(work, output)) /\ status \in {0, 1}
    /\ phase = "flag" =>
         /\ status = 0 => CpuInputsFinite(work, output) /\ AllFinite(scratchOut)
         /\ work.op # "project" =>
              /\ CpuRuns(work, output).ret = (IF status = 0 THEN "ok" ELSE "err")
              /\ status = 0 => scratchOut = CpuRuns(work, output).out
         /\ work.op = "project" => ProjectionLeaves(work, output, scratchOut, status = 0)

NumericalInv ==
    /\ phase \in {"allocate", "validate", "dispatch", "flag", "done"}
    /\ phase # "done" => KernelCall
    /\ KernelsAgree

LEMMA KernelsStart == NumericalInit => NumericalInv
<1> SUFFICES ASSUME NumericalInit PROVE NumericalInv
  OBVIOUS
<1>1. /\ work \in Works /\ Shaped(work, Len(output)) /\ deviceOut = output /\ before = output /\ status = 0 /\ phase = "allocate"
      /\ verdicts = [cpu |-> CpuRuns(work, output).ret, wgpu |-> "none"]
      /\ \E n \in 1..MaxLength :
           output \in (IF work.op = "scatter" THEN [1..n -> Values \cup {NonFinite}] ELSE {[i \in 1..n |-> Largest]})
  BY DEF NumericalInit, CpuAccepts
<1>2. \A n \in Nat : \A s \in [1..n -> Values \cup {NonFinite}] : s \in Seq(Int)
  <2>1. \A x \in Values \cup {NonFinite} : x \in Int
    BY NumericalAssumption DEF NonFinite
  <2> QED
    BY <2>1
<1>3. \A n : \A s \in Operands(n) : n \in Nat => s \in Seq(Int)
  BY <1>2 DEF Operands
<1>4. <<>> \in Seq(Int) /\ <<>> \in Seq(Nat) /\ MaxLength \in Nat /\ MaxOperand \in Nat
  BY NumericalAssumption
<1>5. \A s \in Indices : s \in Seq(Nat)
  BY <1>4 DEF Indices
<1>6. work.op \in KernelOps /\ work.left \in Seq(Int) /\ work.right \in Seq(Int) /\ work.idx \in Seq(Nat)
  BY <1>1, <1>3, <1>4, <1>5 DEF Works, KernelOps
<1>7. output \in Seq(Int)
  <2>1. PICK n \in 1..MaxLength :
          output \in (IF work.op = "scatter" THEN [1..n -> Values \cup {NonFinite}] ELSE {[i \in 1..n |-> Largest]})
    BY <1>1
  <2>2. n \in Nat /\ Largest \in Int
    BY <1>4, NumericalAssumption
  <2>3. [i \in 1..n |-> Largest] \in Seq(Int)
    BY <2>2
  <2> QED
    BY <1>2, <2>1, <2>2, <2>3
<1> QED
  BY <1>1, <1>6, <1>7 DEF NumericalInv, KernelCall, WorkValid, KernelsAgree

\* The call ends: what the CPU has done meanwhile is known from the start.
LEMMA ReturnKeeps ==
    ASSUME NumericalInv, phase # "done", NEW verdict, NumericalReturns(verdict),
           IF verdict = "ok" THEN AllFinite(deviceOut') ELSE deviceOut' = output,
           verdict \in {"ok", "err", "device"}, verdict = "ok" => CpuInputsFinite(work, output),
           work.op # "project" /\ verdict # "device" =>
             verdict = CpuRuns(work, output).ret /\ deviceOut' = CpuRuns(work, output).out,
           work.op = "project" /\ verdict # "device" =>
             ProjectionLeaves(work, output, IF verdict = "ok" THEN deviceOut' ELSE scratchOut, verdict = "ok")
    PROVE  NumericalInv'
<1> DEFINE cpu == CpuRuns(work, output)
<1>1. /\ phase' = "done" /\ verdicts' = [verdicts EXCEPT !.wgpu = verdict] /\ output' = cpu.out
      /\ work' = work /\ before' = before /\ KernelCall
  BY DEF NumericalReturns, NumericalInv
<1>2. verdicts'.wgpu = verdict /\ verdicts'.cpu = cpu.ret /\ before = output /\ WorkValid(work, output)
  BY <1>1 DEF KernelCall
<1>3. /\ cpu.ret = "ok" => AllFinite(cpu.out)
      /\ cpu.ret # "ok" => cpu.out = output
      /\ ~CpuInputsFinite(work, output) => cpu.ret = "err"
  BY <1>2, CpuKeeps
<1> HIDE DEF cpu
<1>4. \A ended \in {<<verdicts'.cpu, output'>>, <<verdicts'.wgpu, deviceOut'>>} :
        IF ended[1] = "ok" THEN AllFinite(ended[2]) ELSE ended[2] = before'
  BY <1>1, <1>2, <1>3
<1>5. work'.op # "project" /\ verdicts'.wgpu # "device" => verdicts'.wgpu = verdicts'.cpu /\ deviceOut' = output'
  BY <1>1, <1>2 DEF cpu
<1>6. ASSUME work.op = "project" PROVE ProjectionsAgree'
  <2> DEFINE left == IF verdict = "ok" THEN deviceOut' ELSE scratchOut
  <2>1. verdict # "device" => ProjectionLeaves(work, output, left, verdict = "ok")
    BY <1>6
  <2> HIDE DEF left
  <2>2. /\ CpuInputsFinite(work, output) /\ Ample(work) /\ verdict # "device" => verdict = "ok"
        /\ CpuInputsFinite(work, output) /\ verdict = "ok" /\ cpu.ret = "ok" =>
             \A i \in DOMAIN cpu.out : left[i] - cpu.out[i] \in -(Len(work.left) * Slip)..Len(work.left) * Slip
    BY <2>1 DEF ProjectionLeaves, cpu
  <2>3. verdict = "ok" => left = deviceOut'
    BY DEF left
  <2>4. CpuInputsFinite(work', before') <=> CpuInputsFinite(work, output)
    BY <1>1, <1>2
  <2>5. Ample(work') <=> Ample(work)
    BY <1>1
  <2>6. CpuInputsFinite(work, output) /\ Ample(work) => cpu.ret = "ok"
    <3> SUFFICES ASSUME CpuInputsFinite(work, output), Ample(work) PROVE cpu.ret = "ok"
      OBVIOUS
    <3> QED
      BY <1>2, <1>6, AmpleAccepted DEF cpu
  <2>7. Within(Len(work.left) * Slip)' <=>
          \A i \in DOMAIN cpu.out : deviceOut'[i] - cpu.out[i] \in -(Len(work.left) * Slip)..Len(work.left) * Slip
    BY <1>1 DEF Within
  <2> QED
    BY <1>1, <1>2, <1>3, <2>2, <2>3, <2>4, <2>5, <2>6, <2>7 DEF ProjectionsAgree
<1>7. KernelsAgree'
  BY <1>1, <1>4, <1>5, <1>6 DEF KernelsAgree
<1> QED
  BY <1>1, <1>7 DEF NumericalInv

LEMMA KernelsStep == NumericalInv /\ [NumericalNext]_numericalVars => NumericalInv'
<1> SUFFICES ASSUME NumericalInv, [NumericalNext]_numericalVars PROVE NumericalInv'
  OBVIOUS
<1>1. CASE Allocate
  <2>1. /\ phase = "allocate" /\ phase' = "validate" /\ KernelCall
        /\ scratchOut' = IF work.op = "scatter" THEN deviceOut ELSE [i \in DOMAIN deviceOut |-> 0]
        /\ UNCHANGED <<work, before, output, deviceOut, status, verdicts>>
    BY <1>1 DEF Allocate, NumericalInv
  <2>2. Len(scratchOut') = Len(output) /\ (work.op = "scatter" => scratchOut' = output)
    <3>1. deviceOut = output /\ output \in Seq(Int) /\ DOMAIN output = 1..Len(output) /\ Len(output) \in Nat
      BY <2>1 DEF KernelCall, WorkValid
    <3>2. Len([i \in 1..Len(output) |-> 0]) = Len(output)
      BY <3>1
    <3> QED
      BY <2>1, <3>1, <3>2
  <2>3. KernelCall'
    BY <2>1, <2>2 DEF KernelCall
  <2> QED
    BY <2>1, <2>3 DEF NumericalInv, KernelsAgree
<1>2. CASE Validate
  <2>1. /\ phase = "validate" /\ phase' = "dispatch" /\ KernelCall /\ status' = IF Validated THEN status ELSE 1
        /\ UNCHANGED <<work, before, output, deviceOut, scratchOut, verdicts>>
    BY <1>2 DEF Validate, NumericalInv
  <2>2. Validated <=> CpuInputsFinite(work, output)
    BY <2>1 DEF KernelCall, Validated, CpuInputsFinite
  <2>3. KernelCall'
    BY <2>1, <2>2 DEF KernelCall
  <2> QED
    BY <2>1, <2>3 DEF NumericalInv, KernelsAgree
<1>3. CASE Dispatch
  <2>1. /\ phase = "dispatch" /\ phase' = "flag" /\ KernelCall
        /\ UNCHANGED <<work, before, output, deviceOut, verdicts>>
    BY <1>3 DEF Dispatch, NumericalInv
  <2>2. PICK run \in DeviceRuns(work, scratchOut) :
          scratchOut' = run.out /\ status' = IF run.bad THEN 1 ELSE status
    BY <1>3 DEF Dispatch
  <2>3. /\ (status = 0 <=> CpuInputsFinite(work, output)) /\ status \in {0, 1} /\ WorkValid(work, output)
        /\ Len(scratchOut) = Len(output) /\ (work.op = "scatter" => scratchOut = output)
    BY <2>1 DEF KernelCall
  <2>4. status' = 0 <=> CpuInputsFinite(work, output) /\ ~run.bad
    BY <2>2, <2>3
  <2>5. CASE work.op # "project"
    <3>1. ~CpuInputsFinite(work, output) => CpuRuns(work, output).ret = "err"
      BY <2>3, CpuKeeps
    <3>2. CpuInputsFinite(work, output) =>
            /\ ~run.bad => CpuRuns(work, output) = [ret |-> "ok", out |-> run.out] /\ AllFinite(run.out)
            /\ run.bad => CpuRuns(work, output) = [ret |-> "err", out |-> output]
      BY <2>2, <2>3, <2>5, DispatchAgrees
    <3>3. /\ status' = 0 => AllFinite(scratchOut') /\ scratchOut' = CpuRuns(work, output).out
          /\ CpuRuns(work, output).ret = (IF status' = 0 THEN "ok" ELSE "err")
      BY <2>2, <2>4, <3>1, <3>2
    <3>4. KernelCall'
      BY <2>1, <2>4, <2>5, <3>3 DEF KernelCall, AllFinite
    <3> QED
      BY <2>1, <3>4 DEF NumericalInv, KernelsAgree
  <2>6. CASE work.op = "project"
    <3>1. ProjectionLeaves(work, output, run.out, ~run.bad)
      BY <2>2, <2>3, <2>6, DispatchProjects
    <3>2. ProjectionLeaves(work, output, scratchOut', status' = 0)
      BY <2>2, <2>4, <3>1 DEF ProjectionLeaves
    <3>3. status' = 0 => AllFinite(scratchOut')
      BY <3>2 DEF ProjectionLeaves
    <3>4. KernelCall'
      BY <2>1, <2>4, <2>6, <3>2, <3>3 DEF KernelCall, AllFinite
    <3> QED
      BY <2>1, <3>4 DEF NumericalInv, KernelsAgree
  <2> QED
    BY <2>5, <2>6
<1>4. CASE FlagAndCommit
  <2> DEFINE verdict == IF status = 0 THEN "ok" ELSE "err"
  <2>1. /\ phase = "flag" /\ KernelCall /\ NumericalReturns(verdict)
        /\ deviceOut' = IF status = 0 THEN scratchOut ELSE deviceOut
    BY <1>4 DEF FlagAndCommit, NumericalInv
  <2>2. /\ deviceOut = output /\ WorkValid(work, output)
        /\ status = 0 => CpuInputsFinite(work, output) /\ AllFinite(scratchOut)
        /\ work.op # "project" =>
              /\ CpuRuns(work, output).ret = verdict
              /\ status = 0 => scratchOut = CpuRuns(work, output).out
        /\ work.op = "project" => ProjectionLeaves(work, output, scratchOut, status = 0)
    BY <2>1 DEF KernelCall
  <2>3. CpuRuns(work, output).ret # "ok" => CpuRuns(work, output).out = output
    BY <2>2, CpuKeeps
  <2>4. (status = 0 <=> verdict = "ok") /\ verdict \in {"ok", "err"} /\ verdict # "device"
    OBVIOUS
  <2> HIDE DEF verdict
  <2>5. IF verdict = "ok" THEN AllFinite(deviceOut') ELSE deviceOut' = output
    BY <2>1, <2>2, <2>4
  <2>6. work.op # "project" => verdict = CpuRuns(work, output).ret /\ deviceOut' = CpuRuns(work, output).out
    BY <2>1, <2>2, <2>3, <2>4
  <2>7. work.op = "project" =>
          ProjectionLeaves(work, output, IF verdict = "ok" THEN deviceOut' ELSE scratchOut, verdict = "ok")
    BY <2>1, <2>2, <2>4 DEF ProjectionLeaves
  <2> QED
    BY <2>1, <2>2, <2>4, <2>5, <2>6, <2>7, ReturnKeeps
<1>5. CASE NumericalDeviceFails
  <2>1. phase # "done" /\ NumericalReturns("device") /\ deviceOut' = output
    BY <1>5 DEF NumericalDeviceFails, NumericalInv, KernelCall
  <2> QED
    BY <2>1, ReturnKeeps
<1>6. CASE UNCHANGED numericalVars
  BY <1>6 DEF numericalVars, NumericalInv, KernelCall, KernelsAgree, ProjectionsAgree, Within
<1> QED
  BY <1>1, <1>2, <1>3, <1>4, <1>5, <1>6 DEF NumericalNext

\* Any operation over values that are finite or not, however a device rounds a
\* projection, wherever it fails.
THEOREM KernelsHold == NumericalSpec => []KernelsAgree
<1>1. NumericalInv /\ [NumericalNext]_numericalVars => NumericalInv'
  BY KernelsStep
<1>2. NumericalInv => KernelsAgree
  BY DEF NumericalInv
<1> QED
  BY <1>1, <1>2, KernelsStart, PTL DEF NumericalSpec
================================================================================
