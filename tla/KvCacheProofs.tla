---------------------------- MODULE KvCacheProofs -----------------------------
(***************************************************************************)
(* TLAPS proofs about KvCache, for every number of layers, heads,          *)
(* positions, sources and appends: the stream never holds an operation on  *)
(* freed memory, a released append has left the stream, and a committed    *)
(* position holds the row its caller appended once the stream has got      *)
(* there.                                                                  *)
(***************************************************************************)
EXTENDS KvCache, SequenceTheorems, TLAPS

Ops == Copies \cup Events \cup Writes

\* What appending one operation to the stream does to its positions.
LEMMA AppendFacts ==
    ASSUME NEW S, NEW s \in Seq(S), NEW e \in S
    PROVE  /\ Append(s, e) \in Seq(S)
           /\ DOMAIN s = 1..Len(s) /\ Len(s) \in Nat
           /\ DOMAIN Append(s, e) = 1..(Len(s) + 1)
           /\ \A i \in 1..Len(s) : Append(s, e)[i] = s[i]
           /\ Append(s, e)[Len(s) + 1] = e
  OBVIOUS

\* What executing the head of the stream does to its positions.
LEMMA TailFacts ==
    ASSUME NEW S, NEW s \in Seq(S), s # <<>>
    PROVE  /\ Tail(s) \in Seq(S)
           /\ DOMAIN s = 1..Len(s) /\ Len(s) \in Nat \ {0}
           /\ DOMAIN Tail(s) = 1..(Len(s) - 1)
           /\ \A i \in 1..(Len(s) - 1) : Tail(s)[i] = s[i + 1]
  OBVIOUS

\* A step that leaves stream, ownership and the host's call alone keeps IInv.
LEMMA OwnershipUnchanged ==
    ASSUME IInv, TypeOK',
           UNCHANGED <<stream, status, res, host, held>>
    PROVE  IInv'
  BY DEF IInv, ReleasedIsDone, UnusedIsAbsent, CopySources, WritesHeld,
         EventIsLast, PendingHasEvent, HostOwns, EventPassed, OpOf

\* Init establishes the inductive invariant: an empty stream, nothing held.
LEMMA InitIInv == Init => IInv
  BY KvCacheAssumption, KvShapeAssumption
  DEF Init, IInv, TypeOK, ReleasedIsDone, UnusedIsAbsent, CopySources, WritesHeld,
      EventIsLast, PendingHasEvent, HostOwns, EventPassed, OpOf, NoAppend,
      HostStates, Copies, Events, Writes, Layers, Appends

\* A kernel of the caller joins the stream.
LEMMA WriteIInv ==
    ASSUME IInv, NEW b \in Sources, NEW p \in Payloads, WriteSource(b, p)
    PROVE  IInv'
<1> DEFINE e == [kind |-> "write", src |-> b, pay |-> p]
<1>1. e \in Ops /\ stream \in Seq(Ops) /\ stream' = Append(stream, e)
  BY DEF WriteSource, Writes, Ops, IInv, TypeOK
<1>2. UNCHANGED <<status, res, host, held>> /\ b \in held
  BY DEF WriteSource
<1>3. /\ stream' \in Seq(Ops)
      /\ DOMAIN stream = 1..Len(stream) /\ Len(stream) \in Nat
      /\ DOMAIN stream' = 1..(Len(stream) + 1)
      /\ \A i \in 1..Len(stream) : stream'[i] = stream[i]
      /\ stream'[Len(stream) + 1] = e
  BY <1>1, AppendFacts
<1>4. e.kind = "write" /\ e.src = b
  OBVIOUS
<1> HIDE DEF e
<1>5. TypeOK'
  BY <1>3, KvCacheAssumption, KvShapeAssumption DEF IInv, TypeOK, WriteSource, Ops
<1>6. \A a \in Appends : ~OpOf(stream'[Len(stream) + 1], a)
  BY <1>3, <1>4 DEF OpOf
<1>7. ReleasedIsDone' /\ UnusedIsAbsent'
  BY <1>2, <1>3, <1>6 DEF IInv, ReleasedIsDone, UnusedIsAbsent, OpOf
<1>8. CopySources' /\ WritesHeld'
  BY <1>2, <1>3, <1>4 DEF IInv, CopySources, WritesHeld
<1>9. EventIsLast'
  <2> SUFFICES ASSUME NEW i \in DOMAIN stream', NEW j \in DOMAIN stream',
                      i < j, stream'[i].kind = "event"
               PROVE  ~OpOf(stream'[j], stream'[i].id)
    BY DEF EventIsLast
  <2>1. i \in 1..Len(stream) /\ stream'[i] = stream[i]
    BY <1>3
  <2>2. CASE j = Len(stream) + 1
    BY <2>2, <1>3, <1>4 DEF OpOf
  <2>3. CASE j # Len(stream) + 1
    <3>1. j \in 1..Len(stream) /\ stream'[j] = stream[j]
      BY <2>3, <1>3
    <3> QED BY <2>1, <3>1, <1>3 DEF IInv, EventIsLast
  <2> QED BY <2>2, <2>3
<1>10. \A a \in Appends : EventPassed(a)' <=> EventPassed(a)
  BY <1>3, <1>4 DEF EventPassed
<1>11. PendingHasEvent'
  BY <1>2, <1>3, <1>6, <1>10 DEF IInv, PendingHasEvent
<1>12. HostOwns'
  <2>1. host.pc # "idle" => host.id \in Appends
    BY DEF IInv, TypeOK
  <2> QED BY <2>1, <1>2, <1>3, <1>6, <1>10 DEF IInv, HostOwns
<1> QED BY <1>5, <1>7, <1>8, <1>9, <1>11, <1>12 DEF IInv

\* A copy of the call in progress joins the stream.
LEMMA SubmitIInv == ASSUME IInv, SubmitCopy PROVE IInv'
<1> DEFINE h == CopyHead(host.next)
           p == CopyPlane(host.next)
           e == [kind |-> "copy", id |-> host.id, plane |-> p,
                 src |-> res[host.id][p], head |-> h, n |-> host.n,
                 dst |-> CellOf(host.layer, h, host.start)]
<1>1. /\ host.id \in Appends /\ host.next \in 1..CopyCount /\ host.layer \in Layers
      /\ host.n \in Nat /\ host.start \in Nat /\ host.pc = "submitting"
      /\ host \in HostStates
  BY KvCacheAssumption, KvShapeAssumption DEF SubmitCopy, IInv, TypeOK, HostStates, CopyCount
<1>2. h \in Heads /\ p \in Planes
  BY <1>1, KvCacheAssumption, KvShapeAssumption DEF CopyHead, CopyPlane, Heads, Planes, CopyCount
<1>3. CellOf(host.layer, h, host.start) \in Nat
  <2>1. host.layer \in Nat /\ h \in Nat
    BY <1>1, <1>2, KvCacheAssumption, KvShapeAssumption DEF Layers, Heads
  <2>2. host.layer * NumHeads \in Nat
    BY <2>1, KvCacheAssumption, KvShapeAssumption
  <2>3. (host.layer * NumHeads + h) * Capacity \in Nat
    BY <2>1, <2>2, KvCacheAssumption, KvShapeAssumption
  <2> QED BY <1>1, <2>3 DEF CellOf
<1>4. res[host.id][p] \in Sources /\ res[host.id][p] \in {res[host.id].key, res[host.id].value}
  BY <1>1, <1>2 DEF IInv, TypeOK, Planes
<1>5. e \in Ops /\ stream \in Seq(Ops) /\ stream' = Append(stream, e)
  BY <1>1, <1>2, <1>3, <1>4 DEF SubmitCopy, Copies, Ops, IInv, TypeOK
<1>6. /\ e.kind = "copy" /\ e.id = host.id
      /\ e.src \in {res[host.id].key, res[host.id].value}
  BY <1>4
<1> HIDE DEF e, h, p
<1>7. /\ stream' \in Seq(Ops)
      /\ DOMAIN stream = 1..Len(stream) /\ Len(stream) \in Nat
      /\ DOMAIN stream' = 1..(Len(stream) + 1)
      /\ \A i \in 1..Len(stream) : stream'[i] = stream[i]
      /\ stream'[Len(stream) + 1] = e
  BY <1>5, AppendFacts
<1>8. UNCHANGED <<lengths, status, res, held, cacheHeld, writes>>
  BY DEF SubmitCopy
<1>9. /\ host'.pc = "submitting" /\ host'.id = host.id /\ host' \in HostStates
      /\ host'.next = host.next + 1 /\ host'.layer = host.layer
      /\ host'.start = host.start /\ host'.n = host.n
  BY <1>1 DEF SubmitCopy, HostStates, CopyCount
<1>10. TypeOK'
  <2>1. host'.next \in 1..(CopyCount + 1)
    BY <1>1, <1>9, KvCacheAssumption, KvShapeAssumption DEF CopyCount
  <2>2. host.start + host.n <= Capacity
    BY <1>1 DEF IInv, TypeOK
  <2> QED BY <1>1, <1>7, <1>8, <1>9, <2>1, <2>2 DEF IInv, TypeOK, Ops
<1>11. status[host.id] = "inflight" /\ EventPassed(host.id)
  BY <1>1 DEF IInv, HostOwns
<1>12. ReleasedIsDone' /\ UnusedIsAbsent'
  BY <1>6, <1>7, <1>8, <1>11 DEF IInv, ReleasedIsDone, UnusedIsAbsent, OpOf
<1>13. CopySources' /\ WritesHeld'
  BY <1>6, <1>7, <1>8 DEF IInv, CopySources, WritesHeld
<1>14. EventIsLast'
  <2> SUFFICES ASSUME NEW i \in DOMAIN stream', NEW j \in DOMAIN stream',
                      i < j, stream'[i].kind = "event"
               PROVE  ~OpOf(stream'[j], stream'[i].id)
    BY DEF EventIsLast
  <2>1. i \in 1..Len(stream) /\ stream'[i] = stream[i]
    BY <1>7
  <2>2. CASE j = Len(stream) + 1
    BY <2>1, <2>2, <1>6, <1>7, <1>11 DEF OpOf, EventPassed
  <2>3. CASE j # Len(stream) + 1
    <3>1. j \in 1..Len(stream) /\ stream'[j] = stream[j]
      BY <2>3, <1>7
    <3> QED BY <2>1, <3>1, <1>7 DEF IInv, EventIsLast
  <2> QED BY <2>2, <2>3
<1>15. PendingHasEvent'
  BY <1>6, <1>7, <1>8, <1>11 DEF IInv, PendingHasEvent, EventPassed, OpOf
<1>16. HostOwns'
  <2>1. host'.next # 1
    BY <1>1, <1>9, KvCacheAssumption, KvShapeAssumption DEF CopyCount
  <2>2. \A a \in Appends : EventPassed(a) => EventPassed(a)'
    BY <1>6, <1>7 DEF EventPassed
  <2> QED BY <1>1, <1>8, <1>9, <1>11, <2>1, <2>2 DEF IInv, HostOwns
<1> QED BY <1>10, <1>12, <1>13, <1>14, <1>15, <1>16 DEF IInv

\* The event joins the stream and the handle is returned.
LEMMA CommitIInv == ASSUME IInv, Commit PROVE IInv'
<1> DEFINE e == [kind |-> "event", id |-> host.id]
<1>1. /\ host.id \in Appends /\ host.layer \in Layers /\ host.pc = "submitting"
      /\ host.n \in Nat /\ host.start \in Nat /\ host.start + host.n \in 0..Capacity
  BY KvCacheAssumption, KvShapeAssumption DEF Commit, IInv, TypeOK, HostStates
<1>2. e \in Ops /\ stream \in Seq(Ops) /\ stream' = Append(stream, e)
  BY <1>1 DEF Commit, Events, Ops, IInv, TypeOK
<1>3. e.kind = "event" /\ e.id = host.id
  OBVIOUS
<1> HIDE DEF e
<1>4. /\ stream' \in Seq(Ops)
      /\ DOMAIN stream = 1..Len(stream) /\ Len(stream) \in Nat
      /\ DOMAIN stream' = 1..(Len(stream) + 1)
      /\ \A i \in 1..Len(stream) : stream'[i] = stream[i]
      /\ stream'[Len(stream) + 1] = e
  BY <1>2, AppendFacts
<1>5. /\ UNCHANGED <<res, held, cacheHeld, writes>> /\ host' = NoAppend
      /\ status' = [status EXCEPT ![host.id] = "pending"]
      /\ lengths' = [lengths EXCEPT ![host.layer] = host.start + host.n]
  BY DEF Commit
<1>6. TypeOK'
  BY <1>1, <1>4, <1>5, KvCacheAssumption, KvShapeAssumption
     DEF IInv, TypeOK, HostStates, NoAppend, Ops
<1>7. status[host.id] = "inflight" /\ EventPassed(host.id)
      /\ \A a \in Appends : status[a] = "inflight" => a = host.id
  BY <1>1 DEF IInv, HostOwns
<1>8. ReleasedIsDone' /\ UnusedIsAbsent'
  <2>1. \A a \in Appends : status'[a] \in {"released", "unused"} =>
            a # host.id /\ status'[a] = status[a]
    BY <1>1, <1>5 DEF IInv, TypeOK
  <2> QED BY <1>3, <1>4, <2>1 DEF IInv, ReleasedIsDone, UnusedIsAbsent, OpOf
<1>9. CopySources' /\ WritesHeld'
  BY <1>3, <1>4, <1>5 DEF IInv, CopySources, WritesHeld
<1>10. EventIsLast'
  <2> SUFFICES ASSUME NEW i \in DOMAIN stream', NEW j \in DOMAIN stream',
                      i < j, stream'[i].kind = "event"
               PROVE  ~OpOf(stream'[j], stream'[i].id)
    BY DEF EventIsLast
  <2>1. i \in 1..Len(stream) /\ stream'[i] = stream[i]
    BY <1>4
  <2>2. CASE j = Len(stream) + 1
    BY <2>1, <2>2, <1>3, <1>4, <1>7 DEF OpOf, EventPassed
  <2>3. CASE j # Len(stream) + 1
    <3>1. j \in 1..Len(stream) /\ stream'[j] = stream[j]
      BY <2>3, <1>4
    <3> QED BY <2>1, <3>1, <1>4 DEF IInv, EventIsLast
  <2> QED BY <2>2, <2>3
<1>11. PendingHasEvent'
  <2> SUFFICES ASSUME NEW a \in Appends, status'[a] = "pending", EventPassed(a)'
               PROVE  \A i \in DOMAIN stream' : ~OpOf(stream'[i], a)
    BY DEF PendingHasEvent
  <2>1. a # host.id
    BY <1>3, <1>4 DEF EventPassed
  <2>2. status[a] = "pending" /\ EventPassed(a)
    BY <2>1, <1>1, <1>4, <1>5 DEF IInv, TypeOK, EventPassed
  <2> QED BY <2>1, <2>2, <1>3, <1>4 DEF IInv, PendingHasEvent, OpOf
<1>12. HostOwns'
  BY <1>1, <1>5, <1>7 DEF IInv, TypeOK, HostOwns, NoAppend
<1> QED BY <1>6, <1>8, <1>9, <1>10, <1>11, <1>12 DEF IInv

\* The device takes the head off the stream.
LEMMA DeviceIInv == ASSUME IInv, DeviceStep PROVE IInv'
<1>1. /\ UNCHANGED <<lengths, status, res, host, held, cacheHeld, writes>>
      /\ stream' = Tail(stream) /\ stream # <<>> /\ stream \in Seq(Ops)
  BY DEF DeviceStep, IInv, TypeOK, Ops
<1>2. /\ stream' \in Seq(Ops)
      /\ DOMAIN stream = 1..Len(stream) /\ Len(stream) \in Nat \ {0}
      /\ DOMAIN stream' = 1..(Len(stream) - 1)
      /\ \A i \in 1..(Len(stream) - 1) : stream'[i] = stream[i + 1]
  BY <1>1, TailFacts
<1>3. \A i \in DOMAIN stream' : i + 1 \in DOMAIN stream /\ stream'[i] = stream[i + 1]
  BY <1>2
<1>4. TypeOK'
  BY <1>1, <1>2 DEF IInv, TypeOK, Ops
<1>5. ReleasedIsDone' /\ UnusedIsAbsent' /\ CopySources' /\ WritesHeld'
  BY <1>1, <1>3
  DEF IInv, ReleasedIsDone, UnusedIsAbsent, CopySources, WritesHeld, OpOf
<1>6. EventIsLast'
  BY <1>2, <1>3 DEF IInv, EventIsLast
<1>7. \A a \in Appends : EventPassed(a) => EventPassed(a)'
  BY <1>3 DEF EventPassed
<1>8. PendingHasEvent'
  <2> SUFFICES ASSUME NEW a \in Appends, status[a] = "pending", EventPassed(a)',
                      NEW i \in DOMAIN stream', OpOf(stream'[i], a)
               PROVE  FALSE
    BY <1>1 DEF PendingHasEvent
  <2>1. i + 1 \in DOMAIN stream /\ OpOf(stream[i + 1], a) /\ i \in Nat /\ i >= 1
    BY <1>2, <1>3 DEF OpOf
  <2>2. ~EventPassed(a)
    BY <2>1 DEF IInv, PendingHasEvent
  <2>3. PICK k \in DOMAIN stream : stream[k].kind = "event" /\ stream[k].id = a
    BY <2>2 DEF EventPassed
  <2>4. k = 1
    <3>1. CASE k # 1
      <4>1. k - 1 \in DOMAIN stream' /\ stream'[k - 1] = stream[k]
        BY <3>1, <1>2
      <4> QED BY <4>1, <2>3 DEF EventPassed
    <3> QED BY <3>1
  <2> QED BY <2>1, <2>3, <2>4 DEF IInv, EventIsLast
<1>9. HostOwns'
  BY <1>1, <1>3, <1>7 DEF IInv, TypeOK, HostOwns, OpOf
<1> QED BY <1>4, <1>5, <1>6, <1>8, <1>9 DEF IInv

\* The steps that change who owns what and leave the stream alone.
LEMMA OwnershipIInv ==
    ASSUME IInv,
           \/ \E l \in Layers, ks, vs \in Sources : BeginAppend(l, ks, vs, SrcTokens[ks])
           \/ EnterFail \/ SubmitFail \/ DrainOk \/ DrainFail
           \/ \E a \in Appends : Retire(a) \/ Leak(a)
           \/ \E b \in Sources : DropSource(b)
    PROVE  IInv'
<1> USE DEF IInv
<1>1. ASSUME NEW l \in Layers, NEW ks \in Sources, NEW vs \in Sources,
             BeginAppend(l, ks, vs, SrcTokens[ks])
      PROVE  IInv'
  <2>1. PICK a \in Appends :
          /\ status[a] = "unused"
          /\ status' = [status EXCEPT ![a] = "inflight"]
          /\ res' = [res EXCEPT ![a] = [key |-> ks, value |-> vs]]
          /\ host' = [pc |-> "submitting", id |-> a, layer |-> l,
                      start |-> lengths[l], n |-> SrcTokens[ks],
                      next |-> IF SrcTokens[ks] = 0 THEN CopyCount + 1 ELSE 1]
    BY <1>1 DEF BeginAppend
  <2>2. /\ UNCHANGED <<lengths, stream, held, cacheHeld, writes>> /\ host.pc = "idle"
        /\ lengths[l] + SrcTokens[ks] <= Capacity
    BY <1>1 DEF BeginAppend
  <2>3. TypeOK'
    <3>1. SrcTokens[ks] \in Nat /\ lengths[l] \in Nat /\ l \in Nat /\ CopyCount \in Nat \ {0}
      BY KvCacheAssumption, KvShapeAssumption DEF TypeOK, Layers, CopyCount
    <3>2. /\ host'.id = a /\ host'.layer = l /\ host'.start + host'.n <= Capacity
          /\ host'.next \in 1..(CopyCount + 1)
      BY <2>1, <2>2, <3>1
    <3>3. host' \in HostStates
      BY <2>1, <3>1, <3>2 DEF HostStates
    <3>4. status' \in [Appends -> {"unused", "inflight", "pending", "released", "leaked"}]
      BY <2>1 DEF TypeOK
    <3>5. res' \in [Appends -> [key : Sources, value : Sources]]
      BY <2>1 DEF TypeOK
    <3> QED BY <2>2, <3>2, <3>3, <3>4, <3>5 DEF TypeOK
  <2>4. \A i \in DOMAIN stream : ~OpOf(stream[i], a)
    BY <2>1 DEF UnusedIsAbsent
  <2>5. ReleasedIsDone' /\ UnusedIsAbsent'
    BY <2>1, <2>2 DEF TypeOK, ReleasedIsDone, UnusedIsAbsent, OpOf
  <2>6. CopySources' /\ WritesHeld' /\ EventIsLast'
    BY <2>1, <2>2, <2>4 DEF TypeOK, CopySources, WritesHeld, EventIsLast, OpOf
  <2>7. PendingHasEvent'
    BY <2>1, <2>2 DEF TypeOK, PendingHasEvent, EventPassed, OpOf
  <2>8. HostOwns'
    BY <2>1, <2>2, <2>4 DEF TypeOK, HostOwns, EventPassed, OpOf
  <2> QED BY <2>3, <2>5, <2>6, <2>7, <2>8
<1>2. CASE EnterFail \/ DrainOk \/ DrainFail
  <2>1. /\ host.id \in Appends /\ host.pc # "idle" /\ status[host.id] = "inflight"
        /\ \A a \in Appends : status[a] = "inflight" => a = host.id
    BY <1>2 DEF EnterFail, DrainOk, DrainFail, TypeOK, HostOwns
  <2>2. /\ UNCHANGED <<lengths, stream, res, held, cacheHeld, writes>> /\ host' = NoAppend
        /\ \/ /\ status' = [status EXCEPT ![host.id] = "released"]
              /\ \A i \in DOMAIN stream : ~OpOf(stream[i], host.id)
           \/ status' = [status EXCEPT ![host.id] = "leaked"]
    BY <1>2, <2>1 DEF EnterFail, DrainOk, DrainFail, HostOwns
  <2>3. TypeOK'
    BY <2>1, <2>2, KvCacheAssumption, KvShapeAssumption DEF TypeOK, HostStates, NoAppend
  <2>4. ReleasedIsDone' /\ UnusedIsAbsent'
    BY <2>1, <2>2 DEF TypeOK, ReleasedIsDone, UnusedIsAbsent, OpOf
  <2>5. CopySources' /\ WritesHeld' /\ EventIsLast'
    BY <2>2 DEF CopySources, WritesHeld, EventIsLast, OpOf
  <2>6. PendingHasEvent'
    BY <2>1, <2>2 DEF TypeOK, PendingHasEvent, EventPassed, OpOf
  <2>7. HostOwns'
    BY <2>1, <2>2 DEF TypeOK, HostOwns, NoAppend
  <2> QED BY <2>3, <2>4, <2>5, <2>6, <2>7
<1>3. CASE SubmitFail
  <2>1. /\ UNCHANGED <<lengths, stream, status, res, held, cacheHeld, writes>>
        /\ host.pc = "submitting" /\ host' = [host EXCEPT !.pc = "draining"]
    BY <1>3 DEF SubmitFail
  <2>2. TypeOK'
    BY <2>1 DEF TypeOK, HostStates
  <2>3. host'.pc = "draining" /\ host'.id = host.id
    BY <2>1 DEF TypeOK, HostStates
  <2>4. HostOwns'
    BY <2>1, <2>3 DEF HostOwns, EventPassed
  <2> QED BY <2>1, <2>2, <2>4
      DEF ReleasedIsDone, UnusedIsAbsent, CopySources, WritesHeld, EventIsLast,
          PendingHasEvent, EventPassed, OpOf
<1>4. ASSUME NEW a \in Appends, Retire(a) \/ Leak(a) PROVE IInv'
  <2>1. /\ UNCHANGED <<lengths, stream, res, host, held, cacheHeld, writes>>
        /\ status[a] = "pending"
        /\ \/ /\ status' = [status EXCEPT ![a] = "released"]
              /\ \A i \in DOMAIN stream : ~OpOf(stream[i], a)
           \/ status' = [status EXCEPT ![a] = "leaked"]
    BY <1>4 DEF Retire, Leak, PendingHasEvent
  <2>2. TypeOK'
    BY <2>1 DEF TypeOK
  <2>3. ReleasedIsDone' /\ UnusedIsAbsent'
    BY <2>1 DEF TypeOK, ReleasedIsDone, UnusedIsAbsent, OpOf
  <2>4. CopySources' /\ WritesHeld' /\ EventIsLast'
    BY <2>1 DEF CopySources, WritesHeld, EventIsLast, OpOf
  <2>5. PendingHasEvent'
    BY <2>1 DEF TypeOK, PendingHasEvent, EventPassed, OpOf
  <2>6. HostOwns'
    BY <2>1 DEF TypeOK, HostOwns, EventPassed, OpOf
  <2> QED BY <2>2, <2>3, <2>4, <2>5, <2>6
<1>5. ASSUME NEW b \in Sources, DropSource(b) PROVE IInv'
  <2>1. /\ UNCHANGED <<lengths, stream, status, res, host, cacheHeld, writes>>
        /\ held' = held \ {b}
        /\ \A i \in DOMAIN stream : ~(stream[i].kind = "write" /\ stream[i].src = b)
    BY <1>5 DEF DropSource
  <2>2. TypeOK' /\ WritesHeld'
    BY <2>1 DEF TypeOK, WritesHeld
  <2> QED BY <2>1, <2>2
      DEF ReleasedIsDone, UnusedIsAbsent, CopySources, EventIsLast,
          PendingHasEvent, HostOwns, EventPassed, OpOf
<1> QED
  BY <1>1, <1>2, <1>3, <1>4, <1>5

\* Every step preserves the invariant.
LEMMA NextIInv == IInv /\ [Next]_vars => IInv'
<1> SUFFICES ASSUME IInv, [Next]_vars PROVE IInv'
  OBVIOUS
<1>1. ASSUME NEW b \in Sources, NEW p \in Payloads, WriteSource(b, p) PROVE IInv'
  BY <1>1, WriteIInv
<1>2. CASE DropCache
  <2>1. TypeOK'
    BY <1>2 DEF DropCache, IInv, TypeOK
  <2> QED BY <1>2, <2>1, OwnershipUnchanged DEF DropCache
<1>3. ASSUME NEW n \in 0..Capacity, Truncate(n) PROVE IInv'
  <2>1. TypeOK'
    BY <1>3 DEF Truncate, IInv, TypeOK
  <2> QED BY <1>3, <2>1, OwnershipUnchanged DEF Truncate
<1>4. ASSUME NEW l \in Layers, ResetLayer(l) PROVE IInv'
  <2>1. TypeOK'
    BY <1>4, KvCacheAssumption, KvShapeAssumption DEF ResetLayer, IInv, TypeOK
  <2> QED BY <1>4, <2>1, OwnershipUnchanged DEF ResetLayer
<1>5. CASE UNCHANGED vars
  <2>1. TypeOK'
    BY <1>5 DEF vars, IInv, TypeOK
  <2> QED BY <1>5, <2>1, OwnershipUnchanged DEF vars
<1> QED
  BY <1>1, <1>2, <1>3, <1>4, <1>5, SubmitIInv, CommitIInv, DeviceIInv, OwnershipIInv
  DEF Next, Host

\* An operation in the stream is neither of an unused nor of a released append,
\* so its append still owns the memory the operation touches.
LEMMA IInvSafe == IInv => NoUseAfterFree
<1> SUFFICES ASSUME IInv, NEW i \in DOMAIN stream
             PROVE  /\ stream[i].kind \in {"copy", "write"} => SourceLive(stream[i].src)
                    /\ stream[i].kind = "copy" => CacheLive
  BY DEF NoUseAfterFree
<1>1. stream[i] \in Ops
  BY DEF IInv, TypeOK, Ops
<1>2. CASE stream[i].kind = "copy"
  <2>1. stream[i].id \in Appends
    BY <1>1, <1>2 DEF Ops, Copies, Events, Writes
  <2>2. Retains(stream[i].id)
    BY <1>2, <2>1 DEF IInv, TypeOK, ReleasedIsDone, UnusedIsAbsent, OpOf, Retains
  <2> QED BY <1>2, <2>1, <2>2 DEF IInv, CopySources, SourceLive, CacheLive
<1>3. CASE stream[i].kind = "write"
  BY <1>3 DEF IInv, WritesHeld, SourceLive
<1> QED BY <1>2, <1>3

\* Memory safety of the asynchronous KV cache (async_work.rs:12-18): in every
\* behaviour, whatever fails, no operation still in the stream refers to freed
\* memory, and a released append has left the stream.
THEOREM MemorySafety == Spec => [](NoUseAfterFree /\ ReleasedIsDone)
<1>1. Spec => []IInv
  BY InitIInv, NextIInv, PTL DEF Spec
<1>2. IInv => NoUseAfterFree /\ ReleasedIsDone
  BY IInvSafe DEF IInv
<1> QED BY <1>1, <1>2, PTL

\* Lengths stay within the capacity and every call keeps its shape.
THEOREM TypeCorrect == Spec => []TypeOK
<1>1. Spec => []IInv
  BY InitIInv, NextIInv, PTL DEF Spec
<1>2. IInv => TypeOK
  BY DEF IInv
<1> QED BY <1>1, <1>2, PTL

\* async_work.rs:65-72: what a returned wait promises to the caller, alone.
THEOREM ReleasedHolds == Spec => []ReleasedIsDone
  BY MemorySafety, PTL

-----------------------------------------------------------------------------
\* A sequence cut back to n elements.
LEMMA CutFacts ==
    ASSUME NEW S, NEW s \in Seq(S), NEW n \in Nat, n <= Len(s)
    PROVE  /\ SubSeq(s, 1, n) \in Seq(S) /\ Len(SubSeq(s, 1, n)) = n
           /\ \A i \in 1..n : SubSeq(s, 1, n)[i] = s[i]
<1>1. \A i \in 1..n : s[i] \in S
  OBVIOUS
<1>2. /\ SubSeq(s, 1, n) \in Seq(S)
      /\ Len(SubSeq(s, 1, n)) = IF 1 <= n THEN n - 1 + 1 ELSE 0
      /\ \A i \in 1..(n - 1 + 1) : SubSeq(s, 1, n)[i] = s[1 + i - 1]
  BY <1>1, SubSeqProperties
<1> QED BY <1>2

\* Where the elements of a concatenation are.
LEMMA ConcatFacts ==
    ASSUME NEW S, NEW s \in Seq(S), NEW t \in Seq(S)
    PROVE  /\ s \o t \in Seq(S) /\ Len(s \o t) = Len(s) + Len(t)
           /\ \A i \in 1..Len(s) : (s \o t)[i] = s[i]
           /\ \A j \in 1..Len(t) : (s \o t)[Len(s) + j] = t[j]
<1>1. /\ s \o t \in Seq(S) /\ Len(s \o t) = Len(s) + Len(t)
      /\ Len(s) \in Nat /\ Len(t) \in Nat
  BY ConcatProperties
<1>2. \A i \in 1..(Len(s) + Len(t)) :
          (s \o t)[i] = IF i <= Len(s) THEN s[i] ELSE t[i - Len(s)]
  BY ConcatProperties
<1>3. \A j \in 1..Len(t) : /\ Len(s) + j \in 1..(Len(s) + Len(t))
                            /\ ~(Len(s) + j <= Len(s)) /\ Len(s) + j - Len(s) = j
  BY <1>1
<1> QED BY <1>1, <1>2, <1>3

-----------------------------------------------------------------------------
\* An operation of the stream has the shape of its kind.
LEMMA OpShapes ==
    ASSUME NEW op \in Ops
    PROVE  /\ op.kind = "copy" => /\ op.src \in Sources /\ op.head \in Heads
                                  /\ op.n \in Nat /\ op.dst \in Nat
           /\ op.kind = "write" => op.src \in Sources /\ op.pay \in Payloads
  BY DEF Ops, Copies, Events, Writes

\* What an operation of the stream finds does not depend on what joins behind it.
LEMMA FindsAppended ==
    ASSUME stream \in Seq(Ops), NEW e \in Ops, stream' = Append(stream, e),
           UNCHANGED srcmem, NEW b, NEW x, NEW i \in 1..(Len(stream) + 1)
    PROVE  FindsPayload(i, b, x) => FindsPayload(i, b, x)'
<1>1. \A k \in 1..Len(stream) : stream'[k] = stream[k]
  BY AppendFacts
<1>2. Len(stream) \in Nat
  OBVIOUS
<1>3. \A k \in 1..(i - 1) : stream'[k] = stream[k]
  BY <1>1, <1>2
<1>4. \A j \in 1..(i - 1) : \A k \in (j + 1)..(i - 1) : k \in 1..(i - 1)
  BY <1>2
<1> QED BY <1>3, <1>4 DEF FindsPayload

\* A cell that an appended operation does not touch ends up as before.
LEMMA EndsAppended ==
    ASSUME stream \in Seq(Ops), NEW e \in Ops, stream' = Append(stream, e),
           UNCHANGED <<srcmem, planes>>,
           NEW p, NEW c, NEW x, NEW h, NEW j,
           ~CopiesInto(e, p, c), EndsUpAs(p, c, x, h, j)
    PROVE  EndsUpAs(p, c, x, h, j)'
<1>1. /\ DOMAIN stream = 1..Len(stream) /\ Len(stream) \in Nat
      /\ DOMAIN stream' = 1..(Len(stream) + 1)
      /\ \A i \in 1..Len(stream) : stream'[i] = stream[i]
      /\ stream'[Len(stream) + 1] = e
  BY AppendFacts
<1>2. CASE /\ planes[p][c] = <<x, h, j>>
           /\ \A i \in DOMAIN stream : ~CopiesInto(stream[i], p, c)
  <2>1. \A i \in DOMAIN stream' : ~CopiesInto(stream'[i], p, c)
    BY <1>1, <1>2
  <2> QED BY <2>1, <1>2 DEF EndsUpAs, CopiesInto, Target
<1>3. ASSUME NEW i \in DOMAIN stream,
             CopiesInto(stream[i], p, c),
             \A k \in DOMAIN stream : k > i => ~CopiesInto(stream[k], p, c),
             stream[i].head = h, c - stream[i].dst + 1 = j,
             FindsPayload(i, stream[i].src, x)
      PROVE  EndsUpAs(p, c, x, h, j)'
  <2>1. i \in DOMAIN stream' /\ stream'[i] = stream[i]
    BY <1>1
  <2>2. \A k \in DOMAIN stream' : k > i => ~CopiesInto(stream'[k], p, c)
    BY <1>1, <1>3
  <2>3. FindsPayload(i, stream[i].src, x)'
    <3>1. \A b : FindsPayload(i, b, x) => FindsPayload(i, b, x)'
      BY <1>1, FindsAppended
    <3> QED BY <3>1, <1>3, <2>1
  <2> QED BY <2>1, <2>2, <2>3, <1>3 DEF EndsUpAs, CopiesInto, Target
<1> QED BY <1>2, <1>3 DEF EndsUpAs

\* A copy that joins the stream decides the cells it targets.
LEMMA EndsCopied ==
    ASSUME stream \in Seq(Ops), NEW e \in Ops, stream' = Append(stream, e),
           UNCHANGED srcmem, NEW p, NEW c, NEW x,
           CopiesInto(e, p, c), FindsPayload(Len(stream) + 1, e.src, x)
    PROVE  EndsUpAs(p, c, x, e.head, c - e.dst + 1)'
<1>1. /\ DOMAIN stream = 1..Len(stream) /\ Len(stream) \in Nat
      /\ DOMAIN stream' = 1..(Len(stream) + 1)
      /\ stream'[Len(stream) + 1] = e
  BY AppendFacts
<1>2. PICK i \in DOMAIN stream' : i = Len(stream) + 1
  BY <1>1
<1>3. stream'[i] = e /\ \A k \in DOMAIN stream' : ~(k > i)
  BY <1>1, <1>2
<1>4. FindsPayload(i, e.src, x)
  BY <1>2
<1>5. FindsPayload(i, e.src, x)'
  <2>1. i \in 1..(Len(stream) + 1)
    BY <1>1, <1>2
  <2>2. \A b : FindsPayload(i, b, x) => FindsPayload(i, b, x)'
    BY <2>1, FindsAppended
  <2> QED BY <2>2, <1>4
<1> QED BY <1>2, <1>3, <1>5 DEF EndsUpAs, CopiesInto, Target

\* The head of the stream has executed: what a later operation finds is the same.
LEMMA FindsExecuted ==
    ASSUME stream \in Seq(Ops), DataOK, DeviceStep, NEW b \in Sources, NEW x,
           NEW i \in 2..(Len(stream) + 1), FindsPayload(i, b, x)
    PROVE  FindsPayload(i - 1, b, x)'
<1>1. /\ stream' = Tail(stream) /\ stream # <<>> /\ Len(stream) \in Nat
      /\ \A k \in 1..(Len(stream) - 1) : stream'[k] = stream[k + 1]
      /\ Head(stream) = stream[1] /\ stream[1] \in Ops
  BY TailFacts DEF DeviceStep
<1>2. /\ stream[1].kind = "write" =>
            srcmem' = [srcmem EXCEPT ![stream[1].src] = stream[1].pay]
      /\ stream[1].kind # "write" => srcmem' = srcmem
  BY <1>1 DEF DeviceStep
<1>3. /\ stream[1].kind = "write" /\ stream[1].src = b => srcmem'[b] = stream[1].pay
      /\ ~(stream[1].kind = "write" /\ stream[1].src = b) => srcmem'[b] = srcmem[b]
  BY <1>1, <1>2, OpShapes DEF DataOK
<1>4. \A k \in 1..(i - 2) : stream'[k] = stream[k + 1] /\ k + 1 \in 1..(i - 1)
  BY <1>1
<1>5. CASE /\ srcmem[b] = x
           /\ \A j \in 1..(i - 1) : ~(stream[j].kind = "write" /\ stream[j].src = b)
  <2>1. srcmem'[b] = x
    BY <1>1, <1>3, <1>5
  <2>2. \A j \in 1..(i - 2) : ~(stream'[j].kind = "write" /\ stream'[j].src = b)
    BY <1>4, <1>5
  <2> QED BY <2>1, <2>2 DEF FindsPayload
<1>6. ASSUME NEW j \in 1..(i - 1),
             stream[j].kind = "write", stream[j].src = b, stream[j].pay = x,
             \A k \in (j + 1)..(i - 1) : ~(stream[k].kind = "write" /\ stream[k].src = b)
      PROVE  FindsPayload(i - 1, b, x)'
  <2>1. \A k \in 1..(i - 2) : k >= j =>
           ~(stream'[k].kind = "write" /\ stream'[k].src = b)
    BY <1>4, <1>6
  <2>2. CASE j = 1
    <3>1. srcmem'[b] = x
      BY <1>3, <1>6, <2>2
    <3>2. \A k \in 1..(i - 2) : ~(stream'[k].kind = "write" /\ stream'[k].src = b)
      BY <2>1, <2>2
    <3> QED BY <3>1, <3>2 DEF FindsPayload
  <2>3. CASE j # 1
    <3>1. j - 1 \in 1..(i - 2) /\ stream'[j - 1] = stream[j]
      BY <1>4, <2>3
    <3>2. \A k \in j..(i - 2) : ~(stream'[k].kind = "write" /\ stream'[k].src = b)
      BY <2>1, <2>3
    <3> QED BY <3>1, <3>2, <1>6 DEF FindsPayload
  <2> QED BY <2>2, <2>3
<1> QED BY <1>5, <1>6 DEF FindsPayload

\* The device executes one operation: no cell ends up as something else.
LEMMA EndsExecuted ==
    ASSUME stream \in Seq(Ops), DataOK, DeviceStep, NEW p \in Planes, NEW c \in Cells,
           NEW x, NEW h, NEW j, EndsUpAs(p, c, x, h, j)
    PROVE  EndsUpAs(p, c, x, h, j)'
<1>1. /\ stream' = Tail(stream) /\ stream # <<>> /\ Len(stream) \in Nat \ {0}
      /\ DOMAIN stream = 1..Len(stream) /\ DOMAIN stream' = 1..(Len(stream) - 1)
      /\ \A k \in 1..(Len(stream) - 1) : stream'[k] = stream[k + 1]
      /\ Head(stream) = stream[1] /\ stream[1] \in Ops
  BY TailFacts DEF DeviceStep
<1>2. /\ CopiesInto(stream[1], p, c) =>
            planes'[p][c] = <<srcmem[stream[1].src], stream[1].head, c - stream[1].dst + 1>>
      /\ ~CopiesInto(stream[1], p, c) => planes'[p][c] = planes[p][c]
  <2>1. CASE stream[1].kind = "copy"
    <3>1. planes' = [planes EXCEPT ![stream[1].plane] =
                [k \in Cells |-> IF k \in Target(stream[1])
                     THEN <<srcmem[stream[1].src], stream[1].head, k - stream[1].dst + 1>>
                     ELSE @[k]]]
      BY <1>1, <2>1 DEF DeviceStep
    <3> QED BY <3>1, <2>1 DEF CopiesInto, DataOK
  <2>2. CASE stream[1].kind # "copy"
    BY <1>1, <2>2 DEF DeviceStep, CopiesInto
  <2> QED BY <2>1, <2>2
<1>3. CASE /\ planes[p][c] = <<x, h, j>>
           /\ \A i \in DOMAIN stream : ~CopiesInto(stream[i], p, c)
  <2>1. planes'[p][c] = <<x, h, j>>
    BY <1>1, <1>2, <1>3
  <2>2. \A i \in DOMAIN stream' : ~CopiesInto(stream'[i], p, c)
    BY <1>1, <1>3
  <2> QED BY <2>1, <2>2 DEF EndsUpAs, CopiesInto, Target
<1>4. ASSUME NEW i \in DOMAIN stream,
             CopiesInto(stream[i], p, c),
             \A k \in DOMAIN stream : k > i => ~CopiesInto(stream[k], p, c),
             stream[i].head = h, c - stream[i].dst + 1 = j,
             FindsPayload(i, stream[i].src, x)
      PROVE  EndsUpAs(p, c, x, h, j)'
  <2>1. \A k \in DOMAIN stream' : k >= i => ~CopiesInto(stream'[k], p, c)
    BY <1>1, <1>4
  <2>2. CASE i = 1
    <3>1. srcmem[stream[1].src] = x
      BY <2>2, <1>4 DEF FindsPayload
    <3>2. planes'[p][c] = <<x, h, j>>
      BY <3>1, <2>2, <1>2, <1>4
    <3>3. \A k \in DOMAIN stream' : ~CopiesInto(stream'[k], p, c)
      BY <2>1, <2>2, <1>1
    <3> QED BY <3>2, <3>3 DEF EndsUpAs, CopiesInto, Target
  <2>3. CASE i # 1
    <3>1. i - 1 \in DOMAIN stream' /\ stream'[i - 1] = stream[i] /\ i \in 2..(Len(stream) + 1)
      BY <1>1, <2>3
    <3>2. stream[i].src \in Sources
      <4>1. stream[i] \in Ops
        BY <1>1
      <4> QED BY <4>1, <1>4, OpShapes DEF CopiesInto
    <3>3. PICK b \in Sources : b = stream[i].src
      BY <3>2
    <3>4. FindsPayload(i - 1, b, x)'
      BY <3>1, <3>3, <1>4, FindsExecuted
    <3>5. \A k \in DOMAIN stream' : k > i - 1 => ~CopiesInto(stream'[k], p, c)
      BY <2>1, <1>1
    <3> HIDE DEF FindsPayload
    <3>6. CopiesInto(stream'[i - 1], p, c) /\ stream'[i - 1].head = h
          /\ c - stream'[i - 1].dst + 1 = j /\ stream'[i - 1].src = b
      BY <3>1, <3>3, <1>4
    <3> QED BY <3>1, <3>4, <3>5, <3>6 DEF EndsUpAs, CopiesInto, Target
  <2> QED BY <2>2, <2>3
<1> QED BY <1>3, <1>4 DEF EndsUpAs

-----------------------------------------------------------------------------
\* The cache starts empty and nothing has been issued.
LEMMA InitData == Init => Data
<1> SUFFICES ASSUME Init PROVE Data
  OBVIOUS
<1>1. DataOK
  <2>1. JunkCell \in Contents \X Heads \X Nat /\ Junk \in Contents
    BY KvShapeAssumption DEF JunkCell, Contents, Heads
  <2>2. \A l \in Layers : want[l] = <<>> /\ lengths[l] = 0 /\ Len(want[l]) = 0
    BY DEF Init
  <2>3. want \in [Layers -> Seq([key : Contents \X Nat, value : Contents \X Nat])]
    BY DEF Init
  <2> QED BY <2>1, <2>2, <2>3 DEF Init, DataOK, NoAppend
<1>2. IssuedIsFound
  BY DEF Init, IssuedIsFound, FindsPayload
<1>3. RowsEndUp /\ SubmittedEndsUp
  BY DEF Init, RowsEndUp, SubmittedEndsUp, NoAppend
<1> QED BY <1>1, <1>2, <1>3 DEF Data

\* Steps that leave the stream, the memory and the rows alone, and do not go on
\* with a call: at most a new call begins.
LEMMA QuietData ==
    ASSUME Data, UNCHANGED <<lengths, stream, planes, srcmem, issued, want>>,
           \/ UNCHANGED <<host, res>>
           \/ host'.pc # "submitting"
           \/ /\ host'.start = lengths'[host'.layer]
              /\ host'.n = 0 \/ host'.next = 1
    PROVE  Data'
<1>1. DataOK'
  BY DEF Data, DataOK
<1>2. IssuedIsFound'
  BY DEF Data, IssuedIsFound, FindsPayload
<1>3. \A p, c, x, h, j : EndsUpAs(p, c, x, h, j)' <=> EndsUpAs(p, c, x, h, j)
  BY DEF EndsUpAs, FindsPayload
<1>4. RowsEndUp'
  BY <1>3 DEF Data, RowsEndUp
<1>5. SubmittedEndsUp'
  <2>1. CASE UNCHANGED <<host, res>>
    BY <2>1, <1>3 DEF Data, SubmittedEndsUp
  <2>2. CASE host'.pc # "submitting"
    BY <2>2 DEF SubmittedEndsUp
  <2>3. CASE host'.n = 0
    BY <2>3 DEF SubmittedEndsUp
  <2>4. CASE host'.next = 1
    BY <2>4 DEF SubmittedEndsUp
  <2> QED BY <2>1, <2>2, <2>3, <2>4
<1> QED BY <1>1, <1>2, <1>4, <1>5 DEF Data

\* Layers are cut back: fewer rows, the same cells.
LEMMA ShorterData ==
    ASSUME TypeOK, Data, UNCHANGED <<stream, planes, srcmem, issued, host, res>>,
           host.pc = "idle",
           NEW n \in [Layers -> Nat], \A l \in Layers : n[l] <= lengths[l],
           lengths' = [l \in Layers |-> n[l]],
           want' = [l \in Layers |-> SubSeq(want[l], 1, n[l])]
    PROVE  Data'
<1>1. ASSUME NEW l \in Layers
      PROVE  /\ SubSeq(want[l], 1, n[l]) \in Seq([key : Contents \X Nat, value : Contents \X Nat])
             /\ Len(SubSeq(want[l], 1, n[l])) = n[l]
             /\ \A i \in 1..n[l] : SubSeq(want[l], 1, n[l])[i] = want[l][i]
  <2>1. want[l] \in Seq([key : Contents \X Nat, value : Contents \X Nat])
        /\ Len(want[l]) = lengths[l] /\ n[l] \in Nat /\ n[l] <= lengths[l]
    BY DEF Data, DataOK
  <2> DEFINE S == [key : Contents \X Nat, value : Contents \X Nat]
  <2>2. want[l] \in Seq(S) /\ n[l] \in Nat /\ n[l] <= Len(want[l])
    BY <2>1
  <2> HIDE DEF S
  <2>3. /\ SubSeq(want[l], 1, n[l]) \in Seq(S) /\ Len(SubSeq(want[l], 1, n[l])) = n[l]
        /\ \A i \in 1..n[l] : SubSeq(want[l], 1, n[l])[i] = want[l][i]
    BY <2>2, CutFacts
  <2> QED BY <2>3 DEF S
<1>2. DataOK'
  BY <1>1 DEF Data, DataOK
<1>3. IssuedIsFound'
  BY DEF Data, IssuedIsFound, FindsPayload
<1>4. \A p, c, x, h, j : EndsUpAs(p, c, x, h, j)' <=> EndsUpAs(p, c, x, h, j)
  BY DEF EndsUpAs, FindsPayload
<1>5. RowsEndUp'
  <2>1. \A l \in Layers : \A pos \in 1..lengths'[l] :
           pos \in 1..lengths[l] /\ want'[l][pos] = want[l][pos]
    BY <1>1 DEF TypeOK
  <2> QED BY <2>1, <1>4 DEF Data, RowsEndUp
<1>6. SubmittedEndsUp'
  BY DEF SubmittedEndsUp
<1> QED BY <1>2, <1>3, <1>5, <1>6 DEF Data

\* The device executes the head of the stream.
LEMMA DeviceData == ASSUME IInv, Data, DeviceStep PROVE Data'
<1>1. /\ stream \in Seq(Ops) /\ stream # <<>> /\ stream[1] \in Ops
      /\ Head(stream) = stream[1] /\ Len(stream) \in Nat \ {0}
      /\ stream' = Tail(stream) /\ Len(stream') = Len(stream) - 1
      /\ UNCHANGED <<lengths, status, res, host, issued, want>>
  <2>1. stream \in Seq(Ops) /\ stream # <<>>
    BY DEF IInv, TypeOK, Ops, DeviceStep
  <2> QED BY <2>1, TailFacts DEF DeviceStep
<1>2. DataOK'
  <2>1. /\ stream[1].kind = "copy" => stream[1].plane \in Planes
        /\ stream[1].kind \in {"copy", "write", "event"}
    BY <1>1 DEF Ops, Copies, Events, Writes
  <2>2. CASE stream[1].kind = "copy"
    <3>1. /\ planes' = [planes EXCEPT ![stream[1].plane] =
                [k \in Cells |-> IF k \in Target(stream[1])
                     THEN <<srcmem[stream[1].src], stream[1].head, k - stream[1].dst + 1>>
                     ELSE @[k]]]
          /\ UNCHANGED srcmem
      BY <1>1, <2>2 DEF DeviceStep
    <3>2. /\ stream[1].dst \in Nat /\ stream[1].n \in Nat /\ stream[1].head \in Heads
          /\ srcmem[stream[1].src] \in Contents
      BY <1>1, <2>2, OpShapes DEF Data, DataOK
    <3>3. \A k \in Cells : k \in Target(stream[1]) => k - stream[1].dst + 1 \in Nat
      BY <3>2 DEF Target
    <3>4. planes' \in [Planes -> [Cells -> Contents \X Heads \X Nat]]
      BY <3>1, <3>2, <3>3, <2>1, <2>2 DEF Data, DataOK
    <3> QED BY <3>1, <3>4, <1>1 DEF Data, DataOK
  <2>3. CASE stream[1].kind = "write"
    <3>1. srcmem' = [srcmem EXCEPT ![stream[1].src] = stream[1].pay] /\ UNCHANGED planes
      BY <1>1, <2>3 DEF DeviceStep
    <3>2. stream[1].src \in Sources /\ stream[1].pay \in Contents
      BY <1>1, <2>3, OpShapes DEF Contents
    <3> QED BY <3>1, <3>2, <1>1 DEF Data, DataOK
  <2>4. CASE stream[1].kind = "event"
    BY <2>4, <1>1 DEF DeviceStep, Data, DataOK
  <2> QED BY <2>1, <2>2, <2>3, <2>4
<1>3. IssuedIsFound'
  <2> SUFFICES ASSUME NEW b \in Sources
               PROVE  FindsPayload(Len(stream) + 1, b, issued[b])'
    BY DEF IssuedIsFound
  <2>1. PICK i \in 2..(Len(stream) + 1), x \in Contents :
           i = Len(stream) + 1 /\ x = issued[b]
    BY <1>1 DEF Data, DataOK
  <2>2. FindsPayload(i, b, x)
    BY <2>1 DEF Data, IssuedIsFound
  <2>3. FindsPayload(i - 1, b, x)'
    BY <2>2, <1>1, FindsExecuted DEF Data
  <2>4. i - 1 = Len(stream') + 1 /\ x = issued'[b]
    BY <2>1, <1>1
  <2> QED BY <2>3, <2>4
<1>4. \A p \in Planes, c \in Cells : \A x, h, j : EndsUpAs(p, c, x, h, j) => EndsUpAs(p, c, x, h, j)'
  BY <1>1, EndsExecuted DEF Data
<1>5. RowsEndUp'
  <2> SUFFICES ASSUME NEW l \in Layers, NEW h \in Heads, NEW p \in Planes,
                      NEW pos \in 1..lengths[l]
               PROVE  EndsUpAs(p, CellOf(l, h, pos - 1), want[l][pos][p][1], h,
                               want[l][pos][p][2])'
    BY <1>1 DEF RowsEndUp
  <2>1. pos - 1 \in 0..(Capacity - 1)
    BY KvShapeAssumption DEF IInv, TypeOK
  <2>2. CellOf(l, h, pos - 1) \in Cells
    BY <2>1, CellInPlane
  <2>3. PICK w : w = want[l][pos][p]
    OBVIOUS
  <2>4. EndsUpAs(p, CellOf(l, h, pos - 1), w[1], h, w[2])
    BY <2>3 DEF Data, RowsEndUp
  <2>5. EndsUpAs(p, CellOf(l, h, pos - 1), w[1], h, w[2])'
    BY <2>2, <2>4, <1>4
  <2> QED BY <2>3, <2>5, <1>1
<1>6. SubmittedEndsUp'
  <2> SUFFICES ASSUME host.pc = "submitting", NEW k \in 1..(host.next - 1),
                      NEW j \in 1..host.n
               PROVE  EndsUpAs(CopyPlane(k), CellOf(host.layer, CopyHead(k), host.start + j - 1),
                        issued[res[host.id][CopyPlane(k)]], CopyHead(k), j)'
    BY <1>1 DEF SubmittedEndsUp
  <2>1. PICK c, x : /\ c = CellOf(host.layer, CopyHead(k), host.start + j - 1)
                    /\ x = issued[res[host.id][CopyPlane(k)]]
    OBVIOUS
  <2>2. /\ host.layer \in Layers /\ host.next \in 1..(CopyCount + 1)
        /\ host.n \in Nat /\ host.start \in Nat /\ host.start + host.n <= Capacity
    BY DEF IInv, TypeOK, HostStates
  <2>3. CopyPlane(k) \in Planes /\ CopyHead(k) \in Heads
    BY <2>2, KvShapeAssumption DEF CopyPlane, CopyHead, CopyCount, Planes, Heads
  <2>4. host.start + j - 1 \in 0..(Capacity - 1)
    BY <2>2, KvShapeAssumption
  <2>5. c \in Cells
    BY <2>1, <2>2, <2>3, <2>4, CellInPlane
  <2>6. EndsUpAs(CopyPlane(k), c, x, CopyHead(k), j)
    BY <2>1 DEF Data, SubmittedEndsUp
  <2>7. EndsUpAs(CopyPlane(k), c, x, CopyHead(k), j)'
    BY <2>3, <2>5, <2>6, <1>4
  <2> QED BY <2>1, <2>7, <1>1
<1> QED BY <1>2, <1>3, <1>5, <1>6 DEF Data

\* An operation that is no write to b joins: the end of the stream finds the same.
LEMMA IssuedAppended ==
    ASSUME stream \in Seq(Ops), NEW e \in Ops, stream' = Append(stream, e),
           UNCHANGED srcmem, NEW b, NEW x, ~(e.kind = "write" /\ e.src = b),
           FindsPayload(Len(stream) + 1, b, x)
    PROVE  FindsPayload(Len(stream) + 1, b, x)'
<1>1. /\ Len(stream) \in Nat /\ Len(stream') = Len(stream) + 1
      /\ \A i \in 1..Len(stream) : stream'[i] = stream[i]
      /\ stream'[Len(stream) + 1] = e
  BY AppendFacts
<1>2. PICK i \in 1..(Len(stream) + 1) : i = Len(stream) + 1
  BY <1>1
<1>3. FindsPayload(i, b, x)
  BY <1>2
<1>4. FindsPayload(i, b, x)'
  BY <1>3, FindsAppended
<1>5. ~(stream'[i].kind = "write" /\ stream'[i].src = b)
  BY <1>1, <1>2
<1>6. FindsPayload(i + 1, b, x)'
  <2>1. \A k \in 1..i : k = i \/ k \in 1..(i - 1)
    BY <1>1, <1>2
  <2>2. \A j \in 1..(i - 1) : \A k \in (j + 1)..i : k = i \/ k \in (j + 1)..(i - 1)
    BY <1>1, <1>2
  <2>3. i + 1 - 1 = i /\ \A j \in 1..(i - 1) : j \in 1..i
    BY <1>1, <1>2
  <2> QED BY <1>4, <1>5, <2>1, <2>2, <2>3 DEF FindsPayload
<1>7. i + 1 = Len(stream') + 1
  BY <1>1, <1>2
<1> QED BY <1>6, <1>7

\* Rows keep ending up the same when no copy into them joins the stream.
LEMMA RowsAppended ==
    ASSUME stream \in Seq(Ops), NEW e \in Ops, stream' = Append(stream, e),
           UNCHANGED <<lengths, planes, srcmem, want>>, RowsEndUp,
           \A l \in Layers, h \in Heads, p \in Planes : \A pos \in 1..lengths[l] :
               ~CopiesInto(e, p, CellOf(l, h, pos - 1))
    PROVE  RowsEndUp'
<1> SUFFICES ASSUME NEW l \in Layers, NEW h \in Heads, NEW p \in Planes,
                    NEW pos \in 1..lengths[l]
             PROVE  EndsUpAs(p, CellOf(l, h, pos - 1), want[l][pos][p][1], h,
                             want[l][pos][p][2])'
  BY DEF RowsEndUp
<1>1. PICK w : w = want[l][pos][p]
  OBVIOUS
<1>2. EndsUpAs(p, CellOf(l, h, pos - 1), w[1], h, w[2])
  BY <1>1 DEF RowsEndUp
<1>3. EndsUpAs(p, CellOf(l, h, pos - 1), w[1], h, w[2])'
  BY <1>2, EndsAppended
<1> QED BY <1>1, <1>3

\* A kernel of the caller joins the stream.
LEMMA WriteData ==
    ASSUME IInv, Data, NEW b \in Sources, NEW y \in Payloads, WriteSource(b, y)
    PROVE  Data'
<1> DEFINE e == [kind |-> "write", src |-> b, pay |-> y]
<1>1. e \in Ops /\ stream \in Seq(Ops) /\ stream' = Append(stream, e)
  BY DEF WriteSource, Writes, Ops, IInv, TypeOK
<1>2. /\ UNCHANGED <<lengths, planes, srcmem, status, res, host, want>>
      /\ issued' = [issued EXCEPT ![b] = y] /\ host.pc = "idle"
  BY DEF WriteSource
<1>3. e.kind = "write" /\ e.src = b /\ e.pay = y
  OBVIOUS
<1> HIDE DEF e
<1>4. DataOK'
  BY <1>2 DEF Data, DataOK, Contents
<1>5. IssuedIsFound'
  <2> SUFFICES ASSUME NEW a \in Sources
               PROVE  FindsPayload(Len(stream) + 1, a, issued[a])'
    BY DEF IssuedIsFound
  <2>1. CASE a = b
    <3>1. /\ Len(stream') \in Nat \ {0} /\ stream'[Len(stream')] = e
          /\ issued'[a] = y
      BY <1>1, <1>2, <2>1, AppendFacts DEF Data, DataOK
    <3> QED BY <3>1, <2>1, <1>3 DEF FindsPayload
  <2>2. CASE a # b
    <3>1. PICK x : x = issued[a]
      OBVIOUS
    <3>2. FindsPayload(Len(stream) + 1, a, x)'
      BY <3>1, <2>2, <1>1, <1>2, <1>3, IssuedAppended DEF Data, IssuedIsFound
    <3>3. x = issued'[a]
      BY <3>1, <2>2, <1>2 DEF Data, DataOK
    <3> QED BY <3>2, <3>3
  <2> QED BY <2>1, <2>2
<1>6. RowsEndUp'
  <2>1. \A p, c : ~CopiesInto(e, p, c)
    BY <1>3 DEF CopiesInto
  <2> QED BY <2>1, <1>1, <1>2, RowsAppended DEF Data
<1>7. SubmittedEndsUp'
  BY <1>2 DEF SubmittedEndsUp
<1> QED BY <1>4, <1>5, <1>6, <1>7 DEF Data

\* A cell the call in progress copies into lies behind the rows of its layer.
LEMMA TargetCells ==
    ASSUME NEW m \in Layers, NEW g \in Heads, NEW at \in Nat, NEW n \in Nat,
           at + n <= Capacity, NEW e, e.dst = CellOf(m, g, at), e.n = n,
           NEW l \in Layers, NEW h \in Heads, NEW r \in 0..(Capacity - 1),
           CellOf(l, h, r) \in Target(e)
    PROVE  l = m /\ h = g /\ r >= at
<1>1. CellOf(l, h, r) \in CellOf(m, g, at)..(CellOf(m, g, at) + n - 1)
  BY DEF Target
<1>2. l = m /\ h = g /\ r \in at..(at + n - 1)
  BY <1>1, CellRun
<1> QED BY <1>2

\* The number of a copy is determined by its head and its plane.
LEMMA CopyNumber ==
    ASSUME NEW k \in Nat \ {0}
    PROVE  /\ CopyPlane(k) = "key" => k = 2 * CopyHead(k) + 1
           /\ CopyPlane(k) = "value" => k = 2 * CopyHead(k) + 2
           /\ CopyPlane(k) \in Planes /\ CopyHead(k) \in Nat
<1>1. k - 1 = 2 * ((k - 1) \div 2) + ((k - 1) % 2) /\ (k - 1) % 2 \in {0, 1}
      /\ (k - 1) \div 2 \in Nat
  OBVIOUS
<1>2. k % 2 = 1 <=> (k - 1) % 2 = 0
  OBVIOUS
<1> QED BY <1>1, <1>2 DEF CopyPlane, CopyHead, Planes

\* A copy of the call in progress joins the stream.
LEMMA SubmitData == ASSUME IInv, Data, SubmitCopy PROVE Data'
<1> DEFINE g0 == CopyHead(host.next)
           p0 == CopyPlane(host.next)
           e0 == [kind |-> "copy", id |-> host.id, plane |-> p0,
                 src |-> res[host.id][p0], head |-> g0, n |-> host.n,
                 dst |-> CellOf(host.layer, g0, host.start)]
<1>1. /\ host.id \in Appends /\ host.next \in 1..CopyCount /\ host.layer \in Layers
      /\ host.n \in Nat /\ host.start \in Nat /\ host.pc = "submitting"
      /\ host \in HostStates /\ host.start + host.n <= Capacity
      /\ host.start = lengths[host.layer] /\ lengths[host.layer] \in 0..Capacity
  BY KvShapeAssumption DEF SubmitCopy, IInv, TypeOK, HostStates, CopyCount, Data, DataOK
<1>2. \A k \in 1..CopyCount : CopyPlane(k) \in Planes /\ CopyHead(k) \in Heads
  BY KvShapeAssumption DEF CopyHead, CopyPlane, Heads, Planes, CopyCount
<1>3. CellOf(host.layer, g0, host.start) \in Nat
  <2>1. host.layer \in Nat /\ g0 \in Nat /\ Capacity \in Nat /\ NumHeads \in Nat
    BY <1>1, <1>2, KvShapeAssumption DEF Layers, Heads
  <2>2. host.layer * NumHeads \in Nat
    BY <2>1
  <2>3. (host.layer * NumHeads + g0) * Capacity \in Nat
    BY <2>1, <2>2
  <2> QED BY <1>1, <2>3 DEF CellOf
<1>4. res[host.id][p0] \in Sources
  BY <1>1, <1>2 DEF IInv, TypeOK, Planes
<1>14. e0 \in Ops /\ stream \in Seq(Ops) /\ stream' = Append(stream, e0)
  BY <1>1, <1>2, <1>3, <1>4 DEF SubmitCopy, Copies, Ops, IInv, TypeOK
<1>15. PICK g \in Heads, p \in Planes, e \in Ops : g = g0 /\ p = p0 /\ e = e0
  BY <1>1, <1>2, <1>14
<1>5. stream \in Seq(Ops) /\ stream' = Append(stream, e)
  BY <1>14, <1>15
<1>6. /\ e.kind = "copy" /\ e.plane = p /\ e.src = res[host.id][p] /\ e.head = g
      /\ e.n = host.n /\ e.dst = CellOf(host.layer, g, host.start)
  BY <1>15
<1>7. g = CopyHead(host.next) /\ p = CopyPlane(host.next) /\ g \in Heads /\ p \in Planes
      /\ res[host.id][p] \in Sources /\ e.dst \in Nat
  BY <1>3, <1>4, <1>15
<1> HIDE DEF e0, g0, p0
<1>8. /\ UNCHANGED <<lengths, planes, srcmem, res, issued, want>>
      /\ host'.pc = "submitting" /\ host'.id = host.id /\ host'.layer = host.layer
      /\ host'.start = host.start /\ host'.n = host.n /\ host'.next = host.next + 1
  BY <1>1 DEF SubmitCopy, HostStates
<1>9. DataOK'
  BY <1>1, <1>8 DEF Data, DataOK
<1>10. IssuedIsFound'
  <2> SUFFICES ASSUME NEW a \in Sources
               PROVE  FindsPayload(Len(stream) + 1, a, issued[a])'
    BY DEF IssuedIsFound
  <2>1. PICK x : x = issued[a]
    OBVIOUS
  <2>2. FindsPayload(Len(stream) + 1, a, x)'
    BY <2>1, <1>5, <1>6, <1>8, IssuedAppended DEF Data, IssuedIsFound
  <2> QED BY <2>1, <2>2, <1>8
<1>11. ASSUME NEW l \in Layers, NEW h \in Heads, NEW q \in Planes,
              NEW r \in 0..(Capacity - 1), CopiesInto(e, q, CellOf(l, h, r))
       PROVE  l = host.layer /\ h = g /\ q = p /\ r >= host.start
  <2>1. q = p /\ CellOf(l, h, r) \in Target(e)
    BY <1>6, <1>11 DEF CopiesInto
  <2> QED BY <2>1, <1>1, <1>6, <1>7, TargetCells
<1>12. RowsEndUp'
  <2>1. ASSUME NEW l \in Layers, NEW h \in Heads, NEW q \in Planes,
               NEW pos \in 1..lengths[l], CopiesInto(e, q, CellOf(l, h, pos - 1))
        PROVE  FALSE
    <3>1. pos - 1 \in 0..(Capacity - 1) /\ lengths[l] \in Nat
      BY KvShapeAssumption DEF IInv, TypeOK
    <3>2. l = host.layer /\ pos - 1 >= host.start
      BY <3>1, <2>1, <1>11
    <3> QED BY <3>1, <3>2, <1>1
  <2> QED BY <2>1, <1>5, <1>8, RowsAppended DEF Data
<1>13. SubmittedEndsUp'
  <2> SUFFICES ASSUME NEW k \in 1..host.next, NEW j \in 1..host.n
               PROVE  EndsUpAs(CopyPlane(k), CellOf(host.layer, CopyHead(k), host.start + j - 1),
                        issued[res[host.id][CopyPlane(k)]], CopyHead(k), j)'
    <3>1. host.next \in Nat
      BY <1>1, KvShapeAssumption DEF CopyCount
    <3>2. 1..(host'.next - 1) = 1..host.next /\ 1..host'.n = 1..host.n
      BY <3>1, <1>8
    <3> QED BY <3>2 DEF SubmittedEndsUp
  <2>1. PICK c, x : /\ c = CellOf(host.layer, CopyHead(k), host.start + j - 1)
                    /\ x = issued[res[host.id][CopyPlane(k)]]
    OBVIOUS
  <2>2. host.start + j - 1 \in 0..(Capacity - 1) /\ k \in 1..CopyCount
    BY <1>1, KvShapeAssumption DEF CopyCount
  <2>3. CASE k = host.next
    <3>1. c \in Target(e) /\ c - e.dst + 1 = j
      <4>1. c = e.dst + (j - 1)
        <5> DEFINE base == (host.layer * NumHeads + g) * Capacity
        <5>1. CellOf(host.layer, g, host.start) = base + host.start
              /\ c = base + (host.start + j - 1)
          BY <2>1, <2>3, <1>7 DEF CellOf
        <5>2. base \in Int
          <6>1. host.layer \in Int /\ g \in Int /\ Capacity \in Int /\ NumHeads \in Int
            BY <1>1, <1>7, KvShapeAssumption DEF Layers, Heads
          <6> QED BY <6>1
        <5> HIDE DEF base
        <5> QED BY <5>1, <5>2, <1>1, <1>6
      <4> QED BY <4>1, <1>1, <1>6, <1>7 DEF Target
    <3>2. CopiesInto(e, p, c)
      BY <3>1, <1>6 DEF CopiesInto
    <3>3. FindsPayload(Len(stream) + 1, e.src, x)
      BY <1>6, <1>7, <2>1, <2>3 DEF Data, IssuedIsFound
    <3>4. EndsUpAs(p, c, x, e.head, c - e.dst + 1)'
      BY <3>2, <3>3, <1>5, <1>8, EndsCopied
    <3> QED BY <3>1, <3>4, <2>1, <2>3, <1>6, <1>7, <1>8
  <2>4. CASE k # host.next
    <3>1. k \in 1..(host.next - 1)
      BY <1>1, <2>4, KvShapeAssumption DEF CopyCount
    <3>2. EndsUpAs(CopyPlane(k), c, x, CopyHead(k), j)
      BY <3>1, <2>1, <1>1 DEF Data, SubmittedEndsUp
    <3>3. ~(CopyPlane(k) = p /\ CopyHead(k) = g)
      <4>1. k \in Nat \ {0} /\ host.next \in Nat \ {0}
        BY <1>1, <2>2, KvShapeAssumption DEF CopyCount
      <4> QED BY <4>1, <1>7, <2>4, CopyNumber DEF Planes
    <3>4. ~CopiesInto(e, CopyPlane(k), c)
      BY <3>3, <2>1, <2>2, <1>1, <1>2, <1>11
    <3>5. EndsUpAs(CopyPlane(k), c, x, CopyHead(k), j)'
      BY <3>2, <3>4, <1>5, <1>8, EndsAppended
    <3> QED BY <3>5, <2>1, <1>8
  <2> QED BY <2>3, <2>4
<1> QED BY <1>9, <1>10, <1>12, <1>13 DEF Data

\* The event joins the stream and the rows of the call become valid.
LEMMA CommitData == ASSUME IInv, Data, Commit PROVE Data'
<1> DEFINE m == host.layer
           at == host.start
           n == host.n
           RowT == [key : Contents \X Nat, value : Contents \X Nat]
<1>1. /\ host.id \in Appends /\ m \in Layers /\ host.pc = "submitting"
      /\ n \in Nat /\ at \in Nat /\ at + n <= Capacity /\ host.next = CopyCount + 1
      /\ at = lengths[m] /\ Len(want[m]) = at /\ want[m] \in Seq(RowT)
      /\ stream \in Seq(Ops)
  BY KvShapeAssumption DEF Commit, IInv, TypeOK, HostStates, Data, DataOK, Ops
<1>2. PICK e \in Ops : e = [kind |-> "event", id |-> host.id]
  BY <1>1 DEF Events, Ops
<1>3. /\ stream' = Append(stream, e) /\ e.kind = "event"
      /\ UNCHANGED <<planes, srcmem, res, issued>> /\ host'.pc = "idle"
      /\ lengths' = [lengths EXCEPT ![m] = at + n]
      /\ want' = [want EXCEPT ![m] = SubSeq(want[m], 1, at) \o NewRows]
  BY <1>2 DEF Commit, NoAppend
<1>4. /\ NewRows \in Seq(RowT) /\ Len(NewRows) = n
      /\ \A j \in 1..n, p \in Planes : NewRows[j][p] = <<issued[res[host.id][p]], j>>
  <2>1. \A p \in Planes : res[host.id][p] \in Sources /\ issued[res[host.id][p]] \in Contents
    BY <1>1 DEF IInv, TypeOK, Data, DataOK, Planes
  <2>2. res[host.id].key = res[host.id]["key"] /\ res[host.id].value = res[host.id]["value"]
    OBVIOUS
  <2>3. issued[res[host.id].key] \in Contents /\ issued[res[host.id].value] \in Contents
    BY <2>1, <2>2 DEF Planes
  <2>4. PICK a \in Contents, b \in Contents :
           a = issued[res[host.id].key] /\ b = issued[res[host.id].value]
    BY <2>3
  <2>5. NewRows = [j \in 1..n |-> [key |-> <<a, j>>, value |-> <<b, j>>]]
    BY <2>4 DEF NewRows
  <2>6. PICK k \in Nat : k = n
    BY <1>1
  <2>7. [j \in 1..k |-> [key |-> <<a, j>>, value |-> <<b, j>>]] \in [1..k -> RowT]
    OBVIOUS
  <2> HIDE DEF RowT
  <2>8. NewRows \in Seq(RowT) /\ Len(NewRows) = k
    <3>1. NewRows \in [1..k -> RowT]
      BY <2>5, <2>6, <2>7
    <3> QED BY <3>1, <2>6, LenProperties, SeqDef
  <2>9. \A j \in 1..k : /\ NewRows[j]["key"] = <<a, j>>
                         /\ NewRows[j]["value"] = <<b, j>>
    BY <2>5, <2>6
  <2> QED BY <2>2, <2>4, <2>6, <2>8, <2>9 DEF Planes
<1> HIDE DEF RowT
<1>5. SubSeq(want[m], 1, at) \in Seq(RowT) /\ Len(SubSeq(want[m], 1, at)) = at
      /\ \A i \in 1..at : SubSeq(want[m], 1, at)[i] = want[m][i]
  BY <1>1, CutFacts
<1>6. /\ want'[m] \in Seq(RowT) /\ Len(want'[m]) = at + n
      /\ \A i \in 1..at : want'[m][i] = want[m][i]
      /\ \A j \in 1..n : want'[m][at + j] = NewRows[j]
  <2>1. want'[m] = SubSeq(want[m], 1, at) \o NewRows
    BY <1>1, <1>3 DEF Data, DataOK
  <2>2. PICK s \in Seq(RowT), t \in Seq(RowT) :
           s = SubSeq(want[m], 1, at) /\ t = NewRows
    BY <1>4, <1>5
  <2>3. /\ s \o t \in Seq(RowT) /\ Len(s \o t) = Len(s) + Len(t)
        /\ \A i \in 1..Len(s) : (s \o t)[i] = s[i]
        /\ \A j \in 1..Len(t) : (s \o t)[Len(s) + j] = t[j]
    BY ConcatFacts
  <2>4. Len(s) = at /\ Len(t) = n /\ want'[m] = s \o t
        /\ \A i \in 1..at : s[i] = want[m][i]
    BY <2>1, <2>2, <1>4, <1>5
  <2> QED BY <2>2, <2>3, <2>4
<1>12. \A l \in Layers : l # m => want'[l] = want[l] /\ lengths'[l] = lengths[l]
  BY <1>3 DEF Data, DataOK, IInv, TypeOK
<1>7. DataOK'
  <2>2. lengths'[m] = at + n
    BY <1>1, <1>3 DEF IInv, TypeOK
  <2>3. want' \in [Layers -> Seq(RowT)]
    BY <1>1, <1>3, <1>6, <1>12 DEF Data, DataOK, RowT
  <2>4. \A l \in Layers : Len(want'[l]) = lengths'[l]
    BY <1>6, <1>12, <2>2 DEF Data, DataOK
  <2> QED BY <1>3, <2>3, <2>4 DEF Data, DataOK, RowT
<1>8. \A p, c, x, h, j : EndsUpAs(p, c, x, h, j) => EndsUpAs(p, c, x, h, j)'
  <2>1. \A p, c : ~CopiesInto(e, p, c)
    BY <1>3 DEF CopiesInto
  <2> QED BY <2>1, <1>1, <1>3, EndsAppended
<1>9. IssuedIsFound'
  <2> SUFFICES ASSUME NEW a \in Sources
               PROVE  FindsPayload(Len(stream) + 1, a, issued[a])'
    BY DEF IssuedIsFound
  <2>1. PICK x : x = issued[a]
    OBVIOUS
  <2>2. FindsPayload(Len(stream) + 1, a, x)'
    BY <2>1, <1>1, <1>3, IssuedAppended DEF Data, IssuedIsFound
  <2> QED BY <2>1, <2>2, <1>3
<1>10. RowsEndUp'
  <2> SUFFICES ASSUME NEW l \in Layers, NEW h \in Heads, NEW p \in Planes,
                      NEW pos \in 1..lengths'[l]
               PROVE  EndsUpAs(p, CellOf(l, h, pos - 1), want[l][pos][p][1], h,
                               want[l][pos][p][2])'
    BY DEF RowsEndUp
  <2>1. PICK w : w = want'[l][pos][p]
    OBVIOUS
  <2>2. CASE l # m \/ pos <= at
    <3>1. pos \in 1..lengths[l] /\ w = want[l][pos][p]
      <4>1. CASE l # m
        BY <4>1, <2>1, <1>12
      <4>2. CASE l = m
        <5>1. pos \in 1..at /\ at <= lengths[m]
          BY <4>2, <2>2, <1>1
        <5>2. want'[m][pos] = want[m][pos]
          BY <5>1, <1>6
        <5>3. pos \in 1..lengths[l]
          <6>1. at \in Nat /\ lengths[m] \in Nat
            BY <1>1 DEF IInv, TypeOK
          <6> QED BY <4>2, <5>1, <6>1
        <5>4. want'[l][pos] = want[l][pos]
          BY <4>2, <5>2
        <5> QED BY <5>3, <5>4, <2>1
      <4> QED BY <4>1, <4>2
    <3>2. EndsUpAs(p, CellOf(l, h, pos - 1), w[1], h, w[2])
      BY <3>1 DEF Data, RowsEndUp
    <3> QED BY <3>2, <2>1, <1>8
  <2>3. CASE l = m /\ pos > at
    <3>1. PICK j \in 1..n : pos = at + j
      <4>1. lengths'[l] = at + n
        BY <2>3, <1>1, <1>3 DEF IInv, TypeOK
      <4>2. pos - at \in 1..n /\ pos = at + (pos - at)
        BY <4>1, <2>3, <1>1
      <4> QED BY <4>2
    <3>2. w = <<issued[res[host.id][p]], j>>
      BY <3>1, <2>1, <2>3, <1>4, <1>6
    <3>3. PICK k \in 1..CopyCount : CopyHead(k) = h /\ CopyPlane(k) = p
      <4> DEFINE k == 2 * h + (IF p = "key" THEN 1 ELSE 2)
      <4>1. h \in Nat /\ h <= NumHeads - 1
        BY KvShapeAssumption DEF Heads
      <4>2. k \in 1..CopyCount /\ (k - 1) \div 2 = h /\ (p = "key" <=> k % 2 = 1)
        BY <4>1, KvShapeAssumption DEF CopyCount
      <4>3. CopyHead(k) = h /\ CopyPlane(k) = p
        BY <4>2 DEF CopyHead, CopyPlane, Planes
      <4> QED BY <4>2, <4>3
    <3>4. EndsUpAs(p, CellOf(l, h, at + j - 1), issued[res[host.id][p]], h, j)
      <4>1. k \in 1..(host.next - 1)
        BY <1>1, KvShapeAssumption DEF CopyCount
      <4> QED BY <4>1, <3>1, <3>3, <2>3, <1>1 DEF Data, SubmittedEndsUp
    <3>5. EndsUpAs(p, CellOf(l, h, pos - 1), w[1], h, w[2])
      <4>1. pos - 1 = at + j - 1
        BY <3>1, <1>1
      <4>2. w[1] = issued[res[host.id][p]] /\ w[2] = j
        BY <3>2
      <4> QED BY <4>1, <4>2, <3>4
    <3> QED BY <3>5, <2>1, <1>8
  <2> QED BY <2>2, <2>3, <1>1
<1>11. SubmittedEndsUp'
  BY <1>3 DEF SubmittedEndsUp
<1> QED BY <1>7, <1>9, <1>10, <1>11 DEF Data

\* Every step preserves the invariant of the contents.
LEMMA NextData == ASSUME IInv, Data, [Next]_vars PROVE Data'
<1>1. ASSUME NEW b \in Sources, NEW y \in Payloads, WriteSource(b, y) PROVE Data'
  BY <1>1, WriteData
<1>2. CASE SubmitCopy
  BY <1>2, SubmitData
<1>3. CASE Commit
  BY <1>3, CommitData
<1>4. CASE DeviceStep
  BY <1>4, DeviceData
<1>5. ASSUME NEW l \in Layers, NEW ks \in Sources, NEW vs \in Sources,
             BeginAppend(l, ks, vs, SrcTokens[ks])
      PROVE  Data'
  <2>1. UNCHANGED <<lengths, stream, planes, srcmem, issued, want>>
    BY <1>5 DEF BeginAppend
  <2>2. /\ host'.start = lengths'[host'.layer]
        /\ host'.n = 0 \/ host'.next = 1
    BY <1>5 DEF BeginAppend
  <2> QED BY <2>1, <2>2, QuietData
<1>6. CASE EnterFail \/ SubmitFail \/ DrainOk \/ DrainFail
  <2>1. UNCHANGED <<lengths, stream, planes, srcmem, issued, want>>
    BY <1>6 DEF EnterFail, SubmitFail, DrainOk, DrainFail
  <2>2. host'.pc # "submitting"
    BY <1>6 DEF EnterFail, SubmitFail, DrainOk, DrainFail, NoAppend, IInv, TypeOK, HostStates
  <2> QED BY <2>1, <2>2, QuietData
<1>7. CASE \/ \E a \in Appends : Retire(a) \/ Leak(a)
           \/ \E b \in Sources : DropSource(b)
           \/ DropCache \/ UNCHANGED vars
  <2>1. UNCHANGED <<lengths, stream, planes, srcmem, issued, want, host, res>>
    BY <1>7 DEF Retire, Leak, DropSource, DropCache, vars
  <2> QED BY <2>1, QuietData
<1>8. ASSUME NEW n \in 0..Capacity, Truncate(n) PROVE Data'
  <2> DEFINE f == [l \in Layers |-> n]
  <2>1. f \in [Layers -> Nat] /\ \A l \in Layers : f[l] = n
    OBVIOUS
  <2> HIDE DEF f
  <2>3. /\ \A l \in Layers : n <= lengths[l]
        /\ lengths' = [l \in Layers |-> n]
        /\ want' = [l \in Layers |-> SubSeq(want[l], 1, n)]
    BY <1>8 DEF Truncate, IInv, TypeOK
  <2>2. /\ \A l \in Layers : f[l] <= lengths[l]
        /\ lengths' = [l \in Layers |-> f[l]]
        /\ want' = [l \in Layers |-> SubSeq(want[l], 1, f[l])]
    <3>1. [l \in Layers |-> f[l]] = [l \in Layers |-> n]
      BY <2>1
    <3>2. [l \in Layers |-> SubSeq(want[l], 1, f[l])] = [l \in Layers |-> SubSeq(want[l], 1, n)]
      BY <2>1
    <3> QED BY <2>1, <2>3, <3>1, <3>2
  <2> QED BY <2>1, <2>2, <1>8, ShorterData DEF Truncate, IInv
<1>9. ASSUME NEW m \in Layers, ResetLayer(m) PROVE Data'
  <2>1. PICK f \in [Layers -> Nat] :
           \A l \in Layers : f[l] = IF l = m THEN 0 ELSE lengths[l]
    <3>1. [l \in Layers |-> IF l = m THEN 0 ELSE lengths[l]] \in [Layers -> Nat]
      BY DEF IInv, TypeOK
    <3> QED BY <3>1
  <2>2. /\ \A l \in Layers : f[l] <= lengths[l]
        /\ lengths' = [l \in Layers |-> f[l]]
    <3>1. /\ lengths \in [Layers -> 0..Capacity] /\ Capacity \in Nat
          /\ lengths' = [lengths EXCEPT ![m] = 0]
      BY <1>9, KvShapeAssumption DEF ResetLayer, IInv, TypeOK
    <3>2. \A l \in Layers : f[l] <= lengths[l]
      BY <3>1, <2>1
    <3>3. lengths' \in [Layers -> 0..Capacity] /\ \A l \in Layers : lengths'[l] = f[l]
      BY <3>1, <2>1
    <3> QED BY <3>2, <3>3
  <2>3. \A l \in Layers : want'[l] = SubSeq(want[l], 1, f[l])
    <3> SUFFICES ASSUME NEW l \in Layers PROVE want'[l] = SubSeq(want[l], 1, f[l])
      OBVIOUS
    <3> DEFINE RowT == [key : Contents \X Nat, value : Contents \X Nat]
    <3>1. want[l] \in Seq(RowT) /\ Len(want[l]) = lengths[l]
          /\ want' = [want EXCEPT ![m] = <<>>] /\ want \in [Layers -> Seq(RowT)]
      BY <1>9 DEF Data, DataOK, ResetLayer
    <3> HIDE DEF RowT
    <3>2. CASE l = m
      BY <3>1, <3>2, <2>1, SubSeqEmpty
    <3>3. CASE l # m
      BY <3>1, <3>3, <2>1, SubSeqFull
    <3> QED BY <3>2, <3>3
  <2>4. want' = [l \in Layers |-> SubSeq(want[l], 1, f[l])]
    <3>1. want' \in [Layers -> {want'[l] : l \in Layers}]
      BY <1>9 DEF ResetLayer, Data, DataOK
    <3> QED BY <2>3, <3>1
  <2> QED BY <2>2, <2>4, <1>9, ShorterData DEF ResetLayer, IInv
<1> QED
  BY <1>1, <1>2, <1>3, <1>4, <1>5, <1>6, <1>7, <1>8, <1>9 DEF Next, Host

\* A cell that ends up right holds its row, or a copy into it is queued.
LEMMA DataRows == Data => CommittedRows
  BY DEF Data, RowsEndUp, CommittedRows, EndsUpAs, CopiesInto


\* The lengths are the authority for what may be consumed (kv_cache.rs:95-96):
\* in every behaviour, whatever appends failed, were cut back or written over,
\* a position below its layer's length holds in every head and both planes the
\* row the caller appended there, unless a copy into it is still queued.
THEOREM CommittedHolds == Spec => []CommittedRows
<1>1. Init => IInv /\ Data
  BY InitIInv, InitData
<1>2. (IInv /\ Data) /\ [Next]_vars => (IInv /\ Data)'
  BY NextIInv, NextData
<1> QED BY <1>1, <1>2, DataRows, PTL DEF Spec
=============================================================================
