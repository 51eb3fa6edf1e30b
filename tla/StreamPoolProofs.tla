--------------------------- MODULE StreamPoolProofs ---------------------------
(***************************************************************************)
(* TLAPS proofs about StreamPool, for every number of streams, buffers,    *)
(* blocks, uses and events: a use that executes meets the block of its own *)
(* buffer, after the writes it was shared behind.                          *)
(***************************************************************************)
EXTENDS StreamPool, SequenceTheorems, TLAPS

Sized ==
    /\ \A t \in Streams : Len(queue[t]) \in Nat /\ DOMAIN queue[t] = 1..Len(queue[t])
    /\ Home \in Streams /\ Consumers \subseteq Streams /\ Home \notin Consumers

\* The host only appends, and at most one operation to a stream.
Grows ==
    /\ Sized /\ Sized'
    /\ \A t \in Streams : /\ Len(queue[t]) <= Len(queue'[t])
                           /\ Len(queue'[t]) <= Len(queue[t]) + 1
                           /\ \A i \in DOMAIN queue[t] : queue'[t][i] = queue[t][i]

New(t, i) == i \in DOMAIN queue'[t] /\ i \notin DOMAIN queue[t]

\* Stream queues are sequences: positions run from 1 to the length.
LEMMA TypedSized == TypeOK => Sized
  BY StreamPoolAssumption DEF TypeOK, Sized, Streams

\* One operation joins one stream.
LEMMA OneAppended ==
    ASSUME TypeOK, NEW s \in Streams, NEW x \in Ops,
           queue' = [queue EXCEPT ![s] = Append(@, x)]
    PROVE  /\ queue' \in [Streams -> Seq(Ops)]
           /\ Grows
           /\ New(s, Len(queue[s]) + 1)
           /\ \A t \in Streams : \A i : New(t, i) =>
                 t = s /\ i = Len(queue[s]) + 1 /\ queue'[t][i] = x
<1>1. queue \in [Streams -> Seq(Ops)] /\ Sized
  BY TypedSized DEF TypeOK
<1>2. queue'[s] = Append(queue[s], x) /\ \A t \in Streams : t # s => queue'[t] = queue[t]
  BY <1>1
<1>3. /\ Append(queue[s], x) \in Seq(Ops)
      /\ Len(queue'[s]) = Len(queue[s]) + 1
      /\ DOMAIN queue'[s] = 1..(Len(queue[s]) + 1)
      /\ \A i \in 1..Len(queue[s]) : queue'[s][i] = queue[s][i]
      /\ queue'[s][Len(queue[s]) + 1] = x
  <2>1. PICK q \in Seq(Ops) : q = queue[s]
    BY <1>1
  <2>2. /\ Append(q, x) \in Seq(Ops) /\ Len(Append(q, x)) = Len(q) + 1
        /\ DOMAIN Append(q, x) = 1..(Len(q) + 1)
        /\ \A i \in 1..Len(q) : Append(q, x)[i] = q[i]
        /\ Append(q, x)[Len(q) + 1] = x
    OBVIOUS
  <2> QED BY <2>1, <2>2, <1>2
<1>4. queue' \in [Streams -> Seq(Ops)]
  BY <1>1, <1>3
<1>5. Grows
  <2>1. \A t \in Streams : Len(queue'[t]) \in Nat /\ DOMAIN queue'[t] = 1..Len(queue'[t])
    BY <1>1, <1>2, <1>3 DEF Sized
  <2>2. Sized'
    BY <2>1, <1>1 DEF Sized
  <2>3. \A t \in Streams : /\ Len(queue[t]) <= Len(queue'[t])
                           /\ Len(queue'[t]) <= Len(queue[t]) + 1
                           /\ \A i \in DOMAIN queue[t] : queue'[t][i] = queue[t][i]
    BY <1>1, <1>2, <1>3 DEF Sized
  <2> QED BY <1>1, <2>2, <2>3 DEF Grows
<1>6. New(s, Len(queue[s]) + 1)
  BY <1>1, <1>3 DEF New, Sized
<1>7. ASSUME NEW t \in Streams, NEW i, New(t, i)
      PROVE  t = s /\ i = Len(queue[s]) + 1 /\ queue'[t][i] = x
  BY <1>1, <1>2, <1>3, <1>7 DEF New, Sized
<1> QED BY <1>4, <1>5, <1>6, <1>7

\* A step that submits nothing.
LEMMA NothingAppended ==
    ASSUME TypeOK, UNCHANGED queue
    PROVE  Grows /\ \A t \in Streams : \A i : ~New(t, i)
<1>1. Sized
  BY TypedSized
<1>2. Sized'
  BY <1>1 DEF Sized
<1> QED BY <1>1, <1>2 DEF Grows, New, Sized

\* What comes after a position still does when operations are appended.
LEMMA BeforeGrows ==
    ASSUME Grows, NEW s \in Streams, NEW i, NEW t \in Streams, NEW p \in Nat, NEW r \in Nat,
           p <= r, Before(s, i, t, p)
    PROVE  Before(s, i, t, r)'
<1>1. PICK j \in DOMAIN queue[s], q \in DOMAIN queue[t] :
        /\ i < j /\ q < p
        /\ queue[s][j].kind = "record" /\ queue[t][q].kind = "wait"
        /\ queue[s][j].ev = queue[t][q].ev
  BY DEF Before, Kinds
<1>2. /\ j \in DOMAIN queue'[s] /\ q \in DOMAIN queue'[t]
      /\ queue'[s][j] = queue[s][j] /\ queue'[t][q] = queue[t][q]
  BY <1>1 DEF Grows, Sized
<1>3. q < r
  BY <1>1 DEF Grows, Sized
<1> QED BY <1>1, <1>2, <1>3 DEF Before, Kinds

\* An operation that is in the allocating stream stays there while the host submits.
LEMMA PendingGrows ==
    ASSUME Grows, NEW kind, NEW b
    PROVE  /\ Pending(kind, b) => Pending(kind, b)'
           /\ Pending(kind, b)' =>
                 \/ Pending(kind, b)
                 \/ \E i : New(Home, i) /\ Kinds(Home, i)' = kind /\ Buf(Home, i)' = b
  BY DEF Grows, Sized, New, Pending, Kinds, Buf

-----------------------------------------------------------------------------
\* What every step of the host has in common.

EventsShape ==
    /\ events \in Nat /\ events' \in Nat /\ events <= events'
    /\ \A t \in Streams : \A i : New(t, i) /\ Kinds(t, i)' = "record" =>
         queue'[t][i].ev = events + 1 /\ events' = events + 1
    /\ \A t, u \in Streams : \A i, j :
         New(t, i) /\ New(u, j) /\ Kinds(t, i)' = "record" /\ Kinds(u, j)' = "record"
           => t = u /\ i = j

OpsShape ==
    \A t \in Streams : \A i : New(t, i) =>
        /\ Kinds(t, i)' \in {"alloc", "free"} => t = Home
        /\ Kinds(t, i)' \in {"alloc", "free", "read", "write"} => Buf(t, i)' \in Buffers
        /\ Buf(t, i)' \in Buffers =>
              /\ state'[Buf(t, i)'] # "unused" /\ state[Buf(t, i)'] # "dropped"
              /\ Kinds(t, i)' = "alloc" <=> state[Buf(t, i)'] = "unused"
        /\ Kinds(t, i)' = "free" =>
              /\ state[Buf(t, i)'] = "dropping" /\ state'[Buf(t, i)'] = "dropped"
              /\ consumers[Buf(t, i)'] = <<>>
        /\ IsUse(t, i)' /\ t \in Consumers =>
              /\ t \in ToSet(consumers[Buf(t, i)']) /\ state[Buf(t, i)'] = "live"
              /\ queue'[t][i].need = granted[Buf(t, i)'][t]

StateShape ==
    \A b \in Buffers :
        /\ \/ state'[b] = state[b]
           \/ state[b] = "unused" /\ state'[b] = "live"
              /\ \E i : New(Home, i) /\ Kinds(Home, i)' = "alloc" /\ Buf(Home, i)' = b
           \/ state[b] = "live" /\ state'[b] = "dropping" /\ sharing.buf # b
              /\ sharing' = sharing
           \/ state[b] = "dropping" /\ state'[b] = "dropped"
              /\ \E i : New(Home, i) /\ Kinds(Home, i)' = "free" /\ Buf(Home, i)' = b
        /\ state[b] # "unused" => block'[b] = block[b]
        /\ state[b] = "unused" /\ state'[b] # "unused" =>
              \A c \in Buffers : c # b =>
                 /\ state'[c] = state[c]
                 /\ state[c] \in {"live", "dropping"} => block'[c] # block'[b]

WritesShape ==
    /\ \A b \in Buffers :
         /\ wrote[b] \in Nat /\ done[b] \in Nat /\ wrote'[b] \in Nat
         /\ wrote[b] <= wrote'[b] /\ wrote'[b] + uses <= wrote[b] + uses'
         /\ wrote'[b] # wrote[b] => /\ wrote'[b] = wrote[b] + 1
                                   /\ \E i : /\ New(Home, i) /\ Kinds(Home, i)' = "write"
                                            /\ Buf(Home, i)' = b
                                            /\ queue'[Home][i].need = wrote[b] + 1
    /\ \A i : New(Home, i) /\ Kinds(Home, i)' = "write" =>
         queue'[Home][i].need = wrote[Buf(Home, i)'] + 1 /\ queue'[Home][i].need = wrote'[Buf(Home, i)']

ConsumersShape ==
    /\ unordered \subseteq unordered'
    /\ \A b \in Buffers : consumers'[b] # <<>> => state'[b] \in {"live", "dropping"}
    /\ \A b \in Buffers : \A s \in Consumers :
        /\ granted[b][s] \in Nat
        /\ s \in ToSet(consumers'[b]) =>
              \/ s \in ToSet(consumers[b]) /\ granted'[b][s] = granted[b][s]
              \/ /\ sharing.pc = "waiting" /\ sharing.buf = b /\ sharing.to = s
                 /\ granted'[b][s] = sharing.ver /\ state' = state
        /\ s \in ToSet(consumers[b]) =>
              \/ s \in ToSet(consumers'[b])
              \/ b \in unordered'
              \/ /\ state[b] = "dropping" /\ state' = state
                 /\ \E i, j : /\ New(s, i) /\ New(Home, j) /\ Kinds(s, i)' = "record"
                              /\ Kinds(Home, j)' = "wait" /\ queue'[s][i].ev = queue'[Home][j].ev

HostShape ==
    /\ Grows /\ UNCHANGED <<fired, owner, done>>
    /\ EventsShape /\ OpsShape /\ StateShape /\ WritesShape /\ ConsumersShape

-----------------------------------------------------------------------------
\* Every position of a longer queue is an old one or a new one.
LEMMA OldOrNew ==
    ASSUME Grows, NEW t \in Streams
    PROVE  /\ \A i : i \in DOMAIN queue'[t] => i \in DOMAIN queue[t] \/ New(t, i)
           /\ \A i : i \in DOMAIN queue[t] => i \in DOMAIN queue'[t] /\ ~New(t, i)
           /\ \A i : i \in DOMAIN queue[t] =>
                 /\ Kinds(t, i)' = Kinds(t, i) /\ Buf(t, i)' = Buf(t, i)
                 /\ IsUse(t, i)' <=> IsUse(t, i)
                 /\ queue'[t][i].ev = queue[t][i].ev /\ queue'[t][i].need = queue[t][i].need
           /\ \A i, j : i \in DOMAIN queue[t] /\ New(t, j) => i < j
           /\ \A i, j : New(t, i) /\ New(t, j) => i = j
  BY DEF Grows, Sized, New, Kinds, Buf, IsUse

\* The host records an event once.
LEMMA HostRecorded == ASSUME RecordedOnce, HostShape PROVE RecordedOnce'
<1>1. /\ Grows /\ fired' = fired /\ events \in Nat /\ events' \in Nat /\ events <= events'
      /\ fired \subseteq 1..events
  BY DEF HostShape, EventsShape, RecordedOnce
<1>2. ASSUME NEW t \in Streams, NEW i \in DOMAIN queue'[t], Kinds(t, i)' = "record"
      PROVE  \/ i \in DOMAIN queue[t] /\ Kinds(t, i) = "record" /\ queue'[t][i].ev = queue[t][i].ev
                /\ queue[t][i].ev \in (1..events) \ fired
             \/ New(t, i) /\ queue'[t][i].ev = events + 1 /\ events' = events + 1
  BY <1>1, <1>2, OldOrNew DEF HostShape, EventsShape, RecordedOnce
<1>3. ASSUME NEW t \in Streams, NEW i \in DOMAIN queue'[t], Kinds(t, i)' = "record"
      PROVE  queue'[t][i].ev \in (1..events') \ fired'
  BY <1>1, <1>2, <1>3
<1>4. ASSUME NEW t \in Streams, NEW i \in DOMAIN queue'[t], Kinds(t, i)' = "record",
             NEW u \in Streams, NEW j \in DOMAIN queue'[u], Kinds(u, j)' = "record",
             queue'[t][i].ev = queue'[u][j].ev
      PROVE  t = u /\ i = j
  <2>1. CASE New(t, i) /\ New(u, j)
    BY <2>1, <1>4 DEF HostShape, EventsShape
  <2>2. CASE ~New(t, i) /\ ~New(u, j)
    <3>1. /\ i \in DOMAIN queue[t] /\ Kinds(t, i) = "record" /\ queue'[t][i].ev = queue[t][i].ev
          /\ j \in DOMAIN queue[u] /\ Kinds(u, j) = "record" /\ queue'[u][j].ev = queue[u][j].ev
      BY <2>2, <1>2, <1>4
    <3> QED BY <3>1, <1>4 DEF RecordedOnce
  <2>3. CASE New(t, i) /\ ~New(u, j)
    <3>1. queue'[t][i].ev = events + 1 /\ queue'[u][j].ev \in 1..events
      BY <2>3, <1>1, <1>2, <1>4, OldOrNew
    <3> QED BY <3>1, <1>1, <1>4
  <2>4. CASE ~New(t, i) /\ New(u, j)
    <3>1. queue'[u][j].ev = events + 1 /\ queue'[t][i].ev \in 1..events
      BY <2>4, <1>1, <1>2, <1>4, OldOrNew
    <3> QED BY <3>1, <1>1, <1>4
  <2> QED BY <2>1, <2>2, <2>3, <2>4
<1> QED BY <1>1, <1>3, <1>4 DEF RecordedOnce

\* cuMemAllocAsync is the first operation of a buffer and cuMemFreeAsync the last one:
\* alloc makes the value, Drop consumes it.
LEMMA HostLife == ASSUME LifeInOrder, OpsOfValues, HostShape PROVE LifeInOrder'
<1>1. Grows /\ Home \in Streams
  BY DEF HostShape, Grows, Sized
<1>2. SUFFICES ASSUME NEW i \in DOMAIN queue'[Home], NEW j \in DOMAIN queue'[Home], i < j,
                      Buf(Home, i)' = Buf(Home, j)', Buf(Home, i)' \in Buffers
               PROVE  Kinds(Home, j)' # "alloc" /\ Kinds(Home, i)' # "free"
  BY DEF LifeInOrder
<1>3. i \in DOMAIN queue[Home] /\ Kinds(Home, i)' = Kinds(Home, i) /\ Buf(Home, i)' = Buf(Home, i)
  <2>1. ~New(Home, i)
    <3>1. SUFFICES ASSUME New(Home, i) PROVE FALSE
      OBVIOUS
    <3>2. i \in Nat /\ j \in Nat
      BY <1>1 DEF Grows, Sized
    <3>3. CASE j \in DOMAIN queue[Home]
      <4>1. j < i
        BY <3>1, <3>3, <1>1, OldOrNew
      <4> QED BY <4>1, <3>2, <1>2
    <3>4. CASE New(Home, j)
      <4>1. j = i
        BY <3>1, <3>4, <1>1, OldOrNew
      <4> QED BY <4>1, <3>2, <1>2
    <3> QED BY <3>3, <3>4, <1>1, OldOrNew
  <2> QED BY <2>1, <1>1, OldOrNew
<1>4. CASE j \in DOMAIN queue[Home]
  BY <1>1, <1>2, <1>3, <1>4, OldOrNew DEF LifeInOrder
<1>5. CASE New(Home, j)
  <2>1. state[Buf(Home, i)] # "unused" /\ (Kinds(Home, i) = "free" => state[Buf(Home, i)] = "dropped")
    BY <1>1, <1>2, <1>3 DEF OpsOfValues
  <2>2. PICK b : b = Buf(Home, i) /\ b = Buf(Home, j)' /\ b \in Buffers
    BY <1>2, <1>3
  <2>3. /\ state[b] # "dropped"
        /\ Kinds(Home, j)' = "alloc" <=> state[b] = "unused"
    BY <2>2, <1>1, <1>5 DEF HostShape, OpsShape
  <2> QED BY <2>1, <2>2, <2>3, <1>3
<1> QED BY <1>1, <1>4, <1>5, OldOrNew

\* Every operation names a value that exists; only Drop submits a free.
LEMMA HostOps == ASSUME OpsOfValues, HostShape PROVE OpsOfValues'
<1>1. Grows /\ Home \in Streams
  BY DEF HostShape, Grows, Sized
<1>2. SUFFICES ASSUME NEW s \in Streams, NEW i \in DOMAIN queue'[s], NEW b, NEW k,
                      b = Buf(s, i)', k = Kinds(s, i)'
      PROVE  /\ k \in {"alloc", "free"} => s = Home
             /\ k \in {"alloc", "free", "read", "write"} => b \in Buffers
             /\ b \in Buffers => state'[b] # "unused"
             /\ k = "free" => state'[b] = "dropped"
             /\ s = Home /\ b \in Buffers /\ state'[b] = "dropped" => Pending("free", b)'
  BY DEF OpsOfValues, Pending, Buf, Kinds
<1>3. \A c \in Buffers : /\ state[c] # "unused" => state'[c] # "unused"
                         /\ state[c] = "dropped" => state'[c] = "dropped"
                         /\ state'[c] = "dropped" /\ state[c] # "dropped" => Pending("free", c)'
  <2> SUFFICES ASSUME NEW c \in Buffers
               PROVE  /\ state[c] # "unused" => state'[c] # "unused"
                      /\ state[c] = "dropped" => state'[c] = "dropped"
                      /\ state'[c] = "dropped" /\ state[c] # "dropped" => Pending("free", c)'
    OBVIOUS
  <2>1. state[c] # "unused" => state'[c] # "unused"
    BY DEF HostShape, StateShape
  <2>2. state[c] = "dropped" => state'[c] = "dropped"
    BY DEF HostShape, StateShape
  <2>3. ASSUME state'[c] = "dropped", state[c] # "dropped" PROVE Pending("free", c)'
    <3>1. PICK r : New(Home, r) /\ Kinds(Home, r)' = "free" /\ Buf(Home, r)' = c
      BY <2>3 DEF HostShape, StateShape
    <3> QED BY <3>1 DEF New, Pending
  <2> QED BY <2>1, <2>2, <2>3
<1>4. CASE i \in DOMAIN queue[s]
  <2>1. b = Buf(s, i) /\ k = Kinds(s, i)
    BY <1>1, <1>2, <1>4, OldOrNew
  <2>3. /\ k \in {"alloc", "free"} => s = Home
        /\ k \in {"alloc", "free", "read", "write"} => b \in Buffers
        /\ b \in Buffers => state[b] # "unused"
        /\ k = "free" => state[b] = "dropped"
        /\ s = Home /\ b \in Buffers /\ state[b] = "dropped" => Pending("free", b)
    BY <2>1, <1>4 DEF OpsOfValues
  <2>4. Pending("free", b) => Pending("free", b)'
    BY <1>1, PendingGrows
  <2> QED BY <2>3, <2>4, <1>3
<1>5. CASE New(s, i)
  BY <1>2, <1>3, <1>5 DEF HostShape, OpsShape
<1> QED BY <1>1, <1>4, <1>5, OldOrNew

\* alloc takes a block no live value holds: what held it is dropped and its free stands before.
LEMMA HostTurns == ASSUME TypeOK, BlocksTakenInTurn, OpsOfValues, HostShape PROVE BlocksTakenInTurn'
<1>1. Grows /\ Home \in Streams
  BY DEF HostShape, Grows, Sized
<1>2. ASSUME NEW b \in Buffers, NEW c \in Buffers, OverBefore(b, c)
      PROVE  OverBefore(b, c)'
  <2>1. state[b] = "dropped" /\ state'[b] = "dropped"
    BY <1>2 DEF OverBefore, HostShape, StateShape
  <2>2. ASSUME NEW i \in DOMAIN queue'[Home], Kinds(Home, i)' \in {"alloc", "free"},
               Buf(Home, i)' = b
        PROVE  \E j \in DOMAIN queue'[Home] :
                  i < j /\ Kinds(Home, j)' = "alloc" /\ Buf(Home, j)' = c
    <3>1. ~New(Home, i)
      BY <1>1, <2>1, <2>2 DEF HostShape, OpsShape
    <3>2. i \in DOMAIN queue[Home] /\ Kinds(Home, i) \in {"alloc", "free"} /\ Buf(Home, i) = b
      BY <3>1, <2>2, <1>1, OldOrNew
    <3>3. PICK j \in DOMAIN queue[Home] :
             i < j /\ Kinds(Home, j) = "alloc" /\ Buf(Home, j) = c
      BY <3>2, <1>2 DEF OverBefore
    <3> QED BY <3>3, <1>1, OldOrNew
  <2> QED BY <2>1, <2>2 DEF OverBefore
\* The newcomer: the block was left by a dropped buffer, all of whose operations stand before.
<1>3. ASSUME NEW b \in Buffers, NEW c \in Buffers, b # c, block'[b] = block'[c],
             state[b] = "unused", state'[b] # "unused", state'[c] # "unused"
      PROVE  OverBefore(c, b)'
  <2>1. state'[b] = "live" /\ state'[c] = state[c] /\ state[c] # "unused"
        /\ ~(state[c] \in {"live", "dropping"})
    BY <1>3 DEF HostShape, StateShape
  <2>2. PICK k : New(Home, k) /\ Kinds(Home, k)' = "alloc" /\ Buf(Home, k)' = b
    BY <1>3 DEF HostShape, StateShape
  <2>3. state[c] = "dropped"
    BY <2>1, <1>3 DEF HostShape, StateShape, TypeOK
  <2>4. ASSUME NEW i \in DOMAIN queue'[Home], Kinds(Home, i)' \in {"alloc", "free"},
               Buf(Home, i)' = c
        PROVE  i < k
    BY <2>2, <2>4, <1>1, <1>3, OldOrNew
  <2> QED BY <2>1, <2>2, <2>3, <2>4 DEF OverBefore, New
<1>4. SUFFICES ASSUME NEW b \in Buffers, NEW c \in Buffers, b # c, block'[b] = block'[c],
                      state'[b] # "unused", state'[c] # "unused"
               PROVE  OverBefore(b, c)' \/ OverBefore(c, b)'
  BY DEF BlocksTakenInTurn
<1>5. CASE state[b] = "unused" \/ state[c] = "unused"
  BY <1>3, <1>4, <1>5
<1>6. CASE state[b] # "unused" /\ state[c] # "unused"
  <2>1. block[b] = block[c]
    BY <1>4, <1>6 DEF HostShape, StateShape
  <2> QED BY <2>1, <1>2, <1>4, <1>6 DEF BlocksTakenInTurn
<1> QED BY <1>5, <1>6

\* Submitting changes nothing on the device: a buffer holds its block as before, a new one
\* not yet.
LEMMA HostOwner == ASSUME OwnerHolds, OpsOfValues, HostShape PROVE OwnerHolds'
<1>1. Grows /\ Home \in Streams /\ owner' = owner
  BY DEF HostShape, Grows, Sized
<1>2. ASSUME NEW b \in Buffers, state[b] # "unused"
      PROVE  block'[b] = block[b] /\ state'[b] # "unused" /\ (Holds(b)' <=> Holds(b))
  <2>1. block'[b] = block[b] /\ state'[b] # "unused"
    BY <1>2 DEF HostShape, StateShape
  <2>2. Pending("alloc", b)' <=> Pending("alloc", b)
    <3>1. ASSUME NEW i, New(Home, i), Kinds(Home, i)' = "alloc", Buf(Home, i)' = b PROVE FALSE
      BY <3>1, <1>1, <1>2 DEF HostShape, OpsShape
    <3> QED BY <3>1, <1>1, PendingGrows
  <2>3. (state'[b] = "dropped" => Pending("free", b)') <=> (state[b] = "dropped" => Pending("free", b))
    <3>1. CASE state[b] = "dropped"
      <4>1. state'[b] = "dropped"
        BY <3>1 DEF HostShape, StateShape
      <4>2. ASSUME NEW i, New(Home, i), Kinds(Home, i)' = "free", Buf(Home, i)' = b PROVE FALSE
        BY <4>2, <3>1, <1>1 DEF HostShape, OpsShape
      <4>3. Pending("free", b)' <=> Pending("free", b)
        BY <4>2, <1>1, PendingGrows
      <4> QED BY <3>1, <4>1, <4>3
    <3>2. CASE state[b] # "dropped" /\ state'[b] = "dropped"
      <4>1. PICK k : New(Home, k) /\ Kinds(Home, k)' = "free" /\ Buf(Home, k)' = b
        BY <3>2 DEF HostShape, StateShape
      <4> QED BY <4>1, <3>2 DEF New, Pending
    <3>3. CASE state[b] # "dropped" /\ state'[b] # "dropped"
      BY <3>3
    <3> QED BY <3>1, <3>2, <3>3
  <2> QED BY <2>1, <2>2, <2>3, <1>2 DEF Holds
<1>3. ASSUME NEW b \in Buffers, state[b] = "unused"
      PROVE  ~Holds(b) /\ ~Holds(b)'
  <2>1. ~Holds(b)
    BY <1>3 DEF Holds
  <2>2. CASE state'[b] = "unused"
    BY <2>1, <2>2 DEF Holds
  <2>3. CASE state'[b] # "unused"
    <3>1. PICK k : New(Home, k) /\ Kinds(Home, k)' = "alloc" /\ Buf(Home, k)' = b
      BY <1>3, <2>3 DEF HostShape, StateShape
    <3>2. Pending("alloc", b)'
      BY <3>1 DEF New, Pending
    <3> QED BY <2>1, <3>2 DEF Holds
  <2> QED BY <2>2, <2>3
<1>4. ASSUME NEW b \in Buffers, NEW k \in Blocks
      PROVE  owner'[k] = b <=> k = block'[b] /\ Holds(b)'
  <2>1. owner[k] = b <=> k = block[b] /\ Holds(b)
    BY DEF OwnerHolds
  <2> QED BY <2>1, <1>1, <1>2, <1>3
<1> QED BY <1>4 DEF OwnerHolds

\* A write on Home carries the next number.
LEMMA HostWrites == ASSUME WritesNumbered, OpsOfValues, HostShape, uses \in Nat, uses' \in Nat
                    PROVE  WritesNumbered'
<1>1. Grows /\ Home \in Streams /\ done' = done
  BY DEF HostShape, Grows, Sized
<1>2. ASSUME NEW b \in Buffers
      PROVE  /\ wrote[b] \in Nat /\ done[b] \in Nat /\ wrote'[b] \in Nat
             /\ wrote[b] <= wrote'[b] /\ wrote'[b] <= wrote[b] + 1
             /\ wrote[b] <= uses /\ wrote'[b] <= uses'
  BY DEF HostShape, WritesShape, WritesNumbered
<1>3. ASSUME NEW i \in DOMAIN queue'[Home], Kinds(Home, i)' = "write",
             NEW b, b = Buf(Home, i)'
      PROVE  /\ b \in Buffers
             /\ \/ i \in DOMAIN queue[Home] /\ Kinds(Home, i) = "write" /\ Buf(Home, i) = b
                   /\ queue'[Home][i].need = queue[Home][i].need
                   /\ queue[Home][i].need \in (done[b] + 1)..wrote[b]
                \/ /\ New(Home, i) /\ queue'[Home][i].need = wrote[b] + 1
                   /\ wrote'[b] = wrote[b] + 1
  <2>1. CASE New(Home, i)
    BY <2>1, <1>1, <1>3 DEF HostShape, OpsShape, WritesShape
  <2>2. CASE i \in DOMAIN queue[Home]
    <3>1. Kinds(Home, i) = "write" /\ Buf(Home, i) = b /\ queue'[Home][i].need = queue[Home][i].need
      BY <2>2, <1>1, <1>3, OldOrNew
    <3> QED BY <3>1, <2>2, <1>1 DEF OpsOfValues, WritesNumbered
  <2> QED BY <2>1, <2>2, <1>1, OldOrNew
<1>4. ASSUME NEW i \in DOMAIN queue'[Home], Kinds(Home, i)' = "write",
             NEW b, b = Buf(Home, i)'
      PROVE  queue'[Home][i].need \in (done[b] + 1)..wrote'[b]
  <2>1. b \in Buffers
    BY <1>3, <1>4
  <2>2. done[b] <= wrote[b]
    BY <2>1 DEF WritesNumbered
  <2> QED BY <2>1, <2>2, <1>2, <1>3, <1>4
<1>5. ASSUME NEW i \in DOMAIN queue'[Home], NEW j \in DOMAIN queue'[Home], i < j,
             Kinds(Home, i)' = "write", Kinds(Home, j)' = "write",
             NEW b, b = Buf(Home, i)', b = Buf(Home, j)'
      PROVE  queue'[Home][i].need < queue'[Home][j].need
  <2>1. b \in Buffers
    BY <1>3, <1>5
  <2>2. ~New(Home, i)
    <3>1. i \in Nat /\ j \in Nat
      BY <1>1 DEF Grows, Sized
    <3>2. ASSUME New(Home, i) PROVE j <= i
      <4>1. CASE j \in DOMAIN queue[Home]
        <5>1. j < i
          BY <4>1, <3>2, <1>1, OldOrNew
        <5> QED BY <5>1, <3>1
      <4>2. CASE New(Home, j)
        <5>1. i = j
          BY <4>2, <3>2, <1>1, OldOrNew
        <5> QED BY <5>1, <3>1
      <4> QED BY <4>1, <4>2, <1>1, OldOrNew
    <3> QED BY <3>1, <3>2, <1>5
  <2>3. /\ i \in DOMAIN queue[Home] /\ Kinds(Home, i) = "write" /\ Buf(Home, i) = b
        /\ queue'[Home][i].need = queue[Home][i].need
        /\ queue[Home][i].need \in (done[b] + 1)..wrote[b]
    BY <2>2, <1>3, <1>5
  <2>4. CASE j \in DOMAIN queue[Home]
    <3>1. /\ Kinds(Home, j) = "write" /\ Buf(Home, j) = b
          /\ queue'[Home][j].need = queue[Home][j].need
      BY <2>4, <1>1, <1>5, OldOrNew
    <3> QED BY <2>3, <2>4, <3>1, <1>5 DEF WritesNumbered
  <2>5. CASE New(Home, j)
    <3>1. queue'[Home][j].need = wrote[b] + 1
      BY <2>5, <1>5 DEF HostShape, WritesShape
    <3> QED BY <3>1, <2>1, <2>3, <1>2
  <2> QED BY <2>4, <2>5, <1>1, OldOrNew
<1>6. ASSUME NEW b \in Buffers, NEW v \in (done[b] + 1)..wrote'[b]
      PROVE  \E i \in DOMAIN queue'[Home] :
                Kinds(Home, i)' = "write" /\ Buf(Home, i)' = b /\ queue'[Home][i].need = v
  <2>1. CASE v \in (done[b] + 1)..wrote[b]
    <3>1. PICK i \in DOMAIN queue[Home] :
             Kinds(Home, i) = "write" /\ Buf(Home, i) = b /\ queue[Home][i].need = v
      BY <2>1 DEF WritesNumbered
    <3> QED BY <3>1, <1>1, OldOrNew
  <2>2. CASE v = wrote[b] + 1 /\ wrote'[b] # wrote[b]
    <3>1. PICK i : /\ New(Home, i) /\ Kinds(Home, i)' = "write" /\ Buf(Home, i)' = b
                   /\ queue'[Home][i].need = wrote[b] + 1
      BY <2>2 DEF HostShape, WritesShape
    <3> QED BY <3>1, <2>2 DEF New
  <2> QED BY <2>1, <2>2, <1>2
<1>7. \A b \in Buffers : done[b] <= wrote'[b] /\ wrote'[b] <= uses'
  BY <1>2 DEF WritesNumbered
<1> QED BY <1>1, <1>4, <1>5, <1>6, <1>7 DEF WritesNumbered

-----------------------------------------------------------------------------
\* Host steps add nothing that was due: no second allocation, and only later writes.
LEMMA DueOld ==
    ASSUME TypeOK, HostShape, NEW b \in Buffers, state[b] # "unused", NEW v \in Nat,
           v <= wrote[b], NEW p \in DOMAIN queue'[Home], Due(p, b, v)'
    PROVE  p \in DOMAIN queue[Home] /\ Due(p, b, v)
<1>1. Grows /\ Home \in Streams
  BY DEF HostShape, Grows, Sized
<1>2. wrote[b] \in Nat /\ wrote'[b] \in Nat /\ wrote[b] <= wrote'[b]
  BY DEF HostShape, WritesShape
<1>3. ~New(Home, p)
  <2>1. ASSUME New(Home, p), Kinds(Home, p)' = "alloc" PROVE FALSE
    BY <2>1, <1>1 DEF HostShape, OpsShape, Due
  <2>2. ASSUME New(Home, p), Kinds(Home, p)' = "write" PROVE FALSE
    <3>1. queue'[Home][p].need = wrote[b] + 1 /\ Kinds(Home, p)' # "alloc"
      BY <2>2 DEF HostShape, WritesShape, Due
    <3>2. queue'[Home][p].need <= v
      BY <3>1 DEF Due
    <3> QED BY <3>1, <3>2, <1>2
  <2> QED BY <2>1, <2>2 DEF Due
<1> QED BY <1>1, <1>3, OldOrNew DEF Due

\* A promise kept at a position is kept at a later one, and host steps keep it.
LEMMA PromisedGrows ==
    ASSUME TypeOK, HostShape, NEW s \in Streams, NEW i \in Nat, NEW r \in Nat, i <= r,
           NEW b \in Buffers, state[b] # "unused", NEW v \in Nat, Promised(s, i, b, v)
    PROVE  Promised(s, r, b, v)'
<1>1. Grows /\ Home \in Streams
  BY DEF HostShape, Grows, Sized
<1>2. /\ wrote[b] \in Nat /\ wrote'[b] \in Nat /\ wrote[b] <= wrote'[b] /\ v <= wrote[b]
  BY DEF HostShape, WritesShape, Promised
<1>3. ASSUME NEW p \in DOMAIN queue'[Home], Due(p, b, v)'
      PROVE  Before(Home, p, s, r)'
  <2>1. p \in DOMAIN queue[Home] /\ Due(p, b, v)
    BY <1>2, <1>3, DueOld
  <2>2. Before(Home, p, s, i)
    BY <2>1 DEF Promised
  <2> QED BY <2>2, <1>1, BeforeGrows
<1>4. v <= wrote'[b]
  BY <1>2
<1> QED BY <1>3, <1>4 DEF Promised

\* A use by a consumer is submitted behind what the consumer was promised
\* (ensure_stream_access lets registered streams only).
LEMMA HostUses ==
    ASSUME TypeOK, OpsOfValues, UsesPromised, ConsumersPromised, HostShape PROVE UsesPromised'
<1>1. Grows /\ Consumers \subseteq Streams
  BY DEF HostShape, Grows, Sized
<1>2. SUFFICES ASSUME NEW s \in Consumers, NEW i \in DOMAIN queue'[s], IsUse(s, i)',
                      NEW b, NEW n, b = Buf(s, i)', n = queue'[s][i].need
               PROVE  Promised(s, i, b, n)'
  BY DEF UsesPromised, Promised, Due, Before, Buf, Kinds
<1>3. s \in Streams /\ i \in Nat /\ Len(queue[s]) \in Nat
  BY <1>1, <1>2 DEF Grows, Sized
<1>4. CASE i \in DOMAIN queue[s]
  <2>1. IsUse(s, i) /\ b = Buf(s, i) /\ n = queue[s][i].need
    BY <1>1, <1>2, <1>3, <1>4, OldOrNew
  <2>2. b \in Buffers /\ state[b] # "unused"
    BY <2>1, <1>3, <1>4 DEF OpsOfValues, IsUse
  <2>3. queue[s][i] \in Ops
    BY <1>3, <1>4 DEF TypeOK
  <2>4. n \in Nat
    BY <2>1, <2>3, StreamPoolAssumption DEF Ops
  <2>5. Promised(s, i, b, n)
    BY <2>1, <1>4 DEF UsesPromised
  <2> QED BY <2>2, <2>4, <2>5, <1>3, PromisedGrows
<1>5. CASE New(s, i)
  <2>1. b \in Buffers
    BY <1>2, <1>3, <1>5 DEF HostShape, OpsShape, IsUse
  <2>2. s \in ToSet(consumers[b]) /\ state[b] = "live" /\ n = granted[b][s]
    BY <1>2, <1>3, <1>5 DEF HostShape, OpsShape
  <2>3. Promised(s, Len(queue[s]) + 1, b, n) /\ n \in Nat
    BY <2>1, <2>2 DEF ConsumersPromised, HostShape, ConsumersShape
  <2>4. Len(queue[s]) + 1 <= i
    BY <1>1, <1>3, <1>5 DEF New, Grows, Sized
  <2> QED BY <2>1, <2>2, <2>3, <2>4, <1>3, PromisedGrows
<1> QED BY <1>1, <1>2, <1>3, <1>4, <1>5, OldOrNew

\* share_with registers a stream when its wait is submitted: what it was granted comes first.
LEMMA HostConsumers ==
    ASSUME TypeOK, TypeOK', ConsumersPromised, SharingPromises, HostShape
    PROVE  ConsumersPromised'
<1>1. Grows /\ Consumers \subseteq Streams
  BY DEF HostShape, Grows, Sized
<1>2. SUFFICES ASSUME NEW b \in Buffers, NEW s \in ToSet(consumers'[b]),
                      NEW v, v = granted'[b][s], NEW r, r = Len(queue'[s]) + 1
               PROVE  Promised(s, r, b, v)'
  BY DEF ConsumersPromised, HostShape, ConsumersShape, Promised, Due, Before
<1>3. s \in Consumers /\ s \in Streams
  BY <1>1 DEF TypeOK, ToSet
<1>4. Len(queue[s]) + 1 \in Nat /\ r \in Nat /\ Len(queue[s]) + 1 <= r
  BY <1>1, <1>2, <1>3 DEF Grows, Sized
<1>5. CASE s \in ToSet(consumers[b]) /\ v = granted[b][s]
  <2>1. state[b] # "unused"
    BY <1>5 DEF ConsumersPromised, ToSet
  <2>2. Promised(s, Len(queue[s]) + 1, b, v) /\ v \in Nat
    BY <1>3, <1>5 DEF ConsumersPromised, HostShape, ConsumersShape
  <2> QED BY <2>1, <2>2, <1>3, <1>4, PromisedGrows
<1>6. CASE sharing.pc = "waiting" /\ sharing.buf = b /\ sharing.to = s /\ v = sharing.ver
  <2>1. state[b] = "live" /\ Promised(s, Len(queue[s]) + 1, b, v)
    BY <1>6 DEF SharingPromises
  <2>2. v \in Nat
    BY <1>6, StreamPoolAssumption DEF TypeOK
  <2> QED BY <2>1, <2>2, <1>3, <1>4, PromisedGrows
<1> QED BY <1>2, <1>3, <1>5, <1>6 DEF HostShape, ConsumersShape

\* Host steps leave a protected use protected.
LEMMA FreedGrows ==
    ASSUME HostShape, NEW s \in Streams, NEW i, NEW b \in Buffers, FreedAfter(s, i, b)
    PROVE  FreedAfter(s, i, b)'
<1>1. Grows /\ Home \in Streams
  BY DEF HostShape, Grows, Sized
<1>2. Len(queue[Home]) + 1 \in Nat /\ Len(queue'[Home]) + 1 \in Nat
      /\ Len(queue[Home]) <= Len(queue'[Home])
  BY <1>1 DEF Grows, Sized
<1>3. PICK e, n : e = Len(queue[Home]) + 1 /\ n = Len(queue'[Home]) + 1
  OBVIOUS
<1>4. \A r \in Nat : e <= r => Before(s, i, Home, r)'
  BY <1>1, <1>2, <1>3, BeforeGrows DEF FreedAfter
<1>5. Before(s, i, Home, n)'
  BY <1>2, <1>3, <1>4
<1>6. ASSUME NEW p \in DOMAIN queue'[Home], Kinds(Home, p)' = "free", Buf(Home, p)' = b
      PROVE  Before(s, i, Home, p)'
  <2>0. p \in Nat
    BY <1>1 DEF Grows, Sized
  <2>1. CASE p \in DOMAIN queue[Home]
    <3>1. Before(s, i, Home, p)
      BY <2>1, <1>1, <1>6, OldOrNew DEF FreedAfter
    <3> QED BY <3>1, <2>0, <1>1, BeforeGrows
  <2>2. CASE New(Home, p)
    <3>1. e <= p
      BY <2>2, <1>1, <1>3 DEF New, Grows, Sized
    <3> QED BY <3>1, <2>0, <1>4
  <2> QED BY <2>1, <2>2, <1>1, OldOrNew
<1>7. ASSUME state'[b] = "dropped" PROVE Pending("free", b)'
  <2>1. CASE state[b] = "dropped"
    BY <2>1, <1>1, PendingGrows DEF FreedAfter
  <2>2. CASE state[b] # "dropped"
    <3>1. PICK k : New(Home, k) /\ Kinds(Home, k)' = "free" /\ Buf(Home, k)' = b
      BY <2>2, <1>7 DEF HostShape, StateShape
    <3> QED BY <3>1 DEF New, Pending
  <2> QED BY <2>1, <2>2
<1>8. Before(s, i, Home, Len(queue[Home]) + 1)'
  BY <1>3, <1>5 DEF Before
<1> QED BY <1>6, <1>7, <1>8 DEF FreedAfter

\* Drop handles every registered consumer before the free: one that has a use in its queue
\* is registered still, or its event is waited for.
LEMMA HostProtected ==
    ASSUME TypeOK, OpsOfValues, UsesProtected, HostShape PROVE UsesProtected'
<1>1. Grows /\ Consumers \subseteq Streams /\ Home \in Streams /\ unordered \subseteq unordered'
  BY DEF HostShape, Grows, Sized, ConsumersShape
<1>2. SUFFICES ASSUME NEW s \in Consumers, NEW i \in DOMAIN queue'[s], IsUse(s, i)',
                      NEW b, b = Buf(s, i)', b \notin unordered'
               PROVE  s \in ToSet(consumers'[b]) \/ FreedAfter(s, i, b)'
  BY DEF UsesProtected, FreedAfter, Before, Pending, Buf, Kinds
<1>3. s \in Streams /\ b \notin unordered
  BY <1>1, <1>2
<1>4. CASE i \in DOMAIN queue[s]
  <2>1. IsUse(s, i) /\ b = Buf(s, i)
    BY <1>1, <1>2, <1>3, <1>4, OldOrNew
  <2>2. b \in Buffers
    BY <2>1, <1>3, <1>4 DEF OpsOfValues, IsUse
  <2>3. CASE FreedAfter(s, i, b)
    BY <2>2, <2>3, <1>3, FreedGrows
  <2>4. CASE s \in ToSet(consumers[b])
    <3>1. CASE s \in ToSet(consumers'[b])
      BY <3>1
    <3>2. CASE s \notin ToSet(consumers'[b])
      <4>1. PICK k, j : /\ state[b] = "dropping" /\ state' = state
                        /\ New(s, k) /\ New(Home, j) /\ Kinds(s, k)' = "record"
                        /\ Kinds(Home, j)' = "wait" /\ queue'[s][k].ev = queue'[Home][j].ev
        BY <3>2, <2>2, <2>4, <1>2 DEF HostShape, ConsumersShape
      <4>2. /\ k \in DOMAIN queue'[s] /\ j \in DOMAIN queue'[Home]
            /\ i < k /\ j < Len(queue'[Home]) + 1
        BY <4>1, <1>1, <1>3, <1>4, OldOrNew DEF New, Grows, Sized
      <4>3. Before(s, i, Home, Len(queue[Home]) + 1)'
        BY <4>1, <4>2 DEF Before, Kinds
      <4>4. ASSUME NEW p \in DOMAIN queue'[Home], Kinds(Home, p)' = "free", Buf(Home, p)' = b
            PROVE  FALSE
        <5>1. CASE p \in DOMAIN queue[Home]
          <6>1. state[b] = "dropped"
            BY <5>1, <4>4, <1>1, OldOrNew DEF OpsOfValues
          <6> QED BY <6>1, <4>1
        <5>2. CASE New(Home, p)
          <6>1. p = j
            BY <5>2, <4>1, <1>1, OldOrNew
          <6> QED BY <6>1, <4>1, <4>4
        <5> QED BY <5>1, <5>2, <1>1, OldOrNew
      <4>5. state'[b] # "dropped"
        BY <4>1
      <4> QED BY <4>3, <4>4, <4>5 DEF FreedAfter
    <3> QED BY <3>1, <3>2
  <2> QED BY <2>1, <2>3, <2>4, <1>3, <1>4 DEF UsesProtected
<1>5. CASE New(s, i)
  <2>1. b \in Buffers /\ s \in ToSet(consumers[b]) /\ state[b] = "live"
    BY <1>2, <1>3, <1>5 DEF HostShape, OpsShape, IsUse
  <2> QED BY <2>1, <1>2 DEF HostShape, ConsumersShape
<1> QED BY <1>1, <1>3, <1>4, <1>5, OldOrNew

-----------------------------------------------------------------------------
\* The steps of the host have that shape, and keep the types.
LEMMA OpTyped ==
    ASSUME NEW kind \in {"alloc", "free", "write", "read", "record", "wait"},
           NEW b \in Buffers \cup {NoBuf}, NEW e \in 0..MaxEvents, NEW n \in 0..MaxUses
    PROVE  /\ Op(kind, b, e, n) \in Ops
           /\ Op(kind, b, e, n).kind = kind /\ Op(kind, b, e, n).buf = b
           /\ Op(kind, b, e, n).ev = e /\ Op(kind, b, e, n).need = n
  BY DEF Op, Ops

\* A step that creates no event.
LEMMA NoEvents ==
    ASSUME TypeOK, UNCHANGED events,
           \A t \in Streams : \A i : New(t, i) => Kinds(t, i)' # "record"
    PROVE  EventsShape
  BY StreamPoolAssumption DEF EventsShape, TypeOK

\* A step that submits no write to the allocating stream.
LEMMA NoWrites ==
    ASSUME TypeOK, UNCHANGED wrote, uses' \in Nat, uses <= uses',
           \A i : New(Home, i) => Kinds(Home, i)' # "write"
    PROVE  WritesShape
  BY StreamPoolAssumption DEF WritesShape, TypeOK

\* A step that leaves the registrations alone.
LEMMA SameConsumers ==
    ASSUME IInv, UNCHANGED <<consumers, granted, unordered>>,
           \A b \in Buffers : state[b] \in {"live", "dropping"} /\ consumers[b] # <<>>
                             => state'[b] \in {"live", "dropping"}
    PROVE  ConsumersShape
<1>1. \A b \in Buffers : consumers[b] # <<>> => state[b] \in {"live", "dropping"}
  BY DEF IInv, ConsumersPromised
<1>2. \A b \in Buffers : \A s \in Consumers : granted[b][s] \in Nat
  BY StreamPoolAssumption DEF IInv, TypeOK
<1> QED BY <1>1, <1>2 DEF ConsumersShape

\* A step that leaves the values and their pointers alone.
LEMMA SameState == ASSUME UNCHANGED <<state, block>> PROVE StateShape
  BY DEF StateShape

\* A step that submits nothing.
LEMMA NoOps == ASSUME \A t \in Streams : \A i : ~New(t, i) PROVE OpsShape
  BY DEF OpsShape

\* An event's record or wait is an operation on no buffer.
LEMMA EventOps ==
    ASSUME \A t \in Streams : \A i : New(t, i) =>
              Kinds(t, i)' \in {"record", "wait"} /\ Buf(t, i)' = NoBuf
    PROVE  OpsShape
  BY StreamPoolAssumption DEF OpsShape, IsUse

\* alloc submits the allocation of a buffer that did not exist, in a block nobody holds.
LEMMA AllocShape ==
    ASSUME IInv, NEW b \in Buffers, NEW k \in Blocks, Alloc(b, k)
    PROVE  HostShape /\ TypeOK'
<1>1. PICK x \in Ops : x = Op("alloc", b, 0, 0)
  BY OpTyped, StreamPoolAssumption
<1>2. x.kind = "alloc" /\ x.buf = b /\ TypeOK /\ Home \in Streams
  BY <1>1, OpTyped, StreamPoolAssumption DEF IInv, Streams
<1>3. /\ queue' = [queue EXCEPT ![Home] = Append(@, x)]
      /\ state[b] = "unused" /\ state' = [state EXCEPT ![b] = "live"]
      /\ block' = [block EXCEPT ![b] = k]
      /\ \A c \in Buffers : state[c] \in {"live", "dropping"} => block[c] # k
      /\ UNCHANGED <<fired, owner, consumers, sharing, events, uses, wrote, done,
                     granted, unordered>>
  BY <1>1 DEF Alloc, Submit
<1>4. /\ queue' \in [Streams -> Seq(Ops)] /\ Grows /\ New(Home, Len(queue[Home]) + 1)
      /\ \A t \in Streams : \A i : New(t, i) =>
           t = Home /\ i = Len(queue[Home]) + 1 /\ queue'[t][i] = x
  BY <1>2, <1>3, OneAppended
<1>5. TypeOK'
  BY <1>2, <1>3, <1>4 DEF TypeOK
<1>6. EventsShape
  BY <1>2, <1>3, <1>4, StreamPoolAssumption DEF EventsShape, Kinds, TypeOK
<1>7. state[b] = "unused" /\ state'[b] = "live" /\ \A c \in Buffers : c # b => state'[c] = state[c]
  BY <1>2, <1>3 DEF TypeOK
<1>8. OpsShape
  BY <1>2, <1>4, <1>7 DEF OpsShape, Kinds, Buf, IsUse
<1>9. StateShape
  <2>1. \E i : New(Home, i) /\ Kinds(Home, i)' = "alloc" /\ Buf(Home, i)' = b
    BY <1>2, <1>4 DEF Kinds, Buf
  <2>2. block'[b] = k /\ \A c \in Buffers : c # b => block'[c] = block[c]
    BY <1>2, <1>3 DEF TypeOK
  <2> QED BY <2>1, <2>2, <1>3, <1>7 DEF StateShape
<1>10. WritesShape
  BY <1>2, <1>3, <1>4, NoWrites, StreamPoolAssumption DEF Kinds, TypeOK
<1>11. ConsumersShape
  BY <1>3, <1>7, SameConsumers
<1> QED BY <1>3, <1>4, <1>5, <1>6, <1>8, <1>9, <1>10, <1>11 DEF HostShape

\* A copy or a fill: MayUse makes the stream Home or a registered consumer.
LEMMA UseShape ==
    ASSUME IInv, NEW b \in Buffers, NEW s \in Streams, NEW kind \in {"read", "write"},
           Use(b, s, kind)
    PROVE  HostShape /\ TypeOK' /\ UNCHANGED sharing
<1>1. TypeOK /\ Home \in Streams /\ uses \in Nat /\ uses + 1 <= MaxUses /\ uses' = uses + 1
      /\ state[b] = "live" /\ MayUse(b, s)
  <2>1. TypeOK /\ Home \in Streams
    BY DEF IInv, Streams
  <2>2. uses \in 0..MaxUses /\ uses < MaxUses /\ uses' = uses + 1
        /\ state[b] = "live" /\ MayUse(b, s)
    BY <2>1 DEF Use, TypeOK
  <2> QED BY <2>1, <2>2, StreamPoolAssumption
<1>2. /\ wrote[b] \in Nat /\ wrote[b] <= uses
      /\ wrote' = IF s = Home /\ kind = "write" THEN [wrote EXCEPT ![b] = @ + 1] ELSE wrote
  BY <1>1, StreamPoolAssumption DEF IInv, Use, TypeOK, WritesNumbered
<1>3. /\ wrote' \in [Buffers -> 0..MaxUses]
      /\ \A c \in Buffers : c # b => wrote'[c] = wrote[c]
      /\ s = Home /\ kind = "write" => wrote'[b] = wrote[b] + 1
      /\ ~(s = Home /\ kind = "write") => wrote'[b] = wrote[b]
  BY <1>1, <1>2, StreamPoolAssumption DEF TypeOK
<1>4. PICK n \in 0..MaxUses : n = IF s = Home THEN wrote'[b] ELSE granted[b][s]
  BY <1>1, <1>3 DEF TypeOK, Streams
<1>5. PICK x \in Ops : x = Op(kind, b, 0, n)
  BY OpTyped, StreamPoolAssumption
<1>6. x.kind = kind /\ x.buf = b /\ x.need = n
  BY <1>5, OpTyped, StreamPoolAssumption
<1>7. /\ queue' = [queue EXCEPT ![s] = Append(@, x)]
      /\ UNCHANGED <<fired, owner, block, state, consumers, sharing, events, done,
                     granted, unordered>>
  BY <1>4, <1>5 DEF Use, Submit
<1>8. /\ queue' \in [Streams -> Seq(Ops)] /\ Grows /\ New(s, Len(queue[s]) + 1)
      /\ \A t \in Streams : \A i : New(t, i) =>
           t = s /\ i = Len(queue[s]) + 1 /\ queue'[t][i] = x
  BY <1>1, <1>7, OneAppended
<1>9. TypeOK'
  <2>1. uses' \in 0..MaxUses
    BY <1>1, StreamPoolAssumption
  <2> QED BY <2>1, <1>1, <1>3, <1>7, <1>8 DEF TypeOK
<1>10. EventsShape
  BY <1>1, <1>6, <1>7, <1>8, NoEvents DEF Kinds
<1>11. OpsShape
  <2>1. s \in Consumers => s \in ToSet(consumers[b]) /\ n = granted[b][s]
    BY <1>1, <1>4, StreamPoolAssumption DEF MayUse, ToSet
  <2> QED BY <2>1, <1>1, <1>6, <1>7, <1>8 DEF OpsShape, Kinds, Buf, IsUse
<1>12. StateShape
  BY <1>7, SameState
<1>13. WritesShape
  <2>1. \A c \in Buffers : /\ wrote[c] \in Nat /\ done[c] \in Nat /\ wrote'[c] \in Nat
                           /\ wrote[c] <= wrote'[c] /\ wrote'[c] + uses <= wrote[c] + uses'
    <3> SUFFICES ASSUME NEW c \in Buffers
                 PROVE  /\ wrote[c] \in Nat /\ done[c] \in Nat /\ wrote'[c] \in Nat
                        /\ wrote[c] <= wrote'[c] /\ wrote'[c] + uses <= wrote[c] + uses'
      OBVIOUS
    <3>1. wrote[c] \in 0..MaxUses /\ done[c] \in 0..MaxUses
      BY <1>1 DEF TypeOK
    <3>2. wrote'[c] = wrote[c] \/ wrote'[c] = wrote[c] + 1
      BY <1>3
    <3> QED BY <3>1, <3>2, <1>1, StreamPoolAssumption
  <2>2. ASSUME NEW c \in Buffers, wrote'[c] # wrote[c]
        PROVE  /\ wrote'[c] = wrote[c] + 1
               /\ \E i : /\ New(Home, i) /\ Kinds(Home, i)' = "write"
                        /\ Buf(Home, i)' = c /\ queue'[Home][i].need = wrote[c] + 1
    <3>1. c = b /\ s = Home /\ kind = "write"
      BY <2>2, <1>3
    <3>2. n = wrote[b] + 1
      BY <3>1, <1>3, <1>4
    <3> QED BY <3>1, <3>2, <1>1, <1>3, <1>6, <1>8 DEF Kinds, Buf
  <2>3. ASSUME NEW i, New(Home, i), Kinds(Home, i)' = "write"
        PROVE  /\ queue'[Home][i].need = wrote[Buf(Home, i)'] + 1
               /\ queue'[Home][i].need = wrote'[Buf(Home, i)']
    <3>1. s = Home /\ queue'[Home][i] = x /\ kind = "write"
      BY <2>3, <1>1, <1>6, <1>8 DEF Kinds
    <3>2. n = wrote[b] + 1 /\ n = wrote'[b]
      BY <3>1, <1>3, <1>4
    <3> QED BY <3>1, <3>2, <1>6 DEF Buf
  <2> QED BY <2>1, <2>2, <2>3 DEF WritesShape
<1>14. ConsumersShape
  BY <1>7, SameConsumers
<1> QED BY <1>7, <1>8, <1>9, <1>10, <1>11, <1>12, <1>13, <1>14 DEF HostShape

\* share_with creates an event and records it behind all Home has.
LEMMA ShareRecordShape ==
    ASSUME IInv, NEW b \in Buffers, NEW s \in Consumers, ShareRecord(b, s)
    PROVE  /\ HostShape /\ TypeOK' /\ state[b] = "live" /\ UNCHANGED <<state, wrote>>
           /\ sharing' = [pc |-> "recorded", buf |-> b, to |-> s, ev |-> events + 1, ver |-> wrote[b]]
           /\ New(Home, Len(queue[Home]) + 1)
           /\ \A t \in Streams : \A i : New(t, i) =>
                 /\ t = Home /\ i = Len(queue[Home]) + 1
                 /\ Kinds(t, i)' = "record" /\ Buf(t, i)' = NoBuf /\ queue'[t][i].ev = events + 1
<1>1. TypeOK /\ Home \in Streams /\ events \in Nat /\ events + 1 <= MaxEvents
      /\ events' = events + 1 /\ state[b] = "live" /\ wrote[b] \in 0..MaxUses /\ s \in Streams
  <2>1. TypeOK /\ Home \in Streams /\ s \in Streams
    BY DEF IInv, Streams
  <2>2. events \in 0..MaxEvents /\ events < MaxEvents /\ events' = events + 1
        /\ state[b] = "live" /\ wrote[b] \in 0..MaxUses
    BY <2>1 DEF ShareRecord, TypeOK
  <2> QED BY <2>1, <2>2, StreamPoolAssumption
<1>2. PICK x \in Ops : x = Op("record", NoBuf, events + 1, 0)
  BY <1>1, OpTyped, StreamPoolAssumption
<1>3. x.kind = "record" /\ x.buf = NoBuf /\ x.ev = events + 1
  BY <1>1, <1>2, OpTyped, StreamPoolAssumption
<1>4. /\ queue' = [queue EXCEPT ![Home] = Append(@, x)]
      /\ sharing' = [pc |-> "recorded", buf |-> b, to |-> s, ev |-> events + 1, ver |-> wrote[b]]
      /\ UNCHANGED <<fired, owner, block, state, consumers, uses, wrote, done, granted,
                     unordered>>
  BY <1>1, <1>2 DEF ShareRecord, Submit
<1>5. /\ queue' \in [Streams -> Seq(Ops)] /\ Grows /\ New(Home, Len(queue[Home]) + 1)
      /\ \A t \in Streams : \A i : New(t, i) =>
           t = Home /\ i = Len(queue[Home]) + 1 /\ queue'[t][i] = x
  BY <1>1, <1>4, OneAppended
<1>6. TypeOK'
  <2>1. sharing' \in [pc : {"idle", "recorded", "waiting"}, buf : Buffers \cup {NoBuf},
                      to : Streams, ev : 0..MaxEvents, ver : 0..MaxUses]
    BY <1>1, <1>4, StreamPoolAssumption
  <2>2. events' \in 0..MaxEvents
    BY <1>1, StreamPoolAssumption
  <2> QED BY <2>1, <2>2, <1>1, <1>4, <1>5 DEF TypeOK
<1>7. EventsShape
  BY <1>1, <1>3, <1>5 DEF EventsShape
<1>8. OpsShape
  BY <1>3, <1>5, EventOps DEF Kinds, Buf
<1>9. StateShape /\ ConsumersShape
  BY <1>4, SameState, SameConsumers
<1>10. WritesShape
  BY <1>1, <1>3, <1>4, <1>5, NoWrites, StreamPoolAssumption DEF Kinds, TypeOK
<1> QED BY <1>1, <1>3, <1>4, <1>5, <1>6, <1>7, <1>8, <1>9, <1>10 DEF HostShape, Kinds, Buf

\* share_with makes the consumer wait for the event.
LEMMA ShareWaitShape ==
    ASSUME IInv, ShareWait
    PROVE  /\ HostShape /\ TypeOK' /\ sharing.pc = "recorded" /\ UNCHANGED <<state, wrote>>
           /\ sharing' = [sharing EXCEPT !.pc = "waiting"]
           /\ New(sharing.to, Len(queue[sharing.to]) + 1)
           /\ \A t \in Streams : \A i : New(t, i) =>
                 /\ t = sharing.to /\ i = Len(queue[sharing.to]) + 1
                 /\ Kinds(t, i)' = "wait" /\ Buf(t, i)' = NoBuf /\ queue'[t][i].ev = sharing.ev
<1>1. /\ TypeOK /\ sharing.pc = "recorded" /\ sharing.ev \in 0..MaxEvents
      /\ sharing.to \in Streams /\ uses \in 0..MaxUses
  BY DEF IInv, ShareWait, TypeOK
<1>2. PICK x \in Ops : x = Op("wait", NoBuf, sharing.ev, 0)
  BY <1>1, OpTyped, StreamPoolAssumption
<1>3. x.kind = "wait" /\ x.buf = NoBuf /\ x.ev = sharing.ev
  BY <1>1, <1>2, OpTyped, StreamPoolAssumption
<1>4. /\ queue' = [queue EXCEPT ![sharing.to] = Append(@, x)]
      /\ sharing' = [sharing EXCEPT !.pc = "waiting"]
      /\ UNCHANGED <<fired, owner, block, state, consumers, events, uses, wrote, done,
                     granted, unordered>>
  BY <1>1, <1>2 DEF ShareWait, Submit
<1>5. /\ queue' \in [Streams -> Seq(Ops)] /\ Grows
      /\ New(sharing.to, Len(queue[sharing.to]) + 1)
      /\ \A t \in Streams : \A i : New(t, i) =>
           t = sharing.to /\ i = Len(queue[sharing.to]) + 1 /\ queue'[t][i] = x
  BY <1>1, <1>4, OneAppended
<1>6. TypeOK'
  BY <1>1, <1>4, <1>5 DEF TypeOK
<1>7. EventsShape /\ OpsShape
  BY <1>1, <1>3, <1>4, <1>5, NoEvents, EventOps DEF Kinds, Buf
<1>8. StateShape /\ ConsumersShape
  BY <1>4, SameState, SameConsumers
<1>9. WritesShape
  BY <1>1, <1>3, <1>4, <1>5, NoWrites, StreamPoolAssumption DEF Kinds, Streams
<1> QED BY <1>1, <1>3, <1>4, <1>5, <1>6, <1>7, <1>8, <1>9 DEF HostShape, Kinds, Buf

\* Steps that submit nothing and move no buffer's state.
LEMMA StillShape ==
    ASSUME IInv, UNCHANGED <<queue, fired, owner, block, state, events, uses, wrote, done>>,
           ConsumersShape
    PROVE  HostShape
<1>1. TypeOK /\ uses \in Nat
  BY StreamPoolAssumption DEF IInv, TypeOK
<1>2. Grows /\ \A t \in Streams : \A i : ~New(t, i)
  BY <1>1, NothingAppended
<1>3. EventsShape /\ OpsShape /\ StateShape
  BY <1>1, <1>2, NoEvents, NoOps, SameState
<1>4. WritesShape
  BY <1>1, <1>2, NoWrites, StreamPoolAssumption DEF Streams
<1> QED BY <1>2, <1>3, <1>4 DEF HostShape

\* share_with returns an error: no registration.
LEMMA ShareFailShape ==
    ASSUME IInv, ShareFail
    PROVE  HostShape /\ TypeOK' /\ sharing'.pc = "idle"
<1>1. /\ UNCHANGED <<queue, fired, owner, block, state, consumers, events, uses, wrote,
                     done, granted, unordered>>
      /\ sharing' = NoShare /\ TypeOK
  BY DEF ShareFail, IInv
<1>2. HostShape
  BY <1>1, StillShape, SameConsumers
<1>3. NoShare \in [pc : {"idle", "recorded", "waiting"}, buf : Buffers \cup {NoBuf},
                    to : Streams, ev : 0..MaxEvents, ver : 0..MaxUses]
  BY StreamPoolAssumption DEF NoShare, Streams
<1>4. TypeOK' /\ sharing'.pc = "idle"
  BY <1>1, <1>3 DEF TypeOK, NoShare
<1> QED BY <1>2, <1>4

\* Registration adds the stream unless it is there already.
LEMMA Registered ==
    ASSUME NEW S, NEW q \in Seq(S), NEW x \in S
    PROVE  /\ Register(q, x) \in Seq(S)
           /\ \A y : y \in ToSet(Register(q, x)) <=> y \in ToSet(q) \/ y = x
<1>1. CASE x \in ToSet(q)
  BY <1>1 DEF Register
<1>2. CASE x \notin ToSet(q)
  <2>1. Append(q, x) \in Seq(S) /\ DOMAIN q = 1..Len(q) /\ Len(q) \in Nat
        /\ DOMAIN Append(q, x) = 1..(Len(q) + 1)
        /\ (\A i \in 1..Len(q) : Append(q, x)[i] = q[i]) /\ Append(q, x)[Len(q) + 1] = x
    OBVIOUS
  <2> QED BY <2>1, <1>2 DEF Register, ToSet
<1> QED BY <1>1, <1>2

\* share_with registers the consumer and returns.
LEMMA ShareRegisterShape ==
    ASSUME IInv, ShareRegister
    PROVE  HostShape /\ TypeOK' /\ sharing'.pc = "idle"
<1>1. /\ UNCHANGED <<queue, fired, owner, block, state, events, uses, wrote, done, unordered>>
      /\ consumers' = [consumers EXCEPT ![sharing.buf] = Register(@, sharing.to)]
      /\ granted' = [granted EXCEPT ![sharing.buf][sharing.to] = sharing.ver]
      /\ sharing' = NoShare /\ TypeOK /\ sharing.pc = "waiting"
  BY DEF ShareRegister, IInv
<1>2. PICK b, t, v : b = sharing.buf /\ t = sharing.to /\ v = sharing.ver
  OBVIOUS
<1>3. b \in Buffers /\ state[b] = "live" /\ t \in Consumers /\ v \in 0..MaxUses
  BY <1>1, <1>2 DEF IInv, SharingPromises, TypeOK
<1>4. /\ consumers'[b] = Register(consumers[b], t) /\ consumers[b] \in Seq(Consumers)
      /\ \A c \in Buffers : c # b => consumers'[c] = consumers[c]
      /\ granted'[b][t] = v
      /\ \A c \in Buffers, s \in Consumers : c # b \/ s # t => granted'[c][s] = granted[c][s]
      /\ granted' \in [Buffers -> [Consumers -> 0..MaxUses]]
  BY <1>1, <1>2, <1>3 DEF TypeOK
<1>5. /\ consumers'[b] \in Seq(Consumers)
      /\ \A y : y \in ToSet(consumers'[b]) <=> y \in ToSet(consumers[b]) \/ y = t
  BY <1>3, <1>4, Registered
<1>6. consumers' \in [Buffers -> Seq(Consumers)]
  BY <1>1, <1>2, <1>3, <1>4, <1>5 DEF TypeOK
<1>7. ConsumersShape
  <2>1. \A c \in Buffers : consumers'[c] # <<>> => state'[c] \in {"live", "dropping"}
    BY <1>1, <1>3, <1>4 DEF IInv, ConsumersPromised
  <2>2. \A c \in Buffers : \A s \in Consumers : granted[c][s] \in Nat
    BY <1>1, StreamPoolAssumption DEF TypeOK
  <2>3. ASSUME NEW c \in Buffers, NEW s \in Consumers
        PROVE  /\ s \in ToSet(consumers'[c]) =>
                    \/ s \in ToSet(consumers[c]) /\ granted'[c][s] = granted[c][s]
                    \/ c = b /\ s = t /\ granted'[c][s] = v
               /\ s \in ToSet(consumers[c]) => s \in ToSet(consumers'[c])
    BY <1>4, <1>5
  <2> QED BY <2>1, <2>2, <2>3, <1>1, <1>2 DEF ConsumersShape
<1>8. HostShape
  BY <1>1, <1>7, StillShape
<1>9. NoShare \in [pc : {"idle", "recorded", "waiting"}, buf : Buffers \cup {NoBuf},
                    to : Streams, ev : 0..MaxEvents, ver : 0..MaxUses]
  BY StreamPoolAssumption DEF NoShare, Streams
<1>10. TypeOK' /\ sharing'.pc = "idle"
  BY <1>1, <1>4, <1>6, <1>9 DEF TypeOK, NoShare
<1> QED BY <1>8, <1>10

\* A value is dropped only when share_with does not borrow it.
LEMMA DropBeginShape ==
    ASSUME IInv, NEW b \in Buffers, DropBegin(b)
    PROVE  HostShape /\ TypeOK' /\ UNCHANGED sharing
<1>1. /\ UNCHANGED <<queue, fired, owner, block, consumers, sharing, events, uses, wrote,
                     done, granted, unordered>>
      /\ state[b] = "live" /\ sharing.buf # b /\ state' = [state EXCEPT ![b] = "dropping"]
      /\ TypeOK /\ uses \in Nat
  BY StreamPoolAssumption DEF DropBegin, IInv, TypeOK
<1>2. state'[b] = "dropping" /\ \A c \in Buffers : c # b => state'[c] = state[c]
  BY <1>1 DEF TypeOK
<1>3. Grows /\ \A t \in Streams : \A i : ~New(t, i)
  BY <1>1, NothingAppended
<1>4. EventsShape /\ OpsShape
  BY <1>1, <1>3, NoEvents, NoOps
<1>5. WritesShape
  BY <1>1, <1>3, NoWrites, StreamPoolAssumption DEF Streams
<1>6. StateShape
  BY <1>1, <1>2 DEF StateShape
<1>7. ConsumersShape
  BY <1>1, <1>2, SameConsumers
<1>8. TypeOK'
  BY <1>1 DEF TypeOK
<1> QED BY <1>1, <1>3, <1>4, <1>5, <1>6, <1>7, <1>8 DEF HostShape

\* The first registered consumer is handled, the others stay registered.
LEMMA HeadHandled ==
    ASSUME NEW S, NEW q \in Seq(S), q # <<>>
    PROVE  /\ Head(q) \in S /\ Tail(q) \in Seq(S)
           /\ \A x \in ToSet(q) : x = Head(q) \/ x \in ToSet(Tail(q))
           /\ ToSet(Tail(q)) \subseteq ToSet(q)
<1>1. /\ Head(q) \in S /\ Tail(q) \in Seq(S) /\ Head(q) = q[1]
      /\ DOMAIN q = 1..Len(q) /\ Len(q) \in Nat \ {0}
      /\ DOMAIN Tail(q) = 1..(Len(q) - 1)
      /\ \A i \in 1..(Len(q) - 1) : Tail(q)[i] = q[i + 1]
  OBVIOUS
<1>2. ASSUME NEW x \in ToSet(q), x # Head(q) PROVE x \in ToSet(Tail(q))
  <2>1. PICK i \in 1..Len(q) : x = q[i]
    BY <1>1 DEF ToSet
  <2>2. i # 1
    BY <2>1, <1>1, <1>2
  <2>3. PICK j \in 1..(Len(q) - 1) : i = j + 1
    <3>1. i - 1 \in 1..(Len(q) - 1) /\ i = (i - 1) + 1
      BY <2>1, <2>2, <1>1
    <3> QED BY <3>1
  <2> QED BY <2>1, <2>3, <1>1 DEF ToSet
<1>3. ASSUME NEW x \in ToSet(Tail(q)) PROVE x \in ToSet(q)
  <2>1. PICK j \in 1..(Len(q) - 1) : x = Tail(q)[j]
    BY <1>1 DEF ToSet
  <2>2. j + 1 \in 1..Len(q) /\ x = q[j + 1]
    BY <2>1, <1>1
  <2> QED BY <2>2, <1>1 DEF ToSet
<1> QED BY <1>1, <1>2, <1>3

\* One operation joins a consumer, one the allocating stream.
LEMMA TwoAppended ==
    ASSUME TypeOK, NEW s \in Consumers, NEW x \in Ops, NEW y \in Ops,
           queue'[s] = Append(queue[s], x), queue'[Home] = Append(queue[Home], y),
           \A t \in Streams : t # s /\ t # Home => queue'[t] = queue[t],
           queue' = [t \in Streams |-> queue'[t]]
    PROVE  /\ queue' \in [Streams -> Seq(Ops)]
           /\ Grows
           /\ New(s, Len(queue[s]) + 1) /\ New(Home, Len(queue[Home]) + 1)
           /\ \A t \in Streams : \A i : New(t, i) =>
                 \/ t = s /\ i = Len(queue[s]) + 1 /\ queue'[t][i] = x
                 \/ t = Home /\ i = Len(queue[Home]) + 1 /\ queue'[t][i] = y
<1>1. /\ queue \in [Streams -> Seq(Ops)] /\ Sized
      /\ s \in Streams /\ Home \in Streams /\ s # Home
  BY TypedSized, StreamPoolAssumption DEF TypeOK, Streams
<1>2. /\ queue'[s] = Append(queue[s], x) /\ queue'[Home] = Append(queue[Home], y)
      /\ \A t \in Streams : t # s /\ t # Home => queue'[t] = queue[t]
      /\ queue' = [t \in Streams |-> queue'[t]]
  OBVIOUS
<1>3. ASSUME NEW q \in Seq(Ops), NEW z \in Ops
      PROVE  /\ Append(q, z) \in Seq(Ops) /\ Len(Append(q, z)) = Len(q) + 1
             /\ DOMAIN q = 1..Len(q) /\ Len(q) \in Nat
             /\ DOMAIN Append(q, z) = 1..(Len(q) + 1)
             /\ \A i \in 1..Len(q) : Append(q, z)[i] = q[i]
             /\ Append(q, z)[Len(q) + 1] = z
  OBVIOUS
<1>4. /\ queue'[s] \in Seq(Ops) /\ Len(queue'[s]) = Len(queue[s]) + 1
      /\ DOMAIN queue'[s] = 1..(Len(queue[s]) + 1)
      /\ \A i \in 1..Len(queue[s]) : queue'[s][i] = queue[s][i]
      /\ queue'[s][Len(queue[s]) + 1] = x
  <2>1. PICK q \in Seq(Ops) : q = queue[s]
    BY <1>1
  <2>2. /\ Append(q, x) \in Seq(Ops) /\ Len(Append(q, x)) = Len(q) + 1
        /\ DOMAIN Append(q, x) = 1..(Len(q) + 1)
        /\ \A i \in 1..Len(q) : Append(q, x)[i] = q[i]
        /\ Append(q, x)[Len(q) + 1] = x
    BY <1>3
  <2> QED BY <2>1, <2>2, <1>2
<1>5. /\ queue'[Home] \in Seq(Ops) /\ Len(queue'[Home]) = Len(queue[Home]) + 1
      /\ DOMAIN queue'[Home] = 1..(Len(queue[Home]) + 1)
      /\ \A i \in 1..Len(queue[Home]) : queue'[Home][i] = queue[Home][i]
      /\ queue'[Home][Len(queue[Home]) + 1] = y
  <2>1. PICK q \in Seq(Ops) : q = queue[Home]
    BY <1>1
  <2>2. /\ Append(q, y) \in Seq(Ops) /\ Len(Append(q, y)) = Len(q) + 1
        /\ DOMAIN Append(q, y) = 1..(Len(q) + 1)
        /\ \A i \in 1..Len(q) : Append(q, y)[i] = q[i]
        /\ Append(q, y)[Len(q) + 1] = y
    BY <1>3
  <2> QED BY <2>1, <2>2, <1>2
<1>6. queue' \in [Streams -> Seq(Ops)]
  <2>1. \A t \in Streams : queue'[t] \in Seq(Ops)
    BY <1>1, <1>2, <1>4, <1>5
  <2> QED BY <2>1, <1>2
<1>7. Grows
  <2>1. \A t \in Streams : Len(queue'[t]) \in Nat /\ DOMAIN queue'[t] = 1..Len(queue'[t])
    BY <1>1, <1>2, <1>4, <1>5 DEF Sized
  <2>2. Sized'
    BY <2>1, <1>1 DEF Sized
  <2>3. \A t \in Streams : /\ Len(queue[t]) <= Len(queue'[t])
                           /\ Len(queue'[t]) <= Len(queue[t]) + 1
                           /\ \A i \in DOMAIN queue[t] : queue'[t][i] = queue[t][i]
    <3> SUFFICES ASSUME NEW t \in Streams
                 PROVE  /\ Len(queue[t]) <= Len(queue'[t])
                        /\ Len(queue'[t]) <= Len(queue[t]) + 1
                        /\ \A i \in DOMAIN queue[t] : queue'[t][i] = queue[t][i]
      OBVIOUS
    <3>1. Len(queue[t]) \in Nat /\ DOMAIN queue[t] = 1..Len(queue[t])
      BY <1>1 DEF Sized
    <3>0. \A n \in Nat : n <= n + 1 /\ n + 1 <= n + 1
      OBVIOUS
    <3>2. CASE t = s
      <4>1. Len(queue'[t]) = Len(queue[t]) + 1
        BY <3>2, <1>4
      <4>2. \A i \in DOMAIN queue[t] : queue'[t][i] = queue[t][i]
        BY <3>1, <3>2, <1>4
      <4> QED BY <4>1, <4>2, <3>0, <3>1
    <3>3. CASE t = Home
      <4>1. Len(queue'[t]) = Len(queue[t]) + 1
        BY <3>3, <1>5
      <4>2. \A i \in DOMAIN queue[t] : queue'[t][i] = queue[t][i]
        BY <3>1, <3>3, <1>5
      <4> QED BY <4>1, <4>2, <3>0, <3>1
    <3>4. CASE t # s /\ t # Home
      BY <3>1, <3>4, <1>2
    <3> QED BY <3>2, <3>3, <3>4
  <2> QED BY <1>1, <2>2, <2>3 DEF Grows
<1>8. New(s, Len(queue[s]) + 1) /\ New(Home, Len(queue[Home]) + 1)
  BY <1>1, <1>4, <1>5 DEF New, Sized
<1>9. ASSUME NEW t \in Streams, NEW i, New(t, i)
      PROVE  \/ t = s /\ i = Len(queue[s]) + 1 /\ queue'[t][i] = x
             \/ t = Home /\ i = Len(queue[Home]) + 1 /\ queue'[t][i] = y
  BY <1>1, <1>2, <1>4, <1>5, <1>9 DEF New, Sized
<1> QED BY <1>6, <1>7, <1>8, <1>9

\* Drop records an event on one consumer and lets Home wait for it.
LEMMA DropConsumerShape ==
    ASSUME IInv, NEW b \in Buffers, DropConsumer(b)
    PROVE  HostShape /\ TypeOK' /\ UNCHANGED <<sharing, state>>
<1>1. /\ TypeOK /\ Home \in Streams /\ state[b] = "dropping"
      /\ consumers[b] \in Seq(Consumers) /\ consumers[b] # <<>>
      /\ events \in 0..MaxEvents /\ events < MaxEvents /\ events' = events + 1
      /\ uses \in 0..MaxUses
  BY DEF IInv, DropConsumer, TypeOK, Streams
<1>2. events \in Nat /\ events + 1 \in 0..MaxEvents /\ uses \in Nat
  BY <1>1, StreamPoolAssumption
<1>3. PICK s \in Consumers : s = Head(consumers[b])
  BY <1>1, HeadHandled
<1>4. PICK x \in Ops, y \in Ops : /\ x = Op("record", NoBuf, events + 1, 0)
                                 /\ y = Op("wait", NoBuf, events + 1, 0)
  BY <1>2, OpTyped, StreamPoolAssumption
<1>5. /\ x.kind = "record" /\ x.buf = NoBuf /\ x.ev = events + 1
      /\ y.kind = "wait" /\ y.buf = NoBuf /\ y.ev = events + 1
  BY <1>2, <1>4, OpTyped, StreamPoolAssumption
<1>6. /\ queue' = [queue EXCEPT ![s] = Append(@, x), ![Home] = Append(@, y)]
      /\ consumers' = [consumers EXCEPT ![b] = Tail(@)]
      /\ UNCHANGED <<fired, owner, block, state, sharing, uses, wrote, done, granted,
                     unordered>>
  BY <1>1, <1>3, <1>4 DEF DropConsumer
<1>7. /\ queue' \in [Streams -> Seq(Ops)] /\ Grows
      /\ New(s, Len(queue[s]) + 1) /\ New(Home, Len(queue[Home]) + 1)
      /\ \A t \in Streams : \A i : New(t, i) =>
           \/ t = s /\ i = Len(queue[s]) + 1 /\ queue'[t][i] = x
           \/ t = Home /\ i = Len(queue[Home]) + 1 /\ queue'[t][i] = y
  <2>1. /\ queue \in [Streams -> Seq(Ops)] /\ s \in Streams /\ s # Home
    BY <1>1, StreamPoolAssumption DEF TypeOK, Streams
  <2>2. /\ queue'[s] = Append(queue[s], x) /\ queue'[Home] = Append(queue[Home], y)
        /\ \A t \in Streams : t # s /\ t # Home => queue'[t] = queue[t]
    BY <2>1, <1>1, <1>6
  <2>3. queue' = [t \in Streams |-> queue'[t]]
    BY <2>1, <1>6
  <2> QED BY <2>2, <2>3, <1>1, TwoAppended
<1>8. s \in Streams /\ s # Home
  BY StreamPoolAssumption DEF Streams
<1>9. /\ consumers'[b] = Tail(consumers[b]) /\ Tail(consumers[b]) \in Seq(Consumers)
      /\ \A c \in Buffers : c # b => consumers'[c] = consumers[c]
      /\ \A t \in ToSet(consumers[b]) : t = s \/ t \in ToSet(consumers'[b])
      /\ ToSet(consumers'[b]) \subseteq ToSet(consumers[b])
  <2>1. PICK q \in Seq(Consumers) : q = consumers[b]
    BY <1>1
  <2>2. /\ Tail(q) \in Seq(Consumers) /\ s = Head(q)
        /\ \A t \in ToSet(q) : t = s \/ t \in ToSet(Tail(q))
        /\ ToSet(Tail(q)) \subseteq ToSet(q)
    BY <2>1, <1>1, <1>3, HeadHandled
  <2>3. consumers'[b] = Tail(q) /\ \A c \in Buffers : c # b => consumers'[c] = consumers[c]
    BY <2>1, <1>1, <1>6 DEF TypeOK
  <2> QED BY <2>1, <2>2, <2>3
<1>10. TypeOK'
  <2>1. consumers' \in [Buffers -> Seq(Consumers)]
    BY <1>1, <1>6, <1>9 DEF TypeOK
  <2>2. events' \in 0..MaxEvents /\ fired' \subseteq 1..MaxEvents
    BY <1>1, <1>2, <1>6 DEF TypeOK
  <2> QED BY <2>1, <2>2, <1>1, <1>6, <1>7 DEF TypeOK
<1>11. EventsShape
  <2>1. ASSUME NEW t \in Streams, NEW i, New(t, i), Kinds(t, i)' = "record"
        PROVE  t = s /\ i = Len(queue[s]) + 1 /\ queue'[t][i].ev = events + 1
    BY <2>1, <1>5, <1>7 DEF Kinds
  <2> QED BY <2>1, <1>1, <1>2 DEF EventsShape
<1>12. OpsShape
  BY <1>5, <1>7, EventOps DEF Kinds, Buf
<1>13. StateShape
  BY <1>6, SameState
<1>14. WritesShape
  BY <1>1, <1>2, <1>5, <1>6, <1>7, NoWrites DEF Kinds
<1>15. ConsumersShape
  <2>1. \A c \in Buffers : consumers'[c] # <<>> => state'[c] \in {"live", "dropping"}
    BY <1>1, <1>6, <1>9 DEF IInv, ConsumersPromised
  <2>2. \A c \in Buffers : \A t \in Consumers : granted[c][t] \in Nat
    BY <1>1, StreamPoolAssumption DEF TypeOK
  <2>3. \E i, j : /\ New(s, i) /\ New(Home, j) /\ Kinds(s, i)' = "record"
                 /\ Kinds(Home, j)' = "wait" /\ queue'[s][i].ev = queue'[Home][j].ev
    BY <1>1, <1>5, <1>7, <1>8 DEF Kinds
  <2>4. ASSUME NEW c \in Buffers, NEW t \in Consumers
        PROVE  /\ t \in ToSet(consumers'[c]) =>
                    t \in ToSet(consumers[c]) /\ granted'[c][t] = granted[c][t]
               /\ t \in ToSet(consumers[c]) => t \in ToSet(consumers'[c]) \/ (c = b /\ t = s)
    BY <1>6, <1>9
  <2>5. state[b] = "dropping" /\ state' = state /\ unordered' = unordered
    BY <1>1, <1>6
  <2> QED BY <2>1, <2>2, <2>3, <2>4, <2>5 DEF ConsumersShape
<1> QED BY <1>6, <1>7, <1>10, <1>11, <1>12, <1>13, <1>14, <1>15 DEF HostShape

\* Drop ignores an event that cannot be created, recorded or waited for: the buffer is
\* then among the unordered ones.
LEMMA DropConsumerFailShape ==
    ASSUME IInv, NEW b \in Buffers, DropConsumerFail(b)
    PROVE  HostShape /\ TypeOK' /\ UNCHANGED <<sharing, state>>
<1>1. /\ TypeOK /\ state[b] = "dropping"
      /\ consumers[b] \in Seq(Consumers) /\ consumers[b] # <<>>
      /\ consumers' = [consumers EXCEPT ![b] = Tail(@)]
      /\ unordered' = unordered \cup {b}
      /\ UNCHANGED <<queue, fired, owner, block, state, sharing, events, uses, wrote, done,
                     granted>>
  BY DEF IInv, DropConsumerFail, TypeOK
<1>2. /\ consumers'[b] = Tail(consumers[b]) /\ Tail(consumers[b]) \in Seq(Consumers)
      /\ \A c \in Buffers : c # b => consumers'[c] = consumers[c]
      /\ ToSet(consumers'[b]) \subseteq ToSet(consumers[b])
  BY <1>1, HeadHandled DEF TypeOK
<1>3. ConsumersShape
  <2>1. \A c \in Buffers : consumers'[c] # <<>> => state'[c] \in {"live", "dropping"}
    BY <1>1, <1>2 DEF IInv, ConsumersPromised
  <2>2. \A c \in Buffers : \A t \in Consumers : granted[c][t] \in Nat
    BY <1>1, StreamPoolAssumption DEF TypeOK
  <2> QED BY <2>1, <2>2, <1>1, <1>2 DEF ConsumersShape
<1>4. TypeOK'
  BY <1>1, <1>2 DEF TypeOK
<1> QED BY <1>1, <1>3, <1>4, StillShape

\* Drop submits the free when every consumer has been handled.
LEMMA DropFreeShape ==
    ASSUME IInv, NEW b \in Buffers, DropFree(b)
    PROVE  /\ HostShape /\ TypeOK' /\ UNCHANGED sharing
           /\ \A c \in Buffers : state[c] = "live" => state'[c] = "live"
<1>1. PICK x \in Ops : x = Op("free", b, 0, 0)
  BY OpTyped, StreamPoolAssumption
<1>2. /\ x.kind = "free" /\ x.buf = b /\ TypeOK /\ Home \in Streams
      /\ state[b] = "dropping" /\ consumers[b] = <<>> /\ uses \in Nat
  <2>1. x.kind = "free" /\ x.buf = b
    BY <1>1, OpTyped, StreamPoolAssumption
  <2>2. TypeOK /\ Home \in Streams /\ uses \in Nat
    BY StreamPoolAssumption DEF IInv, Streams, TypeOK
  <2> QED BY <2>1, <2>2 DEF DropFree
<1>3. /\ queue' = [queue EXCEPT ![Home] = Append(@, x)]
      /\ state' = [state EXCEPT ![b] = "dropped"]
      /\ UNCHANGED <<fired, owner, block, consumers, sharing, events, uses, wrote, done,
                     granted, unordered>>
  BY <1>1 DEF DropFree, Submit
<1>4. /\ queue' \in [Streams -> Seq(Ops)] /\ Grows /\ New(Home, Len(queue[Home]) + 1)
      /\ \A t \in Streams : \A i : New(t, i) =>
           t = Home /\ i = Len(queue[Home]) + 1 /\ queue'[t][i] = x
  BY <1>2, <1>3, OneAppended
<1>5. state'[b] = "dropped" /\ \A c \in Buffers : c # b => state'[c] = state[c]
  BY <1>2, <1>3 DEF TypeOK
<1>6. TypeOK'
  BY <1>2, <1>3, <1>4 DEF TypeOK
<1>7. EventsShape
  BY <1>2, <1>3, <1>4, NoEvents DEF Kinds
<1>8. OpsShape
  BY <1>2, <1>4, <1>5, StreamPoolAssumption DEF OpsShape, Kinds, Buf, IsUse, Streams
<1>9. StateShape
  <2>1. \E i : New(Home, i) /\ Kinds(Home, i)' = "free" /\ Buf(Home, i)' = b
    BY <1>2, <1>4 DEF Kinds, Buf
  <2> QED BY <2>1, <1>2, <1>3, <1>5 DEF StateShape
<1>10. WritesShape
  BY <1>2, <1>3, <1>4, NoWrites DEF Kinds
<1>11. ConsumersShape
  BY <1>2, <1>3, <1>5, SameConsumers
<1> QED BY <1>2, <1>3, <1>4, <1>5, <1>6, <1>7, <1>8, <1>9, <1>10, <1>11 DEF HostShape

-----------------------------------------------------------------------------
\* A share in progress keeps its promise while others submit: its buffer is borrowed,
\* and what was due stays due (share_with holds the buffer by reference).
LEMMA SharingKept ==
    ASSUME TypeOK, SharingPromises, HostShape, UNCHANGED sharing PROVE SharingPromises'
<1>1. Grows /\ Home \in Streams /\ Consumers \subseteq Streams
  BY DEF HostShape, Grows, Sized
<1>2. CASE sharing.pc = "idle"
  BY <1>2 DEF SharingPromises
<1>3. CASE sharing.pc # "idle"
  <2>1. PICK b \in Buffers, v \in Nat, s \in Consumers :
           b = sharing.buf /\ v = sharing.ver /\ s = sharing.to
    BY <1>3, StreamPoolAssumption DEF SharingPromises, TypeOK
  <2>2. state[b] = "live" /\ v <= wrote[b] /\ s \in Streams
    BY <1>1, <1>3, <2>1 DEF SharingPromises
  <2>3. state'[b] = "live"
    BY <2>1, <2>2 DEF HostShape, StateShape
  <2>4. v <= wrote'[b]
    BY <2>2 DEF HostShape, WritesShape
  <2>5. ASSUME sharing.pc = "recorded", NEW p \in DOMAIN queue'[Home], Due(p, b, v)'
        PROVE  \E q \in DOMAIN queue'[Home] :
                  p < q /\ Kinds(Home, q)' = "record" /\ queue'[Home][q].ev = sharing.ev
    <3>1. p \in DOMAIN queue[Home] /\ Due(p, b, v)
      BY <2>2, <2>5, DueOld
    <3>2. PICK q \in DOMAIN queue[Home] :
             p < q /\ Kinds(Home, q) = "record" /\ queue[Home][q].ev = sharing.ev
      BY <3>1, <2>1, <2>5 DEF SharingPromises
    <3> QED BY <3>2, <1>1, OldOrNew
  <2>6. ASSUME sharing.pc = "waiting" PROVE Promised(s, Len(queue[s]) + 1, b, v)'
    <3>1. PICK r : r = Len(queue'[s]) + 1
      OBVIOUS
    <3>2. Len(queue[s]) + 1 \in Nat /\ r \in Nat /\ Len(queue[s]) + 1 <= r
      BY <3>1, <2>2, <1>1 DEF Grows, Sized
    <3>3. Promised(s, Len(queue[s]) + 1, b, v)
      BY <2>1, <2>6 DEF SharingPromises
    <3>4. Promised(s, r, b, v)'
      BY <3>2, <3>3, <2>2, PromisedGrows
    <3> QED BY <3>1, <3>4 DEF Promised, Before
  <2> QED BY <2>1, <2>2, <2>3, <2>4, <2>5, <2>6 DEF SharingPromises, Promised, Due, Before
<1> QED BY <1>2, <1>3

\* share_with: the recorded event stands behind everything its buffer owes.
LEMMA ShareRecordPromises ==
    ASSUME IInv, NEW b \in Buffers, NEW s \in Consumers, ShareRecord(b, s)
    PROVE  SharingPromises'
<1>1. /\ HostShape /\ state[b] = "live" /\ UNCHANGED <<state, wrote>>
      /\ sharing' = [pc |-> "recorded", buf |-> b, to |-> s, ev |-> events + 1, ver |-> wrote[b]]
      /\ New(Home, Len(queue[Home]) + 1)
      /\ \A i : New(Home, i) => Kinds(Home, i)' = "record" /\ queue'[Home][i].ev = events + 1
  <2>1. Home \in Streams
    BY DEF Streams
  <2> QED BY <2>1, ShareRecordShape
<1>2. Grows /\ Home \in Streams /\ TypeOK
  BY <1>1 DEF HostShape, Grows, Sized, IInv
<1>3. wrote[b] \in Nat /\ wrote[b] <= wrote[b]
  BY <1>2, StreamPoolAssumption DEF TypeOK
<1>4. PICK m, v : m = Len(queue[Home]) + 1 /\ v = wrote[b]
  OBVIOUS
<1>5. ASSUME NEW p \in DOMAIN queue'[Home], Due(p, b, v)'
      PROVE  p < m
  <2>1. p \in DOMAIN queue[Home]
    BY <1>1, <1>2, <1>3, <1>4, <1>5, DueOld
  <2> QED BY <2>1, <1>1, <1>2, <1>4, OldOrNew
<1>6. m \in DOMAIN queue'[Home] /\ Kinds(Home, m)' = "record" /\ queue'[Home][m].ev = events + 1
  BY <1>1, <1>4 DEF New
<1> QED BY <1>1, <1>3, <1>4, <1>5, <1>6 DEF SharingPromises, Due

\* share_with: the wait at the end of the consumer meets the record in Home.
LEMMA ShareWaitPromises == ASSUME IInv, ShareWait PROVE SharingPromises'
<1>1. /\ HostShape /\ TypeOK /\ sharing.pc = "recorded" /\ UNCHANGED <<state, wrote>>
      /\ sharing' = [sharing EXCEPT !.pc = "waiting"]
      /\ SharingPromises
  BY ShareWaitShape DEF IInv
<1>2. Grows /\ Home \in Streams /\ Consumers \subseteq Streams
  BY <1>1 DEF HostShape, Grows, Sized
<1>3. PICK b \in Buffers, v \in Nat, s \in Consumers, e \in 0..MaxEvents :
         b = sharing.buf /\ v = sharing.ver /\ s = sharing.to /\ e = sharing.ev
  BY <1>1, StreamPoolAssumption DEF SharingPromises, TypeOK
<1>4. /\ state[b] = "live" /\ v <= wrote[b] /\ s \in Streams
      /\ sharing'.pc = "waiting" /\ sharing'.buf = b /\ sharing'.ver = v /\ sharing'.to = s
  BY <1>1, <1>2, <1>3 DEF SharingPromises, TypeOK
<1>5. PICK m : m = Len(queue[s]) + 1
  OBVIOUS
<1>6. /\ m \in DOMAIN queue'[s] /\ Kinds(s, m)' = "wait" /\ queue'[s][m].ev = e
  BY <1>3, <1>4, <1>5, ShareWaitShape DEF New
<1>7. m < Len(queue'[s]) + 1
  BY <1>2, <1>4, <1>6 DEF Grows, Sized
<1>8. ASSUME NEW p \in DOMAIN queue'[Home], Due(p, b, v)'
      PROVE  Before(Home, p, s, Len(queue[s]) + 1)'
  <2>1. p \in DOMAIN queue[Home] /\ Due(p, b, v)
    BY <1>1, <1>4, <1>8, DueOld
  <2>2. PICK q \in DOMAIN queue[Home] :
           p < q /\ Kinds(Home, q) = "record" /\ queue[Home][q].ev = e
    BY <2>1, <1>1, <1>3 DEF SharingPromises
  <2>3. q \in DOMAIN queue'[Home] /\ Kinds(Home, q)' = "record" /\ queue'[Home][q].ev = e
    BY <2>2, <1>2, OldOrNew
  <2> QED BY <2>2, <2>3, <1>6, <1>7 DEF Before, Kinds
<1>9. Promised(s, Len(queue[s]) + 1, b, v)'
  BY <1>1, <1>4, <1>8 DEF Promised
<1> QED BY <1>1, <1>4, <1>9 DEF SharingPromises, Promised, Due, Before

\* A step of the host keeps the invariant, given what it does to the share in progress.
LEMMA HostKeeps ==
    ASSUME IInv, HostShape, TypeOK', SharingPromises' PROVE IInv'
<1>1. uses \in Nat /\ uses' \in Nat
  BY StreamPoolAssumption DEF IInv, TypeOK
<1> QED BY <1>1, HostRecorded, HostLife, HostOps, HostTurns, HostOwner, HostWrites,
           HostUses, HostConsumers, HostProtected DEF IInv

\* Every call of a host thread keeps the invariant.
LEMMA HostStepKeeps == ASSUME IInv, HostStep PROVE IInv'
<1>1. ASSUME HostShape, UNCHANGED sharing PROVE SharingPromises'
  BY <1>1, SharingKept DEF IInv
<1>2. ASSUME sharing'.pc = "idle" PROVE SharingPromises'
  BY <1>2 DEF SharingPromises
<1>3. ASSUME NEW b \in Buffers, NEW k \in Blocks, Alloc(b, k) PROVE IInv'
  <2>1. UNCHANGED sharing
    BY <1>3 DEF Alloc
  <2> QED BY <2>1, <1>1, <1>3, AllocShape, HostKeeps
<1>4. ASSUME NEW b \in Buffers, NEW s \in Streams, NEW kind \in {"read", "write"},
             Use(b, s, kind)
      PROVE  IInv'
  BY <1>1, <1>4, UseShape, HostKeeps
<1>5. ASSUME NEW b \in Buffers, NEW s \in Consumers, ShareRecord(b, s) PROVE IInv'
  BY <1>5, ShareRecordShape, ShareRecordPromises, HostKeeps
<1>6. CASE ShareWait
  BY <1>6, ShareWaitShape, ShareWaitPromises, HostKeeps
<1>7. CASE ShareFail
  BY <1>2, <1>7, ShareFailShape, HostKeeps
<1>8. CASE ShareRegister
  BY <1>2, <1>8, ShareRegisterShape, HostKeeps
<1>9. ASSUME NEW b \in Buffers, DropBegin(b) PROVE IInv'
  BY <1>1, <1>9, DropBeginShape, HostKeeps
<1> QED BY <1>3, <1>4, <1>5, <1>6, <1>7, <1>8, <1>9 DEF HostStep

\* Every step of a drop keeps the invariant.
LEMMA DropStepKeeps == ASSUME IInv, NEW b \in Buffers, DropStep(b) PROVE IInv'
<1>1. ASSUME HostShape, UNCHANGED sharing PROVE SharingPromises'
  BY <1>1, SharingKept DEF IInv
<1>2. CASE DropConsumer(b)
  BY <1>1, <1>2, DropConsumerShape, HostKeeps
<1>3. CASE DropConsumerFail(b)
  BY <1>1, <1>3, DropConsumerFailShape, HostKeeps
<1>4. CASE DropFree(b)
  BY <1>1, <1>4, DropFreeShape, HostKeeps
<1> QED BY <1>2, <1>3, <1>4 DEF DropStep

-----------------------------------------------------------------------------
\* A stream executes its first operation: position i of what is left of stream t was
\* position Old(u, t, i), where u is the stream that executed.
Old(u, t, i) == IF t = u THEN i + 1 ELSE i

Shift(u) ==
    /\ Sized /\ Sized' /\ u \in Streams /\ 1 \in DOMAIN queue[u]
    /\ \A t \in Streams :
         /\ Len(queue[t]) + 1 = Old(u, t, Len(queue'[t]) + 1)
         /\ \A i \in DOMAIN queue'[t] :
               Old(u, t, i) \in DOMAIN queue[t] /\ queue'[t][i] = queue[t][Old(u, t, i)]
         /\ \A j \in DOMAIN queue[t] :
               (t = u /\ j = 1) \/ \E i \in DOMAIN queue'[t] : j = Old(u, t, i)

\* A stream that executes an operation loses its first one, the others lose nothing.
LEMMA TailShifts ==
    ASSUME TypeOK, NEW u \in Streams, queue[u] # <<>>,
           queue' = [queue EXCEPT ![u] = Tail(@)]
    PROVE  queue' \in [Streams -> Seq(Ops)] /\ Shift(u) /\ Head(queue[u]) = queue[u][1]
<1>1. queue \in [Streams -> Seq(Ops)] /\ Sized
  BY TypedSized DEF TypeOK
<1>2. queue'[u] = Tail(queue[u]) /\ \A t \in Streams : t # u => queue'[t] = queue[t]
  BY <1>1
<1>3. PICK q \in Seq(Ops) : q = queue[u] /\ q # <<>>
  BY <1>1
<1>4. /\ Tail(q) \in Seq(Ops) /\ Len(q) \in Nat \ {0} /\ Len(Tail(q)) = Len(q) - 1
      /\ DOMAIN Tail(q) = 1..(Len(q) - 1) /\ DOMAIN q = 1..Len(q) /\ Head(q) = q[1]
      /\ \A i \in 1..(Len(q) - 1) : Tail(q)[i] = q[i + 1]
  BY <1>3
<1>5. PICK m \in Nat : /\ Len(q) = m + 1 /\ Len(Tail(q)) = m
                      /\ DOMAIN Tail(q) = 1..m /\ DOMAIN q = 1..(m + 1)
                      /\ \A i \in 1..m : Tail(q)[i] = q[i + 1]
  <2>1. Len(q) - 1 \in Nat /\ Len(q) = (Len(q) - 1) + 1
    BY <1>4
  <2> QED BY <2>1, <1>4
<1>6. queue' \in [Streams -> Seq(Ops)]
  BY <1>1, <1>3, <1>4
<1>7. Sized'
  <2>1. \A t \in Streams : Len(queue'[t]) \in Nat /\ DOMAIN queue'[t] = 1..Len(queue'[t])
    BY <1>1, <1>2, <1>3, <1>5 DEF Sized
  <2> QED BY <2>1, <1>1 DEF Sized
<1>8. ASSUME NEW t \in Streams, t # u
      PROVE  /\ Len(queue[t]) + 1 = Old(u, t, Len(queue'[t]) + 1)
             /\ \A i \in DOMAIN queue'[t] :
                   Old(u, t, i) \in DOMAIN queue[t] /\ queue'[t][i] = queue[t][Old(u, t, i)]
             /\ \A j \in DOMAIN queue[t] : \E i \in DOMAIN queue'[t] : j = Old(u, t, i)
  BY <1>2, <1>8 DEF Old
<1>9. /\ Len(queue[u]) + 1 = Old(u, u, Len(queue'[u]) + 1)
      /\ \A i \in DOMAIN queue'[u] :
            Old(u, u, i) \in DOMAIN queue[u] /\ queue'[u][i] = queue[u][Old(u, u, i)]
      /\ \A j \in DOMAIN queue[u] : j = 1 \/ \E i \in DOMAIN queue'[u] : j = Old(u, u, i)
  <2>1. Len(queue[u]) = m + 1 /\ Len(queue'[u]) = m
        /\ DOMAIN queue'[u] = 1..m /\ DOMAIN queue[u] = 1..(m + 1)
        /\ \A i \in 1..m : queue'[u][i] = queue[u][i + 1]
    BY <1>2, <1>3, <1>5
  <2>2. \A i \in 1..m : i + 1 \in 1..(m + 1)
    OBVIOUS
  <2>3. ASSUME NEW j \in 1..(m + 1), j # 1 PROVE \E i \in 1..m : j = i + 1
    <3>1. j - 1 \in 1..m /\ j = (j - 1) + 1
      BY <2>3
    <3> QED BY <3>1
  <2> QED BY <2>1, <2>2, <2>3 DEF Old
<1>10. 1 \in DOMAIN queue[u] /\ Head(queue[u]) = queue[u][1]
  BY <1>3, <1>4, <1>5
<1> QED BY <1>1, <1>6, <1>7, <1>8, <1>9, <1>10 DEF Shift

\* What is left of a stream is what stood there, in the same order.
LEMMA Shifted ==
    ASSUME NEW u, Shift(u), NEW t \in Streams
    PROVE  /\ \A i \in DOMAIN queue'[t] :
                 /\ i \in Nat \ {0}
                 /\ Old(u, t, i) \in DOMAIN queue[t] /\ Old(u, t, i) \in Nat \ {0}
                 /\ ~(t = u /\ Old(u, t, i) = 1)
                 /\ Kinds(t, i)' = Kinds(t, Old(u, t, i)) /\ Buf(t, i)' = Buf(t, Old(u, t, i))
                 /\ IsUse(t, i)' <=> IsUse(t, Old(u, t, i))
                 /\ queue'[t][i].ev = queue[t][Old(u, t, i)].ev
                 /\ queue'[t][i].need = queue[t][Old(u, t, i)].need
           /\ \A i, j \in Nat : i < j <=> Old(u, t, i) < Old(u, t, j)
           /\ \A i, j \in Nat : i = j <=> Old(u, t, i) = Old(u, t, j)
<1>1. ASSUME NEW i \in DOMAIN queue'[t]
      PROVE  i \in Nat \ {0} /\ Old(u, t, i) \in DOMAIN queue[t] /\ Old(u, t, i) \in Nat \ {0}
             /\ ~(t = u /\ Old(u, t, i) = 1)
  BY <1>1 DEF Shift, Sized, Old
<1>2. ASSUME NEW i \in DOMAIN queue'[t]
      PROVE  /\ Kinds(t, i)' = Kinds(t, Old(u, t, i)) /\ Buf(t, i)' = Buf(t, Old(u, t, i))
             /\ IsUse(t, i)' <=> IsUse(t, Old(u, t, i))
             /\ queue'[t][i].ev = queue[t][Old(u, t, i)].ev
             /\ queue'[t][i].need = queue[t][Old(u, t, i)].need
  BY <1>2 DEF Shift, Kinds, Buf, IsUse
<1>3. ASSUME NEW i \in Nat, NEW j \in Nat
      PROVE  (i < j <=> Old(u, t, i) < Old(u, t, j)) /\ (i = j <=> Old(u, t, i) = Old(u, t, j))
  BY <1>3 DEF Old
<1> QED BY <1>1, <1>2, <1>3

\* An operation behind another one is not the first, so it is still there.
LEMMA StillThere ==
    ASSUME NEW u, Shift(u), NEW t \in Streams, NEW j \in DOMAIN queue[t],
           (t # u) \/ (j # 1)
    PROVE  \E i \in DOMAIN queue'[t] : j = Old(u, t, i)
  BY DEF Shift

\* The wait of a pending event does not execute: what stands behind it stays behind it.
LEMMA BeforeShifts ==
    ASSUME NEW u, Shift(u), RecordedOnce,
           Kinds(u, 1) = "wait" => queue[u][1].ev \in fired,
           NEW s \in Streams, NEW t \in Streams, NEW i \in Nat, NEW p \in Nat,
           Before(s, Old(u, s, i), t, Old(u, t, p))
    PROVE  Before(s, i, t, p)'
<1>1. PICK j \in DOMAIN queue[s], q \in DOMAIN queue[t] :
        /\ Old(u, s, i) < j /\ q < Old(u, t, p)
        /\ Kinds(s, j) = "record" /\ Kinds(t, q) = "wait"
        /\ queue[s][j].ev = queue[t][q].ev
  BY DEF Before
<1>2. j \in Nat /\ q \in Nat
  BY DEF Shift, Sized
<1>3. s # u \/ j # 1
  BY <1>1, <1>2 DEF Old
<1>4. t # u \/ q # 1
  <2>1. queue[s][j].ev \notin fired
    BY <1>1 DEF RecordedOnce
  <2> QED BY <2>1, <1>1
<1>5. PICK k \in DOMAIN queue'[s], r \in DOMAIN queue'[t] :
        j = Old(u, s, k) /\ q = Old(u, t, r)
  BY <1>3, <1>4, StillThere
<1>6. i < k /\ r < p
  BY <1>1, <1>5, Shifted
<1>7. /\ Kinds(s, k)' = "record" /\ Kinds(t, r)' = "wait"
      /\ queue'[s][k].ev = queue'[t][r].ev
  BY <1>1, <1>5, Shifted
<1> QED BY <1>6, <1>7 DEF Before

\* Nothing comes before what is about to execute.
LEMMA NothingBeforeFirst ==
    ASSUME Sized, NEW s, NEW i, NEW t \in Streams PROVE ~Before(s, i, t, 1)
  BY DEF Before, Sized

\* Only the operation that executes stops being in the allocating stream.
LEMMA PendingShifts ==
    ASSUME NEW u, Shift(u), NEW kind, NEW b
    PROVE  /\ Pending(kind, b)' => Pending(kind, b)
           /\ Pending(kind, b) => \/ Pending(kind, b)'
                                  \/ u = Home /\ Kinds(Home, 1) = kind /\ Buf(Home, 1) = b
<1>1. Home \in Streams
  BY DEF Shift, Sized
<1>2. ASSUME Pending(kind, b)' PROVE Pending(kind, b)
  BY <1>1, <1>2, Shifted DEF Pending
<1>3. ASSUME Pending(kind, b), ~(u = Home /\ Kinds(Home, 1) = kind /\ Buf(Home, 1) = b)
      PROVE  Pending(kind, b)'
  <2>1. PICK j \in DOMAIN queue[Home] : Kinds(Home, j) = kind /\ Buf(Home, j) = b
    BY <1>3 DEF Pending
  <2>2. PICK i \in DOMAIN queue'[Home] : j = Old(u, Home, i)
    BY <2>1, <1>1, <1>3, StillThere
  <2>3. Kinds(Home, i)' = kind /\ Buf(Home, i)' = b
    BY <2>1, <2>2, <1>1, Shifted
  <2> QED BY <2>3 DEF Pending
<1> QED BY <1>2, <1>3

-----------------------------------------------------------------------------
DeviceShape(u) ==
    /\ Shift(u)
    /\ UNCHANGED host
    /\ Kinds(u, 1) = "wait" => queue[u][1].ev \in fired
    /\ fired' = IF Kinds(u, 1) = "record" THEN fired \cup {queue[u][1].ev} ELSE fired
    /\ owner' = CASE Kinds(u, 1) = "alloc" -> [owner EXCEPT ![block[Buf(u, 1)]] = Buf(u, 1)]
                  [] Kinds(u, 1) = "free"  -> [owner EXCEPT ![block[Buf(u, 1)]] = NoBuf]
                  [] OTHER -> owner
    /\ done' = IF Kinds(u, 1) = "write" /\ u = Home THEN [done EXCEPT ![Buf(u, 1)] = @ + 1]
               ELSE done

\* A step of the device executes the first operation of one stream; the host does nothing.
LEMMA DeviceStepShape ==
    ASSUME TypeOK, NEW u \in Streams, DeviceStep(u)
    PROVE  DeviceShape(u) /\ queue' \in [Streams -> Seq(Ops)]
<1>1. queue[u] # <<>> /\ queue' = [queue EXCEPT ![u] = Tail(@)]
  BY DEF DeviceStep
<1>2. queue' \in [Streams -> Seq(Ops)] /\ Shift(u) /\ Head(queue[u]) = queue[u][1]
  BY <1>1, TailShifts
<1> QED BY <1>1, <1>2 DEF DeviceStep, DeviceShape, Kinds, Buf

\* An event fires once: the record that executes leaves its stream.
LEMMA DeviceRecorded ==
    ASSUME RecordedOnce, NEW u, DeviceShape(u) PROVE RecordedOnce'
<1>1. Shift(u) /\ events' = events /\ u \in Streams /\ 1 \in DOMAIN queue[u]
  BY DEF DeviceShape, Shift, host
<1>2. fired' \subseteq 1..events
  BY <1>1 DEF DeviceShape, RecordedOnce
<1>3. ASSUME NEW s \in Streams, NEW i \in DOMAIN queue'[s], Kinds(s, i)' = "record"
      PROVE  queue'[s][i].ev \in (1..events) \ fired'
  <2>1. PICK j \in DOMAIN queue[s] :
           /\ j = Old(u, s, i) /\ ~(s = u /\ j = 1)
           /\ Kinds(s, j) = "record" /\ queue'[s][i].ev = queue[s][j].ev
    BY <1>1, <1>3, Shifted
  <2>2. queue[s][j].ev \in (1..events) \ fired
    BY <2>1 DEF RecordedOnce
  <2>3. Kinds(u, 1) = "record" => queue[s][j].ev # queue[u][1].ev
    BY <2>1, <1>1 DEF RecordedOnce
  <2> QED BY <2>1, <2>2, <2>3 DEF DeviceShape
<1>4. ASSUME NEW s \in Streams, NEW t \in Streams,
             NEW i \in DOMAIN queue'[s], NEW j \in DOMAIN queue'[t],
             Kinds(s, i)' = "record", Kinds(t, j)' = "record",
             queue'[s][i].ev = queue'[t][j].ev
      PROVE  s = t /\ i = j
  <2>1. Old(u, s, i) \in DOMAIN queue[s] /\ Kinds(s, Old(u, s, i)) = "record"
        /\ queue'[s][i].ev = queue[s][Old(u, s, i)].ev /\ i \in Nat
    BY <1>1, <1>4, Shifted
  <2>2. Old(u, t, j) \in DOMAIN queue[t] /\ Kinds(t, Old(u, t, j)) = "record"
        /\ queue'[t][j].ev = queue[t][Old(u, t, j)].ev /\ j \in Nat
    BY <1>1, <1>4, Shifted
  <2>3. s = t /\ Old(u, s, i) = Old(u, t, j)
    BY <2>1, <2>2, <1>4 DEF RecordedOnce
  <2> QED BY <2>1, <2>2, <2>3, <1>1, Shifted
<1> QED BY <1>1, <1>2, <1>3, <1>4 DEF RecordedOnce

\* Executing from the front keeps the order of allocation, uses and free.
LEMMA DeviceLife == ASSUME LifeInOrder, NEW u, DeviceShape(u) PROVE LifeInOrder'
<1>1. Shift(u) /\ Home \in Streams
  BY DEF DeviceShape, Shift, Sized
<1>2. SUFFICES ASSUME NEW i \in DOMAIN queue'[Home], NEW j \in DOMAIN queue'[Home], i < j,
                      Buf(Home, i)' = Buf(Home, j)', Buf(Home, i)' \in Buffers
               PROVE  Kinds(Home, j)' # "alloc" /\ Kinds(Home, i)' # "free"
  BY DEF LifeInOrder
<1>3. /\ Old(u, Home, i) \in DOMAIN queue[Home] /\ Old(u, Home, j) \in DOMAIN queue[Home]
      /\ Old(u, Home, i) < Old(u, Home, j)
      /\ Buf(Home, Old(u, Home, i)) = Buf(Home, i)' /\ Buf(Home, Old(u, Home, j)) = Buf(Home, j)'
      /\ Kinds(Home, Old(u, Home, i)) = Kinds(Home, i)'
      /\ Kinds(Home, Old(u, Home, j)) = Kinds(Home, j)'
  BY <1>1, <1>2, Shifted
<1> QED BY <1>2, <1>3 DEF LifeInOrder

\* The free of a dropped buffer is the last of its operations to execute.
LEMMA DeviceOps ==
    ASSUME LifeInOrder, OpsOfValues, NEW u, DeviceShape(u) PROVE OpsOfValues'
<1>1. Shift(u) /\ Home \in Streams /\ state' = state /\ Sized
  BY DEF DeviceShape, Shift, Sized, host
<1>2. SUFFICES ASSUME NEW s \in Streams, NEW i \in DOMAIN queue'[s], NEW b, NEW k,
                      b = Buf(s, i)', k = Kinds(s, i)'
      PROVE  /\ k \in {"alloc", "free"} => s = Home
             /\ k \in {"alloc", "free", "read", "write"} => b \in Buffers
             /\ b \in Buffers => state'[b] # "unused"
             /\ k = "free" => state'[b] = "dropped"
             /\ s = Home /\ b \in Buffers /\ state'[b] = "dropped" => Pending("free", b)'
  BY DEF OpsOfValues, Pending, Buf, Kinds
<1>3. PICK o \in DOMAIN queue[s] : /\ o = Old(u, s, i) /\ o \in Nat \ {0} /\ ~(s = u /\ o = 1)
                                  /\ b = Buf(s, o) /\ k = Kinds(s, o)
  BY <1>1, <1>2, Shifted
<1>4. /\ k \in {"alloc", "free"} => s = Home
      /\ k \in {"alloc", "free", "read", "write"} => b \in Buffers
      /\ b \in Buffers => state[b] # "unused"
      /\ k = "free" => state[b] = "dropped"
      /\ s = Home /\ b \in Buffers /\ state[b] = "dropped" => Pending("free", b)
  BY <1>3 DEF OpsOfValues
<1>5. ASSUME s = Home, b \in Buffers, u = Home, Kinds(Home, 1) = "free", Buf(Home, 1) = b
      PROVE  FALSE
  <2>1. 1 \in DOMAIN queue[Home] /\ 1 < o
    BY <1>1, <1>3, <1>5 DEF Shift
  <2> QED BY <2>1, <1>3, <1>5 DEF LifeInOrder
<1> QED BY <1>1, <1>4, <1>5, PendingShifts

\* A block is allocated again after the free of its last buffer has executed.
LEMMA DeviceTurns ==
    ASSUME BlocksTakenInTurn, NEW u, DeviceShape(u) PROVE BlocksTakenInTurn'
<1>1. Shift(u) /\ Home \in Streams /\ state' = state /\ block' = block
  BY DEF DeviceShape, Shift, Sized, host
<1>2. ASSUME NEW b \in Buffers, NEW c \in Buffers, OverBefore(b, c)
      PROVE  OverBefore(b, c)'
  <2>1. ASSUME NEW i \in DOMAIN queue'[Home], Kinds(Home, i)' \in {"alloc", "free"},
               Buf(Home, i)' = b
        PROVE  \E j \in DOMAIN queue'[Home] :
                  i < j /\ Kinds(Home, j)' = "alloc" /\ Buf(Home, j)' = c
    <3>1. PICK o \in DOMAIN queue[Home] :
             /\ o = Old(u, Home, i) /\ o \in Nat \ {0} /\ i \in Nat
             /\ Kinds(Home, o) \in {"alloc", "free"} /\ Buf(Home, o) = b
      BY <2>1, <1>1, Shifted
    <3>2. PICK k \in DOMAIN queue[Home] :
             o < k /\ Kinds(Home, k) = "alloc" /\ Buf(Home, k) = c
      BY <3>1, <1>2 DEF OverBefore
    <3>3. k # 1
      BY <3>1, <3>2
    <3>4. PICK j \in DOMAIN queue'[Home] : k = Old(u, Home, j)
      BY <3>3, <1>1, StillThere
    <3>5. Kinds(Home, j)' = "alloc" /\ Buf(Home, j)' = c /\ i < j
      BY <3>1, <3>2, <3>4, <1>1, Shifted
    <3> QED BY <3>5
  <2> QED BY <2>1, <1>1, <1>2 DEF OverBefore
<1> QED BY <1>1, <1>2 DEF BlocksTakenInTurn

\* A promise stays kept: what was due executes, what comes after it moves up with it.
LEMMA DuePromise ==
    ASSUME RecordedOnce, NEW u, DeviceShape(u), NEW s \in Streams, NEW i \in Nat,
           NEW b \in Buffers, NEW v, Promised(s, Old(u, s, i), b, v)
    PROVE  Promised(s, i, b, v)'
<1>1. Shift(u) /\ Home \in Streams /\ wrote' = wrote
      /\ (Kinds(u, 1) = "wait" => queue[u][1].ev \in fired)
  BY DEF DeviceShape, Shift, Sized, host
<1>2. ASSUME NEW p \in DOMAIN queue'[Home], Due(p, b, v)' PROVE Before(Home, p, s, i)'
  <2>1. Old(u, Home, p) \in DOMAIN queue[Home] /\ Due(Old(u, Home, p), b, v) /\ p \in Nat
    BY <1>1, <1>2, Shifted DEF Due
  <2>2. Before(Home, Old(u, Home, p), s, Old(u, s, i))
    BY <2>1 DEF Promised
  <2> QED BY <2>1, <2>2, <1>1, BeforeShifts
<1> QED BY <1>1, <1>2 DEF Promised

\* The share in progress keeps its promise while the streams run.
LEMMA DeviceSharing ==
    ASSUME TypeOK, RecordedOnce, SharingPromises, NEW u, DeviceShape(u)
    PROVE  SharingPromises'
<1>1. /\ Shift(u) /\ Home \in Streams /\ Consumers \subseteq Streams
      /\ sharing' = sharing /\ state' = state /\ wrote' = wrote
  BY DEF DeviceShape, Shift, Sized, host
<1>2. CASE sharing.pc = "idle"
  BY <1>1, <1>2 DEF SharingPromises
<1>3. CASE sharing.pc # "idle"
  <2>1. PICK b \in Buffers, v \in Nat, s \in Consumers :
           b = sharing.buf /\ v = sharing.ver /\ s = sharing.to
    BY <1>3, StreamPoolAssumption DEF SharingPromises, TypeOK
  <2>2. state[b] = "live" /\ v <= wrote[b] /\ s \in Streams
    BY <1>1, <1>3, <2>1 DEF SharingPromises
  <2>3. ASSUME sharing.pc = "recorded", NEW p \in DOMAIN queue'[Home], Due(p, b, v)'
        PROVE  \E q \in DOMAIN queue'[Home] :
                  p < q /\ Kinds(Home, q)' = "record" /\ queue'[Home][q].ev = sharing.ev
    <3>1. PICK o \in DOMAIN queue[Home] :
             o = Old(u, Home, p) /\ o \in Nat \ {0} /\ p \in Nat /\ Due(o, b, v)
      BY <2>3, <1>1, Shifted DEF Due
    <3>2. PICK r \in DOMAIN queue[Home] :
             o < r /\ Kinds(Home, r) = "record" /\ queue[Home][r].ev = sharing.ev
      BY <3>1, <2>1, <2>3 DEF SharingPromises
    <3>3. r # 1
      BY <3>1, <3>2
    <3>4. PICK q \in DOMAIN queue'[Home] : r = Old(u, Home, q)
      BY <3>3, <1>1, StillThere
    <3>5. Kinds(Home, q)' = "record" /\ queue'[Home][q].ev = sharing.ev /\ p < q
      BY <3>1, <3>2, <3>4, <1>1, Shifted
    <3> QED BY <3>5
  <2>4. ASSUME sharing.pc = "waiting" PROVE Promised(s, Len(queue[s]) + 1, b, v)'
    <3>1. PICK r \in Nat : r = Len(queue'[s]) + 1 /\ Len(queue[s]) + 1 = Old(u, s, r)
      BY <2>2, <1>1 DEF Shift, Sized
    <3>2. Promised(s, Old(u, s, r), b, v)
      BY <3>1, <2>1, <2>4 DEF SharingPromises
    <3>3. Promised(s, r, b, v)'
      BY <3>2, <2>2, DuePromise
    <3> QED BY <3>1, <3>3 DEF Promised, Before
  <2> QED BY <2>1, <2>2, <2>3, <2>4, <1>1 DEF SharingPromises, Promised, Due, Before
<1> QED BY <1>2, <1>3

\* A registered consumer keeps what it was promised while the streams run.
LEMMA DeviceConsumers ==
    ASSUME TypeOK, RecordedOnce, ConsumersPromised, NEW u, DeviceShape(u)
    PROVE  ConsumersPromised'
<1>1. /\ Shift(u) /\ Consumers \subseteq Streams
      /\ consumers' = consumers /\ state' = state /\ granted' = granted
  BY DEF DeviceShape, Shift, Sized, host
<1>2. ASSUME NEW b \in Buffers, NEW s \in ToSet(consumers[b]), NEW v, v = granted[b][s]
      PROVE  Promised(s, Len(queue[s]) + 1, b, v)'
  <2>1. s \in Streams
    BY <1>1 DEF TypeOK, ToSet
  <2>2. PICK r \in Nat : r = Len(queue'[s]) + 1 /\ Len(queue[s]) + 1 = Old(u, s, r)
    BY <2>1, <1>1 DEF Shift, Sized
  <2>3. Promised(s, Old(u, s, r), b, v)
    BY <2>2, <1>2 DEF ConsumersPromised
  <2>4. Promised(s, r, b, v)'
    BY <2>1, <2>3, DuePromise
  <2> QED BY <2>2, <2>4 DEF Promised, Before
<1>3. ASSUME NEW b \in Buffers, NEW s \in ToSet(consumers'[b])
      PROVE  Promised(s, Len(queue[s]) + 1, b, granted[b][s])'
  BY <1>1, <1>2, <1>3 DEF Promised, Due
<1> QED BY <1>1, <1>3 DEF ConsumersPromised

\* A use in the queue of a consumer keeps what it was promised while the streams run.
LEMMA DeviceUses ==
    ASSUME OpsOfValues, RecordedOnce, UsesPromised, NEW u, DeviceShape(u)
    PROVE  UsesPromised'
<1>1. Shift(u) /\ Consumers \subseteq Streams
  BY DEF DeviceShape, Shift, Sized
<1>2. SUFFICES ASSUME NEW s \in Consumers, NEW i \in DOMAIN queue'[s], IsUse(s, i)',
                      NEW b, NEW n, b = Buf(s, i)', n = queue'[s][i].need
               PROVE  Promised(s, i, b, n)'
  BY DEF UsesPromised, Promised, Due, Before, Buf, Kinds
<1>3. PICK o \in DOMAIN queue[s] : /\ o = Old(u, s, i) /\ i \in Nat
                                  /\ IsUse(s, o) /\ b = Buf(s, o) /\ n = queue[s][o].need
  BY <1>1, <1>2, Shifted
<1>4. b \in Buffers
  BY <1>1, <1>3 DEF OpsOfValues, IsUse
<1>5. Promised(s, o, b, n)
  BY <1>3 DEF UsesPromised
<1> QED BY <1>1, <1>3, <1>4, <1>5, DuePromise

\* The free does not execute before the use it was ordered behind.
LEMMA DeviceProtected ==
    ASSUME OpsOfValues, RecordedOnce, UsesProtected, NEW u, DeviceShape(u)
    PROVE  UsesProtected'
<1>1. /\ Shift(u) /\ Consumers \subseteq Streams /\ Home \in Streams /\ Sized
      /\ consumers' = consumers /\ state' = state /\ unordered' = unordered
      /\ (Kinds(u, 1) = "wait" => queue[u][1].ev \in fired)
  BY DEF DeviceShape, Shift, Sized, host
<1>2. SUFFICES ASSUME NEW s \in Consumers, NEW i \in DOMAIN queue'[s], IsUse(s, i)',
                      NEW b, b = Buf(s, i)', b \notin unordered
               PROVE  s \in ToSet(consumers[b]) \/ FreedAfter(s, i, b)'
  BY <1>1 DEF UsesProtected, FreedAfter, Before, Pending, Buf, Kinds
<1>3. PICK o \in DOMAIN queue[s] : /\ o = Old(u, s, i) /\ i \in Nat
                                  /\ IsUse(s, o) /\ b = Buf(s, o)
  BY <1>1, <1>2, Shifted
<1>4. s \in Streams
  BY <1>1
<1>5. CASE FreedAfter(s, o, b)
  <2>1. \A p \in Nat : Before(s, o, Home, Old(u, Home, p)) => Before(s, i, Home, p)'
    BY <1>1, <1>3, <1>4, BeforeShifts
  <2>2. Before(s, i, Home, Len(queue[Home]) + 1)'
    <3>1. PICK r \in Nat : r = Len(queue'[Home]) + 1 /\ Len(queue[Home]) + 1 = Old(u, Home, r)
      BY <1>1 DEF Shift, Sized
    <3>2. Before(s, o, Home, Old(u, Home, r))
      BY <3>1, <1>5 DEF FreedAfter
    <3>3. Before(s, i, Home, r)'
      BY <3>2, <2>1
    <3> QED BY <3>1, <3>3 DEF Before
  <2>3. ASSUME NEW p \in DOMAIN queue'[Home], Kinds(Home, p)' = "free", Buf(Home, p)' = b
        PROVE  Before(s, i, Home, p)'
    <3>1. /\ Old(u, Home, p) \in DOMAIN queue[Home] /\ p \in Nat
          /\ Kinds(Home, Old(u, Home, p)) = "free" /\ Buf(Home, Old(u, Home, p)) = b
      BY <2>3, <1>1, Shifted
    <3> QED BY <3>1, <2>1, <1>5 DEF FreedAfter
  <2>4. ASSUME state[b] = "dropped" PROVE Pending("free", b)'
    <3>1. Pending("free", b)
      BY <2>4, <1>5 DEF FreedAfter
    <3>2. ASSUME u = Home, Kinds(Home, 1) = "free", Buf(Home, 1) = b PROVE FALSE
      <4>1. Before(s, o, Home, 1)
        BY <3>2, <1>1, <1>5 DEF FreedAfter, Shift
      <4> QED BY <4>1, <1>1, NothingBeforeFirst
    <3> QED BY <3>1, <3>2, <1>1, PendingShifts
  <2> QED BY <2>2, <2>3, <2>4, <1>1 DEF FreedAfter
<1> QED BY <1>2, <1>3, <1>5 DEF UsesProtected

\* Executing an operation keeps the types; a write of Home that executes had been submitted.
LEMMA DeviceTyped ==
    ASSUME IInv, NEW u \in Streams, DeviceShape(u), queue' \in [Streams -> Seq(Ops)]
    PROVE  TypeOK'
<1>1. /\ TypeOK /\ OpsOfValues /\ WritesNumbered /\ RecordedOnce
      /\ 1 \in DOMAIN queue[u] /\ queue[u][1] \in Ops
  <2>1. TypeOK /\ OpsOfValues /\ WritesNumbered /\ RecordedOnce /\ 1 \in DOMAIN queue[u]
    BY DEF IInv, DeviceShape, Shift
  <2> QED BY <2>1 DEF TypeOK
<1>2. fired' \subseteq 1..MaxEvents
  <2>1. \A e \in 1..events : e \in 1..MaxEvents
    BY <1>1, StreamPoolAssumption DEF TypeOK
  <2>2. Kinds(u, 1) = "record" => queue[u][1].ev \in 1..events
    BY <1>1 DEF RecordedOnce
  <2> QED BY <2>1, <2>2, <1>1 DEF DeviceShape, TypeOK
<1>3. owner' \in [Blocks -> Buffers \cup {NoBuf}]
  <2>1. CASE Kinds(u, 1) = "alloc"
    <3>1. Buf(u, 1) \in Buffers
      BY <2>1, <1>1 DEF OpsOfValues
    <3>2. owner' = [owner EXCEPT ![block[Buf(u, 1)]] = Buf(u, 1)]
      BY <2>1 DEF DeviceShape
    <3> QED BY <3>1, <3>2, <1>1 DEF TypeOK
  <2>2. CASE Kinds(u, 1) = "free"
    <3>1. owner' = [owner EXCEPT ![block[Buf(u, 1)]] = NoBuf]
      BY <2>2 DEF DeviceShape
    <3> QED BY <3>1, <1>1 DEF TypeOK
  <2>3. CASE Kinds(u, 1) # "alloc" /\ Kinds(u, 1) # "free"
    BY <2>3, <1>1 DEF DeviceShape, TypeOK
  <2> QED BY <2>1, <2>2, <2>3
<1>4. done' \in [Buffers -> 0..MaxUses]
  <2>1. CASE Kinds(u, 1) = "write" /\ u = Home
    <3>1. PICK a \in Buffers : a = Buf(Home, 1)
      BY <2>1, <1>1 DEF OpsOfValues
    <3>2. done[a] \in 0..MaxUses /\ wrote[a] \in 0..MaxUses
          /\ queue[Home][1].need \in (done[a] + 1)..wrote[a]
      BY <3>1, <2>1, <1>1 DEF TypeOK, WritesNumbered
    <3>3. done[a] + 1 \in 0..MaxUses
      BY <3>2, StreamPoolAssumption
    <3> QED BY <3>1, <3>3, <2>1, <1>1 DEF DeviceShape, TypeOK
  <2>2. CASE ~(Kinds(u, 1) = "write" /\ u = Home)
    BY <2>2, <1>1 DEF DeviceShape, TypeOK
  <2> QED BY <2>1, <2>2
<1> QED BY <1>1, <1>2, <1>3, <1>4 DEF DeviceShape, host, TypeOK

\* The write that executes is the next one of its buffer.
LEMMA DeviceWrites ==
    ASSUME TypeOK, OpsOfValues, WritesNumbered, NEW u, DeviceShape(u) PROVE WritesNumbered'
<1>1. Shift(u) /\ Home \in Streams /\ u \in Streams /\ 1 \in DOMAIN queue[u] /\ Sized
      /\ wrote' = wrote /\ uses' = uses
  BY DEF DeviceShape, Shift, Sized, host
<1>2. \A b \in Buffers : /\ wrote[b] \in Nat /\ done[b] \in Nat
                         /\ done[b] <= wrote[b] /\ wrote[b] <= uses
  BY StreamPoolAssumption DEF TypeOK, WritesNumbered
<1>3. ASSUME u = Home, Kinds(Home, 1) = "write"
      PROVE  /\ Buf(Home, 1) \in Buffers
             /\ queue[Home][1].need = done[Buf(Home, 1)] + 1
             /\ done[Buf(Home, 1)] + 1 <= wrote[Buf(Home, 1)]
  <2>1. PICK a \in Buffers : a = Buf(Home, 1)
    BY <1>1, <1>3 DEF OpsOfValues
  <2>2. PICK n : n = queue[Home][1].need /\ n \in (done[a] + 1)..wrote[a]
    BY <2>1, <1>1, <1>3 DEF WritesNumbered
  <2>3. n \in Nat /\ done[a] + 1 <= n /\ done[a] + 1 <= wrote[a]
        /\ done[a] + 1 \in (done[a] + 1)..wrote[a]
    BY <2>2, <1>2
  <2>4. PICK i \in DOMAIN queue[Home] :
           Kinds(Home, i) = "write" /\ Buf(Home, i) = a /\ queue[Home][i].need = done[a] + 1
    BY <2>3 DEF WritesNumbered
  <2>5. CASE i = 1
    BY <2>1, <2>2, <2>3, <2>4, <2>5
  <2>6. CASE i # 1
    <3>1. 1 \in DOMAIN queue[Home] /\ 1 < i
      BY <2>4, <2>6, <1>1, <1>3 DEF Sized
    <3>2. n < done[a] + 1
      BY <3>1, <2>1, <2>2, <2>4, <1>3 DEF WritesNumbered
    <3> QED BY <3>2, <2>3, <1>2
  <2> QED BY <2>5, <2>6
<1>4. ASSUME NEW b \in Buffers
      PROVE  \/ done'[b] = done[b] /\ ~(u = Home /\ Kinds(Home, 1) = "write" /\ Buf(Home, 1) = b)
             \/ /\ u = Home /\ Kinds(Home, 1) = "write" /\ Buf(Home, 1) = b
                /\ done'[b] = done[b] + 1 /\ queue[Home][1].need = done[b] + 1
                /\ done[b] + 1 <= wrote[b]
  <2>1. CASE u = Home /\ Kinds(Home, 1) = "write" /\ Buf(Home, 1) = b
    BY <2>1, <1>3 DEF DeviceShape, TypeOK
  <2>2. CASE ~(u = Home /\ Kinds(Home, 1) = "write" /\ Buf(Home, 1) = b)
    BY <2>2 DEF DeviceShape, TypeOK
  <2> QED BY <2>1, <2>2
<1>5. \A b \in Buffers : done'[b] \in Nat /\ done'[b] <= wrote[b]
  BY <1>2, <1>4
<1>6. ASSUME NEW i \in DOMAIN queue'[Home], Kinds(Home, i)' = "write",
             NEW b, b = Buf(Home, i)'
      PROVE  queue'[Home][i].need \in (done'[b] + 1)..wrote[b]
  <2>1. PICK o \in DOMAIN queue[Home] :
           /\ o \in Nat \ {0} /\ ~(Home = u /\ o = 1)
           /\ Kinds(Home, o) = "write" /\ b = Buf(Home, o)
           /\ queue'[Home][i].need = queue[Home][o].need
    BY <1>1, <1>6, Shifted
  <2>2. b \in Buffers /\ queue[Home][o].need \in (done[b] + 1)..wrote[b]
    BY <2>1, <1>1 DEF OpsOfValues, WritesNumbered
  <2>3. CASE done'[b] = done[b]
    BY <2>1, <2>2, <2>3
  <2>4. CASE /\ u = Home /\ Kinds(Home, 1) = "write" /\ Buf(Home, 1) = b
             /\ done'[b] = done[b] + 1 /\ queue[Home][1].need = done[b] + 1
    <3>1. 1 \in DOMAIN queue[Home] /\ 1 < o
      BY <2>1, <2>4, <1>1
    <3>2. done[b] + 1 < queue[Home][o].need
      BY <3>1, <2>1, <2>4 DEF WritesNumbered
    <3> QED BY <3>2, <2>1, <2>2, <2>4, <1>2
  <2> QED BY <2>2, <2>3, <2>4, <1>4
<1>7. ASSUME NEW i \in DOMAIN queue'[Home], NEW j \in DOMAIN queue'[Home], i < j,
             Kinds(Home, i)' = "write", Kinds(Home, j)' = "write",
             Buf(Home, i)' = Buf(Home, j)'
      PROVE  queue'[Home][i].need < queue'[Home][j].need
  <2>1. PICK o \in DOMAIN queue[Home] : /\ o = Old(u, Home, i) /\ i \in Nat
           /\ Kinds(Home, o) = "write" /\ Buf(Home, i)' = Buf(Home, o)
           /\ queue'[Home][i].need = queue[Home][o].need
    BY <1>1, <1>7, Shifted
  <2>2. PICK r \in DOMAIN queue[Home] : /\ r = Old(u, Home, j) /\ j \in Nat
           /\ Kinds(Home, r) = "write" /\ Buf(Home, j)' = Buf(Home, r)
           /\ queue'[Home][j].need = queue[Home][r].need
    BY <1>1, <1>7, Shifted
  <2>3. o < r
    BY <2>1, <2>2, <1>1, <1>7, Shifted
  <2>4. Buf(Home, o) = Buf(Home, r)
    BY <2>1, <2>2, <1>7
  <2>5. queue[Home][o].need < queue[Home][r].need
    BY <2>1, <2>2, <2>3, <2>4 DEF WritesNumbered
  <2> QED BY <2>1, <2>2, <2>5
<1>8. ASSUME NEW b \in Buffers, NEW v \in (done'[b] + 1)..wrote[b]
      PROVE  \E i \in DOMAIN queue'[Home] :
                Kinds(Home, i)' = "write" /\ Buf(Home, i)' = b /\ queue'[Home][i].need = v
  <2>1. v \in (done[b] + 1)..wrote[b]
        /\ ~(u = Home /\ Kinds(Home, 1) = "write" /\ Buf(Home, 1) = b /\ queue[Home][1].need = v)
    <3>1. CASE done'[b] = done[b] /\ ~(u = Home /\ Kinds(Home, 1) = "write" /\ Buf(Home, 1) = b)
      BY <3>1, <1>8
    <3>2. CASE done'[b] = done[b] + 1 /\ queue[Home][1].need = done[b] + 1
      BY <3>2, <1>2, <1>8
    <3> QED BY <3>1, <3>2, <1>4
  <2>2. PICK o \in DOMAIN queue[Home] :
           Kinds(Home, o) = "write" /\ Buf(Home, o) = b /\ queue[Home][o].need = v
    BY <2>1 DEF WritesNumbered
  <2>3. PICK i \in DOMAIN queue'[Home] : o = Old(u, Home, i)
    BY <2>1, <2>2, <1>1, StillThere
  <2> QED BY <2>2, <2>3, <1>1, Shifted
<1>9. \A b \in Buffers : done'[b] <= wrote'[b] /\ wrote'[b] <= uses'
  BY <1>1, <1>2, <1>5
<1>10. \A i \in DOMAIN queue'[Home] : Kinds(Home, i)' = "write" =>
          queue'[Home][i].need \in (done'[Buf(Home, i)'] + 1)..wrote'[Buf(Home, i)']
  BY <1>1, <1>6
<1> QED BY <1>1, <1>7, <1>8, <1>9, <1>10 DEF WritesNumbered

\* Only an allocation or a free that executes changes what a buffer holds.
LEMMA HoldsShifts ==
    ASSUME NEW u, DeviceShape(u), NEW b,
           ~(u = Home /\ Kinds(Home, 1) \in {"alloc", "free"} /\ Buf(Home, 1) = b)
    PROVE  Holds(b)' <=> Holds(b)
<1>1. Shift(u) /\ state' = state
  BY DEF DeviceShape, host
<1>2. Pending("alloc", b)' <=> Pending("alloc", b)
  BY <1>1, PendingShifts
<1>3. Pending("free", b)' <=> Pending("free", b)
  BY <1>1, PendingShifts
<1> QED BY <1>1, <1>2, <1>3 DEF Holds

\* The operations of b behind the first one of Home: no allocation, and no free before them.
LEMMA FirstOfItsBuffer ==
    ASSUME Sized, LifeInOrder, 1 \in DOMAIN queue[Home], NEW b \in Buffers, Buf(Home, 1) = b
    PROVE  \A j \in DOMAIN queue[Home] : j # 1 /\ Buf(Home, j) = b =>
              1 < j /\ Kinds(Home, j) # "alloc" /\ Kinds(Home, 1) # "free"
  BY DEF LifeInOrder, Sized

\* The allocation that executes finds its block with nobody that holds it, the free takes
\* it from the buffer that does.
LEMMA DeviceOwner ==
    ASSUME IInv, NEW u \in Streams, DeviceShape(u) PROVE OwnerHolds'
<1>1. /\ Shift(u) /\ Home \in Streams /\ 1 \in DOMAIN queue[u] /\ Sized
      /\ state' = state /\ block' = block
      /\ TypeOK /\ LifeInOrder /\ OpsOfValues /\ BlocksTakenInTurn /\ OwnerHolds
  BY DEF DeviceShape, Shift, Sized, host, IInv
<1>2. \A b \in Buffers, k \in Blocks : owner[k] = b <=> k = block[b] /\ Holds(b)
  BY <1>1 DEF OwnerHolds
<1>3. CASE Kinds(u, 1) \notin {"alloc", "free"}
  <2>1. owner' = owner
    BY <1>3 DEF DeviceShape
  <2>2. \A b \in Buffers : Holds(b)' <=> Holds(b)
    BY <1>3, HoldsShifts
  <2>3. \A b \in Buffers, k \in Blocks : owner'[k] = b <=> k = block'[b] /\ Holds(b)'
    BY <2>1, <2>2, <1>1, <1>2
  <2> QED BY <2>3 DEF OwnerHolds
<1>4. CASE Kinds(u, 1) = "alloc"
  <2>1. u = Home /\ 1 \in DOMAIN queue[Home]
    BY <1>1, <1>4 DEF OpsOfValues
  <2>2. PICK a \in Buffers : a = Buf(Home, 1)
    BY <2>1, <1>1, <1>4 DEF OpsOfValues
  <2>3. state[a] # "unused" /\ (state[a] = "dropped" => Pending("free", a))
    BY <2>1, <2>2, <1>1 DEF OpsOfValues
  <2>4. \A j \in DOMAIN queue[Home] : j # 1 /\ Buf(Home, j) = a => Kinds(Home, j) # "alloc"
    BY <2>1, <2>2, <1>1, FirstOfItsBuffer
  <2>5. Holds(a)'
    <3>1. ~Pending("alloc", a)'
      <4>1. SUFFICES ASSUME NEW i \in DOMAIN queue'[Home],
                            Kinds(Home, i)' = "alloc", Buf(Home, i)' = a
                     PROVE  FALSE
        BY DEF Pending
      <4>2. PICK o \in DOMAIN queue[Home] :
               o # 1 /\ Kinds(Home, o) = "alloc" /\ Buf(Home, o) = a
        BY <2>1, <1>1, <4>1, Shifted
      <4> QED BY <4>2, <2>4
    <3>2. state[a] = "dropped" => Pending("free", a)'
      BY <2>1, <2>3, <1>1, <1>4, PendingShifts
    <3> QED BY <3>1, <3>2, <2>3, <1>1 DEF Holds
  <2>6. ASSUME NEW b \in Buffers, b # a, block[b] = block[a] PROVE ~Holds(b)
    <3>1. CASE state[b] = "unused"
      BY <3>1 DEF Holds
    <3>2. CASE OverBefore(a, b)
      BY <3>2, <2>1, <2>2, <1>4 DEF OverBefore, Holds, Pending
    <3>3. CASE OverBefore(b, a)
      <4>1. ASSUME Pending("free", b) PROVE FALSE
        <5>1. PICK i \in DOMAIN queue[Home] : Kinds(Home, i) = "free" /\ Buf(Home, i) = b
          BY <4>1 DEF Pending
        <5>2. PICK j \in DOMAIN queue[Home] :
                 i < j /\ Kinds(Home, j) = "alloc" /\ Buf(Home, j) = a
          BY <5>1, <3>3 DEF OverBefore
        <5>3. j = 1
          BY <5>2, <2>4
        <5> QED BY <5>1, <5>2, <5>3, <1>1 DEF Sized
      <4> QED BY <4>1, <3>3 DEF OverBefore, Holds
    <3> QED BY <3>1, <3>2, <3>3, <2>3, <2>6, <1>1 DEF BlocksTakenInTurn
  <2>7. owner' = [owner EXCEPT ![block[a]] = a]
    BY <2>1, <2>2, <1>4 DEF DeviceShape
  <2>8. block[a] \in Blocks
    BY <1>1 DEF TypeOK
  <2>9. ASSUME NEW b \in Buffers, NEW k \in Blocks
        PROVE  owner'[k] = b <=> k = block[b] /\ Holds(b)'
    <3>1. owner'[k] = IF k = block[a] THEN a ELSE owner[k]
      BY <2>7, <1>1 DEF TypeOK
    <3>2. CASE b = a
      BY <3>1, <3>2, <2>5, <1>2
    <3>3. CASE b # a
      <4>1. Holds(b)' <=> Holds(b)
        BY <3>3, <2>2, HoldsShifts
      <4> QED BY <4>1, <3>1, <3>3, <2>6, <1>2
    <3> QED BY <3>2, <3>3
  <2> QED BY <2>9, <1>1 DEF OwnerHolds
<1>5. CASE Kinds(u, 1) = "free"
  <2>1. u = Home /\ 1 \in DOMAIN queue[Home]
    BY <1>1, <1>5 DEF OpsOfValues
  <2>2. PICK a \in Buffers : a = Buf(Home, 1)
    BY <2>1, <1>1, <1>5 DEF OpsOfValues
  <2>3. state[a] = "dropped"
    BY <2>1, <2>2, <1>1, <1>5 DEF OpsOfValues
  <2>4. \A j \in DOMAIN queue[Home] : Buf(Home, j) = a => j = 1
    BY <2>1, <2>2, <1>1, <1>5, FirstOfItsBuffer
  <2>5. Holds(a)
    <3>1. ~Pending("alloc", a)
      BY <2>1, <2>4, <1>5 DEF Pending
    <3>2. Pending("free", a)
      BY <2>1, <2>2, <1>5 DEF Pending
    <3> QED BY <3>1, <3>2, <2>3 DEF Holds
  <2>6. ~Holds(a)'
    <3>1. ~Pending("free", a)'
      <4>1. SUFFICES ASSUME NEW i \in DOMAIN queue'[Home],
                            Kinds(Home, i)' = "free", Buf(Home, i)' = a
                     PROVE  FALSE
        BY DEF Pending
      <4>2. PICK o \in DOMAIN queue[Home] : o # 1 /\ Buf(Home, o) = a
        BY <2>1, <1>1, <4>1, Shifted
      <4> QED BY <4>2, <2>4
    <3> QED BY <3>1, <2>3, <1>1 DEF Holds
  <2>7. owner' = [owner EXCEPT ![block[a]] = NoBuf]
    BY <2>1, <2>2, <1>5 DEF DeviceShape
  <2>8. block[a] \in Blocks /\ owner[block[a]] = a
    BY <2>5, <1>1, <1>2 DEF TypeOK
  <2>9. ASSUME NEW b \in Buffers, NEW k \in Blocks
        PROVE  owner'[k] = b <=> k = block[b] /\ Holds(b)'
    <3>1. owner'[k] = (IF k = block[a] THEN NoBuf ELSE owner[k]) /\ b # NoBuf
      BY <2>7, <1>1, StreamPoolAssumption DEF TypeOK
    <3>2. CASE b = a
      BY <3>1, <3>2, <2>6, <1>2
    <3>3. CASE b # a
      <4>1. Holds(b)' <=> Holds(b)
        BY <3>3, <2>2, HoldsShifts
      <4>2. block[b] = block[a] => ~Holds(b)
        BY <3>3, <2>8, <1>2
      <4> QED BY <4>1, <4>2, <3>1, <3>3, <1>2
    <3> QED BY <3>2, <3>3
  <2> QED BY <2>9, <1>1 DEF OwnerHolds
<1> QED BY <1>3, <1>4, <1>5

\* Every step of a stream keeps the invariant.
LEMMA DeviceStepKeeps ==
    ASSUME IInv, NEW u \in Streams, DeviceStep(u) PROVE IInv'
<1>1. DeviceShape(u) /\ queue' \in [Streams -> Seq(Ops)]
  BY DeviceStepShape DEF IInv
<1>2. TypeOK' /\ OwnerHolds'
  BY <1>1, DeviceTyped, DeviceOwner
<1> QED BY <1>1, <1>2, DeviceRecorded, DeviceLife, DeviceOps, DeviceTurns, DeviceWrites,
           DeviceSharing, DeviceConsumers, DeviceUses, DeviceProtected DEF IInv

-----------------------------------------------------------------------------
\* A new allocator: no values, empty streams.
LEMMA InitHolds == Init => IInv
<1> SUFFICES ASSUME Init PROVE IInv
  OBVIOUS
<1>1. \A s \in Streams : queue[s] = <<>> /\ DOMAIN queue[s] = {}
  BY DEF Init
<1>2. Home \in Streams /\ Consumers \subseteq Streams
  BY DEF Streams
<1>3. TypeOK
  <2>1. (CHOOSE k \in Blocks : TRUE) \in Blocks
    BY StreamPoolAssumption
  <2>2. NoShare \in [pc : {"idle", "recorded", "waiting"}, buf : Buffers \cup {NoBuf},
                     to : Streams, ev : 0..MaxEvents, ver : 0..MaxUses]
    BY <1>2, StreamPoolAssumption DEF NoShare
  <2>3. 0 \in 0..MaxUses /\ 0 \in 0..MaxEvents
    BY StreamPoolAssumption
  <2> QED BY <2>1, <2>2, <2>3 DEF Init, TypeOK
<1>4. RecordedOnce /\ LifeInOrder /\ OpsOfValues /\ UsesPromised /\ UsesProtected
  BY <1>1, <1>2 DEF Init, RecordedOnce, LifeInOrder, OpsOfValues, UsesPromised, UsesProtected
<1>5. BlocksTakenInTurn
  BY DEF Init, BlocksTakenInTurn
<1>6. OwnerHolds
  BY StreamPoolAssumption DEF Init, OwnerHolds, Holds
<1>7. WritesNumbered
  BY <1>1, <1>2 DEF Init, WritesNumbered
<1>8. SharingPromises
  BY DEF Init, SharingPromises, NoShare
<1>9. ConsumersPromised
  BY DEF Init, ConsumersPromised, ToSet
<1> QED BY <1>3, <1>4, <1>5, <1>6, <1>7, <1>8, <1>9 DEF IInv

\* A step that changes nothing keeps the invariant.
LEMMA StutterKeeps == ASSUME IInv, UNCHANGED vars PROVE IInv'
<1> USE DEF vars
<1>1. TypeOK'
  BY DEF IInv, TypeOK
<1>2. RecordedOnce' /\ LifeInOrder' /\ WritesNumbered'
  BY DEF IInv, RecordedOnce, LifeInOrder, WritesNumbered, Kinds, Buf
<1>3. OpsOfValues'
  BY DEF IInv, OpsOfValues, Pending, Kinds, Buf
<1>4. BlocksTakenInTurn' /\ OwnerHolds'
  BY DEF IInv, BlocksTakenInTurn, OverBefore, OwnerHolds, Holds, Pending, Kinds, Buf
<1>5. SharingPromises' /\ ConsumersPromised' /\ UsesPromised'
  BY DEF IInv, SharingPromises, ConsumersPromised, UsesPromised, Promised, Due, Before,
         IsUse, Kinds, Buf
<1>6. UsesProtected'
  BY DEF IInv, UsesProtected, FreedAfter, Pending, Before, IsUse, Kinds, Buf
<1> QED BY <1>1, <1>2, <1>3, <1>4, <1>5, <1>6 DEF IInv

\* Whatever the host threads submit and the streams execute, and however far the
\* streams are apart, the queues keep saying of one another what IInv names.
THEOREM PoolInvariant == Spec => []IInv
<1>1. Init => IInv
  BY InitHolds
<1>2. IInv /\ [Next]_vars => IInv'
  BY HostStepKeeps, DropStepKeeps, DeviceStepKeeps, StutterKeeps DEF Next
<1> QED BY <1>1, <1>2, PTL DEF Spec

\* The operation a stream executes next is the first of its queue.
LEMMA FirstUse ==
    ASSUME IInv, NEW s \in Streams, queue[s] # <<>>
    PROVE  1 \in DOMAIN queue[s] /\ Head(queue[s]) = queue[s][1] /\ queue[s][1] \in Ops
<1>1. PICK q \in Seq(Ops) : q = queue[s]
  BY DEF IInv, TypeOK
<1>2. q # <<>> => 1 \in DOMAIN q /\ Head(q) = q[1] /\ q[1] \in Ops
  OBVIOUS
<1> QED BY <1>1, <1>2

\* Nothing that was promised to the first operation of a consumer is still pending.
LEMMA FirstIsAfterItsPromise ==
    ASSUME IInv, NEW s \in Consumers, 1 \in DOMAIN queue[s], IsUse(s, 1)
    PROVE  /\ ~Pending("alloc", Buf(s, 1))
           /\ queue[s][1].need <= done[Buf(s, 1)]
<1>1. /\ Sized /\ s \in Streams /\ Home \in Streams /\ Buf(s, 1) \in Buffers
      /\ UsesPromised /\ WritesNumbered /\ TypeOK
  BY TypedSized DEF IInv, Sized, OpsOfValues, IsUse
<1>2. PICK b \in Buffers, n \in Nat : b = Buf(s, 1) /\ n = queue[s][1].need
  <2>1. queue[s][1] \in Ops
    BY <1>1 DEF TypeOK
  <2> QED BY <2>1, <1>1, StreamPoolAssumption DEF Ops
<1>3. done[b] \in Nat /\ wrote[b] \in Nat
  BY <1>1, StreamPoolAssumption DEF TypeOK
<1>4. n <= wrote[b] /\ \A p \in DOMAIN queue[Home] : ~Due(p, b, n)
  BY <1>1, <1>2, NothingBeforeFirst DEF UsesPromised, Promised
<1>5. ~Pending("alloc", b)
  BY <1>4 DEF Pending, Due
<1>6. n <= done[b]
  <2>1. SUFFICES ASSUME n \in (done[b] + 1)..wrote[b] PROVE FALSE
    BY <1>3, <1>4
  <2>2. PICK i \in DOMAIN queue[Home] :
           Kinds(Home, i) = "write" /\ Buf(Home, i) = b /\ queue[Home][i].need = n
    BY <2>1, <1>1 DEF WritesNumbered
  <2> QED BY <2>2, <1>3, <1>4 DEF Due
<1> QED BY <1>2, <1>5, <1>6

\* The invariant makes the operation that executes next a safe one: what it must come after
\* cannot be pending when it stands first.
LEMMA PoolIsSafe == IInv => PoolSafe
<1> SUFFICES ASSUME IInv PROVE PoolSafe
  OBVIOUS
<1>1. /\ Sized /\ Home \in Streams /\ Consumers \subseteq Streams /\ TypeOK
      /\ LifeInOrder /\ OpsOfValues /\ OwnerHolds /\ UsesProtected /\ ConsumersPromised
  BY TypedSized DEF IInv, Sized
<1>2. SharedWritesDone
  <2>1. SUFFICES ASSUME NEW s \in Consumers, queue[s] # <<>>,
                        Head(queue[s]).kind \in {"read", "write"}
                 PROVE  done[Head(queue[s]).buf] >= Head(queue[s]).need
    BY DEF SharedWritesDone
  <2>2. 1 \in DOMAIN queue[s] /\ Head(queue[s]) = queue[s][1] /\ queue[s][1] \in Ops
    BY <2>1, <1>1, FirstUse
  <2>3. PICK b \in Buffers, n \in Nat :
           b = Buf(s, 1) /\ n = queue[s][1].need /\ IsUse(s, 1)
    <3>1. Buf(s, 1) \in Buffers /\ IsUse(s, 1)
      BY <2>1, <2>2, <1>1 DEF IsUse, Kinds, OpsOfValues
    <3> QED BY <3>1, <2>2, StreamPoolAssumption DEF Ops
  <2>4. n <= done[b]
    BY <2>2, <2>3, FirstIsAfterItsPromise
  <2>5. done[b] \in Nat
    BY <1>1, StreamPoolAssumption DEF TypeOK
  <2>6. done[b] >= n
    BY <2>4, <2>5
  <2> QED BY <2>2, <2>3, <2>6 DEF Buf
<1>3. UsesOwnBlock
  <2>1. SUFFICES ASSUME NEW s \in Streams, queue[s] # <<>>,
                        Head(queue[s]).kind \in {"read", "write"},
                        Head(queue[s]).buf \notin unordered
                 PROVE  owner[block[Head(queue[s]).buf]] = Head(queue[s]).buf
    BY DEF UsesOwnBlock
  <2>2. 1 \in DOMAIN queue[s] /\ Head(queue[s]) = queue[s][1]
    BY <2>1, FirstUse
  <2>3. PICK b \in Buffers : b = Buf(s, 1) /\ b = Head(queue[s]).buf /\ state[b] # "unused"
                            /\ IsUse(s, 1)
    BY <2>1, <2>2, <1>1 DEF IsUse, Kinds, Buf, OpsOfValues
  <2>4. ~Pending("alloc", b) /\ (state[b] = "dropped" => Pending("free", b))
    <3>1. CASE s = Home
      <4>1. \A j \in DOMAIN queue[Home] : j # 1 /\ Buf(Home, j) = b => Kinds(Home, j) # "alloc"
        BY <3>1, <2>2, <2>3, <1>1, FirstOfItsBuffer
      <4>2. ~Pending("alloc", b)
        BY <4>1, <3>1, <2>3 DEF Pending, IsUse
      <4> QED BY <4>2, <3>1, <2>2, <2>3, <1>1 DEF OpsOfValues
    <3>2. CASE s # Home
      <4>1. s \in Consumers
        BY <3>2 DEF Streams
      <4>2. ~Pending("alloc", b)
        BY <4>1, <2>2, <2>3, FirstIsAfterItsPromise
      <4>3. s \in ToSet(consumers[b]) \/ FreedAfter(s, 1, b)
        BY <4>1, <2>1, <2>2, <2>3, <1>1 DEF UsesProtected
      <4>4. s \in ToSet(consumers[b]) => state[b] # "dropped"
        <5>1. consumers[b] = <<>> => ToSet(consumers[b]) = {}
          BY DEF ToSet
        <5> QED BY <5>1, <1>1 DEF ConsumersPromised
      <4> QED BY <4>2, <4>3, <4>4 DEF FreedAfter
    <3> QED BY <3>1, <3>2
  <2>5. Holds(b) /\ block[b] \in Blocks
    BY <2>3, <2>4, <1>1 DEF Holds, TypeOK
  <2>6. owner[block[b]] = b
    BY <2>5, <1>1 DEF OwnerHolds
  <2> QED BY <2>3, <2>6
<1> QED BY <1>2, <1>3 DEF PoolSafe

\* pool.rs:193-257: a use that executes, on any stream, finds its block allocated to
\* its own buffer and sees every write it was shared behind; the stream order and the
\* events of share_with and Drop are enough, whatever the streams' relative progress.
THEOREM PoolSafeHolds == Spec => []PoolSafe
  BY PoolInvariant, PoolIsSafe, PTL
===============================================================================
