------------------------------ MODULE StreamPool ------------------------------
(***************************************************************************)
(* Stream-ordered pooled memory of nnis-rt (pool.rs).  An allocator is     *)
(* bound to one stream, Home: allocations and frees are operations of that *)
(* stream, so a block may be handed out again while older streams are      *)
(* still running.  share_with lets another stream use a buffer: an event   *)
(* on Home that the consumer waits for, and a registration that makes the  *)
(* drop wait for an event of every registered consumer before the free.    *)
(*                                                                         *)
(* Several host threads use the allocator: one may be inside share_with,   *)
(* one inside a drop (never of the same buffer: share_with borrows it),    *)
(* while others submit work.  Streams execute their queues independently.  *)
(***************************************************************************)
EXTENDS Naturals, Sequences, FiniteSets, SequencesExt

CONSTANTS
    Consumers,     \* streams of the context other than the allocating one
    Home,          \* the allocating stream
    Buffers,       \* PooledBuffer values the callers may make (non-empty ones)
    Blocks,        \* memory blocks of the pool
    MaxUses,       \* bound: copies and fills submitted
    MaxEvents,     \* bound: events created
    MaxWork        \* bound: copies, fills and events together

NoBuf == "none"

ASSUME StreamPoolAssumption ==
    /\ Home \notin Consumers
    /\ NoBuf \notin Buffers
    /\ Blocks # {}
    /\ MaxUses \in Nat /\ MaxEvents \in Nat /\ MaxWork \in Nat

Streams == Consumers \cup {Home}

VARIABLES
    queue,      \* queue[s]: submitted and unexecuted operations of stream s; a
                \* write on Home carries its number, a use by a consumer the
                \* number of the last write it was promised to see
    fired,      \* events whose record has executed
    owner,      \* owner[k]: the buffer block k is allocated to, on the device
    block,      \* block[b]: the pointer of buffer b
    state,      \* state[b]: the Rust value: unused, live, dropping, dropped
    consumers,  \* consumers[b]: the registered streams, in grant order
    sharing,    \* the share_with call in progress
    events,     \* events created so far
    uses,       \* uses submitted so far
    wrote,      \* ghost: Home writes of b submitted
    done,       \* ghost: Home writes of b executed
    granted,    \* ghost: Home writes of b a stream has been promised to see
    unordered   \* ghost: buffers whose drop could not order a consumer

vars == <<queue, fired, owner, block, state, consumers, sharing, events, uses,
          wrote, done, granted, unordered>>

host == <<block, state, consumers, sharing, events, uses, wrote, granted, unordered>>

NoShare == [pc |-> "idle", buf |-> NoBuf, to |-> Home, ev |-> 0, ver |-> 0]

Ops == [kind : {"alloc", "free", "write", "read", "record", "wait"},
        buf : Buffers \cup {NoBuf}, ev : 0..MaxEvents, need : 0..MaxUses]

TypeOK ==
    /\ queue \in [Streams -> Seq(Ops)]
    /\ fired \subseteq 1..MaxEvents
    /\ owner \in [Blocks -> Buffers \cup {NoBuf}]
    /\ block \in [Buffers -> Blocks]
    /\ state \in [Buffers -> {"unused", "live", "dropping", "dropped"}]
    /\ consumers \in [Buffers -> Seq(Consumers)]
    /\ sharing \in [pc : {"idle", "recorded", "waiting"}, buf : Buffers \cup {NoBuf},
                    to : Streams, ev : 0..MaxEvents, ver : 0..MaxUses]
    /\ events \in 0..MaxEvents /\ uses \in 0..MaxUses
    /\ wrote \in [Buffers -> 0..MaxUses] /\ done \in [Buffers -> 0..MaxUses]
    /\ granted \in [Buffers -> [Consumers -> 0..MaxUses]]
    /\ unordered \subseteq Buffers

Init ==
    /\ queue = [s \in Streams |-> <<>>]
    /\ fired = {}
    /\ owner = [k \in Blocks |-> NoBuf]
    /\ block = [b \in Buffers |-> CHOOSE k \in Blocks : TRUE]
    /\ state = [b \in Buffers |-> "unused"]
    /\ consumers = [b \in Buffers |-> <<>>]
    /\ sharing = NoShare
    /\ events = 0 /\ uses = 0
    /\ wrote = [b \in Buffers |-> 0]
    /\ done = [b \in Buffers |-> 0]
    /\ granted = [b \in Buffers |-> [s \in Consumers |-> 0]]
    /\ unordered = {}

Op(kind, b, ev, need) == [kind |-> kind, buf |-> b, ev |-> ev, need |-> need]

\* The driver accepts an operation at the end of stream s.
Submit(s, op) == queue' = [queue EXCEPT ![s] = Append(@, op)]

-----------------------------------------------------------------------------
\* alloc: a block no live value holds; the pool may reuse one whose free is
\* only enqueued, since the allocation follows it on the same stream.
Alloc(b, k) ==
    /\ state[b] = "unused"
    /\ \A c \in Buffers : state[c] \in {"live", "dropping"} => block[c] # k
    /\ state' = [state EXCEPT ![b] = "live"]
    /\ block' = [block EXCEPT ![b] = k]
    /\ Submit(Home, Op("alloc", b, 0, 0))
    /\ UNCHANGED <<fired, owner, consumers, sharing, events, uses, wrote, done,
                   granted, unordered>>

\* ensure_stream_access: the allocating stream, or a registered consumer.
MayUse(b, s) == s = Home \/ \E i \in DOMAIN consumers[b] : consumers[b][i] = s

\* zero_async, copy_from_host_async ("write") or copy_to_host_async ("read").
Use(b, s, kind) ==
    /\ state[b] = "live" /\ MayUse(b, s)
    /\ uses < MaxUses /\ uses + events < MaxWork
    /\ uses' = uses + 1
    /\ wrote' = IF s = Home /\ kind = "write" THEN [wrote EXCEPT ![b] = @ + 1] ELSE wrote
    /\ Submit(s, Op(kind, b, 0, IF s = Home THEN wrote'[b] ELSE granted[b][s]))
    /\ UNCHANGED <<fired, owner, block, state, consumers, sharing, events, done,
                   granted, unordered>>

-----------------------------------------------------------------------------
\* share_with with another stream: the event is created and recorded on Home.
ShareRecord(b, s) ==
    /\ sharing.pc = "idle" /\ state[b] = "live"
    /\ events < MaxEvents /\ uses + events < MaxWork
    /\ events' = events + 1
    /\ Submit(Home, Op("record", NoBuf, events', 0))
    /\ sharing' = [pc |-> "recorded", buf |-> b, to |-> s, ev |-> events', ver |-> wrote[b]]
    /\ UNCHANGED <<fired, owner, block, state, consumers, uses, wrote, done, granted,
                   unordered>>

\* Mutant: the handoff registers the consumer without making it wait.
ShareNoWait ==
    /\ sharing.pc = "recorded"
    /\ sharing' = [sharing EXCEPT !.pc = "waiting"]
    /\ UNCHANGED <<queue, fired, owner, block, state, consumers, events, uses, wrote,
                   done, granted, unordered>>

\* share_with: the consumer waits for the event.
ShareWait ==
    /\ sharing.pc = "recorded"
    /\ Submit(sharing.to, Op("wait", NoBuf, sharing.ev, 0))
    /\ sharing' = [sharing EXCEPT !.pc = "waiting"]
    /\ UNCHANGED <<fired, owner, block, state, consumers, events, uses, wrote, done,
                   granted, unordered>>

\* Event::new, record or wait_event fails: the error returns, no registration.
ShareFail ==
    /\ sharing.pc = "recorded"
    /\ sharing' = NoShare
    /\ UNCHANGED <<queue, fired, owner, block, state, consumers, events, uses, wrote,
                   done, granted, unordered>>

\* The consumer is pushed unless it is registered already.
Register(list, s) == IF s \in ToSet(list) THEN list ELSE Append(list, s)

\* share_with: registration under the lock; the call returns.
ShareRegister ==
    /\ sharing.pc = "waiting"
    /\ consumers' = [consumers EXCEPT ![sharing.buf] = Register(@, sharing.to)]
    /\ granted' = [granted EXCEPT ![sharing.buf][sharing.to] = sharing.ver]
    /\ sharing' = NoShare
    /\ UNCHANGED <<queue, fired, owner, block, state, events, uses, wrote, done, unordered>>

-----------------------------------------------------------------------------
\* The value is dropped: nobody else refers to it any more.
DropBegin(b) ==
    /\ state[b] = "live" /\ sharing.buf # b
    /\ state' = [state EXCEPT ![b] = "dropping"]
    /\ UNCHANGED <<queue, fired, owner, block, consumers, sharing, events, uses, wrote,
                   done, granted, unordered>>

\* Mutant: the drop waits for an event it has not recorded on the consumer.
DropConsumerNoRecord(b) ==
    /\ state[b] = "dropping" /\ consumers[b] # <<>>
    /\ events < MaxEvents /\ uses + events < MaxWork
    /\ events' = events + 1
    /\ consumers' = [consumers EXCEPT ![b] = Tail(@)]
    /\ Submit(Home, Op("wait", NoBuf, events', 0))
    /\ UNCHANGED <<fired, owner, block, state, sharing, uses, wrote, done, granted,
                   unordered>>

\* Drop, one registered consumer: record on it, let Home wait for the event.
\* The two submissions go to different streams and nothing is decided between
\* them, so they are one step.
DropConsumer(b) ==
    /\ state[b] = "dropping" /\ consumers[b] # <<>>
    /\ events < MaxEvents /\ uses + events < MaxWork
    /\ events' = events + 1
    /\ consumers' = [consumers EXCEPT ![b] = Tail(@)]
    /\ queue' = [queue EXCEPT ![Head(consumers[b])] = Append(@, Op("record", NoBuf, events', 0)),
                              ![Home] = Append(@, Op("wait", NoBuf, events', 0))]
    /\ UNCHANGED <<fired, owner, block, state, sharing, uses, wrote, done, granted,
                   unordered>>

\* Drop: Event::new, record or wait_event fails and is ignored.
DropConsumerFail(b) ==
    /\ state[b] = "dropping" /\ consumers[b] # <<>>
    /\ consumers' = [consumers EXCEPT ![b] = Tail(@)]
    /\ unordered' = unordered \cup {b}
    /\ UNCHANGED <<queue, fired, owner, block, state, sharing, events, uses, wrote,
                   done, granted>>

\* Mutant: the free does not look at the consumers.
DropFreeAtOnce(b) ==
    /\ state[b] = "dropping"
    /\ Submit(Home, Op("free", b, 0, 0))
    /\ state' = [state EXCEPT ![b] = "dropped"]
    /\ UNCHANGED <<fired, owner, block, consumers, sharing, events, uses, wrote, done,
                   granted, unordered>>

\* Drop: cuMemFreeAsync on Home, after every consumer has been handled.
DropFree(b) ==
    /\ state[b] = "dropping" /\ consumers[b] = <<>>
    /\ Submit(Home, Op("free", b, 0, 0))
    /\ state' = [state EXCEPT ![b] = "dropped"]
    /\ UNCHANGED <<fired, owner, block, consumers, sharing, events, uses, wrote, done,
                   granted, unordered>>

-----------------------------------------------------------------------------
\* Stream s executes its next operation; a wait holds it until the event fired.
DeviceStep(s) ==
    /\ queue[s] # <<>>
    /\ queue' = [queue EXCEPT ![s] = Tail(@)]
    /\ LET op == Head(queue[s]) IN
       /\ op.kind = "wait" => op.ev \in fired
       /\ fired' = IF op.kind = "record" THEN fired \cup {op.ev} ELSE fired
       /\ owner' = CASE op.kind = "alloc" -> [owner EXCEPT ![block[op.buf]] = op.buf]
                     [] op.kind = "free"  -> [owner EXCEPT ![block[op.buf]] = NoBuf]
                     [] OTHER -> owner
       /\ done' = IF op.kind = "write" /\ s = Home THEN [done EXCEPT ![op.buf] = @ + 1]
                  ELSE done
    /\ UNCHANGED host

HostStep ==
    \/ \E b \in Buffers, k \in Blocks : Alloc(b, k)
    \/ \E b \in Buffers, s \in Streams, kind \in {"read", "write"} : Use(b, s, kind)
    \/ \E b \in Buffers, s \in Consumers : ShareRecord(b, s)
    \/ ShareWait \/ ShareFail \/ ShareRegister
    \/ \E b \in Buffers : DropBegin(b)

DropStep(b) == DropConsumer(b) \/ DropConsumerFail(b) \/ DropFree(b)

Next ==
    \/ HostStep
    \/ \E b \in Buffers : DropStep(b)
    \/ \E s \in Streams : DeviceStep(s)

Spec == Init /\ [][Next]_vars

\* A started drop runs to its end, and every stream makes progress.
Fairness ==
    /\ \A b \in Buffers : WF_vars(DropStep(b))
    /\ \A s \in Streams : WF_vars(DeviceStep(s))

FairSpec == Spec /\ Fairness

-----------------------------------------------------------------------------
\* pool.rs:193-201: whatever the streams' relative progress, a use that executes
\* finds its block allocated to its own buffer: not freed, and not handed to a
\* later buffer.  Drops whose events failed are best effort and left out.
UsesOwnBlock ==
    \A s \in Streams :
        LET op == Head(queue[s]) IN
        queue[s] # <<>> /\ op.kind \in {"read", "write"} /\ op.buf \notin unordered
            => owner[block[op.buf]] = op.buf

\* pool.rs:254-257: a use by a consumer executes after every write that was in
\* the allocating stream when share_with recorded its event.
SharedWritesDone ==
    \A s \in Consumers :
        LET op == Head(queue[s]) IN
        queue[s] # <<>> /\ op.kind \in {"read", "write"} => done[op.buf] >= op.need

\* pool.rs:193-257: a use meets its own block as the writes it was shared after
\* left it, however far the streams are apart.
PoolSafe == UsesOwnBlock /\ SharedWritesDone

\* pool.rs:443-466: the events of shares and drops never make streams wait for
\* each other in a circle: the block of every dropped buffer is given back.
DroppedIsFreed ==
    \A b \in Buffers : state[b] = "dropping" ~> (state[b] = "dropped" /\ owner[block[b]] # b)
-----------------------------------------------------------------------------
\* Why PoolSafe holds: what the queues say about one another.

Kinds(s, i) == queue[s][i].kind
Buf(s, i)   == queue[s][i].buf
IsUse(s, i) == Kinds(s, i) \in {"read", "write"}

\* An operation of this kind on b is in the allocating stream.
Pending(kind, b) == \E i \in DOMAIN queue[Home] : Kinds(Home, i) = kind /\ Buf(Home, i) = b

\* Position p of stream t comes after position i of stream s: an event recorded
\* on s after i is waited for on t before p.
Before(s, i, t, p) ==
    \E j \in DOMAIN queue[s], q \in DOMAIN queue[t] :
        /\ i < j /\ q < p
        /\ Kinds(s, j) = "record" /\ Kinds(t, q) = "wait" /\ queue[s][j].ev = queue[t][q].ev

\* An event is recorded once, and fires when its record executes.
RecordedOnce ==
    /\ fired \subseteq 1..events
    /\ \A s \in Streams : \A i \in DOMAIN queue[s] :
         Kinds(s, i) = "record" => queue[s][i].ev \in (1..events) \ fired
    /\ \A s, t \in Streams : \A i \in DOMAIN queue[s] : \A j \in DOMAIN queue[t] :
         Kinds(s, i) = "record" /\ Kinds(t, j) = "record" /\ queue[s][i].ev = queue[t][j].ev
            => s = t /\ i = j

\* In the allocating stream the allocation of a buffer is its first operation
\* and the free is its last.
LifeInOrder ==
    \A i, j \in DOMAIN queue[Home] :
        i < j /\ Buf(Home, i) = Buf(Home, j) /\ Buf(Home, i) \in Buffers
            => Kinds(Home, j) # "alloc" /\ Kinds(Home, i) # "free"

\* Only values that exist have operations, only dropped ones a free, which the
\* operations of a dropped buffer in the allocating stream are followed by.
OpsOfValues ==
    \A s \in Streams : \A i \in DOMAIN queue[s] :
        /\ Kinds(s, i) \in {"alloc", "free"} => s = Home
        /\ Kinds(s, i) \in {"alloc", "free", "read", "write"} => Buf(s, i) \in Buffers
        /\ Buf(s, i) \in Buffers => state[Buf(s, i)] # "unused"
        /\ Kinds(s, i) = "free" => state[Buf(s, i)] = "dropped"
        /\ s = Home /\ Buf(s, i) \in Buffers /\ state[Buf(s, i)] = "dropped"
              => Pending("free", Buf(s, i))

\* The life of b is over, in the allocating stream, before that of c begins.
OverBefore(b, c) ==
    /\ state[b] = "dropped"
    /\ \A i \in DOMAIN queue[Home] : Kinds(Home, i) \in {"alloc", "free"} /\ Buf(Home, i) = b
          => \E j \in DOMAIN queue[Home] :
                i < j /\ Kinds(Home, j) = "alloc" /\ Buf(Home, j) = c

\* Two buffers have the same block one after the other.
BlocksTakenInTurn ==
    \A b, c \in Buffers :
        b # c /\ block[b] = block[c] /\ state[b] # "unused" /\ state[c] # "unused"
            => OverBefore(b, c) \/ OverBefore(c, b)

\* The block is the buffer's from the execution of its allocation to that of its free.
Holds(b) ==
    /\ state[b] # "unused"
    /\ ~Pending("alloc", b)
    /\ state[b] = "dropped" => Pending("free", b)

OwnerHolds ==
    \A b \in Buffers, k \in Blocks : owner[k] = b <=> k = block[b] /\ Holds(b)

\* The writes of Home carry their numbers, and none between done and wrote is missing.
WritesNumbered ==
    /\ \A i, j \in DOMAIN queue[Home] :
          /\ Kinds(Home, i) = "write" =>
                queue[Home][i].need \in (done[Buf(Home, i)] + 1)..wrote[Buf(Home, i)]
          /\ i < j /\ Kinds(Home, i) = "write" /\ Kinds(Home, j) = "write"
               /\ Buf(Home, i) = Buf(Home, j)
                => queue[Home][i].need < queue[Home][j].need
    /\ \A b \in Buffers : done[b] <= wrote[b] /\ wrote[b] <= uses
    /\ \A b \in Buffers : \A v \in (done[b] + 1)..wrote[b] :
          \E i \in DOMAIN queue[Home] :
             Kinds(Home, i) = "write" /\ Buf(Home, i) = b /\ queue[Home][i].need = v

\* What a stream that was granted b with its first v writes has to come after.
Due(p, b, v) ==
    /\ Buf(Home, p) = b
    /\ \/ Kinds(Home, p) = "alloc"
       \/ Kinds(Home, p) = "write" /\ queue[Home][p].need <= v

Promised(s, i, b, v) ==
    /\ v <= wrote[b]
    /\ \A p \in DOMAIN queue[Home] : Due(p, b, v) => Before(Home, p, s, i)

\* The share in progress: its buffer is borrowed, its event behind what is due.
SharingPromises ==
    sharing.pc # "idle" =>
        /\ sharing.buf \in Buffers /\ state[sharing.buf] = "live"
        /\ sharing.to \in Consumers /\ sharing.ver <= wrote[sharing.buf]
        /\ sharing.pc = "recorded" =>
              \A p \in DOMAIN queue[Home] : Due(p, sharing.buf, sharing.ver) =>
                 \E q \in DOMAIN queue[Home] :
                    p < q /\ Kinds(Home, q) = "record" /\ queue[Home][q].ev = sharing.ev
        /\ sharing.pc = "waiting" =>
              Promised(sharing.to, Len(queue[sharing.to]) + 1, sharing.buf, sharing.ver)

\* A registered stream, and every use in its queue, comes after what it was promised.
ConsumersPromised ==
    \A b \in Buffers :
        /\ consumers[b] # <<>> => state[b] \in {"live", "dropping"}
        /\ \A s \in ToSet(consumers[b]) : Promised(s, Len(queue[s]) + 1, b, granted[b][s])

UsesPromised ==
    \A s \in Consumers : \A i \in DOMAIN queue[s] :
        IsUse(s, i) => Promised(s, i, Buf(s, i), queue[s][i].need)

\* The free of b comes after position i of s, whether it is enqueued or not.
FreedAfter(s, i, b) ==
    /\ Before(s, i, Home, Len(queue[Home]) + 1)
    /\ \A p \in DOMAIN queue[Home] :
          Kinds(Home, p) = "free" /\ Buf(Home, p) = b => Before(s, i, Home, p)
    /\ state[b] = "dropped" => Pending("free", b)

\* A consumer with a use in its queue is still to be waited for, or is waited for
\* before the free.
UsesProtected ==
    \A s \in Consumers : \A i \in DOMAIN queue[s] :
        IsUse(s, i) /\ Buf(s, i) \notin unordered =>
            s \in ToSet(consumers[Buf(s, i)]) \/ FreedAfter(s, i, Buf(s, i))

IInv == /\ TypeOK
        /\ RecordedOnce /\ LifeInOrder /\ OpsOfValues
        /\ BlocksTakenInTurn /\ OwnerHolds /\ WritesNumbered
        /\ SharingPromises /\ ConsumersPromised /\ UsesPromised /\ UsesProtected
=============================================================================
