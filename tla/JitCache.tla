------------------------------- MODULE JitCache -------------------------------
(***************************************************************************)
(* The process-local compiled-code cache of nnis-jit (cache.rs).  Several  *)
(* threads share one JitCompiler.  A call of compile looks its key up      *)
(* under the mutex, compiles OUTSIDE the mutex when the key is missing,    *)
(* and takes the mutex again to insert; clear may run at any moment.       *)
(* A CompiledCode is an immutable object known by its identity: the code   *)
(* and the tests compare results with Arc::ptr_eq.                         *)
(***************************************************************************)
EXTENDS Naturals, FiniteSets

CONSTANTS
    Threads,       \* threads sharing the JitCompiler
    Keys,          \* ProgramCacheKey values (source, options, kind)
    MaxObjects,    \* bound: successful compilations in one behaviour
    MaxClears      \* bound: calls of clear in one behaviour

ASSUME JitCacheAssumption ==
    /\ Keys # {}
    /\ MaxObjects \in Nat
    /\ MaxClears \in Nat

VARIABLES
    cache,      \* the map under the mutex: a key's kept object, 0 if absent
    made,       \* objects made so far; their identities are 1..made
    pc,         \* pc[t]: where t stands in compile
    want,       \* want[t]: the key t asked for
    mine,       \* mine[t]: the object t has compiled and not yet inserted
    epoch,      \* ghost: calls of clear so far
    returned    \* ghost: <<key, object, epoch>> of every successful return

vars == <<cache, made, pc, want, mine, epoch, returned>>

Absent == 0
Objects == 1..MaxObjects

TypeOK ==
    /\ cache \in [Keys -> Objects \cup {Absent}]
    /\ made \in 0..MaxObjects
    /\ pc \in [Threads -> {"idle", "compiling", "inserting"}]
    /\ want \in [Threads -> Keys]
    /\ mine \in [Threads -> Objects \cup {Absent}]
    /\ epoch \in 0..MaxClears
    /\ returned \subseteq (Keys \X Objects \X (0..MaxClears))
    /\ \A t \in Threads : mine[t] # Absent <=> pc[t] = "inserting"

Init ==
    /\ cache = [k \in Keys |-> Absent]
    /\ made = 0
    /\ pc = [t \in Threads |-> "idle"]
    /\ want = [t \in Threads |-> CHOOSE k \in Keys : TRUE]
    /\ mine = [t \in Threads |-> Absent]
    /\ epoch = 0
    /\ returned = {}

-----------------------------------------------------------------------------
\* compile, first critical section: the key is there, return the kept object.
Hit(t, k) ==
    /\ pc[t] = "idle"
    /\ cache[k] # Absent
    /\ returned' = returned \cup {<<k, cache[k], epoch>>}
    /\ UNCHANGED <<cache, made, pc, want, mine, epoch>>

\* compile, first critical section: the key is missing; the lock is released.
Miss(t, k) ==
    /\ pc[t] = "idle"
    /\ cache[k] = Absent
    /\ pc' = [pc EXCEPT ![t] = "compiling"]
    /\ want' = [want EXCEPT ![t] = k]
    /\ UNCHANGED <<cache, made, mine, epoch, returned>>

\* Mutant: the error of JitProgram::compile is swallowed and the call goes on.
CompileFailIgnored(t) ==
    /\ pc[t] = "compiling"
    /\ pc' = [pc EXCEPT ![t] = "inserting"]
    /\ UNCHANGED <<cache, made, want, mine, epoch, returned>>

\* JitProgram::compile, ptx or cubin fails: compile returns the error.
CompileFail(t) ==
    /\ pc[t] = "compiling"
    /\ pc' = [pc EXCEPT ![t] = "idle"]
    /\ UNCHANGED <<cache, made, want, mine, epoch, returned>>

\* Compilation succeeds outside the lock: a fresh immutable object.
CompileOk(t) ==
    /\ pc[t] = "compiling"
    /\ made < MaxObjects
    /\ made' = made + 1
    /\ mine' = [mine EXCEPT ![t] = made + 1]
    /\ pc' = [pc EXCEPT ![t] = "inserting"]
    /\ UNCHANGED <<cache, want, epoch, returned>>

\* Mutant: HashMap::insert instead of or_insert_with, the last writer wins.
KeptLast(old, new) == new

\* entry(key).or_insert_with: the object already under the key wins.
Kept(old, new) == IF old = Absent THEN new ELSE old

\* compile, second critical section: insert if absent, return what is kept.
Insert(t) ==
    /\ pc[t] = "inserting"
    /\ LET k == want[t]
           o == Kept(cache[k], mine[t])
       IN /\ cache' = [cache EXCEPT ![k] = o]
          /\ returned' = returned \cup {<<k, o, epoch>>}
    /\ mine' = [mine EXCEPT ![t] = Absent]
    /\ pc' = [pc EXCEPT ![t] = "idle"]
    /\ UNCHANGED <<made, want, epoch>>

\* clear empties the map; calls in flight are not told.
Clear ==
    /\ epoch < MaxClears
    /\ cache' = [k \in Keys |-> Absent]
    /\ epoch' = epoch + 1
    /\ UNCHANGED <<made, pc, want, mine, returned>>

ThreadStep(t) ==
    \/ \E k \in Keys : Hit(t, k) \/ Miss(t, k)
    \/ CompileFail(t)
    \/ CompileOk(t)
    \/ Insert(t)

Next == Clear \/ \E t \in Threads : ThreadStep(t)

Spec == Init /\ [][Next]_vars

-----------------------------------------------------------------------------
\* The part of the state OneResultPerEpoch needs to be inductive: a result
\* handed out since the last clear is still the one the map keeps, and no
\* result is from the future.
ReturnedIsKept ==
    \A r \in returned :
        /\ r[3] <= epoch
        /\ r[3] = epoch => cache[r[1]] = r[2]

\* cache.rs:39-40: concurrent misses may compile twice, but only one immutable
\* result is kept: between two clears all successful returns for a key hand
\* out the same object, whichever threads raced for it.
OneResultPerEpoch ==
    \A r1, r2 \in returned :
        r1[1] = r2[1] /\ r1[3] = r2[3] => r1[2] = r2[2]

IInv == TypeOK /\ ReturnedIsKept /\ OneResultPerEpoch
=============================================================================
