---------------------------- MODULE JitCacheProofs ----------------------------
(* TLAPS proofs about JitCache, for every set of threads and keys. *)
EXTENDS JitCache, TLAPS

\* The kept object is an object whenever the freshly compiled one is.
LEMMA KeptIsObject ==
    ASSUME NEW old \in Objects \cup {Absent}, NEW new \in Objects
    PROVE  /\ Kept(old, new) \in Objects
           /\ old # Absent => Kept(old, new) = old
  BY DEF Kept, Absent, Objects

\* The initial cache is empty and nothing has been returned.
LEMMA InitIInv == Init => IInv
  BY JitCacheAssumption
  DEF Init, IInv, TypeOK, ReturnedIsKept,
      OneResultPerEpoch, Objects, Absent

\* Every step of every thread, and clear, preserves the invariant.
LEMMA NextIInv == IInv /\ [Next]_vars => IInv'
<1> SUFFICES ASSUME IInv, [Next]_vars PROVE IInv'
  OBVIOUS
<1> USE JitCacheAssumption DEF IInv
<1>1. CASE Clear
  BY <1>1 DEF Clear, TypeOK, ReturnedIsKept,
      OneResultPerEpoch, Objects, Absent
<1>2. ASSUME NEW t \in Threads, NEW k \in Keys, Hit(t, k) PROVE IInv'
  <2>1. TypeOK'
    BY <1>2 DEF Hit, TypeOK, Objects, Absent
  <2>2. ReturnedIsKept'
    BY <1>2 DEF Hit, TypeOK, ReturnedIsKept
  <2>3. OneResultPerEpoch'
    BY <1>2 DEF Hit, TypeOK, ReturnedIsKept, OneResultPerEpoch
  <2> QED BY <2>1, <2>2, <2>3
<1>3. ASSUME NEW t \in Threads, NEW k \in Keys, Miss(t, k) PROVE IInv'
  BY <1>3 DEF Miss, TypeOK, ReturnedIsKept, OneResultPerEpoch
<1>4. ASSUME NEW t \in Threads, CompileFail(t) PROVE IInv'
  BY <1>4 DEF CompileFail, TypeOK, ReturnedIsKept,
      OneResultPerEpoch
<1>5. ASSUME NEW t \in Threads, CompileOk(t) PROVE IInv'
  BY <1>5 DEF CompileOk, TypeOK, ReturnedIsKept,
      OneResultPerEpoch, Objects, Absent
<1>6. ASSUME NEW t \in Threads, Insert(t) PROVE IInv'
  <2> DEFINE k == want[t]
             o == Kept(cache[k], mine[t])
  <2>1. /\ k \in Keys /\ mine[t] \in Objects
        /\ cache[k] \in Objects \cup {Absent}
    BY <1>6 DEF Insert, TypeOK
  <2>2. o \in Objects /\ (cache[k] # Absent => o = cache[k])
    BY <2>1, KeptIsObject
  <2>3. /\ cache' = [cache EXCEPT ![k] = o]
        /\ returned' = returned \cup {<<k, o, epoch>>}
        /\ epoch' = epoch /\ made' = made /\ want' = want
        /\ mine' = [mine EXCEPT ![t] = Absent]
        /\ pc' = [pc EXCEPT ![t] = "idle"]
    BY <1>6 DEF Insert
  <2> HIDE DEF k, o
  <2>4. TypeOK'
    BY <2>1, <2>2, <2>3 DEF TypeOK
  <2>5. ReturnedIsKept'
    BY <2>1, <2>2, <2>3 DEF TypeOK, ReturnedIsKept, Objects, Absent
  <2>6. OneResultPerEpoch'
    BY <2>1, <2>2, <2>3 DEF TypeOK, ReturnedIsKept, OneResultPerEpoch, Objects, Absent
  <2> QED BY <2>4, <2>5, <2>6
<1>7. CASE UNCHANGED vars
  BY <1>7 DEF vars, TypeOK, ReturnedIsKept, OneResultPerEpoch
<1> QED
  BY <1>1, <1>2, <1>3, <1>4, <1>5, <1>6, <1>7 DEF Next, ThreadStep

\* cache.rs:39-40 for any number of threads and keys: between two clears, all
\* callers of compile that asked for the same key hold the same object.
THEOREM OneResult == Spec => [](TypeOK /\ OneResultPerEpoch)
<1>1. Spec => []IInv
  BY InitIInv, NextIInv, PTL DEF Spec
<1>2. IInv => TypeOK /\ OneResultPerEpoch
  BY DEF IInv
<1> QED BY <1>1, <1>2, PTL
=============================================================================
