-------------------------- MODULE SingleSizeProofs --------------------------
(***************************************************************************)
(* The invariants of SingleSize, for any number of threads, messages and   *)
(* calls.                                                                  *)
(***************************************************************************)
EXTENDS SingleSize, TLAPS

Busy(t) == pc[t] \in WritePC \union ReadPC

\* A call that enqueues has its message until it has written it.
Carrying ==
  \A t \in Threads : pc[t] \in {"w_load", "w_cas", "w_write"} => message[t] \in Items

\* The state is that of the one busy thread, and at rest without one.
Guarded ==
  /\ state = "WRITING" => \E t \in Threads : pc[t] \in WritePC
  /\ state = "READING" => \E t \in Threads : pc[t] \in ReadPC

\* What the busy thread has done to the payload already.
Accessed ==
  \A t \in Threads : /\ pc[t] = "w_store" => payload \in Items
                     /\ pc[t] = "r_store" => payload = NoItem

\* The knowledge of the last write goes from the writer to the state READY
\* and from there to the reader.
Published ==
  /\ \A t \in Threads : pc[t] = "w_store" => saw[t].write
  /\ state = "READY" => carried.write

IInv ==
  /\ TypeOK
  /\ Exclusive
  /\ Initialized
  /\ ReadAfterWrite
  /\ Carrying
  /\ Guarded
  /\ Accessed
  /\ Published


-----------------------------------------------------------------------------

\* A new queue (src/single.rs:39) satisfies the invariant.
LEMMA InitInv == Init => IInv
<1> SUFFICES ASSUME Init PROVE IInv
  OBVIOUS
<1>1. TypeOK
  <2>1. All \in Knowledge
    BY DEF All, Knowledge
  <2> QED
    BY <2>1 DEF Init, TypeOK, PC
<1>2. Exclusive /\ Initialized /\ ReadAfterWrite /\ Carrying /\ Accessed
  BY DEF Init, Exclusive, Initialized, ReadAfterWrite, Carrying, Accessed, WritePC, ReadPC
<1>3. Guarded /\ Published
  BY DEF Init, Guarded, Published
<1> QED
  BY <1>1, <1>2, <1>3 DEF IInv

\* Every access of enqueue() and dequeue() (src/single.rs:46-77) keeps it.
LEMMA NextInv == IInv /\ [Next]_vars => IInv'
<1> SUFFICES ASSUME IInv, [Next]_vars PROVE IInv'
  OBVIOUS
<1> USE DEF Goto, Return, Release, Acquire, Relaxed, OnlyKnownTo, Forgotten, Merge,
            PC, WritePC, ReadPC, Knowledge
<1>1. ASSUME NEW t \in Threads, WriteCall(t) PROVE IInv'
  BY <1>1, SMT DEF WriteCall, IInv, TypeOK, Exclusive, Initialized, ReadAfterWrite,
     Carrying, Guarded, Accessed, Published
<1>2. ASSUME NEW t \in Threads, ReadCall(t) PROVE IInv'
  BY <1>2, SMT DEF ReadCall, IInv, TypeOK, Exclusive, Initialized, ReadAfterWrite,
     Carrying, Guarded, Accessed, Published
<1>3. ASSUME NEW t \in Threads, WriteLoad(t) PROVE IInv'
  BY <1>3, SMT DEF WriteLoad, IInv, TypeOK, Exclusive, Initialized, ReadAfterWrite,
     Carrying, Guarded, Accessed, Published
<1>4. ASSUME NEW t \in Threads, WriteCas(t) PROVE IInv'
  BY <1>4, SMT DEF WriteCas, IInv, TypeOK, Exclusive, Initialized, ReadAfterWrite,
     Carrying, Guarded, Accessed, Published
<1>5. ASSUME NEW t \in Threads, WritePayload(t) PROVE IInv'
  <2>1. /\ \A u \in Threads : saw'[u] \in Knowledge
        /\ saw' = [u \in Threads |-> saw'[u]]
        /\ saw'[t].write
    BY <1>5 DEF WritePayload, IInv, TypeOK
  <2>2. carried' \in Knowledge
    BY <1>5 DEF WritePayload, IInv, TypeOK
  <2>3. pc[t] = "w_write" /\ state = "WRITING" /\ message[t] \in Items /\ t \in Threads
    BY <1>5 DEF WritePayload, IInv, Exclusive, Carrying
  <2>4. raced' \in BOOLEAN
    BY <1>5 DEF WritePayload
  <2>5. \A u \in Threads : pc'[u] = IF u = t THEN "w_store" ELSE pc[u]
    BY <1>5 DEF WritePayload, IInv, TypeOK
  <2>6. UNCHANGED <<state, message, calls>> /\ payload' = message[t]
    BY <1>5 DEF WritePayload
  <2>7. TypeOK'
    <3>1. pc' \in [Threads -> PC]
      BY <1>5 DEF WritePayload, IInv, TypeOK
    <3>2. saw' \in [Threads -> Knowledge]
      BY <2>1 DEF TypeOK
    <3> QED
      BY <2>2, <2>3, <2>4, <2>6, <3>1, <3>2 DEF IInv, TypeOK
  <2>8. Exclusive' /\ Initialized' /\ Carrying' /\ Guarded' /\ Accessed'
    BY <2>3, <2>5, <2>6 DEF IInv, Exclusive, Initialized, Carrying, Guarded, Accessed
  <2>9. ReadAfterWrite' /\ Published'
    BY <2>1, <2>3, <2>5, <2>6 DEF IInv, Exclusive, ReadAfterWrite, Published
  <2> QED
    BY <2>7, <2>8, <2>9 DEF IInv
<1>6. ASSUME NEW t \in Threads, WriteStore(t) PROVE IInv'
  BY <1>6, SMT DEF WriteStore, IInv, TypeOK, Exclusive, Initialized, ReadAfterWrite,
     Carrying, Guarded, Accessed, Published
<1>7. ASSUME NEW t \in Threads, ReadLoad(t) PROVE IInv'
  BY <1>7, SMT DEF ReadLoad, IInv, TypeOK, Exclusive, Initialized, ReadAfterWrite,
     Carrying, Guarded, Accessed, Published
<1>8. ASSUME NEW t \in Threads, ReadCas(t) PROVE IInv'
  <2>1. CASE state # "READY"
    BY <1>8, <2>1 DEF ReadCas, IInv, TypeOK, Exclusive, Initialized, ReadAfterWrite,
       Carrying, Guarded, Accessed, Published
  <2>2. CASE state = "READY"
    <3>1. Goto(t, "r_cas", "r_read") /\ state' = "READING" /\ Acquire(t)
          /\ UNCHANGED <<payload, message, raced, calls>>
      BY <1>8, <2>2 DEF ReadCas
    <3>2. carried.write /\ carried \in Knowledge /\ saw[t] \in Knowledge
      BY <2>2 DEF IInv, Published, TypeOK
    <3>3. Merge(saw[t], carried) \in Knowledge /\ Merge(saw[t], carried).write
      BY <3>2
    <3>4. /\ saw' \in [Threads -> Knowledge]
          /\ saw'[t].write
          /\ \A u \in Threads : u # t => saw'[u] = saw[u]
      <4> HIDE DEF Knowledge, Merge
      <4>1. saw \in [Threads -> Knowledge]
        BY DEF IInv, TypeOK
      <4> QED
        BY <3>1, <3>3, <4>1
    <3>5. \A u \in Threads : pc'[u] = IF u = t THEN "r_read" ELSE pc[u]
      BY <3>1 DEF IInv, TypeOK
    <3>6. TypeOK'
      <4>1. pc' \in [Threads -> PC]
        BY <3>1 DEF IInv, TypeOK
      <4>2. UNCHANGED <<payload, message, carried, raced, calls>>
        BY <3>1
      <4> QED
        BY <3>1, <3>4, <4>1, <4>2 DEF IInv, TypeOK
    <3>7. Exclusive' /\ Initialized' /\ Carrying' /\ Guarded' /\ Accessed'
      BY <2>2, <3>1, <3>5 DEF IInv, Exclusive, Initialized, Carrying, Guarded, Accessed
    <3>8. ReadAfterWrite' /\ Published'
      BY <2>2, <3>1, <3>4, <3>5 DEF IInv, Exclusive, ReadAfterWrite, Published
    <3> QED
      BY <3>6, <3>7, <3>8 DEF IInv
  <2> QED
    BY <2>1, <2>2
<1>9. ASSUME NEW t \in Threads, ReadPayload(t) PROVE IInv'
  <2>1. /\ \A u \in Threads : saw'[u] \in Knowledge /\ saw'[u].write = saw[u].write
        /\ saw' = [u \in Threads |-> saw'[u]]
    BY <1>9 DEF ReadPayload, IInv, TypeOK
  <2>2. carried' \in Knowledge /\ carried'.write = carried.write
    BY <1>9 DEF ReadPayload, IInv, TypeOK
  <2>3. pc[t] = "r_read" /\ state = "READING" /\ payload \in Items
    BY <1>9 DEF ReadPayload, IInv, Exclusive, Initialized
  <2>4. raced' \in BOOLEAN
    BY <1>9 DEF ReadPayload
  <2>5. \A u \in Threads : /\ pc'[u] = IF u = t THEN "r_store" ELSE pc[u]
                           /\ u # t => message'[u] = message[u]
    BY <1>9 DEF ReadPayload, IInv, TypeOK
  <2>6. UNCHANGED <<state, calls>> /\ payload' = NoItem
    BY <1>9 DEF ReadPayload
  <2>7. TypeOK'
    <3>1. pc' \in [Threads -> PC]
      BY <1>9 DEF ReadPayload, IInv, TypeOK
    <3>2. saw' \in [Threads -> Knowledge]
      BY <2>1
    <3>3. message' \in [Threads -> Items \union {NoItem}]
      BY <1>9 DEF ReadPayload, IInv, TypeOK
    <3> QED
      BY <2>2, <2>3, <2>4, <2>6, <3>1, <3>2, <3>3 DEF IInv, TypeOK
  <2>8. Exclusive' /\ Initialized' /\ Carrying' /\ Guarded' /\ Accessed'
    BY <2>3, <2>5, <2>6 DEF IInv, Exclusive, Initialized, Carrying, Guarded, Accessed
  <2>9. ReadAfterWrite' /\ Published'
    BY <2>1, <2>2, <2>3, <2>5, <2>6 DEF IInv, Exclusive, ReadAfterWrite, Published
  <2> QED
    BY <2>7, <2>8, <2>9 DEF IInv
<1>10. ASSUME NEW t \in Threads, ReadStore(t) PROVE IInv'
  BY <1>10, SMT DEF ReadStore, IInv, TypeOK, Exclusive, Initialized, ReadAfterWrite,
     Carrying, Guarded, Accessed, Published
<1>11. ASSUME UNCHANGED vars PROVE IInv'
  BY <1>11, SMT DEF vars, IInv, TypeOK, Exclusive, Initialized, ReadAfterWrite,
     Carrying, Guarded, Accessed, Published
<1> QED
  BY <1>1, <1>2, <1>3, <1>4, <1>5, <1>6, <1>7, <1>8, <1>9, <1>10, <1>11 DEF Next, Step

\* At rest the invariant leaves two states: empty, or ready with a message.
LEMMA InvSettled == IInv => Settled
BY SMT DEF IInv, TypeOK, Initialized, Guarded, Settled

-----------------------------------------------------------------------------

\* The invariant holds in every reachable state.
THEOREM Invariance == Spec => []IInv
<1>1. Init => IInv
  BY InitInv
<1>2. IInv /\ [Next]_vars => IInv'
  BY NextInv
<1> QED
  BY <1>1, <1>2, PTL DEF Spec

\* At most one thread is between its compare_exchange and its store.
THEOREM ExclusiveCorrect == Spec => []Exclusive
<1>1. IInv => Exclusive
  BY DEF IInv
<1> QED
  BY <1>1, Invariance, PTL

\* No uninitialized payload is read and no message is overwritten.
THEOREM InitializedCorrect == Spec => []Initialized
<1>1. IInv => Initialized
  BY DEF IInv
<1> QED
  BY <1>1, Invariance, PTL

\* A queue at rest is empty or holds a message, as Drop assumes.
THEOREM SettledCorrect == Spec => []Settled
<1>1. IInv => Settled
  BY InvSettled
<1> QED
  BY <1>1, Invariance, PTL

\* The write of a message happens before the dequeue that reads it.
THEOREM ReadAfterWriteCorrect == Spec => []ReadAfterWrite
<1>1. IInv => ReadAfterWrite
  BY DEF IInv
<1> QED
  BY <1>1, Invariance, PTL
=============================================================================
