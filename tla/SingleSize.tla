----------------------------- MODULE SingleSize -----------------------------
(***************************************************************************)
(* SingleSize of src/single.rs: a queue of one element guarded by an       *)
(* atomic state, whose payload is an ordinary memory cell.                 *)
(*                                                                         *)
(* The accesses to the state interleave; the loads and compare_exchanges   *)
(* return its latest value.  What the memory orderings Relaxed, Acquire    *)
(* and Release of these accesses do to the payload is kept as knowledge:   *)
(* saw[t] says whether the last write and the last read of the payload     *)
(* happen before what thread t does next, and carried what an Acquire of   *)
(* the state learns from the Release store it reads.                       *)
(***************************************************************************)
EXTENDS Naturals

CONSTANTS
  Threads,     \* the threads that share the queue
  Items,       \* the messages
  NoItem,      \* an uninitialized payload
  MaxCalls     \* bound: calls that the threads make in one behaviour

ASSUME ItemsAssumption == NoItem \notin Items /\ MaxCalls \in Nat

VARIABLES
  state,       \* "EMPTY", "WRITING", "READY" or "READING"
  payload,     \* the cell
  pc,          \* thread -> its next access, "idle" outside a call
  message,     \* thread -> the message it enqueues, or has read
  saw,         \* thread -> the payload accesses that happen before its next step
  carried,     \* those that happen before the store of the current state
  raced,       \* two accesses of the payload were not ordered
  calls        \* number of calls made so far

vars == <<state, payload, pc, message, saw, carried, raced, calls>>

\* Knowledge of the last write and of the last read of the payload.
Knowledge == [write : BOOLEAN, read : BOOLEAN]
All       == [write |-> TRUE, read |-> TRUE]
Merge(a, b) == [write |-> a.write \/ b.write, read |-> a.read \/ b.read]

WritePC == {"w_write", "w_store"}
ReadPC  == {"r_read", "r_store"}
PC      == {"idle", "w_load", "w_cas", "r_load", "r_cas"} \union WritePC \union ReadPC

Init ==
  /\ state = "EMPTY"
  /\ payload = NoItem
  /\ pc = [t \in Threads |-> "idle"]
  /\ message = [t \in Threads |-> NoItem]
  /\ saw = [t \in Threads |-> All]
  /\ carried = All
  /\ raced = FALSE
  /\ calls = 0

Goto(t, from, to) == pc[t] = from /\ pc' = [pc EXCEPT ![t] = to]

Return(t, from) ==
  /\ Goto(t, from, "idle")
  /\ message' = [message EXCEPT ![t] = NoItem]

\* A store with Release, a read-modify-write with Acquire.  One with Relaxed
\* learns nothing and leaves carried as it is.
Release(t) == carried' = saw[t] /\ UNCHANGED saw
Acquire(t) == saw' = [saw EXCEPT ![t] = Merge(@, carried)] /\ UNCHANGED carried
Relaxed    == UNCHANGED <<saw, carried>>

\* After an access of the payload only the thread itself knows of it.
OnlyKnownTo(t, access) ==
  saw' = [u \in Threads |-> IF u = t THEN [saw[u] EXCEPT ![access] = TRUE]
                                     ELSE [saw[u] EXCEPT ![access] = FALSE]]
Forgotten(access) == carried' = [carried EXCEPT ![access] = FALSE]

-----------------------------------------------------------------------------
(* enqueue(message)                                                        *)

WriteCall(t) ==
  /\ calls < MaxCalls
  /\ calls' = calls + 1
  /\ Goto(t, "idle", "w_load")
  /\ \E m \in Items : message' = [message EXCEPT ![t] = m]
  /\ UNCHANGED <<state, payload, saw, carried, raced>>

WriteLoad(t) ==
  /\ \/ state = "EMPTY" /\ Goto(t, "w_load", "w_cas") /\ UNCHANGED message
     \/ state # "EMPTY" /\ Return(t, "w_load")
  /\ UNCHANGED <<state, payload, saw, carried, raced, calls>>

\* Mutant: the result of the compare_exchange is not looked at.
WriteCasBlind(t) ==
  /\ Goto(t, "w_cas", "w_write")
  /\ state' = "WRITING"
  /\ UNCHANGED message
  /\ Relaxed
  /\ UNCHANGED <<payload, raced, calls>>

\* compare_exchange(EMPTY, WRITING, Relaxed, Relaxed)
WriteCas(t) ==
  /\ \/ state = "EMPTY" /\ Goto(t, "w_cas", "w_write") /\ state' = "WRITING" /\ UNCHANGED message
     \/ state # "EMPTY" /\ Return(t, "w_cas") /\ UNCHANGED state
  /\ Relaxed
  /\ UNCHANGED <<payload, raced, calls>>

WritePayload(t) ==
  /\ Goto(t, "w_write", "w_store")
  /\ payload' = message[t]
  /\ raced' = (raced \/ ~saw[t].write \/ ~saw[t].read)
  /\ OnlyKnownTo(t, "write")
  /\ Forgotten("write")
  /\ UNCHANGED <<state, message, calls>>

\* Mutant: the store is Relaxed; it starts no release sequence.
WriteStoreRelaxed(t) ==
  /\ Return(t, "w_store")
  /\ state' = "READY"
  /\ carried' = [write |-> FALSE, read |-> FALSE]
  /\ UNCHANGED <<payload, saw, raced, calls>>

WriteStore(t) ==
  /\ Return(t, "w_store")
  /\ state' = "READY"
  /\ Release(t)
  /\ UNCHANGED <<payload, raced, calls>>

-----------------------------------------------------------------------------
(* dequeue()                                                               *)

ReadCall(t) ==
  /\ calls < MaxCalls
  /\ calls' = calls + 1
  /\ Goto(t, "idle", "r_load")
  /\ UNCHANGED <<state, payload, message, saw, carried, raced>>

ReadLoad(t) ==
  /\ \/ state = "READY" /\ Goto(t, "r_load", "r_cas")
     \/ state # "READY" /\ Goto(t, "r_load", "idle")
  /\ UNCHANGED <<state, payload, message, saw, carried, raced, calls>>

\* compare_exchange(READY, READING, Acquire, Relaxed)
ReadCas(t) ==
  /\ \/ state = "READY" /\ Goto(t, "r_cas", "r_read") /\ state' = "READING" /\ Acquire(t)
     \/ state # "READY" /\ Goto(t, "r_cas", "idle") /\ Relaxed /\ UNCHANGED state
  /\ UNCHANGED <<payload, message, raced, calls>>

ReadPayload(t) ==
  /\ Goto(t, "r_read", "r_store")
  /\ message' = [message EXCEPT ![t] = payload]
  /\ payload' = NoItem                  \* moved out
  /\ raced' = (raced \/ ~saw[t].write)
  /\ OnlyKnownTo(t, "read")
  /\ Forgotten("read")
  /\ UNCHANGED <<state, calls>>

\* Mutant: the state is not reset.
ReadStoreSkipped(t) ==
  /\ Return(t, "r_store")
  /\ UNCHANGED <<state, payload, saw, carried, raced, calls>>

\* Mutant: the old state is put back.
ReadStoreReady(t) ==
  /\ Return(t, "r_store")
  /\ state' = "READY"
  /\ Release(t)
  /\ UNCHANGED <<payload, raced, calls>>

ReadStore(t) ==
  /\ Return(t, "r_store")
  /\ state' = "EMPTY"
  /\ Release(t)
  /\ UNCHANGED <<payload, raced, calls>>

-----------------------------------------------------------------------------

Step(t) ==
  \/ WriteLoad(t) \/ WriteCas(t) \/ WritePayload(t) \/ WriteStore(t)
  \/ ReadLoad(t) \/ ReadCas(t) \/ ReadPayload(t) \/ ReadStore(t)

Next == \E t \in Threads : WriteCall(t) \/ ReadCall(t) \/ Step(t)

Spec == Init /\ [][Next]_vars

-----------------------------------------------------------------------------
(* Properties.                                                             *)

TypeOK ==
  /\ state \in {"EMPTY", "WRITING", "READY", "READING"}
  /\ payload \in Items \union {NoItem}
  /\ pc \in [Threads -> PC]
  /\ message \in [Threads -> Items \union {NoItem}]
  /\ saw \in [Threads -> Knowledge]
  /\ carried \in Knowledge
  /\ raced \in BOOLEAN
  /\ calls \in Nat

\* "Only one thread can get access here" and "atomic CAS guarantees unique
\* usage here" (src/single.rs:56, 72): one thread at a time is between its
\* compare_exchange and its store, in the state it has set.
Exclusive ==
  /\ \A t \in Threads : pc[t] \in WritePC => state = "WRITING"
  /\ \A t \in Threads : pc[t] \in ReadPC => state = "READING"
  /\ \A t, u \in Threads : pc[t] \in WritePC \union ReadPC /\ pc[u] \in WritePC \union ReadPC => t = u

\* A dequeue reads a message: the payload is initialized whenever it may be
\* read (src/single.rs:73, assume_init_read), and never when it is written,
\* so that no message is overwritten.
Initialized ==
  /\ state = "READY" => payload \in Items
  /\ state = "EMPTY" => payload = NoItem
  /\ \A t \in Threads : /\ pc[t] = "r_read" => payload \in Items
                        /\ pc[t] = "w_write" => payload = NoItem

\* A queue at rest is usable again: it takes a message or gives one back, and
\* its Drop (src/single.rs:82) drops the payload exactly if there is one.
Settled ==
  (\A t \in Threads : pc[t] \notin WritePC \union ReadPC) =>
    \/ state = "EMPTY" /\ payload = NoItem
    \/ state = "READY" /\ payload \in Items

\* The message a dequeue reads has become visible to it: the write of the
\* payload happens before the read (READY is stored with Release and
\* exchanged with Acquire).
ReadAfterWrite == \A t \in Threads : pc[t] = "r_read" => saw[t].write

\* "Only one thread can get access here" (src/single.rs:56), in the sense of
\* the memory model: accesses of the payload are ordered by happens-before.
NoRace == ~raced
=============================================================================
