----------------------------- MODULE RingQueue -----------------------------
(***************************************************************************)
(* The queue under both the task pool and the write queue (ts_queue.c): a  *)
(* ring of items that grows by half when it is full.  Its callers hold a   *)
(* lock around every operation.                                            *)
(***************************************************************************)
EXTENDS Integers, Sequences

CONSTANTS
  Values,
  InitialCapacity,   (* the 32 of ts_queue_init *)
  MaxLength          (* bound: values in the queue at a time *)

(* A capacity of 1 would not grow: half of it, rounded down, is nothing. *)
ASSUME RingAssumption ==
  /\ InitialCapacity \in Nat /\ InitialCapacity >= 2
  /\ MaxLength \in Nat
  /\ "zero" \notin Values

VARIABLES
  items,   (* the slots 0..capacity-1; "zero" is what calloc left there *)
  capacity, start, length,
  popped   (* what the last pop returned, as in Fifo *)

ringVars == <<items, capacity, start, length, popped>>

Contents == [i \in 1..length |-> items[(start + i - 1) % capacity]]

(* Every access stays inside items, and what is between start and          *)
(* start + length is something that was pushed.                            *)
RingTypeOK ==
  /\ capacity \in Nat /\ capacity >= 2
  /\ start \in 0..capacity - 1
  /\ length \in 0..capacity
  /\ items \in [0..capacity - 1 -> Values \cup {"zero"}]
  /\ popped = <<>> \/ \E v \in Values : popped = <<v>>
  /\ \A i \in 0..length - 1 : items[(start + i) % capacity] \in Values

RingInit ==
  /\ items = [s \in 0..InitialCapacity - 1 |-> "zero"]
  /\ capacity = InitialCapacity
  /\ start = 0 /\ length = 0
  /\ popped = <<>>

-----------------------------------------------------------------------------
(* Mutant: the slots are copied as they lie, not from start on. *)
Grown_AsItLies(cap) ==
  [s \in 0..cap - 1 |-> IF s < capacity THEN items[s] ELSE "zero"]

(* The full ring copied to a larger one: the slots from start to the end,  *)
(* then those before start.                                                *)
Grown(cap) ==
  LET upper == length - start IN
  [s \in 0..cap - 1 |->
     IF s < upper THEN items[start + s]
     ELSE IF s < length THEN items[s - upper] ELSE "zero"]

PushGrowing(v) ==
  LET cap == (capacity * 3) \div 2 IN
  /\ length = capacity
  /\ items' = [Grown(cap) EXCEPT ![length] = v]
  /\ capacity' = cap
  /\ start' = 0

PushInPlace(v) ==
  /\ length < capacity
  /\ items' = [items EXCEPT ![(start + length) % capacity] = v]
  /\ UNCHANGED <<capacity, start>>

PushValue(v) ==
  /\ length < MaxLength
  /\ PushGrowing(v) \/ PushInPlace(v)
  /\ length' = length + 1
  /\ UNCHANGED popped

(* Mutant: start runs past the last slot before it wraps. *)
PopValue_LateWrap ==
  /\ length > 0
  /\ popped' = <<items[start]>>
  /\ start' = (start + 1) % (capacity + 1)
  /\ length' = length - 1
  /\ UNCHANGED <<items, capacity>>

PopValue ==
  /\ length > 0
  /\ popped' = <<items[start]>>
  /\ start' = (start + 1) % capacity
  /\ length' = length - 1
  /\ UNCHANGED <<items, capacity>>

PopNothing ==
  /\ length = 0
  /\ popped' = <<>>
  /\ UNCHANGED <<items, capacity, start, length>>

RingNext == (\E v \in Values : PushValue(v)) \/ PopValue \/ PopNothing

RingSpec == RingInit /\ [][RingNext]_ringVars

-----------------------------------------------------------------------------
(* The ring is a first-in first-out queue, whatever wrapped or grew in     *)
(* between.                                                                *)
Queue == INSTANCE Fifo WITH content <- Contents
ImplementsFifo == Queue!Spec
=============================================================================
