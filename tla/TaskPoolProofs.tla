--------------------------- MODULE TaskPoolProofs ---------------------------
(***************************************************************************)
(* Theorems of TaskPool for every number of workers and every set of       *)
(* calls: types; a worker that was woken always finds a task; a task is in *)
(* one place at a time and is not freed while it can be reached; the       *)
(* semaphore it posts is that of a client still inside its call.  From     *)
(* the last two, the pool refines the bag of TaskBag.                      *)
(***************************************************************************)
EXTENDS TaskPool, SequenceTheorems, FiniteSetTheorems, TLAPS

(* Where a caller is in its call, and a worker in its task. *)
CallInv ==
  \A c \in Callers :
    /\ call[c].pc # "idle" => call[c].k \in Calls
    /\ call[c].pc \in {"index", "push"} =>
         call[c].next \in 1..Len(CallTasks[call[c].k])
    /\ call[c].pc \in {"index", "push"} =>
         call[c].left = Len(CallTasks[call[c].k])
    /\ call[c].pc = "post" => call[c].left >= 1
WorkerInv ==
  \A w \in Workers : worker[w].pc = "run" => worker[w].task \in Tasks

TypeInv == TypeOK /\ CallInv /\ WorkerInv

(* The remainder of insert_idx in the row of a priority is a queue of the  *)
(* pool.                                                                   *)
LEMMA SlotFacts ==
  /\ 0 \in Slots
  /\ \A s \in Slots : s \in Nat
  /\ \A i \in Nat, p \in 0..2 : p * NumThreads + (i % NumThreads) \in Slots
<1>. USE PoolAssumption DEF Slots
<1>1. ASSUME NEW i \in Nat, NEW p \in 0..2
      PROVE  p * NumThreads + (i % NumThreads) \in Slots
  <2>1. i % NumThreads \in 0..NumThreads - 1
    OBVIOUS
  <2>2. CASE p = 0
    BY <2>1, <2>2
  <2>3. CASE p = 1
    BY <2>1, <2>3
  <2>4. CASE p = 2
    BY <2>1, <2>4
  <2>. QED  BY <2>2, <2>3, <2>4
<1>. QED  BY <1>1

(* A thread that is in no call, and a worker asleep, are of their types. *)
LEMMA NoCallType == NoCall \in CallStates /\ Asleep \in WorkerStates
<1>1. <<>> \in Seq(Calls)
  BY EmptySeq
<1>. QED  BY <1>1, SlotFacts DEF NoCall, Asleep, CallStates, WorkerStates

(* The pool starts with idle callers and sleeping workers. *)
LEMMA TypeInit == Init => TypeInv
<1>. SUFFICES ASSUME Init PROVE TypeInv
  OBVIOUS
<1>1. <<>> \in Seq(Tasks)
  BY EmptySeq
<1>2. TypeOK
  BY <1>1, NoCallType DEF Init, TypeOK
<1>3. CallInv
  BY DEF Init, CallInv, NoCall
<1>4. WorkerInv
  BY DEF Init, WorkerInv, Asleep
<1>. QED  BY <1>2, <1>3, <1>4 DEF TypeInv

(* Entering a call, shared by the clients and the tasks that post. *)
LEMMA EnterType ==
  ASSUME TypeInv, NEW c \in Callers, NEW k \in Calls, Enter(c, k)
  PROVE  /\ call' \in [Callers -> CallStates] /\ made' \in SUBSET Calls
         /\ CallInv'
<1>. DEFINE new == [NoCall EXCEPT !.pc = "index", !.k = k, !.left = Len(CallTasks[k])]
<1>1. CallTasks[k] \in Seq(Tasks) /\ Len(CallTasks[k]) \in Nat \ {0}
  BY PoolAssumption
<1>2. /\ new \in CallStates
      /\ new.pc = "index" /\ new.k = k /\ new.next = 1
      /\ new.left = Len(CallTasks[k])
  BY <1>1, NoCallType, SlotFacts DEF NoCall, CallStates
<1>3. call' = [call EXCEPT ![c] = new] /\ call \in [Callers -> CallStates]
  BY DEF Enter, TypeInv, TypeOK
<1>4. call' \in [Callers -> CallStates] /\ made' \in SUBSET Calls
  BY <1>2, <1>3 DEF Enter, TypeInv, TypeOK
<1>. HIDE DEF new
<1>5. CallInv'
  BY <1>1, <1>2, <1>3 DEF TypeInv, CallInv
<1>. QED  BY <1>4, <1>5

(* Every step of a caller or a worker keeps the types, and what is known   *)
(* of calls and workers.                                                   *)
LEMMA TypeStep == TypeInv /\ [Next]_vars => TypeInv'
<1>. SUFFICES ASSUME TypeInv, [Next]_vars PROVE TypeInv'
  OBVIOUS
<1>0. TypeOK /\ CallInv /\ WorkerInv
  BY DEF TypeInv
<1>1. ASSUME NEW c \in Clients, NEW k \in Calls, ClientCall(c, k) PROVE TypeInv'
  <2>1. /\ call' \in [Callers -> CallStates] /\ made' \in SUBSET Calls /\ CallInv'
    BY <1>1, EnterType DEF ClientCall, Callers
  <2>2. TypeOK'
    BY <1>0, <1>1, <2>1 DEF ClientCall, TypeOK, poolVars
  <2>. QED  BY <1>0, <1>1, <2>1, <2>2 DEF ClientCall, WorkerInv, TypeInv
<1>2. ASSUME NEW w \in Workers, Spawn(w) PROVE TypeInv'
  <2>. DEFINE kids == worker[w].kids
  <2>1. kids \in Seq(Calls) /\ kids # <<>>
    BY <1>0, <1>2 DEF Spawn, TypeOK, WorkerStates
  <2>2. Head(kids) \in Calls /\ Tail(kids) \in Seq(Calls)
    BY <2>1, HeadTailProperties
  <2>3. /\ call' \in [Callers -> CallStates] /\ made' \in SUBSET Calls /\ CallInv'
    BY <1>2, <2>2, EnterType DEF Spawn, Callers
  <2>4. worker' \in [Workers -> WorkerStates] /\ WorkerInv'
    BY <1>0, <1>2, <2>2 DEF Spawn, TypeOK, WorkerStates, WorkerInv
  <2>5. TypeOK'
    BY <1>0, <1>2, <2>3, <2>4 DEF Spawn, TypeOK, poolVars
  <2>. QED  BY <2>3, <2>4, <2>5 DEF TypeInv
<1>3. ASSUME NEW c \in Callers, PickQueue(c) PROVE TypeInv'
  <2>1. call[c].k \in Calls
    BY <1>0, <1>3 DEF PickQueue, CallInv
  <2>2. Priority[call[c].k] * NumThreads + (insert_idx % NumThreads) \in Slots
    BY <1>0, <2>1, PoolAssumption, SlotFacts DEF TypeOK
  <2>3. call' \in [Callers -> CallStates]
    BY <1>0, <1>3, <2>2 DEF PickQueue, TypeOK, CallStates
  <2>4. TypeOK'
    BY <1>0, <1>3, <2>3 DEF PickQueue, TypeOK
  <2>5. CallInv'
    BY <1>0, <1>3 DEF PickQueue, TypeOK, CallStates, CallInv
  <2>. QED  BY <1>0, <1>3, <2>4, <2>5 DEF PickQueue, WorkerInv, TypeInv
<1>4. ASSUME NEW c \in Callers, PushTask(c) PROVE TypeInv'
  <2>. DEFINE k == call[c].k  n == call[c].next  s == call[c].slot
  <2>1. /\ k \in Calls /\ s \in Slots /\ n \in 1..Len(CallTasks[k])
        /\ call[c].left = Len(CallTasks[k])
        /\ CallTasks[k] \in Seq(Tasks)
    BY <1>0, <1>4, PoolAssumption DEF PushTask, CallInv, TypeOK, CallStates
  <2>2. queues' \in [Slots -> Seq(Tasks)]
    <3>1. CallTasks[k][n] \in Tasks
      BY <2>1, ElementOfSeq
    <3>2. Append(queues[s], CallTasks[k][n]) \in Seq(Tasks)
      BY <1>0, <2>1, <3>1 DEF TypeOK
    <3>. QED  BY <1>0, <1>4, <2>1, <3>2 DEF PushTask, TypeOK
  <2>3. call' \in [Callers -> CallStates]
    <3>. DEFINE pc == IF n < Len(CallTasks[k]) THEN "index" ELSE "post"
                new == [call[c] EXCEPT !.pc = pc, !.next = n + 1, !.slot = 0]
    <3>1. call[c] \in CallStates
      BY <1>0 DEF TypeOK
    <3>2. new \in CallStates
      <4>1. pc \in {"index", "post"} /\ n + 1 \in Nat
        BY <2>1
      <4>. HIDE DEF pc, n
      <4>. QED  BY <3>1, <4>1, SlotFacts DEF CallStates
    <3>3. call' = [call EXCEPT ![c] = new]
      BY <1>4 DEF PushTask
    <3>. QED  BY <1>0, <3>2, <3>3 DEF TypeOK
  <2>4. TypeOK'
    BY <1>0, <1>4, <2>2, <2>3 DEF PushTask, TypeOK
  <2>5. CallInv'
    BY <1>0, <1>4, <2>1 DEF PushTask, TypeOK, CallStates, CallInv
  <2>. QED  BY <1>0, <1>4, <2>4, <2>5 DEF PushTask, WorkerInv, TypeInv
<1>5. ASSUME NEW c \in Callers, PostSema(c) PROVE TypeInv'
  <2>1. /\ call[c].k \in Calls /\ call[c].left \in Nat /\ call[c].left >= 1
        /\ Len(CallTasks[call[c].k]) \in Nat
    BY <1>0, <1>5, PoolAssumption DEF PostSema, CallInv, TypeOK, CallStates
  <2>2. call' \in [Callers -> CallStates]
    <3>. DEFINE n == call[c].left
                k == call[c].k
    <3>1. call[c] \in CallStates
      BY <1>0 DEF TypeOK
    <3>2. CASE n > 1
      <4>1. [call[c] EXCEPT !.left = n - 1] \in CallStates
        BY <2>1, <3>1, <3>2 DEF CallStates
      <4>2. call' = [call EXCEPT ![c] = [call[c] EXCEPT !.left = n - 1]]
        BY <1>5, <3>2 DEF PostSema
      <4>. QED  BY <1>0, <4>1, <4>2 DEF TypeOK
    <3>3. CASE ~(n > 1) /\ IsWait[k]
      <4>. DEFINE new == [call[c] EXCEPT !.pc = "wait", !.left = Len(CallTasks[k])]
      <4>1. new \in CallStates
        BY <2>1, <3>1 DEF CallStates
      <4>2. call' = [call EXCEPT ![c] = new]
        BY <1>5, <3>3 DEF PostSema
      <4>. QED  BY <1>0, <4>1, <4>2 DEF TypeOK
    <3>4. CASE ~(n > 1) /\ ~IsWait[k]
      <4>1. call' = [call EXCEPT ![c] = NoCall]
        BY <1>5, <3>4 DEF PostSema
      <4>. QED  BY <1>0, <4>1, NoCallType DEF TypeOK
    <3>. QED  BY <3>2, <3>3, <3>4
  <2>3. TypeOK'
    BY <1>0, <1>5, <2>2 DEF PostSema, TypeOK
  <2>4. CallInv'
    BY <1>0, <1>5, <2>1 DEF PostSema, TypeOK, CallStates, CallInv, NoCall
  <2>. QED  BY <1>0, <1>5, <2>3, <2>4 DEF PostSema, WorkerInv, TypeInv
<1>6. ASSUME NEW c \in Callers, WaitOne(c) PROVE TypeInv'
  <2>1. c \in Clients /\ wait_sema' \in [Clients -> Nat]
    BY <1>0, <1>6 DEF WaitOne, TypeOK
  <2>2. call[c].k \in Calls /\ call[c].left \in Nat
    BY <1>0, <1>6 DEF WaitOne, CallInv, TypeOK, CallStates
  <2>3. call' \in [Callers -> CallStates]
    <3>1. CASE call[c].left > 1
      <4>. DEFINE new == [call[c] EXCEPT !.left = call[c].left - 1]
      <4>1. call[c] \in CallStates
        BY <1>0 DEF TypeOK
      <4>2. new \in CallStates
        BY <2>2, <3>1, <4>1 DEF CallStates
      <4>3. call' = [call EXCEPT ![c] = new]
        BY <1>6, <3>1 DEF WaitOne
      <4>. QED  BY <1>0, <4>2, <4>3 DEF TypeOK
    <3>2. CASE ~(call[c].left > 1)
      <4>1. call' = [call EXCEPT ![c] = NoCall]
        BY <1>6, <3>2 DEF WaitOne
      <4>. QED  BY <1>0, <4>1, NoCallType DEF TypeOK
    <3>. QED  BY <3>1, <3>2
  <2>4. freed' \in SUBSET Tasks
    <3>1. Elems(CallTasks[call[c].k]) \subseteq Tasks
      BY <2>2, PoolAssumption DEF Elems
    <3>. QED  BY <1>0, <1>6, <3>1 DEF WaitOne, TypeOK
  <2>5. TypeOK'
    BY <1>0, <1>6, <2>1, <2>3, <2>4 DEF WaitOne, TypeOK, poolVars
  <2>6. CallInv'
    <3>1. /\ call[c].pc = "wait"
          /\ \A d \in Callers \ {c} : call'[d] = call[d]
      BY <1>0, <1>6 DEF WaitOne, TypeOK
    <3>2. CASE call[c].left > 1
      <4>1. call'[c].pc = "wait" /\ call'[c].k = call[c].k
        BY <1>0, <1>6, <3>2 DEF WaitOne, TypeOK, CallStates
      <4>. QED  BY <1>0, <2>2, <3>1, <4>1 DEF CallInv
    <3>3. CASE ~(call[c].left > 1)
      <4>1. call'[c].pc = "idle"
        BY <1>0, <1>6, <3>3 DEF WaitOne, TypeOK, NoCall
      <4>. QED  BY <1>0, <3>1, <4>1 DEF CallInv
    <3>. QED  BY <3>2, <3>3
  <2>. QED  BY <1>0, <1>6, <2>5, <2>6 DEF WaitOne, WorkerInv, TypeInv
<1>7. ASSUME NEW w \in Workers, Wake(w) PROVE TypeInv'
  <2>1. worker' \in [Workers -> WorkerStates] /\ WorkerInv'
    BY <1>0, <1>7, NoCallType DEF Wake, TypeOK, WorkerStates, WorkerInv, Asleep
  <2>2. TypeOK'
    BY <1>0, <1>7, <2>1 DEF Wake, TypeOK, callVars
  <2>. QED  BY <1>0, <1>7, <2>1, <2>2 DEF Wake, callVars, CallInv, TypeInv
<1>8. ASSUME NEW w \in Workers, SearchHit(w) PROVE TypeInv'
  <2>. DEFINE q == queues[worker[w].slot]
  <2>1. worker[w].slot \in Slots /\ q \in Seq(Tasks) /\ q # <<>>
    BY <1>0, <1>8 DEF SearchHit, TypeOK, WorkerStates
  <2>2. Head(q) \in Tasks /\ Tail(q) \in Seq(Tasks)
    BY <2>1, HeadTailProperties
  <2>3. Children[Head(q)] \in Seq(Calls)
    BY <2>2, PoolAssumption
  <2>4. worker' \in [Workers -> WorkerStates] /\ WorkerInv'
    BY <1>0, <1>8, <2>2, <2>3, NoCallType
       DEF SearchHit, TypeOK, WorkerStates, WorkerInv, Asleep
  <2>5. queues' \in [Slots -> Seq(Tasks)]
    BY <1>0, <1>8, <2>1, <2>2 DEF SearchHit, TypeOK
  <2>6. TypeOK'
    BY <1>0, <1>8, <2>4, <2>5 DEF SearchHit, TypeOK, callVars
  <2>. QED  BY <1>0, <1>8, <2>4, <2>6 DEF SearchHit, callVars, CallInv, TypeInv
<1>9. ASSUME NEW w \in Workers, SearchMiss(w) PROVE TypeInv'
  <2>1. worker' \in [Workers -> WorkerStates] /\ WorkerInv'
    BY <1>0, <1>9, NoCallType
       DEF SearchMiss, TypeOK, WorkerStates, WorkerInv, Asleep
  <2>2. TypeOK'
    BY <1>0, <1>9, <2>1 DEF SearchMiss, TypeOK, callVars, poolVars
  <2>. QED  BY <1>0, <1>9, <2>1, <2>2 DEF SearchMiss, callVars, CallInv, TypeInv
<1>10. ASSUME NEW w \in Workers, FinishTask(w) PROVE TypeInv'
  <2>1. worker[w].task \in Tasks
    BY <1>0, <1>10 DEF FinishTask, WorkerInv
  <2>2. worker' \in [Workers -> WorkerStates] /\ WorkerInv'
    BY <1>0, <1>10, NoCallType DEF FinishTask, TypeOK, WorkerStates, WorkerInv, Asleep
  <2>3. wait_sema' \in [Clients -> Nat]
    <3>1. CASE IsWait[CallOf(worker[w].task)]
      BY <1>0, <1>10, <3>1 DEF FinishTask, TypeOK
    <3>2. CASE ~IsWait[CallOf(worker[w].task)]
      BY <1>0, <1>10, <3>2 DEF FinishTask, TypeOK
    <3>. QED  BY <3>1, <3>2
  <2>4. done' \in SUBSET Tasks /\ freed' \in SUBSET Tasks
    BY <1>0, <1>10, <2>1 DEF FinishTask, TypeOK
  <2>5. TypeOK'
    BY <1>0, <1>10, <2>2, <2>3, <2>4 DEF FinishTask, TypeOK, poolVars
  <2>. QED  BY <1>0, <1>10, <2>2, <2>5 DEF FinishTask, CallInv, TypeInv
<1>11. CASE UNCHANGED vars
  BY <1>0, <1>11 DEF vars, poolVars, callVars, TypeOK, CallInv, WorkerInv, TypeInv
<1>. QED
  BY <1>1, <1>2, <1>3, <1>4, <1>5, <1>6, <1>7, <1>8, <1>9, <1>10, <1>11
     DEF Next, CallStep, WorkerStep

(* Type correctness of the pool; in particular the queue a task is pushed  *)
(* to is one of the pool's queues for every number of workers.             *)
THEOREM TypeCorrect == Spec => []TypeOK
<1>1. Spec => []TypeInv
  BY TypeInit, TypeStep, PTL DEF Spec
<1>2. TypeInv => TypeOK
  BY DEF TypeInv
<1>. QED  BY <1>1, <1>2, PTL

-----------------------------------------------------------------------------
(* Counting: the places of queued tasks, the owed posts and the searchers  *)
(* are finite sets that a step changes by at most one element.             *)
FiniteInv == IsFiniteSet(PlacesFrom(0)) /\ IsFiniteSet(OwedPosts)

PlacesIn(q, s) == UNION {{r} \X DOMAIN q[r] : r \in {z \in Slots : z >= s}}

(* The tasks queued from slot s on, as places: a queue and a position in   *)
(* it.                                                                     *)
LEMMA PlaceMembers ==
  ASSUME NEW q \in [Slots -> Seq(Tasks)], NEW s \in Slots
  PROVE  \A x : x \in PlacesIn(q, s) <=>
           x \in Slots \X Nat /\ x[1] >= s /\ x[2] \in 1..Len(q[x[1]])
<1>1. \A r \in Slots : DOMAIN q[r] = 1..Len(q[r]) /\ DOMAIN q[r] \subseteq Nat
  OBVIOUS
<1>2. ASSUME NEW x, x \in PlacesIn(q, s)
      PROVE  x \in Slots \X Nat /\ x[1] >= s /\ x[2] \in 1..Len(q[x[1]])
  <2>1. PICK r \in Slots : r >= s /\ x \in {r} \X DOMAIN q[r]
    BY <1>2 DEF PlacesIn
  <2>. QED  BY <1>1, <2>1
<1>3. ASSUME NEW x \in Slots \X Nat, x[1] >= s, x[2] \in 1..Len(q[x[1]])
      PROVE  x \in PlacesIn(q, s)
  <2>1. x \in {x[1]} \X DOMAIN q[x[1]] /\ x[1] \in Slots
    BY <1>1, <1>3
  <2>. QED  BY <1>3, <2>1 DEF PlacesIn
<1>. QED  BY <1>2, <1>3

(* Slots are numbers, so that a search can be said to be beyond one. *)
LEMMA SlotsAreNat == \A s \in Slots : s \in Nat
BY SlotFacts

(* The posts still owed, as pairs of a caller and a number. *)
LEMMA OwedMembers ==
  \A x : x \in OwedPosts <=>
    \E c \in Callers : \E i \in 1..Owed(c) : x = <<c, i>>
BY DEF OwedPosts

(* All that SearchInv counts is finite: tasks from a slot on, posts owed,  *)
(* and searchers.                                                          *)
LEMMA Counts ==
  ASSUME TypeOK, FiniteInv, NEW s \in Slots
  PROVE  /\ IsFiniteSet(PlacesFrom(s)) /\ Cardinality(PlacesFrom(s)) \in Nat
         /\ IsFiniteSet(OwedPosts) /\ Cardinality(OwedPosts) \in Nat
         /\ IsFiniteSet(Searching) /\ Cardinality(Searching) \in Nat
         /\ IsFiniteSet(SearchersFrom(s)) /\ Cardinality(SearchersFrom(s)) \in Nat
<1>1. PlacesFrom(s) \subseteq PlacesFrom(0)
  BY SlotFacts DEF PlacesFrom, Slots
<1>2. IsFiniteSet(Workers)
  BY PoolAssumption, FS_Interval DEF Workers
<1>3. Searching \subseteq Workers /\ SearchersFrom(s) \subseteq Workers
  BY DEF Searching, SearchersFrom
<1>. QED  BY <1>1, <1>2, <1>3, FS_Subset, FS_CardinalityType DEF FiniteInv

(* A push adds the place behind the last one of its queue. *)
LEMMA PushPlaces ==
  ASSUME TypeOK, FiniteInv, TypeOK', NEW s \in Slots, NEW r \in Slots, NEW t \in Tasks,
         queues' = [queues EXCEPT ![r] = Append(@, t)]
  PROVE  /\ IsFiniteSet(PlacesFrom(s)')
         /\ Cardinality(PlacesFrom(s)') =
              Cardinality(PlacesFrom(s)) + (IF s <= r THEN 1 ELSE 0)
<1>. DEFINE new == <<r, Len(queues[r]) + 1>>
<1>0. \A q \in Slots : queues[q] \in Seq(Tasks) /\ Len(queues[q]) \in Nat
  BY DEF TypeOK
<1>1. \A q \in Slots : Len(queues'[q]) = Len(queues[q]) + (IF q = r THEN 1 ELSE 0)
  BY <1>0 DEF TypeOK
<1>2. /\ \A x : x \in PlacesFrom(s) <=>
             x \in Slots \X Nat /\ x[1] >= s /\ x[2] \in 1..Len(queues[x[1]])
      /\ \A x : x \in PlacesFrom(s)' <=>
             x \in Slots \X Nat /\ x[1] >= s /\ x[2] \in 1..Len(queues'[x[1]])
  <2>1. PlacesFrom(s) = PlacesIn(queues, s) /\ PlacesFrom(s)' = PlacesIn(queues', s)
    BY DEF PlacesFrom, PlacesIn
  <2>2. queues \in [Slots -> Seq(Tasks)] /\ queues' \in [Slots -> Seq(Tasks)]
    BY DEF TypeOK
  <2>3. \A x : x \in PlacesIn(queues, s) <=>
          x \in Slots \X Nat /\ x[1] >= s /\ x[2] \in 1..Len(queues[x[1]])
    BY <2>2, PlaceMembers
  <2>4. \A x : x \in PlacesIn(queues', s) <=>
          x \in Slots \X Nat /\ x[1] >= s /\ x[2] \in 1..Len(queues'[x[1]])
    BY <2>2, PlaceMembers
  <2>. QED  BY <2>1, <2>3, <2>4
<1>3. CASE s <= r
  <2>1. PlacesFrom(s)' \subseteq PlacesFrom(s) \cup {new}
    BY <1>0, <1>1, <1>2, SlotsAreNat
  <2>2. PlacesFrom(s) \subseteq PlacesFrom(s)'
    BY <1>0, <1>1, <1>2, SlotsAreNat
  <2>3. new \in PlacesFrom(s)'
    <3>1. new \in Slots \X Nat /\ new[1] = r /\ new[2] = Len(queues[r]) + 1
      BY <1>0
    <3>. HIDE DEF new
    <3>2. new[2] \in 1..Len(queues'[new[1]]) /\ new[1] >= s
      <4>1. Len(queues'[r]) = Len(queues[r]) + 1 /\ Len(queues[r]) \in Nat
        BY <1>0, <1>1
      <4>. QED  BY <1>3, <3>1, <4>1, SlotsAreNat
    <3>. QED  BY <1>2, <3>1, <3>2
  <2>4. new \notin PlacesFrom(s)
    BY <1>0, <1>2
  <2>5. PlacesFrom(s)' = PlacesFrom(s) \cup {new}
    BY <2>1, <2>2, <2>3
  <2>6. /\ IsFiniteSet(PlacesFrom(s)')
        /\ Cardinality(PlacesFrom(s)') = Cardinality(PlacesFrom(s)) + 1
    <3>. HIDE DEF new
    <3>1. IsFiniteSet(PlacesFrom(s)) /\ Cardinality(PlacesFrom(s)) \in Nat
      BY Counts
    <3>. QED  BY <2>4, <2>5, <3>1, FS_AddElement
  <2>. QED  BY <1>3, <2>6
<1>4. CASE ~(s <= r)
  <2>1. \A x : x \in PlacesFrom(s)' <=> x \in PlacesFrom(s)
    BY <1>0, <1>1, <1>2, <1>4, SlotsAreNat
  <2>2. PlacesFrom(s)' = PlacesFrom(s)
    BY <2>1
  <2>. QED  BY <1>4, <2>2, Counts
<1>. QED  BY <1>3, <1>4

(* A pop removes the last place of its queue. *)
LEMMA PopPlaces ==
  ASSUME TypeOK, FiniteInv, TypeOK', NEW s \in Slots, NEW r \in Slots,
         queues[r] # <<>>,
         queues' = [queues EXCEPT ![r] = Tail(@)]
  PROVE  /\ IsFiniteSet(PlacesFrom(s)')
         /\ Cardinality(PlacesFrom(s)') =
              Cardinality(PlacesFrom(s)) - (IF s <= r THEN 1 ELSE 0)
<1>. DEFINE old == <<r, Len(queues[r])>>
<1>0. \A q \in Slots : queues[q] \in Seq(Tasks) /\ Len(queues[q]) \in Nat
  BY DEF TypeOK
<1>1. /\ Len(queues[r]) >= 1
      /\ \A q \in Slots : Len(queues'[q]) = Len(queues[q]) - (IF q = r THEN 1 ELSE 0)
  <2>1. Len(queues[r]) >= 1 /\ Len(Tail(queues[r])) = Len(queues[r]) - 1
    BY <1>0, EmptySeq, HeadTailProperties
  <2>. QED  BY <1>0, <2>1 DEF TypeOK
<1>2. /\ \A x : x \in PlacesFrom(s) <=>
             x \in Slots \X Nat /\ x[1] >= s /\ x[2] \in 1..Len(queues[x[1]])
      /\ \A x : x \in PlacesFrom(s)' <=>
             x \in Slots \X Nat /\ x[1] >= s /\ x[2] \in 1..Len(queues'[x[1]])
  <2>1. PlacesFrom(s) = PlacesIn(queues, s) /\ PlacesFrom(s)' = PlacesIn(queues', s)
    BY DEF PlacesFrom, PlacesIn
  <2>2. queues \in [Slots -> Seq(Tasks)] /\ queues' \in [Slots -> Seq(Tasks)]
    BY DEF TypeOK
  <2>3. \A x : x \in PlacesIn(queues, s) <=>
          x \in Slots \X Nat /\ x[1] >= s /\ x[2] \in 1..Len(queues[x[1]])
    BY <2>2, PlaceMembers
  <2>4. \A x : x \in PlacesIn(queues', s) <=>
          x \in Slots \X Nat /\ x[1] >= s /\ x[2] \in 1..Len(queues'[x[1]])
    BY <2>2, PlaceMembers
  <2>. QED  BY <2>1, <2>3, <2>4
<1>3. CASE s <= r
  <2>1. PlacesFrom(s) \subseteq PlacesFrom(s)' \cup {old}
    BY <1>0, <1>1, <1>2, SlotsAreNat
  <2>2. PlacesFrom(s)' \subseteq PlacesFrom(s)
    BY <1>0, <1>1, <1>2, SlotsAreNat
  <2>3. old \in PlacesFrom(s)
    <3>1. old \in Slots \X Nat /\ old[1] = r /\ old[2] = Len(queues[r])
      BY <1>0
    <3>2. old[2] \in 1..Len(queues[old[1]]) /\ old[1] >= s
      BY <1>0, <1>1, <1>3, <3>1, SlotsAreNat
    <3>. HIDE DEF old
    <3>. QED  BY <1>2, <3>1, <3>2
  <2>4. old \notin PlacesFrom(s)'
    <3>1. old[1] = r /\ old[2] = Len(queues[r])
      OBVIOUS
    <3>. HIDE DEF old
    <3>2. old[2] \notin 1..Len(queues'[old[1]])
      <4>1. Len(queues'[r]) = Len(queues[r]) - 1 /\ Len(queues[r]) \in Nat
        BY <1>0, <1>1
      <4>. QED  BY <3>1, <4>1
    <3>. QED  BY <1>2, <3>2
  <2>5. PlacesFrom(s)' = PlacesFrom(s) \ {old}
    BY <2>1, <2>2, <2>4
  <2>6. /\ IsFiniteSet(PlacesFrom(s)')
        /\ Cardinality(PlacesFrom(s)') = Cardinality(PlacesFrom(s)) - 1
    <3>. HIDE DEF old
    <3>1. IsFiniteSet(PlacesFrom(s)) /\ Cardinality(PlacesFrom(s)) \in Nat
      BY Counts
    <3>. QED  BY <2>3, <2>5, <3>1, FS_RemoveElement
  <2>. QED  BY <1>3, <2>6
<1>4. CASE ~(s <= r)
  <2>1. \A x : x \in PlacesFrom(s)' <=> x \in PlacesFrom(s)
    BY <1>0, <1>1, <1>2, <1>4, SlotsAreNat
  <2>2. PlacesFrom(s)' = PlacesFrom(s)
    BY <2>1
  <2>. QED  BY <1>4, <2>2, Counts
<1>. QED  BY <1>3, <1>4

(* One caller owes one post more, one less, or as many as before. *)
LEMMA OwedMoves ==
  ASSUME FiniteInv, NEW c \in Callers, Owed(c) \in Nat,
         \A d \in Callers \ {c} : Owed(d)' = Owed(d)
  PROVE  /\ Owed(c)' = Owed(c) + 1 =>
              /\ IsFiniteSet(OwedPosts')
              /\ Cardinality(OwedPosts') = Cardinality(OwedPosts) + 1
         /\ Owed(c)' = Owed(c) - 1 /\ Owed(c) >= 1 =>
              /\ IsFiniteSet(OwedPosts')
              /\ Cardinality(OwedPosts') = Cardinality(OwedPosts) - 1
         /\ Owed(c)' = Owed(c) => OwedPosts' = OwedPosts
<1>0. IsFiniteSet(OwedPosts) /\ Cardinality(OwedPosts) \in Nat
  BY FS_CardinalityType DEF FiniteInv
<1>1. \A x : x \in OwedPosts' <=>
        \E d \in Callers : \E i \in 1..Owed(d)' : x = <<d, i>>
  BY DEF OwedPosts
<1>2. ASSUME Owed(c)' = Owed(c) + 1
      PROVE  /\ IsFiniteSet(OwedPosts')
             /\ Cardinality(OwedPosts') = Cardinality(OwedPosts) + 1
  <2>. DEFINE new == <<c, Owed(c) + 1>>
  <2>1. OwedPosts' \subseteq OwedPosts \cup {new}
    BY <1>1, <1>2, OwedMembers
  <2>2. OwedPosts \subseteq OwedPosts'
    BY <1>1, <1>2, OwedMembers
  <2>3. new \in OwedPosts' /\ new \notin OwedPosts
    BY <1>1, <1>2, OwedMembers
  <2>4. OwedPosts' = OwedPosts \cup {new}
    BY <2>1, <2>2, <2>3
  <2>. QED  BY <1>0, <2>3, <2>4, FS_AddElement
<1>3. ASSUME Owed(c)' = Owed(c) - 1, Owed(c) >= 1
      PROVE  /\ IsFiniteSet(OwedPosts')
             /\ Cardinality(OwedPosts') = Cardinality(OwedPosts) - 1
  <2>. DEFINE old == <<c, Owed(c)>>
  <2>1. OwedPosts \subseteq OwedPosts' \cup {old}
    BY <1>1, <1>3, OwedMembers
  <2>2. OwedPosts' \subseteq OwedPosts
    BY <1>1, <1>3, OwedMembers
  <2>3. old \in OwedPosts /\ old \notin OwedPosts'
    BY <1>1, <1>3, OwedMembers
  <2>4. OwedPosts' = OwedPosts \ {old}
    BY <2>1, <2>2, <2>3
  <2>. QED  BY <1>0, <2>3, <2>4, FS_RemoveElement
<1>4. ASSUME Owed(c)' = Owed(c) PROVE OwedPosts' = OwedPosts
  BY <1>4 DEF OwedPosts
<1>. QED  BY <1>2, <1>3, <1>4

-----------------------------------------------------------------------------
(* What a step does to the counts, then SearchInv action by action. *)
LEMMA OwedType == TypeInv => \A c \in Callers : Owed(c) \in Nat
BY PoolAssumption DEF TypeInv, TypeOK, CallStates, CallInv, Owed

SearchStepInv == TypeInv /\ FiniteInv /\ SearchInv

(* Nothing a searcher or a queue can see changes. *)
LEMMA SearchUnchanged ==
  ASSUME SearchStepInv, TypeOK', UNCHANGED <<queues, sema>>,
         OwedPosts' = OwedPosts, Searching' = Searching,
         \A s \in Slots : SearchersFrom(s)' = SearchersFrom(s)
  PROVE  FiniteInv' /\ SearchInv'
<1>1. \A s \in Slots : PlacesFrom(s)' = PlacesFrom(s)
  BY DEF PlacesFrom
<1>2. PlacesFrom(0)' = PlacesFrom(0)
  BY <1>1, SlotFacts
<1>. QED  BY <1>1, <1>2 DEF SearchStepInv, FiniteInv, SearchInv

(* A push adds a task before its sem_post is made: the task is owed a      *)
(* wake-up.                                                                *)
LEMMA SearchPush ==
  ASSUME SearchStepInv, TypeInv', NEW c \in Callers, PushTask(c)
  PROVE  FiniteInv' /\ SearchInv'
<1>. DEFINE k == call[c].k  n == call[c].next  r == call[c].slot
<1>0. TypeOK /\ TypeOK' /\ FiniteInv /\ SearchInv /\ CallInv
  BY DEF SearchStepInv, TypeInv
<1>1. /\ r \in Slots /\ k \in Calls /\ n \in 1..Len(CallTasks[k])
      /\ call[c].left = Len(CallTasks[k]) /\ CallTasks[k] \in Seq(Tasks)
      /\ call[c].pc = "push"
  BY <1>0, PoolAssumption DEF PushTask, TypeOK, CallStates, CallInv
<1>2. CallTasks[k][n] \in Tasks
  BY <1>1, ElementOfSeq
<1>3. queues' = [queues EXCEPT ![r] = Append(@, CallTasks[k][n])]
  BY DEF PushTask
<1>4. Owed(c) = n - 1 /\ Owed(c)' = n /\ n \in Nat
  <2>1. /\ call'[c].next = n + 1 /\ call'[c].left = Len(CallTasks[k])
        /\ call'[c].pc = IF n < Len(CallTasks[k]) THEN "index" ELSE "post"
    BY <1>0, <1>1 DEF PushTask, TypeOK, CallStates
  <2>. QED  BY <1>1, <2>1 DEF Owed
<1>5. \A d \in Callers \ {c} : Owed(d)' = Owed(d)
  BY <1>0 DEF PushTask, TypeOK, Owed
<1>6. /\ IsFiniteSet(OwedPosts')
      /\ Cardinality(OwedPosts') = Cardinality(OwedPosts) + 1
  <2>1. Owed(c) \in Nat /\ Owed(c)' = Owed(c) + 1
    BY <1>1, <1>4
  <2>. QED  BY <1>0, <1>5, <2>1, OwedMoves
<1>7. UNCHANGED <<sema, Searching>> /\ \A s \in Slots : SearchersFrom(s)' = SearchersFrom(s)
  BY DEF PushTask, Searching, SearchersFrom
<1>8. \A s \in Slots :
        /\ IsFiniteSet(PlacesFrom(s)')
        /\ Cardinality(PlacesFrom(s)') =
             Cardinality(PlacesFrom(s)) + (IF s <= r THEN 1 ELSE 0)
  BY <1>0, <1>1, <1>2, <1>3, PushPlaces
<1>9. FiniteInv'
  BY <1>6, <1>8, SlotFacts DEF FiniteInv
<1>10. ASSUME NEW s \in Slots
       PROVE  Cardinality(SearchersFrom(s)') <= Cardinality(PlacesFrom(s)')
  <2>1. Cardinality(SearchersFrom(s)) <= Cardinality(PlacesFrom(s))
    BY <1>0 DEF SearchInv
  <2>. QED  BY <1>0, <1>7, <1>8, <2>1, Counts
<1>11. sema' + Cardinality(OwedPosts') + Cardinality(Searching')
         <= Cardinality(PlacesFrom(0)')
  <2>1. Cardinality(PlacesFrom(0)') = Cardinality(PlacesFrom(0)) + 1
    <3>1. 0 \in Slots /\ r \in Nat
      BY <1>1, SlotFacts, SlotsAreNat
    <3>. HIDE DEF r
    <3>. QED  BY <1>8, <3>1
  <2>2. sema + Cardinality(OwedPosts) + Cardinality(Searching) <= Cardinality(PlacesFrom(0))
    BY <1>0 DEF SearchInv
  <2>3. /\ sema \in Nat /\ Cardinality(OwedPosts) \in Nat
        /\ Cardinality(Searching) \in Nat /\ Cardinality(PlacesFrom(0)) \in Nat
    BY <1>0, Counts, SlotFacts DEF TypeOK
  <2>4. sema' = sema /\ Cardinality(Searching') = Cardinality(Searching)
    BY <1>7
  <2>. QED  BY <1>6, <2>1, <2>2, <2>3, <2>4
<1>. QED  BY <1>9, <1>10, <1>11 DEF SearchInv

(* A sem_post turns an owed wake-up into one of the semaphore. *)
LEMMA SearchPost ==
  ASSUME SearchStepInv, TypeInv', NEW c \in Callers, PostSema(c)
  PROVE  FiniteInv' /\ SearchInv'
<1>. DEFINE n == call[c].left
<1>0. TypeOK /\ TypeOK' /\ FiniteInv /\ SearchInv /\ CallInv
  BY DEF SearchStepInv, TypeInv
<1>1. call[c].pc = "post" /\ n \in Nat /\ n >= 1
  BY <1>0 DEF PostSema, TypeOK, CallStates, CallInv
<1>2. Owed(c) = n /\ Owed(c)' = n - 1
  <2>1. CASE n > 1
    <3>1. call'[c].pc = "post" /\ call'[c].left = n - 1
      BY <1>0, <1>1, <2>1 DEF PostSema, TypeOK, CallStates
    <3>. QED  BY <1>1, <3>1 DEF Owed
  <2>2. CASE ~(n > 1)
    <3>1. call'[c].pc \in {"idle", "wait"}
      BY <1>0, <1>1, <2>2 DEF PostSema, TypeOK, CallStates, NoCall
    <3>. QED  BY <1>1, <2>2, <3>1 DEF Owed
  <2>. QED  BY <2>1, <2>2
<1>3. \A d \in Callers \ {c} : Owed(d)' = Owed(d)
  BY <1>0 DEF PostSema, TypeOK, Owed
<1>4. /\ IsFiniteSet(OwedPosts')
      /\ Cardinality(OwedPosts') = Cardinality(OwedPosts) - 1
  <2>1. Owed(c) \in Nat /\ Owed(c) >= 1 /\ Owed(c)' = Owed(c) - 1
    BY <1>1, <1>2
  <2>. QED  BY <1>0, <1>3, <2>1, OwedMoves
<1>5. /\ UNCHANGED <<queues, Searching>> /\ sema' = sema + 1 /\ sema \in Nat
      /\ \A s \in Slots : SearchersFrom(s)' = SearchersFrom(s)
      /\ \A s \in Slots : PlacesFrom(s)' = PlacesFrom(s)
  BY <1>0 DEF PostSema, Searching, SearchersFrom, PlacesFrom, TypeOK
<1>6. PlacesFrom(0)' = PlacesFrom(0)
  BY <1>5, SlotFacts
<1>7. FiniteInv'
  BY <1>0, <1>4, <1>6 DEF FiniteInv
<1>8. sema' + Cardinality(OwedPosts') + Cardinality(Searching')
         <= Cardinality(PlacesFrom(0)')
  <2>1. sema + Cardinality(OwedPosts) + Cardinality(Searching) <= Cardinality(PlacesFrom(0))
    BY <1>0 DEF SearchInv
  <2>. QED  BY <1>0, <1>4, <1>5, <1>6, <2>1, Counts, SlotFacts
<1>. QED  BY <1>0, <1>5, <1>7, <1>8 DEF SearchInv

(* A worker that takes a wake-up becomes a searcher from the first queue   *)
(* on, and the wake-up was matched by a task somewhere.                    *)
LEMMA SearchWake ==
  ASSUME SearchStepInv, TypeInv', NEW w \in Workers, Wake(w)
  PROVE  FiniteInv' /\ SearchInv'
<1>0. TypeOK /\ TypeOK' /\ FiniteInv /\ SearchInv
  BY DEF SearchStepInv, TypeInv
<1>1. /\ worker[w].pc = "sleep" /\ worker'[w].pc = "search" /\ worker'[w].slot = 0
      /\ \A v \in Workers \ {w} : worker'[v] = worker[v]
  BY <1>0 DEF Wake, TypeOK, Asleep
<1>2. Searching' = Searching \cup {w} /\ w \notin Searching
  BY <1>1 DEF Searching
<1>3. Cardinality(Searching') = Cardinality(Searching) + 1
  BY <1>0, <1>2, Counts, SlotFacts, FS_AddElement
<1>4. /\ UNCHANGED <<queues, OwedPosts>> /\ sema \in Nat /\ sema' = sema - 1
      /\ \A s \in Slots : PlacesFrom(s)' = PlacesFrom(s)
      /\ PlacesFrom(0)' = PlacesFrom(0)
  BY <1>0, SlotFacts DEF Wake, callVars, OwedPosts, Owed, PlacesFrom, TypeOK
<1>5. sema' + Cardinality(OwedPosts') + Cardinality(Searching')
         <= Cardinality(PlacesFrom(0)')
  <2>1. sema + Cardinality(OwedPosts) + Cardinality(Searching) <= Cardinality(PlacesFrom(0))
    BY <1>0 DEF SearchInv
  <2>. QED  BY <1>0, <1>3, <1>4, <2>1, Counts, SlotFacts
<1>6. ASSUME NEW s \in Slots
      PROVE  Cardinality(SearchersFrom(s)') <= Cardinality(PlacesFrom(s)')
  <2>1. CASE s = 0
    <3>1. SearchersFrom(s)' \subseteq Searching'
      BY DEF SearchersFrom
    <3>2. IsFiniteSet(Searching') /\ Cardinality(Searching') \in Nat
      <4>1. IsFiniteSet(Searching)
        BY <1>0, Counts
      <4>. QED  BY <1>2, <4>1, FS_AddElement, FS_CardinalityType
    <3>3. Cardinality(SearchersFrom(s)') <= Cardinality(Searching')
      BY <3>1, <3>2, FS_Subset
    <3>4. Cardinality(SearchersFrom(s)') \in Nat
      BY <3>1, <3>2, FS_Subset, FS_CardinalityType
    <3>5. sema' \in Nat /\ Cardinality(OwedPosts') \in Nat
          /\ Cardinality(PlacesFrom(0)') \in Nat
      BY <1>0, <1>4, Counts, SlotFacts DEF TypeOK
    <3>. QED  BY <1>5, <2>1, <3>2, <3>3, <3>4, <3>5
  <2>2. CASE s # 0
    <3>1. SearchersFrom(s)' = SearchersFrom(s)
      BY <1>1, <1>2, <2>2, SlotsAreNat DEF SearchersFrom, Searching
    <3>. QED  BY <1>0, <1>4, <3>1 DEF SearchInv
  <2>. QED  BY <2>1, <2>2
<1>7. FiniteInv'
  BY <1>0, <1>4 DEF FiniteInv
<1>. QED  BY <1>5, <1>6, <1>7 DEF SearchInv

(* A searcher that takes a task leaves with it: the counts from its slot   *)
(* on fall together, and further slots lose neither.                       *)
LEMMA SearchTakes ==
  ASSUME SearchStepInv, TypeInv', NEW w \in Workers, SearchHit(w)
  PROVE  FiniteInv' /\ SearchInv'
<1>. DEFINE r == worker[w].slot
<1>0. TypeOK /\ TypeOK' /\ FiniteInv /\ SearchInv
  BY DEF SearchStepInv, TypeInv
<1>1. /\ worker[w].pc = "search" /\ worker'[w].pc = "run" /\ r \in Slots
      /\ \A v \in Workers \ {w} : worker'[v] = worker[v]
  BY <1>0 DEF SearchHit, TypeOK, Asleep, WorkerStates
<1>2. queues[r] # <<>> /\ queues' = [queues EXCEPT ![r] = Tail(@)]
  BY DEF SearchHit
<1>3. \A s \in Slots :
        /\ IsFiniteSet(PlacesFrom(s)')
        /\ Cardinality(PlacesFrom(s)') =
             Cardinality(PlacesFrom(s)) - (IF s <= r THEN 1 ELSE 0)
  BY <1>0, <1>1, <1>2, PopPlaces
<1>4. Searching' = Searching \ {w} /\ w \in Searching
  BY <1>1 DEF Searching
<1>5. Cardinality(Searching') = Cardinality(Searching) - 1
  BY <1>0, <1>4, Counts, SlotFacts, FS_RemoveElement
<1>6. UNCHANGED <<OwedPosts, sema>> /\ sema \in Nat
  BY <1>0 DEF SearchHit, callVars, OwedPosts, Owed, TypeOK
<1>7. FiniteInv'
  BY <1>0, <1>3, <1>6, SlotFacts DEF FiniteInv
<1>8. sema' + Cardinality(OwedPosts') + Cardinality(Searching')
         <= Cardinality(PlacesFrom(0)')
  <2>1. sema + Cardinality(OwedPosts) + Cardinality(Searching) <= Cardinality(PlacesFrom(0))
    BY <1>0 DEF SearchInv
  <2>2. Cardinality(PlacesFrom(0)') = Cardinality(PlacesFrom(0)) - 1
    BY <1>1, <1>3, SlotFacts, SlotsAreNat
  <2>. QED  BY <1>0, <1>5, <1>6, <2>1, <2>2, Counts, SlotFacts
<1>9. ASSUME NEW s \in Slots
      PROVE  Cardinality(SearchersFrom(s)') <= Cardinality(PlacesFrom(s)')
  <2>0. Cardinality(SearchersFrom(s)) <= Cardinality(PlacesFrom(s))
    BY <1>0 DEF SearchInv
  <2>1. CASE s <= r
    <3>1. SearchersFrom(s)' = SearchersFrom(s) \ {w} /\ w \in SearchersFrom(s)
      BY <1>1, <1>4, <2>1 DEF SearchersFrom, Searching
    <3>2. Cardinality(SearchersFrom(s)') = Cardinality(SearchersFrom(s)) - 1
      BY <1>0, <3>1, Counts, FS_RemoveElement
    <3>3. Cardinality(PlacesFrom(s)') = Cardinality(PlacesFrom(s)) - 1
      BY <1>3, <2>1
    <3>. QED  BY <1>0, <2>0, <3>2, <3>3, Counts
  <2>2. CASE ~(s <= r)
    <3>1. SearchersFrom(s)' = SearchersFrom(s)
      BY <1>1, <1>4, <2>2, SlotsAreNat DEF SearchersFrom, Searching
    <3>2. Cardinality(PlacesFrom(s)') = Cardinality(PlacesFrom(s))
      BY <1>0, <1>3, <2>2, Counts
    <3>. QED  BY <2>0, <3>1, <3>2
  <2>. QED  BY <2>1, <2>2
<1>. QED  BY <1>7, <1>8, <1>9 DEF SearchInv

(* A worker that finds its queue empty has, by the count at its slot, a    *)
(* task in a later queue; so it is not at the last one, and the count at   *)
(* the next slot still holds with it included.                             *)
LEMMA SearchPasses ==
  ASSUME SearchStepInv, TypeInv', NEW w \in Workers, SearchMiss(w)
  PROVE  FiniteInv' /\ SearchInv'
<1>. DEFINE r == worker[w].slot
<1>0. TypeOK /\ TypeOK' /\ FiniteInv /\ SearchInv
  BY DEF SearchStepInv, TypeInv
<1>1. /\ worker[w].pc = "search" /\ r \in Slots /\ queues[r] = <<>>
      /\ \A v \in Workers \ {w} : worker'[v] = worker[v]
      /\ w \in SearchersFrom(r)
  BY <1>0, SlotsAreNat
     DEF SearchMiss, TypeOK, WorkerStates, SearchersFrom, Searching
<1>2. PlacesFrom(r) # {}
  <2>1. Cardinality(SearchersFrom(r)) >= 1
    BY <1>0, <1>1, Counts, FS_EmptySet
  <2>2. Cardinality(PlacesFrom(r)) >= 1
    BY <1>0, <1>1, <2>1, Counts DEF SearchInv
  <2>. QED  BY <2>2, FS_EmptySet
<1>3. r + 1 \in Slots /\ PlacesFrom(r) = PlacesFrom(r + 1)
  <2>1. PICK z \in Slots : z >= r /\ {z} \X DOMAIN queues[z] # {}
    BY <1>2 DEF PlacesFrom
  <2>2. z # r
    BY <1>1, <2>1
  <2>3. r + 1 \in Slots
    BY <1>1, <2>1, <2>2, PoolAssumption DEF Slots
  <2>4. \A y \in Slots : y >= r => y = r \/ y >= r + 1
    BY <1>1, SlotsAreNat
  <2>5. \A y \in Slots : y >= r + 1 => y >= r
    BY <1>1, SlotsAreNat
  <2>6. {r} \X DOMAIN queues[r] = {}
    BY <1>1
  <2>. QED  BY <1>1, <2>3, <2>4, <2>5, <2>6 DEF PlacesFrom
<1>4. worker'[w].pc = "search" /\ worker'[w].slot = r + 1
  BY <1>0, <1>1, <1>3 DEF SearchMiss, TypeOK, WorkerStates
<1>5. UNCHANGED <<queues, sema, OwedPosts, Searching>>
  BY <1>1, <1>4 DEF SearchMiss, poolVars, callVars, OwedPosts, Owed, Searching
<1>6. \A s \in Slots : PlacesFrom(s)' = PlacesFrom(s)
  BY <1>5 DEF PlacesFrom
<1>7. ASSUME NEW s \in Slots
      PROVE  Cardinality(SearchersFrom(s)') <= Cardinality(PlacesFrom(s)')
  <2>0. /\ s \in Nat /\ r \in Nat
        /\ \A v \in Workers : worker[v].slot \in Nat
        /\ Searching \subseteq Workers
    BY <1>0, <1>1, SlotsAreNat DEF TypeOK, WorkerStates, Searching
  <2>1. CASE s = r + 1
    <3>1. ASSUME NEW v \in SearchersFrom(s)' PROVE v \in SearchersFrom(r)
      <4>1. v \in Searching /\ v \in Workers /\ worker'[v].slot >= r + 1
        BY <1>5, <2>0, <2>1 DEF SearchersFrom
      <4>2. CASE v = w
        BY <1>1, <4>2
      <4>3. CASE v # w
        BY <1>1, <2>0, <4>1, <4>3 DEF SearchersFrom
      <4>. QED  BY <4>2, <4>3
    <3>2. /\ Cardinality(SearchersFrom(s)') <= Cardinality(SearchersFrom(r))
          /\ Cardinality(SearchersFrom(s)') \in Nat
      BY <1>0, <1>1, <3>1, Counts, FS_Subset, FS_CardinalityType
    <3>3. /\ Cardinality(SearchersFrom(r)) <= Cardinality(PlacesFrom(r))
          /\ Cardinality(SearchersFrom(r)) \in Nat
          /\ Cardinality(PlacesFrom(r)) \in Nat
      BY <1>0, <1>1, Counts DEF SearchInv
    <3>4. PlacesFrom(s)' = PlacesFrom(r)
      BY <1>3, <1>6, <2>1
    <3>. QED  BY <3>2, <3>3, <3>4
  <2>2. CASE s # r + 1
    <3>1. \A v \in Searching : worker'[v].slot >= s <=> worker[v].slot >= s
      BY <1>1, <1>4, <2>0, <2>2
    <3>2. SearchersFrom(s)' = SearchersFrom(s)
      BY <1>5, <3>1 DEF SearchersFrom
    <3>. QED  BY <1>0, <1>6, <3>2 DEF SearchInv
  <2>. QED  BY <2>1, <2>2
<1>8. FiniteInv'
  BY <1>0, <1>5, <1>6, SlotFacts DEF FiniteInv
<1>. QED  BY <1>0, <1>5, <1>6, <1>7, <1>8, SlotFacts DEF SearchInv

(* Every step keeps the counts of searchers and tasks. *)
LEMMA SearchStep == SearchStepInv /\ [Next]_vars => SearchStepInv'
<1>. SUFFICES ASSUME SearchStepInv, [Next]_vars PROVE SearchStepInv'
  OBVIOUS
<1>0. TypeInv /\ TypeInv' /\ TypeOK /\ TypeOK' /\ CallInv /\ FiniteInv
  BY TypeStep DEF SearchStepInv, TypeInv
<1>. SUFFICES FiniteInv' /\ SearchInv'
  BY <1>0 DEF SearchStepInv
(* A call that begins owes nothing yet. *)
<1>1. ASSUME NEW c \in Callers, NEW k \in Calls, Enter(c, k)
      PROVE  OwedPosts' = OwedPosts
  <2>1. Owed(c) = 0 /\ Owed(c)' = 0
    BY <1>0, <1>1 DEF Enter, TypeOK, Owed, NoCall
  <2>2. \A d \in Callers \ {c} : Owed(d)' = Owed(d)
    BY <1>0, <1>1 DEF Enter, TypeOK, Owed
  <2>. QED  BY <1>0, <2>1, <2>2, OwedMoves
<1>2. ASSUME NEW c \in Clients, NEW k \in Calls, ClientCall(c, k)
      PROVE  FiniteInv' /\ SearchInv'
  <2>1. OwedPosts' = OwedPosts
    BY <1>1, <1>2 DEF ClientCall, Callers
  <2>. QED
    BY <1>0, <1>2, <2>1, SearchUnchanged
       DEF ClientCall, poolVars, Searching, SearchersFrom
<1>3. ASSUME NEW w \in Workers, Spawn(w) PROVE FiniteInv' /\ SearchInv'
  <2>1. worker[w].kids \in Seq(Calls) /\ worker[w].kids # <<>>
    BY <1>0, <1>3 DEF Spawn, TypeOK, WorkerStates
  <2>2. OwedPosts' = OwedPosts
    BY <1>1, <1>3, <2>1, HeadTailProperties DEF Spawn, Callers
  <2>3. \A v \in Workers :
          worker'[v].pc = worker[v].pc /\ worker'[v].slot = worker[v].slot
    BY <1>0, <1>3 DEF Spawn, TypeOK, WorkerStates
  <2>4. Searching' = Searching /\ \A s \in Slots : SearchersFrom(s)' = SearchersFrom(s)
    BY <2>3 DEF Searching, SearchersFrom
  <2>. QED  BY <1>0, <1>3, <2>2, <2>4, SearchUnchanged DEF Spawn, poolVars
<1>4. ASSUME NEW c \in Callers, PickQueue(c) PROVE FiniteInv' /\ SearchInv'
  <2>1. \A d \in Callers : Owed(d)' = Owed(d)
    BY <1>0, <1>4 DEF PickQueue, TypeOK, CallStates, Owed
  <2>2. OwedPosts' = OwedPosts
    BY <2>1 DEF OwedPosts
  <2>. QED
    BY <1>0, <1>4, <2>2, SearchUnchanged DEF PickQueue, Searching, SearchersFrom
<1>5. ASSUME NEW c \in Callers, WaitOne(c) PROVE FiniteInv' /\ SearchInv'
  <2>1. call[c].pc = "wait" /\ call'[c].pc \in {"idle", "wait"}
    BY <1>0, <1>5 DEF WaitOne, TypeOK, CallStates, NoCall
  <2>2. \A d \in Callers : Owed(d)' = Owed(d)
    BY <1>0, <1>5, <2>1 DEF WaitOne, TypeOK, Owed
  <2>3. OwedPosts' = OwedPosts
    BY <2>2 DEF OwedPosts
  <2>. QED
    BY <1>0, <1>5, <2>3, SearchUnchanged
       DEF WaitOne, poolVars, Searching, SearchersFrom
<1>6. ASSUME NEW w \in Workers, FinishTask(w) PROVE FiniteInv' /\ SearchInv'
  <2>1. worker[w].pc = "run" /\ worker'[w].pc = "sleep"
        /\ \A v \in Workers \ {w} : worker'[v] = worker[v]
    BY <1>0, <1>6 DEF FinishTask, TypeOK, Asleep
  <2>2. Searching' = Searching /\ \A s \in Slots : SearchersFrom(s)' = SearchersFrom(s)
    BY <2>1 DEF Searching, SearchersFrom
  <2>. QED
    BY <1>0, <1>6, <2>2, SearchUnchanged DEF FinishTask, poolVars, OwedPosts, Owed
<1>7. CASE UNCHANGED vars
  BY <1>0, <1>7, SearchUnchanged
     DEF vars, poolVars, callVars, OwedPosts, Owed, Searching, SearchersFrom
<1>. QED
  BY <1>0, <1>2, <1>3, <1>4, <1>5, <1>6, <1>7, SearchPush, SearchPost, SearchWake,
     SearchTakes, SearchPasses DEF Next, CallStep, WorkerStep

(* At the start nobody searches and no wake-up is owed. *)
LEMMA SearchInit == Init => SearchStepInv
<1>. SUFFICES ASSUME Init PROVE FiniteInv /\ SearchInv
  BY TypeInit DEF SearchStepInv
<1>1. Searching = {} /\ \A s \in Slots : SearchersFrom(s) = {}
  BY DEF Init, Searching, SearchersFrom, Asleep
<1>2. OwedPosts = {}
  <2>1. \A c \in Callers : Owed(c) = 0
    BY DEF Init, Owed, NoCall
  <2>. QED  BY <2>1 DEF OwedPosts
<1>3. \A s \in Slots : PlacesFrom(s) = {}
  BY DEF Init, PlacesFrom
<1>4. FiniteInv
  BY <1>2, <1>3, SlotFacts, FS_EmptySet DEF FiniteInv
<1>5. /\ Cardinality(Searching) = 0 /\ Cardinality(OwedPosts) = 0
      /\ \A s \in Slots : Cardinality(SearchersFrom(s)) = 0
      /\ \A s \in Slots : Cardinality(PlacesFrom(s)) = 0
  BY <1>1, <1>2, <1>3, FS_EmptySet
<1>6. sema = 0 /\ 0 \in Slots
  BY SlotFacts DEF Init
<1>. QED  BY <1>4, <1>5, <1>6 DEF SearchInv

(* For every number of workers and every schedule, the workers searching   *)
(* at or beyond a queue are no more than the tasks at or beyond it, and    *)
(* every wake-up, posted or still owed, has a task of its own.             *)
THEOREM SearchersHaveTasks == Spec => []SearchInv
<1>1. Spec => []SearchStepInv
  BY SearchInit, SearchStep, PTL DEF Spec
<1>2. SearchStepInv => SearchInv
  BY DEF SearchStepInv
<1>. QED  BY <1>1, <1>2, PTL

(* Hence get_task never returns 0: no wake-up is swallowed by a search that *)
(* passed a queue just before a task was pushed to it.                      *)
THEOREM SearchNeverFails == Spec => []NoEmptySearch
<1>1. Spec => []SearchStepInv
  BY SearchInit, SearchStep, PTL DEF Spec
<1>2. SearchStepInv => NoEmptySearch
  <2>. SUFFICES ASSUME SearchStepInv, NEW w \in Searching,
                       worker[w].slot = 3 * NumThreads - 1,
                       queues[worker[w].slot] = <<>>
                PROVE  FALSE
    BY DEF NoEmptySearch
  <2>. DEFINE r == worker[w].slot
  <2>1. /\ TypeOK /\ FiniteInv /\ SearchInv /\ r \in Slots
        /\ w \in SearchersFrom(r)
    BY SlotsAreNat
       DEF SearchStepInv, TypeInv, TypeOK, WorkerStates, Searching, SearchersFrom
  <2>2. Cardinality(SearchersFrom(r)) >= 1
    BY <2>1, Counts, FS_EmptySet
  <2>3. PlacesFrom(r) = {}
    <3>1. \A z \in Slots : z >= r => z = r
      BY PoolAssumption DEF Slots
    <3>. QED  BY <3>1 DEF PlacesFrom
  <2>. QED  BY <2>1, <2>2, <2>3, Counts, FS_EmptySet DEF SearchInv
<1>. QED  BY <1>1, <1>2, PTL

-----------------------------------------------------------------------------
(* The life of a task and of a client's call. *)
TasksOf(k) == Elems(CallTasks[k])
InCall(c)  == call[c].pc # "idle"

(* The tasks a caller has yet to push. *)
Unpushed(c) ==
  IF call[c].pc \in {"index", "push"}
  THEN {CallTasks[call[c].k][i] : i \in call[c].next..Len(CallTasks[call[c].k])}
  ELSE {}

(* The waits a client has made. *)
Waited(c) ==
  IF call[c].pc = "wait" THEN Len(CallTasks[call[c].k]) - call[c].left ELSE 0

(* No two threads are in the same call. *)
CallsApart ==
  /\ \A c \in Callers : IF InCall(c) THEN call[c].k \in made ELSE call[c].k = "none"
  /\ \A c, d \in Callers : InCall(c) /\ call[c].k = call[d].k => c = d

(* A task is in one place of one queue, with one worker, or done; and in   *)
(* none of them before its call pushes it.                                 *)
Placed == Queued \cup Running \cup done
QueuesApart ==
  \A s, r \in Slots : \A i \in 1..Len(queues[s]), j \in 1..Len(queues[r]) :
    queues[s][i] = queues[r][j] => s = r /\ i = j
WorkersApart ==
  \A v, w \in Workers :
    v # w /\ worker[v].pc = "run" /\ worker[w].pc = "run"
      => worker[v].task # worker[w].task
PlacesApart ==
  /\ QueuesApart /\ WorkersApart
  /\ Queued \cap Running = {} /\ (Queued \cup Running) \cap done = {}
PushedOnly ==
  /\ \A t \in Placed : CallOf(t) \in made
  /\ \A c \in Callers : Unpushed(c) \cap Placed = {}

(* A client is woken once for each of its tasks that is done. *)
WaitsCounted ==
  \A c \in Clients :
    /\ call[c].pc = "wait" => IsWait[call[c].k] /\ call[c].left \in 1..Len(CallTasks[call[c].k])
    /\ InCall(c) /\ IsWait[call[c].k] =>
         wait_sema[c] + Waited(c) = Cardinality(TasksOf(call[c].k) \cap done)

(* The client of a call that waits is inside it until its tasks are done.  *)
WaitersStay ==
  \A k \in made : IsWait[k] =>
    (\E c \in Clients : call[c].k = k) \/ TasksOf(k) \subseteq done
KidsPost == \A w \in Workers : \A i \in 1..Len(worker[w].kids) : worker[w].kids[i] \in ChildCalls

LifeInv ==
  /\ CallsApart /\ PlacesApart /\ PushedOnly
  /\ WaitsCounted /\ WaitersStay /\ KidsPost
  /\ freed \subseteq done

-----------------------------------------------------------------------------
(* A task has one call, the one CallOf finds. *)
LEMMA TaskCalls ==
  ASSUME NEW k \in Calls
  PROVE  /\ CallTasks[k] \in Seq(Tasks) /\ Len(CallTasks[k]) \in Nat \ {0}
         /\ TasksOf(k) = {CallTasks[k][i] : i \in 1..Len(CallTasks[k])}
         /\ TasksOf(k) \subseteq Tasks
         /\ \A t \in TasksOf(k) : CallOf(t) = k
<1>1. /\ CallTasks[k] \in Seq(Tasks) /\ Len(CallTasks[k]) \in Nat \ {0}
      /\ DOMAIN CallTasks[k] = 1..Len(CallTasks[k])
      /\ \A i \in 1..Len(CallTasks[k]) : CallTasks[k][i] \in Tasks
  BY PoolAssumption
<1>2. ASSUME NEW t \in TasksOf(k) PROVE CallOf(t) = k
  <2>1. ASSUME NEW l \in Calls, t \in Elems(CallTasks[l]) PROVE l = k
    BY <1>2, <2>1, FreshTasksAssumption DEF TasksOf, Elems
  <2>. QED  BY <1>2, <2>1 DEF CallOf, TasksOf
<1>. QED  BY <1>1, <1>2 DEF TasksOf, Elems

(* The tasks in a set of queues. *)
QueuedIn(q) == UNION {Elems(q[s]) : s \in Slots}
ApartIn(q) ==
  \A s, r \in Slots : \A i \in 1..Len(q[s]), j \in 1..Len(q[r]) :
    q[s][i] = q[r][j] => s = r /\ i = j

LEMMA QueuedMembers ==
  ASSUME NEW q \in [Slots -> Seq(Tasks)]
  PROVE  \A t : t \in QueuedIn(q) <=> \E s \in Slots : \E i \in 1..Len(q[s]) : t = q[s][i]
<1>1. \A s \in Slots : DOMAIN q[s] = 1..Len(q[s])
  OBVIOUS
<1>. QED  BY <1>1 DEF QueuedIn, Elems

(* A push of a task that is in no queue puts it in one place. *)
LEMMA PushQueued ==
  ASSUME NEW q \in [Slots -> Seq(Tasks)], NEW s \in Slots, NEW t \in Tasks,
         ApartIn(q), t \notin QueuedIn(q)
  PROVE  LET r == [q EXCEPT ![s] = Append(@, t)] IN
         QueuedIn(r) = QueuedIn(q) \cup {t} /\ ApartIn(r)
<1>. DEFINE r == [q EXCEPT ![s] = Append(@, t)]
            m == Len(q[s])
<1>1. /\ r \in [Slots -> Seq(Tasks)] /\ m \in Nat
      /\ Len(r[s]) = m + 1 /\ r[s][m + 1] = t
      /\ \A i \in 1..m : r[s][i] = q[s][i]
      /\ \A z \in Slots \ {s} : r[z] = q[z]
  OBVIOUS
<1>2. \A i \in 1..m + 1 : i = m + 1 \/ i \in 1..m
  BY <1>1
<1>3. m + 1 \in 1..m + 1 /\ \A i \in 1..m : i \in 1..m + 1
  BY <1>1
<1>. HIDE DEF r, m
<1>4. ASSUME NEW z \in Slots, NEW i \in 1..Len(r[z])
      PROVE  \/ z = s /\ i = m + 1 /\ r[z][i] = t
             \/ i \in 1..Len(q[z]) /\ r[z][i] = q[z][i] /\ r[z][i] # t
  <2>1. ASSUME i \in 1..Len(q[z]) PROVE q[z][i] # t
    BY <2>1, QueuedMembers
  <2>2. CASE z = s
    BY <1>1, <1>2, <2>1, <2>2 DEF m
  <2>3. CASE z # s
    BY <1>1, <2>1, <2>3
  <2>. QED  BY <2>2, <2>3
<1>5. ApartIn(r)
  BY <1>4 DEF ApartIn
<1>6. QueuedIn(r) = QueuedIn(q) \cup {t}
  <2>1. ASSUME NEW u \in QueuedIn(r) PROVE u \in QueuedIn(q) \cup {t}
    <3>1. PICK z \in Slots : \E i \in 1..Len(r[z]) : u = r[z][i]
      BY <1>1, QueuedMembers
    <3>. QED  BY <1>4, <3>1, QueuedMembers
  <2>2. ASSUME NEW u \in QueuedIn(q) PROVE u \in QueuedIn(r)
    <3>1. PICK z \in Slots : \E i \in 1..Len(q[z]) : u = q[z][i]
      BY QueuedMembers
    <3>2. \E i \in 1..Len(r[z]) : u = r[z][i]
      BY <1>1, <1>3, <3>1 DEF m
    <3>. QED  BY <1>1, <3>2, QueuedMembers
  <2>3. t \in QueuedIn(r)
    BY <1>1, <1>3, QueuedMembers
  <2>. QED  BY <2>1, <2>2, <2>3
<1>. QED  BY <1>5, <1>6 DEF r

(* A pop takes its task out of the queues. *)
LEMMA PopQueued ==
  ASSUME NEW q \in [Slots -> Seq(Tasks)], NEW s \in Slots, ApartIn(q), q[s] # <<>>
  PROVE  LET r == [q EXCEPT ![s] = Tail(@)] IN
         /\ Head(q[s]) \in QueuedIn(q)
         /\ QueuedIn(r) = QueuedIn(q) \ {Head(q[s])} /\ ApartIn(r)
<1>. DEFINE r == [q EXCEPT ![s] = Tail(@)]
            m == Len(q[s])
<1>1. /\ q[s] \in Seq(Tasks) /\ m \in Nat /\ m >= 1 /\ Head(q[s]) = q[s][1]
      /\ Tail(q[s]) \in Seq(Tasks) /\ Len(Tail(q[s])) = m - 1
      /\ \A i \in 1..m - 1 : Tail(q[s])[i] = q[s][i + 1]
  BY HeadTailProperties
<1>2. /\ r \in [Slots -> Seq(Tasks)] /\ Len(r[s]) = m - 1
      /\ \A i \in 1..m - 1 : r[s][i] = q[s][i + 1] /\ i + 1 \in 1..m /\ i + 1 # 1
      /\ \A z \in Slots \ {s} : r[z] = q[z]
  BY <1>1
<1>3. \A i \in 1..m : i = 1 \/ (i - 1 \in 1..m - 1 /\ i - 1 + 1 = i)
  BY <1>1
<1>4. 1 \in 1..m
  BY <1>1
<1>. HIDE DEF r, m
<1>5. Head(q[s]) \in QueuedIn(q)
  BY <1>1, <1>4, QueuedMembers DEF m
<1>6. ASSUME NEW z \in Slots, NEW i \in 1..Len(r[z])
      PROVE  \E j \in 1..Len(q[z]) : /\ r[z][i] = q[z][j] /\ r[z][i] # Head(q[s])
                                     /\ j = IF z = s THEN i + 1 ELSE i
  <2>1. CASE z = s
    <3>1. i + 1 \in 1..m /\ r[s][i] = q[s][i + 1] /\ i + 1 # 1
      BY <1>2, <2>1
    <3>2. q[s][i + 1] # q[s][1]
      BY <1>4, <3>1 DEF ApartIn, m
    <3>. QED  BY <1>1, <2>1, <3>1, <3>2 DEF m
  <2>2. CASE z # s
    <3>1. r[z][i] = q[z][i] /\ i \in 1..Len(q[z])
      BY <1>2, <2>2
    <3>2. q[z][i] # q[s][1]
      BY <1>4, <2>2, <3>1 DEF ApartIn, m
    <3>. QED  BY <1>1, <2>2, <3>1, <3>2
  <2>. QED  BY <2>1, <2>2
<1>7. ApartIn(r)
  <2>. SUFFICES ASSUME NEW z \in Slots, NEW y \in Slots, NEW i \in 1..Len(r[z]),
                       NEW j \in 1..Len(r[y]), r[z][i] = r[y][j]
                PROVE  z = y /\ i = j
    BY DEF ApartIn
  <2>1. z = y
    BY <1>6 DEF ApartIn
  <2>2. (IF z = s THEN i + 1 ELSE i) = (IF z = s THEN j + 1 ELSE j)
    BY <1>6, <2>1 DEF ApartIn
  <2>. QED  BY <1>2, <2>1, <2>2
<1>8. QueuedIn(r) = QueuedIn(q) \ {Head(q[s])}
  <2>1. ASSUME NEW u \in QueuedIn(r) PROVE u \in QueuedIn(q) /\ u # Head(q[s])
    <3>1. PICK z \in Slots : \E i \in 1..Len(r[z]) : u = r[z][i]
      BY <1>2, QueuedMembers
    <3>. QED  BY SMTT(30), <1>6, <3>1, QueuedMembers
  <2>2. ASSUME NEW u \in QueuedIn(q), u # Head(q[s]) PROVE u \in QueuedIn(r)
    <3>0. PICK z \in Slots : \E i \in 1..Len(q[z]) : u = q[z][i]
      BY QueuedMembers
    <3>1. PICK i \in 1..Len(q[z]) : u = q[z][i]
      BY <3>0
    <3>2. CASE z = s
      <4>1. i - 1 \in 1..m - 1 /\ i - 1 + 1 = i
        BY <1>1, <1>3, <2>2, <3>1, <3>2 DEF m
      <4>2. i - 1 \in 1..Len(r[s]) /\ r[s][i - 1] = u
        BY <1>2, <3>1, <3>2, <4>1
      <4>. QED  BY <1>2, <4>2, QueuedMembers
    <3>3. CASE z # s
      BY <1>2, <3>1, <3>3, QueuedMembers
    <3>. QED  BY <3>2, <3>3
  <2>. QED  BY <2>1, <2>2
<1>. QED  BY <1>5, <1>7, <1>8 DEF r

-----------------------------------------------------------------------------
(* The tasks the workers execute, by what becomes of the workers. *)
LEMMA RunningSame ==
  ASSUME WorkersApart,
         \A v \in Workers : /\ worker'[v].pc = "run" <=> worker[v].pc = "run"
                            /\ worker[v].pc = "run" => worker'[v].task = worker[v].task
  PROVE  Running' = Running /\ WorkersApart'
<1>1. WorkersApart'
  BY DEF WorkersApart
<1>2. {v \in Workers : worker'[v].pc = "run"} = {v \in Workers : worker[v].pc = "run"}
  OBVIOUS
<1>3. Running' = Running
  BY <1>2 DEF Running
<1>. QED  BY <1>1, <1>3

LEMMA RunningTakes ==
  ASSUME WorkersApart, NEW w \in Workers, NEW t, t \notin Running,
         worker[w].pc # "run", worker'[w].pc = "run", worker'[w].task = t,
         \A v \in Workers \ {w} : worker'[v] = worker[v]
  PROVE  Running' = Running \cup {t} /\ WorkersApart'
<1>1. \A v \in Workers : worker[v].pc = "run" => worker[v].task # t /\ v # w
  BY DEF Running
<1>2. WorkersApart'
  BY <1>1 DEF WorkersApart
<1>3. Running' = Running \cup {t}
  BY <1>1 DEF Running
<1>. QED  BY <1>2, <1>3

LEMMA RunningEnds ==
  ASSUME WorkersApart, NEW w \in Workers, worker[w].pc = "run", worker'[w].pc # "run",
         \A v \in Workers \ {w} : worker'[v] = worker[v]
  PROVE  /\ worker[w].task \in Running
         /\ Running' = Running \ {worker[w].task} /\ WorkersApart'
<1>1. worker[w].task \in Running
  BY DEF Running
<1>2. WorkersApart'
  BY DEF WorkersApart
<1>3. Running' = Running \ {worker[w].task}
  BY DEF Running, WorkersApart
<1>. QED  BY <1>1, <1>2, <1>3

(* The tasks of a call are no more than its length. *)
LEMMA TasksFinite ==
  ASSUME NEW k \in Calls
  PROVE  /\ IsFiniteSet(TasksOf(k)) /\ Cardinality(TasksOf(k)) \in Nat
         /\ Cardinality(TasksOf(k)) <= Len(CallTasks[k])
<1>. DEFINE n == Len(CallTasks[k])
<1>1. /\ n \in Nat /\ CallTasks[k] \in [1..n -> TasksOf(k)]
      /\ \A t \in TasksOf(k) : \E i \in 1..n : CallTasks[k][i] = t
  BY TaskCalls
<1>2. IsFiniteSet(1..n) /\ Cardinality(1..n) = n
  <2>1. IsFiniteSet(1..n) /\ Cardinality(1..n) = IF 1 > n THEN 0 ELSE n - 1 + 1
    BY SMTT(30), <1>1, FS_Interval
  <2>. QED  BY <1>1, <2>1
<1>. HIDE DEF n
<1>3. CallTasks[k] \in Surjection(1..n, TasksOf(k))
  BY <1>1 DEF Surjection
<1>. QED  BY <1>1, <1>2, <1>3, FS_Surjection, FS_CardinalityType DEF n

(* The tasks of a call that are done. *)
LEMMA DoneFinite ==
  ASSUME NEW k \in Calls
  PROVE  /\ IsFiniteSet(TasksOf(k) \cap done) /\ Cardinality(TasksOf(k) \cap done) \in Nat
         /\ Cardinality(TasksOf(k) \cap done) <= Len(CallTasks[k])
         /\ Cardinality(TasksOf(k) \cap done) = Len(CallTasks[k]) => TasksOf(k) \subseteq done
<1>1. /\ IsFiniteSet(TasksOf(k)) /\ Cardinality(TasksOf(k)) \in Nat
      /\ Cardinality(TasksOf(k)) <= Len(CallTasks[k]) /\ Len(CallTasks[k]) \in Nat
  BY TasksFinite, TaskCalls
<1>2. /\ IsFiniteSet(TasksOf(k) \cap done)
      /\ Cardinality(TasksOf(k) \cap done) <= Cardinality(TasksOf(k))
      /\ Cardinality(TasksOf(k) \cap done) = Cardinality(TasksOf(k))
           => TasksOf(k) \cap done = TasksOf(k)
  BY <1>1, FS_Subset
<1>3. Cardinality(TasksOf(k) \cap done) \in Nat
  BY <1>2, FS_CardinalityType
<1>. QED  BY <1>1, <1>2, <1>3

-----------------------------------------------------------------------------
(* What a step keeps that does not touch the calls, and one that does not  *)
(* move a task.                                                            *)
LEMMA CallsKept ==
  ASSUME LifeInv, UNCHANGED <<call, made, wait_sema, done>>, Placed' = Placed
  PROVE  CallsApart' /\ PushedOnly' /\ WaitsCounted' /\ WaitersStay'
<1>1. CallsApart'
  BY DEF LifeInv, CallsApart, InCall
<1>2. PushedOnly'
  BY DEF LifeInv, PushedOnly, Unpushed
<1>3. WaitsCounted'
  BY DEF LifeInv, WaitsCounted, InCall, Waited
<1>4. WaitersStay'
  BY DEF LifeInv, WaitersStay
<1>. QED  BY <1>1, <1>2, <1>3, <1>4

LEMMA PlacesKept ==
  ASSUME LifeInv, UNCHANGED <<queues, done>>, Running' = Running, WorkersApart'
  PROVE  PlacesApart' /\ Placed' = Placed
BY DEF LifeInv, PlacesApart, QueuesApart, Placed, Queued

(* A thread enters a call that nobody made before: none of its tasks is    *)
(* anywhere yet.                                                           *)
LEMMA EnterLife ==
  ASSUME TypeInv, LifeInv, NEW c \in Callers, NEW k \in Calls, Enter(c, k),
         done' = done, Placed' = Placed,
         IF c \in Clients THEN wait_sema' = [wait_sema EXCEPT ![c] = 0]
         ELSE UNCHANGED wait_sema /\ ~IsWait[k]
  PROVE  CallsApart' /\ PushedOnly' /\ WaitsCounted' /\ WaitersStay'
<1>1. /\ call \in [Callers -> CallStates] /\ made \subseteq Calls /\ "none" \notin Calls
      /\ wait_sema \in [Clients -> Nat] /\ Clients \subseteq Callers
  BY PoolAssumption DEF TypeInv, TypeOK, Callers
<1>2. /\ call[c].pc = "idle" /\ k \notin made /\ made' = made \cup {k}
      /\ call'[c].pc = "index" /\ call'[c].k = k /\ call'[c].next = 1
      /\ \A d \in Callers \ {c} : call'[d] = call[d]
  BY <1>1 DEF Enter, NoCall
<1>3. \A d \in Callers : IF InCall(d) THEN call[d].k \in made ELSE call[d].k = "none"
  BY DEF LifeInv, CallsApart
<1>4. CallsApart'
  BY <1>1, <1>2, <1>3 DEF LifeInv, CallsApart, InCall
<1>5. TasksOf(k) \cap Placed = {}
  BY <1>2, TaskCalls DEF LifeInv, PushedOnly
<1>6. PushedOnly'
  <2>1. Unpushed(c)' \subseteq TasksOf(k)
    BY <1>2, TaskCalls DEF Unpushed
  <2>2. \A d \in Callers \ {c} : Unpushed(d)' = Unpushed(d)
    BY <1>2 DEF Unpushed
  <2>. QED  BY <1>2, <1>5, <2>1, <2>2 DEF LifeInv, PushedOnly
<1>7. WaitsCounted'
  <2>1. ASSUME NEW d \in Clients, d # c
        PROVE  /\ call'[d] = call[d] /\ wait_sema'[d] = wait_sema[d]
               /\ Waited(d)' = Waited(d) /\ InCall(d)' = InCall(d)
    BY <1>1, <1>2, <2>1 DEF Waited, InCall
  <2>2. \A d \in Clients : d = c => wait_sema'[d] = 0 /\ Waited(d)' = 0
    BY <1>1, <1>2 DEF Waited
  <2>3. Cardinality(TasksOf(k) \cap done) = 0
    <3>1. TasksOf(k) \cap done = {}
      BY <1>5 DEF Placed
    <3>. QED  BY <3>1, FS_EmptySet
  <2>. SUFFICES ASSUME NEW d \in Clients
       PROVE  /\ call'[d].pc = "wait" => IsWait[call'[d].k]
                                         /\ call'[d].left \in 1..Len(CallTasks[call'[d].k])
              /\ InCall(d)' /\ IsWait[call'[d].k] =>
                   wait_sema'[d] + Waited(d)' = Cardinality(TasksOf(call'[d].k) \cap done)
    BY DEF WaitsCounted
  <2>4. CASE d = c
    <3>1. call'[d].k = k /\ call'[d].pc = "index"
      BY <1>2, <2>4
    <3>2. Cardinality(TasksOf(call'[d].k) \cap done) = 0
      BY <2>3, <3>1
    <3>3. wait_sema'[d] + Waited(d)' = 0
      BY <2>2, <2>4
    <3>. QED  BY <3>1, <3>2, <3>3
  <2>5. CASE d # c
    <3>1. /\ call[d].pc = "wait" => IsWait[call[d].k]
                                     /\ call[d].left \in 1..Len(CallTasks[call[d].k])
          /\ InCall(d) /\ IsWait[call[d].k] =>
               wait_sema[d] + Waited(d) = Cardinality(TasksOf(call[d].k) \cap done)
      BY DEF LifeInv, WaitsCounted
    <3>. QED  BY <2>1, <2>5, <3>1
  <2>. QED  BY <2>4, <2>5
<1>8. WaitersStay'
  <2>. SUFFICES ASSUME NEW l \in made', IsWait[l]
                PROVE  (\E d \in Clients : call'[d].k = l) \/ TasksOf(l) \subseteq done
    BY DEF WaitersStay
  <2>1. CASE l = k
    BY <1>2, <2>1
  <2>2. CASE l # k
    <3>1. l \in made /\ l \in Calls
      BY <1>1, <1>2, <2>2
    <3>2. CASE \E d \in Clients : call[d].k = l
      <4>1. PICK d \in Clients : call[d].k = l
        BY <3>2
      <4>2. d # c
        BY <1>1, <1>2, <1>3, <3>1, <4>1 DEF InCall
      <4>. QED  BY <1>1, <1>2, <4>1, <4>2
    <3>. QED  BY <3>1, <3>2 DEF LifeInv, WaitersStay
  <2>. QED  BY <2>1, <2>2
<1>. QED  BY <1>4, <1>6, <1>7, <1>8

(* A thread whose call is as before has as much to push and to wait for.   *)
LEMMA SameCall ==
  ASSUME NEW d, call'[d] = call[d]
  PROVE  Unpushed(d)' = Unpushed(d) /\ Waited(d)' = Waited(d) /\ (InCall(d)' <=> InCall(d))
BY DEF Unpushed, Waited, InCall

(* A caller in its call: the step changes neither made nor what is done,   *)
(* and leaves the other calls as they are.                                 *)
LEMMA StepInCall ==
  ASSUME TypeInv, LifeInv, NEW c \in Callers, UNCHANGED <<made, done, wait_sema>>,
         InCall(c), InCall(c)', call'[c].k = call[c].k,
         \A d \in Callers \ {c} : call'[d] = call[d],
         Waited(c)' = Waited(c),
         call'[c].pc = "wait" => /\ IsWait[call[c].k]
                                 /\ call'[c].left \in 1..Len(CallTasks[call[c].k])
  PROVE  CallsApart' /\ WaitsCounted' /\ WaitersStay'
<1>1. Clients \subseteq Callers /\ \A d \in Callers : call'[d].k = call[d].k
  BY DEF Callers
<1>2. \A d \in Callers : InCall(d)' <=> InCall(d)
  BY DEF InCall
<1>3. \A d \in Callers : Waited(d)' = Waited(d)
  <2>. SUFFICES ASSUME NEW d \in Callers, d # c PROVE Waited(d)' = Waited(d)
    OBVIOUS
  <2>. QED  BY DEF Waited
<1>4. CallsApart'
  BY <1>1, <1>2 DEF LifeInv, CallsApart
<1>5. WaitsCounted'
  <2>1. \A d \in Clients : call'[d].pc = "wait" =>
          IsWait[call'[d].k] /\ call'[d].left \in 1..Len(CallTasks[call'[d].k])
    <3>. SUFFICES ASSUME NEW d \in Clients, d # c, call[d].pc = "wait"
                  PROVE  IsWait[call[d].k] /\ call[d].left \in 1..Len(CallTasks[call[d].k])
      BY <1>1
    <3>. QED  BY DEF LifeInv, WaitsCounted
  <2>. QED  BY <1>1, <1>2, <1>3, <2>1 DEF LifeInv, WaitsCounted
<1>6. WaitersStay'
  BY <1>1 DEF LifeInv, WaitersStay
<1>. QED  BY <1>4, <1>5, <1>6

(* The push: the task leaves its caller and is in one place of one queue.  *)
LEMMA PushLife ==
  ASSUME TypeInv, LifeInv, NEW c \in Callers, PushTask(c)
  PROVE  LifeInv'
<1>. DEFINE k == call[c].k
            n == call[c].next
            t == CallTasks[k][n]
<1>1. /\ k \in Calls /\ n \in 1..Len(CallTasks[k]) /\ call[c].slot \in Slots
      /\ call[c].pc = "push" /\ call \in [Callers -> CallStates]
      /\ queues \in [Slots -> Seq(Tasks)]
  BY DEF PushTask, TypeInv, TypeOK, CallInv, CallStates
<1>2. t \in Tasks /\ t \in TasksOf(k) /\ t \in Unpushed(c) /\ CallOf(t) = k
  BY <1>1, TaskCalls DEF Unpushed
<1>3. t \notin Placed
  BY <1>2 DEF LifeInv, PushedOnly
<1>4. UNCHANGED <<made, done, wait_sema, worker, freed>>
  BY DEF PushTask
<1>5. /\ call'[c].k = k /\ call'[c].pc \in {"index", "post"} /\ call'[c].next = n + 1
      /\ \A d \in Callers \ {c} : call'[d] = call[d]
  BY <1>1 DEF PushTask, CallStates
<1>6. QueuedIn(queues') = QueuedIn(queues) \cup {t} /\ ApartIn(queues')
  <2>1. ApartIn(queues) /\ t \notin QueuedIn(queues)
    BY <1>3 DEF LifeInv, PlacesApart, QueuesApart, ApartIn, Placed, Queued, QueuedIn
  <2>2. queues' = [queues EXCEPT ![call[c].slot] = Append(@, t)]
    BY DEF PushTask
  <2>. QED  BY <1>1, <1>2, <2>1, <2>2, PushQueued
<1>7. Queued' = Queued \cup {t} /\ QueuesApart'
  BY <1>6 DEF Queued, QueuedIn, QueuesApart, ApartIn
<1>8. Running' = Running /\ WorkersApart'
  BY <1>4, RunningSame DEF LifeInv, PlacesApart
<1>9. PlacesApart'
  BY <1>3, <1>4, <1>7, <1>8 DEF LifeInv, PlacesApart, Placed
<1>10. Placed' = Placed \cup {t}
  BY <1>4, <1>7, <1>8 DEF Placed
<1>11. CallsApart' /\ WaitsCounted' /\ WaitersStay'
  <2>1. InCall(c) /\ InCall(c)' /\ Waited(c)' = Waited(c)
    BY <1>1, <1>5 DEF InCall, Waited
  <2>. QED  BY <1>1, <1>4, <1>5, <2>1, StepInCall
<1>12. PushedOnly'
  <2>1. k \in made
    BY <1>1 DEF LifeInv, CallsApart, InCall
  <2>2. Unpushed(c)' \subseteq Unpushed(c) \ {t}
    <3>. SUFFICES ASSUME NEW u \in Unpushed(c)' PROVE u \in Unpushed(c) /\ u # t
      OBVIOUS
    <3>1. Len(CallTasks[k]) \in Nat /\ DOMAIN CallTasks[k] = 1..Len(CallTasks[k])
      BY <1>1, TaskCalls
    <3>2. PICK i \in n + 1..Len(CallTasks[k]) : u = CallTasks[k][i]
      BY <1>5 DEF Unpushed
    <3>3. i \in n..Len(CallTasks[k]) /\ i \in DOMAIN CallTasks[k] /\ n \in DOMAIN CallTasks[k]
          /\ i # n
      BY <1>1, <3>1
    <3>4. u # t
      BY <1>1, <3>2, <3>3, FreshTasksAssumption
    <3>5. u \in Unpushed(c)
      BY <1>1, <3>2, <3>3 DEF Unpushed
    <3>. QED  BY <3>4, <3>5
  <2>3. ASSUME NEW d \in Callers, d # c PROVE Unpushed(d)' = Unpushed(d) /\ t \notin Unpushed(d)
    <3>1. Unpushed(d)' = Unpushed(d)
      BY <1>5, <2>3 DEF Unpushed
    <3>2. CASE call[d].pc \in {"index", "push"}
      <4>1. call[d].k \in Calls /\ call[d].k # k /\ call[d].next \in 1..Len(CallTasks[call[d].k])
        BY <1>1, <2>3, <3>2 DEF LifeInv, CallsApart, InCall, TypeInv, CallInv
      <4>2. Unpushed(d) \subseteq TasksOf(call[d].k)
        <5>1. \A i \in call[d].next..Len(CallTasks[call[d].k]) : i \in 1..Len(CallTasks[call[d].k])
          BY <4>1, TaskCalls
        <5>. QED  BY <3>2, <4>1, <5>1, TaskCalls DEF Unpushed
      <4>3. t \notin TasksOf(call[d].k)
        BY <1>2, <4>1, TaskCalls
      <4>. QED  BY <3>1, <4>2, <4>3
    <3>3. CASE call[d].pc \notin {"index", "push"}
      BY <3>1, <3>3 DEF Unpushed
    <3>. QED  BY <3>2, <3>3
  <2>4. \A u \in Placed' : CallOf(u) \in made
    BY <1>2, <1>10, <2>1 DEF LifeInv, PushedOnly
  <2>5. \A d \in Callers : Unpushed(d)' \cap Placed' = {}
    BY <1>10, <2>2, <2>3 DEF LifeInv, PushedOnly
  <2>. QED  BY <1>4, <2>4, <2>5 DEF PushedOnly
<1>13. KidsPost' /\ freed' \subseteq done'
  BY <1>4 DEF LifeInv, KidsPost
<1>. QED  BY <1>9, <1>11, <1>12, <1>13 DEF LifeInv

(* The choice of a queue moves no task. *)
LEMMA PickLife ==
  ASSUME TypeInv, LifeInv, NEW c \in Callers, PickQueue(c)
  PROVE  LifeInv'
<1>1. /\ call[c].pc = "index" /\ call \in [Callers -> CallStates]
      /\ UNCHANGED <<queues, made, done, wait_sema, worker, freed>>
  BY DEF PickQueue, TypeInv, TypeOK
<1>2. /\ call'[c].k = call[c].k /\ call'[c].pc = "push" /\ call'[c].next = call[c].next
      /\ \A d \in Callers \ {c} : call'[d] = call[d]
  BY <1>1 DEF PickQueue, CallStates
<1>3. PlacesApart' /\ Placed' = Placed
  <2>1. Running' = Running /\ WorkersApart'
    BY <1>1, RunningSame DEF LifeInv, PlacesApart
  <2>. QED  BY <1>1, <2>1, PlacesKept
<1>4. CallsApart' /\ WaitsCounted' /\ WaitersStay'
  <2>1. InCall(c) /\ InCall(c)' /\ Waited(c)' = Waited(c)
    BY <1>1, <1>2 DEF InCall, Waited
  <2>. QED  BY <1>1, <1>2, <2>1, StepInCall
<1>5. PushedOnly'
  <2>1. \A d \in Callers : Unpushed(d)' = Unpushed(d)
    <3>. SUFFICES ASSUME NEW d \in Callers PROVE Unpushed(d)' = Unpushed(d)
      OBVIOUS
    <3>1. CASE d = c
      <4>1. call[c].pc \in {"index", "push"} /\ call'[c].pc \in {"index", "push"}
        BY <1>1, <1>2
      <4>2. call'[c].k = call[c].k /\ call'[c].next = call[c].next
        BY <1>2
      <4>. QED  BY <3>1, <4>1, <4>2 DEF Unpushed
    <3>2. CASE d # c
      <4>1. call'[d] = call[d]
        BY <1>2, <3>2
      <4>. QED  BY <4>1 DEF Unpushed
    <3>. QED  BY <3>1, <3>2
  <2>. QED  BY <1>1, <1>3, <2>1 DEF LifeInv, PushedOnly
<1>6. KidsPost' /\ freed' \subseteq done'
  BY <1>1 DEF LifeInv, KidsPost
<1>. QED  BY <1>3, <1>4, <1>5, <1>6 DEF LifeInv

(* A caller leaves its call: the call of a post at its last sem_post, the  *)
(* call of a wait when all its tasks are done.                             *)
LEMMA LeaveLife ==
  ASSUME TypeInv, LifeInv, NEW c \in Callers, InCall(c),
         UNCHANGED <<queues, made, done, worker>>,
         call' = [call EXCEPT ![c] = NoCall],
         \A d \in Clients \ {c} : wait_sema'[d] = wait_sema[d],
         IsWait[call[c].k] => TasksOf(call[c].k) \subseteq done,
         freed' \subseteq done
  PROVE  LifeInv'
<1>1. /\ call \in [Callers -> CallStates] /\ Clients \subseteq Callers
      /\ call'[c].pc = "idle" /\ call'[c].k = "none" /\ "none" \notin Calls
      /\ \A d \in Callers \ {c} : call'[d] = call[d]
      /\ made \subseteq Calls
  BY PoolAssumption DEF TypeInv, TypeOK, Callers, NoCall
<1>2. PlacesApart' /\ Placed' = Placed
  <2>1. Running' = Running /\ WorkersApart'
    BY RunningSame DEF LifeInv, PlacesApart
  <2>. QED  BY <2>1, PlacesKept
<1>3. CallsApart'
  BY <1>1 DEF LifeInv, CallsApart, InCall
<1>4. PushedOnly'
  <2>1. Unpushed(c)' = {} /\ \A d \in Callers \ {c} : Unpushed(d)' = Unpushed(d)
    BY <1>1 DEF Unpushed
  <2>. QED  BY <1>2, <2>1 DEF LifeInv, PushedOnly
<1>5. WaitsCounted'
  <2>. SUFFICES ASSUME NEW d \in Clients, InCall(d)'
       PROVE  /\ call'[d].pc = "wait" => IsWait[call'[d].k]
                                         /\ call'[d].left \in 1..Len(CallTasks[call'[d].k])
              /\ IsWait[call'[d].k] =>
                   wait_sema'[d] + Waited(d)' = Cardinality(TasksOf(call'[d].k) \cap done)
    BY DEF WaitsCounted, InCall
  <2>1. d # c
    BY <1>1 DEF InCall
  <2>2. /\ call'[d] = call[d] /\ Waited(d)' = Waited(d) /\ InCall(d)
        /\ wait_sema'[d] = wait_sema[d]
    BY <1>1, <2>1 DEF Waited, InCall
  <2>3. /\ call[d].pc = "wait" => IsWait[call[d].k]
                                  /\ call[d].left \in 1..Len(CallTasks[call[d].k])
        /\ InCall(d) /\ IsWait[call[d].k] =>
             wait_sema[d] + Waited(d) = Cardinality(TasksOf(call[d].k) \cap done)
    BY DEF LifeInv, WaitsCounted
  <2>. QED  BY <2>2, <2>3
<1>6. WaitersStay'
  <2>. SUFFICES ASSUME NEW l \in made, IsWait[l], ~(TasksOf(l) \subseteq done)
                PROVE  \E d \in Clients : call'[d].k = l
    BY DEF WaitersStay
  <2>1. PICK d \in Clients : call[d].k = l
    BY DEF LifeInv, WaitersStay
  <2>2. d # c
    BY <2>1
  <2>. QED  BY <1>1, <2>1, <2>2
<1>7. KidsPost'
  BY DEF LifeInv, KidsPost
<1>. QED  BY <1>2, <1>3, <1>4, <1>5, <1>6, <1>7 DEF LifeInv

(* The posts of the pool's semaphore, and the turn to the waits. *)
LEMMA PostLife ==
  ASSUME TypeInv, LifeInv, NEW c \in Callers, PostSema(c)
  PROVE  LifeInv'
<1>. DEFINE k == call[c].k
<1>1. /\ call[c].pc = "post" /\ InCall(c) /\ k \in Calls /\ Len(CallTasks[k]) \in Nat \ {0}
      /\ UNCHANGED <<queues, made, wait_sema, worker, done, freed>>
      /\ call \in [Callers -> CallStates]
  BY PoolAssumption DEF PostSema, TypeInv, TypeOK, CallInv, InCall
<1>2. CASE call' = [call EXCEPT ![c] = NoCall] /\ ~IsWait[k]
  BY <1>1, <1>2, LeaveLife DEF LifeInv
<1>3. ASSUME call'[c].k = k, \A d \in Callers \ {c} : call'[d] = call[d],
             \/ call'[c].pc = "post"
             \/ call'[c].pc = "wait" /\ IsWait[k] /\ call'[c].left = Len(CallTasks[k])
      PROVE  LifeInv'
  <2>1. PlacesApart' /\ Placed' = Placed
    <3>1. Running' = Running /\ WorkersApart'
      BY <1>1, RunningSame DEF LifeInv, PlacesApart
    <3>. QED  BY <1>1, <3>1, PlacesKept
  <2>2. CallsApart' /\ WaitsCounted' /\ WaitersStay'
    <3>1. InCall(c)' /\ Waited(c)' = Waited(c)
      BY <1>1, <1>3 DEF InCall, Waited
    <3>2. call'[c].pc = "wait" => IsWait[k] /\ call'[c].left \in 1..Len(CallTasks[k])
      BY <1>1, <1>3
    <3>. QED  BY <1>1, <1>3, <3>1, <3>2, StepInCall
  <2>3. PushedOnly'
    <3>1. \A d \in Callers : Unpushed(d)' = Unpushed(d)
      <4>1. Unpushed(c) = {} /\ Unpushed(c)' = {}
        BY <1>1, <1>3 DEF Unpushed
      <4>2. \A d \in Callers \ {c} : Unpushed(d)' = Unpushed(d)
        BY <1>3, SameCall
      <4>. QED  BY <4>1, <4>2
    <3>. QED  BY <1>1, <2>1, <3>1 DEF LifeInv, PushedOnly
  <2>4. KidsPost' /\ freed' \subseteq done'
    BY <1>1 DEF LifeInv, KidsPost
  <2>. QED  BY <2>1, <2>2, <2>3, <2>4 DEF LifeInv
<1>4. CASE call[c].left > 1
  <2>1. call' = [call EXCEPT ![c] = [call[c] EXCEPT !.left = call[c].left - 1]]
    BY <1>4 DEF PostSema
  <2>. QED  BY <1>1, <1>3, <2>1 DEF CallStates
<1>5. CASE ~(call[c].left > 1) /\ IsWait[k]
  <2>1. call' = [call EXCEPT ![c] = [call[c] EXCEPT !.pc = "wait", !.left = Len(CallTasks[k])]]
    BY <1>5 DEF PostSema
  <2>. QED  BY <1>1, <1>3, <1>5, <2>1 DEF CallStates
<1>6. CASE ~(call[c].left > 1) /\ ~IsWait[k]
  BY <1>2, <1>6 DEF PostSema
<1>. QED  BY <1>4, <1>5, <1>6

(* A wait: before the last one every task counted is done, so the client   *)
(* destroys nothing a worker still has.                                    *)
LEMMA WaitLife ==
  ASSUME TypeInv, LifeInv, NEW c \in Callers, WaitOne(c)
  PROVE  LifeInv'
<1>. DEFINE k == call[c].k
            len == Len(CallTasks[k])
            n == Cardinality(TasksOf(k) \cap done)
<1>1. /\ c \in Clients /\ call[c].pc = "wait" /\ InCall(c) /\ k \in Calls
      /\ UNCHANGED <<queues, made, worker, done>>
      /\ call \in [Callers -> CallStates] /\ wait_sema \in [Clients -> Nat]
      /\ wait_sema[c] > 0 /\ wait_sema' = [wait_sema EXCEPT ![c] = wait_sema[c] - 1]
  BY DEF WaitOne, TypeInv, TypeOK, CallInv, InCall, poolVars
<1>2. /\ IsWait[k] /\ call[c].left \in 1..len /\ len \in Nat /\ n \in Nat /\ n <= len
      /\ wait_sema[c] + (len - call[c].left) = n
  BY <1>1, TaskCalls, DoneFinite DEF LifeInv, WaitsCounted, Waited
<1>3. CASE call[c].left > 1
  <2>1. /\ call'[c].k = k /\ call'[c].pc = "wait" /\ call'[c].left = call[c].left - 1
        /\ \A d \in Callers \ {c} : call'[d] = call[d]
        /\ freed' = freed /\ Clients \subseteq Callers
    BY <1>1, <1>3 DEF WaitOne, CallStates, Callers
  <2>2. PlacesApart' /\ Placed' = Placed
    <3>1. Running' = Running /\ WorkersApart'
      BY <1>1, RunningSame DEF LifeInv, PlacesApart
    <3>. QED  BY <1>1, <3>1, PlacesKept
  <2>3. \A d \in Callers : call'[d].k = call[d].k /\ (InCall(d)' <=> InCall(d))
    BY <1>1, <2>1 DEF InCall
  <2>4. CallsApart' /\ WaitersStay'
    BY <1>1, <2>1, <2>3 DEF LifeInv, CallsApart, WaitersStay
  <2>5. WaitsCounted'
    <3>. SUFFICES ASSUME NEW d \in Clients
         PROVE  /\ call'[d].pc = "wait" => IsWait[call'[d].k]
                                           /\ call'[d].left \in 1..Len(CallTasks[call'[d].k])
                /\ InCall(d)' /\ IsWait[call'[d].k] =>
                     wait_sema'[d] + Waited(d)' = Cardinality(TasksOf(call'[d].k) \cap done')
      BY DEF WaitsCounted
    <3>1. CASE d = c
      <4>1. call'[d].k = k /\ IsWait[k] /\ call'[d].left \in 1..len
        BY <1>2, <1>3, <2>1, <3>1
      <4>2. wait_sema'[d] = wait_sema[c] - 1 /\ Waited(d)' = len - (call[c].left - 1)
        BY <1>1, <2>1, <3>1 DEF Waited
      <4>3. wait_sema'[d] + Waited(d)' = n
        BY <1>1, <1>2, <4>2
      <4>4. Cardinality(TasksOf(call'[d].k) \cap done') = n
        BY <1>1, <4>1
      <4>. QED  BY <4>1, <4>3, <4>4
    <3>2. CASE d # c
      <4>1. /\ call'[d] = call[d] /\ Waited(d)' = Waited(d) /\ (InCall(d)' <=> InCall(d))
            /\ wait_sema'[d] = wait_sema[d]
        BY <1>1, <2>1, <3>2 DEF Waited, InCall
      <4>2. /\ call[d].pc = "wait" => IsWait[call[d].k]
                                      /\ call[d].left \in 1..Len(CallTasks[call[d].k])
            /\ InCall(d) /\ IsWait[call[d].k] =>
                 wait_sema[d] + Waited(d) = Cardinality(TasksOf(call[d].k) \cap done)
        BY DEF LifeInv, WaitsCounted
      <4>. QED  BY <1>1, <4>1, <4>2
    <3>. QED  BY <3>1, <3>2
  <2>6. PushedOnly'
    <3>1. \A d \in Callers : Unpushed(d)' = Unpushed(d)
      <4>1. Unpushed(c) = {} /\ Unpushed(c)' = {}
        BY <1>1, <2>1 DEF Unpushed
      <4>2. \A d \in Callers \ {c} : Unpushed(d)' = Unpushed(d)
        BY <2>1, SameCall
      <4>. QED  BY <4>1, <4>2
    <3>. QED  BY <1>1, <2>2, <3>1 DEF LifeInv, PushedOnly
  <2>7. KidsPost' /\ freed' \subseteq done'
    BY <1>1, <2>1 DEF LifeInv, KidsPost
  <2>. QED  BY <2>2, <2>4, <2>5, <2>6, <2>7 DEF LifeInv
<1>4. CASE ~(call[c].left > 1)
  <2>1. call' = [call EXCEPT ![c] = NoCall] /\ freed' = freed \cup TasksOf(k)
    BY <1>4 DEF WaitOne, TasksOf
  <2>2. n = len
    BY <1>1, <1>2, <1>4
  <2>3. TasksOf(k) \subseteq done
    BY <1>1, <2>2, DoneFinite
  <2>4. \A d \in Clients \ {c} : wait_sema'[d] = wait_sema[d]
    BY <1>1
  <2>. QED  BY <1>1, <2>1, <2>3, <2>4, LeaveLife DEF LifeInv
<1>. QED  BY <1>3, <1>4

-----------------------------------------------------------------------------
(* A wake-up and a search that goes on move no task. *)
LEMMA SearchLife ==
  ASSUME TypeInv, LifeInv, NEW w \in Workers, Wake(w) \/ SearchMiss(w)
  PROVE  LifeInv'
<1>1. /\ UNCHANGED <<queues, call, made, wait_sema, done, freed>>
      /\ worker \in [Workers -> WorkerStates]
      /\ worker[w].pc # "run" /\ worker'[w].pc # "run"
      /\ worker'[w].kids = worker[w].kids \/ worker'[w].kids = <<>>
      /\ \A v \in Workers \ {w} : worker'[v] = worker[v]
  BY DEF Wake, SearchMiss, callVars, poolVars, TypeInv, TypeOK, WorkerStates, Asleep
<1>2. Running' = Running /\ WorkersApart'
  BY <1>1, RunningSame DEF LifeInv, PlacesApart
<1>3. PlacesApart' /\ Placed' = Placed
  BY <1>1, <1>2, PlacesKept
<1>4. CallsApart' /\ PushedOnly' /\ WaitsCounted' /\ WaitersStay'
  BY <1>1, <1>3, CallsKept
<1>5. KidsPost'
  <2>1. Len(<<>>) = 0
    OBVIOUS
  <2>2. \A i \in 1..Len(worker'[w].kids) : worker'[w].kids[i] \in ChildCalls
    BY <1>1, <2>1 DEF LifeInv, KidsPost
  <2>3. \A v \in Workers \ {w} : \A i \in 1..Len(worker'[v].kids) :
          worker'[v].kids[i] \in ChildCalls
    BY <1>1 DEF LifeInv, KidsPost
  <2>. QED  BY <2>2, <2>3 DEF KidsPost
<1>. QED  BY <1>1, <1>3, <1>4, <1>5 DEF LifeInv

(* A task that is found goes from its queue to the worker. *)
LEMMA HitLife ==
  ASSUME TypeInv, LifeInv, NEW w \in Workers, SearchHit(w)
  PROVE  LifeInv'
<1>. DEFINE s == worker[w].slot
            t == Head(queues[s])
<1>1. /\ UNCHANGED <<call, made, wait_sema, done, freed>>
      /\ worker \in [Workers -> WorkerStates] /\ queues \in [Slots -> Seq(Tasks)]
      /\ s \in Slots /\ queues[s] # <<>> /\ queues' = [queues EXCEPT ![s] = Tail(@)]
      /\ worker[w].pc = "search" /\ worker'[w].pc = "run" /\ worker'[w].task = t
      /\ worker'[w].kids = Children[t]
      /\ \A v \in Workers \ {w} : worker'[v] = worker[v]
  BY DEF SearchHit, callVars, TypeInv, TypeOK, WorkerStates, Asleep
<1>2. t \in Tasks
  BY <1>1, HeadTailProperties
<1>3. /\ t \in QueuedIn(queues) /\ QueuedIn(queues') = QueuedIn(queues) \ {t}
      /\ ApartIn(queues')
  <2>1. ApartIn(queues)
    BY DEF LifeInv, PlacesApart, QueuesApart, ApartIn
  <2>. QED  BY <1>1, <2>1, PopQueued
<1>4. t \in Queued /\ Queued' = Queued \ {t} /\ QueuesApart'
  BY <1>3 DEF Queued, QueuedIn, QueuesApart, ApartIn
<1>5. t \notin Running /\ t \notin done
  BY <1>4 DEF LifeInv, PlacesApart
<1>. HIDE DEF t
<1>6. Running' = Running \cup {t} /\ WorkersApart'
  BY <1>1, <1>5, RunningTakes DEF LifeInv, PlacesApart
<1>7. PlacesApart'
  BY <1>1, <1>4, <1>5, <1>6 DEF LifeInv, PlacesApart
<1>8. Placed' = Placed
  BY <1>1, <1>4, <1>6 DEF Placed
<1>9. CallsApart' /\ PushedOnly' /\ WaitsCounted' /\ WaitersStay'
  BY <1>1, <1>8, CallsKept
<1>10. KidsPost'
  <2>1. \A i \in 1..Len(Children[t]) : Children[t][i] \in ChildCalls
    <3>1. DOMAIN Children[t] = 1..Len(Children[t])
      BY <1>2, PoolAssumption
    <3>. QED  BY <1>2, <3>1 DEF ChildCalls, Elems
  <2>. QED  BY <1>1, <2>1 DEF LifeInv, KidsPost
<1>. QED  BY <1>1, <1>7, <1>9, <1>10 DEF LifeInv

(* A task under execution posts: a call of a worker, which waits for none. *)
LEMMA SpawnLife ==
  ASSUME TypeInv, LifeInv, NEW w \in Workers, Spawn(w)
  PROVE  LifeInv'
<1>. DEFINE kids == worker[w].kids
<1>1. /\ UNCHANGED <<queues, wait_sema, done, freed>> /\ kids \in Seq(Calls) /\ kids # <<>>
      /\ Enter(w, Head(kids)) /\ w \in Callers /\ w \notin Clients
      /\ worker \in [Workers -> WorkerStates]
      /\ worker' = [worker EXCEPT ![w].kids = Tail(@)]
  <2>1. w \in Int
    BY PoolAssumption DEF Workers
  <2>. QED
    BY <2>1, PoolAssumption DEF Spawn, poolVars, TypeInv, TypeOK, WorkerStates, Callers
<1>2. /\ Head(kids) = kids[1] /\ 1 \in 1..Len(kids) /\ Head(kids) \in Calls
      /\ Tail(kids) \in Seq(Calls) /\ Len(Tail(kids)) = Len(kids) - 1
      /\ \A i \in 1..Len(kids) - 1 : Tail(kids)[i] = kids[i + 1] /\ i + 1 \in 1..Len(kids)
  BY <1>1, HeadTailProperties
<1>3. Head(kids) \in ChildCalls /\ ~IsWait[Head(kids)]
  BY SMTT(30), <1>2, PoolAssumption DEF LifeInv, KidsPost
<1>4. /\ \A v \in Workers : worker'[v].pc = worker[v].pc /\ worker'[v].task = worker[v].task
      /\ worker'[w].kids = Tail(kids) /\ \A v \in Workers \ {w} : worker'[v] = worker[v]
  BY <1>1 DEF WorkerStates
<1>5. Running' = Running /\ WorkersApart'
  BY <1>4, RunningSame DEF LifeInv, PlacesApart
<1>6. PlacesApart' /\ Placed' = Placed
  BY <1>1, <1>5, PlacesKept
<1>7. CallsApart' /\ PushedOnly' /\ WaitsCounted' /\ WaitersStay'
  BY <1>1, <1>2, <1>3, <1>6, EnterLife
<1>8. KidsPost'
  <2>1. \A i \in 1..Len(Tail(kids)) : Tail(kids)[i] \in ChildCalls
    BY <1>2 DEF LifeInv, KidsPost
  <2>2. \A i \in 1..Len(worker'[w].kids) : worker'[w].kids[i] \in ChildCalls
    BY <1>4, <2>1
  <2>3. \A v \in Workers \ {w} : \A i \in 1..Len(worker'[v].kids) :
          worker'[v].kids[i] \in ChildCalls
    BY <1>4 DEF LifeInv, KidsPost
  <2>. QED  BY <2>2, <2>3 DEF KidsPost
<1>. QED  BY <1>1, <1>6, <1>7, <1>8 DEF LifeInv

(* A task that ends is done; if it is waited for, the client of its call   *)
(* is woken once more.                                                     *)
LEMMA FinishLife ==
  ASSUME TypeInv, LifeInv, NEW w \in Workers, FinishTask(w)
  PROVE  LifeInv'
<1>. DEFINE t == worker[w].task
            k == CallOf(t)
<1>1. /\ UNCHANGED <<queues, call, made>> /\ done' = done \cup {t}
      /\ worker \in [Workers -> WorkerStates] /\ call \in [Callers -> CallStates]
      /\ wait_sema \in [Clients -> Nat] /\ Clients \subseteq Callers
      /\ worker[w].pc = "run" /\ worker'[w].pc = "sleep" /\ worker'[w].kids = <<>>
      /\ \A v \in Workers \ {w} : worker'[v] = worker[v]
      /\ t \in Tasks /\ freed' \subseteq freed \cup {t}
  BY DEF FinishTask, poolVars, TypeInv, TypeOK, WorkerInv, Asleep, Callers
<1>2. k \in Calls /\ t \in TasksOf(k)
  <2>1. PICK l \in Calls : t \in TasksOf(l)
    BY <1>1, PoolAssumption DEF TasksOf
  <2>. QED  BY <2>1, TaskCalls
<1>3. t \in Running /\ Running' = Running \ {t} /\ WorkersApart'
  BY <1>1, RunningEnds DEF LifeInv, PlacesApart
<1>4. t \notin Queued /\ t \notin done
  BY <1>3 DEF LifeInv, PlacesApart
<1>. HIDE DEF t, k
<1>5. Queued' = Queued /\ QueuesApart'
  BY <1>1 DEF LifeInv, PlacesApart, Queued, QueuesApart
<1>6. PlacesApart'
  BY <1>1, <1>3, <1>4, <1>5 DEF LifeInv, PlacesApart
<1>7. Placed' = Placed
  BY <1>1, <1>3, <1>5 DEF Placed
<1>8. CallsApart' /\ PushedOnly'
  <2>1. \A d \in Callers : Unpushed(d)' = Unpushed(d) /\ (InCall(d)' <=> InCall(d))
    BY <1>1, SameCall
  <2>2. CallsApart'
    BY <1>1, <2>1 DEF LifeInv, CallsApart
  <2>. QED  BY <1>1, <1>7, <2>1, <2>2 DEF LifeInv, PushedOnly
<1>9. WaitersStay'
  BY <1>1 DEF LifeInv, WaitersStay
<1>10. WaitsCounted'
  <2>. SUFFICES ASSUME NEW d \in Clients
       PROVE  /\ call'[d].pc = "wait" => IsWait[call'[d].k]
                                         /\ call'[d].left \in 1..Len(CallTasks[call'[d].k])
              /\ InCall(d)' /\ IsWait[call'[d].k] =>
                   wait_sema'[d] + Waited(d)' = Cardinality(TasksOf(call'[d].k) \cap done')
    BY DEF WaitsCounted
  <2>. DEFINE l == call[d].k
  <2>1. /\ call' = call /\ Waited(d)' = Waited(d) /\ (InCall(d)' <=> InCall(d))
        /\ d \in Callers
    BY <1>1, SameCall
  <2>2. /\ call[d].pc = "wait" => IsWait[l] /\ call[d].left \in 1..Len(CallTasks[l])
        /\ InCall(d) /\ IsWait[l] =>
             wait_sema[d] + Waited(d) = Cardinality(TasksOf(l) \cap done)
    BY DEF LifeInv, WaitsCounted
  <2>3. ASSUME InCall(d), IsWait[l]
        PROVE  wait_sema'[d] + Waited(d) = Cardinality(TasksOf(l) \cap done')
    <3>1. l \in Calls /\ wait_sema[d] \in Nat /\ Waited(d) \in Int
      BY <1>1, <2>1, <2>3, TaskCalls DEF TypeInv, CallInv, InCall, Waited, CallStates
    <3>2. CASE l = k
      <4>1. wait_sema'[d] = wait_sema[d] + 1
        BY <1>1, <2>3, <3>2 DEF FinishTask, Waiter, t, k
      <4>2. TasksOf(l) \cap done' = (TasksOf(l) \cap done) \cup {t}
        BY <1>1, <1>2, <3>2
      <4>3. t \notin TasksOf(l) \cap done
        BY <1>4
      <4>4. /\ IsFiniteSet(TasksOf(l) \cap done)
            /\ Cardinality(TasksOf(l) \cap done) \in Nat
        BY <3>1, DoneFinite
      <4>5. Cardinality((TasksOf(l) \cap done) \cup {t}) = Cardinality(TasksOf(l) \cap done) + 1
        BY <4>3, <4>4, FS_AddElement
      <4>6. wait_sema[d] + Waited(d) = Cardinality(TasksOf(l) \cap done)
        BY <2>2, <2>3
      <4>7. Cardinality(TasksOf(l) \cap done') = Cardinality(TasksOf(l) \cap done) + 1
        BY <4>2, <4>5
      <4>. HIDE DEF l
      <4>. QED  BY <3>1, <4>1, <4>6, <4>7
    <3>3. CASE l # k
      <4>1. wait_sema'[d] = wait_sema[d]
        BY <1>1, <3>3 DEF FinishTask, Waiter, t, k
      <4>2. t \notin TasksOf(l)
        BY <3>1, <3>3, TaskCalls DEF k
      <4>3. TasksOf(l) \cap done' = TasksOf(l) \cap done
        BY <1>1, <4>2
      <4>. QED  BY <2>2, <2>3, <4>1, <4>3
    <3>. QED  BY <3>2, <3>3
  <2>. QED  BY <2>1, <2>2, <2>3
<1>11. KidsPost'
  <2>1. Len(<<>>) = 0
    OBVIOUS
  <2>. QED  BY <1>1, <2>1 DEF LifeInv, KidsPost
<1>. QED  BY <1>1, <1>6, <1>8, <1>9, <1>10, <1>11 DEF LifeInv

(* A client makes a call. *)
LEMMA ClientLife ==
  ASSUME TypeInv, LifeInv, NEW c \in Clients, NEW k \in Calls, ClientCall(c, k)
  PROVE  LifeInv'
<1>1. /\ UNCHANGED <<queues, worker, done, freed>> /\ Enter(c, k) /\ c \in Callers
      /\ wait_sema' = [wait_sema EXCEPT ![c] = 0]
  BY DEF ClientCall, poolVars, Callers
<1>2. Running' = Running /\ WorkersApart'
  BY <1>1, RunningSame DEF LifeInv, PlacesApart
<1>3. PlacesApart' /\ Placed' = Placed
  BY <1>1, <1>2, PlacesKept
<1>4. CallsApart' /\ PushedOnly' /\ WaitsCounted' /\ WaitersStay'
  BY <1>1, <1>3, EnterLife
<1>. QED  BY <1>1, <1>3, <1>4 DEF LifeInv, KidsPost

-----------------------------------------------------------------------------
(* At the start no call is made and every queue is empty. *)
LEMMA LifeInit == Init => LifeInv
<1>. SUFFICES ASSUME Init PROVE LifeInv
  OBVIOUS
<1>1. Len(<<>>) = 0 /\ DOMAIN <<>> = {}
  OBVIOUS
<1>2. Queued = {} /\ Running = {} /\ done = {}
  BY <1>1 DEF Init, Queued, Elems, Running, Asleep
<1>3. PlacesApart
  BY <1>1, <1>2 DEF Init, PlacesApart, QueuesApart, WorkersApart, Asleep
<1>4. \A c \in Callers : call[c].pc = "idle" /\ call[c].k = "none"
  BY DEF Init, NoCall
<1>5. CallsApart /\ PushedOnly /\ WaitsCounted
  BY <1>2, <1>4 DEF CallsApart, PushedOnly, Placed, WaitsCounted, InCall, Callers
<1>6. WaitersStay /\ KidsPost /\ freed \subseteq done
  BY <1>1 DEF Init, WaitersStay, KidsPost, Asleep
<1>. QED  BY <1>3, <1>5, <1>6 DEF LifeInv

(* Every step keeps the tasks apart and their clients waiting. *)
LEMMA LifeStep == TypeInv /\ LifeInv /\ [Next]_vars => LifeInv'
<1>. SUFFICES ASSUME TypeInv, LifeInv, [Next]_vars PROVE LifeInv'
  OBVIOUS
<1>1. CASE UNCHANGED vars
  <2>1. UNCHANGED <<queues, call, made, wait_sema, worker, done, freed>>
    BY <1>1 DEF vars, poolVars, callVars
  <2>2. Running' = Running /\ WorkersApart'
    BY <2>1, RunningSame DEF LifeInv, PlacesApart
  <2>3. PlacesApart' /\ Placed' = Placed
    BY <2>1, <2>2, PlacesKept
  <2>4. CallsApart' /\ PushedOnly' /\ WaitsCounted' /\ WaitersStay'
    BY <2>1, <2>3, CallsKept
  <2>. QED  BY <2>1, <2>3, <2>4 DEF LifeInv, KidsPost
<1>. QED
  BY <1>1, ClientLife, PickLife, PushLife, PostLife, WaitLife, SearchLife, HitLife,
     SpawnLife, FinishLife DEF Next, CallStep, WorkerStep

(* For every number of workers, every set of calls and every schedule: a   *)
(* task in a queue or with a worker is not freed - neither by the worker   *)
(* that destroys a TASK_FIREFORGET task nor by the client that destroys    *)
(* the tasks it waited for - and no two workers have the same task.        *)
THEOREM TasksNotFreed == Spec => []NoUseAfterFree
<1>1. LifeInv => NoUseAfterFree
  BY DEF LifeInv, PlacesApart, WorkersApart, NoUseAfterFree
<1>. QED  BY <1>1, TypeInit, TypeStep, LifeInit, LifeStep, PTL DEF Spec

(* And a task that is waited for has its client still inside the call,     *)
(* with a wait left for it: the worker posts a semaphore that is there.    *)
THEOREM SemaphoreThere == Spec => []WaitSemaAlive
<1>1. TypeInv /\ LifeInv => WaitSemaAlive
  <2>. SUFFICES ASSUME TypeInv, LifeInv, NEW t \in Queued \cup Running, IsWait[CallOf(t)]
       PROVE  \E c \in Waiter(t) : call[c].pc = "wait" => wait_sema[c] < call[c].left
    BY DEF WaitSemaAlive
  <2>. DEFINE k == CallOf(t)
  <2>1. k \in made /\ t \notin done /\ k \in Calls
    BY DEF LifeInv, PushedOnly, Placed, PlacesApart, TypeInv, TypeOK
  <2>2. t \in TasksOf(k)
    <3>1. t \in Tasks
      <4>1. t \in Queued => t \in Tasks
        BY DEF Queued, Elems, TypeInv, TypeOK
      <4>2. t \in Running => t \in Tasks
        BY DEF Running, TypeInv, WorkerInv
      <4>. QED  BY <4>1, <4>2
    <3>2. PICK l \in Calls : t \in TasksOf(l)
      BY <3>1, PoolAssumption DEF TasksOf
    <3>. QED  BY <3>2, TaskCalls
  <2>3. PICK c \in Clients : call[c].k = k
    BY <2>1, <2>2 DEF LifeInv, WaitersStay
  <2>4. c \in Waiter(t) /\ c \in Callers /\ InCall(c)
    BY <2>1, <2>3, PoolAssumption DEF Waiter, Callers, LifeInv, CallsApart
  <2>5. ASSUME call[c].pc = "wait" PROVE wait_sema[c] < call[c].left
    <3>. DEFINE len == Len(CallTasks[k])
                n == Cardinality(TasksOf(k) \cap done)
    <3>1. /\ wait_sema[c] + (len - call[c].left) = n /\ call[c].left \in 1..len
          /\ wait_sema[c] \in Nat
      BY <2>3, <2>4, <2>5 DEF LifeInv, WaitsCounted, Waited, TypeInv, TypeOK
    <3>2. n \in Nat /\ n <= len /\ n # len /\ len \in Nat
      BY <2>1, <2>2, DoneFinite, TaskCalls
    <3>. QED  BY <3>1, <3>2
  <2>. QED  BY <2>4, <2>5
<1>. QED  BY <1>1, TypeInit, TypeStep, LifeInit, LifeStep, PTL DEF Spec

-----------------------------------------------------------------------------
(* The pool refines the bag of TaskBag: the safety part of ImplementsBag.  *)

(* A worker that executes nothing leaves room for a task among the others. *)
LEMMA WorkerIsFree ==
  ASSUME TypeInv, NEW w \in Workers, worker[w].pc # "run"
  PROVE  Bag!Cardinality(Running) < NumThreads
<1>. DEFINE busy == {v \in Workers : worker[v].pc = "run"}
            f    == [v \in busy |-> worker[v].task]
<1>1. IsFiniteSet(Workers) /\ Cardinality(Workers) = NumThreads
  <2>1. NumThreads \in Nat \ {0}
    BY PoolAssumption
  <2>2. /\ IsFiniteSet(0..NumThreads - 1)
        /\ Cardinality(0..NumThreads - 1) =
             IF 0 > NumThreads - 1 THEN 0 ELSE NumThreads - 1 - 0 + 1
    BY <2>1, FS_Interval
  <2>. QED  BY <2>1, <2>2 DEF Workers
<1>2. IsFiniteSet(busy) /\ Cardinality(busy) < NumThreads
  <2>1. busy \subseteq Workers /\ busy # Workers
    OBVIOUS
  <2>2. /\ IsFiniteSet(busy) /\ Cardinality(busy) <= Cardinality(Workers)
        /\ Cardinality(busy) = Cardinality(Workers) => busy = Workers
    BY <1>1, <2>1, FS_Subset
  <2>3. Cardinality(busy) \in Nat /\ NumThreads \in Nat
    BY <2>2, FS_CardinalityType, PoolAssumption
  <2>. QED  BY <1>1, <2>1, <2>2, <2>3
<1>3. f \in Surjection(busy, Running)
  BY DEF Running, Surjection
<1>4. /\ IsFiniteSet(Running) /\ Cardinality(Running) <= Cardinality(busy)
      /\ Cardinality(Running) \in Nat /\ Cardinality(busy) \in Nat /\ NumThreads \in Nat
  <2>. HIDE DEF busy, f
  <2>. QED  BY <1>2, <1>3, FS_Surjection, FS_CardinalityType, PoolAssumption
<1>5. Bag!Cardinality(Running) = Cardinality(Running)
  BY DEF Bag!Cardinality, Cardinality
<1>. QED  BY <1>2, <1>4, <1>5

(* The push under the lock hands the task in. *)
LEMMA PushSubmits ==
  ASSUME TypeInv, LifeInv, NEW c \in Callers, PushTask(c)
  PROVE  Bag!Next
<1>. DEFINE k == call[c].k
            n == call[c].next
            t == CallTasks[k][n]
<1>1. /\ k \in Calls /\ n \in 1..Len(CallTasks[k]) /\ call[c].slot \in Slots
      /\ call[c].pc = "push" /\ queues \in [Slots -> Seq(Tasks)]
      /\ queues' = [queues EXCEPT ![call[c].slot] = Append(@, t)]
      /\ UNCHANGED <<worker, done>>
  BY DEF PushTask, TypeInv, TypeOK, CallInv, CallStates
<1>2. t \in Tasks /\ t \in Unpushed(c)
  <2>1. CallTasks[k] \in Seq(Tasks) /\ Len(CallTasks[k]) \in Nat
    BY <1>1, TaskCalls
  <2>2. t \in Tasks /\ n \in n..Len(CallTasks[k])
    BY <1>1, <2>1
  <2>. QED  BY <1>1, <2>2 DEF Unpushed
<1>3. t \notin Placed
  BY <1>2 DEF LifeInv, PushedOnly
<1>. HIDE DEF t
<1>4. Queued' = Queued \cup {t}
  <2>1. ApartIn(queues) /\ t \notin QueuedIn(queues)
    BY <1>3 DEF LifeInv, PlacesApart, QueuesApart, ApartIn, Placed, Queued, QueuedIn
  <2>2. QueuedIn(queues') = QueuedIn(queues) \cup {t}
    BY <1>1, <1>2, <2>1, PushQueued
  <2>. QED  BY <2>2 DEF Queued, QueuedIn
<1>5. Running' = Running
  BY <1>1 DEF Running
<1>6. Bag!Submit(t)
  BY <1>1, <1>3, <1>4, <1>5 DEF Bag!Submit, Placed
<1>. QED  BY <1>2, <1>6 DEF Bag!Next

(* A search that finds a task starts it. *)
LEMMA HitStarts ==
  ASSUME TypeInv, LifeInv, NEW w \in Workers, SearchHit(w)
  PROVE  Bag!Next
<1>. DEFINE s == worker[w].slot
            t == Head(queues[s])
<1>1. /\ done' = done
      /\ worker \in [Workers -> WorkerStates] /\ queues \in [Slots -> Seq(Tasks)]
      /\ s \in Slots /\ queues[s] # <<>> /\ queues' = [queues EXCEPT ![s] = Tail(@)]
      /\ worker[w].pc = "search" /\ worker'[w].pc = "run" /\ worker'[w].task = t
      /\ \A v \in Workers \ {w} : worker'[v] = worker[v]
  BY DEF SearchHit, TypeInv, TypeOK, WorkerStates, Asleep
<1>2. t \in Tasks
  BY <1>1, HeadTailProperties
<1>3. t \in Queued /\ Queued' = Queued \ {t}
  <2>1. ApartIn(queues)
    BY DEF LifeInv, PlacesApart, QueuesApart, ApartIn
  <2>2. t \in QueuedIn(queues) /\ QueuedIn(queues') = QueuedIn(queues) \ {t}
    BY <1>1, <2>1, PopQueued
  <2>. QED  BY <2>2 DEF Queued, QueuedIn
<1>. HIDE DEF t
<1>4. Running' = Running \cup {t}
  <2>1. t \notin Running
    BY <1>3 DEF LifeInv, PlacesApart
  <2>. QED  BY <1>1, <2>1, RunningTakes DEF LifeInv, PlacesApart
<1>5. Bag!Start(t)
  BY <1>1, <1>3, <1>4, WorkerIsFree DEF Bag!Start
<1>. QED  BY <1>2, <1>5 DEF Bag!Next

(* A task whose execute function returns is finished. *)
LEMMA EndFinishes ==
  ASSUME TypeInv, LifeInv, NEW w \in Workers, FinishTask(w)
  PROVE  Bag!Next
<1>. DEFINE t == worker[w].task
<1>1. /\ UNCHANGED queues /\ done' = done \cup {t} /\ t \in Tasks
      /\ worker[w].pc = "run" /\ worker'[w].pc # "run"
      /\ \A v \in Workers \ {w} : worker'[v] = worker[v]
  BY DEF FinishTask, poolVars, TypeInv, TypeOK, WorkerInv, Asleep
<1>2. t \in Running /\ Running' = Running \ {t}
  BY <1>1, RunningEnds DEF LifeInv, PlacesApart
<1>3. Queued' = Queued
  BY <1>1 DEF Queued
<1>4. Bag!Finish(t)
  BY <1>1, <1>2, <1>3 DEF Bag!Finish
<1>. QED  BY <1>1, <1>4 DEF Bag!Next

(* Every other step is one the bag does not see. *)
LEMMA PoolStep == TypeInv /\ LifeInv /\ [Next]_vars => [Bag!Next]_Bag!bagVars
<1>. SUFFICES ASSUME TypeInv, LifeInv, [Next]_vars PROVE [Bag!Next]_Bag!bagVars
  OBVIOUS
<1>1. ASSUME UNCHANGED <<queues, done>>,
             \A v \in Workers : /\ worker'[v].pc = "run" <=> worker[v].pc = "run"
                                /\ worker[v].pc = "run" => worker'[v].task = worker[v].task
      PROVE  UNCHANGED Bag!bagVars
  <2>1. Running' = Running
    BY <1>1, RunningSame DEF LifeInv, PlacesApart
  <2>. QED  BY <1>1, <2>1 DEF Bag!bagVars, Queued
<1>2. ASSUME NEW c \in Callers, PickQueue(c) \/ PostSema(c) \/ WaitOne(c)
      PROVE  UNCHANGED Bag!bagVars
  BY <1>1, <1>2 DEF PickQueue, PostSema, WaitOne, poolVars
<1>3. ASSUME NEW c \in Clients, NEW k \in Calls, ClientCall(c, k)
      PROVE  UNCHANGED Bag!bagVars
  BY <1>1, <1>3 DEF ClientCall, poolVars
<1>4. ASSUME NEW w \in Workers, Wake(w) \/ SearchMiss(w) \/ Spawn(w)
      PROVE  UNCHANGED Bag!bagVars
  <2>1. UNCHANGED <<queues, done>> /\ worker \in [Workers -> WorkerStates]
    BY <1>4 DEF Wake, SearchMiss, Spawn, poolVars, TypeInv, TypeOK
  <2>2. /\ worker'[w].pc = "run" <=> worker[w].pc = "run"
        /\ worker[w].pc = "run" => worker'[w].task = worker[w].task
    BY <1>4, <2>1 DEF Wake, SearchMiss, Spawn, WorkerStates, Asleep
  <2>3. \A v \in Workers \ {w} : worker'[v] = worker[v]
    BY <1>4, <2>1 DEF Wake, SearchMiss, Spawn
  <2>. QED  BY <1>1, <2>1, <2>2, <2>3
<1>5. CASE UNCHANGED vars
  BY <1>1, <1>5 DEF vars, poolVars
<1>. QED
  BY <1>2, <1>3, <1>4, <1>5, PushSubmits, HitStarts, EndFinishes
     DEF Next, CallStep, WorkerStep

(* For every number of workers, every set of calls and every schedule: a   *)
(* task enters the pool once, by the push of its own call, is taken by one *)
(* worker that was free, and is done once, when that worker returns from   *)
(* it.  The refinement of TaskBag but for its fairness.                    *)
THEOREM PoolIsBag == Spec => Bag!Init /\ [][Bag!Next]_Bag!bagVars
<1>1. Init => Bag!Init
  <2>. SUFFICES ASSUME Init PROVE Queued = {} /\ Running = {} /\ done = {}
    BY DEF Bag!Init
  <2>1. DOMAIN <<>> = {}
    OBVIOUS
  <2>. QED  BY <2>1 DEF Init, Queued, Elems, Running, Asleep
<1>. QED  BY <1>1, TypeInit, TypeStep, LifeInit, LifeStep, PoolStep, PTL DEF Spec
=============================================================================
