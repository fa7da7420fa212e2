----------------------------- MODULE TaskPool -----------------------------
(***************************************************************************)
(* The task pool (taskpool.c): a locked queue per priority and worker, one *)
(* semaphore for all of them, and workers that take a wake-up first and    *)
(* then search the queues one lock at a time.                              *)
(*                                                                         *)
(* A call is one taskpool_post or taskpool_wait_all (taskpool_wait is a    *)
(* call of one task): a sequence of tasks with a priority.  Root calls are *)
(* made by the clients, the HTTP and main threads; the others are the      *)
(* posts a task makes while it executes, in the order of Children.         *)
(***************************************************************************)
EXTENDS Integers, Sequences, FiniteSets

CONSTANTS
  NumThreads,   (* num_threads *)
  Clients,      (* the threads outside the pool *)
  Tasks, Calls,
  CallTasks,    (* the tasks of each call *)
  Priority,     (* 0 is TP_HIGH, 1 TP_MED, 2 TP_LOW *)
  IsWait,       (* does the call wait for its tasks? *)
  Children      (* the calls each task makes *)

Workers == 0..NumThreads - 1
Callers == Workers \cup Clients
Slots   == 0..3 * NumThreads - 1    (* queues[p][i] is slot p * NumThreads + i *)
Elems(s) == {s[i] : i \in DOMAIN s}

ChildCalls == UNION {Elems(Children[t]) : t \in Tasks}
RootCalls  == Calls \ ChildCalls
CallOf(t)  == CHOOSE k \in Calls : t \in Elems(CallTasks[k])

(* A task belongs to one call, a call is made in one place, and no task of *)
(* the program waits for another one.                                      *)
ASSUME PoolAssumption ==
  /\ NumThreads \in Nat \ {0}
  /\ Clients \cap Int = {}
  /\ "none" \notin Calls \cup Tasks
  /\ CallTasks \in [Calls -> Seq(Tasks)]
  /\ Priority \in [Calls -> 0..2]
  /\ IsWait \in [Calls -> BOOLEAN]
  /\ Children \in [Tasks -> Seq(Calls)]
  /\ \A t \in Tasks : \E k \in Calls : t \in Elems(CallTasks[k])
  /\ \A k \in Calls : /\ Len(CallTasks[k]) > 0
                      /\ ~IsWait[k] => Len(CallTasks[k]) = 1
                      /\ k \in ChildCalls => ~IsWait[k]

(* Every post creates the tasks it hands in: none is handed in twice.      *)
ASSUME FreshTasksAssumption ==
  \A k, l \in Calls : \A i \in DOMAIN CallTasks[k], j \in DOMAIN CallTasks[l] :
    CallTasks[k][i] = CallTasks[l][j] => k = l /\ i = j

VARIABLES
  queues, sema, insert_idx,
  call,        (* per caller: the call it is in *)
  made,        (* calls begun so far *)
  wait_sema,   (* per client: the semaphore on the stack of its call *)
  worker,      (* per worker: sleeping, searching a slot, or executing *)
  done,        (* tasks that have been executed *)
  freed        (* tasks passed to ts_task_destroy *)

poolVars == <<queues, sema, insert_idx>>
callVars == <<call, made, wait_sema>>
vars == <<poolVars, callVars, worker, done, freed>>

NoCall == [pc |-> "idle", k |-> "none", next |-> 1, left |-> 0, slot |-> 0]
Asleep == [pc |-> "sleep", slot |-> 0, task |-> "none", kids |-> <<>>]

CallStates ==
  [pc : {"idle", "index", "push", "post", "wait"}, k : Calls \cup {"none"},
   next : Nat, left : Nat, slot : Slots]
WorkerStates ==
  [pc : {"sleep", "search", "run"}, slot : Slots, task : Tasks \cup {"none"},
   kids : Seq(Calls)]

TypeOK ==
  /\ queues \in [Slots -> Seq(Tasks)]
  /\ sema \in Nat /\ insert_idx \in Nat
  /\ call \in [Callers -> CallStates]
  /\ made \in SUBSET Calls
  /\ wait_sema \in [Clients -> Nat]
  /\ worker \in [Workers -> WorkerStates]
  /\ done \in SUBSET Tasks /\ freed \in SUBSET Tasks

Init ==
  /\ queues = [s \in Slots |-> <<>>]
  /\ sema = 0 /\ insert_idx = 0
  /\ call = [c \in Callers |-> NoCall]
  /\ made = {}
  /\ wait_sema = [c \in Clients |-> 0]
  /\ worker = [w \in Workers |-> Asleep]
  /\ done = {} /\ freed = {}

-----------------------------------------------------------------------------
(* The callers. *)

(* left: sem_posts owed once the tasks are pushed, then waits to make.     *)
Enter(c, k) ==
  /\ call[c].pc = "idle" /\ k \notin made
  /\ made' = made \cup {k}
  /\ call' = [call EXCEPT ![c] =
       [NoCall EXCEPT !.pc = "index", !.k = k, !.left = Len(CallTasks[k])]]

ClientCall(c, k) ==
  /\ k \in RootCalls
  /\ Enter(c, k)
  /\ wait_sema' = [wait_sema EXCEPT ![c] = 0]
  /\ UNCHANGED <<poolVars, worker, done, freed>>

(* A task under execution makes its next post. *)
Spawn(w) ==
  /\ worker[w].pc = "run" /\ worker[w].kids # <<>>
  /\ Enter(w, Head(worker[w].kids))
  /\ worker' = [worker EXCEPT ![w].kids = Tail(@)]
  /\ UNCHANGED <<poolVars, wait_sema, done, freed>>

(* Mutant: the index is not reduced to the number of queues. *)
PickQueue_NoModulo(c) ==
  /\ call[c].pc = "index"
  /\ insert_idx' = insert_idx + 1
  /\ call' = [call EXCEPT ![c] =
       [@ EXCEPT !.pc = "push",
                 !.slot = Priority[call[c].k] * NumThreads + insert_idx]]
  /\ UNCHANGED <<queues, sema, made, wait_sema, worker, done, freed>>

(* pool_add_task: the atomic increment, then the push under the lock. *)
PickQueue(c) ==
  /\ call[c].pc = "index"
  /\ insert_idx' = insert_idx + 1
  /\ call' = [call EXCEPT ![c] =
       [@ EXCEPT !.pc = "push",
                 !.slot = Priority[call[c].k] * NumThreads + (insert_idx % NumThreads)]]
  /\ UNCHANGED <<queues, sema, made, wait_sema, worker, done, freed>>

PushTask(c) ==
  LET k == call[c].k  n == call[c].next  s == call[c].slot IN
  /\ call[c].pc = "push"
  /\ queues' = [queues EXCEPT ![s] = Append(@, CallTasks[k][n])]
  /\ call' = [call EXCEPT ![c] =
       [@ EXCEPT !.pc = IF n < Len(CallTasks[k]) THEN "index" ELSE "post",
                 !.next = n + 1, !.slot = 0]]
  /\ UNCHANGED <<sema, insert_idx, made, wait_sema, worker, done, freed>>

(* Mutant: one post too many. *)
PostSema_OffByOne(c) ==
  LET k == call[c].k  n == call[c].left IN
  /\ call[c].pc = "post"
  /\ sema' = sema + 1
  /\ call' = [call EXCEPT ![c] =
       IF n > 0 THEN [@ EXCEPT !.left = n - 1]
       ELSE IF IsWait[k] THEN [@ EXCEPT !.pc = "wait", !.left = Len(CallTasks[k])]
       ELSE NoCall]
  /\ UNCHANGED <<queues, insert_idx, made, wait_sema, worker, done, freed>>

(* Mutant: taskpool_wait_all posts once, not once per task. *)
PostSema_Once(c) ==
  LET k == call[c].k IN
  /\ call[c].pc = "post"
  /\ sema' = sema + 1
  /\ call' = [call EXCEPT ![c] =
       IF IsWait[k] THEN [@ EXCEPT !.pc = "wait", !.left = Len(CallTasks[k])]
       ELSE NoCall]
  /\ UNCHANGED <<queues, insert_idx, made, wait_sema, worker, done, freed>>

(* ts_sema_post posts once per task. *)
PostSema(c) ==
  LET k == call[c].k  n == call[c].left IN
  /\ call[c].pc = "post"
  /\ sema' = sema + 1
  /\ call' = [call EXCEPT ![c] =
       IF n > 1 THEN [@ EXCEPT !.left = n - 1]
       ELSE IF IsWait[k] THEN [@ EXCEPT !.pc = "wait", !.left = Len(CallTasks[k])]
       ELSE NoCall]
  /\ UNCHANGED <<queues, insert_idx, made, wait_sema, worker, done, freed>>

(* Mutant: the caller waits for the first task only. *)
WaitOne_First(c) ==
  /\ c \in Clients /\ call[c].pc = "wait"
  /\ wait_sema[c] > 0
  /\ wait_sema' = [wait_sema EXCEPT ![c] = @ - 1]
  /\ call' = [call EXCEPT ![c] = NoCall]
  /\ freed' = freed \cup Elems(CallTasks[call[c].k])
  /\ UNCHANGED <<poolVars, made, worker, done>>

(* One wait of taskpool_wait_all; after the last one the semaphore leaves  *)
(* scope and the caller destroys the tasks.                                *)
WaitOne(c) ==
  /\ c \in Clients /\ call[c].pc = "wait"
  /\ wait_sema[c] > 0
  /\ wait_sema' = [wait_sema EXCEPT ![c] = @ - 1]
  /\ IF call[c].left > 1
       THEN /\ call' = [call EXCEPT ![c].left = @ - 1]
            /\ UNCHANGED freed
       ELSE /\ call' = [call EXCEPT ![c] = NoCall]
            /\ freed' = freed \cup Elems(CallTasks[call[c].k])
  /\ UNCHANGED <<poolVars, made, worker, done>>

-----------------------------------------------------------------------------
(* The workers. *)

Wake(w) ==
  /\ worker[w].pc = "sleep" /\ sema > 0
  /\ sema' = sema - 1
  /\ worker' = [worker EXCEPT ![w] = [Asleep EXCEPT !.pc = "search"]]
  /\ UNCHANGED <<queues, insert_idx, callVars, done, freed>>

(* Mutant: the task stays in the queue. *)
SearchHit_Peek(w) ==
  LET s == worker[w].slot IN
  /\ worker[w].pc = "search" /\ queues[s] # <<>>
  /\ worker' = [worker EXCEPT ![w] =
       [Asleep EXCEPT !.pc = "run", !.task = Head(queues[s]),
                      !.kids = Children[Head(queues[s])]]]
  /\ UNCHANGED <<queues, sema, insert_idx, callVars, done, freed>>

(* get_task, one queue at a time. *)
SearchHit(w) ==
  LET s == worker[w].slot IN
  /\ worker[w].pc = "search" /\ queues[s] # <<>>
  /\ queues' = [queues EXCEPT ![s] = Tail(@)]
  /\ worker' = [worker EXCEPT ![w] =
       [Asleep EXCEPT !.pc = "run", !.task = Head(queues[s]),
                      !.kids = Children[Head(queues[s])]]]
  /\ UNCHANGED <<sema, insert_idx, callVars, done, freed>>

(* Mutant: the search ends before the last priority. *)
SearchMiss_NotLow(w) ==
  LET s == worker[w].slot IN
  /\ worker[w].pc = "search" /\ queues[s] = <<>>
  /\ worker' = [worker EXCEPT ![w] =
       IF s + 1 < 2 * NumThreads THEN [@ EXCEPT !.slot = s + 1] ELSE Asleep]
  /\ UNCHANGED <<poolVars, callVars, done, freed>>

SearchMiss(w) ==
  LET s == worker[w].slot IN
  /\ worker[w].pc = "search" /\ queues[s] = <<>>
  /\ worker' = [worker EXCEPT ![w] =
       IF s + 1 \in Slots THEN [@ EXCEPT !.slot = s + 1] ELSE Asleep]
  /\ UNCHANGED <<poolVars, callVars, done, freed>>

(* The caller whose stack holds the semaphore of a TASK_WAIT task. *)
Waiter(t) == {c \in Clients : call[c].k = CallOf(t)}

(* execute returns: a TASK_FIREFORGET task is destroyed by the worker, a   *)
(* TASK_WAIT task posts the semaphore of its call.                         *)
FinishTask(w) ==
  LET t == worker[w].task IN
  /\ worker[w].pc = "run" /\ worker[w].kids = <<>> /\ call[w].pc = "idle"
  /\ done' = done \cup {t}
  /\ worker' = [worker EXCEPT ![w] = Asleep]
  /\ IF IsWait[CallOf(t)]
       THEN /\ wait_sema' = [c \in Clients |->
                 IF c \in Waiter(t) THEN wait_sema[c] + 1 ELSE wait_sema[c]]
            /\ UNCHANGED freed
       ELSE /\ freed' = freed \cup {t}
            /\ UNCHANGED wait_sema
  /\ UNCHANGED <<poolVars, call, made>>

-----------------------------------------------------------------------------
CallStep(c)   == PickQueue(c) \/ PushTask(c) \/ PostSema(c) \/ WaitOne(c)
WorkerStep(w) == Wake(w) \/ SearchHit(w) \/ SearchMiss(w) \/ Spawn(w) \/ FinishTask(w)

Next ==
  \/ \E c \in Clients, k \in Calls : ClientCall(c, k)
  \/ \E c \in Callers : CallStep(c)
  \/ \E w \in Workers : WorkerStep(w)

Spec == Init /\ [][Next]_vars

(* Threads run; nobody is obliged to make a root call. *)
FairSpec ==
  /\ Spec
  /\ \A c \in Callers : WF_vars(CallStep(c))
  /\ \A w \in Workers : WF_vars(WorkerStep(w))

-----------------------------------------------------------------------------
Queued    == UNION {Elems(queues[s]) : s \in Slots}
Running   == {worker[w].task : w \in {v \in Workers : worker[v].pc = "run"}}
Searching == {w \in Workers : worker[w].pc = "search"}

(* A woken worker never comes back from get_task with nothing: a search    *)
(* that passed a queue before a push is compensated by a task further on.  *)
NoEmptySearch ==
  \A w \in Searching :
    worker[w].slot = 3 * NumThreads - 1 => queues[worker[w].slot] # <<>>

(* NoEmptySearch made inductive.  The searchers at or beyond a slot have   *)
(* as many tasks at or beyond it, and the wake-ups posted or owed are no   *)
(* more than the tasks the searchers leave.                                *)
Owed(c) ==
  IF call[c].pc \in {"index", "push"} THEN call[c].next - 1
  ELSE IF call[c].pc = "post" THEN call[c].left ELSE 0
OwedPosts        == UNION {{c} \X (1..Owed(c)) : c \in Callers}
PlacesFrom(s)    == UNION {{r} \X DOMAIN queues[r] : r \in {q \in Slots : q >= s}}
SearchersFrom(s) == {w \in Searching : worker[w].slot >= s}
SearchInv ==
  /\ \A s \in Slots : Cardinality(SearchersFrom(s)) <= Cardinality(PlacesFrom(s))
  /\ sema + Cardinality(OwedPosts) + Cardinality(Searching)
       <= Cardinality(PlacesFrom(0))

(* When a worker is done with a TASK_WAIT task, the semaphore it posts is  *)
(* the one of a client still inside the call, with a wait left for it.     *)
WaitSemaAlive ==
  \A t \in Queued \cup Running :
    IsWait[CallOf(t)] =>
      \E c \in Waiter(t) : call[c].pc = "wait" => wait_sema[c] < call[c].left

(* A task that can still be reached from a queue or a worker is not freed, *)
(* nor is it in two places.                                                *)
NoUseAfterFree ==
  /\ (Queued \cup Running) \cap freed = {}
  /\ Queued \cap Running = {}
  /\ \A v, w \in Workers :
       v # w /\ worker[v].pc = "run" /\ worker[w].pc = "run"
         => worker[v].task # worker[w].task

(* The pool implements the bag of TaskBag.tla, which runs every task. *)
Bag == INSTANCE TaskBag WITH
  NumWorkers <- NumThreads, pending <- Queued, running <- Running
ImplementsBag == Bag!Spec

(* Every call returns, whatever else keeps the workers busy. *)
CallsReturn ==
  \A c \in Callers : call[c].pc # "idle" ~> call[c].pc = "idle"
=============================================================================
