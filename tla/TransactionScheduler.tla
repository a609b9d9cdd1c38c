------------------------ MODULE TransactionScheduler ------------------------
(***************************************************************************)
(* The central scheduler of the banking stage                              *)
(* (core/src/banking_stage/transaction_scheduler and consume_worker.rs).   *)
(* One scheduler thread decides, schedules, receives completed work and    *)
(* buffers packets, in a loop; each worker thread consumes the batches of  *)
(* its own channel in order and returns them through one shared channel.   *)
(*                                                                         *)
(* A transaction is identified by its priority: distinct transactions have *)
(* distinct priorities.  The transactions of a batch do not conflict       *)
(* (ConflictsSeparated), so a batch is a set, and its set is its batch id. *)
(***************************************************************************)
EXTENDS Naturals, FiniteSets, Sequences, FiniteSetsExt

CONSTANTS
  Keys,        \* account addresses
  Txs,         \* transactions, numbered by priority
  Writable,    \* the writable and the readonly accounts of a transaction
  Readonly,
  NumThreads,  \* worker threads
  Capacity,    \* of the priority queue
  Window,      \* look_ahead_window_size
  BatchTarget, \* TARGET_NUM_TRANSACTIONS_PER_BATCH
  MaxPass,     \* MAX_TRANSACTIONS_PER_SCHEDULING_PASS
  Decisions    \* what the decision maker may answer

Threads == 0 .. (NumThreads - 1)
NoThread == NumThreads

ASSUME SchedulerAssumption ==
  /\ Txs \subseteq Nat /\ IsFiniteSet(Txs)
  /\ Writable \in [Txs -> SUBSET Keys] /\ Readonly \in [Txs -> SUBSET Keys]
  /\ \A t \in Txs : Writable[t] \cap Readonly[t] = {}
  /\ NumThreads \in Nat \ {0}
  /\ {Capacity, Window, BatchTarget, MaxPass} \subseteq Nat \ {0}
  /\ Decisions \subseteq {"Consume", "Forward", "ForwardAndHold", "Hold"}

VARIABLES
  pc,            \* where the scheduler thread is in its loop
  decision,      \* the decision of this iteration
  fresh,         \* transactions no packet has carried yet
  state,         \* id_to_transaction_state: "absent", "unprocessed", "pending"
  queue,         \* priority_queue
  write_locks,   \* ThreadAwareAccountLocks::write_locks
  read_locks,    \* lock_counts of ThreadAwareAccountLocks::read_locks
  tracked,       \* InFlightTracker::batches, without the numbers
  num_in_flight, \* InFlightTracker::num_in_flight_per_thread
  work,          \* consume_work channel of each worker
  finished,      \* finished_consume_work channel
  \* local to one call of schedule():
  graph,         \* inserted into the prio-graph and not popped
  unblock,       \* unblock_this_batch: popped, still blocking
  batches,       \* Batches: the batch being filled for each thread
  blocked,       \* unschedulable_ids, whose accounts are blocking_locks
  window,        \* window_budget
  scheduled      \* the transactions num_scheduled counts

passVars == <<graph, unblock, batches, blocked, window, scheduled>>
containerVars == <<state, queue>>
lockVars == <<write_locks, read_locks>>
flightVars == <<tracked, num_in_flight>>
channelVars == <<work, finished>>
vars == <<pc, decision, fresh, containerVars, lockVars, flightVars, channelVars, passVars>>

Conflicts(t, u) ==
  \/ Writable[t] \cap (Writable[u] \cup Readonly[u]) # {}
  \/ Readonly[t] \cap Writable[u] # {}

Vacant == [thread_id |-> NoThread, lock_count |-> 0]
NoBatches == [th \in Threads |-> {}]

Init ==
  /\ pc = "decide" /\ decision \in Decisions
  /\ fresh = Txs
  /\ state = [t \in Txs |-> "absent"] /\ queue = {}
  /\ write_locks = [k \in Keys |-> Vacant]
  /\ read_locks = [k \in Keys |-> [th \in Threads |-> 0]]
  /\ tracked = {} /\ num_in_flight = [th \in Threads |-> 0]
  /\ work = [th \in Threads |-> <<>>] /\ finished = <<>>
  /\ graph = {} /\ unblock = {} /\ blocked = {} /\ scheduled = {}
  /\ batches = NoBatches /\ window = 0

-----------------------------------------------------------------------------
(* TransactionStateContainer.                                              *)
Highest(S, n) == {t \in S : Cardinality({u \in S : u > t}) < n}

(* push_id_into_queue of all of S: a full queue gives up its lowest        *)
(* transaction, from the map as well.                                      *)
Push(S, st) ==
  /\ queue' = Highest(queue \cup S, Capacity)
  /\ state' = [t \in Txs |-> IF t \in (queue \cup S) \ queue' THEN "absent" ELSE st[t]]

(* remove_by_id of all of S.                                               *)
Removed(S) == [t \in Txs |-> IF t \in S THEN "absent" ELSE state[t]]

(* The transitions of TransactionState.                                    *)
TransitionToPending(t) == [state EXCEPT ![t] = "pending"]
Returned(done) ==
  [t \in Txs |-> IF t \in done.retryable THEN "unprocessed"
                 ELSE IF t \in done.batch THEN "absent" ELSE state[t]]

-----------------------------------------------------------------------------
(* ThreadAwareAccountLocks.                                                *)
ReadThreads(k) == {th \in Threads : read_locks[k][th] > 0}

ReadSchedulableAny(k) == Threads   \* mutant: readers ignore the writer's thread
ReadSchedulable(k) ==
  IF write_locks[k] = Vacant THEN Threads ELSE {write_locks[k].thread_id}

WriteSchedulable(k) ==
  IF write_locks[k] # Vacant THEN {write_locks[k].thread_id}
  ELSE IF ReadThreads(k) = {} THEN Threads
  ELSE IF Cardinality(ReadThreads(k)) = 1 THEN ReadThreads(k) ELSE {}

(* accounts_schedulable_threads                                            *)
SchedulableThreads(t) ==
  {th \in Threads : /\ \A k \in Writable[t] : th \in WriteSchedulable(k)
                    /\ \A k \in Readonly[t] : th \in ReadSchedulable(k)}

LockAccounts(t, th) ==
  /\ write_locks' = [k \in Keys |->
       IF k \in Writable[t] THEN [thread_id |-> th, lock_count |-> write_locks[k].lock_count + 1]
                            ELSE write_locks[k]]
  /\ read_locks' = [k \in Keys |->
       IF k \in Readonly[t] THEN [read_locks[k] EXCEPT ![th] = @ + 1] ELSE read_locks[k]]

(* unlock_accounts for every transaction of a batch.                       *)
UnlockAccounts(batch, th) ==
  LET writers(k) == Cardinality({t \in batch : k \in Writable[t]})
      readers(k) == Cardinality({t \in batch : k \in Readonly[t]})
  IN  /\ write_locks' = [k \in Keys |->
           IF write_locks[k].lock_count = writers(k) THEN Vacant
           ELSE [write_locks[k] EXCEPT !.lock_count = @ - writers(k)]]
      /\ read_locks' = [k \in Keys |-> [read_locks[k] EXCEPT ![th] = @ - readers(k)]]

-----------------------------------------------------------------------------
(* schedule().                                                             *)

(* chunked_pops: the highest transactions of the queue enter the graph,    *)
(* but for those pre_graph_filter drops from the container.                *)
ChunkedPops(budget, dropped) ==
  LET popped == Highest(queue, budget)
  IN  /\ dropped \subseteq popped
      /\ queue' = queue \ popped
      /\ state' = Removed(dropped)
      /\ graph' = graph \cup (popped \ dropped)
      /\ window' = budget - Cardinality(popped)

(* The prio-graph holds a transaction back until all transactions inserted *)
(* before it that conflict with it are unblocked; transactions are         *)
(* inserted by falling priority.                                           *)
TopOfGraph ==
  {t \in graph : \A u \in graph \cup unblock : u > t => ~Conflicts(t, u)}

(* select_thread: the least loaded, the first of them.                     *)
SelectThread(S) ==
  LET load(th) == Cardinality(batches[th]) + num_in_flight[th]
  IN  CHOOSE th \in S : \A o \in S : load(th) < load(o) \/ (load(th) = load(o) /\ th <= o)

(* InFlightTracker::track_batch and complete_batch.                        *)
TrackBatches(sent, bs) ==
  /\ tracked' = tracked \cup {[batch |-> bs[th], thread_id |-> th] : th \in sent}
  /\ num_in_flight' = [th \in Threads |->
       IF th \in sent THEN num_in_flight[th] + Cardinality(bs[th]) ELSE num_in_flight[th]]
CompleteBatch(entry) ==
  /\ tracked' = tracked \ {entry}
  /\ num_in_flight' = [num_in_flight EXCEPT ![entry.thread_id] = @ - Cardinality(entry.batch)]

(* send_batch of the batches of some threads.                              *)
Send(ths, bs) ==
  LET sent == {th \in ths : bs[th] # {}}
  IN  /\ TrackBatches(sent, bs)
      /\ work' = [th \in Threads |-> IF th \in sent THEN Append(work[th], bs[th]) ELSE work[th]]
      /\ batches' = [th \in Threads |-> IF th \in sent THEN {} ELSE bs[th]]

Full == Cardinality(scheduled) >= MaxPass

(* unblock_this_batch.push(id)                                             *)
UnblockLater(t) == unblock \cup {t}

(* The inner loop: the top of the graph is scheduled, unless it conflicts  *)
(* with a transaction that had to be left, or no thread can take it.       *)
BlockedByNone(t) == FALSE   \* mutant: blocking_locks is not consulted
BlockedBy(t) == \E u \in blocked : Conflicts(t, u)
ScheduleNext ==
  /\ pc = "schedule" /\ ~Full /\ TopOfGraph # {}
  /\ LET t == Max(TopOfGraph)
         ths == SchedulableThreads(t)
         th == SelectThread(ths)
     IN  /\ graph' = graph \ {t}
         /\ unblock' = UnblockLater(t)
         /\ IF BlockedBy(t) \/ ths = {}
            THEN /\ blocked' = blocked \cup {t}
                 /\ UNCHANGED <<state, lockVars, scheduled, batches, flightVars, work>>
            ELSE /\ LockAccounts(t, th)
                 /\ state' = TransitionToPending(t)
                 /\ scheduled' = scheduled \cup {t}
                 /\ LET bs == [batches EXCEPT ![th] = @ \cup {t}]
                    IN  IF Cardinality(bs[th]) >= BatchTarget
                        THEN Send({th}, bs)
                        ELSE batches' = bs /\ UNCHANGED <<flightVars, work>>
                 /\ UNCHANGED blocked
  /\ UNCHANGED <<pc, decision, fresh, queue, finished, window>>

(* After the inner loop all batches are sent and only then is what they    *)
(* blocked unblocked.                                                      *)
EndRound(dropped) ==
  /\ pc = "schedule" /\ (Full \/ TopOfGraph = {})
  /\ Send(Threads, batches)
  /\ ChunkedPops(window + Cardinality(unblock), dropped)
  /\ unblock' = {}
  /\ pc' = IF Full \/ graph' = {} THEN "finish" ELSE "schedule"
  /\ UNCHANGED <<decision, fresh, lockVars, finished, blocked, scheduled>>

EndPassDrops ==   \* mutant: all that is not scheduled is dropped, what is blocked is pushed
  /\ pc = "finish"
  /\ Push(blocked, Removed(blocked \cup graph))
  /\ graph' = {} /\ blocked' = {} /\ scheduled' = {} /\ window' = 0
  /\ pc' = "receive"
  /\ UNCHANGED <<decision, fresh, lockVars, flightVars, channelVars, unblock, batches>>
EndPassForgets ==   \* mutant: unschedulable ids are not pushed back
  /\ pc = "finish"
  /\ Push(graph, state)
  /\ graph' = {} /\ blocked' = {} /\ scheduled' = {} /\ window' = 0
  /\ pc' = "receive"
  /\ UNCHANGED <<decision, fresh, lockVars, flightVars, channelVars, unblock, batches>>
EndPass ==
  /\ pc = "finish"
  /\ Push(blocked \cup graph, state)
  /\ graph' = {} /\ blocked' = {} /\ scheduled' = {} /\ window' = 0
  /\ pc' = "receive"
  /\ UNCHANGED <<decision, fresh, lockVars, flightVars, channelVars, unblock, batches>>

-----------------------------------------------------------------------------
(* SchedulerController::run.                                               *)

StartPass(dropped) ==
  /\ ChunkedPops(Window, dropped)
  /\ pc' = IF graph' = {} THEN "finish" ELSE "schedule"
  /\ UNCHANGED <<unblock, batches, blocked, scheduled>>

ClearContainer ==
  /\ queue' = {} /\ state' = Removed(queue)
  /\ pc' = "receive"
  /\ UNCHANGED passVars

(* clean_queue pops every id; those that fail check_transactions are       *)
(* removed from the map.                                                   *)
CleanQueue(dropped) ==
  /\ dropped \subseteq queue
  /\ queue' = {} /\ state' = Removed(dropped)
  /\ pc' = "receive"
  /\ UNCHANGED passVars

Process(dropped) ==
  /\ pc = "decide"
  /\ decision' \in Decisions
  /\ \/ decision' = "Consume" /\ StartPass(dropped)
     \/ decision' = "Forward" /\ dropped = {} /\ ClearContainer
     \/ decision' = "ForwardAndHold" /\ CleanQueue(dropped)
     \/ /\ decision' = "Hold" /\ dropped = {}
        /\ pc' = "receive"
        /\ UNCHANGED <<containerVars, passVars>>
  /\ UNCHANGED <<fresh, lockVars, flightVars, channelVars>>

(* try_receive_completed                                                   *)
ReceiveCompleted ==
  /\ pc = "receive" /\ finished # <<>>
  /\ LET done == Head(finished)
         entry == CHOOSE e \in tracked : e.batch = done.batch
     IN  /\ CompleteBatch(entry)
         /\ UnlockAccounts(done.batch, entry.thread_id)
         /\ Push(done.retryable, Returned(done))
  /\ finished' = Tail(finished)
  /\ UNCHANGED <<pc, decision, fresh, work, passVars>>

ReceiveNothing ==
  /\ pc = "receive" /\ finished = <<>>
  /\ pc' = "buffer"
  /\ UNCHANGED <<decision, fresh, containerVars, lockVars, flightVars, channelVars, passVars>>

(* receive_and_buffer_packets: packets are dropped when the decision is to *)
(* forward.                                                                *)
BufferPackets(new) ==
  /\ pc = "buffer" /\ new \subseteq fresh
  /\ fresh' = fresh \ new
  /\ IF decision = "Forward"
     THEN UNCHANGED containerVars
     ELSE Push(new, [t \in Txs |-> IF t \in new THEN "unprocessed" ELSE state[t]])
  /\ pc' = "decide"
  /\ UNCHANGED <<decision, lockVars, flightVars, channelVars, passVars>>

(* ConsumeWorker: a batch is consumed against the leader bank, or returned *)
(* whole when there is none (retry_drain).                                 *)
Consume(th, retryable) ==
  /\ work[th] # <<>> /\ retryable \subseteq Head(work[th])
  /\ finished' = Append(finished, [batch |-> Head(work[th]), retryable |-> retryable])
  /\ work' = [work EXCEPT ![th] = Tail(@)]
  /\ UNCHANGED <<pc, decision, fresh, containerVars, lockVars, flightVars, passVars>>

SchedulerStep ==
  \/ \E S \in SUBSET queue : Process(S) \/ EndRound(S)
  \/ ScheduleNext
  \/ EndPass
  \/ ReceiveCompleted
  \/ ReceiveNothing
  \/ \E new \in SUBSET fresh : BufferPackets(new)
WorkerStep(th) == \E retryable \in SUBSET Txs : Consume(th, retryable)

Next == SchedulerStep \/ \E th \in Threads : WorkerStep(th)

Spec == Init /\ [][Next]_vars

(* Each thread runs its loop until the node exits.                         *)
FairSpec == Spec /\ WF_vars(SchedulerStep) /\ \A th \in Threads : WF_vars(WorkerStep(th))

-----------------------------------------------------------------------------
InFlight(th) == batches[th] \cup UNION {e.batch : e \in {f \in tracked : f.thread_id = th}}
AllInFlight == UNION {InFlight(th) : th \in Threads}

(* Transactions in flight that conflict are on one thread, which runs its  *)
(* batches one after the other, and in different batches: no two workers   *)
(* ever execute conflicting transactions, and the worker's lock of a whole *)
(* batch never refuses one of its own (try_lock_accounts, the assertions   *)
(* in the lock and unlock functions of ThreadAwareAccountLocks, and        *)
(* schedule, which unblocks what a transaction blocks only after its batch *)
(* is sent).                                                               *)
ConflictsSeparated ==
  /\ \A th1, th2 \in Threads : th1 # th2 =>
       \A t \in InFlight(th1), u \in InFlight(th2) : ~Conflicts(t, u)
  /\ \A batch \in {e.batch : e \in tracked} \cup {batches[th] : th \in Threads} :
       \A t, u \in batch : t # u => ~Conflicts(t, u)

(* Within a scheduling pass no transaction is scheduled ahead of one of    *)
(* higher priority that it conflicts with, be that one in the queue, in    *)
(* the graph or found unschedulable (schedule: prio-graph, window and      *)
(* blocking_locks together).                                               *)
PriorityKept ==
  \A t \in scheduled : \A u \in queue \cup graph \cup blocked :
    u > t => ~Conflicts(t, u)

(* The container and the scheduler agree: a transaction is pending exactly *)
(* while it is in flight, on one thread and in one batch, and what is in   *)
(* the queue or in the graph is unprocessed and nowhere else, so that no   *)
(* state transition panics and no id is looked up in vain                  *)
(* (transition_to_pending, transition_to_unprocessed, remove_by_id).       *)
ContainerConsistent ==
  /\ AllInFlight = {t \in Txs : state[t] = "pending"}
  /\ queue \cup graph \cup blocked \subseteq {t \in Txs : state[t] = "unprocessed"}
  /\ queue \cap (graph \cup blocked) = {} /\ graph \cap blocked = {}
  /\ \A e, f \in tracked : e # f => e.batch \cap f.batch = {}
  /\ \A i \in 1 .. Len(finished) : \E e \in tracked : e.batch = finished[i].batch

(* While the node stays leader, the highest transaction is scheduled even  *)
(* if lower ones it conflicts with are retried for ever on several threads *)
(* (schedule: blocking_locks, and unschedulable ids that are pushed back). *)
HighestIsScheduled ==
  (Max(Txs) \in queue /\ [](decision = "Consume")) ~> state[Max(Txs)] # "unprocessed"

(* TransactionState: an unprocessed transaction "is available for          *)
(* scheduling" (transaction_state.rs), that is, it is in the queue between *)
(* two iterations of the controller's loop.                                *)
UnprocessedIsAvailable ==
  pc = "decide" => \A t \in Txs : state[t] = "unprocessed" => t \in queue
=============================================================================
