----------------------------- MODULE ThreadPool -----------------------------
(***************************************************************************)
(* ThreadPool (src/Threads/ThreadPool.cpp): an owner starts and stops the  *)
(* workers, other threads submit tasks, and so may a task.  A task enters  *)
(* taskQueue in two steps, the claim of a slot and its publication, as     *)
(* MpmcQueue shows: between them try_pop refuses, whatever is behind.      *)
(* `running` is a plain bool that the workers load once a turn.            *)
(***************************************************************************)
EXTENDS Integers, Sequences

CONSTANTS
    Submitters,  \* threads that are no workers
    NumThreads,  \* threadNum
    QueueSize,   \* capacity of taskQueue
    MaxTasks     \* bound: the names of each thread's tasks

Workers == 1..NumThreads
SubmitThreads == Submitters \cup Workers

ASSUME PoolAssumption ==
    /\ NumThreads \in Nat \ {0} /\ Submitters \cap Workers = {}
    /\ QueueSize \in Nat \ {0} /\ MaxTasks \in [SubmitThreads -> Nat]

VARIABLES
    taskQueue,  \* claimed slots, oldest first
    running,
    opc, next,  \* where the owner is; the thread it starts or joins
    wpc,        \* where each worker is
    claimed,    \* the threads between claim and publication
    executed,   \* tasks run, until their name is used again
    late        \* history: tasks of Submitters not in the queue when stop was called

pool == <<opc, next, running>>
poolVars == <<taskQueue, pool, wpc, claimed, executed, late>>

PoolInit ==
    /\ taskQueue = <<>> /\ running = FALSE /\ opc = "new" /\ next = 1
    /\ wpc = [w \in Workers |-> "none"]
    /\ claimed = {} /\ executed = {} /\ late = {}

-----------------------------------------------------------------------------
(* submit, in any thread but a worker that runs no task *)

\* push takes a slot, or it gives up on a full queue and the task is dropped, which
\* changes nothing.  The calls are not bounded: a name that is not in the queue may be
\* that of the next task.
Submit(t, n) ==
    LET task == <<t, n>> IN
    /\ t \notin claimed /\ Len(taskQueue) < QueueSize
    /\ t \in Workers => wpc[t] \in {"run", "drainrun"}
    /\ \A i \in DOMAIN taskQueue : taskQueue[i].task # task
    /\ taskQueue' = Append(taskQueue, [task |-> task, published |-> FALSE])
    /\ claimed' = claimed \cup {t} /\ executed' = executed \ {task}
    /\ late' = IF t \in Submitters /\ opc \in {"join", "gone"} THEN late \cup {task} ELSE late
    /\ UNCHANGED <<pool, wpc>>

SubmitPublish(t) ==
    /\ t \in claimed /\ claimed' = claimed \ {t}
    /\ taskQueue' = [i \in DOMAIN taskQueue |->
            IF taskQueue[i].task[1] = t THEN [taskQueue[i] EXCEPT !.published = TRUE]
            ELSE taskQueue[i]]
    /\ UNCHANGED <<pool, wpc, executed, late>>

-----------------------------------------------------------------------------
(* The owner *)

Start ==
    /\ opc = "new" /\ opc' = "create" /\ running' = TRUE
    /\ UNCHANGED <<taskQueue, next, wpc, claimed, executed, late>>

\* threads[i]->start() creates the thread ...
CreateWorker ==
    /\ opc = "create" /\ opc' = "latch" /\ wpc' = [wpc EXCEPT ![next] = "created"]
    /\ UNCHANGED <<taskQueue, next, running, claimed, executed, late>>

\* ... and returns when it has counted its latch down.
Latched ==
    /\ opc = "latch" /\ wpc[next] # "created"
    /\ opc' = IF next = NumThreads THEN "serve" ELSE "create"
    /\ next' = IF next = NumThreads THEN 1 ELSE next + 1
    /\ UNCHANGED <<taskQueue, running, wpc, claimed, executed, late>>

\* stop, by a call or by the destructor.
Stop ==
    /\ opc = "serve" /\ opc' = "join" /\ running' = FALSE
    /\ late' = {taskQueue[i].task : i \in {j \in DOMAIN taskQueue :
                    ~taskQueue[j].published /\ taskQueue[j].task[1] \in Submitters}}
    /\ UNCHANGED <<taskQueue, next, wpc, claimed, executed>>

Join ==
    /\ opc = "join" /\ wpc[next] = "exit"
    /\ opc' = IF next = NumThreads THEN "gone" ELSE "join"
    /\ next' = IF next = NumThreads THEN 1 ELSE next + 1
    /\ UNCHANGED <<taskQueue, running, wpc, claimed, executed, late>>

OwnerStep == Start \/ CreateWorker \/ Latched \/ Join

-----------------------------------------------------------------------------
(* worker_loop *)

Goes(w, from, to) == wpc[w] = from /\ wpc' = [wpc EXCEPT ![w] = to]

WorkerUp(w) ==
    /\ Goes(w, "created", "test")
    /\ UNCHANGED <<taskQueue, pool, claimed, executed, late>>

\* Mutant: running is loaded before the loop.
TestOnce(w) ==
    /\ Goes(w, "test", "pop")
    /\ UNCHANGED <<taskQueue, pool, claimed, executed, late>>

\* Mutant: the worker returns without the second loop.
TestOnly(w) ==
    /\ Goes(w, "test", IF running THEN "pop" ELSE "exit")
    /\ UNCHANGED <<taskQueue, pool, claimed, executed, late>>

\* while (running)
Test(w) ==
    /\ Goes(w, "test", IF running THEN "pop" ELSE "drain")
    /\ UNCHANGED <<taskQueue, pool, claimed, executed, late>>

Poppable == taskQueue # <<>> /\ Head(taskQueue).published

\* try_pop succeeds, in the first loop and in the second: the task is run.
Pop(w) ==
    /\ Poppable /\ (Goes(w, "pop", "run") \/ Goes(w, "drain", "drainrun"))
    /\ taskQueue' = Tail(taskQueue) /\ executed' = executed \cup {Head(taskQueue).task}
    /\ UNCHANGED <<pool, claimed, late>>

\* Mutant: the first loop ends when there is nothing to do.
PopNothingEnds(w) ==
    /\ ~Poppable /\ (Goes(w, "pop", "exit") \/ Goes(w, "drain", "exit"))
    /\ UNCHANGED <<taskQueue, pool, claimed, executed, late>>

\* try_pop fails: sched_yield, or the worker returns.
PopNothing(w) ==
    /\ ~Poppable /\ (Goes(w, "pop", "test") \/ Goes(w, "drain", "exit"))
    /\ UNCHANGED <<taskQueue, pool, claimed, executed, late>>

TaskReturns(w) ==
    /\ w \notin claimed /\ (Goes(w, "run", "test") \/ Goes(w, "drainrun", "drain"))
    /\ UNCHANGED <<taskQueue, pool, claimed, executed, late>>

WorkerStep(w) == WorkerUp(w) \/ Test(w) \/ Pop(w) \/ PopNothing(w) \/ TaskReturns(w)

\* The pool is stopped and every call has returned.
Over == opc = "gone" /\ claimed = {} /\ UNCHANGED poolVars

PoolNext ==
    \/ \E t \in SubmitThreads : SubmitPublish(t) \/ \E n \in 1..MaxTasks[t] : Submit(t, n)
    \/ OwnerStep \/ Stop
    \/ \E w \in Workers : WorkerStep(w)
    \/ Over

\* The scheduler runs every thread inside a call; a task returns, even if it submits
\* tasks again and again.  Nothing says that stop is ever called.
PoolSpec ==
    /\ PoolInit /\ [][PoolNext]_poolVars
    /\ WF_poolVars(OwnerStep)
    /\ \A t \in SubmitThreads : WF_poolVars(SubmitPublish(t))
    /\ \A w \in Workers : WF_poolVars(WorkerStep(w)) /\ SF_poolVars(TaskReturns(w))

-----------------------------------------------------------------------------

\* What stop leaves in the queue: when it has returned, a task that was never run is
\* one whose submit had not returned when stop was called, or stands behind one.  The
\* second loop of every worker (line 49) runs the others, those that tasks submit
\* meanwhile included.
StopDrains ==
    opc = "gone" => \A i \in DOMAIN taskQueue : \E j \in 1..i : taskQueue[j].task \in late

\* stop returns, unless tasks go on being submitted for ever: the second loop (line 49)
\* has no other end than an empty queue or a slot not yet published.
StopReturns == opc = "join" ~> (opc = "gone" \/ []<>(claimed # {}))

\* A task in the queue is run, unless stop is called first.
SubmittedRuns ==
    \A t \in SubmitThreads : \A n \in 1..MaxTasks[t] :
        (opc = "serve" /\ \E i \in DOMAIN taskQueue : taskQueue[i].task = <<t, n>>)
            ~> (opc # "serve" \/ <<t, n>> \in executed)
=============================================================================
