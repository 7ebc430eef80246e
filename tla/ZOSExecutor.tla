---------------------------- MODULE ZOSExecutor ----------------------------
(***************************************************************************)
(* zos/executor.py: one dedicated worker thread, started on demand, that   *)
(* runs the callables other threads submit.  A thread is a caller or a     *)
(* worker; a worker that runs a callable is a client of the executor too   *)
(* (reentrant calls, a shutdown from inside a callable).  Steps that other *)
(* threads can see between are separate actions: the unlocked test of      *)
(* _closed, the critical section of start(), the wait for _started, the    *)
(* put into the queue, the wait for the future, the two writes of          *)
(* shutdown() under the lock, and its join.                                *)
(***************************************************************************)
EXTENDS Naturals, Sequences

CONSTANTS Callers,   \* threads that use the executor
          Workers,   \* thread objects start() could create
          Closers,   \* the threads whose code calls shutdown()
          MaxOps,    \* bound: operations begun per thread
          NoThread,  \* no thread (None; an unlocked lock)
          STOP       \* the sentinel _STOP

ASSUME ExecutorAssumption ==
  /\ Callers \cap Workers = {}
  /\ Closers \subseteq Callers \cup Workers
  /\ NoThread \notin Callers \cup Workers
  /\ MaxOps \in Nat \ {0}

Threads == Callers \cup Workers

\* The n-th operation of thread t, when it is a submission, makes item <<t, n>>.
Items == Threads \X (1..MaxOps)

ASSUME StopAssumption == STOP \notin Items

VARIABLES pc,         \* where each thread is inside an executor method
          ops,        \* operations each thread has begun
          queue,      \* _queue
          thread,     \* _thread
          threadId,   \* _thread_id, and _started once it is set
          startLock,  \* holder of _start_lock
          closed,     \* _closed
          worker,     \* where each worker is in _run
          stack,      \* the items a worker is executing, innermost first
          future      \* state of the future of each item

threadVars == <<thread, threadId, worker>>
workVars == <<queue, stack, future>>
lockVars == <<startLock, closed>>
vars == <<pc, ops, threadVars, workVars, lockVars>>

Resolved == {"result", "exception", "cancelled"}

Init == /\ pc = [t \in Threads |-> "client"]
        /\ ops = [t \in Threads |-> 0]
        /\ queue = <<>>
        /\ thread = NoThread
        /\ threadId = NoThread
        /\ startLock = NoThread
        /\ closed = FALSE
        /\ worker = [w \in Workers |-> "unborn"]
        /\ stack = [w \in Workers |-> <<>>]
        /\ future = [i \in Items |-> "none"]

Goto(t, place) == pc' = [pc EXCEPT ![t] = place]

\* A bug of numbering: the operation in progress taken for the next one.
NextItem(t) == <<t, ops[t] + 1>>
Item(t) == <<t, ops[t]>>

\* A bug: new entries go to the head of the queue.
PutFirst(x) == queue' = <<x>> \o queue
Enqueue(x) == queue' = Append(queue, x)

\* A bug: get_ident() is not compared with _thread_id.
NeverOnWorker(t) == FALSE
OnWorker(t) == t = threadId

\* A bug: start() looks at _started where it should look at _thread.
NotStarted == threadId = NoThread
NoWorkerYet == thread = NoThread

\* Client code runs in a caller always, in a worker while it executes an item.
BeginOp(t) == /\ pc[t] = "client"
              /\ t \in Workers => worker[t] = "run"
              /\ ops[t] < MaxOps
              /\ ops' = [ops EXCEPT ![t] = @ + 1]

-----------------------------------------------------------------------------
(* submit() and call() *)

\* The unlocked test of _closed; when it is set, WorkerError goes to the client.
Submit(t) == /\ BeginOp(t)
             /\ \/ closed /\ UNCHANGED pc
                \/ ~closed /\ Goto(t, "start")
             /\ UNCHANGED <<threadVars, workVars, lockVars>>

\* The critical section of start(): refuse, reuse the thread, or create it.
Start(t) == /\ pc[t] = "start" /\ startLock = NoThread
            /\ \/ closed /\ Goto(t, "client") /\ UNCHANGED <<thread, worker>>
               \/ /\ ~closed /\ ~NoWorkerYet
                  /\ Goto(t, "put") /\ UNCHANGED <<thread, worker>>
               \/ /\ ~closed /\ NoWorkerYet
                  /\ \E w \in Workers :
                       /\ worker[w] = "unborn"
                       /\ thread' = w
                       /\ worker' = [worker EXCEPT ![w] = "born"]
                  /\ Goto(t, "wait")
            /\ UNCHANGED <<ops, threadId, workVars, lockVars>>

\* Only the creator waits for _started; ten seconds without it raise WorkerError.
WaitStarted(t) == /\ pc[t] = "wait"
                  /\ \/ threadId # NoThread /\ Goto(t, "put")
                     \/ threadId = NoThread /\ Goto(t, "client")
                  /\ UNCHANGED <<ops, threadVars, workVars, lockVars>>

\* From another thread the item is queued; call() goes on to await the future.
Put(t) == /\ pc[t] = "put" /\ ~OnWorker(t)
          /\ Enqueue(Item(t))
          /\ future' = [future EXCEPT ![Item(t)] = "pending"]
          /\ Goto(t, "await") \/ Goto(t, "client")
          /\ UNCHANGED <<ops, stack, threadVars, lockVars>>

\* On the worker itself the callable is run in place, ahead of the queue.
Inline(t) == /\ pc[t] = "put" /\ OnWorker(t)
             /\ stack' = [stack EXCEPT ![t] = <<Item(t)>> \o @]
             /\ future' = [future EXCEPT ![Item(t)] = "running"]
             /\ Goto(t, "client")
             /\ UNCHANGED <<ops, queue, threadVars, lockVars>>

Await(t) == /\ pc[t] = "await" /\ future[Item(t)] \in Resolved
            /\ Goto(t, "client")
            /\ UNCHANGED <<ops, threadVars, workVars, lockVars>>

\* The client that holds a future cancels it before the worker has taken it.
Cancel(i) == /\ future[i] = "pending"
             /\ future' = [future EXCEPT ![i] = "cancelled"]
             /\ UNCHANGED <<pc, ops, queue, stack, threadVars, lockVars>>

-----------------------------------------------------------------------------
(* shutdown() *)

\* Under the lock: return at once when closed, or set _closed.
Shutdown(t) == /\ t \in Closers /\ BeginOp(t) /\ startLock = NoThread
               /\ \/ closed /\ UNCHANGED <<pc, lockVars>>
                  \/ /\ ~closed
                     /\ closed' = TRUE /\ startLock' = t /\ Goto(t, "stop")
               /\ UNCHANGED <<threadVars, workVars>>

\* Still under the lock: leave the sentinel; join unless wait=False or on the worker.
PutStop(t) == /\ pc[t] = "stop"
              /\ IF thread # NoThread THEN Enqueue(STOP) ELSE UNCHANGED queue
              /\ startLock' = NoThread
              /\ \/ thread # NoThread /\ ~OnWorker(t) /\ Goto(t, "join")
                 \/ Goto(t, "client")
              /\ UNCHANGED <<ops, closed, stack, future, threadVars>>

Join(t) == /\ pc[t] = "join" /\ worker[thread] = "ended"
           /\ Goto(t, "client")
           /\ UNCHANGED <<ops, threadVars, workVars, lockVars>>

-----------------------------------------------------------------------------
(* _run() *)

WorkerStart(w) == /\ worker[w] = "born"
                  /\ worker' = [worker EXCEPT ![w] = "get"]
                  /\ threadId' = w
                  /\ UNCHANGED <<pc, ops, thread, workVars, lockVars>>

\* The oldest entry: the sentinel ends the loop, a cancelled future is skipped.
Take(w) == /\ worker[w] = "get" /\ queue # <<>>
           /\ queue' = Tail(queue)
           /\ \/ /\ Head(queue) = STOP
                 /\ worker' = [worker EXCEPT ![w] = "ended"]
                 /\ UNCHANGED <<stack, future>>
              \/ /\ Head(queue) # STOP /\ future[Head(queue)] = "cancelled"
                 /\ UNCHANGED <<worker, stack, future>>
              \/ /\ Head(queue) # STOP /\ future[Head(queue)] = "pending"
                 /\ worker' = [worker EXCEPT ![w] = "run"]
                 /\ stack' = [stack EXCEPT ![w] = <<Head(queue)>>]
                 /\ future' = [future EXCEPT ![Head(queue)] = "running"]
           /\ UNCHANGED <<pc, ops, thread, threadId, lockVars>>

\* A bug: an exception of the outermost callable ends the loop.
LoopUnlessRaised(w, outcome) ==
  IF Len(stack[w]) # 1 THEN "run" ELSE IF outcome = "result" THEN "get" ELSE "ended"
LoopAfter(w, outcome) == IF Len(stack[w]) = 1 THEN "get" ELSE "run"

\* The innermost callable returns or raises; the future takes either.
Finish(w) == /\ worker[w] = "run" /\ pc[w] = "client"
             /\ \E outcome \in {"result", "exception"} :
                  /\ future' = [future EXCEPT ![Head(stack[w])] = outcome]
                  /\ worker' = [worker EXCEPT ![w] = LoopAfter(w, outcome)]
             /\ stack' = [stack EXCEPT ![w] = Tail(@)]
             /\ UNCHANGED <<pc, ops, queue, thread, threadId, lockVars>>

-----------------------------------------------------------------------------
\* A method of the executor that thread t is inside makes a step.
ThreadStep(t) == \/ Start(t) \/ WaitStarted(t) \/ Put(t) \/ Inline(t) \/ Await(t)
                 \/ PutStop(t) \/ Join(t)
WorkerStep(w) == WorkerStart(w) \/ Take(w) \/ Finish(w)

Next == \/ \E t \in Threads : Submit(t) \/ Shutdown(t) \/ ThreadStep(t)
        \/ \E w \in Workers : WorkerStep(w)
        \/ \E i \in Items : Cancel(i)

Spec == Init /\ [][Next]_vars

\* Running threads are scheduled and the callables return; clients may stop asking.
Fairness == /\ \A t \in Threads : WF_vars(ThreadStep(t))
            /\ \A w \in Workers : WF_vars(WorkerStep(w))
FairSpec == Spec /\ Fairness

-----------------------------------------------------------------------------
(* Properties *)

\* The ranges of the state of ZOSExecutor.
TypeOK ==
  /\ pc \in [Threads -> {"client", "start", "wait", "put", "await", "stop", "join"}]
  /\ ops \in [Threads -> 0..MaxOps]
  /\ queue \in Seq(Items \cup {STOP})
  /\ thread \in Workers \cup {NoThread}
  /\ threadId \in Workers \cup {NoThread}
  /\ startLock \in Threads \cup {NoThread}
  /\ closed \in BOOLEAN
  /\ worker \in [Workers -> {"unborn", "born", "get", "run", "ended"}]
  /\ stack \in [Workers -> Seq(Items)]
  /\ future \in [Items -> {"none", "pending", "running"} \cup Resolved]

\* However start() and shutdown() interleave, no second worker thread ever
\* comes to life and only the recorded one executes callables (the class
\* promises "exactly one dedicated daemon thread").
OneWorkerThread ==
  \A w \in Workers : /\ worker[w] # "unborn" => w = thread
                     /\ stack[w] # <<>> => w = threadId

\* The worker is never left waiting for itself: a reentrant call does not wait
\* for a future only this worker could resolve, a callable that shuts the
\* executor down does not join the thread it runs on.
WorkerNeverWaitsForItself == \A w \in Workers : pc[w] \notin {"await", "join"}

\* Every step is a step of the serial executor: calls start in the order they
\* were queued, each once, one at a time, none after the sentinel.
Serial == INSTANCE SerialExecutor WITH
            stack <- IF thread = NoThread THEN <<>> ELSE stack[thread],
            stopped <- thread # NoThread /\ worker[thread] = "ended"
ImplementsSerialExecutor == Serial!ASpec

\* A call that waits for its result gets one: call() "synchronously return[s]
\* its result".
EveryCallReturns == \A t \in Threads : pc[t] = "await" ~> pc[t] # "await"

\* A shutdown drains: what was in the queue before _closed was set is resolved,
\* although the sentinel is on its way.
AcceptedBeforeShutdownCompletes ==
  \A i \in Items : (future[i] = "pending" /\ ~closed) ~> future[i] \in Resolved

\* shutdown(wait=True) returns, also while callables start new calls.
ShutdownReturns == \A t \in Threads : pc[t] \in {"stop", "join"} ~> pc[t] = "client"
=============================================================================
