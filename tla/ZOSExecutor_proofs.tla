------------------------- MODULE ZOSExecutor_proofs -------------------------
(***************************************************************************)
(* For every set of callers, workers and closers and every bound on their  *)
(* operations: the state of the executor is well typed, it has one worker  *)
(* thread, and that worker never waits for itself.                         *)
(***************************************************************************)
EXTENDS ZOSExecutor, SequenceTheorems, TLAPS

-----------------------------------------------------------------------------
(* The inductive invariant, in named parts. *)

\* A worker that has come to life is the recorded thread; one that has reached
\* its loop has recorded its identity.
WorkerIdentity ==
  \A w \in Workers : /\ worker[w] # "unborn" => w = thread
                     /\ worker[w] \in {"get", "run", "ended"} <=> w = threadId

\* A worker is executing items exactly while its loop is in a callable; only
\* then is it a client of the executor, and never one that waits.
WorkerActivity ==
  \A w \in Workers : /\ stack[w] # <<>> <=> worker[w] = "run"
                     /\ pc[w] # "client" => worker[w] = "run"
                     /\ pc[w] \notin {"wait", "await", "join"}

\* Whoever is inside a method has begun an operation, so its item exists.
Begun == \A t \in Threads : pc[t] # "client" => ops[t] # 0

IInv == TypeOK /\ WorkerIdentity /\ WorkerActivity /\ Begun

LEMMA ItemExists ==
  ASSUME IInv, NEW t \in Threads, pc[t] # "client"
  PROVE  Item(t) \in Items
BY ExecutorAssumption DEF IInv, TypeOK, Begun, Item, Items

\* The steps that only move a thread from one place to another.
LEMMA MoveKeepsIInv ==
  ASSUME IInv, NEW t \in Threads,
         NEW place \in {"client", "start", "wait", "put", "await", "stop", "join"},
         pc' = [pc EXCEPT ![t] = place],
         t \in Workers => \/ place = "client"
                          \/ place \in {"start", "put", "stop"} /\ worker[t] = "run",
         \/ UNCHANGED ops /\ (place = "client" \/ ops[t] # 0)
         \/ ops[t] < MaxOps /\ ops' = [ops EXCEPT ![t] = @ + 1],
         UNCHANGED <<threadVars, workVars>>,
         startLock' \in Threads \cup {NoThread}, closed' \in BOOLEAN
  PROVE  IInv'
<1>. USE DEF threadVars, workVars
<1>1. ops' \in [Threads -> 0..MaxOps] /\ Begun'
  <2>1. CASE UNCHANGED ops /\ (place = "client" \/ ops[t] # 0)
    BY <2>1 DEF IInv, TypeOK, Begun
  <2>2. CASE ops[t] < MaxOps /\ ops' = [ops EXCEPT ![t] = @ + 1]
    <3>1. ops[t] + 1 \in 0..MaxOps /\ ops[t] + 1 # 0
      BY <2>2, ExecutorAssumption DEF IInv, TypeOK
    <3>. QED BY <2>2, <3>1 DEF IInv, TypeOK, Begun
  <2>. QED BY <2>1, <2>2
<1>2. TypeOK'
  BY <1>1 DEF IInv, TypeOK
<1>3. WorkerIdentity' /\ WorkerActivity'
  BY DEF IInv, TypeOK, WorkerIdentity, WorkerActivity, Threads
<1>. QED BY <1>1, <1>2, <1>3 DEF IInv

\* What the proofs need to know of the head and the tail of a sequence.
LEMMA HeadAndTail ==
  ASSUME NEW S, NEW s \in Seq(S), s # <<>>
  PROVE  /\ Head(s) \in S
         /\ Tail(s) \in Seq(S)
         /\ Tail(s) = <<>> <=> Len(s) = 1
<1>1. /\ Head(s) \in S /\ Tail(s) \in Seq(S)
      /\ Len(Tail(s)) = Len(s) - 1 /\ Len(s) \in Nat
  BY HeadTailProperties, LenProperties
<1>2. Tail(s) = <<>> <=> Len(Tail(s)) = 0
  BY <1>1, EmptySeq
<1>. QED BY <1>1, <1>2

LEMMA InitIInv == Init => IInv
<1>. SUFFICES ASSUME Init PROVE IInv
  OBVIOUS
<1>. USE DEF Init
<1>1. queue \in Seq(Items \cup {STOP}) /\ stack \in [Workers -> Seq(Items)]
  BY EmptySeq
<1>2. ops \in [Threads -> 0..MaxOps]
  BY ExecutorAssumption
<1>3. TypeOK
  BY <1>1, <1>2 DEF TypeOK
<1>4. WorkerIdentity /\ WorkerActivity /\ Begun
  BY ExecutorAssumption DEF WorkerIdentity, WorkerActivity, Begun, Threads
<1>. QED BY <1>3, <1>4 DEF IInv

\* What the client of thread t may start to do.
LEMMA ClientIsRunning ==
  ASSUME NEW t, BeginOp(t)
  PROVE  /\ t \in Workers => worker[t] = "run"
         /\ ops[t] < MaxOps /\ ops' = [ops EXCEPT ![t] = @ + 1]
BY DEF BeginOp

LEMMA StepIInv == IInv /\ [Next]_vars => IInv'
<1>. SUFFICES ASSUME IInv, [Next]_vars PROVE IInv'
  OBVIOUS
<1>. USE DEF IInv
<1>1. ASSUME NEW t \in Threads, Submit(t) PROVE IInv'
  <2>1. \E place \in {"client", "start"} : pc' = [pc EXCEPT ![t] = place]
    BY <1>1 DEF Submit, BeginOp, Goto, TypeOK
  <2>. QED
    BY <1>1, <2>1, ClientIsRunning, MoveKeepsIInv DEF Submit, lockVars, TypeOK
<1>2. ASSUME NEW t \in Threads, Shutdown(t) PROVE IInv'
  <2>1. PICK place \in {"client", "stop"} : pc' = [pc EXCEPT ![t] = place]
    BY <1>2 DEF Shutdown, BeginOp, Goto, TypeOK
  <2>2. startLock' \in Threads \cup {NoThread} /\ closed' \in BOOLEAN
    BY <1>2 DEF Shutdown, lockVars, TypeOK
  <2>3. BeginOp(t) /\ UNCHANGED <<threadVars, workVars>>
    BY <1>2 DEF Shutdown
  <2>. QED
    BY <2>1, <2>2, <2>3, ClientIsRunning, MoveKeepsIInv
<1>3. ASSUME NEW t \in Threads, Start(t) PROVE IInv'
  <2>0. ops[t] # 0
    BY <1>3 DEF Start, Begun
  <2>1. CASE closed \/ ~NoWorkerYet
    <3>1. \E place \in {"client", "put"} : Goto(t, place)
      BY <1>3, <2>1 DEF Start
    <3>2. t \in Workers => worker[t] = "run"
      BY <1>3 DEF Start, WorkerActivity
    <3>3. UNCHANGED <<ops, threadVars, workVars, lockVars>>
      BY <1>3, <2>1 DEF Start, threadVars
    <3>. QED
      BY <2>0, <3>1, <3>2, <3>3, MoveKeepsIInv DEF Goto, lockVars, TypeOK
  <2>2. CASE ~closed /\ NoWorkerYet
    <3>1. PICK w \in Workers : /\ worker[w] = "unborn"
                               /\ thread' = w
                               /\ worker' = [worker EXCEPT ![w] = "born"]
      BY <1>3, <2>2 DEF Start
    <3>2. \A v \in Workers : worker[v] = "unborn"
      BY <2>2, ExecutorAssumption DEF NoWorkerYet, WorkerIdentity
    <3>3. t \notin Workers
      BY <1>3, <3>2 DEF Start, WorkerActivity
    <3>4. Goto(t, "wait") /\ UNCHANGED <<ops, threadId, workVars, lockVars>>
      BY <1>3, <2>2 DEF Start
    <3>5. TypeOK' /\ Begun'
      BY <2>0, <3>1, <3>4 DEF TypeOK, Begun, Goto, workVars, lockVars
    <3>6. WorkerIdentity' /\ WorkerActivity'
      BY <3>1, <3>2, <3>3, <3>4
         DEF TypeOK, WorkerIdentity, WorkerActivity, Goto, workVars
    <3>. QED BY <3>5, <3>6
  <2>. QED BY <2>1, <2>2
<1>4. ASSUME NEW t \in Threads, WaitStarted(t) PROVE IInv'
  <2>1. \E place \in {"client", "put"} : Goto(t, place)
    BY <1>4 DEF WaitStarted
  <2>2. t \notin Workers /\ ops[t] # 0
    BY <1>4 DEF WaitStarted, WorkerActivity, Begun
  <2>. QED
    BY <1>4, <2>1, <2>2, MoveKeepsIInv DEF WaitStarted, Goto, lockVars, TypeOK
<1>5. ASSUME NEW t \in Threads, Put(t) PROVE IInv'
  <2>1. t \notin Workers /\ ops[t] # 0 /\ Item(t) \in Items
    BY <1>5, ItemExists DEF Put, OnWorker, WorkerActivity, WorkerIdentity, Begun
  <2>2. queue' \in Seq(Items \cup {STOP})
    BY <1>5, <2>1 DEF Put, Enqueue, TypeOK
  <2>3. future' \in [Items -> {"none", "pending", "running"} \cup Resolved]
    BY <1>5, <2>1 DEF Put, TypeOK
  <2>4. TypeOK' /\ Begun'
    BY <1>5, <2>1, <2>2, <2>3 DEF Put, Goto, TypeOK, Begun, threadVars, lockVars
  <2>5. WorkerIdentity' /\ WorkerActivity'
    <3>1. \A w \in Workers : pc'[w] = pc[w]
      BY <1>5, <2>1 DEF Put, Goto, TypeOK, Threads
    <3>. QED
      BY <1>5, <3>1 DEF Put, WorkerIdentity, WorkerActivity, threadVars
  <2>. QED BY <2>4, <2>5
<1>6. ASSUME NEW t \in Threads, Inline(t) PROVE IInv'
  <2>1. t \in Workers /\ ops[t] # 0 /\ Item(t) \in Items /\ worker[t] = "run"
    BY <1>6, ItemExists, ExecutorAssumption
       DEF Inline, OnWorker, WorkerActivity, Begun, TypeOK, Threads
  <2>2. stack[t] \in Seq(Items) /\ <<Item(t)>> \o stack[t] \in Seq(Items)
    BY <2>1 DEF TypeOK
  <2>3. <<Item(t)>> \o stack[t] # <<>>
    BY <2>1, <2>2
  <2>4. TypeOK' /\ Begun'
    BY <1>6, <2>1, <2>2 DEF Inline, Goto, TypeOK, Begun, threadVars, lockVars
  <2>5. WorkerIdentity' /\ WorkerActivity'
    BY <1>6, <2>1, <2>3
       DEF Inline, Goto, TypeOK, WorkerIdentity, WorkerActivity, threadVars
  <2>. QED BY <2>4, <2>5
<1>7. ASSUME NEW t \in Threads, Await(t) PROVE IInv'
  BY <1>7, MoveKeepsIInv DEF Await, Goto, lockVars, TypeOK
<1>8. ASSUME NEW t \in Threads, PutStop(t) PROVE IInv'
  <2>1. ops[t] # 0 /\ (t \in Workers => worker[t] = "run" /\ OnWorker(t))
    BY <1>8 DEF PutStop, Begun, WorkerActivity, WorkerIdentity, OnWorker
  <2>2. PICK place \in {"client", "join"} :
          Goto(t, place) /\ (t \in Workers => place = "client")
    BY <1>8, <2>1 DEF PutStop
  <2>3. queue' \in Seq(Items \cup {STOP})
    <3>1. Append(queue, STOP) \in Seq(Items \cup {STOP})
      BY DEF TypeOK
    <3>. QED BY <1>8, <3>1 DEF PutStop, Enqueue, TypeOK
  <2>4. TypeOK' /\ Begun'
    BY <1>8, <2>1, <2>2, <2>3 DEF PutStop, Goto, TypeOK, Begun, threadVars
  <2>5. WorkerIdentity' /\ WorkerActivity'
    BY <1>8, <2>2 DEF PutStop, Goto, TypeOK, WorkerIdentity, WorkerActivity, threadVars
  <2>. QED BY <2>4, <2>5
<1>9. ASSUME NEW t \in Threads, Join(t) PROVE IInv'
  BY <1>9, MoveKeepsIInv DEF Join, Goto, lockVars, TypeOK
<1>10. ASSUME NEW w \in Workers, WorkerStart(w) PROVE IInv'
  <2>1. TypeOK' /\ Begun'
    BY <1>10 DEF WorkerStart, TypeOK, Begun, workVars, lockVars
  <2>2. WorkerIdentity' /\ WorkerActivity'
    BY <1>10 DEF WorkerStart, TypeOK, WorkerIdentity, WorkerActivity, workVars
  <2>. QED BY <2>1, <2>2
<1>11. ASSUME NEW w \in Workers, Take(w) PROVE IInv'
  <2>1. queue' \in Seq(Items \cup {STOP}) /\ Head(queue) \in Items \cup {STOP}
    BY <1>11, HeadAndTail DEF Take, TypeOK
  <2>2. pc[w] = "client" /\ stack[w] = <<>>
    BY <1>11 DEF Take, WorkerActivity
  <2>3. UNCHANGED <<pc, ops, thread, threadId, startLock, closed>>
    BY <1>11 DEF Take, lockVars
  <2>4. CASE worker' = [worker EXCEPT ![w] = "ended"] /\ UNCHANGED <<stack, future>>
    BY <1>11, <2>1, <2>2, <2>3, <2>4
       DEF Take, TypeOK, Begun, WorkerIdentity, WorkerActivity
  <2>5. CASE UNCHANGED <<worker, stack, future>>
    BY <2>1, <2>3, <2>5 DEF TypeOK, Begun, WorkerIdentity, WorkerActivity
  <2>6. CASE /\ Head(queue) # STOP
             /\ worker' = [worker EXCEPT ![w] = "run"]
             /\ stack' = [stack EXCEPT ![w] = <<Head(queue)>>]
             /\ future' = [future EXCEPT ![Head(queue)] = "running"]
    <3>1. Head(queue) \in Items /\ <<Head(queue)>> \in Seq(Items)
      BY <2>1, <2>6
    <3>2. TypeOK' /\ Begun'
      BY <2>1, <2>3, <2>6, <3>1 DEF TypeOK, Begun
    <3>3. WorkerIdentity' /\ WorkerActivity'
      BY <1>11, <2>2, <2>3, <2>6 DEF Take, TypeOK, WorkerIdentity, WorkerActivity
    <3>. QED BY <3>2, <3>3
  <2>. QED BY <1>11, <2>4, <2>5, <2>6 DEF Take
<1>12. ASSUME NEW w \in Workers, Finish(w) PROVE IInv'
  <2>1. PICK outcome \in {"result", "exception"} :
          /\ future' = [future EXCEPT ![Head(stack[w])] = outcome]
          /\ worker' = [worker EXCEPT ![w] = LoopAfter(w, outcome)]
    BY <1>12 DEF Finish
  <2>2. stack[w] \in Seq(Items) /\ stack[w] # <<>> /\ pc[w] = "client"
    BY <1>12 DEF Finish, TypeOK, WorkerActivity
  <2>3. /\ Tail(stack[w]) \in Seq(Items)
        /\ Tail(stack[w]) = <<>> <=> Len(stack[w]) = 1
    BY <2>2, HeadAndTail
  <2>4. TypeOK' /\ Begun'
    BY <1>12, <2>1, <2>2, <2>3
       DEF Finish, LoopAfter, TypeOK, Begun, Resolved, lockVars
  <2>5. WorkerIdentity' /\ WorkerActivity'
    BY <1>12, <2>1, <2>2, <2>3
       DEF Finish, LoopAfter, TypeOK, WorkerIdentity, WorkerActivity
  <2>. QED BY <2>4, <2>5
<1>13. ASSUME NEW i \in Items, Cancel(i) PROVE IInv'
  <2>1. TypeOK' /\ Begun'
    BY <1>13 DEF Cancel, TypeOK, Begun, Resolved, threadVars, lockVars
  <2>2. WorkerIdentity' /\ WorkerActivity'
    BY <1>13 DEF Cancel, TypeOK, WorkerIdentity, WorkerActivity, threadVars
  <2>. QED BY <2>1, <2>2
<1>14. CASE UNCHANGED vars
  BY <1>14 DEF vars, threadVars, workVars, lockVars, TypeOK, WorkerIdentity,
               WorkerActivity, Begun
<1>. QED
  BY <1>1, <1>2, <1>3, <1>4, <1>5, <1>6, <1>7, <1>8, <1>9, <1>10, <1>11, <1>12,
     <1>13, <1>14 DEF Next, ThreadStep, WorkerStep

-----------------------------------------------------------------------------
LEMMA SpecIInv == Spec => []IInv
BY InitIInv, StepIInv, PTL DEF Spec

\* The state of ZOSExecutor always has its declared types.
THEOREM TypeCorrect == Spec => []TypeOK
<1>1. IInv => TypeOK
  BY DEF IInv
<1>. QED BY <1>1, SpecIInv, PTL

\* start(), submit() and shutdown(), called by any number of threads in any
\* order, never bring a second worker thread to life, and only the recorded
\* one executes callables.
THEOREM SingleWorker == Spec => []OneWorkerThread
<1>1. IInv => OneWorkerThread
  BY DEF IInv, WorkerIdentity, WorkerActivity, OneWorkerThread
<1>. QED BY <1>1, SpecIInv, PTL

\* The worker never blocks on a future it would have to resolve itself, nor
\* joins itself (lines 64 and 87 of executor.py).
THEOREM NoSelfWait == Spec => []WorkerNeverWaitsForItself
<1>1. IInv => WorkerNeverWaitsForItself
  BY DEF IInv, WorkerActivity, WorkerNeverWaitsForItself
<1>. QED BY <1>1, SpecIInv, PTL

-----------------------------------------------------------------------------
(* ZOSExecutor implements SerialExecutor: what else has to be invariant. *)

\* An operation that has not put its item into service yet has an untouched future.
Fresh == /\ \A t \in Threads, n \in 1..MaxOps : n > ops[t] => future[<<t, n>>] = "none"
         /\ \A t \in Threads : pc[t] \in {"start", "wait", "put"} => future[Item(t)] = "none"

\* What a worker executes is running, and is not on its stack twice.
Executing ==
  \A w \in Workers :
    /\ \A k \in 1..Len(stack[w]) : future[stack[w][k]] = "running"
    /\ \A j, k \in 1..Len(stack[w]) : stack[w][j] = stack[w][k] => j = k

\* One shutdown, at most, puts one sentinel, at most, before the loop ends.
NoSentinel == /\ \A k \in 1..Len(queue) : queue[k] # STOP
              /\ \A w \in Workers : worker[w] # "ended"
OneShutdown == /\ ~closed => NoSentinel /\ \A t \in Threads : pc[t] # "stop"
               /\ \A t \in Threads : pc[t] = "stop" => NoSentinel
               /\ \A t, u \in Threads : pc[t] = "stop" /\ pc[u] = "stop" => t = u

OrderInv == IInv /\ Fresh /\ Executing /\ OneShutdown

LEMMA InitOrderInv == Init => OrderInv
<1> SUFFICES ASSUME Init PROVE OrderInv
  OBVIOUS
<1>1. Len(queue) = 0 /\ \A w \in Workers : Len(stack[w]) = 0
  BY DEF Init
<1>2. Fresh
  BY DEF Init, Fresh, Item, Items
<1> QED BY <1>1, <1>2, InitIInv DEF Init, OrderInv, Executing, OneShutdown, NoSentinel

\* A method that begins, or moves on to where it may still put its item into service.
LEMMA BeginKeepsFresh ==
  ASSUME IInv, Fresh, NEW t \in Threads, BeginOp(t), UNCHANGED future,
         NEW place, pc' = [pc EXCEPT ![t] = place]
  PROVE  Fresh'
<1>1. pc \in [Threads -> {"client", "start", "wait", "put", "await", "stop", "join"}]
      /\ ops \in [Threads -> 0..MaxOps] /\ MaxOps \in Nat
  BY ExecutorAssumption DEF IInv, TypeOK
<1>2. ops[t] + 1 \in 1..MaxOps /\ ops[t] + 1 > ops[t] /\ ops'[t] = ops[t] + 1
      /\ \A u \in Threads \ {t} : ops'[u] = ops[u] /\ pc'[u] = pc[u]
  BY <1>1 DEF BeginOp
<1>3. \A u \in Threads, n \in 1..MaxOps : n > ops'[u] => n > ops[u]
  BY <1>1, <1>2
<1>4. future[<<t, ops[t] + 1>>] = "none"
  BY <1>2 DEF Fresh
<1>5. \A u \in Threads, n \in 1..MaxOps : n > ops'[u] => future'[<<u, n>>] = "none"
  BY <1>3 DEF Fresh
<1>6. \A u \in Threads : pc'[u] \in {"start", "wait", "put"} => future'[<<u, ops'[u]>>] = "none"
  BY <1>2, <1>4 DEF Fresh, Item
<1> QED BY <1>5, <1>6 DEF Fresh, Item

\* A step that changes the future of one item that was not fresh, or ceases to be.
LEMMA AnswerKeepsFresh ==
  ASSUME IInv, Fresh, NEW i \in Items, NEW outcome, UNCHANGED ops,
         future' = [future EXCEPT ![i] = outcome],
         \A t \in Threads : pc'[t] \in {"start", "wait", "put"} =>
                              pc[t] \in {"start", "wait", "put"} /\ Item(t) # i,
         \/ future[i] # "none"
         \/ \E t \in Threads : i = Item(t)
  PROVE  Fresh'
<1>1. /\ ops \in [Threads -> 0..MaxOps] /\ MaxOps \in Nat
      /\ future \in [Items -> {"none", "pending", "running"} \cup Resolved]
  BY ExecutorAssumption DEF IInv, TypeOK
<1>2. \A t \in Threads, n \in 1..MaxOps : n > ops[t] => <<t, n>> # i
  BY <1>1 DEF Fresh, Item
<1>3. \A j \in Items \ {i} : future'[j] = future[j]
  BY <1>1
<1>4. \A t \in Threads, n \in 1..MaxOps : n > ops'[t] => future'[<<t, n>>] = "none"
  BY <1>2, <1>3 DEF Fresh, Items
<1>5. \A t \in Threads : pc'[t] \in {"start", "wait", "put"} => future'[Item(t)] = "none"
  <2> SUFFICES ASSUME NEW t \in Threads, pc'[t] \in {"start", "wait", "put"}
               PROVE  future'[Item(t)] = "none"
    OBVIOUS
  <2>1. pc[t] # "client" /\ Item(t) # i /\ future[Item(t)] = "none"
    BY DEF Fresh
  <2> QED BY <1>3, <2>1, ItemExists
<1> QED BY <1>4, <1>5 DEF Fresh, Item

\* Items in execution stay so while the only future that changes is another one.
LEMMA OthersKeepExecuting ==
  ASSUME IInv, Executing, NEW i \in Items, future[i] # "running", NEW outcome,
         future' = [future EXCEPT ![i] = outcome], UNCHANGED stack
  PROVE  Executing'
<1> SUFFICES ASSUME NEW w \in Workers, NEW k \in 1..Len(stack[w])
             PROVE  future'[stack[w][k]] = "running"
  BY DEF Executing
<1>1. stack[w][k] \in Items /\ future[stack[w][k]] = "running"
  <2>1. stack[w] \in Seq(Items)
    BY DEF IInv, TypeOK
  <2> QED BY <2>1, ElementOfSeq DEF Executing
<1> QED BY <1>1 DEF IInv, TypeOK

LEMMA StepFresh == OrderInv /\ [Next]_vars => Fresh'
<1> SUFFICES ASSUME OrderInv, [Next]_vars PROVE Fresh'
  OBVIOUS
<1>1. IInv /\ Fresh /\ Executing /\ TypeOK
  BY DEF OrderInv, IInv
<1>2. pc \in [Threads -> {"client", "start", "wait", "put", "await", "stop", "join"}]
  BY <1>1 DEF TypeOK
<1>3. ASSUME NEW t \in Threads, Submit(t) \/ Shutdown(t) PROVE Fresh'
  <2>1. BeginOp(t) /\ UNCHANGED future /\ \E place : pc' = [pc EXCEPT ![t] = place]
    BY <1>2, <1>3 DEF Submit, Shutdown, Goto, workVars, BeginOp
  <2> QED BY <1>1, <2>1, BeginKeepsFresh
<1>4. ASSUME NEW t \in Threads,
             \/ Start(t) \/ WaitStarted(t) \/ Await(t) \/ PutStop(t) \/ Join(t)
      PROVE  Fresh'
  <2>1. /\ UNCHANGED <<ops, future>>
        /\ \E place \in {"client", "put", "wait", "join"} : pc' = [pc EXCEPT ![t] = place]
        /\ pc'[t] \in {"put", "wait"} => pc[t] \in {"start", "wait"}
    BY <1>2, <1>4 DEF Start, WaitStarted, Await, PutStop, Join, Goto, workVars
  <2> QED BY <1>1, <1>2, <2>1 DEF Fresh, Item
<1>5. ASSUME NEW t \in Threads, Put(t) \/ Inline(t) PROVE Fresh'
  <2>1. /\ pc[t] = "put" /\ UNCHANGED ops
        /\ \E outcome : future' = [future EXCEPT ![Item(t)] = outcome]
        /\ \E place \in {"client", "await"} : pc' = [pc EXCEPT ![t] = place]
    BY <1>5 DEF Put, Inline, Goto
  <2>2. Item(t) \in Items
    BY <1>1, <2>1, ItemExists
  <2>3. \A u \in Threads : pc'[u] \in {"start", "wait", "put"} =>
                             pc[u] \in {"start", "wait", "put"} /\ Item(u) # Item(t)
    BY <1>2, <2>1 DEF Item
  <2> QED BY <1>1, <2>1, <2>2, <2>3, AnswerKeepsFresh
<1>6. ASSUME NEW i \in Items, future[i] # "none", UNCHANGED <<pc, ops>>,
             NEW outcome, future' = [future EXCEPT ![i] = outcome]
      PROVE  Fresh'
  <2>1. \A u \in Threads : pc[u] \in {"start", "wait", "put"} => Item(u) # i
    BY <1>1, <1>6 DEF Fresh
  <2> QED BY <1>1, <1>6, <2>1, AnswerKeepsFresh
<1>7. ASSUME NEW i \in Items, Cancel(i) PROVE Fresh'
  BY <1>6, <1>7 DEF Cancel
<1>8. ASSUME NEW w \in Workers, Take(w) PROVE Fresh'
  <2>1. CASE UNCHANGED future
    BY <1>1, <1>8, <2>1 DEF Take, Fresh, Item
  <2>2. CASE Head(queue) # STOP /\ future[Head(queue)] = "pending"
             /\ future' = [future EXCEPT ![Head(queue)] = "running"]
    <3>1. Head(queue) \in Items
      BY <1>1, <1>8, <2>2, HeadAndTail DEF TypeOK, Take
    <3> QED BY <1>6, <1>8, <2>2, <3>1 DEF Take
  <2> QED BY <1>8, <2>1, <2>2 DEF Take
<1>9. ASSUME NEW w \in Workers, Finish(w) PROVE Fresh'
  <2>1. stack[w] \in Seq(Items) /\ stack[w] # <<>>
    BY <1>1, <1>9 DEF IInv, TypeOK, WorkerActivity, Finish
  <2>2. Head(stack[w]) \in Items /\ future[Head(stack[w])] = "running"
    <3>1. 1 \in 1..Len(stack[w]) /\ Head(stack[w]) = stack[w][1]
      BY <2>1, HeadTailProperties, LenProperties, EmptySeq
    <3> QED BY <1>1, <2>1, <3>1, HeadAndTail DEF Executing
  <2> QED BY <1>6, <1>9, <2>2 DEF Finish
<1>10. ASSUME NEW w \in Workers, WorkerStart(w) PROVE Fresh'
  BY <1>1, <1>10 DEF WorkerStart, workVars, Fresh, Item
<1>11. CASE UNCHANGED vars
  BY <1>1, <1>11 DEF vars, workVars, Fresh, Item
<1> QED BY <1>3, <1>4, <1>5, <1>7, <1>8, <1>9, <1>10, <1>11 DEF Next, ThreadStep, WorkerStep

LEMMA StepExecuting == OrderInv /\ [Next]_vars => Executing'
<1> SUFFICES ASSUME OrderInv, [Next]_vars PROVE Executing'
  OBVIOUS
<1>1. IInv /\ Fresh /\ Executing /\ TypeOK
  BY DEF OrderInv, IInv
<1>2. /\ stack \in [Workers -> Seq(Items)]
      /\ future \in [Items -> {"none", "pending", "running"} \cup Resolved]
  BY <1>1 DEF TypeOK
<1>3. ASSUME UNCHANGED <<stack, future>> PROVE Executing'
  BY <1>1, <1>3 DEF Executing
<1>4. ASSUME NEW t \in Threads, Put(t) PROVE Executing'
  <2>1. Item(t) \in Items /\ future[Item(t)] = "none"
    BY <1>1, <1>4, ItemExists DEF Put, Fresh
  <2> QED BY <1>1, <1>4, <2>1, OthersKeepExecuting DEF Put
<1>5. ASSUME NEW t \in Threads, Inline(t) PROVE Executing'
  <2>1. Item(t) \in Items /\ future[Item(t)] = "none" /\ t \in Workers
    BY <1>1, <1>5, ItemExists, ExecutorAssumption DEF Inline, Fresh, OnWorker, TypeOK, Threads
  <2> DEFINE item == Item(t)
             deeper == <<item>> \o stack[t]
  <2>2. /\ stack' = [stack EXCEPT ![t] = deeper]
        /\ future' = [future EXCEPT ![item] = "running"]
    BY <1>5 DEF Inline
  <2>3. /\ stack[t] \in Seq(Items) /\ Len(stack[t]) \in Nat
        /\ Len(deeper) = Len(stack[t]) + 1 /\ deeper[1] = item
        /\ \A k \in 2..Len(deeper) : k - 1 \in 1..Len(stack[t]) /\ deeper[k] = stack[t][k - 1]
    BY <1>2, <2>1
  <2>4. \A v \in Workers : \A k \in 1..Len(stack[v]) :
          stack[v][k] \in Items /\ future[stack[v][k]] = "running" /\ stack[v][k] # item
    BY <1>1, <1>2, <2>1, ElementOfSeq DEF Executing
  <2> HIDE DEF deeper, item
  <2>5. \A k \in 1..Len(deeper) : k = 1 \/ k \in 2..Len(deeper)
    BY <2>3
  <2>6. \A j \in Items : future[j] = "running" => future'[j] = "running"
    BY <1>2, <2>2
  <2>7. future'[item] = "running"
    BY <1>2, <2>1, <2>2 DEF item
  <2>8. \A k \in 1..Len(deeper) : future'[deeper[k]] = "running"
    BY <2>1, <2>3, <2>4, <2>5, <2>6, <2>7
  <2>9. \A j, k \in 1..Len(deeper) : deeper[j] = deeper[k] => j = k
    <3> SUFFICES ASSUME NEW j \in 1..Len(deeper), NEW k \in 1..Len(deeper), deeper[j] = deeper[k]
                 PROVE  j = k
      OBVIOUS
    <3>1. CASE j = 1 \/ k = 1
      BY <2>1, <2>3, <2>4, <2>5, <3>1
    <3>2. CASE j \in 2..Len(deeper) /\ k \in 2..Len(deeper)
      <4>1. j - 1 = k - 1
        BY <1>1, <2>1, <2>3, <3>2 DEF Executing
      <4> QED BY <4>1
    <3> QED BY <2>5, <3>1, <3>2
  <2>10. stack'[t] = deeper /\ \A v \in Workers \ {t} : stack'[v] = stack[v]
    BY <1>2, <2>1, <2>2
  <2> QED BY <1>1, <2>4, <2>6, <2>8, <2>9, <2>10 DEF Executing
<1>6. ASSUME NEW i \in Items, Cancel(i) PROVE Executing'
  BY <1>1, <1>6, OthersKeepExecuting DEF Cancel
<1>7. ASSUME NEW w \in Workers, Take(w) PROVE Executing'
  <2>1. CASE UNCHANGED <<stack, future>>
    BY <1>3, <2>1
  <2>2. CASE /\ Head(queue) # STOP /\ future[Head(queue)] = "pending"
             /\ stack' = [stack EXCEPT ![w] = <<Head(queue)>>]
             /\ future' = [future EXCEPT ![Head(queue)] = "running"]
    <3>1. Head(queue) \in Items
      BY <1>1, <1>7, <2>2, HeadAndTail DEF TypeOK, Take
    <3>2. future' \in [Items -> {"none", "pending", "running"} \cup Resolved]
          /\ \A j \in Items : future[j] = "running" => future'[j] = "running"
      BY <1>2, <2>2
    <3>3. stack'[w] = <<Head(queue)>> /\ \A v \in Workers \ {w} : stack'[v] = stack[v]
      BY <1>2, <2>2
    <3>4. future'[Head(queue)] = "running"
      BY <1>2, <2>2, <3>1
    <3>5. \A v \in Workers : \A k \in 1..Len(stack[v]) :
            stack[v][k] \in Items /\ future[stack[v][k]] = "running"
      BY <1>1, <1>2, ElementOfSeq DEF Executing
    <3>6. \A v \in Workers : \A k \in 1..Len(stack'[v]) : future'[stack'[v][k]] = "running"
      BY <3>2, <3>3, <3>4, <3>5
    <3> QED BY <1>1, <3>3, <3>6 DEF Executing
  <2> QED BY <1>7, <2>1, <2>2 DEF Take
<1>8. ASSUME NEW w \in Workers, Finish(w) PROVE Executing'
  <2>1. stack[w] \in Seq(Items) /\ stack[w] # <<>>
    BY <1>1, <1>8 DEF IInv, TypeOK, WorkerActivity, Finish
  <2> DEFINE done == Head(stack[w])
             rest == Tail(stack[w])
  <2>2. PICK outcome : future' = [future EXCEPT ![done] = outcome]
    BY <1>8 DEF Finish
  <2>3. stack' = [stack EXCEPT ![w] = rest]
    BY <1>8 DEF Finish
  <2>4. /\ Len(stack[w]) \in Nat /\ 1 \in 1..Len(stack[w]) /\ done = stack[w][1] /\ done \in Items
        /\ Len(rest) = Len(stack[w]) - 1
        /\ \A k \in 1..Len(rest) : k + 1 \in 2..Len(stack[w]) /\ rest[k] = stack[w][k + 1]
    BY <2>1, HeadTailProperties, HeadAndTail, LenProperties, EmptySeq
  <2> HIDE DEF done, rest
  <2>5. \A k \in 2..Len(stack[w]) : stack[w][k] # done
    BY <1>1, <2>4 DEF Executing
  <2>6. /\ stack'[w] = rest
        /\ \A v \in Workers \ {w} : stack'[v] = stack[v] /\ stack[v] = <<>>
    <3>1. worker[w] = "run" /\ \A v \in Workers \ {w} : worker[v] # "run"
      BY <1>1, <1>8 DEF Finish, IInv, WorkerIdentity
    <3> QED BY <1>1, <1>2, <2>3, <3>1 DEF IInv, WorkerActivity
  <2>7. \A k \in 1..Len(rest) : future'[rest[k]] = "running"
    <3> SUFFICES ASSUME NEW k \in 1..Len(rest) PROVE future'[rest[k]] = "running"
      OBVIOUS
    <3>1. k + 1 \in 1..Len(stack[w]) /\ rest[k] = stack[w][k + 1] /\ rest[k] # done
      BY <2>4, <2>5
    <3>2. future[rest[k]] = "running" /\ rest[k] \in Items
      BY <1>1, <2>1, <3>1, ElementOfSeq DEF Executing
    <3> QED BY <1>2, <2>2, <3>1, <3>2
  <2>8. \A j, k \in 1..Len(rest) : rest[j] = rest[k] => j = k
    <3> SUFFICES ASSUME NEW j \in 1..Len(rest), NEW k \in 1..Len(rest), rest[j] = rest[k]
                 PROVE  j = k
      OBVIOUS
    <3>1. j + 1 = k + 1
      BY <1>1, <2>4 DEF Executing
    <3> QED BY <3>1
  <2> QED BY <2>6, <2>7, <2>8 DEF Executing
<1>9. ASSUME NEW t \in Threads,
             \/ Submit(t) \/ Shutdown(t) \/ Start(t) \/ WaitStarted(t) \/ Await(t) \/ PutStop(t)
             \/ Join(t)
      PROVE  Executing'
  BY <1>3, <1>9 DEF Submit, Shutdown, Start, WaitStarted, Await, PutStop, Join, workVars
<1>10. ASSUME NEW w \in Workers, WorkerStart(w) PROVE Executing'
  BY <1>3, <1>10 DEF WorkerStart, workVars
<1>11. CASE UNCHANGED vars
  BY <1>3, <1>11 DEF vars, workVars
<1> QED BY <1>4, <1>5, <1>6, <1>7, <1>8, <1>9, <1>10, <1>11 DEF Next, ThreadStep, WorkerStep

LEMMA StepOneShutdown == OrderInv /\ [Next]_vars => OneShutdown'
<1> SUFFICES ASSUME OrderInv, [Next]_vars PROVE OneShutdown'
  OBVIOUS
<1>1. IInv /\ OneShutdown /\ TypeOK
  BY DEF OrderInv, IInv
<1>2. /\ pc \in [Threads -> {"client", "start", "wait", "put", "await", "stop", "join"}]
      /\ queue \in Seq(Items \cup {STOP})
      /\ worker \in [Workers -> {"unborn", "born", "get", "run", "ended"}]
  BY <1>1 DEF TypeOK
<1>3. ASSUME NEW t \in Threads, NEW place \in {"client", "start", "wait", "put", "await", "join"},
             pc' = [pc EXCEPT ![t] = place], UNCHANGED closed, NoSentinel => NoSentinel'
      PROVE  OneShutdown'
  BY <1>1, <1>2, <1>3 DEF OneShutdown
<1>4. ASSUME UNCHANGED <<pc, closed>>, NoSentinel => NoSentinel' PROVE OneShutdown'
  BY <1>1, <1>4 DEF OneShutdown
<1>5. ASSUME UNCHANGED <<queue, worker>> PROVE NoSentinel => NoSentinel'
  BY <1>5 DEF NoSentinel
<1>6. ASSUME NEW t \in Threads, Submit(t) PROVE OneShutdown'
  BY <1>3, <1>4, <1>5, <1>6 DEF Submit, Goto, workVars, threadVars, lockVars
<1>7. ASSUME NEW t \in Threads, Shutdown(t) PROVE OneShutdown'
  <2>1. CASE closed
    BY <1>4, <1>5, <1>7, <2>1 DEF Shutdown, workVars, threadVars, lockVars
  <2>2. CASE ~closed
    <3>1. closed' = TRUE /\ pc' = [pc EXCEPT ![t] = "stop"] /\ UNCHANGED <<queue, worker>>
      BY <1>7, <2>2 DEF Shutdown, Goto, workVars, threadVars
    <3> QED BY <1>1, <1>2, <1>5, <2>2, <3>1 DEF OneShutdown
  <2> QED BY <2>1, <2>2
<1>8. ASSUME NEW t \in Threads, Start(t) PROVE OneShutdown'
  <2>1. UNCHANGED <<queue, closed>> /\ \E place \in {"client", "wait", "put"} : Goto(t, place)
    BY <1>8 DEF Start, workVars, lockVars
  <2>2. NoSentinel => NoSentinel'
    BY <1>2, <1>8, <2>1 DEF Start, NoSentinel
  <2> QED BY <1>3, <2>1, <2>2 DEF Goto
<1>9. ASSUME NEW t \in Threads, WaitStarted(t) \/ Await(t) \/ Join(t) PROVE OneShutdown'
  BY <1>3, <1>5, <1>9 DEF WaitStarted, Await, Join, Goto, workVars, threadVars, lockVars
<1>10. ASSUME NEW t \in Threads, Put(t) PROVE OneShutdown'
  <2>1. Item(t) \in Items
    BY <1>1, <1>10, ItemExists DEF Put
  <2>2. NoSentinel => NoSentinel'
    <3> SUFFICES ASSUME NoSentinel PROVE NoSentinel'
      OBVIOUS
    <3>0. PICK n \in Nat : n = Len(queue)
      BY <1>2
    <3>1. Len(queue') = n + 1 /\ queue'[n + 1] = Item(t)
          /\ \A k \in 1..n : queue'[k] = queue[k]
      BY <1>2, <1>10, <2>1, <3>0, AppendProperties DEF Put, Enqueue
    <3>2. \A k \in 1..Len(queue') : k \in 1..n \/ k = n + 1
      BY <3>1
    <3>3. \A k \in 1..Len(queue') : queue'[k] # STOP
      BY <2>1, <3>0, <3>1, <3>2, StopAssumption DEF NoSentinel
    <3> QED BY <1>10, <3>3 DEF Put, threadVars, NoSentinel
  <2> QED BY <1>3, <1>10, <2>2 DEF Put, Goto, lockVars
<1>11. ASSUME NEW t \in Threads, Inline(t) PROVE OneShutdown'
  BY <1>3, <1>5, <1>11 DEF Inline, Goto, threadVars, lockVars
<1>12. ASSUME NEW t \in Threads, PutStop(t) PROVE OneShutdown'
  <2>1. pc[t] = "stop" /\ UNCHANGED closed
        /\ \E place \in {"client", "join"} : pc' = [pc EXCEPT ![t] = place]
    BY <1>12 DEF PutStop, Goto
  <2>2. closed /\ \A u \in Threads : pc'[u] # "stop"
    BY <1>1, <1>2, <2>1 DEF OneShutdown
  <2> QED BY <2>1, <2>2 DEF OneShutdown
<1>13. ASSUME NEW w \in Workers, WorkerStart(w) PROVE OneShutdown'
  <2>1. NoSentinel => NoSentinel'
    BY <1>2, <1>13 DEF WorkerStart, workVars, NoSentinel
  <2> QED BY <1>4, <1>13, <2>1 DEF WorkerStart, lockVars
<1>14. ASSUME NEW w \in Workers, Take(w) PROVE OneShutdown'
  <2>1. NoSentinel => NoSentinel'
    <3> SUFFICES ASSUME NoSentinel PROVE NoSentinel'
      OBVIOUS
    <3>0. PICK n \in Nat : n = Len(queue)
      BY <1>2
    <3>1. n # 0 /\ Head(queue) = queue[1] /\ Len(queue') = n - 1
          /\ \A k \in 1..n - 1 : queue'[k] = queue[k + 1]
      BY <1>2, <1>14, <3>0, HeadTailProperties, EmptySeq DEF Take
    <3>2. Head(queue) # STOP
      BY <3>0, <3>1 DEF NoSentinel
    <3>3. \A v \in Workers : worker'[v] # "ended"
      BY <1>2, <1>14, <3>2 DEF Take, NoSentinel
    <3>4. \A k \in 1..Len(queue') : queue'[k] # STOP
      BY <3>0, <3>1 DEF NoSentinel
    <3> QED BY <3>3, <3>4 DEF NoSentinel
  <2> QED BY <1>4, <1>14, <2>1 DEF Take, lockVars
<1>15. ASSUME NEW w \in Workers, Finish(w) PROVE OneShutdown'
  <2>1. NoSentinel => NoSentinel'
    BY <1>2, <1>15 DEF Finish, LoopAfter, NoSentinel
  <2> QED BY <1>4, <1>15, <2>1 DEF Finish, lockVars
<1>16. ASSUME NEW i \in Items, Cancel(i) PROVE OneShutdown'
  BY <1>4, <1>5, <1>16 DEF Cancel, threadVars, lockVars
<1>17. CASE UNCHANGED vars
  BY <1>4, <1>5, <1>17 DEF vars, workVars, threadVars, lockVars
<1> QED BY <1>6, <1>7, <1>8, <1>9, <1>10, <1>11, <1>12, <1>13, <1>14, <1>15, <1>16, <1>17
        DEF Next, ThreadStep, WorkerStep

LEMMA SpecOrderInv == Spec => []OrderInv
<1>1. OrderInv /\ [Next]_vars => OrderInv'
  BY StepIInv, StepFresh, StepExecuting, StepOneShutdown DEF OrderInv
<1> QED BY <1>1, InitOrderInv, PTL DEF Spec

-----------------------------------------------------------------------------
(* The refinement: each step of ZOSExecutor is one of SerialExecutor or none. *)

serving == IF thread = NoThread THEN <<>> ELSE stack[thread]
finished == thread # NoThread /\ worker[thread] = "ended"

LEMMA InitImplements == Init => Serial!AInit
BY DEF Init, Serial!AInit

LEMMA StepImplements == OrderInv /\ [Next]_vars => [Serial!ANext]_(Serial!avars)
<1> SUFFICES ASSUME OrderInv, [Next]_vars PROVE Serial!ANext \/ UNCHANGED Serial!avars
  OBVIOUS
<1>1. IInv /\ Fresh /\ Executing /\ OneShutdown /\ TypeOK
  BY DEF OrderInv, IInv
<1>2. UNCHANGED <<queue, future, serving, finished>> => UNCHANGED Serial!avars
  BY DEF Serial!avars, serving, finished
<1>3. /\ stack \in [Workers -> Seq(Items)] /\ thread \in Workers \cup {NoThread}
      /\ NoThread \notin Workers
  BY <1>1, ExecutorAssumption DEF TypeOK
<1>4. UNCHANGED <<thread, worker, stack>> => UNCHANGED <<serving, finished>>
  BY DEF serving, finished
<1>5. ASSUME UNCHANGED <<thread, worker, stack, queue, future>> PROVE UNCHANGED Serial!avars
  BY <1>2, <1>4, <1>5
<1>6. ASSUME NEW t \in Threads,
             Submit(t) \/ Shutdown(t) \/ WaitStarted(t) \/ Await(t) \/ Join(t)
      PROVE  UNCHANGED Serial!avars
  BY <1>5, <1>6 DEF Submit, Shutdown, WaitStarted, Await, Join, threadVars, workVars
<1>7. ASSUME NEW t \in Threads, Start(t) PROVE UNCHANGED Serial!avars
  <2>1. CASE UNCHANGED <<thread, worker>>
    BY <1>5, <1>7, <2>1 DEF Start, workVars
  <2>2. CASE NoWorkerYet /\ \E w \in Workers : /\ worker[w] = "unborn" /\ thread' = w
                                               /\ worker' = [worker EXCEPT ![w] = "born"]
    <3>1. PICK w \in Workers : /\ worker[w] = "unborn" /\ thread' = w
                               /\ worker' = [worker EXCEPT ![w] = "born"]
      BY <2>2
    <3>2. UNCHANGED <<queue, stack, future>> /\ stack[w] = <<>> /\ worker'[w] = "born"
      BY <1>1, <1>7, <3>1 DEF Start, workVars, IInv, WorkerActivity, TypeOK
    <3>3. UNCHANGED <<serving, finished>>
      BY <1>3, <2>2, <3>1, <3>2 DEF serving, finished, NoWorkerYet
    <3> QED BY <1>2, <3>2, <3>3
  <2> QED BY <1>7, <2>1, <2>2 DEF Start
<1>8. ASSUME NEW t \in Threads, Put(t) PROVE Serial!ANext
  <2>1. Item(t) \in Items /\ future[Item(t)] = "none"
    BY <1>1, <1>8, ItemExists DEF Put, Fresh
  <2>2. Serial!Accept(Item(t))
    BY <1>8, <2>1 DEF Put, Enqueue, threadVars, Serial!Accept
  <2> QED BY <2>1, <2>2 DEF Serial!ANext
<1>9. ASSUME NEW t \in Threads, Inline(t) PROVE Serial!ANext
  <2>1. Item(t) \in Items /\ future[Item(t)] = "none"
    BY <1>1, <1>9, ItemExists DEF Inline, Fresh
  <2>2. t \in Workers /\ t = thread /\ worker[t] = "run" /\ stack[t] # <<>>
    BY <1>1, <1>9, ExecutorAssumption
       DEF Inline, OnWorker, IInv, WorkerIdentity, WorkerActivity, TypeOK, Threads
  <2>3. stack'[t] = <<Item(t)>> \o stack[t]
    BY <1>3, <1>9, <2>2 DEF Inline
  <2>4. Serial!Nest(Item(t))
    BY <1>3, <1>9, <2>1, <2>2, <2>3 DEF Inline, threadVars, Serial!Nest
  <2> QED BY <2>1, <2>4 DEF Serial!ANext
<1>10. ASSUME NEW t \in Threads, PutStop(t) PROVE Serial!ANext \/ UNCHANGED Serial!avars
  <2>1. UNCHANGED <<thread, worker, stack, future>> /\ NoSentinel
    BY <1>1, <1>10 DEF PutStop, threadVars, OneShutdown
  <2>2. CASE thread = NoThread
    BY <1>5, <1>10, <2>1, <2>2 DEF PutStop
  <2>3. CASE thread # NoThread
    <3>1. Serial!Mark
      BY <1>3, <1>10, <2>1, <2>3 DEF PutStop, Enqueue, NoSentinel, Serial!Mark
    <3> QED BY <3>1 DEF Serial!ANext
  <2> QED BY <2>2, <2>3
<1>11. ASSUME NEW w \in Workers, WorkerStart(w) PROVE UNCHANGED Serial!avars
  <2>1. /\ UNCHANGED <<thread, stack, queue, future>> /\ w = thread
        /\ worker[w] = "born" /\ worker'[w] = "get"
    BY <1>1, <1>11 DEF WorkerStart, workVars, IInv, WorkerIdentity, TypeOK
  <2>2. UNCHANGED <<serving, finished>>
    BY <2>1 DEF serving, finished
  <2> QED BY <1>2, <2>1, <2>2
<1>12. ASSUME NEW w \in Workers, Take(w) PROVE Serial!ANext
  <2>1. /\ w = thread /\ thread # NoThread /\ worker[w] = "get" /\ stack[w] = <<>>
        /\ UNCHANGED thread /\ queue # <<>> /\ queue' = Tail(queue)
    BY <1>1, <1>3, <1>12 DEF Take, IInv, WorkerIdentity, WorkerActivity
  <2>2. CASE /\ Head(queue) = STOP /\ worker' = [worker EXCEPT ![w] = "ended"]
             /\ UNCHANGED <<stack, future>>
    <3>1. worker'[w] = "ended"
      BY <1>1, <2>2 DEF TypeOK
    <3> QED BY <2>1, <2>2, <3>1 DEF Serial!Serve, Serial!ANext
  <2>3. CASE /\ Head(queue) # STOP /\ future[Head(queue)] = "cancelled"
             /\ UNCHANGED <<worker, stack, future>>
    BY <2>1, <2>3 DEF Serial!Serve, Serial!ANext
  <2>4. CASE /\ Head(queue) # STOP /\ future[Head(queue)] = "pending"
             /\ worker' = [worker EXCEPT ![w] = "run"]
             /\ stack' = [stack EXCEPT ![w] = <<Head(queue)>>]
             /\ future' = [future EXCEPT ![Head(queue)] = "running"]
    <3>1. worker'[w] = "run" /\ stack'[w] = <<Head(queue)>>
      BY <1>1, <1>3, <2>4 DEF TypeOK
    <3> QED BY <2>1, <2>4, <3>1 DEF Serial!Serve, Serial!ANext
  <2> QED BY <1>12, <2>2, <2>3, <2>4 DEF Take
<1>13. ASSUME NEW w \in Workers, Finish(w) PROVE Serial!ANext
  <2>1. /\ w = thread /\ thread # NoThread /\ worker[w] = "run"
        /\ stack[w] # <<>> /\ stack[w] \in Seq(Items) /\ UNCHANGED <<thread, queue>>
    BY <1>1, <1>3, <1>13 DEF Finish, IInv, WorkerIdentity, WorkerActivity
  <2>2. future[Head(stack[w])] = "running"
    <3>1. 1 \in 1..Len(stack[w]) /\ Head(stack[w]) = stack[w][1]
      BY <2>1, HeadTailProperties, LenProperties, EmptySeq
    <3> QED BY <1>1, <3>1 DEF Executing
  <2>3. stack'[w] = Tail(stack[w]) /\ worker'[w] # "ended"
    BY <1>1, <1>3, <1>13 DEF Finish, LoopAfter, TypeOK
  <2>4. \E o \in {"result", "exception"} : future' = [future EXCEPT ![Head(stack[w])] = o]
    BY <1>13 DEF Finish
  <2> QED BY <2>1, <2>2, <2>3, <2>4 DEF Serial!Complete, Serial!ANext
<1>14. ASSUME NEW i \in Items, Cancel(i) PROVE Serial!ANext
  BY <1>14 DEF Cancel, threadVars, Serial!Withdraw, Serial!ANext
<1>15. CASE UNCHANGED vars
  BY <1>5, <1>15 DEF vars, threadVars, workVars
<1> QED BY <1>6, <1>7, <1>8, <1>9, <1>10, <1>11, <1>12, <1>13, <1>14, <1>15
        DEF Next, ThreadStep, WorkerStep

\* Whatever its threads do, what clients see of the executor is the serial one: calls are
\* started in the order of the queue, one at a time, each once and none after a shutdown's
\* sentinel; a reentrant call is served in place (executor.py:64, 72 and 93).
THEOREM Implements == Spec => ImplementsSerialExecutor
BY InitImplements, StepImplements, SpecOrderInv, PTL DEF Spec, ImplementsSerialExecutor, Serial!ASpec
=============================================================================
