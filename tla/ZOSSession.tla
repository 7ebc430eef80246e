----------------------------- MODULE ZOSSession -----------------------------
(***************************************************************************)
(* zos/session.py over zos/state.py: callers that connect, dispatch,       *)
(* disconnect, restart and close one session.  Lifecycle methods hold the  *)
(* reentrant _lock across a call to the worker; _ensure_open, the          *)
(* connected test of dispatch() and the snapshot of restart() are read     *)
(* without it.  The worker serves the queue of ZOSExecutor and runs the    *)
(* methods of RealBackend.  As there, a call is tested and queued in two   *)
(* steps, and one that shutdown() comes between is never answered.         *)
(***************************************************************************)
EXTENDS Naturals, Sequences

CONSTANTS Processes, Instances, NoApp, Unclosable, Faults,  \* as in RealBackend
          Callers,         \* threads that use the session
          Closers,         \* those that call close()
          Interruptible,   \* those a KeyboardInterrupt may reach (the main thread)
          OwnsExecutor,    \* whether the session made its executor
          DefaultMode,     \* config.connection_mode
          DefaultInstance, \* config.instance_id
          Saves,           \* values of disconnect(save=) that are used
          MaxOps,          \* bound: operations begun per caller
          NoCaller         \* no thread; the unlocked _lock

VARIABLES app, system, ownership, mode, live, result,  \* RealBackend
          state,  \* SessionState: lifecycle, mode, ownership, instance
          lock,   \* holder of _lock
          pc,     \* where each caller is
          args,   \* mode, instance, save of the method it is in
          next,   \* what the operation does after that method
          reply,  \* the future of its executor call
          ops,    \* operations begun
          queue,  \* calls the worker has accepted
          open,   \* the executor accepts calls
          built   \* _backend is not None

Backend == INSTANCE RealBackend

ASSUME SessionAssumption ==
  /\ Closers \subseteq Callers /\ Interruptible \subseteq Callers
  /\ NoCaller \notin Callers
  /\ NoApp \notin Processes \cup Instances
  /\ OwnsExecutor \in BOOLEAN
  /\ DefaultMode \in Backend!Modes /\ DefaultInstance \in Instances
  /\ Saves \subseteq BOOLEAN
  /\ MaxOps \in Nat \ {0}

bvars == <<app, system, ownership, mode, live, result>>
callVars == <<reply, queue>>
execVars == <<open, built>>
vars == <<bvars, state, lock, pc, args, next, ops, callVars, execVars>>

Init == /\ Backend!Init
        /\ state = [lifecycle |-> "new", mode |-> "none", ownership |-> "none",
                    instance |-> NoApp]
        /\ lock = NoCaller
        /\ pc = [t \in Callers |-> "idle"]
        /\ args = [t \in Callers |->
                     [mode |-> DefaultMode, instance |-> DefaultInstance, save |-> FALSE]]
        /\ next = [t \in Callers |-> "return"]
        /\ reply = [t \in Callers |-> "unsent"]
        /\ ops = [t \in Callers |-> 0]
        /\ queue = <<>>
        /\ open = TRUE
        /\ built = FALSE

-----------------------------------------------------------------------------
(* state.py *)

Keep == "keep"

\* transition(): mode and ownership survive when omitted, the instance does not.
Transition(lifecycle, m, o, i) ==
  state' = [lifecycle |-> lifecycle,
            mode |-> IF m = Keep THEN state.mode ELSE m,
            ownership |-> IF o = Keep THEN state.ownership ELSE o,
            instance |-> i]

ResetConnection(lifecycle) == Transition(lifecycle, "none", "none", NoApp)

Connected == state.lifecycle = "connected"
IsOpen == state.lifecycle # "closed"   \* _ensure_open does not raise

-----------------------------------------------------------------------------
(* A caller begins an operation; one that _ensure_open refuses changes nothing. *)

Goto(t, place) == pc' = [pc EXCEPT ![t] = place]

Begin(t, place, target, then) ==
  /\ pc[t] = "idle" /\ ops[t] < MaxOps
  /\ ops' = [ops EXCEPT ![t] = @ + 1]
  /\ Goto(t, place)
  /\ args' = [args EXCEPT ![t] = target]
  /\ next' = [next EXCEPT ![t] = then]
  /\ UNCHANGED <<bvars, state, lock, callVars, execVars>>

Target(m, i) == [mode |-> m, instance |-> i, save |-> FALSE]
Default == Target(DefaultMode, DefaultInstance)

BeginConnect(t) == \E m \in Backend!Modes, i \in Instances :
                     Begin(t, "enterConnect", Target(m, i), "return")
BeginDisconnect(t) == \E s \in Saves :
                        Begin(t, "enterDisconnect", [args[t] EXCEPT !.save = s], "return")
\* Not connected: connect() to the configured target first, whatever it was before.
BeginDispatch(t) == /\ IsOpen
                    /\ IF Connected THEN Begin(t, "dispatching", args[t], "return")
                                    ELSE Begin(t, "enterConnect", Default, "dispatch")
\* Asks the worker for its part only when connected, and without the lock.
BeginStatus(t) == Connected /\ Begin(t, "status", args[t], "return")
BeginClose(t) == t \in Closers /\ Begin(t, "close", [args[t] EXCEPT !.save = FALSE], "shutdown")
\* The snapshot decides, without the lock, what the restart connects to.
BeginRestart(t) ==
  /\ IsOpen
  /\ Begin(t, "enterDisconnect",
           Target(IF state.mode # "none" THEN state.mode ELSE DefaultMode,
                  IF state.instance # NoApp THEN state.instance ELSE DefaultInstance),
           "connect")

BeginSome(t) == \/ BeginConnect(t) \/ BeginDisconnect(t) \/ BeginDispatch(t)
                \/ BeginStatus(t) \/ BeginClose(t) \/ BeginRestart(t)

\* _ensure_open at the top of connect() and disconnect(), before the lock.
Enter(t) == /\ \/ IsOpen /\ pc[t] = "enterConnect" /\ Goto(t, "connect")
               \/ IsOpen /\ pc[t] = "enterDisconnect" /\ Goto(t, "disconnect")
               \/ ~IsOpen /\ pc[t] \in {"enterConnect", "enterDisconnect"} /\ Goto(t, "idle")
            /\ UNCHANGED <<bvars, state, lock, args, next, ops, callVars, execVars>>

-----------------------------------------------------------------------------
(* The methods that hold the lock *)

Follow == [return |-> "idle", connect |-> "enterConnect", dispatch |-> "dispatching",
           shutdown |-> "shutdown"]

\* A bug: close() does not keep the lock around the method it calls.
DropLock(t, place) == IF lock = t THEN NoCaller ELSE lock
\* The lock goes when a method ends, unless close() holds it around the method.
LockAfter(t, place) == IF place = "shutdown" THEN t ELSE IF lock = t THEN NoCaller ELSE lock

Leave(t, place) == /\ Goto(t, place)
                   /\ lock' = LockAfter(t, place)
                   /\ next' = [next EXCEPT ![t] = "return"]
Return(t) == Leave(t, Follow[next[t]])
Raise(t) == Leave(t, IF next[t] = "shutdown" THEN "shutdown" ELSE "idle")

\* A bug: the methods do not exclude each other.
NeverLocked(t) == TRUE
\* A bug: a lock that is not reentrant.
PlainLock(t) == lock = NoCaller
Lockable(t) == lock \in {NoCaller, t}

SameTarget(t) == state.mode = args[t].mode /\ state.instance = args[t].instance

\* connect() from the lock on: keep the connection and ask for its status,
\* refuse, or call the worker.
Connect(t) ==
  /\ pc[t] = "connect" /\ Lockable(t)
  /\ \/ Connected /\ SameTarget(t) /\ Goto(t, "status") /\ lock' = t /\ UNCHANGED <<state, next>>
     \/ Connected /\ ~SameTarget(t) /\ Raise(t) /\ UNCHANGED state
     \/ /\ ~Connected
        /\ Transition("connecting", args[t].mode, Keep, args[t].instance)
        /\ Goto(t, "connecting") /\ lock' = t /\ UNCHANGED next
  /\ UNCHANGED <<bvars, args, ops, callVars, execVars>>

\* A bug: a failed attempt is not recorded.
StayConnecting(m, i) == UNCHANGED state
Fault(m, i) == Transition("faulted", m, Keep, i)

\* A bug: the future is not waited for.
Submitted(t) == reply[t] # "unsent"
Replied(t) == reply[t] \notin {"unsent", "accepted", "sent", "lost"}

ConnectDone(t) ==
  /\ pc[t] = "connecting" /\ Replied(t)
  /\ \/ reply[t] = "error" /\ Fault(args[t].mode, args[t].instance) /\ Raise(t)
     \/ /\ reply[t] # "error"
        /\ Transition("connected", args[t].mode, reply[t], args[t].instance)
        /\ Return(t)
  /\ reply' = [reply EXCEPT ![t] = "unsent"]
  /\ UNCHANGED <<bvars, args, ops, queue, execVars>>

Disconnectable == {"connected", "faulted", "connecting"}

\* disconnect() from the lock on; without a backend there is nothing to call.
Disconnect(t) ==
  /\ pc[t] = "disconnect" /\ Lockable(t)
  /\ \/ /\ state.lifecycle \notin Disconnectable
        /\ Return(t) /\ UNCHANGED <<state, reply>>
     \/ /\ state.lifecycle \in Disconnectable
        /\ Transition("disconnecting", Keep, Keep, state.instance)
        /\ Goto(t, "disconnecting") /\ lock' = t /\ UNCHANGED next
        /\ reply' = [reply EXCEPT ![t] = IF built THEN "unsent" ELSE "none"]
  /\ UNCHANGED <<bvars, args, ops, queue, execVars>>

\* A failure keeps mode and ownership in the state, not the instance.
DisconnectDone(t) ==
  /\ pc[t] = "disconnecting" /\ Replied(t)
  /\ \/ reply[t] = "error" /\ Transition("faulted", Keep, Keep, NoApp) /\ Raise(t)
     \/ reply[t] # "error" /\ ResetConnection("disconnected") /\ Return(t)
  /\ reply' = [reply EXCEPT ![t] = "unsent"]
  /\ UNCHANGED <<bvars, args, ops, queue, execVars>>

\* dispatch() passes the answer on; status() makes a failure part of its own.
CallDone(t) == /\ pc[t] \in {"dispatching", "status"} /\ Replied(t)
               /\ Return(t)
               /\ reply' = [reply EXCEPT ![t] = "unsent"]
               /\ UNCHANGED <<bvars, state, args, ops, queue, execVars>>

\* close(): the lock is held over disconnect() and shutdown().
Close(t) == /\ pc[t] = "close" /\ Lockable(t)
            /\ \/ ~IsOpen /\ Goto(t, "idle") /\ UNCHANGED lock
               \/ IsOpen /\ Goto(t, "disconnect") /\ lock' = t
            /\ UNCHANGED <<bvars, state, args, next, ops, callVars, execVars>>

\* The executor refuses further calls; then its thread is joined, after it has
\* served what it had accepted.
StopExecutor(t) == /\ pc[t] = "shutdown" /\ OwnsExecutor /\ open
                   /\ open' = FALSE
                   /\ UNCHANGED <<bvars, state, lock, pc, args, next, ops, callVars, built>>

Joined == ~open /\ queue = <<>>

CloseDone(t) == /\ pc[t] = "shutdown" /\ (OwnsExecutor => Joined)
                /\ ResetConnection("closed")
                /\ Goto(t, "idle") /\ lock' = NoCaller
                /\ UNCHANGED <<bvars, args, next, ops, callVars, execVars>>

-----------------------------------------------------------------------------
(* Calls to the worker *)

Calling == {"connecting", "disconnecting", "dispatching", "status"}

\* executor.call(): the tests of _closed in submit() and start() raise WorkerError
\* when it is shut down.
Submit(t) ==
  /\ pc[t] \in Calling /\ reply[t] = "unsent"
  /\ reply' = [reply EXCEPT ![t] = IF open THEN "accepted" ELSE "error"]
  /\ UNCHANGED <<bvars, state, lock, pc, args, next, ops, queue, execVars>>

\* The put, without a lock: what it puts behind the sentinel of shutdown() is never
\* served, and its future is waited for without a limit.
Put(t) ==
  /\ pc[t] \in Calling /\ reply[t] = "accepted"
  /\ \/ /\ open
        /\ queue' = Append(queue, [caller |-> t, op |-> pc[t], arg |-> args[t]])
        /\ reply' = [reply EXCEPT ![t] = "sent"]
     \/ ~open /\ reply' = [reply EXCEPT ![t] = "lost"] /\ UNCHANGED queue
  /\ UNCHANGED <<bvars, state, lock, pc, args, next, ops, execVars>>

\* The worker runs one call; success answers with the ownership it leaves.
Answer(t) == reply' = IF t = NoCaller THEN reply
                      ELSE [reply EXCEPT ![t] = IF result' = "error" THEN "error" ELSE ownership']

Serve == /\ queue # <<>>
         /\ LET call == Head(queue) IN
              /\ \/ call.op = "connecting" /\ Backend!Connect(call.arg.mode, call.arg.instance)
                 \/ call.op = "disconnecting" /\ Backend!Disconnect(call.arg.save, FALSE)
                 \/ call.op = "dispatching" /\ Backend!Dispatch
                 \/ call.op = "status" /\ Backend!Operate
              /\ Answer(call.caller)
         /\ queue' = Tail(queue)
         /\ built' = TRUE
         /\ UNCHANGED <<state, lock, pc, args, next, ops, open>>

\* A KeyboardInterrupt ends the wait for the future and is not an Exception: no
\* transition is made, only the lock is released; the worker goes on.
Interrupt(t) ==
  /\ t \in Interruptible /\ pc[t] \in Calling /\ reply[t] \in {"sent", "lost"}
  /\ queue' = [k \in DOMAIN queue |-> IF queue[k].caller = t
                                      THEN [queue[k] EXCEPT !.caller = NoCaller] ELSE queue[k]]
  /\ reply' = [reply EXCEPT ![t] = "unsent"]
  /\ Raise(t)
  /\ UNCHANGED <<bvars, state, args, ops, execVars>>

-----------------------------------------------------------------------------
Step(t) == \/ Enter(t) \/ Connect(t) \/ ConnectDone(t) \/ Disconnect(t) \/ DisconnectDone(t)
           \/ CallDone(t) \/ Close(t) \/ StopExecutor(t) \/ CloseDone(t)
           \/ Submit(t) \/ Put(t)

Next == \/ \E t \in Callers : BeginSome(t) \/ Step(t) \/ Interrupt(t)
        \/ Serve

Spec == Init /\ [][Next]_vars

\* Callers inside the session and the worker are scheduled; OpticStudio answers.
Fairness == WF_vars(Serve) /\ \A t \in Callers : WF_vars(Step(t))
FairSpec == Spec /\ Fairness

-----------------------------------------------------------------------------
(* Properties *)

\* The ranges of the state of ZOSSession, and of what it shares with RealBackend.
TypeOK ==
  /\ Backend!TypeOK
  /\ state \in [lifecycle : {"new", "connecting", "connected", "disconnecting",
                             "disconnected", "faulted", "closed"},
                mode : Backend!Modes \cup {"none"},
                ownership : {"none", "owned", "borrowed"},
                instance : Instances \cup {NoApp}]
  /\ lock \in Callers \cup {NoCaller}
  /\ pc \in [Callers -> Calling \cup {"idle", "enterConnect", "enterDisconnect", "connect",
                                      "disconnect", "close", "shutdown"}]
  /\ args \in [Callers -> [mode : Backend!Modes, instance : Instances, save : BOOLEAN]]
  /\ next \in [Callers -> DOMAIN Follow]
  /\ reply \in [Callers -> {"unsent", "accepted", "sent", "lost",
                            "error", "none", "owned", "borrowed"}]
  /\ ops \in [Callers -> 0..MaxOps]
  /\ queue \in Seq([caller : Callers \cup {NoCaller}, op : Calling,
                    arg : [mode : Backend!Modes, instance : Instances, save : BOOLEAN]])
  /\ open \in BOOLEAN /\ built \in BOOLEAN

\* What a connected session says of its application is so: the worker's backend
\* holds one, in that mode, with that ownership, of that instance.
ConnectedIsTrue ==
  Connected => /\ app # NoApp
               /\ mode = state.mode /\ ownership = state.ownership
               /\ mode = "extension" => app = state.instance

\* Between operations the lifecycle is settled and tells whether an application
\* is held: no failure leaves one behind a session that is not connected.
SettledWhenUnlocked ==
  lock = NoCaller => /\ state.lifecycle \notin {"connecting", "disconnecting"}
                     /\ Connected <=> app # NoApp

\* After close() has stopped its own executor nothing is attached any more,
\* whatever callers were on their way past _ensure_open.
ClosedHoldsNothing == ~open /\ queue = <<>> => app = NoApp

\* Every operation ends, also when callers queue up at the lock or the worker is busy
\* with dispatches, except one whose call close() overtook on its way to the queue.
OperationsReturn == \A t \in Callers : pc[t] # "idle" ~> pc[t] = "idle" \/ reply[t] = "lost"

\* A caller whose call is lost waits for ever without the lock, for dispatch() or status()
\* and never within connect(), disconnect() or close(): it keeps no one else waiting.
LostHoldsNothing ==
  \A t \in Callers : reply[t] = "lost" =>
                       ~open /\ lock # t /\ pc[t] \in {"dispatching", "status"}

\* The target of the last connection is remembered as a whole: while a mode is,
\* which restart() will ask for, so is the instance it belongs to.
TargetIsWhole == state.mode # "none" => state.instance # NoApp

\* A closed session stays closed: later operations raise SessionClosedError.
ClosedIsFinal == [][~IsOpen => ~IsOpen']_vars
=============================================================================
