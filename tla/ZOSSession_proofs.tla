------------------------- MODULE ZOSSession_proofs -------------------------
(***************************************************************************)
(* Proofs about ZOSSession: for any callers, instances, failures and any   *)
(* bound on their operations the state is well typed and, when no wait is  *)
(* interrupted, a connected session tells the truth, an unlocked one is    *)
(* settled, nothing stays attached behind a closed one, and a caller whose *)
(* call was lost keeps nobody else waiting.                                *)
(***************************************************************************)
EXTENDS ZOSSession, SequenceTheorems, TLAPS

Requests == [mode : Backend!Modes, instance : Instances, save : BOOLEAN]
CallsSent == [caller : Callers \cup {NoCaller}, op : Calling, arg : Requests]
Places == Calling \cup {"idle", "enterConnect", "enterDisconnect", "connect", "disconnect",
                        "close", "shutdown"}
Replies == {"unsent", "accepted", "sent", "lost", "error", "none", "owned", "borrowed"}
States == [lifecycle : {"new", "connecting", "connected", "disconnecting", "disconnected",
                        "faulted", "closed"},
           mode : Backend!Modes \cup {"none"}, ownership : {"none", "owned", "borrowed"},
           instance : Instances \cup {NoApp}]

-----------------------------------------------------------------------------
(* The methods of the worker *)

\* What dispatch() reaches leaves everything alone but the system.
LEMMA DispatchKeepsApp ==
  ASSUME Backend!TypeOK, Backend!Dispatch \/ Backend!Operate
  PROVE  UNCHANGED <<app, ownership, mode>> /\ Backend!TypeOK'
<1> USE DEF Backend!TypeOK, Backend!refs, Backend!Unconnected, Backend!Fails
<1>1. CASE Backend!CloseFile
  BY <1>1 DEF Backend!CloseFile
<1>2. CASE Backend!OpenFile
  BY <1>2 DEF Backend!OpenFile
<1>3. CASE Backend!NewSystem
  BY <1>3 DEF Backend!NewSystem
<1>4. CASE Backend!Operate
  BY <1>4 DEF Backend!Operate
<1>5. CASE \E withPath \in BOOLEAN : Backend!SaveFile(withPath)
  BY <1>5 DEF Backend!SaveFile, Backend!SaveMayFail, Backend!SaveMaySucceed
<1> QED BY <1>1, <1>2, <1>3, <1>4, <1>5 DEF Backend!Dispatch

\* connect() without an application obtains the one that was asked for, or fails and
\* leaves none.
LEMMA ConnectObtains ==
  ASSUME Backend!TypeOK, NEW m \in Backend!Modes, NEW i \in Instances, Backend!Connect(m, i)
  PROVE  /\ Backend!TypeOK'
         /\ app = NoApp =>
              IF result' = "error" THEN app' = NoApp
              ELSE /\ app' # NoApp /\ mode' = m /\ ownership' \in {"owned", "borrowed"}
                   /\ m = "extension" => app' = i
<1> USE SessionAssumption
    DEF Backend!TypeOK, Backend!Connect, Backend!Obtainable, Backend!CleanUp,
        Backend!ForgetAll, Backend!Fails, Backend!refs, Backend!Modes, Backend!Owner
<1>1. Backend!TypeOK'
  OBVIOUS
<1> QED BY <1>1

\* disconnect() lets go of the application whatever fails.
LEMMA DisconnectLetsGo ==
  ASSUME Backend!TypeOK, NEW save \in BOOLEAN, Backend!Disconnect(save, FALSE)
  PROVE  Backend!TypeOK' /\ app' = NoApp
BY DEF Backend!TypeOK, Backend!Disconnect, Backend!ForgetAlways, Backend!ForgetAll,
       Backend!CloseApplication, Backend!SaveMayFail, Backend!SaveMaySucceed, Backend!refs

-----------------------------------------------------------------------------
(* Types *)

LEMMA SavesARequest ==
  ASSUME NEW r \in Requests, NEW s \in BOOLEAN
  PROVE  [r EXCEPT !.save = s] \in Requests
BY Zenon DEF Requests

Typed == /\ Backend!TypeOK
         /\ state \in States /\ lock \in Callers \cup {NoCaller}
         /\ pc \in [Callers -> Places] /\ args \in [Callers -> Requests]
         /\ next \in [Callers -> {"return", "connect", "dispatch", "shutdown"}]
         /\ reply \in [Callers -> Replies] /\ ops \in [Callers -> 0..MaxOps]
         /\ queue \in Seq(CallsSent) /\ open \in BOOLEAN /\ built \in BOOLEAN

LEMMA TypedIsTypeOK == (Typed <=> TypeOK) /\ (Typed' <=> TypeOK')
<1>1. DOMAIN Follow = {"return", "connect", "dispatch", "shutdown"}
  BY DEF Follow
<1>2. Typed <=> TypeOK
  BY <1>1, Zenon DEF Typed, TypeOK, States, Places, Requests, Replies, CallsSent
<1>3. Typed' <=> TypeOK'
  BY <1>1, Zenon DEF Typed, TypeOK, States, Places, Requests, Replies, CallsSent
<1> QED BY <1>2, <1>3

LEMMA InitTypeOK == Init => TypeOK
<1> SUFFICES ASSUME Init PROVE TypeOK
  OBVIOUS
<1>1. queue \in Seq(CallsSent)
  BY EmptySeq DEF Init
<1>2. Backend!TypeOK
  BY DEF Init, Backend!Init, Backend!TypeOK, Backend!Modes
<1>3. state \in States
  BY DEF Init, States
<1>4. pc \in [Callers -> Places] /\ reply \in [Callers -> Replies]
      /\ args \in [Callers -> Requests] /\ ops \in [Callers -> 0..MaxOps]
  BY SessionAssumption DEF Init, Places, Replies, Requests
<1> QED BY <1>1, <1>2, <1>3, <1>4, SessionAssumption, TypedIsTypeOK DEF Init, Typed

LEMMA TransitionTyped ==
  ASSUME state \in States, NEW l, NEW m, NEW o, NEW i, Transition(l, m, o, i),
         l \in {"connecting", "connected", "disconnecting", "disconnected", "faulted", "closed"},
         m \in Backend!Modes \cup {"none", Keep}, o \in {"none", "owned", "borrowed", Keep},
         i \in Instances \cup {NoApp}
  PROVE  state' \in States
<1>1. /\ state.mode \in Backend!Modes \cup {"none"}
      /\ state.ownership \in {"none", "owned", "borrowed"}
  BY DEF States
<1> QED BY <1>1 DEF Transition, States

LEMMA LeaveTyped ==
  ASSUME TypeOK, NEW t \in Callers, NEW place \in Places, Leave(t, place)
  PROVE  /\ pc' \in [Callers -> Places] /\ lock' \in Callers \cup {NoCaller}
         /\ next' \in [Callers -> {"return", "connect", "dispatch", "shutdown"}]
BY TypedIsTypeOK DEF Typed, Leave, LockAfter, Goto

LEMMA ReturnTyped ==
  ASSUME TypeOK, NEW t \in Callers, Return(t) \/ Raise(t)
  PROVE  /\ pc' \in [Callers -> Places] /\ lock' \in Callers \cup {NoCaller}
         /\ next' \in [Callers -> {"return", "connect", "dispatch", "shutdown"}]
<1>1. next[t] \in {"return", "connect", "dispatch", "shutdown"}
  BY TypedIsTypeOK DEF Typed
<1>2. /\ Follow[next[t]] \in Places
      /\ (IF next[t] = "shutdown" THEN "shutdown" ELSE "idle") \in Places
  BY <1>1 DEF Follow, Places, Calling
<1> QED BY <1>2, LeaveTyped DEF Return, Raise

LEMMA StepTypeOK == TypeOK /\ [Next]_vars => TypeOK'
<1> SUFFICES ASSUME TypeOK, [Next]_vars PROVE TypeOK'
  OBVIOUS
<1> USE DEF Goto
<1>1. Backend!TypeOK /\ queue \in Seq(CallsSent) /\ args \in [Callers -> Requests]
  BY DEF TypeOK, CallsSent, Requests
<1>2. ASSUME UNCHANGED bvars PROVE Backend!TypeOK'
  BY <1>1, <1>2 DEF Backend!TypeOK, bvars
<1>3. ASSUME NEW t \in Callers, BeginSome(t) PROVE TypeOK'
  <2>1. ASSUME NEW place \in Places, NEW target \in Requests, NEW then \in DOMAIN Follow,
               Begin(t, place, target, then)
        PROVE  TypeOK'
    <3>1. ops' \in [Callers -> 0..MaxOps]
      BY <2>1, SessionAssumption DEF Begin, TypeOK
    <3>2. pc' \in [Callers -> Places] /\ args' \in [Callers -> Requests]
          /\ next' \in [Callers -> DOMAIN Follow]
      BY <2>1, <1>1 DEF Begin, TypeOK, Places
    <3>3. UNCHANGED <<bvars, state, lock, callVars, execVars>>
      BY <2>1 DEF Begin
    <3> QED BY <1>2, <3>1, <3>2, <3>3
            DEF TypeOK, Places, Requests, callVars, execVars
  <2>2. /\ args[t] \in Requests /\ Default \in Requests
        /\ \A m \in Backend!Modes, i \in Instances : Target(m, i) \in Requests
    BY <1>1, SessionAssumption DEF Default, Target, Requests
  <2>3. \A s \in BOOLEAN : [args[t] EXCEPT !.save = s] \in Requests
    BY <2>2, SavesARequest
  <2>4. {"enterConnect", "enterDisconnect", "dispatching", "status", "close"} \subseteq Places
        /\ DOMAIN Follow = {"return", "connect", "dispatch", "shutdown"}
    BY DEF Places, Calling, Follow
  <2>5. CASE BeginConnect(t)
    BY <2>1, <2>2, <2>4, <2>5 DEF BeginConnect
  <2>6. CASE BeginDisconnect(t)
    BY <2>1, <2>3, <2>4, <2>6, SessionAssumption DEF BeginDisconnect
  <2>7. CASE BeginDispatch(t)
    BY <2>1, <2>2, <2>4, <2>7 DEF BeginDispatch
  <2>8. CASE BeginStatus(t)
    BY <2>1, <2>2, <2>4, <2>8 DEF BeginStatus
  <2>9. CASE BeginClose(t)
    BY <2>1, <2>3, <2>4, <2>9 DEF BeginClose
  <2>10. CASE BeginRestart(t)
    <3>1. Target(IF state.mode # "none" THEN state.mode ELSE DefaultMode,
                 IF state.instance # NoApp THEN state.instance ELSE DefaultInstance) \in Requests
      BY <2>2, SessionAssumption DEF TypeOK
    <3> QED BY <2>1, <2>4, <2>10, <3>1 DEF BeginRestart
  <2> QED BY <1>3, <2>5, <2>6, <2>7, <2>8, <2>9, <2>10 DEF BeginSome
<1>4. ASSUME NEW t \in Callers, Step(t) PROVE TypeOK'
  <2> USE DEF callVars, execVars
  <2>a. UNCHANGED bvars => Backend!TypeOK'
    BY <1>2
  <2>b. /\ state \in States /\ pc \in [Callers -> Places] /\ reply \in [Callers -> Replies]
         /\ lock \in Callers \cup {NoCaller} /\ ops \in [Callers -> 0..MaxOps]
         /\ next \in [Callers -> {"return", "connect", "dispatch", "shutdown"}]
         /\ open \in BOOLEAN /\ built \in BOOLEAN
         /\ args[t].mode \in Backend!Modes /\ args[t].instance \in Instances
    BY <1>1, TypedIsTypeOK DEF Typed, Requests
  <2>c. \A place \in Places : Goto(t, place) => pc' \in [Callers -> Places]
    BY <2>b
  <2> USE <1>1, <2>a, <2>b
  <2>d. {"idle", "connect", "disconnect", "status", "connecting", "disconnecting"} \subseteq Places
    BY DEF Places, Calling
  <2> HIDE DEF Goto
  <2>1. CASE Enter(t)
    <3>1. pc' \in [Callers -> Places] /\ UNCHANGED <<bvars, state, lock, args, next, ops, callVars, execVars>>
      BY <2>1, <2>c, <2>d DEF Enter
    <3> QED BY <3>1, TypedIsTypeOK DEF Typed
  <2>2. CASE Connect(t)
    <3>1. state' \in States
      BY <2>2, TransitionTyped DEF Connect, Keep
    <3>2. /\ pc' \in [Callers -> Places] /\ lock' \in Callers \cup {NoCaller}
          /\ next' \in [Callers -> {"return", "connect", "dispatch", "shutdown"}]
      BY <2>2, <2>c, <2>d, ReturnTyped DEF Connect
    <3> QED BY <2>2, <3>1, <3>2, TypedIsTypeOK DEF Typed, Connect
  <2>3. CASE ConnectDone(t)
    <3>1. state' \in States
      <4>1. reply[t] # "error" => reply[t] \in {"none", "owned", "borrowed"}
        BY <2>3 DEF ConnectDone, Replied, Replies
      <4> QED BY <2>3, <4>1, TransitionTyped DEF ConnectDone, Fault
    <3>2. reply' \in [Callers -> Replies]
      BY <2>3 DEF ConnectDone, Replies
    <3>3. /\ pc' \in [Callers -> Places] /\ lock' \in Callers \cup {NoCaller}
          /\ next' \in [Callers -> {"return", "connect", "dispatch", "shutdown"}]
      BY <2>3, ReturnTyped DEF ConnectDone
    <3> QED BY <2>3, <3>1, <3>2, <3>3, TypedIsTypeOK DEF Typed, ConnectDone
  <2>4. CASE Disconnect(t)
    <3>1. state' \in States
      <4>1. state.instance \in Instances \cup {NoApp}
        BY DEF States
      <4> QED BY <2>4, <4>1, TransitionTyped DEF Disconnect
    <3>2. reply' \in [Callers -> Replies]
      BY <2>4 DEF Disconnect, Replies
    <3>3. /\ pc' \in [Callers -> Places] /\ lock' \in Callers \cup {NoCaller}
          /\ next' \in [Callers -> {"return", "connect", "dispatch", "shutdown"}]
      BY <2>4, <2>c, <2>d, ReturnTyped DEF Disconnect
    <3> QED BY <2>4, <3>1, <3>2, <3>3, TypedIsTypeOK DEF Typed, Disconnect
  <2>5. CASE DisconnectDone(t)
    <3>1. state' \in States
      BY <2>5, TransitionTyped DEF DisconnectDone, ResetConnection
    <3>2. reply' \in [Callers -> Replies]
      BY <2>5 DEF DisconnectDone, Replies
    <3>3. /\ pc' \in [Callers -> Places] /\ lock' \in Callers \cup {NoCaller}
          /\ next' \in [Callers -> {"return", "connect", "dispatch", "shutdown"}]
      BY <2>5, ReturnTyped DEF DisconnectDone
    <3> QED BY <2>5, <3>1, <3>2, <3>3, TypedIsTypeOK DEF Typed, DisconnectDone
  <2>6. CASE CallDone(t)
    <3>1. reply' \in [Callers -> Replies]
      BY <2>6 DEF CallDone, Replies
    <3>2. /\ pc' \in [Callers -> Places] /\ lock' \in Callers \cup {NoCaller}
          /\ next' \in [Callers -> {"return", "connect", "dispatch", "shutdown"}]
      BY <2>6, ReturnTyped DEF CallDone
    <3> QED BY <2>6, <3>1, <3>2, TypedIsTypeOK DEF Typed, CallDone
  <2>7. CASE Close(t)
    <3>1. pc' \in [Callers -> Places]
      BY <2>7, <2>c, <2>d DEF Close
    <3> QED BY <2>7, <3>1, TypedIsTypeOK DEF Typed, Close
  <2>8. CASE StopExecutor(t)
    BY <2>8, TypedIsTypeOK DEF Typed, StopExecutor
  <2>9. CASE CloseDone(t)
    <3>1. state' \in States
      BY <2>9, TransitionTyped DEF CloseDone, ResetConnection
    <3>2. pc' \in [Callers -> Places]
      BY <2>9, <2>c, <2>d DEF CloseDone
    <3> QED BY <2>9, <3>1, <3>2, TypedIsTypeOK DEF Typed, CloseDone
  <2>10. CASE Submit(t)
    <3>1. reply' \in [Callers -> Replies]
      BY <2>10 DEF Submit, Replies
    <3> QED BY <2>10, <3>1, TypedIsTypeOK DEF Typed, Submit
  <2>11. CASE Put(t)
    <3>1. [caller |-> t, op |-> pc[t], arg |-> args[t]] \in CallsSent
      BY <2>11, <1>1 DEF Put, CallsSent
    <3>2. queue' \in Seq(CallsSent)
      <4>1. Append(queue, [caller |-> t, op |-> pc[t], arg |-> args[t]]) \in Seq(CallsSent)
        BY <3>1, AppendProperties
      <4> QED BY <2>11, <4>1 DEF Put
    <3>3. reply' \in [Callers -> Replies]
      BY <2>11 DEF Put, Replies
    <3> QED BY <2>11, <3>2, <3>3, TypedIsTypeOK DEF Typed, Put
  <2> QED BY <1>4, <2>1, <2>2, <2>3, <2>4, <2>5, <2>6, <2>7, <2>8, <2>9, <2>10, <2>11 DEF Step
<1>5. CASE Serve
  <2> DEFINE call == Head(queue)
  <2>1. call \in CallsSent /\ Tail(queue) \in Seq(CallsSent)
    BY <1>1, <1>5, HeadTailProperties DEF Serve
  <2>2. Backend!TypeOK'
    <3>1. call.arg.mode \in Backend!Modes /\ call.arg.instance \in Instances
          /\ call.arg.save \in BOOLEAN
      BY <2>1 DEF CallsSent, Requests
    <3> HIDE DEF call
    <3>2. CASE Backend!Connect(call.arg.mode, call.arg.instance)
      BY <3>1, <3>2, <1>1, ConnectObtains
    <3>3. CASE Backend!Disconnect(call.arg.save, FALSE)
      BY <3>1, <3>3, <1>1, DisconnectLetsGo
    <3>4. CASE Backend!Dispatch \/ Backend!Operate
      BY <3>4, <1>1, DispatchKeepsApp
    <3> QED BY <1>5, <3>2, <3>3, <3>4 DEF Serve, call
  <2>3. reply' \in [Callers -> Replies]
    <3>1. ownership' \in Replies
      BY <2>2 DEF Backend!TypeOK, Replies
    <3>2. Answer(call.caller)
      BY <1>5 DEF Serve
    <3> QED BY <3>1, <3>2 DEF Answer, TypeOK, Replies
  <2>4. queue' \in Seq(CallsSent) /\ built' = TRUE
        /\ UNCHANGED <<state, lock, pc, args, next, ops, open>>
    BY <1>5, <2>1 DEF Serve
  <2> QED BY <2>2, <2>3, <2>4 DEF TypeOK, Replies, CallsSent, Requests
<1>6. ASSUME NEW t \in Callers, Interrupt(t) PROVE TypeOK'
  <2>1. \A k \in DOMAIN queue : queue[k] \in CallsSent
    BY <1>1, ElementOfSeq
  <2>2. \A c \in CallsSent : [c EXCEPT !.caller = NoCaller] \in CallsSent
    BY Zenon DEF CallsSent
  <2>3. queue' \in Seq(CallsSent)
    <3>1. DOMAIN queue = 1..Len(queue) /\ Len(queue) \in Nat
      BY <1>1
    <3> DEFINE freed == [k \in 1..Len(queue) |->
                           IF queue[k].caller = t THEN [queue[k] EXCEPT !.caller = NoCaller]
                           ELSE queue[k]]
    <3>2. queue' = freed
      BY <1>6, <3>1 DEF Interrupt
    <3>3. freed \in [1..Len(queue) -> CallsSent]
      BY <2>1, <2>2, <3>1
    <3>4. freed \in Seq(CallsSent)
      BY <3>1, <3>3, SeqDef
    <3> QED BY <3>2, <3>4
  <2> QED BY <1>2, <1>6, <2>3
          DEF Interrupt, TypeOK, Leave, Raise, LockAfter, Follow, Calling, execVars,
              CallsSent, Requests
<1>7. CASE UNCHANGED vars
  BY <1>2, <1>7 DEF TypeOK, vars, callVars, execVars
<1> QED BY <1>3, <1>4, <1>5, <1>6, <1>7 DEF Next

-----------------------------------------------------------------------------
(* The inductive invariant when no wait is interrupted, in named parts *)

\* Who holds the lock: a caller in a method that has taken it, or in the part of
\* close() that is disconnect().
Holds(t) == \/ pc[t] \in {"connecting", "disconnecting", "shutdown"}
            \/ pc[t] = "disconnect" /\ next[t] = "shutdown"
Exclusion == /\ \A t \in Callers : Holds(t) => lock = t
             /\ lock # NoCaller => Holds(lock) \/ pc[lock] = "status"
             /\ \A t \in Callers : next[t] = "shutdown" =>
                                     pc[t] \in {"close", "disconnect", "disconnecting", "idle"}
             /\ \A t \in Callers : pc[t] = "close" => next[t] = "shutdown"

\* A call on the queue is the one its caller waits for, and its only one.
Waiting(call) == /\ call.caller \in Callers
                 /\ pc[call.caller] = call.op /\ args[call.caller] = call.arg
                 /\ reply[call.caller] = "sent"
Sending == /\ \A k \in 1..Len(queue) : Waiting(queue[k])
           /\ \A j, k \in 1..Len(queue) : queue[j].caller = queue[k].caller => j = k
           /\ \A t \in Callers : pc[t] \notin Calling => reply[t] = "unsent"

\* The lifecycle is unsettled exactly while the caller who holds the lock is between its
\* two transitions; what it was answered is what became of the application.
Transitions ==
  /\ state.lifecycle \in {"connecting", "disconnecting"} =>
       lock # NoCaller /\ pc[lock] = state.lifecycle
  /\ \A t \in Callers :
       /\ pc[t] = "connecting" =>
            /\ state.lifecycle = "connecting"
            /\ IF reply[t] \in {"unsent", "accepted", "sent", "lost", "error"} THEN app = NoApp
               ELSE /\ app # NoApp /\ mode = args[t].mode /\ ownership = reply[t]
                    /\ mode = "extension" => app = args[t].instance
       /\ pc[t] = "disconnecting" =>
            state.lifecycle = "disconnecting" /\ (Replied(t) => app = NoApp)
       /\ pc[t] = "shutdown" => state.lifecycle # "connected"

\* An application is there only when the session is connected or on its way, never
\* before the backend is built, nor when the executor has been shut down.
Attachment ==
  /\ ConnectedIsTrue
  /\ state.lifecycle \notin {"connected", "connecting", "disconnecting"} => app = NoApp
  /\ ~built => app = NoApp
  /\ ~open => app = NoApp /\ \A t \in Callers : pc[t] = "connecting" => reply[t] # "sent"

\* Only a call made without the lock can be overtaken by close(), which holds it.
Overtaken == \A t \in Callers :
               /\ reply[t] = "accepted" /\ ~open => lock # t /\ pc[t] \in {"dispatching", "status"}
               /\ reply[t] = "lost" => ~open /\ lock # t /\ pc[t] \in {"dispatching", "status"}

SessionInv == TypeOK /\ Exclusion /\ Sending /\ Transitions /\ Attachment /\ Overtaken

LEMMA InitSessionInv == Init => SessionInv
<1> SUFFICES ASSUME Init PROVE SessionInv
  OBVIOUS
<1>1. TypeOK
  BY InitTypeOK
<1>2. Len(queue) = 0
  BY DEF Init
<1> QED BY <1>1, <1>2
        DEF Init, Backend!Init, SessionInv, Exclusion, Holds, Sending, Waiting, Calling, Transitions,
            Attachment, ConnectedIsTrue, Connected, Overtaken

\* A step of a caller whose call was not overtaken leaves those that were as they are.
LEMMA StepKeepsOvertaken ==
  ASSUME Overtaken, NEW t \in Callers, UNCHANGED open, lock' \in {lock, t, NoCaller},
         reply'[t] \notin {"accepted", "lost"}, NoCaller \notin Callers,
         \A u \in Callers \ {t} : pc'[u] = pc[u] /\ reply'[u] = reply[u]
  PROVE  Overtaken'
BY DEF Overtaken

\* A step of a caller whose call is not at the worker disturbs no call that is.
LEMMA StepKeepsSending ==
  ASSUME Sending, NEW t \in Callers, reply[t] # "sent", UNCHANGED queue,
         \A u \in Callers \ {t} : pc'[u] = pc[u] /\ args'[u] = args[u] /\ reply'[u] = reply[u],
         pc'[t] \notin Calling => reply'[t] = "unsent"
  PROVE  Sending'
BY DEF Sending, Waiting

\* A method that ends gives up the lock, or is part of close() and hands it on.
LEMMA LeavingKeepsExclusion ==
  ASSUME TypeOK, Exclusion, NEW t \in Callers, pc[t] \notin {"idle", "close"}, Return(t) \/ Raise(t)
  PROVE  /\ Exclusion'
         /\ \A u \in Callers \ {t} : pc'[u] = pc[u] /\ (lock = t => ~Holds(u))
         /\ pc'[t] \in {"idle", "enterConnect", "dispatching", "shutdown"}
         /\ pc'[t] = "shutdown" <=> next[t] = "shutdown"
         /\ pc'[t] = "dispatching" => next[t] = "dispatch"
         /\ lock = t \/ lock' = lock
         /\ lock' \in {lock, t, NoCaller}
<1>1. /\ pc \in [Callers -> Places] /\ lock \in Callers \cup {NoCaller}
      /\ next \in [Callers -> {"return", "connect", "dispatch", "shutdown"}]
  BY TypedIsTypeOK DEF Typed
<1>2. PICK place \in {"idle", "enterConnect", "dispatching", "shutdown"} :
        /\ Leave(t, place)
        /\ place = "shutdown" <=> next[t] = "shutdown"
        /\ place = "dispatching" => next[t] = "dispatch"
  BY <1>1 DEF Return, Raise, Follow
<1>3. next[t] = "shutdown" => lock = t
  BY DEF Exclusion, Holds
<1>4. /\ pc' = [pc EXCEPT ![t] = place] /\ next' = [next EXCEPT ![t] = "return"]
      /\ lock' = IF place = "shutdown" THEN t ELSE IF lock = t THEN NoCaller ELSE lock
  BY <1>2 DEF Leave, LockAfter, Goto
<1>5. \A u \in Callers \ {t} : /\ pc'[u] = pc[u] /\ next'[u] = next[u]
                               /\ lock = t => ~Holds(u)
  BY <1>1, <1>4 DEF Exclusion
<1>6. pc'[t] = place /\ next'[t] = "return"
  BY <1>1, <1>4
<1>7. \A u \in Callers : Holds(u)' => lock' = u
  BY <1>1, <1>2, <1>3, <1>4, <1>5, <1>6 DEF Exclusion, Holds
<1>8. lock' # NoCaller => Holds(lock)' \/ pc'[lock'] = "status"
  <2>1. CASE place = "shutdown"
    BY <1>4, <1>6, <2>1 DEF Holds
  <2>2. CASE place # "shutdown"
    <3> SUFFICES ASSUME lock' # NoCaller PROVE Holds(lock)' \/ pc'[lock'] = "status"
      OBVIOUS
    <3>1. lock' = lock /\ lock \in Callers \ {t} /\ lock # NoCaller
      BY <1>1, <1>4, <2>2
    <3>2. pc'[lock] = pc[lock] /\ next'[lock] = next[lock]
      BY <1>5, <3>1
    <3>3. Holds(lock) \/ pc[lock] = "status"
      BY <3>1 DEF Exclusion
    <3> QED BY <3>1, <3>2, <3>3 DEF Holds
  <2> QED BY <2>1, <2>2
<1>9. \A u \in Callers : /\ next'[u] = "shutdown" =>
                              pc'[u] \in {"close", "disconnect", "disconnecting", "idle"}
                         /\ pc'[u] = "close" => next'[u] = "shutdown"
  BY <1>5, <1>6 DEF Exclusion
<1>10. Exclusion'
  BY <1>7, <1>8, <1>9 DEF Exclusion
<1>11. lock' \in {lock, t, NoCaller}
  BY <1>4
<1> QED BY <1>2, <1>3, <1>4, <1>5, <1>6, <1>10, <1>11

LEMMA StepSessionInv ==
  ASSUME Interruptible = {}, SessionInv, [Next]_vars
  PROVE  SessionInv'
<1>1. TypeOK'
  BY StepTypeOK DEF SessionInv
<1>2. /\ pc \in [Callers -> Places] /\ lock \in Callers \cup {NoCaller}
      /\ next \in [Callers -> {"return", "connect", "dispatch", "shutdown"}]
      /\ args \in [Callers -> Requests] /\ reply \in [Callers -> Replies]
      /\ queue \in Seq(CallsSent) /\ state \in States /\ NoCaller \notin Callers
  BY TypedIsTypeOK, SessionAssumption DEF SessionInv, Typed
<1>3. TypeOK /\ Exclusion /\ Sending /\ Transitions /\ Attachment /\ Overtaken
  BY DEF SessionInv
<1> USE <1>2
<1>4. ASSUME NEW t \in Callers, BeginSome(t) PROVE SessionInv'
  <2>1. PICK place \in {"enterConnect", "enterDisconnect", "dispatching", "status", "close"},
             then \in {"return", "connect", "dispatch", "shutdown"} :
          /\ \E target : Begin(t, place, target, then)
          /\ then = "shutdown" <=> place = "close"
    <3> DEFINE Begins == \E place \in {"enterConnect", "enterDisconnect", "dispatching", "status",
                                      "close"},
                            then \in {"return", "connect", "dispatch", "shutdown"} :
                         /\ \E target : Begin(t, place, target, then)
                         /\ then = "shutdown" <=> place = "close"
    <3>0. ASSUME NEW place \in {"enterConnect", "enterDisconnect", "dispatching", "status", "close"},
                 NEW then \in {"return", "connect", "dispatch", "shutdown"},
                 NEW target, Begin(t, place, target, then),
                 then = "shutdown" <=> place = "close"
          PROVE  Begins
      BY <3>0
    <3> HIDE DEF Begins
    <3>1. BeginConnect(t) => Begins
      BY <3>0 DEF BeginConnect
    <3>2. BeginDisconnect(t) => Begins
      BY <3>0 DEF BeginDisconnect
    <3>3. BeginDispatch(t) => Begins
      BY <3>0 DEF BeginDispatch
    <3>4. BeginStatus(t) => Begins
      BY <3>0 DEF BeginStatus
    <3>5. BeginClose(t) => Begins
      BY <3>0 DEF BeginClose
    <3>6. BeginRestart(t) => Begins
      BY <3>0 DEF BeginRestart
    <3> QED BY <1>4, <3>1, <3>2, <3>3, <3>4, <3>5, <3>6 DEF BeginSome, Begins
  <2>2. /\ pc[t] = "idle" /\ pc' = [pc EXCEPT ![t] = place]
        /\ \A u \in Callers \ {t} : args'[u] = args[u]
        /\ next' = [next EXCEPT ![t] = then]
        /\ UNCHANGED <<app, system, ownership, mode, state, lock, reply, queue, open, built>>
    BY <2>1 DEF Begin, Goto, bvars, callVars, execVars
  <2>3. reply[t] = "unsent"
    BY <1>3, <2>2 DEF Sending, Calling
  <2>4. Sending'
    BY <1>3, <2>2, <2>3, StepKeepsSending
  <2>5. Exclusion'
    BY <1>3, <2>1, <2>2 DEF Exclusion, Holds
  <2>6. Transitions'
    BY <1>3, <2>2 DEF Transitions, Replied
  <2>7. Attachment'
    BY <1>3, <2>2 DEF Attachment, ConnectedIsTrue, Connected
  <2>8. Overtaken'
    BY <1>3, <2>2, <2>3, StepKeepsOvertaken
  <2> QED BY <1>1, <2>4, <2>5, <2>6, <2>7, <2>8 DEF SessionInv
<1>5. ASSUME NEW t \in Callers, Enter(t) PROVE SessionInv'
  <2>1. /\ pc[t] \in {"enterConnect", "enterDisconnect"}
        /\ \E place \in {"connect", "disconnect", "idle"} : pc' = [pc EXCEPT ![t] = place]
        /\ UNCHANGED <<app, system, ownership, mode, state, lock, args, next, reply, queue, open, built>>
    BY <1>5 DEF Enter, Goto, bvars, callVars, execVars
  <2>2. reply[t] = "unsent"
    BY <1>3, <2>1 DEF Sending, Calling
  <2>3. Sending'
    BY <1>3, <2>1, <2>2, StepKeepsSending
  <2>4. Exclusion'
    BY <1>3, <2>1 DEF Exclusion, Holds
  <2>5. Transitions'
    BY <1>3, <2>1 DEF Transitions, Replied
  <2>6. Attachment'
    BY <1>3, <2>1 DEF Attachment, ConnectedIsTrue, Connected
  <2>7. Overtaken'
    BY <1>3, <2>1, <2>2, StepKeepsOvertaken
  <2> QED BY <1>1, <2>3, <2>4, <2>5, <2>6, <2>7 DEF SessionInv
<1>6. ASSUME NEW t \in Callers, Connect(t) PROVE SessionInv'
  <2>1. /\ pc[t] = "connect" /\ lock \in {NoCaller, t} /\ next[t] # "shutdown"
        /\ UNCHANGED <<app, system, ownership, mode, args, reply, queue, open, built>>
    BY <1>3, <1>6 DEF Connect, Lockable, Exclusion, bvars, callVars, execVars
  <2>2. reply[t] = "unsent" /\ lock = NoCaller
    BY <1>3, <2>1 DEF Sending, Calling, Exclusion, Holds
  <2>3. state.lifecycle \notin {"connecting", "disconnecting"}
    BY <1>3, <2>2 DEF Transitions
  <2>4. CASE Connected /\ SameTarget(t) /\ Goto(t, "status") /\ lock' = t /\ UNCHANGED <<state, next>>
    <3>1. Sending'
      BY <1>3, <2>1, <2>2, <2>4, StepKeepsSending DEF Goto
    <3>2. Exclusion'
      BY <1>3, <2>1, <2>2, <2>4 DEF Exclusion, Holds, Goto
    <3>3. Transitions'
      BY <1>3, <2>1, <2>3, <2>4 DEF Transitions, Replied, Goto
    <3>4. Attachment'
      BY <1>3, <2>1, <2>4 DEF Attachment, ConnectedIsTrue, Connected, Goto
    <3>5. Overtaken'
      BY <1>3, <2>1, <2>2, <2>4, StepKeepsOvertaken DEF Goto
    <3> QED BY <1>1, <3>1, <3>2, <3>3, <3>4, <3>5 DEF SessionInv
  <2>5. CASE Raise(t) /\ UNCHANGED state
    <3>1. /\ Exclusion' /\ pc'[t] \in {"idle", "enterConnect", "dispatching"}
          /\ \A u \in Callers \ {t} : pc'[u] = pc[u]
          /\ lock' \in {lock, t, NoCaller}
      BY <1>3, <2>1, <2>5, LeavingKeepsExclusion
    <3>2. Sending'
      BY <1>3, <2>1, <2>2, <3>1, StepKeepsSending
    <3>3. Transitions'
      BY <1>3, <2>1, <2>3, <2>5, <3>1 DEF Transitions, Replied
    <3>4. Attachment'
      BY <1>3, <2>1, <2>5, <3>1 DEF Attachment, ConnectedIsTrue, Connected
    <3>5. Overtaken'
      BY <1>3, <2>1, <2>2, <2>5, <3>1, StepKeepsOvertaken
    <3> QED BY <1>1, <3>1, <3>2, <3>3, <3>4, <3>5 DEF SessionInv
  <2>6. CASE /\ ~Connected
             /\ Transition("connecting", args[t].mode, Keep, args[t].instance)
             /\ Goto(t, "connecting") /\ lock' = t /\ UNCHANGED next
    <3>1. Sending'
      BY <1>3, <2>1, <2>2, <2>6, StepKeepsSending DEF Goto
    <3>2. Exclusion'
      BY <1>3, <2>1, <2>2, <2>6 DEF Exclusion, Holds, Goto
    <3>3. state'.lifecycle = "connecting" /\ app = NoApp
      BY <1>3, <2>3, <2>6 DEF Transition, Attachment, Connected
    <3>4. Transitions'
      BY <1>3, <2>1, <2>2, <2>6, <3>3 DEF Transitions, Replied, Goto, Exclusion, Holds
    <3>5. Attachment'
      BY <1>3, <2>1, <2>2, <2>6, <3>3 DEF Attachment, ConnectedIsTrue, Connected, Goto
    <3>6. Overtaken'
      BY <1>3, <2>1, <2>2, <2>6, StepKeepsOvertaken DEF Goto
    <3> QED BY <1>1, <3>1, <3>2, <3>4, <3>5, <3>6 DEF SessionInv
  <2> QED BY <1>6, <2>4, <2>5, <2>6 DEF Connect
<1>7. ASSUME NEW t \in Callers, ConnectDone(t) PROVE SessionInv'
  <2>1. /\ pc[t] = "connecting" /\ reply[t] \notin {"unsent", "accepted", "sent", "lost"}
        /\ Return(t) \/ Raise(t)
        /\ UNCHANGED <<app, system, ownership, mode, args, queue, open, built>>
        /\ reply' = [reply EXCEPT ![t] = "unsent"]
    BY <1>7 DEF ConnectDone, Replied, bvars, callVars, execVars
  <2>2. next[t] # "shutdown" /\ lock = t
    BY <1>3, <2>1 DEF Exclusion, Holds
  <2>3. /\ Exclusion' /\ pc'[t] \in {"idle", "enterConnect", "dispatching"}
        /\ \A u \in Callers \ {t} : pc'[u] = pc[u] /\ ~Holds(u)
        /\ lock' \in {lock, t, NoCaller}
    BY <1>3, <2>1, <2>2, LeavingKeepsExclusion
  <2>4. Sending'
    BY <1>3, <2>1, <2>3, StepKeepsSending
  <2>7. Overtaken'
    BY <1>3, <2>1, <2>2, <2>3, StepKeepsOvertaken
  <2>5. CASE reply[t] = "error"
    <3>1. app = NoApp /\ state'.lifecycle = "faulted"
      BY <1>3, <1>7, <2>1, <2>5 DEF Transitions, ConnectDone, Fault, Transition
    <3>2. Transitions'
      BY <1>3, <2>1, <2>3, <3>1 DEF Transitions, Replied, Holds
    <3>3. Attachment'
      BY <1>3, <2>1, <2>3, <3>1 DEF Attachment, ConnectedIsTrue, Connected, Holds
    <3> QED BY <1>1, <2>3, <2>4, <2>7, <3>2, <3>3 DEF SessionInv
  <2>6. CASE reply[t] # "error"
    <3>1. /\ app # NoApp /\ mode = args[t].mode /\ ownership = reply[t]
          /\ mode = "extension" => app = args[t].instance
      BY <1>3, <2>1, <2>6 DEF Transitions
    <3>2. args[t].mode # Keep /\ reply[t] # Keep
      <4>1. args[t].mode \in Backend!Modes
        BY DEF Requests
      <4> QED BY <4>1 DEF Backend!Modes, Keep, Replies
    <3>3. /\ state'.lifecycle = "connected" /\ state'.mode = args[t].mode
          /\ state'.ownership = reply[t] /\ state'.instance = args[t].instance
      BY <1>7, <2>6, <3>2 DEF ConnectDone, Transition
    <3>4. Transitions'
      BY <1>3, <2>1, <2>3, <3>3 DEF Transitions, Replied, Holds
    <3>5. Attachment'
      BY <1>3, <2>1, <2>3, <3>1, <3>3 DEF Attachment, ConnectedIsTrue, Connected, Holds
    <3> QED BY <1>1, <2>3, <2>4, <2>7, <3>4, <3>5 DEF SessionInv
  <2> QED BY <2>5, <2>6
<1>8. ASSUME NEW t \in Callers, Disconnect(t) PROVE SessionInv'
  <2>1. /\ pc[t] = "disconnect" /\ lock \in {NoCaller, t}
        /\ UNCHANGED <<app, system, ownership, mode, args, queue, open, built>>
    BY <1>8 DEF Disconnect, Lockable, bvars, execVars
  <2>2. /\ reply[t] = "unsent" /\ state.lifecycle \notin {"connecting", "disconnecting"}
        /\ \A u \in Callers \ {t} : ~Holds(u)
    BY <1>3, <2>1 DEF Sending, Calling, Transitions, Exclusion
  <2>3. CASE state.lifecycle \notin Disconnectable /\ Return(t) /\ UNCHANGED <<state, reply>>
    <3>1. /\ Exclusion' /\ pc'[t] \in {"idle", "enterConnect", "dispatching", "shutdown"}
          /\ \A u \in Callers \ {t} : pc'[u] = pc[u]
          /\ lock' \in {lock, t, NoCaller}
      BY <1>3, <2>1, <2>3, LeavingKeepsExclusion
    <3>2. Sending'
      BY <1>3, <2>1, <2>2, <2>3, <3>1, StepKeepsSending
    <3>3. Transitions'
      BY <1>3, <2>1, <2>2, <2>3, <3>1 DEF Transitions, Replied, Holds, Disconnectable
    <3>4. Attachment'
      BY <1>3, <2>1, <2>2, <2>3, <3>1 DEF Attachment, ConnectedIsTrue, Connected, Holds
    <3>5. Overtaken'
      BY <1>3, <2>1, <2>2, <2>3, <3>1, StepKeepsOvertaken
    <3> QED BY <1>1, <3>1, <3>2, <3>3, <3>4, <3>5 DEF SessionInv
  <2>4. CASE /\ Transition("disconnecting", Keep, Keep, state.instance)
             /\ Goto(t, "disconnecting") /\ lock' = t /\ UNCHANGED next
             /\ reply' = [reply EXCEPT ![t] = IF built THEN "unsent" ELSE "none"]
    <3>1. Sending'
      BY <1>3, <2>1, <2>2, <2>4, StepKeepsSending DEF Goto, Calling
    <3>2. Exclusion'
      BY <1>3, <2>1, <2>2, <2>4 DEF Exclusion, Holds, Goto
    <3>3. state'.lifecycle = "disconnecting" /\ (~built => app = NoApp)
      BY <1>3, <2>4 DEF Transition, Attachment
    <3>4. Transitions'
      BY <1>3, <2>1, <2>2, <2>4, <3>3 DEF Transitions, Replied, Goto, Holds
    <3>5. Attachment'
      BY <1>3, <2>1, <2>2, <2>4, <3>3 DEF Attachment, ConnectedIsTrue, Connected, Goto, Holds
    <3>6. Overtaken'
      BY <1>3, <2>1, <2>2, <2>4, StepKeepsOvertaken DEF Goto
    <3> QED BY <1>1, <3>1, <3>2, <3>4, <3>5, <3>6 DEF SessionInv
  <2> QED BY <1>8, <2>3, <2>4 DEF Disconnect
<1>9. ASSUME NEW t \in Callers, DisconnectDone(t) PROVE SessionInv'
  <2>1. /\ pc[t] = "disconnecting" /\ reply[t] \notin {"unsent", "accepted", "sent", "lost"}
        /\ Return(t) \/ Raise(t)
        /\ UNCHANGED <<app, system, ownership, mode, args, queue, open, built>>
        /\ reply' = [reply EXCEPT ![t] = "unsent"]
    BY <1>9 DEF DisconnectDone, Replied, bvars, execVars
  <2>2. lock = t /\ app = NoApp
    BY <1>3, <2>1 DEF Exclusion, Holds, Transitions, Replied
  <2>3. /\ Exclusion' /\ pc'[t] \in {"idle", "enterConnect", "dispatching", "shutdown"}
        /\ \A u \in Callers \ {t} : pc'[u] = pc[u] /\ ~Holds(u)
        /\ lock' \in {lock, t, NoCaller}
    BY <1>3, <2>1, <2>2, LeavingKeepsExclusion
  <2>4. Sending'
    BY <1>3, <2>1, <2>3, StepKeepsSending
  <2>5. state'.lifecycle \in {"faulted", "disconnected"}
    BY <1>9 DEF DisconnectDone, Transition, ResetConnection
  <2>6. Transitions'
    BY <1>3, <2>1, <2>3, <2>5 DEF Transitions, Replied, Holds
  <2>7. Attachment'
    BY <1>3, <2>1, <2>2, <2>3, <2>5 DEF Attachment, ConnectedIsTrue, Connected, Holds
  <2>8. Overtaken'
    BY <1>3, <2>1, <2>3, StepKeepsOvertaken
  <2> QED BY <1>1, <2>3, <2>4, <2>6, <2>7, <2>8 DEF SessionInv
<1>10. ASSUME NEW t \in Callers, CallDone(t) PROVE SessionInv'
  <2>1. /\ pc[t] \in {"dispatching", "status"} /\ reply[t] \notin {"unsent", "accepted", "sent", "lost"}
        /\ Return(t)
        /\ UNCHANGED <<app, system, ownership, mode, state, args, queue, open, built>>
        /\ reply' = [reply EXCEPT ![t] = "unsent"]
    BY <1>10 DEF CallDone, Replied, bvars, execVars
  <2>2. next[t] # "shutdown"
    BY <1>3, <2>1 DEF Exclusion
  <2>3. /\ Exclusion' /\ pc'[t] \in {"idle", "enterConnect", "dispatching"}
        /\ \A u \in Callers \ {t} : pc'[u] = pc[u]
        /\ lock = t \/ lock' = lock
        /\ lock' \in {lock, t, NoCaller}
    BY <1>3, <2>1, <2>2, LeavingKeepsExclusion
  <2>4. Sending'
    BY <1>3, <2>1, <2>3, StepKeepsSending
  <2>5. Transitions'
    BY <1>3, <2>1, <2>3 DEF Transitions, Replied
  <2>6. Attachment'
    BY <1>3, <2>1, <2>3 DEF Attachment, ConnectedIsTrue, Connected
  <2>7. Overtaken'
    BY <1>3, <2>1, <2>3, StepKeepsOvertaken
  <2> QED BY <1>1, <2>3, <2>4, <2>5, <2>6, <2>7 DEF SessionInv
<1>11. ASSUME NEW t \in Callers, Close(t) PROVE SessionInv'
  <2>1. /\ pc[t] = "close" /\ lock \in {NoCaller, t}
        /\ UNCHANGED <<app, system, ownership, mode, state, args, next, reply, queue, open, built>>
        /\ \/ pc' = [pc EXCEPT ![t] = "idle"] /\ lock' = lock
           \/ pc' = [pc EXCEPT ![t] = "disconnect"] /\ lock' = t
    BY <1>11 DEF Close, Goto, Lockable, bvars, callVars, execVars
  <2>2. reply[t] = "unsent" /\ lock = NoCaller
    BY <1>3, <2>1 DEF Sending, Calling, Exclusion, Holds
  <2>3. Sending'
    BY <1>3, <2>1, <2>2, StepKeepsSending
  <2>4. Exclusion'
    BY <1>3, <2>1, <2>2 DEF Exclusion, Holds
  <2>5. Transitions'
    BY <1>3, <2>1, <2>2 DEF Transitions, Replied
  <2>6. Attachment'
    BY <1>3, <2>1 DEF Attachment, ConnectedIsTrue, Connected
  <2>7. Overtaken'
    BY <1>3, <2>1, <2>2, StepKeepsOvertaken
  <2> QED BY <1>1, <2>3, <2>4, <2>5, <2>6, <2>7 DEF SessionInv
<1>12. ASSUME NEW t \in Callers, StopExecutor(t) PROVE SessionInv'
  <2>1. /\ pc[t] = "shutdown" /\ open' = FALSE
        /\ UNCHANGED <<app, system, ownership, mode, state, lock, pc, args, next, reply, queue, built>>
    BY <1>12 DEF StopExecutor, bvars, callVars
  <2>2. lock = t /\ app = NoApp /\ \A u \in Callers : pc[u] # "connecting"
    BY <1>3, <2>1 DEF Exclusion, Holds, Transitions, Attachment
  <2>3. Exclusion' /\ Sending' /\ Transitions'
    BY <1>3, <2>1 DEF Exclusion, Holds, Sending, Waiting, Transitions, Replied
  <2>4. Attachment'
    BY <1>3, <2>1, <2>2 DEF Attachment, ConnectedIsTrue, Connected
  <2>5. Overtaken'
    <3>1. reply[t] = "unsent" /\ \A u \in Callers : reply[u] = "accepted" => pc[u] \in Calling
      BY <1>3, <2>1 DEF Sending, Calling
    <3>2. \A u \in Callers : reply[u] = "accepted" => pc[u] \in {"dispatching", "status"} /\ lock # u
      BY <1>3, <2>1, <2>2, <3>1 DEF Exclusion, Holds, Calling
    <3> QED BY <1>3, <2>1, <3>2 DEF Overtaken
  <2> QED BY <1>1, <2>3, <2>4, <2>5 DEF SessionInv
<1>13. ASSUME NEW t \in Callers, CloseDone(t) PROVE SessionInv'
  <2>1. /\ pc[t] = "shutdown" /\ pc' = [pc EXCEPT ![t] = "idle"] /\ lock' = NoCaller
        /\ state'.lifecycle = "closed"
        /\ UNCHANGED <<app, system, ownership, mode, args, next, reply, queue, open, built>>
    BY <1>13 DEF CloseDone, Goto, ResetConnection, Transition, bvars, callVars, execVars
  <2>2. /\ lock = t /\ reply[t] = "unsent" /\ app = NoApp
        /\ \A u \in Callers \ {t} : ~Holds(u)
    BY <1>3, <2>1 DEF Exclusion, Holds, Transitions, Attachment, Sending, Calling
  <2>3. Sending'
    BY <1>3, <2>1, <2>2, StepKeepsSending
  <2>4. Exclusion'
    BY <1>3, <2>1, <2>2 DEF Exclusion, Holds
  <2>5. Transitions'
    BY <1>3, <2>1, <2>2 DEF Transitions, Replied, Holds
  <2>6. Attachment'
    BY <1>3, <2>1, <2>2 DEF Attachment, ConnectedIsTrue, Connected
  <2>7. Overtaken'
    BY <1>3, <2>1, <2>2, StepKeepsOvertaken
  <2> QED BY <1>1, <2>3, <2>4, <2>5, <2>6, <2>7 DEF SessionInv
<1>14. ASSUME NEW t \in Callers, Submit(t) PROVE SessionInv'
  <2>1. /\ pc[t] \in Calling /\ reply[t] = "unsent"
        /\ reply' = [reply EXCEPT ![t] = IF open THEN "accepted" ELSE "error"]
        /\ UNCHANGED <<app, system, ownership, mode, state, lock, pc, args, next, queue, open, built>>
    BY <1>14 DEF Submit, bvars, execVars
  <2>2. Exclusion'
    BY <1>3, <2>1 DEF Exclusion, Holds
  <2>3. ~open => app = NoApp
    BY <1>3 DEF Attachment
  <2>4. Sending'
    BY <1>3, <2>1, StepKeepsSending
  <2>5. Transitions'
    BY <1>3, <2>1, <2>3 DEF Transitions, Replied
  <2>6. Attachment'
    BY <1>3, <2>1 DEF Attachment, ConnectedIsTrue, Connected
  <2>7. Overtaken'
    BY <1>3, <2>1 DEF Overtaken
  <2> QED BY <1>1, <2>2, <2>4, <2>5, <2>6, <2>7 DEF SessionInv
<1>18. ASSUME NEW t \in Callers, Put(t) PROVE SessionInv'
  <2>1. /\ pc[t] \in Calling /\ reply[t] = "accepted"
        /\ UNCHANGED <<app, system, ownership, mode, state, lock, pc, args, next, open, built>>
    BY <1>18 DEF Put, bvars, execVars
  <2>2. Exclusion'
    BY <1>3, <2>1 DEF Exclusion, Holds
  <2>3. CASE open /\ queue' = Append(queue, [caller |-> t, op |-> pc[t], arg |-> args[t]])
                  /\ reply' = [reply EXCEPT ![t] = "sent"]
    <3> DEFINE call == [caller |-> t, op |-> pc[t], arg |-> args[t]]
    <3>0. PICK n \in Nat : n = Len(queue)
      OBVIOUS
    <3>1. /\ Len(queue') = n + 1 /\ queue'[n + 1] = call
          /\ \A k \in 1..n : queue'[k] = queue[k]
      <4>1. call \in CallsSent
        BY <2>1 DEF CallsSent
      <4> HIDE DEF call
      <4> QED BY <2>3, <3>0, <4>1, AppendProperties DEF call
    <3>2. \A k \in 1..n : Waiting(queue[k]) /\ queue[k].caller # t
      BY <1>3, <2>1, <3>0 DEF Sending, Waiting
    <3>3. \A k \in 1..n : Waiting(queue[k])'
      <4> SUFFICES ASSUME NEW k \in 1..n PROVE Waiting(queue[k])'
        OBVIOUS
      <4>1. Waiting(queue[k]) /\ queue[k].caller # t /\ queue'[k] = queue[k]
        BY <3>1, <3>2
      <4> QED BY <2>1, <2>3, <4>1 DEF Waiting
    <3>4. Sending'
      <4>1. \A k \in 1..Len(queue') : k \in 1..n \/ k = n + 1
        BY <3>1
      <4>2. Waiting(queue[n + 1])'
        BY <2>1, <2>3, <3>1 DEF Waiting
      <4>3. \A k \in 1..Len(queue') : Waiting(queue[k])'
        BY <3>3, <4>1, <4>2
      <4>4. \A j, k \in 1..Len(queue') : queue'[j].caller = queue'[k].caller => j = k
        BY <1>3, <3>0, <3>1, <3>2, <4>1 DEF Sending
      <4>5. \A u \in Callers : pc'[u] \notin Calling => reply'[u] = "unsent"
        BY <1>3, <2>1, <2>3 DEF Sending
      <4> QED BY <4>3, <4>4, <4>5 DEF Sending
    <3>5. Transitions'
      BY <1>3, <2>1, <2>3 DEF Transitions, Replied
    <3>6. Attachment'
      BY <1>3, <2>1, <2>3 DEF Attachment, ConnectedIsTrue, Connected
    <3>7. Overtaken'
      BY <1>3, <2>1, <2>3 DEF Overtaken
    <3> QED BY <1>1, <2>2, <3>4, <3>5, <3>6, <3>7 DEF SessionInv
  <2>4. CASE ~open /\ reply' = [reply EXCEPT ![t] = "lost"] /\ UNCHANGED queue
    <3>1. lock # t /\ pc[t] \in {"dispatching", "status"}
      BY <1>3, <2>1, <2>4 DEF Overtaken
    <3>2. Sending'
      BY <1>3, <2>1, <2>4, StepKeepsSending
    <3>3. Transitions'
      BY <1>3, <2>1, <2>4, <3>1 DEF Transitions, Replied
    <3>4. Attachment'
      BY <1>3, <2>1, <2>4 DEF Attachment, ConnectedIsTrue, Connected
    <3>5. Overtaken'
      BY <1>3, <2>1, <2>4, <3>1 DEF Overtaken
    <3> QED BY <1>1, <2>2, <3>2, <3>3, <3>4, <3>5 DEF SessionInv
  <2> QED BY <1>18, <2>3, <2>4 DEF Put
<1>15. CASE Serve
  <2> DEFINE call == Head(queue)
             t == call.caller
             answer == IF result' = "error" THEN "error" ELSE ownership'
  <2>1. /\ UNCHANGED <<state, lock, pc, args, next, open>> /\ built' = TRUE
        /\ queue # <<>> /\ queue' = Tail(queue) /\ Answer(t)
        /\ \/ call.op = "connecting" /\ Backend!Connect(call.arg.mode, call.arg.instance)
           \/ call.op = "disconnecting" /\ Backend!Disconnect(call.arg.save, FALSE)
           \/ call.op = "dispatching" /\ Backend!Dispatch
           \/ call.op = "status" /\ Backend!Operate
    BY <1>15 DEF Serve
  <2>2. /\ Len(queue) \in Nat \ {0} /\ Len(queue') = Len(queue) - 1
        /\ call = queue[1] /\ \A k \in 1..Len(queue') : queue'[k] = queue[k + 1]
    BY <2>1, HeadTailProperties
  <2>3. Waiting(call)
    BY <1>3, <2>2 DEF Sending
  <2> HIDE DEF call
  <2>4. /\ t \in Callers /\ pc[t] = call.op /\ call.arg = args[t] /\ reply[t] = "sent"
        /\ args[t] \in Requests
    BY <2>3 DEF Waiting
  <2> HIDE DEF t
  <2>5. reply' = [reply EXCEPT ![t] = answer]
    BY <2>1, <2>4 DEF Answer
  <2>6. \A k \in 1..Len(queue') : k + 1 \in 1..Len(queue) /\ queue[k + 1].caller # t
    BY <1>3, <2>2 DEF Sending, t
  <2>7. Sending'
    <3>1. \A k \in 1..Len(queue') : Waiting(queue[k])'
      <4> SUFFICES ASSUME NEW k \in 1..Len(queue') PROVE Waiting(queue[k])'
        OBVIOUS
      <4>1. Waiting(queue[k + 1]) /\ queue[k + 1].caller # t /\ queue'[k] = queue[k + 1]
        BY <1>3, <2>2, <2>6 DEF Sending
      <4> QED BY <2>1, <2>5, <4>1 DEF Waiting
    <3>2. \A j, k \in 1..Len(queue') : queue'[j].caller = queue'[k].caller => j = k
      <4> SUFFICES ASSUME NEW j \in 1..Len(queue'), NEW k \in 1..Len(queue'),
                          queue'[j].caller = queue'[k].caller
                   PROVE  j = k
        OBVIOUS
      <4>1. queue[j + 1].caller = queue[k + 1].caller
        BY <2>2
      <4>2. j + 1 \in 1..Len(queue) /\ k + 1 \in 1..Len(queue)
        BY <2>6
      <4>3. j + 1 = k + 1
        BY <1>3, <4>1, <4>2 DEF Sending
      <4> QED BY <4>3
    <3>3. \A u \in Callers : pc'[u] \notin Calling => reply'[u] = "unsent"
      <4>1. pc[t] \in Calling
        BY <2>1, <2>4 DEF Calling
      <4> QED BY <1>3, <2>1, <2>5, <4>1 DEF Sending
    <3> QED BY <3>1, <3>2, <3>3 DEF Sending
  <2>8. Exclusion'
    BY <1>3, <2>1 DEF Exclusion, Holds
  <2>9. Backend!TypeOK /\ Backend!TypeOK'
    BY <1>1, <1>3, TypedIsTypeOK DEF Typed
  <2>10. answer \in {"error", "none", "owned", "borrowed"}
    BY <2>9 DEF Backend!TypeOK
  <2>15. Overtaken'
    BY <1>3, <2>1, <2>4, <2>5, <2>10 DEF Overtaken
  <2>11. args[t].mode \in Backend!Modes /\ args[t].instance \in Instances /\ args[t].save \in BOOLEAN
    BY <2>4 DEF Requests
  <2>12. CASE pc[t] = "connecting" /\ Backend!Connect(args[t].mode, args[t].instance)
    <3>1. /\ app = NoApp /\ open /\ state.lifecycle = "connecting"
          /\ \A u \in Callers \ {t} : ~Holds(u)
      BY <1>3, <2>4, <2>12 DEF Transitions, Attachment, Exclusion, Holds
    <3>2. IF answer = "error" THEN app' = NoApp
          ELSE /\ app' # NoApp /\ mode' = args[t].mode /\ ownership' = answer /\ answer # "none"
               /\ mode' = "extension" => app' = args[t].instance
      BY <2>9, <2>11, <2>12, <3>1, ConnectObtains
    <3> HIDE DEF answer
    <3>3. Transitions'
      BY <1>3, <2>1, <2>4, <2>5, <2>10, <2>12, <3>1, <3>2 DEF Transitions, Replied, Holds
    <3>4. Attachment'
      BY <1>3, <2>1, <3>1 DEF Attachment, ConnectedIsTrue, Connected
    <3> QED BY <1>1, <2>7, <2>8, <2>15, <3>3, <3>4 DEF SessionInv
  <2>13. CASE pc[t] = "disconnecting" /\ Backend!Disconnect(args[t].save, FALSE)
    <3>1. state.lifecycle = "disconnecting" /\ \A u \in Callers \ {t} : ~Holds(u)
      BY <1>3, <2>4, <2>13 DEF Transitions, Exclusion, Holds
    <3>2. app' = NoApp
      BY <2>9, <2>11, <2>13, DisconnectLetsGo
    <3> HIDE DEF answer
    <3>3. Transitions'
      BY <1>3, <2>1, <2>4, <2>5, <2>13, <3>1, <3>2 DEF Transitions, Replied, Holds
    <3>4. Attachment'
      BY <1>3, <2>1, <2>13, <3>1, <3>2 DEF Attachment, ConnectedIsTrue, Connected, Holds
    <3> QED BY <1>1, <2>7, <2>8, <2>15, <3>3, <3>4 DEF SessionInv
  <2>14. CASE pc[t] \in {"dispatching", "status"} /\ (Backend!Dispatch \/ Backend!Operate)
    <3>1. UNCHANGED <<app, ownership, mode>>
      BY <2>9, <2>14, DispatchKeepsApp
    <3> HIDE DEF answer
    <3>2. Transitions'
      BY <1>3, <2>1, <2>5, <2>14, <3>1 DEF Transitions, Replied
    <3>3. Attachment'
      BY <1>3, <2>1, <2>5, <2>14, <3>1 DEF Attachment, ConnectedIsTrue, Connected
    <3> QED BY <1>1, <2>7, <2>8, <2>15, <3>2, <3>3 DEF SessionInv
  <2> QED BY <2>1, <2>4, <2>12, <2>13, <2>14
<1>16. CASE UNCHANGED vars
  <2> USE <1>16 DEF vars, bvars, callVars, execVars
  <2>1. Exclusion' /\ Sending'
    BY <1>3 DEF Exclusion, Holds, Sending, Waiting
  <2>3. Overtaken'
    BY <1>3 DEF Overtaken
  <2>2. Transitions' /\ Attachment'
    BY <1>3 DEF Transitions, Replied, Attachment, ConnectedIsTrue, Connected
  <2> QED BY <1>1, <2>1, <2>2, <2>3 DEF SessionInv
<1>17. ASSUME NEW t \in Callers, Interrupt(t) PROVE FALSE
  BY <1>17 DEF Interrupt
<1> QED BY <1>4, <1>5, <1>6, <1>7, <1>8, <1>9, <1>10, <1>11, <1>12, <1>13, <1>14, <1>15,
           <1>16, <1>17, <1>18 DEF Next, Step

-----------------------------------------------------------------------------
\* In every behaviour, interrupted or not, the state of ZOSSession keeps its ranges.
THEOREM SessionTypeCorrect == Spec => []TypeOK
BY InitTypeOK, StepTypeOK, PTL DEF Spec

LEMMA SpecSessionInv ==
  ASSUME Interruptible = {}
  PROVE  Spec => []SessionInv
<1>1. SessionInv /\ [Next]_vars => SessionInv'
  BY StepSessionInv
<1> QED BY <1>1, InitSessionInv, PTL DEF Spec

\* A session that says it is connected is, to the application it names (session.py:83).
THEOREM ConnectedTellsTruth ==
  ASSUME Interruptible = {}
  PROVE  Spec => []ConnectedIsTrue
<1>1. SessionInv => ConnectedIsTrue
  BY DEF SessionInv, Attachment
<1> QED BY <1>1, SpecSessionInv, PTL

\* Whatever failed, a session whose lock is free is not between two transitions, and
\* holds an application exactly when it says so.
THEOREM UnlockedIsSettled ==
  ASSUME Interruptible = {}
  PROVE  Spec => []SettledWhenUnlocked
<1>1. SessionInv => SettledWhenUnlocked
  BY DEF SessionInv, Transitions, Attachment, ConnectedIsTrue, SettledWhenUnlocked, Connected
<1> QED BY <1>1, SpecSessionInv, PTL

\* When close() has stopped the executor no application stays attached, whatever the
\* other callers were about to do (session.py:197).
THEOREM NothingStaysAttached ==
  ASSUME Interruptible = {}
  PROVE  Spec => []ClosedHoldsNothing
<1>1. SessionInv => ClosedHoldsNothing
  BY DEF SessionInv, Attachment, ClosedHoldsNothing
<1> QED BY <1>1, SpecSessionInv, PTL

\* close() may overtake a call on its way to the queue, but only one whose caller waits
\* without the lock: no other operation waits behind it (executor.py:72).
THEOREM LostCallsHoldNothing ==
  ASSUME Interruptible = {}
  PROVE  Spec => []LostHoldsNothing
<1>1. SessionInv => LostHoldsNothing
  BY DEF SessionInv, Overtaken, LostHoldsNothing
<1> QED BY <1>1, SpecSessionInv, PTL
=============================================================================
