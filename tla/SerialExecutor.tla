--------------------------- MODULE SerialExecutor ---------------------------
(***************************************************************************)
(* What ZOSExecutor promises to its clients, without threads or locks: a   *)
(* first-in first-out list of accepted calls served by one server, which   *)
(* works on one accepted call at a time (a call made by the call in        *)
(* service is served in place, on top of it), resolves every future once   *)
(* and does nothing any more after it has met the stop mark.               *)
(***************************************************************************)
EXTENDS Sequences

CONSTANTS Items,  \* the calls that clients may make
          STOP    \* the mark a shutdown leaves in the queue

VARIABLES queue,   \* accepted calls, and the mark, in order of arrival
          stack,   \* the calls in service, the innermost first
          future,  \* what the client's future of each call shows
          stopped  \* whether the server has met the mark

avars == <<queue, stack, future, stopped>>

Resolved == {"result", "exception", "cancelled"}

AInit == /\ queue = <<>>
         /\ stack = <<>>
         /\ future = [i \in Items |-> "none"]
         /\ stopped = FALSE

Accept(i) == /\ future[i] = "none"
             /\ queue' = Append(queue, i)
             /\ future' = [future EXCEPT ![i] = "pending"]
             /\ UNCHANGED <<stack, stopped>>

Withdraw(i) == /\ future[i] = "pending"
               /\ future' = [future EXCEPT ![i] = "cancelled"]
               /\ UNCHANGED <<queue, stack, stopped>>

Mark == /\ ~stopped
        /\ queue' = Append(queue, STOP)
        /\ UNCHANGED <<stack, future, stopped>>

\* The server is free and looks at the oldest entry.
Serve == /\ queue # <<>> /\ stack = <<>> /\ ~stopped
         /\ queue' = Tail(queue)
         /\ \/ /\ Head(queue) = STOP
               /\ stopped' = TRUE
               /\ UNCHANGED <<stack, future>>
            \/ /\ Head(queue) # STOP /\ future[Head(queue)] = "cancelled"
               /\ UNCHANGED <<stack, future, stopped>>
            \/ /\ Head(queue) # STOP /\ future[Head(queue)] = "pending"
               /\ stack' = <<Head(queue)>>
               /\ future' = [future EXCEPT ![Head(queue)] = "running"]
               /\ UNCHANGED stopped

\* The call in service makes a call of its own.
Nest(i) == /\ stack # <<>> /\ ~stopped
           /\ future[i] = "none"
           /\ stack' = <<i>> \o stack
           /\ future' = [future EXCEPT ![i] = "running"]
           /\ UNCHANGED <<queue, stopped>>

Complete == /\ stack # <<>> /\ ~stopped
            /\ future[Head(stack)] = "running"
            /\ stack' = Tail(stack)
            /\ \E o \in {"result", "exception"} :
                 future' = [future EXCEPT ![Head(stack)] = o]
            /\ UNCHANGED <<queue, stopped>>

ANext == \/ \E i \in Items : Accept(i) \/ Withdraw(i) \/ Nest(i)
         \/ Mark \/ Serve \/ Complete

ASpec == AInit /\ [][ANext]_avars
=============================================================================
