---------------------------- MODULE TaskDispatch ----------------------------
(***************************************************************************)
(* What EventLoop::queue_in_loop promises its callers, with no mention of  *)
(* threads, locks, epoll or eventfd: functors are run one at a time, each  *)
(* once, in the order they were handed over.                               *)
(***************************************************************************)
EXTENDS Sequences

CONSTANT Functors          \* the functors that may be handed over, each once

VARIABLES queue,           \* handed over and not yet run, oldest first
          done,            \* run, in the order they ran
          closed           \* the loop was asked to quit

dispatchVars == <<queue, done, closed>>

Fresh == {f \in Functors : \A i \in DOMAIN queue : queue[i] # f}
            \cap {f \in Functors : \A i \in DOMAIN done : done[i] # f}

DispatchInit ==
  /\ queue = << >>
  /\ done = << >>
  /\ closed = FALSE

Submit(f) ==
  /\ f \in Fresh
  /\ queue' = Append(queue, f)
  /\ UNCHANGED <<done, closed>>

Close ==
  /\ closed' = TRUE
  /\ UNCHANGED <<queue, done>>

\* The oldest functor runs; its body may hand over another one or close.
Execute ==
  /\ queue # << >>
  /\ done' = Append(done, Head(queue))
  /\ \/ queue' = Tail(queue) /\ closed' \in {closed, TRUE}
     \/ /\ \E f \in Fresh : queue' = Append(Tail(queue), f)
        /\ UNCHANGED closed

DispatchNext == (\E f \in Functors : Submit(f)) \/ Close \/ Execute

DispatchSafety == DispatchInit /\ [][DispatchNext]_dispatchVars
=============================================================================
