------------------------------ MODULE EventLoop ------------------------------
(***************************************************************************)
(* reactor/EventLoop: one thread polls, dispatches the ready channels and  *)
(* then runs the functors other threads queued.  The queue is guarded by   *)
(* pendingFunctorsMutex_; the eventfd is written after the lock is         *)
(* released, so a push and its wakeup are two steps of the calling thread  *)
(* and the loop may poll, read the eventfd or swap the queue in between.   *)
(*                                                                         *)
(* A functor is one call's closure: an element of Functors queued at most  *)
(* once.  The set bounds a run; nothing else is bounded.                   *)
(***************************************************************************)
EXTENDS Integers, Sequences

CONSTANTS Threads,         \* threads other than the loop's own
          Functors         \* closures that may be queued

VARIABLES
  pendingFunctors,         \* pendingFunctors_
  functors,                \* the batch do_pending_functors swapped out
  isCallingPendingFunctors,
  isQuit,
  wakeupFd,                \* the counter of the eventfd
  active,                  \* channels the last poll returned, not yet handled
  pc,                      \* where the loop thread is
  caller,                  \* where each other thread is
  posted,                  \* history: every functor queued, in queue order
  executed,                \* history: every functor run, in run order
  early                    \* history: functors the loop thread queued before loop()

queueVars  == <<pendingFunctors, functors, isCallingPendingFunctors>>
threadVars == <<active, pc, caller>>
historyVars == <<posted, executed, early>>
vars == <<queueVars, isQuit, wakeupFd, threadVars, historyVars>>

Elements(s) == {s[i] : i \in DOMAIN s}

Unposted == Functors \ Elements(posted)

Channels == {"wakeup", "other"}   \* wakeupChannel_, and any other channel

TypeOK ==
  /\ pendingFunctors \in Seq(Functors)
  /\ functors \in Seq(Functors)
  /\ isCallingPendingFunctors \in BOOLEAN
  /\ isQuit \in BOOLEAN
  /\ wakeupFd \in Nat
  /\ active \in SUBSET Channels
  /\ pc \in {"ready", "check", "poll", "handle", "run", "stopped"}
  /\ caller \in [Threads -> {"idle", "wakeup", "quit", "gone"}]
  /\ posted \in Seq(Functors)
  /\ executed \in Seq(Functors)
  /\ early \in SUBSET Functors

Init ==
  /\ pendingFunctors = << >>
  /\ functors = << >>
  /\ isCallingPendingFunctors = FALSE
  /\ isQuit = FALSE
  /\ wakeupFd = 0
  /\ active = {}
  /\ pc = "ready"
  /\ caller = [t \in Threads |-> "idle"]
  /\ posted = << >>
  /\ executed = << >>
  /\ early = {}
-----------------------------------------------------------------------------
(* The pieces several actions share.                                       *)

wakeup == wakeupFd' = wakeupFd + 1

\* The critical section of queue_in_loop.
push(f) ==
  /\ f \in Unposted
  /\ pendingFunctors' = Append(pendingFunctors, f)
  /\ posted' = Append(posted, f)

\* Mutant of queue_in_loop_self: a functor that queues another wakes nobody.
queue_in_loop_self_silent(f) == push(f) /\ UNCHANGED wakeupFd

\* queue_in_loop called by the loop thread: it wakes itself only from inside
\* a functor, because a channel handler is followed by do_pending_functors.
queue_in_loop_self(f) ==
  /\ push(f)
  /\ IF isCallingPendingFunctors THEN wakeup ELSE UNCHANGED wakeupFd

\* What a callback on the loop thread may do to the loop: nothing, queue one
\* functor, or quit (no wakeup: the flag is read before the next poll).
callback ==
  \/ UNCHANGED <<pendingFunctors, posted, isQuit, wakeupFd>>
  \/ \E f \in Functors : queue_in_loop_self(f) /\ UNCHANGED isQuit
  \/ isQuit' = TRUE /\ UNCHANGED <<pendingFunctors, posted, wakeupFd>>
-----------------------------------------------------------------------------
(* Another thread: run_in_loop and queue_in_loop push, then wake; quit     *)
(* sets the flag, then wakes.  A thread that quit makes no further call.   *)

\* Mutant of queue_in_loop: the wakeup is skipped while functors are running.
queue_in_loop_skipping(t, f) ==
  /\ caller[t] = "idle"
  /\ push(f)
  /\ caller' = [caller EXCEPT ![t] = IF isCallingPendingFunctors THEN "idle" ELSE "wakeup"]
  /\ UNCHANGED <<functors, isCallingPendingFunctors, isQuit, wakeupFd,
                 active, pc, executed, early>>

queue_in_loop(t, f) ==
  /\ caller[t] = "idle"
  /\ push(f)
  /\ caller' = [caller EXCEPT ![t] = "wakeup"]
  /\ UNCHANGED <<functors, isCallingPendingFunctors, isQuit, wakeupFd,
                 active, pc, executed, early>>

wake_after_push(t) ==
  /\ caller[t] = "wakeup"
  /\ wakeup
  /\ caller' = [caller EXCEPT ![t] = "idle"]
  /\ UNCHANGED <<queueVars, isQuit, active, pc, historyVars>>

\* Mutant of quit: the flag is set and nobody is woken.
quit_silently(t) ==
  /\ caller[t] = "idle"
  /\ isQuit' = TRUE
  /\ caller' = [caller EXCEPT ![t] = "gone"]
  /\ UNCHANGED <<queueVars, wakeupFd, active, pc, historyVars>>

quit(t) ==
  /\ caller[t] = "idle"
  /\ isQuit' = TRUE
  /\ caller' = [caller EXCEPT ![t] = "quit"]
  /\ UNCHANGED <<queueVars, wakeupFd, active, pc, historyVars>>

wake_after_quit(t) ==
  /\ caller[t] = "quit"
  /\ wakeup
  /\ caller' = [caller EXCEPT ![t] = "gone"]
  /\ UNCHANGED <<queueVars, isQuit, active, pc, historyVars>>
-----------------------------------------------------------------------------
(* The loop thread.                                                        *)

\* Before loop() (a thread-init callback, code between construction and
\* loop()) the owner may already queue: nobody is woken.
queue_before_loop(f) ==
  /\ pc = "ready"
  /\ queue_in_loop_self(f)
  /\ early' = early \cup {f}
  /\ UNCHANGED <<functors, isCallingPendingFunctors, isQuit, threadVars, executed>>

enter_loop ==
  /\ pc = "ready"
  /\ pc' = "check"
  /\ UNCHANGED <<queueVars, isQuit, wakeupFd, active, caller, historyVars>>

check_quit ==
  /\ pc = "check"
  /\ pc' = IF isQuit THEN "stopped" ELSE "poll"
  /\ UNCHANGED <<queueVars, isQuit, wakeupFd, active, caller, historyVars>>

\* epoll_wait returns because channels are ready (the eventfd is reported
\* exactly when its counter is positive) or because the timeout passed.
poll_returns(ready) ==
  /\ pc = "poll"
  /\ ("wakeup" \in ready) <=> (wakeupFd > 0)
  /\ active' = ready
  /\ pc' = "handle"
  /\ UNCHANGED <<queueVars, isQuit, wakeupFd, caller, historyVars>>

poll == \E ready \in SUBSET Channels : poll_returns(ready)

\* EventLoop::on_read: one read of an eventfd takes the whole counter.
on_read ==
  /\ pc = "handle"
  /\ "wakeup" \in active
  /\ wakeupFd' = 0
  /\ active' = active \ {"wakeup"}
  /\ UNCHANGED <<queueVars, isQuit, pc, caller, historyVars>>

handle_other ==
  /\ pc = "handle"
  /\ "other" \in active
  /\ callback
  /\ active' = active \ {"other"}
  /\ UNCHANGED <<functors, isCallingPendingFunctors, pc, caller, executed, early>>

\* Mutant of swap_functors: the queue is copied and not emptied.
copy_functors ==
  /\ pc = "handle"
  /\ active = {}
  /\ isCallingPendingFunctors' = TRUE
  /\ functors' = pendingFunctors
  /\ pc' = "run"
  /\ UNCHANGED <<pendingFunctors, isQuit, wakeupFd, active, caller, historyVars>>

\* do_pending_functors up to the end of its critical section.
swap_functors ==
  /\ pc = "handle"
  /\ active = {}
  /\ isCallingPendingFunctors' = TRUE
  /\ functors' = pendingFunctors
  /\ pendingFunctors' = << >>
  /\ pc' = "run"
  /\ UNCHANGED <<isQuit, wakeupFd, active, caller, historyVars>>

\* Mutant of run_functor: the batch is worked off from its end.
run_functor_newest ==
  /\ pc = "run"
  /\ functors # << >>
  /\ functors' = SubSeq(functors, 1, Len(functors) - 1)
  /\ executed' = Append(executed, functors[Len(functors)])
  /\ callback
  /\ UNCHANGED <<isCallingPendingFunctors, threadVars, early>>

run_functor ==
  /\ pc = "run"
  /\ functors # << >>
  /\ functors' = Tail(functors)
  /\ executed' = Append(executed, Head(functors))
  /\ callback
  /\ UNCHANGED <<isCallingPendingFunctors, threadVars, early>>

end_functors ==
  /\ pc = "run"
  /\ functors = << >>
  /\ isCallingPendingFunctors' = FALSE
  /\ pc' = "check"
  /\ UNCHANGED <<pendingFunctors, functors, isQuit, wakeupFd, active, caller,
                 historyVars>>
-----------------------------------------------------------------------------
LoopRuns == enter_loop \/ check_quit \/ on_read \/ handle_other \/ swap_functors
              \/ run_functor \/ end_functors

Woken(t) == wake_after_push(t) \/ wake_after_quit(t)

Next ==
  \/ \E t \in Threads, f \in Functors : queue_in_loop(t, f)
  \/ \E t \in Threads : wake_after_push(t)
  \/ \E t \in Threads : quit(t)
  \/ \E t \in Threads : wake_after_quit(t)
  \/ \E f \in Functors : queue_before_loop(f)
  \/ enter_loop
  \/ check_quit
  \/ poll
  \/ on_read
  \/ handle_other
  \/ swap_functors
  \/ run_functor
  \/ end_functors

\* A running thread is scheduled; epoll_wait returns when the eventfd is
\* readable.  Nothing obliges another channel to become ready, nor the
\* timeout to pass.
Fairness ==
  /\ WF_vars(LoopRuns)
  /\ WF_vars(poll /\ wakeupFd > 0)
  /\ \A t \in Threads : WF_vars(Woken(t))

Spec == Init /\ [][Next]_vars /\ Fairness
-----------------------------------------------------------------------------
(* Properties.                                                             *)

InFlight(kind) == \E t \in Threads : caller[t] = kind

\* Functors run in the order they were queued, none twice, and none is lost
\* while it moves from pendingFunctors_ through the swapped batch into a run,
\* however pushes interleave with the swap (queue_in_loop, do_pending_functors).
FifoDelivery == posted = executed \o functors \o pendingFunctors

\* The loop never sleeps on work: when it is about to block in epoll_wait,
\* a queued functor or a quit request implies that the eventfd is readable or
\* that the thread that made the call is on its way to write it.  The one
\* exception is a functor the loop's own thread queued before loop().
NoLostWakeup ==
  pc = "poll" /\ wakeupFd = 0 =>
    /\ isQuit => InFlight("quit")
    /\ Elements(pendingFunctors) \subseteq early \/ InFlight("wakeup")
Inv == TypeOK /\ NoLostWakeup

\* While nobody quits, a functor queued from another thread, a handler or a
\* functor runs, and no poll timeout is needed for that.
QueuedIsRun ==
  \A f \in Functors : f \in Elements(posted) \ early ~> f \in Elements(executed) \/ isQuit

\* A quit request, from any thread, ends loop() without a poll timeout.
QuitStops == isQuit ~> pc = "stopped"

\* Whatever the interleaving, a caller sees what TaskDispatch promises: each
\* step of any thread is one of its steps or changes nothing it speaks of.
Dispatch == INSTANCE TaskDispatch WITH queue <- functors \o pendingFunctors,
                                       done <- executed, closed <- isQuit
DispatchSafety == Dispatch!DispatchSafety
=============================================================================
