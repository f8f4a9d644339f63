--------------------------- MODULE EventLoopProofs ---------------------------
(***************************************************************************)
(* TLAPS proofs about EventLoop, for any set of threads and functors.      *)
(***************************************************************************)
EXTENDS EventLoop, SequenceTheorems, TLAPS

\* The batch is empty outside do_pending_functors' run phase, and exactly
\* there the re-entrancy flag is set.
BatchInv ==
  /\ pc # "run" => functors = << >>
  /\ pc = "run" => isCallingPendingFunctors

\* NoLostWakeup made inductive: outside the handling of events, where the
\* swap is still to come, a functor in the queue has been or will be signalled.
SleepInv ==
  pc # "handle" /\ wakeupFd = 0 =>
    Elements(pendingFunctors) \subseteq early \/ InFlight("wakeup")

QuitInv == pc = "poll" /\ wakeupFd = 0 /\ isQuit => InFlight("quit")

WakeInv == SleepInv /\ QuitInv
-----------------------------------------------------------------------------
\* Appending to a sequence adds one element.
LEMMA ElementsAppend ==
  ASSUME NEW S, NEW s \in Seq(S), NEW e \in S
  PROVE  Elements(Append(s, e)) = Elements(s) \cup {e}
<1> DEFINE a == Append(s, e)
<1>1. /\ DOMAIN s = 1 .. Len(s) /\ Len(s) \in Nat
      /\ DOMAIN a = 1 .. (Len(s) + 1)
      /\ \A i \in 1 .. Len(s) : a[i] = s[i]
      /\ a[Len(s) + 1] = e
  BY AppendProperties, LenProperties
<1>2. ASSUME NEW x \in Elements(a) PROVE x \in Elements(s) \cup {e}
  <2>1. PICK i \in 1 .. (Len(s) + 1) : x = a[i]
    BY <1>1, <1>2 DEF Elements
  <2>2. QED BY <1>1, <2>1 DEF Elements
<1>3. ASSUME NEW x \in Elements(s) \cup {e} PROVE x \in Elements(a)
  BY <1>1, <1>3 DEF Elements
<1>4. QED BY <1>2, <1>3

\* The elements of a concatenation are those of its parts.
LEMMA ElementsConcat ==
  ASSUME NEW S, NEW s \in Seq(S), NEW u \in Seq(S)
  PROVE  Elements(s \o u) = Elements(s) \cup Elements(u)
<1> DEFINE a == s \o u
<1>1. /\ DOMAIN s = 1 .. Len(s) /\ Len(s) \in Nat
      /\ DOMAIN u = 1 .. Len(u) /\ Len(u) \in Nat
      /\ DOMAIN a = 1 .. (Len(s) + Len(u))
      /\ \A i \in 1 .. Len(s) : a[i] = s[i]
      /\ \A i \in (Len(s) + 1) .. (Len(s) + Len(u)) : a[i] = u[i - Len(s)]
  BY ConcatProperties, LenProperties
<1>2. ASSUME NEW x \in Elements(a) PROVE x \in Elements(s) \cup Elements(u)
  <2>1. PICK i \in 1 .. (Len(s) + Len(u)) : x = a[i]
    BY <1>1, <1>2 DEF Elements
  <2>2. QED BY <1>1, <2>1 DEF Elements
<1>3. ASSUME NEW x \in Elements(s) PROVE x \in Elements(a)
  <2>1. PICK i \in 1 .. Len(s) : x = s[i]
    BY <1>1, <1>3 DEF Elements
  <2>2. QED BY <1>1, <2>1 DEF Elements
<1>4. ASSUME NEW x \in Elements(u) PROVE x \in Elements(a)
  <2>1. PICK i \in 1 .. Len(u) : x = u[i]
    BY <1>1, <1>4 DEF Elements
  <2>2. i + Len(s) \in (Len(s) + 1) .. (Len(s) + Len(u)) /\ (i + Len(s)) - Len(s) = i
    BY <1>1, <2>1
  <2>3. a[i + Len(s)] = u[i] /\ i + Len(s) \in DOMAIN a
    BY <1>1, <2>2
  <2>4. QED BY <2>1, <2>3 DEF Elements
<1>5. QED BY <1>2, <1>3, <1>4

LEMMA ElementsEmpty == Elements(<< >>) = {}
BY DEF Elements

\* What a push does to the pending queue and to the history.
LEMMA PushType ==
  ASSUME TypeOK, NEW f \in Functors, push(f)
  PROVE  /\ pendingFunctors' = Append(pendingFunctors, f)
         /\ posted' = Append(posted, f)
         /\ pendingFunctors' \in Seq(Functors)
         /\ posted' \in Seq(Functors)
BY DEF TypeOK, push

LEMMA CallbackType ==
  ASSUME TypeOK, callback
  PROVE  /\ pendingFunctors' \in Seq(Functors)
         /\ posted' \in Seq(Functors)
         /\ isQuit' \in BOOLEAN
         /\ wakeupFd' \in Nat
<1>1. CASE UNCHANGED <<pendingFunctors, posted, isQuit, wakeupFd>>
  BY <1>1 DEF TypeOK
<1>2. CASE \E f \in Functors : queue_in_loop_self(f) /\ UNCHANGED isQuit
  BY <1>2, PushType DEF TypeOK, queue_in_loop_self, wakeup
<1>3. CASE isQuit' = TRUE /\ UNCHANGED <<pendingFunctors, posted, wakeupFd>>
  BY <1>3 DEF TypeOK
<1>4. QED BY <1>1, <1>2, <1>3 DEF callback

LEMMA TypeStep == TypeOK /\ [Next]_vars => TypeOK'
<1> SUFFICES ASSUME TypeOK, [Next]_vars PROVE TypeOK'
  OBVIOUS
<1> USE DEF queueVars, threadVars, historyVars
<1>1. ASSUME NEW t \in Threads, NEW f \in Functors, queue_in_loop(t, f) PROVE TypeOK'
  BY <1>1, PushType DEF TypeOK, queue_in_loop
<1>2. ASSUME NEW t \in Threads, wake_after_push(t) PROVE TypeOK'
  BY <1>2 DEF TypeOK, wake_after_push, wakeup
<1>3. ASSUME NEW t \in Threads, quit(t) PROVE TypeOK'
  BY <1>3 DEF TypeOK, quit
<1>4. ASSUME NEW t \in Threads, wake_after_quit(t) PROVE TypeOK'
  BY <1>4 DEF TypeOK, wake_after_quit, wakeup
<1>5. ASSUME NEW f \in Functors, queue_before_loop(f) PROVE TypeOK'
  BY <1>5, PushType DEF TypeOK, queue_before_loop, queue_in_loop_self, wakeup
<1>6. CASE enter_loop
  BY <1>6 DEF TypeOK, enter_loop
<1>7. CASE check_quit
  BY <1>7 DEF TypeOK, check_quit
<1>8. CASE poll
  BY <1>8 DEF TypeOK, poll, poll_returns
<1>9. CASE on_read
  BY <1>9 DEF TypeOK, on_read
<1>10. CASE handle_other
  BY <1>10, CallbackType DEF TypeOK, handle_other
<1>11. CASE swap_functors
  BY <1>11 DEF TypeOK, swap_functors
<1>12. CASE run_functor
  <2>1. Tail(functors) \in Seq(Functors) /\ Head(functors) \in Functors
    BY <1>12 DEF TypeOK, run_functor
  <2>2. QED BY <1>12, <2>1, CallbackType DEF TypeOK, run_functor
<1>13. CASE end_functors
  BY <1>13 DEF TypeOK, end_functors
<1>14. CASE UNCHANGED vars
  BY <1>14 DEF TypeOK, vars
<1>15. QED BY <1>1, <1>2, <1>3, <1>4, <1>5, <1>6, <1>7, <1>8, <1>9, <1>10, <1>11,
              <1>12, <1>13, <1>14 DEF Next

\* Every variable of the loop keeps its type (EventLoop.h:72-96).
THEOREM TypeCorrect == Spec => []TypeOK
<1>1. ASSUME Init PROVE TypeOK
  <2>1. << >> \in Seq(Functors)
    BY EmptySeq
  <2>2. isCallingPendingFunctors \in BOOLEAN /\ isQuit \in BOOLEAN
    BY <1>1, Zenon DEF Init
  <2>3. wakeupFd \in Nat
    BY <1>1 DEF Init
  <2>4. active \in SUBSET Channels /\ early \in SUBSET Functors
    BY <1>1 DEF Init
  <2>5. /\ pc \in {"ready", "check", "poll", "handle", "run", "stopped"}
        /\ caller \in [Threads -> {"idle", "wakeup", "quit", "gone"}]
    BY <1>1 DEF Init
  <2>6. QED BY <1>1, <2>1, <2>2, <2>3, <2>4, <2>5, Zenon DEF Init, TypeOK
<1>2. QED BY <1>1, TypeStep, PTL DEF Spec
-----------------------------------------------------------------------------
\* The batch and the re-entrancy flag follow the loop's position.
LEMMA BatchStep == TypeOK /\ BatchInv /\ [Next]_vars => BatchInv'
BY DEF TypeOK, BatchInv, Next, vars, queueVars, threadVars, historyVars,
       queue_in_loop, wake_after_push, quit, wake_after_quit, queue_before_loop,
       enter_loop, check_quit, poll, poll_returns, on_read, handle_other,
       swap_functors, run_functor, end_functors
-----------------------------------------------------------------------------
(* Delivery in order: posted is always the concatenation of what ran, the  *)
(* batch being run and the queue.                                          *)

\* A push onto the queue is a push onto the whole history.
LEMMA ConcatPush ==
  ASSUME NEW S, NEW e \in Seq(S), NEW b \in Seq(S), NEW q \in Seq(S), NEW f \in S
  PROVE  e \o b \o Append(q, f) = Append(e \o b \o q, f)
<1> DEFINE eb == e \o b
<1>1. eb \in Seq(S) /\ eb \o q \in Seq(S) /\ <<f>> \in Seq(S)
  BY ConcatProperties
<1>2. eb \o Append(q, f) = eb \o (q \o <<f>>)
  BY AppendIsConcat
<1>3. eb \o (q \o <<f>>) = (eb \o q) \o <<f>>
  BY <1>1, ConcatAssociative
<1>4. (eb \o q) \o <<f>> = Append(eb \o q, f)
  BY <1>1, AppendIsConcat
<1>5. QED BY <1>2, <1>3, <1>4

\* Moving the head of the batch to the end of what ran keeps the whole.
LEMMA ConcatRun ==
  ASSUME NEW S, NEW e \in Seq(S), NEW b \in Seq(S), b # << >>
  PROVE  Append(e, Head(b)) \o Tail(b) = e \o b
<1>1. Head(b) \in S /\ Tail(b) \in Seq(S) /\ <<Head(b)>> \in Seq(S)
  BY HeadTailProperties
<1>2. Append(e, Head(b)) = e \o <<Head(b)>>
  BY <1>1, AppendIsConcat
<1>3. b = <<Head(b)>> \o Tail(b)
  <2>1. Len(b) \in Nat \ {0} /\ Len(Tail(b)) = Len(b) - 1
    BY EmptySeq, HeadTailProperties
  <2>2. /\ <<Head(b)>> \o Tail(b) \in Seq(S)
        /\ Len(<<Head(b)>> \o Tail(b)) = Len(b)
    BY <1>1, <2>1, ConcatProperties
  <2>3. ASSUME NEW i \in 1 .. Len(b) PROVE b[i] = (<<Head(b)>> \o Tail(b))[i]
    <3>1. CASE i = 1
      BY <1>1, <2>1, <3>1, ConcatProperties
    <3>2. CASE i # 1
      <4>1. i - 1 \in 1 .. Len(Tail(b)) /\ i \in 1 .. (1 + Len(Tail(b)))
        BY <2>1, <3>2
      <4>2. (<<Head(b)>> \o Tail(b))[i] = Tail(b)[i - 1]
        BY <1>1, <3>2, <4>1, ConcatProperties
      <4>3. QED BY <4>1, <4>2, HeadTailProperties
    <3>3. QED BY <3>1, <3>2
  <2>4. QED BY <2>2, <2>3, SeqEqual
<1>4. (e \o <<Head(b)>>) \o Tail(b) = e \o (<<Head(b)>> \o Tail(b))
  BY <1>1, ConcatAssociative
<1>5. QED BY <1>2, <1>3, <1>4

LEMMA FifoPush ==
  ASSUME TypeOK, FifoDelivery, NEW f \in Functors, push(f),
         functors' = functors, executed' = executed
  PROVE  FifoDelivery'
<1>1. executed \o functors \o Append(pendingFunctors, f)
        = Append(executed \o functors \o pendingFunctors, f)
  BY ConcatPush DEF TypeOK
<1>2. pendingFunctors' = Append(pendingFunctors, f) /\ posted' = Append(posted, f)
  BY PushType
<1>3. QED BY <1>1, <1>2, Zenon DEF FifoDelivery

LEMMA FifoStep ==
  TypeOK /\ BatchInv /\ FifoDelivery /\ [Next]_vars => FifoDelivery'
<1> SUFFICES ASSUME TypeOK, BatchInv, FifoDelivery, [Next]_vars PROVE FifoDelivery'
  OBVIOUS
<1> USE DEF queueVars, threadVars, historyVars
<1>1. ASSUME NEW t \in Threads, NEW f \in Functors, queue_in_loop(t, f)
      PROVE FifoDelivery'
  BY <1>1, FifoPush DEF queue_in_loop
<1>2. ASSUME NEW f \in Functors, queue_before_loop(f) PROVE FifoDelivery'
  BY <1>2, FifoPush DEF queue_before_loop, queue_in_loop_self
<1>3. CASE handle_other
  <2>1. CASE \E f \in Functors : queue_in_loop_self(f)
    BY <1>3, <2>1, FifoPush DEF handle_other, queue_in_loop_self
  <2>2. CASE UNCHANGED <<pendingFunctors, posted>>
    BY <1>3, <2>2 DEF handle_other, FifoDelivery
  <2>3. QED BY <1>3, <2>1, <2>2 DEF handle_other, callback
<1>4. CASE swap_functors
  <2>1. functors = << >>
    BY <1>4 DEF swap_functors, BatchInv
  <2>2. executed \o << >> \o pendingFunctors = executed \o pendingFunctors \o << >>
    <3>1. executed \o pendingFunctors \in Seq(Functors)
      BY ConcatProperties DEF TypeOK
    <3>2. QED BY <3>1, ConcatEmptySeq DEF TypeOK
  <2>3. QED BY <1>4, <2>1, <2>2 DEF swap_functors, FifoDelivery
<1>5. CASE run_functor
  <2>1. executed' \o functors' = executed \o functors
    BY <1>5, ConcatRun DEF run_functor, TypeOK
  <2>2. CASE UNCHANGED <<pendingFunctors, posted>>
    BY <2>1, <2>2 DEF FifoDelivery
  <2>3. CASE \E f \in Functors : queue_in_loop_self(f)
    <3>1. PICK f \in Functors : push(f)
      BY <2>3 DEF queue_in_loop_self
    <3>2. executed \o functors \o Append(pendingFunctors, f)
            = Append(executed \o functors \o pendingFunctors, f)
      BY ConcatPush DEF TypeOK
    <3>3. pendingFunctors' = Append(pendingFunctors, f) /\ posted' = Append(posted, f)
      BY <3>1, PushType
    <3>4. QED BY <2>1, <3>2, <3>3, Zenon DEF FifoDelivery
  <2>4. QED BY <1>5, <2>2, <2>3 DEF run_functor, callback
<1>6. CASE \E t \in Threads : wake_after_push(t) \/ quit(t) \/ wake_after_quit(t)
  BY <1>6 DEF FifoDelivery, wake_after_push, quit, wake_after_quit
<1>7. CASE enter_loop \/ check_quit \/ poll \/ on_read \/ end_functors
  BY <1>7 DEF FifoDelivery, enter_loop, check_quit, poll, poll_returns, on_read,
              end_functors
<1>8. CASE UNCHANGED vars
  BY <1>8 DEF FifoDelivery, vars
<1>9. QED BY <1>1, <1>2, <1>3, <1>4, <1>5, <1>6, <1>7, <1>8 DEF Next

\* Queued functors run in queue order, none lost and none twice, for any
\* number of threads pushing while the loop swaps (EventLoop.cpp:115-130, 177-193).
THEOREM Fifo == Spec => []FifoDelivery
<1>1. Init => BatchInv
  BY DEF Init, BatchInv
<1>2. ASSUME Init PROVE FifoDelivery
  <2>1. << >> \in Seq(Functors)
    BY EmptySeq
  <2>2. << >> \o << >> \o << >> = << >>
    BY <2>1, ConcatEmptySeq
  <2>3. QED BY <1>2, <2>2 DEF Init, FifoDelivery
<1>3. QED BY <1>1, <1>2, TypeCorrect, BatchStep, FifoStep, PTL DEF Spec
-----------------------------------------------------------------------------
(* No lost wakeup.                                                         *)

LEMMA InFlightSame ==
  ASSUME UNCHANGED caller PROVE \A k : InFlight(k)' <=> InFlight(k)
BY DEF InFlight

\* A push by another thread leaves that thread on its way to wakeup().
LEMMA SleepPush ==
  ASSUME TypeOK, NEW t \in Threads, NEW f \in Functors, queue_in_loop(t, f)
  PROVE  InFlight("wakeup")' /\ (InFlight("quit") => InFlight("quit")')
<1>1. caller' = [caller EXCEPT ![t] = "wakeup"] /\ caller[t] = "idle"
  BY DEF queue_in_loop
<1>2. caller'[t] = "wakeup"
  BY <1>1 DEF TypeOK
<1>3. ASSUME NEW u \in Threads, caller[u] = "quit" PROVE caller'[u] = "quit"
  BY <1>1, <1>3 DEF TypeOK
<1>4. QED BY <1>2, <1>3 DEF InFlight

LEMMA WakeStep == TypeOK /\ BatchInv /\ WakeInv /\ [Next]_vars => WakeInv'
<1> SUFFICES ASSUME TypeOK, BatchInv, WakeInv, [Next]_vars PROVE WakeInv'
  OBVIOUS
<1> USE DEF queueVars, threadVars, historyVars
<1>1. ASSUME NEW t \in Threads, NEW f \in Functors, queue_in_loop(t, f) PROVE WakeInv'
  BY <1>1, SleepPush DEF WakeInv, SleepInv, QuitInv, queue_in_loop
<1>2. CASE \E t \in Threads : wake_after_push(t) \/ wake_after_quit(t)
  <2>1. wakeupFd' # 0
    BY <1>2 DEF TypeOK, wake_after_push, wake_after_quit, wakeup
  <2>2. QED BY <2>1 DEF WakeInv, SleepInv, QuitInv
<1>3. ASSUME NEW t \in Threads, quit(t) PROVE WakeInv'
  <2>1. caller' = [caller EXCEPT ![t] = "quit"] /\ caller[t] = "idle"
    BY <1>3 DEF quit
  <2>2. caller'[t] = "quit"
    BY <2>1 DEF TypeOK
  <2>3. ASSUME NEW u \in Threads, caller[u] = "wakeup" PROVE caller'[u] = "wakeup"
    BY <2>1, <2>3 DEF TypeOK
  <2>4. InFlight("quit")' /\ (InFlight("wakeup") => InFlight("wakeup")')
    BY <2>2, <2>3 DEF InFlight
  <2>5. UNCHANGED <<pc, wakeupFd, pendingFunctors, early>>
    BY <1>3 DEF quit
  <2>6. QED BY <2>4, <2>5 DEF WakeInv, SleepInv, QuitInv
<1>4. ASSUME NEW f \in Functors, queue_before_loop(f) PROVE WakeInv'
  <2>1. Elements(pendingFunctors') = Elements(pendingFunctors) \cup {f}
    <3>1. pendingFunctors' = Append(pendingFunctors, f)
      BY <1>4, PushType DEF queue_before_loop, queue_in_loop_self
    <3>2. Elements(Append(pendingFunctors, f)) = Elements(pendingFunctors) \cup {f}
      BY ElementsAppend DEF TypeOK
    <3>3. QED BY <3>1, <3>2, Zenon
  <2>2. wakeupFd' = 0 => wakeupFd = 0
    BY <1>4 DEF TypeOK, queue_before_loop, queue_in_loop_self, wakeup
  <2>3. early' = early \cup {f} /\ pc = "ready" /\ pc' = pc /\ UNCHANGED caller
    BY <1>4 DEF queue_before_loop
  <2>4. QED BY <2>1, <2>2, <2>3, InFlightSame DEF WakeInv, SleepInv, QuitInv
<1>5. CASE enter_loop \/ end_functors
  BY <1>5, InFlightSame DEF WakeInv, SleepInv, QuitInv, enter_loop, end_functors
<1>6. CASE check_quit
  <2>1. isQuit' = FALSE \/ pc' = "stopped"
    BY <1>6 DEF TypeOK, check_quit
  <2>2. QED BY <1>6, <2>1, InFlightSame DEF WakeInv, SleepInv, QuitInv, check_quit
<1>7. CASE poll \/ on_read \/ handle_other
  <2>1. pc' = "handle"
    BY <1>7 DEF poll, poll_returns, on_read, handle_other
  <2>2. QED BY <2>1 DEF WakeInv, SleepInv, QuitInv
<1>8. CASE swap_functors
  BY <1>8, ElementsEmpty DEF WakeInv, SleepInv, QuitInv, swap_functors
<1>9. CASE run_functor
  <2>1. pc = "run" /\ pc' = "run" /\ early' = early /\ UNCHANGED caller
    BY <1>9 DEF run_functor
  <2>2. CASE \E f \in Functors : queue_in_loop_self(f)
    BY <2>1, <2>2 DEF WakeInv, SleepInv, QuitInv, queue_in_loop_self, BatchInv,
                      wakeup, TypeOK
  <2>3. CASE UNCHANGED <<pendingFunctors, wakeupFd>>
    BY <2>1, <2>3, InFlightSame DEF WakeInv, SleepInv, QuitInv
  <2>4. QED BY <1>9, <2>2, <2>3 DEF run_functor, callback
<1>10. CASE UNCHANGED vars
  BY <1>10, InFlightSame DEF WakeInv, SleepInv, QuitInv, vars
<1>11. QED BY <1>1, <1>2, <1>3, <1>4, <1>5, <1>6, <1>7, <1>8, <1>9, <1>10 DEF Next

\* The loop never blocks in epoll_wait on a queued functor or a quit request
\* that nobody is going to signal (EventLoop.cpp:90-96, 115-130, 161-175), and
\* every variable keeps its type.
THEOREM WakeupNotLost == Spec => []Inv
<1>1. Init => BatchInv /\ WakeInv
  BY ElementsEmpty DEF Init, BatchInv, WakeInv, SleepInv, QuitInv
<1>2. WakeInv => NoLostWakeup
  BY DEF WakeInv, SleepInv, QuitInv, NoLostWakeup
<1>3. TypeOK /\ NoLostWakeup => Inv
  BY DEF Inv
<1>4. QED BY <1>1, <1>2, <1>3, TypeCorrect, BatchStep, WakeStep, PTL DEF Spec
-----------------------------------------------------------------------------
(* The loop implements TaskDispatch (its safety part; the fairness part is *)
(* model-checked).                                                         *)

queueImage == functors \o pendingFunctors

\* A functor not posted yet is fresh in the image.
LEMMA FreshImage ==
  ASSUME TypeOK, FifoDelivery, NEW f \in Unposted PROVE f \in Dispatch!Fresh
<1>1. /\ executed \in Seq(Functors) /\ functors \in Seq(Functors)
      /\ pendingFunctors \in Seq(Functors) /\ executed \o functors \in Seq(Functors)
  BY ConcatProperties DEF TypeOK
<1>2. Elements(posted) = Elements(executed) \cup Elements(functors)
                           \cup Elements(pendingFunctors)
  <2>1. Elements(executed \o functors \o pendingFunctors)
          = Elements(executed \o functors) \cup Elements(pendingFunctors)
    BY <1>1, ElementsConcat, Zenon
  <2>2. Elements(executed \o functors) = Elements(executed) \cup Elements(functors)
    BY <1>1, ElementsConcat, Zenon
  <2>3. QED BY <2>1, <2>2, Zenon DEF FifoDelivery
<1>3. Elements(queueImage) = Elements(functors) \cup Elements(pendingFunctors)
  BY <1>1, ElementsConcat, Zenon DEF queueImage
<1>4. f \in Functors /\ f \notin Elements(queueImage) /\ f \notin Elements(executed)
  BY <1>2, <1>3 DEF Unposted
<1>5. QED BY <1>4 DEF Dispatch!Fresh, Elements, queueImage

\* Pushing on pendingFunctors_ pushes on the image.
LEMMA ImagePush ==
  ASSUME NEW S, NEW b \in Seq(S), NEW q \in Seq(S), NEW f \in S
  PROVE  b \o Append(q, f) = Append(b \o q, f)
<1>1. Append(q, f) = q \o <<f>> /\ <<f>> \in Seq(S) /\ b \o q \in Seq(S)
  BY AppendIsConcat, ConcatProperties
<1>2. b \o (q \o <<f>>) = (b \o q) \o <<f>>
  BY <1>1, ConcatAssociative
<1>3. QED BY <1>1, <1>2, AppendIsConcat

\* The head and the tail of the image are those of a non-empty batch.
LEMMA ImageHead ==
  ASSUME NEW S, NEW b \in Seq(S), NEW q \in Seq(S), b # << >>
  PROVE  /\ b \o q # << >>
         /\ Head(b \o q) = Head(b)
         /\ Tail(b \o q) = Tail(b) \o q
<1>1. /\ Len(b) \in Nat \ {0} /\ Len(q) \in Nat
      /\ b \o q \in Seq(S) /\ Len(b \o q) = Len(b) + Len(q)
      /\ Tail(b) \in Seq(S) /\ Len(Tail(b)) = Len(b) - 1
  BY EmptySeq, ConcatProperties, HeadTailProperties, LenProperties
<1>2. b \o q # << >>
  BY <1>1, ConcatEqualIffEmpty
<1>3. Head(b \o q) = Head(b)
  BY <1>1, <1>2, ConcatProperties
<1>4. /\ Tail(b \o q) \in Seq(S) /\ Len(Tail(b \o q)) = Len(b) + Len(q) - 1
      /\ Tail(b) \o q \in Seq(S) /\ Len(Tail(b) \o q) = Len(b) + Len(q) - 1
  BY <1>1, <1>2, HeadTailProperties, ConcatProperties
<1>5. ASSUME NEW i \in 1 .. (Len(b) + Len(q) - 1)
      PROVE  Tail(b \o q)[i] = (Tail(b) \o q)[i]
  <2>1. Tail(b \o q)[i] = (b \o q)[i + 1]
    BY <1>1, <1>2, <1>4, HeadTailProperties
  <2>2. i + 1 \in 1 .. (Len(b) + Len(q))
    BY <1>1
  <2>3. CASE i <= Len(b) - 1
    <3>1. (b \o q)[i + 1] = b[i + 1]
      BY <1>1, <2>2, <2>3, ConcatProperties
    <3>2. (Tail(b) \o q)[i] = Tail(b)[i]
      BY <1>1, <2>3, ConcatProperties
    <3>3. Tail(b)[i] = b[i + 1]
      BY <1>1, <2>3, HeadTailProperties
    <3>4. QED BY <2>1, <3>1, <3>2, <3>3
  <2>4. CASE i > Len(b) - 1
    <3>1. (b \o q)[i + 1] = q[i + 1 - Len(b)]
      BY <1>1, <2>2, <2>4, ConcatProperties
    <3>2. (Tail(b) \o q)[i] = q[i - (Len(b) - 1)]
      BY <1>1, <2>4, ConcatProperties
    <3>3. i + 1 - Len(b) = i - (Len(b) - 1)
      BY <1>1
    <3>4. QED BY <2>1, <3>1, <3>2, <3>3
  <2>5. QED BY <1>1, <2>3, <2>4
<1>6. QED BY <1>2, <1>3, <1>4, <1>5, SeqEqual

\* The body of a functor or handler leaves the queue alone, pushes, or quits.
LEMMA CallbackCases ==
  ASSUME callback
  PROVE  \/ UNCHANGED <<pendingFunctors, isQuit>>
         \/ isQuit' = TRUE /\ UNCHANGED pendingFunctors
         \/ \E f \in Functors : push(f) /\ UNCHANGED isQuit
BY DEF callback, queue_in_loop_self

LEMMA PushSubmits ==
  ASSUME TypeOK, FifoDelivery, NEW f \in Functors, push(f),
         UNCHANGED <<functors, executed, isQuit>>
  PROVE  Dispatch!Submit(f)
<1>1. f \in Dispatch!Fresh
  BY FreshImage DEF push
<1>2. functors \o Append(pendingFunctors, f) = Append(functors \o pendingFunctors, f)
  BY ImagePush DEF TypeOK
<1>3. pendingFunctors' = Append(pendingFunctors, f)
  BY DEF push
<1>4. QED BY <1>1, <1>2, <1>3, Zenon DEF Dispatch!Submit

LEMMA RunExecutes ==
  ASSUME TypeOK, FifoDelivery, run_functor PROVE Dispatch!Execute
<1> DEFINE rest == Tail(functors) \o pendingFunctors
<1>1. /\ functors \o pendingFunctors # << >>
      /\ Head(functors \o pendingFunctors) = Head(functors)
      /\ Tail(functors \o pendingFunctors) = rest
  BY ImageHead DEF TypeOK, run_functor
<1>2. executed' = Append(executed, Head(functors)) /\ functors' = Tail(functors)
  BY DEF run_functor
<1>3. CASE UNCHANGED pendingFunctors /\ (isQuit' = TRUE \/ UNCHANGED isQuit)
  <2>1. (functors \o pendingFunctors)' = rest
    BY <1>2, <1>3
  <2>2. QED BY <1>1, <1>2, <1>3, <2>1 DEF Dispatch!Execute
<1>4. CASE \E f \in Functors : push(f) /\ UNCHANGED isQuit
  <2>1. PICK f \in Functors : push(f) /\ UNCHANGED isQuit
    BY <1>4
  <2>2. f \in Dispatch!Fresh
    BY <2>1, FreshImage DEF push
  <2>3. Tail(functors) \in Seq(Functors)
    BY HeadTailProperties DEF TypeOK, run_functor
  <2>4. Tail(functors) \o Append(pendingFunctors, f) = Append(rest, f)
    BY <2>3, ImagePush DEF TypeOK
  <2>5. (functors \o pendingFunctors)' = Append(rest, f)
    BY <1>2, <2>1, <2>4 DEF push
  <2>6. QED BY <1>1, <1>2, <2>1, <2>2, <2>5, Zenon DEF Dispatch!Execute
<1>5. QED BY <1>3, <1>4, CallbackCases DEF run_functor

LEMMA DispatchStep ==
  TypeOK /\ BatchInv /\ FifoDelivery /\ [Next]_vars
    => [Dispatch!DispatchNext]_(Dispatch!dispatchVars)
<1> SUFFICES ASSUME TypeOK, BatchInv, FifoDelivery, [Next]_vars
             PROVE  [Dispatch!DispatchNext]_(Dispatch!dispatchVars)
  OBVIOUS
<1> USE DEF queueVars, threadVars, historyVars, Dispatch!dispatchVars
<1>1. ASSUME NEW t \in Threads, NEW f \in Functors, queue_in_loop(t, f)
      PROVE  Dispatch!DispatchNext
  BY <1>1, PushSubmits DEF queue_in_loop, Dispatch!DispatchNext
<1>2. ASSUME NEW f \in Functors, queue_before_loop(f) PROVE Dispatch!DispatchNext
  BY <1>2, PushSubmits DEF queue_before_loop, queue_in_loop_self, Dispatch!DispatchNext
<1>3. CASE handle_other
  <2>1. UNCHANGED <<functors, executed>>
    BY <1>3 DEF handle_other
  <2>2. CASE \E f \in Functors : push(f) /\ UNCHANGED isQuit
    BY <2>1, <2>2, PushSubmits DEF Dispatch!DispatchNext
  <2>3. CASE isQuit' = TRUE /\ UNCHANGED pendingFunctors
    BY <2>1, <2>3 DEF Dispatch!DispatchNext, Dispatch!Close
  <2>4. CASE UNCHANGED <<pendingFunctors, isQuit>>
    BY <2>1, <2>4
  <2>5. QED BY <1>3, <2>2, <2>3, <2>4, CallbackCases DEF handle_other
<1>4. CASE swap_functors
  <2>1. functors = << >>
    BY <1>4 DEF swap_functors, BatchInv
  <2>2. (functors \o pendingFunctors)' = functors \o pendingFunctors
    BY <1>4, <2>1, ConcatEmptySeq DEF swap_functors, TypeOK
  <2>3. QED BY <1>4, <2>2 DEF swap_functors
<1>5. CASE run_functor
  BY <1>5, RunExecutes DEF Dispatch!DispatchNext
<1>6. ASSUME NEW t \in Threads, quit(t) PROVE Dispatch!DispatchNext
  BY <1>6 DEF quit, Dispatch!DispatchNext, Dispatch!Close
<1>7. CASE \E t \in Threads : wake_after_push(t) \/ wake_after_quit(t)
  BY <1>7 DEF wake_after_push, wake_after_quit
<1>8. CASE enter_loop \/ check_quit \/ poll \/ on_read \/ end_functors
  BY <1>8 DEF enter_loop, check_quit, poll, poll_returns, on_read, end_functors
<1>9. CASE UNCHANGED vars
  BY <1>9 DEF vars
<1>10. QED BY <1>1, <1>2, <1>3, <1>4, <1>5, <1>6, <1>7, <1>8, <1>9 DEF Next

\* Every behaviour of the loop, its threads, its lock and its eventfd is a
\* behaviour of the abstract FIFO dispatcher (EventLoop.h:64-65).
THEOREM LoopImplementsDispatch == Spec => DispatchSafety
<1>1. ASSUME Init PROVE Dispatch!DispatchInit
  <2>1. << >> \in Seq(Functors)
    BY EmptySeq
  <2>2. << >> \o << >> = << >>
    BY <2>1, ConcatEmptySeq
  <2>3. QED BY <1>1, <2>2 DEF Init, Dispatch!DispatchInit
<1>2. Init => BatchInv
  BY DEF Init, BatchInv
<1>3. QED BY <1>1, <1>2, TypeCorrect, Fifo, BatchStep, DispatchStep, PTL
          DEF Spec, DispatchSafety, Dispatch!DispatchSafety
=============================================================================
