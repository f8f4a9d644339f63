----------------------------- MODULE TimerQueue -----------------------------
(***************************************************************************)
(* timer/TimerQueue over one timerfd: two indexes of the timers, both      *)
(* owned by the loop thread.  A call from the loop thread runs inline; a   *)
(* call from another thread is a functor in the loop's FIFO queue (the     *)
(* order TaskDispatch promises).                                           *)
(*                                                                         *)
(* Times are kept relative to now, in ticks of 1 ms: an expiration k means *)
(* k ticks from now, k <= 0 that it has passed.  Lateness beyond Lag ticks *)
(* is not distinguished.  Timers bounds the number of timers ever created. *)
(***************************************************************************)
EXTENDS Integers, Sequences, FiniteSets, FiniteSetsExt

CONSTANTS Timers,          \* timer ids
          Delays,          \* delays a timer may be created with
          Intervals,       \* intervals; 0 is a one-shot timer
          Lag,             \* lateness that is still told apart
          None             \* no timer, and a disarmed timerfd

ASSUME TimerAssumption ==
  /\ Delays \subseteq Nat /\ IsFiniteSet(Delays) /\ Delays # {}
  /\ Intervals \subseteq Nat /\ IsFiniteSet(Intervals) /\ Intervals # {}
  /\ Lag \in Nat
  /\ None \notin Nat /\ None \notin Timers

VARIABLES
  due,                     \* Timer::expiration_ of each timer, relative to now
  interval,                \* Timer::interval_
  status,                  \* history: what was asked of each id, see Statuses
  expireSet,               \* expireSet_: pairs <<expiration, timer>>
  timersById,              \* timersById_: the ids it holds
  timerFd,                 \* ticks until the timerfd is readable, or None
  ready,                   \* the last poll reported the timerfd readable
  pendingFunctors,         \* queued add and erase functors, oldest first
  expiredTimers,           \* collected by on_timerfd_read, not yet visited
  running,                 \* the timer whose callback runs, or None
  pc,                      \* "idle": outside on_timerfd_read; "expiring": in it
  fired,                   \* history: ids whose callback has been started
  sinceRun                 \* history: ticks since the last run ended, saturating

vars == <<due, interval, status, expireSet, timersById, timerFd, ready,
          pendingFunctors, expiredTimers, running, pc, fired, sinceRun>>

MaxTick == Max(Delays \cup Intervals \cup {1})
Ticks == (0 - Lag) .. MaxTick

\* An id is unused; created; asked to be cancelled by another thread; erased
\* by the loop thread while registered ("erased"), before its insertion ran
\* ("missed") or after it was gone ("late").
Statuses == {"unused", "created", "asked", "erased", "missed", "late"}

Ops == {"insert", "erase"} \X Timers

TypeOK ==
  /\ due \in [Timers -> Ticks]
  /\ interval \in [Timers -> Intervals \cup {0}]
  /\ status \in [Timers -> Statuses]
  /\ expireSet \subseteq Ticks \X Timers
  /\ timersById \subseteq Timers
  /\ timerFd \in 0 .. MaxTick \cup {None}
  /\ ready \in BOOLEAN
  /\ pendingFunctors \in Seq(Ops)
  /\ expiredTimers \subseteq Timers
  /\ running \in Timers \cup {None}
  /\ pc \in {"idle", "expiring"}
  /\ fired \subseteq Timers
  /\ sinceRun \in [Timers -> 0 .. MaxTick]

Init ==
  /\ due = [t \in Timers |-> 0]
  /\ interval = [t \in Timers |-> 0]
  /\ status = [t \in Timers |-> "unused"]
  /\ expireSet = {}
  /\ timersById = {}
  /\ timerFd = None
  /\ ready = FALSE
  /\ pendingFunctors = << >>
  /\ expiredTimers = {}
  /\ running = None
  /\ pc = "idle"
  /\ fired = {}
  /\ sinceRun = [t \in Timers |-> 0]
-----------------------------------------------------------------------------
Earliest(set) == Min({e[1] : e \in set})

\* sync_timerfd once expireSet' is known: disarmed when empty, otherwise set
\* for the earliest expiration; to_timespec asks for at least one tick.
sync_timerfd ==
  timerFd' = IF expireSet' = {} THEN None ELSE Max({1, Earliest(expireSet')})

\* Mutant of insert_timer: a timer earlier than the others does not re-arm.
insert_timer_unsynced(t, expiration) ==
  /\ expireSet' = expireSet \cup {<<expiration, t>>}
  /\ timersById' = timersById \cup {t}
  /\ IF expireSet = {} THEN sync_timerfd ELSE UNCHANGED timerFd

\* The functor add_timer hands to run_in_loop.
insert_timer(t, expiration) ==
  /\ expireSet' = expireSet \cup {<<expiration, t>>}
  /\ timersById' = timersById \cup {t}
  /\ sync_timerfd

\* The functor erase_timer hands to run_in_loop: the entry of the ordered
\* index is found through the expiration the timer has now.
erase_body(t) ==
  /\ IF t \in timersById
     THEN /\ expireSet' = expireSet \ {<<due[t], t>>}
          /\ timersById' = timersById \ {t}
     ELSE UNCHANGED <<expireSet, timersById>>
  /\ sync_timerfd

NotInserted(t) == <<"insert", t>> \in {pendingFunctors[i] : i \in DOMAIN pendingFunctors}

Outcome(t) ==
  IF t \in timersById THEN "erased"
  ELSE IF NotInserted(t) THEN "missed" ELSE "late"

create(t, delay, every) ==
  /\ status[t] = "unused"
  /\ status' = [status EXCEPT ![t] = "created"]
  /\ due' = [due EXCEPT ![t] = delay]
  /\ interval' = [interval EXCEPT ![t] = every]
-----------------------------------------------------------------------------
(* Calls from other threads.                                               *)

add_timer_elsewhere(t) ==
  /\ \E delay \in Delays, every \in Intervals : create(t, delay, every)
  /\ pendingFunctors' = Append(pendingFunctors, <<"insert", t>>)
  /\ UNCHANGED <<expireSet, timersById, timerFd, ready, expiredTimers, running,
                 pc, fired, sinceRun>>

erase_timer_elsewhere(t) ==
  /\ status[t] = "created"
  /\ status' = [status EXCEPT ![t] = "asked"]
  /\ pendingFunctors' = Append(pendingFunctors, <<"erase", t>>)
  /\ UNCHANGED <<due, interval, expireSet, timersById, timerFd, ready,
                 expiredTimers, running, pc, fired, sinceRun>>
-----------------------------------------------------------------------------
(* Calls from the loop thread: from a channel handler or a functor while   *)
(* pc = "idle", from a timer's callback while it is running.               *)

add_timer_inline(t) ==
  \E delay \in Delays, every \in Intervals :
    /\ create(t, delay, every)
    /\ insert_timer(t, delay)

erase_timer_inline(t) ==
  /\ status[t] = "created"
  /\ status' = [status EXCEPT ![t] = Outcome(t)]
  /\ erase_body(t)
  /\ UNCHANGED <<due, interval>>

CallbackRuns == pc = "idle" \/ running # None

add_timer(t) ==
  /\ CallbackRuns
  /\ add_timer_inline(t)
  /\ UNCHANGED <<ready, pendingFunctors, expiredTimers, running, pc, fired, sinceRun>>

erase_timer(t) ==
  /\ CallbackRuns
  /\ erase_timer_inline(t)
  /\ UNCHANGED <<ready, pendingFunctors, expiredTimers, running, pc, fired, sinceRun>>

\* do_pending_functors comes after the handlers of the ready channels.
run_functor ==
  /\ pc = "idle" /\ ~ready /\ pendingFunctors # << >>
  /\ LET op == Head(pendingFunctors)[1]
         t  == Head(pendingFunctors)[2]
     IN  \/ /\ op = "insert"
            /\ insert_timer(t, due[t])
            /\ UNCHANGED status
         \/ /\ op = "erase"
            /\ status' = [status EXCEPT ![t] = Outcome(t)]
            /\ erase_body(t)
  /\ pendingFunctors' = Tail(pendingFunctors)
  /\ UNCHANGED <<due, interval, ready, expiredTimers, running, pc, fired, sinceRun>>
-----------------------------------------------------------------------------
(* The timerfd and on_timerfd_read.                                        *)

Later(k) == IF k > 0 - Lag THEN k - 1 ELSE k

\* A millisecond passes; it may pass anywhere, a callback included.
tick ==
  /\ due' = [t \in Timers |-> IF status[t] = "unused" THEN 0 ELSE Later(due[t])]
  /\ expireSet' = {<<Later(e[1]), e[2]>> : e \in expireSet}
  /\ timerFd' = IF timerFd \in {0, None} THEN timerFd ELSE timerFd - 1
  /\ sinceRun' = [t \in Timers |-> Min({MaxTick, sinceRun[t] + 1})]
  /\ UNCHANGED <<interval, status, timersById, ready, pendingFunctors,
                 expiredTimers, running, pc, fired>>

\* epoll reports the timerfd; a handler that runs before on_timerfd_read may
\* still re-arm or disarm it.
poll ==
  /\ pc = "idle" /\ ~ready
  /\ timerFd = 0
  /\ ready' = TRUE
  /\ UNCHANGED <<due, interval, status, expireSet, timersById, timerFd,
                 pendingFunctors, expiredTimers, running, pc, fired, sinceRun>>

\* read_timerfd and the collection phase.  The read takes a due expiration;
\* if the timerfd was re-armed meanwhile it fails and leaves it armed.
collect_expired ==
  /\ pc = "idle" /\ ready
  /\ ready' = FALSE
  /\ timerFd' = IF timerFd = 0 THEN None ELSE timerFd
  /\ LET passed == {e \in expireSet : e[1] <= 0}
     IN  /\ expiredTimers' = {e[2] : e \in passed}
         /\ expireSet' = expireSet \ passed
  /\ pc' = "expiring"
  /\ UNCHANGED <<due, interval, status, timersById, pendingFunctors, running,
                 fired, sinceRun>>

\* The collected timers are visited by expiration, equal ones in any order.
Next_expired(t) ==
  /\ t \in expiredTimers
  /\ \A u \in expiredTimers : due[t] <= due[u]

\* Mutant of run_timer: a collected timer runs without looking it up again.
run_timer_unchecked(t) ==
  /\ pc = "expiring" /\ running = None
  /\ Next_expired(t)
  /\ expiredTimers' = expiredTimers \ {t}
  /\ running' = t /\ fired' = fired \cup {t}
  /\ UNCHANGED <<due, interval, status, expireSet, timersById, timerFd, ready,
                 pendingFunctors, pc, sinceRun>>

\* The check before the callback, and its start.
run_timer(t) ==
  /\ pc = "expiring" /\ running = None
  /\ Next_expired(t)
  /\ expiredTimers' = expiredTimers \ {t}
  /\ IF t \in timersById
     THEN running' = t /\ fired' = fired \cup {t}
     ELSE UNCHANGED <<running, fired>>
  /\ UNCHANGED <<due, interval, status, expireSet, timersById, timerFd, ready,
                 pendingFunctors, pc, sinceRun>>

\* Mutant of reschedule: the next expiration counts from the last one.
reschedule_from_expiration(t) == due' = [due EXCEPT ![t] = @ + interval[t]]

reschedule(t) == due' = [due EXCEPT ![t] = interval[t]]

\* The callback has returned: nothing if it cancelled its own timer, erase a
\* one-shot, put a repeated one back at now + interval.
finish_timer(t) ==
  /\ running = t
  /\ running' = None
  /\ sinceRun' = [sinceRun EXCEPT ![t] = 0]
  /\ \/ /\ t \notin timersById
        /\ UNCHANGED <<due, expireSet, timersById>>
     \/ /\ t \in timersById /\ interval[t] = 0
        /\ timersById' = timersById \ {t}
        /\ UNCHANGED <<due, expireSet>>
     \/ /\ t \in timersById /\ interval[t] > 0
        /\ reschedule(t)
        /\ expireSet' = expireSet \cup {<<due'[t], t>>}
        /\ UNCHANGED timersById
  /\ UNCHANGED <<interval, status, timerFd, ready, pendingFunctors, expiredTimers,
                 pc, fired>>

\* Mutant of end_expired: the timerfd is left disarmed.
end_expired_unsynced ==
  /\ pc = "expiring" /\ running = None /\ expiredTimers = {}
  /\ pc' = "idle"
  /\ UNCHANGED <<due, interval, status, expireSet, timersById, timerFd, ready,
                 pendingFunctors, expiredTimers, running, fired, sinceRun>>

end_expired ==
  /\ pc = "expiring" /\ running = None /\ expiredTimers = {}
  /\ pc' = "idle"
  /\ UNCHANGED expireSet
  /\ sync_timerfd
  /\ UNCHANGED <<due, interval, status, timersById, ready, pendingFunctors,
                 expiredTimers, running, fired, sinceRun>>
-----------------------------------------------------------------------------
Next ==
  \/ \E t \in Timers : add_timer_elsewhere(t)
  \/ \E t \in Timers : erase_timer_elsewhere(t)
  \/ \E t \in Timers : add_timer(t)
  \/ \E t \in Timers : erase_timer(t)
  \/ run_functor
  \/ tick
  \/ poll
  \/ collect_expired
  \/ \E t \in Timers : run_timer(t)
  \/ \E t \in Timers : finish_timer(t)
  \/ end_expired

\* The loop thread is scheduled, its callbacks return, and time passes.  Each
\* iteration of loop() drains the queue after the handlers, so a queued functor
\* is not overtaken for ever by the timerfd: strong fairness of run_functor.
LoopRuns == poll \/ collect_expired \/ end_expired
              \/ \E t \in Timers : run_timer(t) \/ finish_timer(t)

Spec == Init /\ [][Next]_vars /\ WF_vars(LoopRuns) /\ SF_vars(run_functor)
             /\ WF_vars(tick)
-----------------------------------------------------------------------------
(* Properties.                                                             *)

Scheduled == {e[2] : e \in expireSet}

\* The two indexes agree at every step: an entry of expireSet_ is a registered
\* timer under its present expiration (so erase_timer finds it), and a
\* registered timer is in expireSet_ unless on_timerfd_read holds it.
IndexesAgree ==
  /\ \A e \in expireSet : e[2] \in timersById /\ e[1] = due[e[2]]
  /\ timersById \subseteq Scheduled \cup expiredTimers \cup {running}
  /\ Scheduled \cap (expiredTimers \cup {running}) = {}

\* Outside on_timerfd_read the timerfd is armed for the earliest timer (at
\* most one tick late), and it is never due or armed for nothing: no timer is
\* forgotten and no wakeup is idle.
ArmedForEarliest ==
  pc = "idle" =>
    IF expireSet = {} THEN timerFd = None
    ELSE /\ timerFd # None
         /\ timerFd >= Earliest(expireSet)
         /\ timerFd <= Max({1, Earliest(expireSet)})
Inv == TypeOK /\ IndexesAgree /\ ArmedForEarliest

Starts(t) == running # t /\ running' = t

\* Once the loop thread has erased a registered timer its callback never
\* starts again, whether it was waiting, already collected, or cancelling
\* itself or a repeated timer from inside a callback.
CancelIsFinal == [][\A t \in Timers : Starts(t) => status[t] # "erased"]_vars

\* No callback runs before its expiration; a one-shot timer runs at most once, a
\* repeated one never twice within its interval, however late the loop is (no
\* catch-up storm), also when a handler re-arms the timerfd under a report of it.
NeverTooSoon ==
  [][\A t \in Timers : Starts(t) =>
       /\ due[t] <= 0
       /\ t \in fired => interval[t] > 0 /\ sinceRun[t] >= interval[t]]_vars

\* A created timer eventually runs unless it is cancelled, and a repeated one runs
\* again and again, whatever the queues and callbacks of the other timers do.
TimersFire ==
  \A t \in Timers :
    /\ status[t] = "created" ~> t \in fired \/ status[t] # "created"
    /\ interval[t] > 0 /\ status[t] = "created" ~> running = t \/ status[t] # "created"
=============================================================================
