-------------------------- MODULE TimerQueueProofs --------------------------
(***************************************************************************)
(* TLAPS proofs about TimerQueue, for any timers, delays, intervals and    *)
(* lateness.                                                               *)
(***************************************************************************)
EXTENDS TimerQueue, FiniteSetTheorems, SequenceTheorems, WellFoundedInduction, TLAPS

-----------------------------------------------------------------------------
(* The smallest and the largest element of a set of numbers.  The library  *)
(* gives well-founded relations; minimal elements of them stand in for     *)
(* induction.                                                              *)

LEMMA LeastNat ==
  ASSUME NEW T, T \subseteq Nat, T # {}
  PROVE  \E x \in T : \A y \in T : x <= y
<1> DEFINE R == OpToRel(<, Nat)
<1>1. IsWellFoundedOn(R, Nat)
  BY NatLessThanWellFounded
<1>2. \A x, y \in Nat : x < y => <<x, y>> \in R
  BY DEF OpToRel
<1> HIDE DEF R
<1>3. PICK x \in T : \A y \in T : <<y, x>> \notin R
  BY <1>1, WFMin
<1>4. \A y \in T : ~(y < x)
  BY <1>2, <1>3
<1>5. \A y \in T : x \in Nat /\ y \in Nat
  OBVIOUS
<1>6. \A y \in T : x <= y
  BY <1>4, <1>5
<1>7. QED BY <1>6

LEMMA MinProperties ==
  ASSUME NEW S, S \subseteq Int, S # {}, NEW b \in Nat, \A x \in S : 0 - b <= x
  PROVE  Min(S) \in S /\ \A y \in S : Min(S) <= y
<1> DEFINE T == {x + b : x \in S}
<1>1. T \subseteq Nat /\ T # {}
  <2>1. \A x \in S : x \in Int /\ 0 - b <= x
    OBVIOUS
  <2>2. \A x \in S : x + b \in Nat
    BY <2>1
  <2>3. T # {}
    OBVIOUS
  <2>4. QED BY <2>2, <2>3
<1>2. PICK z \in T : \A y \in T : z <= y
  BY <1>1, LeastNat
<1>3. PICK x \in S : z = x + b
  BY <1>2
<1>4. \A y \in S : x <= y
  <2>1. TAKE y \in S
  <2>2. y + b \in T /\ x \in Int /\ y \in Int
    OBVIOUS
  <2>3. x + b <= y + b
    BY <1>2, <1>3, <2>2
  <2>4. QED BY <2>2, <2>3
<1>5. QED BY <1>3, <1>4 DEF Min

\* A finite set of naturals has a largest element: a smallest subset without one
\* would have one after all.
LEMMA MaxExists ==
  ASSUME NEW S, S \subseteq Nat, IsFiniteSet(S), S # {}
  PROVE  \E x \in S : \A y \in S : y <= x
<1> DEFINE R == StrictSubsetOrdering(S)
           F == FiniteSubsetsOf(S)
           Good(T) == T = {} \/ \E x \in T : \A y \in T : y <= x
           B == {T \in F : ~Good(T)}
<1>1. IsWellFoundedOn(R, F)
  BY FS_StrictSubsetOrderingWellFounded
<1>2. \A T, U \in F : T \subseteq U /\ T # U => <<T, U>> \in R
  BY DEF StrictSubsetOrdering, FiniteSubsetsOf
<1>3. \A T : T \in F <=> T \subseteq S /\ IsFiniteSet(T)
  BY DEF FiniteSubsetsOf
<1> HIDE DEF R, F
<1>4. B = {}
  <2>1. SUFFICES ASSUME B # {} PROVE FALSE
    OBVIOUS
  <2>2. B \subseteq F
    OBVIOUS
  <2>3. PICK T \in B : \A U \in B : <<U, T>> \notin R
    <3> HIDE DEF B
    <3>1. QED BY <1>1, <2>1, <2>2, WFMin
  <2>4. T \in F /\ T \subseteq Nat /\ ~Good(T)
    BY <1>3, <2>3
  <2>5. PICK x \in T : TRUE
    BY <2>4
  <2>6. T \ {x} \in F /\ T \ {x} \subseteq T /\ T \ {x} # T
    BY <1>3, <2>4, <2>5, FS_RemoveElement
  <2>7. Good(T \ {x})
    <3>1. <<T \ {x}, T>> \in R
      BY <1>2, <2>4, <2>6
    <3>2. T \ {x} \notin B
      BY <2>3, <3>1
    <3> HIDE DEF Good
    <3>3. QED BY <2>6, <3>2
  <2>8. CASE T \ {x} = {}
    <3>1. \A y \in T : y = x
      BY <2>8
    <3>2. \A y \in T : y <= x
      BY <2>4, <2>5, <3>1
    <3>3. QED BY <2>4, <2>5, <3>2
  <2>9. CASE \E z \in T \ {x} : \A y \in T \ {x} : y <= z
    <3>1. PICK z \in T \ {x} : \A y \in T \ {x} : y <= z
      BY <2>9
    <3>2. x \in Nat /\ z \in Nat
      BY <2>4, <2>5, <3>1
    <3>3. CASE x <= z
      BY <2>4, <3>1, <3>3
    <3>4. CASE z < x
      <4>1. \A y \in T : y <= x
        BY <2>4, <3>1, <3>2, <3>4
      <4>2. QED BY <2>4, <2>5, <4>1
    <3>5. QED BY <3>2, <3>3, <3>4
  <2>10. QED BY <2>7, <2>8, <2>9
<1>5. S \in F
  BY <1>3
<1>6. Good(S)
  BY <1>4, <1>5
<1>7. QED BY <1>6

LEMMA MaxOfTwo ==
  ASSUME NEW a \in Int, NEW b \in Int
  PROVE  Max({a, b}) = IF a >= b THEN a ELSE b
<1>1. CASE a >= b
  <2>1. \A x \in {a, b} : (\A y \in {a, b} : x >= y) <=> x = a
    BY <1>1
  <2>2. QED BY <1>1, <2>1 DEF Max
<1>2. CASE ~(a >= b)
  <2>1. \A x \in {a, b} : (\A y \in {a, b} : x >= y) <=> x = b
    BY <1>2
  <2>2. QED BY <1>2, <2>1 DEF Max
<1>3. QED BY <1>1, <1>2

\* The bound of the ticks.
LEMMA TickBound ==
  /\ MaxTick \in Nat \ {0}
  /\ \A k \in Delays \cup Intervals : k \in Nat /\ k <= MaxTick
<1> DEFINE S == Delays \cup Intervals \cup {1}
<1>1. S \subseteq Nat /\ IsFiniteSet(S) /\ 1 \in S
  <2>1. IsFiniteSet(Delays \cup Intervals)
    BY TimerAssumption, FS_Union
  <2>2. IsFiniteSet(S)
    BY <2>1, FS_AddElement
  <2>3. QED BY <2>2, TimerAssumption
<1>2. \E x \in S : \A y \in S : y <= x
  <2> HIDE DEF S
  <2>1. QED BY <1>1, MaxExists
<1>3. \E x \in S : \A y \in S : x >= y
  <2>1. PICK x \in S : \A y \in S : y <= x
    BY <1>2
  <2>2. \A y \in S : x \in Nat /\ y \in Nat
    BY <1>1
  <2>3. QED BY <2>1, <2>2
<1>4. Max(S) \in S /\ \A y \in S : Max(S) >= y
  BY <1>3 DEF Max
<1>5. MaxTick = Max(S)
  BY DEF MaxTick
<1>6. MaxTick \in S /\ \A y \in S : MaxTick >= y
  BY <1>4, <1>5
<1>7. QED BY <1>1, <1>6

LEMMA MinOfTwo ==
  ASSUME NEW a \in Int, NEW b \in Int
  PROVE  Min({a, b}) = IF a <= b THEN a ELSE b
<1>1. CASE a <= b
  <2>1. \A x \in {a, b} : (\A y \in {a, b} : x <= y) <=> x = a
    BY <1>1
  <2>2. QED BY <1>1, <2>1 DEF Min
<1>2. CASE ~(a <= b)
  <2>1. \A x \in {a, b} : (\A y \in {a, b} : x <= y) <=> x = b
    BY <1>2
  <2>2. QED BY <1>2, <2>1 DEF Min
<1>3. QED BY <1>1, <1>2

LEMMA TickRange ==
  /\ Ticks \subseteq Int
  /\ \A k \in Ticks : 0 - Lag <= k /\ k <= MaxTick
  /\ 0 \in Ticks /\ Delays \subseteq Ticks /\ Intervals \subseteq Ticks
BY TickBound, TimerAssumption DEF Ticks

\* Earliest is the expiration of an entry and no entry has an earlier one.
LEMMA EarliestEntry ==
  ASSUME NEW set, set \subseteq Ticks \X Timers, set # {}
  PROVE  /\ Earliest(set) \in Ticks
         /\ \E e \in set : e[1] = Earliest(set)
         /\ \A e \in set : Earliest(set) <= e[1]
<1> DEFINE S == {e[1] : e \in set}
<1>1. S \subseteq Ticks /\ S # {}
  OBVIOUS
<1>2. S \subseteq Int /\ \A x \in S : 0 - Lag <= x
  BY <1>1, TickRange
<1>3. Min(S) \in S /\ \A y \in S : Min(S) <= y
  <2> HIDE DEF S
  <2>1. QED BY <1>1, <1>2, TimerAssumption, MinProperties
<1>4. Earliest(set) = Min(S)
  BY DEF Earliest
<1>5. \A e \in set : e[1] \in S
  OBVIOUS
<1>6. QED BY <1>1, <1>3, <1>4, <1>5

LEMMA SyncArms ==
  ASSUME expireSet' \subseteq Ticks \X Timers, sync_timerfd
  PROVE  timerFd' \in 0 .. MaxTick \cup {None} /\ ArmedForEarliest'
<1>1. CASE expireSet' = {}
  BY <1>1 DEF sync_timerfd, ArmedForEarliest
<1>2. CASE expireSet' # {}
  <2> DEFINE k == Earliest(expireSet')
  <2>1. k \in Ticks
    BY <1>2, EarliestEntry
  <2>2. k \in Int /\ k <= MaxTick
    BY <2>1, TickRange
  <2>3. timerFd' = Max({1, k})
    BY <1>2 DEF sync_timerfd
  <2>4. Max({1, k}) = IF 1 >= k THEN 1 ELSE k
    BY <2>2, MaxOfTwo
  <2>5. timerFd' \in 0 .. MaxTick /\ timerFd' >= k
    BY <2>2, <2>3, <2>4, TickBound
  <2>6. timerFd' # None
    BY <2>5, TickBound, TimerAssumption
  <2>7. timerFd' >= Earliest(expireSet') /\ timerFd' <= Max({1, Earliest(expireSet')})
    BY <2>2, <2>3, <2>4, <2>5
  <2>8. QED BY <1>2, <2>5, <2>6, <2>7 DEF ArmedForEarliest
<1>3. QED BY <1>1, <1>2

-----------------------------------------------------------------------------
(* The inductive invariant.                                                *)

\* Between two runs of on_timerfd_read nothing is held.
Idle == pc = "idle" => expiredTimers = {} /\ running = None

\* An id not yet used occurs nowhere.
Fresh ==
  \A t \in Timers : status[t] = "unused" =>
    /\ t \notin timersById \cup expiredTimers \cup fired \cup {running}
    /\ \A i \in DOMAIN pendingFunctors : pendingFunctors[i][2] # t

\* Each timer is inserted once, before it can run or be erased.
InsertedOnce ==
  /\ \A i, j \in DOMAIN pendingFunctors :
       pendingFunctors[i] = pendingFunctors[j] /\ pendingFunctors[i][1] = "insert" => i = j
  /\ \A i \in DOMAIN pendingFunctors :
       pendingFunctors[i][1] = "insert" =>
         /\ pendingFunctors[i][2] \notin timersById \cup fired
         /\ status[pendingFunctors[i][2]] # "erased"

ErasedGone == \A t \in Timers : status[t] = "erased" => t \notin timersById

\* A collected timer was due, and time only makes it more so.
Collected == \A t \in expiredTimers : due[t] <= 0 /\ t # running

\* A registered timer that has run is a repeated one, and what has passed since
\* and what is still to wait make up its interval.
Spaced ==
  \A t \in fired \cap timersById : t # running =>
    /\ interval[t] > 0
    /\ sinceRun[t] >= interval[t] \/ sinceRun[t] + due[t] >= interval[t]

History == Fresh /\ InsertedOnce /\ ErasedGone /\ Spaced
IInv == TypeOK /\ IndexesAgree /\ ArmedForEarliest /\ Idle /\ Collected /\ History

LEMMA InitInv == Init => IInv
<1>1. Init => TypeOK
  <2>1. ASSUME Init
        PROVE  /\ due \in [Timers -> Ticks]
               /\ interval \in [Timers -> Intervals \cup {0}]
               /\ status \in [Timers -> Statuses]
               /\ sinceRun \in [Timers -> 0 .. MaxTick]
    BY <2>1, TickRange, TickBound DEF Init, Statuses
  <2>2. ASSUME Init PROVE pendingFunctors \in Seq(Ops)
    BY <2>2 DEF Init
  <2>3. QED BY <2>1, <2>2 DEF Init, TypeOK
<1>2. Init => IndexesAgree /\ ArmedForEarliest /\ Idle /\ Collected /\ History
  BY TimerAssumption DEF Init, IndexesAgree, ArmedForEarliest, Idle, Collected, History,
     Fresh, InsertedOnce, ErasedGone, Spaced, Scheduled
<1>3. QED BY <1>1, <1>2 DEF IInv

LEMMA ScheduledGrows ==
  ASSUME NEW k, NEW t, expireSet' = expireSet \cup {<<k, t>>}
  PROVE  Scheduled' = Scheduled \cup {t}
<1> DEFINE old == {e[2] : e \in expireSet}
           new == {e[2] : e \in expireSet \cup {<<k, t>>}}
<1>1. \A x \in new : x \in old \cup {t}
  OBVIOUS
<1>2. \A x \in old : x \in new
  OBVIOUS
<1>3. t \in new
  <2>1. <<k, t>> \in expireSet \cup {<<k, t>>} /\ <<k, t>>[2] = t
    OBVIOUS
  <2>2. QED BY <2>1
<1>4. Scheduled = old /\ Scheduled' = new
  BY DEF Scheduled
<1> HIDE DEF old, new
<1>5. QED BY <1>1, <1>2, <1>3, <1>4

LEMMA AddElsewhere ==
  ASSUME IInv, NEW t \in Timers, add_timer_elsewhere(t)
  PROVE  IInv'
<1> USE DEF IInv, add_timer_elsewhere, create
<1>1. TypeOK'
  <2>1. <<"insert", t>> \in Ops
    BY DEF Ops
  <2>2. pendingFunctors' \in Seq(Ops)
    BY <2>1, AppendProperties DEF TypeOK
  <2>3. QED BY <2>2, TickRange DEF TypeOK, Statuses
<1>2. IndexesAgree'
  BY TickRange DEF TypeOK, IndexesAgree, Scheduled, History, Fresh
<1>3. ArmedForEarliest' /\ Idle'
  BY DEF ArmedForEarliest, Idle
<1>4. Collected'
  BY DEF TypeOK, Collected, History, Fresh
<1>5. Fresh' /\ InsertedOnce'
  <2>1. /\ DOMAIN pendingFunctors = 1 .. Len(pendingFunctors)
        /\ DOMAIN pendingFunctors' = 1 .. Len(pendingFunctors) + 1
        /\ Len(pendingFunctors) \in Nat
        /\ pendingFunctors'[Len(pendingFunctors) + 1] = <<"insert", t>>
        /\ \A i \in 1 .. Len(pendingFunctors) : pendingFunctors'[i] = pendingFunctors[i]
    BY <1>1 DEF TypeOK
  <2>2. Fresh'
    BY <2>1 DEF TypeOK, History, Fresh
  <2>3. QED BY <2>1, <2>2 DEF TypeOK, History, Fresh, InsertedOnce
<1>6. ErasedGone' /\ Spaced'
  BY DEF TypeOK, History, Fresh, ErasedGone, Spaced
<1>7. QED BY <1>1, <1>2, <1>3, <1>4, <1>5, <1>6 DEF History

LEMMA EraseElsewhere ==
  ASSUME IInv, NEW t \in Timers, erase_timer_elsewhere(t)
  PROVE  IInv'
<1> USE DEF IInv, erase_timer_elsewhere
<1>1. TypeOK'
  <2>1. <<"erase", t>> \in Ops
    BY DEF Ops
  <2>2. pendingFunctors' \in Seq(Ops)
    BY <2>1, AppendProperties DEF TypeOK
  <2>3. QED BY <2>2 DEF TypeOK, Statuses
<1>2. IndexesAgree' /\ ArmedForEarliest' /\ Idle' /\ Collected'
  BY DEF IndexesAgree, Scheduled, ArmedForEarliest, Idle, Collected
<1>3. Fresh' /\ InsertedOnce'
  <2>1. /\ DOMAIN pendingFunctors = 1 .. Len(pendingFunctors)
        /\ DOMAIN pendingFunctors' = 1 .. Len(pendingFunctors) + 1
        /\ Len(pendingFunctors) \in Nat
        /\ pendingFunctors'[Len(pendingFunctors) + 1] = <<"erase", t>>
        /\ \A i \in 1 .. Len(pendingFunctors) : pendingFunctors'[i] = pendingFunctors[i]
    BY <1>1 DEF TypeOK
  <2>2. Fresh'
    BY <2>1 DEF TypeOK, History, Fresh
  <2>3. QED BY <2>1, <2>2 DEF TypeOK, History, InsertedOnce
<1>4. ErasedGone' /\ Spaced'
  BY DEF TypeOK, History, ErasedGone, Spaced
<1>5. QED BY <1>1, <1>2, <1>3, <1>4 DEF History

LEMMA AddInline ==
  ASSUME IInv, NEW t \in Timers, add_timer(t)
  PROVE  IInv'
<1>1. PICK delay \in Delays, every \in Intervals : create(t, delay, every) /\ insert_timer(t, delay)
  BY DEF add_timer, add_timer_inline
<1> USE DEF IInv, add_timer, create, insert_timer
<1>2. delay \in Ticks /\ delay \in Int
  BY TickRange
<1>3. /\ due' \in [Timers -> Ticks]
      /\ interval' \in [Timers -> Intervals \cup {0}]
      /\ status' \in [Timers -> Statuses]
      /\ expireSet' \subseteq Ticks \X Timers
      /\ timersById' \subseteq Timers
  BY <1>1, <1>2 DEF TypeOK, Statuses
<1>4. timerFd' \in 0 .. MaxTick \cup {None} /\ ArmedForEarliest'
  BY <1>1, <1>3, SyncArms
<1>5. TypeOK'
  BY <1>3, <1>4 DEF TypeOK
<1>6. t \notin timersById \cup expiredTimers \cup fired \cup {running}
  BY <1>1 DEF History, Fresh
<1>7. IndexesAgree'
  <2>1. \A e \in expireSet' : e = <<delay, t>> \/ e \in expireSet
    BY <1>1
  <2>2. \A e \in expireSet : e[2] \in timersById /\ e[1] = due[e[2]] /\ e[2] # t
    BY <1>6 DEF IndexesAgree
  <2>3. \A e \in expireSet' : e[2] \in timersById' /\ e[1] = due'[e[2]]
    BY <1>1, <2>1, <2>2 DEF TypeOK
  <2>4. Scheduled' = Scheduled \cup {t}
    BY <1>1, ScheduledGrows
  <2>5. QED BY <1>1, <1>6, <2>3, <2>4 DEF IndexesAgree
<1>8. Idle' /\ Collected'
  BY <1>1, <1>6 DEF TypeOK, Idle, Collected
<1>9. History'
  <2>1. pendingFunctors' = pendingFunctors
    OBVIOUS
  <2>2. Fresh'
    BY <1>1, <1>3, <2>1 DEF TypeOK, History, Fresh
  <2>3. InsertedOnce'
    BY <1>1, <1>3, <2>1 DEF TypeOK, History, Fresh, InsertedOnce
  <2>4. ErasedGone' /\ Spaced'
    BY <1>1, <1>3, <1>6 DEF TypeOK, History, ErasedGone, Spaced
  <2>5. QED BY <2>2, <2>3, <2>4 DEF History
<1>10. QED BY <1>4, <1>5, <1>7, <1>8, <1>9

\* What taking t out of both indexes keeps.
LEMMA Erasing ==
  ASSUME TypeOK, IndexesAgree, NEW t \in Timers, erase_body(t),
         UNCHANGED <<due, expiredTimers, running>>
  PROVE  /\ expireSet' \subseteq Ticks \X Timers
         /\ timersById' \subseteq timersById \ {t}
         /\ timerFd' \in 0 .. MaxTick \cup {None} /\ ArmedForEarliest'
         /\ IndexesAgree'
<1> USE DEF erase_body
<1>1. timersById' = timersById \ {t}
  OBVIOUS
<1>2. expireSet' = {e \in expireSet : e[2] # t}
  <2>1. \A e \in expireSet : e \in Ticks \X Timers /\ (e[2] = t => e = <<due[t], t>>)
    BY DEF TypeOK, IndexesAgree
  <2>2. CASE t \in timersById
    BY <2>1, <2>2
  <2>3. CASE t \notin timersById
    <3>1. \A e \in expireSet : e[2] # t
      BY <2>3 DEF IndexesAgree
    <3>2. QED BY <2>3, <3>1
  <2>4. QED BY <2>2, <2>3
<1>3. expireSet' \subseteq Ticks \X Timers
  BY <1>2 DEF TypeOK
<1>4. timerFd' \in 0 .. MaxTick \cup {None} /\ ArmedForEarliest'
  BY <1>3, SyncArms
<1>5. IndexesAgree'
  <2>1. \A e \in expireSet' : e[2] \in timersById' /\ e[1] = due'[e[2]]
    BY <1>1, <1>2 DEF IndexesAgree
  <2>2. Scheduled' = Scheduled \ {t}
    BY <1>2 DEF Scheduled
  <2>3. QED BY <1>1, <2>1, <2>2 DEF IndexesAgree
<1>6. QED BY <1>1, <1>3, <1>4, <1>5

\* An erased timer was registered, so its insertion is not waiting any more.
LEMMA EraseInline ==
  ASSUME IInv, NEW t \in Timers, erase_timer(t)
  PROVE  IInv'
<1> USE DEF IInv, erase_timer, erase_timer_inline
<1>1. /\ expireSet' \subseteq Ticks \X Timers
      /\ timersById' \subseteq timersById \ {t}
      /\ timerFd' \in 0 .. MaxTick \cup {None} /\ ArmedForEarliest'
      /\ IndexesAgree'
  BY Erasing
<1>2. Outcome(t) \in Statuses /\ Outcome(t) # "unused"
  BY DEF Outcome, Statuses
<1>3. TypeOK'
  BY <1>1, <1>2 DEF TypeOK
<1>4. Idle' /\ Collected'
  BY DEF Idle, Collected
<1>5. Fresh'
  BY <1>1, <1>2 DEF TypeOK, History, Fresh
<1>6. Outcome(t) = "erased" => t \in timersById
  BY DEF Outcome
<1>7. InsertedOnce'
  BY <1>1, <1>6 DEF TypeOK, History, InsertedOnce
<1>8. ErasedGone' /\ Spaced'
  BY <1>1 DEF TypeOK, History, ErasedGone, Spaced
<1>9. QED BY <1>1, <1>3, <1>4, <1>5, <1>7, <1>8 DEF History

LEMMA RunFunctor ==
  ASSUME IInv, run_functor
  PROVE  IInv'
<1> DEFINE t == Head(pendingFunctors)[2]
           n == Len(pendingFunctors)
<1> USE DEF IInv
<1>1. /\ pc = "idle" /\ pendingFunctors # << >>
      /\ pendingFunctors' = Tail(pendingFunctors)
      /\ UNCHANGED <<due, interval, ready, expiredTimers, running, pc, fired, sinceRun>>
  BY DEF run_functor
<1>2. /\ pendingFunctors' \in Seq(Ops)
      /\ Head(pendingFunctors) = pendingFunctors[1]
      /\ Head(pendingFunctors) \in Ops
  BY <1>1 DEF TypeOK
<1>3. /\ n \in Nat \ {0}
      /\ DOMAIN pendingFunctors = 1 .. n
      /\ DOMAIN pendingFunctors' = 1 .. n - 1
      /\ \A i \in 1 .. n - 1 : i + 1 \in 1 .. n /\ pendingFunctors'[i] = pendingFunctors[i + 1]
  BY <1>1 DEF TypeOK
<1>4. t \in Timers
  BY <1>2 DEF Ops
<1>5. Idle' /\ Collected'
  BY <1>1 DEF Idle, Collected
<1>6. \A i \in DOMAIN pendingFunctors' : \E j \in DOMAIN pendingFunctors :
        j = i + 1 /\ pendingFunctors'[i] = pendingFunctors[j]
  BY <1>3
<1>7. /\ \A i, j \in DOMAIN pendingFunctors' :
           pendingFunctors'[i] = pendingFunctors'[j] /\ pendingFunctors'[i][1] = "insert" => i = j
  <2>1. SUFFICES ASSUME NEW i \in 1 .. n - 1, NEW j \in 1 .. n - 1,
                        pendingFunctors[i + 1] = pendingFunctors[j + 1],
                        pendingFunctors[i + 1][1] = "insert"
                 PROVE  i = j
    BY <1>3
  <2>2. i + 1 = j + 1
    BY <1>3, <2>1 DEF History, InsertedOnce
  <2>3. QED BY <2>2
<1> HIDE DEF t, n
<1>8. CASE Head(pendingFunctors)[1] = "insert" /\ insert_timer(t, due[t]) /\ UNCHANGED status
  <2> USE DEF insert_timer
  <2>1. pendingFunctors[1] = <<"insert", t>>
    BY <1>2, <1>8 DEF Ops, t
  <2>2. t \notin timersById \cup fired /\ status[t] # "erased"
    BY <1>3, <2>1 DEF History, InsertedOnce
  <2>3. expireSet' \subseteq Ticks \X Timers /\ timersById' \subseteq Timers
    BY <1>4, <1>8 DEF TypeOK
  <2>4. timerFd' \in 0 .. MaxTick \cup {None} /\ ArmedForEarliest'
    BY <1>8, <2>3, SyncArms
  <2>5. TypeOK'
    BY <1>1, <1>2, <1>8, <2>3, <2>4 DEF TypeOK
  <2>6. IndexesAgree'
    <3>1. expiredTimers = {} /\ running = None /\ t # None
      BY <1>1, <1>4, TimerAssumption DEF Idle
    <3>2. \A e \in expireSet' : e[2] \in timersById' /\ e[1] = due'[e[2]]
      BY <1>1, <1>8 DEF IndexesAgree
    <3>3. Scheduled' = Scheduled \cup {t}
      BY <1>8, ScheduledGrows
    <3>4. QED BY <1>1, <1>8, <3>1, <3>2, <3>3 DEF IndexesAgree
  <2>7. status[t] # "unused"
    BY <1>3, <1>4, <2>1 DEF History, Fresh
  <2>8. Fresh'
    BY <1>1, <1>6, <1>8, <2>7 DEF History, Fresh
  <2>9. InsertedOnce'
    <3>1. ASSUME NEW i \in DOMAIN pendingFunctors', pendingFunctors'[i][1] = "insert"
          PROVE  /\ pendingFunctors'[i][2] \notin timersById' \cup fired'
                 /\ status'[pendingFunctors'[i][2]] # "erased"
      <4>1. PICK j \in DOMAIN pendingFunctors : j = i + 1 /\ pendingFunctors'[i] = pendingFunctors[j]
        BY <1>6
      <4>2. pendingFunctors[j] \in Ops /\ j # 1
        BY <1>3, <4>1 DEF TypeOK
      <4>3. pendingFunctors[j][2] # t
        BY <1>3, <2>1, <3>1, <4>1, <4>2 DEF Ops, History, InsertedOnce
      <4>4. QED BY <1>1, <1>8, <3>1, <4>1, <4>3 DEF History, InsertedOnce
    <3>2. QED BY <1>7, <3>1 DEF InsertedOnce
  <2>10. ErasedGone' /\ Spaced'
    BY <1>1, <1>8, <2>2 DEF History, ErasedGone, Spaced
  <2>11. QED BY <1>5, <2>4, <2>5, <2>6, <2>8, <2>9, <2>10 DEF History
<1>9. CASE status' = [status EXCEPT ![t] = Outcome(t)] /\ erase_body(t)
  <2>1. /\ expireSet' \subseteq Ticks \X Timers
        /\ timersById' \subseteq timersById \ {t}
        /\ timerFd' \in 0 .. MaxTick \cup {None} /\ ArmedForEarliest'
        /\ IndexesAgree'
    BY <1>1, <1>4, <1>9, Erasing
  <2>2. /\ Outcome(t) \in Statuses /\ Outcome(t) # "unused"
        /\ Outcome(t) = "erased" => t \in timersById
    BY DEF Outcome, Statuses
  <2>3. TypeOK'
    BY <1>1, <1>2, <1>9, <2>1, <2>2 DEF TypeOK
  <2>4. Fresh'
    BY <1>1, <1>6, <1>9, <2>1, <2>2 DEF TypeOK, History, Fresh
  <2>5. InsertedOnce'
    BY <1>1, <1>6, <1>7, <1>9, <2>1, <2>2 DEF TypeOK, History, InsertedOnce
  <2>6. ErasedGone' /\ Spaced'
    BY <1>1, <1>9, <2>1 DEF TypeOK, History, ErasedGone, Spaced
  <2>7. QED BY <1>5, <2>1, <2>3, <2>4, <2>5, <2>6 DEF History
<1>10. QED BY <1>8, <1>9 DEF run_functor, t

LEMMA IntervalRange ==
  ASSUME TypeOK, NEW t \in Timers
  PROVE  interval[t] \in Nat /\ interval[t] <= MaxTick /\ interval[t] \in Ticks
<1>1. interval[t] \in Intervals \cup {0}
  BY DEF TypeOK
<1>2. CASE interval[t] \in Intervals
  <2>1. interval[t] \in Ticks
    BY <1>2, TickRange
  <2>2. QED BY <1>2, <2>1, TickBound
<1>3. CASE interval[t] = 0
  BY <1>3, TickBound, TickRange
<1>4. QED BY <1>1, <1>2, <1>3

\* Every expiration is one tick nearer, the smallest one is told no further apart.
LEMMA Tick ==
  ASSUME IInv, tick
  PROVE  IInv'
<1> USE DEF IInv, tick
<1>1. \A k \in Ticks : /\ k \in Int /\ Later(k) \in Ticks
                       /\ Later(k) = IF k > 0 - Lag THEN k - 1 ELSE k
  BY TickRange, TickBound, TimerAssumption DEF Later, Ticks
<1>2. due' \in [Timers -> Ticks]
  BY <1>1, TickRange DEF TypeOK
<1>3. expireSet' \subseteq Ticks \X Timers
  BY <1>1 DEF TypeOK
<1>4. \A t \in Timers : /\ sinceRun'[t] \in 0 .. MaxTick
                        /\ sinceRun'[t] = MaxTick \/ sinceRun'[t] = sinceRun[t] + 1
  <2>1. TAKE t \in Timers
  <2>2. sinceRun[t] \in Nat /\ MaxTick \in Nat /\ sinceRun[t] <= MaxTick
    BY TickBound DEF TypeOK
  <2>3. sinceRun'[t] = Min({MaxTick, sinceRun[t] + 1})
    OBVIOUS
  <2>4. sinceRun'[t] = IF MaxTick <= sinceRun[t] + 1 THEN MaxTick ELSE sinceRun[t] + 1
    BY <2>2, <2>3, MinOfTwo
  <2>5. QED BY <2>2, <2>4
<1>5. TypeOK'
  <2>1. sinceRun' \in [Timers -> 0 .. MaxTick]
    BY <1>4
  <2>2. timerFd' \in 0 .. MaxTick \cup {None}
    BY TickBound, TimerAssumption DEF TypeOK
  <2>3. QED BY <1>2, <1>3, <2>1, <2>2 DEF TypeOK
<1>6. \A t \in Timers : status[t] # "unused" => due'[t] = Later(due[t])
  OBVIOUS
<1>7. \A e \in expireSet : /\ e[1] \in Ticks /\ e[2] \in Timers
                           /\ status[e[2]] # "unused"
                           /\ due'[e[2]] = Later(e[1])
  BY <1>6 DEF TypeOK, IndexesAgree, History, Fresh
<1>8. /\ \A e \in expireSet' : \E f \in expireSet : e[1] = Later(f[1]) /\ e[2] = f[2]
      /\ \A f \in expireSet : \E e \in expireSet' : e[1] = Later(f[1]) /\ e[2] = f[2]
  <2>1. \A f \in expireSet : /\ <<Later(f[1]), f[2]>> \in expireSet'
                             /\ <<Later(f[1]), f[2]>>[1] = Later(f[1])
                             /\ <<Later(f[1]), f[2]>>[2] = f[2]
    OBVIOUS
  <2>2. QED BY <2>1
<1>9. IndexesAgree'
  <2>1. Scheduled' = Scheduled
    BY <1>8 DEF Scheduled
  <2>2. \A e \in expireSet' : e[2] \in timersById' /\ e[1] = due'[e[2]]
    BY <1>7, <1>8 DEF IndexesAgree
  <2>3. QED BY <2>1, <2>2 DEF IndexesAgree
<1>10. ArmedForEarliest'
  <2>1. SUFFICES ASSUME pc = "idle" PROVE ArmedForEarliest'
    BY DEF ArmedForEarliest
  <2>2. CASE expireSet = {}
    BY <2>1, <2>2 DEF ArmedForEarliest
  <2>3. CASE expireSet # {}
    <3> DEFINE k == Earliest(expireSet)
    <3>1. /\ k \in Ticks
          /\ \E e \in expireSet : e[1] = k
          /\ \A e \in expireSet : k <= e[1]
      BY <2>3, EarliestEntry DEF TypeOK
    <3>2. /\ expireSet' # {}
          /\ Earliest(expireSet') \in Ticks
          /\ \E e \in expireSet' : e[1] = Earliest(expireSet')
          /\ \A e \in expireSet' : Earliest(expireSet') <= e[1]
      <4>1. expireSet' # {}
        BY <2>3
      <4>2. QED BY <1>3, <4>1, EarliestEntry
    <3> HIDE DEF k
    <3>3. \A i, j \in Ticks : i <= j => Later(i) <= Later(j)
      BY <1>1
    <3>4. Earliest(expireSet') = Later(k)
      <4> DEFINE m == Earliest(expireSet')
      <4>1. /\ m \in Ticks
            /\ \E e \in expireSet' : e[1] = m
            /\ \A e \in expireSet' : m <= e[1]
        BY <3>2
      <4> HIDE DEF m
      <4>2. PICK f \in expireSet : m = Later(f[1])
        BY <1>8, <4>1
      <4>3. Later(k) <= m
        BY <1>7, <3>1, <3>3, <4>2
      <4>4. PICK g \in expireSet : g[1] = k
        BY <3>1
      <4>5. PICK e \in expireSet' : e[1] = Later(g[1])
        BY <1>8
      <4>6. m <= Later(k)
        BY <4>1, <4>4, <4>5
      <4>7. m = Later(k)
        BY <1>1, <3>1, <4>1, <4>3, <4>6, TickRange
      <4>8. QED BY <4>7 DEF m
    <3>5. k \in Int /\ Later(k) \in Int /\ 0 - Lag <= k /\ Lag \in Nat
      BY <1>1, <3>1, TickRange, TimerAssumption
    <3>6. Max({1, k}) = IF 1 >= k THEN 1 ELSE k
      BY <3>5, MaxOfTwo
    <3>7. Max({1, Later(k)}) = IF 1 >= Later(k) THEN 1 ELSE Later(k)
      BY <3>5, MaxOfTwo
    <3>8. timerFd # None /\ timerFd \in Nat /\ k <= timerFd /\ timerFd <= Max({1, k})
      <4>1. timerFd # None /\ timerFd >= k /\ timerFd <= Max({1, k})
        BY <2>1, <2>3 DEF ArmedForEarliest, k
      <4>2. timerFd \in Nat
        BY <4>1, TickBound DEF TypeOK
      <4>3. QED BY <3>5, <4>1, <4>2
    <3>9. timerFd' = IF timerFd = 0 THEN 0 ELSE timerFd - 1
      BY <3>8
    <3>10. timerFd' \in Nat /\ timerFd' >= Later(k) /\ timerFd' <= Max({1, Later(k)})
      BY <1>1, <3>1, <3>5, <3>6, <3>7, <3>8, <3>9
    <3>11. timerFd' # None
      BY <3>10, TimerAssumption
    <3>12. QED BY <3>2, <3>4, <3>10, <3>11 DEF ArmedForEarliest
  <2>4. QED BY <2>2, <2>3
<1>11. Idle'
  BY DEF Idle
<1>12. Collected'
  <2>1. SUFFICES ASSUME NEW t \in expiredTimers PROVE due'[t] <= 0 /\ t # running
    BY DEF Collected
  <2>2. t \in Timers /\ due[t] \in Ticks /\ due[t] <= 0 /\ t # running
    BY DEF TypeOK, Collected
  <2>3. due'[t] = 0 \/ due'[t] = Later(due[t])
    BY <2>2
  <2>4. QED BY <1>1, <2>2, <2>3
<1>13. Spaced'
  <2>1. SUFFICES ASSUME NEW t \in fired \cap timersById, t # running
                 PROVE  /\ interval[t] > 0
                        /\ \/ sinceRun'[t] >= interval[t]
                           \/ sinceRun'[t] + due'[t] >= interval[t]
    BY DEF Spaced
  <2>2. /\ t \in Timers /\ status[t] # "unused"
        /\ due[t] \in Ticks /\ sinceRun[t] \in 0 .. MaxTick
    BY DEF TypeOK, History, Fresh
  <2>3. interval[t] \in Nat /\ interval[t] <= MaxTick
    BY <2>2, TickBound DEF TypeOK
  <2>4. due'[t] = Later(due[t])
    BY <1>6, <2>2
  <2>5. /\ interval[t] > 0
        /\ sinceRun[t] >= interval[t] \/ sinceRun[t] + due[t] >= interval[t]
    BY <2>1 DEF History, Spaced
  <2>6. QED BY <1>1, <1>4, <2>2, <2>3, <2>4, <2>5, TickBound
<1>14. Fresh' /\ InsertedOnce' /\ ErasedGone'
  BY DEF History, Fresh, InsertedOnce, ErasedGone
<1>15. QED BY <1>5, <1>9, <1>10, <1>11, <1>12, <1>13, <1>14 DEF History

LEMMA Poll ==
  ASSUME IInv, poll
  PROVE  IInv'
BY DEF IInv, poll, TypeOK, IndexesAgree, Scheduled, ArmedForEarliest, Idle, Collected,
   History, Fresh, InsertedOnce, ErasedGone, Spaced

LEMMA CollectExpired ==
  ASSUME IInv, collect_expired
  PROVE  IInv'
<1> USE DEF IInv, collect_expired
<1> DEFINE passed == {e \in expireSet : e[1] <= 0}
<1>1. /\ expiredTimers' = {e[2] : e \in passed}
      /\ expireSet' = expireSet \ passed
      /\ expiredTimers = {} /\ running = None
  BY DEF Idle
<1>2. \A t \in expiredTimers' : \E e \in expireSet : e[1] <= 0 /\ e[2] = t
  BY <1>1
<1>3. \A e \in expireSet : e[1] <= 0 => e[2] \in expiredTimers'
  BY <1>1
<1>4. \A e \in expireSet : e \in expireSet' <=> ~(e[1] <= 0)
  BY <1>1
<1>5. expireSet' \subseteq expireSet
  BY <1>1
<1> HIDE DEF passed
<1>6. \A e \in expireSet : e[1] \in Ticks /\ e[2] \in Timers /\ e[2] \in timersById /\ e[1] = due[e[2]]
  BY DEF TypeOK, IndexesAgree
<1>7. TypeOK'
  <2>1. expiredTimers' \subseteq Timers /\ expireSet' \subseteq Ticks \X Timers
    BY <1>2, <1>5, <1>6 DEF TypeOK
  <2>2. QED BY <2>1 DEF TypeOK
<1>8. IndexesAgree'
  <2>1. \A x \in Scheduled : x \in Scheduled' \cup expiredTimers'
    BY <1>3, <1>4 DEF Scheduled
  <2>2. \A x \in Scheduled' : x \notin expiredTimers' /\ x # running
    <3>1. TAKE x \in Scheduled'
    <3>2. PICK e \in expireSet' : x = e[2]
      BY DEF Scheduled
    <3>3. x \notin expiredTimers'
      BY <1>2, <1>4, <1>5, <1>6, <3>2
    <3>4. x # running
      BY <1>1, <1>5, <1>6, <3>2, TimerAssumption
    <3>5. QED BY <3>3, <3>4
  <2>3. \A e \in expireSet' : e[2] \in timersById' /\ e[1] = due'[e[2]]
    BY <1>5, <1>6
  <2>4. timersById' \subseteq Scheduled' \cup expiredTimers' \cup {running'}
    BY <1>1, <2>1 DEF IndexesAgree
  <2>5. QED BY <2>2, <2>3, <2>4 DEF IndexesAgree
<1>9. ArmedForEarliest' /\ Idle'
  BY DEF ArmedForEarliest, Idle
<1>10. Collected'
  BY <1>1, <1>2, <1>6, TimerAssumption DEF Collected
<1>11. Fresh'
  BY <1>2, <1>6 DEF History, Fresh
<1>12. InsertedOnce' /\ ErasedGone' /\ Spaced'
  BY DEF History, InsertedOnce, ErasedGone, Spaced
<1>13. QED BY <1>7, <1>8, <1>9, <1>10, <1>11, <1>12 DEF History

LEMMA RunTimer ==
  ASSUME IInv, NEW t \in Timers, run_timer(t)
  PROVE  IInv'
<1> USE DEF IInv, run_timer
<1>1. /\ t \in expiredTimers /\ expiredTimers' = expiredTimers \ {t}
      /\ pc = "expiring" /\ running = None
  BY DEF Next_expired
<1>2. \/ t \in timersById /\ running' = t /\ fired' = fired \cup {t}
      \/ t \notin timersById /\ UNCHANGED <<running, fired>>
  OBVIOUS
<1>3. TypeOK'
  BY <1>1, <1>2 DEF TypeOK
<1>4. IndexesAgree'
  <2>1. Scheduled' = Scheduled /\ None \notin Scheduled /\ None \notin timersById
    BY TimerAssumption DEF Scheduled, TypeOK
  <2>2. \A e \in expireSet' : e[2] \in timersById' /\ e[1] = due'[e[2]]
    BY DEF IndexesAgree
  <2>3. Scheduled \cap expiredTimers = {} /\ t \notin Scheduled
    BY <1>1 DEF IndexesAgree
  <2>4. timersById \subseteq Scheduled \cup expiredTimers
    BY <1>1, <2>1 DEF IndexesAgree
  <2>5. CASE t \in timersById /\ running' = t
    BY <1>1, <2>1, <2>2, <2>3, <2>4, <2>5 DEF IndexesAgree
  <2>6. CASE t \notin timersById /\ UNCHANGED running
    BY <1>1, <2>1, <2>2, <2>3, <2>4, <2>6 DEF IndexesAgree
  <2>7. QED BY <1>2, <2>5, <2>6
<1>5. ArmedForEarliest' /\ Idle'
  BY <1>1 DEF ArmedForEarliest, Idle
<1>6. Collected'
  BY <1>1, <1>2 DEF Collected
<1>7. Fresh'
  BY <1>1, <1>2 DEF History, Fresh
<1>8. InsertedOnce' /\ ErasedGone' /\ Spaced'
  <2>1. ErasedGone'
    BY DEF History, ErasedGone
  <2>2. \A x \in fired' : x \in fired \/ (x = t /\ t \in timersById)
    BY <1>2
  <2>3. InsertedOnce'
    BY <2>2 DEF History, InsertedOnce
  <2>4. Spaced'
    <3>1. \A x \in fired' \cap timersById : x # running' => x \in fired /\ x # running
      BY <1>1, <1>2, <2>2, TimerAssumption DEF TypeOK
    <3>2. QED BY <3>1 DEF History, Spaced
  <2>5. QED BY <2>1, <2>3, <2>4
<1>9. QED BY <1>3, <1>4, <1>5, <1>6, <1>7, <1>8 DEF History

LEMMA FinishTimer ==
  ASSUME IInv, NEW t \in Timers, finish_timer(t)
  PROVE  IInv'
<1> USE DEF IInv
<1>1. /\ running = t /\ running' = None /\ t # None
      /\ sinceRun' = [sinceRun EXCEPT ![t] = 0]
      /\ UNCHANGED <<interval, status, timerFd, ready, pendingFunctors, expiredTimers, pc, fired>>
  BY TimerAssumption DEF finish_timer
<1>2. pc = "expiring"
  BY <1>1 DEF Idle, TypeOK
<1>3. /\ t \notin expiredTimers /\ t \notin Scheduled
      /\ \A e \in expireSet : e[2] # t
  BY <1>1 DEF IndexesAgree, Collected, Scheduled
<1>4. status[t] # "unused"
  BY <1>1 DEF History, Fresh
<1>5. sinceRun' \in [Timers -> 0 .. MaxTick]
  BY <1>1, TickBound DEF TypeOK
<1>6. ArmedForEarliest' /\ Idle'
  BY <1>1, <1>2 DEF ArmedForEarliest, Idle
<1>7. CASE UNCHANGED <<due, expireSet>> /\ timersById' = timersById \ {t}
  <2>1. TypeOK'
    BY <1>1, <1>5, <1>7 DEF TypeOK
  <2>2. IndexesAgree'
    <3>1. \A e \in expireSet : e[2] \in timersById' /\ e[2] # None
      BY <1>3, <1>7, TimerAssumption DEF TypeOK, IndexesAgree
    <3>2. Scheduled' = Scheduled /\ None \notin Scheduled
      BY <1>7, <3>1 DEF Scheduled
    <3>3. QED BY <1>1, <1>7, <3>1, <3>2 DEF IndexesAgree
  <2>3. Collected'
    BY <1>1, <1>7, TimerAssumption DEF TypeOK, Collected
  <2>4. History'
    BY <1>1, <1>7, TimerAssumption DEF TypeOK, History, Fresh, InsertedOnce, ErasedGone, Spaced
  <2>5. QED BY <1>6, <2>1, <2>2, <2>3, <2>4
<1>8. CASE /\ t \in timersById /\ interval[t] > 0
           /\ due' = [due EXCEPT ![t] = interval[t]]
           /\ expireSet' = expireSet \cup {<<due'[t], t>>}
           /\ UNCHANGED timersById
  <2>1. interval[t] \in Ticks /\ interval[t] \in Nat
    BY IntervalRange
  <2>2. due' \in [Timers -> Ticks] /\ due'[t] = interval[t]
    BY <1>8, <2>1 DEF TypeOK
  <2>3. TypeOK'
    <3>1. expireSet' \subseteq Ticks \X Timers
      BY <1>8, <2>1, <2>2 DEF TypeOK
    <3>2. QED BY <1>1, <1>5, <1>8, <2>2, <3>1 DEF TypeOK
  <2>4. IndexesAgree'
    <3>1. \A e \in expireSet' : e[2] \in timersById' /\ e[1] = due'[e[2]]
      BY <1>3, <1>8, <2>2 DEF TypeOK, IndexesAgree
    <3>2. Scheduled' = Scheduled \cup {t}
      BY <1>8, ScheduledGrows
    <3>3. None \notin Scheduled
      BY TimerAssumption DEF TypeOK, Scheduled
    <3>4. QED BY <1>1, <1>3, <1>8, <3>1, <3>2, <3>3 DEF IndexesAgree
  <2>5. Collected'
    BY <1>1, <1>3, <1>8, TimerAssumption DEF TypeOK, Collected
  <2>6. Spaced'
    <3>1. SUFFICES ASSUME NEW u \in fired \cap timersById
                   PROVE  /\ interval[u] > 0
                          /\ \/ sinceRun'[u] >= interval[u]
                             \/ sinceRun'[u] + due'[u] >= interval[u]
      BY <1>1, <1>8 DEF Spaced
    <3>2. u \in Timers
      BY DEF TypeOK
    <3>3. CASE u = t
      BY <1>1, <1>8, <2>1, <2>2, <3>3 DEF TypeOK
    <3>4. CASE u # t
      BY <1>1, <1>8, <3>2, <3>4 DEF TypeOK, History, Spaced
    <3>5. QED BY <3>3, <3>4
  <2>7. Fresh' /\ InsertedOnce' /\ ErasedGone'
    BY <1>1, <1>4, <1>8, TimerAssumption DEF TypeOK, History, Fresh, InsertedOnce, ErasedGone
  <2>8. QED BY <1>6, <2>3, <2>4, <2>5, <2>6, <2>7 DEF History
<1>9. QED
  <2>1. interval[t] \in Nat
    BY IntervalRange
  <2>2. t \notin timersById => timersById = timersById \ {t}
    OBVIOUS
  <2>3. QED BY <1>7, <1>8, <2>2 DEF finish_timer, reschedule

LEMMA EndExpired ==
  ASSUME IInv, end_expired
  PROVE  IInv'
<1> USE DEF IInv, end_expired
<1>1. expireSet' \subseteq Ticks \X Timers
  BY DEF TypeOK
<1>2. timerFd' \in 0 .. MaxTick \cup {None} /\ ArmedForEarliest'
  BY <1>1, SyncArms
<1>3. TypeOK'
  BY <1>2 DEF TypeOK
<1>4. IndexesAgree' /\ Idle' /\ Collected' /\ History'
  BY DEF IndexesAgree, Scheduled, Idle, Collected, History, Fresh, InsertedOnce, ErasedGone, Spaced
<1>5. QED BY <1>2, <1>3, <1>4

LEMMA Step == IInv /\ [Next]_vars => IInv'
<1>1. ASSUME IInv, UNCHANGED vars PROVE IInv'
  BY <1>1 DEF IInv, vars, TypeOK, IndexesAgree, Scheduled, ArmedForEarliest, Idle, Collected,
     History, Fresh, InsertedOnce, ErasedGone, Spaced
<1>2. QED
  BY <1>1, AddElsewhere, EraseElsewhere, AddInline, EraseInline, RunFunctor, Tick, Poll,
     CollectExpired, RunTimer, FinishTimer, EndExpired DEF Next

LEMMA Always == Spec => []IInv
BY InitInv, Step, PTL DEF Spec

-----------------------------------------------------------------------------
\* For any timers, delays, intervals and lateness: the two indexes agree, and outside
\* on_timerfd_read the timerfd is armed for the earliest timer and for nothing else.
THEOREM ArmedAndAgreed == Spec => []Inv
<1>1. IInv => Inv
  BY DEF IInv, Inv
<1>2. QED BY Always, <1>1, PTL

\* A callback starts in run_timer alone, of a registered timer that was collected.
LEMMA StartIsRun ==
  ASSUME IInv, [Next]_vars, NEW t \in Timers, Starts(t)
  PROVE  t \in timersById /\ due[t] <= 0
<1>1. \E u \in Timers : run_timer(u)
  BY TimerAssumption
     DEF Starts, Next, vars, add_timer_elsewhere, erase_timer_elsewhere, add_timer, erase_timer,
         run_functor, tick, poll, collect_expired, finish_timer, end_expired
<1>2. run_timer(t)
  BY <1>1 DEF Starts, run_timer
<1>3. QED BY <1>2 DEF IInv, Starts, run_timer, Next_expired, Collected

\* No callback starts again once the loop thread has erased its timer while registered.
THEOREM CancelsForGood == Spec => CancelIsFinal
<1>1. IInv /\ [Next]_vars => [\A t \in Timers : Starts(t) => status[t] # "erased"]_vars
  BY StartIsRun DEF IInv, History, ErasedGone
<1>2. QED BY Always, <1>1, PTL DEF Spec, CancelIsFinal

\* No callback starts before its expiration, a one-shot timer's starts once, and a
\* repeated one's starts are an interval apart.
THEOREM KeepsItsTime == Spec => NeverTooSoon
<1>1. ASSUME IInv, [Next]_vars, NEW t \in Timers, Starts(t)
      PROVE  /\ due[t] <= 0
             /\ t \in fired => interval[t] > 0 /\ sinceRun[t] >= interval[t]
  <2>1. t \in timersById /\ due[t] <= 0 /\ t # running
    BY <1>1, StartIsRun DEF Starts
  <2>2. due[t] \in Int /\ interval[t] \in Int /\ sinceRun[t] \in Int
    <3>1. due[t] \in Ticks /\ sinceRun[t] \in 0 .. MaxTick
      BY <1>1 DEF IInv, TypeOK
    <3>2. due[t] \in Int
      BY <3>1, TickRange
    <3>3. sinceRun[t] \in Int
      BY <3>1, TickBound
    <3>4. interval[t] \in Nat
      BY <1>1, IntervalRange DEF IInv
    <3>5. QED BY <3>2, <3>3, <3>4
  <2>3. ASSUME t \in fired PROVE interval[t] > 0 /\ sinceRun[t] >= interval[t]
    <3>1. /\ interval[t] > 0
          /\ sinceRun[t] >= interval[t] \/ sinceRun[t] + due[t] >= interval[t]
      BY <1>1, <2>1, <2>3 DEF IInv, History, Spaced
    <3>2. QED BY <2>1, <2>2, <3>1
  <2>4. QED BY <2>1, <2>3
<1>2. IInv /\ [Next]_vars =>
        [\A t \in Timers : Starts(t) =>
           /\ due[t] <= 0
           /\ t \in fired => interval[t] > 0 /\ sinceRun[t] >= interval[t]]_vars
  BY <1>1
<1>3. QED BY Always, <1>2, PTL DEF Spec, NeverTooSoon
=============================================================================
