--------------------------- MODULE TcpServerProofs ---------------------------
(***************************************************************************)
(* TLAPS proofs about TcpServer, for any connections, callers of stop()    *)
(* and number of IO loops: every accepted connection is in one place, so   *)
(* the count is right, its user hears of it in order, and start() leaves   *)
(* none behind.                                                            *)
(***************************************************************************)
EXTENDS TcpServer, FiniteSetTheorems, SequenceTheorems, TLAPS

-----------------------------------------------------------------------------
(* Queues of functors.                                                     *)

\* A functor of q creates the connection c.
At(q, c) == \E i \in DOMAIN q : q[i].conn = c

\* No two functors of q create the same connection.
Single(q) == \A i, j \in DOMAIN q : q[i].conn = q[j].conn /\ q[i].conn \in Conns => i = j

LEMMA AtEmpty == Single(<< >>) /\ \A c : ~At(<< >>, c)
BY DEF At, Single

LEMMA AtAppend ==
  ASSUME NEW q \in Seq(Jobs), NEW j \in Jobs
  PROVE  /\ Append(q, j) \in Seq(Jobs)
         /\ \A c : At(Append(q, j), c) <=> At(q, c) \/ j.conn = c
         /\ Single(q) /\ (j.conn \in Conns => ~At(q, j.conn)) => Single(Append(q, j))
<1> DEFINE n == Len(q)
           p == Append(q, j)
<1>1. /\ p \in Seq(Jobs) /\ n \in Nat /\ DOMAIN q = 1 .. n /\ DOMAIN p = 1 .. n + 1
      /\ \A i \in 1 .. n : p[i] = q[i]
      /\ p[n + 1] = j
  BY AppendProperties, LenProperties
<1>2. n + 1 \in 1 .. n + 1 /\ \A i \in 1 .. n + 1 : i \in 1 .. n \/ i = n + 1
  BY <1>1
<1>3. \A i \in 1 .. n : i \in 1 .. n + 1
  BY <1>1
<1> HIDE DEF p, n
<1>4. \A c : At(p, c) <=> At(q, c) \/ j.conn = c
  BY <1>1, <1>2, <1>3 DEF At
<1>5. ASSUME Single(q), j.conn \in Conns => ~At(q, j.conn) PROVE Single(p)
  BY <1>1, <1>2, <1>5 DEF At, Single
<1>6. QED BY <1>1, <1>4, <1>5 DEF p

LEMMA AtTail ==
  ASSUME NEW q \in Seq(Jobs), q # << >>
  PROVE  /\ Head(q) \in Jobs /\ Tail(q) \in Seq(Jobs)
         /\ \A c : At(q, c) <=> Head(q).conn = c \/ At(Tail(q), c)
         /\ Single(q) => /\ Single(Tail(q))
                         /\ Head(q).conn \in Conns => ~At(Tail(q), Head(q).conn)
<1> DEFINE n == Len(q)
           p == Tail(q)
<1>1. /\ p \in Seq(Jobs) /\ n \in Nat \ {0} /\ DOMAIN q = 1 .. n /\ DOMAIN p = 1 .. n - 1
      /\ \A i \in 1 .. n - 1 : p[i] = q[i + 1]
      /\ Head(q) = q[1] /\ q[1] \in Jobs
  BY HeadTailProperties, LenProperties, EmptySeq
<1>2. /\ \A i \in 1 .. n - 1 : i + 1 \in 1 .. n
      /\ 1 \in 1 .. n
      /\ \A i \in 1 .. n : i = 1 \/ i - 1 \in 1 .. n - 1
      /\ \A i \in 1 .. n : (i - 1) + 1 = i
  BY <1>1
<1> HIDE DEF p, n
<1>3. \A c : At(q, c) <=> Head(q).conn = c \/ At(p, c)
  <2>1. ASSUME NEW c, At(p, c) PROVE At(q, c)
    BY <1>1, <1>2, <2>1 DEF At
  <2>2. ASSUME NEW c, At(q, c) PROVE Head(q).conn = c \/ At(p, c)
    <3>1. PICK i \in 1 .. n : q[i].conn = c
      BY <1>1, <2>2 DEF At
    <3>2. CASE i = 1
      BY <1>1, <3>1, <3>2
    <3>3. CASE i - 1 \in 1 .. n - 1
      <4>1. p[i - 1] = q[i]
        BY <1>1, <1>2, <3>3
      <4>2. QED BY <1>1, <3>1, <3>3, <4>1 DEF At
    <3>4. QED BY <1>2, <3>2, <3>3
  <2>3. QED BY <1>1, <1>2, <2>1, <2>2 DEF At
<1>4. ASSUME Single(q) PROVE Single(p)
  <2>1. SUFFICES ASSUME NEW i \in 1 .. n - 1, NEW j \in 1 .. n - 1,
                        p[i].conn = p[j].conn, p[i].conn \in Conns
                 PROVE  i = j
    BY <1>1 DEF Single
  <2>2. i + 1 \in 1 .. n /\ j + 1 \in 1 .. n /\ q[i + 1] = p[i] /\ q[j + 1] = p[j]
    BY <1>1, <1>2
  <2>3. i + 1 = j + 1
    BY <1>1, <1>4, <2>1, <2>2 DEF Single
  <2>4. QED BY <2>3
<1>5. ASSUME Single(q), Head(q).conn \in Conns, At(p, Head(q).conn) PROVE FALSE
  <2>1. PICK i \in 1 .. n - 1 : p[i].conn = q[1].conn
    BY <1>1, <1>5 DEF At
  <2>2. i + 1 \in 1 .. n /\ q[i + 1].conn = q[1].conn
    BY <1>1, <1>2, <2>1
  <2>3. i + 1 = 1
    BY <1>1, <1>2, <1>5, <2>2 DEF Single
  <2>4. QED BY <2>3
<1>6. QED BY <1>1, <1>3, <1>4, <1>5 DEF p

-----------------------------------------------------------------------------
(* The inductive invariant.                                                *)

\* Where the threads may be: a loop is inside a functor only while it runs its batch,
\* and inside a report only while it handles events; it is told to quit after the main
\* thread stopped waiting, and is then left empty.
Control ==
  /\ \A l \in IoLoops :
       /\ phase[l] # "run" => creating[l] = None /\ functors[l] = << >>
       /\ phase[l] \notin {"handle", "run"} => closing[l] = {}
       /\ isQuit[l] => main \in {"join", "returned"}
       /\ phase[l] = "gone" => isQuit[l] /\ pendingFunctors[l] = << >>
       /\ l < joining => phase[l] = "gone"
  /\ main # "loop" => creating[0] = None
  /\ main \notin {"loop", "post"} => closing[0] = {}
  /\ main = "returned" => joining = IoLoopNum + 1 /\ \A l \in Loops : records[l] = {}
  /\ IoLoopNum # 0 => ioLoopsIndex \in IoLoops

\* A connection is created by one functor, and by no loop before that one runs.
Queues ==
  /\ \A l \in IoLoops : Single(pendingFunctors[l]) /\ Single(functors[l])
  /\ \A c \in Conns, l, m \in IoLoops :
       /\ ~(At(pendingFunctors[l], c) /\ At(functors[m], c))
       /\ At(pendingFunctors[l], c) /\ At(pendingFunctors[m], c) => l = m
       /\ At(functors[l], c) /\ At(functors[m], c) => l = m
       /\ At(pendingFunctors[l], c) \/ At(functors[l], c) =>
            sock[c] = "socket" /\ \A k \in Loops : creating[k] # c

\* It is created by one loop, recorded by one loop, and extracted from there once.
Places ==
  \A c \in Conns, l, m \in Loops :
    /\ creating[l] = c /\ creating[m] = c => l = m
    /\ creating[l] = c => sock[c] \in {"socket", "built", "admitted", "open"}
    /\ creating[l] = c /\ sock[c] = "open" => c \in records[l]
    /\ c \in records[l] \cup closing[l] => sock[c] = "open"
    /\ c \in records[l] /\ c \in records[m] => l = m
    /\ c \in closing[l] /\ c \in closing[m] => l = m
    /\ ~(c \in closing[l] /\ c \in records[m])

\* A connection whose socket is not closed is held by somebody.
Held ==
  \A c \in Conns :
    /\ sock[c] = "socket" =>
         \/ \E l \in Loops : creating[l] = c
         \/ \E l \in IoLoops : At(pendingFunctors[l], c) \/ At(functors[l], c)
    /\ sock[c] \in {"built", "admitted"} => \E l \in Loops : creating[l] = c
    /\ sock[c] = "open" => \E l \in Loops : c \in records[l] \cup closing[l]

\* What its user has heard of it.
Heard ==
  \A c \in Conns :
    /\ sock[c] \in {"backlog", "socket", "built", "admitted"} => seen[c] = "none"
    /\ sock[c] = "open" =>
         IF \E l \in Loops : creating[l] = c THEN seen[c] = "none"
         ELSE seen[c] \in {"connected", "message", "closed"}
    /\ \A l \in Loops :
         /\ c \in records[l] => seen[c] # "closed"
         /\ c \in closing[l] /\ Dispatching(l) => seen[c] = "closed"

Conn == Queues /\ Places /\ Held /\ Heard
IInv == TypeOK /\ CountAgrees /\ Control /\ Conn

LEMMA LoopRange ==
  /\ Loops \subseteq Nat /\ 0 \in Loops
  /\ IoLoops = Loops \ {0} /\ IoLoopNum \in Nat
BY ServerAssumption DEF Loops, IoLoops

\* The recorded connections.
LEMMA UnionIs ==
  ASSUME NEW f
  PROVE  \A x : x \in UNION {f[l] : l \in Loops} <=> \E l \in Loops : x \in f[l]
OBVIOUS

LEMMA ClosedIs ==
  ASSUME sock \in [Conns -> Sockets], NEW S
  PROVE  /\ Closed(S) \in [Conns -> Sockets]
         /\ \A c \in Conns : Closed(S)[c] = IF c \in S THEN "closed" ELSE sock[c]
BY DEF Closed, Sockets

LEMMA InitInv == Init => IInv
<1> SUFFICES ASSUME Init PROVE IInv
  OBVIOUS
<1>1. TypeOK
  <2>1. /\ records \in [Loops -> SUBSET Conns]
        /\ closing \in [Loops -> SUBSET Conns]
        /\ creating \in [Loops -> Conns \cup {None}]
        /\ isQuit \in [Loops -> BOOLEAN]
        /\ phase \in [IoLoops -> {"check", "handle", "run", "gone"}]
        /\ sock \in [Conns -> Sockets]
        /\ seen \in [Conns -> Heards]
        /\ stopper \in [Stoppers -> {"idle", "won", "wakeup", "done"}]
    BY DEF Init, Sockets, Heards
  <2>2. pendingFunctors \in [IoLoops -> Seq(Jobs)] /\ functors \in [IoLoops -> Seq(Jobs)]
    BY DEF Init
  <2>3. ioLoopsIndex \in Loops /\ joining \in 1 .. IoLoopNum + 1
    BY ServerAssumption DEF Init, Loops
  <2>4. QED BY <2>1, <2>2, <2>3 DEF Init, TypeOK
<1>2. CountAgrees
  <2>1. UNION {records[l] : l \in Loops} = {}
    BY DEF Init
  <2>2. QED BY <2>1, FS_EmptySet DEF Init, CountAgrees
<1>3. Control
  <2>1. \A l \in IoLoops : l \in Loops /\ ~(l < 1) /\ phase[l] = "check" /\ ~isQuit[l] /\ functors[l] = << >>
                           /\ creating[l] = None /\ closing[l] = {}
    BY ServerAssumption DEF Init, Loops, IoLoops
  <2>2. creating[0] = None /\ closing[0] = {}
    BY LoopRange DEF Init
  <2>3. IoLoopNum # 0 => ioLoopsIndex \in IoLoops
    BY ServerAssumption DEF Init, IoLoops
  <2>4. QED BY <2>1, <2>2, <2>3 DEF Init, Control, Free
<1>4. Queues
  BY AtEmpty DEF Init, Queues
<1>5. Places /\ Held /\ Heard
  BY ServerAssumption DEF Init, Places, Held, Heard
<1>6. QED BY <1>1, <1>2, <1>3, <1>4, <1>5 DEF IInv, Conn

-----------------------------------------------------------------------------
(* Steps that leave every connection where it is.                          *)

placeVars == <<pendingFunctors, functors, creating, closing, records, activeConnectionCount,
               sock, seen>>

LEMMA SamePlaces ==
  ASSUME IInv, UNCHANGED placeVars,
         \A l \in Loops : Dispatching(l)' => Dispatching(l) \/ closing[l] = {}
  PROVE  Conn' /\ (main # "returned" \/ main' = "returned" => CountAgrees')
<1>1. UNCHANGED <<pendingFunctors, functors, creating, closing, records, activeConnectionCount,
                  sock, seen>>
  BY DEF placeVars
<1>2. Queues' /\ Places' /\ Held'
  BY <1>1 DEF IInv, Conn, Queues, Places, Held
<1>a. Heard'
  <2>1. \A c \in Conns, l \in Loops : c \in closing[l] /\ Dispatching(l)' => Dispatching(l)
    OBVIOUS
  <2>2. QED BY <1>1, <2>1 DEF IInv, Conn, Heard
<1>3. QED BY <1>1, <1>2, <1>a DEF IInv, Conn, CountAgrees

LEMMA MainMoves ==
  ASSUME IInv,
         \/ start \/ enter_main_loop \/ leave_main_loop \/ posted_all \/ wait_for_zero
         \/ quit_io_loop \/ join_io_thread
  PROVE  IInv'
<1> USE DEF start, enter_main_loop, leave_main_loop, posted_all, wait_for_zero,
            quit_io_loop, join_io_thread
<1>1. UNCHANGED placeVars /\ main # "returned"
  BY DEF placeVars, shutdownVars, loopVars, connVars
<1>a. \A l \in Loops : Dispatching(l)' => Dispatching(l) \/ closing[l] = {}
  <2>1. UNCHANGED phase /\ (main' = "loop" => main = "loop" \/ closing[0] = {})
    BY DEF loopVars, IInv, Control
  <2>2. QED BY <2>1 DEF Dispatching
<1>2. Conn' /\ CountAgrees'
  BY <1>1, <1>a, SamePlaces
<1>3. TypeOK'
  <2>1. isQuit' \in [Loops -> BOOLEAN] /\ unposted' \subseteq Loops
    BY DEF IInv, TypeOK, loopVars, shutdownVars
  <2>2. joining' \in 1 .. IoLoopNum + 1
    <3>1. joining \in 1 .. IoLoopNum + 1
      BY DEF IInv, TypeOK
    <3>2. joining' = joining \/ (joining \in IoLoops /\ joining' = joining + 1)
      BY DEF shutdownVars
    <3>3. QED BY <3>1, <3>2, ServerAssumption DEF IoLoops
  <2>3. QED BY <1>1, <2>1, <2>2 DEF IInv, TypeOK, placeVars, loopVars, shutdownVars
<1>4. Control'
  <2> USE DEF IInv
  <2>1. CASE start \/ enter_main_loop \/ posted_all \/ wait_for_zero
    BY <1>1, <2>1 DEF Control, Free, placeVars, loopVars, shutdownVars, connVars
  <2>2. CASE leave_main_loop
    BY <1>1, <2>2 DEF Control, Free, placeVars, loopVars, shutdownVars, connVars
  <2>3. CASE quit_io_loop
    BY <1>1, <2>3, LoopRange DEF TypeOK, Control, Free, placeVars, loopVars, shutdownVars, connVars
  <2>4. CASE join_io_thread
    <3>1. \A l \in IoLoops : l < joining' => l < joining \/ l = joining
      BY <2>4, LoopRange DEF TypeOK, IoLoops
    <3>2. QED BY <1>1, <2>4, <3>1 DEF Exited, Control, Free, placeVars, loopVars, shutdownVars, connVars
  <2>5. QED BY <2>1, <2>2, <2>3, <2>4
<1>5. QED BY <1>2, <1>3, <1>4 DEF IInv

LEMMA StopMoves ==
  ASSUME IInv, NEW s \in Stoppers, stop(s) \/ StopRuns(s)
  PROVE  IInv'
<1> USE DEF stop, StopRuns, quit_main_loop, wakeup_main_loop
<1>1. UNCHANGED placeVars /\ UNCHANGED <<main, phase, joining, unposted, ioLoopsIndex>>
  BY DEF placeVars, shutdownVars, loopVars, connVars
<1>a. \A l \in Loops : Dispatching(l)' <=> Dispatching(l)
  BY <1>1 DEF Dispatching
<1>2. Conn' /\ CountAgrees'
  BY <1>1, <1>a, SamePlaces
<1>3. /\ isQuit' \in [Loops -> BOOLEAN]
      /\ \A l \in IoLoops : isQuit'[l] = isQuit[l]
  BY LoopRange DEF IInv, TypeOK, loopVars
<1>4. TypeOK'
  BY <1>1, <1>3 DEF IInv, TypeOK, placeVars
<1>5. Control'
  BY <1>1, <1>3 DEF IInv, Control, Free, placeVars
<1>6. QED BY <1>2, <1>4, <1>5 DEF IInv

LEMMA EndFunctors ==
  ASSUME IInv, NEW l \in IoLoops, end_functors(l)
  PROVE  IInv'
<1> USE DEF IInv, end_functors
<1>1. /\ UNCHANGED placeVars
      /\ UNCHANGED <<state, main, stopper, ioLoopsIndex, unposted, joining, isQuit>>
      /\ phase' = [phase EXCEPT ![l] = "check"] /\ Free(l) /\ functors[l] = << >>
      /\ phase[l] = "run"
  BY DEF placeVars, shutdownVars, loopVars, connVars
<1>a. \A m \in Loops : Dispatching(m)' => Dispatching(m)
  BY <1>1, LoopRange DEF Dispatching, TypeOK
<1>2. Conn' /\ CountAgrees'
  BY <1>1, <1>a, SamePlaces
<1>3. TypeOK'
  BY <1>1 DEF TypeOK, placeVars
<1>4. Control'
  BY <1>1 DEF TypeOK, Control, Free, placeVars
<1>5. QED BY <1>2, <1>3, <1>4

-----------------------------------------------------------------------------
(* Steps that move functors.                                               *)

\* The connection of a create functor is one of Conns, that of a cleanup functor is not.
LEMMA JobConn ==
  /\ \A c \in Conns : [op |-> "create", conn |-> c] \in Jobs
  /\ [op |-> "cleanup", conn |-> None] \in Jobs
  /\ \A j \in Jobs : IF j.op = "create" THEN j.conn \in Conns ELSE j.conn = None
  /\ None \notin Conns
BY ServerAssumption DEF Jobs

LEMMA OnConnect ==
  ASSUME IInv, NEW c \in Conns, on_connect(c)
  PROVE  IInv'
<1> USE DEF IInv, Conn
<1>1. /\ main = "loop" /\ sock[c] = "backlog" /\ creating[0] = None /\ closing[0] = {}
      /\ UNCHANGED <<state, main, stopper, unposted, joining, isQuit, phase, functors,
                     records, activeConnectionCount, seen, closing>>
  BY DEF on_connect, HandlesEvents, Dispatching, Free, shutdownVars
<1>2. CountAgrees'
  BY <1>1 DEF CountAgrees
<1>3. /\ \A l \in Loops : creating[l] # c /\ c \notin records[l] /\ c \notin closing[l]
      /\ \A l \in IoLoops : ~At(pendingFunctors[l], c) /\ ~At(functors[l], c)
      /\ seen[c] = "none"
  BY <1>1 DEF Places, Queues, Heard
<1>4. CASE state # "Running"
  <2>1. sock' = Closed({c}) /\ UNCHANGED <<ioLoopsIndex, pendingFunctors, creating>>
    BY <1>4 DEF on_connect
  <2>2. /\ sock' \in [Conns -> Sockets]
        /\ \A d \in Conns : sock'[d] = IF d = c THEN "closed" ELSE sock[d]
    BY <2>1, ClosedIs DEF TypeOK
  <2>3. TypeOK' /\ Control'
    BY <1>1, <2>1, <2>2 DEF TypeOK, Control, Free
  <2>4. Queues' /\ Places' /\ Held' /\ Heard'
    <3>1. \A d \in Conns : sock[d] \in {"socket", "built", "admitted", "open"} => sock'[d] = sock[d]
      BY <1>1, <2>2
    <3>2. Queues'
      BY <1>1, <2>1, <3>1 DEF Queues
    <3>3. Places'
      <4>1. UNCHANGED <<creating, records, closing>>
        BY <1>1, <2>1
      <4>2. QED BY <3>1, <4>1 DEF Places
    <3>4. Held'
      BY <1>1, <2>1, <2>2 DEF Held
    <3>5. Heard'
      BY <1>1, <2>1, <2>2 DEF Heard, Dispatching
    <3>6. QED BY <3>2, <3>3, <3>4, <3>5
  <2>5. QED BY <1>2, <2>3, <2>4
<1>5. CASE state = "Running" /\ IoLoopNum = 0
  <2>1. /\ sock' = [sock EXCEPT ![c] = "socket"] /\ creating' = [creating EXCEPT ![0] = c]
        /\ UNCHANGED <<ioLoopsIndex, pendingFunctors>>
    BY <1>5 DEF on_connect
  <2>2. IoLoops = {} /\ 0 \in Loops
    BY <1>5, LoopRange DEF IoLoops, Loops
  <2>3. /\ sock' \in [Conns -> Sockets] /\ creating' \in [Loops -> Conns \cup {None}]
        /\ \A d \in Conns : sock'[d] = IF d = c THEN "socket" ELSE sock[d]
        /\ \A l \in Loops : creating'[l] = IF l = 0 THEN c ELSE creating[l]
    BY <2>1, <2>2 DEF TypeOK, Sockets
  <2>4. TypeOK' /\ Control'
    BY <1>1, <2>1, <2>2, <2>3 DEF TypeOK, Control
  <2>5. Queues'
    BY <2>2 DEF Queues
  <2>6. Places'
    BY <1>1, <1>3, <2>3 DEF Places
  <2>7. Held'
    BY <1>1, <2>1, <2>2, <2>3, JobConn DEF Held
  <2>8. Heard'
    BY <1>1, <1>3, <2>1, <2>2, <2>3, JobConn DEF Heard, Places, Dispatching
  <2>9. QED BY <1>2, <2>4, <2>5, <2>6, <2>7, <2>8
<1>6. CASE state = "Running" /\ IoLoopNum # 0
  <2> DEFINE k == ioLoopsIndex
             job == [op |-> "create", conn |-> c]
  <2>1. /\ sock' = [sock EXCEPT ![c] = "socket"] /\ UNCHANGED creating
        /\ pendingFunctors' = [pendingFunctors EXCEPT ![k] = Append(@, job)]
        /\ ioLoopsIndex' = (k % IoLoopNum) + 1
    BY <1>6 DEF on_connect, push, get_next_loop
  <2>2. k \in IoLoops
    BY <1>6 DEF Control
  <2>3. ioLoopsIndex' \in IoLoops /\ ioLoopsIndex' \in Loops
    <3>1. IoLoopNum \in Nat \ {0} /\ k \in Nat
      BY <1>6, <2>2, LoopRange
    <3>2. k % IoLoopNum \in 0 .. IoLoopNum - 1
      BY <3>1
    <3>3. QED BY <2>1, <3>1, <3>2 DEF IoLoops, Loops
  <2>4. job \in Jobs /\ job.conn = c
    BY JobConn
  <2>5. /\ pendingFunctors' \in [IoLoops -> Seq(Jobs)]
        /\ \A l \in IoLoops : l # k => pendingFunctors'[l] = pendingFunctors[l]
        /\ \A d : At(pendingFunctors'[k], d) <=> At(pendingFunctors[k], d) \/ d = c
        /\ Single(pendingFunctors'[k])
    <3>1. pendingFunctors[k] \in Seq(Jobs) /\ Single(pendingFunctors[k])
      BY <2>2 DEF TypeOK, Queues
    <3> HIDE DEF job
    <3>2. /\ Append(pendingFunctors[k], job) \in Seq(Jobs)
          /\ \A d : At(Append(pendingFunctors[k], job), d) <=> At(pendingFunctors[k], d) \/ d = c
          /\ Single(Append(pendingFunctors[k], job))
      BY <1>3, <2>2, <2>4, <3>1, AtAppend
    <3>3. QED BY <2>1, <2>2, <3>2 DEF TypeOK
  <2> HIDE DEF job
  <2>6. /\ sock' \in [Conns -> Sockets]
        /\ \A d \in Conns : sock'[d] = IF d = c THEN "socket" ELSE sock[d]
    BY <2>1 DEF TypeOK, Sockets
  <2>7. TypeOK'
    BY <1>1, <2>1, <2>3, <2>5, <2>6 DEF TypeOK
  <2>8. Control'
    <3>1. \A l \in IoLoops : ~isQuit[l] /\ phase[l] # "gone"
      BY <1>1 DEF Control
    <3>2. QED BY <1>1, <2>1, <2>3, <3>1 DEF Control, Free
  <2>9. Queues'
    BY <1>1, <1>3, <2>1, <2>2, <2>5, <2>6 DEF Queues
  <2>10. Places'
    BY <1>1, <1>3, <2>1, <2>6 DEF Places
  <2>11. Held'
    BY <1>1, <2>1, <2>2, <2>5, <2>6 DEF Held
  <2>12. Heard'
    BY <1>1, <1>3, <2>1, <2>6 DEF Heard, Dispatching
  <2>13. QED BY <1>2, <2>7, <2>8, <2>9, <2>10, <2>11, <2>12
<1>7. QED BY <1>4, <1>5, <1>6

LEMMA SwapFunctors ==
  ASSUME IInv, NEW l \in IoLoops, swap_functors(l)
  PROVE  IInv'
<1> USE DEF IInv, Conn
<1>1. /\ phase[l] = "handle" /\ Free(l)
      /\ phase' = [phase EXCEPT ![l] = "run"]
      /\ functors' = [functors EXCEPT ![l] = pendingFunctors[l]]
      /\ pendingFunctors' = [pendingFunctors EXCEPT ![l] = << >>]
      /\ UNCHANGED <<state, main, stopper, ioLoopsIndex, unposted, joining, isQuit, records,
                     activeConnectionCount, sock, seen, creating, closing>>
  BY DEF swap_functors, shutdownVars, connVars
<1>2. /\ \A m \in IoLoops : /\ functors'[m] = IF m = l THEN pendingFunctors[l] ELSE functors[m]
                            /\ pendingFunctors'[m] = IF m = l THEN << >> ELSE pendingFunctors[m]
                            /\ phase'[m] = IF m = l THEN "run" ELSE phase[m]
      /\ functors[l] = << >>
  BY <1>1 DEF TypeOK, Control
<1>3. TypeOK'
  <2>1. << >> \in Seq(Jobs)
    OBVIOUS
  <2>2. functors' \in [IoLoops -> Seq(Jobs)] /\ pendingFunctors' \in [IoLoops -> Seq(Jobs)]
    BY <1>1, <2>1 DEF TypeOK
  <2>3. QED BY <1>1, <2>2 DEF TypeOK
<1>4. Control'
  BY <1>1, <1>2 DEF Control, Free
<1>5. Queues'
  BY <1>1, <1>2, AtEmpty DEF Queues
<1>6. Places' /\ Heard' /\ CountAgrees'
  <2>1. \A m \in Loops : Dispatching(m)' => Dispatching(m)
    BY <1>1, <1>2, LoopRange DEF Dispatching
  <2>2. QED BY <1>1, <2>1 DEF Places, Heard, CountAgrees
<1>7. Held'
  <2>1. \A c \in Conns, m \in IoLoops :
          At(pendingFunctors[m], c) \/ At(functors[m], c)
            => At(pendingFunctors'[m], c) \/ At(functors'[m], c)
    BY <1>2, AtEmpty
  <2>2. QED BY <1>1, <2>1 DEF Held
<1>8. QED BY <1>3, <1>4, <1>5, <1>6, <1>7

LEMMA BeginCreate ==
  ASSUME IInv, NEW l \in IoLoops, begin_create(l)
  PROVE  IInv'
<1> USE DEF IInv, Conn
<1> DEFINE c == Head(functors[l]).conn
<1>1. /\ phase[l] = "run" /\ Free(l) /\ functors[l] # << >>
      /\ Head(functors[l]).op = "create"
      /\ creating' = [creating EXCEPT ![l] = c]
      /\ functors' = [functors EXCEPT ![l] = Tail(functors[l])]
      /\ UNCHANGED <<state, main, stopper, ioLoopsIndex, unposted, joining, isQuit, phase,
                     pendingFunctors, records, activeConnectionCount, sock, seen, closing>>
  BY DEF begin_create, shutdownVars, connVars
<1>2. l \in Loops /\ l # 0
  BY LoopRange
<1>3. functors[l] \in Seq(Jobs) /\ Single(functors[l])
  BY DEF TypeOK, Queues
<1>4. /\ Head(functors[l]) \in Jobs /\ Tail(functors[l]) \in Seq(Jobs)
      /\ \A d : At(functors[l], d) <=> c = d \/ At(Tail(functors[l]), d)
      /\ Single(Tail(functors[l]))
      /\ Head(functors[l]).conn \in Conns => ~At(Tail(functors[l]), c)
  BY <1>1, <1>3, AtTail
<1>5. c \in Conns
  BY <1>1, <1>4, JobConn
<1> HIDE DEF c
<1>6. At(functors[l], c) /\ ~At(Tail(functors[l]), c)
  BY <1>4, <1>5 DEF c
<1>7. sock[c] = "socket" /\ \A k \in Loops : creating[k] # c
  BY <1>5, <1>6 DEF Queues
<1>8. /\ \A m \in Loops : creating'[m] = IF m = l THEN c ELSE creating[m]
      /\ \A m \in IoLoops : functors'[m] = IF m = l THEN Tail(functors[l]) ELSE functors[m]
  BY <1>1, <1>2 DEF TypeOK
<1>9. TypeOK'
  <2>1. creating' \in [Loops -> Conns \cup {None}] /\ functors' \in [IoLoops -> Seq(Jobs)]
    BY <1>1, <1>4, <1>5 DEF TypeOK
  <2>2. QED BY <1>1, <2>1 DEF TypeOK
<1>10. Control'
  <2>1. creating'[0] = creating[0]
    BY <1>2, <1>8, LoopRange
  <2>2. \A m \in IoLoops : m # l => m \in Loops /\ creating'[m] = creating[m] /\ functors'[m] = functors[m]
    BY <1>8, LoopRange
  <2>3. QED BY <1>1, <2>1, <2>2 DEF Control, Free
<1>11. Queues'
  BY <1>1, <1>4, <1>5, <1>6, <1>7, <1>8 DEF Queues
<1>12. Places'
  BY <1>1, <1>2, <1>5, <1>7, <1>8 DEF Places, Free
<1>13. \A d \in Conns, k \in Loops : creating[k] = d => creating'[k] = d
  BY <1>1, <1>8, JobConn DEF Free
<1>14. Held'
  BY <1>1, <1>2, <1>4, <1>5, <1>8, <1>13 DEF Held
<1>15. Heard'
  <2>1. \A d \in Conns : d # c => ((\E k \in Loops : creating'[k] = d) <=> \E k \in Loops : creating[k] = d)
    BY <1>1, <1>8, <1>13
  <2>2. QED BY <1>1, <1>7, <2>1 DEF Heard, Dispatching
<1>16. CountAgrees'
  BY <1>1 DEF CountAgrees
<1>17. QED BY <1>9, <1>10, <1>11, <1>12, <1>14, <1>15, <1>16

-----------------------------------------------------------------------------
(* The count.                                                              *)

Recorded == UNION {records[l] : l \in Loops}

LEMMA RecordedIs == \A x : x \in Recorded <=> \E l \in Loops : x \in records[l]
BY DEF Recorded

LEMMA RecordedIsNext == \A x : x \in Recorded' <=> \E l \in Loops : x \in records'[l]
BY DEF Recorded

LEMMA RecordedFinite ==
  ASSUME TypeOK
  PROVE  IsFiniteSet(Recorded) /\ Cardinality(Recorded) \in Nat
<1>1. Recorded \subseteq Conns
  BY RecordedIs DEF TypeOK
<1>2. QED BY <1>1, FS_Subset, FS_CardinalityType, ServerAssumption

\* A loop that holds a connection is not one of a server that has stopped.
LEMMA NotReturned ==
  ASSUME IInv, NEW l \in Loops, creating[l] # None \/ records[l] # {} \/ closing[l] # {}
  PROVE  main # "returned"
<1> SUFFICES ASSUME main = "returned" PROVE FALSE
  OBVIOUS
<1>1. joining = IoLoopNum + 1 /\ creating[0] = None /\ closing[0] = {} /\ records[l] = {}
  BY DEF IInv, Control
<1>2. CASE l = 0
  BY <1>1, <1>2
<1>3. CASE l # 0
  <2>1. l \in IoLoops /\ l < joining
    BY <1>1, <1>3, ServerAssumption DEF Loops, IoLoops
  <2>2. phase[l] = "gone"
    BY <2>1 DEF IInv, Control
  <2>3. QED BY <1>1, <2>1, <2>2 DEF IInv, Control, Free
<1>4. QED BY <1>2, <1>3

\* Forgetting the connections of a set that loop l has recorded, and counting them out.
LEMMA CountedOut ==
  ASSUME IInv, NEW l \in Loops, main # "returned",
         NEW S, S \subseteq records[l],
         records' = [records EXCEPT ![l] = @ \ S],
         activeConnectionCount' = activeConnectionCount - Cardinality(S)
  PROVE  /\ records' \in [Loops -> SUBSET Conns]
         /\ records'[l] = records[l] \ S
         /\ \A m \in Loops : m # l => records'[m] = records[m]
         /\ activeConnectionCount' \in Nat
         /\ CountAgrees'
<1>1. /\ records' \in [Loops -> SUBSET Conns]
      /\ records'[l] = records[l] \ S
      /\ \A m \in Loops : m # l => records'[m] = records[m]
  BY DEF IInv, TypeOK
<1>2. Recorded' = Recorded \ S
  <2>1. \A x \in S : x \in Conns
    BY DEF IInv, TypeOK
  <2>2. \A m \in Loops : records'[m] = records[m] \ S
    BY <1>1, <2>1 DEF IInv, Conn, Places
  <2>3. \A x : x \in Recorded' <=> x \in Recorded /\ x \notin S
    BY <2>2, RecordedIs, RecordedIsNext
  <2>4. QED BY <2>3
<1>3. S \subseteq Recorded
  BY RecordedIs
<1>4. activeConnectionCount = Cardinality(Recorded)
  BY DEF IInv, CountAgrees, Recorded
<1>5. IsFiniteSet(Recorded) /\ Cardinality(Recorded) \in Nat
  BY RecordedFinite DEF IInv
<1>6. /\ IsFiniteSet(Recorded \ S)
      /\ Cardinality(Recorded \ S) = Cardinality(Recorded) - Cardinality(Recorded \cap S)
  BY <1>5, FS_Difference
<1>7. Recorded \cap S = S
  BY <1>3
<1>8. Cardinality(Recorded \ S) \in Nat
  BY <1>6, FS_CardinalityType
<1>9. activeConnectionCount' = Cardinality(Recorded')
  BY <1>2, <1>4, <1>6, <1>7
<1>10. QED BY <1>1, <1>2, <1>8, <1>9 DEF CountAgrees, Recorded

LEMMA Extracted ==
  ASSUME IInv, NEW l \in Loops, main # "returned", extract_records(l)
  PROVE  /\ records' \in [Loops -> SUBSET Conns]
         /\ \A m \in Loops : records'[m] = IF m = l THEN {} ELSE records[m]
         /\ closing' \in [Loops -> SUBSET Conns]
         /\ \A m \in Loops : closing'[m] = IF m = l THEN records[l] ELSE closing[m]
         /\ activeConnectionCount' \in Nat
         /\ CountAgrees'
<1>1. /\ closing' = [closing EXCEPT ![l] = records[l]]
      /\ records' = [records EXCEPT ![l] = @ \ records[l]]
      /\ activeConnectionCount' = activeConnectionCount - Cardinality(records[l])
  BY DEF extract_records
<1>2. /\ records' \in [Loops -> SUBSET Conns]
      /\ records'[l] = records[l] \ records[l]
      /\ \A m \in Loops : m # l => records'[m] = records[m]
      /\ activeConnectionCount' \in Nat
      /\ CountAgrees'
  BY <1>1, CountedOut
<1>3. /\ closing' \in [Loops -> SUBSET Conns]
      /\ \A m \in Loops : closing'[m] = IF m = l THEN records[l] ELSE closing[m]
  BY <1>1 DEF IInv, TypeOK
<1>4. QED BY <1>2, <1>3

\* A loop in the cleanup functor: what it has recorded goes over to what it closes.
LEMMA CleansUp ==
  ASSUME IInv, NEW l \in Loops, main # "returned", extract_records(l), Free(l),
         UNCHANGED <<sock, seen, creating>>,
         ~Dispatching(l)', \A m \in Loops : Dispatching(m)' => Dispatching(m),
         \A c \in Conns, m \in IoLoops :
           /\ At(pendingFunctors'[m], c) <=> At(pendingFunctors[m], c)
           /\ At(functors'[m], c) <=> At(functors[m], c),
         \A m \in IoLoops : Single(pendingFunctors'[m]) /\ Single(functors'[m])
  PROVE  Conn'
<1> USE DEF IInv, Conn
<1>1. /\ \A m \in Loops : records'[m] = IF m = l THEN {} ELSE records[m]
      /\ \A m \in Loops : closing'[m] = IF m = l THEN records[l] ELSE closing[m]
  BY Extracted
<1>2. creating[l] = None /\ closing[l] = {}
  BY DEF Free
<1>3. Queues'
  BY DEF Queues
<1>4. Places'
  <2>1. \A c \in Conns, m \in Loops : creating'[m] = c => m # l /\ creating[m] = c
    BY <1>2, JobConn
  <2>2. QED BY <1>1, <2>1 DEF Places
<1>5. Held'
  <2>1. \A c \in Conns, m \in Loops :
          c \in records[m] \cup closing[m] => c \in records'[m] \cup closing'[m]
    BY <1>1, <1>2
  <2>2. QED BY <2>1 DEF Held
<1>6. Heard'
  <2>1. \A m \in Loops : Dispatching(m)' => m # l /\ Dispatching(m)
    OBVIOUS
  <2>2. \A c \in Conns, m \in Loops : c \in closing'[m] /\ Dispatching(m)' => c \in closing[m] /\ Dispatching(m)
    BY <1>1, <2>1
  <2>3. \A c \in Conns, m \in Loops : c \in records'[m] => c \in records[m]
    BY <1>1
  <2>4. QED BY <2>2, <2>3 DEF Heard
<1>7. QED BY <1>3, <1>4, <1>5, <1>6

LEMMA PostCleanup ==
  ASSUME IInv, NEW l \in Loops, post_cleanup(l)
  PROVE  IInv'
<1> USE DEF IInv
<1>1. /\ main = "post" /\ Free(0)
      /\ unposted' \subseteq unposted
      /\ UNCHANGED <<state, main, stopper, ioLoopsIndex, joining, isQuit, phase, functors,
                     sock, seen, creating>>
  BY DEF post_cleanup
<1>2. CASE l = 0
  <2>1. extract_records(0) /\ UNCHANGED pendingFunctors
    BY <1>2 DEF post_cleanup
  <2>2. 0 \in Loops /\ main # "returned"
    BY <1>1, LoopRange
  <2>3. /\ records' \in [Loops -> SUBSET Conns]
        /\ closing' \in [Loops -> SUBSET Conns]
        /\ \A m \in Loops : closing'[m] = IF m = 0 THEN records[0] ELSE closing[m]
        /\ activeConnectionCount' \in Nat
        /\ CountAgrees'
    BY <2>1, <2>2, Extracted
  <2>4. Conn'
    BY <1>1, <2>1, <2>2, CleansUp DEF Conn, Queues, Dispatching
  <2>5. TypeOK'
    BY <1>1, <2>1, <2>3 DEF TypeOK
  <2>6. Control'
    <3>1. \A m \in IoLoops : closing'[m] = closing[m]
      BY <2>3, LoopRange
    <3>2. QED BY <1>1, <2>1, <3>1 DEF Control, Free
  <2>7. QED BY <2>3, <2>4, <2>5, <2>6
<1>3. CASE l # 0
  <2> DEFINE job == [op |-> "cleanup", conn |-> None]
  <2>1. /\ pendingFunctors' = [pendingFunctors EXCEPT ![l] = Append(@, job)]
        /\ UNCHANGED <<closing, records, activeConnectionCount>>
    BY <1>3 DEF post_cleanup, push
  <2>2. l \in IoLoops
    BY <1>3, LoopRange
  <2>3. job \in Jobs /\ job.conn = None
    BY JobConn
  <2> HIDE DEF job
  <2>4. pendingFunctors[l] \in Seq(Jobs) /\ Single(pendingFunctors[l])
    BY <2>2 DEF TypeOK, Conn, Queues
  <2>5. /\ Append(pendingFunctors[l], job) \in Seq(Jobs)
        /\ \A d : At(Append(pendingFunctors[l], job), d) <=> At(pendingFunctors[l], d) \/ d = None
        /\ Single(Append(pendingFunctors[l], job))
    BY <2>3, <2>4, AtAppend, JobConn
  <2>6. \A m \in IoLoops : pendingFunctors'[m] = IF m = l THEN Append(pendingFunctors[l], job)
                                                 ELSE pendingFunctors[m]
    BY <2>1 DEF TypeOK
  <2>7. pendingFunctors' \in [IoLoops -> Seq(Jobs)]
    BY <2>1, <2>2, <2>5 DEF TypeOK
  <2>8. TypeOK'
    BY <1>1, <2>1, <2>7 DEF TypeOK
  <2>9. Control'
    <3>1. \A m \in IoLoops : ~isQuit[m] /\ phase[m] # "gone"
      BY <1>1 DEF Control
    <3>2. QED BY <1>1, <2>1, <3>1 DEF Control, Free
  <2>10. \A m \in IoLoops : /\ \A c \in Conns : At(pendingFunctors'[m], c) <=> At(pendingFunctors[m], c)
                            /\ Single(pendingFunctors'[m])
    BY <2>4, <2>5, <2>6, JobConn DEF Conn, Queues
  <2>11. Queues'
    BY <1>1, <2>10 DEF Conn, Queues
  <2>12. Held'
    BY <1>1, <2>1, <2>10 DEF Conn, Held
  <2>13. Places' /\ Heard' /\ CountAgrees'
    BY <1>1, <2>1 DEF Conn, Places, Heard, CountAgrees, Dispatching
  <2>14. QED BY <2>8, <2>9, <2>11, <2>12, <2>13 DEF Conn
<1>4. QED BY <1>2, <1>3

LEMMA RunCleanup ==
  ASSUME IInv, NEW l \in IoLoops, run_cleanup(l)
  PROVE  IInv'
<1> USE DEF IInv
<1>1. /\ phase[l] = "run" /\ Free(l) /\ functors[l] # << >>
      /\ Head(functors[l]).op = "cleanup"
      /\ functors' = [functors EXCEPT ![l] = Tail(functors[l])]
      /\ extract_records(l)
      /\ main' = IF main = "asleep" THEN "wait" ELSE main
      /\ UNCHANGED <<state, stopper, ioLoopsIndex, unposted, joining, isQuit, phase,
                     pendingFunctors, sock, seen, creating>>
  BY DEF run_cleanup, shutdownVars
<1>2. l \in Loops /\ l # 0
  BY LoopRange
<1>3. main # "returned"
  <2>1. SUFFICES ASSUME main = "returned" PROVE FALSE
    OBVIOUS
  <2>2. l < joining
    BY <2>1, ServerAssumption DEF Control, IoLoops
  <2>3. QED BY <1>1, <2>2 DEF Control
<1>4. functors[l] \in Seq(Jobs) /\ Single(functors[l])
  BY DEF TypeOK, Conn, Queues
<1>5. /\ Head(functors[l]) \in Jobs /\ Tail(functors[l]) \in Seq(Jobs)
      /\ \A d : At(functors[l], d) <=> Head(functors[l]).conn = d \/ At(Tail(functors[l]), d)
      /\ Single(Tail(functors[l]))
  BY <1>1, <1>4, AtTail
<1>6. Head(functors[l]).conn = None
  BY <1>1, <1>5, JobConn
<1>7. \A m \in IoLoops : functors'[m] = IF m = l THEN Tail(functors[l]) ELSE functors[m]
  BY <1>1 DEF TypeOK
<1>8. \A m \in IoLoops : /\ \A c \in Conns : At(functors'[m], c) <=> At(functors[m], c)
                         /\ Single(functors'[m])
  BY <1>5, <1>6, <1>7, JobConn DEF Conn, Queues
<1>9. /\ records' \in [Loops -> SUBSET Conns]
      /\ closing' \in [Loops -> SUBSET Conns]
      /\ \A m \in Loops : closing'[m] = IF m = l THEN records[l] ELSE closing[m]
      /\ activeConnectionCount' \in Nat
      /\ CountAgrees'
  BY <1>1, <1>2, <1>3, Extracted
<1>10. Conn'
  <2>1. ~Dispatching(l)' /\ \A m \in Loops : Dispatching(m)' => Dispatching(m)
    BY <1>1, <1>2 DEF Dispatching
  <2>2. QED BY <1>1, <1>2, <1>3, <1>8, <2>1, CleansUp DEF Conn, Queues
<1>11. TypeOK'
  <2>1. functors' \in [IoLoops -> Seq(Jobs)]
    BY <1>1, <1>5 DEF TypeOK
  <2>2. main' \in {"idle", "listen", "loop", "post", "wait", "asleep", "join", "returned"}
    BY <1>1 DEF TypeOK
  <2>3. QED BY <1>1, <1>9, <2>1, <2>2 DEF TypeOK
<1>12. Control'
  <2>1. \A m \in Loops : m # l => closing'[m] = closing[m]
    BY <1>9
  <2>2. \A m \in IoLoops : m \in Loops /\ (m # l => functors'[m] = functors[m])
    BY <1>7, LoopRange
  <2>3. closing'[0] = closing[0]
    BY <1>2, <2>1, LoopRange
  <2>4. QED BY <1>1, <1>3, <2>1, <2>2, <2>3 DEF Control, Free
<1>13. QED BY <1>9, <1>10, <1>11, <1>12

-----------------------------------------------------------------------------
(* Steps that move a connection.                                           *)

\* A loop that creates a connection is running a functor, or is the main loop.
LEMMA Creating ==
  ASSUME IInv, NEW l \in Loops, creating[l] # None
  PROVE  /\ creating[l] \in Conns /\ main # "returned"
         /\ l \in IoLoops => phase[l] = "run"
         /\ l = 0 => main = "loop"
<1>1. creating[l] \in Conns
  BY DEF IInv, TypeOK
<1>2. QED BY <1>1, NotReturned DEF IInv, Control, Free

LEMMA CheckRunning ==
  ASSUME IInv, NEW l \in Loops, check_running(l)
  PROVE  IInv'
<1> USE DEF IInv, Conn
<1> DEFINE c == creating[l]
<1>1. /\ c # None /\ sock[c] \in {"socket", "built"}
      /\ UNCHANGED <<state, main, stopper, ioLoopsIndex, unposted, joining, isQuit, phase,
                     pendingFunctors, functors, records, activeConnectionCount, seen, closing>>
  BY DEF check_running, shutdownVars, loopVars
<1>2. c \in Conns /\ main # "returned"
  BY <1>1, Creating
<1>3. CountAgrees'
  BY <1>1 DEF CountAgrees
<1>4. /\ \A m \in IoLoops : ~At(pendingFunctors[m], c) /\ ~At(functors[m], c)
      /\ \A m \in Loops : m # l => creating[m] # c
      /\ \A m \in Loops : c \notin records[m] /\ c \notin closing[m]
  BY <1>1, <1>2 DEF Queues, Places
<1>5. CASE state = "Running"
  <2>1. /\ sock' = [sock EXCEPT ![c] = IF @ = "socket" THEN "built" ELSE "admitted"]
        /\ UNCHANGED creating
    BY <1>5 DEF check_running
  <2>2. /\ sock' \in [Conns -> Sockets]
        /\ \A d \in Conns : d # c => sock'[d] = sock[d]
        /\ sock'[c] \in {"built", "admitted"}
    BY <1>1, <1>2, <2>1 DEF TypeOK, Sockets
  <2>3. TypeOK' /\ Control'
    BY <1>1, <2>1, <2>2 DEF TypeOK, Control, Free
  <2>4. Queues'
    BY <1>1, <1>4, <2>1, <2>2 DEF Queues
  <2>5. Places'
    BY <1>1, <1>4, <2>1, <2>2 DEF Places
  <2>6. Held'
    BY <1>1, <2>1, <2>2 DEF Held
  <2>7. Heard'
    BY <1>1, <1>2, <2>1, <2>2 DEF Heard, Dispatching
  <2>8. QED BY <1>3, <2>3, <2>4, <2>5, <2>6, <2>7
<1>6. CASE state # "Running"
  <2>1. sock' = Closed({c}) /\ creating' = [creating EXCEPT ![l] = None]
    BY <1>6 DEF check_running
  <2>2. /\ sock' \in [Conns -> Sockets]
        /\ \A d \in Conns : sock'[d] = IF d = c THEN "closed" ELSE sock[d]
        /\ creating' \in [Loops -> Conns \cup {None}]
        /\ \A m \in Loops : creating'[m] = IF m = l THEN None ELSE creating[m]
    BY <2>1, ClosedIs DEF TypeOK
  <2> HIDE DEF c
  <2>3. TypeOK'
    BY <1>1, <2>1, <2>2 DEF TypeOK
  <2>4. Control'
    BY <1>1, <2>2, LoopRange DEF Control, Free
  <2>5. Queues'
    BY <1>1, <1>4, <2>1, <2>2, JobConn DEF Queues
  <2>6. \A d \in Conns, m \in Loops : creating'[m] = d <=> creating[m] = d /\ d # c
    BY <1>4, <2>2, JobConn DEF c
  <2>7. Places'
    BY <1>1, <1>4, <2>2, <2>6 DEF Places
  <2>8. Held'
    BY <1>1, <2>2, <2>6 DEF Held
  <2>9. Heard'
    BY <1>1, <2>2, <2>6 DEF Heard, Dispatching
  <2>10. QED BY <1>3, <2>3, <2>4, <2>5, <2>7, <2>8, <2>9
<1>7. QED BY <1>5, <1>6

LEMMA Register ==
  ASSUME IInv, NEW l \in Loops, register(l)
  PROVE  IInv'
<1> USE DEF IInv, Conn
<1> DEFINE c == creating[l]
<1>1. /\ c # None /\ sock[c] = "admitted"
      /\ sock' = [sock EXCEPT ![c] = "open"]
      /\ records' = [records EXCEPT ![l] = @ \cup {c}]
      /\ activeConnectionCount' = activeConnectionCount + 1
      /\ UNCHANGED <<state, main, stopper, ioLoopsIndex, unposted, joining, isQuit, phase,
                     pendingFunctors, functors, seen, creating, closing>>
  BY DEF register, shutdownVars, loopVars
<1>2. c \in Conns /\ main # "returned"
  BY <1>1, Creating
<1>3. /\ \A m \in IoLoops : ~At(pendingFunctors[m], c) /\ ~At(functors[m], c)
      /\ \A m \in Loops : m # l => creating[m] # c
      /\ \A m \in Loops : c \notin records[m] /\ c \notin closing[m]
  BY <1>1, <1>2 DEF Queues, Places
<1>4. /\ sock' \in [Conns -> Sockets] /\ records' \in [Loops -> SUBSET Conns]
      /\ \A d \in Conns : sock'[d] = IF d = c THEN "open" ELSE sock[d]
      /\ \A m \in Loops : records'[m] = IF m = l THEN records[l] \cup {c} ELSE records[m]
  BY <1>1, <1>2 DEF TypeOK, Sockets
<1>5. activeConnectionCount' \in Nat /\ CountAgrees'
  <2>1. \A x : x \in Recorded' <=> x \in Recorded \/ x = c
    BY <1>4, RecordedIs, RecordedIsNext
  <2>2. Recorded' = Recorded \cup {c}
    BY <2>1
  <2>3. c \notin Recorded
    BY <1>3, RecordedIs
  <2>4. IsFiniteSet(Recorded) /\ Cardinality(Recorded) \in Nat
    BY RecordedFinite
  <2>5. Cardinality(Recorded \cup {c}) = Cardinality(Recorded) + 1
    BY <2>3, <2>4, FS_AddElement
  <2>6. activeConnectionCount = Cardinality(Recorded)
    BY <1>2 DEF CountAgrees, Recorded
  <2>7. activeConnectionCount' = Cardinality(Recorded')
    BY <1>1, <2>2, <2>5, <2>6
  <2>8. QED BY <1>1, <2>4, <2>6, <2>7 DEF CountAgrees, Recorded
<1>6. TypeOK'
  BY <1>1, <1>4, <1>5 DEF TypeOK
<1>7. Control'
  BY <1>1, <1>2 DEF Control, Free
<1>8. Queues'
  BY <1>1, <1>3, <1>4 DEF Queues
<1>9. Places'
  BY <1>1, <1>3, <1>4 DEF Places
<1>10. Held'
  BY <1>1, <1>2, <1>4 DEF Held
<1>11. Heard'
  BY <1>1, <1>2, <1>4 DEF Heard, Dispatching
<1>12. QED BY <1>5, <1>6, <1>7, <1>8, <1>9, <1>10, <1>11

\* A recorded connection closes, on the loop that owns it.
LEMMA OnClose ==
  ASSUME IInv, NEW l \in Loops, NEW c \in Conns, c \in records[l], on_close(l, c),
         sock' = Closed({c}),
         UNCHANGED <<main, phase, pendingFunctors, functors, closing>>,
         \A m \in Loops : IF creating[m] = c THEN creating'[m] = None
                          ELSE creating'[m] = creating[m]
  PROVE  /\ records' \in [Loops -> SUBSET Conns] /\ sock' \in [Conns -> Sockets]
         /\ seen' \in [Conns -> Heards]
         /\ activeConnectionCount' \in Nat
         /\ CountAgrees' /\ Conn' /\ main # "returned"
<1> USE DEF IInv, Conn
<1>0. UNCHANGED <<main, phase, pendingFunctors, functors, closing>>
  OBVIOUS
<1>1. /\ records' = [records EXCEPT ![l] = @ \ {c}]
      /\ activeConnectionCount' = activeConnectionCount - 1
      /\ sock' = Closed({c})
      /\ seen' = [seen EXCEPT ![c] = "closed"]
  BY DEF on_close, remove_connection
<1>2. main # "returned"
  BY NotReturned
<1>3. Cardinality({c}) = 1
  BY FS_Singleton
<1>4. /\ records' \in [Loops -> SUBSET Conns]
      /\ records'[l] = records[l] \ {c}
      /\ \A m \in Loops : m # l => records'[m] = records[m]
      /\ activeConnectionCount' \in Nat
      /\ CountAgrees'
  <2>1. activeConnectionCount' = activeConnectionCount - Cardinality({c})
    BY <1>1, <1>3
  <2>2. QED BY <1>1, <1>2, <2>1, CountedOut
<1>5. /\ sock' \in [Conns -> Sockets]
      /\ \A d \in Conns : sock'[d] = IF d = c THEN "closed" ELSE sock[d]
  BY <1>1, ClosedIs DEF TypeOK
<1>6. /\ seen' \in [Conns -> Heards]
      /\ \A d \in Conns : d # c => seen'[d] = seen[d]
  BY <1>1 DEF TypeOK, Heards
<1>7. sock[c] = "open" /\ \A m \in Loops : c \notin records'[m] /\ c \notin closing[m]
  BY <1>4 DEF Places
<1>8. \A d \in Conns, m \in Loops : creating'[m] = d <=> creating[m] = d /\ d # c
  BY JobConn
<1>9. \A d \in Conns, m \in Loops : d # c => (d \in records'[m] <=> d \in records[m])
  BY <1>4
<1>10. Queues'
  <2>1. \A m \in IoLoops : ~At(pendingFunctors[m], c) /\ ~At(functors[m], c)
    BY <1>7 DEF Queues
  <2>2. QED BY <1>5, <1>8, <2>1 DEF Queues
<1>a. Places /\ Heard
  OBVIOUS
<1>11. Places'
  <2>1. \A m \in Loops : c \notin records'[m] /\ c \notin closing'[m] /\ creating'[m] # c
    BY <1>0, <1>7, <1>8
  <2>2. SUFFICES ASSUME NEW d \in Conns, d # c, NEW k \in Loops, NEW m \in Loops
                 PROVE  /\ creating'[k] = d /\ creating'[m] = d => k = m
                        /\ creating'[k] = d => sock'[d] \in {"socket", "built", "admitted", "open"}
                        /\ creating'[k] = d /\ sock'[d] = "open" => d \in records'[k]
                        /\ d \in records'[k] \cup closing'[k] => sock'[d] = "open"
                        /\ d \in records'[k] /\ d \in records'[m] => k = m
                        /\ d \in closing'[k] /\ d \in closing'[m] => k = m
                        /\ ~(d \in closing'[k] /\ d \in records'[m])
    BY <2>1 DEF Places
  <2>3. /\ sock'[d] = sock[d] /\ closing' = closing
        /\ creating'[k] = d <=> creating[k] = d
        /\ creating'[m] = d <=> creating[m] = d
        /\ d \in records'[k] <=> d \in records[k]
        /\ d \in records'[m] <=> d \in records[m]
    BY <1>0, <1>5, <1>8, <1>9, <2>2
  <2>4. QED BY <1>a, <2>3 DEF Places
<1>12. Held'
  BY <1>5, <1>8, <1>9 DEF Held
<1>13. Heard'
  <2>1. \A m \in Loops : Dispatching(m)' <=> Dispatching(m)
    BY <1>0 DEF Dispatching
  <2>2. \A d \in Conns \ {c} : /\ sock'[d] = sock[d] /\ seen'[d] = seen[d]
                               /\ (\E m \in Loops : creating'[m] = d) <=> \E m \in Loops : creating[m] = d
                               /\ \A m \in Loops : d \in records'[m] => d \in records[m]
    BY <1>5, <1>6, <1>8, <1>9
  <2>3. sock'[c] = "closed" /\ \A m \in Loops : c \notin records'[m] /\ c \notin closing'[m]
    BY <1>0, <1>5, <1>7
  <2> HIDE DEF IInv, Conn
  <2>4. \A d \in Conns, m \in Loops : d # c /\ d \in closing'[m] /\ Dispatching(m)' => seen'[d] = "closed"
    BY <1>0, <1>a, <2>1, <2>2 DEF Heard
  <2>5. \A d \in Conns, m \in Loops : d # c /\ d \in records'[m] => seen'[d] # "closed"
    BY <1>a, <2>2 DEF Heard
  <2>6. \A d \in Conns : d # c =>
          /\ sock'[d] \in {"backlog", "socket", "built", "admitted"} => seen'[d] = "none"
          /\ sock'[d] = "open" => IF \E m \in Loops : creating'[m] = d THEN seen'[d] = "none"
                                 ELSE seen'[d] \in {"connected", "message", "closed"}
    BY <1>a, <2>2 DEF Heard
  <2>7. QED BY <2>3, <2>4, <2>5, <2>6 DEF Heard
<1>14. QED BY <1>2, <1>4, <1>5, <1>6, <1>10, <1>11, <1>12, <1>13

LEMMA Connected ==
  ASSUME IInv, NEW l \in Loops, connected(l)
  PROVE  IInv'
<1> USE DEF IInv
<1> DEFINE c == creating[l]
<1>1. /\ c # None /\ sock[c] = "open"
      /\ creating' = [creating EXCEPT ![l] = None]
      /\ UNCHANGED <<state, main, stopper, ioLoopsIndex, unposted, joining, isQuit, phase,
                     pendingFunctors, functors, closing>>
  BY DEF connected, shutdownVars, loopVars
<1>2. c \in Conns /\ main # "returned" /\ c \in records[l]
  BY <1>1, Creating DEF Conn, Places
<1>3. /\ creating' \in [Loops -> Conns \cup {None}]
      /\ \A m \in Loops : creating'[m] = IF m = l THEN None ELSE creating[m]
  BY <1>1 DEF TypeOK
<1>4. Control'
  <2>1. \A m \in IoLoops : Free(m) => Free(m)'
    BY <1>1, <1>3, LoopRange DEF Free
  <2>2. creating[0] = None => creating'[0] = None
    BY <1>3, LoopRange
  <2>3. records' = records \/ main # "returned"
    BY <1>2
  <2>4. QED BY <1>1, <1>2, <2>1, <2>2 DEF Control
<1>5. \A m \in Loops : creating[m] = c => m = l
  BY <1>2 DEF Conn, Places
<1>6. CASE seen' = [seen EXCEPT ![c] = "connected"] /\ UNCHANGED <<records, activeConnectionCount, sock>>
  <2>1. /\ seen' \in [Conns -> Heards]
        /\ \A d \in Conns : seen'[d] = IF d = c THEN "connected" ELSE seen[d]
    BY <1>6 DEF TypeOK, Heards
  <2> HIDE DEF c
  <2>2. TypeOK' /\ CountAgrees'
    BY <1>1, <1>3, <1>6, <2>1 DEF TypeOK, CountAgrees
  <2>3. \A d \in Conns, m \in Loops : creating'[m] = d <=> creating[m] = d /\ d # c
    BY <1>3, <1>5, JobConn DEF c
  <2>4. Queues'
    BY <1>1, <1>6, <2>3 DEF Conn, Queues
  <2>5. Places'
    BY <1>1, <1>6, <2>3 DEF Conn, Places
  <2>6. Held'
    BY <1>1, <1>6, <2>3 DEF Conn, Held
  <2>7. Heard'
    <3>1. Places /\ Heard /\ UNCHANGED <<main, phase, closing, records, sock>>
      BY <1>1, <1>6 DEF Conn
    <3>2. \A m \in Loops : Dispatching(m)' <=> Dispatching(m)
      BY <3>1 DEF Dispatching
    <3>3. sock[c] = "open" /\ seen'[c] = "connected" /\ c \in records[l]
      BY <1>1, <1>2, <2>1
    <3>4. \A m \in Loops : c \notin closing[m]
      BY <1>2, <3>1, <3>3 DEF Places
    <3>5. \A d \in Conns \ {c} : /\ seen'[d] = seen[d]
                                 /\ (\E m \in Loops : creating'[m] = d) <=> \E m \in Loops : creating[m] = d
      BY <2>1, <2>3
    <3>6. ~\E m \in Loops : creating'[m] = c
      BY <1>2, <2>3
    <3>7. QED BY <3>1, <3>2, <3>3, <3>4, <3>5, <3>6 DEF Heard
  <2>8. QED BY <1>4, <2>2, <2>4, <2>5, <2>6, <2>7 DEF Conn
<1>7. CASE on_close(l, c) /\ sock' = Closed({c})
  <2>1. \A m \in Loops : IF creating[m] = c THEN creating'[m] = None ELSE creating'[m] = creating[m]
    BY <1>3, <1>5
  <2>2. /\ records' \in [Loops -> SUBSET Conns] /\ sock' \in [Conns -> Sockets]
        /\ seen' \in [Conns -> Heards]
        /\ activeConnectionCount' \in Nat
        /\ CountAgrees' /\ Conn'
    BY <1>1, <1>2, <1>7, <2>1, OnClose
  <2>3. TypeOK'
    BY <1>1, <1>3, <2>2 DEF TypeOK
  <2>4. QED BY <1>4, <2>2, <2>3
<1>8. QED BY <1>6, <1>7 DEF connected

\* A connection whose loop handles events is not one that is being created.
LEMMA NotCreated ==
  ASSUME IInv, NEW l \in Loops, NEW c \in Conns, c \in records[l], creating[l] = None
  PROVE  /\ sock[c] = "open"
         /\ \A m \in Loops : creating[m] # c
         /\ seen[c] \in {"connected", "message"}
<1>1. sock[c] = "open" /\ seen[c] # "closed"
  BY DEF IInv, Conn, Places, Heard
<1>2. ASSUME NEW m \in Loops, creating[m] = c PROVE FALSE
  <2>1. c \in records[m]
    BY <1>1, <1>2 DEF IInv, Conn, Places
  <2>2. m = l
    BY <2>1 DEF IInv, Conn, Places
  <2>3. QED BY <1>2, <2>2, JobConn
<1>3. QED BY <1>1, <1>2 DEF IInv, Conn, Heard

LEMMA PeerCloses ==
  ASSUME IInv, NEW l \in Loops, NEW c \in Conns, peer_closes(l, c)
  PROVE  IInv'
<1>1. /\ c \in records[l] /\ on_close(l, c) /\ sock' = Closed({c}) /\ creating[l] = None
      /\ UNCHANGED <<state, main, stopper, ioLoopsIndex, unposted, joining, isQuit, phase,
                     pendingFunctors, functors, creating, closing>>
  BY DEF peer_closes, HandlesEvents, Free, shutdownVars, loopVars
<1>2. \A m \in Loops : creating[m] # c
  BY <1>1, NotCreated
<1>3. /\ records' \in [Loops -> SUBSET Conns] /\ sock' \in [Conns -> Sockets]
      /\ seen' \in [Conns -> Heards]
      /\ activeConnectionCount' \in Nat
      /\ CountAgrees' /\ Conn' /\ main # "returned"
  BY <1>1, <1>2, OnClose
<1>4. TypeOK'
  BY <1>1, <1>3 DEF IInv, TypeOK
<1>5. Control'
  BY <1>1, <1>3 DEF IInv, Control, Free
<1>6. QED BY <1>3, <1>4, <1>5 DEF IInv

\* The connection leaves the table and stays in the hands of its loop.
LEMMA ErrorCloses ==
  ASSUME IInv, NEW l \in Loops, NEW c \in Conns, error_closes(l, c)
  PROVE  IInv'
<1> USE DEF IInv, Conn
<1>1. /\ c \in records[l] /\ creating[l] = None /\ closing[l] = {} /\ Dispatching(l)
      /\ records' = [records EXCEPT ![l] = @ \ {c}]
      /\ activeConnectionCount' = activeConnectionCount - 1
      /\ seen' = [seen EXCEPT ![c] = "closed"]
      /\ closing' = [closing EXCEPT ![l] = {c}]
      /\ UNCHANGED <<state, main, stopper, ioLoopsIndex, unposted, joining, isQuit, phase,
                     pendingFunctors, functors, creating, sock>>
  BY DEF error_closes, on_close, remove_connection, HandlesEvents, Free, shutdownVars, loopVars
<1>2. sock[c] = "open" /\ \A m \in Loops : creating[m] # c
  BY <1>1, NotCreated
<1>3. main # "returned"
  BY <1>1, NotReturned
<1>4. /\ records' \in [Loops -> SUBSET Conns]
      /\ records'[l] = records[l] \ {c}
      /\ \A m \in Loops : m # l => records'[m] = records[m]
      /\ activeConnectionCount' \in Nat
      /\ CountAgrees'
  <2>1. Cardinality({c}) = 1
    BY FS_Singleton
  <2>2. activeConnectionCount' = activeConnectionCount - Cardinality({c})
    BY <1>1, <2>1
  <2>3. QED BY <1>1, <1>3, <2>2, CountedOut
<1>5. /\ seen' \in [Conns -> Heards] /\ closing' \in [Loops -> SUBSET Conns]
      /\ \A d \in Conns : seen'[d] = IF d = c THEN "closed" ELSE seen[d]
      /\ \A m \in Loops : closing'[m] = IF m = l THEN {c} ELSE closing[m]
  BY <1>1 DEF TypeOK, Heards
<1>6. \A m \in Loops : c \notin records'[m] /\ c \notin closing[m]
  BY <1>1, <1>4 DEF Places
<1>7. TypeOK'
  BY <1>1, <1>4, <1>5 DEF TypeOK
<1>8. Control'
  <2>1. \A m \in IoLoops : m # l => closing'[m] = closing[m]
    BY <1>5, LoopRange
  <2>2. l # 0 => closing'[0] = closing[0]
    BY <1>5, LoopRange
  <2>3. l = 0 => main = "loop"
    BY <1>1 DEF Dispatching
  <2>4. l \in IoLoops => phase[l] = "handle"
    BY <1>1, LoopRange DEF Dispatching
  <2>5. QED BY <1>1, <1>3, <2>1, <2>2, <2>3, <2>4 DEF Control
<1>9. Queues'
  BY <1>1 DEF Queues
<1>10. \A d \in Conns, m \in Loops : d # c => (d \in records'[m] <=> d \in records[m])
  BY <1>4
<1>11. Places'
  BY <1>1, <1>2, <1>5, <1>6, <1>10 DEF Places
<1>12. Held'
  BY <1>1, <1>5, <1>10 DEF Held
<1>13. Heard'
  BY <1>1, <1>2, <1>5, <1>6, <1>10 DEF Heard, Dispatching
<1>14. QED BY <1>4, <1>7, <1>8, <1>9, <1>11, <1>12, <1>13

LEMMA ChannelReads ==
  ASSUME IInv, NEW l \in Loops, NEW c \in Conns, channel_reads(l, c)
  PROVE  /\ IInv' /\ seen[c] \in {"connected", "message"} /\ sock[c] = "open"
         /\ main # "returned"
         /\ seen' = [seen EXCEPT ![c] = "message"]
<1> USE DEF IInv, Conn
<1>1. /\ c \in records[l] /\ creating[l] = None /\ on_message(c)
      /\ UNCHANGED <<state, main, stopper, ioLoopsIndex, unposted, joining, isQuit, phase,
                     pendingFunctors, functors, records, activeConnectionCount, sock, creating,
                     closing>>
  BY DEF channel_reads, HandlesEvents, Free, shutdownVars, loopVars
<1>2. /\ sock[c] = "open" /\ seen[c] \in {"connected", "message"}
      /\ \A m \in Loops : creating[m] # c
  BY <1>1, NotCreated
<1>3. main # "returned"
  BY <1>1, NotReturned
<1>4. /\ seen' = [seen EXCEPT ![c] = "message"]
      /\ seen' \in [Conns -> Heards]
      /\ \A d \in Conns : seen'[d] = IF d = c THEN "message" ELSE seen[d]
  BY <1>1, <1>2 DEF TypeOK, on_message, Heards
<1>5. TypeOK' /\ CountAgrees' /\ Control'
  BY <1>1, <1>4 DEF TypeOK, CountAgrees, Control, Free
<1>6. Queues' /\ Places' /\ Held'
  BY <1>1 DEF Queues, Places, Held
<1>7. \A m \in Loops : c \notin closing[m]
  BY <1>1 DEF Places
<1>8. Heard'
  BY <1>1, <1>2, <1>4, <1>7 DEF Heard, Dispatching
<1>9. QED BY <1>2, <1>3, <1>4, <1>5, <1>6, <1>8

\* Closing what a loop holds outside its tables, whatever its user hears of it then.
LEMMA LetGo ==
  ASSUME IInv, NEW l \in Loops, sock' = Closed(closing[l]),
         closing' = [closing EXCEPT ![l] = {}], seen' \in [Conns -> Heards],
         \A c \in Conns : c \notin closing[l] => seen'[c] = seen[c],
         UNCHANGED <<state, main, stopper, ioLoopsIndex, unposted, joining, isQuit, phase,
                     pendingFunctors, functors, records, activeConnectionCount, creating>>
  PROVE  IInv'
<1> USE DEF IInv, Conn
<1>1. UNCHANGED <<state, main, stopper, ioLoopsIndex, unposted, joining, isQuit, phase,
                  pendingFunctors, functors, records, activeConnectionCount, creating>>
  OBVIOUS
<1>2. /\ sock' \in [Conns -> Sockets]
      /\ \A d \in Conns : sock'[d] = IF d \in closing[l] THEN "closed" ELSE sock[d]
      /\ closing' \in [Loops -> SUBSET Conns]
      /\ \A m \in Loops : closing'[m] = IF m = l THEN {} ELSE closing[m]
  BY ClosedIs DEF TypeOK
<1>3. \A d \in Conns : d \in closing[l] =>
        /\ sock[d] = "open"
        /\ \A m \in Loops : d \notin records[m] /\ creating[m] # d /\ (m # l => d \notin closing[m])
  BY DEF Places
<1>4. TypeOK' /\ CountAgrees'
  BY <1>1, <1>2 DEF TypeOK, CountAgrees
<1>5. Control'
  <2>1. \A m \in IoLoops : closing[m] = {} => closing'[m] = {}
    BY <1>2, LoopRange
  <2>2. closing[0] = {} => closing'[0] = {}
    BY <1>2, LoopRange
  <2>3. QED BY <1>1, <2>1, <2>2 DEF Control
<1>6. Queues'
  BY <1>1, <1>2, <1>3 DEF Queues
<1>7. Places'
  BY <1>1, <1>2, <1>3 DEF Places
<1>8. Held'
  BY <1>1, <1>2, <1>3 DEF Held
<1>9. Heard'
  BY <1>1, <1>2, <1>3 DEF Heard, Dispatching
<1>10. QED BY <1>4, <1>5, <1>6, <1>7, <1>8, <1>9

LEMMA CloseExtracted ==
  ASSUME IInv, NEW l \in Loops, close_extracted(l)
  PROVE  IInv'
<1>1. seen' \in [Conns -> Heards]
  BY DEF close_extracted, IInv, TypeOK
<1>2. QED BY <1>1, LetGo DEF close_extracted, shutdownVars, loopVars

LEMMA ReadAfterError ==
  ASSUME IInv, NEW l \in Loops, read_after_error(l)
  PROVE  /\ IInv' /\ main # "returned"
         /\ \A c \in Conns : seen'[c] # seen[c] =>
              sock[c] = "open" /\ seen[c] = "closed" /\ seen'[c] = "late"
<1>1. /\ Dispatching(l) /\ closing[l] # {}
      /\ UNCHANGED seen \/ \E c \in closing[l] : on_message(c)
  BY DEF read_after_error
<1>2. \A c \in closing[l] : c \in Conns /\ sock[c] = "open" /\ seen[c] = "closed"
  BY <1>1 DEF IInv, TypeOK, Conn, Places, Heard
<1>3. /\ seen' \in [Conns -> Heards]
      /\ \A c \in Conns : seen'[c] # seen[c] => c \in closing[l] /\ seen'[c] = "late"
  <2>1. CASE UNCHANGED seen
    BY <2>1 DEF IInv, TypeOK
  <2>2. ASSUME NEW c \in closing[l], on_message(c)
        PROVE  /\ seen' \in [Conns -> Heards]
               /\ \A d \in Conns : seen'[d] # seen[d] => d = c /\ seen'[d] = "late"
    BY <1>2, <2>2 DEF on_message, IInv, TypeOK, Heards
  <2>3. QED BY <1>1, <2>1, <2>2
<1>4. IInv'
  BY <1>3, LetGo DEF read_after_error, shutdownVars, loopVars
<1>5. QED BY <1>1, <1>2, <1>3, <1>4, NotReturned

\* A loop that ends drops the connections whose creation is still queued.
LEMMA CheckQuit ==
  ASSUME IInv, NEW l \in IoLoops, check_quit(l)
  PROVE  IInv'
<1> USE DEF IInv, Conn
<1>1. /\ phase[l] = "check"
      /\ UNCHANGED <<state, main, stopper, ioLoopsIndex, unposted, joining, isQuit, functors,
                     records, activeConnectionCount, seen, creating, closing>>
  BY DEF check_quit, shutdownVars
<1>2. CountAgrees' /\ Free(l) /\ functors[l] = << >>
  BY <1>1 DEF CountAgrees, Control, Free
<1>3. CASE ~isQuit[l]
  <2>1. phase' = [phase EXCEPT ![l] = "handle"] /\ UNCHANGED <<sock, pendingFunctors>>
    BY <1>3 DEF check_quit
  <2>2. UNCHANGED placeVars
    BY <1>1, <2>1 DEF placeVars
  <2>a. \A m \in Loops : Dispatching(m)' => Dispatching(m) \/ closing[m] = {}
    BY <1>1, <1>2, <2>1, LoopRange DEF Dispatching, Free, TypeOK
  <2>3. Conn'
    BY <2>2, <2>a, SamePlaces
  <2>4. TypeOK'
    BY <1>1, <2>1 DEF TypeOK
  <2>5. Control'
    BY <1>1, <1>2, <2>1 DEF TypeOK, Control, Free
  <2>6. QED BY <1>2, <2>3, <2>4, <2>5
<1>4. CASE isQuit[l]
  <2> DEFINE dropped == {pendingFunctors[l][i].conn : i \in DOMAIN pendingFunctors[l]}
  <2>1. /\ phase' = [phase EXCEPT ![l] = "gone"]
        /\ sock' = Closed(dropped)
        /\ pendingFunctors' = [pendingFunctors EXCEPT ![l] = << >>]
    BY <1>4 DEF check_quit
  <2>2. \A d : d \in dropped <=> At(pendingFunctors[l], d)
    BY DEF At
  <2> HIDE DEF dropped
  <2>3. /\ sock' \in [Conns -> Sockets]
        /\ \A d \in Conns : sock'[d] = IF At(pendingFunctors[l], d) THEN "closed" ELSE sock[d]
    BY <2>1, <2>2, ClosedIs DEF TypeOK
  <2>4. /\ \A m \in IoLoops : pendingFunctors'[m] = IF m = l THEN << >> ELSE pendingFunctors[m]
        /\ \A m \in IoLoops : phase'[m] = IF m = l THEN "gone" ELSE phase[m]
    BY <2>1 DEF TypeOK
  <2>5. TypeOK'
    <3>1. << >> \in Seq(Jobs)
      OBVIOUS
    <3>2. pendingFunctors' \in [IoLoops -> Seq(Jobs)]
      BY <2>1, <3>1 DEF TypeOK
    <3>3. QED BY <1>1, <2>1, <2>3, <3>2 DEF TypeOK
  <2>6. Control'
    BY <1>1, <1>2, <1>4, <2>4 DEF Control, Free
  <2>7. \A d \in Conns : At(pendingFunctors[l], d) =>
          /\ sock[d] = "socket"
          /\ \A m \in Loops : creating[m] # d /\ d \notin records[m] /\ d \notin closing[m]
          /\ \A m \in IoLoops : ~At(functors[m], d) /\ (m # l => ~At(pendingFunctors[m], d))
    BY DEF Queues, Places
  <2>8. Queues'
    BY <1>1, <2>3, <2>4, <2>7, AtEmpty DEF Queues
  <2>9. Places'
    BY <1>1, <2>3, <2>7 DEF Places
  <2>10. Held'
    BY <1>1, <2>3, <2>4, <2>7 DEF Held
  <2>11. Heard'
    <3>1. \A m \in Loops : Dispatching(m)' => Dispatching(m)
      BY <1>1, <2>4, LoopRange DEF Dispatching
    <3>2. QED BY <1>1, <2>3, <2>7, <3>1 DEF Heard
  <2>12. QED BY <1>2, <2>5, <2>6, <2>8, <2>9, <2>10, <2>11
<1>5. QED BY <1>3, <1>4

\* Every IO thread is gone when start() returns, so what is still open is recorded.
LEMMA FinishStart ==
  ASSUME IInv, finish_start
  PROVE  IInv'
<1> USE DEF IInv, Conn
<1>1. /\ main = "join" /\ joining = IoLoopNum + 1
      /\ main' = "returned" /\ state' = "Stopped"
      /\ sock' = Closed(Recorded)
      /\ records' = [l \in Loops |-> {}]
      /\ UNCHANGED <<stopper, ioLoopsIndex, unposted, joining, isQuit, phase, pendingFunctors,
                     functors, activeConnectionCount, seen, creating, closing>>
  BY DEF finish_start, shutdownVars, loopVars, Recorded
<1>2. \A l \in IoLoops : phase[l] = "gone" /\ Free(l)
  <2>1. \A l \in IoLoops : l < joining
    BY <1>1, ServerAssumption DEF IoLoops
  <2>2. \A l \in IoLoops : phase[l] = "gone"
    BY <2>1 DEF Control
  <2>3. QED BY <2>2 DEF Control, Free
<1>3. \A l \in Loops : creating[l] = None /\ closing[l] = {}
  <2>1. creating[0] = None /\ closing[0] = {}
    BY <1>1 DEF Control
  <2>2. QED BY <1>2, <2>1, LoopRange DEF Free
<1>4. /\ sock' \in [Conns -> Sockets]
      /\ \A d \in Conns : sock'[d] = IF \E l \in Loops : d \in records[l] THEN "closed" ELSE sock[d]
  BY <1>1, RecordedIs, ClosedIs DEF TypeOK
<1>5. /\ records' \in [Loops -> SUBSET Conns]
      /\ \A l \in Loops : records'[l] = {}
  BY <1>1
<1>6. TypeOK' /\ CountAgrees'
  BY <1>1, <1>4, <1>5 DEF TypeOK, CountAgrees
<1>7. Control'
  BY <1>1, <1>5 DEF Control, Free
<1>8. \A d \in Conns, l \in Loops : d \in records[l] => sock[d] = "open"
  BY DEF Places
<1>9. Queues'
  BY <1>1, <1>4, <1>8 DEF Queues
<1>10. Places'
  BY <1>1, <1>3, <1>5, JobConn DEF Places
<1>11. Held'
  BY <1>1, <1>3, <1>4, <1>5 DEF Held
<1>12. Heard'
  BY <1>1, <1>3, <1>4, <1>5 DEF Heard
<1>13. QED BY <1>6, <1>7, <1>9, <1>10, <1>11, <1>12

LEMMA Step == IInv /\ [Next]_vars => IInv'
<1> SUFFICES ASSUME IInv, [Next]_vars PROVE IInv'
  OBVIOUS
<1>1. CASE UNCHANGED vars
  <2>1. UNCHANGED placeVars /\ UNCHANGED main
    BY <1>1 DEF vars, placeVars, connVars, loopVars
  <2>a. \A l \in Loops : Dispatching(l)' <=> Dispatching(l)
    BY <1>1 DEF Dispatching, vars, loopVars
  <2>2. Conn' /\ CountAgrees'
    BY <2>1, <2>a, SamePlaces
  <2>3. TypeOK' /\ Control'
    BY <1>1 DEF IInv, TypeOK, Control, Free, vars, shutdownVars, loopVars, connVars
  <2>4. QED BY <2>2, <2>3 DEF IInv
<1>2. CASE MainRuns
  BY <1>2, MainMoves, FinishStart, PostCleanup DEF MainRuns
<1>3. CASE \E c \in Conns : on_connect(c)
  BY <1>3, OnConnect
<1>4. CASE \E s \in Stoppers : stop(s) \/ StopRuns(s)
  BY <1>4, StopMoves
<1>5. CASE \E l \in IoLoops : IoRuns(l)
  BY <1>5, CheckQuit, SwapFunctors, BeginCreate, RunCleanup, EndFunctors DEF IoRuns
<1>6. CASE \E l \in Loops : Completes(l)
  BY <1>6, CheckRunning, Register, Connected, CloseExtracted, ReadAfterError DEF Completes
<1>7. CASE \E l \in Loops, c \in Conns : channel_reads(l, c) \/ peer_closes(l, c) \/ error_closes(l, c)
  BY <1>7, ChannelReads, PeerCloses, ErrorCloses
<1>8. QED BY <1>1, <1>2, <1>3, <1>4, <1>5, <1>6, <1>7 DEF Next

LEMMA Always == Spec => []IInv
BY InitInv, Step, PTL DEF Spec

-----------------------------------------------------------------------------
\* For any connections, callers of stop() and number of IO loops: the types, and the
\* atomic count is the number of recorded connections.
THEOREM CountsRecords == Spec => []Inv
<1>1. IInv => Inv
  BY DEF IInv, Inv
<1>2. QED BY Always, <1>1, PTL

\* When start() has returned, every accepted socket is closed and every IO thread gone.
THEOREM LeavesNothing == Spec => []NothingRunsAfterReturn
<1>1. ASSUME IInv, main = "returned"
      PROVE  /\ \A c \in Conns : sock[c] \in {"backlog", "closed"}
             /\ \A l \in IoLoops : phase[l] = "gone"
  <2>1. joining = IoLoopNum + 1 /\ \A l \in Loops : records[l] = {} /\ creating[l] = None /\ closing[l] = {}
    BY <1>1, NotReturned DEF IInv, Control
  <2>2. \A l \in IoLoops : phase[l] = "gone"
    <3>1. \A l \in IoLoops : l < joining
      BY <2>1, ServerAssumption DEF IoLoops
    <3>2. QED BY <1>1, <3>1 DEF IInv, Control
  <2>3. \A l \in IoLoops : pendingFunctors[l] = << >> /\ functors[l] = << >>
    BY <1>1, <2>2 DEF IInv, Control
  <2>4. \A c \in Conns : sock[c] \notin {"socket", "built", "admitted", "open"}
    BY <1>1, <2>1, <2>3, AtEmpty, JobConn DEF IInv, Conn, Held
  <2>5. QED BY <1>1, <2>2, <2>4 DEF IInv, TypeOK, Sockets
<1>2. IInv => NothingRunsAfterReturn
  BY <1>1 DEF NothingRunsAfterReturn
<1>3. QED BY Always, <1>2, PTL

LEMMA Ranks ==
  /\ Rank("none") = 1 /\ Rank("connected") = 2 /\ Rank("message") = 3
  /\ Rank("closed") = 4 /\ Rank("late") = 5
<1> DEFINE names == <<"none", "connected", "message", "closed", "late">>
<1>1. /\ \A i \in 1 .. 5 : names[i] = "none" <=> i = 1
      /\ \A i \in 1 .. 5 : names[i] = "connected" <=> i = 2
      /\ \A i \in 1 .. 5 : names[i] = "message" <=> i = 3
      /\ \A i \in 1 .. 5 : names[i] = "closed" <=> i = 4
      /\ \A i \in 1 .. 5 : names[i] = "late" <=> i = 5
  <2>1. /\ names[1] = "none" /\ names[2] = "connected" /\ names[3] = "message"
        /\ names[4] = "closed" /\ names[5] = "late"
    OBVIOUS
  <2>2. \A i \in 1 .. 5 : i = 1 \/ i = 2 \/ i = 3 \/ i = 4 \/ i = 5
    OBVIOUS
  <2> HIDE DEF names
  <2>3. QED BY <2>1, <2>2
<1>2. 1 \in 1 .. 5 /\ 2 \in 1 .. 5 /\ 3 \in 1 .. 5 /\ 4 \in 1 .. 5 /\ 5 \in 1 .. 5
  OBVIOUS
<1>3. \A callback : Rank(callback) = CHOOSE i \in 1 .. 5 : names[i] = callback
  BY DEF Rank
<1> HIDE DEF names
<1>4. QED BY <1>1, <1>2, <1>3

\* Only the loop that owns a connection calls back, while the connection's socket is open
\* and start() has not returned.
LEMMA CallsBack ==
  ASSUME IInv, NEW l \in Loops, NEW c \in Conns, c \in records[l]
  PROVE  /\ sock[c] = "open" /\ main # "returned"
         /\ seen[c] \in {"none", "connected", "message"}
BY NotReturned DEF IInv, Conn, Places, Heard

\* The callbacks of one connection come as connected, messages, closed, with at most the
\* message of the closing report behind: the order rests on its being created once and
\* held by one loop at a time, which turns to no other event before it lets go.
THEOREM CallbacksInOrder == Spec => CallbackOrder
<1> DEFINE Ordered(c) == seen'[c] # seen[c] =>
             /\ Rank(seen[c]) < Rank(seen'[c])
             /\ seen'[c] = "message" => seen[c] = "connected"
             /\ seen'[c] = "late" => seen[c] = "closed"
             /\ sock[c] = "open" /\ main # "returned"
<1>1. ASSUME IInv, [Next]_vars, NEW c \in Conns PROVE Ordered(c)
  <2>1. CASE UNCHANGED seen
    BY <2>1
  <2>2. ASSUME NEW l \in Loops, connected(l) PROVE Ordered(c)
    <3> DEFINE d == creating[l]
    <3>1. d # None /\ sock[d] = "open"
      BY <2>2 DEF connected
    <3>2. d \in Conns /\ main # "returned"
      BY <1>1, <3>1, Creating
    <3>3. seen[d] = "none"
      BY <1>1, <3>1, <3>2 DEF IInv, Conn, Heard
    <3>4. \E v \in {"connected", "closed"} : seen' = [seen EXCEPT ![d] = v]
      BY <2>2 DEF connected, on_close
    <3> HIDE DEF d
    <3>5. c # d => seen'[c] = seen[c]
      BY <1>1, <3>4 DEF IInv, TypeOK
    <3>6. seen'[d] \in {"connected", "closed"}
      BY <1>1, <3>2, <3>4 DEF IInv, TypeOK
    <3>7. QED BY <3>1, <3>2, <3>3, <3>5, <3>6, Ranks
  <2>3. ASSUME NEW l \in Loops, NEW d \in Conns, channel_reads(l, d) PROVE Ordered(c)
    <3>1. /\ seen[d] \in {"connected", "message"} /\ sock[d] = "open" /\ main # "returned"
          /\ seen' = [seen EXCEPT ![d] = "message"]
      BY <1>1, <2>3, ChannelReads
    <3>2. c # d => seen'[c] = seen[c]
      BY <1>1, <3>1 DEF IInv, TypeOK
    <3>3. seen'[d] = "message"
      BY <1>1, <3>1 DEF IInv, TypeOK
    <3>4. QED BY <3>1, <3>2, <3>3, Ranks
  <2>4. ASSUME NEW l \in Loops, NEW d \in Conns, peer_closes(l, d) \/ error_closes(l, d)
        PROVE  Ordered(c)
    <3>1. d \in records[l]
      BY <2>4 DEF peer_closes, error_closes
    <3>2. /\ sock[d] = "open" /\ main # "returned"
          /\ seen[d] \in {"none", "connected", "message"}
      BY <1>1, <3>1, CallsBack
    <3>3. seen' = [seen EXCEPT ![d] = "closed"]
      BY <2>4 DEF peer_closes, error_closes, on_close
    <3>4. c # d => seen'[c] = seen[c]
      BY <1>1, <3>3 DEF IInv, TypeOK
    <3>5. seen'[d] = "closed"
      BY <1>1, <3>3 DEF IInv, TypeOK
    <3>6. QED BY <3>2, <3>4, <3>5, Ranks
  <2>5. ASSUME NEW l \in Loops, read_after_error(l) PROVE Ordered(c)
    BY <1>1, <2>5, ReadAfterError, Ranks
  <2>6. QED
    <3>1. CASE MainRuns
      BY <2>1, <3>1 DEF MainRuns, start, enter_main_loop, leave_main_loop, posted_all, wait_for_zero,
         quit_io_loop, join_io_thread, finish_start, post_cleanup, connVars
    <3>2. CASE \E s \in Stoppers : stop(s) \/ StopRuns(s)
      BY <2>1, <3>2 DEF stop, StopRuns, quit_main_loop, wakeup_main_loop, connVars
    <3>3. CASE \E l \in IoLoops : IoRuns(l)
      BY <2>1, <3>3 DEF IoRuns, check_quit, swap_functors, begin_create, run_cleanup, end_functors, connVars
    <3>4. CASE \E l \in Loops : Completes(l)
      BY <2>1, <2>2, <2>5, <3>4 DEF Completes, check_running, register, close_extracted
    <3>5. CASE \E d \in Conns : on_connect(d)
      BY <2>1, <3>5 DEF on_connect
    <3>6. CASE UNCHANGED vars
      BY <2>1, <3>6 DEF vars, connVars
    <3>7. QED BY <1>1, <2>3, <2>4, <3>1, <3>2, <3>3, <3>4, <3>5, <3>6 DEF Next
<1>2. IInv /\ [Next]_vars =>
        [\A c \in Conns : seen'[c] # seen[c] =>
           /\ Rank(seen[c]) < Rank(seen'[c])
           /\ seen'[c] = "message" => seen[c] = "connected"
           /\ seen'[c] = "late" => seen[c] = "closed"
           /\ sock[c] = "open" /\ main # "returned"]_vars
  BY <1>1
<1>3. QED BY Always, <1>2, PTL DEF Spec, CallbackOrder
=============================================================================
