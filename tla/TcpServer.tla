------------------------------ MODULE TcpServer ------------------------------
(***************************************************************************)
(* tcp/TcpServer over its EventLoopThreadPool: start() runs the main loop  *)
(* on its caller's thread, hands each accepted socket to an IO loop, and   *)
(* after stop() drains the connections, joins the IO threads and returns.  *)
(*                                                                         *)
(* Loop 0 is the main loop, 1 .. IoLoopNum are the IO loops; without IO    *)
(* loops the main loop owns the connections too.  A loop is what           *)
(* EventLoop.tla shows of it: it handles events, runs one swapped batch of *)
(* functors, reads its quit flag, and drops what is queued when it ends.   *)
(*                                                                         *)
(* A connection is its socket and the callbacks its user has seen.  The    *)
(* peer, or a force_close, closes it at any time its loop handles events.  *)
(* An error may be reported together with data: the connection is closed   *)
(* and then read once more, while its Channel keeps it alive.  Conns       *)
(* bounds the connections ever accepted.                                   *)
(***************************************************************************)
EXTENDS Naturals, Sequences, FiniteSets, FiniteSetsExt

CONSTANTS Conns,           \* connections peers may open
          Stoppers,        \* threads that may call stop()
          IoLoopNum,       \* ioLoopNum_
          None             \* no connection

ASSUME ServerAssumption == IoLoopNum \in Nat /\ None \notin Conns /\ IsFiniteSet(Conns)

VARIABLES
  state,                   \* state_
  main,                    \* where the thread inside start() is
  stopper,                 \* where each caller of stop() is
  ioLoopsIndex,            \* the IO loop the next connection goes to
  records,                 \* connectionRecordsByLoop_
  activeConnectionCount,
  unposted,                \* loops shutdown_connections has not visited
  joining,                 \* the IO thread ~EventLoopThread works on
  isQuit,                  \* EventLoop::isQuit_ of each loop
  phase,                   \* where each IO loop is in its iteration
  pendingFunctors,         \* functors queued on each IO loop
  functors,                \* the batch each IO loop is running
  creating,                \* the connection each loop is creating, or None
  closing,                 \* connections out of the tables that each loop still holds:
                           \* extracted by the cleanup functor, or closed by an error
                           \* and about to be read
  sock,                    \* where each connection's socket is
  seen                     \* the last callback the user got for each connection

shutdownVars == <<unposted, joining>>
loopVars     == <<isQuit, phase, pendingFunctors, functors>>
connVars     == <<records, activeConnectionCount, sock, seen>>
vars == <<state, main, stopper, ioLoopsIndex, shutdownVars, loopVars, connVars,
          creating, closing>>

Loops   == 0 .. IoLoopNum
IoLoops == 1 .. IoLoopNum

\* "backlog": not accepted; "socket": owned by the functor; "built": in a
\* TcpConnection; "admitted": past the last check of state_; "open": recorded.
Sockets == {"backlog", "socket", "built", "admitted", "open", "closed"}

\* "late": a message after the close callback.
Heards == {"none", "connected", "message", "closed", "late"}

Jobs == [op : {"create"}, conn : Conns] \cup [op : {"cleanup"}, conn : {None}]

TypeOK ==
  /\ state \in {"Created", "Running", "Draining", "Stopped"}
  /\ main \in {"idle", "listen", "loop", "post", "wait", "asleep", "join", "returned"}
  /\ stopper \in [Stoppers -> {"idle", "won", "wakeup", "done"}]
  /\ ioLoopsIndex \in Loops
  /\ records \in [Loops -> SUBSET Conns]
  /\ activeConnectionCount \in Nat
  /\ unposted \subseteq Loops
  /\ joining \in 1 .. IoLoopNum + 1
  /\ isQuit \in [Loops -> BOOLEAN]
  /\ phase \in [IoLoops -> {"check", "handle", "run", "gone"}]
  /\ pendingFunctors \in [IoLoops -> Seq(Jobs)]
  /\ functors \in [IoLoops -> Seq(Jobs)]
  /\ creating \in [Loops -> Conns \cup {None}]
  /\ closing \in [Loops -> SUBSET Conns]
  /\ sock \in [Conns -> Sockets]
  /\ seen \in [Conns -> Heards]

Init ==
  /\ state = "Created"
  /\ main = "idle"
  /\ stopper = [s \in Stoppers |-> "idle"]
  /\ ioLoopsIndex = IF IoLoopNum = 0 THEN 0 ELSE 1
  /\ records = [l \in Loops |-> {}]
  /\ activeConnectionCount = 0
  /\ unposted = {} /\ joining = 1
  /\ isQuit = [l \in Loops |-> FALSE]
  /\ phase = [l \in IoLoops |-> "check"]
  /\ pendingFunctors = [l \in IoLoops |-> << >>]
  /\ functors = [l \in IoLoops |-> << >>]
  /\ creating = [l \in Loops |-> None]
  /\ closing = [l \in Loops |-> {}]
  /\ sock = [c \in Conns |-> "backlog"]
  /\ seen = [c \in Conns |-> "none"]
-----------------------------------------------------------------------------
(* Helpers.                                                                *)

\* Not inside create_connection nor the cleanup functor nor a report.
Free(l) == creating[l] = None /\ closing[l] = {}

\* Loop l is dispatching the events of its channels; it may turn to the next.
Dispatching(l) == IF l = 0 THEN main = "loop" ELSE phase[l] = "handle"
HandlesEvents(l) == Free(l) /\ Dispatching(l)

push(l, job) == pendingFunctors' = [pendingFunctors EXCEPT ![l] = Append(@, job)]

Closed(set) == [c \in Conns |-> IF c \in set THEN "closed" ELSE sock[c]]

\* remove_connection: erase the record, count it out; nobody is notified.
remove_connection(l, c) ==
  /\ records' = [records EXCEPT ![l] = @ \ {c}]
  /\ activeConnectionCount' = activeConnectionCount - 1

\* Mutant of on_close: the record outlives the connection.
on_close_kept(l, c) ==
  /\ UNCHANGED <<records, activeConnectionCount>>
  /\ seen' = [seen EXCEPT ![c] = "closed"]

\* TcpServer::on_close: the record goes before the user hears of it.
on_close(l, c) ==
  /\ remove_connection(l, c)
  /\ seen' = [seen EXCEPT ![c] = "closed"]

\* TcpServer::on_message: the user hears of it, recorded or not.
on_message(c) == seen' = [seen EXCEPT ![c] = IF @ = "closed" THEN "late" ELSE "message"]

\* Mutant of extract_records: the records are taken and not counted out.
extract_uncounted(l) ==
  /\ closing' = [closing EXCEPT ![l] = records[l]]
  /\ records' = [records EXCEPT ![l] = {}]
  /\ UNCHANGED activeConnectionCount

\* The locked part of the cleanup functor, and its notify_one.
extract_records(l) ==
  /\ closing' = [closing EXCEPT ![l] = records[l]]
  /\ records' = [records EXCEPT ![l] = {}]
  /\ activeConnectionCount' = activeConnectionCount - Cardinality(records[l])
-----------------------------------------------------------------------------
(* start(), on its caller's thread.                                        *)

\* The pool is running; connections may be created as soon as this is seen.
start ==
  /\ main = "idle"
  /\ main' = "listen"
  /\ state' = "Running"
  /\ UNCHANGED <<stopper, ioLoopsIndex, shutdownVars, loopVars, connVars, creating,
                 closing>>

\* The acceptor is listening and mainLoop.loop() is entered.
enter_main_loop ==
  /\ main = "listen"
  /\ main' = "loop"
  /\ UNCHANGED <<state, stopper, ioLoopsIndex, shutdownVars, loopVars, connVars,
                 creating, closing>>

\* A round robin of the IO loops.
get_next_loop == ioLoopsIndex' = (ioLoopsIndex % IoLoopNum) + 1

\* TcpServer::on_connect.
on_connect(c) ==
  /\ HandlesEvents(0)
  /\ sock[c] = "backlog"
  /\ IF state # "Running"
     THEN /\ sock' = Closed({c})
          /\ UNCHANGED <<ioLoopsIndex, pendingFunctors, creating>>
     ELSE /\ sock' = [sock EXCEPT ![c] = "socket"]
          /\ IF IoLoopNum = 0
             THEN /\ creating' = [creating EXCEPT ![0] = c]
                  /\ UNCHANGED <<ioLoopsIndex, pendingFunctors>>
             ELSE /\ push(ioLoopsIndex, [op |-> "create", conn |-> c])
                  /\ get_next_loop
                  /\ UNCHANGED creating
  /\ UNCHANGED <<state, main, stopper, shutdownVars, isQuit, phase, functors,
                 records, activeConnectionCount, seen, closing>>

\* loop() returns and shutdown_connections begins.
leave_main_loop ==
  /\ main = "loop" /\ Free(0)
  /\ isQuit[0]
  /\ main' = "post"
  /\ state' = "Draining"
  /\ unposted' = Loops
  /\ UNCHANGED <<stopper, ioLoopsIndex, joining, loopVars, connVars, creating, closing>>

\* run_in_loop of the cleanup functor: at once for the main loop, queued for
\* an IO loop.  The loops are visited in the order of a hash table.
post_cleanup(l) ==
  /\ main = "post" /\ Free(0)
  /\ l \in unposted
  /\ unposted' = unposted \ {l}
  /\ \/ /\ l = 0
        /\ extract_records(0)
        /\ UNCHANGED pendingFunctors
     \/ /\ l # 0
        /\ push(l, [op |-> "cleanup", conn |-> None])
        /\ UNCHANGED <<closing, records, activeConnectionCount>>
  /\ UNCHANGED <<state, main, stopper, ioLoopsIndex, joining, isQuit, phase, functors,
                 sock, seen, creating>>

posted_all ==
  /\ main = "post" /\ Free(0) /\ unposted = {}
  /\ main' = "wait"
  /\ UNCHANGED <<state, stopper, ioLoopsIndex, shutdownVars, loopVars, connVars,
                 creating, closing>>

\* shutdownCondition_.wait under shutdownMutex_: test the count, or sleep.
wait_for_zero ==
  /\ main = "wait"
  /\ main' = IF activeConnectionCount = 0 THEN "join" ELSE "asleep"
  /\ UNCHANGED <<state, stopper, ioLoopsIndex, shutdownVars, loopVars, connVars,
                 creating, closing>>

\* loopThreadPool_.reset(): ~EventLoopThread of each IO thread in turn quits
\* its loop and joins it.
quit_io_loop ==
  /\ main = "join" /\ joining \in IoLoops
  /\ ~isQuit[joining]
  /\ isQuit' = [isQuit EXCEPT ![joining] = TRUE]
  /\ UNCHANGED <<state, main, stopper, ioLoopsIndex, shutdownVars, phase,
                 pendingFunctors, functors, connVars, creating, closing>>

\* Mutant of Exited: the thread is detached instead of joined.
Exited_detached(l) == isQuit[l]

\* What join() waits for.
Exited(l) == phase[l] = "gone"

join_io_thread ==
  /\ main = "join" /\ joining \in IoLoops
  /\ isQuit[joining] /\ Exited(joining)
  /\ joining' = joining + 1
  /\ UNCHANGED <<state, main, stopper, ioLoopsIndex, unposted, loopVars, connVars,
                 creating, closing>>

\* The main loop is destroyed, the record tables are cleared, start() returns.
finish_start ==
  /\ main = "join" /\ joining = IoLoopNum + 1
  /\ main' = "returned"
  /\ state' = "Stopped"
  /\ sock' = Closed(UNION {records[l] : l \in Loops})
  /\ records' = [l \in Loops |-> {}]
  /\ UNCHANGED <<stopper, ioLoopsIndex, shutdownVars, loopVars, activeConnectionCount,
                 seen, creating, closing>>
-----------------------------------------------------------------------------
(* stop(), on any thread: a compare-and-swap of state_, then               *)
(* EventLoop::quit of the main loop, which sets a flag and writes its      *)
(* eventfd.                                                                *)

stop(s) ==
  /\ stopper[s] = "idle"
  /\ IF state = "Running"
     THEN state' = "Draining" /\ stopper' = [stopper EXCEPT ![s] = "won"]
     ELSE stopper' = [stopper EXCEPT ![s] = "done"] /\ UNCHANGED state
  /\ UNCHANGED <<main, ioLoopsIndex, shutdownVars, loopVars, connVars, creating, closing>>

quit_main_loop(s) ==
  /\ stopper[s] = "won"
  /\ isQuit' = [isQuit EXCEPT ![0] = TRUE]
  /\ stopper' = [stopper EXCEPT ![s] = "wakeup"]
  /\ UNCHANGED <<state, main, ioLoopsIndex, shutdownVars, phase, pendingFunctors,
                 functors, connVars, creating, closing>>

wakeup_main_loop(s) ==
  /\ stopper[s] = "wakeup"
  /\ stopper' = [stopper EXCEPT ![s] = "done"]
  /\ UNCHANGED <<state, main, ioLoopsIndex, shutdownVars, loopVars, connVars, creating,
                 closing>>
-----------------------------------------------------------------------------
(* The loops.                                                              *)

check_quit(l) ==
  /\ phase[l] = "check" /\ main # "idle"
  /\ IF isQuit[l]
     THEN /\ phase' = [phase EXCEPT ![l] = "gone"]
          /\ LET dropped == {pendingFunctors[l][i].conn : i \in DOMAIN pendingFunctors[l]}
             IN  sock' = Closed(dropped)
          /\ pendingFunctors' = [pendingFunctors EXCEPT ![l] = << >>]
     ELSE /\ phase' = [phase EXCEPT ![l] = "handle"]
          /\ UNCHANGED <<sock, pendingFunctors>>
  /\ UNCHANGED <<state, main, stopper, ioLoopsIndex, shutdownVars, isQuit, functors,
                 records, activeConnectionCount, seen, creating, closing>>

\* A channel of l reports data.
channel_reads(l, c) ==
  /\ HandlesEvents(l) /\ c \in records[l]
  /\ on_message(c)
  /\ UNCHANGED <<state, main, stopper, ioLoopsIndex, shutdownVars, loopVars, records,
                 activeConnectionCount, sock, creating, closing>>

\* A channel of l closes its connection, by the last event of its report.
peer_closes(l, c) ==
  /\ HandlesEvents(l) /\ c \in records[l]
  /\ on_close(l, c)
  /\ sock' = Closed({c})
  /\ UNCHANGED <<state, main, stopper, ioLoopsIndex, shutdownVars, loopVars, creating,
                 closing>>

\* EPOLLERR with EPOLLIN: the error closes the connection, and the tie of the
\* Channel keeps it alive for the read.
error_closes(l, c) ==
  /\ HandlesEvents(l) /\ c \in records[l]
  /\ on_close(l, c)
  /\ closing' = [closing EXCEPT ![l] = {c}]
  /\ UNCHANGED <<state, main, stopper, ioLoopsIndex, shutdownVars, loopVars, sock,
                 creating>>

\* The EPOLLIN of that report: data is a message, the end or an error nothing
\* more.  Then the connection is gone.
read_after_error(l) ==
  /\ Dispatching(l) /\ closing[l] # {}
  /\ \/ \E c \in closing[l] : on_message(c)
     \/ UNCHANGED seen
  /\ sock' = Closed(closing[l])
  /\ closing' = [closing EXCEPT ![l] = {}]
  /\ UNCHANGED <<state, main, stopper, ioLoopsIndex, shutdownVars, loopVars, records,
                 activeConnectionCount, creating>>

swap_functors(l) ==
  /\ phase[l] = "handle" /\ Free(l)
  /\ phase' = [phase EXCEPT ![l] = "run"]
  /\ functors' = [functors EXCEPT ![l] = pendingFunctors[l]]
  /\ pendingFunctors' = [pendingFunctors EXCEPT ![l] = << >>]
  /\ UNCHANGED <<state, main, stopper, ioLoopsIndex, shutdownVars, isQuit, connVars,
                 creating, closing>>

begin_create(l) ==
  /\ phase[l] = "run" /\ Free(l) /\ functors[l] # << >>
  /\ Head(functors[l]).op = "create"
  /\ creating' = [creating EXCEPT ![l] = Head(functors[l]).conn]
  /\ functors' = [functors EXCEPT ![l] = Tail(@)]
  /\ UNCHANGED <<state, main, stopper, ioLoopsIndex, shutdownVars, isQuit, phase,
                 pendingFunctors, connVars, closing>>

\* create_connection reads state_ twice: before it builds the TcpConnection
\* and before it records it.  Giving up closes the socket.
check_running(l) ==
  /\ creating[l] # None
  /\ LET c == creating[l]
     IN  /\ sock[c] \in {"socket", "built"}
         /\ IF state = "Running"
            THEN /\ sock' = [sock EXCEPT ![c] = IF @ = "socket" THEN "built" ELSE "admitted"]
                 /\ UNCHANGED creating
            ELSE /\ sock' = Closed({c})
                 /\ creating' = [creating EXCEPT ![l] = None]
  /\ UNCHANGED <<state, main, stopper, ioLoopsIndex, shutdownVars, loopVars, records,
                 activeConnectionCount, seen, closing>>

register(l) ==
  /\ creating[l] # None
  /\ LET c == creating[l]
     IN  /\ sock[c] = "admitted"
         /\ sock' = [sock EXCEPT ![c] = "open"]
         /\ records' = [records EXCEPT ![l] = @ \cup {c}]
  /\ activeConnectionCount' = activeConnectionCount + 1
  /\ UNCHANGED <<state, main, stopper, ioLoopsIndex, shutdownVars, loopVars, seen,
                 creating, closing>>

\* connectionCallback_, which may close the connection before it returns.
connected(l) ==
  /\ creating[l] # None
  /\ LET c == creating[l]
     IN  /\ sock[c] = "open"
         /\ \/ /\ seen' = [seen EXCEPT ![c] = "connected"]
               /\ UNCHANGED <<records, activeConnectionCount, sock>>
            \/ on_close(l, c) /\ sock' = Closed({c})
  /\ creating' = [creating EXCEPT ![l] = None]
  /\ UNCHANGED <<state, main, stopper, ioLoopsIndex, shutdownVars, loopVars, closing>>

\* Mutant of run_cleanup: notify_one is missing.
run_cleanup_silent(l) ==
  /\ phase[l] = "run" /\ Free(l) /\ functors[l] # << >>
  /\ Head(functors[l]).op = "cleanup"
  /\ functors' = [functors EXCEPT ![l] = Tail(@)]
  /\ extract_records(l)
  /\ UNCHANGED <<state, main, stopper, ioLoopsIndex, shutdownVars, isQuit, phase,
                 pendingFunctors, sock, seen, creating>>

\* The cleanup functor up to notify_one.
run_cleanup(l) ==
  /\ phase[l] = "run" /\ Free(l) /\ functors[l] # << >>
  /\ Head(functors[l]).op = "cleanup"
  /\ functors' = [functors EXCEPT ![l] = Tail(@)]
  /\ extract_records(l)
  /\ main' = IF main = "asleep" THEN "wait" ELSE main
  /\ UNCHANGED <<state, stopper, ioLoopsIndex, shutdownVars, isQuit, phase,
                 pendingFunctors, sock, seen, creating>>

\* The rest of it: callbacks are cleared before force_close.
close_extracted(l) ==
  /\ ~Dispatching(l) /\ closing[l] # {}
  /\ sock' = Closed(closing[l])
  /\ closing' = [closing EXCEPT ![l] = {}]
  /\ UNCHANGED <<state, main, stopper, ioLoopsIndex, shutdownVars, loopVars, records,
                 activeConnectionCount, seen, creating>>

end_functors(l) ==
  /\ phase[l] = "run" /\ Free(l) /\ functors[l] = << >>
  /\ phase' = [phase EXCEPT ![l] = "check"]
  /\ UNCHANGED <<state, main, stopper, ioLoopsIndex, shutdownVars, isQuit,
                 pendingFunctors, functors, connVars, creating, closing>>
-----------------------------------------------------------------------------
MainRuns == start \/ enter_main_loop \/ leave_main_loop \/ posted_all \/ wait_for_zero
              \/ quit_io_loop \/ join_io_thread \/ finish_start
              \/ \E l \in Loops : post_cleanup(l)

StopRuns(s) == quit_main_loop(s) \/ wakeup_main_loop(s)

\* What a loop does with the connections in its hands.
Completes(l) == check_running(l) \/ register(l) \/ connected(l) \/ close_extracted(l)
                  \/ read_after_error(l)

IoRuns(l) == check_quit(l) \/ swap_functors(l) \/ begin_create(l) \/ run_cleanup(l)
               \/ end_functors(l)

Next ==
  \/ MainRuns
  \/ \E c \in Conns : on_connect(c)
  \/ \E s \in Stoppers : stop(s) \/ StopRuns(s)
  \/ \E l \in IoLoops : IoRuns(l)
  \/ \E l \in Loops : Completes(l)
  \/ \E l \in Loops, c \in Conns : channel_reads(l, c) \/ peer_closes(l, c) \/ error_closes(l, c)

\* Threads that can run are scheduled; a main loop asked to quit is woken
\* (EventLoop's QuitStops).  Nothing obliges a peer to connect or to close,
\* nor anyone to call stop().
Spec ==
  /\ Init /\ [][Next]_vars
  /\ WF_vars(MainRuns)
  /\ \A s \in Stoppers : WF_vars(StopRuns(s))
  /\ \A l \in IoLoops : WF_vars(IoRuns(l))
  /\ \A l \in Loops : WF_vars(Completes(l))
-----------------------------------------------------------------------------
(* Properties.                                                             *)

\* The atomic count is the number of connections in the per-loop tables, so
\* the wait of shutdown_connections is a wait for the tables to empty.
CountAgrees ==
  main # "returned" =>
    activeConnectionCount = Cardinality(UNION {records[l] : l \in Loops})
Inv == TypeOK /\ CountAgrees

Rank(callback) ==
  CHOOSE i \in 1 .. 5 :
    <<"none", "connected", "message", "closed", "late">>[i] = callback

\* Of one connection the user hears in this order: the connection callback,
\* messages, the close callback once, and behind it at most the message read
\* from the report whose error closed it, whatever loop created it and whoever
\* closed it (a close inside the connection callback included).  All of it is
\* heard while the socket is open and before start() returns.
CallbackOrder ==
  [][\A c \in Conns : seen'[c] # seen[c] =>
       /\ Rank(seen[c]) < Rank(seen'[c])
       /\ seen'[c] = "message" => seen[c] = "connected"
       /\ seen'[c] = "late" => seen[c] = "closed"
       /\ sock[c] = "open" /\ main # "returned"]_vars

\* When start() has returned, every accepted socket is closed and no IO thread
\* is left to call back or to touch the server.
NothingRunsAfterReturn ==
  main = "returned" =>
    /\ \A c \in Conns : sock[c] \in {"backlog", "closed"}
    /\ \A l \in IoLoops : phase[l] = "gone"

\* A stop() that took effect makes start() return.
StopCompletes == state = "Draining" ~> state = "Stopped"

\* The documentation says stop() waits until every live connection has been
\* cleaned up: past the wait no connection is recorded.
WaitDrains ==
  main \in {"join", "returned"} =>
    activeConnectionCount = 0 /\ \A l \in Loops : records[l] = {}
=============================================================================
