--------------------------- MODULE BinaryRpcChannel ---------------------------
(***************************************************************************)
(* rpc/binary/BinaryRpcChannel: many calls share one connection and are    *)
(* told apart by their sequence id.  The first constructor starts a        *)
(* receiving thread and its calls block in a future; the second belongs to *)
(* an EventLoop and its calls are coroutines of that loop, which yield and *)
(* are resumed inline by run_in_loop.                                      *)
(*                                                                         *)
(* A call is its sequence id.  A request is FrameSize units on the wire,   *)
(* an answer the id it carries.  The server answers in any order, and may  *)
(* answer twice, send what cannot be decoded, or close.  As in the tests,  *)
(* coroutines live on the channel's own loop, calls of threads go to a     *)
(* channel of the first kind, and the destructor runs while every call in  *)
(* progress waits for its answer.                                          *)
(***************************************************************************)
EXTENDS Naturals, Sequences

CONSTANTS Calls,           \* sequence ids
          FrameSize,       \* units of a request
          MaxIncoming,     \* bound: answers on their way at once
          Garbage,         \* bytes that are no frame
          None             \* no call

ASSUME ChannelAssumption ==
  /\ FrameSize \in Nat \ {0} /\ MaxIncoming \in Nat
  /\ Garbage \notin Calls /\ None \notin Calls

VARIABLES
  mode,                    \* which constructor: "threads" or "loop"
  running,                 \* running_
  pendingRequests,         \* the ids in pendingRequests_
  results,                 \* what each call's promise was set to, in order: the id
                           \* of the answer, or None for an exception
  call,                    \* where each call is
  wire,                    \* history: units the kernel took
  incoming,                \* answers sent and not yet decoded, oldest first
  sock,                    \* the connection as this side may see it
  dtor,                    \* where the destructor is
  totalSent,               \* units of its request each caller has written
  sender,                  \* the call that holds sendMutex_, or None
  receiver,                \* where the receiving thread is; "none" in loop mode
  held,                    \* the context it took out of pendingRequests_, or None
  respHeader,              \* the id of the answer it took it out for, or None
  events, revents,         \* interest and report of channel_
  writeBuffer,             \* writeBuffer_, in units
  at,                      \* where the loop thread is inside the channel
  coroutine                \* a resumed coroutine has control

callVars   == <<pendingRequests, results, call>>
netVars    == <<wire, incoming, sock>>
receiverVars == <<receiver, held, respHeader>>
sendVars   == <<totalSent, sender>>
threadVars == <<sendVars, receiverVars>>
loopVars   == <<events, revents, writeBuffer, at, coroutine>>
vars == <<mode, running, callVars, netVars, dtor, threadVars, loopVars>>

Units == Calls \X (1 .. FrameSize)

CallStates == {"none", "registered", "writing", "failed", "waiting", "returned", "thrown"}

TypeOK ==
  /\ mode \in {"threads", "loop"}
  /\ running \in BOOLEAN
  /\ pendingRequests \subseteq Calls
  /\ results \in [Calls -> Seq(Calls \cup {None})]
  /\ call \in [Calls -> CallStates]
  /\ wire \in Seq(Units)
  /\ incoming \in Seq(Calls \cup {Garbage})
  /\ sock \in {"connecting", "open", "closed", "broken"}
  /\ dtor \in {"alive", "stopping", "closed", "gone"}
  /\ totalSent \in [Calls -> 0 .. FrameSize]
  /\ sender \in Calls \cup {None}
  /\ receiver \in {"none", "check", "read", "decode", "complete", "failing", "gone"}
  /\ held \in Calls \cup {None} /\ respHeader \in Calls \cup {None}
  /\ events \subseteq {"IN", "OUT"} /\ revents \subseteq {"IN", "OUT"}
  /\ writeBuffer \in Seq(Units)
  /\ at \in {"idle", "decode", "clean", "stuck"}
  /\ coroutine \in BOOLEAN

Init ==
  /\ \/ mode = "threads" /\ sock = "open" /\ receiver = "check" /\ events = {}
     \/ mode = "loop" /\ sock = "connecting" /\ receiver = "none"
          /\ events = {"IN", "OUT"}
  /\ running = TRUE
  /\ pendingRequests = {}
  /\ results = [c \in Calls |-> << >>]
  /\ call = [c \in Calls |-> "none"]
  /\ wire = << >> /\ incoming = << >>
  /\ dtor = "alive"
  /\ totalSent = [c \in Calls |-> 0]
  /\ sender = None /\ held = None /\ respHeader = None
  /\ revents = {} /\ writeBuffer = << >>
  /\ at = "idle" /\ coroutine = FALSE
-----------------------------------------------------------------------------
(* Helpers.                                                                *)

Frame(c) == [k \in 1 .. FrameSize |-> <<c, k>>]
Sent(c) == \E i \in DOMAIN wire : wire[i] = <<c, FrameSize>>

NextIs(x) == incoming # << >> /\ Head(incoming) = x

Move(c, to) == call' = [call EXCEPT ![c] = to]

\* Mutant of find: answers are taken to come in the order of the requests.
find_any(seq) ==
  IF pendingRequests = {} THEN None ELSE CHOOSE c \in pendingRequests : TRUE

\* pendingRequests_.find by the sequence id of the answer.
find(seq) == IF seq \in pendingRequests THEN seq ELSE None

\* Mutant of extract: the context is looked up and stays in the map.
extract_kept(c) == UNCHANGED pendingRequests

extract(c) == pendingRequests' = pendingRequests \ {c}

\* Mutant of fail_all: the map is cleared and nobody is told.
fail_all_silent == pendingRequests' = {} /\ UNCHANGED results

\* cleanup_pending_requests for calls that block in a future.
fail_all ==
  /\ results' = [c \in Calls |-> IF c \in pendingRequests THEN Append(results[c], None)
                                 ELSE results[c]]
  /\ pendingRequests' = {}
-----------------------------------------------------------------------------
(* CallMethod on a caller's thread.                                        *)

register(c) ==
  /\ mode = "threads" /\ dtor = "alive" /\ call[c] = "none"
  /\ IF running
     THEN pendingRequests' = pendingRequests \cup {c} /\ Move(c, "registered")
     ELSE UNCHANGED pendingRequests /\ Move(c, "thrown")
  /\ UNCHANGED <<mode, running, results, netVars, dtor, threadVars, loopVars>>

encode_fails(c) ==
  /\ call[c] = "registered"
  /\ extract(c)
  /\ Move(c, "thrown")
  /\ UNCHANGED <<mode, running, results, netVars, dtor, threadVars, loopVars>>

\* Mutant of lock_send: sendMutex_ is not taken.
lock_send_free(c) ==
  /\ call[c] = "registered"
  /\ Move(c, "writing")
  /\ UNCHANGED <<mode, running, pendingRequests, results, netVars, dtor, threadVars,
                 loopVars>>

lock_send(c) ==
  /\ call[c] = "registered" /\ sender = None
  /\ sender' = c
  /\ Move(c, "writing")
  /\ UNCHANGED <<mode, running, pendingRequests, results, netVars, dtor, totalSent,
                 receiverVars, loopVars>>

\* Mutant of all_sent: totalSent <= size().
all_sent_late(k) == k > FrameSize

all_sent(k) == k = FrameSize

\* write() takes part of the frame; the loop goes on until all of it is taken.
\* After the server closed, the kernel takes what it will never deliver.
write_some(c) ==
  /\ call[c] = "writing" /\ sock \in {"open", "closed"}
  /\ totalSent' = [totalSent EXCEPT ![c] = @ + 1]
  /\ wire' = Append(wire, <<c, totalSent'[c]>>)
  /\ IF all_sent(totalSent'[c])
     THEN sender' = None /\ Move(c, "waiting")
     ELSE UNCHANGED <<sender, call>>
  /\ UNCHANGED <<mode, running, pendingRequests, results, incoming, sock, dtor,
                 receiverVars, loopVars>>

\* write() fails: sendMutex_ is released, then the request is erased.
write_fails(c) ==
  /\ call[c] = "writing" /\ sock \in {"closed", "broken"}
  /\ sock' = "broken"
  /\ sender' = None
  /\ Move(c, "failed")
  /\ UNCHANGED <<mode, running, pendingRequests, results, wire, incoming, dtor, totalSent,
                 receiverVars, loopVars>>

\* Mutant of erase: the exception leaves the request registered.
erase_forgotten(c) ==
  /\ call[c] = "failed"
  /\ Move(c, "thrown")
  /\ UNCHANGED <<mode, running, pendingRequests, results, netVars, dtor, threadVars,
                 loopVars>>

erase(c) ==
  /\ call[c] = "failed"
  /\ extract(c)
  /\ Move(c, "thrown")
  /\ UNCHANGED <<mode, running, results, netVars, dtor, threadVars, loopVars>>

future_get(c) ==
  /\ mode = "threads" /\ call[c] = "waiting" /\ results[c] # << >>
  /\ Move(c, IF Head(results[c]) = None THEN "thrown" ELSE "returned")
  /\ UNCHANGED <<mode, running, pendingRequests, results, netVars, dtor, threadVars,
                 loopVars>>
-----------------------------------------------------------------------------
(* receive_loop.                                                           *)

check_running ==
  /\ receiver = "check"
  /\ receiver' = IF running THEN "read" ELSE "gone"
  /\ UNCHANGED <<mode, running, callVars, netVars, dtor, sendVars, held, respHeader,
                 loopVars>>

read_chunk ==
  /\ receiver = "read" /\ sock # "broken" /\ incoming # << >>
  /\ receiver' = "decode"
  /\ UNCHANGED <<mode, running, callVars, netVars, dtor, sendVars, held, respHeader,
                 loopVars>>

\* End of the stream, an error, or the destructor's shutdown: running_ stays.
read_fails ==
  /\ receiver = "read" /\ sock # "open"
  /\ fail_all
  /\ receiver' = "gone"
  /\ UNCHANGED <<mode, running, call, netVars, dtor, sendVars, held, respHeader,
                 loopVars>>

decode_answer(c) ==
  /\ receiver = "decode" /\ running /\ NextIs(c)
  /\ incoming' = Tail(incoming)
  /\ IF find(c) # None
     THEN extract(find(c)) /\ held' = find(c) /\ respHeader' = c
            /\ receiver' = "complete"
     ELSE UNCHANGED <<pendingRequests, held, respHeader, receiver>>
  /\ UNCHANGED <<mode, running, results, call, wire, sock, dtor, sendVars, loopVars>>

\* Mutant of complete: an answer that cannot be parsed is dropped.
complete_parsed ==
  /\ receiver = "complete"
  /\ \/ results' = [results EXCEPT ![held] = Append(@, respHeader)]
     \/ UNCHANGED results
  /\ held' = None /\ respHeader' = None
  /\ receiver' = "decode"
  /\ UNCHANGED <<mode, running, pendingRequests, call, netVars, dtor, sendVars, loopVars>>

\* The answer is parsed into the caller's message and the promise is set.
complete ==
  /\ receiver = "complete"
  /\ \E r \in {respHeader, None} : results' = [results EXCEPT ![held] = Append(@, r)]
  /\ held' = None /\ respHeader' = None
  /\ receiver' = "decode"
  /\ UNCHANGED <<mode, running, pendingRequests, call, netVars, dtor, sendVars, loopVars>>

\* No whole frame is left, or running_ was cleared.
decode_ends ==
  /\ receiver = "decode" /\ (incoming = << >> \/ ~running)
  /\ receiver' = "check"
  /\ UNCHANGED <<mode, running, callVars, netVars, dtor, sendVars, held, respHeader,
                 loopVars>>

decode_error ==
  /\ receiver = "decode" /\ running /\ NextIs(Garbage)
  /\ fail_all
  /\ receiver' = "failing"
  /\ UNCHANGED <<mode, running, call, netVars, dtor, sendVars, held, respHeader,
                 loopVars>>

stop_running ==
  /\ receiver = "failing"
  /\ running' = FALSE
  /\ receiver' = "gone"
  /\ UNCHANGED <<mode, callVars, netVars, dtor, sendVars, held, respHeader,
                 loopVars>>
-----------------------------------------------------------------------------
(* The destructor of a channel with a receiving thread.                    *)

destroy ==
  /\ mode = "threads" /\ dtor = "alive"
  /\ \A c \in Calls : call[c] \notin {"registered", "writing", "failed"}
  /\ running' = FALSE
  /\ dtor' = "stopping"
  /\ UNCHANGED <<mode, callVars, netVars, threadVars, loopVars>>

close_fd ==
  /\ dtor = "stopping"
  /\ sock' = "broken"
  /\ dtor' = "closed"
  /\ UNCHANGED <<mode, running, callVars, wire, incoming, threadVars, loopVars>>

\* Mutant of finish_destruction: the receiving thread is trusted to have
\* cleaned up.
finish_destruction_joined ==
  /\ mode = "threads" /\ dtor = "closed" /\ receiver = "gone"
  /\ dtor' = "gone"
  /\ UNCHANGED <<mode, running, callVars, netVars, threadVars, loopVars>>

finish_destruction ==
  /\ mode = "threads" /\ dtor = "closed" /\ receiver = "gone"
  /\ fail_all
  /\ dtor' = "gone"
  /\ UNCHANGED <<mode, running, call, netVars, threadVars, loopVars>>
-----------------------------------------------------------------------------
(* A channel of an EventLoop: CallMethod inside a coroutine.               *)

\* The loop thread is outside the channel's handlers.
Outside == mode = "loop" /\ at = "idle" /\ revents = {} /\ ~coroutine

\* A coroutine started by the loop, or one that an answer or a failure has
\* resumed, calls.  write_request_nonblocking only appends: connected_ is
\* false from the constructor on.
call_method(c) ==
  /\ Outside \/ coroutine
  /\ at \in {"idle", "decode"} /\ dtor = "alive" /\ call[c] = "none"
  /\ \/ /\ running
        /\ pendingRequests' = pendingRequests \cup {c}
        /\ writeBuffer' = writeBuffer \o Frame(c)
        /\ Move(c, "waiting")
        /\ coroutine' = FALSE
     \/ /\ Move(c, "thrown")              \* not running, or encoding failed
        /\ UNCHANGED <<pendingRequests, writeBuffer, coroutine>>
  /\ UNCHANGED <<mode, running, results, netVars, dtor, threadVars, events, revents, at>>

\* A coroutine resumed by cleanup_pending_requests calls again: mapMutex_ is
\* held by the very thread that waits for it.
call_method_under_lock ==
  /\ coroutine /\ at = "clean" /\ dtor = "alive"
  /\ \E c \in Calls : call[c] = "none"
  /\ at' = "stuck"
  /\ UNCHANGED <<mode, running, callVars, netVars, dtor, threadVars, events, revents,
                 writeBuffer, coroutine>>

coroutine_ends ==
  /\ coroutine /\ at # "stuck"
  /\ coroutine' = FALSE
  /\ UNCHANGED <<mode, running, callVars, netVars, dtor, threadVars, events, revents,
                 writeBuffer, at>>
-----------------------------------------------------------------------------
(* Its handlers.                                                           *)

\* Readable: data, the end, or an error.  Writable: connected, or failed to.
poll ==
  /\ Outside /\ dtor = "alive"
  /\ \E room \in SUBSET {"OUT"} :
       revents' = events \cap
         ((IF incoming # << >> \/ sock \in {"closed", "broken"} THEN {"IN"} ELSE {})
            \cup (IF sock # "connecting" THEN room ELSE {}))
  /\ revents' # {}
  /\ UNCHANGED <<mode, running, callVars, netVars, dtor, threadVars, events, writeBuffer,
                 at, coroutine>>

\* Everything readable is read first; at the end of the stream what was read
\* is not decoded any more.
on_read ==
  /\ mode = "loop" /\ at = "idle" /\ "IN" \in revents
  /\ revents' = revents \ {"IN"}
  /\ at' = IF sock = "open" THEN "decode" ELSE "clean"
  /\ UNCHANGED <<mode, running, callVars, netVars, dtor, threadVars, events, writeBuffer,
                 coroutine>>

\* The coroutine is resumed in place and its call ends.
resume_answered(c) ==
  /\ at = "decode" /\ ~coroutine /\ NextIs(c)
  /\ incoming' = Tail(incoming)
  /\ \/ /\ find(c) # None
        /\ extract(find(c))
        /\ \/ /\ results' = [results EXCEPT ![find(c)] = Append(@, c)]
              /\ Move(find(c), "returned")
           \/ /\ results' = [results EXCEPT ![find(c)] = Append(@, None)]
              /\ Move(find(c), "thrown")
        /\ coroutine' = TRUE
     \/ /\ find(c) = None
        /\ UNCHANGED <<callVars, coroutine>>
  /\ UNCHANGED <<mode, running, wire, sock, dtor, threadVars, events, revents,
                 writeBuffer, at>>

on_read_ends ==
  /\ at = "decode" /\ ~coroutine
  /\ \/ incoming = << >> /\ at' = "idle"
     \/ NextIs(Garbage) /\ at' = "clean"
  /\ UNCHANGED <<mode, running, callVars, netVars, dtor, threadVars, events, revents,
                 writeBuffer, coroutine>>

\* SO_ERROR or a failing write; nothing to write; or the kernel takes units.
on_write ==
  /\ mode = "loop" /\ at = "idle" /\ revents = {"OUT"}
  /\ revents' = {}
  /\ \/ /\ sock \in {"closed", "broken"}
        /\ at' = "clean"
        /\ UNCHANGED <<wire, writeBuffer, events>>
     \/ /\ sock \in {"open", "closed"}
        /\ \E w \in 0 .. Len(writeBuffer) :
             /\ wire' = wire \o SubSeq(writeBuffer, 1, w)
             /\ writeBuffer' = SubSeq(writeBuffer, w + 1, Len(writeBuffer))
        /\ events' = IF writeBuffer' = << >> THEN events \ {"OUT"} ELSE events
        /\ UNCHANGED at
  /\ UNCHANGED <<mode, running, callVars, incoming, sock, dtor, threadVars, coroutine>>

\* cleanup_pending_requests resumes one coroutine after the other, in the
\* order of a hash table, and holds mapMutex_ throughout.
resume_failed(c) ==
  /\ at = "clean" /\ ~coroutine
  /\ c \in pendingRequests /\ results[c] = << >>
  /\ results' = [results EXCEPT ![c] = Append(@, None)]
  /\ Move(c, "thrown")
  /\ coroutine' = TRUE
  /\ UNCHANGED <<mode, running, pendingRequests, netVars, dtor, threadVars, events,
                 revents, writeBuffer, at>>

\* The map is cleared; the handler clears running_ and the interest.
finish_clean ==
  /\ at = "clean" /\ ~coroutine
  /\ \A c \in pendingRequests : results[c] # << >>
  /\ pendingRequests' = {}
  /\ running' = FALSE
  /\ events' = {}
  /\ at' = "idle"
  /\ dtor' = IF dtor = "closed" THEN "gone" ELSE dtor
  /\ UNCHANGED <<mode, results, call, netVars, threadVars, revents, writeBuffer, coroutine>>

\* The destructor, from a timer or a functor of the loop.
destroy_on_loop ==
  /\ Outside /\ dtor = "alive"
  /\ running' = FALSE
  /\ events' = {}
  /\ sock' = "broken"
  /\ dtor' = "closed"
  /\ at' = "clean"
  /\ UNCHANGED <<mode, callVars, wire, incoming, threadVars, revents, writeBuffer,
                 coroutine>>
-----------------------------------------------------------------------------
(* The server and the network.                                             *)

connects ==
  /\ sock = "connecting" /\ sock' = "open"
  /\ UNCHANGED <<mode, running, callVars, wire, incoming, dtor, threadVars, loopVars>>

\* The connection is refused, ended or reset.
peer_closes ==
  /\ sock \in {"connecting", "open"} /\ sock' = "closed"
  /\ UNCHANGED <<mode, running, callVars, wire, incoming, dtor, threadVars, loopVars>>

arrives(x) ==
  /\ sock = "open" /\ Len(incoming) < MaxIncoming
  /\ incoming' = Append(incoming, x)
  /\ UNCHANGED <<mode, running, callVars, wire, sock, dtor, threadVars, loopVars>>

peer_answers(c) == Sent(c) /\ arrives(c)

peer_garbles == arrives(Garbage)
-----------------------------------------------------------------------------
Caller(c) == register(c) \/ encode_fails(c) \/ lock_send(c) \/ write_some(c)
               \/ write_fails(c) \/ erase(c) \/ future_get(c)

Receives == check_running \/ read_chunk \/ read_fails \/ complete \/ decode_ends
              \/ decode_error \/ stop_running \/ \E c \in Calls : decode_answer(c)

Destroys == close_fd \/ finish_destruction

LoopRuns == coroutine_ends \/ poll \/ on_read \/ on_read_ends \/ on_write \/ finish_clean
              \/ \E c \in Calls : resume_answered(c) \/ resume_failed(c)

Server == connects \/ peer_closes \/ peer_garbles \/ \E c \in Calls : peer_answers(c)

Next ==
  \/ \E c \in Calls : Caller(c)
  \/ Receives
  \/ destroy \/ Destroys \/ destroy_on_loop
  \/ LoopRuns
  \/ \E c \in Calls : call_method(c)
  \/ call_method_under_lock
  \/ Server

\* Threads that can run are scheduled: the receiver, a caller whose future is
\* ready, the destructor once begun, the loop.  Coroutines end.  Nothing obliges
\* the server to answer or to close, nor a blocking write to go on.
Spec ==
  /\ Init /\ [][Next]_vars
  /\ WF_vars(Receives) /\ WF_vars(Destroys) /\ WF_vars(LoopRuns)
  /\ \A c \in Calls : WF_vars(future_get(c)) /\ WF_vars(erase(c))
-----------------------------------------------------------------------------
(* Properties.                                                             *)

Ended(c) == call[c] \in {"returned", "thrown"}

\* No promise is set twice (which would throw in the receiving thread), however
\* a duplicate answer, a decode error, a failing write and the destructor race.
CompletedOnce == \A c \in Calls : Len(results[c]) <= 1

\* The receiving side never reaches the response message of a call that has
\* ended: its context is neither registered nor in the receiver's hands (one
\* that cleanup_pending_requests has just failed stays until it lets go the map).
ResponseAlive ==
  \A c \in Calls : Ended(c) =>
    held # c /\ (c \in pendingRequests => at \in {"clean", "stuck"})

\* Requests of concurrent callers are not mixed on the connection: every unit
\* but the first of a frame follows the unit before it.
FramesWhole ==
  \A i \in DOMAIN wire : wire[i][2] > 1 =>
    i > 1 /\ wire[i - 1] = <<wire[i][1], wire[i][2] - 1>>

\* A call succeeds only with the answer to its own request, which had left,
\* whatever the order of answers and requests.
AnswerMatches ==
  \A c \in Calls : \A i \in DOMAIN results[c] :
    results[c][i] # None => results[c][i] = c /\ Sent(c)

\* Nobody waits for a promise that nobody can set: a waiting call without
\* result is registered or in the receiver's hands.
WaiterIsRegistered ==
  \A c \in Calls : call[c] = "waiting" /\ results[c] = << >> =>
    c \in pendingRequests \/ held = c

\* An answer that has arrived ends its call, unless the receiving thread has
\* already left or the loop thread locks itself out.
AnswerEndsCall ==
  \A c \in Calls : call[c] = "waiting" /\ c \in {incoming[i] : i \in DOMAIN incoming}
                     ~> Ended(c) \/ receiver = "gone" \/ at = "stuck"

\* Destroying the channel ends every waiting call.
DestructionEndsCalls ==
  dtor # "alive" ~> \A c \in Calls : call[c] # "waiting"

\* The header says that a broken connection ends all waiting calls "so that no
\* thread is stuck for ever": without a receiving thread nobody may wait.
NobodyWaitsAlone ==
  receiver = "gone" /\ dtor = "alive" =>
    \A c \in Calls : call[c] = "waiting" => results[c] # << >>

\* The source says of write_request_nonblocking that what it appends waits for
\* on_write to flush it: on_write must then be due.
BacklogIsWatched ==
  Outside /\ running /\ writeBuffer # << >> => "OUT" \in events
=============================================================================
