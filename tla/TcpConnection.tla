---------------------------- MODULE TcpConnection ----------------------------
(***************************************************************************)
(* tcp/TcpConnection and the dispatch of its Channel: one connection, its  *)
(* loop thread, and calls queued by other threads.                         *)
(*                                                                         *)
(* Output is counted in units numbered in the order they were accepted:    *)
(* wire, writeBuffer and pendingFile are sequences of unit numbers.  Every *)
(* user callback is invoked last in its function, so control in user code  *)
(* is one flag, userRuns: while it is set the user may make any further    *)
(* call from inside the callback, nested callbacks included.  The error    *)
(* callback alone is followed by work of the connection, close_connection, *)
(* which closeNext remembers.                                              *)
(*                                                                         *)
(* Incoming bytes are not modelled, only what read() returns.  A closed    *)
(* connection is not polled again: the server drops it in its close        *)
(* callback, and only queued functors still hold it.                       *)
(***************************************************************************)
EXTENDS Naturals, Sequences, SequencesExt

CONSTANTS Sizes,           \* lengths of a message, header or file, in units
          HighWaterMark,   \* highWaterMark_
          MaxUnits,        \* bound: units ever accepted
          MaxInbox         \* bound: calls of other threads queued at once

ASSUME ConnectionAssumption ==
  /\ Sizes \subseteq Nat \ {0}
  /\ HighWaterMark \in Nat \ {0}
  /\ MaxUnits \in Nat /\ MaxInbox \in Nat

VARIABLES
  writeBuffer,             \* readable bytes of writeBuffer_
  pendingFile,             \* unsent part of pendingFile_; hasPendingFile_ iff # << >>
  wire,                    \* history: units the kernel took, in order
  accepted,                \* history: number of units accepted by send calls
  cut,                     \* history: units of a file that turned out shorter
  events,                  \* interest registered with epoll
  isClosed,
  revents,                 \* reported events not yet dispatched
  inbox,                   \* functors other threads queued on the loop
  userRuns,                \* a user callback has control on the loop thread
  closeNext,               \* close_connection follows the error callback
  called                   \* the user callback the last step invoked, or "none"

outputVars == <<writeBuffer, pendingFile, wire, accepted, cut>>
stateVars  == <<isClosed, closeNext>>
vars == <<outputVars, events, stateVars, revents, inbox, userRuns, called>>

Callbacks == {"message", "complete", "highwater", "error", "close"}
Calls == [call : {"send", "send_file"}, size : Sizes]
           \cup [call : {"send_file_with_header"}, size : Sizes, header : Sizes]
           \cup [call : {"force_close"}]

TypeOK ==
  /\ writeBuffer \in Seq(1 .. MaxUnits)
  /\ pendingFile \in Seq(1 .. MaxUnits)
  /\ wire \in Seq(1 .. MaxUnits)
  /\ accepted \in 0 .. MaxUnits
  /\ cut \in Seq(1 .. MaxUnits)
  /\ events \subseteq {"IN", "OUT"}
  /\ isClosed \in BOOLEAN
  /\ revents \subseteq {"HUP", "ERR", "IN", "OUT"}
  /\ inbox \in Seq(Calls) /\ Len(inbox) <= MaxInbox
  /\ userRuns \in BOOLEAN
  /\ closeNext \in BOOLEAN
  /\ called \in Callbacks \cup {"none"}

\* create_connection: tied, then reading enabled.
Init ==
  /\ writeBuffer = << >> /\ pendingFile = << >> /\ wire = << >> /\ cut = << >>
  /\ accepted = 0
  /\ events = {"IN"}
  /\ isClosed = FALSE /\ closeNext = FALSE
  /\ revents = {}
  /\ inbox = << >>
  /\ userRuns = FALSE
  /\ called = "none"
-----------------------------------------------------------------------------
(* Pieces of several handlers.                                             *)

Take(s, n) == SubSeq(s, 1, n)
Drop(s, n) == SubSeq(s, n + 1, Len(s))

\* The next n units, and the next m after those.
Units(n) == [i \in 1 .. n |-> accepted + i]
UnitsAfter(n, m) == [i \in 1 .. m |-> accepted + n + i]

\* Control passes to a user callback, or stays with the caller.
Invoke(cb) == called' = cb /\ userRuns' = TRUE
Return == called' = "none" /\ UNCHANGED userRuns

\* handle_error_callback, then close_connection.
fail == Invoke("error") /\ closeNext' = TRUE /\ UNCHANGED <<events, isClosed>>

\* Mutant of close_connection: channel.disable_all() is missing.
close_connection_enabled ==
  IF isClosed
  THEN Return /\ UNCHANGED <<events, isClosed>>
  ELSE isClosed' = TRUE /\ UNCHANGED events /\ Invoke("close")

close_connection ==
  IF isClosed
  THEN Return /\ UNCHANGED <<events, isClosed>>
  ELSE /\ isClosed' = TRUE
       /\ events' = {}
       /\ Invoke("close")

\* Mutant of enable_writing_and_report: EPOLLOUT is not asked for.
report_only ==
  /\ UNCHANGED events
  /\ IF Len(writeBuffer) < HighWaterMark /\ Len(writeBuffer') >= HighWaterMark
     THEN Invoke("highwater") ELSE Return

\* Mutant of enable_writing_and_report: every send above the mark reports.
enable_writing_and_report_level ==
  /\ events' = events \cup {"OUT"}
  /\ IF Len(writeBuffer') >= HighWaterMark THEN Invoke("highwater") ELSE Return

\* The end of the send paths that leave output behind: watch for EPOLLOUT and
\* report the step across the high-water mark.
enable_writing_and_report ==
  /\ events' = events \cup {"OUT"}
  /\ IF Len(writeBuffer) < HighWaterMark /\ Len(writeBuffer') >= HighWaterMark
     THEN Invoke("highwater") ELSE Return
-----------------------------------------------------------------------------
(* The send operations, on the loop thread.                                *)

Refused == UNCHANGED outputVars

\* Mutant of send_in_loop: isClosed_ is not looked at.
send_in_loop_unchecked(n) ==
  /\ pendingFile = << >> /\ accepted + n <= MaxUnits
  /\ accepted' = accepted + n
  /\ writeBuffer' = writeBuffer \o Units(n)
  /\ enable_writing_and_report
  /\ UNCHANGED <<wire, pendingFile, cut, stateVars>>

\* send_in_loop: with nothing in the way the kernel is offered the backlog
\* followed by the message and takes the first w units of the two (write,
\* writev); EAGAIN is w = 0.
send_in_loop(n) ==
  \/ isClosed /\ Refused /\ Return /\ UNCHANGED <<events, stateVars>>
  \/ ~isClosed /\ Refused /\ fail          \* a file is pending, or write failed
  \/ /\ ~isClosed /\ pendingFile = << >> /\ accepted + n <= MaxUnits
     /\ accepted' = accepted + n
     /\ LET out == writeBuffer \o Units(n)
            direct == writeBuffer # << >> \/ "OUT" \notin events
        IN \E w \in IF direct THEN 0 .. Len(out) ELSE {0} :
             /\ wire' = wire \o Take(out, w)
             /\ writeBuffer' = Drop(out, w)
     /\ IF writeBuffer' = << >>
        THEN events' = events \ {"OUT"} /\ Invoke("complete")
        ELSE enable_writing_and_report
     /\ UNCHANGED <<pendingFile, cut, stateVars>>

\* One sendfile(): f units are taken, or the file ended early (returns 0) and
\* what is missing is given up.
sendfile(file, f) ==
  \/ /\ pendingFile' = Drop(file, f)
     /\ UNCHANGED cut
  \/ /\ file # << >> /\ f = 0
     /\ pendingFile' = << >>
     /\ cut' = cut \o file

\* send_file_in_loop: behind a backlog the file waits, otherwise it starts.
send_file_in_loop(n) ==
  \/ isClosed /\ Refused /\ Return /\ UNCHANGED <<events, stateVars>>
  \/ ~isClosed /\ Refused /\ fail          \* bad file, or one already pending
  \/ /\ ~isClosed /\ pendingFile = << >> /\ accepted + n <= MaxUnits
     /\ accepted' = accepted + n
     /\ UNCHANGED writeBuffer
     /\ \/ /\ writeBuffer # << >> \/ "OUT" \in events
           /\ pendingFile' = Units(n)
           /\ events' = events \cup {"OUT"}
           /\ Return
           /\ UNCHANGED <<wire, cut, stateVars>>
        \/ /\ writeBuffer = << >> /\ "OUT" \notin events
           /\ \E f \in 0 .. n : wire' = wire \o Take(Units(n), f) /\ sendfile(Units(n), f)
           /\ IF pendingFile' = << >>
              THEN Invoke("complete") /\ UNCHANGED events
              ELSE Return /\ events' = events \cup {"OUT"}
           /\ UNCHANGED stateVars
        \/ /\ writeBuffer = << >> /\ "OUT" \notin events
           /\ pendingFile' = Units(n)          \* sendfile failed
           /\ fail
           /\ UNCHANGED <<wire, cut>>

\* send_file_with_header_in_loop: the header joins the buffer, nothing is
\* written before the next EPOLLOUT.
send_file_with_header_in_loop(h, n) ==
  \/ isClosed /\ Refused /\ Return /\ UNCHANGED <<events, stateVars>>
  \/ ~isClosed /\ Refused /\ fail          \* bad file, or one already pending
  \/ /\ ~isClosed /\ pendingFile = << >> /\ accepted + h + n <= MaxUnits
     /\ accepted' = accepted + h + n
     /\ writeBuffer' = writeBuffer \o Units(h)
     /\ pendingFile' = UnitsAfter(h, n)
     /\ enable_writing_and_report
     /\ UNCHANGED <<wire, cut, stateVars>>

force_close_in_loop == close_connection /\ Refused /\ UNCHANGED closeNext

perform(c) ==
  \/ c.call = "send" /\ send_in_loop(c.size)
  \/ c.call = "send_file" /\ send_file_in_loop(c.size)
  \/ c.call = "send_file_with_header" /\ send_file_with_header_in_loop(c.header, c.size)
  \/ c.call = "force_close" /\ force_close_in_loop
-----------------------------------------------------------------------------
(* Actions.                                                                *)

\* A call from another thread is queued on the connection's loop.
call_elsewhere(c) ==
  /\ Len(inbox) < MaxInbox
  /\ inbox' = Append(inbox, c)
  /\ called' = "none"
  /\ UNCHANGED <<outputVars, events, stateVars, revents, userRuns>>

\* A call from inside a user callback on the loop thread.
call_in_callback(c) ==
  /\ userRuns
  /\ perform(c)
  /\ UNCHANGED <<revents, inbox>>

callback_returns ==
  /\ userRuns
  /\ userRuns' = FALSE
  /\ called' = "none"
  /\ UNCHANGED <<outputVars, events, stateVars, revents, inbox>>

\* The connection's own code has control.
Resumes == ~userRuns /\ ~closeNext
Idle == Resumes /\ revents = {}

close_after_error ==
  /\ ~userRuns /\ closeNext
  /\ closeNext' = FALSE
  /\ close_connection
  /\ UNCHANGED <<outputVars, revents, inbox>>

run_functor ==
  /\ Idle /\ inbox # << >>
  /\ perform(Head(inbox))
  /\ inbox' = Tail(inbox)
  /\ UNCHANGED revents

\* EPOLLHUP and EPOLLERR are reported whatever the interest.
poll(reported) ==
  /\ Idle /\ ~isClosed
  /\ reported # {} /\ reported \subseteq {"HUP", "ERR"} \cup events
  /\ revents' = reported
  /\ called' = "none"
  /\ UNCHANGED <<outputVars, events, stateVars, inbox, userRuns>>

\* handle_events_with_guard: a hangup alone, then error, read, write.
on_close ==
  /\ Resumes /\ "HUP" \in revents /\ "IN" \notin revents
  /\ revents' = {}
  /\ close_connection
  /\ UNCHANGED <<outputVars, closeNext, inbox>>

on_error ==
  /\ Resumes /\ "ERR" \in revents /\ ("HUP" \in revents => "IN" \in revents)
  /\ revents' = revents \ {"ERR", "HUP"}
  /\ fail
  /\ UNCHANGED <<outputVars, inbox>>

\* read() returned data, the end of the stream, EAGAIN or an error.
on_read ==
  /\ Resumes /\ "IN" \in revents /\ "ERR" \notin revents
  /\ revents' = revents \ {"IN", "HUP"}
  /\ \/ Invoke("message") /\ UNCHANGED <<events, stateVars>>
     \/ close_connection /\ UNCHANGED closeNext
     \/ Return /\ UNCHANGED <<events, stateVars>>
     \/ fail
  /\ UNCHANGED <<outputVars, inbox>>

\* Mutant of flush: the file may start before the buffer is empty.
flush_overtaking(w, f) ==
  /\ wire' = wire \o Take(writeBuffer, w) \o Take(pendingFile, f)
  /\ writeBuffer' = Drop(writeBuffer, w)
  /\ sendfile(pendingFile, f)
  /\ UNCHANGED accepted

\* on_write: flush the buffer, then the file; both empty ends EPOLLOUT.
flush(w, f) ==
  /\ f > 0 => w = Len(writeBuffer)
  /\ wire' = wire \o Take(writeBuffer, w) \o Take(pendingFile, f)
  /\ writeBuffer' = Drop(writeBuffer, w)
  /\ sendfile(pendingFile, f)
  /\ cut' # cut => w = Len(writeBuffer)
  /\ UNCHANGED accepted

\* Mutant of finish_write: the pending file is forgotten.
finish_write_buffer ==
  IF writeBuffer' = << >>
  THEN events' = events \ {"OUT"} /\ Invoke("complete")
  ELSE Return /\ UNCHANGED events

\* Nothing left: stop watching EPOLLOUT and report write-complete.
finish_write ==
  IF writeBuffer' = << >> /\ pendingFile' = << >>
  THEN events' = events \ {"OUT"} /\ Invoke("complete")
  ELSE Return /\ UNCHANGED events

\* A failing write leaves the buffer; a failing sendfile comes after the
\* buffer went out.  After close_connection the write side is shut down, so
\* every attempt to write fails.
on_write ==
  /\ Resumes /\ revents = {"OUT"}
  /\ revents' = {}
  /\ \/ /\ ~isClosed
        /\ \E w \in 0 .. Len(writeBuffer), f \in 0 .. Len(pendingFile) : flush(w, f)
        /\ finish_write
        /\ UNCHANGED stateVars
     \/ /\ writeBuffer # << >>
        /\ fail /\ Refused
     \/ /\ pendingFile # << >> /\ (isClosed => writeBuffer = << >>)
        /\ wire' = wire \o writeBuffer
        /\ writeBuffer' = << >>
        /\ fail
        /\ UNCHANGED <<pendingFile, accepted, cut>>
     \/ /\ isClosed /\ writeBuffer = << >> /\ pendingFile = << >>
        /\ Invoke("complete")
        /\ UNCHANGED <<outputVars, events, stateVars>>
  /\ UNCHANGED inbox
-----------------------------------------------------------------------------
Next ==
  \/ \E c \in Calls : call_elsewhere(c)
  \/ \E c \in Calls : call_in_callback(c)
  \/ callback_returns
  \/ close_after_error
  \/ run_functor
  \/ \E reported \in SUBSET {"HUP", "ERR", "IN", "OUT"} : poll(reported)
  \/ on_close
  \/ on_error
  \/ on_read
  \/ on_write

\* The loop thread runs and callbacks return.  A peer that keeps reading makes
\* the socket writable again and again, and a writable socket takes data.
LoopRuns == callback_returns \/ close_after_error \/ run_functor
              \/ on_close \/ on_error \/ on_read \/ on_write

PeerReads ==
  /\ SF_vars(poll({"OUT"}))
  /\ SF_vars(on_write /\ writeBuffer \o pendingFile # (writeBuffer \o pendingFile)')

Spec == Init /\ [][Next]_vars /\ WF_vars(LoopRuns) /\ PeerReads
-----------------------------------------------------------------------------
(* Properties.                                                             *)

\* What the kernel took, then the buffer, then the pending file are the
\* accepted units in the order they were accepted, whichever thread sent them
\* and however partial writes, writev and sendfile interleave.  Only a file
\* shorter than announced leaves a gap.
OutputInOrder ==
  cut = << >> => wire \o writeBuffer \o pendingFile = [i \in 1 .. accepted |-> i]

\* An open connection watches EPOLLOUT exactly while output is waiting: with
\* less it would stall, with more it would spin.
WritingIffBacklog ==
  ~isClosed /\ ~closeNext =>
    ("OUT" \in events <=> writeBuffer # << >> \/ pendingFile # << >>)
Inv == TypeOK /\ WritingIffBacklog

\* A closed connection never registers interest again and stays closed, and
\* its close callback is not invoked twice.
ClosedForGood ==
  /\ [][isClosed => isClosed' /\ events' = {}]_vars
  /\ [][called' = "close" => ~isClosed]_vars

\* Write-complete is reported only when neither buffer nor file has anything
\* left for the wire.
CompleteMeansDrained ==
  [][called' = "complete" => writeBuffer' = << >> /\ pendingFile' = << >>]_vars

\* The high-water callback is an edge: invoked exactly by the steps of an open
\* connection that carry the backlog across the mark from below.
HighWaterIsEdge ==
  [][called' = "highwater" <=>
       Len(writeBuffer) < HighWaterMark /\ Len(writeBuffer') >= HighWaterMark]_vars

\* What HttpServer and the RPC servers may take a connection for: a stream that loses,
\* repeats and reorders nothing it accepted until it closes, not even behind a file
\* that turned out shorter, and that closes for good.
Stream == INSTANCE OutputStream WITH missing <- Len(cut), open <- ~isClosed
ImplementsStream == Stream!Spec

\* While the peer reads, accepted output leaves unless the connection closes; and a
\* failed call does close it, behind the error callback.
OutputDrains ==
  /\ writeBuffer \o pendingFile # << >> ~> writeBuffer \o pendingFile = << >> \/ isClosed
  /\ closeNext ~> isClosed
=============================================================================
