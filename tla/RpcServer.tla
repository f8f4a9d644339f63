------------------------------ MODULE RpcServer ------------------------------
(***************************************************************************)
(* rpc/binary/BinaryRpcServer and rpc/json/JsonRpcServer on the loop of a  *)
(* connection: the bytes of a connection are collected in                  *)
(* connectionBuffers_, cut into frames, dispatched and answered.  Which of *)
(* the two servers the connection belongs to is chosen at the start; they  *)
(* differ in how a frame ends, what a wrong one leads to and when a        *)
(* service may answer.                                                     *)
(*                                                                         *)
(* A frame is sent as two units and a blank line as one; the second unit   *)
(* ends it.  A unit of a frame is [id, last], id its number.  on_message   *)
(* runs to its end on the loop thread: pc is where it stands.  A send may  *)
(* fail and close the connection, which erases the entry of                *)
(* connectionBuffers_ under the reference on_message holds: from then on   *)
(* it works on freed memory, of which the model keeps the contents, or     *)
(* lets the loop find nothing.                                             *)
(***************************************************************************)
EXTENDS RpcRouters

CONSTANTS BinaryFrames,    \* frames a binary client sends
          JsonLines,       \* lines a JSON client sends
          MaxFrames        \* bound: frames on the connection

ASSUME RpcAssumption ==
  BinaryFrames \subseteq BinaryFrame /\ JsonLines \subseteq JsonLine /\ MaxFrames \in Nat \ {0}

VARIABLES
  protocol,      \* "binary" or "json"
  open,          \* ~TcpConnection::isClosed_
  late,          \* the report that closed the connection is still to be read for
  entry,         \* the connection has an entry in connectionBuffers_
  cache,         \* what the entry holds, or held
  buf,           \* the Buffer of the binary on_message
  pc,            \* "poll", or where on_message stands: "loop", "waiting"
  inbox,         \* units sent and not received
  calls,         \* binary calls whose service has not called Run
  queued,        \* answers of services among the functors of the loop
  asked,         \* history: the frames sent
  sent,          \* history: the units sent
  handled,       \* history: numbers of the frames dispatched, in order
  answered       \* history: numbers of the frames answered, in order

connection == <<open, entry, answered>>
client == <<asked, sent>>
services == <<calls, queued>>
vars == <<protocol, connection, late, cache, buf, pc, inbox, services, client, handled>>

TypeOK ==
  /\ protocol \in {"binary", "json"} /\ pc \in {"poll", "loop", "waiting"}
  /\ open \in BOOLEAN /\ late \in BOOLEAN /\ entry \in BOOLEAN /\ (late => ~open)
  /\ Len(asked) <= MaxFrames /\ calls \subseteq DOMAIN asked
  /\ protocol = "json" => calls = {} /\ queued = << >> /\ buf = << >>

Units(id, frame) ==
  IF protocol = "json" /\ frame.kind = "blank" THEN <<[id |-> id, last |-> TRUE]>>
  ELSE <<[id |-> id, last |-> FALSE], [id |-> id, last |-> TRUE]>>

\* decode, or find('\n'): the length of the first frame, 0 when it is not complete.
FirstFrame(units) == SelectInSeq(units, LAMBDA u : u.last)
After(units, n) == SubSeq(units, n + 1, Len(units))

\* The line that ends at units[n]; a line that lost its beginning is no JSON.
LineOf(units, n) ==
  LET id == units[n].id
  IN IF n < Len(Units(id, asked[id])) THEN [kind |-> "garbage"] ELSE asked[id]

close_connection == open' = FALSE /\ entry' = FALSE /\ UNCHANGED answered

send(id) ==
  \/ ~open /\ UNCHANGED connection
  \/ open /\ answered' = Append(answered, id) /\ UNCHANGED <<open, entry>>
  \/ open /\ close_connection

-----------------------------------------------------------------------------
client_sends ==
  /\ open /\ Len(asked) < MaxFrames
  /\ \E frame \in IF protocol = "binary" THEN BinaryFrames ELSE JsonLines :
       /\ asked' = Append(asked, frame)
       /\ inbox' = inbox \o Units(Len(asked) + 1, frame)
       /\ sent' = sent \o Units(Len(asked) + 1, frame)
  /\ UNCHANGED <<protocol, connection, late, cache, buf, pc, services, handled>>

\* Both on_message up to their loop; a connection without an entry gets one.
on_message ==
  /\ pc = "poll" /\ (open \/ late)
  /\ \E k \in 1 .. Len(inbox) :
       /\ inbox' = After(inbox, k)
       /\ cache' = (IF entry THEN cache ELSE << >>) \o SubSeq(inbox, 1, k)
  /\ entry' = TRUE /\ late' = FALSE /\ pc' = "loop"
  /\ buf' = IF protocol = "binary" THEN cache' ELSE << >>
  /\ UNCHANGED <<protocol, open, answered, services, client, handled>>

\* EPOLLERR closes the connection, and on_read follows for the EPOLLIN of the same
\* report; the end of the stream or a read error only closes it.
connection_fails ==
  /\ pc = "poll" /\ open /\ close_connection
  /\ late' \in {FALSE, inbox # << >>}
  /\ UNCHANGED <<protocol, cache, buf, pc, inbox, services, client, handled>>

\* JsonRpcServer: one line, answered before the next one is looked for.
json_line ==
  LET n == FirstFrame(cache) IN
  /\ pc = "loop" /\ protocol = "json" /\ n > 0
  /\ cache' = After(cache, n)
  /\ LET id == cache[n].id
         line == LineOf(cache, n)
     IN IF line.kind = "blank" THEN UNCHANGED <<connection, pc, handled>>
        ELSE /\ handled' = Append(handled, id)
             /\ IF line.kind # "garbage" /\ (\E i \in DOMAIN line.reqs : bridge_waits(line.reqs[i]))
                THEN pc' = "waiting" /\ UNCHANGED connection
                ELSE /\ UNCHANGED pc
                     /\ IF json_dispatch(line) = {} THEN UNCHANGED connection ELSE send(id)
  /\ UNCHANGED <<protocol, late, buf, inbox, services, client>>

\* The service behind the bridge is done: set_value wakes the loop thread.
bridge_returns ==
  /\ pc = "waiting" /\ pc' = "loop"
  /\ IF json_dispatch(asked[Last(handled)]) = {} THEN UNCHANGED connection ELSE send(Last(handled))
  /\ UNCHANGED <<protocol, late, cache, buf, inbox, services, client, handled>>

\* Mutant: one line per message.
json_end_early ==
  /\ pc = "loop" /\ protocol = "json" /\ pc' = "poll"
  /\ UNCHANGED <<protocol, connection, late, cache, buf, inbox, services, client, handled>>

json_end ==
  /\ pc = "loop" /\ protocol = "json" /\ (FirstFrame(cache) = 0 \/ ~entry)
  /\ pc' = "poll"
  /\ UNCHANGED <<protocol, connection, late, cache, buf, inbox, services, client, handled>>

\* BinaryRpcServer: one decoded frame.  What lost its header is as corrupt as a
\* wrong magic number.
Corrupt == buf # << >> /\ (buf[1].last \/ ~asked[buf[1].id].magic)
BadMeta == FirstFrame(buf) > 0 /\ ~asked[buf[1].id].meta

binary_frame ==
  LET n == FirstFrame(buf) IN
  /\ pc = "loop" /\ protocol = "binary" /\ n > 0 /\ ~Corrupt /\ ~BadMeta
  /\ buf' = After(buf, n)
  /\ LET id == buf[n].id
         outcome == binary_dispatch(asked[id])
     IN /\ handled' = Append(handled, id)
        /\ calls' = IF outcome = "async" THEN calls \cup {id} ELSE calls
        /\ IF outcome = "sync" THEN send(id) ELSE UNCHANGED connection
  /\ UNCHANGED <<protocol, late, cache, pc, inbox, queued, client>>

\* Mutant: the answer is queued while the service keeps its call.
service_done_twice ==
  /\ \E id \in calls : queued' = Append(queued, id)
  /\ UNCHANGED <<protocol, connection, late, cache, buf, pc, inbox, calls, client, handled>>

\* BinaryRpcClosure::Run on a thread of the service: send queues a functor on the loop.
service_done ==
  /\ \E id \in calls : calls' = calls \ {id} /\ queued' = Append(queued, id)
  /\ UNCHANGED <<protocol, connection, late, cache, buf, pc, inbox, client, handled>>

\* The loop runs the functor when it is through with its reports.
run_queued_send ==
  /\ pc = "poll" /\ ~late /\ queued # << >>
  /\ send(Head(queued)) /\ queued' = Tail(queued)
  /\ UNCHANGED <<protocol, late, cache, buf, pc, inbox, calls, client, handled>>

binary_corrupt ==
  /\ pc = "loop" /\ protocol = "binary" /\ (Corrupt \/ BadMeta)
  /\ close_connection
  /\ pc' = "poll" /\ buf' = << >>
  /\ UNCHANGED <<protocol, late, cache, inbox, services, client, handled>>

\* Mutant: the remainder is not saved over what was consumed.
binary_end_stale ==
  /\ pc = "loop" /\ protocol = "binary" /\ FirstFrame(buf) = 0 /\ ~Corrupt
  /\ buf' = << >> /\ pc' = "poll"
  /\ UNCHANGED <<protocol, connection, late, cache, inbox, services, client, handled>>

\* What was not consumed is kept for the next message.
binary_end ==
  /\ pc = "loop" /\ protocol = "binary" /\ FirstFrame(buf) = 0 /\ ~Corrupt
  /\ cache' = buf /\ buf' = << >> /\ pc' = "poll"
  /\ UNCHANGED <<protocol, connection, late, inbox, services, client, handled>>

-----------------------------------------------------------------------------
Init ==
  /\ protocol \in {"binary", "json"}
  /\ open = TRUE /\ late = FALSE /\ entry = FALSE /\ cache = << >> /\ buf = << >>
  /\ pc = "poll" /\ inbox = << >> /\ calls = {} /\ queued = << >>
  /\ asked = << >> /\ sent = << >> /\ handled = << >> /\ answered = << >>

loop == json_line \/ json_end \/ binary_frame \/ binary_corrupt \/ binary_end

Next ==
  \/ client_sends \/ on_message \/ connection_fails \/ loop \/ bridge_returns
  \/ service_done \/ run_queued_send

\* A readable connection is reported again, a handler runs to its end, and a service
\* that took a call answers it.
Spec == Init /\ [][Next]_vars
        /\ WF_vars(on_message) /\ WF_vars(loop)
        /\ WF_vars(bridge_returns) /\ WF_vars(service_done) /\ WF_vars(run_queued_send)
-----------------------------------------------------------------------------
\* The units that have arrived, and the frames that are whole among them.
Received == SubSeq(sent, 1, Len(sent) - Len(inbox))
WholeFrames == {Received[k].id : k \in {j \in DOMAIN Received : Received[j].last}}

Ascending(s) == \A i, j \in DOMAIN s : i < j => s[i] < s[j]

\* "If there is no id field, the request is a notification" (JsonRpcRouter 70).
IsNotification(req) == req.object /\ req.id = "none"

\* Whether the client may count on an answer: a binary call that a service takes, a
\* JSON line that is not made of notifications.
Due(frame) ==
  IF protocol = "binary" THEN frame.magic /\ frame.meta /\ frame.known /\ frame.service # "throws"
  ELSE CASE frame.kind = "blank" -> FALSE
         [] frame.kind = "garbage" -> TRUE
         [] OTHER -> frame.reqs = << >> \/ \E i \in DOMAIN frame.reqs : ~IsNotification(frame.reqs[i])

\* A notification the router finds fault with: its version, method or parameters are
\* wrong, or its handler throws.
Faulty(req) ==
  IsNotification(req) /\ (~req.version \/ ~req.params \/ req.method # "known" \/ req.service = "throws")

\* A JSON line with a faulty notification.
HasFaulty(frame) ==
  /\ protocol = "json" /\ frame.kind \in {"single", "batch"}
  /\ \E i \in DOMAIN frame.reqs : Faulty(frame.reqs[i])

\* However the bytes are split and glued by the stream, each frame is dispatched once
\* and in order (JsonRpcServer 55-74, BinaryRpcServer 76-99): when on_message has
\* returned on an open connection every whole frame was, and connectionBuffers_ holds
\* exactly the beginning of the frame that is not whole.
FramesReassembled ==
  pc = "poll" /\ open =>
    /\ Ascending(handled)
    /\ ToSet(handled) = {i \in WholeFrames : protocol = "binary" \/ asked[i].kind # "blank"}
    /\ \E n \in 0 .. Len(Received) :
         /\ (IF entry THEN cache ELSE << >>) = After(Received, n)
         /\ \A k \in DOMAIN Received : k <= n <=> Received[k].id \in WholeFrames
Inv == TypeOK /\ FramesReassembled

\* Every dispatched frame that is due an answer gets one.  JSON lines are answered in
\* their order (JsonRpcServer 74-80), and besides the due ones only lines with a faulty
\* notification are: comments say that none is, but the router finds the fault first
\* (JsonRpcRouter 82-133).  A binary call is with its service, in the queue of the loop or
\* answered (BinaryRpcServer 93-97), in one of these places once, and no other call is.
AnswersMatch ==
  LET due == {i \in ToSet(handled) : Due(asked[i])}
      faulty == {i \in ToSet(handled) : HasFaulty(asked[i])} IN
  pc = "poll" /\ open =>
    IF protocol = "json"
    THEN /\ Ascending(answered)
         /\ due \subseteq ToSet(answered) /\ ToSet(answered) \subseteq due \cup faulty
    ELSE /\ ToSet(answered) \cup ToSet(queued) \cup calls = due
         /\ ToSet(answered) \cap calls = {} /\ ToSet(queued) \cap (ToSet(answered) \cup calls) = {}
         /\ IsInjective(answered) /\ IsInjective(queued)

\* What is due an answer is answered, or the connection is closed, provided that every
\* service that takes a call ends it: no frame waits for the bytes of a later one, and
\* no answer stays with the loop.
AnswerComes ==
  \A i \in 1 .. MaxFrames :
    (i \in DOMAIN asked /\ Due(asked[i])) ~> (i \in ToSet(answered) \/ ~open)
=============================================================================
