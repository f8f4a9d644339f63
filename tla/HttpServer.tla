----------------------------- MODULE HttpServer -----------------------------
(***************************************************************************)
(* http/HttpServer with the HttpContext and the TlsConnection of a         *)
(* connection: from the bytes a client sends to the bytes the kernel takes *)
(* for it.  One connection is followed at a time, and others after it with *)
(* the same address.                                                       *)
(*                                                                         *)
(* What the client sends is a sequence of units: a request is its head and *)
(* its tail (anything up to its last byte), or one malformed unit; on a    *)
(* TLS server a unit is one record, hello and fin are the client's flights *)
(* and junk is a record that does not decrypt.  What the server sends is a *)
(* sequence of pieces [id, part, of, as]: part 1 .. of of the response to  *)
(* request number id, and whether it left as clear text, in records of the *)
(* session ("tls") or through the kernel's TLS ("ktls"); pieces with id 0  *)
(* are the handshake's.                                                    *)
(*                                                                         *)
(* The connection below is TcpConnection's promise: output leaves in order *)
(* and partly, a send on a pending file is an error, errors and            *)
(* force_close drop what has not left.  on_message runs to its end on the  *)
(* loop thread: pc is where it stands, and the kernel's reports wait.      *)
(***************************************************************************)
EXTENDS HttpRouter, Integers, FiniteSets

CONSTANTS Requests,        \* the requests a client makes: records [method, path]
          TlsModes,        \* how the server may be configured: subset of None, MemoryBio, KernelTls
          MaxRequests      \* bound: requests on one connection

ASSUME HttpAssumption ==
  /\ TlsModes \subseteq {"None", "MemoryBio", "KernelTls"}
  /\ MaxRequests \in Nat \ {0}

VARIABLES
  server,        \* tlsMode_, None when there is no tlsConfig_
  open,          \* ~TcpConnection::isClosed_
  backlog,       \* TcpConnection::writeBuffer_
  file,          \* TcpConnection::pendingFile_: a sequence of at most one piece
  registered,    \* the connection has an entry in connectionStates_
  state,         \* its ConnectionState, which on_message holds while it runs
  pc,            \* "poll", or where on_message stands: "offload", "parse"
  payload,       \* the units on_message has not parsed yet
  inbox,         \* units the client sent and the server has not received
  shake,         \* flights of the handshake the client sent: 0, 1 or 2
  asked,         \* history: the requests of this connection
  wire,          \* history: the pieces the kernel took
  handled,       \* history: the responses of this connection, in order
  short          \* history: requests whose file could not be read to its end

tcp == <<open, backlog, file, registered, wire>>
client == <<inbox, shake, asked>>
vars == <<server, tcp, state, pc, payload, client, handled, short>>

Piece(id, part, of, as) == [id |-> id, part |-> part, of |-> of, as |-> as]
Handshake == Piece(0, 1, 1, "tls")
Unit(id, kind) == [id |-> id, kind |-> kind]

Bad == plain_text(400)
Malformed == [method |-> "malformed", path |-> << >>]

TypeOK ==
  /\ server \in TlsModes
  /\ open \in BOOLEAN /\ registered \in BOOLEAN
  /\ Len(file) <= 1 /\ (~open => backlog \o file = << >>)
  /\ state \in [tls : {"none", "HANDSHAKING", "ESTABLISHED", "ERROR"}, bios : BOOLEAN,
                tlsMode : {"None", "MemoryBio", "KernelTls"},
                isKtlsOffloaded : BOOLEAN, receives : BOOLEAN, request : 0 .. MaxRequests]
  /\ pc \in {"poll", "offload", "parse"} /\ (pc = "poll" => payload = << >>)
  /\ short \subseteq 1 .. MaxRequests

-----------------------------------------------------------------------------
(* The connection: what a call of it does to tcp. *)

\* close_connection: the close callback removes the entry of connectionStates_.
close_connection ==
  /\ open' = FALSE /\ backlog' = << >> /\ file' = << >> /\ registered' = FALSE

take(all, k) ==
  /\ wire' = wire \o SubSeq(all, 1, k)
  /\ backlog' = SubSeq(all, k + 1, Len(all))

\* send, one or several times in a row: the kernel takes some of it, or fails.
send(pieces) ==
  LET all == backlog \o pieces IN
  \/ ~open /\ UNCHANGED tcp
  \/ open /\ file # << >> /\ close_connection /\ UNCHANGED wire
  \/ open /\ file = << >> /\ \E k \in 0 .. Len(all) :
       take(all, k) /\ UNCHANGED <<open, file, registered>>
  \/ open /\ file = << >> /\ \E k \in 0 .. Len(all) - 1 :
       close_connection /\ wire' = wire \o SubSeq(all, 1, k)

\* Mutant: the pending file is not looked at.
send_file_with_header_unchecked(header, body) ==
  \/ ~open /\ UNCHANGED tcp
  \/ open /\ backlog' = Append(backlog, header) /\ file' = <<body>>
     /\ UNCHANGED <<open, registered, wire>>

\* send_file_with_header: the header waits for the loop, the file behind it.
send_file_with_header(header, body) ==
  \/ ~open /\ UNCHANGED tcp
  \/ open /\ file # << >> /\ close_connection /\ UNCHANGED wire
  \/ open /\ file = << >> /\ backlog' = Append(backlog, header) /\ file' = <<body>>
     /\ UNCHANGED <<open, registered, wire>>

\* The same calls followed by force_close: whatever has not left is dropped.
send_and_close(pieces) ==
  \/ ~open /\ UNCHANGED tcp
  \/ /\ open /\ close_connection
     /\ \E k \in 0 .. IF file = << >> THEN Len(backlog \o pieces) ELSE 0 :
          wire' = wire \o SubSeq(backlog \o pieces, 1, k)

\* TcpConnection::on_write: the buffer first, then the file; a file that has
\* become shorter ends early without an error.
on_write ==
  /\ pc = "poll" /\ open /\ backlog \o file # << >>
  /\ \/ \E k \in 1 .. Len(backlog) : take(backlog, k) /\ UNCHANGED <<open, file, registered, short>>
     \/ /\ file # << >> /\ wire' = wire \o backlog \o file
        /\ backlog' = << >> /\ file' = << >> /\ UNCHANGED <<open, registered, short>>
     \/ /\ file # << >> /\ wire' = wire \o backlog
        /\ backlog' = << >> /\ file' = << >> /\ short' = short \cup {file[1].id}
        /\ UNCHANGED <<open, registered>>
  /\ UNCHANGED <<server, state, pc, payload, client, handled>>

\* A write error, or the end of the client's stream.
connection_fails ==
  /\ pc = "poll" /\ open /\ close_connection
  /\ UNCHANGED <<server, wire, state, pc, payload, client, handled, short>>

-----------------------------------------------------------------------------
(* The client: it may send several requests without waiting. *)

client_handshake ==
  /\ open /\ server # "None" /\ shake < 2
  /\ shake = 1 => Handshake \in Range(wire)
  /\ shake' = shake + 1
  /\ inbox' = Append(inbox, Unit(0, IF shake = 0 THEN "hello" ELSE "fin"))
  /\ UNCHANGED <<server, tcp, state, pc, payload, asked, handled, short>>

client_sends ==
  /\ open /\ Len(asked) < MaxRequests
  /\ LET id == Len(asked) + 1 IN
     \/ \E req \in Requests :
          /\ server # "None" => shake = 2
          /\ asked' = Append(asked, req)
          /\ inbox' = inbox \o <<Unit(id, "head"), Unit(id, "tail")>>
     \/ /\ asked' = Append(asked, Malformed)
        /\ \/ server # "None" /\ inbox' = Append(inbox, Unit(id, "junk"))
           \/ (server # "None" => shake = 2) /\ inbox' = Append(inbox, Unit(id, "bad"))
  /\ UNCHANGED <<server, tcp, shake, state, pc, payload, handled, short>>

-----------------------------------------------------------------------------
(* TlsConnection *)

ensure_tls_session == state.bios /\ state.tls # "ERROR"

ReadResult(result, tls, plaintext, outbound) ==
  [result |-> result, tls |-> tls, plaintext |-> plaintext, outbound |-> outbound]

Junk(units) == \E i \in DOMAIN units : units[i].kind = "junk"

\* A record that does not decrypt loses the plaintext read before it.
read_plaintext(chunk) ==
  LET fin  == SelectInSeq(chunk, LAMBDA u : u.kind = "fin")
      rest == IF state.tls = "ESTABLISHED" THEN chunk ELSE SubSeq(chunk, fin + 1, Len(chunk))
      out  == IF state.tls = "HANDSHAKING" THEN <<Handshake>> ELSE << >>
  IN CASE ~ensure_tls_session -> ReadResult("Error", state.tls, << >>, << >>)
       [] ensure_tls_session /\ state.tls = "HANDSHAKING" /\ fin = 0 ->
            IF Junk(chunk) THEN ReadResult("Error", "ERROR", << >>, << >>)
                           ELSE ReadResult("NeedMoreData", "HANDSHAKING", << >>, out)
       [] ensure_tls_session /\ state.tls = "HANDSHAKING" /\ Junk(SubSeq(chunk, 1, fin)) ->
            ReadResult("Error", "ERROR", << >>, << >>)
       [] OTHER ->
            IF Junk(rest) THEN ReadResult("Error", "ERROR", << >>, out)
            ELSE ReadResult(IF rest = << >> THEN "NeedMoreData" ELSE "Ready", "ESTABLISHED", rest, out)

\* enable_ktls_offload fails before it replaced the BIOs, or after it (both are
\* then lost), or succeeds: that the kernel also decrypts is not verified.  The
\* replaced BIO writes one record to the socket, past the write buffer.
enable_ktls_offload ==
  \/ state' = [state EXCEPT !.tlsMode = "MemoryBio"] /\ UNCHANGED wire
  \/ /\ wire' = IF open THEN Append(wire, Handshake) ELSE wire
     /\ \/ state' = [state EXCEPT !.bios = FALSE, !.tlsMode = "MemoryBio"]
        \/ \E receives \in BOOLEAN :
             state' = [state EXCEPT !.bios = FALSE, !.isKtlsOffloaded = TRUE, !.receives = receives]

-----------------------------------------------------------------------------
(* HttpServer *)

\* on_connect; the session of the connection may fail to be created.
on_connect ==
  /\ pc = "poll" /\ ~open
  /\ open' = TRUE /\ registered' = TRUE /\ backlog' = << >> /\ file' = << >>
  /\ inbox' = << >> /\ shake' = 0 /\ asked' = << >>
  /\ wire' = << >> /\ handled' = << >> /\ short' = {}
  /\ \E ssl \in IF server = "None" THEN {FALSE} ELSE BOOLEAN :
       state' = [tls |-> IF ssl THEN "HANDSHAKING" ELSE "none", bios |-> ssl,
                 tlsMode |-> IF ssl THEN server ELSE "None",
                 isKtlsOffloaded |-> FALSE, receives |-> FALSE, request |-> 0]
  /\ UNCHANGED <<server, pc, payload>>

\* The first half of on_message: receive, and read the records.
on_message ==
  /\ pc = "poll" /\ open /\ registered
  /\ \E k \in 1 .. Len(inbox) :
       LET chunk == SubSeq(inbox, 1, k)
           read  == read_plaintext(chunk)
       IN /\ inbox' = SubSeq(inbox, k + 1, Len(inbox))
          /\ IF state.tls # "none" /\ ~state.isKtlsOffloaded
             THEN /\ state' = [state EXCEPT !.tls = read.tls]
                  /\ IF read.outbound = << >> THEN UNCHANGED tcp ELSE send(read.outbound)
                  /\ pc' = IF read.result = "Error" THEN "poll" ELSE "offload"
                  /\ payload' = IF read.result = "Error" THEN << >> ELSE read.plaintext
             ELSE /\ pc' = IF server # "None" /\ ~state.isKtlsOffloaded THEN "poll" ELSE "parse"
                  /\ payload' = CASE pc' = "poll" -> << >>
                                  [] pc' = "parse" /\ (server = "None" \/ state.receives) -> chunk
                                  [] OTHER -> [i \in 1 .. k |-> Unit(chunk[i].id, "bad")]
                  /\ UNCHANGED <<state, tcp>>
  /\ UNCHANGED <<server, shake, asked, handled, short>>

try_offload ==
  /\ pc = "offload"
  /\ IF state.tlsMode = "KernelTls" /\ state.tls = "ESTABLISHED"
     THEN enable_ktls_offload ELSE UNCHANGED <<state, wire>>
  /\ pc' = IF payload = << >> THEN "poll" ELSE "parse"
  /\ UNCHANGED <<server, open, backlog, file, registered, payload, client, handled, short>>

\* send_http_response: what it does to the connection, and whether it got as far
\* as the close that some responses ask for.
Pieces(id, resp, as) == [part \in 1 .. 1 + resp.file |-> Piece(id, part, 1 + resp.file, as)]

send_plain_response(id, resp, as) ==
  LET pieces == Pieces(id, resp, as) IN
  CASE resp.file = 1 -> send_file_with_header(pieces[1], pieces[2])
    [] resp.file = 0 /\ resp.close -> send_and_close(pieces)
    [] OTHER -> send(pieces)

\* Encrypted piece by piece; a file that cannot be read to its end is given up.
send_memory_bio_response(id, resp) ==
  LET pieces == Pieces(id, resp, "tls") IN
  \/ UNCHANGED short /\ (IF resp.close THEN send_and_close(pieces) ELSE send(pieces))
  \/ resp.file = 1 /\ send(<<pieces[1]>>) /\ short' = short \cup {id}

tls_mode_of == IF state.isKtlsOffloaded THEN "Offloaded" ELSE state.tlsMode

can_send ==
  CASE tls_mode_of = "None" -> server = "None"
    [] tls_mode_of = "MemoryBio" -> ensure_tls_session /\ state.tls = "ESTABLISHED"
    [] tls_mode_of = "Offloaded" -> TRUE
    [] OTHER -> FALSE

\* Mutant: falls back to clear text when the session cannot encrypt.
send_http_response_fallback(id, resp) ==
  /\ handled' = Append(handled, [id |-> id, status |-> resp.status, close |-> resp.close, sent |-> can_send])
  /\ send_plain_response(id, resp, "clear") /\ UNCHANGED short

send_http_response(id, resp) ==
  /\ handled' = Append(handled, [id |-> id, status |-> resp.status, close |-> resp.close, sent |-> can_send])
  /\ CASE ~can_send -> UNCHANGED <<tcp, short>>
       [] can_send /\ tls_mode_of = "MemoryBio" -> send_memory_bio_response(id, resp)
       [] can_send /\ tls_mode_of = "None" -> send_plain_response(id, resp, "clear") /\ UNCHANGED short
       [] OTHER -> send_plain_response(id, resp, "ktls") /\ UNCHANGED short

\* HttpContext::parse up to the end of a request: its length in units, 0 when the
\* payload ends before it, and the request whose head the parser holds.
Consumed == SelectInSeq(payload, LAMBDA u : u.kind # "head")
Held(n) == IF n > 1 THEN payload[n - 1].id ELSE state.request

reset == state' = [state EXCEPT !.request = 0]

parse_incomplete ==
  /\ pc = "parse" /\ Consumed = 0
  /\ IF payload = << >> THEN UNCHANGED state
                        ELSE state' = [state EXCEPT !.request = Last(payload).id]
  /\ pc' = "poll" /\ payload' = << >>
  /\ UNCHANGED <<server, tcp, client, handled, short>>

\* Mutants: the loop does not notice that the connection is gone; what is left of the
\* payload is forgotten.
after_reply_blind(n) ==
  /\ pc' = "parse" /\ payload' = SubSeq(payload, n + 1, Len(payload))

after_reply_once(n) ==
  /\ pc' = "poll" /\ payload' = << >>

\* The loop goes on unless the response closed the connection.
after_reply(n) ==
  /\ pc' = IF registered' THEN "parse" ELSE "poll"
  /\ payload' = IF registered' THEN SubSeq(payload, n + 1, Len(payload)) ELSE << >>

reply_complete_request ==
  LET n == Consumed IN
  /\ pc = "parse" /\ n > 0 /\ payload[n].kind = "tail" /\ Held(n) # 0
  /\ send_http_response(Held(n), dispatch(asked[Held(n)]))
  /\ reset /\ after_reply(n)
  /\ UNCHANGED <<server, client>>

\* What is left of the payload is not looked at.
reject ==
  LET n == Consumed IN
  /\ pc = "parse" /\ n > 0 /\ (payload[n].kind # "tail" \/ Held(n) = 0)
  /\ send_http_response(payload[n].id, Bad)
  /\ reset /\ pc' = "poll" /\ payload' = << >>
  /\ UNCHANGED <<server, client>>

-----------------------------------------------------------------------------
Init ==
  /\ server \in TlsModes
  /\ open = FALSE /\ registered = FALSE /\ backlog = << >> /\ file = << >>
  /\ state = [tls |-> "none", bios |-> FALSE, tlsMode |-> "None",
              isKtlsOffloaded |-> FALSE, receives |-> FALSE, request |-> 0]
  /\ pc = "poll" /\ payload = << >> /\ inbox = << >> /\ shake = 0
  /\ asked = << >> /\ wire = << >> /\ handled = << >> /\ short = {}

handler == try_offload \/ parse_incomplete \/ reply_complete_request \/ reject

Next ==
  \/ on_connect \/ client_handshake \/ client_sends
  \/ on_message \/ handler
  \/ on_write \/ connection_fails

\* epoll is level triggered: what can be read or written is reported again, and a
\* handler runs to its end.
Spec == Init /\ [][Next]_vars
        /\ WF_vars(on_message) /\ WF_vars(handler) /\ WF_vars(on_write)

-----------------------------------------------------------------------------
\* Everything the client was or will be sent.
Sent == wire \o backlog \o file

\* Whatever the client pipelines, and however its bytes and the kernel's buffer
\* cut them up, the responses leave in the order of the requests, one for each,
\* and none begins inside another, nor does a record of the handshake; only a
\* file that became shorter than its header says is left incomplete
\* (HttpServer::on_message's loop, send_http_response, enable_ktls_offload,
\* TcpConnection's pending file).
AnswersInOrder ==
  \A i \in DOMAIN Sent :
    LET b == Sent[i]
        a == Sent[i - 1]
    IN b.id # 0 =>
         IF i = 1 \/ a.id = 0 THEN b.id = 1 /\ b.part = 1
         ELSE IF a.part < a.of /\ a.id \notin short
              THEN b.id = a.id /\ b.part = a.part + 1
              ELSE b.id = a.id + 1 /\ b.part = 1

\* No request behind a response that closed its connection reaches a handler,
\* although it may lie in the same payload (on_message looks its entry up again).
ClosingIsLast ==
  \A i \in 1 .. Len(handled) - 1 : ~(handled[i].close /\ handled[i].sent)

\* A server with TLS sends no response that is not encrypted, whatever became of
\* the session of the connection: not created, failed, offloaded, or fallen back.
NeverInTheClear ==
  server # "None" => \A i \in DOMAIN Sent : Sent[i].as # "clear"

Inv == TypeOK /\ NeverInTheClear

\* The conditions in which the code leaves a connection open and answers no more.
Silent ==
  /\ server # "None"
  /\ state.tls \in {"none", "ERROR"} \/ (~state.bios /\ ~state.isKtlsOffloaded)

Answered(id) == \E i \in DOMAIN wire : wire[i].id = id /\ wire[i].part = wire[i].of

\* A request the client sent is answered to its last byte, unless the connection is
\* closed, its TLS session is lost, or the file became shorter meanwhile.
RequestEnds ==
  \A id \in 1 .. MaxRequests :
    Len(asked) >= id ~> Answered(id) \/ ~open \/ Silent \/ id \in short
=============================================================================
