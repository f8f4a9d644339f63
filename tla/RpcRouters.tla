----------------------------- MODULE RpcRouters -----------------------------
(***************************************************************************)
(* What a received frame is answered: rpc/binary/BinaryRpcRouter with the  *)
(* header check of BinaryRpcCodec, rpc/json/JsonRpcRouter, and the bridge  *)
(* of UnifiedRpcServer that lets a service answer both.                    *)
(*                                                                         *)
(* A service answers before its CallMethod returns ("sync"), later from a  *)
(* thread of its own ("async"), or throws.                                 *)
(***************************************************************************)
EXTENDS Naturals, Sequences, SequencesExt

\* A frame of the binary protocol: its magic number is right, its RpcMeta parses,
\* it names a service and a method there are and its payload parses, and what the
\* service then does.
BinaryFrame == [magic : BOOLEAN, meta : BOOLEAN, known : BOOLEAN, service : {"sync", "async", "throws"}]

\* BinaryRpcRouter::dispatch; the server only logs an exception.
binary_dispatch(frame) ==
  IF ~frame.known \/ frame.service = "throws" THEN "exception" ELSE frame.service

\* One request object of JSON-RPC, as dispatch_single tells them apart.
JsonRequest == [object : BOOLEAN, id : {"none", "valid", "invalid"}, version : BOOLEAN,
                method : {"known", "unknown", "invalid"}, params : BOOLEAN,
                service : {"sync", "async", "throws"}]

\* A response names the id of its request or null; code 0 stands for a result.
Reply(code, id) == <<[code |-> code, id |-> IF id = "valid" THEN "own" ELSE "null"]>>

\* dispatch_single; the reply of a notification is empty, that of a wrong one is not.
dispatch_single(req) ==
  CASE ~req.object -> Reply(32600, "none")
    [] req.object /\ req.id = "invalid" -> Reply(32600, "none")
    [] req.object /\ req.id # "invalid" /\ (~req.version \/ req.method = "invalid") -> Reply(32600, req.id)
    [] req.object /\ req.id # "invalid" /\ req.version /\ req.method = "unknown" -> Reply(32601, req.id)
    [] OTHER ->
         CASE ~req.params -> Reply(32602, req.id)
           [] req.params /\ req.service = "throws" -> Reply(32603, req.id)
           [] OTHER -> IF req.id = "none" THEN << >> ELSE Reply(0, req.id)

\* Whether the handler is invoked, and then waits for its service: the bridge
\* blocks the loop thread on a future until the service is done.
bridge_waits(req) ==
  /\ req.object /\ req.id # "invalid" /\ req.version /\ req.method = "known" /\ req.params
  /\ req.service = "async"

\* A line is blank, not JSON, a request, or a batch of requests.
JsonLine ==
  [kind : {"blank", "garbage"}] \cup [kind : {"single"}, reqs : [1 .. 1 -> JsonRequest]]
    \cup [kind : {"batch"}, reqs : Seq(JsonRequest)]

\* dispatch: the replies that make up the response line, none for no line; their
\* order, that of the requests, is left out.
json_dispatch(line) ==
  CASE line.kind = "garbage" -> {Reply(32700, "none")}
    [] line.kind = "batch" /\ line.reqs = << >> -> {Reply(32600, "none")}
    [] OTHER -> {dispatch_single(line.reqs[i]) : i \in DOMAIN line.reqs} \ {<< >>}
=============================================================================
