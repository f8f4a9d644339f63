---------------------------- MODULE MCRpcServer ----------------------------
(***************************************************************************)
(* One frame of each kind the two servers tell apart.                      *)
(***************************************************************************)
EXTENDS RpcServer

Frame(service) == [magic |-> TRUE, meta |-> TRUE, known |-> TRUE, service |-> service]
MCBinaryFrames ==
  {Frame("sync"), Frame("async"), [Frame("sync") EXCEPT !.known = FALSE],
   [Frame("sync") EXCEPT !.meta = FALSE], [Frame("sync") EXCEPT !.magic = FALSE]}

Call(service) == [object |-> TRUE, id |-> "valid", version |-> TRUE, method |-> "known",
                  params |-> TRUE, service |-> service]
Notification == [Call("sync") EXCEPT !.id = "none"]
Single(req) == [kind |-> "single", reqs |-> <<req>>]
MCJsonLines ==
  {[kind |-> "blank"], [kind |-> "garbage"], Single(Call("sync")), Single(Notification),
   Single([Notification EXCEPT !.method = "unknown"]), Single([Notification EXCEPT !.service = "async"]),
   [kind |-> "batch", reqs |-> <<Notification, Call("async")>>], [kind |-> "batch", reqs |-> << >>]}
=============================================================================
