---------------------------- MODULE MCHttpServer ----------------------------
(***************************************************************************)
(* One exact route, and the file server behind the prefix s, with one      *)
(* file, which its directory stands for.                                   *)
(***************************************************************************)
EXTENDS HttpServer

Page  == <<"page">>
Dir   == <<"s">>

MCExactRoutes  == {<<"GET", Page>>}
MCPrefixRoutes == << <<"s">> >>
MCFileSize     == [path \in {Append(Dir, "index.html")} |-> 1]

Request(method, path) == [method |-> method, path |-> path]
MCRequests == {Request("GET", Page), Request("POST", Page), Request("GET", Dir)}
=============================================================================
