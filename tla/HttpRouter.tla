----------------------------- MODULE HttpRouter -----------------------------
(***************************************************************************)
(* http/HttpRouter and the application of examples/StaticFileHttpServer:   *)
(* which response a request gets.  A path is a sequence of names, a        *)
(* response its status, the pieces it is sent in (the head with the body   *)
(* in one piece, or the head and then a file) and whether it closes the    *)
(* connection.  Header texts, content types and dates are left out.        *)
(***************************************************************************)
EXTENDS Naturals, Sequences, SequencesExt

CONSTANTS exactRoutes,     \* exactRoutes_: pairs of a method and a path
          prefixRoutes,    \* prefixRoutes_: prefixes of the file server, in order of registration
          FileSize         \* the files on disk: a function from paths to 0 (empty) or 1

ASSUME RouterAssumption ==
  /\ \A route \in exactRoutes : Len(route) = 2
  /\ \A path \in DOMAIN FileSize : FileSize[path] \in {0, 1}

Response(status, file, close) == [status |-> status, file |-> file, close |-> close]

\* HttpResponse::plain_text closes the connection.
plain_text(status) == Response(status, 0, TRUE)

find_exact_handler(req) == <<req.method, req.path>> \in exactRoutes

find_allowed_methods(path) == {route[1] : route \in {r \in exactRoutes : r[2] = path}}

\* The first registered prefix of the path; 0 when there is none.
find_prefix_handler(path) ==
  SelectInSeq(prefixRoutes, LAMBDA prefix : IsPrefix(prefix, path))

\* StaticFileHttpServer: a directory stands for its index.html, and no path leaves
\* the base directory.
resolve_path(path) ==
  CASE ".." \in Range(path) -> <<"__forbidden__">>
    [] ".." \notin Range(path) /\ (\E f \in DOMAIN FileSize : IsStrictPrefix(path, f)) ->
         Append(path, "index.html")
    [] OTHER -> path

\* A file is sent after its header.
package_file_response(path) ==
  IF path \in DOMAIN FileSize THEN Response(200, FileSize[path], FALSE) ELSE plain_text(404)

on_http_request(req) ==
  LET path == resolve_path(req.path) IN
  CASE req.method \notin {"GET", "HEAD"} -> plain_text(405)
    [] req.method = "HEAD" /\ path \in DOMAIN FileSize -> Response(200, 0, FALSE)
    [] OTHER -> package_file_response(path)

\* Handlers of exact routes answer with a text and keep the connection.
dispatch(req) ==
  CASE find_exact_handler(req) -> Response(200, 0, FALSE)
    [] ~find_exact_handler(req) /\ find_allowed_methods(req.path) # {} -> plain_text(405)
    [] find_allowed_methods(req.path) = {} /\ find_prefix_handler(req.path) # 0 -> on_http_request(req)
    [] OTHER -> plain_text(404)
=============================================================================
