------------------------------ MODULE StarMind ------------------------------
(***************************************************************************)
(* examples/StarMind/StarMindServer: the login tokens (AuthService), the   *)
(* chat histories (SessionStore) and the handlers that use them.  The      *)
(* handlers of one HttpServer run at the same time on its loop threads;    *)
(* each critical section of the two mutexes is one action.                 *)
(*                                                                         *)
(* get_or_create returns a reference that outlives its lock: handle_chat   *)
(* reads and extends the history through it without one, before and after  *)
(* the blocking call of the language model, while a logout may free the    *)
(* Session under it.  A Session is an address of messages, and a free      *)
(* address may be given to the next Session; what is pushed to a free one  *)
(* is lost.  (It may also corrupt the heap, as two pushes at once may;     *)
(* the model keeps each access whole.)  The clock does not go back.        *)
(***************************************************************************)
EXTENDS Integers, Sequences, SequencesExt, Functions, FiniteSets

CONSTANTS Threads,       \* loop threads of the HttpServer
          Tokens,        \* what generate_hex_token32 may return, never twice
          NoToken,       \* the empty string: a request without the cookie
          Ttl,           \* auth.token_ttl_seconds
          Limit,         \* llm.max_history_messages
          MaxTime,       \* bound: the clock
          MaxRequests    \* bound: requests

ASSUME StarMindAssumption ==
  NoToken \notin Tokens /\ Ttl \in Nat \ {0} /\ Limit \in Nat \ {0} /\ MaxTime \in Nat /\ MaxRequests \in Nat

Cookies   == Tokens \cup {NoToken}
Addresses == 1 .. Cardinality(Cookies)

VARIABLES
  enabled, provider,  \* auth.enabled and llm.provider
  now,
  tokenExpiry,   \* AuthService: function from the tokens in force to their expiry
  sessions,      \* SessionStore: function from tokens to the address of the Session
  messages,      \* the Session at an address: who sent each message
  threads,       \* the request each thread handles
  requests,      \* history: number of requests
  issued,        \* history: tokens returned by issue_token
  given,         \* history: tokens a client has received
  dangled        \* history: addresses whose Session was freed while a chat held its reference

configuration == <<enabled, provider>>
store == <<sessions, messages, dangled>>
vars == <<configuration, now, tokenExpiry, store, threads, requests, issued, given>>

Idle == [pc |-> "idle", op |-> "visit", token |-> NoToken, clock |-> 0, ref |-> 0, prompt |-> << >>, good |-> TRUE]

TypeOK ==
  /\ enabled \in BOOLEAN /\ provider \in {"mock", "openai_compat", "unsupported"} /\ dangled \subseteq Addresses
  /\ now \in 0 .. MaxTime /\ requests \in 0 .. MaxRequests
  /\ given \subseteq issued /\ issued \subseteq Tokens
  /\ DOMAIN tokenExpiry \subseteq issued /\ DOMAIN sessions \subseteq Cookies
  /\ IsInjective(sessions) /\ Range(sessions) \subseteq Addresses
  /\ \A a \in Addresses : messages[a] \in Seq(Cookies)
  /\ \A t \in Threads : threads[t].token \in Cookies /\ threads[t].ref \in {0} \cup Addresses

goto(t, pc) == threads' = [threads EXCEPT ![t].pc = pc]
InChat == {"prompt", "llm", "user", "assistant"}
Without(f, S) == Restrict(f, DOMAIN f \ S)

-----------------------------------------------------------------------------
\* A request, with a token the client was given or none; visit stands for the pages.
request(t) ==
  /\ threads[t].pc = "idle" /\ requests < MaxRequests /\ requests' = requests + 1
  /\ \E op \in {"visit", "login", "logout", "clear", "chat"}, token \in given \cup {NoToken} :
       threads' = [threads EXCEPT ![t] =
         [Idle EXCEPT !.op = op, !.token = token,
            !.good = token \in DOMAIN tokenExpiry /\ tokenExpiry[token] > now,
            !.pc = CASE op = "login" -> IF enabled THEN "issue" ELSE "reply"
                     [] op = "logout" -> "invalidate"
                     [] OTHER -> IF enabled THEN "clock" ELSE "accepted"]]
  /\ UNCHANGED <<configuration, now, tokenExpiry, store, issued, given>>

\* issue_token; wrong credentials are refused.
issue_token(t) ==
  /\ threads[t].pc = "issue"
  /\ \/ goto(t, "reply") /\ UNCHANGED <<tokenExpiry, issued>>
     \/ \E token \in Tokens \ issued :
          /\ tokenExpiry' = [x \in DOMAIN tokenExpiry \cup {token} |->
                               IF x = token THEN now + Ttl ELSE tokenExpiry[x]]
          /\ issued' = issued \cup {token}
          /\ threads' = [threads EXCEPT ![t].pc = "create", ![t].token = token]
  /\ UNCHANGED <<configuration, now, store, requests, given>>

\* Mutant: sessions_[""], whatever the token.
get_or_create_shared(token, a) ==
  /\ UNCHANGED dangled
  /\ IF NoToken \in DOMAIN sessions THEN a = sessions[NoToken] /\ UNCHANGED <<sessions, messages>>
     ELSE /\ a \notin Range(sessions)
          /\ sessions' = [x \in DOMAIN sessions \cup {NoToken} |-> IF x = NoToken THEN a ELSE sessions[x]]
          /\ messages' = [messages EXCEPT ![a] = << >>]

\* SessionStore::get_or_create, a being the Session's address.
get_or_create(token, a) ==
  /\ UNCHANGED dangled
  /\ IF token \in DOMAIN sessions THEN a = sessions[token] /\ UNCHANGED <<sessions, messages>>
     ELSE /\ a \notin Range(sessions)
          /\ sessions' = [x \in DOMAIN sessions \cup {token} |-> IF x = token THEN a ELSE sessions[x]]
          /\ messages' = [messages EXCEPT ![a] = << >>]

\* The rest of handle_login: the answer carries the token.
login_session(t) ==
  /\ threads[t].pc = "create" /\ goto(t, "reply")
  /\ \E a \in Addresses : get_or_create(threads[t].token, a)
  /\ given' = given \cup {threads[t].token}
  /\ UNCHANGED <<configuration, now, tokenExpiry, requests, issued>>

\* handle_logout: invalidate_token, then SessionStore::erase.
invalidate_token(t) ==
  /\ threads[t].pc = "invalidate" /\ goto(t, "erase")
  /\ tokenExpiry' = Without(tokenExpiry, {threads[t].token})
  /\ UNCHANGED <<configuration, now, store, requests, issued, given>>

erase(t) ==
  LET token == threads[t].token IN
  /\ threads[t].pc = "erase" /\ goto(t, "reply")
  /\ sessions' = Without(sessions, {token})
  /\ dangled' = dangled \cup {threads[u].ref : u \in {v \in Threads :
                    threads[v].pc \in InChat /\ token \in DOMAIN sessions /\ threads[v].ref = sessions[token]}}
  /\ UNCHANGED <<configuration, now, tokenExpiry, messages, requests, issued, given>>

\* validate_token reads the clock, and waits for the mutex.
read_clock(t) ==
  /\ threads[t].pc = "clock"
  /\ threads' = [threads EXCEPT ![t].pc = "validate", ![t].clock = now]
  /\ UNCHANGED <<configuration, now, tokenExpiry, store, requests, issued, given>>

\* Mutant: a token that is there is valid.
validate_token_known(t) ==
  /\ threads[t].pc = "validate" /\ UNCHANGED tokenExpiry
  /\ goto(t, IF threads[t].token \in DOMAIN tokenExpiry THEN "accepted" ELSE "reply")
  /\ UNCHANGED <<configuration, now, store, requests, issued, given>>

validate_token(t) ==
  LET token == threads[t].token
      expired == {x \in DOMAIN tokenExpiry : tokenExpiry[x] <= threads[t].clock}
  IN /\ threads[t].pc = "validate"
     /\ tokenExpiry' = IF token = NoToken THEN tokenExpiry ELSE Without(tokenExpiry, expired)
     /\ goto(t, IF token \in DOMAIN tokenExpiry'
                   /\ tokenExpiry'[token] > threads[t].clock THEN "accepted" ELSE "reply")
     /\ UNCHANGED <<configuration, now, store, requests, issued, given>>

\* handle_home, handle_me, handle_page: the rest has no effect.
visit(t) ==
  /\ threads[t].pc = "accepted" /\ threads[t].op = "visit" /\ goto(t, "reply")
  /\ UNCHANGED <<configuration, now, tokenExpiry, store, requests, issued, given>>

clear_history(t) ==
  LET token == threads[t].token IN
  /\ threads[t].pc = "accepted" /\ threads[t].op = "clear" /\ goto(t, "reply")
  /\ messages' = [a \in Addresses |->
                    IF token \in DOMAIN sessions /\ a = sessions[token] THEN << >> ELSE messages[a]]
  /\ UNCHANGED <<configuration, now, tokenExpiry, sessions, dangled, requests, issued, given>>

\* handle_chat, up to the provider; a body without a message is refused.
chat(t) ==
  /\ threads[t].pc = "accepted" /\ threads[t].op = "chat"
  /\ \/ goto(t, "reply") /\ UNCHANGED store
     \/ \E a \in Addresses :
          /\ get_or_create(threads[t].token, a)
          /\ threads' = [threads EXCEPT ![t].ref = a,
               ![t].pc = CASE provider = "mock" -> "user" [] provider = "openai_compat" -> "prompt"
                           [] OTHER -> "reply"]
  /\ UNCHANGED <<configuration, now, tokenExpiry, requests, issued, given>>

\* build_openai_messages_json: the last messages and the new one.
build_prompt(t) ==
  LET history == messages[threads[t].ref]
      start == IF Len(history) > Limit THEN Len(history) - Limit ELSE 0
  IN /\ threads[t].pc = "prompt"
     /\ threads' = [threads EXCEPT ![t].pc = "llm",
          ![t].prompt = SubSeq(history, start + 1, Len(history)) \o <<threads[t].token>>]
     /\ UNCHANGED <<configuration, now, tokenExpiry, store, requests, issued, given>>

\* http_post_json returns: an error or a status that is not 2xx leaves the history alone.
llm_returns(t) ==
  /\ threads[t].pc = "llm" /\ (goto(t, "user") \/ goto(t, "reply"))
  /\ UNCHANGED <<configuration, now, tokenExpiry, store, requests, issued, given>>

push_back(t) ==
  /\ messages' = IF threads[t].ref \in Range(sessions)
                 THEN [messages EXCEPT ![threads[t].ref] = Append(@, threads[t].token)] ELSE messages
  /\ UNCHANGED <<sessions, dangled>>

push_user(t) ==
  /\ threads[t].pc = "user" /\ goto(t, "assistant") /\ push_back(t)
  /\ UNCHANGED <<configuration, now, tokenExpiry, requests, issued, given>>

\* Only an answer of the model may turn out to have no content.
push_assistant(t) ==
  /\ threads[t].pc = "assistant" /\ goto(t, "reply")
  /\ push_back(t) \/ (provider # "mock" /\ UNCHANGED store)
  /\ UNCHANGED <<configuration, now, tokenExpiry, requests, issued, given>>

reply(t) ==
  /\ threads[t].pc = "reply" /\ threads' = [threads EXCEPT ![t] = Idle]
  /\ UNCHANGED <<configuration, now, tokenExpiry, store, requests, issued, given>>

tick ==
  /\ now < MaxTime /\ now' = now + 1
  /\ UNCHANGED <<configuration, tokenExpiry, store, threads, requests, issued, given>>

-----------------------------------------------------------------------------
Init ==
  /\ enabled \in BOOLEAN /\ provider \in {"mock", "openai_compat", "unsupported"}
  /\ now = 0 /\ requests = 0 /\ issued = {} /\ given = {} /\ dangled = {}
  /\ tokenExpiry = [x \in {} |-> 0] /\ sessions = [x \in {} |-> 0]
  /\ messages = [a \in Addresses |-> << >>] /\ threads = [t \in Threads |-> Idle]

Next ==
  \/ tick
  \/ \E t \in Threads :
       \/ request(t) \/ issue_token(t) \/ login_session(t) \/ invalidate_token(t) \/ erase(t)
       \/ read_clock(t) \/ validate_token(t) \/ visit(t) \/ clear_history(t) \/ chat(t)
       \/ build_prompt(t) \/ llm_returns(t) \/ push_user(t) \/ push_assistant(t) \/ reply(t)

Spec == Init /\ [][Next]_vars

-----------------------------------------------------------------------------
\* The history kept for a token, and the one sent to the model with a message, hold only
\* messages of that token, and the prompt no more than the limit (build_openai_messages_json
\* 378-407).  A logout that frees a Session under a chat which still holds the reference of
\* get_or_create (624, 670) breaks this for that address alone: what the chat pushes never
\* gets to a Session elsewhere, whoever logs in and out meanwhile.
OwnHistory ==
  /\ \A t \in Threads :
       /\ Len(threads[t].prompt) <= Limit + 1
       /\ threads[t].ref \notin dangled => ToSet(threads[t].prompt) \subseteq {threads[t].token}
  /\ \A token \in DOMAIN sessions :
       sessions[token] \notin dangled => ToSet(messages[sessions[token]]) \subseteq {token}
Inv == TypeOK /\ OwnHistory

\* A request gets past require_auth (447-457) only with a token that was in force when
\* the request came: not logged out, not expired, whatever the other threads issue,
\* clean up or log out while it reads the clock and waits for the mutex; and with the
\* login switched on, only tokens of a login ever have a Session.
AcceptedWasValid ==
  enabled => /\ \A t \in Threads : threads[t].pc \in InChat \cup {"accepted"} => threads[t].good
             /\ DOMAIN sessions \subseteq issued
=============================================================================
