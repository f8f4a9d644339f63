--------------------------- MODULE StarMindProofs ---------------------------
(***************************************************************************)
(* TLAPS proofs about StarMind, for any threads, tokens, lifetime and      *)
(* clock: nothing passes require_auth but with a token in force, and       *)
(* histories are mixed up only at an address whose Session was freed under *)
(* a chat.                                                                 *)
(***************************************************************************)
EXTENDS StarMind, SequenceTheorems, TLAPS

Steps == {"idle", "issue", "create", "invalidate", "erase", "clock", "validate",
          "accepted", "prompt", "llm", "user", "assistant", "reply"}
Request == [pc : Steps, op : {"visit", "login", "logout", "clear", "chat"}, token : Cookies,
            clock : Nat, ref : Nat, prompt : Seq(Cookies), good : BOOLEAN]

\* The types the proof needs, which say more of threads than TypeOK and less of the rest.
Types ==
  /\ threads \in [Threads -> Request]
  /\ messages \in [Addresses -> Seq(Cookies)]
  /\ now \in Nat /\ enabled \in BOOLEAN
  /\ issued \subseteq Tokens /\ given \subseteq issued
  /\ DOMAIN tokenExpiry \subseteq issued
  /\ \A x \in DOMAIN tokenExpiry : tokenExpiry[x] \in Nat

\* A request r that waits to be validated was good if its token is in force by the
\* clock c, and its token is not one that is still to be issued.
Waiting(r, c) ==
  /\ r.token \in issued \cup {NoToken}
  /\ r.token \in DOMAIN tokenExpiry /\ tokenExpiry[r.token] > c => r.good

\* What is known of a request at each of its steps.
Request_ok(r) ==
  /\ r.pc = "clock" => Waiting(r, now)
  /\ r.pc = "validate" => Waiting(r, r.clock)
  /\ r.pc = "create" => r.token \in issued
  /\ r.pc \in InChat => r.ref \in Addresses
  /\ enabled /\ r.pc \in InChat \cup {"accepted"} => r.good
  /\ enabled /\ r.good /\ r.pc \in InChat \cup {"clock", "validate", "accepted"} => r.token \in issued

IInv ==
  /\ Types
  /\ \A t \in Threads : Request_ok(threads[t])
  /\ enabled => DOMAIN sessions \subseteq issued

-----------------------------------------------------------------------------
LEMMA InitInv == Init => IInv
<1> SUFFICES ASSUME Init PROVE IInv
  OBVIOUS
<1>1. Idle \in Request
  BY DEF Idle, Request, Steps, Cookies
<1>2. Types
  BY <1>1 DEF Init, Types
<1>3. \A t \in Threads : Request_ok(threads[t])
  BY DEF Init, Request_ok, Idle, InChat
<1>4. QED BY <1>2, <1>3 DEF Init, IInv

LEMMA Implies == IInv => AcceptedWasValid
BY DEF IInv, Request_ok, AcceptedWasValid

\* A request that moves to another step, keeping the rest of it.
LEMMA Moved ==
  ASSUME IInv, NEW t \in Threads, NEW pc \in Steps, goto(t, pc)
  PROVE  /\ threads' \in [Threads -> Request]
         /\ \A u \in Threads : u # t => threads'[u] = threads[u]
         /\ threads'[t] = [threads[t] EXCEPT !.pc = pc]
         /\ threads'[t].pc = pc /\ threads'[t].token = threads[t].token
         /\ threads'[t].ref = threads[t].ref /\ threads'[t].clock = threads[t].clock
         /\ threads'[t].good = threads[t].good
<1>1. threads \in [Threads -> Request]
  BY DEF IInv, Types
<1>2. QED BY <1>1 DEF goto, Request

\* Nothing that Request_ok speaks of changes but the thread t.
LEMMA OnlyThread ==
  ASSUME IInv, NEW t \in Threads, threads' \in [Threads -> Request],
         \A u \in Threads : u # t => threads'[u] = threads[u],
         UNCHANGED <<configuration, now, tokenExpiry, issued>>, given' \subseteq issued,
         messages' \in [Addresses -> Seq(Cookies)],
         Request_ok(threads[t])', enabled => DOMAIN sessions' \subseteq issued
  PROVE  IInv'
<1>1. Types'
  BY DEF IInv, Types, configuration
<1>2. ASSUME NEW u \in Threads PROVE Request_ok(threads[u])'
  <2>1. CASE u = t
    BY <2>1
  <2>2. CASE u # t
    <3>1. threads'[u] = threads[u] /\ Request_ok(threads[u])
      BY <2>2 DEF IInv
    <3>2. QED BY <3>1 DEF Request_ok, Waiting, configuration
  <2>3. QED BY <2>1, <2>2
<1>3. QED BY <1>1, <1>2 DEF IInv, configuration

\* A step from pc to pc2 that asks no more of the request leaves IInv alone.
LEMMA JustMoved ==
  ASSUME IInv, NEW t \in Threads, NEW pc \in Steps, goto(t, pc),
         UNCHANGED <<configuration, now, tokenExpiry, issued>>, given' \subseteq issued,
         messages' \in [Addresses -> Seq(Cookies)], enabled => DOMAIN sessions' \subseteq issued,
         \/ pc \in {"reply", "erase"}
         \/ pc \in InChat /\ threads[t].pc \in InChat
  PROVE  IInv'
<1>1. /\ threads' \in [Threads -> Request]
      /\ \A u \in Threads : u # t => threads'[u] = threads[u]
      /\ threads'[t].pc = pc /\ threads'[t].token = threads[t].token
      /\ threads'[t].good = threads[t].good
      /\ threads'[t].ref = threads[t].ref
  BY Moved
<1>2. Request_ok(threads[t])
  BY DEF IInv
<1>3. Request_ok(threads[t])'
  BY <1>1, <1>2 DEF Request_ok, InChat, configuration
<1>4. QED BY <1>1, <1>3, OnlyThread

-----------------------------------------------------------------------------
LEMMA RequestStep == ASSUME IInv, NEW t \in Threads, request(t) PROVE IInv'
<1>1. PICK op \in {"visit", "login", "logout", "clear", "chat"}, token \in given \cup {NoToken} :
        threads' = [threads EXCEPT ![t] =
         [Idle EXCEPT !.op = op, !.token = token,
            !.good = token \in DOMAIN tokenExpiry /\ tokenExpiry[token] > now,
            !.pc = CASE op = "login" -> IF enabled THEN "issue" ELSE "reply"
                     [] op = "logout" -> "invalidate"
                     [] OTHER -> IF enabled THEN "clock" ELSE "accepted"]]
  BY DEF request
<1> DEFINE good == token \in DOMAIN tokenExpiry /\ tokenExpiry[token] > now
           pc == CASE op = "login" -> IF enabled THEN "issue" ELSE "reply"
                   [] op = "logout" -> "invalidate"
                   [] OTHER -> IF enabled THEN "clock" ELSE "accepted"
           r == [Idle EXCEPT !.op = op, !.token = token, !.good = good, !.pc = pc]
<1>2. Types
  BY DEF IInv
<1>3. token \in Cookies /\ token \in issued \cup {NoToken} /\ good \in BOOLEAN
  BY <1>2 DEF Types, Cookies
<1>4. pc \in Steps /\ (pc = "clock" => enabled) /\ (pc = "accepted" => ~enabled)
      /\ pc \in {"issue", "reply", "invalidate", "clock", "accepted"}
  BY <1>2 DEF Steps, Types
<1> HIDE DEF pc, good
<1>5. Idle \in Request
  BY EmptySeq DEF Idle, Request, Steps, Cookies
<1>6. r \in Request /\ r.pc = pc /\ r.token = token /\ r.good = good
  BY <1>3, <1>4, <1>5 DEF Request
<1>7. threads' = [threads EXCEPT ![t] = r]
  BY <1>1 DEF pc, good
<1>8. threads'[t] = r /\ threads' \in [Threads -> Request]
      /\ \A u \in Threads : u # t => threads'[u] = threads[u]
  BY <1>2, <1>6, <1>7 DEF Types
<1>9. UNCHANGED <<configuration, now, tokenExpiry, issued, given, sessions, messages>>
  BY DEF request, store
<1>10. Waiting(r, now)
  BY <1>3, <1>6 DEF Waiting, good
<1>11. good => token \in issued
  BY <1>2 DEF Types, good
<1>12. Request_ok(r)
  BY <1>4, <1>6, <1>10, <1>11 DEF Request_ok, InChat
<1>13. Request_ok(threads[t])'
  BY <1>8, <1>9, <1>12 DEF Request_ok, Waiting, configuration
<1>14. QED BY <1>8, <1>9, <1>13, OnlyThread DEF IInv, Types

LEMMA IssueStep == ASSUME IInv, NEW t \in Threads, issue_token(t) PROVE IInv'
<1>1. CASE goto(t, "reply") /\ UNCHANGED <<tokenExpiry, issued>>
  BY <1>1, JustMoved DEF issue_token, store, IInv, Types, Steps
<1>2. CASE \E token \in Tokens \ issued :
          /\ tokenExpiry' = [x \in DOMAIN tokenExpiry \cup {token} |->
                               IF x = token THEN now + Ttl ELSE tokenExpiry[x]]
          /\ issued' = issued \cup {token}
          /\ threads' = [threads EXCEPT ![t].pc = "create", ![t].token = token]
  <2>1. PICK token \in Tokens \ issued :
          /\ tokenExpiry' = [x \in DOMAIN tokenExpiry \cup {token} |->
                               IF x = token THEN now + Ttl ELSE tokenExpiry[x]]
          /\ issued' = issued \cup {token}
          /\ threads' = [threads EXCEPT ![t].pc = "create", ![t].token = token]
    BY <1>2
  <2>2. UNCHANGED <<configuration, now, sessions, messages, given>>
    BY DEF issue_token, store
  <2>3. Types
    BY DEF IInv
  <2>4. /\ threads' \in [Threads -> Request]
        /\ \A u \in Threads : u # t => threads'[u] = threads[u]
        /\ threads'[t].pc = "create" /\ threads'[t].token = token
    BY <2>1, <2>3 DEF Types, Request, Steps, Cookies
  <2>5. Types'
    BY <2>1, <2>2, <2>3, <2>4, StarMindAssumption DEF Types, configuration
  <2>6. ASSUME NEW u \in Threads PROVE Request_ok(threads[u])'
    <3>1. CASE u = t
      BY <2>1, <2>4, <3>1 DEF Request_ok, InChat
    <3>2. CASE u # t
      <4>1. threads'[u] = threads[u] /\ Request_ok(threads[u])
        BY <2>4, <3>2 DEF IInv
      <4>2. ASSUME threads[u].token \in issued \cup {NoToken}
            PROVE  /\ threads[u].token \in DOMAIN tokenExpiry' <=> threads[u].token \in DOMAIN tokenExpiry
                   /\ threads[u].token \in DOMAIN tokenExpiry
                        => tokenExpiry'[threads[u].token] = tokenExpiry[threads[u].token]
        <5>1. threads[u].token # token
          BY <4>2, StarMindAssumption
        <5>2. QED BY <2>1, <5>1
      <4>3. issued \subseteq issued'
        BY <2>1
      <4>4. QED BY <2>2, <4>1, <4>2, <4>3 DEF Request_ok, Waiting, configuration
    <3>3. QED BY <3>1, <3>2
  <2>7. QED BY <2>1, <2>2, <2>5, <2>6 DEF IInv, configuration
<1>3. QED BY <1>1, <1>2 DEF issue_token

\* Fewer tokens in force ask less of the requests that wait.
LEMMA FewerTokens ==
  ASSUME IInv, NEW t \in Threads, threads' \in [Threads -> Request],
         \A u \in Threads : u # t => threads'[u] = threads[u],
         NEW S, tokenExpiry' = Without(tokenExpiry, S),
         UNCHANGED <<configuration, now, sessions, messages, issued, given>>, Request_ok(threads[t])'
  PROVE  IInv'
<1>1. DOMAIN tokenExpiry' \subseteq DOMAIN tokenExpiry
      /\ \A x \in DOMAIN tokenExpiry' : tokenExpiry'[x] = tokenExpiry[x]
  BY DEF Without, Restrict
<1>2. Types'
  BY <1>1 DEF IInv, Types, configuration
<1>3. ASSUME NEW u \in Threads PROVE Request_ok(threads[u])'
  <2>1. CASE u = t
    BY <2>1
  <2>2. CASE u # t
    <3>1. threads'[u] = threads[u] /\ Request_ok(threads[u])
      BY <2>2 DEF IInv
    <3>2. QED BY <1>1, <3>1 DEF Request_ok, Waiting, configuration
  <2>3. QED BY <2>1, <2>2
<1>4. QED BY <1>2, <1>3 DEF IInv, configuration

LEMMA ValidateStep == ASSUME IInv, NEW t \in Threads, validate_token(t) PROVE IInv'
<1> DEFINE token == threads[t].token
           expired == {x \in DOMAIN tokenExpiry : tokenExpiry[x] <= threads[t].clock}
           pc == IF token \in DOMAIN tokenExpiry' /\ tokenExpiry'[token] > threads[t].clock
                 THEN "accepted" ELSE "reply"
<1>1. /\ threads[t].pc = "validate" /\ goto(t, pc) /\ pc \in Steps
      /\ tokenExpiry' = IF token = NoToken THEN tokenExpiry ELSE Without(tokenExpiry, expired)
      /\ UNCHANGED <<configuration, now, sessions, messages, issued, given>>
  BY DEF validate_token, store, Steps
<1>2. DOMAIN tokenExpiry' \subseteq DOMAIN tokenExpiry
      /\ \A x \in DOMAIN tokenExpiry' : tokenExpiry'[x] = tokenExpiry[x]
  BY <1>1 DEF Without, Restrict
<1>3. Request_ok(threads[t]) /\ DOMAIN tokenExpiry \subseteq issued
  BY DEF IInv, Types
<1>4. pc = "accepted" => threads[t].good /\ token \in issued
  BY <1>1, <1>2, <1>3 DEF Request_ok, Waiting
<1>5. pc \in {"accepted", "reply"}
  OBVIOUS
<1> HIDE DEF pc
<1>6. /\ threads' \in [Threads -> Request]
      /\ \A u \in Threads : u # t => threads'[u] = threads[u]
      /\ threads'[t].pc = pc /\ threads'[t].token = token /\ threads'[t].good = threads[t].good
  BY <1>1, Moved
<1>7. Request_ok(threads[t])'
  BY <1>1, <1>4, <1>5, <1>6 DEF Request_ok, InChat, configuration
<1>8. CASE token = NoToken
  BY <1>1, <1>6, <1>7, <1>8, OnlyThread DEF IInv, Types
<1>9. CASE token # NoToken
  BY <1>1, <1>6, <1>7, <1>9, FewerTokens
<1>10. QED BY <1>8, <1>9

LEMMA ReadClockStep == ASSUME IInv, NEW t \in Threads, read_clock(t) PROVE IInv'
<1>1. Types /\ Request_ok(threads[t])
  BY DEF IInv
<1>2. /\ threads[t].pc = "clock"
      /\ threads' = [threads EXCEPT ![t].pc = "validate", ![t].clock = now]
      /\ UNCHANGED <<configuration, now, tokenExpiry, sessions, messages, issued, given>>
  BY DEF read_clock, store
<1>3. /\ threads' \in [Threads -> Request]
      /\ \A u \in Threads : u # t => threads'[u] = threads[u]
      /\ threads'[t].pc = "validate" /\ threads'[t].clock = now
      /\ threads'[t].token = threads[t].token /\ threads'[t].good = threads[t].good
  BY <1>1, <1>2 DEF Types, Request, Steps
<1>4. Request_ok(threads[t])'
  BY <1>1, <1>2, <1>3 DEF Request_ok, Waiting, InChat, configuration
<1>5. QED BY <1>1, <1>2, <1>3, <1>4, OnlyThread DEF IInv, Types

LEMMA InvalidateStep == ASSUME IInv, NEW t \in Threads, invalidate_token(t) PROVE IInv'
<1>1. /\ goto(t, "erase") /\ tokenExpiry' = Without(tokenExpiry, {threads[t].token})
      /\ UNCHANGED <<configuration, now, sessions, messages, issued, given>>
  BY DEF invalidate_token, store
<1>2. /\ threads' \in [Threads -> Request]
      /\ \A u \in Threads : u # t => threads'[u] = threads[u]
      /\ threads'[t].pc = "erase"
  BY <1>1, Moved DEF Steps
<1>3. Request_ok(threads[t])'
  BY <1>2 DEF Request_ok, InChat
<1>4. QED BY <1>1, <1>2, <1>3, FewerTokens

\* get_or_create makes a Session for its token only, and an empty one.
LEMMA Created ==
  ASSUME IInv, NEW token, NEW a \in Addresses, get_or_create(token, a)
  PROVE  /\ DOMAIN sessions' \subseteq DOMAIN sessions \cup {token}
         /\ messages' \in [Addresses -> Seq(Cookies)]
<1>1. messages \in [Addresses -> Seq(Cookies)] /\ << >> \in Seq(Cookies)
  BY EmptySeq DEF IInv, Types
<1>2. QED BY <1>1 DEF get_or_create

LEMMA LoginStep == ASSUME IInv, NEW t \in Threads, login_session(t) PROVE IInv'
<1>1. /\ threads[t].pc = "create" /\ goto(t, "reply")
      /\ given' = given \cup {threads[t].token}
      /\ UNCHANGED <<configuration, now, tokenExpiry, issued>>
  BY DEF login_session
<1>2. /\ DOMAIN sessions' \subseteq DOMAIN sessions \cup {threads[t].token}
      /\ messages' \in [Addresses -> Seq(Cookies)]
  BY Created DEF login_session
<1>3. threads[t].token \in issued
  BY <1>1 DEF IInv, Request_ok
<1>4. QED BY <1>1, <1>2, <1>3, JustMoved DEF IInv, Types, Steps

LEMMA ChatStep == ASSUME IInv, NEW t \in Threads, chat(t) PROVE IInv'
<1>1. threads[t].pc = "accepted" /\ UNCHANGED <<configuration, now, tokenExpiry, issued, given>>
  BY DEF chat
<1>2. CASE goto(t, "reply") /\ UNCHANGED store
  BY <1>1, <1>2, JustMoved DEF store, IInv, Types, Steps
<1>3. CASE \E a \in Addresses :
          /\ get_or_create(threads[t].token, a)
          /\ threads' = [threads EXCEPT ![t].ref = a,
               ![t].pc = CASE provider = "mock" -> "user" [] provider = "openai_compat" -> "prompt"
                           [] OTHER -> "reply"]
  <2> DEFINE pc == CASE provider = "mock" -> "user" [] provider = "openai_compat" -> "prompt"
                     [] OTHER -> "reply"
  <2>1. PICK a \in Addresses :
          /\ get_or_create(threads[t].token, a)
          /\ threads' = [threads EXCEPT ![t].ref = a, ![t].pc = pc]
    BY <1>3
  <2>2. pc \in {"user", "prompt", "reply"}
    OBVIOUS
  <2>3. a \in Nat
    BY DEF Addresses
  <2> HIDE DEF pc
  <2>4. Types /\ Request_ok(threads[t])
    BY DEF IInv
  <2>5. /\ threads' \in [Threads -> Request]
        /\ \A u \in Threads : u # t => threads'[u] = threads[u]
        /\ threads'[t].pc = pc /\ threads'[t].token = threads[t].token
        /\ threads'[t].good = threads[t].good
        /\ threads'[t].ref = a
    BY <2>1, <2>2, <2>3, <2>4 DEF Types, Request, Steps
  <2>6. Request_ok(threads[t])'
    BY <1>1, <2>2, <2>4, <2>5 DEF Request_ok, InChat, configuration
  <2>7. /\ DOMAIN sessions' \subseteq DOMAIN sessions \cup {threads[t].token}
        /\ messages' \in [Addresses -> Seq(Cookies)]
    BY <2>1, Created
  <2>8. enabled => threads[t].token \in issued
    BY <1>1, <2>4 DEF Request_ok
  <2>9. QED BY <1>1, <2>4, <2>5, <2>6, <2>7, <2>8, OnlyThread DEF IInv, Types
<1>4. QED BY <1>2, <1>3 DEF chat

LEMMA PromptStep == ASSUME IInv, NEW t \in Threads, build_prompt(t) PROVE IInv'
<1> DEFINE history == messages[threads[t].ref]
           start == IF Len(history) > Limit THEN Len(history) - Limit ELSE 0
           prompt == SubSeq(history, start + 1, Len(history)) \o <<threads[t].token>>
<1>1. /\ threads[t].pc = "prompt"
      /\ threads' = [threads EXCEPT ![t].pc = "llm", ![t].prompt = prompt]
      /\ UNCHANGED <<configuration, now, tokenExpiry, sessions, messages, issued, given>>
  BY DEF build_prompt, store
<1>2. Types /\ Request_ok(threads[t]) /\ threads[t].token \in Cookies
  BY DEF IInv, Types, Request
<1>3. history \in Seq(Cookies)
  BY <1>1, <1>2 DEF Types, Request_ok, InChat
<1>4. Len(history) \in Nat /\ start \in Nat /\ start <= Len(history)
  BY <1>3, LenProperties, StarMindAssumption
<1>5. SubSeq(history, start + 1, Len(history)) \in Seq(Cookies)
  BY <1>3, <1>4, SubSeqProperties
<1>6. prompt \in Seq(Cookies)
  BY <1>2, <1>5, ConcatProperties
<1> HIDE DEF prompt
<1>7. /\ threads' \in [Threads -> Request]
      /\ \A u \in Threads : u # t => threads'[u] = threads[u]
      /\ threads'[t].pc = "llm" /\ threads'[t].token = threads[t].token
      /\ threads'[t].good = threads[t].good /\ threads'[t].ref = threads[t].ref
  BY <1>1, <1>2, <1>6 DEF Types, Request, Steps
<1>8. Request_ok(threads[t])'
  BY <1>1, <1>2, <1>7 DEF Request_ok, InChat, configuration
<1>9. QED BY <1>1, <1>7, <1>8, OnlyThread DEF IInv, Types

LEMMA LlmStep == ASSUME IInv, NEW t \in Threads, llm_returns(t) PROVE IInv'
<1>1. /\ threads[t].pc = "llm" /\ (goto(t, "user") \/ goto(t, "reply"))
      /\ UNCHANGED <<configuration, now, tokenExpiry, sessions, messages, issued, given>>
  BY DEF llm_returns, store
<1>2. /\ messages' \in [Addresses -> Seq(Cookies)] /\ given' \subseteq issued
      /\ enabled => DOMAIN sessions' \subseteq issued
  BY <1>1 DEF IInv, Types
<1>3. CASE goto(t, "user")
  BY <1>1, <1>2, <1>3, JustMoved DEF Steps, InChat
<1>4. CASE goto(t, "reply")
  BY <1>1, <1>2, <1>4, JustMoved DEF Steps
<1>5. QED BY <1>1, <1>3, <1>4

\* push_back keeps the histories sequences of cookies, and the Sessions.
LEMMA Pushed ==
  ASSUME IInv, NEW t \in Threads, threads[t].pc \in InChat, push_back(t)
  PROVE  messages' \in [Addresses -> Seq(Cookies)] /\ UNCHANGED sessions
<1>1. messages \in [Addresses -> Seq(Cookies)] /\ threads[t].token \in Cookies
  BY DEF IInv, Types, Request
<1>2. threads[t].ref \in Addresses
  BY DEF IInv, Request_ok
<1>3. Append(messages[threads[t].ref], threads[t].token) \in Seq(Cookies)
  BY <1>1, <1>2, AppendProperties
<1>4. QED BY <1>1, <1>2, <1>3 DEF push_back

LEMMA PushUserStep == ASSUME IInv, NEW t \in Threads, push_user(t) PROVE IInv'
<1>1. /\ threads[t].pc \in InChat /\ goto(t, "assistant") /\ push_back(t)
      /\ UNCHANGED <<configuration, now, tokenExpiry, issued, given>>
  BY DEF push_user, InChat
<1>2. messages' \in [Addresses -> Seq(Cookies)] /\ UNCHANGED sessions
  BY <1>1, Pushed
<1>3. QED BY <1>1, <1>2, JustMoved DEF IInv, Types, Steps, InChat

LEMMA PushAssistantStep == ASSUME IInv, NEW t \in Threads, push_assistant(t) PROVE IInv'
<1>1. /\ threads[t].pc \in InChat /\ goto(t, "reply")
      /\ push_back(t) \/ UNCHANGED <<sessions, messages>>
      /\ UNCHANGED <<configuration, now, tokenExpiry, issued, given>>
  BY DEF push_assistant, InChat, store
<1>2. messages' \in [Addresses -> Seq(Cookies)] /\ UNCHANGED sessions
  BY <1>1, Pushed DEF IInv, Types
<1>3. QED BY <1>1, <1>2, JustMoved DEF IInv, Types, Steps

LEMMA EraseStep == ASSUME IInv, NEW t \in Threads, erase(t) PROVE IInv'
<1>1. /\ goto(t, "reply") /\ sessions' = Without(sessions, {threads[t].token})
      /\ UNCHANGED <<configuration, now, tokenExpiry, messages, issued, given>>
  BY DEF erase
<1>2. DOMAIN sessions' \subseteq DOMAIN sessions
  BY <1>1 DEF Without, Restrict
<1>3. QED BY <1>1, <1>2, JustMoved DEF IInv, Types, Steps

LEMMA VisitStep == ASSUME IInv, NEW t \in Threads, visit(t) PROVE IInv'
BY JustMoved DEF visit, store, IInv, Types, Steps

LEMMA ClearStep == ASSUME IInv, NEW t \in Threads, clear_history(t) PROVE IInv'
<1>1. /\ goto(t, "reply")
      /\ \A a \in Addresses : messages'[a] = << >> \/ messages'[a] = messages[a]
      /\ messages' = [a \in Addresses |-> messages'[a]]
      /\ UNCHANGED <<configuration, now, tokenExpiry, sessions, issued, given>>
  BY DEF clear_history
<1>2. messages' \in [Addresses -> Seq(Cookies)]
  BY <1>1, EmptySeq DEF IInv, Types
<1>3. QED BY <1>1, <1>2, JustMoved DEF IInv, Types, Steps

LEMMA ReplyStep == ASSUME IInv, NEW t \in Threads, reply(t) PROVE IInv'
<1>1. /\ threads' = [threads EXCEPT ![t] = Idle]
      /\ UNCHANGED <<configuration, now, tokenExpiry, sessions, messages, issued, given>>
  BY DEF reply, store
<1>2. Idle \in Request
  BY EmptySeq DEF Idle, Request, Steps, Cookies
<1>3. /\ threads' \in [Threads -> Request] /\ threads'[t] = Idle
      /\ \A u \in Threads : u # t => threads'[u] = threads[u]
  BY <1>1, <1>2 DEF IInv, Types
<1>4. Request_ok(threads[t])'
  BY <1>3 DEF Request_ok, Idle, InChat
<1>5. QED BY <1>1, <1>3, <1>4, OnlyThread DEF IInv, Types

\* As the clock goes on, fewer tokens are in force.
LEMMA TickStep == ASSUME IInv, tick PROVE IInv'
<1>1. /\ now' = now + 1 /\ now \in Nat
      /\ UNCHANGED <<configuration, tokenExpiry, sessions, messages, threads, issued, given>>
  BY DEF tick, store, IInv, Types
<1>2. Types'
  BY <1>1 DEF IInv, Types, configuration
<1>3. ASSUME NEW t \in Threads PROVE Request_ok(threads[t])'
  <2>1. Request_ok(threads[t])
    BY DEF IInv
  <2>2. threads[t].token \in DOMAIN tokenExpiry => tokenExpiry[threads[t].token] \in Nat
    BY DEF IInv, Types
  <2>3. Waiting(threads[t], now) => Waiting(threads[t], now)'
    BY <1>1, <2>2 DEF Waiting
  <2>4. QED BY <1>1, <2>1, <2>3 DEF Request_ok, Waiting, configuration
<1>4. QED BY <1>1, <1>2, <1>3 DEF IInv, configuration

LEMMA Step == IInv /\ [Next]_vars => IInv'
<1> SUFFICES ASSUME IInv, [Next]_vars PROVE IInv'
  OBVIOUS
<1>1. CASE tick
  BY <1>1, TickStep
<1>2. CASE \E t \in Threads :
       \/ request(t) \/ issue_token(t) \/ login_session(t) \/ invalidate_token(t) \/ erase(t)
       \/ read_clock(t) \/ validate_token(t) \/ visit(t) \/ clear_history(t) \/ chat(t)
       \/ build_prompt(t) \/ llm_returns(t) \/ push_user(t) \/ push_assistant(t) \/ reply(t)
  BY <1>2, RequestStep, IssueStep, LoginStep, InvalidateStep, EraseStep, ReadClockStep,
     ValidateStep, VisitStep, ClearStep, ChatStep, PromptStep, LlmStep, PushUserStep,
     PushAssistantStep, ReplyStep
<1>3. CASE UNCHANGED vars
  BY <1>3 DEF vars, store, configuration, IInv, Types, Request_ok, Waiting
<1>4. QED BY <1>1, <1>2, <1>3 DEF Next

-----------------------------------------------------------------------------
\* Whatever the number of threads and tokens, the lifetime of a token and the time: a
\* handler of StarMind gets past require_auth only with a token that was in force when
\* the request came, and with the login switched on only issued tokens have a Session.
THEOREM TokensHold == Spec => []AcceptedWasValid
<1>1. Init => IInv
  BY InitInv
<1>2. IInv /\ [Next]_vars => IInv'
  BY Step
<1>3. IInv => AcceptedWasValid
  BY Implies
<1>4. QED BY <1>1, <1>2, <1>3, PTL DEF Spec

-----------------------------------------------------------------------------
(* Whose messages a Session holds.                                         *)

Bounds ==
  /\ provider \in {"mock", "openai_compat", "unsupported"} /\ dangled \subseteq Addresses
  /\ now \in 0 .. MaxTime /\ requests \in 0 .. MaxRequests

\* Each Session has an address of its own.
Stored ==
  /\ DOMAIN sessions \subseteq Cookies
  /\ \A x \in DOMAIN sessions : sessions[x] \in Addresses
  /\ \A x, y \in DOMAIN sessions : sessions[x] = sessions[y] => x = y

\* What was never freed under a chat holds only its token's messages.
Histories ==
  \A token \in DOMAIN sessions :
    sessions[token] \notin dangled => ToSet(messages[sessions[token]]) \subseteq {token}

\* Before a chat there is no prompt.
Early == {"issue", "clock", "validate", "accepted"}
Tidy(r) ==
  r.ref \in {0} \cup Addresses /\ (r.pc \in Early => r.prompt = << >>) /\ Len(r.prompt) <= Limit + 1

\* A chat whose Session was not freed under it holds the one that its token has now.
Keeps(r) ==
  r.ref \notin dangled =>
    /\ r.pc \in InChat => r.token \in DOMAIN sessions /\ r.ref = sessions[r.token]
    /\ ToSet(r.prompt) \subseteq {r.token}

AllTidy == \A t \in Threads : Tidy(threads[t])
AllKeep == \A t \in Threads : Keeps(threads[t])
Owned == Bounds /\ Stored /\ AllTidy /\ Histories /\ AllKeep

LEMMA OwnedInit == Init => Owned
<1> SUFFICES ASSUME Init PROVE Owned
  OBVIOUS
<1>1. Bounds
  <2>1. 0 \in 0 .. MaxTime /\ 0 \in 0 .. MaxRequests
    BY StarMindAssumption
  <2>2. now \in 0 .. MaxTime /\ requests \in 0 .. MaxRequests
    BY <2>1 DEF Init
  <2>3. dangled \subseteq Addresses /\ provider \in {"mock", "openai_compat", "unsupported"}
    BY DEF Init
  <2>4. QED BY <2>2, <2>3 DEF Bounds
<1>2. Stored /\ Histories
  BY DEF Init, Stored, Histories
<1>3. ToSet(<< >>) = {} /\ Len(<< >>) = 0
  BY DEF ToSet
<1>4. AllTidy /\ AllKeep
  BY <1>3, StarMindAssumption DEF Init, Idle, AllTidy, AllKeep, Tidy, Keeps, InChat
<1>5. QED BY <1>1, <1>2, <1>4 DEF Owned

LEMMA OwnedImplies == IInv /\ Owned => Inv
<1> SUFFICES ASSUME IInv, Owned PROVE Inv
  OBVIOUS
<1>1. IsInjective(sessions) /\ Range(sessions) \subseteq Addresses
  BY DEF Owned, Stored, IsInjective, Range
<1>2. \A t \in Threads : threads[t].token \in Cookies /\ threads[t].ref \in {0} \cup Addresses
  BY DEF IInv, Types, Request, Owned, AllTidy, Tidy
<1>3. TypeOK
  BY <1>1, <1>2 DEF IInv, Types, Owned, Bounds, Stored, TypeOK
<1>4. OwnHistory
  BY DEF Owned, AllTidy, Tidy, AllKeep, Keeps, Histories, OwnHistory
<1>5. QED BY <1>3, <1>4 DEF Inv

\* The threads keep their tokens, references and prompts, and none enters a chat.
Quiet ==
  \A u \in Threads :
    /\ threads'[u].token = threads[u].token /\ threads'[u].ref = threads[u].ref
    /\ threads'[u].prompt = threads[u].prompt
    /\ threads'[u].pc \in InChat => threads[u].pc \in InChat
    /\ threads'[u].pc \in Early => threads[u].pc \in Early

\* Every token keeps its Session, and no Session was freed under fewer chats.
Extended ==
  /\ \A x \in DOMAIN sessions : x \in DOMAIN sessions' /\ sessions'[x] = sessions[x]
  /\ dangled \subseteq dangled'

LEMMA QuietMove ==
  ASSUME IInv, NEW t \in Threads, NEW pc \in Steps, goto(t, pc),
         pc \in InChat => threads[t].pc \in InChat, pc \in Early => threads[t].pc \in Early
  PROVE  Quiet
<1>1. threads \in [Threads -> Request]
  BY DEF IInv, Types
<1>2. QED BY <1>1 DEF goto, Request, Quiet

LEMMA QuietKeeps ==
  ASSUME Owned, Quiet, Extended
  PROVE  AllTidy' /\ AllKeep'
<1>1. AllTidy'
  BY DEF Owned, AllTidy, Tidy, Quiet
<1>2. AllKeep'
  BY DEF Owned, AllKeep, Keeps, Quiet, Extended
<1>3. QED BY <1>1, <1>2

LEMMA OneThreadKeeps ==
  ASSUME Owned, Extended, NEW t \in Threads,
         \A u \in Threads : u # t => threads'[u] = threads[u],
         Tidy(threads[t])', Keeps(threads[t])'
  PROVE  AllTidy' /\ AllKeep'
<1>1. AllTidy'
  <2>1. ASSUME NEW u \in Threads PROVE Tidy(threads[u])'
    <3>1. CASE u = t
      BY <3>1
    <3>2. CASE u # t
      BY <3>2 DEF Owned, AllTidy, Tidy
    <3>3. QED BY <3>1, <3>2
  <2>2. QED BY <2>1 DEF AllTidy
<1>2. AllKeep'
  <2>1. ASSUME NEW u \in Threads PROVE Keeps(threads[u])'
    <3>1. CASE u = t
      BY <3>1
    <3>2. CASE u # t
      BY <3>2 DEF Owned, AllKeep, Keeps, Extended
    <3>3. QED BY <3>1, <3>2
  <2>2. QED BY <2>1 DEF AllKeep
<1>3. QED BY <1>1, <1>2

LEMMA SameStore ==
  ASSUME Owned, UNCHANGED store
  PROVE  Extended /\ Stored' /\ Histories'
BY DEF Owned, store, Extended, Stored, Histories

\* get_or_create gives the token an address of its own, with an empty history.
LEMMA StoredCreate ==
  ASSUME Owned, IInv, NEW token \in Cookies, NEW a \in Addresses, get_or_create(token, a)
  PROVE  /\ Extended /\ Stored' /\ Histories'
         /\ token \in DOMAIN sessions' /\ sessions'[token] = a
<1>1. UNCHANGED dangled
  BY DEF get_or_create
<1>2. CASE token \in DOMAIN sessions
  BY <1>1, <1>2 DEF Owned, get_or_create, Extended, Stored, Histories
<1>3. CASE token \notin DOMAIN sessions
  <2>1. /\ \A x \in DOMAIN sessions : sessions[x] # a
        /\ DOMAIN sessions' = DOMAIN sessions \cup {token}
        /\ sessions'[token] = a
        /\ \A x \in DOMAIN sessions : sessions'[x] = sessions[x]
        /\ messages' = [messages EXCEPT ![a] = << >>]
    BY <1>3 DEF get_or_create, Range
  <2>2. Extended
    BY <1>1, <2>1 DEF Extended
  <2>3. Stored'
    BY <2>1 DEF Owned, Stored
  <2>4. messages'[a] = << >> /\ \A b \in Addresses : b # a => messages'[b] = messages[b]
    BY <2>1 DEF IInv, Types
  <2>5. ToSet(<< >>) = {}
    BY DEF ToSet
  <2>6. Histories'
    BY <1>1, <2>1, <2>4, <2>5 DEF Owned, Stored, Histories
  <2>7. QED BY <1>1, <2>1, <2>2, <2>3, <2>6
<1>4. QED BY <1>2, <1>3

\* When only messages change, Histories is about them.
LEMMA SameHistories ==
  ASSUME UNCHANGED <<sessions, dangled>>,
         \A x \in DOMAIN sessions : sessions[x] \notin dangled => ToSet(messages'[sessions[x]]) \subseteq {x}
  PROVE  Histories'
<1>1. sessions' = sessions /\ dangled' = dangled
  OBVIOUS
<1>2. ASSUME NEW x \in DOMAIN sessions', sessions'[x] \notin dangled' PROVE ToSet(messages'[sessions'[x]]) \subseteq {x}
  BY <1>1, <1>2
<1>3. QED BY <1>2 DEF Histories

\* What a chat pushes goes to the history of its token, to one whose Session was freed
\* under a chat, or to none.
LEMMA StoredPush ==
  ASSUME Owned, IInv, NEW t \in Threads, threads[t].pc \in InChat, push_back(t)
  PROVE  Extended /\ Stored' /\ Histories'
<1> DEFINE ref == threads[t].ref
           token == threads[t].token
<1>1. UNCHANGED <<sessions, dangled>>
  BY DEF push_back
<1>2. Extended /\ Stored'
  BY <1>1 DEF Owned, Extended, Stored
<1>3. CASE ref \notin dangled
  <2>1. token \in DOMAIN sessions /\ ref = sessions[token] /\ ref \in Addresses /\ Histories
    BY <1>3 DEF Owned, AllKeep, Keeps, Stored
  <2>2. messages' = [messages EXCEPT ![ref] = Append(messages[ref], token)]
    BY <2>1 DEF push_back, Range
  <2>3. messages \in [Addresses -> Seq(Cookies)] /\ token \in Cookies
    BY DEF IInv, Types, Request
  <2>4. /\ messages'[ref] = Append(messages[ref], token)
        /\ \A b \in Addresses : b # ref => messages'[b] = messages[b]
    BY <2>1, <2>2, <2>3
  <2>5. ToSet(Append(messages[ref], token)) \subseteq {token}
    <3>1. messages[ref] \in Seq(Cookies)
      BY <2>1, <2>3
    <3>2. \A i \in DOMAIN messages[ref] : messages[ref][i] \in ToSet(messages[ref])
      BY DEF ToSet
    <3>3. ToSet(messages[ref]) \subseteq {token}
      BY <1>3, <2>1 DEF Histories
    <3>4. \A i \in DOMAIN messages[ref] : messages[ref][i] = token
      BY <3>2, <3>3
    <3>5. \A i \in DOMAIN Append(messages[ref], token) : Append(messages[ref], token)[i] = token
      BY <2>3, <3>1, <3>4
    <3>6. QED BY <3>5 DEF ToSet
  <2>6. ASSUME NEW x \in DOMAIN sessions, sessions[x] \notin dangled
        PROVE  ToSet(messages'[sessions[x]]) \subseteq {x}
    <3>1. CASE x = token
      BY <2>1, <2>4, <2>5, <3>1
    <3>2. CASE x # token
      BY <2>1, <2>4, <2>6, <3>2 DEF Owned, Stored, Histories
    <3>3. QED BY <3>1, <3>2
  <2>7. \A x \in DOMAIN sessions : sessions[x] \notin dangled => ToSet(messages'[sessions[x]]) \subseteq {x}
    BY <2>6
  <2>8. QED BY <1>1, <1>2, <2>7, SameHistories
<1>4. CASE ref \in dangled
  <2>1. messages \in [Addresses -> Seq(Cookies)]
    BY DEF IInv, Types
  <2>2. \A b \in Addresses : b # ref => messages'[b] = messages[b]
    BY <2>1 DEF push_back
  <2>3. ASSUME NEW x \in DOMAIN sessions, sessions[x] \notin dangled
        PROVE  ToSet(messages'[sessions[x]]) \subseteq {x}
    <3>1. sessions[x] \in Addresses /\ sessions[x] # ref
      BY <1>4, <2>3 DEF Owned, Stored
    <3>2. messages'[sessions[x]] = messages[sessions[x]]
      BY <2>2, <3>1
    <3>3. QED BY <2>3, <3>2 DEF Owned, Histories
  <2>4. \A x \in DOMAIN sessions : sessions[x] \notin dangled => ToSet(messages'[sessions[x]]) \subseteq {x}
    BY <2>3
  <2>5. QED BY <1>1, <1>2, <2>4, SameHistories
<1>5. QED BY <1>1, <1>2, <1>3, <1>4

\* A request starts with no prompt and outside the chat; a login gets its token then.
LEMMA OwnedRequest == ASSUME IInv, Owned, NEW t \in Threads, request(t) PROVE Owned'
<1>1. PICK op \in {"visit", "login", "logout", "clear", "chat"}, token \in given \cup {NoToken} :
        threads' = [threads EXCEPT ![t] =
         [Idle EXCEPT !.op = op, !.token = token,
            !.good = token \in DOMAIN tokenExpiry /\ tokenExpiry[token] > now,
            !.pc = CASE op = "login" -> IF enabled THEN "issue" ELSE "reply"
                     [] op = "logout" -> "invalidate"
                     [] OTHER -> IF enabled THEN "clock" ELSE "accepted"]]
  BY DEF request
<1> DEFINE pc == CASE op = "login" -> IF enabled THEN "issue" ELSE "reply"
                   [] op = "logout" -> "invalidate"
                   [] OTHER -> IF enabled THEN "clock" ELSE "accepted"
<1>2. pc \notin InChat
  BY DEF InChat
<1> HIDE DEF pc
<1>3. /\ threads'[t].pc = pc /\ threads'[t].token = token /\ threads'[t].ref = 0
      /\ threads'[t].prompt = << >>
      /\ \A u \in Threads : u # t => threads'[u] = threads[u]
  BY <1>1 DEF IInv, Types, Idle, pc
<1>4. Tidy(threads[t])'
  BY <1>3, StarMindAssumption DEF Tidy
<1>5. Keeps(threads[t])'
  <2>1. ToSet(<< >>) = {}
    BY DEF ToSet
  <2>2. QED BY <1>2, <1>3, <2>1 DEF Keeps
<1>6. /\ UNCHANGED <<configuration, now, store>>
      /\ requests' \in 0 .. MaxRequests
  BY StarMindAssumption DEF request, Owned, Bounds
<1>7. Bounds'
  BY <1>6 DEF Owned, Bounds, configuration, store
<1>8. Extended /\ Stored' /\ Histories'
  BY <1>6, SameStore
<1>9. QED BY <1>3, <1>4, <1>5, <1>7, <1>8, OneThreadKeeps DEF Owned

\* The steps that only move one request on and leave the store alone.
LEMMA OwnedMove ==
  ASSUME IInv, Owned, Quiet, UNCHANGED <<configuration, now, requests>>,
         Extended, Stored', Histories', dangled' \subseteq Addresses
  PROVE  Owned'
<1>1. Bounds'
  BY DEF Owned, Bounds, configuration
<1>2. QED BY <1>1, QuietKeeps DEF Owned

LEMMA OwnedMoveOnly ==
  ASSUME IInv, Owned, Quiet, UNCHANGED <<configuration, now, requests, store>>
  PROVE  Owned'
<1>1. dangled' \subseteq Addresses
  BY DEF Owned, Bounds, store
<1>2. QED BY <1>1, SameStore, OwnedMove

LEMMA OwnedIssue == ASSUME IInv, Owned, NEW t \in Threads, issue_token(t) PROVE Owned'
<1>1. threads[t].pc = "issue" /\ UNCHANGED <<configuration, now, requests, store>>
  BY DEF issue_token
<1>2. CASE goto(t, "reply")
  <2>1. Quiet
    BY <1>2, QuietMove DEF Steps, InChat, Early
  <2>2. QED BY <1>1, <2>1, OwnedMoveOnly
<1>3. CASE \E token \in Tokens : threads' = [threads EXCEPT ![t].pc = "create", ![t].token = token]
  <2>1. /\ threads'[t].pc = "create" /\ threads'[t].ref = threads[t].ref
        /\ threads'[t].prompt = threads[t].prompt
        /\ \A u \in Threads : u # t => threads'[u] = threads[u]
    BY <1>3 DEF IInv, Types, Request
  <2>2. threads[t].ref \in {0} \cup Addresses /\ threads[t].prompt = << >>
    BY <1>1 DEF Owned, AllTidy, Tidy, Early
  <2>3. Tidy(threads[t])'
    BY <2>1, <2>2, StarMindAssumption DEF Tidy
  <2>4. Keeps(threads[t])'
    <3>1. ToSet(<< >>) = {} /\ Len(<< >>) = 0
      BY DEF ToSet
    <3>2. QED BY <2>1, <2>2, <3>1, StarMindAssumption DEF Keeps, InChat
  <2>5. Bounds'
    BY <1>1 DEF Owned, Bounds, configuration, store
  <2>6. Extended /\ Stored' /\ Histories'
    BY <1>1, SameStore
  <2>7. QED BY <2>1, <2>3, <2>4, <2>5, <2>6, OneThreadKeeps DEF Owned
<1>4. QED BY <1>2, <1>3 DEF issue_token

LEMMA OwnedLogin == ASSUME IInv, Owned, NEW t \in Threads, login_session(t) PROVE Owned'
<1>1. goto(t, "reply") /\ UNCHANGED <<configuration, now, requests>>
  BY DEF login_session
<1>2. PICK a \in Addresses : get_or_create(threads[t].token, a)
  BY DEF login_session
<1>3. threads[t].token \in Cookies
  BY DEF IInv, Types, Request
<1>4. Extended /\ Stored' /\ Histories'
  BY <1>2, <1>3, StoredCreate
<1>5. Quiet
  BY <1>1, QuietMove DEF Steps, InChat, Early
<1>6. dangled' \subseteq Addresses
  BY <1>2 DEF Owned, Bounds, get_or_create
<1>7. QED BY <1>1, <1>4, <1>5, <1>6, OwnedMove

\* A logout leaves the references of the other tokens' chats alone.
LEMMA OwnedErase == ASSUME IInv, Owned, NEW t \in Threads, erase(t) PROVE Owned'
<1> DEFINE token == threads[t].token
<1>1. /\ goto(t, "reply") /\ sessions' = Without(sessions, {token})
      /\ dangled' = dangled \cup {threads[u].ref : u \in {v \in Threads :
           threads[v].pc \in InChat /\ token \in DOMAIN sessions /\ threads[v].ref = sessions[token]}}
      /\ UNCHANGED <<configuration, now, requests, messages>>
  BY DEF erase
<1>2. /\ DOMAIN sessions' = DOMAIN sessions \ {token}
      /\ \A x \in DOMAIN sessions' : sessions'[x] = sessions[x]
  BY <1>1 DEF Without, Restrict
<1>3. Quiet
  BY <1>1, QuietMove DEF Steps, InChat, Early
<1>4. Bounds'
  BY <1>1 DEF Owned, Bounds, Stored, configuration
<1>5. Stored'
  BY <1>2 DEF Owned, Stored
<1>6. AllTidy'
  BY <1>3 DEF Owned, AllTidy, Tidy, Quiet
<1>7. dangled \subseteq dangled'
  BY <1>1
<1>8. Histories'
  BY <1>1, <1>2, <1>7 DEF Owned, Histories
<1>9. ASSUME NEW u \in Threads PROVE Keeps(threads[u])'
  <2>1. Keeps(threads[u])
    BY DEF Owned, AllKeep
  <2>2. ASSUME threads[u].pc \in InChat, threads[u].ref \notin dangled'
        PROVE  threads[u].token \in DOMAIN sessions' /\ threads[u].ref = sessions'[threads[u].token]
    <3>1. threads[u].token \in DOMAIN sessions /\ threads[u].ref = sessions[threads[u].token]
      BY <1>7, <2>1, <2>2 DEF Keeps
    <3>2. threads[u].token # token
      BY <1>1, <2>2, <3>1
    <3>3. QED BY <1>2, <3>1, <3>2
  <2>3. QED BY <1>3, <1>7, <2>1, <2>2 DEF Keeps, Quiet
<1>10. QED BY <1>4, <1>5, <1>6, <1>8, <1>9 DEF Owned, AllKeep

LEMMA OwnedClear == ASSUME IInv, Owned, NEW t \in Threads, clear_history(t) PROVE Owned'
<1>1. goto(t, "reply") /\ UNCHANGED <<configuration, now, requests, sessions, dangled>>
  BY DEF clear_history
<1>2. \A a \in Addresses : messages'[a] = << >> \/ messages'[a] = messages[a]
  BY DEF clear_history
<1>3. Extended /\ Stored'
  BY <1>1 DEF Owned, Extended, Stored
<1>4. Histories'
  <2>1. ToSet(<< >>) = {}
    BY DEF ToSet
  <2>2. QED BY <1>1, <1>2, <2>1 DEF Owned, Stored, Histories
<1>5. Quiet
  BY <1>1, QuietMove DEF Steps, InChat, Early
<1>6. dangled' \subseteq Addresses
  BY <1>1 DEF Owned, Bounds
<1>7. QED BY <1>1, <1>3, <1>4, <1>5, <1>6, OwnedMove

LEMMA OwnedChat == ASSUME IInv, Owned, NEW t \in Threads, chat(t) PROVE Owned'
<1>1. threads[t].pc = "accepted" /\ UNCHANGED <<configuration, now, requests>>
  BY DEF chat
<1>2. CASE goto(t, "reply") /\ UNCHANGED store
  <2>1. Quiet
    BY <1>2, QuietMove DEF Steps, InChat, Early
  <2>2. QED BY <1>1, <1>2, <2>1, OwnedMoveOnly
<1>3. CASE \E a \in Addresses :
          /\ get_or_create(threads[t].token, a)
          /\ threads' = [threads EXCEPT ![t].ref = a,
               ![t].pc = CASE provider = "mock" -> "user" [] provider = "openai_compat" -> "prompt"
                           [] OTHER -> "reply"]
  <2> DEFINE pc == CASE provider = "mock" -> "user" [] provider = "openai_compat" -> "prompt"
                     [] OTHER -> "reply"
  <2>1. PICK a \in Addresses :
          /\ get_or_create(threads[t].token, a)
          /\ threads' = [threads EXCEPT ![t].ref = a, ![t].pc = pc]
    BY <1>3
  <2>2. pc \notin Early
    BY DEF Early
  <2> HIDE DEF pc
  <2>3. /\ threads'[t].pc = pc /\ threads'[t].token = threads[t].token /\ threads'[t].ref = a
        /\ threads'[t].prompt = threads[t].prompt
        /\ \A u \in Threads : u # t => threads'[u] = threads[u]
    BY <2>1 DEF IInv, Types, Request
  <2>4. threads[t].token \in Cookies
    BY DEF IInv, Types, Request
  <2>5. /\ Extended /\ Stored' /\ Histories'
        /\ threads[t].token \in DOMAIN sessions' /\ sessions'[threads[t].token] = a
    BY <2>1, <2>4, StoredCreate
  <2>6. Tidy(threads[t])'
    BY <2>2, <2>3 DEF Owned, AllTidy, Tidy
  <2>7. Keeps(threads[t])'
    <3>1. threads[t].prompt = << >>
      BY <1>1 DEF Owned, AllTidy, Tidy, Early
    <3>2. ToSet(<< >>) = {}
      BY DEF ToSet
    <3>3. QED BY <2>3, <2>5, <3>1, <3>2 DEF Keeps
  <2>8. Bounds'
    BY <1>1, <2>1 DEF Owned, Bounds, configuration, get_or_create
  <2>9. QED BY <2>3, <2>5, <2>6, <2>7, <2>8, OneThreadKeeps DEF Owned
<1>4. QED BY <1>2, <1>3 DEF chat

\* The prompt is the end of the chat's own history and its own message.
LEMMA OwnedPrompt == ASSUME IInv, Owned, NEW t \in Threads, build_prompt(t) PROVE Owned'
<1> DEFINE history == messages[threads[t].ref]
           token == threads[t].token
           start == IF Len(history) > Limit THEN Len(history) - Limit ELSE 0
           tail == SubSeq(history, start + 1, Len(history))
           prompt == tail \o <<token>>
<1>1. /\ threads[t].pc = "prompt"
      /\ threads' = [threads EXCEPT ![t].pc = "llm", ![t].prompt = prompt]
      /\ UNCHANGED <<configuration, now, requests, store>>
  BY DEF build_prompt
<1>2. history \in Seq(Cookies) /\ token \in Cookies
  BY <1>1 DEF IInv, Types, Request, Request_ok, InChat
<1>3. Len(history) \in Nat /\ start \in Nat /\ start <= Len(history) /\ Len(history) - start <= Limit
  BY <1>2, LenProperties, StarMindAssumption
<1> HIDE DEF history, start
<1>4. /\ tail \in Seq(Cookies) /\ Len(tail) = Len(history) - start
      /\ \A i \in 1 .. Len(tail) : start + i \in 1 .. Len(history) /\ tail[i] = history[start + i]
  BY <1>2, <1>3, SubSeqProperties
<1> HIDE DEF tail
<1>5. /\ Len(prompt) = Len(tail) + 1 /\ DOMAIN prompt = 1 .. Len(tail) + 1
      /\ \A i \in 1 .. Len(tail) : prompt[i] = tail[i]
      /\ prompt[Len(tail) + 1] = token
  BY <1>2, <1>4
<1> HIDE DEF prompt
<1>6. /\ threads'[t].pc = "llm" /\ threads'[t].token = token
      /\ threads'[t].ref = threads[t].ref /\ threads'[t].prompt = prompt
      /\ \A u \in Threads : u # t => threads'[u] = threads[u]
  BY <1>1 DEF IInv, Types, Request
<1>7. Tidy(threads[t])'
  <2>1. Len(prompt) <= Limit + 1
    BY <1>3, <1>4, <1>5, StarMindAssumption
  <2>2. QED BY <1>6, <2>1 DEF Owned, AllTidy, Tidy, Early
<1>8. Keeps(threads[t])'
  <2>8. UNCHANGED <<sessions, dangled>>
    BY <1>1 DEF store
  <2> SUFFICES ASSUME threads[t].ref \notin dangled
               PROVE  token \in DOMAIN sessions /\ threads[t].ref = sessions[token] /\ ToSet(prompt) \subseteq {token}
    <3> HIDE DEF token
    <3>1. QED BY <1>6, <2>8 DEF Keeps
  <2>1. /\ token \in DOMAIN sessions /\ threads[t].ref = sessions[token]
        /\ ToSet(history) \subseteq {token}
    BY <1>1 DEF Owned, AllKeep, Keeps, Histories, InChat, history
  <2>2. \A i \in 1 .. Len(history) : history[i] = token
    <3>1. \A i \in DOMAIN history : history[i] \in ToSet(history)
      BY DEF ToSet
    <3>2. QED BY <1>2, <2>1, <3>1
  <2>3. \A i \in 1 .. Len(tail) : tail[i] = token
    BY <1>4, <2>2
  <2>4. \A i \in 1 .. Len(tail) + 1 : i \in 1 .. Len(tail) \/ i = Len(tail) + 1
    BY <1>4
  <2>5. \A i \in DOMAIN prompt : prompt[i] = token
    BY <1>5, <2>3, <2>4
  <2>6. ToSet(prompt) \subseteq {token}
    BY <2>5 DEF ToSet
  <2>7. QED BY <2>1, <2>6
<1>9. Bounds'
  BY <1>1 DEF Owned, Bounds, configuration, store
<1>10. Extended /\ Stored' /\ Histories'
  BY <1>1, SameStore
<1>11. QED BY <1>6, <1>7, <1>8, <1>9, <1>10, OneThreadKeeps DEF Owned

LEMMA OwnedReply == ASSUME IInv, Owned, NEW t \in Threads, reply(t) PROVE Owned'
<1>1. threads' = [threads EXCEPT ![t] = Idle] /\ UNCHANGED <<configuration, now, requests, store>>
  BY DEF reply
<1>2. threads'[t] = Idle /\ \A u \in Threads : u # t => threads'[u] = threads[u]
  BY <1>1 DEF IInv, Types
<1>3. ToSet(<< >>) = {} /\ Len(<< >>) = 0
  BY DEF ToSet
<1>4. Tidy(threads[t])' /\ Keeps(threads[t])'
  BY <1>2, <1>3, StarMindAssumption DEF Tidy, Keeps, Idle, InChat
<1>5. Bounds'
  BY <1>1 DEF Owned, Bounds, configuration, store
<1>6. Extended /\ Stored' /\ Histories'
  BY <1>1, SameStore
<1>7. QED BY <1>2, <1>4, <1>5, <1>6, OneThreadKeeps DEF Owned

LEMMA OwnedPushes ==
  ASSUME IInv, Owned, NEW t \in Threads, push_user(t) \/ push_assistant(t)
  PROVE  Owned'
<1>1. /\ threads[t].pc \in InChat /\ (goto(t, "assistant") \/ goto(t, "reply"))
      /\ push_back(t) \/ UNCHANGED store
      /\ UNCHANGED <<configuration, now, requests>>
  BY DEF push_user, push_assistant, InChat
<1>2. Quiet
  BY <1>1, QuietMove DEF Steps, InChat, Early
<1>3. Extended /\ Stored' /\ Histories'
  BY <1>1, StoredPush, SameStore
<1>4. dangled' \subseteq Addresses
  BY <1>1 DEF Owned, Bounds, push_back, store
<1>5. QED BY <1>1, <1>2, <1>3, <1>4, OwnedMove

LEMMA OwnedQuietSteps ==
  ASSUME IInv, Owned, NEW t \in Threads,
         invalidate_token(t) \/ read_clock(t) \/ validate_token(t) \/ visit(t) \/ llm_returns(t)
  PROVE  Owned'
<1>1. UNCHANGED <<configuration, now, requests, store>>
  BY DEF invalidate_token, read_clock, validate_token, visit, llm_returns
<1>2. CASE invalidate_token(t) \/ visit(t) \/ llm_returns(t)
  <2>1. CASE invalidate_token(t) \/ visit(t)
    <3>1. goto(t, "erase") \/ goto(t, "reply")
      BY <2>1 DEF invalidate_token, visit
    <3>2. Quiet
      BY <3>1, QuietMove DEF Steps, InChat, Early
    <3>3. QED BY <1>1, <3>2, OwnedMoveOnly
  <2>2. CASE llm_returns(t)
    <3>1. threads[t].pc \in InChat /\ (goto(t, "user") \/ goto(t, "reply"))
      BY <2>2 DEF llm_returns, InChat
    <3>2. Quiet
      BY <3>1, QuietMove DEF Steps, InChat, Early
    <3>3. QED BY <1>1, <3>2, OwnedMoveOnly
  <2>3. QED BY <1>2, <2>1, <2>2
<1>3. CASE validate_token(t)
  <2>1. threads[t].pc = "validate" /\ (goto(t, "accepted") \/ goto(t, "reply"))
    BY <1>3 DEF validate_token
  <2>2. Quiet
    BY <2>1, QuietMove DEF Steps, InChat, Early
  <2>3. QED BY <1>1, <2>2, OwnedMoveOnly
<1>4. CASE read_clock(t)
  <2>1. threads' = [threads EXCEPT ![t].pc = "validate", ![t].clock = now]
    BY <1>4 DEF read_clock
  <2>2. Quiet
    BY <1>4, <2>1 DEF IInv, Types, Request, Quiet, InChat, Early, read_clock
  <2>3. QED BY <1>1, <2>2, OwnedMoveOnly
<1>5. QED BY <1>2, <1>3, <1>4

LEMMA OwnedTick == ASSUME Owned, tick PROVE Owned'
<1>1. UNCHANGED <<configuration, store, threads, requests>> /\ now' \in 0 .. MaxTime
  BY StarMindAssumption DEF tick, Owned, Bounds
<1>2. Bounds'
  BY <1>1 DEF Owned, Bounds, configuration, store
<1>3. AllTidy' /\ AllKeep'
  BY <1>1 DEF Owned, AllTidy, Tidy, AllKeep, Keeps, store
<1>4. QED BY <1>1, <1>2, <1>3, SameStore DEF Owned

LEMMA OwnedStep == IInv /\ Owned /\ [Next]_vars => Owned'
<1> SUFFICES ASSUME IInv, Owned, [Next]_vars PROVE Owned'
  OBVIOUS
<1>1. CASE tick
  BY <1>1, OwnedTick
<1>2. CASE \E t \in Threads :
       \/ request(t) \/ issue_token(t) \/ login_session(t) \/ invalidate_token(t) \/ erase(t)
       \/ read_clock(t) \/ validate_token(t) \/ visit(t) \/ clear_history(t) \/ chat(t)
       \/ build_prompt(t) \/ llm_returns(t) \/ push_user(t) \/ push_assistant(t) \/ reply(t)
  BY <1>2, OwnedRequest, OwnedIssue, OwnedLogin, OwnedErase, OwnedClear, OwnedChat, OwnedPrompt,
     OwnedReply, OwnedPushes, OwnedQuietSteps
<1>3. CASE UNCHANGED vars
  BY <1>3 DEF vars, store, configuration, Owned, Bounds, Stored, AllTidy, Tidy, AllKeep, Keeps,
     Histories
<1>4. QED BY <1>1, <1>2, <1>3 DEF Next

\* No prompt exceeds the limit, and a message of one token reaches the history or the
\* prompt of another only at an address whose Session a logout freed under a chat: the
\* other histories stay apart whatever happens there.
THEOREM HistoriesApart == Spec => []Inv
<1>1. Init => IInv /\ Owned
  BY InitInv, OwnedInit
<1>2. IInv /\ Owned /\ [Next]_vars => (IInv /\ Owned)'
  BY Step, OwnedStep
<1>3. IInv /\ Owned => Inv
  BY OwnedImplies
<1>4. QED BY <1>1, <1>2, <1>3, PTL DEF Spec
=============================================================================
