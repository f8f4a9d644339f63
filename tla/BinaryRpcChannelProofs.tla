----------------------- MODULE BinaryRpcChannelProofs -----------------------
(***************************************************************************)
(* TLAPS proofs about BinaryRpcChannel, for any set of calls, frames of    *)
(* any size and any number of answers on their way.                        *)
(***************************************************************************)
EXTENDS BinaryRpcChannel, SequenceTheorems, TLAPS

Written(c) == call[c] \in {"waiting", "returned", "thrown"}

\* What has left, or waits to leave, belongs to calls past their writing; an
\* answer on its way answers a request that left.
WireInv ==
  /\ \A c \in Calls : Sent(c) => Written(c)
  /\ \A i \in DOMAIN writeBuffer : Written(writeBuffer[i][1])
  /\ \A i \in DOMAIN incoming : incoming[i] # Garbage => Sent(incoming[i])

\* How far a caller has written, by where it is.
TotalInv ==
  \A c \in Calls :
    /\ call[c] \in {"none", "registered"} => totalSent[c] = 0
    /\ call[c] = "writing" => totalSent[c] < FrameSize

\* The receiving thread and the loop exclude each other.
ModeInv ==
  /\ mode = "threads" => at = "idle" /\ ~coroutine
  /\ mode = "loop" => receiver = "none"

\* The context in the receiver's hands is out of the map, its promise not set,
\* and the answer is for it.
HeldInv ==
  /\ receiver = "complete" <=> held # None
  /\ held # None =>
       /\ held \notin pendingRequests /\ results[held] = << >>
       /\ call[held] = "waiting" /\ Sent(held) /\ respHeader = held

\* A promise is set at most once and by its own answer.  A registered context
\* has no result, except while cleanup_pending_requests runs; a call that is
\* not over and has no result is registered or in the receiver's hands.
ResultInv(c) ==
  /\ \/ results[c] = << >>
     \/ results[c] = <<None>>
     \/ results[c] = <<c>> /\ Sent(c)
  /\ call[c] = "none" => results[c] = << >> /\ c \notin pendingRequests
  /\ c \in pendingRequests /\ results[c] = << >> => ~Ended(c)
  /\ c \in pendingRequests /\ results[c] # << >> => Ended(c) /\ at \in {"clean", "stuck"}
  /\ call[c] \in {"registered", "writing", "waiting"} /\ results[c] = << >> =>
       c \in pendingRequests \/ held = c

PromiseInv == HeldInv /\ \A c \in Calls : ResultInv(c)

\* Every unit of a sequence but the first of its frame follows the one before it.
Whole(s) == \A i \in DOMAIN s : s[i][2] > 1 => i > 1 /\ s[i - 1] = <<s[i][1], s[i][2] - 1>>

\* Frames are whole on the wire together with what waits behind it.  A thread writes
\* alone and goes on where the wire ends; a loop has no thread that writes.
FrameInv ==
  /\ Whole(wire \o writeBuffer)
  /\ mode = "threads" => writeBuffer = << >>
  /\ mode = "loop" => \A c \in Calls : call[c] \notin {"registered", "writing", "failed"}
  /\ \A c \in Calls : call[c] = "writing" =>
       /\ sender = c
       /\ totalSent[c] > 0 => wire # << >> /\ wire[Len(wire)] = <<c, totalSent[c]>>

IInv == TypeOK /\ TotalInv /\ ModeInv /\ WireInv /\ PromiseInv /\ FrameInv
-----------------------------------------------------------------------------
(* What the steps do to the variables the invariants speak of.             *)

\* Moving one call leaves the others where they are.
LEMMA MoveType ==
  ASSUME TypeOK, NEW c \in Calls, NEW to \in CallStates, Move(c, to)
  PROVE  /\ call' \in [Calls -> CallStates] /\ call'[c] = to
         /\ \A d \in Calls \ {c} : call'[d] = call[d]
BY DEF TypeOK, Move

LEMMA States ==
  {"none", "registered", "writing", "failed", "waiting", "returned", "thrown"} = CallStates
BY DEF CallStates

\* A result is appended to one promise.
LEMMA ResultType ==
  ASSUME TypeOK, NEW c \in Calls, NEW r \in Calls \cup {None},
         results' = [results EXCEPT ![c] = Append(@, r)]
  PROVE  /\ results' \in [Calls -> Seq(Calls \cup {None})]
         /\ results'[c] = Append(results[c], r)
         /\ \A d \in Calls \ {c} : results'[d] = results[d]
<1>1. Append(results[c], r) \in Seq(Calls \cup {None})
  BY AppendProperties DEF TypeOK
<1>2. QED BY <1>1 DEF TypeOK

\* The units of a frame belong to its call.
LEMMA FrameType ==
  ASSUME ChannelAssumption, NEW c \in Calls
  PROVE  /\ Frame(c) \in Seq(Units)
         /\ DOMAIN Frame(c) = 1 .. FrameSize
         /\ Len(Frame(c)) = FrameSize
         /\ \A i \in DOMAIN Frame(c) : Frame(c)[i][1] = c
<1>1. \A k \in 1 .. FrameSize : <<c, k>> \in Units
  BY DEF Units
<1>2. Frame(c) \in [1 .. FrameSize -> Units]
  BY <1>1 DEF Frame
<1>3. FrameSize \in Nat
  BY DEF ChannelAssumption
<1>4. QED BY <1>1, <1>2, <1>3 DEF Frame



\* A request has left or has not, whatever else changes.
LEMMA SentSame == ASSUME wire' = wire PROVE \A c : Sent(c)' <=> Sent(c)
BY DEF Sent

\* What has left stays so.
LEMMA AppendSent ==
  ASSUME wire \in Seq(Units), NEW u, wire' = Append(wire, u)
  PROVE  \A d : Sent(d) => Sent(d)'
<1>1. \A i \in DOMAIN wire : i \in DOMAIN wire' /\ wire'[i] = wire[i]
  OBVIOUS
<1>2. QED BY <1>1 DEF Sent

LEMMA ConcatSent ==
  ASSUME wire \in Seq(Units), NEW p \in Seq(Units), wire' = wire \o p
  PROVE  \A d : Sent(d) => Sent(d)'
<1>1. \A i \in DOMAIN wire : i \in DOMAIN wire' /\ wire'[i] = wire[i]
  BY ConcatProperties, LenProperties
<1>2. QED BY <1>1 DEF Sent

LEMMA PrefixType ==
  ASSUME NEW S, NEW s \in Seq(S), NEW w \in 0 .. Len(s)
  PROVE  SubSeq(s, 1, w) \in Seq(S)
<1>1. Len(s) \in Nat /\ \A i \in 1 .. w : s[i] \in S
  BY LenProperties, ElementOfSeq
<1>2. QED BY <1>1, SubSeqProperties

\* What is decoded leaves a suffix of what was on its way.
LEMMA TailElements ==
  ASSUME NEW S, NEW s \in Seq(S), s # << >>
  PROVE  \A i \in DOMAIN Tail(s) : i + 1 \in DOMAIN s /\ Tail(s)[i] = s[i + 1]
BY HeadTailProperties, LenProperties

LEMMA DecodedWire ==
  ASSUME TypeOK, WireInv, incoming # << >>, incoming' = Tail(incoming), wire' = wire,
         UNCHANGED writeBuffer, \A c \in Calls : Written(c) => Written(c)'
  PROVE  WireInv'
BY SentSame, TailElements DEF TypeOK, WireInv, Units

LEMMA ArrivesWire ==
  ASSUME TypeOK, WireInv, NEW x \in Calls \cup {Garbage}, arrives(x), x = Garbage \/ Sent(x)
  PROVE  WireInv'
<1>1. /\ DOMAIN incoming = 1 .. Len(incoming) /\ Len(incoming) \in Nat
      /\ DOMAIN incoming' = 1 .. (Len(incoming) + 1)
      /\ incoming'[Len(incoming) + 1] = x
      /\ \A i \in 1 .. Len(incoming) : incoming'[i] = incoming[i]
  BY DEF arrives, TypeOK
<1>2. UNCHANGED <<wire, writeBuffer, call>>
  BY DEF arrives, callVars, loopVars
<1>3. QED BY <1>1, <1>2, SentSame DEF WireInv, Written

\* The answer decoded next answers a request that left.
LEMMA HeadWire ==
  ASSUME ChannelAssumption, TypeOK, WireInv, NEW c \in Calls, NextIs(c)
  PROVE  Sent(c)
<1>1. incoming # << >> /\ c = incoming[1] /\ 1 \in DOMAIN incoming /\ c # Garbage
  BY DEF NextIs, TypeOK, ChannelAssumption
<1>2. QED BY <1>1 DEF WireInv

\* A promise not set before has one result after.
LEMMA FirstResult ==
  ASSUME TypeOK, NEW c \in Calls, NEW r \in Calls \cup {None}, results[c] = << >>,
         results' = [results EXCEPT ![c] = Append(@, r)]
  PROVE  /\ results'[c] = <<r>> /\ results'[c] # << >>
         /\ \A d \in Calls \ {c} : results'[d] = results[d]
<1>1. Append(results[c], r) = <<r>> /\ <<r>> # << >>
  OBVIOUS
<1>2. QED BY <1>1, ResultType

\* cleanup_pending_requests sets each registered promise, none of them for the
\* second time.
LEMMA FailAllResult ==
  ASSUME TypeOK, \A c \in Calls : ResultInv(c), at = "idle", fail_all
  PROVE  /\ pendingRequests' = {}
         /\ \A c \in pendingRequests : results[c] = << >>
         /\ \A c \in pendingRequests : results'[c] = <<None>> /\ results'[c] # << >>
         /\ \A c \in Calls \ pendingRequests : results'[c] = results[c]
<1>1. \A c \in pendingRequests : results[c] = << >>
  BY DEF ResultInv, TypeOK
<1>2. Append(<< >>, None) = <<None>> /\ <<None>> # << >>
  OBVIOUS
<1>3. pendingRequests \subseteq Calls
  BY DEF TypeOK
<1>4. \A c \in Calls : results'[c] = IF c \in pendingRequests THEN Append(results[c], None)
                                     ELSE results[c]
  BY DEF fail_all
<1>5. \A c \in pendingRequests : results'[c] = <<None>>
  BY <1>1, <1>2, <1>3, <1>4
<1>6. QED BY <1>1, <1>2, <1>3, <1>4, <1>5 DEF fail_all

\* Two such sequences make one; a frame is one.
LEMMA WholeConcat ==
  ASSUME NEW s \in Seq(Units), NEW t \in Seq(Units), Whole(s), Whole(t)
  PROVE  Whole(s \o t)
<1>1. /\ Len(s) \in Nat /\ Len(t) \in Nat /\ DOMAIN s = 1 .. Len(s) /\ DOMAIN t = 1 .. Len(t)
      /\ DOMAIN (s \o t) = 1 .. Len(s) + Len(t)
      /\ \A i \in 1 .. Len(s) : (s \o t)[i] = s[i]
      /\ \A i \in 1 .. Len(t) : (s \o t)[Len(s) + i] = t[i]
  OBVIOUS
<1>2. DEFINE st == s \o t
<1>3. ASSUME NEW i \in 1 .. Len(s) + Len(t), st[i][2] > 1
      PROVE  i > 1 /\ st[i - 1] = <<st[i][1], st[i][2] - 1>>
  <2>1. CASE i <= Len(s)
    <3>1. st[i] = s[i] /\ i \in DOMAIN s
      BY <1>1, <2>1
    <3>2. i > 1 /\ s[i - 1] = <<s[i][1], s[i][2] - 1>>
      BY <1>3, <3>1 DEF Whole
    <3>3. st[i - 1] = s[i - 1]
      BY <1>1, <2>1, <3>2
    <3>4. QED BY <3>1, <3>2, <3>3
  <2>2. CASE i > Len(s)
    <3>1. PICK j \in 1 .. Len(t) : i = Len(s) + j
      <4>1. i - Len(s) \in 1 .. Len(t) /\ i = Len(s) + (i - Len(s))
        BY <1>1, <2>2
      <4>2. QED BY <4>1
    <3>2. st[i] = t[j]
      BY <1>1, <3>1
    <3>3. j > 1 /\ t[j - 1] = <<t[j][1], t[j][2] - 1>>
      BY <1>1, <1>3, <3>2 DEF Whole
    <3>4. j - 1 \in 1 .. Len(t) /\ i - 1 = Len(s) + (j - 1)
      BY <1>1, <3>1, <3>3
    <3>5. st[i - 1] = t[j - 1]
      BY <1>1, <3>4
    <3>6. QED BY <1>1, <3>1, <3>2, <3>3, <3>5
  <2>3. QED BY <1>1, <2>1, <2>2
<1>4. QED BY <1>1, <1>3 DEF Whole

LEMMA WholeFrame == ASSUME NEW c \in Calls PROVE Whole(Frame(c))
BY ChannelAssumption DEF ChannelAssumption, Whole, Frame

\* What the kernel takes and what it leaves are what there was.
LEMMA SplitSequence ==
  ASSUME NEW S, NEW t \in Seq(S), NEW w \in 0 .. Len(t)
  PROVE  /\ SubSeq(t, 1, w) \in Seq(S) /\ SubSeq(t, w + 1, Len(t)) \in Seq(S)
         /\ SubSeq(t, 1, w) \o SubSeq(t, w + 1, Len(t)) = t
<1>1. DEFINE a == SubSeq(t, 1, w)
             b == SubSeq(t, w + 1, Len(t))
<1>2. Len(t) \in Nat /\ w \in Nat /\ w <= Len(t) /\ \A i \in 1 .. Len(t) : t[i] \in S
  BY LenProperties, ElementOfSeq
<1>3. a \in Seq(S) /\ Len(a) = w /\ \A i \in 1 .. w : a[i] = t[i]
  BY <1>2, SubSeqProperties
<1>4. b \in Seq(S) /\ Len(b) = Len(t) - w /\ \A i \in 1 .. Len(t) - w : b[i] = t[w + i]
  BY <1>2, SubSeqProperties
<1> HIDE DEF a, b
<1>5. /\ a \o b \in Seq(S) /\ Len(a \o b) = Len(t)
      /\ \A i \in 1 .. Len(t) : (a \o b)[i] = IF i <= w THEN a[i] ELSE b[i - w]
  <2>1. /\ a \o b \in Seq(S) /\ Len(a \o b) = Len(a) + Len(b)
        /\ \A i \in 1 .. Len(a) + Len(b) :
             (a \o b)[i] = IF i <= Len(a) THEN a[i] ELSE b[i - Len(a)]
    BY <1>3, <1>4, ConcatProperties
  <2>2. Len(a) + Len(b) = Len(t)
    BY <1>2, <1>3, <1>4
  <2>3. QED BY <1>3, <2>1, <2>2
<1>6. ASSUME NEW i \in 1 .. Len(t) PROVE (a \o b)[i] = t[i]
  <2>1. CASE i <= w
    BY <1>2, <1>3, <1>5, <2>1
  <2>2. CASE i > w
    <3>1. i - w \in 1 .. Len(t) - w /\ w + (i - w) = i /\ ~(i <= w)
      BY <1>2, <2>2
    <3>2. b[i - w] = t[i]
      BY <1>4, <3>1
    <3>3. QED BY <1>5, <3>1, <3>2
  <2>3. i <= w \/ i > w
    BY <1>2
  <2>4. QED BY <2>1, <2>2, <2>3
<1>7. a \o b = t
  BY <1>5, <1>6, SeqEqual
<1>8. QED BY <1>3, <1>4, <1>7 DEF a, b
-----------------------------------------------------------------------------
(* Each part of the invariant is preserved.                                *)

LEMMA TypeStep == TypeOK /\ TotalInv /\ HeldInv /\ [Next]_vars => TypeOK'
<1> SUFFICES ASSUME TypeOK, TotalInv, HeldInv, [Next]_vars PROVE TypeOK'
  BY ChannelAssumption
<1> USE ChannelAssumption DEF callVars, netVars, receiverVars, sendVars, threadVars, loopVars
<1>1. ASSUME NEW c \in Calls, register(c) PROVE TypeOK'
  <2>1. CASE Move(c, "registered")
    <3>1. call' \in [Calls -> CallStates]
      BY <2>1, MoveType, States
    <3>2. pendingRequests' \subseteq Calls
      BY <1>1 DEF register, TypeOK
    <3>3. QED BY <1>1, <3>1, <3>2 DEF register, TypeOK
  <2>2. CASE Move(c, "thrown")
    <3>1. call' \in [Calls -> CallStates]
      BY <2>2, MoveType, States
    <3>2. pendingRequests' \subseteq Calls
      BY <1>1 DEF register, TypeOK
    <3>3. QED BY <1>1, <3>1, <3>2 DEF register, TypeOK
  <2>3. QED BY <1>1, <2>1, <2>2 DEF register
<1>2. ASSUME NEW c \in Calls, encode_fails(c) PROVE TypeOK'
  <2>1. call' \in [Calls -> CallStates]
    BY <1>2, MoveType, States DEF encode_fails
  <2>2. QED BY <1>2, <2>1 DEF encode_fails, extract, TypeOK
<1>3. ASSUME NEW c \in Calls, lock_send(c) PROVE TypeOK'
  <2>1. call' \in [Calls -> CallStates]
    BY <1>3, MoveType, States DEF lock_send
  <2>2. QED BY <1>3, <2>1 DEF lock_send, TypeOK
<1>4. ASSUME NEW c \in Calls, write_some(c) PROVE TypeOK'
  <2>1. totalSent[c] \in 0 .. FrameSize /\ totalSent[c] < FrameSize
    BY <1>4 DEF write_some, TotalInv, TypeOK
  <2>2. totalSent[c] + 1 \in 1 .. FrameSize
    BY <2>1
  <2>3. /\ totalSent' = [totalSent EXCEPT ![c] = totalSent[c] + 1]
        /\ wire' = Append(wire, <<c, totalSent'[c]>>)
        /\ UNCHANGED <<mode, running, pendingRequests, results, incoming, sock, dtor,
                       receiverVars, loopVars>>
    BY <1>4 DEF write_some
  <2>4. totalSent' \in [Calls -> 0 .. FrameSize] /\ totalSent'[c] = totalSent[c] + 1
    BY <2>2, <2>3 DEF TypeOK
  <2>5. wire' \in Seq(Units)
    BY <2>2, <2>3, <2>4, AppendProperties DEF TypeOK, Units
  <2>6. call' \in [Calls -> CallStates] /\ sender' \in Calls \cup {None}
    BY <1>4, MoveType, States DEF write_some, TypeOK
  <2>7. UNCHANGED <<mode, running, pendingRequests, results, incoming, sock, dtor,
                     receiverVars, loopVars>>
    BY <2>3
  <2>8. QED BY <2>4, <2>5, <2>6, <2>7, SMTT(30) DEF TypeOK
<1>5. ASSUME NEW c \in Calls, write_fails(c) PROVE TypeOK'
  <2>1. call' \in [Calls -> CallStates]
    BY <1>5, MoveType, States DEF write_fails
  <2>2. QED BY <1>5, <2>1 DEF write_fails, TypeOK
<1>6. ASSUME NEW c \in Calls, erase(c) PROVE TypeOK'
  <2>1. call' \in [Calls -> CallStates]
    BY <1>6, MoveType, States DEF erase
  <2>2. QED BY <1>6, <2>1 DEF erase, extract, TypeOK
<1>7. ASSUME NEW c \in Calls, future_get(c) PROVE TypeOK'
  <2>1. PICK to \in {"thrown", "returned"} : Move(c, to)
    BY <1>7 DEF future_get
  <2>2. call' \in [Calls -> CallStates]
    BY <2>1, MoveType, States
  <2>3. QED BY <1>7, <2>2 DEF future_get, TypeOK
<1>8. CASE check_running
  BY <1>8 DEF check_running, TypeOK
<1>9. CASE read_chunk
  BY <1>9 DEF read_chunk, TypeOK
<1>10. CASE read_fails
  BY <1>10 DEF read_fails, fail_all, TypeOK
<1>11. ASSUME NEW c \in Calls, decode_answer(c) PROVE TypeOK'
  BY <1>11 DEF decode_answer, NextIs, find, extract, TypeOK
<1>12. CASE complete
  <2>1. held \in Calls
    BY <1>12 DEF complete, HeldInv, TypeOK
  <2>2. results' \in [Calls -> Seq(Calls \cup {None})]
    BY <1>12, <2>1, ResultType DEF complete, TypeOK
  <2>3. QED BY <1>12, <2>2 DEF complete, TypeOK
<1>13. CASE decode_ends
  BY <1>13 DEF decode_ends, TypeOK
<1>14. CASE decode_error
  BY <1>14 DEF decode_error, fail_all, TypeOK
<1>15. CASE stop_running
  BY <1>15 DEF stop_running, TypeOK
<1>16. CASE destroy
  BY <1>16 DEF destroy, TypeOK
<1>17. CASE close_fd
  BY <1>17 DEF close_fd, TypeOK
<1>18. CASE finish_destruction
  BY <1>18 DEF finish_destruction, fail_all, TypeOK
<1>19. CASE destroy_on_loop
  BY <1>19 DEF destroy_on_loop, TypeOK
<1>20. CASE coroutine_ends
  <2>1. coroutine' = FALSE /\ UNCHANGED <<mode, running, callVars, netVars, dtor, threadVars,
                                          events, revents, writeBuffer, at>>
    BY <1>20 DEF coroutine_ends
  <2>2. coroutine' \in BOOLEAN
    BY <2>1
  <2>3. QED BY <2>1, <2>2 DEF TypeOK
<1>21. CASE poll
  BY <1>21 DEF poll, TypeOK
<1>22. CASE on_read
  BY <1>22 DEF on_read, TypeOK
<1>23. CASE on_read_ends
  BY <1>23 DEF on_read_ends, TypeOK
<1>24. CASE on_write
  <2>1. CASE at' = "clean" /\ UNCHANGED <<wire, writeBuffer, events>>
    BY <1>24, <2>1 DEF on_write, TypeOK
  <2>2. ASSUME NEW w \in 0 .. Len(writeBuffer),
               wire' = wire \o SubSeq(writeBuffer, 1, w),
               writeBuffer' = SubSeq(writeBuffer, w + 1, Len(writeBuffer)),
               events' = IF writeBuffer' = << >> THEN events \ {"OUT"} ELSE events,
               UNCHANGED at
        PROVE  TypeOK'
    <3>1. /\ writeBuffer \in Seq(Units) /\ Len(writeBuffer) \in Nat
          /\ \A i \in 1 .. Len(writeBuffer) : writeBuffer[i] \in Units
      BY ElementOfSeq, LenProperties DEF TypeOK
    <3>2. SubSeq(writeBuffer, 1, w) \in Seq(Units) /\ writeBuffer' \in Seq(Units)
      BY <2>2, <3>1, SubSeqProperties
    <3>3. wire' \in Seq(Units)
      BY <2>2, <3>2, ConcatProperties DEF TypeOK
    <3>4. QED BY <1>24, <2>2, <3>2, <3>3 DEF on_write, TypeOK
  <2>3. QED BY <1>24, <2>1, <2>2 DEF on_write
<1>25. CASE finish_clean
  BY <1>25 DEF finish_clean, TypeOK
<1>26. ASSUME NEW c \in Calls, resume_answered(c) PROVE TypeOK'
  <2>2. CASE find(c) = None
    <3>1. /\ UNCHANGED <<mode, running, callVars, wire, sock, dtor, threadVars, loopVars>>
          /\ incoming' \in Seq(Calls \cup {Garbage})
      BY <1>26, <2>2 DEF resume_answered, TypeOK, NextIs
    <3>2. QED BY <3>1 DEF TypeOK
  <2>3. CASE find(c) # None
    <3>1. find(c) = c
      BY <2>3 DEF find
    <3>2. PICK r \in Calls \cup {None}, to \in {"returned", "thrown"} :
            results' = [results EXCEPT ![c] = Append(@, r)] /\ Move(c, to)
      BY <1>26, <3>1, <2>3 DEF resume_answered
    <3>3. results' \in [Calls -> Seq(Calls \cup {None})]
      BY <3>2, ResultType
    <3>4. call' \in [Calls -> CallStates]
      BY <3>2, MoveType, States
    <3>5. /\ incoming' \in Seq(Calls \cup {Garbage})
          /\ UNCHANGED <<mode, running, wire, sock, dtor, threadVars, events, revents,
                         writeBuffer, at>>
      BY <1>26 DEF resume_answered, NextIs, TypeOK
    <3>6. pendingRequests' \subseteq Calls /\ coroutine' \in BOOLEAN
      BY <1>26, <2>3, <3>1 DEF resume_answered, extract, TypeOK
    <3>7. QED BY <3>3, <3>4, <3>5, <3>6, SMTT(30) DEF TypeOK
  <2>4. QED BY <2>2, <2>3
<1>27. ASSUME NEW c \in Calls, resume_failed(c) PROVE TypeOK'
  <2>1. results' \in [Calls -> Seq(Calls \cup {None})]
    BY <1>27, ResultType DEF resume_failed
  <2>2. call' \in [Calls -> CallStates]
    BY <1>27, MoveType, States DEF resume_failed
  <2>3. coroutine' \in BOOLEAN
    BY <1>27 DEF resume_failed
  <2>4. QED BY <1>27, <2>1, <2>2, <2>3 DEF resume_failed, TypeOK
<1>28. ASSUME NEW c \in Calls, call_method(c) PROVE TypeOK'
  <2>1. CASE Move(c, "waiting") /\ writeBuffer' = writeBuffer \o Frame(c)
    <3>1. writeBuffer' \in Seq(Units)
      BY <2>1, FrameType, ConcatProperties DEF TypeOK
    <3>2. call' \in [Calls -> CallStates]
      BY <2>1, MoveType, States
    <3>3. /\ pendingRequests' \subseteq Calls /\ coroutine' \in BOOLEAN
          /\ UNCHANGED <<mode, running, results, netVars, dtor, threadVars, events, revents, at>>
      BY <1>28, <2>1, MoveType, States DEF call_method, TypeOK
    <3>4. QED BY <3>1, <3>2, <3>3 DEF TypeOK
  <2>2. CASE Move(c, "thrown") /\ UNCHANGED <<pendingRequests, writeBuffer, coroutine>>
    BY <1>28, <2>2, MoveType, States DEF call_method, TypeOK
  <2>3. QED BY <1>28, <2>1, <2>2 DEF call_method
<1>29. CASE call_method_under_lock
  BY <1>29 DEF call_method_under_lock, TypeOK
<1>30. CASE connects
  BY <1>30 DEF connects, TypeOK
<1>31. CASE peer_closes
  BY <1>31 DEF peer_closes, TypeOK
<1>32. ASSUME NEW x \in Calls \cup {Garbage}, arrives(x) PROVE TypeOK'
  <2>1. incoming' \in Seq(Calls \cup {Garbage})
    BY <1>32, AppendProperties DEF arrives, TypeOK
  <2>2. UNCHANGED <<mode, running, callVars, wire, sock, dtor, threadVars, loopVars>>
    BY <1>32 DEF arrives
  <2>3. QED BY <2>1, <2>2 DEF TypeOK
<1>33. CASE peer_garbles \/ \E c \in Calls : peer_answers(c)
  BY <1>32, <1>33 DEF peer_garbles, peer_answers
<1>34. CASE UNCHANGED vars
  BY <1>34 DEF vars, TypeOK
<1>35. QED
  BY <1>1, <1>2, <1>3, <1>4, <1>5, <1>6, <1>7, <1>8, <1>9, <1>10, <1>11, <1>12, <1>13,
     <1>14, <1>15, <1>16, <1>17, <1>18, <1>19, <1>20, <1>21, <1>22, <1>23, <1>24, <1>25,
     <1>26, <1>27, <1>28, <1>29, <1>30, <1>31, <1>33, <1>34 DEF Next, Caller, Receives,
     Destroys, LoopRuns, Server

LEMMA TotalStep == TypeOK /\ TotalInv /\ [Next]_vars => TotalInv'
<1> SUFFICES ASSUME TypeOK, TotalInv, [Next]_vars PROVE TotalInv'
  BY ChannelAssumption
<1> USE ChannelAssumption DEF callVars, netVars, receiverVars, sendVars, threadVars, loopVars
<1>1. ASSUME NEW c \in Calls, NEW to \in CallStates \ {"none", "registered", "writing"},
             Move(c, to), UNCHANGED totalSent
      PROVE  TotalInv'
  BY <1>1, MoveType DEF TotalInv
<1>2. ASSUME NEW c \in Calls, write_some(c) PROVE TotalInv'
  <2>1. /\ call[c] = "writing" /\ totalSent[c] \in 0 .. FrameSize /\ totalSent[c] < FrameSize
        /\ totalSent' = [totalSent EXCEPT ![c] = totalSent[c] + 1]
        /\ totalSent'[c] = FrameSize => Move(c, "waiting")
        /\ totalSent'[c] # FrameSize => UNCHANGED call
    BY <1>2 DEF write_some, all_sent, TotalInv, TypeOK
  <2>2. /\ totalSent'[c] = totalSent[c] + 1 /\ totalSent'[c] \in 1 .. FrameSize
        /\ \A d \in Calls \ {c} : totalSent'[d] = totalSent[d]
    BY <2>1 DEF TypeOK
  <2>3. CASE totalSent'[c] = FrameSize
    <3>1. call'[c] = "waiting" /\ \A d \in Calls \ {c} : call'[d] = call[d]
      BY <2>1, <2>3 DEF Move, TypeOK
    <3>2. QED BY <2>2, <3>1 DEF TotalInv
  <2>4. CASE totalSent'[c] # FrameSize
    <3>1. call' = call /\ totalSent'[c] < FrameSize
      BY <2>1, <2>2, <2>4
    <3>2. QED BY <2>1, <2>2, <3>1 DEF TotalInv
  <2>5. QED BY <2>3, <2>4
<1>3. ASSUME NEW c \in Calls, Caller(c) PROVE TotalInv'
  <2>1. CASE register(c)
    BY <2>1 DEF register, Move, TotalInv, TypeOK
  <2>2. CASE lock_send(c)
    BY <2>2 DEF lock_send, Move, TotalInv, TypeOK, ChannelAssumption
  <2>3. CASE encode_fails(c) \/ write_fails(c) \/ erase(c) \/ future_get(c)
    BY <1>1, <2>3, States DEF encode_fails, write_fails, erase, future_get
  <2>4. QED BY <1>2, <1>3, <2>1, <2>2, <2>3 DEF Caller
<1>4. ASSUME NEW c \in Calls, resume_answered(c) \/ resume_failed(c) \/ call_method(c)
      PROVE  TotalInv'
  <2>1. CASE resume_answered(c)
    <3>1. CASE find(c) = None
      BY <2>1, <3>1 DEF resume_answered, TotalInv
    <3>2. CASE find(c) # None
      <4>1. find(c) = c
        BY <3>2 DEF find
      <4>2. PICK to \in {"returned", "thrown"} : Move(c, to)
        BY <2>1, <3>2, <4>1 DEF resume_answered
      <4>3. UNCHANGED totalSent
        BY <2>1 DEF resume_answered
      <4>4. QED BY <1>1, <4>2, <4>3, States
    <3>3. QED BY <3>1, <3>2
  <2>2. CASE resume_failed(c) \/ call_method(c)
    BY <1>1, <2>2, States DEF resume_failed, call_method
  <2>3. QED BY <1>4, <2>1, <2>2
<1>5. CASE UNCHANGED <<call, totalSent>>
  BY <1>5 DEF TotalInv
<1>6. CASE Receives
  BY <1>5, <1>6 DEF Receives, check_running, read_chunk, read_fails, complete, decode_ends,
                    decode_error, stop_running, decode_answer
<1>7. CASE destroy \/ Destroys \/ destroy_on_loop \/ call_method_under_lock
  BY <1>5, <1>7 DEF destroy, Destroys, close_fd, finish_destruction, destroy_on_loop,
                    call_method_under_lock
<1>8. CASE coroutine_ends \/ poll \/ on_read \/ on_read_ends \/ on_write \/ finish_clean
  BY <1>5, <1>8 DEF coroutine_ends, poll, on_read, on_read_ends, on_write, finish_clean
<1>9. CASE Server
  BY <1>5, <1>9 DEF Server, connects, peer_closes, peer_garbles, peer_answers, arrives
<1>10. CASE UNCHANGED vars
  BY <1>5, <1>10 DEF vars
<1>11. QED BY <1>3, <1>4, <1>6, <1>7, <1>8, <1>9, <1>10 DEF Next, LoopRuns

LEMMA ModeStep == TypeOK /\ ModeInv /\ [Next]_vars => ModeInv'
<1> SUFFICES ASSUME TypeOK, ModeInv, [Next]_vars PROVE ModeInv'
  OBVIOUS
<1> USE DEF callVars, netVars, receiverVars, sendVars, threadVars, loopVars
<1>1. CASE UNCHANGED <<mode, at, coroutine, receiver>>
  BY <1>1 DEF ModeInv
<1>2. ASSUME NEW c \in Calls, Caller(c) PROVE ModeInv'
  BY <1>1, <1>2 DEF Caller, register, encode_fails, lock_send, write_some, write_fails,
                    erase, future_get
<1>3. CASE Receives
  <2>1. receiver # "none" /\ UNCHANGED <<mode, at, coroutine>>
    BY <1>3 DEF Receives, check_running, read_chunk, read_fails, complete, decode_ends,
                decode_error, stop_running, decode_answer
  <2>2. QED BY <2>1 DEF ModeInv, TypeOK
<1>4. CASE destroy \/ Destroys \/ Server
  BY <1>1, <1>4 DEF destroy, Destroys, close_fd, finish_destruction, Server, connects,
                    peer_closes, peer_garbles, peer_answers, arrives
<1>5. CASE destroy_on_loop \/ poll \/ on_read \/ on_read_ends \/ on_write \/ finish_clean
             \/ coroutine_ends \/ call_method_under_lock
  <2>1. mode = "loop" /\ UNCHANGED <<mode, receiver>>
    BY <1>5 DEF destroy_on_loop, poll, on_read, on_read_ends, on_write, finish_clean,
                coroutine_ends, call_method_under_lock, Outside, ModeInv, TypeOK
  <2>2. QED BY <2>1 DEF ModeInv
<1>6. ASSUME NEW c \in Calls, resume_answered(c) \/ resume_failed(c) \/ call_method(c)
      PROVE  ModeInv'
  <2>1. mode = "loop" /\ UNCHANGED <<mode, receiver>>
    BY <1>6 DEF resume_answered, resume_failed, call_method, Outside, ModeInv, TypeOK
  <2>2. QED BY <2>1 DEF ModeInv
<1>7. CASE UNCHANGED vars
  BY <1>1, <1>7 DEF vars
<1>8. QED BY <1>2, <1>3, <1>4, <1>5, <1>6, <1>7 DEF Next, LoopRuns

LEMMA WireStep == TypeOK /\ WireInv /\ [Next]_vars => WireInv'
<1> SUFFICES ASSUME TypeOK, WireInv, [Next]_vars PROVE WireInv'
  BY ChannelAssumption
<1> USE ChannelAssumption DEF callVars, netVars, receiverVars, sendVars, threadVars, loopVars
<1>1. ASSUME NEW c \in Calls, register(c) PROVE WireInv'
  <2>1. /\ UNCHANGED <<wire, writeBuffer, incoming>>
        /\ \A d \in Calls : Written(d) => Written(d)'
    BY <1>1 DEF register, Move, Written, TypeOK
  <2>2. QED BY <2>1, SentSame DEF WireInv, TypeOK, Units
<1>2. ASSUME NEW c \in Calls, encode_fails(c) PROVE WireInv'
  <2>1. /\ UNCHANGED <<wire, writeBuffer, incoming>>
        /\ \A d \in Calls : Written(d) => Written(d)'
    BY <1>2 DEF encode_fails, Move, Written, TypeOK
  <2>2. QED BY <2>1, SentSame DEF WireInv, TypeOK, Units
<1>3. ASSUME NEW c \in Calls, lock_send(c) PROVE WireInv'
  <2>1. /\ UNCHANGED <<wire, writeBuffer, incoming>>
        /\ \A d \in Calls : Written(d) => Written(d)'
    BY <1>3 DEF lock_send, Move, Written, TypeOK
  <2>2. QED BY <2>1, SentSame DEF WireInv, TypeOK, Units
<1>4. ASSUME NEW c \in Calls, write_some(c) PROVE WireInv'
  <2>1. /\ call[c] = "writing" /\ wire' = Append(wire, <<c, totalSent'[c]>>)
        /\ totalSent'[c] = FrameSize => Move(c, "waiting")
        /\ totalSent'[c] # FrameSize => UNCHANGED call
        /\ UNCHANGED <<incoming, writeBuffer>>
    BY <1>4 DEF write_some, all_sent
  <2>2. DEFINE u == <<c, totalSent'[c]>>
  <2>3. /\ DOMAIN wire = 1 .. Len(wire) /\ Len(wire) \in Nat
        /\ DOMAIN Append(wire, u) = 1 .. (Len(wire) + 1)
        /\ Append(wire, u)[Len(wire) + 1] = u
        /\ \A i \in 1 .. Len(wire) : Append(wire, u)[i] = wire[i]
    BY DEF TypeOK
  <2>4. \A d \in Calls : Sent(d) => Sent(d)'
    BY <2>1, AppendSent DEF TypeOK
  <2>5. \A d \in Calls : Sent(d)' => Sent(d) \/ (d = c /\ totalSent'[c] = FrameSize)
    <3>1. ASSUME NEW d \in Calls, NEW i \in 1 .. (Len(wire) + 1), wire'[i] = <<d, FrameSize>>
          PROVE  Sent(d) \/ (d = c /\ totalSent'[c] = FrameSize)
      <4>1. CASE i = Len(wire) + 1
        BY <2>1, <2>3, <3>1, <4>1
      <4>2. CASE i # Len(wire) + 1
        <5>1. i \in DOMAIN wire /\ wire[i] = <<d, FrameSize>>
          BY <2>1, <2>3, <3>1, <4>2
        <5>2. QED BY <5>1 DEF Sent
      <4>3. QED BY <4>1, <4>2
    <3>2. QED BY <2>1, <2>3, <3>1 DEF Sent
  <2>6. \A d \in Calls : Written(d) => Written(d)'
    BY <2>1 DEF Written, Move, TypeOK
  <2>7. totalSent'[c] = FrameSize => Written(c)'
    BY <2>1 DEF Written, Move, TypeOK
  <2>8. QED BY <2>1, <2>4, <2>5, <2>6, <2>7 DEF WireInv, TypeOK, Units
<1>5. ASSUME NEW c \in Calls, write_fails(c) PROVE WireInv'
  <2>1. /\ UNCHANGED <<wire, writeBuffer, incoming>>
        /\ \A d \in Calls : Written(d) => Written(d)'
    BY <1>5 DEF write_fails, Move, Written, TypeOK
  <2>2. QED BY <2>1, SentSame DEF WireInv, TypeOK, Units
<1>6. ASSUME NEW c \in Calls, erase(c) PROVE WireInv'
  <2>1. /\ UNCHANGED <<wire, writeBuffer, incoming>>
        /\ \A d \in Calls : Written(d) => Written(d)'
    BY <1>6 DEF erase, Move, Written, TypeOK
  <2>2. QED BY <2>1, SentSame DEF WireInv, TypeOK, Units
<1>7. ASSUME NEW c \in Calls, future_get(c) PROVE WireInv'
  <2>1. /\ UNCHANGED <<wire, writeBuffer, incoming>>
        /\ \A d \in Calls : Written(d) => Written(d)'
    BY <1>7 DEF future_get, Move, Written, TypeOK
  <2>2. QED BY <2>1, SentSame DEF WireInv, TypeOK, Units
<1>8. CASE check_running
  BY <1>8, SentSame DEF check_running, WireInv, Written
<1>9. CASE read_chunk
  BY <1>9, SentSame DEF read_chunk, WireInv, Written
<1>10. CASE read_fails
  BY <1>10, SentSame DEF read_fails, WireInv, Written, fail_all
<1>11. ASSUME NEW c \in Calls, decode_answer(c) PROVE WireInv'
  BY <1>11, DecodedWire DEF decode_answer, NextIs, Written
<1>12. CASE complete
  BY <1>12, SentSame DEF complete, WireInv, Written
<1>13. CASE decode_ends
  BY <1>13, SentSame DEF decode_ends, WireInv, Written
<1>14. CASE decode_error
  BY <1>14, SentSame DEF decode_error, WireInv, Written, fail_all
<1>15. CASE stop_running
  BY <1>15, SentSame DEF stop_running, WireInv, Written
<1>16. CASE destroy
  BY <1>16, SentSame DEF destroy, WireInv, Written
<1>17. CASE close_fd
  BY <1>17, SentSame DEF close_fd, WireInv, Written
<1>18. CASE finish_destruction
  BY <1>18, SentSame DEF finish_destruction, WireInv, Written, fail_all
<1>19. CASE destroy_on_loop
  BY <1>19, SentSame DEF destroy_on_loop, WireInv, Written, Outside
<1>20. CASE coroutine_ends
  BY <1>20, SentSame DEF coroutine_ends, WireInv, Written
<1>21. CASE poll
  BY <1>21, SentSame DEF poll, WireInv, Written, Outside
<1>22. CASE on_read
  BY <1>22, SentSame DEF on_read, WireInv, Written
<1>23. CASE on_read_ends
  BY <1>23, SentSame DEF on_read_ends, WireInv, Written, NextIs
<1>24. CASE on_write
  <2>1. CASE UNCHANGED <<wire, writeBuffer>>
    BY <1>24, <2>1, SentSame DEF on_write, WireInv, Written
  <2>2. ASSUME NEW w \in 0 .. Len(writeBuffer),
               wire' = wire \o SubSeq(writeBuffer, 1, w),
               writeBuffer' = SubSeq(writeBuffer, w + 1, Len(writeBuffer))
        PROVE  WireInv'
    <3> DEFINE p == SubSeq(writeBuffer, 1, w)
    <3>1. /\ writeBuffer \in Seq(Units) /\ Len(writeBuffer) \in Nat
          /\ DOMAIN writeBuffer = 1 .. Len(writeBuffer)
          /\ \A i \in 1 .. Len(writeBuffer) : writeBuffer[i] \in Units
      BY ElementOfSeq, LenProperties DEF TypeOK
    <3>2. /\ p \in Seq(Units) /\ Len(p) = w
          /\ \A i \in 1 .. w : p[i] = writeBuffer[i]
      BY <3>1, SubSeqProperties
    <3>3. /\ writeBuffer' \in Seq(Units) /\ Len(writeBuffer') = Len(writeBuffer) - w
          /\ \A i \in 1 .. Len(writeBuffer') : writeBuffer'[i] = writeBuffer[i + w]
      <4>1. /\ w \in Nat /\ w + 1 \in Int /\ Len(writeBuffer) \in Int
            /\ \A i \in (w + 1) .. Len(writeBuffer) : writeBuffer[i] \in Units
        BY <3>1
      <4>2. /\ writeBuffer' \in Seq(Units)
            /\ Len(writeBuffer') = IF w + 1 <= Len(writeBuffer)
                                   THEN Len(writeBuffer) - (w + 1) + 1 ELSE 0
            /\ \A i \in 1 .. Len(writeBuffer) - (w + 1) + 1 :
                 writeBuffer'[i] = writeBuffer[(w + 1) + i - 1]
        BY <2>2, <4>1, SubSeqProperties
      <4>3. Len(writeBuffer') = Len(writeBuffer) - w
        <5>1. w \in 0 .. Len(writeBuffer) /\ Len(writeBuffer) \in Nat
          BY <3>1
        <5>2. CASE w = Len(writeBuffer)
          BY <4>2, <5>1, <5>2
        <5>3. CASE w < Len(writeBuffer)
          BY <4>2, <5>1, <5>3
        <5>4. QED BY <5>1, <5>2, <5>3
      <4>4. ASSUME NEW i \in 1 .. Len(writeBuffer')
            PROVE  writeBuffer'[i] = writeBuffer[i + w]
        <5>1. i \in 1 .. Len(writeBuffer) - (w + 1) + 1 /\ (w + 1) + i - 1 = i + w
          BY <3>1, <4>1, <4>3
        <5>2. QED BY <4>2, <5>1
      <4>5. QED BY <4>2, <4>3, <4>4
    <3>4. /\ wire \in Seq(Units) /\ Len(wire) \in Nat /\ DOMAIN wire = 1 .. Len(wire)
          /\ DOMAIN wire' = 1 .. (Len(wire) + w)
          /\ \A i \in 1 .. (Len(wire) + w) :
               wire'[i] = IF i <= Len(wire) THEN wire[i] ELSE p[i - Len(wire)]
      BY <2>2, <3>2, ConcatProperties, LenProperties DEF TypeOK
    <3>5. \A d \in Calls : Sent(d) => Sent(d)'
      BY <2>2, <3>2, <3>4, ConcatSent
    <3>6. ASSUME NEW d \in Calls, Sent(d)' PROVE Written(d)
      <4>1. PICK i \in 1 .. (Len(wire) + w) : wire'[i] = <<d, FrameSize>>
        BY <3>4, <3>6 DEF Sent
      <4>2. CASE i <= Len(wire)
        BY <3>4, <4>1, <4>2 DEF Sent, WireInv
      <4>3. CASE ~(i <= Len(wire))
        <5>1. i - Len(wire) \in 1 .. w /\ p[i - Len(wire)] = <<d, FrameSize>>
          BY <3>4, <4>1, <4>3
        <5>2. i - Len(wire) \in DOMAIN writeBuffer
                /\ writeBuffer[i - Len(wire)] = <<d, FrameSize>>
          BY <3>1, <3>2, <5>1
        <5>3. QED BY <5>2 DEF WireInv
      <4>4. QED BY <4>2, <4>3
    <3>7. \A d \in Calls : Written(d)' <=> Written(d)
      BY <1>24 DEF on_write, Written
    <3>8. ASSUME NEW i \in DOMAIN writeBuffer' PROVE Written(writeBuffer[i][1])'
      <4>1. i + w \in DOMAIN writeBuffer /\ writeBuffer'[i] = writeBuffer[i + w]
        BY <3>1, <3>3, LenProperties
      <4>2. writeBuffer[i + w][1] \in Calls /\ Written(writeBuffer[i + w][1])
        BY <3>1, <4>1 DEF WireInv, Units
      <4>3. QED BY <3>7, <4>1, <4>2 DEF Written
    <3>9. incoming' = incoming
      BY <1>24 DEF on_write
    <3>10. \A d \in Calls : Sent(d)' => Written(d)'
      BY <3>6, <3>7
    <3>11. \A i \in DOMAIN incoming : incoming[i] # Garbage => Sent(incoming[i])'
      <4>1. ASSUME NEW i \in DOMAIN incoming, incoming[i] # Garbage PROVE Sent(incoming[i])'
        <5>1. incoming[i] \in Calls
          BY <4>1, ElementOfSeq, LenProperties DEF TypeOK
        <5>2. Sent(incoming[i])
          BY <4>1 DEF WireInv
        <5>3. QED BY <3>5, <3>9, <5>1, <5>2
      <4>2. QED BY <4>1
    <3>12. QED BY <3>8, <3>9, <3>10, <3>11 DEF WireInv
  <2>3. QED BY <1>24, <2>1, <2>2 DEF on_write
<1>25. CASE finish_clean
  BY <1>25, SentSame DEF finish_clean, WireInv, Written
<1>26. ASSUME NEW c \in Calls, resume_answered(c) PROVE WireInv'
  <2>1. \A d \in Calls : Written(d) => Written(d)'
    BY <1>26 DEF resume_answered, Move, Written, TypeOK, find
  <2>2. QED BY <1>26, <2>1, DecodedWire DEF resume_answered, NextIs
<1>27. ASSUME NEW c \in Calls, resume_failed(c) PROVE WireInv'
  <2>1. /\ UNCHANGED <<wire, writeBuffer, incoming>>
        /\ \A d \in Calls : Written(d) => Written(d)'
    BY <1>27 DEF resume_failed, Move, Written, TypeOK
  <2>2. QED BY <2>1, SentSame DEF WireInv, TypeOK, Units
<1>28. ASSUME NEW c \in Calls, call_method(c) PROVE WireInv'
  <2>1. /\ UNCHANGED <<wire, incoming>>
        /\ \A d \in Calls : Written(d) => Written(d)'
        /\ Written(c)'
    BY <1>28 DEF call_method, Move, Written, TypeOK
  <2>2. CASE UNCHANGED writeBuffer
    BY <2>1, <2>2, SentSame DEF WireInv, TypeOK, Units
  <2>3. CASE writeBuffer' = writeBuffer \o Frame(c)
    <3>1. /\ Len(writeBuffer) \in Nat /\ DOMAIN writeBuffer = 1 .. Len(writeBuffer)
          /\ FrameSize \in Nat /\ Len(Frame(c)) = FrameSize
          /\ DOMAIN writeBuffer' = 1 .. (Len(writeBuffer) + FrameSize)
          /\ \A i \in 1 .. (Len(writeBuffer) + FrameSize) :
               writeBuffer'[i] = IF i <= Len(writeBuffer) THEN writeBuffer[i]
                                 ELSE Frame(c)[i - Len(writeBuffer)]
      <4>1. /\ writeBuffer \in Seq(Units) /\ Frame(c) \in Seq(Units)
            /\ FrameSize \in Nat /\ Len(Frame(c)) = FrameSize
        BY FrameType DEF TypeOK, ChannelAssumption
      <4>2. Len(writeBuffer) \in Nat /\ DOMAIN writeBuffer = 1 .. Len(writeBuffer)
        BY <4>1, LenProperties
      <4>3. /\ writeBuffer' \in Seq(Units)
            /\ Len(writeBuffer') = Len(writeBuffer) + FrameSize
            /\ \A i \in 1 .. (Len(writeBuffer) + FrameSize) :
                 writeBuffer'[i] = IF i <= Len(writeBuffer) THEN writeBuffer[i]
                                   ELSE Frame(c)[i - Len(writeBuffer)]
        BY <2>3, <4>1, ConcatProperties
      <4>4. DOMAIN writeBuffer' = 1 .. (Len(writeBuffer) + FrameSize)
        BY <4>3, LenProperties
      <4>5. QED BY <4>1, <4>2, <4>3, <4>4
    <3>2. ASSUME NEW i \in DOMAIN writeBuffer' PROVE Written(writeBuffer[i][1])'
      <4>1. CASE i <= Len(writeBuffer)
        <5>1. i \in DOMAIN writeBuffer /\ writeBuffer'[i] = writeBuffer[i]
          BY <3>1, <3>2, <4>1
        <5>2. writeBuffer[i][1] \in Calls /\ Written(writeBuffer[i][1])
          BY <5>1, ElementOfSeq DEF WireInv, TypeOK, Units
        <5>3. Written(writeBuffer[i][1])'
          BY <2>1, <5>1, <5>2 DEF Written
        <5>4. QED BY <5>3
      <4>2. CASE ~(i <= Len(writeBuffer))
        <5>1. i - Len(writeBuffer) \in 1 .. FrameSize
                /\ writeBuffer'[i] = Frame(c)[i - Len(writeBuffer)]
          BY <3>1, <3>2, <4>2
        <5>2. writeBuffer'[i][1] = c
          BY <5>1, FrameType
        <5>3. QED BY <2>1, <5>2 DEF Written
      <4>3. QED BY <4>1, <4>2
    <3>3. \A d \in Calls : Sent(d)' => Written(d)'
      BY <2>1, SentSame DEF WireInv
    <3>4. \A i \in DOMAIN incoming' : incoming'[i] # Garbage => Sent(incoming[i])'
      BY <2>1, SentSame DEF WireInv, TypeOK
    <3>5. QED BY <3>2, <3>3, <3>4 DEF WireInv
  <2>4. QED BY <1>28, <2>2, <2>3 DEF call_method
<1>29. CASE call_method_under_lock
  BY <1>29, SentSame DEF call_method_under_lock, WireInv, Written
<1>30. CASE connects
  BY <1>30, SentSame DEF connects, WireInv, Written
<1>31. CASE peer_closes
  BY <1>31, SentSame DEF peer_closes, WireInv, Written
<1>32. ASSUME NEW c \in Calls, peer_answers(c) PROVE WireInv'
  BY <1>32, ArrivesWire DEF peer_answers
<1>33. CASE peer_garbles
  BY <1>33, ArrivesWire DEF peer_garbles
<1>34. CASE UNCHANGED vars
  BY <1>34, SentSame DEF vars, WireInv, Written
<1>35. QED
  BY <1>1, <1>2, <1>3, <1>4, <1>5, <1>6, <1>7, <1>8, <1>9, <1>10, <1>11, <1>12, <1>13,
     <1>14, <1>15, <1>16, <1>17, <1>18, <1>19, <1>20, <1>21, <1>22, <1>23, <1>24, <1>25,
     <1>26, <1>27, <1>28, <1>29, <1>30, <1>31, <1>32, <1>33, <1>34 DEF Next, Caller,
     Receives, Destroys, LoopRuns, Server

LEMMA PromiseStep == TypeOK /\ WireInv /\ ModeInv /\ PromiseInv /\ [Next]_vars => PromiseInv'
<1> SUFFICES ASSUME TypeOK, WireInv, ModeInv, PromiseInv, [Next]_vars PROVE PromiseInv'
  BY ChannelAssumption
<1> USE ChannelAssumption DEF callVars, netVars, receiverVars, sendVars, threadVars, loopVars
<1>1. ASSUME NEW c \in Calls, register(c) PROVE PromiseInv'
  <2>1. /\ call[c] = "none" /\ at = "idle"
        /\ results[c] = << >> /\ c \notin pendingRequests /\ held # c
        /\ UNCHANGED <<results, wire, at, receiverVars>>
    BY <1>1 DEF register, ModeInv, PromiseInv, ResultInv, HeldInv
  <2>2. PICK to \in {"registered", "thrown"} :
          /\ Move(c, to)
          /\ pendingRequests' = IF to = "registered" THEN pendingRequests \cup {c}
                                ELSE pendingRequests
    BY <1>1 DEF register
  <2>3. call'[c] = to /\ \A d \in Calls \ {c} : call'[d] = call[d]
    BY <2>2, MoveType, States
  <2>4. HeldInv'
    BY <2>1, <2>2, <2>3, SentSame DEF HeldInv, PromiseInv, TypeOK
  <2>5. ASSUME NEW d \in Calls PROVE ResultInv(d)'
    <3>1. ResultInv(d)
      BY DEF PromiseInv
    <3>2. CASE d = c
      BY <2>1, <2>2, <2>3, <3>1, <3>2, SentSame DEF ResultInv, Ended
    <3>3. CASE d # c
      BY <2>1, <2>2, <2>3, <3>1, <3>3, SentSame DEF ResultInv, Ended
    <3>4. QED BY <3>2, <3>3
  <2>6. QED BY <2>4, <2>5 DEF PromiseInv
<1>2. ASSUME NEW c \in Calls, encode_fails(c) PROVE PromiseInv'
  BY <1>2, SentSame DEF encode_fails, PromiseInv, HeldInv, ResultInv, ModeInv, Ended,
     TypeOK, CallStates, Move, extract
<1>3. ASSUME NEW c \in Calls, lock_send(c) PROVE PromiseInv'
  BY <1>3, SentSame DEF lock_send, PromiseInv, HeldInv, ResultInv, ModeInv, Ended,
     TypeOK, CallStates, Move
<1>4. ASSUME NEW c \in Calls, write_some(c) PROVE PromiseInv'
  <2>1. /\ call[c] = "writing" /\ wire' = Append(wire, <<c, totalSent'[c]>>)
        /\ Move(c, "waiting") \/ UNCHANGED call
        /\ UNCHANGED <<pendingRequests, results, receiverVars, at>>
    BY <1>4 DEF write_some
  <2>2. \A d : Sent(d) => Sent(d)'
    BY <2>1, AppendSent DEF TypeOK
  <2>3. QED BY <2>1, <2>2 DEF PromiseInv, HeldInv, ResultInv, Ended, Move, TypeOK
<1>5. ASSUME NEW c \in Calls, write_fails(c) PROVE PromiseInv'
  BY <1>5, SentSame DEF write_fails, PromiseInv, HeldInv, ResultInv, ModeInv, Ended,
     TypeOK, CallStates, Move
<1>6. ASSUME NEW c \in Calls, erase(c) PROVE PromiseInv'
  BY <1>6, SentSame DEF erase, PromiseInv, HeldInv, ResultInv, ModeInv, Ended, TypeOK,
     CallStates, Move, extract
<1>7. ASSUME NEW c \in Calls, future_get(c) PROVE PromiseInv'
  BY <1>7, SentSame DEF future_get, PromiseInv, HeldInv, ResultInv, ModeInv, Ended,
     TypeOK, CallStates, Move
<1>8. CASE check_running
  BY <1>8, SentSame DEF check_running, PromiseInv, HeldInv, ResultInv, ModeInv, Ended,
     TypeOK, CallStates
<1>9. CASE read_chunk
  BY <1>9, SentSame DEF read_chunk, PromiseInv, HeldInv, ResultInv, ModeInv, Ended,
     TypeOK, CallStates
<1>10. CASE read_fails
  <2>1. /\ receiver = "read" /\ mode = "threads" /\ at = "idle" /\ fail_all
    BY <1>10 DEF read_fails, ModeInv, TypeOK
  <2>2. /\ pendingRequests' = {}
        /\ \A c \in pendingRequests : results'[c] = <<None>> /\ results'[c] # << >>
        /\ \A c \in Calls \ pendingRequests : results'[c] = results[c]
    BY <2>1, FailAllResult DEF PromiseInv
  <2>3. receiver' # "complete" /\ UNCHANGED <<call, wire, held, respHeader, at>>
    BY <1>10 DEF read_fails
  <2>4. held = None /\ receiver # "complete"
    BY <2>1 DEF PromiseInv, HeldInv
  <2>5. HeldInv'
    BY <2>3, <2>4 DEF HeldInv
  <2>6. ASSUME NEW c \in Calls PROVE ResultInv(c)'
    <3>1. ResultInv(c)
      BY DEF PromiseInv
    <3>2. CASE c \in pendingRequests
      BY <2>1, <2>2, <2>3, <3>1, <3>2 DEF ResultInv, Ended
    <3>3. CASE c \notin pendingRequests
      BY <2>1, <2>2, <2>3, <3>1, <3>3, SentSame DEF ResultInv, Ended
    <3>4. QED BY <3>2, <3>3
  <2>7. QED BY <2>5, <2>6 DEF PromiseInv
<1>11. ASSUME NEW c \in Calls, decode_answer(c) PROVE PromiseInv'
  <2>1. /\ receiver = "decode" /\ mode = "threads" /\ at = "idle" /\ held = None
        /\ NextIs(c) /\ UNCHANGED <<results, call, wire, at>>
    BY <1>11 DEF decode_answer, ModeInv, PromiseInv, HeldInv, TypeOK
  <2>2. CASE find(c) = None
    BY <1>11, <2>2, SentSame DEF decode_answer, PromiseInv, HeldInv, ResultInv, Ended
  <2>3. CASE find(c) # None
    <3>1. /\ c \in pendingRequests /\ pendingRequests' = pendingRequests \ {c}
          /\ held' = c /\ respHeader' = c /\ receiver' = "complete" /\ c # None
      BY <1>11, <2>3 DEF decode_answer, find, extract, ChannelAssumption
    <3>2. results[c] = << >> /\ ~Ended(c)
      BY <2>1, <3>1 DEF PromiseInv, ResultInv
    <3>3. Sent(c)
      BY <2>1, HeadWire
    <3>4. call[c] = "waiting"
      BY <3>2, <3>3 DEF WireInv, Written, Ended
    <3>5. HeldInv'
      BY <2>1, <3>1, <3>2, <3>3, <3>4, SentSame DEF HeldInv
    <3>6. ASSUME NEW d \in Calls PROVE ResultInv(d)'
      <4>1. ResultInv(d)
        BY DEF PromiseInv
      <4>2. QED BY <2>1, <3>1, <3>2, <4>1, SentSame DEF ResultInv, Ended
    <3>7. QED BY <3>5, <3>6 DEF PromiseInv
  <2>4. QED BY <2>2, <2>3
<1>12. CASE complete
  <2>1. /\ held \in Calls /\ results[held] = << >> /\ held \notin pendingRequests
        /\ Sent(held) /\ respHeader = held /\ call[held] = "waiting"
    BY <1>12 DEF complete, PromiseInv, HeldInv, TypeOK
  <2>2. PICK r \in {held, None} : results' = [results EXCEPT ![held] = Append(@, r)]
    BY <1>12, <2>1 DEF complete
  <2>3. /\ results'[held] = <<r>> /\ results'[held] # << >>
        /\ \A d \in Calls \ {held} : results'[d] = results[d]
    BY <2>1, <2>2, FirstResult
  <2>4. /\ held' = None /\ receiver' = "decode"
        /\ UNCHANGED <<pendingRequests, call, wire, at>>
    BY <1>12 DEF complete
  <2>5. HeldInv'
    BY <2>4 DEF HeldInv
  <2>6. ASSUME NEW d \in Calls PROVE ResultInv(d)'
    <3>1. ResultInv(d)
      BY DEF PromiseInv
    <3>2. CASE d = held
      BY <2>1, <2>3, <2>4, <3>1, <3>2, SentSame DEF ResultInv, Ended
    <3>3. CASE d # held
      BY <2>3, <2>4, <3>1, <3>3, SentSame DEF ResultInv, Ended
    <3>4. QED BY <3>2, <3>3
  <2>7. QED BY <2>5, <2>6 DEF PromiseInv
<1>13. CASE decode_ends
  BY <1>13, SentSame DEF decode_ends, PromiseInv, HeldInv, ResultInv, ModeInv, Ended,
     TypeOK, CallStates
<1>14. CASE decode_error
  <2>1. /\ receiver = "decode" /\ mode = "threads" /\ at = "idle" /\ fail_all
    BY <1>14 DEF decode_error, ModeInv, TypeOK
  <2>2. /\ pendingRequests' = {}
        /\ \A c \in pendingRequests : results'[c] = <<None>> /\ results'[c] # << >>
        /\ \A c \in Calls \ pendingRequests : results'[c] = results[c]
    BY <2>1, FailAllResult DEF PromiseInv
  <2>3. receiver' # "complete" /\ UNCHANGED <<call, wire, held, respHeader, at>>
    BY <1>14 DEF decode_error
  <2>4. held = None /\ receiver # "complete"
    BY <2>1 DEF PromiseInv, HeldInv
  <2>5. HeldInv'
    BY <2>3, <2>4 DEF HeldInv
  <2>6. ASSUME NEW c \in Calls PROVE ResultInv(c)'
    <3>1. ResultInv(c)
      BY DEF PromiseInv
    <3>2. CASE c \in pendingRequests
      BY <2>1, <2>2, <2>3, <3>1, <3>2 DEF ResultInv, Ended
    <3>3. CASE c \notin pendingRequests
      BY <2>1, <2>2, <2>3, <3>1, <3>3, SentSame DEF ResultInv, Ended
    <3>4. QED BY <3>2, <3>3
  <2>7. QED BY <2>5, <2>6 DEF PromiseInv
<1>15. CASE stop_running
  BY <1>15, SentSame DEF stop_running, PromiseInv, HeldInv, ResultInv, ModeInv, Ended,
     TypeOK, CallStates
<1>16. CASE destroy
  BY <1>16, SentSame DEF destroy, PromiseInv, HeldInv, ResultInv, ModeInv, Ended,
     TypeOK, CallStates
<1>17. CASE close_fd
  BY <1>17, SentSame DEF close_fd, PromiseInv, HeldInv, ResultInv, ModeInv, Ended,
     TypeOK, CallStates
<1>18. CASE finish_destruction
  <2>1. mode = "threads" /\ at = "idle" /\ fail_all
    BY <1>18 DEF finish_destruction, ModeInv
  <2>2. /\ pendingRequests' = {}
        /\ \A c \in pendingRequests : results'[c] = <<None>> /\ results'[c] # << >>
        /\ \A c \in Calls \ pendingRequests : results'[c] = results[c]
    BY <2>1, FailAllResult DEF PromiseInv
  <2>3. UNCHANGED <<call, wire, held, respHeader, at, receiver>> /\ receiver = "gone"
    BY <1>18 DEF finish_destruction
  <2>4. HeldInv'
    BY <2>3 DEF HeldInv, PromiseInv
  <2>5. ASSUME NEW c \in Calls PROVE ResultInv(c)'
    <3>1. ResultInv(c)
      BY DEF PromiseInv
    <3>2. CASE c \in pendingRequests
      BY <2>1, <2>2, <2>3, <3>1, <3>2 DEF ResultInv, Ended
    <3>3. CASE c \notin pendingRequests
      BY <2>1, <2>2, <2>3, <3>1, <3>3, SentSame DEF ResultInv, Ended
    <3>4. QED BY <3>2, <3>3
  <2>6. QED BY <2>4, <2>5 DEF PromiseInv
<1>19. CASE destroy_on_loop
  BY <1>19, SentSame DEF destroy_on_loop, PromiseInv, HeldInv, ResultInv, ModeInv,
     Ended, TypeOK, CallStates, Outside
<1>20. CASE coroutine_ends
  BY <1>20, SentSame DEF coroutine_ends, PromiseInv, HeldInv, ResultInv, ModeInv, Ended,
     TypeOK, CallStates
<1>21. CASE poll
  BY <1>21, SentSame DEF poll, PromiseInv, HeldInv, ResultInv, ModeInv, Ended, TypeOK,
     CallStates, Outside
<1>22. CASE on_read
  BY <1>22, SentSame DEF on_read, PromiseInv, HeldInv, ResultInv, ModeInv, Ended,
     TypeOK, CallStates
<1>23. CASE on_read_ends
  BY <1>23, SentSame DEF on_read_ends, PromiseInv, HeldInv, ResultInv, ModeInv, Ended,
     TypeOK, CallStates, NextIs
<1>24. CASE on_write
  <2>1. /\ UNCHANGED <<pendingRequests, results, call, receiverVars>>
        /\ at = "idle" /\ \A d : Sent(d) => Sent(d)'
    <3>1. CASE wire' = wire
      BY <1>24, <3>1, SentSame DEF on_write
    <3>2. ASSUME NEW w \in 0 .. Len(writeBuffer), wire' = wire \o SubSeq(writeBuffer, 1, w)
          PROVE  \A d : Sent(d) => Sent(d)'
      <4>1. SubSeq(writeBuffer, 1, w) \in Seq(Units)
        BY PrefixType DEF TypeOK
      <4>2. QED BY <3>2, <4>1, ConcatSent DEF TypeOK
    <3>3. QED BY <1>24, <3>1, <3>2 DEF on_write
  <2>2. QED BY <2>1 DEF PromiseInv, HeldInv, ResultInv, Ended, TypeOK
<1>25. CASE finish_clean
  BY <1>25, SentSame DEF finish_clean, PromiseInv, HeldInv, ResultInv, ModeInv, Ended,
     TypeOK, CallStates
<1>26. ASSUME NEW c \in Calls, resume_answered(c) PROVE PromiseInv'
  <2>1. /\ at = "decode" /\ NextIs(c) /\ UNCHANGED <<wire, at, receiverVars>>
        /\ held = None /\ receiver # "complete"
    BY <1>26 DEF resume_answered, ModeInv, PromiseInv, HeldInv, TypeOK
  <2>2. CASE find(c) = None
    BY <1>26, <2>2, SentSame DEF resume_answered, PromiseInv, HeldInv, ResultInv, Ended
  <2>3. CASE find(c) # None
    <3>1. find(c) = c /\ c \in pendingRequests /\ pendingRequests' = pendingRequests \ {c}
      BY <1>26, <2>3 DEF resume_answered, find, extract
    <3>2. PICK r \in {c, None}, to \in {"returned", "thrown"} :
            results' = [results EXCEPT ![c] = Append(@, r)] /\ Move(c, to)
      BY <1>26, <2>3, <3>1 DEF resume_answered
    <3>3. results[c] = << >>
      BY <2>1, <3>1 DEF PromiseInv, ResultInv
    <3>4. /\ results'[c] = <<r>> /\ results'[c] # << >>
          /\ \A d \in Calls \ {c} : results'[d] = results[d]
      BY <3>2, <3>3, FirstResult
    <3>5. call'[c] = to /\ \A d \in Calls \ {c} : call'[d] = call[d]
      BY <3>2, MoveType, States
    <3>6. Sent(c)
      BY <2>1, HeadWire
    <3>7. HeldInv'
      BY <2>1 DEF HeldInv
    <3>8. ASSUME NEW d \in Calls PROVE ResultInv(d)'
      <4>1. ResultInv(d)
        BY DEF PromiseInv
      <4>2. CASE d = c
        BY <2>1, <3>1, <3>4, <3>5, <3>6, <4>1, <4>2, SentSame DEF ResultInv, Ended
      <4>3. CASE d # c
        BY <2>1, <3>1, <3>4, <3>5, <4>1, <4>3, SentSame DEF ResultInv, Ended
      <4>4. QED BY <4>2, <4>3
    <3>9. QED BY <3>7, <3>8 DEF PromiseInv
  <2>4. QED BY <2>2, <2>3
<1>27. ASSUME NEW c \in Calls, resume_failed(c) PROVE PromiseInv'
  BY <1>27, SentSame DEF resume_failed, PromiseInv, HeldInv, ResultInv, ModeInv, Ended,
     TypeOK, CallStates, Move
<1>28. ASSUME NEW c \in Calls, call_method(c) PROVE PromiseInv'
  BY <1>28, SentSame DEF call_method, PromiseInv, HeldInv, ResultInv, ModeInv, Ended,
     TypeOK, CallStates, Move, Outside
<1>29. CASE call_method_under_lock
  BY <1>29, SentSame DEF call_method_under_lock, PromiseInv, HeldInv, ResultInv,
     ModeInv, Ended, TypeOK, CallStates
<1>30. CASE connects
  BY <1>30, SentSame DEF connects, PromiseInv, HeldInv, ResultInv, ModeInv, Ended,
     TypeOK, CallStates
<1>31. CASE peer_closes
  BY <1>31, SentSame DEF peer_closes, PromiseInv, HeldInv, ResultInv, ModeInv, Ended,
     TypeOK, CallStates
<1>32. ASSUME NEW c \in Calls, peer_answers(c) PROVE PromiseInv'
  BY <1>32, SentSame DEF peer_answers, PromiseInv, HeldInv, ResultInv, ModeInv, Ended,
     TypeOK, CallStates, arrives
<1>33. CASE peer_garbles
  BY <1>33, SentSame DEF peer_garbles, PromiseInv, HeldInv, ResultInv, ModeInv, Ended,
     TypeOK, CallStates, arrives
<1>34. CASE UNCHANGED vars
  BY <1>34, SentSame DEF vars, PromiseInv, HeldInv, ResultInv, ModeInv, Ended, TypeOK,
     CallStates
<1>35. QED
  BY <1>1, <1>2, <1>3, <1>4, <1>5, <1>6, <1>7, <1>8, <1>9, <1>10, <1>11, <1>12, <1>13,
     <1>14, <1>15, <1>16, <1>17, <1>18, <1>19, <1>20, <1>21, <1>22, <1>23, <1>24, <1>25,
     <1>26, <1>27, <1>28, <1>29, <1>30, <1>31, <1>32, <1>33, <1>34 DEF Next, Caller,
     Receives, Destroys, LoopRuns, Server

\* Every step keeps frames whole.
LEMMA FrameStep == TypeOK /\ TotalInv /\ ModeInv /\ FrameInv /\ [Next]_vars => FrameInv'
<1> SUFFICES ASSUME TypeOK, TotalInv, ModeInv, FrameInv, [Next]_vars PROVE FrameInv'
  OBVIOUS
<1> USE DEF callVars, netVars, receiverVars, sendVars, threadVars, loopVars
<1>1. ASSUME UNCHANGED <<mode, wire, writeBuffer, call, totalSent, sender>> PROVE FrameInv'
  BY <1>1 DEF FrameInv
<1>2. ASSUME UNCHANGED <<mode, wire, writeBuffer, totalSent, sender>>,
             NEW c \in Calls, NEW to \in {"waiting", "returned", "thrown"}, Move(c, to)
      PROVE  FrameInv'
  BY <1>2 DEF FrameInv, Move, TypeOK
<1>3. ASSUME NEW c \in Calls, register(c) PROVE FrameInv'
  <2>1. /\ mode = "threads" /\ UNCHANGED <<mode, wire, writeBuffer, totalSent, sender>>
        /\ \E to \in {"registered", "thrown"} : Move(c, to)
    BY <1>3 DEF register
  <2>2. QED BY <2>1 DEF FrameInv, Move, TypeOK
<1>4. ASSUME NEW c \in Calls, encode_fails(c) \/ erase(c) PROVE FrameInv'
  BY <1>2, <1>4 DEF encode_fails, erase
<1>5. ASSUME NEW c \in Calls, future_get(c) PROVE FrameInv'
  <2>1. \E to \in {"returned", "thrown"} : Move(c, to)
    BY <1>5 DEF future_get
  <2>2. QED BY <1>2, <1>5, <2>1 DEF future_get
<1>6. ASSUME NEW c \in Calls, lock_send(c) PROVE FrameInv'
  <2>1. /\ call[c] = "registered" /\ sender = None /\ sender' = c /\ Move(c, "writing")
        /\ UNCHANGED <<mode, wire, writeBuffer, totalSent>>
    BY <1>6 DEF lock_send
  <2>2. totalSent[c] = 0
    BY <2>1 DEF TotalInv
  <2>3. \A d \in Calls : call[d] # "writing"
    BY <2>1, ChannelAssumption DEF FrameInv, ChannelAssumption
  <2>4. \A d \in Calls : call'[d] = "writing" => d = c
    BY <2>1, <2>3 DEF Move, TypeOK
  <2>5. mode # "loop"
    BY <2>1 DEF FrameInv
  <2>6. QED BY <2>1, <2>2, <2>4, <2>5 DEF FrameInv
<1>7. ASSUME NEW c \in Calls, write_fails(c) PROVE FrameInv'
  <2>1. /\ call[c] = "writing" /\ Move(c, "failed") /\ mode # "loop"
        /\ UNCHANGED <<mode, wire, writeBuffer, totalSent>>
    BY <1>7 DEF write_fails, FrameInv
  <2>2. \A d \in Calls : call'[d] # "writing"
    BY <2>1 DEF FrameInv, Move, TypeOK
  <2>3. QED BY <2>1, <2>2 DEF FrameInv
<1>8. ASSUME NEW c \in Calls, write_some(c) PROVE FrameInv'
  <2>1. /\ call[c] = "writing" /\ mode = "threads" /\ sender = c /\ writeBuffer = << >>
        /\ wire' = Append(wire, <<c, totalSent'[c]>>)
        /\ UNCHANGED <<mode, writeBuffer>>
    BY <1>8 DEF write_some, FrameInv, TypeOK
  <2>2. totalSent'[c] = totalSent[c] + 1 /\ totalSent[c] \in Nat
    BY <1>8, ChannelAssumption DEF write_some, TypeOK, ChannelAssumption
  <2>3. \A d \in Calls : call'[d] = "writing" => d = c /\ sender' = c
    BY <1>8, <2>1 DEF write_some, FrameInv, Move, TypeOK
  <2>4. DEFINE u == <<c, totalSent'[c]>>
  <2>5. /\ Len(wire) \in Nat /\ DOMAIN wire = 1 .. Len(wire)
        /\ DOMAIN Append(wire, u) = 1 .. Len(wire) + 1 /\ Len(Append(wire, u)) = Len(wire) + 1
        /\ Append(wire, u)[Len(wire) + 1] = u
        /\ \A i \in 1 .. Len(wire) : Append(wire, u)[i] = wire[i]
        /\ Append(wire, u) # << >>
    <3>1. wire \in Seq(Units)
      BY DEF TypeOK
    <3>2. QED BY <3>1
  <2>6. wire \o << >> = wire /\ Append(wire, u) \o << >> = Append(wire, u)
    BY <2>5, ConcatEmptySeq DEF TypeOK
  <2>7. Whole(wire)
    BY <2>1, <2>6 DEF FrameInv
  <2>8. totalSent[c] > 0 => wire # << >> /\ wire[Len(wire)] = <<c, totalSent[c]>>
    BY <2>1 DEF FrameInv
  <2>9. ASSUME NEW i \in 1 .. Len(wire) + 1, wire'[i][2] > 1
        PROVE  i > 1 /\ wire'[i - 1] = <<wire'[i][1], wire'[i][2] - 1>>
    <3>1. CASE i = Len(wire) + 1
      <4>1. wire'[i] = u /\ totalSent[c] > 0
        BY <2>1, <2>2, <2>5, <2>9, <3>1
      <4>2. Len(wire) > 0
        BY <2>5, <2>8, <4>1 DEF TypeOK
      <4>3. wire'[i - 1] = wire[Len(wire)]
        <5>1. i - 1 = Len(wire) /\ Len(wire) \in 1 .. Len(wire)
          BY <2>5, <3>1, <4>2
        <5>2. QED BY <2>1, <2>5, <5>1
      <4>4. QED BY <2>2, <2>5, <2>8, <3>1, <4>1, <4>2, <4>3
    <3>2. CASE i # Len(wire) + 1
      <4>1. i \in DOMAIN wire /\ wire'[i] = wire[i]
        BY <2>1, <2>5, <3>2
      <4>2. i > 1 /\ wire[i - 1] = <<wire[i][1], wire[i][2] - 1>>
        BY <2>7, <2>9, <4>1 DEF Whole
      <4>3. wire'[i - 1] = wire[i - 1]
        BY <2>1, <2>5, <4>1, <4>2
      <4>4. QED BY <4>1, <4>2, <4>3
    <3>3. QED BY <3>1, <3>2
  <2>10. Whole(wire')
    BY <2>1, <2>5, <2>9 DEF Whole
  <2>11. wire' # << >> /\ wire'[Len(wire')] = <<c, totalSent'[c]>>
    BY <2>1, <2>5
  <2>12. (wire \o writeBuffer)' = wire'
    BY <2>1, <2>6
  <2>13. Whole(wire \o writeBuffer)'
    BY <2>10, <2>12 DEF Whole
  <2>14. QED BY <2>1, <2>3, <2>11, <2>13 DEF FrameInv
<1>9. ASSUME NEW c \in Calls, resume_answered(c) PROVE FrameInv'
  <2>1. CASE find(c) = None
    BY <1>1, <1>9, <2>1 DEF resume_answered
  <2>2. CASE find(c) # None
    <3>1. PICK to \in {"returned", "thrown"} : Move(c, to)
      BY <1>9, <2>2 DEF resume_answered, find
    <3>2. QED BY <1>2, <1>9, <3>1 DEF resume_answered
  <2>3. QED BY <2>1, <2>2
<1>10. ASSUME NEW c \in Calls, resume_failed(c) PROVE FrameInv'
  BY <1>2, <1>10 DEF resume_failed
<1>11. ASSUME NEW c \in Calls, call_method(c) PROVE FrameInv'
  <2>1. CASE Move(c, "thrown") /\ UNCHANGED writeBuffer
    BY <1>2, <1>11, <2>1 DEF call_method
  <2>2. CASE Move(c, "waiting") /\ writeBuffer' = writeBuffer \o Frame(c)
    <3>1. mode = "loop" /\ UNCHANGED <<mode, wire, totalSent, sender>>
      BY <1>11 DEF call_method, Outside, ModeInv, TypeOK
    <3>2. Whole((wire \o writeBuffer) \o Frame(c))
      <4>1. wire \o writeBuffer \in Seq(Units)
        BY ConcatProperties DEF TypeOK
      <4>2. QED BY <4>1, FrameType, ChannelAssumption, WholeFrame, WholeConcat DEF FrameInv
    <3>3. wire \o (writeBuffer \o Frame(c)) = (wire \o writeBuffer) \o Frame(c)
      <4>1. wire \in Seq(Units) /\ writeBuffer \in Seq(Units) /\ Frame(c) \in Seq(Units)
        BY FrameType, ChannelAssumption DEF TypeOK
      <4>2. QED BY <4>1, ConcatAssociative
    <3>4. Whole(wire \o writeBuffer)'
      BY <2>2, <3>1, <3>2, <3>3 DEF Whole
    <3>5. \A d \in Calls : call'[d] \notin {"registered", "writing", "failed"}
      BY <2>2, <3>1 DEF FrameInv, Move, TypeOK
    <3>6. QED BY <3>1, <3>4, <3>5 DEF FrameInv
  <2>3. QED BY <1>11, <2>1, <2>2 DEF call_method
<1>12. CASE on_write
  <2>1. mode = "loop" /\ UNCHANGED <<mode, call, totalSent, sender>>
    BY <1>12 DEF on_write
  <2>2. CASE UNCHANGED <<wire, writeBuffer>>
    BY <1>1, <2>1, <2>2
  <2>3. ASSUME NEW w \in 0 .. Len(writeBuffer), wire' = wire \o SubSeq(writeBuffer, 1, w),
               writeBuffer' = SubSeq(writeBuffer, w + 1, Len(writeBuffer))
        PROVE  FrameInv'
    <3>1. (wire \o writeBuffer)' = wire \o writeBuffer
      <4>1. DEFINE a == SubSeq(writeBuffer, 1, w)
                   b == SubSeq(writeBuffer, w + 1, Len(writeBuffer))
      <4>2. /\ wire \in Seq(Units) /\ a \in Seq(Units) /\ b \in Seq(Units)
            /\ a \o b = writeBuffer
        BY SplitSequence DEF TypeOK
      <4> HIDE DEF a, b
      <4>3. (wire \o a) \o b = wire \o (a \o b)
        <5>1. \A q, r, s \in Seq(Units) : (q \o r) \o s = q \o (r \o s)
          BY ConcatAssociative
        <5>2. QED BY <4>2, <5>1
      <4>4. wire' = wire \o a /\ writeBuffer' = b
        BY <2>3 DEF a, b
      <4>5. QED BY <4>2, <4>3, <4>4
    <3>2. Whole(wire \o writeBuffer)'
      BY <3>1 DEF FrameInv, Whole
    <3>3. QED BY <2>1, <3>2 DEF FrameInv
  <2>4. QED BY <1>12, <2>2, <2>3 DEF on_write
<1>13. CASE Receives
  BY <1>1, <1>13 DEF Receives, check_running, read_chunk, read_fails, complete, decode_ends,
                     decode_error, stop_running, decode_answer
<1>14. CASE destroy \/ Destroys \/ destroy_on_loop \/ call_method_under_lock
  BY <1>1, <1>14 DEF destroy, Destroys, close_fd, finish_destruction, destroy_on_loop,
                     call_method_under_lock
<1>15. CASE coroutine_ends \/ poll \/ on_read \/ on_read_ends \/ finish_clean
  BY <1>1, <1>15 DEF coroutine_ends, poll, on_read, on_read_ends, finish_clean
<1>16. CASE Server
  BY <1>1, <1>16 DEF Server, connects, peer_closes, peer_garbles, peer_answers, arrives
<1>17. CASE UNCHANGED vars
  BY <1>1, <1>17 DEF vars
<1>18. QED
  BY <1>3, <1>4, <1>5, <1>6, <1>7, <1>8, <1>9, <1>10, <1>11, <1>12, <1>13, <1>14, <1>15,
     <1>16, <1>17 DEF Next, Caller, LoopRuns
-----------------------------------------------------------------------------
(* The theorems.                                                           *)

LEMMA InitHolds == Init => IInv
<1> SUFFICES ASSUME Init PROVE IInv
  OBVIOUS
<1> USE ChannelAssumption
<1>1. TypeOK
  <2>1. /\ results \in [Calls -> Seq(Calls \cup {None})]
        /\ call \in [Calls -> CallStates]
        /\ totalSent \in [Calls -> 0 .. FrameSize]
    BY DEF Init, CallStates, ChannelAssumption
  <2>2. events \subseteq {"IN", "OUT"} /\ revents \subseteq {"IN", "OUT"}
    BY DEF Init
  <2>3. coroutine \in BOOLEAN /\ running \in BOOLEAN
    BY DEF Init
  <2>4. QED BY <2>1, <2>2, <2>3 DEF Init, TypeOK
<1>2. TotalInv /\ ModeInv
  BY DEF Init, TotalInv, ModeInv
<1>3. WireInv
  BY DEF Init, WireInv, Sent
<1>4. PromiseInv
  BY DEF Init, PromiseInv, HeldInv, ResultInv, Ended
<1>5. FrameInv
  <2>1. << >> \o << >> = << >>
    OBVIOUS
  <2>2. QED BY <2>1 DEF Init, FrameInv, Whole
<1>6. QED BY <1>1, <1>2, <1>3, <1>4, <1>5 DEF IInv

LEMMA StepKeeps == IInv /\ [Next]_vars => IInv'
<1>1. IInv /\ [Next]_vars => TypeOK'
  BY TypeStep DEF IInv, PromiseInv
<1>2. QED BY <1>1, TotalStep, ModeStep, WireStep, PromiseStep, FrameStep DEF IInv

\* IInv holds of every behaviour of the channel.
THEOREM Invariance == Spec => []IInv
BY InitHolds, StepKeeps, PTL DEF Spec

\* Every variable has its type; that the partial writes of a frame never go past
\* its end needs TotalInv (BinaryRpcChannel.cpp:182-192).
THEOREM TypeCorrect == Spec => []TypeOK
<1>1. IInv => TypeOK
  BY DEF IInv
<1>2. QED BY <1>1, Invariance, PTL

\* No promise is set twice, whatever the order of answers, duplicates, errors,
\* failing writes and destruction (BinaryRpcChannel.cpp:194-198, 236-256, 269-285).
THEOREM PromiseSetOnce == Spec => []CompletedOnce
<1>1. IInv => CompletedOnce
  <2>1. ASSUME IInv, NEW c \in Calls PROVE Len(results[c]) <= 1
    <3>1. \/ results[c] = << >>
          \/ results[c] = <<None>>
          \/ results[c] = <<c>>
      BY <2>1 DEF IInv, PromiseInv, ResultInv
    <3>2. CASE results[c] = << >>
      BY <3>2
    <3>3. CASE results[c] = <<None>>
      BY <3>3
    <3>4. CASE results[c] = <<c>>
      BY <3>4
    <3>5. QED BY <3>1, <3>2, <3>3, <3>4
  <2>2. QED BY <2>1 DEF CompletedOnce
<1>2. QED BY <1>1, Invariance, PTL

\* A call succeeds only with the answer to its own request, which had left
\* (BinaryRpcChannel.cpp:236-256, 327-348).
THEOREM AnswerIsOwn == Spec => []AnswerMatches
<1>1. IInv => AnswerMatches
  <2>1. ASSUME IInv, NEW c \in Calls, NEW i \in DOMAIN results[c], results[c][i] # None
        PROVE  results[c][i] = c /\ Sent(c)
    <3>1. \/ results[c] = << >>
          \/ results[c] = <<None>>
          \/ results[c] = <<c>> /\ Sent(c)
      BY <2>1 DEF IInv, PromiseInv, ResultInv
    <3>2. QED BY <2>1, <3>1
  <2>2. QED BY <2>1 DEF AnswerMatches
<1>2. QED BY <1>1, Invariance, PTL

\* The context of a call that is over is out of the receiving side's reach, so
\* that nobody writes the response of a caller that has left
\* (BinaryRpcChannel.cpp:194-198, 246-249).
THEOREM ResponseStaysAlive == Spec => []ResponseAlive
<1>1. IInv => ResponseAlive
  <2>1. ASSUME IInv, NEW c \in Calls, Ended(c)
        PROVE  held # c /\ (c \in pendingRequests => at \in {"clean", "stuck"})
    <3>1. c # None
      BY ChannelAssumption DEF ChannelAssumption
    <3>2. held # c
      BY <2>1, <3>1 DEF IInv, PromiseInv, HeldInv, Ended
    <3>3. c \in pendingRequests => at \in {"clean", "stuck"}
      BY <2>1 DEF IInv, PromiseInv, ResultInv
    <3>4. QED BY <3>2, <3>3
  <2>2. QED BY <2>1 DEF ResponseAlive
<1>2. QED BY <1>1, Invariance, PTL

\* A waiting call whose promise is not set can still be reached by those who
\* would set it (BinaryRpcChannel.cpp:162-168, 238-256, 269-285).
THEOREM NoLostWaiter == Spec => []WaiterIsRegistered
<1>1. IInv => WaiterIsRegistered
  BY DEF IInv, PromiseInv, ResultInv, WaiterIsRegistered
<1>2. QED BY <1>1, Invariance, PTL

\* Requests of concurrent callers are not mixed on the connection: sendMutex_ is
\* held for the whole of a frame, and a loop appends whole frames to its backlog
\* (BinaryRpcChannel.cpp:180-193, 390-428).
THEOREM FramesStayWhole == Spec => []FramesWhole
<1>1. IInv => FramesWhole
  <2>1. ASSUME IInv, NEW i \in DOMAIN wire, wire[i][2] > 1
        PROVE  i > 1 /\ wire[i - 1] = <<wire[i][1], wire[i][2] - 1>>
    <3>1. wire \in Seq(Units) /\ writeBuffer \in Seq(Units)
      BY <2>1 DEF IInv, TypeOK
    <3>2. /\ DOMAIN wire = 1 .. Len(wire) /\ Len(wire) \in Nat
          /\ i \in DOMAIN (wire \o writeBuffer)
          /\ \A j \in 1 .. Len(wire) : (wire \o writeBuffer)[j] = wire[j]
      BY <3>1
    <3>3. Whole(wire \o writeBuffer)
      BY <2>1 DEF IInv, FrameInv
    <3>4. /\ (wire \o writeBuffer)[i] = wire[i]
          /\ i > 1 => (wire \o writeBuffer)[i - 1] = wire[i - 1]
      BY <3>2
    <3>5. QED BY <2>1, <3>2, <3>3, <3>4 DEF Whole
  <2>2. QED BY <2>1 DEF FramesWhole
<1>2. QED BY <1>1, Invariance, PTL
=============================================================================
