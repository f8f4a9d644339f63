------------------------ MODULE TcpConnectionProofs ------------------------
(***************************************************************************)
(* TLAPS proofs about TcpConnection, for any sizes of messages and files,  *)
(* any high-water mark and any number of units and queued calls.           *)
(***************************************************************************)
EXTENDS TcpConnection, Integers, SequenceTheorems, TLAPS

-----------------------------------------------------------------------------
(* Sequences of units.                                                     *)

\* A sequence falls into its first n elements and the rest.
LEMMA TakeDrop ==
  ASSUME NEW S, NEW s \in Seq(S), NEW n \in 0 .. Len(s)
  PROVE  /\ Take(s, n) \in Seq(S) /\ Len(Take(s, n)) = n
         /\ Drop(s, n) \in Seq(S) /\ Len(Drop(s, n)) = Len(s) - n
         /\ Take(s, n) \o Drop(s, n) = s
<1>1. Len(s) \in Nat /\ \A i \in 1 .. Len(s) : s[i] \in S
  BY LenProperties
<1>2. Take(s, n) \in Seq(S) /\ Len(Take(s, n)) = n
  BY <1>1, SubSeqProperties DEF Take
<1>3. Drop(s, n) \in Seq(S) /\ Len(Drop(s, n)) = Len(s) - n
  <2>1. n + 1 \in Int /\ Len(s) \in Int /\ \A i \in n + 1 .. Len(s) : s[i] \in S
    BY <1>1
  <2>2. /\ SubSeq(s, n + 1, Len(s)) \in Seq(S)
        /\ Len(SubSeq(s, n + 1, Len(s))) = IF n + 1 <= Len(s) THEN Len(s) - (n + 1) + 1 ELSE 0
    BY <2>1, SubSeqProperties
  <2>3. QED BY <1>1, <2>2 DEF Drop
<1>4. Take(s, n) \o Drop(s, n) = s
  <2>1. 1 \in 1 .. Len(s) + 1 /\ n \in 1 - 1 .. Len(s) /\ Len(s) \in n .. Len(s)
    BY <1>1
  <2>2. SubSeq(s, 1, n) \o SubSeq(s, n + 1, Len(s)) = SubSeq(s, 1, Len(s))
    BY <2>1, ConcatAdjacentSubSeq
  <2>3. QED BY <2>2, SubSeqFull DEF Take, Drop
<1>5. QED BY <1>2, <1>3, <1>4

\* A sequence without elements, and one with some.
LEMMA EmptyLen ==
  ASSUME NEW S, NEW s \in Seq(S)
  PROVE  Len(s) \in Nat /\ (Len(s) = 0 <=> s = << >>)
BY LenProperties, EmptySeq

LEMMA DropNone ==
  ASSUME NEW S, NEW s \in Seq(S)
  PROVE  Take(s, 0) = << >> /\ Drop(s, 0) = s
<1> DEFINE u == Take(s, 0) v == Drop(s, 0)
<1>1. 0 \in 0 .. Len(s)
  BY EmptyLen
<1>2. u \in Seq(S) /\ Len(u) = 0 /\ v \in Seq(S) /\ u \o v = s
  BY <1>1, TakeDrop
<1> HIDE DEF u, v
<1>3. u = << >>
  BY <1>2, EmptyLen
<1>4. v = s
  BY <1>2, <1>3, ConcatEmptySeq
<1>5. QED BY <1>3, <1>4 DEF u, v

\* The first a units in order.
Numbers(a) == [i \in 1 .. a |-> i]

LEMMA FunctionIsSeq ==
  ASSUME NEW S, NEW n \in Nat, NEW f \in [1 .. n -> S]
  PROVE  f \in Seq(S) /\ Len(f) = n
OBVIOUS

LEMMA UnitsType ==
  ASSUME accepted \in Nat, NEW n \in Nat, NEW m \in Nat, accepted + n + m <= MaxUnits, MaxUnits \in Nat
  PROVE  /\ Units(n) \in Seq(1 .. MaxUnits) /\ Len(Units(n)) = n
         /\ UnitsAfter(n, m) \in Seq(1 .. MaxUnits) /\ Len(UnitsAfter(n, m)) = m
         /\ Numbers(accepted) \in Seq(1 .. MaxUnits) /\ Len(Numbers(accepted)) = accepted
<1>1. Units(n) \in [1 .. n -> 1 .. MaxUnits]
  BY DEF Units
<1>2. UnitsAfter(n, m) \in [1 .. m -> 1 .. MaxUnits]
  BY DEF UnitsAfter
<1>3. Numbers(accepted) \in [1 .. accepted -> 1 .. MaxUnits]
  BY DEF Numbers
<1>4. QED BY <1>1, <1>2, <1>3

\* New units continue the numbering.
LEMMA Join ==
  ASSUME NEW a \in Nat, NEW b \in Nat, NEW s \in [1 .. a -> Nat], NEW t \in [1 .. b -> Nat],
         NEW u \in [1 .. a + b -> Nat],
         \A i \in 1 .. a + b : u[i] = IF i <= a THEN s[i] ELSE t[i - a]
  PROVE  s \o t = u
<1>1. s \in Seq(Nat) /\ Len(s) = a
  BY FunctionIsSeq
<1>2. t \in Seq(Nat) /\ Len(t) = b
  BY FunctionIsSeq
<1>3. u \in Seq(Nat) /\ Len(u) = a + b
  BY FunctionIsSeq
<1>4. /\ s \o t \in Seq(Nat) /\ Len(s \o t) = Len(s) + Len(t)
      /\ \A i \in 1 .. Len(s) + Len(t) : (s \o t)[i] = IF i <= Len(s) THEN s[i] ELSE t[i - Len(s)]
  BY <1>1, <1>2, ConcatProperties
<1>5. QED BY <1>1, <1>2, <1>3, <1>4, SeqEqual

LEMMA Continue ==
  ASSUME accepted \in Nat, NEW n \in Nat
  PROVE  Numbers(accepted) \o Units(n) = Numbers(accepted + n)
<1> DEFINE s == Numbers(accepted) t == Units(n) u == Numbers(accepted + n)
<1>1. /\ s \in [1 .. accepted -> Nat] /\ t \in [1 .. n -> Nat] /\ u \in [1 .. accepted + n -> Nat]
      /\ \A i \in 1 .. accepted + n : u[i] = IF i <= accepted THEN s[i] ELSE t[i - accepted]
  BY DEF Numbers, Units
<1> HIDE DEF s, t, u
<1>2. s \o t = u
  BY <1>1, Join
<1>3. QED BY <1>2 DEF s, t, u

LEMMA ContinueAfter ==
  ASSUME accepted \in Nat, NEW n \in Nat, NEW m \in Nat
  PROVE  Numbers(accepted + n) \o UnitsAfter(n, m) = Numbers(accepted + n + m)
<1> DEFINE a == accepted + n
           s == Numbers(a) t == UnitsAfter(n, m) u == Numbers(a + m)
<1>1. /\ a \in Nat
      /\ s \in [1 .. a -> Nat] /\ t \in [1 .. m -> Nat] /\ u \in [1 .. a + m -> Nat]
      /\ \A i \in 1 .. a + m : u[i] = IF i <= a THEN s[i] ELSE t[i - a]
  BY DEF Numbers, UnitsAfter
<1> HIDE DEF s, t, u, a
<1>2. s \o t = u
  BY <1>1, Join
<1>3. QED BY <1>2 DEF s, t, u, a

\* Moving units from the front of one sequence to the end of another.
LEMMA MoveOut ==
  ASSUME NEW S, NEW s \in Seq(S), NEW t \in Seq(S), NEW n \in 0 .. Len(t)
  PROVE  /\ s \o Take(t, n) \in Seq(S)
         /\ (s \o Take(t, n)) \o Drop(t, n) = s \o t
<1> DEFINE u == Take(t, n) v == Drop(t, n)
<1>1. u \in Seq(S) /\ v \in Seq(S)
  BY TakeDrop
<1>2. u \o v = t
  BY TakeDrop
<1> HIDE DEF u, v
<1>3. (s \o u) \o v = s \o (u \o v)
  BY <1>1, ConcatAssociative
<1>4. s \o u \in Seq(S)
  BY <1>1, ConcatProperties
<1>5. QED BY <1>2, <1>3, <1>4 DEF u, v

-----------------------------------------------------------------------------
(* The invariant, without the queues, and what a step does.                *)

Outputs ==
  /\ writeBuffer \in Seq(1 .. MaxUnits) /\ pendingFile \in Seq(1 .. MaxUnits)
  /\ wire \in Seq(1 .. MaxUnits) /\ cut \in Seq(1 .. MaxUnits)
  /\ accepted \in 0 .. MaxUnits

Control ==
  /\ events \subseteq {"IN", "OUT"}
  /\ isClosed \in BOOLEAN /\ closeNext \in BOOLEAN /\ userRuns \in BOOLEAN
  /\ called \in Callbacks \cup {"none"}
  /\ isClosed => events = {}

Core == Outputs /\ Control /\ OutputInOrder /\ WritingIffBacklog

Queues ==
  /\ revents \subseteq {"HUP", "ERR", "IN", "OUT"}
  /\ inbox \in Seq(Calls) /\ Len(inbox) <= MaxInbox

IInv == Core /\ Queues

\* The action properties, of one step.
StaysClosed == (isClosed => isClosed' /\ events' = {}) /\ (called' = "close" => ~isClosed)
Drained     == called' = "complete" => writeBuffer' = << >> /\ pendingFile' = << >>
Crossed     == Len(writeBuffer) < HighWaterMark /\ Len(writeBuffer') >= HighWaterMark
Effect      == StaysClosed /\ Drained /\ (called' = "highwater" <=> Crossed)

\* A step that leaves the output alone.
LEMMA SameOutput ==
  ASSUME Core, UNCHANGED outputVars
  PROVE  Outputs' /\ OutputInOrder' /\ ~Crossed
<1>1. Len(writeBuffer) \in Nat /\ writeBuffer' = writeBuffer
  BY EmptyLen DEF Core, Outputs, outputVars
<1>2. ~Crossed
  BY <1>1, ConnectionAssumption DEF Crossed
<1>3. QED BY <1>2 DEF Core, Outputs, OutputInOrder, outputVars

LEMMA Closing ==
  ASSUME Core, close_connection, UNCHANGED outputVars, closeNext' \in {closeNext, FALSE}
  PROVE  Core' /\ Effect
<1>1. Outputs' /\ OutputInOrder' /\ ~Crossed
  BY SameOutput
<1>2. Control' /\ isClosed' /\ StaysClosed /\ called' \in {"close", "none"}
  BY DEF close_connection, Invoke, Return, Core, Control, StaysClosed, Callbacks
<1>3. QED BY <1>1, <1>2 DEF Core, WritingIffBacklog, Effect, Drained

LEMMA Failing ==
  ASSUME Core, fail, Outputs', OutputInOrder', ~Crossed
  PROVE  Core' /\ Effect
<1>1. Control' /\ closeNext' /\ StaysClosed /\ called' = "error"
  BY DEF fail, Invoke, Core, Control, StaysClosed, Callbacks
<1>2. QED BY <1>1 DEF Core, WritingIffBacklog, Effect, Drained

\* A step of the connection's user: control changes hands and nothing else.
LEMMA Passing ==
  ASSUME Core, UNCHANGED <<outputVars, events, stateVars>>, userRuns' \in BOOLEAN,
         called' \in {"none", "message"}
  PROVE  Core' /\ Effect
<1>1. Outputs' /\ OutputInOrder' /\ ~Crossed
  BY SameOutput
<1>2. Control' /\ StaysClosed
  BY DEF Core, Control, StaysClosed, Callbacks, stateVars
<1>3. WritingIffBacklog'
  BY DEF Core, WritingIffBacklog, stateVars, outputVars
<1>4. QED BY <1>1, <1>2, <1>3 DEF Core, Effect, Drained

\* The end of the send paths that leave output behind.
LEMMA Reporting ==
  ASSUME Core, ~isClosed, enable_writing_and_report, Outputs', OutputInOrder', UNCHANGED stateVars,
         writeBuffer' # << >> \/ pendingFile' # << >>
  PROVE  Core' /\ Effect
<1>1. /\ events' = events \cup {"OUT"}
      /\ called' = IF Crossed THEN "highwater" ELSE "none"
      /\ userRuns' = IF Crossed THEN TRUE ELSE userRuns
  BY DEF enable_writing_and_report, Invoke, Return, Crossed
<1>2. Control'
  BY <1>1 DEF Core, Control, Callbacks, stateVars
<1>3. QED BY <1>1, <1>2 DEF Core, WritingIffBacklog, Effect, StaysClosed, Drained, stateVars

\* All output has left: EPOLLOUT goes, write-complete is reported.
LEMMA Completing ==
  ASSUME Core, ~isClosed, events' \in {events \ {"OUT"}, events}, "OUT" \notin events',
         Invoke("complete"), Outputs', OutputInOrder', UNCHANGED stateVars,
         writeBuffer' = << >>, pendingFile' = << >>
  PROVE  Core' /\ Effect
<1>1. called' = "complete" /\ userRuns'
  BY DEF Invoke
<1>2. Control'
  BY <1>1 DEF Core, Control, Callbacks, stateVars
<1>3. Len(writeBuffer') = 0
  BY EmptyLen DEF Core, Outputs
<1>4. ~Crossed
  BY <1>3, ConnectionAssumption DEF Crossed
<1>5. QED BY <1>1, <1>2, <1>4 DEF Core, WritingIffBacklog, Effect, StaysClosed, Drained, stateVars

-----------------------------------------------------------------------------
(* The operations.                                                         *)

\* What the kernel takes of the backlog and a new message keeps the order.
LEMMA SendOrder ==
  ASSUME Core, pendingFile = << >>, NEW n \in Nat, accepted + n <= MaxUnits,
         NEW w \in 0 .. Len(writeBuffer \o Units(n)),
         accepted' = accepted + n, UNCHANGED <<pendingFile, cut>>,
         wire' = wire \o Take(writeBuffer \o Units(n), w),
         writeBuffer' = Drop(writeBuffer \o Units(n), w)
  PROVE  Outputs' /\ OutputInOrder'
<1> DEFINE S == 1 .. MaxUnits
           u == Units(n)
           out == writeBuffer \o u
<1>1. MaxUnits \in Nat /\ accepted \in Nat /\ n + 0 = n /\ accepted + n + 0 <= MaxUnits
  BY ConnectionAssumption DEF Core, Outputs
<1>2. u \in Seq(S) /\ Numbers(accepted) \o u = Numbers(accepted + n)
  BY <1>1, UnitsType, Continue
<1> HIDE DEF u
<1>3. writeBuffer \in Seq(S) /\ wire \in Seq(S) /\ cut \in Seq(S) /\ << >> \in Seq(S)
  BY EmptySeq DEF Core, Outputs
<1> HIDE DEF S
<1>4. out \in Seq(S) /\ (wire \o writeBuffer) \o u = wire \o out /\ wire \o writeBuffer \in Seq(S)
  <2>1. u \in Seq(S)
    BY <1>2
  <2>2. (wire \o writeBuffer) \o u = wire \o (writeBuffer \o u)
    BY <1>3, <2>1, ConcatAssociative
  <2>3. writeBuffer \o u \in Seq(S) /\ wire \o writeBuffer \in Seq(S)
    BY <1>3, <2>1, ConcatProperties
  <2>4. QED BY <2>2, <2>3
<1>5. w \in 0 .. Len(out) /\ wire' = wire \o Take(out, w) /\ writeBuffer' = Drop(out, w)
  BY DEF u
<1> HIDE DEF out
<1>6. writeBuffer' \in Seq(S)
  BY <1>4, <1>5, TakeDrop
<1>7. wire' \in Seq(S) /\ wire' \o writeBuffer' = wire \o out
  BY <1>3, <1>4, <1>5, MoveOut
<1>8. Outputs'
  BY <1>1, <1>3, <1>6, <1>7 DEF Core, Outputs, S
<1>9. ASSUME cut = << >> PROVE (wire' \o writeBuffer') \o << >> = Numbers(accepted + n)
  <2>1. (wire \o writeBuffer) \o << >> = Numbers(accepted)
    BY <1>9 DEF Core, OutputInOrder, Numbers
  <2>2. wire \o writeBuffer = Numbers(accepted)
    BY <1>4, <2>1, ConcatEmptySeq
  <2>3. wire' \o writeBuffer' = Numbers(accepted + n)
    BY <1>2, <1>4, <1>7, <2>2
  <2>4. wire' \o writeBuffer' \in Seq(S)
    BY <1>6, <1>7, ConcatProperties
  <2>5. QED BY <2>3, <2>4, ConcatEmptySeq
<1>10. OutputInOrder'
  BY <1>9 DEF OutputInOrder, Numbers
<1>11. QED BY <1>8, <1>10

LEMMA SendStep ==
  ASSUME Core, NEW n \in Sizes, send_in_loop(n)
  PROVE  Core' /\ Effect
<1>1. n \in Nat /\ MaxUnits \in Nat
  BY ConnectionAssumption
<1>2. CASE isClosed /\ Refused /\ Return /\ UNCHANGED <<events, stateVars>>
  BY <1>2, Passing DEF Refused, Return, Core, Control
<1>3. CASE Refused /\ fail
  BY <1>3, SameOutput, Failing DEF Refused
<1>4. CASE /\ ~isClosed /\ pendingFile = << >> /\ accepted + n <= MaxUnits
           /\ accepted' = accepted + n
           /\ LET out == writeBuffer \o Units(n)
                  direct == writeBuffer # << >> \/ "OUT" \notin events
              IN \E w \in IF direct THEN 0 .. Len(out) ELSE {0} :
                   /\ wire' = wire \o Take(out, w)
                   /\ writeBuffer' = Drop(out, w)
           /\ IF writeBuffer' = << >>
              THEN events' = events \ {"OUT"} /\ Invoke("complete")
              ELSE enable_writing_and_report
           /\ UNCHANGED <<pendingFile, cut, stateVars>>
  <2>1. Len(writeBuffer \o Units(n)) \in Nat
    <3>1. accepted \in Nat /\ accepted + n + 0 <= MaxUnits
      BY <1>1, <1>4, ConnectionAssumption DEF Core, Outputs
    <3>2. Units(n) \in Seq(1 .. MaxUnits)
      BY <1>1, <3>1, UnitsType
    <3>3. writeBuffer \o Units(n) \in Seq(1 .. MaxUnits)
      BY <3>2, ConcatProperties DEF Core, Outputs
    <3>4. QED BY <3>3, EmptyLen
  <2>2. PICK w \in 0 .. Len(writeBuffer \o Units(n)) :
          /\ wire' = wire \o Take(writeBuffer \o Units(n), w)
          /\ writeBuffer' = Drop(writeBuffer \o Units(n), w)
    BY <1>4, <2>1
  <2>3. Outputs' /\ OutputInOrder'
    BY <1>1, <1>4, <2>2, SendOrder
  <2>4. CASE writeBuffer' = << >>
    BY <1>4, <2>3, <2>4, Completing
  <2>5. CASE writeBuffer' # << >>
    BY <1>4, <2>3, <2>5, Reporting
  <2>6. QED BY <2>4, <2>5
<1>5. QED BY <1>2, <1>3, <1>4 DEF send_in_loop

\* One sendfile() keeps the order, unless it gives up on the file.
LEMMA SendfileOrder ==
  ASSUME NEW S, NEW s \in Seq(S), NEW file \in Seq(S), cut \in Seq(S), NEW f \in 0 .. Len(file),
         sendfile(file, f)
  PROVE  /\ pendingFile' \in Seq(S) /\ cut' \in Seq(S) /\ s \o Take(file, f) \in Seq(S)
         /\ cut' = << >> => cut = << >> /\ (s \o Take(file, f)) \o pendingFile' = s \o file
<1>1. Drop(file, f) \in Seq(S)
  BY TakeDrop
<1>2. s \o Take(file, f) \in Seq(S) /\ (s \o Take(file, f)) \o Drop(file, f) = s \o file
  BY MoveOut
<1>3. CASE pendingFile' = Drop(file, f) /\ UNCHANGED cut
  BY <1>1, <1>2, <1>3
<1>4. CASE file # << >> /\ pendingFile' = << >> /\ cut' = cut \o file
  <2>1. cut \o file \in Seq(S) /\ (cut \o file = << >> => file = << >>)
    BY ConcatProperties, ConcatEqualIffEmpty
  <2>2. QED BY <1>2, <1>4, <2>1, EmptySeq
<1>5. QED BY <1>3, <1>4 DEF sendfile

\* A file that waits continues the numbering, behind what was added to the buffer.
LEMMA FileWaits ==
  ASSUME Core, pendingFile = << >>, NEW h \in Nat, NEW n \in Sizes, accepted + h + n <= MaxUnits,
         accepted' = accepted + h + n, UNCHANGED <<wire, cut>>,
         writeBuffer' = writeBuffer \o Units(h), pendingFile' = UnitsAfter(h, n)
  PROVE  Outputs' /\ OutputInOrder' /\ pendingFile' # << >>
<1> DEFINE S == 1 .. MaxUnits
           u == Units(h)
           v == UnitsAfter(h, n)
<1>1. MaxUnits \in Nat /\ accepted \in Nat /\ n \in Nat \ {0}
  BY ConnectionAssumption DEF Core, Outputs
<1>2. u \in Seq(S) /\ v \in Seq(S) /\ Len(v) = n
  BY <1>1, UnitsType
<1>3. Numbers(accepted) \o u = Numbers(accepted + h) /\ Numbers(accepted + h) \o v = Numbers(accepted + h + n)
  BY <1>1, Continue, ContinueAfter
<1>4. writeBuffer' = writeBuffer \o u /\ pendingFile' = v
  OBVIOUS
<1> HIDE DEF u, v
<1>5. writeBuffer \in Seq(S) /\ wire \in Seq(S) /\ cut \in Seq(S) /\ << >> \in Seq(S)
  BY EmptySeq DEF Core, Outputs
<1> HIDE DEF S
<1>6. wire \o writeBuffer \in Seq(S) /\ writeBuffer \o u \in Seq(S)
  BY <1>2, <1>5, ConcatProperties
<1>7. wire \o (writeBuffer \o u) = (wire \o writeBuffer) \o u
  <2>1. wire \in Seq(S) /\ writeBuffer \in Seq(S) /\ u \in Seq(S)
    BY <1>2, <1>5
  <2>2. \A q, r, t \in Seq(S) : (q \o r) \o t = q \o (r \o t)
    BY ConcatAssociative
  <2>3. QED BY <2>1, <2>2
<1>8. ASSUME cut = << >> PROVE (wire' \o writeBuffer') \o pendingFile' = Numbers(accepted + h + n)
  <2>1. (wire \o writeBuffer) \o << >> = Numbers(accepted)
    BY <1>8 DEF Core, OutputInOrder, Numbers
  <2>2. wire \o writeBuffer = Numbers(accepted)
    BY <1>6, <2>1, ConcatEmptySeq
  <2>3. QED BY <1>3, <1>4, <1>7, <2>2
<1>9. OutputInOrder'
  BY <1>8 DEF OutputInOrder, Numbers
<1>10. Outputs'
  BY <1>1, <1>2, <1>4, <1>5, <1>6 DEF Core, Outputs, S
<1>11. pendingFile' # << >>
  BY <1>1, <1>2, <1>4, EmptyLen
<1>12. QED BY <1>9, <1>10, <1>11

\* The same without a header.
LEMMA FileAlone ==
  ASSUME Core, pendingFile = << >>, NEW n \in Sizes, accepted + n <= MaxUnits,
         accepted' = accepted + n, UNCHANGED <<wire, writeBuffer, cut>>, pendingFile' = Units(n)
  PROVE  Outputs' /\ OutputInOrder' /\ pendingFile' # << >>
<1>1. MaxUnits \in Nat /\ accepted \in Nat /\ n \in Nat \ {0}
  BY ConnectionAssumption DEF Core, Outputs
<1>2. Units(0) = << >>
  BY DEF Units
<1>3. writeBuffer' = writeBuffer \o Units(0)
  BY <1>2, ConcatEmptySeq DEF Core, Outputs
<1>4. UnitsAfter(0, n) = Units(n)
  BY <1>1 DEF Units, UnitsAfter
<1>5. accepted + 0 + n = accepted + n
  BY <1>1
<1>6. QED BY <1>1, <1>3, <1>4, <1>5, FileWaits

\* A file that starts at once.
LEMMA FileStarts ==
  ASSUME Core, pendingFile = << >>, writeBuffer = << >>, NEW n \in Sizes, accepted + n <= MaxUnits,
         accepted' = accepted + n, UNCHANGED writeBuffer,
         NEW f \in 0 .. n, wire' = wire \o Take(Units(n), f), sendfile(Units(n), f)
  PROVE  Outputs' /\ OutputInOrder'
<1> DEFINE S == 1 .. MaxUnits
           u == Units(n)
<1>1. MaxUnits \in Nat /\ accepted \in Nat /\ n \in Nat \ {0} /\ accepted + n + 0 <= MaxUnits
  BY ConnectionAssumption DEF Core, Outputs
<1>2. u \in Seq(S) /\ Len(u) = n /\ Numbers(accepted) \o u = Numbers(accepted + n)
  BY <1>1, UnitsType, Continue
<1>3. wire' = wire \o Take(u, f) /\ sendfile(u, f) /\ f \in 0 .. Len(u)
  BY <1>2
<1> HIDE DEF u
<1>4. wire \in Seq(S) /\ cut \in Seq(S) /\ << >> \in Seq(S)
  BY EmptySeq DEF Core, Outputs
<1> HIDE DEF S
<1>5. /\ pendingFile' \in Seq(S) /\ cut' \in Seq(S) /\ wire' \in Seq(S)
      /\ cut' = << >> => cut = << >> /\ wire' \o pendingFile' = wire \o u
  <2>1. wire \in Seq(S) /\ u \in Seq(S) /\ cut \in Seq(S)
    BY <1>2, <1>4
  <2>2. /\ pendingFile' \in Seq(S) /\ cut' \in Seq(S) /\ wire \o Take(u, f) \in Seq(S)
        /\ cut' = << >> => cut = << >> /\ (wire \o Take(u, f)) \o pendingFile' = wire \o u
    BY <1>3, <2>1, SendfileOrder
  <2>3. QED BY <1>3, <2>2
<1>6. ASSUME cut' = << >> PROVE (wire' \o writeBuffer') \o pendingFile' = Numbers(accepted + n)
  <2>1. (wire \o << >>) \o << >> = Numbers(accepted)
    BY <1>5, <1>6 DEF Core, OutputInOrder, Numbers
  <2>2. wire = Numbers(accepted)
    BY <1>4, <2>1, ConcatEmptySeq
  <2>3. wire' \o << >> = wire'
    BY <1>5, ConcatEmptySeq
  <2>4. QED BY <1>2, <1>5, <1>6, <2>2, <2>3
<1>7. OutputInOrder'
  BY <1>6 DEF OutputInOrder, Numbers
<1>8. QED BY <1>1, <1>4, <1>5, <1>7 DEF Core, Outputs, S

\* Output waits for EPOLLOUT and nothing is reported.
LEMMA Waits ==
  ASSUME Core, ~isClosed, events' = events \cup {"OUT"}, Return, Outputs', OutputInOrder', ~Crossed,
         UNCHANGED stateVars, writeBuffer' # << >> \/ pendingFile' # << >>
  PROVE  Core' /\ Effect
<1>1. called' = "none" /\ userRuns' = userRuns
  BY DEF Return
<1>2. Control'
  BY <1>1 DEF Core, Control, Callbacks, stateVars
<1>3. QED BY <1>1, <1>2 DEF Core, WritingIffBacklog, Effect, StaysClosed, Drained, stateVars

LEMMA NotCrossed ==
  ASSUME Core, UNCHANGED writeBuffer
  PROVE  ~Crossed
<1>1. Len(writeBuffer) \in Nat
  BY EmptyLen DEF Core, Outputs
<1>2. QED BY <1>1, ConnectionAssumption DEF Crossed

LEMMA SendFileStep ==
  ASSUME Core, NEW n \in Sizes, send_file_in_loop(n)
  PROVE  Core' /\ Effect
<1>1. CASE isClosed /\ Refused /\ Return /\ UNCHANGED <<events, stateVars>>
  BY <1>1, Passing DEF Refused, Return, Core, Control
<1>2. CASE Refused /\ fail
  BY <1>2, SameOutput, Failing DEF Refused
<1>3. CASE /\ ~isClosed /\ pendingFile = << >> /\ accepted + n <= MaxUnits
           /\ accepted' = accepted + n /\ UNCHANGED writeBuffer
           /\ pendingFile' = Units(n) /\ events' = events \cup {"OUT"} /\ Return
           /\ UNCHANGED <<wire, cut, stateVars>>
  <2>1. Outputs' /\ OutputInOrder' /\ pendingFile' # << >>
    BY <1>3, FileAlone
  <2>2. ~Crossed
    BY <1>3, NotCrossed
  <2>3. QED BY <1>3, <2>1, <2>2, Waits
<1>4. CASE /\ ~isClosed /\ pendingFile = << >> /\ accepted + n <= MaxUnits
           /\ accepted' = accepted + n /\ UNCHANGED writeBuffer
           /\ writeBuffer = << >> /\ "OUT" \notin events
           /\ \E f \in 0 .. n : wire' = wire \o Take(Units(n), f) /\ sendfile(Units(n), f)
           /\ IF pendingFile' = << >>
              THEN Invoke("complete") /\ UNCHANGED events
              ELSE Return /\ events' = events \cup {"OUT"}
           /\ UNCHANGED stateVars
  <2>1. Outputs' /\ OutputInOrder'
    BY <1>4, FileStarts
  <2>2. ~Crossed
    BY <1>4, NotCrossed
  <2>3. CASE pendingFile' = << >>
    BY <1>4, <2>1, <2>3, Completing
  <2>4. CASE pendingFile' # << >>
    BY <1>4, <2>1, <2>2, <2>4, Waits
  <2>5. QED BY <2>3, <2>4
<1>5. CASE /\ ~isClosed /\ pendingFile = << >> /\ accepted + n <= MaxUnits
           /\ accepted' = accepted + n /\ UNCHANGED writeBuffer
           /\ pendingFile' = Units(n) /\ fail /\ UNCHANGED <<wire, cut>>
  <2>1. Outputs' /\ OutputInOrder'
    BY <1>5, FileAlone
  <2>2. ~Crossed
    BY <1>5, NotCrossed
  <2>3. QED BY <1>5, <2>1, <2>2, Failing
<1>6. QED BY <1>1, <1>2, <1>3, <1>4, <1>5 DEF send_file_in_loop

LEMMA SendHeaderStep ==
  ASSUME Core, NEW h \in Sizes, NEW n \in Sizes, send_file_with_header_in_loop(h, n)
  PROVE  Core' /\ Effect
<1>1. CASE isClosed /\ Refused /\ Return /\ UNCHANGED <<events, stateVars>>
  BY <1>1, Passing DEF Refused, Return, Core, Control
<1>2. CASE Refused /\ fail
  BY <1>2, SameOutput, Failing DEF Refused
<1>3. CASE /\ ~isClosed /\ pendingFile = << >> /\ accepted + h + n <= MaxUnits
           /\ accepted' = accepted + h + n
           /\ writeBuffer' = writeBuffer \o Units(h)
           /\ pendingFile' = UnitsAfter(h, n)
           /\ enable_writing_and_report
           /\ UNCHANGED <<wire, cut, stateVars>>
  <2>1. h \in Nat
    BY ConnectionAssumption
  <2>2. Outputs' /\ OutputInOrder' /\ pendingFile' # << >>
    BY <1>3, <2>1, FileWaits
  <2>3. QED BY <1>3, <2>2, Reporting
<1>4. QED BY <1>1, <1>2, <1>3 DEF send_file_with_header_in_loop

LEMMA PerformStep ==
  ASSUME Core, NEW c \in Calls, perform(c)
  PROVE  Core' /\ Effect
<1>1. CASE c.call = "send" /\ send_in_loop(c.size)
  BY <1>1, SendStep DEF Calls
<1>2. CASE c.call = "send_file" /\ send_file_in_loop(c.size)
  BY <1>2, SendFileStep DEF Calls
<1>3. CASE c.call = "send_file_with_header" /\ send_file_with_header_in_loop(c.header, c.size)
  BY <1>3, SendHeaderStep DEF Calls
<1>4. CASE force_close_in_loop
  BY <1>4, Closing DEF force_close_in_loop, Refused
<1>5. QED BY <1>1, <1>2, <1>3, <1>4 DEF perform

\* The buffer goes out before the file, whatever the kernel takes of them.
LEMMA FlushOrder ==
  ASSUME Core, NEW w \in 0 .. Len(writeBuffer), NEW f \in 0 .. Len(pendingFile), flush(w, f)
  PROVE  Outputs' /\ OutputInOrder' /\ ~Crossed
<1> DEFINE S == 1 .. MaxUnits
           u == Take(writeBuffer, w)
           s == wire \o u
<1>1. /\ writeBuffer \in Seq(S) /\ pendingFile \in Seq(S) /\ wire \in Seq(S) /\ cut \in Seq(S)
      /\ accepted \in 0 .. MaxUnits
  BY DEF Core, Outputs
<1>2. /\ f > 0 => w = Len(writeBuffer)
      /\ wire' = s \o Take(pendingFile, f) /\ writeBuffer' = Drop(writeBuffer, w)
      /\ sendfile(pendingFile, f)
      /\ cut' # cut => w = Len(writeBuffer)
      /\ accepted' = accepted
  BY DEF flush
<1> HIDE DEF S
<1>3. /\ u \in Seq(S) /\ writeBuffer' \in Seq(S) /\ Len(writeBuffer') = Len(writeBuffer) - w
  BY <1>1, <1>2, TakeDrop
<1>4. s \in Seq(S) /\ s \o writeBuffer' = wire \o writeBuffer
  BY <1>1, <1>2, MoveOut
<1> HIDE DEF u, s
<1>5. Len(writeBuffer) \in Nat /\ (Len(writeBuffer') = 0 <=> writeBuffer' = << >>)
  BY <1>1, <1>3, EmptyLen
<1>6. ~Crossed
  BY <1>3, <1>5, ConnectionAssumption DEF Crossed
<1>7. /\ pendingFile' \in Seq(S) /\ cut' \in Seq(S) /\ wire' \in Seq(S)
      /\ cut' = << >> => cut = << >> /\ wire' \o pendingFile' = s \o pendingFile
  <2>1. s \in Seq(S) /\ pendingFile \in Seq(S) /\ cut \in Seq(S)
    BY <1>1, <1>4
  <2>2. /\ pendingFile' \in Seq(S) /\ cut' \in Seq(S) /\ s \o Take(pendingFile, f) \in Seq(S)
        /\ cut' = << >> => cut = << >> /\ (s \o Take(pendingFile, f)) \o pendingFile' = s \o pendingFile
    BY <1>2, <2>1, SendfileOrder
  <2>3. QED BY <1>2, <2>2
<1>8. Outputs'
  BY <1>1, <1>2, <1>3, <1>7 DEF Outputs, S
<1>9. ASSUME cut' = << >> PROVE (wire' \o writeBuffer') \o pendingFile' = Numbers(accepted)
  <2>1. (wire \o writeBuffer) \o pendingFile = Numbers(accepted) /\ cut = << >>
    BY <1>7, <1>9 DEF Core, OutputInOrder, Numbers
  <2>2. CASE w = Len(writeBuffer)
    <3>1. writeBuffer' = << >>
      BY <1>3, <1>5, <2>2
    <3>2. s \o << >> = s /\ wire' \o << >> = wire'
      BY <1>4, <1>7, ConcatEmptySeq
    <3>3. QED BY <1>4, <1>7, <1>9, <2>1, <3>1, <3>2
  <2>3. CASE w # Len(writeBuffer)
    <3>1. f = 0 /\ cut' = cut
      BY <1>2, <2>3
    <3>2. Take(pendingFile, 0) = << >> /\ Drop(pendingFile, 0) = pendingFile
      BY <1>1, DropNone
    <3>3. cut \o pendingFile = << >> => pendingFile = << >>
      BY <1>1, ConcatEqualIffEmpty
    <3>4. pendingFile' = pendingFile
      BY <1>2, <1>9, <3>1, <3>2, <3>3 DEF sendfile
    <3>5. wire' = s
      BY <1>2, <1>4, <3>1, <3>2, ConcatEmptySeq
    <3>6. QED BY <1>4, <2>1, <3>4, <3>5
  <2>4. QED BY <2>2, <2>3
<1>10. OutputInOrder'
  BY <1>2, <1>9 DEF OutputInOrder, Numbers
<1>11. QED BY <1>6, <1>8, <1>10

\* The whole buffer has left, and the file that follows it has not.
LEMMA BufferLeft ==
  ASSUME Core, wire' = wire \o writeBuffer, writeBuffer' = << >>, UNCHANGED <<pendingFile, accepted, cut>>
  PROVE  Outputs' /\ OutputInOrder' /\ ~Crossed
<1> DEFINE S == 1 .. MaxUnits
<1>1. writeBuffer \in Seq(S) /\ wire \in Seq(S) /\ Len(<< >>) = 0 /\ << >> \in Seq(S)
  BY EmptySeq DEF Core, Outputs
<1> HIDE DEF S
<1>2. wire' \in Seq(S)
  BY <1>1, ConcatProperties
<1>3. wire' \o << >> = wire'
  BY <1>2, ConcatEmptySeq
<1>4. ~Crossed
  BY <1>1, ConnectionAssumption DEF Crossed
<1>5. QED BY <1>1, <1>2, <1>3, <1>4 DEF Core, Outputs, OutputInOrder, S

LEMMA WriteStep ==
  ASSUME Core, on_write
  PROVE  Core' /\ Effect
<1>1. CASE /\ ~isClosed
           /\ \E w \in 0 .. Len(writeBuffer), f \in 0 .. Len(pendingFile) : flush(w, f)
           /\ finish_write
           /\ UNCHANGED stateVars
  <2>1. Outputs' /\ OutputInOrder' /\ ~Crossed
    BY <1>1, FlushOrder
  <2>2. CASE writeBuffer' = << >> /\ pendingFile' = << >>
    BY <1>1, <2>1, <2>2, Completing DEF finish_write
  <2>3. CASE writeBuffer' # << >> \/ pendingFile' # << >>
    <3>1. Return /\ UNCHANGED events
      BY <1>1, <2>3 DEF finish_write
    <3>2. writeBuffer # << >> \/ pendingFile # << >>
      <4>1. SUFFICES ASSUME writeBuffer = << >>, pendingFile = << >> PROVE FALSE
        OBVIOUS
      <4>2. PICK w \in 0 .. 0, f \in 0 .. 0 : flush(w, f)
        BY <1>1, <4>1, EmptyLen DEF Core, Outputs
      <4>3. Drop(<< >>, 0) = << >>
        BY <4>1, DropNone DEF Core, Outputs
      <4>4. writeBuffer' = << >> /\ pendingFile' = << >>
        BY <4>1, <4>2, <4>3 DEF flush, sendfile
      <4>5. QED BY <2>3, <4>4
    <3>3. Control' /\ WritingIffBacklog' /\ StaysClosed
      BY <1>1, <2>3, <3>1, <3>2
         DEF Core, Control, WritingIffBacklog, StaysClosed, Return, Callbacks, stateVars
    <3>4. called' = "none"
      BY <3>1 DEF Return
    <3>5. QED BY <2>1, <3>3, <3>4 DEF Core, Effect, Drained
  <2>4. QED BY <2>2, <2>3
<1>2. CASE fail /\ Refused
  BY <1>2, SameOutput, Failing DEF Refused
<1>3. CASE /\ wire' = wire \o writeBuffer /\ writeBuffer' = << >> /\ fail
           /\ UNCHANGED <<pendingFile, accepted, cut>>
  BY <1>3, BufferLeft, Failing
<1>4. CASE /\ isClosed /\ writeBuffer = << >> /\ pendingFile = << >>
           /\ Invoke("complete") /\ UNCHANGED <<outputVars, events, stateVars>>
  <2>1. Outputs' /\ OutputInOrder' /\ ~Crossed
    BY <1>4, SameOutput
  <2>2. Control' /\ WritingIffBacklog' /\ StaysClosed /\ Drained /\ called' = "complete"
    BY <1>4 DEF Core, Control, WritingIffBacklog, StaysClosed, Drained, Invoke, Callbacks, stateVars, outputVars
  <2>3. QED BY <2>1, <2>2 DEF Core, Effect
<1>5. QED BY <1>1, <1>2, <1>3, <1>4 DEF on_write

-----------------------------------------------------------------------------
(* The specification.                                                      *)

LEMMA InitInv == Init => IInv
<1> SUFFICES ASSUME Init PROVE IInv
  OBVIOUS
<1>1. /\ << >> \in Seq(1 .. MaxUnits) /\ << >> \in Seq(Calls) /\ Len(<< >>) = 0
      /\ (<< >> \o << >>) \o << >> = << >>
  BY EmptySeq, ConcatEmptySeq
<1>2. [i \in 1 .. 0 |-> i] = << >>
  OBVIOUS
<1>3. Outputs /\ OutputInOrder
  BY <1>1, <1>2, ConnectionAssumption DEF Init, Outputs, OutputInOrder
<1>4. Control /\ WritingIffBacklog
  BY DEF Init, Control, WritingIffBacklog
<1>5. Queues
  BY <1>1, ConnectionAssumption DEF Init, Queues
<1>6. QED BY <1>3, <1>4, <1>5 DEF IInv, Core

\* Every step keeps the invariant and does what the action properties say.
LEMMA Step == ASSUME IInv, Next PROVE IInv' /\ Effect
<1>1. ASSUME NEW c \in Calls, call_elsewhere(c) PROVE IInv' /\ Effect
  <2>1. Core' /\ Effect
    BY <1>1, Passing DEF IInv, Core, Control, call_elsewhere
  <2>2. Append(inbox, c) \in Seq(Calls) /\ Len(Append(inbox, c)) = Len(inbox) + 1
    BY <1>1, AppendProperties DEF IInv, Queues
  <2>3. Len(inbox) \in Nat
    BY EmptyLen DEF IInv, Queues
  <2>4. Queues'
    BY <1>1, <2>2, <2>3, ConnectionAssumption DEF IInv, Queues, call_elsewhere
  <2>5. QED BY <2>1, <2>4 DEF IInv
<1>2. ASSUME NEW c \in Calls, call_in_callback(c) PROVE IInv' /\ Effect
  BY <1>2, PerformStep DEF IInv, Queues, call_in_callback
<1>3. CASE callback_returns
  BY <1>3, Passing DEF IInv, Queues, callback_returns
<1>4. CASE close_after_error
  BY <1>4, Closing DEF IInv, Queues, close_after_error
<1>5. CASE run_functor
  <2>1. Head(inbox) \in Calls /\ Tail(inbox) \in Seq(Calls) /\ Len(Tail(inbox)) = Len(inbox) - 1
    BY <1>5, HeadTailProperties DEF IInv, Queues, run_functor
  <2>2. Core' /\ Effect
    BY <1>5, <2>1, PerformStep DEF IInv, run_functor
  <2>3. Len(inbox) \in Nat
    BY EmptyLen DEF IInv, Queues
  <2>4. QED BY <1>5, <2>1, <2>2, <2>3, ConnectionAssumption DEF IInv, Queues, run_functor
<1>6. ASSUME NEW reported \in SUBSET {"HUP", "ERR", "IN", "OUT"}, poll(reported)
      PROVE  IInv' /\ Effect
  BY <1>6, Passing DEF IInv, Core, Control, Queues, poll
<1>7. CASE on_close
  BY <1>7, Closing DEF IInv, Queues, on_close
<1>8. CASE on_error
  BY <1>8, SameOutput, Failing DEF IInv, Queues, on_error
<1>9. CASE on_read
  <2>1. Queues' /\ UNCHANGED outputVars
    BY <1>9 DEF IInv, Queues, on_read
  <2>2. CASE Invoke("message") /\ UNCHANGED <<events, stateVars>>
    BY <2>1, <2>2, Passing DEF IInv, Invoke
  <2>3. CASE close_connection /\ UNCHANGED closeNext
    BY <2>1, <2>3, Closing DEF IInv
  <2>4. CASE Return /\ UNCHANGED <<events, stateVars>>
    BY <2>1, <2>4, Passing DEF IInv, Return, Core, Control
  <2>5. CASE fail
    BY <2>1, <2>5, SameOutput, Failing DEF IInv
  <2>6. QED BY <1>9, <2>2, <2>3, <2>4, <2>5 DEF on_read
<1>10. CASE on_write
  BY <1>10, WriteStep DEF IInv, Queues, on_write
<1>11. QED BY <1>1, <1>2, <1>3, <1>4, <1>5, <1>6, <1>7, <1>8, <1>9, <1>10 DEF Next

LEMMA Stutter == ASSUME IInv, UNCHANGED vars PROVE IInv'
BY DEF IInv, Core, Outputs, Control, Queues, OutputInOrder, WritingIffBacklog, vars, outputVars, stateVars

LEMMA Always == Spec => []IInv
<1>1. IInv /\ [Next]_vars => IInv'
  BY Step, Stutter
<1>2. QED BY InitInv, <1>1, PTL DEF Spec

-----------------------------------------------------------------------------
\* For any sizes, mark and bounds: the types, and an open connection watches EPOLLOUT
\* exactly while output is waiting.
THEOREM WatchesBacklog == Spec => []Inv
<1>1. IInv => Inv
  BY DEF IInv, Core, Outputs, Control, Queues, Inv, TypeOK
<1>2. QED BY Always, <1>1, PTL

\* Accepted output leaves in the order it was accepted, whichever threads send and
\* however the kernel takes it.
THEOREM OrderKept == Spec => []OutputInOrder
<1>1. IInv => OutputInOrder
  BY DEF IInv, Core
<1>2. QED BY Always, <1>1, PTL

\* A closed connection stays closed, watches nothing, and is not closed again.
THEOREM StaysShut == Spec => ClosedForGood
<1>1. IInv /\ [Next]_vars => [isClosed => isClosed' /\ events' = {}]_vars
  BY Step DEF Effect, StaysClosed
<1>2. IInv /\ [Next]_vars => [called' = "close" => ~isClosed]_vars
  BY Step DEF Effect, StaysClosed
<1>3. QED BY Always, <1>1, <1>2, PTL DEF Spec, ClosedForGood

\* Write-complete is reported only when buffer and file are empty.
THEOREM ReportsDrained == Spec => CompleteMeansDrained
<1>1. IInv /\ [Next]_vars => [called' = "complete" => writeBuffer' = << >> /\ pendingFile' = << >>]_vars
  BY Step DEF Effect, Drained
<1>2. QED BY Always, <1>1, PTL DEF Spec, CompleteMeansDrained

\* The high-water callback is invoked exactly by the steps across the mark.
THEOREM ReportsCrossing == Spec => HighWaterIsEdge
<1>1. IInv /\ [Next]_vars =>
        [called' = "highwater" <=>
           Len(writeBuffer) < HighWaterMark /\ Len(writeBuffer') >= HighWaterMark]_vars
  BY Step DEF Effect, Crossed
<1>2. QED BY Always, <1>1, PTL DEF Spec, HighWaterIsEdge

-----------------------------------------------------------------------------
(* The connection as a stream.                                             *)

\* The numbers of units.
Number == 1 .. MaxUnits

\* The n units behind the o-th.
Run(o, n) == [i \in 1 .. n |-> o + i]

\* How many units left or were passed over; the backlog is those behind them.
Gone == Len(wire) + Len(cut)
Backlog == writeBuffer \o pendingFile
Follows == Gone <= accepted /\ Backlog = Run(Gone, accepted - Gone)

\* n units are accepted behind the backlog, of which X leaves and Y is passed over.
Moves ==
  \E n \in Nat, X, Y \in Seq(Number) :
    /\ accepted' = accepted + n
    /\ wire' = wire \o X /\ Len(cut') = Len(cut) + Len(Y)
    /\ Backlog \o Run(accepted, n) = (X \o Y) \o Backlog'

\* How sequences of units are grouped makes no difference.
LEMMA Regroup == \A r, s, t \in Seq(Number) : (r \o s) \o t = r \o (s \o t)
BY ConcatAssociative

\* A run of units.
LEMMA RunIs ==
  ASSUME NEW o \in Nat, NEW n \in Nat
  PROVE  Run(o, n) \in [1 .. n -> Nat] /\ Run(o, n) \in Seq(Nat) /\ Len(Run(o, n)) = n
         /\ \A i \in 1 .. n : Run(o, n)[i] = o + i
<1>1. Run(o, n) \in [1 .. n -> Nat] /\ \A i \in 1 .. n : Run(o, n)[i] = o + i
  BY DEF Run
<1> HIDE DEF Run
<1>2. QED BY <1>1, FunctionIsSeq

\* Two runs that follow one another are one.
LEMMA RunOn ==
  ASSUME NEW o \in Nat, NEW a \in Nat, NEW b \in Nat
  PROVE  Run(o, a) \o Run(o + a, b) = Run(o, a + b)
<1> DEFINE s == Run(o, a) t == Run(o + a, b) u == Run(o, a + b)
<1>1. /\ s \in [1 .. a -> Nat] /\ t \in [1 .. b -> Nat] /\ u \in [1 .. a + b -> Nat]
      /\ \A i \in 1 .. a + b : u[i] = IF i <= a THEN s[i] ELSE t[i - a]
  BY DEF Run
<1> HIDE DEF s, t, u
<1>2. s \o t = u
  BY <1>1, Join
<1>3. QED BY <1>2 DEF s, t, u

\* The elements of two sequences put together.
LEMMA Pair ==
  ASSUME NEW S, NEW s \in Seq(S), NEW t \in Seq(S)
  PROVE  /\ s \o t \in Seq(S) /\ Len(s \o t) = Len(s) + Len(t) /\ Len(s) \in Nat /\ Len(t) \in Nat
         /\ \A i \in 1 .. Len(s) : (s \o t)[i] = s[i]
         /\ \A i \in 1 .. Len(t) : (s \o t)[Len(s) + i] = t[i]
<1>1. Len(s) \in Nat /\ Len(t) \in Nat
  BY LenProperties
<1> DEFINE u == s \o t
<1>2. /\ u \in Seq(S) /\ Len(u) = Len(s) + Len(t)
      /\ \A i \in 1 .. Len(s) + Len(t) : u[i] = IF i <= Len(s) THEN s[i] ELSE t[i - Len(s)]
  BY ConcatProperties
<1> HIDE DEF u
<1>3. \A i \in 1 .. Len(s) : u[i] = s[i]
  BY <1>1, <1>2
<1>4. ASSUME NEW i \in 1 .. Len(t) PROVE u[Len(s) + i] = t[i]
  <2>1. Len(s) + i \in 1 .. Len(s) + Len(t) /\ ~(Len(s) + i <= Len(s)) /\ (Len(s) + i) - Len(s) = i
    BY <1>1
  <2>2. QED BY <1>2, <2>1
<1>5. QED BY <1>1, <1>2, <1>3, <1>4 DEF u

\* The pieces of a run are runs.
LEMMA Pieces ==
  ASSUME NEW o \in Nat, NEW n \in Nat, NEW X \in Seq(Nat), NEW Y \in Seq(Nat), NEW Z \in Seq(Nat),
         (X \o Y) \o Z = Run(o, n)
  PROVE  /\ Len(X) \in Nat /\ Len(Y) \in Nat /\ Len(Z) \in Nat /\ Len(X) + Len(Y) + Len(Z) = n
         /\ X = Run(o, Len(X)) /\ Z = Run(o + Len(X) + Len(Y), Len(Z))
<1> DEFINE W == X \o Y x == Len(X) y == Len(Y) z == Len(Z)
<1>1. /\ W \in Seq(Nat) /\ Len(W) = x + y /\ x \in Nat /\ y \in Nat
      /\ \A i \in 1 .. x : W[i] = X[i]
  BY Pair
<1> HIDE DEF W
<1>2. /\ Len(W \o Z) = Len(W) + z /\ z \in Nat
      /\ \A i \in 1 .. Len(W) : (W \o Z)[i] = W[i]
      /\ \A i \in 1 .. z : (W \o Z)[Len(W) + i] = Z[i]
  <2>1. W \in Seq(Nat)
    BY <1>1
  <2>2. QED BY <2>1, Pair
<1>3. W \o Z = Run(o, n)
  BY DEF W
<1>4. Len(Run(o, n)) = n /\ \A i \in 1 .. n : Run(o, n)[i] = o + i
  BY RunIs
<1>5. x + y + z = n
  BY <1>1, <1>2, <1>3, <1>4
<1>6. X = Run(o, x)
  <2>1. Run(o, x) \in Seq(Nat) /\ Len(Run(o, x)) = x /\ \A i \in 1 .. x : Run(o, x)[i] = o + i
    BY <1>1, RunIs
  <2>2. \A i \in 1 .. x : X[i] = o + i
    <3>1. ASSUME NEW i \in 1 .. x PROVE X[i] = o + i
      <4>1. i \in 1 .. Len(W) /\ i \in 1 .. n
        BY <1>1, <1>2, <1>5
      <4>2. QED BY <1>1, <1>2, <1>3, <1>4, <4>1
    <3>2. QED BY <3>1
  <2> HIDE DEF x
  <2>3. Len(X) = Len(Run(o, x)) /\ \A i \in 1 .. Len(X) : X[i] = Run(o, x)[i]
    BY <2>1, <2>2 DEF x
  <2>4. QED BY <2>1, <2>3, SeqEqual
<1>7. Z = Run(o + x + y, z)
  <2>1. o + x + y \in Nat
    BY <1>1
  <2>2. /\ Run(o + x + y, z) \in Seq(Nat) /\ Len(Run(o + x + y, z)) = z
        /\ \A i \in 1 .. z : Run(o + x + y, z)[i] = o + x + y + i
    BY <1>2, <2>1, RunIs
  <2>3. \A i \in 1 .. z : Z[i] = o + x + y + i
    <3>1. ASSUME NEW i \in 1 .. z PROVE Z[i] = o + x + y + i
      <4>1. x + y + i \in 1 .. n /\ o + (x + y + i) = o + x + y + i
        BY <1>1, <1>2, <1>5
      <4>2. Run(o, n)[x + y + i] = Z[i]
        BY <1>1, <1>2, <1>3
      <4>3. QED BY <1>4, <4>1, <4>2
    <3>2. QED BY <3>1
  <2> HIDE DEF z
  <2>4. Len(Z) = Len(Run(o + x + y, z)) /\ \A i \in 1 .. Len(Z) : Z[i] = Run(o + x + y, z)[i]
    BY <2>2, <2>3 DEF z
  <2>5. QED BY <2>2, <2>4, SeqEqual
<1>8. QED BY <1>1, <1>2, <1>5, <1>6, <1>7

-----------------------------------------------------------------------------
(* What the operations move.                                               *)

\* The types of the outputs, with names for the set of units.
LEMMA Sequences ==
  ASSUME Outputs
  PROVE  /\ writeBuffer \in Seq(Number) /\ pendingFile \in Seq(Number) /\ wire \in Seq(Number)
         /\ cut \in Seq(Number) /\ << >> \in Seq(Number) /\ Len(<< >>) = 0
         /\ accepted \in Nat /\ MaxUnits \in Nat
BY EmptySeq, ConnectionAssumption DEF Outputs, Number

\* New units are the run behind those accepted.
LEMMA UnitsRun ==
  ASSUME accepted \in Nat, NEW h \in Nat, NEW n \in Nat, accepted + h + n <= MaxUnits, MaxUnits \in Nat
  PROVE  /\ Units(n) = Run(accepted, n) /\ UnitsAfter(h, n) = Run(accepted + h, n)
         /\ Units(h) = Run(accepted, h)
         /\ Units(h) \in Seq(Number) /\ Len(Units(h)) = h
         /\ UnitsAfter(h, n) \in Seq(Number)
<1>1. Units(h) \in Seq(Number) /\ Len(Units(h)) = h /\ UnitsAfter(h, n) \in Seq(Number)
  BY UnitsType DEF Number
<1>2. QED BY <1>1 DEF Units, UnitsAfter, Run

\* The message and the backlog, of which the kernel takes a piece.
LEMMA SendMoves ==
  ASSUME Core, pendingFile = << >>, NEW n \in Nat, accepted + n <= MaxUnits,
         NEW w \in 0 .. Len(writeBuffer \o Units(n)),
         accepted' = accepted + n, UNCHANGED <<pendingFile, cut>>,
         wire' = wire \o Take(writeBuffer \o Units(n), w),
         writeBuffer' = Drop(writeBuffer \o Units(n), w)
  PROVE  Moves
<1> DEFINE u == Units(n) out == writeBuffer \o u X == Take(out, w) d == Drop(out, w)
<1>1. /\ writeBuffer \in Seq(Number) /\ << >> \in Seq(Number) /\ Len(<< >>) = 0
      /\ accepted \in Nat /\ MaxUnits \in Nat /\ Len(cut) \in Nat
  BY Sequences, LenProperties DEF Core
<1>2. accepted + n + 0 <= MaxUnits
  BY <1>1
<1>3. u \in Seq(Number) /\ u = Run(accepted, n)
  <2>1. accepted + n + 0 <= MaxUnits /\ accepted + 0 + n <= MaxUnits
    BY <1>1
  <2>2. QED BY <1>1, <2>1, UnitsRun
<1> HIDE DEF u
<1>4. out \in Seq(Number)
  BY <1>1, <1>3, Pair
<1>5. wire' = wire \o X /\ writeBuffer' = d /\ w \in 0 .. Len(out)
  BY DEF u
<1> HIDE DEF out
<1>6. X \in Seq(Number) /\ d \in Seq(Number) /\ X \o d = out
  BY <1>4, <1>5, TakeDrop
<1> HIDE DEF X, d
<1>7. /\ writeBuffer \o << >> = writeBuffer /\ X \o << >> = X /\ d \o << >> = d
  BY <1>1, <1>6, ConcatEmptySeq
<1>8. Backlog \o Run(accepted, n) = (X \o << >>) \o Backlog'
  BY <1>3, <1>5, <1>6, <1>7 DEF Backlog, out
<1>9. Len(cut') = Len(cut) + Len(<< >>)
  BY <1>1
<1>10. QED BY <1>1, <1>5, <1>6, <1>8, <1>9 DEF Moves

\* A header and a file wait.
LEMMA FileWaitsMoves ==
  ASSUME Core, pendingFile = << >>, NEW h \in Nat, NEW n \in Nat, accepted + h + n <= MaxUnits,
         accepted' = accepted + h + n, UNCHANGED <<wire, cut>>,
         writeBuffer' = writeBuffer \o Units(h), pendingFile' = UnitsAfter(h, n)
  PROVE  Moves
<1> DEFINE u == Units(h) v == UnitsAfter(h, n) b == writeBuffer
<1>1. /\ b \in Seq(Number) /\ wire \in Seq(Number) /\ << >> \in Seq(Number) /\ Len(<< >>) = 0
      /\ accepted \in Nat /\ MaxUnits \in Nat /\ Len(cut) \in Nat
  BY Sequences, LenProperties DEF Core
<1>2. u \in Seq(Number) /\ v \in Seq(Number) /\ u \o v = Run(accepted, h + n)
  <2>1. u = Run(accepted, h) /\ v = Run(accepted + h, n) /\ u \in Seq(Number) /\ v \in Seq(Number)
    BY <1>1, UnitsRun
  <2>2. Run(accepted, h) \o Run(accepted + h, n) = Run(accepted, h + n)
    BY <1>1, RunOn
  <2> HIDE DEF u, v
  <2>3. QED BY <2>1, <2>2
<1>3. writeBuffer' = b \o u /\ pendingFile' = v
  OBVIOUS
<1> HIDE DEF u, v
<1>4. (b \o u) \o v = b \o (u \o v) /\ b \o u \in Seq(Number)
  <2>1. b \in Seq(Number) /\ u \in Seq(Number) /\ v \in Seq(Number)
    BY <1>1, <1>2
  <2>2. (b \o u) \o v = b \o (u \o v)
    BY <2>1, Regroup
  <2>3. b \o u \in Seq(Number)
    BY <2>1, Pair
  <2>4. QED BY <2>2, <2>3
<1>5. (b \o u) \o v \in Seq(Number)
  BY <1>2, <1>4, Pair
<1>6. Backlog = b /\ Backlog' = b \o Run(accepted, h + n)
  BY <1>1, <1>2, <1>3, <1>4, ConcatEmptySeq DEF Backlog
<1>7. (<< >> \o << >>) \o Backlog' = Backlog'
  <2>1. Backlog' \in Seq(Number)
    BY <1>3, <1>5 DEF Backlog
  <2>2. << >> \o << >> = << >>
    BY <1>1, ConcatEmptySeq
  <2>3. << >> \o Backlog' = Backlog'
    BY <2>1, ConcatEmptySeq
  <2>4. QED BY <2>2, <2>3
<1>8. wire' = wire \o << >>
  BY <1>1, ConcatEmptySeq
<1>9. accepted' = accepted + (h + n) /\ h + n \in Nat /\ Len(cut') = Len(cut) + Len(<< >>)
  BY <1>1
<1>10. Backlog \o Run(accepted, h + n) = (<< >> \o << >>) \o Backlog'
  BY <1>6, <1>7
<1>11. QED BY <1>1, <1>8, <1>9, <1>10 DEF Moves

\* The same without a header.
LEMMA FileAloneMoves ==
  ASSUME Core, pendingFile = << >>, NEW n \in Nat, accepted + n <= MaxUnits,
         accepted' = accepted + n, UNCHANGED <<wire, writeBuffer, cut>>, pendingFile' = Units(n)
  PROVE  Moves
<1>1. MaxUnits \in Nat /\ accepted \in Nat
  BY ConnectionAssumption DEF Core, Outputs
<1>2. Units(0) = << >>
  BY DEF Units
<1>3. writeBuffer' = writeBuffer \o Units(0)
  BY <1>2, ConcatEmptySeq DEF Core, Outputs
<1>4. UnitsAfter(0, n) = Units(n)
  BY <1>1 DEF Units, UnitsAfter
<1>5. accepted + 0 + n = accepted + n
  BY <1>1
<1>6. QED BY <1>1, <1>3, <1>4, <1>5, FileWaitsMoves

\* What one sendfile() takes, and what it gives up.
LEMMA SendfileMoves ==
  ASSUME NEW file \in Seq(Number), cut \in Seq(Number), NEW f \in 0 .. Len(file), sendfile(file, f)
  PROVE  \E Y \in Seq(Number) :
           /\ Len(cut') = Len(cut) + Len(Y) /\ pendingFile' \in Seq(Number) /\ Take(file, f) \in Seq(Number)
           /\ (Take(file, f) \o Y) \o pendingFile' = file
           /\ Y # << >> => f = 0 /\ cut' # cut
<1>1. << >> \in Seq(Number) /\ Len(<< >>) = 0 /\ Len(cut) \in Nat /\ Len(file) \in Nat
  BY EmptySeq, LenProperties
<1> DEFINE X == Take(file, f) d == Drop(file, f)
<1>2. X \in Seq(Number) /\ d \in Seq(Number) /\ X \o d = file
  BY TakeDrop
<1>3. CASE pendingFile' = Drop(file, f) /\ UNCHANGED cut
  <2>1. pendingFile' = d /\ cut' = cut
    BY <1>3
  <2> HIDE DEF X, d
  <2>2. X \o << >> = X
    BY <1>2, ConcatEmptySeq
  <2>3. (X \o << >>) \o pendingFile' = file /\ Len(cut') = Len(cut) + Len(<< >>)
    BY <1>1, <1>2, <2>1, <2>2
  <2>4. QED BY <1>1, <1>2, <2>1, <2>3 DEF X
<1>4. CASE file # << >> /\ f = 0 /\ pendingFile' = << >> /\ cut' = cut \o file
  <2>1. X = << >>
    BY <1>4, DropNone
  <2> HIDE DEF X, d
  <2>2. Len(cut') = Len(cut) + Len(file) /\ Len(file) # 0
    BY <1>4, Pair, EmptyLen
  <2>3. cut' # cut
    BY <1>1, <2>2
  <2>4. << >> \o file = file /\ file \o << >> = file
    BY ConcatEmptySeq
  <2>5. (X \o file) \o pendingFile' = file
    BY <1>4, <2>1, <2>4
  <2>6. QED BY <1>1, <1>2, <1>4, <2>2, <2>3, <2>5 DEF X
<1>5. QED BY <1>3, <1>4 DEF sendfile

\* A file that starts at once.
LEMMA FileStartsMoves ==
  ASSUME Core, pendingFile = << >>, writeBuffer = << >>, NEW n \in Nat, accepted + n <= MaxUnits,
         accepted' = accepted + n, UNCHANGED writeBuffer,
         NEW f \in 0 .. n, wire' = wire \o Take(Units(n), f), sendfile(Units(n), f)
  PROVE  Moves
<1> DEFINE u == Units(n) X == Take(u, f)
<1>1. /\ cut \in Seq(Number) /\ << >> \in Seq(Number) /\ accepted \in Nat /\ MaxUnits \in Nat
  BY Sequences DEF Core
<1>2. u \in Seq(Number) /\ u = Run(accepted, n) /\ Len(u) = n
  <2>1. accepted + n + 0 <= MaxUnits /\ accepted + 0 + n <= MaxUnits
    BY <1>1
  <2>2. QED BY <1>1, <2>1, UnitsRun
<1>3. wire' = wire \o X /\ sendfile(u, f) /\ f \in 0 .. Len(u)
  BY <1>2
<1> HIDE DEF u
<1>4. PICK Y \in Seq(Number) :
        /\ Len(cut') = Len(cut) + Len(Y) /\ pendingFile' \in Seq(Number) /\ X \in Seq(Number)
        /\ (X \o Y) \o pendingFile' = u
  BY <1>1, <1>2, <1>3, SendfileMoves
<1> HIDE DEF X
<1>5. << >> \o pendingFile' = pendingFile' /\ << >> \o << >> = << >> /\ << >> \o u = u
  BY <1>1, <1>2, <1>4, ConcatEmptySeq
<1>6. Backlog \o Run(accepted, n) = (X \o Y) \o Backlog'
  BY <1>2, <1>4, <1>5 DEF Backlog
<1>7. QED BY <1>3, <1>4, <1>6 DEF Moves

\* The buffer moves before the file, and the file is passed over only behind it.
LEMMA FlushMoves ==
  ASSUME Core, NEW w \in 0 .. Len(writeBuffer), NEW f \in 0 .. Len(pendingFile), flush(w, f)
  PROVE  Moves
<1> DEFINE b == writeBuffer p == pendingFile B == Take(b, w) D == Drop(b, w) F == Take(p, f) q == pendingFile'
<1>1. /\ b \in Seq(Number) /\ p \in Seq(Number) /\ wire \in Seq(Number) /\ cut \in Seq(Number)
      /\ << >> \in Seq(Number) /\ Len(<< >>) = 0 /\ accepted \in Nat
  BY Sequences DEF Core
<1>2. /\ f > 0 => w = Len(b)
      /\ wire' = (wire \o B) \o F /\ b' = D /\ sendfile(p, f)
      /\ cut' # cut => w = Len(b)
      /\ accepted' = accepted
  BY DEF flush
<1>3. B \in Seq(Number) /\ D \in Seq(Number) /\ B \o D = b /\ Len(D) = Len(b) - w
  BY <1>1, TakeDrop
<1>4. PICK Y \in Seq(Number) :
        /\ Len(cut') = Len(cut) + Len(Y) /\ q \in Seq(Number) /\ F \in Seq(Number)
        /\ (F \o Y) \o q = p
        /\ Y # << >> => f = 0 /\ cut' # cut
  BY <1>1, <1>2, SendfileMoves
<1>5. f = 0 => F = << >>
  BY <1>1, DropNone
<1>6. w = Len(b) => D = << >>
  <2>1. Len(b) \in Nat
    BY <1>1, EmptyLen
  <2>2. w = Len(b) => Len(D) = 0
    BY <1>3, <2>1
  <2>3. QED BY <1>3, <2>2, EmptyLen
<1>7. D = << >> \/ (F = << >> /\ Y = << >>)
  <2>1. CASE w = Len(b)
    BY <1>6, <2>1
  <2>2. CASE w # Len(b)
    BY <1>2, <1>4, <1>5, <2>2
  <2>3. QED BY <2>1, <2>2
<1>8. Backlog = b \o p /\ Backlog' = D \o q
  BY <1>2 DEF Backlog
<1> HIDE DEF B, D, F, q
<1>9. B \o F \in Seq(Number) /\ F \o Y \in Seq(Number) /\ D \o q \in Seq(Number)
  BY <1>3, <1>4, Pair
<1>10. (wire \o B) \o F = wire \o (B \o F)
  <2>1. wire \in Seq(Number) /\ B \in Seq(Number) /\ F \in Seq(Number)
    BY <1>1, <1>3, <1>4
  <2>2. QED BY <2>1, Regroup
<1>11. b \o p = ((B \o F) \o Y) \o (D \o q)
  <2>1. CASE D = << >>
    <3>1. B = b /\ D \o q = q
      BY <1>3, <1>4, <2>1, ConcatEmptySeq
    <3>2. (B \o F) \o Y = B \o (F \o Y)
      <4>1. B \in Seq(Number) /\ F \in Seq(Number) /\ Y \in Seq(Number)
        BY <1>3, <1>4
      <4>2. QED BY <4>1, Regroup
    <3>3. (B \o (F \o Y)) \o q = B \o ((F \o Y) \o q)
      <4>1. B \in Seq(Number) /\ F \o Y \in Seq(Number) /\ q \in Seq(Number)
        BY <1>3, <1>4, <1>9
      <4>2. QED BY <4>1, Regroup
    <3>4. QED BY <1>4, <3>1, <3>2, <3>3
  <2>2. CASE F = << >> /\ Y = << >>
    <3>1. B \o << >> = B /\ << >> \o << >> = << >> /\ << >> \o q = q
      BY <1>1, <1>3, <1>4, ConcatEmptySeq
    <3>2. q = p
      BY <1>4, <2>2, <3>1
    <3>3. (B \o D) \o q = B \o (D \o q)
      <4>1. B \in Seq(Number) /\ D \in Seq(Number) /\ q \in Seq(Number)
        BY <1>3, <1>4
      <4>2. QED BY <4>1, Regroup
    <3>4. QED BY <1>3, <2>2, <3>1, <3>2, <3>3
  <2>3. QED BY <1>7, <2>1, <2>2
<1>12. Run(accepted, 0) = << >>
  BY DEF Run
<1>13. (b \o p) \o << >> = b \o p
  <2>1. b \o p \in Seq(Number)
    BY <1>1, Pair
  <2>2. QED BY <2>1, ConcatEmptySeq
<1>14. Backlog \o Run(accepted, 0) = ((B \o F) \o Y) \o Backlog'
  BY <1>8, <1>11, <1>12, <1>13
<1>15. accepted' = accepted + 0 /\ wire' = wire \o (B \o F)
  BY <1>1, <1>2, <1>10 DEF B, F
<1>16. QED BY <1>4, <1>9, <1>14, <1>15 DEF Moves

\* The buffer leaves and sendfile() fails.
LEMMA BufferLeftMoves ==
  ASSUME Core, wire' = wire \o writeBuffer, writeBuffer' = << >>, UNCHANGED <<pendingFile, accepted, cut>>
  PROVE  Moves
<1> DEFINE b == writeBuffer p == pendingFile
<1>1. /\ b \in Seq(Number) /\ p \in Seq(Number) /\ cut \in Seq(Number)
      /\ << >> \in Seq(Number) /\ Len(<< >>) = 0 /\ accepted \in Nat /\ Len(cut) \in Nat
  BY Sequences, LenProperties DEF Core
<1>2. b \o p \in Seq(Number)
  BY <1>1, Pair
<1>3. (b \o p) \o << >> = b \o p /\ b \o << >> = b /\ << >> \o p = p
  BY <1>1, <1>2, ConcatEmptySeq
<1>4. Run(accepted, 0) = << >>
  BY DEF Run
<1>5. Backlog \o Run(accepted, 0) = (b \o << >>) \o Backlog'
  BY <1>3, <1>4 DEF Backlog
<1>6. accepted' = accepted + 0 /\ Len(cut') = Len(cut) + Len(<< >>)
  BY <1>1
<1>7. QED BY <1>1, <1>5, <1>6 DEF Moves

\* The output moves on an open connection, or it stays and the connection may close.
Advances ==
  \/ UNCHANGED outputVars /\ (isClosed => isClosed')
  \/ Moves /\ ~isClosed /\ ~isClosed'

\* The calls on a connection advance it.
LEMMA PerformAdvances ==
  ASSUME Core, NEW c \in Calls, perform(c)
  PROVE  Advances
<1>1. ASSUME NEW n \in Sizes, send_in_loop(n) PROVE Advances
  <2>1. CASE isClosed /\ Refused /\ UNCHANGED stateVars
    BY <2>1 DEF Advances, Refused, stateVars
  <2>2. CASE Refused /\ fail
    BY <2>2 DEF Advances, Refused, fail
  <2>3. CASE /\ ~isClosed /\ pendingFile = << >> /\ accepted + n <= MaxUnits
             /\ accepted' = accepted + n
             /\ LET out == writeBuffer \o Units(n)
                    direct == writeBuffer # << >> \/ "OUT" \notin events
                IN \E w \in IF direct THEN 0 .. Len(out) ELSE {0} :
                     /\ wire' = wire \o Take(out, w)
                     /\ writeBuffer' = Drop(out, w)
             /\ UNCHANGED <<pendingFile, cut, stateVars>>
    <3>1. n \in Nat /\ Len(writeBuffer \o Units(n)) \in Nat
      <4>1. n \in Nat /\ accepted \in Nat /\ MaxUnits \in Nat /\ writeBuffer \in Seq(Number)
        BY ConnectionAssumption, Sequences DEF Core
      <4>2. accepted + n + 0 <= MaxUnits /\ accepted + 0 + n <= MaxUnits
        BY <2>3, <4>1
      <4>3. Units(n) \in Seq(Number)
        BY <4>1, <4>2, UnitsRun
      <4>4. writeBuffer \o Units(n) \in Seq(Number)
        BY <4>1, <4>3, Pair
      <4>5. QED BY <4>1, <4>4, EmptyLen
    <3>2. PICK w \in 0 .. Len(writeBuffer \o Units(n)) :
            /\ wire' = wire \o Take(writeBuffer \o Units(n), w)
            /\ writeBuffer' = Drop(writeBuffer \o Units(n), w)
      BY <2>3, <3>1
    <3>3. Moves
      BY <2>3, <3>1, <3>2, SendMoves
    <3>4. QED BY <2>3, <3>3 DEF Advances, stateVars
  <2>4. QED BY <1>1, <2>1, <2>2, <2>3 DEF send_in_loop
<1>2. ASSUME NEW n \in Sizes, send_file_in_loop(n) PROVE Advances
  <2>1. n \in Nat
    BY ConnectionAssumption
  <2>2. CASE isClosed /\ Refused /\ UNCHANGED stateVars
    BY <2>2 DEF Advances, Refused, stateVars
  <2>3. CASE Refused /\ fail
    BY <2>3 DEF Advances, Refused, fail
  <2>4. CASE /\ ~isClosed /\ pendingFile = << >> /\ accepted + n <= MaxUnits
             /\ accepted' = accepted + n /\ UNCHANGED <<writeBuffer, wire, cut, isClosed>>
             /\ pendingFile' = Units(n)
    BY <2>1, <2>4, FileAloneMoves DEF Advances
  <2>5. CASE /\ ~isClosed /\ pendingFile = << >> /\ accepted + n <= MaxUnits
             /\ accepted' = accepted + n /\ UNCHANGED <<writeBuffer, isClosed>>
             /\ writeBuffer = << >>
             /\ \E f \in 0 .. n : wire' = wire \o Take(Units(n), f) /\ sendfile(Units(n), f)
    <3>1. Moves
      BY <2>1, <2>5, FileStartsMoves
    <3>2. QED BY <2>5, <3>1 DEF Advances
  <2>6. QED BY <1>2, <2>2, <2>3, <2>4, <2>5 DEF send_file_in_loop, stateVars, fail
<1>3. ASSUME NEW h \in Sizes, NEW n \in Sizes, send_file_with_header_in_loop(h, n) PROVE Advances
  <2>1. h \in Nat /\ n \in Nat
    BY ConnectionAssumption
  <2>2. CASE isClosed /\ Refused /\ UNCHANGED stateVars
    BY <2>2 DEF Advances, Refused, stateVars
  <2>3. CASE Refused /\ fail
    BY <2>3 DEF Advances, Refused, fail
  <2>4. CASE /\ ~isClosed /\ pendingFile = << >> /\ accepted + h + n <= MaxUnits
             /\ accepted' = accepted + h + n
             /\ writeBuffer' = writeBuffer \o Units(h)
             /\ pendingFile' = UnitsAfter(h, n)
             /\ UNCHANGED <<wire, cut, stateVars>>
    <3>1. Moves
      BY <2>1, <2>4, FileWaitsMoves
    <3>2. QED BY <2>4, <3>1 DEF Advances, stateVars
  <2>5. QED BY <1>3, <2>2, <2>3, <2>4 DEF send_file_with_header_in_loop
<1>4. CASE force_close_in_loop
  BY <1>4 DEF force_close_in_loop, close_connection, Refused, Advances
<1>5. CASE c.call = "send" /\ send_in_loop(c.size)
  BY <1>1, <1>5 DEF Calls
<1>6. CASE c.call = "send_file" /\ send_file_in_loop(c.size)
  BY <1>2, <1>6 DEF Calls
<1>7. CASE c.call = "send_file_with_header" /\ send_file_with_header_in_loop(c.header, c.size)
  BY <1>3, <1>7 DEF Calls
<1>8. QED BY <1>4, <1>5, <1>6, <1>7 DEF perform

\* The handler of EPOLLOUT advances it.
LEMMA WriteAdvances ==
  ASSUME Core, on_write
  PROVE  Advances
<1>1. CASE /\ ~isClosed
           /\ \E w \in 0 .. Len(writeBuffer), f \in 0 .. Len(pendingFile) : flush(w, f)
           /\ UNCHANGED stateVars
  BY <1>1, FlushMoves DEF Advances, stateVars
<1>2. CASE fail /\ Refused
  BY <1>2 DEF Advances, Refused, fail
<1>3. CASE /\ isClosed => writeBuffer = << >>
           /\ wire' = wire \o writeBuffer /\ writeBuffer' = << >> /\ fail
           /\ UNCHANGED <<pendingFile, accepted, cut>>
  <2>1. CASE isClosed
    <3>1. wire' = wire
      BY <1>3, <2>1, Sequences, ConcatEmptySeq DEF Core
    <3>2. QED BY <1>3, <2>1, <3>1 DEF Advances, outputVars, fail
  <2>2. CASE ~isClosed
    BY <1>3, <2>2, BufferLeftMoves DEF Advances, fail
  <2>3. QED BY <2>1, <2>2
<1>4. CASE UNCHANGED <<outputVars, stateVars>>
  BY <1>4 DEF Advances, stateVars
<1>5. QED BY <1>1, <1>2, <1>3, <1>4 DEF on_write

\* Every step advances it.
LEMMA StepAdvances ==
  ASSUME IInv, [Next]_vars
  PROVE  Advances
<1>1. CASE UNCHANGED vars
  BY <1>1 DEF Advances, vars, stateVars
<1>2. ASSUME NEW c \in Calls, call_elsewhere(c) PROVE Advances
  BY <1>2 DEF call_elsewhere, Advances, stateVars
<1>3. ASSUME NEW c \in Calls, call_in_callback(c) PROVE Advances
  BY <1>3, PerformAdvances DEF call_in_callback, IInv
<1>4. CASE callback_returns
  BY <1>4 DEF callback_returns, Advances, stateVars
<1>5. CASE close_after_error \/ on_close
  BY <1>5 DEF close_after_error, on_close, close_connection, Advances
<1>6. CASE run_functor
  <2>1. Head(inbox) \in Calls
    BY <1>6, HeadTailProperties DEF IInv, Queues, run_functor
  <2>2. QED BY <1>6, <2>1, PerformAdvances DEF run_functor, IInv
<1>7. ASSUME NEW reported \in SUBSET {"HUP", "ERR", "IN", "OUT"}, poll(reported) PROVE Advances
  BY <1>7 DEF poll, Advances, stateVars
<1>8. CASE on_error \/ on_read
  BY <1>8 DEF on_error, on_read, fail, close_connection, Advances, stateVars
<1>9. CASE on_write
  BY <1>9, WriteAdvances DEF IInv
<1>10. QED BY <1>1, <1>2, <1>3, <1>4, <1>5, <1>6, <1>7, <1>8, <1>9 DEF Next

\* A sequence over S is one over what contains S.
LEMMA Wider ==
  ASSUME NEW S, NEW T, S \subseteq T, NEW s \in Seq(S)
  PROVE  s \in Seq(T)
<1> DEFINE n == Len(s)
<1>1. n \in Nat /\ s \in [1 .. n -> S]
  BY LenProperties
<1> HIDE DEF n
<1>2. s \in [1 .. n -> T]
  BY <1>1
<1>3. QED BY <1>1, <1>2, FunctionIsSeq

\* What moves are the units behind those that are gone.
LEMMA MovesPass ==
  ASSUME Outputs, Outputs', Follows, Moves
  PROVE  /\ Follows'
         /\ ~isClosed /\ ~isClosed' => Stream!Pass
<1>1. /\ accepted \in Nat /\ wire \in Seq(Number) /\ cut \in Seq(Number)
      /\ wire' \in Seq(Number) /\ cut' \in Seq(Number) /\ Backlog' \in Seq(Number)
      /\ Number \subseteq Nat
  <2>1. /\ writeBuffer' \in Seq(Number) /\ pendingFile' \in Seq(Number) /\ wire' \in Seq(Number)
        /\ cut' \in Seq(Number)
    BY DEF Outputs, Number
  <2>2. Backlog' \in Seq(Number)
    BY <2>1, Pair DEF Backlog
  <2>3. QED BY <2>1, <2>2, Sequences DEF Number
<1>2. PICK n \in Nat, X, Y \in Seq(Number) :
        /\ accepted' = accepted + n
        /\ wire' = wire \o X /\ Len(cut') = Len(cut) + Len(Y)
        /\ Backlog \o Run(accepted, n) = (X \o Y) \o Backlog'
  BY DEF Moves
<1> DEFINE Z == Backlog' g == Gone rest == accepted - g
<1>3. Len(wire) \in Nat /\ Len(cut) \in Nat /\ Len(wire') = Len(wire) + Len(X)
  BY <1>1, <1>2, Pair
<1>4. g \in Nat /\ rest \in Nat /\ g + rest = accepted /\ Backlog = Run(g, rest)
  BY <1>1, <1>3 DEF Follows, Gone
<1> HIDE DEF Z, g, rest
<1>5. (X \o Y) \o Z = Run(g, rest + n)
  <2>1. Run(g, rest) \o Run(g + rest, n) = Run(g, rest + n)
    BY <1>4, RunOn
  <2>2. QED BY <1>2, <1>4, <2>1 DEF Z
<1>6. X \in Seq(Nat) /\ Y \in Seq(Nat) /\ Z \in Seq(Nat)
  <2>1. Z \in Seq(Number)
    BY <1>1 DEF Z
  <2>2. \A s \in Seq(Number) : s \in Seq(Nat)
    BY <1>1, Wider
  <2>3. QED BY <1>2, <2>1, <2>2
<1>7. /\ Len(X) \in Nat /\ Len(Y) \in Nat /\ Len(Z) \in Nat /\ Len(X) + Len(Y) + Len(Z) = rest + n
      /\ X = Run(g, Len(X)) /\ Z = Run(g + Len(X) + Len(Y), Len(Z))
  <2>1. rest + n \in Nat
    BY <1>4
  <2> DEFINE m == rest + n
  <2> HIDE DEF m
  <2>2. m \in Nat /\ g \in Nat /\ (X \o Y) \o Z = Run(g, m)
    BY <1>4, <1>5, <2>1 DEF m
  <2>3. \A r, s, t \in Seq(Nat) : (r \o s) \o t = Run(g, m) =>
          /\ Len(r) \in Nat /\ Len(s) \in Nat /\ Len(t) \in Nat /\ Len(r) + Len(s) + Len(t) = m
          /\ r = Run(g, Len(r)) /\ t = Run(g + Len(r) + Len(s), Len(t))
    <3>1. m \in Nat /\ g \in Nat
      BY <2>2
    <3>2. QED BY <3>1, Pieces
  <2>4. QED BY <1>6, <2>2, <2>3 DEF m
<1>8. Gone' = g + Len(X) + Len(Y)
  BY <1>2, <1>3, <1>7 DEF Gone, g
<1>9. accepted' - Gone' = Len(Z) /\ Gone' <= accepted'
  BY <1>2, <1>4, <1>7, <1>8
<1>10. Follows'
  BY <1>7, <1>8, <1>9 DEF Follows, Z
<1>11. ASSUME ~isClosed, ~isClosed' PROVE Stream!Pass
  <2>1. Stream!Position = g
    BY DEF Stream!Position, g, Gone
  <2>2. Len(X) \in 0 .. accepted' - g
    BY <1>2, <1>4, <1>7
  <2>3. wire' = wire \o [i \in 1 .. Len(X) |-> g + i]
    BY <1>2, <1>7 DEF Run
  <2>4. accepted' \in Nat /\ accepted <= accepted'
    BY <1>1, <1>2
  <2>5. Len(cut') \in Nat /\ Len(cut) <= Len(cut') /\ Len(wire') + Len(cut') <= accepted'
    BY <1>2, <1>3, <1>7, <1>9 DEF Gone
  <2>6. QED BY <1>11, <2>1, <2>2, <2>3, <2>4, <2>5 DEF Stream!Pass
<1>12. QED BY <1>10, <1>11

\* Every step is a step of the stream or a stutter, and keeps the backlog in its place.
LEMMA StreamStep ==
  ASSUME IInv, IInv', Follows, [Next]_vars
  PROVE  Follows' /\ [Stream!Pass \/ Stream!Close]_(Stream!vars)
<1>1. Outputs /\ Outputs' /\ isClosed \in BOOLEAN /\ isClosed' \in BOOLEAN
  BY DEF IInv, Core, Control
<1>2. CASE UNCHANGED outputVars /\ (isClosed => isClosed')
  <2>1. Follows'
    BY <1>2 DEF Follows, Gone, Backlog, outputVars
  <2>2. UNCHANGED Stream!vars \/ Stream!Close
    BY <1>1, <1>2 DEF Stream!vars, Stream!Close, outputVars
  <2>3. QED BY <2>1, <2>2
<1>3. CASE Moves /\ ~isClosed /\ ~isClosed'
  BY <1>1, <1>3, MovesPass
<1>4. QED BY <1>2, <1>3, StepAdvances DEF Advances

\* The connection starts as a stream does.
LEMMA StreamInit == Init => Follows /\ Stream!Init
<1> SUFFICES ASSUME Init PROVE Follows /\ Stream!Init
  OBVIOUS
<1>1. Len(<< >>) = 0 /\ << >> \o << >> = << >>
  BY EmptySeq, ConcatEmptySeq
<1>2. Gone = 0
  BY <1>1 DEF Init, Gone
<1>3. Run(0, 0) = << >>
  BY DEF Run
<1>4. Follows
  BY <1>1, <1>2, <1>3 DEF Init, Follows, Backlog
<1>5. Stream!Init
  BY <1>1 DEF Init, Stream!Init
<1>6. QED BY <1>4, <1>5

\* What is accepted leaves in order, each unit once, until the connection closes, also
\* behind a file that turned out shorter; a closed connection neither accepts nor sends.
THEOREM ConnectionIsStream == Spec => ImplementsStream
<1>1. IInv /\ IInv' /\ Follows /\ [Next]_vars => Follows' /\ [Stream!Pass \/ Stream!Close]_(Stream!vars)
  BY StreamStep
<1>2. QED BY Always, StreamInit, <1>1, PTL DEF Spec, ImplementsStream, Stream!Spec
=============================================================================
