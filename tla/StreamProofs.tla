---------------------------- MODULE StreamProofs ----------------------------
(***************************************************************************)
(* TLAPS proofs about what becomes of the bytes of a connection: the       *)
(* Buffer that collects them is a byte stream, for every size of the       *)
(* vector, of the prepend area and of the stack buffer; and the two RPC    *)
(* servers cut what they collect into whole frames and answer what is due  *)
(* an answer, for every set of frames and lines and any number of them on  *)
(* the connection.                                                         *)
(***************************************************************************)
EXTENDS Buffer, RpcServer, SequenceTheorems, WellFoundedInduction, TLAPS

(* Part one: tcp/Buffer. *)

\* b is laid out well and holds the bytes from the o-th to the n-th.
Good(b, o, n) == Layout(b) /\ Holds(b, o, n)

\* The fields of a Vector.
LEMMA Fields ==
  ASSUME NEW bytes, NEW size, NEW r, NEW w
  PROVE  /\ Vector(bytes, size, r, w).bytes = bytes /\ Vector(bytes, size, r, w).size = size
         /\ Vector(bytes, size, r, w).readIndex = r /\ Vector(bytes, size, r, w).writeIndex = w
BY DEF Vector

\* What it takes for a Vector to be good.
LEMMA GoodVector ==
  ASSUME NEW bytes, NEW size \in Nat, NEW r \in Nat, NEW w \in Nat, NEW o \in Nat, NEW n \in Nat,
         kCheapPrepend <= r, r <= w, w <= size, w - r = n - o,
         bytes \in [0 .. size - 1 -> Nat],
         \A i \in r .. w - 1 : bytes[i] = o + 1 + (i - r)
  PROVE  Good(Vector(bytes, size, r, w), o, n)
<1> DEFINE c == Vector(bytes, size, r, w)
<1>1. c.bytes = bytes /\ c.size = size /\ c.readIndex = r /\ c.writeIndex = w
  BY Fields
<1> HIDE DEF c
<1>2. Layout(c)
  BY <1>1 DEF Layout
<1>3. o <= n /\ readable_bytes(c) = n - o
  BY <1>1 DEF readable_bytes
<1>4. Holds(c, o, n)
  BY <1>1, <1>3 DEF Holds
<1>5. QED BY <1>2, <1>4 DEF Good, c

\* What a good buffer gives.
LEMMA GoodFields ==
  ASSUME NEW b, NEW o, NEW n, Good(b, o, n)
  PROVE  /\ b.size \in Nat /\ b.readIndex \in Nat /\ b.writeIndex \in Nat /\ o \in Nat /\ n \in Nat
         /\ kCheapPrepend <= b.readIndex /\ b.readIndex <= b.writeIndex /\ b.writeIndex <= b.size
         /\ b.writeIndex - b.readIndex = n - o
         /\ b.bytes \in [0 .. b.size - 1 -> Nat]
         /\ \A i \in b.readIndex .. b.writeIndex - 1 : b.bytes[i] = o + 1 + (i - b.readIndex)
BY DEF Good, Layout, Holds, readable_bytes

\* maintain_read_index consumes bytes from the front.
LEMMA MaintainReadIndex ==
  ASSUME NEW b, NEW o, NEW n, NEW len \in 0 .. readable_bytes(b), Good(b, o, n)
  PROVE  Good(maintain_read_index(b, len), o + len, n)
<1> DEFINE bytes == b.bytes size == b.size r == b.readIndex w == b.writeIndex
<1>1. /\ size \in Nat /\ r \in Nat /\ w \in Nat /\ o \in Nat /\ n \in Nat
      /\ kCheapPrepend <= r /\ r <= w /\ w <= size /\ w - r = n - o
      /\ bytes \in [0 .. size - 1 -> Nat]
      /\ \A i \in r .. w - 1 : bytes[i] = o + 1 + (i - r)
  BY GoodFields
<1>2. len \in Nat /\ len <= w - r /\ kCheapPrepend \in Nat
  BY <1>1, BufferAssumption DEF readable_bytes
<1>3. maintain_read_index(b, len) = IF len < w - r THEN Vector(bytes, size, r + len, w)
                                    ELSE Vector(bytes, size, kCheapPrepend, kCheapPrepend)
  BY DEF maintain_read_index, readable_bytes
<1> HIDE DEF bytes, size, r, w
<1>4. CASE len < w - r
  <2>1. \A i \in r + len .. w - 1 : bytes[i] = (o + len) + 1 + (i - (r + len))
    BY <1>1, <1>2
  <2>2. /\ r + len \in Nat /\ o + len \in Nat /\ kCheapPrepend <= r + len /\ r + len <= w
        /\ w - (r + len) = n - (o + len)
    BY <1>1, <1>2
  <2>3. Good(Vector(bytes, size, r + len, w), o + len, n)
    BY <1>1, <2>1, <2>2, GoodVector
  <2>4. QED BY <1>3, <1>4, <2>3
<1>5. CASE ~(len < w - r)
  <2>1. /\ o + len \in Nat /\ kCheapPrepend <= size /\ kCheapPrepend - kCheapPrepend = n - (o + len)
        /\ kCheapPrepend <= kCheapPrepend
    BY <1>1, <1>2, <1>5
  <2>2. \A i \in kCheapPrepend .. kCheapPrepend - 1 : bytes[i] = (o + len) + 1 + (i - kCheapPrepend)
    BY <1>2
  <2>3. Good(Vector(bytes, size, kCheapPrepend, kCheapPrepend), o + len, n)
    BY <1>1, <1>2, <2>1, <2>2, GoodVector
  <2>4. QED BY <1>3, <1>5, <2>3
<1>6. QED BY <1>4, <1>5

\* resize keeps what is readable.
LEMMA Resize ==
  ASSUME NEW b, NEW o, NEW n, NEW len \in Nat, Good(b, o, n), writable_bytes(b) < len
  PROVE  /\ Good(resize(b, b.writeIndex + len), o, n)
         /\ writable_bytes(resize(b, b.writeIndex + len)) = len
<1> DEFINE r == b.readIndex w == b.writeIndex
           bytes == [i \in 0 .. (w + len) - 1 |-> IF i < b.size THEN b.bytes[i] ELSE 0]
<1>1. /\ b.size \in Nat /\ r \in Nat /\ w \in Nat /\ o \in Nat /\ n \in Nat
      /\ kCheapPrepend <= r /\ r <= w /\ w <= b.size /\ w - r = n - o
      /\ b.bytes \in [0 .. b.size - 1 -> Nat]
      /\ \A i \in r .. w - 1 : b.bytes[i] = o + 1 + (i - r)
  BY GoodFields
<1>2. resize(b, w + len) = Vector(bytes, w + len, r, w)
  BY DEF resize
<1> HIDE DEF r, w
<1>3. bytes \in [0 .. (w + len) - 1 -> Nat]
  BY <1>1
<1>4. \A i \in r .. w - 1 : bytes[i] = o + 1 + (i - r)
  BY <1>1
<1> HIDE DEF bytes
<1>5. Good(Vector(bytes, w + len, r, w), o, n)
  <2> DEFINE size == w + len
  <2>1. size \in Nat /\ w <= size /\ bytes \in [0 .. size - 1 -> Nat]
    BY <1>1, <1>3
  <2> HIDE DEF size
  <2>2. Good(Vector(bytes, size, r, w), o, n)
    BY <1>1, <1>4, <2>1, GoodVector
  <2>3. QED BY <2>2 DEF size
<1>6. writable_bytes(Vector(bytes, w + len, r, w)) = len
  BY <1>1, Fields DEF writable_bytes
<1>7. QED BY <1>2, <1>5, <1>6 DEF w

\* memmove keeps what is readable.
LEMMA MoveToFront ==
  ASSUME NEW b, NEW o, NEW n, Good(b, o, n)
  PROVE  /\ Good(move_to_front(b), o, n)
         /\ writable_bytes(move_to_front(b)) = b.size - (kCheapPrepend + readable_bytes(b))
<1> DEFINE r == b.readIndex w == b.writeIndex k == kCheapPrepend
           bytes == [i \in 0 .. b.size - 1 |-> IF i \in k .. k + (w - r) - 1 THEN b.bytes[r + (i - k)] ELSE b.bytes[i]]
<1>1. /\ b.size \in Nat /\ r \in Nat /\ w \in Nat /\ o \in Nat /\ n \in Nat /\ k \in Nat
      /\ k <= r /\ r <= w /\ w <= b.size /\ w - r = n - o
      /\ b.bytes \in [0 .. b.size - 1 -> Nat]
      /\ \A i \in r .. w - 1 : b.bytes[i] = o + 1 + (i - r)
  BY GoodFields, BufferAssumption
<1>2. move_to_front(b) = Vector(bytes, b.size, k, k + (w - r)) /\ readable_bytes(b) = w - r
  BY DEF move_to_front, readable_bytes
<1> HIDE DEF r, w, k
<1>3. bytes \in [0 .. b.size - 1 -> Nat]
  <2>1. ASSUME NEW i \in 0 .. b.size - 1, i \in k .. k + (w - r) - 1
        PROVE  b.bytes[r + (i - k)] \in Nat
    <3>1. r + (i - k) \in 0 .. b.size - 1
      BY <1>1, <2>1
    <3>2. QED BY <1>1, <3>1
  <2>2. QED BY <1>1, <2>1
<1>4. \A i \in k .. k + (w - r) - 1 : bytes[i] = o + 1 + (i - k)
  <2> SUFFICES ASSUME NEW i \in k .. k + (w - r) - 1 PROVE bytes[i] = o + 1 + (i - k)
    OBVIOUS
  <2>1. i \in 0 .. b.size - 1 /\ r + (i - k) \in r .. w - 1
    BY <1>1
  <2>2. bytes[i] = b.bytes[r + (i - k)]
    BY <2>1
  <2>3. b.bytes[r + (i - k)] = o + 1 + ((r + (i - k)) - r)
    BY <1>1, <2>1
  <2>4. QED BY <1>1, <2>1, <2>2, <2>3
<1> HIDE DEF bytes
<1>5. /\ k + (w - r) \in Nat /\ k <= k + (w - r) /\ k + (w - r) <= b.size
      /\ (k + (w - r)) - k = n - o /\ kCheapPrepend <= k
  BY <1>1 DEF k
<1>6. Good(Vector(bytes, b.size, k, k + (w - r)), o, n)
  <2> DEFINE e == k + (w - r)
  <2>1. e \in Nat /\ k <= e /\ e <= b.size /\ e - k = n - o
    BY <1>5
  <2>2. \A i \in k .. e - 1 : bytes[i] = o + 1 + (i - k)
    BY <1>1, <1>4
  <2> HIDE DEF e
  <2>3. Good(Vector(bytes, b.size, k, e), o, n)
    BY <1>1, <1>3, <1>5, <2>1, <2>2, GoodVector
  <2>4. QED BY <2>3 DEF e
<1>7. writable_bytes(Vector(bytes, b.size, k, k + (w - r))) = b.size - (k + (w - r))
  BY Fields DEF writable_bytes
<1>8. QED BY <1>2, <1>6, <1>7 DEF k

\* make_space keeps what is readable and leaves room for len bytes.
LEMMA MakeSpace ==
  ASSUME NEW b, NEW o, NEW n, NEW len \in Nat \ {0}, Good(b, o, n), writable_bytes(b) < len
  PROVE  Good(make_space(b, len), o, n) /\ len <= writable_bytes(make_space(b, len))
<1>1. CASE writable_bytes(b) + prependable_bytes(b) < len + kCheapPrepend
  BY <1>1, Resize DEF make_space
<1>2. CASE ~(writable_bytes(b) + prependable_bytes(b) < len + kCheapPrepend)
  <2>1. Good(move_to_front(b), o, n)
    BY MoveToFront
  <2>2. len <= b.size - (kCheapPrepend + readable_bytes(b))
    BY <1>2, GoodFields, BufferAssumption DEF writable_bytes, prependable_bytes, readable_bytes
  <2>3. QED BY <1>2, <2>1, <2>2, MoveToFront DEF make_space
<1>3. QED BY <1>1, <1>2

\* copy appends the next len bytes when they fit.
LEMMA Copy ==
  ASSUME NEW b, NEW o, NEW n, NEW len \in Nat, Good(b, o, n), len <= writable_bytes(b)
  PROVE  Good(copy(b, n + 1, len), o, n + len)
<1> DEFINE r == b.readIndex w == b.writeIndex
           all == (0 .. b.size - 1) \cup (w .. w + len - 1)
           bytes == [i \in all |-> IF i \in w .. w + len - 1 THEN n + 1 + (i - w) ELSE b.bytes[i]]
<1>1. /\ b.size \in Nat /\ r \in Nat /\ w \in Nat /\ o \in Nat /\ n \in Nat
      /\ kCheapPrepend <= r /\ r <= w /\ w <= b.size /\ w - r = n - o
      /\ b.bytes \in [0 .. b.size - 1 -> Nat]
      /\ \A i \in r .. w - 1 : b.bytes[i] = o + 1 + (i - r)
  BY GoodFields
<1>2. w + len <= b.size
  BY <1>1 DEF writable_bytes
<1>3. copy(b, n + 1, len) = Vector(bytes, b.size, r, w + len)
  BY DEF copy
<1> HIDE DEF r, w
<1>4. all = 0 .. b.size - 1
  BY <1>1, <1>2
<1> HIDE DEF all
<1>5. bytes \in [0 .. b.size - 1 -> Nat]
  <2>1. ASSUME NEW i \in 0 .. b.size - 1 PROVE (IF i \in w .. w + len - 1 THEN n + 1 + (i - w) ELSE b.bytes[i]) \in Nat
    BY <1>1
  <2>2. bytes = [i \in 0 .. b.size - 1 |-> IF i \in w .. w + len - 1 THEN n + 1 + (i - w) ELSE b.bytes[i]]
    BY <1>4
  <2> HIDE DEF bytes
  <2>3. QED BY <2>1, <2>2
<1>6. ASSUME NEW i \in r .. w + len - 1 PROVE bytes[i] = o + 1 + (i - r)
  <2>1. i \in all /\ i \in Int
    BY <1>1, <1>2, <1>4
  <2>2. CASE i \in w .. w + len - 1
    BY <1>1, <2>1, <2>2
  <2>3. CASE i \notin w .. w + len - 1
    <3>1. i \in r .. w - 1
      BY <1>1, <2>1, <2>3
    <3>2. QED BY <1>1, <2>1, <2>3, <3>1
  <2>4. QED BY <2>2, <2>3
<1> HIDE DEF bytes
<1>7. w + len \in Nat /\ n + len \in Nat /\ r <= w + len /\ (w + len) - r = (n + len) - o
  BY <1>1
<1>8. Good(Vector(bytes, b.size, r, w + len), o, n + len)
  <2> DEFINE e == w + len m == n + len
  <2>1. e \in Nat /\ m \in Nat /\ r <= e /\ e <= b.size /\ e - r = m - o
    BY <1>2, <1>7
  <2>2. \A i \in r .. e - 1 : bytes[i] = o + 1 + (i - r)
    BY <1>1, <1>6
  <2> HIDE DEF e, m
  <2>3. Good(Vector(bytes, b.size, r, e), o, m)
    BY <1>1, <1>5, <2>1, <2>2, GoodVector
  <2>4. QED BY <2>3 DEF e, m
<1>9. QED BY <1>3, <1>8

\* write_to_buffer appends the next len bytes.
LEMMA Write ==
  ASSUME NEW b, NEW o, NEW n, NEW len \in Nat \ {0}, Good(b, o, n)
  PROVE  Good(write_to_buffer(b, n + 1, len), o, n + len)
<1>1. CASE writable_bytes(b) < len
  <2>1. Good(copy(make_space(b, len), n + 1, len), o, n + len)
    BY <1>1, MakeSpace, Copy
  <2>2. QED BY <1>1, <2>1 DEF write_to_buffer
<1>2. CASE ~(writable_bytes(b) < len)
  <2>1. len <= writable_bytes(b)
    BY <1>2 DEF Good, Layout, writable_bytes
  <2>2. QED BY <1>2, <2>1, Copy DEF write_to_buffer
<1>3. QED BY <1>1, <1>2

\* read_from_fd appends the next m bytes, however they are split.
LEMMA ReadFd ==
  ASSUME NEW b, NEW o, NEW n, NEW m \in Nat \ {0}, Good(b, o, n)
  PROVE  Good(read_from_fd(b, n + 1, m), o, n + m)
<1> DEFINE w == writable_bytes(b)
<1>1. w \in Nat /\ n \in Nat
  BY DEF Good, Layout, Holds, writable_bytes
<1>2. CASE m <= w
  BY <1>2, Copy DEF read_from_fd
<1>3. CASE ~(m <= w)
  <2> DEFINE c == copy(b, n + 1, w)
  <2>1. Good(c, o, n + w)
    BY <1>1, Copy
  <2>2. m - w \in Nat \ {0} /\ n + w + (m - w) = n + m /\ n + 1 + w = n + w + 1
    BY <1>1, <1>3
  <2>3. Good(write_to_buffer(c, n + w + 1, m - w), o, n + w + (m - w))
    BY <2>1, <2>2, Write
  <2>4. QED BY <1>3, <2>2, <2>3 DEF read_from_fd
<1>4. QED BY <1>2, <1>3
-----------------------------------------------------------------------------
\* What comes out is what Take of the byte stream says.
LEMMA TakeStep ==
  ASSUME BufferInv, NEW len \in 0 .. readable_bytes(buffer), take(len)
  PROVE  BufferInv' /\ Stream!Take
<1>1. Good(buffer, out, in)
  BY DEF BufferInv, Good
<1>2. Good(buffer', out', in')
  BY <1>1, MaintainReadIndex DEF take
<1>3. last' = [i \in 0 .. len - 1 |-> out + 1 + i]
  <2> DEFINE r == buffer.readIndex w == buffer.writeIndex
  <2>1. ASSUME NEW i \in 0 .. len - 1 PROVE buffer.bytes[r + i] = out + 1 + i
    <3>1. /\ r \in Nat /\ w \in Nat /\ out \in Nat
          /\ \A j \in r .. w - 1 : buffer.bytes[j] = out + 1 + (j - r)
      BY <1>1, GoodFields
    <3>2. len \in Int /\ len <= w - r
      BY <3>1 DEF readable_bytes
    <3> HIDE DEF r, w
    <3>3. r + i \in r .. w - 1 /\ (r + i) - r = i
      BY <3>1, <3>2
    <3>4. QED BY <3>1, <3>3
  <2>2. QED BY <2>1 DEF take
<1>4. len \in 0 .. (in - out)
  BY <1>1 DEF Good, Holds
<1>5. QED BY <1>2, <1>3, <1>4 DEF take, BufferInv, Good, Stream!Take

LEMMA InitInv ==
  ASSUME BufferInit
  PROVE  BufferInv
BY BufferAssumption DEF BufferInit, BufferInv, Layout, Holds, Vector, readable_bytes

\* Every step keeps the invariant and is a step of the byte stream.
LEMMA Step ==
  ASSUME BufferInv, [BufferNext]_bufferVars
  PROVE  BufferInv' /\ [Stream!Put \/ Stream!Take]_(Stream!vars)
<1> USE BufferAssumption
<1>1. Good(buffer, out, in) /\ in \in Nat /\ out \in Nat
  BY DEF BufferInv, Good, Holds
<1>2. CASE WriteToBuffer
  <2>1. PICK len \in 1 .. MaxBytes - in :
          buffer' = write_to_buffer(buffer, in + 1, len) /\ in' = in + len /\ UNCHANGED <<out, last>>
    BY <1>2 DEF WriteToBuffer
  <2>2. len \in Nat \ {0}
    BY <1>1
  <2>3. Good(buffer', out', in')
    BY <1>1, <2>1, <2>2, Write
  <2>4. Stream!Put
    BY <1>1, <2>1, <2>2 DEF Stream!Put
  <2>5. QED BY <2>3, <2>4 DEF BufferInv, Good
<1>3. CASE ReadFromFd
  <2>1. PICK n \in 1 .. MaxBytes - in :
          buffer' = read_from_fd(buffer, in + 1, n) /\ in' = in + n /\ UNCHANGED <<out, last>>
    BY <1>3 DEF ReadFromFd
  <2>2. n \in Nat \ {0}
    BY <1>1
  <2>3. Good(buffer', out', in')
    BY <1>1, <2>1, <2>2, ReadFd
  <2>4. Stream!Put
    BY <1>1, <2>1, <2>2 DEF Stream!Put
  <2>5. QED BY <2>3, <2>4 DEF BufferInv, Good
<1>4. CASE ReadFromBuffer
  <2>1. PICK len \in 0 .. MaxBytes :
          take(IF len > readable_bytes(buffer) THEN readable_bytes(buffer) ELSE len)
    BY <1>4 DEF ReadFromBuffer
  <2>2. (IF len > readable_bytes(buffer) THEN readable_bytes(buffer) ELSE len) \in 0 .. readable_bytes(buffer)
    BY <1>1 DEF Good, Layout, readable_bytes
  <2>3. QED BY <2>1, <2>2, TakeStep
<1>5. CASE AdvanceOrWriteToFd
  BY <1>5, TakeStep DEF AdvanceOrWriteToFd
<1>6. CASE UNCHANGED bufferVars
  BY <1>6 DEF bufferVars, BufferInv, Layout, Holds, readable_bytes, Stream!vars
<1>7. QED BY <1>2, <1>3, <1>4, <1>5, <1>6 DEF BufferNext
-----------------------------------------------------------------------------
\* The indexes of the Buffer stay in order, no copy leaves the vector, and the readable
\* part is exactly what went in and did not come out.
THEOREM BufferHolds == BufferSpec => []BufferInv
<1>1. BufferInit => BufferInv
  BY InitInv
<1>2. BufferInv /\ [BufferNext]_bufferVars => BufferInv'
  BY Step
<1>3. QED BY <1>1, <1>2, PTL DEF BufferSpec

\* The Buffer implements the byte stream: nothing is lost, repeated or reordered.
THEOREM BufferIsStream == BufferSpec => Refines
<1>1. BufferInit => Stream!Init
  BY DEF BufferInit, Stream!Init
<1>2. BufferInv /\ [BufferNext]_bufferVars => [Stream!Put \/ Stream!Take]_(Stream!vars)
  BY Step
<1>3. QED BY <1>1, <1>2, BufferHolds, PTL DEF BufferSpec, Refines, Stream!Spec

-----------------------------------------------------------------------------
(* Part two: the RPC servers.  The invariant says where each unit sent is, *)
(* which frames were dispatched and which of these were answered.          *)

\* The blank lines, and the frames that the code answers: those due an answer, and the
\* lines with a faulty notification.
Blanks == {i \in DOMAIN asked : protocol = "json" /\ asked[i].kind = "blank"}
Answerable(frame) == Due(frame) \/ HasFaulty(frame)
Owed == {i \in DOMAIN asked : Answerable(asked[i])}

SentUnit == [id : DOMAIN asked, last : BOOLEAN]

\* The units on_message works on, or will go on with.
Kept ==
  IF pc = "poll" THEN IF entry THEN cache ELSE << >>
  ELSE IF protocol = "binary" THEN buf ELSE cache

\* How many of the units sent have been cut off the buffer in whole frames, and the
\* frames that these end.
Consumed == Len(sent) - Len(Kept) - Len(inbox)
Ended == {sent[k].id : k \in {j \in 1 .. Consumed : sent[j].last}}

\* What the histories and the buffers hold, whether the connection is open or not.
Contents ==
  /\ asked \in Seq(IF protocol = "binary" THEN BinaryFrames ELSE JsonLines)
  /\ sent \in Seq(SentUnit) /\ inbox \in Seq(SentUnit)
  /\ cache \in Seq(SentUnit) /\ buf \in Seq(SentUnit)
  /\ handled \in Seq(DOMAIN asked) /\ answered \in Seq(DOMAIN asked) /\ queued \in Seq(DOMAIN asked)
  /\ pc = "waiting" => protocol = "json" /\ handled # << >>

\* The units of the frames sent: a unit that does not end its frame is followed by
\* the one that does, frames come in the order of their numbers, and only a blank
\* line is one unit.
Framed ==
  /\ \A k \in DOMAIN sent :
       ~sent[k].last => k < Len(sent) /\ sent[k + 1].last /\ sent[k + 1].id = sent[k].id
  /\ \A j, k \in DOMAIN sent : j < k /\ sent[j].last => sent[j].id < sent[k].id
  /\ \A k \in DOMAIN sent : k = 1 \/ sent[k - 1].last => (sent[k].last <=> sent[k].id \in Blanks)

\* What was sent is what was cut off, up to the end of a frame, what is kept, and
\* what has not been received.
Placed ==
  /\ 0 <= Consumed /\ (Consumed = 0 \/ sent[Consumed].last)
  /\ \A k \in DOMAIN Kept : Kept[k] = sent[Consumed + k]
  /\ \A k \in DOMAIN inbox : inbox[k] = sent[Len(sent) - Len(inbox) + k]
  /\ pc = "poll" => \A k \in DOMAIN Kept : ~Kept[k].last
  /\ pc # "poll" => entry

\* What was cut off was dispatched.
Dispatched ==
  /\ Ascending(handled)
  /\ ToSet(handled) = Ended \ Blanks

\* What was dispatched was answered, but for the line behind the bridge and the calls
\* whose answer is with the service or in the queue of the loop.
Answered ==
  IF protocol = "json"
  THEN /\ Ascending(answered)
       /\ pc # "waiting" => ToSet(answered) = ToSet(handled) \cap Owed
       /\ pc = "waiting" =>
            /\ ToSet(answered) = (ToSet(handled) \ {Last(handled)}) \cap Owed
            /\ Last(handled) \notin Blanks
  ELSE /\ ToSet(answered) \cup ToSet(queued) \cup calls = ToSet(handled) \cap Owed
       /\ ToSet(answered) \cap calls = {} /\ ToSet(queued) \cap (ToSet(answered) \cup calls) = {}
       /\ IsInjective(answered) /\ IsInjective(queued)

Sound == Placed /\ Dispatched /\ Answered

IInv == TypeOK /\ Contents /\ Framed /\ (open => Sound)

\* A set of numbers that is not empty has a least one.
LEMMA LeastNat ==
  ASSUME NEW T, T \subseteq Nat, T # {}
  PROVE  \E z \in T : \A y \in T : z <= y
<1> DEFINE R == OpToRel(<, Nat)
<1>1. IsWellFoundedOn(R, Nat)
  BY NatLessThanWellFounded
<1>2. \A x, y \in Nat : x < y => <<x, y>> \in R
  BY DEF OpToRel
<1> HIDE DEF R
<1>3. PICK z \in T : \A y \in T : <<y, z>> \notin R
  BY <1>1, WFMin
<1>4. \A y \in T : ~(y < z) /\ z \in Nat /\ y \in Nat
  BY <1>2, <1>3
<1>5. \A y \in T : z <= y
  BY <1>4
<1>6. QED BY <1>5

\* The first unit with a property.
LEMMA FirstIndex ==
  ASSUME NEW n \in Nat, NEW I, I \subseteq 1 .. n
  PROVE  LET f == IF I # {} THEN Min(I) ELSE 0
         IN  /\ f \in 0 .. n
             /\ f = 0 => I = {}
             /\ f # 0 => f \in I /\ \A i \in I : f <= i
<1>1. CASE I = {}
  BY <1>1
<1>2. CASE I # {}
  <2>1. I \subseteq Nat
    OBVIOUS
  <2>2. PICK z \in I : \A y \in I : z <= y
    BY <1>2, <2>1, LeastNat
  <2>3. Min(I) \in I /\ \A y \in I : Min(I) <= y
    BY <2>2 DEF Min
  <2>4. \A i \in I : i \in 0 .. n /\ i # 0
    OBVIOUS
  <2>5. Min(I) \in 0 .. n /\ Min(I) # 0
    BY <2>3, <2>4
  <2>6. QED BY <1>2, <2>3, <2>5
<1>3. QED BY <1>1, <1>2

-----------------------------------------------------------------------------
(* What the operators do. *)

\* FirstFrame is the place of the first unit that ends a frame, or 0.
LEMMA FirstFrameIs ==
  ASSUME NEW S, NEW u \in Seq(S)
  PROVE  /\ FirstFrame(u) \in 0 .. Len(u)
         /\ FirstFrame(u) = 0 => \A i \in DOMAIN u : ~u[i].last
         /\ FirstFrame(u) # 0 =>
              /\ FirstFrame(u) \in DOMAIN u /\ u[FirstFrame(u)].last
              /\ \A i \in DOMAIN u : i < FirstFrame(u) => ~u[i].last
<1> DEFINE I == {i \in 1 .. Len(u) : u[i].last}
           f == IF I # {} THEN Min(I) ELSE 0
<1>1. FirstFrame(u) = f
  BY DEF FirstFrame, SelectInSeq
<1>2. Len(u) \in Nat /\ DOMAIN u = 1 .. Len(u)
  BY LenProperties
<1>3. /\ f \in 0 .. Len(u)
      /\ f = 0 => I = {}
      /\ f # 0 => f \in I /\ \A i \in I : f <= i
  <2>1. I \subseteq 1 .. Len(u)
    OBVIOUS
  <2> HIDE DEF I
  <2>2. QED BY <1>2, <2>1, FirstIndex
<1> HIDE DEF f
<1>4. \A i \in I : i \in 1 .. Len(u) /\ u[i].last
  OBVIOUS
<1>5. \A i \in 1 .. Len(u) : u[i].last => i \in I
  OBVIOUS
<1> HIDE DEF I
<1>6. f # 0 => \A i \in DOMAIN u : i < f => ~u[i].last
  <2>1. ASSUME f # 0, NEW i \in DOMAIN u, i < f, u[i].last PROVE FALSE
    <3>1. i \in I
      BY <1>2, <1>5, <2>1
    <3>2. f <= i /\ i \in Nat /\ f \in Nat
      BY <1>2, <1>3, <2>1, <3>1
    <3>3. QED BY <2>1, <3>2
  <2>2. QED BY <2>1
<1>7. QED BY <1>1, <1>2, <1>3, <1>4, <1>5, <1>6

\* After drops the first n units.
LEMMA AfterIs ==
  ASSUME NEW S, NEW u \in Seq(S), NEW n \in 0 .. Len(u)
  PROVE  /\ After(u, n) \in Seq(S) /\ Len(After(u, n)) = Len(u) - n
         /\ DOMAIN After(u, n) = 1 .. Len(u) - n
         /\ \A i \in 1 .. Len(u) - n : After(u, n)[i] = u[n + i]
<1>1. Len(u) \in Nat /\ \A i \in 1 .. Len(u) : u[i] \in S
  BY LenProperties, ElementOfSeq
<1>2. n + 1 \in Int /\ Len(u) \in Int /\ \A i \in n + 1 .. Len(u) : u[i] \in S
  BY <1>1
<1> DEFINE a == SubSeq(u, n + 1, Len(u)) d == Len(u) - n m == n + 1
<1>3. /\ a \in Seq(S) /\ Len(a) = IF m <= Len(u) THEN Len(u) - m + 1 ELSE 0
      /\ \A i \in 1 .. Len(u) - m + 1 : a[i] = u[m + i - 1]
  BY <1>2, SubSeqProperties
<1>4. Len(u) - m + 1 = d /\ d \in Nat /\ (~(m <= Len(u)) => d = 0)
  BY <1>1
<1>5. DOMAIN a = 1 .. Len(a)
  BY <1>3, LenProperties
<1> HIDE DEF a
<1>6. ASSUME NEW i \in 1 .. d PROVE a[i] = u[n + i]
  <2> HIDE DEF d
  <2>1. i \in 1 .. Len(u) - m + 1
    BY <1>4
  <2>4. i \in Int /\ n \in Int
    BY <1>4
  <2>5. m + i - 1 = n + i
    BY <2>4
  <2>2. a[i] = u[m + i - 1]
    BY <1>3, <2>1
  <2>3. QED BY <2>2, <2>5
<1>7. a \in Seq(S) /\ Len(a) = d /\ DOMAIN a = 1 .. d
  BY <1>3, <1>4, <1>5
<1>8. QED BY <1>6, <1>7 DEF After, a

\* SubSeq takes the first n units.
LEMMA FrontIs ==
  ASSUME NEW S, NEW u \in Seq(S), NEW n \in 0 .. Len(u)
  PROVE  /\ SubSeq(u, 1, n) \in Seq(S) /\ Len(SubSeq(u, 1, n)) = n
         /\ DOMAIN SubSeq(u, 1, n) = 1 .. n
         /\ \A i \in 1 .. n : SubSeq(u, 1, n)[i] = u[i]
<1>1. Len(u) \in Nat /\ \A i \in 1 .. Len(u) : u[i] \in S
  BY LenProperties, ElementOfSeq
<1>2. n \in Int /\ \A i \in 1 .. n : u[i] \in S
  BY <1>1
<1> DEFINE a == SubSeq(u, 1, n)
<1>3. a \in Seq(S) /\ Len(a) = (IF 1 <= n THEN n - 1 + 1 ELSE 0) /\ \A i \in 1 .. n - 1 + 1 : a[i] = u[1 + i - 1]
  BY <1>2, SubSeqProperties
<1>4. DOMAIN a = 1 .. Len(a)
  BY <1>3, LenProperties
<1> HIDE DEF a
<1>5. Len(a) = n /\ \A i \in 1 .. n : a[i] = u[i]
  BY <1>2, <1>3
<1>6. QED BY <1>3, <1>4, <1>5 DEF a

\* A request has a reply unless it is a notification without a fault.
LEMMA ReplyIff ==
  ASSUME NEW req \in JsonRequest
  PROVE  dispatch_single(req) # << >> <=> ~IsNotification(req) \/ Faulty(req)
<1> USE DEF IsNotification, Faulty
<1>1. \A code, i : Reply(code, i) # << >>
  BY DEF Reply
<1> HIDE DEF Reply
<1>2. /\ req.object \in BOOLEAN /\ req.version \in BOOLEAN /\ req.params \in BOOLEAN
      /\ req.id \in {"none", "valid", "invalid"} /\ req.method \in {"known", "unknown", "invalid"}
  BY DEF JsonRequest
<1>3. CASE ~req.object
  BY <1>1, <1>3 DEF dispatch_single
<1>4. CASE req.object /\ req.id = "invalid"
  BY <1>1, <1>4 DEF dispatch_single
<1>5. CASE req.object /\ req.id # "invalid" /\ (~req.version \/ req.method = "invalid")
  BY <1>1, <1>5 DEF dispatch_single
<1>6. CASE req.object /\ req.id # "invalid" /\ req.version /\ req.method = "unknown"
  BY <1>1, <1>6 DEF dispatch_single
<1>7. CASE req.object /\ req.id # "invalid" /\ req.version /\ req.method = "known"
  BY <1>1, <1>2, <1>7 DEF dispatch_single
<1>8. QED BY <1>2, <1>3, <1>4, <1>5, <1>6, <1>7

\* A line that is not blank has a reply just when an answer is due or it has a faulty
\* notification.
LEMMA LineIsAnswered ==
  ASSUME protocol = "json", NEW frame \in JsonLine, frame.kind # "blank"
  PROVE  json_dispatch(frame) # {} <=> Answerable(frame)
<1>1. CASE frame.kind = "garbage"
  BY <1>1 DEF json_dispatch, Answerable, Due
<1>2. CASE frame.kind # "garbage"
  <2>1. frame.kind \in {"single", "batch"} /\ \E n \in Nat : frame.reqs \in [1 .. n -> JsonRequest]
    <3>1. CASE frame \in [kind : {"single"}, reqs : [1 .. 1 -> JsonRequest]]
      BY <3>1
    <3>2. CASE frame \in [kind : {"batch"}, reqs : Seq(JsonRequest)]
      <4>1. frame.kind = "batch" /\ frame.reqs \in Seq(JsonRequest)
        BY <3>2
      <4>2. QED BY <4>1, LenProperties
    <3>3. QED BY <1>2, <3>1, <3>2 DEF JsonLine
  <2>2. PICK n \in Nat : frame.reqs \in [1 .. n -> JsonRequest]
    BY <2>1
  <2>3. CASE frame.kind = "batch" /\ frame.reqs = << >>
    BY <1>2, <2>3 DEF json_dispatch, Answerable, Due
  <2>4. CASE ~(frame.kind = "batch" /\ frame.reqs = << >>)
    <3> DEFINE R == frame.reqs
    <3>1. json_dispatch(frame) = {dispatch_single(R[i]) : i \in DOMAIN R} \ {<< >>}
      BY <1>2, <2>4 DEF json_dispatch
    <3>2. R # << >>
      <4>1. CASE frame.kind = "single"
        <5>1. R \in [1 .. 1 -> JsonRequest]
          BY <4>1 DEF JsonLine
        <5>2. DOMAIN R = 1 .. 1
          BY <5>1
        <5> HIDE DEF R
        <5>3. ASSUME R = << >> PROVE FALSE
          <6>1. 1 .. Len(<< >>) = 1 .. 1 /\ Len(<< >>) = 0
            BY <5>2, <5>3, EmptySeq, LenProperties
          <6>2. 1 \in 1 .. 0
            BY <6>1
          <6>3. QED BY <6>2
        <5>4. QED BY <5>3
      <4>2. QED BY <2>1, <2>4, <4>1
    <3>3. Answerable(frame) <=> \E i \in DOMAIN R : dispatch_single(R[i]) # << >>
      <4>1. \A i \in DOMAIN R : R[i] \in JsonRequest
        BY <2>2
      <4>2. Due(frame) <=> R = << >> \/ \E i \in DOMAIN R : ~IsNotification(R[i])
        BY <1>2 DEF Due
      <4>3. HasFaulty(frame) <=> \E i \in DOMAIN R : Faulty(R[i])
        BY <2>1 DEF HasFaulty
      <4> HIDE DEF R
      <4>4. QED BY <3>2, <4>1, <4>2, <4>3, ReplyIff DEF Answerable
    <3> HIDE DEF R
    <3>4. QED BY <3>1, <3>3
  <2>5. QED BY <2>3, <2>4
<1>3. QED BY <1>1, <1>2

\* A call whose frame is good is refused just when it is due no answer.
LEMMA CallIsDue ==
  ASSUME protocol = "binary", NEW frame \in BinaryFrame, frame.magic, frame.meta
  PROVE  /\ binary_dispatch(frame) \in {"sync", "async", "exception"}
         /\ binary_dispatch(frame) = "exception" <=> ~Answerable(frame)
BY DEF binary_dispatch, Answerable, Due, HasFaulty, BinaryFrame

-----------------------------------------------------------------------------
(* What the buffers hold. *)

\* A function on 1 .. n is a sequence.
LEMMA FunctionIsSeq ==
  ASSUME NEW n \in Nat, NEW S, NEW f \in [1 .. n -> S]
  PROVE  f \in Seq(S) /\ Len(f) = n
BY SMT

\* A sequence over S is one over what contains S.
LEMMA Wider ==
  ASSUME NEW S, NEW T, S \subseteq T, NEW s \in Seq(S)
  PROVE  s \in Seq(T)
<1>1. Len(s) \in Nat /\ s \in [1 .. Len(s) -> S]
  BY LenProperties
<1>2. s \in [1 .. Len(s) -> T]
  BY <1>1
<1> DEFINE n == Len(s)
<1> HIDE DEF n
<1>3. n \in Nat /\ s \in [1 .. n -> T]
  BY <1>1, <1>2 DEF n
<1>4. QED BY <1>3

\* The units of a frame: one for a blank line, else two of which the second ends it.
LEMMA UnitsAre ==
  ASSUME NEW D, NEW id \in D, NEW frame
  PROVE  /\ Units(id, frame) \in Seq([id : D, last : BOOLEAN])
         /\ \/ /\ protocol = "json" /\ frame.kind = "blank" /\ Len(Units(id, frame)) = 1
               /\ Units(id, frame)[1] = [id |-> id, last |-> TRUE]
            \/ /\ ~(protocol = "json" /\ frame.kind = "blank") /\ Len(Units(id, frame)) = 2
               /\ Units(id, frame)[1] = [id |-> id, last |-> FALSE]
               /\ Units(id, frame)[2] = [id |-> id, last |-> TRUE]
<1> DEFINE R == [id : D, last : BOOLEAN]
<1>1. [id |-> id, last |-> TRUE] \in R /\ [id |-> id, last |-> FALSE] \in R
  OBVIOUS
<1> DEFINE a == [id |-> id, last |-> FALSE] z == [id |-> id, last |-> TRUE]
<1> HIDE DEF R, a, z
<1>2. a \in R /\ z \in R
  BY <1>1 DEF a, z
<1>3. <<z>> \in Seq(R) /\ Len(<<z>>) = 1 /\ <<z>>[1] = z
  BY <1>2
<1>4. <<a, z>> \in Seq(R) /\ Len(<<a, z>>) = 2 /\ <<a, z>>[1] = a /\ <<a, z>>[2] = z
  BY <1>2
<1>5. Units(id, frame) = IF protocol = "json" /\ frame.kind = "blank" THEN <<z>> ELSE <<a, z>>
  BY DEF Units, a, z
<1>6. QED BY <1>3, <1>4, <1>5 DEF R, a, z

\* The outcomes of send.
LEMMA SendIs ==
  ASSUME NEW id, send(id)
  PROVE  \/ ~open /\ UNCHANGED <<open, entry, answered>>
         \/ open /\ open' = open /\ answered' = Append(answered, id) /\ entry' = entry
         \/ open /\ open' = FALSE /\ entry' = FALSE /\ answered' = answered
BY DEF send, close_connection, connection

\* send keeps the types of what it changes.
LEMMA SendType ==
  ASSUME TypeOK, Contents, NEW id \in DOMAIN asked, send(id)
  PROVE  /\ open' \in BOOLEAN /\ entry' \in BOOLEAN /\ (open' => open)
         /\ answered' \in Seq(DOMAIN asked)
<1>1. answered \in Seq(DOMAIN asked) /\ open \in BOOLEAN /\ entry \in BOOLEAN
  BY DEF TypeOK, Contents
<1>2. Append(answered, id) \in Seq(DOMAIN asked)
  BY <1>1, AppendProperties
<1>3. QED BY <1>1, <1>2, SendIs

\* A step in which nothing is sent and nothing arrives, and what it keeps is made of units.
LEMMA SameFrames ==
  ASSUME TypeOK, Contents, UNCHANGED <<protocol, asked, sent, inbox>>,
         cache' \in Seq(SentUnit), buf' \in Seq(SentUnit),
         handled' \in Seq(DOMAIN asked), answered' \in Seq(DOMAIN asked), queued' \in Seq(DOMAIN asked),
         pc' = "waiting" => protocol = "json" /\ handled' # << >>
  PROVE  Contents'
BY DEF Contents, SentUnit

\* Every step preserves the types and what the buffers may hold.
LEMMA TypeStep == TypeOK /\ Contents /\ [Next]_vars => TypeOK' /\ Contents'
<1> SUFFICES ASSUME TypeOK, Contents, [Next]_vars PROVE TypeOK' /\ Contents'
  OBVIOUS
<1>0. /\ inbox \in Seq(SentUnit) /\ cache \in Seq(SentUnit) /\ buf \in Seq(SentUnit) /\ sent \in Seq(SentUnit)
      /\ handled \in Seq(DOMAIN asked) /\ answered \in Seq(DOMAIN asked) /\ queued \in Seq(DOMAIN asked)
      /\ Len(inbox) \in Nat /\ Len(cache) \in Nat /\ Len(buf) \in Nat /\ Len(asked) \in Nat
      /\ DOMAIN asked = 1 .. Len(asked) /\ << >> \in Seq(SentUnit)
      /\ DOMAIN cache = 1 .. Len(cache) /\ DOMAIN buf = 1 .. Len(buf)
  BY LenProperties, EmptySeq DEF Contents
<1>1. ASSUME client_sends PROVE TypeOK' /\ Contents'
  <2> DEFINE F == IF protocol = "binary" THEN BinaryFrames ELSE JsonLines
  <2>1. PICK frame \in F : /\ asked' = Append(asked, frame)
                           /\ inbox' = inbox \o Units(Len(asked) + 1, frame)
                           /\ sent' = sent \o Units(Len(asked) + 1, frame)
    BY <1>1 DEF client_sends
  <2>2. /\ open /\ Len(asked) < MaxFrames
        /\ UNCHANGED <<protocol, open, entry, answered, late, cache, buf, pc, calls, queued, handled>>
    BY <1>1 DEF client_sends, connection, services
  <2>3. asked \in Seq(F)
    BY DEF Contents
  <2> HIDE DEF F
  <2>4. asked' \in Seq(F) /\ Len(asked') = Len(asked) + 1 /\ DOMAIN asked' = 1 .. Len(asked) + 1
    BY <2>1, <2>3, AppendProperties, LenProperties
  <2>5. DOMAIN asked \subseteq DOMAIN asked' /\ Len(asked) + 1 \in DOMAIN asked'
    BY <1>0, <2>4
  <2>6. SentUnit \subseteq SentUnit'
    BY <2>5 DEF SentUnit
  <2>7. Units(Len(asked) + 1, frame) \in Seq(SentUnit')
    BY <2>5, UnitsAre DEF SentUnit
  <2>8. \A s \in Seq(SentUnit) : s \in Seq(SentUnit')
    BY <2>6, Wider
  <2>9. \A s \in Seq(DOMAIN asked) : s \in Seq(DOMAIN asked')
    BY <2>5, Wider
  <2>10. /\ inbox \o Units(Len(asked) + 1, frame) \in Seq(SentUnit')
         /\ sent \o Units(Len(asked) + 1, frame) \in Seq(SentUnit')
    <3> DEFINE U == Units(Len(asked) + 1, frame) R == SentUnit'
    <3>1. inbox \in Seq(R) /\ sent \in Seq(R) /\ U \in Seq(R)
      BY <1>0, <2>7, <2>8
    <3> HIDE DEF U, R
    <3>2. inbox \o U \in Seq(R) /\ sent \o U \in Seq(R)
      BY <3>1, ConcatProperties
    <3>3. QED BY <3>2 DEF U, R
  <2>11. /\ inbox' \in Seq(SentUnit') /\ sent' \in Seq(SentUnit')
         /\ cache' \in Seq(SentUnit') /\ buf' \in Seq(SentUnit')
         /\ handled' \in Seq(DOMAIN asked') /\ answered' \in Seq(DOMAIN asked')
         /\ queued' \in Seq(DOMAIN asked')
    BY <1>0, <2>1, <2>2, <2>8, <2>9, <2>10
  <2>12. asked' \in Seq(F') /\ (pc' = "waiting" => protocol' = "json" /\ handled' # << >>)
    BY <2>2, <2>4 DEF Contents, F
  <2>13. Contents'
    BY <2>11, <2>12 DEF Contents, F
  <2>14. Len(asked') <= MaxFrames
    BY <1>0, <2>2, <2>4, RpcAssumption
  <2>15. calls' \subseteq DOMAIN asked'
    BY <2>2, <2>5 DEF TypeOK
  <2>16. TypeOK'
    BY <2>2, <2>14, <2>15 DEF TypeOK
  <2>17. QED BY <2>13, <2>16
<1>2. ASSUME on_message PROVE TypeOK' /\ Contents'
  <2>1. PICK k \in 1 .. Len(inbox) :
          /\ inbox' = After(inbox, k)
          /\ cache' = (IF entry THEN cache ELSE << >>) \o SubSeq(inbox, 1, k)
    BY <1>2 DEF on_message
  <2>2. /\ entry' = TRUE /\ late' = FALSE /\ pc' = "loop"
        /\ buf' = IF protocol = "binary" THEN cache' ELSE << >>
        /\ UNCHANGED <<protocol, open, answered, calls, queued, asked, sent, handled>>
    BY <1>2 DEF on_message, client, services
  <2>3. k \in 0 .. Len(inbox)
    BY <1>0
  <2>4. inbox' \in Seq(SentUnit) /\ SubSeq(inbox, 1, k) \in Seq(SentUnit)
    BY <1>0, <2>1, <2>3, AfterIs, FrontIs
  <2>5. cache' \in Seq(SentUnit)
    BY <1>0, <2>1, <2>4, ConcatProperties
  <2>6. buf' \in Seq(SentUnit)
    BY <1>0, <2>2, <2>5
  <2>7. Contents'
    BY <2>2, <2>4, <2>5, <2>6 DEF Contents, SentUnit
  <2>8. TypeOK'
    BY <2>2 DEF TypeOK
  <2>9. QED BY <2>7, <2>8
<1>3. ASSUME connection_fails PROVE TypeOK' /\ Contents'
  <2>1. /\ open' = FALSE /\ entry' = FALSE /\ late' \in BOOLEAN
        /\ UNCHANGED <<answered, protocol, cache, buf, pc, inbox, calls, queued, asked, sent, handled>>
    BY <1>3 DEF connection_fails, close_connection, client, services
  <2>2. TypeOK'
    BY <2>1 DEF TypeOK
  <2>3. Contents'
    BY <2>1 DEF Contents, SentUnit
  <2>4. QED BY <2>2, <2>3
<1>4. ASSUME json_line PROVE TypeOK' /\ Contents'
  <2> DEFINE n == FirstFrame(cache) id == cache[n].id
  <2>1. /\ pc = "loop" /\ protocol = "json" /\ n > 0 /\ cache' = After(cache, n)
        /\ UNCHANGED <<protocol, late, buf, inbox, calls, queued, asked, sent>>
    BY <1>4 DEF json_line, client, services
  <2>2. \/ UNCHANGED <<open, entry, answered>> /\ pc' = pc /\ handled' = handled
        \/ /\ handled' = Append(handled, id)
           /\ \/ pc' = "waiting" /\ UNCHANGED <<open, entry, answered>>
              \/ pc' = pc /\ UNCHANGED <<open, entry, answered>>
              \/ pc' = pc /\ send(id)
    BY <1>4 DEF json_line, connection
  <2>3. n \in 0 .. Len(cache) /\ n \in DOMAIN cache
    BY <1>0, <2>1, FirstFrameIs
  <2> HIDE DEF n
  <2>4. id \in DOMAIN asked
    <3>1. cache[n] \in SentUnit
      BY <1>0, <2>3, ElementOfSeq
    <3>2. QED BY <3>1 DEF SentUnit
  <2> HIDE DEF id
  <2>5. cache' \in Seq(SentUnit)
    BY <1>0, <2>1, <2>3, AfterIs
  <2>6. Append(handled, id) \in Seq(DOMAIN asked) /\ Append(handled, id) # << >>
    <3>1. handled \in Seq(DOMAIN asked)
      BY <1>0
    <3>2. QED BY <2>4, <3>1, AppendProperties
  <2>7. open' \in BOOLEAN /\ entry' \in BOOLEAN /\ (open' => open) /\ answered' \in Seq(DOMAIN asked)
    BY <1>0, <2>2, <2>4, SendType DEF TypeOK
  <2>8. handled' \in Seq(DOMAIN asked) /\ (pc' = "waiting" => handled' # << >>) /\ pc' \in {"loop", "waiting"}
    BY <1>0, <2>1, <2>2, <2>6
  <2>9. Contents'
    BY <1>0, <2>1, <2>5, <2>7, <2>8, SameFrames
  <2>10. TypeOK'
    BY <2>1, <2>7, <2>8 DEF TypeOK
  <2>11. QED BY <2>9, <2>10
<1>5. ASSUME json_end PROVE TypeOK' /\ Contents'
  <2>1. /\ pc' = "poll"
        /\ UNCHANGED <<protocol, open, entry, answered, late, cache, buf, inbox, calls, queued, asked, sent, handled>>
    BY <1>5 DEF json_end, connection, client, services
  <2>2. TypeOK'
    BY <2>1 DEF TypeOK
  <2>3. Contents'
    BY <2>1 DEF Contents, SentUnit
  <2>4. QED BY <2>2, <2>3
<1>6. ASSUME binary_frame PROVE TypeOK' /\ Contents'
  <2> DEFINE n == FirstFrame(buf) id == buf[n].id
  <2>1. /\ pc = "loop" /\ protocol = "binary" /\ n > 0 /\ buf' = After(buf, n)
        /\ handled' = Append(handled, id)
        /\ calls' \subseteq calls \cup {id}
        /\ (send(id) \/ UNCHANGED <<open, entry, answered>>)
        /\ UNCHANGED <<protocol, late, cache, pc, inbox, queued, asked, sent>>
    BY <1>6 DEF binary_frame, client, connection
  <2>2. n \in 0 .. Len(buf) /\ n \in DOMAIN buf
    BY <1>0, <2>1, FirstFrameIs
  <2> HIDE DEF n
  <2>3. id \in DOMAIN asked
    <3>1. buf[n] \in SentUnit
      BY <1>0, <2>2, ElementOfSeq
    <3>2. QED BY <3>1 DEF SentUnit
  <2> HIDE DEF id
  <2>4. buf' \in Seq(SentUnit)
    BY <1>0, <2>1, <2>2, AfterIs
  <2>5. handled' \in Seq(DOMAIN asked)
    BY <1>0, <2>1, <2>3, AppendProperties
  <2>6. open' \in BOOLEAN /\ entry' \in BOOLEAN /\ (open' => open) /\ answered' \in Seq(DOMAIN asked)
    BY <1>0, <2>1, <2>3, SendType DEF TypeOK
  <2>7. Contents'
    BY <1>0, <2>1, <2>4, <2>5, <2>6, SameFrames
  <2>8. TypeOK'
    BY <2>1, <2>3, <2>6 DEF TypeOK
  <2>9. QED BY <2>7, <2>8
<1>7. ASSUME binary_corrupt PROVE TypeOK' /\ Contents'
  <2>1. /\ pc' = "poll" /\ open' = FALSE /\ entry' = FALSE /\ buf' = << >>
        /\ UNCHANGED <<protocol, answered, late, cache, inbox, calls, queued, asked, sent, handled>>
    BY <1>7 DEF binary_corrupt, close_connection, client, services
  <2>2. TypeOK'
    BY <2>1 DEF TypeOK
  <2>3. Contents'
    BY <1>0, <2>1 DEF Contents, SentUnit
  <2>4. QED BY <2>2, <2>3
<1>8. ASSUME binary_end PROVE TypeOK' /\ Contents'
  <2>1. /\ pc' = "poll" /\ cache' = buf /\ buf' = << >>
        /\ UNCHANGED <<protocol, open, entry, answered, late, inbox, calls, queued, asked, sent, handled>>
    BY <1>8 DEF binary_end, connection, client, services
  <2>2. TypeOK'
    BY <2>1 DEF TypeOK
  <2>3. Contents'
    BY <1>0, <2>1 DEF Contents, SentUnit
  <2>4. QED BY <2>2, <2>3
<1>9. ASSUME bridge_returns PROVE TypeOK' /\ Contents'
  <2> DEFINE id == Last(handled)
  <2>1. /\ pc = "waiting" /\ pc' = "loop" /\ (send(id) \/ UNCHANGED <<open, entry, answered>>)
        /\ UNCHANGED <<protocol, late, cache, buf, inbox, calls, queued, asked, sent, handled>>
    BY <1>9 DEF bridge_returns, client, connection, services
  <2>2. Len(handled) \in 1 .. Len(handled)
    BY <1>0, <2>1, LenProperties, EmptySeq DEF Contents
  <2>3. id \in DOMAIN asked
    BY <1>0, <2>2, ElementOfSeq DEF Last
  <2> HIDE DEF id
  <2>4. open' \in BOOLEAN /\ entry' \in BOOLEAN /\ (open' => open) /\ answered' \in Seq(DOMAIN asked)
    BY <1>0, <2>1, <2>3, SendType DEF TypeOK
  <2>5. Contents'
    BY <1>0, <2>1, <2>4, SameFrames
  <2>6. TypeOK'
    BY <2>1, <2>4 DEF TypeOK
  <2>7. QED BY <2>5, <2>6
<1>10. ASSUME service_done PROVE TypeOK' /\ Contents'
  <2>1. PICK id \in calls : calls' = calls \ {id} /\ queued' = Append(queued, id)
    BY <1>10 DEF service_done
  <2>2. UNCHANGED <<protocol, open, entry, answered, late, cache, buf, pc, inbox, asked, sent, handled>>
    BY <1>10 DEF service_done, client, connection
  <2>3. id \in DOMAIN asked /\ protocol # "json"
    BY DEF TypeOK
  <2>4. queued' \in Seq(DOMAIN asked)
    BY <1>0, <2>1, <2>3, AppendProperties
  <2>5. Contents'
    BY <1>0, <2>2, <2>4, SameFrames DEF Contents
  <2>6. TypeOK'
    BY <2>1, <2>2, <2>3 DEF TypeOK
  <2>7. QED BY <2>5, <2>6
<1>11. ASSUME run_queued_send PROVE TypeOK' /\ Contents'
  <2>1. /\ pc = "poll" /\ queued # << >> /\ send(Head(queued)) /\ queued' = Tail(queued)
        /\ UNCHANGED <<protocol, late, cache, buf, pc, inbox, calls, asked, sent, handled>>
    BY <1>11 DEF run_queued_send, client
  <2>2. Head(queued) \in DOMAIN asked /\ queued' \in Seq(DOMAIN asked)
    BY <1>0, <2>1, HeadTailProperties
  <2>3. protocol # "json"
    BY <2>1 DEF TypeOK
  <2>4. open' \in BOOLEAN /\ entry' \in BOOLEAN /\ (open' => open) /\ answered' \in Seq(DOMAIN asked)
    BY <2>1, <2>2, SendType
  <2>5. Contents'
    BY <1>0, <2>1, <2>2, <2>4, SameFrames
  <2>6. TypeOK'
    BY <2>1, <2>3, <2>4 DEF TypeOK
  <2>7. QED BY <2>5, <2>6
<1>12. ASSUME UNCHANGED vars PROVE TypeOK' /\ Contents'
  BY <1>12 DEF vars, connection, client, services, TypeOK, Contents, SentUnit
<1>13. QED BY <1>1, <1>2, <1>3, <1>4, <1>5, <1>6, <1>7, <1>8, <1>9, <1>10, <1>11, <1>12 DEF Next, loop

-----------------------------------------------------------------------------
(* The units of the frames. *)

\* Of the actions only client_sends has the client send.
LEMMA SameClient ==
  ASSUME [Next]_vars, ~client_sends
  PROVE  UNCHANGED <<protocol, asked, sent>>
BY DEF Next, loop, on_message, connection_fails, json_line, json_end, binary_frame, binary_corrupt, binary_end,
       bridge_returns, service_done, run_queued_send, vars, client

\* The sequences of the state, and what is kept, have lengths and are made of units.
LEMMA Lens ==
  ASSUME Contents
  PROVE  /\ Len(sent) \in Nat /\ Len(inbox) \in Nat /\ Len(asked) \in Nat
         /\ DOMAIN sent = 1 .. Len(sent) /\ DOMAIN inbox = 1 .. Len(inbox) /\ DOMAIN asked = 1 .. Len(asked)
         /\ \A k \in DOMAIN sent : sent[k].id \in DOMAIN asked /\ sent[k].last \in BOOLEAN
         /\ Kept \in Seq(SentUnit) /\ Len(Kept) \in Nat /\ DOMAIN Kept = 1 .. Len(Kept)
         /\ DOMAIN handled = 1 .. Len(handled) /\ Len(handled) \in Nat
         /\ \A k \in DOMAIN handled : handled[k] \in DOMAIN asked
         /\ DOMAIN answered = 1 .. Len(answered) /\ Len(answered) \in Nat
         /\ \A k \in DOMAIN answered : answered[k] \in DOMAIN asked
<1>1. /\ Len(sent) \in Nat /\ Len(inbox) \in Nat /\ Len(asked) \in Nat
      /\ DOMAIN sent = 1 .. Len(sent) /\ DOMAIN inbox = 1 .. Len(inbox) /\ DOMAIN asked = 1 .. Len(asked)
      /\ DOMAIN handled = 1 .. Len(handled) /\ Len(handled) \in Nat
      /\ DOMAIN answered = 1 .. Len(answered) /\ Len(answered) \in Nat
  BY LenProperties DEF Contents
<1>2. \A k \in 1 .. Len(sent) : sent[k] \in SentUnit
  BY ElementOfSeq DEF Contents
<1>3. Kept \in Seq(SentUnit)
  BY EmptySeq DEF Contents, Kept
<1>4. Len(Kept) \in Nat /\ DOMAIN Kept = 1 .. Len(Kept)
  BY <1>3, LenProperties
<1>5. \A k \in 1 .. Len(handled) : handled[k] \in DOMAIN asked
  BY ElementOfSeq DEF Contents
<1>6. \A k \in 1 .. Len(answered) : answered[k] \in DOMAIN asked
  BY ElementOfSeq DEF Contents
<1>7. \A k \in DOMAIN sent : sent[k].id \in DOMAIN asked /\ sent[k].last \in BOOLEAN
  BY <1>1, <1>2 DEF SentUnit
<1>8. QED BY <1>1, <1>3, <1>4, <1>5, <1>6, <1>7

\* What the client sends comes behind what it sent.
LEMMA Growth ==
  ASSUME TypeOK, Contents, client_sends
  PROVE  \E w \in {1, 2} :
           /\ Len(sent') = Len(sent) + w /\ Len(inbox') = Len(inbox) + w
           /\ DOMAIN sent' = 1 .. Len(sent) + w /\ DOMAIN inbox' = 1 .. Len(inbox) + w
           /\ \A k \in 1 .. Len(sent) : sent'[k] = sent[k]
           /\ \A k \in 1 .. Len(inbox) : inbox'[k] = inbox[k]
           /\ \A k \in 1 .. w : inbox'[Len(inbox) + k] = sent'[Len(sent) + k]
           /\ \A k \in 1 .. w : sent'[Len(sent) + k].id = Len(asked) + 1 /\ (sent'[Len(sent) + k].last <=> k = w)
           /\ Len(asked') = Len(asked) + 1 /\ DOMAIN asked' = 1 .. Len(asked) + 1
           /\ \A i \in 1 .. Len(asked) : asked'[i] = asked[i]
           /\ protocol' = protocol
           /\ protocol = "json" /\ asked'[Len(asked) + 1].kind = "blank" <=> w = 1
<1> DEFINE F == IF protocol = "binary" THEN BinaryFrames ELSE JsonLines
<1>1. PICK frame \in F : /\ asked' = Append(asked, frame)
                         /\ inbox' = inbox \o Units(Len(asked) + 1, frame)
                         /\ sent' = sent \o Units(Len(asked) + 1, frame)
  BY DEF client_sends
<1>2. asked \in Seq(F) /\ sent \in Seq(SentUnit) /\ inbox \in Seq(SentUnit) /\ protocol' = protocol
  BY DEF Contents, client_sends
<1> HIDE DEF F
<1>3. /\ Len(asked') = Len(asked) + 1 /\ DOMAIN asked' = 1 .. Len(asked') /\ asked'[Len(asked) + 1] = frame
      /\ \A i \in 1 .. Len(asked) : asked'[i] = asked[i]
  BY <1>1, <1>2, AppendProperties, LenProperties
<1> DEFINE id == Len(asked) + 1 D == 1 .. id U == Units(id, frame) R == [id : D, last : BOOLEAN]
<1>4. Len(asked) \in Nat /\ DOMAIN asked = 1 .. Len(asked) /\ Len(sent) \in Nat /\ Len(inbox) \in Nat
  BY Lens
<1>5. id \in D /\ DOMAIN asked \subseteq D
  BY <1>4
<1>6. /\ U \in Seq(R)
      /\ \/ /\ protocol = "json" /\ frame.kind = "blank" /\ Len(U) = 1
            /\ U[1] = [id |-> id, last |-> TRUE]
         \/ /\ ~(protocol = "json" /\ frame.kind = "blank") /\ Len(U) = 2
            /\ U[1] = [id |-> id, last |-> FALSE] /\ U[2] = [id |-> id, last |-> TRUE]
  BY <1>5, UnitsAre
<1>7. SentUnit \subseteq R
  BY <1>5 DEF SentUnit
<1>8. sent \in Seq(R) /\ inbox \in Seq(R)
  BY <1>2, <1>7, Wider
<1> DEFINE w == Len(U)
<1>9. protocol = "json" /\ asked'[id].kind = "blank" <=> w = 1
  BY <1>3, <1>6
<1>10. w \in {1, 2} /\ \A k \in 1 .. w : U[k].id = id /\ (U[k].last <=> k = w)
  <2> HIDE DEF U
  <2>1. CASE Len(U) = 1
    <3>1. U[1].id = id /\ U[1].last = TRUE
      BY <1>6, <2>1
    <3>2. QED BY <2>1, <3>1
  <2>2. CASE Len(U) = 2
    <3>1. U[1].id = id /\ U[1].last = FALSE /\ U[2].id = id /\ U[2].last = TRUE
      BY <1>6, <2>2
    <3>2. QED BY <2>2, <3>1
  <2>3. QED BY <1>6, <2>1, <2>2
<1> HIDE DEF U, R, D, w
<1>11. sent' = sent \o U /\ inbox' = inbox \o U
  BY <1>1 DEF U
<1> HIDE DEF id
<1>12. /\ Len(sent \o U) = Len(sent) + w /\ Len(inbox \o U) = Len(inbox) + w
       /\ sent \o U \in Seq(R) /\ inbox \o U \in Seq(R)
       /\ \A i \in 1 .. Len(sent) + w : (sent \o U)[i] = IF i <= Len(sent) THEN sent[i] ELSE U[i - Len(sent)]
       /\ \A i \in 1 .. Len(inbox) + w : (inbox \o U)[i] = IF i <= Len(inbox) THEN inbox[i] ELSE U[i - Len(inbox)]
  <2>1. U \in Seq(R)
    BY <1>6 DEF U
  <2>2. QED BY <1>8, <2>1, ConcatProperties DEF w
<1>13. /\ Len(sent') = Len(sent) + w /\ Len(inbox') = Len(inbox) + w
       /\ DOMAIN sent' = 1 .. Len(sent) + w /\ DOMAIN inbox' = 1 .. Len(inbox) + w
  BY <1>11, <1>12, LenProperties
<1>14. /\ \A k \in 1 .. Len(sent) : sent'[k] = sent[k]
       /\ \A k \in 1 .. Len(inbox) : inbox'[k] = inbox[k]
  <2>1. w \in Nat
    BY <1>10
  <2>2. QED BY <1>4, <1>11, <1>12, <2>1
<1>15. \A k \in 1 .. w : inbox'[Len(inbox) + k] = U[k] /\ sent'[Len(sent) + k] = U[k]
  <2>1. ASSUME NEW k \in 1 .. w PROVE inbox'[Len(inbox) + k] = U[k] /\ sent'[Len(sent) + k] = U[k]
    <3>1. k \in Nat /\ k > 0 /\ k <= w /\ w \in Nat
      BY <1>10
    <3>2. Len(inbox) + k \in 1 .. Len(inbox) + w /\ ~(Len(inbox) + k <= Len(inbox)) /\ (Len(inbox) + k) - Len(inbox) = k
      BY <1>4, <3>1
    <3>3. Len(sent) + k \in 1 .. Len(sent) + w /\ ~(Len(sent) + k <= Len(sent)) /\ (Len(sent) + k) - Len(sent) = k
      BY <1>4, <3>1
    <3>4. QED BY <1>11, <1>12, <3>2, <3>3
  <2>2. QED BY <2>1
<1>16. \A k \in 1 .. w :
          /\ inbox'[Len(inbox) + k] = sent'[Len(sent) + k]
          /\ sent'[Len(sent) + k].id = id /\ (sent'[Len(sent) + k].last <=> k = w)
  BY <1>10, <1>15
<1>17. w \in {1, 2}
  BY <1>10
<1>18. QED BY <1>2, <1>3, <1>9, <1>13, <1>14, <1>16, <1>17 DEF id

\* The units sent keep the shape of frames: only client_sends adds to them.
LEMMA FramedStep == TypeOK /\ Contents /\ Framed /\ [Next]_vars => Framed'
<1> SUFFICES ASSUME TypeOK, Contents, Framed, [Next]_vars PROVE Framed'
  OBVIOUS
<1>1. CASE ~client_sends
  BY <1>1, SameClient DEF Framed, Blanks
<1>2. CASE client_sends
  <2> DEFINE L == Len(sent) N == Len(asked) + 1 B(i) == protocol = "json" /\ asked'[i].kind = "blank"
  <2>1. PICK w \in {1, 2} :
           /\ DOMAIN sent' = 1 .. L + w
           /\ \A k \in 1 .. L : sent'[k] = sent[k]
           /\ \A k \in 1 .. w : sent'[L + k].id = N /\ (sent'[L + k].last <=> k = w)
           /\ \A i \in 1 .. Len(asked) : asked'[i] = asked[i]
           /\ Len(sent') = L + w /\ DOMAIN asked' = 1 .. N /\ protocol' = protocol /\ (B(N) <=> w = 1)
    BY <1>2, Growth
  <2>2. /\ L \in Nat /\ N \in Nat /\ DOMAIN sent = 1 .. L /\ DOMAIN asked = 1 .. Len(asked) /\ Len(asked) \in Nat
        /\ \A k \in 1 .. L : sent[k].id \in 1 .. Len(asked) /\ sent[k].last \in BOOLEAN
    BY Lens
  <2>3. \A k \in 1 .. L : sent'[k].id < N /\ (B(sent[k].id) <=> sent[k].id \in Blanks)
    BY <2>1, <2>2 DEF Blanks
  <2>5. /\ \A k \in 1 .. L : ~sent[k].last => k < L /\ sent[k + 1].last /\ sent[k + 1].id = sent[k].id
        /\ \A j, k \in 1 .. L : j < k /\ sent[j].last => sent[j].id < sent[k].id
        /\ \A k \in 1 .. L : k = 1 \/ sent[k - 1].last => (sent[k].last <=> sent[k].id \in Blanks)
    BY <2>2 DEF Framed
  <2> DEFINE s == sent'
  <2>6. DOMAIN s = 1 .. L + w /\ Len(s) = L + w /\ w \in Nat /\ \A k \in 1 .. L : s[k] = sent[k]
    BY <2>1
  <2>7. \A k \in 1 .. L : s[k].id < N /\ (B(s[k].id) <=> sent[k].id \in Blanks)
    BY <2>3, <2>6
  <2>8. \A k \in 1 .. w : s[L + k].id = N /\ (s[L + k].last <=> k = w)
    BY <2>1
  <2> HIDE DEF s, L, N, B
  <2>9. \A k \in 1 .. L + w : k \in 1 .. L \/ \E d \in 1 .. w : k = L + d
    <3>1. ASSUME NEW k \in 1 .. L + w, k \notin 1 .. L PROVE \E d \in 1 .. w : k = L + d
      <4>1. k - L \in 1 .. w /\ k = L + (k - L)
        BY <2>2, <2>6, <3>1
      <4>2. QED BY <4>1
    <3>2. QED BY <3>1
  <2>10. ASSUME NEW k \in 1 .. L + w, ~s[k].last PROVE k < L + w /\ s[k + 1].last /\ s[k + 1].id = s[k].id
    <3>1. CASE k \in 1 .. L
      <4>1. k < L /\ sent[k + 1].last /\ sent[k + 1].id = sent[k].id /\ k + 1 \in 1 .. L
        BY <2>2, <2>5, <2>6, <2>10, <3>1
      <4>2. QED BY <2>2, <2>6, <3>1, <4>1
    <3>2. CASE k \notin 1 .. L
      <4>1. PICK d \in 1 .. w : k = L + d
        BY <2>9, <3>2
      <4>2. d = 1 /\ w = 2
        BY <2>1, <2>8, <2>10, <4>1
      <4>3. k + 1 = L + 2
        BY <2>2, <4>1, <4>2
      <4>4. s[L + 2].last /\ s[L + 2].id = N /\ s[L + 1].id = N
        BY <2>8, <4>2
      <4>5. QED BY <2>2, <4>1, <4>2, <4>3, <4>4
    <3>3. QED BY <3>1, <3>2
  <2>11. ASSUME NEW j \in 1 .. L + w, NEW k \in 1 .. L + w, j < k, s[j].last PROVE s[j].id < s[k].id
    <3>1. CASE k \in 1 .. L
      <4>1. j \in 1 .. L
        BY <2>2, <2>11, <3>1
      <4>2. QED BY <2>5, <2>6, <2>11, <3>1, <4>1
    <3>2. CASE k \notin 1 .. L
      <4>1. PICK d \in 1 .. w : k = L + d
        BY <2>9, <3>2
      <4>2. s[k].id = N
        BY <2>8, <4>1
      <4>3. CASE j \in 1 .. L
        BY <2>7, <4>2, <4>3
      <4>4. CASE j \notin 1 .. L
        <5>1. PICK e \in 1 .. w : j = L + e
          BY <2>9, <4>4
        <5>2. e = w
          BY <2>8, <2>11, <5>1
        <5>3. QED BY <2>2, <2>6, <2>11, <4>1, <5>1, <5>2
      <4>5. QED BY <4>3, <4>4
    <3>3. QED BY <3>1, <3>2
  <2>12. ASSUME NEW k \in 1 .. L + w, k = 1 \/ s[k - 1].last PROVE s[k].last <=> B(s[k].id)
    <3>1. CASE k \in 1 .. L
      <4>1. k = 1 \/ k - 1 \in 1 .. L
        BY <2>2, <3>1
      <4>2. k = 1 \/ sent[k - 1].last
        BY <2>6, <2>12, <4>1
      <4>3. sent[k].last <=> sent[k].id \in Blanks
        BY <2>5, <3>1, <4>2
      <4>4. QED BY <2>6, <2>7, <3>1, <4>3
    <3>2. CASE k \notin 1 .. L
      <4>1. PICK d \in 1 .. w : k = L + d
        BY <2>9, <3>2
      <4>2. s[k].id = N /\ (s[k].last <=> d = w)
        BY <2>8, <4>1
      <4>3. CASE d = 1
        BY <2>1, <4>2, <4>3
      <4>4. CASE d # 1
        <5>1. d = 2 /\ w = 2 /\ k - 1 = L + 1 /\ k # 1
          BY <2>1, <2>2, <4>1, <4>4
        <5>2. ~s[L + 1].last
          BY <2>8, <5>1
        <5>3. QED BY <2>12, <5>1, <5>2
      <4>5. QED BY <4>3, <4>4
    <3>3. QED BY <3>1, <3>2
  <2>13. /\ \A k \in DOMAIN s : ~s[k].last => k < Len(s) /\ s[k + 1].last /\ s[k + 1].id = s[k].id
         /\ \A j, k \in DOMAIN s : j < k /\ s[j].last => s[j].id < s[k].id
         /\ \A k \in DOMAIN s : k = 1 \/ s[k - 1].last => (s[k].last <=> B(s[k].id))
    BY <2>6, <2>10, <2>11, <2>12
  <2>14. \A k \in DOMAIN s : s[k].id \in 1 .. N
    <3>1. ASSUME NEW k \in 1 .. L PROVE s[k].id \in 1 .. N
      <4>1. s[k].id \in 1 .. Len(asked)
        BY <2>2, <2>6, <3>1
      <4>2. QED BY <2>2, <4>1 DEF N
    <3>2. N \in 1 .. N
      BY <2>2 DEF N
    <3>3. ASSUME NEW d \in 1 .. w PROVE s[L + d].id \in 1 .. N
      BY <2>8, <3>2, <3>3
    <3>4. QED BY <2>6, <2>9, <3>1, <3>3
  <2>15. \A k \in DOMAIN s : B(s[k].id) <=> s[k].id \in Blanks'
    BY <2>1, <2>14 DEF Blanks, B, N
  <2>16. QED BY <2>13, <2>15 DEF Framed, s
<1>3. QED BY <1>1, <1>2

-----------------------------------------------------------------------------
(* What is kept, dispatched and answered on an open connection. *)

\* The frames cut off depend on the units cut off alone.
LEMMA SameEnded ==
  ASSUME Contents, Consumed' = Consumed, Consumed <= Len(sent), Consumed \in Nat,
         \A k \in 1 .. Consumed : sent'[k] = sent[k]
  PROVE  Ended' = Ended
BY DEF Ended

\* What is blank and what is due depends on the frames sent alone.
LEMMA SameSets ==
  ASSUME UNCHANGED <<protocol, asked, sent>>
  PROVE  Blanks' = Blanks /\ Owed' = Owed /\ SentUnit' = SentUnit
BY DEF Blanks, Owed, Answerable, Due, HasFaulty, SentUnit

\* A longer list of frames leaves the earlier ones what they were.
LEMMA MoreFrames ==
  ASSUME Contents, protocol' = protocol, DOMAIN asked' = 1 .. Len(asked) + 1,
         \A i \in 1 .. Len(asked) : asked'[i] = asked[i]
  PROVE  \A i \in DOMAIN asked : (i \in Blanks' <=> i \in Blanks) /\ (i \in Owed' <=> i \in Owed)
<1>1. DOMAIN asked = 1 .. Len(asked) /\ Len(asked) \in Nat
  BY Lens
<1>2. DOMAIN asked \subseteq DOMAIN asked'
  BY <1>1
<1>3. ASSUME NEW i \in DOMAIN asked PROVE i \in Blanks' <=> i \in Blanks
  BY <1>1, <1>2, <1>3 DEF Blanks
<1>4. ASSUME NEW i \in DOMAIN asked PROVE i \in Owed' <=> i \in Owed
  <2>1. i \in DOMAIN asked' /\ asked'[i] = asked[i]
    BY <1>1, <1>2
  <2>2. i \in Owed' <=> Answerable(asked[i])
    BY <2>1 DEF Owed, Answerable, Due, HasFaulty
  <2>3. QED BY <2>2 DEF Owed
<1>5. QED BY <1>3, <1>4

\* Answers that do not change still match when frames are added.
LEMMA SameAnswered ==
  ASSUME Contents, Answered, UNCHANGED <<protocol, calls, queued, handled, answered>>,
         pc' = "waiting" <=> pc = "waiting",
         \A i \in DOMAIN asked : (i \in Blanks' <=> i \in Blanks) /\ (i \in Owed' <=> i \in Owed)
  PROVE  Answered'
<1>1. ToSet(handled) \subseteq DOMAIN asked
  BY Lens DEF ToSet
<1>2. ToSet(handled') = ToSet(handled) /\ ToSet(answered') = ToSet(answered) /\ ToSet(queued') = ToSet(queued)
  BY DEF ToSet
<1>3. ToSet(handled) \cap Owed' = ToSet(handled) \cap Owed
  BY <1>1
<1>4. (ToSet(handled) \ {Last(handled)}) \cap Owed' = (ToSet(handled) \ {Last(handled)}) \cap Owed
  BY <1>1
<1>5. pc = "waiting" => Last(handled) \in DOMAIN asked
  <2>1. ASSUME pc = "waiting" PROVE Len(handled) \in DOMAIN handled
    BY <2>1, Lens, EmptySeq DEF Contents
  <2>2. QED BY <2>1, Lens DEF Last
<1>6. pc = "waiting" /\ Last(handled) \notin Blanks => Last(handled) \notin Blanks'
  BY <1>5
<1>7. /\ Last(handled') = Last(handled) /\ (Ascending(answered') <=> Ascending(answered))
      /\ (IsInjective(answered') <=> IsInjective(answered)) /\ (IsInjective(queued') <=> IsInjective(queued))
  OBVIOUS
<1> DEFINE H == ToSet(handled) A == ToSet(answered) z == Last(handled)
<1>8. CASE protocol = "json"
  BY <1>2, <1>3, <1>4, <1>6, <1>7, <1>8 DEF Answered
<1>9. CASE protocol # "json"
  BY <1>2, <1>3, <1>7, <1>9 DEF Answered
<1>10. QED BY <1>8, <1>9

\* client_sends adds behind what is kept and not received.
LEMMA ClientSendsGood ==
  ASSUME TypeOK, Contents, Framed, Sound, client_sends
  PROVE  Sound'
<1> DEFINE L == Len(sent) I == Len(inbox) c == Consumed K == Len(Kept)
<1>1. PICK w \in {1, 2} :
           /\ Len(sent') = L + w /\ Len(inbox') = I + w
           /\ DOMAIN sent' = 1 .. L + w /\ DOMAIN inbox' = 1 .. I + w
           /\ \A k \in 1 .. L : sent'[k] = sent[k]
           /\ \A k \in 1 .. I : inbox'[k] = inbox[k]
           /\ \A k \in 1 .. w : inbox'[I + k] = sent'[L + k]
           /\ DOMAIN asked' = 1 .. Len(asked) + 1 /\ \A i \in 1 .. Len(asked) : asked'[i] = asked[i]
  BY Growth
<1>2. UNCHANGED <<protocol, open, entry, answered, late, cache, buf, pc, calls, queued, handled>>
  BY DEF client_sends, connection, services
<1>3. Kept' = Kept
  BY <1>2 DEF Kept
<1>4. L \in Nat /\ I \in Nat /\ K \in Nat /\ DOMAIN Kept = 1 .. K /\ DOMAIN inbox = 1 .. I /\ DOMAIN sent = 1 .. L
  BY Lens
<1>5. c = L - K - I /\ Consumed' = (L + w) - K - (I + w)
  BY <1>1, <1>3 DEF Consumed
<1>6. /\ 0 <= c /\ (c = 0 \/ sent[c].last)
      /\ \A k \in 1 .. K : Kept[k] = sent[c + k]
      /\ \A k \in 1 .. I : inbox[k] = sent[(L - I) + k]
      /\ pc = "poll" => \A k \in DOMAIN Kept : ~Kept[k].last
      /\ pc # "poll" => entry
  BY <1>4 DEF Sound, Placed
<1>7. c \in Nat /\ c <= L /\ c + K <= L /\ Consumed' = c /\ w \in Nat
  <2>1. w \in Nat
    BY <1>1
  <2> HIDE DEF c, L, K, I
  <2>2. QED BY <1>4, <1>5, <1>6, <2>1
<1> HIDE DEF c, L, K, I
<1>8. c = 0 \/ sent'[c].last
  BY <1>1, <1>6, <1>7
<1>9. \A k \in 1 .. K : Kept[k] = sent'[c + k]
  BY <1>1, <1>4, <1>6, <1>7
<1>10. ASSUME NEW k \in 1 .. I + w PROVE inbox'[k] = sent'[(L - I) + k]
  <2>1. CASE k \in 1 .. I
    <3>1. (L - I) + k \in 1 .. L
      BY <1>4, <1>5, <1>6, <2>1
    <3>2. QED BY <1>1, <1>6, <2>1, <3>1
  <2>2. CASE k \notin 1 .. I
    <3>1. k - I \in 1 .. w /\ k = I + (k - I) /\ (L - I) + k = L + (k - I)
      BY <1>4, <1>7, <2>2
    <3>2. QED BY <1>1, <3>1
  <2>3. QED BY <2>1, <2>2
<1>11. (L + w) - (I + w) = L - I
  BY <1>4, <1>7
<1>12. Placed'
  <2>1. 0 <= Consumed' /\ (Consumed' = 0 \/ sent'[Consumed'].last)
    BY <1>7, <1>8
  <2>2. \A k \in DOMAIN Kept' : Kept'[k] = sent'[Consumed' + k]
    BY <1>3, <1>4, <1>7, <1>9
  <2>3. \A k \in DOMAIN inbox' : inbox'[k] = sent'[Len(sent') - Len(inbox') + k]
    BY <1>1, <1>10, <1>11
  <2>4. (pc' = "poll" => \A k \in DOMAIN Kept' : ~Kept'[k].last) /\ (pc' # "poll" => entry')
    BY <1>2, <1>3, <1>6
  <2>5. QED BY <2>1, <2>2, <2>3, <2>4 DEF Placed
<1>13. \A i \in DOMAIN asked : (i \in Blanks' <=> i \in Blanks) /\ (i \in Owed' <=> i \in Owed)
  BY <1>1, <1>2, MoreFrames
<1>14. Ended' = Ended /\ Ended \subseteq DOMAIN asked
  <2>1. Consumed' = Consumed /\ Consumed \in Nat /\ Consumed <= Len(sent) /\ \A k \in 1 .. Consumed : sent'[k] = sent[k]
    BY <1>1, <1>4, <1>7 DEF c, L
  <2>2. Ended \subseteq DOMAIN asked
    BY <2>1, Lens DEF Ended
  <2>3. QED BY <2>1, <2>2, SameEnded
<1>15. Dispatched'
  <2>1. Ended' \ Blanks' = Ended \ Blanks
    BY <1>13, <1>14
  <2>2. ToSet(handled') = ToSet(handled) /\ (Ascending(handled') <=> Ascending(handled))
    BY <1>2
  <2>3. QED BY <2>1, <2>2 DEF Sound, Dispatched
<1>16. Answered'
  BY <1>2, <1>13, SameAnswered DEF Sound
<1>17. QED BY <1>12, <1>15, <1>16 DEF Sound

\* A step that only moves units within the buffers, or only where on_message stands.
LEMMA QuietGood ==
  ASSUME Contents, Sound, UNCHANGED <<protocol, asked, sent, calls, queued, handled, answered>>,
         Consumed' = Consumed, pc' = "waiting" <=> pc = "waiting"
  PROVE  Dispatched' /\ Answered'
<1>1. Ended' = Ended
  BY DEF Ended
<1>2. Blanks' = Blanks /\ Owed' = Owed
  BY SameSets
<1>3. Dispatched'
  <2>1. ToSet(handled') = ToSet(handled) /\ (Ascending(handled') <=> Ascending(handled))
    OBVIOUS
  <2>2. QED BY <1>1, <1>2, <2>1 DEF Sound, Dispatched
<1>4. Answered'
  BY <1>2, SameAnswered DEF Sound
<1>5. QED BY <1>3, <1>4

\* on_message moves units from the inbox behind what was kept.
LEMMA OnMessageGood ==
  ASSUME TypeOK, Contents, Sound, on_message
  PROVE  Sound'
<1> DEFINE L == Len(sent) I == Len(inbox) c == Consumed K == Len(Kept)
<1>1. PICK k \in 1 .. I : inbox' = After(inbox, k) /\ cache' = (IF entry THEN cache ELSE << >>) \o SubSeq(inbox, 1, k)
  BY DEF on_message
<1>2. /\ pc = "poll" /\ entry' = TRUE /\ pc' = "loop"
      /\ buf' = IF protocol = "binary" THEN cache' ELSE << >>
      /\ UNCHANGED <<protocol, open, answered, calls, queued, asked, sent, handled>>
  BY DEF on_message, client, services
<1>3. Kept' = Kept \o SubSeq(inbox, 1, k)
  BY <1>1, <1>2 DEF Kept
<1>4. L \in Nat /\ I \in Nat /\ K \in Nat /\ DOMAIN Kept = 1 .. K /\ DOMAIN inbox = 1 .. I /\ DOMAIN sent = 1 .. L
      /\ Kept \in Seq(SentUnit) /\ inbox \in Seq(SentUnit)
  BY Lens DEF Contents
<1>5. k \in 0 .. I /\ k \in Nat
  BY <1>4
<1>6. /\ Len(inbox') = I - k /\ DOMAIN inbox' = 1 .. I - k
      /\ \A i \in 1 .. I - k : inbox'[i] = inbox[k + i]
  BY <1>1, <1>4, <1>5, AfterIs
<1>7. /\ SubSeq(inbox, 1, k) \in Seq(SentUnit) /\ Len(SubSeq(inbox, 1, k)) = k
      /\ \A i \in 1 .. k : SubSeq(inbox, 1, k)[i] = inbox[i]
  BY <1>4, <1>5, FrontIs
<1>8. /\ Len(Kept') = K + k /\ DOMAIN Kept' = 1 .. K + k
      /\ \A i \in 1 .. K + k : Kept'[i] = IF i <= K THEN Kept[i] ELSE inbox[i - K]
  <2> DEFINE f == SubSeq(inbox, 1, k)
  <2>1. f \in Seq(SentUnit) /\ Len(f) = k /\ \A i \in 1 .. k : f[i] = inbox[i]
    BY <1>7
  <2> HIDE DEF f
  <2>2. /\ Kept \o f \in Seq(SentUnit) /\ Len(Kept \o f) = K + k
        /\ \A i \in 1 .. K + k : (Kept \o f)[i] = IF i <= K THEN Kept[i] ELSE f[i - K]
    BY <1>4, <2>1, ConcatProperties
  <2>3. Kept' = Kept \o f
    BY <1>3 DEF f
  <2>4. DOMAIN (Kept \o f) = 1 .. K + k
    BY <2>2, LenProperties
  <2>5. ASSUME NEW i \in 1 .. K + k PROVE Kept'[i] = IF i <= K THEN Kept[i] ELSE inbox[i - K]
    <3>1. CASE i <= K
      BY <2>2, <2>3, <3>1
    <3>2. CASE ~(i <= K)
      <4>1. i - K \in 1 .. k
        BY <1>4, <1>5, <3>2
      <4>2. QED BY <2>1, <2>2, <2>3, <3>2, <4>1
    <3>3. QED BY <3>1, <3>2
  <2>6. QED BY <2>2, <2>3, <2>4, <2>5
<1>9. c = L - K - I /\ Consumed' = L - (K + k) - (I - k)
  BY <1>2, <1>6, <1>8 DEF Consumed
<1>10. /\ 0 <= c /\ (c = 0 \/ sent[c].last)
       /\ \A i \in 1 .. K : Kept[i] = sent[c + i]
       /\ \A i \in 1 .. I : inbox[i] = sent[(L - I) + i]
  BY <1>4 DEF Sound, Placed
<1> HIDE DEF c, L, K, I
<1>11. Consumed' = c
  BY <1>4, <1>5, <1>9
<1>12. ASSUME NEW i \in 1 .. K + k PROVE Kept'[i] = sent[c + i]
  <2>1. CASE i <= K
    BY <1>4, <1>5, <1>8, <1>10, <2>1
  <2>2. CASE ~(i <= K)
    <3>1. i - K \in 1 .. I /\ (L - I) + (i - K) = c + i
      BY <1>4, <1>5, <1>9, <2>2
    <3>2. QED BY <1>8, <1>10, <2>2, <3>1
  <2>3. QED BY <2>1, <2>2
<1>13. ASSUME NEW i \in 1 .. I - k PROVE inbox'[i] = sent[(L - (I - k)) + i]
  <2>1. k + i \in 1 .. I /\ (L - I) + (k + i) = (L - (I - k)) + i
    BY <1>4, <1>5
  <2>2. QED BY <1>6, <1>10, <2>1
<1>14. Placed'
  <2>1. 0 <= Consumed' /\ (Consumed' = 0 \/ sent'[Consumed'].last)
    BY <1>2, <1>10, <1>11
  <2>2. \A i \in DOMAIN Kept' : Kept'[i] = sent'[Consumed' + i]
    BY <1>2, <1>8, <1>11, <1>12
  <2>3. \A i \in DOMAIN inbox' : inbox'[i] = sent'[Len(sent') - Len(inbox') + i]
    BY <1>2, <1>6, <1>13 DEF L
  <2>4. pc' # "poll" /\ entry'
    BY <1>2
  <2>5. QED BY <2>1, <2>2, <2>3, <2>4 DEF Placed
<1>15. Dispatched' /\ Answered'
  BY <1>2, <1>11, QuietGood DEF c
<1>16. QED BY <1>14, <1>15 DEF Sound

\* on_message returns: what is left holds no whole frame.
LEMMA EndGood ==
  ASSUME TypeOK, Contents, Sound, pc = "loop", pc' = "poll", FirstFrame(Kept) = 0, Kept' = Kept,
         UNCHANGED <<protocol, inbox, asked, sent, calls, queued, handled, answered>>
  PROVE  Sound'
<1>1. \A k \in DOMAIN Kept : ~Kept[k].last
  BY Lens, FirstFrameIs
<1>2. Consumed' = Consumed
  BY DEF Consumed
<1>3. Placed'
  <2>1. 0 <= Consumed' /\ (Consumed' = 0 \/ sent'[Consumed'].last)
    BY <1>2 DEF Sound, Placed
  <2>2. /\ \A k \in DOMAIN Kept' : Kept'[k] = sent'[Consumed' + k]
        /\ \A k \in DOMAIN inbox' : inbox'[k] = sent'[Len(sent') - Len(inbox') + k]
    BY <1>2 DEF Sound, Placed
  <2>3. QED BY <1>1, <2>1, <2>2 DEF Placed
<1>4. Dispatched' /\ Answered'
  BY <1>2, QuietGood
<1>5. QED BY <1>3, <1>4 DEF Sound

\* Both ways on_message returns.
LEMMA EndsGood ==
  ASSUME TypeOK, Contents, Sound, json_end \/ binary_end
  PROVE  Sound'
<1>0. pc = "loop" /\ entry
  BY DEF Sound, Placed, json_end, binary_end
<1>1. CASE json_end
  <2>1. /\ protocol = "json" /\ FirstFrame(cache) = 0 /\ pc' = "poll"
        /\ UNCHANGED <<protocol, open, entry, answered, cache, inbox, calls, queued, asked, sent, handled>>
    BY <1>0, <1>1 DEF json_end, connection, client, services
  <2>2. Kept = cache /\ Kept' = cache
    BY <1>0, <2>1 DEF Kept
  <2>3. QED BY <1>0, <2>1, <2>2, EndGood
<1>2. CASE binary_end
  <2>1. /\ protocol = "binary" /\ FirstFrame(buf) = 0 /\ pc' = "poll" /\ cache' = buf
        /\ UNCHANGED <<protocol, open, entry, answered, inbox, calls, queued, asked, sent, handled>>
    BY <1>2 DEF binary_end, connection, client, services
  <2>2. Kept = buf /\ Kept' = buf
    BY <1>0, <2>1 DEF Kept
  <2>3. QED BY <1>0, <2>1, <2>2, EndGood
<1>3. QED BY <1>1, <1>2

-----------------------------------------------------------------------------
(* A frame is cut off. *)

\* What Append gives.
LEMMA AppendIs ==
  ASSUME NEW S, NEW s \in Seq(S), NEW x \in S
  PROVE  /\ Len(Append(s, x)) = Len(s) + 1 /\ DOMAIN Append(s, x) = 1 .. Len(s) + 1 /\ Len(s) \in Nat
         /\ DOMAIN s = 1 .. Len(s)
         /\ \A i \in 1 .. Len(s) : Append(s, x)[i] = s[i]
         /\ Append(s, x)[Len(s) + 1] = x
         /\ ToSet(Append(s, x)) = ToSet(s) \cup {x} /\ Last(Append(s, x)) = x
<1> DEFINE a == Append(s, x) n == Len(s)
<1>1. n \in Nat /\ DOMAIN s = 1 .. n
  BY LenProperties
<1>2. a \in Seq(S) /\ Len(a) = n + 1 /\ \A i \in 1 .. n : a[i] = s[i]
  BY AppendProperties
<1>3. a[n + 1] = x
  BY AppendProperties
<1>4. DOMAIN a = 1 .. n + 1
  BY <1>2, LenProperties
<1> HIDE DEF a, n
<1>5. \A i \in 1 .. n + 1 : i \in 1 .. n \/ i = n + 1
  BY <1>1
<1>6. \A i \in 1 .. n : i \in 1 .. n + 1
  BY <1>1
<1>7. n + 1 \in 1 .. n + 1
  BY <1>1
<1>8. ToSet(a) = ToSet(s) \cup {x}
  <2>1. ASSUME NEW y \in ToSet(a) PROVE y \in ToSet(s) \cup {x}
    <3>1. PICK i \in 1 .. n + 1 : y = a[i]
      BY <1>4 DEF ToSet
    <3>2. CASE i \in 1 .. n
      BY <1>1, <1>2, <3>1, <3>2 DEF ToSet
    <3>3. QED BY <1>3, <1>5, <3>1, <3>2
  <2>2. ASSUME NEW y \in ToSet(s) PROVE y \in ToSet(a)
    BY <1>1, <1>2, <1>4, <1>6 DEF ToSet
  <2>3. x \in ToSet(a)
    BY <1>3, <1>4, <1>7 DEF ToSet
  <2>4. QED BY <2>1, <2>2, <2>3
<1>9. Last(a) = x
  BY <1>2, <1>3 DEF Last
<1>10. QED BY <1>1, <1>2, <1>3, <1>4, <1>8, <1>9 DEF a, n

\* A larger number may be appended to an ascending sequence.
LEMMA AppendAscends ==
  ASSUME NEW s \in Seq(Nat), NEW x \in Nat, Ascending(s), \A y \in ToSet(s) : y < x
  PROVE  Ascending(Append(s, x))
<1> DEFINE a == Append(s, x) n == Len(s)
<1>1. /\ DOMAIN a = 1 .. n + 1 /\ n \in Nat /\ DOMAIN s = 1 .. n /\ a[n + 1] = x
      /\ \A i \in 1 .. n : a[i] = s[i]
  BY AppendIs
<1> HIDE DEF a, n
<1>2. \A i \in 1 .. n : s[i] < x
  BY <1>1 DEF ToSet
<1>3. ASSUME NEW i \in 1 .. n + 1, NEW j \in 1 .. n + 1, i < j PROVE a[i] < a[j]
  <2>1. i \in 1 .. n
    BY <1>1, <1>3
  <2>2. CASE j \in 1 .. n
    BY <1>1, <1>3, <2>1, <2>2 DEF Ascending
  <2>3. CASE j \notin 1 .. n
    <3>1. j = n + 1
      BY <1>1, <2>3
    <3>2. QED BY <1>1, <1>2, <2>1, <3>1
  <2>4. QED BY <2>2, <2>3
<1>4. Ascending(a)
  BY <1>1, <1>3 DEF Ascending
<1>5. QED BY <1>4 DEF a

\* A new element may be appended to a sequence without repetition.
LEMMA AppendInjects ==
  ASSUME NEW S, NEW s \in Seq(S), NEW x \in S, IsInjective(s), x \notin ToSet(s)
  PROVE  IsInjective(Append(s, x))
<1> DEFINE a == Append(s, x) n == Len(s)
<1>1. /\ DOMAIN a = 1 .. n + 1 /\ n \in Nat /\ DOMAIN s = 1 .. n /\ a[n + 1] = x
      /\ \A i \in 1 .. n : a[i] = s[i]
  BY AppendIs
<1> HIDE DEF a, n
<1>2. \A i \in 1 .. n : s[i] # x
  BY <1>1 DEF ToSet
<1>3. \A i \in 1 .. n + 1 : i \in 1 .. n \/ i = n + 1
  BY <1>1
<1>4. \A i, j \in 1 .. n : s[i] = s[j] => i = j
  BY <1>1 DEF IsInjective
<1>5. ASSUME NEW i \in 1 .. n + 1, NEW j \in 1 .. n + 1, a[i] = a[j] PROVE i = j
  <2>1. CASE i \in 1 .. n /\ j \in 1 .. n
    BY <1>1, <1>4, <1>5, <2>1
  <2>2. CASE i \in 1 .. n /\ j = n + 1
    BY <1>1, <1>2, <1>5, <2>2
  <2>3. CASE i = n + 1 /\ j \in 1 .. n
    BY <1>1, <1>2, <1>5, <2>3
  <2>4. QED BY <1>3, <2>1, <2>2, <2>3
<1>6. IsInjective(a)
  BY <1>1, <1>5 DEF IsInjective
<1>7. QED BY <1>6 DEF a

\* The first frame of what is kept comes behind the frames dispatched, whole.
LEMMA CutFrame ==
  ASSUME TypeOK, Contents, Framed, Sound, NEW n, n = FirstFrame(Kept), n # 0
  PROVE  /\ n \in 1 .. Len(Kept) /\ n \in {1, 2} /\ Kept[n].id \in DOMAIN asked
         /\ Consumed + n \in 1 .. Len(sent) /\ sent[Consumed + n].last
         /\ {sent[k].id : k \in {j \in 1 .. Consumed + n : sent[j].last}} = Ended \cup {Kept[n].id}
         /\ \A i \in Ended : i < Kept[n].id
         /\ n = 1 <=> Kept[n].id \in Blanks
         /\ ~Kept[1].last => Kept[1].id = Kept[n].id
<1> DEFINE c == Consumed L == Len(sent) K == Len(Kept) id == Kept[n].id E(m) == {j \in 1 .. m : sent[j].last}
<1>1. /\ L \in Nat /\ K \in Nat /\ DOMAIN Kept = 1 .. K /\ DOMAIN sent = 1 .. L /\ Len(inbox) \in Nat
      /\ \A k \in 1 .. L : sent[k].id \in DOMAIN asked
      /\ DOMAIN asked = 1 .. Len(asked)
  BY Lens
<1>2. n \in 1 .. K /\ Kept[n].last /\ \A i \in 1 .. K : i < n => ~Kept[i].last
  BY <1>1, Lens, FirstFrameIs
<1>3. c = L - K - Len(inbox)
  BY DEF Consumed
<1>4. 0 <= c /\ (c = 0 \/ sent[c].last) /\ \A k \in 1 .. K : Kept[k] = sent[c + k]
  BY <1>1 DEF Sound, Placed
<1>5. Ended = {sent[k].id : k \in E(c)}
  BY DEF Ended
<1> HIDE DEF c, L, K, id
<1>6. c \in Nat /\ c + K <= L /\ n \in Nat /\ n > 0
  BY <1>1, <1>2, <1>3, <1>4
<1>7. c + n \in 1 .. L /\ sent[c + n] = Kept[n] /\ sent[c + n].last /\ sent[c + n].id = id
  BY <1>1, <1>2, <1>4, <1>6 DEF id
<1>8. id \in DOMAIN asked
  BY <1>1, <1>7
<1>9. /\ \A k \in 1 .. L : ~sent[k].last => k < L /\ sent[k + 1].last /\ sent[k + 1].id = sent[k].id
      /\ \A j, k \in 1 .. L : j < k /\ sent[j].last => sent[j].id < sent[k].id
      /\ \A k \in 1 .. L : k = 1 \/ sent[k - 1].last => (sent[k].last <=> sent[k].id \in Blanks)
  BY <1>1 DEF Framed, L
<1>10. E(c + n) = E(c) \cup {c + n}
  <2>1. ASSUME NEW j \in E(c + n) PROVE j \in E(c) \cup {c + n}
    <3>1. CASE j \in 1 .. c
      BY <2>1, <3>1
    <3>2. CASE j \notin 1 .. c
      <4>1. j - c \in 1 .. n /\ j = c + (j - c)
        BY <1>6, <2>1, <3>2
      <4>2. j - c \in 1 .. K
        BY <1>1, <1>2, <4>1
      <4>3. Kept[j - c] = sent[j]
        BY <1>4, <4>1, <4>2
      <4>4. ~(j - c < n)
        BY <1>2, <2>1, <4>2, <4>3
      <4>5. j = c + n
        BY <1>6, <4>1, <4>4
      <4>6. QED BY <4>5
    <3>3. QED BY <3>1, <3>2
  <2>2. \A j \in E(c) : j \in 1 .. c + n /\ sent[j].last
    BY <1>6
  <2>3. c + n \in E(c + n)
    BY <1>6, <1>7
  <2>4. QED BY <2>1, <2>2, <2>3
<1>11. \A j \in E(c) : j \in 1 .. L /\ j < c + n /\ sent[j].last
  BY <1>1, <1>6
<1>12. {sent[k].id : k \in E(c + n)} = Ended \cup {id}
  BY <1>5, <1>7, <1>10
<1>13. \A i \in Ended : i < id
  <2>1. ASSUME NEW i \in Ended PROVE i < id
    <3>1. PICK j \in E(c) : i = sent[j].id
      BY <1>5
    <3>2. sent[j].id < sent[c + n].id
      BY <1>7, <1>9, <1>11
    <3>3. QED BY <1>7, <3>1, <3>2
  <2>2. QED BY <2>1
<1>14. 1 \in 1 .. K /\ c + 1 \in 1 .. L /\ Kept[1] = sent[c + 1]
  BY <1>1, <1>2, <1>4, <1>6
<1>15. (c + 1) - 1 = c /\ (c + 1 = 1 <=> c = 0)
  BY <1>6
<1>16. Kept[1].last <=> Kept[1].id \in Blanks
  BY <1>4, <1>9, <1>14, <1>15
<1>17. CASE Kept[1].last
  <2>1. n = 1
    BY <1>2, <1>6, <1>14, <1>17
  <2>2. QED BY <1>2, <1>7, <1>8, <1>12, <1>13, <1>16, <1>17, <2>1 DEF c, L, K, id
<1>18. CASE ~Kept[1].last
  <2>1. n # 1 /\ 2 \in 1 .. K
    BY <1>1, <1>2, <1>6, <1>18
  <2>2. sent[c + 2].last /\ sent[c + 2].id = Kept[1].id /\ Kept[2] = sent[c + 2]
    <3>1. (c + 1) + 1 = c + 2
      BY <1>6
    <3>2. QED BY <1>4, <1>9, <1>14, <1>18, <2>1, <3>1
  <2>3. n = 2
    BY <1>2, <1>6, <2>1, <2>2
  <2>4. id = Kept[1].id
    BY <2>2, <2>3 DEF id
  <2>5. QED BY <1>2, <1>7, <1>8, <1>12, <1>13, <1>16, <1>18, <2>3, <2>4 DEF c, L, K, id
<1>19. QED BY <1>17, <1>18

\* What is left behind it stays in its place.
LEMMA CutPlaced ==
  ASSUME TypeOK, Contents, Framed, Sound, NEW n, n = FirstFrame(Kept), n # 0,
         Kept' = After(Kept, n), pc' # "poll", entry', UNCHANGED <<inbox, sent>>
  PROVE  Placed' /\ Ended' = Ended \cup {Kept[n].id}
<1> DEFINE c == Consumed L == Len(sent) K == Len(Kept)
<1>1. /\ n \in 1 .. K /\ c + n \in 1 .. L /\ sent[c + n].last
      /\ {sent[k].id : k \in {j \in 1 .. c + n : sent[j].last}} = Ended \cup {Kept[n].id}
  BY CutFrame
<1>2. L \in Nat /\ K \in Nat /\ DOMAIN Kept = 1 .. K /\ Kept \in Seq(SentUnit) /\ Len(inbox) \in Nat
  BY Lens
<1>3. n \in 0 .. K /\ n \in Nat /\ n > 0
  BY <1>1, <1>2
<1>4. /\ Len(Kept') = K - n /\ DOMAIN Kept' = 1 .. K - n
      /\ \A i \in 1 .. K - n : Kept'[i] = Kept[n + i]
  BY <1>2, <1>3, AfterIs
<1>5. c = L - K - Len(inbox) /\ Consumed' = L - (K - n) - Len(inbox)
  BY <1>4 DEF Consumed
<1>6. 0 <= c /\ \A k \in 1 .. K : Kept[k] = sent[c + k]
  BY <1>2 DEF Sound, Placed
<1> HIDE DEF c, L, K
<1>7. Consumed' = c + n /\ c \in Nat
  <2> DEFINE I == Len(inbox)
  <2>1. I \in Nat /\ c = L - K - I /\ Consumed' = L - (K - n) - I
    BY <1>2, <1>5
  <2> HIDE DEF I
  <2>2. L - (K - n) - I = (L - K - I) + n /\ L - K - I \in Int
    BY <1>2, <1>3, <2>1
  <2>3. QED BY <1>6, <2>1, <2>2
<1>8. ASSUME NEW i \in 1 .. K - n PROVE Kept'[i] = sent[(c + n) + i]
  <2>1. n + i \in 1 .. K /\ c + (n + i) = (c + n) + i
    BY <1>2, <1>3, <1>7
  <2>2. QED BY <1>4, <1>6, <2>1
<1>9. Placed'
  <2>1. 0 <= Consumed' /\ sent'[Consumed'].last
    BY <1>1, <1>3, <1>7
  <2>2. \A k \in DOMAIN Kept' : Kept'[k] = sent'[Consumed' + k]
    BY <1>4, <1>7, <1>8
  <2>3. \A k \in DOMAIN inbox' : inbox'[k] = sent'[Len(sent') - Len(inbox') + k]
    BY DEF Sound, Placed
  <2>4. QED BY <2>1, <2>2, <2>3 DEF Placed
<1>10. Ended' = Ended \cup {Kept[n].id}
  BY <1>1, <1>7 DEF Ended
<1>11. QED BY <1>9, <1>10

\* A frame that is no blank line is dispatched behind the others.
LEMMA DispatchOne ==
  ASSUME TypeOK, Contents, Framed, Sound, NEW n, n = FirstFrame(Kept), n # 0,
         Ended' = Ended \cup {Kept[n].id}, Kept[n].id \notin Blanks,
         UNCHANGED <<protocol, asked, sent>>, handled' = Append(handled, Kept[n].id)
  PROVE  /\ Dispatched' /\ ToSet(handled') = ToSet(handled) \cup {Kept[n].id} /\ Last(handled') = Kept[n].id
         /\ \A i \in ToSet(handled) : i < Kept[n].id
<1> DEFINE id == Kept[n].id
<1>1. id \in DOMAIN asked /\ \A i \in Ended : i < id
  BY CutFrame
<1>2. Blanks' = Blanks
  BY SameSets
<1>3. Ascending(handled) /\ ToSet(handled) = Ended \ Blanks
  BY DEF Sound, Dispatched
<1>4. DOMAIN asked \subseteq Nat
  BY Lens
<1>5. handled \in Seq(Nat) /\ id \in Nat
  BY <1>1, <1>4, Wider DEF Contents
<1>6. handled' = Append(handled, id) /\ Ended' = Ended \cup {id} /\ id \notin Blanks
  OBVIOUS
<1> HIDE DEF id
<1>7. ToSet(handled') = ToSet(handled) \cup {id} /\ Last(handled') = id
  BY <1>5, <1>6, AppendIs
<1>8. \A i \in ToSet(handled) : i < id
  BY <1>1, <1>3
<1>9. Ascending(handled')
  BY <1>3, <1>5, <1>6, <1>8, AppendAscends
<1>10. ToSet(handled') = Ended' \ Blanks'
  BY <1>2, <1>3, <1>6, <1>7
<1>11. Dispatched'
  BY <1>9, <1>10 DEF Dispatched
<1>12. QED BY <1>7, <1>8, <1>11 DEF id

\* What has been answered was due, and dispatched.
LEMMA AnsweredEarlier ==
  ASSUME TypeOK, Contents, Answered, NEW S, S \subseteq ToSet(handled), ToSet(answered) \subseteq S,
         NEW id \in DOMAIN asked, \A i \in S : i < id
  PROVE  /\ \A i \in ToSet(answered) : i < id
         /\ answered \in Seq(Nat) /\ id \in Nat
<1>1. DOMAIN asked \subseteq Nat
  BY Lens
<1>2. answered \in Seq(Nat)
  BY <1>1, Wider DEF Contents
<1>3. QED BY <1>1, <1>2

\* json_line: a blank line is skipped, another one dispatched and answered or left to the bridge.
LEMMA JsonLineGood ==
  ASSUME TypeOK, Contents, Framed, Sound, open, json_line, open'
  PROVE  Sound'
<1> DEFINE n == FirstFrame(cache) id == cache[n].id line == LineOf(cache, n)
<1>1. /\ pc = "loop" /\ protocol = "json" /\ n # 0 /\ cache' = After(cache, n)
      /\ UNCHANGED <<protocol, late, buf, inbox, calls, queued, asked, sent>>
  BY DEF json_line, client, services
<1>2. \/ line.kind = "blank" /\ UNCHANGED <<open, entry, answered, pc, handled>>
      \/ /\ line.kind # "blank" /\ handled' = Append(handled, id)
         /\ \/ pc' = "waiting" /\ UNCHANGED <<open, entry, answered>>
            \/ pc' = pc /\ json_dispatch(line) = {} /\ UNCHANGED <<open, entry, answered>>
            \/ pc' = pc /\ json_dispatch(line) # {} /\ send(id)
  BY DEF json_line, connection
<1>3. Kept = cache /\ entry
  BY <1>1 DEF Kept, Sound, Placed
<1>4. pc' # "poll" /\ entry'
  BY <1>1, <1>2, <1>3, SendIs
<1>5. Kept' = cache'
  BY <1>1, <1>4 DEF Kept
<1>6. /\ n \in 1 .. Len(cache) /\ n \in {1, 2} /\ id \in DOMAIN asked
      /\ \A i \in Ended : i < id
      /\ n = 1 <=> id \in Blanks
  BY <1>1, <1>3, CutFrame
<1>7. Placed' /\ Ended' = Ended \cup {id}
  <2>1. Kept' = After(Kept, n) /\ n = FirstFrame(Kept) /\ id = Kept[n].id
    BY <1>1, <1>3, <1>5
  <2> HIDE DEF n, id
  <2>2. UNCHANGED <<inbox, sent>>
    BY <1>1
  <2>3. QED BY <1>1, <1>4, <2>1, <2>2, CutPlaced
<1>8. line = asked[id]
  <2>1. id \in Blanks <=> asked[id].kind = "blank"
    BY <1>1, <1>6 DEF Blanks
  <2>2. Len(Units(id, asked[id])) = IF asked[id].kind = "blank" THEN 1 ELSE 2
    BY <1>1, <1>6, UnitsAre
  <2>3. line = IF n < Len(Units(id, asked[id])) THEN [kind |-> "garbage"] ELSE asked[id]
    BY DEF LineOf
  <2> HIDE DEF n, id
  <2>4. ~(n < Len(Units(id, asked[id])))
    <3>1. CASE n = 1
      BY <1>6, <2>1, <2>2, <3>1
    <3>2. CASE n = 2
      BY <2>2, <3>2
    <3>3. QED BY <1>6, <3>1, <3>2
  <2>5. QED BY <2>3, <2>4
<1>9. line \in JsonLine
  <2>1. asked \in Seq(JsonLines)
    BY <1>1 DEF Contents
  <2>2. asked[id] \in JsonLines
    <3>1. DOMAIN asked = 1 .. Len(asked)
      BY Lens
    <3> HIDE DEF id
    <3>2. QED BY <1>6, <2>1, <3>1, ElementOfSeq
  <2>3. QED BY <1>8, <2>2, RpcAssumption
<1>10. line.kind = "blank" <=> id \in Blanks
  BY <1>1, <1>6, <1>8 DEF Blanks
<1>11. line.kind # "blank" => (json_dispatch(line) # {} <=> id \in Owed)
  <2>1. id \in Owed <=> Answerable(line)
    BY <1>6, <1>8 DEF Owed
  <2> HIDE DEF line
  <2>2. QED BY <1>1, <1>9, <2>1, LineIsAnswered
<1>12. id = Kept[n].id /\ n = FirstFrame(Kept)
  BY <1>3
<1> HIDE DEF n, id, line
<1>13. Blanks' = Blanks /\ Owed' = Owed
  BY <1>1, SameSets
<1> DEFINE H == ToSet(handled) A == ToSet(answered)
<1>14. A = H \cap Owed /\ Ascending(answered) /\ Ascending(handled) /\ H = Ended \ Blanks
  BY <1>1 DEF Sound, Answered, Dispatched
<1>15. CASE line.kind = "blank"
  <2>1. UNCHANGED <<open, entry, answered, pc, handled>>
    BY <1>2, <1>15
  <2>2. Dispatched'
    <3>1. Ended' \ Blanks' = Ended \ Blanks
      BY <1>7, <1>10, <1>13, <1>15
    <3>2. ToSet(handled') = H /\ Ascending(handled')
      BY <1>14, <2>1
    <3>3. QED BY <1>14, <3>1, <3>2 DEF Dispatched
  <2>3. Answered'
    BY <1>1, <1>13, <2>1, SameAnswered DEF Sound
  <2>4. QED BY <1>7, <2>2, <2>3 DEF Sound
<1>16. CASE line.kind # "blank"
  <2>1. handled' = Append(handled, id) /\ id \notin Blanks
    BY <1>2, <1>10, <1>16
  <2>2. /\ Dispatched' /\ ToSet(handled') = H \cup {id} /\ Last(handled') = id
        /\ \A i \in H : i < id
    BY <1>1, <1>7, <1>12, <2>1, DispatchOne
  <2>3. answered \in Seq(Nat) /\ id \in Nat /\ \A i \in A : i < id
    BY <1>6, <1>14, <2>2, AnsweredEarlier DEF Sound
  <2>4. id \notin H
    <3>1. ~(id < id)
      BY <2>3
    <3>2. QED BY <2>2, <3>1
  <2> HIDE DEF H
  <2>5. CASE pc' = "waiting" /\ UNCHANGED <<open, entry, answered>>
    <3>1. ToSet(answered') = A /\ Ascending(answered')
      BY <1>14, <2>5
    <3>2. (ToSet(handled') \ {Last(handled')}) \cap Owed' = A
      BY <1>13, <1>14, <2>2, <2>4
    <3>3. Last(handled') \notin Blanks' /\ protocol' = "json"
      BY <1>1, <1>13, <2>1, <2>2
    <3>4. Answered'
      BY <2>5, <3>1, <3>2, <3>3 DEF Answered
    <3>5. QED BY <1>7, <2>2, <3>4 DEF Sound
  <2>6. CASE pc' = pc /\ json_dispatch(line) = {} /\ UNCHANGED <<open, entry, answered>>
    <3>1. ToSet(answered') = A /\ Ascending(answered')
      BY <1>14, <2>6
    <3>2. ToSet(handled') \cap Owed' = A
      BY <1>11, <1>13, <1>14, <1>16, <2>2, <2>6
    <3>3. pc' # "waiting" /\ protocol' = "json"
      BY <1>1, <2>6
    <3>4. Answered'
      BY <3>1, <3>2, <3>3 DEF Answered
    <3>5. QED BY <1>7, <2>2, <3>4 DEF Sound
  <2>7. CASE pc' = pc /\ json_dispatch(line) # {} /\ send(id)
    <3>1. answered' = Append(answered, id)
      BY <2>7, SendIs
    <3>2. ToSet(answered') = A \cup {id}
      BY <2>3, <3>1, AppendIs
    <3>3. Ascending(answered')
      BY <1>14, <2>3, <3>1, AppendAscends
    <3>4. ToSet(handled') \cap Owed' = A \cup {id}
      BY <1>11, <1>13, <1>14, <1>16, <2>2, <2>7
    <3>5. pc' # "waiting" /\ protocol' = "json"
      BY <1>1, <2>7
    <3>6. Answered'
      BY <3>2, <3>3, <3>4, <3>5 DEF Answered
    <3>7. QED BY <1>7, <2>2, <3>6 DEF Sound
  <2>8. QED BY <1>2, <1>16, <2>5, <2>6, <2>7
<1>17. QED BY <1>15, <1>16

\* binary_frame: a call is answered, or left to its service, or refused.
LEMMA BinaryFrameGood ==
  ASSUME TypeOK, Contents, Framed, Sound, open, binary_frame, open'
  PROVE  Sound'
<1> DEFINE n == FirstFrame(buf) id == buf[n].id frame == asked[id]
<1>1. /\ pc = "loop" /\ protocol = "binary" /\ n # 0 /\ buf' = After(buf, n)
      /\ ~Corrupt /\ ~BadMeta
      /\ handled' = Append(handled, id)
      /\ calls' = IF binary_dispatch(frame) = "async" THEN calls \cup {id} ELSE calls
      /\ IF binary_dispatch(frame) = "sync" THEN send(id) ELSE UNCHANGED <<open, entry, answered>>
      /\ UNCHANGED <<protocol, late, cache, pc, inbox, queued, asked, sent>>
  BY DEF binary_frame, client, connection
<1>2. Kept = buf /\ entry
  BY <1>1 DEF Kept, Sound, Placed
<1>3. pc' # "poll" /\ entry'
  BY <1>1, <1>2, SendIs
<1>4. Kept' = buf'
  BY <1>1, <1>3 DEF Kept
<1>5. /\ n \in 1 .. Len(buf) /\ id \in DOMAIN asked
      /\ ~buf[1].last => buf[1].id = id
  BY <1>1, <1>2, CutFrame
<1>6. Placed' /\ Ended' = Ended \cup {id}
  <2>1. Kept' = After(Kept, n) /\ n = FirstFrame(Kept) /\ id = Kept[n].id
    BY <1>1, <1>2, <1>4
  <2> HIDE DEF n, id
  <2>2. UNCHANGED <<inbox, sent>>
    BY <1>1
  <2>3. QED BY <1>1, <1>3, <2>1, <2>2, CutPlaced
<1>7. frame.magic /\ frame.meta
  <2>1. buf # << >>
    <3>1. Len(buf) = 0 => 1 .. Len(buf) = {}
      OBVIOUS
    <3>2. buf = << >> => Len(buf) = 0
      BY EmptySeq
    <3>3. QED BY <1>5, <3>1, <3>2
  <2>2. ~buf[1].last /\ asked[buf[1].id].magic
    BY <1>1, <2>1 DEF Corrupt
  <2>3. n > 0
    BY <1>5
  <2>4. asked[buf[1].id].meta
    BY <1>1, <2>3 DEF BadMeta
  <2>5. QED BY <1>5, <2>2, <2>4
<1>8. frame \in BinaryFrame
  <2>1. asked \in Seq(BinaryFrames)
    BY <1>1 DEF Contents
  <2>2. frame \in BinaryFrames
    <3>1. DOMAIN asked = 1 .. Len(asked)
      BY Lens
    <3> HIDE DEF id
    <3>2. QED BY <1>5, <2>1, <3>1, ElementOfSeq
  <2>3. QED BY <2>2, RpcAssumption
<1>9. /\ binary_dispatch(frame) \in {"sync", "async", "exception"}
      /\ binary_dispatch(frame) = "exception" <=> id \notin Owed
  <2>1. id \in Owed <=> Answerable(frame)
    BY <1>5 DEF Owed
  <2> HIDE DEF frame
  <2>2. QED BY <1>1, <1>7, <1>8, <2>1, CallIsDue
<1>10. id = Kept[n].id /\ n = FirstFrame(Kept)
  BY <1>2
<1>11. Blanks = {}
  BY <1>1 DEF Blanks
<1> DEFINE d == binary_dispatch(frame)
<1>12. /\ d \in {"sync", "async", "exception"} /\ (d = "exception" <=> id \notin Owed)
       /\ calls' = IF d = "async" THEN calls \cup {id} ELSE calls
       /\ IF d = "sync" THEN send(id) ELSE UNCHANGED <<open, entry, answered>>
  BY <1>1, <1>9
<1> HIDE DEF n, id, frame, d
<1>13. Blanks' = Blanks /\ Owed' = Owed
  BY <1>1, SameSets
<1> DEFINE H == ToSet(handled) A == ToSet(answered) Q == ToSet(queued)
<1>14. /\ A \cup Q \cup calls = H \cap Owed /\ A \cap calls = {} /\ Q \cap (A \cup calls) = {}
       /\ IsInjective(answered) /\ IsInjective(queued)
  BY <1>1 DEF Sound, Answered
<1>15. /\ Dispatched' /\ ToSet(handled') = H \cup {id}
       /\ \A i \in H : i < id
  BY <1>1, <1>6, <1>10, <1>11, DispatchOne
<1>16. id \in Nat
  BY <1>5, Lens
<1>17. id \notin H
  <2>1. ~(id < id)
    BY <1>16
  <2>2. QED BY <1>15, <2>1
<1>18. id \notin A /\ id \notin Q /\ id \notin calls
  BY <1>14, <1>17
<1>19. answered \in Seq(DOMAIN asked) /\ protocol' # "json"
  BY <1>1 DEF Contents
<1>20. ToSet(queued') = Q /\ IsInjective(queued')
  BY <1>1, <1>14
<1> HIDE DEF H, Q
<1>21. CASE d = "sync"
  <2>1. answered' = Append(answered, id) /\ calls' = calls
    BY <1>12, <1>21, SendIs
  <2>2. ToSet(answered') = A \cup {id}
    BY <1>5, <1>19, <2>1, AppendIs
  <2>3. IsInjective(answered')
    BY <1>5, <1>14, <1>18, <1>19, <2>1, AppendInjects
  <2> HIDE DEF A
  <2>4. /\ ToSet(answered') \cup ToSet(queued') \cup calls' = ToSet(handled') \cap Owed'
        /\ ToSet(answered') \cap calls' = {} /\ ToSet(queued') \cap (ToSet(answered') \cup calls') = {}
    BY <1>12, <1>13, <1>14, <1>15, <1>18, <1>20, <1>21, <2>1, <2>2
  <2>5. QED BY <1>6, <1>15, <1>19, <1>20, <2>3, <2>4 DEF Sound, Answered
<1>22. CASE d = "async"
  <2>1. answered' = answered /\ calls' = calls \cup {id}
    BY <1>12, <1>22
  <2>2. ToSet(answered') = A /\ IsInjective(answered')
    BY <1>14, <2>1
  <2> HIDE DEF A
  <2>3. /\ ToSet(answered') \cup ToSet(queued') \cup calls' = ToSet(handled') \cap Owed'
        /\ ToSet(answered') \cap calls' = {} /\ ToSet(queued') \cap (ToSet(answered') \cup calls') = {}
    BY <1>12, <1>13, <1>14, <1>15, <1>18, <1>20, <1>22, <2>1, <2>2
  <2>4. QED BY <1>6, <1>15, <1>19, <1>20, <2>2, <2>3 DEF Sound, Answered
<1>23. CASE d = "exception"
  <2>1. answered' = answered /\ calls' = calls
    BY <1>12, <1>23
  <2>2. ToSet(answered') = A /\ IsInjective(answered')
    BY <1>14, <2>1
  <2> HIDE DEF A
  <2>3. /\ ToSet(answered') \cup ToSet(queued') \cup calls' = ToSet(handled') \cap Owed'
        /\ ToSet(answered') \cap calls' = {} /\ ToSet(queued') \cap (ToSet(answered') \cup calls') = {}
    BY <1>12, <1>13, <1>14, <1>15, <1>23, <1>20, <2>1, <2>2
  <2>4. QED BY <1>6, <1>15, <1>19, <1>20, <2>2, <2>3 DEF Sound, Answered
<1>24. QED BY <1>12, <1>21, <1>22, <1>23

\* bridge_returns: the line behind the bridge is answered.
LEMMA BridgeReturnsGood ==
  ASSUME TypeOK, Contents, Framed, Sound, open, bridge_returns, open'
  PROVE  Sound'
<1> DEFINE id == Last(handled) H == ToSet(handled) A == ToSet(answered) n == Len(handled)
<1>1. /\ pc = "waiting" /\ pc' = "loop"
      /\ IF json_dispatch(asked[id]) = {} THEN UNCHANGED <<open, entry, answered>> ELSE send(id)
      /\ UNCHANGED <<protocol, late, cache, buf, inbox, calls, queued, asked, sent, handled>>
  BY DEF bridge_returns, client, connection, services
<1>2. protocol = "json" /\ handled # << >> /\ entry
  BY <1>1 DEF Contents, Sound, Placed
<1>3. entry' /\ Kept' = Kept /\ Consumed' = Consumed
  <2>1. entry'
    BY <1>1, <1>2, SendIs
  <2>2. Kept' = Kept
    BY <1>1, <1>2 DEF Kept
  <2>3. QED BY <1>1, <2>1, <2>2 DEF Consumed
<1>4. Placed'
  <2>1. 0 <= Consumed' /\ (Consumed' = 0 \/ sent'[Consumed'].last)
    BY <1>1, <1>3 DEF Sound, Placed
  <2>2. /\ \A k \in DOMAIN Kept' : Kept'[k] = sent'[Consumed' + k]
        /\ \A k \in DOMAIN inbox' : inbox'[k] = sent'[Len(sent') - Len(inbox') + k]
    BY <1>1, <1>3 DEF Sound, Placed
  <2>3. QED BY <1>1, <1>3, <2>1, <2>2 DEF Placed
<1>5. Blanks' = Blanks /\ Owed' = Owed
  BY <1>1, SameSets
<1>6. Dispatched'
  <2>1. Ended' = Ended
    BY <1>1, <1>3 DEF Ended
  <2>2. ToSet(handled') = ToSet(handled) /\ (Ascending(handled') <=> Ascending(handled))
    BY <1>1
  <2>3. QED BY <1>5, <2>1, <2>2 DEF Sound, Dispatched
<1>7. /\ n \in 1 .. n /\ DOMAIN handled = 1 .. n /\ id = handled[n] /\ DOMAIN asked \subseteq Nat
      /\ \A i \in 1 .. n : handled[i] \in DOMAIN asked
  <2>1. /\ n \in Nat /\ DOMAIN handled = 1 .. n /\ DOMAIN asked = 1 .. Len(asked)
        /\ \A i \in 1 .. n : handled[i] \in DOMAIN asked
    BY Lens
  <2>2. n # 0
    BY <1>2, EmptySeq DEF Contents
  <2>3. QED BY <2>1, <2>2 DEF Last
<1>8. id \in DOMAIN asked /\ id \in H
  BY <1>7 DEF ToSet
<1>9. \A i \in H \ {id} : i < id
  <2>1. ASSUME NEW i \in H, i # id PROVE i < id
    <3>1. PICK k \in 1 .. n : i = handled[k]
      BY <1>7 DEF ToSet
    <3>2. k < n
      BY <1>7, <2>1, <3>1
    <3>3. Ascending(handled)
      BY DEF Sound, Dispatched
    <3>4. QED BY <1>7, <3>1, <3>2, <3>3 DEF Ascending
  <2>2. QED BY <2>1
<1>10. A = (H \ {id}) \cap Owed /\ Ascending(answered) /\ id \notin Blanks
  BY <1>1, <1>2 DEF Sound, Answered
<1>11. json_dispatch(asked[id]) # {} <=> id \in Owed
  <2>1. asked[id] \in JsonLines
    <3>1. asked \in Seq(JsonLines) /\ DOMAIN asked = 1 .. Len(asked)
      BY <1>2, Lens DEF Contents
    <3> HIDE DEF id
    <3>2. QED BY <1>8, <3>1, ElementOfSeq
  <2>2. asked[id] \in JsonLine /\ asked[id].kind # "blank"
    BY <1>2, <1>8, <1>10, <2>1, RpcAssumption DEF Blanks
  <2>3. id \in Owed <=> Answerable(asked[id])
    BY <1>8 DEF Owed
  <2> HIDE DEF id
  <2>4. QED BY <1>2, <2>2, <2>3, LineIsAnswered
<1>12. answered \in Seq(Nat) /\ id \in Nat /\ \A i \in A : i < id
  <2>1. A \subseteq H \ {id} /\ H \ {id} \subseteq H
    BY <1>10
  <2> HIDE DEF id
  <2>2. QED BY <1>8, <1>9, <2>1, AnsweredEarlier DEF Sound
<1>13. ToSet(handled') = H
  BY <1>1
<1>14. pc' # "waiting" /\ protocol' = "json"
  BY <1>1, <1>2
<1> HIDE DEF id, H
<1>15. CASE id \in Owed
  <2>1. answered' = Append(answered, id)
    BY <1>1, <1>11, <1>15, SendIs
  <2>2. ToSet(answered') = A \cup {id}
    BY <1>12, <2>1, AppendIs
  <2>3. Ascending(answered')
    BY <1>10, <1>12, <2>1, AppendAscends
  <2>4. ToSet(handled') \cap Owed' = A \cup {id}
    BY <1>5, <1>8, <1>10, <1>13, <1>15
  <2>5. Answered'
    BY <1>14, <2>2, <2>3, <2>4 DEF Answered
  <2>6. QED BY <1>4, <1>6, <2>5 DEF Sound
<1>16. CASE id \notin Owed
  <2>1. answered' = answered
    BY <1>1, <1>11, <1>16
  <2>2. ToSet(answered') = A /\ Ascending(answered')
    BY <1>10, <2>1
  <2>3. ToSet(handled') \cap Owed' = A
    BY <1>5, <1>10, <1>13, <1>16
  <2>4. Answered'
    BY <1>14, <2>2, <2>3 DEF Answered
  <2>5. QED BY <1>4, <1>6, <2>4 DEF Sound
<1>17. QED BY <1>15, <1>16

\* What Head and Tail give of a sequence without repetition.
LEMMA TailInjects ==
  ASSUME NEW S, NEW s \in Seq(S), s # << >>, IsInjective(s)
  PROVE  /\ IsInjective(Tail(s)) /\ ToSet(Tail(s)) = ToSet(s) \ {Head(s)}
         /\ Head(s) \in ToSet(s) /\ Head(s) \in S
<1> DEFINE t == Tail(s) n == Len(s)
<1>1. t \in Seq(S) /\ Len(t) = n - 1 /\ (\A i \in 1 .. Len(t) : t[i] = s[i + 1]) /\ Head(s) \in S
  BY HeadTailProperties
<1>2. n \in Nat /\ n # 0 /\ DOMAIN s = 1 .. n
  BY LenProperties, EmptySeq
<1>3. DOMAIN t = 1 .. n - 1
  BY <1>1, LenProperties
<1>4. Head(s) = s[1]
  OBVIOUS
<1> HIDE DEF t, n
<1>5. \A i \in 1 .. n - 1 : t[i] = s[i + 1] /\ i + 1 \in 1 .. n /\ i + 1 # 1
  BY <1>1, <1>2
<1>6. \A i, j \in 1 .. n : s[i] = s[j] => i = j
  BY <1>2 DEF IsInjective
<1>7. IsInjective(t)
  <2>1. ASSUME NEW i \in 1 .. n - 1, NEW j \in 1 .. n - 1, t[i] = t[j] PROVE i = j
    <3>1. i + 1 = j + 1
      BY <1>5, <1>6, <2>1
    <3>2. QED BY <1>2, <3>1
  <2>2. QED BY <1>3, <2>1 DEF IsInjective
<1>8. 1 \in 1 .. n
  BY <1>2
<1>9. ASSUME NEW y \in ToSet(t) PROVE y \in ToSet(s) \ {Head(s)}
  <2>1. PICK i \in 1 .. n - 1 : y = t[i]
    BY <1>3 DEF ToSet
  <2>2. y = s[i + 1] /\ i + 1 \in 1 .. n /\ i + 1 # 1
    BY <1>5, <2>1
  <2>3. y # s[1]
    BY <1>6, <1>8, <2>2
  <2>4. QED BY <1>2, <1>4, <2>2, <2>3 DEF ToSet
<1>10. ASSUME NEW y \in ToSet(s) \ {Head(s)} PROVE y \in ToSet(t)
  <2>1. PICK i \in 1 .. n : y = s[i]
    BY <1>2 DEF ToSet
  <2>2. i # 1
    BY <1>4, <1>10, <2>1
  <2>3. i - 1 \in 1 .. n - 1 /\ (i - 1) + 1 = i
    BY <1>2, <2>2
  <2>4. y = t[i - 1]
    BY <1>5, <2>1, <2>3
  <2>5. QED BY <1>3, <2>3, <2>4 DEF ToSet
<1>11. Head(s) \in ToSet(s)
  BY <1>2, <1>4, <1>8 DEF ToSet
<1>12. QED BY <1>1, <1>7, <1>9, <1>10, <1>11 DEF t

\* A step of the service or of a queued answer leaves what is kept and dispatched.
LEMMA AsideGood ==
  ASSUME Sound, entry' = entry,
         UNCHANGED <<protocol, late, cache, buf, pc, inbox, asked, sent, handled>>
  PROVE  Placed' /\ Dispatched' /\ Owed' = Owed /\ ToSet(handled') = ToSet(handled)
<1>1. Kept' = Kept /\ Consumed' = Consumed /\ entry' = entry
  <2>1. Kept' = Kept
    BY DEF Kept
  <2>2. QED BY <2>1 DEF Consumed
<1>2. Placed'
  <2>1. Placed
    BY DEF Sound
  <2>2. QED BY <1>1, <2>1 DEF Placed
<1>3. Blanks' = Blanks /\ Owed' = Owed
  BY SameSets
<1>4. Ended' = Ended
  BY <1>1 DEF Ended
<1>5. ToSet(handled') = ToSet(handled) /\ (Ascending(handled') <=> Ascending(handled))
  OBVIOUS
<1>6. QED BY <1>2, <1>3, <1>4, <1>5 DEF Sound, Dispatched

\* service_done: the answer of a call goes from its service into the queue of the loop.
LEMMA ServiceDoneGood ==
  ASSUME TypeOK, Contents, Framed, Sound, service_done, open'
  PROVE  Sound'
<1>1. PICK id \in calls : calls' = calls \ {id} /\ queued' = Append(queued, id)
  BY DEF service_done
<1>2. UNCHANGED <<protocol, open, entry, answered, late, cache, buf, pc, inbox, asked, sent, handled>>
  BY DEF service_done, client, connection
<1>3. protocol # "json" /\ id \in DOMAIN asked /\ queued \in Seq(DOMAIN asked)
  BY <1>1 DEF TypeOK, Contents
<1>4. Placed' /\ Dispatched' /\ Owed' = Owed /\ ToSet(handled') = ToSet(handled)
  BY <1>2, AsideGood
<1> DEFINE A == ToSet(answered) Q == ToSet(queued) H == ToSet(handled)
<1>5. /\ A \cup Q \cup calls = H \cap Owed /\ A \cap calls = {} /\ Q \cap (A \cup calls) = {}
      /\ IsInjective(answered) /\ IsInjective(queued)
  BY <1>3 DEF Sound, Answered
<1>6. id \notin Q /\ id \notin A
  BY <1>1, <1>5
<1>7. ToSet(queued') = Q \cup {id} /\ ToSet(answered') = A
  BY <1>1, <1>2, <1>3, AppendIs
<1>8. IsInjective(queued') /\ IsInjective(answered')
  BY <1>1, <1>2, <1>3, <1>5, <1>6, AppendInjects
<1>9. ToSet(handled') = H
  BY <1>4
<1> HIDE DEF A, Q, H
<1>10. /\ ToSet(answered') \cup ToSet(queued') \cup calls' = ToSet(handled') \cap Owed'
       /\ ToSet(answered') \cap calls' = {} /\ ToSet(queued') \cap (ToSet(answered') \cup calls') = {}
  BY <1>1, <1>4, <1>5, <1>6, <1>7, <1>9
<1>11. Answered'
  BY <1>2, <1>3, <1>8, <1>10 DEF Answered
<1>12. QED BY <1>4, <1>11 DEF Sound

\* run_queued_send: the answer at the head of the queue is sent.
LEMMA RunQueuedSendGood ==
  ASSUME TypeOK, Contents, Framed, Sound, open, run_queued_send, open'
  PROVE  Sound'
<1> DEFINE id == Head(queued)
<1>1. /\ pc = "poll" /\ queued # << >> /\ send(id) /\ queued' = Tail(queued)
      /\ UNCHANGED <<protocol, late, cache, buf, pc, inbox, calls, asked, sent, handled>>
  BY DEF run_queued_send, client
<1>2. answered' = Append(answered, id) /\ entry' = entry
  BY <1>1, SendIs
<1>3. protocol # "json" /\ queued \in Seq(DOMAIN asked) /\ answered \in Seq(DOMAIN asked)
  BY <1>1 DEF TypeOK, Contents
<1>4. Placed' /\ Dispatched' /\ Owed' = Owed /\ ToSet(handled') = ToSet(handled)
  BY <1>1, <1>2, AsideGood
<1> DEFINE A == ToSet(answered) Q == ToSet(queued) H == ToSet(handled)
<1>5. /\ A \cup Q \cup calls = H \cap Owed /\ A \cap calls = {} /\ Q \cap (A \cup calls) = {}
      /\ IsInjective(answered) /\ IsInjective(queued)
  BY <1>3 DEF Sound, Answered
<1>6. IsInjective(queued') /\ ToSet(queued') = Q \ {id} /\ id \in Q /\ id \in DOMAIN asked
  BY <1>1, <1>3, <1>5, TailInjects
<1> HIDE DEF id
<1>7. id \notin A /\ id \notin calls
  BY <1>5, <1>6
<1>8. ToSet(answered') = A \cup {id}
  BY <1>2, <1>3, <1>6, AppendIs
<1>9. IsInjective(answered')
  BY <1>2, <1>3, <1>5, <1>6, <1>7, AppendInjects
<1>10. ToSet(handled') = H /\ calls' = calls
  BY <1>1, <1>4
<1> HIDE DEF A, Q, H
<1>11. /\ ToSet(answered') \cup ToSet(queued') \cup calls' = ToSet(handled') \cap Owed'
       /\ ToSet(answered') \cap calls' = {} /\ ToSet(queued') \cap (ToSet(answered') \cup calls') = {}
  BY <1>4, <1>5, <1>6, <1>7, <1>8, <1>10
<1>12. Answered'
  BY <1>1, <1>3, <1>6, <1>9, <1>11 DEF Answered
<1>13. QED BY <1>4, <1>12 DEF Sound

-----------------------------------------------------------------------------
(* The invariant. *)

\* Every step that leaves the connection open preserves Sound.
LEMMA GoodStep ==
  ASSUME TypeOK, Contents, Framed, open => Sound, [Next]_vars, open'
  PROVE  Sound'
<1>1. open \in BOOLEAN
  BY DEF TypeOK
<1>2. CASE client_sends
  BY <1>2, ClientSendsGood DEF client_sends
<1>3. CASE on_message
  <2>1. open
    BY <1>3 DEF on_message
  <2>2. QED BY <1>3, <2>1, OnMessageGood
<1>4. CASE connection_fails
  BY <1>4 DEF connection_fails, close_connection
<1>5. CASE json_line
  <2>1. open
    BY <1>5, SendIs DEF json_line, connection
  <2>2. QED BY <1>5, <2>1, JsonLineGood
<1>6. CASE json_end
  BY <1>6, EndsGood DEF json_end, connection
<1>7. CASE binary_frame
  <2>1. open
    BY <1>7, SendIs DEF binary_frame, connection
  <2>2. QED BY <1>7, <2>1, BinaryFrameGood
<1>8. CASE binary_corrupt
  BY <1>8 DEF binary_corrupt, close_connection
<1>9. CASE binary_end
  BY <1>9, EndsGood DEF binary_end, connection
<1>10. CASE bridge_returns
  <2>1. open
    BY <1>10, SendIs DEF bridge_returns, connection
  <2>2. QED BY <1>10, <2>1, BridgeReturnsGood
<1>11. CASE service_done
  <2>1. open
    BY <1>11 DEF service_done, connection
  <2>2. QED BY <1>11, <2>1, ServiceDoneGood
<1>12. CASE run_queued_send
  <2>1. open
    BY <1>12, SendIs DEF run_queued_send
  <2>2. QED BY <1>12, <2>1, RunQueuedSendGood
<1>13. CASE UNCHANGED vars
  <2>1. UNCHANGED <<protocol, open, entry, answered, late, cache, buf, pc, inbox, calls, queued, asked, sent, handled>>
    BY <1>13 DEF vars, connection, client, services
  <2>2. Sound
    BY <2>1
  <2>3. Kept' = Kept /\ Consumed' = Consumed
    BY <2>1 DEF Kept, Consumed
  <2>4. Placed'
    <3>1. Placed
      BY <2>2 DEF Sound
    <3>2. QED BY <2>1, <2>3, <3>1 DEF Placed
  <2>5. QED BY <2>1, <2>2, <2>3, <2>4, QuietGood DEF Sound
<1>14. QED BY <1>2, <1>3, <1>4, <1>5, <1>6, <1>7, <1>8, <1>9, <1>10, <1>11, <1>12, <1>13 DEF Next, loop

\* The invariant holds at the start.
LEMMA RpcInit == Init => IInv
<1> SUFFICES ASSUME Init PROVE IInv
  OBVIOUS
<1>1. /\ protocol \in {"binary", "json"}
      /\ open = TRUE /\ late = FALSE /\ entry = FALSE /\ cache = << >> /\ buf = << >>
      /\ pc = "poll" /\ inbox = << >> /\ calls = {} /\ queued = << >>
      /\ asked = << >> /\ sent = << >> /\ handled = << >> /\ answered = << >>
  BY DEF Init
<1>2. Len(<< >>) = 0 /\ DOMAIN << >> = {} /\ \A S : << >> \in Seq(S)
  BY EmptySeq
<1>3. TypeOK
  <2>1. Len(asked) <= MaxFrames
    BY <1>1, <1>2, RpcAssumption
  <2>2. QED BY <1>1, <2>1 DEF TypeOK
<1>4. Contents
  BY <1>1, <1>2 DEF Contents
<1>5. Framed
  BY <1>1, <1>2 DEF Framed
<1>6. Kept = << >> /\ Consumed = 0
  <2>1. Kept = << >>
    BY <1>1 DEF Kept
  <2>2. Len(sent) = 0 /\ Len(inbox) = 0 /\ Len(Kept) = 0
    BY <1>1, <1>2, <2>1
  <2>3. Consumed = Len(sent) - Len(Kept) - Len(inbox)
    BY DEF Consumed
  <2>4. Consumed = 0 - 0 - 0
    BY <2>2, <2>3
  <2>5. QED BY <2>1, <2>4
<1>7. Placed
  BY <1>1, <1>2, <1>6 DEF Placed
<1>8. ToSet(<< >>) = {} /\ Ascending(<< >>) /\ IsInjective(<< >>)
  BY <1>2 DEF ToSet, Ascending, IsInjective
<1>9. Ended = {}
  BY <1>6 DEF Ended
<1>10. Dispatched
  BY <1>1, <1>8, <1>9 DEF Dispatched
<1>11. Answered
  BY <1>1, <1>8 DEF Answered
<1>12. QED BY <1>3, <1>4, <1>5, <1>7, <1>10, <1>11 DEF IInv, Sound

\* Every step preserves it.
LEMMA RpcStep == IInv /\ [Next]_vars => IInv'
BY TypeStep, FramedStep, GoodStep DEF IInv

\* It holds always.
LEMMA RpcAlways == Spec => []IInv
BY RpcInit, RpcStep, PTL DEF Spec

\* It implies that frames are kept whole: cut off at the end of a frame, nothing whole kept.
LEMMA Reassembles == IInv => Inv
<1> SUFFICES ASSUME IInv, pc = "poll", open PROVE FramesReassembled
  BY DEF IInv, Inv, FramesReassembled
<1> DEFINE r == Len(sent) - Len(inbox) c == Consumed K == Len(Kept)
<1>1. TypeOK /\ Contents /\ Framed /\ Placed /\ Dispatched
  BY DEF IInv, Sound
<1>2. /\ Len(sent) \in Nat /\ Len(inbox) \in Nat /\ K \in Nat /\ DOMAIN sent = 1 .. Len(sent)
      /\ Kept \in Seq(SentUnit) /\ DOMAIN Kept = 1 .. K
      /\ DOMAIN asked = 1 .. Len(asked) /\ \A k \in DOMAIN sent : sent[k].id \in DOMAIN asked
  BY <1>1, Lens
<1>3. c = r - K /\ 0 <= c /\ (c = 0 \/ sent[c].last) /\ r <= Len(sent)
  <2> DEFINE L == Len(sent) I == Len(inbox)
  <2>1. c = L - K - I
    BY DEF Consumed
  <2>2. 0 <= c /\ (c = 0 \/ sent[c].last)
    BY <1>1 DEF Placed
  <2>3. r = L - I /\ L \in Nat /\ I \in Nat /\ K \in Nat
    BY <1>2
  <2> HIDE DEF c, K, r, L, I
  <2>4. c = r - K /\ r <= L
    BY <2>1, <2>3
  <2>5. QED BY <2>2, <2>4 DEF L
<1>4. \A k \in 1 .. K : Kept[k] = sent[c + k] /\ ~Kept[k].last
  BY <1>1, <1>2 DEF Placed
<1>5. r \in 0 .. Len(sent)
  <2> DEFINE L == Len(sent) I == Len(inbox)
  <2>1. r = L - I /\ L \in Nat /\ I \in Nat /\ K \in Nat /\ c = r - K /\ 0 <= c
    BY <1>2, <1>3
  <2> HIDE DEF c, K, r, L, I
  <2>2. r \in 0 .. L
    BY <2>1
  <2>3. QED BY <2>2 DEF L
<1>6. /\ Received \in Seq(SentUnit) /\ Len(Received) = r /\ DOMAIN Received = 1 .. r
      /\ \A k \in 1 .. r : Received[k] = sent[k]
  <2> HIDE DEF r
  <2>1. SubSeq(sent, 1, r) = Received
    BY DEF Received, r
  <2>2. sent \in Seq(SentUnit)
    BY <1>1 DEF Contents
  <2>3. QED BY <1>5, <2>1, <2>2, FrontIs
<1>7. Ended = {sent[k].id : k \in {j \in 1 .. c : sent[j].last}}
  BY DEF Ended
<1> HIDE DEF r, c, K
<1>8. c \in 0 .. r /\ r = c + K /\ c \in Nat
  BY <1>2, <1>3, <1>5
<1>9. \A k \in 1 .. r : k > c => ~sent[k].last
  <2>1. ASSUME NEW k \in 1 .. r, k > c PROVE ~sent[k].last
    <3>1. k - c \in 1 .. K /\ c + (k - c) = k
      BY <1>2, <1>8, <2>1
    <3>2. QED BY <1>4, <3>1
  <2>2. QED BY <2>1
<1>10. WholeFrames = Ended
  <2>1. ASSUME NEW i \in WholeFrames PROVE i \in Ended
    <3>1. PICK k \in 1 .. r : sent[k].last /\ i = sent[k].id
      BY <1>6 DEF WholeFrames
    <3>2. k \in 1 .. c
      BY <1>8, <1>9, <3>1
    <3>3. QED BY <1>7, <3>1, <3>2
  <2>2. ASSUME NEW i \in Ended PROVE i \in WholeFrames
    <3>1. PICK k \in 1 .. c : sent[k].last /\ i = sent[k].id
      BY <1>7
    <3>2. k \in 1 .. r
      BY <1>8
    <3>3. Received[k].last /\ i = Received[k].id /\ k \in DOMAIN Received
      BY <1>6, <3>1, <3>2
    <3>4. QED BY <3>3 DEF WholeFrames
  <2>3. QED BY <2>1, <2>2
<1>11. Ended \subseteq DOMAIN asked
  <2>1. \A k \in 1 .. c : k \in DOMAIN sent
    BY <1>2, <1>5, <1>8
  <2>2. QED BY <1>2, <1>7, <2>1
<1>12. Ascending(handled) /\ ToSet(handled) = {i \in WholeFrames : protocol = "binary" \/ asked[i].kind # "blank"}
  <2>1. protocol # "json" <=> protocol = "binary"
    BY <1>1 DEF TypeOK
  <2>2. Ascending(handled) /\ ToSet(handled) = Ended \ Blanks
    BY <1>1 DEF Dispatched
  <2>3. Ended \ Blanks = {i \in Ended : protocol = "binary" \/ asked[i].kind # "blank"}
    BY <1>11, <2>1 DEF Blanks
  <2>4. QED BY <1>10, <2>2, <2>3
<1>13. (IF entry THEN cache ELSE << >>) = After(Received, c)
  <2>1. Kept = IF entry THEN cache ELSE << >>
    BY DEF Kept
  <2>2. /\ After(Received, c) \in Seq(SentUnit) /\ Len(After(Received, c)) = r - c
        /\ \A i \in 1 .. r - c : After(Received, c)[i] = Received[c + i]
    <3>1. Received \in Seq(SentUnit) /\ c \in 0 .. Len(Received) /\ Len(Received) = r
      BY <1>6, <1>8
    <3> DEFINE u == Received
    <3> HIDE DEF u
    <3>2. u \in Seq(SentUnit) /\ c \in 0 .. Len(u) /\ Len(u) = r
      BY <3>1 DEF u
    <3>3. /\ After(u, c) \in Seq(SentUnit) /\ Len(After(u, c)) = Len(u) - c
          /\ \A i \in 1 .. Len(u) - c : After(u, c)[i] = u[c + i]
      BY <3>2, AfterIs
    <3>4. QED BY <3>2, <3>3 DEF u
  <2>3. r - c = K
    BY <1>2, <1>8
  <2>4. ASSUME NEW i \in 1 .. K PROVE Kept[i] = After(Received, c)[i]
    <3>1. c + i \in 1 .. r
      BY <1>2, <1>8
    <3>2. QED BY <1>4, <1>6, <2>2, <2>3, <3>1
  <2>5. Kept = After(Received, c)
    BY <1>2, <2>2, <2>3, <2>4, SeqEqual DEF K
  <2>6. QED BY <2>1, <2>5
<1>14. \A k \in DOMAIN Received : k <= c <=> Received[k].id \in WholeFrames
  <2>1. /\ \A k \in 1 .. Len(sent) : ~sent[k].last => k < Len(sent) /\ sent[k + 1].last /\ sent[k + 1].id = sent[k].id
        /\ \A j, k \in 1 .. Len(sent) : j < k /\ sent[j].last => sent[j].id < sent[k].id
    BY <1>1, <1>2 DEF Framed
  <2>2. ASSUME NEW k \in 1 .. r, k <= c PROVE sent[k].id \in Ended
    <3>1. k \in 1 .. c /\ k \in 1 .. Len(sent)
      BY <1>2, <1>5, <1>8, <2>2
    <3>2. CASE sent[k].last
      BY <1>7, <3>1, <3>2
    <3>3. CASE ~sent[k].last
      <4>1. k # c
        BY <1>3, <1>8, <3>1, <3>3
      <4>2. k + 1 \in 1 .. c
        BY <1>8, <3>1, <4>1
      <4>3. sent[k + 1].last /\ sent[k + 1].id = sent[k].id
        BY <2>1, <3>1, <3>3
      <4>4. QED BY <1>7, <4>2, <4>3
    <3>4. QED BY <3>2, <3>3
  <2>3. ASSUME NEW k \in 1 .. r, ~(k <= c), sent[k].id \in Ended PROVE FALSE
    <3>1. PICK j \in 1 .. c : sent[j].last /\ sent[k].id = sent[j].id
      BY <1>7, <2>3
    <3>2. j \in 1 .. Len(sent) /\ k \in 1 .. Len(sent) /\ j < k
      BY <1>2, <1>5, <1>8, <2>3
    <3>3. sent[j].id < sent[k].id /\ sent[j].id \in Nat
      BY <1>2, <2>1, <3>1, <3>2
    <3>4. QED BY <3>1, <3>3
  <2>4. QED BY <1>6, <1>10, <2>2, <2>3
<1>15. c \in 0 .. Len(Received)
  BY <1>6, <1>8
<1>16. QED BY <1>12, <1>13, <1>14, <1>15 DEF FramesReassembled

\* It implies that answers match.
LEMMA Matches == IInv => AnswersMatch
<1> SUFFICES ASSUME IInv, pc = "poll", open PROVE AnswersMatch
  BY DEF AnswersMatch
<1>1. Answered /\ Contents
  BY DEF IInv, Sound
<1>2. ToSet(handled) \subseteq DOMAIN asked
  BY <1>1, Lens DEF ToSet
<1> DEFINE due == {i \in ToSet(handled) : Due(asked[i])}
           faulty == {i \in ToSet(handled) : HasFaulty(asked[i])}
<1>3. ToSet(handled) \cap Owed = due \cup faulty
  BY <1>2 DEF Owed, Answerable
<1>4. CASE protocol = "json"
  <2>1. Ascending(answered) /\ ToSet(answered) = due \cup faulty
    BY <1>1, <1>3, <1>4 DEF Answered
  <2>2. QED BY <1>4, <2>1 DEF AnswersMatch
<1>5. CASE protocol # "json"
  <2>1. faulty = {}
    BY <1>5 DEF HasFaulty
  <2>2. ToSet(handled) \cap Owed = due
    BY <1>3, <2>1
  <2>3. QED BY <1>1, <1>5, <2>2 DEF Answered, AnswersMatch
<1>6. QED BY <1>4, <1>5

\* However the stream splits and glues the frames, on_message dispatches each whole
\* one once and in order, and keeps exactly the beginning of the one that is not.
THEOREM FramesKeptWhole == Spec => []Inv
BY RpcAlways, Reassembles, PTL

\* What was dispatched and is due an answer was answered; JSON lines in their order, and
\* no others but those with a faulty notification; a binary call is with its service,
\* in the queue of the loop or answered, and once.
THEOREM AnswersAsDue == Spec => []AnswersMatch
BY RpcAlways, Matches, PTL
=============================================================================
