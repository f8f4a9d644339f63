------------------------------- MODULE Buffer -------------------------------
(***************************************************************************)
(* tcp/Buffer: a vector cut by two indexes into prependable, readable and  *)
(* writable bytes.  The code never looks at a byte, so the k-th byte that  *)
(* goes in is the number k, and the bytes that were never written are 0.   *)
(* A copy that runs past the end of the vector shows as a larger domain.   *)
(***************************************************************************)
EXTENDS Integers

CONSTANTS kCheapPrepend, kStackBufSize, initialSize,
          MaxBytes       \* bound: the bytes that go in

ASSUME BufferAssumption ==
  kCheapPrepend \in Nat /\ kStackBufSize \in Nat /\ initialSize \in Nat /\ MaxBytes \in Nat

VARIABLES buffer,        \* [bytes, size, readIndex, writeIndex]
          in, out, last  \* history: see ByteStream

bufferVars == <<buffer, in, out, last>>

readable_bytes(b)    == b.writeIndex - b.readIndex
writable_bytes(b)    == b.size - b.writeIndex
prependable_bytes(b) == b.readIndex

\* readIndex_ and writeIndex_ of a vector of that size.
Vector(bytes, size, readIndex, writeIndex) ==
  [bytes |-> bytes, size |-> size, readIndex |-> readIndex, writeIndex |-> writeIndex]

maintain_read_index(b, len) ==
  IF len < readable_bytes(b) THEN Vector(b.bytes, b.size, b.readIndex + len, b.writeIndex)
  ELSE Vector(b.bytes, b.size, kCheapPrepend, kCheapPrepend)

resize(b, size) ==
  Vector([i \in 0 .. size - 1 |-> IF i < b.size THEN b.bytes[i] ELSE 0], size, b.readIndex, b.writeIndex)

\* Mutant: the indexes move, the bytes do not.
move_to_front_indexes(b) ==
  Vector(b.bytes, b.size, kCheapPrepend, kCheapPrepend + readable_bytes(b))

\* memmove
move_to_front(b) ==
  Vector([i \in 0 .. b.size - 1 |->
            IF i \in kCheapPrepend .. kCheapPrepend + readable_bytes(b) - 1
            THEN b.bytes[b.readIndex + (i - kCheapPrepend)] ELSE b.bytes[i]],
         b.size, kCheapPrepend, kCheapPrepend + readable_bytes(b))

\* Mutant: the prepend area counts as room.
make_space_prepend(b, len) ==
  IF writable_bytes(b) + prependable_bytes(b) < len
  THEN resize(b, b.writeIndex + len) ELSE move_to_front(b)

make_space(b, len) ==
  IF writable_bytes(b) + prependable_bytes(b) < len + kCheapPrepend
  THEN resize(b, b.writeIndex + len) ELSE move_to_front(b)

\* std::copy, or readv into the writable part: len bytes from the k-th on.
copy(b, k, len) ==
  Vector([i \in (0 .. b.size - 1) \cup (b.writeIndex .. b.writeIndex + len - 1) |->
            IF i \in b.writeIndex .. b.writeIndex + len - 1 THEN k + (i - b.writeIndex) ELSE b.bytes[i]],
         b.size, b.readIndex, b.writeIndex + len)

write_to_buffer(b, k, len) ==
  IF writable_bytes(b) < len THEN copy(make_space(b, len), k, len) ELSE copy(b, k, len)

\* readv fills the writable part first and the stack buffer with the rest.
read_from_fd(b, k, n) ==
  IF n <= writable_bytes(b) THEN copy(b, k, n)
  ELSE write_to_buffer(copy(b, k, writable_bytes(b)), k + writable_bytes(b), n - writable_bytes(b))

take(n) ==
  /\ last' = [i \in 0 .. n - 1 |-> buffer.bytes[buffer.readIndex + i]]
  /\ buffer' = maintain_read_index(buffer, n)
  /\ out' = out + n /\ UNCHANGED in

-----------------------------------------------------------------------------
WriteToBuffer ==
  \E len \in 1 .. MaxBytes - in :
    /\ buffer' = write_to_buffer(buffer, in + 1, len)
    /\ in' = in + len /\ UNCHANGED <<out, last>>

ReadFromFd ==
  \E n \in 1 .. MaxBytes - in :
    /\ n <= writable_bytes(buffer) + (IF writable_bytes(buffer) < kStackBufSize THEN kStackBufSize ELSE 0)
    /\ buffer' = read_from_fd(buffer, in + 1, n)
    /\ in' = in + n /\ UNCHANGED <<out, last>>

\* A length beyond the readable bytes is cut.
ReadFromBuffer ==
  \E len \in 0 .. MaxBytes :
    take(IF len > readable_bytes(buffer) THEN readable_bytes(buffer) ELSE len)

\* advance_read_index (the assertion holds) and a write_to_fd that succeeds.
AdvanceOrWriteToFd == \E len \in 0 .. readable_bytes(buffer) : take(len)

BufferInit ==
  /\ buffer = Vector([i \in 0 .. kCheapPrepend + initialSize - 1 |-> 0],
                     kCheapPrepend + initialSize, kCheapPrepend, kCheapPrepend)
  /\ in = 0 /\ out = 0 /\ last = [i \in {} |-> 0]

BufferNext == WriteToBuffer \/ ReadFromFd \/ ReadFromBuffer \/ AdvanceOrWriteToFd
BufferSpec == BufferInit /\ [][BufferNext]_bufferVars

-----------------------------------------------------------------------------
\* The indexes keep the order that the diagram of Buffer.h draws, with the cheap
\* prepend in front, and no copy leaves the vector.
Layout(b) ==
  /\ b.size \in Nat /\ b.readIndex \in Nat /\ b.writeIndex \in Nat
  /\ kCheapPrepend <= b.readIndex /\ b.readIndex <= b.writeIndex /\ b.writeIndex <= b.size
  /\ b.bytes \in [0 .. b.size - 1 -> Nat]

\* b holds the bytes after the first o, up to the n-th.
Holds(b, o, n) ==
  /\ o \in Nat /\ n \in Nat /\ o <= n /\ readable_bytes(b) = n - o
  /\ \A i \in b.readIndex .. b.writeIndex - 1 : b.bytes[i] = o + 1 + (i - b.readIndex)

\* Whatever is grown, moved to the front or split between the vector and the stack,
\* the readable part holds exactly the bytes that went in and did not come out.
BufferInv == Layout(buffer) /\ Holds(buffer, out, in)

\* The buffer is a byte stream.
Stream == INSTANCE ByteStream
Refines == Stream!Spec
=============================================================================
