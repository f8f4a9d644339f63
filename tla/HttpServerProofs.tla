-------------------------- MODULE HttpServerProofs --------------------------
(***************************************************************************)
(* TLAPS proofs about HttpServer, for any requests, any routes, any number *)
(* of requests on a connection and any of the ways to configure TLS.       *)
(***************************************************************************)
EXTENDS HttpServer, SequenceTheorems, FiniteSetTheorems, WellFoundedInduction, TLAPS

-----------------------------------------------------------------------------
(* The invariant.                                                          *)

Units  == [id : 0 .. MaxRequests, kind : {"head", "tail", "bad", "junk", "hello", "fin"}]
Wired  == [id : 0 .. MaxRequests, part : {1, 2}, of : {1, 2}, as : {"clear", "tls", "ktls"}]
Asked  == Requests \cup {Malformed}
Replies == [id : 0 .. MaxRequests, status : Nat, close : BOOLEAN, sent : BOOLEAN]

\* What TypeOK leaves out.
Typed ==
  /\ backlog \in Seq(Wired) /\ file \in Seq(Wired) /\ wire \in Seq(Wired)
  /\ payload \in Seq(Units) /\ inbox \in Seq(Units)
  /\ shake \in 0 .. 2
  /\ asked \in Seq(Asked) /\ Len(asked) <= MaxRequests
  /\ handled \in Seq(Replies)

\* The session, by where on_message stands.
Session ==
  /\ server = "None" => state.tls = "none"
  /\ state.tls = "none" => ~state.bios /\ state.tlsMode = "None" /\ ~state.isKtlsOffloaded
  /\ state.tls # "none" => state.tlsMode # "None"
  /\ state.isKtlsOffloaded => ~state.bios /\ state.tls = "ESTABLISHED"
  /\ state.tls = "HANDSHAKING" => handled = << >> /\ state.request = 0 /\ payload = << >>
  /\ state.tlsMode = "KernelTls" /\ ~state.isKtlsOffloaded => handled = << >>
  /\ pc = "offload" => state.bios /\ state.tls \in {"HANDSHAKING", "ESTABLISHED"}
  /\ pc = "offload" /\ payload # << >> => state.tls = "ESTABLISHED"
  /\ pc = "parse" =>
       \/ server = "None"
       \/ state.isKtlsOffloaded
       \/ state.tls = "ESTABLISHED" /\ state.tlsMode = "MemoryBio"

\* The client's flights.
Flights ==
  /\ server = "None" => shake = 0
  /\ state.tls = "ESTABLISHED" => shake = 2
  /\ \A i \in DOMAIN inbox :
       /\ inbox[i].kind = "fin" => shake = 2
       /\ inbox[i].kind \in {"hello", "fin"} => inbox[i].id = 0

\* The session can still decrypt and encrypt, and somebody listens.
Live ==
  /\ server = "None" \/ state.isKtlsOffloaded \/ (state.bios /\ state.tls # "ERROR")
  /\ open \/ pc # "poll"

\* A unit that may come after another.
Follows(u, v) ==
  CASE u.kind = "head"  -> v.kind = "tail" /\ v.id = u.id
    [] u.kind = "hello" -> v.kind \in {"hello", "fin"} /\ v.id = 0
    [] OTHER            -> v.kind \in {"head", "bad", "junk"} /\ v.id = u.id + 1

\* The unit before the first that is not parsed yet.
Current ==
  IF state.request # 0 THEN Unit(state.request, "head")
  ELSE Unit(Len(handled), IF state.tls = "HANDSHAKING" THEN "hello" ELSE "tail")

Runs(u, q) ==
  /\ q # << >> => Follows(u, q[1])
  /\ \A i \in 1 .. Len(q) - 1 : Follows(q[i], q[i + 1])

End(u, q) == IF q = << >> THEN u ELSE q[Len(q)]

\* What is not parsed yet goes on where the parser stands, up to the last request.
Stream ==
  LET q == payload \o inbox
      e == End(Current, q)
  IN /\ state.request # 0 => state.request = Len(handled) + 1
     /\ Runs(Current, q)
     /\ e.id = Len(asked) /\ e.kind # "head"
     /\ e.kind = "hello" <=> server # "None" /\ shake < 2
     /\ state.tls = "HANDSHAKING" =>
          \A i \in DOMAIN inbox : inbox[i].kind = "hello" \/ \E j \in 1 .. i : inbox[j].kind = "fin"

\* A record that will not decrypt ends the handshake.
Spoilt ==
  /\ state.tls = "HANDSHAKING"
  /\ \E i \in DOMAIN inbox : inbox[i].kind = "junk" /\ \A j \in 1 .. i : inbox[j].kind # "fin"

\* Records that the kernel hands over as they came: the first is refused.
Scrambled ==
  /\ pc = "parse" /\ state.isKtlsOffloaded /\ payload # << >>
  /\ payload[1].id = Len(handled) + 1
  /\ \A i \in DOMAIN payload : payload[i].kind = "bad"

Flow == Live => Stream \/ Spoilt \/ Scrambled

\* A piece that may come after another.
Fits(a, b, sh) ==
  b.id # 0 =>
    IF a.id = 0 THEN b.id = 1 /\ b.part = 1
    ELSE IF a.part < a.of /\ a.id \notin sh THEN b.id = a.id /\ b.part = a.part + 1
         ELSE b.id = a.id + 1 /\ b.part = 1

\* The pieces are the responses to the first n requests, in order.
Ordered(s, sh, n) ==
  /\ \A i \in 1 .. Len(s) : s[i].id <= n /\ (s[i].as = "clear" => server = "None")
  /\ s # << >> => Fits(Handshake, s[1], sh)
  /\ \A i \in 1 .. Len(s) - 1 : Fits(s[i], s[i + 1], sh)
  /\ \A j \in 1 .. Len(s) : \A i \in 1 .. j - 1 :
       s[i].id < s[j].id \/ (s[i].id = s[j].id /\ (s[i].id # 0 => s[i].part < s[j].part))

\* The last response is whole, unless its file was not.
Settled(s, sh, n) ==
  IF n = 0 THEN \A i \in 1 .. Len(s) : s[i].id = 0
  ELSE s # << >> /\ s[Len(s)].id = n /\ (s[Len(s)].part = s[Len(s)].of \/ n \in sh)

Output ==
  /\ file # << >> => open /\ file[1].id # 0 /\ file[1].part = 2
  /\ \A id \in short : id <= Len(handled)
  /\ Ordered(Sent, short, Len(handled))
  /\ open /\ Live => Settled(Sent, short, Len(handled))

\* A response that closed is the last.
Closed ==
  /\ registered <=> open
  /\ \A i \in 1 .. Len(handled) - 1 : ~(handled[i].close /\ handled[i].sent)
  /\ handled # << >> /\ handled[Len(handled)].close /\ handled[Len(handled)].sent =>
       ~open /\ pc = "poll"

IInv == TypeOK /\ Typed /\ Session /\ Flights /\ Flow /\ Output /\ Closed
-----------------------------------------------------------------------------
(* Sequences.                                                              *)

\* A nonempty set of naturals has a least element: the strict order of Nat is
\* well-founded.
LEMMA LeastNat ==
  ASSUME NEW T, T \subseteq Nat, T # {}
  PROVE  \E z \in T : \A y \in T : z <= y
<1> DEFINE R == OpToRel(<, Nat)
<1>1. IsWellFoundedOn(R, Nat)
  BY NatLessThanWellFounded
<1>2. \A x, y \in Nat : x < y => <<x, y>> \in R
  BY DEF OpToRel
<1> HIDE DEF R
<1>3. PICK z \in T : \A y \in T : <<y, z>> \notin R
  BY <1>1, WFMin
<1>4. \A y \in T : ~(y < z) /\ z \in Nat /\ y \in Nat
  BY <1>2, <1>3
<1>5. \A y \in T : z <= y
  BY <1>4
<1>6. QED BY <1>5

\* The first unit with a property.
LEMMA FirstIndex ==
  ASSUME NEW n \in Nat, NEW I, I \subseteq 1 .. n
  PROVE  LET f == IF I # {} THEN Min(I) ELSE 0
         IN  /\ f \in 0 .. n
             /\ f = 0 => I = {}
             /\ f # 0 => f \in I /\ \A i \in I : f <= i
<1>1. CASE I = {}
  BY <1>1
<1>2. CASE I # {}
  <2>1. I \subseteq Nat
    OBVIOUS
  <2>2. PICK z \in I : \A y \in I : z <= y
    BY <1>2, <2>1, LeastNat
  <2>3. Min(I) \in I /\ \A y \in I : Min(I) <= y
    BY <2>2 DEF Min
  <2>4. \A i \in I : i \in 0 .. n /\ i # 0
    OBVIOUS
  <2>5. Min(I) \in 0 .. n /\ Min(I) # 0
    BY <2>3, <2>4
  <2>6. QED BY <1>2, <2>3, <2>5
<1>3. QED BY <1>1, <1>2

\* What is taken and what is left are what there was.
LEMMA SplitSequence ==
  ASSUME NEW S, NEW t \in Seq(S), NEW w \in 0 .. Len(t)
  PROVE  /\ SubSeq(t, 1, w) \in Seq(S) /\ Len(SubSeq(t, 1, w)) = w
         /\ \A i \in 1 .. w : SubSeq(t, 1, w)[i] = t[i]
         /\ SubSeq(t, w + 1, Len(t)) \in Seq(S) /\ Len(SubSeq(t, w + 1, Len(t))) = Len(t) - w
         /\ \A i \in 1 .. Len(t) - w : SubSeq(t, w + 1, Len(t))[i] = t[w + i]
         /\ SubSeq(t, 1, w) \o SubSeq(t, w + 1, Len(t)) = t
<1>1. DEFINE a == SubSeq(t, 1, w)
             b == SubSeq(t, w + 1, Len(t))
<1>2. Len(t) \in Nat /\ w \in Nat /\ w <= Len(t) /\ \A i \in 1 .. Len(t) : t[i] \in S
  BY LenProperties, ElementOfSeq
<1>3. a \in Seq(S) /\ Len(a) = w /\ \A i \in 1 .. w : a[i] = t[i]
  BY <1>2, SubSeqProperties
<1>4. b \in Seq(S) /\ Len(b) = Len(t) - w /\ \A i \in 1 .. Len(t) - w : b[i] = t[w + i]
  BY <1>2, SubSeqProperties
<1> HIDE DEF a, b
<1>5. /\ a \o b \in Seq(S) /\ Len(a \o b) = Len(t)
      /\ \A i \in 1 .. Len(t) : (a \o b)[i] = IF i <= w THEN a[i] ELSE b[i - w]
  <2>1. /\ a \o b \in Seq(S) /\ Len(a \o b) = Len(a) + Len(b)
        /\ \A i \in 1 .. Len(a) + Len(b) :
             (a \o b)[i] = IF i <= Len(a) THEN a[i] ELSE b[i - Len(a)]
    BY <1>3, <1>4, ConcatProperties
  <2>2. Len(a) + Len(b) = Len(t)
    BY <1>2, <1>3, <1>4
  <2>3. QED BY <1>3, <2>1, <2>2
<1>6. ASSUME NEW i \in 1 .. Len(t) PROVE (a \o b)[i] = t[i]
  <2>1. CASE i <= w
    BY <1>2, <1>3, <1>5, <2>1
  <2>2. CASE i > w
    <3>1. i - w \in 1 .. Len(t) - w /\ w + (i - w) = i /\ ~(i <= w)
      BY <1>2, <2>2
    <3>2. b[i - w] = t[i]
      BY <1>4, <3>1
    <3>3. QED BY <1>5, <3>1, <3>2
  <2>3. i <= w \/ i > w
    BY <1>2
  <2>4. QED BY <2>1, <2>2, <2>3
<1>7. a \o b = t
  BY <1>5, <1>6, SeqEqual
<1>8. QED BY <1>3, <1>4, <1>7 DEF a, b

\* Elements of a concatenation.
LEMMA Joined ==
  ASSUME NEW S, NEW s \in Seq(S), NEW t \in Seq(S)
  PROVE  /\ s \o t \in Seq(S) /\ Len(s \o t) = Len(s) + Len(t)
         /\ \A i \in 1 .. Len(s) : (s \o t)[i] = s[i]
         /\ \A i \in 1 .. Len(t) : (s \o t)[Len(s) + i] = t[i]
         /\ \A i \in 1 .. Len(s) + Len(t) : i \in 1 .. Len(s) \/ \E j \in 1 .. Len(t) : i = Len(s) + j
<1>1. /\ s \o t \in Seq(S) /\ Len(s \o t) = Len(s) + Len(t)
      /\ \A i \in 1 .. Len(s) + Len(t) : (s \o t)[i] = IF i <= Len(s) THEN s[i] ELSE t[i - Len(s)]
  BY ConcatProperties
<1>2. Len(s) \in Nat /\ Len(t) \in Nat
  BY LenProperties
<1>3. \A i \in 1 .. Len(t) : Len(s) + i \in 1 .. Len(s) + Len(t) /\ ~(Len(s) + i <= Len(s))
                             /\ (Len(s) + i) - Len(s) = i
  BY <1>2
<1>4. \A i \in 1 .. Len(s) + Len(t) :
        i \in 1 .. Len(s) \/ (i - Len(s) \in 1 .. Len(t) /\ i = Len(s) + (i - Len(s)))
  BY <1>2
<1>5. \A i \in 1 .. Len(s) : i \in 1 .. Len(s) + Len(t) /\ i <= Len(s)
  BY <1>2
<1>6. \A i \in 1 .. Len(s) : (s \o t)[i] = s[i]
  BY <1>1, <1>5
<1>7. \A i \in 1 .. Len(t) : (s \o t)[Len(s) + i] = t[i]
  BY <1>1, <1>3
<1>8. QED BY <1>1, <1>4, <1>6, <1>7

\* Dropping from the first of two sequences drops from both together.
LEMMA DropJoined ==
  ASSUME NEW S, NEW s \in Seq(S), NEW t \in Seq(S), NEW k \in 0 .. Len(s)
  PROVE  SubSeq(s, k + 1, Len(s)) \o t = SubSeq(s \o t, k + 1, Len(s \o t))
<1>1. DEFINE a == SubSeq(s, 1, k)
             b == SubSeq(s, k + 1, Len(s))
             q == s \o t
             c == SubSeq(q, k + 1, Len(q))
<1>2. /\ b \in Seq(S) /\ Len(b) = Len(s) - k
      /\ \A i \in 1 .. Len(s) - k : b[i] = s[k + i]
  BY SplitSequence
<1>3. /\ q \in Seq(S) /\ Len(q) = Len(s) + Len(t)
      /\ \A i \in 1 .. Len(s) : q[i] = s[i]
      /\ \A i \in 1 .. Len(t) : q[Len(s) + i] = t[i]
  BY Joined
<1>4. Len(s) \in Nat /\ Len(t) \in Nat /\ k \in Nat /\ k <= Len(s)
  BY LenProperties
<1>5. k \in 0 .. Len(q)
  BY <1>3, <1>4
<1>6. /\ c \in Seq(S) /\ Len(c) = Len(q) - k
      /\ \A i \in 1 .. Len(q) - k : c[i] = q[k + i]
  BY <1>3, <1>5, SplitSequence
<1> HIDE DEF a, b, c, q
<1>7. /\ b \o t \in Seq(S) /\ Len(b \o t) = Len(b) + Len(t)
      /\ \A i \in 1 .. Len(b) : (b \o t)[i] = b[i]
      /\ \A i \in 1 .. Len(t) : (b \o t)[Len(b) + i] = t[i]
      /\ \A i \in 1 .. Len(b) + Len(t) : i \in 1 .. Len(b) \/ \E j \in 1 .. Len(t) : i = Len(b) + j
  BY <1>2, Joined
<1>8. ASSUME NEW i \in 1 .. Len(b) + Len(t) PROVE (b \o t)[i] = c[i]
  <2>1. CASE i \in 1 .. Len(b)
    <3>1. k + i \in 1 .. Len(s) /\ i \in 1 .. Len(q) - k /\ i \in 1 .. Len(s) - k
      BY <1>2, <1>3, <1>4, <2>1
    <3>2. (b \o t)[i] = s[k + i]
      BY <1>2, <1>7, <2>1, <3>1
    <3>3. c[i] = s[k + i]
      BY <1>3, <1>6, <3>1
    <3>4. QED BY <3>2, <3>3
  <2>2. ASSUME NEW j \in 1 .. Len(t), i = Len(b) + j PROVE (b \o t)[i] = c[i]
    <3>1. k + i = Len(s) + j /\ i \in 1 .. Len(q) - k
      BY <1>2, <1>3, <1>4, <2>2
    <3>2. c[i] = t[j]
      BY <1>3, <1>6, <3>1
    <3>3. QED BY <1>7, <2>2, <3>2
  <2>3. QED BY <1>7, <2>1, <2>2
<1>9. Len(b \o t) = Len(c)
  BY <1>2, <1>3, <1>4, <1>6, <1>7
<1>10. b \o t = c
  BY <1>6, <1>7, <1>8, <1>9, SeqEqual
<1>11. QED BY <1>10 DEF b, c, q

\* Two elements one after the other.
LEMMA TwoOf ==
  ASSUME NEW S, NEW s \in Seq(S), NEW b \in S, NEW c \in S
  PROVE  <<b, c>> \in Seq(S) /\ s \o <<b, c>> = Append(Append(s, b), c)
<1>1. <<b>> \in Seq(S) /\ <<c>> \in Seq(S)
  OBVIOUS
<1>2. Append(<<b>>, c) = <<b>> \o <<c>>
  BY <1>1, AppendIsConcat
<1>3. <<b, c>> \in Seq(S)
  OBVIOUS
<1>4. Append(<<b>>, c) = <<b, c>>
  <2>1. /\ Append(<<b>>, c) \in Seq(S) /\ Len(Append(<<b>>, c)) = 2
        /\ Append(<<b>>, c)[1] = b /\ Append(<<b>>, c)[2] = c
    BY <1>1, AppendProperties
  <2>2. <<b, c>> \in Seq(S) /\ Len(<<b, c>>) = 2
    OBVIOUS
  <2>3. \A i \in 1 .. 2 : Append(<<b>>, c)[i] = <<b, c>>[i]
    BY <2>1
  <2>4. QED BY <2>1, <2>2, <2>3, SeqEqual
<1>5. Append(s, b) \in Seq(S) /\ Append(s, b) = s \o <<b>>
  BY AppendProperties, AppendIsConcat
<1>6. Append(Append(s, b), c) = Append(s, b) \o <<c>>
  BY <1>5, AppendIsConcat
<1>7. (s \o <<b>>) \o <<c>> = s \o (<<b>> \o <<c>>)
  BY <1>1, ConcatAssociative
<1> DEFINE bc == <<b, c>>
<1>8. bc = <<b>> \o <<c>>
  BY <1>2, <1>4
<1> HIDE DEF bc
<1>9. s \o bc = Append(Append(s, b), c)
  BY <1>5, <1>6, <1>7, <1>8
<1>10. QED BY <1>3, <1>9 DEF bc
-----------------------------------------------------------------------------
(* What a client's units go through.                                       *)

LEMMA UnitIs ==
  ASSUME NEW id, NEW kind PROVE Unit(id, kind).id = id /\ Unit(id, kind).kind = kind
BY DEF Unit

\* What is left behind a unit goes on behind it, and ends where all of it did.
LEMMA RunsDrop ==
  ASSUME NEW u, NEW q \in Seq(Units), NEW k \in 1 .. Len(q), Runs(u, q)
  PROVE  LET r == SubSeq(q, k + 1, Len(q))
         IN  r \in Seq(Units) /\ Runs(q[k], r) /\ End(q[k], r) = End(u, q)
<1>1. DEFINE r == SubSeq(q, k + 1, Len(q))
<1>2. Len(q) \in Nat /\ k \in 0 .. Len(q) /\ k \in Nat /\ k <= Len(q)
  BY LenProperties
<1>3. /\ r \in Seq(Units) /\ Len(r) = Len(q) - k
      /\ \A i \in 1 .. Len(q) - k : r[i] = q[k + i]
  BY <1>2, SplitSequence
<1> HIDE DEF r
<1>4. \A i \in 1 .. Len(q) - 1 : Follows(q[i], q[i + 1])
  BY DEF Runs
<1>5. r # << >> => Len(r) > 0
  BY <1>3, EmptySeq
<1>6. Runs(q[k], r)
  <2>1. ASSUME r # << >> PROVE Follows(q[k], r[1])
    <3>1. k \in 1 .. Len(q) - 1 /\ 1 \in 1 .. Len(q) - k
      BY <1>2, <1>3, <1>5, <2>1
    <3>2. r[1] = q[k + 1]
      BY <1>3, <3>1
    <3>3. QED BY <1>4, <3>1, <3>2
  <2>2. ASSUME NEW i \in 1 .. Len(r) - 1 PROVE Follows(r[i], r[i + 1])
    <3>1. /\ i \in 1 .. Len(q) - k /\ i + 1 \in 1 .. Len(q) - k /\ k + i \in 1 .. Len(q) - 1
          /\ k + (i + 1) = (k + i) + 1
      BY <1>2, <1>3
    <3>2. r[i] = q[k + i] /\ r[i + 1] = q[(k + i) + 1]
      BY <1>3, <3>1
    <3>3. QED BY <1>4, <3>1, <3>2
  <2>3. QED BY <2>1, <2>2 DEF Runs
<1>7. End(q[k], r) = End(u, q)
  <2>1. q # << >>
    BY <1>2
  <2>2. CASE r = << >>
    <3>1. k = Len(q)
      BY <1>2, <1>3, <2>2
    <3>2. QED BY <2>1, <2>2, <3>1 DEF End
  <2>3. CASE r # << >>
    <3>1. Len(r) \in 1 .. Len(q) - k /\ k + Len(r) = Len(q)
      BY <1>2, <1>3, <1>5, <2>3
    <3>2. r[Len(r)] = q[Len(q)]
      BY <1>3, <3>1
    <3>3. QED BY <2>1, <2>3, <3>2 DEF End
  <2>4. QED BY <2>2, <2>3
<1>8. QED BY <1>3, <1>6, <1>7 DEF r

\* A unit that follows the last extends the sequence.
LEMMA RunsAppend ==
  ASSUME NEW u, NEW q \in Seq(Units), NEW v \in Units, Runs(u, q), Follows(End(u, q), v)
  PROVE  /\ Append(q, v) \in Seq(Units) /\ Runs(u, Append(q, v)) /\ End(u, Append(q, v)) = v
<1>1. DEFINE r == Append(q, v)
<1>2. /\ r \in Seq(Units) /\ r # << >> /\ Len(r) = Len(q) + 1 /\ r[Len(q) + 1] = v
      /\ \A i \in 1 .. Len(q) : r[i] = q[i]
  BY AppendProperties
<1>3. Len(q) \in Nat
  BY LenProperties
<1>4. q # << >> => Len(q) > 0
  BY <1>3, EmptySeq
<1> HIDE DEF r
<1>5. End(u, r) = v
  BY <1>2 DEF End
<1>6. Follows(u, r[1])
  <2>1. CASE q = << >>
    <3>1. r[1] = v /\ End(u, q) = u
      BY <1>2, <2>1 DEF End
    <3>2. QED BY <3>1
  <2>2. CASE q # << >>
    BY <1>2, <1>3, <1>4, <2>2 DEF Runs
  <2>3. QED BY <2>1, <2>2
<1>7. ASSUME NEW i \in 1 .. Len(r) - 1 PROVE Follows(r[i], r[i + 1])
  <2>1. i \in 1 .. Len(q)
    BY <1>2, <1>3
  <2>2. CASE i = Len(q)
    <3>1. q # << >> /\ r[i] = q[Len(q)] /\ r[i + 1] = v
      BY <1>2, <1>3, <2>1, <2>2
    <3>2. QED BY <3>1 DEF End
  <2>3. CASE i # Len(q)
    <3>1. i \in 1 .. Len(q) - 1 /\ i + 1 \in 1 .. Len(q)
      BY <1>3, <2>1, <2>3
    <3>2. r[i] = q[i] /\ r[i + 1] = q[i + 1]
      BY <1>2, <2>1, <3>1
    <3>3. QED BY <3>1, <3>2 DEF Runs
  <2>4. QED BY <2>2, <2>3
<1>8. QED BY <1>2, <1>5, <1>6, <1>7 DEF Runs, r

\* Runs after a unit that allows at least the same.
LEMMA RunsAs ==
  ASSUME NEW u, NEW w, NEW q \in Seq(Units), Runs(u, q),
         \A v \in Units : Follows(u, v) => Follows(w, v)
  PROVE  Runs(w, q)
<1>1. q # << >> => q[1] \in Units
  <2>1. Len(q) \in Nat /\ (q # << >> => Len(q) > 0)
    BY LenProperties, EmptySeq
  <2>2. q # << >> => 1 \in 1 .. Len(q)
    BY <2>1
  <2>3. QED BY <2>2, ElementOfSeq
<1>2. QED BY <1>1 DEF Runs
-----------------------------------------------------------------------------
(* Records and requests.                                                   *)

\* What is read of a chunk, by the state of the session.
LEMMA ReadChunk ==
  ASSUME TypeOK, NEW chunk \in Seq(Units), chunk # << >>, state.tls # "none"
  PROVE  LET read == read_plaintext(chunk)
             alive == state.bios /\ state.tls # "ERROR"
         IN  \/ /\ read.result = "Error" /\ (read.tls = "ERROR" \/ (~alive /\ read.tls = state.tls))
                /\ read.outbound = << >> \/ (state.tls = "HANDSHAKING" /\ read.outbound = <<Handshake>>)
             \/ /\ alive /\ state.tls = "HANDSHAKING" /\ read.result # "Error"
                /\ read.outbound = <<Handshake>>
                /\ \/ /\ read.tls = "HANDSHAKING" /\ read.plaintext = << >>
                      /\ \A i \in 1 .. Len(chunk) : chunk[i].kind \notin {"fin", "junk"}
                   \/ \E f \in 1 .. Len(chunk) :
                        /\ read.tls = "ESTABLISHED"
                        /\ read.plaintext = SubSeq(chunk, f + 1, Len(chunk))
                        /\ chunk[f].kind = "fin"
                        /\ \A i \in 1 .. f - 1 : chunk[i].kind \notin {"fin", "junk"}
             \/ /\ alive /\ state.tls = "ESTABLISHED" /\ read.result # "Error"
                /\ read.tls = "ESTABLISHED" /\ read.plaintext = chunk
                /\ read.outbound = << >>
<1>1. DEFINE I == {i \in 1 .. Len(chunk) : chunk[i].kind = "fin"}
             f == IF I # {} THEN Min(I) ELSE 0
             rest == IF state.tls = "ESTABLISHED" THEN chunk ELSE SubSeq(chunk, f + 1, Len(chunk))
             out == IF state.tls = "HANDSHAKING" THEN <<Handshake>> ELSE << >>
             alive == state.bios /\ state.tls # "ERROR"
<1>2. Len(chunk) \in Nat /\ DOMAIN chunk = 1 .. Len(chunk)
  BY LenProperties
<1>3. f \in 0 .. Len(chunk) /\ (f = 0 => I = {}) /\ (f # 0 => f \in I /\ \A i \in I : f <= i)
  BY <1>2, FirstIndex
<1>4. state.tls \in {"HANDSHAKING", "ESTABLISHED", "ERROR"} /\ state.bios \in BOOLEAN
  BY DEF TypeOK
<1>5. read_plaintext(chunk) =
        CASE ~alive -> ReadResult("Error", state.tls, << >>, << >>)
          [] alive /\ state.tls = "HANDSHAKING" /\ f = 0 ->
               IF Junk(chunk) THEN ReadResult("Error", "ERROR", << >>, << >>)
                              ELSE ReadResult("NeedMoreData", "HANDSHAKING", << >>, out)
          [] alive /\ state.tls = "HANDSHAKING" /\ Junk(SubSeq(chunk, 1, f)) ->
               ReadResult("Error", "ERROR", << >>, << >>)
          [] OTHER ->
               IF Junk(rest) THEN ReadResult("Error", "ERROR", << >>, out)
               ELSE ReadResult(IF rest = << >> THEN "NeedMoreData" ELSE "Ready", "ESTABLISHED", rest, out)
  BY DEF read_plaintext, ensure_tls_session, SelectInSeq
<1> HIDE DEF f, rest, out, alive
<1>6. CASE ~alive
  <2>1. read_plaintext(chunk) = ReadResult("Error", state.tls, << >>, << >>)
    BY <1>5, <1>6
  <2>2. QED BY <1>6, <2>1 DEF ReadResult, alive
<1>7. CASE alive /\ state.tls = "HANDSHAKING" /\ f = 0
  <2>1. \A i \in 1 .. Len(chunk) : chunk[i].kind # "fin"
    BY <1>3, <1>7
  <2>2. CASE Junk(chunk)
    <3>1. read_plaintext(chunk) = ReadResult("Error", "ERROR", << >>, << >>)
      BY <1>5, <1>7, <2>2
    <3>2. QED BY <3>1 DEF ReadResult
  <2>3. CASE ~Junk(chunk)
    <3>1. read_plaintext(chunk) = ReadResult("NeedMoreData", "HANDSHAKING", << >>, <<Handshake>>)
      <4>1. read_plaintext(chunk) = ReadResult("NeedMoreData", "HANDSHAKING", << >>, out)
        <5>1. SubSeq(chunk, 1, f) = << >>
          BY <1>7, SubSeqEmpty
        <5>2. ~Junk(SubSeq(chunk, 1, f))
          <6>1. \A i : i \notin DOMAIN << >>
            OBVIOUS
          <6>2. QED BY <5>1, <6>1 DEF Junk
        <5>3. QED BY <1>5, <1>7, <2>3, <5>2
      <4>2. out = <<Handshake>>
        BY <1>7 DEF out
      <4>3. QED BY <4>1, <4>2
    <3>2. \A i \in 1 .. Len(chunk) : chunk[i].kind # "junk"
      BY <1>2, <2>3 DEF Junk
    <3>3. QED BY <1>7, <2>1, <3>1, <3>2 DEF ReadResult, alive
  <2>4. QED BY <2>2, <2>3
<1>8. CASE alive /\ state.tls = "HANDSHAKING" /\ f # 0
  <2>1. f \in 1 .. Len(chunk) /\ chunk[f].kind = "fin" /\ f \in 0 .. Len(chunk)
    BY <1>2, <1>3, <1>8
  <2>2. \A i \in 1 .. f - 1 : chunk[i].kind # "fin"
    <3>1. ASSUME NEW i \in 1 .. f - 1, chunk[i].kind = "fin" PROVE FALSE
      <4>1. i \in I
        BY <1>2, <2>1, <3>1
      <4>2. QED BY <1>3, <2>1, <4>1
    <3>2. QED BY <3>1
  <2>3. CASE Junk(SubSeq(chunk, 1, f))
    <3>1. read_plaintext(chunk) = ReadResult("Error", "ERROR", << >>, << >>)
      BY <1>5, <1>8, <2>3
    <3>2. QED BY <3>1 DEF ReadResult
  <2>4. CASE ~Junk(SubSeq(chunk, 1, f))
    <3>1. /\ SubSeq(chunk, 1, f) \in Seq(Units) /\ Len(SubSeq(chunk, 1, f)) = f
          /\ \A i \in 1 .. f : SubSeq(chunk, 1, f)[i] = chunk[i]
      BY <2>1, SplitSequence
    <3>2. DOMAIN SubSeq(chunk, 1, f) = 1 .. f
      BY <3>1, LenProperties
    <3>3. \A i \in 1 .. f : chunk[i].kind # "junk"
      BY <2>4, <3>1, <3>2 DEF Junk
    <3>4. \A i \in 1 .. f - 1 : i \in 1 .. f
      BY <1>2, <2>1
    <3>5. rest = SubSeq(chunk, f + 1, Len(chunk)) /\ out = <<Handshake>>
      BY <1>8 DEF rest, out
    <3>6. CASE Junk(rest)
      <4>1. read_plaintext(chunk) = ReadResult("Error", "ERROR", << >>, out)
        BY <1>5, <1>8, <2>4, <3>6
      <4>2. QED BY <1>8, <3>5, <4>1 DEF ReadResult
    <3>7. CASE ~Junk(rest)
      <4>1. read_plaintext(chunk) =
              ReadResult(IF rest = << >> THEN "NeedMoreData" ELSE "Ready", "ESTABLISHED", rest, out)
        BY <1>5, <1>8, <2>4, <3>7
      <4>2. /\ read_plaintext(chunk).result # "Error"
            /\ read_plaintext(chunk).tls = "ESTABLISHED"
            /\ read_plaintext(chunk).plaintext = SubSeq(chunk, f + 1, Len(chunk))
            /\ read_plaintext(chunk).outbound = <<Handshake>>
        <5>1. PICK res \in {"NeedMoreData", "Ready"} :
                read_plaintext(chunk) = ReadResult(res, "ESTABLISHED", rest, out)
          BY <4>1
        <5>2. /\ read_plaintext(chunk).result = res
              /\ read_plaintext(chunk).tls = "ESTABLISHED"
              /\ read_plaintext(chunk).plaintext = rest
              /\ read_plaintext(chunk).outbound = out
          BY <5>1 DEF ReadResult
        <5>3. QED BY <3>5, <5>2
      <4>3. \A i \in 1 .. f - 1 : chunk[i].kind \notin {"fin", "junk"}
        BY <2>2, <3>3, <3>4
      <4>4. QED BY <1>8, <2>1, <4>2, <4>3 DEF alive
    <3>8. QED BY <3>6, <3>7
  <2>5. QED BY <2>3, <2>4
<1>9. CASE alive /\ state.tls = "ESTABLISHED"
  <2>1. rest = chunk /\ out = << >>
    BY <1>9 DEF rest, out
  <2>2. CASE Junk(rest)
    <3>1. read_plaintext(chunk) = ReadResult("Error", "ERROR", << >>, out)
      BY <1>5, <1>9, <2>2
    <3>2. QED BY <2>1, <3>1 DEF ReadResult
  <2>3. CASE ~Junk(rest)
    <3>1. read_plaintext(chunk) =
            ReadResult(IF rest = << >> THEN "NeedMoreData" ELSE "Ready", "ESTABLISHED", rest, out)
      BY <1>5, <1>9, <2>3
    <3>2. QED BY <1>9, <2>1, <3>1 DEF ReadResult, alive
  <2>4. QED BY <2>2, <2>3
<1>10. QED
  BY <1>4, <1>6, <1>7, <1>8, <1>9 DEF alive

\* The units up to the first that is no head.
LEMMA ConsumedIs ==
  ASSUME payload \in Seq(Units)
  PROVE  /\ Consumed \in 0 .. Len(payload)
         /\ Consumed = 0 => \A i \in 1 .. Len(payload) : payload[i].kind = "head"
         /\ Consumed > 0 => /\ payload[Consumed].kind # "head"
                            /\ \A i \in 1 .. Consumed - 1 : payload[i].kind = "head"
<1>1. DEFINE I == {i \in 1 .. Len(payload) : payload[i].kind # "head"}
             f == IF I # {} THEN Min(I) ELSE 0
<1>2. Consumed = f
  BY DEF Consumed, SelectInSeq
<1>3. Len(payload) \in Nat
  BY LenProperties
<1>4. f \in 0 .. Len(payload) /\ (f = 0 => I = {}) /\ (f # 0 => f \in I /\ \A i \in I : f <= i)
  BY <1>3, FirstIndex
<1> HIDE DEF f
<1>5. ASSUME f > 0, NEW i \in 1 .. f - 1 PROVE payload[i].kind = "head"
  <2>1. i \in 1 .. Len(payload) /\ ~(f <= i)
    BY <1>3, <1>4, <1>5
  <2>2. QED BY <1>4, <1>5, <2>1
<1>6. f > 0 => f # 0
  BY <1>3, <1>4
<1>7. QED BY <1>2, <1>4, <1>5, <1>6

\* A response is one piece, or two of which the second is a file, and then it
\* does not close.
LEMMA ResponseIs ==
  ASSUME NEW req
  PROVE  LET resp == dispatch(req)
         IN  /\ resp.file \in {0, 1} /\ resp.close \in BOOLEAN /\ resp.status \in Nat
             /\ resp.file = 1 => ~resp.close
BY RouterAssumption DEF RouterAssumption, dispatch, on_http_request, package_file_response,
   plain_text, Response

LEMMA BadIs == Bad.file = 0 /\ Bad.close = TRUE /\ Bad.status \in Nat
BY DEF Bad, plain_text, Response

\* The pieces of a response: one, or a header and a file.
LEMMA PiecesAre ==
  ASSUME NEW id, NEW resp, resp.file \in {0, 1}, NEW way
  PROVE  /\ resp.file = 0 => Pieces(id, resp, way) = <<Piece(id, 1, 1, way)>>
         /\ resp.file = 1 => Pieces(id, resp, way) = <<Piece(id, 1, 2, way), Piece(id, 2, 2, way)>>
<1>1. DEFINE S == {Piece(id, part, 1 + resp.file, way) : part \in {1, 2}}
             p == Pieces(id, resp, way)
<1>2. CASE resp.file = 0
  <2>1. /\ p \in Seq(S) /\ Len(p) = 1 /\ p[1] = Piece(id, 1, 1, way)
    <3>1. p = [part \in 1 .. 1 |-> Piece(id, part, 1, way)]
      BY <1>2 DEF Pieces
    <3>2. \A part \in 1 .. 1 : part = 1 /\ Piece(id, part, 1, way) \in S
      BY <1>2
    <3>3. p \in [1 .. 1 -> S]
      BY <3>1, <3>2
    <3> HIDE DEF p, S
    <3>4. p \in Seq(S)
      <4>1. \E n \in Nat : p \in [1 .. n -> S]
        BY <3>3
      <4>2. QED BY <4>1, SeqDef
    <3>5. Len(p) \in Nat /\ 1 .. Len(p) = 1 .. 1
      BY <3>3, <3>4, LenProperties
    <3>6. Len(p) = 1
      <4>1. 1 \in 1 .. Len(p)
        BY <3>5
      <4>2. Len(p) \in 1 .. Len(p)
        BY <3>5, <4>1
      <4>3. Len(p) \in 1 .. 1
        BY <3>5, <4>2
      <4>4. QED BY <4>3
    <3>7. p[1] = Piece(id, 1, 1, way)
      BY <3>1
    <3>8. QED BY <3>7, <3>4, <3>6
  <2>2. LET q == <<Piece(id, 1, 1, way)>> IN q \in Seq(S) /\ Len(q) = 1 /\ q[1] = Piece(id, 1, 1, way)
    BY <1>2
  <2> HIDE DEF p, S
  <2>3. p = <<Piece(id, 1, 1, way)>>
    <3>1. \A i \in 1 .. 1 : i = 1
      OBVIOUS
    <3>2. QED BY <2>1, <2>2, <3>1, SeqEqual
  <2>4. QED BY <1>2, <2>3 DEF p
<1>3. CASE resp.file = 1
  <2>1. /\ p \in Seq(S) /\ Len(p) = 2 /\ p[1] = Piece(id, 1, 2, way) /\ p[2] = Piece(id, 2, 2, way)
    <3>1. p = [part \in 1 .. 2 |-> Piece(id, part, 2, way)]
      BY <1>3 DEF Pieces
    <3>2. \A part \in 1 .. 2 : Piece(id, part, 2, way) \in S
      <4>1. 1 + resp.file = 2 /\ \A part \in 1 .. 2 : part \in {1, 2}
        BY <1>3
      <4>2. QED BY <4>1
    <3>3. p \in [1 .. 2 -> S]
      BY <3>1, <3>2
    <3> HIDE DEF p, S
    <3>4. p \in Seq(S)
      <4>1. \E n \in Nat : p \in [1 .. n -> S]
        BY <3>3
      <4>2. QED BY <4>1, SeqDef
    <3>5. Len(p) \in Nat /\ 1 .. Len(p) = 1 .. 2
      BY <3>3, <3>4, LenProperties
    <3>6. Len(p) = 2
      <4>1. 1 \in 1 .. Len(p)
        BY <3>5
      <4>2. Len(p) \in 1 .. Len(p)
        BY <3>5, <4>1
      <4>3. Len(p) \in 1 .. 2 /\ 2 \in 1 .. Len(p)
        <5>1. 2 \in 1 .. 2
          OBVIOUS
        <5>2. QED BY <3>5, <4>2, <5>1
      <4>4. QED BY <4>3
    <3>7. p[1] = Piece(id, 1, 2, way) /\ p[2] = Piece(id, 2, 2, way)
      BY <3>1
    <3>8. QED BY <3>7, <3>4, <3>6
  <2>2. LET q == <<Piece(id, 1, 2, way), Piece(id, 2, 2, way)>>
        IN  q \in Seq(S) /\ Len(q) = 2 /\ q[1] = Piece(id, 1, 2, way) /\ q[2] = Piece(id, 2, 2, way)
    BY <1>3
  <2> HIDE DEF p, S
  <2>3. p = <<Piece(id, 1, 2, way), Piece(id, 2, 2, way)>>
    <3>1. \A i \in 1 .. 2 : i = 1 \/ i = 2
      OBVIOUS
    <3>2. QED BY <2>1, <2>2, <3>1, SeqEqual
  <2>4. QED BY <1>3, <2>3 DEF p
<1>4. QED BY <1>2, <1>3
-----------------------------------------------------------------------------
(* What the client is sent.                                                *)

Begins(p, s) == Len(p) <= Len(s) /\ \A i \in 1 .. Len(p) : p[i] = s[i]

LEMMA PieceIs ==
  ASSUME NEW id, NEW part, NEW of, NEW way
  PROVE  /\ Piece(id, part, of, way).id = id /\ Piece(id, part, of, way).part = part
         /\ Piece(id, part, of, way).of = of /\ Piece(id, part, of, way).as = way
         /\ (id \in 0 .. MaxRequests /\ part \in {1, 2} /\ of \in {1, 2}
               /\ way \in {"clear", "tls", "ktls"} => Piece(id, part, of, way) \in Wired)
BY DEF Piece, Wired

\* A record of the handshake.
LEMMA HandshakeIs ==
  Handshake \in Wired /\ Handshake.id = 0 /\ Handshake.as = "tls"
BY HttpAssumption DEF HttpAssumption, Handshake, Piece, Wired

\* A beginning of what is in order is in order.
LEMMA OrderedPrefix ==
  ASSUME NEW s \in Seq(Wired), NEW p \in Seq(Wired), NEW sh, NEW n, Begins(p, s), Ordered(s, sh, n)
  PROVE  Ordered(p, sh, n)
<1>1. Len(p) \in Nat /\ Len(s) \in Nat /\ Len(p) <= Len(s)
  BY LenProperties DEF Begins
<1>2. \A i \in 1 .. Len(p) : i \in 1 .. Len(s) /\ p[i] = s[i]
  BY <1>1 DEF Begins
<1>3. \A i \in 1 .. Len(p) : p[i].id <= n /\ (p[i].as = "clear" => server = "None")
  BY <1>2 DEF Ordered
<1>4. p # << >> => Fits(Handshake, p[1], sh)
  <2>1. ASSUME p # << >> PROVE Fits(Handshake, p[1], sh)
    <3>1. Len(p) > 0
      BY <1>1, <2>1, EmptySeq
    <3>2. 1 \in 1 .. Len(p) /\ Len(s) # 0
      BY <1>1, <3>1
    <3>3. s # << >>
      BY <3>2
    <3>4. QED BY <1>2, <3>2, <3>3 DEF Ordered
  <2>2. QED BY <2>1
<1>5. ASSUME NEW i \in 1 .. Len(p) - 1 PROVE Fits(p[i], p[i + 1], sh)
  <2>1. i \in 1 .. Len(p) /\ i + 1 \in 1 .. Len(p) /\ i \in 1 .. Len(s) - 1
    BY <1>1
  <2>2. p[i] = s[i] /\ p[i + 1] = s[i + 1]
    BY <1>2, <2>1
  <2>3. QED BY <2>1, <2>2 DEF Ordered
<1>6. ASSUME NEW j \in 1 .. Len(p), NEW i \in 1 .. j - 1
      PROVE  p[i].id < p[j].id \/ (p[i].id = p[j].id /\ (p[i].id # 0 => p[i].part < p[j].part))
  <2>1. i \in 1 .. Len(p) /\ j \in 1 .. Len(s)
    BY <1>1
  <2>2. p[i] = s[i] /\ p[j] = s[j]
    BY <1>2, <2>1
  <2>3. QED BY <2>1, <2>2 DEF Ordered
<1>7. QED BY <1>3, <1>4, <1>5, <1>6 DEF Ordered

\* One more response, none of it sent yet, whether or not its file will be short.
LEMMA OrderedGrows ==
  ASSUME NEW s \in Seq(Wired), NEW sh, NEW n \in Nat, \A id \in sh : id <= n, Ordered(s, sh, n)
  PROVE  Ordered(s, sh, n + 1) /\ Ordered(s, sh \cup {n + 1}, n + 1)
<1>1. \A i \in 1 .. Len(s) : s[i].id \in Nat /\ s[i].id <= n /\ s[i].id # n + 1 /\ s[i].id <= n + 1
  <2>1. \A i \in 1 .. Len(s) : s[i].id \in 0 .. MaxRequests
    <3>1. \A i \in 1 .. Len(s) : s[i] \in Wired
      BY ElementOfSeq
    <3>2. QED BY <3>1 DEF Wired
  <2>2. \A i \in 1 .. Len(s) : s[i].id \in Nat /\ s[i].id <= n
    BY <2>1 DEF Ordered
  <2>3. QED BY <2>2
<1>2. s # << >> => Fits(Handshake, s[1], sh \cup {n + 1})
  BY HandshakeIs DEF Ordered, Fits
<1>3. ASSUME NEW i \in 1 .. Len(s) - 1 PROVE Fits(s[i], s[i + 1], sh \cup {n + 1})
  <2>1. i \in 1 .. Len(s)
    BY LenProperties
  <2>2. s[i].id \in sh \cup {n + 1} <=> s[i].id \in sh
    BY <1>1, <2>1
  <2>3. Fits(s[i], s[i + 1], sh)
    BY DEF Ordered
  <2>4. QED BY <2>2, <2>3 DEF Fits
<1>4. QED BY <1>1, <1>2, <1>3 DEF Ordered

\* A piece that fits behind the last and comes after all of them.
LEMMA OrderedAppend ==
  ASSUME NEW s \in Seq(Wired), NEW b \in Wired, NEW sh, NEW n, Ordered(s, sh, n),
         b.id <= n, b.as = "clear" => server = "None",
         Fits(IF s = << >> THEN Handshake ELSE s[Len(s)], b, sh),
         \A i \in 1 .. Len(s) :
           s[i].id < b.id \/ (s[i].id = b.id /\ (s[i].id # 0 => s[i].part < b.part))
  PROVE  /\ Append(s, b) \in Seq(Wired) /\ Append(s, b) # << >>
         /\ Len(Append(s, b)) = Len(s) + 1 /\ Append(s, b)[Len(s) + 1] = b
         /\ \A i \in 1 .. Len(s) : Append(s, b)[i] = s[i]
         /\ Ordered(Append(s, b), sh, n)
<1>1. DEFINE t == Append(s, b)
<1>2. /\ t \in Seq(Wired) /\ t # << >> /\ Len(t) = Len(s) + 1 /\ t[Len(s) + 1] = b
      /\ \A i \in 1 .. Len(s) : t[i] = s[i]
  BY AppendProperties
<1>3. Len(s) \in Nat /\ (s # << >> => Len(s) > 0)
  BY LenProperties, EmptySeq
<1> HIDE DEF t
<1>4. \A i \in 1 .. Len(t) : t[i].id <= n /\ (t[i].as = "clear" => server = "None")
  <2>1. \A i \in 1 .. Len(t) : i \in 1 .. Len(s) \/ i = Len(s) + 1
    BY <1>2, <1>3
  <2>2. QED BY <1>2, <2>1 DEF Ordered
<1>5. Fits(Handshake, t[1], sh)
  <2>1. CASE s = << >>
    <3>1. Len(s) = 0
      BY <2>1
    <3>2. t[1] = b
      BY <1>2, <3>1
    <3>3. QED BY <2>1, <3>2
  <2>2. CASE s # << >>
    <3>1. t[1] = s[1]
      BY <1>2, <1>3, <2>2
    <3>2. QED BY <2>2, <3>1 DEF Ordered
  <2>3. QED BY <2>1, <2>2
<1>6. ASSUME NEW i \in 1 .. Len(t) - 1 PROVE Fits(t[i], t[i + 1], sh)
  <2>1. i \in 1 .. Len(s) /\ Len(s) > 0
    BY <1>2, <1>3
  <2>2. CASE i = Len(s)
    <3>1. s # << >>
      BY <2>1
    <3>2. t[i] = s[Len(s)] /\ t[i + 1] = b
      BY <1>2, <2>1, <2>2
    <3>3. QED BY <3>1, <3>2
  <2>3. CASE i # Len(s)
    <3>1. i \in 1 .. Len(s) - 1 /\ i + 1 \in 1 .. Len(s)
      BY <1>3, <2>1, <2>3
    <3>2. t[i] = s[i] /\ t[i + 1] = s[i + 1]
      BY <1>2, <2>1, <3>1
    <3>3. QED BY <3>1, <3>2 DEF Ordered
  <2>4. QED BY <2>2, <2>3
<1>7. ASSUME NEW j \in 1 .. Len(t), NEW i \in 1 .. j - 1
      PROVE  t[i].id < t[j].id \/ (t[i].id = t[j].id /\ (t[i].id # 0 => t[i].part < t[j].part))
  <2>1. i \in 1 .. Len(s)
    BY <1>2, <1>3
  <2>2. t[i] = s[i]
    BY <1>2, <2>1
  <2>3. CASE j = Len(s) + 1
    <3>1. t[j] = b
      BY <1>2, <2>3
    <3>2. QED BY <2>1, <2>2, <3>1
  <2>4. CASE j # Len(s) + 1
    <3>1. j \in 1 .. Len(s)
      BY <1>2, <1>3, <2>4
    <3>2. t[j] = s[j]
      BY <1>2, <3>1
    <3>3. QED BY <2>2, <3>1, <3>2 DEF Ordered
  <2>5. QED BY <2>3, <2>4
<1>8. QED BY <1>2, <1>4, <1>5, <1>6, <1>7 DEF Ordered, t

\* Records of the handshake alone are in order.
LEMMA OrderedZero ==
  ASSUME NEW s \in Seq(Wired), NEW sh, NEW n \in Nat,
         \A i \in 1 .. Len(s) : s[i].id = 0 /\ (s[i].as = "clear" => server = "None")
  PROVE  Ordered(s, sh, n)
<1>1. Len(s) \in Nat /\ (s # << >> => Len(s) > 0)
  BY LenProperties, EmptySeq
<1>2. s # << >> => 1 \in 1 .. Len(s)
  BY <1>1
<1>3. \A i \in 1 .. Len(s) - 1 : i + 1 \in 1 .. Len(s)
  BY <1>1
<1>4. \A j \in 1 .. Len(s) : \A i \in 1 .. j - 1 : i \in 1 .. Len(s)
  BY <1>1
<1>5. \A i \in 1 .. Len(s) : s[i].id <= n
  OBVIOUS
<1>6. QED BY <1>2, <1>3, <1>4, <1>5 DEF Ordered, Fits

\* The next response, or its head alone, behind what is settled.
LEMMA OrderedReply ==
  ASSUME NEW s \in Seq(Wired), NEW sh, NEW n \in Nat, n + 1 <= MaxRequests,
         \A id \in sh : id <= n, Ordered(s, sh, n), Settled(s, sh, n),
         NEW of \in {1, 2}, NEW way \in {"clear", "tls", "ktls"}, way = "clear" => server = "None"
  PROVE  LET t == Append(s, Piece(n + 1, 1, of, way))
             w == Append(t, Piece(n + 1, 2, 2, way))
         IN  /\ t \in Seq(Wired) /\ Ordered(t, sh, n + 1) /\ Ordered(t, sh \cup {n + 1}, n + 1)
             /\ of = 1 => Settled(t, sh, n + 1)
             /\ Settled(t, sh \cup {n + 1}, n + 1)
             /\ of = 2 => /\ w \in Seq(Wired) /\ Ordered(w, sh, n + 1)
                          /\ Settled(w, sh, n + 1)
<1>1. DEFINE b == Piece(n + 1, 1, of, way)
             c == Piece(n + 1, 2, 2, way)
             t == Append(s, b)
             w == Append(t, c)
<1>2. /\ b \in Wired /\ b.id = n + 1 /\ b.part = 1 /\ b.of = of /\ b.as = way
      /\ c \in Wired /\ c.id = n + 1 /\ c.part = 2 /\ c.of = 2 /\ c.as = way
  <2>1. n + 1 \in 0 .. MaxRequests
    BY HttpAssumption DEF HttpAssumption
  <2>2. b \in Wired /\ c \in Wired
    BY <2>1, PieceIs
  <2>3. b.id = n + 1 /\ b.part = 1 /\ b.of = of /\ b.as = way
    BY DEF Piece
  <2>4. c.id = n + 1 /\ c.part = 2 /\ c.of = 2 /\ c.as = way
    BY DEF Piece
  <2>5. QED BY <2>2, <2>3, <2>4
<1> HIDE DEF b, c
<1>3. Ordered(s, sh, n + 1) /\ Ordered(s, sh \cup {n + 1}, n + 1)
  BY OrderedGrows
<1>4. \A i \in 1 .. Len(s) : s[i].id \in Nat /\ s[i].id <= n
  <2>1. \A i \in 1 .. Len(s) : s[i].id \in 0 .. MaxRequests
    <3>1. \A i \in 1 .. Len(s) : s[i] \in Wired
      BY ElementOfSeq
    <3>2. QED BY <3>1 DEF Wired
  <2>2. QED BY <2>1 DEF Ordered
<1>5. \A i \in 1 .. Len(s) : s[i].id < b.id
  BY <1>2, <1>4
<1>6. LET a == IF s = << >> THEN Handshake ELSE s[Len(s)]
      IN  Fits(a, b, sh) /\ Fits(a, b, sh \cup {n + 1})
  <2>1. CASE s = << >>
    <3>1. n = 0
      BY <2>1 DEF Settled
    <3>2. QED BY <1>2, <2>1, <3>1, HandshakeIs DEF Fits
  <2>2. CASE s # << >> /\ n = 0
    <3>1. Len(s) \in 1 .. Len(s)
      BY <2>2, LenProperties, EmptySeq
    <3>2. s[Len(s)].id = 0
      BY <2>2, <3>1 DEF Settled
    <3>3. QED BY <1>2, <2>2, <3>2 DEF Fits
  <2>3. CASE s # << >> /\ n # 0
    <3>1. Len(s) \in 1 .. Len(s)
      BY <2>3, LenProperties, EmptySeq
    <3>2. /\ s[Len(s)].id = n
          /\ s[Len(s)].part = s[Len(s)].of \/ n \in sh
      BY <2>3 DEF Settled
    <3>3. s[Len(s)].of \in {1, 2}
      <4>1. s[Len(s)] \in Wired
        BY <3>1, ElementOfSeq
      <4>2. QED BY <4>1 DEF Wired
    <3>4. ~(s[Len(s)].part < s[Len(s)].of /\ s[Len(s)].id \notin sh)
      BY <3>2, <3>3
    <3>5. QED BY <1>2, <2>3, <3>2, <3>4 DEF Fits
  <2>4. QED BY <2>1, <2>2, <2>3
<1>7. /\ b \in Wired /\ b.id <= n + 1 /\ (b.as = "clear" => server = "None")
      /\ Fits(IF s = << >> THEN Handshake ELSE s[Len(s)], b, sh)
      /\ Fits(IF s = << >> THEN Handshake ELSE s[Len(s)], b, sh \cup {n + 1})
      /\ \A i \in 1 .. Len(s) :
           s[i].id < b.id \/ (s[i].id = b.id /\ (s[i].id # 0 => s[i].part < b.part))
  <2>1. b \in Wired /\ b.id <= n + 1 /\ (b.as = "clear" => server = "None")
    <3>1. n + 1 <= n + 1
      OBVIOUS
    <3>2. b.id <= n + 1
      BY <1>2, <3>1
    <3>3. b \in Wired /\ (b.as = "clear" => server = "None")
      BY <1>2
    <3>4. QED BY <3>2, <3>3
  <2>2. \A i \in 1 .. Len(s) : s[i].id < b.id
    BY <1>5
  <2>3. /\ Fits(IF s = << >> THEN Handshake ELSE s[Len(s)], b, sh)
        /\ Fits(IF s = << >> THEN Handshake ELSE s[Len(s)], b, sh \cup {n + 1})
    BY <1>6
  <2>4. QED BY <2>1, <2>2, <2>3
<1>8. /\ t \in Seq(Wired) /\ t # << >> /\ Len(t) = Len(s) + 1 /\ t[Len(s) + 1] = b
      /\ \A i \in 1 .. Len(s) : t[i] = s[i]
      /\ Ordered(t, sh, n + 1)
  BY <1>3, <1>7, OrderedAppend
<1>9. Ordered(t, sh \cup {n + 1}, n + 1)
  BY <1>3, <1>7, OrderedAppend
<1> HIDE DEF t
<1>10. n + 1 # 0 /\ t[Len(t)] = b
  BY <1>8
<1>11. (of = 1 => Settled(t, sh, n + 1)) /\ Settled(t, sh \cup {n + 1}, n + 1)
  BY <1>2, <1>8, <1>10 DEF Settled
<1>12. ASSUME of = 2 PROVE w \in Seq(Wired) /\ Ordered(w, sh, n + 1) /\ Settled(w, sh, n + 1)
  <2>1. n + 1 \notin sh
    BY DEF Settled
  <2>2. Fits(t[Len(t)], c, sh)
    BY <1>2, <1>10, <1>12, <2>1 DEF Fits
  <2>3. \A i \in 1 .. Len(t) : t[i].id < c.id \/ (t[i].id = c.id /\ (t[i].id # 0 => t[i].part < c.part))
    <3>1. \A i \in 1 .. Len(t) : i \in 1 .. Len(s) \/ i = Len(s) + 1
      BY <1>8, LenProperties
    <3>2. QED BY <1>2, <1>5, <1>8, <3>1
  <2>4. /\ w \in Seq(Wired) /\ w # << >> /\ Len(w) = Len(t) + 1 /\ w[Len(t) + 1] = c
        /\ Ordered(w, sh, n + 1)
    <3>1. /\ c \in Wired /\ c.id <= n + 1 /\ (c.as = "clear" => server = "None")
          /\ Fits(IF t = << >> THEN Handshake ELSE t[Len(t)], c, sh)
      <4>1. c \in Wired /\ c.id <= n + 1 /\ (c.as = "clear" => server = "None")
        <5>1. n + 1 <= n + 1
          OBVIOUS
        <5>2. c.id <= n + 1
          BY <1>2, <5>1
        <5>3. c \in Wired /\ (c.as = "clear" => server = "None")
          BY <1>2
        <5>4. QED BY <5>2, <5>3
      <4>2. t # << >>
        BY <1>8
      <4>3. QED BY <2>2, <4>1, <4>2
    <3>2. QED BY <1>8, <2>3, <3>1, OrderedAppend
  <2> HIDE DEF w
  <2>5. w[Len(w)] = c
    BY <2>4
  <2>6. QED BY <1>2, <1>10, <2>4, <2>5 DEF Settled
<1>13. /\ t \in Seq(Wired) /\ Ordered(t, sh, n + 1) /\ Ordered(t, sh \cup {n + 1}, n + 1)
       /\ of = 1 => Settled(t, sh, n + 1)
       /\ Settled(t, sh \cup {n + 1}, n + 1)
  BY <1>8, <1>9, <1>11
<1>14. QED BY <1>12, <1>13 DEF b, c, t, w
-----------------------------------------------------------------------------
(* What the calls of the connection do to it.                              *)

Tcp ==
  /\ backlog \in Seq(Wired) /\ file \in Seq(Wired) /\ wire \in Seq(Wired)
  /\ open \in BOOLEAN /\ registered \in BOOLEAN
  /\ Len(file) <= 1 /\ (~open => backlog \o file = << >>)
  /\ registered <=> open

\* A call leaves the connection open with all pieces behind what there was, closes
\* it with a beginning of them, or finds it closed.
Passed(pieces) ==
  /\ Tcp'
  /\ \/ open /\ open' /\ Sent' = Sent \o pieces
     \/ open /\ ~open' /\ Begins(Sent', Sent \o pieces)
     \/ ~open /\ ~open' /\ Sent' = Sent

\* What a connection is sent is a sequence of pieces.
LEMMA SentType == Tcp => Sent \in Seq(Wired)
<1>1. SUFFICES ASSUME Tcp PROVE Sent \in Seq(Wired)
  OBVIOUS
<1>2. wire \in Seq(Wired) /\ backlog \in Seq(Wired) /\ file \in Seq(Wired)
  BY <1>1 DEF Tcp
<1>3. \A q, r \in Seq(Wired) : q \o r \in Seq(Wired)
  BY ConcatProperties
<1>4. wire \o backlog \in Seq(Wired)
  BY <1>2, <1>3
<1>5. QED BY <1>2, <1>3, <1>4 DEF Sent

\* Without a pending file, and after the close.
LEMMA NoFile ==
  ASSUME Tcp
  PROVE  /\ file = << >> => Sent = wire \o backlog
         /\ ~open => backlog = << >> /\ file = << >> /\ Sent = wire
<1>1. wire \o backlog \in Seq(Wired)
  BY ConcatProperties DEF Tcp
<1>2. file = << >> => Sent = wire \o backlog
  BY <1>1, ConcatEmptySeq DEF Sent
<1>3. ~open => backlog = << >> /\ file = << >>
  BY ConcatEqualIffEmpty DEF Tcp
<1>4. backlog = << >> => wire \o backlog = wire
  BY ConcatEmptySeq DEF Tcp
<1>5. QED BY <1>2, <1>3, <1>4

LEMMA NoFilePrime == Tcp' /\ ~open' => file' = << >>
BY ConcatEqualIffEmpty DEF Tcp

\* A beginning of one sequence begins every longer one.
LEMMA BeginsMore ==
  ASSUME NEW s \in Seq(Wired), NEW t \in Seq(Wired), NEW k \in 0 .. Len(t)
  PROVE  /\ s \o SubSeq(t, 1, k) \in Seq(Wired)
         /\ Begins(s \o SubSeq(t, 1, k), s \o t)
<1>1. DEFINE a == SubSeq(t, 1, k)
<1>2. a \in Seq(Wired) /\ Len(a) = k /\ \A i \in 1 .. k : a[i] = t[i]
  BY SplitSequence
<1> HIDE DEF a
<1>3. /\ s \o a \in Seq(Wired) /\ Len(s \o a) = Len(s) + k
      /\ \A i \in 1 .. Len(s) : (s \o a)[i] = s[i]
      /\ \A i \in 1 .. k : (s \o a)[Len(s) + i] = a[i]
      /\ \A i \in 1 .. Len(s) + k : i \in 1 .. Len(s) \/ \E j \in 1 .. k : i = Len(s) + j
  <2>1. /\ s \o a \in Seq(Wired) /\ Len(s \o a) = Len(s) + Len(a)
        /\ \A i \in 1 .. Len(s) : (s \o a)[i] = s[i]
        /\ \A i \in 1 .. Len(a) : (s \o a)[Len(s) + i] = a[i]
        /\ \A i \in 1 .. Len(s) + Len(a) : i \in 1 .. Len(s) \/ \E j \in 1 .. Len(a) : i = Len(s) + j
    <3>1. a \in Seq(Wired)
      BY <1>2
    <3>2. QED BY <3>1, Joined
  <2>2. Len(a) = k
    BY <1>2
  <2>3. QED BY <2>1, <2>2, Zenon
<1>4. /\ Len(s \o t) = Len(s) + Len(t)
      /\ \A i \in 1 .. Len(s) : (s \o t)[i] = s[i]
      /\ \A i \in 1 .. Len(t) : (s \o t)[Len(s) + i] = t[i]
  BY Joined
<1>5. Len(s) \in Nat /\ Len(t) \in Nat /\ k \in Nat /\ k <= Len(t)
  BY LenProperties
<1>6. ASSUME NEW i \in 1 .. Len(s) + k PROVE (s \o a)[i] = (s \o t)[i]
  <2>1. CASE i \in 1 .. Len(s)
    BY <1>3, <1>4, <2>1
  <2>2. ASSUME NEW j \in 1 .. k, i = Len(s) + j PROVE (s \o a)[i] = (s \o t)[i]
    <3>1. j \in 1 .. Len(t)
      BY <1>5
    <3>2. QED BY <1>2, <1>3, <1>4, <2>2, <3>1
  <2>3. QED BY <1>3, <2>1, <2>2
<1>7. Len(s \o a) <= Len(s \o t)
  BY <1>3, <1>4, <1>5
<1>8. QED BY <1>3, <1>6, <1>7 DEF Begins, a

\* The kernel takes some of what waits, the rest waits on.
LEMMA TakeIs ==
  ASSUME Tcp, file = << >>, open, NEW pieces \in Seq(Wired),
         NEW k \in 0 .. Len(backlog \o pieces)
  PROVE  LET all == backlog \o pieces
         IN  /\ all \in Seq(Wired)
             /\ wire \o SubSeq(all, 1, k) \in Seq(Wired)
             /\ SubSeq(all, k + 1, Len(all)) \in Seq(Wired)
             /\ (wire \o SubSeq(all, 1, k)) \o SubSeq(all, k + 1, Len(all)) = Sent \o pieces
             /\ Begins(wire \o SubSeq(all, 1, k), Sent \o pieces)
<1>1. DEFINE all == backlog \o pieces
             a == SubSeq(all, 1, k)
             b == SubSeq(all, k + 1, Len(all))
<1>2. all \in Seq(Wired) /\ wire \in Seq(Wired) /\ backlog \in Seq(Wired)
  BY ConcatProperties DEF Tcp
<1>3. Sent \o pieces = wire \o all
  <2>1. \A q, r, s \in Seq(Wired) : (q \o r) \o s = q \o (r \o s)
    BY ConcatAssociative
  <2>2. (wire \o backlog) \o pieces = wire \o all
    BY <1>2, <2>1
  <2>3. Sent = wire \o backlog
    BY NoFile
  <2>4. QED BY <2>2, <2>3
<1> HIDE DEF all
<1>4. a \in Seq(Wired) /\ b \in Seq(Wired) /\ a \o b = all
  BY <1>2, SplitSequence DEF all
<1>5. wire \o a \in Seq(Wired) /\ Begins(wire \o a, wire \o all)
  BY <1>2, BeginsMore DEF all
<1> HIDE DEF a, b
<1>6. (wire \o a) \o b = wire \o all
  <2>1. \A q, r, s \in Seq(Wired) : (q \o r) \o s = q \o (r \o s)
    BY ConcatAssociative
  <2>2. QED BY <1>2, <1>4, <2>1
<1>7. QED BY <1>2, <1>3, <1>4, <1>5, <1>6 DEF all, a, b

\* What the kernel took before the connection closed.
LEMMA ClosedAt ==
  ASSUME Tcp, NEW pieces \in Seq(Wired)
  PROVE  /\ Sent \o pieces \in Seq(Wired) /\ Begins(wire, Sent \o pieces)
         /\ Begins(Sent, Sent \o pieces)
<1>1. /\ wire \in Seq(Wired) /\ backlog \in Seq(Wired) /\ file \in Seq(Wired)
      /\ Sent \in Seq(Wired)
  BY SentType DEF Tcp
<1>2. /\ wire \o backlog \in Seq(Wired) /\ Len(wire \o backlog) = Len(wire) + Len(backlog)
      /\ \A i \in 1 .. Len(wire) : (wire \o backlog)[i] = wire[i]
  BY <1>1, Joined
<1>3. /\ Len(Sent) = Len(wire \o backlog) + Len(file)
      /\ \A i \in 1 .. Len(wire \o backlog) : Sent[i] = (wire \o backlog)[i]
  BY <1>1, <1>2, Joined DEF Sent
<1>4. /\ Sent \o pieces \in Seq(Wired)
      /\ Len(Sent \o pieces) = Len(Sent) + Len(pieces)
      /\ \A i \in 1 .. Len(Sent) : (Sent \o pieces)[i] = Sent[i]
  BY <1>1, Joined
<1>5. Len(wire) \in Nat /\ Len(backlog) \in Nat /\ Len(file) \in Nat /\ Len(pieces) \in Nat
  BY <1>1, LenProperties
<1>6. /\ Len(wire) <= Len(Sent \o pieces) /\ Len(Sent) <= Len(Sent \o pieces)
      /\ \A i \in 1 .. Len(wire) : i \in 1 .. Len(wire \o backlog) /\ i \in 1 .. Len(Sent)
  BY <1>2, <1>3, <1>4, <1>5
<1>7. QED BY <1>2, <1>3, <1>4, <1>6 DEF Begins

\* After close_connection nothing but what the kernel took is sent.
LEMMA CloseSent ==
  ASSUME Tcp, close_connection, wire' \in Seq(Wired)
  PROVE  Tcp' /\ ~open' /\ Sent' = wire'
<1>1. wire' \o << >> = wire'
  BY ConcatEmptySeq
<1>2. << >> \o << >> = << >> /\ << >> \in Seq(Wired) /\ Len(<< >>) = 0
  BY EmptySeq
<1>3. open' = FALSE /\ registered' = FALSE /\ backlog' = << >> /\ file' = << >>
  BY DEF close_connection
<1>4. backlog' \in Seq(Wired) /\ file' \in Seq(Wired) /\ Len(file') = 0 /\ backlog' \o file' = << >>
  BY <1>2, <1>3
<1>5. open' \in BOOLEAN /\ registered' \in BOOLEAN /\ (registered' <=> open')
  BY <1>3
<1>6. Len(file') <= 1
  BY <1>4
<1>7. Tcp'
  BY <1>4, <1>5, <1>6, Zenon DEF Tcp
<1>8. Sent' = (wire' \o << >>) \o << >>
  BY DEF close_connection, Sent
<1>9. QED BY <1>1, <1>3, <1>8, <1>7

\* send
LEMMA SendIs ==
  ASSUME Tcp, NEW pieces \in Seq(Wired), send(pieces)
  PROVE  Passed(pieces) /\ file' = << >>
<1>1. DEFINE all == backlog \o pieces
<1>2. file' = << >>
  BY NoFile DEF send, tcp, close_connection
<1>3. CASE ~open /\ UNCHANGED tcp
  BY <1>3 DEF tcp, Passed, Tcp, Sent
<1>4. CASE open /\ file # << >> /\ close_connection /\ UNCHANGED wire
  <2>1. Tcp' /\ ~open' /\ Sent' = wire
    BY <1>4, CloseSent DEF Tcp
  <2>2. Begins(wire, Sent \o pieces)
    BY ClosedAt
  <2>3. QED BY <1>4, <1>2, <2>1, <2>2 DEF Passed
<1>5. ASSUME open, file = << >>, NEW k \in 0 .. Len(all), take(all, k),
             UNCHANGED <<open, file, registered>>
      PROVE  Passed(pieces)
  <2>1. /\ wire' = wire \o SubSeq(all, 1, k) /\ backlog' = SubSeq(all, k + 1, Len(all))
        /\ wire' \in Seq(Wired) /\ backlog' \in Seq(Wired)
        /\ wire' \o backlog' = Sent \o pieces
    BY <1>5, TakeIs DEF take
  <2>2. Tcp'
    BY <1>5, <2>1 DEF Tcp
  <2>3. Sent' = wire' \o backlog'
    <3>1. wire' \o backlog' \in Seq(Wired)
      BY <2>1, ConcatProperties
    <3>2. Sent' = (wire' \o backlog') \o << >>
      BY <1>5 DEF Sent
    <3>3. QED BY <3>1, <3>2, ConcatEmptySeq
  <2>4. QED BY <1>5, <2>1, <2>2, <2>3 DEF Passed
<1>6. ASSUME open, file = << >>, NEW k \in 0 .. Len(all) - 1, close_connection,
             wire' = wire \o SubSeq(all, 1, k)
      PROVE  Passed(pieces)
  <2>1. k \in 0 .. Len(all)
    <3>1. all \in Seq(Wired)
      BY ConcatProperties DEF Tcp
    <3>2. QED BY <3>1, LenProperties
  <2>2. wire' \in Seq(Wired) /\ Begins(wire', Sent \o pieces)
    BY <1>6, <2>1, TakeIs
  <2>3. Tcp' /\ ~open' /\ Sent' = wire'
    BY <1>6, <2>2, CloseSent
  <2>4. QED BY <1>6, <2>2, <2>3 DEF Passed
<1>7. QED BY <1>3, <1>4, <1>5, <1>6, <1>2 DEF send

\* send_file_with_header
LEMMA SendFileIs ==
  ASSUME Tcp, NEW header \in Wired, NEW body \in Wired, send_file_with_header(header, body)
  PROVE  Passed(<<header, body>>) /\ (open' => file' = <<body>>)
<1>1. <<header, body>> \in Seq(Wired)
  OBVIOUS
<1>2. CASE ~open /\ UNCHANGED tcp
  BY <1>2 DEF tcp, Passed, Tcp, Sent
<1>3. CASE open /\ file # << >> /\ close_connection /\ UNCHANGED wire
  <2>1. Tcp' /\ ~open' /\ Sent' = wire
    BY <1>3, CloseSent DEF Tcp
  <2>2. Begins(wire, Sent \o <<header, body>>)
    BY <1>1, ClosedAt
  <2>3. QED BY <1>3, <2>1, <2>2 DEF Passed
<1>4. CASE open /\ file = << >> /\ backlog' = Append(backlog, header) /\ file' = <<body>>
             /\ UNCHANGED <<open, registered, wire>>
  <2>1. /\ backlog \in Seq(Wired) /\ wire \in Seq(Wired) /\ <<header>> \in Seq(Wired)
        /\ <<body>> \in Seq(Wired) /\ Len(<<body>>) = 1
    BY DEF Tcp
  <2>2. backlog' \in Seq(Wired) /\ backlog' = backlog \o <<header>>
    BY <1>4, <2>1, AppendProperties, AppendIsConcat
  <2>3. Tcp'
    BY <1>4, <2>1, <2>2 DEF Tcp
  <2>4. Sent' = Sent \o <<header, body>>
    <3>1. Sent = wire \o backlog /\ Sent \in Seq(Wired)
      BY <1>4, NoFile, SentType
    <3>2. wire \o Append(backlog, header) = Append(wire \o backlog, header)
      <4>1. /\ wire \o backlog \in Seq(Wired)
            /\ Append(backlog, header) = backlog \o <<header>>
            /\ (wire \o backlog) \o <<header>> = wire \o (backlog \o <<header>>)
        BY <2>1, ConcatProperties, AppendIsConcat, ConcatAssociative
      <4>2. Append(wire \o backlog, header) = (wire \o backlog) \o <<header>>
        BY <4>1, AppendIsConcat
      <4>3. QED BY <4>1, <4>2
    <3>3. Sent' = Append(Sent, header) \o <<body>>
      BY <1>4, <3>1, <3>2 DEF Sent
    <3>4. Append(Sent, header) \in Seq(Wired)
      BY <3>1, AppendProperties
    <3>5. Append(Sent, header) \o <<body>> = Append(Append(Sent, header), body)
      BY <3>4, AppendIsConcat
    <3>6. QED BY <3>1, <3>3, <3>5, TwoOf
  <2>5. QED BY <1>4, <2>3, <2>4 DEF Passed
<1>5. QED BY <1>2, <1>3, <1>4 DEF send_file_with_header

\* send, then force_close
LEMMA SendCloseIs ==
  ASSUME Tcp, NEW pieces \in Seq(Wired), send_and_close(pieces)
  PROVE  Passed(pieces) /\ ~open'
<1>1. CASE ~open /\ UNCHANGED tcp
  BY <1>1 DEF tcp, Passed, Tcp, Sent
<1>2. ASSUME open, close_connection,
             NEW k \in 0 .. IF file = << >> THEN Len(backlog \o pieces) ELSE 0,
             wire' = wire \o SubSeq(backlog \o pieces, 1, k)
      PROVE  Passed(pieces) /\ ~open'
  <2>1. wire' \in Seq(Wired) /\ Begins(wire', Sent \o pieces)
    <3>1. CASE file = << >>
      BY <1>2, <3>1, TakeIs
    <3>2. CASE file # << >>
      <4>1. k = 0
        BY <1>2, <3>2
      <4>2. SubSeq(backlog \o pieces, 1, k) = << >>
        BY <4>1, SubSeqEmpty
      <4>3. wire' = wire
        BY <1>2, <4>2, ConcatEmptySeq DEF Tcp
      <4>4. QED BY <4>3, ClosedAt DEF Tcp
    <3>3. QED BY <3>1, <3>2
  <2>2. Tcp' /\ ~open' /\ Sent' = wire'
    BY <1>2, <2>1, CloseSent
  <2>3. QED BY <1>2, <2>1, <2>2 DEF Passed
<1>3. QED BY <1>1, <1>2 DEF send_and_close
-----------------------------------------------------------------------------
(* A response, as the connection takes it.                                 *)

\* The conditions under which the response to request n + 1 is sent.
Ready(n) ==
  /\ Tcp
  /\ n + 1 <= MaxRequests
  /\ \A id \in short : id <= n
  /\ Ordered(Sent, short, n)
  /\ open => Settled(Sent, short, n)

\* The pieces a response can be made of.
LEMMA PieceTypes ==
  ASSUME NEW n \in Nat, n + 1 <= MaxRequests, NEW way \in {"clear", "tls", "ktls"}
  PROVE  /\ Piece(n + 1, 1, 1, way) \in Wired /\ Piece(n + 1, 1, 2, way) \in Wired
         /\ Piece(n + 1, 2, 2, way) \in Wired
         /\ Piece(n + 1, 2, 2, way).id = n + 1 /\ Piece(n + 1, 2, 2, way).part = 2
<1>1. n + 1 \in 0 .. MaxRequests
  BY HttpAssumption DEF HttpAssumption
<1>2. ASSUME NEW part \in {1, 2}, NEW of \in {1, 2}
      PROVE  /\ Piece(n + 1, part, of, way) \in Wired
             /\ Piece(n + 1, part, of, way).id = n + 1 /\ Piece(n + 1, part, of, way).part = part
  <2>1. Piece(n + 1, part, of, way).id = n + 1 /\ Piece(n + 1, part, of, way).part = part
    BY DEF Piece
  <2>2. Piece(n + 1, part, of, way) \in Wired
    BY <1>1, PieceIs
  <2>3. QED BY <2>1, <2>2
<1>3. 1 \in {1, 2} /\ 2 \in {1, 2}
  OBVIOUS
<1>4. QED BY <1>2, <1>3, Zenon

LEMMA SequencesOf ==
  ASSUME NEW b \in Wired, NEW c \in Wired
  PROVE  <<b>> \in Seq(Wired) /\ <<b, c>> \in Seq(Wired)
OBVIOUS

\* A response that is one piece, or of which only the header was given to send.
LEMMA OnePiece ==
  ASSUME NEW n \in Nat, Ready(n), NEW of \in {1, 2}, NEW way \in {"clear", "tls", "ktls"},
         way = "clear" => server = "None", Passed(<<Piece(n + 1, 1, of, way)>>)
  PROVE  /\ Ordered(Sent', short, n + 1) /\ Ordered(Sent', short \cup {n + 1}, n + 1)
         /\ open' /\ of = 1 => Settled(Sent', short, n + 1)
         /\ open' => Settled(Sent', short \cup {n + 1}, n + 1)
<1> DEFINE b == Piece(n + 1, 1, of, way)
           t == Append(Sent, b)
<1>1. Sent \in Seq(Wired) /\ Sent' \in Seq(Wired)
  BY SentType DEF Ready, Passed, Tcp, Sent
<1>2. b \in Wired
  <2>1. n + 1 \in 0 .. MaxRequests
    BY HttpAssumption DEF HttpAssumption, Ready
  <2>2. QED BY <2>1, PieceIs
<1>3. Sent \o <<b>> = t
  BY <1>1, <1>2, AppendIsConcat
<1>4. open => /\ t \in Seq(Wired) /\ Ordered(t, short, n + 1) /\ Ordered(t, short \cup {n + 1}, n + 1)
              /\ of = 1 => Settled(t, short, n + 1)
              /\ Settled(t, short \cup {n + 1}, n + 1)
  BY <1>1, OrderedReply DEF Ready
<1>5. Ordered(Sent, short, n + 1) /\ Ordered(Sent, short \cup {n + 1}, n + 1)
  BY <1>1, OrderedGrows DEF Ready
<1> HIDE DEF b, t
<1>6. CASE open /\ open' /\ Sent' = t
  BY <1>4, <1>6
<1>7. CASE open /\ ~open' /\ Begins(Sent', t)
  BY <1>1, <1>4, <1>7, OrderedPrefix
<1>8. CASE ~open /\ ~open' /\ Sent' = Sent
  BY <1>5, <1>8
<1>9. QED BY <1>3, <1>6, <1>7, <1>8 DEF Passed, b

\* A response with its file.
LEMMA TwoPieces ==
  ASSUME NEW n \in Nat, Ready(n), NEW way \in {"clear", "tls", "ktls"},
         way = "clear" => server = "None",
         Passed(<<Piece(n + 1, 1, 2, way), Piece(n + 1, 2, 2, way)>>)
  PROVE  Ordered(Sent', short, n + 1) /\ (open' => Settled(Sent', short, n + 1))
<1> DEFINE b == Piece(n + 1, 1, 2, way)
           c == Piece(n + 1, 2, 2, way)
           w == Append(Append(Sent, b), c)
<1>1. Sent \in Seq(Wired) /\ Sent' \in Seq(Wired)
  BY SentType DEF Ready, Passed, Tcp, Sent
<1>2. b \in Wired /\ c \in Wired
  <2>1. n + 1 \in 0 .. MaxRequests
    BY HttpAssumption DEF HttpAssumption, Ready
  <2>2. QED BY <2>1, PieceIs
<1>3. open => w \in Seq(Wired) /\ Ordered(w, short, n + 1) /\ Settled(w, short, n + 1)
  BY <1>1, OrderedReply DEF Ready
<1>4. Ordered(Sent, short, n + 1)
  BY <1>1, OrderedGrows DEF Ready
<1> HIDE DEF b, c
<1>5. Sent \o <<b, c>> = w
  BY <1>1, <1>2, TwoOf
<1> HIDE DEF w
<1>6. CASE open /\ open' /\ Sent' = w
  BY <1>3, <1>6
<1>7. CASE open /\ ~open' /\ Begins(Sent', w)
  BY <1>1, <1>3, <1>7, OrderedPrefix
<1>8. CASE ~open /\ ~open' /\ Sent' = Sent
  BY <1>4, <1>8
<1>9. QED BY <1>5, <1>6, <1>7, <1>8 DEF Passed, b, c

\* What is known after the response to request n + 1.
Replied(n, resp) ==
  /\ Tcp'
  /\ Ordered(Sent', short', n + 1)
  /\ open' => Settled(Sent', short', n + 1)
  /\ short' = short \/ short' = short \cup {n + 1}
  /\ file' # << >> => open' /\ file'[1].id = n + 1 /\ file'[1].part = 2
  /\ resp.close => ~open'

\* send_plain_response, in clear text or through the kernel
LEMMA PlainReply ==
  ASSUME NEW n \in Nat, Ready(n), NEW resp, resp.file \in {0, 1}, resp.close \in BOOLEAN,
         resp.file = 1 => ~resp.close, NEW way \in {"clear", "tls", "ktls"},
         way = "clear" => server = "None",
         send_plain_response(n + 1, resp, way), UNCHANGED short
  PROVE  Replied(n, resp)
<1> DEFINE p == Pieces(n + 1, resp, way)
<1>1. /\ resp.file = 0 => p = <<Piece(n + 1, 1, 1, way)>>
      /\ resp.file = 1 => p = <<Piece(n + 1, 1, 2, way), Piece(n + 1, 2, 2, way)>>
  <2>1. /\ resp.file = 0 => p = <<Piece(n + 1, 1, 1, way)>>
        /\ resp.file = 1 => p = <<Piece(n + 1, 1, 2, way), Piece(n + 1, 2, 2, way)>>
    <3>1. ASSUME resp.file = 0 PROVE p = <<Piece(n + 1, 1, 1, way)>>
      BY <3>1, PiecesAre
    <3>2. ASSUME resp.file = 1
          PROVE  p = <<Piece(n + 1, 1, 2, way), Piece(n + 1, 2, 2, way)>>
      BY <3>2, PiecesAre
    <3> HIDE DEF p
    <3>3. QED BY <3>1, <3>2
  <2> HIDE DEF p
  <2>2. QED BY <2>1
<1>2. /\ Piece(n + 1, 1, 1, way) \in Wired /\ Piece(n + 1, 1, 2, way) \in Wired
      /\ Piece(n + 1, 2, 2, way) \in Wired
      /\ Piece(n + 1, 2, 2, way).id = n + 1 /\ Piece(n + 1, 2, 2, way).part = 2
  BY PieceTypes DEF Ready
<1>3. CASE resp.file = 1
  <2>1. send_file_with_header(Piece(n + 1, 1, 2, way), Piece(n + 1, 2, 2, way))
    <3>1. send_file_with_header(p[1], p[2])
      BY <1>3 DEF send_plain_response
    <3>2. p[1] = Piece(n + 1, 1, 2, way) /\ p[2] = Piece(n + 1, 2, 2, way)
      <4>1. p = <<Piece(n + 1, 1, 2, way), Piece(n + 1, 2, 2, way)>>
        BY <1>1, <1>3
      <4> HIDE DEF p
      <4>2. QED BY <4>1
    <3> HIDE DEF p
    <3>3. QED BY <3>1, <3>2
  <2>2. /\ Passed(<<Piece(n + 1, 1, 2, way), Piece(n + 1, 2, 2, way)>>)
        /\ open' => file' = <<Piece(n + 1, 2, 2, way)>>
    BY <1>2, <2>1, SendFileIs DEF Ready
  <2>3. Ordered(Sent', short, n + 1) /\ (open' => Settled(Sent', short, n + 1))
    BY <2>2, TwoPieces
  <2>4. Tcp' /\ (~open' => file' = << >>)
    BY <2>2, NoFilePrime DEF Passed
  <2>5. file' # << >> => open' /\ file'[1].id = n + 1 /\ file'[1].part = 2
    <3>1. ASSUME open' PROVE file'[1] = Piece(n + 1, 2, 2, way)
      <4>1. file' = <<Piece(n + 1, 2, 2, way)>>
        BY <2>2, <3>1
      <4>2. QED BY <4>1
    <3>2. QED BY <1>2, <2>4, <3>1
  <2>6. QED BY <1>3, <2>3, <2>4, <2>5 DEF Replied
<1>4. ASSUME resp.file = 0, Passed(p), file' = << >>, resp.close => ~open'
      PROVE  Replied(n, resp)
  <2>1. Passed(<<Piece(n + 1, 1, 1, way)>>)
    BY <1>1, <1>4
  <2>2. Ordered(Sent', short, n + 1) /\ (open' => Settled(Sent', short, n + 1))
    BY <2>1, OnePiece
  <2>3. Tcp'
    BY <1>4 DEF Passed
  <2>4. QED BY <1>4, <2>2, <2>3 DEF Replied
<1>5. resp.file = 0 => p \in Seq(Wired)
  BY <1>1, <1>2, SequencesOf
<1>6. CASE resp.file = 0 /\ resp.close
  <2>1. send_and_close(p)
    BY <1>6 DEF send_plain_response
  <2>2. Passed(p) /\ ~open'
    BY <1>5, <1>6, <2>1, SendCloseIs DEF Ready
  <2>3. file' = << >>
    BY <2>2, NoFilePrime DEF Passed
  <2>4. QED BY <1>4, <1>6, <2>2, <2>3
<1>7. CASE resp.file = 0 /\ ~resp.close
  <2>1. send(p)
    <3>1. ~(resp.file = 1) /\ ~(resp.file = 0 /\ resp.close)
      BY <1>7
    <3> HIDE DEF p
    <3>2. send_plain_response(n + 1, resp, way) => send(p)
      BY <3>1 DEF send_plain_response, p
    <3>3. QED BY <3>2
  <2>2. Passed(p) /\ file' = << >>
    BY <1>5, <1>7, <2>1, SendIs DEF Ready
  <2>3. QED BY <1>4, <1>7, <2>2
<1>8. QED BY <1>3, <1>6, <1>7

\* send_memory_bio_response
LEMMA MemoryBioReply ==
  ASSUME NEW n \in Nat, Ready(n), NEW resp, resp.file \in {0, 1}, resp.close \in BOOLEAN,
         resp.file = 1 => ~resp.close, send_memory_bio_response(n + 1, resp)
  PROVE  Replied(n, resp)
<1> DEFINE p == Pieces(n + 1, resp, "tls")
<1>1. /\ resp.file = 0 => p = <<Piece(n + 1, 1, 1, "tls")>>
      /\ resp.file = 1 => p = <<Piece(n + 1, 1, 2, "tls"), Piece(n + 1, 2, 2, "tls")>>
      /\ resp.file = 1 => <<p[1]>> = <<Piece(n + 1, 1, 2, "tls")>>
  <2>1. /\ resp.file = 0 => p = <<Piece(n + 1, 1, 1, "tls")>>
        /\ resp.file = 1 => p = <<Piece(n + 1, 1, 2, "tls"), Piece(n + 1, 2, 2, "tls")>>
    BY PiecesAre
  <2> HIDE DEF p
  <2>2. QED BY <2>1
<1>2. /\ Piece(n + 1, 1, 1, "tls") \in Wired /\ Piece(n + 1, 1, 2, "tls") \in Wired
      /\ Piece(n + 1, 2, 2, "tls") \in Wired
  BY PieceTypes DEF Ready
<1>3. p \in Seq(Wired)
  <2>1. resp.file = 0 => p \in Seq(Wired)
    BY <1>1, <1>2, SequencesOf
  <2>2. resp.file = 1 => p \in Seq(Wired)
    BY <1>1, <1>2, SequencesOf
  <2>3. QED BY <2>1, <2>2
<1>4. ASSUME Passed(p), file' = << >>, resp.close => ~open', UNCHANGED short
      PROVE  Replied(n, resp)
  <2>1. Ordered(Sent', short, n + 1) /\ (open' => Settled(Sent', short, n + 1))
    <3>1. CASE resp.file = 0
      <4>1. Passed(<<Piece(n + 1, 1, 1, "tls")>>)
        BY <1>1, <1>4, <3>1
      <4>2. QED BY <4>1, OnePiece
    <3>2. CASE resp.file = 1
      <4>1. Passed(<<Piece(n + 1, 1, 2, "tls"), Piece(n + 1, 2, 2, "tls")>>)
        BY <1>1, <1>4, <3>2
      <4>2. QED BY <4>1, TwoPieces
    <3>3. QED BY <3>1, <3>2
  <2>2. Tcp'
    BY <1>4 DEF Passed
  <2>3. QED BY <1>4, <2>1, <2>2 DEF Replied
<1>5. CASE UNCHANGED short /\ resp.close /\ send_and_close(p)
  <2>1. Passed(p) /\ ~open'
    BY <1>3, <1>5, SendCloseIs DEF Ready
  <2>2. file' = << >>
    BY <2>1, NoFilePrime DEF Passed
  <2>3. QED BY <1>4, <1>5, <2>1, <2>2
<1>6. CASE UNCHANGED short /\ ~resp.close /\ send(p)
  <2>1. Passed(p) /\ file' = << >>
    BY <1>3, <1>6, SendIs DEF Ready
  <2>2. QED BY <1>4, <1>6, <2>1
<1>7. CASE resp.file = 1 /\ send(<<p[1]>>) /\ short' = short \cup {n + 1}
  <2>1. <<Piece(n + 1, 1, 2, "tls")>> \in Seq(Wired)
    BY <1>2
  <2>2. Passed(<<Piece(n + 1, 1, 2, "tls")>>) /\ file' = << >>
    BY <1>1, <1>7, <2>1, SendIs DEF Ready
  <2>3. /\ Ordered(Sent', short \cup {n + 1}, n + 1)
        /\ open' => Settled(Sent', short \cup {n + 1}, n + 1)
    BY <2>2, OnePiece
  <2>4. Tcp'
    BY <2>2 DEF Passed
  <2>5. QED BY <1>7, <2>2, <2>3, <2>4 DEF Replied
<1>8. QED BY <1>5, <1>6, <1>7 DEF send_memory_bio_response
-----------------------------------------------------------------------------
(* Answering a request.                                                    *)

\* The invariant holds what the connection promises.
LEMMA ConnectionIs ==
  ASSUME TypeOK, Typed, Closed
  PROVE  Tcp
BY DEF TypeOK, Typed, Closed, Tcp

\* While on_message parses, it can answer as long as the session lives.
LEMMA CanSend ==
  ASSUME TypeOK, Session, pc = "parse"
  PROVE  can_send <=> Live
<1>1. CASE server = "None"
  BY <1>1 DEF Session, can_send, tls_mode_of, Live
<1>2. CASE state.isKtlsOffloaded
  BY <1>2 DEF can_send, tls_mode_of, Live
<1>3. CASE server # "None" /\ ~state.isKtlsOffloaded
  <2>1. state.tls = "ESTABLISHED" /\ state.tlsMode = "MemoryBio"
    BY <1>3 DEF Session
  <2>2. can_send <=> state.bios /\ state.tls # "ERROR"
    BY <1>3, <2>1 DEF can_send, tls_mode_of, ensure_tls_session
  <2>3. QED BY <1>3, <2>2 DEF Live
<1>4. QED BY <1>1, <1>2, <1>3

\* send_http_response, however the connection is encrypted
LEMMA ResponseSent ==
  ASSUME NEW n \in Nat, Ready(n), NEW resp, resp.file \in {0, 1}, resp.close \in BOOLEAN,
         resp.file = 1 => ~resp.close, can_send, send_http_response(n + 1, resp)
  PROVE  Replied(n, resp)
<1>1. CASE tls_mode_of = "MemoryBio"
  <2>1. send_memory_bio_response(n + 1, resp)
    BY <1>1 DEF send_http_response
  <2>2. QED BY <2>1, MemoryBioReply
<1>2. CASE tls_mode_of = "None"
  <2>1. send_plain_response(n + 1, resp, "clear") /\ UNCHANGED short
    BY <1>2 DEF send_http_response
  <2>2. server = "None"
    BY <1>2 DEF can_send
  <2>3. QED BY <2>1, <2>2, PlainReply
<1>3. CASE tls_mode_of \notin {"MemoryBio", "None"}
  <2>1. send_plain_response(n + 1, resp, "ktls") /\ UNCHANGED short
    BY <1>3 DEF send_http_response
  <2>2. QED BY <2>1, PlainReply
<1>4. QED BY <1>1, <1>2, <1>3

\* An answer to the next request, or none because nothing can be sent.
LEMMA ReplyConnection ==
  ASSUME IInv, pc = "parse", NEW id \in 0 .. MaxRequests, NEW resp,
         resp.file \in {0, 1}, resp.close \in BOOLEAN, resp.file = 1 => ~resp.close,
         send_http_response(id, resp), can_send => id = Len(handled) + 1
  PROVE  /\ Len(handled) \in Nat
         /\ Tcp'
         /\ Ordered(Sent', short', Len(handled) + 1)
         /\ open' /\ can_send => Settled(Sent', short', Len(handled) + 1)
         /\ short' \subseteq 1 .. MaxRequests
         /\ \A x \in short' : x <= Len(handled) + 1
         /\ file' # << >> => open' /\ file'[1].id # 0 /\ file'[1].part = 2
         /\ resp.close /\ can_send => ~open'
<1> DEFINE n == Len(handled)
<1>1. n \in Nat
  BY LenProperties DEF IInv, Typed
<1>2. Tcp
  BY ConnectionIs DEF IInv
<1>3. /\ \A x \in short : x <= n
      /\ Ordered(Sent, short, n)
      /\ short \subseteq 1 .. MaxRequests
      /\ file # << >> => open /\ file[1].id # 0 /\ file[1].part = 2
  BY DEF IInv, Output, TypeOK
<1> HIDE DEF n
<1>4. CASE can_send
  <2>1. Live
    BY <1>4, CanSend DEF IInv
  <2>2. open => Settled(Sent, short, n)
    BY <2>1 DEF IInv, Output, n
  <2>3. n + 1 <= MaxRequests /\ id = n + 1
    BY <1>1, <1>4 DEF n
  <2>4. Ready(n)
    BY <1>2, <1>3, <2>2, <2>3 DEF Ready
  <2>5. Replied(n, resp)
    BY <1>1, <1>4, <2>3, <2>4, ResponseSent
  <2>6. n + 1 \in 1 .. MaxRequests
    BY <1>1, <2>3
  <2>7. short' \subseteq 1 .. MaxRequests
    BY <1>3, <2>5, <2>6 DEF Replied
  <2>8. \A x \in short' : x <= n + 1
    <3>1. \A x \in short : x \in Nat /\ x <= n
      BY <1>3
    <3>2. \A x \in short : x <= n + 1
      BY <1>1, <3>1
    <3>3. n + 1 <= n + 1
      BY <1>1
    <3>4. QED BY <2>5, <3>2, <3>3 DEF Replied
  <2>9. n + 1 # 0
    BY <1>1
  <2>10. QED BY <1>1, <2>5, <2>7, <2>8, <2>9 DEF Replied, n
<1>5. CASE ~can_send
  <2>1. UNCHANGED <<tcp, short>>
    BY <1>5 DEF send_http_response
  <2>2. Tcp' /\ Sent' = Sent /\ short' = short /\ file' = file /\ open' = open
    BY <1>2, <2>1 DEF tcp, Tcp, Sent
  <2>3. Ordered(Sent, short, n + 1)
    BY <1>1, <1>2, <1>3, SentType, OrderedGrows
  <2>4. \A x \in short : x <= n + 1
    <3>1. \A x \in short : x \in Nat /\ x <= n
      BY <1>3
    <3>2. QED BY <1>1, <3>1
  <2>5. QED BY <1>1, <1>3, <1>5, <2>2, <2>3, <2>4 DEF n
<1>6. QED BY <1>4, <1>5

\* What a reply keeps, whatever becomes of the payload.
LEMMA ReplyKeeps ==
  ASSUME IInv, pc = "parse", NEW id \in 0 .. MaxRequests, NEW resp,
         resp.file \in {0, 1}, resp.close \in BOOLEAN, resp.file = 1 => ~resp.close,
         resp.status \in Nat,
         send_http_response(id, resp), can_send => id = Len(handled) + 1,
         reset, UNCHANGED <<server, client>>, payload' \in Seq(Units), pc' \in {"parse", "poll"},
         pc' = "parse" => registered', pc' = "poll" => payload' = << >>
  PROVE  /\ TypeOK' /\ Typed' /\ Session' /\ Flights' /\ Output' /\ Closed'
         /\ Len(handled) \in Nat /\ Len(handled') = Len(handled) + 1
         /\ Live' => can_send /\ open'
         /\ resp.close /\ can_send => ~open'
<1> DEFINE n == Len(handled)
           r == [id |-> id, status |-> resp.status, close |-> resp.close, sent |-> can_send]
<1>1. /\ n \in Nat
      /\ Tcp'
      /\ Ordered(Sent', short', n + 1)
      /\ open' /\ can_send => Settled(Sent', short', n + 1)
      /\ short' \subseteq 1 .. MaxRequests
      /\ \A x \in short' : x <= n + 1
      /\ file' # << >> => open' /\ file'[1].id # 0 /\ file'[1].part = 2
      /\ resp.close /\ can_send => ~open'
  BY ReplyConnection
<1>2. can_send \in BOOLEAN
  <2>1. CASE tls_mode_of = "None"
    BY <2>1 DEF can_send
  <2>2. CASE tls_mode_of = "MemoryBio"
    BY <2>2 DEF can_send, ensure_tls_session, IInv, TypeOK
  <2>3. CASE tls_mode_of \notin {"None", "MemoryBio"}
    BY <2>3 DEF can_send
  <2>4. QED BY <2>1, <2>2, <2>3
<1>3. r \in Replies
  BY <1>2 DEF Replies
<1>4. /\ handled' = Append(handled, r) /\ handled' \in Seq(Replies)
      /\ Len(handled') = n + 1 /\ \A i \in 1 .. n : handled'[i] = handled[i]
      /\ handled'[n + 1] = r
  <2>1. handled' = Append(handled, r)
    BY DEF send_http_response
  <2>2. handled \in Seq(Replies)
    BY DEF IInv, Typed
  <2> HIDE DEF r
  <2>3. QED BY <1>3, <2>1, <2>2, AppendProperties
<1>5. r.close = resp.close /\ r.sent = can_send
  OBVIOUS
<1>6. /\ state' = [state EXCEPT !.request = 0]
      /\ state' \in [tls : {"none", "HANDSHAKING", "ESTABLISHED", "ERROR"}, bios : BOOLEAN,
                     tlsMode : {"None", "MemoryBio", "KernelTls"},
                     isKtlsOffloaded : BOOLEAN, receives : BOOLEAN, request : 0 .. MaxRequests]
      /\ state'.tls = state.tls /\ state'.bios = state.bios /\ state'.tlsMode = state.tlsMode
      /\ state'.isKtlsOffloaded = state.isKtlsOffloaded /\ state'.request = 0
  <2>1. 0 \in 0 .. MaxRequests
    BY HttpAssumption DEF HttpAssumption
  <2>2. QED BY <2>1 DEF reset, IInv, TypeOK
<1> HIDE DEF r
<1>7. server' = server /\ inbox' = inbox /\ shake' = shake /\ asked' = asked
  BY DEF client
<1>8. TypeOK'
  <2>1. server' \in TlsModes
    BY <1>7 DEF IInv, TypeOK
  <2>2. pc' = "poll" => payload' = << >>
    OBVIOUS
  <2>3. pc' \in {"poll", "offload", "parse"}
    OBVIOUS
  <2>4. QED BY <1>1, <1>6, <2>1, <2>2, <2>3 DEF TypeOK, Tcp
<1>9. Typed'
  BY <1>1, <1>4, <1>7 DEF Typed, Tcp, IInv
<1>10. \/ server = "None"
       \/ state.isKtlsOffloaded
       \/ state.tls = "ESTABLISHED" /\ state.tlsMode = "MemoryBio"
  BY DEF IInv, Session
<1>11. state.tls # "HANDSHAKING" /\ ~(state.tlsMode = "KernelTls" /\ ~state.isKtlsOffloaded)
  BY <1>10 DEF IInv, Session
<1>12. Session'
  BY <1>6, <1>7, <1>10, <1>11 DEF Session, IInv
<1>13. Flights'
  BY <1>6, <1>7 DEF Flights, IInv
<1>14. Live' => can_send /\ open'
  <2>1. Live' => Live
    BY <1>6, <1>7 DEF Live
  <2>2. Live' => open'
    BY <1>1 DEF Live, Tcp
  <2>3. QED BY <2>1, <2>2, CanSend DEF IInv
<1>15. Output'
  <2>1. Ordered(Sent, short, Len(handled))'
    BY <1>1, <1>4, <1>7 DEF Ordered
  <2>2. open' /\ can_send => Settled(Sent, short, Len(handled))'
    BY <1>1, <1>4 DEF Settled
  <2>3. \A x \in short' : x <= Len(handled')
    BY <1>1, <1>4
  <2>4. QED BY <1>1, <1>14, <2>1, <2>2, <2>3 DEF Output
<1>16. Closed'
  <2>1. registered' <=> open'
    BY <1>1 DEF Tcp
  <2>2. ASSUME NEW i \in 1 .. n + 1 - 1 PROVE ~(handled'[i].close /\ handled'[i].sent)
    <3>1. i \in 1 .. n /\ handled'[i] = handled[i]
      BY <1>1, <1>4
    <3>2. CASE i \in 1 .. n - 1
      BY <3>1, <3>2 DEF IInv, Closed
    <3>3. CASE i = n
      <4>1. handled # << >>
        BY <3>1, <3>3
      <4>2. QED BY <3>1, <3>3, <4>1 DEF IInv, Closed
    <3>4. QED BY <1>1, <3>1, <3>2, <3>3
  <2>3. handled'[n + 1].close /\ handled'[n + 1].sent => ~open' /\ pc' = "poll"
    BY <1>1, <1>4, <1>5, <2>1
  <2>4. QED BY <1>4, <2>1, <2>2, <2>3 DEF Closed
<1>17. QED BY <1>1, <1>4, <1>8, <1>9, <1>12, <1>13, <1>14, <1>15, <1>16 DEF n
-----------------------------------------------------------------------------
(* Parsing.                                                                *)

\* Where the parser stands in a stream, the next request ends with the first unit that
\* is no head.
LEMMA NextRequest ==
  ASSUME TypeOK, Typed, Stream, state.tls # "HANDSHAKING", Consumed > 0
  PROVE  /\ Len(handled) \in Nat
         /\ payload[Consumed] \in Units /\ payload[Consumed].kind # "head"
         /\ payload[Consumed].id = Len(handled) + 1
         /\ payload[Consumed].kind = "tail" => Held(Consumed) = Len(handled) + 1
<1> DEFINE n == Len(handled)
           q == payload \o inbox
           k == Consumed
<1>1. /\ k \in 1 .. Len(payload) /\ payload[k].kind # "head"
      /\ \A i \in 1 .. k - 1 : payload[i].kind = "head"
      /\ Len(payload) \in Nat /\ Len(inbox) \in Nat /\ n \in Nat
  <2>1. payload \in Seq(Units) /\ inbox \in Seq(Units) /\ handled \in Seq(Replies)
    BY DEF Typed
  <2>2. k \in 0 .. Len(payload) /\ k > 0
    BY <2>1, ConsumedIs
  <2>3. QED BY <2>1, <2>2, ConsumedIs, LenProperties
<1> HIDE DEF k, n
<1>2. /\ Len(q) = Len(payload) + Len(inbox)
      /\ \A i \in 1 .. Len(payload) : q[i] = payload[i]
  BY Joined DEF Typed
<1>3. Runs(Current, q) /\ (state.request # 0 => state.request = n + 1)
  BY DEF Stream, n
<1> HIDE DEF q
<1>4. Follows(Current, payload[1])
  <2>1. 1 \in 1 .. Len(payload) /\ Len(q) # 0
    BY <1>1, <1>2
  <2>2. q # << >>
    BY <2>1
  <2>3. QED BY <1>2, <1>3, <2>1, <2>2 DEF Runs
<1>5. /\ state.request # 0 => Current.kind = "head" /\ Current.id = state.request
      /\ state.request = 0 => Current.kind = "tail" /\ Current.id = n
  BY UnitIs DEF Current, n
<1>6. \A i \in 1 .. Len(payload) : payload[i] \in Units
  BY ElementOfSeq DEF Typed
<1>7. CASE state.request # 0
  <2>1. payload[1].kind = "tail" /\ payload[1].id = n + 1
    BY <1>3, <1>4, <1>5, <1>7 DEF Follows
  <2>2. k = 1
    <3>1. ~(1 \in 1 .. k - 1)
      BY <1>1, <2>1
    <3>2. QED BY <1>1, <3>1
  <2>3. Held(k) = n + 1
    BY <1>3, <1>7, <2>2 DEF Held
  <2>4. QED BY <1>1, <1>6, <2>1, <2>2, <2>3 DEF k, n
<1>8. CASE state.request = 0
  <2>1. payload[1].kind \in {"head", "bad", "junk"} /\ payload[1].id = n + 1
    BY <1>4, <1>5, <1>8 DEF Follows
  <2>2. CASE payload[1].kind # "head"
    <3>1. k = 1
      <4>1. ~(1 \in 1 .. k - 1)
        BY <1>1, <2>2
      <4>2. QED BY <1>1, <4>1
    <3>2. QED BY <1>1, <1>6, <2>1, <2>2, <3>1 DEF k, n
  <2>3. CASE payload[1].kind = "head"
    <3>1. k # 1
      BY <1>1, <2>3
    <3>2. 1 \in 1 .. Len(q) - 1 /\ 2 \in 1 .. Len(payload)
      BY <1>1, <1>2, <3>1
    <3>3. Follows(payload[1], payload[2])
      <4>1. 1 \in 1 .. Len(payload) /\ 1 + 1 = 2
        BY <3>2
      <4>2. Follows(q[1], q[1 + 1])
        BY <1>3, <3>2 DEF Runs
      <4>3. QED BY <1>2, <3>2, <4>1, <4>2
    <3>4. payload[2].kind = "tail" /\ payload[2].id = n + 1
      BY <2>1, <2>3, <3>3 DEF Follows
    <3>5. k = 2
      <4>1. ~(2 \in 1 .. k - 1)
        BY <1>1, <3>4
      <4>2. QED BY <1>1, <3>1, <4>1
    <3>6. Held(k) = n + 1
      <4>1. k > 1 /\ k - 1 = 1
        BY <3>5
      <4>2. QED BY <2>1, <4>1 DEF Held
    <3>7. QED BY <1>1, <1>6, <3>4, <3>5, <3>6 DEF k, n
  <2>4. QED BY <2>2, <2>3
<1>9. QED BY <1>7, <1>8

\* The parser of a living session is in a stream, or before scrambled records.
LEMMA Parses ==
  ASSUME TypeOK, Session, Flow, Live, pc = "parse"
  PROVE  state.tls # "HANDSHAKING" /\ (Stream \/ Scrambled)
BY DEF Session, Flow, Spoilt

\* The request the parser holds.
LEMMA HeldType ==
  ASSUME TypeOK, Typed, Consumed > 0
  PROVE  Held(Consumed) \in 0 .. MaxRequests /\ payload[Consumed] \in Units
<1>1. payload \in Seq(Units) /\ Consumed \in 1 .. Len(payload) /\ Len(payload) \in Nat
  BY ConsumedIs, LenProperties DEF Typed
<1>2. \A i \in 1 .. Len(payload) : payload[i] \in Units
  BY <1>1, ElementOfSeq
<1>3. Consumed > 1 => Consumed - 1 \in 1 .. Len(payload)
  BY <1>1
<1>4. Consumed > 1 => payload[Consumed - 1].id \in 0 .. MaxRequests
  BY <1>2, <1>3 DEF Units
<1>5. state.request \in 0 .. MaxRequests
  BY DEF TypeOK
<1>6. QED BY <1>1, <1>2, <1>4, <1>5 DEF Held

LEMMA ReplyStep == IInv /\ reply_complete_request => IInv'
<1> SUFFICES ASSUME IInv, reply_complete_request PROVE IInv'
  OBVIOUS
<1> DEFINE k == Consumed
           id == Held(k)
           resp == dispatch(asked[id])
<1>1. /\ pc = "parse" /\ k > 0 /\ payload[k].kind = "tail" /\ id # 0
      /\ send_http_response(id, resp) /\ reset /\ after_reply(k)
      /\ UNCHANGED <<server, client>>
  BY DEF reply_complete_request
<1>2. /\ resp.file \in {0, 1} /\ resp.close \in BOOLEAN /\ resp.status \in Nat
      /\ resp.file = 1 => ~resp.close
  BY ResponseIs
<1>3. id \in 0 .. MaxRequests /\ payload[k] \in Units
  BY <1>1, HeldType DEF IInv
<1>4. /\ payload \in Seq(Units) /\ inbox \in Seq(Units) /\ handled \in Seq(Replies)
      /\ k \in 0 .. Len(payload) /\ Len(payload) \in Nat
  BY ConsumedIs, LenProperties DEF IInv, Typed
<1> DEFINE p == SubSeq(payload, k + 1, Len(payload))
<1>5. p \in Seq(Units) /\ << >> \in Seq(Units)
  BY <1>4, SplitSequence, EmptySeq
<1> HIDE DEF resp, id, k, p
<1>6. Live => Stream /\ state.tls # "HANDSHAKING"
  <2>1. ASSUME Live, Scrambled PROVE FALSE
    <3>1. k \in DOMAIN payload
      BY <1>1, <1>4
    <3>2. QED BY <1>1, <2>1, <3>1 DEF Scrambled
  <2>2. QED BY <1>1, <2>1, Parses DEF IInv
<1>7. Live => id = Len(handled) + 1 /\ payload[k].id = Len(handled) + 1 /\ Len(handled) \in Nat
  BY <1>1, <1>6, NextRequest DEF IInv, id, k
<1>8. can_send <=> Live
  BY <1>1, CanSend DEF IInv
<1>9. /\ pc' = IF registered' THEN "parse" ELSE "poll"
      /\ payload' = IF registered' THEN p ELSE << >>
  BY <1>1 DEF after_reply, p
<1>10. payload' \in Seq(Units) /\ pc' \in {"parse", "poll"}
       /\ (pc' = "parse" => registered') /\ (pc' = "poll" => payload' = << >>)
  BY <1>5, <1>9
<1>11. /\ TypeOK' /\ Typed' /\ Session' /\ Flights' /\ Output' /\ Closed'
       /\ Len(handled) \in Nat /\ Len(handled') = Len(handled) + 1
       /\ Live' => can_send /\ open'
  BY <1>1, <1>2, <1>3, <1>7, <1>8, <1>10, ReplyKeeps
<1>12. ASSUME Live' PROVE Stream'
  <2> DEFINE q == payload \o inbox
             r == SubSeq(q, k + 1, Len(q))
  <2>1. Live /\ open' /\ registered' /\ payload' = p
    BY <1>8, <1>9, <1>11, <1>12 DEF Closed
  <2>2. Stream /\ state.tls # "HANDSHAKING" /\ payload[k].id = Len(handled) + 1
    BY <1>6, <1>7, <2>1
  <2>3. /\ server' = server /\ inbox' = inbox /\ shake' = shake /\ asked' = asked
        /\ state'.request = 0 /\ state'.tls = state.tls
    BY <1>1 DEF client, reset, IInv, TypeOK
  <2>4. /\ q \in Seq(Units) /\ k \in 1 .. Len(q) /\ q[k] = payload[k]
    <3>1. /\ q \in Seq(Units) /\ Len(q) = Len(payload) + Len(inbox)
          /\ \A i \in 1 .. Len(payload) : q[i] = payload[i]
      BY <1>4, Joined
    <3>2. Len(inbox) \in Nat /\ k \in 1 .. Len(payload)
      BY <1>1, <1>4, LenProperties
    <3>3. QED BY <1>4, <3>1, <3>2
  <2>5. Runs(Current, q)
    BY <2>2 DEF Stream
  <2>6. payload' \o inbox' = r
    BY <1>4, <2>1, <2>3, DropJoined DEF p
  <2> DEFINE e == End(Current, q)
  <2>7. /\ e.id = Len(asked) /\ e.kind # "head"
        /\ e.kind = "hello" <=> server # "None" /\ shake < 2
    BY <2>2 DEF Stream
  <2> HIDE DEF q, r, e
  <2>8. r \in Seq(Units) /\ Runs(q[k], r) /\ End(q[k], r) = e
    BY <2>4, <2>5, RunsDrop DEF r, e
  <2>9. Current' = Unit(Len(handled) + 1, "tail")
    BY <1>11, <2>2, <2>3 DEF Current
  <2>10. q[k] = Unit(Len(handled) + 1, "tail")
    <3>1. payload[k] = [id |-> payload[k].id, kind |-> payload[k].kind]
      BY <1>3 DEF Units
    <3>2. QED BY <1>1, <2>2, <2>4, <3>1 DEF Unit
  <2>11. Runs(Current', payload' \o inbox') /\ End(Current', payload' \o inbox') = e
    BY <2>6, <2>8, <2>9, <2>10
  <2>12. Runs(Current, payload \o inbox)' /\ End(Current, payload \o inbox)' = e
    BY <2>11 DEF Runs, End
  <2>13. QED BY <2>2, <2>3, <2>7, <2>12 DEF Stream
<1>13. QED BY <1>11, <1>12 DEF IInv, Flow

LEMMA RejectStep == IInv /\ reject => IInv'
<1> SUFFICES ASSUME IInv, reject PROVE IInv'
  OBVIOUS
<1> DEFINE k == Consumed
           id == payload[k].id
<1>1. /\ pc = "parse" /\ k > 0 /\ (payload[k].kind # "tail" \/ Held(k) = 0)
      /\ send_http_response(id, Bad) /\ reset /\ pc' = "poll" /\ payload' = << >>
      /\ UNCHANGED <<server, client>>
  BY DEF reject
<1>2. /\ Bad.file \in {0, 1} /\ Bad.close = TRUE /\ Bad.status \in Nat
      /\ Bad.file = 1 => ~Bad.close
  BY BadIs
<1>3. id \in 0 .. MaxRequests
  BY <1>1, HeldType DEF IInv, Units
<1>4. payload' \in Seq(Units)
  BY <1>1, EmptySeq
<1>5. Live => id = Len(handled) + 1
  <2>1. ASSUME Live, Stream, state.tls # "HANDSHAKING" PROVE id = Len(handled) + 1
    BY <1>1, <2>1, NextRequest DEF IInv
  <2>2. ASSUME Live, Scrambled PROVE id = Len(handled) + 1
    <3>1. k = 1
      <4>1. /\ payload \in Seq(Units) /\ k \in 1 .. Len(payload) /\ Len(payload) \in Nat
            /\ \A i \in 1 .. k - 1 : payload[i].kind = "head"
        BY <1>1, ConsumedIs, LenProperties DEF IInv, Typed
      <4>2. 1 \in DOMAIN payload
        BY <4>1
      <4>3. payload[1].kind = "bad"
        BY <2>2, <4>2 DEF Scrambled
      <4>4. ~(1 \in 1 .. k - 1)
        BY <4>1, <4>3
      <4>5. QED BY <4>1, <4>4
    <3>2. QED BY <2>2, <3>1 DEF Scrambled
  <2>3. QED BY <1>1, <2>1, <2>2, Parses DEF IInv
<1>6. can_send <=> Live
  BY <1>1, CanSend DEF IInv
<1> HIDE DEF id, k
<1>7. /\ TypeOK' /\ Typed' /\ Session' /\ Flights' /\ Output' /\ Closed'
      /\ Live' => can_send /\ open'
      /\ Bad.close /\ can_send => ~open'
  <2>1. Bad.close \in BOOLEAN /\ pc' \in {"parse", "poll"} /\ (pc' = "parse" => registered')
    BY <1>1, <1>2
  <2>2. QED BY <1>1, <1>2, <1>3, <1>4, <1>5, <1>6, <2>1, ReplyKeeps
<1>8. ~Live'
  BY <1>2, <1>7
<1>9. QED BY <1>7, <1>8 DEF IInv, Flow

LEMMA IncompleteStep == IInv /\ parse_incomplete => IInv'
<1> SUFFICES ASSUME IInv, parse_incomplete PROVE IInv'
  OBVIOUS
<1>1. /\ pc = "parse" /\ Consumed = 0 /\ pc' = "poll" /\ payload' = << >>
      /\ state' = IF payload = << >> THEN state ELSE [state EXCEPT !.request = Last(payload).id]
  BY DEF parse_incomplete
<1>2. /\ server' = server /\ open' = open /\ backlog' = backlog /\ file' = file
      /\ registered' = registered /\ wire' = wire /\ inbox' = inbox /\ shake' = shake
      /\ asked' = asked /\ handled' = handled /\ short' = short
  BY DEF parse_incomplete, tcp, client
<1>3. /\ payload \in Seq(Units) /\ inbox \in Seq(Units) /\ handled \in Seq(Replies)
      /\ Len(payload) \in Nat /\ Len(handled) \in Nat
      /\ \A i \in 1 .. Len(payload) : payload[i] \in Units /\ payload[i].kind = "head"
  <2>1. payload \in Seq(Units) /\ inbox \in Seq(Units) /\ handled \in Seq(Replies)
    BY DEF IInv, Typed
  <2>2. QED BY <1>1, <2>1, ConsumedIs, LenProperties, ElementOfSeq
<1>4. payload # << >> => Len(payload) \in 1 .. Len(payload) /\ Last(payload) = payload[Len(payload)]
  BY <1>3, EmptySeq DEF Last
<1>5. payload # << >> => Last(payload).id \in 0 .. MaxRequests
  BY <1>3, <1>4 DEF Units
<1>6. /\ state' \in [tls : {"none", "HANDSHAKING", "ESTABLISHED", "ERROR"}, bios : BOOLEAN,
                     tlsMode : {"None", "MemoryBio", "KernelTls"},
                     isKtlsOffloaded : BOOLEAN, receives : BOOLEAN, request : 0 .. MaxRequests]
      /\ state'.tls = state.tls /\ state'.bios = state.bios /\ state'.tlsMode = state.tlsMode
      /\ state'.isKtlsOffloaded = state.isKtlsOffloaded
      /\ state'.request = IF payload = << >> THEN state.request ELSE Last(payload).id
  BY <1>1, <1>5 DEF IInv, TypeOK
<1>7. TypeOK'
  BY <1>1, <1>2, <1>6 DEF IInv, TypeOK
<1>8. Typed'
  BY <1>1, <1>2, EmptySeq DEF IInv, Typed
<1>9. state.tls # "HANDSHAKING"
  BY <1>1 DEF IInv, Session
<1>10. Session'
  BY <1>1, <1>2, <1>6, <1>9 DEF IInv, Session
<1>11. Flights'
  BY <1>2, <1>6 DEF IInv, Flights
<1>12. Live' => Live
  BY <1>1, <1>2, <1>6 DEF Live
<1>13. Output'
  <2>1. Sent' = Sent
    BY <1>2 DEF Sent
  <2>2. Ordered(Sent, short, Len(handled))'
    BY <1>2, <2>1 DEF IInv, Output, Ordered
  <2>3. open' /\ Live' => Settled(Sent, short, Len(handled))'
    BY <1>2, <1>12, <2>1 DEF IInv, Output, Settled
  <2>4. QED BY <1>2, <2>2, <2>3 DEF IInv, Output
<1>14. Closed'
  BY <1>1, <1>2 DEF IInv, Closed
<1>15. ASSUME Live' PROVE Stream'
  <2> DEFINE q == payload \o inbox
             k == Len(payload)
             r == SubSeq(q, k + 1, Len(q))
  <2>1. ~Scrambled
    <3>1. ASSUME Scrambled PROVE FALSE
      <4>1. payload # << >> /\ payload[1].kind = "bad"
        BY <3>1, <1>3, <1>4 DEF Scrambled
      <4>2. 1 \in 1 .. Len(payload)
        BY <1>3, <1>4, <4>1
      <4>3. QED BY <1>3, <4>1, <4>2
    <3>2. QED BY <3>1
  <2>2. Stream
    BY <1>1, <1>12, <1>15, <2>1, Parses DEF IInv
  <2>3. CASE payload = << >>
    <3>1. state' = state /\ payload' = payload
      BY <1>1, <2>3
    <3>2. QED BY <1>2, <2>2, <3>1 DEF Stream, Runs, End, Current
  <2>4. CASE payload # << >>
    <3>1. k \in 1 .. k /\ Last(payload) = payload[k]
      BY <1>4, <2>4
    <3>2. /\ q \in Seq(Units) /\ k \in 1 .. Len(q) /\ q[k] = payload[k] /\ 1 \in 1 .. k
      <4>1. /\ q \in Seq(Units) /\ Len(q) = k + Len(inbox)
            /\ \A i \in 1 .. k : q[i] = payload[i]
        BY <1>3, Joined
      <4>2. Len(inbox) \in Nat
        BY <1>3, LenProperties
      <4>3. QED BY <1>3, <3>1, <4>1, <4>2
    <3>3. Runs(Current, q)
      BY <2>2 DEF Stream
    <3>4. inbox = r
      <4>1. SubSeq(payload, k + 1, k) = << >>
        <5>1. k + 1 > k
          BY <1>3
        <5>2. QED BY <1>3, <5>1, SubSeqEmpty
      <4>2. k \in 0 .. Len(payload)
        BY <1>3
      <4>3. SubSeq(payload, k + 1, k) \o inbox = r
        BY <1>3, <4>2, DropJoined
      <4>4. QED BY <1>3, <4>1, <4>3, ConcatEmptySeq
    <3> DEFINE e == End(Current, q)
    <3>5. /\ e.id = Len(asked) /\ e.kind # "head"
          /\ e.kind = "hello" <=> server # "None" /\ shake < 2
      BY <2>2 DEF Stream
    <3>6. payload[1].id = Len(handled) + 1 /\ k = 1
      <4>1. Follows(Current, payload[1])
        <5>1. q # << >> /\ q[1] = payload[1]
          <6>1. /\ Len(q) = k + Len(inbox) /\ \A i \in 1 .. k : q[i] = payload[i]
            BY <1>3, Joined
          <6>2. QED BY <3>2, <6>1, EmptySeq
        <5>2. QED BY <3>3, <5>1 DEF Runs
      <4>2. payload[1].kind = "head"
        BY <1>3, <3>2
      <4>3. state.request = 0 /\ Current.id = Len(handled) /\ Current.kind = "tail"
        <5>1. state.request # 0 => Current.kind = "head"
          BY UnitIs DEF Current
        <5>2. state.request = 0
          BY <4>1, <4>2, <5>1 DEF Follows
        <5>3. QED BY <1>9, <5>2, UnitIs DEF Current
      <4>4. payload[1].id = Len(handled) + 1
        BY <4>1, <4>3 DEF Follows
      <4>5. k = 1
        <5>1. ASSUME k # 1 PROVE FALSE
          <6> DEFINE m == Len(q)
          <6>1. m \in Nat /\ k \in 1 .. m
            BY <3>2, LenProperties
          <6> HIDE DEF m, k
          <6>2. k \in Nat /\ k > 1
            BY <3>2, <5>1, <6>1
          <6>3. 2 \in 1 .. k /\ 1 \in 1 .. m - 1 /\ 1 \in 1 .. k
            BY <6>1, <6>2
          <6> USE DEF m, k
          <6>4. q[1] = payload[1] /\ q[2] = payload[2]
            BY <1>3, <6>3, Joined
          <6>5. Follows(q[1], q[1 + 1]) /\ 1 + 1 = 2
            BY <3>3, <6>3 DEF Runs
          <6>6. payload[2].kind = "tail"
            BY <4>2, <6>4, <6>5 DEF Follows
          <6>7. QED BY <1>3, <6>3, <6>6
        <5>2. QED BY <5>1
      <4>6. QED BY <4>4, <4>5
    <3>7. state'.request = Len(handled) + 1 /\ Len(handled) + 1 # 0
      BY <1>3, <1>6, <2>4, <3>1, <3>6
    <3>8. Current' = q[k]
      <4>1. Current' = Unit(Len(handled) + 1, "head")
        BY <3>7 DEF Current
      <4>2. payload[k] \in Units /\ payload[k].kind = "head" /\ payload[k].id = Len(handled) + 1
        BY <1>3, <3>1, <3>6
      <4>3. payload[k] = [id |-> payload[k].id, kind |-> payload[k].kind]
        BY <4>2 DEF Units
      <4>4. QED BY <3>2, <4>1, <4>2, <4>3 DEF Unit
    <3> HIDE DEF q, r, e, k
    <3>9. r \in Seq(Units) /\ Runs(q[k], r) /\ End(q[k], r) = e
      BY <3>2, <3>3, RunsDrop DEF r, e
    <3>10. payload' \o inbox' = inbox
      BY <1>1, <1>2, <1>3, ConcatEmptySeq
    <3>11. Runs(Current, payload \o inbox)' /\ End(Current, payload \o inbox)' = e
      BY <3>4, <3>8, <3>9, <3>10 DEF Runs, End
    <3>12. QED BY <1>2, <1>6, <1>9, <3>5, <3>7, <3>11 DEF Stream
  <2>5. QED BY <2>3, <2>4
<1>16. QED BY <1>7, <1>8, <1>10, <1>11, <1>13, <1>14, <1>15 DEF IInv, Flow
-----------------------------------------------------------------------------
(* Init, the connection and the client.                                    *)

\* Nothing sent.
LEMMA NoPieces ==
  ASSUME NEW sh
  PROVE  Ordered(<< >>, sh, 0) /\ Settled(<< >>, sh, 0)
BY EmptySeq DEF Ordered, Settled

\* Nothing received.
LEMMA NoUnits == Runs(Current, << >>) /\ End(Current, << >>) = Current
<1>1. Len(<< >>) = 0
  OBVIOUS
<1>2. \A i \in 1 .. Len(<< >>) - 1 : FALSE
  BY <1>1
<1>3. QED BY <1>2 DEF Runs, End

LEMMA Bounds == 0 \in 0 .. MaxRequests /\ MaxRequests \in Nat
BY HttpAssumption DEF HttpAssumption

\* A connection that starts with nothing sent and nothing said.
Started ==
  /\ server \in TlsModes /\ open \in BOOLEAN /\ registered = open
  /\ backlog = << >> /\ file = << >> /\ inbox = << >> /\ shake = 0 /\ asked = << >>
  /\ wire = << >> /\ handled = << >> /\ short = {} /\ pc = "poll" /\ payload = << >>
  /\ \E ssl \in BOOLEAN :
       /\ server = "None" => ~ssl
       /\ state = [tls |-> IF ssl THEN "HANDSHAKING" ELSE "none", bios |-> ssl,
                   tlsMode |-> IF ssl THEN server ELSE "None",
                   isKtlsOffloaded |-> FALSE, receives |-> FALSE, request |-> 0]

\* A fresh connection, and the state before the first.
LEMMA StartedInv == Started => IInv
<1> SUFFICES ASSUME Started PROVE IInv
  OBVIOUS
<1>1. PICK ssl \in BOOLEAN :
        /\ server = "None" => ~ssl
        /\ state = [tls |-> IF ssl THEN "HANDSHAKING" ELSE "none", bios |-> ssl,
                    tlsMode |-> IF ssl THEN server ELSE "None",
                    isKtlsOffloaded |-> FALSE, receives |-> FALSE, request |-> 0]
  BY DEF Started
<1>2. << >> \o << >> = << >> /\ Len(<< >>) = 0
  OBVIOUS
<1>3. /\ state.tls = IF ssl THEN "HANDSHAKING" ELSE "none"
      /\ state.bios = ssl /\ state.tlsMode = (IF ssl THEN server ELSE "None")
      /\ ~state.isKtlsOffloaded /\ state.request = 0
  BY <1>1
<1>4. TypeOK
  <2>1. /\ (IF ssl THEN "HANDSHAKING" ELSE "none") \in {"none", "HANDSHAKING", "ESTABLISHED", "ERROR"}
        /\ (IF ssl THEN server ELSE "None") \in {"None", "MemoryBio", "KernelTls"}
    BY HttpAssumption DEF HttpAssumption, Started
  <2>2. state \in [tls : {"none", "HANDSHAKING", "ESTABLISHED", "ERROR"}, bios : BOOLEAN,
                   tlsMode : {"None", "MemoryBio", "KernelTls"},
                   isKtlsOffloaded : BOOLEAN, receives : BOOLEAN, request : 0 .. MaxRequests]
    BY <1>1, <2>1, Bounds
  <2>3. QED BY <1>2, <2>2 DEF TypeOK, Started
<1>5. Typed
  BY <1>2, Bounds, EmptySeq DEF Typed, Started
<1>6. Session
  BY <1>1, <1>3 DEF Session, Started
<1>7. Flights
  BY <1>1, <1>3 DEF Flights, Started
<1>8. Output
  <2>1. Sent = << >>
    BY <1>2 DEF Sent, Started
  <2>2. Len(handled) = 0
    BY <1>2 DEF Started
  <2>3. QED BY <2>1, <2>2, NoPieces DEF Output, Started
<1>9. Closed
  BY <1>2 DEF Closed, Started
<1>10. Live => Stream
  <2>1. Live => server = "None" \/ ssl
    BY <1>3 DEF Live, Started
  <2>2. Current = Unit(0, IF ssl THEN "hello" ELSE "tail")
    BY <1>2, <1>3 DEF Current, Started
  <2>3. payload \o inbox = << >>
    BY <1>2 DEF Started
  <2>4. Current.id = 0 /\ Current.kind = IF ssl THEN "hello" ELSE "tail"
    BY <2>2, UnitIs
  <2>5. Current.kind = "hello" <=> ssl
    BY <2>4
  <2>6. QED BY <1>1, <1>2, <1>3, <2>1, <2>3, <2>4, <2>5, NoUnits DEF Stream, Started
<1>11. QED BY <1>4, <1>5, <1>6, <1>7, <1>8, <1>9, <1>10 DEF IInv, Flow

LEMMA InitInv == Init => IInv
<1>1. ASSUME Init PROVE Started
  <2>1. state = [tls |-> IF FALSE THEN "HANDSHAKING" ELSE "none", bios |-> FALSE,
                 tlsMode |-> IF FALSE THEN server ELSE "None",
                 isKtlsOffloaded |-> FALSE, receives |-> FALSE, request |-> 0]
    BY <1>1 DEF Init
  <2>2. QED BY <1>1, <2>1 DEF Init, Started
<1>2. QED BY <1>1, StartedInv

LEMMA ConnectStep == IInv /\ on_connect => IInv'
<1>1. ASSUME IInv, on_connect PROVE Started'
  <2>1. PICK ssl \in IF server = "None" THEN {FALSE} ELSE BOOLEAN :
          state' = [tls |-> IF ssl THEN "HANDSHAKING" ELSE "none", bios |-> ssl,
                    tlsMode |-> IF ssl THEN server ELSE "None",
                    isKtlsOffloaded |-> FALSE, receives |-> FALSE, request |-> 0]
    BY <1>1 DEF on_connect
  <2>2. /\ open' = TRUE /\ registered' = TRUE /\ backlog' = << >> /\ file' = << >>
        /\ inbox' = << >> /\ shake' = 0 /\ asked' = << >>
        /\ wire' = << >> /\ handled' = << >> /\ short' = {}
        /\ server' = server /\ pc' = "poll" /\ payload' = << >>
    BY <1>1 DEF on_connect, IInv, TypeOK
  <2>3. server' \in TlsModes
    BY <1>1, <2>2 DEF IInv, TypeOK
  <2>4. ssl \in BOOLEAN /\ (server' = "None" => ~ssl)
    BY <2>2
  <2>5. QED BY <2>1, <2>2, <2>3, <2>4 DEF Started
<1>2. Started' => IInv'
  BY StartedInv, PTL
<1>3. QED BY <1>1, <1>2

\* The piece before the second of a response is the first.
LEMMA LastIsHeader ==
  ASSUME NEW s \in Seq(Wired), NEW t \in Seq(Wired), NEW sh, NEW n, Ordered(s, sh, n),
         Len(s) = Len(t) + 1, \A i \in 1 .. Len(t) : s[i] = t[i],
         s[Len(t) + 1].id # 0, s[Len(t) + 1].part = 2
  PROVE  /\ t # << >> /\ t[Len(t)].id = s[Len(t) + 1].id /\ t[Len(t)].part = 1
         /\ t[Len(t)].of = 2 /\ t[Len(t)].id \notin sh
<1> DEFINE k == Len(t)
           b == s[k + 1]
<1>1. k \in Nat /\ Len(s) = k + 1
  BY LenProperties
<1>2. b.id # 0 /\ b.part = 2
  OBVIOUS
<1> HIDE DEF b, k
<1>3. k # 0
  <2>1. ASSUME k = 0 PROVE FALSE
    <3>1. s # << >> /\ s[1] = b
      BY <1>1, <2>1 DEF b
    <3>2. Fits(Handshake, b, sh)
      BY <3>1 DEF Ordered
    <3>3. QED BY <1>2, <3>2, HandshakeIs DEF Fits
  <2>2. QED BY <2>1
<1>4. k \in 1 .. Len(s) - 1 /\ k \in 1 .. k
  BY <1>1, <1>3
<1> DEFINE a == s[k]
<1>5. Fits(a, b, sh) /\ a = t[k]
  BY <1>4 DEF Ordered, b, k
<1>6. a \in Wired
  <2>1. k \in 1 .. Len(s)
    BY <1>1, <1>4
  <2>2. QED BY <2>1, ElementOfSeq
<1> HIDE DEF a
<1>7. a.id # 0 /\ a.part < a.of /\ a.id \notin sh /\ b.id = a.id /\ 2 = a.part + 1
  BY <1>2, <1>5 DEF Fits
<1>8. a.part \in {1, 2} /\ a.of \in {1, 2}
  BY <1>6 DEF Wired
<1>9. a.part = 1 /\ a.of = 2
  BY <1>7, <1>8
<1>10. t # << >>
  BY <1>3 DEF k
<1>11. QED BY <1>5, <1>7, <1>9, <1>10 DEF b, k

\* A file given up behind its header leaves the pieces in order.
LEMMA OrderedShort ==
  ASSUME NEW t \in Seq(Wired), NEW sh, NEW n, NEW m, Ordered(t, sh, n),
         t # << >>, t[Len(t)].id = m, t[Len(t)].part = 1, m # 0
  PROVE  Ordered(t, sh \cup {m}, n)
<1> DEFINE k == Len(t)
<1>1. k \in Nat /\ k # 0 /\ k \in 1 .. k /\ \A i \in 1 .. k : t[i] \in Wired
  BY LenProperties, EmptySeq, ElementOfSeq
<1>2. \A i \in 1 .. k - 1 : t[i].id # m
  <2>1. SUFFICES ASSUME NEW i \in 1 .. k - 1, t[i].id = m PROVE FALSE
    OBVIOUS
  <2>2. t[i].id < t[k].id \/ (t[i].id = t[k].id /\ (t[i].id # 0 => t[i].part < t[k].part))
    BY <1>1 DEF Ordered
  <2>3. i \in 1 .. k
    BY <1>1
  <2>4. t[i].id \in Int /\ t[i].part \in {1, 2}
    BY <1>1, <2>3 DEF Wired
  <2>5. t[i].part < 1
    BY <2>1, <2>2, <2>4
  <2>6. QED BY <2>4, <2>5
<1>3. Fits(Handshake, t[1], sh) => Fits(Handshake, t[1], sh \cup {m})
  BY HandshakeIs DEF Fits
<1>4. \A i \in 1 .. k - 1 : Fits(t[i], t[i + 1], sh) => Fits(t[i], t[i + 1], sh \cup {m})
  BY <1>2 DEF Fits
<1>5. QED BY <1>3, <1>4 DEF Ordered

\* Nothing but what the kernel took has changed.
LEMMA WriteStep == IInv /\ on_write => IInv'
<1> SUFFICES ASSUME IInv, on_write PROVE IInv'
  OBVIOUS
<1>1. /\ pc = "poll" /\ open /\ UNCHANGED <<server, state, pc, payload, client, handled>>
      /\ UNCHANGED <<open, registered>>
      /\ \/ \E k \in 1 .. Len(backlog) : take(backlog, k) /\ UNCHANGED <<file, short>>
         \/ /\ file # << >> /\ wire' = wire \o backlog \o file
            /\ backlog' = << >> /\ file' = << >> /\ UNCHANGED short
         \/ /\ file # << >> /\ wire' = wire \o backlog
            /\ backlog' = << >> /\ file' = << >> /\ short' = short \cup {file[1].id}
  BY DEF on_write
<1>2. /\ server' = server /\ state' = state /\ pc' = pc /\ payload' = payload /\ inbox' = inbox
      /\ shake' = shake /\ asked' = asked /\ handled' = handled /\ open' = open
      /\ registered' = registered
  BY <1>1 DEF client
<1>3. Tcp /\ Sent \in Seq(Wired)
  BY ConnectionIs, SentType DEF IInv
<1>4. /\ wire \in Seq(Wired) /\ backlog \in Seq(Wired) /\ file \in Seq(Wired) /\ Len(file) <= 1
      /\ wire \o backlog \in Seq(Wired) /\ Sent = (wire \o backlog) \o file
  BY <1>3, ConcatProperties DEF Tcp, Sent
<1> DEFINE n == Len(handled)
<1>5. /\ n \in Nat /\ \A x \in short : x <= n
      /\ Ordered(Sent, short, n) /\ (Live => Settled(Sent, short, n))
      /\ file # << >> => file[1].id # 0 /\ file[1].part = 2
      /\ short \subseteq 1 .. MaxRequests
  BY <1>1, LenProperties DEF IInv, Output, Typed, TypeOK
<1> HIDE DEF n
\* Whatever was taken, what is known of it and of the rest is enough.
<1>6. ASSUME wire' \in Seq(Wired), backlog' \in Seq(Wired), file' \in Seq(Wired), Len(file') <= 1,
             file' # << >> => file' = file,
             short' \subseteq 1 .. MaxRequests, \A x \in short' : x <= n,
             Ordered(Sent', short', n), Live => Settled(Sent', short', n)
      PROVE  IInv'
  <2>1. TypeOK'
    BY <1>1, <1>2, <1>6 DEF IInv, TypeOK
  <2>2. Typed'
    BY <1>2, <1>6 DEF IInv, Typed
  <2>3. Session'
    BY <1>2 DEF IInv, Session
  <2>4. Flights'
    BY <1>2 DEF IInv, Flights
  <2>5. Flow' /\ (Live' <=> Live)
    BY <1>2 DEF IInv, Flow, Live, Stream, Runs, End, Current, Spoilt, Scrambled
  <2>6. Output'
    <3>1. Ordered(Sent, short, Len(handled))'
      BY <1>2, <1>6 DEF Ordered, n
    <3>2. Live' => Settled(Sent, short, Len(handled))'
      BY <1>2, <1>6, <2>5 DEF Settled, n
    <3>3. QED BY <1>1, <1>2, <1>5, <1>6, <3>1, <3>2 DEF Output, n
  <2>7. Closed'
    BY <1>2 DEF IInv, Closed
  <2>8. QED BY <2>1, <2>2, <2>3, <2>4, <2>5, <2>6, <2>7 DEF IInv
<1>7. ASSUME NEW k \in 1 .. Len(backlog), take(backlog, k), UNCHANGED <<file, short>>
      PROVE  IInv'
  <2> DEFINE a == SubSeq(backlog, 1, k)
             b == SubSeq(backlog, k + 1, Len(backlog))
  <2>1. a \in Seq(Wired) /\ b \in Seq(Wired) /\ a \o b = backlog
    <3>1. k \in 0 .. Len(backlog)
      OBVIOUS
    <3>2. QED BY <1>4, <3>1, SplitSequence
  <2>2. wire' = wire \o a /\ backlog' = b /\ file' = file /\ short' = short
    BY <1>7 DEF take
  <2> HIDE DEF a, b
  <2>3. wire \o a \in Seq(Wired) /\ (wire \o a) \o b = wire \o backlog
    <3>1. \A q, r, t \in Seq(Wired) : (q \o r) \o t = q \o (r \o t)
      BY ConcatAssociative
    <3>2. wire \o a \in Seq(Wired)
      BY <1>4, <2>1, ConcatProperties
    <3>3. (wire \o a) \o b = wire \o (a \o b)
      <4>1. wire \in Seq(Wired) /\ a \in Seq(Wired) /\ b \in Seq(Wired)
        BY <1>4, <2>1
      <4>2. QED BY <3>1, <4>1
    <3>4. QED BY <2>1, <3>2, <3>3
  <2>4. Sent' = Sent
    BY <1>4, <2>2, <2>3 DEF Sent
  <2>5. QED BY <1>4, <1>5, <1>6, <2>1, <2>2, <2>3, <2>4
<1>8. CASE /\ file # << >> /\ wire' = wire \o backlog \o file
           /\ backlog' = << >> /\ file' = << >> /\ UNCHANGED short
  <2>1. Sent' = Sent
    <3>1. Sent' = (Sent \o << >>) \o << >>
      BY <1>4, <1>8 DEF Sent
    <3>2. QED BY <1>3, <3>1, ConcatEmptySeq
  <2>2. wire' = Sent
    BY <1>4, <1>8
  <2>3. << >> \in Seq(Wired) /\ Len(<< >>) = 0
    BY EmptySeq
  <2>4. QED BY <1>3, <1>5, <1>6, <1>8, <2>1, <2>2, <2>3
<1>9. CASE /\ file # << >> /\ wire' = wire \o backlog
           /\ backlog' = << >> /\ file' = << >> /\ short' = short \cup {file[1].id}
  <2>1. Sent' = wire \o backlog
    <3>1. Sent' = ((wire \o backlog) \o << >>) \o << >>
      BY <1>9 DEF Sent
    <3>2. QED BY <1>4, <3>1, ConcatEmptySeq
  <2>2. << >> \in Seq(Wired) /\ Len(<< >>) = 0
    BY EmptySeq
  <2> DEFINE t == wire \o backlog
             m == file[1].id
  <2>3. Len(file) = 1 /\ file[1] \in Wired /\ m \in 1 .. MaxRequests /\ file[1].part = 2
    <3>1. Len(file) = 1
      <4>1. Len(file) \in Nat /\ Len(file) # 0
        BY <1>4, <1>9, LenProperties, EmptySeq
      <4>2. Len(file) <= 1
        BY <1>4
      <4> HIDE DEF m, t
      <4>3. QED BY <4>1, <4>2
    <3>2. file[1] \in Wired
      <4>1. file \in Seq(Wired) /\ 1 \in 1 .. Len(file)
        BY <1>4, <3>1
      <4> HIDE DEF m, t
      <4>2. QED BY <4>1, ElementOfSeq
    <3>3. m \in 0 .. MaxRequests
      BY <3>2 DEF Wired
    <3>4. m # 0 /\ MaxRequests \in Nat
      BY <1>5, <1>9, Bounds
    <3>5. m \in 1 .. MaxRequests
      BY <3>3, <3>4
    <3>6. QED BY <1>5, <1>9, <3>1, <3>2, <3>5
  <2>4. /\ Len(Sent) = Len(t) + 1 /\ Len(t) \in Nat
        /\ \A i \in 1 .. Len(t) : Sent[i] = t[i]
        /\ Sent[Len(t) + 1] = file[1]
    <3>1. /\ Len(Sent) = Len(t) + Len(file)
          /\ \A i \in 1 .. Len(t) : Sent[i] = t[i]
          /\ \A i \in 1 .. Len(file) : Sent[Len(t) + i] = file[i]
      BY <1>4, Joined
    <3>2. Len(t) \in Nat /\ 1 \in 1 .. Len(file)
      BY <1>4, <2>3, LenProperties
    <3>3. QED BY <2>3, <3>1, <3>2
  <2>5. t \in Seq(Wired)
    BY <1>4
  <2> HIDE DEF t, m
  <2>6. m <= n
    <3>1. Len(t) + 1 \in 1 .. Len(Sent)
      BY <2>4
    <3>2. QED BY <1>5, <2>4, <3>1 DEF Ordered, m
  <2>7. Ordered(t, short, n) /\ t # << >> /\ t[Len(t)].id = m /\ t[Len(t)].part = 1
        /\ t[Len(t)].of = 2 /\ m \notin short
    <3>1. Begins(t, Sent)
      BY <2>4 DEF Begins
    <3>2. Ordered(t, short, n)
      BY <1>3, <1>5, <2>5, <3>1, OrderedPrefix
    <3>3. Sent[Len(t) + 1].id = m /\ Sent[Len(t) + 1].part = 2 /\ m # 0
      BY <1>5, <1>9, <2>3, <2>4 DEF m
    <3>4. /\ t # << >> /\ t[Len(t)].id = Sent[Len(t) + 1].id /\ t[Len(t)].part = 1
          /\ t[Len(t)].of = 2 /\ t[Len(t)].id \notin short
      BY <1>3, <1>5, <2>4, <2>5, <3>3, LastIsHeader
    <3>5. QED BY <3>2, <3>3, <3>4
  <2>8. Ordered(t, short \cup {m}, n)
    BY <2>3, <2>5, <2>7, OrderedShort
  <2>9. Live => Settled(t, short \cup {m}, n)
    <3>1. CASE n = 0
      BY <1>5, <2>3, <2>6, <3>1
    <3>2. CASE n # 0
      <4>1. Live => Sent[Len(Sent)].id = n
        BY <1>5, <3>2 DEF Settled
      <4>2. Live => m = n
        BY <2>4, <4>1 DEF m
      <4>3. QED BY <2>7, <3>2, <4>2 DEF Settled
    <3>3. QED BY <3>1, <3>2
  <2>10. \A x \in short \cup {m} : x <= n
    BY <1>5, <2>6
  <2>11. short \cup {m} \subseteq 1 .. MaxRequests
    BY <1>5, <2>3
  <2>12. short' = short \cup {m} /\ Sent' = t
    BY <1>9, <2>1 DEF t, m
  <2>13. wire' = t /\ backlog' = << >> /\ file' = << >>
    BY <1>9 DEF t
  <2>14. /\ short' \subseteq 1 .. MaxRequests /\ \A x \in short' : x <= n
         /\ Ordered(Sent', short', n) /\ (Live => Settled(Sent', short', n))
    BY <2>8, <2>9, <2>10, <2>11, <2>12
  <2>15. QED BY <1>6, <2>2, <2>5, <2>13, <2>14
<1>10. QED BY <1>1, <1>7, <1>8, <1>9
LEMMA FailStep == IInv /\ connection_fails => IInv'
<1> SUFFICES ASSUME IInv, connection_fails PROVE IInv'
  OBVIOUS
<1>1. /\ pc = "poll" /\ open /\ close_connection
      /\ server' = server /\ state' = state /\ pc' = pc /\ payload' = payload /\ inbox' = inbox
      /\ shake' = shake /\ asked' = asked /\ handled' = handled /\ wire' = wire /\ short' = short
  BY DEF connection_fails, client
<1>2. Tcp
  BY ConnectionIs DEF IInv
<1>3. Tcp' /\ ~open' /\ Sent' = wire
  <2>1. wire' \in Seq(Wired)
    BY <1>1, <1>2 DEF Tcp
  <2>2. QED BY <1>1, <1>2, <2>1, CloseSent
<1>4. ~Live'
  BY <1>1, <1>3 DEF Live
<1>5. TypeOK'
  BY <1>1, <1>3 DEF IInv, TypeOK, Tcp
<1>6. Typed'
  BY <1>1, <1>3 DEF IInv, Typed, Tcp
<1>7. Session'
  BY <1>1 DEF IInv, Session
<1>8. Flights'
  BY <1>1 DEF IInv, Flights
<1>9. Output'
  <2>1. Begins(wire, Sent)
    <3>1. Begins(wire, Sent \o << >>)
      <4>1. << >> \in Seq(Wired)
        BY EmptySeq
      <4>2. QED BY <1>2, <4>1, ClosedAt
    <3>2. Sent \o << >> = Sent
      BY <1>2, SentType, ConcatEmptySeq
    <3>3. QED BY <3>1, <3>2
  <2>2. Ordered(wire, short, Len(handled))
    <3>1. Sent \in Seq(Wired) /\ wire \in Seq(Wired)
      BY <1>2, SentType DEF Tcp
    <3>2. QED BY <2>1, <3>1, OrderedPrefix DEF IInv, Output
  <2>3. Ordered(Sent, short, Len(handled))'
    BY <1>1, <1>3, <2>2 DEF Ordered
  <2>4. file' = << >>
    BY <1>1 DEF close_connection
  <2>5. QED BY <1>1, <1>4, <2>3, <2>4 DEF IInv, Output
<1>10. Closed'
  BY <1>1, <1>3 DEF IInv, Closed, Tcp
<1>11. QED BY <1>4, <1>5, <1>6, <1>7, <1>8, <1>9, <1>10 DEF IInv, Flow

\* The client changes nothing but what it sends and will send.
LEMMA ClientKeeps ==
  ASSUME IInv, UNCHANGED <<server, tcp, state, pc, payload, handled, short>>,
         inbox' \in Seq(Units), shake' \in 0 .. 2,
         asked' \in Seq(Asked), Len(asked') <= MaxRequests, Flights', Flow'
  PROVE  IInv'
<1>1. /\ server' = server /\ open' = open /\ backlog' = backlog /\ file' = file
      /\ registered' = registered /\ wire' = wire /\ state' = state /\ pc' = pc
      /\ payload' = payload /\ handled' = handled /\ short' = short
  BY DEF tcp
<1>2. TypeOK' /\ Typed' /\ Session' /\ Closed'
  <2>1. TypeOK'
    BY <1>1 DEF IInv, TypeOK
  <2>2. Typed'
    BY <1>1 DEF IInv, Typed
  <2>3. Session'
    BY <1>1 DEF IInv, Session
  <2>4. Closed'
    BY <1>1 DEF IInv, Closed
  <2>5. QED BY <2>1, <2>2, <2>3, <2>4
<1>3. Output'
  BY <1>1 DEF IInv, Output, Ordered, Settled, Sent, Live
<1>4. QED BY <1>2, <1>3 DEF IInv

\* While the client's flights are on their way, a living session shakes hands.
LEMMA Shaking ==
  ASSUME IInv, Live, server # "None", shake < 2
  PROVE  state.tls = "HANDSHAKING" /\ handled = << >> /\ payload = << >> /\ state.request = 0
<1>1. state.tls # "ESTABLISHED"
  BY DEF IInv, Flights, Typed
<1>2. state.bios /\ state.tls # "ERROR" /\ state.tls # "none"
  BY <1>1 DEF IInv, Session, Live
<1>3. state.tls = "HANDSHAKING"
  BY <1>1, <1>2 DEF IInv, TypeOK
<1>4. QED BY <1>3 DEF IInv, Session

\* One more unit behind those on their way, and one behind that.
LEMMA MoreUnits ==
  ASSUME Typed, NEW v \in Units
  PROVE  /\ Append(inbox, v) \in Seq(Units) /\ Len(Append(inbox, v)) = Len(inbox) + 1
         /\ Len(inbox) \in Nat
         /\ \A i \in 1 .. Len(inbox) : Append(inbox, v)[i] = inbox[i]
         /\ Append(inbox, v)[Len(inbox) + 1] = v
         /\ payload \o Append(inbox, v) = Append(payload \o inbox, v)
         /\ payload \o inbox \in Seq(Units)
<1>1. payload \in Seq(Units) /\ inbox \in Seq(Units) /\ <<v>> \in Seq(Units)
  BY DEF Typed
<1>2. /\ Append(inbox, v) \in Seq(Units) /\ Len(Append(inbox, v)) = Len(inbox) + 1
      /\ \A i \in 1 .. Len(inbox) : Append(inbox, v)[i] = inbox[i]
      /\ Append(inbox, v)[Len(inbox) + 1] = v
      /\ Append(inbox, v) = inbox \o <<v>>
  BY <1>1, AppendProperties, AppendIsConcat
<1>3. payload \o inbox \in Seq(Units)
  BY <1>1, ConcatProperties
<1>4. Append(payload \o inbox, v) = (payload \o inbox) \o <<v>>
  BY <1>3, AppendIsConcat
<1>5. \A q, r, s \in Seq(Units) : (q \o r) \o s = q \o (r \o s)
  BY ConcatAssociative
<1>6. (payload \o inbox) \o <<v>> = payload \o (inbox \o <<v>>)
  BY <1>1, <1>5
<1>7. QED BY <1>1, <1>2, <1>3, <1>4, <1>6, LenProperties

LEMMA HandshakeStep == IInv /\ client_handshake => IInv'
<1> SUFFICES ASSUME IInv, client_handshake PROVE IInv'
  OBVIOUS
<1> DEFINE kind == IF shake = 0 THEN "hello" ELSE "fin"
           v == Unit(0, kind)
<1>1. /\ open /\ server # "None" /\ shake < 2 /\ shake' = shake + 1 /\ inbox' = Append(inbox, v)
      /\ UNCHANGED <<server, tcp, state, pc, payload, asked, handled, short>>
  BY DEF client_handshake
<1>2. shake \in {0, 1} /\ shake' \in {1, 2} /\ shake' \in 0 .. 2 /\ (shake' = 2 <=> shake = 1)
  BY <1>1 DEF IInv, Typed
<1>3. v \in Units /\ v.id = 0 /\ v.kind = kind /\ kind \in {"hello", "fin"}
  BY Bounds DEF Units, Unit
<1>4. kind = "fin" <=> shake' = 2
  BY <1>2
<1> HIDE DEF v, kind
<1>5. /\ Append(inbox, v) \in Seq(Units) /\ Len(Append(inbox, v)) = Len(inbox) + 1
      /\ Len(inbox) \in Nat
      /\ \A i \in 1 .. Len(inbox) : Append(inbox, v)[i] = inbox[i]
      /\ Append(inbox, v)[Len(inbox) + 1] = v
      /\ payload \o Append(inbox, v) = Append(payload \o inbox, v)
      /\ payload \o inbox \in Seq(Units)
  BY <1>3, MoreUnits DEF IInv
<1>6. /\ inbox' \in Seq(Units) /\ Len(inbox') = Len(inbox) + 1
      /\ \A i \in 1 .. Len(inbox) : inbox'[i] = inbox[i]
      /\ inbox'[Len(inbox) + 1] = v
      /\ DOMAIN inbox' = 1 .. Len(inbox) + 1 /\ DOMAIN inbox = 1 .. Len(inbox)
      /\ \A i \in 1 .. Len(inbox) + 1 : i \in 1 .. Len(inbox) \/ i = Len(inbox) + 1
  <2>1. inbox \in Seq(Units)
    BY DEF IInv, Typed
  <2>2. \A i \in 1 .. Len(inbox) + 1 : i \in 1 .. Len(inbox) \/ i = Len(inbox) + 1
    BY <1>5
  <2>3. QED BY <1>1, <1>5, <2>1, <2>2, LenProperties
<1>7. Flights'
  <2>1. state' = state /\ server' = server
    BY <1>1
  <2>2. state.tls # "ESTABLISHED"
    BY <1>2 DEF IInv, Flights
  <2>3. \A i \in DOMAIN inbox : inbox[i].kind # "fin" /\ (inbox[i].kind = "hello" => inbox[i].id = 0)
    BY <1>2 DEF IInv, Flights
  <2>4. ASSUME NEW i \in DOMAIN inbox'
        PROVE  /\ inbox'[i].kind = "fin" => shake' = 2
               /\ inbox'[i].kind \in {"hello", "fin"} => inbox'[i].id = 0
    BY <1>3, <1>6, <1>4, <2>3
  <2>5. QED BY <1>1, <2>1, <2>2, <2>4 DEF Flights
<1>8. ASSUME Live' PROVE (Stream \/ Spoilt)'
  <2>1. Live
    BY <1>1, <1>8 DEF Live, tcp
  <2>2. state.tls = "HANDSHAKING" /\ handled = << >> /\ payload = << >> /\ state.request = 0
    BY <1>1, <2>1, Shaking
  <2>3. /\ server' = server /\ state' = state /\ payload' = payload /\ asked' = asked
        /\ handled' = handled
    BY <1>1
  <2>4. ~Scrambled
    BY <2>2 DEF Scrambled
  <2>5. CASE Spoilt
    <3>1. PICK i \in DOMAIN inbox :
            inbox[i].kind = "junk" /\ \A j \in 1 .. i : inbox[j].kind # "fin"
      BY <2>5 DEF Spoilt
    <3>2. i \in DOMAIN inbox' /\ \A j \in 1 .. i : j \in 1 .. Len(inbox)
      BY <1>5, <1>6
    <3>3. inbox'[i].kind = "junk" /\ \A j \in 1 .. i : inbox'[j].kind # "fin"
      BY <1>6, <3>1, <3>2
    <3>4. QED BY <2>2, <2>3, <3>2, <3>3 DEF Spoilt
  <2>6. CASE Stream
    <3> DEFINE q == payload \o inbox
               e == End(Current, q)
    <3>1. /\ Runs(Current, q) /\ e.id = Len(asked) /\ e.kind = "hello"
          /\ \A i \in DOMAIN inbox : inbox[i].kind = "hello" \/ \E j \in 1 .. i : inbox[j].kind = "fin"
      BY <1>1, <2>2, <2>6 DEF Stream
    <3>2. Follows(e, v)
      BY <1>3, <3>1 DEF Follows
    <3>3. e.id = 0
      <4>1. q = inbox
        BY <2>2, ConcatEmptySeq DEF IInv, Typed
      <4>2. Len(handled) = 0 /\ Current.id = Len(handled)
        BY <2>2, UnitIs DEF Current
      <4>3. CASE q = << >>
        BY <4>2, <4>3 DEF End
      <4>4. CASE q # << >>
        <5>1. e = inbox[Len(inbox)]
          BY <4>1, <4>4 DEF End
        <5>2. Len(inbox) \in DOMAIN inbox
          BY <1>5, <1>6, <4>1, <4>4, EmptySeq DEF IInv, Typed
        <5>3. QED BY <3>1, <5>1, <5>2 DEF IInv, Flights
      <4>5. QED BY <4>3, <4>4
    <3>4. q \in Seq(Units) /\ payload' \o inbox' = Append(q, v)
      BY <1>1, <1>5
    <3> HIDE DEF q, e
    <3>5. /\ Runs(Current, Append(q, v)) /\ End(Current, Append(q, v)) = v
      BY <1>3, <3>1, <3>2, <3>4, RunsAppend DEF e
    <3>6. Current' = Current
      BY <2>3 DEF Current
    <3>7. Runs(Current, payload \o inbox)' /\ End(Current, payload \o inbox)' = v
      BY <3>4, <3>5, <3>6 DEF Runs, End
    <3>8. v.id = Len(asked') /\ v.kind # "head"
          /\ (v.kind = "hello" <=> server' # "None" /\ shake' < 2)
      BY <1>1, <1>2, <1>3, <1>4, <2>3, <3>1, <3>3
    <3>9. ASSUME NEW i \in DOMAIN inbox'
          PROVE  inbox'[i].kind = "hello" \/ \E j \in 1 .. i : inbox'[j].kind = "fin"
      <4>1. CASE i = Len(inbox) + 1
        <5>1. i \in 1 .. i
          BY <1>5, <4>1
        <5>2. QED BY <1>3, <1>6, <4>1, <5>1
      <4>2. CASE i \in 1 .. Len(inbox)
        <5>1. \A j \in 1 .. i : inbox'[j] = inbox[j]
          BY <1>5, <1>6, <4>2
        <5>2. i \in 1 .. i
          BY <1>5, <4>2
        <5>3. QED BY <1>6, <3>1, <4>2, <5>1, <5>2
      <4>3. QED BY <1>6, <4>1, <4>2
    <3>10. QED BY <2>2, <2>3, <3>7, <3>8, <3>9 DEF Stream
  <2>7. QED BY <2>1, <2>4, <2>5, <2>6 DEF IInv, Flow
<1>9. Flow'
  BY <1>8 DEF Flow
<1>10. asked' \in Seq(Asked) /\ Len(asked') <= MaxRequests
  BY <1>1 DEF IInv, Typed
<1>11. QED BY <1>1, <1>2, <1>6, <1>7, <1>9, <1>10, ClientKeeps
\* A request, or something malformed, behind the units on their way.
Sending(id) == {<<Unit(id, "head"), Unit(id, "tail")>>, <<Unit(id, "bad")>>, <<Unit(id, "junk")>>}

\* The units of a request.
LEMMA SendingIs ==
  ASSUME NEW id \in 0 .. MaxRequests, NEW x \in Sending(id)
  PROVE  /\ x \in Seq(Units) /\ x # << >>
         /\ \A i \in 1 .. Len(x) : x[i].kind \in {"head", "tail", "bad", "junk"} /\ x[i].id = id
<1>1. \A kind \in {"head", "tail", "bad", "junk"} :
        Unit(id, kind) \in Units /\ Unit(id, kind).kind = kind /\ Unit(id, kind).id = id
  BY DEF Unit, Units
<1>2. CASE x = <<Unit(id, "head"), Unit(id, "tail")>>
  <2>1. Len(x) = 2 /\ x[1] = Unit(id, "head") /\ x[2] = Unit(id, "tail")
    BY <1>2
  <2>2. x \in Seq(Units)
    BY <1>1, <1>2
  <2>3. \A i \in 1 .. 2 : i = 1 \/ i = 2
    OBVIOUS
  <2>4. x # << >>
    BY <2>1
  <2>5. \A i \in 1 .. Len(x) : x[i].kind \in {"head", "tail", "bad", "junk"} /\ x[i].id = id
    <3>1. \A i \in 1 .. Len(x) : x[i] = Unit(id, "head") \/ x[i] = Unit(id, "tail")
      BY <2>1, <2>3
    <3>2. QED BY <1>1, <3>1
  <2>6. QED BY <2>2, <2>4, <2>5
<1>3. ASSUME NEW kind \in {"bad", "junk"}, x = <<Unit(id, kind)>>
      PROVE  /\ x \in Seq(Units) /\ x # << >>
             /\ \A i \in 1 .. Len(x) : x[i].kind \in {"head", "tail", "bad", "junk"} /\ x[i].id = id
  <2>1. Len(x) = 1 /\ x[1] = Unit(id, kind)
    BY <1>3
  <2>2. x \in Seq(Units)
    BY <1>1, <1>3
  <2>3. \A i \in 1 .. 1 : i = 1
    OBVIOUS
  <2>4. x # << >>
    BY <2>1
  <2>5. \A i \in 1 .. Len(x) : x[i].kind \in {"head", "tail", "bad", "junk"} /\ x[i].id = id
    <3>1. \A i \in 1 .. Len(x) : x[i] = Unit(id, kind)
      BY <2>1, <2>3
    <3>2. QED BY <1>1, <3>1
  <2>6. QED BY <2>2, <2>4, <2>5
<1>4. QED BY <1>2, <1>3 DEF Sending

\* A request behind the last makes a longer stream.
LEMMA StreamGrows ==
  ASSUME NEW u, NEW q \in Seq(Units), Runs(u, q), NEW id \in 0 .. MaxRequests,
         End(u, q).kind \notin {"head", "hello"}, id = End(u, q).id + 1, NEW x \in Sending(id)
  PROVE  /\ Runs(u, q \o x) /\ End(u, q \o x).id = id
         /\ End(u, q \o x).kind \notin {"head", "hello"}
<1>1. \A kind \in {"head", "tail", "bad", "junk"} :
        Unit(id, kind) \in Units /\ Unit(id, kind).kind = kind /\ Unit(id, kind).id = id
  BY DEF Unit, Units
<1>2. \A kind \in {"head", "bad", "junk"} : Follows(End(u, q), Unit(id, kind))
  BY <1>1 DEF Follows
<1>3. \A kind \in {"head", "bad", "junk"} :
        /\ Append(q, Unit(id, kind)) \in Seq(Units) /\ Runs(u, Append(q, Unit(id, kind)))
        /\ End(u, Append(q, Unit(id, kind))) = Unit(id, kind)
        /\ Append(q, Unit(id, kind)) = q \o <<Unit(id, kind)>>
  <2>1. ASSUME NEW v \in Units, Follows(End(u, q), v)
        PROVE  Append(q, v) \in Seq(Units) /\ Runs(u, Append(q, v)) /\ End(u, Append(q, v)) = v
               /\ Append(q, v) = q \o <<v>>
    BY <2>1, RunsAppend, AppendIsConcat
  <2>2. QED BY <1>1, <1>2, <2>1
<1>4. ASSUME NEW kind \in {"bad", "junk"}, x = <<Unit(id, kind)>>
      PROVE  /\ Runs(u, q \o x) /\ End(u, q \o x).id = id
             /\ End(u, q \o x).kind \notin {"head", "hello"}
  <2>1. q \o x = Append(q, Unit(id, kind))
    BY <1>3, <1>4
  <2>2. QED BY <1>1, <1>3, <2>1
<1>5. CASE x = <<Unit(id, "head"), Unit(id, "tail")>>
  <2> DEFINE h == Unit(id, "head")
             t == Unit(id, "tail")
             p == Append(q, h)
  <2>1. h \in Units /\ t \in Units /\ t.id = id /\ t.kind = "tail" /\ h.kind = "head" /\ h.id = id
    BY <1>1
  <2>2. p \in Seq(Units) /\ Runs(u, p) /\ End(u, p) = h
    BY <1>3
  <2>3. q \o x = Append(p, t)
    BY <1>5, <2>1, TwoOf
  <2> HIDE DEF h, t, p
  <2>4. Follows(h, t)
    BY <2>1 DEF Follows
  <2>5. Runs(u, Append(p, t)) /\ End(u, Append(p, t)) = t
    BY <2>1, <2>2, <2>4, RunsAppend
  <2>6. QED BY <2>1, <2>3, <2>5
<1>6. QED BY <1>4, <1>5 DEF Sending

LEMMA SendsStep == IInv /\ client_sends => IInv'
<1> SUFFICES ASSUME IInv, client_sends PROVE IInv'
  OBVIOUS
<1> DEFINE n == Len(asked)
           id == n + 1
<1>1. n \in Nat /\ n < MaxRequests /\ id \in 0 .. MaxRequests /\ asked \in Seq(Asked)
      /\ inbox \in Seq(Units) /\ payload \in Seq(Units) /\ Len(inbox) \in Nat
  <2>1. asked \in Seq(Asked) /\ n < MaxRequests /\ inbox \in Seq(Units) /\ payload \in Seq(Units)
    BY DEF client_sends, IInv, Typed
  <2>2. n \in Nat /\ Len(inbox) \in Nat
    BY <2>1, LenProperties
  <2>3. QED BY <2>1, <2>2, Bounds
<1>2. PICK x \in Sending(id), req \in Asked :
        /\ inbox' = inbox \o x /\ asked' = Append(asked, req)
        /\ server = "None" \/ shake = 2 \/ x = <<Unit(id, "junk")>>
        /\ server = "None" => x # <<Unit(id, "junk")>>
  <2>1. ASSUME NEW kind \in {"bad", "junk"}
        PROVE  <<Unit(id, kind)>> \in Sending(id) /\ Append(inbox, Unit(id, kind)) = inbox \o <<Unit(id, kind)>>
    <3>1. Unit(id, kind) \in Units
      BY <1>1 DEF Unit, Units
    <3>2. QED BY <1>1, <3>1, AppendIsConcat DEF Sending
  <2>2. <<Unit(id, "head"), Unit(id, "tail")>> \in Sending(id)
    BY DEF Sending
  <2>3. Malformed \in Asked /\ Requests \subseteq Asked
    BY DEF Asked
  <2>4. ASSUME NEW req \in Requests, server # "None" => shake = 2, asked' = Append(asked, req),
               inbox' = inbox \o <<Unit(id, "head"), Unit(id, "tail")>>
        PROVE  \E x \in Sending(id), r \in Asked :
                 /\ inbox' = inbox \o x /\ asked' = Append(asked, r)
                 /\ server = "None" \/ shake = 2 \/ x = <<Unit(id, "junk")>>
                 /\ server = "None" => x # <<Unit(id, "junk")>>
    <3>1. <<Unit(id, "head"), Unit(id, "tail")>> # <<Unit(id, "junk")>>
      OBVIOUS
    <3>2. QED BY <2>2, <2>3, <2>4, <3>1
  <2>5. ASSUME asked' = Append(asked, Malformed), server # "None",
               inbox' = Append(inbox, Unit(id, "junk"))
        PROVE  \E x \in Sending(id), r \in Asked :
                 /\ inbox' = inbox \o x /\ asked' = Append(asked, r)
                 /\ server = "None" \/ shake = 2 \/ x = <<Unit(id, "junk")>>
                 /\ server = "None" => x # <<Unit(id, "junk")>>
    BY <2>1, <2>3, <2>5
  <2>6. ASSUME asked' = Append(asked, Malformed), server # "None" => shake = 2,
               inbox' = Append(inbox, Unit(id, "bad"))
        PROVE  \E x \in Sending(id), r \in Asked :
                 /\ inbox' = inbox \o x /\ asked' = Append(asked, r)
                 /\ server = "None" \/ shake = 2 \/ x = <<Unit(id, "junk")>>
                 /\ server = "None" => x # <<Unit(id, "junk")>>
    <3>1. <<Unit(id, "bad")>> # <<Unit(id, "junk")>>
      <4>1. Unit(id, "bad").kind = "bad" /\ Unit(id, "junk").kind = "junk"
        BY UnitIs
      <4>2. QED BY <4>1
    <3>2. QED BY <2>1, <2>3, <2>6, <3>1
  <2>7. QED BY <2>4, <2>5, <2>6 DEF client_sends
<1>3. UNCHANGED <<server, tcp, shake, state, pc, payload, handled, short>>
  BY DEF client_sends
<1>4. asked' \in Seq(Asked) /\ Len(asked') = id /\ id <= MaxRequests
  BY <1>1, <1>2, AppendProperties
<1>5. /\ x \in Seq(Units) /\ Len(x) \in Nat \ {0}
      /\ \A i \in 1 .. Len(x) : x[i].kind \in {"head", "tail", "bad", "junk"}
  BY <1>1, SendingIs, LenProperties, EmptySeq
<1>6. /\ inbox' \in Seq(Units) /\ Len(inbox') = Len(inbox) + Len(x)
      /\ \A i \in 1 .. Len(inbox) : inbox'[i] = inbox[i]
      /\ \A i \in 1 .. Len(x) : inbox'[Len(inbox) + i] = x[i]
      /\ \A i \in 1 .. Len(inbox) + Len(x) :
           i \in 1 .. Len(inbox) \/ \E j \in 1 .. Len(x) : i = Len(inbox) + j
  <2>1. inbox' = inbox \o x
    BY <1>2
  <2>2. /\ inbox \o x \in Seq(Units) /\ Len(inbox \o x) = Len(inbox) + Len(x)
        /\ \A i \in 1 .. Len(inbox) : (inbox \o x)[i] = inbox[i]
        /\ \A i \in 1 .. Len(x) : (inbox \o x)[Len(inbox) + i] = x[i]
        /\ \A i \in 1 .. Len(inbox) + Len(x) :
             i \in 1 .. Len(inbox) \/ \E j \in 1 .. Len(x) : i = Len(inbox) + j
    <3> HIDE DEF id, n
    <3>1. QED BY <1>1, <1>5, Joined
  <2>3. QED BY <2>1, <2>2, Zenon
<1>7. DOMAIN inbox = 1 .. Len(inbox) /\ DOMAIN inbox' = 1 .. Len(inbox) + Len(x)
  BY <1>1, <1>6, LenProperties
<1> HIDE DEF id, n
<1>8. Flights'
  <2>1. ASSUME NEW i \in DOMAIN inbox'
        PROVE  /\ inbox'[i].kind = "fin" => shake' = 2
               /\ inbox'[i].kind \in {"hello", "fin"} => inbox'[i].id = 0
    <3>1. CASE i \in 1 .. Len(inbox)
      BY <1>3, <1>6, <1>7, <3>1 DEF IInv, Flights
    <3>2. ASSUME NEW j \in 1 .. Len(x), i = Len(inbox) + j
          PROVE  inbox'[i].kind \notin {"fin", "hello"}
      <4>1. inbox'[i].kind \in {"head", "tail", "bad", "junk"}
        BY <1>5, <1>6, <3>2
      <4>2. QED BY <4>1
    <3>3. QED BY <1>6, <1>7, <3>1, <3>2
  <2>2. QED BY <1>3, <2>1 DEF IInv, Flights
<1>9. ASSUME Live' PROVE (Stream \/ Spoilt \/ Scrambled)'
  <2>1. Live
    BY <1>3, <1>9 DEF Live, tcp
  <2>2. /\ server' = server /\ state' = state /\ payload' = payload /\ pc' = pc
        /\ handled' = handled /\ shake' = shake
    BY <1>3
  <2>3. ASSUME NEW i \in DOMAIN inbox
        PROVE  i \in DOMAIN inbox' /\ \A j \in 1 .. i : inbox'[j] = inbox[j]
    BY <1>1, <1>5, <1>6, <1>7
  <2>4. CASE Scrambled
    BY <2>2, <2>4 DEF Scrambled
  <2>5. CASE Spoilt
    <3>1. PICK i \in DOMAIN inbox :
            inbox[i].kind = "junk" /\ \A j \in 1 .. i : inbox[j].kind # "fin"
      BY <2>5 DEF Spoilt
    <3>2. i \in 1 .. i
      BY <1>1, <1>7
    <3>3. /\ i \in DOMAIN inbox' /\ inbox'[i].kind = "junk"
          /\ \A j \in 1 .. i : inbox'[j].kind # "fin"
      BY <2>3, <3>1, <3>2
    <3>4. QED BY <2>2, <2>5, <3>3 DEF Spoilt
  <2>6. CASE Stream /\ (server = "None" \/ shake = 2)
    <3> DEFINE q == payload \o inbox
               e == End(Current, q)
    <3>1. /\ Runs(Current, q) /\ e.id = Len(asked) /\ e.kind # "head" /\ e.kind # "hello"
          /\ state.request # 0 => state.request = Len(handled) + 1
          /\ state.tls = "HANDSHAKING" =>
               \A i \in DOMAIN inbox : inbox[i].kind = "hello" \/ \E j \in 1 .. i : inbox[j].kind = "fin"
      BY <2>6 DEF Stream
    <3>2. q \in Seq(Units) /\ payload' \o inbox' = q \o x
      <4>1. \A r, s, t \in Seq(Units) : (r \o s) \o t = r \o (s \o t)
        BY ConcatAssociative
      <4>2. (payload \o inbox) \o x = payload \o (inbox \o x)
        BY <1>1, <1>5, <4>1
      <4>3. QED BY <1>1, <1>2, <2>2, <4>2, ConcatProperties
    <3>3. state.tls = "HANDSHAKING" => \E j \in DOMAIN inbox : inbox[j].kind = "fin"
      <4>1. SUFFICES ASSUME state.tls = "HANDSHAKING" PROVE \E j \in DOMAIN inbox : inbox[j].kind = "fin"
        OBVIOUS
      <4>2. payload = << >> /\ state.request = 0
        BY <4>1 DEF IInv, Session
      <4>3. q = inbox /\ Current.kind = "hello"
        BY <1>1, <4>1, <4>2, ConcatEmptySeq, UnitIs DEF Current
      <4>4. q # << >>
        BY <3>1, <4>3 DEF End
      <4>5. e = inbox[Len(inbox)] /\ Len(inbox) \in DOMAIN inbox
        BY <1>1, <1>7, <4>3, <4>4, EmptySeq DEF End
      <4>6. PICK j \in 1 .. Len(inbox) : inbox[j].kind = "fin"
        BY <3>1, <4>1, <4>5
      <4>7. QED BY <1>7, <4>6
    <3> HIDE DEF q, e
    <3>4. id = e.id + 1
      BY <3>1 DEF id, n
    <3>5. /\ Runs(Current, q \o x) /\ End(Current, q \o x).id = id
          /\ End(Current, q \o x).kind \notin {"head", "hello"}
      BY <1>1, <3>1, <3>2, <3>4, StreamGrows DEF e
    <3>6. Current' = Current
      BY <2>2 DEF Current
    <3>7. /\ Runs(Current, payload \o inbox)'
          /\ End(Current, payload \o inbox)' = End(Current, q \o x)
      BY <3>2, <3>5, <3>6 DEF Runs, End
    <3>8. ASSUME state.tls = "HANDSHAKING", NEW i \in DOMAIN inbox'
          PROVE  inbox'[i].kind = "hello" \/ \E j \in 1 .. i : inbox'[j].kind = "fin"
      <4>1. CASE i \in 1 .. Len(inbox)
        <5>1. i \in DOMAIN inbox /\ i \in 1 .. i
          BY <1>1, <1>7, <4>1
        <5>2. QED BY <2>3, <3>1, <3>8, <5>1
      <4>2. ASSUME NEW k \in 1 .. Len(x), i = Len(inbox) + k
            PROVE  \E j \in 1 .. i : inbox'[j].kind = "fin"
        <5>1. PICK j \in DOMAIN inbox : inbox[j].kind = "fin"
          BY <3>3, <3>8
        <5>2. j \in 1 .. i /\ inbox'[j] = inbox[j]
          BY <1>1, <1>5, <1>6, <1>7, <4>2
        <5>3. QED BY <5>1, <5>2
      <4>3. QED BY <1>6, <1>7, <4>1, <4>2
    <3>9. QED BY <1>4, <2>2, <2>6, <3>1, <3>5, <3>7, <3>8 DEF Stream
  <2>7. CASE Stream /\ server # "None" /\ shake # 2
    <3>1. shake < 2 /\ x = <<Unit(id, "junk")>>
      BY <1>2, <2>7 DEF IInv, Typed
    <3>2. state.tls = "HANDSHAKING"
      BY <2>1, <2>7, <3>1, Shaking
    <3>3. \A i \in DOMAIN inbox : inbox[i].kind # "fin"
      BY <2>7 DEF IInv, Flights
    <3>4. Len(x) = 1 /\ x[1].kind = "junk"
      BY <3>1, UnitIs
    <3> DEFINE i == Len(inbox) + 1
    <3>5. i \in DOMAIN inbox' /\ inbox'[i].kind = "junk"
      <4>1. 1 \in 1 .. Len(x) /\ i \in 1 .. Len(inbox) + Len(x)
        BY <1>1, <3>4
      <4>2. QED BY <1>6, <1>7, <3>4, <4>1
    <3>6. \A j \in 1 .. i : inbox'[j].kind # "fin"
      <4>1. ASSUME NEW j \in 1 .. i PROVE inbox'[j].kind # "fin"
        <5>1. CASE j = i
          BY <3>5, <5>1
        <5>2. CASE j \in 1 .. Len(inbox)
          BY <1>6, <1>7, <3>3, <5>2
        <5>3. QED BY <1>1, <5>1, <5>2
      <4>2. QED BY <4>1
    <3> HIDE DEF i
    <3>7. QED BY <2>2, <3>2, <3>5, <3>6 DEF Spoilt
  <2>8. QED BY <2>1, <2>4, <2>5, <2>6, <2>7 DEF IInv, Flow
<1>10. Flow'
  BY <1>9 DEF Flow
<1>11. shake' \in 0 .. 2
  BY <1>3 DEF IInv, Typed
<1>12. QED BY <1>3, <1>4, <1>6, <1>8, <1>10, <1>11, ClientKeeps
-----------------------------------------------------------------------------
(* Receiving.                                                              *)

Received(k) ==
  /\ pc = "poll" /\ open /\ k \in 1 .. Len(inbox)
  /\ inbox' = SubSeq(inbox, k + 1, Len(inbox))
  /\ UNCHANGED <<server, shake, asked, handled, short>>

\* What was received, and what is left to receive.
LEMMA ReceivedIs ==
  ASSUME IInv, NEW k, Received(k)
  PROVE  LET chunk == SubSeq(inbox, 1, k)
         IN  /\ chunk \in Seq(Units) /\ Len(chunk) = k /\ chunk # << >>
             /\ \A i \in 1 .. k : chunk[i] = inbox[i]
             /\ inbox' \in Seq(Units) /\ Len(inbox') = Len(inbox) - k
             /\ \A i \in 1 .. Len(inbox) - k : inbox'[i] = inbox[k + i]
             /\ chunk \o inbox' = inbox /\ payload \o inbox = inbox /\ payload = << >>
             /\ k \in Nat \ {0} /\ Len(inbox) \in Nat /\ k <= Len(inbox)
             /\ \A i \in 1 .. Len(inbox) : inbox[i] \in Units
             /\ DOMAIN inbox = 1 .. Len(inbox) /\ DOMAIN inbox' = 1 .. Len(inbox) - k
<1> DEFINE chunk == SubSeq(inbox, 1, k)
<1>1. inbox \in Seq(Units) /\ payload = << >>
  BY DEF Received, IInv, Typed, TypeOK
<1>2. /\ k \in Nat \ {0} /\ Len(inbox) \in Nat /\ k <= Len(inbox) /\ k \in 0 .. Len(inbox)
      /\ DOMAIN inbox = 1 .. Len(inbox)
  BY <1>1, LenProperties DEF Received
<1>3. /\ chunk \in Seq(Units) /\ Len(chunk) = k /\ \A i \in 1 .. k : chunk[i] = inbox[i]
      /\ inbox' \in Seq(Units) /\ Len(inbox') = Len(inbox) - k
      /\ \A i \in 1 .. Len(inbox) - k : inbox'[i] = inbox[k + i]
      /\ chunk \o inbox' = inbox
  <2>1. inbox' = SubSeq(inbox, k + 1, Len(inbox))
    BY DEF Received
  <2>2. QED BY <1>1, <1>2, <2>1, SplitSequence
<1> HIDE DEF chunk
<1>4. payload \o inbox = inbox
  BY <1>1, ConcatEmptySeq
<1>5. chunk # << >> /\ DOMAIN inbox' = 1 .. Len(inbox) - k
  BY <1>2, <1>3, LenProperties
<1>6. \A i \in 1 .. Len(inbox) : inbox[i] \in Units
  BY <1>1, ElementOfSeq
<1>7. QED BY <1>1, <1>2, <1>3, <1>4, <1>5, <1>6 DEF chunk

\* What on_message keeps, whatever it reads.
LEMMA MessageKeeps ==
  ASSUME IInv, NEW k, Received(k), Tcp', Output', Session', Flow',
         payload' \in Seq(Units), pc' \in {"poll", "offload", "parse"}, pc' = "poll" => payload' = << >>,
         state' \in [tls : {"none", "HANDSHAKING", "ESTABLISHED", "ERROR"}, bios : BOOLEAN,
                     tlsMode : {"None", "MemoryBio", "KernelTls"},
                     isKtlsOffloaded : BOOLEAN, receives : BOOLEAN, request : 0 .. MaxRequests],
         state'.tls = "ESTABLISHED" => shake = 2
  PROVE  IInv'
<1>1. /\ server' = server /\ shake' = shake /\ asked' = asked /\ handled' = handled
      /\ short' = short /\ open
  BY DEF Received
<1>2. TypeOK'
  BY <1>1 DEF IInv, TypeOK, Tcp
<1>3. /\ inbox' \in Seq(Units) /\ DOMAIN inbox' = 1 .. Len(inbox) - k
      /\ \A i \in 1 .. Len(inbox) - k : inbox'[i] = inbox[k + i] /\ k + i \in DOMAIN inbox
  BY ReceivedIs
<1>4. Typed'
  BY <1>1, <1>3 DEF IInv, Typed, Tcp
<1>5. Flights'
  BY <1>1, <1>3 DEF IInv, Flights
<1>6. Closed'
  BY <1>1 DEF IInv, Closed, Tcp
<1>7. QED BY <1>2, <1>4, <1>5, <1>6 DEF IInv

\* With nothing answered, all that was sent are the handshake's records.
LEMMA HandshakeOnly ==
  ASSUME IInv, handled = << >>
  PROVE  /\ Sent \in Seq(Wired) /\ Len(handled) = 0 /\ file = << >>
         /\ \A i \in 1 .. Len(Sent) : Sent[i].id = 0 /\ (Sent[i].as = "clear" => server = "None")
<1>1. Tcp /\ Sent \in Seq(Wired)
  BY ConnectionIs, SentType DEF IInv
<1>2. Len(handled) = 0
  OBVIOUS
<1>3. \A i \in 1 .. Len(Sent) : Sent[i] \in Wired
  BY <1>1, ElementOfSeq
<1>4. \A i \in 1 .. Len(Sent) : Sent[i].id <= 0 /\ (Sent[i].as = "clear" => server = "None")
  BY <1>2 DEF IInv, Output, Ordered
<1>5. \A i \in 1 .. Len(Sent) : Sent[i].id = 0
  BY <1>3, <1>4 DEF Wired
<1>6. file = << >>
  <2>1. SUFFICES ASSUME file # << >> PROVE FALSE
    OBVIOUS
  <2> DEFINE s == wire \o backlog
             m == Len(s)
  <2>2. s \in Seq(Wired) /\ file \in Seq(Wired)
    BY <1>1, ConcatProperties DEF Tcp
  <2>3. Sent = s \o file
    BY DEF Sent
  <2> HIDE DEF s
  <2>4. /\ Len(Sent) = m + Len(file) /\ \A i \in 1 .. Len(file) : Sent[m + i] = file[i]
    BY <2>2, <2>3, Joined
  <2>5. m \in Nat /\ Len(file) \in Nat \ {0}
    BY <2>1, <2>2, LenProperties, EmptySeq
  <2> HIDE DEF m
  <2>6. 1 \in 1 .. Len(file) /\ m + 1 \in 1 .. Len(Sent)
    BY <2>4, <2>5
  <2>7. file[1].id # 0
    BY <2>1 DEF IInv, Output
  <2>8. QED BY <1>5, <2>4, <2>6, <2>7
<1>7. QED BY <1>1, <1>2, <1>4, <1>5, <1>6

\* The output while nothing was answered.
LEMMA OutputOfHandshake ==
  ASSUME IInv, handled = << >>, Sent' \in Seq(Wired), file' = << >>,
         \A i \in 1 .. Len(Sent') : Sent'[i].id = 0 /\ (Sent'[i].as = "clear" => server = "None"),
         UNCHANGED <<server, handled, short>>
  PROVE  Output'
<1>1. /\ server' = server /\ handled' = handled /\ short' = short /\ Len(handled) = 0
  OBVIOUS
<1>2. Ordered(Sent', short, 0)
  BY OrderedZero
<1>3. Ordered(Sent, short, Len(handled))'
  BY <1>1, <1>2 DEF Ordered
<1>4. Settled(Sent, short, Len(handled))'
  BY <1>1 DEF Settled
<1>5. QED BY <1>1, <1>3, <1>4 DEF IInv, Output

\* One more record of the handshake.
LEMMA OneMoreRecord ==
  ASSUME NEW s \in Seq(Wired), NEW t \in Seq(Wired),
         \A i \in 1 .. Len(s) : s[i].id = 0 /\ (s[i].as = "clear" => server = "None"),
         Begins(t, s \o <<Handshake>>)
  PROVE  \A i \in 1 .. Len(t) : t[i].id = 0 /\ (t[i].as = "clear" => server = "None")
<1> DEFINE u == s \o <<Handshake>>
<1>1. u = Append(s, Handshake) /\ Len(s) \in Nat
  BY HandshakeIs, AppendIsConcat, LenProperties
<1>2. /\ Len(u) = Len(s) + 1 /\ u[Len(s) + 1] = Handshake /\ \A i \in 1 .. Len(s) : u[i] = s[i]
  BY <1>1, HandshakeIs, AppendProperties
<1>3. Len(t) \in Nat /\ Len(t) <= Len(u) /\ \A i \in 1 .. Len(t) : t[i] = u[i]
  BY LenProperties DEF Begins
<1> HIDE DEF u
<1>4. \A i \in 1 .. Len(t) : i \in 1 .. Len(s) \/ i = Len(s) + 1
  BY <1>1, <1>2, <1>3
<1>5. ASSUME NEW i \in 1 .. Len(t) PROVE t[i].id = 0 /\ (t[i].as = "clear" => server = "None")
  <2>1. CASE i \in 1 .. Len(s)
    BY <1>2, <1>3, <2>1
  <2>2. CASE i = Len(s) + 1
    <3>1. t[i] = Handshake
      BY <1>2, <1>3, <2>2
    <3>2. t[i].id = 0 /\ t[i].as = "tls"
      BY <3>1, HandshakeIs
    <3>3. QED BY <3>2
  <2>3. QED BY <1>4, <2>1, <2>2
<1>6. QED BY <1>5

\* A flight of the server, given to send.
LEMMA HandshakeSent ==
  ASSUME IInv, handled = << >>, send(<<Handshake>>), UNCHANGED <<server, handled, short>>
  PROVE  Tcp' /\ Output'
<1>1. Tcp
  BY ConnectionIs DEF IInv
<1>2. <<Handshake>> \in Seq(Wired)
  BY HandshakeIs
<1>3. Passed(<<Handshake>>) /\ file' = << >>
  BY <1>1, <1>2, SendIs
<1>4. Tcp' /\ Sent' \in Seq(Wired)
  <2>1. Tcp' => (Sent \in Seq(Wired))'
    BY SentType, PTL
  <2>2. QED BY <1>3, <2>1 DEF Passed
<1>5. /\ Sent \in Seq(Wired)
      /\ \A i \in 1 .. Len(Sent) : Sent[i].id = 0 /\ (Sent[i].as = "clear" => server = "None")
  BY HandshakeOnly
<1>6. \/ Begins(Sent', Sent \o <<Handshake>>)
      \/ Sent' = Sent
  <2>1. ASSUME Sent' = Sent \o <<Handshake>> PROVE Begins(Sent', Sent \o <<Handshake>>)
    BY <1>4, <2>1, LenProperties DEF Begins
  <2>2. QED BY <1>3, <2>1 DEF Passed
<1>7. \A i \in 1 .. Len(Sent') : Sent'[i].id = 0 /\ (Sent'[i].as = "clear" => server = "None")
  BY <1>4, <1>5, <1>6, OneMoreRecord
<1>8. QED BY <1>3, <1>4, <1>7, OutputOfHandshake
\* What is received as it came goes on where the parser stands.
LEMMA StreamReceived ==
  ASSUME IInv, NEW k, Received(k), Live, payload' = SubSeq(inbox, 1, k),
         state.tls # "HANDSHAKING", state'.tls = state.tls, state'.request = state.request
  PROVE  Stream'
<1>1. /\ server' = server /\ shake' = shake /\ asked' = asked /\ handled' = handled
      /\ pc = "poll"
  BY DEF Received
<1>2. payload' \o inbox' = payload \o inbox
  BY ReceivedIs
<1>3. Stream
  BY <1>1 DEF IInv, Flow, Spoilt, Scrambled
<1>4. Current' = Current
  BY <1>1 DEF Current
<1>5. Runs(Current, payload \o inbox)' /\ End(Current, payload \o inbox)' = End(Current, payload \o inbox)
  BY <1>2, <1>3, <1>4 DEF Stream, Runs, End
<1>6. QED BY <1>1, <1>3, <1>5 DEF Stream

\* What the kernel did not decrypt is refused.
LEMMA ScrambledReceived ==
  ASSUME IInv, NEW k, Received(k), state.isKtlsOffloaded, state' = state, pc' = "parse",
         payload' = [i \in 1 .. k |-> Unit(SubSeq(inbox, 1, k)[i].id, "bad")]
  PROVE  payload' \in Seq(Units) /\ Scrambled'
<1>1. handled' = handled /\ pc = "poll" /\ open
  BY DEF Received
<1>2. /\ \A i \in 1 .. k : SubSeq(inbox, 1, k)[i] = inbox[i]
      /\ k \in Nat \ {0} /\ Len(inbox) \in Nat /\ k <= Len(inbox)
      /\ \A i \in 1 .. Len(inbox) : inbox[i] \in Units
      /\ payload \o inbox = inbox
  BY ReceivedIs
<1>3. \A i \in 1 .. k : inbox[i].id \in 0 .. MaxRequests
  <2>1. \A i \in 1 .. k : i \in 1 .. Len(inbox)
    BY <1>2
  <2>2. QED BY <1>2, <2>1 DEF Units
<1>4. \A i \in 1 .. k :
        /\ payload'[i] \in Units /\ payload'[i].kind = "bad" /\ payload'[i].id = inbox[i].id
  <2>1. \A i \in 1 .. k : payload'[i] = Unit(inbox[i].id, "bad")
    BY <1>2
  <2>2. QED BY <1>3, <2>1 DEF Unit, Units
<1>5. payload' \in [1 .. k -> Units]
  <2>1. payload' = [i \in 1 .. k |-> payload'[i]]
    OBVIOUS
  <2> DEFINE p == payload'
  <2>2. p = [i \in 1 .. k |-> p[i]] /\ \A i \in 1 .. k : p[i] \in Units
    BY <1>4, <2>1
  <2> HIDE DEF p
  <2>3. p \in [1 .. k -> Units]
    BY <2>2
  <2>4. QED BY <2>3 DEF p
<1>6. payload' \in Seq(Units)
  <2>1. \E n \in Nat : payload' \in [1 .. n -> Units]
    BY <1>2, <1>5
  <2>2. QED BY <2>1, SeqDef
<1>7. DOMAIN payload' = 1 .. k /\ 1 \in 1 .. k
  BY <1>2, <1>5
<1>8. payload' # << >>
  <2>1. \A i : i \notin DOMAIN << >>
    OBVIOUS
  <2>2. QED BY <1>7, <2>1
<1>9. Stream /\ state.tls # "HANDSHAKING"
  BY <1>1 DEF IInv, Flow, Spoilt, Scrambled, Live, Session
<1>10. inbox[1].id = Len(handled) + 1
  <2>1. inbox # << >>
    BY <1>2, <1>7
  <2>2. Follows(Current, inbox[1]) /\ (state.request # 0 => state.request = Len(handled) + 1)
    BY <1>2, <1>9, <2>1 DEF Stream, Runs
  <2>3. /\ state.request # 0 => Current.kind = "head" /\ Current.id = state.request
        /\ state.request = 0 => Current.kind = "tail" /\ Current.id = Len(handled)
    BY <1>9, UnitIs DEF Current
  <2>4. QED BY <2>2, <2>3 DEF Follows
<1>11. QED BY <1>1, <1>4, <1>6, <1>7, <1>8, <1>10 DEF Scrambled

\* A part of the handshake: what follows is still a handshake, or is spoilt.
LEMMA HandshakeReceived ==
  ASSUME IInv, NEW k, Received(k), Live, state.tls = "HANDSHAKING", payload' = << >>,
         state'.tls = "HANDSHAKING", state'.request = state.request,
         \A i \in 1 .. k : SubSeq(inbox, 1, k)[i].kind \notin {"fin", "junk"}
  PROVE  (Stream \/ Spoilt)'
<1>1. /\ server' = server /\ shake' = shake /\ asked' = asked /\ handled' = handled
      /\ pc = "poll"
  BY DEF Received
<1>2. /\ \A i \in 1 .. k : SubSeq(inbox, 1, k)[i] = inbox[i]
      /\ k \in Nat \ {0} /\ Len(inbox) \in Nat /\ k <= Len(inbox)
      /\ \A i \in 1 .. Len(inbox) : inbox[i] \in Units
      /\ payload \o inbox = inbox
      /\ inbox' \in Seq(Units)
      /\ \A i \in 1 .. Len(inbox) - k : inbox'[i] = inbox[k + i]
      /\ DOMAIN inbox = 1 .. Len(inbox) /\ DOMAIN inbox' = 1 .. Len(inbox) - k
  BY ReceivedIs
<1>3. \A i \in 1 .. k : inbox[i].kind \notin {"fin", "junk"} /\ i \in DOMAIN inbox
  BY <1>2
<1>4. state.request = 0 /\ handled = << >> /\ Len(handled) = 0
  BY DEF IInv, Session
<1>5. CASE Spoilt
  <2>1. PICK i \in DOMAIN inbox : inbox[i].kind = "junk" /\ \A j \in 1 .. i : inbox[j].kind # "fin"
    BY <1>5 DEF Spoilt
  <2>2. i \notin 1 .. k
    BY <1>3, <2>1
  <2> DEFINE m == i - k
  <2>3. m \in DOMAIN inbox' /\ k + m = i /\ \A j \in 1 .. m : j \in DOMAIN inbox' /\ k + j \in 1 .. i
    BY <1>2, <2>2
  <2> HIDE DEF m
  <2>4. inbox'[m].kind = "junk" /\ \A j \in 1 .. m : inbox'[j].kind # "fin"
    BY <1>2, <2>1, <2>3
  <2>5. QED BY <2>3, <2>4 DEF Spoilt
<1>6. CASE Stream
  <2> DEFINE q == inbox
             r == SubSeq(q, k + 1, Len(q))
             e == End(Current, q)
  <2>1. /\ Runs(Current, q) /\ e.id = Len(asked) /\ e.kind # "head"
        /\ e.kind = "hello" <=> server # "None" /\ shake < 2
        /\ \A i \in DOMAIN inbox : inbox[i].kind = "hello" \/ \E j \in 1 .. i : inbox[j].kind = "fin"
    BY <1>2, <1>6 DEF Stream
  <2>2. q \in Seq(Units) /\ k \in 1 .. Len(q) /\ r = inbox'
    BY DEF IInv, Typed, Received
  <2>3. inbox[k] = Unit(0, "hello")
    <3>1. k \in 1 .. k /\ k \in DOMAIN inbox /\ \A j \in 1 .. k : inbox[j].kind # "fin"
      BY <1>2, <1>3
    <3>2. inbox[k].kind = "hello"
      BY <2>1, <3>1
    <3>3. inbox[k].id = 0 /\ inbox[k] \in Units
      BY <1>2, <3>1, <3>2 DEF IInv, Flights
    <3>4. inbox[k] = [id |-> inbox[k].id, kind |-> inbox[k].kind]
      BY <3>3 DEF Units
    <3>5. QED BY <3>2, <3>3, <3>4 DEF Unit
  <2> HIDE DEF r, e
  <2>4. Runs(q[k], r) /\ End(q[k], r) = e
    BY <2>1, <2>2, RunsDrop DEF r, e
  <2>5. Current' = inbox[k]
    BY <1>1, <1>4, <2>3 DEF Current
  <2>6. payload' \o inbox' = r
    BY <1>2, <2>2, ConcatEmptySeq
  <2>7. Runs(Current', payload' \o inbox') /\ End(Current', payload' \o inbox') = e
    BY <2>4, <2>5, <2>6
  <2>8. Runs(Current, payload \o inbox)' /\ End(Current, payload \o inbox)' = e
    BY <2>7 DEF Runs, End
  <2>9. ASSUME NEW i \in DOMAIN inbox'
        PROVE  inbox'[i].kind = "hello" \/ \E j \in 1 .. i : inbox'[j].kind = "fin"
    <3>1. k + i \in DOMAIN inbox /\ inbox'[i] = inbox[k + i]
      BY <1>2
    <3>2. ASSUME NEW j \in 1 .. k + i, inbox[j].kind = "fin"
          PROVE  j - k \in 1 .. i /\ inbox'[j - k].kind = "fin"
      <4>1. j \notin 1 .. k
        BY <1>3, <3>2
      <4>2. j - k \in 1 .. i /\ j - k \in 1 .. Len(inbox) - k /\ k + (j - k) = j
        BY <1>2, <4>1
      <4>3. QED BY <1>2, <3>2, <4>2
    <3>3. QED BY <2>1, <3>1, <3>2
  <2>10. QED BY <1>1, <1>4, <2>1, <2>8, <2>9 DEF Stream
<1>7. QED BY <1>1, <1>5, <1>6 DEF IInv, Flow, Scrambled

\* The end of the handshake, with what came behind it.
LEMMA SessionEstablished ==
  ASSUME IInv, NEW k, Received(k), Live, state.tls = "HANDSHAKING",
         state'.tls = "ESTABLISHED", state'.request = state.request,
         NEW f \in 1 .. k, SubSeq(inbox, 1, k)[f].kind = "fin",
         payload' = SubSeq(SubSeq(inbox, 1, k), f + 1, k),
         \A i \in 1 .. f - 1 : SubSeq(inbox, 1, k)[i].kind \notin {"fin", "junk"}
  PROVE  payload' \in Seq(Units) /\ Stream' /\ shake = 2
<1>1. /\ server' = server /\ shake' = shake /\ asked' = asked /\ handled' = handled
      /\ pc = "poll"
  BY DEF Received
<1> DEFINE chunk == SubSeq(inbox, 1, k)
           q == inbox
           r == SubSeq(q, f + 1, Len(q))
           e == End(Current, q)
<1>2. /\ chunk \in Seq(Units) /\ Len(chunk) = k /\ \A i \in 1 .. k : chunk[i] = inbox[i]
      /\ k \in Nat \ {0} /\ Len(inbox) \in Nat /\ k <= Len(inbox)
      /\ \A i \in 1 .. Len(inbox) : inbox[i] \in Units
      /\ payload \o inbox = inbox
      /\ inbox' \in Seq(Units) /\ chunk \o inbox' = inbox
      /\ DOMAIN inbox = 1 .. Len(inbox)
  BY ReceivedIs
<1>3. f \in 1 .. Len(inbox) /\ f \in 0 .. Len(chunk) /\ \A i \in 1 .. f : i \in 1 .. k /\ i \in 1 .. Len(inbox)
  BY <1>2
<1>4. inbox[f].kind = "fin" /\ \A i \in 1 .. f - 1 : inbox[i].kind \notin {"fin", "junk"}
  <2>1. \A i \in 1 .. f - 1 : i \in 1 .. k
    BY <1>2
  <2>2. QED BY <1>2, <2>1
<1>5. payload' = SubSeq(chunk, f + 1, Len(chunk)) /\ inbox \in Seq(Units)
  BY <1>2 DEF IInv, Typed
<1> HIDE DEF chunk, r, e
<1>6. payload' \in Seq(Units) /\ payload' \o inbox' = r
  <2>1. SubSeq(chunk, f + 1, Len(chunk)) \in Seq(Units)
    BY <1>2, <1>3, SplitSequence
  <2>2. SubSeq(chunk, f + 1, Len(chunk)) \o inbox' = SubSeq(inbox, f + 1, Len(inbox))
    <3> DEFINE rest == inbox'
    <3>1. rest \in Seq(Units) /\ chunk \o rest = inbox
      BY <1>2
    <3> HIDE DEF rest
    <3>2. SubSeq(chunk, f + 1, Len(chunk)) \o rest = SubSeq(chunk \o rest, f + 1, Len(chunk \o rest))
      BY <1>2, <1>3, <3>1, DropJoined
    <3>3. SubSeq(chunk, f + 1, Len(chunk)) \o rest = SubSeq(inbox, f + 1, Len(inbox))
      BY <3>1, <3>2
    <3>4. QED BY <3>3 DEF rest
  <2>3. QED BY <1>5, <2>1, <2>2 DEF r
<1>7. shake = 2 /\ inbox[f].id = 0
  BY <1>2, <1>3, <1>4 DEF IInv, Flights
<1>8. state.request = 0 /\ handled = << >> /\ Len(handled) = 0
  BY DEF IInv, Session
<1>9. ~Spoilt
  <2>1. SUFFICES ASSUME Spoilt PROVE FALSE
    OBVIOUS
  <2>2. PICK i \in DOMAIN inbox : inbox[i].kind = "junk" /\ \A j \in 1 .. i : inbox[j].kind # "fin"
    BY <2>1 DEF Spoilt
  <2>3. f \notin 1 .. i
    BY <1>4, <2>2
  <2>4. i \in 1 .. f - 1
    BY <1>2, <1>3, <2>3
  <2>5. QED BY <1>4, <2>2, <2>4
<1>10. Stream
  BY <1>1, <1>9 DEF IInv, Flow, Scrambled
<1>11. /\ Runs(Current, q) /\ e.id = Len(asked) /\ e.kind # "head" /\ e.kind # "hello"
  BY <1>2, <1>7, <1>10 DEF Stream, e
<1>12. r \in Seq(Units) /\ Runs(q[f], r) /\ End(q[f], r) = e
  BY <1>3, <1>5, <1>11, RunsDrop DEF r, e
<1> DEFINE c == Unit(0, "tail")
<1>13. Current' = c /\ c.id = 0 /\ c.kind = "tail"
  BY <1>1, <1>8, UnitIs DEF Current
<1> HIDE DEF c
<1>14. Runs(c, r)
  <2>1. \A v \in Units : Follows(q[f], v) => Follows(c, v)
    BY <1>4, <1>7, <1>13 DEF Follows
  <2>2. QED BY <1>12, <2>1, RunsAs
<1>15. End(c, r).id = Len(asked) /\ End(c, r).kind # "head" /\ End(c, r).kind # "hello"
  <2>1. CASE r = << >>
    <3>1. End(c, r) = c /\ e = q[f]
      BY <1>12, <2>1 DEF End
    <3>2. QED BY <1>7, <1>11, <1>13, <3>1
  <2>2. CASE r # << >>
    <3>1. End(c, r) = e
      BY <1>12, <2>2 DEF End
    <3>2. QED BY <1>11, <3>1
  <2>3. QED BY <2>1, <2>2
<1>16. Runs(Current, payload \o inbox)' /\ End(Current, payload \o inbox)' = End(c, r)
  BY <1>6, <1>13, <1>14 DEF Runs, End
<1>17. Stream'
  BY <1>1, <1>7, <1>8, <1>15, <1>16 DEF Stream
<1>18. QED BY <1>6, <1>7, <1>17
\* A call that leaves the connection as it is.
LEMMA OutputKept ==
  ASSUME IInv, UNCHANGED <<server, tcp, handled, short>>, open /\ Live' => Live
  PROVE  Tcp' /\ Output'
<1>1. /\ server' = server /\ open' = open /\ backlog' = backlog /\ file' = file
      /\ registered' = registered /\ wire' = wire /\ handled' = handled /\ short' = short
  BY DEF tcp
<1>2. Tcp
  BY ConnectionIs DEF IInv
<1>3. Tcp'
  BY <1>1, <1>2 DEF Tcp
<1>4. Sent' = Sent
  BY <1>1 DEF Sent
<1>5. Ordered(Sent, short, Len(handled))'
  BY <1>1, <1>4 DEF IInv, Output, Ordered
<1>6. open' /\ Live' => Settled(Sent, short, Len(handled))'
  BY <1>1, <1>4 DEF IInv, Output, Settled
<1>7. QED BY <1>1, <1>3, <1>5, <1>6 DEF IInv, Output

\* The payload of a connection without a session of the library in use.
LEMMA PlainMessage ==
  ASSUME IInv, NEW k, Received(k), state.tls = "none" \/ state.isKtlsOffloaded,
         UNCHANGED <<state, tcp>>,
         pc' = IF server # "None" /\ ~state.isKtlsOffloaded THEN "poll" ELSE "parse",
         payload' = CASE pc' = "poll" -> << >>
                      [] pc' = "parse" /\ (server = "None" \/ state.receives) -> SubSeq(inbox, 1, k)
                      [] OTHER -> [i \in 1 .. k |-> Unit(SubSeq(inbox, 1, k)[i].id, "bad")]
  PROVE  IInv'
<1>1. /\ server' = server /\ shake' = shake /\ asked' = asked /\ handled' = handled
      /\ short' = short /\ open /\ state' = state /\ open' = open
  BY DEF Received, tcp
<1>2. state.tls # "HANDSHAKING"
  BY DEF IInv, Session
<1>3. Live' => Live
  BY <1>1 DEF Live
<1>4. Tcp' /\ Output'
  BY <1>1, <1>3, OutputKept
<1>5. state.tls = "ESTABLISHED" => shake = 2
  BY DEF IInv, Flights
<1>6. state \in [tls : {"none", "HANDSHAKING", "ESTABLISHED", "ERROR"}, bios : BOOLEAN,
                 tlsMode : {"None", "MemoryBio", "KernelTls"},
                 isKtlsOffloaded : BOOLEAN, receives : BOOLEAN, request : 0 .. MaxRequests]
  BY DEF IInv, TypeOK
<1>7. SubSeq(inbox, 1, k) \in Seq(Units) /\ << >> \in Seq(Units)
  BY ReceivedIs, EmptySeq
<1>8. CASE server # "None" /\ ~state.isKtlsOffloaded
  <2>1. pc' = "poll" /\ payload' = << >>
    BY <1>8
  <2>2. ~Live'
    BY <1>1, <1>8, <2>1 DEF Live, IInv, Session
  <2>3. Session'
    BY <1>1, <1>2, <2>1 DEF IInv, Session
  <2>4. QED BY <1>1, <1>4, <1>5, <1>6, <1>7, <2>1, <2>2, <2>3, MessageKeeps DEF Flow
<1>9. CASE server = "None" \/ (state.isKtlsOffloaded /\ state.receives)
  <2>1. pc' = "parse" /\ payload' = SubSeq(inbox, 1, k)
    <3>1. pc' = "parse"
      BY <1>9
    <3>2. QED BY <1>9, <3>1
  <2>2. Live' => Stream'
    BY <1>1, <1>2, <1>3, <2>1, StreamReceived
  <2>3. Session'
    BY <1>1, <1>2, <1>9, <2>1 DEF IInv, Session
  <2>4. QED BY <1>1, <1>4, <1>5, <1>6, <1>7, <2>1, <2>2, <2>3, MessageKeeps DEF Flow
<1>10. CASE server # "None" /\ state.isKtlsOffloaded /\ ~state.receives
  <2>1. pc' = "parse" /\ payload' = [i \in 1 .. k |-> Unit(SubSeq(inbox, 1, k)[i].id, "bad")]
    <3>1. pc' = "parse"
      BY <1>10
    <3>2. QED BY <1>10, <3>1
  <2>2. payload' \in Seq(Units) /\ Scrambled'
    BY <1>1, <1>10, <2>1, ScrambledReceived
  <2>3. Session'
    BY <1>1, <1>2, <1>10, <2>1 DEF IInv, Session
  <2>4. QED BY <1>1, <1>4, <1>5, <1>6, <1>7, <2>1, <2>2, <2>3, MessageKeeps DEF Flow
<1>11. QED BY <1>8, <1>9, <1>10

\* The session after a read.
LEMMA StateWith ==
  ASSUME TypeOK, NEW t \in {"none", "HANDSHAKING", "ESTABLISHED", "ERROR"},
         state' = [state EXCEPT !.tls = t]
  PROVE  /\ state' \in [tls : {"none", "HANDSHAKING", "ESTABLISHED", "ERROR"}, bios : BOOLEAN,
                        tlsMode : {"None", "MemoryBio", "KernelTls"},
                        isKtlsOffloaded : BOOLEAN, receives : BOOLEAN, request : 0 .. MaxRequests]
         /\ state'.tls = t /\ state'.bios = state.bios /\ state'.tlsMode = state.tlsMode
         /\ state'.isKtlsOffloaded = state.isKtlsOffloaded /\ state'.request = state.request
BY DEF TypeOK

\* The payload of a connection whose records the session reads.
LEMMA RecordMessage ==
  ASSUME IInv, NEW k, Received(k), state.tls # "none", ~state.isKtlsOffloaded,
         NEW read, read = read_plaintext(SubSeq(inbox, 1, k)),
         state' = [state EXCEPT !.tls = read.tls],
         IF read.outbound = << >> THEN UNCHANGED tcp ELSE send(read.outbound),
         pc' = IF read.result = "Error" THEN "poll" ELSE "offload",
         payload' = IF read.result = "Error" THEN << >> ELSE read.plaintext
  PROVE  IInv'
<1> DEFINE chunk == SubSeq(inbox, 1, k)
           alive == state.bios /\ state.tls # "ERROR"
<1>1. /\ server' = server /\ shake' = shake /\ asked' = asked /\ handled' = handled
      /\ short' = short /\ open /\ pc = "poll"
  BY DEF Received
<1>2. chunk \in Seq(Units) /\ chunk # << >> /\ Len(chunk) = k /\ << >> \in Seq(Units)
  BY ReceivedIs, EmptySeq
<1>3. server # "None" /\ state.tls \in {"HANDSHAKING", "ESTABLISHED", "ERROR"}
  BY DEF IInv, Session, TypeOK
<1>4. \/ /\ read.result = "Error" /\ (read.tls = "ERROR" \/ (~alive /\ read.tls = state.tls))
         /\ read.outbound = << >> \/ (state.tls = "HANDSHAKING" /\ read.outbound = <<Handshake>>)
      \/ /\ alive /\ state.tls = "HANDSHAKING" /\ read.result # "Error"
         /\ read.outbound = <<Handshake>>
         /\ \/ /\ read.tls = "HANDSHAKING" /\ read.plaintext = << >>
               /\ \A i \in 1 .. Len(chunk) : chunk[i].kind \notin {"fin", "junk"}
            \/ \E f \in 1 .. Len(chunk) :
                 /\ read.tls = "ESTABLISHED"
                 /\ read.plaintext = SubSeq(chunk, f + 1, Len(chunk))
                 /\ chunk[f].kind = "fin"
                 /\ \A i \in 1 .. f - 1 : chunk[i].kind \notin {"fin", "junk"}
      \/ /\ alive /\ state.tls = "ESTABLISHED" /\ read.result # "Error"
         /\ read.tls = "ESTABLISHED" /\ read.plaintext = chunk
         /\ read.outbound = << >>
  BY <1>2, ReadChunk DEF IInv
<1> HIDE DEF chunk
<1>5. read.tls \in {"HANDSHAKING", "ESTABLISHED", "ERROR"}
  BY <1>3, <1>4
<1>6. /\ state' \in [tls : {"none", "HANDSHAKING", "ESTABLISHED", "ERROR"}, bios : BOOLEAN,
                     tlsMode : {"None", "MemoryBio", "KernelTls"},
                     isKtlsOffloaded : BOOLEAN, receives : BOOLEAN, request : 0 .. MaxRequests]
      /\ state'.tls = read.tls /\ state'.bios = state.bios /\ state'.tlsMode = state.tlsMode
      /\ state'.isKtlsOffloaded = state.isKtlsOffloaded /\ state'.request = state.request
  BY <1>5, StateWith DEF IInv
<1>7. state.bios \in BOOLEAN /\ state.isKtlsOffloaded = FALSE
  BY DEF IInv, TypeOK
<1>8. Live <=> alive
  BY <1>1, <1>3, <1>7 DEF Live
<1>9. read.result # "Error" => Live
  BY <1>4, <1>8
<1>10. Live' => read.result # "Error"
  BY <1>1, <1>3, <1>4, <1>6, <1>7 DEF Live
<1>11. read.outbound # << >> => state.tls = "HANDSHAKING" /\ read.outbound = <<Handshake>>
  BY <1>4
<1>12. Tcp' /\ Output'
  <2>1. CASE read.outbound = << >>
    BY <1>1, <1>9, <1>10, <2>1, OutputKept
  <2>2. CASE read.outbound # << >>
    <3>1. send(<<Handshake>>) /\ handled = << >>
      BY <1>11, <2>2 DEF IInv, Session
    <3>2. QED BY <1>1, <3>1, HandshakeSent
  <2>3. QED BY <2>1, <2>2
<1>13. /\ state.tlsMode # "None"
       /\ state.tlsMode = "KernelTls" => handled = << >>
       /\ state.tls = "HANDSHAKING" => handled = << >> /\ state.request = 0
  BY <1>7 DEF IInv, Session
<1>14. CASE read.result = "Error"
  <2>1. pc' = "poll" /\ payload' = << >> /\ ~Live'
    BY <1>10, <1>14
  <2>2. read.tls = "HANDSHAKING" => state.tls = "HANDSHAKING"
    BY <1>4, <1>14
  <2>3. read.tls = "ESTABLISHED" => shake = 2
    <3>1. read.tls = "ESTABLISHED" => state.tls = "ESTABLISHED"
      BY <1>4, <1>14
    <3>2. QED BY <3>1 DEF IInv, Flights
  <2>4. Session'
    BY <1>1, <1>3, <1>5, <1>6, <1>7, <1>13, <2>1, <2>2 DEF Session
  <2>5. QED BY <1>2, <1>6, <1>12, <2>1, <2>3, <2>4, MessageKeeps DEF Flow
<1>15. ASSUME read.result # "Error", read.plaintext \in Seq(Units), Flow',
              read.tls = "HANDSHAKING" => state.tls = "HANDSHAKING" /\ read.plaintext = << >>,
              read.tls # "ERROR", read.tls = "ESTABLISHED" => shake = 2
       PROVE  IInv'
  <2>1. pc' = "offload" /\ payload' = read.plaintext /\ state.bios
    BY <1>8, <1>9, <1>15
  <2>2. Session'
    BY <1>1, <1>3, <1>5, <1>6, <1>7, <1>13, <1>15, <2>1 DEF Session
  <2>3. QED BY <1>2, <1>6, <1>12, <1>15, <2>1, <2>2, MessageKeeps
<1>16. CASE read.result # "Error" /\ read.tls = "HANDSHAKING"
  <2>1. /\ state.tls = "HANDSHAKING" /\ read.plaintext = << >> /\ payload' = << >>
        /\ \A i \in 1 .. k : chunk[i].kind \notin {"fin", "junk"}
    BY <1>2, <1>4, <1>16
  <2>2. (Stream \/ Spoilt)'
    BY <1>6, <1>9, <1>16, <2>1, HandshakeReceived DEF chunk
  <2>3. QED BY <1>2, <1>15, <1>16, <2>1, <2>2 DEF Flow
<1>17. CASE read.result # "Error" /\ read.tls = "ESTABLISHED" /\ state.tls = "HANDSHAKING"
  <2>1. PICK f \in 1 .. Len(chunk) :
          /\ read.plaintext = SubSeq(chunk, f + 1, Len(chunk)) /\ chunk[f].kind = "fin"
          /\ \A i \in 1 .. f - 1 : chunk[i].kind \notin {"fin", "junk"}
    BY <1>4, <1>17
  <2>2. f \in 1 .. k /\ payload' = SubSeq(chunk, f + 1, k)
    BY <1>2, <1>17, <2>1
  <2>3. payload' \in Seq(Units) /\ Stream' /\ shake = 2
    BY <1>6, <1>9, <1>17, <2>1, <2>2, SessionEstablished DEF chunk
  <2>4. QED BY <1>15, <1>17, <2>3 DEF Flow
<1>18. CASE read.result # "Error" /\ read.tls = "ESTABLISHED" /\ state.tls = "ESTABLISHED"
  <2>1. read.plaintext = chunk /\ payload' = chunk
    BY <1>4, <1>18
  <2>2. Stream'
    BY <1>6, <1>9, <1>18, <2>1, StreamReceived DEF chunk
  <2>3. shake = 2
    BY <1>18 DEF IInv, Flights
  <2>4. QED BY <1>2, <1>15, <1>18, <2>1, <2>2, <2>3 DEF Flow
<1>19. QED BY <1>4, <1>14, <1>16, <1>17, <1>18

LEMMA MessageStep == IInv /\ on_message => IInv'
<1> SUFFICES ASSUME IInv, on_message PROVE IInv'
  OBVIOUS
<1>1. PICK k \in 1 .. Len(inbox) :
        LET chunk == SubSeq(inbox, 1, k)
            read  == read_plaintext(chunk)
        IN /\ inbox' = SubSeq(inbox, k + 1, Len(inbox))
           /\ IF state.tls # "none" /\ ~state.isKtlsOffloaded
              THEN /\ state' = [state EXCEPT !.tls = read.tls]
                   /\ IF read.outbound = << >> THEN UNCHANGED tcp ELSE send(read.outbound)
                   /\ pc' = IF read.result = "Error" THEN "poll" ELSE "offload"
                   /\ payload' = IF read.result = "Error" THEN << >> ELSE read.plaintext
              ELSE /\ pc' = IF server # "None" /\ ~state.isKtlsOffloaded THEN "poll" ELSE "parse"
                   /\ payload' = CASE pc' = "poll" -> << >>
                                   [] pc' = "parse" /\ (server = "None" \/ state.receives) -> chunk
                                   [] OTHER -> [i \in 1 .. k |-> Unit(chunk[i].id, "bad")]
                   /\ UNCHANGED <<state, tcp>>
  BY DEF on_message
<1>2. Received(k)
  BY <1>1 DEF on_message, Received
<1>3. CASE state.tls # "none" /\ ~state.isKtlsOffloaded
  <2>1. PICK read : read = read_plaintext(SubSeq(inbox, 1, k))
    OBVIOUS
  <2>2. /\ state' = [state EXCEPT !.tls = read.tls]
        /\ IF read.outbound = << >> THEN UNCHANGED tcp ELSE send(read.outbound)
        /\ pc' = IF read.result = "Error" THEN "poll" ELSE "offload"
        /\ payload' = IF read.result = "Error" THEN << >> ELSE read.plaintext
    BY <1>1, <1>3, <2>1
  <2>3. QED BY <1>2, <1>3, <2>1, <2>2, RecordMessage
<1>4. CASE state.tls = "none" \/ state.isKtlsOffloaded
  <2>1. /\ pc' = IF server # "None" /\ ~state.isKtlsOffloaded THEN "poll" ELSE "parse"
        /\ payload' = CASE pc' = "poll" -> << >>
                        [] pc' = "parse" /\ (server = "None" \/ state.receives) -> SubSeq(inbox, 1, k)
                        [] OTHER -> [i \in 1 .. k |-> Unit(SubSeq(inbox, 1, k)[i].id, "bad")]
        /\ UNCHANGED <<state, tcp>>
    BY <1>1, <1>4
  <2>2. QED BY <1>2, <1>4, <2>1, PlainMessage
<1>5. QED BY <1>3, <1>4
-----------------------------------------------------------------------------
(* The hand-over to the kernel.                                            *)

\* The record that enabling it writes comes before anything that waits.
LEMMA RecordOfOffload ==
  ASSUME IInv, handled = << >>, wire' = IF open THEN Append(wire, Handshake) ELSE wire,
         UNCHANGED <<server, open, backlog, file, registered, handled, short>>
  PROVE  Tcp' /\ Output'
<1>1. /\ open' = open /\ backlog' = backlog /\ file' = file /\ registered' = registered
      /\ server' = server /\ handled' = handled /\ short' = short
  OBVIOUS
<1>2. Tcp /\ wire \in Seq(Wired) /\ backlog \in Seq(Wired)
  <2>1. Tcp
    BY ConnectionIs DEF IInv
  <2>2. QED BY <2>1 DEF Tcp
<1>3. wire' \in Seq(Wired)
  BY <1>2, HandshakeIs, AppendProperties
<1>4. Tcp'
  BY <1>1, <1>2, <1>3 DEF Tcp
<1>5. file = << >> /\ \A i \in 1 .. Len(Sent) : Sent[i].id = 0 /\ (Sent[i].as = "clear" => server = "None")
  BY HandshakeOnly
<1>6. Sent = wire \o backlog
  BY <1>2, <1>5, NoFile
<1> DEFINE m == Len(wire)
           w == wire'
<1>7. /\ Len(Sent) = m + Len(backlog) /\ m \in Nat /\ Len(backlog) \in Nat
      /\ \A i \in 1 .. m : Sent[i] = wire[i]
      /\ \A i \in 1 .. Len(backlog) : Sent[m + i] = backlog[i]
  BY <1>2, <1>6, Joined, LenProperties
<1> HIDE DEF m, w
<1>8. /\ \A i \in 1 .. m : wire[i].id = 0 /\ (wire[i].as = "clear" => server = "None")
      /\ \A i \in 1 .. Len(backlog) : backlog[i].id = 0 /\ (backlog[i].as = "clear" => server = "None")
  <2>1. \A i \in 1 .. m : i \in 1 .. Len(Sent)
    BY <1>7
  <2>2. \A i \in 1 .. Len(backlog) : m + i \in 1 .. Len(Sent)
    BY <1>7
  <2>3. \A i \in 1 .. m : wire[i].id = 0 /\ (wire[i].as = "clear" => server = "None")
    BY <1>5, <1>7, <2>1
  <2>4. \A i \in 1 .. Len(backlog) : backlog[i].id = 0 /\ (backlog[i].as = "clear" => server = "None")
    BY <1>5, <1>7, <2>2
  <2>5. QED BY <2>3, <2>4
<1>9. w \in Seq(Wired) /\ \A i \in 1 .. Len(w) : w[i].id = 0 /\ (w[i].as = "clear" => server = "None")
  <2>1. CASE ~open
    BY <1>2, <1>8, <2>1 DEF m, w
  <2>2. CASE open
    <3>1. w = wire \o <<Handshake>>
      BY <1>2, <2>2, HandshakeIs, AppendIsConcat DEF w
    <3>2. w \in Seq(Wired) /\ Begins(w, wire \o <<Handshake>>)
      BY <1>3, <3>1, LenProperties DEF Begins, w
    <3>3. QED BY <1>2, <1>8, <3>2, OneMoreRecord DEF m
  <2>3. QED BY <2>1, <2>2
<1>10. Sent' = w \o backlog /\ w \o backlog \in Seq(Wired)
  <2>1. w \o backlog \in Seq(Wired)
    BY <1>2, <1>9, ConcatProperties
  <2>2. Sent' = (w \o backlog) \o << >>
    BY <1>1, <1>5 DEF Sent, w
  <2>3. QED BY <2>1, <2>2, ConcatEmptySeq
<1>11. \A i \in 1 .. Len(w \o backlog) :
         (w \o backlog)[i].id = 0 /\ ((w \o backlog)[i].as = "clear" => server = "None")
  <2>1. /\ Len(w \o backlog) = Len(w) + Len(backlog)
        /\ \A i \in 1 .. Len(w) : (w \o backlog)[i] = w[i]
        /\ \A i \in 1 .. Len(backlog) : (w \o backlog)[Len(w) + i] = backlog[i]
        /\ \A i \in 1 .. Len(w) + Len(backlog) :
             i \in 1 .. Len(w) \/ \E j \in 1 .. Len(backlog) : i = Len(w) + j
    BY <1>2, <1>9, Joined
  <2>2. QED BY <1>8, <1>9, <2>1
<1>12. \A i \in 1 .. Len(Sent') : Sent'[i].id = 0 /\ (Sent'[i].as = "clear" => server = "None")
  BY <1>10, <1>11
<1>13. Output'
  <2>1. Sent' \in Seq(Wired) /\ file' = << >>
    BY <1>1, <1>5, <1>10
  <2>2. QED BY <1>1, <1>12, <2>1, OutputOfHandshake
<1>14. QED BY <1>4, <1>13

LEMMA OffloadStep == IInv /\ try_offload => IInv'
<1> SUFFICES ASSUME IInv, try_offload PROVE IInv'
  OBVIOUS
<1>1. /\ pc = "offload" /\ pc' = (IF payload = << >> THEN "poll" ELSE "parse")
      /\ server' = server /\ open' = open /\ backlog' = backlog /\ file' = file
      /\ registered' = registered /\ payload' = payload /\ inbox' = inbox /\ shake' = shake
      /\ asked' = asked /\ handled' = handled /\ short' = short
  BY DEF try_offload, client
<1>2. /\ state.bios = TRUE /\ state.tls \in {"HANDSHAKING", "ESTABLISHED"}
      /\ payload # << >> => state.tls = "ESTABLISHED"
      /\ state.isKtlsOffloaded = FALSE /\ state.tlsMode \in {"MemoryBio", "KernelTls"}
      /\ server # "None"
      /\ state.tls = "HANDSHAKING" => handled = << >> /\ state.request = 0 /\ payload = << >>
      /\ state.tlsMode = "KernelTls" => handled = << >>
  BY <1>1 DEF IInv, Session, TypeOK
<1>3. Live
  BY <1>1, <1>2 DEF Live
<1>4. \/ /\ state' = state /\ wire' = wire
         /\ ~(state.tlsMode = "KernelTls" /\ state.tls = "ESTABLISHED")
      \/ /\ state.tlsMode = "KernelTls" /\ state.tls = "ESTABLISHED"
         /\ \/ state' = [state EXCEPT !.tlsMode = "MemoryBio"] /\ wire' = wire
            \/ /\ wire' = (IF open THEN Append(wire, Handshake) ELSE wire)
               /\ \/ state' = [state EXCEPT !.bios = FALSE, !.tlsMode = "MemoryBio"]
                  \/ \E receives \in BOOLEAN :
                       state' = [state EXCEPT !.bios = FALSE, !.isKtlsOffloaded = TRUE, !.receives = receives]
  BY DEF try_offload, enable_ktls_offload
<1>5. Tcp' /\ Output'
  <2>1. CASE wire' = wire
    BY <1>1, <1>3, <2>1, OutputKept DEF tcp
  <2>2. CASE wire' = (IF open THEN Append(wire, Handshake) ELSE wire) /\ handled = << >>
    BY <1>1, <2>2, RecordOfOffload
  <2>3. QED BY <1>2, <1>4, <2>1, <2>2
<1> DEFINE Rec == [tls : {"none", "HANDSHAKING", "ESTABLISHED", "ERROR"}, bios : BOOLEAN,
                   tlsMode : {"None", "MemoryBio", "KernelTls"},
                   isKtlsOffloaded : BOOLEAN, receives : BOOLEAN, request : 0 .. MaxRequests]
<1>6. state \in Rec
  BY DEF IInv, TypeOK
<1>7. /\ state' \in Rec /\ state'.tls = state.tls /\ state'.request = state.request
      /\ \/ /\ state'.bios = state.bios /\ state'.isKtlsOffloaded = FALSE
            /\ state'.tlsMode = "MemoryBio" \/ (state'.tlsMode = state.tlsMode /\ state.tls # "ESTABLISHED")
         \/ state.tls = "ESTABLISHED" /\ state'.tlsMode = "MemoryBio" /\ state'.isKtlsOffloaded = FALSE
         \/ /\ state.tls = "ESTABLISHED" /\ state'.bios = FALSE /\ state'.isKtlsOffloaded = TRUE
            /\ state'.tlsMode = "KernelTls"
  <2>1. CASE state' = state /\ ~(state.tlsMode = "KernelTls" /\ state.tls = "ESTABLISHED")
    BY <1>2, <1>6, <2>1
  <2>2. CASE state' = [state EXCEPT !.tlsMode = "MemoryBio"] /\ state.tls = "ESTABLISHED"
    BY <1>2, <1>6, <2>2
  <2>3. CASE state' = [state EXCEPT !.bios = FALSE, !.tlsMode = "MemoryBio"] /\ state.tls = "ESTABLISHED"
    BY <1>2, <1>6, <2>3
  <2>4. ASSUME NEW receives \in BOOLEAN, state.tlsMode = "KernelTls", state.tls = "ESTABLISHED",
               state' = [state EXCEPT !.bios = FALSE, !.isKtlsOffloaded = TRUE, !.receives = receives]
        PROVE  /\ state' \in Rec /\ state'.tls = state.tls /\ state'.request = state.request
               /\ state'.bios = FALSE /\ state'.isKtlsOffloaded = TRUE /\ state'.tlsMode = "KernelTls"
    BY <1>6, <2>4
  <2>5. QED BY <1>4, <2>1, <2>2, <2>3, <2>4
<1> HIDE DEF Rec
<1>8. TypeOK'
  BY <1>1, <1>5, <1>7 DEF IInv, TypeOK, Tcp, Rec
<1>9. Typed'
  BY <1>1, <1>5 DEF IInv, Typed, Tcp
<1>10. Session'
  BY <1>1, <1>2, <1>7 DEF Session
<1>11. Flights'
  BY <1>1, <1>7 DEF IInv, Flights
<1>12. Closed'
  <2>1. registered <=> open
    BY DEF IInv, Closed
  <2>2. handled # << >> /\ handled[Len(handled)].close /\ handled[Len(handled)].sent => pc = "poll"
    BY DEF IInv, Closed
  <2>3. QED BY <1>1, <2>1, <2>2 DEF IInv, Closed
<1>13. Flow'
  <2>1. CASE Spoilt
    BY <1>1, <1>7, <2>1 DEF Spoilt, Flow
  <2>2. CASE Stream
    <3>1. Current' = Current
      BY <1>1, <1>7 DEF Current
    <3>2. Runs(Current, payload \o inbox)' /\ End(Current, payload \o inbox)' = End(Current, payload \o inbox)
      BY <1>1, <2>2, <3>1 DEF Stream, Runs, End
    <3>3. Stream'
      BY <1>1, <1>7, <2>2, <3>2 DEF Stream
    <3>4. QED BY <3>3 DEF Flow
  <2>3. QED BY <1>1, <1>3, <2>1, <2>2 DEF IInv, Flow, Scrambled
<1>14. QED BY <1>5, <1>8, <1>9, <1>10, <1>11, <1>12, <1>13 DEF IInv

-----------------------------------------------------------------------------
(* The theorems.                                                           *)

LEMMA StutterStep == IInv /\ UNCHANGED vars => IInv'
<1> SUFFICES ASSUME IInv, UNCHANGED vars PROVE IInv'
  OBVIOUS
<1>1. /\ server' = server /\ open' = open /\ backlog' = backlog /\ file' = file
      /\ registered' = registered /\ wire' = wire /\ state' = state /\ pc' = pc
      /\ payload' = payload /\ inbox' = inbox /\ shake' = shake /\ asked' = asked
      /\ handled' = handled /\ short' = short
  BY DEF vars, tcp, client
<1>2. Flights' /\ Flow'
  <2>1. Flights'
    BY <1>1 DEF IInv, Flights
  <2>2. Live' <=> Live
    BY <1>1 DEF Live
  <2>3. (Stream' <=> Stream) /\ (Spoilt' <=> Spoilt) /\ (Scrambled' <=> Scrambled)
    BY <1>1 DEF Stream, Spoilt, Scrambled, Current, Runs, End
  <2>4. QED BY <2>1, <2>2, <2>3 DEF IInv, Flow
<1>3. QED BY <1>1, <1>2, ClientKeeps DEF IInv, Typed, tcp

\* Every step keeps the invariant.
LEMMA Step == IInv /\ [Next]_vars => IInv'
BY ConnectStep, HandshakeStep, SendsStep, MessageStep, OffloadStep, IncompleteStep, ReplyStep,
   RejectStep, WriteStep, FailStep, StutterStep DEF Next, handler

LEMMA Always == Spec => []IInv
BY InitInv, Step, PTL DEF Spec

\* Every variable has its type, and a server with TLS sends nothing in clear text: a
\* session that was not created, failed, was offloaded or fell back leaves
\* HttpServer::send_http_response a way to encrypt, or nothing to send.
THEOREM TypesAndSecrecy == Spec => []Inv
<1>1. IInv => Inv
  <2>1. SUFFICES ASSUME IInv PROVE Inv
    OBVIOUS
  <2>2. Sent \in Seq(Wired)
    BY <2>1, ConnectionIs, SentType DEF IInv
  <2>3. DOMAIN Sent = 1 .. Len(Sent)
    BY <2>2, LenProperties
  <2>4. \A i \in 1 .. Len(Sent) : Sent[i].as = "clear" => server = "None"
    BY <2>1 DEF IInv, Output, Ordered
  <2>5. QED BY <2>1, <2>3, <2>4 DEF IInv, Inv, NeverInTheClear
<1>2. QED BY <1>1, Always, PTL

\* HttpServer::on_message answers pipelined requests in their order, each response
\* whole before the next begins, wherever the kernel's buffer, the pending file of
\* TcpConnection or a record of the handshake cuts in; only a file that became shorter
\* than its header says is left incomplete.
THEOREM ResponsesInOrder == Spec => []AnswersInOrder
<1>1. IInv => AnswersInOrder
  <2>1. SUFFICES ASSUME IInv PROVE AnswersInOrder
    OBVIOUS
  <2>2. Sent \in Seq(Wired)
    BY <2>1, ConnectionIs, SentType DEF IInv
  <2>3. DOMAIN Sent = 1 .. Len(Sent) /\ Len(Sent) \in Nat
    BY <2>2, LenProperties
  <2>4. Ordered(Sent, short, Len(handled))
    BY <2>1 DEF IInv, Output
  <2>5. SUFFICES ASSUME NEW i \in 1 .. Len(Sent), Sent[i].id # 0
                 PROVE  IF i = 1 \/ Sent[i - 1].id = 0 THEN Sent[i].id = 1 /\ Sent[i].part = 1
                        ELSE IF Sent[i - 1].part < Sent[i - 1].of /\ Sent[i - 1].id \notin short
                             THEN Sent[i].id = Sent[i - 1].id /\ Sent[i].part = Sent[i - 1].part + 1
                             ELSE Sent[i].id = Sent[i - 1].id + 1 /\ Sent[i].part = 1
    BY <2>3 DEF AnswersInOrder
  <2>6. CASE i = 1
    <3>1. Sent # << >>
      BY <2>3, <2>6
    <3>2. Fits(Handshake, Sent[1], short)
      BY <2>4, <3>1 DEF Ordered
    <3>3. QED BY <2>5, <2>6, <3>2, HandshakeIs DEF Fits
  <2>7. CASE i # 1
    <3>1. i - 1 \in 1 .. Len(Sent) - 1 /\ (i - 1) + 1 = i
      BY <2>3, <2>7
    <3>2. Fits(Sent[i - 1], Sent[(i - 1) + 1], short)
      BY <2>4, <3>1 DEF Ordered
    <3>3. Fits(Sent[i - 1], Sent[i], short)
      BY <3>1, <3>2
    <3>4. QED BY <2>5, <2>7, <3>3 DEF Fits
  <2>8. QED BY <2>6, <2>7
<1>2. QED BY <1>1, Always, PTL

\* HttpServer::on_message looks its entry up again after each response: no request
\* behind one whose response closed the connection is answered.
THEOREM NothingBehindTheLast == Spec => []ClosingIsLast
<1>1. IInv => ClosingIsLast
  BY DEF IInv, Closed, ClosingIsLast
<1>2. QED BY <1>1, Always, PTL
=============================================================================
