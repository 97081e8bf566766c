-------------------------- MODULE EchoServer_proof --------------------------
(***************************************************************************)
(* Proofs about EchoServer, for any number of clients, any texts, any size *)
(* of the buffer and of the sockets: what a client gets back is its own    *)
(* bytes in their order, the byte counters account for them over all       *)
(* connections, and at most one connection leaks, with the listener.       *)
(***************************************************************************)
EXTENDS EchoServer, FiniteSetTheorems, SequenceTheorems, TLAPS

USE Zenon

(* The connections the kernel holds for accept are waiting, each once. *)
Waiting ==
    /\ \A i \in 1 .. Len(backlog) : conn[backlog[i]] = "queued"
    /\ \A i, j \in 1 .. Len(backlog) : backlog[i] = backlog[j] => i = j

(* The server has received no more than was sent, and the client is sent   *)
(* no more than the socket has room for.                                   *)
Bounded ==
    \A c \in Client : /\ taken[c] <= sent[c] /\ sent[c] <= Len(text[c])
                      /\ Len(echo[c]) <= Room

Inv ==
    /\ EchoInOrder /\ Waiting /\ Bounded
    /\ IsFiniteSet(Bytes(taken))
    /\ IsFiniteSet(Bytes([c \in Client |-> Len(Stream(c))]))

-----------------------------------------------------------------------------
(* The byte counters: one client's f[c] growing by n lets Total grow by n. *)
LEMMA InBytes ==
    ASSUME NEW f, NEW x
    PROVE  x \in Bytes(f) <=> \E d \in Client : x \in {d} \X (1 .. f[d])
BY DEF Bytes

(* The n bytes of client c that follow its first a bytes. *)
Chunk(c, a, n) == {c} \X ((a + 1) .. (a + n))

LEMMA ChunkSize ==
    ASSUME NEW c, NEW a \in Nat, NEW n \in Nat
    PROVE  IsFiniteSet(Chunk(c, a, n)) /\ Cardinality(Chunk(c, a, n)) = n
<1>1. a + 1 \in Int /\ a + n \in Int
  BY SMT
<1>2. /\ IsFiniteSet((a + 1) .. (a + n))
      /\ Cardinality((a + 1) .. (a + n)) =
            IF a + 1 > a + n THEN 0 ELSE (a + n) - (a + 1) + 1
  BY <1>1, FS_Interval
<1>3. Cardinality((a + 1) .. (a + n)) = n
  BY <1>2, SMT
<1>4. IsFiniteSet({c}) /\ Cardinality({c}) = 1
  BY FS_Singleton
<1>5. /\ IsFiniteSet(Chunk(c, a, n))
      /\ Cardinality(Chunk(c, a, n)) = Cardinality({c}) * Cardinality((a + 1) .. (a + n))
  BY <1>2, <1>4, FS_Product DEF Chunk
<1>. QED BY <1>3, <1>4, <1>5, SMT

LEMMA TotalGrows ==
    ASSUME NEW f \in [Client -> Nat], NEW c \in Client, NEW n \in Nat, IsFiniteSet(Bytes(f)),
           NEW g, g = [f EXCEPT ![c] = f[c] + n]
    PROVE  IsFiniteSet(Bytes(g)) /\ Total(g) = Total(f) + n
<1>. DEFINE New == Chunk(c, f[c], n)
<1>0. f[c] \in Nat
  OBVIOUS
<1>1. IsFiniteSet(New) /\ Cardinality(New) = n
  BY <1>0, ChunkSize, SMT
<1>2. Bytes(g) = Bytes(f) \union New
  <2>1. \A d \in Client : g[d] = IF d = c THEN f[c] + n ELSE f[d]
    OBVIOUS
  <2>2. 1 .. (f[c] + n) = (1 .. f[c]) \union ((f[c] + 1) .. (f[c] + n))
    BY SMT
  <2>3. {c} \X (1 .. (f[c] + n)) = ({c} \X (1 .. f[c])) \union New
    BY <2>2 DEF Chunk
  <2>. QED BY <2>1, <2>3, InBytes
<1>3. Bytes(f) \intersect New = {}
  <2>1. (1 .. f[c]) \intersect ((f[c] + 1) .. (f[c] + n)) = {}
    BY SMT
  <2>2. ({c} \X (1 .. f[c])) \intersect New = {}
    BY <2>1 DEF Chunk
  <2>3. ASSUME NEW x \in New, NEW d \in Client, x \in {d} \X (1 .. f[d]) PROVE FALSE
    <3>1. d = c
      BY <2>3, SMT DEF Chunk
    <3>. QED BY <2>2, <2>3, <3>1
  <2>. QED BY <2>3, InBytes
<1>4. /\ IsFiniteSet(Bytes(f) \union New)
      /\ Cardinality(Bytes(f) \union New) =
            Cardinality(Bytes(f)) + Cardinality(New) - Cardinality(Bytes(f) \intersect New)
  BY <1>1, FS_Union
<1>5. Cardinality(Bytes(f)) \in Nat
  BY FS_CardinalityType
<1>6. Cardinality({}) = 0
  BY FS_EmptySet
<1>7. Cardinality(Bytes(f) \union New) = Cardinality(Bytes(f)) + n
  <2>1. Cardinality(Bytes(f) \union New) = Cardinality(Bytes(f)) + n - 0
    BY <1>1, <1>3, <1>4, <1>6
  <2>. QED BY <1>5, <2>1, SMT
<1>. QED BY <1>2, <1>4, <1>7 DEF Total

(* Before anything is sent there are no bytes. *)
LEMMA NoBytes == IsFiniteSet(Bytes([c \in Client |-> 0])) /\ Total([c \in Client |-> 0]) = 0
<1>1. 1 .. 0 = {}
  BY SMT
<1>2. \A d \in Client : {d} \X (1 .. [c \in Client |-> 0][d]) = {}
  BY <1>1
<1>3. Bytes([c \in Client |-> 0]) = {}
  BY <1>2, InBytes
<1>. QED BY <1>3, FS_EmptySet DEF Total
-----------------------------------------------------------------------------
(* The stream to a client.  A byte the client reads moves within it, ...   *)
LEMMA ReadMoves ==
    ASSUME NEW b \in Seq(Byte), NEW e \in Seq(Byte), e # <<>>
    PROVE  /\ Append(b, Head(e)) \in Seq(Byte) /\ Tail(e) \in Seq(Byte)
           /\ Append(b, Head(e)) \o Tail(e) = b \o e
           /\ Len(Tail(e)) <= Len(e)
<1>1. /\ Head(e) \in Byte /\ Head(e) = e[1] /\ Tail(e) \in Seq(Byte) /\ Len(Tail(e)) = Len(e) - 1
      /\ \A i \in 1 .. Len(Tail(e)) : Tail(e)[i] = e[i + 1]
  <2>1. Head(e) = e[1]
    BY SMT
  <2>. QED BY <2>1, HeadTailProperties
<1>2. /\ Append(b, e[1]) \in Seq(Byte) /\ Len(Append(b, e[1])) = Len(b) + 1
      /\ \A i \in 1 .. Len(b) : Append(b, e[1])[i] = b[i]
      /\ Append(b, e[1])[Len(b) + 1] = e[1]
  <2>1. e[1] \in Byte
    BY <1>1
  <2>. QED BY <2>1, SMT
<1>. DEFINE s == Append(b, e[1]) \o Tail(e)
<1>3. Len(b) \in Nat /\ Len(e) \in Nat \ {0}
  BY LenProperties, EmptySeq
<1>4. /\ s \in Seq(Byte) /\ Len(s) = Len(b) + Len(e)
      /\ \A i \in 1 .. Len(b) + Len(e) :
            s[i] = IF i <= Len(b) + 1 THEN Append(b, e[1])[i] ELSE Tail(e)[i - (Len(b) + 1)]
  <2>1. /\ s \in Seq(Byte) /\ Len(s) = (Len(b) + 1) + (Len(e) - 1)
        /\ \A i \in 1 .. (Len(b) + 1) + (Len(e) - 1) :
              s[i] = IF i <= Len(b) + 1 THEN Append(b, e[1])[i] ELSE Tail(e)[i - (Len(b) + 1)]
    <3>1. Append(b, e[1]) \in Seq(Byte) /\ Tail(e) \in Seq(Byte)
      BY <1>1, <1>2
    <3>2. /\ s \in Seq(Byte) /\ Len(s) = Len(Append(b, e[1])) + Len(Tail(e))
          /\ \A i \in 1 .. Len(Append(b, e[1])) + Len(Tail(e)) :
                s[i] = IF i <= Len(Append(b, e[1])) THEN Append(b, e[1])[i]
                                                    ELSE Tail(e)[i - Len(Append(b, e[1]))]
      BY <3>1, ConcatProperties
    <3>. QED BY <1>1, <1>2, <3>2
  <2>2. (Len(b) + 1) + (Len(e) - 1) = Len(b) + Len(e)
    BY <1>3, SMT
  <2>. QED BY <2>1, <2>2
<1>5. /\ b \o e \in Seq(Byte) /\ Len(b \o e) = Len(b) + Len(e)
      /\ \A i \in 1 .. Len(b) + Len(e) : (b \o e)[i] = IF i <= Len(b) THEN b[i] ELSE e[i - Len(b)]
  BY ConcatProperties
<1>6. ASSUME NEW i \in 1 .. Len(b) + Len(e) PROVE s[i] = (b \o e)[i]
  <2>1. CASE i <= Len(b)
    BY <1>2, <1>3, <1>4, <1>5, <2>1, SMT
  <2>2. CASE i = Len(b) + 1
    BY <1>2, <1>3, <1>4, <1>5, <2>2, SMT
  <2>3. CASE i > Len(b) + 1
    <3>1. i - (Len(b) + 1) \in 1 .. Len(Tail(e)) /\ i - (Len(b) + 1) + 1 = i - Len(b)
      BY <1>1, <1>3, <2>3, SMT
    <3>. QED BY <1>1, <1>3, <1>4, <1>5, <2>3, <3>1, SMT
  <2>. QED BY <1>3, <2>1, <2>2, <2>3, SMT
<1>7. s = b \o e
  BY <1>4, <1>5, <1>6, SeqEqual
<1>. QED BY <1>1, <1>2, <1>3, <1>7, SMT

(* ... and what a writev takes extends it: the bytes after the k received  *)
(* before, of which the first comes back unchanged.                        *)
Follows(u, t, k) ==
    \A i \in 1 .. Len(u) :
        /\ u[i].nr = k + i
        /\ Changed(u[i], t) => /\ program = "kv" /\ u[i].is = "nul" /\ t[u[i].nr] = "space"
                               /\ i # 1 /\ ~ Changed(u[i - 1], t)

LEMMA EchoExtends ==
    ASSUME NEW s \in Seq(Byte), NEW u \in Seq(Byte), NEW t, NEW k \in Nat, NEW n \in Nat,
           EchoOf(s, t, k), Follows(u, t, k), Len(u) <= n
    PROVE  EchoOf(s \o u, t, k + n)
<1>. DEFINE w == s \o u
<1>1. Len(s) \in Nat /\ Len(u) \in Nat
  BY LenProperties
<1>2. /\ w \in Seq(Byte) /\ Len(w) = Len(s) + Len(u)
      /\ \A i \in 1 .. Len(s) + Len(u) : w[i] = IF i <= Len(s) THEN s[i] ELSE u[i - Len(s)]
  BY ConcatProperties
<1>. HIDE DEF w
<1>3. ASSUME NEW i \in 1 .. Len(w)
      PROVE  \/ i \in 1 .. Len(s) /\ w[i] = s[i]
             \/ i - Len(s) \in 1 .. Len(u) /\ w[i] = u[i - Len(s)] /\ i > Len(s)
  BY <1>1, <1>2, SMT
<1>4. ASSUME NEW i \in 1 .. Len(w)
      PROVE  /\ w[i].nr \in 1 .. (k + n)
             /\ Changed(w[i], t) => program = "kv" /\ w[i].is = "nul" /\ t[w[i].nr] = "space"
  <2>1. CASE i \in 1 .. Len(s) /\ w[i] = s[i]
    <3>1. s[i].nr \in 1 .. k
      BY <2>1 DEF EchoOf
    <3>2. s[i].nr \in 1 .. (k + n)
      BY <3>1, SMT
    <3>. QED BY <2>1, <3>2 DEF EchoOf
  <2>2. CASE i - Len(s) \in 1 .. Len(u) /\ w[i] = u[i - Len(s)]
    <3>1. PICK j \in 1 .. Len(u) : w[i] = u[j]
      BY <2>2
    <3>2. /\ u[j].nr = k + j
          /\ Changed(u[j], t) => program = "kv" /\ u[j].is = "nul" /\ t[u[j].nr] = "space"
      BY DEF Follows
    <3>3. u[j].nr \in 1 .. (k + n)
      BY <1>1, <3>2, SMT
    <3>. QED BY <3>1, <3>2, <3>3
  <2>. QED BY <1>3, <2>1, <2>2
<1>5. ASSUME NEW i \in 2 .. Len(w)
      PROVE  /\ w[i - 1].nr < w[i].nr
             /\ Changed(w[i], t) => ~ Changed(w[i - 1], t)
  <2>1. i \in 1 .. Len(w) /\ i - 1 \in 1 .. Len(w) /\ i \in Nat
    BY <1>1, <1>2, SMT
  <2>2. CASE i <= Len(s)
    <3>1. i \in 2 .. Len(s) /\ w[i] = s[i] /\ w[i - 1] = s[i - 1]
      <4>1. /\ i \in 2 .. Len(s) /\ i - 1 <= Len(s)
            /\ i \in 1 .. Len(s) + Len(u) /\ i - 1 \in 1 .. Len(s) + Len(u)
        <5>1. Len(w) = Len(s) + Len(u)
          BY <1>2
        <5>. QED BY <1>1, <2>1, <2>2, <5>1, SMT
      <4>. QED BY <1>2, <2>2, <4>1
    <3>. QED BY <3>1 DEF EchoOf
  <2>3. CASE i = Len(s) + 1
    <3>1. 1 \in 1 .. Len(u) /\ w[i] = u[1] /\ i - 1 \in 1 .. Len(s) /\ w[i - 1] = s[i - 1]
      <4>1. /\ 1 \in 1 .. Len(u) /\ i - 1 \in 1 .. Len(s) /\ i - Len(s) = 1
            /\ i \in 1 .. Len(s) + Len(u) /\ i - 1 \in 1 .. Len(s) + Len(u)
            /\ ~ (i <= Len(s)) /\ i - 1 <= Len(s)
        <5>1. Len(w) = Len(s) + Len(u)
          BY <1>2
        <5>. QED BY <1>1, <2>1, <2>3, <5>1, SMT
      <4>. QED BY <1>2, <4>1
    <3>2. s[i - 1].nr \in 1 .. k /\ u[1].nr = k + 1 /\ ~ Changed(u[1], t)
      BY <3>1 DEF EchoOf, Follows
    <3>3. s[i - 1].nr < u[1].nr
      BY <3>2, SMT
    <3>. QED BY <3>1, <3>2, <3>3
  <2>4. CASE i > Len(s) + 1
    <3>. DEFINE j == i - Len(s)
    <3>1. j \in 2 .. Len(u) /\ j = i - Len(s)
      <4>1. Len(w) = Len(s) + Len(u)
        BY <1>2
      <4>. QED BY <1>1, <2>1, <2>4, <4>1, SMT
    <3>. HIDE DEF j
    <3>2. j \in 1 .. Len(u) /\ j - 1 \in 1 .. Len(u) /\ w[i] = u[j] /\ w[i - 1] = u[j - 1]
      <4>1. /\ j \in 1 .. Len(u) /\ j - 1 \in 1 .. Len(u) /\ (i - 1) - Len(s) = j - 1
            /\ i \in 1 .. Len(s) + Len(u) /\ i - 1 \in 1 .. Len(s) + Len(u)
            /\ ~ (i <= Len(s)) /\ ~ (i - 1 <= Len(s))
        <5>1. Len(w) = Len(s) + Len(u)
          BY <1>2
        <5>. QED BY <1>1, <2>1, <2>4, <3>1, <5>1, SMT
      <4>. QED BY <1>2, <3>1, <4>1
    <3>3. u[j].nr = k + j /\ u[j - 1].nr = k + (j - 1) /\ (Changed(u[j], t) => ~ Changed(u[j - 1], t))
      BY <3>2 DEF Follows
    <3>4. u[j - 1].nr < u[j].nr
      BY <3>1, <3>3, SMT
    <3>. QED BY <3>2, <3>3, <3>4
  <2>. QED BY <1>1, <2>1, <2>2, <2>3, <2>4, SMT
<1>. QED BY <1>4, <1>5 DEF EchoOf, w

(* What the callback sends back: the bytes received, in the KV server with *)
(* some spaces after a word turned into NUL.                               *)
LEMMA ReplyFollows ==
    ASSUME TypeOK, Bounded, NEW c \in Client, NEW n \in Nat, n <= Unread(c)
    PROVE  Reply(c, n) \in [1 .. n -> Byte] /\ Follows(Reply(c, n), text[c], taken[c])
<1>. DEFINE rcv == Received(c, n)
<1>1. taken[c] \in Nat /\ text[c] \in Seq(Kind) /\ Len(text[c]) \in Nat
  BY EchoServerAssumption, LenProperties DEF TypeOK
<1>2. ASSUME NEW i \in 1 .. n
      PROVE  taken[c] + i \in 1 .. Len(text[c]) /\ taken[c] + i \in Nat /\ i \in Nat
  BY <1>1, SMT DEF Bounded, Unread, TypeOK
<1>3. rcv \in [1 .. n -> Byte] /\ rcv \in Seq(Byte) /\ Len(rcv) = n
  <2>1. ASSUME NEW i \in 1 .. n PROVE text[c][taken[c] + i] \in Kind
    BY <1>1, <1>2, ElementOfSeq
  <2>2. ASSUME NEW i \in 1 .. n PROVE [nr |-> taken[c] + i, is |-> text[c][taken[c] + i]] \in Byte
    BY <1>2, <2>1, SMT DEF Byte
  <2>3. rcv \in [1 .. n -> Byte]
    BY <2>2 DEF Received
  <2>. QED BY <2>3, SMT
<1>4. ASSUME NEW i \in 1 .. n
      PROVE  rcv[i].nr = taken[c] + i /\ rcv[i].is = text[c][taken[c] + i]
  BY SMT DEF Received
<1>. HIDE DEF rcv
<1>5. ASSUME NEW i \in 1 .. n PROVE rcv[i].nr = taken[c] + i /\ ~ Changed(rcv[i], text[c])
  BY <1>4 DEF Changed
<1>6. CASE program # "kv"
  <2>1. Reply(c, n) = rcv
    BY <1>6 DEF Reply, rcv
  <2>. QED BY <1>3, <1>5, <2>1 DEF Follows
<1>7. CASE program = "kv"
  <2>. DEFINE out == Split(rcv)
  <2>1. Reply(c, n) = out
    BY <1>7 DEF Reply, rcv
  <2>2. ASSUME NEW i \in TokenEnds(rcv)
        PROVE  /\ i \in 2 .. n /\ i \in 1 .. n /\ i - 1 \in 1 .. n
               /\ rcv[i].is = "space" /\ rcv[i - 1].is = "char"
               /\ i - 1 \notin TokenEnds(rcv)
    <3>1. i \in 2 .. n /\ rcv[i].is = "space" /\ rcv[i - 1].is = "char"
      BY <1>3 DEF TokenEnds
    <3>2. i \in 1 .. n /\ i - 1 \in 1 .. n
      BY <3>1, SMT
    <3>. QED BY <3>1, <3>2 DEF TokenEnds
  <2>3. out = [i \in 1 .. n |-> IF i \in TokenEnds(rcv) THEN [nr |-> rcv[i].nr, is |-> "nul"]
                                                       ELSE rcv[i]]
    BY <1>3 DEF Split
  <2>. HIDE DEF out
  <2>4. ASSUME NEW i \in 1 .. n
        PROVE  /\ i \in TokenEnds(rcv) => out[i] = [nr |-> rcv[i].nr, is |-> "nul"]
               /\ i \notin TokenEnds(rcv) => out[i] = rcv[i]
    BY <2>3
  <2>5. ASSUME NEW i \in 1 .. n PROVE out[i] \in Byte /\ out[i].nr = taken[c] + i
    <3>1. CASE i \in TokenEnds(rcv)
      <4>1. out[i] = [nr |-> taken[c] + i, is |-> "nul"]
        BY <1>5, <2>4, <3>1
      <4>. QED BY <1>2, <4>1, SMT DEF Byte, Kind
    <3>2. CASE i \notin TokenEnds(rcv)
      BY <1>3, <1>5, <2>4, <3>2
    <3>. QED BY <3>1, <3>2
  <2>6. out \in [1 .. n -> Byte] /\ Len(out) = n
    <3>1. out \in [1 .. n -> Byte]
      BY <2>3, <2>5
    <3>. QED BY <3>1, SMT
  <2>7. ASSUME NEW i \in 1 .. n, Changed(out[i], text[c])
        PROVE  /\ out[i].is = "nul" /\ text[c][out[i].nr] = "space"
               /\ i # 1 /\ ~ Changed(out[i - 1], text[c])
    <3>1. i \in TokenEnds(rcv)
      BY <1>5, <2>4, <2>7
    <3>2. out[i].is = "nul" /\ out[i].nr = taken[c] + i
      <4>1. out[i] = [nr |-> rcv[i].nr, is |-> "nul"]
        BY <2>4, <3>1
      <4>. QED BY <2>5, <4>1, SMT
    <3>3. text[c][taken[c] + i] = "space"
      BY <1>4, <2>2, <3>1
    <3>4. ~ Changed(out[i - 1], text[c])
      BY <1>5, <2>2, <2>4, <3>1
    <3>5. i # 1
      BY <2>2, <3>1, SMT
    <3>. QED BY <3>2, <3>3, <3>4, <3>5
  <2>8. Follows(out, text[c], taken[c])
    BY <1>7, <2>5, <2>6, <2>7 DEF Follows
  <2>. QED BY <2>1, <2>6, <2>8
<1>. QED BY <1>6, <1>7
-----------------------------------------------------------------------------
(* A step that neither receives nor writes: the streams stay as they are.  *)
LEMMA StreamsStay ==
    ASSUME Inv, TypeOK', Waiting', Bounded',
           UNCHANGED <<program, text, bytes_in, bytes_out, taken, short>>,
           \A c \in Client : Stream(c)' = Stream(c)
    PROVE  Inv'
<1>1. [c \in Client |-> Len(Stream(c))]' = [c \in Client |-> Len(Stream(c))]
  OBVIOUS
<1>2. ASSUME NEW c \in Client
      PROVE  EchoOf(Stream(c), text[c], taken[c])' /\ (~ short[c] => Len(Stream(c)) = taken[c])'
  <2>1. EchoOf(Stream(c), text[c], taken[c]) /\ (~ short[c] => Len(Stream(c)) = taken[c])
    BY DEF Inv, EchoInOrder
  <2>. QED BY <2>1 DEF EchoOf, Changed
<1>3. /\ bytes_in' = Total(taken)' /\ bytes_out' = Total([c \in Client |-> Len(Stream(c))])'
      /\ IsFiniteSet(Bytes(taken))' /\ IsFiniteSet(Bytes([c \in Client |-> Len(Stream(c))]))'
  BY <1>1, ZenonT(30) DEF Inv, EchoInOrder, Total, Bytes
<1>. QED BY <1>2, <1>3 DEF Inv, EchoInOrder

(* Where the streams' variables do not change, the streams do not. *)
LEMMA UntouchedStreams ==
    ASSUME UNCHANGED <<back, echo>> PROVE \A c \in Client : Stream(c)' = Stream(c)
BY DEF Stream

LEMMA SendKeeps == ASSUME Inv, NEW c \in Client, Send(c) PROVE Inv'
<1>. TypeOK /\ Waiting /\ Bounded
  BY DEF Inv, EchoInOrder
<1>. USE DEF Send, context, counters, client
<1>1. sent[c] \in Nat /\ taken[c] \in Nat /\ Len(text[c]) \in Nat
  BY EchoServerAssumption, LenProperties DEF TypeOK
<1>2. /\ sent[c] + 1 \in Nat /\ taken[c] <= sent[c] + 1 /\ sent[c] + 1 <= Len(text[c])
  BY <1>1, SMT DEF Bounded
<1>3. sent'[c] = sent[c] + 1 /\ \A d \in Client \ {c} : sent'[d] = sent[d]
  BY DEF TypeOK
<1>4. TypeOK'
  BY <1>2 DEF TypeOK
<1>5. Waiting'
  BY DEF Waiting
<1>6. Bounded'
  BY <1>2, <1>3 DEF Bounded
<1>. QED BY <1>4, <1>5, <1>6, StreamsStay, UntouchedStreams

LEMMA CloseSendingKeeps == ASSUME Inv, NEW c \in Client, CloseSending(c) PROVE Inv'
<1>. TypeOK /\ Waiting /\ Bounded
  BY DEF Inv, EchoInOrder
<1>1. TypeOK' /\ Waiting' /\ Bounded'
  BY DEF CloseSending, context, counters, TypeOK, Waiting, Bounded
<1>. QED BY <1>1, StreamsStay, UntouchedStreams DEF CloseSending, context, counters

LEMMA ConnectKeeps == ASSUME Inv, NEW c \in Client, Connect(c) PROVE Inv'
<1>. TypeOK /\ Waiting /\ Bounded
  BY DEF Inv, EchoInOrder
<1>. USE DEF Connect, context, counters, client
<1>1. TypeOK'
  <2>1. backlog' \in Seq(Client)
    BY SMT DEF TypeOK
  <2>2. conn' \in [Client -> {"none", "queued", "open", "closed", "leaked", "dropped"}]
    BY DEF TypeOK
  <2>. QED BY <2>1, <2>2 DEF TypeOK
<1>2. Waiting'
  <2>1. Len(backlog) \in Nat /\ \A i \in 1 .. Len(backlog) : backlog[i] \in Client
    BY SMT DEF TypeOK
  <2>2. /\ Len(backlog') = Len(backlog) + 1 /\ backlog'[Len(backlog) + 1] = c
        /\ \A i \in 1 .. Len(backlog) : backlog'[i] = backlog[i]
    BY SMT DEF TypeOK
  <2>3. ASSUME NEW i \in 1 .. Len(backlog') PROVE i \in 1 .. Len(backlog) \/ i = Len(backlog) + 1
    BY <2>1, <2>2, SMT
  <2>4. conn'[c] = "queued" /\ \A d \in Client \ {c} : conn'[d] = conn[d]
    BY DEF TypeOK
  <2>5. \A i \in 1 .. Len(backlog) : backlog[i] # c /\ conn[backlog[i]] = "queued"
    BY DEF Waiting
  <2>6. ASSUME NEW i \in 1 .. Len(backlog') PROVE conn'[backlog'[i]] = "queued"
    <3>1. CASE i \in 1 .. Len(backlog)
      BY <2>1, <2>2, <2>4, <2>5, <3>1
    <3>2. CASE i = Len(backlog) + 1
      BY <2>2, <2>4, <3>2
    <3>. QED BY <2>3, <3>1, <3>2
  <2>7. ASSUME NEW i \in 1 .. Len(backlog'), NEW j \in 1 .. Len(backlog'), backlog'[i] = backlog'[j]
        PROVE  i = j
    <3>1. CASE i \in 1 .. Len(backlog) /\ j \in 1 .. Len(backlog)
      <4>1. backlog[i] = backlog[j]
        BY <2>2, <2>7, <3>1
      <4>2. \A k, l \in 1 .. Len(backlog) : backlog[k] = backlog[l] => k = l
        BY DEF Waiting
      <4>. QED BY <3>1, <4>1, <4>2
    <3>2. CASE i = Len(backlog) + 1 \/ j = Len(backlog) + 1
      <4>1. ASSUME NEW l \in 1 .. Len(backlog'), backlog'[l] = c PROVE l = Len(backlog) + 1
        BY <2>2, <2>3, <2>5, <4>1
      <4>. QED BY <2>2, <2>7, <3>2, <4>1
    <3>. QED BY <2>3, <3>1, <3>2
  <2>. QED BY <2>6, <2>7 DEF Waiting
<1>3. Bounded'
  BY DEF Bounded
<1>. QED BY <1>1, <1>2, <1>3, StreamsStay, UntouchedStreams

LEMMA ReadKeeps == ASSUME Inv, NEW c \in Client, Read(c) PROVE Inv'
<1>. TypeOK /\ Waiting /\ Bounded
  BY DEF Inv, EchoInOrder
<1>. USE DEF Read, context, counters, client
<1>1. /\ back'[c] = Append(back[c], Head(echo[c])) /\ echo'[c] = Tail(echo[c])
      /\ back[c] \in Seq(Byte) /\ echo[c] \in Seq(Byte)
      /\ \A d \in Client \ {c} : back'[d] = back[d] /\ echo'[d] = echo[d]
  BY DEF TypeOK
<1>2. /\ back'[c] \in Seq(Byte) /\ echo'[c] \in Seq(Byte) /\ back'[c] \o echo'[c] = back[c] \o echo[c]
      /\ Len(echo'[c]) <= Len(echo[c])
  BY <1>1, ReadMoves
<1>3. TypeOK'
  BY <1>1, <1>2 DEF TypeOK
<1>4. Waiting'
  BY DEF Waiting
<1>5. Bounded'
  <2>1. Len(echo'[c]) \in Nat /\ Len(echo[c]) \in Nat
    BY <1>1, <1>2, LenProperties
  <2>2. Len(echo'[c]) <= Room
    BY <1>2, <2>1, EchoServerAssumption, SMT DEF Bounded
  <2>. QED BY <1>1, <2>2 DEF Bounded
<1>6. \A d \in Client : Stream(d)' = Stream(d)
  BY <1>1, <1>2 DEF Stream
<1>. QED BY <1>3, <1>4, <1>5, <1>6, StreamsStay

(* One run of the accept poller takes the first connections of the backlog *)
(* and leaves the others waiting.                                          *)
LEMMA RestOfBacklog ==
    ASSUME NEW b \in Seq(Client), NEW k \in Nat, k < Len(b)
    PROVE  LET rest == SubSeq(b, k + 2, Len(b))
           IN  /\ rest \in Seq(Client)
               /\ \A i \in 1 .. Len(rest) : k + 1 + i \in 1 .. Len(b) /\ rest[i] = b[k + 1 + i]
<1>. DEFINE rest == SubSeq(b, k + 2, Len(b))
<1>1. Len(b) \in Nat /\ \A i \in 1 .. Len(b) : b[i] \in Client
  BY LenProperties, ElementOfSeq
<1>2. k + 2 \in Int /\ Len(b) \in Int /\ \A i \in k + 2 .. Len(b) : i \in 1 .. Len(b)
  BY <1>1, SMT
<1>3. /\ rest \in Seq(Client) /\ Len(rest) = IF k + 2 <= Len(b) THEN Len(b) - (k + 2) + 1 ELSE 0
      /\ \A i \in 1 .. Len(b) - (k + 2) + 1 : rest[i] = b[(k + 2) + i - 1]
  <2>1. \A i \in k + 2 .. Len(b) : b[i] \in Client
    BY <1>1, <1>2
  <2>. QED BY <1>1, <1>2, <2>1, SMT
<1>. HIDE DEF rest
<1>4. ASSUME NEW i \in 1 .. Len(rest)
      PROVE  /\ k + 1 + i \in 1 .. Len(b) /\ (k + 2) + i - 1 = k + 1 + i
             /\ i \in 1 .. Len(b) - (k + 2) + 1
  BY <1>1, <1>3, SMT
<1>5. \A i \in 1 .. Len(rest) : k + 1 + i \in 1 .. Len(b) /\ rest[i] = b[k + 1 + i]
  BY <1>3, <1>4
<1>. QED BY <1>3, <1>5 DEF rest

LEMMA AcceptKeeps == ASSUME Inv, Accept PROVE Inv'
<1>. TypeOK /\ Waiting /\ Bounded
  BY DEF Inv, EchoInOrder
<1>1. PICK k \in 0 .. Len(backlog) : AcceptLoop(k)
  BY DEF Accept
<1>2. k \in Nat /\ Len(backlog) \in Nat /\ \A i \in 1 .. Len(backlog) : backlog[i] \in Client
  BY SMT DEF TypeOK
<1>. DEFINE joined == [c \in Client |-> IF \E i \in 1 .. k : backlog[i] = c THEN "open" ELSE conn[c]]
            State == {"none", "queued", "open", "closed", "leaked", "dropped"}
<1>3. joined \in [Client -> State]
  BY DEF TypeOK
<1>4. ASSUME k = Len(backlog), conn' = joined, backlog' = <<>>, UNCHANGED listener
      PROVE  TypeOK' /\ Waiting'
  <2>1. backlog' \in Seq(Client) /\ Len(backlog') = 0 /\ 1 .. 0 = {}
    BY <1>4, EmptySeq, SMT
  <2>2. TypeOK'
    BY <1>3, <1>4, <2>1 DEF TypeOK, Accept, counters, client
  <2>3. Waiting'
    BY <2>1 DEF Waiting
  <2>. QED BY <2>2, <2>3
<1>5. ASSUME NEW st \in {"leaked", "dropped"}, k < Len(backlog),
             conn' = [joined EXCEPT ![backlog[k + 1]] = st],
             backlog' = SubSeq(backlog, k + 2, Len(backlog)), listener' \in {"null", listener}
      PROVE  TypeOK' /\ Waiting'
  <2>1. /\ backlog' \in Seq(Client)
        /\ \A i \in 1 .. Len(backlog') : /\ k + 1 + i \in 1 .. Len(backlog)
                                         /\ backlog'[i] = backlog[k + 1 + i]
    BY <1>2, <1>5, RestOfBacklog DEF TypeOK
  <2>2. TypeOK'
    <3>1. conn' \in [Client -> State]
      BY <1>3, <1>5
    <3>. QED BY <1>5, <2>1, <3>1 DEF TypeOK, Accept, counters, client
  <2>3. ASSUME NEW l \in 1 .. Len(backlog), l > k + 1 PROVE conn'[backlog[l]] = "queued"
    <3>1. /\ k + 1 \in 1 .. Len(backlog) /\ l # k + 1
          /\ \A i \in 1 .. k : i \in 1 .. Len(backlog) /\ i # l
      BY <1>2, <1>5, <2>3, SMT
    <3>2. backlog[l] # backlog[k + 1] /\ \A i \in 1 .. k : backlog[i] # backlog[l]
      BY <3>1 DEF Waiting
    <3>3. joined[backlog[l]] = "queued"
      BY <1>2, <3>2 DEF Waiting
    <3>. QED BY <1>2, <1>5, <3>2, <3>3
  <2>4. ASSUME NEW i \in 1 .. Len(backlog'), NEW j \in 1 .. Len(backlog')
        PROVE  k + 1 + i > k + 1 /\ (k + 1 + i = k + 1 + j => i = j)
    BY <1>2, SMT
  <2>5. ASSUME NEW i \in 1 .. Len(backlog') PROVE conn'[backlog'[i]] = "queued"
    BY <2>1, <2>3, <2>4
  <2>6. ASSUME NEW i \in 1 .. Len(backlog'), NEW j \in 1 .. Len(backlog'), backlog'[i] = backlog'[j]
        PROVE  i = j
    <3>1. /\ k + 1 + i \in 1 .. Len(backlog) /\ k + 1 + j \in 1 .. Len(backlog)
          /\ backlog[k + 1 + i] = backlog[k + 1 + j]
      BY <2>1, <2>6
    <3>2. k + 1 + i = k + 1 + j
      BY <3>1 DEF Waiting
    <3>. QED BY <2>4, <3>2
  <2>7. Waiting'
    BY <2>5, <2>6 DEF Waiting
  <2>. QED BY <2>2, <2>7
<1>6. TypeOK' /\ Waiting'
  BY <1>1, <1>4, <1>5 DEF AcceptLoop, NotAdded
<1>7. Bounded'
  BY DEF Accept, Bounded, client
<1>. QED BY <1>6, <1>7, StreamsStay, UntouchedStreams DEF Accept, counters

(* The steps of the server that touch no connection. *)
LEMMA ControlKeeps ==
    ASSUME Inv, \/ Start \/ Shutdown \/ AcceptOnNull \/ \E c \in Client : CallbackOverrun(c)
    PROVE  Inv'
<1>. TypeOK /\ Waiting /\ Bounded
  BY DEF Inv, EchoInOrder
<1>. USE DEF Start, Shutdown, AcceptOnNull, CallbackOverrun, counters, client
<1>1. TypeOK'
  BY DEF TypeOK
<1>2. Waiting' /\ Bounded'
  BY DEF Waiting, Bounded
<1>. QED BY <1>1, <1>2, StreamsStay, UntouchedStreams

LEMMA CallbackCloseKeeps ==
    ASSUME Inv, NEW c \in Client, Callback(c), CallbackClose(c) PROVE Inv'
<1>. TypeOK /\ Waiting /\ Bounded
  BY DEF Inv, EchoInOrder
<1>. USE DEF Callback, CallbackClose, context, counters, client
<1>1. TypeOK'
  BY DEF TypeOK
<1>2. Waiting'
  <2>1. Len(backlog) \in Nat /\ \A i \in 1 .. Len(backlog) : backlog[i] \in Client
    BY SMT DEF TypeOK
  <2>. QED BY <2>1 DEF Waiting, TypeOK
<1>3. Bounded'
  BY DEF Bounded
<1>. QED BY <1>1, <1>2, <1>3, StreamsStay, UntouchedStreams

(* Writing to what is not read yet is writing to the stream as a whole.   *)
LEMMA Associates ==
    ASSUME NEW s \in Seq(Byte), NEW t \in Seq(Byte), NEW u \in Seq(Byte)
    PROVE  (s \o t) \o u = s \o (t \o u)
BY SMT

(* A writev takes at most what it is given and what fits.                  *)
LEMMA WrittenBound ==
    ASSUME NEW n \in Nat, NEW room \in Nat, NEW len \in Nat, len <= room,
           NEW m, m = IF n <= room - len THEN n ELSE room - len
    PROVE  m \in 0 .. n /\ len + m <= room /\ m \in Nat
BY SMT

(* The callback with n > 0: what writev takes of the reply, at most n      *)
(* bytes, extends the stream of this client and no other.                  *)
LEMMA CallbackEchoKeeps ==
    ASSUME Inv, NEW c \in Client, NEW n \in 1 .. BufferSize, Callback(c), CallbackEcho(c, n)
    PROVE  Inv'
<1>. TypeOK /\ Waiting /\ Bounded
  BY DEF Inv, EchoInOrder
<1>. DEFINE m == Written(c, n)
            u == SubSeq(Reply(c, n), 1, m)
            Lengths == [d \in Client |-> Len(Stream(d))]
<1>1. /\ n \in Nat /\ n <= Unread(c) /\ taken[c] \in Nat /\ Len(echo[c]) \in Nat /\ sent[c] \in Nat
      /\ back[c] \in Seq(Byte) /\ echo[c] \in Seq(Byte)
  <2>1. n \in Nat
    BY EchoServerAssumption, SMT
  <2>. QED BY <2>1, LenProperties DEF TypeOK, CallbackEcho
<1>2. m \in 0 .. n /\ Len(echo[c]) + m <= Room /\ m \in Nat
  <2>1. Len(echo[c]) <= Room /\ Room \in Nat /\ n >= 1
    BY EchoServerAssumption, SMT DEF Bounded
  <2>2. m = IF n <= Room - Len(echo[c]) THEN n ELSE Room - Len(echo[c])
    BY DEF Written
  <2>3. n \in Nat /\ Len(echo[c]) \in Nat
    BY <1>1
  <2>. HIDE DEF m
  <2>. QED BY <2>1, <2>2, <2>3, WrittenBound
<1>3. u \in Seq(Byte) /\ Len(u) = m /\ Follows(u, text[c], taken[c])
  <2>1. Reply(c, n) \in [1 .. n -> Byte] /\ Follows(Reply(c, n), text[c], taken[c])
    BY <1>1, ReplyFollows
  <2>2. /\ u \in Seq(Byte) /\ Len(u) = m /\ Len(Reply(c, n)) = n
        /\ \A i \in 1 .. m : i \in 1 .. n /\ u[i] = Reply(c, n)[i]
    BY <1>1, <1>2, <2>1, SMT
  <2>3. ASSUME NEW i \in 1 .. m, i # 1 PROVE i - 1 \in 1 .. m
    BY <1>2, <2>3, SMT
  <2>. QED BY <2>1, <2>2, <2>3 DEF Follows
<1>. HIDE DEF m, u
<1>4. /\ taken' = [taken EXCEPT ![c] = taken[c] + n] /\ bytes_in' = bytes_in + n
      /\ bytes_out' = bytes_out + m /\ echo' = [echo EXCEPT ![c] = echo[c] \o u]
      /\ short' = [short EXCEPT ![c] = short[c] \/ m < n]
      /\ UNCHANGED <<context, backlog, conn, client, back>>
  BY DEF Callback, CallbackEcho, m, u
<1>5. echo[c] \o u \in Seq(Byte) /\ Len(echo[c] \o u) = Len(echo[c]) + m
  BY <1>1, <1>3, ConcatProperties
<1>6. TypeOK'
  <2>1. taken[c] + n \in Nat /\ bytes_in + n \in Nat /\ bytes_out + m \in Nat
    BY <1>1, <1>2, SMT DEF TypeOK
  <2>2. (short[c] \/ m < n) \in BOOLEAN
    OBVIOUS
  <2>. QED BY <1>4, <1>5, <2>1, <2>2 DEF TypeOK, context, client
<1>7. Waiting'
  BY <1>4 DEF Waiting
<1>8. Bounded'
  <2>1. taken'[c] = taken[c] + n /\ echo'[c] = echo[c] \o u
    BY <1>4 DEF TypeOK
  <2>2. taken'[c] <= sent[c]
    BY <1>1, <2>1, SMT DEF Unread
  <2>3. Len(echo'[c]) <= Room
    BY <1>2, <1>5, <2>1
  <2>. QED BY <1>4, <2>2, <2>3 DEF Bounded, TypeOK, context, client
<1>9. /\ Stream(c)' = Stream(c) \o u /\ Stream(c) \in Seq(Byte)
      /\ \A d \in Client \ {c} : Stream(d)' = Stream(d)
  <2>1. Stream(c)' = back[c] \o (echo[c] \o u)
    BY <1>4 DEF Stream, TypeOK
  <2>2. (back[c] \o echo[c]) \o u = back[c] \o (echo[c] \o u)
    BY <1>1, <1>3, Associates
  <2>3. back[c] \o echo[c] \in Seq(Byte)
    BY <1>1, ConcatProperties
  <2>4. \A d \in Client \ {c} : Stream(d)' = Stream(d)
    BY <1>4 DEF Stream, TypeOK
  <2>. QED BY <2>1, <2>2, <2>3, <2>4 DEF Stream
<1>10. Len(Stream(c)') = Len(Stream(c)) + m /\ Len(Stream(c)) \in Nat
  BY <1>3, <1>9, ConcatProperties, LenProperties
<1>11. ASSUME NEW d \in Client
       PROVE  EchoOf(Stream(d), text[d], taken[d])' /\ (~ short[d] => Len(Stream(d)) = taken[d])'
  <2>1. EchoOf(Stream(d), text[d], taken[d]) /\ (~ short[d] => Len(Stream(d)) = taken[d])
    BY DEF Inv, EchoInOrder
  <2>2. CASE d # c
    <3>1. Stream(d)' = Stream(d) /\ taken'[d] = taken[d] /\ short'[d] = short[d] /\ text' = text
      BY <1>4, <1>9, <2>2 DEF TypeOK, context
    <3>2. program' = program
      BY <1>4 DEF context
    <3>. QED BY <2>1, <3>1, <3>2 DEF EchoOf, Changed
  <2>3. CASE d = c
    <3>1. taken'[c] = taken[c] + n /\ short'[c] = (short[c] \/ m < n) /\ text' = text /\ program' = program
      BY <1>4 DEF TypeOK, context
    <3>2. m <= n
      BY <1>1, <1>2, SMT
    <3>3. EchoOf(Stream(c) \o u, text[c], taken[c] + n)
      BY <1>1, <1>3, <1>9, <2>1, <2>3, <3>2, EchoExtends
    <3>4. EchoOf(Stream(c), text[c], taken[c])'
      BY <1>9, <3>1, <3>3 DEF EchoOf, Changed
    <3>5. ASSUME ~ short'[c] PROVE Len(Stream(c)') = taken'[c]
      <4>1. m = n
        <5>1. ~ (m < n)
          BY <3>1, <3>5
        <5>. QED BY <1>1, <1>2, <5>1, SMT
      <4>2. Len(Stream(c)) = taken[c]
        BY <2>1, <2>3, <3>1, <3>5
      <4>. QED BY <1>10, <3>1, <4>1, <4>2
    <3>. QED BY <2>3, <3>4, <3>5
  <2>. QED BY <2>2, <2>3
<1>12. bytes_in' = Total(taken)' /\ IsFiniteSet(Bytes(taken))'
  <2>1. IsFiniteSet(Bytes(taken')) /\ Total(taken') = Total(taken) + n
    BY <1>1, <1>4, TotalGrows DEF Inv, TypeOK
  <2>. QED BY <1>4, <2>1 DEF Inv, EchoInOrder, Total, Bytes
<1>13. bytes_out' = Total(Lengths)' /\ IsFiniteSet(Bytes(Lengths))'
  <2>1. Lengths \in [Client -> Nat]
    <3>1. ASSUME NEW d \in Client PROVE Len(Stream(d)) \in Nat
      BY ConcatProperties, LenProperties DEF TypeOK, Stream
    <3>. QED BY <3>1
  <2>2. Lengths' = [Lengths EXCEPT ![c] = Lengths[c] + m]
    BY <1>9, <1>10
  <2>3. IsFiniteSet(Bytes(Lengths)) /\ bytes_out = Total(Lengths)
    BY DEF Inv, EchoInOrder
  <2>. HIDE DEF Lengths
  <2>4. IsFiniteSet(Bytes(Lengths')) /\ Total(Lengths') = Total(Lengths) + m
    BY <1>2, <2>1, <2>2, <2>3, TotalGrows
  <2>. QED BY <1>4, <2>3, <2>4 DEF Total, Bytes
<1>. QED BY <1>6, <1>7, <1>8, <1>11, <1>12, <1>13 DEF Inv, EchoInOrder
-----------------------------------------------------------------------------
(* A server that is starting has neither taken nor written anything.       *)
LEMMA InitInv == Init => Inv
<1>. SUFFICES ASSUME Init PROVE Inv
  OBVIOUS
<1>1. TypeOK
  <2>1. <<>> \in Seq(Client) /\ <<>> \in Seq(Byte) /\ 0 \in Nat
    BY EmptySeq, SMT
  <2>. QED BY <2>1 DEF Init, TypeOK
<1>2. Len(backlog) = 0 /\ 1 .. 0 = {} /\ 2 .. 0 = {}
  BY EmptySeq, SMT DEF Init
<1>3. Waiting
  BY <1>2 DEF Waiting
<1>4. Bounded
  <2>1. ASSUME NEW c \in Client PROVE Len(text[c]) \in Nat /\ Room \in Nat
    BY EchoServerAssumption, LenProperties DEF Init
  <2>2. ASSUME NEW c \in Client
        PROVE  taken[c] = 0 /\ sent[c] = 0 /\ Len(echo[c]) = 0
    BY EmptySeq DEF Init
  <2>. QED BY <2>1, <2>2, SMT DEF Bounded
<1>5. ASSUME NEW c \in Client PROVE Stream(c) = <<>> /\ Len(Stream(c)) = 0 /\ taken[c] = 0
  BY ConcatEmptySeq, EmptySeq, SMT DEF Init, Stream
<1>6. ASSUME NEW c \in Client
      PROVE  EchoOf(Stream(c), text[c], taken[c]) /\ (~ short[c] => Len(Stream(c)) = taken[c])
  BY <1>2, <1>5 DEF EchoOf
<1>7. taken = [c \in Client |-> 0] /\ [c \in Client |-> Len(Stream(c))] = [c \in Client |-> 0]
  BY <1>5 DEF Init
<1>8. /\ bytes_in = Total(taken) /\ bytes_out = Total([c \in Client |-> Len(Stream(c))])
      /\ IsFiniteSet(Bytes(taken)) /\ IsFiniteSet(Bytes([c \in Client |-> Len(Stream(c))]))
  BY <1>7, NoBytes DEF Init
<1>. QED BY <1>1, <1>3, <1>4, <1>6, <1>8 DEF Inv, EchoInOrder

(* Every step of the server, of its clients and of the kernel keeps Inv.   *)
LEMMA InductiveStep == Inv /\ [Next]_vars => Inv'
<1>. SUFFICES ASSUME Inv, [Next]_vars PROVE Inv'
  OBVIOUS
<1>1. CASE UNCHANGED vars
  <2>. TypeOK /\ Waiting /\ Bounded
    BY DEF Inv, EchoInOrder
  <2>. USE <1>1 DEF vars, context, counters, client
  <2>1. TypeOK' /\ Waiting' /\ Bounded'
    BY DEF TypeOK, Waiting, Bounded
  <2>. QED BY <2>1, StreamsStay, UntouchedStreams
<1>2. ASSUME NEW c \in Client, Connect(c) \/ Send(c) \/ CloseSending(c) \/ Read(c) PROVE Inv'
  BY <1>2, ConnectKeeps, SendKeeps, CloseSendingKeeps, ReadKeeps
<1>3. CASE Accept
  BY <1>3, AcceptKeeps
<1>4. CASE Start \/ Shutdown \/ AcceptOnNull \/ \E c \in Client : CallbackOverrun(c)
  BY <1>4, ControlKeeps
<1>5. ASSUME NEW c \in Client, Callback(c) PROVE Inv'
  <2>1. CASE CallbackClose(c)
    BY <1>5, <2>1, CallbackCloseKeeps
  <2>2. ASSUME NEW n \in 1 .. BufferSize, CallbackEcho(c, n) PROVE Inv'
    BY <1>5, <2>2, CallbackEchoKeeps
  <2>. QED BY <1>5, <2>1, <2>2 DEF Callback
<1>. QED BY <1>1, <1>2, <1>3, <1>4, <1>5 DEF Next, ServerNext, ClientNext

(* Inv holds in every reachable state. *)
THEOREM Invariance == Spec => []Inv
BY InitInv, InductiveStep, PTL DEF Spec

(* Each client of the echo server and of the KV server gets back its own   *)
(* bytes, in order and none twice, and all that were received as long as   *)
(* no writev was short; the KV server turns only spaces after a word into  *)
(* NUL; and the counters bytes_in and bytes_out account for the bytes of   *)
(* all connections: for any clients, texts, BUFFER_SIZE and sockets.       *)
THEOREM EchoInOrderCorrect == Spec => []EchoInOrder
<1>1. Inv => EchoInOrder
  BY DEF Inv
<1>. QED BY <1>1, Invariance, PTL

-----------------------------------------------------------------------------
(* The listening socket.  Before start-up and after a failed one there is  *)
(* no connection.                                                          *)
NobodyYet ==
    app \in {"starting", "stopped"} =>
        listener = "null" /\ \A c \in Client : conn[c] = "none"

Listening == OneLeakEndsAccepting /\ NobodyYet

(* While the listening socket is open nothing has leaked. *)
LEMMA NoLeakYet ==
    ASSUME Listening, app = "serving", listener = "open" PROVE \A c \in Client : conn[c] # "leaked"
BY DEF Listening, OneLeakEndsAccepting

LEMMA AcceptListening == ASSUME Inv, Listening, Accept PROVE Listening'
<1>. TypeOK /\ Waiting
  BY DEF Inv, EchoInOrder
<1>1. PICK k \in 0 .. Len(backlog) : AcceptLoop(k)
  BY DEF Accept
<1>2. k \in Nat /\ Len(backlog) \in Nat /\ \A i \in 1 .. Len(backlog) : backlog[i] \in Client
  BY SMT DEF TypeOK
<1>3. app = "serving" /\ listener = "open" /\ app' = app /\ taken' = taken /\ program' = program
  BY DEF Accept
<1>4. \A c \in Client : conn[c] # "leaked" /\ (conn[c] \notin {"open", "closed"} => taken[c] = 0)
  BY <1>3, NoLeakYet DEF Listening, OneLeakEndsAccepting
<1>. DEFINE joined == [c \in Client |-> IF \E i \in 1 .. k : backlog[i] = c THEN "open" ELSE conn[c]]
<1>5. \A c \in Client : joined[c] # "leaked" /\ (joined[c] \notin {"open", "closed"} => taken[c] = 0)
  BY <1>4
<1>6. DOMAIN joined = Client
  OBVIOUS
<1>7. CASE k = Len(backlog) /\ conn' = joined /\ listener' = listener
  BY <1>3, <1>5, <1>7 DEF Listening, OneLeakEndsAccepting, NobodyYet
<1>8. ASSUME k < Len(backlog), NEW st \in {"leaked", "dropped"},
             conn' = [joined EXCEPT ![backlog[k + 1]] = st],
             listener' = IF st = "leaked" THEN "null" ELSE listener
      PROVE  Listening'
  <2>. DEFINE f == backlog[k + 1]
  <2>1. k + 1 \in 1 .. Len(backlog)
    BY <1>2, <1>8, SMT
  <2>2. f \in Client /\ conn[f] = "queued"
    BY <1>2, <2>1 DEF Waiting
  <2>3. taken[f] = 0
    BY <1>4, <2>2
  <2>. HIDE DEF joined, f
  <2>4. conn'[f] = st /\ \A c \in Client \ {f} : conn'[c] = joined[c]
    BY <1>6, <1>8, <2>2 DEF f
  <2>5. \A c \in Client : conn'[c] = "leaked" <=> c = f /\ st = "leaked"
    BY <1>5, <2>2, <2>4
  <2>6. \A c \in Client : conn'[c] \notin {"open", "closed"} => taken'[c] = 0
    <3>1. ASSUME NEW c \in Client, conn'[c] \notin {"open", "closed"} PROVE taken[c] = 0
      <4>1. CASE c = f
        BY <2>3, <4>1
      <4>2. CASE c # f
        BY <1>5, <2>4, <3>1, <4>2
      <4>. QED BY <4>1, <4>2
    <3>. QED BY <1>3, <3>1
  <2>7. listener' = "null" <=> st = "leaked"
    BY <1>3, <1>8
  <2>. QED BY <1>3, <2>2, <2>5, <2>6, <2>7 DEF Listening, OneLeakEndsAccepting, NobodyYet
<1>. QED BY <1>1, <1>7, <1>8 DEF AcceptLoop, NotAdded

LEMMA OthersListening ==
    ASSUME Inv, Listening, [Next]_vars, ~ Accept PROVE Listening'
<1>. TypeOK
  BY DEF Inv, EchoInOrder
<1>. USE DEF Listening, OneLeakEndsAccepting, NobodyYet
<1>1. CASE UNCHANGED <<app, listener, conn, taken, program>>
  BY <1>1
<1>2. CASE Start
  BY <1>2, NoLeakYet DEF Start
<1>3. CASE AcceptOnNull
  BY <1>3 DEF AcceptOnNull
<1>4. ASSUME NEW c \in Client, CallbackOverrun(c) PROVE Listening'
  BY <1>4 DEF CallbackOverrun
<1>5. ASSUME NEW c \in Client, Callback(c) PROVE Listening'
  <2>1. CASE CallbackClose(c)
    BY <1>5, <2>1 DEF Callback, CallbackClose, context, TypeOK
  <2>2. ASSUME NEW n \in 1 .. BufferSize, CallbackEcho(c, n) PROVE Listening'
    <3>1. \A d \in Client : taken'[d] = taken[d] \/ conn[d] = "open"
      BY <1>5, <2>2 DEF Callback, CallbackEcho, TypeOK
    <3>. QED BY <1>5, <2>2, <3>1 DEF Callback, CallbackEcho, context
  <2>. QED BY <1>5, <2>1, <2>2 DEF Callback
<1>6. ASSUME NEW c \in Client, Connect(c) PROVE Listening'
  <2>1. /\ conn'[c] = "queued" /\ conn[c] = "none" /\ listener = "open"
        /\ \A d \in Client \ {c} : conn'[d] = conn[d]
    BY <1>6 DEF Connect, TypeOK
  <2>2. UNCHANGED <<app, listener, taken, program>>
    BY <1>6 DEF Connect, context
  <2>3. \A d \in Client : conn'[d] = "leaked" <=> conn[d] = "leaked"
    BY <2>1
  <2>4. \A d \in Client : conn'[d] \notin {"open", "closed"} => taken'[d] = 0
    BY <2>1, <2>2
  <2>. QED BY <2>1, <2>2, <2>3, <2>4
<1>7. CASE UNCHANGED vars \/ Shutdown \/ \E c \in Client : Send(c) \/ CloseSending(c) \/ Read(c)
  <2>1. UNCHANGED <<app, listener, conn, taken, program>>
    BY <1>7 DEF vars, context, Shutdown, Send, CloseSending, Read
  <2>. QED BY <1>1, <2>1
<1>. QED BY <1>2, <1>3, <1>4, <1>5, <1>6, <1>7 DEF Next, ServerNext, ClientNext

(* spdk_server_accept loses the listening socket with the one connection   *)
(* whose getaddr failed, and no other connection leaks; the server dies of *)
(* nothing else but the KV server's splitting.  For any number of clients  *)
(* that wait in the backlog.                                               *)
THEOREM OneLeakEndsAcceptingCorrect == Spec => []OneLeakEndsAccepting
<1>1. Init => Listening
  BY DEF Init, Listening, OneLeakEndsAccepting, NobodyYet
<1>2. Inv /\ Listening /\ [Next]_vars => Listening'
  BY AcceptListening, OthersListening
<1>3. Listening => OneLeakEndsAccepting
  BY DEF Listening
<1>. QED BY <1>1, <1>2, <1>3, Invariance, PTL DEF Spec
=============================================================================
