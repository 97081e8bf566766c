----------------------------- MODULE Slab_proof -----------------------------
(***************************************************************************)
(* Proofs about Slab, for any size of the page and of a pointer, any block *)
(* sizes with room for a pointer and anything clients write to their       *)
(* blocks.                                                                 *)
(***************************************************************************)
EXTENDS Slab, FiniteSetTheorems, WellFoundedInduction, TLAPS

(* Induction over the natural numbers, as a fact about a set. *)
LEMMA Least ==
    ASSUME NEW S, S \subseteq Nat, S # {}
    PROVE  \E x \in S : \A y \in S : x <= y
<1>1. \E x \in S : \A y \in S : ~ (<<y, x>> \in OpToRel(<, Nat))
  BY NatLessThanWellFounded, WFMin, Zenon
<1>2. \A x, y \in S : ~ (<<y, x>> \in OpToRel(<, Nat)) => x <= y
  BY DEF OpToRel
<1>. QED BY <1>1, <1>2, Zenon

LEMMA Inductive ==
    ASSUME NEW S, 0 \in S, \A n \in Nat : n \in S => n + 1 \in S
    PROVE  \A n \in Nat : n \in S
<1>1. SUFFICES ASSUME Nat \ S # {} PROVE FALSE
  OBVIOUS
<1>2. PICK x \in Nat \ S : \A y \in Nat \ S : x <= y
  BY <1>1, Least
<1>3. x - 1 \in Nat /\ x - 1 \in S
  BY <1>2
<1>. QED BY <1>2, <1>3
-----------------------------------------------------------------------------
(* How the blocks lie in the page. *)

LEMMA Sizes ==
    /\ PageSize \in Nat /\ PtrSize \in Nat /\ PtrSize >= 1
    /\ \A s \in BlockSizes : s \in Nat /\ PtrSize <= s /\ s > 0
BY SlabAssumption

LEMMA Division ==
    ASSUME NEW p \in Nat, NEW s \in Nat, s > 0
    PROVE  p \div s \in Nat /\ p = s * (p \div s) + (p % s) /\ p % s \in 0 .. s - 1
OBVIOUS

LEMMA Apart ==
    ASSUME NEW s \in Nat, NEW i \in Nat, NEW j \in Nat, i < j
    PROVE  i * s + s <= j * s
OBVIOUS

(* The k-th byte of the i-th block has k as its remainder. *)
LEMMA Remainder ==
    ASSUME NEW s \in Nat, s > 0, NEW i \in Nat, NEW k \in 0 .. s - 1
    PROVE  (i * s + k) % s = k
<1> DEFINE p == i * s + k
           j == p \div s
           r == p % s
<1>1. p \in Nat /\ i * s \in Nat
  OBVIOUS
<1>2. j \in Nat /\ p = s * j + r /\ r \in 0 .. s - 1
  BY <1>1, Division
<1>3. p = i * s + k /\ r = (i * s + k) % s
  OBVIOUS
<1>. HIDE DEF p, j, r
<1>4. s * j = j * s /\ j * s \in Nat
  BY <1>2
<1>5. ~ (i < j)
  BY <1>1, <1>2, <1>3, <1>4, Apart
<1>6. ~ (j < i)
  BY <1>1, <1>2, <1>3, <1>4, Apart
<1>7. i = j
  BY <1>2, <1>5, <1>6
<1>. QED BY <1>1, <1>2, <1>3, <1>4, <1>7

(* The blocks lie inside the page one behind the other. *)
LEMMA Layout ==
    ASSUME NEW s \in Nat, s > 0
    PROVE  /\ Blocks(s) \in Nat /\ Blocks(s) <= PageSize
           /\ \A i \in 0 .. Blocks(s) : i * s \in Nat /\ (i + 1) * s = i * s + s
           /\ \A i, j \in 0 .. Blocks(s) : i < j => i * s + s <= j * s
           /\ \A i \in 0 .. Blocks(s) - 1 : i * s + s <= Behind(s)
           /\ Behind(s) \in 0 .. PageSize
           /\ Left(s) \in 0 .. s - 1 /\ Behind(s) = PageSize - Left(s)
<1>. PageSize \in Nat
  BY Sizes
<1> DEFINE b == Blocks(s)
<1>1. b \in Nat /\ PageSize = s * b + Left(s) /\ Left(s) \in 0 .. s - 1
  BY Division DEF Blocks, Left
<1>0. Behind(s) = b * s
  BY DEF Behind
<1>. HIDE DEF b
<1>2. \A i \in Nat : i * s \in Nat /\ (i + 1) * s = i * s + s
  OBVIOUS
<1>3. \A i, j \in Nat : i < j => i * s + s <= j * s
  BY Apart
<1>4. b * s = s * b /\ b * s \in Nat /\ b <= s * b
  BY <1>1
<1>5. b * s \in 0 .. PageSize /\ b <= PageSize /\ b * s = PageSize - Left(s)
  BY <1>1, <1>4
<1>6. \A i \in 0 .. b : i \in Nat
  BY <1>1
<1>7. \A i \in 0 .. b - 1 : i * s + s <= b * s
  BY <1>1, <1>3
<1>8. \A i, j \in 0 .. b : i < j => i * s + s <= j * s
  BY <1>3, <1>6
<1>9. \A i \in 0 .. b : i * s \in Nat /\ (i + 1) * s = i * s + s
  BY <1>2, <1>6
<1>. QED BY <1>0, <1>1, <1>5, <1>7, <1>8, <1>9 DEF b

-----------------------------------------------------------------------------
(* Pointers in memory. *)

LEMMA LoadStored ==
    ASSUME NEW m, NEW a \in Nat, NEW p PROVE LoadPtr(StorePtr(m, a, p), a) = p
<1> DEFINE w == StorePtr(m, a, p)
<1>1. a \in Span(a)
  BY Sizes DEF Span
<1>2. Span(a) \subseteq DOMAIN w /\ \A b \in Span(a) : w[b] = <<p, b - a>>
  BY DEF StorePtr
<1>3. w[a][1] = p
  BY <1>1, <1>2
<1>. HIDE DEF w
<1>4. \A b \in Span(a) : w[b] = <<w[a][1], b - a>>
  BY <1>2, <1>3
<1>5. LoadPtr(w, a) = p
  BY <1>2, <1>3, <1>4 DEF LoadPtr
<1>. QED BY <1>5 DEF w

LEMMA LoadSame ==
    ASSUME NEW m, NEW w, NEW a \in Nat,
           Span(a) \subseteq DOMAIN m, Span(a) \subseteq DOMAIN w,
           \A b \in Span(a) : w[b] = m[b]
    PROVE  LoadPtr(w, a) = LoadPtr(m, a)
<1>1. a \in Span(a)
  BY Sizes DEF Span
<1>2. w[a] = m[a]
  BY <1>1
<1>. QED BY <1>2 DEF LoadPtr

-----------------------------------------------------------------------------
(* The inductive invariant. *)

FreeBlocks == BlockStarts \ DOMAIN owned

(* fl lists the free blocks in the order of their links, each once. *)
Threads(fl) ==
    /\ \A i \in 1 .. free_count : fl[i] \in FreeBlocks
    /\ \A b \in FreeBlocks : \E i \in 1 .. free_count : fl[i] = b
    /\ \A i, j \in 1 .. free_count : fl[i] = fl[j] => i = j
    /\ free_count # 0 => fl[1] = first_free
    /\ \A i \in 1 .. free_count : i + 1 <= free_count => LoadPtr(page, fl[i]) = fl[i + 1]

IInv ==
    /\ ready \in BOOLEAN
    /\ ready => /\ block_size \in BlockSizes /\ free_count \in Nat
                /\ DOMAIN owned \subseteq BlockStarts /\ \E fl : Threads(fl)
    /\ ~ready => DOMAIN owned = {} /\ DOMAIN page = 0 .. PageSize - 1
    /\ WritesStayInFreeBlocks

LEMMA InitKeeps == Init => IInv
<1> SUFFICES ASSUME Init PROVE IInv
  OBVIOUS
<1>1. ready = FALSE /\ DOMAIN owned = {} /\ DOMAIN page = 0 .. PageSize - 1
  BY DEF Init, Fresh
<1>. QED BY <1>1 DEF IInv, WritesStayInFreeBlocks

(* What init_slab writes at a block's start, and behind the last block. *)
LEMMA LinkedBytes ==
    ASSUME NEW size \in BlockSizes, DOMAIN page = 0 .. PageSize - 1
    PROVE  LET w == Linked(size)
               left == Left(size)
           IN  /\ DOMAIN w = (0 .. PageSize - 1) \cup (PageSize .. PageSize + PtrSize - left - 1)
               /\ \A i \in 0 .. Blocks(size) - 1 : LoadPtr(w, i * size) = i * size + size
               /\ \A b \in DOMAIN w : b >= PageSize => w[b] = <<NULL, b - (PageSize - left)>>
<1> DEFINE n == Blocks(size)
           e == Behind(size)
           w == Linked(size)
           left == Left(size)
<1>1. /\ PageSize \in Nat /\ PtrSize \in Nat /\ PtrSize >= 1
      /\ size \in Nat /\ PtrSize <= size /\ size > 0
  BY Sizes
<1>2. /\ n \in Nat /\ \A i \in 0 .. n : i * size \in Nat
      /\ \A i \in 0 .. n - 1 : i * size + size <= e
      /\ e \in 0 .. PageSize /\ left \in 0 .. size - 1 /\ e = PageSize - left /\ e = n * size
  <2>1. e = n * size
    BY DEF Behind
  <2>. QED BY <1>1, <2>1, Layout, Zenon
<1>3. /\ DOMAIN w = DOMAIN page \cup Span(e)
      /\ \A b \in DOMAIN w, k \in 0 .. PtrSize - 1 : b % size = k =>
            w[b] = <<IF b - k = e THEN NULL ELSE b - k + size, k>>
  <2>1. DOMAIN w = DOMAIN page \cup Span(e)
    BY Zenon DEF Linked
  <2>2. ASSUME NEW b \in DOMAIN w, NEW k \in 0 .. PtrSize - 1, b % size = k
        PROVE  w[b] = <<IF b - k = e THEN NULL ELSE b - k + size, k>>
    <3>1. w[b] = IF k >= PtrSize THEN page[b]
                 ELSE <<IF b - k = e THEN NULL ELSE b - k + size, k>>
      BY <2>1, <2>2, Zenon DEF Linked
    <3>2. ~ (k >= PtrSize)
      BY <1>1
    <3>. QED BY <3>1, <3>2, Zenon
  <2>. QED BY <2>1, <2>2
<1>. HIDE DEF n, e, w, left
<1>4. DOMAIN w = (0 .. PageSize - 1) \cup (PageSize .. PageSize + PtrSize - left - 1)
  BY <1>1, <1>2, <1>3 DEF Span
<1>5. ASSUME NEW i \in 0 .. n - 1 PROVE LoadPtr(w, i * size) = i * size + size
  <2> DEFINE a == i * size
  <2>1. i \in Nat /\ a \in Nat /\ a + size <= e
    BY <1>2
  <2>2. \A k \in 0 .. size - 1 : (a + k) % size = k
    BY <1>1, <2>1, Remainder
  <2>. HIDE DEF a
  <2>3. Span(a) \subseteq DOMAIN w
    BY <1>1, <1>2, <1>4, <2>1 DEF Span
  <2>4. ASSUME NEW b \in Span(a) PROVE w[b] = <<a + size, b - a>>
    <3>1. b - a \in 0 .. size - 1 /\ b - a \in 0 .. PtrSize - 1 /\ a + (b - a) = b /\ b - (b - a) = a
      BY <1>1, <2>1 DEF Span
    <3>2. b % size = b - a
      BY <2>2, <3>1
    <3>3. a # e
      BY <1>1, <1>2, <2>1
    <3>. QED BY <1>3, <2>3, <3>1, <3>2, <3>3
  <2>5. a \in Span(a)
    BY <1>1, <2>1 DEF Span
  <2>6. w[a][1] = a + size
    BY <2>4, <2>5
  <2>7. \A b \in Span(a) : w[b] = <<w[a][1], b - a>>
    BY <2>4, <2>6
  <2>8. LoadPtr(w, a) = a + size
    BY <2>3, <2>6, <2>7 DEF LoadPtr
  <2>. QED BY <2>8 DEF a
<1>6. ASSUME NEW b \in DOMAIN w, b >= PageSize PROVE w[b] = <<NULL, b - (PageSize - left)>>
  <2>1. b - e \in 0 .. size - 1 /\ b - e \in 0 .. PtrSize - 1 /\ e + (b - e) = b /\ b - (b - e) = e
    BY <1>1, <1>2, <1>4, <1>6
  <2>2. b % size = b - e
    <3>1. (n * size + (b - e)) % size = b - e
      BY <1>1, <1>2, <2>1, Remainder, Zenon
    <3>2. n * size + (b - e) = b
      BY <1>2, <2>1, Zenon
    <3>. QED BY <3>1, <3>2, Zenon
  <2>3. w[b] = <<NULL, b - e>>
    BY <1>3, <2>1, <2>2
  <2>. QED BY <1>2, <2>3
<1>. QED BY <1>4, <1>5, <1>6 DEF n, w, left

(* init_slab, with memory: the list has all blocks in the order in which   *)
(* they lie in the page.                                                   *)
LEMMA InitSlabKeeps ==
    ASSUME IInv, NEW size \in BlockSizes, init_slab(size), ready' PROVE IInv'
<1> DEFINE b == Blocks(size)
           fl == [i \in 1 .. b |-> (i - 1) * size]
<1>1. /\ size \in Nat /\ size > 0 /\ ~ ready
      /\ DOMAIN owned = {} /\ DOMAIN page = 0 .. PageSize - 1
  BY Sizes DEF IInv, init_slab
<1>2. /\ b \in Nat
      /\ \A i \in 0 .. b : i * size \in Nat /\ (i + 1) * size = i * size + size
      /\ \A i, j \in 0 .. b : i < j => i * size + size <= j * size
  BY <1>1, Layout
<1>3. /\ ready' = TRUE /\ block_size' = size /\ free_count' = b /\ first_free' = 0 /\ owned' = owned
      /\ page' = Linked(size)
  BY <1>1 DEF init_slab
<1>4. FreeBlocks' = {i * size : i \in 0 .. b - 1} /\ BlockStarts' = {i * size : i \in 0 .. b - 1}
  BY <1>1, <1>3 DEF FreeBlocks, BlockStarts
<1>5. /\ DOMAIN page' = (0 .. PageSize - 1) \cup (PageSize .. PageSize + PtrSize - Left(size) - 1)
      /\ \A i \in 0 .. b - 1 : LoadPtr(page', i * size) = i * size + size
      /\ \A a \in DOMAIN page' : a >= PageSize => page'[a] = <<NULL, a - (PageSize - Left(size))>>
  BY <1>1, <1>3, LinkedBytes
<1>. HIDE DEF b
<1>6. Threads(fl)'
  <2>1. ASSUME NEW i \in 1 .. b PROVE i - 1 \in 0 .. b - 1 /\ fl[i] = (i - 1) * size
    BY <1>2
  <2>2. ASSUME NEW i \in 0 .. b - 1 PROVE i + 1 \in 1 .. b /\ fl[i + 1] = i * size
    BY <1>2
  <2>. HIDE DEF fl
  <2>3. \A i \in 1 .. b : fl[i] \in FreeBlocks'
    BY <1>4, <2>1
  <2>4. \A f \in FreeBlocks' : \E i \in 1 .. b : fl[i] = f
    BY <1>4, <2>2
  <2>5. ASSUME NEW i \in 1 .. b, NEW j \in 1 .. b, fl[i] = fl[j] PROVE i = j
    <3>1. /\ i - 1 \in 0 .. b /\ j - 1 \in 0 .. b /\ (i - 1) * size = (j - 1) * size
          /\ (i - 1) * size \in Nat
      BY <1>2, <2>1, <2>5
    <3>2. ~ (i - 1 < j - 1) /\ ~ (j - 1 < i - 1)
      BY <1>1, <1>2, <3>1
    <3>. QED BY <1>2, <3>2
  <2>6. ASSUME b # 0 PROVE fl[1] = 0
    <3>1. 1 \in 1 .. b /\ (1 - 1) * size = 0
      BY <1>1, <1>2, <2>6
    <3>. QED BY <2>1, <3>1
  <2>7. ASSUME NEW i \in 1 .. b, i + 1 <= b PROVE LoadPtr(page', fl[i]) = fl[i + 1]
    <3>1. i - 1 \in 0 .. b - 1 /\ i - 1 \in 0 .. b /\ i \in 0 .. b - 1 /\ (i - 1) + 1 = i
      BY <1>2, <2>7
    <3>2. fl[i + 1] = (i - 1) * size + size
      BY <1>2, <2>2, <3>1
    <3>. QED BY <1>5, <2>1, <3>1, <3>2
  <2>. QED BY <1>3, <2>3, <2>4, <2>5, <2>6, <2>7 DEF Threads
<1>7. WritesStayInFreeBlocks'
  BY <1>1, <1>3, <1>5 DEF WritesStayInFreeBlocks
<1>. HIDE DEF fl
<1>. QED BY <1>1, <1>2, <1>3, <1>6, <1>7 DEF IInv

(* init_slab without memory. *)
LEMMA InitSlabFails ==
    ASSUME IInv, NEW size \in BlockSizes, init_slab(size), ~ ready' PROVE IInv'
<1>1. ready' = FALSE /\ page' = page /\ owned' = owned /\ ready = FALSE
  BY DEF IInv, init_slab
<1>. QED BY <1>1 DEF IInv, WritesStayInFreeBlocks

(* Where the blocks are, once the slab is ready: all their bytes inside    *)
(* the page, and no byte in two of them.                                   *)
LEMMA BlocksInPage ==
    ASSUME IInv, ready
    PROVE  /\ block_size \in Nat /\ PtrSize <= block_size /\ block_size > 0
           /\ PtrSize \in Nat /\ PtrSize >= 1 /\ PageSize \in Nat
           /\ 0 .. PageSize - 1 \subseteq DOMAIN page
           /\ \A a \in BlockStarts : a \in Nat /\ a + block_size <= PageSize
           /\ \A a, c \in BlockStarts : a # c => a + block_size <= c \/ c + block_size <= a
<1>1. /\ block_size \in Nat /\ PtrSize <= block_size /\ block_size > 0
      /\ PtrSize \in Nat /\ PtrSize >= 1 /\ PageSize \in Nat
  BY Sizes DEF IInv
<1>2. 0 .. PageSize - 1 \subseteq DOMAIN page
  BY DEF IInv, WritesStayInFreeBlocks
<1> DEFINE n == Blocks(block_size)
<1>3. /\ n \in Nat /\ \A i \in 0 .. n : i * block_size \in Nat
      /\ \A i, j \in 0 .. n : i < j => i * block_size + block_size <= j * block_size
      /\ \A i \in 0 .. n - 1 : i * block_size + block_size <= PageSize
  <2>1. /\ n \in Nat /\ \A i \in 0 .. n : i * block_size \in Nat
        /\ \A i, j \in 0 .. n : i < j => i * block_size + block_size <= j * block_size
        /\ \A i \in 0 .. n - 1 : i * block_size + block_size <= Behind(block_size)
        /\ Behind(block_size) \in 0 .. PageSize
    BY <1>1, Layout
  <2>. HIDE DEF n
  <2>2. ASSUME NEW i \in 0 .. n - 1 PROVE i * block_size + block_size <= PageSize
    <3>1. i \in 0 .. n
      BY <2>1
    <3>2. i * block_size \in Nat /\ i * block_size + block_size <= Behind(block_size)
      BY <2>1, <3>1
    <3>. QED BY <1>1, <2>1, <3>2
  <2>. QED BY <2>1, <2>2
<1>4. BlockStarts = {i * block_size : i \in 0 .. n - 1}
  BY DEF BlockStarts
<1>. HIDE DEF n
<1>5. ASSUME NEW a \in BlockStarts PROVE a \in Nat /\ a + block_size <= PageSize
  <2>1. PICK i \in 0 .. n - 1 : a = i * block_size
    BY <1>4
  <2>2. i \in 0 .. n
    BY <1>3
  <2>. QED BY <1>3, <2>1, <2>2
<1>6. ASSUME NEW a \in BlockStarts, NEW c \in BlockStarts, a # c
      PROVE  a + block_size <= c \/ c + block_size <= a
  <2>1. PICK i \in 0 .. n - 1 : a = i * block_size
    BY <1>4
  <2>2. PICK j \in 0 .. n - 1 : c = j * block_size
    BY <1>4
  <2>3. i \in 0 .. n /\ j \in 0 .. n /\ (i < j \/ j < i)
    BY <1>3, <1>6, <2>1, <2>2
  <2>. QED BY <1>3, <2>1, <2>2, <2>3
<1>. QED BY <1>1, <1>2, <1>5, <1>6

LEMMA AllocKeeps == ASSUME IInv, alloc_slab PROVE IInv'
<1>1. PICK fl : Threads(fl)
  BY DEF IInv, alloc_slab
<1>2. /\ free_count \in Nat /\ free_count # 0 /\ DOMAIN owned \subseteq BlockStarts
      /\ block_size \in BlockSizes
      /\ ready' = ready /\ block_size' = block_size /\ page' = page /\ free_count' = free_count - 1
      /\ first_free' = LoadPtr(page, first_free) /\ ready = TRUE /\ BlockStarts' = BlockStarts
      /\ owned' = [a \in DOMAIN owned \cup {first_free} |->
                      IF a = first_free THEN [k \in 0 .. block_size - 1 |-> page[a + k]]
                                        ELSE owned[a]]
  BY DEF IInv, alloc_slab, Exhausted, BlockStarts, Blocks
<1>3. 1 \in 1 .. free_count /\ fl[1] = first_free /\ first_free \in FreeBlocks
  BY <1>1, <1>2 DEF Threads
<1>4. DOMAIN owned' \subseteq BlockStarts /\ FreeBlocks' = FreeBlocks \ {first_free}
  BY <1>2, <1>3 DEF FreeBlocks
<1>5. \E f2 : Threads(f2)'
  <2>0. PICK f2 : f2 = [i \in 1 .. free_count - 1 |-> fl[i + 1]]
    OBVIOUS
  <2>1. ASSUME NEW i \in 1 .. free_count - 1
        PROVE  i + 1 \in 1 .. free_count /\ f2[i] = fl[i + 1] /\ i + 1 # 1
    BY <1>2, <2>0
  <2>2. \A i \in 1 .. free_count - 1 : f2[i] \in FreeBlocks'
    BY <1>1, <1>3, <1>4, <2>1 DEF Threads
  <2>3. ASSUME NEW b \in FreeBlocks' PROVE \E i \in 1 .. free_count - 1 : f2[i] = b
    <3>1. PICK i \in 1 .. free_count : fl[i] = b
      BY <1>1, <1>4 DEF Threads
    <3>2. i # 1
      BY <1>3, <1>4, <3>1
    <3>3. i - 1 \in 1 .. free_count - 1 /\ (i - 1) + 1 = i
      BY <1>2, <3>2
    <3>4. f2[i - 1] = b
      BY <2>1, <3>1, <3>3
    <3>. QED BY <3>3, <3>4
  <2>4. ASSUME NEW i \in 1 .. free_count - 1, NEW j \in 1 .. free_count - 1, f2[i] = f2[j] PROVE i = j
    <3>1. i + 1 = j + 1
      BY <1>1, <2>1, <2>4 DEF Threads
    <3>. QED BY <3>1
  <2>5. ASSUME free_count - 1 # 0 PROVE f2[1] = LoadPtr(page, first_free)
    <3>1. 1 \in 1 .. free_count - 1 /\ 1 + 1 <= free_count
      BY <1>2, <2>5
    <3>2. LoadPtr(page, fl[1]) = fl[1 + 1]
      BY <1>1, <1>3, <3>1 DEF Threads
    <3>. QED BY <1>3, <2>1, <3>1, <3>2
  <2>6. ASSUME NEW i \in 1 .. free_count - 1, i + 1 <= free_count - 1 PROVE LoadPtr(page, f2[i]) = f2[i + 1]
    <3>1. i + 1 \in 1 .. free_count - 1 /\ i + 1 \in 1 .. free_count /\ (i + 1) + 1 <= free_count
      BY <1>2, <2>6
    <3>2. LoadPtr(page, fl[i + 1]) = fl[(i + 1) + 1]
      BY <1>1, <3>1 DEF Threads
    <3>. QED BY <2>1, <3>1, <3>2
  <2>7. Threads(f2)'
    BY <1>2, <2>2, <2>3, <2>4, <2>5, <2>6 DEF Threads
  <2>. QED BY <2>7
<1>6. WritesStayInFreeBlocks'
  <2>1. ASSUME NEW a \in DOMAIN owned', NEW k \in 0 .. block_size - 1
        PROVE  page[a + k] = owned'[a][k]
    <3>1. CASE a = first_free
      BY <1>2, <3>1
    <3>2. CASE a # first_free
      BY <1>2, <3>2 DEF IInv, WritesStayInFreeBlocks
    <3>. QED BY <3>1, <3>2
  <2>. QED BY <1>2, <2>1 DEF IInv, WritesStayInFreeBlocks
<1>. QED BY <1>2, <1>4, <1>5, <1>6 DEF IInv

LEMMA FreeKeeps == ASSUME IInv, NEW a \in DOMAIN owned, free_slab(a) PROVE IInv'
<1>1. PICK fl : Threads(fl)
  BY DEF IInv, free_slab
<1>2. /\ free_count \in Nat /\ DOMAIN owned \subseteq BlockStarts /\ a \in BlockStarts /\ ready = TRUE
      /\ ready' = ready /\ block_size' = block_size /\ free_count' = free_count + 1
      /\ first_free' = a /\ BlockStarts' = BlockStarts
      /\ block_size \in BlockSizes
      /\ page' = StorePtr(page, a, first_free)
      /\ owned' = [b \in DOMAIN owned \ {a} |-> owned[b]]
  BY DEF IInv, free_slab, LinkAt, FreedLink, BlockStarts, Blocks
<1>3. /\ block_size \in Nat /\ PtrSize <= block_size /\ PtrSize \in Nat /\ PtrSize >= 1
      /\ PageSize \in Nat /\ 0 .. PageSize - 1 \subseteq DOMAIN page
      /\ \A c \in BlockStarts : c \in Nat /\ c + block_size <= PageSize
      /\ \A c, d \in BlockStarts : c # d => c + block_size <= d \/ d + block_size <= c
      /\ a \notin FreeBlocks /\ FreeBlocks \subseteq BlockStarts
  BY <1>2, BlocksInPage DEF FreeBlocks
<1>4. /\ DOMAIN page' = DOMAIN page /\ LoadPtr(page', a) = first_free
      /\ \A b \in DOMAIN page : b \notin Span(a) => page'[b] = page[b]
      /\ Span(a) \subseteq 0 .. PageSize - 1
  <2>1. Span(a) \subseteq 0 .. PageSize - 1
    BY <1>2, <1>3 DEF Span
  <2>2. LoadPtr(page', a) = first_free
    BY <1>2, <1>3, LoadStored
  <2>. QED BY <1>2, <1>3, <2>1, <2>2 DEF StorePtr
<1>8. ASSUME NEW c \in BlockStarts, c # a
      PROVE  /\ \A k \in 0 .. block_size - 1 : page'[c + k] = page[c + k]
             /\ LoadPtr(page', c) = LoadPtr(page, c)
  <2>1. /\ c \in Nat /\ c + block_size <= PageSize /\ a \in Nat
        /\ (a + block_size <= c \/ c + block_size <= a)
    BY <1>2, <1>3, <1>8
  <2>2. \A k \in 0 .. block_size - 1 : c + k \in DOMAIN page /\ c + k \notin Span(a)
    BY <1>3, <2>1 DEF Span
  <2>3. \A k \in 0 .. block_size - 1 : page'[c + k] = page[c + k]
    BY <1>4, <2>2
  <2>4. \A b \in Span(c) : b \in DOMAIN page /\ b \notin Span(a)
    BY <1>3, <2>1 DEF Span
  <2>5. \A b \in Span(c) : b \in DOMAIN page /\ b \in DOMAIN page' /\ page'[b] = page[b]
    BY <1>4, <2>4
  <2>. QED BY <2>1, <2>3, <2>5, LoadSame
<1>5. DOMAIN owned' \subseteq BlockStarts /\ FreeBlocks' = FreeBlocks \union {a}
  BY <1>2 DEF FreeBlocks
<1>6. \E f2 : Threads(f2)'
  <2>0. PICK f2 : f2 = [i \in 1 .. free_count + 1 |-> IF i = 1 THEN a ELSE fl[i - 1]]
    OBVIOUS
  <2>1. 1 \in 1 .. free_count + 1 /\ f2[1] = a
    BY <1>2, <2>0
  <2>2. ASSUME NEW i \in 1 .. free_count
        PROVE  /\ i + 1 \in 1 .. free_count + 1 /\ f2[i + 1] = fl[i] /\ fl[i] \in FreeBlocks
               /\ fl[i] # a /\ LoadPtr(page', fl[i]) = LoadPtr(page, fl[i])
    <3>1. fl[i] \in FreeBlocks
      BY <1>1 DEF Threads
    <3>2. i + 1 \in 1 .. free_count + 1 /\ f2[i + 1] = fl[i]
      BY <1>2, <2>0
    <3>. QED BY <1>3, <1>8, <3>1, <3>2
  <2>3. ASSUME NEW i \in 1 .. free_count + 1, i # 1
        PROVE  i - 1 \in 1 .. free_count /\ f2[i] = fl[i - 1]
    <3>1. i - 1 \in 1 .. free_count /\ (i - 1) + 1 = i
      BY <1>2, <2>3
    <3>. QED BY <2>2, <3>1
  <2>4. \A i \in 1 .. free_count + 1 : f2[i] \in FreeBlocks'
    BY <1>5, <2>1, <2>2, <2>3
  <2>5. \A b \in FreeBlocks' : \E i \in 1 .. free_count + 1 : f2[i] = b
    BY <1>1, <1>5, <2>1, <2>2 DEF Threads
  <2>6. ASSUME NEW i \in 1 .. free_count + 1, NEW j \in 1 .. free_count + 1, f2[i] = f2[j] PROVE i = j
    <3>1. CASE i = 1 \/ j = 1
      BY <2>1, <2>2, <2>3, <2>6, <3>1
    <3>2. CASE i # 1 /\ j # 1
      <4>1. i - 1 = j - 1
        BY <1>1, <2>3, <2>6, <3>2 DEF Threads
      <4>. QED BY <4>1
    <3>. QED BY <3>1, <3>2
  <2>7. ASSUME NEW i \in 1 .. free_count + 1, i + 1 <= free_count + 1 PROVE LoadPtr(page', f2[i]) = f2[i + 1]
    <3>1. i \in 1 .. free_count /\ f2[i + 1] = fl[i]
      BY <1>2, <2>2, <2>7
    <3>2. CASE i = 1
      BY <1>1, <1>2, <1>4, <2>1, <3>1, <3>2 DEF Threads
    <3>3. CASE i # 1
      <4>1. i - 1 \in 1 .. free_count /\ (i - 1) + 1 = i /\ (i - 1) + 1 <= free_count /\ f2[i] = fl[i - 1]
        BY <1>2, <2>3, <3>1, <3>3
      <4>2. LoadPtr(page, fl[i - 1]) = fl[(i - 1) + 1]
        BY <1>1, <4>1 DEF Threads
      <4>. QED BY <2>2, <3>1, <4>1, <4>2
    <3>. QED BY <3>2, <3>3
  <2>8. Threads(f2)'
    BY <1>2, <2>1, <2>4, <2>5, <2>6, <2>7 DEF Threads
  <2>. QED BY <2>8
<1>7. WritesStayInFreeBlocks'
  <2>1. ASSUME NEW b \in DOMAIN owned', NEW k \in 0 .. block_size - 1
        PROVE  page'[b + k] = owned'[b][k]
    <3>1. b \in DOMAIN owned /\ b # a /\ owned'[b] = owned[b] /\ b \in BlockStarts
      BY <1>2
    <3>2. page[b + k] = owned[b][k]
      BY <1>2, <3>1 DEF IInv, WritesStayInFreeBlocks
    <3>. QED BY <1>8, <3>1, <3>2
  <2>2. ASSUME NEW b \in DOMAIN page', b >= PageSize
        PROVE  page'[b] = <<NULL, b - (PageSize - Left(block_size))>>
    <3>1. b \in DOMAIN page /\ b \notin Span(a)
      BY <1>3, <1>4, <2>2
    <3>2. page[b] = <<NULL, b - (PageSize - Left(block_size))>>
      BY <1>2, <2>2, <3>1 DEF IInv, WritesStayInFreeBlocks
    <3>. QED BY <1>4, <3>1, <3>2
  <2>3. DOMAIN page' = (0 .. PageSize - 1) \cup (PageSize .. PageSize + PtrSize - Left(block_size) - 1)
    BY <1>2, <1>4 DEF IInv, WritesStayInFreeBlocks
  <2>. QED BY <1>2, <2>1, <2>2, <2>3 DEF WritesStayInFreeBlocks
<1>. QED BY <1>2, <1>4, <1>5, <1>6, <1>7 DEF IInv

LEMMA DeleteKeeps == ASSUME IInv, delete_slab PROVE IInv'
<1>1. ready' = FALSE /\ DOMAIN owned' = {} /\ DOMAIN page' = 0 .. PageSize - 1
  BY DEF delete_slab, Fresh
<1>. QED BY <1>1 DEF IInv, WritesStayInFreeBlocks

LEMMA ClientKeeps == ASSUME IInv, NEW a \in DOMAIN owned, NEW d, ClientWrite(a, d) PROVE IInv'
<1>0. ready = TRUE
  BY DEF IInv
<1>1. PICK fl : Threads(fl)
  BY <1>0 DEF IInv
<1> DEFINE block == a .. a + block_size - 1
<1>2. /\ DOMAIN owned \subseteq BlockStarts /\ BlockStarts' = BlockStarts /\ a \in BlockStarts
      /\ ready' = ready /\ block_size' = block_size /\ free_count' = free_count
      /\ first_free' = first_free
      /\ owned' = [owned EXCEPT ![a] = [k \in 0 .. block_size - 1 |-> <<d, k>>]]
      /\ page' = [b \in DOMAIN page |-> IF b \in block THEN <<d, b - a>> ELSE page[b]]
  BY <1>0 DEF IInv, ClientWrite, BlockStarts, Blocks, slab
<1>3. /\ block_size \in Nat /\ PtrSize <= block_size /\ PtrSize \in Nat /\ PtrSize >= 1
      /\ PageSize \in Nat /\ 0 .. PageSize - 1 \subseteq DOMAIN page
      /\ \A c \in BlockStarts : c \in Nat /\ c + block_size <= PageSize
      /\ \A c, e \in BlockStarts : c # e => c + block_size <= e \/ e + block_size <= c
      /\ a \notin FreeBlocks /\ FreeBlocks \subseteq BlockStarts
  BY <1>0, <1>2, BlocksInPage DEF FreeBlocks
<1>4. /\ DOMAIN page' = DOMAIN page
      /\ \A b \in DOMAIN page : b \notin block => page'[b] = page[b]
  BY <1>2
<1>5. DOMAIN owned' = DOMAIN owned /\ FreeBlocks' = FreeBlocks
  BY <1>2 DEF FreeBlocks
<1>6. ASSUME NEW c \in BlockStarts, c # a
      PROVE  /\ \A k \in 0 .. block_size - 1 : page'[c + k] = page[c + k]
             /\ LoadPtr(page', c) = LoadPtr(page, c)
  <2>1. /\ c \in Nat /\ c + block_size <= PageSize /\ a \in Nat
        /\ (a + block_size <= c \/ c + block_size <= a)
    BY <1>2, <1>3, <1>6
  <2>2. \A k \in 0 .. block_size - 1 : c + k \in DOMAIN page /\ c + k \notin block
    BY <1>3, <2>1
  <2>3. \A k \in 0 .. block_size - 1 : page'[c + k] = page[c + k]
    BY <1>4, <2>2
  <2>4. \A b \in Span(c) : b \in DOMAIN page /\ b \notin block
    BY <1>3, <2>1 DEF Span
  <2>5. \A b \in Span(c) : b \in DOMAIN page /\ b \in DOMAIN page' /\ page'[b] = page[b]
    BY <1>4, <2>4
  <2>. QED BY <2>1, <2>3, <2>5, LoadSame
<1>7. Threads(fl)'
  <2>1. \A i \in 1 .. free_count : LoadPtr(page', fl[i]) = LoadPtr(page, fl[i])
    BY <1>1, <1>3, <1>6 DEF Threads
  <2>. QED BY <1>1, <1>2, <1>5, <2>1 DEF Threads
<1>8. WritesStayInFreeBlocks'
  <2>1. ASSUME NEW b \in DOMAIN owned', NEW k \in 0 .. block_size - 1
        PROVE  page'[b + k] = owned'[b][k]
    <3>1. CASE b = a
      <4>0. a \in Nat /\ a + block_size <= PageSize
        BY <1>2, <1>3
      <4>1. a + k \in block /\ a + k \in DOMAIN page /\ (a + k) - a = k
        BY <1>3, <4>0
      <4>. QED BY <1>2, <3>1, <4>1
    <3>2. CASE b # a
      <4>1. b \in BlockStarts /\ owned'[b] = owned[b] /\ page[b + k] = owned[b][k]
        BY <1>0, <1>2, <1>5, <3>2 DEF IInv, WritesStayInFreeBlocks
      <4>. QED BY <1>6, <3>2, <4>1
    <3>. QED BY <3>1, <3>2
  <2>2. ASSUME NEW b \in DOMAIN page', b >= PageSize
        PROVE  page'[b] = <<NULL, b - (PageSize - Left(block_size))>>
    <3>1. b \in DOMAIN page /\ b \notin block
      BY <1>2, <1>3, <1>4, <2>2
    <3>2. page[b] = <<NULL, b - (PageSize - Left(block_size))>>
      BY <1>0, <2>2, <3>1 DEF IInv, WritesStayInFreeBlocks
    <3>. QED BY <1>4, <3>1, <3>2
  <2>3. DOMAIN page' = (0 .. PageSize - 1) \cup (PageSize .. PageSize + PtrSize - Left(block_size) - 1)
    BY <1>0, <1>4 DEF IInv, WritesStayInFreeBlocks
  <2>. QED BY <1>2, <2>1, <2>2, <2>3 DEF WritesStayInFreeBlocks
<1>. QED BY <1>0, <1>2, <1>5, <1>7, <1>8 DEF IInv

LEMMA InductiveStep == IInv /\ [Next]_vars => IInv'
<1> SUFFICES ASSUME IInv, [Next]_vars PROVE IInv'
  OBVIOUS
<1>1. CASE UNCHANGED vars
  <2>1. /\ ready' = ready /\ block_size' = block_size /\ free_count' = free_count
        /\ first_free' = first_free /\ page' = page /\ owned' = owned
    BY <1>1 DEF vars, slab
  <2>2. \A fl : Threads(fl)' <=> Threads(fl)
    BY <2>1 DEF Threads, FreeBlocks, BlockStarts, Blocks
  <2>3. WritesStayInFreeBlocks' /\ BlockStarts' = BlockStarts
    BY <2>1 DEF IInv, WritesStayInFreeBlocks, BlockStarts, Blocks
  <2>. QED BY <2>1, <2>2, <2>3 DEF IInv
<1>2. CASE alloc_slab_none
  BY <1>1, <1>2 DEF alloc_slab_none
<1>3. CASE \E size \in BlockSizes : init_slab(size)
  BY <1>3, InitSlabKeeps, InitSlabFails
<1>4. CASE \E a \in DOMAIN owned : free_slab(a) \/ \E d \in Data : ClientWrite(a, d)
  BY <1>4, FreeKeeps, ClientKeeps
<1>. QED BY <1>1, <1>2, <1>3, <1>4, AllocKeeps, DeleteKeeps DEF Next

(* IInv holds in every reachable state: a list of all free blocks leads    *)
(* from first_free through the links that init_slab, alloc_slab and        *)
(* free_slab leave in the page.                                            *)
THEOREM Invariance == Spec => []IInv
BY InitKeeps, InductiveStep, PTL DEF Spec

(* init_slab, alloc_slab and free_slab write no byte of a held block, and  *)
(* behind the page exactly the bytes of the closing link for which the     *)
(* blocks leave no room.                                                   *)
THEOREM WritesStayInFreeBlocksCorrect == Spec => []WritesStayInFreeBlocks
<1>1. IInv => WritesStayInFreeBlocks
  BY DEF IInv
<1>. QED BY <1>1, Invariance, PTL

-----------------------------------------------------------------------------
(* The free list as FreeBlock reads it. *)

(* The equation that defines FreeBlock, for the first k blocks. *)
Follows(f, k) == f = [n \in 1 .. k |-> IF n = 1 THEN first_free ELSE LoadPtr(page, f[n - 1])]

LEMMA FollowsOn == \A k \in Nat : \E f : Follows(f, k)
<1> DEFINE S == {k \in Nat : \E f : Follows(f, k)}
<1>1. 0 \in S
  <2>1. Follows([n \in 1 .. 0 |-> NULL], 0)
    BY DEF Follows
  <2>. QED BY <2>1
<1>2. ASSUME NEW k \in Nat, k \in S PROVE k + 1 \in S
  <2>1. PICK f : Follows(f, k)
    BY <1>2
  <2> DEFINE step == IF k + 1 = 1 THEN first_free ELSE LoadPtr(page, f[k])
             g == [n \in 1 .. k + 1 |-> IF n = k + 1 THEN step ELSE f[n]]
             h == [n \in 1 .. k + 1 |-> IF n = 1 THEN first_free ELSE LoadPtr(page, g[n - 1])]
  <2>2. ASSUME NEW n \in 1 .. k + 1 PROVE g[n] = h[n]
    <3>1. CASE n = k + 1
      <4>1. g[n] = step /\ (n # 1 => g[n - 1] = f[k])
        BY <3>1
      <4>. QED BY <3>1, <4>1
    <3>2. CASE n \in 1 .. k
      <4>1. g[n] = f[n] /\ (n # 1 => g[n - 1] = f[n - 1])
        BY <3>2
      <4>2. f[n] = IF n = 1 THEN first_free ELSE LoadPtr(page, f[n - 1])
        BY <2>1, <3>2 DEF Follows
      <4>. QED BY <4>1, <4>2
    <3>. QED BY <3>1, <3>2
  <2>3. g = h
    BY <2>2
  <2>4. Follows(g, k + 1)
    BY <2>3 DEF Follows
  <2>. HIDE DEF g
  <2>. QED BY <2>4
<1>3. \A k \in Nat : k \in S
  <2>. HIDE DEF S
  <2>. QED BY <1>1, <1>2, Inductive
<1>. QED BY <1>3

LEMMA FreeBlockFollows ==
    \A n \in 1 .. PageSize : FreeBlock[n] = IF n = 1 THEN first_free ELSE LoadPtr(page, FreeBlock[n - 1])
<1>1. \E f : Follows(f, PageSize)
  BY Sizes, FollowsOn, Zenon
<1>2. FreeBlock = CHOOSE f : Follows(f, PageSize)
  BY Zenon DEF FreeBlock, Follows
<1>3. Follows(FreeBlock, PageSize)
  BY <1>1, <1>2, Zenon
<1>. HIDE DEF FreeBlock
<1>. QED BY <1>3 DEF Follows

(* No list of free blocks is longer than the number of blocks. *)
LEMMA ListFits ==
    ASSUME IInv, ready, NEW fl, Threads(fl) PROVE free_count \in 0 .. Blocks(block_size)
<1> DEFINE b == Blocks(block_size)
<1>1. b \in Nat /\ free_count \in Nat
  BY Sizes, Layout DEF IInv
<1>2. \A i \in 1 .. free_count : \E j \in 0 .. b - 1 : fl[i] = j * block_size
  BY DEF Threads, FreeBlocks, BlockStarts
<1>. HIDE DEF b
<1> DEFINE g == [i \in 1 .. free_count |-> CHOOSE j \in 0 .. b - 1 : fl[i] = j * block_size]
<1>3. \A i \in 1 .. free_count : g[i] \in 0 .. b - 1 /\ fl[i] = g[i] * block_size
  BY <1>2
<1>4. g \in [1 .. free_count -> 0 .. b - 1]
  BY <1>3
<1>. HIDE DEF g
<1>5. \A i, j \in 1 .. free_count : g[i] = g[j] => i = j
  BY <1>3 DEF Threads
<1>6. /\ IsFiniteSet(1 .. free_count) /\ Cardinality(1 .. free_count) = free_count
      /\ IsFiniteSet(0 .. b - 1) /\ Cardinality(0 .. b - 1) = b
  BY <1>1, FS_Interval
<1>7. ASSUME b < free_count PROVE FALSE
  <2>1. Cardinality(0 .. b - 1) < Cardinality(1 .. free_count)
    BY <1>6, <1>7
  <2>2. \E i, j \in 1 .. free_count : i # j /\ g[i] = g[j]
    BY <1>4, <1>6, <2>1, FS_PigeonHole, Zenon
  <2>. QED BY <1>5, <2>2
<1>. QED BY <1>1, <1>7 DEF b

LEMMA ListIsRead ==
    ASSUME IInv, ready, NEW fl, Threads(fl) PROVE \A n \in 1 .. free_count : FreeBlock[n] = fl[n]
<1>1. free_count \in Nat /\ free_count <= PageSize /\ PageSize \in Nat
  BY Sizes, ListFits, Layout DEF IInv
<1> DEFINE S == {n \in Nat : n \in 1 .. free_count => FreeBlock[n] = fl[n]}
<1>2. 0 \in S
  OBVIOUS
<1>3. ASSUME NEW n \in Nat, n \in S PROVE n + 1 \in S
  <2>1. SUFFICES ASSUME n + 1 <= free_count PROVE FreeBlock[n + 1] = fl[n + 1]
    BY <1>1
  <2>2. n + 1 \in 1 .. PageSize /\ (n + 1) - 1 = n
    BY <1>1, <2>1
  <2>3. FreeBlock[n + 1] = IF n + 1 = 1 THEN first_free ELSE LoadPtr(page, FreeBlock[n])
    BY <2>2, FreeBlockFollows
  <2>4. CASE n = 0
    BY <1>1, <2>1, <2>3, <2>4 DEF Threads
  <2>5. CASE n # 0
    <3>1. n \in 1 .. free_count /\ FreeBlock[n] = fl[n]
      BY <1>1, <1>3, <2>1, <2>5
    <3>2. LoadPtr(page, fl[n]) = fl[n + 1]
      BY <2>1, <3>1 DEF Threads
    <3>. QED BY <2>3, <2>5, <3>1, <3>2
  <2>. QED BY <2>4, <2>5
<1>4. \A n \in Nat : n \in S
  <2>. HIDE DEF S
  <2>. QED BY <1>2, <1>3, Inductive
<1>. QED BY <1>1, <1>4

(* The first free_count blocks of the list that starts at first_free are   *)
(* exactly the blocks no client holds, each once, after any sequence of    *)
(* alloc_slab and free_slab.                                               *)
THEOREM FreeListIsExactCorrect == Spec => []FreeListIsExact
<1>1. ASSUME IInv, ready PROVE FreeListIsExact
  <2>1. PICK fl : Threads(fl)
    BY <1>1 DEF IInv
  <2>2. free_count \in 0 .. Blocks(block_size) /\ \A n \in 1 .. free_count : FreeBlock[n] = fl[n]
    BY <1>1, <2>1, ListFits, ListIsRead
  <2>3. {FreeBlock[n] : n \in 1 .. free_count} = BlockStarts \ DOMAIN owned
    BY <2>1, <2>2 DEF Threads, FreeBlocks
  <2>4. \A m, n \in 1 .. free_count : FreeBlock[m] = FreeBlock[n] => m = n
    BY <2>1, <2>2 DEF Threads
  <2>. QED BY <1>1, <2>2, <2>3, <2>4 DEF IInv, FreeListIsExact
<1>2. IInv => FreeListIsExact
  BY <1>1 DEF FreeListIsExact
<1>. QED BY <1>2, Invariance, PTL
=============================================================================
