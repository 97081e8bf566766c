-------------------------------- MODULE Slab --------------------------------
(***************************************************************************)
(* The block allocator of KV_Store/simple_slab.c: one page cut into blocks *)
(* of equal size, the free ones linked through a pointer at their start.   *)
(*                                                                         *)
(* Sizes are in bytes and an address is an offset in the page.  A byte of  *)
(* memory is a pair <<v, k>>: the k-th byte of the value v, which is an    *)
(* address, NULL or what a client wrote.  Clients keep the contract the    *)
(* code relies on: they use a slab whose init_slab returned 0, free a      *)
(* block they hold, once, and write only to blocks they hold.              *)
(***************************************************************************)
EXTENDS Integers

CONSTANTS
    PageSize,       \* KV_PAGE_SIZE
    PtrSize,        \* sizeof(char*)
    BlockSizes,     \* the sizes clients call init_slab with
    Data            \* what clients write to a block

\* A block has room for its link.  Data is negative: no address.
ASSUME SlabAssumption ==
    /\ PageSize \in Nat /\ PtrSize \in Nat \ {0}
    /\ BlockSizes \subseteq {s \in Nat : PtrSize <= s}
    /\ Data \subseteq -9 .. -1

NULL == -10
Wild == -11         \* a pointer put together from bytes of several values

VARIABLES
    ready,          \* whether init_slab has returned 0
    block_size, free_count, first_free,
    page,           \* the bytes of the page, and any written behind it
    owned           \* history: the bytes of each block clients hold, as they
                    \* got them or wrote them last

slab == <<block_size, free_count, first_free>>
vars == <<ready, slab, page, owned>>

\* What malloc gives; nothing reads it before it is written.
Fresh == [b \in 0 .. PageSize - 1 |-> <<NULL, 0>>]

Init ==
    /\ ready = FALSE
    /\ block_size = 0 /\ free_count = 0 /\ first_free = NULL
    /\ page = Fresh
    /\ owned = <<>>

\* The bytes of a pointer at address a, storing one (behind the page it lands
\* in memory of someone else) and loading one.
Span(a) == a .. a + PtrSize - 1
StorePtr(m, a, p) ==
    [b \in DOMAIN m \cup Span(a) |-> IF b \in Span(a) THEN <<p, b - a>> ELSE m[b]]
LoadPtr(m, a) ==
    IF /\ Span(a) \subseteq DOMAIN m
       /\ \A b \in Span(a) : m[b] = <<m[a][1], b - a>>
    THEN m[a][1] ELSE Wild

Blocks(size) == PageSize \div size

\* Where the loop of init_slab leaves ptr: behind the last block.
Behind(size) == Blocks(size) * size

\* init_slab: every block links to the one behind it, and the pointer behind
\* the last block is set to NULL, whether or not the page has room for it.
Linked(size) ==
    [b \in DOMAIN page \cup Span(Behind(size)) |->
        LET k == b % size
        IN  IF k >= PtrSize THEN page[b]
            ELSE <<IF b - k = Behind(size) THEN NULL ELSE b - k + size, k>>]

init_slab(size) ==
    /\ ~ ready
    /\ block_size' = size
    /\ free_count' = Blocks(size)
    /\ \/ ready' = TRUE /\ first_free' = 0 /\ page' = Linked(size)
       \/ first_free' = NULL /\ UNCHANGED <<ready, page>>      \* no memory: -1
    /\ UNCHANGED owned

Exhausted == free_count = 0

\* The block is handed out as it is, with its link still in it.
alloc_slab ==
    /\ ready /\ ~ Exhausted
    /\ first_free' = LoadPtr(page, first_free)
    /\ free_count' = free_count - 1
    /\ owned' = [a \in DOMAIN owned \cup {first_free} |->
                    IF a = first_free THEN [k \in 0 .. block_size - 1 |-> page[a + k]]
                                      ELSE owned[a]]
    /\ UNCHANGED <<ready, block_size, page>>

\* alloc_slab returning NULL.
alloc_slab_none ==
    /\ ready /\ Exhausted
    /\ UNCHANGED vars

\* BUG: the list loses what was behind the freed block.
FreedLink_null(a) == NULL

FreedLink(a) == first_free

\* BUG: the link goes behind the block.
LinkAt_behind(a) == a + block_size

\* Where a free block keeps its link: at its start.
LinkAt(a) == a

free_slab(a) ==
    /\ ready /\ a \in DOMAIN owned
    /\ page' = StorePtr(page, LinkAt(a), FreedLink(a))
    /\ first_free' = a
    /\ free_count' = free_count + 1
    /\ owned' = [b \in DOMAIN owned \ {a} |-> owned[b]]
    /\ UNCHANGED <<ready, block_size>>

\* delete_slab gives the page back, with whatever clients still hold in it; a
\* later init_slab gets a new one.
delete_slab ==
    /\ ready
    /\ ready' = FALSE
    /\ page' = Fresh
    /\ owned' = <<>>
    /\ UNCHANGED slab

\* A client writes a block it holds.
ClientWrite(a, d) ==
    LET block == a .. a + block_size - 1
    IN  /\ a \in DOMAIN owned
        /\ page' = [b \in DOMAIN page |-> IF b \in block THEN <<d, b - a>> ELSE page[b]]
        /\ owned' = [owned EXCEPT ![a] = [k \in 0 .. block_size - 1 |-> <<d, k>>]]
        /\ UNCHANGED <<ready, slab>>

Next ==
    \/ \E size \in BlockSizes : init_slab(size)
    \/ alloc_slab \/ alloc_slab_none \/ delete_slab
    \/ \E a \in DOMAIN owned : free_slab(a) \/ \E d \in Data : ClientWrite(a, d)

Spec == Init /\ [][Next]_vars

------------------------------------------------------------------------------
(* Properties.                                                             *)

\* The n-th block of the free list.
FreeBlock[n \in 1 .. PageSize] ==
    IF n = 1 THEN first_free ELSE LoadPtr(page, FreeBlock[n - 1])

\* What the blocks leave of the page.
Left(size) == PageSize % size

BlockStarts == {i * block_size : i \in 0 .. Blocks(block_size) - 1}

\* After any sequence of alloc_slab and free_slab, the first free_count
\* blocks of the list that starts at first_free are exactly the blocks no
\* client holds, each once.  So alloc_slab never hands out a held block, never
\* follows the last block's link (which leads behind the blocks), and returns
\* NULL only when every block is held.
FreeListIsExact ==
    ready =>
        /\ free_count \in 0 .. Blocks(block_size)
        /\ DOMAIN owned \subseteq BlockStarts
        /\ {FreeBlock[n] : n \in 1 .. free_count} = BlockStarts \ DOMAIN owned
        /\ \A m, n \in 1 .. free_count : FreeBlock[m] = FreeBlock[n] => m = n

\* The allocator writes to free blocks of the malloc'ed page only: every byte
\* of a block a client holds is what the client last wrote, and nothing lies
\* outside the page, with one exception.  When the blocks leave fewer bytes of
\* the page than a pointer has, as blocks of 12 or of 16 bytes do (the latter
\* are those of the file's commented main, line 61), the closing link of
\* init_slab runs over its end by exactly the bytes that are missing (line
\* 33), and nothing writes there again.
WritesStayInFreeBlocks ==
    ready =>
        /\ \A a \in DOMAIN owned, k \in 0 .. block_size - 1 : page[a + k] = owned[a][k]
        /\ DOMAIN page = (0 .. PageSize - 1) \cup (PageSize .. PageSize + PtrSize - Left(block_size) - 1)
        /\ \A b \in DOMAIN page :
              b >= PageSize => page[b] = <<NULL, b - (PageSize - Left(block_size))>>
=============================================================================
