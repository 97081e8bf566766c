--------------------------- MODULE NvmeOpera_proof ---------------------------
(***************************************************************************)
(* Proofs about NvmeOpera, for any number of controllers and namespaces    *)
(* and any choice of what may fail.                                        *)
(***************************************************************************)
EXTENDS NvmeOpera, FiniteSetTheorems, TLAPS

Data == {"old", "zero", Text}

Types ==
    /\ TypeOK
    /\ active \in Seq(0 .. MaxNs) /\ Len(active) <= MaxCtrlr /\ cmb \in BOOLEAN
    /\ mem \in Data \union {"null"} /\ cmbMem \in [1 .. MaxCtrlr -> Data]
    /\ printed \in [Ns -> Data \union {"nothing", "null"}]
    /\ wrote \subseteq Ns

Operating == pc \in {"call", "poll", "free"}

\* Where an operation is: on a namespace of the controller being attached,
\* or on what the globals of kv_main.cpp stand for.
Placed ==
    /\ program = "nvme" /\ Operating =>
          ctrlr >= 1 /\ here \in Ns /\ here[1] = ctrlr /\ here[2] <= active[ctrlr]
    /\ program = "kv" /\ Operating =>
          gctrlr = ctrlr /\ ctrlr >= 1 /\ here = gns
    /\ pc \in {"poll", "free"} => here \in Ns

\* What a command has done once it is completed without error.
Outcome ==
    here \in failed \/ ((op = "write" => media[here] = Text)
                        /\ (op = "read" => mem = media[here]))

Commands ==
    /\ pc # "poll" => cmds = {}
    /\ pc = "poll" => finished = FALSE
    /\ \A c, d \in cmds : c = d
    /\ \A c \in cmds :
          /\ c \in [op : {op}, ns : {here}, status : {"none", "success", "error"}]
          /\ c.status = "none" /\ op = "write" => mem = Text
          /\ c.status # "none" => Outcome
    /\ pc = "free" => Outcome

QueuePairs ==
    /\ g_ctrlr \in Seq([ctrlr : Nat, qpair : BOOLEAN])
    /\ pc \in {"probe", "call"} => qpairs = Kept
    /\ pc \in {"poll", "free"} => qpairs = Kept + 1

\* A namespace is read once, after its write.
Order ==
    \A n \in Ns : printed[n] # "nothing" =>
        /\ program = "kv" => pc = "end"
        /\ program = "nvme" =>
              /\ n[1] <= ctrlr
              /\ Operating /\ n[1] = ctrlr =>
                    n[2] < here[2] \/ (n[2] = here[2] /\ op = "read")

Lists ==
    (program = "kv" /\ pc # "exit") =>
        /\ gctrlr = ctrlr /\ gctrlr = Len(g_ctrlr)
        /\ gctrlr # 0 => g_ctrlr[gctrlr].ctrlr = gctrlr
        /\ g_ns \in Seq([ns : Ns, ctrlr : Nat])
        /\ \A i, j \in DOMAIN g_ns : g_ns[i].ns = g_ns[j].ns => i = j
        /\ \A i \in DOMAIN g_ns : g_ns[i].ctrlr = g_ns[i].ns[1] /\ g_ns[i].ns[1] <= ctrlr
        /\ gns = IF gctrlr = 0 THEN Null ELSE FirstNs(gctrlr)
        /\ gns # Null => \E i \in DOMAIN g_ns : g_ns[i].ns = gns
        /\ pc = "crashed" => gctrlr = 0 \/ active[gctrlr] = 0

IInv ==
    Types /\ Placed /\ Commands /\ QueuePairs /\ Order /\ ReadsBackText /\ Lists
------------------------------------------------------------------------------
USE NvmeOperaAssumption

LEMMA NullIsNone == Null \notin Ns
BY DEF Null, Ns

LEMMA Pairs == ASSUME NEW n \in Ns
               PROVE  n = <<n[1], n[2]>> /\ n[1] \in 1 .. MaxCtrlr /\ n[2] \in 1 .. MaxNs
BY DEF Ns

\* The namespace the attach callback starts with, and the one that follows.
LEMMA FirstIsNs ==
    ASSUME Types, NEW c \in 1 .. Len(active)
    PROVE  /\ FirstNs(c) = Null <=> active[c] = 0
           /\ FirstNs(c) # Null =>
                FirstNs(c) \in Ns /\ FirstNs(c)[1] = c /\ FirstNs(c)[2] = 1 /\ 1 <= active[c]
<1>1. active[c] \in 0 .. MaxNs /\ c \in 1 .. MaxCtrlr
  BY DEF Types
<1>2. <<c, 1>> # Null
  BY DEF Null
<1> QED
  BY <1>1, <1>2 DEF FirstNs, Ns

LEMMA NextIsNs ==
    ASSUME Types, NEW n \in Ns, n[1] \in 1 .. Len(active)
    PROVE  NextNs(n) # Null =>
             /\ NextNs(n) \in Ns /\ NextNs(n)[1] = n[1]
             /\ NextNs(n)[2] = n[2] + 1 /\ n[2] + 1 <= active[n[1]]
<1>1. active[n[1]] \in 0 .. MaxNs /\ n[1] \in 1 .. MaxCtrlr /\ n[2] \in 1 .. MaxNs
  BY Pairs DEF Types
<1> QED
  BY <1>1 DEF NextNs, Ns

\* The entries that keep a queue pair, before and after one is appended.
LEMMA KeptCounts ==
    ASSUME QueuePairs
    PROVE  /\ Kept \in Nat
           /\ \A c \in Nat, got \in BOOLEAN :
                g_ctrlr' = Append(g_ctrlr, [ctrlr |-> c, qpair |-> got])
                  => Kept' = IF got THEN Kept + 1 ELSE Kept
<1> DEFINE K == {i \in DOMAIN g_ctrlr : g_ctrlr[i].qpair}
<1>1. DOMAIN g_ctrlr = 1 .. Len(g_ctrlr) /\ Len(g_ctrlr) \in Nat
  BY DEF QueuePairs
<1>2. IsFiniteSet(K) /\ Cardinality(K) \in Nat
  <2>1. IsFiniteSet(1 .. Len(g_ctrlr))
    BY <1>1, FS_Interval
  <2>2. K \subseteq 1 .. Len(g_ctrlr)
    BY <1>1
  <2>3. IsFiniteSet(K)
    BY <2>1, <2>2, FS_Subset
  <2> QED
    BY <2>3, FS_CardinalityType
<1>3. ASSUME NEW c \in Nat, NEW got \in BOOLEAN,
             g_ctrlr' = Append(g_ctrlr, [ctrlr |-> c, qpair |-> got])
      PROVE  Kept' = IF got THEN Kept + 1 ELSE Kept
  <2> DEFINE l == Len(g_ctrlr) + 1
  <2>1. /\ DOMAIN g_ctrlr' = 1 .. l
        /\ \A i \in 1 .. Len(g_ctrlr) : g_ctrlr'[i] = g_ctrlr[i]
        /\ g_ctrlr'[l] = [ctrlr |-> c, qpair |-> got]
    BY <1>3, <1>1 DEF QueuePairs
  <2>2. {i \in DOMAIN g_ctrlr' : g_ctrlr'[i].qpair} = IF got THEN K \union {l} ELSE K
    BY <2>1, <1>1
  <2>3. l \notin K
    BY <1>1
  <2>4. Cardinality(K \union {l}) = Cardinality(K) + 1
    BY <1>2, <2>3, FS_AddElement
  <2> QED
    BY <2>2, <2>4 DEF Kept
<1> QED
  BY <1>2, <1>3 DEF Kept

\* What depends on the lists stays while the lists do.
LEMMA SameLists ==
    ASSUME IInv, UNCHANGED <<fixed, lists, ctrlr>>,
           pc # "exit",
           pc' = "crashed" => program = "nvme" \/ gctrlr = 0 \/ active[gctrlr] = 0
    PROVE  Lists' /\ Kept' = Kept /\ g_ctrlr' \in Seq([ctrlr : Nat, qpair : BOOLEAN])
BY DEF IInv, Lists, QueuePairs, fixed, lists, FirstNs, Kept

LEMMA Initially == Init => IInv
<1> SUFFICES ASSUME Init PROVE IInv
  OBVIOUS
<1>1. active \in Seq(0 .. MaxNs) /\ Len(active) \in Nat /\ Len(active) <= MaxCtrlr
  <2>1. PICK k \in 0 .. MaxCtrlr : active \in [1 .. k -> 0 .. MaxNs]
    BY DEF Init
  <2> QED
    BY <2>1
<1>2. cmb \in BOOLEAN /\ cmbMem \in [1 .. MaxCtrlr -> Data]
  BY DEF Init, Data
<1>3. Types
  <2>1. media \in [Ns -> {"old", Text, "zero"}] /\ printed \in [Ns -> Data \union {"nothing", "null"}]
    BY DEF Init
  <2>2. program \in {"nvme", "kv"} /\ pc = "probe" /\ op = "write" /\ here = Null
    BY DEF Init
  <2>3. ctrlr = 0 /\ qpairs = 0 /\ finished = FALSE /\ mem = "zero" /\ wrote = {}
    BY DEF Init
  <2>4. TypeOK
    <3>1. finished \in BOOLEAN
      BY <2>3, Zenon
    <3>2. ctrlr \in 0 .. Len(active) /\ qpairs \in Nat
      BY <1>1, <2>3
    <3> QED
      BY <2>1, <2>2, <3>1, <3>2, Zenon DEF TypeOK
  <2> QED
    BY <1>1, <1>2, <2>1, <2>3, <2>4 DEF Types, Data
<1>4. Kept = 0
  <2>1. {i \in DOMAIN g_ctrlr : g_ctrlr[i].qpair} = {}
    BY DEF Init
  <2> QED
    BY <2>1, FS_EmptySet DEF Kept
<1>5. Placed /\ Commands /\ QueuePairs
  BY <1>4 DEF Init, Placed, Operating, Commands, QueuePairs
<1>6. Order /\ ReadsBackText
  BY DEF Init, Order, ReadsBackText
<1>7. Lists
  BY DEF Init, Lists
<1> QED
  BY <1>3, <1>5, <1>6, <1>7 DEF IInv
------------------------------------------------------------------------------
(* The steps.                                                              *)

LEMMA Step_AttachNvme == IInv /\ AttachNvme => IInv'
<1> SUFFICES ASSUME IInv, AttachNvme PROVE IInv'
  OBVIOUS
<1> USE DEF IInv
<1>1. /\ program = "nvme" /\ pc = "probe" /\ ctrlr' = ctrlr + 1
      /\ ctrlr + 1 \in 1 .. Len(active) /\ Len(active) \in Nat
      /\ here' = FirstNs(ctrlr + 1) /\ pc' \in {"probe", "call"} /\ op' = "write"
      /\ pc' = "call" <=> here' # Null
  BY DEF AttachNvme, Types, TypeOK
<1>2. UNCHANGED <<program, active, cmb, qpairs, cmds, finished, mem, cmbMem, media,
                  wrote, printed, failed, g_ctrlr, g_ns, gctrlr, gns>>
  BY DEF AttachNvme, fixed, lists, frame, device, history
<1>3. here' # Null => /\ here' \in Ns /\ here'[1] = ctrlr' /\ here'[2] = 1
                      /\ 1 <= active[ctrlr']
  BY <1>1, FirstIsNs
<1>4. Types'
  BY <1>1, <1>2, <1>3 DEF Types, TypeOK
<1>5. Placed'
  BY <1>1, <1>2, <1>3 DEF Placed, Operating
<1>6. Commands'
  BY <1>1, <1>2 DEF Commands
<1>7. QueuePairs'
  BY <1>1, <1>2 DEF QueuePairs, Kept
<1>8. Order'
  <2>1. \A n \in Ns : printed[n] # "nothing" => n[1] <= ctrlr
    BY <1>1 DEF Order
  <2>2. \A n \in Ns : n[1] \in Nat
    BY Pairs
  <2> QED
    BY <1>1, <1>2, <2>1, <2>2 DEF Order, Types, TypeOK
<1>9. ReadsBackText' /\ Lists'
  BY <1>1, <1>2 DEF ReadsBackText, Lists
<1> QED
  BY <1>4, <1>5, <1>6, <1>7, <1>8, <1>9

NsEntry == [ns : Ns, ctrlr : Nat]

\* g has a namespace once, under its controller, and none of c's or later.
Distinct(g) == \A i, j \in DOMAIN g : g[i].ns = g[j].ns => i = j
Before(g, c) == \A i \in DOMAIN g : g[i].ctrlr = g[i].ns[1] /\ g[i].ns[1] < c
UpTo(g, c) == \A i \in DOMAIN g : g[i].ctrlr = g[i].ns[1] /\ g[i].ns[1] <= c

\* h is g with k namespaces of c behind it.
Extension(h, g, c, k) ==
    /\ DOMAIN h = 1 .. (Len(g) + k)
    /\ \A i \in DOMAIN g : h[i] = g[i]
    /\ \A i \in 1 .. k : /\ h[Len(g) + i].ns = <<c, i>> /\ h[Len(g) + i].ctrlr = c
                          /\ h[Len(g) + i].ns[1] = c /\ h[Len(g) + i].ns[2] = i

LEMMA EntryTypes ==
    ASSUME NEW g \in Seq(NsEntry), NEW i \in DOMAIN g
    PROVE  g[i].ns \in Ns /\ g[i].ns[1] \in Nat
<1>1. g[i] \in NsEntry
  OBVIOUS
<1>2. g[i].ns \in Ns
  BY <1>1 DEF NsEntry
<1> QED
  BY <1>2, Pairs

LEMMA EntryFields ==
    ASSUME NEW c, NEW m, NEW r, r = [ns |-> <<c, m>>, ctrlr |-> c]
    PROVE  r.ns = <<c, m>> /\ r.ns[1] = c /\ r.ns[2] = m /\ r.ctrlr = c
<1>1. r.ns = <<c, m>> /\ r.ctrlr = c
  OBVIOUS
<1> QED
  BY <1>1

LEMMA Concatenation ==
    ASSUME NEW g \in Seq(NsEntry), NEW k \in Nat, NEW e \in [1 .. k -> NsEntry]
    PROVE  /\ g \o e \in Seq(NsEntry) /\ DOMAIN (g \o e) = 1 .. (Len(g) + k)
           /\ \A i \in DOMAIN g : (g \o e)[i] = g[i]
           /\ \A i \in 1 .. k : (g \o e)[Len(g) + i] = e[i]
<1>1. e \in Seq(NsEntry) /\ Len(e) = k
  OBVIOUS
<1> QED
  BY <1>1

\* A controller's namespaces are entered behind those of the controllers
\* before it.
LEMMA EnterNs ==
    ASSUME NEW g \in Seq(NsEntry), NEW c \in 1 .. MaxCtrlr, NEW k \in 0 .. MaxNs,
           Distinct(g), Before(g, c), NEW h, Extension(h, g, c, k)
    PROVE  Distinct(h) /\ UpTo(h, c) /\ (k >= 1 => \E i \in DOMAIN h : h[i].ns = <<c, 1>>)
<1> USE DEF Distinct, Before, UpTo, Extension
<1>1. Len(g) \in Nat /\ DOMAIN g = 1 .. Len(g) /\ k \in Nat /\ c \in Nat
  OBVIOUS
<1>2. \A i \in DOMAIN h : i \in DOMAIN g \/ \E m \in 1 .. k : i = Len(g) + m
  <2> TAKE i \in DOMAIN h
  <2>1. i \notin 1 .. Len(g) => i - Len(g) \in 1 .. k /\ i = Len(g) + (i - Len(g))
    BY <1>1
  <2> QED
    BY <1>1, <2>1
<1>3. \A i \in DOMAIN g : h[i].ctrlr = h[i].ns[1] /\ h[i].ns[1] < c /\ h[i].ns[1] \in Nat
  BY EntryTypes
<1>4. \A i \in DOMAIN h : h[i].ctrlr = h[i].ns[1] /\ h[i].ns[1] <= c
  <2> TAKE i \in DOMAIN h
  <2>1. CASE i \in DOMAIN g
    BY <1>1, <1>3, <2>1
  <2>2. ASSUME NEW m \in 1 .. k, i = Len(g) + m
        PROVE  h[i].ctrlr = h[i].ns[1] /\ h[i].ns[1] <= c
    <3>1. h[i].ns[1] = c /\ h[i].ctrlr = c
      BY <2>2, Zenon
    <3> QED
      BY <1>1, <3>1
  <2> QED
    BY <1>2, <2>1, <2>2
<1>5. ASSUME NEW i \in DOMAIN h, NEW j \in DOMAIN h, h[i].ns = h[j].ns
      PROVE  i = j
  <2>1. CASE i \in DOMAIN g /\ j \in DOMAIN g
    BY <1>5, <2>1
  <2>2. ASSUME NEW m \in 1 .. k, NEW o \in 1 .. k, i = Len(g) + m, j = Len(g) + o
        PROVE  i = j
    <3>1. h[i].ns[2] = m /\ h[j].ns[2] = o
      BY <2>2, Zenon
    <3> QED
      BY <1>5, <2>2, <3>1, Zenon
  <2>3. ASSUME NEW a \in DOMAIN g, NEW o \in 1 .. k PROVE h[a].ns # h[Len(g) + o].ns
    <3>1. h[Len(g) + o].ns[1] = c
      OBVIOUS
    <3>2. h[a].ns[1] # c
      BY <1>1, <1>3
    <3> QED
      BY <3>1, <3>2
  <2> QED
    <3>1. CASE i \in DOMAIN g /\ j \notin DOMAIN g
      <4>1. PICK o \in 1 .. k : j = Len(g) + o
        BY <1>2, <3>1
      <4> QED
        BY <1>5, <2>3, <3>1, <4>1, Zenon
    <3>2. CASE i \notin DOMAIN g /\ j \in DOMAIN g
      <4>1. PICK m \in 1 .. k : i = Len(g) + m
        BY <1>2, <3>2
      <4> QED
        BY <1>5, <2>3, <3>2, <4>1, Zenon
    <3>3. CASE i \notin DOMAIN g /\ j \notin DOMAIN g
      <4>1. PICK m \in 1 .. k : i = Len(g) + m
        BY <1>2, <3>3
      <4>2. PICK o \in 1 .. k : j = Len(g) + o
        BY <1>2, <3>3
      <4> QED
        BY <2>2, <4>1, <4>2, Zenon
    <3> QED
      BY <2>1, <3>1, <3>2, <3>3
<1>6. k >= 1 => \E i \in DOMAIN h : h[i].ns = <<c, 1>>
  <2> SUFFICES ASSUME k >= 1 PROVE h[Len(g) + 1].ns = <<c, 1>> /\ Len(g) + 1 \in DOMAIN h
    OBVIOUS
  <2>1. 1 \in 1 .. k /\ Len(g) + 1 \in 1 .. (Len(g) + k)
    BY <1>1
  <2> QED
    BY <2>1
<1> QED
  BY <1>4, <1>5, <1>6

\* The lists after a controller and all its namespaces have been entered.
LEMMA Entered ==
    ASSUME IInv, program = "kv", pc = "probe", ctrlr < Len(active),
           ctrlr' = ctrlr + 1, Globals(ctrlr + 1), UNCHANGED <<program, active, pc>>,
           NEW got \in BOOLEAN,
           g_ctrlr' = Append(g_ctrlr, [ctrlr |-> ctrlr + 1, qpair |-> got]),
           NEW e, g_ns' = g_ns \o e,
           e = [i \in 1 .. active[ctrlr + 1] |-> [ns |-> <<ctrlr + 1, i>>, ctrlr |-> ctrlr + 1]]
    PROVE  Lists'
<1>1. /\ ctrlr \in Nat /\ ctrlr + 1 \in 1 .. Len(active) /\ ctrlr + 1 \in 1 .. MaxCtrlr
      /\ active[ctrlr + 1] \in 0 .. MaxNs
  BY DEF IInv, Types, TypeOK
<1>2. /\ g_ns \in Seq(NsEntry)
      /\ \A i, j \in DOMAIN g_ns : g_ns[i].ns = g_ns[j].ns => i = j
      /\ \A i \in DOMAIN g_ns : g_ns[i].ctrlr = g_ns[i].ns[1] /\ g_ns[i].ns[1] <= ctrlr
  BY DEF IInv, Lists, NsEntry
<1>3. \A i \in DOMAIN g_ns : g_ns[i].ctrlr = g_ns[i].ns[1] /\ g_ns[i].ns[1] < ctrlr + 1
  BY <1>1, <1>2, EntryTypes
<1> DEFINE k == active[ctrlr + 1]
           c == ctrlr + 1
<1>a. e \in [1 .. k -> NsEntry] /\ k \in Nat
  BY <1>1 DEF Ns, NsEntry
<1>b. /\ g_ns' \in Seq(NsEntry) /\ DOMAIN g_ns' = 1 .. (Len(g_ns) + k)
      /\ \A i \in DOMAIN g_ns : g_ns'[i] = g_ns[i]
      /\ \A i \in 1 .. k : g_ns'[Len(g_ns) + i] = e[i]
  <2> HIDE DEF k
  <2>1. g_ns \in Seq(NsEntry)
    BY <1>2
  <2>2. /\ g_ns \o e \in Seq(NsEntry) /\ DOMAIN (g_ns \o e) = 1 .. (Len(g_ns) + k)
        /\ \A i \in DOMAIN g_ns : (g_ns \o e)[i] = g_ns[i]
        /\ \A i \in 1 .. k : (g_ns \o e)[Len(g_ns) + i] = e[i]
    BY <1>a, <2>1, Concatenation, Zenon
  <2> QED
    BY <2>2, Zenon
<1>c. \A i \in 1 .. k : /\ g_ns'[Len(g_ns) + i].ns = <<c, i>>
                        /\ g_ns'[Len(g_ns) + i].ctrlr = c
                        /\ g_ns'[Len(g_ns) + i].ns[1] = c
                        /\ g_ns'[Len(g_ns) + i].ns[2] = i
  <2> TAKE i \in 1 .. k
  <2>1. e[i] = [ns |-> <<c, i>>, ctrlr |-> c]
    OBVIOUS
  <2>2. e[i].ns = <<c, i>> /\ e[i].ns[1] = c /\ e[i].ns[2] = i /\ e[i].ctrlr = c
    BY <2>1, EntryFields
  <2> QED
    BY <1>b, <2>2, Zenon
<1>4. /\ g_ns' \in Seq(NsEntry)
      /\ \A i, j \in DOMAIN g_ns' : g_ns'[i].ns = g_ns'[j].ns => i = j
      /\ \A i \in DOMAIN g_ns' : g_ns'[i].ctrlr = g_ns'[i].ns[1] /\ g_ns'[i].ns[1] <= c
      /\ k >= 1 => \E i \in DOMAIN g_ns' : g_ns'[i].ns = <<c, 1>>
  <2>1. c \in 1 .. MaxCtrlr /\ k \in 0 .. MaxNs
    BY <1>1
  <2>2. Distinct(g_ns) /\ Before(g_ns, c) /\ Extension(g_ns', g_ns, c, k)
    BY <1>2, <1>3, <1>b, <1>c DEF Distinct, Before, Extension
  <2> HIDE DEF c, k
  <2>3. Distinct(g_ns') /\ UpTo(g_ns', c) /\ (k >= 1 => \E i \in DOMAIN g_ns' : g_ns'[i].ns = <<c, 1>>)
    <3>1. g_ns \in Seq(NsEntry)
      BY <1>2
    <3> QED
      BY <2>1, <2>2, <3>1, EnterNs
  <2> QED
    BY <1>b, <2>3 DEF Distinct, UpTo
<1>5. gns' = FirstNs(ctrlr + 1) /\ gctrlr' = ctrlr + 1
  BY DEF Globals
<1>6. gns' # Null => \E i \in DOMAIN g_ns' : g_ns'[i].ns = gns'
  <2>1. gns' # Null => active[ctrlr + 1] >= 1 /\ gns' = <<ctrlr + 1, 1>>
    BY <1>1, <1>5 DEF FirstNs
  <2> QED
    BY <1>4, <2>1, Zenon
<1>7. gctrlr' = Len(g_ctrlr') /\ g_ctrlr'[gctrlr'].ctrlr = gctrlr'
  <2>1. g_ctrlr \in Seq([ctrlr : Nat, qpair : BOOLEAN]) /\ Len(g_ctrlr) = ctrlr
    BY DEF IInv, Lists, QueuePairs
  <2> QED
    BY <1>1, <1>5, <2>1
<1>8. gns' = (IF gctrlr = 0 THEN Null ELSE FirstNs(gctrlr))'
  BY <1>1, <1>5 DEF FirstNs
<1> QED
  BY <1>4, <1>5, <1>6, <1>7, <1>8 DEF Lists, NsEntry

LEMMA Step_AttachKv == IInv /\ AttachKv => IInv'
<1> SUFFICES ASSUME IInv, AttachKv PROVE IInv'
  OBVIOUS
<1> DEFINE c == ctrlr + 1
           e(k) == [i \in 1 .. k |-> [ns |-> <<c, i>>, ctrlr |-> c]]
<1>1. /\ program = "kv" /\ pc = "probe" /\ ctrlr < Len(active) /\ ctrlr' = ctrlr + 1
      /\ Globals(ctrlr + 1) /\ pc' \in {"probe", "exit"}
  BY DEF AttachKv
<1>2. UNCHANGED <<program, active, cmb, here, op, cmds, finished, mem, cmbMem, media,
                  wrote, printed, failed>>
  BY DEF AttachKv, fixed, frame, device, history
<1>3. PICK got \in BOOLEAN :
        /\ qpairs' = IF got THEN qpairs + 1 ELSE qpairs
        /\ \/ pc' = "exit" /\ UNCHANGED g_ctrlr
           \/ /\ g_ctrlr' = Append(g_ctrlr, [ctrlr |-> c, qpair |-> got])
              /\ pc' = "exit" \/ (UNCHANGED pc /\ g_ns' = g_ns \o e(active[c]))
  BY DEF AttachKv
<1>4. ctrlr \in Nat /\ Len(active) \in Nat /\ ctrlr' \in 0 .. Len(active) /\ qpairs \in Nat
  BY <1>1 DEF IInv, Types, TypeOK
<1>5. Types'
  <2>1. qpairs' \in Nat
    BY <1>3, <1>4
  <2> QED
    BY <1>1, <1>2, <1>4, <2>1 DEF IInv, Types, TypeOK
<1>6. Placed' /\ Commands'
  BY <1>1, <1>2 DEF IInv, Placed, Operating, Commands
<1>7. QueuePairs'
  <2>1. g_ctrlr' \in Seq([ctrlr : Nat, qpair : BOOLEAN])
    <3> DEFINE E == [ctrlr : Nat, qpair : BOOLEAN]
    <3>1. g_ctrlr \in Seq(E) /\ [ctrlr |-> c, qpair |-> got] \in E
      BY <1>4 DEF IInv, QueuePairs
    <3>2. Append(g_ctrlr, [ctrlr |-> c, qpair |-> got]) \in Seq(E)
      <4> HIDE DEF E
      <4> QED
        BY <3>1
    <3> QED
      BY <1>3, <3>1, <3>2, Zenon
  <2>2. pc' # "exit" => Kept' = IF got THEN Kept + 1 ELSE Kept
    BY <1>3, <1>4, KeptCounts DEF IInv
  <2>3. qpairs = Kept
    BY <1>1 DEF IInv, QueuePairs
  <2> QED
    BY <1>1, <1>3, <2>1, <2>2, <2>3 DEF QueuePairs
<1>8. Order' /\ ReadsBackText'
  BY <1>1, <1>2 DEF IInv, Order, ReadsBackText
<1>9. Lists'
  <2>1. CASE pc' = "exit"
    BY <2>1 DEF Lists
  <2>2. CASE pc' # "exit"
    <3>1. /\ g_ctrlr' = Append(g_ctrlr, [ctrlr |-> ctrlr + 1, qpair |-> got])
          /\ g_ns' = g_ns \o e(active[ctrlr + 1]) /\ UNCHANGED <<program, active, pc>>
      BY <1>2, <1>3, <2>2
    <3> QED
      BY <1>1, <3>1, Entered
  <2> QED
    BY <2>1, <2>2
<1> QED
  BY <1>5, <1>6, <1>7, <1>8, <1>9 DEF IInv

LEMMA Step_Probed == IInv /\ Probed => IInv'
<1> SUFFICES ASSUME IInv, Probed PROVE IInv'
  OBVIOUS
<1>1. UNCHANGED <<program, active, cmb, g_ctrlr, g_ns, gctrlr, gns, ctrlr, op, qpairs, cmds,
                  finished, mem, cmbMem, media, wrote, printed, failed>>
  BY DEF Probed, fixed, lists, frame, device, history
<1>2. /\ pc = "probe" /\ program \in {"nvme", "kv"} /\ ctrlr = Len(active)
      /\ program = "kv" => here' = gns /\ pc' = IF gctrlr = 0 THEN "crashed" ELSE "call"
      /\ program = "nvme" => pc' = "end" /\ here' = here
  BY DEF Probed, IInv, Types, TypeOK
<1>3. program = "kv" => /\ gctrlr = ctrlr /\ gns = IF gctrlr = 0 THEN Null ELSE FirstNs(gctrlr)
  BY <1>2 DEF IInv, Lists
<1>4. here' \in Ns \union {Null}
  <2>1. here \in Ns \union {Null} /\ ctrlr \in 0 .. Len(active) /\ Len(active) \in Nat
    BY DEF IInv, Types, TypeOK
  <2>2. gctrlr # 0 /\ gctrlr = ctrlr => FirstNs(gctrlr) \in Ns \union {Null}
    BY <2>1, FirstIsNs DEF IInv
  <2> QED
    BY <1>2, <1>3, <2>1, <2>2
<1>5. Types'
  BY <1>1, <1>2, <1>4 DEF IInv, Types, TypeOK
<1>6. Placed'
  <2>1. ctrlr \in Nat
    BY <1>2 DEF IInv, Types
  <2> QED
    BY <1>1, <1>2, <1>3, <2>1 DEF Placed, Operating
<1>7. Commands' /\ QueuePairs'
  BY <1>1, <1>2 DEF IInv, Commands, QueuePairs, Kept
<1>8. Order' /\ ReadsBackText'
  BY <1>1, <1>2 DEF IInv, Order, Operating, ReadsBackText
<1>9. Lists'
  BY <1>1, <1>2, SameLists DEF fixed, lists
<1> QED
  BY <1>5, <1>6, <1>7, <1>8, <1>9 DEF IInv

\* Where the program is after an operation that has freed its queue pair.
LEMMA Proceeds ==
    ASSUME IInv, Operating, Proceed, UNCHANGED <<program, active, ctrlr, gctrlr, gns>>
    PROVE  /\ pc' \in {"probe", "call", "end"} /\ op' \in {"write", "read"}
           /\ here' \in Ns \union {Null}
           /\ Placed'
           /\ program = "nvme" /\ pc' = "call" /\ op = "write" => here' = here /\ op' = "read"
           /\ program = "nvme" /\ pc' = "call" /\ op = "read" =>
                here[2] \in Nat /\ here'[2] = here[2] + 1
           /\ program = "kv" /\ op = "read" => pc' = "end"
<1>1. here \in Ns \union {Null} /\ op \in {"write", "read"} /\ program \in {"nvme", "kv"}
      /\ Len(active) \in Nat /\ ctrlr \in 0 .. Len(active)
  BY DEF IInv, Types, TypeOK
<1>2. CASE op = "write"
  <2>1. pc' = "call" /\ op' = "read" /\ here' = here
    BY <1>2 DEF Proceed
  <2> QED
    BY <1>1, <1>2, <2>1 DEF IInv, Placed, Operating
<1>3. CASE op = "read" /\ program = "kv"
  <2>1. pc' = "end" /\ op' = op /\ here' = here
    BY <1>3 DEF Proceed
  <2> QED
    BY <1>1, <1>3, <2>1 DEF Placed, Operating
<1>4. CASE op = "read" /\ program = "nvme"
  <2>1. /\ op' = "write" /\ here' = NextNs(here)
        /\ pc' = IF here' = Null THEN "probe" ELSE "call"
    BY <1>4 DEF Proceed
  <2>2. here \in Ns /\ here[1] = ctrlr /\ ctrlr >= 1
    BY <1>4 DEF IInv, Placed
  <2>3. here' # Null => /\ here' \in Ns /\ here'[1] = ctrlr
                        /\ here'[2] = here[2] + 1 /\ here'[2] <= active[ctrlr]
    BY <1>1, <2>1, <2>2, NextIsNs DEF IInv
  <2>4. here[2] \in Nat
    BY <2>2, Pairs
  <2> QED
    BY <1>1, <1>4, <2>1, <2>2, <2>3, <2>4 DEF Placed, Operating
<1> QED
  BY <1>1, <1>2, <1>3, <1>4

\* Going on keeps what has been read before the namespace at hand.
LEMMA ProceedsInOrder ==
    ASSUME IInv, Operating, Proceed, UNCHANGED <<program, active, ctrlr, gctrlr, gns>>,
           printed' = printed \/ (op = "read" /\ printed' = [printed EXCEPT ![here] = mem] /\ here \in Ns)
    PROVE  Order'
<1> SUFFICES ASSUME NEW n \in Ns, printed'[n] # "nothing"
             PROVE  /\ program = "kv" => pc' = "end"
                    /\ program = "nvme" =>
                          /\ n[1] <= ctrlr
                          /\ Operating' /\ n[1] = ctrlr =>
                                n[2] < here'[2] \/ (n[2] = here'[2] /\ op' = "read")
  BY DEF Order
<1>1. program \in {"nvme", "kv"} /\ op \in {"write", "read"} /\ pc # "end" /\ ctrlr \in Nat
  BY DEF IInv, Types, TypeOK, Operating
<1>2. printed[n] # "nothing" \/ (op = "read" /\ n = here)
  BY DEF IInv, Types
<1>3. program = "kv" => op = "read" /\ pc' = "end"
  BY <1>1, <1>2, Proceeds DEF IInv, Order
<1>4. ASSUME program = "nvme"
      PROVE  /\ n[1] <= ctrlr
             /\ Operating' /\ n[1] = ctrlr =>
                   n[2] < here'[2] \/ (n[2] = here'[2] /\ op' = "read")
  <2>1. here \in Ns /\ here[1] = ctrlr
    BY <1>4 DEF IInv, Placed
  <2>2. n[1] \in Nat /\ n[2] \in Nat /\ here[2] \in Nat
    BY <2>1, Pairs
  <2>3. n[1] <= ctrlr /\ (n[1] = ctrlr => n[2] < here[2] \/ (n[2] = here[2] /\ op = "read"))
    <3>1. CASE printed[n] # "nothing"
      BY <1>4, <3>1 DEF IInv, Order
    <3>2. CASE op = "read" /\ n = here
      BY <1>1, <2>1, <2>2, <3>2
    <3> QED
      BY <1>2, <3>1, <3>2
  <2>4. Operating' => pc' = "call"
    BY Proceeds DEF Operating
  <2>5. CASE op = "write"
    BY <1>4, <2>2, <2>3, <2>4, <2>5, Proceeds
  <2>6. CASE op = "read"
    BY <1>4, <2>2, <2>3, <2>4, <2>6, Proceeds
  <2> QED
    BY <1>1, <2>5, <2>6
<1> QED
  BY <1>3, <1>4

LEMMA Step_Refuse == IInv /\ Refuse => IInv'
<1> SUFFICES ASSUME IInv, Refuse PROVE IInv'
  OBVIOUS
<1>1. UNCHANGED <<program, active, cmb, g_ctrlr, g_ns, gctrlr, gns, ctrlr, qpairs, cmds,
                  finished, mem, cmbMem, media, wrote, printed, failed>>
  BY DEF Refuse, fixed, lists, frame, device, history
<1>2. pc = "call" /\ Operating
  BY DEF Refuse, Operating
<1>3. CASE program = "kv" /\ op = "write"
  <2>1. pc' = "end" /\ UNCHANGED <<op, here>>
    BY <1>3 DEF Refuse
  <2>2. Types'
    BY <1>1, <2>1 DEF IInv, Types, TypeOK
  <2>3. Placed' /\ Commands' /\ QueuePairs'
    BY <1>1, <1>2, <2>1 DEF IInv, Placed, Operating, Commands, QueuePairs, Kept
  <2>4. Order' /\ ReadsBackText'
    BY <1>1, <1>2, <1>3, <2>1 DEF IInv, Order, ReadsBackText
  <2>5. Lists'
    BY <1>1, <1>2, <2>1, SameLists DEF fixed, lists
  <2> QED
    BY <2>2, <2>3, <2>4, <2>5 DEF IInv
<1>4. CASE Proceed
  <2>1. /\ pc' \in {"probe", "call", "end"} /\ op' \in {"write", "read"}
        /\ here' \in Ns \union {Null} /\ Placed'
    BY <1>1, <1>2, <1>4, Proceeds
  <2>2. Types'
    BY <1>1, <2>1 DEF IInv, Types, TypeOK
  <2>3. Commands' /\ QueuePairs'
    BY <1>1, <1>2, <2>1 DEF IInv, Commands, QueuePairs, Kept
  <2>4. Order'
    BY <1>1, <1>2, <1>4, ProceedsInOrder
  <2>5. Lists' /\ ReadsBackText'
    BY <1>1, <1>2, <2>1, SameLists DEF fixed, lists, IInv, ReadsBackText
  <2> QED
    BY <2>1, <2>2, <2>3, <2>4, <2>5 DEF IInv
<1> QED
  BY <1>3, <1>4 DEF Refuse

LEMMA Step_NoBuffer == IInv /\ NoBuffer => IInv'
<1> SUFFICES ASSUME IInv, NoBuffer PROVE IInv'
  OBVIOUS
<1>1. UNCHANGED <<program, active, cmb, g_ctrlr, g_ns, gctrlr, gns, ctrlr, here, op,
                  cmbMem, media, wrote, printed>>
  BY DEF NoBuffer, fixed, lists, place, device
<1>2. pc = "call" /\ qpairs' = qpairs + 1 /\ cmds = {}
  BY DEF NoBuffer, IInv, Commands
<1>3. CASE /\ pc' = CASE op = "read" -> "exit"
                      [] op = "write" /\ program = "kv" -> "end"
                      [] op = "write" /\ program = "nvme" -> "crashed"
           /\ UNCHANGED <<cmds, frame, failed>>
  <2>1. /\ pc' \in {"end", "exit", "crashed"} /\ (pc' = "crashed" => program = "nvme")
        /\ UNCHANGED <<cmds, finished, mem, failed>>
    BY <1>3 DEF IInv, Types, TypeOK, frame
  <2>2. Types'
    BY <1>1, <1>2, <2>1 DEF IInv, Types, TypeOK
  <2>3. Placed' /\ Commands' /\ QueuePairs'
    BY <1>1, <1>2, <2>1 DEF IInv, Placed, Operating, Commands, QueuePairs, Kept
  <2>4. Order' /\ ReadsBackText'
    BY <1>1, <1>2, <2>1 DEF IInv, Order, Operating, ReadsBackText
  <2>5. Lists'
    BY <1>1, <1>2, <2>1, SameLists DEF fixed, lists
  <2> QED
    BY <2>2, <2>3, <2>4, <2>5 DEF IInv
<1>4. CASE /\ op = "read" /\ here # Null /\ pc' = "poll"
           /\ mem' = "null" /\ finished' = FALSE
           /\ cmds' = cmds \union {[op |-> op, ns |-> here, status |-> "error"]}
           /\ failed' = failed \union {here}
  <2>1. Types'
    <3>1. finished' \in BOOLEAN
      BY <1>4, Zenon
    <3>2. TypeOK'
      BY <1>1, <1>2, <1>4, <3>1 DEF IInv, Types, TypeOK
    <3> QED
      BY <1>1, <1>4, <3>2 DEF IInv, Types
  <2>2. Placed'
    BY <1>1, <1>2, <1>4 DEF IInv, Placed, Operating, Types, TypeOK
  <2>3. Commands'
    <3>1. cmds' = {[op |-> op, ns |-> here, status |-> "error"]}
      BY <1>2, <1>4
    <3>2. \A c \in cmds' : c \in [op : {op}, ns : {here}, status : {"none", "success", "error"}]
                           /\ c.status = "error"
      BY <3>1
    <3>3. \A c, d \in cmds' : c = d
      BY <3>1
    <3>4. Outcome'
      BY <1>1, <1>4 DEF Outcome
    <3> QED
      BY <1>1, <1>4, <3>2, <3>3, <3>4 DEF Commands
  <2>4. QueuePairs'
    BY <1>1, <1>2, <1>4 DEF IInv, QueuePairs, Kept
  <2>5. Order' /\ ReadsBackText'
    BY <1>1, <1>2, <1>4 DEF IInv, Order, Operating, ReadsBackText
  <2>6. Lists'
    BY <1>1, <1>2, <1>4, SameLists DEF fixed, lists
  <2> QED
    BY <2>1, <2>2, <2>3, <2>4, <2>5, <2>6 DEF IInv
<1> QED
  BY <1>3, <1>4 DEF NoBuffer

LEMMA Step_Submit == IInv /\ Submit => IInv'
<1> SUFFICES ASSUME IInv, Submit PROVE IInv'
  OBVIOUS
<1>1. UNCHANGED <<program, active, cmb, g_ctrlr, g_ns, gctrlr, gns, ctrlr, here, op,
                  media, wrote, printed, failed>>
  BY DEF Submit, fixed, lists, place, history
<1>2. /\ pc = "call" /\ Operating /\ qpairs' = qpairs + 1 /\ mem' = Buffer /\ finished' = FALSE
      /\ cmbMem' = IF cmb THEN [cmbMem EXCEPT ![Ctrlr] = Buffer] ELSE cmbMem
      /\ \/ here = Null /\ pc' = "crashed" /\ cmds' = cmds
         \/ /\ here # Null /\ pc' = "poll"
            /\ cmds' = cmds \union {[op |-> op, ns |-> here, status |-> "none"]}
         \/ here # Null /\ pc' = "exit" /\ cmds' = cmds
  BY DEF Submit, Operating
<1>3. here \in Ns \union {Null} /\ op \in {"write", "read"} /\ program \in {"nvme", "kv"}
      /\ cmds = {}
  BY <1>2 DEF IInv, Types, TypeOK, Commands
<1>4. Buffer \in Data /\ (op = "write" => Buffer = Text)
  <2>1. Ctrlr \in 1 .. MaxCtrlr
    BY <1>2, <1>3 DEF IInv, Placed, Types, TypeOK, Ctrlr
  <2>2. cmbMem[Ctrlr] \in Data
    BY <2>1 DEF IInv, Types
  <2> QED
    BY <1>3, <2>2 DEF Buffer, Data
<1>5. Types'
  <2>1. cmbMem' \in [1 .. MaxCtrlr -> Data]
    BY <1>2, <1>4 DEF IInv, Types
  <2>2. qpairs' \in Nat
    BY <1>2 DEF IInv, Types, TypeOK
  <2>3. finished' \in BOOLEAN
    BY <1>2, Zenon
  <2>4. TypeOK'
    BY <1>1, <1>2, <2>2, <2>3 DEF IInv, Types, TypeOK
  <2> QED
    BY <1>1, <1>2, <1>4, <2>1, <2>4 DEF IInv, Types
<1>6. Placed'
  BY <1>1, <1>2, <1>3 DEF IInv, Placed, Operating
<1>7. Commands'
  <2>1. CASE pc' = "poll"
    <3>1. cmds' = {[op |-> op, ns |-> here, status |-> "none"]}
      BY <1>2, <1>3, <2>1
    <3>2. \A c \in cmds' : c \in [op : {op}, ns : {here}, status : {"none", "success", "error"}]
                           /\ c.status = "none"
      BY <3>1
    <3>4. \A c, d \in cmds' : c = d
      BY <3>1
    <3>3. op = "write" => mem' = Text
      BY <1>2, <1>4
    <3> QED
      BY <1>1, <1>2, <2>1, <3>2, <3>3, <3>4 DEF Commands
  <2>2. CASE pc' # "poll"
    BY <1>2, <1>3, <2>2 DEF Commands
  <2> QED
    BY <2>1, <2>2
<1>8. QueuePairs'
  BY <1>1, <1>2 DEF IInv, QueuePairs, Kept
<1>9. Order' /\ ReadsBackText'
  BY <1>1, <1>2 DEF IInv, Order, Operating, ReadsBackText
<1>10. Lists'
  <2>1. pc' = "crashed" /\ program = "kv" => gctrlr = 0 \/ active[gctrlr] = 0
    <3> SUFFICES ASSUME pc' = "crashed", program = "kv", gctrlr # 0 PROVE active[gctrlr] = 0
      OBVIOUS
    <3>1. here = Null /\ here = gns /\ gctrlr = ctrlr /\ gns = FirstNs(gctrlr)
      BY <1>2 DEF IInv, Placed, Lists
    <3>2. gctrlr \in 1 .. Len(active)
      BY <3>1 DEF IInv, Types, TypeOK
    <3> QED
      BY <3>1, <3>2, FirstIsNs DEF IInv
  <2> QED
    BY <1>1, <1>2, <1>3, <2>1, SameLists DEF fixed, lists
<1> QED
  BY <1>5, <1>6, <1>7, <1>8, <1>9, <1>10 DEF IInv

LEMMA Step_Execute == ASSUME IInv, NEW c \in cmds, Execute(c) PROVE IInv'
<1>1. UNCHANGED <<program, active, cmb, g_ctrlr, g_ns, gctrlr, gns, ctrlr, here, op, pc, qpairs,
                  finished, wrote, printed>>
  BY DEF Execute, fixed, lists, place
<1>2. /\ pc = "poll" /\ finished = FALSE /\ c.status = "none" /\ c.op = op /\ c.ns = here
      /\ c \in [op : {op}, ns : {here}, status : {"none", "success", "error"}]
      /\ op = "write" => mem = Text
      /\ \A d \in cmds : d \in [op : {op}, ns : {here}, status : {"none", "success", "error"}]
  BY DEF IInv, Commands, Execute
<1>3. here \in Ns /\ op \in {"write", "read"} /\ mem \in Data \union {"null"} /\ media \in [Ns -> Data]
      /\ cmbMem \in [1 .. MaxCtrlr -> Data] /\ wrote \subseteq Ns /\ Text \in Data
  BY <1>2 DEF IInv, Types, TypeOK, Data, Placed
<1>4. Placed' /\ QueuePairs' /\ Order'
  BY <1>1, <1>2 DEF IInv, Placed, Operating, QueuePairs, Kept, Order
<1>5. Lists'
  BY <1>1, <1>2, SameLists DEF fixed, lists
<1>6. CASE /\ cmds' = (cmds \ {c}) \union {[c EXCEPT !.status = "success"]}
           /\ media' = IF c.op = "write" THEN [media EXCEPT ![c.ns] = mem] ELSE media
           /\ mem' = IF c.op = "read" THEN media[c.ns] ELSE mem
           /\ cmbMem' = IF cmb THEN [cmbMem EXCEPT ![Ctrlr] = mem'] ELSE cmbMem
           /\ UNCHANGED failed
  <2>1. mem' \in Data /\ (op = "write" => mem' = Text) /\ (op = "read" => mem' = media[here])
    BY <1>2, <1>3, <1>6
  <2>2. media' \in [Ns -> Data] /\ (op = "write" => media'[here] = Text) /\ (op = "read" => media' = media)
        /\ \A n \in Ns : media'[n] = media[n] \/ media'[n] = Text
    BY <1>2, <1>3, <1>6
  <2>3. cmbMem' \in [1 .. MaxCtrlr -> Data]
    BY <1>3, <1>6, <2>1
  <2>4. Types'
    BY <1>1, <2>1, <2>2, <2>3 DEF IInv, Types, TypeOK, Data
  <2>5. Outcome'
    BY <1>1, <1>3, <2>1, <2>2 DEF Outcome
  <2>6. \A d \in cmds' : d \in [op : {op}, ns : {here}, status : {"none", "success", "error"}]
    BY <1>2, <1>6
  <2>7. Commands'
    <3>1. \A d, f \in cmds' : d = f
      BY <1>6 DEF IInv, Commands
    <3> QED
      BY <1>1, <1>2, <2>1, <2>5, <2>6, <3>1 DEF Commands
  <2>8. ReadsBackText'
    BY <1>1, <1>3, <1>6, <2>2 DEF IInv, ReadsBackText
  <2> QED
    BY <1>4, <1>5, <2>4, <2>7, <2>8 DEF IInv
<1>7. CASE /\ cmds' = (cmds \ {c}) \union {[c EXCEPT !.status = "error"]}
           /\ failed' = failed \union {c.ns}
           /\ UNCHANGED <<media, mem, cmbMem>>
  <2>1. Types'
    BY <1>1, <1>7 DEF IInv, Types, TypeOK
  <2>2. Outcome'
    BY <1>1, <1>2, <1>7 DEF Outcome
  <2>3. \A d \in cmds' : d \in [op : {op}, ns : {here}, status : {"none", "success", "error"}]
    BY <1>2, <1>7
  <2>4. Commands'
    <3>1. \A d, f \in cmds' : d = f
      BY <1>7 DEF IInv, Commands
    <3> QED
      BY <1>1, <1>2, <1>7, <2>2, <2>3, <3>1 DEF Commands
  <2>5. ReadsBackText'
    BY <1>1, <1>7 DEF IInv, ReadsBackText
  <2> QED
    BY <1>4, <1>5, <2>1, <2>4, <2>5 DEF IInv
<1> QED
  BY <1>6, <1>7 DEF Execute

LEMMA Step_ProcessCompletions == IInv /\ ProcessCompletions => IInv'
<1> SUFFICES ASSUME IInv, ProcessCompletions PROVE IInv'
  OBVIOUS
<1> DEFINE completed == {c \in cmds : c.status # "none"}
<1>1. UNCHANGED <<program, active, cmb, g_ctrlr, g_ns, gctrlr, gns, ctrlr, here, op, qpairs,
                  mem, cmbMem, media, wrote, printed, failed>>
  BY DEF ProcessCompletions, fixed, lists, place, device, history
<1>2. /\ pc = "poll" /\ cmds' = cmds \ completed
      /\ finished' = (finished \/ completed # {})
      /\ pc' = IF finished' THEN "free" ELSE "poll"
  BY DEF ProcessCompletions, LoopEnds
<1>3. finished = FALSE
  BY <1>2 DEF IInv, Commands
<1>4. finished' \in BOOLEAN /\ (finished' <=> completed # {})
  BY <1>2, <1>3, Zenon
<1>5. pc' = IF completed # {} THEN "free" ELSE "poll"
  BY <1>2, <1>4, Zenon
<1>6. \A c \in cmds' : c \in cmds /\ c.status = "none"
  BY <1>2
<1>7. completed # {} => Outcome
  BY DEF IInv, Commands
<1>8. Types'
  BY <1>1, <1>4, <1>5 DEF IInv, Types, TypeOK
<1>9. Placed' /\ QueuePairs' /\ Order'
  BY <1>1, <1>2, <1>5 DEF IInv, Placed, Operating, QueuePairs, Kept, Order
<1>10. Commands'
  <2>1. CASE completed # {}
    <3>1. cmds' = {}
      <4>1. PICK d \in cmds : d.status # "none"
        BY <2>1
      <4> QED
        BY <1>6, <4>1 DEF IInv, Commands
    <3>2. Outcome'
      BY <1>1, <1>7, <2>1 DEF Outcome
    <3> QED
      BY <1>5, <2>1, <3>1, <3>2 DEF Commands
  <2>2. CASE completed = {}
    <3>1. finished' = FALSE /\ pc' = "poll" /\ cmds' = cmds
      BY <1>2, <1>4, <1>5, <2>2, Zenon
    <3> QED
      BY <1>1, <1>2, <3>1 DEF IInv, Commands, Outcome
  <2> QED
    BY <2>1, <2>2
<1>11. ReadsBackText' /\ Lists'
  BY <1>1, <1>2, <1>5, SameLists DEF fixed, lists, IInv, ReadsBackText
<1> QED
  BY <1>8, <1>9, <1>10, <1>11 DEF IInv

LEMMA Step_Finish == IInv /\ Finish => IInv'
<1> SUFFICES ASSUME IInv, Finish PROVE IInv'
  OBVIOUS
<1>1. UNCHANGED <<program, active, cmb, g_ctrlr, g_ns, gctrlr, gns, ctrlr, cmds, finished, mem,
                  cmbMem, media, failed>>
  BY DEF Finish, fixed, lists, frame, device
<1>2. /\ pc = "free" /\ Operating /\ qpairs' = qpairs - 1 /\ Proceed
      /\ wrote' = IF op = "write" THEN wrote \union {here} ELSE wrote
      /\ printed' = IF op = "read" THEN [printed EXCEPT ![here] = mem] ELSE printed
  BY DEF Finish, Released, Operating
<1>3. here \in Ns /\ op \in {"write", "read"} /\ mem \in Data \union {"null"} /\ Outcome /\ cmds = {}
  BY <1>2 DEF IInv, Placed, Types, TypeOK, Commands
<1>4. /\ pc' \in {"probe", "call", "end"} /\ op' \in {"write", "read"}
      /\ here' \in Ns \union {Null} /\ Placed'
  BY <1>1, <1>2, Proceeds
<1>5. qpairs' = Kept /\ Kept \in Nat /\ Kept' = Kept
  <2>1. Kept \in Nat
    BY KeptCounts DEF IInv
  <2>2. qpairs = Kept + 1
    BY <1>2 DEF IInv, QueuePairs
  <2> QED
    BY <1>1, <1>2, <2>1, <2>2 DEF Kept
<1>6. Types'
  <2>1. printed' \in [Ns -> Data \union {"nothing", "null"}] /\ wrote' \subseteq Ns
    BY <1>2, <1>3 DEF IInv, Types
  <2> QED
    BY <1>1, <1>4, <1>5, <2>1 DEF IInv, Types, TypeOK
<1>7. Commands' /\ QueuePairs'
  BY <1>1, <1>3, <1>4, <1>5 DEF IInv, Commands, QueuePairs
<1>8. Order'
  BY <1>1, <1>2, <1>3, ProceedsInOrder
<1>9. Lists'
  BY <1>1, <1>2, <1>4, SameLists DEF fixed, lists
<1>10. ReadsBackText'
  <2> SUFFICES ASSUME NEW n \in wrote' \ failed
               PROVE  media[n] = Text /\ (printed'[n] # "nothing" => printed'[n] = Text)
    BY <1>1 DEF ReadsBackText
  <2>1. CASE op = "write" /\ n = here
    <3>1. media[n] = Text
      BY <1>3, <2>1 DEF Outcome
    <3>2. printed[n] = "nothing"
      <4>1. program = "kv" => printed[here] = "nothing"
        BY <1>2, <1>3 DEF IInv, Order
      <4>2. program = "nvme" => printed[here] = "nothing"
        <5>1. here[2] \in Nat /\ op # "read"
          BY <1>3, <2>1, Pairs
        <5>2. program = "nvme" => here[1] = ctrlr
          BY <1>2 DEF IInv, Placed
        <5> QED
          BY <1>2, <1>3, <5>1, <5>2 DEF IInv, Order
      <4> QED
        BY <2>1, <4>1, <4>2 DEF IInv, Types, TypeOK
    <3> QED
      BY <1>2, <2>1, <3>1, <3>2
  <2>2. CASE n \in wrote
    <3>1. media[n] = Text /\ (printed[n] # "nothing" => printed[n] = Text)
      BY <2>2 DEF IInv, ReadsBackText
    <3>2. op = "read" => mem = media[here] \/ here \in failed
      BY <1>3 DEF Outcome
    <3>3. printed \in [Ns -> Data \union {"nothing", "null"}]
      BY DEF IInv, Types
    <3> QED
      BY <1>2, <1>3, <3>1, <3>2, <3>3
  <2> QED
    BY <1>2, <2>1, <2>2
<1> QED
  BY <1>4, <1>6, <1>7, <1>8, <1>9, <1>10 DEF IInv

LEMMA Inductive == Spec => []IInv
<1>1. IInv /\ [Next]_vars => IInv'
  <2> SUFFICES ASSUME IInv, [Next]_vars PROVE IInv'
    OBVIOUS
  <2>1. CASE UNCHANGED vars
    <3>1. UNCHANGED <<program, active, cmb, g_ctrlr, g_ns, gctrlr, gns, ctrlr, here, op, pc, qpairs,
                      cmds, finished, mem, cmbMem, media, wrote, printed, failed>>
      BY <2>1 DEF vars, fixed, lists, place, frame, device, history
    <3>2. Types' /\ Placed' /\ Commands'
      BY <3>1 DEF IInv, Types, TypeOK, Placed, Operating, Commands, Outcome
    <3>3. QueuePairs' /\ Order' /\ ReadsBackText'
      BY <3>1 DEF IInv, QueuePairs, Kept, Order, Operating, ReadsBackText
    <3>4. Lists'
      BY <3>1 DEF IInv, Lists, FirstNs
    <3> QED
      BY <3>2, <3>3, <3>4 DEF IInv
  <2> QED
    BY <2>1, Step_AttachNvme, Step_AttachKv, Step_Probed, Step_Refuse, Step_NoBuffer,
       Step_Submit, Step_Execute, Step_ProcessCompletions, Step_Finish DEF Next
<1> QED
  BY <1>1, Initially, PTL DEF Spec

(* However many controllers and namespaces there are and whatever fails,   *)
(* no command outlives the operation that polls for it, so no callback     *)
(* writes to a flag or buffer of a frame that is gone, and each operation  *)
(* that returned has freed its queue pair.                                 *)
THEOREM OperationsCleanUp == Spec => []NothingOutlivesItsOperation
<1>1. IInv => NothingOutlivesItsOperation
  BY DEF IInv, Types, Commands, QueuePairs, NothingOutlivesItsOperation
<1> QED
  BY <1>1, Inductive, PTL

(* A write and a read that the controller completed without error agree:   *)
(* the read prints the text.                                               *)
THEOREM ReadsAreTrue == Spec => []ReadsBackText
<1>1. IInv => ReadsBackText
  BY DEF IInv
<1> QED
  BY <1>1, Inductive, PTL

(* The globals and the lists that nvme_attach_cb leaves agree, however     *)
(* many controllers it was called for.                                     *)
THEOREM GlobalsCorrect == Spec => []GlobalsMatchLists
<1>1. IInv => GlobalsMatchLists
  <2> SUFFICES ASSUME IInv, program = "kv", pc # "exit"
               PROVE  GlobalsMatchLists
    BY DEF GlobalsMatchLists
  <2>1. gns # Null => gns[1] = gctrlr
    <3>1. gns = IF gctrlr = 0 THEN Null ELSE FirstNs(gctrlr)
      BY DEF IInv, Lists
    <3> QED
      BY <3>1 DEF FirstNs
  <2> QED
    BY <2>1 DEF IInv, Lists, GlobalsMatchLists
<1> QED
  BY <1>1, Inductive, PTL
=============================================================================
