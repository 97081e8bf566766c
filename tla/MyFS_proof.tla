------------------------------ MODULE MyFS_proof ------------------------------
(***************************************************************************)
(* Proofs about MyFS, for every size of the descriptor table, every number *)
(* of calls and whatever fails: open files have descriptors and files of   *)
(* their own, a completed creat has its blob, no request outlives its call *)
(* before a poller() gave up on one, and the first setup is not reentered. *)
(***************************************************************************)
EXTENDS MyFS, TLAPS, WellFoundedInduction

FileOps == {"read", "write", "close", "release"}
CallOp == {"env", "alloc", "destroy", "creat", "open"} \union FileOps

(* The call in progress, the message it posted, and what is numbered by    *)
(* calls: requests, files and the entries of the descriptor table.         *)
Shape ==
    /\ call = Idle \/ call \in [op : CallOp, fd : FD \union {Null, -1}, obj : Object, n : 1 .. calls]
    /\ call.op \in {"creat", "open"} =>
          call.fd \in fd_table \union {-1} /\ call.obj \in File /\ call.obj = calls
    /\ call.op \in {"env", "alloc", "destroy"} => call.obj \notin File
    /\ call.op \in FileOps => call.fd \in FD /\ call.obj \in File /\ call.obj <= calls
    /\ call.op = "env" => calls <= MaxCalls
    /\ call.op = "alloc" => calls <= MaxCalls + 1
    /\ call = Idle => posted = NoMsg
    /\ posted \in {NoMsg, [op |-> call.op, obj |-> call.obj, n |-> call.n]}
    /\ \A r \in inflight : r.n \in 1 .. calls /\ (r.obj \in File => r.obj <= calls)
    /\ \A d \in FD : files[d] <= calls

(* Within a call that has not given up there is one thing at a time: the   *)
(* posted message, one request, or the done flag.                          *)
OneAtATime ==
    ~late =>
        /\ \A r \in inflight : r.n = call.n /\ r.obj = call.obj
        /\ inflight # {} \/ posted # NoMsg => ~done[call.obj]
        /\ posted # NoMsg => inflight = {}
        /\ \A r, q \in inflight : r = q

(* What FdsDistinct says, and that no open file has the fd or the file of  *)
(* the call that is about to hand it out or to give it back.               *)
TableOK ==
    ~misrouted =>
        /\ \A h \in Mine : h.fd \in fd_table /\ files[h.fd] = h.file
                          /\ h.file <= calls /\ h.file \in File
        /\ \A g, h \in Mine : g # h => g.fd # h.fd /\ g.file # h.file
        /\ call.op \in {"creat", "open"} => \A h \in Mine : h.fd # call.fd /\ h.file # call.obj
        /\ call.op \in {"close", "release"} => \A h \in Mine : h.fd # call.fd /\ h.file # call.obj

(* A file that is done has its blob, and nothing that closes it is on its  *)
(* way while a descriptor stands for it.                                   *)
BlobOK ==
    /\ call.op = "creat" =>
          /\ done[call.obj] => blob[call.obj] = "open"
          /\ \A r \in inflight : r.obj = call.obj =>
                /\ r.kind \in {"get_super", "create", "open", "resize"}
                /\ r.kind = "resize" => blob[r.obj] = "open"
    /\ call.op = "open" => \A r \in inflight : r.obj # call.obj
    /\ ~misrouted =>
          /\ \A h \in Mine : h.from = "creat" /\ h.ok => blob[h.file] = "open"
          /\ \A r \in inflight : r.kind = "close" => \A h \in Mine : h.file # r.obj

(* Whoever sets up with initilized already set follows a myfs_destory.     *)
SetupOK ==
    /\ initilized /\ fs = "none" => torn
    /\ initilized /\ call.op \in {"env", "alloc"} => torn
    /\ call.op \in {"env", "alloc"} => fs # "none"
    /\ process = "reentered" => torn

(* The inductive invariant. *)
IInv == TypeOK /\ Shape /\ OneAtATime /\ TableOK /\ BlobOK /\ SetupOK
-----------------------------------------------------------------------------
(* What a completion callback may do to its request r, its flag and blob.  *)
Completes(r) ==
    /\ \/ Stop(r)
       \/ Done(r)
       \/ r.kind = "get_super" /\ Continue(r, "create")
       \/ r.kind = "create" /\ Continue(r, "open")
       \/ r.kind = "open" /\ Continue(r, "resize") /\ blob' = [blob EXCEPT ![r.obj] = "open"]
       \/ r.kind = "close" /\ Continue(r, "delete")
    /\ \/ UNCHANGED blob
       \/ r.kind = "open" /\ blob' = [blob EXCEPT ![r.obj] = "open"]
       \/ r.kind = "close" /\ blob' = [blob EXCEPT ![r.obj] = "closed"]
    /\ r.kind \in {"get_super", "create", "open"} => UNCHANGED done
    /\ \/ UNCHANGED fs
       \/ r.kind = "bs_init" /\ fs' \in {"ready", "mute"}
    /\ UNCHANGED process \/ Crash

Unmoved == UNCHANGED <<initilized, status, call, calls, posted, late, torn, table>>

(* Every completion callback is of that form. *)
LEMMA CompletionForm ==
    ASSUME Complete
    PROVE  /\ call # Idle /\ posted = NoMsg /\ Running /\ Unmoved
           /\ \E r \in inflight : Completes(r)
<1>1. call # Idle /\ posted = NoMsg /\ Running /\ Unmoved
  BY DEF Complete, Unmoved
<1>2. PICK r \in inflight :
          \/ JsonDone(r) \/ BsInitDone(r) \/ GetSuperDone(r) \/ CreateDone(r)
          \/ OpenDone(r) \/ FileDone(r) \/ CloseDone(r) \/ BsDestroyDone(r)
  BY DEF Complete
<1>3. Completes(r)
  <2>1. CASE JsonDone(r)
    BY <2>1 DEF JsonDone, Completes, Breaks, Stop, Done, Continue, Crash
  <2>2. CASE BsInitDone(r)
    BY <2>2 DEF BsInitDone, Completes, Breaks, Stop, Done, Continue, Crash
  <2>3. CASE GetSuperDone(r)
    BY <2>3 DEF GetSuperDone, Completes, Breaks, Stop, Done, Continue, Crash
  <2>4. CASE CreateDone(r)
    BY <2>4 DEF CreateDone, Completes, Breaks, Stop, Done, Continue, Crash
  <2>5. CASE OpenDone(r)
    BY <2>5 DEF OpenDone, Completes, Breaks, Stop, Done, Continue, Crash
  <2>6. CASE FileDone(r)
    BY <2>6 DEF FileDone, Completes, Breaks, Stop, Done, Continue, Crash
  <2>7. CASE CloseDone(r)
    BY <2>7 DEF CloseDone, Completes, Breaks, Stop, Done, Continue, Crash
  <2>8. CASE BsDestroyDone(r)
    BY <2>8 DEF BsDestroyDone, Completes, Breaks, Stop, Done, Continue, Crash
  <2>. QED BY <1>2, <2>1, <2>2, <2>3, <2>4, <2>5, <2>6, <2>7, <2>8
<1>. QED BY <1>1, <1>2, <1>3

(* A set of descriptors that is not empty has a lowest one. *)
LEMMA LowestOf ==
    ASSUME NEW S, S \subseteq Nat, S # {}
    PROVE  Lowest(S) \in S
<1>1. \E x \in S : \A y \in S : ~ (<<y, x>> \in OpToRel(<, Nat))
  BY NatLessThanWellFounded, WFMin, Zenon
<1>2. \A x, y \in S : ~ (<<y, x>> \in OpToRel(<, Nat)) => x <= y
  BY DEF OpToRel
<1>3. \E x \in S : \A y \in S : x <= y
  BY <1>1, <1>2, Zenon
<1>. QED BY <1>3, Zenon DEF Lowest

(* get_fd_from_bitmap gives -1 or a descriptor whose bit is clear. *)
LEMMA GetFdFree ==
    GetFd \in (FD \ fd_table) \union {-1}
<1>1. FD \ fd_table \subseteq Nat
  BY MaxFdAssumption DEF FD
<1>. QED BY <1>1, LowestOf DEF GetFd
-----------------------------------------------------------------------------
(* What is numbered by calls stays below a larger number of calls. *)
Numbered(c) ==
    /\ \A r \in inflight : r.n \in 1 .. c /\ (r.obj \in File => r.obj <= c)
    /\ \A d \in FD : files[d] <= c
    /\ ~misrouted => \A h \in Mine : h.file <= c

LEMMA NumberedLater ==
    ASSUME IInv, NEW c \in Nat, calls <= c
    PROVE  Numbered(c)
<1>0. calls \in Nat
  BY BoundAssumption DEF IInv, TypeOK
<1>1. \A r \in inflight : r.n \in 1 .. c /\ (r.obj \in File => r.obj <= c)
  BY <1>0, BoundAssumption DEF IInv, Shape, File
<1>2. \A d \in FD : files[d] <= c
  <2>. SUFFICES ASSUME NEW d \in FD PROVE files[d] <= c
    OBVIOUS
  <2>1. files[d] \in Int /\ files[d] <= calls
    BY BoundAssumption DEF IInv, TypeOK, Shape, File, Null
  <2>. QED BY <1>0, <2>1
<1>3. ~misrouted => \A h \in Mine : h.file <= c
  <2>. SUFFICES ASSUME ~misrouted, NEW h \in Mine PROVE h.file <= c
    OBVIOUS
  <2>1. h.file \in Int /\ h.file <= calls
    BY BoundAssumption DEF IInv, TypeOK, TableOK, Mine, Handle, File, Null
  <2>. QED BY <1>0, <2>1
<1>. QED BY <1>1, <1>2, <1>3 DEF Numbered

(* The kernel, too, hands out a descriptor it has free. *)
LEMMA LowFree == FD \ kernel # {} => Lowest(FD \ kernel) \in FD \ kernel
<1>1. FD \ kernel \subseteq Nat
  BY MaxFdAssumption DEF FD
<1>. QED BY <1>1, LowestOf

(* Between calls nothing is posted, and nothing in flight that no poller() *)
(* gave up on.                                                             *)
LEMMA IdleQuiet ==
    ASSUME IInv, call = Idle
    PROVE  posted = NoMsg /\ (~late => inflight = {})
<1>1. posted = NoMsg
  BY DEF IInv, Shape
<1>2. ASSUME ~late, NEW r \in inflight PROVE FALSE
  <2>1. r.n = 0
    BY <1>2 DEF IInv, OneAtATime, Idle
  <2>2. r.n \in 1 .. calls /\ calls \in Nat
    BY BoundAssumption DEF IInv, TypeOK, Shape
  <2>. QED BY <2>1, <2>2
<1>. QED BY <1>1, <1>2

(* When poller() returns and late stays clear nothing is in flight. *)
LEMMA ReturnQuiet ==
    ASSUME IInv, PollerReturns, ~late'
    PROVE  ~late /\ inflight = {}
<1>1. ~late /\ ~(~done[call.obj] /\ \E r \in inflight : r.n = call.n)
  BY Zenon DEF PollerReturns, IInv, TypeOK
<1>. QED BY <1>1 DEF IInv, OneAtATime

(* The invariant survives a step that leaves the call and its requests     *)
(* alone and at most takes handles away.                                   *)
LEMMA Same ==
    ASSUME IInv, UNCHANGED <<call, calls, done, posted, inflight, blob, fd_table, files>>,
           late => late', misrouted => misrouted', Mine' \subseteq Mine
    PROVE  Shape' /\ OneAtATime' /\ TableOK' /\ BlobOK'
<1>0. /\ call' = call /\ calls' = calls /\ done' = done /\ posted' = posted
      /\ inflight' = inflight /\ blob' = blob /\ fd_table' = fd_table /\ files' = files
  OBVIOUS
<1>1. Shape'
  BY <1>0 DEF IInv, Shape
<1>2. OneAtATime'
  BY <1>0 DEF IInv, OneAtATime
<1>3. TableOK'
  BY <1>0 DEF IInv, TableOK
<1>4. BlobOK'
  BY <1>0 DEF IInv, BlobOK
<1>. QED BY <1>1, <1>2, <1>3, <1>4

(* The start of a poller(): what a caller owes the invariant is that no    *)
(* earlier request is left over, and that the fd and the file of the call  *)
(* are no open file's unless the call only reads or writes it.             *)
LEMMA Starts ==
    ASSUME IInv, NEW op \in CallOp, NEW fd \in FD \union {Null, -1}, NEW o \in Object,
           Poller(op, fd, o), UNCHANGED <<inflight, files, blob>>,
           late => late', misrouted => misrouted',
           ~late' => inflight = {},
           Mine' \subseteq Mine, fd_table \subseteq fd_table',
           op \in {"env", "alloc", "destroy"} => o \notin File,
           op \in {"creat", "open"} => fd \in fd_table' \union {-1} /\ o = calls + 1 /\ o \in File,
           op \in FileOps => fd \in FD /\ o \in File /\ o <= calls,
           op = "env" => calls + 1 <= MaxCalls,
           op = "alloc" => calls + 1 <= MaxCalls + 1,
           ~misrouted' /\ op \in {"creat", "open", "close", "release"} =>
              \A h \in Mine' : h.fd # fd /\ h.file # o
    PROVE  Shape' /\ OneAtATime' /\ TableOK' /\ BlobOK'
<1>1. calls \in Nat /\ calls' = calls + 1 /\ calls' \in 1 .. calls' /\ calls' \in Nat
  BY BoundAssumption DEF IInv, TypeOK, Poller
<1>2. /\ call' = [op |-> op, fd |-> fd, obj |-> o, n |-> calls']
      /\ posted' = [op |-> op, obj |-> o, n |-> calls']
      /\ done'[o] = FALSE
  BY <1>1 DEF Poller, IInv, TypeOK
<1>3. inflight' = inflight /\ files' = files /\ blob' = blob
  OBVIOUS
<1>4. Numbered(calls')
  BY <1>1, NumberedLater
<1>5. Shape'
  <2>1. call' \in [op : CallOp, fd : FD \union {Null, -1}, obj : Object, n : 1 .. calls']
    BY <1>1, <1>2
  <2>2. op \in FileOps => o <= calls'
    BY <1>1, BoundAssumption DEF File
  <2>3. \A r \in inflight' : r.n \in 1 .. calls' /\ (r.obj \in File => r.obj <= calls')
    BY <1>3, <1>4 DEF Numbered
  <2>4. \A d \in FD : files'[d] <= calls'
    BY <1>3, <1>4 DEF Numbered
  <2>5. /\ call'.op = op /\ call'.fd = fd /\ call'.obj = o /\ call'.n = calls'
        /\ posted' = [op |-> call'.op, obj |-> call'.obj, n |-> call'.n]
    BY <1>2
  <2>6. call' # Idle
    BY <2>5 DEF Idle, CallOp, FileOps
  <2>. QED BY <1>1, <2>1, <2>2, <2>3, <2>4, <2>5, <2>6 DEF Shape
<1>6. OneAtATime'
  BY <1>2, <1>3 DEF OneAtATime
<1>7. TableOK'
  <2>. SUFFICES ASSUME ~misrouted' PROVE TableOK'
    BY DEF TableOK
  <2>1. ~misrouted /\ call'.op = op /\ call'.fd = fd /\ call'.obj = o
    BY <1>2
  <2>2. \A h \in Mine' : h.fd \in fd_table' /\ files'[h.fd] = h.file /\ h.file <= calls' /\ h.file \in File
    BY <1>3, <1>4, <2>1 DEF IInv, TableOK, Numbered
  <2>3. \A g, h \in Mine' : g # h => g.fd # h.fd /\ g.file # h.file
    BY <2>1 DEF IInv, TableOK
  <2>. QED BY <2>1, <2>2, <2>3 DEF TableOK
<1>8. BlobOK'
  <2>1. op \in {"creat", "open"} => \A r \in inflight' : r.obj # o
    BY <1>1, <1>3 DEF IInv, Shape
  <2>2. ~misrouted' =>
          /\ \A h \in Mine' : h.from = "creat" /\ h.ok => blob'[h.file] = "open"
          /\ \A r \in inflight' : r.kind = "close" => \A h \in Mine' : h.file # r.obj
    BY <1>3 DEF IInv, BlobOK
  <2>3. call'.op = op /\ call'.obj = o /\ ~done'[call'.obj]
    BY <1>2
  <2>. QED BY <2>1, <2>2, <2>3 DEF BlobOK
<1>. QED BY <1>5, <1>6, <1>7, <1>8

LEMMA StartTypes ==
    ASSUME IInv, NEW op, NEW fd, NEW o, Poller(op, fd, o), calls + 1 <= MaxCalls + 2
    PROVE  /\ calls' \in 0 .. (MaxCalls + 2) /\ done' \in [Object -> BOOLEAN]
           /\ call'.op = op
<1>1. calls' \in 0 .. (MaxCalls + 2)
  BY BoundAssumption DEF Poller, IInv, TypeOK
<1>2. done' \in [Object -> BOOLEAN]
  <2>1. done \in [Object -> BOOLEAN] /\ done' = [done EXCEPT ![o] = FALSE]
    BY DEF Poller, IInv, TypeOK
  <2>. QED BY <2>1, Zenon
<1>3. call'.op = op
  BY DEF Poller
<1>. QED BY <1>1, <1>2, <1>3

LEMMA ReadyFacts ==
    ASSUME IInv, Ready
    PROVE  /\ call = Idle /\ calls \in Nat /\ calls + 1 <= MaxCalls /\ MaxCalls \in Nat
           /\ process = "running" /\ (~late => inflight = {})
BY IdleQuiet, BoundAssumption DEF IInv, TypeOK, Ready, Running

(* myfs_setup, for creat and for the open after myfs_destory. *)
LEMMA Step_Setup ==
    ASSUME IInv, Ready, Setup, UNCHANGED initilized, initilized => torn
    PROVE  IInv'
<1>0. /\ call = Idle /\ calls \in Nat /\ calls + 1 <= MaxCalls /\ MaxCalls \in Nat
      /\ process = "running" /\ (~late => inflight = {})
  BY ReadyFacts
<1>1. /\ fs' = "bare" /\ blob' = blob /\ status' = status /\ inflight' = inflight /\ late' = late
      /\ torn' = torn /\ fd_table' = fd_table /\ files' = files /\ kernel' = kernel
      /\ handles' = handles /\ misrouted' = misrouted
  BY DEF Setup, table, history
<1>2. Mine' = Mine
  BY <1>1 DEF Mine
<1>3. CASE Poller("env", Null, EnvFlag) /\ UNCHANGED process
  <2>1. Shape' /\ OneAtATime' /\ TableOK' /\ BlobOK'
    <3>1. "env" \in CallOp /\ EnvFlag \in Object /\ EnvFlag \notin File
      BY <1>0 DEF CallOp, Object, EnvFlag, File
    <3>. HIDE DEF EnvFlag, Null
    <3>. QED BY <1>0, <1>1, <1>2, <1>3, <3>1, Starts DEF FileOps
  <2>2. /\ calls' \in 0 .. (MaxCalls + 2) /\ done' \in [Object -> BOOLEAN]
        /\ call'.op = "env" /\ process' = process
    BY <1>0, <1>3, StartTypes
  <2>3. TypeOK'
    BY <1>1, <2>2 DEF IInv, TypeOK
  <2>4. SetupOK'
    BY <1>0, <1>1, <2>2 DEF SetupOK
  <2>. QED BY <2>1, <2>3, <2>4 DEF IInv
<1>4. CASE Crash /\ UNCHANGED <<call, calls, done, posted>>
  <2>1. Shape' /\ OneAtATime' /\ TableOK' /\ BlobOK'
    BY <1>1, <1>2, <1>4, Same
  <2>2. TypeOK'
    BY <1>1, <1>4 DEF IInv, TypeOK, Crash
  <2>3. SetupOK'
    BY <1>0, <1>1, <1>4 DEF SetupOK, Crash, Idle
  <2>. QED BY <2>1, <2>2, <2>3 DEF IInv
<1>. QED BY <1>3, <1>4 DEF Setup

LEMMA Step_CreatFirst ==
    ASSUME IInv, CreatFirst
    PROVE  IInv'
BY Step_Setup DEF CreatFirst, IInv, TypeOK

LEMMA Step_OpenAgain ==
    ASSUME IInv, OpenAgain
    PROVE  IInv'
BY Step_Setup DEF OpenAgain, IInv, SetupOK

(* myfs_create and myfs_open up to their poller(). *)
LEMMA NewFileStarts ==
    ASSUME IInv, NEW op \in {"creat", "open"}, WithNewFile(op), calls + 1 <= MaxCalls + 2,
           UNCHANGED <<inflight, blob>>, late => late', ~late' => inflight = {}
    PROVE  /\ Shape' /\ OneAtATime' /\ TableOK' /\ BlobOK'
           /\ fd_table' \subseteq FD /\ done' \in [Object -> BOOLEAN]
           /\ calls' \in 0 .. (MaxCalls + 2) /\ call'.op = op
<1>1. calls \in Nat /\ MaxCalls \in Nat
  BY BoundAssumption DEF IInv, TypeOK
<1>2. /\ Poller(op, GetFd, NewFile) /\ files' = files /\ handles' = handles
      /\ misrouted' = misrouted
      /\ fd_table' = IF GetFd = -1 THEN fd_table ELSE fd_table \union {GetFd}
  BY DEF WithNewFile, history
<1>3. /\ GetFd \in FD \union {Null, -1} /\ fd_table \subseteq fd_table' /\ fd_table' \subseteq FD
      /\ GetFd \in fd_table' \union {-1}
  BY <1>2, GetFdFree DEF IInv, TypeOK
<1>4. NewFile \in File /\ NewFile = calls + 1
  BY <1>1 DEF NewFile, File
<1>5. Mine' = Mine
  BY <1>2 DEF Mine
<1>6. ~misrouted => \A h \in Mine' : h.fd # GetFd /\ h.file # NewFile
  <2>. SUFFICES ASSUME ~misrouted, NEW h \in Mine PROVE h.fd # GetFd /\ h.file # NewFile
    BY <1>5
  <2>1. h.fd \in fd_table /\ h.file <= calls /\ h.fd \in FD
    BY DEF IInv, TypeOK, TableOK
  <2>2. h.fd # -1
    BY <2>1, MaxFdAssumption DEF FD
  <2>. QED BY <1>1, <1>4, <2>1, <2>2, GetFdFree
<1>7. Shape' /\ OneAtATime' /\ TableOK' /\ BlobOK'
  <2>1. op \in CallOp /\ NewFile \in Object /\ op \notin FileOps
    BY <1>4 DEF CallOp, Object, FileOps
  <2>. QED BY <1>2, <1>3, <1>4, <1>5, <1>6, <2>1, Starts
<1>8. /\ done' \in [Object -> BOOLEAN] /\ calls' \in 0 .. (MaxCalls + 2) /\ call'.op = op
  BY <1>2, StartTypes
<1>. QED BY <1>3, <1>7, <1>8

LEMMA Step_Open ==
    ASSUME IInv, Open
    PROVE  IInv'
<1>0. /\ calls \in Nat /\ calls + 1 <= MaxCalls + 2 /\ (~late => inflight = {})
  BY ReadyFacts DEF Open
<1>1. /\ initilized' = initilized /\ fs' = fs /\ blob' = blob /\ inflight' = inflight
      /\ late' = late /\ torn' = torn /\ process' = process /\ WithNewFile("open")
      /\ files' = files /\ kernel' = kernel /\ handles' = handles /\ misrouted' = misrouted
  BY DEF Open, WithNewFile, history
<1>2. /\ Shape' /\ OneAtATime' /\ TableOK' /\ BlobOK'
      /\ fd_table' \subseteq FD /\ done' \in [Object -> BOOLEAN]
      /\ calls' \in 0 .. (MaxCalls + 2) /\ call'.op = "open"
  BY <1>0, <1>1, NewFileStarts
<1>3. TypeOK'
  BY <1>1, <1>2 DEF IInv, TypeOK
<1>4. SetupOK'
  BY <1>1, <1>2 DEF IInv, SetupOK
<1>. QED BY <1>2, <1>3, <1>4 DEF IInv

LEMMA Step_KernelOpen ==
    ASSUME IInv, KernelOpen
    PROVE  IInv'
<1>0. /\ calls \in Nat /\ calls' = calls + 1 /\ calls + 1 <= MaxCalls
      /\ call.op \in {"idle", "env", "alloc"}
  BY BoundAssumption DEF IInv, TypeOK, KernelOpen, Ready, SettingUp, Idle
<1>1. /\ initilized' = initilized /\ fs' = fs /\ fd_table' = fd_table /\ files' = files
      /\ blob' = blob /\ done' = done /\ call' = call /\ posted' = posted
      /\ inflight' = inflight /\ misrouted' = misrouted /\ late' = late /\ torn' = torn
      /\ process' = process
  BY DEF KernelOpen
<1>2. PICK d \in FD : /\ kernel' = kernel \union {d}
                      /\ handles' = handles \union
                            {[fd |-> d, from |-> "kernel", file |-> Null, ok |-> TRUE]}
  BY LowFree DEF KernelOpen
<1>3. Mine' = Mine
  BY <1>2 DEF Mine
<1>4. Numbered(calls')
  BY <1>0, NumberedLater
<1>5. TypeOK'
  <2>1. kernel' \subseteq FD /\ handles' \subseteq Handle
    <3>1. [fd |-> d, from |-> "kernel", file |-> Null, ok |-> TRUE] \in Handle
      BY DEF Handle
    <3>. QED BY <1>2, <3>1, Zenon DEF IInv, TypeOK
  <2>2. calls' \in 0 .. (MaxCalls + 2)
    BY <1>0, BoundAssumption
  <2>. QED BY <1>1, <2>1, <2>2 DEF IInv, TypeOK
<1>6. Shape'
  <2>1. 1 .. calls \subseteq 1 .. calls'
    BY <1>0
  <2>2. call = Idle \/ call \in [op : CallOp, fd : FD \union {Null, -1}, obj : Object, n : 1 .. calls']
    BY <2>1 DEF IInv, Shape
  <2>. QED BY <1>0, <1>1, <1>4, <2>2, BoundAssumption DEF IInv, Shape, FileOps, Numbered
<1>7. OneAtATime'
  BY <1>1 DEF IInv, OneAtATime
<1>8. TableOK'
  BY <1>1, <1>3, <1>4 DEF IInv, TableOK, Numbered
<1>9. BlobOK'
  BY <1>1, <1>3 DEF IInv, BlobOK
<1>10. SetupOK'
  BY <1>1 DEF IInv, SetupOK
<1>. QED BY <1>5, <1>6, <1>7, <1>8, <1>9, <1>10 DEF IInv

LEMMA Step_KernelClose ==
    ASSUME IInv, NEW h \in handles, KernelClose(h)
    PROVE  IInv'
<1>0. calls \in Nat /\ calls' = calls + 1 /\ calls + 1 <= MaxCalls /\ call = Idle
  BY BoundAssumption DEF IInv, TypeOK, KernelClose, Ready
<1>1. /\ initilized' = initilized /\ fs' = fs /\ fd_table' = fd_table /\ files' = files
      /\ blob' = blob /\ done' = done /\ call' = call /\ posted' = posted
      /\ inflight' = inflight /\ misrouted' = misrouted /\ late' = late /\ torn' = torn
      /\ process' = process /\ kernel' \subseteq kernel /\ handles' \subseteq handles
  BY DEF KernelClose
<1>2. Mine' \subseteq Mine
  BY <1>1 DEF Mine
<1>3. Numbered(calls')
  BY <1>0, NumberedLater
<1>4. TypeOK'
  <2>1. calls' \in 0 .. (MaxCalls + 2)
    BY <1>0, BoundAssumption
  <2>. QED BY <1>1, <2>1 DEF IInv, TypeOK
<1>5. Shape'
  BY <1>0, <1>1, <1>3 DEF IInv, Shape, Idle, FileOps, Numbered
<1>6. OneAtATime'
  BY <1>1 DEF IInv, OneAtATime
<1>7. TableOK'
  BY <1>1, <1>2, <1>3 DEF IInv, TableOK, Numbered
<1>8. BlobOK'
  BY <1>1, <1>2 DEF IInv, BlobOK
<1>9. SetupOK'
  BY <1>1 DEF IInv, SetupOK
<1>. QED BY <1>4, <1>5, <1>6, <1>7, <1>8, <1>9 DEF IInv

LEMMA Step_Reenter ==
    ASSUME IInv, Reenter
    PROVE  IInv'
<1>1. /\ initilized /\ call.op \in {"env", "alloc"} /\ process' = "reentered"
      /\ initilized' = initilized /\ fs' = fs /\ fd_table' = fd_table /\ files' = files
      /\ blob' = blob /\ done' = done /\ call' = call /\ calls' = calls /\ posted' = posted
      /\ inflight' = inflight /\ misrouted' = misrouted /\ late' = late /\ torn' = torn
      /\ kernel' = kernel /\ handles' = handles
  BY DEF Reenter, SettingUp, table, history
<1>2. Mine' = Mine
  BY <1>1 DEF Mine
<1>3. Shape' /\ OneAtATime' /\ TableOK' /\ BlobOK'
  BY <1>1, <1>2, Same
<1>4. TypeOK'
  BY <1>1 DEF IInv, TypeOK
<1>5. SetupOK'
  BY <1>1 DEF IInv, SetupOK
<1>. QED BY <1>3, <1>4, <1>5 DEF IInv

LEMMA Step_Destroy ==
    ASSUME IInv, Destroy
    PROVE  IInv'
<1>0. calls \in Nat /\ calls + 1 <= MaxCalls /\ MaxCalls \in Nat /\ (~late => inflight = {})
  BY ReadyFacts DEF Destroy
<1>1. /\ Poller("destroy", Null, FsFlag) /\ initilized' = initilized /\ fs' = fs
      /\ fd_table' = fd_table /\ files' = files /\ blob' = blob /\ inflight' = inflight
      /\ misrouted' = misrouted /\ late' = late /\ torn' = torn /\ process' = process
      /\ kernel' = kernel /\ handles' = handles
  BY DEF Destroy, table, history
<1>2. Mine' = Mine
  BY <1>1 DEF Mine
<1>3. Shape' /\ OneAtATime' /\ TableOK' /\ BlobOK'
  <2>1. "destroy" \in CallOp \ FileOps /\ FsFlag \in Object /\ FsFlag \notin File
    BY <1>0 DEF CallOp, FileOps, Object, FsFlag, File
  <2>. QED BY <1>0, <1>1, <1>2, <2>1, Starts
<1>4. calls' \in 0 .. (MaxCalls + 2) /\ done' \in [Object -> BOOLEAN] /\ call'.op = "destroy"
  BY <1>0, <1>1, StartTypes
<1>5. TypeOK'
  BY <1>1, <1>4 DEF IInv, TypeOK
<1>6. SetupOK'
  BY <1>1, <1>4 DEF IInv, SetupOK
<1>. QED BY <1>3, <1>5, <1>6 DEF IInv

(* read, write, close and release: close and release take the handle away  *)
(* before the descriptor and the file can become another's.                *)
LEMMA Step_FileCall ==
    ASSUME IInv, NEW h \in handles, NEW op \in FileOp, FileCall(op, h)
    PROVE  IInv'
<1>0. calls \in Nat /\ calls + 1 <= MaxCalls /\ MaxCalls \in Nat /\ (~late => inflight = {})
  BY ReadyFacts DEF FileCall
<1>1. op \in FileOps /\ call = Idle /\ h.fd \in FD /\ files[h.fd] \in File /\ files[h.fd] <= calls
  BY DEF IInv, TypeOK, Shape, FileCall, Ready, Routed, FileOp, FileOps, Handle
<1>2. /\ initilized' = initilized /\ fs' = fs /\ fd_table' = fd_table /\ files' = files
      /\ blob' = blob /\ inflight' = inflight /\ late' = late /\ torn' = torn
      /\ kernel' = kernel /\ misrouted' = (misrouted \/ h.from = "kernel")
      /\ handles' \subseteq handles
      /\ op \in {"close", "release"} => h \notin handles'
  BY DEF FileCall
<1>3. Mine' \subseteq Mine /\ (op \in {"close", "release"} => h \notin Mine')
  BY <1>2 DEF Mine
<1>4. misrouted => misrouted'
  BY <1>2, Zenon
<1>5. CASE Poller(op, h.fd, files[h.fd]) /\ UNCHANGED process
  <2>1. ~misrouted' /\ op \in {"close", "release"} =>
            \A g \in Mine' : g.fd # h.fd /\ g.file # files[h.fd]
    <3>. SUFFICES ASSUME ~misrouted', op \in {"close", "release"}, NEW g \in Mine'
                  PROVE  g.fd # h.fd /\ g.file # files[h.fd]
      OBVIOUS
    <3>1. ~misrouted /\ h \in Mine
      BY <1>2, Zenon DEF Mine
    <3>2. g \in Mine /\ g # h
      BY <1>3
    <3>. QED BY <3>1, <3>2 DEF IInv, TableOK
  <2>2. op \in CallOp /\ op \notin {"creat", "open", "env", "alloc", "destroy"}
        /\ files[h.fd] \in Object
    BY <1>1 DEF CallOp, FileOps, Object
  <2>3. Shape' /\ OneAtATime' /\ TableOK' /\ BlobOK'
    BY <1>0, <1>1, <1>2, <1>3, <1>4, <1>5, <2>1, <2>2, Starts
  <2>4. calls' \in 0 .. (MaxCalls + 2) /\ done' \in [Object -> BOOLEAN] /\ call'.op = op
    BY <1>0, <1>5, StartTypes
  <2>5. TypeOK'
    BY <1>2, <1>5, <2>4 DEF IInv, TypeOK
  <2>6. SetupOK'
    BY <1>2, <1>5, <2>2, <2>4 DEF IInv, SetupOK
  <2>. QED BY <2>3, <2>5, <2>6 DEF IInv
<1>6. CASE Crash /\ UNCHANGED <<call, calls, done, posted>>
  <2>1. Shape' /\ OneAtATime' /\ TableOK' /\ BlobOK'
    BY <1>2, <1>3, <1>4, <1>6, Same
  <2>2. TypeOK'
    BY <1>2, <1>6 DEF IInv, TypeOK, Crash
  <2>3. SetupOK'
    BY <1>2, <1>6 DEF IInv, SetupOK, Crash
  <2>. QED BY <2>1, <2>2, <2>3 DEF IInv
<1>. QED BY <1>5, <1>6 DEF FileCall

Kind == {"json", "bs_init", "get_super", "create", "open", "resize",
         "read", "write", "close", "delete", "bs_destroy"}

(* The posted message submits at most one request, of the call's own file: *)
(* do_create starts with spdk_bs_get_super, and only close and release     *)
(* close a blob.                                                           *)
LEMMA Step_RunMessage ==
    ASSUME IInv, RunMessage
    PROVE  IInv'
<1>0. posted # NoMsg /\ posted' = NoMsg
  BY DEF RunMessage
<1>1. posted = [op |-> call.op, obj |-> call.obj, n |-> call.n]
  BY <1>0 DEF IInv, Shape
<1>2. call \in [op : CallOp, fd : FD \union {Null, -1}, obj : Object, n : 1 .. calls]
  <2>1. call # Idle
    BY <1>0, IdleQuiet
  <2>. QED BY <2>1 DEF IInv, Shape
<1>3. /\ initilized' = initilized /\ fs' = fs /\ fd_table' = fd_table /\ files' = files
      /\ blob' = blob /\ done' = done /\ call' = call /\ calls' = calls
      /\ misrouted' = misrouted /\ late' = late /\ torn' = torn
      /\ kernel' = kernel /\ handles' = handles
  BY DEF RunMessage, table, history
<1>4. Mine' = Mine
  BY <1>3 DEF Mine
<1>5. \/ inflight' = inflight
      \/ \E k \in Kind : /\ inflight' = inflight \union {[kind |-> k, obj |-> call.obj, n |-> call.n]}
                         /\ k = "close" => call.op \in {"close", "release"}
                         /\ call.op = "creat" => k = "get_super"
                         /\ call.op # "open"
  BY <1>1 DEF RunMessage, Submit, Kind
<1>6. process' \in {process, "exited", "crashed"}
  BY DEF RunMessage, Crash
<1>7. \A r \in inflight' : \/ r \in inflight
                           \/ /\ r.obj = call.obj /\ r.n = call.n /\ r.kind \in Kind
                              /\ r.kind = "close" => call.op \in {"close", "release"}
                              /\ call.op = "creat" => r.kind = "get_super"
                              /\ call.op # "open"
  BY <1>5
<1>8. TypeOK'
  <2>1. inflight' \subseteq Request
    <3>1. call.obj \in Object /\ call.n \in Nat
      BY <1>2, BoundAssumption DEF IInv, TypeOK
    <3>. QED BY <1>5, <3>1 DEF IInv, TypeOK, Request, Kind
  <2>. QED BY <1>3, <1>6, <2>1 DEF IInv, TypeOK
<1>9. Shape'
  <2>1. call.op \in {"env", "alloc", "destroy", "creat", "open"} \union FileOps
    BY <1>2 DEF CallOp
  <2>2. calls <= calls
    BY BoundAssumption DEF IInv, TypeOK
  <2>3. call.obj \in File => call.obj <= calls
    BY <2>1, <2>2 DEF IInv, Shape
  <2>4. \A r \in inflight' : r.n \in 1 .. calls /\ (r.obj \in File => r.obj <= calls)
    BY <1>2, <1>7, <2>3 DEF IInv, Shape
  <2>. QED BY <1>0, <1>3, <2>4 DEF IInv, Shape
<1>10. OneAtATime'
  <2>. SUFFICES ASSUME ~late PROVE OneAtATime'
    BY <1>3 DEF OneAtATime
  <2>1. inflight = {} /\ ~done[call.obj]
    BY <1>0 DEF IInv, OneAtATime
  <2>2. \A r, q \in inflight' : r = q
    BY <1>5, <2>1
  <2>3. \A r \in inflight' : r.n = call.n /\ r.obj = call.obj
    BY <1>7, <2>1
  <2>. QED BY <1>0, <1>3, <2>1, <2>2, <2>3 DEF OneAtATime
<1>11. TableOK'
  BY <1>3, <1>4 DEF IInv, TableOK
<1>12. BlobOK'
  <2>1. call.op = "creat" => \A r \in inflight' : r.obj = call.obj =>
            /\ r.kind \in {"get_super", "create", "open", "resize"}
            /\ r.kind = "resize" => blob[r.obj] = "open"
    BY <1>7 DEF IInv, BlobOK
  <2>2. call.op = "open" => \A r \in inflight' : r.obj # call.obj
    BY <1>7 DEF IInv, BlobOK
  <2>3. ~misrouted => \A r \in inflight' : r.kind = "close" => \A h \in Mine : h.file # r.obj
    <3>. SUFFICES ASSUME ~misrouted, NEW r \in inflight', r.kind = "close", NEW h \in Mine
                  PROVE  h.file # r.obj
      OBVIOUS
    <3>1. CASE r \in inflight
      BY <3>1 DEF IInv, BlobOK
    <3>2. CASE r.obj = call.obj /\ call.op \in {"close", "release"}
      BY <3>2 DEF IInv, TableOK
    <3>. QED BY <1>7, <3>1, <3>2
  <2>. QED BY <1>3, <1>4, <2>1, <2>2, <2>3 DEF IInv, BlobOK
<1>13. SetupOK'
  BY <1>3, <1>6 DEF IInv, SetupOK
<1>. QED BY <1>8, <1>9, <1>10, <1>11, <1>12, <1>13 DEF IInv

(* A completion takes one request away or replaces it by the next one of   *)
(* the same file; it sets the flag only of the call it belongs to, unless  *)
(* a poller() gave up, and closes only the blob of a file without handle.  *)
LEMMA Step_Complete ==
    ASSUME IInv, Complete
    PROVE  IInv'
<1>0. call # Idle /\ posted = NoMsg /\ Unmoved
  BY CompletionForm
<1>1. PICK r \in inflight : Completes(r)
  BY CompletionForm
<1>2. /\ initilized' = initilized /\ call' = call /\ calls' = calls /\ posted' = posted
      /\ late' = late /\ torn' = torn /\ fd_table' = fd_table /\ files' = files
      /\ kernel' = kernel /\ handles' = handles /\ misrouted' = misrouted
  BY <1>0 DEF Unmoved, table, history
<1>3. Mine' = Mine
  BY <1>2 DEF Mine
<1>4. r \in Request /\ r.n \in 1 .. calls /\ (r.obj \in File => r.obj <= calls)
  BY DEF IInv, TypeOK, Shape
<1>5. \/ inflight' = inflight \ {r}
      \/ \E k \in {"create", "open", "resize", "delete"} :
            /\ inflight' = (inflight \ {r}) \union {[r EXCEPT !.kind = k]}
            /\ done' = done
            /\ \/ k = "create" /\ r.kind = "get_super"
               \/ k = "open" /\ r.kind = "create"
               \/ k = "resize" /\ r.kind = "open"
               \/ k = "delete" /\ r.kind = "close"
  BY <1>1 DEF Completes, Stop, Done, Continue, Chain
<1>6. \A q \in inflight' : \/ q \in inflight \ {r}
                           \/ /\ q.obj = r.obj /\ q.n = r.n /\ q \in Request
                              /\ \/ q.kind = "create" /\ r.kind = "get_super"
                                 \/ q.kind = "open" /\ r.kind = "create"
                                 \/ q.kind = "resize" /\ r.kind = "open"
                                 \/ q.kind = "delete" /\ r.kind = "close"
  BY <1>4, <1>5 DEF Request
<1>7. done' \in {done, [done EXCEPT ![r.obj] = TRUE]}
  BY <1>1 DEF Completes, Stop, Done, Continue
<1>8. \/ blob' = blob
      \/ r.kind = "open" /\ blob' = [blob EXCEPT ![r.obj] = "open"]
      \/ r.kind = "close" /\ blob' = [blob EXCEPT ![r.obj] = "closed"]
  BY <1>1 DEF Completes
<1>9. fs' \in {fs, "ready", "mute"} /\ process' \in {process, "crashed"}
  BY <1>1 DEF Completes, Crash
<1>10. TypeOK'
  <2>1. inflight' \subseteq Request
    BY <1>6 DEF IInv, TypeOK
  <2>2. done' \in [Object -> BOOLEAN]
    BY <1>7, Zenon DEF IInv, TypeOK
  <2>3. blob' \in [File -> {"none", "open", "closed"}]
    BY <1>8 DEF IInv, TypeOK
  <2>. QED BY <1>2, <1>9, <2>1, <2>2, <2>3 DEF IInv, TypeOK
<1>11. Shape'
  <2>1. \A q \in inflight' : q.n \in 1 .. calls /\ (q.obj \in File => q.obj <= calls)
    BY <1>4, <1>6 DEF IInv, Shape
  <2>. QED BY <1>2, <2>1 DEF IInv, Shape
<1>12. OneAtATime'
  <2>. SUFFICES ASSUME ~late PROVE OneAtATime'
    BY <1>2 DEF OneAtATime
  <2>1. inflight = {r} /\ r.n = call.n /\ r.obj = call.obj /\ ~done[call.obj]
    BY DEF IInv, OneAtATime
  <2>2. CASE inflight' = inflight \ {r}
    BY <1>0, <1>2, <2>1, <2>2 DEF OneAtATime
  <2>3. CASE inflight' # inflight \ {r}
    <3>1. done' = done /\ \E q : inflight' = {q}
      BY <1>5, <2>1, <2>3
    <3>2. \A q \in inflight' : q.n = call.n /\ q.obj = call.obj
      BY <1>6, <2>1
    <3>. QED BY <1>0, <1>2, <2>1, <3>1, <3>2 DEF OneAtATime
  <2>. QED BY <2>2, <2>3
<1>13. TableOK'
  BY <1>2, <1>3 DEF IInv, TableOK
<1>14. BlobOK'
  <2>1. call.op = "creat" => call.obj \in File /\ call.obj \in Object
    BY DEF IInv, Shape, Object
  <2>2. ASSUME call.op = "creat", done'[call.obj] PROVE blob'[call.obj] = "open"
    <3>1. CASE r.obj = call.obj
      <4>1. r.kind \in {"get_super", "create", "open", "resize"}
            /\ (r.kind = "resize" => blob[call.obj] = "open")
            /\ (done[call.obj] => blob[call.obj] = "open")
        BY <2>2, <3>1 DEF IInv, BlobOK
      <4>2. CASE r.kind = "resize"
        BY <1>8, <4>1, <4>2
      <4>3. CASE r.kind \in {"get_super", "create", "open"}
        <5>1. done' = done
          BY <1>1, <4>3 DEF Completes
        <5>2. blob[call.obj] = "open"
          BY <2>2, <4>1, <5>1
        <5>. QED BY <1>8, <2>1, <2>2, <3>1, <4>3, <5>2 DEF IInv, TypeOK
      <4>. QED BY <4>1, <4>2, <4>3
    <3>2. CASE r.obj # call.obj
      <4>1. done[call.obj]
        BY <1>7, <2>1, <2>2, <3>2 DEF IInv, TypeOK
      <4>2. blob[call.obj] = "open"
        BY <2>2, <4>1 DEF IInv, BlobOK
      <4>. QED BY <1>8, <2>1, <2>2, <3>2, <4>2 DEF IInv, TypeOK
    <3>. QED BY <3>1, <3>2
  <2>3. ASSUME call.op = "creat", NEW q \in inflight', q.obj = call.obj
        PROVE  /\ q.kind \in {"get_super", "create", "open", "resize"}
               /\ q.kind = "resize" => blob'[q.obj] = "open"
    <3>1. CASE q \in inflight \ {r}
      <4>1. /\ q.kind \in {"get_super", "create", "open", "resize"}
            /\ q.kind = "resize" => blob[q.obj] = "open"
        BY <2>3, <3>1 DEF IInv, BlobOK
      <4>2. r.obj = call.obj => r.kind # "close"
        BY <2>3 DEF IInv, BlobOK
      <4>. QED BY <1>8, <2>1, <2>3, <4>1, <4>2 DEF IInv, TypeOK
    <3>2. CASE q \notin inflight \ {r}
      <4>1. q.obj = r.obj /\ r.kind \in {"get_super", "create", "open", "resize"}
        BY <1>6, <2>3, <3>2 DEF IInv, BlobOK
      <4>2. /\ q.kind \in {"create", "open", "resize"}
            /\ q.kind = "resize" => r.kind = "open"
        BY <1>6, <2>3, <3>2, <4>1
      <4>3. ASSUME q.kind = "resize" PROVE blob'[q.obj] = "open"
        <5>1. r.kind = "open" /\ inflight' # inflight \ {r}
          BY <3>2, <4>2, <4>3, <2>3
        <5>2. blob' = [blob EXCEPT ![r.obj] = "open"]
          BY <1>1, <5>1 DEF Completes, Stop, Done, Continue
        <5>. QED BY <2>1, <2>3, <4>1, <5>2 DEF IInv, TypeOK
      <4>. QED BY <4>2, <4>3
    <3>. QED BY <3>1, <3>2
  <2>4. call.op = "open" => \A q \in inflight' : q.obj # call.obj
    BY <1>6 DEF IInv, BlobOK
  <2>5. ASSUME ~misrouted, NEW h \in Mine, h.from = "creat", h.ok PROVE blob'[h.file] = "open"
    <3>1. blob[h.file] = "open" /\ (r.kind = "close" => h.file # r.obj)
      BY <2>5 DEF IInv, BlobOK
    <3>2. h.file \in File
      BY <2>5 DEF IInv, TableOK
    <3>. QED BY <1>8, <3>1, <3>2 DEF IInv, TypeOK
  <2>6. ASSUME ~misrouted, NEW q \in inflight', q.kind = "close", NEW h \in Mine
        PROVE  h.file # q.obj
    BY <1>6, <2>6 DEF IInv, BlobOK
  <2>. QED BY <1>2, <1>3, <2>2, <2>3, <2>4, <2>5, <2>6 DEF BlobOK
<1>15. SetupOK'
  BY <1>2, <1>9 DEF IInv, SetupOK
<1>. QED BY <1>10, <1>11, <1>12, <1>13, <1>14, <1>15 DEF IInv

LEMMA Step_EnvReturns ==
    ASSUME IInv, Running, EnvReturns
    PROVE  IInv'
<1>0. calls \in Nat /\ calls <= MaxCalls /\ MaxCalls \in Nat /\ call.op = "env"
  BY BoundAssumption DEF IInv, TypeOK, Shape, EnvReturns
<1>1. /\ Poller("alloc", Null, FsFlag) /\ initilized' = initilized /\ fs' = fs
      /\ fd_table' = fd_table /\ files' = files /\ blob' = blob /\ inflight' = inflight
      /\ misrouted' = misrouted /\ torn' = torn /\ process' = process
      /\ kernel' = kernel /\ handles' = handles
  BY DEF EnvReturns, table, history
<1>2. Mine' = Mine
  BY <1>1 DEF Mine
<1>3. late' \in BOOLEAN /\ (late => late') /\ (~late' => inflight = {})
  BY ReturnQuiet DEF EnvReturns, PollerReturns, IInv, TypeOK
<1>4. Shape' /\ OneAtATime' /\ TableOK' /\ BlobOK'
  <2>1. "alloc" \in CallOp \ FileOps /\ FsFlag \in Object /\ FsFlag \notin File
        /\ calls + 1 <= MaxCalls + 1
    BY <1>0 DEF CallOp, FileOps, Object, FsFlag, File
  <2>. QED BY <1>1, <1>2, <1>3, <2>1, Starts
<1>5. calls' \in 0 .. (MaxCalls + 2) /\ done' \in [Object -> BOOLEAN] /\ call'.op = "alloc"
  BY <1>0, <1>1, StartTypes
<1>6. TypeOK'
  BY <1>1, <1>3, <1>5 DEF IInv, TypeOK
<1>7. SetupOK'
  BY <1>0, <1>1, <1>5 DEF IInv, SetupOK
<1>. QED BY <1>4, <1>6, <1>7 DEF IInv

LEMMA Step_AllocReturns ==
    ASSUME IInv, Running, AllocReturns
    PROVE  IInv'
<1>0. calls \in Nat /\ calls + 1 <= MaxCalls + 2 /\ call.op = "alloc"
  BY BoundAssumption DEF IInv, TypeOK, Shape, AllocReturns
<1>1. PICK op \in {"creat", "open"} : WithNewFile(op)
  BY DEF AllocReturns
<1>2. /\ initilized' = TRUE /\ fs' = fs /\ blob' = blob /\ inflight' = inflight
      /\ torn' = torn /\ process' = process
  BY DEF AllocReturns
<1>3. files' = files /\ kernel' = kernel /\ handles' = handles /\ misrouted' = misrouted
  BY <1>1 DEF WithNewFile, history
<1>4. late' \in BOOLEAN /\ (late => late') /\ (~late' => inflight = {})
  BY ReturnQuiet DEF AllocReturns, PollerReturns, IInv, TypeOK
<1>5. /\ Shape' /\ OneAtATime' /\ TableOK' /\ BlobOK'
      /\ fd_table' \subseteq FD /\ done' \in [Object -> BOOLEAN]
      /\ calls' \in 0 .. (MaxCalls + 2) /\ call'.op = op
  BY <1>0, <1>1, <1>2, <1>4, NewFileStarts
<1>6. TypeOK'
  BY <1>2, <1>3, <1>4, <1>5 DEF IInv, TypeOK
<1>7. SetupOK'
  BY <1>0, <1>2, <1>5 DEF IInv, SetupOK
<1>. QED BY <1>5, <1>6, <1>7 DEF IInv

(* A poller() that returns to the application. *)
LEMMA Returns ==
    ASSUME IInv, PollerReturns, call' = Idle, UNCHANGED <<inflight, calls, posted>>,
           \A d \in FD : files'[d] <= calls
    PROVE  /\ late' \in BOOLEAN /\ (late => late')
           /\ Shape' /\ OneAtATime'
<1>1. late' \in BOOLEAN /\ (late => late') /\ (~late' => inflight = {}) /\ posted = NoMsg
  BY ReturnQuiet DEF PollerReturns, IInv, TypeOK
<1>2. inflight' = inflight /\ calls' = calls /\ posted' = posted
  OBVIOUS
<1>3. Shape'
  BY <1>1, <1>2 DEF IInv, Shape, Idle, FileOps
<1>4. OneAtATime'
  BY <1>1, <1>2 DEF OneAtATime
<1>. QED BY <1>1, <1>3, <1>4

(* The new handle has the fd and the file of the call, which are no other's. *)
LEMMA Step_NewFileReturns ==
    ASSUME IInv, Running, NewFileReturns
    PROVE  IInv'
<1>0. /\ call.op \in {"creat", "open"} /\ call' = Idle /\ initilized' = initilized /\ fs' = fs
      /\ fd_table' = fd_table /\ blob' = blob /\ done' = done /\ calls' = calls
      /\ posted' = posted /\ inflight' = inflight /\ kernel' = kernel
      /\ misrouted' = misrouted /\ torn' = torn
  BY DEF NewFileReturns
<1>1. call.fd \in fd_table \union {-1} /\ call.obj \in File /\ call.obj = calls /\ call.obj \in Object
  BY <1>0 DEF IInv, Shape, Object
<1>2. CASE call.fd = -1
  <2>1. (process' = "crashed" \/ process' = process) /\ files' = files /\ handles' = handles
    BY <1>2, Zenon DEF NewFileReturns, Crash
  <2>2. Mine' = Mine
    BY <2>1 DEF Mine
  <2>3. late' \in BOOLEAN /\ Shape' /\ OneAtATime'
    BY <1>0, <2>1, Returns, Zenon DEF NewFileReturns, IInv, Shape
  <2>4. TypeOK'
    BY <1>0, <2>1, <2>3 DEF IInv, TypeOK
  <2>5. TableOK' /\ BlobOK'
    BY <1>0, <2>1, <2>2 DEF IInv, TableOK, BlobOK, Idle
  <2>6. SetupOK'
    BY <1>0, <2>1 DEF IInv, SetupOK, Idle
  <2>. QED BY <2>3, <2>4, <2>5, <2>6 DEF IInv
<1>3. CASE call.fd # -1
  <2>. DEFINE new == [fd |-> call.fd, from |-> call.op, file |-> call.obj, ok |-> done[call.obj]]
  <2>1. /\ files' = [files EXCEPT ![call.fd] = call.obj] /\ handles' = handles \union {new}
        /\ process' = process
    BY <1>3 DEF NewFileReturns
  <2>2. call.fd \in FD /\ call.fd \in fd_table
    BY <1>1, <1>3 DEF IInv, TypeOK
  <2>3. new \in Handle
    BY <1>0, <1>1, <2>2 DEF Handle, IInv, TypeOK
  <2>4. Mine' = Mine \union {new}
    <3>1. new.from # "kernel"
      BY <1>0
    <3>. HIDE DEF new
    <3>. QED BY <2>1, <3>1 DEF Mine
  <2>5. \A d \in FD : files'[d] = IF d = call.fd THEN call.obj ELSE files[d]
    BY <2>1, <2>2 DEF IInv, TypeOK
  <2>6. calls <= calls
    BY BoundAssumption DEF IInv, TypeOK
  <2>7. late' \in BOOLEAN /\ Shape' /\ OneAtATime'
    <3>1. \A d \in FD : files'[d] <= calls
      BY <1>1, <2>5, <2>6 DEF IInv, Shape
    <3>. QED BY <1>0, <3>1, Returns DEF NewFileReturns
  <2>8. TypeOK'
    <3>1. files' \in [FD -> File \union {Null}]
      BY <1>1, <2>1, Zenon DEF IInv, TypeOK
    <3>2. handles' \subseteq Handle
      BY <2>1, <2>3 DEF IInv, TypeOK
    <3>. QED BY <1>0, <2>1, <2>7, <3>1, <3>2 DEF IInv, TypeOK
  <2>9. TableOK'
    <3>. SUFFICES ASSUME ~misrouted PROVE TableOK'
      BY <1>0, Zenon DEF TableOK
    <3>1. \A h \in Mine : /\ h.fd \in FD /\ h.fd \in fd_table /\ files[h.fd] = h.file /\ h.file <= calls
                          /\ h.file \in File /\ h.fd # call.fd /\ h.file # call.obj
      BY <1>0 DEF IInv, TypeOK, TableOK
    <3>2. new.fd = call.fd /\ new.file = call.obj
      OBVIOUS
    <3>3. \A h \in Mine' : /\ h.fd \in fd_table' /\ files'[h.fd] = h.file /\ h.file <= calls'
                           /\ h.file \in File
      <4>. HIDE DEF new
      <4>1. \A h \in Mine : files'[h.fd] = h.file
        BY <2>5, <3>1
      <4>2. files'[new.fd] = new.file
        BY <2>2, <2>5, <3>2
      <4>. QED BY <1>0, <1>1, <2>2, <2>4, <2>6, <3>1, <3>2, <4>1, <4>2
    <3>4. \A g, h \in Mine' : g # h => g.fd # h.fd /\ g.file # h.file
      <4>. HIDE DEF new
      <4>1. \A g, h \in Mine : g # h => g.fd # h.fd /\ g.file # h.file
        BY DEF IInv, TableOK
      <4>. QED BY <2>4, <3>1, <3>2, <4>1
    <3>. QED BY <1>0, <3>3, <3>4 DEF TableOK, Idle
  <2>10. BlobOK'
    <3>1. \A q \in inflight : q.kind = "close" => q.obj # call.obj
      BY <1>0 DEF IInv, BlobOK
    <3>2. new.from = "creat" /\ new.ok => blob[new.file] = "open"
      BY DEF IInv, BlobOK
    <3>3. new.file = call.obj
      OBVIOUS
    <3>. HIDE DEF new
    <3>4. ~misrouted => /\ \A h \in Mine' : h.from = "creat" /\ h.ok => blob[h.file] = "open"
                        /\ \A q \in inflight : q.kind = "close" => \A h \in Mine' : h.file # q.obj
      BY <2>4, <3>1, <3>2, <3>3 DEF IInv, BlobOK
    <3>. QED BY <1>0, <3>4, Zenon DEF BlobOK, Idle
  <2>11. SetupOK'
    BY <1>0, <2>1 DEF IInv, SetupOK, Idle
  <2>. QED BY <2>7, <2>8, <2>9, <2>10, <2>11 DEF IInv
<1>. QED BY <1>2, <1>3

(* close gives back a bit that no open file has. *)
LEMMA Step_FileCallReturns ==
    ASSUME IInv, Running, FileCallReturns
    PROVE  IInv'
<1>0. /\ call.op \in FileOps /\ call' = Idle /\ initilized' = initilized /\ fs' = fs
      /\ files' = files /\ blob' = blob /\ done' = done /\ calls' = calls
      /\ posted' = posted /\ inflight' = inflight /\ kernel' = kernel
      /\ handles' = handles /\ misrouted' = misrouted /\ torn' = torn /\ process' = process
      /\ fd_table' = IF call.op = "close" THEN fd_table \ {call.fd} ELSE fd_table
  BY DEF FileCallReturns, FileOps, history
<1>1. Mine' = Mine
  BY <1>0 DEF Mine
<1>2. late' \in BOOLEAN /\ Shape' /\ OneAtATime'
  BY <1>0, Returns, Zenon DEF FileCallReturns, IInv, Shape
<1>3. TypeOK'
  BY <1>0, <1>2 DEF IInv, TypeOK
<1>4. TableOK'
  <2>1. ~misrouted => \A h \in Mine : h.fd \in fd_table'
    BY <1>0 DEF IInv, TableOK
  <2>. QED BY <1>0, <1>1, <2>1 DEF IInv, TableOK, Idle
<1>5. BlobOK'
  BY <1>0, <1>1, Zenon DEF IInv, BlobOK, Idle
<1>6. SetupOK'
  BY <1>0 DEF IInv, SetupOK, Idle
<1>. QED BY <1>2, <1>3, <1>4, <1>5, <1>6 DEF IInv

LEMMA Step_DestroyReturns ==
    ASSUME IInv, Running, DestroyReturns
    PROVE  IInv'
<1>0. /\ call' = Idle /\ initilized' = initilized /\ fs' = "none" /\ torn' = TRUE
      /\ files' = files /\ blob' = blob /\ done' = done /\ calls' = calls
      /\ posted' = posted /\ inflight' = inflight /\ kernel' = kernel
      /\ handles' = handles /\ misrouted' = misrouted /\ process' = process
      /\ fd_table' = fd_table
  BY DEF DestroyReturns, table, history
<1>1. Mine' = Mine
  BY <1>0 DEF Mine
<1>2. late' \in BOOLEAN /\ Shape' /\ OneAtATime'
  BY <1>0, Returns, Zenon DEF DestroyReturns, IInv, Shape
<1>3. TypeOK'
  BY <1>0, <1>2 DEF IInv, TypeOK
<1>4. TableOK' /\ BlobOK'
  BY <1>0, <1>1 DEF IInv, TableOK, BlobOK, Idle
<1>5. SetupOK'
  BY <1>0 DEF SetupOK, Idle
<1>. QED BY <1>2, <1>3, <1>4, <1>5 DEF IInv
-----------------------------------------------------------------------------
LEMMA IInvInit == Init => IInv
<1>. SUFFICES ASSUME Init PROVE IInv
  OBVIOUS
<1>1. calls = 0 /\ inflight = {} /\ handles = {} /\ call = Idle /\ posted = NoMsg
  BY DEF Init
<1>2. TypeOK
  <2>1. 0 \in 0 .. (MaxCalls + 2)
    BY BoundAssumption
  <2>2. /\ files \in [FD -> File \union {Null}] /\ blob \in [File -> {"none", "open", "closed"}]
        /\ done \in [Object -> BOOLEAN]
    BY DEF Init
  <2>3. /\ initilized = FALSE /\ misrouted = FALSE /\ late = FALSE /\ torn = FALSE
        /\ process = "running" /\ fs = "none" /\ fd_table = {} /\ kernel \subseteq FD
    BY DEF Init
  <2>. QED BY <1>1, <2>1, <2>2, <2>3, Zenon DEF TypeOK
<1>3. Shape
  <2>1. \A d \in FD : files[d] = 0
    BY DEF Init, Null
  <2>2. call.op = "idle"
    BY <1>1 DEF Idle
  <2>. QED BY <1>1, <2>1, <2>2 DEF Shape, FileOps
<1>4. OneAtATime
  BY <1>1 DEF OneAtATime
<1>5. Mine = {}
  BY <1>1 DEF Mine
<1>6. TableOK /\ BlobOK
  BY <1>1, <1>5 DEF TableOK, BlobOK, Idle
<1>7. SetupOK
  BY DEF Init, SetupOK, Idle
<1>. QED BY <1>2, <1>3, <1>4, <1>6, <1>7 DEF IInv

LEMMA IInvNext == IInv /\ [Next]_vars => IInv'
<1>. SUFFICES ASSUME IInv, [Next]_vars PROVE IInv'
  OBVIOUS
<1>1. CASE UNCHANGED vars
  <2>1. /\ initilized' = initilized /\ fs' = fs /\ fd_table' = fd_table /\ files' = files
        /\ blob' = blob /\ done' = done /\ call' = call /\ calls' = calls /\ posted' = posted
        /\ inflight' = inflight /\ misrouted' = misrouted /\ late' = late /\ torn' = torn
        /\ kernel' = kernel /\ handles' = handles /\ process' = process
    BY <1>1 DEF vars, table, history
  <2>2. Mine' = Mine
    BY <2>1 DEF Mine
  <2>3. Shape' /\ OneAtATime' /\ TableOK' /\ BlobOK'
    BY <2>1, <2>2, Same
  <2>4. TypeOK' /\ SetupOK'
    BY <2>1 DEF IInv, TypeOK, SetupOK
  <2>. QED BY <2>3, <2>4 DEF IInv
<1>2. CASE CreatFirst \/ Open \/ OpenAgain \/ KernelOpen \/ Reenter \/ Destroy
  BY <1>2, Step_CreatFirst, Step_Open, Step_OpenAgain, Step_KernelOpen, Step_Reenter, Step_Destroy
<1>3. CASE \E h \in handles : KernelClose(h) \/ \E op \in FileOp : FileCall(op, h)
  BY <1>3, Step_KernelClose, Step_FileCall
<1>4. CASE Poll
  BY <1>4, Step_RunMessage, Step_Complete DEF Poll
<1>5. CASE Return
  BY <1>5, Step_EnvReturns, Step_AllocReturns, Step_NewFileReturns, Step_FileCallReturns,
     Step_DestroyReturns DEF Return
<1>. QED BY <1>1, <1>2, <1>3, <1>4, <1>5 DEF Next

LEMMA Inductive == Spec => []IInv
BY IInvInit, IInvNext, PTL DEF Spec

(* An fd of myfs.c stands for the file its own creat or open allocated,    *)
(* and no other open file has it, as long as no call on a kernel fd has    *)
(* been sent here.  files[fd] may be left over from a closed file.         *)
THEOREM DescriptorsAreDistinct == Spec => []FdsDistinct
<1>1. IInv => FdsDistinct
  BY DEF IInv, TableOK, FdsDistinct
<1>. QED BY <1>1, Inductive, PTL

(* Until a poller() gives up with its request in flight, every completion  *)
(* runs inside the call that asked for it.                                 *)
THEOREM RequestsStayInTheirCall == Spec => []NothingOutlivesItsCall
<1>1. IInv => NothingOutlivesItsCall
  BY DEF IInv, OneAtATime, NothingOutlivesItsCall
<1>. QED BY <1>1, Inductive, PTL

(* The fd of a creat that was done stands for an open blob. *)
THEOREM CreatedFilesHaveBlobs == Spec => []CreatGivesBlob
<1>1. IInv => CreatGivesBlob
  <2>. SUFFICES ASSUME IInv, ~misrouted, NEW h \in handles, h.from = "creat", h.ok
                PROVE  blob[files[h.fd]] = "open"
    BY DEF CreatGivesBlob
  <2>1. h \in Mine
    BY DEF Mine
  <2>. QED BY <2>1 DEF IInv, TableOK, BlobOK
<1>. QED BY <1>1, Inductive, PTL

(* creat's setup never calls back into myfs_open: it sets initilized only  *)
(* afterwards.  A setup after myfs_destory may.                            *)
THEOREM FirstSetupIsNotReentered == Spec => []SetupIsNotReentered
<1>1. IInv => SetupIsNotReentered
  BY DEF IInv, SetupOK, SetupIsNotReentered
<1>. QED BY <1>1, Inductive, PTL
=============================================================================
