-------------------------------- MODULE MyFS --------------------------------
(***************************************************************************)
(* src/spdk_filesystem/myfs.c: the hooked POSIX calls, the fd table, and   *)
(* the busy-polling bridge from each call to the asynchronous blobstore.   *)
(*                                                                         *)
(* One thread makes the calls and, inside poller(), runs the messages and  *)
(* completions of the SPDK thread.  A call therefore spans several steps:  *)
(* it posts a message, the message submits a request, the request's        *)
(* completions run, and poller() returns when the done flag it watches is  *)
(* set or when it has polled POLLER_MAX_TIME times.                        *)
(***************************************************************************)
EXTENDS Integers, FiniteSets

CONSTANTS MaxFd,        \* MAX_FD_COUNT
          MaxCalls,     \* bound: calls of the application
          IoErrors,     \* setup and the blobstore's requests may fail
          Tables        \* the program also calls release and myfs_destory, which
                        \* myfs.c offers (lines 325-333, 602-605) and does not call

ASSUME MaxFdAssumption == MaxFd \in Nat /\ MaxFd > 3
ASSUME BoundAssumption == MaxCalls \in Nat
ASSUME FlagAssumption == IoErrors \in BOOLEAN /\ Tables \in BOOLEAN

FD == 3 .. (MaxFd - 1)          \* DEFAULT_FD_NUM and up
File == 1 .. (MaxCalls + 2)     \* every struct myfs_file_s ever allocated
Null == 0
EnvFlag == -1                   \* the local variable done of myfs_spdk_env_init
FsFlag == -2                    \* fs->finished
Object == File \union {EnvFlag, FsFlag}   \* what a done flag belongs to
Idle == [op |-> "idle", fd |-> Null, obj |-> Null, n |-> 0]
NoMsg == [op |-> "none", obj |-> Null, n |-> 0]

VARIABLES
    initilized,     \* the global of that name
    fs,             \* "none", "bare" (allocated), "ready" (blobstore loaded),
                    \* "mute" (loaded, but without an I/O channel)
    fd_table,       \* the bitmap: fds in use
    files,          \* files[fd], a File or Null
    blob,           \* blob[f]: "none", "open" or "closed" (its memory freed)
    status,         \* status[f]
    done,           \* done[o]: the flag a poller() watches
    call,           \* the call in progress and the poller() it is in
    calls,          \* calls made, and serial number of requests
    posted,         \* the message on the SPDK thread, or NoMsg
    inflight,       \* blobstore requests not yet completed
    kernel,         \* fds open in the kernel
    handles,        \* history: what creat and open returned, not yet closed, the
                    \* file allocated for it, and whether the call ended through
                    \* its done flag (ok)
    misrouted,      \* history: a call on a kernel fd was sent to this file system
    late,           \* history: a poller() gave up while its request was in flight
    torn,           \* history: myfs_destory has run
    process         \* "running", "exited", "crashed" (null or freed memory was
                    \* used) or "reentered" (setup called back into myfs_open)

history == <<handles, misrouted>>
table == <<fd_table, files, kernel, history>>
vars == <<initilized, fs, blob, status, done, call, calls, posted, inflight,
          table, late, torn, process>>

Init ==
    /\ initilized = FALSE
    /\ fs = "none"
    /\ fd_table = {}
    /\ files = [d \in FD |-> Null]
    /\ blob = [f \in File |-> "none"]
    /\ status = [f \in File |-> "none"]
    /\ done = [o \in Object |-> FALSE]
    /\ call = Idle
    /\ calls = 0
    /\ posted = NoMsg
    /\ inflight = {}
    /\ kernel \in SUBSET FD             \* whatever the process has open
    /\ handles = {}
    /\ misrouted = FALSE /\ late = FALSE /\ torn = FALSE
    /\ process = "running"

Running == process = "running"
Crash == process' = "crashed"
-----------------------------------------------------------------------------
Lowest(S) == CHOOSE d \in S : \A e \in S : d <= e

(* get_fd_from_bitmap(): the lowest clear bit, or -1. *)
GetFd == IF FD \ fd_table = {} THEN -1 ELSE Lowest(FD \ fd_table)

NewFile == calls + 1                           \* malloc and memset

(* The start of poller(): clear the flag, send the message. *)
Poller(op, fd, o) ==
    /\ call' = [op |-> op, fd |-> fd, obj |-> o, n |-> calls + 1]
    /\ calls' = calls + 1
    /\ done' = [done EXCEPT ![o] = FALSE]
    /\ posted' = [op |-> op, obj |-> o, n |-> calls + 1]

Ready == call = Idle /\ Running /\ calls < MaxCalls

(* myfs_setup up to the poller() of myfs_spdk_env_init, which loads the  *)
(* JSON configuration ("env").  Without an SPDK thread, whose absence    *)
(* myfs_setup does not notice, the next poller() uses a null pointer.    *)
Setup ==
    /\ fs' = "bare"
    /\ \/ Poller("env", Null, EnvFlag) /\ UNCHANGED process
       \/ IoErrors /\ Crash /\ UNCHANGED <<call, calls, done, posted>>
    /\ UNCHANGED <<blob, status, inflight, late, torn, table>>

(* BUG: creat sets the flag before the file system is set up. *)
CreatFirst_early == Ready /\ ~initilized /\ Setup /\ initilized' = TRUE

(* The first creat sets the file system up: after "env" myfs_setup polls *)
(* myfs_alloc ("alloc"), and myfs_create polls do_create.                *)
CreatFirst == Ready /\ ~initilized /\ Setup /\ UNCHANGED initilized

(* myfs_create and myfs_open: a bit of the table, a new file.  With the  *)
(* table full the fd is -1 and files[-1] is written when the call ends.  *)
WithNewFile(op) ==
    /\ Poller(op, GetFd, NewFile)
    /\ fd_table' = IF GetFd = -1 THEN fd_table ELSE fd_table \union {GetFd}
    /\ UNCHANGED <<files, kernel, history>>

Open ==
    /\ Ready /\ initilized /\ fs # "none"
    /\ WithNewFile("open")
    /\ UNCHANGED <<initilized, fs, blob, status, inflight, late, torn, process>>

(* open after myfs_destory sets the file system up again. *)
OpenAgain == Ready /\ initilized /\ fs = "none" /\ Setup /\ UNCHANGED initilized

SettingUp == call.op \in {"env", "alloc"} /\ Running /\ calls < MaxCalls

(* creat once initilized, and open before that, go to the kernel, which  *)
(* returns the lowest fd it has free.  SPDK opens files of its own while *)
(* it is set up.                                                         *)
KernelOpen ==
    /\ Ready \/ (SettingUp /\ ~initilized)
    /\ FD \ kernel # {}
    /\ LET d == Lowest(FD \ kernel)
       IN  /\ kernel' = kernel \union {d}
           /\ handles' = handles \union {[fd |-> d, from |-> "kernel", file |-> Null, ok |-> TRUE]}
    /\ calls' = calls + 1
    /\ UNCHANGED <<initilized, fs, fd_table, files, blob, status, done, call,
                   posted, inflight, misrouted, late, torn, process>>

(* Such an open of SPDK's when initilized: myfs_open, on an SPDK thread  *)
(* that is not there yet or is polling already (fix_core_dump.txt).      *)
Reenter ==
    /\ SettingUp /\ initilized
    /\ process' = "reentered"
    /\ UNCHANGED <<initilized, fs, blob, status, done, call, calls, posted,
                   inflight, table, late, torn>>

Routed(d) == initilized /\ files[d] # Null     \* the test of read, write, close

(* read, write, close or release of an fd the application holds.  After  *)
(* myfs_destory fs is null, and poller(fs->thread, ...) uses it.         *)
FileCall(op, h) ==
    /\ Ready /\ h \in handles /\ Routed(h.fd)
    /\ \/ fs # "none" /\ Poller(op, h.fd, files[h.fd]) /\ UNCHANGED process
       \/ fs = "none" /\ Crash /\ UNCHANGED <<call, calls, done, posted>>
    /\ handles' = IF op \in {"close", "release"} THEN handles \ {h} ELSE handles
    /\ misrouted' = (misrouted \/ h.from = "kernel")
    /\ UNCHANGED <<initilized, fs, fd_table, files, blob, status, inflight,
                   kernel, late, torn>>

FileOp == {"read", "write", "close"} \union (IF Tables THEN {"release"} ELSE {})

KernelClose(h) ==
    /\ Ready /\ h \in handles /\ ~Routed(h.fd)
    /\ kernel' = kernel \ {h.fd}
    /\ handles' = handles \ {h}
    /\ calls' = calls + 1
    /\ UNCHANGED <<initilized, fs, fd_table, files, blob, status, done, call,
                   posted, inflight, misrouted, late, torn, process>>

(* myfs_destory *)
Destroy ==
    /\ Ready /\ Tables /\ fs # "none"
    /\ Poller("destroy", Null, FsFlag)
    /\ UNCHANGED <<initilized, fs, blob, status, inflight, late, torn, process, table>>
-----------------------------------------------------------------------------
(* spdk_thread_poll runs the posted message: do_create, do_open, ...     *)
Submit(m, kind) == inflight' = inflight \union {[kind |-> kind, obj |-> m.obj, n |-> m.n]}

Loaded == fs \in {"ready", "mute"}              \* fs->bs is set

RunMessage ==
    /\ posted # NoMsg /\ Running
    /\ posted' = NoMsg
    /\ LET m == posted
       IN  \/ m.op = "env" /\ Submit(m, "json") /\ UNCHANGED <<status, process>>
           \/ m.op = "alloc" /\ Submit(m, "bs_init") /\ UNCHANGED <<status, process>>
           \/ /\ m.op = "alloc" /\ IoErrors            \* there is no Malloc0: exit(1)
              /\ process' = "exited" /\ UNCHANGED <<inflight, status>>
           \/ /\ m.op = "creat"
              /\ status' = [status EXCEPT ![m.obj] = "create"]
              /\ IF Loaded THEN Submit(m, "get_super") /\ UNCHANGED process
                           ELSE Crash /\ UNCHANGED inflight
           \/ m.op = "open" /\ UNCHANGED <<inflight, status, process>>  \* blobid is 0
           \/ /\ m.op \in {"read", "write", "close", "release"}
              /\ status' = [status EXCEPT ![m.obj] = m.op]
              /\ IF blob[m.obj] = "open" /\ (m.op \in {"read", "write"} => fs = "ready")
                 THEN Submit(m, IF m.op = "release" THEN "close" ELSE m.op) /\ UNCHANGED process
                 ELSE Crash /\ UNCHANGED inflight
           \/ /\ m.op = "destroy"                      \* myfs_free
              /\ IF fs = "ready" THEN Submit(m, "bs_destroy") /\ UNCHANGED process
                                 ELSE Crash /\ UNCHANGED inflight
              /\ UNCHANGED status
    /\ UNCHANGED <<initilized, fs, blob, done, call, calls, late, torn, table>>

(* The completion callbacks.  Each consumes request r; Chain submits the *)
(* next request of the same file, Done sets the flag poller() watches.   *)
(* The chained ones use fs->bs, also when they come after myfs_destory.  *)
Chain(r, kind) == inflight' = (inflight \ {r}) \union {[r EXCEPT !.kind = kind]}
Done(r) == inflight' = inflight \ {r} /\ done' = [done EXCEPT ![r.obj] = TRUE]
Stop(r) == inflight' = inflight \ {r} /\ UNCHANGED done
Continue(r, kind) == Chain(r, kind) /\ UNCHANGED done

Breaks(r) == Crash /\ Stop(r)

(* The flag r would set lies in a frame that has returned, or in freed     *)
(* memory.                                                               *)
Outlived(r) == r.n # call.n

JsonDone(r) ==              \* json_app_load_done
    /\ r.kind = "json"
    /\ (Done(r) /\ UNCHANGED process) \/ (Outlived(r) /\ Breaks(r))
    /\ UNCHANGED <<fs, blob>>

BsInitDone(r) ==            \* myfs_blobstore_init_complete
    /\ r.kind = "bs_init"
    /\ \/ fs' = "ready" /\ Done(r) /\ UNCHANGED process
       \/ IoErrors /\ fs' = "mute" /\ Stop(r) /\ UNCHANGED process  \* no channel: not finished
       \/ IoErrors /\ Breaks(r) /\ UNCHANGED fs                     \* bs is null, and is used
    /\ UNCHANGED blob

GetSuperDone_done(r) ==     \* BUG: an error is taken for the end
    /\ r.kind = "get_super"
    /\ \/ Loaded /\ Continue(r, "create") /\ UNCHANGED process
       \/ ~Loaded /\ Breaks(r)
       \/ IoErrors /\ Done(r) /\ UNCHANGED process
    /\ UNCHANGED <<fs, blob>>
(* A store that bs_init has just made has no super blob, and nothing here *)
(* sets one: get_super gives -ENOENT or another error, which ends here,   *)
(* and never the success of lines 199-201.                               *)
GetSuperDone(r) ==
    /\ r.kind = "get_super"
    /\ \/ Loaded /\ Continue(r, "create") /\ UNCHANGED process
       \/ ~Loaded /\ Breaks(r)
       \/ IoErrors /\ Stop(r) /\ UNCHANGED process
    /\ UNCHANGED <<fs, blob>>

CreateDone(r) ==            \* bserrno is not looked at
    /\ r.kind = "create"
    /\ IF Loaded THEN Continue(r, "open") /\ UNCHANGED process ELSE Breaks(r)
    /\ UNCHANGED <<fs, blob>>

OpenDone_early(r) ==        \* BUG: the file is done before it has its size
    /\ r.kind = "open"
    /\ blob' = [blob EXCEPT ![r.obj] = "open"]
    /\ Chain(r, "resize")
    /\ done' = [done EXCEPT ![r.obj] = TRUE]
    /\ UNCHANGED <<fs, process>>
OpenDone(r) ==              \* a failed open has blob NULL, and reads blob->id
    /\ r.kind = "open"
    /\ \/ /\ Loaded /\ blob' = [blob EXCEPT ![r.obj] = "open"]
          /\ Continue(r, "resize") /\ UNCHANGED process
       \/ (IoErrors \/ ~Loaded) /\ Breaks(r) /\ UNCHANGED blob
    /\ UNCHANGED fs

FileDone(r) ==              \* bserrno is only printed
    /\ r.kind \in {"resize", "read", "write", "delete"}
    /\ Done(r) /\ UNCHANGED <<fs, blob, process>>

CloseDone(r) ==             \* bserrno is only printed; after an error the blob may be open
    /\ r.kind = "close"
    /\ \/ blob' = [blob EXCEPT ![r.obj] = "closed"]
       \/ IoErrors /\ UNCHANGED blob
    /\ CASE status[r.obj] = "close" -> Done(r) /\ UNCHANGED process
         [] status[r.obj] = "release" /\ Loaded -> Continue(r, "delete") /\ UNCHANGED process
         [] status[r.obj] = "release" /\ ~Loaded -> Breaks(r)
         [] OTHER -> Stop(r) /\ UNCHANGED process
    /\ UNCHANGED fs

BsDestroyDone(r) ==         \* myfs_blobstore_destory_complete; bserrno is not looked at
    /\ r.kind = "bs_destroy"
    /\ \/ ~Outlived(r) /\ Done(r) /\ UNCHANGED process
       \/ Outlived(r) /\ Stop(r) /\ UNCHANGED process
       \/ Outlived(r) /\ Breaks(r)
    /\ UNCHANGED <<fs, blob>>

Complete ==
    /\ call # Idle /\ posted = NoMsg /\ Running   \* only poller() runs the thread
    /\ \E r \in inflight :
          \/ JsonDone(r) \/ BsInitDone(r) \/ GetSuperDone(r) \/ CreateDone(r)
          \/ OpenDone(r) \/ FileDone(r) \/ CloseDone(r) \/ BsDestroyDone(r)
    /\ UNCHANGED <<initilized, status, call, calls, posted, late, torn, table>>
-----------------------------------------------------------------------------
(* After POLLER_MAX_TIME polls poller() gives up, whatever is in flight.  *)
MayTimeOut_never == FALSE                      \* BUG: no bound
MayTimeOut == TRUE

(* The end of poller(); every caller ignores whether it gave up.         *)
PollerReturns ==
    /\ posted = NoMsg
    /\ done[call.obj] \/ MayTimeOut
    /\ late' = (late \/ (~done[call.obj] /\ \E r \in inflight : r.n = call.n))

(* From one poller() of the setup to the next. *)
EnvReturns ==
    /\ call.op = "env" /\ PollerReturns
    /\ Poller("alloc", Null, FsFlag)
    /\ UNCHANGED <<initilized, fs, blob, status, inflight, torn, process, table>>

AllocReturns ==
    /\ call.op = "alloc" /\ PollerReturns
    /\ initilized' = TRUE
    /\ WithNewFile(IF initilized THEN "open" ELSE "creat")
    /\ UNCHANGED <<fs, blob, status, inflight, torn, process>>

(* The end of myfs_create and myfs_open: files[fd] = file.  For the fd -1 *)
(* of a full table that is a write before the array: -1 is returned, and  *)
(* what the build placed there is either of no consequence or the end.   *)
NewFileReturns_keeps ==     \* BUG: an entry that is there is not replaced
    /\ call.op \in {"creat", "open"} /\ PollerReturns
    /\ call' = Idle
    /\ IF call.fd = -1
       THEN (Crash \/ UNCHANGED process) /\ UNCHANGED <<files, handles>>
       ELSE /\ files' = [files EXCEPT ![call.fd] = IF @ = Null THEN call.obj ELSE @]
            /\ handles' = handles \union
                  {[fd |-> call.fd, from |-> call.op, file |-> call.obj, ok |-> done[call.obj]]}
            /\ UNCHANGED process
    /\ UNCHANGED <<initilized, fs, fd_table, blob, status, done, calls, posted,
                   inflight, kernel, misrouted, torn>>
NewFileReturns ==
    /\ call.op \in {"creat", "open"} /\ PollerReturns
    /\ call' = Idle
    /\ IF call.fd = -1
       THEN (Crash \/ UNCHANGED process) /\ UNCHANGED <<files, handles>>
       ELSE /\ files' = [files EXCEPT ![call.fd] = call.obj]
            /\ handles' = handles \union
                  {[fd |-> call.fd, from |-> call.op, file |-> call.obj, ok |-> done[call.obj]]}
            /\ UNCHANGED process
    /\ UNCHANGED <<initilized, fs, fd_table, blob, status, done, calls, posted,
                   inflight, kernel, misrouted, torn>>

(* The end of myfs_read, myfs_write, myfs_close and myfs_file_release.    *)
(* close gives the fd back but leaves files[fd]; release gives nothing    *)
(* back.                                                                 *)
FileCallReturns ==
    /\ call.op \in {"read", "write", "close", "release"} /\ PollerReturns
    /\ call' = Idle
    /\ fd_table' = IF call.op = "close" THEN fd_table \ {call.fd} ELSE fd_table
    /\ UNCHANGED <<initilized, fs, files, blob, status, done, calls, posted,
                   inflight, kernel, history, torn, process>>

DestroyReturns ==
    /\ call.op = "destroy" /\ PollerReturns
    /\ call' = Idle /\ fs' = "none" /\ torn' = TRUE
    /\ UNCHANGED <<initilized, blob, status, done, calls, posted, inflight,
                   process, table>>

Poll == RunMessage \/ Complete
Return ==
    /\ Running
    /\ EnvReturns \/ AllocReturns \/ NewFileReturns \/ FileCallReturns \/ DestroyReturns

Next ==
    \/ CreatFirst \/ Open \/ OpenAgain \/ KernelOpen \/ Reenter \/ Destroy
    \/ \E h \in handles : KernelClose(h) \/ \E op \in FileOp : FileCall(op, h)
    \/ Poll \/ Return

Spec == Init /\ [][Next]_vars

(* A call is a loop of the calling thread, and the blobstore completes   *)
(* what it is given: the loop keeps running messages and completions,    *)
(* and returns.                                                          *)
FairSpec == Spec /\ WF_vars(Poll) /\ WF_vars(Return)
-----------------------------------------------------------------------------
Request == [kind : {"json", "bs_init", "get_super", "create", "open", "resize",
                    "read", "write", "close", "delete", "bs_destroy"},
            obj : Object, n : Nat]
Handle == [fd : FD, from : {"kernel", "creat", "open"}, file : File \union {Null}, ok : BOOLEAN]

TypeOK ==
    /\ initilized \in BOOLEAN /\ misrouted \in BOOLEAN /\ late \in BOOLEAN /\ torn \in BOOLEAN
    /\ process \in {"running", "exited", "crashed", "reentered"}
    /\ fs \in {"none", "bare", "ready", "mute"}
    /\ fd_table \subseteq FD /\ kernel \subseteq FD
    /\ files \in [FD -> File \union {Null}]
    /\ blob \in [File -> {"none", "open", "closed"}]
    /\ done \in [Object -> BOOLEAN]
    /\ calls \in 0 .. (MaxCalls + 2)
    /\ inflight \subseteq Request /\ handles \subseteq Handle

Mine == {h \in handles : h.from # "kernel"}

(* An fd of this file system stands for the file its own creat or open   *)
(* allocated until it is closed, its bit is set, and no other open file  *)
(* has it or its struct myfs_file_s, whatever timed out or failed on the *)
(* way.  close frees the fd but leaves files[fd] (line 648): the closed  *)
(* file must not answer for the next holder of the number.  It does for  *)
(* one who got the number from the kernel, and once such a call has been *)
(* sent here nothing is claimed.                                         *)
FdsDistinct ==
    /\ TypeOK
    /\ ~misrouted => \A h \in Mine :
          /\ h.fd \in fd_table /\ files[h.fd] = h.file
          /\ \A g \in Mine \ {h} : g.fd # h.fd /\ g.file # h.file

(* A request ends inside the call that made it: no completion runs       *)
(* during a later call, whose done flag it would set, or after the frame *)
(* of myfs_spdk_env_init that holds the JSON loader's flag is gone.      *)
(* This rests on POLLER_MAX_TIME: it holds until a poller() reports      *)
(* "work not done but time out" (line 160) with its request in flight,   *)
(* which every caller ignores.                                           *)
NothingOutlivesItsCall ==
    ~late => \A r \in inflight : r.n = call.n

(* An fd that creat returned because its file was done stands for an     *)
(* open blob until it is closed, whatever failed or timed out before or  *)
(* since.  (One that creat returned because poller() gave up, and every  *)
(* one of open, whose do_open finds blobid 0, may have none.)            *)
CreatGivesBlob ==
    ~misrouted => \A h \in handles :
        h.from = "creat" /\ h.ok => blob[files[h.fd]] = "open"

(* While SPDK is set up its own open calls go to the kernel, not back    *)
(* into the file system that is being set up: the crash recorded in      *)
(* fix_core_dump.txt, which creat avoids by setting initilized after     *)
(* myfs_setup (line 704).  The setup that open starts after myfs_destory *)
(* has no such protection: initilized is still set then.                 *)
SetupIsNotReentered == process = "reentered" => torn

(* Every call returns, also open, whose do_open never sets the flag, and *)
(* creat, when get_super fails and nothing is left that could set it.    *)
EveryCallReturns == (call # Idle) ~> (call = Idle \/ ~Running)
=============================================================================
