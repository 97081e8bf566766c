------------------------------ MODULE NvmeOpera ------------------------------
(***************************************************************************)
(* The two programs that use a block device directly.  "nvme" is           *)
(* spdk_nvme/nvme_opera.c: the attach callback of every controller writes  *)
(* a text to block 0 of each active namespace and reads it back.  "kv" is  *)
(* KV_Store/kv_main.cpp: the attach callback enters controllers and        *)
(* namespaces into two lists and leaves the last controller and its first  *)
(* namespace in two globals, where main then writes and reads block 0.     *)
(* Every operation has a queue pair of its own and is polled to its        *)
(* completion.                                                             *)
(*                                                                         *)
(* The controllers are external: they may refuse a queue pair or a         *)
(* submission, and complete a command with an error status.  The           *)
(* namespaces that get_next_active_ns gives exist.                         *)
(***************************************************************************)
EXTENDS Integers, Sequences, FiniteSets

CONSTANTS
    MaxCtrlr,       \* bound: controllers the probe finds
    MaxNs,          \* bound: active namespaces of one
    Failures        \* what may fail: "qpair", "memory", "submit", "io"

ASSUME NvmeOperaAssumption ==
    /\ MaxCtrlr \in Nat /\ MaxNs \in Nat
    /\ Failures \subseteq {"qpair", "memory", "submit", "io"}

VARIABLES
    program,        \* "nvme" or "kv"
    active,         \* active namespaces of each controller the probe finds
    g_ctrlr, g_ns,  \* the lists of kv_main.cpp
    gctrlr, gns,    \* its globals; Null when not set
    ctrlr,          \* controllers attached so far
    here,           \* the namespace at hand, or Null
    op,             \* the operation at hand, "write" or "read"
    pc,             \* "probe", or in an operation: "call", "poll", "free"; or
                    \* "end" (main returned), "exit" or "crashed"
    qpairs,         \* queue pairs allocated and not freed
    cmds,           \* commands the controller has not completed, or completed
                    \* and not yet reported: [op, ns, status]
    finished,       \* the flag in the operation's frame
    mem,            \* what the operation's buffer holds
    cmb,            \* whether map_cmb gives the controllers' memory buffers
    cmbMem,         \* what the buffer of each controller holds
    media,          \* block 0 of each namespace
    wrote,          \* history: namespaces whose write printed "successful"
    printed,        \* history: what each read that printed "successful" showed
    failed          \* history: namespaces with a command completed in error

lists == <<g_ctrlr, g_ns, gctrlr, gns>>
place == <<ctrlr, here, op>>
device == <<cmbMem, media>>
frame == <<finished, mem>>
history == <<wrote, printed, failed>>
fixed == <<program, active, cmb>>
vars == <<fixed, lists, place, pc, qpairs, cmds, frame, device, history>>

Text == "text"
Null == <<0, 0>>
Ns == (1 .. MaxCtrlr) \X (1 .. MaxNs)

Init ==
    /\ program \in {"nvme", "kv"}
    /\ active \in UNION {[1 .. k -> 0 .. MaxNs] : k \in 0 .. MaxCtrlr}
    /\ g_ctrlr = <<>> /\ g_ns = <<>> /\ gctrlr = 0 /\ gns = Null
    /\ ctrlr = 0 /\ here = Null /\ op = "write" /\ pc = "probe"
    /\ qpairs = 0 /\ cmds = {}
    /\ finished = FALSE /\ mem = "zero"
    /\ cmb \in BOOLEAN
    /\ cmbMem \in [1 .. MaxCtrlr -> IF cmb THEN {"zero", "old"} ELSE {"zero"}]
    /\ media = [n \in Ns |-> "old"]
    /\ wrote = {} /\ printed = [n \in Ns |-> "nothing"]
    /\ failed = {}
------------------------------------------------------------------------------
(* Probing.                                                                *)

\* get_first_active_ns and get_ns, and what follows n: Null after the last.
FirstNs(c) == IF active[c] = 0 THEN Null ELSE <<c, 1>>
NextNs(n) == IF n[2] < active[n[1]] THEN <<n[1], n[2] + 1>> ELSE Null

\* nvme_opera_attach_callback, up to the first operation.
AttachNvme ==
    /\ program = "nvme" /\ pc = "probe" /\ ctrlr < Len(active)
    /\ ctrlr' = ctrlr + 1 /\ here' = FirstNs(ctrlr + 1) /\ op' = "write"
    /\ pc' = IF here' = Null THEN "probe" ELSE "call"
    /\ UNCHANGED <<fixed, lists, qpairs, cmds, frame, device, history>>

\* BUG: the globals keep the first controller that has a namespace, each on
\* its own.
Globals_first(c) ==
    /\ gctrlr' = IF gctrlr = 0 THEN c ELSE gctrlr
    /\ gns' = IF gns = Null THEN FirstNs(c) ELSE gns
Globals(c) == gctrlr' = c /\ gns' = FirstNs(c)

\* nvme_attach_cb: a queue pair that is refused is entered as null; malloc
\* may fail for the controller's entry or for a namespace's.
AttachKv ==
    LET c == ctrlr + 1
        Enter(k) == g_ns' = g_ns \o [i \in 1 .. k |-> [ns |-> <<c, i>>, ctrlr |-> c]]
    IN  /\ program = "kv" /\ pc = "probe" /\ ctrlr < Len(active)
        /\ ctrlr' = c /\ Globals(c)
        /\ \E got \in IF "qpair" \in Failures THEN BOOLEAN ELSE {TRUE} :
              /\ qpairs' = IF got THEN qpairs + 1 ELSE qpairs
              /\ \/ /\ "memory" \in Failures
                    /\ pc' = "exit" /\ UNCHANGED <<g_ctrlr, g_ns>>
                 \/ /\ g_ctrlr' = Append(g_ctrlr, [ctrlr |-> c, qpair |-> got])
                    /\ \/ Enter(active[c]) /\ UNCHANGED pc
                       \/ /\ "memory" \in Failures
                          /\ \E k \in 0 .. active[c] - 1 : Enter(k)
                          /\ pc' = "exit"
        /\ UNCHANGED <<fixed, here, op, cmds, frame, device, history>>

\* The probe is over: main returns in nvme_opera.c; in kv_main.cpp it turns
\* to the globals, and hands a null controller to alloc_io_qpair when nothing
\* was attached.
Probed ==
    /\ pc = "probe" /\ ctrlr = Len(active)
    /\ IF program = "kv" THEN here' = gns /\ pc' = IF gctrlr = 0 THEN "crashed" ELSE "call"
                         ELSE pc' = "end" /\ UNCHANGED here
    /\ UNCHANGED <<fixed, lists, ctrlr, op, qpairs, cmds, frame, device, history>>
------------------------------------------------------------------------------
(* The operations.                                                         *)

\* After an operation nvme_opera.c goes on with the next, whatever the
\* operation returned; kv_main.cpp reads after its write, and ends.
Proceed ==
    \/ op = "write" /\ pc' = "call" /\ op' = "read" /\ UNCHANGED here
    \/ /\ op = "read" /\ program = "nvme" /\ op' = "write"
       /\ here' = NextNs(here) /\ pc' = IF here' = Null THEN "probe" ELSE "call"
    \/ op = "read" /\ program = "kv" /\ pc' = "end" /\ UNCHANGED <<op, here>>

\* No queue pair: the operation returns -1, and so does main when it is the
\* write that kv_main.cpp makes there.
Refuse ==
    /\ pc = "call" /\ "qpair" \in Failures
    /\ IF program = "kv" /\ op = "write" THEN pc' = "end" /\ UNCHANGED <<op, here>> ELSE Proceed
    /\ UNCHANGED <<fixed, lists, ctrlr, qpairs, cmds, frame, device, history>>

\* The controller the operation is given.
Ctrlr == IF program = "kv" THEN gctrlr ELSE ctrlr

\* The buffer is the controller's memory buffer, or else zeroed memory; a
\* write puts the text in it.
Buffer == IF op = "write" THEN Text ELSE IF cmb THEN cmbMem[Ctrlr] ELSE "zero"

\* There is no memory for the buffer: kv_main.cpp ends before its write,
\* nvme_opera_write copies the text to null, and a read into null is refused
\* (exit(1)) or else completed with an error.
NoBuffer ==
    /\ pc = "call" /\ "memory" \in Failures /\ ~ cmb
    /\ qpairs' = qpairs + 1
    /\ \/ /\ pc' = CASE op = "read" -> "exit"
                     [] op = "write" /\ program = "kv" -> "end"
                     [] op = "write" /\ program = "nvme" -> "crashed"
          /\ UNCHANGED <<cmds, frame, failed>>
       \/ /\ op = "read" /\ here # Null /\ pc' = "poll"
          /\ mem' = "null" /\ finished' = FALSE
          /\ cmds' = cmds \union {[op |-> op, ns |-> here, status |-> "error"]}
          /\ failed' = failed \union {here}
    /\ UNCHANGED <<fixed, lists, place, device, wrote, printed>>

\* ns_cmd_write and ns_cmd_read use the namespace; a refusal is exit(1).
Submit ==
    /\ pc = "call"
    /\ qpairs' = qpairs + 1
    /\ mem' = Buffer
    /\ cmbMem' = IF cmb THEN [cmbMem EXCEPT ![Ctrlr] = Buffer] ELSE cmbMem
    /\ finished' = FALSE
    /\ \/ here = Null /\ pc' = "crashed" /\ UNCHANGED cmds
       \/ /\ here # Null /\ pc' = "poll"
          /\ cmds' = cmds \union {[op |-> op, ns |-> here, status |-> "none"]}
       \/ here # Null /\ "submit" \in Failures /\ pc' = "exit" /\ UNCHANGED cmds
    /\ UNCHANGED <<fixed, lists, place, media, history>>

\* The controller carries out a command, or fails it.
Execute(c) ==
    /\ c.status = "none"
    /\ \/ /\ cmds' = (cmds \ {c}) \union {[c EXCEPT !.status = "success"]}
          /\ media' = IF c.op = "write" THEN [media EXCEPT ![c.ns] = mem] ELSE media
          /\ mem' = IF c.op = "read" THEN media[c.ns] ELSE mem
          /\ cmbMem' = IF cmb THEN [cmbMem EXCEPT ![Ctrlr] = mem'] ELSE cmbMem
          /\ UNCHANGED failed
       \/ /\ "io" \in Failures
          /\ cmds' = (cmds \ {c}) \union {[c EXCEPT !.status = "error"]}
          /\ failed' = failed \union {c.ns}
          /\ UNCHANGED <<media, mem, cmbMem>>
    /\ UNCHANGED <<fixed, lists, place, pc, qpairs, finished, wrote, printed>>

\* BUG: the loop polls once.
LoopEnds_once(done) == TRUE

\* while (!finished)
LoopEnds(done) == done

\* process_completions, and the write or read callback for each completed
\* command, which sets the flag and does not look at the status.
ProcessCompletions ==
    LET completed == {c \in cmds : c.status # "none"}
    IN  /\ pc = "poll"
        /\ cmds' = cmds \ completed
        /\ finished' = (finished \/ completed # {})
        /\ pc' = IF LoopEnds(finished') THEN "free" ELSE "poll"
        /\ UNCHANGED <<fixed, lists, place, qpairs, mem, device, history>>

\* BUG: the queue pair stays allocated.
Released_not == qpairs

Released == qpairs - 1

\* The operation frees its queue pair, prints "successful" and returns.
Finish ==
    /\ pc = "free"
    /\ qpairs' = Released
    /\ wrote' = IF op = "write" THEN wrote \union {here} ELSE wrote
    /\ printed' = IF op = "read" THEN [printed EXCEPT ![here] = mem] ELSE printed
    /\ Proceed
    /\ UNCHANGED <<fixed, lists, ctrlr, cmds, frame, device, failed>>

Next ==
    \/ AttachNvme \/ AttachKv \/ Probed \/ Refuse \/ NoBuffer \/ Submit
    \/ (\E c \in cmds : Execute(c)) \/ ProcessCompletions \/ Finish

Spec == Init /\ [][Next]_vars

------------------------------------------------------------------------------
(* Properties.                                                             *)

TypeOK ==
    /\ program \in {"nvme", "kv"} /\ ctrlr \in 0 .. Len(active)
    /\ here \in Ns \union {Null} /\ op \in {"write", "read"}
    /\ pc \in {"probe", "call", "poll", "free", "end", "exit", "crashed"}
    /\ finished \in BOOLEAN /\ media \in [Ns -> {"old", Text, "zero"}]
    /\ qpairs \in Nat

\* The queue pairs the entries of kv_main.cpp keep.
Kept == Cardinality({i \in DOMAIN g_ctrlr : g_ctrlr[i].qpair})

\* A command is with the controller only while the operation that submitted
\* it polls, so the callback's pointer to the flag and the buffer are never
\* used after their operation has returned; and between two operations every
\* queue pair has been freed but those in the list of controllers, on the
\* path that gets no queue pair too.
NothingOutlivesItsOperation ==
    /\ TypeOK
    /\ \A c \in cmds : pc = "poll" /\ c.op = op /\ c.ns = here
    /\ pc \in {"probe", "call"} => qpairs = Kept

\* A read prints the text its namespace's write put there, if both printed
\* "successful" and the controller completed both without error: the callbacks
\* do not look at the status (line 14), so after an error the message is
\* printed all the same.
ReadsBackText ==
    \A n \in wrote \ failed :
        /\ media[n] = Text
        /\ printed[n] # "nothing" => printed[n] = Text

\* What main of kv_main.cpp works on is in its lists: the globals stand for
\* one controller, the one attached last, and for that controller's first
\* namespace, never for a namespace of another; the list of namespaces has
\* each once, under its controller.  main meets a null pointer only when no
\* controller was attached or the last one has no namespace (line 45), even
\* if others have.
GlobalsMatchLists ==
    (program = "kv" /\ pc # "exit") =>
        /\ gctrlr = Len(g_ctrlr) /\ gctrlr = ctrlr
        /\ gctrlr # 0 => g_ctrlr[gctrlr].ctrlr = gctrlr
        /\ \A i, j \in DOMAIN g_ns : g_ns[i].ns = g_ns[j].ns => i = j
        /\ \A i \in DOMAIN g_ns : g_ns[i].ctrlr = g_ns[i].ns[1]
        /\ gns # Null => gns[1] = gctrlr /\ \E i \in DOMAIN g_ns : g_ns[i].ns = gns
        /\ pc = "crashed" => gctrlr = 0 \/ active[gctrlr] = 0
==============================================================================
