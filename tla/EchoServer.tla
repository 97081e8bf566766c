----------------------------- MODULE EchoServer -----------------------------
(***************************************************************************)
(* The SPDK socket servers spdk_echo_server/spdk_server.c and              *)
(* KV_Store/spdk_server.c, on one reactor: the accept poller, the callback *)
(* the socket group runs for a readable connection, start-up and the       *)
(* shutdown callback; and the clients and the sockets between them, which  *)
(* are external.  The KV server differs in its callback: before it echoes  *)
(* the buffer it splits it into tokens, in place.                          *)
(*                                                                         *)
(* A client's bytes are characters of words, spaces and NULs; a byte on    *)
(* its way back is a record of its number in the client's stream and of    *)
(* what it is now.                                                         *)
(***************************************************************************)
EXTENDS Integers, Sequences, FiniteSets

CONSTANTS
    Client,
    Texts,          \* what clients may send
    BufferSize,     \* BUFFER_SIZE: the most one recv returns
    MaxTokens,      \* MAX_TOKENS: the size of the KV server's array of tokens
    Room,           \* bytes the sending side of a socket holds for a slow reader
    SockErrors      \* whether listen, getaddr and group_add_sock may fail

Kind == {"char", "space", "nul"}
Byte == [nr : Nat, is : Kind]

ASSUME EchoServerAssumption ==
    /\ IsFiniteSet(Client)
    /\ IsFiniteSet(Texts) /\ Texts # {} /\ \A t \in Texts : t \in Seq(Kind)
    /\ BufferSize \in Nat \ {0} /\ MaxTokens \in Nat \ {0} /\ Room \in Nat
    /\ SockErrors \in BOOLEAN

VARIABLES
    program,    \* "echo" or "kv", whichever server is run
    text,       \* what each client is going to send
    app,        \* "starting", "serving", "stopped" or "crashed"
    g_running,
    listener,   \* ctx->sock: "null" or "open"
    backlog,    \* connections the kernel holds for accept
    conn,       \* "none", "queued", "open", "closed"; or, when accepting it
                \* failed, "leaked" or "dropped"
    bytes_in, bytes_out,
    sent,       \* bytes each client has sent
    fin,        \* whether it has closed its sending side
    taken,      \* bytes of each client the server has received
    short,      \* history: whether a writev to it took less than it was given
    echo,       \* bytes written back and not yet read by the client
    back        \* bytes the client has read

context == <<program, text, app, g_running, listener>>
counters == <<bytes_in, bytes_out>>
client == <<sent, fin>>
vars == <<context, backlog, conn, counters, client, taken, short, echo, back>>

Init ==
    /\ program \in {"echo", "kv"}
    /\ text \in [Client -> Texts]
    /\ app = "starting" /\ g_running = FALSE /\ listener = "null"
    /\ backlog = <<>>
    /\ conn = [c \in Client |-> "none"]
    /\ bytes_in = 0 /\ bytes_out = 0
    /\ sent = [c \in Client |-> 0]
    /\ fin = [c \in Client |-> FALSE]
    /\ taken = [c \in Client |-> 0]
    /\ short = [c \in Client |-> FALSE]
    /\ echo = [c \in Client |-> <<>>]
    /\ back = [c \in Client |-> <<>>]

------------------------------------------------------------------------------
(* The clients and the kernel.                                             *)

Connect(c) ==
    /\ listener = "open" /\ conn[c] = "none"
    /\ conn' = [conn EXCEPT ![c] = "queued"]
    /\ backlog' = Append(backlog, c)
    /\ UNCHANGED <<context, counters, client, taken, short, echo, back>>

Send(c) ==
    /\ conn[c] \in {"queued", "open"} /\ ~ fin[c] /\ sent[c] < Len(text[c])
    /\ sent' = [sent EXCEPT ![c] = @ + 1]
    /\ UNCHANGED <<context, backlog, conn, counters, fin, taken, short, echo, back>>

CloseSending(c) ==
    /\ conn[c] \in {"queued", "open"} /\ ~ fin[c]
    /\ fin' = [fin EXCEPT ![c] = TRUE]
    /\ UNCHANGED <<context, backlog, conn, counters, sent, taken, short, echo, back>>

Read(c) ==
    /\ echo[c] # <<>>
    /\ back' = [back EXCEPT ![c] = Append(@, Head(echo[c]))]
    /\ echo' = [echo EXCEPT ![c] = Tail(@)]
    /\ UNCHANGED <<context, backlog, conn, counters, client, taken, short>>

------------------------------------------------------------------------------
(* The server.                                                             *)

\* sdpk_server_start and spdk_server_listen.
Start ==
    /\ app = "starting"
    /\ \/ /\ app' = "serving" /\ listener' = "open" /\ g_running' = TRUE
       \/ /\ SockErrors
          /\ app' = "stopped" /\ UNCHANGED <<listener, g_running>>
    /\ UNCHANGED <<program, text, backlog, conn, counters, client, taken, short, echo, back>>

\* A signal runs the shutdown callback; nothing reads g_running afterwards.
Shutdown ==
    /\ app = "serving" /\ g_running
    /\ g_running' = FALSE
    /\ UNCHANGED <<program, text, app, listener, backlog, conn, counters, client, taken,
                   short, echo, back>>

\* BUG: the connection is not closed.
NotAdded_kept == "leaked"

\* What becomes of a connection that could not be added to the group.
NotAdded == "dropped"

\* One run of the accept poller: it takes connections until none is left, or
\* until getaddr fails for one, which closes the listening socket and leaves
\* the connection in nobody's hands, or until adding one to the group fails,
\* which closes that connection.
AcceptLoop(k) ==
    LET joined == [c \in Client |->
                      IF \E i \in 1 .. k : backlog[i] = c THEN "open" ELSE conn[c]]
        rest == SubSeq(backlog, k + 2, Len(backlog))
    IN  \/ /\ k = Len(backlog)
           /\ conn' = joined /\ backlog' = <<>>
           /\ UNCHANGED listener
        \/ /\ SockErrors /\ k < Len(backlog)
           /\ conn' = [joined EXCEPT ![backlog[k + 1]] = "leaked"]
           /\ backlog' = rest /\ listener' = "null"
        \/ /\ SockErrors /\ k < Len(backlog)
           /\ conn' = [joined EXCEPT ![backlog[k + 1]] = NotAdded]
           /\ backlog' = rest
           /\ UNCHANGED listener

Accept ==
    /\ app = "serving" /\ listener = "open" /\ backlog # <<>>
    /\ \E k \in 0 .. Len(backlog) : AcceptLoop(k)
    /\ UNCHANGED <<program, text, app, g_running, counters, client, taken, short, echo, back>>

\* The accept poller after the listening socket was closed hands a null
\* socket to spdk_sock_accept.
AcceptOnNull ==
    /\ app = "serving" /\ listener = "null"
    /\ app' = "crashed"
    /\ UNCHANGED <<program, text, g_running, listener, backlog, conn, counters, client, taken,
                   short, echo, back>>

Unread(c) == sent[c] - taken[c]

\* BUG: the end of the stream is noticed before what is left of it is read.
AtEnd_fin(c) == fin[c]

\* recv returns 0: the client's stream has ended and is read to its end.
AtEnd(c) == fin[c] /\ Unread(c) = 0

\* What recv puts into buf.
Received(c, n) == [i \in 1 .. n |-> [nr |-> taken[c] + i, is |-> text[c][taken[c] + i]]]

\* strtok and the %s of printf take the buffer to end at its first NUL.
InString(buf, i) == \A j \in 1 .. i : buf[j].is # "nul"

\* kvs_split_tokens: where tokens begin, and the space that ends a token,
\* which strtok overwrites with a NUL.
TokenStarts(buf) ==
    {i \in 1 .. Len(buf) :
        InString(buf, i) /\ buf[i].is = "char" /\ (i = 1 \/ buf[i - 1].is = "space")}
TokenEnds(buf) ==
    {i \in 2 .. Len(buf) : InString(buf, i) /\ buf[i].is = "space" /\ buf[i - 1].is = "char"}
Split(buf) ==
    [i \in 1 .. Len(buf) |->
        IF i \in TokenEnds(buf) THEN [nr |-> buf[i].nr, is |-> "nul"] ELSE buf[i]]

\* More tokens than the array holds, or a full buffer without the NUL that
\* would end it: the C program writes or reads outside its arrays.
Overruns(buf) ==
    \/ Cardinality(TokenStarts(buf)) > MaxTokens
    \/ Len(buf) = BufferSize /\ InString(buf, BufferSize)

\* BUG: the reply has the size of the whole stream, not of this recv.
Reply_all(c, n) == [i \in 1 .. taken[c] + n |-> [nr |-> i, is |-> text[c][i]]]

\* The bytes just received, which go out in one writev; in the KV server
\* after kvs_proto_process has split them.
Reply(c, n) == IF program = "kv" THEN Split(Received(c, n)) ELSE Received(c, n)

\* What writev returns: less than asked for, or an error (0 here), when the
\* client is slow to read.
Written(c, n) == IF n <= Room - Len(echo[c]) THEN n ELSE Room - Len(echo[c])

\* spdk_server_callback with n > 0: the part of the buffer that writev does
\* not take goes with the callback's frame.
CallbackEcho(c, n) ==
    /\ ~ AtEnd(c) /\ n <= Unread(c)
    /\ taken' = [taken EXCEPT ![c] = @ + n]
    /\ bytes_in' = bytes_in + n
    /\ bytes_out' = bytes_out + Written(c, n)
    /\ short' = [short EXCEPT ![c] = @ \/ Written(c, n) < n]
    /\ echo' = [echo EXCEPT ![c] = @ \o SubSeq(Reply(c, n), 1, Written(c, n))]
    /\ UNCHANGED conn

\* spdk_server_callback with n = 0.
CallbackClose(c) ==
    /\ AtEnd(c)
    /\ conn' = [conn EXCEPT ![c] = "closed"]
    /\ UNCHANGED <<counters, taken, short, echo>>

\* The KV server's kvs_proto_process outside its arrays, when that is fatal;
\* when it is not, the callback goes on as CallbackEcho does.
CallbackOverrun(c) ==
    /\ app = "serving" /\ conn[c] = "open" /\ program = "kv"
    /\ \E n \in 1 .. BufferSize : n <= Unread(c) /\ Overruns(Received(c, n))
    /\ app' = "crashed"
    /\ UNCHANGED <<program, text, g_running, listener, backlog, conn, counters, client, taken,
                   short, echo, back>>

\* The socket group runs the callback of a readable connection; a recv that
\* fails (n < 0) only logs.
Callback(c) ==
    /\ app = "serving" /\ conn[c] = "open"
    /\ CallbackClose(c) \/ \E n \in 1 .. BufferSize : CallbackEcho(c, n)
    /\ UNCHANGED <<context, backlog, client, back>>

ServerNext == Start \/ Shutdown \/ Accept \/ AcceptOnNull \/ \E c \in Client : Callback(c) \/ CallbackOverrun(c)
ClientNext == \E c \in Client : Connect(c) \/ Send(c) \/ CloseSending(c) \/ Read(c)

Next == ServerNext \/ ClientNext

Spec == Init /\ [][Next]_vars

\* The reactor runs both pollers again and again, the group runs the callback
\* of every readable connection, and clients read what arrives.
FairSpec ==
    /\ Spec
    /\ WF_vars(Accept) /\ WF_vars(AcceptOnNull)
    /\ \A c \in Client : WF_vars(Callback(c)) /\ WF_vars(Read(c))

------------------------------------------------------------------------------
(* Properties.                                                             *)

\* The bytes of all clients, f[c] of client c, and how many they are.
Bytes(f) == UNION {{c} \X (1 .. f[c]) : c \in Client}
Total(f) == Cardinality(Bytes(f))

\* What the server has written to a client so far.
Stream(c) == back[c] \o echo[c]

TypeOK ==
    /\ program \in {"echo", "kv"} /\ text \in [Client -> Texts]
    /\ app \in {"starting", "serving", "stopped", "crashed"}
    /\ g_running \in BOOLEAN /\ listener \in {"null", "open"}
    /\ backlog \in Seq(Client)
    /\ conn \in [Client -> {"none", "queued", "open", "closed", "leaked", "dropped"}]
    /\ bytes_in \in Nat /\ bytes_out \in Nat
    /\ sent \in [Client -> Nat] /\ fin \in [Client -> BOOLEAN]
    /\ taken \in [Client -> Nat] /\ short \in [Client -> BOOLEAN]
    /\ echo \in [Client -> Seq(Byte)] /\ back \in [Client -> Seq(Byte)]

\* s is an echo of the first k bytes of the text t.
Changed(b, t) == b.is # t[b.nr]
EchoOf(s, t, k) ==
    /\ \A i \in 1 .. Len(s) :
          /\ s[i].nr \in 1 .. k
          /\ Changed(s[i], t) => program = "kv" /\ s[i].is = "nul" /\ t[s[i].nr] = "space"
    /\ \A i \in 2 .. Len(s) :
          /\ s[i - 1].nr < s[i].nr
          /\ Changed(s[i], t) => ~ Changed(s[i - 1], t)

\* A client gets its own bytes back in the order it sent them, none twice,
\* none that the callback has not received, and all that it has as long as no
\* writev to the client was short (the callback drops what a writev does not
\* take, line 119).  Every byte comes back as what it was, but the KV server
\* may turn a space that follows a word into a NUL (strtok in the buffer that
\* is echoed), and never two bytes in a row.  The context's counters account
\* for them over all connections: bytes_in for what was received, bytes_out
\* for what was written, so their difference is what writev refused.
EchoInOrder ==
    /\ TypeOK
    /\ \A c \in Client : /\ EchoOf(Stream(c), text[c], taken[c])
                         /\ ~ short[c] => Len(Stream(c)) = taken[c]
    /\ bytes_in = Total(taken)
    /\ bytes_out = Total([c \in Client |-> Len(Stream(c))])

\* One failed getaddr costs the server its listening socket and nothing else
\* does (lines 158-162): from start-up on the socket is gone exactly when the
\* connection in hand at that moment was left open and in no group, so at most
\* one connection ever leaks, however many wait behind it, and a connection
\* that could not be added to the group does not.  Nothing of a connection
\* that was not added is received; and the server dies only on the null
\* socket, or in the KV server's splitting.
OneLeakEndsAccepting ==
    /\ \A c, d \in Client : conn[c] = "leaked" /\ conn[d] = "leaked" => c = d
    /\ app \in {"serving", "crashed"} =>
          (listener = "null" <=> \E c \in Client : conn[c] = "leaked")
    /\ app = "crashed" => listener = "null" \/ program = "kv"
    /\ \A c \in Client : conn[c] \notin {"open", "closed"} => taken[c] = 0

\* Every byte sent on a connection that was accepted comes back, also when
\* the client closes its sending side early, and also after the shutdown
\* callback ran (which stops neither poller), unless a writev was short, a
\* failed accept ended the server, or the KV server met a message it has no
\* room for.
EveryByteComesBack ==
    \A c \in Client : \A i \in UNION {1 .. Len(t) : t \in Texts} :
        sent[c] >= i ~> \/ \E j \in DOMAIN back[c] : back[c][j].nr = i
                        \/ short[c] \/ conn[c] \in {"leaked", "dropped"}
                        \/ app = "crashed"
=============================================================================
