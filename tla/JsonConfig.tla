----------------------------- MODULE JsonConfig -----------------------------
(***************************************************************************)
(* src/spdk_filesystem/json_config.c: the loader that walks the parsed     *)
(* JSON configuration twice, once for STARTUP and once for RUNTIME         *)
(* methods, sending each method to the RPC server of its own process.      *)
(*                                                                         *)
(* Everything runs on one SPDK thread, one callback at a time: a posted    *)
(* message, the registered poller, or the completion of                    *)
(* spdk_subsystem_init.  A callback is one action.                         *)
(***************************************************************************)
EXTENDS Integers, Sequences, FiniteSets

CONSTANTS Configs,      \* set of configurations: sequences of subsystems
          Failures      \* set of steps that may fail: see Fails

(* A subsystem has its "config" entries and whether it can be decoded.  An *)
(* entry is the state mask of its method, "unknown" when there is no such  *)
(* method, or Malformed.                                                   *)
Malformed == "malformed"
Entry == {"startup", "runtime", "both", "unknown", Malformed}
Mask == [startup |-> {"STARTUP"}, runtime |-> {"RUNTIME"}, both |-> {"STARTUP", "RUNTIME"}]
Step == {"start", "connect", "request", "response", "init", "connection"}

ASSUME ConfigsAssumption ==
    \A c \in Configs : c \in Seq([valid : BOOLEAN, entries : Seq(Entry)])
ASSUME FailuresAssumption == Failures \subseteq Step

VARIABLES
    config,     \* the "subsystems" array
    stop_on_error,  \* the parameter of that name
    ctx,        \* struct load_json_config_ctx: "none", "live" or "freed"
    state,      \* spdk_rpc_get_state()
    sub,        \* ctx->subsystems_it, as an index; past the end is NULL
    ent,        \* ctx->config_it, as an index; past the end is NULL
    poller,     \* ctx->client_conn_poller: "none", "connect" or "client"
    msg,        \* message posted with spdk_thread_send_msg, or "none"
    request,    \* the RPC: "none", "sent", "ok" or "error" (answered)
    init,       \* spdk_subsystem_init: "none" or "pending"
    result,     \* "none", or what cb_fn was called with: "ok" or "failed"
    cbs,        \* how often cb_fn was called
    sent,       \* history: the <<sub, ent, state>> sent, in order
    cut,        \* history: a connection error ended the load while a posted
                \* message or the subsystem initialization was outstanding
    uaf         \* a callback ran on the freed context

input == <<config, stop_on_error>>
vars == <<input, ctx, state, sub, ent, poller, msg, request, init, result, cbs, sent, cut, uaf>>

Fails(step) == step \in Failures

Init ==
    /\ config \in Configs /\ stop_on_error \in BOOLEAN
    /\ ctx = "none"
    /\ state = "STARTUP"
    /\ sub = 1 /\ ent = 1
    /\ poller = "none" /\ msg = "none" /\ request = "none" /\ init = "none"
    /\ result = "none" /\ cbs = 0
    /\ sent = <<>>
    /\ cut = FALSE /\ uaf = FALSE
-----------------------------------------------------------------------------
(* app_json_config_load_done.  The poller goes with it: see Pollers. *)
LoadDone(rc) ==
    /\ result' = rc
    /\ cbs' = cbs + 1
    /\ ctx' = "freed"

GoesOn == UNCHANGED <<result, cbs, ctx>>

\* BUG: the poller stays registered.
Pollers_kept(p) == poller' = p
Pollers(p) == poller' = IF ctx' = "freed" THEN "none" ELSE p

\* BUG: a response is handled but not taken from the client.
Then_keepsRequest(s, e, m, r) ==
    sub' = s /\ ent' = e /\ msg' = m /\ request' = IF r = "none" THEN request ELSE r

\* BUG: no message is posted to go on with.
Then_unposted(s, e, m, r) == sub' = s /\ ent' = e /\ msg' = "none" /\ request' = r

(* Iterators, posted message and outstanding request after a callback.     *)
Then(s, e, m, r) == sub' = s /\ ent' = e /\ msg' = m /\ request' = r

Allowed(m, st) == st \in Mask[m]

AlreadyRun_no(m, st) == FALSE   \* BUG: methods of both states are sent twice
AlreadyRun(m, st) == Mask[m] = {"STARTUP", "RUNTIME"} /\ st = "RUNTIME"

(* app_json_config_load_subsystem_config_entry with subsystems_it = s,     *)
(* config_it = e, in RPC state st.                                         *)
LoadEntry(s, e, st) ==
    IF e > Len(config[s].entries)
    THEN Then(s + 1, e, "subsystem", "none") /\ GoesOn /\ UNCHANGED sent
    ELSE LET m == config[s].entries[e]
             known == m \notin {Malformed, "unknown"}
             skip == ~Allowed(m, st) \/ AlreadyRun(m, st)
         IN  \/ ~known /\ LoadDone("failed") /\ Then(s, e, "none", "none") /\ UNCHANGED sent
             \/ known /\ skip /\ Then(s, e + 1, "entry", "none") /\ GoesOn /\ UNCHANGED sent
             \/ /\ known /\ ~skip
                /\ Then(s, e, "none", "sent")
                /\ sent' = Append(sent, <<s, e, st>>)
                /\ GoesOn
             \/ /\ known /\ ~skip /\ Fails("request")
                /\ LoadDone("failed") /\ Then(s, e, "none", "none") /\ UNCHANGED sent

(* app_json_config_load_subsystem with subsystems_it = s *)
LoadSubsystem(s, st) ==
    \/ /\ s > Len(config) /\ st = "STARTUP"
       /\ init' = "pending"                     \* spdk_subsystem_init
       /\ Then(s, ent, "none", "none") /\ GoesOn /\ UNCHANGED sent
    \/ /\ s > Len(config) /\ st = "RUNTIME"
       /\ LoadDone("ok")
       /\ Then(s, ent, "none", "none") /\ init' = "none" /\ UNCHANGED sent
    \/ /\ s <= Len(config) /\ ~config[s].valid
       /\ LoadDone("failed")
       /\ Then(s, ent, "none", "none") /\ init' = "none" /\ UNCHANGED sent
    \/ /\ s <= Len(config) /\ config[s].valid
       /\ LoadEntry(s, 1, st)
       /\ init' = "none"
-----------------------------------------------------------------------------
(* spdk_subsystem_init_from_json_config_temp *)
Start ==
    /\ ctx = "none"
    /\ \/ ctx' = "live" /\ UNCHANGED <<result, cbs>>
       \/ Fails("start") /\ LoadDone("failed")
    /\ Pollers("connect")
    /\ UNCHANGED <<input, state, sub, ent, msg, request, init, sent, cut, uaf>>

(* rpc_client_connect_poller: any result but -ENOTCONN means connected;    *)
(* after RPC_CLIENT_CONNECT_TIMEOUT_US it gives up.                        *)
Connect ==
    /\ poller = "connect"
    /\ \/ LoadSubsystem(sub, state)
       \/ /\ Fails("connect")
          /\ LoadDone("failed") /\ UNCHANGED <<sub, ent, msg, request, init, sent>>
    /\ Pollers("client")
    /\ UNCHANGED <<input, state, cut, uaf>>

(* The RPC server, polled by the same thread, answers.                     *)
Answer ==
    /\ request = "sent"
    /\ request' \in {"ok"} \union {r \in {"error"} : Fails("response")}
    /\ UNCHANGED <<input, ctx, state, sub, ent, poller, msg, init, result, cbs, sent, cut, uaf>>

Stops == request = "error" /\ stop_on_error

(* rpc_client_poller with a response; config_entry_next is its handler.    *)
Response ==
    /\ poller = "client" /\ request \in {"ok", "error"}
    /\ \/ /\ Stops /\ LoadDone("failed")
          /\ Then(sub, ent, msg, "none") /\ UNCHANGED sent
       \/ ~Stops /\ LoadEntry(sub, ent + 1, state)
    /\ Pollers("client")
    /\ UNCHANGED <<input, state, init, cut, uaf>>

(* rpc_client_poller when spdk_jsonrpc_client_poll returns an error, which *)
(* it may at any time: the poller does not look whether a request is out.  *)
ConnectionError ==
    /\ poller = "client" /\ Fails("connection")
    /\ LoadDone("failed")
    /\ cut' = (msg # "none" \/ init = "pending")
    /\ Pollers("client")
    /\ request' = "none"
    /\ UNCHANGED <<input, state, sub, ent, msg, init, sent, uaf>>

(* subsystem_init_done *)
InitDone ==
    /\ init = "pending" /\ ctx = "live"
    /\ \/ /\ state' = "RUNTIME"
          /\ LoadSubsystem(1, "RUNTIME")
       \/ /\ Fails("init")
          /\ LoadDone("failed") /\ init' = "none"
          /\ UNCHANGED <<state, sub, ent, msg, request, sent>>
    /\ Pollers(poller)
    /\ UNCHANGED <<input, cut, uaf>>

(* The message posted "to avoid recurrence". *)
Message ==
    /\ msg # "none" /\ ctx = "live"
    /\ \/ msg = "subsystem" /\ LoadSubsystem(sub, state)
       \/ msg = "entry" /\ LoadEntry(sub, ent, state) /\ UNCHANGED init
    /\ Pollers(poller)
    /\ UNCHANGED <<input, state, cut, uaf>>

(* A callback that finds its context freed. *)
Dangling ==
    /\ ctx = "freed" /\ ~uaf
    /\ msg # "none" \/ init = "pending"
    /\ uaf' = TRUE
    /\ msg' = "none" /\ init' = "none"
    /\ UNCHANGED <<input, ctx, state, sub, ent, poller, request, result, cbs, sent, cut>>

Callback == Connect \/ Response \/ InitDone \/ Message
Next == Start \/ Answer \/ Callback \/ ConnectionError \/ Dangling

Spec == Init /\ [][Next]_vars

(* The thread keeps polling, and "there is no timeout in SPDK for any RPC  *)
(* command": the server answers every request in the end.  No connection   *)
(* error is relied on.                                                     *)
FairSpec == Spec /\ WF_vars(Start) /\ WF_vars(Answer) /\ WF_vars(Callback)
-----------------------------------------------------------------------------
Entries == UNION {{<<s, e>> : e \in 1 .. Len(config[s].entries)} :
                  s \in {t \in 1 .. Len(config) : config[t].valid}}

(* What a complete load sends: in the first walk the methods allowed in    *)
(* STARTUP, in the second those allowed in RUNTIME only.                   *)
SentIn == [STARTUP |-> {"startup", "both"}, RUNTIME |-> {"runtime"}]
Plan == {x \in {<<y[1], y[2], st>> : y \in Entries, st \in {"STARTUP", "RUNTIME"}} :
            config[x[1]].entries[x[2]] \in SentIn[x[3]]}

(* The order of the two walks. *)
Before(a, b) ==
    \/ a[3] = "STARTUP" /\ b[3] = "RUNTIME"
    \/ a[3] = b[3] /\ (a[1] < b[1] \/ (a[1] = b[1] /\ a[2] < b[2]))

Sent(x) == \E i \in 1 .. Len(sent) : sent[i] = x

TypeOK ==
    /\ ctx \in {"none", "live", "freed"} /\ state \in {"STARTUP", "RUNTIME"}
    /\ poller \in {"none", "connect", "client"} /\ msg \in {"none", "subsystem", "entry"}
    /\ request \in {"none", "sent", "ok", "error"} /\ init \in {"none", "pending"}
    /\ result \in {"none", "ok", "failed"}

(* Each method is sent at most once, and in the order of the two walks of  *)
(* the comment at lines 448-464: only what is planned is sent, in order    *)
(* and without a gap, and all of it when cb_fn is told of success.  "We    *)
(* should not call such methods twice" (line 368).                         *)
SendsThePlan ==
    /\ TypeOK
    /\ \A i \in 1 .. Len(sent) :
          /\ sent[i] \in Plan
          /\ \A j \in 1 .. Len(sent) : i < j => Before(sent[i], sent[j])
          /\ \A x \in Plan : Before(x, sent[i]) => Sent(x)
    /\ result = "ok" => \A x \in Plan : Sent(x)

(* cb_fn, the "Function called when the process is complete" (internal.h   *)
(* line 20), is called exactly once, whatever fails, by the path that      *)
(* frees the context and unregisters the poller (lines 105-117), and no    *)
(* callback of the loader runs on the freed context.  The one exception to *)
(* the last is a connection error that rpc_client_poller sees while a      *)
(* message or the subsystem initialization is outstanding (line 179).      *)
CallbackOnceAndLast ==
    /\ cbs = IF ctx = "freed" THEN 1 ELSE 0
    /\ ctx = "freed" => poller = "none"
    /\ uaf => cut

(* At any moment one thing drives the loader: a poller waiting for a       *)
(* response, a posted message, or the subsystem initialization.            *)
OneThingPending ==
    ctx = "live" /\ poller = "client" =>
       Cardinality({x \in {"m", "r", "i"} :
            \/ x = "m" /\ msg # "none"
            \/ x = "r" /\ request # "none"
            \/ x = "i" /\ init = "pending"}) = 1

(* The loader always ends by calling cb_fn. *)
AlwaysCallsBack == <>(cbs = 1)
=============================================================================
