-------------------------- MODULE JsonConfig_proof --------------------------
(***************************************************************************)
(* Proofs about JsonConfig for any set of configurations and any choice of *)
(* what may fail: the loader is driven by one thing at a time, and calls   *)
(* back once.                                                              *)
(***************************************************************************)
EXTENDS JsonConfig, FiniteSetTheorems, TLAPS

(* Nothing that would call into the loader is outstanding. *)
Nothing == msg = "none" /\ request = "none" /\ init = "none"

(* The loader waits for one of a posted message, a response and the        *)
(* subsystem initialization.                                               *)
OneOf ==
    \/ msg # "none" /\ request = "none" /\ init = "none"
    \/ msg = "none" /\ request # "none" /\ init = "none"
    \/ msg = "none" /\ request = "none" /\ init = "pending"

Types == TypeOK /\ cut \in BOOLEAN /\ uaf \in BOOLEAN /\ cbs \in {0, 1}

(* What is outstanding before, during and after the life of the context: a *)
(* context is freed with nothing outstanding unless a connection error     *)
(* freed it.                                                               *)
Phases ==
    /\ ctx = "none" => poller = "none" /\ Nothing
    /\ ctx = "live" => \/ poller = "connect" /\ Nothing
                       \/ poller = "client" /\ OneOf
    /\ ctx = "freed" => /\ poller = "none" /\ request = "none"
                        /\ cut \/ (msg = "none" /\ init = "none")

Calls == cbs = (IF ctx = "freed" THEN 1 ELSE 0) /\ (uaf => cut) /\ (cut => ctx = "freed")

IInv == Types /\ Phases /\ Calls
-----------------------------------------------------------------------------
(* What a handler that goes on through the walk leaves: the end of the     *)
(* load with nothing outstanding, or one thing that goes on.               *)
Handled ==
    \/ /\ ctx' = "freed" /\ cbs' = cbs + 1 /\ result' \in {"ok", "failed"}
       /\ Nothing'
    \/ /\ ctx' = ctx /\ cbs' = cbs /\ result' = result
       /\ OneOf'

Outstanding ==
    /\ msg' \in {"none", "subsystem", "entry"} /\ init' \in {"none", "pending"}
    /\ request' \in {"none", "sent"}

LEMMA LoadEntryHandles ==
    ASSUME NEW s, NEW e, NEW st, LoadEntry(s, e, st), init' = "none"
    PROVE  Handled /\ Outstanding
BY DEF LoadEntry, LoadDone, GoesOn, Then, Handled, Outstanding, Nothing, OneOf

LEMMA LoadSubsystemHandles ==
    ASSUME NEW s, NEW st, LoadSubsystem(s, st)
    PROVE  Handled /\ Outstanding
<1>1. CASE init' = "pending" /\ Then(s, ent, "none", "none") /\ GoesOn
  BY <1>1 DEF GoesOn, Then, Handled, Outstanding, OneOf
<1>2. CASE /\ LoadDone("ok") \/ LoadDone("failed")
           /\ Then(s, ent, "none", "none") /\ init' = "none"
  BY <1>2 DEF LoadDone, Then, Handled, Outstanding, Nothing
<1>3. CASE LoadEntry(s, 1, st) /\ init' = "none"
  BY <1>3, LoadEntryHandles
<1>. QED BY <1>1, <1>2, <1>3 DEF LoadSubsystem

(* A callback of the live loader that leaves it handled keeps the          *)
(* invariant.                                                              *)
LEMMA HandledKeeps ==
    ASSUME IInv, ctx = "live", Handled, Outstanding, state' \in {"STARTUP", "RUNTIME"},
           poller' = IF ctx' = "freed" THEN "none" ELSE "client", UNCHANGED <<cut, uaf>>
    PROVE  IInv'
<1>1. cbs = 0 /\ cut = FALSE /\ uaf = FALSE /\ result \in {"none", "ok", "failed"}
  BY DEF IInv, Types, TypeOK, Calls
<1>2. CASE ctx' = "freed" /\ cbs' = cbs + 1 /\ result' \in {"ok", "failed"} /\ Nothing'
  <2>1. poller' = "none" /\ cbs' = 1 /\ cut' = cut /\ uaf' = uaf
    BY <1>1, <1>2
  <2>2. Types'
    BY <1>2, <2>1 DEF IInv, Types, TypeOK, Outstanding
  <2>. QED BY <1>1, <1>2, <2>1, <2>2 DEF IInv, Phases, Calls, Nothing
<1>3. CASE ctx' = ctx /\ cbs' = cbs /\ result' = result /\ OneOf'
  <2>1. poller' = "client" /\ ctx' = "live" /\ cut' = cut /\ uaf' = uaf
    BY <1>3
  <2>2. Types'
    BY <1>3, <2>1 DEF IInv, Types, TypeOK, Outstanding
  <2>. QED BY <1>1, <1>3, <2>1, <2>2 DEF IInv, Phases, Calls
<1>. QED BY <1>2, <1>3 DEF Handled

LEMMA Initially == Init => IInv
<1>. SUFFICES ASSUME Init PROVE IInv
  OBVIOUS
<1>1. cut \in BOOLEAN /\ uaf \in BOOLEAN
  BY Zenon DEF Init
<1>. QED BY <1>1 DEF Init, IInv, Types, TypeOK, Phases, Nothing, Calls

LEMMA Step_Start == IInv /\ Start => IInv'
<1>. SUFFICES ASSUME IInv, Start PROVE IInv'
  OBVIOUS
<1>1. /\ ctx = "none" /\ poller' = IF ctx' = "freed" THEN "none" ELSE "connect"
      /\ \/ ctx' = "live" /\ result' = result /\ cbs' = cbs
         \/ ctx' = "freed" /\ result' = "failed" /\ cbs' = cbs + 1
      /\ UNCHANGED <<state, msg, request, init, cut, uaf>>
  BY DEF Start, LoadDone, Pollers
<1>2. Nothing /\ cbs = 0
  BY <1>1 DEF IInv, Phases, Calls
<1>3. Types'
  BY <1>1, <1>2 DEF IInv, Types, TypeOK
<1>. QED BY <1>1, <1>2, <1>3 DEF IInv, Phases, Nothing, Calls

LEMMA Step_Connect == IInv /\ Connect => IInv'
<1>. SUFFICES ASSUME IInv, Connect PROVE IInv'
  OBVIOUS
<1>1. ctx = "live" /\ Nothing /\ state \in {"STARTUP", "RUNTIME"}
  BY DEF Connect, IInv, Types, TypeOK, Phases
<1>2. /\ poller' = IF ctx' = "freed" THEN "none" ELSE "client"
      /\ UNCHANGED <<state, cut, uaf>>
  BY DEF Connect, Pollers
<1>3. Handled /\ Outstanding
  <2>1. CASE LoadSubsystem(sub, state)
    BY <2>1, LoadSubsystemHandles
  <2>2. CASE LoadDone("failed") /\ UNCHANGED <<sub, ent, msg, request, init, sent>>
    BY <1>1, <2>2 DEF LoadDone, Handled, Outstanding, Nothing
  <2>. QED BY <2>1, <2>2 DEF Connect
<1>. QED BY <1>1, <1>2, <1>3, HandledKeeps

LEMMA Step_Answer == IInv /\ Answer => IInv'
<1>. SUFFICES ASSUME IInv, Answer PROVE IInv'
  OBVIOUS
<1>1. /\ request = "sent" /\ request' \in {"ok", "error"}
      /\ UNCHANGED <<ctx, state, poller, msg, init, result, cbs, cut, uaf>>
  BY DEF Answer
<1>2. Types'
  BY <1>1 DEF IInv, Types, TypeOK
<1>. QED BY <1>1, <1>2 DEF IInv, Phases, Nothing, OneOf, Calls

LEMMA Step_Response == IInv /\ Response => IInv'
<1>. SUFFICES ASSUME IInv, Response PROVE IInv'
  OBVIOUS
<1>1. /\ ctx = "live" /\ msg = "none" /\ init = "none" /\ state \in {"STARTUP", "RUNTIME"}
  BY DEF Response, IInv, Types, TypeOK, Phases, OneOf, Nothing
<1>2. /\ poller' = IF ctx' = "freed" THEN "none" ELSE "client"
      /\ UNCHANGED <<state, cut, uaf, init>>
  BY DEF Response, Pollers
<1>3. Handled /\ Outstanding
  <2>1. CASE LoadEntry(sub, ent + 1, state)
    BY <1>1, <1>2, <2>1, LoadEntryHandles
  <2>2. CASE LoadDone("failed") /\ Then(sub, ent, msg, "none")
    BY <1>1, <1>2, <2>2 DEF LoadDone, Then, Handled, Outstanding, Nothing
  <2>. QED BY <2>1, <2>2 DEF Response
<1>. QED BY <1>1, <1>2, <1>3, HandledKeeps

LEMMA Step_ConnectionError == IInv /\ ConnectionError => IInv'
<1>. SUFFICES ASSUME IInv, ConnectionError PROVE IInv'
  OBVIOUS
<1>1. /\ poller = "client" /\ ctx' = "freed" /\ result' = "failed" /\ cbs' = cbs + 1
      /\ cut' = (msg # "none" \/ init = "pending") /\ poller' = "none" /\ request' = "none"
      /\ UNCHANGED <<state, msg, init, uaf>>
  BY DEF ConnectionError, LoadDone, Pollers
<1>2. ctx = "live" /\ cbs = 0 /\ uaf = FALSE
  BY <1>1 DEF IInv, Types, TypeOK, Phases, Calls
<1>3. cut' \in BOOLEAN /\ (cut' <=> msg # "none" \/ init = "pending")
  BY <1>1, Zenon
<1>4. uaf' \in BOOLEAN /\ ~uaf'
  BY <1>1, <1>2, Zenon
<1>5. init \in {"none", "pending"}
  BY DEF IInv, Types, TypeOK
<1>6. Types'
  BY <1>1, <1>2, <1>3, <1>4 DEF IInv, Types, TypeOK
<1>. QED BY <1>1, <1>2, <1>3, <1>4, <1>5, <1>6 DEF IInv, Phases, Calls

LEMMA Step_InitDone == IInv /\ InitDone => IInv'
<1>. SUFFICES ASSUME IInv, InitDone PROVE IInv'
  OBVIOUS
<1>1. ctx = "live" /\ poller = "client" /\ msg = "none" /\ request = "none"
      /\ state \in {"STARTUP", "RUNTIME"}
  BY DEF InitDone, IInv, Types, TypeOK, Phases, OneOf, Nothing
<1>2. /\ poller' = IF ctx' = "freed" THEN "none" ELSE "client"
      /\ UNCHANGED <<cut, uaf>> /\ state' \in {"STARTUP", "RUNTIME"}
  BY <1>1 DEF InitDone, Pollers
<1>3. Handled /\ Outstanding
  <2>1. CASE LoadSubsystem(1, "RUNTIME")
    BY <2>1, LoadSubsystemHandles
  <2>2. CASE LoadDone("failed") /\ init' = "none" /\ UNCHANGED <<state, sub, ent, msg, request, sent>>
    BY <1>1, <2>2 DEF LoadDone, Handled, Outstanding, Nothing
  <2>. QED BY <2>1, <2>2 DEF InitDone
<1>. QED BY <1>1, <1>2, <1>3, HandledKeeps

LEMMA Step_Message == IInv /\ Message => IInv'
<1>. SUFFICES ASSUME IInv, Message PROVE IInv'
  OBVIOUS
<1>1. ctx = "live" /\ poller = "client" /\ request = "none" /\ init = "none"
      /\ state \in {"STARTUP", "RUNTIME"}
  BY DEF Message, IInv, Types, TypeOK, Phases, OneOf, Nothing
<1>2. /\ poller' = IF ctx' = "freed" THEN "none" ELSE "client"
      /\ UNCHANGED <<state, cut, uaf>>
  BY <1>1 DEF Message, Pollers
<1>3. Handled /\ Outstanding
  <2>1. CASE LoadSubsystem(sub, state)
    BY <2>1, LoadSubsystemHandles
  <2>2. CASE LoadEntry(sub, ent, state) /\ UNCHANGED init
    BY <1>1, <2>2, LoadEntryHandles
  <2>. QED BY <2>1, <2>2 DEF Message
<1>. QED BY <1>1, <1>2, <1>3, HandledKeeps

LEMMA Step_Dangling == IInv /\ Dangling => IInv'
<1>. SUFFICES ASSUME IInv, Dangling PROVE IInv'
  OBVIOUS
<1>1. /\ ctx = "freed" /\ uaf' = TRUE /\ msg' = "none" /\ init' = "none" /\ cut
      /\ UNCHANGED <<ctx, state, poller, request, result, cbs, cut>>
  BY DEF Dangling, IInv, Phases, Nothing
<1>2. uaf' \in BOOLEAN
  BY <1>1, Zenon
<1>3. Types'
  BY <1>1, <1>2 DEF IInv, Types, TypeOK
<1>. QED BY <1>1, <1>3 DEF IInv, Phases, Calls

LEMMA Inductive == Spec => []IInv
<1>1. IInv /\ [Next]_vars => IInv'
  <2>. SUFFICES ASSUME IInv, [Next]_vars PROVE IInv'
    OBVIOUS
  <2>1. CASE UNCHANGED vars
    BY <2>1 DEF vars, input, IInv, Types, TypeOK, Phases, Nothing, OneOf, Calls
  <2>. QED
    BY <2>1, Step_Start, Step_Connect, Step_Answer, Step_Response, Step_ConnectionError,
       Step_InitDone, Step_Message, Step_Dangling DEF Next, Callback
<1>. QED BY <1>1, Initially, PTL DEF Spec

(* Whatever the configuration and whatever fails, app_json_config_load_done *)
(* calls cb_fn exactly once, the poller is gone with the context, and only *)
(* a connection error can leave a callback to run on the freed context.    *)
THEOREM CallsBackOnce == Spec => []CallbackOnceAndLast
<1>1. IInv => CallbackOnceAndLast
  BY DEF IInv, Phases, Calls, CallbackOnceAndLast
<1>. QED BY <1>1, Inductive, PTL

(* Whatever the configuration, the connected loader always waits for one   *)
(* thing: two never walk the configuration at once, and it never waits for *)
(* nothing.                                                                *)
THEOREM OneAtATime == Spec => []OneThingPending
<1>1. IInv => OneThingPending
  <2>. SUFFICES ASSUME IInv, ctx = "live", poller = "client" PROVE OneThingPending
    BY DEF OneThingPending
  <2>. DEFINE P == {x \in {"m", "r", "i"} :
                      \/ x = "m" /\ msg # "none"
                      \/ x = "r" /\ request # "none"
                      \/ x = "i" /\ init = "pending"}
  <2>1. OneOf
    BY DEF IInv, Phases
  <2>2. P = {"m"} \/ P = {"r"} \/ P = {"i"}
    BY <2>1 DEF OneOf
  <2>3. Cardinality(P) = 1
    BY <2>2, FS_Singleton
  <2>. QED BY <2>3 DEF OneThingPending
<1>. QED BY <1>1, Inductive, PTL
-----------------------------------------------------------------------------
(* What is sent.                                                           *)

States == {"STARTUP", "RUNTIME"}

Valid(s) == s \in 1 .. Len(config) /\ config[s].valid

Due(s, e, st) ==
    /\ Valid(s) /\ e \in 1 .. Len(config[s].entries) /\ st \in States
    /\ config[s].entries[e] \in SentIn[st]

LEMMA PlanIs ==
    /\ \A s, e, st : Due(s, e, st) => <<s, e, st>> \in Plan
    /\ \A x \in Plan : \E s, e, st : x = <<s, e, st>> /\ Due(s, e, st)
<1>1. ASSUME NEW s, NEW e, NEW st, Due(s, e, st) PROVE <<s, e, st>> \in Plan
  <2>1. <<s, e>> \in Entries
    BY <1>1 DEF Due, Valid, Entries
  <2>. QED BY <1>1, <2>1 DEF Due, States, Plan
<1>2. ASSUME NEW x \in Plan PROVE \E s, e, st : x = <<s, e, st>> /\ Due(s, e, st)
  <2>1. PICK y \in Entries, st \in States : x = <<y[1], y[2], st>> /\ config[x[1]].entries[x[2]] \in SentIn[x[3]]
    BY DEF Plan, States
  <2>2. Valid(y[1]) /\ y[2] \in 1 .. Len(config[y[1]].entries)
    BY DEF Entries, Valid
  <2>3. Due(y[1], y[2], st)
    BY <2>1, <2>2 DEF Due
  <2>. QED BY <2>1, <2>3
<1>. QED BY <1>1, <1>2

Has(q, x) == \E i \in 1 .. Len(q) : q[i] = x

(* q sends some first part of the plan P. *)
Sends(P, q) ==
    /\ q \in Seq(P)
    /\ \A i, j \in 1 .. Len(q) : i < j => Before(q[i], q[j])
    /\ \A i \in 1 .. Len(q) : \A x \in P : Before(x, q[i]) => Has(q, x)

(* The walk that has sent q has come as far as entry e of subsystem s. *)
Done(P, q, s, e, st) == \A x \in P : Has(q, x) <=> Before(x, <<s, e, st>>)

(* An entry that is not sent is passed over. *)
LEMMA PassOver ==
    ASSUME NEW q, NEW s \in Int, NEW e \in Int, NEW st \in States, ~Due(s, e, st),
           Done(Plan, q, s, e, st)
    PROVE  Done(Plan, q, s, e + 1, st)
<1>1. ASSUME NEW x \in Plan PROVE Before(x, <<s, e + 1, st>>) <=> Before(x, <<s, e, st>>)
  <2>1. PICK t, f, su : x = <<t, f, su>> /\ Due(t, f, su)
    BY PlanIs
  <2>2. t \in Int /\ f \in Int /\ ~ (t = s /\ f = e /\ su = st)
    BY <2>1 DEF Due, Valid
  <2>. QED BY <2>1, <2>2 DEF Before
<1>. QED BY <1>1 DEF Done

(* The next subsystem. *)
LEMMA NextSubsystem ==
    ASSUME NEW q, NEW s \in Int, NEW e \in Int, NEW st \in States, e > Len(config[s].entries),
           \A t \in 1 .. Len(config) : Len(config[t].entries) \in Nat,
           Done(Plan, q, s, e, st)
    PROVE  Done(Plan, q, s + 1, 1, st)
<1>1. ASSUME NEW x \in Plan PROVE Before(x, <<s + 1, 1, st>>) <=> Before(x, <<s, e, st>>)
  <2>1. PICK t, f, su : x = <<t, f, su>> /\ Due(t, f, su)
    BY PlanIs
  <2>2. t \in Int /\ f \in Int /\ f >= 1 /\ (t = s => f < e)
    BY <2>1 DEF Due, Valid
  <2>. QED BY <2>1, <2>2 DEF Before
<1>. QED BY <1>1 DEF Done

(* The end of the first walk, and of the second. *)
LEMMA EndOfWalk ==
    ASSUME NEW q, Len(config) \in Nat, NEW s \in Int, s > Len(config)
    PROVE  /\ Done(Plan, q, s, 1, "STARTUP") => Done(Plan, q, 1, 1, "RUNTIME")
           /\ Done(Plan, q, s, 1, "RUNTIME") => \A x \in Plan : Has(q, x)
<1>1. ASSUME NEW x \in Plan
      PROVE  /\ Before(x, <<1, 1, "RUNTIME">>) <=> Before(x, <<s, 1, "STARTUP">>)
             /\ Before(x, <<s, 1, "RUNTIME">>)
  <2>1. PICK t, f, su : x = <<t, f, su>> /\ Due(t, f, su)
    BY PlanIs
  <2>2. t \in Int /\ t >= 1 /\ t < s /\ f \in Int /\ f >= 1 /\ su \in States
    BY <2>1 DEF Due, Valid
  <2>. QED BY <2>1, <2>2 DEF Before, States
<1>. QED BY <1>1 DEF Done

(* The entry the walk has come to is sent. *)
LEMMA SendNext ==
    ASSUME NEW q, Sends(Plan, q), NEW s, NEW e, NEW st, Due(s, e, st), Done(Plan, q, s, e, st)
    PROVE  LET r == Append(q, <<s, e, st>>) IN Sends(Plan, r) /\ Done(Plan, r, s, e + 1, st)
<1> DEFINE y == <<s, e, st>>
           r == Append(q, y)
<1>1. y \in Plan /\ s \in Int /\ e \in Int /\ st \in States
  BY PlanIs DEF Due, Valid
<1>2. q \in Seq(Plan) /\ Len(q) \in Nat
  BY DEF Sends
<1>3. r \in Seq(Plan) /\ Len(r) = Len(q) + 1 /\ r[Len(q) + 1] = y /\ \A i \in 1 .. Len(q) : r[i] = q[i]
  BY <1>1, <1>2
<1>. HIDE DEF r
<1>4. ASSUME NEW x \in Plan PROVE Before(x, <<s, e + 1, st>>) <=> Before(x, y) \/ x = y
  <2>1. PICK t, f, su : x = <<t, f, su>> /\ Due(t, f, su)
    BY PlanIs
  <2>2. t \in Int /\ f \in Int
    BY <2>1 DEF Due, Valid
  <2>. QED BY <1>1, <2>1, <2>2 DEF Before
<1>. HIDE DEF y
<1>5. ASSUME NEW x PROVE Has(r, x) <=> Has(q, x) \/ x = y
  <2>1. Len(q) + 1 \in 1 .. Len(r) /\ \A i \in 1 .. Len(r) : i \in 1 .. Len(q) \/ i = Len(q) + 1
    BY <1>2, <1>3
  <2>2. \A i \in 1 .. Len(q) : i \in 1 .. Len(r)
    BY <1>2, <1>3
  <2>. QED BY <1>3, <2>1, <2>2 DEF Has
<1>6. ASSUME NEW i \in 1 .. Len(q) PROVE q[i] \in Plan /\ Before(q[i], y)
  <2>1. q[i] \in Plan /\ Has(q, q[i])
    BY <1>2 DEF Has
  <2>. QED BY <2>1 DEF Done, y
<1>7. ASSUME NEW i \in 1 .. Len(r), NEW j \in 1 .. Len(r), i < j PROVE Before(r[i], r[j])
  <2>1. i \in 1 .. Len(q)
    BY <1>2, <1>3, <1>7
  <2>2. CASE j \in 1 .. Len(q)
    BY <1>3, <1>7, <2>1, <2>2 DEF Sends
  <2>3. CASE j = Len(q) + 1
    BY <1>3, <1>6, <2>1, <2>3
  <2>. QED BY <1>2, <1>3, <2>2, <2>3
<1>8. ASSUME NEW i \in 1 .. Len(r), NEW x \in Plan, Before(x, r[i]) PROVE Has(r, x)
  <2>1. CASE i \in 1 .. Len(q)
    BY <1>3, <1>5, <1>8, <2>1 DEF Sends
  <2>2. CASE i = Len(q) + 1
    BY <1>3, <1>5, <1>8, <2>2 DEF Done, y
  <2>. QED BY <1>2, <1>3, <2>1, <2>2
<1>9. Done(Plan, r, s, e + 1, st)
  BY <1>4, <1>5 DEF Done, y
<1>. QED BY <1>3, <1>7, <1>8, <1>9 DEF Sends, r, y

(* What the walk has come to, by what is outstanding. *)
Position ==
    /\ sub \in Nat \ {0} /\ ent \in Nat \ {0}
    /\ ctx # "freed" => result = "none"
    /\ result = "ok" => \A x \in Plan : Has(sent, x)
    /\ ctx = "none" \/ poller = "connect" =>
          state = "STARTUP" /\ sub = 1 /\ Done(Plan, sent, 1, 1, "STARTUP")
    /\ ctx = "live" =>
          /\ msg = "subsystem" => Done(Plan, sent, sub, 1, state)
          /\ msg = "entry" => Valid(sub) /\ Done(Plan, sent, sub, ent, state)
          /\ request # "none" => Valid(sub) /\ Done(Plan, sent, sub, ent + 1, state)
          /\ init = "pending" => Done(Plan, sent, 1, 1, "RUNTIME")

Walk == config \in Configs /\ Sends(Plan, sent) /\ Position

LEMMA Member == ASSUME NEW A, NEW c \in Seq(A), NEW i \in 1 .. Len(c) PROVE c[i] \in A
OBVIOUS

LEMMA ConfigIs ==
    ASSUME config \in Configs
    PROVE  /\ Len(config) \in Nat
           /\ \A s \in 1 .. Len(config) :
                 /\ Len(config[s].entries) \in Nat
                 /\ \A e \in 1 .. Len(config[s].entries) : config[s].entries[e] \in Entry
<1>1. config \in Seq([valid : BOOLEAN, entries : Seq(Entry)])
  BY ConfigsAssumption
<1>. HIDE DEF Entry
<1>2. \A s \in 1 .. Len(config) : config[s] \in [valid : BOOLEAN, entries : Seq(Entry)]
  BY <1>1, Member, Zenon
<1>3. ASSUME NEW s \in 1 .. Len(config) PROVE config[s].entries \in Seq(Entry)
  BY <1>2
<1>. QED BY <1>1, <1>3

(* What the mask and the state make of a method. *)
LEMMA SkipIs ==
    ASSUME NEW m \in Entry \ {Malformed, "unknown"}, NEW st \in States
    PROVE  ~ (~Allowed(m, st) \/ AlreadyRun(m, st)) <=> m \in SentIn[st]
<1>1. CASE m = "startup"
  BY <1>1 DEF Allowed, AlreadyRun, Mask, SentIn, States
<1>2. CASE m = "runtime"
  BY <1>2 DEF Allowed, AlreadyRun, Mask, SentIn, States
<1>3. CASE m = "both"
  BY <1>3 DEF Allowed, AlreadyRun, Mask, SentIn, States
<1>. QED BY <1>1, <1>2, <1>3 DEF Entry, Malformed

LEMMA SamePlan == ASSUME config' = config PROVE Plan' = Plan
BY DEF Plan, Entries

(* Any failure ends the walk where it is. *)
LEMMA FailureWalks ==
    ASSUME Walk, LoadDone("failed"), config' = config, sent' = sent, poller' = "none",
           sub' \in Nat \ {0}, ent' \in Nat \ {0}
    PROVE  Walk'
<1>1. ctx' = "freed" /\ result' = "failed" /\ Plan' = Plan
  BY SamePlan DEF LoadDone
<1>. QED BY <1>1 DEF Walk, Position

(* What LoadEntry and LoadSubsystem leave of the walk. *)
Going ==
    /\ Walk /\ ctx = "live" /\ config' = config /\ state' \in States
    /\ poller' = IF ctx' = "freed" THEN "none" ELSE "client"

LEMMA EntryWalks ==
    ASSUME Going, NEW s, Valid(s), NEW e \in Nat \ {0}, Done(Plan, sent, s, e, state'),
           LoadEntry(s, e, state'), init' = "none"
    PROVE  Walk'
<1> DEFINE m == config[s].entries[e]
           st == state'
<1>1. /\ Plan' = Plan /\ config' = config /\ ctx = "live" /\ result = "none" /\ Sends(Plan, sent)
      /\ s \in Nat \ {0} /\ e \in Int /\ st \in States /\ config \in Configs
  BY SamePlan DEF Going, Walk, Position, Valid
<1>2. /\ Len(config) \in Nat /\ \A t \in 1 .. Len(config) : Len(config[t].entries) \in Nat
      /\ \A f \in 1 .. Len(config[s].entries) : config[s].entries[f] \in Entry
  BY <1>1, ConfigIs DEF Valid
<1>3. CASE /\ e > Len(config[s].entries)
           /\ Then(s + 1, e, "subsystem", "none") /\ GoesOn /\ sent' = sent
  <2>1. Done(Plan, sent, s + 1, 1, st)
    BY <1>1, <1>2, <1>3, NextSubsystem
  <2>2. poller' = "client" /\ ctx' = "live" /\ result' = "none" /\ s + 1 \in Nat \ {0}
    BY <1>1, <1>3 DEF GoesOn, Going
  <2>. QED BY <1>1, <1>3, <2>1, <2>2 DEF Then, Walk, Position
<1>4. CASE LoadDone("failed") /\ Then(s, e, "none", "none") /\ sent' = sent
  <2>1. poller' = "none" /\ sub' \in Nat \ {0} /\ ent' \in Nat \ {0} /\ Walk
    BY <1>1, <1>4 DEF LoadDone, Then, Going
  <2>. QED BY <1>1, <1>4, <2>1, FailureWalks
<1>5. ASSUME e <= Len(config[s].entries), m \notin {Malformed, "unknown"}
      PROVE  Due(s, e, st) <=> ~ (~Allowed(m, st) \/ AlreadyRun(m, st))
  <2>1. e \in 1 .. Len(config[s].entries)
    BY <1>1, <1>2, <1>5 DEF Valid
  <2>2. m \in Entry
    BY <1>2, <2>1
  <2>. HIDE DEF m
  <2>3. ~ (~Allowed(m, st) \/ AlreadyRun(m, st)) <=> m \in SentIn[st]
    BY <1>1, <1>5, <2>2, SkipIs
  <2>. QED BY <1>1, <2>1, <2>3 DEF Due, m
<1>6. CASE /\ e <= Len(config[s].entries) /\ m \notin {Malformed, "unknown"}
           /\ ~Allowed(m, st) \/ AlreadyRun(m, st)
           /\ Then(s, e + 1, "entry", "none") /\ GoesOn /\ sent' = sent
  <2>1. Done(Plan, sent, s, e + 1, st)
    BY <1>1, <1>5, <1>6, PassOver
  <2>2. poller' = "client" /\ ctx' = "live" /\ result' = "none" /\ e + 1 \in Nat \ {0} /\ Valid(s)'
    BY <1>1, <1>6 DEF GoesOn, Going, Valid
  <2>. QED BY <1>1, <1>6, <2>1, <2>2 DEF Then, Walk, Position, Valid
<1>7. CASE /\ e <= Len(config[s].entries) /\ m \notin {Malformed, "unknown"}
           /\ ~ (~Allowed(m, st) \/ AlreadyRun(m, st))
           /\ Then(s, e, "none", "sent") /\ GoesOn /\ sent' = Append(sent, <<s, e, st>>)
  <2>1. Sends(Plan, sent') /\ Done(Plan, sent', s, e + 1, st)
    BY <1>1, <1>5, <1>7, SendNext
  <2>2. poller' = "client" /\ ctx' = "live" /\ result' = "none" /\ Valid(s)'
    BY <1>1, <1>7 DEF GoesOn, Going, Valid
  <2>. QED BY <1>1, <1>7, <2>1, <2>2 DEF Then, Walk, Position, Valid
<1>8. e > Len(config[s].entries) \/ e <= Len(config[s].entries)
  BY <1>1, <1>2 DEF Valid
<1>. QED BY <1>3, <1>4, <1>6, <1>7, <1>8 DEF LoadEntry

LEMMA SubsystemWalks ==
    ASSUME Going, NEW s \in Nat \ {0}, Done(Plan, sent, s, 1, state'), LoadSubsystem(s, state')
    PROVE  Walk'
<1>1. /\ Plan' = Plan /\ config' = config /\ ctx = "live" /\ result = "none" /\ Sends(Plan, sent)
      /\ Walk /\ ent \in Nat \ {0} /\ config \in Configs
  BY SamePlan DEF Going, Walk, Position
<1>2. Len(config) \in Nat
  BY <1>1, ConfigIs
<1>3. CASE /\ s > Len(config) /\ state' = "STARTUP" /\ init' = "pending"
           /\ Then(s, ent, "none", "none") /\ GoesOn /\ sent' = sent
  <2>1. Done(Plan, sent, 1, 1, "RUNTIME")
    BY <1>2, <1>3, EndOfWalk
  <2>2. poller' = "client" /\ ctx' = "live" /\ result' = "none"
    BY <1>1, <1>3 DEF GoesOn, Going
  <2>. QED BY <1>1, <1>3, <2>1, <2>2 DEF Then, Walk, Position
<1>4. CASE /\ s > Len(config) /\ state' = "RUNTIME" /\ LoadDone("ok")
           /\ Then(s, ent, "none", "none") /\ sent' = sent
  <2>1. \A x \in Plan : Has(sent, x)
    BY <1>2, <1>4, EndOfWalk
  <2>2. poller' = "none" /\ ctx' = "freed" /\ result' = "ok"
    BY <1>4 DEF LoadDone, Going
  <2>. QED BY <1>1, <1>4, <2>1, <2>2 DEF Then, Walk, Position
<1>5. CASE LoadDone("failed") /\ Then(s, ent, "none", "none") /\ sent' = sent
  <2>1. poller' = "none" /\ sub' \in Nat \ {0} /\ ent' \in Nat \ {0}
    BY <1>1, <1>5 DEF LoadDone, Then, Going
  <2>. QED BY <1>1, <1>5, <2>1, FailureWalks
<1>6. CASE s <= Len(config) /\ config[s].valid /\ LoadEntry(s, 1, state') /\ init' = "none"
  <2>1. Valid(s) /\ 1 \in Nat \ {0}
    BY <1>2, <1>6 DEF Valid
  <2>. QED BY <1>6, <2>1, EntryWalks
<1>. QED BY <1>3, <1>4, <1>5, <1>6 DEF LoadSubsystem

LEMMA InitiallyWalks == Init => Walk
<1>. SUFFICES ASSUME Init PROVE Walk
  OBVIOUS
<1>1. sent \in Seq(Plan) /\ Len(sent) = 0
  BY DEF Init
<1>2. Sends(Plan, sent)
  BY <1>1 DEF Sends
<1>3. ASSUME NEW x \in Plan PROVE ~Has(sent, x) /\ ~Before(x, <<1, 1, "STARTUP">>)
  <2>1. PICK t, f, su : x = <<t, f, su>> /\ Due(t, f, su)
    BY PlanIs
  <2>2. t \in Int /\ f \in Int /\ t >= 1 /\ f >= 1
    BY <2>1 DEF Due, Valid
  <2>. QED BY <1>1, <2>1, <2>2 DEF Before, Has
<1>4. Done(Plan, sent, 1, 1, "STARTUP")
  BY <1>3 DEF Done
<1>. QED BY <1>2, <1>4 DEF Init, Walk, Position

(* The steps of the loader keep the walk. *)
LEMMA CallbackWalks == ASSUME IInv, Walk, Callback PROVE Walk'
<1>1. /\ sub \in Nat \ {0} /\ ent \in Nat \ {0} /\ ent + 1 \in Nat \ {0} /\ state \in States
      /\ config' = config /\ Position
  BY DEF Walk, Position, IInv, Types, TypeOK, States, Callback, Connect, Response, InitDone, Message, input
<1>2. CASE Connect
  <2>1. /\ ctx = "live" /\ poller = "connect" /\ state' = state
        /\ poller' = IF ctx' = "freed" THEN "none" ELSE "client"
    BY <1>2 DEF Connect, Pollers, IInv, Types, TypeOK, Phases
  <2>2. Going
    BY <1>1, <2>1 DEF Going
  <2>3. CASE LoadSubsystem(sub, state)
    <3>1. Done(Plan, sent, sub, 1, state')
      BY <1>1, <2>1 DEF Position
    <3>. QED BY <1>1, <2>1, <2>2, <2>3, <3>1, SubsystemWalks
  <2>4. CASE LoadDone("failed") /\ UNCHANGED <<sub, ent, msg, request, init, sent>>
    BY <1>1, <2>1, <2>4, FailureWalks DEF LoadDone
  <2>. QED BY <1>2, <2>3, <2>4 DEF Connect
<1>3. CASE Response
  <2>1. /\ ctx = "live" /\ poller = "client" /\ state' = state /\ init' = "none" /\ request # "none"
        /\ poller' = IF ctx' = "freed" THEN "none" ELSE "client"
    BY <1>3 DEF Response, Pollers, IInv, Types, TypeOK, Phases, OneOf, Nothing
  <2>2. Going
    BY <1>1, <2>1 DEF Going
  <2>3. CASE LoadEntry(sub, ent + 1, state)
    <3>1. Valid(sub) /\ Done(Plan, sent, sub, ent + 1, state')
      BY <1>1, <2>1 DEF Position
    <3>. QED BY <1>1, <2>1, <2>2, <2>3, <3>1, EntryWalks
  <2>4. CASE LoadDone("failed") /\ Then(sub, ent, msg, "none") /\ sent' = sent
    BY <1>1, <2>1, <2>4, FailureWalks DEF LoadDone, Then
  <2>. QED BY <1>3, <2>3, <2>4 DEF Response
<1>4. CASE InitDone
  <2>1. /\ ctx = "live" /\ poller = "client" /\ init = "pending"
        /\ poller' = IF ctx' = "freed" THEN "none" ELSE "client"
    BY <1>4 DEF InitDone, Pollers, IInv, Types, TypeOK, Phases, OneOf, Nothing
  <2>2. CASE state' = "RUNTIME" /\ LoadSubsystem(1, "RUNTIME")
    <3>1. Done(Plan, sent, 1, 1, state') /\ Going /\ 1 \in Nat \ {0}
      BY <1>1, <2>1, <2>2 DEF Position, Going, States
    <3>. QED BY <2>2, <3>1, SubsystemWalks
  <2>3. CASE LoadDone("failed") /\ UNCHANGED <<state, sub, ent, msg, request, sent>>
    BY <1>1, <2>1, <2>3, FailureWalks DEF LoadDone
  <2>. QED BY <1>4, <2>2, <2>3 DEF InitDone
<1>5. CASE Message
  <2>1. /\ ctx = "live" /\ poller = "client" /\ state' = state /\ init = "none"
        /\ poller' = IF ctx' = "freed" THEN "none" ELSE "client"
    BY <1>5 DEF Message, Pollers, IInv, Types, TypeOK, Phases, OneOf, Nothing
  <2>2. Going
    BY <1>1, <2>1 DEF Going
  <2>3. CASE msg = "subsystem" /\ LoadSubsystem(sub, state)
    <3>1. Done(Plan, sent, sub, 1, state')
      BY <1>1, <2>1, <2>3 DEF Position
    <3>. QED BY <1>1, <2>1, <2>2, <2>3, <3>1, SubsystemWalks
  <2>4. CASE msg = "entry" /\ LoadEntry(sub, ent, state) /\ UNCHANGED init
    <3>1. Valid(sub) /\ Done(Plan, sent, sub, ent, state') /\ init' = "none"
      BY <1>1, <2>1, <2>4 DEF Position
    <3>. QED BY <1>1, <2>1, <2>2, <2>4, <3>1, EntryWalks
  <2>. QED BY <1>5, <2>3, <2>4 DEF Message
<1>. QED BY <1>2, <1>3, <1>4, <1>5 DEF Callback

LEMMA StepWalks == IInv /\ Walk /\ [Next]_vars => Walk'
<1>. SUFFICES ASSUME IInv, Walk, [Next]_vars PROVE Walk'
  OBVIOUS
<1>1. config' = config /\ Plan' = Plan
  <2>1. config' = config
    BY DEF Next, vars, input, Start, Answer, Callback, Connect, Response, InitDone, Message,
       ConnectionError, Dangling
  <2>. QED BY <2>1, SamePlan
<1>2. CASE \/ UNCHANGED vars
           \/ Dangling
           \/ Answer
  <2>1. /\ UNCHANGED <<ctx, state, sub, ent, poller, result, sent>>
        /\ msg' \in {msg, "none"} /\ init' \in {init, "none"}
        /\ request' # "none" => request # "none"
    BY <1>2 DEF vars, Dangling, Answer
  <2>. QED BY <1>1, <2>1 DEF Walk, Position, Valid
<1>3. CASE Start
  <2>1. ctx = "none" /\ UNCHANGED <<state, sub, ent, msg, request, init, sent>> /\ Nothing
    BY <1>3 DEF Start, IInv, Phases
  <2>2. CASE LoadDone("failed") /\ Pollers("connect")
    BY <1>1, <2>1, <2>2, FailureWalks DEF LoadDone, Pollers, Walk, Position
  <2>3. CASE ctx' = "live" /\ UNCHANGED <<result, cbs>>
    BY <1>1, <2>1, <2>3 DEF Walk, Position, Nothing
  <2>. QED BY <1>3, <2>2, <2>3 DEF Start
<1>4. CASE ConnectionError
  <2>1. LoadDone("failed") /\ poller' = "none" /\ UNCHANGED <<sub, ent, sent>>
    BY <1>4 DEF ConnectionError, LoadDone, Pollers
  <2>. QED BY <1>1, <2>1, FailureWalks DEF Walk, Position
<1>. QED BY <1>2, <1>3, <1>4, CallbackWalks DEF Next

(* Whatever the configuration and whatever fails, the two walks of the     *)
(* loader send only what is planned, in order and without a gap, and all   *)
(* of it before cb_fn is told of success (lines 448-464).                  *)
THEOREM SendsThePlanCorrect == Spec => []SendsThePlan
<1>1. Spec => []Walk
  BY InitiallyWalks, StepWalks, Inductive, PTL DEF Spec
<1>2. IInv /\ Walk => SendsThePlan
  <2>. SUFFICES ASSUME IInv, Walk PROVE SendsThePlan
    OBVIOUS
  <2>1. \A x : Has(sent, x) <=> Sent(x)
    BY DEF Has, Sent
  <2>2. TypeOK /\ (result = "ok" => \A x \in Plan : Sent(x))
    BY <2>1 DEF IInv, Types, Walk, Position
  <2>3. \A i \in 1 .. Len(sent) : sent[i] \in Plan
    BY DEF Walk, Sends
  <2>. QED BY <2>1, <2>2, <2>3 DEF Walk, Sends, SendsThePlan
<1>. QED BY <1>1, <1>2, Inductive, PTL
=============================================================================
