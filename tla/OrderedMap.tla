----------------------------- MODULE OrderedMap -----------------------------
(***************************************************************************)
(* What the search trees of the repository promise: a map from keys to     *)
(* values.  An operation and its answer are one step.                      *)
(***************************************************************************)
EXTENDS SearchTrees

None == "none"          \* no value, or no answer

VARIABLES
    answers,    \* which kind of map: one whose insert overwrites a key it finds
                \* and says so, as remove does; or one that does neither
    map,        \* map[k]: the value of k, or None
    reply       \* the last call and its answer

vars == <<answers, map, reply>>

Init ==
    /\ answers \in BOOLEAN
    /\ map = [k \in Key |-> None]
    /\ reply = NoReply

Has(k) == map[k] # None
Answers(call, answer) == reply' = Reply(reply, call, IF answers THEN answer ELSE None)

Insert(k, v) ==
    /\ map' = IF ~Has(k) \/ answers THEN [map EXCEPT ![k] = v] ELSE map
    /\ Answers(<<"insert", k>>, IF Has(k) THEN "exists" ELSE "new")

Remove(k) ==
    /\ map' = [map EXCEPT ![k] = None]
    /\ Answers(<<"remove", k>>, IF Has(k) THEN "removed" ELSE "absent")

Modify(k, v) ==
    /\ map' = IF Has(k) THEN [map EXCEPT ![k] = v] ELSE map
    /\ reply' = Reply(reply, <<"modify", k>>, None)

Get(k) ==
    /\ reply' = Reply(reply, <<"get", k>>, map[k])
    /\ UNCHANGED map

Clear ==
    /\ map' = [k \in Key |-> None]
    /\ reply' = Reply(reply, <<"clear">>, None)

Next ==
    /\ UNCHANGED answers
    /\ \/ \E k \in Key : Remove(k) \/ Get(k) \/ \E v \in Value : Insert(k, v) \/ Modify(k, v)
       \/ Clear

Spec == Init /\ [][Next]_vars
=============================================================================
