---------------------------- MODULE HandleStore ----------------------------
(***************************************************************************)
(* What a Store promises its clients (src/src/include/store.h): a map from *)
(* handles to data.                                                        *)
(*                                                                         *)
(* Append returns a handle that no other data has.  Read returns the data  *)
(* of a handle, or says that it is not found, and never returns other data.*)
(* When the process dies the store loses some of its data, but none that   *)
(* was durable.  Data that is lost gives its handle back.                  *)
(***************************************************************************)
CONSTANTS
    Handle,
    Value,
    NoValue     \* the answer to a Read that does not find the data: no value

VARIABLES
    contents,   \* the data in the store, pairs of a handle and a value
    durable,    \* the part of it that survives the process
    answer      \* the last Read, and what it returned

vars == <<contents, durable, answer>>

Pair(h, v) == [handle |-> h, val |-> v]

NoAnswers == {Pair(h, NoValue) : h \in Handle}

Init ==
    /\ contents = {} /\ durable = {}
    /\ answer \in NoAnswers

(* Durable data stays durable; more may become durable at any time. *)
Hardens == durable \subseteq durable' /\ durable' \subseteq contents'

Put(h, v) ==
    /\ \A p \in contents : p.handle # h
    /\ contents' = contents \cup {Pair(h, v)}
    /\ Hardens
    /\ UNCHANGED answer

Get(h) ==
    /\ \/ answer' = Pair(h, NoValue)
       \/ \E p \in contents : p.handle = h /\ answer' = p
    /\ UNCHANGED contents /\ Hardens

(* The answer may be forgotten, with the client that got it. *)
Forgets == UNCHANGED answer \/ answer' \in NoAnswers

Sync == UNCHANGED contents /\ Hardens /\ Forgets

Lose ==
    /\ durable \subseteq contents' /\ contents' \subseteq contents
    /\ Hardens /\ Forgets

Next ==
    \/ \E h \in Handle, v \in Value : Put(h, v)
    \/ \E h \in Handle : Get(h)
    \/ Sync
    \/ Lose

Spec == Init /\ [][Next]_vars

-----------------------------------------------------------------------------
TypeOK ==
    /\ contents \subseteq [handle : Handle, val : Value]
    /\ durable \subseteq contents
    /\ answer \in [handle : Handle, val : Value \cup {NoValue}]

(* A handle has one value. *)
OneValue == \A p, q \in contents : p.handle = q.handle => p.val = q.val
=============================================================================
