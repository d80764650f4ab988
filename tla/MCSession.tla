------------------------------ MODULE MCSession ------------------------------
(***************************************************************************)
(* Session with two clients, a pair of registers written together, a third *)
(* beside them, and one that this CPU does not have.                       *)
(***************************************************************************)
EXTENDS Session, TLC

CONSTANTS a, b, lone, x, v0, v1, c1, c2

EqualClients == Permutations({c1, c2})

Put(device, value) == [device |-> device, value |-> value]
Pair == <<Put(a, v1), Put(b, v1)>>

MCCalls ==
         [op : {"write"}, put : {Pair}, verify : BOOLEAN]
    \cup {[op |-> "write", put |-> <<Put(lone, v1), Put(x, v1)>>, verify |-> FALSE],
          [op |-> "read", of |-> <<a, b>>, split |-> FALSE],
          [op |-> "read", of |-> <<b, a, b>>, split |-> TRUE]}
    \cup [op : {"remote"}, to : {"RUN", "STOP"}, verify : {TRUE}]
    \cup [op : {"remote"}, to : {"STOP"}, verify : {FALSE}]
    \cup [op : {"register"}, of : {<<a>>, <<b, a>>}]
    \cup [op : {"lock", "unlock"}, right : {TRUE}]
    \cup [op : {"monitor", "latch", "reset", "test", "clear"}]
=============================================================================
