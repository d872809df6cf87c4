------------------------------- MODULE Leases --------------------------------
(***************************************************************************)
(* What libsl3 promises about a Command and the Database it came from,     *)
(* with no pointer in sight: preparing a Command takes a lease on an open  *)
(* session; the lease says which SQL it runs; it works as long as the      *)
(* session is open, and is refused from then on.  A session's name is used *)
(* again only when no lease on it is left.                                 *)
(***************************************************************************)
CONSTANTS
    Sessions, Commands, Sql,
    Blank,       \* SQL texts that hold no statement: running one is an error
    NoSession,   \* leaseOn and text of a Command slot ...
    NoSql,       \* ... that holds no lease
    NoCommand

VARIABLES
    open,     \* the sessions that are open
    leaseOn,  \* per Command slot: the session it has a lease on
    text,     \* per Command slot: the SQL of the lease
    answer    \* what the last call on a Command ran, if that was the last call

vars == <<open, leaseOn, text, answer>>

Silent == [by |-> NoCommand, res |-> "ok"]

Init ==
    /\ open = {}
    /\ leaseOn = [c \in Commands |-> NoSession]
    /\ text = [c \in Commands |-> NoSql]
    /\ answer = Silent

Open(k) ==
    /\ k \notin open
    /\ \A c \in Commands : leaseOn[c] # k
    /\ open' = open \cup {k}
    /\ answer' = Silent
    /\ UNCHANGED <<leaseOn, text>>

Close(k) ==
    /\ open' = open \ {k}
    /\ answer' = Silent
    /\ UNCHANGED <<leaseOn, text>>

Grant(c, k, q) ==
    /\ k \in open
    /\ leaseOn[c] = NoSession
    /\ leaseOn' = [leaseOn EXCEPT ![c] = k]
    /\ text' = [text EXCEPT ![c] = q]
    /\ answer' = Silent
    /\ UNCHANGED open

Transfer(c, e) ==
    /\ leaseOn[e] = NoSession
    /\ leaseOn' = [leaseOn EXCEPT ![e] = leaseOn[c], ![c] = NoSession]
    /\ text' = [text EXCEPT ![e] = text[c], ![c] = NoSql]
    /\ answer' = Silent
    /\ UNCHANGED open

End(c) ==
    /\ leaseOn' = [leaseOn EXCEPT ![c] = NoSession]
    /\ text' = [text EXCEPT ![c] = NoSql]
    /\ answer' = Silent
    /\ UNCHANGED open

Run(c) ==
    /\ leaseOn[c] # NoSession
    /\ answer' = [by |-> c,
                  res |-> IF leaseOn[c] \notin open THEN "ErrNoConnection"
                          ELSE IF text[c] \in Blank THEN "SQLite3Error" ELSE text[c]]
    /\ UNCHANGED <<open, leaseOn, text>>

\* A call that neither opens, closes nor uses anything.
Other ==
    /\ answer' = Silent
    /\ UNCHANGED <<open, leaseOn, text>>

Next ==
    \/ \E k \in Sessions : Open(k) \/ Close(k)
    \/ \E c \in Commands :
          \/ \E k \in Sessions, q \in Sql : Grant(c, k, q)
          \/ \E e \in Commands : Transfer(c, e)
          \/ End(c)
          \/ Run(c)
    \/ Other

Spec == Init /\ [][Next]_vars
=============================================================================
