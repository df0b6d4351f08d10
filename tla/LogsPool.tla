------------------------------ MODULE LogsPool ------------------------------
(***************************************************************************)
(* The pool of connections to the logs database (logs.py), which all       *)
(* requests of the backend share.                                          *)
(*                                                                         *)
(* A request is handled in a thread and is a sequence of blocks, each      *)
(* "with _conn() as conn": take a connection, do some statements, give it  *)
(* back.  A query is one block that reads, a change of the settings is up  *)
(* to three that commit; a statement of either may be refused.  The daily  *)
(* pruning runs on the event loop: it reads twice and commits once, and no *)
(* request starts until it ends.                                           *)
(*                                                                         *)
(* The pool is psycopg2's SimpleConnectionPool, which takes no lock.  A    *)
(* step ends where a thread may lose the interpreter: at a connect, a      *)
(* statement, a rollback, after the pop from the idle connections, after   *)
(* the test of their number and after the append to them.                  *)
(***************************************************************************)
EXTENDS Integers, FiniteSets, SequencesExt

CONSTANTS Threads,
          Loop,         \* the event loop
          Conns,        \* connections
          NoOne,        \* no pool, no connection
          MaxConn,      \* connections of a pool (logs.py 31: 6)
          MaxKeys,      \* bound: settings that a request changes (logs.py 97: 3)
          MaxEvents     \* bound: requests, prunings and faults, which are
                        \* restarts of the database and refused connects

ASSUME ConstantsAssumption ==
    /\ IsFiniteSet(Threads) /\ IsFiniteSet(Conns)
    /\ Loop \notin Threads /\ NoOne \notin Threads \cup {Loop} \cup Conns
    /\ MaxConn \in Nat \ {0} /\ MaxKeys \in 1..3 /\ MaxEvents \in Nat

Clients    == Threads \cup {Loop}
Longest    == [query |-> 1, settings |-> MaxKeys, prune |-> 3]
InUse      == {"book", "block", "put", "keep"}
Points     == InUse \cup {"off", "enter", "making", "get", "connect", "forget"}
Taking     == {"connect", "book"}
Errors     == {"none", "refused", "lost"}

VARIABLES
    dead,    \* connections whose server process is gone
    \* pools, named after the client that made them
    pool,    \* the global _pool
    idle,    \* _pool of a pool: connections given back
    used,    \* size of _used
    keyed,   \* connections of _rused
    \* clients
    pc, mine, conn,
    op,
    left,    \* blocks left, with the one under way
    open,    \* a transaction is open on conn
    error,   \* the exception that is passing through __exit__: a statement
             \* was refused, or the connection lost
    \* history: and whether at some time there were more clients than
    \* connections, a pool took the place of another, a connection was taken
    \* before its return was over, two clients took connections at once, and
    \* the database restarted while a transaction was open
    requests, faults,
    failures,  \* requests that ended with an error, a refused statement aside
    crowded, replaced, met, together, torn

poolVars    == <<pool, idle, used, keyed>>
clientVars  == <<pc, mine, conn, op, left, open, error>>
eventVars   == <<crowded, replaced, met, together, torn>>
countVars   == <<requests, faults, failures>>
historyVars == <<countVars, eventVars>>
vars        == <<dead, poolVars, clientVars, historyVars>>

Free(k) == /\ \A p \in Clients : k \notin keyed[p] /\ k \notin Range(idle[p])
           /\ \A c \in Clients : conn[c] # k

Goto(c, point) == pc' = [pc EXCEPT ![c] = point]
Running        == {c \in Clients : pc[c] # "off"}

-----------------------------------------------------------------------------
(***************************************************************************)
(* Requests and prunings begin.                                            *)
(***************************************************************************)
Begin(c, what, blocks) ==
    /\ pc[c] = "off"
    /\ requests + faults < MaxEvents /\ requests' = requests + 1
    /\ Goto(c, "enter")
    /\ op' = [op EXCEPT ![c] = what] /\ left' = [left EXCEPT ![c] = blocks]
    /\ crowded' = (crowded \/ Cardinality(Running) >= MaxConn)
    /\ UNCHANGED <<dead, poolVars, mine, conn, open, error, faults, failures, replaced, met, together, torn>>

Start(t) ==
    /\ pc[Loop] = "off"
    /\ \/ Begin(t, "query", 1)
       \/ \E n \in 1..MaxKeys : Begin(t, "settings", n)

Prune == Begin(Loop, "prune", 3)

-----------------------------------------------------------------------------
(***************************************************************************)
(* __enter__: _get_pool().getconn()                                        *)
(***************************************************************************)
\* The exception leaves the with statement: the request ends.
Fail(c) ==
    /\ Goto(c, "off")
    /\ conn' = [conn EXCEPT ![c] = NoOne]
    /\ open' = [open EXCEPT ![c] = FALSE] /\ error' = [error EXCEPT ![c] = "none"]
    /\ op' = [op EXCEPT ![c] = "none"] /\ left' = [left EXCEPT ![c] = 0]
    /\ mine' = [mine EXCEPT ![c] = NoOne]
    /\ failures' = failures + IF error[c] = "refused" THEN 0 ELSE 1

NoPool(c) ==
    /\ pc[c] = "enter" /\ pool = NoOne
    /\ Goto(c, "making")
    /\ UNCHANGED <<dead, poolVars, mine, conn, op, left, open, error, historyVars>>

\* Another thread may have made a pool meanwhile: this one takes its place.
MakePool(c) ==
    /\ pc[c] = "making"
    /\ \E k \in Conns : Free(k) /\ idle' = [idle EXCEPT ![c] = <<k>>] /\ dead' = dead \ {k}
    /\ pool' = c
    /\ mine' = [mine EXCEPT ![c] = c]
    /\ Goto(c, "get")
    /\ replaced' = (replaced \/ pool # NoOne)
    /\ UNCHANGED <<used, keyed, conn, op, left, open, error, countVars, crowded, met, together, torn>>

GetFrom(c, p) == \/ pc[c] = "enter" /\ pool # NoOne /\ p = pool
                 \/ pc[c] = "get" /\ p = mine[c]

\* Others are between the choice of a connection and the books.
OthersTake == \E d \in Clients : pc[d] \in Taking

\* pop: the books do not know of it yet.
GetIdle(c) == \E p \in Clients :
    /\ GetFrom(c, p) /\ idle[p] # <<>>
    /\ conn' = [conn EXCEPT ![c] = Last(idle[p])]
    /\ idle' = [idle EXCEPT ![p] = Front(@)]
    /\ mine' = [mine EXCEPT ![c] = p]
    /\ Goto(c, "book")
    /\ met' = (met \/ Last(idle[p]) \in keyed[p])
    /\ together' = (together \/ OthersTake)
    /\ UNCHANGED <<dead, pool, used, keyed, op, left, open, error, countVars, crowded, replaced, torn>>

\* The client has a connection of its own, and it is on the books.
Take(c, p, k) ==
    /\ used' = [used EXCEPT ![p] = @ + 1] /\ keyed' = [keyed EXCEPT ![p] = @ \cup {k}]
    /\ conn' = [conn EXCEPT ![c] = k]
    /\ Goto(c, "block")

Book(c) ==
    /\ pc[c] = "book"
    /\ Take(c, mine[c], conn[c])
    /\ UNCHANGED <<dead, pool, idle, mine, op, left, open, error, historyVars>>

\* Mutant of Exhausted: one too early.
ExhaustedEarly(c) == \E p \in Clients :
    /\ GetFrom(c, p) /\ idle[p] = <<>> /\ used[p] = MaxConn - 1
    /\ Fail(c)
    /\ UNCHANGED <<dead, poolVars, requests, faults, eventVars>>

Exhausted(c) == \E p \in Clients :
    /\ GetFrom(c, p) /\ idle[p] = <<>> /\ used[p] = MaxConn
    /\ Fail(c)
    /\ UNCHANGED <<dead, poolVars, requests, faults, eventVars>>

\* Mutant of Connect: one too many.
ConnectOneMore(c) == \E p \in Clients :
    /\ GetFrom(c, p) /\ idle[p] = <<>> /\ used[p] # MaxConn + 1
    /\ mine' = [mine EXCEPT ![c] = p]
    /\ Goto(c, "connect")
    /\ together' = (together \/ OthersTake)
    /\ UNCHANGED <<dead, poolVars, conn, op, left, open, error, countVars, crowded, replaced, met, torn>>

Connect(c) == \E p \in Clients :
    /\ GetFrom(c, p) /\ idle[p] = <<>> /\ used[p] # MaxConn
    /\ mine' = [mine EXCEPT ![c] = p]
    /\ Goto(c, "connect")
    /\ together' = (together \/ OthersTake)
    /\ UNCHANGED <<dead, poolVars, conn, op, left, open, error, countVars, crowded, replaced, met, torn>>

Connected(c) ==
    /\ pc[c] = "connect"
    /\ \E k \in Conns : Free(k) /\ Take(c, mine[c], k) /\ dead' = dead \ {k}
    /\ UNCHANGED <<pool, idle, mine, op, left, open, error, historyVars>>

ConnectFails(c) ==
    /\ pc[c] \in {"making", "connect"}
    /\ requests + faults < MaxEvents /\ faults' = faults + 1
    /\ Fail(c)
    /\ UNCHANGED <<dead, poolVars, requests, eventVars>>

-----------------------------------------------------------------------------
(***************************************************************************)
(* The statements of a block.  What only reads leaves its transaction open,*)
(* and so does a statement that the database refuses.                      *)
(***************************************************************************)
Commits(c) == op[c] = "settings" \/ (op[c] = "prune" /\ left[c] = 1)

Work(c) ==
    /\ pc[c] = "block" /\ conn[c] \notin dead
    /\ open' = [open EXCEPT ![c] = ~Commits(c)]
    /\ Goto(c, "put")
    /\ UNCHANGED <<dead, poolVars, mine, conn, op, left, error, historyVars>>

\* A value of the request is no date: the database refuses the statement, and
\* the transaction stays open.  The values of the settings are validated.
StatementFails(c) ==
    /\ pc[c] = "block" /\ conn[c] \notin dead /\ op[c] = "query"
    /\ open' = [open EXCEPT ![c] = TRUE]
    /\ error' = [error EXCEPT ![c] = "refused"]
    /\ Goto(c, "put")
    /\ UNCHANGED <<dead, poolVars, mine, conn, op, left, historyVars>>

\* Mutants of WorkFails: no __exit__, and one that finds no connection.
WorkFailsUnput(c) ==
    /\ pc[c] = "block" /\ conn[c] \in dead
    /\ Fail(c)
    /\ UNCHANGED <<dead, poolVars, requests, faults, eventVars>>

WorkFailsDropped(c) ==
    /\ pc[c] = "block" /\ conn[c] \in dead
    /\ error' = [error EXCEPT ![c] = "lost"]
    /\ conn' = [conn EXCEPT ![c] = NoOne]
    /\ Goto(c, "put")
    /\ UNCHANGED <<dead, poolVars, mine, op, left, open, historyVars>>

\* An OperationalError; the driver closes the connection.
WorkFails(c) ==
    /\ pc[c] = "block" /\ conn[c] \in dead
    /\ error' = [error EXCEPT ![c] = "lost"]
    /\ Goto(c, "put")
    /\ UNCHANGED <<dead, poolVars, mine, conn, op, left, open, historyVars>>

-----------------------------------------------------------------------------
(***************************************************************************)
(* __exit__: _get_pool().putconn(conn), of the pool there is now.          *)
(***************************************************************************)
\* PoolError: trying to put unkeyed connection
Unkeyed(c) ==
    /\ pc[c] = "put" /\ conn[c] \notin keyed[pool]
    /\ Fail(c)
    /\ UNCHANGED <<dead, poolVars, requests, faults, eventVars>>

\* A closed connection, and one more than the pool keeps idle, go nowhere.
PutClosed(c) ==
    /\ pc[c] = "put" /\ conn[c] \in keyed[pool]
    /\ error[c] = "lost" \/ idle[pool] # <<>>
    /\ Goto(c, "forget") /\ mine' = [mine EXCEPT ![c] = pool]
    /\ open' = [open EXCEPT ![c] = FALSE]
    /\ UNCHANGED <<dead, poolVars, conn, op, left, error, historyVars>>

GiveBack(c, p) == idle' = [idle EXCEPT ![p] = Append(@, conn[c])]

\* Mutant of Keep: in the list before the rollback.
KeepEarly(c) ==
    /\ pc[c] = "put" /\ conn[c] \in keyed[pool]
    /\ error[c] # "lost" /\ idle[pool] = <<>>
    /\ GiveBack(c, pool)
    /\ Goto(c, "keep") /\ mine' = [mine EXCEPT ![c] = pool]
    /\ UNCHANGED <<dead, pool, used, keyed, conn, op, left, open, error, historyVars>>

Keep(c) ==
    /\ pc[c] = "put" /\ conn[c] \in keyed[pool]
    /\ error[c] # "lost" /\ idle[pool] = <<>>
    /\ Goto(c, "keep") /\ mine' = [mine EXCEPT ![c] = pool]
    /\ UNCHANGED <<dead, poolVars, conn, op, left, open, error, historyVars>>

\* An open transaction is rolled back first.
PutIdle(c) ==
    /\ pc[c] = "keep" /\ (open[c] => conn[c] \notin dead)
    /\ GiveBack(c, mine[c])
    /\ open' = [open EXCEPT ![c] = FALSE]
    /\ Goto(c, "forget")
    /\ UNCHANGED <<dead, pool, used, keyed, mine, conn, op, left, error, historyVars>>

\* The exception leaves putconn: the books keep the connection for good.
RollbackFails(c) ==
    /\ pc[c] = "keep" /\ open[c] /\ conn[c] \in dead
    /\ Fail(c)
    /\ UNCHANGED <<dead, poolVars, requests, faults, eventVars>>

\* The end of putconn, and of the block.
Unbook(c) ==
    /\ used' = [used EXCEPT ![mine[c]] = @ - 1]
    /\ keyed' = [keyed EXCEPT ![mine[c]] = @ \ {conn[c]}]
    /\ UNCHANGED <<dead, pool, idle, requests, faults, eventVars>>

Forget(c) ==
    /\ pc[c] = "forget" /\ conn[c] \in keyed[mine[c]] /\ error[c] = "none"
    /\ conn' = [conn EXCEPT ![c] = NoOne] /\ mine' = [mine EXCEPT ![c] = NoOne]
    /\ \/ /\ left[c] > 1 /\ left' = [left EXCEPT ![c] = @ - 1]
          /\ Goto(c, "enter") /\ UNCHANGED op
       \/ /\ left[c] = 1 \/ (op[c] = "prune" /\ left[c] = 3)  \* log_retention_enabled is false
          /\ op' = [op EXCEPT ![c] = "none"] /\ left' = [left EXCEPT ![c] = 0]
          /\ Goto(c, "off")
    /\ Unbook(c)
    /\ UNCHANGED <<open, error, failures>>

\* The exception of the statement goes on; or a KeyError, as the client that
\* has taken the connection since has removed its key.
ForgetFails(c) ==
    /\ pc[c] = "forget" /\ (error[c] # "none" \/ conn[c] \notin keyed[mine[c]])
    /\ Fail(c) /\ Unbook(c)

-----------------------------------------------------------------------------
\* The database restarts: all connections are lost, as their owners find out.
DbRestart ==
    /\ requests + faults < MaxEvents /\ faults' = faults + 1
    /\ dead' = {k \in Conns : ~Free(k)}
    /\ torn' = (torn \/ \E c \in Clients : open[c])
    /\ UNCHANGED <<poolVars, clientVars, requests, failures, crowded, replaced, met, together>>

Init ==
    /\ dead = {}
    /\ pool = NoOne /\ idle = [p \in Clients |-> <<>>]
    /\ used = [p \in Clients |-> 0] /\ keyed = [p \in Clients |-> {}]
    /\ pc = [c \in Clients |-> "off"] /\ mine = [c \in Clients |-> NoOne]
    /\ conn = [c \in Clients |-> NoOne]
    /\ op = [c \in Clients |-> "none"] /\ left = [c \in Clients |-> 0]
    /\ open = [c \in Clients |-> FALSE] /\ error = [c \in Clients |-> "none"]
    /\ requests = 0 /\ faults = 0 /\ failures = 0
    /\ crowded = FALSE /\ replaced = FALSE /\ met = FALSE /\ together = FALSE /\ torn = FALSE

Enter(c) == \/ NoPool(c) \/ MakePool(c) \/ GetIdle(c) \/ Book(c)
            \/ Exhausted(c) \/ Connect(c) \/ Connected(c) \/ ConnectFails(c)
Do(c)    == Work(c) \/ StatementFails(c) \/ WorkFails(c)
Exit(c)  == \/ Unkeyed(c) \/ PutClosed(c) \/ Keep(c) \/ PutIdle(c)
            \/ RollbackFails(c) \/ Forget(c) \/ ForgetFails(c)

Next == \/ \E t \in Threads : Start(t)
        \/ Prune
        \/ \E c \in Clients : Enter(c) \/ Do(c) \/ Exit(c)
        \/ DbRestart

Spec == Init /\ [][Next]_vars

-----------------------------------------------------------------------------
TypeOK ==
    /\ dead \subseteq Conns
    /\ pool \in Clients \cup {NoOne} /\ idle \in [Clients -> Seq(Conns)]
    /\ used \in [Clients -> Nat] /\ keyed \in [Clients -> SUBSET Conns]
    /\ pc \in [Clients -> Points] /\ mine \in [Clients -> Clients \cup {NoOne}]
    /\ conn \in [Clients -> Conns \cup {NoOne}]
    /\ \A c \in Clients : conn[c] = NoOne <=> pc[c] \notin InUse \cup {"forget"}
    /\ \A c \in Clients : IF pc[c] = "off" THEN op[c] = "none" /\ left[c] = 0
                          ELSE op[c] \in DOMAIN Longest /\ left[c] \in 1..Longest[op[c]]
    /\ open \in [Clients -> BOOLEAN] /\ error \in [Clients -> Errors]
    /\ {requests, faults} \subseteq 0..MaxEvents /\ failures \in 0..requests
    /\ {crowded, replaced, met, together, torn} \subseteq BOOLEAN

(***************************************************************************)
(* No two clients work on one connection, and none works on a connection   *)
(* that the pool offers: even without a lock, even while the books are     *)
(* wrong about it.                                                         *)
(***************************************************************************)
Exclusive ==
    \A c \in Clients : pc[c] \in InUse =>
      /\ \A d \in Clients \ {c} : pc[d] \in InUse => conn[d] # conn[c]
      /\ \A p \in Clients : conn[c] \notin Range(idle[p])

(***************************************************************************)
(* The pool loses no place to a request that has ended, whatever error in *)
(* it, unless the database restarted between its last statement and the    *)
(* rollback of putconn, or a client took a connection whose return was not *)
(* yet over.                                                               *)
(***************************************************************************)
NoLeak == Running = {} /\ ~torn /\ ~met /\ pool # NoOne => used[pool] = 0

(***************************************************************************)
(* A pool has at most MaxConn connections in use, unless two clients were  *)
(* taking connections at once, from the idle ones or by connecting, or one *)
(* took a connection whose return was not yet over: then the number may    *)
(* jump over the only value the check refuses.                             *)
(***************************************************************************)
LimitKept == ~together /\ ~met => \A p \in Clients : used[p] <= MaxConn

(***************************************************************************)
(* No request fails but one whose own statement was refused, unless there  *)
(* were more clients than connections, two pools were made, the database   *)
(* was down, or a client took a connection whose return was not yet over.  *)
(***************************************************************************)
FailuresExplained == ~crowded /\ ~replaced /\ ~met /\ faults = 0 => failures = 0
=============================================================================
