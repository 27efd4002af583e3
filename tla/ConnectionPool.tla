--------------------------- MODULE ConnectionPool ---------------------------
(* The Oracle connection pool of database/oracle_db.py.  Every function of that
   file runs in a thread as `with get_connection() as conn:`, one statement, and
   a commit if it writes.  The pool itself (python-oracledb, thin mode, getmode
   WAIT) is modelled from how the code uses it: acquire() waits for a free
   connection, leaving the block rolls back and returns it, close() without
   force raises while a connection is lent.  `conn` is Direct for a connection
   that get_connection() opened without the pool. *)
EXTENDS Naturals

CONSTANTS
    Worker,     \* threads that may call get_connection(), one per request
    PoolMax,    \* ORACLE_POOL_MAX
    Direct, None

ASSUME PoolAssumption == PoolMax \in Nat \ {0} /\ Direct # None
                         /\ {Direct, None} \cap (1 .. PoolMax) = {}
                         /\ None \notin Worker

Slot == 1 .. PoolMax

VARIABLES
    pool,       \* the pool object of this process: absent, open or shut
    named,      \* whether the global _pool names it
    lent,       \* lent[s]: the worker that holds connection s of the pool
    tx,         \* tx[s]: the worker whose uncommitted change s carries
    call        \* call[w]: where the thread of w is

poolVars == <<pool, named, lent, tx, call>>

CallStage == {"none", "look", "bind", "wait", "body", "commit", "exit",
              "ok", "error"}

Idle == [at |-> "none", conn |-> None, write |-> FALSE, failed |-> FALSE]

Started(write) == [Idle EXCEPT !.at = "look", !.write = write]

Active(w) == call[w].at \notin {"none", "ok", "error"}

PoolTypeOK ==
    /\ pool \in {"absent", "open", "shut"}
    /\ named \in BOOLEAN
    /\ lent \in [Slot -> Worker \cup {None}]
    /\ tx \in [Slot -> Worker \cup {None}]
    /\ call \in [Worker -> [at : CallStage, conn : Slot \cup {Direct, None},
                            write : BOOLEAN, failed : BOOLEAN]]

NoneLent == [s \in Slot |-> None]

PoolInit ==
    /\ pool = "absent" /\ named = FALSE
    /\ lent = NoneLent /\ tx = NoneLent
    /\ call = [w \in Worker |-> Idle]

\* The process ends: Oracle drops its connections and what they left open.
PoolLost ==
    /\ pool' = "absent" /\ named' = FALSE
    /\ lent' = NoneLent /\ tx' = NoneLent
    /\ call' = [w \in Worker |-> Idle]

-----------------------------------------------------------------------------
(* get_connection() and the block around it *)

Ended(w, result) == call' = [call EXCEPT ![w] = [Idle EXCEPT !.at = result]]

\* `if _pool is not None`, and the direct connection otherwise.
LookAtPool(w) ==
    /\ call[w].at = "look"
    /\ \/ named /\ call' = [call EXCEPT ![w].at = "bind"]
       \/ ~named /\ call' = [call EXCEPT ![w].at = "body", ![w].conn = Direct]
       \/ ~named /\ Ended(w, "error")
    /\ UNCHANGED <<pool, named, lent, tx>>

\* `return _pool.acquire()` reads the global again; None has no acquire.
BindPool(w) ==
    /\ call[w].at = "bind"
    /\ IF named THEN call' = [call EXCEPT ![w].at = "wait"] ELSE Ended(w, "error")
    /\ UNCHANGED <<pool, named, lent, tx>>

FreeUpToMaxPlusOne == {s \in 1 .. PoolMax + 1 : s \in Slot => lent[s] = None}
FreeSlots == {s \in Slot : lent[s] = None}

\* acquire(): wait for a free connection; opening one may fail.
Acquire(w) ==
    /\ call[w].at = "wait"
    /\ \/ /\ pool = "open"
          /\ \E s \in FreeSlots :
                /\ lent' = [lent EXCEPT ![s] = w]
                /\ call' = [call EXCEPT ![w].at = "body", ![w].conn = s]
       \/ Ended(w, "error") /\ (pool = "shut" \/ FreeSlots # {}) /\ UNCHANGED lent
    /\ UNCHANGED <<pool, named, tx>>

\* cursor.execute: it fails, reads, or leaves a change to be committed.
Execute(w) ==
    /\ call[w].at = "body"
    /\ \/ call' = [call EXCEPT ![w].at = "exit", ![w].failed = TRUE] /\ UNCHANGED tx
       \/ ~call[w].write /\ call' = [call EXCEPT ![w].at = "exit"] /\ UNCHANGED tx
       \/ /\ call[w].write
          /\ call' = [call EXCEPT ![w].at = "commit"]
          /\ tx' = [s \in Slot |-> IF s = call[w].conn THEN w ELSE tx[s]]
    /\ UNCHANGED <<pool, named, lent>>

Commit(w) ==
    /\ call[w].at = "commit"
    /\ \/ /\ call' = [call EXCEPT ![w].at = "exit"]
          /\ tx' = [s \in Slot |-> IF s = call[w].conn THEN None ELSE tx[s]]
       \/ call' = [call EXCEPT ![w].at = "exit", ![w].failed = TRUE] /\ UNCHANGED tx
    /\ UNCHANGED <<pool, named, lent>>

KeptOnError(w) ==
    [s \in Slot |-> IF s = call[w].conn /\ ~call[w].failed THEN None ELSE lent[s]]
Returned(w) == [s \in Slot |-> IF s = call[w].conn THEN None ELSE lent[s]]

LeftUncommitted(w) == tx
RolledBack(w) == [s \in Slot |-> IF s = call[w].conn THEN None ELSE tx[s]]

\* The end of the with block, normal or by an exception.
LeaveBlock(w) ==
    /\ call[w].at = "exit"
    /\ lent' = Returned(w)
    /\ tx' = RolledBack(w)
    /\ Ended(w, IF call[w].failed THEN "error" ELSE "ok")
    /\ UNCHANGED <<pool, named>>

CallStep(w) == LookAtPool(w) \/ BindPool(w) \/ Acquire(w) \/ Execute(w)
                  \/ Commit(w) \/ LeaveBlock(w)

-----------------------------------------------------------------------------
(* init_pool() and close_pool(), called by the lifespan *)

\* A missing setting or an error leaves the name at None.
InitPool ==
    /\ pool' \in {"absent", "open"}
    /\ named' = (pool' = "open")
    /\ UNCHANGED <<lent, tx, call>>

NeverRefused == FALSE
CloseRefused == \E s \in Slot : lent[s] # None

\* _pool.close(), whose exception is only logged.
ShutPool ==
    /\ pool' = IF pool = "open" /\ ~CloseRefused THEN "shut" ELSE pool
    /\ UNCHANGED <<named, lent, tx, call>>

\* finally: _pool = None.
ForgetPool == named' = FALSE /\ UNCHANGED <<pool, lent, tx, call>>

-----------------------------------------------------------------------------
(* What the pool promises *)

\* A connection is lent to the one worker that is using it, a worker that uses
\* none has given its connection back, and the pool is never closed under a
\* statement that is still running (get_connection, close_pool).
PoolAccounted ==
    /\ \A s \in Slot, w \in Worker : lent[s] = w <=> call[w].conn = s
    /\ \A w \in Worker : call[w].conn # None <=> call[w].at \in {"body", "commit", "exit"}
    /\ pool # "open" => ~(\E s \in Slot : lent[s] # None)

\* No statement runs on a connection that carries somebody else's uncommitted
\* change, whatever failed before (the with block of every oracle_db function).
CleanHandover == \A s \in Slot : tx[s] # None => tx[s] = lent[s]
=============================================================================
