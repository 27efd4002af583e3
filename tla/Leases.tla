------------------------------- MODULE Leases -------------------------------
(***************************************************************************)
(* What a connection pool promises: a connection is nobody's or one        *)
(* client's, only that client works on it, and it comes back without what  *)
(* the client left unfinished.  A pool shuts only when it has all its      *)
(* connections.                                                            *)
(***************************************************************************)
CONSTANTS
    Connection,
    Client,
    Nobody

VARIABLES
    open,     \* whether there is a pool to take a connection from
    holder,   \* holder[c]: the client that has connection c
    change    \* change[c]: the client whose uncommitted change c carries

vars == <<open, holder, change>>

AllBack == [c \in Connection |-> Nobody]

Init == open = FALSE /\ holder = AllBack /\ change = AllBack

Open == ~open /\ open' = TRUE /\ UNCHANGED <<holder, change>>

\* A client that has no connection gets one that nobody has.
Lend(c, w) ==
    /\ open /\ holder[c] = Nobody /\ \A d \in Connection : holder[d] # w
    /\ holder' = [holder EXCEPT ![c] = w]
    /\ UNCHANGED <<open, change>>

\* The client that has it changes something, or commits.
Work(c, w) ==
    /\ holder[c] = w
    /\ change' \in {[change EXCEPT ![c] = w], [change EXCEPT ![c] = Nobody]}
    /\ UNCHANGED <<open, holder>>

\* The connection comes back, and what was not committed is rolled back.
GiveBack(c, w) ==
    /\ holder[c] = w
    /\ holder' = [holder EXCEPT ![c] = Nobody]
    /\ change' = [change EXCEPT ![c] = Nobody]
    /\ UNCHANGED open

Shut == open /\ holder = AllBack /\ open' = FALSE /\ UNCHANGED <<holder, change>>

\* The process that had the pool ends, and the database drops its connections.
Lost == open' = FALSE /\ holder' = AllBack /\ change' = AllBack

Next ==
    \/ \E c \in Connection, w \in Client : Lend(c, w) \/ Work(c, w) \/ GiveBack(c, w)
    \/ Open \/ Shut \/ Lost

Spec == Init /\ [][Next]_vars
=============================================================================
