---------------------------- MODULE Conversation ----------------------------
(***************************************************************************)
(* What the chat path promises a user about a conversation: it is a log    *)
(* that grows by one answered message at a time, in the order the messages *)
(* were sent, and disappears only as a whole.                              *)
(***************************************************************************)
EXTENDS Sequences

CONSTANTS
    Message,   \* messages, each of them sent once
    Chat       \* conversations

VARIABLE log   \* the messages of every conversation

Said == UNION {{log[s][j] : j \in DOMAIN log[s]} : s \in Chat}

Init == log = [s \in Chat |-> <<>>]

\* A message that is in no conversation yet goes to the end of one.
Say(s, m) ==
    /\ m \notin Said
    /\ log' = [log EXCEPT ![s] = Append(@, m)]

\* A conversation is deleted or expires, or all of them are lost at once.
Forget(gone) == log' = [s \in Chat |-> IF s \in gone THEN <<>> ELSE log[s]]

Next ==
    \/ \E s \in Chat, m \in Message : Say(s, m)
    \/ \E gone \in SUBSET Chat : Forget(gone)

Spec == Init /\ [][Next]_log
=============================================================================
