---------------------------- MODULE SerialClient ----------------------------
(***************************************************************************)
(* ChatTurn under the discipline of a client that waits: it sends the next *)
(* message of a conversation, or deletes it, only when the request before  *)
(* was answered or the server died.  Nothing in the server enforces it, so *)
(* the properties of this module are those a single open tab relies on,    *)
(* whatever other clients do in other sessions.                            *)
(***************************************************************************)
EXTENDS ChatTurn

CONSTANT Waiting   \* the sessions whose client waits

ASSUME SerialClientAssumption == Waiting \subseteq Session

\* A request that will change the conversation of a session.
InFlight(s) ==
    {r \in Request : /\ req[r].kind \in {"turn", "delete"}
                     /\ req[r].session = s
                     /\ req[r].pc \notin {"done", "lost"}}

OneChangeAtATime == \A s \in Waiting : \A r, x \in InFlight(s) : r = x

SerialSpec == Init /\ [][Next /\ OneChangeAtATime']_vars

\* The history the LLM is shown and the memory the turn is appended to are
\* read apart, in _resolve_history and in ainvoke.  For a client that waits, a
\* history taken from memory is the end of the conversation the turn is added
\* to, no longer than the window, and the client's own version of it is believed
\* only where the server remembers nothing.  The one exception is a failed read,
\* after which a client may be believed beside a memory that is there.
HistoryIsMemory ==
    \A r \in Request :
        (req[r].pc \in {"nodes", "append", "save", "touch"} /\ req[r].session \in Waiting)
            => LET seen == req[r].seen  base == req[r].base IN
               /\ req[r].from = "memory" =>
                     \E n \in 1..Len(base) :
                         /\ seen = SubSeq(base, Len(base) - n + 1, Len(base))
                         /\ Kept > 0 => n <= Kept
               /\ req[r].from = "client" => base = <<>>

\* Their threads, seen as logs of the requests whose turns they hold.
LogOf(turns) == [j \in DOMAIN turns |-> turns[j].by]

Logs == [s \in Waiting |-> LogOf(thread[s].turns)]

C == INSTANCE Conversation WITH Message <- Request, Chat <- Waiting, log <- Logs

\* The checkpointed threads implement a conversation: every checkpoint that
\* LangGraph writes during a turn leaves the log alone, and the last adds one
\* message to it, whatever failed, expired or restarted on the way.
ConversationSpec == C!Spec
=============================================================================
