--------------------------- MODULE PreferenceLoop ---------------------------
(***************************************************************************)
(* PreferenceCache on asyncio's event loop.  PreferenceCache lets any      *)
(* coroutine that can run go next; the loop is stricter: callbacks run in   *)
(* the order they became ready, so a woken waiter runs after whatever was   *)
(* ready before it and before whatever becomes ready later.                *)
(***************************************************************************)
EXTENDS PreferenceCache

VARIABLE ready   \* the loop's queue of coroutines that can be resumed

loopVars == <<vars, ready>>

InQueue(c) == c \in ToSet(ready)

LoopInit == Init /\ ready = <<>>

\* A request arrives, an awaited thread or query finishes, or a task is told to
\* cancel; a waiter can only be here for the last reason.
BecomeReady(c) ==
    /\ ~InQueue(c)
    /\ pc[c] = "wait" => Cancellation
    /\ ready' = Append(ready, c)
    /\ UNCHANGED vars

\* What a coroutine does until its next await.
RunSlice(c) ==
    \/ \E m \in Member : CallHit(c, m) \/ CallMiss(c, m)
    \/ Progress(c) \/ CancelHolder(c) \/ CancelWaiter(c)

\* The waiters a step wakes go behind the queue; one step wakes at most one.
Newly == woken' \ woken

RunHead ==
    /\ ready # <<>>
    /\ RunSlice(Head(ready))
    /\ ready' \in {Tail(ready) \o tail :
                      tail \in {t \in {<<>>} \cup {<<c>> : c \in Newly} :
                                    Newly = ToSet(t)}}

LoopTick == Tick /\ UNCHANGED ready

LoopNext == (\E c \in Coroutine : BecomeReady(c)) \/ RunHead \/ LoopTick

LoopSpec == LoopInit /\ [][LoopNext]_loopVars
=============================================================================
