---------------------------- MODULE EventStream ----------------------------
(* The answer of /chat/stream: pipeline/stream_util.py on the side of the
   server, and the reader in the browser as tests/test_sse_parse_algorithm.py
   ports it.  Between them the text is cut anywhere.  A block is its event line,
   its data line and a blank line, each with its newline; to the reader, who
   looks for two newlines in a row, a piece that ends within a line is a piece
   that ends before it. *)
EXTENDS Naturals, Sequences

CONSTANTS
    Request,
    MaxChunks   \* bound on the chunks of an answer

VARIABLES
    plan,       \* plan[r]: the events event_stream yields, in order
    sent,       \* sent[r]: how many of them were yielded
    wire,       \* wire[r]: what was sent and not yet read
    buffer,     \* buffer[r]: the reader's text without a complete block
    got         \* got[r]: the events the reader has restored

streamVars == <<plan, sent, wire, buffer, got>>

Line(part, i) == [part |-> part, of |-> i]
BlankLine == Line("blank", 0)
Lines == [part : {"event", "data", "blank"}, of : 0 .. MaxChunks + 1]

StreamTypeOK ==
    /\ plan \in [Request -> Seq({"chunk", "done", "error"})]
    /\ sent \in [Request -> 0 .. MaxChunks + 1]
    /\ wire \in [Request -> Seq(Lines)]
    /\ buffer \in [Request -> Seq(Lines)]
    /\ got \in [Request -> Seq((0 .. MaxChunks + 1) \X (0 .. MaxChunks + 1))]

StreamInit ==
    /\ plan = [r \in Request |-> <<>>]
    /\ sent = [r \in Request |-> 0]
    /\ wire = [r \in Request |-> <<>>]
    /\ buffer = [r \in Request |-> <<>>]
    /\ got = [r \in Request |-> <<>>]

-----------------------------------------------------------------------------
(* The server *)

\* sse_event: the JSON text has no newline of its own.
SseEvent(i) == <<Line("event", i), Line("data", i), BlankLine>>

\* split_into_chunks gives n chunks, none for an empty answer.
AnswerEvents(n) == [i \in 1 .. n + 1 |-> IF i <= n THEN "chunk" ELSE "done"]
ErrorEvents == <<"error">>

AllSent(r) == sent[r] = Len(plan[r])

\* One yield of event_stream.
SendEvent(r) ==
    /\ ~AllSent(r)
    /\ sent' = [sent EXCEPT ![r] = @ + 1]
    /\ wire' = [wire EXCEPT ![r] = @ \o SseEvent(sent[r] + 1)]
    /\ UNCHANGED <<plan, buffer, got>>

\* The reader is gone, and nobody asks any more what it has read.
ReaderLost(r) ==
    /\ plan' = [plan EXCEPT ![r] = <<>>] /\ sent' = [sent EXCEPT ![r] = 0]
    /\ wire' = [wire EXCEPT ![r] = <<>>] /\ buffer' = [buffer EXCEPT ![r] = <<>>]
    /\ got' = [got EXCEPT ![r] = <<>>]

\* The sender is gone: what the reader had not received is lost.
SenderLost ==
    /\ wire' = [r \in Request |-> <<>>]
    /\ UNCHANGED <<plan, sent, buffer, got>>

-----------------------------------------------------------------------------
(* The reader *)

BlankAt(b) == {i \in 1 .. Len(b) : b[i] = BlankLine}
HasBlock(r) == BlankAt(buffer[r]) # {}

NewestOnly(r, k) == SubSeq(wire[r], 1, k)
Received(r, k) == buffer[r] \o SubSeq(wire[r], 1, k)

\* One read of the network returns any piece of the stream.
Deliver(r) ==
    /\ ~HasBlock(r)
    /\ \E k \in 1 .. Len(wire[r]) :
          /\ buffer' = [buffer EXCEPT ![r] = Received(r, k)]
          /\ wire' = [wire EXCEPT ![r] = SubSeq(@, k + 1, Len(@))]
    /\ UNCHANGED <<plan, sent, got>>

\* parse_sse_block: an event line and a data line, or nothing.
ParseBlock(b) ==
    LET last(part) == {i \in 1 .. Len(b) : b[i].part = part
                          /\ \A j \in i + 1 .. Len(b) : b[j].part # part}
    IN  IF last("event") = {} \/ last("data") = {} THEN <<>>
        ELSE <<<<b[CHOOSE i \in last("event") : TRUE].of,
                 b[CHOOSE i \in last("data") : TRUE].of>>>>

\* One turn of the loop of feed_stream: cut the first block off the buffer.
CutBlock(r) ==
    /\ HasBlock(r)
    /\ LET b == buffer[r]
           cut == CHOOSE i \in BlankAt(b) : \A j \in BlankAt(b) : i <= j
       IN  /\ got' = [got EXCEPT ![r] = @ \o ParseBlock(SubSeq(b, 1, cut - 1))]
           /\ buffer' = [buffer EXCEPT ![r] = SubSeq(b, cut + 1, Len(b))]
    /\ UNCHANGED <<plan, sent, wire>>

-----------------------------------------------------------------------------
\* However the network cuts the stream, the reader restores the events that
\* were sent, each once, in order and with its own data, and none that is not
\* complete (sse_event against feed_stream).
StreamInOrder ==
    \A r \in Request :
        /\ Len(got[r]) <= sent[r]
        /\ \A i \in 1 .. Len(got[r]) : got[r][i] = <<i, i>>
=============================================================================
