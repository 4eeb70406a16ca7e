------------------------------ MODULE ReplyStream ------------------------------
(***************************************************************************)
(* One streamed reply on its way from a vendor to a client: the vendor's   *)
(* events, the converter that turns them into chat chunks (sse.go and the  *)
(* proto_*.go adapters; an OpenAI vendor is passed through), the handler   *)
(* that turns chunks into the client's events (claudeStreamHandler,        *)
(* responsesStreamHandler, or the chat endpoint's own frames), and what    *)
(* the client makes of them.                                               *)
(*                                                                         *)
(* A piece of content is the number of the vendor's event that brought it. *)
(* Pieces are never put together: an item's content is the sequence of its *)
(* pieces, and what concatenation would hide, its order, is kept.          *)
(***************************************************************************)
EXTENDS Naturals, Sequences, FiniteSets, SequencesExt

CONSTANTS
    Protos,    \* the vendors' protocols
    Apis,      \* the clients' endpoints
    MaxSaid,   \* bound: events with content in one reply
    MaxTools   \* bound: tool calls in one reply

ASSUME ReplyStreamAssumption ==
    /\ Protos \subseteq {"openai", "anthropic", "gemini", "responses"}
    /\ Apis \subseteq {"claude", "responses", "chat"}
    /\ MaxSaid \in Nat /\ MaxTools \in Nat

VARIABLES
    req,    \* the request: its endpoint, the vendor's protocol, wantReasoning
    said,   \* the vendor's events with content
    up,     \* the vendor's stream: whether it is open and how the reply ended
    conv,   \* the converter's state
    out,    \* its output buffer, or the lines of a vendor passed through
    h,      \* the local variables of the handler
    emit,   \* the events it is writing
    client, \* what the client has put together
    record  \* the handler's call record

replyVars == <<req, said, up, conv, out, h, emit, client, record>>

Tools  == 1..MaxTools
NoTool == 0
Failure == 0  \* the text a failure is told with

Item(kind, tool) == [kind |-> kind, tool |-> tool]
Content(kind, tool, data) == [kind |-> kind, tool |-> tool, data |-> data]

\* a chunk of the chat stream: a delta, or one of those that end it
Delta(kind, tool, data) ==
    [kind |-> kind, tool |-> tool, data |-> data, fin |-> "", counted |-> FALSE]
Closing(kind, fin, counted) ==
    [kind |-> kind, tool |-> NoTool, data |-> << >>, fin |-> fin,
     counted |-> counted]

\* an event written to the client about its i-th item
Event(ev, i, it, data, status) ==
    [ev |-> ev, i |-> i, kind |-> it.kind, tool |-> it.tool, data |-> data,
     status |-> status, output |-> << >>, named |-> TRUE]

\* numbers in their order
Ascending(S) ==
    CHOOSE s \in [1..Cardinality(S) -> S] :
        \A i, j \in 1..Cardinality(S) : i < j => s[i] < s[j]

NoHandler == [begun |-> FALSE, items |-> << >>, open |-> {}, done |-> {},
              status |-> "stop", counted |-> FALSE, ended |-> FALSE]

ReplyInit ==
    /\ req \in [api: Apis, proto: Protos, want: BOOLEAN, counts: BOOLEAN]
    /\ said = << >>
    /\ up = [open |-> TRUE, fin |-> "", cut |-> FALSE]
    /\ conv = << >>
    /\ out = << >>
    /\ h = NoHandler
    /\ emit = << >>
    /\ client = [phase |-> "idle", items |-> << >>, status |-> "",
                 output |-> << >>]
    /\ record = [written |-> FALSE, counted |-> FALSE]

-----------------------------------------------------------------------------
(* The vendor and the converter. The converter reads on only when what it  *)
(* has put out is read (pump), and the handler reads on only when it has   *)
(* written.                                                                *)

Pumps == up.open /\ out = << >> /\ emit = << >> /\ ~h.ended
Speaks == Pumps /\ up.fin = "" /\ Len(said) < MaxSaid

Passes == req.proto = "openai"
Calls == Cardinality({n \in DOMAIN said : said[n].kind = "call"})
This == Len(said) + 1
Says(kind, tool) == said' = Append(said, Item(kind, tool))

VendorText ==
    /\ Speaks /\ Says("text", NoTool)
    /\ out' = <<Delta("text", NoTool, <<This>>)>>
    /\ UNCHANGED <<req, up, conv, h, emit, client, record>>

\* thinking_delta, response.reasoning_text.delta, reasoning_content; the Gemini
\* adapter knows none
VendorThinks ==
    /\ Speaks /\ req.proto # "gemini" /\ Says("thinking", NoTool)
    /\ out' = <<Delta("thinking", NoTool, <<This>>)>>
    /\ UNCHANGED <<req, up, conv, h, emit, client, record>>

\* a call begins, with its id and name; Gemini sends it whole
VendorCalls ==
    /\ Speaks /\ Calls < MaxTools /\ Says("call", Calls + 1)
    /\ conv' = Append(conv, << >>)
    /\ out' = <<Delta("call", Calls + 1,
                      IF req.proto = "gemini" THEN <<This>> ELSE << >>)>>
    /\ UNCHANGED <<req, up, h, emit, client, record>>

\* more of a call's arguments: an OpenAI vendor may be writing several calls, the
\* others finish an item before the next; their adapters keep the arguments back
VendorArgs ==
    /\ Speaks /\ req.proto # "gemini"
    /\ \E t \in 1..Calls :
           /\ Passes \/ said[Len(said)] \in {Item("call", t), Item("args", t)}
           /\ Says("args", t)
           /\ IF Passes
              THEN out' = <<Delta("args", t, <<This>>)>> /\ UNCHANGED conv
              ELSE conv' = [conv EXCEPT ![t] = Append(@, This)] /\ UNCHANGED out
    /\ UNCHANGED <<req, up, h, emit, client, record>>

\* how a vendor can say that the reply ends; Gemini has no word for calls, and only
\* the Responses protocol for a failure. Its response.incomplete is "length" here,
\* and its response.completed of the status incomplete is "incomplete", or after
\* calls, when the adapter does not look at the status, "tool_calls"
VendorReasons ==
    (IF Calls = 0 \/ req.proto = "gemini"
     THEN {"stop", "length", "content_filter"} ELSE {"tool_calls", "length"})
    \cup (IF req.proto = "responses" THEN {"failed"} ELSE {})
    \cup (IF req.proto = "responses" /\ Calls = 0 THEN {"incomplete"} ELSE {})

\* the vendor says why the reply ends: stop_reason, finishReason,
\* response.completed or .incomplete or .failed, finish_reason
VendorFinishes ==
    /\ Pumps /\ up.fin = ""
    /\ \E fin \in VendorReasons :
           /\ up' = [up EXCEPT !.fin = fin]
           /\ out' = IF Passes THEN <<Closing("finish", fin, FALSE)>> ELSE << >>
    /\ UNCHANGED <<req, said, conv, h, emit, client, record>>

\* what each adapter makes of it: a refusal is a stop for Anthropic's, and
\* response.incomplete is not an event that the Responses adapter knows
anthropicFinishReason(fin) == IF fin \in {"", "content_filter"} THEN "stop" ELSE fin
geminiFinishReason(fin) == IF fin = "" THEN "stop" ELSE fin
responsesFinishReason(fin) ==
    CASE Calls > 0 -> "tool_calls"
      [] Calls = 0 /\ fin = "incomplete" -> "length"
      [] Calls = 0 /\ fin # "incomplete" -> "stop"

FinishReason ==
    CASE req.proto = "anthropic" -> anthropicFinishReason(up.fin)
      [] req.proto = "gemini"    -> geminiFinishReason(up.fin)
      [] req.proto = "responses" -> responsesFinishReason(up.fin)

\* the adapter has seen the vendor's token counts
UsageSeen ==
    /\ req.counts
    /\ IF req.proto = "responses" THEN up.fin \in {"stop", "tool_calls", "incomplete"}
                                  ELSE said # << >> \/ up.fin # ""

\* the arguments kept back, as one delta for each call that has any
Kept ==
    LET ts == Ascending({t \in DOMAIN conv : conv[t] # << >>})
    IN  [k \in DOMAIN ts |-> Delta("args", ts[k], conv[ts[k]])]

\* Mutant: only the arguments of the last call are put out.
TailOfLast == (IF Kept = << >> THEN << >> ELSE <<Last(Kept)>>) \o
    <<Closing("finish", FinishReason, FALSE),
      Closing("usage", "", UsageSeen), Closing("done", "", FALSE)>>

\* what finish() appends
ConverterTail ==
    (IF up.fin = "failed" THEN <<Delta("text", NoTool, <<Failure>>)>> ELSE << >>)
    \o Kept
    \o <<Closing("finish", FinishReason, FALSE),
         Closing("usage", "", UsageSeen), Closing("done", "", FALSE)>>

\* the vendor's stream ends, in its good time or not: for a converter a read error
\* is the end like any other; of a vendor passed through the handler sees which
VendorEnds ==
    /\ Pumps
    /\ up' = [up EXCEPT !.open = FALSE, !.cut = Passes /\ up.fin = ""]
    /\ \/ ~Passes /\ out' = ConverterTail
       \/ /\ Passes
          /\ \E how \in {"done", "eof", "error"} :
                 out' = (IF req.counts /\ up.fin # "" /\ how = "done"
                         THEN <<Closing("usage", "", TRUE)>> ELSE << >>)
                        \o <<Closing(how, "", FALSE)>>
    /\ UNCHANGED <<req, said, conv, h, emit, client, record>>

-----------------------------------------------------------------------------
(* What the handlers have in common: s is a handler's state with the events *)
(* it has written while it handles a chunk.                                 *)

Put(s, e) == [s EXCEPT !.es = Append(@, e)]

Index(hs, kind, tool) ==
    LET at == {i \in DOMAIN hs.items :
                   hs.items[i].kind = kind /\ hs.items[i].tool = tool}
    IN  IF at = {} THEN 0 ELSE CHOOSE i \in at : TRUE

Started(s) ==
    IF s.h.begun THEN s
    ELSE Put([s EXCEPT !.h.begun = TRUE],
             Event("begin", 0, Item("", NoTool), << >>, ""))

\* a new item takes the next index: blockIndex, OutputIndexAllocator
Added(s, kind, tool) ==
    Put([s EXCEPT !.h.items = Append(@, Content(kind, tool, << >>))],
        Event("open", Len(s.h.items) + 1, Item(kind, tool), << >>, ""))

\* more of item i; nothing is written for an empty delta
Grown(s, i, data) ==
    IF data = << >> THEN s
    ELSE Put([s EXCEPT !.h.items[i].data = @ \o data],
             Event("delta", i, Item(s.h.items[i].kind, s.h.items[i].tool), data, ""))

Ended(s, status, output) ==
    Put([s EXCEPT !.h.ended = TRUE],
        [Event("end", 0, Item("", NoTool), << >>, status) EXCEPT !.output = output])

-----------------------------------------------------------------------------
(* claudeStreamHandler. Its blocks are numbered by blockIndex: the text or  *)
(* thinking block that is open is the last one begun.                       *)

ClaudeClose(s, kind) ==
    IF kind \notin s.h.open THEN s
    ELSE Put([s EXCEPT !.h.open = @ \ {kind}],
             Event("close", Len(s.h.items), Item(kind, NoTool), << >>, ""))

ClaudeOpen(s, kind) ==
    IF kind \in s.h.open THEN s
    ELSE Added([s EXCEPT !.h.open = @ \cup {kind}], kind, NoTool)

ClaudeCloseBoth(s) == ClaudeClose(ClaudeClose(s, "thinking"), "text")

\* thinking_delta and text_delta: the other kind's block is closed first
ClaudeWrites(s, kind, other, data) ==
    LET b == ClaudeOpen(ClaudeClose(s, other), kind)
    IN  Grown(b, Len(b.h.items), data)

\* Mutant: a tool_use block starts while the text block stays open.
ClaudeToolUnclosed(s, c) ==
    LET b == IF Index(s.h, "call", c.tool) # 0 THEN s ELSE Added(s, "call", c.tool)
    IN  Grown(b, Index(b.h, "call", c.tool), c.data)

\* a tool_calls delta
ClaudeTool(s, c) ==
    LET a == ClaudeCloseBoth(s)
        b == IF Index(a.h, "call", c.tool) # 0 THEN a ELSE Added(a, "call", c.tool)
    IN  Grown(b, Index(b.h, "call", c.tool), c.data)

ToolItems(hs) == {i \in DOMAIN hs.items : hs.items[i].kind = "call"}

\* a finish reason: every block is stopped, and the handler returns
ClaudeFinishes(s, fin) ==
    LET a == ClaudeCloseBoth(s)
        tools == Ascending(ToolItems(a.h))
        stops == [k \in DOMAIN tools |->
                     Event("close", tools[k], Item("call", a.h.items[tools[k]].tool),
                           << >>, "")]
    IN  Ended([a EXCEPT !.es = @ \o stops], fin, << >>)

\* [DONE], the end of the stream or a read error: tool_use blocks stay as they are
ClaudeRunsOut(s) == Ended(ClaudeCloseBoth(s), "stop", << >>)

ClaudeHandles(s, c) ==
    CASE c.kind = "usage" -> [s EXCEPT !.h.counted = c.counted]
      [] c.kind \in {"done", "eof", "error"} -> ClaudeRunsOut(s)
      [] c.kind = "finish" -> ClaudeFinishes(Started(s), c.fin)
      [] c.kind = "text" -> ClaudeWrites(Started(s), "text", "thinking", c.data)
      [] c.kind = "thinking" ->
             IF req.want THEN ClaudeWrites(Started(s), "thinking", "text", c.data)
                         ELSE Started(s)
      [] c.kind \in {"call", "args"} -> ClaudeTool(Started(s), c)

-----------------------------------------------------------------------------
(* responsesStreamHandler.                                                  *)

\* an item's .done events, once: they repeat all it holds and tell its status
RespDone(s, i) ==
    Event("close", i, Item(s.h.items[i].kind, s.h.items[i].tool), s.h.items[i].data, s.h.status)

RespClose(s, i) ==
    IF i \in s.h.done \cup {0} THEN s
    ELSE Put([s EXCEPT !.h.done = @ \cup {i}], RespDone(s, i))

RespItem(s, kind, tool) ==
    IF Index(s.h, kind, tool) # 0 THEN s ELSE Added(s, kind, tool)

\* a delta; the reasoning stays open until the finish reason is known
RespWrites(s, c) ==
    LET kind == IF c.kind = "args" THEN "call" ELSE c.kind
        a == RespItem(s, kind, c.tool)
    IN  Grown(a, Index(a.h, kind, c.tool), c.data)

RespCloseTools(s) ==
    LET tools == Ascending(ToolItems(s.h) \ s.h.done)
    IN  [s EXCEPT !.h.done = @ \cup ToolItems(s.h),
                  !.es = @ \o [k \in DOMAIN tools |-> RespDone(s, tools[k])]]

\* emitReasoningDone, emitMessageDone, emitToolCallDone
RespCloseAll(s) ==
    LET a == RespClose(s, Index(s.h, "thinking", NoTool))
        b == RespClose(a, Index(a.h, "text", NoTool))
    IN  RespCloseTools(b)

\* Mutant: the items are closed before the status is known.
RespFinishesLate(s, fin) ==
    LET a == RespClose(s, Index(s.h, "thinking", NoTool))
        b == IF ToolItems(a.h) = {} THEN RespItem(a, "text", NoTool) ELSE a
    IN  IF fin = "tool_calls" THEN s
        ELSE [RespCloseAll(b) EXCEPT !.h.status = IF fin = "length" THEN fin ELSE @]

\* stop, length or content_filter; tool_calls leaves the items to the end
RespFinishes(s, fin) ==
    LET a == RespClose([s EXCEPT !.h.status = IF fin = "length" THEN fin ELSE @],
                       Index(s.h, "thinking", NoTool))
        b == IF ToolItems(a.h) = {} THEN RespItem(a, "text", NoTool) ELSE a
    IN  IF fin = "tool_calls" THEN s ELSE RespCloseAll(b)

\* [DONE] or the end of the stream: the terminal event, with every item
RespRunsOut(s) ==
    LET a == RespCloseAll(s) IN Ended(a, a.h.status, a.h.items)

RespHandles(s, c) ==
    CASE c.kind = "usage" -> [Started(s) EXCEPT !.h.counted = c.counted]
      [] c.kind = "error" -> [s EXCEPT !.h.ended = TRUE, !.h.counted = FALSE]
      [] c.kind \in {"done", "eof"} -> RespRunsOut(s)
      [] c.kind = "finish" -> RespFinishes(Started(s), c.fin)
      [] c.kind = "thinking" -> IF req.want THEN RespWrites(Started(s), c)
                                            ELSE Started(s)
      [] c.kind \in {"text", "call", "args"} -> RespWrites(Started(s), c)

-----------------------------------------------------------------------------
(* The chat endpoint forwards the chunks as frames of their own, through    *)
(* cleanStreamDelta and normalizeToolCallDeltas. How it goes on when the    *)
(* vendor breaks off is StreamResume's subject: here the reply just ends.   *)

Frame(c, named) == [Event("frame", 0, Item(c.kind, c.tool), c.data, "")
                    EXCEPT !.named = named]

\* the first frame of a call names it, and the name is put into the later ones
ChatCall(s, c) ==
    LET a == IF c.kind = "call"
             THEN [s EXCEPT !.h.items = Append(@, Content("call", c.tool, << >>))]
             ELSE s
    IN  Put(a, Frame([c EXCEPT !.kind = "call"], Index(a.h, "call", c.tool) # 0))

ChatHandles(s, c) ==
    CASE c.kind = "usage" -> [s EXCEPT !.h.counted = c.counted]
      [] c.kind \in {"done", "eof", "error"} -> Ended(s, s.h.status, << >>)
      [] c.kind = "finish" -> [s EXCEPT !.h.status = c.fin]
      [] c.kind = "text" -> Put(s, Frame(c, TRUE))
      [] c.kind = "thinking" -> IF req.want THEN Put(s, Frame(c, TRUE)) ELSE s
      [] c.kind \in {"call", "args"} -> ChatCall(s, c)

-----------------------------------------------------------------------------
(* A handler's step, the connection to the client, and the record.          *)

Handles(s, c) ==
    CASE req.api = "claude" -> ClaudeHandles(s, c)
      [] req.api = "responses" -> RespHandles(s, c)
      [] req.api = "chat" -> ChatHandles(s, c)

Handle ==
    /\ out # << >> /\ emit = << >> /\ ~h.ended
    /\ LET s == Handles([h |-> h, es |-> << >>], Head(out))
       IN  h' = s.h /\ emit' = s.es
    /\ out' = Tail(out)
    /\ UNCHANGED <<req, said, up, conv, client, record>>

Confused(cl) == [cl EXCEPT !.phase = "confused"]

\* a client of the event protocols, which takes each event at its word
Takes(cl, e) ==
    LET known == e.i \in DOMAIN cl.items /\ cl.items[e.i].open IN
    CASE e.ev = "begin" -> [cl EXCEPT !.phase = IF @ = "idle" THEN "on" ELSE "confused"]
      [] e.ev = "open" ->
             IF e.i # Len(cl.items) + 1 THEN Confused(cl)
             ELSE [cl EXCEPT !.items = Append(@,
                      [kind |-> e.kind, tool |-> e.tool, data |-> << >>,
                       open |-> TRUE, whole |-> << >>, status |-> ""])]
      [] e.ev = "delta" -> IF known THEN [cl EXCEPT !.items[e.i].data = @ \o e.data]
                                    ELSE Confused(cl)
      [] e.ev = "close" ->
             IF known THEN [cl EXCEPT !.items[e.i] =
                               [@ EXCEPT !.open = FALSE, !.whole = e.data,
                                         !.status = e.status]]
                      ELSE Confused(cl)
      [] e.ev = "end" -> [cl EXCEPT !.phase = IF @ = "over" THEN "confused" ELSE "over",
                                    !.status = e.status, !.output = e.output]

\* a chat client that takes a call's name from every frame
TakesFrame(cl, e) ==
    LET i == Index(cl, e.kind, e.tool) IN
    CASE e.ev = "end" -> [cl EXCEPT !.phase = "over", !.status = e.status]
      [] e.ev = "frame" ->
             IF ~e.named THEN Confused(cl)
             ELSE IF i # 0 THEN [cl EXCEPT !.items[i].data = @ \o e.data]
             ELSE [cl EXCEPT !.items = Append(@, Content(e.kind, e.tool, e.data))]

Deliver ==
    /\ emit # << >>
    /\ client' = IF req.api = "chat" THEN TakesFrame(client, Head(emit))
                                     ELSE Takes(client, Head(emit))
    /\ emit' = Tail(emit)
    /\ UNCHANGED <<req, said, up, conv, out, h, record>>

\* the handler returns; its caller writes the record
Returns ==
    /\ h.ended /\ emit = << >> /\ ~record.written
    /\ record' = [written |-> TRUE, counted |-> h.counted]
    /\ UNCHANGED <<req, said, up, conv, out, h, emit, client>>

ReplyNext == \/ VendorText \/ VendorThinks \/ VendorCalls \/ VendorArgs
        \/ VendorFinishes \/ VendorEnds \/ Handle \/ Deliver \/ Returns

ReplySpec == ReplyInit /\ [][ReplyNext]_replyVars

-----------------------------------------------------------------------------
(* Properties. *)

\* The events that either handler writes are a reply as EventStream promises it,
\* whatever the vendor sends and wherever it stops.
Promise == INSTANCE EventStream WITH
    Kinds <- {"text", "thinking", "call"},
    phase <- IF req.api = "chat" THEN "idle" ELSE client.phase,
    items <- IF req.api = "chat" THEN << >>
             ELSE [i \in DOMAIN client.items |->
                      [kind |-> client.items[i].kind, data |-> client.items[i].data,
                       open |-> client.items[i].open]],
    cut <- up.cut

KeepsPromise == Promise!Spec

SaidOf(kinds, tool) ==
    SelectSeq([n \in DOMAIN said |-> n],
              LAMBDA n : said[n].kind \in kinds /\ said[n].tool = tool)

\* the content a client holds in items of a kind, in the order of the items
Shown(items, kind, tool) ==
    FoldLeft(LAMBDA all, it : IF it.kind = kind /\ it.tool = tool
                              THEN all \o it.data ELSE all, << >>, items)

\* A client has been shown, when its handler has returned, what the vendor said and
\* nothing else: the text, the reasoning if it is wanted, and each call's arguments
\* under that call, in the vendor's order; a vendor's failure is shown as text.
\* The items of a Responses reply that repeat their content say the same again.
ContentArrives ==
    record.written =>
        /\ client.phase # "confused"
        /\ Shown(client.items, "text", NoTool) =
               SaidOf({"text"}, NoTool)
               \o (IF up.fin = "failed" THEN <<Failure>> ELSE << >>)
        /\ Shown(client.items, "thinking", NoTool) =
               IF req.want THEN SaidOf({"thinking"}, NoTool) ELSE << >>
        /\ \A t \in Tools :
               /\ Shown(client.items, "call", t) =
                      IF req.proto = "gemini" THEN SaidOf({"call"}, t)
                                              ELSE SaidOf({"args"}, t)
               /\ t <= Calls <=> Index(client, "call", t) # 0
        /\ client.output # << >> =>
               /\ Len(client.output) = Len(client.items)
               /\ \A i \in DOMAIN client.items :
                      /\ client.output[i].data = client.items[i].data
                      /\ client.items[i].whole = client.items[i].data

\* A client is told that a reply was cut short exactly when its vendor said so, and
\* no item of it is announced as complete before. (Of a Responses vendor's ends this
\* is so of one alone: the adapter does not listen to response.incomplete, nor to
\* the status after calls, and these end as a "stop" or as "tool_calls".)
TruncationTold ==
    record.written /\ client.phase = "over" =>
        /\ client.status = "length" <=>
               up.fin = IF req.proto = "responses" THEN "incomplete" ELSE "length"
        /\ req.api = "responses" =>
               \A i \in DOMAIN client.items : client.items[i].status = client.status

\* claude.go says of the deferred write-back that the usage must reach the call
\* record, or a streamed /v1/messages counts as nothing: what an adapter has counted
\* for a reply is on the record when claudeStreamHandler has returned.
\* (The code does not keep to this: README, section 3.)
UsageIsRecorded ==
    record.written /\ req.api = "claude" /\ ~Passes /\ UsageSeen => record.counted
=============================================================================
