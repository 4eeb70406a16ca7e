----------------------------- MODULE Conversation -----------------------------
(***************************************************************************)
(* A conversation with tool calls, held through one of the endpoints with  *)
(* a vendor of its own for every turn: how a client's history becomes chat *)
(* messages (ClaudeToOpenAIMessages, responsesInputToMessages), how gaps   *)
(* are filled (fixToolCallGaps), what the adapters make of the messages    *)
(* (openAIToAnthropicRequest, ...), and how a vendor's reply becomes the   *)
(* message that the client puts into its history, or that the gateway      *)
(* keeps for previous_response_id.                                         *)
(*                                                                         *)
(* A piece of text and a call's result are numbers. A call's arguments are *)
(* the number of the call that they were made for and what they hold: keys *)
(* of an object, or {"raw"} for text that is no JSON, or {"none"} for the  *)
(* empty text. A key is "known" to the built-in tool ("command", ...;      *)
(* "input" and "operation") or "other"; keys that an item has of its own   *)
(* ("id", "type", "call_id", "name", "arguments") are left out.            *)
(***************************************************************************)
EXTENDS Integers, Sequences, FiniteSets, SequencesExt

CONSTANTS
    Protos,    \* the vendors' protocols
    Apis,      \* the clients' endpoints
    Functions, \* the names of the tools a client declares
    ToolKind,  \* the type it declares each with
    ArgForms,  \* what the arguments of a call may hold
    MaxReplies,\* bound: replies in a conversation
    MaxCalls,  \* bound: calls in all of them
    MaxAnswers \* bound: results that the client gives

NoObject == {{"raw"}, {"none"}}

ASSUME ConversationAssumption ==
    /\ Protos \subseteq {"openai", "anthropic", "gemini", "responses"}
    /\ Apis \subseteq {"claude", "responses", "chat"}
    /\ "text" \notin Functions
    /\ ToolKind \in [Functions -> {"function", "shell", "apply_patch"}]
    /\ \A f \in Functions : ToolKind[f] \in {"function", f}
    /\ ArgForms \subseteq SUBSET {"known", "other"} \cup NoObject
    /\ MaxReplies \in Nat /\ MaxCalls \in 1..8 /\ MaxAnswers \in Nat

VARIABLES
    api,
    form,   \* what the arguments of this conversation's calls hold
    talk,   \* what was truly said: the client's turns and the vendors'
    has,    \* the client's history, in the form of its endpoint
    stored, \* storedResponses: the output of the last reply
    asked   \* the request the vendor has in hand

vars == <<api, form, talk, has, stored, asked>>

Unavailable == 0     \* "Tool call result not available"
OutputMissing == -1  \* "[tool output missing]"
Empty == -2          \* "", as a client's result may be
ItemJson == -3       \* the JSON of the item that holds an empty result

Call(id, fn, args) == [id |-> id, fn |-> fn, args |-> args]
NoCall == Call([by |-> "", n |-> 0], "", [of |-> 0, keys |-> {}])

\* a chat message; a Claude message; a block of one, or an item of a response
Msg(role, text, calls, of, val) ==
    [role |-> role, text |-> text, calls |-> calls, of |-> of, val |-> val]
ClaudeMsg(role, blocks) == [role |-> role, blocks |-> blocks]
Part(kind, role, text, call, val) ==
    [kind |-> kind, role |-> role, text |-> text, call |-> call, val |-> val]

Said(role, text) == Msg(role, text, << >>, NoCall.id, 0)
Tool(id, val)    == Msg("tool", << >>, << >>, id, val)
TextPart(role, text) == Part("text", role, text, NoCall, 0)
CallPart(kind, call) == Part(kind, "assistant", << >>, call, 0)
ResultPart(id, val)  == Part("result", "user", << >>, [NoCall EXCEPT !.id = id], val)

Each(s, F(_)) == [i \in DOMAIN s |-> F(s[i])]
TextOf(parts) == FoldLeft(LAMBDA t, p : t \o p.text, << >>, parts)
OfKind(parts, kinds) == SelectSeq(parts, LAMBDA p : p.kind \in kinds)

Init ==
    /\ api \in Apis /\ form \in ArgForms
    /\ talk = << >> /\ has = << >> /\ stored = << >> /\ asked = << >>

-----------------------------------------------------------------------------
(* From a client's history to chat messages. *)

\* one message of ClaudeToOpenAIMessages: the blocks are sorted into text, calls
\* and results, and a user's results go before its text
ClaudeToOpenAI(m) ==
    LET text    == TextOf(OfKind(m.blocks, {"text"}))
        calls   == Each(OfKind(m.blocks, {"tool_use"}), LAMBDA p : p.call)
        results == Each(OfKind(m.blocks, {"result"}), LAMBDA p : Tool(p.call.id, p.val))
        om      == IF text = << >> /\ calls = << >> /\ results # << >> THEN << >>
                   ELSE <<Msg(m.role, text, calls, NoCall.id, 0)>>
    IN  IF m.role = "user" THEN results \o om ELSE om \o results

ClaudeToOpenAIMessages(ms) == FlattenSeq(Each(ms, ClaudeToOpenAI))

\* collectFunctionOutputs: the last output given for a call
CollectFunctionOutputs(items, id) ==
    FoldLeft(LAMBDA v, p : IF p.kind = "result" /\ p.call.id = id THEN p.val ELSE v,
             Empty, items)

\* an item of a built-in tool's call has no name: its type says it
ItemName(p) == CASE p.kind = "function_call" -> p.call.fn
                 [] p.kind = "shell_call" -> "shell"
                 [] p.kind = "apply_patch_call" -> "apply_patch"

\* the arguments of an item: its text if it has one; else of a built-in tool's the
\* keys that the tool knows; and if there are none, the whole item
BuildBuiltInToolCallArguments(p) ==
    LET keys == p.call.args.keys
        text == keys = {"raw"} \/ (p.kind = "function_call" /\ keys # {"none"})
        read == CASE text -> keys
                  [] ~text /\ "known" \in keys -> {"known"}
                  [] ~text /\ "known" \notin keys -> (keys \ {"none"}) \cup {"item"}
    IN  [p.call.args EXCEPT !.keys = read]

\* an item of responsesInputToMessages: a call is followed at once by the last
\* output there is for it; an output that is empty counts for none there, and an
\* item with one passes its own on or, if that is empty too, itself
ItemToMessages(items, p) ==
    LET output == CollectFunctionOutputs(items, p.call.id)
        call == [p.call EXCEPT !.fn = ItemName(p),
                               !.args = BuildBuiltInToolCallArguments(p)]
    IN  CASE p.kind = "text" -> <<Said(p.role, p.text)>>
          [] p.kind = "result" ->
                 <<Tool(p.call.id, CASE output # Empty -> output
                                     [] output = Empty /\ p.val # Empty -> p.val
                                     [] output = Empty /\ p.val = Empty -> ItemJson)>>
          [] p.kind \in {"function_call", "shell_call", "apply_patch_call"} ->
                 <<Msg("assistant", << >>, <<call>>, NoCall.id, 0),
                   Tool(p.call.id, IF output = Empty THEN OutputMissing ELSE output)>>

ResponsesInputToMessages(items) ==
    FlattenSeq(Each(items, LAMBDA p : ItemToMessages(items, p)))

\* Mutant: the first result of a call counts.
FixKeepsFirst(ms) ==
    LET answers(id) == SelectSeq(ms, LAMBDA m : m.role = "tool" /\ m.of = id)
        answer(id)  == IF answers(id) = << >> THEN Tool(id, Unavailable)
                       ELSE Head(answers(id))
        calls == FlattenSeq(Each(ms, LAMBDA m : Each(m.calls, LAMBDA c : c.id)))
    IN  FlattenSeq(Each(SelectSeq(ms, LAMBDA m : m.role # "tool" \/ m.of \notin ToSet(calls)),
                        LAMBDA m : <<m>> \o Each(m.calls, LAMBDA c : answer(c.id))))

\* fixToolCallGaps: behind every message with calls their results, the last one
\* there is for each or a note that there is none; a result met later is dropped
FixToolCallGaps(ms) ==
    LET answer(id) == FoldLeft(LAMBDA a, m : IF m.role = "tool" /\ m.of = id THEN m ELSE a,
                               Tool(id, Unavailable), ms)
        emitted(i) == {c.id : c \in UNION {ToSet(ms[j].calls) : j \in 1..(i - 1)}}
    IN  FlattenSeq([i \in DOMAIN ms |->
            IF ms[i].role = "tool" /\ ms[i].of \in emitted(i) THEN << >>
            ELSE <<ms[i]>> \o Each(ms[i].calls, LAMBDA c : answer(c.id))])

-----------------------------------------------------------------------------
(* From chat messages to what a vendor reads: a sequence of messages (items *)
(* for the Responses protocol), each with its parts.                        *)

Turn(role, parts) == IF parts = << >> THEN << >> ELSE <<[role |-> role, parts |-> parts]>>

Texts(m) == IF m.text = << >> THEN << >> ELSE <<TextPart(m.role, m.text)>>
Calls(m) == Each(m.calls, LAMBDA c : CallPart("call", c))

\* where a protocol wants an object for the arguments, one that is empty stands for
\* text that is none
ObjectOf(c) == IF c.args.keys \in NoObject THEN [c EXCEPT !.args.keys = {}] ELSE c
ObjectCalls(kind, m) == Each(m.calls, LAMBDA c : CallPart(kind, ObjectOf(c)))

\* openAIToAnthropicRequest: results met in a row make one message of the user's
OpenAIToAnthropic(ms) ==
    LET flush(a) == [out |-> a.out \o Turn("user", a.results), results |-> << >>]
        step(a, m) ==
            IF m.role = "tool"
            THEN [a EXCEPT !.results = Append(@, ResultPart(m.of, m.val))]
            ELSE LET b == flush(a) IN
                 [b EXCEPT !.out = @ \o Turn(m.role, Texts(m) \o ObjectCalls("call", m))]
    IN  flush(FoldLeft(step, [out |-> << >>, results |-> << >>], ms)).out

\* openAIToGeminiRequest: a result bears the name of the function of the call met
\* under its id before, or the id itself
OpenAIToGemini(ms) ==
    LET named(i) == FoldLeft(LAMBDA n, c : IF c.id = ms[i].of THEN c.fn ELSE n, "its id",
                             FlattenSeq(Each(SubSeq(ms, 1, i), LAMBDA m : m.calls)))
        named_result(i) == [ResultPart(ms[i].of, ms[i].val) EXCEPT !.call.fn = named(i)]
    IN  FlattenSeq([i \in DOMAIN ms |->
            IF ms[i].role = "tool" THEN Turn("user", <<named_result(i)>>)
            ELSE Turn(IF ms[i].role = "assistant" THEN "model" ELSE "user",
                      Texts(ms[i]) \o ObjectCalls("call", ms[i]))])

\* openAIToResponsesRequest: an item for every text, call and result
OpenAIToResponses(ms) ==
    FlattenSeq(Each(ms, LAMBDA m :
        IF m.role = "tool" THEN Turn("", <<ResultPart(m.of, m.val)>>)
        ELSE FlattenSeq(Each(Texts(m) \o Calls(m), LAMBDA p : Turn(m.role, <<p>>)))))

\* convertMessagesForUpstream: an OpenAI vendor gets the messages as they are
ConvertMessagesForUpstream(ms) ==
    Each(ms, LAMBDA m : [role |-> m.role,
        parts |-> IF m.role = "tool" THEN <<ResultPart(m.of, m.val)>>
                                     ELSE Texts(m) \o Calls(m)])

VendorRequest(proto, ms) ==
    CASE proto = "openai"    -> ConvertMessagesForUpstream(ms)
      [] proto = "anthropic" -> OpenAIToAnthropic(ms)
      [] proto = "gemini"    -> OpenAIToGemini(ms)
      [] proto = "responses" -> OpenAIToResponses(ms)

-----------------------------------------------------------------------------
(* From a vendor's reply to the client. A reply is a sequence of blocks,    *)
(* text or a call of a function; the pieces of a turn are numbered after it.*)

Piece(k) == 10 * (Len(talk) + 1) + k

\* a call as its vendor names it, and as the Gemini adapter does
IdBy(proto, fn, k) == IF proto = "gemini" THEN [by |-> fn, n |-> 0]
                                          ELSE [by |-> "", n |-> Piece(k)]

\* the arguments of a call: text, or of some protocols an object
ArgumentsBy(proto, k) ==
    [of |-> Piece(k), keys |-> IF proto \in {"openai", "responses"} \/ form \notin NoObject
                               THEN form ELSE {}]

\* the adapters' responses: the text put together, and the calls in their order
ToOpenAIResponse(proto, bs) ==
    LET texts == SelectSeq(bs, LAMBDA b : b = "text")
        calls == SelectSeq(bs, LAMBDA b : b # "text")
    IN  Msg("assistant",
            [k \in DOMAIN texts |-> Piece(k)],
            [k \in DOMAIN calls |-> Call(IdBy(proto, calls[k], k), calls[k],
                                          ArgumentsBy(proto, k))],
            NoCall.id, 0)

\* Mutant: the text of a reply with calls is left out.
OpenAIToClaudeCallsOnly(m) ==
    <<ClaudeMsg("assistant", (IF m.calls = << >> THEN Texts(m) ELSE << >>)
                             \o ObjectCalls("tool_use", m))>>

OpenAIToClaudeResponse(m) ==
    <<ClaudeMsg("assistant", Texts(m) \o ObjectCalls("tool_use", m))>>

ToolCallOutputType(fn) == CASE ToolKind[fn] = "function" -> "function_call"
                            [] ToolKind[fn] = "shell" -> "shell_call"
                            [] ToolKind[fn] = "apply_patch" -> "apply_patch_call"

\* buildResponseToolCallItem: a call of a built-in tool has a type for its name, and
\* its arguments' keys, if they are an object, are keys of the item itself
BuildResponseToolCallItem(c) ==
    CallPart(ToolCallOutputType(c.fn),
             IF ToolKind[c.fn] = "function" THEN c ELSE [c EXCEPT !.fn = ""])

ConvertChatToResponses(m) == Texts(m) \o Each(m.calls, BuildResponseToolCallItem)

ClientForm(m) ==
    CASE api = "chat" -> <<m>>
      [] api = "claude" -> OpenAIToClaudeResponse(m)
      [] api = "responses" -> ConvertChatToResponses(m)

-----------------------------------------------------------------------------
(* The client, the gateway and the vendors. *)

LastReply == Last(talk)
ClientsTurn == IF talk = << >> THEN TRUE ELSE LastReply.who = "model"

CallsMade == FlattenSeq(Each(talk, LAMBDA t : t.calls))

\* the calls that the client gives results for, in the order it does: any made so
\* far, one it has answered before or answers twice among them
Answers ==
    LET given == Len(FlattenSeq(Each(talk, LAMBDA t : t.results)))
    IN  UNION {[1..k -> DOMAIN CallsMade] : k \in 0..(MaxAnswers - given)}

\* a turn in the form of each endpoint: text and results in either order
ClientTurn(text, results, textFirst) ==
    LET parts == IF textFirst THEN text \o results ELSE results \o text
    IN  CASE api = "claude" -> <<ClaudeMsg("user", parts)>>
          [] api = "responses" -> parts
          [] api = "chat" ->
                 Each(parts, LAMBDA p : IF p.kind = "text" THEN Said("user", p.text)
                                        ELSE Tool(p.call.id, p.val))

\* the client says something, answers calls, or both; calls it may leave out or
\* answer late, and what a tool put out may be empty (bound: where it gives one)
ClientSpeaks ==
    /\ ClientsTurn /\ Len(talk) < 2 * MaxReplies + 1
    /\ \E r \in Answers, speaks, textFirst, blank \in BOOLEAN :
          LET text == IF speaks THEN <<Piece(0)>> ELSE << >>
              results == [k \in DOMAIN r |-> ResultPart(CallsMade[r[k]].id,
                                                IF blank THEN Empty ELSE Piece(k))]
              says == IF speaks THEN <<TextPart("user", text)>> ELSE << >>
          IN  /\ speaks \/ r # << >>
              /\ textFirst => speaks /\ r # << >>
              /\ blank => Len(r) = 1
              /\ talk' = Append(talk, [who |-> "user", text |-> text, calls |-> << >>,
                                       results |-> results])
              /\ has' = has \o ClientTurn(says, results, textFirst)
    /\ UNCHANGED <<api, form, stored, asked>>

\* the items of a history that came after its last reply
NewItems ==
    SubSeq(has, 1 + SelectLastInSeq(has, LAMBDA p : p.role = "assistant"), Len(has))

\* the messages of a request: the whole history, or what came new behind the
\* stored output of the response it names
Messages(chained, state) ==
    CASE api = "chat" -> has
      [] api = "claude" -> ClaudeToOpenAIMessages(has)
      [] api = "responses" /\ ~chained -> ResponsesInputToMessages(has)
      [] api = "responses" /\ chained ->
             ResponsesInputToMessages(state) \o ResponsesInputToMessages(NewItems)

\* loadResponseState: nothing is known of a response that was not to be stored, or
\* that has expired or made room for others since
LoadResponseState(known) == IF known THEN stored ELSE << >>

StoreResponseState(m) == IF api = "responses" THEN ConvertChatToResponses(m) ELSE << >>

\* a request reaches a vendor; the model, and so the vendor, may be another each
\* time
Send ==
    /\ ~ClientsTurn /\ asked = << >>
    /\ \E proto \in Protos, chained, known \in BOOLEAN :
           /\ chained => api = "responses" /\ Len(talk) > 1
           /\ known = FALSE => chained
           /\ LET ms == FixToolCallGaps(Messages(chained, LoadResponseState(known)))
              IN  asked' = <<[proto |-> proto, chained |-> chained, known |-> known,
                              body |-> VendorRequest(proto, ms)]>>
    /\ UNCHANGED <<api, form, talk, has, stored>>

\* the vendor fails: the client has its history and may ask again
CallFails == asked # << >> /\ asked' = << >> /\ UNCHANGED <<api, form, talk, has, stored>>

\* the vendor replies with calls, and text in front (bound: one piece); of a
\* response its output is stored
VendorReplies ==
    /\ asked # << >> /\ Len(talk) < 2 * MaxReplies
    /\ \E text \in {<< >>, <<"text">>} :
       \E calls \in UNION {[1..n -> Functions] : n \in 0..(MaxCalls - Len(CallsMade))} :
          LET m == ToOpenAIResponse(asked[1].proto, text \o calls) IN
          /\ text \o calls # << >>
          /\ talk' = Append(talk, [who |-> "model", text |-> m.text, calls |-> m.calls,
                                   results |-> << >>])
          /\ has' = has \o ClientForm(m)
          /\ stored' = StoreResponseState(m)
    /\ asked' = << >>
    /\ UNCHANGED <<api, form>>

Next == ClientSpeaks \/ Send \/ CallFails \/ VendorReplies

Spec == Init /\ [][Next]_vars

-----------------------------------------------------------------------------
(* Properties. *)

\* what a request should carry: all that was said; of a chained one the reply it
\* names and what came after, or only the latter if that reply is not known
Due ==
    LET n == Len(talk) IN
    IF ~asked[1].chained THEN talk
    ELSE SubSeq(talk, IF asked[1].known THEN n - 1 ELSE n, n)

Body == FlattenSeq(Each(asked[1].body, LAMBDA t : t.parts))

\* the arguments a vendor reads are those of the call that was made
ArgumentsKept(said, read) ==
    /\ read.args.of = said.args.of
    /\ LET built == api = "responses" /\ ToolKind[said.fn] # "function"
           keys == said.args.keys
       IN  CASE keys = {"raw"} -> read.args.keys \in {{"raw"}, {}}
             [] keys = {"none"} -> read.args.keys \in {{"none"}, {}, {"item"}}
             [] keys \notin NoObject /\ built ->
                    /\ keys \cap {"known"} \subseteq read.args.keys
                    /\ read.args.keys \subseteq keys \cup {"item"}
             [] keys \notin NoObject /\ ~built -> read.args.keys = keys

\* A vendor reads every text of the conversation once, in order and from its
\* speaker, and every call once, in order, under its id and its name, whichever
\* endpoint the client uses and whichever vendors made the calls. An object of
\* arguments it reads as it was, but for a built-in tool's call on the Responses
\* endpoint, of which it reads at least the keys that the tool knows; text that is
\* no JSON it reads as it was or as an empty object.
ConversationKept ==
    asked # << >> =>
        LET said == FlattenSeq(Each(Due, LAMBDA t : t.calls))
            read == Each(OfKind(Body, {"call"}), LAMBDA p : p.call)
        IN
        /\ FlattenSeq(Each(OfKind(Body, {"text"}),
                           LAMBDA p : Each(p.text, LAMBDA n : <<p.role, n>>))) =
               FlattenSeq(Each(Due, LAMBDA t :
                   Each(t.text, LAMBDA n : <<IF t.who = "user" THEN "user" ELSE "assistant", n>>)))
        /\ Len(read) = Len(said)
        /\ \A k \in DOMAIN said :
               /\ read[k].id = said[k].id /\ read[k].fn = said[k].fn
               /\ ArgumentsKept(said[k], read[k])

DueCalls   == FlattenSeq(Each(Due, LAMBDA t : t.calls))
DueResults == FlattenSeq(Each(Due, LAMBDA t : t.results))
DistinctIds == IsInjective(Each(DueCalls, LAMBDA c : c.id))

\* A vendor reads exactly one result for every call, behind it and before anything
\* else is said: the last that the client gave, early, late or twice, and a note
\* that there is none only where it gave none; in place of an empty one the
\* Responses endpoint passes the JSON of the item on. Gemini's bears the function's
\* name, and Anthropic's are all in the message after the one with the calls. (Two
\* calls with one id, as the Gemini adapter makes of two calls of a function, are
\* left out: both get the last result. A late result of a call that a chained
\* request does not hold is passed on by itself.)
EveryCallAnswered ==
    asked # << >> /\ (asked[1].chained => asked[1].known) /\ DistinctIds =>
        LET body == Body
            ids  == {c.id : c \in ToSet(DueCalls)}
            answers == SelectSeq(body, LAMBDA p : p.kind = "result" /\ p.call.id \in ids)
            given(id) == SelectSeq(DueResults, LAMBDA r : r.call.id = id)
        IN
        /\ Len(answers) = Len(DueCalls)
        /\ \A p \in DOMAIN body : body[p].kind = "call" =>
               \E q \in (p + 1)..Len(body) :
                   /\ body[q].kind = "result" /\ body[q].call.id = body[p].call.id
                   /\ \A x \in (p + 1)..q : body[x].kind \in {"call", "result"}
                   /\ asked[1].proto = "gemini" => body[q].call.fn = body[p].call.fn
                   /\ LET last == IF given(body[p].call.id) = << >> THEN Unavailable
                                  ELSE Last(given(body[p].call.id)).val
                      IN  CASE last = Unavailable ->
                                   body[q].val \in {Unavailable, OutputMissing}
                            [] last = Empty ->
                                   body[q].val = IF api = "responses" THEN ItemJson ELSE Empty
                            [] last \notin {Unavailable, Empty} -> body[q].val = last
        /\ asked[1].proto = "anthropic" =>
               \A i \in DOMAIN asked[1].body :
                   LET held(t, k) == {p.call.id : p \in ToSet(OfKind(t.parts, {k}))}
                       calls == held(asked[1].body[i], "call")
                   IN  calls # {} =>
                           /\ i < Len(asked[1].body)
                           /\ calls = held(asked[1].body[i + 1], "result") \cap ids
=============================================================================
