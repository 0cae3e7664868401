---------------------------- MODULE TokenStream ----------------------------
(***************************************************************************)
(* One answer of the token pipeline on its way to the client and into the  *)
(* record: the incremental decoding of the streamed token ids, the parsing *)
(* of every delta into reasoning, tool calls and content (parse_delta with *)
(* the qwen3 and deepseek_r1 reasoning parsers and the hermes tool         *)
(* parser), and the parsing of the whole text for the stored response,     *)
(* which is also the answer to a request that does not stream.             *)
(*                                                                         *)
(* The inference service chooses the answer, cuts it into chunks as it     *)
(* likes and may stop early.  The tags of tool calls are two symbols, so   *)
(* that a text can end with half a tag; a character may be two tokens.     *)
(***************************************************************************)
EXTENDS Texts, SequencesExt

CONSTANTS
  Configs,   \* parsers of the model, tool_choice of the request, wire format
  Prompts,   \* token ids of the prompt
  Answers,   \* token ids the service may generate
  MaxChunk,  \* bound: tokens in one chunk
  Window,    \* _DECODE_OVERLAP_WINDOW
  Interval   \* _DECODE_COMMIT_INTERVAL

ASSUME StreamAssumption ==
  /\ Configs \subseteq [reasoner : {"none", "qwen3", "deepseek_r1"},
                        tools : {"none", "hermes"},
                        choice : {"auto", "required", "named"},
                        wire : {"ids", "text"}]
  /\ Prompts \subseteq Seq(STRING)
  /\ Answers \subseteq Seq(STRING)
  /\ MaxChunk \in Nat \ {0}
  /\ Window \in Nat \ {0}
  /\ Interval \in Nat \ {0}

VARIABLES
  conf,     \* the configuration this request meets
  prompt,   \* context.token_ids
  answer,   \* what the service would generate
  pos,      \* tokens of it that were sent
  buf,      \* stream_buffer_ids, stream_buffer_text and the checkpoint
  state,    \* StreamState of the request's parser
  parsed,   \* what the hermes parser has sent
  client,   \* what the client has been given
  record,   \* the message stored as raw_response, or NoRecord
  phase     \* "idle", "streaming", "finished", "stored"

vars == <<conf, prompt, answer, pos, buf, state, parsed, client, record, phase>>

Open == <<"<tool", "call>">>
Close == <<"</tool", "call>">>
Functions == {"f", "g"}   \* a symbol for  {"name": "f",

NoRecord == [reasoning |-> <<>>, content |-> <<>>, calls |-> <<>>, finish |-> "none"]

(* Every request has a parser of its own. *)
NewStreamState ==
  [checked |-> FALSE, ended |-> FALSE, started |-> FALSE, text |-> <<>>, ids |-> <<>>]

NewHermes == [upto |-> 0, calls |-> <<>>]

Init ==
  /\ conf \in Configs
  /\ prompt \in Prompts
  /\ answer \in Answers
  /\ pos = 0
  /\ buf = [ids |-> <<>>, text |-> <<>>, checkpoint |-> 0]
  /\ state = NewStreamState
  /\ parsed = NewHermes
  /\ client = NoRecord
  /\ record = NoRecord
  /\ phase = "idle"

-----------------------------------------------------------------------------
(* Decoding (TokenConverter) *)

(* tokenizer.decode with skip_special_tokens: "eos" vanishes, and h1 h2    *)
(* are the two halves of a character, unreadable one by one.               *)
TokenText(ids, i) ==
  CASE ids[i] = "eos" -> <<>>
    [] ids[i] = "<tool_call>" -> Open
    [] ids[i] = "</tool_call>" -> Close
    [] ids[i] = "h1" -> IF i < Len(ids) /\ ids[i + 1] = "h2" THEN <<"char">> ELSE <<"bad">>
    [] ids[i] = "h2" -> IF i > 1 /\ ids[i - 1] = "h1" THEN <<>> ELSE <<"bad">>
    [] OTHER -> <<ids[i]>>

Decode(ids) == FlattenSeq([i \in 1..Len(ids) |-> TokenText(ids, i)])

(* The whole buffer is decoded again; the text new against the buffer's    *)
(* text is told by its length alone.                                       *)
Realigned(ids) ==
  [buf |-> [ids |-> ids, text |-> Decode(ids), checkpoint |-> Len(ids)],
   text |-> From(Decode(ids), Len(buf.text) + 1)]

(* Mutation of DecodeStreaming: a new end of the text never changes what   *)
(* came before it.                                                         *)
DecodeStreamingUnchecked(delta) ==
  LET ids == buf.ids \o delta
      start == IF buf.checkpoint > Window THEN buf.checkpoint - Window ELSE 0
      new == From(Decode(From(ids, start + 1)),
                  Len(Decode(SubSeq(ids, start + 1, buf.checkpoint))) + 1)
  IN [buf |-> [ids |-> ids, text |-> buf.text \o new, checkpoint |-> Len(ids)],
      text |-> new]

(* decode_streaming *)
DecodeStreaming(delta) ==
  LET ids == buf.ids \o delta
      start == IF buf.checkpoint > Window THEN buf.checkpoint - Window ELSE 0
      segment == Decode(From(ids, start + 1))
      overlap == Decode(SubSeq(ids, start + 1, buf.checkpoint))
      new == From(segment, Len(overlap) + 1)
  IN IF delta = <<>> THEN [buf |-> buf, text |-> <<>>]
     ELSE IF \/ buf.checkpoint = 0
             \/ Len(ids) - buf.checkpoint >= Interval
             \/ ~StartsWith(segment, overlap)
       THEN Realigned(ids)
     ELSE [buf |-> [ids |-> ids, text |-> buf.text \o new, checkpoint |-> Len(ids)],
           text |-> new]

(* parse_stream_chunk: the service sends ids, or plain text, which is      *)
(* neither decoded nor kept in the buffer.                                 *)
ParseStreamChunk(delta) ==
  IF conf.wire = "ids"
    THEN DecodeStreaming(delta)
    ELSE [buf |-> buf, text |-> Decode(delta)]

-----------------------------------------------------------------------------
(* The reasoning parsers *)

Nothing == [reasoning |-> <<>>, content |-> <<>>]
AsReasoning(text) == [reasoning |-> text, content |-> <<>>]
AsContent(text) == [reasoning |-> <<>>, content |-> text]

SplitAt(text, tag) == [reasoning |-> Before(text, tag), content |-> After(text, tag)]

Ids(ids) == Range(ids)

(* is_reasoning_end of the base class: the last marker decides. *)
BaseReasoningEnd(ids) ==
  \E i \in DOMAIN ids : ids[i] = "</think>" /\ "<think>" \notin Ids(From(ids, i + 1))

(* An unpaired <tool_call> ends the reasoning of qwen3 as well. *)
Qwen3ReasoningEnd(ids) ==
  \E i \in DOMAIN ids :
    /\ \/ ids[i] = "</think>"
       \/ ids[i] = "<tool_call>" /\ "</tool_call>" \notin Ids(From(ids, i + 1))
    /\ "<think>" \notin Ids(From(ids, i + 1))

(* Parser.is_reasoning_end *)
IsReasoningEnd(ids) ==
  CASE conf.reasoner = "none" -> FALSE
    [] conf.reasoner = "qwen3" -> Qwen3ReasoningEnd(ids)
    [] conf.reasoner = "deepseek_r1" -> BaseReasoningEnd(ids)

(* is_reasoning_end_streaming: only the delta is looked at. *)
Qwen3EndStreaming(delta) == Ids(delta) \cap {"</think>", "<tool_call>"} # {}

(* Parser.is_reasoning_end_streaming *)
IsReasoningEndStreaming(delta) ==
  CASE conf.reasoner = "none" -> FALSE
    [] conf.reasoner = "qwen3" -> Qwen3EndStreaming(delta)
    [] conf.reasoner = "deepseek_r1" -> "</think>" \in Ids(delta)

(* extract_content_ids of the base class *)
BaseContentIds(delta) ==
  LET end == Find(delta, <<"</think>">>, 1)
  IN IF end \in 1..(Len(delta) - 1) THEN From(delta, end + 1) ELSE <<>>

(* Without any, the content of qwen3 starts at the last <tool_call>. *)
Qwen3ContentIds(delta) ==
  LET calls == Occurrences(delta, <<"<tool_call>">>, 1)
  IN IF BaseContentIds(delta) # <<>> \/ calls = {} THEN BaseContentIds(delta)
     ELSE From(delta, Max(calls))

(* Parser.extract_content_ids *)
ExtractContentIds(delta) ==
  CASE conf.reasoner = "none" -> delta
    [] conf.reasoner = "qwen3" -> Qwen3ContentIds(delta)
    [] conf.reasoner = "deepseek_r1" -> BaseContentIds(delta)

(* Qwen3ReasoningParser.extract_reasoning_streaming *)
Qwen3Streaming(ids, text, delta) ==
  LET t == IF "<think>" \in Ids(delta) /\ Has(text, <<"<think>">>)
             THEN After(text, <<"<think>">>) ELSE text
  IN IF "</think>" \in Ids(delta)
       THEN IF Has(t, <<"</think>">>) THEN SplitAt(t, <<"</think>">>) ELSE Nothing
     ELSE IF "<tool_call>" \in Ids(delta) /\ Has(t, Open)
       THEN [reasoning |-> Before(t, Open), content |-> Open \o After(t, Open)]
     ELSE IF Ids(ids) \cap {"</think>", "<tool_call>"} # {} THEN AsContent(t)
     ELSE AsReasoning(t)

(* BaseThinkingReasoningParser.extract_reasoning_streaming *)
BaseStreaming(ids, text, delta) ==
  IF delta \in {<<"<think>">>, <<"</think>">>} THEN Nothing
  ELSE IF "<think>" \in Ids(ids) THEN
         IF "</think>" \in Ids(delta) THEN SplitAt(text, <<"</think>">>)
         ELSE IF "</think>" \in Ids(ids) THEN AsContent(text) ELSE AsReasoning(text)
  ELSE IF "<think>" \in Ids(delta) THEN
         IF "</think>" \in Ids(delta)
           THEN SplitAt(After(text, <<"<think>">>), <<"</think>">>)
           ELSE AsReasoning(text)
  ELSE AsContent(text)

(* DeepSeekR1ReasoningParser.extract_reasoning_streaming: without <think>  *)
(* the answer begins with reasoning.                                       *)
DeepSeekStreaming(ids, text, delta) ==
  IF delta \in {<<"<think>">>, <<"</think>">>} THEN Nothing
  ELSE IF "<think>" \in Ids(ids) \cup Ids(delta) THEN BaseStreaming(ids, text, delta)
  ELSE IF "</think>" \in Ids(delta) THEN SplitAt(text, <<"</think>">>)
  ELSE IF "</think>" \in Ids(ids) THEN AsContent(text)
  ELSE AsReasoning(text)

(* Parser.extract_reasoning_streaming *)
ExtractReasoningStreaming(ids, text, delta) ==
  CASE conf.reasoner = "none" -> AsContent(text)
    [] conf.reasoner = "qwen3" -> Qwen3Streaming(ids, text, delta)
    [] conf.reasoner = "deepseek_r1" -> DeepSeekStreaming(ids, text, delta)

(* extract_reasoning of the base class: all is reasoning until </think>. *)
BaseReasoning(text) ==
  LET t == IF Has(text, <<"<think>">>) THEN After(text, <<"<think>">>) ELSE text
  IN IF Has(t, <<"</think>">>) THEN SplitAt(t, <<"</think>">>) ELSE AsReasoning(t)

(* Qwen3ReasoningParser.extract_reasoning.  thinking_enabled is always     *)
(* TRUE: the parser looks for chat_template_kwargs among its arguments,    *)
(* but the pipeline passes the contents of that dictionary.                *)
Qwen3Reasoning(text) ==
  LET t == IF Has(text, <<"<think>">>) THEN After(text, <<"<think>">>) ELSE text
  IN IF ~Has(t, <<"</think>">>) /\ Has(t, Open)
       THEN [reasoning |-> Before(t, Open), content |-> Open \o After(t, Open)]
       ELSE BaseReasoning(text)

(* Parser.extract_reasoning *)
ExtractReasoning(text) ==
  CASE conf.reasoner = "none" -> AsContent(text)
    [] conf.reasoner = "qwen3" -> Qwen3Reasoning(text)
    [] conf.reasoner = "deepseek_r1" -> BaseReasoning(text)

-----------------------------------------------------------------------------
(* The hermes tool parser *)

(* partial_tag_overlap *)
PartialTagOverlap(text, tag) ==
  Max({k \in 0..(Len(tag) - 1) : EndsWith(text, Upto(tag, k))})

(* json.loads accepts the body of a call. *)
IsCompleteJson(text) ==
  LET t == Squeezed(text) IN
    /\ Len(t) >= 5
    /\ t[1] \in Functions
    /\ SubSeq(t, 2, 3) = <<"args", "{">>
    /\ EndsWith(t, <<"}", "}">>)
    /\ \A i \in 4..(Len(t) - 2) : t[i] = "x"

(* The body of a call whose closing tag has not arrived. *)
TailJson(raw) ==
  LET body == Upto(raw, Len(raw) - PartialTagOverlap(raw, Close))
  IN [json |-> Strip(body), complete |-> IsCompleteJson(body)]

(* The regions of a text between an opening tag and the closing tag after  *)
(* it, or the end of the text.                                             *)
Regions(text) ==
  LET regions[i \in 1..(Len(text) + 1)] ==   \* those in the text from i on
        LET open == Find(text, Open, i)
            close == Find(text, Close, open + 2)
        IN IF open = 0 THEN <<>>
           ELSE IF close = 0
             THEN <<[body |-> From(text, open + 2), closed |-> FALSE]>>
           ELSE <<[body |-> SubSeq(text, open + 2, close - 1), closed |-> TRUE]>>
                  \o regions[close + 2]
  IN regions[1]

(* _extract_tool_call_jsons *)
ExtractToolCallJsons(text) ==
  LET json(r) == IF r.closed THEN [json |-> Strip(r.body), complete |-> TRUE]
                 ELSE TailJson(r.body)
      jsons(regions) == [i \in DOMAIN regions |-> json(regions[i])]
  IN jsons(Regions(text))

(* _extract_tool_name: "" until the name has arrived. *)
ExtractToolName(json) ==
  LET names == {i \in DOMAIN json : json[i] \in Functions}
  IN IF names = {} THEN "" ELSE json[Min(names)]

(* _extract_tool_args: without the brace that closes the call, once the    *)
(* call is complete.                                                       *)
ExtractToolArgs(json, complete) ==
  LET raw == IF Has(json, <<"args">>) THEN After(json, <<"args">>) ELSE <<>>
      end == RStrip(raw)
  IN IF complete /\ EndsWith(end, <<"}">>) THEN RStrip(Upto(end, Len(end) - 1))
     ELSE IF complete THEN end ELSE raw

(* Mutation of SendableIdx: half a tag is sent. *)
SendableIdxHalfTag(text) ==
  IF Has(text, Open) THEN Find(text, Open, 1) - 1 ELSE Len(text)

(* _extract_content: up to where everything before a call may be sent. *)
SendableIdx(text) ==
  IF Has(text, Open) THEN Find(text, Open, 1) - 1
  ELSE Len(text) - PartialTagOverlap(text, Open)

Known(i) == i \in DOMAIN parsed.calls /\ parsed.calls[i].name # ""

(* The calls that can be told so far: up to the first without a name, of   *)
(* which the parser keeps an empty entry.                                  *)
Named(jsons) ==
  {i \in DOMAIN jsons :
     \A j \in 1..i : Known(j) \/ ExtractToolName(jsons[j].json) # ""}

(* _compute_args_diff: arguments longer than what was sent replace it. *)
Entry(jsons, i) ==
  LET old == IF i \in DOMAIN parsed.calls THEN parsed.calls[i]
             ELSE [name |-> "", args |-> <<>>]
      args == ExtractToolArgs(jsons[i].json, jsons[i].complete)
  IN IF i \notin Named(jsons) THEN old
     ELSE [name |-> IF Known(i) THEN old.name ELSE ExtractToolName(jsons[i].json),
           args |-> IF Len(args) > Len(old.args) THEN args ELSE old.args]

(* Hermes2ProToolParser.extract_tool_calls_streaming: the parser's new     *)
(* state.  What is new in it is sent.                                      *)
Reparsed(text) ==
  LET jsons == ExtractToolCallJsons(text)
      seen == Max({Len(parsed.calls), 
                   Min({Len(jsons), Cardinality(Named(jsons)) + 1})})
  IN [upto |-> Max({parsed.upto, SendableIdx(text)}),
      calls |-> [i \in 1..seen |-> IF i \in DOMAIN jsons THEN Entry(jsons, i)
                                  ELSE parsed.calls[i]]]

(* extract_required_tool_call_streaming: the text is not a list in JSON -  *)
(* no guided decoding makes the model write one - and nothing is sent.     *)
RequiredStreaming == [parsed |-> parsed, content |-> <<>>]

(* The parser's state and the text to send as content.  A named choice is  *)
(* a dictionary without attributes, so it takes the standard interface.    *)
ExtractToolCallsStreaming(text) ==
  IF conf.choice = "required" THEN RequiredStreaming
  ELSE [parsed |-> Reparsed(text),
        content |-> SubSeq(text, parsed.upto + 1, SendableIdx(text))]

(* tool_call_regex: what stands in the regions. *)
Bodies(text) ==
  LET bodies(regions) == [i \in DOMAIN regions |-> regions[i].body] IN bodies(Regions(text))

NoCalls(text) == [calls |-> <<>>, content |-> text]

(* Hermes2ProToolParser.extract_tool_calls: the calls, none if one of them *)
(* is not JSON; json.dumps writes the arguments without white space.       *)
HermesCalls(text) ==
  LET bodies == Bodies(text)
  IN IF bodies = <<>> \/ \E i \in DOMAIN bodies : ~IsCompleteJson(bodies[i])
       THEN NoCalls(text)
     ELSE [calls |-> [i \in DOMAIN bodies |->
                        [name |-> ExtractToolName(bodies[i]),
                         args |-> ExtractToolArgs(Squeezed(bodies[i]), TRUE)]],
           content |-> Before(text, Open)]

(* Parser.extract_tool_calls *)
ExtractToolCalls(text) == IF conf.tools = "none" THEN NoCalls(text) ELSE HermesCalls(text)

-----------------------------------------------------------------------------
(* Parser.parse_delta *)

(* The check of the prompt at the first delta. *)
Checked ==
  IF state.checked THEN state
  ELSE [state EXCEPT !.checked = TRUE,
                     !.ended = @ \/ conf.reasoner = "none" \/ IsReasoningEnd(prompt)]

InReasoningPhase(s) == conf.reasoner # "none" /\ ~s.ended
InToolCallPhase(ended) == conf.tools # "none" /\ ended

(* Mutation of ParseDelta: at the end of the reasoning the tool parser is  *)
(* given the whole text.                                                   *)
ParseDeltaWholeText(text, delta) ==
  LET s == Checked
      thinking == InReasoningPhase(s)
      said == IF thinking THEN ExtractReasoningStreaming(s.ids, text, delta) ELSE Nothing
      ended == s.ended \/ (thinking /\ IsReasoningEndStreaming(delta))
      current == s.text \o text
      tool == InToolCallPhase(ended)
      called == IF tool THEN ExtractToolCallsStreaming(current)
                ELSE [parsed |-> parsed, content |-> IF thinking THEN said.content ELSE text]
  IN [reasoning |-> said.reasoning, content |-> called.content, parsed |-> called.parsed,
      state |-> [checked |-> TRUE, ended |-> ended, started |-> s.started \/ tool,
                 text |-> current, ids |-> s.ids \o delta]]

(* The phases in their order: reasoning, tool calls, plain content.  In    *)
(* the delta that ends the reasoning only the content after it goes on.    *)
ParseDelta(text, delta) ==
  LET s == Checked
      thinking == InReasoningPhase(s)
      said == IF thinking THEN ExtractReasoningStreaming(s.ids, text, delta) ELSE Nothing
      boundary == thinking /\ IsReasoningEndStreaming(delta)
      ended == s.ended \/ boundary
      current == IF boundary THEN said.content ELSE s.text \o text
      ids == IF boundary THEN ExtractContentIds(delta) ELSE s.ids \o delta
      tool == InToolCallPhase(ended)
      called == IF tool THEN ExtractToolCallsStreaming(current)
                ELSE [parsed |-> parsed, content |-> IF thinking THEN said.content ELSE text]
  IN [reasoning |-> said.reasoning, content |-> called.content, parsed |-> called.parsed,
      state |-> [checked |-> TRUE, ended |-> ended, started |-> s.started \/ tool,
                 text |-> current, ids |-> ids]]

-----------------------------------------------------------------------------
(* The response for the whole text (OpenAIResponseBuilder.build) *)

(* Branch A, a named function: the matching call, or the text as arguments. *)
NamedCalls(text) ==
  LET result == ExtractToolCalls(text)
      matching == {i \in DOMAIN result.calls : result.calls[i].name = "f"}
  IN IF text = <<>> THEN [calls |-> <<>>, content |-> text]
     ELSE IF matching # {}
       THEN [calls |-> <<result.calls[Min(matching)]>>, content |-> result.content]
     ELSE [calls |-> <<[name |-> "f", args |-> text]>>, content |-> <<>>]

(* Branches A and C; B, a list in JSON, never applies and falls to C. *)
BuildCalls(text) ==
  IF conf.choice = "named" THEN NamedCalls(text) ELSE ExtractToolCalls(text)

(* The reason the message ends with.  With "required" an empty text counts *)
(* as an empty list of calls.                                              *)
BuildFinish(text, calls, finish) ==
  IF \/ conf.choice # "named" /\ calls # <<>>
     \/ conf.choice = "required" /\ text = <<>>
    THEN "tool_calls" ELSE finish

Shown(text) == IF Blank(text) THEN <<>> ELSE text

Build(text, finish) ==
  LET said == ExtractReasoning(text)
      built == BuildCalls(said.content)
  IN [reasoning |-> said.reasoning,
      content |-> Shown(built.content),
      calls |-> built.calls,
      finish |-> BuildFinish(said.content, built.calls, finish)]

-----------------------------------------------------------------------------
(* The pipeline *)

(* The arguments the client has of a call grow by what is new in them. *)
GivenCalls(new) ==
  LET named == SelectSeq(new, LAMBDA c : c.name # "")
      given(i) == IF i \in DOMAIN client.calls THEN client.calls[i].args ELSE <<>>
      sent(i) == IF i \in DOMAIN parsed.calls THEN Len(parsed.calls[i].args) ELSE 0
  IN [i \in DOMAIN named |->
        [name |-> named[i].name, args |-> given(i) \o From(named[i].args, sent(i) + 1)]]

(* The parser's word comes before the service's. *)
StreamFinish(calls, finish) ==
  IF finish # "none" /\ calls # <<>> THEN "tool_calls" ELSE finish

(* What a chunk adds to what the client has. *)
BuildChunk(d, finish) ==
  [reasoning |-> client.reasoning \o d.reasoning,
   content |-> client.content \o d.content,
   calls |-> GivenCalls(d.parsed.calls),
   finish |-> StreamFinish(d.parsed.calls, finish)]

(* _process_stream_chunk: a chunk with n tokens, the last one with the     *)
(* reason why the service stops; it may stop anywhere for "length".        *)
Chunk(n, finish) ==
  /\ phase \in {"idle", "streaming"}
  /\ pos + n <= Len(answer)
  /\ finish = "none" => n > 0
  /\ finish = "stop" => pos + n = Len(answer)
  /\ LET delta == SubSeq(answer, pos + 1, pos + n)
         chunk == ParseStreamChunk(delta)
         d == ParseDelta(chunk.text, IF conf.wire = "ids" THEN delta ELSE <<>>)
     IN /\ buf' = chunk.buf
        /\ state' = d.state
        /\ parsed' = d.parsed
        /\ client' = BuildChunk(d, finish)
  /\ pos' = pos + n
  /\ phase' = IF finish = "none" THEN "streaming" ELSE "finished"
  /\ UNCHANGED <<conf, prompt, answer, record>>

(* The service ends the stream without a reason. *)
StreamDry ==
  /\ phase \in {"idle", "streaming"}
  /\ phase' = "finished"
  /\ UNCHANGED <<conf, prompt, answer, pos, buf, state, parsed, client, record>>

(* _finalize_stream: the record is built from the ids of the buffer, and   *)
(* always ends with "stop" or with calls.                                  *)
FinalizeStream ==
  /\ phase = "finished"
  /\ record' = Build(Decode(buf.ids), "stop")
  /\ phase' = "stored"
  /\ UNCHANGED <<conf, prompt, answer, pos, buf, state, parsed, client>>

(* _decode_response: whether the service answers with ids, with ids as     *)
(* text or with plain text, the answer's text is decoded.                  *)
DecodeResponse(ids) == Decode(ids)

(* process: a request that does not stream is given what is recorded. *)
Process(n, finish) ==
  /\ phase = "idle"
  /\ finish = "stop" => n = Len(answer)
  /\ record' = Build(DecodeResponse(Upto(answer, n)), finish)
  /\ client' = record'
  /\ pos' = n
  /\ phase' = "stored"
  /\ UNCHANGED <<conf, prompt, answer, buf, state, parsed>>

Next ==
  \/ \E n \in 0..MaxChunk, finish \in {"none", "stop", "length"} : Chunk(n, finish)
  \/ StreamDry
  \/ FinalizeStream
  \/ \E n \in 0..Len(answer), finish \in {"stop", "length"} : Process(n, finish)

Spec == Init /\ [][Next]_vars

-----------------------------------------------------------------------------
(* Properties *)

(* The text decoded step by step is the text of all ids decoded at once,   *)
(* also when chunks cut characters in two (decode_streaming).              *)
DecodedExactly == buf.text = Decode(buf.ids)

(* The answers on which streaming and plain requests are to agree: the     *)
(* service sends ids, no character is two tokens, the prompt leaves the    *)
(* reasoning open, and the answer has its markers in order and whole calls. *)
OrderedMarkers ==
  CASE conf.reasoner = "none" -> TRUE
    [] conf.reasoner = "qwen3" ->
         /\ \A i \in DOMAIN answer : answer[i] = "<think>" => i = 1
         /\ \A i, j \in DOMAIN answer :
              answer[i] = "</think>" /\ answer[j] = "<tool_call>" => i < j
         /\ \A j \in DOMAIN answer :
              answer[j] = "<tool" => "</think>" \in Ids(Upto(answer, j))
    [] conf.reasoner = "deepseek_r1" -> "<think>" \notin Ids(answer)

WholeCalls(text) ==
  /\ PartialTagOverlap(text, Open) = 0
  /\ \A i \in DOMAIN Bodies(text) : IsCompleteJson(Bodies(text)[i])

Regular ==
  /\ conf.wire = "ids"
  /\ "h1" \notin Ids(answer)
  /\ conf.reasoner = "none" \/ ~IsReasoningEnd(prompt)
  /\ OrderedMarkers
  /\ WholeCalls(ExtractReasoning(Decode(answer)).content)

SameCalls(given, stored) ==
  /\ Len(given) = Len(stored)
  /\ \A i \in DOMAIN given : /\ given[i].name = stored[i].name
                             /\ Squeezed(given[i].args) = stored[i].args

(* However the service cuts its answer into chunks, the client of a stream *)
(* is given the message that is stored and that a plain request would be   *)
(* given: the same reasoning, content and calls, and the same reason.      *)
StreamAgrees ==
  phase = "stored" /\ pos = Len(answer) /\ client.finish \in {"stop", "tool_calls"}
    /\ Regular /\ conf.choice = "auto" =>
    /\ client.reasoning = record.reasoning
    /\ Shown(client.content) = record.content
    /\ SameCalls(client.calls, record.calls)
    /\ client.finish = record.finish

(* The client has beginnings of this message's parts. *)
BeginningOf(message) ==
  /\ StartsWith(message.reasoning, client.reasoning)
  /\ Blank(client.content) \/ StartsWith(message.content, client.content)
  /\ Len(client.calls) <= Len(message.calls)
  /\ \A i \in DOMAIN client.calls :
       /\ client.calls[i].name = message.calls[i].name
       /\ StartsWith(message.calls[i].args, Squeezed(client.calls[i].args))

(* Nothing is sent that the rest of the answer would take back: at every   *)
(* moment the client has beginnings of the final reasoning, content and    *)
(* arguments, whether a tag is complete or not.                            *)
NothingTakenBack ==
  Regular /\ phase \in {"streaming", "finished"} /\ conf.choice = "auto" =>
    BeginningOf(Build(Decode(answer), "stop"))
=============================================================================
