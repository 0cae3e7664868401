---------------------------- MODULE CoderStream ----------------------------
(***************************************************************************)
(* The tool parser of the Qwen3-Coder models.  Its streaming half is a     *)
(* machine that emits at most one piece per delta - the text before a      *)
(* call, the header of a call, its brace, its new parameters, its closing  *)
(* brace - by looking again at all the text received; its other half reads *)
(* the whole text at once, for plain requests and for the stored record.   *)
(*                                                                         *)
(* The service cuts its answer into deltas as it likes.  A symbol of the   *)
(* answer is a token; "ws" is a line break.                                *)
(***************************************************************************)
EXTENDS Texts

CONSTANTS
  Answers,   \* the texts the model may generate
  MaxDelta   \* bound: tokens in one delta

Tags == {"<tool_call>", "<function=", "<parameter=",
         "</parameter>", "</function>", "</tool_call>"}

(* The format of calls the model is trained for (docs/design/modules/      *)
(* parser.md, 4.4), as the stages of a text: what may follow in each.      *)
(* Line breaks stand between all tags, and ">" may be part of a text or a  *)
(* value; a parameter may come twice.                                      *)
Stage(stage, symbol) ==
  CASE stage = "text" /\ symbol \notin Tags -> "text"
    [] stage \in {"text", "after"} /\ symbol = "<tool_call>" -> "call"
    [] stage = "call" /\ symbol = "ws" -> "call"
    [] stage = "call" /\ symbol = "<function=" -> "name"
    [] stage = "name" /\ symbol \notin Tags \cup {">"} -> "named"
    [] stage = "named" /\ symbol = ">" -> "body"
    [] stage = "body" /\ symbol = "ws" -> "body"
    [] stage = "body" /\ symbol = "<parameter=" -> "key"
    [] stage = "key" /\ symbol \notin Tags \cup {">"} -> "keyed"
    [] stage = "keyed" /\ symbol = ">" -> "value"
    [] stage = "value" /\ symbol \notin Tags -> "value"
    [] stage = "value" /\ symbol = "</parameter>" -> "body"
    [] stage = "body" /\ symbol = "</function>" -> "end"
    [] stage = "end" /\ symbol = "ws" -> "end"
    [] stage = "end" /\ symbol = "</tool_call>" -> "after"
    [] stage = "after" /\ symbol = "ws" -> "after"
    [] OTHER -> "broken"

WellFormed(text) ==
  LET stage[i \in 0..Len(text)] == IF i = 0 THEN "text" ELSE Stage(stage[i - 1], text[i])
  IN stage[Len(text)] \in {"text", "after"}

(* What the calls are cannot be told of a text of another format; one that *)
(* is cut off is a beginning of an answer.                                 *)
ASSUME CoderAssumption ==
  /\ Answers \subseteq Seq(STRING)
  /\ \A text \in Answers : WellFormed(text)
  /\ MaxDelta \in Nat \ {0}

VARIABLES
  answer,  \* the text the model generates
  pos,     \* symbols of it that were sent
  parser,  \* streaming state of the request's parser
  client,  \* content and calls the client was given
  record,  \* the calls stored when the stream is over
  coarse,  \* some delta had more than one token
  phase    \* "streaming", "stored"

vars == <<answer, pos, parser, client, record, coarse, phase>>

NewParser ==
  [index |-> 0, started |-> FALSE, header |-> FALSE, inFunction |-> FALSE,
   json |-> FALSE, closed |-> FALSE, params |-> 0]

Init ==
  /\ answer \in Answers
  /\ pos = 0
  /\ parser = NewParser
  /\ client = [content |-> <<>>, calls |-> <<>>]
  /\ record = <<>>
  /\ coarse = FALSE
  /\ phase = "streaming"

Count(text, symbol) == Cardinality(Occurrences(text, <<symbol>>, 1))

-----------------------------------------------------------------------------
(* Parameters *)

(* extract_types_from_schema: in the request's tools the parameter "n" is  *)
(* an integer or null and the others are strings; a parameter that is not  *)
(* found, as when there are no tools, is a string.                         *)
SchemaTypes(name, tools) ==
  IF tools /\ name = "n" THEN {"null", "integer"} ELSE {"string"}

(* What the attempt to read a value as some type accepts. *)
ReadsAs(value, type) ==
  CASE type = "null" -> value = <<"null">>
    [] type = "integer" -> value = <<"7">>
    [] type = "string" -> TRUE

(* coerce_to_schema_type: the first type, by priority, that accepts the    *)
(* value; the other types of JSON do not occur in the tools.  A value      *)
(* none accepts is read as any JSON, and is a string if it is none.        *)
Coerced(value, types) ==
  LET priority == <<"null", "integer", "string">>
      accepts(allowed) == {i \in DOMAIN priority :
                             priority[i] \in allowed /\ ReadsAs(value, priority[i])}
  IN priority[Min(IF accepts(types) # {} THEN accepts(types)
                  ELSE accepts({"null", "integer", "string"}))]

(* _convert_param_value: the parameter with the type of its value. *)
Convert(name, value, tools) ==
  <<name, Coerced(value, SchemaTypes(name, tools))>> \o value

(* One line break is taken off at each end. *)
Trimmed(value) ==
  LET v == IF StartsWith(value, <<"ws">>) THEN Tail(value) ELSE value
  IN IF EndsWith(v, <<"ws">>) THEN Upto(v, Len(v) - 1) ELSE v

(* Where the k-th parameter of a call starts. *)
ParamStart(text, k) ==
  CHOOSE i \in Occurrences(text, <<"<parameter=">>, 1) :
    Count(Upto(text, i), "<parameter=") = k

(* Where a parameter's value ends, 0 when that is not known yet: at its    *)
(* end tag, else at the next parameter or the end of the function.         *)
ValueEnd(value) ==
  LET end == Find(value, <<"</parameter>">>, 1)
      next == Find(value, <<"<parameter=">>, 1)
      function == Find(value, <<"</function>">>, 1)
  IN IF end # 0 THEN end
     ELSE IF next # 0 /\ (function = 0 \/ next < function) THEN next
     ELSE IF function # 0 THEN function
     ELSE Find(value, <<"</tool_call>">>, 1)

(* The text after the parameter's prefix, its name, and its value with     *)
(* what follows.                                                           *)
ParamText(text, k) == From(text, ParamStart(text, k) + 1)
ParamName(text, k) == ParamText(text, k)[1]
ParamValue(text, k) == After(ParamText(text, k), <<">">>)

ParamComplete(text, k) ==
  /\ Has(ParamText(text, k), <<">">>)
  /\ ValueEnd(ParamValue(text, k)) # 0

Param(text, k, end, tools) ==
  Convert(ParamName(text, k), Trimmed(Upto(ParamValue(text, k), end - 1)), tools)

-----------------------------------------------------------------------------
(* The whole text at once *)

(* The first of some symbols in a text, or its end. *)
FirstOf(text, symbols) ==
  Min({i \in DOMAIN text : text[i] \in symbols} \cup {Len(text) + 1})

(* tool_call_parameter_regex: where a value ends for the regular expression. *)
RegexEnd(value) == FirstOf(value, {"</parameter>", "<parameter=", "</function>"})

(* Arguments are a sequence of pieces of JSON. *)
Brace == <<(<<"{">>)>>
EndBrace == <<(<<"}">>)>>

(* The parameters in the text of a function, in its order. *)
Parameters(text, tools) ==
  [k \in 1..Count(text, "<parameter=") |->
     Param(text, k, RegexEnd(ParamValue(text, k)), tools)]

(* A dictionary of them: a name that comes again keeps its place and takes *)
(* the new value.                                                          *)
Dict(params) ==
  LET new(n) == {k \in 1..n : \A j \in 1..(k - 1) : params[j][1] # params[k][1]}
      first(i) == CHOOSE k \in new(Len(params)) : Cardinality(new(k)) = i
      last(name) == Max({k \in DOMAIN params : params[k][1] = name})
  IN [i \in 1..Cardinality(new(Len(params))) |-> params[last(params[first(i)][1])]]

(* _parse_xml_function_call *)
ParseXmlFunctionCall(text, tools) ==
  [name |-> text[1], args |-> Brace \o Dict(Parameters(text, tools)) \o EndBrace]

(* _get_function_calls: the functions in the regions between the tags; of  *)
(* those the ones whose name is not complete are left out.                 *)
GetFunctionCalls(text) ==
  LET calls[i \in 1..(Len(text) + 1)] ==   \* those in the text from i on
        LET start == Find(text, <<"<function=">>, i)
            end == start + FirstOf(From(text, start + 1), {"</function>", "</tool_call>"})
            body == SubSeq(text, start + 1, end - 1)
        IN IF start = 0 THEN <<>>
           ELSE (IF Has(body, <<">">>) THEN <<body>> ELSE <<>>) \o calls[end]
  IN calls[1]

(* extract_tool_calls: a parameter whose name is not complete spoils       *)
(* everything.                                                             *)
ExtractToolCalls(text, tools) ==
  LET bodies == GetFunctionCalls(text)
      torn(b) == \E k \in 1..Count(b, "<parameter=") : ~Has(ParamText(b, k), <<">">>)
  IN IF \E i \in DOMAIN bodies : torn(bodies[i]) THEN <<>>
     ELSE [i \in DOMAIN bodies |-> ParseXmlFunctionCall(bodies[i], tools)]

-----------------------------------------------------------------------------
(* Streaming: where the text received so far leaves the parser *)

(* The call the parser is at ended in the text. *)
CallOver(text) ==
  parser.closed /\ ~parser.inFunction /\ Count(text, "</tool_call>") > parser.index

Outside(text) == ~CallOver(text) /\ ~parser.started

Inside(text) ==
  ~CallOver(text) /\ parser.started /\ parser.index < Count(text, "<tool_call>")

(* The text of that call, with its end tag if it has one. *)
ToolText(text) ==
  LET start == CHOOSE i \in Occurrences(text, <<"<tool_call>">>, 1) :
                 Count(Upto(text, i), "<tool_call>") = parser.index + 1
      end == Find(text, <<"</tool_call>">>, start)
  IN SubSeq(text, start, IF end = 0 THEN Len(text) ELSE end)

(* The name of the function is complete. *)
HasHeader(text) ==
  LET tool == ToolText(text) IN
    Has(tool, <<"<function=">>) /\ Has(After(tool, <<"<function=">>), <<">">>)

InFunction(text) == Inside(text) /\ parser.header /\ parser.inFunction

(* The parameters that were not sent and are complete one after another. *)
NewParams(text) ==
  {k \in (parser.params + 1)..Count(ToolText(text), "<parameter=") :
     \A j \in (parser.params + 1)..k : ParamComplete(ToolText(text), j)}

NewParam(tool, k) == Param(tool, k, ValueEnd(ParamValue(tool, k)), TRUE)

(* The client's arguments of the current call grow by some text. *)
SendArgs(args) ==
  client' = [client EXCEPT !.calls[parser.index + 1].args = @ \o args]

SendContent(text) == client' = [client EXCEPT !.content = @ \o text]

-----------------------------------------------------------------------------
(* The branches of extract_tool_calls_streaming.  Each is given the delta  *)
(* and the text received with it.                                          *)

(* The end of the stream has no text: nothing is sent. *)
NoText(delta, text) == delta = <<>> /\ UNCHANGED <<parser, client>>

(* Mutation of NextCall: the count of parameters is not reset. *)
NextCallKeepsParams(delta, text) ==
  /\ delta # <<>> /\ CallOver(text)
  /\ parser' = [NewParser EXCEPT
                  !.index = parser.index + 1,
                  !.params = parser.params,
                  !.started = parser.index + 1 < Count(text, "<tool_call>")]
  /\ UNCHANGED client

(* The call is over; the delta is used up for going on to the next one. *)
NextCall(delta, text) ==
  /\ delta # <<>> /\ CallOver(text)
  /\ parser' = [NewParser EXCEPT
                  !.index = parser.index + 1,
                  !.started = parser.index + 1 < Count(text, "<tool_call>")]
  /\ UNCHANGED client

(* Mutation of CallBegins: the delta is sent as it is. *)
CallBeginsSendsAll(delta, text) ==
  /\ delta # <<>> /\ Outside(text)
  /\ Has(delta, <<"<tool_call>">>)
  /\ parser' = [parser EXCEPT !.started = TRUE]
  /\ SendContent(delta)

(* A call begins; the text before it in the delta is sent. *)
CallBegins(delta, text) ==
  /\ delta # <<>> /\ Outside(text)
  /\ Has(delta, <<"<tool_call>">>)
  /\ parser' = [parser EXCEPT !.started = TRUE]
  /\ SendContent(Before(delta, <<"<tool_call>">>))

(* Text outside calls, except line breaks after one. *)
PlainText(delta, text) ==
  /\ delta # <<>> /\ Outside(text)
  /\ ~Has(delta, <<"<tool_call>">>)
  /\ IF Blank(delta) /\ EndsWith(RStrip(text), <<"</tool_call>">>)
       THEN UNCHANGED client ELSE SendContent(delta)
  /\ UNCHANGED parser

(* The header of the call, with the name of the function. *)
Header(delta, text) ==
  /\ delta # <<>> /\ Inside(text) /\ ~parser.header
  /\ HasHeader(text)
  /\ parser' = [parser EXCEPT !.header = TRUE, !.inFunction = TRUE]
  /\ client' = [client EXCEPT !.calls = Append(@,
       [name |-> After(ToolText(text), <<"<function=">>)[1], args |-> <<>>])]

(* The opening brace, always by itself. *)
OpenBrace(delta, text) ==
  /\ delta # <<>> /\ InFunction(text) /\ ~parser.json
  /\ parser' = [parser EXCEPT !.json = TRUE]
  /\ SendArgs(Brace)

(* Mutation of Params: only the first complete parameter is sent, but all  *)
(* are counted.                                                            *)
ParamsFirstOnly(delta, text) ==
  /\ delta # <<>> /\ InFunction(text) /\ parser.json
  /\ NewParams(text) # {}
  /\ parser' = [parser EXCEPT !.params = Max(NewParams(text))]
  /\ SendArgs(<<NewParam(ToolText(text), parser.params + 1)>>)

(* All parameters that are complete by now. *)
Params(delta, text) ==
  /\ delta # <<>> /\ InFunction(text) /\ parser.json
  /\ NewParams(text) # {}
  /\ parser' = [parser EXCEPT !.params = Max(NewParams(text))]
  /\ SendArgs([i \in 1..Cardinality(NewParams(text)) |->
                 NewParam(ToolText(text), parser.params + i)])

(* The closing brace, once there are no more parameters. *)
CloseBrace(delta, text) ==
  /\ delta # <<>> /\ InFunction(text) /\ parser.json
  /\ NewParams(text) = {}
  /\ Has(ToolText(text), <<"</function>">>)
  /\ parser' = [parser EXCEPT !.closed = TRUE, !.inFunction = FALSE]
  /\ SendArgs(EndBrace)

(* Nothing can be sent yet, or the call's end tag is awaited. *)
NothingYet(delta, text) ==
  /\ delta # <<>> /\ ~CallOver(text) /\ parser.started
  /\ \/ ~Inside(text)
     \/ Inside(text) /\ ~parser.header /\ ~HasHeader(text)
     \/ Inside(text) /\ parser.header /\ ~parser.inFunction
     \/ /\ InFunction(text) /\ parser.json
        /\ NewParams(text) = {}
        /\ ~Has(ToolText(text), <<"</function>">>)
  /\ UNCHANGED <<parser, client>>

Branches(delta, text) ==
  \/ NoText(delta, text)
  \/ NextCall(delta, text)
  \/ CallBegins(delta, text)
  \/ PlainText(delta, text)
  \/ Header(delta, text)
  \/ OpenBrace(delta, text)
  \/ Params(delta, text)
  \/ CloseBrace(delta, text)
  \/ NothingYet(delta, text)

(* A delta with n tokens; none for a token without text. *)
Delta(n) ==
  /\ phase = "streaming"
  /\ pos + n <= Len(answer)
  /\ pos' = pos + n
  /\ coarse' = (coarse \/ n > 1)
  /\ Branches(SubSeq(answer, pos + 1, pos + n), Upto(answer, pos + n))
  /\ UNCHANGED <<answer, record, phase>>

(* The stream ends, perhaps cut off: the text so far is read at once, by   *)
(* the parser that all requests share and that knows no tools.             *)
Finalize ==
  /\ phase = "streaming"
  /\ record' = ExtractToolCalls(Upto(answer, pos), FALSE)
  /\ phase' = "stored"
  /\ UNCHANGED <<answer, pos, parser, client, coarse>>

Next == (\E n \in 0..MaxDelta : Delta(n)) \/ Finalize

Spec == Init /\ [][Next]_vars

-----------------------------------------------------------------------------
(* Properties *)

(* What a plain request would be given for the whole answer. *)
Whole == ExtractToolCalls(answer, TRUE)

(* The calls of the whole answer as they are written, each with all its    *)
(* parameters.                                                             *)
Written ==
  LET call(body) == [name |-> body[1],
                     args |-> Brace \o Parameters(body, TRUE) \o EndBrace]
  IN [i \in DOMAIN GetFunctionCalls(answer) |-> call(GetFunctionCalls(answer)[i])]

(* A client reads the pieces it was given as JSON, into a dictionary. *)
Read(call) ==
  [name |-> call.name,
   args |-> Brace \o Dict(SubSeq(call.args, 2, Len(call.args) - 1)) \o EndBrace]

(* Whatever the deltas, what the client was given of the calls is the      *)
(* beginning of what the answer says: no parameter is left out, sent twice *)
(* or given to another call, however many arrive at once.  A call that     *)
(* another one follows is complete and reads as what a plain request would *)
(* be given, also with a repeated parameter, which the stream sends again  *)
(* and _parse_xml_function_call overwrites.                                *)
CallsBegin ==
  /\ Len(client.calls) <= Len(Written)
  /\ \A i \in DOMAIN client.calls :
       /\ client.calls[i].name = Written[i].name
       /\ StartsWith(Written[i].args, client.calls[i].args)
       /\ i < Len(client.calls) => /\ client.calls[i] = Written[i]
                                   /\ Read(client.calls[i]) = Whole[i]

(* The text before the calls reaches the client unchanged and nothing but  *)
(* line breaks follows it.                                                 *)
ContentBegins ==
  LET n == Find(answer, <<"<tool_call>">>, 1)
      before == IF n = 0 THEN answer ELSE Upto(answer, n - 1)
  IN \/ StartsWith(before, client.content)
     \/ /\ StartsWith(client.content, before)
        /\ Blank(From(client.content, Len(before) + 1))

(* A service that sends token by token leaves nothing unsent: the calls of *)
(* a finished answer are all with the client, and read as those a plain    *)
(* request would be given.                                                 *)
TokensSuffice ==
  phase = "stored" /\ pos = Len(answer) /\ ~coarse =>
    /\ client.calls = Written
    /\ [i \in DOMAIN client.calls |-> Read(client.calls[i])] = Whole
=============================================================================
