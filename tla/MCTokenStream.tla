--------------------------- MODULE MCTokenStream ---------------------------
(* Instances of TokenStream for TLC. *)
EXTENDS TokenStream

Parsers == {<<"none", "none">>, <<"none", "hermes">>, <<"qwen3", "none">>,
            <<"qwen3", "hermes">>, <<"deepseek_r1", "hermes">>}

Configured(choices, wires) ==
  {[reasoner |-> p[1], tools |-> p[2], choice |-> c, wire |-> w] :
     p \in Parsers, c \in choices, w \in wires}

SomeConfigs ==
  Configured({"auto"}, {"ids", "text"}) \cup Configured({"named"}, {"ids"})
    \cup {[reasoner |-> "qwen3", tools |-> "hermes", choice |-> "required", wire |-> "ids"]}

(* Prompts that open the reasoning, leave it to the model, have an earlier *)
(* turn or an example of a call in them, or close it.                      *)
SomePrompts == {<<"<think>">>, <<"</think>", "word">>,
                <<"<think>", "</think>", "<tool_call>", "</tool_call>", "<think>">>}

Thoughts == {<<>>, <<"</think>">>, <<"word", "ws", "</think>">>, <<"<think>", "word", "</think>">>}
Contents == {<<>>, <<"ws">>, <<"word", "<tool", "word">>, <<"h1", "h2">>}
Call(f) == <<"<tool_call>", f, "args", "{", "x", "}", "}", "</tool_call>">>
Spaced == <<"<tool", "call>", "ws", "g", "args", "{", "ws", "}", "ws", "}", "</tool", "call>">>
Calls == {<<>>, Call("f"), Spaced, Call("f") \o <<"ws">> \o Call("g"),
          <<"<tool_call>", "f", "</tool_call>">>}
SomeAnswers ==
  {t \o c \o k \o <<"eos">> : t \in Thoughts, c \in Contents, k \in Calls}
    \cup {<<"word">> \o Call("f")}
=============================================================================
