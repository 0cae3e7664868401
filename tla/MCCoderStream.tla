--------------------------- MODULE MCCoderStream ---------------------------
(* Instances of CoderStream for TLC. *)
EXTENDS CoderStream

P(name, value) == <<"<parameter=", name, ">">> \o value \o <<"</parameter>">>
Tool(f, params) ==
  <<"<tool_call>", "<function=", f, ">">> \o params \o <<"</function>", "</tool_call>">>

(* With the line breaks of the chat template around the function. *)
Laid(f, params) ==
  <<"<tool_call>", "ws", "<function=", f, ">", "ws">> \o params
    \o <<"ws", "</function>", "ws", "</tool_call>">>

Texts0 == {<<>>, <<"word">>, <<">", "ws">>}
Bodies == {<<>>, <<"ws">> \o P("n", <<"7">>) \o <<"ws">> \o P("p", <<"ws", ">", "ws">>),
           P("p", <<"7">>) \o P("n", <<"v">>) \o P("q", <<>>), P("n", <<"null">>),
           P("p", <<"v">>) \o P("n", <<"7">>) \o P("p", <<"7">>)}
Ends == {<<>>, <<"ws">>}

SomeAnswers ==
  Texts0
    \cup {t \o Tool("f", b) \o e : t \in Texts0, b \in Bodies, e \in Ends}
    \cup {t \o Tool("f", b) \o e \o Tool("g", c) : t \in {<<>>, <<"word">>},
            b \in Bodies, c \in Bodies, e \in Ends}
    \cup {t \o Laid("f", b) \o e \o x : t \in Texts0, b \in Bodies, e \in Ends,
            x \in {<<>>, Tool("g", P("q", <<>>)), Laid("g", P("p", <<"v">>))}}
=============================================================================
