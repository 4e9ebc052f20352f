----------------------------- MODULE MCTurnCases -----------------------------
(***************************************************************************)
(* The cases on which MCProvider checks the parts of a turn.               *)
(***************************************************************************)
EXTENDS Integers, Sequences

(***************************************************************************)
(* TurnEngine: every combination of switches, and DeepSeek images at and   *)
(* around each bound.                                                      *)
(***************************************************************************)
Sized(kind, size, role) ==
    [kind |-> kind, size |-> size, padding |-> 1, role |-> role, supported |-> TRUE]

ImageSets ==
    {{}, {Sized("file", 9, "user")}, {Sized("url", 3, "user")},
     {Sized("url", 4, "user")}, {Sized("data", 5, "user")},
     {Sized("data", 6, "user")}, {Sized("file", 1, "tool")},
     {Sized("file", 1, "user"), Sized("url", 1, "user")},
     {Sized("file", s, "user") : s \in 1..3}, {Sized("other", 1, "user")},
     {[Sized("file", 1, "user") EXCEPT !.supported = FALSE]}}

EngineCalls ==
    [deepseek : {FALSE}, tools : BOOLEAN, hosted : BOOLEAN,
     refreshable : BOOLEAN, fallback : BOOLEAN, mode : {"chat"},
     size : {1}, images : {{}}]
    \cup
    [deepseek : {TRUE}, tools : {TRUE}, hosted : {FALSE},
     refreshable : {FALSE}, fallback : {TRUE}, mode : {"chat", "responses"},
     size : 2..4, images : ImageSets]

(***************************************************************************)
(* HttpRetry: a wait that is kept and one that is too long.                *)
(***************************************************************************)
ServerWaits == {3, 5}

(***************************************************************************)
(* StreamDecoder: streams of two or three events with every kind of line   *)
(* end, comment, character of two bytes, broken character, error and       *)
(* terminal event; and bodies of one JSON value.                           *)
(***************************************************************************)
Lf == <<"n", "n">>
CrLf == <<"r", "n", "r", "n">>
Data(payload) == <<"d", ":">> \o payload

First ==
    {Data(<<"x">>) \o Lf, Data(<<" ", "L", "T">>) \o CrLf, <<":", "x">> \o Lf,
     Data(<<"L">>) \o Lf, Data(<<"x", "r", "n">>) \o Data(<<"T">>) \o CrLf,
     <<"e", ":", "E", "n">> \o Data(<<"x">>) \o Lf, Lf, <<"r", "n", "n">>,
     <<"d", "n">> \o Data(<<"x">>) \o Lf}
Second ==
    {Data(<<"x">>) \o CrLf, Data(<<"!">>) \o Lf, Data(<<"E">>) \o Lf,
     Data(<<"c">>) \o Lf, Data(<<"x", ".">>) \o Lf}
Third == {Data(<<".">>) \o Lf, Data(<<" ", ".">>) \o CrLf, Data(<<".">>) \o <<"n">>}
Json ==
    {<<"{", "x", "}">>, <<" ", "{", "E", "}">>, <<"{", "!", "}">>, <<"x">>,
     <<"n", "{", "L", "T", "}">>, <<" ", "{", "x", "}", "r", "n">>, <<"n", " ">>, <<>>}
End == Data(<<".">>) \o Lf
Extra == Data(<<"x">>) \o Lf

StreamBodies ==
    [bytes : {b \o c \o End : b \in First, c \in Second} \cup Json,
     typed : {FALSE}, responses : BOOLEAN]
    \cup
    [bytes : {Data(<<"x">>) \o b \o c \o Extra : b \in {Lf, CrLf}, c \in Third}
             \cup Json,
     typed : BOOLEAN, responses : {FALSE}]

(***************************************************************************)
(* ChatTurn: texts whose letters repeat, two calls with interleaved        *)
(* arguments, and the styles of the vendors.                               *)
(***************************************************************************)
Args == <<"{", "x", "}">>
Call1 == [id |-> <<"i", "1">>, name |-> <<"f">>, args |-> Args]
Call2 == [id |-> <<"i", "2">>, name |-> <<"f">>, args |-> Args]
\* a server that gives two calls the same identity
Twin == [id |-> <<"i", "1">>, name |-> <<"g">>, args |-> Args]

Style(text, allow, cumulative, indexed, repeats, deepseek, gemini, whole) ==
    [text |-> text, reasoning |-> <<"a">>, calls |-> <<>>, allow |-> allow,
     cumulative |-> cumulative, indexed |-> indexed, repeats |-> repeats,
     deepseek |-> deepseek, gemini |-> gemini, whole |-> whole]

Styles(t) ==
    {Style(t, FALSE, FALSE, TRUE, FALSE, FALSE, FALSE, FALSE), \* OpenAI
     Style(t, TRUE, TRUE, TRUE, FALSE, FALSE, FALSE, FALSE),   \* repeats the text
     Style(t, FALSE, FALSE, TRUE, TRUE, TRUE, FALSE, FALSE),   \* DeepSeek
     Style(t, FALSE, FALSE, FALSE, FALSE, FALSE, TRUE, FALSE), \* Gemini
     Style(t, FALSE, FALSE, FALSE, FALSE, FALSE, FALSE, TRUE)} \* one message

ChatAnswers ==
    {[s EXCEPT !.calls = c] :
        s \in UNION {Styles(t) : t \in {<<>>, <<"a", "a", "b">>, <<"a", "b", "a", "b">>}},
        c \in {<<>>, <<Call1>>, <<Call1, Call2>>, <<Call1, Twin>>}}

(***************************************************************************)
(* ResponsesTurn: answers of up to three items of different kinds, told in *)
(* every way.                                                              *)
(***************************************************************************)
Item(kind, id, text) == [kind |-> kind, id |-> <<id>>, name |-> <<"f">>, text |-> text]
Message(id, text) == Item("message", id, text)
Thought == Item("reasoning", "r", <<"a", "a">>)
Called(id) == Item("call", id, <<"{", "x", "}">>)
Search == Item("search", "s", <<>>)
Picture == Item("image", "g", <<>>)

ItemLists ==
    {<<>>, <<Message("m", <<"a", "a">>)>>, <<Message("m", <<"a">>), Message("n", <<"a", "b">>)>>,
     <<Thought, Message("m", <<"a">>)>>, <<Called("i"), Called("j")>>, <<Thought, Called("i")>>,
     <<Search, Picture>>, <<Message("m", <<"a">>), Called("i")>>}

ResponsePlans ==
    [numbered : {"sequence", "id"}, label : {"completed"}, status : {""},
     output : {"none", "bare", "full"}, streams : {TRUE}, more : {FALSE}, allow : {FALSE},
     items : ItemLists]
    \cup
    [numbered : {"no"}, label : {"completed", "incomplete", "failed"},
     status : {"", "completed", "incomplete", "failed"}, output : {"full"},
     streams : BOOLEAN, more : BOOLEAN, allow : {FALSE},
     items : {<<Message("m", <<"a">>), Called("i")>>, <<>>, <<Thought, Search, Picture>>}]

(***************************************************************************)
(* FamilyFilters: texts of up to three pieces, which are whole tags,       *)
(* beginnings of tags and letters.                                         *)
(***************************************************************************)
Tag(name) == <<"<">> \o name \o <<">">>
EndTag(name) == <<"<", "/">> \o name \o <<">">>

Tags == UNION {{Tag(n), EndTag(n)} : n \in {<<"t">>, <<"t", "i">>, <<"g">>, <<"s">>}}
Bits == {<<"<">>, <<"<", "/">>, <<"<", "s">>, <<"<", "t">>, <<" ">>, <<"a">>}
Pieces == Tags \cup Bits

FilterTexts ==
    {<<>>} \cup {p \o q : p, q \in Pieces}
    \cup {p \o q \o r : p \in Tags, q \in Bits, r \in Pieces}
    \cup {p \o q \o r : p \in {<<" ">>, <<"a">>}, q \in Tags, r \in Bits}
    \cup {Tag(<<"s">>) \o <<"a">> \o EndTag(<<"s">>) \o p : p \in Pieces}
MarkedTexts == {<<"a">>, <<"a", "a">>}

(***************************************************************************)
(* TurnHistory: a session that passes from provider to provider, and one   *)
(* that is imported with a turn whose result is among its items, or is a   *)
(* tool message.                                                           *)
(***************************************************************************)
HistoryConfigs == {<<"chat", "deepseek">>, <<"chat", "kimi">>, <<"chat", "qwen">>,
                   <<"responses", "codex">>, <<"responses", "qwen">>, <<"host", "own">>}
CalledIds == {<<>>, <<1>>, <<2, 1>>}

ToldItem(kind, id) == [kind |-> kind, id |-> id]
Told(role, text, key, items) ==
    [role |-> role, text |-> text, calls |-> <<>>, key |-> key, callId |-> 0,
     state |-> [items |-> <<>>, full |-> items, output |-> <<>>, thought |-> 0]]

ImportedSessions ==
    LET call == <<ToldItem("reasoning", 1), ToldItem("assistant", 3), ToldItem("call", 1)>>
    IN {<<Told("assistant", 3, 0, Append(call, ToldItem("output", 1)))>>,
        <<Told("assistant", 3, 0, call), Told("tool", 0, 1, <<>>)>>}
=============================================================================
