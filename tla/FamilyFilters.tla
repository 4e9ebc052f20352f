----------------------------- MODULE FamilyFilters -----------------------------
(***************************************************************************)
(* The filters between the decoder and the sink that keep marked parts of  *)
(* a text apart: ThinkTagSink (Kimi) and ThoughtStream (Gemini) turn what  *)
(* is between tags into reasoning, SummaryFilterSink (Qwen) keeps a        *)
(* leading summary back.  The text arrives in pieces that end inside tags. *)
(* The turn is made of the whole text: by the same filter for Kimi and     *)
(* Qwen, of what the sink was given for Gemini.  Units: "<", "/", ">" and  *)
(* " " stand for themselves, "t" for think, "ti" is thinking, "g" thought, *)
(* "s" summary; case is left out.                                          *)
(***************************************************************************)
EXTENDS Integers, Sequences, SequencesExt

CONSTANTS
    Texts,   \* what the model says, a set of sequences of units
    Marked   \* prefixes Gemini marks as thought without tags

VARIABLES
    family,  \* "kimi", "gemini" or "qwen"
    text,
    mark,    \* how long the part is that is marked as thought
    at,      \* how much of the text has arrived
    pending, \* what the filter holds back
    mode,    \* the tag that ends the reasoning, <<>> outside; Qwen: <<"pass">>, <<"summary">>
    visible, reasoning, \* what the sink was given
    turn     \* the turn at the end: text, reasoning, summary and continuation

vars == <<family, text, mark, at, pending, mode, visible, reasoning, turn>>

Opens == [kimi |-> {<<"<", "t", ">">>, <<"<", "t", "i", ">">>}, gemini |-> {<<"<", "g", ">">>},
          qwen |-> {<<"<", "s", ">">>}]
CloseOf(open) == <<"<", "/">> \o Tail(open)

NoTurn == [done |-> FALSE, text |-> <<>>, reasoning |-> <<>>, summary |-> <<>>, more |-> FALSE]

FilterInit ==
    /\ family \in {"kimi", "gemini", "qwen"}
    /\ text \in Texts
    /\ mark \in 0..Len(text)
    /\ mark = 0 \/ (family = "gemini" /\ SubSeq(text, 1, mark) \in Marked)
    /\ at = 0 /\ pending = <<>> /\ mode = <<>>
    /\ visible = <<>> /\ reasoning = <<>>
    /\ turn = NoTurn

\* ------------------------------------------------------ tags in a text
Found(s, tag) == {i \in 1..Len(s) - Len(tag) + 1 : SubSeq(s, i, i + Len(tag) - 1) = tag}

TagsOf(f, m) == IF m = <<>> THEN Opens[f] ELSE {m}

\* Mutant: only a whole tag is looked for.
HeldNothing(s, tags) == 0

\* suffix_tag_prefix_len: the longest end of s that a tag begins with
Held(s, tags) ==
    LET n == {k \in 0..Len(s) :
                k = 0 \/ \E t \in tags : IsPrefix(SubSeq(s, Len(s) - k + 1, Len(s)), t)}
    IN CHOOSE k \in n : \A l \in n : l <= k

\* Mutant: the mark of a chunk is not looked at.
ThinksUnmarked(m, marked) == m # <<>>

Thinks(m, marked) == m # <<>> \/ marked

\* One round of the loop of push_delta and ThoughtStream::push: up to the next
\* tag, or up to what may become one.
Round(f, s, marked) ==
    LET tags == TagsOf(f, s.mode)
        hits == {h \in (1..Len(s.pending)) \X tags : h[1] \in Found(s.pending, h[2])}
        first == CHOOSE h \in hits : \A g \in hits : h[1] <= g[1]
        end == IF hits = {} THEN Len(s.pending) - Held(s.pending, tags) ELSE first[1] - 1
        part == SubSeq(s.pending, 1, end)
        thinks == Thinks(s.mode, marked /\ hits = {} /\ ~s.tagged)
    IN IF s.done THEN s
       ELSE [pending |-> SubSeq(s.pending, end + 1 + (IF hits = {} THEN 0 ELSE Len(first[2])),
                                Len(s.pending)),
             mode |-> IF hits = {} THEN s.mode
                      ELSE IF s.mode = <<>> THEN CloseOf(first[2]) ELSE <<>>,
             visible |-> IF thinks THEN s.visible ELSE s.visible \o part,
             reasoning |-> IF thinks THEN s.reasoning \o part ELSE s.reasoning,
             tagged |-> hits # {} \/ s.tagged,
             done |-> hits = {}]

Push(f, p, m, delta, marked) ==
    FoldLeft(LAMBDA s, i : Round(f, s, marked),
             [pending |-> p \o delta, mode |-> m, visible |-> <<>>, reasoning |-> <<>>,
              tagged |-> FALSE, done |-> FALSE],
             [i \in 1..Len(p \o delta) + 1 |-> i])

\* finish: what is held back is no tag
Flush(p, m) == [visible |-> IF m = <<>> THEN p ELSE <<>>,
                reasoning |-> IF m = <<>> THEN <<>> ELSE p]

\* ------------------------------------------------------------- SummaryFilter
Open == <<"<", "s", ">">>
Close == <<"<", "/", "s", ">">>
Trim(s) == FoldLeft(LAMBDA r, c : IF r = <<>> /\ c = " " THEN r ELSE Append(r, c), <<>>, s)

\* finish_summary_if_closed
Summary(buffer) ==
    LET ends == Found(buffer, Close)
        end == (CHOOSE i \in ends : \A j \in ends : i <= j) + Len(Close) - 1
    IN IF ends = {} THEN [pending |-> buffer, mode |-> <<"summary">>, visible |-> <<>>]
       ELSE [pending |-> SubSeq(buffer, 1, end), mode |-> <<"pass">>,
             visible |-> SubSeq(buffer, end + 1, Len(buffer))]

\* SummaryFilter::push_delta; pending is the prefix buffer and then the summary
PushSummary(p, m, delta) ==
    CASE m = <<"pass">> -> [pending |-> p, mode |-> m, visible |-> delta]
      [] m = <<"summary">> -> Summary(p \o delta)
      [] m = <<>> ->
            LET buffer == p \o delta IN
            IF IsPrefix(Trim(buffer), Open)
            THEN [pending |-> buffer, mode |-> m, visible |-> <<>>]
            ELSE IF IsPrefix(Open, Trim(buffer)) THEN Summary(buffer)
            ELSE [pending |-> <<>>, mode |-> <<"pass">>, visible |-> buffer]

\* ----------------------------------------------------------------- the stream
\* The next k units of the text.
Arrive(k) ==
    /\ ~turn.done /\ at + k <= Len(text)
    /\ at < mark => at + k <= mark
    /\ at' = at + k
    /\ LET delta == SubSeq(text, at + 1, at + k)
           q == PushSummary(pending, mode, delta)
           s == Push(family, pending, mode, delta, at < mark)
       IN IF family = "qwen"
          THEN /\ pending' = q.pending /\ mode' = q.mode
               /\ visible' = visible \o q.visible
               /\ UNCHANGED reasoning
          ELSE /\ pending' = s.pending /\ mode' = s.mode
               /\ visible' = visible \o s.visible
               /\ reasoning' = reasoning \o s.reasoning
    /\ UNCHANGED <<family, text, mark, turn>>

\* Mutant: the tail of the text stays in the filter.
FlushAtEndNothing == UNCHANGED <<visible, reasoning>>

\* ThinkTagSink::flush and flush_content; nothing flushes SummaryFilterSink
FlushAtEnd ==
    LET f == Flush(pending, mode) IN
    IF family = "qwen" THEN UNCHANGED <<visible, reasoning>>
    ELSE visible' = visible \o f.visible /\ reasoning' = reasoning \o f.reasoning

\* apply_think_tags_to_turn
ThinkTurn ==
    LET s == Push("kimi", <<>>, <<>>, text, FALSE)
        f == Flush(s.pending, s.mode)
    IN [NoTurn EXCEPT !.done = TRUE, !.text = s.visible \o f.visible,
                      !.reasoning = s.reasoning \o f.reasoning]

\* Mutant: a turn that ends with its summary goes on, whatever it says.
GoesOnAlways(answer, summary) == summary # <<>>

GoesOn(answer, summary) == summary # <<>> /\ Trim(answer) = <<>>

\* summary_text
SummaryText(buffer) ==
    LET opened == SubSeq(Trim(buffer), Len(Open) + 1, Len(Trim(buffer))) IN
    IF opened # <<>> /\ IsSuffix(Close, opened)
    THEN SubSeq(opened, 1, Len(opened) - Len(Close)) ELSE opened

\* apply_summary_to_turn
SummaryTurn ==
    LET q == PushSummary(<<>>, <<>>, text)
        answer == IF q.mode = <<>> THEN q.pending ELSE q.visible
        summary == IF q.mode = <<>> THEN <<>> ELSE Trim(SummaryText(q.pending))
    IN [done |-> TRUE, text |-> answer, reasoning |-> <<>>, summary |-> summary,
        more |-> GoesOn(answer, summary)]

\* The text has arrived: stream_turn flushes the filter and makes the turn.
End ==
    /\ ~turn.done /\ at = Len(text)
    /\ FlushAtEnd
    /\ turn' = CASE family = "kimi" -> ThinkTurn
                 [] family = "qwen" -> SummaryTurn
                 [] family = "gemini" ->
                        [NoTurn EXCEPT !.done = TRUE, !.text = visible', !.reasoning = reasoning']
    /\ UNCHANGED <<family, text, mark, at, pending, mode>>

Ended == turn.done /\ UNCHANGED vars

Next == (\E k \in 1..Len(text) : Arrive(k)) \/ End \/ Ended

Spec == FilterInit /\ [][Next]_vars

-----------------------------------------------------------------------------
TypeOK ==
    /\ family \in DOMAIN Opens
    /\ mark \in 0..Len(text) /\ at \in 0..Len(text)
    /\ mode \in {<<>>, <<"pass">>, <<"summary">>}
                \cup {CloseOf(o) : o \in Opens["kimi"] \cup Opens["gemini"]}
    /\ turn.done \in BOOLEAN /\ turn.more \in BOOLEAN

\* The text read with its whole length in view: a unit belongs to the tag that
\* begins with it, or to the channel the last tag opened.
WholeSplit(f, s) ==
    LET read(r, i) ==
            LET tags == {t \in TagsOf(f, r.mode) : i \in Found(s, t)} IN
            IF r.skip > 0 THEN [r EXCEPT !.skip = @ - 1]
            ELSE IF tags # {}
            THEN LET t == CHOOSE t \in tags : TRUE
                 IN [r EXCEPT !.skip = Len(t) - 1,
                              !.mode = IF @ = <<>> THEN CloseOf(t) ELSE <<>>]
            ELSE IF r.mode = <<>> THEN [r EXCEPT !.visible = Append(@, s[i])]
            ELSE [r EXCEPT !.reasoning = Append(@, s[i])]
    IN FoldLeft(read, [skip |-> 0, mode |-> <<>>, visible |-> <<>>, reasoning |-> <<>>],
                [i \in 1..Len(s) |-> i])

\* Wherever the text is cut, and before its end is known, the sink is never
\* given a part of a tag, nor a letter in the wrong channel: what it has is the
\* beginning of the split of the whole text (ThinkTagFilter, ThoughtStream).
NoTagIsShown ==
    family # "qwen" /\ mark = 0 =>
        /\ IsPrefix(visible, WholeSplit(family, text).visible)
        /\ IsPrefix(reasoning, WholeSplit(family, text).reasoning)

\* What Qwen has said may yet become a summary: it is nothing, or the opening
\* tag or its beginning, and nothing behind it.
Undecided == family = "qwen" /\ IsPrefix(Trim(text), Open)

\* At the end nothing is held back: the sink was given all that the turn says,
\* in the same channels, so that the history and what the caller has seen agree.
\* The one exception is an answer of Qwen that is still undecided: all of it is
\* in the turn, and the sink was given nothing (SummaryFilter::finish).
SinkHasTheTurn ==
    turn.done =>
        /\ visible = IF Undecided THEN <<>> ELSE turn.text
        /\ Undecided => turn.text = text
        /\ reasoning = turn.reasoning
        /\ family # "qwen" /\ mark = 0 =>
                visible = WholeSplit(family, text).visible
                /\ reasoning = WholeSplit(family, text).reasoning

\* The same for every answer, which does not hold for Qwen: what
\* SummaryFilter::finish gives back is in the turn and is not shown.
SinkAlwaysHasTheTurn == turn.done => visible = turn.text

\* Text that is marked as thought, and is no beginning of a tag, is reasoning,
\* and what follows it is not (gemini/mod.rs:105).
MarksDivide ==
    turn.done /\ mark > 0 /\ WholeSplit("gemini", text).visible = text =>
        reasoning = SubSeq(text, 1, mark) /\ visible = SubSeq(text, mark + 1, Len(text))

\* An answer is asked to go on only if it was nothing but a summary, and no
\* letter outside a leading summary is ever kept back.
OnlySummariesGoOn ==
    turn.done /\ family = "qwen" =>
        /\ turn.more => Trim(visible) = <<>> /\ IsPrefix(Open, Trim(text))
        /\ Undecided \/ ~IsPrefix(Open, Trim(text)) => turn.text = text
=============================================================================
