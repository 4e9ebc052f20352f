--------------------------- MODULE ContextPruning ---------------------------
(***************************************************************************)
(* A history that a host shortens with prune_preserving_tool_pairs before  *)
(* it goes on.  The loops of the code walk to the nearest message of a     *)
(* kind; here the place where they stop is the only member of a set.       *)
(***************************************************************************)
EXTENDS Integers, Sequences

CONSTANTS
    MaxSaid,     \* Bound: how many messages are ever said
    MaxMessages, \* the limits a host prunes to
    MaxResults   \* Bound: how many calls one message may ask for

ASSUME PruningAssumption ==
    /\ MaxSaid \in Nat
    /\ MaxMessages \subseteq Nat
    /\ MaxResults \in Nat \ {0}

VARIABLES
    messages, \* [role, by]: by is the number of the message, or of the call answered
    said      \* how many messages were ever said

vars == <<messages, said>>

Roles == {"system", "user", "assistant", "call", "tool"}
Message == [role : Roles, by : Nat]

PruningTypeOK == messages \in Seq(Message) /\ said \in Nat

\* A history taken over from elsewhere may begin with results whose call is
\* not in it: they answer call 0.
PruningInit ==
    /\ said = 0
    /\ \E p \in 0 .. 1, n \in 0 .. MaxResults :
           messages = [i \in 1 .. p + n |-> [role |-> IF i <= p THEN "system" ELSE "tool", by |-> 0]]

IsToolResult(message) == message.role = "tool"

\* The length of the stable prefix: the system messages at the head.
PrefixLens(s) ==
    {p \in 0 .. Len(s) : /\ \A i \in 1 .. p : s[i].role = "system"
                         /\ p < Len(s) => s[p + 1].role # "system"}

\* Where the walk back from `from` stops: at the first message or at one that
\* is no result, which is the call.
Back(rest, from) ==
    {b \in 1 .. from : /\ b = 1 \/ ~ IsToolResult(rest[b])
                       /\ \A i \in b + 1 .. from : IsToolResult(rest[i])}

\* Where the walk forward over results without a call stops.
Forward(rest, from) ==
    {f \in from .. Len(rest) + 1 : /\ \A i \in from .. f - 1 : IsToolResult(rest[i])
                                   /\ f <= Len(rest) => ~ IsToolResult(rest[f])}

Larger(a, b) == IF a < b THEN b ELSE a

\* Mutant: the cut is made where the count says.
StartAtCount(rest, keep) == {Larger(Len(rest) - keep, 0) + 1}

\* Mutant: of several results without a call only the first is passed over.
StartPastOne(rest, keep) ==
    {IF b <= Len(rest) /\ IsToolResult(rest[b]) THEN b + 1 ELSE b :
        b \in Back(rest, Larger(Len(rest) - keep, 0) + 1)}

Start(rest, keep) ==
    UNION {Forward(rest, b) : b \in Back(rest, Larger(Len(rest) - keep, 0) + 1)}

\* The number of results of one message is known when it is said, and they
\* follow it: the coordinator adds both together.
Say(role) ==
    /\ said < MaxSaid
    /\ role \in Roles \ {"call", "tool"}
    /\ messages' = Append(messages, [role |-> role, by |-> said + 1])
    /\ said' = said + 1

SayCalls(n) ==
    /\ said < MaxSaid
    /\ messages' = messages \o [i \in 1 .. n + 1 |->
           [role |-> IF i = 1 THEN "call" ELSE "tool", by |-> said + 1]]
    /\ said' = said + 1

Prune(max) ==
    /\ Len(messages) > max
    /\ \E p \in PrefixLens(messages) :
           LET rest == SubSeq(messages, p + 1, Len(messages))
           IN \E start \in Start(rest, Larger(max - p, 1)) :
                  messages' = SubSeq(messages, 1, p) \o SubSeq(rest, start, Len(rest))
    /\ UNCHANGED said

PruningNext ==
    \/ \E role \in Roles : Say(role)
    \/ \E n \in 1 .. MaxResults : SayCalls(n)
    \/ \E max \in MaxMessages : Prune(max)

PruningSpec == PruningInit /\ [][PruningNext]_vars

-----------------------------------------------------------------------------
(* A result is kept only behind its call or another result of that call,   *)
(* however often the history was pruned (the test bug_agent_028).          *)
PairsStayTogether ==
    \A i \in 1 .. Len(messages) :
        IsToolResult(messages[i]) /\ messages[i].by # 0 =>
            /\ i > 1
            /\ messages[i - 1].by = messages[i].by
            /\ messages[i - 1].role \in {"call", "tool"}

(* Pruning leaves the stable prefix and an end of the rest: as much as was *)
(* asked for, and more only by the results of one call.  Results without a *)
(* call are not in it.                                                     *)
Orphans(s) == {i \in 1 .. Len(s) : IsToolResult(s[i]) /\ s[i].by = 0}
KeepsTheRecent ==
    [][\A max \in MaxMessages : Prune(max) =>
        LET lost == Len(messages) - Len(messages')
        IN /\ Orphans(messages') = {}
           /\ \E p \in PrefixLens(messages) :
                /\ \A i \in 1 .. Len(messages') :
                       messages'[i] = messages[IF i <= p THEN i ELSE i + lost]
                /\ Len(messages') <= Larger(max, p + 1) + MaxResults
                /\ \A i \in p + 1 .. lost + p :
                       i \in Orphans(messages) \/ i <= Len(messages) - Larger(max - p, 1)]_vars

(* Nothing that was said later gets into the stable prefix (the test       *)
(* bug_agent_027: dynamic metadata stays out of it).  Not kept: a system   *)
(* message that follows a cut joins the prefix.                            *)
PrefixStaysStable ==
    [][\A p \in PrefixLens(messages) :
        p < Len(messages) => p \in PrefixLens(messages')]_vars
=============================================================================
