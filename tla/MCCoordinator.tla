---------------------------- MODULE MCCoordinator ----------------------------
(***************************************************************************)
(* One run and its task, with a host that cancels, answers and expires.    *)
(* The provider picks every turn from a small menu; there is a tool for    *)
(* each way a call can go.  A behaviour is of one of four kinds: turns     *)
(* with approvals follow each other; or turns that go wrong, beside a      *)
(* deadline and an operation that the host has registered itself; or the   *)
(* provider names a call twice in one turn; or it goes on for long in a    *)
(* run with one or both limits disabled, where counts saturate.            *)
(***************************************************************************)
EXTENDS Coordinator

MCTools == {"read", "note", "write", "publish", "secret", "typo", "broken", "gone"}
MCPolicyOf == [read |-> "Allow", note |-> "RequireApproval", write |-> "RequireApproval",
               publish |-> "RequireApproval", secret |-> "Deny", typo |-> "BadArguments",
               broken |-> "FactsError", gone |-> "Unregistered"]
MCAskMode == [t \in MCTools |-> IF t = "publish" THEN "DeferredCommit" ELSE "BlockingApproval"]
MCParallelSafe == {"write", "publish"}

MCOps == {"ask1", "ask2", "commit1", "commit2", "commit3"}
MCRunOf == [o \in MCOps |-> "r1"]
MCModeOf == [o \in MCOps |-> IF o \in {"ask1", "ask2"} THEN "BlockingApproval"
                                                      ELSE "DeferredCommit"]
MCCallOf == [o \in MCOps |-> [run |-> "r1", op |-> o, mode |-> MCModeOf[o]]]
MCParentOf == [r1 |-> "none"]
MCHookRun == [h \in {} |-> 0]

Call(tool, id) == [tool |-> tool, id |-> id]
Turn(terminal, cs) == [terminal |-> terminal, calls |-> cs]

\* Two approvals one after the other, two side by side, and an invocation
\* that is repeated with another tool.
MCAsking == {Turn("Stop", <<>>),
             Turn("ToolCalls", <<Call("note", "a"), Call("publish", "b")>>),
             Turn("ToolCalls", <<Call("write", "a"), Call("publish", "b")>>),
             Turn("ToolCalls", <<Call("read", "b"), Call("write", "b")>>)}

\* Every way a call can go, and the ways a turn can end but for those that
\* continue it in MCLong.
MCEndings == {Turn("Stop", <<Call("read", "a")>>), Turn("Error", <<>>),
              Turn("SummaryOnly", <<>>),
              Turn("ToolCalls", <<Call("gone", "a")>>),
              Turn("ToolCalls", <<Call("read", "a"), Call("secret", "b")>>),
              Turn("ToolCalls", <<Call("typo", "b"), Call("broken", "a")>>),
              Turn("ToolCalls", <<Call("publish", "b")>>)}

\* The same invocation twice in a turn.
MCTwice == {Turn("ToolCalls", <<Call("read", "a"), Call("read", "a")>>)}

\* Continuations of each kind, and calls of both ids again and again.
MCLong == {Turn("Stop", <<>>), Turn("Incomplete", <<>>), Turn("ProviderRequested", <<>>),
           Turn("ToolCalls", <<Call("read", "a")>>), Turn("ToolCalls", <<Call("read", "b")>>)}

MCTurns == MCAsking \union MCEndings \union MCLong

RunLimits(n, m) == [max_model_rounds |-> n, max_tool_invocations |-> m]
MCLimits == {RunLimits(3, 3), RunLimits(U32Max, U32Max), RunLimits(U32Max, 2), RunLimits(2, U32Max)}
MCTwiceLimits == {RunLimits(2, 4)}

VARIABLE menu \* what the environment does: "asking", "ending", "twice" or "long"

\* The calls of a turn that the provider returns.
CallsOf(turns) == {<<>>} \union {t.calls : t \in turns}

AskingStep ==
    /\ menu = "asking"
    /\ calls' \in CallsOf(MCAsking) /\ (rounds' > 2 => calls' = <<>>)
    /\ conts' = conts
    /\ due' = {} /\ \A o \in HostOps : opState'[o] = "Absent"

EndingStep ==
    /\ menu = "ending"
    /\ calls' \in CallsOf(MCEndings)
    /\ conts'["Incomplete"] = 0 /\ conts'["ProviderRequested"] = 0
    /\ rounds' > 2 => \A k \in DOMAIN calls' : calls'[k].tool # "publish"

TwiceStep == menu = "twice" /\ calls' \in CallsOf(MCTwice)

LongStep ==
    /\ menu = "long"
    /\ calls' \in CallsOf(MCLong)
    /\ due' = {} /\ \A o \in HostOps : opState'[o] = "Absent"

MCInit ==
    /\ CoordinatorInit
    /\ menu \in {"asking", "ending", "twice", "long"}
    /\ menu = "long" <=> MaxRounds = U32Max \/ MaxInvocations = U32Max
MCNext ==
    CoordinatorNext /\ (AskingStep \/ EndingStep \/ TwiceStep \/ LongStep) /\ UNCHANGED menu
MCSpec == MCInit /\ [][MCNext]_<<allVars, limits, menu>> /\ CodeFairness
=============================================================================
