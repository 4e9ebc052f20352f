---------------------------- MODULE MCCodexAuth -----------------------------
(***************************************************************************)
(* Two accounts.  A behaviour is of one of two kinds.  Either a former     *)
(* version has left secrets of one account, and two callers at a time do   *)
(* everything there is to do, with something that goes wrong, and at last  *)
(* a refresh; or both accounts are signed in, and three callers refresh    *)
(* and sign out, so that a sign-out may cross two refreshes.  A refresh is *)
(* answered with all tokens or without a new refresh token.                *)
(***************************************************************************)
EXTENDS CodexAuth, TLC

MCAnswers == {{"access", "refresh"}, {"access"}}

VARIABLE start \* of a behaviour: "legacy" or "signed in"

\* A migration and a sign-in ago.
SignedIn ==
    /\ secret = [a \in Accounts |-> From(IF a = LegacyAccount THEN 1 ELSE 2)]
    /\ index = Accounts
    /\ legacy = None
    /\ cached = secret
    /\ cachedIndex = {index}
    /\ migrated = TRUE
    /\ migrating = NoCaller
    /\ lock = [a \in Accounts |-> NoCaller]
    /\ loginInProgress = FALSE
    /\ job = [c \in Callers |-> Idle]
    /\ grants = 2
    /\ calls = 0 /\ faults = 0
    /\ spent = {} /\ dropped = {} /\ torn = {}
    /\ apart = TRUE /\ abandoned = FALSE /\ astray = FALSE

MCInit ==
    \/ start = "legacy" /\ AuthInit
    \/ start = "signed in" /\ SignedIn

LegacyStep ==
    /\ start = "legacy" /\ grants' <= 3
    /\ \E c \in Callers : job'[c] = Idle
    /\ calls = 2 /\ calls' = 3 =>
           \E c \in Callers : job[c] = Idle /\ job'[c].op = "refresh"
SignedInStep ==
    /\ start = "signed in" /\ faults' = 0
    /\ \A c \in Callers : job'[c].op \in {"none", "refresh", "logout"}

\* The callers are alike.
CallerSymmetry == Permutations(Callers)

MCNext == AuthNext /\ (LegacyStep \/ SignedInStep) /\ UNCHANGED start
MCSpec == MCInit /\ [][MCNext]_<<authVars, start>>
=============================================================================
