--------------------------- MODULE ProviderProofs ---------------------------
(***************************************************************************)
(* Proofs about a provider.  Its repetitions: the attempts, refreshes and  *)
(* fallbacks of one call of next_turn (TurnEngine), and the retries of one *)
(* request (HttpRetry).  For any request and configuration and whatever    *)
(* server, network and clock do, the reader sees one attempt, work that    *)
(* the server hosts is asked for once, and what is sent again is bounded.  *)
(* Both invariants say, for each place where a call may wait, what it may  *)
(* have cost so far: what an attempt, a bearer and a fallback may add is   *)
(* counted when it is begun.                                               *)
(*                                                                         *)
(* And its answers: what broke off, failed or is incomplete is no turn, in *)
(* either protocol (ResponsesTurn, ChatTurn) and however the bytes are cut *)
(* (StreamDecoder).  The invariants follow what was sent to the places     *)
(* where it is: of each call, to the slots it is merged into; of each byte *)
(* that has arrived, to the character it was decoded to.                   *)
(***************************************************************************)
EXTENDS Provider, FiniteSetTheorems, SequenceTheorems, WellFoundedInduction, TLAPS

-----------------------------------------------------------------------------
(* The call of next_turn.                                                  *)

(* The requests of one bearer: one, and one after a forced refresh.        *)
PerBearer == IF call.refreshable THEN 2 ELSE 1
PerAttempt == IF call.fallback THEN PerBearer + PerBearer ELSE PerBearer

(* What the present attempt has sent, at most.                             *)
Spent ==
    (IF bare THEN PerBearer ELSE 0) +
    (IF phase \in {"start", "bearer"} THEN 0
     ELSE IF phase = "force" THEN 1
     ELSE IF phase = "send" THEN (IF refreshed THEN 1 ELSE 0)
     ELSE IF refreshed THEN 2 ELSE 1)

SentInv ==
    sent <= (attempt - 1) * PerAttempt
            + (IF phase \in {"sleep", "done"} THEN PerAttempt ELSE Spent)

(* A refresh is forced once for a bearer that can be refreshed, and tools  *)
(* are dropped once, where that is asked for.                              *)
RefreshInv ==
    /\ refreshed => call.refreshable
    /\ phase = "bearer" => ~refreshed
    /\ phase = "force" => call.refreshable /\ ~refreshed
    /\ bare => call.fallback

(* The sink was given something by the present attempt only, which is not  *)
(* repeated then.                                                          *)
SeenInv == shown \subseteq {attempt} /\ (phase = "sleep" => shown = {} /\ attempt < MaxAttempts)

StatusInv ==
    /\ phase = "body" => status \in Success
    /\ phase = "preview" => status \notin Success \cup Worked \cup {401}

(* Work that the server hosts: before a request, and after one that was    *)
(* refused for its bearer, nothing was worked on.                          *)
HostedInv ==
    call.hosted /\ ~call.fallback =>
        /\ phase # "sleep" /\ worked <= 1
        /\ phase \in {"start", "bearer", "force", "send", "preview"} => worked = 0
        /\ phase = "answered" /\ status = 401 => worked = 0

AcceptedInv ==
    phase \in {"bearer", "force", "send", "body", "preview", "answered"} =>
        ImagesAccepted /\ BodyAccepted(BodySize)

(* The inductive invariant.                                                *)
TurnInv ==
    /\ TypeOK /\ RefreshInv /\ SentInv /\ SeenInv /\ StatusInv /\ HostedInv /\ AcceptedInv

-----------------------------------------------------------------------------
\* Where the head of an answer leads to.
LEMMA HeadMoves ==
    ASSUME HeadArrives
    PROVE  /\ phase = "send" /\ status' \in Statuses /\ hint' \in {"none", "short", "long"}
           /\ worked' = IF status' \in Worked THEN worked + 1 ELSE worked
           /\ sent' = sent + 1
           /\ \/ phase' = "body" /\ status' \in Success
              \/ phase' = "answered" /\ status' \in Retryable \cup {401}
              \/ phase' = "preview" /\ status' \notin Success \cup Retryable \cup {401}
           /\ UNCHANGED <<call, attempt, refreshed, bare, outcome, shown, refreshes>>
  BY DEF HeadArrives, Success, Retryable

LEMMA TypesNext ==
    ASSUME TypeOK, RefreshInv, SeenInv, [Next]_vars
    PROVE  TypeOK'
<1>0. CallOK(call) /\ (call' = call => CallOK(call)')
  BY DEF TypeOK, CallOK
<1> USE DEF TypeOK
<1>1. ASSUME Start PROVE TypeOK'
  BY <1>0, <1>1 DEF Start
<1>2. ASSUME Refuse PROVE TypeOK'
  BY <1>0, <1>2 DEF Refuse, Fail
<1>3. ASSUME Bearer PROVE TypeOK'
  BY <1>0, <1>3 DEF Bearer
<1>4. ASSUME NoBearer PROVE TypeOK'
  <2>1. refreshes' \in Nat /\ phase' \in {"sleep", "done"} /\ outcome' \in {outcome, "error"}
        /\ hint' = "none" /\ UNCHANGED <<call, attempt, refreshed, bare, status, shown, sent, worked>>
    <3>1. refreshes' \in {refreshes, refreshes + 1} /\ refreshes \in Nat
      BY <1>4 DEF NoBearer
    <3>2. refreshes' \in Nat
      BY ONLY <3>1
    <3>3. /\ phase' \in {"sleep", "done"} /\ outcome' \in {outcome, "error"} /\ hint' = "none"
          /\ UNCHANGED <<call, attempt, refreshed, bare, status, shown, sent, worked>>
      BY <1>4 DEF NoBearer, Fail
    <3> QED
      BY ONLY <3>2, <3>3
  <2> QED
    BY <1>0, <2>1
<1>5. ASSUME SendFails PROVE TypeOK'
  BY <1>0, <1>5 DEF SendFails, Fail
<1>6. ASSUME HeadArrives PROVE TypeOK'
  <2>1. phase' \in {"body", "answered", "preview"} /\ sent' \in Nat
    BY <1>6, HeadMoves
  <2>2. worked' \in {worked, worked + 1} /\ worked \in Nat
    BY <1>6, HeadMoves
  <2>3. worked' \in Nat
    BY ONLY <2>2
  <2>4. /\ status' \in Statuses /\ hint' \in {"none", "short", "long"}
        /\ UNCHANGED <<call, attempt, refreshed, bare, outcome, shown, refreshes>>
    BY <1>6, HeadMoves
  <2> QED
    BY <1>0, <2>1, <2>3, <2>4
<1>7. ASSUME Show PROVE TypeOK'
  BY <1>0, <1>7 DEF Show
<1>8. ASSUME BodyFails PROVE TypeOK'
  BY <1>0, <1>8 DEF BodyFails, Fail
<1>9. ASSUME BodyEnds PROVE TypeOK'
  BY <1>0, <1>9 DEF BodyEnds
<1>10. ASSUME Refresh PROVE TypeOK'
  BY <1>0, <1>10 DEF Refresh
<1>11. ASSUME DropTools PROVE TypeOK'
  BY <1>0, <1>11 DEF DropTools
<1>12. ASSUME Settle PROVE TypeOK'
  BY <1>0, <1>12 DEF Settle, Fail
<1>13. ASSUME Deadline PROVE TypeOK'
  BY <1>0, <1>13 DEF Deadline, Fail
<1>14. ASSUME Wake PROVE TypeOK'
  <2>1. attempt + 1 \in 1 .. MaxAttempts
    BY <1>14 DEF Wake, SeenInv, MaxAttempts
  <2> QED
    BY <1>0, <1>14, <2>1 DEF Wake
<1>15. ASSUME Drop PROVE TypeOK'
  BY <1>0, <1>15 DEF Drop
<1>16. ASSUME Finished PROVE TypeOK'
  BY <1>0, <1>16 DEF Finished, vars
<1>17. ASSUME UNCHANGED vars PROVE TypeOK'
  BY <1>0, <1>17 DEF vars
<1> QED
  BY <1>1, <1>2, <1>3, <1>4, <1>5, <1>6, <1>7, <1>8, <1>9,
     <1>10, <1>11, <1>12, <1>13, <1>14, <1>15, <1>16, <1>17 DEF Next

LEMMA RefreshNext ==
    ASSUME TypeOK, RefreshInv, [Next]_vars
    PROVE  RefreshInv'
<1> USE DEF RefreshInv
<1>1. ASSUME Start PROVE RefreshInv'
  BY <1>1 DEF Start
<1>2. ASSUME Refuse PROVE RefreshInv'
  BY <1>2 DEF Refuse, Fail
<1>3. ASSUME Bearer PROVE RefreshInv'
  BY <1>3 DEF Bearer
<1>4. ASSUME NoBearer PROVE RefreshInv'
  BY <1>4 DEF NoBearer, Fail
<1>5. ASSUME SendFails PROVE RefreshInv'
  BY <1>5 DEF SendFails, Fail
<1>6. ASSUME HeadArrives PROVE RefreshInv'
  BY <1>6, HeadMoves
<1>7. ASSUME Show PROVE RefreshInv'
  BY <1>7 DEF Show
<1>8. ASSUME BodyFails PROVE RefreshInv'
  BY <1>8 DEF BodyFails, Fail
<1>9. ASSUME BodyEnds PROVE RefreshInv'
  BY <1>9 DEF BodyEnds
<1>10. ASSUME Refresh PROVE RefreshInv'
  BY <1>10 DEF Refresh, Unauthorized
<1>11. ASSUME DropTools PROVE RefreshInv'
  BY <1>11 DEF DropTools, ToolsRefused
<1>12. ASSUME Settle PROVE RefreshInv'
  <2>1. phase' \in {"sleep", "done"} /\ UNCHANGED <<call, refreshed, bare>>
    BY <1>12 DEF Settle, Fail
  <2> QED
    BY <2>1
<1>13. ASSUME Deadline PROVE RefreshInv'
  BY <1>13 DEF Deadline, Fail
<1>14. ASSUME Wake PROVE RefreshInv'
  BY <1>14 DEF Wake
<1>15. ASSUME Drop PROVE RefreshInv'
  BY <1>15 DEF Drop
<1>16. ASSUME Finished PROVE RefreshInv'
  BY <1>16 DEF Finished, vars
<1>17. ASSUME UNCHANGED vars PROVE RefreshInv'
  BY <1>17 DEF vars
<1> QED
  BY <1>1, <1>2, <1>3, <1>4, <1>5, <1>6, <1>7, <1>8, <1>9,
     <1>10, <1>11, <1>12, <1>13, <1>14, <1>15, <1>16, <1>17 DEF Next

LEMMA SeenNext ==
    ASSUME TypeOK, SeenInv, [Next]_vars
    PROVE  SeenInv'
<1> USE DEF SeenInv
<1>1. ASSUME Start PROVE SeenInv'
  BY <1>1 DEF Start
<1>2. ASSUME Refuse PROVE SeenInv'
  BY <1>2 DEF Refuse, Fail, Again
<1>3. ASSUME Bearer PROVE SeenInv'
  BY <1>3 DEF Bearer
<1>4. ASSUME NoBearer PROVE SeenInv'
  BY <1>4 DEF NoBearer, Fail, Again
<1>5. ASSUME SendFails PROVE SeenInv'
  BY <1>5 DEF SendFails, Fail, Again
<1>6. ASSUME HeadArrives PROVE SeenInv'
  BY <1>6, HeadMoves
<1>7. ASSUME Show PROVE SeenInv'
  BY <1>7 DEF Show
<1>8. ASSUME BodyFails PROVE SeenInv'
  BY <1>8 DEF BodyFails, Fail, Again
<1>9. ASSUME BodyEnds PROVE SeenInv'
  BY <1>9 DEF BodyEnds
<1>10. ASSUME Refresh PROVE SeenInv'
  BY <1>10 DEF Refresh
<1>11. ASSUME DropTools PROVE SeenInv'
  BY <1>11 DEF DropTools
<1>12. ASSUME Settle PROVE SeenInv'
  BY <1>12 DEF Settle, Fail, Again
<1>13. ASSUME Deadline PROVE SeenInv'
  BY <1>13 DEF Deadline, Fail, Again
<1>14. ASSUME Wake PROVE SeenInv'
  BY <1>14 DEF Wake
<1>15. ASSUME Drop PROVE SeenInv'
  BY <1>15 DEF Drop
<1>16. ASSUME Finished PROVE SeenInv'
  BY <1>16 DEF Finished, vars
<1>17. ASSUME UNCHANGED vars PROVE SeenInv'
  BY <1>17 DEF vars
<1> QED
  BY <1>1, <1>2, <1>3, <1>4, <1>5, <1>6, <1>7, <1>8, <1>9,
     <1>10, <1>11, <1>12, <1>13, <1>14, <1>15, <1>16, <1>17 DEF Next

LEMMA StatusNext ==
    ASSUME TypeOK, StatusInv, [Next]_vars
    PROVE  StatusInv'
<1> USE DEF StatusInv
<1>1. ASSUME Start PROVE StatusInv'
  BY <1>1 DEF Start
<1>2. ASSUME Refuse PROVE StatusInv'
  BY <1>2 DEF Refuse, Fail
<1>3. ASSUME Bearer PROVE StatusInv'
  BY <1>3 DEF Bearer
<1>4. ASSUME NoBearer PROVE StatusInv'
  BY <1>4 DEF NoBearer, Fail
<1>5. ASSUME SendFails PROVE StatusInv'
  BY <1>5 DEF SendFails, Fail
<1>6. ASSUME HeadArrives PROVE StatusInv'
  BY <1>6, HeadMoves DEF Worked, Success, Retryable
<1>7. ASSUME Show PROVE StatusInv'
  BY <1>7 DEF Show
<1>8. ASSUME BodyFails PROVE StatusInv'
  BY <1>8 DEF BodyFails, Fail
<1>9. ASSUME BodyEnds PROVE StatusInv'
  BY <1>9 DEF BodyEnds
<1>10. ASSUME Refresh PROVE StatusInv'
  BY <1>10 DEF Refresh
<1>11. ASSUME DropTools PROVE StatusInv'
  BY <1>11 DEF DropTools
<1>12. ASSUME Settle PROVE StatusInv'
  <2>1. phase' \in {"sleep", "done"}
    BY <1>12 DEF Settle, Fail
  <2> QED
    BY <2>1
<1>13. ASSUME Deadline PROVE StatusInv'
  BY <1>13 DEF Deadline, Fail
<1>14. ASSUME Wake PROVE StatusInv'
  BY <1>14 DEF Wake
<1>15. ASSUME Drop PROVE StatusInv'
  BY <1>15 DEF Drop
<1>16. ASSUME Finished PROVE StatusInv'
  BY <1>16 DEF Finished, vars
<1>17. ASSUME UNCHANGED vars PROVE StatusInv'
  BY <1>17 DEF vars
<1> QED
  BY <1>1, <1>2, <1>3, <1>4, <1>5, <1>6, <1>7, <1>8, <1>9,
     <1>10, <1>11, <1>12, <1>13, <1>14, <1>15, <1>16, <1>17 DEF Next

LEMMA HostedNext ==
    ASSUME TypeOK, StatusInv, HostedInv, [Next]_vars
    PROVE  HostedInv'
<1> USE DEF HostedInv
<1>1. ASSUME Start PROVE HostedInv'
  BY <1>1 DEF Start
<1>2. ASSUME Refuse PROVE HostedInv'
  BY <1>2 DEF Refuse, Fail, Again
<1>3. ASSUME Bearer PROVE HostedInv'
  BY <1>3 DEF Bearer
<1>4. ASSUME NoBearer PROVE HostedInv'
  BY <1>4 DEF NoBearer, Fail, Again
<1>5. ASSUME SendFails PROVE HostedInv'
  BY <1>5 DEF SendFails, Fail, Again, TypeOK
<1>6. ASSUME HeadArrives PROVE HostedInv'
  BY <1>6, HeadMoves DEF TypeOK, Worked, Success, Retryable
<1>7. ASSUME Show PROVE HostedInv'
  BY <1>7 DEF Show
<1>8. ASSUME BodyFails PROVE HostedInv'
  BY <1>8 DEF BodyFails, Fail, Again
<1>9. ASSUME BodyEnds PROVE HostedInv'
  BY <1>9 DEF BodyEnds, StatusInv, Success
<1>10. ASSUME Refresh PROVE HostedInv'
  BY <1>10 DEF Refresh, Unauthorized
<1>11. ASSUME DropTools PROVE HostedInv'
  BY <1>11 DEF DropTools, ToolsRefused
<1>12. ASSUME Settle PROVE HostedInv'
  BY <1>12 DEF Settle, Fail, Again
<1>13. ASSUME Deadline PROVE HostedInv'
  BY <1>13 DEF Deadline, Fail, Again
<1>14. ASSUME Wake PROVE HostedInv'
  BY <1>14 DEF Wake
<1>15. ASSUME Drop PROVE HostedInv'
  BY <1>15 DEF Drop
<1>16. ASSUME Finished PROVE HostedInv'
  BY <1>16 DEF Finished, vars
<1>17. ASSUME UNCHANGED vars PROVE HostedInv'
  BY <1>17 DEF vars
<1> QED
  BY <1>1, <1>2, <1>3, <1>4, <1>5, <1>6, <1>7, <1>8, <1>9,
     <1>10, <1>11, <1>12, <1>13, <1>14, <1>15, <1>16, <1>17 DEF Next

LEMMA AcceptedNext ==
    ASSUME AcceptedInv, [Next]_vars
    PROVE  AcceptedInv'
<1> DEFINE Fits == ImagesAccepted /\ BodyAccepted(BodySize)
<1>0. ASSUME UNCHANGED <<call, bare>> PROVE Fits' <=> Fits
  BY <1>0 DEF ImagesAccepted, BodyAccepted, BodySize, ImageAccepted
<1> USE DEF AcceptedInv
<1>1. ASSUME Start PROVE AcceptedInv'
  BY <1>0, <1>1 DEF Start
<1>2. ASSUME Refuse PROVE AcceptedInv'
  BY <1>0, <1>2 DEF Refuse, Fail
<1>3. ASSUME Bearer PROVE AcceptedInv'
  BY <1>0, <1>3 DEF Bearer
<1>4. ASSUME NoBearer PROVE AcceptedInv'
  BY <1>0, <1>4 DEF NoBearer, Fail
<1>5. ASSUME SendFails PROVE AcceptedInv'
  BY <1>0, <1>5 DEF SendFails, Fail
<1>6. ASSUME HeadArrives PROVE AcceptedInv'
  BY <1>0, <1>6, HeadMoves
<1>7. ASSUME Show PROVE AcceptedInv'
  BY <1>0, <1>7 DEF Show
<1>8. ASSUME BodyFails PROVE AcceptedInv'
  BY <1>0, <1>8 DEF BodyFails, Fail
<1>9. ASSUME BodyEnds PROVE AcceptedInv'
  BY <1>0, <1>9 DEF BodyEnds
<1>10. ASSUME Refresh PROVE AcceptedInv'
  BY <1>0, <1>10 DEF Refresh
<1>11. ASSUME DropTools PROVE AcceptedInv'
  BY <1>0, <1>11 DEF DropTools
<1>12. ASSUME Settle PROVE AcceptedInv'
  BY <1>0, <1>12 DEF Settle, Fail
<1>13. ASSUME Deadline PROVE AcceptedInv'
  BY <1>0, <1>13 DEF Deadline, Fail
<1>14. ASSUME Wake PROVE AcceptedInv'
  BY <1>0, <1>14 DEF Wake
<1>15. ASSUME Drop PROVE AcceptedInv'
  BY <1>0, <1>15 DEF Drop
<1>16. ASSUME Finished PROVE AcceptedInv'
  BY <1>0, <1>16 DEF Finished, vars
<1>17. ASSUME UNCHANGED vars PROVE AcceptedInv'
  BY <1>0, <1>17 DEF vars
<1> QED
  BY <1>1, <1>2, <1>3, <1>4, <1>5, <1>6, <1>7, <1>8, <1>9,
     <1>10, <1>11, <1>12, <1>13, <1>14, <1>15, <1>16, <1>17 DEF Next

\* The arithmetic of attempts, of which there are three.
LEMMA OneMore ==
    ASSUME NEW n \in 1 .. MaxAttempts, NEW a \in Nat
    PROVE  (n - 1) * a \in Nat /\ n * a = (n - 1) * a + a
<1>1. CASE n = 1
  BY <1>1
<1>2. CASE n = 2
  BY <1>2
<1>3. CASE n = 3
  BY <1>3
<1> QED
  BY <1>1, <1>2, <1>3 DEF MaxAttempts

\* What a bearer and an attempt may cost, and what is spent within one.
LEMMA Costs ==
    ASSUME RefreshInv
    PROVE  /\ PerBearer \in {1, 2} /\ PerAttempt \in Nat
           /\ refreshed => PerBearer = 2
           /\ phase = "force" => PerBearer = 2
           /\ (IF bare THEN PerBearer ELSE 0) + PerBearer <= PerAttempt
<1>1. PerBearer \in {1, 2} /\ (refreshed \/ phase = "force" => PerBearer = 2)
  BY DEF RefreshInv, PerBearer
<1>2. PerAttempt = IF call.fallback THEN PerBearer + PerBearer ELSE PerBearer
  BY DEF PerAttempt
<1>3. bare => call.fallback
  BY DEF RefreshInv
<1> QED
  BY <1>1, <1>2, <1>3

LEMMA SpentIsLess ==
    ASSUME RefreshInv
    PROVE  Spent \in Nat /\ Spent <= PerAttempt
  BY Costs DEF Spent

LEMMA SentNext ==
    ASSUME TypeOK, RefreshInv, RefreshInv', SentInv, SeenInv, [Next]_vars
    PROVE  SentInv'
<1> DEFINE base == (attempt - 1) * PerAttempt
           open == IF bare THEN PerBearer ELSE 0
<1>1. /\ base \in Nat /\ sent \in Nat /\ PerBearer \in {1, 2} /\ PerAttempt \in Nat
      /\ open \in Nat /\ open + PerBearer <= PerAttempt
  BY Costs, OneMore DEF TypeOK
<1>2. call' = call
  BY DEF Next, vars, Start, Refuse, Bearer, NoBearer, SendFails, HeadArrives, Show, BodyFails,
         BodyEnds, Refresh, DropTools, Settle, Deadline, Wake, Drop, Finished, Fail
<1>3. PerBearer' = PerBearer /\ PerAttempt' = PerAttempt
  BY <1>2 DEF PerBearer, PerAttempt
\* The attempt ends, or sleeps before the next.
<1>4. ASSUME phase' \in {"sleep", "done"}, attempt' = attempt,
             \/ sent' = sent
             \/ phase = "send" /\ sent' = sent + 1
      PROVE  SentInv'
  <2>1. sent <= base + (IF phase \in {"sleep", "done"} THEN PerAttempt ELSE Spent)
    BY DEF SentInv
  <2>2. sent' <= base + PerAttempt
    <3>1. CASE sent' = sent
      BY <1>1, <2>1, <3>1, SpentIsLess
    <3>2. CASE phase = "send" /\ sent' = sent + 1
      <4>1. Spent + 1 <= PerAttempt
        BY <1>1, <3>2, Costs DEF Spent
      <4> QED
        BY <1>1, <2>1, <3>2, <4>1, SpentIsLess
    <3> QED
      BY <1>4, <3>1, <3>2
  <2> QED
    BY <1>3, <1>4, <2>2 DEF SentInv
\* The attempt goes on: what is sent is what it may have spent more.
<1>5. ASSUME phase \notin {"sleep", "done"}, phase' \notin {"sleep", "done"}, attempt' = attempt,
             NEW more \in Nat, sent' = sent + more, Spent' \in Nat, Spent + more <= Spent'
      PROVE  SentInv'
  <2>1. sent <= base + Spent
    BY <1>5 DEF SentInv
  <2>2. sent' <= base + Spent'
    BY <1>1, <1>5, <2>1, SpentIsLess
  <2> QED
    BY <1>3, <1>5, <2>2 DEF SentInv
<1>6. Spent' \in Nat
  BY <1>1, <1>3 DEF Spent
<1> HIDE DEF base, open
<1>7. ASSUME Start PROVE SentInv'
  <2>1. /\ phase \notin {"sleep", "done"} /\ phase' \notin {"sleep", "done"}
        /\ attempt' = attempt /\ sent' = sent + 0
    BY <1>1, <1>7 DEF Start
  <2>2. Spent + 0 <= Spent'
    BY <1>1, <1>3, <1>7, Costs DEF Start, Spent, TypeOK, RefreshInv
  <2> QED
    BY <1>5, <1>6, <2>1, <2>2
<1>8. ASSUME Bearer PROVE SentInv'
  <2>1. /\ phase \notin {"sleep", "done"} /\ phase' \notin {"sleep", "done"}
        /\ attempt' = attempt /\ sent' = sent + 0
    BY <1>1, <1>8 DEF Bearer
  <2>2. Spent + 0 <= Spent'
    <3>1. phase' = "send" /\ bare' = bare
      BY <1>8 DEF Bearer
    <3>2. CASE phase = "bearer"
      BY <1>1, <1>3, <3>1, <3>2, Costs DEF Spent
    <3>3. CASE phase = "force"
      <4>1. refreshed'
        BY <1>8, <3>3 DEF Bearer
      <4> QED
        BY <1>1, <1>3, <3>1, <3>3, <4>1 DEF Spent
    <3> QED
      BY <1>8, <3>2, <3>3 DEF Bearer
  <2> QED
    BY <1>5, <1>6, <2>1, <2>2
<1>9. ASSUME HeadArrives PROVE SentInv'
  <2>1. /\ phase \notin {"sleep", "done"} /\ phase' \notin {"sleep", "done"}
        /\ attempt' = attempt /\ sent' = sent + 1
    BY <1>1, <1>9, HeadMoves
  <2>2. Spent + 1 <= Spent'
    BY <1>1, <1>3, <1>9, Costs, HeadMoves DEF Spent, TypeOK, RefreshInv
  <2> QED
    BY <1>5, <1>6, <2>1, <2>2
<1>10. ASSUME Show PROVE SentInv'
  <2>1. /\ phase \notin {"sleep", "done"} /\ phase' \notin {"sleep", "done"}
        /\ attempt' = attempt /\ sent' = sent + 0
    BY <1>1, <1>10 DEF Show
  <2>2. Spent + 0 <= Spent'
    BY <1>1, <1>3, <1>10, Costs DEF Show, Spent, TypeOK, RefreshInv
  <2> QED
    BY <1>5, <1>6, <2>1, <2>2
<1>11. ASSUME BodyEnds PROVE SentInv'
  <2>1. /\ phase \notin {"sleep", "done"} /\ phase' \notin {"sleep", "done"}
        /\ attempt' = attempt /\ sent' = sent + 0
    BY <1>1, <1>11 DEF BodyEnds
  <2>2. Spent + 0 <= Spent'
    BY <1>1, <1>3, <1>11, Costs DEF BodyEnds, Spent, TypeOK, RefreshInv
  <2> QED
    BY <1>5, <1>6, <2>1, <2>2
<1>12. ASSUME Refresh PROVE SentInv'
  <2>1. /\ phase \notin {"sleep", "done"} /\ phase' \notin {"sleep", "done"}
        /\ attempt' = attempt /\ sent' = sent + 0
    BY <1>1, <1>12 DEF Refresh, Unauthorized
  <2>2. Spent + 0 <= Spent'
    BY <1>1, <1>3, <1>12, Costs DEF Refresh, Spent, TypeOK, RefreshInv, Unauthorized
  <2> QED
    BY <1>5, <1>6, <2>1, <2>2
<1>13. ASSUME DropTools PROVE SentInv'
  <2>1. /\ phase \notin {"sleep", "done"} /\ phase' \notin {"sleep", "done"}
        /\ attempt' = attempt /\ sent' = sent + 0
    BY <1>1, <1>13 DEF DropTools, ToolsRefused
  <2>2. Spent + 0 <= Spent'
    BY <1>1, <1>3, <1>13, Costs DEF DropTools, Spent, TypeOK, RefreshInv, ToolsRefused
  <2> QED
    BY <1>5, <1>6, <2>1, <2>2
<1>14. ASSUME Refuse PROVE SentInv'
  BY <1>4, <1>14 DEF Refuse, Fail
<1>15. ASSUME NoBearer PROVE SentInv'
  BY <1>4, <1>15 DEF NoBearer, Fail
<1>16. ASSUME SendFails PROVE SentInv'
  BY <1>4, <1>16 DEF SendFails, Fail
<1>17. ASSUME BodyFails PROVE SentInv'
  BY <1>4, <1>17 DEF BodyFails, Fail
<1>18. ASSUME Settle PROVE SentInv'
  BY <1>4, <1>18 DEF Settle, Fail
<1>19. ASSUME Deadline PROVE SentInv'
  BY <1>4, <1>19 DEF Deadline, Fail
<1>20. ASSUME Drop PROVE SentInv'
  BY <1>4, <1>20 DEF Drop
<1>21. ASSUME Wake PROVE SentInv'
  <2>1. sent <= base + PerAttempt /\ attempt' = attempt + 1 /\ sent' = sent /\ phase' = "start"
    BY <1>21 DEF Wake, SentInv, base
  <2>2. (attempt' - 1) * PerAttempt' = base + PerAttempt
    <3>1. attempt' - 1 = attempt
      BY <2>1 DEF TypeOK
    <3> QED
      BY <1>1, <1>3, <3>1, OneMore DEF TypeOK, base
  <2> QED
    BY <1>1, <1>3, <1>6, <2>1, <2>2 DEF SentInv
<1>22. ASSUME UNCHANGED vars PROVE SentInv'
  BY <1>3, <1>22 DEF vars, SentInv, Spent
<1> QED
  BY <1>7, <1>8, <1>9, <1>10, <1>11, <1>12, <1>13, <1>14, <1>15, <1>16, <1>17, <1>18,
     <1>19, <1>20, <1>21, <1>22 DEF Next, Finished

-----------------------------------------------------------------------------
LEMMA TurnInitInv == ASSUME CallsAssumption, TurnInit PROVE TurnInv
<1>1. TypeOK
  <2>1. CallOK(call)
    BY DEF CallsAssumption, TurnInit
  <2>2. attempt \in 1 .. MaxAttempts /\ shown \subseteq 1 .. MaxAttempts
    BY DEF TurnInit, MaxAttempts
  <2> QED
    BY <2>1, <2>2 DEF TurnInit, TypeOK
<1>2. PerAttempt \in Nat /\ PerBearer \in Nat
  BY DEF PerAttempt, PerBearer
<1>3. SentInv
  BY <1>2 DEF TurnInit, SentInv, Spent
<1>4. RefreshInv /\ SeenInv /\ StatusInv /\ HostedInv /\ AcceptedInv
  BY DEF TurnInit, RefreshInv, SeenInv, StatusInv, HostedInv, AcceptedInv
<1> QED
  BY <1>1, <1>3, <1>4 DEF TurnInv

LEMMA TurnNext == ASSUME TurnInv, [Next]_vars PROVE TurnInv'
<1>1. TypeOK' /\ RefreshInv' /\ SeenInv'
  BY TypesNext, RefreshNext, SeenNext DEF TurnInv
<1>2. SentInv' /\ StatusInv' /\ HostedInv' /\ AcceptedInv'
  BY <1>1, SentNext, StatusNext, HostedNext, AcceptedNext DEF TurnInv
<1> QED
  BY <1>1, <1>2 DEF TurnInv

(* The invariant says what the properties say.                             *)
LEMMA TurnInvShows == TurnInv => OneAttemptIsSeen
<1> SUFFICES ASSUME TurnInv PROVE shown \subseteq {attempt} /\ Cardinality(shown) <= 1
  BY DEF OneAttemptIsSeen
<1>1. shown \in SUBSET {attempt}
  BY DEF TurnInv, SeenInv
<1>2. IsFiniteSet({attempt}) /\ Cardinality({attempt}) = 1
  BY FS_Singleton
<1>3. Cardinality(shown) <= Cardinality({attempt})
  BY <1>1, <1>2, FS_Subset
<1> QED
  BY <1>1, <1>2, <1>3

LEMMA TurnInvWorks == TurnInv => HostedWorkOnce
BY DEF TurnInv, HostedInv, HostedWorkOnce

LEMMA TurnInvBounds == TurnInv => RequestsBounded
<1> SUFFICES ASSUME TurnInv PROVE RequestsBounded
  OBVIOUS
<1>1. /\ attempt \in 1 .. MaxAttempts /\ PerAttempt \in Nat /\ sent \in Nat
      /\ (attempt - 1) * PerAttempt \in Nat
      /\ attempt * PerAttempt = (attempt - 1) * PerAttempt + PerAttempt
  BY Costs, OneMore DEF TurnInv, TypeOK
<1>2. Spent \in Nat /\ Spent <= PerAttempt
  BY SpentIsLess DEF TurnInv
<1>3. sent <= attempt * PerAttempt
  BY <1>1, <1>2 DEF TurnInv, SentInv
<1>4. attempt * PerAttempt = attempt * (IF call.refreshable THEN 2 ELSE 1)
                                     * (IF call.fallback THEN 2 ELSE 1)
  BY <1>1 DEF PerAttempt, PerBearer
<1> QED
  BY <1>3, <1>4 DEF RequestsBounded

LEMMA TurnInvRefuses == TurnInv => OnlyAcceptedIsSent
BY DEF TurnInv, AcceptedInv, OnlyAcceptedIsSent

(* The invariant of a call: what every place where it waits has cost, and  *)
(* what the sink and the server have had of it.                            *)
THEOREM TurnSafety == ASSUME CallsAssumption PROVE Spec => []TurnInv
<1>1. TurnInit => TurnInv
  BY TurnInitInv
<1>2. TurnInv /\ [Next]_vars => TurnInv'
  BY TurnNext
<1> QED
  BY <1>1, <1>2, PTL DEF Spec

(* A reader of a stream never sees the beginning of two answers: all that  *)
(* the sink was given is of one attempt, the one that ends the call.       *)
THEOREM OneAttemptShows == ASSUME CallsAssumption PROVE Spec => []OneAttemptIsSeen
BY TurnInvShows, TurnSafety, PTL

(* Whatever attempts, refreshes and deadlines there are, the server works  *)
(* at most once on what it hosts, unless the fallback without tools is     *)
(* configured.                                                             *)
THEOREM HostedWorkIsDoneOnce == ASSUME CallsAssumption PROVE Spec => []HostedWorkOnce
BY TurnInvWorks, TurnSafety, PTL

(* A call sends at most three times what one bearer may cost, or twice     *)
(* that with the fallback.                                                 *)
THEOREM RequestsAreBounded == ASSUME CallsAssumption PROVE Spec => []RequestsBounded
BY TurnInvBounds, TurnSafety, PTL

(* Nothing that the rules for DeepSeek images refuse is on its way, in any *)
(* attempt and also as the longer request of the fallback.                 *)
THEOREM RefusedIsNeverSent == ASSUME CallsAssumption PROVE Spec => []OnlyAcceptedIsSent
BY TurnInvRefuses, TurnSafety, PTL

-----------------------------------------------------------------------------
(* A request and its retries.                                              *)

(* How often the server may have done the work: in the tries of the first  *)
(* bearer, the last of which was refused for it if there is a second, and  *)
(* in the tries before this one.                                           *)
WorkInv ==
    /\ httpPhase = "bearer" => ~httpRefreshed /\ httpWorked = 0
    /\ httpPhase = "force" => ~httpRefreshed /\ httpWorked <= Http!MaxHttpAttempts - 1
    /\ httpPhase = "send" => httpWorked + 1 <= httpAttempt + (IF httpRefreshed THEN Http!MaxHttpAttempts - 1 ELSE 0)
    /\ httpPhase = "sleep" =>
          /\ httpAttempt < Http!MaxHttpAttempts
          /\ httpWorked <= httpAttempt + (IF httpRefreshed THEN Http!MaxHttpAttempts - 1 ELSE 0)
    /\ Http!WorkBounded

(* Nothing was worked on before a request that must not be replayed.       *)
OnceInv ==
    (\E t \in httpTools : t # "function") =>
        httpWorked <= 1 /\ (httpPhase # "done" => httpWorked = 0)

(* A sleep ends when the server may be asked again, and within a minute.   *)
ClockInv ==
    /\ httpPhase \in {"bearer", "force", "send"} => httpClock >= httpDue
    /\ httpPhase = "sleep" => httpWake >= httpDue /\ httpWake - httpClock <= Minute

HttpInv == Http!TypeOK /\ WorkInv /\ OnceInv /\ ClockInv

(* The body has tools that the server works on itself.                     *)
Hosted == \E t \in httpTools : t # "function"

LEMMA HttpSendFailsMoves ==
    ASSUME Http!TickAssumption, Http!TypeOK, Http!SendFails
    PROVE  /\ httpPhase = "send" /\ httpPhase' \in {"sleep", "done"} /\ httpWorked' \in {httpWorked, httpWorked + 1}
           /\ Hosted /\ httpPhase' = "sleep" => httpWorked' = httpWorked
           /\ httpPhase' = "sleep" =>
                 /\ httpAttempt < Http!MaxHttpAttempts
                 /\ httpWake' = httpClock + 1 /\ httpWake' - httpClock <= Minute
           /\ httpPhase' = "done" => httpWake' = httpWake
           /\ UNCHANGED <<Http!Call, httpAttempt, httpRefreshed, httpClock, httpDue, httpAnswered>>
<1>1. PICK f \in Http!Failures :
         /\ httpWorked' = IF f \in Http!Late THEN httpWorked + 1 ELSE httpWorked
         /\ IF Http!Retries(IF Http!Policy = "Replayable" THEN f # "other" ELSE f = "connect",
                            Http!NoHint)
            THEN Http!Sleep(Http!NoHint) ELSE httpPhase' = "done" /\ UNCHANGED httpWake
  BY DEF Http!SendFails
<1>2. httpPhase = "send" /\ UNCHANGED <<Http!Call, httpAttempt, httpRefreshed, httpClock, httpDue, httpAnswered>>
  BY DEF Http!SendFails
<1>3. CASE httpPhase' = "done" /\ httpWake' = httpWake
  BY <1>1, <1>2, <1>3
<1>4. CASE /\ Http!Retries(IF Http!Policy = "Replayable" THEN f # "other" ELSE f = "connect",
                           Http!NoHint)
           /\ Http!Sleep(Http!NoHint)
  <2>1. /\ httpPhase' = "sleep" /\ httpWake' = httpClock + 1
        /\ httpAttempt < Http!MaxHttpAttempts /\ 1 <= Minute
    BY <1>4 DEF Http!Retries, Http!Sleep, Http!Delay, Http!NoHint, Http!Backoff
  <2>2. Hosted => f = "connect"
    BY <1>4 DEF Hosted, Http!Retries, Http!Policy
  <2>3. Hosted => httpWorked' = httpWorked
    BY <1>1, <2>2 DEF Http!Late
  <2>4. httpWake' - httpClock = 1
    BY <2>1 DEF Http!TypeOK
  <2> QED
    BY <1>1, <1>2, <2>1, <2>3, <2>4
<1> QED
  BY <1>1, <1>3, <1>4

LEMMA HttpAnswerMoves ==
    ASSUME Http!TickAssumption, Http!TypeOK, Http!Answer
    PROVE  /\ httpPhase = "send" /\ httpPhase' \in {"sleep", "force", "done"}
           /\ httpWorked' \in {httpWorked, httpWorked + 1} /\ httpAnswered' \in BOOLEAN
           /\ httpPhase' = "sleep" =>
                 /\ ~Hosted /\ httpAttempt < Http!MaxHttpAttempts
                 /\ httpWake' \in Nat /\ httpDue' \in Nat /\ httpDue' <= httpWake' /\ httpWake' - httpClock <= Minute
           /\ httpPhase' = "force" => httpWorked' = httpWorked /\ ~httpRefreshed
           /\ httpPhase' # "sleep" => UNCHANGED <<httpWake, httpDue>>
           /\ UNCHANGED <<Http!Call, httpAttempt, httpRefreshed, httpClock>>
<1>1. PICK s \in Http!Statuses, wait \in Hints \cup {Http!NoHint} :
         /\ httpWorked' = IF s \in Http!Worked THEN httpWorked + 1 ELSE httpWorked
         /\ IF Http!Retries(Http!Policy = "Replayable" /\ s \in Http!Retryable, wait)
            THEN Http!Sleep(wait) /\ httpDue' = httpClock + wait /\ UNCHANGED httpAnswered
            ELSE /\ httpPhase' = IF s = 401 /\ ~httpRefreshed /\ httpRefreshable THEN "force" ELSE "done"
                 /\ httpAnswered' = (httpPhase' = "done")
                 /\ UNCHANGED <<httpWake, httpDue>>
  BY DEF Http!Answer
<1>2. /\ httpPhase = "send" /\ UNCHANGED <<Http!Call, httpAttempt, httpRefreshed, httpClock>>
      /\ httpWorked' \in {httpWorked, httpWorked + 1}
  BY <1>1 DEF Http!Answer
<1>3. CASE /\ Http!Retries(Http!Policy = "Replayable" /\ s \in Http!Retryable, wait)
           /\ Http!Sleep(wait) /\ httpDue' = httpClock + wait /\ UNCHANGED httpAnswered
  <2>1. /\ httpPhase' = "sleep" /\ httpWake' = httpClock + Http!Delay(wait)
        /\ httpAttempt < Http!MaxHttpAttempts /\ Http!Delay(wait) <= Minute
        /\ Http!Policy = "Replayable"
    BY <1>3 DEF Http!Retries, Http!Sleep
  <2>2. ~Hosted
    BY <2>1 DEF Hosted, Http!Policy
  <2>3. wait \in Nat /\ Http!Delay(wait) \in Nat /\ wait <= Http!Delay(wait)
    <3>1. wait \in Nat
      BY DEF Http!TickAssumption, Http!NoHint
    <3>2. Http!Delay(wait) = IF wait = 0 THEN 1 ELSE wait
      BY DEF Http!Delay, Http!NoHint, Http!Backoff
    <3> QED
      BY <3>1, <3>2
  <2>4. httpClock \in Nat /\ httpAnswered \in BOOLEAN /\ Minute \in Nat
    BY DEF Http!TypeOK, Http!TickAssumption
  <2>5. httpWake' \in Nat /\ httpDue' \in Nat /\ httpDue' <= httpWake' /\ httpWake' - httpClock <= Minute
    BY <1>3, <2>1, <2>3, <2>4
  <2> QED
    BY <1>2, <1>3, <2>1, <2>2, <2>4, <2>5
<1>4. CASE /\ httpPhase' = IF s = 401 /\ ~httpRefreshed /\ httpRefreshable THEN "force" ELSE "done"
           /\ httpAnswered' = (httpPhase' = "done")
           /\ UNCHANGED <<httpWake, httpDue>>
  <2>1. httpPhase' \in {"force", "done"} /\ (httpPhase' = "force" => ~httpRefreshed /\ s = 401)
    BY <1>4
  <2>2. s = 401 => httpWorked' = httpWorked
    BY <1>1 DEF Http!Worked
  <2>3. httpAnswered' \in BOOLEAN
    BY <1>4
  <2> QED
    BY <1>2, <1>4, <2>1, <2>2, <2>3
<1> QED
  BY <1>1, <1>3, <1>4

LEMMA HttpTypesNext ==
    ASSUME Http!TickAssumption, HttpInv, [Http!Next]_(Http!vars)
    PROVE  Http!TypeOK'
<1> USE DEF Http!TypeOK
<1>1. ASSUME Http!Bearer PROVE Http!TypeOK'
  BY <1>1 DEF HttpInv, Http!Bearer, Http!Call, Http!MaxHttpAttempts
<1>2. ASSUME Http!NoBearer PROVE Http!TypeOK'
  BY <1>2 DEF HttpInv, Http!NoBearer, Http!Call
<1>3. ASSUME Http!SendFails PROVE Http!TypeOK'
  <2>1. httpWake' \in Nat /\ httpWorked' \in Nat
    BY <1>3, HttpSendFailsMoves DEF HttpInv
  <2> QED
    BY <1>3, <2>1, HttpSendFailsMoves DEF HttpInv, Http!Call
<1>4. ASSUME Http!Answer PROVE Http!TypeOK'
  <2>1. httpWake' \in Nat /\ httpDue' \in Nat /\ httpWorked' \in Nat
    BY <1>4, HttpAnswerMoves DEF HttpInv
  <2> QED
    BY <1>4, <2>1, HttpAnswerMoves DEF HttpInv, Http!Call
<1>5. ASSUME Http!Wake PROVE Http!TypeOK'
  BY <1>5 DEF HttpInv, WorkInv, Http!Wake, Http!Call, Http!MaxHttpAttempts
<1>6. ASSUME Http!Tick PROVE Http!TypeOK'
  BY <1>6 DEF HttpInv, Http!Tick, Http!Call
<1>7. ASSUME UNCHANGED Http!vars PROVE Http!TypeOK'
  BY <1>7 DEF HttpInv, Http!vars
<1> QED
  BY <1>1, <1>2, <1>3, <1>4, <1>5, <1>6, <1>7 DEF Http!Next, Http!Finished

LEMMA WorkNext ==
    ASSUME Http!TickAssumption, HttpInv, [Http!Next]_(Http!vars)
    PROVE  WorkInv'
<1>0. Http!TypeOK /\ WorkInv /\ httpWorked \in Nat /\ httpAttempt \in 1 .. 3
  BY DEF HttpInv, Http!TypeOK, Http!MaxHttpAttempts
<1> USE DEF WorkInv, Http!WorkBounded, Http!MaxHttpAttempts
<1>1. ASSUME Http!Bearer PROVE WorkInv'
  <2>1. httpPhase' = "send" /\ httpAttempt' = 1 /\ httpWorked' = httpWorked
    BY <1>1 DEF Http!Bearer
  <2>2. CASE httpPhase = "bearer"
    BY <1>0, <2>1, <2>2
  <2>3. CASE httpPhase = "force"
    <3>1. httpRefreshed'
      BY <1>1, <2>3 DEF Http!Bearer
    <3> QED
      BY <1>0, <2>1, <2>3, <3>1
  <2> QED
    BY <1>1, <2>2, <2>3 DEF Http!Bearer
<1>2. ASSUME Http!NoBearer PROVE WorkInv'
  BY <1>0, <1>2 DEF Http!NoBearer
<1>3. ASSUME Http!SendFails PROVE WorkInv'
  BY <1>0, <1>3, HttpSendFailsMoves
<1>4. ASSUME Http!Answer PROVE WorkInv'
  BY <1>0, <1>4, HttpAnswerMoves
<1>5. ASSUME Http!Wake PROVE WorkInv'
  BY <1>0, <1>5 DEF Http!Wake
<1>6. ASSUME Http!Tick PROVE WorkInv'
  BY <1>0, <1>6 DEF Http!Tick
<1>7. ASSUME UNCHANGED Http!vars PROVE WorkInv'
  BY <1>0, <1>7 DEF Http!vars
<1> QED
  BY <1>1, <1>2, <1>3, <1>4, <1>5, <1>6, <1>7 DEF Http!Next, Http!Finished

LEMMA OnceNext ==
    ASSUME Http!TickAssumption, HttpInv, [Http!Next]_(Http!vars)
    PROVE  OnceInv'
<1>0. Http!TypeOK /\ (Hosted => httpWorked <= 1 /\ (httpPhase # "done" => httpWorked = 0))
  BY DEF HttpInv, OnceInv, Hosted
<1> SUFFICES ASSUME Hosted'
             PROVE  httpWorked' <= 1 /\ (httpPhase' # "done" => httpWorked' = 0)
  BY DEF OnceInv, Hosted
<1>1. httpTools' = httpTools /\ Hosted
  BY DEF Http!Next, Http!vars, Http!Call, Http!Bearer, Http!NoBearer, Http!SendFails,
         Http!Answer, Http!Wake, Http!Tick, Http!Finished, Hosted
<1>2. ASSUME Http!Bearer \/ Http!NoBearer \/ Http!Wake \/ Http!Tick
      PROVE  httpWorked' <= 1 /\ (httpPhase' # "done" => httpWorked' = 0)
  <2>1. httpWorked' = httpWorked /\ httpPhase # "done"
    BY <1>2 DEF Http!Bearer, Http!NoBearer, Http!Wake, Http!Tick
  <2> QED
    BY <1>0, <1>1, <2>1
<1>3. ASSUME Http!SendFails PROVE httpWorked' <= 1 /\ (httpPhase' # "done" => httpWorked' = 0)
  BY <1>0, <1>1, <1>3, HttpSendFailsMoves
<1>4. ASSUME Http!Answer PROVE httpWorked' <= 1 /\ (httpPhase' # "done" => httpWorked' = 0)
  BY <1>0, <1>1, <1>4, HttpAnswerMoves
<1>5. ASSUME UNCHANGED Http!vars PROVE httpWorked' <= 1 /\ (httpPhase' # "done" => httpWorked' = 0)
  BY <1>0, <1>1, <1>5 DEF Http!vars
<1> QED
  BY <1>2, <1>3, <1>4, <1>5 DEF Http!Next, Http!Finished

LEMMA ClockNext ==
    ASSUME Http!TickAssumption, HttpInv, [Http!Next]_(Http!vars)
    PROVE  ClockInv'
<1>0. Http!TypeOK /\ ClockInv /\ httpClock \in Nat /\ httpWake \in Nat /\ httpDue \in Nat /\ Minute \in Nat
  BY DEF HttpInv, Http!TypeOK, Http!TickAssumption
<1> USE DEF ClockInv
<1>1. ASSUME Http!Bearer PROVE ClockInv'
  BY <1>0, <1>1 DEF Http!Bearer
<1>2. ASSUME Http!NoBearer PROVE ClockInv'
  BY <1>0, <1>2 DEF Http!NoBearer
<1>3. ASSUME Http!SendFails PROVE ClockInv'
  BY <1>0, <1>3, HttpSendFailsMoves
<1>4. ASSUME Http!Answer PROVE ClockInv'
  BY <1>0, <1>4, HttpAnswerMoves
<1>5. ASSUME Http!Wake PROVE ClockInv'
  BY <1>0, <1>5 DEF Http!Wake
<1>6. ASSUME Http!Tick PROVE ClockInv'
  BY <1>0, <1>6 DEF Http!Tick
<1>7. ASSUME UNCHANGED Http!vars PROVE ClockInv'
  BY <1>0, <1>7 DEF Http!vars
<1> QED
  BY <1>1, <1>2, <1>3, <1>4, <1>5, <1>6, <1>7 DEF Http!Next, Http!Finished

LEMMA HttpInitInv == ASSUME Http!HttpInit PROVE HttpInv
<1>1. Http!TypeOK
  <2>1. httpTools \subseteq {"function", "web_search"} /\ httpCloneable \in BOOLEAN /\ httpRefreshable \in BOOLEAN
    BY DEF Http!HttpInit
  <2>2. httpAttempt \in 1 .. Http!MaxHttpAttempts /\ httpRefreshed \in BOOLEAN /\ httpAnswered \in BOOLEAN
    <3>1. httpAttempt = 1 /\ Http!MaxHttpAttempts = 3
      BY DEF Http!HttpInit, Http!MaxHttpAttempts
    <3>2. httpAttempt \in 1 .. Http!MaxHttpAttempts
      BY ONLY <3>1
    <3>3. httpRefreshed = FALSE /\ httpAnswered = FALSE
      BY DEF Http!HttpInit
    <3> QED
      BY ONLY <3>2, <3>3
  <2>3. httpPhase = "bearer" /\ httpClock \in Nat /\ httpWake \in Nat /\ httpDue \in Nat /\ httpWorked \in Nat
    BY DEF Http!HttpInit
  <2> QED
    BY <2>1, <2>2, <2>3 DEF Http!TypeOK
<1>2. WorkInv
  BY DEF Http!HttpInit, WorkInv, Http!WorkBounded, Http!MaxHttpAttempts
<1>3. OnceInv /\ ClockInv
  BY DEF Http!HttpInit, OnceInv, ClockInv
<1> QED
  BY <1>1, <1>2, <1>3 DEF HttpInv

LEMMA HttpNext ==
    ASSUME Http!TickAssumption, HttpInv, [Http!Next]_(Http!vars) PROVE HttpInv'
<1>1. Http!TypeOK' /\ WorkInv' /\ OnceInv' /\ ClockInv'
  BY HttpTypesNext, WorkNext, OnceNext, ClockNext
<1> QED
  BY <1>1 DEF HttpInv

(* The invariant says what the properties say.                             *)
LEMMA HttpInvKeeps ==
    HttpInv => Http!StatefulOnce /\ Http!ServerWaitIsKept /\ Http!WorkBounded
<1>1. HttpInv => Http!StatefulOnce
  BY DEF HttpInv, OnceInv, Http!StatefulOnce
<1>2. HttpInv => Http!ServerWaitIsKept
  BY DEF HttpInv, ClockInv, Http!ServerWaitIsKept
<1>3. HttpInv => Http!WorkBounded
  BY DEF HttpInv, WorkInv
<1> QED
  BY <1>1, <1>2, <1>3

(* The invariant of a request: what its tries have cost, and when the next *)
(* may be made.                                                            *)
THEOREM HttpSafety == ASSUME Http!TickAssumption PROVE Http!Spec => []HttpInv
<1>1. Http!HttpInit => HttpInv
  BY HttpInitInv
<1>2. HttpInv /\ [Http!Next]_(Http!vars) => HttpInv'
  BY HttpNext
<1> QED
  BY <1>1, <1>2, PTL DEF Http!Spec

(* A request with hosted work is not sent again once the server may have   *)
(* begun on it, also not by way of a refresh.                              *)
THEOREM StatefulWorkIsDoneOnce ==
    ASSUME Http!TickAssumption PROVE Http!Spec => []Http!StatefulOnce
BY HttpInvKeeps, HttpSafety, PTL

(* No request is sent sooner than the server asked for, and no wait is     *)
(* longer than a minute.                                                   *)
THEOREM WaitsAreKept ==
    ASSUME Http!TickAssumption PROVE Http!Spec => []Http!ServerWaitIsKept
BY HttpInvKeeps, HttpSafety, PTL

(* Whatever the answers, the work is asked for a bounded number of times.  *)
THEOREM RetriesAreBounded ==
    ASSUME Http!TickAssumption PROVE Http!Spec => []Http!WorkBounded
BY HttpInvKeeps, HttpSafety, PTL

-----------------------------------------------------------------------------
(* Both of them among the parts of a provider: one of the parts moves, and *)
(* the invariants of the others stay as they begin.                        *)

LEMMA RepetitionsInit ==
    ASSUME CallsAssumption, ProviderInit PROVE TurnInv /\ HttpInv
BY TurnInitInv, HttpInitInv DEF ProviderInit

LEMMA RepetitionsNext ==
    ASSUME ProviderAssumption, TurnInv, HttpInv, [ProviderNext]_providerVars
    PROVE  TurnInv' /\ HttpInv'
<1>1. [Next]_vars /\ [Http!Next]_(Http!vars)
  BY DEF ProviderNext, providerVars, httpVars, Http!vars
<1> QED
  BY <1>1, TurnNext, HttpNext DEF ProviderAssumption

(* However often attempts and requests are repeated: one attempt is seen,  *)
(* hosted work is done once, what is sent again is bounded and waits as    *)
(* long as the server asks, and what is refused is never on its way        *)
(* (openai_compatible/mod.rs, common/http.rs, reliability.rs).             *)
THEOREM RepetitionsAreSafe ==
    ASSUME ProviderAssumption PROVE ProviderSpec => []WorkIsAskedOnce
<1>1. ProviderInit => TurnInv /\ HttpInv
  BY RepetitionsInit DEF ProviderAssumption
<1>2. TurnInv /\ HttpInv /\ [ProviderNext]_providerVars => TurnInv' /\ HttpInv'
  BY RepetitionsNext
<1>3. TurnInv /\ HttpInv => WorkIsAskedOnce
  BY TurnInvShows, TurnInvWorks, TurnInvBounds, TurnInvRefuses, HttpInvKeeps
     DEF WorkIsAskedOnce, Of
<1> QED
  BY <1>1, <1>2, <1>3, PTL DEF ProviderSpec

-----------------------------------------------------------------------------
(* Induction: a set of numbers that is not empty has a least one, so one   *)
(* that has 0 and with every number the next has them all.                 *)

LEMMA LeastNumber ==
    ASSUME NEW T \in SUBSET Nat, T # {}
    PROVE  \E n \in T : \A m \in T : n <= m
<1> DEFINE R == OpToRel(<, Nat)
<1>1. IsWellFoundedOn(R, Nat)
  BY NatLessThanWellFounded
<1>2. \A m, n \in Nat : m < n => <<m, n>> \in R
  BY DEF OpToRel
<1> HIDE DEF R
<1>3. PICK n \in T : \A m \in T : <<m, n>> \notin R
  BY <1>1, WFMin
<1>4. \A m \in T : ~ m < n
  BY <1>2, <1>3
<1>5. \A m \in T : n <= m
  BY <1>4
<1> QED
  BY <1>5

LEMMA Inductive ==
    ASSUME NEW T \in SUBSET Nat, 0 \in T, \A n \in T : n + 1 \in T
    PROVE  T = Nat
<1> SUFFICES ASSUME T # Nat PROVE FALSE
  OBVIOUS
<1>1. Nat \ T \in SUBSET Nat /\ Nat \ T # {}
  OBVIOUS
<1>2. PICK n \in Nat \ T : \A m \in Nat \ T : n <= m
  BY <1>1, LeastNumber
<1>3. n - 1 \in Nat /\ ~ n <= n - 1 /\ n = (n - 1) + 1
  BY <1>2
<1>4. n - 1 \in T
  BY <1>2, <1>3
<1> QED
  BY <1>2, <1>3, <1>4

LEMMA InductiveUpTo ==
    ASSUME NEW n \in Nat, NEW T, 0 \in T,
           \A i \in 1 .. n : i - 1 \in T => i \in T
    PROVE  \A i \in 0 .. n : i \in T
<1> DEFINE U == {i \in Nat : i <= n => i \in T}
<1>1. U \in SUBSET Nat /\ 0 \in U
  OBVIOUS
<1>2. ASSUME NEW i \in U PROVE i + 1 \in U
  <2> SUFFICES ASSUME i + 1 <= n PROVE i + 1 \in T
    OBVIOUS
  <2>1. i + 1 \in 1 .. n /\ (i + 1) - 1 = i /\ i \in T
    OBVIOUS
  <2> QED
    BY <2>1
<1> HIDE DEF U
<1>3. U = Nat
  BY <1>1, <1>2, Inductive
<1> QED
  BY <1>3 DEF U

(* As Folding asks for it.                                                 *)
LEMMA NaturalsCount ==
    \A T \in SUBSET Nat : 0 \in T /\ (\A i \in T : i + 1 \in T) => T = Nat
  BY Inductive

-----------------------------------------------------------------------------
(* The turn made of a stream of the Responses protocol.                    *)

Merging == INSTANCE Folding WITH Op <- Responses!MergeItem

(* The positions are counted up from 0.                                    *)
LEMMA MergingCounts == Merging!Counting
  BY NaturalsCount DEF Merging!Counting

AssemblerFields ==
    {"last", "keys", "parts", "text", "reasoning", "calls", "replay", "images",
     "terminal", "sawDone", "error"}

(* The state of an assembler, as far as its fields and its error go.       *)
Assembled(s) ==
    DOMAIN s = AssemblerFields /\ s.error \in {"none", "diverged", "late", "failed"}

(* How the server says that the answer ended, by label and by status.      *)
Ended == Responses!TerminalStatus(respPlan)

(* An event of this server.                                                *)
Reported(e) ==
    /\ e.type \in {"added", "delta", "args_delta", "text_done", "args_done",
                   "item_done", "terminal"}
    /\ e.type = "terminal" => e.label = respPlan.label /\ e.status = respPlan.status
    /\ e.type = "item_done" => e.item \in DOMAIN respPlan.items

(* Only the terminal event tells the assembler how the answer ended, and   *)
(* only an answer that ended well is a turn.                               *)
ResponsesInv ==
    /\ respPlan \in Plans
    /\ Assembled(respA) /\ respA.terminal \in {"none", Ended}
    /\ respCur \in Nat \ {0}
    /\ \E S : respLog \in Seq(S) /\ \A e \in S : Reported(e)
    /\ respOutcome = "turn" => respA.terminal = "completed"

LEMMA PlanParts ==
    ASSUME Responses!PlansAssumption, respPlan \in Plans
    PROVE  /\ respPlan.items \in Seq(Responses!ToSet(respPlan.items))
           /\ DOMAIN respPlan.items = 1 .. Len(respPlan.items)
           /\ Len(respPlan.items) \in Nat
           /\ \A i \in DOMAIN respPlan.items :
                respPlan.items[i].kind \in {"message", "reasoning", "call", "search", "image"}
           /\ respPlan.label \in {"completed", "incomplete", "failed"}
           /\ respPlan.status \in {"", "completed", "incomplete", "failed"}
<1>1. Responses!PlanOK(respPlan)
  BY DEF Responses!PlansAssumption
<1>2. respPlan.items \in Seq(Responses!ToSet(respPlan.items))
  BY <1>1 DEF Responses!PlanOK
<1>3. /\ DOMAIN respPlan.items = 1 .. Len(respPlan.items)
      /\ Len(respPlan.items) \in Nat
  BY ONLY <1>2
<1> QED
  BY <1>1, <1>2, <1>3 DEF Responses!PlanOK

LEMMA CallDeltaKeeps ==
    ASSUME NEW s, Assembled(s), NEW i, NEW id, NEW name, NEW args, NEW snapshot
    PROVE  /\ Assembled(Responses!CallDelta(s, i, id, name, args, snapshot))
           /\ Responses!CallDelta(s, i, id, name, args, snapshot).terminal = s.terminal
BY DEF Assembled, AssemblerFields, Responses!CallDelta

LEMMA MergeItemKeeps ==
    ASSUME Responses!PlansAssumption, respPlan \in Plans,
           NEW s, Assembled(s), NEW i \in DOMAIN respPlan.items
    PROVE  /\ Assembled(Responses!MergeItem(s, i))
           /\ Responses!MergeItem(s, i).terminal = s.terminal
<1>1. respPlan.items[i].kind \in {"message", "reasoning", "call", "search", "image"}
  BY PlanParts
<1>2. CASE respPlan.items[i].kind \in {"reasoning", "search", "message", "image"}
  <2>1. CASE respPlan.items[i].kind = "message"
    BY <2>1 DEF Responses!MergeItem, Responses!Items
  <2>2. CASE respPlan.items[i].kind = "image"
    BY <2>2 DEF Responses!MergeItem, Responses!Items, Assembled, AssemblerFields
  <2>3. CASE respPlan.items[i].kind \in {"reasoning", "search"}
    <3> DEFINE v == Responses!Upsert(s.replay, respPlan.items[i])
    <3>1. Responses!MergeItem(s, i) = [s EXCEPT !.replay = v]
      BY <2>3 DEF Responses!MergeItem, Responses!Items
    <3> HIDE DEF v
    <3> QED
      BY <3>1 DEF Responses!MergeItem, Responses!Items, Assembled, AssemblerFields
  <2> QED
    BY <1>2, <2>1, <2>2, <2>3
<1>3. CASE respPlan.items[i].kind = "call"
  <2> DEFINE item == respPlan.items[i]
             snapshot == TRUE
  <2>1. Responses!MergeItem(s, i)
            = Responses!CallDelta(s, i, item.id, item.name, item.text, snapshot)
    BY <1>3 DEF Responses!MergeItem, Responses!Items
  <2> HIDE DEF item, snapshot
  <2> QED
    BY <2>1, CallDeltaKeeps
<1> QED
  BY <1>1, <1>2, <1>3

LEMMA MergeItemsKeep ==
    ASSUME Responses!PlansAssumption, respPlan \in Plans, NEW s, Assembled(s)
    PROVE  /\ Assembled(Responses!MergeItems(s))
           /\ Responses!MergeItems(s).terminal = s.terminal
<1> DEFINE n == Len(respPlan.items)
           q == [i \in DOMAIN respPlan.items |-> i]
<1>1. n \in Nat /\ DOMAIN q = 1 .. n
  BY PlanParts
<1>2. \A i \in 1 .. n : q[i] = i /\ i \in DOMAIN respPlan.items
  BY PlanParts
<1> HIDE DEF n
<1>3. Responses!MergeItems(s) = Merging!Fold(s, q)
  BY DEF Responses!MergeItems, Responses!Items, Responses!FoldLeft, Responses!MapThenFoldSet,
         Responses!Max, Merging!Fold, Merging!Folded, Merging!Max
<1> HIDE DEF q
<1> DEFINE m(i) == Merging!FoldTo(s, q, i)
<1>4. /\ m(0) = s
      /\ \A i \in 1 .. n : m(i) = Responses!MergeItem(m(i - 1), q[i])
      /\ Merging!Fold(s, q) = m(n)
  BY ONLY <1>1, MergingCounts, Merging!FoldSteps, Zenon
<1> HIDE DEF m
<1> DEFINE T == {i \in 0 .. n : Assembled(m(i)) /\ m(i).terminal = s.terminal}
<1>5. 0 \in T
  BY <1>1, <1>4
<1>6. ASSUME NEW i \in 1 .. n, i - 1 \in T PROVE i \in T
  <2>1. m(i) = Responses!MergeItem(m(i - 1), i) /\ i \in DOMAIN respPlan.items
    BY <1>2, <1>4
  <2>2. Assembled(m(i - 1)) /\ m(i - 1).terminal = s.terminal
    BY <1>6
  <2>3. i \in 0 .. n
    BY <1>1
  <2> QED
    BY <2>1, <2>2, <2>3, MergeItemKeeps
<1> HIDE DEF T
<1>7. \A i \in 0 .. n : i \in T
  BY <1>1, <1>5, <1>6, InductiveUpTo
<1> QED
  BY <1>1, <1>3, <1>4, <1>7 DEF T

LEMMA AddKeeps ==
    ASSUME NEW s, Assembled(s), NEW item, NEW suffix
    PROVE  /\ Assembled(Responses!Add(s, item, suffix))
           /\ Responses!Add(s, item, suffix).terminal = s.terminal
<1>1. CASE item.kind = "message"
  BY <1>1 DEF Assembled, AssemblerFields, Responses!Add
<1>2. CASE item.kind # "message"
  BY <1>2 DEF Assembled, AssemblerFields, Responses!Add
<1> QED
  BY <1>1, <1>2

LEMMA PartKeeps ==
    ASSUME NEW s, Assembled(s), NEW item, NEW piece
    PROVE  /\ Assembled([s EXCEPT !.parts[item] = piece])
           /\ [s EXCEPT !.parts[item] = piece].terminal = s.terminal
BY DEF Assembled, AssemblerFields

LEMMA PushPartKeeps ==
    ASSUME NEW s, Assembled(s), NEW e
    PROVE  /\ Assembled(Responses!PushPart(s, e))
           /\ Responses!PushPart(s, e).terminal = s.terminal
<1> DEFINE t == Responses!Add(s, Responses!Items[e.item],
                   Responses!NewText(s.parts[e.item], e.value, FALSE, respPlan.allow))
           piece == Responses!Pushed(s.parts[e.item], e.value, FALSE, respPlan.allow)
<1>1. Responses!PushPart(s, e) = [t EXCEPT !.parts[e.item] = piece]
  BY DEF Responses!PushPart
<1>2. Assembled(t) /\ t.terminal = s.terminal
  BY AddKeeps
<1> HIDE DEF t, piece
<1> QED
  BY <1>1, <1>2, PartKeeps

LEMMA CompletePartKeeps ==
    ASSUME NEW s, Assembled(s), NEW e
    PROVE  /\ Assembled(Responses!CompletePart(s, e))
           /\ Responses!CompletePart(s, e).terminal = s.terminal
<1> DEFINE old == s.parts[e.item]
           saw == [s EXCEPT !.sawDone = @ \/ Responses!Items[e.item].kind = "message"]
           t == Responses!Add(saw, Responses!Items[e.item],
                    SubSeq(e.value, Len(old.emitted) + 1, Len(e.value)))
           piece == Responses!Completed(old, e.value)
<1>1. Assembled(saw) /\ saw.terminal = s.terminal
  BY DEF Assembled, AssemblerFields
<1>2. \/ Responses!CompletePart(s, e) = [saw EXCEPT !.error = "diverged"]
      \/ Responses!CompletePart(s, e) = [t EXCEPT !.parts[e.item] = piece]
  BY DEF Responses!CompletePart
<1> HIDE DEF saw
<1>3. Assembled(t) /\ t.terminal = s.terminal
  BY <1>1, AddKeeps
<1>4. /\ Assembled([saw EXCEPT !.error = "diverged"])
      /\ [saw EXCEPT !.error = "diverged"].terminal = s.terminal
  BY <1>1 DEF Assembled, AssemblerFields
<1> HIDE DEF t, piece
<1>5. /\ Assembled([t EXCEPT !.parts[e.item] = piece])
      /\ [t EXCEPT !.parts[e.item] = piece].terminal = s.terminal
  BY <1>3, PartKeeps
<1> QED
  BY <1>2, <1>4, <1>5

(* What is not the terminal event does not tell how the answer ends.       *)
LEMMA ReportKeeps ==
    ASSUME Responses!PlansAssumption, respPlan \in Plans,
           NEW s, Assembled(s), NEW e, Reported(e), e.type # "terminal"
    PROVE  /\ Assembled(Responses!Apply(s, e))
           /\ Responses!Apply(s, e).terminal = s.terminal
<1> DEFINE item == Responses!Items[e.item]
           absent == Responses!Absent
           yes == TRUE
           no == FALSE
           nothing == <<>>
<1>1. CASE e.type = "delta"
  <2>1. Responses!Apply(s, e) = Responses!PushPart(s, e)
    BY <1>1 DEF Responses!Apply
  <2> QED
    BY <2>1, PushPartKeeps
<1>2. CASE e.type = "text_done"
  <2>1. Responses!Apply(s, e) = Responses!CompletePart(s, e)
    BY <1>2 DEF Responses!Apply
  <2> QED
    BY <2>1, CompletePartKeeps
<1>3. CASE e.type = "added"
  <2>1. \/ Responses!Apply(s, e) = s
        \/ Responses!Apply(s, e)
                = Responses!CallDelta(s, e.item, item.id, item.name, nothing, no)
    BY <1>3 DEF Responses!Apply
  <2> HIDE DEF item, nothing, no
  <2> QED
    BY <2>1, CallDeltaKeeps
<1>4. CASE e.type = "args_delta"
  <2>1. Responses!Apply(s, e) = Responses!CallDelta(s, e.item, absent, absent, e.value, no)
    BY <1>4 DEF Responses!Apply
  <2> HIDE DEF absent, no
  <2> QED
    BY <2>1, CallDeltaKeeps
<1>5. CASE e.type = "args_done"
  <2>1. Responses!Apply(s, e) = Responses!CallDelta(s, e.item, absent, absent, e.value, yes)
    BY <1>5 DEF Responses!Apply
  <2> HIDE DEF absent, yes
  <2> QED
    BY <2>1, CallDeltaKeeps
<1>6. CASE e.type = "item_done"
  <2>1. Responses!Apply(s, e) = Responses!MergeItem(s, e.item)
    BY <1>6 DEF Responses!Apply
  <2> QED
    BY <1>6, <2>1, MergeItemKeeps DEF Reported
<1> QED
  BY <1>1, <1>2, <1>3, <1>4, <1>5, <1>6 DEF Reported

(* The terminal event tells it as its label and its status have it.        *)
LEMMA TerminalTells ==
    ASSUME Responses!PlansAssumption, respPlan \in Plans,
           NEW s, Assembled(s), NEW e, Reported(e), e.type = "terminal"
    PROVE  Assembled(Responses!Apply(s, e)) /\ Responses!Apply(s, e).terminal = Ended
<1> DEFINE t == [s EXCEPT !.terminal = Responses!TerminalStatus(e)]
           full == e.output = "full"
           complete == IF full THEN Responses!OutputText ELSE <<>>
           u == IF complete = <<>> THEN t ELSE [t EXCEPT !.text = complete]
<1>1. Responses!Apply(s, e) = Responses!ApplyTerminal(s, e)
  BY DEF Responses!Apply
<1>2. Responses!TerminalStatus(e) = Ended
  BY DEF Responses!TerminalStatus, Ended, Reported
<1> HIDE DEF Ended
<1>3. Assembled(t) /\ t.terminal = Ended
  BY <1>2 DEF Assembled, AssemblerFields
<1>4. Responses!ApplyTerminal(s, e)
        \in {t, [t EXCEPT !.error = "failed"], [t EXCEPT !.error = "diverged"], u,
             Responses!MergeItems(u)}
  BY DEF Responses!ApplyTerminal, Responses!ApplySnapshot
<1> HIDE DEF t
<1>5. /\ Assembled([t EXCEPT !.error = "failed"])
      /\ [t EXCEPT !.error = "failed"].terminal = Ended
  BY <1>3 DEF Assembled, AssemblerFields
<1>6. /\ Assembled([t EXCEPT !.error = "diverged"])
      /\ [t EXCEPT !.error = "diverged"].terminal = Ended
  BY <1>3 DEF Assembled, AssemblerFields
<1> HIDE DEF complete
<1>7. Assembled(u) /\ u.terminal = Ended
  <2>1. Assembled([t EXCEPT !.text = complete]) /\ [t EXCEPT !.text = complete].terminal = Ended
    BY <1>3 DEF Assembled, AssemblerFields
  <2> QED
    BY <1>3, <2>1
<1> HIDE DEF u
<1>8. Assembled(Responses!MergeItems(u)) /\ Responses!MergeItems(u).terminal = Ended
  BY <1>7, MergeItemsKeep
<1> QED
  BY <1>1, <1>3, <1>4, <1>5, <1>6, <1>7, <1>8

LEMMA ReceiveKeeps ==
    ASSUME Responses!PlansAssumption, respPlan \in Plans,
           NEW s, Assembled(s), s.terminal \in {"none", Ended}, NEW e, Reported(e)
    PROVE  /\ Assembled(Responses!Receive(s, e))
           /\ Responses!Receive(s, e).terminal \in {"none", Ended}
           /\ e.type # "terminal" => Responses!Receive(s, e).terminal = s.terminal
<1> DEFINE t == [s EXCEPT !.last = e.number, !.keys = @ \cup {e.number}]
<1>1. Assembled(t) /\ t.terminal = s.terminal
  BY DEF Assembled, AssemblerFields
<1>2. /\ Assembled([s EXCEPT !.error = "late"])
      /\ [s EXCEPT !.error = "late"].terminal = s.terminal
  BY DEF Assembled, AssemblerFields
<1>3. Responses!Accept(s, e) \in {"again", "late", "new"}
  <2>1. respPlan.numbered \in {"sequence", "id", "no"}
    BY DEF Responses!PlansAssumption, Responses!PlanOK
  <2> QED
    BY <2>1 DEF Responses!Accept
<1>4. Responses!Receive(s, e)
        \in {s, [s EXCEPT !.error = "late"], Responses!Apply(t, e)}
  BY <1>3 DEF Responses!Receive
<1> HIDE DEF t
<1>5. /\ Assembled(Responses!Apply(t, e))
      /\ Responses!Apply(t, e).terminal = IF e.type = "terminal" THEN Ended ELSE t.terminal
  BY <1>1, ReportKeeps, TerminalTells
<1> HIDE DEF Ended
<1> QED
  BY <1>1, <1>2, <1>4, <1>5

LEMMA ResponsesBegin ==
    ASSUME Responses!PlansAssumption PROVE Responses!ResponsesInit => ResponsesInv
<1> SUFFICES ASSUME Responses!ResponsesInit PROVE ResponsesInv
  OBVIOUS
<1> DEFINE s == Responses!Assembler
<1>1. Assembled(s) /\ s.terminal = "none"
  BY DEF Assembled, AssemblerFields, Responses!Assembler
<1>2. respA = s /\ respPlan \in Plans /\ respCur = 1 /\ respLog = <<>> /\ respOutcome = "none"
  BY DEF Responses!ResponsesInit
<1> HIDE DEF s
<1>3. respLog \in Seq({})
  BY <1>2
<1> QED
  BY <1>1, <1>2, <1>3 DEF ResponsesInv

LEMMA EndsSo ==
    ASSUME Responses!PlansAssumption, respPlan \in Plans
    PROVE  /\ Ended \in {"completed", "incomplete", "failed"}
           /\ Ended = "completed" =>
                respPlan.label = "completed" /\ respPlan.status \in {"", "completed"}
<1>1. /\ respPlan.label \in {"completed", "incomplete", "failed"}
      /\ respPlan.status \in {"", "completed", "incomplete", "failed"}
  BY PlanParts
<1> QED
  BY <1>1 DEF Ended, Responses!TerminalStatus

LEMMA FinishSays ==
    ASSUME NEW s, Assembled(s), s.terminal \in {"none", "completed", "incomplete", "failed"},
           Responses!Finish(s) = "turn"
    PROVE  s.terminal = "completed"
BY DEF Responses!Finish, Assembled

(* What the server sends keeps the invariant, whatever it sends.           *)
LEMMA SendKeeps ==
    ASSUME Responses!PlansAssumption, ResponsesInv, NEW e, Reported(e),
           Responses!Send(e), respCur' \in Nat \ {0}
    PROVE  ResponsesInv'
<1>1. /\ respPlan' = respPlan /\ respLog' = Append(respLog, e)
      /\ respA' = Responses!Receive(respA, e)
      /\ respOutcome' = IF respA'.error # "none" THEN respA'.error
                        ELSE IF e.type = "terminal" THEN Responses!Finish(respA') ELSE "none"
  BY DEF Responses!Send
<1>2. respPlan \in Plans /\ Assembled(respA) /\ respA.terminal \in {"none", Ended}
  BY DEF ResponsesInv
<1>3. Assembled(respA') /\ respA'.terminal \in {"none", Ended}
  BY <1>1, <1>2, ReceiveKeeps
<1>4. Ended' = Ended
  BY <1>1 DEF Ended, Responses!TerminalStatus
<1>5. \E S : respLog' \in Seq(S) /\ \A x \in S : Reported(x)
  <2>1. PICK S : respLog \in Seq(S) /\ \A x \in S : Reported(x)
    BY DEF ResponsesInv
  <2> DEFINE R == S \cup {e}
  <2>2. respLog \in Seq(R) /\ e \in R
    BY <2>1
  <2>3. \A x \in R : Reported(x)
    BY <2>1
  <2>4. respLog' \in Seq(R)
    BY ONLY <1>1, <2>2
  <2> QED
    BY <2>3, <2>4
<1>6. \E S : respLog' \in Seq(S) /\ \A x \in S : Reported(x)'
  <2>1. \A x : Reported(x)' <=> Reported(x)
    BY <1>1 DEF Reported
  <2> QED
    BY <1>5, <2>1
<1>7. respOutcome' = "turn" => respA'.terminal = "completed"
  <2> SUFFICES ASSUME respOutcome' = "turn" PROVE respA'.terminal = "completed"
    OBVIOUS
  <2>1. Responses!Finish(respA') = "turn"
    BY <1>1, <1>3 DEF Assembled
  <2> QED
    BY <1>2, <1>3, <2>1, EndsSo, FinishSays
<1> QED
  BY <1>1, <1>2, <1>3, <1>4, <1>6, <1>7 DEF ResponsesInv

LEMMA ResponsesNext ==
    ASSUME Responses!PlansAssumption, ResponsesInv, [Responses!Next]_respVars
    PROVE  ResponsesInv'
<1>1. CASE Responses!Open
  <2> DEFINE e == Responses!Event("added", respCur, <<>>)
  <2>1. Reported(e)
    BY DEF Reported, Responses!Event
  <2>2. Responses!Send(e) /\ respCur' = respCur
    BY <1>1 DEF Responses!Open
  <2> HIDE DEF e
  <2> QED
    BY <2>1, <2>2, SendKeeps DEF ResponsesInv
<1>2. ASSUME NEW k \in 1 .. 3, Responses!Delta(k) PROVE ResponsesInv'
  <2> DEFINE e == Responses!Event(IF Responses!Here.kind = "call" THEN "args_delta" ELSE "delta",
                      respCur, SubSeq(Responses!Here.text, respLetters + 1, respLetters + k))
  <2>1. Reported(e)
    BY DEF Reported, Responses!Event
  <2>2. Responses!Send(e) /\ respCur' = respCur
    BY <1>2 DEF Responses!Delta
  <2> HIDE DEF e
  <2> QED
    BY <2>1, <2>2, SendKeeps DEF ResponsesInv
<1>3. CASE Responses!PartDone
  <2> DEFINE e == Responses!Event(IF Responses!Here.kind = "call" THEN "args_done"
                                  ELSE "text_done", respCur, Responses!Here.text)
  <2>1. Reported(e)
    BY DEF Reported, Responses!Event
  <2>2. Responses!Send(e) /\ respCur' = respCur
    BY <1>3 DEF Responses!PartDone
  <2> HIDE DEF e
  <2> QED
    BY <2>1, <2>2, SendKeeps DEF ResponsesInv
<1>4. CASE Responses!ItemDone
  <2> DEFINE e == Responses!Event("item_done", respCur, <<>>)
  <2>1. respCur \in DOMAIN respPlan.items
    <3>1. DOMAIN respPlan.items = 1 .. Len(respPlan.items) /\ Len(respPlan.items) \in Nat
      BY PlanParts DEF ResponsesInv
    <3>2. respCur \in Nat \ {0} /\ respCur <= Len(respPlan.items)
      BY <1>4 DEF ResponsesInv, Responses!ItemDone, Responses!Reports, Responses!Items
    <3> QED
      BY <3>1, <3>2
  <2>2. Reported(e)
    BY <2>1 DEF Reported, Responses!Event
  <2>3. Responses!Send(e) /\ respCur' = respCur + 1
    BY <1>4 DEF Responses!ItemDone
  <2>4. respCur' \in Nat \ {0}
    BY <2>3 DEF ResponsesInv
  <2> HIDE DEF e
  <2> QED
    BY <2>2, <2>3, <2>4, SendKeeps
<1>5. CASE Responses!Terminal
  <2> DEFINE e == [Responses!Event("terminal", 0, <<>>) EXCEPT
                      !.label = respPlan.label, !.status = respPlan.status,
                      !.output = respPlan.output]
  <2>1. Reported(e)
    BY DEF Reported, Responses!Event
  <2>2. Responses!Send(e) /\ respCur' = respCur
    BY <1>5 DEF Responses!Terminal
  <2> HIDE DEF e
  <2> QED
    BY <2>1, <2>2, SendKeeps DEF ResponsesInv
<1>6. CASE Responses!Again
  <2>1. PICK i \in DOMAIN respLog :
            /\ respA' = Responses!Receive(respA, respLog[i])
            /\ respOutcome' = respA'.error
    BY <1>6 DEF Responses!Again
  <2>2. UNCHANGED <<respPlan, respCur, respLog>>
    BY <1>6 DEF Responses!Again
  <2>3. PICK S : respLog \in Seq(S) /\ \A x \in S : Reported(x)
    BY DEF ResponsesInv
  <2>4. respLog[i] \in S
    BY ONLY <2>1, <2>3
  <2> DEFINE e == respLog[i]
  <2>5. Reported(e)
    BY <2>3, <2>4
  <2>6. respA' = Responses!Receive(respA, e)
    BY <2>1
  <2> HIDE DEF e
  <2>7. Assembled(respA') /\ respA'.terminal \in {"none", Ended}
    BY <2>5, <2>6, ReceiveKeeps DEF ResponsesInv
  <2>8. respOutcome' # "turn"
    BY <2>1, <2>7 DEF Assembled
  <2> QED
    BY <2>2, <2>3, <2>7, <2>8
       DEF ResponsesInv, Reported, Ended, Responses!TerminalStatus
<1>7. CASE Responses!Close
  <2>1. UNCHANGED <<respPlan, respCur, respLog, respA>> /\ respOutcome' = "stream_closed"
    BY <1>7 DEF Responses!Close
  <2> QED
    BY <2>1 DEF ResponsesInv, Reported, Ended, Responses!TerminalStatus
<1>8. CASE Responses!Skip
  <2>1. UNCHANGED <<respPlan, respLog, respA, respOutcome>> /\ respCur' = respCur + 1
    BY <1>8 DEF Responses!Skip
  <2>2. respCur' \in Nat \ {0}
    BY <2>1 DEF ResponsesInv
  <2> QED
    BY <2>1, <2>2 DEF ResponsesInv, Reported, Ended, Responses!TerminalStatus
<1>9. CASE Responses!Finished \/ UNCHANGED respVars
  <2>1. UNCHANGED respVars
    BY <1>9 DEF Responses!Finished, Responses!vars, respVars
  <2> QED
    BY <2>1 DEF respVars, ResponsesInv, Reported, Ended, Responses!TerminalStatus
<1> QED
  BY <1>1, <1>2, <1>3, <1>4, <1>5, <1>6, <1>7, <1>8, <1>9 DEF Responses!Next

LEMMA ResponsesInvEnds ==
    ASSUME Responses!PlansAssumption, ResponsesInv PROVE Responses!NoTurnFromAFailure
<1> SUFFICES ASSUME respOutcome = "turn"
             PROVE  respPlan.label = "completed" /\ respPlan.status \in {"", "completed"}
  BY DEF Responses!NoTurnFromAFailure
<1>1. respPlan \in Plans /\ respA.terminal = "completed" /\ respA.terminal \in {"none", Ended}
  BY DEF ResponsesInv
<1> QED
  BY <1>1, EndsSo

-----------------------------------------------------------------------------
(* The turn made of a stream of the Chat Completions protocol.             *)

Keeping == INSTANCE Folding WITH Op <- Chat!KeepNamed
Messaging == INSTANCE Folding WITH Op <- Chat!MessageCall

(* The positions are counted up from 0.                                    *)
LEMMA KeepingCounts == Keeping!Counting
  BY NaturalsCount DEF Keeping!Counting
LEMMA MessagingCounts == Messaging!Counting
  BY NaturalsCount DEF Messaging!Counting

(* The letters of which arguments are made.                                *)
CallLetters == UNION {Chat!ToSet(chatAnswer.calls[c].args) : c \in Chat!CallNumbers}

Begun == {c \in Chat!CallNumbers : chatTold[c] >= 0}

(* A call that is told by its place, or in a message: what is there is     *)
(* what has been sent.                                                     *)
SentCall(c) ==
    [observed |-> TRUE, id |-> chatAnswer.calls[c].id, name |-> chatAnswer.calls[c].name,
     args |-> SubSeq(chatAnswer.calls[c].args, 1, chatTold[c])]

ByPlace ==
    /\ Len(chatCalls) <= Len(chatAnswer.calls)
    /\ \A c \in Chat!CallNumbers :
        /\ chatTold[c] \in -1 .. Len(chatAnswer.calls[c].args)
        /\ chatTold[c] = -1 /\ c \in DOMAIN chatCalls => chatCalls[c] = Chat!NoCall
        /\ chatTold[c] >= 0 => c \in DOMAIN chatCalls /\ chatCalls[c] = SentCall(c)

(* Calls that are told without a place come whole, and each makes a slot   *)
(* of its own, or the arguments of two are in one slot for ever.           *)
Identity(x) == [id |-> x.id, name |-> x.name, args |-> x.args]

OneEach ==
    /\ \A c \in Chat!CallNumbers : chatTold[c] \in {-1, Len(chatAnswer.calls[c].args)}
    /\ \A i \in DOMAIN chatCalls : chatCalls[i].observed
    /\ {Identity(chatCalls[i]) : i \in DOMAIN chatCalls} = {chatAnswer.calls[c] : c \in Begun}
    /\ Len(chatCalls) = Cardinality(Begun)

RunTogether ==
    \E i \in DOMAIN chatCalls :
        /\ chatCalls[i].observed
        /\ chatCalls[i].args \in Seq(CallLetters)
        /\ \E j \in 1 .. Len(chatCalls[i].args) - 1 : chatCalls[i].args[j] = "}"

ChatInv ==
    /\ chatAnswer \in Answers
    /\ chatSent \in [Chat!Channels -> Nat] /\ DOMAIN chatSaid = Chat!Channels
    /\ chatTold \in [Chat!CallNumbers -> Int]
    /\ DOMAIN chatCalls = 1 .. Len(chatCalls) /\ Len(chatCalls) \in Nat
    /\ chatReason \in Chat!Reasons
    /\ chatSent["text"] = 0 => chatSaid["text"].emitted = <<>>
    /\ chatAnswer.indexed \/ chatAnswer.whole => ByPlace
    /\ ~(chatAnswer.indexed \/ chatAnswer.whole) => OneEach \/ RunTogether
    /\ chatOutcome = "turn" =>
        /\ Chat!ReasonError = "none" /\ Chat!CallError = "none"
        /\ Chat!TurnError(chatSaid["text"].emitted, Chat!TurnCalls, Chat!ToolTerminal,
                          FALSE, FALSE) = "none"

LEMMA AnswerParts ==
    ASSUME Chat!AnswersAssumption, chatAnswer \in Answers
    PROVE  /\ chatAnswer.calls \in Seq(Chat!ToSet(chatAnswer.calls))
           /\ DOMAIN chatAnswer.calls = 1 .. Len(chatAnswer.calls)
           /\ Len(chatAnswer.calls) \in Nat
           /\ \A c \in DOMAIN chatAnswer.calls : Chat!CallOK(chatAnswer.calls[c])
           /\ chatAnswer.text \in Seq(Chat!ToSet(chatAnswer.text))
           /\ chatAnswer.reasoning \in Seq(Chat!ToSet(chatAnswer.reasoning))
           /\ chatAnswer.repeats => chatAnswer.deepseek \/ chatAnswer.gemini
           /\ chatAnswer.whole /\ chatAnswer.gemini =>
                \A i, j \in DOMAIN chatAnswer.calls :
                    i # j => chatAnswer.calls[i].id # chatAnswer.calls[j].id
<1>1. Chat!AnswerOK(chatAnswer)
  BY DEF Chat!AnswersAssumption
<1>2. chatAnswer.calls \in Seq(Chat!ToSet(chatAnswer.calls))
  BY <1>1 DEF Chat!AnswerOK
<1>3. DOMAIN chatAnswer.calls = 1 .. Len(chatAnswer.calls) /\ Len(chatAnswer.calls) \in Nat
  BY ONLY <1>2
<1>4. \A c \in DOMAIN chatAnswer.calls : Chat!CallOK(chatAnswer.calls[c])
  BY <1>1 DEF Chat!AnswerOK, Chat!ToSet
<1> QED
  BY <1>1, <1>2, <1>3, <1>4 DEF Chat!AnswerOK

(* The parts of a call of the server.                                      *)
LEMMA CallParts ==
    ASSUME Chat!AnswersAssumption, chatAnswer \in Answers,
           NEW c \in DOMAIN chatAnswer.calls
    PROVE  LET x == chatAnswer.calls[c] IN
           /\ x = [id |-> x.id, name |-> x.name, args |-> x.args]
           /\ x.id \in Seq(Chat!ToSet(x.id)) /\ x.id # Chat!Absent
           /\ x.name \in Seq(Chat!ToSet(x.name)) /\ x.name # Chat!Absent
           /\ x.args \in Seq(CallLetters \ {"absent"})
           /\ Len(x.args) \in Nat \ {0}
           /\ x.args[Len(x.args)] = "}"
           /\ \A i \in 1 .. Len(x.args) - 1 : x.args[i] # "}"
<1> DEFINE x == chatAnswer.calls[c]
<1>1. Chat!CallOK(x)
  BY AnswerParts
<1>2. x.args \in Seq(Chat!ToSet(x.args) \ Chat!ToSet(Chat!Absent)) /\ Chat!IsObject(x.args)
  BY <1>1 DEF Chat!CallOK
<1>3. "absent" \in Chat!ToSet(Chat!Absent)
  BY DEF Chat!ToSet, Chat!Absent
<1>4. Chat!ToSet(x.args) \subseteq CallLetters
  BY DEF CallLetters, Chat!CallNumbers
<1>5. Chat!ToSet(x.args) \ Chat!ToSet(Chat!Absent) \subseteq CallLetters \ {"absent"}
  BY <1>3, <1>4
<1> DEFINE S == Chat!ToSet(x.args) \ Chat!ToSet(Chat!Absent)
<1>6. x.args \in Seq(CallLetters \ {"absent"})
  <2> HIDE DEF x
  <2> QED
    BY <1>2, <1>5, SeqMonotonic
<1>7. x.args # <<>> /\ Len(x.args) \in Nat \ {0}
  <2>1. x.args # <<>>
    BY <1>2 DEF Chat!IsObject
  <2> HIDE DEF x
  <2> QED
    BY <1>6, <2>1, EmptySeq
<1>8. x.args[Len(x.args)] = "}" /\ \A i \in 1 .. Len(x.args) - 1 : x.args[i] # "}"
  BY <1>2 DEF Chat!IsObject, Chat!Last
<1> QED
  BY <1>1, <1>6, <1>7, <1>8 DEF Chat!CallOK, Chat!IsWord

(* A piece of the arguments continues what was sent of them, and is never  *)
(* taken for a field that is not there.                                    *)
LEMMA PieceContinues ==
    ASSUME Chat!AnswersAssumption, chatAnswer \in Answers,
           NEW c \in DOMAIN chatAnswer.calls,
           NEW from \in Nat, NEW to \in Nat, from <= to,
           to <= Len(chatAnswer.calls[c].args)
    PROVE  LET args == chatAnswer.calls[c].args IN
           /\ SubSeq(args, from + 1, to) \in Seq(CallLetters)
           /\ SubSeq(args, from + 1, to) # Chat!Absent
           /\ SubSeq(args, 1, from) \o SubSeq(args, from + 1, to) = SubSeq(args, 1, to)
<1> DEFINE args == chatAnswer.calls[c].args
           S == CallLetters \ {"absent"}
<1>1. args \in Seq(S) /\ Len(args) \in Nat
  BY CallParts
<1> HIDE DEF args
<1>2. SubSeq(args, from + 1, to) \in Seq(S)
  <2>1. \A i \in from + 1 .. to : args[i] \in S
    BY <1>1 DEF args
  <2> QED
    BY ONLY <2>1, SubSeqProperties, from \in Nat, to \in Nat
<1>3. SubSeq(args, from + 1, to) \in Seq(CallLetters)
  BY <1>2, SeqMonotonic
<1>4. SubSeq(args, from + 1, to) # Chat!Absent
  <2> DEFINE piece == SubSeq(args, from + 1, to)
  <2> SUFFICES ASSUME piece = <<"absent">> PROVE FALSE
    BY DEF Chat!Absent
  <2>1. piece \in Seq(S)
    BY <1>2
  <2> HIDE DEF piece
  <2>2. Len(piece) = 1 /\ piece[1] = "absent"
    OBVIOUS
  <2> HIDE DEF S
  <2>3. 1 \in 1 .. Len(piece) /\ piece \in [1 .. Len(piece) -> S]
    BY ONLY <2>1, <2>2, LenProperties
  <2>4. piece[1] \in S
    BY ONLY <2>3
  <2> QED
    BY <2>2, <2>4 DEF S
<1>5. SubSeq(args, 1, from) \o SubSeq(args, from + 1, to) = SubSeq(args, 1, to)
  <2>1. 1 \in 1 .. Len(args) + 1 /\ from \in 1 - 1 .. Len(args) /\ to \in from .. Len(args)
    <3> DEFINE t == Len(args)
    <3>1. t \in Nat /\ to <= t
      BY <1>1 DEF args
    <3> HIDE DEF t
    <3>2. 1 \in 1 .. t + 1 /\ from \in 1 - 1 .. t /\ to \in from .. t
      BY ONLY <3>1, from \in Nat, to \in Nat, from <= to
    <3> QED
      BY <3>2 DEF t
  <2> QED
    BY ONLY <1>1, <2>1, ConcatAdjacentSubSeq
<1> QED
  BY <1>3, <1>4, <1>5 DEF args

(* What a delta makes of the slot it is for.                               *)
MergedCall(old, d, snapshot, replace) ==
    [observed |-> TRUE,
     id |-> Chat!Merge(old.id, d.id, snapshot \/ replace),
     name |-> Chat!Merge(old.name, d.name, snapshot \/ replace),
     args |-> Chat!Merge(old.args, d.args, snapshot)]

(* What a delta makes of the calls: one slot is another, and those before  *)
(* it are there.                                                           *)
LEMMA DeltaTakes ==
    ASSUME NEW cs, DOMAIN cs = 1 .. Len(cs), Len(cs) \in Nat,
           NEW d, NEW position, NEW snapshot, NEW replace, NEW gemini,
           NEW i \in Nat \ {0}, Chat!CallIndex(cs, d, position, gemini) = i,
           NEW after, after = Chat!ApplyCallDelta(cs, d, position, snapshot, replace, gemini)
    PROVE  /\ DOMAIN after = 1 .. Len(after)
           /\ Len(after) = IF i > Len(cs) THEN i ELSE Len(cs)
           /\ after[i] = MergedCall(IF i \in DOMAIN cs THEN cs[i] ELSE Chat!NoCall,
                                    d, snapshot, replace)
           /\ \A j \in DOMAIN after :
                j # i => after[j] = IF j \in DOMAIN cs THEN cs[j] ELSE Chat!NoCall
<1> DEFINE old == IF i \in DOMAIN cs THEN cs[i] ELSE Chat!NoCall
           n == IF i > Len(cs) THEN i ELSE Len(cs)
           new == MergedCall(old, d, snapshot, replace)
           f == [j \in 1 .. n |-> IF j = i THEN new
                                  ELSE IF j \in DOMAIN cs THEN cs[j] ELSE Chat!NoCall]
<1>1. Chat!ApplyCallDelta(cs, d, position, snapshot, replace, gemini) = f
  BY DEF Chat!ApplyCallDelta, MergedCall
<1>2. n \in Nat /\ i \in 1 .. n /\ n = IF i > Len(cs) THEN i ELSE Len(cs)
  BY ONLY i \in Nat \ {0}, Len(cs) \in Nat
<1> HIDE DEF old, new, n
<1>3. DOMAIN f = 1 .. n /\ f[i] = new
  <2>1. DOMAIN f = 1 .. n
    BY ONLY Zenon
  <2>2. f[i] = new
    BY ONLY <1>2, Zenon
  <2> QED
    BY ONLY <2>1, <2>2
<1>4. \A j \in 1 .. n : j # i => f[j] = IF j \in DOMAIN cs THEN cs[j] ELSE Chat!NoCall
  BY ONLY Zenon
<1>5. Len(f) = n
  <2> DEFINE R == {f[j] : j \in 1 .. n}
  <2>1. f \in [1 .. n -> R]
    OBVIOUS
  <2> HIDE DEF f, R
  <2>2. f \in Seq(R)
    BY ONLY <1>2, <2>1, SeqDef
  <2>3. DOMAIN f = 1 .. Len(f) /\ Len(f) \in Nat
    BY ONLY <2>2, LenProperties
  <2> QED
    BY ONLY <1>2, <1>3, <2>3
<1> HIDE DEF f
<1> QED
  BY <1>1, <1>2, <1>3, <1>4, <1>5, Zenon DEF old, new

(* A field that is told again is the same, and one that is not stays.      *)
LEMMA MergeIs ==
    ASSUME NEW old, NEW new, NEW replace
    PROVE  /\ new = Chat!Absent => Chat!Merge(old, new, replace) = old
           /\ new # Chat!Absent /\ replace => Chat!Merge(old, new, replace) = new
           /\ new # Chat!Absent /\ ~replace => Chat!Merge(old, new, replace) = old \o new
           /\ \A S : new \in Seq(S) /\ new # Chat!Absent /\ old = <<>>
                    => Chat!Merge(old, new, replace) = new
<1>1. \A S : new \in Seq(S) => <<>> \o new = new
  BY ConcatEmptySeq
<1> QED
  BY <1>1 DEF Chat!Merge

LEMMA TellByPlace ==
    ASSUME Chat!AnswersAssumption, ChatInv, chatAnswer.indexed,
           NEW c \in DOMAIN chatAnswer.calls, NEW k \in Nat, Chat!Tell(c, k)
    PROVE  ByPlace' /\ DOMAIN chatCalls' = 1 .. Len(chatCalls') /\ Len(chatCalls') \in Nat
<1> DEFINE x == chatAnswer.calls[c]
           from == IF chatTold[c] = -1 THEN 0 ELSE chatTold[c]
           to == from + k
           d == Chat!DeltaOf(c, from, to)
           snapshot == FALSE
           replace == Chat!Contract.replace
           gemini == Chat!Contract.gemini
           old == IF c \in DOMAIN chatCalls THEN chatCalls[c] ELSE Chat!NoCall
<1>1. /\ UNCHANGED chatAnswer
      /\ chatTold' = [chatTold EXCEPT ![c] = to]
      /\ to <= Len(x.args)
      /\ chatCalls' = Chat!ApplyCallDelta(chatCalls, d, 0, snapshot, replace, gemini)
  BY DEF Chat!Tell
<1>2. /\ chatAnswer \in Answers /\ ByPlace
      /\ chatTold \in [DOMAIN chatAnswer.calls -> Int]
      /\ DOMAIN chatCalls = 1 .. Len(chatCalls) /\ Len(chatCalls) \in Nat
  BY DEF ChatInv, Chat!CallNumbers
<1>3. /\ DOMAIN chatAnswer.calls = 1 .. Len(chatAnswer.calls) /\ Len(chatAnswer.calls) \in Nat
      /\ chatAnswer.repeats => replace
  BY <1>2, AnswerParts DEF Chat!Contract
<1>4. /\ x.id \in Seq(Chat!ToSet(x.id)) /\ x.id # Chat!Absent
      /\ x.name \in Seq(Chat!ToSet(x.name)) /\ x.name # Chat!Absent
      /\ Len(x.args) \in Nat
  BY <1>2, CallParts
<1>5. /\ chatTold[c] \in -1 .. Len(x.args)
      /\ chatTold[c] = -1 => old = Chat!NoCall
      /\ chatTold[c] >= 0 => old = SentCall(c)
  BY <1>2 DEF ByPlace, Chat!CallNumbers
<1>6. from \in Nat /\ to \in Nat /\ from <= to
  BY <1>4, <1>5
<1>7. /\ d.index = c - 1
      /\ chatTold[c] = -1 \/ chatAnswer.repeats => d.id = x.id /\ d.name = x.name
      /\ ~(chatTold[c] = -1 \/ chatAnswer.repeats) => d.id = Chat!Absent /\ d.name = Chat!Absent
      /\ d.args = SubSeq(x.args, from + 1, to)
  BY DEF Chat!DeltaOf
<1>8. /\ d.args \in Seq(CallLetters) /\ d.args # Chat!Absent
      /\ SubSeq(x.args, 1, from) \o d.args = SubSeq(x.args, 1, to)
  <2>1. to <= Len(x.args) /\ chatAnswer \in Answers
    BY <1>1, <1>2
  <2>2. d.args = SubSeq(x.args, from + 1, to)
    BY <1>7
  <2> HIDE DEF from, to, d
  <2>3. /\ SubSeq(x.args, from + 1, to) \in Seq(CallLetters)
        /\ SubSeq(x.args, from + 1, to) # Chat!Absent
        /\ SubSeq(x.args, 1, from) \o SubSeq(x.args, from + 1, to) = SubSeq(x.args, 1, to)
    BY <1>6, <2>1, PieceContinues
  <2> QED
    BY <2>2, <2>3
<1>9. Chat!CallIndex(chatCalls, d, 0, gemini) = c /\ c \in Nat \ {0}
  <2>1. c \in Nat \ {0} /\ c - 1 # -1 /\ (c - 1) + 1 = c
    BY <1>3
  <2> HIDE DEF d
  <2> QED
    BY <1>7, <2>1 DEF Chat!CallIndex, Chat!NoIndex
<1> HIDE DEF d, gemini, snapshot
<1>10. /\ DOMAIN chatCalls' = 1 .. Len(chatCalls')
       /\ Len(chatCalls') = IF c > Len(chatCalls) THEN c ELSE Len(chatCalls)
       /\ chatCalls'[c] = MergedCall(old, d, snapshot, replace)
       /\ \A j \in DOMAIN chatCalls' :
            j # c => chatCalls'[j] = IF j \in DOMAIN chatCalls THEN chatCalls[j] ELSE Chat!NoCall
  <2> DEFINE position == 0
  <2>1. chatCalls' = Chat!ApplyCallDelta(chatCalls, d, position, snapshot, replace, gemini)
    BY <1>1
  <2>2. Chat!CallIndex(chatCalls, d, position, gemini) = c
    BY <1>9
  <2> HIDE DEF replace, position
  <2> QED
    BY <1>2, <1>9, <2>1, <2>2, DeltaTakes
<1>11. chatCalls'[c] = [observed |-> TRUE, id |-> x.id, name |-> x.name,
                        args |-> SubSeq(x.args, 1, to)]
  <2> DEFINE both == snapshot \/ replace
  <2>1. CASE chatTold[c] = -1
    <3>1. old.id = <<>> /\ old.name = <<>> /\ old.args = <<>>
      BY <1>5, <2>1 DEF Chat!NoCall
    <3>2. d.id = x.id /\ d.name = x.name
      BY <1>7, <2>1
    <3>3. d.args = SubSeq(x.args, 1, to)
      BY <1>7, <2>1
    <3> HIDE DEF x, old, to, both, snapshot
    <3>4. Chat!Merge(old.id, d.id, both) = x.id /\ Chat!Merge(old.name, d.name, both) = x.name
      BY <1>4, <3>1, <3>2, MergeIs
    <3>5. Chat!Merge(old.args, d.args, snapshot) = d.args
      BY <1>8, <3>1, MergeIs
    <3> QED
      BY <1>10, <3>3, <3>4, <3>5 DEF both, MergedCall
  <2>2. CASE chatTold[c] >= 0
    <3>1. /\ old.id = x.id /\ old.name = x.name
          /\ old.args = SubSeq(x.args, 1, from)
      BY <1>5, <2>2 DEF SentCall
    <3>2. /\ chatAnswer.repeats => d.id = x.id /\ d.name = x.name
          /\ ~chatAnswer.repeats => d.id = Chat!Absent /\ d.name = Chat!Absent
      BY <1>5, <1>7, <2>2
    <3>3. chatAnswer.repeats => both
      BY <1>3
    <3> HIDE DEF x, old, to, from, both, snapshot
    <3>4. Chat!Merge(old.id, d.id, both) = x.id /\ Chat!Merge(old.name, d.name, both) = x.name
      BY <1>4, <3>1, <3>2, <3>3, MergeIs
    <3>5. Chat!Merge(old.args, d.args, snapshot) = old.args \o d.args
      BY <1>8 DEF snapshot, Chat!Merge
    <3> QED
      BY <1>8, <1>10, <3>1, <3>4, <3>5 DEF both, MergedCall
  <2> QED
    BY <1>5, <2>1, <2>2
<1>12. chatTold'[c] = to /\ to \in 0 .. Len(x.args) /\ \A e \in DOMAIN chatAnswer.calls : e # c => chatTold'[e] = chatTold[e]
  <2> HIDE DEF to
  <2> QED
    BY <1>1, <1>2, <1>4, <1>6
<1>13. Len(chatCalls') <= Len(chatAnswer.calls) /\ Len(chatCalls') \in Nat
       /\ c \in DOMAIN chatCalls'
       /\ DOMAIN chatCalls \subseteq DOMAIN chatCalls'
  <2>1. Len(chatCalls) <= Len(chatAnswer.calls)
    BY <1>2 DEF ByPlace
  <2>2. c \in 1 .. Len(chatAnswer.calls)
    BY <1>3
  <2> QED
    BY ONLY <1>2, <1>3, <1>10, <2>1, <2>2
<1> HIDE DEF to, x, from
<1>14. ASSUME NEW e \in DOMAIN chatAnswer.calls
       PROVE  /\ chatTold'[e] \in -1 .. Len(chatAnswer.calls[e].args)
              /\ chatTold'[e] = -1 /\ e \in DOMAIN chatCalls' => chatCalls'[e] = Chat!NoCall
              /\ chatTold'[e] >= 0 =>
                    /\ e \in DOMAIN chatCalls'
                    /\ chatCalls'[e] = [observed |-> TRUE, id |-> chatAnswer.calls[e].id,
                                        name |-> chatAnswer.calls[e].name,
                                        args |-> SubSeq(chatAnswer.calls[e].args, 1, chatTold'[e])]
  <2>1. CASE e = c
    <3>1. chatTold'[e] \in -1 .. Len(chatAnswer.calls[e].args) /\ chatTold'[e] # -1
      BY <1>12, <1>4, <2>1 DEF x
    <3> QED
      BY <1>11, <1>12, <1>13, <2>1, <3>1 DEF x
  <2>2. CASE e # c
    <3>1. /\ chatTold[e] \in -1 .. Len(chatAnswer.calls[e].args)
          /\ chatTold[e] = -1 /\ e \in DOMAIN chatCalls => chatCalls[e] = Chat!NoCall
          /\ chatTold[e] >= 0 => e \in DOMAIN chatCalls /\ chatCalls[e] = SentCall(e)
      BY <1>2 DEF ByPlace, Chat!CallNumbers
    <3>2. chatTold'[e] = chatTold[e]
      BY <1>12, <2>2
    <3>3. e \in DOMAIN chatCalls' =>
            chatCalls'[e] = IF e \in DOMAIN chatCalls THEN chatCalls[e] ELSE Chat!NoCall
      BY <1>10, <2>2
    <3> QED
      BY <1>13, <3>1, <3>2, <3>3 DEF SentCall
  <2> QED
    BY <2>1, <2>2
<1> QED
  BY <1>1, <1>10, <1>13, <1>14 DEF ByPlace, SentCall, Chat!CallNumbers

(* Two arguments in one slot: the first "}" is not the last letter.        *)
LEMMA TwoInOne ==
    ASSUME NEW p \in Seq(CallLetters), NEW q \in Seq(CallLetters), q # <<>>,
           NEW j \in 1 .. Len(p), p[j] = "}"
    PROVE  /\ p \o q \in Seq(CallLetters)
           /\ \E e \in 1 .. Len(p \o q) - 1 : (p \o q)[e] = "}"
<1>1. /\ p \o q \in Seq(CallLetters)
      /\ Len(p \o q) = Len(p) + Len(q)
      /\ \A e \in 1 .. Len(p) + Len(q) :
            (p \o q)[e] = IF e <= Len(p) THEN p[e] ELSE q[e - Len(p)]
  BY ConcatProperties
<1>2. Len(p) \in Nat
  BY LenProperties
<1>3. Len(q) \in Nat \ {0}
  BY EmptySeq
<1>4. j \in 1 .. Len(p) + Len(q) /\ j <= Len(p) /\ j \in 1 .. (Len(p) + Len(q)) - 1
  BY ONLY <1>2, <1>3, j \in 1 .. Len(p)
<1> QED
  BY <1>1, <1>4

LEMMA BegunFinite ==
    ASSUME Chat!AnswersAssumption, chatAnswer \in Answers
    PROVE  IsFiniteSet(Begun)
<1>1. DOMAIN chatAnswer.calls = 1 .. Len(chatAnswer.calls) /\ Len(chatAnswer.calls) \in Nat
  BY AnswerParts
<1>2. IsFiniteSet(1 .. Len(chatAnswer.calls))
  <2>1. 1 \in Int /\ Len(chatAnswer.calls) \in Int
    BY <1>1
  <2> QED
    BY <2>1, FS_Interval
<1>3. Begun \in SUBSET (1 .. Len(chatAnswer.calls))
  BY <1>1 DEF Begun, Chat!CallNumbers
<1> QED
  BY <1>2, <1>3, FS_Subset

LEMMA PlaceFound ==
    ASSUME NEW cs, DOMAIN cs = 1 .. Len(cs), Len(cs) \in Nat,
           NEW d, d.index = Chat!NoIndex, NEW gemini
    PROVE  Chat!CallIndex(cs, d, 0, gemini) \in 1 .. Len(cs) + 1
<1> DEFINE known == {i \in DOMAIN cs : cs[i].id = d.id}
           least == CHOOSE i \in known : \A j \in known : i <= j
<1>1. \/ known # {} /\ Chat!CallIndex(cs, d, 0, gemini) = least
      \/ 0 < Len(cs) /\ Chat!CallIndex(cs, d, 0, gemini) = 1
      \/ Chat!CallIndex(cs, d, 0, gemini) = Len(cs) + 1
  <2>1. CASE gemini /\ d.id \notin {Chat!Absent, <<>>}
    BY <2>1 DEF Chat!CallIndex
  <2>2. CASE ~(gemini /\ d.id \notin {Chat!Absent, <<>>}) /\ 0 < Len(cs)
    BY <2>2 DEF Chat!CallIndex
  <2>3. CASE ~(gemini /\ d.id \notin {Chat!Absent, <<>>}) /\ ~(0 < Len(cs))
    BY <2>3 DEF Chat!CallIndex
  <2> QED
    BY <2>1, <2>2, <2>3
<1>2. known # {} => least \in known
  <2> SUFFICES ASSUME known # {} PROVE \E i \in known : \A j \in known : i <= j
    OBVIOUS
  <2>1. known \in SUBSET Nat
    OBVIOUS
  <2> HIDE DEF known
  <2> QED
    BY <2>1, LeastNumber
<1>3. known \subseteq 1 .. Len(cs)
  OBVIOUS
<1> HIDE DEF known, least
<1> DEFINE index == Chat!CallIndex(cs, d, 0, gemini)
<1>4. index \in known \/ (0 < Len(cs) /\ index = 1) \/ index = Len(cs) + 1
  BY <1>1, <1>2
<1> HIDE DEF index
<1>5. index \in 1 .. Len(cs) + 1
  <2>1. \A m \in Nat : 1 \in 1 .. m + 1 /\ m + 1 \in 1 .. m + 1 /\ 1 .. m \subseteq 1 .. m + 1
    OBVIOUS
  <2> QED
    BY <1>3, <1>4, <2>1
<1> QED
  BY <1>5 DEF index

LEMMA TellTogether ==
    ASSUME Chat!AnswersAssumption, ChatInv, ~chatAnswer.indexed, ~chatAnswer.whole,
           NEW c \in DOMAIN chatAnswer.calls, NEW k \in Nat, Chat!Tell(c, k)
    PROVE  /\ OneEach' \/ RunTogether'
           /\ DOMAIN chatCalls' = 1 .. Len(chatCalls') /\ Len(chatCalls') \in Nat
<1> DEFINE x == chatAnswer.calls[c]
           n == Len(chatCalls)
           position == 0
           d == Chat!DeltaOf(c, position, Len(x.args))
           snapshot == FALSE
           replace == Chat!Contract.replace
           gemini == Chat!Contract.gemini
           i == Chat!CallIndex(chatCalls, d, position, gemini)
           old == IF i \in DOMAIN chatCalls THEN chatCalls[i] ELSE Chat!NoCall
<1>1. /\ UNCHANGED chatAnswer
      /\ chatTold[c] = -1 /\ chatTold' = [chatTold EXCEPT ![c] = Len(x.args)]
      /\ chatCalls' = Chat!ApplyCallDelta(chatCalls, d, position, snapshot, replace, gemini)
  BY DEF Chat!Tell
<1>2. /\ chatAnswer \in Answers
      /\ OneEach \/ RunTogether
      /\ chatTold \in [DOMAIN chatAnswer.calls -> Int]
      /\ DOMAIN chatCalls = 1 .. n /\ n \in Nat
  BY DEF ChatInv, Chat!CallNumbers
<1>3. /\ x = [id |-> x.id, name |-> x.name, args |-> x.args]
      /\ x.id \in Seq(Chat!ToSet(x.id)) /\ x.id # Chat!Absent
      /\ x.name \in Seq(Chat!ToSet(x.name)) /\ x.name # Chat!Absent
      /\ x.args \in Seq(CallLetters \ {"absent"}) /\ Len(x.args) \in Nat \ {0}
  <2>1. chatAnswer \in Answers
    BY <1>2
  <2>2. x = [id |-> x.id, name |-> x.name, args |-> x.args]
    BY <2>1, CallParts
  <2>3. x.id \in Seq(Chat!ToSet(x.id)) /\ x.id # Chat!Absent
    BY <2>1, CallParts
  <2>4. x.name \in Seq(Chat!ToSet(x.name)) /\ x.name # Chat!Absent
    BY <2>1, CallParts
  <2>5. x.args \in Seq(CallLetters \ {"absent"}) /\ Len(x.args) \in Nat \ {0}
    BY <2>1, CallParts
  <2> QED
    BY <2>2, <2>3, <2>4, <2>5
<1>4. x.args \in Seq(CallLetters) /\ x.args # <<>> /\ x.args # Chat!Absent
  <2>1. SubSeq(x.args, 1, Len(x.args)) = x.args
    BY <1>3, SubSeqFull
  <2>2. SubSeq(x.args, 0 + 1, Len(x.args)) # Chat!Absent
    <3> DEFINE from == 0
               to == Len(x.args)
    <3>1. from \in Nat /\ to \in Nat /\ from <= to /\ to <= Len(x.args)
      BY <1>3
    <3>2. chatAnswer \in Answers
      BY <1>2
    <3> HIDE DEF from, to
    <3>3. SubSeq(x.args, from + 1, to) # Chat!Absent
      BY <3>1, <3>2, PieceContinues
    <3> QED
      BY <3>3 DEF from, to
  <2>3. x.args \in Seq(CallLetters)
    BY <1>3, SeqMonotonic
  <2>4. x.args # <<>>
    BY <1>3, EmptySeq
  <2> QED
    BY <2>1, <2>2, <2>3, <2>4
<1>5. /\ d.index = Chat!NoIndex /\ d.id = x.id /\ d.name = x.name
      /\ d.args = x.args
  <2>1. d.args = SubSeq(x.args, 0 + 1, Len(x.args))
    BY DEF Chat!DeltaOf
  <2>2. SubSeq(x.args, 1, Len(x.args)) = x.args
    BY <1>3, SubSeqFull
  <2> QED
    BY <1>1, <2>1, <2>2 DEF Chat!DeltaOf
<1> HIDE DEF d, x, snapshot, replace, gemini
<1>6. i \in 1 .. n + 1 /\ i \in Nat \ {0}
  BY <1>2, <1>5, PlaceFound
<1> HIDE DEF i
<1>7. /\ DOMAIN chatCalls' = 1 .. Len(chatCalls')
      /\ Len(chatCalls') = IF i > n THEN i ELSE n
      /\ chatCalls'[i] = MergedCall(old, d, snapshot, replace)
      /\ \A j \in DOMAIN chatCalls' :
           j # i => chatCalls'[j] = IF j \in DOMAIN chatCalls THEN chatCalls[j] ELSE Chat!NoCall
  <2> HIDE DEF position
  <2> QED
    BY <1>1, <1>2, <1>6, DeltaTakes DEF i
<1>8. Len(chatCalls') \in Nat /\ i \in DOMAIN chatCalls' /\ 1 .. n \subseteq DOMAIN chatCalls'
  BY ONLY <1>2, <1>6, <1>7
<1>9. /\ chatCalls'[i].observed
      /\ chatCalls'[i].args = old.args \o x.args
  <2>1. d.args = x.args /\ x.args # Chat!Absent
    BY <1>4, <1>5
  <2>2. /\ MergedCall(old, d, snapshot, replace).observed
        /\ MergedCall(old, d, snapshot, replace).args = Chat!Merge(old.args, d.args, snapshot)
    BY DEF MergedCall
  <2>3. Chat!Merge(old.args, d.args, snapshot) = old.args \o x.args
    BY <2>1 DEF Chat!Merge, snapshot
  <2> QED
    BY <1>7, <2>2, <2>3
<1>10. CASE RunTogether
  <2>1. PICK s \in DOMAIN chatCalls :
            /\ chatCalls[s].observed /\ chatCalls[s].args \in Seq(CallLetters)
            /\ \E j \in 1 .. Len(chatCalls[s].args) - 1 : chatCalls[s].args[j] = "}"
    BY <1>10 DEF RunTogether
  <2>2. s \in DOMAIN chatCalls'
    BY <1>2, <1>8, <2>1
  <2>3. /\ chatCalls'[s].observed /\ chatCalls'[s].args \in Seq(CallLetters)
        /\ \E j \in 1 .. Len(chatCalls'[s].args) - 1 : chatCalls'[s].args[j] = "}"
    <3>1. CASE s = i
      <4> DEFINE p == chatCalls[s].args
      <4>1. PICK j \in 1 .. Len(p) - 1 : p[j] = "}"
        BY <2>1
      <4>2. p \in Seq(CallLetters) /\ chatCalls'[s].args = p \o x.args
        BY <1>9, <2>1, <3>1
      <4> HIDE DEF p
      <4>3. j \in 1 .. Len(p)
        <5>1. Len(p) \in Nat
          BY <4>2, LenProperties
        <5>2. \A m \in Nat : \A e \in 1 .. m - 1 : e \in 1 .. m
          OBVIOUS
        <5> QED
          BY <4>1, <5>1, <5>2
      <4>4. /\ p \o x.args \in Seq(CallLetters)
            /\ \E e \in 1 .. Len(p \o x.args) - 1 : (p \o x.args)[e] = "}"
        BY <1>4, <4>1, <4>2, <4>3, TwoInOne
      <4> QED
        BY <1>9, <3>1, <4>2, <4>4
    <3>2. CASE s # i
      <4>1. chatCalls'[s] = chatCalls[s]
        BY <1>7, <2>1, <2>2, <3>2
      <4> QED
        BY <2>1, <4>1
    <3> QED
      BY <3>1, <3>2
  <2>4. CallLetters' = CallLetters
    BY <1>1 DEF CallLetters, Chat!CallNumbers
  <2>5. RunTogether'
    BY <2>2, <2>3, <2>4 DEF RunTogether
  <2> QED
    BY <1>7, <1>8, <2>5
<1>11. CASE OneEach /\ i \in DOMAIN chatCalls
  <2>1. Identity(chatCalls[i]) \in {chatAnswer.calls[e] : e \in Begun}
    BY <1>11 DEF OneEach
  <2>2. PICK e \in DOMAIN chatAnswer.calls : Identity(chatCalls[i]) = chatAnswer.calls[e]
    BY <2>1 DEF Begun, Chat!CallNumbers
  <2> DEFINE p == chatAnswer.calls[e].args
  <2>3. old.args = p
    BY <1>11, <2>2 DEF Identity
  <2>4. p \in Seq(CallLetters \ {"absent"}) /\ Len(p) \in Nat \ {0} /\ p[Len(p)] = "}"
    <3>1. chatAnswer \in Answers
      BY <1>2
    <3>2. p \in Seq(CallLetters \ {"absent"})
      BY <3>1, CallParts
    <3>3. Len(p) \in Nat \ {0} /\ p[Len(p)] = "}"
      BY <3>1, CallParts
    <3> QED
      BY <3>2, <3>3
  <2> HIDE DEF p
  <2>5. p \in Seq(CallLetters) /\ Len(p) \in 1 .. Len(p)
    <3>1. p \in Seq(CallLetters)
      BY <2>4, SeqMonotonic
    <3>2. \A m \in Nat \ {0} : m \in 1 .. m
      OBVIOUS
    <3> QED
      BY <2>4, <3>1, <3>2
  <2>6. /\ p \o x.args \in Seq(CallLetters)
        /\ \E j \in 1 .. Len(p \o x.args) - 1 : (p \o x.args)[j] = "}"
    BY <1>4, <2>4, <2>5, TwoInOne
  <2>7. CallLetters' = CallLetters
    BY <1>1 DEF CallLetters, Chat!CallNumbers
  <2> HIDE DEF old
  <2>8. RunTogether'
    BY <1>8, <1>9, <2>3, <2>6, <2>7 DEF RunTogether
  <2> QED
    BY <1>7, <1>8, <2>8
<1>12. CASE OneEach /\ i \notin DOMAIN chatCalls
  <2>1. i = n + 1 /\ Len(chatCalls') = n + 1 /\ DOMAIN chatCalls' = (1 .. n) \cup {i}
    <3>1. i = n + 1
      BY ONLY <1>2, <1>6, <1>12
    <3>2. Len(chatCalls') = n + 1
      BY ONLY <1>2, <1>7, <3>1
    <3> QED
      BY ONLY <1>2, <1>7, <3>1, <3>2
  <2>2. Identity(chatCalls'[i]) = x
    <3> DEFINE both == snapshot \/ replace
    <3>1. old.id = <<>> /\ old.name = <<>> /\ old.args = <<>>
      BY <1>12 DEF Chat!NoCall
    <3> HIDE DEF old, both
    <3>2. Chat!Merge(old.id, d.id, both) = x.id /\ Chat!Merge(old.name, d.name, both) = x.name
      BY <1>3, <1>5, <3>1, MergeIs
    <3>3. Chat!Merge(old.args, d.args, snapshot) = x.args
      BY <1>4, <1>5, <3>1, MergeIs
    <3> QED
      BY <1>3, <1>7, <3>2, <3>3 DEF both, MergedCall, Identity
  <2>3. \A j \in 1 .. n : chatCalls'[j] = chatCalls[j]
    BY <1>2, <1>7, <1>12, <2>1
  <2>4. {Identity(chatCalls'[j]) : j \in DOMAIN chatCalls'}
            = {Identity(chatCalls[j]) : j \in DOMAIN chatCalls} \cup {x}
    <3> HIDE DEF n
    <3> QED
      BY <1>2, <2>1, <2>2, <2>3
  <2>5. Begun' = Begun \cup {c} /\ c \notin Begun
    BY <1>1, <1>2, <1>3 DEF Begun, Chat!CallNumbers
  <2>6. {chatAnswer.calls[e] : e \in Begun'} = {chatAnswer.calls[e] : e \in Begun} \cup {x}
    BY <2>5 DEF x
  <2>7. Cardinality(Begun') = Cardinality(Begun) + 1
    <3>1. IsFiniteSet(Begun)
      BY <1>2, BegunFinite
    <3> QED
      BY ONLY <2>5, <3>1, FS_AddElement
  <2>8. /\ \A e \in DOMAIN chatAnswer.calls : chatTold[e] \in {-1, Len(chatAnswer.calls[e].args)}
        /\ \A j \in DOMAIN chatCalls : chatCalls[j].observed
        /\ {Identity(chatCalls[j]) : j \in DOMAIN chatCalls} = {chatAnswer.calls[e] : e \in Begun}
        /\ n = Cardinality(Begun)
    BY <1>12 DEF OneEach, Chat!CallNumbers
  <2>9. \A e \in DOMAIN chatAnswer.calls : chatTold'[e] \in {-1, Len(chatAnswer.calls[e].args)}
    BY <1>1, <1>2, <2>8 DEF x
  <2>10. \A j \in DOMAIN chatCalls' : chatCalls'[j].observed
    BY <1>2, <1>9, <2>1, <2>3, <2>8
  <2>11. OneEach'
    <3>1. {Identity(chatCalls'[j]) : j \in DOMAIN chatCalls'} = {chatAnswer.calls[e] : e \in Begun'}
      BY <2>4, <2>6, <2>8
    <3>2. Len(chatCalls') = Cardinality(Begun')
      BY <2>1, <2>7, <2>8
    <3>3. chatAnswer' = chatAnswer
      BY <1>1
    <3> QED
      BY <2>9, <2>10, <3>1, <3>2, <3>3 DEF OneEach, Identity, Chat!CallNumbers
  <2> QED
    BY <1>7, <1>8, <2>11
<1> QED
  BY <1>2, <1>10, <1>11, <1>12

-----------------------------------------------------------------------------
(* A message has all its calls, each at its place.                         *)

WholeCall(c) ==
    [observed |-> TRUE, id |-> chatAnswer.calls[c].id, name |-> chatAnswer.calls[c].name,
     args |-> chatAnswer.calls[c].args]

LEMMA WholePiece ==
    ASSUME Chat!AnswersAssumption, chatAnswer \in Answers,
           NEW c \in DOMAIN chatAnswer.calls
    PROVE  /\ SubSeq(chatAnswer.calls[c].args, 1, Len(chatAnswer.calls[c].args))
                = chatAnswer.calls[c].args
           /\ chatAnswer.calls[c].args # Chat!Absent
<1> DEFINE args == chatAnswer.calls[c].args
           from == 0
           to == Len(args)
<1>1. args \in Seq(CallLetters \ {"absent"}) /\ Len(args) \in Nat \ {0}
  <2>1. args \in Seq(CallLetters \ {"absent"})
    BY CallParts
  <2>2. Len(args) \in Nat \ {0}
    BY CallParts
  <2> QED
    BY <2>1, <2>2
<1>2. SubSeq(args, 1, Len(args)) = args
  BY <1>1, SubSeqFull
<1>3. from \in Nat /\ to \in Nat /\ from <= to /\ to <= Len(args)
  BY <1>1
<1> HIDE DEF from, to
<1>4. SubSeq(args, from + 1, to) # Chat!Absent
  BY <1>3, PieceContinues
<1> QED
  BY <1>2, <1>4 DEF from, to

LEMMA MessageCallAdds ==
    ASSUME Chat!AnswersAssumption, chatAnswer \in Answers, chatAnswer.whole,
           NEW c \in DOMAIN chatAnswer.calls, chatTold[c] = -1,
           NEW s, DOMAIN s = 1 .. Len(s), Len(s) = c - 1,
           \A j \in 1 .. c - 1 : s[j] = WholeCall(j),
           NEW t, t = Chat!MessageCall(s, c)
    PROVE  DOMAIN t = 1 .. Len(t) /\ Len(t) = c /\ \A j \in 1 .. c : t[j] = WholeCall(j)
<1> DEFINE x == chatAnswer.calls[c]
           d == [Chat!DeltaOf(c, 0, Len(x.args)) EXCEPT !.index = Chat!NoIndex]
           position == c - 1
           snapshot == TRUE
           replace == Chat!Contract.replace
           gemini == Chat!Contract.gemini
<1>1. /\ DOMAIN chatAnswer.calls = 1 .. Len(chatAnswer.calls) /\ Len(chatAnswer.calls) \in Nat
      /\ gemini => \A i, j \in DOMAIN chatAnswer.calls :
            i # j => chatAnswer.calls[i].id # chatAnswer.calls[j].id
  BY AnswerParts DEF Chat!Contract
<1>2. c \in Nat \ {0} /\ Len(s) \in Nat /\ 1 .. c - 1 \subseteq DOMAIN chatAnswer.calls
  BY <1>1
<1>3. /\ d.index = Chat!NoIndex /\ d.id = x.id /\ d.name = x.name /\ d.args = x.args
  BY WholePiece DEF Chat!DeltaOf
<1>4. x.id # Chat!Absent /\ x.name # Chat!Absent /\ x.args # Chat!Absent
  <2>1. x.id # Chat!Absent
    BY CallParts
  <2>2. x.name # Chat!Absent
    BY CallParts
  <2> QED
    BY <2>1, <2>2, WholePiece
<1>5. t = Chat!ApplyCallDelta(s, d, position, snapshot, replace, gemini)
  BY DEF Chat!MessageCall
<1>6. Chat!CallIndex(s, d, position, gemini) = c
  <2>1. gemini => {i \in DOMAIN s : s[i].id = d.id} = {}
    <3> SUFFICES ASSUME gemini, NEW i \in DOMAIN s, s[i].id = d.id PROVE FALSE
      OBVIOUS
    <3>1. i \in 1 .. c - 1 /\ i # c /\ i \in DOMAIN chatAnswer.calls
      BY <1>2
    <3>2. s[i].id = chatAnswer.calls[i].id
      BY <3>1 DEF WholeCall
    <3> QED
      BY <1>1, <1>3, <3>1, <3>2
  <2>2. ~(c - 1 < Len(s)) /\ Len(s) + 1 = c
    BY <1>2
  <2> HIDE DEF d, gemini
  <2> QED
    BY <1>3, <2>1, <2>2 DEF Chat!CallIndex
<1> HIDE DEF d, position, snapshot, replace, gemini
<1>7. /\ DOMAIN t = 1 .. Len(t)
      /\ Len(t) = IF c > Len(s) THEN c ELSE Len(s)
      /\ t[c] = MergedCall(IF c \in DOMAIN s THEN s[c] ELSE Chat!NoCall, d, snapshot, replace)
      /\ \A j \in DOMAIN t : j # c => t[j] = IF j \in DOMAIN s THEN s[j] ELSE Chat!NoCall
  BY <1>2, <1>5, <1>6, DeltaTakes
<1>8. Len(t) = c /\ DOMAIN t = 1 .. c
  BY ONLY <1>2, <1>7, Len(s) = c - 1
<1>9. \A old : MergedCall(old, d, snapshot, replace) = WholeCall(c)
  BY <1>3, <1>4 DEF MergedCall, Chat!Merge, snapshot, WholeCall
<1>10. ASSUME NEW j \in 1 .. c PROVE t[j] = WholeCall(j)
  <2>1. CASE j = c
    BY <1>7, <1>9, <2>1
  <2>2. CASE j # c
    <3>1. j \in 1 .. c - 1
      BY ONLY <1>2, <2>2, j \in 1 .. c
    <3>2. j \in DOMAIN s /\ j \in DOMAIN t
      BY <1>8, <3>1
    <3> QED
      BY <1>7, <2>2, <3>1, <3>2
  <2> QED
    BY <2>1, <2>2
<1> QED
  BY <1>7, <1>8, <1>10

LEMMA MessageTakes ==
    ASSUME Chat!AnswersAssumption, chatAnswer \in Answers, chatAnswer.whole,
           \A c \in DOMAIN chatAnswer.calls : chatTold[c] = -1,
           NEW t, t = Chat!MessageCalls
    PROVE  /\ DOMAIN t = 1 .. Len(t) /\ Len(t) = Len(chatAnswer.calls)
           /\ \A c \in DOMAIN chatAnswer.calls : t[c] = WholeCall(c)
<1> DEFINE n == Len(chatAnswer.calls)
           q == [c \in DOMAIN chatAnswer.calls |-> c]
           base == <<>>
<1>1. n \in Nat /\ DOMAIN q = 1 .. n /\ DOMAIN chatAnswer.calls = 1 .. n
  BY AnswerParts
<1>2. \A i \in 1 .. n : q[i] = i
  BY <1>1
<1> HIDE DEF n
<1>3. t = Messaging!Fold(base, q)
  BY DEF Chat!MessageCalls, Chat!CallNumbers, Chat!FoldLeft, Chat!MapThenFoldSet,
         Chat!Max, Messaging!Fold, Messaging!Folded, Messaging!Max
<1> HIDE DEF q, base
<1> DEFINE m(i) == Messaging!FoldTo(base, q, i)
<1>4. /\ m(0) = base
      /\ \A i \in 1 .. n : m(i) = Chat!MessageCall(m(i - 1), q[i])
      /\ Messaging!Fold(base, q) = m(n)
  BY ONLY <1>1, MessagingCounts, Messaging!FoldSteps, Zenon
<1> HIDE DEF m
<1> DEFINE So(i) == /\ DOMAIN m(i) = 1 .. Len(m(i)) /\ Len(m(i)) = i
                    /\ \A j \in 1 .. i : m(i)[j] = WholeCall(j)
           T == {i \in 0 .. n : So(i)}
<1>5. 0 \in T
  <2>1. m(0) = <<>>
    BY <1>4 DEF base
  <2> QED
    BY <1>1, <2>1
<1>6. ASSUME NEW i \in 1 .. n, i - 1 \in T PROVE i \in T
  <2>1. m(i) = Chat!MessageCall(m(i - 1), i) /\ i \in DOMAIN chatAnswer.calls
    BY <1>1, <1>2, <1>4
  <2>2. So(i - 1)
    BY <1>6
  <2>3. i \in 0 .. n
    BY <1>1
  <2>4. So(i)
    BY <2>1, <2>2, MessageCallAdds
  <2> QED
    BY <2>3, <2>4
<1> HIDE DEF T
<1>7. \A i \in 0 .. n : i \in T
  BY <1>1, <1>5, <1>6, InductiveUpTo
<1>8. So(n)
  BY <1>1, <1>7 DEF T
<1> QED
  BY <1>1, <1>3, <1>4, <1>8 DEF n

-----------------------------------------------------------------------------
(* finished_tool_calls: the calls that have a name, once each.             *)

LEMMA AppendSet ==
    ASSUME NEW V, NEW s \in Seq(V), NEW x \in V
    PROVE  /\ Append(s, x) \in Seq(V) /\ Len(Append(s, x)) = Len(s) + 1
           /\ Chat!ToSet(Append(s, x)) = Chat!ToSet(s) \cup {x}
<1>1. /\ Append(s, x) \in Seq(V) /\ Len(Append(s, x)) = Len(s) + 1
      /\ \A i \in 1 .. Len(s) : Append(s, x)[i] = s[i]
      /\ Append(s, x)[Len(s) + 1] = x
  BY AppendProperties
<1>2. /\ Len(s) \in Nat /\ DOMAIN s = 1 .. Len(s)
      /\ DOMAIN Append(s, x) = (1 .. Len(s)) \cup {Len(s) + 1}
  <2>1. Len(s) \in Nat /\ DOMAIN s = 1 .. Len(s)
    BY LenProperties
  <2>2. DOMAIN Append(s, x) = 1 .. Len(Append(s, x))
    BY <1>1, LenProperties
  <2> QED
    BY <1>1, <2>1, <2>2
<1> QED
  BY <1>1, <1>2 DEF Chat!ToSet

LEMMA FinishedAre ==
    ASSUME NEW cs, DOMAIN cs = 1 .. Len(cs), Len(cs) \in Nat
    PROVE  LET named == {i \in DOMAIN cs : cs[i].name # <<>>} IN
           /\ Chat!FinishedCalls(cs) \in Seq({cs[i] : i \in DOMAIN cs})
           /\ Chat!ToSet(Chat!FinishedCalls(cs)) = {cs[i] : i \in named}
           /\ Len(Chat!FinishedCalls(cs)) = Cardinality(named)
<1> DEFINE n == Len(cs)
           base == <<>>
           V == {cs[i] : i \in DOMAIN cs}
           N(i) == {j \in 1 .. i : cs[j].name # <<>>}
           m(i) == Keeping!FoldTo(base, cs, i)
<1>1. Chat!FinishedCalls(cs) = Keeping!Fold(base, cs)
  BY DEF Chat!FinishedCalls, Chat!FoldLeft, Chat!MapThenFoldSet,
         Chat!Max, Keeping!Fold, Keeping!Folded, Keeping!Max
<1>2. /\ m(0) = base
      /\ \A i \in 1 .. n : m(i) = Chat!KeepNamed(m(i - 1), cs[i])
      /\ Keeping!Fold(base, cs) = m(n)
  BY KeepingCounts, Keeping!FoldSteps, Zenon
<1> HIDE DEF m
<1> DEFINE So(i) == /\ m(i) \in Seq(V)
                    /\ Chat!ToSet(m(i)) = {cs[j] : j \in N(i)}
                    /\ IsFiniteSet(N(i)) /\ Len(m(i)) = Cardinality(N(i))
           T == {i \in 0 .. n : So(i)}
<1>3. 0 \in T
  <2>1. N(0) = {}
    OBVIOUS
  <2>2. m(0) \in Seq(V) /\ Len(m(0)) = 0 /\ Chat!ToSet(m(0)) = {}
    <3>1. m(0) = <<>>
      BY <1>2
    <3>2. Chat!ToSet(<<>>) = {}
      BY DEF Chat!ToSet
    <3> HIDE DEF V
    <3>3. <<>> \in Seq(V) /\ Len(<<>>) = 0
      OBVIOUS
    <3> QED
      BY <3>1, <3>2, <3>3
  <2>3. IsFiniteSet(N(0)) /\ Cardinality(N(0)) = 0
    BY <2>1, FS_EmptySet
  <2> HIDE DEF N, V
  <2>4. So(0)
    BY <2>1, <2>2, <2>3
  <2> QED
    BY <2>4
<1>4. ASSUME NEW i \in 1 .. n, i - 1 \in T PROVE i \in T
  <2>1. m(i) = Chat!KeepNamed(m(i - 1), cs[i]) /\ cs[i] \in V
    BY <1>2
  <2>2. So(i - 1)
    BY <1>4
  <2>3. i \in 0 .. n /\ i \notin N(i - 1)
    OBVIOUS
  <2>4. CASE cs[i].name # <<>>
    <3>1. N(i) = N(i - 1) \cup {i}
      BY <2>4
    <3>2. m(i) = Append(m(i - 1), cs[i])
      BY <2>1, <2>4 DEF Chat!KeepNamed
    <3> HIDE DEF V
    <3> DEFINE s == m(i - 1)
               x == cs[i]
    <3>3. /\ m(i) \in Seq(V) /\ Len(m(i)) = Len(m(i - 1)) + 1
          /\ Chat!ToSet(m(i)) = Chat!ToSet(m(i - 1)) \cup {cs[i]}
      <4>1. s \in Seq(V) /\ x \in V /\ m(i) = Append(s, x)
        BY <2>1, <2>2, <3>2
      <4> HIDE DEF s, x
      <4>2. /\ Append(s, x) \in Seq(V) /\ Len(Append(s, x)) = Len(s) + 1
            /\ Chat!ToSet(Append(s, x)) = Chat!ToSet(s) \cup {x}
        BY ONLY <4>1, AppendSet
      <4> QED
        BY <4>1, <4>2 DEF s, x
    <3> DEFINE O == N(i - 1)
    <3>4. IsFiniteSet(N(i)) /\ Cardinality(N(i)) = Cardinality(N(i - 1)) + 1
      <4>1. IsFiniteSet(O) /\ i \notin O /\ N(i) = O \cup {i}
        BY <2>2, <2>3, <3>1
      <4> HIDE DEF N, O
      <4>2. IsFiniteSet(O \cup {i}) /\ Cardinality(O \cup {i}) = Cardinality(O) + 1
        BY ONLY <4>1, FS_AddElement
      <4> QED
        BY <4>1, <4>2 DEF O
    <3> HIDE DEF N
    <3>5. {cs[j] : j \in N(i)} = {cs[j] : j \in N(i - 1)} \cup {cs[i]}
      BY <3>1
    <3> QED
      BY <2>2, <2>3, <3>3, <3>4, <3>5
  <2>5. CASE cs[i].name = <<>>
    <3>1. N(i) = N(i - 1)
      BY <2>5
    <3>2. m(i) = m(i - 1)
      BY <2>1, <2>5 DEF Chat!KeepNamed
    <3> HIDE DEF N, V
    <3> QED
      BY <2>2, <2>3, <3>1, <3>2
  <2> QED
    BY <2>4, <2>5
<1> HIDE DEF T
<1>5. \A i \in 0 .. n : i \in T
  BY <1>3, <1>4, InductiveUpTo
<1>6. So(n)
  <2>1. n \in T
    BY <1>5
  <2> HIDE DEF So
  <2> QED
    BY <2>1 DEF T
<1> QED
  BY <1>1, <1>2, <1>6

-----------------------------------------------------------------------------
(* If the calls are valid, they are whole.                                 *)

Right ==
    /\ \A c \in Begun : chatTold[c] = Len(chatAnswer.calls[c].args)
    /\ {Identity(x) : x \in Chat!ToSet(Chat!TurnCalls)} = {chatAnswer.calls[c] : c \in Begun}
    /\ Chat!TurnCalls # <<>> => Begun # {}
    /\ Len(Chat!TurnCalls) = Cardinality(Begun)

(* The first letters of whole arguments are whole only if they are all.    *)
LEMMA WholeOnly ==
    ASSUME Chat!AnswersAssumption, chatAnswer \in Answers,
           NEW c \in DOMAIN chatAnswer.calls,
           NEW k \in 0 .. Len(chatAnswer.calls[c].args),
           Chat!IsObject(SubSeq(chatAnswer.calls[c].args, 1, k))
    PROVE  k = Len(chatAnswer.calls[c].args)
<1> DEFINE args == chatAnswer.calls[c].args
           p == SubSeq(args, 1, k)
           S == CallLetters \ {"absent"}
<1>1. args \in Seq(S)
  BY CallParts
<1>2. Len(args) \in Nat \ {0} /\ \A i \in 1 .. Len(args) - 1 : args[i] # "}"
  <2>1. Len(args) \in Nat \ {0}
    BY CallParts
  <2>2. \A i \in 1 .. Len(args) - 1 : args[i] # "}"
    BY CallParts
  <2> QED
    BY <2>1, <2>2
<1>3. p # <<>> /\ p[Len(p)] = "}"
  BY DEF Chat!IsObject, Chat!Last
<1>4. k \in Nat /\ k <= Len(args) /\ Len(args) \in Nat \ {0}
  <2>1. Len(args) \in Nat \ {0}
    BY <1>2
  <2> QED
    BY ONLY <2>1, k \in 0 .. Len(args)
<1> HIDE DEF args, S
<1>5. \A i \in 1 .. k : args[i] \in S
  <2>1. \A i \in 1 .. k : i \in 1 .. Len(args)
    BY ONLY <1>4
  <2> QED
    BY <1>1, <2>1, ElementOfSeq
<1>6. /\ p \in Seq(S) /\ Len(p) = IF 1 <= k THEN k - 1 + 1 ELSE 0
      /\ \A i \in 1 .. k - 1 + 1 : p[i] = args[1 + i - 1]
  <2>1. 1 \in Int /\ k \in Int
    BY ONLY <1>4
  <2> QED
    BY <1>5, <2>1, SubSeqProperties
<1> HIDE DEF p
<1>7. Len(p) # 0
  BY <1>3, <1>6, EmptySeq
<1>8. k \in Nat \ {0} /\ Len(p) = k
  BY ONLY <1>4, <1>6, <1>7
<1>9. args[k] = "}"
  <2>1. p[k] = args[1 + k - 1] /\ 1 + k - 1 = k
    BY ONLY <1>6, <1>8
  <2> QED
    BY <1>3, <1>8, <2>1
<1>10. k = Len(args)
  <2>1. k \notin 1 .. Len(args) - 1
    BY <1>2, <1>9
  <2> QED
    BY ONLY <1>4, <1>8, <2>1
<1> QED
  BY <1>10 DEF args

LEMMA CallsAreRight ==
    ASSUME Chat!AnswersAssumption, ChatInv, Chat!CallError = "none"
    PROVE  Right
<1> DEFINE named == {i \in DOMAIN chatCalls : chatCalls[i].name # <<>>}
<1>1. /\ chatAnswer \in Answers
      /\ DOMAIN chatCalls = 1 .. Len(chatCalls) /\ Len(chatCalls) \in Nat
      /\ ByPlace \/ OneEach \/ RunTogether
  BY DEF ChatInv
<1>2. ASSUME NEW i \in DOMAIN chatCalls, chatCalls[i].observed
      PROVE  chatCalls[i].name # <<>> /\ Chat!IsObject(chatCalls[i].args)
  BY <1>2 DEF Chat!CallError, Chat!CallsValid
<1>3. /\ DOMAIN chatAnswer.calls = 1 .. Len(chatAnswer.calls) /\ Len(chatAnswer.calls) \in Nat
      /\ \A c : c \in Begun <=> c \in DOMAIN chatAnswer.calls /\ chatTold[c] >= 0
  BY <1>1, AnswerParts DEF Begun, Chat!CallNumbers
<1>4. /\ Chat!TurnCalls \in Seq({chatCalls[i] : i \in DOMAIN chatCalls})
      /\ Chat!ToSet(Chat!TurnCalls) = {chatCalls[i] : i \in named}
      /\ Len(Chat!TurnCalls) = Cardinality(named)
  BY <1>1, FinishedAre DEF Chat!TurnCalls
<1>5. /\ \A c \in Begun : chatTold[c] = Len(chatAnswer.calls[c].args)
      /\ {Identity(chatCalls[i]) : i \in named} = {chatAnswer.calls[c] : c \in Begun}
      /\ Cardinality(named) = Cardinality(Begun)
  <2>1. CASE ByPlace
    <3>1. ASSUME NEW c \in Begun
          PROVE  /\ c \in DOMAIN chatCalls /\ chatCalls[c] = SentCall(c)
                 /\ chatTold[c] = Len(chatAnswer.calls[c].args)
                 /\ Identity(chatCalls[c]) = chatAnswer.calls[c]
                 /\ chatCalls[c].name # <<>>
      <4>1. c \in DOMAIN chatAnswer.calls /\ chatTold[c] >= 0
        BY <1>3
      <4>2. /\ c \in DOMAIN chatCalls /\ chatCalls[c] = SentCall(c)
            /\ chatTold[c] \in -1 .. Len(chatAnswer.calls[c].args)
        BY <2>1, <4>1 DEF ByPlace, Chat!CallNumbers
      <4>3. /\ chatCalls[c].name # <<>>
            /\ Chat!IsObject(SubSeq(chatAnswer.calls[c].args, 1, chatTold[c]))
        <5> DEFINE z == chatCalls[c]
        <5>1. z.observed /\ z.args = SubSeq(chatAnswer.calls[c].args, 1, chatTold[c])
          BY <4>2 DEF SentCall
        <5>2. z.name # <<>> /\ Chat!IsObject(z.args)
          BY <1>2, <4>2, <5>1
        <5> QED
          BY <5>1, <5>2
      <4>4. chatTold[c] \in 0 .. Len(chatAnswer.calls[c].args)
        <5>1. Len(chatAnswer.calls[c].args) \in Nat \ {0}
          BY <1>1, <4>1, CallParts
        <5> QED
          BY ONLY <4>1, <4>2, <5>1
      <4>5. chatTold[c] = Len(chatAnswer.calls[c].args)
        BY <1>1, <4>1, <4>3, <4>4, WholeOnly
      <4>6. SubSeq(chatAnswer.calls[c].args, 1, chatTold[c]) = chatAnswer.calls[c].args
        BY <1>1, <4>1, <4>5, WholePiece
      <4> DEFINE x == chatAnswer.calls[c]
      <4>7. x = [id |-> x.id, name |-> x.name, args |-> x.args]
        BY <1>1, <4>1, CallParts
      <4>8. Identity(chatCalls[c]) = chatAnswer.calls[c]
        <5> DEFINE z == chatCalls[c]
        <5>1. z.id = x.id /\ z.name = x.name /\ z.args = x.args
          BY <4>2, <4>6 DEF SentCall
        <5> HIDE DEF x, z
        <5>2. Identity(z) = x
          BY <4>7, <5>1 DEF Identity
        <5> QED
          BY <5>2 DEF x, z
      <4> QED
        BY <4>2, <4>3, <4>5, <4>8
    <3>2. ASSUME NEW i \in named PROVE i \in Begun
      <4>1. Len(chatCalls) <= Len(chatAnswer.calls)
        BY <2>1 DEF ByPlace
      <4>2. i \in 1 .. Len(chatCalls) /\ chatCalls[i].name # <<>>
        BY <1>1
      <4>3. i \in DOMAIN chatAnswer.calls
        BY ONLY <1>1, <1>3, <4>1, <4>2
      <4>4. /\ chatTold[i] \in -1 .. Len(chatAnswer.calls[i].args)
            /\ chatTold[i] = -1 => chatCalls[i] = Chat!NoCall
        BY <1>1, <2>1, <4>2, <4>3 DEF ByPlace, Chat!CallNumbers
      <4>5. chatTold[i] # -1
        BY <4>2, <4>4 DEF Chat!NoCall
      <4>6. chatTold[i] >= 0
        <5>1. Len(chatAnswer.calls[i].args) \in Nat \ {0}
          BY <1>1, <4>3, CallParts
        <5> QED
          BY ONLY <4>4, <4>5, <5>1
      <4> QED
        BY <1>3, <4>3, <4>6
    <3>3. named = Begun
      BY <3>1, <3>2
    <3> HIDE DEF named
    <3>4. {Identity(chatCalls[i]) : i \in named} = {chatAnswer.calls[c] : c \in Begun}
      BY <3>1, <3>3
    <3> QED
      BY <3>1, <3>3, <3>4
  <2>2. CASE OneEach
    <3>1. /\ \A c \in DOMAIN chatAnswer.calls : chatTold[c] \in {-1, Len(chatAnswer.calls[c].args)}
          /\ \A i \in DOMAIN chatCalls : chatCalls[i].observed
          /\ {Identity(chatCalls[i]) : i \in DOMAIN chatCalls} = {chatAnswer.calls[c] : c \in Begun}
          /\ Len(chatCalls) = Cardinality(Begun)
      BY <2>2 DEF OneEach, Chat!CallNumbers
    <3>2. named = DOMAIN chatCalls
      BY <1>2, <3>1
    <3>3. Cardinality(named) = Len(chatCalls)
      <4>1. Cardinality(1 .. Len(chatCalls)) = IF 1 > Len(chatCalls) THEN 0 ELSE Len(chatCalls) - 1 + 1
        <5>1. 1 \in Int /\ Len(chatCalls) \in Int
          BY <1>1
        <5> QED
          BY <5>1, FS_Interval
      <4>2. Cardinality(1 .. Len(chatCalls)) = Len(chatCalls)
        BY ONLY <1>1, <4>1
      <4> HIDE DEF named
      <4> QED
        BY <1>1, <3>2, <4>2
    <3>4. \A c \in Begun : chatTold[c] = Len(chatAnswer.calls[c].args)
      <4> TAKE c \in Begun
      <4>1. c \in DOMAIN chatAnswer.calls /\ chatTold[c] >= 0
        BY <1>3
      <4>2. chatTold[c] \in {-1, Len(chatAnswer.calls[c].args)}
        BY <3>1, <4>1
      <4> QED
        BY <4>1, <4>2
    <3> HIDE DEF named
    <3> QED
      BY <3>1, <3>2, <3>3, <3>4
  <2>3. CASE RunTogether
    BY <1>2, <2>3 DEF RunTogether, Chat!IsObject
  <2> QED
    BY <1>1, <2>1, <2>2, <2>3
<1> HIDE DEF named
<1>6. {Identity(x) : x \in Chat!ToSet(Chat!TurnCalls)} = {Identity(chatCalls[i]) : i \in named}
  BY <1>4
<1>7. Chat!TurnCalls # <<>> => Begun # {}
  <2> SUFFICES ASSUME Chat!TurnCalls # <<>>, Begun = {} PROVE FALSE
    OBVIOUS
  <2> DEFINE t == Chat!TurnCalls
  <2>1. t # <<>> /\ \E S : t \in Seq(S)
    BY <1>4
  <2>2. Len(t) = 0
    BY <1>4, <1>5, FS_EmptySet
  <2> HIDE DEF t
  <2> QED
    BY <2>1, <2>2, EmptySeq
<1> QED
  BY <1>4, <1>5, <1>6, <1>7 DEF Right

-----------------------------------------------------------------------------
(* The invariant holds from the beginning and is kept.                     *)

LEMMA ChatBegin ==
    ASSUME Chat!AnswersAssumption PROVE Chat!ChatInit => ChatInv
<1> SUFFICES ASSUME Chat!ChatInit PROVE ChatInv
  OBVIOUS
<1>1. /\ chatAnswer \in Answers /\ chatCalls = <<>>
      /\ chatSent = [ch \in Chat!Channels |-> 0]
      /\ chatTold = [c \in Chat!CallNumbers |-> -1]
      /\ chatSaid = [ch \in Chat!Channels |-> Chat!NoText]
      /\ chatReason = "none" /\ chatOutcome = "none"
  BY DEF Chat!ChatInit
<1>2. Begun = {}
  BY <1>1 DEF Begun
<1>3. DOMAIN chatCalls = {} /\ Len(chatCalls) = 0 /\ DOMAIN chatCalls = 1 .. Len(chatCalls)
  BY <1>1
<1>4. OneEach
  <2>1. Cardinality({}) = 0
    BY FS_EmptySet
  <2>2. \A c \in Chat!CallNumbers : chatTold[c] = -1
    BY <1>1
  <2> QED
    BY <1>2, <1>3, <2>1, <2>2 DEF OneEach
<1>5. ByPlace
  <2>1. Len(chatAnswer.calls) \in Nat
    BY <1>1, AnswerParts
  <2>2. ASSUME NEW c \in DOMAIN chatAnswer.calls
        PROVE  -1 \in -1 .. Len(chatAnswer.calls[c].args)
    <3>1. Len(chatAnswer.calls[c].args) \in Nat \ {0}
      BY <1>1, CallParts
    <3> QED
      BY ONLY <3>1
  <2>3. \A c \in Chat!CallNumbers : chatTold[c] = -1
    BY <1>1
  <2> QED
    BY <1>3, <2>1, <2>2, <2>3 DEF ByPlace, Chat!CallNumbers
<1>6. /\ chatSent \in [Chat!Channels -> Nat] /\ DOMAIN chatSaid = Chat!Channels
      /\ chatTold \in [Chat!CallNumbers -> Int]
      /\ chatReason \in Chat!Reasons
      /\ chatSaid["text"].emitted = <<>>
  BY <1>1 DEF Chat!Channels, Chat!Reasons, Chat!NoText
<1> QED
  BY <1>1, <1>3, <1>4, <1>5, <1>6 DEF ChatInv

LEMMA CallsStay ==
    ASSUME UNCHANGED <<chatAnswer, chatTold, chatCalls>>
    PROVE  /\ ByPlace' <=> ByPlace
           /\ OneEach' <=> OneEach
           /\ RunTogether' <=> RunTogether
<1>1. ByPlace' <=> ByPlace
  BY DEF ByPlace, SentCall, Chat!CallNumbers, Chat!NoCall
<1>2. Begun' = Begun
  BY DEF Begun, Chat!CallNumbers
<1>3. OneEach' <=> OneEach
  BY <1>2 DEF OneEach, Identity, Chat!CallNumbers
<1>4. CallLetters' = CallLetters
  BY DEF CallLetters, Chat!CallNumbers
<1>5. RunTogether' <=> RunTogether
  BY <1>4 DEF RunTogether
<1> QED
  BY <1>1, <1>3, <1>5

LEMMA SayKeeps ==
    ASSUME ChatInv, NEW ch \in Chat!Channels, NEW k \in Nat, Chat!Say(ch, k)
    PROVE  ChatInv'
<1>1. /\ UNCHANGED <<chatAnswer, chatTold, chatCalls>>
      /\ UNCHANGED <<chatReason, chatOutcome>> /\ chatOutcome = "none"
      /\ chatSent' = [chatSent EXCEPT ![ch] = @ + k]
  BY DEF Chat!Say, Chat!Streams
<1>2. \E p : chatSaid' = [chatSaid EXCEPT ![ch] = p]
  BY DEF Chat!Say, Chat!Hear
<1>3. k > 0 \/ chatSent[ch] > 0
  BY DEF Chat!Say
<1>4. /\ chatSent \in [Chat!Channels -> Nat] /\ DOMAIN chatSaid = Chat!Channels
      /\ chatSent["text"] = 0 => chatSaid["text"].emitted = <<>>
  BY DEF ChatInv
<1>5. chatSent[ch] \in Nat /\ chatSent[ch] + k \in Nat /\ chatSent[ch] + k # 0
  BY <1>3, <1>4
<1>6. chatSent' \in [Chat!Channels -> Nat] /\ chatSent'[ch] # 0
      /\ \A o \in Chat!Channels : o # ch => chatSent'[o] = chatSent[o]
  BY <1>1, <1>4, <1>5
<1>7. /\ DOMAIN chatSaid' = Chat!Channels
      /\ \A o \in Chat!Channels : o # ch => chatSaid'[o] = chatSaid[o]
  BY <1>2, <1>4
<1>8. "text" \in Chat!Channels
  BY DEF Chat!Channels
<1>9. chatSent'["text"] = 0 => chatSaid'["text"].emitted = <<>>
  BY <1>4, <1>6, <1>7, <1>8
<1>10. (ByPlace' <=> ByPlace) /\ (OneEach' <=> OneEach) /\ (RunTogether' <=> RunTogether)
  BY <1>1, CallsStay
<1> QED
  BY <1>1, <1>6, <1>7, <1>9, <1>10 DEF ChatInv, Chat!CallNumbers

LEMMA TellKeeps ==
    ASSUME Chat!AnswersAssumption, ChatInv,
           NEW c \in DOMAIN chatAnswer.calls, NEW k \in Nat, Chat!Tell(c, k)
    PROVE  ChatInv'
<1>1. /\ UNCHANGED <<chatAnswer, chatSent, chatSaid, chatReason, chatOutcome>>
      /\ chatOutcome = "none" /\ ~chatAnswer.whole
  BY DEF Chat!Tell, Chat!Streams
<1> DEFINE to == (IF chatTold[c] = -1 THEN 0 ELSE chatTold[c]) + k
<1>2. chatTold' = [chatTold EXCEPT ![c] = to]
  BY DEF Chat!Tell
<1>3. chatTold \in [DOMAIN chatAnswer.calls -> Int]
  BY DEF ChatInv, Chat!CallNumbers
<1>4. to \in Int
  BY <1>3
<1> HIDE DEF to
<1>5. chatTold' \in [DOMAIN chatAnswer.calls -> Int]
  BY <1>2, <1>3, <1>4
<1>6. CASE chatAnswer.indexed
  <2>1. ByPlace' /\ DOMAIN chatCalls' = 1 .. Len(chatCalls') /\ Len(chatCalls') \in Nat
    BY <1>6, TellByPlace
  <2> QED
    BY <1>1, <1>5, <1>6, <2>1 DEF ChatInv, Chat!CallNumbers
<1>7. CASE ~chatAnswer.indexed
  <2>1. /\ OneEach' \/ RunTogether'
        /\ DOMAIN chatCalls' = 1 .. Len(chatCalls') /\ Len(chatCalls') \in Nat
    BY <1>1, <1>7, TellTogether
  <2> QED
    BY <1>1, <1>5, <1>7, <2>1 DEF ChatInv, Chat!CallNumbers
<1> QED
  BY <1>6, <1>7

LEMMA MessageKeeps ==
    ASSUME Chat!AnswersAssumption, ChatInv, Chat!Message
    PROVE  ChatInv'
<1> DEFINE t == Chat!MessageCalls
<1>1. /\ UNCHANGED <<chatAnswer, chatOutcome>> /\ chatOutcome = "none"
      /\ chatAnswer.whole /\ chatCalls = <<>> /\ chatSent = [ch \in Chat!Channels |-> 0]
      /\ chatSent' = [ch \in Chat!Channels |-> Len(chatAnswer[ch])]
      /\ chatSaid' = [ch \in Chat!Channels |->
                        Chat!Pushed(chatSaid[ch], chatAnswer[ch], TRUE, chatAnswer.allow)]
      /\ chatTold' = [c \in Chat!CallNumbers |-> Len(chatAnswer.calls[c].args)]
      /\ chatCalls' = t
      /\ chatReason' \in Chat!Reasons
  BY DEF Chat!Message, Chat!Letters
<1>2. /\ chatAnswer \in Answers /\ ByPlace /\ chatTold \in [DOMAIN chatAnswer.calls -> Int]
      /\ chatSent["text"] = 0 => chatSaid["text"].emitted = <<>>
  BY <1>1 DEF ChatInv, Chat!CallNumbers
<1>3. \A c \in DOMAIN chatAnswer.calls : chatTold[c] = -1
  <2> TAKE c \in DOMAIN chatAnswer.calls
  <2>1. DOMAIN chatCalls = {}
    BY <1>1
  <2>2. chatTold[c] \in -1 .. Len(chatAnswer.calls[c].args) /\ ~(chatTold[c] >= 0)
    BY <1>2, <2>1 DEF ByPlace, Chat!CallNumbers
  <2>3. Len(chatAnswer.calls[c].args) \in Nat \ {0}
    BY <1>2, CallParts
  <2> QED
    BY ONLY <2>2, <2>3
<1>4. /\ DOMAIN t = 1 .. Len(t) /\ Len(t) = Len(chatAnswer.calls)
      /\ \A c \in DOMAIN chatAnswer.calls : t[c] = WholeCall(c)
  BY <1>1, <1>2, <1>3, MessageTakes
<1>5. /\ DOMAIN chatAnswer.calls = 1 .. Len(chatAnswer.calls) /\ Len(chatAnswer.calls) \in Nat
      /\ chatAnswer.text \in Seq(Chat!ToSet(chatAnswer.text))
      /\ chatAnswer.reasoning \in Seq(Chat!ToSet(chatAnswer.reasoning))
  BY <1>2, AnswerParts
<1> HIDE DEF t
<1>6. ASSUME NEW c \in DOMAIN chatAnswer.calls
      PROVE  /\ chatTold'[c] = Len(chatAnswer.calls[c].args)
             /\ chatTold'[c] \in Nat \ {0} /\ chatTold'[c] \in -1 .. Len(chatAnswer.calls[c].args)
             /\ c \in DOMAIN chatCalls'
             /\ chatCalls'[c] = [observed |-> TRUE, id |-> chatAnswer.calls[c].id,
                                 name |-> chatAnswer.calls[c].name,
                                 args |-> SubSeq(chatAnswer.calls[c].args, 1, chatTold'[c])]
  <2>1. Len(chatAnswer.calls[c].args) \in Nat \ {0}
    BY <1>2, CallParts
  <2>2. \A m \in Nat : m \in -1 .. m
    OBVIOUS
  <2>3. chatTold'[c] = Len(chatAnswer.calls[c].args)
    BY <1>1 DEF Chat!CallNumbers
  <2>4. SubSeq(chatAnswer.calls[c].args, 1, Len(chatAnswer.calls[c].args)) = chatAnswer.calls[c].args
    BY <1>2, WholePiece
  <2>5. c \in DOMAIN chatCalls' /\ chatCalls'[c] = WholeCall(c)
    BY <1>1, <1>4, <1>5
  <2> QED
    BY <2>1, <2>2, <2>3, <2>4, <2>5 DEF WholeCall
<1>7. ByPlace'
  <2>1. Len(chatCalls') <= Len(chatAnswer.calls)
    BY <1>1, <1>4, <1>5
  <2>2. \A c \in DOMAIN chatAnswer.calls : chatTold'[c] # -1
    <3>1. \A m \in Nat \ {0} : m # -1
      OBVIOUS
    <3> QED
      BY <1>6, <3>1
  <2> QED
    BY <1>1, <1>6, <2>1, <2>2 DEF ByPlace, SentCall, Chat!CallNumbers
<1>8. chatSent' \in [Chat!Channels -> Nat]
  <2>1. \A ch \in Chat!Channels : Len(chatAnswer[ch]) \in Nat
    <3>1. Len(chatAnswer.text) \in Nat
      BY <1>5, LenProperties
    <3>2. Len(chatAnswer.reasoning) \in Nat
      BY <1>5, LenProperties
    <3> QED
      BY <3>1, <3>2 DEF Chat!Channels
  <2> QED
    BY <1>1, <2>1
<1>9. chatSent'["text"] = 0 => chatSaid'["text"].emitted = <<>>
  <2> SUFFICES ASSUME chatSent'["text"] = 0 PROVE chatSaid'["text"].emitted = <<>>
    OBVIOUS
  <2>1. "text" \in Chat!Channels /\ chatSent["text"] = 0
    BY <1>1 DEF Chat!Channels
  <2>2. Len(chatAnswer.text) = 0
    BY <1>1, <2>1
  <2>3. chatAnswer.text = <<>>
    BY <1>5, <2>2, EmptySeq
  <2>4. chatSaid'["text"] = Chat!Pushed(chatSaid["text"], chatAnswer.text, TRUE, chatAnswer.allow)
    BY <1>1, <2>1
  <2>5. chatSaid'["text"] = chatSaid["text"]
    BY <2>3, <2>4 DEF Chat!Pushed
  <2> QED
    BY <1>2, <2>1, <2>5
<1>10. chatTold' \in [DOMAIN chatAnswer.calls -> Int]
  BY <1>1, <1>6 DEF Chat!CallNumbers
<1>11. DOMAIN chatSaid' = Chat!Channels
  BY <1>1
<1>12. DOMAIN chatCalls' = 1 .. Len(chatCalls') /\ Len(chatCalls') \in Nat
  BY <1>1, <1>4, <1>5
<1> QED
  BY <1>1, <1>2, <1>7, <1>8, <1>9, <1>10, <1>11, <1>12 DEF ChatInv, Chat!CallNumbers

LEMMA ChatNext ==
    ASSUME Chat!AnswersAssumption, ChatInv, [Chat!Next]_chatVars
    PROVE  ChatInv'
<1>1. ASSUME NEW ch \in Chat!Channels, NEW k \in 0 .. Len(Chat!Letters(ch)), Chat!Say(ch, k)
      PROVE  ChatInv'
  <2>1. Len(Chat!Letters(ch)) \in Nat
    <3>1. /\ chatAnswer.text \in Seq(Chat!ToSet(chatAnswer.text))
          /\ chatAnswer.reasoning \in Seq(Chat!ToSet(chatAnswer.reasoning))
      BY AnswerParts DEF ChatInv
    <3>2. Len(chatAnswer.text) \in Nat
      BY <3>1, LenProperties
    <3>3. Len(chatAnswer.reasoning) \in Nat
      BY <3>1, LenProperties
    <3> QED
      BY <3>2, <3>3 DEF Chat!Channels, Chat!Letters
  <2>2. k \in Nat
    BY <2>1
  <2> QED
    BY <1>1, <2>2, SayKeeps
<1>2. ASSUME NEW c \in Chat!CallNumbers, NEW k \in 0 .. Len(chatAnswer.calls[c].args),
             Chat!Tell(c, k)
      PROVE  ChatInv'
  <2>1. c \in DOMAIN chatAnswer.calls
    BY DEF Chat!CallNumbers
  <2>2. Len(chatAnswer.calls[c].args) \in Nat \ {0}
    BY <2>1, CallParts DEF ChatInv
  <2>3. k \in Nat
    BY <2>2
  <2> QED
    BY <1>2, <2>1, <2>3, TellKeeps
<1>3. CASE Chat!Message
  BY <1>3, MessageKeeps
<1>4. CASE Chat!FinishReason
  <2>1. /\ UNCHANGED <<chatAnswer, chatTold, chatCalls>>
        /\ UNCHANGED <<chatSent, chatSaid, chatOutcome>> /\ chatOutcome = "none"
        /\ chatReason' \in Chat!Reasons
    BY <1>4 DEF Chat!FinishReason, Chat!Streams
  <2>2. (ByPlace' <=> ByPlace) /\ (OneEach' <=> OneEach) /\ (RunTogether' <=> RunTogether)
    BY <2>1, CallsStay
  <2> QED
    BY <2>1, <2>2 DEF ChatInv, Chat!CallNumbers
<1>5. CASE Chat!Done
  <2>1. /\ UNCHANGED <<chatAnswer, chatTold, chatCalls>>
        /\ UNCHANGED <<chatSent, chatSaid, chatReason>>
    BY <1>5 DEF Chat!Done
  <2>2. (ByPlace' <=> ByPlace) /\ (OneEach' <=> OneEach) /\ (RunTogether' <=> RunTogether)
    BY <2>1, CallsStay
  <2> DEFINE valid == /\ Chat!ReasonError = "none" /\ Chat!CallError = "none"
                      /\ Chat!TurnError(chatSaid["text"].emitted, Chat!TurnCalls,
                                        Chat!ToolTerminal, FALSE, FALSE) = "none"
  <2>3. chatOutcome' = "turn" => valid
    <3> DEFINE e == Chat!TurnError(chatSaid["text"].emitted, Chat!TurnCalls,
                                   Chat!ToolTerminal, FALSE, FALSE)
    <3>1. e \in {"empty_response", "invalid_tool_call", "none"}
      BY DEF Chat!TurnError
    <3>2. Chat!ReasonError # "turn"
      BY DEF ChatInv, Chat!Reasons, Chat!ReasonError
    <3>3. Chat!CallError # "turn"
      BY DEF Chat!CallError
    <3>4. chatOutcome' = IF Chat!ReasonError # "none" THEN Chat!ReasonError
                         ELSE IF Chat!CallError # "none" THEN Chat!CallError
                         ELSE IF e = "none" THEN "turn" ELSE e
      BY <1>5 DEF Chat!Done
    <3> HIDE DEF e
    <3>5. chatOutcome' = "turn" =>
            Chat!ReasonError = "none" /\ Chat!CallError = "none" /\ e = "none"
      BY <3>1, <3>2, <3>3, <3>4
    <3> QED
      BY <3>5 DEF e
  <2>4. valid' <=> valid
    BY <2>1 DEF Chat!ReasonError, Chat!CallError, Chat!TurnCalls, Chat!ToolTerminal
  <2> HIDE DEF valid
  <2>5. chatOutcome' = "turn" => valid'
    BY <2>3, <2>4
  <2> QED
    BY <2>1, <2>2, <2>5 DEF ChatInv, Chat!CallNumbers, valid
<1>6. CASE Chat!Finished \/ UNCHANGED chatVars
  <2>1. UNCHANGED <<chatAnswer, chatTold, chatCalls>>
        /\ UNCHANGED <<chatSent, chatSaid, chatReason, chatOutcome>>
    BY <1>6 DEF Chat!Finished, Chat!vars, chatVars
  <2>2. (ByPlace' <=> ByPlace) /\ (OneEach' <=> OneEach) /\ (RunTogether' <=> RunTogether)
    BY <2>1, CallsStay
  <2> QED
    BY <2>1, <2>2 DEF ChatInv, Chat!CallNumbers, Chat!ReasonError, Chat!CallError,
                      Chat!TurnCalls, Chat!ToolTerminal
<1> QED
  BY <1>1, <1>2, <1>3, <1>4, <1>5, <1>6 DEF Chat!Next

LEMMA ChatInvRuns ==
    ASSUME Chat!AnswersAssumption, ChatInv PROVE Chat!OnlyWholeCallsRun
<1> SUFFICES ASSUME chatOutcome = "turn" PROVE Chat!OnlyWholeCallsRun
  BY DEF Chat!OnlyWholeCallsRun
<1>1. Right
  BY CallsAreRight DEF ChatInv
<1> DEFINE T == Chat!ToSet(Chat!TurnCalls)
<1>2. {[id |-> x.id, name |-> x.name, args |-> x.args] : x \in T} = {Identity(x) : x \in T}
  BY DEF Identity
<1>3. /\ \A c \in Begun : chatTold[c] = Len(chatAnswer.calls[c].args)
      /\ {[id |-> x.id, name |-> x.name, args |-> x.args] : x \in T}
            = {chatAnswer.calls[c] : c \in Begun}
      /\ Len(Chat!TurnCalls) = Cardinality(Begun)
  BY <1>1, <1>2 DEF Right
<1>4. Chat!Cardinality(Begun) = Cardinality(Begun)
  BY DEF Chat!Cardinality, Cardinality
<1> QED
  BY ONLY <1>3, <1>4 DEF Begun, Chat!OnlyWholeCallsRun

LEMMA ChatInvSays ==
    ASSUME Chat!AnswersAssumption, ChatInv PROVE Chat!TurnSaysSomething
<1> SUFFICES ASSUME chatOutcome = "turn"
             PROVE  /\ chatReason \in {"stop", "tool_calls"}
                    /\ chatSent["text"] > 0 \/ Begun # {}
                    /\ chatReason = "tool_calls" => Begun # {}
  BY DEF Chat!TurnSaysSomething, Begun
<1>1. /\ Chat!ReasonError = "none" /\ chatReason \in Chat!Reasons
      /\ Chat!TurnError(chatSaid["text"].emitted, Chat!TurnCalls, Chat!ToolTerminal,
                        FALSE, FALSE) = "none"
  BY DEF ChatInv
<1>2. Chat!TurnCalls # <<>> => Begun # {}
  <2>1. Right
    BY CallsAreRight DEF ChatInv
  <2> QED
    BY <2>1 DEF Right
<1>3. /\ Chat!TurnCalls # <<>> \/ chatSaid["text"].emitted # <<>>
      /\ chatReason = "tool_calls" => Chat!TurnCalls # <<>>
  BY <1>1 DEF Chat!TurnError, Chat!ToolTerminal
<1>4. chatReason \in {"stop", "tool_calls"}
  BY <1>1 DEF Chat!ReasonError, Chat!Reasons
<1>5. chatSaid["text"].emitted # <<>> => chatSent["text"] > 0
  <2>1. chatSent["text"] \in Nat /\ (chatSent["text"] = 0 => chatSaid["text"].emitted = <<>>)
    BY DEF ChatInv, Chat!Channels
  <2> QED
    BY <2>1
<1> QED
  BY <1>2, <1>3, <1>4, <1>5

-----------------------------------------------------------------------------
(* The stream.                                                             *)

Decoding == INSTANCE Folding WITH Op <- Decoder!DecodeByte
Parsing == INSTANCE Folding WITH Op <- Decoder!ParseChar
Draining == INSTANCE Folding WITH Op <- Decoder!DrainEvent
Applying == INSTANCE Folding WITH Op <- Decoder!ApplyEvent

(* The positions are counted up from 0.                                    *)
LEMMA DecodingCounts == Decoding!Counting
  BY NaturalsCount DEF Decoding!Counting
LEMMA ParsingCounts == Parsing!Counting
  BY NaturalsCount DEF Parsing!Counting
LEMMA DrainingCounts == Draining!Counting
  BY NaturalsCount DEF Draining!Counting
LEMMA ApplyingCounts == Applying!Counting
  BY NaturalsCount DEF Applying!Counting

Bytes == streamBody.bytes
Units == Decoder!ToSet(Bytes) \cup {"?", "C"}
Marks == {".", "c"}
LineEnds == {"n", "r"}

(* The text was decoded of the first bytes of the body: p has the place of *)
(* the last byte of each of its characters.                                *)
Traced(text, p, hi) ==
    /\ text \in Seq(Units) /\ p \in Seq(Nat \ {0}) /\ Len(p) = Len(text)
    /\ hi \in 0 .. Len(Bytes)
    /\ \A i \in 1 .. Len(text) : p[i] <= hi
    /\ \A i \in 1 .. Len(text) : text[i] \in Marks \cup LineEnds => Bytes[p[i]] = text[i]
    /\ \A i, j \in 1 .. Len(text) : i < j => p[i] < p[j]
    /\ \A i \in 2 .. Len(text) : text[i] \in LineEnds => p[i] = p[i - 1] + 1
    /\ Len(text) > 0 => p[Len(text)] = hi

(* All that a JSON body says is in its first n bytes.                      *)
AllThere(n) == \A i \in n + 1 .. Len(Bytes) : Bytes[i] \in Decoder!White

LEMMA BodyParts ==
    ASSUME Decoder!BodiesAssumption, streamBody \in Bodies
    PROVE  /\ Bytes \in Seq(Decoder!ToSet(Bytes)) /\ Len(Bytes) \in Nat
           /\ DOMAIN Bytes = 1 .. Len(Bytes)
           /\ \A i \in 1 .. Len(Bytes) : Bytes[i] \in Units
           /\ \A i \in 1 .. Len(Bytes) : Bytes[i] = "}" => AllThere(i)
<1> DEFINE S == Decoder!ToSet(Bytes)
<1>1. Bytes \in Seq(S)
  BY DEF Decoder!BodiesAssumption, Bytes
<1>2. \A i \in 1 .. Len(Bytes) : Bytes[i] = "}" => AllThere(i)
  BY DEF Decoder!BodiesAssumption, Bytes, AllThere
<1> HIDE DEF S
<1>3. Len(Bytes) \in Nat /\ DOMAIN Bytes = 1 .. Len(Bytes)
  BY <1>1, LenProperties
<1>4. \A i \in 1 .. Len(Bytes) : Bytes[i] \in S
  BY <1>1, ElementOfSeq
<1> QED
  BY <1>1, <1>2, <1>3, <1>4 DEF Units, S

(* One more character, of the next bytes.                                  *)
LEMMA TraceOneMore ==
    ASSUME NEW text, NEW p, NEW hi, Traced(text, p, hi), Len(Bytes) \in Nat,
           NEW c \in Units, NEW q \in 1 .. Len(Bytes), hi < q,
           c \in Marks \cup LineEnds => Bytes[q] = c,
           c \in LineEnds => q = hi + 1
    PROVE  Traced(Append(text, c), Append(p, q), q)
<1> DEFINE u == Append(text, c)
           r == Append(p, q)
           n == Len(text)
<1>1. /\ text \in Seq(Units) /\ p \in Seq(Nat \ {0}) /\ Len(p) = n
      /\ hi \in 0 .. Len(Bytes)
      /\ \A i \in 1 .. n : p[i] <= hi
      /\ \A i \in 1 .. n : text[i] \in Marks \cup LineEnds => Bytes[p[i]] = text[i]
      /\ \A i, j \in 1 .. n : i < j => p[i] < p[j]
      /\ \A i \in 2 .. n : text[i] \in LineEnds => p[i] = p[i - 1] + 1
      /\ n > 0 => p[n] = hi
  BY DEF Traced
<1>2. hi \in Nat /\ q \in Nat \ {0} /\ q \in 0 .. Len(Bytes) /\ hi < q
  BY <1>1
<1>3. n \in Nat /\ \A i \in 1 .. n : p[i] \in Nat \ {0}
  <2>1. n \in Nat
    BY <1>1, LenProperties
  <2>2. \A i \in 1 .. n : p[i] \in Nat \ {0}
    BY <1>1, ElementOfSeq
  <2> QED
    BY <2>1, <2>2
<1>4. u \in Seq(Units) /\ Len(u) = n + 1 /\ u[n + 1] = c /\ \A i \in 1 .. n : u[i] = text[i]
  BY <1>1, AppendProperties
<1>5. r \in Seq(Nat \ {0}) /\ Len(r) = n + 1 /\ r[n + 1] = q /\ \A i \in 1 .. n : r[i] = p[i]
  <2> DEFINE P == Nat \ {0}
  <2>1. p \in Seq(P) /\ q \in P
    BY <1>1, <1>2
  <2> HIDE DEF P
  <2>2. r \in Seq(P) /\ Len(r) = Len(p) + 1 /\ r[Len(p) + 1] = q /\ \A i \in 1 .. Len(p) : r[i] = p[i]
    BY <2>1, AppendProperties
  <2> QED
    BY <1>1, <2>2 DEF P
<1> HIDE DEF u, r, n
<1>6. \A i \in 1 .. n + 1 : i = n + 1 \/ i \in 1 .. n
  BY ONLY <1>3
<1>7. \A i \in 1 .. n + 1 : r[i] <= q
  BY <1>1, <1>2, <1>3, <1>5, <1>6
<1>8. \A i \in 1 .. n + 1 : u[i] \in Marks \cup LineEnds => Bytes[r[i]] = u[i]
  BY <1>1, <1>4, <1>5, <1>6
<1>9. \A i, j \in 1 .. n + 1 : i < j => r[i] < r[j]
  <2> SUFFICES ASSUME NEW i \in 1 .. n + 1, NEW j \in 1 .. n + 1, i < j PROVE r[i] < r[j]
    OBVIOUS
  <2>1. i \in 1 .. n
    BY ONLY <1>3, i \in 1 .. n + 1, j \in 1 .. n + 1, i < j
  <2>2. r[i] = p[i] /\ p[i] \in Nat /\ p[i] <= hi
    BY <1>1, <1>3, <1>5, <2>1
  <2>3. CASE j = n + 1
    BY <1>2, <1>5, <2>2, <2>3
  <2>4. CASE j \in 1 .. n
    BY <1>1, <1>5, <2>1, <2>4
  <2> QED
    BY <1>6, <2>3, <2>4
<1>10. \A i \in 2 .. n + 1 : u[i] \in LineEnds => r[i] = r[i - 1] + 1
  <2> SUFFICES ASSUME NEW i \in 2 .. n + 1, u[i] \in LineEnds PROVE r[i] = r[i - 1] + 1
    OBVIOUS
  <2>1. i - 1 \in 1 .. n /\ (i = n + 1 \/ i \in 2 .. n) /\ n > 0
    BY ONLY <1>3, i \in 2 .. n + 1
  <2>2. r[i - 1] = p[i - 1]
    BY <1>5, <2>1
  <2>3. CASE i = n + 1
    <3>1. i - 1 = n /\ r[i] = q /\ u[i] = c
      BY ONLY <1>3, <1>4, <1>5, <2>3
    <3>2. p[n] = hi
      BY <1>1, <2>1
    <3> QED
      BY <2>2, <3>1, <3>2
  <2>4. CASE i \in 2 .. n
    <3>1. i \in 1 .. n
      BY ONLY <1>3, <2>4
    <3> QED
      BY <1>1, <1>4, <1>5, <2>2, <2>4, <3>1
  <2> QED
    BY <2>1, <2>3, <2>4
<1> QED
  BY <1>2, <1>3, <1>4, <1>5, <1>7, <1>8, <1>9, <1>10 DEF Traced, u, r

(* What is left when the first characters are taken away.                  *)
LEMMA TraceOfRest ==
    ASSUME NEW text, NEW p, NEW hi, Traced(text, p, hi), NEW k \in 0 .. Len(text)
    PROVE  Traced(SubSeq(text, k + 1, Len(text)), SubSeq(p, k + 1, Len(text)), hi)
<1> DEFINE n == Len(text)
           u == SubSeq(text, k + 1, n)
           r == SubSeq(p, k + 1, n)
           m == n - k
           P == Nat \ {0}
<1>1. /\ text \in Seq(Units) /\ p \in Seq(P) /\ Len(p) = n
      /\ hi \in 0 .. Len(Bytes)
      /\ \A i \in 1 .. n : p[i] <= hi
      /\ \A i \in 1 .. n : text[i] \in Marks \cup LineEnds => Bytes[p[i]] = text[i]
      /\ \A i, j \in 1 .. n : i < j => p[i] < p[j]
      /\ \A i \in 2 .. n : text[i] \in LineEnds => p[i] = p[i - 1] + 1
      /\ n > 0 => p[n] = hi
  BY DEF Traced
<1>2. n \in Nat /\ k \in Nat /\ k <= n /\ m \in Nat
  <2>1. n \in Nat
    BY <1>1, LenProperties
  <2> HIDE DEF n
  <2>2. k \in 0 .. n
    BY DEF n
  <2> QED
    BY ONLY <2>1, <2>2
<1> HIDE DEF n, P
<1>3. k + 1 \in Int /\ n \in Int /\ (k + 1 <= n => n - (k + 1) + 1 = m) /\ (~(k + 1 <= n) => m = 0)
  BY ONLY <1>2
<1>4. /\ u \in Seq(Units) /\ Len(u) = m /\ \A i \in 1 .. m : u[i] = text[k + i]
  <2>1. \A i \in k + 1 .. n : text[i] \in Units
    <3>1. \A i \in k + 1 .. n : i \in 1 .. n
      BY ONLY <1>2
    <3> QED
      BY <1>1, <3>1, ElementOfSeq DEF n
  <2>2. /\ u \in Seq(Units)
        /\ Len(u) = IF k + 1 <= n THEN n - (k + 1) + 1 ELSE 0
        /\ \A i \in 1 .. n - (k + 1) + 1 : u[i] = text[(k + 1) + i - 1]
    BY ONLY <1>3, <2>1, SubSeqProperties
  <2>3. \A i \in 1 .. m : i \in 1 .. n - (k + 1) + 1 /\ (k + 1) + i - 1 = k + i
    BY ONLY <1>2
  <2> HIDE DEF u
  <2> QED
    BY ONLY <1>3, <2>2, <2>3
<1>5. /\ r \in Seq(P) /\ Len(r) = m /\ \A i \in 1 .. m : r[i] = p[k + i]
  <2>1. \A i \in k + 1 .. n : p[i] \in P
    <3>1. \A i \in k + 1 .. n : i \in 1 .. n
      BY ONLY <1>2
    <3> QED
      BY <1>1, <3>1, ElementOfSeq
  <2>2. /\ r \in Seq(P)
        /\ Len(r) = IF k + 1 <= n THEN n - (k + 1) + 1 ELSE 0
        /\ \A i \in 1 .. n - (k + 1) + 1 : r[i] = p[(k + 1) + i - 1]
    BY ONLY <1>3, <2>1, SubSeqProperties
  <2>3. \A i \in 1 .. m : i \in 1 .. n - (k + 1) + 1 /\ (k + 1) + i - 1 = k + i
    BY ONLY <1>2
  <2> HIDE DEF r
  <2> QED
    BY ONLY <1>3, <2>2, <2>3
<1>6. /\ \A i \in 1 .. m : k + i \in 1 .. n
      /\ \A i \in 2 .. m : k + i \in 2 .. n /\ i - 1 \in 1 .. m /\ i \in 1 .. m /\ (k + i) - 1 = k + (i - 1)
      /\ \A i, j \in 1 .. m : i < j => k + i < k + j
      /\ m > 0 => n > 0 /\ m \in 1 .. m /\ k + m = n
  BY ONLY <1>2
<1> HIDE DEF m, u, r
<1>7. \A i \in 1 .. m : r[i] <= hi
  BY <1>1, <1>5, <1>6
<1>8. \A i \in 1 .. m : u[i] \in Marks \cup LineEnds => Bytes[r[i]] = u[i]
  <2> SUFFICES ASSUME NEW i \in 1 .. m, u[i] \in Marks \cup LineEnds PROVE Bytes[r[i]] = u[i]
    OBVIOUS
  <2>1. k + i \in 1 .. n /\ u[i] = text[k + i] /\ r[i] = p[k + i]
    BY ONLY <1>4, <1>5, <1>6, i \in 1 .. m
  <2>2. text[k + i] \in Marks \cup LineEnds
    BY <2>1
  <2>3. Bytes[p[k + i]] = text[k + i]
    BY ONLY <1>1, <2>1, <2>2
  <2> QED
    BY ONLY <2>1, <2>3
<1>9. \A i, j \in 1 .. m : i < j => r[i] < r[j]
  <2> SUFFICES ASSUME NEW i \in 1 .. m, NEW j \in 1 .. m, i < j PROVE r[i] < r[j]
    OBVIOUS
  <2>1. k + i \in 1 .. n /\ k + j \in 1 .. n /\ k + i < k + j
    BY ONLY <1>6, i \in 1 .. m, j \in 1 .. m, i < j
  <2>2. p[k + i] < p[k + j]
    BY ONLY <1>1, <2>1
  <2>3. r[i] = p[k + i] /\ r[j] = p[k + j]
    BY ONLY <1>5, i \in 1 .. m, j \in 1 .. m
  <2> QED
    BY ONLY <2>2, <2>3
<1>10. \A i \in 2 .. m : u[i] \in LineEnds => r[i] = r[i - 1] + 1
  <2> SUFFICES ASSUME NEW i \in 2 .. m, u[i] \in LineEnds PROVE r[i] = r[i - 1] + 1
    OBVIOUS
  <2>1. r[i] = p[k + i] /\ r[i - 1] = p[(k + i) - 1] /\ u[i] = text[k + i] /\ k + i \in 2 .. n
    BY <1>4, <1>5, <1>6
  <2> QED
    BY <1>1, <2>1
<1>11. m > 0 => r[m] = hi
  BY <1>1, <1>5, <1>6
<1> QED
  BY <1>1, <1>4, <1>5, <1>7, <1>8, <1>9, <1>10, <1>11 DEF Traced, u, r, n, P

LEMMA ConcatAppend ==
    ASSUME NEW S, NEW s \in Seq(S), NEW t \in Seq(S), NEW e \in S
    PROVE  s \o Append(t, e) = Append(s \o t, e)
<1>1. Append(t, e) = t \o <<e>> /\ <<e>> \in Seq(S)
  BY AppendIsConcat
<1>2. s \o t \in Seq(S)
  BY ConcatProperties
<1>3. Append(s \o t, e) = (s \o t) \o <<e>>
  BY <1>2, AppendIsConcat
<1>4. (s \o t) \o <<e>> = s \o (t \o <<e>>)
  BY <1>1, ConcatAssociative
<1> QED
  BY <1>1, <1>3, <1>4

LEMMA TwoTogether ==
    ASSUME NEW x, NEW y
    PROVE  <<x>> \o <<y>> = <<x, y>>
<1> DEFINE S == {x, y}
           u == <<x>>
           v == <<y>>
           w == <<x, y>>
<1>1. u \in Seq(S) /\ v \in Seq(S) /\ w \in Seq(S)
  OBVIOUS
<1>2. Len(u) = 1 /\ Len(v) = 1 /\ Len(w) = 2 /\ u[1] = x /\ v[1] = y /\ w[1] = x /\ w[2] = y
  OBVIOUS
<1> HIDE DEF S, u, v, w
<1>3. /\ u \o v \in Seq(S) /\ Len(u \o v) = Len(u) + Len(v)
      /\ \A i \in 1 .. Len(u) + Len(v) : (u \o v)[i] =
             IF i <= Len(u) THEN u[i] ELSE v[i - Len(u)]
  BY <1>1, ConcatProperties
<1>4. Len(u \o v) = 2
  BY <1>2, <1>3
<1>5. 1 \in 1 .. Len(u) + Len(v) /\ 2 \in 1 .. Len(u) + Len(v) /\ 1 <= Len(u) /\ ~ 2 <= Len(u)
      /\ 2 - Len(u) = 1
  BY <1>2
<1>6. (u \o v)[1] = x /\ (u \o v)[2] = y
  BY <1>2, <1>3, <1>5
<1>7. \A i \in 1 .. Len(w) : i = 1 \/ i = 2
  BY <1>2
<1>8. \A i \in 1 .. Len(w) : w[i] = (u \o v)[i]
  BY <1>2, <1>6, <1>7
<1>9. w = u \o v
  BY <1>1, <1>2, <1>3, <1>4, <1>8, SeqEqual
<1> QED
  BY <1>9 DEF u, v, w

(* Utf8ChunkDecoder: what it passed on, behind what was there before, was  *)
(* decoded of the bytes so far, except an incomplete character.            *)
Decoded(s, before, h) ==
    /\ s = [text |-> s.text, rest |-> s.rest]
    /\ s.text \in Seq(Units) /\ s.rest \in {<<>>, <<"L">>}
    /\ h \in 0 .. Len(Bytes)
    /\ s.rest = <<"L">> => h > 0 /\ Bytes[h] = "L"
    /\ \E p : Traced(before \o s.text, p, IF s.rest = <<>> THEN h ELSE h - 1)

LEMMA MakeDecoded ==
    ASSUME NEW text \in Seq(Units), NEW rest \in {<<>>, <<"L">>},
           NEW n, n = [text |-> text, rest |-> rest],
           NEW before, NEW h \in 0 .. Len(Bytes),
           rest = <<"L">> => h > 0 /\ Bytes[h] = "L",
           NEW p, Traced(before \o text, p, IF rest = <<>> THEN h ELSE h - 1)
    PROVE  Decoded(n, before, h)
<1>1. n.text = text /\ n.rest = rest
  OBVIOUS
<1>2. n = [text |-> n.text, rest |-> n.rest]
  BY <1>1
<1>3. Traced(before \o n.text, p, IF n.rest = <<>> THEN h ELSE h - 1)
  BY <1>1
<1>4. n.text \in Seq(Units) /\ n.rest \in {<<>>, <<"L">>} /\ (n.rest = <<"L">> => h > 0 /\ Bytes[h] = "L")
  BY <1>1
<1> QED
  BY <1>2, <1>3, <1>4 DEF Decoded

LEMMA DecodeByteKeeps ==
    ASSUME Decoder!BodiesAssumption, streamBody \in Bodies,
           NEW before \in Seq(Units), NEW h \in Nat, h < Len(Bytes),
           NEW s, Decoded(s, before, h)
    PROVE  Decoded(Decoder!DecodeByte(s, Bytes[h + 1]), before, h + 1)
<1> DEFINE b == Bytes[h + 1]
           t == before \o s.text
           n == Decoder!DecodeByte(s, b)
<1> SUFFICES Decoded(n, before, h + 1)
  OBVIOUS
<1>1. /\ s = [text |-> s.text, rest |-> s.rest]
      /\ s.text \in Seq(Units) /\ s.rest \in {<<>>, <<"L">>}
  BY DEF Decoded
<1>2. PICK p : Traced(t, p, IF s.rest = <<>> THEN h ELSE h - 1)
  BY DEF Decoded
<1>3. Len(Bytes) \in Nat /\ h + 1 \in 1 .. Len(Bytes) /\ h + 1 \in 0 .. Len(Bytes) /\ h < h + 1
      /\ h + 1 > 0
  <2>1. Len(Bytes) \in Nat
    BY BodyParts
  <2> QED
    BY ONLY <2>1, h \in Nat, h < Len(Bytes)
<1>4. b \in Units /\ "?" \in Units /\ "C" \in Units
  BY <1>3, BodyParts DEF Units
<1>5. \A c \in Units : before \o Append(s.text, c) = Append(t, c) /\ Append(s.text, c) \in Seq(Units)
  BY <1>1, ConcatAppend, AppendProperties
<1>6. <<"L">> # <<>>
  OBVIOUS
<1>7. s.rest = <<"L">> => h \in 1 .. Len(Bytes) /\ Bytes[h] = "L" /\ h - 1 < h /\ h = (h - 1) + 1
  <2> SUFFICES ASSUME s.rest = <<"L">>
               PROVE  h \in 1 .. Len(Bytes) /\ Bytes[h] = "L" /\ h - 1 < h /\ h = (h - 1) + 1
    OBVIOUS
  <2>1. h > 0 /\ Bytes[h] = "L"
    BY DEF Decoded
  <2> QED
    BY <1>3, <2>1
<1>8. "?" \notin Marks \cup LineEnds /\ "C" \notin Marks \cup LineEnds
  BY DEF Marks, LineEnds
<1> HIDE DEF b, t
<1>9. CASE s.rest = <<>> /\ b = "L"
  <2>1. n = [s EXCEPT !.rest = <<"L">>]
    BY <1>9 DEF Decoder!DecodeByte
  <2>2. n = [text |-> s.text, rest |-> <<"L">>]
    BY <1>1, <2>1
  <2>3. Traced(t, p, (h + 1) - 1)
    BY <1>2, <1>9
  <2> HIDE DEF n
  <2> QED
    BY <1>1, <1>3, <1>6, <1>9, <2>2, <2>3, MakeDecoded DEF b, t
<1>10. CASE s.rest = <<>> /\ b # "L"
  <2> DEFINE c == IF b = "T" THEN "?" ELSE b
  <2>1. n = [s EXCEPT !.text = Append(@, c)]
    BY <1>10 DEF Decoder!DecodeByte
  <2>2. n = [text |-> Append(s.text, c), rest |-> <<>>]
    BY <1>1, <1>10, <2>1
  <2>3. c \in Units /\ (c \in Marks \cup LineEnds => b = c)
    BY <1>4, <1>8
  <2> HIDE DEF n, c
  <2>4. Traced(Append(t, c), Append(p, h + 1), h + 1)
    BY <1>2, <1>3, <1>10, <2>3, TraceOneMore DEF b
  <2> QED
    BY <1>3, <1>5, <1>6, <2>2, <2>3, <2>4, MakeDecoded
<1>11. CASE s.rest = <<"L">> /\ b = "T"
  <2> DEFINE c == "C"
  <2>1. n = [text |-> Append(s.text, c), rest |-> <<>>]
    BY <1>6, <1>11 DEF Decoder!DecodeByte
  <2>2. c \in Units /\ c \notin Marks \cup LineEnds
    BY <1>4, <1>8
  <2>3. h - 1 < h + 1
    BY <1>7
  <2> HIDE DEF n, c
  <2>4. Traced(Append(t, c), Append(p, h + 1), h + 1)
    BY <1>2, <1>3, <1>6, <1>11, <2>2, <2>3, TraceOneMore
  <2> QED
    BY <1>3, <1>5, <1>6, <2>1, <2>2, <2>4, MakeDecoded
<1>12. CASE s.rest = <<"L">> /\ b # "T"
  <2> DEFINE c == "?"
             u == Append(t, c)
             q == Append(p, h)
  <2>1. c \in Units /\ c \notin Marks \cup LineEnds
    BY <1>4, <1>8
  <2>2. CASE b = "L"
    <3>1. n = [text |-> Append(s.text, c), rest |-> <<"L">>]
      BY <1>6, <1>12, <2>2 DEF Decoder!DecodeByte
    <3> HIDE DEF n, c
    <3>2. Traced(u, q, h)
      BY <1>2, <1>3, <1>6, <1>7, <1>12, <2>1, TraceOneMore
    <3>3. Traced(u, q, (h + 1) - 1)
      BY <3>2
    <3> QED
      BY <1>3, <1>5, <1>6, <2>1, <2>2, <3>1, <3>3, MakeDecoded DEF b
  <2>3. CASE b # "L"
    <3>1. n = [text |-> s.text \o <<c, b>>, rest |-> <<>>]
      BY <1>6, <1>12, <2>3 DEF Decoder!DecodeByte
    <3>2. s.text \o <<c, b>> = Append(Append(s.text, c), b)
      <4> DEFINE v == Append(s.text, c)
      <4>1. v = s.text \o <<c>>
        BY <1>1, <1>4, AppendIsConcat
      <4>2. v \in Seq(Units)
        BY <1>4, <1>5
      <4>3. Append(v, b) = v \o <<b>>
        BY <1>4, <4>2, AppendIsConcat
      <4>4. (s.text \o <<c>>) \o <<b>> = s.text \o (<<c>> \o <<b>>)
        <5>1. <<c>> \in Seq(Units) /\ <<b>> \in Seq(Units)
          BY <1>4
        <5> HIDE DEF c
        <5> QED
          BY <1>1, <5>1, ConcatAssociative
      <4>5. <<c>> \o <<b>> = <<c, b>>
        BY TwoTogether
      <4> QED
        BY <4>1, <4>3, <4>4, <4>5
    <3> HIDE DEF n, c
    <3>3. Traced(u, q, h)
      BY <1>2, <1>3, <1>6, <1>7, <1>12, <2>1, TraceOneMore
    <3>4. Traced(Append(u, b), Append(q, h + 1), h + 1)
      <4> HIDE DEF u, q
      <4> QED
        BY <1>3, <1>4, <3>3, TraceOneMore DEF b
    <3>5. /\ Append(Append(s.text, c), b) \in Seq(Units)
          /\ before \o Append(Append(s.text, c), b) = Append(u, b)
      <4> DEFINE v == Append(s.text, c)
      <4>1. v \in Seq(Units) /\ before \o v = u
        BY <1>5, <2>1
      <4> HIDE DEF v, u
      <4>2. before \o Append(v, b) = Append(before \o v, b) /\ Append(v, b) \in Seq(Units)
        BY <1>4, <4>1, ConcatAppend, AppendProperties
      <4> QED
        BY <4>1, <4>2 DEF v
    <3> QED
      BY <1>3, <1>6, <3>1, <3>2, <3>4, <3>5, MakeDecoded
  <2> QED
    BY <2>2, <2>3
<1> QED
  BY <1>1, <1>9, <1>10, <1>11, <1>12 DEF b

LEMMA DecodeKeeps ==
    ASSUME Decoder!BodiesAssumption, streamBody \in Bodies,
           NEW before \in Seq(Units), NEW p, NEW low \in Nat, Traced(before, p, low),
           NEW rest, NEW chunk, NEW n \in Nat, DOMAIN (rest \o chunk) = 1 .. n,
           low + n <= Len(Bytes),
           \A i \in 1 .. n : (rest \o chunk)[i] = Bytes[low + i]
    PROVE  Decoded(Decoder!Decode(rest, chunk), before, low + n)
<1> DEFINE q == rest \o chunk
           base == [text |-> <<>>, rest |-> <<>>]
<1>1. Decoder!Decode(rest, chunk) = Decoding!Fold(base, q)
  BY DEF Decoder!Decode, Decoder!FoldLeft, Decoder!MapThenFoldSet, Decoder!Max,
         Decoding!Fold, Decoding!Folded, Decoding!Max
<1>2. Len(Bytes) \in Nat
  BY BodyParts
<1>3. Decoded(base, before, low)
  <2>1. <<>> \in Seq(Units) /\ before \o <<>> = before
    BY ConcatEmptySeq
  <2>2. low \in 0 .. Len(Bytes)
    BY DEF Traced
  <2>3. <<>> # <<"L">>
    OBVIOUS
  <2> QED
    BY <2>1, <2>2, <2>3, MakeDecoded
<1> HIDE DEF q, base
<1>4. DOMAIN q = 1 .. n
  BY DEF q
<1> DEFINE m(i) == Decoding!FoldTo(base, q, i)
<1>5. /\ m(0) = base
      /\ \A i \in 1 .. n : m(i) = Decoder!DecodeByte(m(i - 1), q[i])
      /\ Decoding!Fold(base, q) = m(n)
  BY <1>4, DecodingCounts, Decoding!FoldSteps
<1> HIDE DEF m
<1> DEFINE T == {i \in 0 .. n : Decoded(m(i), before, low + i)}
<1>6. 0 \in T
  BY <1>3, <1>5
<1>7. ASSUME NEW i \in 1 .. n, i - 1 \in T PROVE i \in T
  <2> DEFINE h == low + (i - 1)
  <2>1. h \in Nat /\ h < Len(Bytes) /\ h + 1 = low + i
    BY <1>2
  <2>2. Decoded(m(i - 1), before, h)
    BY <1>7
  <2> HIDE DEF h
  <2>3. Decoded(Decoder!DecodeByte(m(i - 1), Bytes[h + 1]), before, h + 1)
    BY <2>1, <2>2, DecodeByteKeeps
  <2>4. m(i) = Decoder!DecodeByte(m(i - 1), Bytes[h + 1])
    BY <1>5, <2>1 DEF q
  <2> QED
    BY <2>1, <2>3, <2>4
<1> HIDE DEF T
<1>8. \A i \in 0 .. n : i \in T
  BY <1>6, <1>7, InductiveUpTo
<1> QED
  BY <1>1, <1>5, <1>8 DEF T

LEMMA TwoAt ==
    ASSUME NEW S, NEW s \in Seq(S), NEW e \in 2 .. Len(s)
    PROVE  SubSeq(s, e - 1, e) = <<"n", "n">> <=> s[e - 1] = "n" /\ s[e] = "n"
<1> DEFINE u == SubSeq(s, e - 1, e)
           w == <<"n", "n">>
           R == {s[e - 1], s[e], "n"}
<1>1. e \in Int /\ e - 1 \in Int /\ e - 1 <= e /\ e - (e - 1) + 1 = 2 /\ (e - 1) + 1 - 1 = e - 1
      /\ (e - 1) + 2 - 1 = e
  <2>1. Len(s) \in Nat
    OBVIOUS
  <2> QED
    BY <2>1
<1>2. \A i \in e - 1 .. e : i = e - 1 \/ i = e
  BY <1>1
<1>3. \A i \in e - 1 .. e : s[i] \in R
  BY <1>2
<1>4. w \in Seq(R) /\ Len(w) = 2 /\ w[1] = "n" /\ w[2] = "n"
  OBVIOUS
<1> HIDE DEF R
<1>5. u \in Seq(R) /\ Len(u) = 2
      /\ \A i \in 1 .. 2 : u[i] = s[(e - 1) + i - 1]
  BY <1>1, <1>3, SubSeqProperties
<1>6. u[1] = s[e - 1] /\ u[2] = s[e]
  <2>1. 1 \in 1 .. 2 /\ 2 \in 1 .. 2
    OBVIOUS
  <2> QED
    BY <1>1, <1>5, <2>1
<1> HIDE DEF u, w
<1>7. ASSUME s[e - 1] = "n", s[e] = "n" PROVE u = w
  <2>1. \A i \in 1 .. Len(u) : i = 1 \/ i = 2
    BY <1>5
  <2>2. \A i \in 1 .. Len(u) : u[i] = w[i]
    BY <1>4, <1>6, <1>7, <2>1
  <2> QED
    BY <1>4, <1>5, <2>2, SeqEqual
<1>8. ASSUME u = w PROVE s[e - 1] = "n" /\ s[e] = "n"
  BY <1>4, <1>6, <1>8
<1> QED
  BY <1>7, <1>8 DEF u, w

LEMMA FourAt ==
    ASSUME NEW S, NEW s \in Seq(S), NEW e \in 4 .. Len(s)
    PROVE  SubSeq(s, e - 3, e) = <<"r", "n", "r", "n">> <=>
               s[e - 3] = "r" /\ s[e - 2] = "n" /\ s[e - 1] = "r" /\ s[e] = "n"
<1> DEFINE u == SubSeq(s, e - 3, e)
           w == <<"r", "n", "r", "n">>
           R == {s[e - 3], s[e - 2], s[e - 1], s[e], "r", "n"}
<1>1. /\ e \in Int /\ e - 3 \in Int /\ e - 3 <= e /\ e - (e - 3) + 1 = 4
      /\ (e - 3) + 1 - 1 = e - 3 /\ (e - 3) + 2 - 1 = e - 2
      /\ (e - 3) + 3 - 1 = e - 1 /\ (e - 3) + 4 - 1 = e
  <2>1. Len(s) \in Nat
    OBVIOUS
  <2> QED
    BY <2>1
<1>2. \A i \in e - 3 .. e : i = e - 3 \/ i = e - 2 \/ i = e - 1 \/ i = e
  BY <1>1
<1>3. \A i \in e - 3 .. e : s[i] \in R
  BY <1>2
<1>4. w \in Seq(R) /\ Len(w) = 4 /\ w[1] = "r" /\ w[2] = "n" /\ w[3] = "r" /\ w[4] = "n"
  OBVIOUS
<1> HIDE DEF R
<1>5. u \in Seq(R) /\ Len(u) = 4
      /\ \A i \in 1 .. 4 : u[i] = s[(e - 3) + i - 1]
  BY <1>1, <1>3, SubSeqProperties
<1>6. u[1] = s[e - 3] /\ u[2] = s[e - 2] /\ u[3] = s[e - 1] /\ u[4] = s[e]
  <2>1. 1 \in 1 .. 4 /\ 2 \in 1 .. 4 /\ 3 \in 1 .. 4 /\ 4 \in 1 .. 4
    OBVIOUS
  <2> QED
    BY <1>1, <1>5, <2>1
<1> HIDE DEF u, w
<1>7. ASSUME s[e - 3] = "r", s[e - 2] = "n", s[e - 1] = "r", s[e] = "n" PROVE u = w
  <2>1. \A i \in 1 .. Len(u) : i = 1 \/ i = 2 \/ i = 3 \/ i = 4
    BY <1>5
  <2>2. \A i \in 1 .. Len(u) : u[i] = w[i]
    BY <1>4, <1>6, <1>7, <2>1
  <2> QED
    BY <1>4, <1>5, <2>2, SeqEqual
<1>8. ASSUME u = w PROVE s[e - 3] = "r" /\ s[e - 2] = "n" /\ s[e - 1] = "r" /\ s[e] = "n"
  BY <1>4, <1>6, <1>8
<1> QED
  BY <1>7, <1>8 DEF u, w

(* The line ends of the text are those of the body.                        *)
LEMMA EndIsInBody ==
    ASSUME Decoder!BodiesAssumption, streamBody \in Bodies,
           NEW text, NEW p, NEW hi, Traced(text, p, hi),
           NEW e \in 1 .. Len(text), Decoder!EndsAt(text, 0, e)
    PROVE  p[e] \in 1 .. hi /\ Decoder!EndsAt(Bytes, 0, p[e])
<1> DEFINE n == Len(text)
           f == p[e]
<1>1. /\ text \in Seq(Units) /\ p \in Seq(Nat \ {0}) /\ Len(p) = n
      /\ hi \in 0 .. Len(Bytes)
      /\ \A i \in 1 .. n : p[i] <= hi
      /\ \A i \in 1 .. n : text[i] \in LineEnds => Bytes[p[i]] = text[i]
      /\ \A i \in 2 .. n : text[i] \in LineEnds => p[i] = p[i - 1] + 1
  BY DEF Traced
<1>2. Bytes \in Seq(Decoder!ToSet(Bytes)) /\ Len(Bytes) \in Nat
  BY BodyParts
<1>3. n \in Nat /\ \A i \in 1 .. n : p[i] \in Nat \ {0}
  <2>1. n \in Nat
    BY <1>1, LenProperties
  <2>2. \A i \in 1 .. n : p[i] \in Nat \ {0}
    BY <1>1, ElementOfSeq
  <2> QED
    BY <2>1, <2>2
<1>4. hi \in Nat /\ hi <= Len(Bytes)
  BY <1>1, <1>2
<1> HIDE DEF n
<1>5. e \in 1 .. n
  BY DEF n
<1>6. f \in Nat /\ 1 <= f /\ f <= hi
  BY <1>1, <1>3, <1>5
<1>7. "n" \in LineEnds /\ "r" \in LineEnds
  BY DEF LineEnds
<1>8. CASE e - 2 >= 0 /\ SubSeq(text, e - 1, e) = <<"n", "n">>
  <2>1. e \in 2 .. n /\ e - 1 \in 1 .. n
    BY <1>3, <1>5, <1>8
  <2>2. text[e - 1] = "n" /\ text[e] = "n"
    <3>1. text \in Seq(Units) /\ e \in 2 .. Len(text)
      BY <1>1, <2>1 DEF n
    <3>2. SubSeq(text, e - 1, e) = <<"n", "n">> <=> text[e - 1] = "n" /\ text[e] = "n"
      BY ONLY <3>1, TwoAt
    <3> QED
      BY <1>8, <3>2
  <2>3. f = p[e - 1] + 1 /\ Bytes[f] = "n" /\ Bytes[p[e - 1]] = "n" /\ p[e - 1] \in Nat \ {0}
    BY <1>1, <1>3, <1>5, <1>7, <2>1, <2>2
  <2>4. f - 1 = p[e - 1] /\ f \in 2 .. Len(Bytes) /\ f - 2 >= 0
    BY <1>2, <1>4, <1>6, <2>3
  <2> HIDE DEF f
  <2>5. SubSeq(Bytes, f - 1, f) = <<"n", "n">>
    <3>1. Bytes[f - 1] = "n" /\ Bytes[f] = "n"
      BY <2>3, <2>4
    <3>2. SubSeq(Bytes, f - 1, f) = <<"n", "n">> <=> Bytes[f - 1] = "n" /\ Bytes[f] = "n"
      <4> DEFINE S == Decoder!ToSet(Bytes)
                 B == Bytes
      <4>1. B \in Seq(S) /\ f \in 2 .. Len(B)
        BY <1>2, <2>4
      <4> HIDE DEF S, B
      <4>2. SubSeq(B, f - 1, f) = <<"n", "n">> <=> B[f - 1] = "n" /\ B[f] = "n"
        BY ONLY <4>1, TwoAt
      <4> QED
        BY <4>2 DEF B
    <3> QED
      BY ONLY <3>1, <3>2
  <2> QED
    BY <1>4, <1>6, <2>4, <2>5 DEF Decoder!EndsAt, f
<1>9. CASE e - 4 >= 0 /\ SubSeq(text, e - 3, e) = <<"r", "n", "r", "n">>
  <2>1. /\ e \in 4 .. n /\ e - 1 \in 2 .. n /\ e - 2 \in 2 .. n /\ e \in 2 .. n
        /\ e - 3 \in 1 .. n /\ e - 2 \in 1 .. n /\ e - 1 \in 1 .. n
        /\ (e - 1) - 1 = e - 2 /\ (e - 2) - 1 = e - 3
    BY <1>3, <1>5, <1>9
  <2>2. text[e - 3] = "r" /\ text[e - 2] = "n" /\ text[e - 1] = "r" /\ text[e] = "n"
    <3>1. text \in Seq(Units) /\ e \in 4 .. Len(text)
      BY <1>1, <2>1 DEF n
    <3>2. SubSeq(text, e - 3, e) = <<"r", "n", "r", "n">> <=>
              text[e - 3] = "r" /\ text[e - 2] = "n" /\ text[e - 1] = "r" /\ text[e] = "n"
      BY ONLY <3>1, FourAt
    <3> QED
      BY <1>9, <3>2
  <2>3. /\ p[e] = p[e - 1] + 1 /\ p[e - 1] = p[e - 2] + 1 /\ p[e - 2] = p[e - 3] + 1
        /\ p[e - 3] \in Nat \ {0} /\ p[e - 2] \in Nat /\ p[e - 1] \in Nat
    BY <1>1, <1>3, <1>7, <2>1, <2>2
  <2>4. /\ Bytes[p[e]] = "n" /\ Bytes[p[e - 1]] = "r"
        /\ Bytes[p[e - 2]] = "n" /\ Bytes[p[e - 3]] = "r"
    BY <1>1, <1>5, <1>7, <2>1, <2>2
  <2>5. /\ f - 1 = p[e - 1] /\ f - 2 = p[e - 2] /\ f - 3 = p[e - 3]
        /\ f \in 4 .. Len(Bytes) /\ f - 4 >= 0
    <3> DEFINE a == p[e - 3]
               b == p[e - 2]
               c == p[e - 1]
    <3>1. f = c + 1 /\ c = b + 1 /\ b = a + 1 /\ a \in Nat \ {0} /\ b \in Nat /\ c \in Nat
      BY <2>3
    <3> HIDE DEF a, b, c, f
    <3>2. f - 1 = c /\ f - 2 = b /\ f - 3 = a /\ f - 4 >= 0 /\ 4 <= f
      BY ONLY <3>1
    <3>3. f \in 4 .. Len(Bytes)
      BY ONLY <1>2, <1>4, <1>6, <3>2
    <3> QED
      BY <3>2, <3>3 DEF a, b, c
  <2>6. Bytes[f] = "n"
    BY <2>4
  <2> HIDE DEF f
  <2>7. SubSeq(Bytes, f - 3, f) = <<"r", "n", "r", "n">>
    <3>1. Bytes[f - 3] = "r" /\ Bytes[f - 2] = "n" /\ Bytes[f - 1] = "r"
      BY <2>4, <2>5
    <3>2. SubSeq(Bytes, f - 3, f) = <<"r", "n", "r", "n">> <=>
              Bytes[f - 3] = "r" /\ Bytes[f - 2] = "n" /\ Bytes[f - 1] = "r" /\ Bytes[f] = "n"
      <4> DEFINE S == Decoder!ToSet(Bytes)
                 B == Bytes
      <4>1. B \in Seq(S) /\ f \in 4 .. Len(B)
        BY <1>2, <2>5
      <4> HIDE DEF S, B
      <4>2. SubSeq(B, f - 3, f) = <<"r", "n", "r", "n">> <=>
                B[f - 3] = "r" /\ B[f - 2] = "n" /\ B[f - 1] = "r" /\ B[f] = "n"
        BY ONLY <4>1, FourAt
      <4> QED
        BY <4>2 DEF B
    <3> QED
      BY ONLY <2>6, <3>1, <3>2
  <2> QED
    BY <1>4, <1>6, <2>5, <2>7 DEF Decoder!EndsAt, f
<1> QED
  BY <1>8, <1>9 DEF Decoder!EndsAt

LEMMA MarkIsInBody ==
    ASSUME Decoder!BodiesAssumption, streamBody \in Bodies,
           NEW text, NEW p, NEW hi, Traced(text, p, hi),
           NEW i \in 1 .. Len(text), NEW e \in 1 .. Len(text), i < e,
           text[i] \in Marks, Decoder!EndsAt(text, 0, e)
    PROVE  \E k \in 1 .. hi, j \in 1 .. hi :
               k < j /\ Bytes[k] \in Marks /\ Decoder!EndsAt(Bytes, 0, j)
<1>1. p[e] \in 1 .. hi /\ Decoder!EndsAt(Bytes, 0, p[e])
  BY EndIsInBody
<1>2. p[i] < p[e] /\ Bytes[p[i]] = text[i] /\ p[i] <= hi
  BY DEF Traced
<1>3. p[i] \in Nat \ {0}
  BY ElementOfSeq DEF Traced
<1>4. hi \in Nat
  <2>1. Len(Bytes) \in Nat
    BY BodyParts
  <2>2. hi \in 0 .. Len(Bytes)
    BY DEF Traced
  <2> QED
    BY <2>1, <2>2
<1>5. p[i] \in 1 .. hi
  BY <1>2, <1>3, <1>4
<1> QED
  BY <1>1, <1>2, <1>5

(* What is read of a block is made of the block's characters.              *)
EventOf(X) == [data : Seq(X), name : Seq(X), seen : BOOLEAN]

LEMMA PartOf ==
    ASSUME NEW X, NEW s \in Seq(X), NEW a \in Nat, NEW z \in Nat, 1 <= a, z <= Len(s)
    PROVE  /\ SubSeq(s, a, z) \in Seq(X)
           /\ Len(SubSeq(s, a, z)) = IF a <= z THEN z - a + 1 ELSE 0
           /\ \A i \in 1 .. z - a + 1 : SubSeq(s, a, z)[i] = s[a + i - 1]
<1>1. \A i \in a .. z : i \in 1 .. Len(s)
  BY LenProperties
<1>2. \A i \in a .. z : s[i] \in X
  BY <1>1, ElementOfSeq
<1>3. a \in Int /\ z \in Int
  OBVIOUS
<1> QED
  BY ONLY <1>2, <1>3, SubSeqProperties

LEMMA ColonIsAPlace ==
    ASSUME NEW X, NEW l \in Seq(X)
    PROVE  Decoder!SelectInSeq(l, LAMBDA c : c = ":") \in 0 .. Len(l)
<1> DEFINE I == {i \in 1 .. Len(l) : l[i] = ":"}
           k == IF I # {} THEN Decoder!Min(I) ELSE 0
<1>1. Decoder!SelectInSeq(l, LAMBDA c : c = ":") = k
  BY DEF Decoder!SelectInSeq
<1>2. Len(l) \in Nat
  BY LenProperties
<1>3. I \in SUBSET Nat /\ I \subseteq 1 .. Len(l)
  BY <1>2
<1> HIDE DEF I
<1>4. CASE I # {}
  <2>1. \E x \in I : \A y \in I : x <= y
    BY <1>3, <1>4, LeastNumber
  <2>2. Decoder!Min(I) \in I
    BY <2>1 DEF Decoder!Min
  <2> QED
    BY <1>1, <1>2, <1>3, <1>4, <2>2
<1>5. CASE I = {}
  BY <1>1, <1>2, <1>5
<1> QED
  BY <1>4, <1>5

LEMMA FieldKeeps ==
    ASSUME NEW X, "n" \in X, NEW event \in EventOf(X),
           NEW name \in Seq(X), NEW value \in Seq(X)
    PROVE  Decoder!Field(name, value, event) \in EventOf(X)
<1> DEFINE d == IF event.data = <<>> THEN value ELSE event.data \o <<"n">> \o value
<1>1. event.data \in Seq(X)
  BY DEF EventOf
<1>2. d \in Seq(X)
  <2>1. <<"n">> \in Seq(X)
    OBVIOUS
  <2>2. event.data \o <<"n">> \in Seq(X)
    BY <1>1, <2>1, ConcatProperties
  <2>3. event.data \o <<"n">> \o value \in Seq(X)
    BY <2>2, ConcatProperties
  <2> QED
    BY <2>3
<1>3. CASE name = <<"d">>
  <2>1. Decoder!Field(name, value, event) = [event EXCEPT !.data = d]
    BY <1>3 DEF Decoder!Field
  <2> HIDE DEF d
  <2> QED
    BY <1>2, <2>1 DEF EventOf
<1>4. CASE name = <<"e">>
  <2>1. <<"e">> # <<"d">>
    OBVIOUS
  <2>2. Decoder!Field(name, value, event) = [event EXCEPT !.name = value]
    BY <1>4, <2>1 DEF Decoder!Field
  <2> QED
    BY <2>2 DEF EventOf
<1>5. CASE name \notin {<<"d">>, <<"e">>}
  BY <1>5 DEF Decoder!Field
<1> QED
  BY <1>3, <1>4, <1>5

LEMMA ApplyLineKeeps ==
    ASSUME NEW X, "n" \in X, NEW event \in EventOf(X), NEW line \in Seq(X)
    PROVE  Decoder!ApplyLine(event, line) \in EventOf(X)
<1> DEFINE l == IF line # <<>> /\ Decoder!Last(line) = "r" THEN Decoder!Front(line) ELSE line
           colon == Decoder!SelectInSeq(l, LAMBDA c : c = ":")
           value == SubSeq(l, colon + 1, Len(l))
           name == IF colon = 0 THEN l ELSE SubSeq(l, 1, colon - 1)
           val == IF colon = 0 THEN <<>>
                  ELSE IF value # <<>> /\ Head(value) = " " THEN Tail(value) ELSE value
<1>1. Decoder!ApplyLine(event, line) =
          IF l = <<>> \/ colon = 1 THEN event
          ELSE [Decoder!Field(name, val, event) EXCEPT !.seen = TRUE]
  BY DEF Decoder!ApplyLine
<1>2. l \in Seq(X)
  <2>1. CASE line = <<>>
    BY <2>1
  <2>2. CASE line # <<>>
    <3>1. Len(line) \in Nat /\ Len(line) # 0
      BY <2>2, LenProperties, EmptySeq
    <3>2. 1 \in Nat /\ Len(line) - 1 \in Nat /\ 1 <= 1 /\ Len(line) - 1 <= Len(line)
      BY <3>1
    <3>3. SubSeq(line, 1, Len(line) - 1) \in Seq(X)
      BY ONLY <3>2, line \in Seq(X), PartOf
    <3> QED
      BY <3>3 DEF Decoder!Front
  <2> QED
    BY <2>1, <2>2
<1> HIDE DEF l
<1>3. colon \in 0 .. Len(l) /\ Len(l) \in Nat
  BY <1>2, ColonIsAPlace, LenProperties
<1> HIDE DEF colon
<1>4. value \in Seq(X)
  <2>1. colon + 1 \in Nat /\ Len(l) \in Nat /\ 1 <= colon + 1 /\ Len(l) <= Len(l)
    BY <1>3
  <2> QED
    BY ONLY <1>2, <2>1, PartOf
<1>5. name \in Seq(X)
  <2>1. CASE colon = 0
    BY <1>2, <2>1
  <2>2. CASE colon # 0
    <3>1. 1 \in Nat /\ colon - 1 \in Nat /\ 1 <= 1 /\ colon - 1 <= Len(l)
      BY <1>3, <2>2
    <3>2. SubSeq(l, 1, colon - 1) \in Seq(X)
      BY ONLY <1>2, <3>1, PartOf
    <3> QED
      BY <2>2, <3>2
  <2> QED
    BY <2>1, <2>2
<1> HIDE DEF value, name
<1>6. val \in Seq(X)
  <2>1. value # <<>> => Tail(value) \in Seq(X)
    BY <1>4, HeadTailProperties
  <2>2. <<>> \in Seq(X)
    OBVIOUS
  <2> QED
    BY ONLY <1>4, <2>1, <2>2
<1> HIDE DEF val
<1>7. Decoder!Field(name, val, event) \in EventOf(X)
  BY <1>5, <1>6, FieldKeeps
<1>8. [Decoder!Field(name, val, event) EXCEPT !.seen = TRUE] \in EventOf(X)
  BY <1>7 DEF EventOf
<1> QED
  BY <1>1, <1>8

LEMMA ParseBlockKeeps ==
    ASSUME NEW X, "n" \in X, NEW block \in Seq(X)
    PROVE  Decoder!ParseBlock(block) \in EventOf(X)
<1> DEFINE q == Append(block, "n")
           base == [event |-> Decoder!NoEvent, line |-> <<>>]
           D == [event : EventOf(X), line : Seq(X)]
           n == Len(block) + 1
<1>1. Decoder!ParseBlock(block) = Parsing!Fold(base, q).event
  BY DEF Decoder!ParseBlock, Decoder!FoldLeft, Decoder!MapThenFoldSet, Decoder!Max,
         Parsing!Fold, Parsing!Folded, Parsing!Max
<1>2. base \in D
  <2>1. <<>> \in Seq(X)
    OBVIOUS
  <2> QED
    BY <2>1 DEF Decoder!NoEvent, EventOf
<1>3. q \in Seq(X) /\ Len(q) = n
  BY AppendProperties
<1>4. n \in Nat
  BY LenProperties
<1> HIDE DEF q, base, n
<1>5. DOMAIN q = 1 .. n /\ \A i \in 1 .. n : q[i] \in X
  BY <1>3, LenProperties, ElementOfSeq
<1>6. ASSUME NEW x \in D, NEW c \in X PROVE Decoder!ParseChar(x, c) \in D
  <2>1. x.event \in EventOf(X) /\ x.line \in Seq(X)
    OBVIOUS
  <2>2. Decoder!ApplyLine(x.event, x.line) \in EventOf(X)
    BY <2>1, ApplyLineKeeps
  <2>3. Append(x.line, c) \in Seq(X)
    BY <2>1, AppendProperties
  <2>4. <<>> \in Seq(X)
    OBVIOUS
  <2> QED
    BY <2>2, <2>3, <2>4 DEF Decoder!ParseChar
<1> HIDE DEF D
<1>7. \A x \in D : \A i \in 1 .. n : Decoder!ParseChar(x, q[i]) \in D
  BY <1>5, <1>6
<1>8. Parsing!Fold(base, q) \in D
  BY <1>2, <1>4, <1>5, <1>7, ParsingCounts, Parsing!FoldKeeps
<1> QED
  BY <1>1, <1>8 DEF D

(* An event with a mark in it has come to its end.                         *)
MarkEnds(text) == \E k \in 1 .. Len(text), e \in 1 .. Len(text) :
                   k < e /\ text[k] \in Marks /\ Decoder!EndsAt(text, 0, e)
Read(text) == {v \in EventOf(Units) :
                  \A i \in 1 .. Len(v.data) : v.data[i] \in Marks => MarkEnds(text)}
Drains(text) == [events : Seq(Read(text)), consumed : 0 .. Len(text), search : Nat]

LEMMA EndIsALine ==
    ASSUME NEW X, NEW text \in Seq(X), NEW from \in Nat,
           NEW e \in 1 .. Len(text), Decoder!EndsAt(text, from, e)
    PROVE  text[e] = "n" /\ Decoder!EndsAt(text, 0, e)
<1>1. Len(text) \in Nat
  BY LenProperties
<1>2. CASE e - 2 >= from /\ SubSeq(text, e - 1, e) = <<"n", "n">>
  <2>1. e \in 2 .. Len(text) /\ e - 2 >= 0
    BY <1>1, <1>2
  <2>2. text[e] = "n"
    <3>1. SubSeq(text, e - 1, e) = <<"n", "n">> <=> text[e - 1] = "n" /\ text[e] = "n"
      BY ONLY text \in Seq(X), <2>1, TwoAt
    <3> QED
      BY <1>2, <3>1
  <2> QED
    BY <1>2, <2>1, <2>2 DEF Decoder!EndsAt
<1>3. CASE e - 4 >= from /\ SubSeq(text, e - 3, e) = <<"r", "n", "r", "n">>
  <2>1. e \in 4 .. Len(text) /\ e - 4 >= 0
    BY <1>1, <1>3
  <2>2. text[e] = "n"
    <3>1. SubSeq(text, e - 3, e) = <<"r", "n", "r", "n">> <=>
              text[e - 3] = "r" /\ text[e - 2] = "n" /\ text[e - 1] = "r" /\ text[e] = "n"
      BY ONLY text \in Seq(X), <2>1, FourAt
    <3> QED
      BY <1>3, <3>1
  <2> QED
    BY <1>3, <2>1, <2>2 DEF Decoder!EndsAt
<1> QED
  BY <1>2, <1>3 DEF Decoder!EndsAt

LEMMA SeqOfMore ==
    ASSUME NEW X, NEW Y, X \subseteq Y, NEW s \in Seq(X)
    PROVE  s \in Seq(Y)
<1>1. Len(s) \in Nat /\ s \in [1 .. Len(s) -> X]
  BY LenProperties
<1>2. s \in [1 .. Len(s) -> Y]
  BY <1>1
<1> QED
  BY <1>1, <1>2, SeqDef

LEMMA BlockIsRead ==
    ASSUME NEW text \in Seq(Units), NEW from \in Nat,
           NEW e \in 1 .. Len(text), Decoder!EndsAt(text, from, e),
           NEW a \in 0 .. Len(text)
    PROVE  Decoder!EventsOf(SubSeq(text, a + 1, e)) \in Seq(Read(text))
<1> DEFINE block == SubSeq(text, a + 1, e)
           Z == {text[k] : k \in a + 1 .. e}
           Y == Z \cup {"n"}
           v == Decoder!ParseBlock(block)
<1>1. Len(text) \in Nat
  BY LenProperties
<1>2. text[e] = "n" /\ Decoder!EndsAt(text, 0, e)
  BY EndIsALine
<1>3. a \in Nat /\ a + 1 \in Int /\ e \in Int /\ e \in Nat /\ e <= Len(text)
  BY <1>1
<1>4. \A k \in a + 1 .. e : k \in 1 .. Len(text)
  BY <1>1, <1>3
<1>5. Y \subseteq Units
  <2>1. Z \subseteq Units
    BY <1>4, ElementOfSeq
  <2>2. "n" \in Units
    BY <1>2, ElementOfSeq
  <2> QED
    BY <2>1, <2>2
<1>6. block \in Seq(Y)
  <2>1. \A k \in a + 1 .. e : text[k] \in Y
    OBVIOUS
  <2> HIDE DEF Y
  <2> QED
    BY ONLY <1>3, <2>1, SubSeqProperties
<1>7. v \in EventOf(Y)
  <2>1. "n" \in Y
    OBVIOUS
  <2> HIDE DEF Y, block
  <2> QED
    BY <1>6, <2>1, ParseBlockKeeps
<1> HIDE DEF v, block
<1>8. v \in EventOf(Units)
  <2> HIDE DEF Y
  <2>1. v.data \in Seq(Y) /\ v.name \in Seq(Y)
    BY <1>7 DEF EventOf
  <2>2. v.data \in Seq(Units) /\ v.name \in Seq(Units)
    BY <1>5, <2>1, SeqOfMore
  <2> QED
    BY <1>7, <2>2 DEF EventOf
<1>9. ASSUME NEW i \in 1 .. Len(v.data), v.data[i] \in Marks PROVE MarkEnds(text)
  <2>1. v.data[i] \in Y
    <3> HIDE DEF Y
    <3>1. v.data \in Seq(Y)
      BY <1>7 DEF EventOf
    <3> QED
      BY <3>1, ElementOfSeq
  <2>2. "n" \notin Marks
    BY DEF Marks
  <2>3. v.data[i] \in Z
    BY <1>9, <2>1, <2>2
  <2>4. PICK k \in a + 1 .. e : v.data[i] = text[k]
    BY <2>3
  <2>5. k # e
    BY <1>2, <1>9, <2>2, <2>4
  <2>6. k \in 1 .. Len(text) /\ k < e
    BY <1>3, <1>4, <2>5
  <2> QED
    BY <1>2, <1>9, <2>4, <2>6 DEF MarkEnds
<1>10. v \in Read(text)
  BY <1>8, <1>9 DEF Read
<1>11. Decoder!EventsOf(block) = IF v.seen THEN <<v>> ELSE <<>>
  BY DEF Decoder!EventsOf, v
<1> DEFINE S == Read(text)
<1>12. <<v>> \in Seq(S) /\ <<>> \in Seq(S)
  BY <1>10
<1> QED
  BY <1>11, <1>12 DEF block

LEMMA DrainEventKeeps ==
    ASSUME NEW text \in Seq(Units), NEW s \in Drains(text)
    PROVE  Decoder!DrainEvent(s, text) \in Drains(text)
<1> DEFINE ends == {e \in s.search + 1 .. Len(text) : Decoder!EndsAt(text, s.search, e)}
           first == CHOOSE e \in ends : \A f \in ends : e <= f
           more == Decoder!EventsOf(SubSeq(text, s.consumed + 1, first))
           S == Read(text)
<1>1. s.events \in Seq(S) /\ s.consumed \in 0 .. Len(text) /\ s.search \in Nat
  BY DEF Drains
<1>2. Decoder!DrainEvent(s, text) =
          IF ends = {} THEN s
          ELSE [events |-> s.events \o more, consumed |-> first, search |-> first]
  BY DEF Decoder!DrainEvent
<1>3. CASE ends # {}
  <2>1. Len(text) \in Nat
    BY LenProperties
  <2>2. ends \in SUBSET Nat
    BY <1>1, <2>1
  <2>3. \E e \in ends : \A f \in ends : e <= f
    <3> HIDE DEF ends
    <3> QED
      BY <1>3, <2>2, LeastNumber
  <2>4. first \in ends
    BY <2>3
  <2>5. first \in s.search + 1 .. Len(text) /\ Decoder!EndsAt(text, s.search, first)
    BY <2>4
  <2> HIDE DEF first, ends
  <2>6. first \in 1 .. Len(text) /\ first \in 0 .. Len(text) /\ first \in Nat
    BY <1>1, <2>1, <2>5
  <2>7. more \in Seq(S)
    BY <1>1, <2>5, <2>6, BlockIsRead
  <2> HIDE DEF S, more
  <2>8. s.events \o more \in Seq(S)
    BY <1>1, <2>7, ConcatProperties
  <2> QED
    BY <1>2, <1>3, <2>6, <2>8 DEF Drains, S
<1>4. CASE ends = {}
  BY <1>2, <1>4
<1> QED
  BY <1>3, <1>4

LEMMA DrainKeeps ==
    ASSUME NEW text \in Seq(Units), NEW start \in Nat
    PROVE  Decoder!Drain(text, start) \in Drains(text)
<1> DEFINE n == Len(text)
           q == [i \in 1 .. n |-> text]
           base == [events |-> <<>>, consumed |-> 0, search |-> start]
<1>1. Decoder!Drain(text, start) = Draining!Fold(base, q)
  BY DEF Decoder!Drain, Decoder!FoldLeft, Decoder!MapThenFoldSet, Decoder!Max,
         Draining!Fold, Draining!Folded, Draining!Max
<1>2. n \in Nat
  BY LenProperties
<1> HIDE DEF n
<1>3. DOMAIN q = 1 .. n /\ \A i \in 1 .. n : q[i] = text
  OBVIOUS
<1>4. base \in Drains(text)
  <2> DEFINE S == Read(text)
  <2>1. <<>> \in Seq(S) /\ 0 \in 0 .. n
    BY <1>2
  <2> QED
    BY <2>1 DEF Drains, n
<1> HIDE DEF q, base
<1>5. \A x \in Drains(text) : \A i \in 1 .. n : Decoder!DrainEvent(x, q[i]) \in Drains(text)
  BY <1>3, DrainEventKeeps
<1> DEFINE D == Drains(text)
<1> HIDE DEF D
<1>6. Draining!Fold(base, q) \in D
  BY <1>2, <1>3, <1>4, <1>5, DrainingCounts, Draining!FoldKeeps DEF D
<1> QED
  BY <1>1, <1>6 DEF D

(* What is applied: a stream is complete only with a mark.                 *)
Applied(s, text) ==
    /\ s = [applied |-> s.applied, complete |-> s.complete, error |-> s.error]
    /\ s.error \in {"none", "malformed", "finish_error"}
    /\ s.complete => MarkEnds(text)

LEMMA MakeApplied ==
    ASSUME NEW text, NEW a, NEW c, NEW error \in {"none", "malformed", "finish_error"},
           NEW n, n = [applied |-> a, complete |-> c, error |-> error],
           c => MarkEnds(text)
    PROVE  Applied(n, text)
<1>1. n.applied = a /\ n.complete = c /\ n.error = error
  OBVIOUS
<1>2. n = [applied |-> n.applied, complete |-> n.complete, error |-> n.error]
  BY <1>1
<1>3. n.complete => MarkEnds(text)
  BY <1>1
<1> QED
  BY <1>1, <1>2, <1>3 DEF Applied

LEMMA ApplyEventKeeps ==
    ASSUME NEW text, NEW s, Applied(s, text), NEW v \in Read(text)
    PROVE  Applied(Decoder!ApplyEvent(s, v), text)
<1> DEFINE n == Decoder!ApplyEvent(s, v)
           done == streamBody.responses /\ Decoder!Contains(v.data, "c")
<1> SUFFICES Applied(n, text)
  OBVIOUS
<1>1. v.data \in Seq(Units) /\ \A i \in 1 .. Len(v.data) : v.data[i] \in Marks => MarkEnds(text)
  BY DEF Read, EventOf
<1>2. Decoder!IsDone(v.data) => MarkEnds(text)
  <2>1. DOMAIN v.data = 1 .. Len(v.data)
    BY <1>1, LenProperties
  <2> QED
    BY <1>1, <2>1 DEF Decoder!IsDone, Marks
<1>3. done => MarkEnds(text)
  BY <1>1 DEF Decoder!Contains, Marks
<1>4. /\ s = [applied |-> s.applied, complete |-> s.complete, error |-> s.error]
      /\ s.error \in {"none", "malformed", "finish_error"}
      /\ s.complete => MarkEnds(text)
  BY DEF Applied
<1>5. \/ n = s
      \/ Decoder!IsDone(v.data) /\ n = [s EXCEPT !.complete = TRUE]
      \/ n = [s EXCEPT !.error = "malformed"]
      \/ n = [s EXCEPT !.error = "finish_error"]
      \/ n = [s EXCEPT !.applied = Append(@, v.data), !.complete = done]
  BY DEF Decoder!ApplyEvent
<1> HIDE DEF n, done
<1> DEFINE yes == TRUE
<1> HIDE DEF yes
<1>6. CASE n = s
  BY <1>6
<1>7. CASE Decoder!IsDone(v.data) /\ n = [s EXCEPT !.complete = TRUE]
  <2>1. n = [applied |-> s.applied, complete |-> yes, error |-> s.error]
    BY <1>4, <1>7 DEF yes
  <2> QED
    BY <1>2, <1>4, <1>7, <2>1, MakeApplied
<1>8. CASE n = [s EXCEPT !.error = "malformed"]
  <2>1. n = [applied |-> s.applied, complete |-> s.complete, error |-> "malformed"]
    BY <1>4, <1>8
  <2> QED
    BY <1>4, <2>1, MakeApplied
<1>9. CASE n = [s EXCEPT !.error = "finish_error"]
  <2>1. n = [applied |-> s.applied, complete |-> s.complete, error |-> "finish_error"]
    BY <1>4, <1>9
  <2> QED
    BY <1>4, <2>1, MakeApplied
<1>10. CASE n = [s EXCEPT !.applied = Append(@, v.data), !.complete = done]
  <2>1. n = [applied |-> Append(s.applied, v.data), complete |-> done, error |-> s.error]
    BY <1>4, <1>10
  <2> QED
    BY <1>3, <1>4, <2>1, MakeApplied
<1> QED
  BY <1>5, <1>6, <1>7, <1>8, <1>9, <1>10

LEMMA ApplyEventsKeep ==
    ASSUME NEW text, NEW done, NEW events \in Seq(Read(text))
    PROVE  Applied(Decoder!ApplyEvents(done, events), text)
<1> DEFINE n == Len(events)
           no == FALSE
           base == [applied |-> done, complete |-> no, error |-> "none"]
           S == Read(text)
<1>1. Decoder!ApplyEvents(done, events) = Applying!Fold(base, events)
  BY DEF Decoder!ApplyEvents, Decoder!FoldLeft, Decoder!MapThenFoldSet, Decoder!Max,
         Applying!Fold, Applying!Folded, Applying!Max
<1>2. n \in Nat /\ DOMAIN events = 1 .. n /\ \A i \in 1 .. n : events[i] \in S
  <2> HIDE DEF S
  <2>1. events \in Seq(S)
    BY DEF S
  <2> QED
    BY <2>1, LenProperties, ElementOfSeq
<1>3. Applied(base, text)
  BY DEF Applied
<1> HIDE DEF n, base
<1> DEFINE m(i) == Applying!FoldTo(base, events, i)
<1>4. /\ m(0) = base
      /\ \A i \in 1 .. n : m(i) = Decoder!ApplyEvent(m(i - 1), events[i])
      /\ Applying!Fold(base, events) = m(n)
  <2>1. n \in Nat /\ DOMAIN events = 1 .. n
    BY <1>2
  <2> QED
    BY ONLY <2>1, ApplyingCounts, Applying!FoldSteps, Zenon
<1> HIDE DEF m
<1> DEFINE T == {i \in 0 .. n : Applied(m(i), text)}
<1>5. 0 \in T
  BY <1>2, <1>3, <1>4
<1>6. ASSUME NEW i \in 1 .. n, i - 1 \in T PROVE i \in T
  <2>1. Applied(m(i - 1), text) /\ events[i] \in Read(text)
    BY <1>2, <1>6
  <2>2. Applied(Decoder!ApplyEvent(m(i - 1), events[i]), text)
    BY <2>1, ApplyEventKeeps
  <2>3. m(i) = Decoder!ApplyEvent(m(i - 1), events[i]) /\ i \in 0 .. n
    BY <1>2, <1>4
  <2> QED
    BY <2>2, <2>3
<1> HIDE DEF T
<1>7. \A i \in 0 .. n : i \in T
  BY <1>2, <1>5, <1>6, InductiveUpTo
<1> QED
  BY <1>1, <1>2, <1>4, <1>7 DEF T

(* How many bytes have been decoded.                                       *)
Done == IF streamPending = <<>> THEN streamAt ELSE streamAt - 1
TurnIsWhole(n) == \E k \in 1 .. n, j \in 1 .. n :
                      k < j /\ Bytes[k] \in Marks /\ Decoder!EndsAt(Bytes, 0, j)

(* Every byte that has arrived is in one place: what of a stream is not    *)
(* drained is in the buffer, or an incomplete character is pending, and a  *)
(* body that is not a stream, or not yet known to be one, is kept whole.   *)
StreamInv ==
    /\ \E p : Traced(streamBuffer, p, Done)
    /\ streamPending = <<"L">> => streamAt > 0 /\ Bytes[streamAt] = "L"
    /\ streamResult = "turn" => TurnIsWhole(streamAt)
BodyInv ==
    /\ streamPending = <<>> /\ streamBuffer = <<>>
    /\ streamSse = "no" => streamRaw = Decoder!Arrived /\ streamHead = <<>>
    /\ streamSse = "unknown" => streamRaw = <<>> /\ streamHead = Decoder!Arrived
    /\ streamResult = "turn" => AllThere(streamAt)
DecoderInv ==
    /\ streamBody \in Bodies /\ streamAt \in 0 .. Len(Bytes)
    /\ streamScanned \in Nat /\ streamPending \in {<<>>, <<"L">>}
    /\ streamSse \in {"unknown", "yes", "no"}
    /\ streamSse = "yes" => StreamInv
    /\ streamSse # "yes" => BodyInv

LEMMA DecoderInvWhole ==
    ASSUME DecoderInv PROVE Decoder!NoTurnFromATruncation
<1>1. ASSUME streamSse = "yes", streamResult = "turn" PROVE TurnIsWhole(streamAt)
  BY <1>1 DEF DecoderInv, StreamInv
<1>2. ASSUME streamSse # "yes", streamResult = "turn" PROVE AllThere(streamAt)
  BY <1>2 DEF DecoderInv, BodyInv
<1> QED
  BY <1>1, <1>2 DEF Decoder!NoTurnFromATruncation, TurnIsWhole, Marks, Bytes, AllThere

LEMMA DecoderBegin ==
    ASSUME Decoder!BodiesAssumption, Decoder!StreamInit PROVE DecoderInv
<1>1. streamBody \in Bodies /\ streamAt = 0 /\ streamScanned = 0 /\ streamPending = <<>>
      /\ streamBuffer = <<>> /\ streamHead = <<>> /\ streamRaw = <<>> /\ streamSse = "unknown"
      /\ streamResult = "none"
  BY DEF Decoder!StreamInit
<1>2. Len(Bytes) \in Nat
  BY <1>1, BodyParts
<1>3. Decoder!Arrived = <<>>
  BY <1>1, SubSeqEmpty DEF Decoder!Arrived
<1> QED
  BY <1>1, <1>2, <1>3 DEF DecoderInv, BodyInv

(* A chunk of a stream: what has been decoded so far is in the buffer.     *)
Follows(chunk, low, n) ==
    /\ DOMAIN (streamPending \o chunk) = 1 .. n /\ low + n <= Len(Bytes)
    /\ \A i \in 1 .. n : (streamPending \o chunk)[i] = Bytes[low + i]
Pushed(n) ==
    /\ streamPending' \in {<<>>, <<"L">>} /\ streamScanned' \in Nat
    /\ streamPending' = <<"L">> => n > 0 /\ Bytes[n] = "L"
    /\ \E q : Traced(streamBuffer', q, IF streamPending' = <<>> THEN n ELSE n - 1)
    /\ streamResult' = "turn" => TurnIsWhole(n)

LEMMA PushSseKeeps ==
    ASSUME Decoder!BodiesAssumption, streamBody \in Bodies, streamScanned \in Nat,
           NEW p, NEW low \in Nat, Traced(streamBuffer, p, low),
           NEW chunk, NEW n \in Nat, Follows(chunk, low, n), Decoder!PushSse(chunk)
    PROVE  Pushed(low + n)
<1> DEFINE decoded == Decoder!Decode(streamPending, chunk)
           text == streamBuffer \o decoded.text
           drained == Decoder!Drain(text, streamScanned)
           rest == SubSeq(text, drained.consumed + 1, Len(text))
           after == Decoder!ApplyEvents(streamApplied, drained.events)
           hi == IF decoded.rest = <<>> THEN low + n ELSE low + n - 1
<1>1. /\ streamPending' = decoded.rest /\ streamBuffer' = rest
      /\ streamScanned' = Decoder!Rescan(Len(rest))
      /\ streamResult' = IF after.error # "none" THEN after.error
                         ELSE IF after.complete THEN "turn" ELSE "none"
  BY DEF Decoder!PushSse
<1>2. streamBuffer \in Seq(Units)
  BY DEF Traced
<1>3. Decoded(decoded, streamBuffer, low + n)
  BY <1>2, DecodeKeeps DEF Follows
<1> HIDE DEF decoded
<1>4. /\ decoded.text \in Seq(Units) /\ decoded.rest \in {<<>>, <<"L">>}
      /\ decoded.rest = <<"L">> => low + n > 0 /\ Bytes[low + n] = "L"
  BY <1>3 DEF Decoded
<1>5. PICK q : Traced(text, q, hi)
  BY <1>3 DEF Decoded
<1>6. text \in Seq(Units)
  BY <1>5 DEF Traced
<1> HIDE DEF text
<1>7. Len(text) \in Nat
  BY <1>6, LenProperties
<1>8. drained \in Drains(text)
  BY <1>6, DrainKeeps
<1> HIDE DEF drained
<1>9. drained.events \in Seq(Read(text)) /\ drained.consumed \in 0 .. Len(text)
  BY <1>8 DEF Drains
<1>10. Applied(after, text)
  BY <1>9, ApplyEventsKeep
<1>11. Traced(rest, SubSeq(q, drained.consumed + 1, Len(text)), hi)
  <2> HIDE DEF hi
  <2> QED
    BY <1>5, <1>9, TraceOfRest
<1>12. Len(rest) \in Nat
  <2> HIDE DEF rest, hi
  <2>1. rest \in Seq(Units)
    BY <1>11 DEF Traced
  <2> QED
    BY <2>1, LenProperties
<1>13. Decoder!Rescan(Len(rest)) \in Nat
  <2> DEFINE m == Len(rest)
  <2>1. m \in Nat
    BY <1>12
  <2> HIDE DEF m
  <2>2. \A x \in Nat : x > 3 => x - 3 \in Nat
    OBVIOUS
  <2>3. Decoder!Rescan(m) \in Nat
    BY ONLY <2>1, <2>2 DEF Decoder!Rescan
  <2> QED
    BY <2>3 DEF m
<1>14. after.error \in {"none", "malformed", "finish_error"} /\ (after.complete => MarkEnds(text))
  BY <1>10 DEF Applied
<1> HIDE DEF after
<1>15. streamResult' = "turn" => MarkEnds(text)
  BY <1>1, <1>14
<1>16. MarkEnds(text) => TurnIsWhole(low + n)
  <2> SUFFICES ASSUME MarkEnds(text) PROVE TurnIsWhole(low + n)
    OBVIOUS
  <2>1. PICK k \in 1 .. Len(text), e \in 1 .. Len(text) :
            k < e /\ text[k] \in Marks /\ Decoder!EndsAt(text, 0, e)
    BY DEF MarkEnds
  <2>2. hi <= low + n /\ hi \in Int
    OBVIOUS
  <2> HIDE DEF hi
  <2>3. PICK i \in 1 .. hi, j \in 1 .. hi :
            i < j /\ Bytes[i] \in Marks /\ Decoder!EndsAt(Bytes, 0, j)
    BY <1>5, <2>1, MarkIsInBody
  <2>4. i \in 1 .. low + n /\ j \in 1 .. low + n
    BY <2>2
  <2> QED
    BY <2>3, <2>4 DEF TurnIsWhole
<1> HIDE DEF rest
<1>17. \E r : Traced(streamBuffer', r,
                     IF streamPending' = <<>> THEN low + n ELSE low + n - 1)
  <2>1. Traced(streamBuffer', SubSeq(q, drained.consumed + 1, Len(text)), hi)
    BY <1>1, <1>11
  <2>2. hi = IF streamPending' = <<>> THEN low + n ELSE low + n - 1
    BY <1>1
  <2> QED
    BY <2>1, <2>2
<1> QED
  BY <1>1, <1>4, <1>13, <1>15, <1>16, <1>17 DEF Pushed

(* The bytes of a chunk follow those that have arrived.                    *)
LEMMA ChunkFollows ==
    ASSUME Decoder!BodiesAssumption, streamBody \in Bodies, streamAt \in 0 .. Len(Bytes),
           NEW k \in Nat \ {0}, streamAt + k <= Len(Bytes)
    PROVE  /\ Decoder!Arrive(k) \in Seq(Decoder!ToSet(Bytes)) /\ Len(Decoder!Arrive(k)) = k
           /\ \A i \in 1 .. k : Decoder!Arrive(k)[i] = Bytes[streamAt + i]
           /\ Decoder!Arrived \o Decoder!Arrive(k) = SubSeq(Bytes, 1, streamAt + k)
           /\ streamAt + k \in Nat /\ streamAt \in Nat
<1> DEFINE S == Decoder!ToSet(Bytes)
           B == Bytes
           n == Len(B)
           t == streamAt
           u == SubSeq(B, t + 1, t + k)
<1>1. Decoder!Arrive(k) = u /\ Decoder!Arrived = SubSeq(B, 1, t)
  BY DEF Decoder!Arrive, Decoder!Arrived, Bytes
<1>2. B \in Seq(S) /\ n \in Nat
  BY BodyParts
<1>3. t \in Nat /\ t + k \in Nat /\ t + k <= n /\ t \in 0 .. n
  BY <1>2
<1> HIDE DEF S, B, n
<1>4. /\ t + 1 \in Nat /\ 1 <= t + 1 /\ t + 1 <= t + k /\ (t + k) - (t + 1) + 1 = k
      /\ \A i \in 1 .. k : (t + 1) + i - 1 = t + i
  BY <1>3
<1>5. /\ u \in Seq(S)
      /\ Len(u) = IF t + 1 <= t + k THEN (t + k) - (t + 1) + 1 ELSE 0
      /\ \A i \in 1 .. (t + k) - (t + 1) + 1 : u[i] = B[(t + 1) + i - 1]
  <2>1. t + k <= Len(B)
    BY <1>3 DEF n
  <2> QED
    BY ONLY <1>2, <1>3, <1>4, <2>1, PartOf
<1> HIDE DEF u
<1>6. Len(u) = k /\ \A i \in 1 .. k : u[i] = B[t + i]
  BY <1>4, <1>5
<1>7. SubSeq(B, 1, t) \o u = SubSeq(B, 1, t + k)
  <2>1. 1 \in 1 .. Len(B) + 1 /\ t \in 1 - 1 .. Len(B) /\ t + k \in t .. Len(B)
    BY <1>2, <1>3 DEF n
  <2>2. SubSeq(B, 1, t) \o SubSeq(B, t + 1, t + k) = SubSeq(B, 1, t + k)
    BY ONLY <1>2, <2>1, ConcatAdjacentSubSeq
  <2> QED
    BY <2>2 DEF u
<1> QED
  BY <1>1, <1>3, <1>5, <1>6, <1>7 DEF S, B

(* A chunk of what is known to be a stream.                                *)
LEMMA StreamGoesOn ==
    ASSUME Decoder!BodiesAssumption, DecoderInv, streamSse = "yes",
           NEW k \in Nat \ {0}, streamAt + k <= Len(Bytes),
           Decoder!PushSse(Decoder!Arrive(k))
    PROVE  Pushed(streamAt + k)
<1> DEFINE t == streamAt
           u == Decoder!Arrive(k)
           S == Decoder!ToSet(Bytes)
<1>1. /\ streamBody \in Bodies /\ t \in 0 .. Len(Bytes) /\ streamScanned \in Nat
      /\ streamPending \in {<<>>, <<"L">>}
      /\ streamPending = <<"L">> => t > 0 /\ Bytes[t] = "L"
  BY DEF DecoderInv, StreamInv
<1>2. PICK p : Traced(streamBuffer, p, Done)
  BY DEF DecoderInv, StreamInv
<1>3. /\ u \in Seq(S) /\ Len(u) = k
      /\ \A i \in 1 .. k : u[i] = Bytes[t + i]
      /\ t + k \in Nat /\ t \in Nat
  BY <1>1, ChunkFollows
<1> HIDE DEF u, S, t
<1>4. CASE streamPending = <<>>
  <2>1. streamPending \o u = u
    BY <1>3, <1>4, ConcatEmptySeq
  <2>2. DOMAIN (streamPending \o u) = 1 .. k
    BY <1>3, <2>1, LenProperties
  <2>3. Traced(streamBuffer, p, t)
    BY <1>2, <1>4 DEF Done, t
  <2>4. t + k <= Len(Bytes)
    BY DEF t
  <2>5. Decoder!PushSse(u)
    BY DEF u
  <2>6. \A i \in 1 .. k : (streamPending \o u)[i] = Bytes[t + i]
    BY <1>3, <2>1
  <2> QED
    <3>1. Follows(u, t, k)
      BY <2>2, <2>4, <2>6 DEF Follows
    <3> QED
      BY <1>1, <1>3, <2>3, <2>5, <3>1, PushSseKeeps DEF t
<1>5. CASE streamPending = <<"L">>
  <2> DEFINE low == t - 1
             n == k + 1
             X == S \cup {"L"}
             l == <<"L">>
             w == l \o u
  <2>1. t > 0 /\ Bytes[t] = "L"
    BY <1>1, <1>5
  <2>2. /\ low \in Nat /\ n \in Nat /\ low + n = t + k /\ low + 1 = t
        /\ \A i \in 1 .. n : i = 1 \/ (i - 1 \in 1 .. k /\ ~ i <= 1 /\ t + (i - 1) = low + i)
    BY <1>3, <2>1
  <2>3. l \in Seq(X) /\ Len(l) = 1 /\ l[1] = "L"
    OBVIOUS
  <2>4. u \in Seq(X)
    BY <1>3, SeqOfMore
  <2> HIDE DEF l, X, low, n
  <2>5. /\ w \in Seq(X) /\ Len(w) = Len(l) + Len(u)
        /\ \A i \in 1 .. Len(l) + Len(u) : w[i] = IF i <= Len(l) THEN l[i] ELSE u[i - Len(l)]
    BY <2>3, <2>4, ConcatProperties
  <2> HIDE DEF w
  <2>6. Len(l) + Len(u) = n
    BY <1>3, <2>3 DEF n
  <2>7. DOMAIN w = 1 .. n
    BY <2>5, <2>6, LenProperties
  <2>8. \A i \in 1 .. n : w[i] = Bytes[low + i]
    <3> SUFFICES ASSUME NEW i \in 1 .. n PROVE w[i] = Bytes[low + i]
      OBVIOUS
    <3>1. w[i] = IF i <= 1 THEN l[i] ELSE u[i - 1]
      BY <2>3, <2>5, <2>6
    <3>2. CASE i = 1
      BY <2>1, <2>2, <2>3, <3>1, <3>2
    <3>3. CASE i # 1
      BY <1>3, <2>2, <3>1, <3>3
    <3> QED
      BY <3>2, <3>3
  <2>9. streamPending \o u = w
    BY <1>5 DEF l, w
  <2>10. Traced(streamBuffer, p, low)
    <3>1. <<"L">> # <<>>
      OBVIOUS
    <3> QED
      BY <1>2, <1>5, <3>1 DEF Done, t, low
  <2>11. low + n <= Len(Bytes)
    BY <2>2 DEF t
  <2>12. Decoder!PushSse(u)
    BY DEF u
  <2>13. DOMAIN (streamPending \o u) = 1 .. n
         /\ \A i \in 1 .. n : (streamPending \o u)[i] = Bytes[low + i]
    BY <2>7, <2>8, <2>9
  <2>14. Follows(u, low, n)
    BY <2>11, <2>13 DEF Follows
  <2>15. Pushed(low + n)
    BY <1>1, <2>2, <2>10, <2>12, <2>14, PushSseKeeps
  <2> QED
    BY <2>2, <2>15 DEF t
<1> QED
  BY <1>1, <1>4, <1>5

(* The first chunk after which a body is known to be a stream.             *)
LEMMA StreamBegins ==
    ASSUME Decoder!BodiesAssumption, DecoderInv, streamSse = "unknown",
           NEW k \in Nat \ {0}, streamAt + k <= Len(Bytes),
           Decoder!PushSse(streamHead \o Decoder!Arrive(k))
    PROVE  Pushed(streamAt + k)
<1> DEFINE n == streamAt + k
           S == Decoder!ToSet(Bytes)
           u == SubSeq(Bytes, 1, n)
           low == 0
           p == <<>>
<1>1. /\ streamBody \in Bodies /\ streamAt \in 0 .. Len(Bytes) /\ streamScanned \in Nat
      /\ streamPending = <<>> /\ streamBuffer = <<>> /\ streamHead = Decoder!Arrived
  BY DEF DecoderInv, BodyInv
<1>2. n \in Nat /\ streamHead \o Decoder!Arrive(k) = u
  BY <1>1, ChunkFollows
<1>3. Bytes \in Seq(S) /\ Len(Bytes) \in Nat
  BY <1>1, BodyParts
<1>4. Decoder!PushSse(u)
  BY <1>2
<1>5. n <= Len(Bytes)
  OBVIOUS
<1> HIDE DEF n, S
<1>6. /\ u \in Seq(S)
      /\ Len(u) = IF 1 <= n THEN n - 1 + 1 ELSE 0
      /\ \A i \in 1 .. n - 1 + 1 : u[i] = Bytes[1 + i - 1]
  <2>1. 1 \in Nat /\ 1 <= 1
    OBVIOUS
  <2> QED
    BY ONLY <1>2, <1>3, <1>5, <2>1, PartOf
<1> HIDE DEF u
<1>7. Len(u) = n /\ \A i \in 1 .. n : u[i] = Bytes[low + i]
  BY <1>2, <1>6
<1>8. DOMAIN u = 1 .. n
  BY <1>6, <1>7, LenProperties
<1>9. streamPending \o u = u
  BY <1>1, <1>6, ConcatEmptySeq
<1>10. Traced(streamBuffer, p, low)
  <2>1. <<>> \in Seq(Units) /\ <<>> \in Seq(Nat \ {0}) /\ Len(<<>>) = 0
    OBVIOUS
  <2>2. 0 \in 0 .. Len(Bytes)
    BY <1>3
  <2> QED
    BY <1>1, <2>1, <2>2 DEF Traced
<1>11. low \in Nat /\ low + n = n
  BY <1>2
<1> HIDE DEF low, p
<1>12. low + n <= Len(Bytes)
  BY <1>5, <1>11
<1>13. DOMAIN (streamPending \o u) = 1 .. n
       /\ \A i \in 1 .. n : (streamPending \o u)[i] = Bytes[low + i]
  BY <1>7, <1>8, <1>9
<1>14. Follows(u, low, n)
  BY <1>12, <1>13 DEF Follows
<1>15. Pushed(low + n)
  BY <1>1, <1>2, <1>4, <1>10, <1>11, <1>14, PushSseKeeps
<1> QED
  BY <1>11, <1>15 DEF n

(* What holds after a chunk or an end, when the body is as it was.         *)
LEMMA StreamStays ==
    ASSUME streamBody' = streamBody, streamBody \in Bodies,
           streamAt' \in 0 .. Len(Bytes), streamSse' = "yes", Pushed(streamAt')
    PROVE  DecoderInv'
<1>1. Bytes' = Bytes /\ Units' = Units
  BY DEF Bytes, Units
<1>2. PICK q : Traced(streamBuffer', q, IF streamPending' = <<>> THEN streamAt' ELSE streamAt' - 1)
  BY DEF Pushed
<1>3. \E p : Traced(streamBuffer, p, Done)'
  BY <1>1, <1>2 DEF Traced, Done, Bytes, Units
<1>4. streamResult' = "turn" => TurnIsWhole(streamAt)'
  <2>1. streamResult' = "turn" => TurnIsWhole(streamAt')
    BY DEF Pushed
  <2> QED
    BY <1>1, <2>1 DEF TurnIsWhole
<1>5. streamPending' = <<"L">> => streamAt' > 0 /\ Bytes'[streamAt'] = "L"
  BY <1>1 DEF Pushed
<1>6. StreamInv'
  BY <1>3, <1>4, <1>5 DEF StreamInv
<1>7. streamPending' \in {<<>>, <<"L">>} /\ streamScanned' \in Nat
  BY DEF Pushed
<1> QED
  BY <1>1, <1>6, <1>7 DEF DecoderInv

LEMMA PushKeeps ==
    ASSUME Decoder!BodiesAssumption, DecoderInv,
           NEW k \in 1 .. Len(streamBody.bytes), Decoder!Push(k)
    PROVE  DecoderInv'
<1>1. /\ streamResult = "none" /\ streamAt + k <= Len(Bytes) /\ streamAt' = streamAt + k
      /\ streamBody' = streamBody
  BY DEF Decoder!Push, Bytes
<1>2. /\ streamBody \in Bodies /\ streamAt \in 0 .. Len(Bytes)
      /\ streamScanned \in Nat /\ streamSse \in {"unknown", "yes", "no"}
  BY DEF DecoderInv
<1>3. k \in Nat \ {0} /\ streamAt' \in 0 .. Len(Bytes)
  <2>1. Len(Bytes) \in Nat
    BY <1>2, BodyParts
  <2> QED
    BY <1>1, <1>2, <2>1 DEF Bytes
<1>4. /\ Decoder!Arrived' = SubSeq(Bytes, 1, streamAt + k)
      /\ Decoder!Arrived \o Decoder!Arrive(k) = SubSeq(Bytes, 1, streamAt + k)
  <2>1. Decoder!Arrived' = SubSeq(Bytes, 1, streamAt + k)
    BY <1>1 DEF Decoder!Arrived, Bytes
  <2> QED
    BY <1>1, <1>2, <1>3, <2>1, ChunkFollows
<1>5. CASE streamSse = "yes"
  <2>1. Decoder!PushSse(Decoder!Arrive(k)) /\ streamSse' = "yes"
    BY <1>5 DEF Decoder!Push
  <2>2. Pushed(streamAt + k)
    BY <1>1, <1>3, <1>5, <2>1, StreamGoesOn
  <2> QED
    BY <1>1, <1>2, <1>3, <2>1, <2>2, StreamStays
<1>6. CASE streamSse = "no"
  <2>1. /\ streamRaw' = streamRaw \o Decoder!Arrive(k)
        /\ UNCHANGED <<streamPending, streamBuffer, streamScanned, streamHead, streamSse,
                       streamApplied, streamResult>>
    BY <1>6 DEF Decoder!Push
  <2>2. /\ streamPending = <<>> /\ streamBuffer = <<>> /\ streamHead = <<>>
        /\ streamRaw = Decoder!Arrived
    BY <1>6 DEF DecoderInv, BodyInv
  <2>3. Bytes' = Bytes
    BY <1>1 DEF Bytes
  <2>4. BodyInv'
    BY <1>1, <1>4, <1>6, <2>1, <2>2 DEF BodyInv
  <2> QED
    BY <1>1, <1>2, <1>3, <1>6, <2>1, <2>2, <2>3, <2>4 DEF DecoderInv
<1>7. CASE streamSse = "unknown"
  <2> DEFINE known == streamHead \o Decoder!Arrive(k)
  <2>1. /\ streamSse' = Decoder!DetectSse(known)
        /\ streamHead' = IF streamSse' = "unknown" THEN known ELSE <<>>
        /\ streamRaw' = IF streamSse' = "no" THEN known ELSE streamRaw
        /\ IF streamSse' = "yes" THEN Decoder!PushSse(known)
           ELSE UNCHANGED <<streamPending, streamBuffer, streamScanned, streamApplied,
                            streamResult>>
    BY <1>7 DEF Decoder!Push
  <2>2. streamSse' \in {"yes", "no", "unknown"}
    <3> HIDE DEF known
    <3> QED
      BY <2>1 DEF Decoder!DetectSse
  <2>3. /\ streamPending = <<>> /\ streamBuffer = <<>> /\ streamRaw = <<>>
        /\ streamHead = Decoder!Arrived
    BY <1>7 DEF DecoderInv, BodyInv
  <2>4. Decoder!Arrived' = known
    BY <1>4, <2>3
  <2>5. CASE streamSse' = "yes"
    <3>1. Decoder!PushSse(streamHead \o Decoder!Arrive(k))
      BY <2>1, <2>5
    <3>2. Pushed(streamAt + k)
      BY <1>1, <1>3, <1>7, <3>1, StreamBegins
    <3> QED
      BY <1>1, <1>2, <1>3, <2>5, <3>2, StreamStays
  <2>6. CASE streamSse' # "yes"
    <3> HIDE DEF known
    <3>1. UNCHANGED <<streamPending, streamBuffer, streamScanned, streamResult>>
      BY <2>1, <2>6
    <3>2. BodyInv'
      BY <1>1, <2>1, <2>2, <2>3, <2>4, <2>6, <3>1 DEF BodyInv
    <3>3. Bytes' = Bytes
      BY <1>1 DEF Bytes
    <3> QED
      BY <1>1, <1>2, <1>3, <2>2, <2>3, <2>6, <3>1, <3>2, <3>3 DEF DecoderInv
  <2> QED
    BY <2>5, <2>6
<1> QED
  BY <1>2, <1>5, <1>6, <1>7

(* A body that ends is a turn only as a whole JSON value.                  *)
LEMMA FinishKeeps ==
    ASSUME Decoder!BodiesAssumption, DecoderInv, Decoder!Finish PROVE DecoderInv'
<1>1. /\ streamResult' = IF Decoder!ErrorAtEnd = "none" THEN "turn" ELSE Decoder!ErrorAtEnd
      /\ UNCHANGED <<streamBody, streamAt, streamPending, streamBuffer, streamScanned,
                     streamHead, streamRaw, streamSse>>
  BY DEF Decoder!Finish
<1>2. /\ streamBody \in Bodies /\ streamAt \in 0 .. Len(Bytes)
      /\ streamScanned \in Nat /\ streamPending \in {<<>>, <<"L">>}
      /\ streamSse \in {"unknown", "yes", "no"}
  BY DEF DecoderInv
<1>3. Bytes' = Bytes /\ Units' = Units /\ Decoder!Arrived' = Decoder!Arrived
  BY <1>1 DEF Bytes, Units, Decoder!Arrived
<1> DEFINE A == Decoder!Arrived
<1>4. ASSUME streamResult' = "turn"
      PROVE  streamSse # "yes" /\ Decoder!JsonError(streamRaw \o streamHead) = "none"
  BY <1>1, <1>4 DEF Decoder!ErrorAtEnd, Decoder!JsonError
<1>5. CASE streamSse = "yes"
  <2>1. streamResult' # "turn"
    BY <1>4, <1>5
  <2>2. (\E p : Traced(streamBuffer, p, Done)) /\ (streamPending = <<"L">> => streamAt > 0 /\ Bytes[streamAt] = "L")
    BY <1>5 DEF DecoderInv, StreamInv
  <2>3. \E p : Traced(streamBuffer, p, Done)'
    BY <1>1, <1>3, <2>2 DEF Traced, Done, Bytes, Units
  <2>4. StreamInv'
    BY <1>1, <1>3, <2>1, <2>2, <2>3 DEF StreamInv
  <2> QED
    BY <1>1, <1>2, <1>3, <1>5, <2>4 DEF DecoderInv
<1>6. CASE streamSse # "yes"
  <2>1. /\ streamPending = <<>> /\ streamBuffer = <<>>
        /\ streamSse = "no" => streamRaw = A /\ streamHead = <<>>
        /\ streamSse = "unknown" => streamRaw = <<>> /\ streamHead = A
    BY <1>6 DEF DecoderInv, BodyInv
  <2>2. /\ Bytes \in Seq(Decoder!ToSet(Bytes)) /\ Len(Bytes) \in Nat
        /\ \A i \in 1 .. Len(Bytes) : Bytes[i] = "}" => AllThere(i)
    BY <1>2, BodyParts
  <2>3. streamAt \in Nat /\ streamAt <= Len(Bytes)
    <3> DEFINE t == streamAt
               n == Len(Bytes)
    <3>1. n \in Nat /\ t \in 0 .. n
      BY <1>2, <2>2
    <3> HIDE DEF t, n
    <3>2. t \in Nat /\ t <= n
      BY ONLY <3>1
    <3> QED
      BY <3>2 DEF t, n
  <2>4. /\ A \in Seq(Decoder!ToSet(Bytes))
        /\ Len(A) = IF 1 <= streamAt THEN streamAt - 1 + 1 ELSE 0
        /\ \A i \in 1 .. streamAt - 1 + 1 : A[i] = Bytes[1 + i - 1]
    <3> DEFINE S == Decoder!ToSet(Bytes)
               B == Bytes
    <3>1. B \in Seq(S)
      BY <2>2
    <3>2. 1 \in Nat /\ 1 <= 1 /\ streamAt \in Nat /\ streamAt <= Len(B)
      BY <2>3
    <3>3. A = SubSeq(B, 1, streamAt)
      BY DEF Decoder!Arrived, Bytes
    <3> HIDE DEF S, B, A
    <3>4. /\ A \in Seq(S)
          /\ Len(A) = IF 1 <= streamAt THEN streamAt - 1 + 1 ELSE 0
          /\ \A i \in 1 .. streamAt - 1 + 1 : A[i] = B[1 + i - 1]
      BY ONLY <3>1, <3>2, <3>3, PartOf
    <3> QED
      BY <3>4 DEF S, B
  <2> HIDE DEF A
  <2>5. streamRaw \o streamHead = A
    BY <1>2, <1>6, <2>1, <2>4, ConcatEmptySeq
  <2>6. ASSUME streamResult' = "turn" PROVE AllThere(streamAt)
    <3>1. Decoder!JsonError(A) = "none"
      BY <1>4, <2>5, <2>6
    <3>2. PICK i \in DOMAIN A : A[i] = "}" /\ \A j \in i + 1 .. Len(A) : A[j] \in Decoder!White
      BY <3>1 DEF Decoder!JsonError, Decoder!IsJson
    <3>3. DOMAIN A = 1 .. Len(A)
      BY <2>4, LenProperties
    <3>4. i \in 1 .. streamAt /\ Len(A) = streamAt
      <4> DEFINE t == streamAt
                 l == Len(A)
      <4>1. t \in Nat /\ i \in 1 .. l /\ l = IF 1 <= t THEN t - 1 + 1 ELSE 0
        BY <2>3, <2>4, <3>2, <3>3
      <4> HIDE DEF t, l
      <4>2. i \in 1 .. t /\ l = t
        BY ONLY <4>1
      <4> QED
        BY <4>2 DEF t, l
    <3>5. \A j \in 1 .. streamAt : A[j] = Bytes[j]
      <4> DEFINE t == streamAt
                 B == Bytes
      <4>1. t \in Nat /\ \A j \in 1 .. t - 1 + 1 : A[j] = B[1 + j - 1]
        BY <2>3, <2>4
      <4> HIDE DEF t, B
      <4>2. \A j \in 1 .. t : j \in 1 .. t - 1 + 1 /\ 1 + j - 1 = j
        BY ONLY <4>1
      <4>3. \A j \in 1 .. t : A[j] = B[j]
        BY ONLY <4>1, <4>2, Zenon
      <4> QED
        BY <4>3 DEF t, B
    <3>6. \A j \in 1 .. streamAt : j \in 1 .. Len(Bytes)
      <4> DEFINE t == streamAt
                 n == Len(Bytes)
      <4>1. n \in Nat /\ t \in Nat /\ t <= n
        BY <2>2, <2>3
      <4> HIDE DEF t, n
      <4>2. \A j \in 1 .. t : j \in 1 .. n
        BY ONLY <4>1
      <4> QED
        BY <4>2 DEF t, n
    <3>7. AllThere(i)
      BY ONLY <2>2, <3>2, <3>4, <3>5, <3>6
    <3>8. \A j \in streamAt + 1 .. Len(Bytes) : j \in i + 1 .. Len(Bytes)
      <4> DEFINE t == streamAt
                 n == Len(Bytes)
      <4>1. n \in Nat /\ t \in Nat /\ i \in 1 .. t
        BY <2>2, <2>3, <3>4
      <4> HIDE DEF t, n
      <4>2. \A j \in t + 1 .. n : j \in i + 1 .. n
        BY ONLY <4>1
      <4> QED
        BY <4>2 DEF t, n
    <3> QED
      BY ONLY <3>7, <3>8, Zenon DEF AllThere
  <2>7. BodyInv'
    BY <1>1, <1>3, <2>1, <2>6 DEF BodyInv, A, AllThere
  <2> QED
    BY <1>1, <1>2, <1>3, <1>6, <2>7 DEF DecoderInv
<1> QED
  BY <1>5, <1>6

LEMMA DecoderStays ==
    ASSUME DecoderInv, streamResult' = streamResult \/ streamResult' = "transport",
           UNCHANGED <<streamBody, streamAt, streamPending, streamBuffer, streamScanned,
                       streamHead, streamRaw, streamSse>>
    PROVE  DecoderInv'
<1>1. Bytes' = Bytes /\ Units' = Units /\ Decoder!Arrived' = Decoder!Arrived /\ Done' = Done
  BY DEF Bytes, Units, Decoder!Arrived, Done
<1>2. StreamInv => StreamInv'
  <2> SUFFICES ASSUME StreamInv PROVE StreamInv'
    OBVIOUS
  <2>1. PICK p : Traced(streamBuffer, p, Done)
    BY DEF StreamInv
  <2>2. Traced(streamBuffer, p, Done)'
    BY <1>1, <2>1 DEF Traced, Done, Bytes, Units
  <2>3. streamResult' = "turn" => TurnIsWhole(streamAt)'
    BY <1>1 DEF StreamInv, TurnIsWhole
  <2>4. streamPending' = <<"L">> => streamAt' > 0 /\ Bytes'[streamAt'] = "L"
    BY <1>1 DEF StreamInv
  <2> QED
    BY <2>2, <2>3, <2>4 DEF StreamInv
<1>3. BodyInv => BodyInv'
  BY <1>1 DEF BodyInv, AllThere
<1> QED
  BY <1>1, <1>2, <1>3 DEF DecoderInv

LEMMA DecoderNext ==
    ASSUME Decoder!BodiesAssumption, DecoderInv, [Decoder!Next]_streamVars
    PROVE  DecoderInv'
<1>1. ASSUME NEW k \in 1 .. Len(streamBody.bytes), Decoder!Push(k) PROVE DecoderInv'
  BY <1>1, PushKeeps
<1>2. CASE Decoder!Finish
  BY <1>2, FinishKeeps
<1>3. CASE Decoder!Break
  BY <1>3, DecoderStays DEF Decoder!Break
<1>4. CASE Decoder!Finished
  BY <1>4, DecoderStays DEF Decoder!Finished, Decoder!vars
<1>5. CASE UNCHANGED streamVars
  BY <1>5, DecoderStays DEF streamVars
<1> QED
  BY <1>1, <1>2, <1>3, <1>4, <1>5 DEF Decoder!Next

-----------------------------------------------------------------------------
(* The three of them among the parts of a provider.                        *)

LEMMA AnswersInit ==
    ASSUME ProviderAssumption, ProviderInit PROVE DecoderInv /\ ChatInv /\ ResponsesInv
BY DecoderBegin, ChatBegin, ResponsesBegin DEF ProviderInit, ProviderAssumption

LEMMA AnswersNext ==
    ASSUME ProviderAssumption, DecoderInv, ChatInv, ResponsesInv,
           [ProviderNext]_providerVars
    PROVE  DecoderInv' /\ ChatInv' /\ ResponsesInv'
<1>1. [Decoder!Next]_streamVars /\ [Chat!Next]_chatVars /\ [Responses!Next]_respVars
  BY DEF ProviderNext, providerVars
<1>2. Decoder!BodiesAssumption /\ Chat!AnswersAssumption /\ Responses!PlansAssumption
  BY DEF ProviderAssumption
<1>3. DecoderInv'
  BY <1>1, <1>2, DecoderNext
<1>4. ChatInv'
  BY <1>1, <1>2, ChatNext
<1>5. ResponsesInv'
  BY <1>1, <1>2, ResponsesNext
<1> QED
  BY <1>3, <1>4, <1>5

(* What broke off, failed or is incomplete is no turn, however its bytes   *)
(* are cut into chunks and in whichever protocol and style it is told, and *)
(* of its calls only whole ones are executed (LiveStreamDecoder,           *)
(* ChatCompletionsStreamAssembler and ResponsesStreamAssembler).           *)
THEOREM FailuresMakeNoTurn ==
    ASSUME ProviderAssumption PROVE ProviderSpec => []NoTurnFromAFailure
<1>1. ProviderInit => DecoderInv /\ ChatInv /\ ResponsesInv
  BY AnswersInit
<1>2. DecoderInv /\ ChatInv /\ ResponsesInv /\ [ProviderNext]_providerVars
          => DecoderInv' /\ ChatInv' /\ ResponsesInv'
  BY AnswersNext
<1>3. DecoderInv /\ ChatInv /\ ResponsesInv => NoTurnFromAFailure
  <2>1. Decoder!BodiesAssumption /\ Chat!AnswersAssumption /\ Responses!PlansAssumption
    BY DEF ProviderAssumption
  <2> QED
    BY <2>1, DecoderInvWhole, ChatInvRuns, ChatInvSays, ResponsesInvEnds
       DEF NoTurnFromAFailure, Of
<1> QED
  BY <1>1, <1>2, <1>3, PTL DEF ProviderSpec
=============================================================================
