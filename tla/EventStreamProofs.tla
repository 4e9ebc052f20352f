------------------------- MODULE EventStreamProofs --------------------------
(***************************************************************************)
(* The event stream for any capacity of the channel and any length of the  *)
(* log, first with a host in Rust, then with a Python program behind a     *)
(* pump and a queue of any size.  The sequence numbers in every place the  *)
(* events pass are those that come next: the log is cut into what the      *)
(* program was given, what is in the queue, what the pump holds, what is   *)
(* in the channel, what is waiting for room and what is still in the       *)
(* batch.                                                                  *)
(***************************************************************************)
EXTENDS PythonRun, SequenceTheorems, TLAPS

(* The four pieces.                                                        *)
Pieces ==
    /\ \A i \in 1 .. Len(got) : got[i] = i
    /\ \A i \in 1 .. Len(sunk) : sunk[i] = i
    /\ \A i \in 1 .. Len(channel) : channel[i] = Len(got) + i
    /\ \A i \in 1 .. Len(batch) : batch[i] = Len(sunk) + i

(* How long they are.                                                      *)
Lengths ==
    /\ Len(log) > 0
    /\ Len(sunk) + Len(batch) <= Len(log)
    /\ handle # "dropped" =>
           Len(got) + Len(channel) = IF fwd = "send" THEN Len(sunk) - 1 ELSE Len(sunk)
    /\ fwd = "send" => Len(sunk) > 0
    /\ fwd = "offer" => Len(batch) > 0
    /\ fwd \in {"read", "wait"} => Len(batch) = 0

(* Only the last event of the log can be a terminal one, and the forwarder *)
(* stops there.                                                            *)
Ends ==
    /\ \A i \in 1 .. Len(log) - 1 : log[i] \notin Terminals
    /\ fwd = "done" /\ handle # "dropped" => IsOver /\ Len(sunk) = Len(log)

(* What result has found and returned.                                     *)
Results ==
    /\ found # None => IsOver /\ found = log[Len(log)] /\ Len(got) = Len(log)
    /\ answer # None => IsOver /\ Len(got) = Len(log)
    /\ handle = "open" /\ answer # None /\ found # None => answer = found

StreamInv == StreamTypeOK /\ Pieces /\ Lengths /\ Ends /\ Results

(* What appending and taking the head do to a sequence of numbers.         *)
LEMMA AppendFacts ==
    ASSUME NEW S, NEW s \in Seq(S), NEW x \in S
    PROVE  /\ Append(s, x) \in Seq(S)
           /\ Len(Append(s, x)) = Len(s) + 1
           /\ Append(s, x)[Len(s) + 1] = x
           /\ \A i \in 1 .. Len(s) : Append(s, x)[i] = s[i]
  BY AppendProperties

LEMMA TailFacts ==
    ASSUME NEW S, NEW s \in Seq(S), Len(s) > 0
    PROVE  /\ Tail(s) \in Seq(S) /\ Head(s) \in S /\ Head(s) = s[1]
           /\ Len(Tail(s)) = Len(s) - 1
           /\ \A i \in 1 .. Len(s) - 1 : Tail(s)[i] = s[i + 1]
  BY HeadTailProperties, EmptySeq

(* The first state.                                                        *)
LEMMA StreamInitInv == StreamInit => StreamInv
<1> SUFFICES ASSUME StreamInit PROVE StreamInv
    OBVIOUS
<1>1. log \in Seq(Kinds) /\ Len(log) = 1
  BY DEF StreamInit, Kinds
<1>2. StreamTypeOK
  BY <1>1, StreamAssumption DEF StreamInit, StreamTypeOK, ForwarderSteps, Kinds
<1> QED
  BY <1>1, <1>2 DEF StreamInit, StreamInv, Pieces, Lengths, Ends, Results, IsOver

(* The log grows.                                                          *)
LEMMA EmitInv == ASSUME StreamInv, NEW kind \in Kinds, Emit(kind) PROVE StreamInv'
<1> USE DEF StreamInv
<1>1. /\ log' \in Seq(Kinds) /\ Len(log') = Len(log) + 1
      /\ \A i \in 1 .. Len(log) : log'[i] = log[i]
  BY AppendFacts DEF Emit, StreamTypeOK
<1>2. /\ UNCHANGED <<fwd, batch, sunk, channel, got, handle, found, answer>>
      /\ ~IsOver /\ Len(log) \in Nat
  BY DEF Emit, StreamTypeOK
<1>3. StreamTypeOK'
  BY <1>1, <1>2 DEF StreamTypeOK
<1>4. Pieces'
  BY <1>2 DEF Pieces
<1>5. Lengths'
  BY <1>1, <1>2 DEF Lengths, StreamTypeOK
<1>6. Ends'
  <2>1. \A i \in 1 .. Len(log) : log[i] \notin Terminals
    BY <1>2 DEF Ends, IsOver, Lengths
  <2> QED BY <1>1, <1>2, <2>1 DEF Ends
<1>7. Results'
  BY <1>2 DEF Results
<1> QED BY <1>3, <1>4, <1>5, <1>6, <1>7

(* The forwarder copies the log.                                           *)
LEMMA ReadLogInv == ASSUME StreamInv, ReadLog PROVE StreamInv'
<1> USE DEF StreamInv
<1>1. /\ Len(log) \in Nat /\ Len(sunk) \in Nat /\ Len(batch) = 0
      /\ Len(sunk) <= Len(log) /\ fwd = "read"
  BY DEF ReadLog, StreamTypeOK, Lengths
<1>2. UNCHANGED <<log, sunk, channel, got, handle, found, answer>>
  BY DEF ReadLog
<1> DEFINE n == Len(log) - Len(sunk)
<1>3. n \in Nat
  BY <1>1
<1>4. batch' = [i \in 1 .. n |-> Len(sunk) + i]
  BY DEF ReadLog, EventsSince, Sequence
<1> HIDE DEF n
<1>5. \A i \in 1 .. n : Len(sunk) + i \in Nat
  BY <1>1, <1>3
<1>6. /\ batch' \in Seq(Nat) /\ Len(batch') = n
      /\ \A i \in 1 .. n : batch'[i] = Len(sunk) + i
  BY <1>3, <1>4, <1>5
<1>7. fwd' = IF n = 0 THEN "wait" ELSE "offer"
  BY <1>3, <1>6, EmptySeq DEF ReadLog
<1>8. StreamTypeOK'
  BY <1>2, <1>6, <1>7 DEF StreamTypeOK, ForwarderSteps
<1>9. Pieces'
  BY <1>2, <1>6 DEF Pieces
<1>10. Lengths'
  BY <1>1, <1>2, <1>3, <1>6, <1>7 DEF Lengths, n
<1>11. Ends' /\ Results'
  BY <1>2, <1>7 DEF Ends, Results, IsOver
<1> QED BY <1>8, <1>9, <1>10, <1>11

(* The forwarder waits, offers and sends.                                  *)
LEMMA WaitOverInv == ASSUME StreamInv, WaitOver PROVE StreamInv'
<1> USE DEF StreamInv
<1>1. /\ UNCHANGED <<log, batch, sunk, channel, got, handle, found, answer>>
      /\ fwd = "wait" /\ fwd' = "read"
  BY DEF WaitOver
<1> QED
  BY <1>1 DEF StreamTypeOK, ForwarderSteps, Pieces, Lengths, Ends, Results, IsOver

LEMMA OfferInv == ASSUME StreamInv, Offer PROVE StreamInv'
<1> USE DEF StreamInv
<1>1. /\ UNCHANGED <<log, channel, got, handle, found, answer>>
      /\ fwd = "offer" /\ fwd' = "send" /\ Len(batch) > 0
      /\ sunk' = Append(sunk, Head(batch)) /\ batch' = Tail(batch)
  BY DEF Offer, Lengths
<1>2. /\ batch' \in Seq(Nat) /\ Head(batch) \in Nat /\ Head(batch) = batch[1]
      /\ Len(batch') = Len(batch) - 1
      /\ \A i \in 1 .. Len(batch) - 1 : batch'[i] = batch[i + 1]
  BY <1>1, TailFacts DEF StreamTypeOK
<1>3. /\ sunk' \in Seq(Nat) /\ Len(sunk') = Len(sunk) + 1
      /\ sunk'[Len(sunk) + 1] = Head(batch)
      /\ \A i \in 1 .. Len(sunk) : sunk'[i] = sunk[i]
  BY <1>1, <1>2, AppendFacts DEF StreamTypeOK
<1>4. Len(batch) \in Nat /\ Len(sunk) \in Nat /\ Len(log) \in Nat /\ Len(got) \in Nat /\ Len(channel) \in Nat
  BY DEF StreamTypeOK
<1>5. StreamTypeOK'
  BY <1>1, <1>2, <1>3 DEF StreamTypeOK, ForwarderSteps
<1>6. Head(batch) = Len(sunk) + 1
  BY <1>1, <1>2, <1>4 DEF Pieces
<1>7. Pieces'
  <2>1. \A i \in 1 .. Len(sunk') : sunk'[i] = i
    <3> TAKE i \in 1 .. Len(sunk')
    <3>1. i = Len(sunk) + 1 \/ i \in 1 .. Len(sunk)
      BY <1>3, <1>4
    <3> QED BY <1>3, <1>6, <3>1 DEF Pieces
  <2>2. \A i \in 1 .. Len(batch') : batch'[i] = Len(sunk') + i
    BY <1>2, <1>3, <1>4 DEF Pieces
  <2> QED BY <1>1, <2>1, <2>2 DEF Pieces
<1>8. Lengths'
  BY <1>1, <1>2, <1>3, <1>4 DEF Lengths
<1>9. Ends' /\ Results'
  BY <1>1 DEF Ends, Results, IsOver
<1> QED BY <1>5, <1>7, <1>8, <1>9

LEMMA SendInv == ASSUME StreamInv, Send PROVE StreamInv'
<1> USE DEF StreamInv
<1>1. /\ UNCHANGED <<log, batch, sunk, got, handle, found, answer>>
      /\ fwd = "send" /\ Len(sunk) > 0
  BY DEF Send, Lengths
<1>2. Len(batch) \in Nat /\ Len(sunk) \in Nat /\ Len(log) \in Nat /\ Len(got) \in Nat /\ Len(channel) \in Nat
  BY DEF StreamTypeOK
<1>3. CASE handle = "dropped"
  <2>1. fwd' = "done" /\ UNCHANGED channel
    BY <1>3 DEF Send
  <2> QED
    BY <1>1, <1>2, <1>3, <2>1
       DEF StreamTypeOK, ForwarderSteps, Pieces, Lengths, Ends, Results, IsOver
<1>4. CASE handle # "dropped"
  <2> DEFINE m == Len(sunk)
  <2>1. /\ Len(channel) < Capacity
        /\ channel' = Append(channel, sunk[m])
        /\ fwd' = AfterSend(sunk[m])
    BY <1>4 DEF Send
  <2>2. sunk[m] = m /\ m \in 1 .. Len(log) /\ Len(got) + Len(channel) = m - 1
    BY <1>1, <1>2, <1>4 DEF Pieces, Lengths
  <2>3. /\ channel' \in Seq(Nat) /\ Len(channel') = Len(channel) + 1
        /\ channel'[Len(channel) + 1] = m
        /\ \A i \in 1 .. Len(channel) : channel'[i] = channel[i]
    BY <2>1, <2>2, AppendFacts DEF StreamTypeOK
  <2>4. fwd' \in {"done", "read", "offer"}
    BY <2>1 DEF AfterSend
  <2>5. StreamTypeOK'
    BY <1>1, <1>2, <2>1, <2>3, <2>4, StreamAssumption DEF StreamTypeOK, ForwarderSteps
  <2>6. Pieces'
    <3>1. \A i \in 1 .. Len(channel') : channel'[i] = Len(got) + i
      <4> TAKE i \in 1 .. Len(channel')
      <4>1. i = Len(channel) + 1 \/ i \in 1 .. Len(channel)
        BY <1>2, <2>3
      <4>2. CASE i = Len(channel) + 1
        BY <1>2, <2>2, <2>3, <4>2
      <4>3. CASE i \in 1 .. Len(channel)
        BY <2>3, <4>3 DEF Pieces
      <4> QED BY <4>1, <4>2, <4>3
    <3> QED BY <1>1, <3>1 DEF Pieces
  <2>7. fwd' = "offer" => Len(batch) > 0
    BY <1>2, <2>1, EmptySeq DEF AfterSend, StreamTypeOK
  <2>8. fwd' = "read" => Len(batch) = 0
    BY <1>2, <2>1 DEF AfterSend
  <2>9. Lengths'
    BY <1>1, <1>2, <2>2, <2>3, <2>4, <2>7, <2>8 DEF Lengths
  <2>10. fwd' = "done" => log[m] \in Terminals
    BY <2>1, <2>2 DEF AfterSend
  <2>11. fwd' = "done" => m = Len(log)
    BY <1>2, <2>2, <2>10 DEF Ends
  <2>12. Ends'
    BY <1>1, <2>10, <2>11 DEF Ends, IsOver
  <2>13. Results'
    BY <1>1 DEF Results, IsOver
  <2> QED BY <2>5, <2>6, <2>9, <2>12, <2>13
<1> QED BY <1>3, <1>4

(* The receiver takes an event.                                            *)
LEMMA ReceiveFacts ==
    ASSUME StreamInv, Receive, handle # "dropped", UNCHANGED <<log, fwd, batch, sunk>>
    PROVE  /\ got' \in Seq(Nat) /\ channel' \in Seq(Nat) /\ Len(channel') <= Capacity
           /\ Head(channel) = Len(got) + 1
           /\ Len(got') = Len(got) + 1 /\ Len(channel') = Len(channel) - 1
           /\ Len(got) < Len(log)
           /\ Pieces'
<1> USE DEF StreamInv
<1>1. got' = Append(got, Head(channel)) /\ channel' = Tail(channel) /\ channel # <<>>
  BY DEF Receive
<1>2. Len(got) \in Nat /\ Len(channel) \in Nat /\ Len(log) \in Nat /\ Len(sunk) \in Nat /\ Len(batch) \in Nat
  BY DEF StreamTypeOK
<1>3. Len(channel) > 0
  BY <1>1, <1>2, EmptySeq DEF StreamTypeOK
<1>4. /\ channel' \in Seq(Nat) /\ Head(channel) \in Nat /\ Head(channel) = channel[1]
      /\ Len(channel') = Len(channel) - 1
      /\ \A i \in 1 .. Len(channel) - 1 : channel'[i] = channel[i + 1]
  BY <1>1, <1>3, TailFacts DEF StreamTypeOK
<1>5. /\ got' \in Seq(Nat) /\ Len(got') = Len(got) + 1
      /\ got'[Len(got) + 1] = Head(channel)
      /\ \A i \in 1 .. Len(got) : got'[i] = got[i]
  BY <1>1, <1>4, AppendFacts DEF StreamTypeOK
<1>6. Head(channel) = Len(got) + 1
  BY <1>2, <1>3, <1>4 DEF Pieces
<1>7. \A i \in 1 .. Len(got') : got'[i] = i
  <2> TAKE i \in 1 .. Len(got')
  <2>1. i = Len(got) + 1 \/ i \in 1 .. Len(got)
    BY <1>2, <1>5
  <2> QED BY <1>5, <1>6, <2>1 DEF Pieces
<1>8. \A i \in 1 .. Len(channel') : channel'[i] = Len(got') + i
  BY <1>2, <1>4, <1>5 DEF Pieces
<1>9. Pieces'
  BY <1>7, <1>8 DEF Pieces
<1>10. Len(got) < Len(log)
  BY <1>2, <1>3 DEF Lengths
<1>11. Len(channel') <= Capacity
  BY <1>2, <1>4, StreamAssumption DEF StreamTypeOK
<1> QED BY <1>4, <1>5, <1>6, <1>9, <1>10, <1>11

LEMMA NextEventInv == ASSUME StreamInv, NextEvent PROVE StreamInv'
<1> USE DEF StreamInv
<1>1. /\ UNCHANGED <<log, fwd, batch, sunk, handle, found, answer>> /\ Receive
      /\ handle = "open"
  BY DEF NextEvent
<1>2. Len(got) \in Nat /\ Len(channel) \in Nat /\ Len(sunk) \in Nat
  BY DEF StreamTypeOK
<1>3. StreamTypeOK' /\ Pieces'
  BY <1>1, ReceiveFacts DEF StreamTypeOK
<1>4. Lengths'
  <2>1. Len(got') = Len(got) + 1 /\ Len(channel') = Len(channel) - 1
    BY <1>1, ReceiveFacts
  <2> QED BY <1>1, <1>2, <2>1 DEF Lengths
<1>5. Ends'
  BY <1>1 DEF Ends, IsOver
<1>6. found = None /\ answer = None
  BY <1>1, <1>2, ReceiveFacts DEF Results
<1>7. Results'
  BY <1>1, <1>6 DEF Results
<1> QED BY <1>3, <1>4, <1>5, <1>7

LEMMA ResultReadsInv == ASSUME StreamInv, ResultReads PROVE StreamInv'
<1> USE DEF StreamInv
<1> DEFINE k == Len(got) + 1
<1>1. /\ UNCHANGED <<log, fwd, batch, sunk, handle, answer>> /\ Receive
      /\ handle = "result"
      /\ found' = IF log[Head(channel)] \in Terminals THEN log[Head(channel)] ELSE found
  BY DEF ResultReads
<1>2. Len(got) \in Nat /\ Len(channel) \in Nat /\ Len(sunk) \in Nat /\ Len(log) \in Nat
  BY DEF StreamTypeOK
<1>3. /\ Head(channel) = k /\ Len(got') = k /\ Len(got) < Len(log)
      /\ Len(channel') = Len(channel) - 1
  BY <1>1, ReceiveFacts
<1>4. found = None /\ answer = None
  BY <1>2, <1>3 DEF Results
<1>5. found' = IF log[k] \in Terminals THEN log[k] ELSE None
  BY <1>1, <1>3, <1>4
<1>6. log[k] \in Terminals => k = Len(log)
  BY <1>2, <1>3 DEF Ends
<1>7. StreamTypeOK' /\ Pieces'
  BY <1>1, <1>5, ReceiveFacts DEF StreamTypeOK
<1>8. Lengths'
  BY <1>1, <1>2, <1>3 DEF Lengths
<1>9. Ends'
  BY <1>1 DEF Ends, IsOver
<1>10. Results'
  BY <1>1, <1>3, <1>4, <1>5, <1>6 DEF Results, IsOver
<1> QED BY <1>7, <1>8, <1>9, <1>10

LEMMA CallResultInv == ASSUME StreamInv, CallResult PROVE StreamInv'
<1> USE DEF StreamInv
<1>1. /\ UNCHANGED <<log, fwd, batch, sunk, channel, got, answer>>
      /\ handle = "open" /\ handle' = "result" /\ found' = None
  BY DEF CallResult
<1>2. StreamTypeOK' /\ Pieces' /\ Lengths'
  BY <1>1 DEF StreamTypeOK, Pieces, Lengths
<1>3. Ends' /\ Results'
  BY <1>1 DEF Ends, Results, IsOver
<1> QED BY <1>2, <1>3

LEMMA ResultReturnsInv == ASSUME StreamInv, ResultReturns PROVE StreamInv'
<1> USE DEF StreamInv
<1>1. /\ UNCHANGED <<log, fwd, batch, sunk, channel, got, found>>
      /\ handle = "result" /\ handle' = "open" /\ fwd = "done" /\ channel = <<>>
      /\ answer' = IF found = None THEN "Failed" ELSE found
  BY DEF ResultReturns, StreamEnded
<1>2. Len(got) \in Nat /\ Len(sunk) \in Nat /\ Len(log) \in Nat /\ Len(channel) = 0
  BY <1>1 DEF StreamTypeOK
<1>3. IsOver /\ Len(got) = Len(log)
  BY <1>1, <1>2 DEF Ends, Lengths
<1>4. StreamTypeOK' /\ Pieces' /\ Lengths'
  BY <1>1 DEF StreamTypeOK, Pieces, Lengths, Terminals
<1>5. Ends' /\ Results'
  BY <1>1, <1>3 DEF Ends, Results, IsOver
<1> QED BY <1>4, <1>5

LEMMA DropHandleInv == ASSUME StreamInv, DropHandle PROVE StreamInv'
<1> USE DEF StreamInv
<1>1. /\ UNCHANGED <<log, fwd, batch, sunk, got, found, answer>>
      /\ handle' = "dropped" /\ channel' = <<>>
  BY DEF DropHandle
<1>2. channel' \in Seq(Nat) /\ Len(channel') = 0 /\ Len(channel') <= Capacity
  BY <1>1, StreamAssumption
<1>3. StreamTypeOK' /\ Pieces' /\ Lengths'
  BY <1>1, <1>2 DEF StreamTypeOK, Pieces, Lengths
<1>4. Ends' /\ Results'
  BY <1>1 DEF Ends, Results, IsOver
<1> QED BY <1>3, <1>4

(* The inductive invariant of the stream.                                  *)
THEOREM StreamSafety == StreamSpec => []StreamInv
<1>1. StreamInv /\ [StreamNext]_streamVars => StreamInv'
  <2> SUFFICES ASSUME StreamInv, [StreamNext]_streamVars PROVE StreamInv'
      OBVIOUS
  <2>1. CASE UNCHANGED streamVars
    BY <2>1 DEF streamVars, StreamInv, StreamTypeOK, Pieces, Lengths, Ends, Results, IsOver
  <2>2. CASE StreamNext
    BY <2>2, EmitInv, ReadLogInv, WaitOverInv, OfferInv, SendInv, NextEventInv,
       CallResultInv, ResultReadsInv, ResultReturnsInv, DropHandleInv
       DEF StreamNext, Forward, Host
  <2> QED BY <2>1, <2>2
<1> QED BY <1>1, StreamInitInv, PTL DEF StreamSpec

(* Host and sink see the log in order, for any capacity and length.        *)
THEOREM EventsArriveInOrder == StreamSpec => []DeliveredInOrder
<1>1. StreamInv => DeliveredInOrder
  <2> SUFFICES ASSUME StreamInv PROVE DeliveredInOrder
      OBVIOUS
  <2>1. Len(sunk) \in Nat /\ Len(batch) \in Nat /\ Len(log) \in Nat
    BY DEF StreamInv, StreamTypeOK
  <2> QED BY <2>1 DEF StreamInv, Pieces, Lengths, DeliveredInOrder
<1> QED BY <1>1, StreamSafety, PTL

(* result returns after the whole log, and returns how the run ended.      *)
THEOREM ResultIsTheEnd == StreamSpec => []ResultTellsTheEnd
<1>1. StreamInv => ResultTellsTheEnd
  BY DEF StreamInv, Results, ResultTellsTheEnd
<1> QED BY <1>1, StreamSafety, PTL

----------------------------------------------------------------------------
(* The Python run.                                                         *)

(* What the pump knows: it alone reads a handle that nobody closes, and    *)
(* the terminal event it has met is the last of the log.                   *)
PumpInv ==
    /\ pump = "off" => reading = "no" /\ Len(queue) = 0 /\ Len(yielded) = 0
    /\ pump # "off" => handle = "open"
    /\ pump \in {"off", "next"} => state = None
    /\ pump \in {"end", "done"} => state # None
    /\ pump = "put" => Len(got) > 0
    /\ state # None => IsOver /\ state = log[Len(log)] /\ Len(got) = Len(log)
    /\ future # None => future = state

(* The queue goes on where the program is, up to what the pump was given   *)
(* or, when the pump is done, up to the end of the log and its mark.       *)
QueueInv ==
    /\ \A i \in 1 .. Len(yielded) : yielded[i] = i
    /\ pump \notin {"off", "done"} =>
           Len(yielded) + Len(queue) = IF pump = "put" THEN Len(got) - 1 ELSE Len(got)
    /\ pump # "done" =>
           /\ reading # "ended"
           /\ \A i \in 1 .. Len(queue) : queue[i] = Len(yielded) + i
    /\ pump = "done" /\ reading # "ended" =>
           /\ Len(queue) > 0
           /\ Len(yielded) + Len(queue) = Len(log) + 1
           /\ \A i \in 1 .. Len(queue) :
                  queue[i] = IF i = Len(queue) THEN EndMark ELSE Len(yielded) + i
    /\ reading = "ended" => Len(queue) = 0 /\ Len(yielded) = Len(log)

PythonInv == PythonTypeOK /\ StreamInv /\ PumpInv /\ QueueInv

(* What does not touch the program's side leaves its invariants.           *)
LEMMA ProgramAside ==
    ASSUME PumpInv, QueueInv, UNCHANGED pumpVars, UNCHANGED programVars,
           UNCHANGED <<got, log>>, handle' = handle
    PROVE  PumpInv' /\ QueueInv'
  BY DEF PumpInv, QueueInv, pumpVars, programVars, IsOver

LEMMA PythonInitInv == PythonInit => PythonInv
<1> SUFFICES ASSUME PythonInit PROVE PythonInv
    OBVIOUS
<1>1. StreamInv
  BY StreamInitInv DEF PythonInit
<1>2. Len(queue) = 0 /\ Len(yielded) = 0
  BY DEF PythonInit
<1>3. PythonTypeOK
  BY <1>1, <1>2, QueueAssumption DEF PythonInit, PythonTypeOK, StreamInv
<1>4. PumpInv
  BY <1>2 DEF PythonInit, StreamInit, PumpInv, None
<1>5. QueueInv
  BY <1>2 DEF PythonInit, StreamInit, QueueInv
<1> QED BY <1>1, <1>3, <1>4, <1>5 DEF PythonInv

(* The log grows or the forwarder works.                                   *)
LEMMA EngineInv == ASSUME PythonInv, EngineStep PROVE PythonInv'
<1> USE DEF PythonInv
<1>1. UNCHANGED pumpVars /\ UNCHANGED programVars
  BY DEF EngineStep
<1>2. CASE Forward
  <2>1. StreamInv'
    BY <1>2, ReadLogInv, WaitOverInv, OfferInv, SendInv DEF Forward
  <2>2. UNCHANGED <<got, log>> /\ handle' = handle
    BY <1>2 DEF Forward, ReadLog, WaitOver, Offer, Send
  <2>3. PumpInv' /\ QueueInv'
    BY <1>1, <2>2, ProgramAside
  <2> QED
    BY <1>1, <2>1, <2>3 DEF PythonTypeOK, StreamInv, pumpVars, programVars
<1>3. ASSUME NEW kind \in Kinds, Emit(kind) PROVE PythonInv'
  <2>1. StreamInv'
    BY <1>3, EmitInv
  <2>2. ~IsOver /\ UNCHANGED <<got, handle>>
    BY <1>3 DEF Emit
  <2>3. state = None /\ pump # "done"
    BY <2>2 DEF PumpInv
  <2>4. reading # "ended"
    BY <2>3 DEF QueueInv
  <2>5. PumpInv'
    BY <1>1, <2>2, <2>3 DEF PumpInv, pumpVars, programVars
  <2>6. QueueInv'
    BY <1>1, <2>2, <2>3, <2>4 DEF QueueInv, pumpVars, programVars
  <2> QED
    BY <1>1, <2>1, <2>5, <2>6 DEF PythonTypeOK, StreamInv, pumpVars, programVars
<1> QED
  BY <1>2, <1>3 DEF EngineStep

LEMMA RustHostInv == ASSUME PythonInv, RustHost PROVE PythonInv'
<1> USE DEF PythonInv
<1>1. /\ pump = "off" /\ Host
      /\ UNCHANGED pumpVars /\ UNCHANGED programVars
  BY DEF RustHost
<1>2. StreamInv'
  BY <1>1, NextEventInv, CallResultInv, ResultReadsInv, ResultReturnsInv, DropHandleInv DEF Host
<1>3. UNCHANGED <<queue, pump, state, future, reading, yielded>>
  BY <1>1 DEF pumpVars, programVars
<1>4. PumpInv'
  BY <1>1, <1>3 DEF PumpInv, None
<1>5. QueueInv'
  BY <1>1, <1>3 DEF PumpInv, QueueInv
<1> QED
  BY <1>2, <1>3, <1>4, <1>5 DEF PythonTypeOK, StreamInv

(* The pump is given an event: what it does to the stream is NextEvent.    *)
LEMMA PumpNextIsNextEvent == ASSUME PythonInv, PumpNext PROVE NextEvent
  BY DEF PumpNext, NextEvent, PythonInv, PumpInv

LEMMA PumpNextInv == ASSUME PythonInv, PumpNext PROVE PythonInv'
<1> USE DEF PythonInv
<1>1. /\ pump = "next" /\ pump' = "put" /\ Receive
      /\ state' = IF log[Head(channel)] \in Terminals THEN log[Head(channel)] ELSE state
      /\ UNCHANGED <<log, fwd, batch, sunk, handle>>
      /\ UNCHANGED <<queue, future, reading, yielded>>
  BY DEF PumpNext, programVars
<1>2. StreamInv'
  BY PumpNextIsNextEvent, NextEventInv
<1>3. handle = "open" /\ state = None /\ future = None
  BY <1>1 DEF PumpInv
<1>4. /\ Head(channel) = Len(got) + 1 /\ Len(got') = Len(got) + 1
      /\ Len(got) < Len(log)
  BY <1>1, <1>3, ReceiveFacts
<1>5. Len(got) \in Nat /\ Len(log) \in Nat
  BY DEF StreamInv, StreamTypeOK
<1>6. log[Head(channel)] \in Terminals => Len(got) + 1 = Len(log)
  BY <1>4, <1>5 DEF StreamInv, Ends
<1>7. /\ state' = None \/ state' \in Terminals
      /\ state' # None => IsOver /\ state' = log[Len(log)] /\ Len(got') = Len(log)
  BY <1>1, <1>3, <1>4, <1>6 DEF IsOver
<1>8. PumpInv'
  <2>1. IsOver' <=> IsOver
    BY <1>1 DEF IsOver
  <2> QED
    BY <1>1, <1>3, <1>4, <1>5, <1>7, <2>1 DEF PumpInv
<1>9. QueueInv'
  BY <1>1, <1>4, <1>5 DEF QueueInv
<1> QED
  BY <1>1, <1>2, <1>7, <1>8, <1>9 DEF PythonTypeOK, StreamInv

(* It puts the event into the queue.                                       *)
LEMMA PumpPutInv == ASSUME PythonInv, PumpPut PROVE PythonInv'
<1> USE DEF PythonInv
<1> DEFINE e == got[Len(got)]
<1>1. /\ pump = "put" /\ pump' = IF state = None THEN "next" ELSE "end"
      /\ Len(queue) < QueueSize /\ queue' = Append(queue, e)
      /\ UNCHANGED <<log, fwd, batch, sunk, channel, got, handle, found, answer>>
      /\ UNCHANGED <<state, future, reading, yielded>>
  BY DEF PumpPut, Put, programVars
<1>2. Len(got) \in Nat /\ Len(queue) \in Nat /\ Len(yielded) \in Nat /\ Len(got) > 0
  BY <1>1 DEF StreamInv, StreamTypeOK, PythonTypeOK, PumpInv
<1>3. e = Len(got) /\ e \in Nat
  BY <1>2 DEF StreamInv, Pieces
<1> HIDE DEF e
<1>4. /\ queue' \in Seq(Nat) /\ Len(queue') = Len(queue) + 1
      /\ queue'[Len(queue) + 1] = e
      /\ \A i \in 1 .. Len(queue) : queue'[i] = queue[i]
  BY <1>1, <1>3, AppendFacts DEF PythonTypeOK
<1>5. StreamInv'
  BY <1>1 DEF StreamInv, StreamTypeOK, Pieces, Lengths, Ends, Results, IsOver
<1>6. PumpInv'
  BY <1>1 DEF PumpInv, IsOver
<1>7. \A i \in 1 .. Len(queue') : queue'[i] = Len(yielded') + i
  <2> SUFFICES ASSUME NEW i \in 1 .. Len(queue') PROVE queue'[i] = Len(yielded') + i
      OBVIOUS
  <2>1. i = Len(queue) + 1 \/ i \in 1 .. Len(queue)
    BY <1>2, <1>4
  <2>2. CASE i = Len(queue) + 1
    <3>1. Len(yielded) + Len(queue) = Len(got) - 1
      BY <1>1 DEF QueueInv
    <3>2. yielded' = yielded
      BY <1>1
    <3> QED BY <1>2, <1>3, <1>4, <2>2, <3>1, <3>2
  <2>3. CASE i \in 1 .. Len(queue)
    BY <1>1, <1>4, <2>3 DEF QueueInv
  <2> QED BY <2>1, <2>2, <2>3
<1>8. QueueInv'
  BY <1>1, <1>2, <1>4, <1>7 DEF QueueInv
<1>9. Len(queue') <= QueueSize
  BY <1>1, <1>2, <1>4, QueueAssumption
<1> QED
  BY <1>1, <1>4, <1>5, <1>6, <1>8, <1>9 DEF PythonTypeOK, StreamInv

(* It marks the end of the queue and sets the future.                      *)
LEMMA PumpEndsInv == ASSUME PythonInv, PumpEnds PROVE PythonInv'
<1> USE DEF PythonInv
<1>1. /\ pump = "end" /\ pump' = "done" /\ future' = state
      /\ Len(queue) < QueueSize /\ queue' = Append(queue, EndMark)
      /\ UNCHANGED <<log, fwd, batch, sunk, channel, got, handle, found, answer>>
      /\ UNCHANGED <<state, reading, yielded>>
  BY DEF PumpEnds, Put, programVars
<1>2. Len(got) \in Nat /\ Len(queue) \in Nat /\ Len(yielded) \in Nat /\ Len(log) \in Nat
  BY DEF StreamInv, StreamTypeOK, PythonTypeOK
<1>3. /\ queue' \in Seq(Nat) /\ Len(queue') = Len(queue) + 1
      /\ queue'[Len(queue) + 1] = EndMark
      /\ \A i \in 1 .. Len(queue) : queue'[i] = queue[i]
  BY <1>1, AppendFacts DEF PythonTypeOK, EndMark
<1>4. StreamInv'
  BY <1>1 DEF StreamInv, StreamTypeOK, Pieces, Lengths, Ends, Results, IsOver
<1>5. PumpInv'
  BY <1>1 DEF PumpInv, IsOver
<1>6. /\ Len(got) = Len(log) /\ reading # "ended"
      /\ Len(yielded) + Len(queue) = Len(got)
      /\ \A i \in 1 .. Len(queue) : queue[i] = Len(yielded) + i
  BY <1>1 DEF PumpInv, QueueInv
<1>7. \A i \in 1 .. Len(queue') :
          queue'[i] = IF i = Len(queue') THEN EndMark ELSE Len(yielded') + i
  <2> SUFFICES ASSUME NEW i \in 1 .. Len(queue')
               PROVE  queue'[i] = IF i = Len(queue') THEN EndMark ELSE Len(yielded') + i
      OBVIOUS
  <2>1. i = Len(queue) + 1 \/ i \in 1 .. Len(queue)
    BY <1>2, <1>3
  <2>2. CASE i = Len(queue) + 1
    BY <1>3, <2>2
  <2>3. CASE i \in 1 .. Len(queue)
    <3>1. i # Len(queue')
      BY <1>2, <1>3, <2>3
    <3>2. queue'[i] = Len(yielded) + i /\ yielded' = yielded
      BY <1>1, <1>3, <1>6, <2>3
    <3> QED BY <3>1, <3>2
  <2> QED BY <2>1, <2>2, <2>3
<1>8. QueueInv'
  BY <1>1, <1>2, <1>3, <1>6, <1>7 DEF QueueInv
<1>9. Len(queue') <= QueueSize
  BY <1>1, <1>2, <1>3, QueueAssumption
<1> QED
  BY <1>1, <1>3, <1>4, <1>5, <1>8, <1>9 DEF PythonTypeOK, StreamInv, PumpInv

(* The program starts, stops and goes on reading.                          *)
LEMMA ReadingInv == ASSUME PythonInv, StartReading \/ StopReading PROVE PythonInv'
<1> USE DEF PythonInv
<1>1. /\ UNCHANGED <<log, fwd, batch, sunk, channel, got, handle, found, answer>>
      /\ UNCHANGED <<queue, pump, state, future, yielded>>
      /\ reading # "ended" /\ reading' \in {"no", "yes"} /\ pump # "off"
  BY DEF StartReading, StopReading, pumpVars, PumpInv
<1>2. StreamInv'
  BY <1>1 DEF StreamInv, StreamTypeOK, Pieces, Lengths, Ends, Results, IsOver
<1>3. PumpInv'
  BY <1>1 DEF PumpInv, IsOver
<1>4. QueueInv'
  BY <1>1 DEF QueueInv
<1> QED
  BY <1>1, <1>2, <1>3, <1>4 DEF PythonTypeOK, StreamInv

LEMMA GetInv == ASSUME PythonInv, Get PROVE PythonInv'
<1> USE DEF PythonInv
<1>1. /\ reading = "yes" /\ queue # <<>> /\ queue' = Tail(queue)
      /\ UNCHANGED <<log, fwd, batch, sunk, channel, got, handle, found, answer>>
      /\ UNCHANGED <<pump, state, future>>
      /\ \/ Head(queue) = EndMark /\ reading' = "ended" /\ UNCHANGED yielded
         \/ /\ Head(queue) # EndMark /\ yielded' = Append(yielded, Head(queue))
            /\ UNCHANGED reading
  BY DEF Get
<1>2. Len(got) \in Nat /\ Len(queue) \in Nat /\ Len(yielded) \in Nat /\ Len(log) \in Nat
  BY DEF StreamInv, StreamTypeOK, PythonTypeOK
<1>3. Len(queue) > 0
  BY <1>1, <1>2, EmptySeq DEF PythonTypeOK
<1>4. /\ queue' \in Seq(Nat) /\ Head(queue) \in Nat /\ Head(queue) = queue[1]
      /\ Len(queue') = Len(queue) - 1
      /\ \A i \in 1 .. Len(queue) - 1 : queue'[i] = queue[i + 1]
  BY <1>1, <1>3, TailFacts DEF PythonTypeOK
<1>5. Len(queue') <= QueueSize
  BY <1>2, <1>4, QueueAssumption DEF PythonTypeOK
<1>6. StreamInv'
  BY <1>1 DEF StreamInv, StreamTypeOK, Pieces, Lengths, Ends, Results, IsOver
<1>7. pump # "off"
  BY <1>1 DEF PumpInv
<1>8. PumpInv'
  BY <1>1, <1>7 DEF PumpInv, IsOver
<1>9. CASE Head(queue) = EndMark
  <2>1. reading' = "ended" /\ yielded' = yielded
    BY <1>1, <1>9
  <2>2. pump = "done"
    BY <1>2, <1>3, <1>4, <1>9 DEF QueueInv, EndMark
  <2>3. Len(queue) = 1
    <3>1. queue[1] = IF 1 = Len(queue) THEN EndMark ELSE Len(yielded) + 1
      <4>1. 1 \in 1 .. Len(queue)
        BY <1>2, <1>3
      <4> QED BY <1>1, <2>2, <4>1 DEF QueueInv
    <3> QED BY <1>2, <1>4, <1>9, <3>1 DEF EndMark
  <2>4. Len(yielded) = Len(log)
    BY <1>1, <1>2, <2>2, <2>3 DEF QueueInv
  <2>5. QueueInv'
    BY <1>1, <1>4, <2>1, <2>2, <2>3, <2>4 DEF QueueInv
  <2> QED
    BY <1>1, <1>4, <1>5, <1>6, <1>8, <2>1, <2>5 DEF PythonTypeOK, StreamInv
<1>10. CASE Head(queue) # EndMark
  <2>1. reading' = reading /\ yielded' = Append(yielded, Head(queue))
    BY <1>1, <1>10
  <2>2. /\ yielded' \in Seq(Nat) /\ Len(yielded') = Len(yielded) + 1
        /\ yielded'[Len(yielded) + 1] = Head(queue)
        /\ \A i \in 1 .. Len(yielded) : yielded'[i] = yielded[i]
    BY <1>4, <2>1, AppendFacts DEF PythonTypeOK
  <2>3. Head(queue) = Len(yielded) + 1 /\ (pump = "done" => Len(queue) > 1)
    <3>1. CASE pump = "done"
      <4>1. queue[1] = IF 1 = Len(queue) THEN EndMark ELSE Len(yielded) + 1
        <5>1. 1 \in 1 .. Len(queue)
          BY <1>2, <1>3
        <5> QED BY <1>1, <3>1, <5>1 DEF QueueInv
      <4> QED BY <1>2, <1>3, <1>4, <1>10, <4>1
    <3>2. CASE pump # "done"
      <4>1. 1 \in 1 .. Len(queue)
        BY <1>2, <1>3
      <4> QED BY <1>4, <3>2, <4>1 DEF QueueInv
    <3> QED BY <3>1, <3>2
  <2>4. \A i \in 1 .. Len(yielded') : yielded'[i] = i
    <3> SUFFICES ASSUME NEW i \in 1 .. Len(yielded') PROVE yielded'[i] = i
        OBVIOUS
    <3>1. i = Len(yielded) + 1 \/ i \in 1 .. Len(yielded)
      BY <1>2, <2>2
    <3> QED BY <2>2, <2>3, <3>1 DEF QueueInv
  <2>5. ASSUME pump = "done" PROVE QueueInv'
    <3>1. \A i \in 1 .. Len(queue') :
              queue'[i] = IF i = Len(queue') THEN EndMark ELSE Len(yielded') + i
      <4> SUFFICES ASSUME NEW i \in 1 .. Len(queue')
                   PROVE  queue'[i] = IF i = Len(queue') THEN EndMark ELSE Len(yielded') + i
          OBVIOUS
      <4>1. i + 1 \in 1 .. Len(queue) /\ queue'[i] = queue[i + 1]
        BY <1>2, <1>4
      <4>2. queue[i + 1] = IF i + 1 = Len(queue) THEN EndMark ELSE Len(yielded) + (i + 1)
        BY <1>1, <2>5, <4>1 DEF QueueInv
      <4>3. i + 1 = Len(queue) <=> i = Len(queue')
        BY <1>2, <1>4
      <4> QED BY <1>2, <2>2, <4>1, <4>2, <4>3
    <3>2. Len(queue') > 0 /\ Len(yielded') + Len(queue') = Len(log') + 1
      <4>1. Len(yielded) + Len(queue) = Len(log) + 1 /\ Len(log') = Len(log)
        BY <1>1, <2>5 DEF QueueInv
      <4>2. Len(queue') = Len(queue) - 1 /\ Len(yielded') = Len(yielded) + 1
        BY <1>4, <2>2
      <4>3. Len(queue) > 1
        BY <2>3, <2>5
      <4> QED BY <1>2, <4>1, <4>2, <4>3
    <3> QED
      BY <1>1, <2>1, <2>4, <2>5, <3>1, <3>2 DEF QueueInv
  <2>6. ASSUME pump # "done" PROVE QueueInv'
    <3>1. \A i \in 1 .. Len(queue') : queue'[i] = Len(yielded') + i
      BY <1>2, <1>4, <2>2, <2>6 DEF QueueInv
    <3>2. Len(yielded') + Len(queue') = Len(yielded) + Len(queue)
      BY <1>2, <1>4, <2>2
    <3>3. Len(yielded) + Len(queue) = IF pump = "put" THEN Len(got) - 1 ELSE Len(got)
      BY <1>7, <2>6 DEF QueueInv
    <3> QED
      BY <1>1, <2>1, <2>4, <2>6, <3>1, <3>2, <3>3 DEF QueueInv
  <2> QED
    BY <1>1, <1>4, <1>5, <1>6, <1>8, <2>1, <2>2, <2>5, <2>6 DEF PythonTypeOK, StreamInv
<1> QED
  BY <1>9, <1>10

(* The inductive invariant of the Python run: run, forwarder, pump and     *)
(* program, for any capacity, queue and length of the log.                 *)
THEOREM PythonSafety == PythonSpec => []PythonInv
<1>1. PythonInv /\ [PythonNext]_pythonVars => PythonInv'
  <2> SUFFICES ASSUME PythonInv, [PythonNext]_pythonVars PROVE PythonInv'
      OBVIOUS
  <2>1. CASE UNCHANGED pythonVars
    BY <2>1 DEF pythonVars, PythonInv, PythonTypeOK, PumpInv, QueueInv, StreamInv,
                StreamTypeOK, Pieces, Lengths, Ends, Results, IsOver
  <2>2. CASE PythonNext
    BY <2>2, EngineInv, RustHostInv, PumpNextInv, PumpPutInv, PumpEndsInv, ReadingInv, GetInv
       DEF PythonNext, Pump
  <2> QED BY <2>1, <2>2
<1> QED BY <1>1, PythonInitInv, PTL DEF PythonSpec

(* A Python program is a host like any other: through the pump it does to  *)
(* the native stream only what a host in Rust may do (next_event of run.rs *)
(* called by _pump_events), so that whatever is true of every host of the  *)
(* stream is true of it.                                                   *)
THEOREM PumpIsAHost == PythonSpec => StreamInit /\ [][StreamNext]_streamVars
<1>1. PythonInit => StreamInit
  BY DEF PythonInit
<1>2. PythonInv /\ [PythonNext]_pythonVars => [StreamNext]_streamVars
  <2> SUFFICES ASSUME PythonInv, [PythonNext]_pythonVars PROVE [StreamNext]_streamVars
      OBVIOUS
  <2>1. CASE EngineStep \/ RustHost
    BY <2>1 DEF EngineStep, RustHost, StreamNext
  <2>2. CASE PumpNext
    BY <2>2, PumpNextIsNextEvent DEF StreamNext, Host
  <2>3. CASE PumpPut \/ PumpEnds \/ StartReading \/ StopReading \/ Get
    BY <2>3 DEF PumpPut, PumpEnds, StartReading, StopReading, Get, streamVars
  <2>4. CASE UNCHANGED pythonVars
    BY <2>4 DEF pythonVars, streamVars
  <2> QED BY <2>1, <2>2, <2>3, <2>4 DEF PythonNext, Pump
<1> QED BY <1>1, <1>2, PythonSafety, PTL DEF PythonSpec

(* What events() yields is the log from its start, all of it when the loop *)
(* comes to its end, and the future tells how the run ended, for any sizes *)
(* of channel and queue and however often the program stops reading.       *)
THEOREM ProgramsSeeTheRun == PythonSpec => []ProgramSeesTheRun
<1>1. PythonInv => ProgramSeesTheRun
  <2> SUFFICES ASSUME PythonInv PROVE ProgramSeesTheRun
      OBVIOUS
  <2>1. YieldsTheLog
    BY DEF PythonInv, YieldsTheLog, QueueInv, PumpInv
  <2>2. FutureTellsTheEnd
    BY DEF PythonInv, FutureTellsTheEnd, PumpInv
  <2> QED BY <2>1, <2>2 DEF ProgramSeesTheRun
<1> QED BY <1>1, PythonSafety, PTL
=============================================================================
