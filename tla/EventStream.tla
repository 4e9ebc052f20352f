---------------------------- MODULE EventStream -----------------------------
(***************************************************************************)
(* The way of a run's events to its host: spawn_event_forwarder copies the *)
(* log of the run table into a bounded channel and shows every event to    *)
(* the event sink; the host reads the channel through its RunHandle, or    *)
(* lets result read it to its end.                                         *)
(*                                                                         *)
(* An event is its sequence number: CoordinatorProofs shows that a log is  *)
(* numbered without gap and ends with its only terminal event.  log[n] is  *)
(* the kind of event n.                                                    *)
(***************************************************************************)
EXTENDS Naturals, Sequences

CONSTANTS
    Capacity,       \* of the channel: 128 in the code
    MaxEvents       \* bound: events of the run

ASSUME StreamAssumption ==
    /\ Capacity \in Nat \ {0}
    /\ MaxEvents \in Nat \ {0}

VARIABLES
    log,        \* the kinds of the events in the run table
    fwd,        \* where the forwarder is
    batch,      \* events it has copied from the log and not offered yet
    sunk,       \* events the sink was shown
    channel,    \* events in the channel
    got,        \* events the receiver was given
    handle,     \* what the host does with its handle
    found,      \* result: the terminal state seen so far
    answer      \* what the last call of result returned

streamVars == <<log, fwd, batch, sunk, channel, got, handle, found, answer>>

Terminals == {"Completed", "Failed", "Cancelled"}
Kinds == {"Progress"} \union Terminals
ForwarderSteps == {"read", "wait", "offer", "send", "done"}
None == "none"

StreamTypeOK ==
    /\ log \in Seq(Kinds)
    /\ fwd \in ForwarderSteps
    /\ batch \in Seq(Nat)
    /\ sunk \in Seq(Nat)
    /\ channel \in Seq(Nat)
    /\ Len(channel) <= Capacity
    /\ got \in Seq(Nat)
    /\ handle \in {"open", "result", "dropped"}
    /\ found \in Terminals \union {None}
    /\ answer \in Terminals \union {None}

(* A run is registered with its first event before its forwarder starts.   *)
StreamInit ==
    /\ log = <<"Progress">>
    /\ fwd = "read"
    /\ batch = <<>>
    /\ sunk = <<>>
    /\ channel = <<>>
    /\ got = <<>>
    /\ handle = "open"
    /\ found = None
    /\ answer = None

IsOver == log[Len(log)] \in Terminals

(* append_event: a log that has a terminal event takes no other.           *)
Emit(kind) ==
    /\ ~IsOver
    /\ Len(log) < MaxEvents
    /\ log' = Append(log, kind)
    /\ UNCHANGED <<fwd, batch, sunk, channel, got, handle, found, answer>>

----------------------------------------------------------------------------
(* The forwarder.                                                          *)

(* sequence: the last event that was offered.                              *)
Sequence == Len(sunk)

\* Mutant: the comparison includes the event that was sent last.
EventsFrom(n) == [i \in 1 .. Len(log) - n + 1 |-> n + i - 1]

EventsSince(n) == [i \in 1 .. Len(log) - n |-> n + i]

ReadLog ==
    /\ fwd = "read"
    /\ batch' = EventsSince(Sequence)
    /\ fwd' = IF batch' = <<>> THEN "wait" ELSE "offer"
    /\ UNCHANGED <<log, sunk, channel, got, handle, found, answer>>

(* A notification, or five milliseconds.                                   *)
WaitOver ==
    /\ fwd = "wait"
    /\ fwd' = "read"
    /\ UNCHANGED <<log, batch, sunk, channel, got, handle, found, answer>>

(* The next event of the batch goes to the sink, then waits for room.      *)
Offer ==
    /\ fwd = "offer"
    /\ sunk' = Append(sunk, Head(batch))
    /\ batch' = Tail(batch)
    /\ fwd' = "send"
    /\ UNCHANGED <<log, channel, got, handle, found, answer>>

AfterSend(n) ==
    IF log[n] \in Terminals THEN "done" ELSE IF batch = <<>> THEN "read" ELSE "offer"

\* Mutant: the forwarder goes on when nobody can receive.
SendForever ==
    /\ fwd = "send"
    /\ \/ /\ handle # "dropped"
          /\ Len(channel) < Capacity
          /\ channel' = Append(channel, sunk[Len(sunk)])
       \/ /\ handle = "dropped"
          /\ UNCHANGED channel
    /\ fwd' = IF batch = <<>> THEN "read" ELSE "offer"
    /\ UNCHANGED <<log, batch, sunk, got, handle, found, answer>>

Send ==
    /\ fwd = "send"
    /\ \/ /\ handle # "dropped"
          /\ Len(channel) < Capacity
          /\ channel' = Append(channel, sunk[Len(sunk)])
          /\ fwd' = AfterSend(sunk[Len(sunk)])
       \/ /\ handle = "dropped"
          /\ fwd' = "done"
          /\ UNCHANGED channel
    /\ UNCHANGED <<log, batch, sunk, got, handle, found, answer>>

Forward == ReadLog \/ WaitOver \/ Offer \/ Send

----------------------------------------------------------------------------
(* The host and its RunHandle.                                             *)

Receive ==
    /\ channel # <<>>
    /\ got' = Append(got, Head(channel))
    /\ channel' = Tail(channel)

(* The channel is closed when the forwarder has dropped its sender.        *)
StreamEnded == channel = <<>> /\ fwd = "done"

NextEvent ==
    /\ handle = "open"
    /\ Receive
    /\ UNCHANGED <<log, fwd, batch, sunk, handle, found, answer>>

CallResult ==
    /\ handle = "open"
    /\ handle' = "result"
    /\ found' = None
    /\ UNCHANGED <<log, fwd, batch, sunk, channel, got, answer>>

\* Mutant: every end is taken for a failure.
ResultReadsAnything ==
    /\ handle = "result"
    /\ Receive
    /\ found' = IF log[Head(channel)] \in Terminals THEN "Failed" ELSE found
    /\ UNCHANGED <<log, fwd, batch, sunk, handle, answer>>

ResultReads ==
    /\ handle = "result"
    /\ Receive
    /\ found' = IF log[Head(channel)] \in Terminals THEN log[Head(channel)] ELSE found
    /\ UNCHANGED <<log, fwd, batch, sunk, handle, answer>>

ResultReturns ==
    /\ handle = "result"
    /\ StreamEnded
    /\ answer' = IF found = None THEN "Failed" ELSE found
    /\ handle' = "open"
    /\ UNCHANGED <<log, fwd, batch, sunk, channel, got, found>>

(* The receiver goes, and what the channel holds with it.                  *)
DropHandle ==
    /\ handle = "open"
    /\ handle' = "dropped"
    /\ channel' = <<>>
    /\ UNCHANGED <<log, fwd, batch, sunk, got, found, answer>>

Host == NextEvent \/ CallResult \/ ResultReads \/ ResultReturns \/ DropHandle

StreamNext ==
    \/ \E kind \in Kinds : Emit(kind)
    \/ Forward
    \/ Host

(* The forwarder's task and a host inside result go on whenever they can.  *)
StreamSpec ==
    /\ StreamInit
    /\ [][StreamNext]_streamVars
    /\ WF_streamVars(Forward)
    /\ WF_streamVars(ResultReads \/ ResultReturns)

----------------------------------------------------------------------------
(* docs/python/events.md: "A slow iterator delays event delivery; it does  *)
(* not reset sequence numbers."  Host and sink are given the events of the *)
(* log in order, each once; what the sink was shown and the host was not   *)
(* given waits in the channel or for room in it.                           *)
DeliveredInOrder ==
    /\ \A i \in 1 .. Len(got) : got[i] = i
    /\ \A i \in 1 .. Len(sunk) : sunk[i] = i
    /\ Len(sunk) <= Len(log)
    /\ handle # "dropped" =>
           Len(got) + Len(channel) = IF fwd = "send" THEN Len(sunk) - 1 ELSE Len(sunk)

(* run.rs: "Waits for the canonical Runtime terminal and returns its       *)
(* result."  A call of result returns only after the whole log was         *)
(* delivered, and tells how the run ended unless the host had taken the    *)
(* terminal event before.                                                  *)
ResultTellsTheEnd ==
    answer # None /\ handle = "open" =>
        /\ IsOver
        /\ Len(got) = Len(log)
        /\ found # None => answer = log[Len(log)]

(* A host that waits for the result of a run that is over gets it, however *)
(* many events are on their way.                                           *)
ResultReturnsAtLast == handle = "result" /\ IsOver ~> handle # "result"

(* The forwarder of a run that is over ends when its handle was dropped or *)
(* is read: no task is left behind for every run.                          *)
ForwarderEnds == IsOver /\ handle \in {"result", "dropped"} ~> fwd = "done"
=============================================================================
