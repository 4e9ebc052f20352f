----------------------------- MODULE PythonRun ------------------------------
(***************************************************************************)
(* Run of the Python package: a pump task takes the run's events from the  *)
(* native handle one by one and puts them into an asyncio queue, which     *)
(* events() empties; the end of the run is put into a future, which        *)
(* result() awaits.  The native handle is kept by the agent for good, so   *)
(* that nobody drops it, and only the pump reads it.  A run of a host in   *)
(* Rust has no pump: there the host has the handle itself.                 *)
(*                                                                         *)
(* A program may iterate the events, stop at any event, come back to them, *)
(* or never look at them and only await the result.                        *)
(***************************************************************************)
EXTENDS EventStream

CONSTANT QueueSize      \* of the asyncio queue: 128 in the code

ASSUME QueueAssumption == QueueSize \in Nat \ {0}

VARIABLES
    queue,      \* Run._queue; EndMark is the None that ends it
    pump,       \* where _pump_events is; "off" if the host is one in Rust
    state,      \* state of _pump_events: the terminal event it has met
    future,     \* Run._result
    reading,    \* the program is iterating events()
    yielded     \* what events() has yielded

pumpVars == <<queue, pump, state, future>>
programVars == <<reading, yielded>>
pythonVars == <<log, fwd, batch, sunk, channel, got, handle, found, answer,
                queue, pump, state, future, reading, yielded>>

EndMark == 0

PythonTypeOK ==
    /\ StreamTypeOK
    /\ queue \in Seq(Nat)
    /\ Len(queue) <= QueueSize
    /\ pump \in {"off", "next", "put", "end", "done"}
    /\ state \in Terminals \union {None}
    /\ future \in Terminals \union {None}
    /\ reading \in {"no", "yes", "ended"}
    /\ yielded \in Seq(Nat)

PythonInit ==
    /\ StreamInit
    /\ queue = <<>>
    /\ pump \in {"off", "next"}
    /\ state = None
    /\ future = None
    /\ reading = "no"
    /\ yielded = <<>>

----------------------------------------------------------------------------
(* The engine's side: the run and its forwarder.                           *)
EngineStep ==
    /\ Forward \/ \E kind \in Kinds : Emit(kind)
    /\ UNCHANGED pumpVars
    /\ UNCHANGED programVars

(* A host in Rust: EventStream as it is.                                   *)
RustHost ==
    /\ pump = "off"
    /\ Host
    /\ UNCHANGED pumpVars
    /\ UNCHANGED programVars

(* next_event waits for an event of the handle.  The stream of a handle    *)
(* that nobody drops ends only after the terminal event, where the pump    *)
(* stops: it never meets the end of the stream itself.                     *)
PumpNext ==
    /\ pump = "next"
    /\ Receive
    /\ state' = IF log[Head(channel)] \in Terminals THEN log[Head(channel)] ELSE state
    /\ pump' = "put"
    /\ UNCHANGED <<log, fwd, batch, sunk, handle, found, answer>>
    /\ UNCHANGED <<queue, future>>
    /\ UNCHANGED programVars

(* await self._queue.put: waits for room.                                  *)
Put(item) ==
    /\ Len(queue) < QueueSize
    /\ queue' = Append(queue, item)

\* Mutant: an event for which there is no room is dropped.
PumpPutOrDrop ==
    /\ pump = "put"
    /\ queue' = IF Len(queue) < QueueSize THEN Append(queue, got[Len(got)]) ELSE queue
    /\ pump' = IF state = None THEN "next" ELSE "end"
    /\ UNCHANGED <<log, fwd, batch, sunk, channel, got, handle, found, answer>>
    /\ UNCHANGED <<state, future>>
    /\ UNCHANGED programVars

PumpPut ==
    /\ pump = "put"
    /\ Put(got[Len(got)])
    /\ pump' = IF state = None THEN "next" ELSE "end"
    /\ UNCHANGED <<log, fwd, batch, sunk, channel, got, handle, found, answer>>
    /\ UNCHANGED <<state, future>>
    /\ UNCHANGED programVars

\* Mutant: the future is set to an error whatever the end was.
PumpEndsFailed ==
    /\ pump = "end"
    /\ Put(EndMark)
    /\ future' = "Failed"
    /\ pump' = "done"
    /\ UNCHANGED <<log, fwd, batch, sunk, channel, got, handle, found, answer>>
    /\ UNCHANGED state
    /\ UNCHANGED programVars

\* Mutant: the mark that ends the queue is forgotten.
PumpEndsSilently ==
    /\ pump = "end"
    /\ future' = state
    /\ pump' = "done"
    /\ UNCHANGED <<log, fwd, batch, sunk, channel, got, handle, found, answer>>
    /\ UNCHANGED <<queue, state>>
    /\ UNCHANGED programVars

(* The mark goes into the queue first; only then is the future set.        *)
PumpEnds ==
    /\ pump = "end"
    /\ Put(EndMark)
    /\ future' = state
    /\ pump' = "done"
    /\ UNCHANGED <<log, fwd, batch, sunk, channel, got, handle, found, answer>>
    /\ UNCHANGED state
    /\ UNCHANGED programVars

Pump == PumpNext \/ PumpPut \/ PumpEnds

----------------------------------------------------------------------------
(* The program.                                                            *)

StartReading ==
    /\ pump # "off"
    /\ reading = "no"
    /\ reading' = "yes"
    /\ UNCHANGED <<log, fwd, batch, sunk, channel, got, handle, found, answer>>
    /\ UNCHANGED pumpVars
    /\ UNCHANGED yielded

(* The program leaves the loop over events(), or never enters one.         *)
StopReading ==
    /\ reading = "yes"
    /\ reading' = "no"
    /\ UNCHANGED <<log, fwd, batch, sunk, channel, got, handle, found, answer>>
    /\ UNCHANGED pumpVars
    /\ UNCHANGED yielded

Get ==
    /\ reading = "yes"
    /\ queue # <<>>
    /\ queue' = Tail(queue)
    /\ \/ /\ Head(queue) = EndMark
          /\ reading' = "ended"
          /\ UNCHANGED yielded
       \/ /\ Head(queue) # EndMark
          /\ yielded' = Append(yielded, Head(queue))
          /\ UNCHANGED reading
    /\ UNCHANGED <<log, fwd, batch, sunk, channel, got, handle, found, answer>>
    /\ UNCHANGED <<pump, state, future>>

PythonNext == EngineStep \/ RustHost \/ Pump \/ StartReading \/ StopReading \/ Get

(* The forwarder, the pump, a call of result and a loop over the events go *)
(* on whenever they can; nothing makes a program read.                     *)
PythonSpec ==
    /\ PythonInit
    /\ [][PythonNext]_pythonVars
    /\ WF_pythonVars(Forward /\ UNCHANGED pumpVars /\ UNCHANGED programVars)
    /\ WF_pythonVars(RustHost /\ (ResultReads \/ ResultReturns))
    /\ WF_pythonVars(Pump)
    /\ WF_pythonVars(Get)

----------------------------------------------------------------------------
(* docs/python/events.md: "Sequence is monotonic for a run.  Exactly one   *)
(* terminal event".  What events() yields, over all its iterations, is the *)
(* log from its first event on, and a loop that came to its end has        *)
(* yielded all of it.                                                      *)
YieldsTheLog ==
    /\ \A i \in 1 .. Len(yielded) : yielded[i] = i
    /\ reading = "ended" => IsOver /\ Len(yielded) = Len(log)

(* The future tells how the run ended.                                     *)
FutureTellsTheEnd == future # None => IsOver /\ future = log[Len(log)]

(* What a program sees of a run, through run.events() and run.result(), is  *)
(* what the run did.                                                        *)
ProgramSeesTheRun == YieldsTheLog /\ FutureTellsTheEnd

(* A program that never stops iterating the events of a run that ends gets *)
(* to the end of the loop and has the result.                              *)
ReadersFinish ==
    <>[](reading = "yes" \/ reading = "ended") /\ <>IsOver
        => <>(reading = "ended" /\ future # None)

(* Nobody who waits for a run that ends waits for ever: result() of the     *)
(* handle, the thread that forwards its events, and the program.            *)
WaitsForTheRunEnd == ResultReturnsAtLast /\ ForwarderEnds /\ ReadersFinish

(* docs/python/events.md: "Closing or dropping run.events() does not       *)
(* cancel the run.  await run.result() still completes."                   *)
ResultCompletes == pump # "off" /\ IsOver ~> future # None
=============================================================================
