----------------------------- MODULE Lifecycle -----------------------------
(***************************************************************************)
(* start, run and stop of the five workers, and their owner, the thread    *)
(* that holds the objects.  The owner is main: it starts the workers in    *)
(* main's order.  main then sleeps in pause(); where it does, the owner of *)
(* this module may call stop on any worker, which is what the methods are  *)
(* for.  If a start throws, main leaves its block and the model ends.      *)
(*                                                                         *)
(* A queue is a number of items and a flag: ThreadSafeQueue shows that     *)
(* this is all its users can tell apart.  What the items are is the matter *)
(* of FrameReassembly and RadarPipeline.                                   *)
(***************************************************************************)
EXTENDS Naturals, Sequences, FiniteSets

CONSTANT
    MaxDatagrams    \* bound: datagrams that arrive in one behaviour

ASSUME LifecycleAssumption == MaxDatagrams \in Nat

Workers == {"receiver", "reassembler", "processor", "target_sender",
            "power_map_sender"}
Senders == {"target_sender", "power_map_sender"}
Queues == {"packet_queue", "frame_queue", "target_queue", "power_map_queue"}

\* The order in which main calls start.
StartOrder == <<"reassembler", "receiver", "processor", "target_sender",
                "power_map_sender">>

\* The queue a worker pops from; the receiver reads its socket instead.
Input == [reassembler |-> "packet_queue", processor |-> "frame_queue",
          target_sender |-> "target_queue",
          power_map_sender |-> "power_map_queue"]

VARIABLES
    running,    \* running_ of each worker
    thread,     \* where each worker's thread is
    died,       \* the workers whose run was left by an exception
    items,      \* the number of items in each queue
    closed,     \* closed_ of each queue
    arrived,    \* the number of datagrams that have come
    started,    \* the number of start calls that have returned
    owner,      \* "starting", "started", or "failed": a start has thrown
    call,       \* where the owner is in a call of stop
    told,       \* the workers whose stop has been called
    joins       \* per worker, the number of pthread_join calls made

vars == <<running, thread, died, items, closed, arrived, started, owner, call,
          told, joins>>

queueVars == <<items, closed, arrived>>
ownerVars == <<started, owner, call, told, joins>>

NoCall == [worker |-> "none", step |-> "none"]

Init ==
    /\ running = [w \in Workers |-> FALSE]
    /\ thread = [w \in Workers |-> "none"]
    /\ died = {}
    /\ items = [q \in Queues |-> 0]
    /\ closed = [q \in Queues |-> FALSE]
    /\ arrived = 0
    /\ started = 0
    /\ owner = "starting"
    /\ call = NoCall
    /\ told = {}
    /\ joins = [w \in Workers |-> 0]
-----------------------------------------------------------------------------
\* The owner's calls of start.

ToStart == StartOrder[started + 1]

StartReturns ==
    /\ started' = started + 1
    /\ owner' = IF started + 1 = Len(StartOrder) THEN "started" ELSE "starting"
    /\ UNCHANGED <<died, queueVars, call, told, joins>>

\* Mutant: start leaves running_ as the constructor set it.
StartWorker_WithoutFlag ==
    /\ owner = "starting"
    /\ thread' = [thread EXCEPT ![ToStart] = "created"]
    /\ StartReturns
    /\ UNCHANGED running

\* start sets running_ and creates the thread.
StartWorker ==
    /\ owner = "starting"
    /\ running' = [running EXCEPT ![ToStart] = TRUE]
    /\ thread' = [thread EXCEPT ![ToStart] = "created"]
    /\ StartReturns

\* Receiver and reassembler ignore the result of pthread_create.
StartIgnoresFailure ==
    /\ owner = "starting"
    /\ ToStart \in {"receiver", "reassembler"}
    /\ running' = [running EXCEPT ![ToStart] = TRUE]
    /\ StartReturns
    /\ UNCHANGED thread

\* The others throw then, and the receiver if it cannot set its socket's timeout.
StartThrows ==
    /\ owner = "starting"
    /\ ToStart # "reassembler"
    /\ owner' = "failed"
    /\ UNCHANGED <<running, thread, died, queueVars, started, call, told, joins>>
-----------------------------------------------------------------------------
\* The owner's calls of stop, which run beside the threads.

StopCalled(w, step) ==
    /\ call' = [worker |-> w, step |-> step]
    /\ told' = told \cup {w}
    /\ running' = [running EXCEPT ![w] = FALSE]
    /\ UNCHANGED <<thread, died, queueVars, started, owner, joins>>

\* Mutant: the senders' stop does not test running_.
StopSender_Unguarded(w) ==
    /\ owner = "started"
    /\ call = NoCall
    /\ StopCalled(w, "close")

\* The senders' stop does nothing unless running_: it may be called again.
StopSender(w) ==
    /\ owner = "started"
    /\ call = NoCall
    /\ running[w]
    /\ StopCalled(w, "close")

\* The other three stop unconditionally; calling them again would join twice.
StopProcessor ==
    /\ owner = "started"
    /\ call = NoCall
    /\ "processor" \notin told
    /\ StopCalled("processor", "close")

StopWithoutClose(w) ==
    /\ owner = "started"
    /\ call = NoCall
    /\ w \notin told
    /\ StopCalled(w, "join")

\* Mutant: stop goes from the flag to the join.
CloseInput_Never ==
    /\ call.step = "close"
    /\ call' = [call EXCEPT !.step = "join"]
    /\ UNCHANGED <<running, thread, died, queueVars, started, owner, told, joins>>

CloseInput ==
    /\ call.step = "close"
    /\ closed' = [closed EXCEPT ![Input[call.worker]] = TRUE]
    /\ call' = [call EXCEPT !.step = "join"]
    /\ UNCHANGED <<running, thread, died, items, arrived, started, owner, told, joins>>

\* pthread_join returns when the thread has ended.
JoinReturns ==
    /\ call.step = "join"
    /\ thread[call.worker] = "ended"
    /\ joins' = [joins EXCEPT ![call.worker] = @ + 1]
    /\ call' = NoCall
    /\ UNCHANGED <<running, thread, died, queueVars, started, owner, told>>

\* thread_id_ was never set: the join is undefined.  Here it returns with an
\* error; that nothing forces this step stands for a join that hangs.
JoinUndefined ==
    /\ call.step = "join"
    /\ thread[call.worker] = "none"
    /\ joins' = [joins EXCEPT ![call.worker] = @ + 1]
    /\ call' = NoCall
    /\ UNCHANGED <<running, thread, died, queueVars, started, owner, told>>
-----------------------------------------------------------------------------
\* The threads.

GoTo(w, place) == thread' = [thread EXCEPT ![w] = place]

EndBy(w, dead) ==
    /\ GoTo(w, "ended")
    /\ died' = died \cup dead

\* The thread enters run; the processor's run calls init first, which may throw.
EnterRun(w) ==
    /\ thread[w] = "created"
    /\ \/ GoTo(w, "testing") /\ UNCHANGED died
       \/ w = "processor" /\ EndBy(w, {w})
    /\ UNCHANGED <<running, queueVars, ownerVars>>

\* while (running_)
TestRunning(w) ==
    /\ thread[w] = "testing"
    /\ GoTo(w, IF running[w] THEN "taking" ELSE "ended")
    /\ UNCHANGED <<running, died, queueVars, ownerVars>>

ReceiveDatagram ==
    /\ thread["receiver"] = "taking"
    /\ arrived < MaxDatagrams
    /\ arrived' = arrived + 1
    /\ GoTo("receiver", "working")
    /\ UNCHANGED <<running, died, items, closed, ownerVars>>

\* No datagram for 100 ms, or one that is too short: the next round.
ReceiveTimeout ==
    /\ thread["receiver"] = "taking"
    /\ GoTo("receiver", "testing")
    /\ UNCHANGED <<running, died, queueVars, ownerVars>>

ReceiveFails ==
    /\ thread["receiver"] = "taking"
    /\ EndBy("receiver", {"receiver"})
    /\ UNCHANGED <<running, queueVars, ownerVars>>

\* Mutant: pop reads queue_.front() and leaves the item in the queue.
Pop_Front(w) ==
    /\ thread[w] = "taking"
    /\ items[Input[w]] > 0
    /\ GoTo(w, "working")
    /\ UNCHANGED <<running, died, queueVars, ownerVars>>

Pop(w) ==
    /\ thread[w] = "taking"
    /\ items[Input[w]] > 0
    /\ items' = [items EXCEPT ![Input[w]] = @ - 1]
    /\ GoTo(w, "working")
    /\ UNCHANGED <<running, died, closed, arrived, ownerVars>>

\* pop throws, and the loop is left.
PopThrows(w) ==
    /\ thread[w] = "taking"
    /\ items[Input[w]] = 0
    /\ closed[Input[w]]
    /\ GoTo(w, "ended")
    /\ UNCHANGED <<running, died, queueVars, ownerVars>>

\* One round's work ends with a push to each of some queues.
FinishRound(w, outputs) ==
    /\ thread[w] = "working"
    /\ items' = [q \in Queues |-> IF q \in outputs THEN items[q] + 1 ELSE items[q]]
    /\ GoTo(w, "testing")
    /\ UNCHANGED <<running, died, closed, arrived, ownerVars>>

PushPacket == FinishRound("receiver", {"packet_queue"})

\* The packet completes a frame, or not.
ReassemblePacket ==
    \/ FinishRound("reassembler", {"frame_queue"})
    \/ FinishRound("reassembler", {})

\* The frame is processed, or dropped.
ProcessFrame ==
    \/ FinishRound("processor", {"power_map_queue", "target_queue"})
    \/ FinishRound("processor", {})

Send(w) == FinishRound(w, {})

\* sendto throws, and the thread ends with running_ still set.
SendFails(w) ==
    /\ thread[w] = "working"
    /\ EndBy(w, {w})
    /\ UNCHANGED <<running, queueVars, ownerVars>>

PopOrThrow(w) == Pop(w) \/ PopThrows(w)
-----------------------------------------------------------------------------
Start == StartWorker \/ StartIgnoresFailure \/ StartThrows

Stop ==
    \/ \E w \in Senders : StopSender(w)
    \/ StopProcessor
    \/ \E w \in {"receiver", "reassembler"} : StopWithoutClose(w)

Receiver ==
    \/ EnterRun("receiver")
    \/ TestRunning("receiver")
    \/ ReceiveDatagram
    \/ ReceiveTimeout
    \/ ReceiveFails
    \/ PushPacket

Reassembler ==
    \/ EnterRun("reassembler")
    \/ TestRunning("reassembler")
    \/ Pop("reassembler")
    \/ ReassemblePacket

Processor ==
    \/ EnterRun("processor")
    \/ TestRunning("processor")
    \/ PopOrThrow("processor")
    \/ ProcessFrame

Sender(w) ==
    \/ EnterRun(w)
    \/ TestRunning(w)
    \/ PopOrThrow(w)
    \/ Send(w)
    \/ SendFails(w)

Next ==
    \/ Start
    \/ Stop
    \/ CloseInput
    \/ JoinReturns
    \/ JoinUndefined
    \/ Receiver
    \/ Reassembler
    \/ Processor
    \/ \E w \in Senders : Sender(w)

Spec == Init /\ [][Next]_vars

\* The threads run, and the owner goes on in a call of stop when it can.
\* Nothing makes the owner call stop, and nothing makes datagrams arrive.
FairSpec ==
    /\ Spec
    /\ WF_vars(CloseInput)
    /\ WF_vars(JoinReturns)
    /\ WF_vars(Receiver)
    /\ WF_vars(Reassembler)
    /\ WF_vars(Processor)
    /\ \A w \in Senders : WF_vars(Sender(w))
-----------------------------------------------------------------------------
Places == {"none", "created", "testing", "taking", "working", "ended"}

\* Types; no more items than datagrams; a call of stop is in one of its steps.
TypeOK ==
    /\ running \in [Workers -> BOOLEAN]
    /\ thread \in [Workers -> Places]
    /\ died \subseteq Workers
    /\ items \in [Queues -> 0 .. MaxDatagrams]
    /\ closed \in [Queues -> BOOLEAN]
    /\ arrived \in 0 .. MaxDatagrams
    /\ started \in 0 .. Len(StartOrder)
    /\ owner \in {"starting", "started", "failed"}
    /\ call \in {NoCall} \cup [worker : Workers, step : {"close", "join"}]
    /\ told \subseteq Workers
    /\ joins \in [Workers -> Nat]

\* Stopping one worker ends no other, and no worker ends right after its start:
\* a thread is over only if its own stop was called or its own work failed
\* (running_ is set before the thread exists, a stop closes its own queue).
EndsOnlyWhenTold ==
    \A w \in Workers : thread[w] = "ended" => w \in told \cup died

\* The senders' stop can be called in any state of the thread, and again: it
\* joins a thread that was created, and joins it once.  It relies on running_,
\* which a thread that died leaves set.
SenderJoins ==
    \A w \in Senders :
        /\ joins[w] <= 1
        /\ call = [worker |-> w, step |-> "join"] => thread[w] # "none" /\ joins[w] = 0

\* A call of stop returns whatever the thread is doing, if there is one: it waits
\* at its queue, works, or is long dead; upstream may be stopped or running.
StopReturnsFor(w) ==
    (call.worker = w /\ thread[w] # "none") ~> (call.worker # w)

StopReturns ==
    \A w \in {"receiver", "processor"} \cup Senders : StopReturnsFor(w)

\* ThreadSafeQueue.hpp:71 says that the parent thread calls close() so that pop
\* does not block it.  RadarReassembler::stop joins without.
ReassemblerStops == StopReturnsFor("reassembler")
=============================================================================
