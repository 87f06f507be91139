-------------------------- MODULE LifecycleProofs --------------------------
(***************************************************************************)
(* Starting and stopping, for any number of datagrams: no thread ends      *)
(* unless it is told to or fails, and the senders are joined once.         *)
(***************************************************************************)
EXTENDS Lifecycle, TLAPS
-----------------------------------------------------------------------------
(***************************************************************************)
(* The inductive invariant.  The owner's part says what running, told,     *)
(* call and joins have to do with each other; the queues' part counts what *)
(* is between the socket and a sender's queue.                             *)
(***************************************************************************)

OwnerTypes ==
    /\ running \in [Workers -> BOOLEAN]
    /\ thread \in [Workers -> Places]
    /\ died \subseteq Workers
    /\ closed \in [Queues -> BOOLEAN]
    /\ started \in 0 .. 5
    /\ owner \in {"starting", "started", "failed"}
    /\ call \in {NoCall} \cup [worker : Workers, step : {"close", "join"}]
    /\ told \subseteq Workers
    /\ joins \in [Workers -> Nat]

\* Until all workers are started, none is stopped.
NothingStopped ==
    owner # "started" =>
        /\ told = {}
        /\ call = NoCall
        /\ \A w \in Workers : joins[w] = 0

\* running is set before there is a thread, and is cleared by stop only.
Flags ==
    \A w \in Workers : thread[w] # "none" => running[w] \/ w \in told

\* A queue is closed by the stop of the worker that reads it.
Closers ==
    \A w \in DOMAIN Input : closed[Input[w]] => w \in told

\* A call of stop has cleared the flag; those that close have a queue.
Calls ==
    /\ call # NoCall => call.worker \in told /\ ~running[call.worker]
    /\ call.step = "close" => call.worker \in DOMAIN Input

\* A sender whose flag is set has a thread that nobody has joined, and so has
\* one that is in a call of stop.
SenderThreads ==
    \A w \in Senders :
        /\ joins[w] <= 1
        /\ running[w] \/ call.worker = w => thread[w] # "none" /\ joins[w] = 0

OwnerInv ==
    /\ OwnerTypes
    /\ owner = "starting" => started < 5
    /\ NothingStopped
    /\ Flags
    /\ Closers
    /\ Calls
    /\ SenderThreads
    /\ EndsOnlyWhenTold

Busy == [w \in Workers |-> IF thread[w] = "working" THEN 1 ELSE 0]

\* No datagram is in two places on its way to a sender.
QueueInv ==
    /\ items \in [Queues -> Nat]
    /\ arrived \in 0 .. MaxDatagrams
    /\ \A q \in {"target_queue", "power_map_queue"} :
          items["packet_queue"] + Busy["receiver"] + Busy["reassembler"]
              + items["frame_queue"] + Busy["processor"] + items[q] <= arrived

IInv == OwnerInv /\ QueueInv
-----------------------------------------------------------------------------
LEMMA Inputs ==
    /\ DOMAIN Input = Workers \ {"receiver"}
    /\ \A w \in DOMAIN Input : Input[w] \in Queues
    /\ \A v, w \in DOMAIN Input : Input[v] = Input[w] => v = w
    /\ Input["reassembler"] = "packet_queue"
    /\ Input["processor"] = "frame_queue"
    /\ Input["target_sender"] = "target_queue"
    /\ Input["power_map_sender"] = "power_map_queue"
BY DEF Input, Workers, Queues

LEMMA Starting ==
    ASSUME started \in 0 .. 5, started < 5
    PROVE  ToStart \in Workers
<1>1. started \in {0, 1, 2, 3, 4}
  OBVIOUS
<1>2. CASE started = 0
  BY <1>2 DEF ToStart, StartOrder, Workers
<1>3. CASE started = 1
  BY <1>3 DEF ToStart, StartOrder, Workers
<1>4. CASE started = 2
  BY <1>4 DEF ToStart, StartOrder, Workers
<1>5. CASE started = 3
  BY <1>5 DEF ToStart, StartOrder, Workers
<1>6. CASE started = 4
  BY <1>6 DEF ToStart, StartOrder, Workers
<1> QED  BY <1>1, <1>2, <1>3, <1>4, <1>5, <1>6

LEMMA InitIInv == Init => IInv
<1> SUFFICES ASSUME Init PROVE IInv
  OBVIOUS
<1>1. OwnerInv
  <2>1. call = NoCall /\ call.step = "none" /\ call.worker = "none"
    BY DEF Init, NoCall
  <2>2. OwnerTypes
    BY DEF Init, OwnerTypes, Places
  <2>3. \A w \in Senders : w \in Workers /\ w # "none"
    BY DEF Senders, Workers
  <2>4. NothingStopped /\ Flags /\ EndsOnlyWhenTold
    BY DEF Init, NothingStopped, Flags, EndsOnlyWhenTold
  <2>5. Closers
    BY Inputs DEF Init, Closers
  <2>6. Calls /\ SenderThreads
    BY <2>1, <2>3 DEF Init, Calls, SenderThreads
  <2> QED  BY <2>2, <2>4, <2>5, <2>6 DEF OwnerInv, Init
<1>2. QueueInv
  <2>1. /\ Busy["receiver"] = 0
        /\ Busy["reassembler"] = 0
        /\ Busy["processor"] = 0
    BY DEF Init, Busy, Workers
  <2> QED  BY <2>1, LifecycleAssumption DEF Init, QueueInv, Queues
<1> QED  BY <1>1, <1>2 DEF IInv
-----------------------------------------------------------------------------
(***************************************************************************)
(* The owner's steps.                                                      *)
(***************************************************************************)

\* They leave the queues' counts alone, and no thread is working that was not.
LEMMA OwnerLeavesQueues ==
    ASSUME QueueInv, items' = items, arrived' = arrived,
           \A w \in Workers : thread'[w] = "working" => thread[w] = "working"
    PROVE  QueueInv'
<1>1. ASSUME NEW w \in Workers
      PROVE  /\ Busy[w] \in 0 .. 1
             /\ Busy'[w] \in 0 .. 1
             /\ Busy'[w] <= Busy[w]
  BY DEF Busy
<1>2. {"receiver", "reassembler", "processor"} \subseteq Workers
  BY DEF Workers
<1>3. \A q \in Queues : items[q] \in Nat
  BY DEF QueueInv
<1>4. {"packet_queue", "frame_queue", "target_queue", "power_map_queue"} \subseteq Queues
  BY DEF Queues
<1>5. ASSUME NEW q \in {"target_queue", "power_map_queue"}
      PROVE  items["packet_queue"] + Busy'["receiver"] + Busy'["reassembler"]
                 + items["frame_queue"] + Busy'["processor"] + items[q] <= arrived
  <2>1. items["packet_queue"] + Busy["receiver"] + Busy["reassembler"]
            + items["frame_queue"] + Busy["processor"] + items[q] <= arrived
    BY DEF QueueInv
  <2>2. arrived \in Nat
    BY DEF QueueInv
  <2>3. /\ Busy["receiver"] \in 0 .. 1 /\ Busy'["receiver"] \in 0 .. 1
        /\ Busy["reassembler"] \in 0 .. 1 /\ Busy'["reassembler"] \in 0 .. 1
        /\ Busy["processor"] \in 0 .. 1 /\ Busy'["processor"] \in 0 .. 1
        /\ Busy'["receiver"] <= Busy["receiver"]
        /\ Busy'["reassembler"] <= Busy["reassembler"]
        /\ Busy'["processor"] <= Busy["processor"]
    BY <1>1, <1>2
  <2>4. items["packet_queue"] \in Nat /\ items["frame_queue"] \in Nat /\ items[q] \in Nat
    BY <1>3, <1>4
  <2> QED  BY <2>1, <2>2, <2>3, <2>4
<1> QED  BY <1>5 DEF QueueInv

LEMMA StartStep ==
    ASSUME IInv, Start PROVE IInv'
<1> DEFINE w == ToStart
<1>1. OwnerInv /\ QueueInv /\ owner = "starting"
  BY DEF IInv, Start, StartWorker, StartIgnoresFailure, StartThrows
<1>2. w \in Workers /\ started \in 0 .. 4
  BY <1>1, Starting DEF OwnerInv, OwnerTypes
<1>3. told = {} /\ call = NoCall /\ \A v \in Workers : joins[v] = 0
  BY <1>1 DEF OwnerInv, NothingStopped
<1>4. call.step = "none" /\ call.worker = "none"
  BY <1>3 DEF NoCall
<1>5. Senders \subseteq Workers /\ "none" \notin Senders
  BY DEF Senders, Workers
<1>6. UNCHANGED <<died, items, closed, arrived, call, told, joins>>
  BY DEF Start, StartWorker, StartIgnoresFailure, StartThrows, StartReturns, queueVars
<1>7. CASE StartWorker \/ StartIgnoresFailure
  <2>1. /\ running' = [running EXCEPT ![w] = TRUE]
        /\ thread' = [thread EXCEPT ![w] = "created"] \/ (w \notin Senders /\ thread' = thread)
    BY <1>7 DEF StartWorker, StartIgnoresFailure, Senders
  <2>2. /\ started' = started + 1
        /\ owner' = IF started + 1 = 5 THEN "started" ELSE "starting"
    BY <1>7 DEF StartWorker, StartIgnoresFailure, StartReturns, StartOrder
  <2>3. ASSUME NEW v \in Workers
        PROVE  /\ running'[v] = (v = w \/ running[v])
               /\ thread'[v] = thread[v] \/ (v = w /\ thread'[v] = "created")
               /\ v = w /\ v \in Senders => thread'[v] = "created"
    BY <1>1, <1>2, <2>1 DEF OwnerInv, OwnerTypes
  <2>4. OwnerTypes'
    <3>1. running' \in [Workers -> BOOLEAN]
      BY <1>1, <2>1 DEF OwnerInv, OwnerTypes
    <3>2. thread' \in [Workers -> Places]
      BY <1>1, <2>1 DEF OwnerInv, OwnerTypes, Places
    <3>3. started' \in 0 .. 5 /\ owner' \in {"starting", "started", "failed"}
      BY <1>2, <2>2
    <3> HIDE DEF w
    <3> QED  BY <1>1, <1>6, <3>1, <3>2, <3>3 DEF OwnerInv, OwnerTypes
  <2>5. (owner = "starting" => started < 5)'
    BY <1>2, <2>2
  <2> HIDE DEF w
  <2>6. NothingStopped'
    BY <1>3, <1>6 DEF NothingStopped
  <2>7. Flags'
    BY <1>1, <1>6, <2>3 DEF OwnerInv, Flags
  <2>8. Closers'
    BY <1>1, <1>6 DEF OwnerInv, Closers
  <2>9. Calls'
    BY <1>3, <1>4, <1>6 DEF Calls
  <2>10. SenderThreads'
    BY <1>1, <1>3, <1>4, <1>5, <1>6, <2>3 DEF OwnerInv, SenderThreads
  <2>11. EndsOnlyWhenTold'
    BY <1>1, <1>6, <2>3 DEF OwnerInv, EndsOnlyWhenTold
  <2>12. QueueInv'
    BY <1>1, <1>6, <2>3, OwnerLeavesQueues
  <2> QED  BY <2>4, <2>5, <2>6, <2>7, <2>8, <2>9, <2>10, <2>11, <2>12 DEF IInv, OwnerInv
<1>8. CASE StartThrows
  <2>1. owner' = "failed" /\ UNCHANGED <<running, thread, started>>
    BY <1>8 DEF StartThrows
  <2>2. QueueInv'
    BY <1>1, <1>6, <2>1, OwnerLeavesQueues
  <2>3. OwnerInv'
    BY <1>1, <1>3, <1>6, <2>1
       DEF OwnerInv, OwnerTypes, NothingStopped, Flags, Closers, Calls, SenderThreads,
           EndsOnlyWhenTold
  <2> QED  BY <2>2, <2>3 DEF IInv
<1> QED  BY <1>7, <1>8 DEF Start

LEMMA StopStep ==
    ASSUME IInv, Stop PROVE IInv'
<1>1. OwnerInv /\ QueueInv
  BY DEF IInv
<1>2. PICK w \in Workers, step \in {"close", "join"} :
          /\ owner = "started"
          /\ call = NoCall
          /\ StopCalled(w, step)
          /\ w \in Senders => running[w]
          /\ step = "close" => w \in DOMAIN Input
  BY Inputs DEF Stop, StopSender, StopProcessor, StopWithoutClose, Senders, Workers
<1>3. /\ call' = [worker |-> w, step |-> step]
      /\ call'.worker = w /\ call'.step = step
      /\ told' = told \cup {w}
      /\ running' = [running EXCEPT ![w] = FALSE]
      /\ UNCHANGED <<thread, died, items, closed, arrived, started, owner, joins>>
  BY <1>2 DEF StopCalled, queueVars
<1>4. ASSUME NEW v \in Workers
      PROVE  running'[v] = (v # w /\ running[v])
  BY <1>1, <1>3 DEF OwnerInv, OwnerTypes
<1>5. OwnerTypes'
  BY <1>1, <1>2, <1>3 DEF OwnerInv, OwnerTypes
<1>6. NothingStopped' /\ Flags' /\ Closers' /\ EndsOnlyWhenTold'
  BY <1>1, <1>2, <1>3, <1>4 DEF OwnerInv, NothingStopped, Flags, Closers, EndsOnlyWhenTold
<1>7. Calls'
  BY <1>2, <1>3, <1>4 DEF Calls
<1>8. SenderThreads'
  <2>1. Senders \subseteq Workers
    BY DEF Senders, Workers
  <2> QED  BY <1>1, <1>2, <1>3, <1>4, <2>1 DEF OwnerInv, SenderThreads
<1>9. QueueInv'
  BY <1>1, <1>3, OwnerLeavesQueues
<1> QED  BY <1>1, <1>2, <1>3, <1>5, <1>6, <1>7, <1>8, <1>9 DEF IInv, OwnerInv

LEMMA CloseInputStep ==
    ASSUME IInv, CloseInput PROVE IInv'
<1>1. OwnerInv /\ QueueInv
  BY DEF IInv
<1>2. PICK w \in Workers : call = [worker |-> w, step |-> "close"]
  <2>1. call # NoCall
    BY DEF CloseInput, NoCall
  <2>2. call \in [worker : Workers, step : {"close", "join"}] /\ call.step = "close"
    BY <1>1, <2>1 DEF OwnerInv, OwnerTypes, CloseInput
  <2> QED  BY <2>2
<1>3. call.worker = w /\ w \in DOMAIN Input /\ w \in told /\ ~running[w] /\ call # NoCall
  BY <1>1, <1>2 DEF OwnerInv, Calls, NoCall
<1>4. /\ closed' = [closed EXCEPT ![Input[w]] = TRUE]
      /\ call' = [worker |-> w, step |-> "join"]
      /\ call'.worker = w /\ call'.step = "join"
      /\ UNCHANGED <<running, thread, died, items, arrived, started, owner, told, joins>>
  BY <1>2, <1>3 DEF CloseInput
<1>5. OwnerTypes'
  BY <1>1, <1>4 DEF OwnerInv, OwnerTypes
<1>6. NothingStopped' /\ Flags' /\ EndsOnlyWhenTold' /\ Calls' /\ SenderThreads'
  BY <1>1, <1>3, <1>4
     DEF OwnerInv, NothingStopped, Flags, EndsOnlyWhenTold, Calls, SenderThreads
<1>7. Closers'
  <2>1. ASSUME NEW v \in DOMAIN Input, closed'[Input[v]]
        PROVE  v \in told
    <3>1. Input[v] \in Queues /\ closed \in [Queues -> BOOLEAN]
      BY <1>1, Inputs DEF OwnerInv, OwnerTypes
    <3>2. CASE Input[v] = Input[w]
      BY <1>3, <3>2, Inputs
    <3>3. CASE Input[v] # Input[w]
      <4>1. closed[Input[v]]
        BY <1>4, <2>1, <3>1, <3>3
      <4> QED  BY <1>1, <4>1 DEF OwnerInv, Closers
    <3> QED  BY <3>2, <3>3
  <2> QED  BY <1>4, <2>1 DEF Closers
<1>8. QueueInv'
  BY <1>1, <1>4, OwnerLeavesQueues
<1> QED  BY <1>1, <1>4, <1>5, <1>6, <1>7, <1>8 DEF IInv, OwnerInv

LEMMA JoinStep ==
    ASSUME IInv, JoinReturns \/ JoinUndefined PROVE IInv'
<1>1. OwnerInv /\ QueueInv
  BY DEF IInv
<1>2. PICK w \in Workers : call.worker = w /\ call # NoCall
  <2>1. call # NoCall
    BY DEF JoinReturns, JoinUndefined, NoCall
  <2> QED  BY <1>1, <2>1 DEF OwnerInv, OwnerTypes
<1>3. /\ joins' = [joins EXCEPT ![w] = @ + 1]
      /\ call' = NoCall
      /\ UNCHANGED <<running, thread, died, items, closed, arrived, started, owner, told>>
  BY <1>2 DEF JoinReturns, JoinUndefined, queueVars
<1>4. call'.worker = "none" /\ call'.step = "none"
  BY <1>3 DEF NoCall
<1>5. ~running[w] /\ owner = "started"
  BY <1>1, <1>2 DEF OwnerInv, Calls, NothingStopped
<1>6. OwnerTypes'
  <2>1. joins' \in [Workers -> Nat]
    BY <1>1, <1>3 DEF OwnerInv, OwnerTypes
  <2> QED  BY <1>1, <1>3, <2>1 DEF OwnerInv, OwnerTypes
<1>7. NothingStopped' /\ Flags' /\ Closers' /\ EndsOnlyWhenTold'
  BY <1>1, <1>3, <1>5 DEF OwnerInv, NothingStopped, Flags, Closers, EndsOnlyWhenTold
<1>8. Calls'
  BY <1>3, <1>4 DEF Calls
<1>9. SenderThreads'
  <2> SUFFICES ASSUME NEW v \in Senders
               PROVE  /\ joins'[v] <= 1
                      /\ running[v] => thread[v] # "none" /\ joins'[v] = 0
    <3>1. "none" \notin Senders
      BY DEF Senders
    <3> QED  BY <1>3, <1>4, <3>1 DEF SenderThreads
  <2>1. v \in Workers
    BY DEF Senders, Workers
  <2>2. joins'[v] = IF v = w THEN joins[v] + 1 ELSE joins[v]
    BY <1>1, <1>3, <2>1 DEF OwnerInv, OwnerTypes
  <2>3. CASE v = w
    <3>1. joins[v] = 0
      BY <1>1, <1>2, <2>3 DEF OwnerInv, SenderThreads
    <3> QED  BY <1>5, <2>2, <2>3, <3>1
  <2>4. CASE v # w
    BY <1>1, <2>2, <2>4 DEF OwnerInv, SenderThreads
  <2> QED  BY <2>3, <2>4
<1>10. QueueInv'
  BY <1>1, <1>3, OwnerLeavesQueues
<1> QED  BY <1>1, <1>3, <1>6, <1>7, <1>8, <1>9, <1>10 DEF IInv, OwnerInv
-----------------------------------------------------------------------------
(***************************************************************************)
(* The threads' steps.                                                     *)
(***************************************************************************)

\* What they have in common for the owner's part: one thread moves on, and if it
\* ends, it was told to or has died.
LEMMA ThreadMoves ==
    ASSUME OwnerInv,
           NEW w \in Workers, NEW place \in Places \ {"none"},
           thread[w] # "none",
           GoTo(w, place),
           UNCHANGED <<running, closed, ownerVars>>,
           died \subseteq died', died' \subseteq Workers,
           place = "ended" => w \in told \cup died'
    PROVE  /\ OwnerInv'
           /\ \A v \in Workers : thread'[v] = IF v = w THEN place ELSE thread[v]
<1>1. UNCHANGED <<running, closed, started, owner, call, told, joins>>
  BY DEF ownerVars
<1>2. ASSUME NEW v \in Workers
      PROVE  thread'[v] = IF v = w THEN place ELSE thread[v]
  BY DEF OwnerInv, OwnerTypes, GoTo
<1>3. OwnerTypes'
  <2>1. thread' \in [Workers -> Places]
    BY DEF OwnerInv, OwnerTypes, GoTo
  <2> QED  BY <1>1, <2>1 DEF OwnerInv, OwnerTypes
<1>4. NothingStopped' /\ Closers' /\ Calls'
  BY <1>1 DEF OwnerInv, NothingStopped, Closers, Calls
<1>5. Flags'
  BY <1>1, <1>2 DEF OwnerInv, Flags
<1>6. SenderThreads'
  <2>1. Senders \subseteq Workers
    BY DEF Senders, Workers
  <2> QED  BY <1>1, <1>2, <2>1 DEF OwnerInv, SenderThreads
<1>7. EndsOnlyWhenTold'
  BY <1>1, <1>2 DEF OwnerInv, EndsOnlyWhenTold
<1> QED  BY <1>1, <1>2, <1>3, <1>4, <1>5, <1>6, <1>7 DEF OwnerInv

\* Steps that take nothing from a queue and put nothing into one.
LEMMA MovesWithoutItems ==
    ASSUME IInv,
           NEW w \in Workers, NEW place \in Places \ {"none", "working"},
           thread[w] # "none",
           GoTo(w, place),
           UNCHANGED <<running, queueVars, ownerVars>>,
           died \subseteq died', died' \subseteq Workers,
           place = "ended" => w \in told \cup died'
    PROVE  IInv'
<1>1. UNCHANGED <<running, closed, ownerVars>> /\ items' = items /\ arrived' = arrived
  BY DEF queueVars
<1>2. OwnerInv' /\ \A v \in Workers : thread'[v] = IF v = w THEN place ELSE thread[v]
  BY <1>1, ThreadMoves DEF IInv
<1>3. QueueInv'
  BY <1>1, <1>2, OwnerLeavesQueues DEF IInv
<1> QED  BY <1>2, <1>3 DEF IInv

LEMMA EnterRunStep ==
    ASSUME IInv, NEW w \in Workers, EnterRun(w) PROVE IInv'
<1>1. died \subseteq Workers
  BY DEF IInv, OwnerInv, OwnerTypes
<1>2. thread[w] # "none" /\ UNCHANGED <<running, queueVars, ownerVars>>
  BY DEF EnterRun
<1>3. CASE GoTo(w, "testing") /\ UNCHANGED died
  BY <1>1, <1>2, <1>3, MovesWithoutItems DEF Places
<1>4. CASE EndBy(w, {w})
  BY <1>1, <1>2, <1>4, MovesWithoutItems DEF EndBy, Places
<1> QED  BY <1>3, <1>4 DEF EnterRun

LEMMA TestRunningStep ==
    ASSUME IInv, NEW w \in Workers, TestRunning(w) PROVE IInv'
<1>1. died \subseteq Workers
  BY DEF IInv, OwnerInv, OwnerTypes
<1>2. thread[w] # "none" /\ UNCHANGED <<running, died, queueVars, ownerVars>>
  BY DEF TestRunning
<1>3. CASE running[w]
  <2>1. GoTo(w, "taking")
    BY <1>3 DEF TestRunning
  <2> QED  BY <1>1, <1>2, <2>1, MovesWithoutItems DEF Places
<1>4. CASE ~running[w]
  <2>1. GoTo(w, "ended")
    BY <1>4 DEF TestRunning
  <2>2. w \in told
    BY <1>2, <1>4 DEF IInv, OwnerInv, Flags
  <2> QED  BY <1>1, <1>2, <2>1, <2>2, MovesWithoutItems DEF Places
<1> QED  BY <1>3, <1>4

LEMMA PopThrowsStep ==
    ASSUME IInv, NEW w \in DOMAIN Input, PopThrows(w) PROVE IInv'
<1>1. died \subseteq Workers /\ w \in Workers
  BY Inputs DEF IInv, OwnerInv, OwnerTypes
<1>2. /\ thread[w] # "none"
      /\ GoTo(w, "ended")
      /\ UNCHANGED <<running, died, queueVars, ownerVars>>
      /\ closed[Input[w]]
  BY DEF PopThrows
<1>3. w \in told
  BY <1>2 DEF IInv, OwnerInv, Closers
<1> QED  BY <1>1, <1>2, <1>3, MovesWithoutItems DEF Places

LEMMA EndsByItselfStep ==
    ASSUME IInv, ReceiveTimeout \/ ReceiveFails \/ \E w \in Senders : SendFails(w)
    PROVE  IInv'
<1>1. died \subseteq Workers
  BY DEF IInv, OwnerInv, OwnerTypes
<1>2. CASE ReceiveTimeout
  <2>1. "receiver" \in Workers /\ "testing" \in Places \ {"none", "working"}
    BY DEF Workers, Places
  <2>2. /\ thread["receiver"] # "none"
        /\ GoTo("receiver", "testing")
        /\ UNCHANGED <<running, died, queueVars, ownerVars>>
    BY <1>2 DEF ReceiveTimeout
  <2> QED  BY <1>1, <2>1, <2>2, MovesWithoutItems
<1>3. CASE ReceiveFails \/ \E w \in Senders : SendFails(w)
  <2>1. PICK w \in Workers :
            /\ thread[w] # "none"
            /\ EndBy(w, {w})
            /\ UNCHANGED <<running, queueVars, ownerVars>>
    BY <1>3 DEF ReceiveFails, SendFails, Workers, Senders
  <2> QED  BY <1>1, <2>1, MovesWithoutItems DEF EndBy, Places
<1> QED  BY <1>2, <1>3

\* The counters as numbers.
LEMMA Counts ==
    ASSUME IInv
    PROVE  /\ \A q \in Queues : items[q] \in Nat
           /\ arrived \in 0 .. MaxDatagrams /\ MaxDatagrams \in Nat
           /\ \A w \in Workers : Busy[w] \in {0, 1}
           /\ {"packet_queue", "frame_queue", "target_queue", "power_map_queue"} = Queues
           /\ {"receiver", "reassembler", "processor"} \subseteq Workers
BY LifecycleAssumption DEF IInv, QueueInv, Busy, Queues, Workers

LEMMA ReceiveDatagramStep ==
    ASSUME IInv, ReceiveDatagram PROVE IInv'
<1>1. /\ thread["receiver"] = "taking"
      /\ arrived < MaxDatagrams
      /\ arrived' = arrived + 1
      /\ GoTo("receiver", "working")
      /\ items' = items
      /\ UNCHANGED <<running, died, closed, ownerVars>>
  BY DEF ReceiveDatagram
<1>2. "working" \in Places \ {"none"} /\ "receiver" \in Workers /\ died \subseteq Workers
  BY DEF IInv, OwnerInv, OwnerTypes, Places, Workers
<1>3. /\ OwnerInv'
      /\ \A v \in Workers :
            thread'[v] = IF v = "receiver" THEN "working" ELSE thread[v]
  BY <1>1, <1>2, ThreadMoves DEF IInv
<1>4. /\ Busy["receiver"] = 0 /\ Busy'["receiver"] = 1
      /\ Busy'["reassembler"] = Busy["reassembler"]
      /\ Busy'["processor"] = Busy["processor"]
  BY <1>1, <1>3 DEF Busy, Workers
<1>5. QueueInv'
  BY <1>1, <1>4, Counts DEF IInv, QueueInv
<1> QED  BY <1>3, <1>5 DEF IInv

LEMMA PopStep ==
    ASSUME IInv, NEW w \in DOMAIN Input, Pop(w) PROVE IInv'
<1>1. /\ thread[w] = "taking"
      /\ items[Input[w]] > 0
      /\ items' = [items EXCEPT ![Input[w]] = @ - 1]
      /\ GoTo(w, "working")
      /\ arrived' = arrived
      /\ UNCHANGED <<running, died, closed, ownerVars>>
  BY DEF Pop
<1>2. "working" \in Places \ {"none"} /\ w \in Workers /\ died \subseteq Workers
  BY Inputs DEF IInv, OwnerInv, OwnerTypes, Places
<1>3. /\ OwnerInv'
      /\ \A v \in Workers : thread'[v] = IF v = w THEN "working" ELSE thread[v]
  BY <1>1, <1>2, ThreadMoves DEF IInv
<1>4. ASSUME NEW v \in Workers
      PROVE  Busy'[v] = IF v = w THEN Busy[v] + 1 ELSE Busy[v]
  BY <1>1, <1>2, <1>3 DEF Busy
<1>5. ASSUME NEW q \in Queues
      PROVE  items'[q] = IF q = Input[w] THEN items[q] - 1 ELSE items[q]
  BY <1>1 DEF IInv, QueueInv
<1>6. items' \in [Queues -> Nat]
  BY <1>1, Counts, Inputs DEF IInv, QueueInv
<1>7. w \in {"reassembler", "processor", "target_sender", "power_map_sender"}
  BY <1>2, Inputs DEF Workers
<1>8. ASSUME NEW q \in {"target_queue", "power_map_queue"}
      PROVE  items'["packet_queue"] + Busy'["receiver"] + Busy'["reassembler"]
                 + items'["frame_queue"] + Busy'["processor"] + items'[q] <= arrived
  <2>1. items["packet_queue"] + Busy["receiver"] + Busy["reassembler"]
            + items["frame_queue"] + Busy["processor"] + items[q] <= arrived
    BY DEF IInv, QueueInv
  <2>2. /\ items["packet_queue"] \in Nat /\ items["frame_queue"] \in Nat /\ items[q] \in Nat
        /\ Busy["receiver"] \in {0, 1} /\ Busy["reassembler"] \in {0, 1}
        /\ Busy["processor"] \in {0, 1} /\ arrived \in Nat
    BY Counts
  <2>3. q # "packet_queue" /\ q # "frame_queue" /\ q \in Queues
    BY DEF Queues
  <2>4. CASE w = "reassembler"
    <3>1. /\ items'["packet_queue"] = items["packet_queue"] - 1
          /\ items'["frame_queue"] = items["frame_queue"] /\ items'[q] = items[q]
          /\ Busy'["receiver"] = Busy["receiver"]
          /\ Busy'["reassembler"] = Busy["reassembler"] + 1
          /\ Busy'["processor"] = Busy["processor"]
      BY <1>4, <1>5, <2>3, <2>4, Inputs, Counts
    <3> QED  BY <2>1, <2>2, <3>1
  <2>5. CASE w = "processor"
    <3>1. /\ items'["packet_queue"] = items["packet_queue"]
          /\ items'["frame_queue"] = items["frame_queue"] - 1 /\ items'[q] = items[q]
          /\ Busy'["receiver"] = Busy["receiver"]
          /\ Busy'["reassembler"] = Busy["reassembler"]
          /\ Busy'["processor"] = Busy["processor"] + 1
      BY <1>4, <1>5, <2>3, <2>5, Inputs, Counts
    <3> QED  BY <2>1, <2>2, <3>1
  <2>6. CASE w \in {"target_sender", "power_map_sender"}
    <3>1. /\ items'["packet_queue"] = items["packet_queue"]
          /\ items'["frame_queue"] = items["frame_queue"]
          /\ items'[q] = items[q] \/ items'[q] = items[q] - 1
          /\ Busy'["receiver"] = Busy["receiver"]
          /\ Busy'["reassembler"] = Busy["reassembler"]
          /\ Busy'["processor"] = Busy["processor"]
      BY <1>4, <1>5, <2>3, <2>6, Inputs, Counts
    <3> QED  BY <2>1, <2>2, <3>1
  <2> QED  BY <1>7, <2>4, <2>5, <2>6
<1>9. QueueInv'
  BY <1>1, <1>6, <1>8 DEF IInv, QueueInv
<1> QED  BY <1>3, <1>9 DEF IInv

\* The end of a round; each worker's outputs come after it on the way.
LEMMA FinishRoundStep ==
    ASSUME IInv, NEW w \in Workers, NEW outputs \in SUBSET Queues, FinishRound(w, outputs),
           \/ outputs = {}
           \/ w = "receiver" /\ outputs = {"packet_queue"}
           \/ w = "reassembler" /\ outputs = {"frame_queue"}
           \/ w = "processor" /\ outputs = {"power_map_queue", "target_queue"}
    PROVE  IInv'
<1>1. /\ thread[w] = "working"
      /\ items' = [q \in Queues |-> IF q \in outputs THEN items[q] + 1 ELSE items[q]]
      /\ GoTo(w, "testing")
      /\ arrived' = arrived
      /\ UNCHANGED <<running, died, closed, ownerVars>>
  BY DEF FinishRound
<1>2. "testing" \in Places \ {"none"} /\ died \subseteq Workers
  BY DEF IInv, OwnerInv, OwnerTypes, Places
<1>3. /\ OwnerInv'
      /\ \A v \in Workers : thread'[v] = IF v = w THEN "testing" ELSE thread[v]
  BY <1>1, <1>2, ThreadMoves DEF IInv
<1>4. /\ Busy[w] = 1
      /\ \A v \in Workers : Busy'[v] = IF v = w THEN 0 ELSE Busy[v]
  BY <1>1, <1>3 DEF Busy
<1>5. ASSUME NEW q \in Queues
      PROVE  items'[q] = IF q \in outputs THEN items[q] + 1 ELSE items[q]
  BY <1>1
<1>6. items' \in [Queues -> Nat]
  BY <1>1, Counts
<1>7. ASSUME NEW q \in {"target_queue", "power_map_queue"}
      PROVE  items'["packet_queue"] + Busy'["receiver"] + Busy'["reassembler"]
                 + items'["frame_queue"] + Busy'["processor"] + items'[q] <= arrived
  <2>1. items["packet_queue"] + Busy["receiver"] + Busy["reassembler"]
            + items["frame_queue"] + Busy["processor"] + items[q] <= arrived
    BY DEF IInv, QueueInv
  <2>2. /\ items["packet_queue"] \in Nat /\ items["frame_queue"] \in Nat /\ items[q] \in Nat
        /\ Busy["receiver"] \in {0, 1} /\ Busy["reassembler"] \in {0, 1}
        /\ Busy["processor"] \in {0, 1} /\ arrived \in Nat
    BY Counts
  <2>3. q # "packet_queue" /\ q # "frame_queue" /\ q \in Queues
    BY DEF Queues
  <2>4. CASE outputs = {}
    <3>1. /\ items'["packet_queue"] = items["packet_queue"]
          /\ items'["frame_queue"] = items["frame_queue"] /\ items'[q] = items[q]
      BY <1>5, <2>3, <2>4, Counts
    <3>2. /\ Busy'["receiver"] \in {0, Busy["receiver"]}
          /\ Busy'["reassembler"] \in {0, Busy["reassembler"]}
          /\ Busy'["processor"] \in {0, Busy["processor"]}
      BY <1>4, Counts
    <3> QED  BY <2>1, <2>2, <3>1, <3>2
  <2>5. CASE w = "receiver" /\ outputs = {"packet_queue"}
    <3>1. /\ items'["packet_queue"] = items["packet_queue"] + 1
          /\ items'["frame_queue"] = items["frame_queue"] /\ items'[q] = items[q]
      BY <1>5, <2>3, <2>5, Counts
    <3>2. /\ Busy["receiver"] = 1 /\ Busy'["receiver"] = 0
          /\ Busy'["reassembler"] = Busy["reassembler"]
          /\ Busy'["processor"] = Busy["processor"]
      BY <1>4, <2>5, Counts
    <3> QED  BY <2>1, <2>2, <3>1, <3>2
  <2>6. CASE w = "reassembler" /\ outputs = {"frame_queue"}
    <3>1. /\ items'["packet_queue"] = items["packet_queue"]
          /\ items'["frame_queue"] = items["frame_queue"] + 1 /\ items'[q] = items[q]
      BY <1>5, <2>3, <2>6, Counts
    <3>2. /\ Busy["reassembler"] = 1 /\ Busy'["reassembler"] = 0
          /\ Busy'["receiver"] = Busy["receiver"]
          /\ Busy'["processor"] = Busy["processor"]
      BY <1>4, <2>6, Counts
    <3> QED  BY <2>1, <2>2, <3>1, <3>2
  <2>7. CASE w = "processor" /\ outputs = {"power_map_queue", "target_queue"}
    <3>1. /\ items'["packet_queue"] = items["packet_queue"]
          /\ items'["frame_queue"] = items["frame_queue"] /\ items'[q] = items[q] + 1
      BY <1>5, <2>3, <2>7, Counts
    <3>2. /\ Busy["processor"] = 1 /\ Busy'["processor"] = 0
          /\ Busy'["receiver"] = Busy["receiver"]
          /\ Busy'["reassembler"] = Busy["reassembler"]
      BY <1>4, <2>7, Counts
    <3> QED  BY <2>1, <2>2, <3>1, <3>2
  <2> QED  BY <2>4, <2>5, <2>6, <2>7
<1>8. QueueInv'
  BY <1>1, <1>6, <1>7 DEF IInv, QueueInv
<1> QED  BY <1>3, <1>8 DEF IInv

LEMMA ThreadStep ==
    ASSUME IInv, Receiver \/ Reassembler \/ Processor \/ \E w \in Senders : Sender(w)
    PROVE  IInv'
<1>1. CASE \E w \in Workers : EnterRun(w) \/ TestRunning(w)
  BY <1>1, EnterRunStep, TestRunningStep
<1>2. CASE ReceiveDatagram
  BY <1>2, ReceiveDatagramStep
<1>3. CASE ReceiveTimeout \/ ReceiveFails \/ \E w \in Senders : SendFails(w)
  BY <1>3, EndsByItselfStep
<1>4. CASE \E w \in DOMAIN Input : PopOrThrow(w)
  BY <1>4, PopStep, PopThrowsStep DEF PopOrThrow
<1>5. CASE PushPacket
  <2>1. {"packet_queue"} \in SUBSET Queues /\ "receiver" \in Workers
    BY DEF Queues, Workers
  <2> QED  BY <1>5, <2>1, FinishRoundStep DEF PushPacket
<1>6. CASE ReassemblePacket
  <2>1. {"frame_queue"} \in SUBSET Queues /\ {} \in SUBSET Queues /\ "reassembler" \in Workers
    BY DEF Queues, Workers
  <2> QED  BY <1>6, <2>1, FinishRoundStep DEF ReassemblePacket
<1>7. CASE ProcessFrame
  <2>1. /\ {"power_map_queue", "target_queue"} \in SUBSET Queues /\ {} \in SUBSET Queues
        /\ "processor" \in Workers
    BY DEF Queues, Workers
  <2> QED  BY <1>7, <2>1, FinishRoundStep DEF ProcessFrame
<1>8. CASE \E w \in Senders : Send(w)
  <2>1. {} \in SUBSET Queues /\ Senders \subseteq Workers
    BY DEF Senders, Workers
  <2> QED  BY <1>8, <2>1, FinishRoundStep DEF Send
<1>9. /\ {"receiver", "reassembler", "processor"} \cup Senders \subseteq Workers
      /\ {"reassembler", "processor"} \cup Senders \subseteq DOMAIN Input
  BY Inputs DEF Workers, Senders
<1>10. CASE Receiver
  BY <1>1, <1>2, <1>3, <1>5, <1>9, <1>10 DEF Receiver
<1>11. CASE Reassembler
  BY <1>1, <1>4, <1>6, <1>9, <1>11 DEF Reassembler, PopOrThrow
<1>12. CASE Processor
  BY <1>1, <1>4, <1>7, <1>9, <1>12 DEF Processor
<1>13. CASE \E w \in Senders : Sender(w)
  BY <1>1, <1>3, <1>4, <1>8, <1>9, <1>13 DEF Sender
<1> QED  BY <1>10, <1>11, <1>12, <1>13

LEMMA StutterStep ==
    ASSUME IInv, UNCHANGED vars PROVE IInv'
BY DEF vars, IInv, OwnerInv, OwnerTypes, NothingStopped, Flags, Closers, Calls,
       SenderThreads, EndsOnlyWhenTold, QueueInv, Busy

LEMMA Invariant == Spec => []IInv
<1>1. Init => IInv
  BY InitIInv
<1>2. IInv /\ [Next]_vars => IInv'
  BY StartStep, StopStep, CloseInputStep, JoinStep, ThreadStep, StutterStep DEF Next
<1> QED  BY <1>1, <1>2, PTL DEF Spec
-----------------------------------------------------------------------------
(***************************************************************************)
(* What the invariant means.                                               *)
(***************************************************************************)

\* The workers keep their types, and no queue ever holds more than has arrived:
\* a datagram yields at most one packet, one frame and one of each product.
THEOREM TypeCorrect == Spec => []TypeOK
<1>1. ASSUME IInv PROVE TypeOK
  <2>1. ASSUME NEW q \in Queues
        PROVE  items[q] \in 0 .. MaxDatagrams
    <3>1. /\ \A r \in Queues : items[r] \in Nat
          /\ Busy["receiver"] \in {0, 1} /\ Busy["reassembler"] \in {0, 1}
          /\ Busy["processor"] \in {0, 1}
          /\ arrived \in 0 .. MaxDatagrams /\ MaxDatagrams \in Nat
          /\ items["packet_queue"] \in Nat /\ items["frame_queue"] \in Nat
          /\ items["target_queue"] \in Nat /\ items["power_map_queue"] \in Nat
      BY <1>1, Counts
    <3>2. /\ items["packet_queue"] + Busy["receiver"] + Busy["reassembler"]
                 + items["frame_queue"] + Busy["processor"] + items["target_queue"]
                     <= arrived
          /\ items["packet_queue"] + Busy["receiver"] + Busy["reassembler"]
                 + items["frame_queue"] + Busy["processor"] + items["power_map_queue"]
                     <= arrived
      BY <1>1 DEF IInv, QueueInv
    <3>3. /\ items["packet_queue"] <= MaxDatagrams
          /\ items["frame_queue"] <= MaxDatagrams
          /\ items["target_queue"] <= MaxDatagrams
          /\ items["power_map_queue"] <= MaxDatagrams
      BY <3>1, <3>2
    <3> QED  BY <3>1, <3>3 DEF Queues
  <2>2. items \in [Queues -> 0 .. MaxDatagrams]
    BY <1>1, <2>1 DEF IInv, QueueInv
  <2>3. Len(StartOrder) = 5
    BY DEF StartOrder
  <2> QED  BY <1>1, <2>2, <2>3 DEF IInv, OwnerInv, OwnerTypes, QueueInv, TypeOK
<1> QED  BY <1>1, Invariant, PTL

\* Starting and stopping others never ends a worker's thread: it is over only if
\* its own stop was called or its own work failed.
THEOREM NoneEndsUntold == Spec => []EndsOnlyWhenTold
<1>1. IInv => EndsOnlyWhenTold
  BY DEF IInv, OwnerInv
<1> QED  BY <1>1, Invariant, PTL

\* The senders' stop joins a thread that exists, and joins it once, however often
\* and in whatever state of the thread it is called.
THEOREM SendersJoinOnce == Spec => []SenderJoins
<1>1. ASSUME IInv PROVE SenderJoins
  <2>1. ASSUME NEW w \in Senders
        PROVE  /\ joins[w] <= 1
               /\ call.worker = w => thread[w] # "none" /\ joins[w] = 0
    BY <1>1 DEF IInv, OwnerInv, SenderThreads
  <2> QED  BY <2>1 DEF SenderJoins
<1> QED  BY <1>1, Invariant, PTL
-----------------------------------------------------------------------------
(***************************************************************************)
(* What is safe of StopReturns.                                            *)
(***************************************************************************)

\* The owner has got to the join only after closing the queue that the worker
\* pops from; the receiver has none, and the reassembler's stop closes nothing.
JoinsAfterClosing ==
    \A w \in DOMAIN Input \ {"reassembler"} :
        call = [worker |-> w, step |-> "join"] => closed[Input[w]]

LEMMA JoinsAfterClosingStep ==
    ASSUME IInv, JoinsAfterClosing, [Next]_vars PROVE JoinsAfterClosing'
<1>1. ASSUME NEW w \in DOMAIN Input \ {"reassembler"},
             call' = [worker |-> w, step |-> "join"]
      PROVE  closed'[Input[w]]
  <2>1. Input[w] \in Queues /\ w # "receiver" /\ closed \in [Queues -> BOOLEAN]
    BY Inputs DEF IInv, OwnerInv, OwnerTypes
  <2>2. CASE Stop
    <3>1. PICK v, step : StopCalled(v, step) /\ (v \in Senders \cup {"processor"} => step = "close")
                         /\ v \in Senders \cup {"processor", "receiver", "reassembler"}
      BY <2>2 DEF Stop, StopSender, StopProcessor, StopWithoutClose, Senders
    <3>2. call' = [worker |-> v, step |-> step]
      BY <3>1 DEF StopCalled
    <3>3. v = w /\ step = "join"
      BY <1>1, <3>2
    <3>. QED  BY <2>1, <3>1, <3>3
  <2>3. CASE CloseInput
    <3>1. call.step = "close" /\ call' = [call EXCEPT !.step = "join"]
          /\ closed' = [closed EXCEPT ![Input[call.worker]] = TRUE]
      BY <2>3 DEF CloseInput
    <3>2. call # NoCall
      BY <3>1 DEF NoCall
    <3>3. call \in [worker : Workers, step : {"close", "join"}]
      BY <3>2 DEF IInv, OwnerInv, OwnerTypes
    <3>4. call.worker = w
      BY <1>1, <3>1, <3>3
    <3>. QED  BY <2>1, <3>1, <3>4
  <2>4. CASE JoinReturns \/ JoinUndefined
    BY <1>1, <2>4 DEF JoinReturns, JoinUndefined, NoCall
  <2>5. ASSUME call' = call, closed' = closed PROVE closed'[Input[w]]
    BY <1>1, <2>5 DEF JoinsAfterClosing
  <2>6. CASE Start \/ UNCHANGED vars
    BY <2>5, <2>6
    DEF Start, StartWorker, StartIgnoresFailure, StartThrows, StartReturns, queueVars, vars
  <2>7. CASE Receiver \/ Reassembler \/ Processor \/ \E v \in Senders : Sender(v)
    BY <2>5, <2>7
    DEF Receiver, Reassembler, Processor, Sender, EnterRun, TestRunning, ReceiveDatagram,
        ReceiveTimeout, ReceiveFails, PushPacket, ReassemblePacket, ProcessFrame, Send,
        SendFails, PopOrThrow, Pop, PopThrows, FinishRound, queueVars, ownerVars
  <2>. QED  BY <2>2, <2>3, <2>4, <2>6, <2>7 DEF Next
<1>. QED  BY <1>1 DEF JoinsAfterClosing

\* The worker's thread can do its next step: it is not asleep in pop.
CanStep(w) ==
    \/ thread[w] \in {"created", "testing", "working"}
    \/ thread[w] = "taking" /\ w = "receiver"
    \/ thread[w] = "taking" /\ w # "receiver" /\ (items[Input[w]] > 0 \/ closed[Input[w]])

JoinedThreadsRun ==
    \A w \in Workers \ {"reassembler"} :
        call = [worker |-> w, step |-> "join"] /\ thread[w] \notin {"none", "ended"}
            => CanStep(w)

\* A stop that waits in pthread_join waits for a thread that can run, whatever
\* the thread was doing when it was told: except in RadarReassembler::stop,
\* which does not close the queue that its thread may be asleep in.
THEOREM JoinWaitsForARunningThread == Spec => []JoinedThreadsRun
<1>1. Init => JoinsAfterClosing
  BY DEF Init, NoCall, JoinsAfterClosing
<1>2. IInv /\ JoinsAfterClosing /\ [Next]_vars => JoinsAfterClosing'
  BY JoinsAfterClosingStep
<1>3. IInv /\ JoinsAfterClosing => JoinedThreadsRun
  BY Inputs
  DEF IInv, OwnerInv, OwnerTypes, Places, JoinsAfterClosing, JoinedThreadsRun, CanStep
<1> QED  BY <1>1, <1>2, <1>3, Invariant, PTL DEF Spec

\* How many steps a thread whose running_ is false has before it at most.
StepsLeft(place) ==
    CASE place = "taking" -> 3
      [] place \in {"created", "working"} -> 2
      [] place = "testing" -> 1
      [] place \in {"none", "ended"} -> 0

\* What a step does to a thread whose stop has been called.
JoinComesNearer ==
    \A w \in Workers :
        call.worker = w /\ thread'[w] # thread[w] =>
            StepsLeft(thread'[w]) < StepsLeft(thread[w])

\* While the owner is in a stop of a worker, each step of the worker's thread
\* brings it nearer to its end, and nobody sets it back: it finishes the round
\* it is in, at most one more item, and leaves the loop.
THEOREM StoppedThreadsEnd == Spec => [][JoinComesNearer]_vars
<1>1. IInv /\ [Next]_vars => [JoinComesNearer]_vars
  <2> SUFFICES ASSUME IInv, Next, NEW w \in Workers, call.worker = w, thread'[w] # thread[w]
               PROVE  StepsLeft(thread'[w]) < StepsLeft(thread[w])
    BY DEF JoinComesNearer
  <2>1. call # NoCall
    BY DEF NoCall, Workers
  <2>2. ~running[w] /\ owner = "started" /\ thread \in [Workers -> Places]
    BY <2>1 DEF IInv, OwnerInv, OwnerTypes, Calls, NothingStopped
  <2>3. thread' # thread
    OBVIOUS
  <2>4. PICK v \in Workers :
            \/ EnterRun(v) \/ TestRunning(v) \/ SendFails(v) \/ \E outputs : FinishRound(v, outputs)
            \/ v = "receiver" /\ (ReceiveDatagram \/ ReceiveTimeout \/ ReceiveFails)
            \/ Pop(v) \/ PopThrows(v)
    <3>1. ~Start /\ ~Stop /\ ~CloseInput /\ ~JoinReturns /\ ~JoinUndefined
      BY <2>2, <2>3
      DEF Start, StartWorker, StartIgnoresFailure, StartThrows, Stop, StopSender, StopProcessor,
          StopWithoutClose, StopCalled, CloseInput, JoinReturns, JoinUndefined
    <3>. QED
      BY <3>1
      DEF Next, Receiver, Reassembler, Processor, Sender, PushPacket, ReassemblePacket,
          ProcessFrame, Send, PopOrThrow, Senders, Workers
  <2>5. v = w
    BY <2>2, <2>4
    DEF EnterRun, TestRunning, SendFails, FinishRound, ReceiveDatagram, ReceiveTimeout,
        ReceiveFails, Pop, PopThrows, EndBy, GoTo
  <2>6. \/ thread[w] = "created" /\ thread'[w] \in {"testing", "ended"}
        \/ thread[w] = "testing" /\ thread'[w] = "ended"
        \/ thread[w] = "taking" /\ thread'[w] \in {"working", "testing", "ended"}
        \/ thread[w] = "working" /\ thread'[w] \in {"testing", "ended"}
    BY <2>2, <2>4, <2>5
    DEF EnterRun, TestRunning, SendFails, FinishRound, ReceiveDatagram, ReceiveTimeout,
        ReceiveFails, Pop, PopThrows, EndBy, GoTo
  <2>. QED  BY <2>6 DEF StepsLeft
<1> QED  BY <1>1, Invariant, PTL DEF Spec
=============================================================================
