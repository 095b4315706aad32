------------------------ MODULE ActorLifecycleProofs ------------------------
(***************************************************************************)
(* Proofs about ActorLifecycle, for any number of callers and closers, any *)
(* capacity of the channel and any set of faults.                          *)
(***************************************************************************)
EXTENDS ActorLifecycle, TLAPS

USE DEF channel, tasks

-----------------------------------------------------------------------------
(* The inductive invariant. *)

\* A result is there only once the task has ended, and only a clean close is
\* reported as one.
Result ==
  /\ teardown # "pending" => actor = "ended"
  /\ teardown = "ok" => device = "closed"
  /\ \A k \in Closers : closer[k] = "ok" => teardown = "ok"

\* A close() that queues for room in the channel has taken the receiver, and
\* as long as nobody has taken it no close() has got anywhere.
Taken ==
  /\ \A i \in 1..Len(waiters) : waiters[i] \in Closers => closer[waiters[i]] \notin {"idle", "noop"}
  /\ finished => \A k \in Closers : closer[k] = "idle"

LifecycleInv == TypeOK /\ Result /\ Taken /\ OneShutdown

-----------------------------------------------------------------------------
(* Sequences. *)

\* A sequence with one element left out is a sequence over the same set.
LEMMA WithoutAtSeq ==
  ASSUME NEW S, NEW s \in Seq(S), NEW i \in 1..Len(s)
  PROVE  /\ WithoutAt(s, i) \in Seq(S)
         /\ Len(WithoutAt(s, i)) = Len(s) - 1
         /\ \A j \in 1..(Len(s) - 1) : WithoutAt(s, i)[j] \in {s[j], s[j + 1]}
<1>1. Len(s) - 1 \in Nat
  OBVIOUS
<1>2. \A j \in 1..(Len(s) - 1) : s[j] \in S /\ s[j + 1] \in S
  OBVIOUS
<1>3. WithoutAt(s, i) \in [1..(Len(s) - 1) -> S]
  BY <1>2 DEF WithoutAt
<1>4. WithoutAt(s, i) \in Seq(S)
  BY <1>1, <1>3
<1>5. Len(WithoutAt(s, i)) = Len(s) - 1
  BY <1>1, <1>3, <1>4
<1>6. \A j \in 1..(Len(s) - 1) : WithoutAt(s, i)[j] \in {s[j], s[j + 1]}
  BY DEF WithoutAt
<1> QED BY <1>4, <1>5, <1>6

\* Elements of a sequence may be replaced one by one.
LEMMA ReplacedSeq ==
  ASSUME NEW S, NEW s \in Seq(S), NEW t, NEW x \in S,
         t = [i \in 1..Len(s) |-> IF s[i] = x THEN Stale ELSE s[i]], Stale \in S
  PROVE  t \in Seq(S) /\ Len(t) = Len(s)
<1>1. Len(s) \in Nat
  OBVIOUS
<1>2. t \in [1..Len(s) -> S]
  OBVIOUS
<1>3. t \in Seq(S)
  BY <1>1, <1>2
<1> QED BY <1>1, <1>2, <1>3

-----------------------------------------------------------------------------
\* The first state satisfies the invariant.
LEMMA LifecycleInit == Init => LifecycleInv
<1> SUFFICES ASSUME Init PROVE LifecycleInv
  OBVIOUS
<1>1. Len(queue) = 0 /\ Len(waiters) = 0 /\ queue \in Seq(Request) /\ waiters \in Seq(Client)
  BY DEF Init
<1>2. TypeOK
  <2>1. Len(queue) <= Capacity
    BY <1>1, LifecycleConstants
  <2>2. /\ caller \in [Callers -> {"idle", "sending", "waiting"}]
        /\ closer \in [Closers -> {"idle", "sending", "waiting", "ok", "noop", "error", "timeout"}]
    BY DEF Init
  <2> QED BY <1>1, <2>1, <2>2 DEF Init, TypeOK
<1>3. Result
  BY DEF Init, Result
<1>4. Taken
  BY <1>1 DEF Init, Taken
<1>5. OneShutdown
  BY DEF Init, OneShutdown
<1> QED BY <1>2, <1>3, <1>4, <1>5 DEF LifecycleInv

\* The end of the task, whatever its reason, reports a clean close only as one.
LEMMA EndKeeps ==
  ASSUME LifecycleInv, actor # "ended", NEW r \in {"ok", "error", "dropped"}, End(r)
  PROVE  LifecycleInv'
<1> USE DEF LifecycleInv
<1>1. TypeOK'
  <2>1. caller' \in [Callers -> {"idle", "sending", "waiting"}]
    BY DEF End
  <2>2. closer' \in [Closers -> {"idle", "sending", "waiting", "ok", "noop", "error", "timeout"}]
    BY DEF End, TypeOK
  <2>3. aborting' \in BOOLEAN
    BY DEF End, TypeOK
  <2>4. queue' \in Seq(Request) /\ Len(queue') <= Capacity /\ waiters' \in Seq(Client)
    BY LifecycleConstants DEF End
  <2> QED BY <2>1, <2>2, <2>3, <2>4 DEF End, TypeOK
<1>2. \A k \in Closers :
        /\ closer'[k] = "ok" => closer[k] = "ok"
        /\ closer'[k] \in {"idle", "noop"} <=> closer[k] \in {"idle", "noop"}
        /\ closer[k] = "idle" => closer'[k] = "idle"
  BY DEF End, TypeOK
<1>3. Result'
  BY <1>2 DEF End, Result
<1>4. Taken'
  BY <1>2 DEF End, Taken
<1>5. OneShutdown'
  BY <1>2 DEF OneShutdown
<1> QED BY <1>1, <1>3, <1>4, <1>5

\* The channel and the calls.
LEMMA CallsKeep ==
  ASSUME LifecycleInv, Grant \/ \E c \in Callers : Call(c) \/ Cancel(c)
  PROVE  LifecycleInv'
<1> USE DEF LifecycleInv
<1>1. CASE Grant
  <2>1. /\ Head(waiters) \in Client /\ Tail(waiters) \in Seq(Client)
        /\ Head(waiters) = waiters[1] /\ 1 \in 1..Len(waiters)
        /\ Len(Tail(waiters)) = Len(waiters) - 1
        /\ \A i \in 1..(Len(waiters) - 1) : Tail(waiters)[i] = waiters[i + 1]
    BY <1>1 DEF Grant, TypeOK
  <2>2. CASE Head(waiters) \in Callers
    <3>1. /\ queue' = Append(queue, Head(waiters)) /\ waiters' = Tail(waiters)
          /\ caller' = [caller EXCEPT ![Head(waiters)] = "waiting"]
          /\ UNCHANGED <<actor, serving, closer, finished, teardown, aborting, device, wedged, handles>>
      BY <1>1, <2>2 DEF Grant
    <3>2. queue' \in Seq(Request) /\ Len(queue') <= Capacity
      BY <1>1, <2>2, <3>1, LifecycleConstants DEF Grant, TypeOK, Request
    <3>3. TypeOK'
      BY <2>1, <2>2, <3>1, <3>2 DEF TypeOK
    <3>4. Taken'
      BY <2>1, <3>1 DEF Taken
    <3> QED BY <3>1, <3>3, <3>4 DEF Result, OneShutdown
  <2>3. CASE Head(waiters) \notin Callers
    <3>1. /\ queue' = Append(queue, Shutdown) /\ waiters' = Tail(waiters)
          /\ closer' = [closer EXCEPT ![Head(waiters)] = "waiting"]
          /\ UNCHANGED <<actor, serving, caller, finished, teardown, aborting, device, wedged, handles>>
      BY <1>1, <2>3 DEF Grant
    <3>2. Head(waiters) \in Closers
      BY <2>1, <2>3 DEF Client
    <3>3. queue' \in Seq(Request) /\ Len(queue') <= Capacity
      BY <1>1, <3>1, LifecycleConstants DEF Grant, TypeOK, Request
    <3>4. TypeOK'
      BY <2>1, <3>1, <3>2, <3>3 DEF TypeOK
    <3>5. closer[Head(waiters)] \notin {"idle", "noop"}
      BY <2>1, <3>2 DEF Taken
    <3>6. \A k \in Closers : /\ closer'[k] = "ok" => closer[k] = "ok"
                             /\ closer'[k] \in {"idle", "noop"} <=> closer[k] \in {"idle", "noop"}
      BY <3>1, <3>5 DEF TypeOK
    <3>7. ~finished
      BY <3>2, <3>5 DEF Taken
    <3>8. Taken'
      BY <2>1, <3>1, <3>6, <3>7 DEF Taken
    <3>9. Result'
      BY <3>1, <3>6 DEF Result
    <3>10. OneShutdown'
      BY <3>6 DEF OneShutdown
    <3> QED BY <3>4, <3>8, <3>9, <3>10
  <2> QED BY <2>2, <2>3
<1>2. CASE \E c \in Callers : Call(c)
  <2>1. PICK c \in Callers : Call(c)
    BY <1>2
  <2>2. /\ waiters' \in Seq(Client) /\ Len(waiters') = Len(waiters) + 1
        /\ \A i \in 1..Len(waiters) : waiters'[i] = waiters[i]
        /\ waiters'[Len(waiters) + 1] = c
    BY <2>1 DEF Call, TypeOK, Client
  <2>3. TypeOK'
    BY <2>1, <2>2 DEF Call, TypeOK
  <2>4. c \notin Closers
    BY LifecycleConstants
  <2>5. \A i \in 1..Len(waiters') : i \in 1..Len(waiters) \/ waiters'[i] = c
    BY <2>2 DEF TypeOK
  <2>6. closer' = closer /\ finished' = finished
    BY <2>1 DEF Call
  <2>7. Taken'
    BY <2>2, <2>4, <2>5, <2>6 DEF Taken
  <2> QED BY <2>1, <2>3, <2>7 DEF Call, Result, OneShutdown
<1>3. CASE \E c \in Callers : Cancel(c)
  <2>1. PICK c \in Callers : Cancel(c)
    BY <1>3
  <2>2. /\ waiters' \in Seq(Client)
        /\ \A i \in 1..Len(waiters') : \E j \in 1..Len(waiters) : waiters'[i] = waiters[j]
    <3>1. CASE waiters' = waiters
      BY <3>1 DEF TypeOK
    <3>2. CASE \E i \in 1..Len(waiters) : waiters' = WithoutAt(waiters, i)
      <4>1. PICK i \in 1..Len(waiters) : waiters' = WithoutAt(waiters, i)
        BY <3>2
      <4>2. /\ waiters' \in Seq(Client) /\ Len(waiters') = Len(waiters) - 1
            /\ \A j \in 1..(Len(waiters) - 1) : waiters'[j] \in {waiters[j], waiters[j + 1]}
        BY <4>1, WithoutAtSeq DEF TypeOK
      <4>3. Len(waiters) \in Nat
        BY DEF TypeOK
      <4> QED BY <4>2, <4>3
    <3> QED BY <2>1, <3>1, <3>2 DEF Cancel
  <2>3. queue' \in Seq(Request) /\ Len(queue') <= Capacity
    <3>1. CASE queue' = queue
      BY <3>1 DEF TypeOK
    <3>2. CASE queue' = [i \in 1..Len(queue) |-> IF queue[i] = c THEN Stale ELSE queue[i]]
      BY <3>2, ReplacedSeq DEF TypeOK, Request
    <3> QED BY <2>1, <3>1, <3>2 DEF Cancel
  <2>4. serving' \in Request \cup {None}
    BY <2>1 DEF Cancel, TypeOK, Request
  <2>5. TypeOK'
    BY <2>1, <2>2, <2>3, <2>4 DEF Cancel, TypeOK
  <2>6. Taken'
    BY <2>1, <2>2 DEF Cancel, Taken
  <2> QED BY <2>1, <2>5, <2>6 DEF Cancel, Result, OneShutdown
<1> QED BY <1>1, <1>2, <1>3

\* The task.
LEMMA TaskKeeps ==
  ASSUME LifecycleInv, Recv \/ RecvNone \/ Finish \/ DeviceClose \/ Abort \/ Panic
  PROVE  LifecycleInv'
<1>1. CASE Recv
  <2>1. /\ Head(queue) \in Request /\ Tail(queue) \in Seq(Request)
        /\ Len(Tail(queue)) <= Len(queue) /\ Len(queue) \in Nat
    BY <1>1 DEF Recv, LifecycleInv, TypeOK
  <2>2. Len(Tail(queue)) <= Capacity
    BY <2>1, LifecycleConstants DEF LifecycleInv, TypeOK
  <2>3. TypeOK'
    BY <1>1, <2>1, <2>2 DEF Recv, LifecycleInv, TypeOK
  <2>4. teardown = "pending"
    BY <1>1 DEF Recv, LifecycleInv, Result
  <2> QED BY <1>1, <2>3, <2>4 DEF Recv, LifecycleInv, Result, Taken, OneShutdown
<1>2. CASE RecvNone
  BY <1>2 DEF RecvNone, LifecycleInv, TypeOK, Result, Taken, OneShutdown
<1>3. CASE Finish
  <2>1. TypeOK'
    BY <1>3 DEF Finish, LifecycleInv, TypeOK
  <2> QED BY <1>3, <2>1 DEF Finish, LifecycleInv, Result, Taken, OneShutdown
<1>4. CASE DeviceClose
  BY <1>4, EndKeeps DEF DeviceClose
<1>5. CASE Abort
  BY <1>5, EndKeeps DEF Abort
<1>6. CASE Panic
  BY <1>6, EndKeeps DEF Panic
<1> QED BY <1>1, <1>2, <1>3, <1>4, <1>5, <1>6

\* close(), and how it ends.
LEMMA CloseKeeps ==
  ASSUME LifecycleInv, NEW k \in Closers, Close(k) \/ CloseResult(k) \/ CloseTimeout(k)
  PROVE  LifecycleInv'
<1> USE DEF LifecycleInv
<1>1. CASE Close(k)
  <2>1. PICK s \in {"noop", "error", "sending"} : closer' = [closer EXCEPT ![k] = s]
    BY <1>1 DEF Close
  <2>2. closer[k] = "idle" /\ (finished => closer'[k] # "noop") /\ (~finished => closer'[k] = "noop")
    BY <1>1 DEF Close, TypeOK
  <2>3. closer'[k] = s /\ \A j \in Closers : j # k => closer'[j] = closer[j]
    BY <2>1 DEF TypeOK
  <2>4. /\ waiters' \in Seq(Client)
        /\ \A i \in 1..Len(waiters') :
             \/ \E j \in 1..Len(waiters) : waiters'[i] = waiters[j]
             \/ waiters'[i] = k /\ finished
    <3>1. CASE waiters' = waiters
      BY <3>1 DEF TypeOK
    <3>2. CASE waiters' = Append(waiters, k) /\ finished
      BY <3>2 DEF TypeOK, Client
    <3> QED BY <1>1, <3>1, <3>2 DEF Close
  <2>5. TypeOK'
    BY <1>1, <2>1, <2>4 DEF Close, TypeOK
  <2>6. finished' = FALSE /\ teardown' = teardown /\ actor' = actor /\ device' = device
    BY <1>1 DEF Close
  <2>7. Result'
    BY <2>1, <2>3, <2>6 DEF Result
  <2>8. Taken'
    <3> SUFFICES ASSUME NEW i \in 1..Len(waiters'), waiters'[i] \in Closers
                 PROVE  closer'[waiters'[i]] \notin {"idle", "noop"}
      BY <2>6 DEF Taken
    <3>1. CASE \E j \in 1..Len(waiters) : waiters'[i] = waiters[j]
      <4>1. closer[waiters'[i]] \notin {"idle", "noop"}
        BY <3>1 DEF Taken
      <4> QED BY <2>2, <2>3, <4>1
    <3>2. CASE waiters'[i] = k /\ finished
      BY <2>1, <2>2, <2>3, <3>2
    <3> QED BY <2>4, <3>1, <3>2
  <2>9. OneShutdown'
    <3>1. CASE finished
      <4>1. \A j \in Closers : j # k => closer'[j] = "idle"
        BY <2>3, <3>1 DEF Taken
      <4> QED BY <4>1 DEF OneShutdown
    <3>2. CASE ~finished
      BY <2>2, <2>3, <3>2 DEF OneShutdown
    <3> QED BY <3>1, <3>2
  <2> QED BY <2>5, <2>7, <2>8, <2>9
<1>2. CASE CloseResult(k) \/ CloseTimeout(k)
  <2>1. PICK s \in {"ok", "error", "timeout"} :
          /\ closer' = [closer EXCEPT ![k] = s]
          /\ s = "ok" => teardown = "ok"
    BY <1>2 DEF CloseResult, CloseTimeout
  <2>2. /\ closer[k] = "waiting"
        /\ UNCHANGED <<actor, serving, queue, waiters, caller, finished, teardown, device, wedged, handles>>
    BY <1>2 DEF CloseResult, CloseTimeout
  <2>3. aborting' \in BOOLEAN
    BY <1>2 DEF CloseResult, CloseTimeout, TypeOK
  <2>4. TypeOK'
    BY <2>1, <2>2, <2>3 DEF TypeOK
  <2>5. closer'[k] = s /\ \A j \in Closers : j # k => closer'[j] = closer[j]
    BY <2>1 DEF TypeOK
  <2>6. \A j \in Closers : closer'[j] \in {"idle", "noop"} <=> closer[j] \in {"idle", "noop"}
    BY <2>1, <2>2, <2>5
  <2>7. ~finished
    BY <2>2 DEF Taken
  <2>8. Result'
    BY <2>1, <2>2, <2>5 DEF Result
  <2>9. Taken'
    BY <2>2, <2>6, <2>7 DEF Taken
  <2>10. OneShutdown'
    BY <2>6 DEF OneShutdown
  <2> QED BY <2>4, <2>8, <2>9, <2>10
<1> QED BY <1>1, <1>2

\* Every step keeps the invariant.
LEMMA LifecycleStep == LifecycleInv /\ [Next]_vars => LifecycleInv'
<1> SUFFICES ASSUME LifecycleInv, [Next]_vars PROVE LifecycleInv'
  OBVIOUS
<1>1. CASE Grant \/ \E c \in Callers : Call(c) \/ Cancel(c)
  BY <1>1, CallsKeep
<1>2. CASE Recv \/ RecvNone \/ Finish \/ DeviceClose \/ Abort \/ Panic
  BY <1>2, TaskKeeps
<1>3. CASE \E k \in Closers : Close(k) \/ CloseResult(k) \/ CloseTimeout(k)
  BY <1>3, CloseKeeps
<1>4. CASE ForceClose
  BY <1>4 DEF ForceClose, LifecycleInv, TypeOK, Result, Taken, OneShutdown
<1>5. CASE DropHandles
  BY <1>5 DEF DropHandles, LifecycleInv, TypeOK, Result, Taken, OneShutdown
<1>6. CASE Wedge
  BY <1>6 DEF Wedge, LifecycleInv, TypeOK, Result, Taken, OneShutdown
<1>7. CASE Quiet \/ UNCHANGED vars
  BY <1>7 DEF Quiet, vars, LifecycleInv, TypeOK, Result, Taken, OneShutdown
<1> QED BY <1>1, <1>2, <1>3, <1>4, <1>5, <1>6, <1>7 DEF Next, Task

LEMMA LifecycleInvariant == Spec => []LifecycleInv
BY LifecycleInit, LifecycleStep, PTL DEF Spec

-----------------------------------------------------------------------------
(* Theorems. *)

\* The states of the actor, its channel and its clients have their types; the
\* channel never holds more than its capacity.
THEOREM LifecycleTypes == Spec => []TypeOK
BY LifecycleInvariant, PTL DEF LifecycleInv

\* close() returns Ok to the task that sent the shutdown only after the session
\* was closed cleanly, whoever else closes, cancels, panics or aborts
\* (await_teardown).
THEOREM CloseIsHonest == Spec => []CloseOkMeansClosed
<1>1. LifecycleInv => CloseOkMeansClosed
  BY DEF LifecycleInv, Result, CloseOkMeansClosed
<1> QED BY <1>1, LifecycleInvariant, PTL

\* One close() at most sends a Shutdown and waits for the result (close).
THEOREM ShutdownOnce == Spec => []OneShutdown
BY LifecycleInvariant, PTL DEF LifecycleInv

=============================================================================
