--------------------------- MODULE ActorLifecycle ---------------------------
(***************************************************************************)
(* The life of the device actor (crates/core/src/actor.rs): the bounded    *)
(* request channel in front of it, the callers that await their replies,   *)
(* close() with its timeout, and force_close().                            *)
(*                                                                         *)
(* What a request does on the phone is the subject of DeviceActor; here it *)
(* takes a while, and never ends once the phone has stopped answering.     *)
(***************************************************************************)
EXTENDS Integers, Sequences

CONSTANTS
  Callers,   \* tasks that call the actor
  Closers,   \* tasks that close it
  Capacity,  \* of the channel (16)
  Faults,    \* what may happen: "wedge", "panic", "cancel", "close", "force"
  Shutdown, Stale, None

Client == Callers \cup Closers

\* What the channel holds: a call, a call whose caller has stopped waiting, or
\* the request to shut down.
Request == Callers \cup {Shutdown, Stale}

ASSUME LifecycleConstants ==
  /\ Capacity \in Nat \ {0}
  /\ Callers \cap Closers = {}
  /\ Shutdown \notin Client /\ Stale \notin Client /\ None \notin Client
  /\ Shutdown # Stale /\ Shutdown # None /\ Stale # None

VARIABLES
  actor,     \* the task: waiting in recv, in a handler, closing the device, ended
  serving,   \* the request in the handler
  queue,     \* the channel
  waiters,   \* senders waiting for room in the channel, in the order they came
  caller,    \* per caller
  closer,    \* per task that calls close()
  finished,  \* whether the receiver of the teardown result is still to be taken
  teardown,  \* that result
  aborting,  \* the task was told to abort
  device,    \* the MTP session, and with it the USB claim
  wedged,    \* the phone has stopped answering
  handles    \* whether a DeviceHandle, and so a sender, is left

vars == <<actor, serving, queue, waiters, caller, closer, finished, teardown, aborting, device,
          wedged, handles>>

channel == <<queue, waiters>>
tasks == <<caller, closer>>

TypeOK ==
  /\ actor \in {"recv", "serve", "closing", "ended"}
  /\ serving \in Request \cup {None}
  /\ queue \in Seq(Request) /\ Len(queue) <= Capacity
  /\ waiters \in Seq(Client)
  /\ caller \in [Callers -> {"idle", "sending", "waiting"}]
  /\ closer \in [Closers -> {"idle", "sending", "waiting", "ok", "noop", "error", "timeout"}]
  /\ finished \in BOOLEAN
  /\ teardown \in {"pending", "ok", "error", "dropped"}
  /\ aborting \in BOOLEAN
  /\ device \in {"open", "closed", "dropped"}
  /\ wedged \in BOOLEAN
  /\ handles \in BOOLEAN

Init ==
  /\ actor = "recv" /\ serving = None
  /\ queue = <<>> /\ waiters = <<>>
  /\ caller = [c \in Callers |-> "idle"]
  /\ closer = [k \in Closers |-> "idle"]
  /\ finished = TRUE /\ teardown = "pending" /\ aborting = FALSE
  /\ device = "open" /\ wedged = FALSE /\ handles = TRUE

-----------------------------------------------------------------------------
(* The channel. *)

\* s without its i-th element.
WithoutAt(s, i) == [j \in 1..(Len(s) - 1) |-> IF j < i THEN s[j] ELSE s[j + 1]]

\* Mutant: the channel has no bound.
Grant_Unbounded ==
  /\ waiters # <<>> /\ Head(waiters) \in Callers
  /\ queue' = Append(queue, Head(waiters))
  /\ caller' = [caller EXCEPT ![Head(waiters)] = "waiting"]
  /\ waiters' = Tail(waiters)
  /\ UNCHANGED <<actor, serving, closer, finished, teardown, aborting, device, wedged, handles>>

\* A sender gets the next free place, first come first served.
Grant ==
  /\ waiters # <<>> /\ Len(queue) < Capacity
  /\ LET w == Head(waiters) IN
     IF w \in Callers
     THEN /\ queue' = Append(queue, w)
          /\ caller' = [caller EXCEPT ![w] = "waiting"]
          /\ UNCHANGED closer
     ELSE /\ queue' = Append(queue, Shutdown)
          /\ closer' = [closer EXCEPT ![w] = "waiting"]
          /\ UNCHANGED caller
  /\ waiters' = Tail(waiters)
  /\ UNCHANGED <<actor, serving, finished, teardown, aborting, device, wedged, handles>>

-----------------------------------------------------------------------------
(* DeviceHandle::call. *)

\* On an ended actor the send fails at once, which changes nothing.
Call(c) ==
  /\ caller[c] = "idle" /\ handles /\ actor # "ended"
  /\ caller' = [caller EXCEPT ![c] = "sending"]
  /\ waiters' = Append(waiters, c)
  /\ UNCHANGED <<actor, serving, queue, closer, finished, teardown, aborting, device, wedged, handles>>

\* A caller gives up (test_session after 5 s): a request that is in the
\* channel or in the handler stays there.
Cancel(c) ==
  /\ "cancel" \in Faults
  /\ \/ /\ caller[c] = "sending"
        /\ \E i \in 1..Len(waiters) : waiters[i] = c /\ waiters' = WithoutAt(waiters, i)
        /\ UNCHANGED <<queue, serving>>
     \/ /\ caller[c] = "waiting"
        /\ queue' = [i \in 1..Len(queue) |-> IF queue[i] = c THEN Stale ELSE queue[i]]
        /\ serving' = IF serving = c THEN Stale ELSE serving
        /\ UNCHANGED waiters
  /\ caller' = [caller EXCEPT ![c] = "idle"]
  /\ UNCHANGED <<actor, closer, finished, teardown, aborting, device, wedged, handles>>

-----------------------------------------------------------------------------
(* The actor task. *)

\* The task is over: the channel is closed, everything in it is dropped, and
\* whoever waits on it is told ActorClosed.  What state owned goes with it.
End(result) ==
  /\ actor' = "ended" /\ serving' = None
  /\ queue' = <<>> /\ waiters' = <<>>
  /\ caller' = [c \in Callers |-> "idle"]
  /\ closer' = [k \in Closers |-> IF closer[k] = "sending" THEN "error" ELSE closer[k]]
  /\ aborting' = (aborting \/ \E k \in Closers : closer[k] = "sending")
  /\ teardown' = result
  /\ device' = IF result = "ok" THEN "closed" ELSE "dropped"
  /\ UNCHANGED <<finished, wedged, handles>>

\* The run loop takes the next request; Shutdown ends the loop, and so does
\* the end of the last handle.
Recv ==
  /\ actor = "recv" /\ queue # <<>>
  /\ IF Head(queue) = Shutdown
     THEN actor' = "closing" /\ UNCHANGED serving
     ELSE actor' = "serve" /\ serving' = Head(queue)
  /\ queue' = Tail(queue)
  /\ UNCHANGED <<waiters, tasks, finished, teardown, aborting, device, wedged, handles>>

RecvNone ==
  /\ actor = "recv" /\ queue = <<>> /\ waiters = <<>> /\ ~handles
  /\ actor' = "closing"
  /\ UNCHANGED <<serving, channel, tasks, finished, teardown, aborting, device, wedged, handles>>

\* Mutant: a handler that forgets its reply.
Finish_NoReply ==
  /\ actor = "serve" /\ ~wedged
  /\ actor' = "recv" /\ serving' = None
  /\ UNCHANGED <<channel, tasks, finished, teardown, aborting, device, wedged, handles>>

\* The handler replies; the reply to a caller that left is dropped.
Finish ==
  /\ actor = "serve" /\ ~wedged
  /\ caller' = [c \in Callers |-> IF c = serving THEN "idle" ELSE caller[c]]
  /\ actor' = "recv" /\ serving' = None
  /\ UNCHANGED <<channel, closer, finished, teardown, aborting, device, wedged, handles>>

\* The handler panics.
Panic == "panic" \in Faults /\ actor = "serve" /\ End("dropped")

\* device.close(), and the result is sent to close().
DeviceClose ==
  /\ actor = "closing" /\ ~wedged
  /\ End("ok") \/ ("close" \in Faults /\ End("error"))

\* The task notices that it was aborted at its next await.
Abort == aborting /\ actor # "ended" /\ End("dropped")

-----------------------------------------------------------------------------
(* close() and force_close(). *)

\* Only the first close() finds the receiver; the others return Ok.  A send
\* on an ended actor fails at once.
Close(k) ==
  /\ closer[k] = "idle" /\ handles
  /\ IF ~finished THEN /\ closer' = [closer EXCEPT ![k] = "noop"]
                       /\ UNCHANGED <<waiters, aborting>>
     ELSE IF actor = "ended" THEN /\ closer' = [closer EXCEPT ![k] = "error"]
                                  /\ aborting' = TRUE /\ UNCHANGED waiters
     ELSE /\ closer' = [closer EXCEPT ![k] = "sending"]
          /\ waiters' = Append(waiters, k) /\ UNCHANGED aborting
  /\ finished' = FALSE
  /\ UNCHANGED <<actor, serving, queue, caller, teardown, device, wedged, handles>>

\* Mutant: a dropped receiver counts as a clean close.
CloseResult_Ignore(k) ==
  /\ closer[k] = "waiting" /\ teardown # "pending"
  /\ closer' = [closer EXCEPT ![k] = "ok"]
  /\ UNCHANGED <<actor, serving, channel, caller, finished, teardown, aborting, device, wedged, handles>>

\* await_teardown: every ending but a clean one is an error, and close() then
\* aborts the task.
CloseResult(k) ==
  /\ closer[k] = "waiting" /\ teardown # "pending"
  /\ closer' = [closer EXCEPT ![k] = IF teardown = "ok" THEN "ok" ELSE "error"]
  /\ aborting' = (aborting \/ teardown # "ok")
  /\ UNCHANGED <<actor, serving, channel, caller, finished, teardown, device, wedged, handles>>

\* Mutant: the task is not aborted after the timeout.
CloseTimeout_NoAbort(k) ==
  /\ closer[k] = "waiting" /\ teardown = "pending"
  /\ closer' = [closer EXCEPT ![k] = "timeout"]
  /\ UNCHANGED <<actor, serving, channel, caller, finished, teardown, aborting, device, wedged, handles>>

\* Mutant: the result is awaited without a limit.
CloseTimeout_Never(k) == FALSE /\ closer[k] = "waiting" /\ UNCHANGED vars

\* CLOSE_TIMEOUT: it may fire however fast the actor is.
CloseTimeout(k) ==
  /\ closer[k] = "waiting" /\ teardown = "pending"
  /\ closer' = [closer EXCEPT ![k] = "timeout"]
  /\ aborting' = TRUE
  /\ UNCHANGED <<actor, serving, channel, caller, finished, teardown, device, wedged, handles>>

\* force_close(), of MtpNfs::detach.
ForceClose ==
  /\ "force" \in Faults /\ handles /\ ~aborting
  /\ aborting' = TRUE
  /\ UNCHANGED <<actor, serving, channel, tasks, finished, teardown, device, wedged, handles>>

\* The last handle goes out of scope, when no call is under way.
DropHandles ==
  /\ handles
  /\ \A c \in Callers : caller[c] = "idle"
  /\ \A k \in Closers : closer[k] \notin {"sending", "waiting"}
  /\ handles' = FALSE
  /\ UNCHANGED <<actor, serving, channel, tasks, finished, teardown, aborting, device, wedged>>

\* The phone stops answering, for good.
Wedge ==
  /\ "wedge" \in Faults /\ ~wedged
  /\ wedged' = TRUE
  /\ UNCHANGED <<actor, serving, channel, tasks, finished, teardown, aborting, device, handles>>

-----------------------------------------------------------------------------
Task == Grant \/ Recv \/ RecvNone \/ Finish \/ DeviceClose \/ Abort

\* Nothing goes on any more: the actor has ended or hangs on the phone.  Any
\* other standstill would be a deadlock.
Quiet == (actor = "ended" \/ wedged) /\ UNCHANGED vars

Next ==
  \/ Task \/ Panic \/ ForceClose \/ DropHandles \/ Wedge
  \/ \E c \in Callers : Call(c) \/ Cancel(c)
  \/ \E k \in Closers : Close(k) \/ CloseResult(k) \/ CloseTimeout(k)
  \/ Quiet

\* The runtime polls every task that is ready: the channel hands out its
\* places, the actor task goes on, an abort takes effect, a close() sees its
\* result, and its timer fires when there is none.
Fairness ==
  /\ WF_vars(Grant) /\ WF_vars(Recv) /\ WF_vars(RecvNone) /\ WF_vars(Finish)
  /\ WF_vars(DeviceClose) /\ WF_vars(Abort)
  /\ \A k \in Closers : WF_vars(CloseResult(k)) /\ WF_vars(CloseTimeout(k))

Spec == Init /\ [][Next]_vars

FairSpec == Spec /\ Fairness

-----------------------------------------------------------------------------
(* Properties. *)

\* close() returns Ok to the task that sent the shutdown only after the
\* session was closed cleanly: an actor that crashed, was aborted or hangs is
\* never reported as a clean teardown (await_teardown).
CloseOkMeansClosed ==
  \A k \in Closers : closer[k] = "ok" => device = "closed"

\* One close() tears the actor down: there is never a second Shutdown, nor a
\* second task that waits for the one result (close).
OneShutdown ==
  \A k1, k2 \in Closers :
    (closer[k1] \notin {"idle", "noop"} /\ closer[k2] \notin {"idle", "noop"}) => k1 = k2

\* Once a close() has put its Shutdown into the channel the USB claim is given
\* up, whether the phone answers or not (close, force_close).
ClaimReleased ==
  \A k \in Closers : closer[k] = "waiting" ~> device # "open"

\* A call ends, with a reply or with ActorClosed, unless the phone has stopped
\* answering and nobody has aborted the actor (call).
CallsEnd ==
  \A c \in Callers : caller[c] # "idle" ~> (caller[c] = "idle" \/ (wedged /\ ~aborting))

\* A close() returns, except behind a full channel of a wedged actor.
CloseReturnsUnlessFull ==
  \A k \in Closers :
    closer[k] \in {"sending", "waiting"}
    ~> (closer[k] \notin {"sending", "waiting"} \/ (wedged /\ Len(queue) = Capacity))

=============================================================================
