-------------------------- MODULE RpcTransactions --------------------------
(***************************************************************************)
(* The RPC side of fernfs, which the adapter is called through: per TCP    *)
(* connection a reader, a command queue and its worker (tcp.rs,            *)
(* rpc/wire.rs, rpc/command_queue.rs), and one transaction tracker for all *)
(* of them (rpc/transaction_tracker.rs), which replays the reply of a call *)
(* that the client sends again.                                            *)
(*                                                                         *)
(* A call is its xid; what it asks for is not modelled.  Time passes in    *)
(* ticks; of times only the age is kept.  The client is external: it sends *)
(* a call until it is answered, over any connection it opens.              *)
(***************************************************************************)
EXTENDS Naturals, Sequences, FiniteSets

CONSTANTS
  Xid, Addr, Conn,
  Retention,  \* the tracker's retention period
  MaxFlight,  \* bound on the calls and results of a connection under way
  Faults,     \* "error", "panic", "close", "lost"
  None, Error

Interval == IF Retention < 4 THEN 1 ELSE Retention \div 4
Age == 0..(Retention + 1)

ASSUME RpcConstants ==
  /\ Retention \in Nat \ {0} /\ MaxFlight \in Nat \ {0}
  /\ None \notin Xid \cup Addr \cup Age /\ Error \notin Xid

VARIABLES
  peer,     \* the address and port of the client of each connection
  open,     \* the connections process_socket serves
  queue,    \* the calls that wait for the worker of each connection
  serving,  \* the call each worker executes
  out,      \* the results on their way to the socket
  dead,     \* the connections whose worker is gone
  tracker,  \* the transactions, by xid and client address
  swept,    \* the age of the last housekeeping
  answered, \* the calls whose reply the client has got
  ran       \* how long ago a call of an address was last executed, or its reply
            \* sent again, while that is not longer than the retention period

vars == <<peer, open, queue, serving, out, dead, tracker, swept, answered, ran>>

Key == Xid \X Addr
NoEntry == [state |-> "vacant", age |-> 0]
InProgress == [state |-> "in progress", age |-> 0]
Completed(age) == [state |-> "completed", age |-> age]
Entry == {NoEntry, InProgress} \cup {Completed(n) : n \in Age}

TypeOK ==
  /\ peer \in [Conn -> Addr \cup {None}] /\ open \subseteq Conn /\ dead \subseteq Conn
  /\ queue \in [Conn -> Seq(Xid)] /\ serving \in [Conn -> Xid \cup {None}]
  /\ out \in [Conn -> Seq(Xid \cup {Error})]
  /\ tracker \in [Key -> Entry] /\ swept \in 0..Interval
  /\ answered \subseteq Xid /\ ran \in [Key -> 0..Retention \cup {None}]
  \* What is executed is in progress for the tracker, however long it takes.
  /\ \A c \in Conn : serving[c] # None => tracker[<<serving[c], peer[c]>>] = InProgress

Init ==
  /\ peer = [c \in Conn |-> None] /\ open = {} /\ dead = {}
  /\ queue = [c \in Conn |-> <<>>] /\ serving = [c \in Conn |-> None]
  /\ out = [c \in Conn |-> <<>>]
  /\ tracker = [k \in Key |-> NoEntry] /\ swept = 0
  /\ answered = {} /\ ran = [k \in Key |-> None]

-----------------------------------------------------------------------------
(* The tracker. *)

\* Mutant: a transaction that takes long is forgotten as well.
Housekept_All(t) ==
  [k \in Key |-> IF t[k] = InProgress \/ t[k].age > Retention THEN NoEntry ELSE t[k]]

\* housekeeping: completed transactions that are too old go.
Housekept(t) == [k \in Key |-> IF t[k].age > Retention THEN NoEntry ELSE t[k]]

\* check sweeps first, when there is something to sweep and it is time to.
Sweep == swept >= Interval /\ \E k \in Key : tracker[k] # NoEntry
Checked == IF Sweep THEN Housekept(tracker) ELSE tracker

-----------------------------------------------------------------------------
(* The sockets. *)

\* handle_forever.  A connection that is over, worker and all, can be used
\* for a new one.
Over(c) == c \notin open /\ queue[c] = <<>> /\ serving[c] = None
Accept(c, a) ==
  /\ Over(c) /\ \A d \in open : peer[d] # a
  /\ peer' = [peer EXCEPT ![c] = a]
  /\ open' = open \cup {c} /\ dead' = dead \ {c}
  /\ UNCHANGED <<queue, serving, out, tracker, swept, answered, ran>>

\* A call arrives and is submitted to the queue.
Send(c, x) ==
  /\ c \in open \ dead /\ x \notin answered /\ Len(queue[c]) + Len(out[c]) < MaxFlight
  /\ queue' = [queue EXCEPT ![c] = Append(@, x)]
  /\ UNCHANGED <<peer, open, serving, out, dead, tracker, swept, answered, ran>>

\* The socket is dropped.  The worker goes on with what it has been given;
\* calls that were not read yet are lost, and so are the results to come.
Closed(c) ==
  /\ open' = open \ {c}
  /\ out' = [out EXCEPT ![c] = <<>>]
  /\ \E n \in 0..Len(queue[c]) : queue' = [queue EXCEPT ![c] = SubSeq(@, 1, n)]

\* By the client, or the network.
Close(c) ==
  /\ "close" \in Faults /\ c \in open /\ Closed(c)
  /\ UNCHANGED <<peer, serving, dead, tracker, swept, answered, ran>>

\* process_socket writes a reply, and ends the connection on an error, or when
\* its worker is gone.  A write that fails is only logged.
Deliver(c) ==
  /\ c \in open /\ out[c] # <<>>
  /\ \/ /\ Head(out[c]) # Error
        /\ out' = [out EXCEPT ![c] = Tail(@)]
        /\ \/ answered' = answered \cup {Head(out[c])}
           \/ "lost" \in Faults /\ UNCHANGED answered
        /\ UNCHANGED <<open, queue>>
     \/ Head(out[c]) = Error /\ Closed(c) /\ UNCHANGED answered
  /\ UNCHANGED <<peer, serving, dead, tracker, swept, ran>>
Ended(c) ==
  /\ c \in open \cap dead /\ out[c] = <<>> /\ Closed(c)
  /\ UNCHANGED <<peer, serving, dead, tracker, swept, answered, ran>>

-----------------------------------------------------------------------------
(* The worker of a connection. *)

\* The results of a connection that is closed go nowhere.
Emit(c, r) == out' = IF c \in open THEN [out EXCEPT ![c] = Append(@, r)] ELSE out

\* Mutant: a call that is being executed is not recognised.
Check_Completed(c) ==
  /\ c \notin dead /\ serving[c] = None /\ queue[c] # <<>>
  /\ LET x == Head(queue[c])
         k == <<x, peer[c]>>
     IN  IF Checked[k].state = "completed"
         THEN /\ tracker' = [Checked EXCEPT ![k] = Completed(0)] /\ Emit(c, x)
              /\ ran' = [ran EXCEPT ![k] = 0] /\ UNCHANGED serving
         ELSE /\ tracker' = [Checked EXCEPT ![k] = InProgress]
              /\ serving' = [serving EXCEPT ![c] = x] /\ UNCHANGED <<out, ran>>
  /\ queue' = [queue EXCEPT ![c] = Tail(@)]
  /\ swept' = IF Sweep THEN 0 ELSE swept
  /\ UNCHANGED <<peer, open, dead, answered>>

\* handle_rpc: the next call is executed, dropped while it is being executed
\* elsewhere, or its reply sent again.
Check(c) ==
  /\ c \notin dead /\ serving[c] = None /\ queue[c] # <<>>
  /\ LET x == Head(queue[c])
         k == <<x, peer[c]>>
     IN  \/ /\ Checked[k] = NoEntry
            /\ tracker' = [Checked EXCEPT ![k] = InProgress]
            /\ serving' = [serving EXCEPT ![c] = x] /\ UNCHANGED <<out, ran>>
         \/ /\ Checked[k] = InProgress
            /\ tracker' = Checked /\ UNCHANGED <<serving, out, ran>>
         \/ /\ Checked[k].state = "completed"
            /\ tracker' = [Checked EXCEPT ![k] = Completed(0)] /\ Emit(c, x)
            /\ ran' = [ran EXCEPT ![k] = 0] /\ UNCHANGED serving
  /\ queue' = [queue EXCEPT ![c] = Tail(@)]
  /\ swept' = IF Sweep THEN 0 ELSE swept
  /\ UNCHANGED <<peer, open, dead, answered>>

\* The call has been executed: its response is recorded and sent.
Finish(c) ==
  /\ serving[c] # None
  /\ LET k == <<serving[c], peer[c]>> IN
     /\ tracker' = [tracker EXCEPT ![k] = Completed(0)]
     /\ ran' = [ran EXCEPT ![k] = 0]
  /\ Emit(c, serving[c])
  /\ serving' = [serving EXCEPT ![c] = None]
  /\ UNCHANGED <<peer, open, queue, dead, swept, answered>>

\* Mutant: the entry of a call that failed stays.
Fail_NoClear(c) ==
  /\ "error" \in Faults /\ serving[c] # None
  /\ UNCHANGED tracker
  /\ Emit(c, Error)
  /\ serving' = [serving EXCEPT ![c] = None]
  /\ UNCHANGED <<peer, open, queue, dead, swept, answered, ran>>

\* The call is malformed, which its handler finds before it does anything.
Fail(c) ==
  /\ "error" \in Faults /\ serving[c] # None
  /\ tracker' = [tracker EXCEPT ![<<serving[c], peer[c]>>] = NoEntry]
  /\ Emit(c, Error)
  /\ serving' = [serving EXCEPT ![c] = None]
  /\ UNCHANGED <<peer, open, queue, dead, swept, answered, ran>>

\* The handler panics, and takes the worker and its queue with it; the
\* transaction stays in progress.
Panic(c) ==
  /\ "panic" \in Faults /\ serving[c] # None
  /\ dead' = dead \cup {c} /\ queue' = [queue EXCEPT ![c] = <<>>]
  /\ serving' = [serving EXCEPT ![c] = None]
  /\ UNCHANGED <<peer, open, out, tracker, swept, answered, ran>>

Older(n) == IF n < Retention + 1 THEN n + 1 ELSE n
Tick ==
  /\ tracker' = [k \in Key |-> IF tracker[k].state = "completed"
                               THEN Completed(Older(tracker[k].age)) ELSE tracker[k]]
  /\ ran' = [k \in Key |-> IF ran[k] \in 0..(Retention - 1) THEN ran[k] + 1 ELSE None]
  /\ swept' = IF swept < Interval THEN swept + 1 ELSE swept
  /\ UNCHANGED <<peer, open, queue, serving, out, dead, answered>>

Next ==
  \/ \E c \in Conn : Close(c) \/ Deliver(c) \/ Ended(c) \/ Check(c) \/ Finish(c) \/ Fail(c) \/ Panic(c)
  \/ \E c \in Conn, a \in Addr : Accept(c, a)
  \/ \E c \in Conn, x \in Xid : Send(c, x)
  \/ Tick

\* The runtime polls the workers and the sockets, a handler returns, and the
\* client does not give up and does not lose every reply.
Fairness ==
  /\ \A c \in Conn : /\ WF_vars(Check(c)) /\ WF_vars(Deliver(c)) /\ WF_vars(Ended(c))
                     /\ WF_vars(Finish(c) \/ Fail(c) \/ Panic(c))
                     /\ SF_vars(Deliver(c) /\ answered' # answered)
  /\ \A x \in Xid, c \in Conn : SF_vars(Send(c, x))

Spec == Init /\ [][Next]_vars
FairSpec == Spec /\ Fairness

-----------------------------------------------------------------------------
(* Properties. *)

Begins(c, x) == serving[c] # x /\ serving'[c] = x

\* "Only one instance of a given RPC request is processed", of those that one
\* client address sends: a worker begins a call only when no other executes it
\* for that address, and when its last reply is older than the retention
\* period.
AtMostOnce ==
  [][\A c \in Conn, x \in Xid : Begins(c, x) =>
       /\ \A d \in Conn : serving[d] = x => peer[d] # peer[c]
       /\ ran[<<x, peer[c]>>] = None]_vars

\* The same of a call, wherever it comes from.
OneInstance ==
  [][\A c \in Conn, x \in Xid : Begins(c, x) =>
       /\ \A d \in Conn : serving[d] # x
       /\ \A a \in Addr : ran[<<x, a>>] = None]_vars

\* A client that keeps sending a call over a connection that stays gets its
\* answer, after any number of lost replies, closed connections and failed
\* attempts: the tracker never keeps dropping it, unless a handler panicked.
Answered ==
  \A x \in Xid : [](dead = {}) /\ (\E c \in Conn : <>[](c \in open)) => <>(x \in answered)
=============================================================================
