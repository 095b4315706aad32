----------------------- MODULE RpcTransactionsProofs -----------------------
(***************************************************************************)
(* Theorems about RpcTransactions, for any calls, addresses, connections   *)
(* and faults, and any retention period: no call of a client address is    *)
(* executed twice.  Nothing is assumed but RpcConstants.                   *)
(***************************************************************************)
EXTENDS RpcTransactions, SequenceTheorems, TLAPS

KeyOf(c) == <<serving[c], peer[c]>>

\* The tracker knows what the connections do and what they have done: a
\* connection with work is of a client, an executed call has one worker, and
\* a reply that is not too old is still recorded, with its age.
Known ==
  /\ \A c \in Conn : c \in open \/ queue[c] # <<>> \/ serving[c] # None => peer[c] \in Addr
  /\ \A c, d \in Conn : serving[c] # None /\ c # d => KeyOf(c) # KeyOf(d)
  /\ \A k \in Key : ran[k] # None => tracker[k] = Completed(ran[k])

RpcInv == TypeOK /\ Known

LEMMA Entries ==
  /\ NoEntry \in Entry /\ InProgress \in Entry /\ NoEntry # InProgress
  /\ NoEntry.state = "vacant" /\ NoEntry.age = 0
  /\ InProgress.state = "in progress" /\ InProgress.age = 0
  /\ \A n \in Age : /\ Completed(n) \in Entry /\ Completed(n) # NoEntry /\ Completed(n) # InProgress
                    /\ Completed(n).age = n /\ Completed(n).state = "completed"
  /\ Age \subseteq Nat /\ 0 \in Age /\ 0..Retention \subseteq Age /\ Interval \in Nat
<1>1. /\ NoEntry \in Entry /\ InProgress \in Entry /\ NoEntry # InProgress
      /\ NoEntry.state = "vacant" /\ NoEntry.age = 0
      /\ InProgress.state = "in progress" /\ InProgress.age = 0
  BY DEF NoEntry, InProgress, Entry
<1>2. Retention \in Nat \ {0}
  BY RpcConstants
<1>3. Age \subseteq Nat /\ 0 \in Age /\ 0..Retention \subseteq Age
  BY <1>2 DEF Age
<1>4. ASSUME NEW n \in Age
      PROVE  /\ Completed(n) \in Entry /\ Completed(n) # NoEntry /\ Completed(n) # InProgress
             /\ Completed(n).age = n /\ Completed(n).state = "completed"
  <2>1. Completed(n) \in Entry
    BY DEF Entry
  <2> QED BY <2>1 DEF NoEntry, InProgress, Completed
<1>5. Interval \in Nat
  BY <1>2 DEF Interval
<1> QED BY <1>1, <1>3, <1>4, <1>5

LEMMA RpcInitInv == Init => RpcInv
<1> SUFFICES ASSUME Init PROVE RpcInv
  OBVIOUS
<1>1. TypeOK
  <2>1. 0 \in 0..Interval /\ NoEntry \in Entry
    <3>1. Interval \in Nat /\ NoEntry \in Entry
      BY Entries
    <3> QED BY <3>1
  <2>2. /\ queue \in [Conn -> Seq(Xid)] /\ out \in [Conn -> Seq(Xid \cup {Error})]
        /\ peer \in [Conn -> Addr \cup {None}] /\ serving \in [Conn -> Xid \cup {None}]
        /\ ran \in [Key -> 0..Retention \cup {None}] /\ tracker \in [Key -> Entry]
    BY <2>1 DEF Init
  <2> QED BY <2>1, <2>2 DEF Init, TypeOK
<1>2. Known
  BY DEF Init, Known
<1> QED BY <1>1, <1>2 DEF RpcInv

\* The sweep of the tracker takes nothing that is in progress or recent.
LEMMA CheckedIs ==
  ASSUME RpcInv
  PROVE  /\ Checked \in [Key -> Entry]
         /\ \A k \in Key : tracker[k] = InProgress => Checked[k] = InProgress
         /\ \A k \in Key : ran[k] # None => Checked[k] = Completed(ran[k])
         /\ \A k \in Key : Checked[k] = InProgress => tracker[k] = InProgress
<1>1. CASE ~Sweep
  BY <1>1 DEF Checked, RpcInv, TypeOK, Known
<1>2. CASE Sweep
  <2>1. Checked = [k \in Key |-> IF tracker[k].age > Retention THEN NoEntry ELSE tracker[k]]
    BY <1>2 DEF Checked, Housekept
  <2>2. tracker \in [Key -> Entry]
    BY DEF RpcInv, TypeOK
  <2>3. Checked \in [Key -> Entry]
    BY <2>1, <2>2, Entries
  <2>4. ASSUME NEW k \in Key, tracker[k] = InProgress PROVE Checked[k] = InProgress
    <3>1. tracker[k].age = 0
      BY <2>4, Entries
    <3> QED BY <2>1, <2>4, <3>1, RpcConstants
  <2>5. ASSUME NEW k \in Key, ran[k] # None PROVE Checked[k] = Completed(ran[k])
    <3>1. tracker[k] = Completed(ran[k]) /\ ran[k] \in 0..Retention
      BY <2>5 DEF RpcInv, TypeOK, Known
    <3>2. tracker[k].age = ran[k]
      BY <3>1, Entries
    <3> QED BY <2>1, <3>1, <3>2, RpcConstants
  <2>6. ASSUME NEW k \in Key, Checked[k] = InProgress PROVE tracker[k] = InProgress
    BY <2>1, <2>6, Entries
  <2> QED BY <2>3, <2>4, <2>5, <2>6
<1> QED BY <1>1, <1>2

-----------------------------------------------------------------------------
(* The sockets leave the workers and the tracker alone. *)

LEMMA ClosedIs ==
  ASSUME RpcInv, NEW c \in Conn, Closed(c)
  PROVE  /\ open' \subseteq open
         /\ out' \in [Conn -> Seq(Xid \cup {Error})] /\ queue' \in [Conn -> Seq(Xid)]
         /\ \A d \in Conn : queue'[d] # <<>> => queue[d] # <<>>
<1>1. PICK n \in 0..Len(queue[c]) : queue' = [queue EXCEPT ![c] = SubSeq(@, 1, n)]
  BY DEF Closed
<1>2. queue \in [Conn -> Seq(Xid)] /\ queue[c] \in Seq(Xid) /\ Len(queue[c]) \in Nat
  BY DEF RpcInv, TypeOK
<1>3. SubSeq(queue[c], 1, n) \in Seq(Xid) /\ Len(SubSeq(queue[c], 1, n)) = n
  <2>1. CASE n = 0
    <3>1. SubSeq(queue[c], 1, n) = <<>>
      BY <1>2, <2>1
    <3> QED BY <2>1, <3>1
  <2>2. CASE n # 0
    BY <1>1, <1>2, <2>2, SubSeqProperties
  <2> QED BY <2>1, <2>2
<1>4. queue[c] = <<>> => SubSeq(queue[c], 1, n) = <<>>
  BY <1>1, <1>2, <1>3
<1> QED BY <1>1, <1>2, <1>3, <1>4 DEF Closed, RpcInv, TypeOK

LEMMA SocketStep ==
  ASSUME RpcInv, NEW c \in Conn,
         \/ \E a \in Addr : Accept(c, a)
         \/ \E x \in Xid : Send(c, x)
         \/ Close(c) \/ Deliver(c) \/ Ended(c)
  PROVE  RpcInv'
<1> USE DEF RpcInv
<1>0. UNCHANGED <<serving, tracker, swept, ran>>
  BY DEF Accept, Send, Close, Deliver, Ended
<1>1. ASSUME NEW a \in Addr, Accept(c, a) PROVE RpcInv'
  <2>1. serving[c] = None /\ peer' = [peer EXCEPT ![c] = a]
    BY <1>1 DEF Accept, Over
  <2>2. TypeOK'
    BY <1>0, <1>1, <2>1 DEF Accept, TypeOK
  <2>3. \A d \in Conn : serving[d] # None => peer'[d] = peer[d]
    BY <2>1 DEF TypeOK
  <2>4. \A d \in Conn : d # c => peer'[d] = peer[d]
    BY <2>1 DEF TypeOK
  <2>5. \A d, e \in Conn : serving'[d] # None /\ d # e => KeyOf(d)' # KeyOf(e)'
    BY <1>0, <2>1, <2>3, <2>4 DEF Known, KeyOf, TypeOK
  <2>6. \A d \in Conn : d \in open' \/ queue'[d] # <<>> \/ serving'[d] # None => peer'[d] \in Addr
    BY <1>0, <1>1, <2>1, <2>4 DEF Known, TypeOK, Accept
  <2>7. Known'
    BY <1>0, <2>5, <2>6 DEF Known
  <2> QED BY <2>2, <2>7
<1>2. ASSUME NEW x \in Xid, Send(c, x) PROVE RpcInv'
  <2>1. /\ c \in open /\ queue' = [queue EXCEPT ![c] = Append(@, x)]
        /\ UNCHANGED <<peer, open, out, dead, answered>>
    BY <1>2 DEF Send
  <2>2. queue' \in [Conn -> Seq(Xid)] /\ \A d \in Conn : d # c => queue'[d] = queue[d]
    BY <2>1 DEF TypeOK
  <2>3. TypeOK'
    BY <1>0, <2>1, <2>2 DEF TypeOK
  <2>4. Known'
    BY <1>0, <2>1, <2>2 DEF Known, KeyOf
  <2> QED BY <2>3, <2>4
<1>3. CASE Close(c) \/ Deliver(c) \/ Ended(c)
  <2>1. UNCHANGED <<peer, dead>> /\ answered' \subseteq Xid
    <3>1. CASE Close(c) \/ Ended(c)
      BY <3>1 DEF Close, Ended, TypeOK
    <3>2. CASE Deliver(c)
      <4>1. out[c] \in Seq(Xid \cup {Error}) /\ out[c] # <<>>
        BY <3>2 DEF TypeOK, Deliver
      <4>2. Head(out[c]) \in Xid \cup {Error}
        BY <4>1
      <4> QED BY <3>2, <4>2 DEF TypeOK, Deliver
    <3> QED BY <1>3, <3>1, <3>2
  <2>2. /\ open' \subseteq open
        /\ out' \in [Conn -> Seq(Xid \cup {Error})] /\ queue' \in [Conn -> Seq(Xid)]
        /\ \A d \in Conn : queue'[d] # <<>> => queue[d] # <<>>
    <3>1. CASE Closed(c)
      BY <3>1, ClosedIs
    <3>2. CASE out[c] # <<>> /\ out' = [out EXCEPT ![c] = Tail(@)] /\ UNCHANGED <<open, queue>>
      <4>1. out[c] \in Seq(Xid \cup {Error})
        BY DEF TypeOK
      <4>2. Tail(out[c]) \in Seq(Xid \cup {Error})
        BY <3>2, <4>1
      <4> QED BY <3>2, <4>2 DEF TypeOK
    <3> QED BY <1>3, <3>1, <3>2 DEF Close, Deliver, Ended
  <2>3. TypeOK'
    BY <1>0, <2>1, <2>2 DEF TypeOK
  <2>4. Known'
    BY <1>0, <2>1, <2>2 DEF Known, KeyOf
  <2> QED BY <2>3, <2>4
<1> QED BY <1>1, <1>2, <1>3

-----------------------------------------------------------------------------
(* The workers. *)

LEMMA Emits ==
  ASSUME RpcInv, NEW c \in Conn, NEW r \in Xid \cup {Error}, Emit(c, r)
  PROVE  out' \in [Conn -> Seq(Xid \cup {Error})]
BY DEF Emit, RpcInv, TypeOK

\* What a worker takes from its queue is a call of a client that is served by
\* no other worker, unless it is in progress.
LEMMA Taken ==
  ASSUME RpcInv, NEW c \in Conn, Check(c)
  PROVE  /\ Head(queue[c]) \in Xid /\ <<Head(queue[c]), peer[c]>> \in Key
         /\ peer[c] \in Addr /\ queue' \in [Conn -> Seq(Xid)]
         /\ \A d \in Conn : queue'[d] # <<>> => queue[d] # <<>>
<1>1. queue[c] \in Seq(Xid) /\ queue[c] # <<>> /\ queue' = [queue EXCEPT ![c] = Tail(@)]
  BY DEF Check, RpcInv, TypeOK
<1>2. Head(queue[c]) \in Xid /\ Tail(queue[c]) \in Seq(Xid)
  BY <1>1
<1>3. peer[c] \in Addr
  BY <1>1 DEF RpcInv, Known
<1> QED BY <1>1, <1>2, <1>3 DEF Key, RpcInv, TypeOK

LEMMA CheckStep ==
  ASSUME RpcInv, NEW c \in Conn, Check(c)
  PROVE  RpcInv'
<1> USE DEF RpcInv
<1> DEFINE x == Head(queue[c])
           k == <<x, peer[c]>>
<1>0. /\ UNCHANGED <<peer, open, dead, answered>> /\ serving[c] = None /\ swept' \in 0..Interval
      /\ x \in Xid /\ k \in Key /\ peer[c] \in Addr /\ queue' \in [Conn -> Seq(Xid)]
      /\ \A d \in Conn : queue'[d] # <<>> => queue[d] # <<>>
  <2>1. swept' = 0 \/ swept' = swept
    BY DEF Check
  <2>2. swept' \in 0..Interval
    <3>1. Interval \in Nat
      BY Entries
    <3> QED BY <2>1, <3>1 DEF TypeOK
  <2> QED BY <2>2, Taken DEF Check
<1>1. CASE /\ Checked[k] = NoEntry
           /\ tracker' = [Checked EXCEPT ![k] = InProgress]
           /\ serving' = [serving EXCEPT ![c] = x] /\ UNCHANGED <<out, ran>>
  <2>1. tracker' \in [Key -> Entry] /\ tracker'[k] = InProgress
        /\ \A j \in Key : tracker[j] = InProgress => tracker'[j] = InProgress
    BY <1>0, <1>1, CheckedIs, Entries
  <2>2. ran[k] = None
    BY <1>0, <1>1, CheckedIs, Entries DEF TypeOK
  <2>3. ASSUME NEW d \in Conn, serving[d] # None PROVE KeyOf(d) # k /\ KeyOf(d) \in Key
    <3>1. KeyOf(d) \in Key /\ tracker[KeyOf(d)] = InProgress
      BY <2>3 DEF KeyOf, TypeOK, Known, Key
    <3>2. Checked[KeyOf(d)] = InProgress
      BY <3>1, CheckedIs
    <3> HIDE DEF k
    <3> QED BY <1>1, <3>1, <3>2, Entries
  <2>4. serving' \in [Conn -> Xid \cup {None}] /\ serving'[c] = x
        /\ \A d \in Conn : d # c => serving'[d] = serving[d]
    BY <1>0, <1>1 DEF TypeOK
  <2>5. ASSUME NEW d \in Conn, serving'[d] # None
        PROVE  tracker'[<<serving'[d], peer'[d]>>] = InProgress
    BY <1>0, <2>1, <2>3, <2>4, <2>5 DEF TypeOK, KeyOf
  <2>6. TypeOK'
    BY <1>0, <1>1, <2>1, <2>4, <2>5 DEF TypeOK
  <2>7. \A d, e \in Conn : serving'[d] # None /\ d # e => KeyOf(d)' # KeyOf(e)'
    <3> SUFFICES ASSUME NEW d \in Conn, NEW e \in Conn, serving'[d] # None, d # e
                 PROVE  <<serving'[d], peer[d]>> # <<serving'[e], peer[e]>>
      BY <1>0 DEF KeyOf
    <3>1. CASE d # c /\ e # c
      BY <2>4, <3>1 DEF Known, KeyOf
    <3>2. CASE d = c /\ serving'[e] # None
      BY <2>3, <2>4, <3>2 DEF KeyOf
    <3>3. CASE e = c
      BY <2>3, <2>4, <3>3 DEF KeyOf
    <3>4. CASE serving'[e] = None
      BY <3>4
    <3> QED BY <3>1, <3>2, <3>3, <3>4
  <2>8. \A j \in Key : ran'[j] # None => tracker'[j] = Completed(ran'[j])
    BY <1>0, <1>1, <2>2, CheckedIs
  <2>9. Known'
    BY <1>0, <2>4, <2>7, <2>8 DEF Known
  <2> QED BY <2>6, <2>9
<1>2. CASE tracker' = Checked /\ UNCHANGED <<serving, out, ran>>
  <2>1. TypeOK'
    BY <1>0, <1>2, CheckedIs DEF TypeOK, Known, Key
  <2>2. Known'
    BY <1>0, <1>2, CheckedIs DEF Known, KeyOf
  <2> QED BY <2>1, <2>2
<1>3. CASE /\ Checked[k].state = "completed"
           /\ tracker' = [Checked EXCEPT ![k] = Completed(0)] /\ Emit(c, x)
           /\ ran' = [ran EXCEPT ![k] = 0] /\ UNCHANGED serving
  <2>1. tracker' \in [Key -> Entry] /\ tracker'[k] = Completed(0)
        /\ \A j \in Key : j # k => tracker'[j] = Checked[j]
    BY <1>0, <1>3, CheckedIs, Entries
  <2>2. \A j \in Key : tracker[j] = InProgress => tracker'[j] = InProgress
    BY <1>3, <2>1, CheckedIs, Entries
  <2>3. out' \in [Conn -> Seq(Xid \cup {Error})] /\ ran' \in [Key -> 0..Retention \cup {None}]
    BY <1>0, <1>3, Emits, RpcConstants DEF TypeOK
  <2>4. TypeOK'
    BY <1>0, <1>3, <2>1, <2>2, <2>3 DEF TypeOK, Known, Key
  <2>5. \A j \in Key : ran'[j] # None => tracker'[j] = Completed(ran'[j])
    BY <1>0, <1>3, <2>1, CheckedIs DEF TypeOK
  <2>6. Known'
    BY <1>0, <1>3, <2>5 DEF Known, KeyOf
  <2> QED BY <2>4, <2>6
<1> QED BY <1>1, <1>2, <1>3 DEF Check

\* A call ends: executed, malformed, or in a panic.
LEMMA EndStep ==
  ASSUME RpcInv, NEW c \in Conn, Finish(c) \/ Fail(c) \/ Panic(c)
  PROVE  RpcInv'
<1> USE DEF RpcInv
<1> DEFINE k == KeyOf(c)
<1>0. /\ serving[c] # None /\ serving[c] \in Xid /\ peer[c] \in Addr /\ k \in Key
      /\ serving' = [serving EXCEPT ![c] = None] /\ tracker[k] = InProgress
      /\ UNCHANGED <<peer, open, swept, answered>>
  BY DEF Finish, Fail, Panic, TypeOK, Known, Key, KeyOf
<1>1. /\ queue' \in [Conn -> Seq(Xid)] /\ dead' \subseteq Conn
      /\ \A d \in Conn : queue'[d] # <<>> => queue[d] # <<>>
  <2>1. CASE UNCHANGED <<queue, dead>>
    BY <2>1 DEF TypeOK
  <2>2. CASE dead' = dead \cup {c} /\ queue' = [queue EXCEPT ![c] = <<>>]
    <3>1. <<>> \in Seq(Xid)
      OBVIOUS
    <3> QED BY <2>2, <3>1 DEF TypeOK
  <2> QED BY <2>1, <2>2 DEF Finish, Fail, Panic
<1>2. out' \in [Conn -> Seq(Xid \cup {Error})]
  BY <1>0, Emits DEF Finish, Fail, Panic, TypeOK
<1>3. PICK e \in Entry : tracker' = [tracker EXCEPT ![k] = e]
  <2>1. tracker = [tracker EXCEPT ![k] = tracker[k]]
    BY DEF TypeOK
  <2>2. tracker[k] \in Entry
    BY <1>0 DEF TypeOK
  <2> QED BY <2>1, <2>2, Entries DEF Finish, Fail, Panic, KeyOf
<1>4. /\ ran' \in [Key -> 0..Retention \cup {None}]
      /\ \A j \in Key : j # k => ran'[j] = ran[j]
      /\ \/ ran'[k] = None
         \/ ran'[k] = 0 /\ tracker'[k] = Completed(0)
  <2>1. ran[k] = None
    BY <1>0, Entries DEF Known, TypeOK
  <2>2. CASE ran' = ran
    <3> HIDE DEF k
    <3>1. ran' \in [Key -> 0..Retention \cup {None}]
      BY <2>2 DEF TypeOK
    <3> QED BY <2>1, <2>2, <3>1
  <2>3. CASE Finish(c)
    <3>1. ran' = [ran EXCEPT ![k] = 0] /\ tracker' = [tracker EXCEPT ![k] = Completed(0)]
      BY <2>3 DEF Finish, KeyOf
    <3>2. 0 \in 0..Retention
      BY RpcConstants
    <3> HIDE DEF k
    <3> QED BY <1>0, <3>1, <3>2 DEF TypeOK
  <2> QED BY <2>2, <2>3 DEF Fail, Panic
<1>5. ASSUME NEW d \in Conn, serving'[d] # None
      PROVE  d # c /\ serving'[d] = serving[d] /\ KeyOf(d) # k
  BY <1>0, <1>5 DEF TypeOK, Known
<1>6. ASSUME NEW d \in Conn, serving'[d] # None
      PROVE  tracker'[<<serving'[d], peer'[d]>>] = InProgress
  BY <1>0, <1>3, <1>5, <1>6 DEF TypeOK, KeyOf
<1>7. TypeOK'
  BY <1>0, <1>1, <1>2, <1>3, <1>4, <1>6 DEF TypeOK
<1>8. \A d, b \in Conn : serving'[d] # None /\ d # b => KeyOf(d)' # KeyOf(b)'
  BY <1>0, <1>5, RpcConstants DEF Known, KeyOf, TypeOK
<1>9. \A j \in Key : ran'[j] # None => tracker'[j] = Completed(ran'[j])
  BY <1>3, <1>4 DEF Known, TypeOK
<1>10. Known'
  BY <1>0, <1>1, <1>5, <1>8, <1>9 DEF Known
<1> QED BY <1>7, <1>10

LEMMA TickStep ==
  ASSUME RpcInv, Tick
  PROVE  RpcInv'
<1> USE DEF RpcInv
<1>1. \A n \in Age : Older(n) \in Age
  BY RpcConstants DEF Age, Older
<1>2. ASSUME NEW k \in Key
      PROVE  /\ tracker'[k] \in Entry
             /\ tracker[k] = InProgress => tracker'[k] = InProgress
             /\ ran'[k] \in 0..Retention \cup {None}
             /\ ran'[k] # None => tracker'[k] = Completed(ran'[k])
  <2>1. tracker[k] \in Entry
    BY DEF TypeOK
  <2>2. tracker'[k] = IF tracker[k].state = "completed"
                      THEN Completed(Older(tracker[k].age)) ELSE tracker[k]
    BY DEF Tick
  <2>3. tracker[k] \in {NoEntry, InProgress} \/ \E n \in Age : tracker[k] = Completed(n)
    BY <2>1 DEF Entry
  <2>4. tracker'[k] \in Entry /\ (tracker[k] = InProgress => tracker'[k] = InProgress)
    BY <1>1, <2>1, <2>2, <2>3, Entries
  <2>5. ran'[k] = IF ran[k] \in 0..(Retention - 1) THEN ran[k] + 1 ELSE None
    BY DEF Tick
  <2>6. ASSUME ran'[k] # None PROVE ran'[k] \in 0..Retention /\ tracker'[k] = Completed(ran'[k])
    <3>1. ran[k] \in 0..(Retention - 1) /\ ran'[k] = ran[k] + 1
      BY <2>5, <2>6
    <3>2. ran[k] \in Age /\ ran[k] # None /\ Older(ran[k]) = ran[k] + 1 /\ ran'[k] \in 0..Retention
      BY <3>1, RpcConstants DEF Age, Older
    <3>3. tracker[k] = Completed(ran[k])
      BY <3>2 DEF Known
    <3>4. tracker[k].state = "completed" /\ tracker[k].age = ran[k]
      BY <3>2, <3>3, Entries
    <3> QED BY <2>2, <3>1, <3>2, <3>4
  <2> QED BY <2>4, <2>6
<1>3. UNCHANGED <<peer, open, queue, serving, out, dead, answered>>
  BY DEF Tick
<1>4. swept' \in 0..Interval
  <2>1. Interval \in Nat
    BY Entries
  <2> QED BY <2>1 DEF Tick, TypeOK
<1>5. tracker' \in [Key -> Entry] /\ ran' \in [Key -> 0..Retention \cup {None}]
  BY <1>2 DEF Tick
<1>6. TypeOK'
  BY <1>2, <1>3, <1>4, <1>5 DEF TypeOK, Known, Key
<1>7. Known'
  BY <1>2, <1>3 DEF Known, KeyOf
<1> QED BY <1>6, <1>7

LEMMA RpcStepInv == RpcInv /\ [Next]_vars => RpcInv'
<1> SUFFICES ASSUME RpcInv, [Next]_vars PROVE RpcInv'
  OBVIOUS
<1>1. CASE UNCHANGED vars
  BY <1>1 DEF vars, RpcInv, TypeOK, Known, KeyOf
<1>2. CASE Next
  BY <1>2, SocketStep, CheckStep, EndStep, TickStep DEF Next
<1> QED BY <1>1, <1>2

-----------------------------------------------------------------------------
(* The theorems. *)

\* The state of the connections is well formed, and a call that is being
\* executed is in progress for the tracker, however long it takes.
THEOREM RpcTypes == Spec => []TypeOK
<1>1. RpcInv => TypeOK
  BY DEF RpcInv
<1> QED BY <1>1, RpcInitInv, RpcStepInv, PTL DEF Spec

\* A call that a client address sends again is not executed again while it is
\* executed, nor until its last reply is older than the retention period.
THEOREM ExecutedOnce == Spec => AtMostOnce
<1>1. RpcInv /\ [Next]_vars =>
        [\A c \in Conn, x \in Xid : Begins(c, x) =>
           /\ \A d \in Conn : serving[d] = x => peer[d] # peer[c]
           /\ ran[<<x, peer[c]>>] = None]_vars
  <2> SUFFICES ASSUME RpcInv, Next, NEW c \in Conn, NEW x \in Xid, Begins(c, x)
               PROVE  /\ \A d \in Conn : serving[d] = x => peer[d] # peer[c]
                      /\ ran[<<x, peer[c]>>] = None
    BY DEF vars
  <2> DEFINE k == <<x, peer[c]>>
  <2>1. Check(c) /\ x = Head(queue[c]) /\ Checked[k] = NoEntry
    <3>1. \E d \in Conn : Check(d) \/ Finish(d) \/ Fail(d) \/ Panic(d)
      BY DEF Next, Begins, Close, Deliver, Ended, Accept, Send, Tick
    <3>2. ASSUME NEW d \in Conn, Finish(d) \/ Fail(d) \/ Panic(d) PROVE FALSE
      BY <3>2, RpcConstants DEF Finish, Fail, Panic, Begins, RpcInv, TypeOK
    <3>3. PICK d \in Conn : Check(d)
      BY <3>1, <3>2
    <3>4. serving' = [serving EXCEPT ![d] = Head(queue[d])] /\ Checked[<<Head(queue[d]), peer[d]>>] = NoEntry
      BY <3>3 DEF Check, Begins
    <3>5. d = c /\ x = Head(queue[c])
      BY <3>4 DEF Begins, RpcInv, TypeOK
    <3> QED BY <3>3, <3>4, <3>5
  <2>2. k \in Key
    BY <2>1, Taken
  <2>3. ran[k] = None
    BY <2>1, <2>2, CheckedIs, Entries DEF RpcInv, TypeOK
  <2>4. ASSUME NEW d \in Conn, serving[d] = x, peer[d] = peer[c] PROVE FALSE
    <3>1. tracker[k] = InProgress
      BY <2>4, RpcConstants DEF RpcInv, TypeOK
    <3> QED BY <2>1, <2>2, <3>1, CheckedIs, Entries
  <2> QED BY <2>3, <2>4
<1> QED BY <1>1, RpcInitInv, RpcStepInv, PTL DEF Spec, AtMostOnce
=============================================================================
