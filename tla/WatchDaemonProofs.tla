------------------------- MODULE WatchDaemonProofs -------------------------
(***************************************************************************)
(* Theorems about WatchDaemon, for any number of daemons and of candidate  *)
(* mount points and for any faults: daemons that are given the same port   *)
(* never disturb each other while their servers last.  That they have one  *)
(* port is an assumption where it is needed: daemons on two ports share    *)
(* the mount points, and the second one clears what the first one serves.  *)
(* A daemon whose server has ended by itself has lost the port and goes    *)
(* on: the theorems say what it may do to the others.                      *)
(***************************************************************************)
EXTENDS WatchDaemon, TLAPS

SamePort == \A d, e \in Daemon : Port[d] = Port[e]

Serves(d) == pc[d] \notin {"new", "bind", "exited"}

\* A session is opened by connect and live only after attach.
Sessions ==
  \A d \in Daemon :
    /\ pc[d] = "attach" => sess[d] \in {"opened", "reset", "dead"}
    /\ pc[d] = "connect" => sess[d] = "none"
    /\ sess[d] = "opened" => pc[d] = "attach"

\* A daemon that serves has the port, unless its server has ended.
Locks == \A d \in Daemon \ lost : Serves(d) => holder[Port[d]] = d

\* Who serves a mount had its server spawned, and somebody that is not about
\* to mount again knows it: the server itself or one that has lost its own.
Mounts ==
  \A d \in Daemon, p \in Path :
    mounts[p] = d =>
      /\ Spawned(d) \/ pc[d] = "exited"
      /\ Running(d) => \E e \in {d} \cup lost :
                        mounted[e] /\ used[e] = p /\ pc[e] \notin {"reclear", "mount"}

DaemonInv == TypeOK /\ Sessions /\ Locks /\ Mounts

LEMMA DaemonInitInv == Init => DaemonInv
BY WatchConstants DEF Init, DaemonInv, TypeOK, PC, Sessions, Locks, Serves, Mounts, Running, Spawned

\* What no step of a daemon does to another.
Others(d) == \A e \in Daemon \ {d} :
  pc'[e] = pc[e] /\ sess'[e] = sess[e]

LEMMA Going ==
  ASSUME TypeOK, NEW d \in Daemon, NEW l \in PC, Goto(d, l)
  PROVE  pc' \in [Daemon -> PC] /\ pc'[d] = l /\ \A e \in Daemon : e # d => pc'[e] = pc[e]
BY DEF Goto, TypeOK

LEMMA Dropping ==
  ASSUME TypeOK, NEW d \in Daemon, DropSession(d)
  PROVE  /\ sess' \in [Daemon -> {"none", "opened", "live", "reset", "dead"}] /\ claim' \in Daemon \cup {None}
         /\ sess'[d] = "none" /\ \A e \in Daemon : e # d => sess'[e] = sess[e]
         /\ \A e \in Daemon : (sess'[e] \in {"opened", "live", "reset"}) = (claim' = e)
BY WatchConstants DEF DropSession, TypeOK

\* The mounts stay known when a daemon goes on to mount only what it has lost.
LEMMA MountsKept ==
  ASSUME DaemonInv, NEW d \in Daemon, \A e \in Daemon \ {d} : pc'[e] = pc[e],
         UNCHANGED <<lost, mounted, used>>, \A p \in Path : mounts'[p] \in {mounts[p], None},
         Spawned(d) \/ pc[d] = "exited" => Spawned(d)' \/ pc'[d] = "exited",
         pc[d] = "exited" => pc'[d] = "exited",
         pc'[d] \in {"reclear", "mount"}
           => pc[d] \in {"reclear", "mount"} \/ ~(mounted[d] /\ Alive(used[d]))
  PROVE  Mounts'
<1> SUFFICES ASSUME NEW f \in Daemon, NEW p \in Path, mounts'[p] = f
             PROVE  /\ Spawned(f)' \/ pc'[f] = "exited"
                    /\ Running(f)' => \E e \in {f} \cup lost' :
                          mounted'[e] /\ used'[e] = p /\ pc'[e] \notin {"reclear", "mount"}
  BY DEF Mounts
<1>1. mounts[p] = f /\ (Spawned(f) \/ pc[f] = "exited")
  BY WatchConstants DEF DaemonInv, Mounts
<1>2. Spawned(f)' \/ pc'[f] = "exited"
  BY <1>1 DEF Spawned
<1>3. ASSUME Running(f)'
      PROVE  \E e \in {f} \cup lost' :
               mounted'[e] /\ used'[e] = p /\ pc'[e] \notin {"reclear", "mount"}
  <2>1. Running(f)
    BY <1>1, <1>3 DEF Running, Spawned
  <2>2. PICK e \in {f} \cup lost :
          mounted[e] /\ used[e] = p /\ pc[e] \notin {"reclear", "mount"}
    BY <1>1, <2>1 DEF DaemonInv, Mounts
  <2>3. e \in Daemon
    BY <2>2 DEF DaemonInv, TypeOK
  <2>4. Alive(used[e])
    BY <1>1, <2>1, <2>2, WatchConstants DEF Alive
  <2>5. pc'[e] \notin {"reclear", "mount"}
    BY <2>2, <2>3, <2>4
  <2> QED BY <2>2, <2>5
<1> QED BY <1>2, <1>3

\* The steps that change neither sessions nor mounts.
LEMMA StartStep ==
  ASSUME DaemonInv, NEW d \in Daemon,
         Start(d) \/ Bind(d) \/ Started(d) \/ Poll(d) \/ Backoff(d) \/
         Publish(d) \/ StopStatus(d) \/ Release(d)
  PROVE  DaemonInv'
<1> USE DEF DaemonInv
<1>1. CASE Start(d)
  <2>1. /\ pc[d] = "new" /\ pc'[d] = "bind"
    BY <1>1, Going DEF Start, PC
  <2>2. pc' \in [Daemon -> PC] /\ Others(d)
    BY <1>1, Going DEF Start, PC, Others, TypeOK
  <2>3. TypeOK'
    BY <1>1, <2>1, <2>2, WatchConstants DEF Start, world, TypeOK, Sessions
  <2>4. Sessions'
    BY <1>1, <2>1, <2>2 DEF Start, Sessions, Others, TypeOK
  <2>5. Locks'
    BY <1>1, <2>1, <2>2, WatchConstants DEF Start, world, Locks, Serves, Others, TypeOK, Running
  <2>6. Mounts'
    BY <1>1, <2>1, <2>2, MountsKept DEF Start, world, Spawned, Running, Others
  <2> QED BY <2>3, <2>4, <2>5, <2>6
<1>2. CASE Bind(d)
  <2>1. /\ pc[d] = "bind" /\ pc'[d] = "clear"
        /\ holder[Port[d]] = None /\ holder' = [holder EXCEPT ![Port[d]] = d]
    BY <1>2, Going DEF Bind, PC
  <2>2. pc' \in [Daemon -> PC] /\ Others(d)
    BY <1>2, Going DEF Bind, PC, Others, TypeOK
  <2>3. TypeOK'
    BY <1>2, <2>1, <2>2, WatchConstants DEF Bind, world, TypeOK, Sessions
  <2>4. Sessions'
    BY <1>2, <2>1, <2>2 DEF Bind, Sessions, Others, TypeOK
  <2>5. Locks'
    BY <1>2, <2>1, <2>2, WatchConstants DEF Bind, world, Locks, Serves, Others, TypeOK, Running
  <2>6. Mounts'
    BY <1>2, <2>1, <2>2, MountsKept DEF Bind, world, Spawned, Running, Others
  <2> QED BY <2>3, <2>4, <2>5, <2>6
<1>3. CASE Started(d)
  <2>1. /\ pc[d] = "started" /\ pc'[d] = "poll"
    BY <1>3, Going DEF Started, PC
  <2>2. pc' \in [Daemon -> PC] /\ Others(d)
    BY <1>3, Going DEF Started, PC, Others, TypeOK
  <2>3. TypeOK'
    BY <1>3, <2>1, <2>2, WatchConstants DEF Started, world, TypeOK, Sessions
  <2>4. Sessions'
    BY <1>3, <2>1, <2>2 DEF Started, Sessions, Others, TypeOK
  <2>5. Locks'
    BY <1>3, <2>1, <2>2, WatchConstants DEF Started, world, Locks, Serves, Others, TypeOK, Running
  <2>6. Mounts'
    BY <1>3, <2>1, <2>2, MountsKept DEF Started, world, Spawned, Running, Others
  <2> QED BY <2>3, <2>4, <2>5, <2>6
<1>4. CASE Poll(d)
  <2>1. /\ pc[d] = "poll" /\ pc'[d] \in {"detach", "probe", "connect"}
        /\ pc'[d] = "connect" => sess[d] \notin {"live", "reset", "dead"}
    <3>1. CASE Goto(d, "detach")
      BY <1>4, <3>1, Going DEF Poll, PC
    <3>2. CASE Attached(d) /\ Goto(d, "probe")
      BY <1>4, <3>2, Going DEF Poll, PC
    <3>3. CASE ~Attached(d) /\ Goto(d, "connect")
      BY <1>4, <3>3, Going DEF Poll, PC, Attached
    <3> QED BY <1>4, <3>1, <3>2, <3>3 DEF Poll
  <2>2. pc' \in [Daemon -> PC] /\ Others(d)
    BY <1>4, Going DEF Poll, PC, Others, TypeOK
  <2>3. TypeOK'
    BY <1>4, <2>1, <2>2, WatchConstants DEF Poll, world, TypeOK, Sessions
  <2>4. Sessions'
    BY <1>4, <2>1, <2>2 DEF Poll, Sessions, Others, TypeOK
  <2>5. Locks'
    BY <1>4, <2>1, <2>2, WatchConstants DEF Poll, world, Locks, Serves, Others, TypeOK, Running
  <2>6. Mounts'
    BY <1>4, <2>1, <2>2, MountsKept DEF Poll, world, Spawned, Running, Others
  <2> QED BY <2>3, <2>4, <2>5, <2>6
<1>5. CASE Backoff(d)
  <2>1. /\ pc[d] = "backoff" /\ pc'[d] = "publish"
    BY <1>5, Going DEF Backoff, PC
  <2>2. pc' \in [Daemon -> PC] /\ Others(d)
    BY <1>5, Going DEF Backoff, PC, Others, TypeOK
  <2>3. TypeOK'
    BY <1>5, <2>1, <2>2, WatchConstants DEF Backoff, world, TypeOK, Sessions
  <2>4. Sessions'
    BY <1>5, <2>1, <2>2 DEF Backoff, Sessions, Others, TypeOK
  <2>5. Locks'
    BY <1>5, <2>1, <2>2, WatchConstants DEF Backoff, world, Locks, Serves, Others, TypeOK, Running
  <2>6. Mounts'
    BY <1>5, <2>1, <2>2, MountsKept DEF Backoff, world, Spawned, Running, Others
  <2> QED BY <2>3, <2>4, <2>5, <2>6
<1>6. CASE Publish(d)
  <2>1. /\ pc[d] = "publish" /\ pc'[d] = "poll"
    BY <1>6, Going DEF Publish, PC
  <2>2. pc' \in [Daemon -> PC] /\ Others(d)
    BY <1>6, Going DEF Publish, PC, Others, TypeOK
  <2>3. TypeOK'
    BY <1>6, <2>1, <2>2, WatchConstants DEF Publish, world, TypeOK, Sessions
  <2>4. Sessions'
    BY <1>6, <2>1, <2>2 DEF Publish, Sessions, Others, TypeOK
  <2>5. Locks'
    BY <1>6, <2>1, <2>2, WatchConstants DEF Publish, world, Locks, Serves, Others, TypeOK, Running
  <2>6. Mounts'
    BY <1>6, <2>1, <2>2, MountsKept DEF Publish, world, Spawned, Running, Others
  <2> QED BY <2>3, <2>4, <2>5, <2>6
<1>7. CASE StopStatus(d)
  <2>1. /\ pc[d] = "stopped" /\ pc'[d] = "release"
    BY <1>7, Going DEF StopStatus, PC
  <2>2. pc' \in [Daemon -> PC] /\ Others(d)
    BY <1>7, Going DEF StopStatus, PC, Others, TypeOK
  <2>3. TypeOK'
    BY <1>7, <2>1, <2>2, WatchConstants DEF StopStatus, world, TypeOK, Sessions
  <2>4. Sessions'
    BY <1>7, <2>1, <2>2 DEF StopStatus, Sessions, Others, TypeOK
  <2>5. Locks'
    BY <1>7, <2>1, <2>2, WatchConstants DEF StopStatus, world, Locks, Serves, Others, TypeOK, Running
  <2>6. Mounts'
    BY <1>7, <2>1, <2>2, MountsKept DEF StopStatus, world, Spawned, Running, Others
  <2> QED BY <2>3, <2>4, <2>5, <2>6
<1>8. CASE Release(d)
  <2>1. /\ pc[d] = "release" /\ pc'[d] = "exited"
    BY <1>8, Going DEF Release, PC
  <2>2. pc' \in [Daemon -> PC] /\ Others(d)
    BY <1>8, Going DEF Release, PC, Others, TypeOK
  <2>3. TypeOK'
    BY <1>8, <2>1, <2>2, WatchConstants DEF Release, FreePorts, world, TypeOK, Sessions
  <2>4. Sessions'
    BY <1>8, <2>1, <2>2 DEF Release, Sessions, Others, TypeOK
  <2>5. Locks'
    BY <1>8, <2>1, <2>2, WatchConstants DEF Release, FreePorts, world, Locks, Serves, Others, TypeOK, Running
  <2>6. Mounts'
    BY <1>8, <2>1, <2>2, MountsKept DEF Release, world, Spawned, Running, Others
  <2> QED BY <2>3, <2>4, <2>5, <2>6
<1> QED BY <1>1, <1>2, <1>3, <1>4, <1>5, <1>6, <1>7, <1>8

\* The steps of the session, and the end of the process.
LEMMA SessionStep ==
  ASSUME DaemonInv, NEW d \in Daemon,
         Connect(d) \/ Attach(d) \/ Probe(d) \/ StopDetach(d) \/ Kill(d)
  PROVE  DaemonInv'
<1> USE DEF DaemonInv
<1>1. CASE Connect(d)
  <2>1. /\ pc[d] = "connect" /\ pc'[d] \in {"attach", "publish"}
        /\ pc'[d] = "attach" => sess'[d] = "opened"
        /\ pc'[d] = "publish" => sess' = sess
    <3>1. CASE sess' = [sess EXCEPT ![d] = "opened"] /\ Goto(d, "attach")
      BY <1>1, <3>1, Going DEF Connect, PC, TypeOK
    <3>2. CASE Goto(d, "publish") /\ UNCHANGED <<claim, sess>>
      BY <1>1, <3>2, Going DEF Connect, PC
    <3> QED BY <1>1, <3>1, <3>2 DEF Connect
  <2>2. pc' \in [Daemon -> PC] /\ Others(d)
    BY <1>1, Going DEF Connect, PC, Others, TypeOK
  <2>3. TypeOK'
    BY <1>1, <2>1, <2>2, WatchConstants DEF Connect, world, TypeOK, Sessions
  <2>4. Sessions'
    BY <1>1, <2>1, <2>2 DEF Connect, Sessions, Others, TypeOK
  <2>5. Locks'
    BY <1>1, <2>1, <2>2, WatchConstants DEF Connect, world, Locks, Serves, Others, TypeOK, Running
  <2>6. Mounts'
    BY <1>1, <2>1, <2>2, MountsKept DEF Connect, world, Spawned, Running, Others
  <2> QED BY <2>3, <2>4, <2>5, <2>6
<1>2. CASE Attach(d)
  <2>1. /\ pc[d] = "attach" /\ pc'[d] \in {"publish", "reclear"}
        /\ sess'[d] \in {"live", "reset", "dead", "none"}
    BY <1>2, Going, Dropping DEF Attach, PC, Sessions, TypeOK
  <2>2. pc' \in [Daemon -> PC] /\ Others(d)
    BY <1>2, Going, Dropping DEF Attach, PC, Others, TypeOK
  <2>3. TypeOK'
    BY <1>2, <2>1, <2>2, Dropping, WatchConstants DEF Attach, world, TypeOK, Sessions
  <2>4. Sessions'
    BY <1>2, <2>1, <2>2 DEF Attach, Sessions, Others, TypeOK
  <2>5. Locks'
    BY <1>2, <2>1, <2>2, WatchConstants DEF Attach, world, Locks, Serves, Others, TypeOK, Running
  <2>6. Mounts'
    <3>1. pc'[d] = "reclear" => ~(mounted[d] /\ Alive(used[d]))
      BY <1>2, <2>1, Going DEF Attach, PC
    <3> QED BY <1>2, <2>1, <2>2, <3>1, MountsKept DEF Attach, world, Spawned, Others
  <2> QED BY <2>3, <2>4, <2>5, <2>6
<1>3. CASE Probe(d)
  <2>1. /\ pc[d] = "probe" /\ pc'[d] = "publish" /\ sess'[d] \in {sess[d], "none"}
    BY <1>3, Going, Dropping DEF Probe, PC, TypeOK
  <2>2. pc' \in [Daemon -> PC] /\ Others(d)
    BY <1>3, Going, Dropping DEF Probe, PC, Others, TypeOK
  <2>3. TypeOK'
    BY <1>3, <2>1, <2>2, Dropping, WatchConstants DEF Probe, world, TypeOK, Sessions
  <2>4. Sessions'
    BY <1>3, <2>1, <2>2 DEF Probe, Sessions, Others, TypeOK
  <2>5. Locks'
    BY <1>3, <2>1, <2>2, WatchConstants DEF Probe, world, Locks, Serves, Others, TypeOK, Running
  <2>6. Mounts'
    BY <1>3, <2>1, <2>2, MountsKept DEF Probe, world, Spawned, Running, Others
  <2> QED BY <2>3, <2>4, <2>5, <2>6
<1>4. CASE StopDetach(d)
  <2>1. /\ pc[d] = "detach" /\ pc'[d] \in {"unmount", "stopped"} /\ sess'[d] = "none"
    BY <1>4, Going, Dropping DEF StopDetach, PC, TypeOK
  <2>2. pc' \in [Daemon -> PC] /\ Others(d)
    BY <1>4, Going, Dropping DEF StopDetach, PC, Others, TypeOK
  <2>3. TypeOK'
    BY <1>4, <2>1, <2>2, Dropping, WatchConstants DEF StopDetach, world, TypeOK, Sessions
  <2>4. Sessions'
    BY <1>4, <2>1, <2>2 DEF StopDetach, Sessions, Others, TypeOK
  <2>5. Locks'
    BY <1>4, <2>1, <2>2, WatchConstants DEF StopDetach, world, Locks, Serves, Others, TypeOK, Running
  <2>6. Mounts'
    BY <1>4, <2>1, <2>2, MountsKept DEF StopDetach, world, Spawned, Running, Others
  <2> QED BY <2>3, <2>4, <2>5, <2>6
<1>5. CASE Kill(d)
  <2>1. /\ Running(d) /\ pc'[d] = "exited" /\ sess'[d] = "none"
    BY <1>5, Going, Dropping DEF Kill, PC, TypeOK
  <2>2. pc' \in [Daemon -> PC] /\ Others(d)
    BY <1>5, Going, Dropping DEF Kill, PC, Others, TypeOK
  <2>3. TypeOK'
    BY <1>5, <2>1, <2>2, Dropping, WatchConstants DEF Kill, FreePorts, world, TypeOK, Sessions
  <2>4. Sessions'
    BY <1>5, <2>1, <2>2 DEF Kill, Sessions, Others, TypeOK
  <2>5. Locks'
    BY <1>5, <2>1, <2>2, WatchConstants DEF Kill, FreePorts, world, Locks, Serves, Others, TypeOK, Running
  <2>6. Mounts'
    BY <1>5, <2>1, <2>2, MountsKept DEF Kill, world, Spawned, Running, Others
  <2> QED BY <2>3, <2>4, <2>5, <2>6
<1> QED BY <1>1, <1>2, <1>3, <1>4, <1>5

\* The steps of the mount.
LEMMA MountStep ==
  ASSUME DaemonInv, NEW d \in Daemon,
         Clear(d) \/ Mount(d) \/ StopUnmount(d)
  PROVE  DaemonInv'
<1> USE DEF DaemonInv
<1>1. CASE Clear(d)
  <2>1. /\ <<pc[d], pc'[d]>> \in {<<"clear", "started">>, <<"reclear", "mount">>}
        /\ \A p \in Path : mounts'[p] \in {mounts[p], None}
    <3>1. <<pc[d], pc'[d]>> \in {<<"clear", "started">>, <<"reclear", "mount">>}
      BY <1>1, Going DEF Clear, PC
    <3>2. \A p \in Path : mounts'[p] \in {mounts[p], None}
      BY <1>1 DEF Clear
    <3> QED BY <3>1, <3>2
  <2>2. pc' \in [Daemon -> PC] /\ Others(d)
    BY <1>1, Going DEF Clear, PC, Others, TypeOK
  <2>3. TypeOK'
    BY <1>1, <2>1, <2>2, WatchConstants DEF Clear, world, TypeOK, Sessions
  <2>4. Sessions'
    BY <1>1, <2>1, <2>2 DEF Clear, Sessions, Others, TypeOK
  <2>5. Locks'
    BY <1>1, <2>1, <2>2, WatchConstants DEF Clear, world, Locks, Serves, Others, TypeOK, Running
  <2>6. Mounts'
    BY <1>1, <2>1, <2>2, MountsKept DEF Clear, world, Spawned, Running, Others
  <2> QED BY <2>3, <2>4, <2>5, <2>6
<1>2. CASE Mount(d)
  <2>1. /\ pc[d] = "mount" /\ pc'[d] \in {"publish", "backoff"}
    BY <1>2, Going DEF Mount, PC
  <2>2. pc' \in [Daemon -> PC] /\ Others(d)
    BY <1>2, Going DEF Mount, PC, Others, TypeOK
  <2>3. TypeOK'
    <3>1. \/ \E p \in Path, e \in Daemon : /\ mounts' = [mounts EXCEPT ![p] = e]
                           /\ mounted' = [mounted EXCEPT ![d] = TRUE] /\ used' = [used EXCEPT ![d] = p]
          \/ UNCHANGED <<mounts, mounted, used>>
      BY <1>2 DEF Mount, Free, ServerOf
    <3>2. /\ mounts' \in [Path -> Daemon \cup {None}]
          /\ mounted' \in [Daemon -> BOOLEAN] /\ used' \in [Daemon -> Path \cup {None}]
      <4>1. ASSUME NEW p \in Path, NEW e \in Daemon, mounts' = [mounts EXCEPT ![p] = e],
                   mounted' = [mounted EXCEPT ![d] = TRUE], used' = [used EXCEPT ![d] = p]
            PROVE  /\ mounts' \in [Path -> Daemon \cup {None}]
                   /\ mounted' \in [Daemon -> BOOLEAN] /\ used' \in [Daemon -> Path \cup {None}]
        BY <4>1 DEF TypeOK
      <4>2. CASE UNCHANGED <<mounts, mounted, used>>
        BY <4>2 DEF TypeOK
      <4> QED BY <3>1, <4>1, <4>2
    <3> QED BY <1>2, <2>2, <3>2 DEF Mount, world, TypeOK
  <2>4. Sessions'
    BY <1>2, <2>1, <2>2 DEF Mount, Sessions, Others, TypeOK
  <2>5. Locks'
    BY <1>2, <2>1, <2>2, WatchConstants DEF Mount, world, Locks, Serves, Others, TypeOK, Running
  <2>6. Mounts'
    <3>1. CASE UNCHANGED <<mounts, mounted, used>>
      BY <1>2, <2>1, <2>2, <3>1, MountsKept DEF Mount, world, Spawned, Others
    <3>2. ASSUME NEW p \in Free, NEW e \in ServerOf(d), mounts' = [mounts EXCEPT ![p] = e],
                 mounted' = [mounted EXCEPT ![d] = TRUE], used' = [used EXCEPT ![d] = p],
                 Goto(d, "publish")
          PROVE  Mounts'
      <4> DEFINE Known(f, q) == \E x \in {f} \cup lost' :
                   mounted'[x] /\ used'[x] = q /\ pc'[x] \notin {"reclear", "mount"}
      <4> SUFFICES ASSUME NEW f \in Daemon, NEW q \in Path, mounts'[q] = f
                   PROVE  /\ Spawned(f)' \/ pc'[f] = "exited"
                          /\ Running(f)' => Known(f, q)
        BY DEF Mounts
      <4>1. /\ lost' = lost /\ pc'[d] = "publish" /\ p \in Path /\ e \in Daemon
            /\ holder[Port[d]] = e /\ Spawned(e) /\ mounted'[d] /\ used'[d] = p
        BY <1>2, <3>2, Going DEF Mount, world, Free, ServerOf, PC, TypeOK
      <4>2. CASE q = p
        <5>1. f = e /\ d \in {f} \cup lost
          BY <2>1, <3>2, <4>1, <4>2 DEF Locks, Serves, TypeOK
        <5>2. Spawned(f)'
          BY <2>2, <4>1, <5>1 DEF Spawned, Others
        <5> QED BY <4>1, <4>2, <5>1, <5>2
      <4>3. CASE q # p
        <5>1. mounts[q] = f
          BY <3>2, <4>1, <4>3 DEF TypeOK
        <5>2. Spawned(f)' \/ pc'[f] = "exited"
          BY <2>1, <2>2, <4>1, <5>1 DEF Mounts, Spawned, Others
        <5>3. ASSUME Running(f)' PROVE Known(f, q)
          <6>1. Running(f)
            BY <2>1, <2>2, <5>3 DEF Running, Others
          <6>2. PICK x \in {f} \cup lost :
                  mounted[x] /\ used[x] = q /\ pc[x] \notin {"reclear", "mount"}
            BY <5>1, <6>1 DEF Mounts
          <6>3. x \in Daemon /\ x # d
            BY <2>1, <6>2 DEF TypeOK
          <6> QED BY <2>2, <3>2, <4>1, <6>2, <6>3 DEF Others, TypeOK
        <5> QED BY <5>2, <5>3
      <4> QED BY <4>2, <4>3
    <3> QED BY <1>2, <3>1, <3>2 DEF Mount
  <2> QED BY <2>3, <2>4, <2>5, <2>6
<1>3. CASE StopUnmount(d)
  <2>1. /\ pc[d] = "unmount" /\ pc'[d] = "stopped"
        /\ \A p \in Path : mounts'[p] \in {mounts[p], None}
    BY <1>3, Going DEF StopUnmount, PC, TypeOK
  <2>2. pc' \in [Daemon -> PC] /\ Others(d)
    BY <1>3, Going DEF StopUnmount, PC, Others, TypeOK
  <2>3. TypeOK'
    BY <1>3, <2>1, <2>2, WatchConstants DEF StopUnmount, world, TypeOK, Sessions
  <2>4. Sessions'
    BY <1>3, <2>1, <2>2 DEF StopUnmount, Sessions, Others, TypeOK
  <2>5. Locks'
    BY <1>3, <2>1, <2>2, WatchConstants DEF StopUnmount, world, Locks, Serves, Others, TypeOK, Running
  <2>6. Mounts'
    BY <1>3, <2>1, <2>2, MountsKept DEF StopUnmount, world, Spawned, Running, Others
  <2> QED BY <2>3, <2>4, <2>5, <2>6
<1> QED BY <1>1, <1>2, <1>3

\* What the surroundings do to the sessions and to the ports.
SessionsEnd ==
  /\ sess' \in [Daemon -> {"none", "opened", "live", "reset", "dead"}]
  /\ claim' \in Daemon \cup {None}
  /\ \A d \in Daemon : (sess'[d] \in {"opened", "live", "reset"}) = (claim' = d)
  /\ \A d \in Daemon : sess'[d] = sess[d] \/ (sess'[d] \in {"reset", "dead"} /\ sess[d] # "none")

PortsKept ==
  /\ lost' \subseteq Daemon /\ lost \subseteq lost'
  /\ holder' \in [Ports -> Daemon \cup {None}]
  /\ \A d \in Daemon \ lost', p \in Ports : holder[p] = d => holder'[p] = d

\* The surroundings change the phone, sessions, servers and mounts.
LEMMA WorldStep ==
  ASSUME DaemonInv,
         \/ \E d \in Daemon : ServerEnds(d) \/ Reset(d)
         \/ Plug \/ Unplug \/ Hang \/ (\E p \in Path : Eject(p))
  PROVE  DaemonInv'
<1> USE DEF DaemonInv
<1>1. UNCHANGED <<pc, status, mounted, used>>
  BY DEF ServerEnds, Reset, Plug, Unplug, Hang, Eject, world
<1>2. mounts' \in [Path -> Daemon \cup {None}] /\ \A p \in Path : mounts'[p] \in {mounts[p], None}
  BY DEF ServerEnds, Reset, Plug, Unplug, Hang, Eject, world, TypeOK
<1>3. SessionsEnd
  <2>1. CASE Unplug
    BY <2>1, WatchConstants DEF SessionsEnd, Unplug, TypeOK
  <2>2. ASSUME NEW d \in Daemon, Reset(d) PROVE SessionsEnd
    BY <2>2, WatchConstants DEF SessionsEnd, Reset, TypeOK
  <2>3. CASE UNCHANGED <<sess, claim>>
    BY <2>3 DEF SessionsEnd, TypeOK
  <2> QED BY <2>1, <2>2, <2>3 DEF ServerEnds, Plug, Hang, Eject
<1>4. phone' \in {"absent", "present", "hung", "failing"}
  BY DEF ServerEnds, Reset, Plug, Unplug, Hang, Eject, world, TypeOK
<1>5. PortsKept
  <2>1. ASSUME NEW d \in Daemon, ServerEnds(d) PROVE PortsKept
    BY <2>1 DEF PortsKept, ServerEnds, FreePorts, TypeOK
  <2>2. CASE UNCHANGED <<lost, holder>>
    BY <2>2 DEF PortsKept, TypeOK
  <2> QED BY <2>1, <2>2 DEF Reset, Plug, Unplug, Hang, Eject, world
<1>6. TypeOK'
  BY <1>1, <1>2, <1>3, <1>4, <1>5 DEF SessionsEnd, PortsKept, TypeOK
<1>7. Sessions'
  BY <1>1, <1>3 DEF SessionsEnd, Sessions, TypeOK
<1>8. Locks'
  BY <1>1, <1>5, WatchConstants DEF PortsKept, Locks, Serves
<1>9. Mounts'
  <2> SUFFICES ASSUME NEW d \in Daemon, NEW p \in Path, mounts'[p] = d
               PROVE  /\ Spawned(d)' \/ pc'[d] = "exited"
                      /\ Running(d)' => \E e \in {d} \cup lost' :
                            mounted'[e] /\ used'[e] = p /\ pc'[e] \notin {"reclear", "mount"}
    BY DEF Mounts
  <2>1. mounts[p] = d
    BY <1>2, WatchConstants
  <2> QED BY <1>1, <1>5, <2>1 DEF PortsKept, Mounts, Spawned, Running
<1> QED BY <1>6, <1>7, <1>8, <1>9

LEMMA DaemonStepInv == DaemonInv /\ [Next]_vars => DaemonInv'
<1> SUFFICES ASSUME DaemonInv, [Next]_vars PROVE DaemonInv'
  OBVIOUS
<1>1. CASE UNCHANGED vars
  BY <1>1 DEF vars, DaemonInv, TypeOK, Sessions, Locks, Serves, Mounts, Running, Spawned
<1>2. CASE Next
  BY <1>2, StartStep, SessionStep, MountStep, WorldStep DEF Next, Step
<1> QED BY <1>1, <1>2

\* With one port one daemon serves, of those that have not lost their server.
LEMMA OneServes ==
  ASSUME DaemonInv, SamePort, NEW d \in Daemon \ lost, NEW e \in Daemon \ lost,
         Serves(d), Serves(e)
  PROVE  d = e
BY DEF DaemonInv, Locks, SamePort

-----------------------------------------------------------------------------
(* The theorems. *)

\* The state of the daemons is well formed; in particular the interface is
\* claimed by the one whose session the phone still knows.
THEOREM DaemonTypes == Spec => []TypeOK
<1>1. DaemonInv => TypeOK
  BY DEF DaemonInv
<1> QED BY <1>1, DaemonInitInv, DaemonStepInv, PTL DEF Spec

\* A daemon knows the mount it serves, also after failed unmounts and
\* remounts, and serves no second one; but for what a daemon that has lost its
\* server mounts on its port.
THEOREM MountKnown == Spec => []OwnMountKnown
<1>1. DaemonInv => OwnMountKnown
  BY DEF DaemonInv, Mounts, OwnMountKnown
<1> QED BY <1>1, DaemonInitInv, DaemonStepInv, PTL DEF Spec

\* Outside of a signal and a kill only a session that is over, or a phone that
\* answers with errors, costs a daemon its session; a phone that is silent or
\* busy never does.
THEOREM SessionKept == Spec => HealthySessionKept
<1>1. DaemonInv /\ [Next]_vars =>
        [\A d \in Daemon :
           Attached(d) /\ sess'[d] = "none" /\ pc[d] # "detach" /\ pc'[d] # "exited"
             => \/ sess[d] = "dead"
                \/ phone # "hung" /\ (sess[d] = "reset" \/ phone = "failing")]_vars
  <2> SUFFICES ASSUME DaemonInv, Next, NEW d \in Daemon, Attached(d), sess'[d] = "none",
                      pc[d] # "detach", pc'[d] # "exited"
               PROVE  \/ sess[d] = "dead"
                      \/ phone # "hung" /\ (sess[d] = "reset" \/ phone = "failing")
    BY DEF vars
  <2> USE DEF DaemonInv
  <2>1. sess[d] \in {"live", "reset", "dead"} /\ pc[d] # "attach"
    BY DEF Attached
  <2>2. ASSUME NEW e \in Daemon, Attach(e) \/ Probe(e) \/ StopDetach(e) \/ Kill(e) PROVE e = d
    <3>1. sess' = sess \/ (\E s : sess' = [sess EXCEPT ![e] = s])
      BY <2>2 DEF Attach, Probe, StopDetach, Kill, DropSession
    <3> QED BY <2>1, <3>1 DEF TypeOK
  <2>3. ~Attach(d) /\ ~StopDetach(d)
    BY <2>1 DEF Attach, StopDetach
  <2>4. ~Kill(d)
    BY Going DEF Kill, PC
  <2>5. CASE Probe(d)
    <3>1. sess' # sess
      BY <2>1
    <3> QED BY <2>1, <2>5, <3>1 DEF Probe
  <2>6. ASSUME NEW e \in Daemon, Connect(e) \/ Reset(e) PROVE FALSE
    BY <2>1, <2>6 DEF Connect, Reset, TypeOK
  <2>7. ~Unplug
    BY <2>1 DEF Unplug
  <2> QED BY <2>1, <2>2, <2>3, <2>4, <2>5, <2>6, <2>7
    DEF Next, Step, Start, Bind, Clear, Started, Poll, Mount, Backoff, Publish,
        StopUnmount, StopStatus, Release, ServerEnds, Eject, Plug, Hang
<1> QED BY <1>1, DaemonInitInv, DaemonStepInv, PTL DEF Spec, HealthySessionKept

\* Daemons on one port clear no mount that another one serves, as long as
\* neither has lost its server.
THEOREM DeadCleared ==
  ASSUME SamePort
  PROVE  Spec => OnlyDeadCleared
<1>1. DaemonInv /\ [Next]_vars =>
        [\A d \in Daemon \ lost, p \in Path :
           (/\ pc[d] \in {"clear", "reclear"} /\ pc'[d] # pc[d]
            /\ mounts[p] \notin {None, d} \cup lost /\ mounts'[p] = None)
             => ~Running(mounts[p])]_vars
  <2> SUFFICES ASSUME DaemonInv, NEW d \in Daemon \ lost, NEW p \in Path,
                      pc[d] \in {"clear", "reclear"}, mounts[p] \notin {None, d} \cup lost,
                      Running(mounts[p])
               PROVE  FALSE
    BY DEF vars
  <2>1. mounts[p] \in Daemon \ lost
    BY DEF DaemonInv, TypeOK
  <2>2. Serves(mounts[p]) /\ Serves(d)
    BY <2>1 DEF DaemonInv, Mounts, Serves, Running, Spawned
  <2> QED BY <2>1, <2>2, OneServes
<1> QED BY <1>1, DaemonInitInv, DaemonStepInv, PTL DEF Spec, OnlyDeadCleared

\* With one port the status file is the one of the daemon that serves, unless
\* one that has lost its server wrote it.
THEOREM StatusTrue ==
  ASSUME SamePort
  PROVE  Spec => []StatusOfServer
<1>1. Init => StatusOfServer
  BY DEF Init, StatusOfServer, Spawned
<1>2. DaemonInv /\ StatusOfServer /\ [Next]_vars => StatusOfServer'
  <2> SUFFICES ASSUME DaemonInv, StatusOfServer, [Next]_vars, NEW d \in Daemon \ lost', Spawned(d)'
               PROVE  status' \in {d} \cup lost'
    BY DEF StatusOfServer
  <2>1. ASSUME NEW e \in Daemon, Started(e) \/ Publish(e) \/ StopStatus(e)
        PROVE  status' \in {d} \cup lost'
    <3>1. status' = e /\ Serves(e) /\ lost' = lost
      BY <2>1 DEF Started, Publish, StopStatus, Serves, world
    <3>2. e # d => Serves(d)
      BY <2>1 DEF Started, Publish, StopStatus, Goto, DaemonInv, TypeOK, Serves, Spawned
    <3>3. e \notin lost => e = d
      BY <3>1, <3>2, OneServes
    <3> QED BY <3>1, <3>3
  <2>2. ASSUME status' = status, lost \subseteq lost', Spawned(d) PROVE status' \in {d} \cup lost'
    BY <2>2 DEF StatusOfServer
  <2>3. ASSUME NEW e \in Daemon, Step(e) \/ Start(e) \/ Kill(e),
               ~(Started(e) \/ Publish(e) \/ StopStatus(e))
        PROVE  status' = status /\ lost' = lost /\ Spawned(d)
    <3>1. /\ status' = status /\ lost' = lost
          /\ e # d => pc'[d] = pc[d]
          /\ pc[e] \in {"new", "bind", "clear", "started", "exited"}
               => pc'[e] \in {"new", "bind", "clear", "started", "exited"}
      BY <2>3, Going DEF DaemonInv, Step, Start, Bind, Clear, Poll, Connect, Attach, Mount, Backoff,
         Probe, StopDetach, StopUnmount, Release, Kill, PC, world
    <3> QED BY <3>1 DEF Spawned
  <2>4. ASSUME UNCHANGED <<pc, status>>, lost \subseteq lost' PROVE status' \in {d} \cup lost'
    BY <2>2, <2>4 DEF Spawned
  <2> QED BY <2>1, <2>2, <2>3, <2>4
    DEF Next, ServerEnds, Reset, Eject, Plug, Unplug, Hang, vars, world
<1> QED BY <1>1, <1>2, DaemonInitInv, DaemonStepInv, PTL DEF Spec
=============================================================================
