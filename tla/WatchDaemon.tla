---------------------------- MODULE WatchDaemon ----------------------------
(***************************************************************************)
(* `pereprava watch` (crates/cli/src/mountcmd.rs): the daemon that keeps   *)
(* the phone's volume mounted while the phone comes and goes, with attach, *)
(* detach and test_session of the adapter, connect_first of the actor and  *)
(* mount of crates/nfs-mount/src/mount.rs.                                 *)
(*                                                                         *)
(* A daemon is one process, which is started, stopped by a signal or       *)
(* killed, never started again: its successor is another daemon.  A step   *)
(* is what a daemon does between two awaits.  Of the status file only who  *)
(* wrote it is told apart, and a signal is one that Poll meets.            *)
(***************************************************************************)
EXTENDS Naturals, Sequences, FiniteSets

CONSTANTS
  Daemon,
  Ports, Port,   \* Port[d]: the NFS port of d, its lock
  Path,          \* mount points: the one asked for is 1, its fallbacks 2, ...
  Faults,        \* "kill", "connect", "attach", "umount", "mount", "eject", "reset", "accept"
  MaxLost,       \* bound: how many servers end by themselves
  None

ASSUME WatchConstants ==
  /\ Port \in [Daemon -> Ports]
  /\ Path = 1..Cardinality(Path) /\ Path # {}
  /\ None \notin Daemon \cup Path

VARIABLES
  phone,   \* "absent", "present" or, plugged in, silent or busy ("hung") or
           \* answering with errors ("failing", as a locked phone does)
  claim,   \* whose process has the USB interface
  holder,  \* who listens on a port
  mounts,  \* the kernel's mount table: which process serves the mount
  status,  \* the status file: who wrote it last
  lost,    \* whose server task has ended by itself
  pc, sess,     \* of each daemon: where it is, its session
  mounted, used \* `mounted` and `used_path`

vars == <<phone, claim, holder, mounts, status, lost, pc, sess, mounted, used>>
world == <<phone, lost>>

PC == {"new", "bind", "clear", "started", "poll", "connect", "attach", "reclear", "mount", "backoff",
       "probe", "publish", "detach", "unmount", "stopped", "release", "exited"}

TypeOK ==
  /\ phone \in {"absent", "present", "hung", "failing"}
  /\ claim \in Daemon \cup {None} /\ holder \in [Ports -> Daemon \cup {None}]
  /\ mounts \in [Path -> Daemon \cup {None}]
  /\ status \in Daemon \cup {None} /\ lost \subseteq Daemon
  /\ pc \in [Daemon -> PC]
  /\ sess \in [Daemon -> {"none", "opened", "live", "reset", "dead"}]
  /\ mounted \in [Daemon -> BOOLEAN] /\ used \in [Daemon -> Path \cup {None}]
  \* Who has the interface has a session that was not unplugged.
  /\ \A d \in Daemon : (sess[d] \in {"opened", "live", "reset"}) = (claim = d)

Init ==
  /\ phone \in {"absent", "present"} /\ claim = None
  /\ holder = [p \in Ports |-> None] /\ mounts = [p \in Path |-> None]
  /\ status = None /\ lost = {}
  /\ pc = [d \in Daemon |-> "new"] /\ sess = [d \in Daemon |-> "none"]
  /\ mounted = [d \in Daemon |-> FALSE] /\ used = [d \in Daemon |-> None]

Running(d) == pc[d] \notin {"new", "exited"}
Spawned(d) == pc[d] \notin {"new", "bind", "clear", "started", "exited"}
Goto(d, l) == pc' = [pc EXCEPT ![d] = l]
Attached(d) == sess[d] \in {"live", "reset", "dead"} /\ pc[d] # "attach"

\* The session of d is dropped, and with it the interface.
DropSession(d) ==
  /\ sess' = [sess EXCEPT ![d] = "none"]
  /\ claim' = IF claim = d THEN None ELSE claim

\* The listener of d is closed.
FreePorts(d) == holder' = [p \in Ports |-> IF holder[p] = d THEN None ELSE holder[p]]

\* is_alive_mount: somebody serves what is mounted there.  A mount keeps its
\* connection, which is a task of its own, when the server's task ends.
Alive(p) == p # None /\ mounts[p] # None /\ Running(mounts[p])

-----------------------------------------------------------------------------
(* Starting: bind_nfs waits for the port; then the stale mounts go. *)

Start(d) ==
  /\ pc[d] = "new" /\ Goto(d, "bind")
  /\ UNCHANGED <<world, claim, holder, mounts, status, sess, mounted, used>>

\* Mutant: the mounts are cleared whether or not the port is free.
Bind_NoLock(d) ==
  /\ pc[d] = "bind"
  /\ holder' = [holder EXCEPT ![Port[d]] = IF @ = None THEN d ELSE @] /\ Goto(d, "clear")
  /\ UNCHANGED <<world, claim, mounts, status, sess, mounted, used>>

Bind(d) ==
  /\ pc[d] = "bind" /\ holder[Port[d]] = None
  /\ holder' = [holder EXCEPT ![Port[d]] = d] /\ Goto(d, "clear")
  /\ UNCHANGED <<world, claim, mounts, status, sess, mounted, used>>

\* clear_stale_mounts: every candidate in the mount table is force-unmounted,
\* or not, when that fails.
Clear(d) ==
  /\ \/ pc[d] = "clear" /\ Goto(d, "started")
     \/ pc[d] = "reclear" /\ Goto(d, "mount")
  /\ \E P \in SUBSET Path :
       /\ P # Path => "umount" \in Faults
       /\ mounts' = [p \in Path |-> IF p \in P THEN None ELSE mounts[p]]
  /\ UNCHANGED <<world, claim, holder, status, sess, mounted, used>>

Started(d) ==
  /\ pc[d] = "started" /\ Goto(d, "poll")
  /\ status' = d
  /\ UNCHANGED <<world, claim, holder, mounts, sess, mounted, used>>

-----------------------------------------------------------------------------
(* The loop. *)

\* The select: a signal that has come since the last one is only served here.
Poll(d) ==
  /\ pc[d] = "poll"
  /\ \/ Goto(d, "detach")
     \/ Goto(d, IF Attached(d) THEN "probe" ELSE "connect")
  /\ UNCHANGED <<world, claim, holder, mounts, status, sess, mounted, used>>

\* connect_first: a phone that does not answer the storage probe, or whose
\* interface is taken, is no phone.
Connect(d) ==
  /\ pc[d] = "connect"
  /\ \/ /\ phone = "present" /\ claim = None
        /\ claim' = d /\ sess' = [sess EXCEPT ![d] = "opened"] /\ Goto(d, "attach")
     \/ /\ phone # "present" \/ claim # None \/ "connect" \in Faults
        /\ Goto(d, "publish") /\ UNCHANGED <<claim, sess>>
  /\ UNCHANGED <<world, holder, mounts, status, mounted, used>>

\* Mutant: a device that could not be attached is not closed.
Attach_NoClose(d) ==
  /\ pc[d] = "attach"
  /\ \/ /\ sess' = [sess EXCEPT ![d] = IF @ = "opened" THEN "live" ELSE @]
        /\ Goto(d, IF mounted[d] /\ Alive(used[d]) THEN "publish" ELSE "reclear")
     \/ /\ "attach" \in Faults /\ sess' = [sess EXCEPT ![d] = "none"]
        /\ Goto(d, "publish")
  /\ UNCHANGED <<world, claim, holder, mounts, status, mounted, used>>

\* MtpNfs::attach; the device is closed when it fails.  The volume is mounted
\* when it is not mounted any more.
Attach(d) ==
  /\ pc[d] = "attach"
  /\ \/ /\ sess' = [sess EXCEPT ![d] = IF @ = "opened" THEN "live" ELSE @]
        /\ Goto(d, IF mounted[d] /\ Alive(used[d]) THEN "publish" ELSE "reclear")
        /\ UNCHANGED claim
     \/ "attach" \in Faults /\ DropSession(d) /\ Goto(d, "publish")
  /\ UNCHANGED <<world, holder, mounts, status, mounted, used>>

Free == {p \in Path : mounts[p] = None}

\* Who answers at the port of d: d itself, unless its server has ended.
ServerOf(d) == {e \in Daemon : holder[Port[d]] = e /\ Spawned(e)}

\* Mutant: the path asked for is remembered, not the one that was mounted.
Mount_AskedPath(d) ==
  /\ pc[d] = "mount"
  /\ \/ \E p \in Free, e \in ServerOf(d) :
          /\ \A q \in Free : p <= q
          /\ mounts' = [mounts EXCEPT ![p] = e]
          /\ mounted' = [mounted EXCEPT ![d] = TRUE] /\ used' = [used EXCEPT ![d] = 1]
          /\ Goto(d, "publish")
     \/ /\ Free = {} \/ ServerOf(d) = {} \/ "mount" \in Faults
        /\ Goto(d, "backoff") /\ UNCHANGED <<mounts, mounted, used>>
  /\ UNCHANGED <<world, claim, holder, status, sess>>

\* mount_export: the first candidate that is free, or none; what is mounted
\* there is whoever answers at the port.
Mount(d) ==
  /\ pc[d] = "mount"
  /\ \/ \E p \in Free, e \in ServerOf(d) :
          /\ \A q \in Free : p <= q
          /\ mounts' = [mounts EXCEPT ![p] = e]
          /\ mounted' = [mounted EXCEPT ![d] = TRUE] /\ used' = [used EXCEPT ![d] = p]
          /\ Goto(d, "publish")
     \/ /\ Free = {} \/ ServerOf(d) = {} \/ "mount" \in Faults
        /\ Goto(d, "backoff") /\ UNCHANGED <<mounts, mounted, used>>
  /\ UNCHANGED <<world, claim, holder, status, sess>>

\* A minute, in which no signal is served and no status written.
Backoff(d) ==
  /\ pc[d] = "backoff" /\ Goto(d, "publish")
  /\ UNCHANGED <<world, claim, holder, mounts, status, sess, mounted, used>>

\* Mutant: an error of the probe is taken for a slow answer as well.
Probe_NeverGone(d) ==
  /\ pc[d] = "probe" /\ Goto(d, "publish")
  /\ UNCHANGED <<world, claim, holder, mounts, status, sess, mounted, used>>

\* Mutant: a probe that times out is a phone that is gone.
Probe_TimeoutIsGone(d) ==
  /\ pc[d] = "probe" /\ Goto(d, "publish")
  /\ \/ sess[d] = "live" /\ phone = "present" /\ UNCHANGED <<claim, sess>>
     \/ /\ sess[d] # "live" \/ phone \in {"hung", "failing"}
        /\ DropSession(d)
  /\ UNCHANGED <<world, holder, mounts, status, mounted, used>>

\* test_session: an answer, a busy or stale one, and none within 5 s keep the
\* session; every other error ends it (MtpNfs::detach): of a session that is
\* over, or that the phone answers with.
Probe(d) ==
  /\ pc[d] = "probe" /\ Goto(d, "publish")
  /\ \/ /\ \/ sess[d] = "live" /\ phone \in {"present", "hung"}
           \/ sess[d] = "reset" /\ phone = "hung"
        /\ UNCHANGED <<claim, sess>>
     \/ /\ \/ sess[d] = "dead"
           \/ sess[d] = "reset" /\ phone # "hung"
           \/ sess[d] = "live" /\ phone = "failing"
        /\ DropSession(d)
  /\ UNCHANGED <<world, holder, mounts, status, mounted, used>>

\* write_status_file.
Publish(d) ==
  /\ pc[d] = "publish" /\ Goto(d, "poll")
  /\ status' = d
  /\ UNCHANGED <<world, claim, holder, mounts, sess, mounted, used>>

-----------------------------------------------------------------------------
(* Stopping. *)

StopDetach(d) ==
  /\ pc[d] = "detach" /\ DropSession(d)
  /\ Goto(d, IF mounted[d] THEN "unmount" ELSE "stopped")
  /\ UNCHANGED <<world, holder, mounts, status, mounted, used>>

\* force_unmount of used_path, whatever is mounted there.
StopUnmount(d) ==
  /\ pc[d] = "unmount" /\ Goto(d, "stopped")
  /\ \/ mounts' = [mounts EXCEPT ![used[d]] = None]
     \/ "umount" \in Faults /\ UNCHANGED mounts
  /\ UNCHANGED <<world, claim, holder, status, sess, mounted, used>>

\* Mutant: the server is given up before the status is written.
StopStatus_AfterServer(d) ==
  /\ \/ /\ pc[d] = "stopped" /\ Goto(d, "release") /\ FreePorts(d)
        /\ UNCHANGED status
     \/ /\ pc[d] = "release" /\ Goto(d, "exited")
        /\ status' = d /\ UNCHANGED holder
  /\ UNCHANGED <<world, claim, mounts, sess, mounted, used>>

StopStatus(d) ==
  /\ pc[d] = "stopped" /\ Goto(d, "release")
  /\ status' = d
  /\ UNCHANGED <<world, claim, holder, mounts, sess, mounted, used>>

\* The server task is aborted, and the process ends: its port is free.
Release(d) ==
  /\ pc[d] = "release" /\ Goto(d, "exited") /\ FreePorts(d)
  /\ UNCHANGED <<world, claim, mounts, status, sess, mounted, used>>

-----------------------------------------------------------------------------
(* The surroundings. *)

\* The process is killed; so it is by a signal that comes before the handler
\* is installed.
Kill(d) ==
  /\ Running(d)
  /\ "kill" \in Faults \/ pc[d] \in {"bind", "clear", "started"}
  /\ Goto(d, "exited") /\ DropSession(d) /\ FreePorts(d)
  /\ UNCHANGED <<world, mounts, status, mounted, used>>

\* The server task ends with an error of accept, and the daemon goes on.
ServerEnds(d) ==
  /\ "accept" \in Faults /\ Spawned(d) /\ d \notin lost /\ Cardinality(lost) < MaxLost
  /\ lost' = lost \cup {d} /\ FreePorts(d)
  /\ UNCHANGED <<phone, claim, mounts, status, pc, sess, mounted, used>>

Plug ==
  /\ phone = "absent" /\ phone' = "present"
  /\ UNCHANGED <<claim, holder, mounts, status, lost, pc, sess, mounted, used>>

\* A session is dead from then on, also when the phone is plugged in again.
Unplug ==
  /\ phone # "absent" /\ phone' = "absent" /\ claim' = None
  /\ sess' = [d \in Daemon |-> IF sess[d] = "none" THEN "none" ELSE "dead"]
  /\ UNCHANGED <<holder, mounts, status, lost, pc, mounted, used>>

\* The phone falls silent, answers with errors, or recovers.
Hang ==
  /\ phone # "absent" /\ phone' \in {"present", "hung", "failing"} \ {phone}
  /\ UNCHANGED <<claim, holder, mounts, status, lost, pc, sess, mounted, used>>

\* A session ends while the phone is plugged in: by a reset of the phone, or
\* with the actor's task, which gives the interface back.
Reset(d) ==
  /\ "reset" \in Faults /\ sess[d] \in {"opened", "live"}
  /\ \/ sess' = [sess EXCEPT ![d] = "reset"] /\ UNCHANGED claim
     \/ sess' = [sess EXCEPT ![d] = "dead"] /\ claim' = None
  /\ UNCHANGED <<world, holder, mounts, status, pc, mounted, used>>

\* The user ejects the volume.
Eject(p) ==
  /\ "eject" \in Faults /\ mounts[p] # None
  /\ mounts' = [mounts EXCEPT ![p] = None]
  /\ UNCHANGED <<world, claim, holder, status, pc, sess, mounted, used>>

Step(d) ==
  \/ Bind(d) \/ Clear(d) \/ Started(d) \/ Poll(d) \/ Connect(d) \/ Attach(d) \/ Mount(d)
  \/ Backoff(d) \/ Probe(d) \/ Publish(d) \/ StopDetach(d) \/ StopUnmount(d)
  \/ StopStatus(d) \/ Release(d)

Next ==
  \/ \E d \in Daemon : Step(d) \/ Start(d) \/ Kill(d) \/ ServerEnds(d) \/ Reset(d)
  \/ \E p \in Path : Eject(p)
  \/ Plug \/ Unplug \/ Hang

\* The runtime goes on with a daemon that is not waiting, its timers run out,
\* and the programs it calls end; a phone that answers is not refused forever.
Fairness == \A d \in Daemon :
  /\ WF_vars(Step(d))
  /\ SF_vars(Connect(d) /\ claim' = d)
  /\ SF_vars(Attach(d) /\ claim' = d)

Spec == Init /\ [][Next]_vars /\ Fairness

-----------------------------------------------------------------------------
(* Properties. *)

\* "We hold the port, so nothing we can see is serving them" (watch): between
\* daemons whose servers have not ended, clear_stale_mounts takes away no mount
\* that another one serves.
OnlyDeadCleared ==
  [][\A d \in Daemon \ lost, p \in Path :
       (/\ pc[d] \in {"clear", "reclear"} /\ pc'[d] # pc[d]
        /\ mounts[p] \notin {None, d} \cup lost /\ mounts'[p] = None)
         => ~Running(mounts[p])]_vars

\* The status file tells of the daemon that serves: one that has begun to
\* publish is not overwritten by a predecessor that stops, but only by a
\* daemon whose server has ended, which publishes on.
StatusOfServer ==
  \A d \in Daemon \ lost : Spawned(d) => status \in {d} \cup lost

\* A daemon knows the mount it serves, also when it is a fallback, so that it
\* can release it when it stops, and it never serves two.  What it does not
\* know of was mounted by a daemon whose server had ended, on its port; that
\* one knows it.
OwnMountKnown ==
  \A d \in Daemon, p \in Path :
    Running(d) /\ mounts[p] = d => \E e \in {d} \cup lost : mounted[e] /\ used[e] = p

\* "dropping a healthy session on one slow reply is what made the volume
\* disappear" (test_session): outside of a stop or a kill a session is only
\* dropped when it is over, or when the phone answers with errors; never
\* while the phone is silent or busy.
HealthySessionKept ==
  [][\A d \in Daemon :
       Attached(d) /\ sess'[d] = "none" /\ pc[d] # "detach" /\ pc'[d] # "exited"
         => \/ sess[d] = "dead"
            \/ phone # "hung" /\ (sess[d] = "reset" \/ phone = "failing")]_vars

\* A phone that stays plugged in and answers is attached and its volume
\* mounted for as long as a daemon serves, after any number of reconnects,
\* resets, errors, failed attempts and killed predecessors with mounts that
\* cannot be removed: unless a mount failed or the user ejected it, which
\* nothing makes up for while the phone stays attached, sessions end by
\* themselves forever, or a daemon whose server has ended goes on.
PhoneServed ==
  \A d \in Daemon :
    (/\ <>[](phone = "present" /\ holder[Port[d]] = d /\ \A e \in lost : ~Running(e))
     /\ <>[][sess'[d] \in {"reset", "dead"} => sess'[d] = sess[d]]_vars
     /\ [](pc[d] # "backoff" /\ (mounted[d] => mounts[used[d]] = d)))
    => <>[](sess[d] = "live" /\ mounted[d] /\ mounts[used[d]] = d)
=============================================================================
