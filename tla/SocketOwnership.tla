-------------------------- MODULE SocketOwnership --------------------------
(***************************************************************************)
(* The two local sockets of nodescale-runtime (observation_uds.rs,         *)
(* operator_uds.rs, main.rs): how processes that start, fail, are killed   *)
(* and shut down pass the paths on to each other.                          *)
(*                                                                         *)
(* Every step is one system call or several that only look.  A path is a   *)
(* directory entry that outlives its process; a lock and a listener do     *)
(* not.  Removing an entry goes by its name, not by the inode that was     *)
(* checked before, and the number of an inode is used again once nothing   *)
(* refers to it.                                                           *)
(*                                                                         *)
(* Operators whose name begins with Wrong are deliberate mistakes a change *)
(* to the code could make; no action uses them.                            *)
(***************************************************************************)
EXTENDS Naturals

CONSTANTS
  Processes,   \* instances of the runtime on the same paths
  Config,      \* which sockets the configuration of each asks for
  Inodes,
  NoInode,
  NoProcess,
  MaxStops     \* bound: how often a process is killed, stopped or refused a call

Apis == {"observation", "operator"}

ASSUME ConfigAssumption == Config \in [Processes -> SUBSET Apis]
ASSUME NameAssumption == NoInode \notin Inodes /\ NoProcess \notin Processes
ASSUME StopAssumption == MaxStops \in Nat

VARIABLES
  entry,      \* what each path names
  lock,       \* who holds the owner lock next to the operator's path
  pc,         \* where each process is
  listener,   \* the inode each of its listeners is bound to
  mine,       \* the inode it will remove when it shuts down
  seen,       \* the stale inode it found on its way
  told,       \* the processes that were told to stop, and not to start again
  stops

vars == <<entry, lock, pc, listener, mine, seen, told, stops>>

Nothing == [inode |-> NoInode, mode |-> "none"]

\* A socket is bound with the mode the umask leaves and then made private.
Entries == [inode : Inodes, mode : {"umask", "private"}] \cup {Nothing}

Starting == {"bind observation", "publish observation", "lock", "examine", "recheck",
             "remove", "bind", "capture", "publish"}

Stopping == {"close", "check", "unlink", "unlock", "check observation",
             "unlink observation", "end"}

TypeOK ==
  /\ entry \in [Apis -> Entries]
  /\ lock \in Processes \cup {NoProcess}
  /\ pc \in [Processes -> Starting \cup Stopping \cup {"down", "serving"}]
  /\ listener \in [Processes -> [Apis -> Inodes \cup {NoInode}]]
  /\ mine \in [Processes -> [Apis -> Inodes \cup {NoInode}]]
  /\ seen \in [Processes -> Inodes \cup {NoInode}]
  /\ told \subseteq Processes
  /\ stops \in Nat

None == [a \in Apis |-> NoInode]

Init ==
  /\ entry = [a \in Apis |-> Nothing]
  /\ lock = NoProcess
  /\ pc = [p \in Processes |-> "down"]
  /\ listener = [p \in Processes |-> None]
  /\ mine = [p \in Processes |-> None]
  /\ seen = [p \in Processes |-> NoInode]
  /\ told = {}
  /\ stops = 0

-----------------------------------------------------------------------------
(***************************************************************************)
(* The file system                                                         *)
(***************************************************************************)

\* Somebody accepts on the socket; connecting to it is not refused.
Live(i) == \E p \in Processes, a \in Apis : listener[p][a] = i

Free == {i \in Inodes : ~Live(i) /\ \A a \in Apis : entry[a].inode # i}

Bind(p, a, i) ==
  /\ entry' = [entry EXCEPT ![a] = [inode |-> i, mode |-> "umask"]]
  /\ listener' = [listener EXCEPT ![p][a] = i]

WrongPublished(e) == [e EXCEPT !.mode = "group"]

Published(e) == [e EXCEPT !.mode = "private"]

Unlinked(a) == [entry EXCEPT ![a] = Nothing]

GoTo(p, next) == pc' = [pc EXCEPT ![p] = next]

-----------------------------------------------------------------------------
(***************************************************************************)
(* Starting: the observation socket, then the operator's                   *)
(***************************************************************************)

Start(p) ==
  /\ pc[p] = "down"
  /\ Config[p] # {}
  /\ GoTo(p, IF "observation" \in Config[p] THEN "bind observation" ELSE "lock")
  /\ told' = told \ {p}
  /\ UNCHANGED <<entry, lock, listener, mine, seen, stops>>

\* A listener that is not complete is dropped without removing its path.
BindObservation(p, i) ==
  /\ pc[p] = "bind observation"
  /\ IF entry["observation"] = Nothing
     THEN Bind(p, "observation", i) /\ GoTo(p, "publish observation")
     ELSE GoTo(p, "end") /\ UNCHANGED <<entry, listener>>
  /\ UNCHANGED <<lock, mine, seen, told, stops>>

\* What it will remove is whatever the path names by now.
PublishObservation(p) ==
  /\ pc[p] = "publish observation"
  /\ IF entry["observation"] # Nothing
     THEN /\ entry' = [entry EXCEPT !["observation"] = Published(@)]
          /\ mine' = [mine EXCEPT ![p]["observation"] = entry["observation"].inode]
          /\ GoTo(p, IF "operator" \in Config[p] THEN "lock" ELSE "serving")
     ELSE GoTo(p, "end") /\ UNCHANGED <<entry, mine>>
  /\ UNCHANGED <<lock, listener, seen, told, stops>>

WrongUnowned == TRUE

\* acquire_owner_lock does not wait.
Unowned == lock = NoProcess

Lock(p) ==
  /\ pc[p] = "lock"
  /\ IF Unowned
     THEN lock' = p /\ GoTo(p, "examine")
     ELSE GoTo(p, "check observation") /\ UNCHANGED lock
  /\ UNCHANGED <<entry, listener, mine, seen, told, stops>>

\* Only an entry that nobody answers and that was published before is stale.
WrongStale(e) == FALSE

Stale(e) == e.mode = "private" /\ ~Live(e.inode)

\* recover_stale_socket
Examine(p) ==
  LET e == entry["operator"] IN
  /\ pc[p] = "examine"
  /\ CASE e = Nothing -> GoTo(p, "bind") /\ UNCHANGED seen
       [] Stale(e) -> GoTo(p, "recheck") /\ seen' = [seen EXCEPT ![p] = e.inode]
       [] OTHER -> GoTo(p, "check") /\ UNCHANGED seen
  /\ UNCHANGED <<entry, lock, listener, mine, told, stops>>

Recheck(p) ==
  /\ pc[p] = "recheck"
  /\ IF entry["operator"] = [inode |-> seen[p], mode |-> "private"]
     THEN GoTo(p, "remove")
     ELSE GoTo(p, "check")
  /\ UNCHANGED <<entry, lock, listener, mine, seen, told, stops>>

Remove(p) ==
  /\ pc[p] = "remove"
  /\ entry' = Unlinked("operator")
  /\ IF entry["operator"] # Nothing THEN GoTo(p, "bind") ELSE GoTo(p, "check")
  /\ seen' = [seen EXCEPT ![p] = NoInode]
  /\ UNCHANGED <<lock, listener, mine, told, stops>>

BindOperator(p, i) ==
  /\ pc[p] = "bind"
  /\ IF entry["operator"] = Nothing
     THEN Bind(p, "operator", i) /\ GoTo(p, "capture")
     ELSE GoTo(p, "check") /\ UNCHANGED <<entry, listener>>
  /\ UNCHANGED <<lock, mine, seen, told, stops>>

\* capture_owned_socket_path connects to itself by the path.
Capture(p) ==
  /\ pc[p] = "capture"
  /\ IF entry["operator"].inode = listener[p]["operator"]
     THEN /\ mine' = [mine EXCEPT ![p]["operator"] = listener[p]["operator"]]
          /\ GoTo(p, "publish")
     ELSE GoTo(p, "check") /\ UNCHANGED mine
  /\ UNCHANGED <<entry, lock, listener, seen, told, stops>>

Publish(p) ==
  /\ pc[p] = "publish"
  /\ IF entry["operator"] # Nothing
     THEN entry' = [entry EXCEPT !["operator"] = Published(@)]
     ELSE UNCHANGED entry
  /\ GoTo(p, IF entry["operator"].inode = mine[p]["operator"] THEN "serving" ELSE "check")
  /\ UNCHANGED <<lock, listener, mine, seen, told, stops>>

\* Where dropping what a start has come to begins: the socket path if it was
\* captured, the lock if it was taken, the observation socket if it is complete.
Undo(s) ==
  CASE s \in {"bind observation", "publish observation"} -> "end"
    [] s = "lock" -> "check observation"
    [] OTHER -> "check"

\* A call of a start fails.  In capture that is also a client that connected
\* before the process did itself: it is accepted in its place.
Refuse(p) ==
  /\ pc[p] \in Starting
  /\ stops < MaxStops
  /\ stops' = stops + 1
  /\ GoTo(p, Undo(pc[p]))
  /\ UNCHANGED <<entry, lock, listener, mine, seen, told>>

-----------------------------------------------------------------------------
(***************************************************************************)
(* Stopping: the operator's socket, then the observation socket            *)
(***************************************************************************)

\* SIGTERM or SIGINT
Terminate(p) ==
  /\ pc[p] = "serving"
  /\ stops < MaxStops
  /\ stops' = stops + 1
  /\ GoTo(p, IF "operator" \in Config[p] THEN "close" ELSE "check observation")
  /\ told' = told \cup {p}
  /\ UNCHANGED <<entry, lock, listener, mine, seen>>

\* The fields of the listener are dropped in their order: the socket, the
\* path, the lock.  A start that fails drops the path before the socket.
Close(p) ==
  /\ pc[p] = "close"
  /\ listener' = [listener EXCEPT ![p]["operator"] = NoInode]
  /\ GoTo(p, "check")
  /\ UNCHANGED <<entry, lock, mine, seen, told, stops>>

Owned(p, a) == entry[a] # Nothing /\ entry[a].inode = mine[p][a]

\* Drop for OwnedSocketPath looks and then removes.
Check(p) ==
  /\ pc[p] = "check"
  /\ GoTo(p, IF Owned(p, "operator") THEN "unlink" ELSE "unlock")
  /\ UNCHANGED <<entry, lock, listener, mine, seen, told, stops>>

Unlink(p) ==
  /\ pc[p] = "unlink"
  /\ entry' = Unlinked("operator")
  /\ GoTo(p, "unlock")
  /\ UNCHANGED <<lock, listener, mine, seen, told, stops>>

Unlock(p) ==
  /\ pc[p] = "unlock"
  /\ lock' = NoProcess
  /\ listener' = [listener EXCEPT ![p]["operator"] = NoInode]
  /\ GoTo(p, "check observation")
  /\ UNCHANGED <<entry, mine, seen, told, stops>>

\* Drop for ObservationUdsListener runs before its socket is closed.
CheckObservation(p) ==
  /\ pc[p] = "check observation"
  /\ GoTo(p, IF Owned(p, "observation") THEN "unlink observation" ELSE "end")
  /\ UNCHANGED <<entry, lock, listener, mine, seen, told, stops>>

UnlinkObservation(p) ==
  /\ pc[p] = "unlink observation"
  /\ entry' = Unlinked("observation")
  /\ GoTo(p, "end")
  /\ UNCHANGED <<lock, listener, mine, seen, told, stops>>

\* What is left of the process goes; the entries of the paths stay.
Gone(p) ==
  /\ GoTo(p, "down")
  /\ lock' = IF lock = p THEN NoProcess ELSE lock
  /\ listener' = [listener EXCEPT ![p] = None]
  /\ mine' = [mine EXCEPT ![p] = None]
  /\ seen' = [seen EXCEPT ![p] = NoInode]
  /\ UNCHANGED <<entry, told>>

End(p) == pc[p] = "end" /\ Gone(p) /\ UNCHANGED stops

Kill(p) ==
  /\ pc[p] # "down"
  /\ stops < MaxStops
  /\ stops' = stops + 1
  /\ Gone(p)

\* An entry that nobody answers.
Left(a) == entry[a] # Nothing /\ ~Live(entry[a].inode)

\* The administrator removes one.
Clear(a) ==
  /\ Left(a)
  /\ entry' = Unlinked(a)
  /\ UNCHANGED <<lock, pc, listener, mine, seen, told, stops>>

-----------------------------------------------------------------------------
Step(p) ==
  \/ p \notin told /\ Start(p)
  \/ \E i \in Free : BindObservation(p, i) \/ BindOperator(p, i)
  \/ PublishObservation(p) \/ Lock(p) \/ Examine(p) \/ Recheck(p) \/ Remove(p)
  \/ Capture(p) \/ Publish(p)
  \/ Close(p) \/ Check(p) \/ Unlink(p) \/ Unlock(p)
  \/ CheckObservation(p) \/ UnlinkObservation(p) \/ End(p)

Next ==
  \/ \E p \in Processes : Start(p) \/ Step(p) \/ Refuse(p) \/ Terminate(p) \/ Kill(p)
  \/ \E a \in Apis : Clear(a)

Spec == Init /\ [][Next]_vars

\* The unit says Restart=on-failure: a process that was killed or failed is
\* started again, one that was told to stop only if somebody does it; and a
\* process that runs takes its steps.
FairSpec == Spec /\ \A p \in Processes : WF_vars(Step(p))

-----------------------------------------------------------------------------
(***************************************************************************)
(* Properties                                                              *)
(***************************************************************************)

\* While a process serves a socket its path names that socket: no other
\* process, starting, failing or shutting down, removes or replaces it.
ReachesServer ==
  \A p \in Processes, a \in Apis :
    pc[p] = "serving" /\ a \in Config[p] =>
      /\ listener[p][a] # NoInode
      /\ entry[a] = [inode |-> listener[p][a], mode |-> "private"]

Serves(p) == pc[p] = "serving" /\ "operator" \in Config[p]

\* The observation socket refuses to start over any entry (docs/runtime.md),
\* the operator's over one that a start which failed or was killed between
\* binding and publishing left without its mode.
Blocked(p) ==
  \/ "observation" \in Config[p] /\ Left("observation")
  \/ Left("operator") /\ entry["operator"].mode = "umask"

\* Once no process is killed or stopped any more, the operator's socket is
\* served for good, unless every process that could is told to stop or
\* blocked.  Whatever else a killed process left behind, its lock or its
\* socket, and whichever processes start against each other, the next start
\* recovers the path.
ServesAgain ==
  <>[](\/ \E p \in Processes : Serves(p)
      \/ \A p \in Processes :
           "operator" \in Config[p] => p \in told \/ Blocked(p))
=============================================================================
