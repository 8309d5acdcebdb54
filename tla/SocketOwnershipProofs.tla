------------------------ MODULE SocketOwnershipProofs ------------------------
(***************************************************************************)
(* Theorems of SocketOwnership, for any number of processes, any           *)
(* configuration of each and any number of kills and failures.             *)
(*                                                                         *)
(* The two sockets are safe for different reasons.  The observation path   *)
(* is taken only while it names nothing, and who removes it still listens  *)
(* on what it names; the numbers of two listeners differ.  The operator's  *)
(* path is changed only by who holds the lock.                             *)
(*                                                                         *)
(* The last section says what becomes of the lock (it is free, or held by  *)
(* a process that still has steps to take) and what no step may do to the  *)
(* path of a socket that somebody listens on.                              *)
(***************************************************************************)
EXTENDS SocketOwnership, TLAPS

\* Two listeners never share an inode.
Distinct ==
  \A p, q \in Processes, a, b \in Apis :
    listener[p][a] # NoInode /\ listener[p][a] = listener[q][b] => p = q /\ a = b

Prepared == {"lock", "examine", "recheck", "remove", "bind", "capture", "publish", "serving"}

\* From its bind until it removes the path or gives up, the path of the
\* observation socket names the listener.
Observes(p) ==
  LET i == listener[p]["observation"] IN
  /\ pc[p] \in {"publish observation", "unlink observation"} => i # NoInode
  /\ i # NoInode /\ pc[p] # "end" => entry["observation"].inode = i
  /\ mine[p]["observation"] # NoInode => mine[p]["observation"] = i
  /\ pc[p] \in Prepared /\ "observation" \in Config[p] =>
       i # NoInode /\ entry["observation"].mode = "private"

Observing == \A p \in Processes : Observes(p)

Owning == {"examine", "recheck", "remove", "bind", "capture", "publish", "close",
           "check", "unlink", "unlock"}

\* Whoever looks at the operator's path or serves it holds the lock.
Locking ==
  \A p \in Processes :
    pc[p] \in Owning \/ (pc[p] = "serving" /\ "operator" \in Config[p]) => lock = p

Operates(p) ==
  LET i == listener[p]["operator"] IN
  /\ pc[p] \in {"capture", "publish"} => i # NoInode
  /\ pc[p] = "publish" => mine[p]["operator"] = i
  /\ pc[p] = "serving" /\ "operator" \in Config[p] =>
       i # NoInode /\ entry["operator"] = [inode |-> i, mode |-> "private"]

Operating == \A p \in Processes : Operates(p)

IInv == TypeOK /\ Distinct /\ Observing /\ Locking /\ Operating

-----------------------------------------------------------------------------
\* An entry is nothing or has an inode; publishing keeps that inode.
LEMMA EntryFacts ==
  ASSUME NEW e \in Entries
  PROVE  /\ e # Nothing => e.inode \in Inodes /\ Published(e) \in Entries
         /\ e # Nothing => Published(e) = [inode |-> e.inode, mode |-> "private"]
         /\ e = Nothing => e.inode = NoInode
         /\ e.inode \in Inodes \cup {NoInode}
         /\ e.inode # NoInode => e # Nothing
BY NameAssumption DEF Entries, Nothing, Published

\* What a function of processes and sockets is after one value of it is set.
LEMMA Updated ==
  ASSUME NEW S, NEW f \in [Processes -> [Apis -> S]],
         NEW p \in Processes, NEW a \in Apis, NEW x
  PROVE  \A q \in Processes, b \in Apis :
           [f EXCEPT ![p][a] = x][q][b] = IF q = p /\ b = a THEN x ELSE f[q][b]
OBVIOUS

LEMMA InitIInv == Init => IInv
BY NameAssumption DEF Init, IInv, TypeOK, Distinct, Observing, Observes, Locking, Operating, Operates, None,
  Entries, Nothing, Apis, Prepared, Owning, Starting, Stopping

-----------------------------------------------------------------------------
LEMMA TypeStep == TypeOK /\ [Next]_vars => TypeOK'
<1> SUFFICES ASSUME TypeOK, [Next]_vars
             PROVE  TypeOK'
    OBVIOUS
<1> USE DEF TypeOK
<1>e. \A a \in Apis : entry[a] \in Entries
    OBVIOUS
<1>a. "operator" \in Apis /\ "observation" \in Apis
    BY DEF Apis
<1>u. ASSUME NEW a \in Apis
      PROVE  Unlinked(a) \in [Apis -> Entries]
    BY DEF Unlinked, Entries
<1>p. ASSUME NEW a \in Apis, entry[a] # Nothing
      PROVE  [entry EXCEPT ![a] = Published(@)] \in [Apis -> Entries]
    BY <1>p, <1>e, EntryFacts
<1>g. ASSUME NEW p \in Processes, NEW s \in Starting \cup Stopping \cup {"down", "serving"},
             GoTo(p, s)
      PROVE  pc' \in [Processes -> Starting \cup Stopping \cup {"down", "serving"}]
    BY <1>g DEF GoTo
<1>b. ASSUME NEW p \in Processes, NEW a \in Apis, NEW i \in Inodes, Bind(p, a, i)
      PROVE  /\ entry' \in [Apis -> Entries]
             /\ listener' \in [Processes -> [Apis -> Inodes \cup {NoInode}]]
    BY <1>b DEF Bind, Entries
<1>1. ASSUME NEW p \in Processes, Start(p)
      PROVE  TypeOK'
    BY <1>1, <1>g, <1>e, <1>a DEF Start, Starting, Stopping
<1>2. ASSUME NEW p \in Processes, NEW i \in Free, BindObservation(p, i)
      PROVE  TypeOK'
    BY <1>2, <1>g, <1>b, <1>a DEF BindObservation, Free, Starting, Stopping
<1>3. ASSUME NEW p \in Processes, PublishObservation(p)
      PROVE  TypeOK'
  <2>1. CASE entry["observation"] # Nothing
    <3>1. entry["observation"].inode \in Inodes
        BY <2>1, <1>e, <1>a, EntryFacts
    <3>2. mine' \in [Processes -> [Apis -> Inodes \cup {NoInode}]]
      <4>1. \A i \in Inodes :
              [mine EXCEPT ![p]["observation"] = i]
                \in [Processes -> [Apis -> Inodes \cup {NoInode}]]
          BY <1>a
      <4> QED
          BY <1>3, <2>1, <3>1, <4>1 DEF PublishObservation
    <3> QED
        BY <1>3, <2>1, <3>2, <1>g, <1>p, <1>a DEF PublishObservation, Starting, Stopping
  <2>2. CASE entry["observation"] = Nothing
      BY <1>3, <2>2, <1>g DEF PublishObservation, Stopping
  <2> QED
      BY <2>1, <2>2
<1>4. ASSUME NEW p \in Processes, Lock(p)
      PROVE  TypeOK'
    BY <1>4, <1>g, <1>e, <1>a DEF Lock, Unowned, Starting, Stopping
<1>5. ASSUME NEW p \in Processes, Examine(p)
      PROVE  TypeOK'
    BY <1>5, <1>g, <1>e, <1>a, EntryFacts DEF Examine, Stale, Starting, Stopping
<1>6. ASSUME NEW p \in Processes, Recheck(p)
      PROVE  TypeOK'
    BY <1>6, <1>g, <1>e, <1>a DEF Recheck, Starting, Stopping
<1>7. ASSUME NEW p \in Processes, Remove(p)
      PROVE  TypeOK'
    BY <1>7, <1>g, <1>u, <1>a DEF Remove, Starting, Stopping
<1>9. ASSUME NEW p \in Processes, NEW i \in Free, BindOperator(p, i)
      PROVE  TypeOK'
    BY <1>9, <1>g, <1>b, <1>a DEF BindOperator, Free, Starting, Stopping
<1>10. ASSUME NEW p \in Processes, Capture(p)
      PROVE  TypeOK'
  <2>1. mine' \in [Processes -> [Apis -> Inodes \cup {NoInode}]]
      BY <1>10, <1>a DEF Capture
  <2> QED
      BY <1>10, <2>1, <1>g DEF Capture, Starting, Stopping
<1>11. ASSUME NEW p \in Processes, Publish(p)
      PROVE  TypeOK'
    BY <1>11, <1>g, <1>p, <1>a DEF Publish, Starting, Stopping
<1>12. ASSUME NEW p \in Processes, Refuse(p)
      PROVE  TypeOK'
  <2>1. stops' = stops + 1
      BY <1>12 DEF Refuse
  <2>2. Undo(pc[p]) \in Stopping
      BY DEF Undo, Stopping
  <2> QED
      BY <1>12, <2>1, <2>2, <1>g DEF Refuse
<1>13. ASSUME NEW p \in Processes, Terminate(p)
      PROVE  TypeOK'
  <2>1. stops' = stops + 1
      BY <1>13 DEF Terminate
  <2>2. told' \subseteq Processes
      BY <1>13 DEF Terminate
  <2>3. stops' \in Nat
      BY <2>1
  <2>4. pc' \in [Processes -> Starting \cup Stopping \cup {"down", "serving"}]
      BY <1>13, <1>g DEF Terminate, Stopping
  <2> QED
      BY <1>13, <2>2, <2>3, <2>4 DEF Terminate
<1>14. ASSUME NEW p \in Processes, Close(p)
      PROVE  TypeOK'
    BY <1>14, <1>g, <1>e, <1>a DEF Close, Starting, Stopping
<1>15. ASSUME NEW p \in Processes, Check(p)
      PROVE  TypeOK'
    BY <1>15, <1>g, <1>e, <1>a DEF Check, Owned, Starting, Stopping
<1>16. ASSUME NEW p \in Processes, Unlink(p)
      PROVE  TypeOK'
    BY <1>16, <1>g, <1>u, <1>a DEF Unlink, Starting, Stopping
<1>17. ASSUME NEW p \in Processes, Unlock(p)
      PROVE  TypeOK'
    BY <1>17, <1>g, <1>e, <1>a DEF Unlock, Starting, Stopping
<1>18. ASSUME NEW p \in Processes, CheckObservation(p)
      PROVE  TypeOK'
    BY <1>18, <1>g, <1>e, <1>a DEF CheckObservation, Owned, Starting, Stopping
<1>19. ASSUME NEW p \in Processes, UnlinkObservation(p)
      PROVE  TypeOK'
    BY <1>19, <1>g, <1>u, <1>a DEF UnlinkObservation, Starting, Stopping
<1>20. ASSUME NEW p \in Processes, End(p)
      PROVE  TypeOK'
    BY <1>20, <1>g DEF End, Gone, None, Starting, Stopping
<1>21. ASSUME NEW p \in Processes, Kill(p)
      PROVE  TypeOK'
  <2>1. stops' = stops + 1
      BY <1>21 DEF Kill
  <2> QED
      BY <1>21, <2>1, <1>g DEF Kill, Gone, None
<1>22. ASSUME NEW a \in Apis, Clear(a)
       PROVE  TypeOK'
    BY <1>22, <1>u DEF Clear
<1>23. CASE UNCHANGED vars
    BY <1>23 DEF vars
<1> QED
    BY <1>1, <1>2, <1>3, <1>4, <1>5, <1>6, <1>7, <1>9, <1>10, <1>11, <1>12, <1>13, <1>14, <1>15, <1>16, <1>17, <1>18, <1>19, <1>20, <1>21, <1>22, <1>23
       DEF Next, Step

-----------------------------------------------------------------------------
LEMMA DistinctStep == TypeOK /\ Distinct /\ [Next]_vars => Distinct'
<1> SUFFICES ASSUME TypeOK, Distinct, [Next]_vars
             PROVE  Distinct'
    OBVIOUS
<1>1. ASSUME NEW p \in Processes, NEW a \in Apis, NEW i \in Free, Bind(p, a, i)
      PROVE  Distinct'
  <2>1. i # NoInode /\ \A q \in Processes, b \in Apis : listener[q][b] # i
      BY NameAssumption DEF Free, Live
  <2>2. \A q \in Processes, b \in Apis :
          listener'[q][b] = IF q = p /\ b = a THEN i ELSE listener[q][b]
      BY <1>1 DEF Bind, TypeOK
  <2> QED
      BY <2>1, <2>2 DEF Distinct
<1>2. ASSUME \A q \in Processes, b \in Apis :
               listener'[q][b] = listener[q][b] \/ listener'[q][b] = NoInode
      PROVE  Distinct'
    BY <1>2 DEF Distinct
<1>a. "operator" \in Apis /\ "observation" \in Apis
    BY DEF Apis
<1>3. ASSUME NEW p \in Processes, NEW i \in Free, BindObservation(p, i) \/ BindOperator(p, i)
      PROVE  Distinct'
    BY <1>1, <1>2, <1>3, <1>a DEF BindObservation, BindOperator
<1>4. ASSUME NEW p \in Processes, Close(p) \/ Unlock(p) \/ Gone(p)
      PROVE  Distinct'
  <2>1. CASE Close(p) \/ Unlock(p)
    <3>1. listener' = [listener EXCEPT ![p]["operator"] = NoInode]
        BY <2>1 DEF Close, Unlock
    <3>2. listener \in [Processes -> [Apis -> Inodes \cup {NoInode}]]
        BY DEF TypeOK
    <3> QED
        BY <3>1, <3>2, <1>2, <1>a, Updated
  <2>2. CASE Gone(p)
      BY <1>2, <2>2 DEF Gone, None, TypeOK
  <2> QED
      BY <1>4, <2>1, <2>2
<1>5. CASE UNCHANGED listener
    BY <1>2, <1>5
<1>6. ASSUME NEW p \in Processes,
             \/ Start(p) \/ PublishObservation(p) \/ Lock(p) \/ Examine(p) \/ Recheck(p)
             \/ Remove(p) \/ Capture(p) \/ Publish(p) \/ Refuse(p) \/ Terminate(p)
             \/ Check(p) \/ Unlink(p) \/ CheckObservation(p) \/ UnlinkObservation(p)
      PROVE  UNCHANGED listener
    BY <1>6 DEF Start, PublishObservation, Lock, Examine, Recheck, Remove, Capture, Publish,
      Refuse, Terminate, Check, Unlink, CheckObservation, UnlinkObservation
<1> QED
    BY <1>3, <1>4, <1>5, <1>6 DEF Next, Step, End, Kill, Clear, vars

-----------------------------------------------------------------------------
LEMMA ObservingStep == TypeOK /\ Distinct /\ Observing /\ [Next]_vars => Observing'
<1> SUFFICES ASSUME TypeOK, Distinct, Observing, [Next]_vars
             PROVE  Observing'
    OBVIOUS
<1> DEFINE L(q) == listener[q]["observation"]
           M(q) == mine[q]["observation"]
           e == entry["observation"]
<1>a. "observation" \in Apis /\ "operator" \in Apis /\ e \in Entries
    BY DEF Apis, TypeOK
<1>i. \A q \in Processes : L(q) \in Inodes \cup {NoInode} /\ M(q) \in Inodes \cup {NoInode}
    BY <1>a DEF TypeOK
<1>m. /\ listener \in [Processes -> [Apis -> Inodes \cup {NoInode}]]
      /\ mine \in [Processes -> [Apis -> Inodes \cup {NoInode}]]
    BY DEF TypeOK
<1>g. ASSUME NEW p \in Processes, NEW s, GoTo(p, s)
      PROVE  \A q \in Processes : pc'[q] = IF q = p THEN s ELSE pc[q]
    BY <1>g DEF GoTo, TypeOK
\* The path names one listener.
<1>l. ASSUME NEW p \in Processes, L(p) # NoInode, e.inode = L(p)
      PROVE  \A q \in Processes : q # p => L(q) = NoInode \/ pc[q] = "end"
  <2> SUFFICES ASSUME NEW q \in Processes, L(q) # NoInode, pc[q] # "end"
               PROVE  q = p
      OBVIOUS
  <2>1. e.inode = L(q)
      BY DEF Observing, Observes
  <2>2. L(p) = L(q)
      BY <1>l, <2>1
  <2> QED
      BY <1>l, <2>2, <1>a DEF Distinct
\* The steps that leave the observation socket alone.
<1>q. ASSUME NEW p \in Processes,
             entry'["observation"] = e,
             \A q \in Processes : listener'[q]["observation"] = L(q) /\ mine'[q]["observation"] = M(q),
             \A q \in Processes \ {p} : pc'[q] = pc[q],
             pc[p] # "end",
             pc'[p] \notin {"publish observation", "unlink observation"},
             pc'[p] \in Prepared => pc[p] \in Prepared \/ "observation" \notin Config[p]
      PROVE  Observing'
    BY <1>q DEF Observing, Observes
<1>1. ASSUME NEW p \in Processes, Start(p)
      PROVE  Observing'
  <2>1. /\ entry'["observation"] = e
        /\ \A q \in Processes : listener'[q]["observation"] = L(q) /\ mine'[q]["observation"] = M(q)
      BY <1>1 DEF Start
  <2>2. /\ \A q \in Processes \ {p} : pc'[q] = pc[q]
        /\ pc[p] # "end"
        /\ pc'[p] \notin {"publish observation", "unlink observation"}
        /\ pc'[p] \in Prepared => pc[p] \in Prepared \/ "observation" \notin Config[p]
      BY <1>1 DEF Start, GoTo, TypeOK, Prepared
  <2> QED
      BY <2>1, <2>2, <1>q
<1>2. ASSUME NEW p \in Processes, Lock(p)
      PROVE  Observing'
  <2>1. /\ entry'["observation"] = e
        /\ \A q \in Processes : listener'[q]["observation"] = L(q) /\ mine'[q]["observation"] = M(q)
      BY <1>2, <1>a DEF Lock, TypeOK
  <2>2. /\ \A q \in Processes \ {p} : pc'[q] = pc[q]
        /\ pc[p] # "end"
        /\ pc'[p] \notin {"publish observation", "unlink observation"}
        /\ pc'[p] \in Prepared => pc[p] \in Prepared \/ "observation" \notin Config[p]
      BY <1>2 DEF Lock, GoTo, TypeOK, Prepared
  <2> QED
      BY <2>1, <2>2, <1>q
<1>3. ASSUME NEW p \in Processes, Examine(p)
      PROVE  Observing'
  <2>1. /\ entry'["observation"] = e
        /\ \A q \in Processes : listener'[q]["observation"] = L(q) /\ mine'[q]["observation"] = M(q)
      BY <1>3, <1>a DEF Examine, TypeOK
  <2>2. /\ \A q \in Processes \ {p} : pc'[q] = pc[q]
        /\ pc[p] # "end"
        /\ pc'[p] \notin {"publish observation", "unlink observation"}
        /\ pc'[p] \in Prepared => pc[p] \in Prepared \/ "observation" \notin Config[p]
      BY <1>3 DEF Examine, GoTo, TypeOK, Prepared
  <2> QED
      BY <2>1, <2>2, <1>q
<1>4. ASSUME NEW p \in Processes, Recheck(p)
      PROVE  Observing'
  <2>1. /\ entry'["observation"] = e
        /\ \A q \in Processes : listener'[q]["observation"] = L(q) /\ mine'[q]["observation"] = M(q)
      BY <1>4, <1>a DEF Recheck, TypeOK
  <2>2. /\ \A q \in Processes \ {p} : pc'[q] = pc[q]
        /\ pc[p] # "end"
        /\ pc'[p] \notin {"publish observation", "unlink observation"}
        /\ pc'[p] \in Prepared => pc[p] \in Prepared \/ "observation" \notin Config[p]
      BY <1>4 DEF Recheck, GoTo, TypeOK, Prepared
  <2> QED
      BY <2>1, <2>2, <1>q
<1>5. ASSUME NEW p \in Processes, Remove(p)
      PROVE  Observing'
  <2>1. /\ entry'["observation"] = e
        /\ \A q \in Processes : listener'[q]["observation"] = L(q) /\ mine'[q]["observation"] = M(q)
      BY <1>5, <1>a DEF Remove, Unlinked, TypeOK
  <2>2. /\ \A q \in Processes \ {p} : pc'[q] = pc[q]
        /\ pc[p] # "end"
        /\ pc'[p] \notin {"publish observation", "unlink observation"}
        /\ pc'[p] \in Prepared => pc[p] \in Prepared \/ "observation" \notin Config[p]
      BY <1>5 DEF Remove, GoTo, TypeOK, Prepared
  <2> QED
      BY <2>1, <2>2, <1>q
<1>6. ASSUME NEW p \in Processes, NEW i \in Free, BindOperator(p, i)
      PROVE  Observing'
  <2>1. /\ entry'["observation"] = e
        /\ \A q \in Processes : listener'[q]["observation"] = L(q) /\ mine'[q]["observation"] = M(q)
      BY <1>6, <1>a DEF BindOperator, Bind, TypeOK
  <2>2. /\ \A q \in Processes \ {p} : pc'[q] = pc[q]
        /\ pc[p] # "end"
        /\ pc'[p] \notin {"publish observation", "unlink observation"}
        /\ pc'[p] \in Prepared => pc[p] \in Prepared \/ "observation" \notin Config[p]
      BY <1>6 DEF BindOperator, GoTo, TypeOK, Prepared
  <2> QED
      BY <2>1, <2>2, <1>q
<1>7. ASSUME NEW p \in Processes, Capture(p)
      PROVE  Observing'
  <2>1. /\ entry'["observation"] = e
        /\ \A q \in Processes : listener'[q]["observation"] = L(q) /\ mine'[q]["observation"] = M(q)
      BY <1>7, <1>a, <1>m, Updated DEF Capture
  <2>2. /\ \A q \in Processes \ {p} : pc'[q] = pc[q]
        /\ pc[p] # "end"
        /\ pc'[p] \notin {"publish observation", "unlink observation"}
        /\ pc'[p] \in Prepared => pc[p] \in Prepared \/ "observation" \notin Config[p]
      BY <1>7 DEF Capture, GoTo, TypeOK, Prepared
  <2> QED
      BY <2>1, <2>2, <1>q
<1>8. ASSUME NEW p \in Processes, Publish(p)
      PROVE  Observing'
  <2>1. /\ entry'["observation"] = e
        /\ \A q \in Processes : listener'[q]["observation"] = L(q) /\ mine'[q]["observation"] = M(q)
      BY <1>8, <1>a DEF Publish, TypeOK
  <2>2. /\ \A q \in Processes \ {p} : pc'[q] = pc[q]
        /\ pc[p] # "end"
        /\ pc'[p] \notin {"publish observation", "unlink observation"}
        /\ pc'[p] \in Prepared => pc[p] \in Prepared \/ "observation" \notin Config[p]
      BY <1>8 DEF Publish, GoTo, TypeOK, Prepared
  <2> QED
      BY <2>1, <2>2, <1>q
<1>9. ASSUME NEW p \in Processes, Refuse(p)
      PROVE  Observing'
  <2>1. /\ entry'["observation"] = e
        /\ \A q \in Processes : listener'[q]["observation"] = L(q) /\ mine'[q]["observation"] = M(q)
      BY <1>9, <1>a DEF Refuse, Undo, TypeOK
  <2>2. /\ \A q \in Processes \ {p} : pc'[q] = pc[q]
        /\ pc[p] # "end"
        /\ pc'[p] \notin {"publish observation", "unlink observation"}
        /\ pc'[p] \in Prepared => pc[p] \in Prepared \/ "observation" \notin Config[p]
      BY <1>9 DEF Refuse, Undo, Starting, GoTo, TypeOK, Prepared
  <2> QED
      BY <2>1, <2>2, <1>q
<1>10. ASSUME NEW p \in Processes, Terminate(p)
      PROVE  Observing'
  <2>1. /\ entry'["observation"] = e
        /\ \A q \in Processes : listener'[q]["observation"] = L(q) /\ mine'[q]["observation"] = M(q)
      BY <1>10, <1>a DEF Terminate, TypeOK
  <2>2. /\ \A q \in Processes \ {p} : pc'[q] = pc[q]
        /\ pc[p] # "end"
        /\ pc'[p] \notin {"publish observation", "unlink observation"}
        /\ pc'[p] \in Prepared => pc[p] \in Prepared \/ "observation" \notin Config[p]
      BY <1>10 DEF Terminate, GoTo, TypeOK, Prepared
  <2> QED
      BY <2>1, <2>2, <1>q
<1>11. ASSUME NEW p \in Processes, Close(p)
      PROVE  Observing'
  <2>1. /\ entry'["observation"] = e
        /\ \A q \in Processes : listener'[q]["observation"] = L(q) /\ mine'[q]["observation"] = M(q)
      BY <1>11, <1>a DEF Close, TypeOK
  <2>2. /\ \A q \in Processes \ {p} : pc'[q] = pc[q]
        /\ pc[p] # "end"
        /\ pc'[p] \notin {"publish observation", "unlink observation"}
        /\ pc'[p] \in Prepared => pc[p] \in Prepared \/ "observation" \notin Config[p]
      BY <1>11 DEF Close, GoTo, TypeOK, Prepared
  <2> QED
      BY <2>1, <2>2, <1>q
<1>12. ASSUME NEW p \in Processes, Check(p)
      PROVE  Observing'
  <2>1. /\ entry'["observation"] = e
        /\ \A q \in Processes : listener'[q]["observation"] = L(q) /\ mine'[q]["observation"] = M(q)
      BY <1>12, <1>a DEF Check, Owned, TypeOK
  <2>2. /\ \A q \in Processes \ {p} : pc'[q] = pc[q]
        /\ pc[p] # "end"
        /\ pc'[p] \notin {"publish observation", "unlink observation"}
        /\ pc'[p] \in Prepared => pc[p] \in Prepared \/ "observation" \notin Config[p]
      BY <1>12 DEF Check, GoTo, TypeOK, Prepared
  <2> QED
      BY <2>1, <2>2, <1>q
<1>13. ASSUME NEW p \in Processes, Unlink(p)
      PROVE  Observing'
  <2>1. /\ entry'["observation"] = e
        /\ \A q \in Processes : listener'[q]["observation"] = L(q) /\ mine'[q]["observation"] = M(q)
      BY <1>13, <1>a DEF Unlink, Unlinked, TypeOK
  <2>2. /\ \A q \in Processes \ {p} : pc'[q] = pc[q]
        /\ pc[p] # "end"
        /\ pc'[p] \notin {"publish observation", "unlink observation"}
        /\ pc'[p] \in Prepared => pc[p] \in Prepared \/ "observation" \notin Config[p]
      BY <1>13 DEF Unlink, GoTo, TypeOK, Prepared
  <2> QED
      BY <2>1, <2>2, <1>q
<1>14. ASSUME NEW p \in Processes, Unlock(p)
      PROVE  Observing'
  <2>1. /\ entry'["observation"] = e
        /\ \A q \in Processes : listener'[q]["observation"] = L(q) /\ mine'[q]["observation"] = M(q)
      BY <1>14, <1>a DEF Unlock, TypeOK
  <2>2. /\ \A q \in Processes \ {p} : pc'[q] = pc[q]
        /\ pc[p] # "end"
        /\ pc'[p] \notin {"publish observation", "unlink observation"}
        /\ pc'[p] \in Prepared => pc[p] \in Prepared \/ "observation" \notin Config[p]
      BY <1>14 DEF Unlock, GoTo, TypeOK, Prepared
  <2> QED
      BY <2>1, <2>2, <1>q
<1>15. ASSUME NEW p \in Processes, NEW i \in Free, BindObservation(p, i)
       PROVE  Observing'
  <2>1. CASE e = Nothing
    <3>1. i # NoInode /\ entry'["observation"] = [inode |-> i, mode |-> "umask"]
        BY <1>15, <2>1, <1>a, NameAssumption DEF BindObservation, Bind, Free, TypeOK
    <3>2. \A q \in Processes : listener'[q]["observation"] = (IF q = p THEN i ELSE L(q)) /\ mine'[q]["observation"] = M(q)
      <4>1. listener' = [listener EXCEPT ![p]["observation"] = i] /\ mine' = mine
          BY <1>15, <2>1 DEF BindObservation, Bind
      <4> QED
          BY <4>1, <1>a, <1>m, Updated
    <3>3. \A q \in Processes : pc'[q] = IF q = p THEN "publish observation" ELSE pc[q]
        BY <1>15, <2>1, <1>g DEF BindObservation
    <3>4. \A q \in Processes : L(q) = NoInode \/ pc[q] = "end"
        BY <2>1, <1>a, EntryFacts DEF Observing, Observes
    <3>5. M(p) = NoInode
      <4>1. pc[p] # "end"
          BY <1>15 DEF BindObservation
      <4> QED
          BY <4>1, <3>4 DEF Observing, Observes
    <3>6. ASSUME NEW q \in Processes, q # p
          PROVE  Observes(q)'
        BY <3>2, <3>3, <3>4, <3>6 DEF Observing, Observes, Prepared
    <3>7. Observes(p)'
      <4>1. /\ listener'[p]["observation"] = i
            /\ mine'[p]["observation"] = NoInode
            /\ pc'[p] = "publish observation"
          BY <3>2, <3>3, <3>5
      <4>2. entry'["observation"].inode = i
          BY <3>1
      <4> QED
          BY <3>1, <4>1, <4>2 DEF Observes, Prepared
    <3> QED
        BY <3>6, <3>7 DEF Observing
  <2>2. CASE e # Nothing
      BY <1>15, <2>2, <1>q, <1>g DEF BindObservation, Prepared
  <2> QED
      BY <2>1, <2>2
<1>16. ASSUME NEW p \in Processes, PublishObservation(p)
       PROVE  Observing'
  <2>1. pc[p] = "publish observation" /\ L(p) # NoInode /\ e.inode = L(p)
      BY <1>16 DEF PublishObservation, Observing, Observes
  <2>2. e # Nothing
      BY <2>1, <1>a, EntryFacts
  <2>3. entry'["observation"] = [inode |-> L(p), mode |-> "private"]
      BY <1>16, <2>1, <2>2, <1>a, EntryFacts DEF PublishObservation, TypeOK
  <2>4. \A q \in Processes : listener'[q]["observation"] = L(q) /\ mine'[q]["observation"] = IF q = p THEN L(p) ELSE M(q)
    <3>1. mine' = [mine EXCEPT ![p]["observation"] = L(p)] /\ listener' = listener
        BY <1>16, <2>1, <2>2 DEF PublishObservation
    <3> QED
        BY <3>1, <1>a, <1>m, Updated
  <2>5. /\ \A q \in Processes : q # p => pc'[q] = pc[q]
        /\ pc'[p] \in {"lock", "serving"}
      BY <1>16, <2>2, <1>g DEF PublishObservation
  <2>6. \A q \in Processes : q # p => L(q) = NoInode \/ pc[q] = "end"
    <3>1. L(p) # NoInode /\ e.inode = L(p)
        BY <2>1
    <3> QED
        BY <3>1, <1>l
  <2>7. ASSUME NEW q \in Processes, q # p
        PROVE  Observes(q)'
      BY <2>4, <2>5, <2>6, <2>7 DEF Observing, Observes, Prepared
  <2>8. Observes(p)'
    <3>1. listener'[p]["observation"] = L(p) /\ mine'[p]["observation"] = L(p)
        BY <2>4
    <3>2. entry'["observation"].inode = L(p) /\ entry'["observation"].mode = "private"
        BY <2>3
    <3>3. L(p) # NoInode /\ pc'[p] \in {"lock", "serving"}
        BY <2>1, <2>5
    <3> QED
        BY <3>1, <3>2, <3>3 DEF Observes, Prepared
  <2> QED
      BY <2>7, <2>8 DEF Observing
<1>17. ASSUME NEW p \in Processes, CheckObservation(p)
       PROVE  Observing'
  <2>1. CASE Owned(p, "observation")
    <3>1. M(p) # NoInode /\ L(p) # NoInode
        BY <2>1, <1>a, EntryFacts, NameAssumption DEF Owned, Observing, Observes
    <3>2. \A q \in Processes : pc'[q] = IF q = p THEN "unlink observation" ELSE pc[q]
        BY <1>17, <2>1, <1>g DEF CheckObservation
    <3>3. pc[p] = "check observation" /\ UNCHANGED <<entry, listener, mine>>
        BY <1>17 DEF CheckObservation
    <3>4. ASSUME NEW q \in Processes
          PROVE  Observes(q)'
        BY <3>1, <3>2, <3>3 DEF Observing, Observes, Prepared
    <3> QED
        BY <3>4 DEF Observing
  <2>2. CASE ~Owned(p, "observation")
      BY <1>17, <2>2, <1>q, <1>g DEF CheckObservation, Prepared
  <2> QED
      BY <2>1, <2>2
<1>18. ASSUME NEW p \in Processes, UnlinkObservation(p)
       PROVE  Observing'
  <2>1. L(p) # NoInode /\ e.inode = L(p)
      BY <1>18 DEF UnlinkObservation, Observing, Observes
  <2>2. \A q \in Processes : q # p => L(q) = NoInode \/ pc[q] = "end"
      BY <2>1, <1>l
  <2>3. /\ \A q \in Processes : listener'[q]["observation"] = L(q) /\ mine'[q]["observation"] = M(q)
        /\ \A q \in Processes : pc'[q] = IF q = p THEN "end" ELSE pc[q]
      BY <1>18, <1>g DEF UnlinkObservation
  <2> QED
      BY <2>2, <2>3 DEF Observing, Observes, Prepared
<1>19. ASSUME NEW p \in Processes, Gone(p)
       PROVE  Observing'
  <2>1. /\ entry'["observation"] = e
        /\ \A q \in Processes : listener'[q]["observation"] = (IF q = p THEN NoInode ELSE L(q))
        /\ \A q \in Processes : mine'[q]["observation"] = (IF q = p THEN NoInode ELSE M(q))
        /\ \A q \in Processes : pc'[q] = IF q = p THEN "down" ELSE pc[q]
      BY <1>19, <1>a, <1>g DEF Gone, None, TypeOK
  <2> QED
      BY <2>1 DEF Observing, Observes, Prepared
<1>20. ASSUME NEW a \in Apis, Clear(a)
       PROVE  Observing'
  <2>1. \A q \in Processes : listener'[q]["observation"] = L(q) /\ mine'[q]["observation"] = M(q) /\ pc'[q] = pc[q]
      BY <1>20 DEF Clear
  <2>2. CASE a = "operator"
    <3>1. entry'["observation"] = e
        BY <1>20, <2>2, <1>a DEF Clear, Unlinked, TypeOK
    <3> QED
        BY <2>1, <3>1 DEF Observing, Observes
  <2>3. CASE a = "observation"
    <3>1. \A q \in Processes : L(q) = NoInode \/ pc[q] = "end"
        BY <1>20, <2>3, <1>a DEF Clear, Left, Live, Observing, Observes
    <3> QED
        BY <2>1, <3>1 DEF Observing, Observes, Prepared
  <2> QED
      BY <2>2, <2>3 DEF Apis
<1>21. CASE UNCHANGED vars
    BY <1>21 DEF vars, Observing, Observes
<1> QED
    BY <1>1, <1>2, <1>3, <1>4, <1>5, <1>6, <1>7, <1>8, <1>9, <1>10, <1>11, <1>12, <1>13,
       <1>14, <1>15, <1>16, <1>17, <1>18, <1>19, <1>20, <1>21
       DEF Next, Step, End, Kill
-----------------------------------------------------------------------------
LEMMA OperatorStep ==
  TypeOK /\ Locking /\ Operating /\ [Next]_vars => Locking' /\ Operating'
<1> SUFFICES ASSUME TypeOK, Locking, Operating, [Next]_vars
             PROVE  Locking' /\ Operating'
    OBVIOUS
<1> DEFINE Owner(q) == pc[q] \in Owning \/ (pc[q] = "serving" /\ "operator" \in Config[q])
<1>a. "observation" \in Apis /\ "operator" \in Apis /\ entry["operator"] \in Entries
    BY DEF Apis, TypeOK
<1>m. /\ listener \in [Processes -> [Apis -> Inodes \cup {NoInode}]]
      /\ mine \in [Processes -> [Apis -> Inodes \cup {NoInode}]]
    BY DEF TypeOK
\* The steps that leave the operator's socket alone.
<1>q. ASSUME NEW p \in Processes,
             lock' = lock,
             entry'["operator"] = entry["operator"],
             \A q \in Processes : /\ listener'[q]["operator"] = listener[q]["operator"]
                                 /\ mine'[q]["operator"] = mine[q]["operator"],
             \A q \in Processes \ {p} : pc'[q] = pc[q],
             pc'[p] \in Owning => lock = p,
             pc'[p] \notin {"capture", "publish"},
             pc'[p] = "serving" => "operator" \notin Config[p]
      PROVE  Locking' /\ Operating'
    BY <1>q DEF Locking, Operating, Operates
\* Who holds the lock is alone: of the others nothing is asked.
<1>s. ASSUME NEW p \in Processes, lock = p
      PROVE  \A q \in Processes : q # p => pc[q] \notin Owning \cup {"serving"}
                                         \/ (pc[q] = "serving" /\ "operator" \notin Config[q])
    BY <1>s DEF Locking
<1>o. ASSUME NEW p \in Processes, lock = p,
             \A q \in Processes \ {p} : pc'[q] = pc[q],
             pc'[p] \in Owning \/ (pc'[p] = "serving" /\ "operator" \in Config[p]) => lock' = p,
             Operates(p)'
      PROVE  Locking' /\ Operating'
  <2>1. ASSUME NEW q \in Processes, q # p
        PROVE  Operates(q)'
      BY <1>o, <1>s, <2>1 DEF Operates, Owning
  <2>2. Locking'
      BY <1>o, <1>s DEF Locking
  <2> QED
      BY <1>o, <2>1, <2>2 DEF Operating
<1>1. ASSUME NEW p \in Processes, Start(p)
      PROVE  Locking' /\ Operating'
  <2>1. /\ lock' = lock
        /\ entry'["operator"] = entry["operator"]
        /\ \A q \in Processes : /\ listener'[q]["operator"] = listener[q]["operator"]
                                /\ mine'[q]["operator"] = mine[q]["operator"]
      BY <1>1, <1>a DEF Start
  <2>2. /\ \A q \in Processes \ {p} : pc'[q] = pc[q]
        /\ pc'[p] \in Owning => lock = p
        /\ pc'[p] \notin {"capture", "publish"}
        /\ pc'[p] = "serving" => "operator" \notin Config[p]
      BY <1>1 DEF Start, GoTo, TypeOK, Locking, Owning
  <2> QED
      BY <2>1, <2>2, <1>q
<1>2. ASSUME NEW p \in Processes, NEW i \in Free, BindObservation(p, i)
      PROVE  Locking' /\ Operating'
  <2>1. /\ lock' = lock
        /\ entry'["operator"] = entry["operator"]
        /\ \A q \in Processes : /\ listener'[q]["operator"] = listener[q]["operator"]
                                /\ mine'[q]["operator"] = mine[q]["operator"]
    <3>1. lock' = lock /\ mine' = mine
        BY <1>2 DEF BindObservation
    <3>2. CASE entry["observation"] = Nothing
      <4>1. listener' = [listener EXCEPT ![p]["observation"] = i]
          BY <1>2, <3>2 DEF BindObservation, Bind
      <4>2. \A q \in Processes : listener'[q]["operator"] = listener[q]["operator"]
          BY <4>1, <1>m, <1>a, Updated
      <4>3. entry'["operator"] = entry["operator"]
          BY <1>2, <3>2, <1>a DEF BindObservation, Bind, TypeOK
      <4> QED
          BY <3>1, <4>2, <4>3
    <3>3. CASE entry["observation"] # Nothing
        BY <1>2, <3>1, <3>3 DEF BindObservation
    <3> QED
        BY <3>2, <3>3
  <2>2. /\ \A q \in Processes \ {p} : pc'[q] = pc[q]
        /\ pc'[p] \in Owning => lock = p
        /\ pc'[p] \notin {"capture", "publish"}
        /\ pc'[p] = "serving" => "operator" \notin Config[p]
      BY <1>2 DEF BindObservation, GoTo, TypeOK, Locking, Owning
  <2> QED
      BY <2>1, <2>2, <1>q
<1>3. ASSUME NEW p \in Processes, PublishObservation(p)
      PROVE  Locking' /\ Operating'
  <2>1. /\ lock' = lock
        /\ entry'["operator"] = entry["operator"]
        /\ \A q \in Processes : /\ listener'[q]["operator"] = listener[q]["operator"]
                                /\ mine'[q]["operator"] = mine[q]["operator"]
    <3>1. lock' = lock /\ listener' = listener
        BY <1>3 DEF PublishObservation
    <3>2. CASE entry["observation"] # Nothing
      <4>1. mine' = [mine EXCEPT ![p]["observation"] = entry["observation"].inode]
          BY <1>3, <3>2 DEF PublishObservation
      <4>2. \A q \in Processes : mine'[q]["operator"] = mine[q]["operator"]
          BY <4>1, <1>m, <1>a, Updated
      <4>3. entry'["operator"] = entry["operator"]
          BY <1>3, <3>2, <1>a DEF PublishObservation, TypeOK
      <4> QED
          BY <3>1, <4>2, <4>3
    <3>3. CASE entry["observation"] = Nothing
        BY <1>3, <3>1, <3>3 DEF PublishObservation
    <3> QED
        BY <3>2, <3>3
  <2>2. /\ \A q \in Processes \ {p} : pc'[q] = pc[q]
        /\ pc'[p] \in Owning => lock = p
        /\ pc'[p] \notin {"capture", "publish"}
        /\ pc'[p] = "serving" => "operator" \notin Config[p]
      BY <1>3 DEF PublishObservation, GoTo, TypeOK, Locking, Owning
  <2> QED
      BY <2>1, <2>2, <1>q
<1>4. ASSUME NEW p \in Processes, Examine(p)
      PROVE  Locking' /\ Operating'
  <2>1. /\ lock' = lock
        /\ entry'["operator"] = entry["operator"]
        /\ \A q \in Processes : /\ listener'[q]["operator"] = listener[q]["operator"]
                                /\ mine'[q]["operator"] = mine[q]["operator"]
      BY <1>4, <1>a DEF Examine
  <2>2. /\ \A q \in Processes \ {p} : pc'[q] = pc[q]
        /\ pc'[p] \in Owning => lock = p
        /\ pc'[p] \notin {"capture", "publish"}
        /\ pc'[p] = "serving" => "operator" \notin Config[p]
      BY <1>4 DEF Examine, GoTo, TypeOK, Locking, Owning
  <2> QED
      BY <2>1, <2>2, <1>q
<1>5. ASSUME NEW p \in Processes, Recheck(p)
      PROVE  Locking' /\ Operating'
  <2>1. /\ lock' = lock
        /\ entry'["operator"] = entry["operator"]
        /\ \A q \in Processes : /\ listener'[q]["operator"] = listener[q]["operator"]
                                /\ mine'[q]["operator"] = mine[q]["operator"]
      BY <1>5, <1>a DEF Recheck
  <2>2. /\ \A q \in Processes \ {p} : pc'[q] = pc[q]
        /\ pc'[p] \in Owning => lock = p
        /\ pc'[p] \notin {"capture", "publish"}
        /\ pc'[p] = "serving" => "operator" \notin Config[p]
      BY <1>5 DEF Recheck, GoTo, TypeOK, Locking, Owning
  <2> QED
      BY <2>1, <2>2, <1>q
<1>6. ASSUME NEW p \in Processes, Refuse(p)
      PROVE  Locking' /\ Operating'
  <2>1. /\ lock' = lock
        /\ entry'["operator"] = entry["operator"]
        /\ \A q \in Processes : /\ listener'[q]["operator"] = listener[q]["operator"]
                                /\ mine'[q]["operator"] = mine[q]["operator"]
      BY <1>6, <1>a DEF Refuse
  <2>2. /\ \A q \in Processes \ {p} : pc'[q] = pc[q]
        /\ pc'[p] \in Owning => lock = p
        /\ pc'[p] \notin {"capture", "publish"}
        /\ pc'[p] = "serving" => "operator" \notin Config[p]
      BY <1>6 DEF Refuse, Undo, Starting, GoTo, TypeOK, Locking, Owning
  <2> QED
      BY <2>1, <2>2, <1>q
<1>7. ASSUME NEW p \in Processes, Terminate(p)
      PROVE  Locking' /\ Operating'
  <2>1. /\ lock' = lock
        /\ entry'["operator"] = entry["operator"]
        /\ \A q \in Processes : /\ listener'[q]["operator"] = listener[q]["operator"]
                                /\ mine'[q]["operator"] = mine[q]["operator"]
      BY <1>7, <1>a DEF Terminate
  <2>2. /\ \A q \in Processes \ {p} : pc'[q] = pc[q]
        /\ pc'[p] \in Owning => lock = p
        /\ pc'[p] \notin {"capture", "publish"}
        /\ pc'[p] = "serving" => "operator" \notin Config[p]
      BY <1>7 DEF Terminate, GoTo, TypeOK, Locking, Owning
  <2> QED
      BY <2>1, <2>2, <1>q
<1>8. ASSUME NEW p \in Processes, Check(p)
      PROVE  Locking' /\ Operating'
  <2>1. /\ lock' = lock
        /\ entry'["operator"] = entry["operator"]
        /\ \A q \in Processes : /\ listener'[q]["operator"] = listener[q]["operator"]
                                /\ mine'[q]["operator"] = mine[q]["operator"]
      BY <1>8, <1>a DEF Check
  <2>2. /\ \A q \in Processes \ {p} : pc'[q] = pc[q]
        /\ pc'[p] \in Owning => lock = p
        /\ pc'[p] \notin {"capture", "publish"}
        /\ pc'[p] = "serving" => "operator" \notin Config[p]
      BY <1>8 DEF Check, GoTo, TypeOK, Locking, Owning
  <2> QED
      BY <2>1, <2>2, <1>q
<1>9. ASSUME NEW p \in Processes, CheckObservation(p)
      PROVE  Locking' /\ Operating'
  <2>1. /\ lock' = lock
        /\ entry'["operator"] = entry["operator"]
        /\ \A q \in Processes : /\ listener'[q]["operator"] = listener[q]["operator"]
                                /\ mine'[q]["operator"] = mine[q]["operator"]
      BY <1>9, <1>a DEF CheckObservation
  <2>2. /\ \A q \in Processes \ {p} : pc'[q] = pc[q]
        /\ pc'[p] \in Owning => lock = p
        /\ pc'[p] \notin {"capture", "publish"}
        /\ pc'[p] = "serving" => "operator" \notin Config[p]
      BY <1>9 DEF CheckObservation, GoTo, TypeOK, Locking, Owning
  <2> QED
      BY <2>1, <2>2, <1>q
<1>10. ASSUME NEW p \in Processes, UnlinkObservation(p)
      PROVE  Locking' /\ Operating'
  <2>1. /\ lock' = lock
        /\ entry'["operator"] = entry["operator"]
        /\ \A q \in Processes : /\ listener'[q]["operator"] = listener[q]["operator"]
                                /\ mine'[q]["operator"] = mine[q]["operator"]
      BY <1>10, <1>a DEF UnlinkObservation, Unlinked, TypeOK
  <2>2. /\ \A q \in Processes \ {p} : pc'[q] = pc[q]
        /\ pc'[p] \in Owning => lock = p
        /\ pc'[p] \notin {"capture", "publish"}
        /\ pc'[p] = "serving" => "operator" \notin Config[p]
      BY <1>10 DEF UnlinkObservation, GoTo, TypeOK, Locking, Owning
  <2> QED
      BY <2>1, <2>2, <1>q
<1>11. ASSUME NEW p \in Processes, Lock(p)
       PROVE  Locking' /\ Operating'
  <2>1. CASE Unowned
    <3>1. /\ lock = NoProcess /\ lock' = p
          /\ \A q \in Processes : pc'[q] = IF q = p THEN "examine" ELSE pc[q]
          /\ UNCHANGED <<entry, listener, mine>>
        BY <1>11, <2>1 DEF Lock, Unowned, GoTo, TypeOK
    <3>2. \A q \in Processes : ~Owner(q)
        BY <3>1, NameAssumption DEF Locking
    <3>3. ASSUME NEW q \in Processes
          PROVE  Operates(q)'
        BY <3>1, <3>2 DEF Operates, Owning
    <3>4. Locking'
        BY <3>1, <3>2 DEF Locking
    <3> QED
        BY <3>3, <3>4 DEF Operating
  <2>2. CASE ~Unowned
    <3>1. /\ UNCHANGED <<lock, entry, listener, mine>>
          /\ \A q \in Processes : pc'[q] = IF q = p THEN "check observation" ELSE pc[q]
        BY <1>11, <2>2 DEF Lock, GoTo, TypeOK
    <3> QED
        BY <3>1, <1>q DEF Owning
  <2> QED
      BY <2>1, <2>2
<1>12. ASSUME NEW p \in Processes, Remove(p)
       PROVE  Locking' /\ Operating'
  <2>1. lock = p
      BY <1>12 DEF Remove, Locking, Owning
  <2>2. /\ \A q \in Processes \ {p} : pc'[q] = pc[q]
        /\ pc'[p] \in {"bind", "check"} /\ lock' = lock
      BY <1>12 DEF Remove, GoTo, TypeOK
  <2>3. Operates(p)'
      BY <2>2 DEF Operates
  <2> QED
      BY <2>1, <2>2, <2>3, <1>o DEF Owning
<1>13. ASSUME NEW p \in Processes, NEW i \in Free, BindOperator(p, i)
       PROVE  Locking' /\ Operating'
  <2>1. lock = p
      BY <1>13 DEF BindOperator, Locking, Owning
  <2>2. /\ \A q \in Processes \ {p} : pc'[q] = pc[q]
        /\ pc'[p] \in {"capture", "check"} /\ lock' = lock
      BY <1>13 DEF BindOperator, GoTo, TypeOK
  <2>3. Operates(p)'
    <3>1. CASE entry["operator"] = Nothing
      <4>1. listener' = [listener EXCEPT ![p]["operator"] = i] /\ i # NoInode
          BY <1>13, <3>1, NameAssumption DEF BindOperator, Bind, Free
      <4>2. listener'[p]["operator"] = i
          BY <4>1, <1>m, <1>a, Updated
      <4> QED
          BY <2>2, <4>1, <4>2 DEF Operates
    <3>2. CASE entry["operator"] # Nothing
      <4>1. pc'[p] = "check"
          BY <1>13, <3>2 DEF BindOperator, GoTo, TypeOK
      <4> QED
          BY <4>1 DEF Operates
    <3> QED
        BY <3>1, <3>2
  <2> QED
      BY <2>1, <2>2, <2>3, <1>o DEF Owning
<1>14. ASSUME NEW p \in Processes, Capture(p)
       PROVE  Locking' /\ Operating'
  <2>1. lock = p
      BY <1>14 DEF Capture, Locking, Owning
  <2>2. /\ \A q \in Processes \ {p} : pc'[q] = pc[q]
        /\ pc'[p] \in {"publish", "check"} /\ lock' = lock /\ listener' = listener
      BY <1>14 DEF Capture, GoTo, TypeOK
  <2>3. Operates(p)'
    <3>1. CASE entry["operator"].inode = listener[p]["operator"]
      <4>1. mine' = [mine EXCEPT ![p]["operator"] = listener[p]["operator"]]
          BY <1>14, <3>1 DEF Capture
      <4>2. mine'[p]["operator"] = listener[p]["operator"]
          BY <4>1, <1>m, <1>a, Updated
      <4>3. listener[p]["operator"] # NoInode
          BY <1>14 DEF Capture, Operating, Operates
      <4> QED
          BY <2>2, <4>2, <4>3 DEF Operates
    <3>2. CASE entry["operator"].inode # listener[p]["operator"]
      <4>1. pc'[p] = "check"
          BY <1>14, <3>2 DEF Capture, GoTo, TypeOK
      <4> QED
          BY <4>1 DEF Operates
    <3> QED
        BY <3>1, <3>2
  <2> QED
      BY <2>1, <2>2, <2>3, <1>o DEF Owning
<1>15. ASSUME NEW p \in Processes, Publish(p)
       PROVE  Locking' /\ Operating'
  <2>1. lock = p
      BY <1>15 DEF Publish, Locking, Owning
  <2>2. /\ \A q \in Processes \ {p} : pc'[q] = pc[q]
        /\ pc'[p] \in {"serving", "check"} /\ lock' = lock /\ listener' = listener
      BY <1>15 DEF Publish, GoTo, TypeOK
  <2>3. Operates(p)'
    <3>1. mine[p]["operator"] = listener[p]["operator"] /\ listener[p]["operator"] # NoInode
        BY <1>15 DEF Publish, Operating, Operates
    <3>2. CASE entry["operator"].inode = mine[p]["operator"]
      <4>1. entry["operator"] # Nothing
          BY <3>1, <3>2, <1>a, EntryFacts
      <4>2. entry' = [entry EXCEPT !["operator"] = Published(@)]
          BY <1>15, <4>1 DEF Publish
      <4>3. entry'["operator"] = Published(entry["operator"])
          BY <4>2, <1>a DEF TypeOK
      <4>4. entry'["operator"] = [inode |-> listener[p]["operator"], mode |-> "private"]
          BY <4>1, <4>3, <3>1, <3>2, <1>a, EntryFacts
      <4> QED
          BY <2>2, <3>1, <4>4 DEF Operates
    <3>3. CASE entry["operator"].inode # mine[p]["operator"]
      <4>1. pc'[p] = "check"
          BY <1>15, <3>3 DEF Publish, GoTo, TypeOK
      <4> QED
          BY <4>1 DEF Operates
    <3> QED
        BY <3>2, <3>3
  <2> QED
      BY <2>1, <2>2, <2>3, <1>o DEF Owning
<1>16. ASSUME NEW p \in Processes, Close(p)
       PROVE  Locking' /\ Operating'
  <2>1. lock = p
      BY <1>16 DEF Close, Locking, Owning
  <2>2. /\ \A q \in Processes \ {p} : pc'[q] = pc[q]
        /\ pc'[p] = "check" /\ lock' = lock
      BY <1>16 DEF Close, GoTo, TypeOK
  <2>3. Operates(p)'
      BY <2>2 DEF Operates
  <2> QED
      BY <2>1, <2>2, <2>3, <1>o DEF Owning
<1>17. ASSUME NEW p \in Processes, Unlink(p)
       PROVE  Locking' /\ Operating'
  <2>1. lock = p
      BY <1>17 DEF Unlink, Locking, Owning
  <2>2. /\ \A q \in Processes \ {p} : pc'[q] = pc[q]
        /\ pc'[p] = "unlock" /\ lock' = lock
      BY <1>17 DEF Unlink, GoTo, TypeOK
  <2>3. Operates(p)'
      BY <2>2 DEF Operates
  <2> QED
      BY <2>1, <2>2, <2>3, <1>o DEF Owning
<1>18. ASSUME NEW p \in Processes, Unlock(p)
       PROVE  Locking' /\ Operating'
  <2>1. lock = p
      BY <1>18 DEF Unlock, Locking, Owning
  <2>2. /\ \A q \in Processes \ {p} : pc'[q] = pc[q]
        /\ pc'[p] = "check observation"
      BY <1>18 DEF Unlock, GoTo, TypeOK
  <2>3. Operates(p)'
      BY <2>2 DEF Operates
  <2> QED
      BY <2>1, <2>2, <2>3, <1>o DEF Owning
<1>19. ASSUME NEW p \in Processes, Gone(p)
       PROVE  Locking' /\ Operating'
  <2>1. /\ entry' = entry
        /\ lock' = IF lock = p THEN NoProcess ELSE lock
        /\ \A q \in Processes : pc'[q] = IF q = p THEN "down" ELSE pc[q]
      BY <1>19 DEF Gone, GoTo, TypeOK
  <2>2. \A q \in Processes :
          q # p => listener'[q] = listener[q] /\ mine'[q] = mine[q]
      BY <1>19, <1>m DEF Gone
  <2>3. Locking'
      BY <2>1 DEF Locking, Owning
  <2>4. ASSUME NEW q \in Processes
        PROVE  Operates(q)'
    <3>1. CASE q = p
        BY <2>1, <3>1 DEF Operates
    <3>2. CASE q # p
        BY <2>1, <2>2, <3>2 DEF Operating, Operates
    <3> QED
        BY <3>1, <3>2
  <2> QED
      BY <2>3, <2>4 DEF Operating
<1>20. ASSUME NEW a \in Apis, Clear(a)
       PROVE  Locking' /\ Operating'
  <2>1. UNCHANGED <<lock, pc, listener, mine>>
      BY <1>20 DEF Clear
  <2>2. ASSUME NEW q \in Processes
        PROVE  Operates(q)'
    <3>1. CASE entry'["operator"] = entry["operator"]
        BY <2>1, <3>1 DEF Operating, Operates
    <3>2. CASE entry'["operator"] # entry["operator"]
      <4>1. ~Live(entry["operator"].inode)
          BY <1>20, <3>2, <1>a DEF Clear, Left, Unlinked, TypeOK
      <4>2. ~(pc[q] = "serving" /\ "operator" \in Config[q])
        <5> SUFFICES ASSUME pc[q] = "serving", "operator" \in Config[q]
                     PROVE  FALSE
            OBVIOUS
        <5>1. entry["operator"] = [inode |-> listener[q]["operator"], mode |-> "private"]
            BY DEF Operating, Operates
        <5>2. entry["operator"].inode = listener[q]["operator"]
            BY <5>1
        <5> QED
            BY <4>1, <5>2, <1>a DEF Live
      <4> QED
          BY <2>1, <4>2 DEF Operating, Operates
    <3> QED
        BY <3>1, <3>2
  <2> QED
      BY <2>1, <2>2 DEF Locking, Operating
<1>21. CASE UNCHANGED vars
    BY <1>21 DEF vars, Locking, Operating, Operates
<1> QED
    BY <1>1, <1>2, <1>3, <1>4, <1>5, <1>6, <1>7, <1>8, <1>9, <1>10, <1>11, <1>12, <1>13,
       <1>14, <1>15, <1>16, <1>17, <1>18, <1>19, <1>20, <1>21
       DEF Next, Step, End, Kill

-----------------------------------------------------------------------------
LEMMA Invariance == Spec => []IInv
<1>1. IInv /\ [Next]_vars => IInv'
    BY TypeStep, DistinctStep, ObservingStep, OperatorStep DEF IInv
<1> QED
    BY InitIInv, <1>1, PTL DEF Spec

\* Every variable keeps its type: an entry that exists is a socket with or
\* without its mode, and it alone outlives its process (operator_uds.rs,
\* observation_uds.rs).
THEOREM TypeCorrect == Spec => []TypeOK
<1>1. IInv => TypeOK
    BY DEF IInv
<1> QED
    BY Invariance, <1>1, PTL

\* A socket that is served is reached by its path, whichever processes start,
\* fail, are killed and shut down beside the server.
THEOREM PathReachesServer == Spec => []ReachesServer
<1>1. IInv => ReachesServer
  <2> SUFFICES ASSUME IInv, NEW p \in Processes, NEW a \in Apis,
                      pc[p] = "serving", a \in Config[p]
               PROVE  /\ listener[p][a] # NoInode
                      /\ entry[a] = [inode |-> listener[p][a], mode |-> "private"]
      BY DEF ReachesServer
  <2>1. CASE a = "operator"
      BY <2>1 DEF IInv, Operating, Operates
  <2>2. CASE a = "observation"
    <3>1. /\ listener[p][a] # NoInode
          /\ entry[a].inode = listener[p][a]
          /\ entry[a].mode = "private"
        BY <2>2 DEF IInv, Observing, Observes, Prepared
    <3>2. entry[a] \in Entries /\ entry[a] # Nothing
        BY <3>1 DEF IInv, TypeOK, Nothing
    <3> QED
        BY <3>1, <3>2 DEF Entries
  <2> QED
      BY <2>1, <2>2 DEF Apis
<1> QED
    BY Invariance, <1>1, PTL

-----------------------------------------------------------------------------
Listening == {"capture", "publish", "serving", "close", "check", "unlink", "unlock"}

\* The lock is held only by a process that is on its way through it or serves,
\* and only its holder listens on the operator's path: a lock goes with its
\* process, and on every way out the socket goes before the lock or with it
\* (OperatorUdsListener, OwnedSocketPath).
LockIsAccountedFor ==
  /\ lock # NoProcess => pc[lock] \in Owning \/ Serves(lock)
  /\ \A p \in Processes :
       listener[p]["operator"] # NoInode => lock = p /\ pc[p] \in Listening

\* Only a process that was asked for the operator's socket goes there.
Asked == \A p \in Processes : pc[p] \in {"lock"} \cup Owning => "operator" \in Config[p]

\* Changing the path of a socket somebody listens on is left to its process,
\* on its way out: no start, recovery, failure or shutdown of another process
\* touches it, served or not.
KeepsPaths ==
  \A p \in Processes, a \in Apis :
    listener[p][a] # NoInode /\ entry[a].inode = listener[p][a] /\ entry'[a].inode # entry[a].inode =>
      pc[p] \in {"unlink", "unlink observation"} /\ pc'[p] # pc[p]

LeavesListenersTheirPath == [][KeepsPaths]_vars

\* A process moves on with the lock and the operator's socket as they are.
LEMMA MoveKeepsLock ==
  ASSUME TypeOK, LockIsAccountedFor, Asked, NEW p \in Processes, lock' = lock,
         \A q \in Processes : listener'[q]["operator"] = listener[q]["operator"],
         NEW s, GoTo(p, s),
         lock = p => s \in Owning \/ (s = "serving" /\ "operator" \in Config[p]),
         lock = p /\ listener[p]["operator"] # NoInode => s \in Listening,
         s \in {"lock"} \cup Owning => "operator" \in Config[p]
  PROVE  LockIsAccountedFor' /\ Asked'
<1>1. \A q \in Processes : pc'[q] = IF q = p THEN s ELSE pc[q]
    BY DEF GoTo, TypeOK
<1>2. lock # NoProcess => lock \in Processes
    BY DEF TypeOK
<1>3. Asked'
    BY <1>1 DEF Asked
<1>4. (lock # NoProcess => pc[lock] \in Owning \/ Serves(lock))'
    BY <1>1, <1>2 DEF LockIsAccountedFor, Serves
<1>5. ASSUME NEW q \in Processes, listener'[q]["operator"] # NoInode
      PROVE  lock' = q /\ pc'[q] \in Listening
    BY <1>1, <1>5 DEF LockIsAccountedFor
<1> QED
    BY <1>3, <1>4, <1>5 DEF LockIsAccountedFor

LEMMA LockStep ==
  TypeOK /\ Locking /\ LockIsAccountedFor /\ Asked /\ [Next]_vars => LockIsAccountedFor' /\ Asked'
<1> SUFFICES ASSUME TypeOK, Locking, LockIsAccountedFor, Asked, [Next]_vars
             PROVE  LockIsAccountedFor' /\ Asked'
    OBVIOUS
<1>a. "observation" \in Apis /\ "operator" \in Apis /\ "observation" # "operator"
    BY DEF Apis
<1>n. NoProcess \notin Processes
    BY NameAssumption
<1>l. \A q \in Processes : listener[q]["operator"] # NoInode => lock = q /\ pc[q] \in Listening
    BY DEF LockIsAccountedFor
<1>h. \A q \in Processes : lock = q => pc[q] \in Owning \/ Serves(q)
    BY <1>n DEF LockIsAccountedFor
<1>1. ASSUME NEW p \in Processes, Start(p)
      PROVE  LockIsAccountedFor' /\ Asked'
  <2>1. lock # p
      BY <1>1, <1>h DEF Start, Owning, Serves
  <2> QED
      BY <1>1, <2>1, MoveKeepsLock, ConfigAssumption DEF Start, Owning, Apis
<1>2. ASSUME NEW p \in Processes, NEW i \in Free, BindObservation(p, i)
      PROVE  LockIsAccountedFor' /\ Asked'
  <2>1. lock # p /\ lock' = lock
      BY <1>2, <1>h DEF BindObservation, Owning, Serves
  <2>2. \A q \in Processes : listener'[q]["operator"] = listener[q]["operator"]
    <3>1. \/ listener' = listener
          \/ listener' = [listener EXCEPT ![p]["observation"] = i]
        BY <1>2 DEF BindObservation, Bind
    <3> QED
        BY <3>1, <1>a DEF TypeOK
  <2>3. PICK s \in {"publish observation", "end"} : GoTo(p, s)
      BY <1>2 DEF BindObservation
  <2> QED
      BY <2>1, <2>2, <2>3, MoveKeepsLock DEF Owning
<1>3. ASSUME NEW p \in Processes, PublishObservation(p)
      PROVE  LockIsAccountedFor' /\ Asked'
  <2>1. lock # p
      BY <1>3, <1>h DEF PublishObservation, Owning, Serves
  <2> QED
      BY <1>3, <2>1, MoveKeepsLock DEF PublishObservation, Owning
<1>4. ASSUME NEW p \in Processes, Lock(p)
      PROVE  LockIsAccountedFor' /\ Asked'
  <2>1. pc[p] = "lock" /\ lock # p /\ UNCHANGED listener /\ "operator" \in Config[p]
      BY <1>4, <1>h DEF Lock, Owning, Serves, Asked
  <2>2. CASE ~Unowned
      BY <1>4, <2>1, <2>2, MoveKeepsLock DEF Lock, Owning
  <2>3. CASE Unowned
    <3>1. lock = NoProcess /\ lock' = p /\ \A q \in Processes : pc'[q] = IF q = p THEN "examine" ELSE pc[q]
        BY <1>4, <2>3 DEF Lock, Unowned, GoTo, TypeOK
    <3>2. \A q \in Processes : listener'[q]["operator"] = NoInode
        BY <2>1, <3>1, <1>l, <1>n
    <3> QED
        BY <2>1, <3>1, <3>2 DEF LockIsAccountedFor, Asked, Owning
  <2> QED
      BY <2>2, <2>3
<1>5. ASSUME NEW p \in Processes, Examine(p) \/ Recheck(p) \/ Remove(p)
      PROVE  LockIsAccountedFor' /\ Asked'
  <2>1. pc[p] \in {"examine", "recheck", "remove"} /\ UNCHANGED <<lock, listener>>
      BY <1>5 DEF Examine, Recheck, Remove
  <2>2. listener[p]["operator"] = NoInode /\ "operator" \in Config[p]
      BY <2>1, <1>l DEF Listening, Asked, Owning
  <2>3. PICK s \in {"bind", "recheck", "check", "remove"} : GoTo(p, s)
      BY <1>5 DEF Examine, Recheck, Remove
  <2> QED
      BY <2>1, <2>2, <2>3, MoveKeepsLock DEF Owning
<1>6. ASSUME NEW p \in Processes, NEW i \in Free, BindOperator(p, i)
      PROVE  LockIsAccountedFor' /\ Asked'
  <2>1. pc[p] = "bind" /\ lock = p /\ lock' = lock /\ "operator" \in Config[p] /\ p # NoProcess
      BY <1>6, <1>n DEF BindOperator, Locking, Asked, Owning
  <2>2. listener[p]["operator"] = NoInode
      BY <2>1, <1>l DEF Listening
  <2>3. CASE GoTo(p, "check") /\ UNCHANGED listener
      BY <2>1, <2>2, <2>3, MoveKeepsLock DEF Owning
  <2>4. CASE Bind(p, "operator", i) /\ GoTo(p, "capture")
    <3>1. \A q \in Processes : q # p => listener'[q]["operator"] = listener[q]["operator"]
        BY <2>4, <1>a DEF Bind, TypeOK
    <3>2. \A q \in Processes : pc'[q] = IF q = p THEN "capture" ELSE pc[q]
        BY <2>4 DEF GoTo, TypeOK
    <3>3. ASSUME NEW q \in Processes, listener'[q]["operator"] # NoInode
          PROVE  lock' = q /\ pc'[q] \in Listening
        BY <2>1, <3>1, <3>2, <3>3, <1>l DEF Listening
    <3> QED
        BY <2>1, <3>2, <3>3 DEF LockIsAccountedFor, Asked, Owning
  <2> QED
      BY <1>6, <2>3, <2>4 DEF BindOperator
<1>7. ASSUME NEW p \in Processes, Capture(p) \/ Publish(p)
      PROVE  LockIsAccountedFor' /\ Asked'
  <2>1. pc[p] \in {"capture", "publish"} /\ UNCHANGED <<lock, listener>>
      BY <1>7 DEF Capture, Publish
  <2>2. "operator" \in Config[p]
      BY <2>1 DEF Asked, Owning
  <2>3. PICK s \in {"publish", "check", "serving"} : GoTo(p, s)
      BY <1>7 DEF Capture, Publish
  <2> QED
      BY <2>1, <2>2, <2>3, MoveKeepsLock DEF Owning, Listening
<1>8. ASSUME NEW p \in Processes, Close(p) \/ Unlock(p)
      PROVE  LockIsAccountedFor' /\ Asked'
  <2>1. pc[p] \in {"close", "unlock"} /\ lock = p /\ "operator" \in Config[p] /\ p # NoProcess
      BY <1>8, <1>n DEF Close, Unlock, Locking, Asked, Owning
  <2>2. PICK s \in {"check", "check observation"} :
          /\ \A q \in Processes : pc'[q] = IF q = p THEN s ELSE pc[q]
          /\ IF s = "check" THEN lock' = p ELSE lock' = NoProcess
      BY <1>8, <2>1 DEF Close, Unlock, GoTo, TypeOK
  <2>3. listener' = [listener EXCEPT ![p]["operator"] = NoInode]
      BY <1>8 DEF Close, Unlock
  <2>4. \A q \in Processes : listener'[q]["operator"] = IF q = p THEN NoInode ELSE listener[q]["operator"]
      BY <2>3, <1>a DEF TypeOK
  <2>5. \A q \in Processes : listener'[q]["operator"] = NoInode
      BY <2>1, <2>4, <1>l
  <2> QED
      BY <2>1, <2>2, <2>5 DEF LockIsAccountedFor, Asked, Owning
<1>9. ASSUME NEW p \in Processes, Check(p) \/ Unlink(p)
      PROVE  LockIsAccountedFor' /\ Asked'
  <2>1. pc[p] \in {"check", "unlink"} /\ UNCHANGED <<lock, listener>>
      BY <1>9 DEF Check, Unlink
  <2>2. "operator" \in Config[p]
      BY <2>1 DEF Asked, Owning
  <2>3. PICK s \in {"unlink", "unlock"} : GoTo(p, s)
      BY <1>9 DEF Check, Unlink
  <2> QED
      BY <2>1, <2>2, <2>3, MoveKeepsLock DEF Owning, Listening
<1>10. ASSUME NEW p \in Processes, CheckObservation(p) \/ UnlinkObservation(p)
       PROVE  LockIsAccountedFor' /\ Asked'
  <2>1. pc[p] \in {"check observation", "unlink observation"} /\ UNCHANGED <<lock, listener>>
      BY <1>10 DEF CheckObservation, UnlinkObservation
  <2>2. lock # p
      BY <2>1, <1>h DEF Owning, Serves
  <2>3. PICK s \in {"unlink observation", "end"} : GoTo(p, s)
      BY <1>10 DEF CheckObservation, UnlinkObservation
  <2> QED
      BY <2>1, <2>2, <2>3, MoveKeepsLock DEF Owning
<1>11. ASSUME NEW p \in Processes, Refuse(p)
       PROVE  LockIsAccountedFor' /\ Asked'
  <2>1. pc[p] \in Starting /\ UNCHANGED <<lock, listener>> /\ GoTo(p, Undo(pc[p]))
      BY <1>11 DEF Refuse
  <2>2. CASE pc[p] \in {"bind observation", "publish observation", "lock"}
    <3>1. lock # p /\ Undo(pc[p]) \in {"end", "check observation"}
        BY <2>2, <1>h DEF Owning, Serves, Undo
    <3> QED
        BY <2>1, <3>1, MoveKeepsLock DEF Owning
  <2>3. CASE pc[p] \notin {"bind observation", "publish observation", "lock"}
    <3>1. pc[p] \in Owning /\ Undo(pc[p]) = "check"
        BY <2>1, <2>3 DEF Owning, Undo, Starting
    <3>2. "operator" \in Config[p]
        BY <3>1 DEF Asked
    <3> QED
        BY <2>1, <3>1, <3>2, MoveKeepsLock DEF Owning, Listening
  <2> QED
      BY <2>2, <2>3
<1>12. ASSUME NEW p \in Processes, Terminate(p)
       PROVE  LockIsAccountedFor' /\ Asked'
  <2>1. /\ pc[p] = "serving" /\ UNCHANGED <<lock, listener>>
        /\ GoTo(p, IF "operator" \in Config[p] THEN "close" ELSE "check observation")
      BY <1>12 DEF Terminate
  <2>2. lock = p => "operator" \in Config[p]
      BY <2>1, <1>h DEF Owning, Serves
  <2> QED
      BY <2>1, <2>2, MoveKeepsLock DEF Owning, Listening
<1>13. ASSUME NEW p \in Processes, Gone(p)
       PROVE  LockIsAccountedFor' /\ Asked'
  <2>1. /\ lock' = IF lock = p THEN NoProcess ELSE lock
        /\ \A q \in Processes : pc'[q] = IF q = p THEN "down" ELSE pc[q]
        /\ \A q \in Processes : q # p => listener'[q] = listener[q]
        /\ listener'[p]["operator"] = NoInode
      BY <1>13, <1>a DEF Gone, GoTo, TypeOK, None
  <2>2. ASSUME NEW q \in Processes, listener'[q]["operator"] # NoInode
        PROVE  lock' = q /\ pc'[q] \in Listening
      BY <2>1, <2>2, <1>l
  <2>3. (lock # NoProcess => pc[lock] \in Owning \/ Serves(lock))'
      BY <2>1 DEF LockIsAccountedFor, Serves, TypeOK
  <2>4. Asked'
      BY <2>1 DEF Asked, Owning
  <2> QED
      BY <2>2, <2>3, <2>4 DEF LockIsAccountedFor
<1>14. CASE (\E a \in Apis : Clear(a)) \/ UNCHANGED vars
    BY <1>14 DEF Clear, vars, LockIsAccountedFor, Asked, Serves
<1> QED
    BY <1>1, <1>2, <1>3, <1>4, <1>5, <1>6, <1>7, <1>8, <1>9, <1>10, <1>11, <1>12, <1>13,
       <1>14 DEF Next, Step, End, Kill

\* A step that changes the inode a path names removes it or takes it while it
\* names nothing.
LEMMA PathStep ==
  ASSUME TypeOK, Distinct, Observing, Locking, LockIsAccountedFor, [Next]_vars,
         NEW p \in Processes, NEW a \in Apis,
         listener[p][a] # NoInode, entry[a].inode = listener[p][a],
         entry'[a].inode # entry[a].inode
  PROVE  pc[p] \in {"unlink", "unlink observation"} /\ pc'[p] # pc[p]
<1>a. "observation" \in Apis /\ "operator" \in Apis /\ "observation" # "operator"
    BY DEF Apis
<1>e. /\ \A b \in Apis : entry[b] \in Entries
      /\ entry[a] # Nothing /\ entry' # entry
    BY DEF TypeOK, Nothing
<1>1. ASSUME NEW q \in Processes, NEW i \in Free, BindObservation(q, i)
      PROVE  FALSE
    BY <1>1, <1>a, <1>e DEF BindObservation, Bind, TypeOK
<1>2. ASSUME NEW q \in Processes, NEW i \in Free, BindOperator(q, i)
      PROVE  FALSE
    BY <1>2, <1>a, <1>e DEF BindOperator, Bind, TypeOK
<1>3. ASSUME NEW q \in Processes, PublishObservation(q) \/ Publish(q)
      PROVE  FALSE
  <2>1. PICK b \in Apis : entry[b] # Nothing /\ entry' = [entry EXCEPT ![b] = Published(@)]
      BY <1>3, <1>a, <1>e DEF PublishObservation, Publish
  <2>2. \A c \in Apis : entry'[c].inode = entry[c].inode
      BY <1>e, <2>1, EntryFacts DEF TypeOK, Published
  <2> QED
      BY <2>2
<1>4. ASSUME NEW q \in Processes, Remove(q)
      PROVE  FALSE
  <2>1. a = "operator" /\ pc[q] = "remove" /\ lock = q
      BY <1>4, <1>a, <1>e DEF Remove, Unlinked, TypeOK, Locking, Owning
  <2> QED
      BY <2>1 DEF LockIsAccountedFor, Listening
<1>5. ASSUME NEW q \in Processes, Unlink(q)
      PROVE  pc[p] \in {"unlink", "unlink observation"} /\ pc'[p] # pc[p]
  <2>1. a = "operator" /\ pc[q] = "unlink" /\ lock = q /\ pc'[q] = "unlock"
      BY <1>5, <1>a, <1>e DEF Unlink, Unlinked, TypeOK, Locking, Owning, GoTo
  <2> QED
      BY <2>1 DEF LockIsAccountedFor
<1>6. ASSUME NEW q \in Processes, UnlinkObservation(q)
      PROVE  pc[p] \in {"unlink", "unlink observation"} /\ pc'[p] # pc[p]
  <2>1. a = "observation" /\ pc[q] = "unlink observation" /\ pc'[q] = "end"
      BY <1>6, <1>a, <1>e DEF UnlinkObservation, Unlinked, TypeOK, GoTo
  <2>2. entry[a].inode = listener[q][a] /\ listener[q][a] # NoInode
      BY <2>1 DEF Observing, Observes
  <2>3. p = q
      BY <2>2 DEF Distinct
  <2> QED
      BY <2>1, <2>3
<1>7. ASSUME NEW b \in Apis, Clear(b)
      PROVE  FALSE
  <2>1. a = b
      BY <1>7, <1>e DEF Clear, Unlinked, TypeOK
  <2> QED
      BY <1>7, <2>1 DEF Clear, Left, Live
<1>8. CASE UNCHANGED entry
    BY <1>8
<1>9. ASSUME NEW q \in Processes,
             \/ Start(q) \/ Lock(q) \/ Examine(q) \/ Recheck(q) \/ Capture(q) \/ Close(q)
             \/ Check(q) \/ Unlock(q) \/ CheckObservation(q) \/ End(q) \/ Refuse(q)
             \/ Terminate(q) \/ Kill(q)
      PROVE  UNCHANGED entry
    BY <1>9 DEF Start, Lock, Examine, Recheck, Capture, Close, Check, Unlock, CheckObservation,
         End, Kill, Gone, Refuse, Terminate
<1> QED
    BY <1>1, <1>2, <1>3, <1>4, <1>5, <1>6, <1>7, <1>8, <1>9 DEF Next, Step, vars

LEMMA LockInvariance == Spec => [](IInv /\ LockIsAccountedFor /\ Asked)
<1>1. Init => LockIsAccountedFor /\ Asked
    BY DEF Init, LockIsAccountedFor, Asked, Owning, None, Apis
<1>2. IInv /\ LockIsAccountedFor /\ Asked /\ [Next]_vars => LockIsAccountedFor' /\ Asked'
    BY LockStep DEF IInv
<1> QED
    BY <1>1, <1>2, Invariance, PTL DEF Spec

\* The lock is never left behind: whoever fails, is stopped or is killed, it is
\* free or its holder is at work on the operator's socket, and nobody listens
\* there without it.
THEOREM LockIsNotLeftBehind == Spec => []LockIsAccountedFor
BY LockInvariance, PTL

\* From its bind to its own removal no other process takes the path away from a
\* socket, whether it is served already, or still, or its start failed.
THEOREM ListenersKeepTheirPath == Spec => LeavesListenersTheirPath
<1>1. IInv /\ LockIsAccountedFor /\ [Next]_vars => KeepsPaths
  <2> SUFFICES ASSUME TypeOK, Distinct, Observing, Locking, LockIsAccountedFor, [Next]_vars,
                      NEW p \in Processes, NEW a \in Apis,
                      listener[p][a] # NoInode, entry[a].inode = listener[p][a],
                      entry'[a].inode # entry[a].inode
               PROVE  pc[p] \in {"unlink", "unlink observation"} /\ pc'[p] # pc[p]
      BY DEF KeepsPaths, IInv
  <2> QED
      BY PathStep
<1>2. Spec => [][KeepsPaths]_vars
    BY <1>1, LockInvariance, PTL DEF Spec
<1> QED
    BY <1>2 DEF LeavesListenersTheirPath
=============================================================================
