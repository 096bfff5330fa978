------------------------ MODULE ParallelScriptsProofs ------------------------
(***************************************************************************)
(* What ParallelScripts promises for any number of processes, of files and *)
(* of calls of configure() within one another.  PcInv ties the levels, the *)
(* directory and the archive of a process to where it is; AloneInv is what *)
(* the agent does when commands do not run in parallel, OwnInv what the    *)
(* lock does when they do.                                                 *)
(***************************************************************************)
EXTENDS ParallelScripts, TLAPS

Configuring == {"lock", "body", "rest", "unlock"}
Archived == {"name", "write", "open", "add", "close", "delete"}

Pc(p) ==
    /\ pc[p] = "lock" => level[p] < MaxLevel
    /\ pc[p] \in {"body", "rest", "unlock"} => level[p] > 0
    /\ pc[p] \notin Configuring => level[p] = 0
    /\ level[p] = 0 => ~exposed[p]
    /\ pc[p] \in Archived => dir[p] \in SUBSET Files
    /\ pc[p] \in {"idle", "mkdir", "done", "failed"} \union Configuring => dir[p] = None
    /\ pc[p] \in {"open", "add"} => dir[p] = Files
    /\ pc[p] \in {"idle", "mkdir", "name", "write", "open"} \union Configuring
           => archive.writer # p

PcInv == \A p \in Processes : Pc(p)

LEMMA InitTypeOK == Init => TypeOK /\ PcInv
  BY LevelAssumption, NoneAssumption
     DEF Init, TypeOK, PcInv, Pc, Pcs, Configuring, Archived, Ended, Archives

LEMMA NewArchive ==
  ASSUME NEW p \in Processes
  PROVE  [writer |-> p, members |-> {}, closed |-> FALSE, torn |-> FALSE] \in Archives
  BY DEF Archives

\* What a write may make of an archive; its writer stays.
LEMMA WrittenArchive ==
  ASSUME archive \in Archives
  PROVE  /\ \A f \in Files : [archive EXCEPT !.members = @ \union {f}] \in Archives
         /\ [archive EXCEPT !.closed = TRUE] \in Archives
         /\ [archive EXCEPT !.torn = TRUE] \in Archives
         /\ \A f \in Files :
               [archive EXCEPT !.members = @ \union {f}].writer = archive.writer
         /\ [archive EXCEPT !.closed = TRUE].writer = archive.writer
         /\ [archive EXCEPT !.torn = TRUE].writer = archive.writer
  BY DEF Archives

\* A step of one process: of the others it changes nothing but the archive.
LEMMA NextTypeOK == TypeOK /\ PcInv /\ [Next]_vars => TypeOK' /\ PcInv'
<1> SUFFICES ASSUME TypeOK, PcInv, [Next]_vars PROVE TypeOK' /\ PcInv'
  OBVIOUS
<1> USE LevelAssumption, NoneAssumption
    DEF TypeOK, PcInv, Pc, Pcs, Configuring, Archived, Ended, Goto, Raise
<1>1. ASSUME NEW p \in Processes, Launch(p) PROVE TypeOK' /\ PcInv'
  BY <1>1 DEF Launch, locking, archiving
<1>2. ASSUME NEW p \in Processes, Lock(p) PROVE TypeOK' /\ PcInv'
  <2> USE <1>2 DEF Lock, Acquire, LockIsFree, LockFails, Inside, archiving
  <2>1. level' \in [Processes -> 0..MaxLevel] /\ level'[p] > 0
    OBVIOUS
  <2>2. \A q \in Processes \ {p} : level'[q] = level[q] /\ pc'[q] = pc[q]
    OBVIOUS
  <2>3. exposed' \in [Processes -> BOOLEAN]
    OBVIOUS
  <2>4. \A q \in Processes \ {p} : exposed'[q] = exposed[q]
    OBVIOUS
  <2>5. owner' \in {owner, p} /\ UNCHANGED <<parallel, raised, dir, archive>>
    OBVIOUS
  <2>6. pc' \in [Processes -> Pcs] /\ pc'[p] = "body"
    OBVIOUS
  <2>7. TypeOK'
    BY <2>1, <2>2, <2>3, <2>5, <2>6
  <2>8. Pc(p)'
    BY <2>1, <2>5, <2>6
  <2>9. \A q \in Processes \ {p} : Pc(q)'
    BY <2>2, <2>4, <2>5
  <2> QED BY <2>7, <2>8, <2>9
<1>3. ASSUME NEW p \in Processes, Body(p) PROVE TypeOK' /\ PcInv'
  <2> USE <1>3 DEF Body, locking, archiving
  <2>1. UNCHANGED <<parallel, level, owner, exposed, dir, archive>>
    OBVIOUS
  <2>2. pc' \in [Processes -> Pcs] /\ raised' \in [Processes -> BOOLEAN]
    OBVIOUS
  <2>3. pc'[p] = "unlock" \/ (pc'[p] = "lock" /\ level[p] < MaxLevel)
    OBVIOUS
  <2>4. \A q \in Processes \ {p} : pc'[q] = pc[q]
    OBVIOUS
  <2>5. Pc(p)'
    BY <2>1, <2>3
  <2>6. \A q \in Processes \ {p} : Pc(q)'
    BY <2>1, <2>4
  <2> QED BY <2>1, <2>2, <2>5, <2>6
<1>4. ASSUME NEW p \in Processes, Unlock(p) PROVE TypeOK' /\ PcInv'
  <2> USE <1>4 DEF Unlock, archiving
  <2>1. level[p] > 0 /\ level'[p] = level[p] - 1
    OBVIOUS
  <2>2. level' \in [Processes -> 0..MaxLevel]
    BY <2>1
  <2>3. \A q \in Processes \ {p} :
           level'[q] = level[q] /\ pc'[q] = pc[q] /\ exposed'[q] = exposed[q]
    OBVIOUS
  <2>4. exposed' \in [Processes -> BOOLEAN]
    OBVIOUS
  <2>5. level'[p] = 0 => ~(level[p] > 1)
    BY <2>1
  <2>6. level'[p] = 0 => ~exposed'[p]
    BY <2>5
  <2>7. UNCHANGED <<parallel, raised, dir, archive>>
    OBVIOUS
  <2>8. owner' = None \/ (owner' = owner /\ owner # p)
    OBVIOUS
  <2>9. pc' \in [Processes -> Pcs]
    OBVIOUS
  <2>10. IF level'[p] = 0 THEN pc'[p] \in {"failed", "done"}
                          ELSE pc'[p] \in {"unlock", "rest"}
    BY <2>1
  <2>11. TypeOK'
    BY <2>2, <2>3, <2>4, <2>7, <2>8, <2>9
  <2>12. Pc(p)'
    <3>1. level'[p] \in 0..MaxLevel /\ dir'[p] = None /\ archive'.writer # p
      BY <2>2, <2>7
    <3> QED BY <3>1, <2>6, <2>10
  <2>13. \A q \in Processes \ {p} : Pc(q)'
    BY <2>3, <2>7
  <2> QED BY <2>11, <2>12, <2>13
<1>5. ASSUME NEW p \in Processes, Mkdir(p) PROVE TypeOK' /\ PcInv'
  BY <1>5 DEF Mkdir, locking
<1>6. ASSUME NEW p \in Processes, Name(p) PROVE TypeOK' /\ PcInv'
  BY <1>6 DEF Name, locking, archiving
<1>7. ASSUME NEW p \in Processes, Write(p) PROVE TypeOK' /\ PcInv'
  <2> USE <1>7 DEF Write, MissingDictionary, locking
  <2>1. UNCHANGED <<parallel, level, owner, exposed, archive>>
    OBVIOUS
  <2>2. pc' \in [Processes -> Pcs] /\ raised' \in [Processes -> BOOLEAN]
    OBVIOUS
  <2>3. dir' \in [Processes -> {None} \union SUBSET Files] /\ dir'[p] \in SUBSET Files
    OBVIOUS
  <2>4. pc'[p] \in {"write", "delete"} \/ (pc'[p] = "open" /\ dir'[p] = Files)
    OBVIOUS
  <2>5. \A q \in Processes \ {p} : pc'[q] = pc[q] /\ dir'[q] = dir[q]
    OBVIOUS
  <2>6. Pc(p)'
    BY <2>1, <2>3, <2>4
  <2>7. \A q \in Processes \ {p} : Pc(q)'
    BY <2>1, <2>5
  <2> QED BY <2>1, <2>2, <2>3, <2>6, <2>7
<1>8. ASSUME NEW p \in Processes, Open(p) PROVE TypeOK' /\ PcInv'
  <2> USE <1>8 DEF Open, locking
  <2>1. UNCHANGED <<parallel, level, owner, exposed, dir>>
    OBVIOUS
  <2>2. pc' \in [Processes -> Pcs] /\ raised' \in [Processes -> BOOLEAN]
    OBVIOUS
  <2>3. archive' \in Archives /\ archive'.writer \in {archive.writer, p}
    BY NewArchive
  <2>4. pc'[p] \in {"add", "close", "delete"}
    OBVIOUS
  <2>5. \A q \in Processes \ {p} : pc'[q] = pc[q]
    OBVIOUS
  <2>6. Pc(p)'
    BY <2>1, <2>4
  <2>7. \A q \in Processes \ {p} : Pc(q)'
    BY <2>1, <2>3, <2>5
  <2> QED BY <2>1, <2>2, <2>3, <2>6, <2>7
<1>9. ASSUME NEW p \in Processes, Add(p) PROVE TypeOK' /\ PcInv'
  <2> USE <1>9 DEF Add, Wrote, locking
  <2>1. UNCHANGED <<parallel, level, owner, exposed, dir>>
    OBVIOUS
  <2>2. pc' \in [Processes -> Pcs] /\ raised' \in [Processes -> BOOLEAN]
    OBVIOUS
  <2>3. archive' \in Archives /\ archive'.writer \in {archive.writer, p}
    <3>1. \A f \in dir[p] \ archive.members : f \in Files
      OBVIOUS
    <3>2. \/ UNCHANGED archive
          \/ archive' = [archive EXCEPT !.torn = TRUE]
          \/ \E f \in Files : archive' = [archive EXCEPT !.members = @ \union {f}]
      BY <3>1
    <3>3. archive \in Archives
      OBVIOUS
    <3> HIDE DEF Add, Wrote, TypeOK, PcInv, Pc
    <3>4. CASE UNCHANGED archive
      BY <3>3, <3>4
    <3>5. CASE archive' = [archive EXCEPT !.torn = TRUE]
      BY <3>3, <3>5, WrittenArchive
    <3>6. ASSUME NEW f \in Files, archive' = [archive EXCEPT !.members = @ \union {f}]
          PROVE  archive' \in Archives /\ archive'.writer \in {archive.writer, p}
      BY <3>3, <3>6, WrittenArchive
    <3> QED BY <3>2, <3>4, <3>5, <3>6
  <2>4. pc'[p] \in {"add", "close", "delete"}
    OBVIOUS
  <2>5. \A q \in Processes \ {p} : pc'[q] = pc[q]
    OBVIOUS
  <2>6. Pc(p)'
    BY <2>1, <2>4
  <2>7. \A q \in Processes \ {p} : Pc(q)'
    BY <2>1, <2>3, <2>5
  <2> QED BY <2>1, <2>2, <2>3, <2>6, <2>7
<1>10. ASSUME NEW p \in Processes, Close(p) PROVE TypeOK' /\ PcInv'
  BY <1>10, WrittenArchive DEF Close, Wrote, locking
<1>11. ASSUME NEW p \in Processes, Delete(p) PROVE TypeOK' /\ PcInv'
  BY <1>11 DEF Delete, locking
<1>12. ASSUME NEW p \in Processes, Kill(p) PROVE TypeOK' /\ PcInv'
  BY <1>12 DEF Kill, Running, archiving
<1>13. CASE UNCHANGED vars
  BY <1>13 DEF vars, locking, archiving
<1> QED
  BY <1>1, <1>2, <1>3, <1>4, <1>5, <1>6, <1>7, <1>8, <1>9, <1>10, <1>11,
     <1>12, <1>13 DEF Next, Configure, GenerateConfigs

(* The variables have their types: calls of configure() are undone as often*)
(* as they are made, and the lock is only owned by a process that is in    *)
(* one.                                                                    *)
THEOREM TypeCorrect == Spec => []TypeOK
  BY InitTypeOK, NextTypeOK, PTL DEF Spec

(* No directory with configuration files is left but by a process that was *)
(* killed, had no name for its archive or could not delete it.             *)
THEOREM DirectoryDeleted == Spec => []NothingLeft
<1>1. PcInv => NothingLeft
  BY DEF PcInv, Pc, NothingLeft
<1> QED BY InitTypeOK, NextTypeOK, <1>1, PTL DEF Spec

-----------------------------------------------------------------------------
(* The archive.                                                            *)
AloneInv ==
    ~parallel =>
        /\ \A p, q \in Processes : Running(p) /\ Running(q) => p = q
        /\ \A p \in Processes : pc[p] \in {"add", "close"} => archive.writer = p
        /\ ~archive.torn

\* How far the archive is, for the process that writes it.
Progress(p) ==
    archive.writer = p /\ ~archive.torn /\ ~raised[p] =>
        /\ pc[p] \in {"close", "delete", "done"} => archive.members = Files
        /\ pc[p] \in {"delete", "done"} => archive.closed

ArchiveInv ==
    /\ \A p \in Processes : Progress(p)
    /\ \A p \in Processes : pc[p] = "done" => ~raised[p]
    /\ \A p \in Processes : pc[p] = "idle" => ~raised[p]

LEMMA InitAlone == Init => AloneInv /\ ArchiveInv
  BY DEF Init, AloneInv, ArchiveInv, Progress, Running, Ended

LEMMA NextAlone == TypeOK /\ PcInv /\ AloneInv /\ [Next]_vars => AloneInv'
<1> SUFFICES ASSUME TypeOK, PcInv, AloneInv, [Next]_vars, ~parallel'
             PROVE  /\ \A p, q \in Processes : Running(p)' /\ Running(q)' => p = q
                    /\ \A p \in Processes :
                          pc'[p] \in {"add", "close"} => archive'.writer = p
                    /\ ~archive'.torn
  BY DEF AloneInv
<1> USE DEF TypeOK, AloneInv, Running, Ended, Goto
<1>1. ~parallel
  BY DEF Next, Launch, Configure, GenerateConfigs, Lock, Acquire, LockIsFree, LockFails,
         Body, Unlock, Mkdir,
         Name, Write, MissingDictionary, Open, Add, Close, Delete, Kill, vars
<1>2. ASSUME NEW p \in Processes, Launch(p)
      PROVE  /\ \A q \in Processes \ {p} : pc'[q] = pc[q] /\ ~Running(q)
             /\ pc'[p] \notin {"add", "close"} /\ UNCHANGED archive
  BY <1>1, <1>2 DEF Launch, archiving
<1>3. ASSUME NEW p \in Processes, Configure(p) \/ GenerateConfigs(p) \/ Kill(p)
      PROVE  /\ Running(p)
             /\ \A q \in Processes \ {p} : pc'[q] = pc[q] /\ ~Running(q)
  <2>1. Running(p)
    BY <1>3 DEF Configure, GenerateConfigs, Lock, Acquire, LockIsFree, LockFails,
         Body, Unlock, Mkdir,
         Name, Write, MissingDictionary, Open, Add, Close, Delete, Kill
  <2>2. \A q \in Processes \ {p} : pc'[q] = pc[q]
    BY <1>3 DEF Configure, GenerateConfigs, Lock, Acquire, LockIsFree, LockFails,
         Inside, Body, Unlock, Mkdir,
         Name, Write, MissingDictionary, Open, Add, Close, Delete, Kill
  <2> QED BY <1>1, <2>1, <2>2
<1>4. ASSUME NEW p \in Processes, Configure(p) \/ GenerateConfigs(p) \/ Kill(p)
      PROVE  /\ pc'[p] \in {"add", "close"} => archive'.writer = p
             /\ ~archive'.torn
  BY <1>1, <1>4 DEF Configure, GenerateConfigs, Lock, Acquire, LockIsFree, LockFails,
         Inside, Body, Unlock,
       Mkdir, Name, Write, MissingDictionary, Open, Add, Close, Delete, Kill, Wrote, archiving,
       Archives
<1>5. CASE UNCHANGED vars
  BY <1>1, <1>5 DEF vars, archiving
<1>6. ASSUME NEW p \in Processes,
             Launch(p) \/ Configure(p) \/ GenerateConfigs(p) \/ Kill(p)
      PROVE  /\ \A q \in Processes \ {p} : pc'[q] = pc[q] /\ ~Running(q)
             /\ pc'[p] \in {"add", "close"} => archive'.writer = p
             /\ ~archive'.torn
  BY <1>1, <1>2, <1>3, <1>4, <1>6
<1>7. ASSUME NEW p \in Processes,
             Launch(p) \/ Configure(p) \/ GenerateConfigs(p) \/ Kill(p)
      PROVE  \A q \in Processes \ {p} :
                ~Running(q)' /\ pc'[q] \notin {"add", "close"}
  BY <1>6, <1>7
<1> QED BY <1>5, <1>6, <1>7 DEF Next

LEMMA NextArchive == TypeOK /\ PcInv /\ ArchiveInv /\ [Next]_vars => ArchiveInv'
<1> SUFFICES ASSUME TypeOK, PcInv, ArchiveInv, [Next]_vars PROVE ArchiveInv'
  OBVIOUS
<1> USE NoneAssumption
    DEF TypeOK, PcInv, Pc, ArchiveInv, Progress, Goto, Raise, Configuring
<1>1. ASSUME NEW p \in Processes, Launch(p) PROVE ArchiveInv'
  BY <1>1 DEF Launch, archiving
<1>2. ASSUME NEW p \in Processes, Configure(p) PROVE ArchiveInv'
  BY <1>2 DEF Configure, Lock, Acquire, LockIsFree, LockFails, Inside, Body, Unlock, archiving
<1>3. ASSUME NEW p \in Processes, Mkdir(p) \/ Name(p) PROVE ArchiveInv'
  BY <1>3 DEF Mkdir, Name, archiving
<1>4. ASSUME NEW p \in Processes, Write(p) PROVE ArchiveInv'
  BY <1>4 DEF Write, MissingDictionary
<1>5. ASSUME NEW p \in Processes, Open(p) PROVE ArchiveInv'
  BY <1>5 DEF Open
<1>6. ASSUME NEW p \in Processes, Add(p) PROVE ArchiveInv'
  <2> USE <1>6 DEF Add, Wrote, Archives
  <2>1. \A q \in Processes \ {p} : pc'[q] = pc[q] /\ raised'[q] = raised[q]
    OBVIOUS
  <2>2. pc'[p] \in {"add", "close"}
    OBVIOUS
  <2>3. archive'.writer = archive.writer
    OBVIOUS
  <2>4. archive.writer # p => UNCHANGED archive \/ archive'.torn
    OBVIOUS
  <2>5. \A q \in Processes \ {p} : Progress(q)'
    BY <2>1, <2>3, <2>4
  <2>6. ASSUME pc'[p] = "close", archive.writer = p, ~raised'[p]
        PROVE  archive'.members = Files
    BY <2>6
  <2>7. Progress(p)'
    BY <2>2, <2>3, <2>6
  <2> QED BY <2>1, <2>2, <2>5, <2>7
<1>7. ASSUME NEW p \in Processes, Close(p) PROVE ArchiveInv'
  BY <1>7 DEF Close, Wrote
<1>8. ASSUME NEW p \in Processes, Delete(p) PROVE ArchiveInv'
  BY <1>8 DEF Delete
<1>9. ASSUME NEW p \in Processes, Kill(p) PROVE ArchiveInv'
  BY <1>9 DEF Kill, archiving
<1>10. CASE UNCHANGED vars
  BY <1>10 DEF vars, archiving
<1> QED
  BY <1>1, <1>2, <1>3, <1>4, <1>5, <1>6, <1>7, <1>8, <1>9, <1>10
     DEF Next, GenerateConfigs

(* Unless another process wrote to it in between, which takes parallel     *)
(* execution, the archive of a command that ended well has all its files.  *)
THEOREM ArchiveWhole == Spec => []ArchiveIsWhole
<1>1. PcInv /\ AloneInv /\ ArchiveInv => ArchiveIsWhole
  BY DEF PcInv, Pc, AloneInv, ArchiveInv, Progress, ArchiveIsWhole
<1> QED
  BY InitTypeOK, NextTypeOK, InitAlone, NextAlone, NextArchive, <1>1, PTL DEF Spec

-----------------------------------------------------------------------------
(* The lock.                                                               *)
OwnInv == parallel => \A p \in Processes : Protected(p) => owner = p

LEMMA NextOwn == TypeOK /\ PcInv /\ OwnInv /\ [Next]_vars => OwnInv'
<1> SUFFICES ASSUME TypeOK, PcInv, OwnInv, [Next]_vars PROVE OwnInv'
  OBVIOUS
<1> USE NoneAssumption DEF TypeOK, PcInv, Pc, OwnInv, Protected
<1>1. ASSUME NEW p \in Processes, Lock(p) PROVE OwnInv'
  <2>1. parallel' = parallel /\ \A q \in Processes \ {p} : Protected(q)' = Protected(q)
    BY <1>1 DEF Lock, Acquire, LockIsFree, LockFails, Inside
  <2>2. CASE Acquire(p)
    <3>1. parallel => owner \in {None, p} /\ owner' = p
      BY <2>2 DEF Acquire, LockIsFree
    <3> QED BY <2>1, <3>1
  <2>3. CASE LockFails(p)
    <3>1. UNCHANGED owner /\ ~Protected(p)'
      BY <2>3 DEF LockFails
    <3> QED BY <2>1, <3>1
  <2> QED BY <1>1, <2>2, <2>3 DEF Lock
<1>2. ASSUME NEW p \in Processes, Unlock(p) PROVE OwnInv'
  <2> USE <1>2 DEF Unlock
  <2>1. parallel' = parallel /\ (owner' = owner \/ owner = p)
    OBVIOUS
  <2>2. \A q \in Processes \ {p} : level'[q] = level[q] /\ exposed'[q] = exposed[q]
    OBVIOUS
  <2>3. ASSUME parallel PROVE ~Protected(p)'
    <3>1. level[p] > 0 /\ level'[p] = level[p] - 1
      BY DEF Configuring
    <3>2. exposed'[p] = (level[p] > 1)
      BY <2>3
    <3>3. level'[p] > 0 => level[p] > 1
      BY <3>1
    <3> QED BY <3>2, <3>3
  <2>4. \A q \in Processes \ {p} : Protected(q)' = Protected(q)
    BY <2>2
  <2> QED BY <2>1, <2>3, <2>4
<1>3. ASSUME NEW p \in Processes, Kill(p) PROVE OwnInv'
  BY <1>3 DEF Kill
<1>4. ASSUME NEW p \in Processes, Launch(p) \/ Body(p) \/ GenerateConfigs(p)
      PROVE  UNCHANGED <<parallel, locking>>
  BY <1>4 DEF Launch, Body, GenerateConfigs, Mkdir, Name, Write, MissingDictionary, Open, Add,
              Close, Delete
<1> QED
  BY <1>1, <1>2, <1>3, <1>4 DEF Next, Configure, vars, locking

(* Whoever waits for the lock waits for one process that runs and does not *)
(* wait: the owner is in a configure(), and its own lock is free to it.    *)
THEOREM NobodyWaitsForEver == Spec => []NobodyStuck
<1>1. ASSUME TypeOK, PcInv PROVE NobodyStuck
  <2> SUFFICES ASSUME NEW p \in Processes, Waiting(p)
               PROVE  owner \in Processes /\ Running(owner) /\ ~Waiting(owner)
    BY DEF NobodyStuck
  <2>1. owner \in Processes /\ level[owner] > 0
    BY <1>1 DEF Waiting, LockIsFree, TypeOK
  <2>2. Running(owner)
    BY <1>1, <2>1 DEF PcInv, Pc, Configuring, Running, Ended, TypeOK
  <2>3. ~Waiting(owner)
    BY DEF Waiting, LockIsFree
  <2> QED BY <2>1, <2>2, <2>3
<1> QED BY InitTypeOK, NextTypeOK, <1>1, PTL DEF Spec

LEMMA InsideAlone ==
  ASSUME TypeOK, PcInv, AloneInv, OwnInv
  PROVE  \A p, q \in Processes : Protected(p) /\ Protected(q) => p = q
  BY DEF TypeOK, PcInv, Pc, AloneInv, OwnInv, Protected, Running, Ended, Configuring

\* A step changes whether its own process is protected, at most.
LEMMA OthersProtected ==
  ASSUME TypeOK, NEW p \in Processes,
         Launch(p) \/ Configure(p) \/ GenerateConfigs(p) \/ Kill(p)
  PROVE  \A q \in Processes \ {p} : Protected(q)' = Protected(q)
  BY DEF TypeOK, Protected, Launch, Configure, GenerateConfigs, Kill, Lock, Acquire, LockIsFree,
         LockFails, Inside, Body, Unlock, Mkdir, Name, Write, MissingDictionary, Open, Add, Close,
         Delete, locking

\* A process that becomes protected finds none that is.
LEMMA NoneInside ==
  ASSUME TypeOK, PcInv, AloneInv, OwnInv, NEW p \in Processes,
         Launch(p) \/ Configure(p) \/ GenerateConfigs(p) \/ Kill(p),
         ~Protected(p), Protected(p)'
  PROVE  \A q \in Processes : ~Protected(q)
<1> USE DEF TypeOK, PcInv, Pc, Protected
<1>1. Lock(p)
  BY DEF Launch, Configure, GenerateConfigs, Kill, Body, Unlock, Mkdir, Name,
         Write, MissingDictionary, Open, Add, Close, Delete, locking
<1>2. CASE parallel
  <2>1. ~LockFails(p)
    BY DEF LockFails
  <2>2. owner \in {None, p}
    BY <1>1, <1>2, <2>1 DEF Lock, Acquire, LockIsFree
  <2> QED BY <1>2, <2>2, NoneAssumption DEF OwnInv
<1>3. CASE ~parallel
  BY <1>1, <1>3 DEF Lock, Acquire, LockIsFree, LockFails, AloneInv, Running, Ended, Configuring
<1> QED BY <1>2, <1>3

LEMMA NextPromise ==
  ASSUME TypeOK, PcInv, AloneInv, OwnInv, [Next]_vars
  PROVE  [Promise!Next]_{p \in Processes : Protected(p)}
<1> DEFINE In == {p \in Processes : Protected(p)}
<1>1. CASE UNCHANGED vars
  BY <1>1 DEF vars, locking, Protected
<1>2. ASSUME NEW p \in Processes,
             Launch(p) \/ Configure(p) \/ GenerateConfigs(p) \/ Kill(p)
      PROVE  [Promise!Next]_In
  <2>1. \A q \in Processes \ {p} : Protected(q)' = Protected(q)
    BY <1>2, OthersProtected
  <2>2. CASE Protected(p)' = Protected(p)
    BY <2>1, <2>2
  <2>3. CASE Protected(p) /\ ~Protected(p)'
    <3>1. p \in In /\ In' = In \ {p}
      BY <2>1, <2>3
    <3> QED BY <3>1 DEF Promise!Next, Promise!Leave
  <2>4. CASE ~Protected(p) /\ Protected(p)'
    <3>1. \A q \in Processes : ~Protected(q)
      BY <1>2, <2>4, NoneInside
    <3>2. In = {} /\ In' = {p}
      BY <2>1, <2>4, <3>1
    <3> QED BY <3>2 DEF Promise!Next, Promise!Enter
  <2> QED BY <2>2, <2>3, <2>4 DEF Protected
<1> QED BY <1>1, <1>2 DEF Next

(* The lock implements Turns: the processes that have the lock they asked  *)
(* for configure one at a time, on any number of processes, whatever is    *)
(* killed or raised, in parallel or not.                                   *)
THEOREM ConfigureTakesTurns == Spec => OneConfigures
<1>1. Init => OwnInv
  BY DEF Init, OwnInv, Protected
<1>2. Init => Promise!Init
  BY DEF Init, Promise!Init, Protected
<1>3. TypeOK /\ PcInv /\ AloneInv /\ OwnInv /\ [Next]_vars
        => [Promise!Next]_{p \in Processes : Protected(p)}
  BY NextPromise
<1> QED
  BY InitTypeOK, NextTypeOK, InitAlone, NextAlone, NextOwn, <1>1, <1>2, <1>3,
     PTL DEF Spec, OneConfigures, Promise!Spec
=============================================================================
