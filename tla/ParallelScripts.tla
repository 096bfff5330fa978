--------------------------- MODULE ParallelScripts ---------------------------
(***************************************************************************)
(* Commands that the agent of a host runs at the same time when its option *)
(* parallel_execution is set.  They meet in Script.tmp_dir: configure() is *)
(* called under the lock of the file link_configs_lock_file                *)
(* (LockedConfigureMeta), and generate_configs() writes an archive there,  *)
(* under no lock.                                                          *)
(***************************************************************************)
EXTENDS Naturals, FiniteSets

CONSTANTS
    Processes,
    Files,      \* the files of an archive: xml, env and properties
    MaxLevel,   \* bound: a configure() calls the one of its super class
    None        \* no process, no directory

ASSUME LevelAssumption == MaxLevel \in Nat \ {0}
ASSUME NoneAssumption == None \notin Processes

VARIABLES
    parallel,   \* agentConfigParams/agent/parallel_execution is 1
    pc,         \* what each process does next
    level,      \* calls of configure() a process is in
    owner,      \* the process that has the lock of the file
    exposed,    \* is a process in configure() without the lock it asked for
    raised,     \* is an exception on its way out of a process
    dir,        \* conf_tmp_dir of each process: its files, if there is one
    archive     \* the file output_filename, one for all

locking == <<level, owner, exposed>>
archiving == <<dir, archive>>
vars == <<parallel, pc, locking, raised, archiving>>

Ended == {"done", "failed", "nameless", "undeleted", "killed"}
Pcs == {"idle", "lock", "body", "rest", "unlock",
        "mkdir", "name", "write", "open", "add", "close", "delete"} \union Ended

Init ==
    /\ parallel \in BOOLEAN
    /\ pc = [p \in Processes |-> "idle"]
    /\ level = [p \in Processes |-> 0]
    /\ owner = None
    /\ exposed = [p \in Processes |-> FALSE]
    /\ raised = [p \in Processes |-> FALSE]
    /\ dir = [p \in Processes |-> None]
    /\ archive = [writer |-> None, members |-> {}, closed |-> TRUE, torn |-> FALSE]

Goto(p, label) == pc' = [pc EXCEPT ![p] = label]
Running(p) == pc[p] \notin Ended \union {"idle"}
Raise(p) == raised' = [raised EXCEPT ![p] = TRUE]

(* External: the agent runs a command that configures or one that          *)
(* generates the configuration files, one at a time unless parallel.       *)
Launch(p) ==
    /\ pc[p] = "idle"
    /\ parallel \/ \A q \in Processes : ~Running(q)
    /\ \E label \in {"lock", "mkdir"} : Goto(p, label)
    /\ UNCHANGED <<parallel, locking, raised, archiving>>

-----------------------------------------------------------------------------
(* locking_configure.                                                      *)
Inside(p, label) ==
    /\ level' = [level EXCEPT ![p] = @ + 1]
    /\ Goto(p, label)

\* Variant: a default of parallel_execution that is never 1.
AcquireDisabled(p) ==
    /\ pc[p] = "lock"
    /\ Inside(p, "body")
    /\ UNCHANGED <<parallel, owner, exposed, raised, archiving>>

\* Variant: flock, where a second lock of a process waits for its first.
LockIsFreeToFile(p) == parallel => owner = None

(* It is the process that owns a POSIX lock: it does not wait for itself.  *)
LockIsFree(p) == parallel => owner \in {None, p}

(* The lock is enabled by parallel_execution only.                         *)
Acquire(p) ==
    /\ pc[p] = "lock"
    /\ LockIsFree(p)
    /\ Inside(p, "body")
    /\ owner' = IF parallel THEN p ELSE owner
    /\ UNCHANGED <<parallel, exposed, raised, archiving>>

(* A lockf that fails is ignored (skip_fcntl_failures).                    *)
LockFails(p) ==
    /\ pc[p] = "lock"
    /\ parallel
    /\ Inside(p, "body")
    /\ exposed' = [exposed EXCEPT ![p] = TRUE]
    /\ UNCHANGED <<parallel, owner, raised, archiving>>

Lock(p) == Acquire(p) \/ LockFails(p)

(* original_configure: it may call the configure() of its super class,     *)
(* which is wrapped as well, and return or raise.                          *)
Body(p) ==
    /\ pc[p] \in {"body", "rest"}
    /\ \/ /\ pc[p] = "body" /\ level[p] < MaxLevel
          /\ Goto(p, "lock")
          /\ UNCHANGED raised
       \/ Goto(p, "unlock") /\ UNCHANGED raised
       \/ Goto(p, "unlock") /\ Raise(p)
    /\ UNCHANGED <<parallel, locking, archiving>>

(* The end of `with lock'.  Unlocking, or closing, the file drops the lock *)
(* of the process, also when it is a call within another that ends.        *)
Unlock(p) ==
    /\ pc[p] = "unlock"
    /\ level' = [level EXCEPT ![p] = @ - 1]
    /\ owner' = IF owner = p THEN None ELSE owner
    /\ exposed' = [exposed EXCEPT ![p] = level[p] > 1 /\ (@ \/ parallel)]
    /\ Goto(p, IF level[p] = 1 THEN (IF raised[p] THEN "failed" ELSE "done")
               ELSE IF raised[p] THEN "unlock" ELSE "rest")
    /\ UNCHANGED <<parallel, raised, archiving>>

-----------------------------------------------------------------------------
(* generate_configs.                                                       *)
Mkdir(p) ==
    /\ pc[p] = "mkdir"
    /\ \/ dir' = [dir EXCEPT ![p] = {}] /\ Goto(p, "name")
       \/ UNCHANGED dir /\ Goto(p, "failed")
    /\ UNCHANGED <<parallel, locking, raised, archive>>

(* The mode of the directory and the name of the archive come before the   *)
(* try: without output_file the directory stays.                           *)
Name(p) ==
    /\ pc[p] = "name"
    /\ \E label \in {"write", "nameless"} : Goto(p, label)
    /\ UNCHANGED <<parallel, locking, raised, archiving>>

\* Variant: no finally around the files.
WriteUnprotected(p) ==
    /\ pc[p] = "write"
    /\ \/ \E f \in Files \ dir[p] :
              /\ dir' = [dir EXCEPT ![p] = @ \union {f}]
              /\ UNCHANGED <<pc, raised>>
       \/ dir[p] = Files /\ Goto(p, "open") /\ UNCHANGED <<dir, raised>>
       \/ dir[p] # Files /\ Goto(p, "failed") /\ Raise(p) /\ UNCHANGED dir
    /\ UNCHANGED <<parallel, locking, archive>>

\* generate_configs_get_xml_file_content, _get_xml_file_dict and
\* _get_template_file_content: a dictionary may be missing.
MissingDictionary(p) == Goto(p, "delete") /\ Raise(p) /\ UNCHANGED dir

(* One file after the other; any may fail.                                 *)
Write(p) ==
    /\ pc[p] = "write"
    /\ \/ \E f \in Files \ dir[p] :
              /\ dir' = [dir EXCEPT ![p] = @ \union {f}]
              /\ UNCHANGED <<pc, raised>>
       \/ dir[p] = Files /\ Goto(p, "open") /\ UNCHANGED <<dir, raised>>
       \/ dir[p] # Files /\ MissingDictionary(p)
    /\ UNCHANGED <<parallel, locking, archive>>

(* tarfile.open truncates the archive that may be there.                   *)
Open(p) ==
    /\ pc[p] = "open"
    /\ \/ /\ archive' = [writer |-> p, members |-> {}, closed |-> FALSE, torn |-> FALSE]
          /\ Goto(p, "add")
          /\ UNCHANGED raised
       \/ Goto(p, "delete") /\ Raise(p) /\ UNCHANGED archive
    /\ UNCHANGED <<parallel, locking, dir>>

\* What another process wrote, or truncated, in between is torn.
Wrote(p, new) ==
    archive' = IF archive.writer = p THEN new ELSE [archive EXCEPT !.torn = TRUE]

\* Variant: the whole of tmp_dir, with the file of the lock.
AddTmpDir(p) ==
    /\ pc[p] = "add"
    /\ Wrote(p, [archive EXCEPT !.members = dir[p] \union {"link_configs_lock_file"}])
    /\ Goto(p, "close")
    /\ UNCHANGED <<parallel, locking, raised, dir>>

\* Variant: an error of tar.add is swallowed.
AddUnnoticed(p) ==
    /\ pc[p] = "add"
    /\ \/ \E f \in dir[p] \ archive.members :
              /\ Wrote(p, [archive EXCEPT !.members = @ \union {f}])
              /\ UNCHANGED pc
       \/ Goto(p, "close") /\ UNCHANGED archive
    /\ UNCHANGED <<parallel, locking, raised, dir>>

(* tar.add puts the files of the directory one by one; it may fail after   *)
(* some of them.                                                           *)
Add(p) ==
    /\ pc[p] = "add"
    /\ \/ \E f \in dir[p] \ archive.members :
              /\ Wrote(p, [archive EXCEPT !.members = @ \union {f}])
              /\ UNCHANGED <<pc, raised>>
       \/ /\ dir[p] = archive.members \/ archive.writer # p
          /\ Goto(p, "close")
          /\ UNCHANGED <<archive, raised>>
       \/ Goto(p, "close") /\ Raise(p) /\ UNCHANGED archive
    /\ UNCHANGED <<parallel, locking, dir>>

(* The finally around tar.add closes the archive, whatever it has.         *)
Close(p) ==
    /\ pc[p] = "close"
    /\ Wrote(p, [archive EXCEPT !.closed = TRUE])
    /\ Goto(p, "delete")
    /\ UNCHANGED <<parallel, locking, raised, dir>>

(* The outer finally deletes the directory.                                *)
Delete(p) ==
    /\ pc[p] = "delete"
    /\ \/ /\ dir' = [dir EXCEPT ![p] = None]
          /\ Goto(p, IF raised[p] THEN "failed" ELSE "done")
       \/ UNCHANGED dir /\ Goto(p, "undeleted")
    /\ UNCHANGED <<parallel, locking, raised, archive>>

-----------------------------------------------------------------------------
(* External: the agent kills a process; its lock goes with it.             *)
Kill(p) ==
    /\ Running(p)
    /\ Goto(p, "killed")
    /\ owner' = IF owner = p THEN None ELSE owner
    /\ level' = [level EXCEPT ![p] = 0]
    /\ exposed' = [exposed EXCEPT ![p] = FALSE]
    /\ raised' = [raised EXCEPT ![p] = FALSE]
    /\ UNCHANGED <<parallel, archiving>>

Configure(p) == Lock(p) \/ Body(p) \/ Unlock(p)

GenerateConfigs(p) ==
    \/ Mkdir(p) \/ Name(p) \/ Write(p) \/ Open(p) \/ Add(p) \/ Close(p) \/ Delete(p)

Next ==
    \E p \in Processes : Launch(p) \/ Configure(p) \/ GenerateConfigs(p) \/ Kill(p)

\* A process runs on; nothing depends on a lockf that fails.
Fairness ==
    \A p \in Processes :
        WF_vars(Acquire(p) \/ Body(p) \/ Unlock(p) \/ GenerateConfigs(p))

Spec == Init /\ [][Next]_vars /\ Fairness

-----------------------------------------------------------------------------
Archives == [writer : Processes \union {None}, members : SUBSET Files,
             closed : BOOLEAN, torn : BOOLEAN]

(* Types; the lock belongs to a process that is in configure().            *)
TypeOK ==
    /\ parallel \in BOOLEAN
    /\ pc \in [Processes -> Pcs]
    /\ level \in [Processes -> 0..MaxLevel]
    /\ owner \in Processes \union {None}
    /\ owner # None => level[owner] > 0
    /\ exposed \in [Processes -> BOOLEAN]
    /\ raised \in [Processes -> BOOLEAN]
    /\ dir \in [Processes -> {None} \union SUBSET Files]
    /\ archive \in Archives

\* Its lockf did not fail, and no call within it has dropped the lock.
Protected(p) == level[p] > 0 /\ ~exposed[p]

Promise == INSTANCE Turns WITH inside <- {p \in Processes : Protected(p)}

(* "This metaclass ensures that Script.configure() is invoked with a       *)
(* fcntl-based process lock if necessary" (script.py:107): the processes   *)
(* that have the lock they asked for configure one at a time, whatever     *)
(* fails or is killed and whether or not commands run in parallel.         *)
OneConfigures == Promise!Spec

(* A configure() that calls another one does not wait for itself, and no   *)
(* exception or kill keeps the lock: every process launched comes to an    *)
(* end (script.py:118-120).                                                *)
ProcessesEnd == \A p \in Processes : pc[p] # "idle" ~> pc[p] \in Ended

Waiting(p) == pc[p] = "lock" /\ ~LockIsFree(p)

(* Nobody waits for itself, for a process that waits too, or for one that  *)
(* has ended: the lock a process waits for is held by one that runs and    *)
(* can go on, however deep the calls and whatever was raised or killed     *)
(* (script.py:118-120).                                                    *)
NobodyStuck ==
    \A p \in Processes :
        Waiting(p) => owner \in Processes /\ Running(owner) /\ ~Waiting(owner)

(* What is left of a failure on the way is no archive of some of the       *)
(* files: unless another process wrote to it at the same time, which takes *)
(* parallel_execution, the archive of a command that ended well is closed  *)
(* and has all of its files (script.py:1074-1082).                         *)
ArchiveIsWhole ==
    /\ archive.torn => parallel
    /\ \A p \in Processes :
          pc[p] = "done" /\ archive.writer = p /\ ~archive.torn
              => archive.closed /\ archive.members = Files

(* The passwords of the configuration are not left behind: whichever step  *)
(* fails, the directory is deleted, but for a kill, a failed deletion and  *)
(* a command without output_file (script.py:1050-1052, 1081-1082).         *)
NothingLeft == \A p \in Processes : pc[p] \in {"done", "failed"} => dir[p] = None
=============================================================================
