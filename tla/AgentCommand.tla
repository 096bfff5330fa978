----------------------------- MODULE AgentCommand -----------------------------
(***************************************************************************)
(* The life of a command on one host of the cluster: the Script class of   *)
(* src/ambari/resources/script.py, which agent/install ships to every      *)
(* agent.                                                                  *)
(*                                                                         *)
(* The agent (external) runs a command as a sequence of PROCESSES: hooks   *)
(* and the component's script, one after the other, all given the path of  *)
(* the same structured output file, and perhaps the script again on a      *)
(* retry.  Status commands re-use a file of their own.  A process loads    *)
(* the file, runs the method named by the command, and in a finally clause *)
(* reports the version of the component in the file.  It may fail at any   *)
(* call, meet an I/O error on the file, or be killed between two steps.    *)
(*                                                                         *)
(* The component is a daemon (or a client, which has none).  A stop may    *)
(* return while the daemon is still on its way down.                       *)
(***************************************************************************)
EXTENDS Naturals

CONSTANTS
    Versions,      \* the stack versions a host may have
    NoVersion,     \* stands for Python's None
    Commands,      \* the commands the agent may be sent
    NoTask,        \* no task was received yet
    MaxRuns        \* bound: how many processes the agent launches

Names == {"install", "start", "stop", "restart", "status", "custom"}

(* What the method dispatch and the reporting read of a command: its name, *)
(* whether the process is a hook, whether the component is a CLIENT, has a *)
(* status method, is of a service whose status check is skipped; whether   *)
(* commandParams hold an upgrade_type; whether the stack has the           *)
(* ROLLING_UPGRADE feature and request_version is given; whether the       *)
(* stack-select tool knows the component; whether the repository is        *)
(* resolved; the version of the repository and whether its id is given.    *)
CommandType ==
    [name : Names, hook : BOOLEAN, client : BOOLEAN, hasStatus : BOOLEAN,
     skipCheck : BOOLEAN, upgrade : BOOLEAN, rolling : BOOLEAN,
     requestVersion : BOOLEAN, selectable : BOOLEAN, resolved : BOOLEAN,
     target : Versions, repoId : BOOLEAN]

ASSUME CommandsAssumption == Commands \subseteq CommandType
ASSUME NoVersionAssumption == NoVersion \notin Versions
ASSUME NoTaskAssumption == NoTask \notin CommandType
ASSUME MaxRunsAssumption == MaxRuns \in Nat

VARIABLES
    files,      \* the structured output files, of the task and of status
    mem,        \* Script.structuredOut of the process
    cmd,        \* the command of the process
    task,       \* the task whose processes share files["task"]
    run,        \* the number of the process, counted from 1
    pc,         \* what the process does next
    result,     \* how it fares: "ok", "failed" or "killed"
    installed,  \* versions of the component's packages on the host
    link,       \* version the stack-select symlink points to
    daemon      \* is an instance running, is an instance still stopping

vars == <<files, mem, cmd, task, run, pc, result, installed, link, daemon>>
process == <<cmd, task, run>>
host == <<installed, link>>

-----------------------------------------------------------------------------
(* Structured output.  A key holds the number of the process that produced *)
(* it, 0 when it is absent; the version also holds its value.              *)

Content == [version : Versions \union {NoVersion}, versionBy : Nat,
            repoId : Nat, upgrade : Nat, security : Nat, err : BOOLEAN]

Nothing == [version |-> NoVersion, versionBy |-> 0, repoId |-> 0,
            upgrade |-> 0, security |-> 0, err |-> FALSE]

FileNames == {"task", "status"}

Blank == [state |-> "blank", data |-> Nothing, writer |-> 0, by |-> NoTask]
Corrupt == [state |-> "corrupt", data |-> Nothing, writer |-> 0, by |-> NoTask]

FileType == [state : {"blank", "corrupt", "json"}, data : Content,
             writer : Nat, by : CommandType \union {NoTask}]

Stroutfile == IF cmd.name = "status" THEN "status" ELSE "task"

Written(sout) ==
    [state |-> "json", data |-> sout, writer |-> run, by |-> cmd]

\* put_structured_out(sout): memory first, then the file.  open() may fail
\* and leave the file alone, or json.dump may fail half way.
Put(sout) ==
    \/ /\ mem' = sout
       /\ files' = [files EXCEPT ![Stroutfile] = Written(sout)]
    \/ /\ mem' = [sout EXCEPT !.err = TRUE]
       /\ \/ UNCHANGED files
          \/ \E left \in {Blank, Corrupt} :
                files' = [files EXCEPT ![Stroutfile] = left]

\* Variants for the mutation runs: the version is kept; all is dropped.
CarriedWithVersion(data) == [data EXCEPT !.security = 0]
CarriedNothing(data) == [Nothing EXCEPT !.err = data.err]

\* The keys load_structured_out removes from what it read.
Carried(data) ==
    [data EXCEPT !.version = NoVersion, !.versionBy = 0, !.security = 0]

-----------------------------------------------------------------------------
(* Which version a command reports.                                        *)

ShouldExpose(c) ==
    /\ c.rolling
    /\ \/ c.name = "status" /\ c.requestVersion
       \/ c.name \in {"start", "install", "restart"}

\* The stack-select tool lists one version only.
OnlyVersion == {v \in Versions : installed = {v}}

\* Variant: every command trusts a resolved repository.
ComponentVersionTrusting(c) ==
    CASE c.selectable /\ c.resolved -> c.target
      [] c.selectable /\ ~c.resolved -> link
      [] OTHER -> NoVersion

ComponentVersion(c) ==
    CASE ~c.selectable                      -> NoVersion
      [] c.selectable /\ c.name = "install" /\ c.resolved -> c.target
      [] c.selectable /\ ~(c.name = "install" /\ c.resolved)
           /\ link # NoVersion              -> link
      [] c.selectable /\ ~(c.name = "install" /\ c.resolved)
           /\ link = NoVersion /\ OnlyVersion # {} -> CHOOSE v \in OnlyVersion : TRUE
      [] OTHER                              -> NoVersion

-----------------------------------------------------------------------------
Init ==
    /\ files = [f \in FileNames |-> Blank]
    /\ mem = Nothing
    /\ cmd = NoTask
    /\ task = NoTask
    /\ run = 0
    /\ pc = "idle"
    /\ result = "ok"
    /\ installed \in {{}} \union {{v} : v \in Versions}
    /\ link \in installed \union {NoVersion}
    /\ daemon = [running |-> FALSE, stopping |-> FALSE]

Alive == daemon.running \/ daemon.stopping

Goto(label) == pc' = label /\ UNCHANGED result
Fail(label) == pc' = label /\ result' = "failed"

(* The agent launches a process: of a status command, of the task at hand  *)
(* (its hooks and its script differ by hook alone), or of a new task, which *)
(* gets a file of its own.                                                 *)
Task(c) == [c EXCEPT !.hook = FALSE]

Launch(c) ==
    /\ pc = "idle"
    /\ run < MaxRuns
    /\ run' = run + 1
    /\ cmd' = c
    /\ pc' = "load"
    /\ result' = "ok"
    /\ \/ c.name = "status" /\ UNCHANGED <<task, files>>
       \/ c.name # "status" /\ task = Task(c) /\ UNCHANGED <<task, files>>
       \/ /\ c.name # "status"
          /\ task' = Task(c)
          /\ files' = [files EXCEPT !["task"] = Blank]
    /\ UNCHANGED <<mem, host, daemon>>

(* load_structured_out.  When the file is not JSON the handler logs, but   *)
(* the logger is initialised only after the load: it may end the process.  *)
Load ==
    /\ pc = "load"
    /\ LET file == files[Stroutfile] IN
       \/ /\ mem' = Carried(file.data)
          /\ Goto(IF cmd.name = "status" THEN "reset" ELSE "config")
       \/ /\ file.state = "corrupt"
          /\ mem' = Nothing
          /\ Fail("idle")
    /\ UNCHANGED <<files, process, host, daemon>>

\* Variant: the reset stays in memory.
ResetInMemory ==
    /\ pc = "reset"
    /\ mem' = Nothing
    /\ Goto("config")
    /\ UNCHANGED <<files, process, host, daemon>>

(* A status command resets the file it re-uses.                            *)
Reset ==
    /\ pc = "reset"
    /\ Put(Nothing)
    /\ Goto("config")
    /\ UNCHANGED <<process, host, daemon>>

(* Reading the command's JSON file: an IOError exits outside of the try.   *)
ReadConfig ==
    /\ pc = "config"
    /\ Goto("choose") \/ Fail("idle")
    /\ UNCHANGED <<files, mem, process, host, daemon>>

(* choose_method_to_execute; a hook has a single method.                   *)
Choose ==
    /\ pc = "choose"
    /\ \/ /\ ~cmd.hook
          /\ cmd.name = "status" => cmd.hasStatus
          /\ Goto(cmd.name)
       \/ cmd.hook /\ Goto("hook")
       \/ cmd.name = "status" /\ ~cmd.hasStatus /\ Fail("finally")
       \/ cmd.name = "custom" /\ ~cmd.hook /\ Fail("finally")
    /\ UNCHANGED <<files, mem, process, host, daemon>>

-----------------------------------------------------------------------------
(* The methods.  What a subclass does in its own is external: it may fail. *)

\* A hook may put keys of its own, which are not looked at.
Hook ==
    /\ pc = "hook"
    /\ Put(mem) \/ UNCHANGED <<files, mem>>
    /\ Goto("finally") \/ Fail("finally")
    /\ UNCHANGED <<process, host, daemon>>

\* A command of the subclass that reports security issues.
Custom ==
    /\ pc = "custom"
    /\ \/ Put([mem EXCEPT !.security = run]) /\ Goto("finally")
       \/ UNCHANGED <<files, mem>> /\ Fail("finally")
    /\ UNCHANGED <<process, host, daemon>>

\* status() raises ComponentIsNotRunning, or ClientComponentHasNoStatus.
StatusMethod ==
    /\ pc = "status"
    /\ IF Alive /\ ~cmd.client THEN Goto("finally") ELSE Fail("finally")
    /\ UNCHANGED <<files, mem, process, host, daemon>>

(* install(): every package, none of them (a sys-prepped host, or a        *)
(* KeyError that is swallowed), or some before a failure.  Packaging is    *)
(* expected to point the symlink at what it installs, and may not.         *)
AfterInstall == IF cmd.name = "restart" THEN "rSave" ELSE "finally"

InstallMethod ==
    /\ pc = "install"
    /\ \/ /\ installed' = installed \union {cmd.target}
          /\ link' \in {link, cmd.target}
          /\ Goto(AfterInstall) \/ Fail("finally")
       \/ UNCHANGED host /\ (Goto(AfterInstall) \/ Fail("finally"))
    /\ UNCHANGED <<files, mem, process, daemon>>

\* The methods that start or stop it may fail before or after their effect.
StartDaemon == daemon' = [daemon EXCEPT !.running = TRUE]

StartMethod ==
    /\ pc = "start"
    /\ \/ StartDaemon /\ Goto("finally")
       \/ (StartDaemon \/ UNCHANGED daemon) /\ Fail("finally")
    /\ UNCHANGED <<files, mem, process, host>>

\* The daemon is told to stop and perhaps already is when stop() returns.
StopDaemon ==
    \/ daemon' = [running |-> FALSE, stopping |-> Alive]
    \/ daemon' = [running |-> FALSE, stopping |-> FALSE]

StopMethod ==
    /\ pc = "stop"
    /\ \/ StopDaemon /\ Goto("afterStop")
       \/ (StopDaemon \/ UNCHANGED daemon) /\ Fail("finally")
    /\ UNCHANGED <<files, mem, process, host>>

\* Variants: nothing is waited for; a component without status is polled.
AfterStopAtOnce ==
    /\ pc = "afterStop"
    /\ Goto("finally")
    /\ UNCHANGED <<files, mem, process, host, daemon>>

AfterStopPollsOn ==
    /\ pc = "afterStop"
    /\ cmd.hasStatus /\ (~Alive \/ cmd.client) /\ Goto("finally")
    /\ UNCHANGED <<files, mem, process, host, daemon>>

(* after_stop polls status() until it raises one of the two exceptions; a  *)
(* component without a status method fails on getattr.                     *)
AfterStop ==
    /\ pc = "afterStop"
    /\ \/ cmd.hasStatus /\ (~Alive \/ cmd.client) /\ Goto("finally")
       \/ ~cmd.hasStatus /\ Fail("finally")
    /\ UNCHANGED <<files, mem, process, host, daemon>>

-----------------------------------------------------------------------------
(* restart(), step by step.                                                *)

\* Variant: for a client, nothing is said of the upgrade.
RestartInfoOfDaemons ==
    /\ pc = "restart"
    /\ mem' = IF cmd.upgrade /\ ~cmd.client THEN [mem EXCEPT !.upgrade = run] ELSE mem
    /\ Goto(CASE ~cmd.client                -> "rStop"
              [] cmd.client /\ cmd.upgrade  -> "rPreUpgrade"
              [] cmd.client /\ ~cmd.upgrade -> "install")
    /\ UNCHANGED <<files, process, host, daemon>>

\* Variant: the version is reported along with the upgrade's type.
RestartInfoWithVersion ==
    /\ pc = "restart"
    /\ Put([mem EXCEPT !.upgrade = IF cmd.upgrade THEN run ELSE @,
                       !.version = ComponentVersion(cmd), !.versionBy = run])
    /\ Goto(CASE ~cmd.client                -> "rStop"
              [] cmd.client /\ cmd.upgrade  -> "rPreUpgrade"
              [] cmd.client /\ ~cmd.upgrade -> "install")
    /\ UNCHANGED <<process, host, daemon>>

\* The upgrade's type and direction go to structuredOut, in memory.
RestartInfo ==
    /\ pc = "restart"
    /\ mem' = IF cmd.upgrade THEN [mem EXCEPT !.upgrade = run] ELSE mem
    /\ Goto(CASE ~cmd.client                -> "rStop"
              [] cmd.client /\ cmd.upgrade  -> "rPreUpgrade"
              [] cmd.client /\ ~cmd.upgrade -> "install")
    /\ UNCHANGED <<files, process, host, daemon>>

RestartStop ==
    /\ pc = "rStop"
    /\ \/ StopDaemon /\ Goto(IF cmd.upgrade THEN "rPreUpgrade" ELSE "rCheck")
       \/ (StopDaemon \/ UNCHANGED daemon) /\ Fail("finally")
    /\ UNCHANGED <<files, mem, process, host>>

\* Variant: the new version is selected whether it is installed or not.
PreUpgradeUnchecked ==
    /\ pc = "rPreUpgrade"
    /\ link' = cmd.target
    /\ Goto(IF cmd.client THEN "install" ELSE "rCheck")
    /\ UNCHANGED <<files, mem, process, installed, daemon>>

\* pre_upgrade_restart of the component: it may select the new version.
PreUpgrade ==
    /\ pc = "rPreUpgrade"
    /\ link' \in {link} \union ({cmd.target} \intersect installed)
    /\ Goto(IF cmd.client THEN "install" ELSE "rCheck") \/ Fail("finally")
    /\ UNCHANGED <<files, mem, process, installed, daemon>>

\* The status check between stop and start, left out for some services
\* and for every upgrade.
SkipsCheck(c) == c.skipCheck \/ c.upgrade

\* Variant: the Fail after a status that returns is lost.
RestartCheckLost ==
    /\ pc = "rCheck"
    /\ Goto("rStart")
    /\ UNCHANGED <<files, mem, process, host, daemon>>

RestartCheck ==
    /\ pc = "rCheck"
    /\ \/ (SkipsCheck(cmd) \/ (cmd.hasStatus /\ ~Alive)) /\ Goto("rStart")
       \/ ~SkipsCheck(cmd) /\ (~cmd.hasStatus \/ Alive) /\ Fail("finally")
    /\ UNCHANGED <<files, mem, process, host, daemon>>

RestartStart ==
    /\ pc = "rStart"
    /\ \/ StartDaemon /\ Goto(IF cmd.upgrade THEN "rPostUpgrade" ELSE "rSave")
       \/ (StartDaemon \/ UNCHANGED daemon) /\ Fail("finally")
    /\ UNCHANGED <<files, mem, process, host>>

PostUpgrade ==
    /\ pc = "rPostUpgrade"
    /\ Goto("rSave") \/ Fail("finally")
    /\ UNCHANGED <<files, mem, process, host, daemon>>

-----------------------------------------------------------------------------
(* The report of the version, at the end of restart() and in the finally   *)
(* clause of execute(): two writes, the version and the repository's id.   *)
(* The stack-select tool may fail.                                         *)

AfterSave(label) == IF label \in {"rSave", "rRepoId"} THEN "finally" ELSE "idle"

SaveVersion ==
    /\ pc \in {"rSave", "finally"}
    /\ LET version == ComponentVersion(cmd) IN
       \/ /\ ShouldExpose(cmd) /\ version # NoVersion
          /\ Put([mem EXCEPT !.version = version, !.versionBy = run])
          /\ Goto(CASE cmd.repoId /\ pc = "rSave"   -> "rRepoId"
                    [] cmd.repoId /\ pc = "finally" -> "repoId"
                    [] OTHER                        -> AfterSave(pc))
       \/ /\ ~ShouldExpose(cmd) \/ version = NoVersion
          /\ UNCHANGED <<files, mem>>
          /\ Goto(AfterSave(pc))
       \/ /\ ShouldExpose(cmd)
          /\ UNCHANGED <<files, mem>>
          /\ Fail(AfterSave(pc))
    /\ UNCHANGED <<process, host, daemon>>

SaveRepoId ==
    /\ pc \in {"rRepoId", "repoId"}
    /\ Put([mem EXCEPT !.repoId = run])
    /\ Goto(AfterSave(pc))
    /\ UNCHANGED <<process, host, daemon>>

-----------------------------------------------------------------------------
(* The environment.                                                        *)

\* The agent kills the process or the host goes down, perhaps during a write.
Kill ==
    /\ pc # "idle"
    /\ pc' = "idle"
    /\ result' = "killed"
    /\ \/ UNCHANGED files
       \/ /\ pc \in {"reset", "hook", "custom", "rSave", "rRepoId", "finally", "repoId"}
          /\ \E left \in {Blank, Corrupt} :
                files' = [files EXCEPT ![Stroutfile] = left]
    /\ UNCHANGED <<mem, process, host, daemon>>

DaemonExit ==
    /\ daemon.stopping
    /\ daemon' = [daemon EXCEPT !.stopping = FALSE]
    /\ UNCHANGED <<files, mem, process, pc, result, host>>

DaemonCrash ==
    /\ daemon.running
    /\ daemon' = [daemon EXCEPT !.running = FALSE]
    /\ UNCHANGED <<files, mem, process, pc, result, host>>

\* The bound on the processes is reached.
Finished ==
    /\ pc = "idle"
    /\ run = MaxRuns
    /\ UNCHANGED vars

Step ==
    \/ Load \/ Reset \/ ReadConfig \/ Choose
    \/ Hook \/ Custom \/ StatusMethod \/ InstallMethod
    \/ StartMethod \/ StopMethod \/ AfterStop
    \/ RestartInfo \/ RestartStop \/ PreUpgrade \/ RestartCheck
    \/ RestartStart \/ PostUpgrade \/ SaveVersion \/ SaveRepoId

Next ==
    \/ \E c \in Commands : Launch(c)
    \/ Step
    \/ Kill
    \/ DaemonExit
    \/ DaemonCrash
    \/ Finished

Spec == Init /\ [][Next]_vars

(* The process runs on, and a daemon told to stop goes down in the end     *)
(* (external: a daemon that ignores the signal keeps after_stop polling    *)
(* until the agent kills it).                                              *)
FairSpec == Spec /\ WF_vars(Step) /\ WF_vars(DaemonExit)
-----------------------------------------------------------------------------
Labels ==
    {"idle", "load", "reset", "config", "choose", "hook", "custom", "status",
     "install", "start", "stop", "afterStop", "restart", "rStop",
     "rPreUpgrade", "rCheck", "rStart", "rPostUpgrade", "rSave", "rRepoId",
     "finally", "repoId"}

(* The variables have their types.                                         *)
TypeOK ==
    /\ files \in [FileNames -> FileType]
    /\ mem \in Content
    /\ cmd \in CommandType \union {NoTask}
    /\ task \in CommandType \union {NoTask}
    /\ run \in 0..MaxRuns
    /\ pc \in Labels
    /\ result \in {"ok", "failed", "killed"}
    /\ installed \subseteq Versions
    /\ link \in installed \union {NoVersion}
    /\ daemon \in [running : BOOLEAN, stopping : BOOLEAN]

(* What a process writes never carries the version or the security issues  *)
(* an earlier process found: both are dropped on load, whatever happened   *)
(* to the processes before (script.py:169-176).                            *)
NoCarriedReport ==
    \A f \in FileNames :
        LET file == files[f] IN
        /\ file.data.version # NoVersion => file.data.versionBy = file.writer
        /\ file.data.security # 0 => file.data.security = file.writer

(* The version a start, a restart or a status command reports is one that  *)
(* is installed on the host: only an install command may trust the         *)
(* repository instead (script.py:234-257).                                 *)
VersionIsInstalled ==
    \A f \in FileNames :
        LET file == files[f] IN
        file.data.version # NoVersion /\ file.by.name # "install"
            => file.data.version \in installed

(* "we must ensure that the file is reset to prevent old, stale structured *)
(* output from a prior status command from being used" (script.py:334-339):*)
(* from its reset to its end, what the file of a status command says is    *)
(* its own, unless the process was killed or could not write the file.     *)
StatusIsFresh ==
    cmd # NoTask =>
    LET file == files["status"] IN
    (/\ cmd.name = "status" /\ pc \notin {"load", "reset"}
     /\ result # "killed" /\ ~mem.err)
        => (file.state = "json" => file.writer = run)

(* The version in the file of a process is the one the host has, and not   *)
(* one it had before the process installed or selected another: also when  *)
(* the stack-select tool fails the second time a restart reports, or a     *)
(* write is interrupted (script.py:210-268, 382, 994).                     *)
ReportIsCurrent ==
    \A f \in FileNames :
        LET file == files[f] IN
        file.writer = run /\ file.data.version # NoVersion
            => file.data.version = ComponentVersion(cmd)

(* When the restart of an upgrade reports a version, it reports the upgrade*)
(* too: the agent never takes the version without the upgrade's type and   *)
(* direction (script.py:921-927 comes before any call that may fail).      *)
UpgradeReported ==
    LET file == files["task"] IN
    (file.state = "json" /\ file.data.version # NoVersion)
        => (file.by.name = "restart" /\ file.by.upgrade /\ ~file.by.hook
                => file.data.upgrade # 0)

(* The processes that follow in the task, hooks or a retry, keep what a    *)
(* restart reported of the upgrade, unless a write was interrupted or a    *)
(* new task begins (script.py:157-185: load, then update, then dump).      *)
UpgradeKept ==
    [][ (files["task"].data.upgrade # 0 /\ files'["task"].data.upgrade = 0)
            => (result' = "killed" \/ mem'.err \/ pc = "idle") ]_vars

(* A stop command that ends well leaves no instance of the daemon, neither *)
(* running nor on its way down (after_stop, script.py:428-452).            *)
StopIsWaitedFor ==
    cmd # NoTask =>
    ((cmd.name = "stop" /\ ~cmd.hook /\ ~cmd.client
        /\ pc \in {"finally", "idle"} /\ result = "ok") => ~Alive)

(* A restart outside of an upgrade, of a service whose status is checked,  *)
(* starts the daemon only when the one it stopped is gone: it does not     *)
(* wait, it fails (script.py:958-972).                                     *)
RestartOnStopped ==
    pc = "rStart" /\ ~SkipsCheck(cmd) => ~Alive

(* Every process ends, so that the agent can report on the command: no     *)
(* step of a command waits for what only another command would do.         *)
ProcessEnds == pc # "idle" ~> pc = "idle"

-----------------------------------------------------------------------------
(* What comments of script.py say and the code does not do.                *)

\* The process has ended on its own and could write the file.
Ended(c) ==
    pc = "idle" /\ run > 0 /\ result # "killed" /\ ~mem.err /\ cmd = c

(* "need this before actually executing so that failures still report      *)
(* upgrade info" (script.py:921): a restart for an upgrade that got past   *)
(* its configuration leaves the upgrade info in the file.                  *)
FailuresReportUpgrade ==
    \A c \in Commands :
        Ended(c) /\ c.name = "restart" /\ c.upgrade /\ ~c.hook /\ mem.upgrade = run
            => files["task"].data.upgrade # 0

(* "version is only set in a specific way and should not be carried"       *)
(* (script.py:169): when the script has ended well and found no version,   *)
(* the file holds none.                                                    *)
VersionNotCarried ==
    \A c \in Commands :
        Ended(c) /\ ~c.hook /\ c.name # "status" /\ files["task"].state = "json"
            /\ result = "ok" /\ mem.version = NoVersion
            => files["task"].data.version = NoVersion

(* "Executed after completion of every stop method. Waits until component  *)
(* is actually stopped" (script.py:430): no daemon is started while one    *)
(* that a restart has stopped is still on its way down.                    *)
EveryStopIsWaitedFor == pc = "rStart" => ~daemon.stopping
=============================================================================
