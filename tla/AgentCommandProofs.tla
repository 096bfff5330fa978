-------------------------- MODULE AgentCommandProofs --------------------------
(***************************************************************************)
(* Theorems of AgentCommand, for every set of versions and of commands and *)
(* every number of processes.                                              *)
(***************************************************************************)
EXTENDS AgentCommand, TLAPS

(* The type invariant, with the type of the command while a process runs.  *)
TypeInv == TypeOK /\ (pc # "idle" => cmd \in CommandType)

(* What put_structured_out may leave in memory and in the file.            *)
LEMMA PutTypes ==
    ASSUME TypeOK, cmd \in CommandType, NEW sout \in Content, Put(sout)
    PROVE  mem' \in Content /\ files' \in [FileNames -> FileType]
<1>1. Written(sout) \in FileType
  BY DEF Written, FileType, TypeOK
<1>2. Blank \in FileType /\ Corrupt \in FileType
  BY DEF Blank, Corrupt, FileType, Nothing, Content
<1>3. [sout EXCEPT !.err = TRUE] \in Content
  BY DEF Content
<1>4. ASSUME NEW f \in FileType
      PROVE  [files EXCEPT ![Stroutfile] = f] \in [FileNames -> FileType]
  BY DEF TypeOK
<1>5. CASE mem' = sout /\ files' = [files EXCEPT ![Stroutfile] = Written(sout)]
  BY <1>1, <1>4, <1>5
<1>6. CASE mem' = [sout EXCEPT !.err = TRUE] /\ UNCHANGED files
  BY <1>3, <1>6 DEF TypeOK
<1>7. CASE /\ mem' = [sout EXCEPT !.err = TRUE]
           /\ \E left \in {Blank, Corrupt} :
                  files' = [files EXCEPT ![Stroutfile] = left]
  <2>1. PICK left \in {Blank, Corrupt} :
            files' = [files EXCEPT ![Stroutfile] = left]
    BY <1>7
  <2>2. files' \in [FileNames -> FileType]
    BY <1>2, <1>4, <2>1
  <2>3. QED
    BY <1>3, <1>7, <2>2
<1>8. QED
  BY <1>5, <1>6, <1>7 DEF Put

(* The version a command reports is a version, if any.                     *)
LEMMA ComponentVersionType ==
    ASSUME TypeOK, NEW c \in CommandType
    PROVE  ComponentVersion(c) \in Versions \union {NoVersion}
<1>1. OnlyVersion # {} => (CHOOSE v \in OnlyVersion : TRUE) \in Versions
  BY DEF OnlyVersion
<1>2. c.target \in Versions /\ link \in Versions \union {NoVersion}
  BY DEF CommandType, TypeOK
<1>3. QED
  BY <1>1, <1>2 DEF ComponentVersion

(* A version reported by anything but an install is installed.             *)
LEMMA ComponentVersionInstalled ==
    ASSUME TypeOK, NEW c \in CommandType, c.name # "install",
           ComponentVersion(c) # NoVersion
    PROVE  ComponentVersion(c) \in installed
<1>1. OnlyVersion # {} => (CHOOSE v \in OnlyVersion : TRUE) \in installed
  BY DEF OnlyVersion
<1>2. link \in installed \union {NoVersion}
  BY DEF TypeOK
<1>3. QED
  BY <1>1, <1>2 DEF ComponentVersion

LEMMA InitTypes == Init => TypeInv
  BY NoTaskAssumption, MaxRunsAssumption
  DEF Init, TypeInv, TypeOK, FileNames, FileType, Blank, Nothing, Content, Labels

LEMMA StepTypes == TypeInv /\ [Next]_vars => TypeInv'
<1> SUFFICES ASSUME TypeInv, [Next]_vars
             PROVE  TypeInv'
  OBVIOUS
<1> USE DEF TypeInv
<1>1. ASSUME NEW c \in Commands, Launch(c)
      PROVE  TypeInv'
  <2>1. c \in CommandType /\ Task(c) \in CommandType
    BY CommandsAssumption DEF Task, CommandType
  <2>2. Blank \in FileType
    BY DEF Blank, FileType, Nothing, Content
  <2>3. files' \in [FileNames -> FileType] /\ task' \in CommandType \union {NoTask}
    BY <1>1, <2>1, <2>2 DEF Launch, TypeOK
  <2>4. run' \in 0..MaxRuns
    BY <1>1, MaxRunsAssumption DEF Launch, TypeOK
  <2>5. QED
    BY <1>1, <2>1, <2>3, <2>4 DEF Launch, TypeOK, Labels, host
<1>2. ASSUME Load
      PROVE  TypeInv'
  <2>1. Carried(files[Stroutfile].data) \in Content /\ Nothing \in Content
    BY DEF Carried, TypeOK, FileType, Content, Stroutfile, FileNames, Nothing
  <2>2. QED
    BY <1>2, <2>1 DEF Load, Goto, Fail, TypeOK, Labels, process, host
<1>3. ASSUME Reset
      PROVE  TypeInv'
  <2>1. Nothing \in Content
    BY DEF Nothing, Content
  <2>2. mem' \in Content /\ files' \in [FileNames -> FileType]
    BY <1>3, <2>1, PutTypes DEF Reset
  <2>3. QED
    BY <1>3, <2>2 DEF Reset, Goto, TypeOK, Labels, process, host
<1>4. ASSUME ReadConfig
      PROVE  TypeInv'
  BY <1>4 DEF ReadConfig, Goto, Fail, TypeOK, Labels, process, host
<1>5. ASSUME Choose
      PROVE  TypeInv'
  <2>1. cmd.name \in Names
    BY <1>5 DEF Choose, CommandType
  <2>2. QED
    BY <1>5, <2>1 DEF Choose, Goto, Fail, TypeOK, Labels, Names, process, host
<1>6. ASSUME Hook
      PROVE  TypeInv'
  <2>1. CASE Put(mem)
    <3>1. mem' \in Content /\ files' \in [FileNames -> FileType]
      BY <1>6, <2>1, PutTypes DEF Hook, TypeOK
    <3>2. QED
      BY <1>6, <3>1 DEF Hook, Goto, Fail, TypeOK, Labels, process, host
  <2>2. CASE UNCHANGED <<files, mem>>
    BY <1>6, <2>2 DEF Hook, Goto, Fail, TypeOK, Labels, process, host
  <2>3. QED
    BY <1>6, <2>1, <2>2 DEF Hook
<1>7. ASSUME Custom
      PROVE  TypeInv'
  <2>1. [mem EXCEPT !.security = run] \in Content
    BY MaxRunsAssumption DEF TypeOK, Content
  <2>2. CASE Put([mem EXCEPT !.security = run])
    <3>1. mem' \in Content /\ files' \in [FileNames -> FileType]
      BY <1>7, <2>1, <2>2, PutTypes DEF Custom
    <3>2. QED
      BY <1>7, <3>1 DEF Custom, Goto, Fail, TypeOK, Labels, process, host
  <2>3. CASE UNCHANGED <<files, mem>>
    BY <1>7, <2>3 DEF Custom, Goto, Fail, TypeOK, Labels, process, host
  <2>4. QED
    BY <1>7, <2>2, <2>3 DEF Custom
<1>8. ASSUME StatusMethod
      PROVE  TypeInv'
  BY <1>8 DEF StatusMethod, Goto, Fail, TypeOK, Labels, process, host
<1>9. ASSUME InstallMethod
      PROVE  TypeInv'
  <2>1. cmd.target \in Versions
    BY <1>9 DEF InstallMethod, CommandType
  <2>2. AfterInstall \in Labels
    BY DEF AfterInstall, Labels
  <2>3. installed' \subseteq Versions /\ link' \in installed' \union {NoVersion}
    BY <1>9, <2>1 DEF InstallMethod, TypeOK, host
  <2>4. QED
    BY <1>9, <2>2, <2>3 DEF InstallMethod, Goto, Fail, TypeOK, Labels, process
<1>10. ASSUME StartMethod \/ StopMethod \/ RestartStop \/ RestartStart
       PROVE  TypeInv'
  <2>1. StartDaemon \/ StopDaemon \/ UNCHANGED daemon
    BY <1>10 DEF StartMethod, StopMethod, RestartStop, RestartStart
  <2>2. ASSUME NEW b \in BOOLEAN
        PROVE  [running |-> FALSE, stopping |-> b] \in [running : BOOLEAN, stopping : BOOLEAN]
    OBVIOUS
  <2>3. daemon' \in [running : BOOLEAN, stopping : BOOLEAN]
    <3>1. CASE StartDaemon
      BY <3>1 DEF StartDaemon, TypeOK
    <3>2. CASE StopDaemon
      <4>1. Alive \in BOOLEAN
        BY DEF Alive
      <4>2. QED
        BY <2>2, <3>2, <4>1, Zenon DEF StopDaemon
    <3>3. CASE UNCHANGED daemon
      BY <3>3 DEF TypeOK
    <3>4. QED
      BY <2>1, <3>1, <3>2, <3>3
  <2>4. QED
    BY <1>10, <2>3 DEF StartMethod, StopMethod, RestartStop, RestartStart,
                       Goto, Fail, TypeOK, Labels, process, host
<1>11. ASSUME AfterStop \/ RestartCheck \/ PostUpgrade
       PROVE  TypeInv'
  BY <1>11 DEF AfterStop, RestartCheck, PostUpgrade, Goto, Fail, TypeOK,
               Labels, process, host
<1>12. ASSUME RestartInfo
       PROVE  TypeInv'
  <2>1. mem' \in Content
    BY <1>12, MaxRunsAssumption DEF RestartInfo, TypeOK, Content
  <2>2. cmd.client \in BOOLEAN /\ cmd.upgrade \in BOOLEAN
    BY <1>12 DEF RestartInfo, CommandType
  <2>3. pc' \in Labels
    BY <1>12, <2>2 DEF RestartInfo, Goto, Labels
  <2>4. QED
    BY <1>12, <2>1, <2>3 DEF RestartInfo, Goto, TypeOK, process, host
<1>13. ASSUME PreUpgrade
       PROVE  TypeInv'
  BY <1>13 DEF PreUpgrade, Goto, Fail, TypeOK, Labels, process
<1>14. ASSUME SaveVersion
       PROVE  TypeInv'
  <2> DEFINE v == ComponentVersion(cmd)
             sout == [mem EXCEPT !.version = v, !.versionBy = run]
  <2>1. cmd \in CommandType /\ v \in Versions \union {NoVersion}
    BY <1>14, ComponentVersionType DEF SaveVersion
  <2>2. sout \in Content
    <3>1. run \in Nat
      BY MaxRunsAssumption DEF TypeOK
    <3>2. ASSUME NEW w \in Versions \union {NoVersion}
          PROVE  [mem EXCEPT !.version = w, !.versionBy = run] \in Content
      BY <3>1 DEF TypeOK, Content
    <3>3. QED
      BY <2>1, <3>2
  <2>3. mem' \in Content /\ files' \in [FileNames -> FileType]
    <3>1. CASE Put(sout)
      BY <2>1, <2>2, <3>1, PutTypes
    <3>2. CASE UNCHANGED <<files, mem>>
      BY <3>2 DEF TypeOK
    <3>3. QED
      BY <1>14, <3>1, <3>2 DEF SaveVersion
  <2>4. pc' \in Labels /\ result' \in {"ok", "failed", "killed"}
    BY <1>14 DEF SaveVersion, Goto, Fail, AfterSave, Labels, TypeOK
  <2>5. QED
    BY <1>14, <2>1, <2>3, <2>4 DEF SaveVersion, TypeOK, process, host
<1>15. ASSUME SaveRepoId
       PROVE  TypeInv'
  <2>1. [mem EXCEPT !.repoId = run] \in Content
    BY MaxRunsAssumption DEF TypeOK, Content
  <2>2. mem' \in Content /\ files' \in [FileNames -> FileType]
    BY <1>15, <2>1, PutTypes DEF SaveRepoId
  <2>3. pc' \in Labels /\ UNCHANGED result
    BY <1>15 DEF SaveRepoId, Goto, AfterSave, Labels
  <2>4. QED
    BY <1>15, <2>2, <2>3 DEF SaveRepoId, TypeOK, process, host
<1>16. ASSUME Kill
       PROVE  TypeInv'
  <2>1. Blank \in FileType /\ Corrupt \in FileType
    BY DEF Blank, Corrupt, FileType, Nothing, Content
  <2>2. files' \in [FileNames -> FileType]
    BY <1>16, <2>1 DEF Kill, TypeOK
  <2>3. QED
    BY <1>16, <2>2 DEF Kill, TypeOK, Labels, process, host
<1>17. ASSUME DaemonExit \/ DaemonCrash
       PROVE  TypeInv'
  <2>1. daemon' \in [running : BOOLEAN, stopping : BOOLEAN]
    BY <1>17 DEF DaemonExit, DaemonCrash, TypeOK
  <2>2. QED
    BY <1>17, <2>1 DEF DaemonExit, DaemonCrash, TypeOK, process, host
<1>18. CASE UNCHANGED vars
  BY <1>18 DEF vars, TypeOK
<1>19. QED
  BY <1>1, <1>2, <1>3, <1>4, <1>5, <1>6, <1>7, <1>8, <1>9, <1>10, <1>11,
     <1>12, <1>13, <1>14, <1>15, <1>16, <1>17, <1>18
  DEF Next, Step, Finished

(* Type correctness.                                                       *)
THEOREM TypeCorrect == Spec => []TypeOK
<1>1. TypeInv => TypeOK
  BY DEF TypeInv
<1>2. QED
  BY <1>1, InitTypes, StepTypes, PTL DEF Spec
-----------------------------------------------------------------------------
(* What is written.  A write puts the whole of memory in the file, so what *)
(* is said of the files follows from what is said of the memory at the     *)
(* steps that write.                                                       *)

Writing == {"reset", "hook", "custom", "rSave", "rRepoId", "finally", "repoId"}

LEMMA PutFile ==
    ASSUME TypeOK, cmd \in CommandType, NEW sout, NEW f \in FileNames, Put(sout)
    PROVE  \/ files'[f] = files[f]
           \/ files'[f] \in {Blank, Corrupt}
           \/ f = Stroutfile /\ mem' = sout /\ files'[f] = Written(mem')
<1>1. Stroutfile \in FileNames
  BY DEF Stroutfile, FileNames
<1>2. CASE mem' = sout /\ files' = [files EXCEPT ![Stroutfile] = Written(sout)]
  BY <1>1, <1>2 DEF TypeOK
<1>3. CASE UNCHANGED files
  BY <1>3
<1>4. CASE \E left \in {Blank, Corrupt} :
              files' = [files EXCEPT ![Stroutfile] = left]
  BY <1>1, <1>4 DEF TypeOK
<1>5. QED
  BY <1>2, <1>3, <1>4 DEF Put

\* A step that writes is a step of a process at one of the writing labels.
LEMMA FileSteps ==
    ASSUME TypeInv, [Next]_vars, NEW f \in FileNames
    PROVE  \/ files'[f] = files[f]
           \/ files'[f] \in {Blank, Corrupt}
           \/ pc \in Writing /\ f = Stroutfile /\ files'[f] = Written(mem')
<1>1. CASE \E c \in Commands : Launch(c)
  BY <1>1 DEF Launch, FileNames, TypeInv, TypeOK
<1>2. CASE Reset
  BY <1>2, PutFile DEF Reset, Writing, TypeInv
<1>3. CASE Custom
  BY <1>3, PutFile DEF Custom, Writing, TypeInv
<1>4. CASE SaveVersion
  <2> DEFINE sout == [mem EXCEPT !.version = ComponentVersion(cmd), !.versionBy = run]
  <2>1. Put(sout) \/ UNCHANGED files
    BY <1>4 DEF SaveVersion
  <2>2. pc \in Writing /\ pc # "idle"
    BY <1>4 DEF SaveVersion, Writing
  <2>3. QED
    BY <2>1, <2>2, PutFile DEF TypeInv
<1>5. CASE SaveRepoId
  BY <1>5, PutFile DEF SaveRepoId, Writing, TypeInv
<1>6. CASE Kill
  <2>1. Stroutfile \in FileNames
    BY DEF Stroutfile, FileNames
  <2>2. QED
    BY <1>6, <2>1 DEF Kill, TypeInv, TypeOK
<1>7. CASE Hook
  BY <1>7, PutFile DEF Hook, Writing, TypeInv
<1>8. CASE UNCHANGED files
  BY <1>8
<1>9. QED
  BY <1>1, <1>2, <1>3, <1>4, <1>5, <1>6, <1>7, <1>8
  DEF Next, Step, Load, ReadConfig, Choose, StatusMethod, InstallMethod,
      StartMethod, StopMethod, AfterStop, RestartInfo, RestartStop, PreUpgrade,
      RestartCheck, RestartStart, PostUpgrade, DaemonExit, DaemonCrash,
      Finished, vars

\* The command of a process does not change while it runs, and the versions
\* installed on the host only grow.
LEMMA HostSteps ==
    ASSUME [Next]_vars
    PROVE  /\ pc # "idle" => UNCHANGED <<cmd, run>>
           /\ installed \subseteq installed'
  BY DEF Next, Step, Launch, Load, Reset, ReadConfig, Choose, Hook, Custom,
         StatusMethod, InstallMethod, StartMethod, StopMethod, AfterStop,
         RestartInfo, RestartStop, PreUpgrade, RestartCheck, RestartStart,
         PostUpgrade, SaveVersion, SaveRepoId, Kill, DaemonExit, DaemonCrash,
         Finished, vars, process, host

-----------------------------------------------------------------------------
(* What the memory of a process holds once it has loaded the file.         *)

OwnReport ==
    /\ mem.version # NoVersion => mem.versionBy = run
    /\ mem.security # 0 => mem.security = run
    /\ mem.version # NoVersion /\ cmd.name # "install" => mem.version \in installed

Loaded == pc \notin {"idle", "load"}

LEMMA PutMemory ==
    ASSUME NEW sout \in Content, Put(sout)
    PROVE  /\ mem' \in Content
           /\ mem'.version = sout.version /\ mem'.versionBy = sout.versionBy
           /\ mem'.repoId = sout.repoId /\ mem'.upgrade = sout.upgrade
           /\ mem'.security = sout.security
           /\ sout.err => mem'.err
  BY DEF Put, Content

\* Once loaded, what is in memory is the process's own, and stays so.
LEMMA OwnReportKept ==
    ASSUME TypeInv, [Next]_vars, Loaded, OwnReport
    PROVE  OwnReport'
<1>1. UNCHANGED <<cmd, run>> /\ installed \subseteq installed' /\ cmd \in CommandType
  BY HostSteps DEF Loaded, TypeInv
<1>2. mem \in Content /\ run \in Nat /\ Nothing \in Content
  BY MaxRunsAssumption DEF TypeInv, TypeOK, Nothing, Content
<1>3. CASE UNCHANGED mem
  BY <1>1, <1>3 DEF OwnReport
<1>4. CASE Reset
  <2>1. Put(Nothing)
    BY <1>4 DEF Reset
  <2>2. mem'.version = NoVersion /\ mem'.security = 0
    BY <1>2, <2>1, PutMemory DEF Nothing
  <2>3. QED
    BY <2>2 DEF OwnReport
<1>5. CASE Put([mem EXCEPT !.security = run])
  <2>1. [mem EXCEPT !.security = run] \in Content
    BY <1>2 DEF Content
  <2>2. /\ mem'.version = mem.version /\ mem'.versionBy = mem.versionBy
        /\ mem'.security = run
    BY <1>2, <1>5, <2>1, PutMemory DEF Content
  <2>3. QED
    BY <1>1, <2>2 DEF OwnReport
<1>6. CASE RestartInfo
  <2>1. /\ mem'.version = mem.version /\ mem'.versionBy = mem.versionBy
        /\ mem'.security = mem.security
    BY <1>2, <1>6 DEF RestartInfo, Content
  <2>2. QED
    BY <1>1, <2>1 DEF OwnReport
<1>7. CASE SaveVersion /\ ~UNCHANGED mem
  <2> DEFINE v == ComponentVersion(cmd)
  <2>1. v # NoVersion /\ Put([mem EXCEPT !.version = v, !.versionBy = run])
    BY <1>7 DEF SaveVersion
  <2>2. v \in Versions \union {NoVersion}
    BY <1>1, ComponentVersionType DEF TypeInv
  <2>3. cmd.name # "install" => v \in installed
    BY <1>1, <2>1, ComponentVersionInstalled DEF TypeInv
  <2> HIDE DEF v
  <2>4. [mem EXCEPT !.version = v, !.versionBy = run] \in Content
    BY <1>2, <2>2 DEF Content
  <2>5. mem'.version = v /\ mem'.versionBy = run /\ mem'.security = mem.security
    BY <1>2, <2>1, <2>4, PutMemory DEF Content
  <2>6. QED
    BY <1>1, <2>3, <2>5 DEF OwnReport
<1>8. CASE SaveRepoId
  <2>1. [mem EXCEPT !.repoId = run] \in Content
    BY <1>2 DEF Content
  <2>2. Put([mem EXCEPT !.repoId = run])
    BY <1>8 DEF SaveRepoId
  <2>3. /\ mem'.version = mem.version /\ mem'.versionBy = mem.versionBy
        /\ mem'.security = mem.security
    BY <1>2, <2>1, <2>2, PutMemory DEF Content
  <2>4. QED
    BY <1>1, <2>3 DEF OwnReport
<1>9. CASE Put(mem)
  <2>1. /\ mem'.version = mem.version /\ mem'.versionBy = mem.versionBy
        /\ mem'.security = mem.security
    BY <1>2, <1>9, PutMemory
  <2>2. QED
    BY <1>1, <2>1 DEF OwnReport
<1>10. QED
  BY <1>3, <1>4, <1>5, <1>6, <1>7, <1>8, <1>9
  DEF Next, Step, Launch, Load, ReadConfig, Choose, Hook, Custom, StatusMethod,
      InstallMethod, StartMethod, StopMethod, AfterStop, RestartStop,
      PreUpgrade, RestartCheck, RestartStart, PostUpgrade, Kill, DaemonExit,
      DaemonCrash, Finished, vars, Loaded

(* The inductive invariant: the memory of a process that has loaded the    *)
(* file, and the files.                                                    *)
ReportInv ==
    /\ TypeInv
    /\ Loaded => OwnReport
    /\ NoCarriedReport
    /\ VersionIsInstalled

LEMMA ReportInit == Init => ReportInv
<1> SUFFICES ASSUME Init
             PROVE  ReportInv
  OBVIOUS
<1>1. TypeInv
  BY InitTypes
<1>2. QED
  BY <1>1 DEF Init, ReportInv, Loaded, NoCarriedReport, VersionIsInstalled,
              FileNames, Blank, Nothing

LEMMA ReportStep == ReportInv /\ [Next]_vars => ReportInv'
<1> SUFFICES ASSUME ReportInv, [Next]_vars
             PROVE  ReportInv'
  OBVIOUS
<1>1. TypeInv'
  BY StepTypes DEF ReportInv
<1>2. (Loaded => OwnReport)'
  <2>1. CASE Loaded
    BY <2>1, OwnReportKept DEF ReportInv
  <2>2. CASE Load
    <3>1. mem' = Carried(files[Stroutfile].data) \/ mem' = Nothing
      BY <2>2 DEF Load
    <3>2. files[Stroutfile].data \in Content
      BY DEF ReportInv, TypeInv, TypeOK, Stroutfile, FileNames, FileType
    <3>3. mem'.version = NoVersion /\ mem'.security = 0
      <4>1. ASSUME NEW data \in Content
            PROVE  Carried(data).version = NoVersion /\ Carried(data).security = 0
        BY DEF Carried, Content
      <4>2. Nothing.version = NoVersion /\ Nothing.security = 0
        BY DEF Nothing
      <4>3. QED
        BY <3>1, <3>2, <4>1, <4>2
    <3>4. QED
      BY <3>3 DEF OwnReport
  <2>3. CASE ~Loaded /\ ~Load
    <3>1. pc' \in {"idle", "load"}
      BY <2>3 DEF Loaded, Next, Step, Launch, Reset, ReadConfig, Choose, Hook,
         Custom, StatusMethod, InstallMethod, StartMethod, StopMethod, AfterStop,
         RestartInfo, RestartStop, PreUpgrade, RestartCheck, RestartStart,
         PostUpgrade, SaveVersion, SaveRepoId, Kill, DaemonExit, DaemonCrash,
         Finished, vars
    <3>2. QED
      BY <3>1 DEF Loaded
  <2>4. QED
    BY <2>1, <2>2, <2>3
<1>3. ASSUME NEW f \in FileNames
      PROVE  LET file == files[f] IN
             (/\ file.data.version # NoVersion => file.data.versionBy = file.writer
              /\ file.data.security # 0 => file.data.security = file.writer
              /\ file.data.version # NoVersion /\ file.by.name # "install"
                     => file.data.version \in installed)'
  <2>1. installed \subseteq installed'
    BY HostSteps
  <2>2. CASE files'[f] = files[f]
    BY <2>1, <2>2 DEF ReportInv, NoCarriedReport, VersionIsInstalled
  <2>3. CASE files'[f] \in {Blank, Corrupt}
    BY <2>3 DEF Blank, Corrupt, Nothing
  <2>4. CASE pc \in Writing /\ files'[f] = Written(mem')
    <3>1. Loaded
      BY <2>4 DEF Writing, Loaded
    <3>2. OwnReport' /\ UNCHANGED <<cmd, run>>
      BY <3>1, OwnReportKept, HostSteps DEF ReportInv, Loaded
    <3>3. /\ files'[f].data = mem' /\ files'[f].writer = run
          /\ files'[f].by = cmd
      BY <2>4 DEF Written
    <3>4. QED
      BY <3>2, <3>3 DEF OwnReport
  <2>5. QED
    BY <2>2, <2>3, <2>4, FileSteps DEF ReportInv
<1>4. NoCarriedReport' /\ VersionIsInstalled'
  BY <1>3 DEF NoCarriedReport, VersionIsInstalled
<1>5. QED
  BY <1>1, <1>2, <1>4 DEF ReportInv

(* Whatever fails or is killed, a file never carries the version or the    *)
(* security issues that another process than its last writer found.        *)
THEOREM NothingCarried == Spec => []NoCarriedReport
<1>1. ReportInv => NoCarriedReport
  BY DEF ReportInv
<1>2. QED
  BY <1>1, ReportInit, ReportStep, PTL DEF Spec

(* A version that a command other than an install reports is installed on  *)
(* the host.                                                               *)
THEOREM ReportedVersionInstalled == Spec => []VersionIsInstalled
<1>1. ReportInv => VersionIsInstalled
  BY DEF ReportInv
<1>2. QED
  BY <1>1, ReportInit, ReportStep, PTL DEF Spec
-----------------------------------------------------------------------------
(* Where a process may be, given its command.                              *)

RestartLabels ==
    {"restart", "rStop", "rPreUpgrade", "rCheck", "rStart", "rPostUpgrade",
     "rSave", "rRepoId"}

Position ==
    /\ pc = "reset" => cmd.name = "status"
    /\ pc = "hook" => cmd.hook
    /\ pc = "custom" => cmd.name = "custom"
    /\ pc = "status" => cmd.name = "status"
    /\ pc = "start" => cmd.name = "start"
    /\ pc \in {"stop", "afterStop"} => cmd.name = "stop"
    /\ pc = "install" => cmd.name \in {"install", "restart"}
    /\ pc \in RestartLabels => cmd.name = "restart"
    /\ pc = "repoId" => ShouldExpose(cmd)

LEMMA PositionStep == TypeInv /\ Position /\ [Next]_vars => Position'
<1> SUFFICES ASSUME TypeInv, Position, [Next]_vars
             PROVE  Position'
  OBVIOUS
<1>1. CASE \E c \in Commands : Launch(c)
  BY <1>1 DEF Launch, Position, RestartLabels
<1>2. CASE pc # "idle" /\ Step
  <2>1. UNCHANGED <<cmd, run>>
    BY <1>2, HostSteps
  <2>2. ShouldExpose(cmd)' <=> ShouldExpose(cmd)
    BY <2>1 DEF ShouldExpose
  <2> USE <2>1, <2>2 DEF Position, RestartLabels, Goto, Fail
  <2>3. CASE Load \/ Reset \/ ReadConfig
    BY <2>3 DEF Load, Reset, ReadConfig
  <2>4. CASE Choose
    <3>1. cmd.name \in Names
      BY <1>2 DEF TypeInv, CommandType
    <3>2. QED
      BY <2>4, <3>1 DEF Choose, Names
  <2>5. CASE Hook \/ Custom \/ StatusMethod \/ StartMethod \/ StopMethod \/ AfterStop
    BY <2>5 DEF Hook, Custom, StatusMethod, StartMethod, StopMethod, AfterStop
  <2>6. CASE InstallMethod
    BY <2>6 DEF InstallMethod, AfterInstall
  <2>7. CASE RestartInfo \/ RestartStop \/ PreUpgrade \/ RestartCheck \/ RestartStart \/ PostUpgrade
    <3>1. cmd.client \in BOOLEAN /\ cmd.upgrade \in BOOLEAN
      BY <1>2 DEF TypeInv, CommandType
    <3>2. QED
      BY <2>7, <3>1 DEF RestartInfo, RestartStop, PreUpgrade, RestartCheck, RestartStart, PostUpgrade
  <2>8. CASE SaveVersion
    BY <2>8 DEF SaveVersion, AfterSave
  <2>9. CASE SaveRepoId
    BY <2>9 DEF SaveRepoId, AfterSave
  <2>10. QED
    BY <1>2, <2>3, <2>4, <2>5, <2>6, <2>7, <2>8, <2>9 DEF Step
<1>3. CASE Kill
  BY <1>3 DEF Kill, Position, RestartLabels
<1>4. CASE DaemonExit \/ DaemonCrash \/ UNCHANGED vars
  BY <1>4 DEF DaemonExit, DaemonCrash, vars, process, Position, ShouldExpose
<1>5. Step => pc # "idle"
  BY DEF Step, Load, Reset, ReadConfig, Choose, Hook, Custom,
         StatusMethod, InstallMethod, StartMethod, StopMethod, AfterStop,
         RestartInfo, RestartStop, PreUpgrade, RestartCheck, RestartStart,
         PostUpgrade, SaveVersion, SaveRepoId
<1>6. QED
  BY <1>1, <1>2, <1>3, <1>4, <1>5 DEF Next, Finished

(* The inductive invariant on the daemon.                                  *)
DaemonInv == TypeInv /\ Position /\ StopIsWaitedFor /\ RestartOnStopped

LEMMA DaemonStep == DaemonInv /\ [Next]_vars => DaemonInv'
<1> SUFFICES ASSUME DaemonInv, [Next]_vars
             PROVE  DaemonInv'
  OBVIOUS
<1>1. TypeInv' /\ Position'
  BY StepTypes, PositionStep DEF DaemonInv
<1> SUFFICES StopIsWaitedFor' /\ RestartOnStopped'
  BY <1>1 DEF DaemonInv
<1> USE DEF StopIsWaitedFor, RestartOnStopped, SkipsCheck
<1>2. CASE \E c \in Commands : Launch(c)
  BY <1>2 DEF Launch
<1>3. CASE Step
  <2>1. pc # "idle"
    BY <1>3 DEF Step, Load, Reset, ReadConfig, Choose, Hook, Custom,
         StatusMethod, InstallMethod, StartMethod, StopMethod, AfterStop,
         RestartInfo, RestartStop, PreUpgrade, RestartCheck, RestartStart,
         PostUpgrade, SaveVersion, SaveRepoId
  <2>2. UNCHANGED cmd /\ cmd \in CommandType
    BY <2>1, HostSteps DEF DaemonInv, TypeInv
  <2> USE <2>2 DEF Goto, Fail
  <2>3. CASE Load \/ Reset \/ ReadConfig
    BY <2>3 DEF Load, Reset, ReadConfig, DaemonInv, Position
  <2>4. CASE Choose
    BY <2>4 DEF Choose, CommandType, Names
  <2>5. CASE Hook \/ Custom \/ StatusMethod \/ StartMethod \/ StopMethod
    BY <2>5 DEF Hook, Custom, StatusMethod, StartMethod, StopMethod, DaemonInv, Position
  <2>6. CASE AfterStop
    BY <2>6 DEF AfterStop, Alive
  <2>7. CASE InstallMethod
    BY <2>7 DEF InstallMethod, AfterInstall, DaemonInv, Position
  <2>8. CASE RestartInfo \/ RestartStop \/ PreUpgrade \/ PostUpgrade \/ RestartStart
    <3>1. cmd.client \in BOOLEAN /\ cmd.upgrade \in BOOLEAN
      BY <2>2 DEF CommandType
    <3>2. QED
      BY <2>8, <3>1 DEF RestartInfo, RestartStop, PreUpgrade, PostUpgrade, RestartStart,
                DaemonInv, Position, RestartLabels
  <2>9. CASE RestartCheck
    BY <2>9 DEF RestartCheck, Alive, DaemonInv, Position, RestartLabels
  <2>10. CASE SaveVersion
    BY <2>10 DEF SaveVersion, AfterSave, Alive, ShouldExpose, DaemonInv, Position, RestartLabels
  <2>11. CASE SaveRepoId
    BY <2>11 DEF SaveRepoId, AfterSave, ShouldExpose, DaemonInv, Position, RestartLabels
  <2>12. QED
    BY <1>3, <2>3, <2>4, <2>5, <2>6, <2>7, <2>8, <2>9, <2>10, <2>11 DEF Step
<1>4. CASE Kill
  BY <1>4 DEF Kill
<1>5. CASE DaemonExit \/ DaemonCrash
  <2>1. UNCHANGED <<cmd, pc, result>>
    BY <1>5 DEF DaemonExit, DaemonCrash, process
  <2>2. Alive' => Alive
    BY <1>5 DEF DaemonExit, DaemonCrash, Alive, DaemonInv, TypeInv, TypeOK
  <2>3. QED
    BY <2>1, <2>2 DEF DaemonInv
<1>6. CASE UNCHANGED vars
  BY <1>6 DEF vars, Alive, DaemonInv
<1>7. QED
  BY <1>2, <1>3, <1>4, <1>5, <1>6 DEF Next, Finished

LEMMA DaemonInit == Init => DaemonInv
<1> SUFFICES ASSUME Init
             PROVE  DaemonInv
  OBVIOUS
<1>1. TypeInv
  BY InitTypes
<1>2. QED
  BY <1>1 DEF Init, DaemonInv, Position, RestartLabels, StopIsWaitedFor,
              RestartOnStopped

(* A stop command that succeeds leaves no instance of the daemon behind.   *)
THEOREM StopWaits == Spec => []StopIsWaitedFor
<1>1. DaemonInv => StopIsWaitedFor
  BY DEF DaemonInv
<1>2. QED
  BY <1>1, DaemonInit, DaemonStep, PTL DEF Spec

(* A restart whose status check is not skipped never has two instances.    *)
THEOREM RestartStartsOnStopped == Spec => []RestartOnStopped
<1>1. DaemonInv => RestartOnStopped
  BY DEF DaemonInv
<1>2. QED
  BY <1>1, DaemonInit, DaemonStep, PTL DEF Spec

-----------------------------------------------------------------------------
(* The upgrade that a restart reports.                                     *)

\* A running process has a number, and was not killed.
Started == pc # "idle" => run > 0 /\ result # "killed"

LEMMA StartedStep == TypeInv /\ Started /\ [Next]_vars => Started'
<1> SUFFICES ASSUME TypeInv, Started, [Next]_vars
             PROVE  Started'
  OBVIOUS
<1> USE DEF Started, Goto, Fail, process, host
<1>1. run \in Nat
  BY MaxRunsAssumption DEF TypeInv, TypeOK
<1>2. CASE \E c \in Commands : Launch(c)
  BY <1>1, <1>2 DEF Launch
<1>3. CASE Step
  BY <1>3 DEF Step, Load, Reset, ReadConfig, Choose, Hook, Custom,
       StatusMethod, InstallMethod, StartMethod, StopMethod, AfterStop,
       RestartInfo, RestartStop, PreUpgrade, RestartCheck, RestartStart,
       PostUpgrade, SaveVersion, SaveRepoId
<1>4. CASE Kill \/ DaemonExit \/ DaemonCrash \/ UNCHANGED vars
  BY <1>4 DEF Kill, DaemonExit, DaemonCrash, vars
<1>5. QED
  BY <1>2, <1>3, <1>4 DEF Next, Finished

\* Only a restart, and the reset of a status command, change the upgrade in
\* the memory of a process that has loaded the file.
LEMMA UpgradeInMemory ==
    ASSUME TypeInv, Position, [Next]_vars, Loaded
    PROVE  \/ mem'.upgrade = mem.upgrade
           \/ cmd.name = "status"
           \/ RestartInfo /\ (mem'.upgrade = run \/ UNCHANGED mem)
<1>1. mem \in Content /\ run \in Nat /\ cmd \in CommandType
  BY MaxRunsAssumption DEF TypeInv, TypeOK, Loaded
<1>2. CASE UNCHANGED mem
  BY <1>2
<1>3. CASE Reset
  BY <1>3 DEF Reset, Position
<1>4. CASE RestartInfo
  BY <1>1, <1>4 DEF RestartInfo, Content
<1>5. CASE Put(mem)
  BY <1>1, <1>5, PutMemory
<1>6. CASE Custom /\ Put([mem EXCEPT !.security = run])
  <2>1. [mem EXCEPT !.security = run] \in Content
    BY <1>1 DEF Content
  <2>2. QED
    BY <1>1, <1>6, <2>1, PutMemory DEF Content
<1>7. CASE SaveVersion /\ ~UNCHANGED mem
  <2> DEFINE v == ComponentVersion(cmd)
  <2>1. Put([mem EXCEPT !.version = v, !.versionBy = run])
    BY <1>7 DEF SaveVersion
  <2>2. v \in Versions \union {NoVersion}
    BY <1>1, ComponentVersionType DEF TypeInv
  <2> HIDE DEF v
  <2>3. [mem EXCEPT !.version = v, !.versionBy = run] \in Content
    BY <1>1, <2>2 DEF Content
  <2>4. QED
    BY <1>1, <2>1, <2>3, PutMemory DEF Content
<1>8. CASE SaveRepoId
  <2>1. [mem EXCEPT !.repoId = run] \in Content
    BY <1>1 DEF Content
  <2>2. QED
    BY <1>1, <1>8, <2>1, PutMemory DEF SaveRepoId, Content
<1>9. QED
  BY <1>2, <1>3, <1>4, <1>5, <1>6, <1>7, <1>8
  DEF Next, Step, Launch, Load, ReadConfig, Choose, Hook, Custom, StatusMethod,
      InstallMethod, StartMethod, StopMethod, AfterStop, RestartStop,
      PreUpgrade, RestartCheck, RestartStart, PostUpgrade, Kill, DaemonExit,
      DaemonCrash, Finished, vars, Loaded

\* Where the restart of an upgrade is once it has put the upgrade in memory.
AfterInfo == (RestartLabels \ {"restart"}) \union {"install", "finally", "repoId"}

UpgradeRestart == cmd.name = "restart" /\ cmd.upgrade /\ ~cmd.hook

(* The inductive invariant: what the file says of an upgrade is in the     *)
(* memory of a process that has loaded it, and a restart has it in memory  *)
(* before it comes to a step that reports its version.                     *)
UpgradeInv ==
    /\ TypeInv /\ Position /\ Started
    /\ Loaded /\ cmd.name # "status" /\ files["task"].data.upgrade # 0
           => mem.upgrade # 0
    /\ pc \in AfterInfo /\ UpgradeRestart => mem.upgrade # 0
    /\ UpgradeReported

LEMMA UpgradeInit == Init => UpgradeInv
<1> SUFFICES ASSUME Init
             PROVE  UpgradeInv
  OBVIOUS
<1>1. TypeInv
  BY InitTypes
<1>2. QED
  BY <1>1 DEF Init, UpgradeInv, Position, Started, RestartLabels, AfterInfo,
              Loaded, UpgradeReported, FileNames, Blank

LEMMA UpgradeStep == UpgradeInv /\ [Next]_vars => UpgradeInv'
<1> SUFFICES ASSUME UpgradeInv, [Next]_vars
             PROVE  UpgradeInv'
  OBVIOUS
<1>1. TypeInv' /\ Position' /\ Started'
  BY StepTypes, PositionStep, StartedStep DEF UpgradeInv
<1>2. /\ "task" \in FileNames
      /\ \/ files'["task"] = files["task"]
         \/ files'["task"].data = Nothing /\ files'["task"].state # "json"
         \/ /\ pc \in Writing /\ cmd.name # "status"
            /\ files'["task"] = Written(mem')
  BY FileSteps DEF UpgradeInv, FileNames, Stroutfile, Blank, Corrupt
<1>3. Nothing.upgrade = 0
  BY DEF Nothing
<1>4. pc # "idle" => UNCHANGED <<cmd, run>> /\ cmd \in CommandType /\ run > 0
  BY HostSteps DEF UpgradeInv, TypeInv, Started
<1>5. (Loaded /\ cmd.name # "status" /\ files["task"].data.upgrade # 0
           => mem.upgrade # 0)'
  <2> SUFFICES ASSUME Loaded', cmd'.name # "status", files'["task"].data.upgrade # 0
               PROVE  mem'.upgrade # 0
    OBVIOUS
  <2>1. CASE Loaded
    <3>1. cmd.name # "status" /\ UNCHANGED cmd /\ run > 0 /\ run \in Nat
      BY <1>4, <2>1, MaxRunsAssumption DEF Loaded, UpgradeInv, TypeInv, TypeOK
    <3>2. CASE files'["task"] = files["task"]
      BY <2>1, <3>1, <3>2, UpgradeInMemory DEF UpgradeInv
    <3>3. CASE files'["task"] = Written(mem')
      BY <3>3 DEF Written
    <3>4. QED
      BY <1>2, <1>3, <3>2, <3>3
  <2>2. CASE Load
    <3>1. /\ UNCHANGED <<files, cmd>> /\ pc' # "idle"
      BY <2>2 DEF Load, process, Loaded
    <3>2. mem' = Carried(files["task"].data)
      BY <2>2, <3>1 DEF Load, Fail, Stroutfile
    <3>3. files["task"].data \in Content
      BY <1>2 DEF UpgradeInv, TypeInv, TypeOK, FileType
    <3>4. ASSUME NEW data \in Content
          PROVE  Carried(data).upgrade = data.upgrade
      BY DEF Carried, Content
    <3>5. QED
      BY <3>1, <3>2, <3>3, <3>4
  <2>3. CASE ~Loaded /\ ~Load
    BY <2>3 DEF Loaded, Next, Step, Launch, Reset, ReadConfig, Choose, Hook,
       Custom, StatusMethod, InstallMethod, StartMethod, StopMethod, AfterStop,
       RestartInfo, RestartStop, PreUpgrade, RestartCheck, RestartStart,
       PostUpgrade, SaveVersion, SaveRepoId, Kill, DaemonExit, DaemonCrash,
       Finished, vars
  <2>4. QED
    BY <2>1, <2>2, <2>3
<1>6. (pc \in AfterInfo /\ UpgradeRestart => mem.upgrade # 0)'
  <2> SUFFICES ASSUME (pc \in AfterInfo)', UpgradeRestart'
               PROVE  mem'.upgrade # 0
    OBVIOUS
  <2>1. pc # "idle" /\ pc # "load"
    BY DEF AfterInfo, RestartLabels, Next, Step, Launch, Load, Goto, Fail, Reset,
       ReadConfig, Choose, Hook, Custom, StatusMethod, InstallMethod, StartMethod,
       StopMethod, AfterStop, RestartInfo, RestartStop, PreUpgrade, RestartCheck,
       RestartStart, PostUpgrade, SaveVersion, SaveRepoId, Kill, DaemonExit,
       DaemonCrash, Finished, vars
  <2>2. /\ UpgradeRestart /\ cmd \in CommandType /\ UNCHANGED cmd
        /\ run > 0 /\ run \in Nat
    BY <1>4, <2>1, MaxRunsAssumption DEF UpgradeRestart, UpgradeInv, TypeInv, TypeOK
  <2>3. CASE pc \in AfterInfo
    <3>1. ~RestartInfo
      BY <2>3 DEF RestartInfo, AfterInfo, RestartLabels
    <3>2. mem'.upgrade = mem.upgrade
      BY <2>1, <2>2, <3>1, UpgradeInMemory DEF UpgradeInv, Loaded, UpgradeRestart
    <3>3. QED
      BY <2>2, <2>3, <3>2 DEF UpgradeInv
  <2>4. CASE RestartInfo
    BY <2>2, <2>4 DEF RestartInfo, UpgradeRestart, UpgradeInv, TypeInv, TypeOK, Content
  <2>5. CASE pc \notin AfterInfo /\ ~RestartInfo
    <3>1. FALSE
      BY <2>1, <2>2, <2>5 DEF AfterInfo, RestartLabels, UpgradeRestart, UpgradeInv,
         Position, Next, Step, Launch, Load, Goto, Fail, Reset, ReadConfig, Choose,
         Hook, Custom, StatusMethod, InstallMethod, StartMethod, StopMethod,
         AfterStop, RestartStop, PreUpgrade, RestartCheck, RestartStart,
         PostUpgrade, SaveVersion, SaveRepoId, Kill, DaemonExit, DaemonCrash,
         Finished, vars
    <3>2. QED
      BY <3>1
  <2>6. QED
    BY <2>3, <2>4, <2>5
<1>7. UpgradeReported'
  <2>1. CASE files'["task"] = files["task"]
    BY <2>1 DEF UpgradeInv, UpgradeReported
  <2>2. CASE files'["task"].state # "json"
    BY <2>2 DEF UpgradeReported
  <2>3. CASE pc \in Writing /\ cmd.name # "status" /\ files'["task"] = Written(mem')
    <3>1. files'["task"].by = cmd /\ files'["task"].data = mem'
      BY <2>3 DEF Written
    <3>2. SUFFICES ASSUME UpgradeRestart
                   PROVE  mem'.upgrade # 0
      BY <3>1 DEF UpgradeReported, UpgradeRestart
    <3>3. pc \in AfterInfo /\ Loaded /\ ~RestartInfo
      BY <2>3, <3>2 DEF Writing, AfterInfo, RestartLabels, Loaded, RestartInfo,
                        UpgradeRestart, UpgradeInv, Position
    <3>4. mem'.upgrade = mem.upgrade
      BY <2>3, <3>3, UpgradeInMemory DEF UpgradeInv
    <3>5. QED
      BY <3>2, <3>3, <3>4 DEF UpgradeInv
  <2>4. QED
    BY <1>2, <2>1, <2>2, <2>3
<1>8. QED
  BY <1>1, <1>5, <1>6, <1>7 DEF UpgradeInv

(* The restart of an upgrade never reports a version without the upgrade.  *)
THEOREM UpgradeIsReported == Spec => []UpgradeReported
<1>1. UpgradeInv => UpgradeReported
  BY DEF UpgradeInv
<1>2. QED
  BY <1>1, UpgradeInit, UpgradeStep, PTL DEF Spec

(* A hook or a retry keeps what the file says of the upgrade, unless its   *)
(* write was interrupted or a new task begins.                             *)
THEOREM UpgradeIsKept == Spec => UpgradeKept
<1> DEFINE A == files["task"].data.upgrade # 0 /\ files'["task"].data.upgrade = 0
                    => (result' = "killed" \/ mem'.err \/ pc = "idle")
<1>1. UpgradeInv /\ [Next]_vars => [A]_vars
  <2> SUFFICES ASSUME UpgradeInv, [Next]_vars, pc # "idle", result' # "killed",
                      files["task"].data.upgrade # 0,
                      files'["task"].data.upgrade = 0
               PROVE  mem'.err
    OBVIOUS
  <2>1. cmd \in CommandType /\ mem \in Content /\ run \in Nat /\ run > 0
    BY MaxRunsAssumption DEF UpgradeInv, TypeInv, TypeOK, Started
  <2>2. files' # files
    OBVIOUS
  <2>3. Stroutfile = "task" /\ cmd.name # "status" /\ pc \in Writing
    <3>1. ~ \E c \in Commands : Launch(c)
      BY DEF Launch
    <3>2. pc \in Writing
      BY <2>2, <3>1 DEF Next, Step, Load, Reset, ReadConfig, Choose, Hook, Custom,
         StatusMethod, InstallMethod, StartMethod, StopMethod, AfterStop,
         RestartInfo, RestartStop, PreUpgrade, RestartCheck, RestartStart,
         PostUpgrade, SaveVersion, SaveRepoId, Kill, DaemonExit, DaemonCrash,
         Finished, vars, Writing
    <3>3. cmd.name # "status"
      <4>1. SUFFICES ASSUME cmd.name = "status"
                     PROVE  files'["task"] = files["task"]
        OBVIOUS
      <4>2. Stroutfile = "status" /\ "task" \in FileNames
        BY <4>1 DEF Stroutfile, FileNames
      <4>3. ASSUME NEW left
            PROVE  [files EXCEPT !["status"] = left]["task"] = files["task"]
        BY <4>2 DEF UpgradeInv, TypeInv, TypeOK
      <4>4. ASSUME NEW sout, Put(sout)
            PROVE  files'["task"] = files["task"]
        BY <4>2, <4>3, <4>4 DEF Put
      <4>5. CASE Kill
        BY <4>2, <4>3, <4>5 DEF Kill
      <4>6. QED
        BY <3>1, <4>4, <4>5 DEF Next, Step, Load, Reset, ReadConfig, Choose, Hook,
           Custom, StatusMethod, InstallMethod, StartMethod, StopMethod, AfterStop,
           RestartInfo, RestartStop, PreUpgrade, RestartCheck, RestartStart,
           PostUpgrade, SaveVersion, SaveRepoId, DaemonExit, DaemonCrash,
           Finished, vars
    <3>4. QED
      BY <3>2, <3>3 DEF Stroutfile
  <2>4. mem'.upgrade # 0
    <3>1. Loaded /\ mem.upgrade # 0
      BY <2>3 DEF Loaded, Writing, UpgradeInv
    <3>2. QED
      BY <2>1, <2>3, <3>1, UpgradeInMemory DEF UpgradeInv
  <2>5. ASSUME NEW sout \in Content, Put(sout)
        PROVE  mem'.err
    <3>1. "task" \in FileNames
      BY DEF FileNames
    <3>2. CASE mem' = sout /\ files' = [files EXCEPT ![Stroutfile] = Written(sout)]
      BY <2>3, <2>4, <3>1, <3>2 DEF Written, UpgradeInv, TypeInv, TypeOK
    <3>3. CASE mem' = [sout EXCEPT !.err = TRUE]
      BY <3>3 DEF Content
    <3>4. QED
      BY <2>5, <3>2, <3>3 DEF Put
  <2>6. CASE Reset
    BY <2>3, <2>6 DEF Reset, UpgradeInv, Position
  <2>7. CASE Hook
    BY <2>1, <2>2, <2>5, <2>7 DEF Hook
  <2>8. CASE Custom
    <3>1. [mem EXCEPT !.security = run] \in Content
      BY <2>1 DEF Content
    <3>2. QED
      BY <2>2, <2>5, <2>8, <3>1 DEF Custom
  <2>9. CASE SaveVersion
    <3> DEFINE v == ComponentVersion(cmd)
    <3>1. Put([mem EXCEPT !.version = v, !.versionBy = run])
      BY <2>2, <2>9 DEF SaveVersion
    <3>2. v \in Versions \union {NoVersion}
      BY <2>1, ComponentVersionType DEF UpgradeInv, TypeInv
    <3> HIDE DEF v
    <3>3. [mem EXCEPT !.version = v, !.versionBy = run] \in Content
      BY <2>1, <3>2 DEF Content
    <3>4. QED
      BY <2>5, <3>1, <3>3
  <2>10. CASE SaveRepoId
    <3>1. [mem EXCEPT !.repoId = run] \in Content
      BY <2>1 DEF Content
    <3>2. QED
      BY <2>5, <2>10, <3>1 DEF SaveRepoId
  <2>11. QED
    BY <2>2, <2>6, <2>7, <2>8, <2>9, <2>10
    DEF Next, Step, Launch, Load, ReadConfig, Choose, StatusMethod, InstallMethod,
        StartMethod, StopMethod, AfterStop, RestartInfo, RestartStop, PreUpgrade,
        RestartCheck, RestartStart, PostUpgrade, Kill, DaemonExit, DaemonCrash,
        Finished, vars
<1>2. QED
  BY <1>1, UpgradeInit, UpgradeStep, PTL DEF Spec, UpgradeKept
-----------------------------------------------------------------------------
(* The file of the status commands.                                        *)

FreshInv == TypeInv /\ Position /\ Started /\ StatusIsFresh

LEMMA FreshInit == Init => FreshInv
<1> SUFFICES ASSUME Init
             PROVE  FreshInv
  OBVIOUS
<1>1. TypeInv
  BY InitTypes
<1>2. QED
  BY <1>1 DEF Init, FreshInv, Position, Started, RestartLabels, StatusIsFresh

LEMMA FreshStep == FreshInv /\ [Next]_vars => FreshInv'
<1> SUFFICES ASSUME FreshInv, [Next]_vars
             PROVE  FreshInv'
  OBVIOUS
<1>1. TypeInv' /\ Position' /\ Started'
  BY StepTypes, PositionStep, StartedStep DEF FreshInv
<1>2. SUFFICES ASSUME cmd' # NoTask, cmd'.name = "status",
                      pc' \notin {"load", "reset"}, result' # "killed", ~mem'.err,
                      files'["status"].state = "json"
               PROVE  files'["status"].writer = run'
  BY <1>1 DEF FreshInv, StatusIsFresh
<1> USE DEF process, Goto, Fail
<1>3. CASE UNCHANGED <<files, mem, cmd, run>> /\ pc \notin {"load", "reset"}
           /\ result # "killed"
  BY <1>2, <1>3 DEF FreshInv, StatusIsFresh
<1>4. CASE \E c \in Commands : Launch(c)
  BY <1>2, <1>4 DEF Launch
<1>5. CASE Load
  <2>1. UNCHANGED <<files, cmd>> /\ files[Stroutfile].state = "corrupt"
    BY <1>2, <1>5 DEF Load
  <2>2. QED
    BY <1>2, <2>1 DEF Stroutfile
<1>6. ASSUME NEW sout \in Content, Put(sout), UNCHANGED <<cmd, run>>
      PROVE  files'["status"].writer = run'
  <2>1. "status" \in FileNames /\ Stroutfile = "status"
    BY <1>2, <1>6 DEF FileNames, Stroutfile
  <2>2. mem' # [sout EXCEPT !.err = TRUE]
    BY <1>2 DEF Content
  <2>3. files' = [files EXCEPT !["status"] = Written(sout)]
    BY <1>6, <2>1, <2>2 DEF Put
  <2>4. QED
    BY <1>6, <2>1, <2>3 DEF Written, FreshInv, TypeInv, TypeOK
<1>7. CASE Reset
  <2>1. Nothing \in Content
    BY DEF Nothing, Content
  <2>2. QED
    BY <1>6, <1>7, <2>1 DEF Reset
<1>8. CASE pc \notin {"idle", "load", "reset"} /\ Step
  <2>1. /\ UNCHANGED <<cmd, run>> /\ cmd \in CommandType /\ result # "killed"
        /\ mem \in Content /\ run \in Nat
    BY <1>8, HostSteps, MaxRunsAssumption DEF FreshInv, TypeInv, TypeOK, Started
  <2>2. CASE UNCHANGED <<files, mem>>
    BY <1>3, <1>8, <2>1, <2>2
  <2>3. CASE Put(mem)
    BY <1>6, <2>1, <2>3
  <2>4. CASE Put([mem EXCEPT !.security = run])
    <3>1. [mem EXCEPT !.security = run] \in Content
      BY <2>1 DEF Content
    <3>2. QED
      BY <1>6, <2>1, <2>4, <3>1
  <2>5. CASE SaveVersion /\ ~UNCHANGED <<files, mem>>
    <3> DEFINE v == ComponentVersion(cmd)
    <3>1. Put([mem EXCEPT !.version = v, !.versionBy = run])
      BY <2>5 DEF SaveVersion
    <3>2. v \in Versions \union {NoVersion}
      BY <2>1, ComponentVersionType DEF FreshInv, TypeInv
    <3> HIDE DEF v
    <3>3. [mem EXCEPT !.version = v, !.versionBy = run] \in Content
      BY <2>1, <3>2 DEF Content
    <3>4. QED
      BY <1>6, <2>1, <3>1, <3>3
  <2>6. CASE SaveRepoId
    <3>1. [mem EXCEPT !.repoId = run] \in Content
      BY <2>1 DEF Content
    <3>2. QED
      BY <1>6, <2>1, <2>6, <3>1 DEF SaveRepoId
  <2>7. CASE RestartInfo
    BY <1>2, <2>1, <2>7 DEF RestartInfo, FreshInv, Position, RestartLabels
  <2>8. QED
    BY <1>8, <2>2, <2>3, <2>4, <2>5, <2>6, <2>7
    DEF Step, Load, Reset, ReadConfig, Choose, Hook, Custom, StatusMethod,
        InstallMethod, StartMethod, StopMethod, AfterStop, RestartStop,
        PreUpgrade, RestartCheck, RestartStart, PostUpgrade
<1>9. CASE Kill
  BY <1>2, <1>9 DEF Kill
<1>10. CASE DaemonExit \/ DaemonCrash \/ UNCHANGED vars
  BY <1>2, <1>10 DEF DaemonExit, DaemonCrash, vars, FreshInv, StatusIsFresh
<1>11. QED
  BY <1>4, <1>5, <1>7, <1>8, <1>9, <1>10
  DEF Next, Finished, Step, Load, Reset, ReadConfig, Choose, Hook, Custom,
      StatusMethod, InstallMethod, StartMethod, StopMethod, AfterStop,
      RestartInfo, RestartStop, PreUpgrade, RestartCheck, RestartStart,
      PostUpgrade, SaveVersion, SaveRepoId

(* What the file of a status command says is the command's own.            *)
THEOREM StatusFileIsFresh == Spec => []StatusIsFresh
<1>1. FreshInv => StatusIsFresh
  BY DEF FreshInv
<1>2. QED
  BY <1>1, FreshInit, FreshStep, PTL DEF Spec

-----------------------------------------------------------------------------
(* Which version is reported.  The packages and the symlink change before  *)
(* the report of a process, never after it.                                *)

AfterReport == {"idle", "rRepoId", "finally", "repoId"}

(* The inductive invariant: a process has a version in memory, or in a file*)
(* of its own, only once it is past what changes the host.                 *)
CurrentInv ==
    /\ TypeInv
    /\ \A f \in FileNames : files[f].writer <= run
    /\ Loaded /\ mem.version # NoVersion
           => pc \in AfterReport /\ mem.version = ComponentVersion(cmd)
    /\ \A f \in FileNames :
          files[f].writer = run /\ files[f].data.version # NoVersion => pc \in AfterReport
    /\ ReportIsCurrent

LEMMA SameVersion ==
    ASSUME UNCHANGED <<cmd, installed, link>>
    PROVE  ComponentVersion(cmd)' = ComponentVersion(cmd)
BY DEF ComponentVersion, OnlyVersion

\* Where a step may lead, and where the host may change.
LEMMA ReportSteps ==
    ASSUME [Next]_vars
    PROVE  /\ pc = "idle" => \/ UNCHANGED <<pc, files, mem, cmd, run, installed, link>>
                             \/ pc' = "load" /\ run' = run + 1
           /\ pc \in AfterReport \ {"idle"} => pc' \in AfterReport
           /\ pc \notin {"idle", "install", "rPreUpgrade"}
                 => UNCHANGED <<cmd, run, installed, link>>
           /\ pc \in {"install", "rPreUpgrade"} => UNCHANGED mem
<1> USE DEF AfterReport, process, host, Goto, Fail
<1>1. CASE \E c \in Commands : Launch(c)
  BY <1>1 DEF Launch
<1>2. CASE Step
  <2>1. CASE Load \/ Reset \/ ReadConfig \/ Choose \/ Hook \/ Custom \/ StatusMethod
    BY <2>1 DEF Load, Reset, ReadConfig, Choose, Hook, Custom, StatusMethod
  <2>2. CASE InstallMethod \/ StartMethod \/ StopMethod \/ AfterStop \/ RestartInfo
    BY <2>2 DEF InstallMethod, StartMethod, StopMethod, AfterStop, RestartInfo
  <2>3. CASE RestartStop \/ PreUpgrade \/ RestartCheck \/ RestartStart \/ PostUpgrade
    BY <2>3 DEF RestartStop, PreUpgrade, RestartCheck, RestartStart, PostUpgrade
  <2>4. CASE SaveVersion \/ SaveRepoId
    BY <2>4 DEF SaveVersion, SaveRepoId, AfterSave
  <2>5. QED
    BY <1>2, <2>1, <2>2, <2>3, <2>4 DEF Step
<1>3. CASE Kill \/ DaemonExit \/ DaemonCrash \/ UNCHANGED vars
  BY <1>3 DEF Kill, DaemonExit, DaemonCrash, vars
<1>4. QED
  BY <1>1, <1>2, <1>3 DEF Next, Finished

\* The report of the version is the only step that puts one in memory.
LEMMA VersionInMemory ==
    ASSUME TypeInv, [Next]_vars, Loaded
    PROVE  \/ mem'.version \in {mem.version, NoVersion}
           \/ mem'.version = ComponentVersion(cmd) /\ pc' \in AfterReport
<1>1. mem \in Content /\ run \in Nat /\ cmd \in CommandType
  BY MaxRunsAssumption DEF TypeInv, TypeOK, Loaded
<1>2. CASE UNCHANGED mem
  BY <1>2
<1>3. CASE Reset
  <2>1. Nothing \in Content /\ Nothing.version = NoVersion
    BY DEF Nothing, Content
  <2>2. QED
    BY <1>3, <2>1, PutMemory DEF Reset
<1>4. CASE RestartInfo
  BY <1>1, <1>4 DEF RestartInfo, Content
<1>5. CASE Put(mem)
  BY <1>1, <1>5, PutMemory
<1>6. CASE Custom /\ Put([mem EXCEPT !.security = run])
  <2>1. [mem EXCEPT !.security = run] \in Content
    BY <1>1 DEF Content
  <2>2. QED
    BY <1>1, <1>6, <2>1, PutMemory DEF Content
<1>7. CASE SaveVersion /\ ~UNCHANGED mem
  <2> DEFINE v == ComponentVersion(cmd)
  <2>1. Put([mem EXCEPT !.version = v, !.versionBy = run])
    BY <1>7 DEF SaveVersion
  <2>2. v \in Versions \union {NoVersion}
    BY <1>1, ComponentVersionType DEF TypeInv
  <2>3. pc' \in AfterReport
    BY <1>7 DEF SaveVersion, AfterSave, Goto, Fail, AfterReport
  <2> HIDE DEF v
  <2>4. /\ [mem EXCEPT !.version = v, !.versionBy = run] \in Content
        /\ [mem EXCEPT !.version = v, !.versionBy = run].version = v
    BY <1>1, <2>2 DEF Content
  <2>5. mem'.version = v
    BY <2>1, <2>4, PutMemory
  <2>6. QED
    BY <2>3, <2>5 DEF v
<1>8. CASE SaveRepoId
  <2>1. [mem EXCEPT !.repoId = run] \in Content
    BY <1>1 DEF Content
  <2>2. QED
    BY <1>1, <1>8, <2>1, PutMemory DEF SaveRepoId, Content
<1>9. QED
  BY <1>2, <1>3, <1>4, <1>5, <1>6, <1>7, <1>8
  DEF Next, Step, Launch, Load, ReadConfig, Choose, Hook, Custom, StatusMethod,
      InstallMethod, StartMethod, StopMethod, AfterStop, RestartStop,
      PreUpgrade, RestartCheck, RestartStart, PostUpgrade, Kill, DaemonExit,
      DaemonCrash, Finished, vars, Loaded

\* A version that is in memory after a step is the one the host has then.
LEMMA MemoryIsCurrent ==
    ASSUME CurrentInv, [Next]_vars, Loaded, mem'.version # NoVersion
    PROVE  pc' \in AfterReport /\ mem'.version = ComponentVersion(cmd)'
<1>1. CASE mem'.version = mem.version
  <2>1. pc \in AfterReport \ {"idle"} /\ mem.version = ComponentVersion(cmd)
    BY <1>1 DEF CurrentInv, Loaded
  <2>2. UNCHANGED <<cmd, installed, link>> /\ pc' \in AfterReport
    BY <2>1, ReportSteps DEF AfterReport
  <2>3. QED
    BY <1>1, <2>1, <2>2, SameVersion
<1>2. CASE mem'.version # mem.version
  <2>1. mem'.version = ComponentVersion(cmd) /\ pc' \in AfterReport
    BY <1>2, VersionInMemory DEF CurrentInv
  <2>2. UNCHANGED <<cmd, installed, link>>
    BY <1>2, ReportSteps DEF Loaded
  <2>3. QED
    BY <2>1, <2>2, SameVersion
<1>3. QED
  BY <1>1, <1>2

LEMMA CurrentInit == Init => CurrentInv
<1> SUFFICES ASSUME Init
             PROVE  CurrentInv
  OBVIOUS
<1>1. TypeInv
  BY InitTypes
<1>2. QED
  BY <1>1 DEF Init, CurrentInv, Loaded, ReportIsCurrent, FileNames, Blank, Nothing

LEMMA CurrentStep == CurrentInv /\ [Next]_vars => CurrentInv'
<1> SUFFICES ASSUME CurrentInv, [Next]_vars
             PROVE  CurrentInv'
  OBVIOUS
<1>1. TypeInv'
  BY StepTypes DEF CurrentInv
<1>2. run \in Nat /\ run' \in {run, run + 1}
  BY ReportSteps, HostSteps, MaxRunsAssumption DEF CurrentInv, TypeInv, TypeOK
<1>3. ASSUME NEW f \in FileNames
      PROVE  /\ files'[f].writer <= run'
             /\ files'[f].writer = run' /\ files'[f].data.version # NoVersion
                   => /\ pc' \in AfterReport
                      /\ files'[f].data.version = ComponentVersion(cmd)'
  <2>1. CASE files'[f] = files[f]
    <3>1. files[f].writer <= run /\ files[f].writer \in Nat
      BY DEF CurrentInv, TypeInv, TypeOK, FileType
    <3>2. files'[f].writer <= run'
      BY <1>2, <2>1, <3>1
    <3>3. ASSUME files'[f].writer = run', files'[f].data.version # NoVersion
          PROVE  /\ pc' \in AfterReport
                 /\ files'[f].data.version = ComponentVersion(cmd)'
      <4>1. run' = run
        BY <1>2, <2>1, <3>1, <3>3
      <4>2. pc \in AfterReport /\ files[f].data.version = ComponentVersion(cmd)
        BY <2>1, <3>3, <4>1 DEF CurrentInv, ReportIsCurrent
      <4>3. UNCHANGED <<cmd, installed, link>> /\ pc' \in AfterReport
        BY <1>2, <4>1, <4>2, ReportSteps DEF AfterReport
      <4>4. QED
        BY <2>1, <4>2, <4>3, SameVersion
    <3>4. QED
      BY <3>2, <3>3
  <2>2. CASE files'[f] \in {Blank, Corrupt}
    BY <1>2, <2>2 DEF Blank, Corrupt, Nothing
  <2>3. CASE pc \in Writing /\ files'[f] = Written(mem')
    <3>1. Loaded /\ UNCHANGED run
      BY <2>3, HostSteps DEF Writing, Loaded
    <3>2. files'[f].data = mem' /\ files'[f].writer = run
      BY <2>3 DEF Written
    <3>3. QED
      BY <1>2, <3>1, <3>2, MemoryIsCurrent
  <2>4. QED
    BY <2>1, <2>2, <2>3, FileSteps DEF CurrentInv
<1>4. (Loaded /\ mem.version # NoVersion
          => pc \in AfterReport /\ mem.version = ComponentVersion(cmd))'
  <2>1. CASE Loaded
    BY <2>1, MemoryIsCurrent
  <2>2. CASE Load
    <3>1. files[Stroutfile].data \in Content
      BY DEF CurrentInv, TypeInv, TypeOK, Stroutfile, FileNames, FileType
    <3>2. ASSUME NEW data \in Content
          PROVE  Carried(data).version = NoVersion
      BY DEF Carried, Content
    <3>3. mem'.version = NoVersion
      BY <2>2, <3>1, <3>2 DEF Load, Nothing
    <3>4. QED
      BY <3>3
  <2>3. CASE ~Loaded /\ ~Load
    <3>1. pc' \in {"idle", "load"}
      BY <2>3 DEF Loaded, Next, Step, Launch, Reset, ReadConfig, Choose, Hook,
         Custom, StatusMethod, InstallMethod, StartMethod, StopMethod, AfterStop,
         RestartInfo, RestartStop, PreUpgrade, RestartCheck, RestartStart,
         PostUpgrade, SaveVersion, SaveRepoId, Kill, DaemonExit, DaemonCrash,
         Finished, vars
    <3>2. QED
      BY <3>1 DEF Loaded
  <2>4. QED
    BY <2>1, <2>2, <2>3
<1>5. ReportIsCurrent'
  BY <1>3 DEF ReportIsCurrent
<1>6. QED
  BY <1>1, <1>3, <1>4, <1>5 DEF CurrentInv

(* The version in the file of a process is the one that is current on the  *)
(* host, through failures of the stack-select tool, retries of the report  *)
(* and interrupted writes.                                                 *)
THEOREM ReportedVersionIsCurrent == Spec => []ReportIsCurrent
<1>1. CurrentInv => ReportIsCurrent
  BY DEF CurrentInv
<1>2. QED
  BY <1>1, CurrentInit, CurrentStep, PTL DEF Spec

-----------------------------------------------------------------------------
(* Who waits for a daemon.                                                 *)

(* Where every service has its status checked and none is upgraded, no     *)
(* restart starts a daemon over one that is on its way down.  It is the    *)
(* restarts that skip the check (script.py:958-972) that do.               *)
THEOREM CheckedRestartsWait ==
  ASSUME \A c \in Commands : ~SkipsCheck(c)
  PROVE  Spec => []EveryStopIsWaitedFor
<1> DEFINE Sent == cmd \in Commands \union {NoTask}
<1>1. Init => Sent
  BY DEF Init
<1>2. Sent /\ [Next]_vars => Sent'
  BY DEF Next, Step, Launch, Load, Reset, ReadConfig, Choose, Hook, Custom,
         StatusMethod, InstallMethod, StartMethod, StopMethod, AfterStop,
         RestartInfo, RestartStop, PreUpgrade, RestartCheck, RestartStart,
         PostUpgrade, SaveVersion, SaveRepoId, Kill, DaemonExit, DaemonCrash,
         Finished, vars, process
<1>3. TypeInv /\ Sent /\ RestartOnStopped => EveryStopIsWaitedFor
  BY NoTaskAssumption DEF TypeInv, RestartOnStopped, EveryStopIsWaitedFor, Alive
<1>4. Spec => []RestartOnStopped
  BY RestartStartsOnStopped
<1>5. QED
  BY <1>1, <1>2, <1>3, <1>4, InitTypes, StepTypes, PTL DEF Spec
=============================================================================
