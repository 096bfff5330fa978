# A TLA+ model of ryba-ambari-takeover

ryba-ambari-takeover installs an Ambari server and its agents on a Hadoop
cluster, registers the services of the cluster in Ambari and takes over the
daemons that ran without it. It has two parts of a different nature:

* **handlers** (`*.coffee.md`), run by masson on each node in the order of the
  services, that install packages and files, wait for ports and send requests to
  Ambari;
* **Python scripts** the handlers ship to the Ambari server and to the agents,
  which from then on run every command of the cluster: `script.py` (the base class
  of all the components' scripts), `solr_cloud_util.py` and
  `setup_infra_solr.py`, with the parameters of Infra Solr and Log Search.

The scripts are the part with a life of its own: processes that fail, are killed
and are run again, that share files, a ZooKeeper tree and a daemon. Of the handlers, those
that stop and start the daemons of an HA HDFS on several nodes at once are modelled.

## Inventory

| Component (source) | State | Operations | Interacts with | What makes it correct |
|---|---|---|---|---|
| Agent command script (`ambari/resources/script.py:126-462, 872-1002`) | `structuredOut` in memory, the structured output files, the daemon, the selected version | load and reset of the file, dispatch, hook, start, stop, `after_stop`, restart, status, install, custom command, report of the version | the agent (launches, kills), stack-select, the daemon | what a file says is not stale; the upgrade is reported; no daemon is started over another |
| Configure lock (`script.py:102-124`) | an fcntl lock file | `configure()` of every component | other processes of the agent | mutual exclusion, no deadlock on nested calls |
| Package installation (`script.py:464-575, 754-851`) | position in the list, cached stack version, packages on the host | choose a version, check the condition, install | package manager, stack-select, the agent's retries | all packages wanted, one version, never a wild one |
| Configuration archives (`script.py:1012-1082`) | a temporary directory, an archive | write, archive, delete | other processes that write the same archive | the directory is deleted, the archive is whole |
| Solr command library (`server/resources/solr_cloud_util.py`) | configuration sets, znodes and ACLs in ZooKeeper, temporary directories | upload a set, create collections, secure znodes, add roles | solrCloudCli.sh, Solr's REST interface, other clients | an edited set is kept; steps can be repeated |
| Infra Solr setup (`ambari_infra/resources/setup_infra_solr.py`) | the Solr znode, `urlScheme`, `security.json`, ACLs | the six steps of a setup, on every host | ZooKeeper, other hosts | the znode is closed only once secured; a finished setup is complete |
| Parameters (`ambari_infra/resources/params.py`, `logsearch/resources/params.py`) | none | computation | the command's JSON | (pure) |
| Cluster registration (`server/register.coffee.md`) | Ambari's cluster, services, components, hosts | add, wait, install | Ambari's REST interface | nothing is waited for that nobody adds |
| Cluster post-installation (`server/install.coffee.md`) | files of the server | ship scripts, rack topology, start | ssh, Ambari | the scripts are where the agents look |
| Ambari server, standalone server (`ambari/server`, `ambari/standalone`, `standalone`) | packages, database, admin password | install, start, wait, check | the database, REST | the database is initialised once; either password works |
| Ambari agent (`ambari/agent`), host preparation (`agent`) | ini file, users, keytabs | install, start | none | idempotence |
| HDFS NameNode, ZKFC, JournalNode, DataNode (`hadoop/hdfs_*`, `hadoop/zkfc`) | daemons under the system's or Ambari's control, the active NameNode | takeover, start, wait, check, layout | each other by ports, ZooKeeper, Ambari | nobody waits for itself; the desired NameNode is active |
| ZooKeeper (`zookeeper/server`) | the quorum | takeover, start, wait, check | HDFS, HBase, Solr | the quorum is kept |
| YARN, MapReduce, HBase, Hive, Oozie, Kafka, Knox, Ranger, Atlas, Log Search, Metrics, SmartSense, Spark, Tez, Pig, Sqoop, Phoenix, Zeppelin, NiFi | configuration files, one daemon per component | configure, install, start, stop, wait, check | ports of the services they need | the waits have no cycle on a node (see YARN under Not modelled) |
| Monitoring (`shinken`, `nagvis`, `prometheus`, `commons/monitoring`), databases, test user, repositories, views | configuration files | install | none | (configuration) |

The `configure` handlers are a pure computation of options; templates and
resources are data.

### Interactions

masson runs the nodes in parallel and, on each, the services in the order of
their dependencies; a handler is a sequence of blocking steps. The handlers of
two nodes meet only through ports (`connection.wait`), commands that poll
(`wait.execute`) and Ambari. The starts wait as follows: ZooKeeper and DataNode
for Kerberos; JournalNode for Kerberos and ZooKeeper; NameNode for a quorum of
ZooKeeper and every JournalNode; ZKFC, once started, for every ZKFC; JobHistory
server for HDFS out of safe mode; ResourceManager for ZooKeeper, DataNodes,
Timeline and JobHistory servers; NodeManager for ZooKeeper and ResourceManagers.

The agent runs the shipped scripts: hooks and the component's script are separate
processes with the same structured output file; a task that fails may be retried;
status commands re-use a file of their own. `parallel_execution` is off unless
configured (`ambari/agent/configure.coffee.md:35`).

### Hard behaviours

`PROJECT.json` lists the hazards at their lines. The main ones: stale content of
a shared output file; what is in memory and what is in the file when a command
fails; a daemon on its way down; a retry on a half-installed host; a check on
ZooKeeper that is old when it is used; several hosts running one setup; a wait for
a port that the waiting node itself has to open.

## Modules

| Module | Models | Run by |
|---|---|---|
| `AgentCommand` | processes of the `Script` class on one host | `MCAgentCommand` (4 configurations) |
| `InfraSolrSetup` | `setup_infra_solr('server')` on several hosts | itself |
| `ConfigSet` | abstract: what `upload_configuration_to_zk` promises | through `ConfigSetUpload` |
| `ConfigSetUpload` | `upload_configuration_to_zk`, resource by resource; implements `ConfigSet` | `MCConfigSetUpload` (2 configurations) |
| `PackageInstall` | `install_packages` and the version of a package | `MCPackageInstall` |
| `ParallelScripts` | `configure()` under its lock and `generate_configs`, in several processes of a host; implements `Turns` | itself |
| `Turns` | abstract: what the lock around `configure()` promises | through `ParallelScripts` |
| `HdfsCommands` | the start and takeover commands of ZooKeeper, JournalNodes, NameNodes and ZKFC on all nodes | `MCHdfsCommands` (3 configurations) |
| `AgentCommandProofs`, `InfraSolrSetupProofs`, `PackageInstallProofs`, `ConfigSetUploadProofs`, `ParallelScriptsProofs`, `HdfsCommandsProofs` | theorems of the six modules | the prover |

### AgentCommand

One process at a time runs; `pc` is the call `execute` makes next, so that a
failure or a kill can come between any two. `files` holds the two structured
output files, `mem` the class attribute `Script.structuredOut`. A key of the
output is modelled by the number of the process that produced it (0: absent),
which is what staleness is about; the version has its value as well. `writer` and
`by` say which process and which command wrote a file last; they do not exist in
the code and no guard reads them.

* `Put` is `put_structured_out`: memory is updated, then `open` fails (file
  untouched), or truncates and the dump fails (`Blank`, `Corrupt`), or all is well.
  An I/O error is remembered as `errMsg` (`err`).
* `Load` drops the version and the security issues from memory. On a file that is
  not JSON the handler of the exception uses a logger that `execute` initialises
  only later (line 326): the process goes on or ends there.
* `Reset` is what a status command does to its file; `ReadConfig` may exit, outside
  of the `try`, so without the report of the `finally` clause.
* `RestartInfo` to `PostUpgrade` are the statements of `restart()`, for daemons and
  clients, upgrades or not; `SaveVersion` and `SaveRepoId` are the two writes of
  `save_component_version_to_structured_out`, reached from the end of `restart()`
  (`rSave`) and from the `finally` clause.
* `daemon` has an instance that runs and one that is on its way down. `StopDaemon`
  may leave the latter; the methods that start or stop it may fail before or after their effect; `DaemonExit` and `DaemonCrash` are the daemon's own.
* A hook may put keys of its own in the output (`Hook`), which writes whatever else
  is in memory with them.
* External: what subclasses do in their methods (any may fail), the agent
  (`Launch`, `Kill`), stack-select. An upgrade's `pre_upgrade_restart` is assumed
  to select installed versions only, as stack-select does.

### InfraSolrSetup

Hosts interleave command by command on `znode`, `urlScheme`, `securityJson` and
`acl`. Each command may fail before or after its effect. `Init` includes what a
setup of an earlier, secured or unsecured, cluster left behind: an unsecured one clears
`security.json` and does not lift the ACLs, so that a znode may be closed and have none.
`AclAfterPlugin` is therefore about who closes it, not about a closed znode.

### ConfigSet and ConfigSetUpload

A configuration set is two facts: whose files it has and whose `solrconfig.xml`.
`ConfigSet` has one atomic `Upload`; `ConfigSetUpload` has the check, the download
to a temporary directory, the write of `solrconfig.xml`, the two guarded uploads and
the deletion. `Parallel` says whether other clients and an administrator may change the set
while a client uploads, `CheckMayFail` whether `--check-config` may fail on a set that exists.

### PackageInstall

A version is a value; membership in `Wild` and `Built` says whether it has a `*` or
a build number. `formatted` records which version each package was given and from
which of the sources. A package without a version in its name may
bring any version the repositories have (`Brought`), and installing a package may
make stack-select answer differently (`selected`) or replace stack-select itself
(`selectorVersion`). `KeyError` is a malformed entry or a missing key.

### ParallelScripts and Turns

The agent runs several commands at a time only with `parallel_execution`; the lock is
enabled by the same option. `pc` is the next statement of a process, `level` the calls
of `configure()` it is in (a `configure()` may call the one of its super class, which
the metaclass has wrapped as well), `owner` the process that has the POSIX lock of
`link_configs_lock_file`. Such a lock belongs to the process: a second call takes it
again at once (`LockIsFree`), and its end drops it for the call around it. A `lockf` that fails is
skipped. `exposed` records both cases, in which a process configures without the lock
it asked for; `Protected` says that it has it. `Turns` has the set `inside` of the processes that
configure, which `Promise` maps to the protected ones: the code promises no more,
and neither does the property.

`generate_configs` is taken statement by statement: `Mkdir`, `Name` (before the `try`),
`Write` file by file, `Open` (which truncates), `Add` member by member, `Close` and
`Delete` (the two `finally` clauses). An exception is remembered in `raised` and each
step may fail. `archive` is one file for all processes; its content is `torn` when one
writes what another has opened, or opens what another writes. Members are names: the
text of a file is not looked at.

### HdfsCommands

masson runs a command on every node: the handlers of the services in the order of
their dependencies, each blocking. `step[n]` is the next handler of node `n`;
`daemon[kind][n]` is down, a service (it runs under the system's control), starting or up
(Ambari's, starting until it listens); `active` is the NameNode that serves.
`inTurn` says whether the nodes are taken one after the other, until one fails, or
at the same time. `zkRan` and `desiredRan` remember what listened before the command; no guard
reads them.

`Init` finds on every node any mix of daemons that are down, the system's or Ambari's (`Found`
narrows it for a run): what a command that failed, in whatever state it left its node, hands to the
one that is run again.

* A wait (`connection.wait`, `wait.execute`) polls without end: its action is not
  enabled until the ports listen. `WaitIsOver` is the table of these waits, by handler; apart from
  them a handler never waits, so that a node can go on exactly when its wait is over. A listed `zookeeper/server/wait` or `hdfs_nn/wait` is
  given the options of its service, which have no `tcp` and no `ipc`: it waits for
  nothing, and is left out. Called from a handler it is given wait options and does wait.
* `ComponentStart` is the request to Ambari: it may return before the daemon listens, and may
  fail before or after its effect. `ServiceStop` stops the daemon if the system controls it and
  does nothing to one of Ambari; it may fail. The layout, the checks and the failover may fail too.
  A failure ends the command on its node only: the others go on, and may wait for a port that the
  failed node was to open, without end. The waits themselves do not fail.
* `Provided` says what a command waits for and does not start itself: a quorum when the servers are
  not to be started (`zkOption`), and for a takeover the JournalNodes and, as the finding on the
  ZKFC has it, a ZKFC that is Ambari's on every NameNode. `NobodyStuck` and `CommandEnds` are stated of
  commands that are provided for and fail on no node.
* `NnStop` and `ZkfcStop` are the handler of `hadoop/hdfs_nn/takeover`, `ZkfcListedWait`
  to `ZkfcLastWait` the list of the ZKFC.
* `Failover` is the command of `hadoop/zkfc/start`: skipped when the desired NameNode is
  not standby or does not answer (exit 2), failed when it cannot be done.
* External: masson's order of nodes (`Launch`), daemons that come up (`Up`), the
  election of ZKFC (`Elect`). Daemons do not crash; the DataNodes are up.

## Runs

Every property of a passing run has a variant of an action (a plausible mistake,
defined just before the action it replaces, and used by no specification) that
violates it.

| Run | Bounds | Shows |
|---|---|---|
| `AgentCommand.cfg` | 17 commands, 2 versions, 2 processes, 80 thousand states | the properties below |
| `AgentUpgradeFailure.cfg` | commands that write | violates `FailuresReportUpgrade` |
| `AgentCarriedVersion.cfg` | commands that write | violates `VersionNotCarried` |
| `AgentUnwaitedStop.cfg` | commands on the daemon | violates `EveryStopIsWaitedFor` |
| `InfraSolrSetup.cfg` | 2 hosts, 2 tries, 2 setups each, 30 thousand states | order of the steps, completeness, number of commands, end |
| `ConfigSetUpload.cfg` | 2 clients, 3 uploads each, in turn | implements `ConfigSet` |
| `ConfigSetLost.cfg` | 2 clients, in parallel, failing check | violates `EditedSetIsKept` |
| `PackageInstall.cfg` | 4 versions, 2 packages, 2 attempts, 42 thousand states | all packages wanted and no other, one version |
| `ParallelScripts.cfg` | 3 processes, 2 files, 2 levels of `configure()`, 450 thousand states | implements `Turns`, no circle of waits, whole archives, nothing left, end |
| `HdfsCommands.cfg` | 3 nodes, 2 with a NameNode; of a start each daemon down or up, the JournalNodes down; of a takeover each NameNode and ZKFC down, a service or Ambari's, ZooKeeper servers one of the latter two; 1.4 million states, about 2 minutes | quorum, desired NameNode, what is handed over, no circle of waits, end of a command |
| `HdfsTakeoverZkfc.cfg` | the same, all daemons services | violates `ZkfcComesBack` |
| `HdfsColdStart.cfg` | the same, all daemons down | violates `DesiredEnsured` |

Two processes are enough for `AgentCommand`: what a process finds in a file was
written by one predecessor, and every command of the list is tried as the first
and as the second. Two tries show a retry and the last try; two hosts show a setup
overtaken at every step by another, and two runs each a setup over a finished one.
Three uploads in turn are an upload, an edit, a failure and a repetition. The
versions of `PackageInstall` are one of each kind the code tells apart. Three processes
show one that has the lock, one that waits and one that is exposed, or two writers of an
archive and a reader of the result; two levels are a `configure()` and its super class's,
two files a partial archive. Three servers are the smallest ZooKeeper that survives a
restart (with fewer `QuorumKept` is false), and two NameNodes are what HDFS allows; the third node
has none. To a start it makes no difference who controls a daemon that
runs, and JournalNodes that listen only make it wait less; a takeover with a JournalNode that does not
listen only waits. `Found` leaves these out of `HdfsCommands.cfg`; the theorems do not.

Deadlock is not checked where the system does stop: processes that have all ended
(`ParallelScripts`), nodes that have ended a command or wait for a port that nobody opens
(`HdfsCommands`). That no one waits for ever is the subject of `NobodyStuck` in both modules, and
of `ProcessesEnd` and `CommandEnds`.

Properties of `AgentCommand`: `NoCarriedReport`, `VersionIsInstalled`,
`StatusIsFresh`, `UpgradeReported`, `UpgradeKept`, `StopIsWaitedFor`,
`RestartOnStopped`, `ReportIsCurrent`, `ProcessEnds`. Of `InfraSolrSetup`:
`AclAfterPlugin`, `SetupIsComplete`, `SetupIsBounded`, `SetupEnds`. Of `ConfigSetUpload`: `ImplementsPromise`,
`UploadIsThere`, `EditedSetIsKept`. Of `PackageInstall`: `AllInstalled`,
`OneStackVersion`, `NoWildVersion`, `UnmatchedVersionIsTruth`, `OnlyWanted`. Of
`ParallelScripts`: `OneConfigures`, `NobodyStuck`, `ProcessesEnd`, `ArchiveIsWhole`,
`NothingLeft`. Of `HdfsCommands`: `QuorumKept`, `DesiredActive`, `TakenOver`, `NobodyStuck`,
`CommandEnds`. Each is stated in words above its
definition.

### Disagreements between the code and what it says of itself

* **Upgrade info of a failed restart.** "need this before actually executing so that
  failures still report upgrade info" (`script.py:921`): the info is put in memory
  only, and a failure before the report of the version loses it.
* **Carried version.** "version is only set in a specific way and should not be
  carried" (`script.py:169`): it is dropped from memory only; a process that writes
  nothing leaves the old one in the file.
* **Waiting for a stop.** "Executed after completion of every stop method"
  (`script.py:430`): `restart()` does not, and starts the daemon over a stopping one
  where the status check is skipped.
* **Configuration sets.** "If the configuration set does not exist in zookeeper then
  upload it" (`solr_cloud_util.py:56`): also when the check fails, or another client
  or an administrator has created the set since.
* **The ZKFC of a takeover.** "Each of the machines which runs a NameNode also runs a
  ZKFC" (`hadoop/zkfc/index.coffee.md:5`): the takeover of a NameNode stops the ZKFC of its
  node, and the takeover of the ZKFC begins with a wait for the ports of all of them: it
  waits for ever for its own. Run again it finds the ZKFC down, and waits again; only where
  somebody has started the ZKFC in Ambari does it end (`Provided`).
* **The active NameNode of a cold start.** "Ensure a given NameNode is always active and force the
  failover otherwise" (`hadoop/zkfc/start.coffee.md:31`): while the desired NameNode comes up its
  state cannot be read, the failover is skipped (exit 2), and the one that came up first stays
  active, as the comment at lines 36-37 fears. `DesiredActive` holds of the starts before which the
  desired NameNode answered (`desiredRan`). The wait of the standby's ZKFC that lines 6-8 promise
  is made by no handler.

Three more are not runs. "If the package version is passed from the server, use that as an absolute
truth" (`script.py:516-517`): one without a build number is not used when the command has a repository
file (lines 533-547); the theorem `TruthOfUnmatched` says what remains. "The method installs all packages from
this list" (`script.py:789-790`): an entry without one of its keys ends the loop (line 822), and the
install ends well; `AllInstalled` is about the others. "ensures that Script.configure() is invoked with a fcntl-based process lock
if necessary" (`script.py:107-108`): not when `lockf` fails, nor after a nested call;
`OneConfigures` is what remains.

Noted as well: an install that failed reports the resolved version as
"installed" (`script.py:237-241`, from the `finally` clause); `create_collection`
promises to add shards and passes `--no-sharding`
(`solr_cloud_util.py:94-108`); `server/install.coffee.md:368` ships
`resources/solr_cloud_util.py` from a directory that does not exist (the agent's
installation names the right one); `server/index.coffee.md:94` names a `check` that
does not exist; a command without `output_file` leaves its temporary directory
(`script.py:1050-1052` come before the `try`, the exception that `NothingLeft` names);
`secure_znode` appends to its mutable default `sasl_users` (`solr_cloud_util.py:171`), and is
called by nothing in the repository.
A takeover of the desired NameNode brings it
back as standby, and the "WebHDFS Active" check (`hadoop/hdfs_nn/check.coffee.md:111-135`)
fails before any failover. A takeover of the nodes in parallel loses the quorum of ZooKeeper for a
time; nothing in the code says otherwise. The takeover of a JournalNode
(`hadoop/hdfs_jn/takeover.coffee.md`) is wired to no command.

### Fairness

`AgentCommand.FairSpec` assumes that a process runs on (weak fairness of `Step`,
the operating system's) and that a daemon told to stop goes down (`DaemonExit`):
without the latter `after_stop` polls until the agent kills it, as its loop has no
bound. `InfraSolrSetup` assumes that each host's process runs on: every command
has its own timeout and number of retries. `ParallelScripts` assumes that a process runs
on and gets the lock when it is free; it does not assume that a `lockf` ever fails, so that
nobody is let in by a failure. `HdfsCommands` assumes that a handler whose wait is over
goes on or fails, that a daemon that was started listens in the end, and that ZKFC elect a NameNode
when they can. No fairness is assumed of the agent or of masson: nothing is ever said to be
launched.

## Proofs

All theorems hold for every value of the constants under the named assumptions of
the modules (`Commands \subseteq CommandType`, `None \notin Versions` and so on);
those that assume more say so in their statement.

* `AgentCommandProofs`: `TypeCorrect` is inductive. `NothingCarried` needs to know
  that what is in memory is the process's own from `Load` on, and that a file
  holds what its writer had in memory (`run` bounds the numbers). `ReportedVersionInstalled` follows
  from the type invariant's `link \in installed` and from `installed` never
  shrinking. `StopWaits` and `RestartStartsOnStopped` use that only the commands
  that start a daemon make `daemon.running` true, one process at a time (`Position`).
  `UpgradeIsReported` and `UpgradeIsKept` share `UpgradeInv`: an upgrade in the file is in the
  memory of every process that has loaded it, and a restart has it in memory before the
  first step that reports a version. `StatusFileIsFresh` is inductive with `Position` and with
  the fact that a running process was not killed. `ReportedVersionIsCurrent` needs `CurrentInv`:
  a version is in memory, or in a file that the process has written, only at the labels that
  follow its report, and no step from there changes the packages or the symlink; what an earlier
  process wrote has a smaller number. `CheckedRestartsWait` says where the
  disagreement on stops begins: a cluster without upgrades and without services whose check is
  skipped has no restart over a stopping daemon.
* `InfraSolrSetupProofs`: the inductive invariant `SetupInv` says for every host what
  the steps it is past have established (`Past`), and that these facts are stable
  under the steps of all hosts. `CompleteWhenDone` follows from it at once, and `ClosedAfterPlugin`, an
  action property, because only a host at its last step closes the znode. `BoundedSetup` is another
  action property: each move of a setup lowers the measure `Left`, and no other host changes it
  (`OwnMove`, `OthersStay`); that a host at the creation of the znode has a try left (`TypeInv`) is
  what makes the last try lower it too.
* `PackageInstallProofs`: `CacheInv` ties the cached version to those given so far;
  `LoopInv` says that all wanted entries before `next` are installed, and `OnlyWanted` is inductive
  the other way round. `PassedVersionUsed` covers every version of the server that is not matched
  with the repositories; `TruthOfUnmatched` concludes that the docstring's absolute truth holds of
  command sets without the combination that breaks it.
* `ConfigSetUploadProofs`: `UploadThere` assumes nothing: by `Known` a client that has seen or
  uploaded a set finds it there whatever others do, as no one removes a set, and a check that fails
  only leads to an upload more. For the others, without `Parallel` and `CheckMayFail`, a client in
  the middle of an upload is alone, and what it saw of ZooKeeper when it checked is still so
  (`Inv`); hence its upload is that of `ConfigSet` (`KeepsPromise`: initial states map to
  initial states, each step to a step or a stutter) and an edited one is never replaced
  (`EditKept`). Either assumption alone is not enough: TLC finds `EditedSetIsKept` violated with
  `Parallel` only and with `CheckMayFail` only.
* `ParallelScriptsProofs`: `TypeCorrect` goes with `PcInv`, which says of every process what
  is true at each of its statements; `NothingLeft` (`DirectoryDeleted`) follows from it. `ArchiveWhole`
  adds `ArchiveInv` on the archive of a process between `Open` and `Close`. For
  `ConfigureTakesTurns`, `OwnInv` says that with `parallel_execution` a protected process owns the lock,
  and `AloneInv` that without it one process runs at most; a process that becomes
  protected finds no other one, so that every step is a step of `Turns` or none.
  `NobodyWaitsForEver`: the owner is in a call of `configure()` (`TypeCorrect`), hence runs (`PcInv`),
  and the lock is free to its owner.
* `HdfsCommandsProofs`, for any number of nodes and NameNodes and any `Found`: `TypeCorrect` (the
  active NameNode runs). `TakeoverKeepsQuorum` assumes three servers or more: by `ZkInv` at most one
  node is between its stop and its check, or failed there, and the servers of all others listen.
  `DesiredBecomesActive`: by `StartInv` a NameNode that ran keeps running during a start, and once a
  node asks for the failover every ZKFC listens, so that nothing takes the activity from the desired
  NameNode afterwards; it says nothing of the cold start. `TakeoverHandsOver`: `TakenInv` says at each
  step of a takeover which of the node's daemons are no longer the system's, and which are started
  and listen. `NobodyWaitsForEver` is the absence of deadlock: by `PastInv` a node that is past the
  start of a daemon has it starting or up, so that what the node at the earliest handler of a start
  waits for has been started by all (`StartGoesOn`); for a takeover the same follows from `TakenInv`
  and `Provided`, and where the layout waits for an active NameNode, one can be elected
  (`TakeoverGoesOn`).

Model-checked only: the liveness properties `ProcessEnds`, `SetupEnds`, `ProcessesEnd` and
`CommandEnds`, as the prover has no rule for fairness (`ENABLED`). What they rest on is proved for
every size: nobody is stuck (`NobodyStuck` of `ParallelScripts` and `HdfsCommands`)
and a setup runs a bounded number of commands (`SetupIsBounded`); what remains with TLC is that
fairness takes the steps there are. Of the disagreements, those on the upgrade's information and on
the carried version have no theorem of their own: `UpgradeIsReported` and `NothingCarried` prove
what remains true of them.

## Not modelled

* Windows branches of `script.py`, and its getters and comparisons of versions; the parameters
  of Infra Solr and Log Search and the templates: computations without state.
* The rest of `solr_cloud_util.py`: each function composes one command whose effect is in
  `solrCloudCli.sh` or Solr, and is called by scripts that are not in the repository. What
  a model would say of collections, ACLs or roles would be said of those programs.
* Registration and post-installation: one node sends one request after the other to Ambari,
  through ryba-ambari-actions, which says what is repeated, waited for or failed and is not in
  the repository. The hang of `server/register.coffee.md:198` is a matter of two options.
* Of the HDFS and ZooKeeper handlers: configure and install (options and files), stop, status, and
  `check` where it only reads; the take-over handlers of JournalNode and DataNode are
  named by no command. Daemons that crash during a command.
* The other services: their handlers install files and start one daemon each; the waits of
  their starts are listed under Interactions. Between services they have no cycle; with the order
  of the services on a node there is one in YARN: a NodeManager that shares a node with the
  ResourceManager or the Timeline server waits for what its node starts after it (a hazard, listed;
  where the services are placed is the deployment's choice).
* masson, nikita, Ambari and ryba-ambari-actions are not in the repository: the modules take from
  them only what the code relies on.

## Further work

The starts of YARN, HBase and Hive could join `HdfsCommands` as further kinds of daemons; their
waits follow the same scheme. A takeover with daemons that crash would show which checks
notice.
