----------------------------- MODULE HdfsCommands -----------------------------
(***************************************************************************)
(* The start and takeover commands on the nodes of an HA HDFS: the lists   *)
(* of handlers of zookeeper/server, hadoop/hdfs_jn, hadoop/hdfs_nn and     *)
(* hadoop/zkfc, run by masson on every node in the order of their          *)
(* dependencies.  Nodes meet only through the ports they wait for, the     *)
(* daemons and the NameNode that is active.                                *)
(*                                                                         *)
(* A wait polls without end: its step is not enabled until it is over.     *)
(* zookeeper/server/wait and hdfs_nn/wait, when listed in a command, are   *)
(* given the options of their service, which have no `tcp' and no `ipc':   *)
(* they wait for no port (and hdfs_nn/wait for the end of the safe mode,   *)
(* which the layout before it waited for).  Called from a handler they are *)
(* given the wait options and do wait; so does zkfc/wait, listed or not.   *)
(*                                                                         *)
(* Any other handler may fail, a request to Ambari before or after it has  *)
(* an effect: that ends the command on the node, and on no other node.     *)
(***************************************************************************)
EXTENDS Naturals, FiniteSets

CONSTANTS
    Nodes,       \* each with a ZooKeeper server and a JournalNode
    NameNodes,   \* the nodes with a NameNode and its ZKFC
    Desired,     \* active_nn_host
    None,        \* no NameNode is active
    Commands,    \* the commands given: "start", "takeover"
    Found        \* for each, and each kind: the statuses it finds daemons in

Kinds == {"zk", "jn", "nn", "zkfc"}

\* A "service" is a daemon that the system controls, one that is "up" is
\* Ambari's: what stops the one does not find the other.
Statuses == {"down", "service", "starting", "up"}
Listening == {"service", "up"}

ASSUME NodesAssumption ==
    IsFiniteSet(Nodes) /\ NameNodes \subseteq Nodes /\ Desired \in NameNodes
ASSUME NoneAssumption == None \notin NameNodes
ASSUME CommandsAssumption == Commands \subseteq {"start", "takeover"}
ASSUME FoundAssumption ==
    \A c \in Commands, kind \in Kinds : Found[c][kind] \subseteq Statuses \ {"starting"}

VARIABLES
    command,     \* "start" or "takeover"
    inTurn,      \* the nodes run it one after the other, until one fails
    zkOption,    \* options.takeover of the ZooKeeper servers
    zkRan,       \* history: did all ZooKeeper servers run before
    desiredRan,  \* history: did the desired NameNode run before
    daemon,      \* status of the daemon of a kind on a node
    active,      \* the NameNode that is active
    step         \* what each node does next

options == <<command, inTurn, zkOption, zkRan, desiredRan>>
vars == <<options, daemon, active, step>>

Steps == {"idle", "zkTakeover", "zkStart", "zkCheck", "jnStart", "nnStop",
          "zkfcStop", "nnStart", "layout", "nnCheck", "zkfcListed",
          "zkfcTakeover", "zkfcStart", "zkfcWait", "failover", "zkfcLast",
          "done", "failed"}
Ended == {"done", "failed"}

Has(kind, n) == kind \in {"zk", "jn"} \/ n \in NameNodes

Listens(kind, n) == daemon[kind][n] \in Listening

AllUp(kind) == \A n \in Nodes : Has(kind, n) => Listens(kind, n)

\* connection.wait with quorum.
Quorum == 2 * Cardinality({n \in Nodes : Listens("zk", n)}) > Cardinality(Nodes)

\* A command finds every daemon stopped, the system's or Ambari's, whatever
\* earlier commands and failures left: a takeover that is run again may
\* find any part of itself done.
Init ==
    /\ command \in Commands
    /\ inTurn \in BOOLEAN /\ zkOption \in BOOLEAN
    /\ \E zk \in [Nodes -> Found[command]["zk"]], jn \in [Nodes -> Found[command]["jn"]],
          nn \in [NameNodes -> Found[command]["nn"]],
          zkfc \in [NameNodes -> Found[command]["zkfc"]] :
           daemon = [kind \in Kinds |-> [n \in Nodes |->
               CASE kind = "zk" -> zk[n]
                 [] kind = "jn" -> jn[n]
                 [] kind = "nn" /\ n \in NameNodes -> nn[n]
                 [] kind = "zkfc" /\ n \in NameNodes -> zkfc[n]
                 [] OTHER -> "down"]]
    /\ active \in {n \in NameNodes : Listens("nn", n)} \union {None}
    /\ zkRan = AllUp("zk")
    /\ desiredRan = Listens("nn", Desired)
    /\ step = [n \in Nodes |-> "idle"]

Goto(n, label) == step' = [step EXCEPT ![n] = label]

-----------------------------------------------------------------------------
\* hdfs_nn/wait, and an active NameNode that serves "/".
LayoutIsServed == AllUp("nn") /\ active # None

\* Variant: "The ZKFC daemons on the standby NameNodes wait for the one on
\* the active NameNode to start first", as a wait for the other ones.
WaitForOthers(n) ==
    CASE step[n] \in {"zkCheck", "jnStart"} -> Quorum
      [] step[n] = "nnStart"  -> Quorum /\ AllUp("jn")
      [] step[n] = "layout"   -> LayoutIsServed
      [] step[n] = "nnCheck"  -> AllUp("nn")
      [] step[n] = "zkfcStart" ->
             \A m \in NameNodes \ {n} : Listens("zkfc", m)
      [] step[n] \in {"zkfcListed", "zkfcWait", "zkfcLast"} -> AllUp("zkfc")
      [] OTHER -> TRUE

(* What the next handler of a node waits for.                              *)
WaitIsOver(n) ==
    CASE step[n] \in {"zkCheck", "jnStart"} -> Quorum
      [] step[n] = "nnStart"  -> Quorum /\ AllUp("jn")
      [] step[n] = "layout"   -> LayoutIsServed
      [] step[n] = "nnCheck"  -> AllUp("nn")
      [] step[n] \in {"zkfcListed", "zkfcWait", "zkfcLast"} -> AllUp("zkfc")
      [] OTHER -> TRUE

(* masson runs a command on a node.                                        *)
Launch(n) ==
    /\ step[n] = "idle"
    /\ inTurn => \A m \in Nodes : step[m] \in {"idle", "done"}
    /\ Goto(n, IF command = "start" THEN "zkStart" ELSE "zkTakeover")
    /\ UNCHANGED <<options, daemon, active>>

\* Variant: the daemon is stopped whoever controls it.
ServiceStopAny(kind, n, next) ==
    \/ /\ daemon' = [daemon EXCEPT ![kind][n] = "down"]
       /\ active' = IF kind = "nn" /\ active = n THEN None ELSE active
       /\ Goto(n, next)
    \/ Goto(n, "failed") /\ UNCHANGED <<daemon, active>>

\* Variant: a stop that fails is not noticed.
ServiceStopUnnoticed(kind, n, next) ==
    /\ \/ daemon[kind][n] = "service" /\ daemon' = [daemon EXCEPT ![kind][n] = "down"]
       \/ UNCHANGED daemon
    /\ active' = IF kind = "nn" /\ active = n /\ daemon' # daemon THEN None ELSE active
    /\ Goto(n, next)

(* service.stop, of the daemon that the system controls: where Ambari has  *)
(* it there is none to stop.                                               *)
ServiceStop(kind, n, next) ==
    \/ /\ daemon[kind][n] = "service"
       /\ daemon' = [daemon EXCEPT ![kind][n] = "down"]
       /\ active' = IF kind = "nn" /\ active = n THEN None ELSE active
       /\ Goto(n, next)
    \/ daemon[kind][n] # "service" /\ Goto(n, next) /\ UNCHANGED <<daemon, active>>
    \/ Goto(n, "failed") /\ UNCHANGED <<daemon, active>>

(* ambari.hosts.component_start: the request may return before the daemon  *)
(* listens, and may fail.                                                  *)
ComponentStart(kind, n, next) ==
    \/ daemon[kind][n] # "down" /\ Goto(n, next) /\ UNCHANGED daemon
    \/ /\ daemon[kind][n] = "down"
       /\ \E status \in {"starting", "up"} :
              daemon' = [daemon EXCEPT ![kind][n] = status]
       /\ Goto(n, next)
    \/ /\ Goto(n, "failed")
       /\ \/ UNCHANGED daemon
          \/ /\ daemon[kind][n] = "down"
             /\ daemon' = [daemon EXCEPT ![kind][n] = "starting"]

-----------------------------------------------------------------------------
(* ZooKeeper and JournalNode.                                              *)
ZkTakeover(n) ==
    /\ step[n] = "zkTakeover"
    /\ ServiceStop("zk", n, "zkStart")
    /\ UNCHANGED options

AfterZkStart == IF command = "start" THEN "jnStart" ELSE "zkCheck"

ZkStart(n) ==
    /\ step[n] = "zkStart"
    /\ IF zkOption THEN ComponentStart("zk", n, AfterZkStart)
       ELSE Goto(n, AfterZkStart) /\ UNCHANGED daemon
    /\ UNCHANGED <<options, active>>

AfterZk(n) == IF n \in NameNodes THEN "nnStop" ELSE "done"

\* Variant: "Registration" alone, which any server that answers satisfies.
ZkCheckAnyServer(n) ==
    /\ step[n] = "zkCheck"
    /\ WaitIsOver(n)
    /\ Goto(n, AfterZk(n))
    /\ UNCHANGED <<options, daemon, active>>

(* Wait for the quorum, then "Healthy" asks the server of the node.        *)
ZkCheck(n) ==
    /\ step[n] = "zkCheck"
    /\ WaitIsOver(n)
    /\ \/ Listens("zk", n) /\ Goto(n, AfterZk(n))
       \/ Goto(n, "failed")
    /\ UNCHANGED <<options, daemon, active>>

JnStart(n) ==
    /\ step[n] = "jnStart"
    /\ WaitIsOver(n)
    /\ ComponentStart("jn", n, IF n \in NameNodes THEN "nnStart" ELSE "done")
    /\ UNCHANGED <<options, active>>

-----------------------------------------------------------------------------
(* NameNode.  Its takeover stops the ZKFC of the node too.                 *)
NnStop(n) ==
    /\ step[n] = "nnStop"
    /\ ServiceStop("nn", n, "zkfcStop")
    /\ UNCHANGED options

ZkfcStop(n) ==
    /\ step[n] = "zkfcStop"
    /\ ServiceStop("zkfc", n, "nnStart")
    /\ UNCHANGED options

NnStart(n) ==
    /\ step[n] = "nnStart"
    /\ WaitIsOver(n)
    /\ ComponentStart("nn", n, IF command = "start" THEN "zkfcStart" ELSE "layout")
    /\ UNCHANGED <<options, active>>

(* The layout waits for the DataNodes, for every NameNode and for a "/"    *)
(* that an active NameNode serves.                                         *)
Layout(n) ==
    /\ step[n] = "layout"
    /\ WaitIsOver(n)
    /\ Goto(n, "nnCheck") \/ Goto(n, "failed")
    /\ UNCHANGED <<options, daemon, active>>

\* The checks read and write in HDFS; "WebHDFS Active" on the desired node
\* and "WebHDFS Passive" on the other one throw unless the NameNode of the
\* node has that role.
NnCheck(n) ==
    /\ step[n] = "nnCheck"
    /\ WaitIsOver(n)
    /\ \/ /\ active # None
          /\ (active = n) = (n = Desired)
          /\ Goto(n, "zkfcListed")
       \/ Goto(n, "failed")
    /\ UNCHANGED <<options, daemon, active>>

-----------------------------------------------------------------------------
(* ZKFC.  The list of the takeover begins with a wait for every ZKFC.      *)
ZkfcListedWait(n) ==
    /\ step[n] = "zkfcListed"
    /\ WaitIsOver(n)
    /\ Goto(n, "zkfcTakeover")
    /\ UNCHANGED <<options, daemon, active>>

ZkfcTakeover(n) ==
    /\ step[n] = "zkfcTakeover"
    /\ ServiceStop("zkfc", n, "zkfcStart")
    /\ UNCHANGED options

ZkfcStart(n) ==
    /\ step[n] = "zkfcStart"
    /\ WaitIsOver(n)
    /\ ComponentStart("zkfc", n, "zkfcWait")
    /\ UNCHANGED <<options, active>>

ZkfcWait(n) ==
    /\ step[n] = "zkfcWait"
    /\ WaitIsOver(n)
    /\ Goto(n, "failover")
    /\ UNCHANGED <<options, daemon, active>>

AfterFailover == IF command = "start" THEN "done" ELSE "zkfcLast"

\* getServiceState of the desired NameNode answers "standby".
DesiredIsStandby == Listens("nn", Desired) /\ active # Desired

\* Variant: the result of the command is not looked at.
FailoverUnnoticed(n) ==
    /\ step[n] = "failover"
    /\ \/ ~DesiredIsStandby /\ UNCHANGED active
       \/ DesiredIsStandby /\ active' \in {active, Desired}
    /\ Goto(n, AfterFailover)
    /\ UNCHANGED <<options, daemon>>

\* Variant: forced, without a look at the state of the NameNode.
FailoverForced(n) ==
    /\ step[n] = "failover"
    /\ active' = Desired
    /\ Goto(n, AfterFailover)
    /\ UNCHANGED <<options, daemon>>

(* Skipped (exit 2) unless the desired NameNode answers that it is standby.*)
(* haadmin -failover needs an active NameNode and the ZKFC of the desired  *)
(* one, and may fail even then.                                            *)
Failover(n) ==
    /\ step[n] = "failover"
    /\ \/ ~DesiredIsStandby /\ UNCHANGED active /\ Goto(n, AfterFailover)
       \/ /\ DesiredIsStandby /\ active # None /\ Listens("zkfc", Desired)
          /\ active' = Desired
          /\ Goto(n, AfterFailover)
       \/ UNCHANGED active /\ Goto(n, "failed")
    /\ UNCHANGED <<options, daemon>>

(* The wait and the check at the end of the list.                          *)
ZkfcLastWait(n) ==
    /\ step[n] = "zkfcLast"
    /\ WaitIsOver(n)
    /\ Goto(n, "done") \/ Goto(n, "failed")
    /\ UNCHANGED <<options, daemon, active>>

-----------------------------------------------------------------------------
(* External: a daemon listens; a ZKFC whose NameNode answers wins the      *)
(* election, when there is no active NameNode or its ZKFC has left.        *)
Up(kind, n) ==
    /\ daemon[kind][n] = "starting"
    /\ daemon' = [daemon EXCEPT ![kind][n] = "up"]
    /\ UNCHANGED <<options, active, step>>

MayElect(n) ==
    /\ Quorum /\ Listens("nn", n) /\ Listens("zkfc", n)
    /\ \/ active = None
       \/ active \in NameNodes \ {n} /\ ~Listens("zkfc", active)

Elect(n) ==
    /\ MayElect(n)
    /\ active' = n
    /\ UNCHANGED <<options, daemon, step>>

Step(n) ==
    \/ ZkTakeover(n) \/ ZkStart(n) \/ ZkCheck(n) \/ JnStart(n)
    \/ NnStop(n) \/ ZkfcStop(n) \/ NnStart(n) \/ Layout(n) \/ NnCheck(n)
    \/ ZkfcListedWait(n) \/ ZkfcTakeover(n) \/ ZkfcStart(n) \/ ZkfcWait(n)
    \/ Failover(n) \/ ZkfcLastWait(n)

Next ==
    \/ \E n \in Nodes : Launch(n) \/ Step(n)
    \/ \E kind \in Kinds, n \in Nodes : Up(kind, n)
    \/ \E n \in NameNodes : Elect(n)

Fairness ==
    /\ \A n \in Nodes : WF_vars(Step(n))
    /\ \A kind \in Kinds, n \in Nodes : WF_vars(Up(kind, n))
    /\ WF_vars(\E n \in NameNodes : Elect(n))

Spec == Init /\ [][Next]_vars /\ Fairness

-----------------------------------------------------------------------------
(* Types; the active NameNode runs.                                        *)
TypeOK ==
    /\ command \in {"start", "takeover"}
    /\ inTurn \in BOOLEAN /\ zkOption \in BOOLEAN
    /\ zkRan \in BOOLEAN /\ desiredRan \in BOOLEAN
    /\ daemon \in [Kinds -> [Nodes -> Statuses]]
    /\ active \in NameNodes \union {None}
    /\ active # None => Listens("nn", active)
    /\ step \in [Nodes -> Steps]

(* When the nodes are taken over one after the other, a ZooKeeper of which *)
(* all servers ran keeps its quorum, although no handler waits for a server*)
(* that was restarted and a request to start it may fail                   *)
(* (zookeeper/server/index.coffee.md:28-35, check.coffee.md:8-14).         *)
QuorumKept == command = "takeover" /\ inTurn /\ zkRan => Quorum

(* "Ensure a given NameNode is always active and force the failover        *)
(* otherwise" (hadoop/zkfc/start.coffee.md:31), where it already answered  *)
(* before the start: once a node's start has ended well, whichever ZKFC won*)
(* the election and whichever node asked for the failover, the desired     *)
(* NameNode is active.                                                     *)
DesiredActive ==
    command = "start" /\ desiredRan /\ (\E n \in NameNodes : step[n] = "done")
        => active = Desired

(* The same of any start that ended well on all nodes.                     *)
DesiredEnsured ==
    command = "start" /\ (\A n \in Nodes : step[n] = "done")
        ~> active = Desired

\* What a command waits for and does not start itself: a ZooKeeper that is
\* not to be started; for a takeover, JournalNodes that listen and ZKFC
\* that Ambari has already, as it does not start those it stops.
Provided ==
    /\ zkOption \/ Quorum
    /\ command = "takeover" =>
          /\ zkOption \/ \A n \in Nodes : daemon["zk"][n] # "service"
          /\ AllUp("jn")
          /\ \A n \in NameNodes : daemon["zkfc"][n] = "up"

(* A command given to all nodes ends on all of them, unless it fails on one*)
(* and the failure is there to be seen: whatever ran before, no wait is for*)
(* a port that a waiting node has to open (hadoop/hdfs_nn/start.coffee.md: *)
(* 15-16, hadoop/zkfc/start.coffee.md:17-27).                              *)
CommandEnds ==
    Provided /\ (\A n \in Nodes : step[n] # "idle")
        ~> \/ \A n \in Nodes : step[n] = "done"
           \/ \E n \in Nodes : step[n] = "failed"

(* As long as one of these nodes has not ended, and none has failed, some  *)
(* handler has nothing left to wait for, or what it waits for is under way:*)
(* a daemon that was started, an election.  No nodes wait for each other.  *)
NobodyStuck ==
    Provided /\ (\A n \in Nodes : step[n] # "idle")
        => \/ \A n \in Nodes : step[n] = "done"
           \/ \E n \in Nodes : step[n] = "failed"
           \/ \E n \in Nodes : step[n] \notin Ended /\ WaitIsOver(n)
           \/ \E kind \in Kinds, n \in Nodes : daemon[kind][n] = "starting"
           \/ \E n \in NameNodes : MayElect(n)

(* A takeover that ended well has left no ZooKeeper server, NameNode or    *)
(* ZKFC of the node to the system, and those that Ambari has listen        *)
(* (zookeeper/server/index.coffee.md:28-35, hadoop/hdfs_nn/index.coffee.md:*)
(* 35-43, hadoop/zkfc/index.coffee.md:35-42).                              *)
TakenOver ==
    command = "takeover" =>
        \A kind \in Kinds \ {"jn"}, n \in Nodes :
            Has(kind, n) /\ step[n] = "done" => daemon[kind][n] = "up"

(* "Each of the machines which runs a NameNode also runs a ZKFC"           *)
(* (hadoop/zkfc/index.coffee.md:5): the ZKFC of a node that comes to its   *)
(* takeover, stopped by that of the NameNode or not, is running then or in *)
(* the end, unless a handler fails.                                        *)
ZkfcComesBack ==
    \A n \in NameNodes :
        step[n] = "zkfcListed"
            ~> Listens("zkfc", n) \/ \E m \in Nodes : step[m] = "failed"
=============================================================================
