-------------------------- MODULE HdfsCommandsProofs --------------------------
(***************************************************************************)
(* What holds of the commands of HdfsCommands on any number of nodes and   *)
(* whatever they find.  The quorum of ZooKeeper: of nodes in turn, only the*)
(* one at work may have its server down (ZkInv).  The desired NameNode:    *)
(* once every ZKFC is up the active NameNode does not change but for a     *)
(* failover (StartInv).  What a takeover hands over: which of its daemons a*)
(* node has given to Ambari at each of its steps (TakenInv).  That nobody  *)
(* waits for ever: what a node has to start for others is no more down once*)
(* it is past it (PastInv, TakenInv), and what others wait for comes       *)
(* earlier than their own wait.                                            *)
(***************************************************************************)
EXTENDS HdfsCommands, FiniteSetTheorems, TLAPS

LEMMA InitTypeOK == Init => TypeOK
<1> SUFFICES ASSUME Init PROVE TypeOK
  OBVIOUS
<1>1. PICK zk \in [Nodes -> Found[command]["zk"]], jn \in [Nodes -> Found[command]["jn"]],
           nn \in [NameNodes -> Found[command]["nn"]],
           zkfc \in [NameNodes -> Found[command]["zkfc"]] :
        daemon = [kind \in Kinds |-> [n \in Nodes |->
               CASE kind = "zk" -> zk[n]
                 [] kind = "jn" -> jn[n]
                 [] kind = "nn" /\ n \in NameNodes -> nn[n]
                 [] kind = "zkfc" /\ n \in NameNodes -> zkfc[n]
                 [] OTHER -> "down"]]
  BY DEF Init
<1>2. ASSUME NEW kind \in Kinds, NEW n \in Nodes PROVE daemon[kind][n] \in Statuses
  <2>1. \A k \in Kinds : Found[command][k] \subseteq Statuses
    BY FoundAssumption DEF Init
  <2> QED BY <1>1, <2>1 DEF Kinds, Statuses
<1>3. daemon \in [Kinds -> [Nodes -> Statuses]]
  BY <1>1, <1>2
<1>4. active \in NameNodes \union {None} /\ (active # None => Listens("nn", active))
  BY DEF Init
<1>5. zkRan \in BOOLEAN /\ desiredRan \in BOOLEAN
  BY DEF Init, AllUp, Listens
<1> QED BY <1>3, <1>4, <1>5, CommandsAssumption DEF Init, TypeOK, Steps

\* The daemons after a service was stopped.
LEMMA Stopped ==
  ASSUME TypeOK, NEW kind \in Kinds, NEW n \in Nodes, NEW next,
         ServiceStop(kind, n, next)
  PROVE  /\ daemon' \in [Kinds -> [Nodes -> Statuses]]
         /\ active' \in NameNodes \union {None}
         /\ active' # None => daemon'["nn"][active'] \in Listening
         /\ \A k \in Kinds, m \in Nodes :
               daemon'[k][m] = daemon[k][m] \/ (k = kind /\ m = n)
         /\ \/ Goto(n, next) /\ daemon'[kind][n] # "service"
            \/ Goto(n, "failed") /\ daemon' = daemon
         /\ daemon[kind][n] # "service" => daemon' = daemon
<1> USE NodesAssumption DEF TypeOK, Kinds, Statuses, Listening, Listens
<1>1. CASE daemon[kind][n] = "service" /\ daemon' = [daemon EXCEPT ![kind][n] = "down"]
           /\ active' = (IF kind = "nn" /\ active = n THEN None ELSE active)
           /\ Goto(n, next)
  BY <1>1
<1>2. CASE daemon' = daemon /\ active' = active
           /\ (Goto(n, "failed") \/ (Goto(n, next) /\ daemon[kind][n] # "service"))
  BY <1>2
<1> QED BY <1>1, <1>2 DEF ServiceStop

\* The daemons after a component was started: none goes down.
LEMMA Started ==
  ASSUME TypeOK, NEW kind \in Kinds, NEW n \in Nodes, NEW next,
         ComponentStart(kind, n, next)
  PROVE  /\ daemon' \in [Kinds -> [Nodes -> Statuses]]
         /\ \A k \in Kinds, m \in Nodes :
               daemon'[k][m] = daemon[k][m] \/ (k = kind /\ m = n)
         /\ \A k \in Kinds, m \in Nodes :
               daemon[k][m] # "down" => daemon'[k][m] = daemon[k][m]
         /\ \A k \in Kinds, m \in Nodes :
               daemon[k][m] # "service" => daemon'[k][m] # "service"
         /\ \/ Goto(n, next) /\ daemon'[kind][n] # "down"
            \/ Goto(n, "failed")
<1> USE DEF TypeOK, Statuses
<1>1. CASE UNCHANGED daemon
  BY <1>1 DEF ComponentStart
<1>2. CASE daemon[kind][n] = "down" /\ \E status \in {"starting", "up"} :
               daemon' = [daemon EXCEPT ![kind][n] = status]
  BY <1>2 DEF ComponentStart
<1> QED BY <1>1, <1>2 DEF ComponentStart

\* A step of a node stops a daemon, starts one, or does neither.
Stops(n) == ZkTakeover(n) \/ NnStop(n) \/ ZkfcStop(n) \/ ZkfcTakeover(n)
Starts(n) == ZkStart(n) \/ JnStart(n) \/ NnStart(n) \/ ZkfcStart(n)
Waits(n) ==
    \/ Launch(n) \/ ZkCheck(n) \/ Layout(n) \/ NnCheck(n)
    \/ ZkfcListedWait(n) \/ ZkfcWait(n) \/ ZkfcLastWait(n)

LEMMA Split ==
  ASSUME [Next]_vars
  PROVE  \/ \E n \in Nodes : Stops(n) \/ Starts(n) \/ Waits(n) \/ Failover(n)
         \/ \E kind \in Kinds, n \in Nodes : Up(kind, n)
         \/ \E n \in NameNodes : Elect(n)
         \/ UNCHANGED vars
  BY DEF Next, Step, Stops, Starts, Waits

LEMMA NextTypeOK == TypeOK /\ [Next]_vars => TypeOK'
<1> SUFFICES ASSUME TypeOK, [Next]_vars PROVE TypeOK'
  OBVIOUS
<1>1. ASSUME NEW n \in Nodes, Stops(n) PROVE TypeOK'
  <2>1. PICK kind \in Kinds, next \in Steps : ServiceStop(kind, n, next)
    BY <1>1 DEF Stops, ZkTakeover, NnStop, ZkfcStop, ZkfcTakeover, Kinds, Steps
  <2>2. step' \in [Nodes -> Steps]
    BY <2>1, Stopped DEF TypeOK, Goto, Steps
  <2>3. UNCHANGED options
    BY <1>1 DEF Stops, ZkTakeover, NnStop, ZkfcStop, ZkfcTakeover
  <2> QED BY <2>1, <2>2, <2>3, Stopped DEF TypeOK, options, Listens
<1>2. ASSUME NEW n \in Nodes, Starts(n) PROVE TypeOK'
  <2>1. \/ UNCHANGED daemon /\ \E next \in Steps : Goto(n, next)
        \/ \E kind \in Kinds, next \in Steps : ComponentStart(kind, n, next)
    BY <1>2 DEF Starts, ZkStart, AfterZkStart, JnStart, NnStart, ZkfcStart, Kinds, Steps
  <2>2. UNCHANGED <<options, active>>
    BY <1>2 DEF Starts, ZkStart, JnStart, NnStart, ZkfcStart
  <2>3. /\ \E next \in Steps : Goto(n, next)
        /\ daemon' \in [Kinds -> [Nodes -> Statuses]]
        /\ \A k \in Kinds, m \in Nodes :
              daemon[k][m] # "down" => daemon'[k][m] = daemon[k][m]
    <3>1. CASE UNCHANGED daemon /\ \E next \in Steps : Goto(n, next)
      BY <3>1 DEF TypeOK
    <3>2. CASE \E kind \in Kinds, next \in Steps : ComponentStart(kind, n, next)
      <4>1. PICK kind \in Kinds, next \in Steps : ComponentStart(kind, n, next)
        BY <3>2
      <4>2. "failed" \in Steps
        BY DEF Steps
      <4>3. Goto(n, next) \/ Goto(n, "failed")
        BY <4>1, Started
      <4>4. \E label \in Steps : Goto(n, label)
        BY <4>2, <4>3
      <4> QED BY <4>1, <4>4, Started
    <3> QED BY <2>1, <3>1, <3>2
  <2>4. step' \in [Nodes -> Steps]
    BY <2>3 DEF TypeOK, Goto
  <2>5. active # None => daemon'["nn"][active] \in Listening
    BY <2>3, NodesAssumption DEF TypeOK, Kinds, Listens, Listening
  <2> QED BY <2>2, <2>3, <2>4, <2>5 DEF TypeOK, options, Listens
<1>3. ASSUME NEW n \in Nodes, Waits(n) PROVE TypeOK'
  <2>1. step' \in [Nodes -> Steps]
    BY <1>3 DEF Waits, Launch, ZkCheck, Layout, NnCheck, ZkfcListedWait,
                ZkfcWait, ZkfcLastWait, AfterZk, TypeOK, Goto, Steps
  <2>2. UNCHANGED <<options, daemon, active>>
    BY <1>3 DEF Waits, Launch, ZkCheck, Layout, NnCheck, ZkfcListedWait,
                ZkfcWait, ZkfcLastWait
  <2> QED BY <2>1, <2>2 DEF TypeOK, options, Listens
<1>4. ASSUME NEW n \in Nodes, Failover(n) PROVE TypeOK'
  <2>1. step' \in [Nodes -> Steps] /\ UNCHANGED <<options, daemon>>
    BY <1>4 DEF Failover, AfterFailover, TypeOK, Goto, Steps
  <2>2. active' = active \/ (active' = Desired /\ Listens("nn", Desired))
    BY <1>4 DEF Failover, DesiredIsStandby
  <2> QED BY <2>1, <2>2, NodesAssumption DEF TypeOK, options, Listens
<1>5. ASSUME NEW kind \in Kinds, NEW n \in Nodes, Up(kind, n) PROVE TypeOK'
  BY <1>5, NodesAssumption DEF Up, TypeOK, options, Statuses, Kinds, Listens, Listening
<1>6. ASSUME NEW n \in NameNodes, Elect(n) PROVE TypeOK'
  BY <1>6 DEF Elect, MayElect, TypeOK, options, Listens
<1>7. CASE UNCHANGED vars
  BY <1>7 DEF vars, options, TypeOK, Listens
<1> QED BY <1>1, <1>2, <1>3, <1>4, <1>5, <1>6, <1>7, Split

(* The variables have their types, and the active NameNode always runs.    *)
THEOREM TypeCorrect == Spec => []TypeOK
  BY InitTypeOK, NextTypeOK, PTL DEF Spec

\* A node changes its own step, and its own daemons.
LEMMA OthersUnchanged ==
  ASSUME TypeOK, NEW n \in Nodes, Launch(n) \/ Step(n)
  PROVE  \A m \in Nodes \ {n} :
            /\ step'[m] = step[m]
            /\ \A kind \in Kinds : daemon'[kind][m] = daemon[kind][m]
<1>1. CASE Launch(n) \/ ZkCheck(n) \/ Layout(n) \/ NnCheck(n) \/ ZkfcListedWait(n)
           \/ ZkfcWait(n) \/ Failover(n) \/ ZkfcLastWait(n)
  BY <1>1 DEF TypeOK, Goto, Launch, ZkCheck, Layout, NnCheck, ZkfcListedWait,
              ZkfcWait, Failover, ZkfcLastWait
<1>2. CASE Stops(n)
  <2>1. PICK kind \in Kinds, next \in Steps : ServiceStop(kind, n, next)
    BY <1>2 DEF Stops, ZkTakeover, NnStop, ZkfcStop, ZkfcTakeover, Kinds, Steps
  <2> QED BY <2>1, Stopped DEF TypeOK, Goto
<1>3. CASE Starts(n)
  <2>1. \/ UNCHANGED daemon /\ \E next \in Steps : Goto(n, next)
        \/ \E kind \in Kinds, next \in Steps : ComponentStart(kind, n, next)
    BY <1>3 DEF Starts, ZkStart, AfterZkStart, JnStart, NnStart, ZkfcStart, Kinds, Steps
  <2> QED BY <2>1, Started DEF TypeOK, Goto
<1> QED BY <1>1, <1>2, <1>3 DEF Step, Stops, Starts

\* What a command was given does not change.
LEMMA OptionsUnchanged == ASSUME [Next]_vars PROVE UNCHANGED options
  BY DEF vars, Next, Step, Launch, ZkTakeover, ZkStart, ZkCheck, JnStart, NnStop,
         ZkfcStop, NnStart, Layout, NnCheck, ZkfcListedWait, ZkfcTakeover,
         ZkfcStart, ZkfcWait, Failover, ZkfcLastWait, Up, Elect

-----------------------------------------------------------------------------
(* The quorum.                                                             *)
AtWork(n) == step[n] \notin {"idle", "done"}

ZkInv ==
    command = "takeover" /\ inTurn /\ zkRan =>
        /\ \A m, n \in Nodes : AtWork(m) /\ AtWork(n) => m = n
        /\ \A n \in Nodes :
              ~Listens("zk", n) => step[n] \in {"zkStart", "zkCheck", "failed"}

LEMMA InitZkInv == Init => ZkInv
  BY NodesAssumption DEF Init, ZkInv, AtWork, AllUp, Has

LEMMA NextZkInv == TypeOK /\ ZkInv /\ [Next]_vars => ZkInv'
<1> SUFFICES ASSUME TypeOK, ZkInv, [Next]_vars,
                    command = "takeover", inTurn, zkRan
             PROVE  /\ \A m, n \in Nodes : AtWork(m)' /\ AtWork(n)' => m = n
                    /\ \A n \in Nodes : ~Listens("zk", n)'
                          => step'[n] \in {"zkStart", "zkCheck", "failed"}
  BY OptionsUnchanged DEF ZkInv, options
<1>1. ASSUME NEW n \in Nodes, Launch(n) \/ Step(n)
      PROVE  AtWork(n) \/ \A m \in Nodes : ~AtWork(m)
  BY <1>1 DEF Step, ZkTakeover, ZkStart, ZkCheck, JnStart,
       NnStop, ZkfcStop, NnStart, Layout, NnCheck, ZkfcListedWait, ZkfcTakeover,
       ZkfcStart, ZkfcWait, Failover, ZkfcLastWait, Launch, AtWork
<1>2. \A m, n \in Nodes : AtWork(m)' /\ AtWork(n)' => m = n
  <2>1. CASE \E n \in Nodes : Launch(n) \/ Step(n)
    BY <2>1, <1>1, OthersUnchanged DEF ZkInv, AtWork
  <2>2. CASE UNCHANGED step
    BY <2>2 DEF ZkInv, AtWork
  <2> QED BY <2>1, <2>2 DEF Next, Up, Elect, vars
<1>3. ASSUME NEW n \in Nodes, ~Listens("zk", n)'
      PROVE  step'[n] \in {"zkStart", "zkCheck", "failed"}
  <2>1. ASSUME NEW m \in Nodes, Launch(m) \/ Step(m), m # n
        PROVE  step'[n] \in {"zkStart", "zkCheck", "failed"}
    BY <1>3, <2>1, OthersUnchanged DEF ZkInv, Listens, Kinds
  <2>2. CASE ZkTakeover(n)
    BY <1>3, <2>2, Stopped DEF ZkTakeover, Goto, TypeOK, Kinds, ZkInv, Listens
  <2>3. CASE ZkStart(n)
    <3>1. \/ UNCHANGED daemon /\ Goto(n, "zkCheck")
         \/ ComponentStart("zk", n, "zkCheck")
      BY <2>3 DEF ZkStart, AfterZkStart
    <3> QED BY <3>1, Started DEF Goto, TypeOK, Kinds
  <2>4. CASE ZkCheck(n)
    BY <1>3, <2>4 DEF ZkCheck, Goto, TypeOK, Listens
  <2>5. CASE NnStop(n) \/ ZkfcStop(n) \/ ZkfcTakeover(n)
    <3>1. daemon'["zk"][n] = daemon["zk"][n]
      BY <2>5, Stopped DEF NnStop, ZkfcStop, ZkfcTakeover, Kinds
    <3> QED BY <1>3, <2>5, <3>1 DEF ZkInv, Listens, NnStop, ZkfcStop, ZkfcTakeover
  <2>6. CASE JnStart(n) \/ NnStart(n) \/ ZkfcStart(n)
    <3>1. daemon'["zk"][n] = daemon["zk"][n]
      BY <2>6, Started DEF JnStart, NnStart, ZkfcStart, Kinds
    <3> QED BY <1>3, <2>6, <3>1 DEF ZkInv, Listens, JnStart, NnStart, ZkfcStart
  <2>7. CASE Launch(n) \/ Layout(n) \/ NnCheck(n) \/ ZkfcListedWait(n) \/ ZkfcWait(n)
             \/ Failover(n) \/ ZkfcLastWait(n)
    BY <1>3, <2>7 DEF ZkInv, Listens, Launch, Layout, NnCheck, ZkfcListedWait,
                      ZkfcWait, Failover, ZkfcLastWait
  <2>8. CASE (\E kind \in Kinds, m \in Nodes : Up(kind, m))
    BY <1>3, <2>8 DEF Up, ZkInv, TypeOK, Kinds, Listens, Listening
  <2>9. CASE (\E m \in NameNodes : Elect(m)) \/ UNCHANGED vars
    BY <1>3, <2>9 DEF Elect, vars, ZkInv, Listens
  <2> QED BY <2>1, <2>2, <2>3, <2>4, <2>5, <2>6, <2>7, <2>8, <2>9 DEF Next, Step
<1> QED BY <1>2, <1>3

\* Without one of its servers, an ensemble of three or more has a quorum.
LEMMA OneDownIsQuorum ==
  ASSUME Cardinality(Nodes) >= 3,
         \A m, n \in Nodes : ~Listens("zk", m) /\ ~Listens("zk", n) => m = n
  PROVE  Quorum
<1> DEFINE Running == {n \in Nodes : Listens("zk", n)}
<1>1. Cardinality(Nodes) \in Nat /\ Cardinality(Running) \in Nat /\ IsFiniteSet(Running)
  BY NodesAssumption, FS_Subset, FS_CardinalityType
<1>2. CASE Running = Nodes
  <2>1. ASSUME NEW size \in Nat, size >= 3 PROVE 2 * size > size
    BY <2>1
  <2>2. 2 * Cardinality(Running) > Cardinality(Nodes)
    BY <1>1, <1>2, <2>1
  <2> QED BY <2>2 DEF Quorum
<1>3. CASE Running # Nodes
  <2>1. PICK n \in Nodes : ~Listens("zk", n)
    BY <1>3
  <2>2. Running = Nodes \ {n}
    BY <2>1
  <2>3. Cardinality(Nodes \ {n}) = Cardinality(Nodes) - 1
    BY FS_RemoveElement, NodesAssumption
  <2>4. Cardinality(Running) = Cardinality(Nodes) - 1
    BY <2>2, <2>3
  <2>5. ASSUME NEW size \in Nat, size >= 3 PROVE 2 * (size - 1) > size
    BY <2>5
  <2>6. 2 * Cardinality(Running) > Cardinality(Nodes)
    BY <1>1, <2>4, <2>5
  <2> QED BY <2>6 DEF Quorum
<1> QED BY <1>2, <1>3

(* With three ZooKeeper servers or more, all of which ran, a takeover of   *)
(* the nodes one after the other never loses the quorum: a node goes on    *)
(* only when its server answers, and the next one is not begun when it     *)
(* does not, be it that Ambari did not start it.                           *)
THEOREM TakeoverKeepsQuorum ==
  ASSUME Cardinality(Nodes) >= 3 PROVE Spec => []QuorumKept
<1>1. ZkInv => QuorumKept
  <2> SUFFICES ASSUME ZkInv, command = "takeover", inTurn, zkRan PROVE Quorum
    BY DEF QuorumKept
  <2>1. \A m, n \in Nodes : ~Listens("zk", m) /\ ~Listens("zk", n) => m = n
    BY DEF ZkInv, AtWork
  <2> QED BY <2>1, OneDownIsQuorum
<1> QED BY InitTypeOK, NextTypeOK, InitZkInv, NextZkInv, <1>1, PTL DEF Spec

-----------------------------------------------------------------------------
(* The desired NameNode.                                                   *)
StartSteps == {"idle", "zkStart", "jnStart", "nnStart", "zkfcStart", "zkfcWait",
               "failover", "done", "failed"}

StartInv ==
    command = "start" =>
        /\ \A n \in Nodes : step[n] \in StartSteps
        /\ desiredRan => Listens("nn", Desired)
        /\ \A n \in NameNodes : step[n] \in {"failover", "done"} => AllUp("zkfc")
        /\ desiredRan =>
              \A n \in NameNodes : step[n] = "done" => active = Desired

LEMMA InitStartInv == Init => StartInv
  BY NodesAssumption DEF Init, StartInv, StartSteps

\* During a start no daemon goes down, or is taken from the system.
LEMMA NoneGoesDown ==
  ASSUME TypeOK, StartInv, command = "start", [Next]_vars
  PROVE  \A k \in Kinds, m \in Nodes :
            /\ daemon[k][m] # "down" => daemon'[k][m] # "down"
            /\ Listens(k, m) => Listens(k, m)'
<1> USE DEF Listens, Listening
<1>1. \A n \in Nodes : ~Stops(n)
  BY DEF StartInv, StartSteps, Stops, ZkTakeover, NnStop, ZkfcStop, ZkfcTakeover
<1>2. ASSUME NEW n \in Nodes, Starts(n)
      PROVE  \A k \in Kinds, m \in Nodes :
                daemon[k][m] # "down" => daemon'[k][m] = daemon[k][m]
  <2>1. \/ UNCHANGED daemon
        \/ \E kind \in Kinds, next \in Steps : ComponentStart(kind, n, next)
    BY <1>2 DEF Starts, ZkStart, AfterZkStart, JnStart, NnStart, ZkfcStart, Kinds, Steps
  <2> QED BY <2>1, Started
<1>3. ASSUME NEW n \in Nodes, Waits(n) \/ Failover(n) PROVE UNCHANGED daemon
  BY <1>3 DEF Waits, Launch, ZkCheck, Layout, NnCheck, ZkfcListedWait,
              ZkfcWait, ZkfcLastWait, Failover
<1>4. ASSUME NEW kind \in Kinds, NEW n \in Nodes, Up(kind, n)
      PROVE  \A k \in Kinds, m \in Nodes :
                /\ daemon[k][m] # "down" => daemon'[k][m] # "down"
                /\ Listens(k, m) => Listens(k, m)'
  BY <1>4 DEF Up, TypeOK
<1>5. ASSUME (\E n \in NameNodes : Elect(n)) \/ UNCHANGED vars PROVE UNCHANGED daemon
  BY <1>5 DEF Elect, vars
<1> QED BY <1>1, <1>2, <1>3, <1>4, <1>5, Split

LEMMA NextStartInv == TypeOK /\ StartInv /\ [Next]_vars => StartInv'
<1> SUFFICES ASSUME TypeOK, StartInv, [Next]_vars, command = "start"
             PROVE  /\ \A n \in Nodes : step'[n] \in StartSteps
                    /\ desiredRan => Listens("nn", Desired)'
                    /\ \A n \in NameNodes :
                          step'[n] \in {"failover", "done"} => AllUp("zkfc")'
                    /\ desiredRan => \A n \in NameNodes :
                          step'[n] = "done" => active' = Desired
  BY OptionsUnchanged DEF StartInv, options
<1>nodes. NameNodes \subseteq Nodes /\ Desired \in NameNodes
  BY NodesAssumption
<1>1. \A n \in Nodes : step'[n] \in StartSteps
  BY DEF StartInv, StartSteps, TypeOK, Next, Step, vars, Launch, ZkTakeover,
         ZkStart, AfterZkStart, ZkCheck, JnStart, NnStop, ZkfcStop, NnStart, Layout,
         NnCheck, ZkfcListedWait, ZkfcTakeover, ZkfcStart, ZkfcWait, Failover,
         AfterFailover, ZkfcLastWait, Up, Elect, Goto, ComponentStart
<1>2. desiredRan => Listens("nn", Desired)'
  BY NoneGoesDown, <1>nodes DEF StartInv, Kinds
<1>3. AllUp("zkfc") => AllUp("zkfc")'
  BY NoneGoesDown DEF AllUp, Kinds, Has
<1>4. ASSUME NEW n \in NameNodes, step'[n] \in {"failover", "done"}
      PROVE  AllUp("zkfc")'
  <2>1. step[n] \in {"failover", "done"} \/ (step[n] = "zkfcWait" /\ AllUp("zkfc"))
    BY <1>4, <1>nodes
       DEF WaitIsOver, StartInv, StartSteps, TypeOK, Next, Step, vars, Launch,
         ZkTakeover, ZkStart, AfterZkStart, ZkCheck, JnStart, NnStop, ZkfcStop,
         NnStart, Layout, NnCheck, ZkfcListedWait, ZkfcTakeover, ZkfcStart,
         ZkfcWait, Failover, AfterFailover, ZkfcLastWait, Up, Elect, Goto,
         ComponentStart
  <2> QED BY <2>1, <1>3 DEF StartInv
<1>5. ASSUME desiredRan, NEW n \in NameNodes, step'[n] = "done"
      PROVE  active' = Desired
  <2>1. step[n] = "done" \/ Failover(n)
    BY <1>5, <1>nodes
       DEF StartInv, StartSteps, TypeOK, Next, Step, vars, Launch, ZkTakeover,
         ZkStart, AfterZkStart, ZkCheck, JnStart, NnStop, ZkfcStop, NnStart,
         Layout, NnCheck, ZkfcListedWait, ZkfcTakeover, ZkfcStart, ZkfcWait,
         ZkfcLastWait, Up, Elect, Failover, Goto, ComponentStart
  <2>2. CASE Failover(n)
    BY <1>5, <2>2, <1>nodes DEF Failover, DesiredIsStandby, StartInv, Goto, TypeOK,
                                AfterFailover
  <2>3. CASE step[n] = "done"
    <3>1. active = Desired /\ Listens("zkfc", Desired)
      BY <1>5, <2>3, <1>nodes DEF StartInv, AllUp, Has
    <3>2. active' = active \/ active' = Desired
      BY <3>1, <1>nodes, NoneAssumption
         DEF StartInv, StartSteps, Next, Step, vars, Launch, ZkTakeover,
           ZkStart, ZkCheck, JnStart, NnStop, ZkfcStop, NnStart, Layout, NnCheck,
           ZkfcListedWait, ZkfcTakeover, ZkfcStart, ZkfcWait, Failover,
           ZkfcLastWait, Up, Elect, MayElect
    <3> QED BY <3>1, <3>2
  <2> QED BY <2>1, <2>2, <2>3
<1> QED BY <1>1, <1>2, <1>4, <1>5

(* On any number of nodes, a start before which the desired NameNode       *)
(* answered, once it ended well on the node of a NameNode, has the desired *)
(* NameNode active, and nothing in the rest of the start changes it.  Of a *)
(* start from a NameNode that did not answer it says nothing.              *)
THEOREM DesiredBecomesActive == Spec => []DesiredActive
<1>1. StartInv => DesiredActive
  BY DEF StartInv, DesiredActive
<1> QED BY InitTypeOK, NextTypeOK, InitStartInv, NextStartInv, <1>1, PTL DEF Spec

-----------------------------------------------------------------------------
(* What a takeover hands over.                                             *)
ZkSteps == {"idle", "zkTakeover", "zkStart", "zkCheck", "done", "failed"}
PastZkfc == {"zkfcTakeover", "zkfcStart", "zkfcWait", "failover", "zkfcLast", "done"}
PastNn == {"zkfcListed"} \union PastZkfc
PastZk == {"nnStop", "zkfcStop", "nnStart", "layout", "nnCheck"} \union PastNn

TakenAt(n) ==
    /\ step[n] # "jnStart"
    /\ n \notin NameNodes => step[n] \in ZkSteps
    /\ step[n] \in {"zkStart", "zkCheck"} => daemon["zk"][n] # "service"
    /\ step[n] = "zkCheck" /\ zkOption => daemon["zk"][n] # "down"
    /\ step[n] \in PastZk => daemon["zk"][n] = "up"
    /\ n \in NameNodes =>
          /\ step[n] \in {"zkfcStop", "nnStart"} => daemon["nn"][n] # "service"
          /\ step[n] \in {"layout", "nnCheck"} => daemon["nn"][n] \in {"starting", "up"}
          /\ step[n] \in PastNn => daemon["nn"][n] = "up"
          /\ step[n] \in {"nnStart", "layout", "nnCheck", "zkfcListed"}
                => daemon["zkfc"][n] # "service"
          /\ step[n] \in PastZkfc => daemon["zkfc"][n] = "up"

TakenInv == command = "takeover" => \A n \in Nodes : TakenAt(n)

LEMMA InitTakenInv == Init => TakenInv
  BY DEF Init, TakenInv, TakenAt, ZkSteps, PastZk, PastNn, PastZkfc

LEMMA NextTakenInv == TypeOK /\ TakenInv /\ [Next]_vars => TakenInv'
<1> SUFFICES ASSUME TypeOK, TakenInv, [Next]_vars, command = "takeover",
                    NEW n \in Nodes
             PROVE  TakenAt(n)'
  BY OptionsUnchanged DEF TakenInv, options
<1> USE DEF ZkSteps, PastZk, PastNn, PastZkfc, Kinds, Goto
<1>at. TakenAt(n) /\ step \in [Nodes -> Steps] /\ daemon \in [Kinds -> [Nodes -> Statuses]]
  BY DEF TakenInv, TypeOK
<1>given. UNCHANGED <<command, zkOption>>
  BY OptionsUnchanged DEF options
<1>1. ASSUME NEW m \in Nodes, Launch(m) \/ Step(m), m # n PROVE TakenAt(n)'
  BY <1>1, <1>at, <1>given, OthersUnchanged DEF TakenAt
<1>2. CASE ZkTakeover(n)
  BY <1>2, <1>at, <1>given, Stopped DEF ZkTakeover, TakenAt
<1>3. CASE ZkStart(n)
  <2>1. CASE zkOption
    <3>1. ComponentStart("zk", n, "zkCheck") /\ step[n] = "zkStart"
      BY <1>3, <2>1 DEF ZkStart, AfterZkStart
    <3> QED BY <3>1, <1>at, <1>given, Started DEF TakenAt
  <2>2. CASE ~zkOption
    BY <1>3, <2>2, <1>at, <1>given DEF ZkStart, AfterZkStart, TakenAt
  <2> QED BY <2>1, <2>2
<1>4. CASE ZkCheck(n)
  BY <1>4, <1>at, <1>given DEF ZkCheck, AfterZk, Listens, Listening, TakenAt
<1>5. CASE NnStop(n)
  BY <1>5, <1>at, <1>given, Stopped DEF NnStop, TakenAt
<1>6. CASE ZkfcStop(n)
  BY <1>6, <1>at, <1>given, Stopped DEF ZkfcStop, TakenAt
<1>7. CASE NnStart(n)
  <2>1. ComponentStart("nn", n, "layout") /\ step[n] = "nnStart"
    BY <1>7 DEF NnStart
  <2> QED BY <2>1, <1>at, <1>given, Started DEF TakenAt, Statuses
<1>8. CASE Layout(n)
  BY <1>8, <1>at, <1>given DEF Layout, TakenAt
<1>9. CASE NnCheck(n)
  BY <1>9, <1>at, <1>given DEF NnCheck, WaitIsOver, AllUp, Has, Listens, Listening, TakenAt
<1>10. CASE ZkfcListedWait(n)
  BY <1>10, <1>at, <1>given
     DEF ZkfcListedWait, WaitIsOver, AllUp, Has, Listens, Listening, TakenAt
<1>11. CASE ZkfcTakeover(n)
  BY <1>11, <1>at, <1>given, Stopped DEF ZkfcTakeover, TakenAt
<1>12. CASE ZkfcStart(n)
  <2>1. ComponentStart("zkfc", n, "zkfcWait") /\ step[n] = "zkfcStart"
    BY <1>12 DEF ZkfcStart
  <2> QED BY <2>1, <1>at, <1>given, Started DEF TakenAt
<1>13. CASE Launch(n) \/ ZkfcWait(n) \/ Failover(n) \/ ZkfcLastWait(n) \/ JnStart(n)
  BY <1>13, <1>at, <1>given
     DEF Launch, ZkfcWait, Failover, AfterFailover, ZkfcLastWait, JnStart, TakenAt
<1>14. ASSUME NEW kind \in Kinds, NEW m \in Nodes, Up(kind, m) PROVE TakenAt(n)'
  BY <1>14, <1>at, <1>given DEF Up, TakenAt
<1>15. CASE (\E m \in NameNodes : Elect(m)) \/ UNCHANGED vars
  BY <1>15, <1>at, <1>given DEF Elect, vars, TakenAt
<1> QED
  BY <1>1, <1>2, <1>3, <1>4, <1>5, <1>6, <1>7, <1>8, <1>9, <1>10, <1>11, <1>12,
     <1>13, <1>14, <1>15 DEF Next, Step

(* However many nodes are taken over, in whatever order, and whatever each *)
(* of them had handed over before: where the takeover ended well, Ambari   *)
(* has the ZooKeeper server, the NameNode and the ZKFC, and they listen.   *)
THEOREM TakeoverHandsOver == Spec => []TakenOver
<1>1. TakenInv => TakenOver
  BY DEF TakenInv, TakenAt, TakenOver, Has, Kinds, PastZk, PastNn, PastZkfc
<1> QED BY InitTypeOK, NextTypeOK, InitTakenInv, NextTakenInv, <1>1, PTL DEF Spec

-----------------------------------------------------------------------------
(* Nobody is stuck.  The steps of a start at which a daemon of the node is *)
(* not yet started, or may never be.                                       *)
Before(kind) ==
    CASE kind = "zk"   -> {"idle", "zkStart", "failed"}
      [] kind = "jn"   -> {"idle", "zkStart", "jnStart", "failed"}
      [] kind = "nn"   -> {"idle", "zkStart", "jnStart", "nnStart", "failed"}
      [] kind = "zkfc" -> {"idle", "zkStart", "jnStart", "nnStart", "zkfcStart",
                           "failed"}

PastAt(n) ==
    /\ step[n] \in StartSteps
    /\ n \notin NameNodes => step[n] \in {"idle", "zkStart", "jnStart", "done", "failed"}
    /\ \A kind \in Kinds :
          (kind # "zk" \/ zkOption) /\ Has(kind, n) /\ step[n] \notin Before(kind)
              => daemon[kind][n] # "down"

PastInv == command = "start" => \A n \in Nodes : PastAt(n)

LEMMA InitPastInv == Init => PastInv
  BY DEF Init, PastInv, PastAt, StartSteps, Kinds, Before

LEMMA NextPastInv == TypeOK /\ StartInv /\ PastInv /\ [Next]_vars => PastInv'
<1> SUFFICES ASSUME TypeOK, StartInv, PastInv, [Next]_vars, command = "start",
                    NEW n \in Nodes
             PROVE  PastAt(n)'
  BY OptionsUnchanged DEF PastInv, options
<1> USE DEF StartSteps, Kinds, Goto
<1>at. PastAt(n) /\ step \in [Nodes -> Steps] /\ daemon \in [Kinds -> [Nodes -> Statuses]]
  BY DEF PastInv, TypeOK
<1>given. UNCHANGED <<command, zkOption>>
  BY OptionsUnchanged DEF options
<1>kept. \A kind \in Kinds : daemon[kind][n] # "down" => daemon'[kind][n] # "down"
  BY NoneGoesDown
<1>1. ASSUME NEW m \in Nodes, Launch(m) \/ Step(m), m # n PROVE PastAt(n)'
  BY <1>1, <1>at, <1>given, OthersUnchanged DEF PastAt, Has
<1>2. CASE ZkStart(n)
  <2>1. \/ Goto(n, "failed")
        \/ Goto(n, "jnStart") /\ (zkOption => daemon'["zk"][n] # "down")
    BY <1>2, Started DEF ZkStart, AfterZkStart
  <2> QED BY <2>1, <1>at, <1>given DEF PastAt, Before
<1>3. CASE JnStart(n)
  <2>1. \/ Goto(n, "failed")
        \/ /\ Goto(n, IF n \in NameNodes THEN "nnStart" ELSE "done")
           /\ daemon'["jn"][n] # "down"
    BY <1>3, Started DEF JnStart
  <2> QED BY <1>3, <2>1, <1>at, <1>given, <1>kept DEF PastAt, Before, Has, JnStart
<1>4. CASE NnStart(n)
  <2>1. \/ Goto(n, "failed")
        \/ Goto(n, "zkfcStart") /\ daemon'["nn"][n] # "down"
    BY <1>4, Started DEF NnStart
  <2> QED BY <1>4, <2>1, <1>at, <1>given, <1>kept DEF PastAt, Before, Has, NnStart
<1>5. CASE ZkfcStart(n)
  <2>1. \/ Goto(n, "failed")
        \/ Goto(n, "zkfcWait") /\ daemon'["zkfc"][n] # "down"
    BY <1>5, Started DEF ZkfcStart
  <2> QED BY <1>5, <2>1, <1>at, <1>given, <1>kept DEF PastAt, Before, Has, ZkfcStart
<1>6. CASE Launch(n) \/ ZkfcWait(n) \/ Failover(n)
  BY <1>6, <1>at, <1>given, <1>kept
     DEF Launch, ZkfcWait, Failover, AfterFailover, PastAt, Before, Has
<1>7. CASE ZkTakeover(n) \/ ZkCheck(n) \/ NnStop(n) \/ ZkfcStop(n) \/ Layout(n)
           \/ NnCheck(n) \/ ZkfcListedWait(n) \/ ZkfcTakeover(n) \/ ZkfcLastWait(n)
  BY <1>7 DEF StartInv, ZkTakeover, ZkCheck, NnStop, ZkfcStop, Layout, NnCheck,
              ZkfcListedWait, ZkfcTakeover, ZkfcLastWait
<1>8. CASE UNCHANGED step
  BY <1>8, <1>at, <1>given, <1>kept DEF PastAt, Has
<1> QED
  BY <1>1, <1>2, <1>3, <1>4, <1>5, <1>6, <1>7, <1>8 DEF Next, Step, Up, Elect, vars

\* With every server up there is a quorum.
LEMMA AllUpIsQuorum == ASSUME AllUp("zk") PROVE Quorum
<1>1. {n \in Nodes : Listens("zk", n)} = Nodes
  BY DEF AllUp, Has
<1>2. Nodes # {} /\ IsFiniteSet(Nodes)
  BY NodesAssumption
<1>3. Cardinality(Nodes) \in Nat /\ Cardinality(Nodes) # 0
  BY <1>2, FS_CardinalityType, FS_EmptySet
<1>4. \A size \in Nat : size # 0 => 2 * size > size
  OBVIOUS
<1> QED BY <1>1, <1>3, <1>4 DEF Quorum

Waiting ==
    /\ Provided
    /\ \A n \in Nodes : step[n] \notin {"idle", "failed"}
    /\ ~ \A n \in Nodes : step[n] = "done"
    /\ ~ \E kind \in Kinds, n \in Nodes : daemon[kind][n] = "starting"

\* Of a start, the nodes that are behind the others can go on.
LEMMA StartGoesOn ==
  ASSUME TypeOK, PastInv, Waiting, command = "start"
  PROVE  \E n \in Nodes : step[n] \notin Ended /\ WaitIsOver(n)
<1> DEFINE At(label) == \E n \in Nodes : step[n] = label
<1>1. \A kind \in Kinds :
        /\ kind # "zk" \/ zkOption
        /\ \A n \in Nodes : Has(kind, n) => step[n] \notin Before(kind)
        => AllUp(kind)
  BY DEF PastInv, PastAt, AllUp, TypeOK, Statuses, Waiting, Listens, Listening
<1>2. \A n \in Nodes : step[n] \in StartSteps \ {"idle", "failed"}
  BY DEF PastInv, PastAt, Waiting
<1>3. ~At("zkStart") => Quorum
  <2>1. CASE zkOption /\ ~At("zkStart")
    BY <2>1, <1>1, <1>2, AllUpIsQuorum DEF Before, Kinds
  <2>2. CASE ~zkOption
    BY <2>2 DEF Waiting, Provided
  <2> QED BY <2>1, <2>2
<1>4. CASE At("zkStart") \/ At("zkfcStart") \/ At("failover")
  BY <1>4 DEF WaitIsOver, Ended
<1>5. CASE ~At("zkStart") /\ At("jnStart")
  BY <1>3, <1>5 DEF WaitIsOver, Ended
<1>6. CASE ~At("zkStart") /\ ~At("jnStart") /\ At("nnStart")
  <2>1. AllUp("jn")
    BY <1>1, <1>2, <1>6 DEF Before, Kinds
  <2> QED BY <1>3, <1>6, <2>1 DEF WaitIsOver, Ended
<1>7. CASE /\ ~At("zkStart") /\ ~At("jnStart") /\ ~At("nnStart")
           /\ ~At("zkfcStart") /\ At("zkfcWait")
  <2>1. AllUp("zkfc")
    BY <1>1, <1>2, <1>7 DEF Before, Kinds
  <2> QED BY <1>7, <2>1 DEF WaitIsOver, Ended
<1> QED BY <1>2, <1>4, <1>5, <1>6, <1>7 DEF StartSteps, Ended, Waiting

\* So can those of a takeover, or a NameNode can become active for them.
LEMMA TakeoverGoesOn ==
  ASSUME TypeOK, TakenInv, Waiting, command = "takeover"
  PROVE  \/ \E n \in Nodes : step[n] \notin Ended /\ WaitIsOver(n)
         \/ \E n \in NameNodes : MayElect(n)
<1> DEFINE At(label) == \E n \in Nodes : step[n] = label
<1>1. \A n \in Nodes :
        /\ step[n] \in Steps \ {"idle", "failed", "jnStart"}
        /\ step[n] \in {"zkTakeover", "zkStart", "zkCheck"} \union PastZk
        /\ n \notin NameNodes => step[n] \in ZkSteps
  BY DEF TakenInv, TakenAt, Waiting, TypeOK, Steps, PastZk, PastNn, PastZkfc
<1>2. CASE \/ At("zkTakeover") \/ At("zkStart") \/ At("nnStop") \/ At("zkfcStop")
           \/ At("zkfcTakeover") \/ At("zkfcStart") \/ At("failover")
  BY <1>2 DEF WaitIsOver, Ended
<1>3. CASE ~At("zkTakeover") /\ ~At("zkStart")
  <2>1. Quorum
    <3>1. CASE zkOption
      <4>1. \A n \in Nodes : daemon["zk"][n] = "up"
        BY <1>1, <1>3, <3>1 DEF TakenInv, TakenAt, Waiting, TypeOK, Statuses, Kinds
      <4> QED BY <4>1, AllUpIsQuorum DEF AllUp, Listens, Listening
    <3>2. CASE ~zkOption
      BY <3>2 DEF Waiting, Provided
    <3> QED BY <3>1, <3>2
  <2>2. CASE At("zkCheck")
    BY <2>1, <2>2 DEF WaitIsOver, Ended
  <2>3. CASE At("nnStart")
    BY <2>1, <2>3 DEF WaitIsOver, Ended, Waiting, Provided
  <2>4. CASE /\ ~At("zkCheck") /\ ~At("nnStart") /\ ~At("nnStop")
             /\ ~At("zkfcStop")
    <3>1. \A n \in NameNodes : daemon["nn"][n] = "up" /\ daemon["zkfc"][n] = "up"
      <4>1. ASSUME NEW n \in NameNodes PROVE daemon["nn"][n] = "up"
        <5>1. n \in Nodes /\ step[n] \in {"layout", "nnCheck"} \union PastNn
          BY <1>1, <1>3, <2>4, NodesAssumption DEF PastZk
        <5> QED BY <5>1 DEF TakenInv, TakenAt, Waiting, Kinds
      <4> QED BY <4>1 DEF Waiting, Provided
    <3>2. AllUp("nn") /\ AllUp("zkfc")
      BY <3>1 DEF AllUp, Has, Listens, Listening
    <3>3. CASE At("nnCheck") \/ At("zkfcListed") \/ At("zkfcWait") \/ At("zkfcLast")
      BY <3>2, <3>3 DEF WaitIsOver, Ended
    <3>4. CASE At("layout")
      <4>1. CASE active # None
        BY <3>2, <3>4, <4>1 DEF WaitIsOver, LayoutIsServed, Ended
      <4>2. CASE active = None
        BY <2>1, <3>1, <4>2, NodesAssumption DEF MayElect, Listens, Listening
      <4> QED BY <4>1, <4>2
    <3> QED BY <1>1, <1>2, <1>3, <2>4, <3>3, <3>4 DEF Waiting, PastZk, PastNn, PastZkfc
  <2> QED BY <1>2, <2>2, <2>3, <2>4
<1> QED BY <1>2, <1>3

(* A command on any number of nodes, whatever ran before, never comes to a *)
(* state in which every node waits, unless it failed on one of them or what*)
(* it does not start itself (Provided) is not there: the daemons that one  *)
(* waits for are those that others have started before any wait of theirs  *)
(* for a later one.                                                        *)
THEOREM NobodyWaitsForEver == Spec => []NobodyStuck
<1>1. TypeOK /\ PastInv /\ TakenInv => NobodyStuck
  <2>1. TypeOK /\ ~NobodyStuck =>
           Waiting /\ (command = "start" \/ command = "takeover")
    BY DEF NobodyStuck, Waiting, TypeOK
  <2>2. ~NobodyStuck =>
           /\ ~ \E n \in Nodes : step[n] \notin Ended /\ WaitIsOver(n)
           /\ ~ \E n \in NameNodes : MayElect(n)
    BY DEF NobodyStuck
  <2> QED BY <2>1, <2>2, StartGoesOn, TakeoverGoesOn
<1> QED
  BY InitTypeOK, NextTypeOK, InitStartInv, NextStartInv, InitPastInv, NextPastInv,
     InitTakenInv, NextTakenInv, <1>1, PTL DEF Spec
=============================================================================
