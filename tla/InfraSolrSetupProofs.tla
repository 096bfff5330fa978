------------------------- MODULE InfraSolrSetupProofs -------------------------
(***************************************************************************)
(* Theorems of InfraSolrSetup, for every set of hosts, every number of     *)
(* tries and of runs.                                                      *)
(***************************************************************************)
EXTENDS InfraSolrSetup, TLAPS

(* A host waits for the znode only with tries left.                        *)
TypeInv ==
    /\ TypeOK
    /\ \A h \in Hosts : step[h] = "znode" => tries[h] # 0

(* What holds of ZooKeeper once a host is past a step.  It stays true while *)
(* the other hosts work on the same tree, because each command writes what *)
(* all hosts agree on.                                                     *)
Past(h) ==
    /\ step[h] \in {"security", "clusterProp", "plugin", "acl", "done"} => znode
    /\ step[h] \in {"plugin", "acl", "done"} => urlScheme
    /\ step[h] \in {"acl", "done"} => securityJson = SecurityJson
    /\ step[h] = "acl" => secure
    /\ step[h] = "done" /\ secure => acl = "solr"

SetupInv == \A h \in Hosts : Past(h)

LEMMA TypeInit == Init => TypeInv
<1> SUFFICES ASSUME Init
             PROVE  TypeInv
  OBVIOUS
<1>1. 0 \in 0..Tries /\ 0 \in 0..MaxRuns
  BY TriesAssumption, RunsAssumption
<1>2. /\ step \in [Hosts -> Steps]
      /\ tries \in [Hosts -> 0..Tries]
      /\ runs \in [Hosts -> 0..MaxRuns]
      /\ \A h \in Hosts : step[h] # "znode"
  BY <1>1 DEF Init, Steps
<1>3. /\ secure \in BOOLEAN /\ custom \in BOOLEAN /\ znode \in BOOLEAN
      /\ urlScheme \in BOOLEAN
  BY DEF Init
<1>4. /\ securityJson \in {"none", "generated", "custom"}
      /\ acl \in {"world", "solr"}
  BY DEF Init
<1>5. QED
  BY <1>2, <1>3, <1>4 DEF TypeInv, TypeOK

LEMMA TypeStep == TypeInv /\ [Next]_vars => TypeInv'
<1> SUFFICES ASSUME TypeInv, [Next]_vars
             PROVE  TypeInv'
  OBVIOUS
<1> USE TriesAssumption, RunsAssumption DEF TypeInv, TypeOK, Steps, Goto, options, zookeeper
<1>1. ASSUME NEW h \in Hosts, Launch(h)
      PROVE  TypeInv'
  BY <1>1 DEF Launch
<1>2. ASSUME NEW h \in Hosts, LocalFiles(h)
      PROVE  TypeInv'
  BY <1>2 DEF LocalFiles
<1>3. ASSUME NEW h \in Hosts, CreateZnode(h)
      PROVE  TypeInv'
  <2>1. step[h] = "znode" /\ tries[h] \in 1..Tries
    BY <1>3 DEF CreateZnode
  <2>2. CASE step' = [step EXCEPT ![h] = "security"] /\ UNCHANGED tries /\ znode' = TRUE
    BY <1>3, <2>2 DEF CreateZnode
  <2>3. CASE /\ znode' \in {znode, TRUE}
             /\ tries' = [tries EXCEPT ![h] = @ - 1]
             /\ Goto(h, IF tries[h] > 1 THEN "znode" ELSE "failed")
    <3>1. tries[h] - 1 \in 0..Tries /\ (tries[h] > 1 => tries[h] - 1 # 0)
      BY <2>1
    <3>2. tries' \in [Hosts -> 0..Tries] /\ step' \in [Hosts -> Steps]
      BY <2>3, <3>1
    <3>3. \A g \in Hosts : step'[g] = "znode" => tries'[g] # 0
      BY <2>3, <3>1
    <3>4. QED
      BY <1>3, <2>3, <3>2, <3>3 DEF CreateZnode
  <2>4. QED
    BY <1>3, <2>2, <2>3 DEF CreateZnode
<1>4. ASSUME NEW h \in Hosts, SecurityFiles(h)
      PROVE  TypeInv'
  BY <1>4 DEF SecurityFiles
<1>5. ASSUME NEW h \in Hosts, SetClusterProp(h)
      PROVE  TypeInv'
  BY <1>5 DEF SetClusterProp
<1>6. ASSUME NEW h \in Hosts, SetupKerberosPlugin(h)
      PROVE  TypeInv'
  BY <1>6 DEF SetupKerberosPlugin, SecurityJson, AfterPlugin
<1>7. ASSUME NEW h \in Hosts, SecureSolrZnode(h)
      PROVE  TypeInv'
  BY <1>7 DEF SecureSolrZnode
<1>8. ASSUME NEW h \in Hosts, Kill(h)
      PROVE  TypeInv'
  BY <1>8 DEF Kill
<1>9. CASE UNCHANGED vars
  BY <1>9 DEF vars, setup
<1>10. QED
  BY <1>1, <1>2, <1>3, <1>4, <1>5, <1>6, <1>7, <1>8, <1>9 DEF Next, Step, Finished

(* The variables have their types; the number of tries left to create the  *)
(* znode never goes below zero (setup_infra_solr.py:137-143).              *)
THEOREM TypeCorrect == Spec => []TypeOK
<1>1. TypeInv => TypeOK
  BY DEF TypeInv
<1>2. QED
  BY TypeInit, TypeStep, <1>1, PTL DEF Spec

LEMMA SetupInit == Init => SetupInv
  BY DEF Init, SetupInv, Past

LEMMA SetupStep == TypeInv /\ SetupInv /\ [Next]_vars => SetupInv'
<1> SUFFICES ASSUME TypeInv, SetupInv, [Next]_vars
             PROVE  SetupInv'
  OBVIOUS
<1> USE DEF TypeInv, TypeOK, SetupInv, Goto, options, zookeeper
<1>1. ASSUME NEW h \in Hosts, Launch(h) \/ LocalFiles(h) \/ Kill(h)
      PROVE  SetupInv'
  BY <1>1 DEF Launch, LocalFiles, Kill, Past, SecurityJson
<1>2. ASSUME NEW h \in Hosts, CreateZnode(h)
      PROVE  SetupInv'
  BY <1>2 DEF CreateZnode, Past, SecurityJson
<1>3. ASSUME NEW h \in Hosts, SecurityFiles(h)
      PROVE  SetupInv'
  BY <1>3 DEF SecurityFiles, Past, SecurityJson
<1>4. ASSUME NEW h \in Hosts, SetClusterProp(h)
      PROVE  SetupInv'
  BY <1>4 DEF SetClusterProp, Past, SecurityJson
<1>5. ASSUME NEW h \in Hosts, SetupKerberosPlugin(h)
      PROVE  SetupInv'
  BY <1>5 DEF SetupKerberosPlugin, AfterPlugin, Past, SecurityJson
<1>6. ASSUME NEW h \in Hosts, SecureSolrZnode(h)
      PROVE  SetupInv'
  BY <1>6 DEF SecureSolrZnode, Past, SecurityJson
<1>7. CASE UNCHANGED vars
  BY <1>7 DEF vars, setup, Past, SecurityJson
<1>8. QED
  BY <1>1, <1>2, <1>3, <1>4, <1>5, <1>6, <1>7 DEF Next, Step, Finished

LEMMA SetupInvariant == Spec => []SetupInv
  BY TypeInit, TypeStep, SetupInit, SetupStep, PTL DEF Spec

(* On any number of hosts, whatever fails, is killed or is run again: who  *)
(* closes the znode of a secured cluster finds in it the security.json of  *)
(* the configuration, his own or that of another host                      *)
(* (setup_infra_solr.py:112-128).                                          *)
THEOREM ClosedAfterPlugin == Spec => AclAfterPlugin
<1>1. ASSUME SetupInv, [Next]_vars
      PROVE  secure /\ acl' # acl => securityJson = SecurityJson
  <2>1. ASSUME NEW h \in Hosts, SecureSolrZnode(h)
        PROVE  securityJson = SecurityJson
    BY <1>1, <2>1 DEF SecureSolrZnode, SetupInv, Past
  <2>2. (\E h \in Hosts : SecureSolrZnode(h)) \/ acl' = acl
    BY <1>1 DEF Next, Step, Finished, vars, zookeeper, Launch, LocalFiles, CreateZnode,
                SecurityFiles, SetClusterProp, SetupKerberosPlugin, Kill
  <2>3. QED
    BY <2>1, <2>2
<1>2. QED
  BY SetupInvariant, <1>1, PTL DEF Spec, AclAfterPlugin

(* A setup that ended well is complete in ZooKeeper, and stays so while    *)
(* the other hosts run theirs (setup_infra_solr.py:86-128).                *)
THEOREM CompleteWhenDone == Spec => []SetupIsComplete
<1>1. SetupInv => SetupIsComplete
  BY DEF SetupInv, Past, SetupIsComplete
<1>2. QED
  BY SetupInvariant, <1>1, PTL

-----------------------------------------------------------------------------
\* What a move of one host does to the measure: its own shrinks, unless it
\* starts anew from where none is left.
LEMMA OwnMove ==
  ASSUME TypeInv, NEW h \in Hosts, Step(h) \/ Kill(h)
  PROVE  Left(h)' < Left(h)
<1> USE TriesAssumption DEF TypeInv, TypeOK, Steps, Goto, Left
<1>1. CASE LocalFiles(h)
  <2>1. step[h] = "files" /\ Left(h) = Tries + 5
    BY <1>1 DEF LocalFiles
  <2>2. step'[h] = "failed" \/ (step'[h] = "znode" /\ tries'[h] = Tries)
    BY <1>1 DEF LocalFiles
  <2>3. Left(h)' \in {0, Tries + 4}
    BY <2>2
  <2>4. QED
    BY <2>1, <2>3
<1>2. CASE CreateZnode(h)
  <2>1. step[h] = "znode" /\ tries[h] \in 1..Tries
    BY <1>2 DEF CreateZnode
  <2>2. Left(h) = tries[h] + 4
    BY <2>1
  <2>3. \/ step'[h] = "security"
        \/ step'[h] = "failed"
        \/ step'[h] = "znode" /\ tries'[h] = tries[h] - 1
    BY <1>2 DEF CreateZnode
  <2>4. Left(h)' \in {4, 0, tries[h] - 1 + 4}
    BY <2>3
  <2>5. QED
    BY <2>1, <2>2, <2>4
<1>3. CASE SecurityFiles(h)
  <2>1. step[h] = "security" /\ step'[h] \in {"clusterProp", "failed"}
    BY <1>3 DEF SecurityFiles
  <2>2. QED
    BY <2>1
<1>4. CASE SetClusterProp(h)
  <2>1. step[h] = "clusterProp" /\ step'[h] \in {"plugin", "failed"}
    BY <1>4 DEF SetClusterProp
  <2>2. QED
    BY <2>1
<1>5. CASE SetupKerberosPlugin(h)
  <2>1. step[h] = "plugin" /\ step'[h] \in {"acl", "done", "failed"}
    BY <1>5 DEF SetupKerberosPlugin, AfterPlugin
  <2>2. QED
    BY <2>1
<1>6. CASE SecureSolrZnode(h)
  <2>1. step[h] = "acl" /\ step'[h] \in {"done", "failed"}
    BY <1>6 DEF SecureSolrZnode
  <2>2. QED
    BY <2>1
<1>7. CASE Kill(h)
  <2>1. step[h] \in {"files", "znode", "security", "clusterProp", "plugin", "acl"}
    BY <1>7 DEF Kill
  <2>2. Left(h) > 0
    BY <2>1
  <2>3. Left(h)' = 0
    BY <1>7 DEF Kill
  <2>4. QED
    BY <2>2, <2>3
<1>8. QED
  BY <1>1, <1>2, <1>3, <1>4, <1>5, <1>6, <1>7 DEF Step

\* A host moves no other.
LEMMA OthersStay ==
  ASSUME TypeInv, NEW h \in Hosts, Launch(h) \/ Step(h) \/ Kill(h), NEW g \in Hosts, g # h
  PROVE  step'[g] = step[g] /\ tries'[g] = tries[g]
BY DEF TypeInv, TypeOK, Goto, Launch, Step, LocalFiles, CreateZnode, SecurityFiles,
       SetClusterProp, SetupKerberosPlugin, SecureSolrZnode, Kill

(* Each move of a setup brings it nearer to its end, by a measure that is  *)
(* at most Tries + 5 and that no other host can raise: however often the   *)
(* commands fail, a setup runs a bounded number of them                    *)
(* (setup_infra_solr.py:137-143).                                          *)
THEOREM BoundedSetup == Spec => SetupIsBounded
<1> DEFINE Shrinks(h) ==
      Left(h) > 0 /\ <<step[h], tries[h]>>' # <<step[h], tries[h]>> => Left(h)' < Left(h)
<1>1. ASSUME TypeInv, [Next]_vars
      PROVE  \A h \in Hosts : Shrinks(h)
  <2>1. ASSUME NEW g \in Hosts, Launch(g) \/ Step(g) \/ Kill(g), NEW h \in Hosts
        PROVE  Shrinks(h)
    <3>1. CASE h # g
      BY <1>1, <2>1, <3>1, OthersStay
    <3>2. CASE h = g /\ Launch(g)
      BY <3>2 DEF Launch, Left
    <3>3. CASE h = g /\ (Step(g) \/ Kill(g))
      BY <1>1, <3>3, OwnMove
    <3>4. QED
      BY <2>1, <3>1, <3>2, <3>3
  <2>2. CASE UNCHANGED vars
    BY <2>2 DEF vars, setup
  <2>3. QED
    BY <1>1, <2>1, <2>2 DEF Next, Finished
<1>2. QED
  BY TypeInit, TypeStep, <1>1, PTL DEF Spec, SetupIsBounded
=============================================================================
