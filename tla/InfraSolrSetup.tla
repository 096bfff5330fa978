---------------------------- MODULE InfraSolrSetup ----------------------------
(***************************************************************************)
(* setup_infra_solr('server') of ambari_infra/resources/setup_infra_solr.py*)
(* on every host of the Infra Solr service.  All hosts work on the same    *)
(* ZooKeeper tree, in parallel, through the solrCloudCli.sh commands of    *)
(* server/resources/solr_cloud_util.py: create the Solr znode, set its     *)
(* cluster property, upload or clear security.json, restrict its ACLs.     *)
(*                                                                         *)
(* A command is an external process: it may fail before or after its       *)
(* effect on ZooKeeper.  A failure ends the setup, except that the creation*)
(* of the znode is retried; the agent may be told to run the setup again.  *)
(***************************************************************************)
EXTENDS Naturals

CONSTANTS
    Hosts,      \* the hosts with an Infra Solr server
    Tries,      \* times of the retry decorator of create_ambari_solr_znode
    MaxRuns     \* bound: how many times a host runs its setup

ASSUME TriesAssumption == Tries \in Nat \ {0}
ASSUME RunsAssumption == MaxRuns \in Nat

VARIABLES
    secure,        \* params.security_enabled
    custom,        \* is infra_solr_security_json_content given
    znode,         \* does the Solr znode exist
    urlScheme,     \* is the cluster property set
    securityJson,  \* security.json of the znode
    acl,           \* who may write in the znode
    step,          \* what each host does next
    tries,         \* tries left to create the znode
    runs           \* how many times each host ran the setup

options == <<secure, custom>>
setup == <<step, tries, runs>>
zookeeper == <<znode, urlScheme, securityJson, acl>>
vars == <<options, zookeeper, setup>>

Steps == {"idle", "files", "znode", "security", "clusterProp", "plugin",
          "acl", "done", "failed"}

\* An earlier setup, of a cluster that was secured or not, may have left a
\* znode.  Its ACLs may be restricted with no security.json: an unsecured
\* setup clears the one and does not lift the others.
Init ==
    /\ secure \in BOOLEAN
    /\ custom \in BOOLEAN
    /\ znode \in BOOLEAN
    /\ urlScheme \in {FALSE, znode}
    /\ securityJson \in {"none"} \union (IF znode THEN {"generated", "custom"} ELSE {})
    /\ acl \in {"world"} \union (IF znode THEN {"solr"} ELSE {})
    /\ step = [h \in Hosts |-> "idle"]
    /\ tries = [h \in Hosts |-> 0]
    /\ runs = [h \in Hosts |-> 0]

Goto(h, label) == step' = [step EXCEPT ![h] = label]

Launch(h) ==
    /\ step[h] \in {"idle", "done", "failed"}
    /\ runs[h] < MaxRuns
    /\ runs' = [runs EXCEPT ![h] = @ + 1]
    /\ Goto(h, "files")
    /\ UNCHANGED <<options, zookeeper, tries>>

(* Directories and files of the host, custom-security.json among them.     *)
LocalFiles(h) ==
    /\ step[h] = "files"
    /\ \/ Goto(h, "znode") /\ tries' = [tries EXCEPT ![h] = Tries]
       \/ Goto(h, "failed") /\ UNCHANGED tries
    /\ UNCHANGED <<options, zookeeper, runs>>

\* Variant: the retry decorator counts its tries anew.
CreateZnodeForever(h) ==
    /\ step[h] = "znode"
    /\ \/ znode' = TRUE /\ Goto(h, "security") /\ UNCHANGED tries
       \/ /\ znode' \in {znode, TRUE}
          /\ tries' = [tries EXCEPT ![h] = IF @ > 1 THEN @ - 1 ELSE Tries]
          /\ Goto(h, "znode")
    /\ UNCHANGED <<options, urlScheme, securityJson, acl, runs>>

\* Variant: the last try is taken for one more.
CreateZnodeOnceMore(h) ==
    /\ step[h] = "znode"
    /\ \/ znode' = TRUE /\ Goto(h, "security") /\ UNCHANGED tries
       \/ /\ znode' \in {znode, TRUE}
          /\ tries' = [tries EXCEPT ![h] = @ - 1]
          /\ Goto(h, IF tries[h] > 0 THEN "znode" ELSE "failed")
    /\ UNCHANGED <<options, urlScheme, securityJson, acl, runs>>

(* create_ambari_solr_znode: create the znode unless it exists, retried.   *)
CreateZnode(h) ==
    /\ step[h] = "znode"
    /\ \/ /\ znode' = TRUE
          /\ Goto(h, "security")
          /\ UNCHANGED tries
       \/ /\ znode' \in {znode, TRUE}
          /\ tries' = [tries EXCEPT ![h] = @ - 1]
          /\ Goto(h, IF tries[h] > 1 THEN "znode" ELSE "failed")
    /\ UNCHANGED <<options, urlScheme, securityJson, acl, runs>>

(* The JAAS file and the generated security.json, on a secured cluster.    *)
SecurityFiles(h) ==
    /\ step[h] = "security"
    /\ Goto(h, "clusterProp") \/ (secure /\ Goto(h, "failed"))
    /\ UNCHANGED <<options, zookeeper, tries, runs>>

SetClusterProp(h) ==
    /\ step[h] = "clusterProp"
    /\ \/ urlScheme' = TRUE /\ Goto(h, "plugin")
       \/ urlScheme' \in {urlScheme, TRUE} /\ Goto(h, "failed")
    /\ UNCHANGED <<options, znode, securityJson, acl, tries, runs>>

(* setup_kerberos_plugin uploads the custom security.json if one is given, *)
(* else the generated one; it clears security.json on an unsecured cluster.*)
SecurityJson ==
    IF ~secure THEN "none" ELSE IF custom THEN "custom" ELSE "generated"

AfterPlugin == IF secure THEN "acl" ELSE "done"

\* Variant: an unsecured cluster keeps the security.json it has.
SetupPluginUncleared(h) ==
    /\ step[h] = "plugin"
    /\ \/ /\ securityJson' = IF secure THEN SecurityJson ELSE securityJson
          /\ Goto(h, AfterPlugin)
       \/ Goto(h, "failed") /\ UNCHANGED securityJson
    /\ UNCHANGED <<options, znode, urlScheme, acl, tries, runs>>

\* Variant: a failure of the command is not noticed.
SetupPluginUnnoticed(h) ==
    /\ step[h] = "plugin"
    /\ securityJson' \in {securityJson, SecurityJson}
    /\ Goto(h, AfterPlugin)
    /\ UNCHANGED <<options, znode, urlScheme, acl, tries, runs>>

SetupKerberosPlugin(h) ==
    /\ step[h] = "plugin"
    /\ \/ securityJson' = SecurityJson /\ Goto(h, AfterPlugin)
       \/ securityJson' \in {securityJson, SecurityJson} /\ Goto(h, "failed")
    /\ UNCHANGED <<options, znode, urlScheme, acl, tries, runs>>

(* secure_solr_znode: the znode is the Solr user's, 'r' for the world.     *)
SecureSolrZnode(h) ==
    /\ step[h] = "acl"
    /\ \/ acl' = "solr" /\ Goto(h, "done")
       \/ acl' \in {acl, "solr"} /\ Goto(h, "failed")
    /\ UNCHANGED <<options, znode, urlScheme, securityJson, tries, runs>>

(* The process is killed between two commands.                             *)
Kill(h) ==
    /\ step[h] \notin {"idle", "done", "failed"}
    /\ Goto(h, "failed")
    /\ UNCHANGED <<options, zookeeper, tries, runs>>

\* The bound on the runs is reached.
Finished ==
    /\ \A h \in Hosts : step[h] \in {"done", "failed"} /\ runs[h] = MaxRuns
    /\ UNCHANGED vars

Step(h) ==
    \/ LocalFiles(h) \/ CreateZnode(h) \/ SecurityFiles(h)
    \/ SetClusterProp(h) \/ SetupKerberosPlugin(h) \/ SecureSolrZnode(h)

Next ==
    \/ \E h \in Hosts : Launch(h) \/ Step(h) \/ Kill(h)
    \/ Finished

Fairness == \A h \in Hosts : WF_vars(Step(h))

Spec == Init /\ [][Next]_vars /\ Fairness

-----------------------------------------------------------------------------
TypeOK ==
    /\ secure \in BOOLEAN /\ custom \in BOOLEAN
    /\ znode \in BOOLEAN /\ urlScheme \in BOOLEAN
    /\ securityJson \in {"none", "generated", "custom"}
    /\ acl \in {"world", "solr"}
    /\ step \in [Hosts -> Steps]
    /\ tries \in [Hosts -> 0..Tries]
    /\ runs \in [Hosts -> 0..MaxRuns]

(* A host whose setup ended well sees all of it in ZooKeeper, and it stays *)
(* while other hosts run theirs again (setup_infra_solr.py:86-128).        *)
SetupIsComplete ==
    (\E h \in Hosts : step[h] = "done")
        => /\ znode /\ urlScheme
           /\ securityJson = SecurityJson
           /\ (secure => acl = "solr")

(* Whatever fails, is killed or is run again, on any number of hosts: when *)
(* a host closes the znode of a secured cluster to the world, it has the   *)
(* security.json of the configuration, so that a Solr that cannot be set up*)
(* any more without Kerberos knows of Kerberos (setup_infra_solr.py:       *)
(* 112-128).                                                               *)
AclAfterPlugin == [][secure /\ acl' # acl => securityJson = SecurityJson]_vars

\* The commands a setup may still run, each try to create the znode for one.
Left(h) ==
    CASE step[h] = "files"       -> Tries + 5
      [] step[h] = "znode"       -> tries[h] + 4
      [] step[h] = "security"    -> 4
      [] step[h] = "clusterProp" -> 3
      [] step[h] = "plugin"      -> 2
      [] step[h] = "acl"         -> 1
      [] OTHER                   -> 0

(* No setup runs more commands than Tries + 5: whatever fails, is killed or*)
(* is done by other hosts meanwhile, each move of a setup leaves fewer, and*)
(* none of another host moves it (setup_infra_solr.py:137-143).            *)
SetupIsBounded ==
    [][\A h \in Hosts :
          Left(h) > 0 /\ <<step[h], tries[h]>>' # <<step[h], tries[h]>>
              => Left(h)' < Left(h)]_vars

(* A setup ends, well or not: the retries of the znode are bounded         *)
(* (setup_infra_solr.py:137-143).                                          *)
SetupEnds ==
    \A h \in Hosts :
        step[h] = "files" ~> step[h] \in {"done", "failed"}
=============================================================================
