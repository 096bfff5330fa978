--------------------------- MODULE ConfigSetUpload ---------------------------
(***************************************************************************)
(* upload_configuration_to_zk of server/resources/solr_cloud_util.py: one  *)
(* action per resource it executes.  Each client, a process of a service   *)
(* that stores data in Infra Solr, works on a temporary directory with a   *)
(* random name of its own; ZooKeeper is shared.                            *)
(***************************************************************************)
EXTENDS Naturals

CONSTANTS
    Clients, HasContent, NoConfig,
    NoDir,         \* the temporary directory does not exist
    MaxRuns,       \* bound: how many times a client uploads
    Parallel,      \* may others change the set while a client uploads
    CheckMayFail   \* may --check-config fail although the set exists

ASSUME ContentAssumption == HasContent \subseteq Clients
ASSUME RunsAssumption == MaxRuns \in Nat

VARIABLES
    configSet,  \* the configuration set in ZooKeeper
    tmp,        \* each client's temporary directory
    step,       \* what each client does next
    runs        \* how many times each client uploaded

clients == <<tmp, step, runs>>
vars == <<configSet, clients>>

Shipped == [files |-> "shipped", solrconfig |-> "shipped"]
ConfigSets == [files : {"shipped", "edited"}, solrconfig : {"shipped"} \union Clients]

ASSUME NoSetAssumption == NoConfig \notin ConfigSets /\ NoDir \notin ConfigSets

Steps == {"idle", "check", "download", "content", "uploadTmp",
          "uploadShipped", "delete", "done", "failed"}

Init ==
    /\ configSet = NoConfig
    /\ tmp = [c \in Clients |-> NoDir]
    /\ step = [c \in Clients |-> "idle"]
    /\ runs = [c \in Clients |-> 0]

Resting == {"idle", "done", "failed"}

Goto(c, label) == step' = [step EXCEPT ![c] = label]

\* Clients on one host do not upload in parallel unless the agent is
\* configured so.  A new random_num is drawn: the directory of a run that
\* failed is left behind.
Launch(c) ==
    /\ step[c] \in Resting
    /\ runs[c] < MaxRuns
    /\ Parallel \/ \A d \in Clients : step[d] \in Resting
    /\ runs' = [runs EXCEPT ![c] = @ + 1]
    /\ tmp' = [tmp EXCEPT ![c] = NoDir]
    /\ Goto(c, "check")
    /\ UNCHANGED configSet

AfterDownload(c) == IF c \in HasContent THEN "content" ELSE "uploadShipped"

(* only_if --check-config: any failure of the command counts as a no.      *)
CheckConfig(c) ==
    /\ step[c] = "check"
    /\ \/ configSet # NoConfig /\ Goto(c, "download")
       \/ (configSet = NoConfig \/ CheckMayFail) /\ Goto(c, AfterDownload(c))
    /\ UNCHANGED <<configSet, tmp, runs>>

Download(c) ==
    /\ step[c] = "download"
    /\ \/ tmp' = [tmp EXCEPT ![c] = configSet] /\ Goto(c, AfterDownload(c))
       \/ tmp' = tmp /\ Goto(c, "failed")
    /\ UNCHANGED <<configSet, runs>>

(* solrconfig.xml, only_if the set was downloaded.                         *)
WriteContent(c) ==
    /\ step[c] = "content"
    /\ Goto(c, "uploadTmp")
    /\ tmp' = IF tmp[c] = NoDir THEN tmp
              ELSE [tmp EXCEPT ![c].solrconfig = c]
    /\ UNCHANGED <<configSet, runs>>

(* --upload-config of a directory: it may fail, before or after the set is *)
(* in ZooKeeper.                                                           *)
Upload(c, dir, label) ==
    \/ configSet' = dir /\ Goto(c, label)
    \/ configSet' \in {configSet, dir} /\ Goto(c, "failed")

\* Variant: without only_if.
UploadTmpAlways(c) ==
    /\ step[c] = "uploadTmp"
    /\ Upload(c, tmp[c], "uploadShipped")
    /\ UNCHANGED <<tmp, runs>>

(* The downloaded directory, only_if it exists.                            *)
UploadTmp(c) ==
    /\ step[c] = "uploadTmp"
    /\ \/ tmp[c] # NoDir /\ Upload(c, tmp[c], "uploadShipped")
       \/ tmp[c] = NoDir /\ Goto(c, "uploadShipped") /\ UNCHANGED configSet
    /\ UNCHANGED <<tmp, runs>>

\* Variants: without not_if, and with a failure that is not noticed.
UploadShippedAlways(c) ==
    /\ step[c] = "uploadShipped"
    /\ Upload(c, Shipped, "delete")
    /\ UNCHANGED <<tmp, runs>>

UploadShippedUnnoticed(c) ==
    /\ step[c] = "uploadShipped"
    /\ Goto(c, "delete")
    /\ configSet' \in {configSet} \union (IF tmp[c] = NoDir THEN {Shipped} ELSE {})
    /\ UNCHANGED <<tmp, runs>>

(* config_set_dir, not_if the set was downloaded.                          *)
UploadShipped(c) ==
    /\ step[c] = "uploadShipped"
    /\ \/ tmp[c] = NoDir /\ Upload(c, Shipped, "delete")
       \/ tmp[c] # NoDir /\ Goto(c, "delete") /\ UNCHANGED configSet
    /\ UNCHANGED <<tmp, runs>>

DeleteTmp(c) ==
    /\ step[c] = "delete"
    /\ tmp' = [tmp EXCEPT ![c] = NoDir]
    /\ Goto(c, "done")
    /\ UNCHANGED <<configSet, runs>>

Kill(c) ==
    /\ step[c] \notin Resting
    /\ Goto(c, "failed")
    /\ UNCHANGED <<configSet, tmp, runs>>

(* An administrator changes the set.                                       *)
Edit ==
    /\ configSet # NoConfig
    /\ Parallel \/ \A c \in Clients : step[c] \in Resting
    /\ configSet' = [configSet EXCEPT !.files = "edited"]
    /\ UNCHANGED clients

\* The bound on the runs is reached.
Finished ==
    /\ \A c \in Clients : step[c] \in Resting /\ runs[c] = MaxRuns
    /\ UNCHANGED vars

Step(c) ==
    \/ CheckConfig(c) \/ Download(c) \/ WriteContent(c) \/ UploadTmp(c)
    \/ UploadShipped(c) \/ DeleteTmp(c)

Next ==
    \/ \E c \in Clients : Launch(c) \/ Step(c) \/ Kill(c)
    \/ Edit
    \/ Finished

Spec == Init /\ [][Next]_vars

-----------------------------------------------------------------------------
TypeOK ==
    /\ configSet \in ConfigSets \union {NoConfig}
    /\ tmp \in [Clients -> ConfigSets \union {NoDir}]
    /\ step \in [Clients -> Steps]
    /\ runs \in [Clients -> 0..MaxRuns]

(* The upload implements what its docstring promises: seen from ZooKeeper, *)
(* a run is one atomic upload, provided that clients take turns and that   *)
(* the check answers (solr_cloud_util.py:51-85).                           *)
Promise == INSTANCE ConfigSet WITH
    Clients <- Clients, HasContent <- HasContent, NoConfig <- NoConfig,
    configSet <- configSet
ImplementsPromise == Promise!Spec

(* A client whose upload ended well leaves a set in ZooKeeper and no       *)
(* temporary directory, also when its check failed or others uploaded in   *)
(* between (solr_cloud_util.py:76-85).                                     *)
UploadIsThere ==
    \A c \in Clients :
        step[c] = "done" => configSet # NoConfig /\ tmp[c] = NoDir

(* "If the configuration set does not exist in zookeeper then upload it    *)
(* based on the config_set_dir parameter" (solr_cloud_util.py:56): a set   *)
(* that an administrator has changed is never replaced by the shipped one. *)
EditedSetIsKept ==
    [][configSet # NoConfig /\ configSet.files = "edited"
            => configSet' # NoConfig /\ configSet'.files = "edited"]_configSet
=============================================================================
