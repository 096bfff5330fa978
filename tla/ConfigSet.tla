------------------------------ MODULE ConfigSet ------------------------------
(***************************************************************************)
(* What upload_configuration_to_zk promises (solr_cloud_util.py:52-57) of  *)
(* a configuration set in ZooKeeper: the set of the service is uploaded    *)
(* when there is none; when there is one it is kept, with what an          *)
(* administrator changed in it, and only its solrconfig.xml is replaced.   *)
(***************************************************************************)
CONSTANTS
    Clients,      \* the processes that upload the set
    HasContent,   \* the clients with a solrconfig.xml of their own
    NoConfig      \* there is no such configuration set

VARIABLE configSet

\* The files of a set and its solrconfig.xml: those of the service's
\* directory, of an administrator, or of a client's solrconfig_content.
Shipped == [files |-> "shipped", solrconfig |-> "shipped"]

Init == configSet = NoConfig

Upload(c) ==
    configSet' =
        IF configSet = NoConfig THEN Shipped
        ELSE IF c \in HasContent THEN [configSet EXCEPT !.solrconfig = c]
        ELSE configSet

Edit ==
    /\ configSet # NoConfig
    /\ configSet' = [configSet EXCEPT !.files = "edited"]

Next == Edit \/ \E c \in Clients : Upload(c)

Spec == Init /\ [][Next]_configSet
=============================================================================
