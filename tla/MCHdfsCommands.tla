---------------------------- MODULE MCHdfsCommands ----------------------------
(***************************************************************************)
(* Small instances of HdfsCommands.                                        *)
(***************************************************************************)
EXTENDS HdfsCommands

\* To a start it makes no difference who controls a daemon that runs.  A
\* JournalNode that is up makes it wait less: it does nothing else with it.
FoundByStart == [kind \in Kinds |-> IF kind = "jn" THEN {"down"} ELSE {"down", "up"}]

\* A takeover with a JournalNode that does not listen only waits.  A server
\* of ZooKeeper that is down before it is one that its step has stopped.
FoundByTakeover ==
    [kind \in Kinds |->
        CASE kind = "jn" -> {"up"}
          [] kind = "zk" -> {"service", "up"}
          [] OTHER -> {"down", "service", "up"}]

\* What either command finds; what a first takeover finds, and a start of a
\* cluster that was stopped.
FoundAfterAnything == [start |-> FoundByStart, takeover |-> FoundByTakeover]
FoundByFirstTakeover == [takeover |-> [kind \in Kinds |-> {"service"}]]
FoundByColdStart == [start |-> [kind \in Kinds |-> {"down"}]]
=============================================================================
