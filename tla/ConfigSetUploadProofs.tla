------------------------ MODULE ConfigSetUploadProofs ------------------------
(***************************************************************************)
(* What ConfigSetUpload promises, for any number of clients and of uploads.*)
(* Whatever others do, a set that was seen stays (Known).  As long as one  *)
(* client uploads at a time (TurnInv) and the check of the set answers,    *)
(* what the client has in its temporary directory is what is in ZooKeeper  *)
(* (SeenInv): that is why its upload loses nothing.                        *)
(***************************************************************************)
EXTENDS ConfigSetUpload, TLAPS

\* Who downloads a set, has one, or has uploaded one, knows that there is
\* one: it does not go away.
Knows(c) ==
    /\ step[c] \in {"download", "delete", "done"} \/ tmp[c] # NoDir
          => configSet # NoConfig
    /\ step[c] = "done" => tmp[c] = NoDir

Known == \A c \in Clients : Knows(c)

LEMMA InitTypeOK == Init => TypeOK /\ Known
  BY RunsAssumption DEF Init, TypeOK, Steps, Known, Knows

LEMMA NextTypeOK == TypeOK /\ Known /\ [Next]_vars => TypeOK'
<1> SUFFICES ASSUME TypeOK, Known, [Next]_vars PROVE TypeOK'
  OBVIOUS
<1> USE DEF TypeOK, Steps, Goto
<1>shipped. Shipped \in ConfigSets
  BY DEF Shipped, ConfigSets
<1>1. ASSUME NEW c \in Clients, Launch(c) PROVE TypeOK'
  BY <1>1, RunsAssumption DEF Launch
<1>2. ASSUME NEW c \in Clients, CheckConfig(c) PROVE TypeOK'
  BY <1>2 DEF CheckConfig, AfterDownload
<1>3. ASSUME NEW c \in Clients, Download(c) PROVE TypeOK'
  <2> USE <1>3 DEF Download, AfterDownload
  <2>1. step' \in [Clients -> Steps] /\ UNCHANGED <<configSet, runs>>
    OBVIOUS
  <2>2. tmp' \in [Clients -> ConfigSets \union {NoDir}]
    BY DEF Known, Knows
  <2> QED BY <2>1, <2>2
<1>4. ASSUME NEW c \in Clients, WriteContent(c) PROVE TypeOK'
  BY <1>4 DEF WriteContent, ConfigSets
<1>5. ASSUME NEW c \in Clients, UploadTmp(c) PROVE TypeOK'
  BY <1>5 DEF UploadTmp, Upload
<1>6. ASSUME NEW c \in Clients, UploadShipped(c) PROVE TypeOK'
  BY <1>6, <1>shipped DEF UploadShipped, Upload
<1>7. ASSUME NEW c \in Clients, DeleteTmp(c) PROVE TypeOK'
  BY <1>7 DEF DeleteTmp
<1>8. ASSUME NEW c \in Clients, Kill(c) PROVE TypeOK'
  BY <1>8 DEF Kill
<1>9. CASE Edit
  BY <1>9 DEF Edit, ConfigSets, clients
<1>10. CASE UNCHANGED vars
  BY <1>10 DEF vars, clients
<1> QED
  BY <1>1, <1>2, <1>3, <1>4, <1>5, <1>6, <1>7, <1>8, <1>9, <1>10
     DEF Next, Step, Finished

LEMMA NextKnown == TypeOK /\ Known /\ [Next]_vars => Known'
<1> SUFFICES ASSUME TypeOK, Known, [Next]_vars PROVE Known'
  OBVIOUS
<1>shipped. Shipped # NoConfig
  BY NoSetAssumption DEF Shipped, ConfigSets
<1>1. configSet # NoConfig => configSet' # NoConfig
  BY <1>shipped, NoSetAssumption
     DEF TypeOK, Next, vars, clients, Launch, Step, Kill, Edit, Finished,
         CheckConfig, Download, WriteContent, UploadTmp, UploadShipped,
         DeleteTmp, Upload, ConfigSets
<1>2. ASSUME NEW c \in Clients PROVE Knows(c)'
  <2> USE <1>1 DEF TypeOK, Known, Knows, Goto
  <2>1. ASSUME NEW d \in Clients, Launch(d) \/ Kill(d) PROVE Knows(c)'
    BY <2>1 DEF Launch, Kill
  <2>2. ASSUME NEW d \in Clients, CheckConfig(d) PROVE Knows(c)'
    BY <2>2 DEF CheckConfig, AfterDownload
  <2>3. ASSUME NEW d \in Clients, Download(d) PROVE Knows(c)'
    BY <2>3 DEF Download, AfterDownload
  <2>4. ASSUME NEW d \in Clients, WriteContent(d) PROVE Knows(c)'
    BY <2>4 DEF WriteContent
  <2>5. ASSUME NEW d \in Clients, UploadTmp(d) PROVE Knows(c)'
    BY <2>5 DEF UploadTmp, Upload
  <2>6. ASSUME NEW d \in Clients, UploadShipped(d) PROVE Knows(c)'
    BY <2>6, <1>shipped DEF UploadShipped, Upload
  <2>7. ASSUME NEW d \in Clients, DeleteTmp(d) PROVE Knows(c)'
    BY <2>7 DEF DeleteTmp
  <2>8. CASE Edit \/ UNCHANGED vars
    BY <2>8 DEF Edit, vars, clients
  <2> QED BY <2>1, <2>2, <2>3, <2>4, <2>5, <2>6, <2>7, <2>8 DEF Next, Step, Finished
<1> QED BY <1>2 DEF Known

(* The variables have their types: what is uploaded is always a            *)
(* configuration set, never the directory that was not there.              *)
THEOREM TypeCorrect == Spec => []TypeOK
  BY InitTypeOK, NextTypeOK, NextKnown, PTL DEF Spec

(* A client that ended well left a configuration set in ZooKeeper and no   *)
(* temporary directory, whatever the clients before, beside and after it   *)
(* and an administrator did, and also when its check failed.               *)
THEOREM UploadThere == Spec => []UploadIsThere
<1>1. Known => UploadIsThere
  BY DEF Known, Knows, UploadIsThere
<1> QED BY InitTypeOK, NextTypeOK, NextKnown, <1>1, PTL DEF Spec

-----------------------------------------------------------------------------
(* One client at a time.                                                   *)
TurnInv ==
    \A c, d \in Clients : c # d => step[c] \in Resting \/ step[d] \in Resting

\* What a client knows of the configuration set at each of its steps.
Seen(c) ==
    /\ step[c] = "check" => tmp[c] = NoDir
    /\ step[c] = "download" => tmp[c] = NoDir /\ configSet # NoConfig
    /\ step[c] = "content" =>
           /\ c \in HasContent
           /\ tmp[c] = IF configSet = NoConfig THEN NoDir ELSE configSet
    /\ step[c] = "uploadTmp" =>
           /\ c \in HasContent
           /\ tmp[c] = IF configSet = NoConfig THEN NoDir
                       ELSE [configSet EXCEPT !.solrconfig = c]
    /\ step[c] = "uploadShipped" => (tmp[c] = NoDir <=> configSet = NoConfig)

SeenInv == \A c \in Clients : Seen(c)

Inv == TypeOK /\ Known /\ TurnInv /\ SeenInv

LEMMA NextTurnInv == ASSUME ~Parallel, Inv, [Next]_vars PROVE TurnInv'
<1> USE DEF Inv, TypeOK, TurnInv, Resting, Goto
<1>1. ASSUME NEW c \in Clients, Launch(c) PROVE TurnInv'
  BY <1>1 DEF Launch
<1>2. ASSUME NEW c \in Clients, Step(c) \/ Kill(c) PROVE TurnInv'
  <2>1. step[c] \notin Resting
    BY <1>2 DEF Step, CheckConfig, Download, WriteContent, UploadTmp,
                UploadShipped, DeleteTmp, Kill
  <2>2. \A d \in Clients \ {c} : step'[d] = step[d]
    BY <1>2 DEF Step, CheckConfig, Download, WriteContent, UploadTmp,
                UploadShipped, DeleteTmp, Kill, Upload
  <2> QED BY <2>1, <2>2
<1>3. CASE Edit \/ UNCHANGED vars
  BY <1>3 DEF Edit, vars, clients
<1> QED
  BY <1>1, <1>2, <1>3 DEF Next, Finished

\* While one client works the others rest: of the set they only know that
\* it is there.
LEMMA OthersSee ==
  ASSUME Inv, NEW c \in Clients, step[c] \notin Resting,
         configSet' # NoConfig \/ configSet' = configSet,
         \A d \in Clients \ {c} : step'[d] = step[d] /\ tmp'[d] = tmp[d]
  PROVE  \A d \in Clients \ {c} : Seen(d)'
  BY DEF Inv, TypeOK, TurnInv, SeenInv, Seen, Resting

LEMMA NextSeenInv == ASSUME ~Parallel, ~CheckMayFail, Inv, [Next]_vars
                     PROVE  SeenInv'
<1> USE DEF Inv, TypeOK, Goto
<1>shipped. Shipped \in ConfigSets /\ Shipped # NoConfig
  BY NoSetAssumption DEF Shipped, ConfigSets
<1>1. ASSUME NEW c \in Clients, Launch(c) PROVE SeenInv'
  BY <1>1 DEF Launch, SeenInv, Seen
<1>2. ASSUME NEW c \in Clients, CheckConfig(c) PROVE SeenInv'
  <2> USE <1>2 DEF CheckConfig, AfterDownload
  <2>1. step[c] \notin Resting
    BY DEF Resting
  <2>2. Seen(c)'
    BY ~CheckMayFail DEF SeenInv, Seen
  <2> QED BY <2>1, <2>2, OthersSee DEF SeenInv
<1>3. ASSUME NEW c \in Clients, Download(c) PROVE SeenInv'
  <2> USE <1>3 DEF Download, AfterDownload
  <2>1. step[c] \notin Resting
    BY DEF Resting
  <2>2. Seen(c)'
    BY NoSetAssumption DEF SeenInv, Seen
  <2> QED BY <2>1, <2>2, OthersSee DEF SeenInv
<1>4. ASSUME NEW c \in Clients, WriteContent(c) PROVE SeenInv'
  <2> USE <1>4 DEF WriteContent
  <2>1. step[c] \notin Resting
    BY DEF Resting
  <2>2. Seen(c)'
    BY NoSetAssumption DEF SeenInv, Seen, ConfigSets
  <2> QED BY <2>1, <2>2, OthersSee DEF SeenInv
<1>5. ASSUME NEW c \in Clients, UploadTmp(c) PROVE SeenInv'
  <2> USE <1>5 DEF UploadTmp, Upload
  <2>1. step[c] \notin Resting
    BY DEF Resting
  <2>2. Seen(c)' /\ (configSet' # NoConfig \/ configSet' = configSet)
    BY NoSetAssumption DEF SeenInv, Seen, ConfigSets
  <2> QED BY <2>1, <2>2, OthersSee DEF SeenInv
<1>6. ASSUME NEW c \in Clients, UploadShipped(c) PROVE SeenInv'
  <2> USE <1>6 DEF UploadShipped, Upload
  <2>1. step[c] \notin Resting
    BY DEF Resting
  <2>2. Seen(c)' /\ (configSet' # NoConfig \/ configSet' = configSet)
    BY <1>shipped DEF SeenInv, Seen
  <2> QED BY <2>1, <2>2, OthersSee DEF SeenInv
<1>7. ASSUME NEW c \in Clients, DeleteTmp(c) PROVE SeenInv'
  <2> USE <1>7 DEF DeleteTmp
  <2>1. step[c] \notin Resting
    BY DEF Resting
  <2>2. Seen(c)'
    BY DEF SeenInv, Seen
  <2> QED BY <2>1, <2>2, OthersSee DEF SeenInv
<1>8. ASSUME NEW c \in Clients, Kill(c) PROVE SeenInv'
  BY <1>8 DEF Kill, SeenInv, Seen
<1>9. CASE Edit
  BY <1>9, NoSetAssumption DEF Edit, SeenInv, Seen, Resting, clients, ConfigSets
<1>10. CASE UNCHANGED vars
  BY <1>10 DEF vars, clients, SeenInv, Seen
<1> QED
  BY <1>1, <1>2, <1>3, <1>4, <1>5, <1>6, <1>7, <1>8, <1>9, <1>10
     DEF Next, Step, Finished

LEMMA InitInv == Init => Inv
  BY InitTypeOK DEF Inv, Init, TurnInv, SeenInv, Seen, Resting

LEMMA NextInv == ASSUME ~Parallel, ~CheckMayFail PROVE Inv /\ [Next]_vars => Inv'
  BY NextTypeOK, NextKnown, NextTurnInv, NextSeenInv DEF Inv

-----------------------------------------------------------------------------
(* The promise.                                                            *)
LEMMA NextPromise ==
  ASSUME ~CheckMayFail, Inv, [Next]_vars PROVE [Promise!Next]_configSet
<1> USE DEF Inv, TypeOK
<1>1. ASSUME NEW c \in Clients, UploadTmp(c) PROVE [Promise!Upload(c)]_configSet
  <2>1. tmp[c] # NoDir =>
            configSet # NoConfig /\ c \in HasContent
            /\ tmp[c] = [configSet EXCEPT !.solrconfig = c]
    BY <1>1 DEF UploadTmp, SeenInv, Seen
  <2> QED BY <1>1, <2>1 DEF UploadTmp, Upload, Promise!Upload
<1>2. ASSUME NEW c \in Clients, UploadShipped(c)
      PROVE  [Promise!Upload(c)]_configSet
  BY <1>2 DEF UploadShipped, Upload, SeenInv, Seen, Promise!Upload,
              Promise!Shipped, Shipped
<1>3. CASE Edit
  BY <1>3 DEF Edit, Promise!Edit, Promise!Next
<1>4. ASSUME NEW c \in Clients,
             \/ Launch(c) \/ CheckConfig(c) \/ Download(c) \/ WriteContent(c)
             \/ DeleteTmp(c) \/ Kill(c)
      PROVE  UNCHANGED configSet
  BY <1>4 DEF Launch, CheckConfig, Download, WriteContent, DeleteTmp, Kill
<1>5. CASE UNCHANGED vars
  BY <1>5 DEF vars
<1> QED
  BY <1>1, <1>2, <1>3, <1>4, <1>5 DEF Next, Step, Finished, Promise!Next

(* ConfigSetUpload implements ConfigSet: when clients take turns and the   *)
(* check answers, a run of the commands, failures and kills included, is   *)
(* an atomic upload that keeps the set that is there.                      *)
THEOREM KeepsPromise ==
  ASSUME ~Parallel, ~CheckMayFail PROVE Spec => ImplementsPromise
<1>1. Init => Promise!Init
  BY DEF Init, Promise!Init
<1>2. Inv /\ [Next]_vars => [Promise!Next]_configSet
  BY NextPromise
<1> QED
  BY InitInv, NextInv, <1>1, <1>2, PTL DEF Spec, ImplementsPromise, Promise!Spec

(* Under the same conditions a set that an administrator changed stays     *)
(* changed.                                                                *)
THEOREM EditKept ==
  ASSUME ~Parallel, ~CheckMayFail PROVE Spec => EditedSetIsKept
<1>1. Inv /\ [Next]_vars =>
        [configSet # NoConfig /\ configSet.files = "edited"
            => configSet' # NoConfig /\ configSet'.files = "edited"]_configSet
  <2> SUFFICES ASSUME Inv, [Next]_vars, configSet # NoConfig,
                      configSet.files = "edited"
               PROVE  configSet' # NoConfig /\ configSet'.files = "edited"
    OBVIOUS
  <2>1. configSet \in ConfigSets
    BY DEF Inv, TypeOK
  <2>2. TypeOK'
    BY NextTypeOK DEF Inv
  <2>3. [Promise!Next]_configSet
    BY NextPromise
  <2>4. CASE UNCHANGED configSet
    BY <2>4
  <2>5. CASE Promise!Edit
    BY <2>1, <2>5, NoSetAssumption DEF Promise!Edit, ConfigSets
  <2>6. ASSUME NEW c \in Clients, Promise!Upload(c)
        PROVE  configSet' # NoConfig /\ configSet'.files = "edited"
    BY <2>1, <2>6, NoSetAssumption DEF Promise!Upload, ConfigSets
  <2> QED BY <2>3, <2>4, <2>5, <2>6 DEF Promise!Next
<1> QED BY InitInv, NextInv, <1>1, PTL DEF Spec, EditedSetIsKept
=============================================================================
