--------------------------- MODULE MCAgentCommand ---------------------------
(***************************************************************************)
(* Instances of AgentCommand for TLC: the commands the agent is sent, as   *)
(* variations of a plain command of a daemon.                              *)
(***************************************************************************)
EXTENDS AgentCommand

CONSTANTS v1, v2

Plain ==
    [name |-> "start", hook |-> FALSE, client |-> FALSE, hasStatus |-> TRUE,
     skipCheck |-> FALSE, upgrade |-> FALSE, rolling |-> TRUE,
     requestVersion |-> FALSE, selectable |-> TRUE, resolved |-> FALSE,
     target |-> v2, repoId |-> TRUE]

InstallCommand == [Plain EXCEPT !.name = "install"]
InstallHook == [InstallCommand EXCEPT !.hook = TRUE]
ResolvedInstall == [InstallCommand EXCEPT !.resolved = TRUE]
StatusCommand == [Plain EXCEPT !.name = "status", !.requestVersion = TRUE]
QuietStatus == [StatusCommand EXCEPT !.requestVersion = FALSE, !.repoId = FALSE]
CustomCommand == [Plain EXCEPT !.name = "custom"]
CustomHook == [CustomCommand EXCEPT !.hook = TRUE]
StopCommand == [Plain EXCEPT !.name = "stop"]
RestartCommand == [Plain EXCEPT !.name = "restart", !.repoId = FALSE]
UpgradeRestart ==
    [Plain EXCEPT !.name = "restart", !.upgrade = TRUE, !.resolved = TRUE]
UpgradeHook == [UpgradeRestart EXCEPT !.hook = TRUE]
ClientUpgrade == [UpgradeRestart EXCEPT !.client = TRUE, !.repoId = FALSE]
ClientRestart == [ClientUpgrade EXCEPT !.upgrade = FALSE]
RangerRestart == [RestartCommand EXCEPT !.skipCheck = TRUE]
NoStatusStop == [StopCommand EXCEPT !.hasStatus = FALSE]
NoStatusStatus == [QuietStatus EXCEPT !.hasStatus = FALSE]

MCVersions == {v1, v2}

\* What concerns the structured output.
ReportCommands ==
    {InstallCommand, InstallHook, ResolvedInstall, StatusCommand,
     CustomCommand, CustomHook, UpgradeRestart, UpgradeHook, ClientUpgrade}

\* What concerns the daemon.
DaemonCommands ==
    {Plain, StopCommand, NoStatusStop, RestartCommand, RangerRestart,
     UpgradeRestart, ClientRestart, QuietStatus, NoStatusStatus}

AllCommands == ReportCommands \union DaemonCommands
=============================================================================
