---------------------------- MODULE PackageInstall ----------------------------
(***************************************************************************)
(* install_packages of the Script class (ambari/resources/script.py): the  *)
(* default install command goes through the list of packages the server    *)
(* sent, gives each package the version it should have and installs it.    *)
(* One process runs it; an install that fails may be run again, by a new   *)
(* process, on what the first one left on the host.                        *)
(*                                                                         *)
(* A version is a value that may be wild ("2.6.*") and may have a build    *)
(* number ("2.6.4.0-91").  The Windows branches are left out.              *)
(***************************************************************************)
EXTENDS Naturals, Sequences

CONSTANTS
    Versions,
    None,       \* Python's None
    Wild,       \* the versions with a '*'
    Built,      \* the versions with a '-', followed by a build number
    Packages,   \* names of packages, without their version
    Commands,   \* the install commands the server may send
    Available,  \* packages of the repositories, in the order they are listed
    MaxRuns     \* bound: how many times the command is run

Conditions == {"none", "true", "false", "unknown"}

Entry == [package : Packages, versioned : BOOLEAN, condition : Conditions,
          wellFormed : BOOLEAN]

Optional == Versions \union {None}

\* The command's JSON: host_sys_prepped, package_list, whether every key
\* install_packages reads of hostLevelParams is there, and the versions
\* format_package_name looks at; whether there is a repositoryFile.
CommandType ==
    [prepped : BOOLEAN, list : Seq(Entry), allKeys : BOOLEAN,
     repoVersion : Optional, roleVersion : Optional, hostVersion : Optional,
     repositoryFile : BOOLEAN, effective : Optional, isInstall : BOOLEAN]

ASSUME VersionAssumption ==
    None \notin Versions /\ Wild \subseteq Versions /\ Built \subseteq Versions
\* repoVersion is a key of repositoryFile.
ASSUME CommandsAssumption ==
    /\ Commands \subseteq CommandType
    /\ \A c \in Commands : c.repoVersion # None => c.repositoryFile
ASSUME AvailableAssumption ==
    Available \in Seq([package : Packages, version : Versions \ Wild])

ASSUME RunsAssumption == MaxRuns \in Nat

VARIABLES
    command,         \* the command being run
    step,            \* "idle", "begin", "loop", "done", "failed"
    next,            \* index of the next package of the list
    cached,          \* Script.stack_version_from_distro_select
    formatted,       \* versions this process gave to the packages, and how
    installed,       \* packages on the host, with their version
    selected,        \* what the stack-select tool says of the component
    selectorVersion, \* version of the stack-select package itself
    runs

process == <<command, step, next, cached, formatted, runs>>
host == <<installed, selected, selectorVersion>>
vars == <<process, host>>

-----------------------------------------------------------------------------
(* format_package_name.                                                    *)

FirstGiven(v, other) == IF v # None THEN v ELSE other

ServerVersion(c) ==
    FirstGiven(c.repoVersion, FirstGiven(c.roleVersion, c.hostVersion))

\* Without a build number the name is matched with those of the repositories.
MatchesRepositories(c) ==
    c.repositoryFile /\ ServerVersion(c) \notin Built

\* get_package_from_available: the first package of that name.
Matches(package) == {i \in 1..Len(Available) : Available[i].package = package}

AvailableVersion(package) ==
    IF Matches(package) = {} THEN None
    ELSE LET first == CHOOSE i \in Matches(package) :
                          \A j \in Matches(package) : i <= j
         IN Available[first].version

Vague(v) == v = None \/ v \in Wild

\* The version of the server, or the cluster's effective version.
KnownVersion(c) ==
    IF Vague(ServerVersion(c)) /\ c.effective # None /\ c.isInstall
    THEN c.effective ELSE ServerVersion(c)

\* get_stack_version_before_packages_installed, called when that is vague.
\* Variants: the version found first is not kept; a wild one is.
StackVersionUncached == IF Vague(selected) THEN selectorVersion ELSE selected
StackVersionWild == FirstGiven(FirstGiven(cached, selected), selectorVersion)

StackVersion ==
    LET v == FirstGiven(cached, selected)
    IN IF Vague(v) THEN selectorVersion ELSE v

\* Variant: the effective version comes before the server's.
PackageVersionEffective(c, package) ==
    IF c.effective # None THEN c.effective ELSE StackVersion

PackageVersion(c, package) ==
    CASE MatchesRepositories(c) -> AvailableVersion(package)
      [] ~MatchesRepositories(c) /\ Vague(KnownVersion(c)) -> StackVersion
      [] OTHER -> KnownVersion(c)

\* Where the version comes from, None when the name has no placeholder.
Source(c) ==
    CASE MatchesRepositories(c) -> "repositories"
      [] ~MatchesRepositories(c) /\ Vague(KnownVersion(c)) -> "stack"
      [] OTHER -> "command"

-----------------------------------------------------------------------------
Init ==
    /\ command \in Commands
    /\ step = "idle"
    /\ next = 1
    /\ cached = None
    /\ formatted = {}
    /\ installed = {}
    /\ selected \in Optional
    /\ selectorVersion \in (Versions \ Wild) \union {None}
    /\ runs = 0

(* A new process: nothing is cached.                                       *)
Launch ==
    /\ step \in {"idle", "failed"}
    /\ runs < MaxRuns
    /\ runs' = runs + 1
    /\ step' = "begin"
    /\ next' = 1
    /\ cached' = None
    /\ formatted' = {}
    /\ UNCHANGED <<command, host>>

(* A sys-prepped host installs nothing; a KeyError is swallowed.           *)
Begin ==
    /\ step = "begin"
    /\ step' = IF command.prepped \/ ~command.allKeys THEN "done" ELSE "loop"
    /\ UNCHANGED <<command, next, cached, formatted, runs, host>>

Current == command.list[next]

More == step = "loop" /\ next <= Len(command.list)

AllDone ==
    /\ step = "loop"
    /\ next > Len(command.list)
    /\ step' = "done"
    /\ UNCHANGED <<command, next, cached, formatted, runs, host>>

(* An entry without its keys: the KeyError ends the loop, not the command. *)
MalformedEntry ==
    /\ More
    /\ ~Current.wellFormed
    /\ step' = "done"
    /\ UNCHANGED <<command, next, cached, formatted, runs, host>>

(* The condition of the entry does not hold, or is not a known one.        *)
SkipEntry ==
    /\ More
    /\ Current.wellFormed
    /\ Current.condition = "false"
    /\ next' = next + 1
    /\ UNCHANGED <<command, step, cached, formatted, runs, host>>

UnknownCondition ==
    /\ More
    /\ Current.wellFormed
    /\ Current.condition = "unknown"
    /\ step' = "failed"
    /\ UNCHANGED <<command, next, cached, formatted, runs, host>>

Wanted(entry) == entry.condition \in {"none", "true"}

\* Variant: a condition that does not hold is not looked at.
ChosenAnyway == More /\ Current.wellFormed /\ Current.condition # "unknown"

Chosen == More /\ Current.wellFormed /\ Wanted(Current)

\* Variant: a package that cannot be installed is passed over.
PackagePassedOver(package, v) ==
    /\ next' = next + 1
    /\ UNCHANGED <<step, host>>

\* The versions a package may bring: its own, any one if its name has none.
Brought(v) == IF v = None THEN Versions \ Wild ELSE {v}

(* The package manager installs a package that the repositories have, or   *)
(* has already; it fails after its retries.  The scripts of a package may  *)
(* make stack-select point to the version installed, and stack-select      *)
(* itself may be among its dependencies.                                   *)
Package(package, v) ==
    \/ /\ installed' = installed \union {<<package, v>>}
       /\ selected' \in {selected} \union Brought(v)
       /\ selectorVersion' \in {selectorVersion} \union Brought(v)
       /\ next' = next + 1
       /\ UNCHANGED step
    \/ step' = "failed" /\ UNCHANGED <<next, host>>

InstallPlain ==
    /\ Chosen
    /\ ~Current.versioned
    /\ Package(Current.package, None)
    /\ UNCHANGED <<command, cached, formatted, runs>>

(* No version: Fail when no package matches (or the list of the            *)
(* repositories could not be loaded), AttributeError when there is none.   *)
NoVersionFound ==
    /\ Chosen
    /\ Current.versioned
    /\ \/ PackageVersion(command, Current.package) = None
       \/ Source(command) = "repositories"
    /\ step' = "failed"
    /\ UNCHANGED <<command, next, cached, formatted, runs, host>>

\* Variant: a version that was not found is not an error.
InstallVersionedUnchecked ==
    /\ Chosen
    /\ Current.versioned
    /\ LET v == PackageVersion(command, Current.package) IN
       /\ cached' = IF Source(command) = "stack" THEN v ELSE cached
       /\ formatted' = formatted \union {<<Current.package, v, Source(command)>>}
       /\ Package(Current.package, v)
    /\ UNCHANGED <<command, runs>>

InstallVersioned ==
    /\ Chosen
    /\ Current.versioned
    /\ LET v == PackageVersion(command, Current.package) IN
       /\ v # None
       /\ cached' = IF Source(command) = "stack" THEN v ELSE cached
       /\ formatted' = formatted \union {<<Current.package, v, Source(command)>>}
       /\ Package(Current.package, v)
    /\ UNCHANGED <<command, runs>>

Kill ==
    /\ step \in {"begin", "loop"}
    /\ step' = "failed"
    /\ UNCHANGED <<command, next, cached, formatted, runs, host>>

Finished ==
    /\ step = "done" \/ (step = "failed" /\ runs = MaxRuns)
    /\ UNCHANGED vars

Next ==
    \/ Launch \/ Begin \/ AllDone
    \/ MalformedEntry \/ SkipEntry \/ UnknownCondition
    \/ InstallPlain \/ NoVersionFound \/ InstallVersioned
    \/ Kill \/ Finished

Spec == Init /\ [][Next]_vars

-----------------------------------------------------------------------------
TypeOK ==
    /\ command \in Commands
    /\ step \in {"idle", "begin", "loop", "done", "failed"}
    /\ next \in 1..(Len(command.list) + 1)
    /\ cached \in Optional
    /\ formatted \subseteq Packages \X Versions \X {"repositories", "stack", "command"}
    /\ installed \subseteq Packages \X Optional
    /\ selected \in Optional
    /\ selectorVersion \in Optional
    /\ runs \in 0..MaxRuns

(* An install that succeeds has installed every package of the list whose  *)
(* condition holds, whatever earlier attempts left, unless the host is     *)
(* prepared or a key is missing (script.py:795-823).                       *)
AllInstalled ==
    ( /\ step = "done" /\ ~command.prepped /\ command.allKeys
      /\ \A i \in 1..Len(command.list) : command.list[i].wellFormed )
    => \A i \in 1..Len(command.list) :
           Wanted(command.list[i]) =>
               \E v \in Optional : <<command.list[i].package, v>> \in installed

(* The packages whose version is asked from the host get the same one,     *)
(* although installing the first of them may change what stack-select says *)
(* of the host (script.py:464-494).                                        *)
OneStackVersion ==
    \A p, q \in formatted :
        p[3] = "stack" /\ q[3] = "stack" => p[2] = q[2]

(* No package is asked for with a wild version, whatever versions the      *)
(* server, the cluster and stack-select come with ("Wildcards cause a lot  *)
(* of troubles with installing packages", script.py:568).                  *)
NoWildVersion ==
    \A p \in formatted : p[2] \notin Wild

(* "If the package version is passed from the server, use that as an       *)
(* absolute truth" (script.py:516-517): whenever the server passes a       *)
(* version without a wildcard, it is the one of every package.             *)
ServerVersionIsTruth ==
    \A p \in formatted :
        ~Vague(ServerVersion(command)) => p[2] = ServerVersion(command)

(* The same wherever the name is not matched with the repositories, that   *)
(* is of a version with its build number and of any version on a cluster   *)
(* without repository files: neither the cluster's effective version nor   *)
(* what stack-select says comes before it (script.py:529-566).             *)
UnmatchedVersionIsTruth ==
    ~Vague(ServerVersion(command)) /\ ~MatchesRepositories(command)
        => \A p \in formatted : p[2] = ServerVersion(command)

\* An entry of the list asks for the package with, or without, a version.
Asked(package, v) ==
    \E i \in 1..Len(command.list) :
        /\ package = command.list[i].package
        /\ Wanted(command.list[i])
        /\ command.list[i].versioned <=> v # None

(* No attempt, and no entry before one that fails, installs a package the  *)
(* list does not want on this host, or one without the version its entry   *)
(* asks for (script.py:809-821, 834-840).                                  *)
OnlyWanted == \A p \in installed : Asked(p[1], p[2])
=============================================================================
