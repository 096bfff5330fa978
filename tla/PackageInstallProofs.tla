------------------------- MODULE PackageInstallProofs -------------------------
(***************************************************************************)
(* Theorems of PackageInstall, for every set of versions, of commands and  *)
(* of repositories and every number of runs.                               *)
(***************************************************************************)
EXTENDS PackageInstall, WellFoundedInduction, TLAPS

(* The first of the packages that match exists, as soon as one matches.    *)
LEMMA FirstMatch ==
    ASSUME NEW package, Matches(package) # {}
    PROVE  \E i \in Matches(package) : \A j \in Matches(package) : i <= j
<1>1. Len(Available) \in Nat
  BY AvailableAssumption
<1>2. Matches(package) \subseteq Nat
  BY <1>1 DEF Matches
<1>3. PICK i \in Matches(package) :
          \A j \in Matches(package) : <<j, i>> \notin OpToRel(<, Nat)
  BY <1>2, NatLessThanWellFounded, WFMin
<1>4. \A j \in Matches(package) : i <= j
  <2>1. TAKE j \in Matches(package)
  <2>2. <<j, i>> \in Nat \X Nat /\ i \in Nat /\ j \in Nat
    BY <1>2
  <2>3. ~(j < i)
    BY <1>3, <2>2 DEF OpToRel
  <2>4. QED
    BY <2>2, <2>3
<1>5. QED
  BY <1>4

LEMMA SeqElement ==
    ASSUME NEW S, NEW s \in Seq(S), NEW i \in 1..Len(s)
    PROVE  s[i] \in S
  OBVIOUS

(* The repositories give a version without a wildcard, if any.             *)
LEMMA AvailableVersionType ==
    ASSUME NEW package
    PROVE  AvailableVersion(package) \in (Versions \ Wild) \union {None}
<1>1. CASE Matches(package) = {}
  BY <1>1 DEF AvailableVersion
<1>2. CASE Matches(package) # {}
  <2> DEFINE first == CHOOSE i \in Matches(package) :
                          \A j \in Matches(package) : i <= j
  <2>1. first \in Matches(package)
    BY <1>2, FirstMatch
  <2>2. first \in 1..Len(Available)
    BY <2>1 DEF Matches
  <2>3. Available[first] \in [package : Packages, version : Versions \ Wild]
    BY <2>2, AvailableAssumption, SeqElement
  <2>4. AvailableVersion(package) = Available[first].version
    BY <1>2 DEF AvailableVersion
  <2>5. QED
    BY <2>3, <2>4
<1>3. QED
  BY <1>1, <1>2

(* No version given is wild; what the process has cached is what every     *)
(* package whose version is asked from the host was given.                 *)
CacheInv ==
    /\ NoWildVersion
    /\ cached \notin Wild
    /\ selectorVersion \notin Wild
    /\ \A p \in formatted : p[3] = "stack" => p[2] = cached /\ cached # None

(* The packages before the next one are installed, when they are wanted.   *)
InstalledAt(i) ==
    Wanted(command.list[i]) =>
        \E v \in Optional : <<command.list[i].package, v>> \in installed

LoopInv ==
    /\ step = "begin" => next = 1
    /\ step = "loop" => \A i \in 1..(next - 1) : InstalledAt(i)
    /\ AllInstalled

LEMMA CommandTypes ==
    ASSUME TypeOK
    PROVE  /\ command \in CommandType
           /\ Len(command.list) \in Nat
           /\ \A i \in 1..Len(command.list) : command.list[i] \in Entry
           /\ ServerVersion(command) \in Optional
           /\ KnownVersion(command) \in Optional
<1>1. command \in CommandType
  BY CommandsAssumption DEF TypeOK
<1>2. command.list \in Seq(Entry)
  BY <1>1 DEF CommandType
<1>3. ServerVersion(command) \in Optional /\ command.effective \in Optional
  BY <1>1 DEF CommandType, ServerVersion, FirstGiven
<1>4. KnownVersion(command) \in Optional
  BY <1>3 DEF KnownVersion
<1>5. QED
  BY <1>1, <1>2, <1>3, <1>4

(* The version given to a package, when there is one, is never wild; the   *)
(* version of the host, once cached, is what the next package gets.        *)
LEMMA PackageVersionType ==
    ASSUME TypeOK, CacheInv, NEW package
    PROVE  /\ PackageVersion(command, package) \in (Versions \ Wild) \union {None}
           /\ StackVersion \in (Versions \ Wild) \union {None}
           /\ cached # None => StackVersion = cached
<1>1. KnownVersion(command) \in Optional
  BY CommandTypes
<1>2. StackVersion \in (Versions \ Wild) \union {None}
  BY VersionAssumption
  DEF TypeOK, CacheInv, StackVersion, FirstGiven, Vague, Optional
<1>3. cached # None => StackVersion = cached
  BY DEF CacheInv, StackVersion, FirstGiven, Vague
<1>4. PackageVersion(command, package) \in (Versions \ Wild) \union {None}
  BY <1>1, <1>2, AvailableVersionType DEF PackageVersion, Vague, Optional
<1>5. QED
  BY <1>2, <1>3, <1>4

LEMMA TypeInit == Init => TypeOK
<1> SUFFICES ASSUME Init
             PROVE  TypeOK
  OBVIOUS
<1>1. Len(command.list) \in Nat
  BY CommandsAssumption DEF Init, CommandType
<1>2. next \in 1..(Len(command.list) + 1)
  BY <1>1 DEF Init
<1>3. runs \in 0..MaxRuns
  BY RunsAssumption DEF Init
<1>4. QED
  BY <1>2, <1>3 DEF Init, TypeOK, Optional

(* A package installed, or not.                                            *)
LEMMA PackageTypes ==
    ASSUME TypeOK, NEW package \in Packages, NEW v \in Optional,
           step = "loop", next <= Len(command.list), Package(package, v)
    PROVE  /\ step' \in {"loop", "failed"}
           /\ next' \in Nat
           /\ installed' \subseteq Packages \X Optional
           /\ selected' \in Optional /\ selectorVersion' \in Optional
           /\ UNCHANGED command => next' \in 1..(Len(command'.list) + 1)
  BY CommandTypes DEF Package, Brought, TypeOK, Optional, host

LEMMA TypeStep == TypeOK /\ CacheInv /\ [Next]_vars => TypeOK'
<1> SUFFICES ASSUME TypeOK, CacheInv, [Next]_vars
             PROVE  TypeOK'
  OBVIOUS
<1>0. Len(command.list) \in Nat
  BY CommandTypes
<1>1. CASE Launch
  <2>1. next' \in 1..(Len(command'.list) + 1) /\ runs' \in 0..MaxRuns
    BY <1>0, <1>1, RunsAssumption DEF Launch, TypeOK
  <2>2. QED
    BY <1>1, <2>1 DEF Launch, TypeOK, Optional, host
<1>2. CASE Begin \/ AllDone \/ MalformedEntry \/ UnknownCondition \/ NoVersionFound \/ Kill
  BY <1>2 DEF Begin, AllDone, MalformedEntry, UnknownCondition, NoVersionFound,
              Kill, TypeOK, host
<1>3. CASE SkipEntry
  <2>1. next' \in 1..(Len(command'.list) + 1)
    BY <1>0, <1>3 DEF SkipEntry, More, TypeOK
  <2>2. QED
    BY <1>3, <2>1 DEF SkipEntry, TypeOK, host
<1>4. CASE InstallPlain
  <2>1. Current \in Entry /\ step = "loop" /\ next <= Len(command.list)
    BY <1>4, CommandTypes DEF InstallPlain, Chosen, More, Current, TypeOK
  <2>2. Current.package \in Packages /\ None \in Optional
    BY <2>1 DEF Entry, Optional
  <2>3. Package(Current.package, None)
    BY <1>4 DEF InstallPlain
  <2>4. QED
    BY <1>4, <2>1, <2>2, <2>3, PackageTypes DEF InstallPlain, TypeOK
<1>5. CASE InstallVersioned
  <2> DEFINE v == PackageVersion(command, Current.package)
  <2>1. Current \in Entry /\ step = "loop" /\ next <= Len(command.list)
    BY <1>5, CommandTypes DEF InstallVersioned, Chosen, More, Current, TypeOK
  <2>2. Current.package \in Packages
    BY <2>1 DEF Entry
  <2>3. v \in Versions /\ v \in Optional
    BY <1>5, PackageVersionType DEF InstallVersioned, Optional
  <2>4. Source(command) \in {"repositories", "stack", "command"}
    BY DEF Source
  <2>5. cached' \in Optional
    BY <1>5, <2>3 DEF InstallVersioned, TypeOK
  <2>6. formatted' \subseteq Packages \X Versions \X {"repositories", "stack", "command"}
    BY <1>5, <2>2, <2>3, <2>4 DEF InstallVersioned, TypeOK
  <2>7. Package(Current.package, v)
    BY <1>5 DEF InstallVersioned
  <2>8. QED
    BY <1>5, <2>1, <2>2, <2>3, <2>5, <2>6, <2>7, PackageTypes
    DEF InstallVersioned, TypeOK
<1>6. CASE Finished \/ UNCHANGED vars
  BY <1>6 DEF Finished, vars, process, host, TypeOK
<1>7. QED
  BY <1>1, <1>2, <1>3, <1>4, <1>5, <1>6 DEF Next

LEMMA CacheStep == TypeOK /\ CacheInv /\ [Next]_vars => CacheInv'
<1> SUFFICES ASSUME TypeOK, CacheInv, [Next]_vars
             PROVE  CacheInv'
  OBVIOUS
<1>1. CASE Launch
  BY <1>1, VersionAssumption DEF Launch, CacheInv, NoWildVersion, host
<1>2. CASE Begin \/ AllDone \/ MalformedEntry \/ SkipEntry \/ UnknownCondition
           \/ NoVersionFound \/ Kill \/ Finished \/ UNCHANGED vars
  BY <1>2 DEF Begin, AllDone, MalformedEntry, SkipEntry, UnknownCondition,
              NoVersionFound, Kill, Finished, vars, process, host, CacheInv, NoWildVersion
<1>3. CASE InstallPlain
  BY <1>3, VersionAssumption
  DEF InstallPlain, Package, Brought, CacheInv, NoWildVersion, host
<1>4. CASE InstallVersioned
  <2> DEFINE v == PackageVersion(command, Current.package)
  <2>1. v \in Versions \ Wild /\ v # None
    BY <1>4, PackageVersionType DEF InstallVersioned
  <2>2. selectorVersion' \notin Wild
    BY <1>4, <2>1 DEF InstallVersioned, Package, Brought, CacheInv, host
  <2>3. CASE Source(command) = "stack"
    <3>1. v = StackVersion
      BY <2>3 DEF Source, PackageVersion
    <3>2. cached' = v /\ (cached # None => v = cached)
      BY <1>4, <2>3, <3>1, PackageVersionType DEF InstallVersioned
    <3>3. formatted' = formatted \union {<<Current.package, v, "stack">>}
      BY <1>4, <2>3 DEF InstallVersioned
    <3>4. QED
      BY <2>1, <2>2, <3>2, <3>3 DEF CacheInv, NoWildVersion
  <2>4. CASE Source(command) # "stack"
    BY <1>4, <2>1, <2>2, <2>4 DEF InstallVersioned, CacheInv, NoWildVersion
  <2>5. QED
    BY <2>3, <2>4
<1>5. QED
  BY <1>1, <1>2, <1>3, <1>4 DEF Next

LEMMA CacheInit == Init => CacheInv
  BY VersionAssumption DEF Init, CacheInv, NoWildVersion

-----------------------------------------------------------------------------
(* A step of the loop that is done with the current entry.                 *)
LEMMA NextEntry ==
    ASSUME TypeOK, LoopInv, step = "loop", step' = "loop", UNCHANGED command,
           next <= Len(command.list), next' = next + 1,
           installed \subseteq installed',
           \A i \in Nat : i = next => InstalledAt(i)'
    PROVE  LoopInv'
<1>1. ASSUME NEW i \in 1..(next' - 1)
      PROVE  InstalledAt(i)'
  <2>1. i \in Nat /\ (i \in 1..(next - 1) \/ i = next)
    BY CommandTypes DEF TypeOK
  <2>2. CASE i \in 1..(next - 1)
    BY <2>2 DEF LoopInv, InstalledAt
  <2>3. CASE i = next
    BY <2>1, <2>3
  <2>4. QED
    BY <2>1, <2>2, <2>3
<1>2. AllInstalled'
  BY DEF AllInstalled
<1>3. QED
  BY <1>1, <1>2 DEF LoopInv

LEMMA LoopStep == TypeOK /\ CacheInv /\ LoopInv /\ [Next]_vars => LoopInv'
<1> SUFFICES ASSUME TypeOK, CacheInv, LoopInv, [Next]_vars
             PROVE  LoopInv'
  OBVIOUS
<1>1. CASE Launch \/ UnknownCondition \/ NoVersionFound \/ Kill
  BY <1>1 DEF Launch, UnknownCondition, NoVersionFound, Kill, LoopInv, AllInstalled
<1>2. CASE Begin
  BY <1>2 DEF Begin, LoopInv, AllInstalled
<1>3. CASE AllDone
  <2>1. \A i \in 1..Len(command.list) : InstalledAt(i)
    BY <1>3, CommandTypes DEF AllDone, LoopInv, TypeOK
  <2>2. QED
    BY <1>3, <2>1 DEF AllDone, LoopInv, AllInstalled, InstalledAt, host
<1>4. CASE MalformedEntry
  <2>1. next \in 1..Len(command.list) /\ ~command.list[next].wellFormed
    BY <1>4, CommandTypes DEF MalformedEntry, More, Current, TypeOK
  <2>2. QED
    BY <1>4, <2>1 DEF MalformedEntry, LoopInv, AllInstalled
<1>5. CASE SkipEntry
  <2>1. ~Wanted(command.list[next])
    BY <1>5 DEF SkipEntry, Current, Wanted
  <2>2. \A i \in Nat : i = next => InstalledAt(i)'
    BY <1>5, <2>1 DEF SkipEntry, InstalledAt, Wanted
  <2>3. QED
    BY <1>5, <2>2, NextEntry DEF SkipEntry, More, host
<1>6. ASSUME NEW v \in Optional, Chosen, Package(Current.package, v), UNCHANGED command
      PROVE  LoopInv'
  <2>1. CASE step' = "failed"
    BY <2>1 DEF LoopInv, AllInstalled
  <2>2. CASE /\ installed' = installed \union {<<Current.package, v>>}
             /\ next' = next + 1
             /\ UNCHANGED step
    <3>1. \A i \in Nat : i = next => InstalledAt(i)'
      BY <1>6, <2>2 DEF InstalledAt, Current
    <3>2. QED
      BY <1>6, <2>2, <3>1, NextEntry DEF Chosen, More
  <2>3. QED
    BY <1>6, <2>1, <2>2 DEF Package
<1>7. CASE InstallPlain
  BY <1>6, <1>7 DEF InstallPlain, Optional
<1>8. CASE InstallVersioned
  <2>1. PackageVersion(command, Current.package) \in Optional
    BY PackageVersionType DEF Optional
  <2>2. QED
    BY <1>6, <1>8, <2>1 DEF InstallVersioned
<1>9. CASE Finished \/ UNCHANGED vars
  BY <1>9 DEF Finished, vars, process, host, LoopInv, AllInstalled, InstalledAt
<1>10. QED
  BY <1>1, <1>2, <1>3, <1>4, <1>5, <1>7, <1>8, <1>9 DEF Next

LEMMA LoopInit == Init => LoopInv
  BY DEF Init, LoopInv, AllInstalled

(* A version of the server that is not matched with the repositories is the*)
(* one of every package.                                                   *)
LEMMA UnmatchedStep == TypeOK /\ UnmatchedVersionIsTruth /\ [Next]_vars => UnmatchedVersionIsTruth'
<1> SUFFICES ASSUME TypeOK, UnmatchedVersionIsTruth, [Next]_vars
             PROVE  UnmatchedVersionIsTruth'
  OBVIOUS
<1>1. UNCHANGED command
  BY DEF Next, Launch, Begin, AllDone, MalformedEntry, SkipEntry, UnknownCondition,
         InstallPlain, NoVersionFound, InstallVersioned, Kill, Finished, vars, process
<1>2. CASE InstallVersioned
  <2>1. ASSUME ~Vague(ServerVersion(command)), ~MatchesRepositories(command)
        PROVE  PackageVersion(command, Current.package) = ServerVersion(command)
    BY <2>1 DEF PackageVersion, KnownVersion
  <2>2. formatted' = formatted \union
            {<<Current.package, PackageVersion(command, Current.package), Source(command)>>}
    BY <1>2 DEF InstallVersioned
  <2>3. /\ ServerVersion(command)' = ServerVersion(command)
        /\ Vague(ServerVersion(command))' <=> Vague(ServerVersion(command))
        /\ MatchesRepositories(command)' <=> MatchesRepositories(command)
    BY <1>1 DEF ServerVersion, FirstGiven, Vague, MatchesRepositories
  <2>4. QED
    BY <2>1, <2>2, <2>3 DEF UnmatchedVersionIsTruth
<1>3. CASE ~InstallVersioned
  <2>1. formatted' \in {formatted, {}}
    BY <1>3 DEF Next, Launch, Begin, AllDone, MalformedEntry, SkipEntry,
         UnknownCondition, InstallPlain, NoVersionFound, Kill, Finished, vars, process
  <2>2. QED
    BY <1>1, <2>1 DEF UnmatchedVersionIsTruth, ServerVersion, FirstGiven,
       Vague, MatchesRepositories
<1>4. QED
  BY <1>2, <1>3

LEMMA UnmatchedInit == Init => UnmatchedVersionIsTruth
  BY DEF Init, UnmatchedVersionIsTruth

-----------------------------------------------------------------------------
LEMMA CacheInvariant == Spec => [](TypeOK /\ CacheInv)
  BY TypeInit, TypeStep, CacheInit, CacheStep, PTL DEF Spec

(* The variables have their types; in particular a package never gets a    *)
(* version that was not found (script.py:541-575).                         *)
THEOREM TypeCorrect == Spec => []TypeOK
  BY CacheInvariant, PTL

(* An install that succeeds has installed every wanted package of its list,*)
(* of any length (script.py:795-823).                                      *)
THEOREM EveryPackageInstalled == Spec => []AllInstalled
<1>1. LoopInv => AllInstalled
  BY DEF LoopInv
<1>2. QED
  BY CacheInvariant, LoopInit, LoopStep, <1>1, PTL DEF Spec

(* All packages whose version is asked from the host get one version       *)
(* (script.py:464-494).                                                    *)
THEOREM HostVersionIsOne == Spec => []OneStackVersion
<1>1. CacheInv => OneStackVersion
  BY DEF CacheInv, OneStackVersion
<1>2. QED
  BY CacheInvariant, <1>1, PTL

(* No package is asked for with a wild version, whatever the command, the  *)
(* cluster and the host come with (script.py:568).                         *)
THEOREM VersionNeverWild == Spec => []NoWildVersion
<1>1. CacheInv => NoWildVersion
  BY DEF CacheInv
<1>2. QED
  BY CacheInvariant, <1>1, PTL

(* A version the server passes is used as it was passed, unless the name   *)
(* of the package is matched with the repositories (script.py:529-566).    *)
THEOREM PassedVersionUsed == Spec => []UnmatchedVersionIsTruth
  BY CacheInvariant, UnmatchedInit, UnmatchedStep, PTL DEF Spec

(* "use that as an absolute truth" (script.py:516-517) holds of the        *)
(* commands that leave the repositories out of it: of those that pass no   *)
(* version, or one with its build number, wherever there are repository    *)
(* files.                                                                  *)
THEOREM TruthOfUnmatched ==
  ASSUME \A c \in Commands : MatchesRepositories(c) => Vague(ServerVersion(c))
  PROVE  Spec => []ServerVersionIsTruth
<1>1. TypeOK /\ UnmatchedVersionIsTruth => ServerVersionIsTruth
  BY DEF TypeOK, UnmatchedVersionIsTruth, ServerVersionIsTruth
<1>2. QED
  BY CacheInvariant, PassedVersionUsed, <1>1, PTL

-----------------------------------------------------------------------------
(* What is installed.                                                      *)

LEMMA WantedStep == TypeOK /\ OnlyWanted /\ [Next]_vars => OnlyWanted'
<1> SUFFICES ASSUME TypeOK, OnlyWanted, [Next]_vars
             PROVE  OnlyWanted'
  OBVIOUS
<1>1. UNCHANGED command
  BY DEF Next, Launch, Begin, AllDone, MalformedEntry, SkipEntry, UnknownCondition,
         InstallPlain, NoVersionFound, InstallVersioned, Kill, Finished, vars, process
<1>2. ASSUME NEW v, Chosen, Package(Current.package, v), Current.versioned <=> v # None
      PROVE  OnlyWanted'
  <2>1. next \in 1..Len(command.list)
    BY <1>2, CommandTypes DEF Chosen, More, TypeOK
  <2>2. Asked(Current.package, v)
    BY <1>2, <2>1 DEF Asked, Chosen, Current
  <2>3. installed' \subseteq installed \union {<<Current.package, v>>}
    BY <1>2 DEF Package, host
  <2>4. \A p \in installed' : Asked(p[1], p[2])
    BY <2>2, <2>3 DEF OnlyWanted
  <2>5. QED
    BY <1>1, <2>4 DEF OnlyWanted, Asked, Wanted
<1>3. CASE InstallPlain
  BY <1>2, <1>3 DEF InstallPlain
<1>4. CASE InstallVersioned
  BY <1>2, <1>4 DEF InstallVersioned
<1>5. CASE UNCHANGED installed
  BY <1>1, <1>5 DEF OnlyWanted, Asked, Wanted
<1>6. QED
  BY <1>3, <1>4, <1>5
  DEF Next, Launch, Begin, AllDone, MalformedEntry, SkipEntry, UnknownCondition,
      NoVersionFound, Kill, Finished, vars, host

(* Nothing is installed but what an entry of the list wants on this host,  *)
(* by any number of attempts (script.py:809-821).                          *)
THEOREM NothingUnwanted == Spec => []OnlyWanted
<1>1. Init => OnlyWanted
  BY DEF Init, OnlyWanted
<1>2. QED
  BY <1>1, CacheInvariant, WantedStep, PTL DEF Spec
=============================================================================
