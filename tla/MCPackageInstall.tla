-------------------------- MODULE MCPackageInstall --------------------------
(***************************************************************************)
(* Instance of PackageInstall for TLC: a version with its build number, a  *)
(* version without one, a wild one, and lists of two to four entries.      *)
(***************************************************************************)
EXTENDS PackageInstall

CONSTANTS built, short, wild, other, p1, p2

MCVersions == {built, short, wild, other}

MCAvailable ==
    <<[package |-> p1, version |-> other], [package |-> p1, version |-> built],
      [package |-> p2, version |-> built]>>

E(package, versioned, condition) ==
    [package |-> package, versioned |-> versioned, condition |-> condition,
     wellFormed |-> TRUE]

Two == <<E(p1, TRUE, "none"), E(p2, TRUE, "true")>>
Mixed == <<E(p1, TRUE, "none"), E(p2, FALSE, "false"), E(p1, FALSE, "none"),
           E(p2, TRUE, "none")>>
Unknown == <<E(p1, TRUE, "none"), E(p2, TRUE, "unknown")>>
Malformed == <<E(p1, TRUE, "none"), [E(p2, TRUE, "none") EXCEPT !.wellFormed = FALSE],
               E(p2, TRUE, "none")>>

Plain ==
    [prepped |-> FALSE, list |-> Two, allKeys |-> TRUE, repoVersion |-> None,
     roleVersion |-> None, hostVersion |-> None, repositoryFile |-> FALSE,
     effective |-> None, isInstall |-> TRUE]

\* The versions a command may bring, that of the repository or that of the
\* role with each effective version, for two packages; and the other lists
\* for a command that brings none or that of the host.
MCCommands ==
    {[Plain EXCEPT !.repoVersion = r, !.repositoryFile = TRUE,
                   !.effective = e, !.isInstall = i] :
        r \in {None, built, short, wild}, e \in {None, other, wild}, i \in BOOLEAN}
    \union
    {[Plain EXCEPT !.roleVersion = l, !.effective = e, !.isInstall = i] :
        l \in MCVersions \union {None}, e \in {None, other, wild}, i \in BOOLEAN}
    \union
    {[Plain EXCEPT !.list = s, !.prepped = p, !.allKeys = k, !.hostVersion = h] :
        s \in {Mixed, Unknown, Malformed}, p \in BOOLEAN, k \in BOOLEAN,
        h \in {None, built}}
=============================================================================
