------------------------------- MODULE MCAccess -------------------------------
(* Inputs and symmetry for Access. *)
EXTENDS Access, TLC

CONSTANTS a1, a2, i1, i2, r1, r2, o1, o2, n1

Level(contents, actions, pulls) ==
    [p \in Permissions |-> CASE p = "contents" -> contents [] p = "actions" -> actions
                             [] p = "pull_requests" -> pulls]

\* An owned installation that may write, another App's that may read, and a suspended one.
SmallInstallations ==
    {[id |-> i1, appID |-> a1, active |-> TRUE, owned |-> TRUE,
      permissions |-> Level("write", "write", "none")],
     [id |-> i2, appID |-> a2, active |-> TRUE, owned |-> FALSE,
      permissions |-> Level("read", "none", "none")],
     [id |-> i2, appID |-> a1, active |-> FALSE, owned |-> TRUE,
      permissions |-> Level("write", "none", "none")]}

\* Two names for one repository, and two repositories that would share a name.
SmallRepositories ==
    {[id |-> r1, installationID |-> i1, owner |-> o1, name |-> n1],
     [id |-> r2, installationID |-> i1, owner |-> o2, name |-> n1],
     [id |-> r2, installationID |-> i2, owner |-> o2, name |-> n1]}

SmallWishes == {Level("write", "none", "none"), Level("read", "none", "read")}

Symmetry == Permutations(Tokens) \cup Permutations(Minters)
=============================================================================
