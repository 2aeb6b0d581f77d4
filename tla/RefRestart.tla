------------------------------ MODULE RefRestart ------------------------------
(***************************************************************************)
(* RefEvents for a server that is started again over the data directory of *)
(* its predecessor (Config.DataDir, dtu/server.go).  The bare repository   *)
(* outlives the server, which may end between any two steps of its pushes; *)
(* the world does not, and the control client creates the repository anew  *)
(* (createRepository, dtu/control.go) over what git finds in its place.    *)
(*                                                                         *)
(* The git processes of a server are assumed to have ended when the next   *)
(* one begins to serve.                                                    *)
(***************************************************************************)
EXTENDS RefEvents

CONSTANT MaxRestarts   \* bound on the number of restarts

ASSUME MaxRestartsAssumption == MaxRestarts \in Nat

VARIABLES
    created,    \* world.repositories has the repository
    origin,     \* history: the branches that it had when it was created
    restarts    \* history: how often the server was started again

restartVars == <<created, origin, restarts>>

allVars == <<vars, restartVars>>

-----------------------------------------------------------------------------
(* createRepository *)

\* git init keeps what is there.
createRepository ==
    /\ ~created
    /\ created' = TRUE
    /\ origin' = refs
    /\ UNCHANGED <<vars, restarts>>

\* git config fails, and the directory is removed with all that an earlier server kept in it.
FailCreateRepository ==
    /\ ~created
    /\ refs' = NoRefs
    /\ UNCHANGED <<worldVars, pushVars, historyVars, restartVars>>

-----------------------------------------------------------------------------
(* Start, after the server has ended in whatever state it was *)

\* A push that was in flight is never answered; whatever became of the others, their events
\* are gone.  In both cases the handler is gone, which is what failed stands for here.
EndPushes ==
    /\ pc' = [p \in Pushes |-> IF pc[p] = "idle" THEN "idle" ELSE "failed"]
    /\ receiveLock' = NoPush
    /\ before' = [p \in Pushes |-> NoRefs]
    /\ after' = [p \in Pushes |-> NoRefs]
    /\ todo' = [p \in Pushes |-> {}]
    /\ snapshot' = [p \in Pushes |-> {}]

\* Faulty variant: the pull requests are kept as well.
NewWorldWithPulls ==
    /\ releaseRef' = NoRef
    /\ events' = [f \in Refs |-> <<>>]
    /\ observationErrors' = 0
    /\ creating' = {}
    /\ UNCHANGED pulls

NewWorld ==
    /\ releaseRef' = NoRef
    /\ events' = [f \in Refs |-> <<>>]
    /\ observationErrors' = 0
    /\ creating' = {}
    /\ pulls' = <<>>

Restart ==
    /\ restarts < MaxRestarts
    /\ restarts' = restarts + 1
    /\ created' = FALSE
    /\ origin' = NoRefs
    /\ NewWorld
    /\ EndPushes
    /\ unobserved' = FALSE
    /\ released' = {}
    /\ UNCHANGED <<refs, pushed>>

-----------------------------------------------------------------------------
(* Specification *)

RestartInit ==
    /\ Init
    /\ created = FALSE
    /\ origin = NoRefs
    /\ restarts = 0

RestartNext ==
    \/ created /\ Next /\ UNCHANGED restartVars
    \/ createRepository \/ FailCreateRepository \/ Restart

RestartSpec == RestartInit /\ [][RestartNext]_allVars

-----------------------------------------------------------------------------
(* Properties.  EventsAreAttributed and SnapshotsFollowRefs are those of   *)
(* RefEvents, in every life of the server: a push of an earlier life is    *)
(* told of nothing in this one.                                            *)

\* The push events of a branch chain from where an earlier server left it, whichever of its
\* pushes was cut off where, up to what git has now, but for recorded observation errors.
ChainsBeginOnDisk ==
    created /\ receiveLock = NoPush => \A f \in Refs : Gaps(origin, f) <= observationErrors
=============================================================================
