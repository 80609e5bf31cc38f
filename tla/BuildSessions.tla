--------------------------- MODULE BuildSessions ---------------------------
(***************************************************************************)
(* What the Bazel Output Service promises its build clients about output   *)
(* bases and builds, without saying how it keeps track of them.            *)
(*                                                                         *)
(* An output base is present once a build was started in it, until it is   *)
(* cleaned.  At most one build runs in it.  StageArtifacts() and           *)
(* BatchStat() calls are accepted for exactly the builds in "running".     *)
(* Starting a build has its effect before the client is told whether it    *)
(* succeeded: being told that it failed takes nothing back.                *)
(***************************************************************************)
CONSTANTS OutputBase, BuildID, NULL

VARIABLES present,  \* the output bases that have an output path
          session,  \* the build that runs in every output base, or NULL
          running,  \* the builds on whose behalf calls are accepted
          failed    \* the builds of which clients are told that they failed

vars == <<present, session, running, failed>>

Init ==
    /\ present = {}
    /\ session = [ob \in OutputBase |-> NULL]
    /\ running = {}
    /\ failed = {}

(* A client starts a build that is not running yet.  If a previous build   *)
(* in this output base was never finalized, it is displaced.               *)
Start(ob, b) ==
    /\ b \notin running
    /\ present' = present \union {ob}
    /\ session' = [session EXCEPT ![ob] = b]
    /\ running' = (running \ {session[ob]}) \union {b}
    /\ UNCHANGED failed

(* Starting a build has failed, and the client is told.                    *)
Fail(b) ==
    /\ failed' = failed \union {b}
    /\ UNCHANGED <<present, session, running>>

(* The client has been told.  It may now start the build again.            *)
Told(b) ==
    /\ failed' = failed \ {b}
    /\ UNCHANGED <<present, session, running>>

(* A client finalizes the build that runs in the output base.              *)
Finish(ob) ==
    /\ session[ob] \in running
    /\ session' = [session EXCEPT ![ob] = NULL]
    /\ running' = running \ {session[ob]}
    /\ UNCHANGED <<present, failed>>

(* A client cleans an output base, which ends any build running in it.     *)
Clean(ob) ==
    /\ ob \in present
    /\ present' = present \ {ob}
    /\ session' = [session EXCEPT ![ob] = NULL]
    /\ running' = running \ {session[ob]}
    /\ UNCHANGED failed

Next ==
    \/ \E b \in BuildID : Fail(b) \/ Told(b)
    \/ \E ob \in OutputBase :
          \/ \E b \in BuildID : Start(ob, b)
          \/ Finish(ob)
          \/ Clean(ob)

Spec == Init /\ [][Next]_vars
=============================================================================
