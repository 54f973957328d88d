---------------------------- MODULE JobLifecycle ----------------------------
(***************************************************************************)
(* What a download job promises its readers, with no thread, queue, lock   *)
(* or device in sight: a job is created queued at version 1, advances      *)
(* along one legal edge of the graph at a time, gains one version per      *)
(* edge, and announces one outcome, at the version of its last step, in    *)
(* the very step that ends it.  The user's intent may change while it is   *)
(* running.                                                                *)
(***************************************************************************)
EXTENDS JobAggregate

CONSTANT Jobs

VARIABLES state,     \* the job's published state
          revision,  \* its state_version
          intent,    \* the desired run state
          outcome    \* the announced outcome, or none

lifecycleVars == <<state, revision, intent, outcome>>

Unannounced == [outcome |-> "none", version |-> 0]

LifecycleInit ==
    /\ \E jobs \in SUBSET Jobs :
          /\ state = [j \in Jobs |-> IF j \in jobs THEN "queued" ELSE "absent"]
          /\ revision = [j \in Jobs |-> IF j \in jobs THEN 1 ELSE 0]
    /\ intent = [j \in Jobs |-> "run"]
    /\ outcome = [j \in Jobs |-> Unannounced]

Create(j) ==
    /\ state[j] = "absent"
    /\ state' = [state EXCEPT ![j] = "queued"]
    /\ revision' = [revision EXCEPT ![j] = 1]
    /\ UNCHANGED <<intent, outcome>>

Advance(j, to) ==
    /\ revision' = [revision EXCEPT ![j] = @ + 1]
    /\ is_legal_transition(state[j], to)
    /\ state' = [state EXCEPT ![j] = to]
    /\ outcome' = [outcome EXCEPT ![j] =
           IF to \in Terminal THEN [outcome |-> to, version |-> revision[j] + 1] ELSE @]
    /\ UNCHANGED intent

ChangeIntent(j, d) ==
    /\ state[j] \notin Terminal \cup {"absent"}
    /\ intent' = [intent EXCEPT ![j] = d]
    /\ UNCHANGED <<state, revision, outcome>>

LifecycleNext ==
    \E j \in Jobs : \/ Create(j)
                    \/ \E d \in RunIntents : ChangeIntent(j, d)
                    \/ \E to \in States : Advance(j, to)

LifecycleSpec == LifecycleInit /\ [][LifecycleNext]_lifecycleVars

=============================================================================
