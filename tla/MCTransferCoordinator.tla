----------------------- MODULE MCTransferCoordinator ------------------------
(***************************************************************************)
(* Small instances of TransferCoordinator for TLC.                         *)
(***************************************************************************)
EXTENDS TransferCoordinator, TLC

OneTarget == [j \in JobIds |-> "dir"]

Everybody == [jobs |-> JobIds, workers |-> Workers,
              commands |-> 0, requests |-> 0, acks |-> 0,
              flips |-> 0, crashes |-> 0, shutdowns |-> 0, faults |-> 0]

\* One job and one worker, any of them.
Singles == {[Everybody EXCEPT !.jobs = {j}, !.workers = {w}] : j \in JobIds, w \in Workers}

\* Two commands, or one and a failed write; a device that changes once, with a failed
\* write and a crash or with a shutdown and a restart; or every job and worker.
CommandsCrashOrCrowd ==
    {[s EXCEPT !.commands = 2] : s \in Singles}
    \cup {[s EXCEPT !.commands = 1, !.faults = 1] : s \in Singles}
    \cup {[s EXCEPT !.flips = 1, !.crashes = 1, !.faults = 1] : s \in Singles}
    \cup {[s EXCEPT !.flips = 1, !.shutdowns = 1, !.crashes = 1] : s \in Singles}
    \cup {Everybody}

\* Two requests for a job that has failed, or for one that is not there yet; or one
\* request, and a crash before it or after it.
Requests ==
    {[s EXCEPT !.requests = 2, !.acks = 1] : s \in Singles}
    \cup {[s EXCEPT !.jobs = {}, !.requests = 2] : s \in Singles}
    \cup {[s EXCEPT !.requests = 1, !.acks = 1, !.crashes = 1] : s \in Singles}

CommandsOrRequests == CommandsCrashOrCrowd \cup Requests

\* One command and a crash.
CommandAndCrash == {[s EXCEPT !.commands = 1, !.crashes = 1] : s \in Singles}

\* Every job and no trouble; or one job and a device that changes twice.
QueueOrDevice == {Everybody, [(CHOOSE s \in Singles : TRUE) EXCEPT !.flips = 2]}

OneCommand == {[s EXCEPT !.commands = 1] : s \in Singles}

\* A device that changes once and a failed write, with nobody issuing a command.
PanicUnstored == {[s EXCEPT !.flips = 1, !.faults = 1] : s \in Singles}

\* Jobs and workers may be exchanged: all jobs write one directory.
Symmetry == Permutations(JobIds) \cup Permutations(Workers)
            \cup Permutations(Requesters)

=============================================================================
