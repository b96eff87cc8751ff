---------------------------- MODULE FlowProcess ----------------------------
(***************************************************************************)
(* The child processes of arc-flow (process.rs).  One child at a time, the *)
(* leader of a session of its own, is watched by a polling loop that ends  *)
(* on its exit, on the flag a signal handler sets, or on a timeout, and    *)
(* that then terminates the process group.  capture() also waits for the   *)
(* end of the child's output, which every process it started holds open.   *)
(* Whatever the leader started is one process here, the descendant.        *)
(***************************************************************************)
EXTENDS Naturals

VARIABLES
    cancelled,  \* CANCELLED
    child       \* the command being run

Stage == {"none", "watched", "term", "join", "ended"}

ChildState ==
    [stage : Stage, alive : SUBSET {"leader", "descendant"}, ok : BOOLEAN,
     result : {"none", "exited", "cancelled", "timed_out", "error"},
     pipes : BOOLEAN, observes : BOOLEAN]

NoChild == [stage |-> "none", alive |-> {}, ok |-> FALSE, result |-> "none",
            pipes |-> FALSE, observes |-> TRUE]

ProcessType == cancelled \in BOOLEAN /\ child \in ChildState

ProcessInit == cancelled = FALSE /\ child = NoChild

Running == child.stage \in {"watched", "term", "join"}
Ended == child.stage = "ended"
Succeeded == Ended /\ child.result = "exited" /\ child.ok

(* Err(...) of capture, as opposed to a status *)
Failed == Ended /\ child.result # "exited"

(* SIGINT or SIGTERM *)
Signal == ~cancelled /\ cancelled' = TRUE /\ UNCHANGED child

(* command.spawn(): pipes, whether its output is read to the end; observes, *)
(* whether the loop looks at the flag.  It may fail.                        *)
Spawn(pipes, observes) ==
    /\ child = NoChild
    /\ \/ \E group \in {{"leader"}, {"leader", "descendant"}} :
            child' = [NoChild EXCEPT !.stage = "watched", !.alive = group,
                                     !.pipes = pipes, !.observes = observes]
       \/ child' = [NoChild EXCEPT !.stage = "ended", !.result = "error"]
    /\ UNCHANGED cancelled

LeaderExits(ok) ==
    /\ "leader" \in child.alive
    /\ child' = [child EXCEPT !.alive = @ \ {"leader"}, !.ok = ok]
    /\ UNCHANGED cancelled

DescendantExits ==
    /\ "descendant" \in child.alive
    /\ child' = [child EXCEPT !.alive = @ \ {"descendant"}]
    /\ UNCHANGED cancelled

(* try_wait *)
SeeExit ==
    /\ child.stage = "watched" /\ "leader" \notin child.alive
    /\ child' = [child EXCEPT !.stage = "join", !.result = "exited"]
    /\ UNCHANGED cancelled

(* cancelled(), and SIGTERM to the group; the leader may have gone since   *)
(* try_wait.                                                               *)
SeeCancel ==
    /\ child.stage = "watched"
    /\ cancelled /\ child.observes
    /\ child' = [child EXCEPT !.stage = "term", !.result = "cancelled"]
    /\ UNCHANGED cancelled

(* Mutant: the loop does not look at the clock. *)
SeeNoTimeout == FALSE /\ UNCHANGED <<child, cancelled>>

(* started.elapsed() >= timeout, and SIGTERM to the group *)
SeeTimeout ==
    /\ child.stage = "watched"
    /\ child' = [child EXCEPT !.stage = "term", !.result = "timed_out"]
    /\ UNCHANGED cancelled

(* terminate: the leader is gone within the two seconds, *)
TermSeen ==
    /\ child.stage = "term" /\ "leader" \notin child.alive
    /\ child' = [child EXCEPT !.stage = "join"]
    /\ UNCHANGED cancelled

(* or the group gets SIGKILL, which does not reach a descendant that has    *)
(* called setsid itself.                                                    *)
TermKills ==
    /\ child.stage = "term" /\ "leader" \in child.alive
    /\ \E escaped \in SUBSET (child.alive \ {"leader"}) :
          child' = [child EXCEPT !.stage = "join", !.alive = escaped, !.ok = FALSE]
    /\ UNCHANGED cancelled

(* stdout_reader.join(), stderr_reader.join() *)
Join ==
    /\ child.stage = "join"
    /\ child.pipes => child.alive = {}
    /\ child' = [child EXCEPT !.stage = "ended"]
    /\ UNCHANGED cancelled

Watch == SeeExit \/ SeeCancel \/ TermSeen \/ Join
Clock == SeeTimeout \/ TermKills

(* A captured command is over, but something it has started is not, and    *)
(* the readers wait for it, without a timeout.                             *)
Lingering == child.stage = "join" /\ child.pipes /\ child.alive # {}

(* "Doctor、Git 探测和 Docker 生命周期命令都有硬超时"                        *)
(* (codex-audit-pipeline/README.md:318; the test of process.rs:353): a       *)
(* captured command comes to an end.  It does not hold when something it has *)
(* started keeps its output open.                                            *)
HardTimeout == (Running /\ child.pipes) ~> ~Running

(* "超时时终止整个子进程组" (codex-audit-pipeline/README.md:318) and "this   *)
(* also stops spawned test/build processes" (process.rs:273): when terminate *)
(* is over, no process of the group is left.  It does not hold when the      *)
(* leader obeys SIGTERM and something it started does not.                   *)
GroupTerminated ==
    child.stage \in {"join", "ended"} /\ child.result \in {"cancelled", "timed_out"}
        => child.alive = {}

=============================================================================
