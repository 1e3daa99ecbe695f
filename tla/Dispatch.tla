------------------------------ MODULE Dispatch ------------------------------
(***************************************************************************)
(* The CLI driver, apohara-dispatch/src/cli_driver.rs: dispatches queue for*)
(* the lock of their binary, spawn the child in a process group of its own,*)
(* stream its output through a bounded channel under a hard timeout, and   *)
(* return when the child and both pipe readers are through.                *)
(*                                                                         *)
(* A child may leave a descendant behind, in its group or out of it, that  *)
(* keeps its pipes open.  Lines are numbered in the order written; what a  *)
(* line says, the spawn environment and the prompt are left out, and so is *)
(* the capacity of the pipes.                                              *)
(***************************************************************************)
EXTENDS Naturals, Sequences

CONSTANTS Requests,   \* the dispatches
          Binaries,   \* the binary basenames
          binary_key, \* binary_key[r]: the binary that r dispatches
          MaxLines,   \* bound on the lines each child and its descendant write
          Capacity    \* of the on_line channel (1024)

ASSUME DispatchAssumption ==
    /\ binary_key \in [Requests -> Binaries]
    /\ MaxLines \in [Requests -> Nat] /\ Capacity \in Nat \ {0}

VARIABLES
    stage,    \* where each dispatch is
    queue,    \* BINARY_LOCKS: who waits for a binary, its holder first
    child,    \* the child process: not spawned, alive, killed, dead
    exit_ok,  \* its exit status was 0
    kin,      \* a descendant of it
    wrote,    \* lines written to stdout
    garbled,  \* the line that is not UTF-8, 0 for none
    full,     \* lines in the copy that stdout_reader keeps
    reader,   \* the reader tasks that still run
    channel,  \* lines on their way to on_line
    dropped,  \* lines dropped because the channel was full
    on_line,  \* lines on_line was called with
    outcome   \* what the dispatch returned

vars == <<stage, queue, child, exit_ok, kin, wrote, garbled, full, reader,
          channel, dropped, on_line, outcome>>

-----------------------------------------------------------------------------
Pipes == {"stdout", "stderr"}
NoKin == [alive |-> FALSE, in_group |-> FALSE, keeps |-> {}]

Process == <<child, exit_ok, kin, wrote, garbled>>
Output  == <<full, reader, channel, dropped, on_line>>

holder(b) == IF queue[b] = <<>> THEN {} ELSE {Head(queue[b])}

(* The child's end of a pipe is closed when no process has it any more. *)
IsOpen(r, pipe) == child[r] \in {"alive", "killed"} \/ (kin[r].alive /\ pipe \in kin[r].keeps)

Init ==
    /\ stage = [r \in Requests |-> "new"]
    /\ queue = [b \in Binaries |-> <<>>]
    /\ child = [r \in Requests |-> "none"]
    /\ exit_ok = [r \in Requests |-> FALSE]
    /\ kin = [r \in Requests |-> NoKin]
    /\ wrote = [r \in Requests |-> 0] /\ garbled = [r \in Requests |-> 0]
    /\ full = [r \in Requests |-> 0]
    /\ reader = [r \in Requests |-> {}]
    /\ channel = [r \in Requests |-> <<>>]
    /\ dropped = [r \in Requests |-> {}]
    /\ on_line = [r \in Requests |-> <<>>]
    /\ outcome = [r \in Requests |-> "none"]

(* dispatch_streaming_serialized waits for the lock of its binary, first   *)
(* come first served, and keeps it until it returns.                       *)
Enqueue(r) ==
    /\ stage[r] = "new"
    /\ stage' = [stage EXCEPT ![r] = "queued"]
    /\ queue' = [queue EXCEPT ![binary_key[r]] = Append(@, r)]
    /\ UNCHANGED outcome /\ UNCHANGED Process /\ UNCHANGED Output

Returns(r, result) ==
    /\ stage' = [stage EXCEPT ![r] = "done"]
    /\ queue' = [queue EXCEPT ![binary_key[r]] = Tail(@)]
    /\ outcome' = [outcome EXCEPT ![r] = result]

Spawn(r) ==
    /\ stage[r] = "queued" /\ r \in holder(binary_key[r])
    /\ stage' = [stage EXCEPT ![r] = "stream"]
    /\ child' = [child EXCEPT ![r] = "alive"]
    /\ reader' = [reader EXCEPT ![r] = Pipes]
    /\ UNCHANGED <<queue, outcome, exit_ok, kin, wrote, garbled>>
    /\ UNCHANGED <<full, channel, dropped, on_line>>

SpawnFails(r) ==
    /\ stage[r] = "queued" /\ r \in holder(binary_key[r])
    /\ Returns(r, "error")
    /\ UNCHANGED Process /\ UNCHANGED Output

-----------------------------------------------------------------------------
(* The child: it writes, also a line that is not UTF-8, forks and exits.   *)
(* Its descendant writes as long as it has the pipe, and may live on.      *)
Writes(r) ==
    /\ \/ child[r] = "alive"
       \/ kin[r].alive /\ "stdout" \in kin[r].keeps
    /\ "stdout" \in reader[r] /\ wrote[r] < MaxLines[r]
    /\ wrote' = [wrote EXCEPT ![r] = @ + 1]
    /\ garbled' \in {garbled} \cup
        (IF garbled[r] = 0 THEN {[garbled EXCEPT ![r] = wrote[r] + 1]} ELSE {})
    /\ UNCHANGED <<stage, queue, outcome, child, exit_ok, kin>> /\ UNCHANGED Output

Forks(r) ==
    /\ child[r] = "alive" /\ kin[r] = NoKin
    /\ \E in_group \in BOOLEAN, keeps \in SUBSET Pipes :
        kin' = [kin EXCEPT ![r] = [alive |-> TRUE, in_group |-> in_group, keeps |-> keeps]]
    /\ UNCHANGED <<stage, queue, outcome, child, exit_ok, wrote, garbled>> /\ UNCHANGED Output

Exits(r) ==
    /\ child[r] = "alive"
    /\ child' = [child EXCEPT ![r] = "dead"]
    /\ \E ok \in BOOLEAN : exit_ok' = [exit_ok EXCEPT ![r] = ok]
    /\ UNCHANGED <<stage, queue, outcome, kin, wrote, garbled>> /\ UNCHANGED Output

KinExits(r) ==
    /\ kin[r].alive
    /\ kin' = [kin EXCEPT ![r].alive = FALSE]
    /\ UNCHANGED <<stage, queue, outcome, child, exit_ok, wrote, garbled>> /\ UNCHANGED Output

KillLands(r) ==
    /\ child[r] = "killed"
    /\ child' = [child EXCEPT ![r] = "dead"]
    /\ UNCHANGED <<stage, queue, outcome, exit_ok, kin, wrote, garbled>> /\ UNCHANGED Output

-----------------------------------------------------------------------------
(* stdout_reader: a line goes into the copy, and into the channel if there *)
(* is room; it ends at the end of the pipe, or at a line it cannot decode. *)
(* Faulty form: the channel has no bound.                                  *)
ReadLine_unbounded(r) ==
    /\ "stdout" \in reader[r] /\ full[r] < wrote[r]
    /\ IF full[r] + 1 = garbled[r]
       THEN reader' = [reader EXCEPT ![r] = @ \ {"stdout"}] /\ UNCHANGED <<full, channel, dropped>>
       ELSE /\ full' = [full EXCEPT ![r] = @ + 1]
            /\ channel' = [channel EXCEPT ![r] = Append(@, full[r] + 1)]
            /\ UNCHANGED <<reader, dropped>>
    /\ UNCHANGED <<stage, queue, outcome, on_line>> /\ UNCHANGED Process

ReadLine(r) ==
    /\ "stdout" \in reader[r] /\ full[r] < wrote[r]
    /\ IF full[r] + 1 = garbled[r]
       THEN reader' = [reader EXCEPT ![r] = @ \ {"stdout"}] /\ UNCHANGED <<full, channel, dropped>>
       ELSE /\ full' = [full EXCEPT ![r] = @ + 1]
            /\ IF Len(channel[r]) < Capacity
               THEN /\ channel' = [channel EXCEPT ![r] = Append(@, full[r] + 1)]
                    /\ UNCHANGED dropped
               ELSE /\ dropped' = [dropped EXCEPT ![r] = @ \cup {full[r] + 1}]
                    /\ UNCHANGED channel
            /\ UNCHANGED reader
    /\ UNCHANGED <<stage, queue, outcome, on_line>> /\ UNCHANGED Process

ReaderEnds(r, pipe) ==
    /\ pipe \in reader[r] /\ ~IsOpen(r, pipe)
    /\ pipe = "stdout" => full[r] = wrote[r]
    /\ reader' = [reader EXCEPT ![r] = @ \ {pipe}]
    /\ UNCHANGED <<stage, queue, outcome, full, channel, dropped, on_line>> /\ UNCHANGED Process

(* Under the timeout: lines are forwarded until the reader has ended and   *)
(* the channel is empty, then the child is waited for.                     *)
Forward(r) ==
    /\ stage[r] = "stream" /\ channel[r] # <<>>
    /\ on_line' = [on_line EXCEPT ![r] = Append(@, Head(channel[r]))]
    /\ channel' = [channel EXCEPT ![r] = Tail(@)]
    /\ UNCHANGED <<stage, queue, outcome, full, reader, dropped>> /\ UNCHANGED Process

(* Faulty form: the exit of the child ends the forwarding.                 *)
WaitEnds_on_exit(r) ==
    /\ stage[r] = "stream" /\ child[r] = "dead"
    /\ stage' = [stage EXCEPT ![r] = "drain"]
    /\ UNCHANGED <<queue, outcome>> /\ UNCHANGED Process /\ UNCHANGED Output

WaitEnds(r) ==
    /\ stage[r] = "stream"
    /\ "stdout" \notin reader[r] /\ channel[r] = <<>> /\ child[r] = "dead"
    /\ stage' = [stage EXCEPT ![r] = "drain"]
    /\ UNCHANGED <<queue, outcome>> /\ UNCHANGED Process /\ UNCHANGED Output

(* The child cannot be waited for: the readers are aborted.                *)
WaitFails(r) ==
    /\ stage[r] = "stream"
    /\ "stdout" \notin reader[r] /\ channel[r] = <<>> /\ child[r] = "dead"
    /\ Returns(r, "error")
    /\ reader' = [reader EXCEPT ![r] = {}]
    /\ UNCHANGED <<full, channel, dropped, on_line>> /\ UNCHANGED Process

(* The timeout kills the group, whether or not the child is still there,   *)
(* and the child.                                                          *)
(* Faulty form: only the child.                                            *)
TimesOut_child_only(r) ==
    /\ stage[r] = "stream"
    /\ stage' = [stage EXCEPT ![r] = "kill"]
    /\ child' = [child EXCEPT ![r] = IF @ = "alive" THEN "killed" ELSE @]
    /\ UNCHANGED <<queue, outcome, exit_ok, kin, wrote, garbled>> /\ UNCHANGED Output

TimesOut(r) ==
    /\ stage[r] = "stream"
    /\ stage' = [stage EXCEPT ![r] = "kill"]
    /\ child' = [child EXCEPT ![r] = IF @ = "alive" THEN "killed" ELSE @]
    /\ kin' = [kin EXCEPT ![r].alive = @ /\ ~kin[r].in_group]
    /\ UNCHANGED <<queue, outcome, exit_ok, wrote, garbled>> /\ UNCHANGED Output

(* Both readers are awaited, outside of the timeout; after a timeout the   *)
(* child is reaped first.                                                  *)
Completes(r) ==
    /\ stage[r] = "drain" /\ reader[r] = {}
    /\ Returns(r, IF exit_ok[r] THEN "success" ELSE "failure")
    /\ UNCHANGED Process /\ UNCHANGED Output

(* Faulty form: the child is killed but not waited for.                    *)
GivesUp_unreaped(r) ==
    /\ stage[r] = "kill"
    /\ Returns(r, "timeout")
    /\ UNCHANGED Process /\ UNCHANGED Output

GivesUp(r) ==
    /\ stage[r] = "kill" /\ child[r] = "dead" /\ reader[r] = {}
    /\ Returns(r, "timeout")
    /\ UNCHANGED Process /\ UNCHANGED Output

Driver(r) ==
    \/ Spawn(r) \/ SpawnFails(r)
    \/ Forward(r) \/ WaitEnds(r) \/ WaitFails(r) \/ TimesOut(r)
    \/ Completes(r) \/ GivesUp(r)
Reads(r) == ReadLine(r) \/ \E pipe \in Pipes : ReaderEnds(r, pipe)
World(r) == Writes(r) \/ Forks(r) \/ Exits(r) \/ KinExits(r)

Next == \E r \in Requests :
    \/ Enqueue(r) \/ Driver(r) \/ Reads(r) \/ KillLands(r) \/ World(r)

Spec == Init /\ [][Next]_vars

(* The runtime polls its tasks, time passes, and a SIGKILL is delivered.   *)
(* Nothing obliges a child or its descendants to end.                      *)
Fairness == \A r \in Requests :
    /\ WF_vars(Spawn(r)) /\ WF_vars(Reads(r)) /\ WF_vars(KillLands(r))
    /\ WF_vars(Forward(r)) /\ WF_vars(WaitEnds(r)) /\ WF_vars(TimesOut(r))
    /\ WF_vars(Completes(r)) /\ WF_vars(GivesUp(r))

FairSpec == Spec /\ Fairness

-----------------------------------------------------------------------------
(* Properties. *)

Stages   == {"new", "queued", "stream", "drain", "kill", "done"}
Outcomes == {"none", "success", "failure", "timeout", "error"}

TypeOK ==
    /\ stage \in [Requests -> Stages] /\ outcome \in [Requests -> Outcomes]
    /\ queue \in [Binaries -> Seq(Requests)]
    /\ child \in [Requests -> {"none", "alive", "killed", "dead"}]
    /\ exit_ok \in [Requests -> BOOLEAN]
    /\ kin \in [Requests -> [alive : BOOLEAN, in_group : BOOLEAN, keeps : SUBSET Pipes]]
    /\ reader \in [Requests -> SUBSET Pipes]
    /\ \A r \in Requests :
        /\ wrote[r] \in 0 .. MaxLines[r] /\ garbled[r] \in 0 .. wrote[r]
        /\ channel[r] \in Seq(1 .. full[r]) /\ on_line[r] \in Seq(1 .. full[r])
        /\ full[r] \in 0 .. wrote[r] /\ dropped[r] \subseteq 1 .. full[r]
        /\ Len(channel[r]) <= Capacity

(* BINARY_LOCKS: two children of one binary never run at the same time,    *)
(* not even while one that timed out is still being killed.                *)
OnePerBinary ==
    \A r, q \in Requests :
        /\ r # q /\ binary_key[r] = binary_key[q]
        /\ child[r] \in {"alive", "killed"}
        => child[q] \notin {"alive", "killed"}

(* What on_line is told (token usage, the terminal error of a blade that   *)
(* exits with 0) is the output, in order and complete, when a dispatch     *)
(* succeeds; but for lines dropped on a full channel, and for what comes   *)
(* after a line that is not UTF-8.                                         *)
StreamIsOutput ==
    \A r \in Requests : outcome[r] = "success" =>
        /\ garbled[r] = 0 => full[r] = wrote[r]
        /\ dropped[r] = {} => on_line[r] = [i \in 1 .. full[r] |-> i]

(* A dispatch that waits for a binary gets it and returns, so that one hung*)
(* CLI does not wedge the queue, unless a descendant keeps a pipe open: of *)
(* a child that has exited, or, after the timeout, out of its group.       *)
Wedged ==
    \E q \in Requests :
        /\ kin[q].alive
        /\ \/ stage[q] = "drain" /\ "stderr" \in kin[q].keeps
           \/ stage[q] = "kill" /\ ~kin[q].in_group /\ kin[q].keeps # {}

DispatchReturns == \A r \in Requests : stage[r] = "queued" ~> stage[r] = "done" \/ Wedged
=============================================================================
