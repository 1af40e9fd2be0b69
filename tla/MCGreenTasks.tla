---------------------------- MODULE MCGreenTasks ----------------------------
(* Model values and the calls of each agent for checking GreenTasks.       *)
EXTENDS GreenTasks, TLC

CONSTANTS t1, t2, m, c1, c2

\* Tasks differ in nothing but their names.
TaskNames == Permutations(Tasks)

PerAgent(main, tasks) == [a \in Agents |-> IF a = Main THEN main ELSE tasks]
OneArm == <<c1>>
TwoArms == <<c1, c2>>

\* How many calls the code of Main and of each task makes.
ThreeEach == PerAgent(3, 3)
FourEach == PerAgent(4, 4)
ThreeTwo == PerAgent(3, 2)

\* Everything that makes agents depend on one another; Main closes channels.
AllCalls == PerAgent(CallNames \ {"read", "fail"}, CallNames \ {"close", "timed"})

\* Tasks that poll a select for ever, beside others that read their fd, while
\* Main waits in a nursery, for a task, or on the channel.
SpinCalls == PerAgent({"spawn", "drain", "await", "recv"}, {"select", "read"})

\* The same while Main is itself in a select.
SelectCalls == PerAgent({"spawn", "select"}, {"select", "read"})

\* A nursery in a task beside a task that selects.
DriverCalls == PerAgent({"spawn", "drain"}, {"spawn", "drain", "select", "send"})

\* A child that waits for its parent's channel.
OrphanCalls == PerAgent({"spawn", "drain"}, {"recv"})
=============================================================================
