----------------------------- MODULE TfProcess -----------------------------
(***************************************************************************)
(* TfWrapper and the Terraform processes it starts, one for each command.  *)
(* Both ends share two pipes of bounded size. The wrapper reads stdout to  *)
(* its end and only then looks at stderr; Terraform writes to either in    *)
(* whatever order its providers fail and make progress, and stops where a  *)
(* pipe is full.                                                           *)
(*                                                                         *)
(* Lines are counted, not told apart: a pipe keeps their order.            *)
(***************************************************************************)
EXTENDS Naturals

CONSTANTS
    OutCapacity, ErrCapacity,   \* how many lines a pipe holds
    MaxOut, MaxErr              \* bound: lines of one process

ASSUME ConstantsAssumption ==
    /\ {OutCapacity, ErrCapacity} \subseteq Nat \ {0}
    /\ {MaxOut, MaxErr} \subseteq Nat

\* What a caller makes a wrapper for: a section of setup, one of destroy or of
\* workload delete, the check of the installed version.
Goals == {"apply", "destroy", "version"}

\* The commands it gives that wrapper, in their order.
First(g) == IF g = "version" THEN "version" ELSE "init"
After(g, c) == IF c = "init" THEN g ELSE IF c = "apply" THEN "output" ELSE "none"
Commands == {"init", "apply", "output", "destroy", "version"}
Tracked == {"apply", "destroy"}

VARIABLES
    goal, command,      \* the caller's aim, and the command it is at
    at,                 \* the wrapper's place
    child,              \* the process: what it is about to do
    code,               \* its return code
    out, err,           \* lines in the pipes
    wroteOut, wroteErr, \* lines it has written
    stdout, stderr,     \* lines the wrapper has of it
    saved               \* lines in saved_output, which no command empties

wrapper == <<goal, command, at, stdout, stderr, saved>>
process == <<child, code, wroteOut, wroteErr>>
pipes == <<out, err>>
vars == <<wrapper, process, pipes>>

Reading == {"list", "plan", "monitor"}
Places == Reading \cup {"ready", "communicate", "answered", "raised"}

TypeOK ==
    /\ goal \in Goals /\ command \in Commands \cup {"none"}
    /\ at \in Places
    /\ child \in {"none", "working", "out", "err", "exited"}
    /\ code \in {0, 1}
    /\ out \in 0..OutCapacity /\ err \in 0..ErrCapacity
    /\ {wroteOut, wroteErr, stdout, stderr, saved} \subseteq Nat

Init ==
    /\ goal \in Goals /\ command = First(goal) /\ at = "ready"
    /\ child = "none" /\ code = 0
    /\ out = 0 /\ err = 0
    /\ wroteOut = 0 /\ wroteErr = 0 /\ stdout = 0 /\ stderr = 0 /\ saved = 0

-----------------------------------------------------------------------------
(* Terraform *)

\* The next thing it does. Once it has begun to write it cannot turn back.
Turn(to) ==
    /\ child = "working"
    /\ to = "out" => wroteOut < MaxOut
    /\ to = "err" => wroteErr < MaxErr
    /\ child' = to
    /\ code' \in IF to = "exited" THEN {0, 1} ELSE {code}
    /\ UNCHANGED <<wroteOut, wroteErr, wrapper, pipes>>

WriteOut ==
    /\ child = "out" /\ out < OutCapacity
    /\ out' = out + 1 /\ wroteOut' = wroteOut + 1
    /\ child' = "working"
    /\ UNCHANGED <<code, wroteErr, err, wrapper>>

WriteErr ==
    /\ child = "err" /\ err < ErrCapacity
    /\ err' = err + 1 /\ wroteErr' = wroteErr + 1
    /\ child' = "working"
    /\ UNCHANGED <<code, wroteOut, out, wrapper>>

Terraform == (\E to \in {"out", "err", "exited"} : Turn(to)) \/ WriteOut \/ WriteErr

-----------------------------------------------------------------------------
(* The wrapper *)

\* Slip: asks for stderr and the return code first.
ReaderOfStderr(c) == "communicate"

\* Where run_terraform_command goes once the process is started.
Reader(c) == IF c \in Tracked THEN "plan" ELSE "list"

Execute ==
    /\ at = "ready" /\ command # "none"
    /\ at' = Reader(command)
    /\ stdout' = IF command \in Tracked THEN saved ELSE 0
    /\ stderr' = 0
    /\ child' = "working" /\ code' = 0 /\ out' = 0 /\ err' = 0 /\ wroteOut' = 0 /\ wroteErr' = 0
    /\ UNCHANGED <<goal, command, saved>>

\* readline: the progress manager keeps what it reads, and on the line that
\* announces operations goes over from looking for the plan to the progress bar.
ReadLine ==
    /\ at \in Reading /\ out > 0
    /\ out' = out - 1 /\ stdout' = stdout + 1
    /\ saved' = IF at = "list" THEN saved ELSE saved + 1
    /\ at' \in IF at = "plan" THEN {"plan", "monitor"} ELSE {at}
    /\ UNCHANGED <<goal, command, stderr, process, err>>

\* Slip: takes an empty pipe for its end.
StdoutEndedTooSoon == out = 0

\* readline answers "" only when the pipe is empty and nobody can write to it.
StdoutEnded == out = 0 /\ child = "exited"

EndOfStdout ==
    /\ at \in Reading /\ StdoutEnded
    /\ at' = "communicate"
    /\ UNCHANGED <<goal, command, stdout, stderr, saved, process, pipes>>

Communicate ==
    /\ at = "communicate" /\ err > 0
    /\ err' = err - 1 /\ stderr' = stderr + 1
    /\ UNCHANGED <<goal, command, at, stdout, saved, process, out>>

GetResult ==
    /\ at = "communicate" /\ err = 0 /\ child = "exited"
    /\ at' = "answered"
    /\ UNCHANGED <<goal, command, stdout, stderr, saved, process, pipes>>

\* The command method: any return code but 0 raises, which ends the caller.
Return ==
    /\ at = "answered"
    /\ \/ code = 0 /\ at' = "ready" /\ command' = After(goal, command) /\ UNCHANGED goal
       \/ code # 0 /\ at' = "raised" /\ UNCHANGED <<goal, command>>
    /\ UNCHANGED <<stdout, stderr, saved, process, pipes>>

TfWrapper == Execute \/ ReadLine \/ EndOfStdout \/ Communicate \/ GetResult \/ Return

Next == Terraform \/ TfWrapper

Spec == Init /\ [][Next]_vars

\* Both processes are scheduled.
FairSpec == Spec /\ WF_vars(Terraform) /\ WF_vars(TfWrapper)

-----------------------------------------------------------------------------
(* Properties *)

\* Terraform waits for room in stderr, the wrapper for a line of stdout.
Jammed == child = "err" /\ err = ErrCapacity /\ at \in Reading /\ out = 0

\* Neither process can take a step, although a command is going on.
Stuck ==
    /\ at # "raised" /\ ~(at = "ready" /\ command = "none")
    /\ \/ child \in {"none", "exited"}
       \/ child = "out" /\ out = OutCapacity
       \/ child = "err" /\ err = ErrCapacity
    /\ ~(at \in {"ready", "answered"})
    /\ at \in Reading => out = 0 /\ child # "exited"
    /\ at = "communicate" => err = 0 /\ child # "exited"

\* The one way in which reading the pipes one after the other can stop both
\* sides is a full stderr under an empty stdout: all the other orders of lines,
\* and a stdout that is full, resolve. In particular a Terraform whose errors
\* fit the pipe always comes to its end.
OnlyStderrJams == Stuck => Jammed

\* What a caller gets is everything its own command wrote, and nothing of a
\* command before it, although the progress manager never empties saved_output;
\* and init, apply and output have all succeeded when the caller goes on.
AnswersWhole ==
    /\ at = "answered" => stdout = wroteOut /\ stderr = wroteErr
    /\ at = "ready" => code = 0

\* Every command comes to its end, with a result or an exception, except in the
\* jam above.
Answered == at \notin {"ready", "raised"} ~> (at \in {"ready", "raised"} \/ Jammed)

\* Every command comes to its end.
AlwaysAnswered == at \notin {"ready", "raised"} ~> at \in {"ready", "raised"}

=============================================================================
