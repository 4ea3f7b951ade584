------------------------------ MODULE Wrapper -------------------------------
(***************************************************************************)
(* The program wrap (D4/wrapper/src/main.cpp): a parent polls the program  *)
(* it started and interrupts it when it takes too much memory or time.     *)
(* The child, the clock and the parent run at the same time; what the      *)
(* child does of its own is left to the module that extends this one.      *)
(***************************************************************************)
EXTENDS Naturals

VARIABLES
  parent,   \* the point wrap is at; "off" when it is not running
  child,    \* "none", "forked", "running", or how it ended until it is waited for
  code,     \* its exit status
  signal,   \* SIGINT is on its way
  mem,      \* the largest sample was over the limit
  late,     \* the time is over
  report    \* the state column of the line wrap prints, "" when it printed none

wrapVars == <<parent, child, code, signal, mem, late, report>>

Alive == child \in {"forked", "running"}
Ended == child \in {"exited", "killed"}

\* No program runs.  A shell that starts a program itself waits for it.
Idle == parent = "off"

Started(wrapped) ==
  /\ parent' = IF wrapped THEN "fork" ELSE "shell"
  /\ child' = IF wrapped THEN "none" ELSE "forked"
  /\ code' = 0
  /\ signal' = FALSE /\ mem' = FALSE /\ late' = FALSE
  /\ report' = ""

Fork ==
  /\ parent = "fork"
  /\ \/ child' = "forked" /\ parent' = "sample"
     \/ child' = "none" /\ parent' = "off"          \* "fork failed", return 1
  /\ UNCHANGED <<code, signal, mem, late, report>>

\* get_mem_usage: a running child may be over the limit at this very moment, of
\* one that has ended it reads zero.
Sample ==
  /\ parent = "sample"
  /\ mem' \in {mem} \cup {child = "running"}
  /\ parent' = "poll"
  /\ UNCHANGED <<child, code, signal, late, report>>

\* Mutant: however the child ended it is done.
ReportOfAny(ended) == "done"

\* WIFEXITED: the exit status itself is not looked at.
ReportOf(ended) == IF ended = "exited" THEN "done" ELSE "err"

\* waitpid(WNOHANG) finds the child ended.
Reap ==
  /\ parent = "poll" /\ Ended
  /\ report' = ReportOf(child)
  /\ child' = "none" /\ parent' = "off"
  /\ UNCHANGED <<code, signal, mem, late>>

PollAlive ==
  /\ parent = "poll" /\ ~ Ended
  /\ parent' = "judge"
  /\ UNCHANGED <<child, code, signal, mem, late, report>>

\* Mutant: only the memory is limited.
JudgeMemory ==
  /\ parent = "judge"
  /\ parent' = IF mem THEN "waitMem" ELSE "sample"
  /\ signal' = mem
  /\ UNCHANGED <<child, code, mem, late, report>>

\* kill(pid, SIGINT) reaches a child that has ended in the meantime too.
Judge ==
  /\ parent = "judge"
  /\ parent' = IF mem THEN "waitMem" ELSE IF late THEN "waitTime" ELSE "sample"
  /\ signal' = (mem \/ late)
  /\ UNCHANGED <<child, code, mem, late, report>>

\* waitpid without WNOHANG.  The child has not been waited for and wrap has no handler
\* that interrupts the call, so that it returns the child: the lines "mem err" and
\* "timeout err" for another result are never written.
WaitEnd ==
  /\ parent \in {"waitMem", "waitTime"} /\ Ended
  /\ report' = IF parent = "waitMem" THEN "mem" ELSE "timeout"
  /\ child' = "none" /\ parent' = "off"
  /\ UNCHANGED <<code, signal, mem, late>>

\* The shell without wrap.
ShellWaits ==
  /\ parent = "shell" /\ Ended
  /\ child' = "none" /\ parent' = "off"
  /\ UNCHANGED <<code, signal, mem, late, report>>

Parent == Fork \/ Sample \/ Reap \/ PollAlive \/ Judge \/ WaitEnd \/ ShellWaits

-----------------------------------------------------------------------------
(* The child and what happens to it. *)

\* execv fails: the child prints it and returns 0.
ExecFails ==
  /\ child = "forked"
  /\ child' = "exited" /\ code' = 0
  /\ UNCHANGED <<parent, signal, mem, late, report>>

Exec ==
  /\ child = "forked" /\ child' = "running"
  /\ UNCHANGED <<parent, code, signal, mem, late, report>>

\* No program installs a handler: the signal ends it.
Interrupted ==
  /\ signal /\ Alive /\ child' = "killed"
  /\ UNCHANGED <<parent, code, signal, mem, late, report>>

Clock ==
  /\ Alive /\ parent # "shell" /\ ~ late /\ late' = TRUE
  /\ UNCHANGED <<parent, child, code, signal, mem, report>>

Ends(status) ==
  /\ child' = "exited" /\ code' = status
  /\ UNCHANGED <<parent, signal, mem, late, report>>

Dies ==
  /\ child' = "killed"
  /\ UNCHANGED <<parent, code, signal, mem, late, report>>

=============================================================================
