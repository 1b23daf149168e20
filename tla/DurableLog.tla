----------------------------- MODULE DurableLog -----------------------------
(***************************************************************************)
(* What the event store promises whoever writes to it, and nothing of how: *)
(* a write that is told "ok" is in the log, for good; one that is told     *)
(* "err" is not, and never will be; one that is told nothing, because the  *)
(* process died, is either.  Store implements it.                        *)
(***************************************************************************)
EXTENDS Sequences, Naturals

CONSTANTS Job,             \* the writes that may be asked for, each once
          MaxTogether      \* how many of them reach the disk together at most

VARIABLES asked,           \* the writes asked for so far
          pending,         \* those of them the store is working on
          log,             \* what is on disk, in the order it was committed
          told             \* what the writer of each job has been told

logVars == <<asked, pending, log, told>>

Answers == {"ok", "err"}

OnDisk(j) == \E i \in DOMAIN log : log[i] = j

LogInit ==
    /\ asked = {}
    /\ pending = {}
    /\ log = <<>>
    /\ told = [j \in Job |-> "nothing"]

Ask(j) ==
    /\ j \notin asked
    /\ asked' = asked \cup {j}
    /\ pending' = pending \cup {j}
    /\ UNCHANGED <<log, told>>

Groups == UNION {[1..n -> Job] : n \in 1..MaxTogether}

\* Several writes reach the disk together, each of them once.
Commit(jobs) ==
    /\ \A i \in DOMAIN jobs : jobs[i] \in pending /\ ~OnDisk(jobs[i])
    /\ \A i, k \in DOMAIN jobs : jobs[i] = jobs[k] => i = k
    /\ log' = log \o jobs
    /\ UNCHANGED <<asked, pending, told>>

Tell(j, answer) ==
    /\ j \in pending
    /\ answer = IF OnDisk(j) THEN "ok" ELSE "err"
    /\ told' = [told EXCEPT ![j] = answer]
    /\ pending' = pending \ {j}
    /\ UNCHANGED <<asked, log>>

\* The process dies: nobody is told any more, and nothing more is committed.
Die ==
    /\ pending' = {}
    /\ UNCHANGED <<asked, log, told>>

LogNext ==
    \/ \E j \in Job : Ask(j) \/ \E answer \in Answers : Tell(j, answer)
    \/ \E jobs \in Groups : Commit(jobs)
    \/ Die

LogSpec == LogInit /\ [][LogNext]_logVars
=============================================================================
