--------------------------- MODULE ServiceProofs ---------------------------
(***************************************************************************)
(* Proofs about the two halves of a core in service, for any constants:    *)
(* about Store, for any callers, any bound of the channel and the batch,   *)
(* and any set of failing jobs (what is answered is true, a caller's       *)
(* writes keep their order, a drop leaves no one unanswered, and the store *)
(* implements DurableLog); and about Operations, for any terminals, files, *)
(* keys and subscriptions (whom a core serves and with what certificate,   *)
(* what its counters say, what its connectors ask for, what a window       *)
(* shows, and whose key a terminal goes by).                               *)
(***************************************************************************)
EXTENDS Store, Operations, Integers, FiniteSetTheorems, TLAPS

-----------------------------------------------------------------------------
(* Jobs of one caller are in the order of its calls, everywhere.           *)

Precedes(x, y) == x[1] = y[1] => x[2] < y[2]
Ordered(seq)   == \A i, k \in DOMAIN seq : i < k => Precedes(seq[i], seq[k])
Before(S, T)   == \A x \in S, y \in T : Precedes(x, y)

\* The elements of a sequence that grows at its end (send on the channel).
LEMMA InAppend ==
    ASSUME NEW s \in Seq(Job), NEW x \in Job
    PROVE  In(Append(s, x)) = In(s) \cup {x}
<1> DEFINE t == Append(s, x)
<1>1. /\ t \in Seq(Job) /\ Len(t) = Len(s) + 1 /\ DOMAIN t = 1..Len(t) /\ DOMAIN s = 1..Len(s)
      /\ \A i \in 1..Len(s) : t[i] = s[i]
      /\ t[Len(s) + 1] = x /\ Len(s) \in Nat
    OBVIOUS
<1>2. In(t) \subseteq In(s) \cup {x}
    BY <1>1 DEF In
<1>3. In(s) \subseteq In(t)
    BY <1>1 DEF In
<1>4. x \in In(t)
    BY <1>1 DEF In
<1>. QED BY <1>2, <1>3, <1>4

\* The elements of a sequence that is taken from at its front (recv, the answers).
LEMMA InTail ==
    ASSUME NEW s \in Seq(Job), s # <<>>
    PROVE  /\ Head(s) \in Job /\ Tail(s) \in Seq(Job) /\ Len(Tail(s)) = Len(s) - 1
           /\ In(s) = {Head(s)} \cup In(Tail(s))
<1> DEFINE t == Tail(s)
<1>1. /\ t \in Seq(Job) /\ Len(t) = Len(s) - 1 /\ DOMAIN t = 1..Len(t) /\ DOMAIN s = 1..Len(s)
      /\ Len(s) \in Nat /\ Len(s) > 0
      /\ \A i \in 1..Len(t) : t[i] = s[i + 1]
      /\ Head(s) = s[1]
    OBVIOUS
<1>2. Head(s) \in Job /\ Head(s) \in In(s)
    BY <1>1 DEF In
<1>3. In(t) \subseteq In(s)
    <2>1. \A i \in DOMAIN t : i + 1 \in DOMAIN s /\ t[i] = s[i + 1]
        BY <1>1
    <2>. QED BY <2>1 DEF In
<1>4. In(s) \subseteq {Head(s)} \cup In(t)
    <2>1. ASSUME NEW i \in DOMAIN s PROVE s[i] \in {Head(s)} \cup In(t)
        <3>1. CASE i = 1
            BY <1>1, <3>1
        <3>2. CASE i # 1
            <4>1. i - 1 \in DOMAIN t /\ t[i - 1] = s[i]
                BY <1>1, <3>2
            <4>. QED BY <4>1 DEF In
        <3>. QED BY <3>1, <3>2
    <2>. QED BY <2>1 DEF In
<1>. QED BY <1>1, <1>2, <1>3, <1>4

\* The elements of two sequences put together (a batch that is committed).
LEMMA InConcat ==
    ASSUME NEW s \in Seq(Job), NEW t \in Seq(Job)
    PROVE  s \o t \in Seq(Job) /\ In(s \o t) = In(s) \cup In(t)
<1> DEFINE u == s \o t
<1>1. /\ u \in Seq(Job) /\ Len(u) = Len(s) + Len(t) /\ Len(s) \in Nat /\ Len(t) \in Nat
      /\ DOMAIN u = 1..Len(u) /\ DOMAIN s = 1..Len(s) /\ DOMAIN t = 1..Len(t)
      /\ \A i \in 1..Len(u) : u[i] = IF i <= Len(s) THEN s[i] ELSE t[i - Len(s)]
    OBVIOUS
<1>2. In(u) \subseteq In(s) \cup In(t)
    <2>1. ASSUME NEW i \in DOMAIN u PROVE u[i] \in In(s) \cup In(t)
        <3>1. CASE i <= Len(s)
            BY <1>1, <3>1 DEF In
        <3>2. CASE ~(i <= Len(s))
            <4>1. i - Len(s) \in DOMAIN t /\ u[i] = t[i - Len(s)]
                BY <1>1, <3>2
            <4>. QED BY <4>1 DEF In
        <3>. QED BY <3>1, <3>2
    <2>. QED BY <2>1 DEF In
<1>3. In(s) \subseteq In(u)
    BY <1>1 DEF In
<1>4. In(t) \subseteq In(u)
    <2>1. \A i \in DOMAIN t : i + Len(s) \in DOMAIN u /\ u[i + Len(s)] = t[i]
        BY <1>1
    <2>. QED BY <2>1 DEF In
<1>. QED BY <1>1, <1>2, <1>3, <1>4

\* A batch behind what is there (COMMIT).
LEMMA ConcatLength ==
    ASSUME NEW s \in Seq(Job), NEW t \in Seq(Job)
    PROVE  /\ s \o t \in Seq(Job)
           /\ Len(s \o t) = Len(s) + Len(t) /\ Len(s) \in Nat /\ Len(t) \in Nat
OBVIOUS

\* A job behind what is there (send).
LEMMA AppendLength ==
    ASSUME NEW s \in Seq(Job), NEW x \in Job
    PROVE  Append(s, x) \in Seq(Job) /\ Len(Append(s, x)) = Len(s) + 1 /\ Len(s) \in Nat
OBVIOUS

\* Order survives a job put behind all others of its caller.
LEMMA OrderedAppend ==
    ASSUME NEW s \in Seq(Job), NEW x \in Job, Ordered(s), Before(In(s), {x})
    PROVE  Ordered(Append(s, x))
<1> DEFINE t == Append(s, x)
<1>1. /\ Len(t) = Len(s) + 1 /\ DOMAIN t = 1..Len(t) /\ DOMAIN s = 1..Len(s)
      /\ \A i \in 1..Len(s) : t[i] = s[i]
      /\ t[Len(s) + 1] = x /\ Len(s) \in Nat
    OBVIOUS
<1>2. ASSUME NEW i \in DOMAIN t, NEW k \in DOMAIN t, i < k PROVE Precedes(t[i], t[k])
    <2>1. i \in DOMAIN s /\ t[i] = s[i] /\ s[i] \in In(s)
        BY <1>1, <1>2 DEF In
    <2>2. CASE k \in DOMAIN s
        BY <1>1, <1>2, <2>1, <2>2 DEF Ordered
    <2>3. CASE k \notin DOMAIN s
        <3>1. t[k] = x
            BY <1>1, <2>3
        <3>. QED BY <2>1, <3>1 DEF Before
    <2>. QED BY <2>2, <2>3
<1>. QED BY <1>2 DEF Ordered

\* Order survives the loss of the first job, which came before all others of its caller.
LEMMA OrderedTail ==
    ASSUME NEW s \in Seq(Job), s # <<>>, Ordered(s)
    PROVE  Ordered(Tail(s)) /\ Before({Head(s)}, In(Tail(s)))
<1> DEFINE t == Tail(s)
<1>1. /\ Len(t) = Len(s) - 1 /\ DOMAIN t = 1..Len(t) /\ DOMAIN s = 1..Len(s)
      /\ Len(s) \in Nat /\ Len(s) > 0
      /\ \A i \in 1..Len(t) : t[i] = s[i + 1]
      /\ Head(s) = s[1]
    OBVIOUS
<1>2. \A i \in DOMAIN t : i + 1 \in DOMAIN s /\ 1 < i + 1 /\ t[i] = s[i + 1] /\ i \in Int
    BY <1>1
<1>3. Ordered(t)
    <2>1. ASSUME NEW i \in DOMAIN t, NEW k \in DOMAIN t, i < k PROVE Precedes(t[i], t[k])
        <3>1. i + 1 < k + 1
            BY <1>2, <2>1
        <3>. QED BY <1>2, <3>1 DEF Ordered
    <2>. QED BY <2>1 DEF Ordered
<1>4. 1 \in DOMAIN s
    BY <1>1
<1>5. \A i \in DOMAIN t : Precedes(s[1], t[i])
    BY <1>2, <1>4 DEF Ordered
<1>. QED BY <1>1, <1>3, <1>5 DEF Before, In

\* Order survives a batch put behind what it comes after.
LEMMA OrderedConcat ==
    ASSUME NEW s \in Seq(Job), NEW t \in Seq(Job), Ordered(s), Ordered(t), Before(In(s), In(t))
    PROVE  Ordered(s \o t)
<1> DEFINE u == s \o t
<1>1. /\ Len(u) = Len(s) + Len(t) /\ Len(s) \in Nat /\ Len(t) \in Nat
      /\ DOMAIN u = 1..Len(u) /\ DOMAIN s = 1..Len(s) /\ DOMAIN t = 1..Len(t)
      /\ \A i \in 1..Len(u) : u[i] = IF i <= Len(s) THEN s[i] ELSE t[i - Len(s)]
    OBVIOUS
<1>2. ASSUME NEW i \in DOMAIN u, NEW k \in DOMAIN u, i < k PROVE Precedes(u[i], u[k])
    <2>1. CASE k <= Len(s)
        <3>1. i \in DOMAIN s /\ k \in DOMAIN s /\ u[i] = s[i] /\ u[k] = s[k]
            BY <1>1, <1>2, <2>1
        <3>. QED BY <1>2, <3>1 DEF Ordered
    <2>2. CASE i <= Len(s) /\ ~(k <= Len(s))
        <3>1. i \in DOMAIN s /\ k - Len(s) \in DOMAIN t /\ u[i] = s[i] /\ u[k] = t[k - Len(s)]
            BY <1>1, <1>2, <2>2
        <3>. QED BY <3>1 DEF Before, In
    <2>3. CASE ~(i <= Len(s))
        <3>1. /\ i - Len(s) \in DOMAIN t /\ k - Len(s) \in DOMAIN t /\ i - Len(s) < k - Len(s)
              /\ u[i] = t[i - Len(s)] /\ u[k] = t[k - Len(s)]
            BY <1>1, <1>2, <2>3
        <3>. QED BY <3>1 DEF Ordered
    <2>. QED BY <1>1, <1>2, <2>1, <2>2, <2>3
<1>. QED BY <1>2 DEF Ordered

-----------------------------------------------------------------------------
(* The inductive invariant.                                                *)

Seen        == In(db) \cup In(batch) \cup In(queue)
Uncommitted == ~(stage = "answer" /\ outcome = "ok")

\* On disk, in the batch, on the channel: that is the order of every caller's jobs.
Lined ==
    /\ Ordered(db) /\ Ordered(batch) /\ Ordered(queue)
    /\ Before(In(batch), In(queue))
    /\ Before(In(db), In(queue))
    /\ Uncommitted => Before(In(db), In(batch))
    /\ ~Uncommitted => In(batch) \subseteq In(db)

\* No job is from a call still to be made, and a blocked caller's job is nowhere yet.
CallsCover ==
    /\ \A c \in Caller : blocked[c] => calls[c] > 0
    /\ \A j \in Seen : /\ j[2] <= calls[j[1]]
                       /\ blocked[j[1]] => j[2] < calls[j[1]]

\* Nobody is answered ahead of time ...
Unanswered ==
    /\ \A j \in InFlight : answer[j] = "nothing"
    /\ \A j \in Job : j \notin Issued => answer[j] = "nothing"

\* ... and nobody is forgotten.
Accounted == \A j \in Issued : answer[j] # "nothing" \/ j \in lost \/ j \in InFlight

\* What each stage of the writer thread says of its batch and of the channel.
StageOK ==
    /\ stage \in {"recv", "gone"} => batch = <<>>
    /\ stage \in {"gather", "apply"} => batch # <<>>
    /\ stage # "apply" => applied = 0
    /\ dropping => \A c \in Caller : ~blocked[c]
    /\ stage = "gone" => dropping /\ queue = <<>>

IInv ==
    /\ TypeOK /\ Lined /\ CallsCover /\ Unanswered /\ Accounted /\ StageOK /\ AnswersTrue

-----------------------------------------------------------------------------
(* Types.                                                                  *)

\* The parts of a job.
LEMMA JobParts ==
    \A j \in Job : j[1] \in Caller /\ j[2] \in Nat /\ j[2] <= MaxCalls
BY StoreAssumption DEF Job

\* What is in a sequence of jobs is a job; in the empty one there is none.
LEMMA InJobs ==
    /\ \A s \in Seq(Job) : In(s) \subseteq Job
    /\ In(<<>>) = {} /\ <<>> \in Seq(Job)
BY DEF In

\* A blocked caller waits with a job.
LEMMA CurrentJob ==
    ASSUME TypeOK, CallsCover, NEW c \in Caller, blocked[c]
    PROVE  Current(c) \in Job
BY StoreAssumption DEF TypeOK, CallsCover, Current, Job

\* Every operation keeps the types and the bounds of the channel and the batch.
LEMMA TypeStep ==
    ASSUME TypeOK, CallsCover, StageOK, [Next]_vars
    PROVE  TypeOK'
<1>. USE StoreAssumption
<1>1. ASSUME NEW c \in Caller, Write(c) PROVE TypeOK'
    <2>1. <<c, calls[c] + 1>> \in Job /\ calls' \in [Caller -> 0..MaxCalls]
        BY <1>1 DEF Write, TypeOK, Job
    <2>2. queue' \in Seq(Job) /\ Len(queue') <= QueueDepth /\ blocked' \in [Caller -> BOOLEAN]
        <3>1. CASE HasRoom
            <4>1. queue' = Append(queue, <<c, calls[c] + 1>>) /\ blocked' = blocked
                BY <1>1, <3>1 DEF Write
            <4>. QED BY <2>1, <3>1, <4>1, AppendLength DEF TypeOK, HasRoom
        <3>2. CASE ~HasRoom
            BY <1>1, <3>2 DEF Write, TypeOK
        <3>. QED BY <3>1, <3>2
    <2>. QED BY <1>1, <2>1, <2>2 DEF Write, TypeOK, diskVars, lifeVars
<1>2. ASSUME NEW c \in Caller, Unblock(c) PROVE TypeOK'
    <2>1. Current(c) \in Job
        BY <1>2, CurrentJob DEF Unblock
    <2>2. queue' \in Seq(Job) /\ Len(queue') <= QueueDepth /\ blocked' \in [Caller -> BOOLEAN]
        BY <1>2, <2>1 DEF Unblock, TypeOK, HasRoom
    <2>. QED BY <1>2, <2>2 DEF Unblock, TypeOK, diskVars, lifeVars
<1>3. CASE DropStore
    BY <1>3 DEF DropStore, TypeOK, callerVars, diskVars, lifeVars
<1>4. CASE Take
    <2>1. Head(queue) \in Job /\ queue' \in Seq(Job) /\ Len(queue') <= QueueDepth
        BY <1>4, InTail DEF Take, TypeOK
    <2>2. batch' \in Seq(Job) /\ Len(batch') = Len(batch) + 1 /\ Len(batch) \in Nat
        BY <1>4, <2>1 DEF Take, TypeOK
    <2>3. Len(batch') <= MaxBatch
        <3>1. CASE stage = "recv"
            BY <1>4, <2>2, <3>1 DEF StageOK
        <3>2. CASE Len(batch) < MaxBatch
            BY <2>2, <3>2
        <3>. QED BY <1>4, <3>1, <3>2 DEF Take
    <2>. QED BY <1>4, <2>1, <2>2, <2>3 DEF Take, TypeOK, Stages, callerVars, diskVars, lifeVars
<1>5. CASE Begin
    BY <1>5 DEF Begin, TypeOK, Stages, callerVars, diskVars, lifeVars
<1>6. CASE BeginFails
    BY <1>6 DEF BeginFails, Fail, TypeOK, Stages, callerVars, diskVars, lifeVars
<1>7. CASE Apply
    BY <1>7 DEF Apply, TypeOK, callerVars, diskVars, lifeVars
<1>8. CASE ApplyFails
    <2>1. 0 \in 0..Len(batch)
        BY DEF TypeOK
    <2>. QED BY <1>8, <2>1 DEF ApplyFails, Fail, TypeOK, Stages, callerVars, diskVars, lifeVars
<1>9. CASE CommitBatch
    <2>1. db' \in Seq(Job) /\ Len(db) \in Nat /\ Len(db') \in Nat /\ Len(db) <= Len(db')
        BY <1>9, ConcatLength DEF CommitBatch, TypeOK
    <2>2. 0 \in 0..Len(batch) /\ synced \in 0..Len(db')
        BY <2>1 DEF TypeOK
    <2>. QED BY <1>9, <2>1, <2>2 DEF CommitBatch, TypeOK, Stages, callerVars, lifeVars
<1>10. ASSUME NEW leftOpen \in BOOLEAN, CommitFails(leftOpen) PROVE TypeOK'
    BY <1>10 DEF CommitFails, Fail, TypeOK, Stages, callerVars, diskVars, lifeVars
<1>11. CASE Answer
    <2>1. batch' \in Seq(Job) /\ Len(batch') <= MaxBatch
        BY <1>11, InTail DEF Answer, TypeOK
    <2>2. answer' \in [Job -> {"nothing", "ok", "err"}]
        BY <1>11 DEF Answer, TypeOK
    <2>3. applied' \in 0..Len(batch')
        BY <1>11, <2>1 DEF Answer, StageOK
    <2>. QED BY <1>11, <2>1, <2>2, <2>3 DEF Answer, TypeOK, callerVars, diskVars, lifeVars
<1>12. ASSUME NEW upTo \in synced..Len(db), NextBatch(upTo) PROVE TypeOK'
    BY <1>12 DEF NextBatch, TypeOK, Stages, callerVars, lifeVars
<1>13. ASSUME NEW upTo \in synced..Len(db), WriterEnds(upTo) PROVE TypeOK'
    <2>1. synced' \in 0..Len(db)
        BY <1>13 DEF WriterEnds, TypeOK
    <2>. QED BY <1>13, <2>1 DEF WriterEnds, TypeOK, Stages, callerVars, lifeVars
<1>14. CASE OpenAgain /\ UNCHANGED diskVars
    <2>1. InFlight \subseteq Job
        BY InJobs, CurrentJob DEF InFlight, TypeOK
    <2>2. /\ calls' = calls /\ blocked' \in [Caller -> BOOLEAN]
          /\ lives' \in Nat /\ lost' \subseteq Job
        BY <1>14, <2>1 DEF OpenAgain, TypeOK
    <2>3. /\ <<>> \in Seq(Job) /\ Len(<<>>) = 0 /\ 0 \in 0..Len(<<>>)
          /\ 0 <= QueueDepth /\ 0 <= MaxBatch
        OBVIOUS
    <2>. QED BY <1>14, <2>2, <2>3 DEF OpenAgain, TypeOK, Stages, diskVars
<1>15. CASE UNCHANGED vars
    BY <1>15 DEF vars, TypeOK, callerVars, diskVars, lifeVars
<1>. QED
    BY <1>1, <1>2, <1>3, <1>4, <1>5, <1>6, <1>7, <1>8, <1>9, <1>10, <1>11, <1>12, <1>13, <1>14,
       <1>15
    DEF Next, Writer, Reopen, Crash

-----------------------------------------------------------------------------
(* The inductive step.  Most operations touch neither the sequences nor    *)
(* the answers; those that do have a lemma each.                           *)

\* The writer thread moves on, or a drop begins, and no job moves.
LEMMA QuietStep ==
    ASSUME IInv, TypeOK', StageOK',
           UNCHANGED <<calls, blocked, queue, batch, db, answer, lost>>,
           batch = <<>> \/ (Uncommitted' <=> Uncommitted)
    PROVE  IInv'
<1>1. Seen' = Seen /\ InFlight' = InFlight /\ Issued' = Issued
    BY DEF Seen, InFlight, Issued, Current
<1>2. Lined'
    <2>1. CASE batch = <<>>
        BY <2>1, InJobs DEF IInv, Lined, Before
    <2>2. CASE Uncommitted' <=> Uncommitted
        BY <2>2 DEF IInv, Lined
    <2>. QED BY <2>1, <2>2
<1>. QED BY <1>1, <1>2 DEF IInv, CallsCover, Unanswered, Accounted, AnswersTrue

\* A job goes to the end of the channel, behind all others of its caller.
LEMMA QueuedLined ==
    ASSUME IInv, NEW x \in Job, queue' = Append(queue, x), Before(Seen, {x}),
           UNCHANGED <<batch, db, stage, outcome>>
    PROVE  Lined' /\ Seen' = Seen \cup {x}
<1>1. In(queue') = In(queue) \cup {x}
    BY InAppend DEF IInv, TypeOK
<1>2. Ordered(queue')
    BY OrderedAppend DEF IInv, TypeOK, Lined, Before, Seen
<1>. QED BY <1>1, <1>2 DEF IInv, Lined, Before, Seen, Uncommitted

\* Store::write: a job nobody has seen is in flight, on the channel or with its caller.
LEMMA WriteFacts ==
    ASSUME IInv, TypeOK', NEW c \in Caller, Write(c)
    PROVE  /\ <<c, calls[c] + 1>> \in Job /\ <<c, calls[c] + 1>> \notin Issued
           /\ Issued' = Issued \cup {<<c, calls[c] + 1>>}
           /\ InFlight' = InFlight \cup {<<c, calls[c] + 1>>}
           /\ Lined' /\ CallsCover'
<1> DEFINE x == <<c, calls[c] + 1>>
<1>1. /\ x \in Job /\ x[1] = c /\ x[2] = calls[c] + 1
      /\ calls'[c] = calls[c] + 1 /\ calls[c] \in Nat
      /\ \A d \in Caller : d # c => calls'[d] = calls[d] /\ blocked'[d] = blocked[d]
      /\ ~blocked[c]
      /\ \A d \in Caller : calls[d] \in Nat /\ blocked'[d] \in BOOLEAN
    <2>1. x \in Job /\ calls[c] \in Nat /\ calls'[c] = calls[c] + 1 /\ ~blocked[c]
        BY StoreAssumption DEF IInv, TypeOK, Write, Job
    <2>2. \A d \in Caller : d # c => calls'[d] = calls[d]
        BY DEF IInv, TypeOK, Write
    <2>3. \A d \in Caller : d # c => blocked'[d] = blocked[d]
        <3>1. CASE HasRoom
            BY <3>1 DEF Write
        <3>2. CASE ~HasRoom
            BY <3>2 DEF IInv, TypeOK, Write
        <3>. QED BY <3>1, <3>2
    <2>4. \A d \in Caller : calls[d] \in Nat /\ blocked'[d] \in BOOLEAN
        BY DEF IInv, TypeOK
    <2>. QED BY <2>1, <2>2, <2>3, <2>4
<1>2. Seen \subseteq Job
    BY InJobs DEF IInv, TypeOK, Seen
<1>3. Before(Seen, {x})
    BY <1>1, <1>2, JobParts DEF IInv, CallsCover, Before, Precedes
<1>4. x \notin Issued /\ x \notin InFlight /\ Issued' = Issued \cup {x}
    <2>1. Issued' = Issued \cup {x}
        BY <1>1, JobParts DEF Issued, Job
    <2>2. x \notin Issued
        BY <1>1 DEF Issued
    <2>3. x \notin Seen
        BY <1>1, <1>3 DEF Before, Precedes
    <2>4. \A d \in Caller : blocked[d] => Current(d) # x
        BY <1>1 DEF Current
    <2>. QED BY <2>1, <2>2, <2>3, <2>4 DEF InFlight, Seen
<1>5. InFlight' = InFlight \cup {x} /\ Lined' /\ CallsCover'
    <2>1. /\ \A j \in Seen : /\ j[1] \in Caller /\ j[2] \in Nat
                             /\ j[2] <= calls'[j[1]] /\ (j[1] = c => j[2] < calls'[c])
                             /\ (blocked[j[1]] => j[2] < calls'[j[1]])
          /\ \A d \in Caller : blocked'[d] => calls'[d] > 0
        <3>1. ASSUME NEW j \in Seen
              PROVE  /\ j[1] \in Caller /\ j[2] \in Nat
                     /\ j[2] <= calls'[j[1]] /\ (j[1] = c => j[2] < calls'[c])
                     /\ (blocked[j[1]] => j[2] < calls'[j[1]])
            <4>1. j[1] \in Caller /\ j[2] \in Nat /\ j[2] <= calls[j[1]]
                  /\ (blocked[j[1]] => j[2] < calls[j[1]])
                BY <1>2, JobParts DEF IInv, CallsCover
            <4>2. CASE j[1] = c
                BY <1>1, <4>1, <4>2
            <4>3. CASE j[1] # c
                BY <1>1, <4>1, <4>3
            <4>. QED BY <4>2, <4>3
        <3>2. \A d \in Caller : blocked'[d] => calls'[d] > 0
            BY <1>1 DEF IInv, CallsCover
        <3>. QED BY <3>1, <3>2
    <2>2. CASE HasRoom
        <3>1. /\ queue' = Append(queue, x) /\ blocked' = blocked
              /\ UNCHANGED <<batch, db, stage, outcome>>
            BY <2>2 DEF Write, diskVars, lifeVars
        <3>2. Lined' /\ Seen' = Seen \cup {x}
            BY <1>1, <1>3, <3>1, QueuedLined
        <3>3. In(queue') = In(queue) \cup {x}
            BY <1>1, <3>1, InAppend DEF IInv, TypeOK
        <3>4. \A d \in Caller : blocked[d] => Current(d)' = Current(d)
            BY <1>1 DEF Current
        <3>5. InFlight' = InFlight \cup {x}
            BY <3>1, <3>3, <3>4 DEF InFlight
        <3>6. CallsCover'
            BY <1>1, <2>1, <3>1, <3>2 DEF IInv, CallsCover
        <3>. QED BY <3>2, <3>5, <3>6
    <2>3. CASE ~HasRoom
        <3>1. UNCHANGED <<queue, batch, db, stage, outcome>> /\ blocked'[c]
            BY <2>3 DEF Write, diskVars, lifeVars, IInv, TypeOK
        <3>2. Seen' = Seen /\ Lined'
            BY <3>1 DEF Seen, IInv, Lined, Uncommitted
        <3>3. \A d \in Caller : Current(d)' = IF d = c THEN x ELSE Current(d)
            BY <1>1 DEF Current
        <3>4. InFlight' = InFlight \cup {x}
            BY <1>1, <3>1, <3>3 DEF InFlight
        <3>5. CallsCover'
            BY <1>1, <2>1, <3>1, <3>2 DEF IInv, CallsCover
        <3>. QED BY <3>2, <3>4, <3>5
    <2>. QED BY <2>2, <2>3
<1>. QED BY <1>1, <1>4, <1>5

LEMMA WriteStep ==
    ASSUME IInv, TypeOK', NEW c \in Caller, Write(c)
    PROVE  IInv'
<1>1. UNCHANGED <<answer, lost, db, stage, batch, dropping, applied>> /\ ~dropping /\ stage # "gone"
    BY DEF Write, diskVars, lifeVars, IInv, StageOK
<1>2. Unanswered' /\ Accounted' /\ AnswersTrue'
    BY <1>1, WriteFacts DEF IInv, Unanswered, Accounted, AnswersTrue
<1>3. StageOK'
    BY <1>1 DEF IInv, StageOK
<1>. QED BY WriteFacts, <1>2, <1>3 DEF IInv

\* The blocking send() finds room.
LEMMA UnblockStep ==
    ASSUME IInv, TypeOK', NEW c \in Caller, Unblock(c)
    PROVE  IInv'
<1> DEFINE x == Current(c)
<1>1. /\ x \in Job /\ x[1] = c /\ x[2] = calls[c]
      /\ \A d \in Caller : d # c => blocked'[d] = blocked[d]
      /\ blocked[c] /\ ~blocked'[c]
      /\ \A d \in Caller : calls[d] \in Nat
    BY CurrentJob DEF IInv, TypeOK, Unblock, Current
<1>2. Seen \subseteq Job
    BY InJobs DEF IInv, TypeOK, Seen
<1>3. Before(Seen, {x})
    BY <1>1, <1>2, JobParts DEF IInv, CallsCover, Before, Precedes
<1>4. /\ queue' = Append(queue, x)
      /\ UNCHANGED <<calls, batch, db, stage, outcome, answer, lost, dropping, applied>>
    BY DEF Unblock, diskVars, lifeVars
<1>5. Lined' /\ Seen' = Seen \cup {x}
    BY <1>1, <1>3, <1>4, QueuedLined
<1>6. CallsCover'
    BY <1>1, <1>2, <1>4, <1>5, JobParts DEF IInv, CallsCover
<1>7. InFlight' = InFlight /\ Issued' = Issued
    <2>1. In(queue') = In(queue) \cup {x}
        BY <1>1, <1>4, InAppend DEF IInv, TypeOK
    <2>2. \A d \in Caller : Current(d)' = Current(d)
        BY <1>4 DEF Current
    <2>. QED BY <1>1, <1>4, <2>1, <2>2 DEF InFlight, Issued
<1>8. Unanswered' /\ Accounted' /\ AnswersTrue'
    BY <1>4, <1>7 DEF IInv, Unanswered, Accounted, AnswersTrue
<1>9. StageOK'
    BY <1>1, <1>4 DEF IInv, StageOK
<1>. QED BY <1>5, <1>6, <1>8, <1>9 DEF IInv

\* rx.recv and try_recv: the front of the channel goes to the end of the batch.
LEMMA TakeStep ==
    ASSUME IInv, TypeOK', Take
    PROVE  IInv'
<1> DEFINE x == Head(queue)
<1>1. /\ queue # <<>> /\ queue' = Tail(queue) /\ batch' = Append(batch, x) /\ stage' = "gather"
      /\ stage \in {"recv", "gather"}
      /\ UNCHANGED <<calls, blocked, db, outcome, answer, lost, dropping, applied>>
    BY DEF Take, callerVars, diskVars, lifeVars
<1>2. /\ x \in Job /\ In(queue) = {x} \cup In(queue') /\ In(batch') = In(batch) \cup {x}
      /\ queue' \in Seq(Job)
    BY <1>1, InTail, InAppend DEF IInv, TypeOK
<1>3. Ordered(queue') /\ Before({x}, In(queue'))
    BY <1>1, OrderedTail DEF IInv, TypeOK, Lined
<1>4. Ordered(batch')
    BY <1>1, <1>2, OrderedAppend DEF IInv, TypeOK, Lined, Before
<1>5. Before(In(batch'), In(queue')) /\ Before(In(db), In(queue')) /\ Before(In(db), In(batch'))
    BY <1>1, <1>2, <1>3 DEF IInv, Lined, Before, Uncommitted
<1>6. Lined' /\ Seen' = Seen
    BY <1>1, <1>2, <1>3, <1>4, <1>5 DEF IInv, Lined, Uncommitted, Seen
<1>7. CallsCover'
    BY <1>1, <1>6 DEF IInv, CallsCover
<1>8. InFlight' = InFlight /\ Issued' = Issued
    BY <1>1, <1>2 DEF InFlight, Issued, Current
<1>9. Unanswered' /\ Accounted' /\ AnswersTrue'
    BY <1>1, <1>8 DEF IInv, Unanswered, Accounted, AnswersTrue
<1>10. StageOK'
    <2>1. batch' # <<>>
        BY <1>1, <1>2, AppendLength DEF IInv, TypeOK
    <2>. QED BY <1>1, <2>1 DEF IInv, StageOK
<1>. QED BY <1>6, <1>7, <1>9, <1>10 DEF IInv

\* COMMIT: the batch is on disk, behind all that was there.
LEMMA CommitStep ==
    ASSUME IInv, TypeOK', CommitBatch
    PROVE  IInv'
<1>1. /\ db' = db \o batch /\ applied' = 0
      /\ stage = "apply" /\ stage' = "answer" /\ outcome' = "ok"
      /\ UNCHANGED <<calls, blocked, queue, batch, answer, lost, dropping>>
    BY DEF CommitBatch, callerVars, lifeVars
<1>2. In(db') = In(db) \cup In(batch)
    BY <1>1, InConcat DEF IInv, TypeOK
<1>3. Before(In(db), In(batch))
    BY <1>1 DEF IInv, Lined, Uncommitted
<1>4. Ordered(db')
    BY <1>1, <1>3, OrderedConcat DEF IInv, TypeOK, Lined
<1>5. Lined' /\ Seen' = Seen
    BY <1>1, <1>2, <1>4 DEF IInv, Lined, Before, Uncommitted, Seen
<1>6. InFlight' = InFlight /\ Issued' = Issued
    BY <1>1 DEF InFlight, Issued, Current
<1>7. AnswersTrue'
    <2>1. \A j \in In(batch) : answer[j] = "nothing"
        BY DEF IInv, Unanswered, InFlight
    <2>. QED BY <1>1, <1>2, <2>1 DEF IInv, AnswersTrue
<1>8. CallsCover' /\ Unanswered' /\ Accounted' /\ StageOK'
    BY <1>1, <1>5, <1>6 DEF IInv, CallsCover, Unanswered, Accounted, StageOK
<1>. QED BY <1>5, <1>7, <1>8 DEF IInv

\* job.ack.send: the first job of the batch is answered, and is in flight no more.
LEMMA AnswerFacts ==
    ASSUME IInv, Answer
    PROVE  /\ Head(batch) \in InFlight /\ Head(batch) \in Job
           /\ InFlight' = InFlight \ {Head(batch)} /\ Issued' = Issued
           /\ In(batch) = {Head(batch)} \cup In(batch')
           /\ outcome = "ok" => Head(batch) \in In(db)
           /\ outcome = "err" => Head(batch) \notin In(db)
<1> DEFINE x == Head(batch)
<1>1. /\ stage = "answer" /\ batch # <<>> /\ batch' = Tail(batch)
      /\ UNCHANGED <<calls, blocked, queue>>
    BY DEF Answer, callerVars, lifeVars
<1>2. x \in Job /\ In(batch) = {x} \cup In(batch') /\ x[2] \in Nat /\ x[1] \in Caller
    BY <1>1, InTail, JobParts DEF IInv, TypeOK
<1>3. ~Precedes(x, x)
    BY <1>2 DEF Precedes
<1>4. x \notin In(batch')
    BY <1>1, <1>3, OrderedTail DEF IInv, TypeOK, Lined, Before
<1>5. x \notin In(queue)
    BY <1>2, <1>3 DEF IInv, Lined, Before
<1>6. \A c \in Caller : blocked[c] => Current(c) # x
    <2>1. ASSUME NEW c \in Caller, blocked[c], Current(c) = x PROVE FALSE
        <3>1. x[1] = c /\ x[2] = calls[c]
            BY <2>1 DEF Current
        <3>2. x \in Seen
            BY <1>2 DEF Seen
        <3>3. x[2] < calls[c]
            BY <2>1, <3>1, <3>2 DEF IInv, CallsCover
        <3>. QED BY <1>2, <3>1, <3>3
    <2>. QED BY <2>1
<1>7. InFlight' = InFlight \ {x}
    <2>1. \A c \in Caller : Current(c)' = Current(c)
        BY <1>1 DEF Current
    <2>. QED BY <1>1, <1>2, <1>4, <1>5, <1>6, <2>1 DEF InFlight
<1>8. outcome = "ok" => x \in In(db)
    BY <1>1, <1>2 DEF IInv, Lined, Uncommitted
<1>9. outcome = "err" => x \notin In(db)
    BY <1>1, <1>2, <1>3 DEF IInv, Lined, Uncommitted, Before
<1>. QED BY <1>1, <1>2, <1>7, <1>8, <1>9 DEF InFlight, Issued

LEMMA AnswerStep ==
    ASSUME IInv, TypeOK', Answer
    PROVE  IInv'
<1> DEFINE x == Head(batch)
<1>1. /\ stage = "answer" /\ batch # <<>> /\ batch' = Tail(batch)
      /\ answer' = [answer EXCEPT ![x] = outcome]
      /\ UNCHANGED <<calls, blocked, queue, db, stage, outcome, dropping, lost, applied>>
    BY DEF Answer, callerVars, diskVars, lifeVars
<1>2. /\ x \in InFlight /\ x \in Job /\ InFlight' = InFlight \ {x} /\ Issued' = Issued
      /\ In(batch) = {x} \cup In(batch')
      /\ outcome = "ok" => x \in In(db)
      /\ outcome = "err" => x \notin In(db)
    BY AnswerFacts
<1>3. outcome # "nothing" /\ answer'[x] = outcome /\ \A j \in Job : j # x => answer'[j] = answer[j]
    BY <1>1, <1>2 DEF IInv, TypeOK
<1>4. Lined'
    <2>1. Ordered(batch')
        BY <1>1, OrderedTail DEF IInv, TypeOK, Lined
    <2>. QED BY <1>1, <1>2, <2>1 DEF IInv, Lined, Before, Uncommitted
<1>5. CallsCover'
    BY <1>1, <1>2 DEF IInv, CallsCover, Seen
<1>6. Unanswered'
    <2>1. InFlight \subseteq Job
        BY InJobs, CurrentJob DEF IInv, TypeOK, InFlight
    <2>2. x \in Issued
        <3>1. x \in Seen
            BY <1>2 DEF Seen
        <3>. QED BY <1>2, <3>1 DEF IInv, CallsCover, Issued
    <2>. QED BY <1>2, <1>3, <2>1, <2>2 DEF IInv, Unanswered
<1>7. Accounted'
    BY <1>1, <1>2, <1>3 DEF IInv, Accounted, Issued
<1>8. AnswersTrue'
    BY <1>1, <1>2, <1>3 DEF IInv, AnswersTrue
<1>9. StageOK'
    BY <1>1 DEF IInv, StageOK
<1>. QED BY <1>4, <1>5, <1>6, <1>7, <1>8, <1>9 DEF IInv

\* The process dies, or the store is dropped, and the store is opened again.
LEMMA OpenStep ==
    ASSUME IInv, TypeOK', OpenAgain, UNCHANGED diskVars
    PROVE  IInv'
<1>1. /\ queue' = <<>> /\ batch' = <<>> /\ stage' = "recv" /\ dropping' = FALSE /\ applied' = 0
      /\ lost' = lost \cup InFlight
      /\ UNCHANGED <<calls, answer, db>>
      /\ \A c \in Caller : ~blocked'[c]
    BY DEF OpenAgain, diskVars
<1>2. In(queue') = {} /\ In(batch') = {} /\ Ordered(queue') /\ Ordered(batch')
    BY <1>1, InJobs DEF Ordered
<1>3. InFlight' = {} /\ Issued' = Issued /\ Seen' \subseteq Seen /\ In(db') = In(db)
    BY <1>1, <1>2 DEF InFlight, Issued, Seen
<1>4. Lined'
    BY <1>1, <1>2 DEF IInv, Lined, Before, Uncommitted
<1>5. CallsCover'
    <2>1. Seen' \subseteq Job
        BY <1>3, InJobs DEF IInv, TypeOK, Seen
    <2>. QED BY <1>1, <1>3, <2>1, JobParts DEF IInv, CallsCover
<1>6. Unanswered' /\ Accounted' /\ AnswersTrue' /\ StageOK'
    BY <1>1, <1>3 DEF IInv, Unanswered, Accounted, AnswersTrue, StageOK
<1>. QED BY <1>4, <1>5, <1>6 DEF IInv

LEMMA InitIInv == Init => IInv
<1>. SUFFICES ASSUME Init PROVE IInv
    OBVIOUS
<1>1. TypeOK
    <2>1. /\ <<>> \in Seq(Job) /\ Len(<<>>) = 0 /\ 0 \in 0..Len(<<>>)
          /\ 0 <= QueueDepth /\ 0 <= MaxBatch /\ 0 \in 0..MaxCalls
        BY StoreAssumption
    <2>2. queue = <<>> /\ batch = <<>> /\ db = <<>> /\ applied = 0 /\ synced = 0
        BY DEF Init
    <2>3. /\ calls \in [Caller -> 0..MaxCalls] /\ blocked \in [Caller -> BOOLEAN]
          /\ answer \in [Job -> {"nothing", "ok", "err"}]
        BY <2>1 DEF Init
    <2>4. /\ stage \in Stages /\ open \in BOOLEAN /\ outcome \in {"ok", "err"}
          /\ dropping \in BOOLEAN /\ lives \in Nat /\ lost \subseteq Job
        BY DEF Init, Stages
    <2>. QED BY <2>1, <2>2, <2>3, <2>4 DEF TypeOK
<1>2. Seen = {} /\ InFlight = {} /\ Issued = {}
    <2>1. Issued = {}
        BY StoreAssumption DEF Init, Issued, Job
    <2>. QED BY <2>1, InJobs DEF Init, Seen, InFlight
<1>3. Lined
    BY InJobs DEF Init, Lined, Ordered, Before
<1>. QED BY <1>1, <1>2, <1>3 DEF Init, IInv, CallsCover, Unanswered, Accounted, StageOK, AnswersTrue

LEMMA NextIInv == IInv /\ [Next]_vars => IInv'
<1>. SUFFICES ASSUME IInv, [Next]_vars PROVE IInv'
    OBVIOUS
<1>1. TypeOK'
    BY TypeStep DEF IInv
<1>. USE <1>1
<1>2. ASSUME NEW c \in Caller, Write(c) PROVE IInv'
    BY <1>2, WriteStep
<1>3. ASSUME NEW c \in Caller, Unblock(c) PROVE IInv'
    BY <1>3, UnblockStep
<1>4. CASE DropStore
    <2>1. StageOK' /\ (Uncommitted' <=> Uncommitted)
        BY <1>4 DEF DropStore, IInv, StageOK, Uncommitted, callerVars, lifeVars
    <2>. QED BY <1>4, <2>1, QuietStep DEF DropStore, callerVars, diskVars, lifeVars
<1>5. CASE Take
    BY <1>5, TakeStep
<1>6. CASE Begin
    <2>1. StageOK' /\ (Uncommitted' <=> Uncommitted)
        BY <1>6 DEF Begin, IInv, StageOK, Uncommitted, callerVars, lifeVars
    <2>. QED BY <1>6, <2>1, QuietStep DEF Begin, callerVars, diskVars, lifeVars
<1>7. CASE BeginFails
    <2>1. StageOK' /\ (Uncommitted' <=> Uncommitted)
        BY <1>7 DEF BeginFails, Fail, IInv, StageOK, Uncommitted, callerVars, lifeVars
    <2>. QED BY <1>7, <2>1, QuietStep DEF BeginFails, Fail, callerVars, diskVars, lifeVars
<1>8. CASE Apply
    <2>1. StageOK' /\ (Uncommitted' <=> Uncommitted)
        BY <1>8 DEF Apply, IInv, StageOK, Uncommitted, callerVars, lifeVars
    <2>. QED BY <1>8, <2>1, QuietStep DEF Apply, callerVars, diskVars, lifeVars
<1>9. CASE ApplyFails
    <2>1. StageOK' /\ (Uncommitted' <=> Uncommitted)
        BY <1>9 DEF ApplyFails, Fail, IInv, StageOK, Uncommitted, callerVars, lifeVars
    <2>. QED BY <1>9, <2>1, QuietStep DEF ApplyFails, Fail, callerVars, diskVars, lifeVars
<1>10. CASE CommitBatch
    BY <1>10, CommitStep
<1>11. ASSUME NEW leftOpen \in BOOLEAN, CommitFails(leftOpen) PROVE IInv'
    <2>1. StageOK' /\ (Uncommitted' <=> Uncommitted)
        BY <1>11 DEF CommitFails, Fail, IInv, StageOK, Uncommitted, callerVars, lifeVars
    <2>. QED BY <1>11, <2>1, QuietStep DEF CommitFails, Fail, callerVars, diskVars, lifeVars
<1>12. CASE Answer
    BY <1>12, AnswerStep
<1>13. ASSUME NEW upTo \in synced..Len(db), NextBatch(upTo) PROVE IInv'
    <2>1. StageOK' /\ batch = <<>>
        BY <1>13 DEF NextBatch, IInv, StageOK, callerVars, lifeVars
    <2>. QED BY <1>13, <2>1, QuietStep DEF NextBatch, callerVars, lifeVars
<1>14. ASSUME NEW upTo \in synced..Len(db), WriterEnds(upTo) PROVE IInv'
    <2>1. StageOK' /\ batch = <<>>
        BY <1>14 DEF WriterEnds, IInv, StageOK, callerVars, lifeVars
    <2>. QED BY <1>14, <2>1, QuietStep DEF WriterEnds, callerVars, lifeVars
<1>15. CASE OpenAgain /\ UNCHANGED diskVars
    BY <1>15, OpenStep
<1>16. CASE UNCHANGED vars
    <2>1. StageOK' /\ (Uncommitted' <=> Uncommitted)
        BY <1>16 DEF vars, IInv, StageOK, Uncommitted, callerVars, lifeVars
    <2>. QED BY <1>16, <2>1, QuietStep DEF vars, callerVars, diskVars, lifeVars
<1>. QED
    BY <1>2, <1>3, <1>4, <1>5, <1>6, <1>7, <1>8, <1>9, <1>10, <1>11, <1>12, <1>13, <1>14,
       <1>15, <1>16
    DEF Next, Writer, Reopen, Crash

-----------------------------------------------------------------------------
(* What follows.                                                           *)

LEMMA Invariance == Spec => []IInv
BY InitIInv, NextIInv, PTL DEF Spec

\* The types, and the bounds of the channel and the batch, hold whatever is called.
THEOREM TypeCorrect == Spec => []TypeOK
<1>1. IInv => TypeOK
    BY DEF IInv
<1>. QED BY <1>1, Invariance, PTL

\* An acknowledged write is in the database, and stays there through any crash of the
\* process; a refused one is not, and will not be (writer_loop, commit).
THEOREM AnswersAlwaysTrue == Spec => []AnswersTrue
<1>1. IInv => AnswersTrue
    BY DEF IInv
<1>. QED BY <1>1, Invariance, PTL

\* A caller's writes are in the database in the order of its calls, each once.
THEOREM CallerOrderAlwaysKept == Spec => []CallerOrderKept
<1>1. IInv => CallerOrderKept
    BY DEF IInv, Lined, Ordered, Precedes, CallerOrderKept
<1>. QED BY <1>1, Invariance, PTL

\* When the drop of the store returns, nobody is left without an answer (Drop for Store).
THEOREM DropAlwaysFinishes == Spec => []DropFinishes
<1>1. IInv => DropFinishes
    <2>. SUFFICES ASSUME IInv, stage = "gone"
                  PROVE  \A j \in Issued : answer[j] # "nothing" \/ j \in lost
        BY DEF DropFinishes
    <2>1. queue = <<>> /\ batch = <<>> /\ \A c \in Caller : ~blocked[c]
        BY DEF IInv, StageOK
    <2>2. InFlight = {}
        BY <2>1, InJobs DEF InFlight
    <2>. QED BY <2>2 DEF IInv, Accounted
<1>. QED BY <1>1, Invariance, PTL

-----------------------------------------------------------------------------
(* The store implements DurableLog.                                        *)

\* What DurableLog sees does not change, or the step is one of its own.
LEMMA RefinesNext ==
    ASSUME IInv, IInv', [Next]_vars
    PROVE  [Log!LogNext]_(Log!logVars)
<1> DEFINE Still == UNCHANGED <<calls, blocked, queue, batch, db, answer>>
<1>1. ASSUME Still PROVE UNCHANGED Log!logVars
    BY <1>1 DEF Log!logVars, InFlight, Issued, Current
<1>2. ASSUME NEW c \in Caller, Write(c) PROVE Log!LogNext
    <2> DEFINE x == <<c, calls[c] + 1>>
    <2>1. x \in Job /\ Log!Ask(x)
        BY <1>2, WriteFacts DEF IInv, Log!Ask, Write, diskVars
    <2>. QED BY <2>1 DEF Log!LogNext
<1>3. ASSUME NEW c \in Caller, Unblock(c) PROVE UNCHANGED Log!logVars
    <2>1. In(queue') = In(queue) \cup {Current(c)}
        BY <1>3, CurrentJob, InAppend DEF IInv, TypeOK, Unblock
    <2>2. \A d \in Caller : Current(d)' = Current(d)
        BY <1>3 DEF Unblock, Current
    <2>3. blocked[c] /\ ~blocked'[c] /\ \A d \in Caller : d # c => blocked'[d] = blocked[d]
        BY <1>3 DEF Unblock, IInv, TypeOK
    <2>. QED BY <1>3, <2>1, <2>2, <2>3 DEF Log!logVars, InFlight, Issued, Unblock, diskVars
<1>4. CASE DropStore
    BY <1>1, <1>4 DEF DropStore, callerVars, diskVars
<1>5. CASE Take
    <2>1. Head(queue) \in Job /\ In(queue) = {Head(queue)} \cup In(queue')
          /\ In(batch') = In(batch) \cup {Head(queue)}
        BY <1>5, InTail, InAppend DEF Take, IInv, TypeOK
    <2>2. UNCHANGED <<calls, blocked, db, answer>>
        BY <1>5 DEF Take, callerVars, diskVars
    <2>. QED BY <2>1, <2>2 DEF Log!logVars, InFlight, Issued, Current
<1>6. CASE Begin
    BY <1>1, <1>6 DEF Begin, callerVars, diskVars
<1>7. CASE BeginFails
    BY <1>1, <1>7 DEF BeginFails, Fail, callerVars, diskVars
<1>8. CASE Apply
    BY <1>1, <1>8 DEF Apply, callerVars, diskVars
<1>9. CASE ApplyFails
    BY <1>1, <1>9 DEF ApplyFails, Fail, callerVars, diskVars
<1>10. CASE CommitBatch
    <2>1. /\ db' = db \o batch /\ stage = "apply"
          /\ UNCHANGED <<calls, blocked, queue, batch, answer>>
        BY <1>10 DEF CommitBatch, callerVars
    <2>2. batch \in Log!Groups
        <3>1. /\ Len(batch) \in 1..MaxBatch /\ DOMAIN batch = 1..Len(batch)
              /\ batch \in [1..Len(batch) -> Job]
            BY <2>1 DEF IInv, StageOK, TypeOK
        <3>. QED BY <3>1 DEF Log!Groups
    <2>3. ASSUME NEW i \in DOMAIN batch PROVE batch[i] \in InFlight /\ ~Log!OnDisk(batch[i])
        <3>1. batch[i] \in In(batch) /\ batch[i] \in Job
            BY InJobs DEF In, IInv, TypeOK
        <3>2. batch[i] \notin In(db)
            BY <2>1, <3>1, JobParts DEF IInv, Lined, Uncommitted, Before, Precedes
        <3>. QED BY <3>1, <3>2 DEF InFlight, Log!OnDisk, In
    <2>4. ASSUME NEW i \in DOMAIN batch, NEW k \in DOMAIN batch, batch[i] = batch[k] PROVE i = k
        <3>1. batch[i] \in Job /\ i \in Nat /\ k \in Nat
            BY DEF IInv, TypeOK
        <3>2. ~(i < k) /\ ~(k < i)
            BY <2>4, <3>1, JobParts DEF IInv, Lined, Ordered, Precedes
        <3>. QED BY <3>1, <3>2
    <2>5. InFlight' = InFlight /\ Issued' = Issued
        BY <2>1 DEF InFlight, Issued, Current
    <2>6. Log!Commit(batch)
        BY <2>1, <2>3, <2>4, <2>5 DEF Log!Commit
    <2>. QED BY <2>2, <2>6 DEF Log!LogNext
<1>11. ASSUME NEW leftOpen \in BOOLEAN, CommitFails(leftOpen) PROVE UNCHANGED Log!logVars
    BY <1>1, <1>11 DEF CommitFails, Fail, callerVars, diskVars
<1>12. CASE Answer
    <2> DEFINE x == Head(batch)
    <2>1. UNCHANGED db /\ answer' = [answer EXCEPT ![x] = outcome]
        BY <1>12 DEF Answer, diskVars
    <2>2. outcome \in Log!Answers /\ outcome = IF Log!OnDisk(x) THEN "ok" ELSE "err"
        BY <1>12, AnswerFacts DEF IInv, TypeOK, Log!Answers, Log!OnDisk, In
    <2>3. Log!Tell(x, outcome)
        BY <1>12, <2>1, <2>2, AnswerFacts DEF Log!Tell
    <2>. QED BY <1>12, <2>2, <2>3, AnswerFacts DEF Log!LogNext
<1>13. ASSUME NEW upTo \in synced..Len(db), NextBatch(upTo) PROVE UNCHANGED Log!logVars
    BY <1>1, <1>13 DEF NextBatch, callerVars
<1>14. ASSUME NEW upTo \in synced..Len(db), WriterEnds(upTo) PROVE UNCHANGED Log!logVars
    BY <1>1, <1>14 DEF WriterEnds, callerVars
<1>15. CASE OpenAgain /\ UNCHANGED diskVars
    <2>1. /\ UNCHANGED <<calls, answer, db>> /\ queue' = <<>> /\ batch' = <<>>
          /\ \A c \in Caller : ~blocked'[c]
        BY <1>15 DEF OpenAgain, diskVars
    <2>2. InFlight' = {} /\ Issued' = Issued
        BY <2>1, InJobs DEF InFlight, Issued
    <2>. QED BY <2>1, <2>2 DEF Log!LogNext, Log!Die
<1>16. CASE UNCHANGED vars
    BY <1>1, <1>16 DEF vars, callerVars, diskVars
<1>. QED
    BY <1>2, <1>3, <1>4, <1>5, <1>6, <1>7, <1>8, <1>9, <1>10, <1>11, <1>12, <1>13, <1>14,
       <1>15, <1>16
    DEF Next, Writer, Reopen, Crash

\* The store keeps the promise of DurableLog: what is told "ok" is on disk for good, what is
\* told "err" never will be, and a batch reaches the disk whole or not at all.
THEOREM StoreImplementsLog == Spec => ImplementsLog
<1>1. Init => Log!LogInit
    <2>. SUFFICES ASSUME Init PROVE Log!LogInit
        OBVIOUS
    <2>1. Issued = {} /\ InFlight = {}
        <3>1. Issued = {}
            BY StoreAssumption DEF Init, Issued, Job
        <3>. QED BY <3>1, InJobs DEF Init, InFlight
    <2>. QED BY <2>1 DEF Init, Log!LogInit
<1>2. IInv /\ IInv' /\ [Next]_vars => [Log!LogNext]_(Log!logVars)
    BY RefinesNext
<1>. QED BY <1>1, <1>2, Invariance, PTL DEF Spec, ImplementsLog, Log!LogSpec

-----------------------------------------------------------------------------
(* Operations: what is chosen and what is checked in order.                *)

\* What FirstBlock and FirstFailing choose is there to be chosen.
LEMMA LeastOf ==
    ASSUME NEW T, T \subseteq Nat, T # {}
    PROVE  \E m \in T : \A k \in T : m <= k
<1>1. \E m \in T : \A k \in T : <<k, m>> \notin OpToRel(<, Nat)
      BY WFMin, NatLessThanWellFounded, Zenon
<1>2. \A k, m \in T : k < m => <<k, m>> \in OpToRel(<, Nat)
      BY DEF OpToRel
<1>3. \E m \in T : \A k \in T : ~(k < m)
      BY <1>1, <1>2, Zenon
<1> QED BY <1>3

\* The least of a set of numbers.
LEMMA MinOf ==
    ASSUME NEW T, T \subseteq Nat, T # {}
    PROVE  Min(T) \in T /\ \A k \in T : Min(T) <= k
BY LeastOf DEF Min

\* What is not refused passed every check (first_failing, validate).
LEMMA FirstFails ==
    ASSUME NEW checks, NEW n \in Nat, DOMAIN checks = 1..n
    PROVE  \/ FirstFailing(checks) = None /\ \A i \in 1..n : ~checks[i][1]
           \/ \E i \in 1..n : checks[i][1] /\ FirstFailing(checks) = checks[i][2]
<1> DEFINE failing == {i \in DOMAIN checks : checks[i][1]}
<1>1. CASE failing = {}
      BY <1>1 DEF FirstFailing
<1>2. CASE failing # {}
      <2>1. Min(failing) \in failing
            BY <1>2, MinOf
      <2> QED BY <1>2, <2>1 DEF FirstFailing
<1> QED BY <1>1, <1>2

\* A refusal is never the absence of one.
LEMMA NotNone == \A why \in Reasons : why # None
BY ServiceAssumption

\* What is assumed of what an operator writes.
Lawful(said) ==
    /\ said.markets # None => IsFiniteSet(DOMAIN said.markets)
    /\ said.tls # None => {said.tls.cert, said.tls.key} \subseteq {"cert", "key"}

\* Config::validate: beyond loopback there are certificates.
LEMMA ValidConfig ==
    ASSUME NEW config, NEW found, Validate(config, found) = None
    PROVE  config.bind # "loopback" => config.tls # None
<1> DEFINE absent(path) == ~found[path].found
           checks == <<<<config.markets = <<>>, "no markets">>,
            <<config.bind # "loopback" /\ config.tls = None, "refusing to serve without TLS">>,
            <<config.tls # None /\ absent(config.tls.cert), "certificate not found">>,
            <<config.tls # None /\ absent(config.tls.key), "private key not found">> >>
<1>1. DOMAIN checks = 1..4
      OBVIOUS
<1>5. checks[2][1] <=> config.bind # "loopback" /\ config.tls = None
      OBVIOUS
<1>2. FirstFailing(checks) = None
      BY Zenon DEF Validate
<1>6. /\ checks[1][2] = "no markets" /\ checks[2][2] = "refusing to serve without TLS"
      /\ checks[3][2] = "certificate not found" /\ checks[4][2] = "private key not found"
      OBVIOUS
<1> HIDE DEF checks
<1>3. \A i \in 1..4 : checks[i][2] \in Reasons
      <2> TAKE i \in 1..4
      <2>1. i = 1 \/ i = 2 \/ i = 3 \/ i = 4
            OBVIOUS
      <2> QED BY <1>6, <2>1 DEF Reasons
<1>4. \A i \in 1..4 : ~checks[i][1]
      BY <1>1, <1>2, <1>3, FirstFails, NotNone
<1> QED BY <1>4, <1>5

\* Config::assemble: a configuration that is not refused has a token that is long enough,
\* TLS beyond loopback, names of the two files there are, and finitely many markets.
LEMMA AssembledConfig ==
    ASSUME NEW said, NEW env, NEW given, NEW found, Lawful(said),
           Assemble(said, env, given, found).refused = None
    PROVE  LET config == Assemble(said, env, given, found).config
           IN  /\ config.token \notin {None, "short"}
               /\ config.bind # "loopback" => config.tls # None
               /\ config.tls # None => {config.tls.cert, config.tls.key} \subseteq {"cert", "key"}
               /\ IsFiniteSet(ToSet(config.markets))
<1> DEFINE config == Settled(said, env, given)
           checks == <<<<config.token = None, "no token">>,
             <<config.token = "short", "token is too short">>,
             <<config.bind = "malformed", "not an address">>,
             <<config.metricsBind = "malformed", "not an address">>,
             <<config.tickers = <<>>, "no tickers">>,
             <<Validate(config, found) # None, "not valid">> >>
<1>1. Assemble(said, env, given, found) = [refused |-> FirstFailing(checks), config |-> config]
      BY Zenon DEF Assemble
<1>2. config.tls = said.tls /\ config.markets = Or(said.markets, <<"spot", "linear_perp">>)
      BY DEF Settled
<1> HIDE DEF config
<1>3. DOMAIN checks = 1..6
      OBVIOUS
<1>11. /\ checks[1][2] = "no token" /\ checks[2][2] = "token is too short"
       /\ checks[3][2] = "not an address" /\ checks[4][2] = "not an address"
       /\ checks[5][2] = "no tickers" /\ checks[6][2] = "not valid"
      OBVIOUS
<1>10. /\ checks[1][1] <=> config.token = None
       /\ checks[2][1] <=> config.token = "short"
       /\ checks[6][1] <=> Validate(config, found) # None
      OBVIOUS
<1> HIDE DEF checks
<1>4. \A i \in 1..6 : checks[i][2] \in Reasons
      <2> TAKE i \in 1..6
      <2>1. i = 1 \/ i = 2 \/ i = 3 \/ i = 4 \/ i = 5 \/ i = 6
            OBVIOUS
      <2> QED BY <1>11, <2>1 DEF Reasons
<1>5. \A i \in 1..6 : ~checks[i][1]
      <2>1. FirstFailing(checks) = None
            BY <1>1
      <2>2. \/ FirstFailing(checks) = None /\ \A i \in 1..6 : ~checks[i][1]
            \/ \E i \in 1..6 : checks[i][1] /\ FirstFailing(checks) = checks[i][2]
            BY <1>3, FirstFails
      <2> QED BY <2>1, <2>2, <1>4, NotNone
<1>6. config.token # None /\ config.token # "short" /\ Validate(config, found) = None
      BY <1>10, <1>5
<1>7. config.bind # "loopback" => config.tls # None
      BY <1>6, ValidConfig
<1>8. IsFiniteSet(DOMAIN config.markets)
      <2>1. CASE said.markets = None
            <3>1. DOMAIN config.markets = 1..2
                  BY <1>2, <2>1 DEF Or
            <3>2. \A n \in Nat : IsFiniteSet(1..n)
                  BY FS_Interval
            <3> QED BY <3>1, <3>2
      <2>2. CASE said.markets # None
            BY <1>2, <2>2 DEF Or, Lawful
      <2> QED BY <2>1, <2>2
<1>9. IsFiniteSet(ToSet(config.markets))
      <2> DEFINE m == config.markets
                 S == DOMAIN m
      <2>1. IsFiniteSet(S)
            BY <1>8
      <2>2. ToSet(m) = {m[i] : i \in S}
            BY DEF ToSet
      <2> HIDE DEF m, S
      <2>4. [i \in S |-> m[i]] \in Surjection(S, {m[i] : i \in S})
            BY DEF Surjection
      <2>3. IsFiniteSet({m[i] : i \in S})
            BY <2>1, <2>4, FS_Surjection
      <2> QED BY <2>2, <2>3 DEF m
<1> QED BY <1>1, <1>2, <1>6, <1>7, <1>9 DEF Lawful

FilesLawful == \A p \in DOMAIN files : Lawful(files[p].settings)

\* Config::load, whatever it was started with.
LEMMA LoadedConfig ==
    ASSUME FilesLawful, NEW args, NEW env, Load(args, env, files, pems).refused = None
    PROVE  LET config == Load(args, env, files, pems).config
           IN  /\ config.token \notin {None, "short"}
               /\ config.bind # "loopback" => config.tls # None
               /\ config.tls # None => {config.tls.cert, config.tls.key} \subseteq {"cert", "key"}
               /\ IsFiniteSet(ToSet(config.markets))
<1> DEFINE split == SplitArgs(args)
           read  == LoadFile(split.path, env, files)
           made  == Assemble(read.settings, env, split.tickers, pems)
<1>1. Load(args, env, files, pems) =
        [refused |-> Or(split.refused, Or(read.refused, made.refused)), config |-> made.config]
      BY Zenon DEF Load
<1>2. Lawful(FileDefault)
      BY DEF Lawful, FileDefault
<1>3. Lawful(read.settings)
      <2> DEFINE path == Or(split.path, Or(env.config, DEFAULT_CONFIG_PATH))
                 file == IF path \in DOMAIN files THEN files[path] ELSE NoFile
      <2>1. read.settings = IF file.state = "found" THEN file.settings ELSE FileDefault
            BY DEF LoadFile
      <2>2. Lawful(file.settings)
            BY <1>2 DEF FilesLawful, NoFile
      <2> QED BY <1>2, <2>1, <2>2
<1> HIDE DEF read, split
<1>4. made.refused = None
      BY <1>1 DEF Or
<1> QED BY <1>1, <1>3, <1>4, AssembledConfig

-----------------------------------------------------------------------------
(* The certificate a core serves with, from its files to its acceptor.     *)

Certs  == [kind : {"CERTIFICATE"}, key : Keys, serial : Serials]
NoPem  == [found |-> FALSE, blocks |-> <<>>]

\* A file holds what was last written to it: a certificate whose key is pinned, a private
\* key, or nothing.
PemsOK ==
    /\ pems = [p \in {"cert", "key"} |-> pems[p]]
    /\ \/ pems["cert"] = NoPem
       \/ \E c \in Certs : pems["cert"] = Pem(c) /\ PinOf(c) \in pins
    /\ \/ pems["key"] = NoPem
       \/ \E k \in Keys : pems["key"] = Pem([kind |-> "PRIVATE KEY", key |-> k])

\* The configuration was validated when it was loaded, the certificate chosen when the core
\* went up: it was in the file then, and its key has stayed pinned.
CoreOK ==
    /\ core = [stage |-> core.stage, refused |-> core.refused, config |-> core.config,
               cert |-> core.cert]
    /\ core.stage \in {"down", "loaded", "up"}
    /\ core.stage # "down" =>
          /\ core.config.token \notin {None, "short"}
          /\ core.config.bind # "loopback" => core.config.tls # None
          /\ core.config.tls # None =>
                {core.config.tls.cert, core.config.tls.key} \subseteq {"cert", "key"}
    /\ core.stage # "up" => core.cert = None
    /\ core.stage = "up" =>
          /\ core.config.tls # None => core.cert # None
          /\ core.cert # None => core.cert \in Certs /\ PinOf(core.cert) \in pins

TrustInv == FilesLawful /\ PemsOK /\ CoreOK

\* The acceptor is made from the certificate in the file, so from a pinned one.
LEMMA AcceptorTrusted ==
    ASSUME PemsOK, NEW tls, tls.cert \in {"cert", "key"}, Acceptor(tls, pems).refused = None
    PROVE  LET cert == Acceptor(tls, pems).cert IN cert \in Certs /\ PinOf(cert) \in pins
<1> DEFINE certs == Blocks(pems[tls.cert], "CERTIFICATE")
           keys  == Blocks(pems[tls.key], "PRIVATE KEY")
           cert  == FirstBlock(pems[tls.cert], "CERTIFICATE")
           checks == <<
                       <<~pems[tls.cert].found, "cannot read certificate">>,
                       <<certs = {}, "no CERTIFICATE block">>,
                       <<~pems[tls.key].found, "cannot read private key">>,
                       <<keys = {}, "no PRIVATE KEY block">>,
                       <<certs # {} /\ keys # {} /\
                         cert.key # FirstBlock(pems[tls.key], "PRIVATE KEY").key,
                         "not a usable pair">> >>
           why == FirstFailing(checks)
<1>1. Acceptor(tls, pems) = [refused |-> why, cert |-> IF why = None THEN cert ELSE None]
      BY Zenon DEF Acceptor
<1>2. DOMAIN checks = 1..5
      OBVIOUS
<1>3. checks[2][1] <=> certs = {}
      OBVIOUS
<1>4. /\ checks[1][2] = "cannot read certificate" /\ checks[2][2] = "no CERTIFICATE block"
      /\ checks[3][2] = "cannot read private key" /\ checks[4][2] = "no PRIVATE KEY block"
      /\ checks[5][2] = "not a usable pair"
      OBVIOUS
<1> HIDE DEF checks
<1>5. \A i \in 1..5 : checks[i][2] \in Reasons
      <2> TAKE i \in 1..5
      <2>1. i = 1 \/ i = 2 \/ i = 3 \/ i = 4 \/ i = 5
            OBVIOUS
      <2> QED BY <1>4, <2>1 DEF Reasons
<1>6. why = None
      BY <1>1
<1>7. \/ why = None /\ \A i \in 1..5 : ~checks[i][1]
      \/ \E i \in 1..5 : checks[i][1] /\ why = checks[i][2]
      BY <1>2, FirstFails
<1> HIDE DEF why
<1>8. certs # {}
      BY <1>3, <1>5, <1>6, <1>7, NotNone
<1>9. PICK c \in Certs : pems[tls.cert] = Pem(c) /\ PinOf(c) \in pins
      <2>1. ASSUME NEW k
            PROVE  Blocks(Pem([kind |-> "PRIVATE KEY", key |-> k]), "CERTIFICATE") = {}
            <3> DEFINE b == [kind |-> "PRIVATE KEY", key |-> k]
            <3>1. b.kind # "CERTIFICATE" /\ Pem(b).blocks = <<b>>
                  BY DEF Pem
            <3>2. DOMAIN <<b>> = 1..1 /\ <<b>>[1] = b
                  OBVIOUS
            <3> HIDE DEF b
            <3>3. Blocks(Pem(b), "CERTIFICATE") = {}
                  BY <3>1, <3>2 DEF Blocks
            <3> QED BY <3>3 DEF b
      <2>2. Blocks(NoPem, "CERTIFICATE") = {}
            BY DEF Blocks, NoPem
      <2>3. tls.cert = "cert" /\ pems["cert"] # NoPem
            <3> HIDE DEF NoPem
            <3> QED BY <1>8, <2>1, <2>2 DEF PemsOK
      <2> QED BY <2>3 DEF PemsOK
<1>10. certs = {1}
      BY <1>8, <1>9 DEF Blocks, Pem
<1>11. Min(certs) = 1
      BY <1>10, MinOf
<1>12. cert = c
      BY <1>9, <1>11 DEF FirstBlock, Pem
<1> HIDE DEF cert
<1> QED BY <1>1, <1>6, <1>9, <1>12

LEMMA CertNotNone == \A c \in Certs : c # None
BY ServiceAssumption DEF Certs

LEMMA TrustInit == ServiceInit => TrustInv
<1> SUFFICES ASSUME ServiceInit PROVE TrustInv
    OBVIOUS
<1>1. FilesLawful
      <2>1. Lawful(NoFile.settings)
            BY DEF Lawful, NoFile, FileDefault
      <2>2. \A s \in Settings : Lawful(s.file.settings)
            BY ServiceAssumption DEF Lawful
      <2> QED BY <2>1, <2>2 DEF ServiceInit, FilesLawful
<1>2. FirstKey \in Keys
      BY ServiceAssumption DEF FirstKey
<1>3. Cert(FirstKey, 1) \in Certs
      BY <1>2, ServiceAssumption DEF Cert, Certs
<1>4. PemsOK
      BY <1>2, <1>3 DEF ServiceInit, PemsOK
<1>5. CoreOK
      BY DEF ServiceInit, CoreOK, Down
<1> QED BY <1>1, <1>4, <1>5 DEF TrustInv

\* A loaded configuration is a valid one.
LEMMA TrustStart == TrustInv /\ Start => TrustInv'
<1> SUFFICES ASSUME TrustInv, Start PROVE TrustInv'
    OBVIOUS
<1>1. FilesLawful' /\ PemsOK'
      BY DEF TrustInv, FilesLawful, PemsOK, Start, keyVars
<1>2. PICK args \in Arguments, env \in Environments :
        LET loaded == Load(args, env, files, pems)
        IN  \/ loaded.refused = None /\ core' = [Down EXCEPT !.stage = "loaded", !.config = loaded.config]
            \/ core' = [Down EXCEPT !.refused = Or(loaded.refused, "unsupported")]
      BY DEF Start
<1> DEFINE loaded == Load(args, env, files, pems)
<1>3. CoreOK'
      <2>1. CASE core' = [Down EXCEPT !.refused = Or(loaded.refused, "unsupported")]
            BY <2>1 DEF CoreOK, Down
      <2>2. CASE /\ loaded.refused = None
                 /\ core' = [Down EXCEPT !.stage = "loaded", !.config = loaded.config]
            <3> DEFINE config == loaded.config
            <3>1. /\ config.token \notin {None, "short"}
                  /\ config.bind # "loopback" => config.tls # None
                  /\ config.tls # None => {config.tls.cert, config.tls.key} \subseteq {"cert", "key"}
                  BY <2>2, LoadedConfig DEF TrustInv
            <3> HIDE DEF config
            <3>2. core' = [stage |-> "loaded", refused |-> None, config |-> config, cert |-> None]
                  BY <2>2 DEF Down, config
            <3> QED BY <3>1, <3>2 DEF CoreOK
      <2> QED BY <1>2, <2>1, <2>2
<1> QED BY <1>1, <1>3 DEF TrustInv

LEMMA TrustGone == ASSUME NEW why, CoreOK, Gone(why) PROVE CoreOK'
BY DEF Gone, CoreOK, Down

\* main: the acceptor is made once, from the files as they are then.
LEMMA TrustUp == TrustInv /\ Up => TrustInv'
<1> SUFFICES ASSUME TrustInv, Up PROVE TrustInv'
    OBVIOUS
<1>1. FilesLawful' /\ PemsOK'
      BY DEF TrustInv, FilesLawful, PemsOK, Up, keyVars
<1> DEFINE tls == core.config.tls
           made == IF tls = None THEN [refused |-> None, cert |-> None] ELSE Acceptor(tls, pems)
<1>2. \/ made.refused = None /\ core' = [core EXCEPT !.stage = "up", !.cert = made.cert]
      \/ Gone(made.refused)
      BY DEF Up
<1>3. core.stage = "loaded"
      BY DEF Up
<1>4. CASE Gone(made.refused)
      BY <1>1, <1>4, TrustGone DEF TrustInv
<1>5. CASE made.refused = None /\ core' = [core EXCEPT !.stage = "up", !.cert = made.cert]
      <2>1. tls # None => made.cert \in Certs /\ PinOf(made.cert) \in pins
            BY <1>3, <1>5, AcceptorTrusted DEF TrustInv, CoreOK
      <2>2. tls = None => made.cert = None
            OBVIOUS
      <2> HIDE DEF made
      <2>3. core'.stage = "up" /\ core'.cert = made.cert /\ core'.config = core.config
            /\ core' = [stage |-> core'.stage, refused |-> core'.refused, config |-> core'.config,
               cert |-> core'.cert]
            BY <1>5 DEF TrustInv, CoreOK
      <2>4. pins' = pins
            BY DEF Up, keyVars
      <2>5. CoreOK'
            BY <1>3, <2>1, <2>2, <2>3, <2>4, CertNotNone DEF TrustInv, CoreOK
      <2> QED BY <1>1, <2>5 DEF TrustInv
<1> QED BY <1>2, <1>4, <1>5

\* A key is pinned before its certificate is written, and a pin is removed only once neither
\* the core nor its files have that key.
LEMMA TrustOperator ==
    ASSUME TrustInv,
           \/ Configure \/ AddPin \/ WriteCert \/ WriteKey \/ RemovePem \/ RemovePin
    PROVE  TrustInv'
<1>1. CASE Configure
      <2>1. PICK s \in Settings : files' = [files EXCEPT ![s.path] = s.file]
            BY <1>1 DEF Configure
      <2>2. Lawful(s.file.settings)
            BY ServiceAssumption DEF Lawful
      <2>3. FilesLawful'
            BY <2>1, <2>2 DEF TrustInv, FilesLawful
      <2> QED BY <1>1, <2>3 DEF Configure, coreVars, keyVars, TrustInv, PemsOK, CoreOK
<1>2. CASE AddPin
      <2>1. pins \subseteq pins' /\ UNCHANGED <<files, pems, core>>
            BY <1>2 DEF AddPin, coreVars
      <2> QED BY <2>1 DEF TrustInv, FilesLawful, PemsOK, CoreOK
<1>3. CASE WriteCert
      <2>1. PICK k \in Keys, n \in Serials :
               PinOf(Cert(k, 1)) \in pins /\ pems' = [pems EXCEPT !["cert"] = Pem(Cert(k, n))]
            BY <1>3 DEF WriteCert
      <2>2. UNCHANGED <<files, core, pins>>
            BY <1>3 DEF WriteCert, coreVars, keyVars
      <2> DEFINE c == Cert(k, n)
      <2>3. c \in Certs /\ PinOf(c) \in pins
            BY <2>1 DEF Certs, Cert, PinOf
      <2> HIDE DEF c
      <2>4. PemsOK'
            BY <2>1, <2>2, <2>3 DEF TrustInv, PemsOK, c
      <2> QED BY <2>2, <2>4 DEF TrustInv, FilesLawful, CoreOK
<1>4. CASE WriteKey
      <2>1. PICK k \in Keys : pems' = [pems EXCEPT !["key"] = Pem([kind |-> "PRIVATE KEY", key |-> k])]
            BY <1>4 DEF WriteKey
      <2>2. UNCHANGED <<files, core, pins>>
            BY <1>4 DEF WriteKey, coreVars, keyVars
      <2>3. PemsOK'
            BY <2>1, <2>2 DEF TrustInv, PemsOK
      <2> QED BY <2>2, <2>3 DEF TrustInv, FilesLawful, CoreOK
<1>5. CASE RemovePem
      <2>1. PICK p \in DOMAIN pems : pems' = [pems EXCEPT ![p] = NoPem]
            BY <1>5 DEF RemovePem, NoPem
      <2>2. UNCHANGED <<files, core, pins>>
            BY <1>5 DEF RemovePem, coreVars, keyVars
      <2>3. PemsOK'
            BY <2>1, <2>2 DEF TrustInv, PemsOK
      <2> QED BY <2>2, <2>3 DEF TrustInv, FilesLawful, CoreOK
<1>6. CASE RemovePin
      <2>1. /\ core.stage = "up" /\ core.cert # None /\ pems["cert"].found
            /\ pins' = {PinOf(core.cert), PinOf(pems["cert"].blocks[1])}
            /\ UNCHANGED <<files, core, pems>>
            BY <1>6 DEF RemovePin, coreVars
      <2>2. PICK c \in Certs : pems["cert"] = Pem(c)
            <3>1. ~NoPem.found
                  BY DEF NoPem
            <3> QED BY <2>1, <3>1 DEF TrustInv, PemsOK
      <2>3. PinOf(c) \in pins'
            BY <2>1, <2>2 DEF Pem
      <2>4. PemsOK'
            <3> HIDE DEF Pem, PinOf
            <3> QED BY <2>1, <2>2, <2>3 DEF TrustInv, PemsOK
      <2>5. CoreOK'
            BY <2>1 DEF TrustInv, CoreOK
      <2> QED BY <2>1, <2>4, <2>5 DEF TrustInv, FilesLawful
<1> QED BY <1>1, <1>2, <1>3, <1>4, <1>5, <1>6

\* Every step keeps it: the rest change no file, no pin and no certificate.
LEMMA TrustStep == TrustInv /\ [ServiceNext]_serviceVars => TrustInv'
<1> SUFFICES ASSUME TrustInv, [ServiceNext]_serviceVars PROVE TrustInv'
    OBVIOUS
<1>1. CASE Start
      BY <1>1, TrustStart
<1>2. CASE Up
      BY <1>2, TrustUp
<1>3. CASE Stop
      BY <1>3, TrustGone DEF Stop, keyVars, TrustInv, FilesLawful, PemsOK
<1>4. CASE \/ Configure \/ AddPin \/ WriteCert \/ WriteKey \/ RemovePem \/ RemovePin
      BY <1>4, TrustOperator
<1>5. CASE UNCHANGED <<files, pems, core, pins>>
      BY <1>5 DEF TrustInv, FilesLawful, PemsOK, CoreOK
<1>6. ServiceNext => \/ Start \/ Up \/ Stop \/ UNCHANGED <<files, pems, core, pins>>
                     \/ Configure \/ AddPin \/ WriteCert \/ WriteKey \/ RemovePem \/ RemovePin
      BY DEF ServiceNext, coreVars, keyVars, Forward, PumpDies, VenueAnswers, VenueDrops,
         Reconnect, TakeCommand, CommandLost, VenueSends, BookFrozen, Ask, Dial, Accept,
         Handshake, Greet, Subscribe, Receive, Hangup, Forget, StoreKey, WriteOn, DeleteKey
<1> QED BY <1>1, <1>2, <1>3, <1>4, <1>5, <1>6 DEF serviceVars, coreVars, keyVars

\* A core that is up was given a token, serves beyond loopback only over TLS, and with a
\* certificate every terminal trusts, whatever was written and rotated while it started and
\* since (Config::load, main, PinnedVerifier).
THEOREM AlwaysServesTrusted == ServiceSpec => []ServesTrusted
<1>1. TrustInv => ServesTrusted
      BY DEF TrustInv, CoreOK, ServesTrusted, VerifyServerCert
<1> QED BY TrustInit, TrustStep, <1>1, PTL DEF ServiceSpec

-----------------------------------------------------------------------------
(* The key a terminal goes by.                                             *)

\* The file is a prefix of a sealed key, and of the key the terminal goes by.
KeyTypeOK ==
    /\ kept \in {None} \cup [length : 0..FULL_LEN, key : Keys, passphrase : Passphrases]
    /\ known # None => kept # None /\ kept.key = known

\* EncryptedFile::load: a file that is there is never taken for none, and only a whole one
\* gives a key, the one it holds.
LEMMA Loading ==
    ASSUME NEW file \in [length : 0..FULL_LEN, key : Keys, passphrase : Passphrases],
           NEW passphrase
    PROVE  /\ LoadKey(file, passphrase).refused # "NotFound"
           /\ LoadKey(file, passphrase).refused = None => LoadKey(file, passphrase).key = file.key
<1> DEFINE checks == <<<<file.length < MAGIC_LEN, "WrongFormat">>,
                        <<file.length # FULL_LEN, "WrongLength">>,
                        <<file.passphrase # passphrase, "CannotDecrypt">> >>
           why == FirstFailing(checks)
<1>1. DOMAIN checks = 1..3 /\ checks[1][2] = "WrongFormat" /\ checks[2][2] = "WrongLength"
       /\ checks[3][2] = "CannotDecrypt"
      OBVIOUS
<1>2. file # None
      BY ServiceAssumption
<1> HIDE DEF checks
<1>3. why = None \/ \E i \in 1..3 : why = checks[i][2]
      BY <1>1, FirstFails
<1>4. why \in {None, "WrongFormat", "WrongLength", "CannotDecrypt"}
      BY <1>1, <1>3
<1>5. "NotFound" # None
      BY NotNone DEF Reasons
<1>6. LoadKey(file, passphrase) = [refused |-> why, key |-> IF why = None THEN file.key ELSE None]
      BY <1>2 DEF LoadKey, checks
<1> HIDE DEF why
<1> QED BY <1>4, <1>5, <1>6

LEMMA IdentityInit == ServiceInit => KeyTypeOK
BY DEF ServiceInit, KeyTypeOK

\* A key is stored where there was none, or over itself.
LEMMA IdentityStoreKey == KeyTypeOK /\ StoreKey => KeyTypeOK'
<1> SUFFICES ASSUME KeyTypeOK, StoreKey PROVE KeyTypeOK'
    OBVIOUS
<1>1. PICK passphrase \in Passphrases, other \in Passphrases, k \in Keys :
        LET loaded == LoadKey(kept, passphrase)
        IN  /\ loaded.refused \in {None, "NotFound"}
            /\ loaded.refused = None => k = loaded.key
            /\ kept' = Sealed(k, other)
      BY DEF StoreKey
<1>2. kept' \in [length : 0..FULL_LEN, key : Keys, passphrase : Passphrases]
      /\ kept'.key = k
      BY <1>1 DEF Sealed, FULL_LEN
<1>3. kept' # None
      BY <1>2, ServiceAssumption
<1>4. known' = known
      BY DEF StoreKey
<1>5. known # None => k = known
      BY <1>1, Loading DEF KeyTypeOK
<1> QED BY <1>2, <1>3, <1>4, <1>5 DEF KeyTypeOK

\* A write that goes on makes the prefix longer, and the key the terminal's once it is whole.
LEMMA IdentityWriteOn == KeyTypeOK /\ WriteOn => KeyTypeOK'
<1> SUFFICES ASSUME KeyTypeOK, WriteOn PROVE KeyTypeOK'
    OBVIOUS
<1>1. PICK n \in (kept.length + 1) .. FULL_LEN :
          /\ kept' = [kept EXCEPT !.length = n]
          /\ known' = IF n = FULL_LEN THEN kept.key ELSE known
      BY DEF WriteOn
<1>2. kept \in [length : 0..FULL_LEN, key : Keys, passphrase : Passphrases]
      BY DEF WriteOn, KeyTypeOK
<1>3. kept' \in [length : 0..FULL_LEN, key : Keys, passphrase : Passphrases]
      /\ kept'.key = kept.key
      BY <1>1, <1>2 DEF FULL_LEN
<1>4. kept' # None
      BY <1>3, ServiceAssumption
<1>5. known' \in {known, kept.key}
      BY <1>1
<1> QED BY <1>2, <1>3, <1>4, <1>5 DEF KeyTypeOK

\* Nothing else touches the file, but a delete, which forgets the key too.
LEMMA IdentityStep == KeyTypeOK /\ [ServiceNext]_serviceVars => KeyTypeOK'
<1> SUFFICES ASSUME KeyTypeOK, [ServiceNext]_serviceVars PROVE KeyTypeOK'
    OBVIOUS
<1>1. CASE StoreKey
      BY <1>1, IdentityStoreKey
<1>2. CASE WriteOn
      BY <1>2, IdentityWriteOn
<1>3. CASE DeleteKey
      BY <1>3 DEF DeleteKey, KeyTypeOK
<1>4. CASE UNCHANGED <<kept, known>>
      BY <1>4 DEF KeyTypeOK
<1>5. ServiceNext => StoreKey \/ WriteOn \/ DeleteKey \/ UNCHANGED <<kept, known>>
      BY DEF ServiceNext, keyVars, Start, Up, Stop, Forward, PumpDies, VenueAnswers, VenueDrops,
         Reconnect, TakeCommand, CommandLost, VenueSends, BookFrozen, Ask, Dial, Accept,
         Handshake, Greet, Subscribe, Receive, Hangup, Forget, Configure, AddPin, WriteCert,
         WriteKey, RemovePem, RemovePin
<1> QED BY <1>1, <1>2, <1>3, <1>4, <1>5 DEF serviceVars, keyVars

\* A key half-written across a crash never makes a terminal take itself for a new one, nor for
\* another one (EncryptedFile::store, load).
THEOREM IdentityAlwaysKept == ServiceSpec => []IdentityKept
<1>1. KeyTypeOK => IdentityKept
      BY Loading DEF KeyTypeOK, IdentityKept
<1> QED BY IdentityInit, IdentityStep, <1>1, PTL DEF ServiceSpec

-----------------------------------------------------------------------------
(* Sequences of no fixed set: the elements are the set.                    *)

IsSeq(s) == s \in Seq({s[i] : i \in DOMAIN s})

\* A function on 1..n is a sequence of its values.
LEMMA SomeSeq ==
    ASSUME NEW n \in Nat, NEW s, s = [i \in 1..n |-> s[i]]
    PROVE  IsSeq(s) /\ Len(s) = n
<1> DEFINE W == {s[i] : i \in DOMAIN s}
<1>1. DOMAIN s = 1..n
      OBVIOUS
<1>2. \A i \in 1..n : s[i] \in W
      BY <1>1
<1> HIDE DEF W
<1>3. s \in [1..n -> W]
      BY <1>2
<1>4. s \in Seq(W) /\ Len(s) = n
      BY <1>3
<1> QED BY <1>4 DEF IsSeq, W

\* A sequence of some set is one of its elements.
LEMMA SelfSeq == ASSUME NEW S, NEW s \in Seq(S) PROVE IsSeq(s)
<1>1. Len(s) \in Nat /\ s \in [1..Len(s) -> S]
      OBVIOUS
<1>2. s = [i \in 1..Len(s) |-> s[i]]
      BY <1>1
<1> QED BY <1>1, <1>2, SomeSeq

\* The shape of a sequence.
LEMMA SeqFacts ==
    ASSUME NEW s, IsSeq(s)
    PROVE  Len(s) \in Nat /\ DOMAIN s = 1..Len(s) /\ s = [i \in 1..Len(s) |-> s[i]]
<1> DEFINE W == {s[i] : i \in DOMAIN s}
<1>1. s \in Seq(W)
      BY DEF IsSeq
<1> HIDE DEF W
<1> QED BY <1>1

LEMMA AppendIsSeq ==
    ASSUME NEW s, IsSeq(s), NEW x
    PROVE  /\ IsSeq(Append(s, x)) /\ Len(Append(s, x)) = Len(s) + 1
           /\ \A i \in 1..Len(s) : Append(s, x)[i] = s[i]
           /\ Append(s, x)[Len(s) + 1] = x
<1> DEFINE S == {s[i] : i \in DOMAIN s} \cup {x}
           t == Append(s, x)
           n == Len(s)
<1>1. n \in Nat /\ s = [i \in 1..n |-> s[i]]
      BY SeqFacts
<1>2. (\A i \in 1..n : s[i] \in S) /\ x \in S
      BY SeqFacts
<1> HIDE DEF S
<1>3. s \in Seq(S)
      BY <1>1, <1>2
<1>4. /\ t \in Seq(S) /\ Len(t) = n + 1
      /\ \A i \in 1..n : t[i] = s[i]
      /\ t[n + 1] = x
      BY <1>2, <1>3
<1>6. IsSeq(t)
      BY <1>4, SelfSeq
<1> QED BY <1>4, <1>6

LEMMA TailIsSeq ==
    ASSUME NEW s, IsSeq(s), s # <<>>
    PROVE  /\ IsSeq(Tail(s)) /\ Len(Tail(s)) = Len(s) - 1 /\ Len(s) \in Nat \ {0}
           /\ \A i \in 1..(Len(s) - 1) : Tail(s)[i] = s[i + 1]
           /\ Head(s) = s[1]
<1> DEFINE S == {s[i] : i \in DOMAIN s}
           t == Tail(s)
           n == Len(s)
<1>1. s \in Seq(S)
      BY DEF IsSeq
<1> HIDE DEF S
<1>2. /\ n \in Nat /\ n # 0 /\ t \in Seq(S) /\ Len(t) = n - 1
      /\ \A i \in 1..(n - 1) : t[i] = s[i + 1]
      /\ Head(s) = s[1]
      BY <1>1
<1>4. IsSeq(t)
      BY <1>2, SelfSeq
<1> QED BY <1>2, <1>4

LEMMA OneSeq == ASSUME NEW x PROVE IsSeq(<<x>>) /\ Len(<<x>>) = 1 /\ <<x>>[1] = x
<1>1. <<x>> = [i \in 1..1 |-> <<x>>[i]]
      OBVIOUS
<1> QED BY <1>1, SomeSeq

LEMMA EmptyIsSeq == IsSeq(<<>>) /\ Len(<<>>) = 0
BY DEF IsSeq

-----------------------------------------------------------------------------
(* A connector's streams, and the commands it has not written yet.         *)

Replayed(f, c) ==
    /\ f[0] = c.active
    /\ \A i \in 1..Len(c.commands) : f[i] = Recorded(f[i - 1], c.commands[i], TRUE)
    /\ f[Len(c.commands)] = c.asked

ConnectorFields == {"link", "active", "venue", "asked", "commands", "backoff"}
IsConnector(c)  == c = [f \in ConnectorFields |-> c[f]]

\* Replaying what waits, over what is active, gives what was asked for; and a connector that
\* is up has told the venue of everything active. A failed write has been recorded already.
ConnectorOK(c) ==
    /\ IsConnector(c)
    /\ IsSeq(c.commands)
    /\ \E f : Replayed(f, c)
    /\ c.link = "up" => c.venue = c.active

StreamInv == \A m \in DOMAIN connectors : ConnectorOK(connectors[m])

\* The head of the queue is replayed first: taking it (pump) leaves the rest to replay.
LEMMA CommandTaken ==
    ASSUME NEW c, ConnectorOK(c), NEW d, c.commands # <<>>,
           d.commands = Tail(c.commands), d.asked = c.asked,
           d.active = Recorded(c.active, Head(c.commands), TRUE)
    PROVE  IsSeq(d.commands) /\ \E f : Replayed(f, d)
<1> DEFINE n == Len(c.commands)
<1>1. PICK f : Replayed(f, c)
      BY DEF ConnectorOK
<1>2. /\ IsSeq(d.commands) /\ Len(d.commands) = n - 1 /\ n \in Nat \ {0}
      /\ \A i \in 1..(n - 1) : d.commands[i] = c.commands[i + 1]
      /\ Head(c.commands) = c.commands[1]
      BY TailIsSeq DEF ConnectorOK
<1> DEFINE g == [i \in 0..(n - 1) |-> f[i + 1]]
<1>3. /\ f[0] = c.active /\ f[n] = c.asked
      /\ \A i \in 1..n : f[i] = Recorded(f[i - 1], c.commands[i], TRUE)
      BY <1>1 DEF Replayed
<1> HIDE DEF n
<1>4. g[0] = d.active
      <2>1. 1 \in 1..n /\ 1 - 1 = 0 /\ 0 \in 0..(n - 1) /\ 0 + 1 = 1
            BY <1>2
      <2>2. f[1] = Recorded(f[1 - 1], c.commands[1], TRUE)
            BY <1>3, <2>1
      <2>3. g[0] = f[1]
            BY <2>1
      <2> QED BY <1>2, <1>3, <2>1, <2>2, <2>3
<1>5. g[n - 1] = d.asked
      BY <1>2, <1>3
<1>6. ASSUME NEW i \in 1..(n - 1)
      PROVE  g[i] = Recorded(g[i - 1], d.commands[i], TRUE)
      <2>1. i + 1 \in 1..n /\ (i + 1) - 1 = i /\ i \in 0..(n - 1) /\ i - 1 \in 0..(n - 1)
            /\ (i - 1) + 1 = i
            BY <1>2
      <2>2. f[i + 1] = Recorded(f[(i + 1) - 1], c.commands[i + 1], TRUE)
            BY <1>3, <2>1
      <2>3. g[i] = f[i + 1] /\ g[i - 1] = f[i]
            BY <2>1
      <2> QED BY <1>2, <2>1, <2>2, <2>3
<1> HIDE DEF g
<1>7. Replayed(g, d)
      BY <1>2, <1>4, <1>5, <1>6 DEF Replayed
<1> QED BY <1>2, <1>7

\* A command put at the end (subscribe, unsubscribe) is replayed last.
LEMMA CommandAsked ==
    ASSUME NEW c, ConnectorOK(c), NEW d, NEW command,
           d.commands = Append(c.commands, command), d.active = c.active,
           d.asked = Recorded(c.asked, command, TRUE)
    PROVE  IsSeq(d.commands) /\ \E f : Replayed(f, d)
<1> DEFINE n == Len(c.commands)
<1>1. PICK f : Replayed(f, c)
      BY DEF ConnectorOK
<1>2. /\ IsSeq(d.commands) /\ Len(d.commands) = n + 1
      /\ \A i \in 1..n : d.commands[i] = c.commands[i]
      /\ d.commands[n + 1] = command
      BY AppendIsSeq DEF ConnectorOK
<1>3. n \in Nat
      BY SeqFacts DEF ConnectorOK
<1> DEFINE g == [i \in 0..(n + 1) |-> IF i = n + 1 THEN d.asked ELSE f[i]]
<1>4. /\ f[0] = c.active /\ f[n] = c.asked
      /\ \A i \in 1..n : f[i] = Recorded(f[i - 1], c.commands[i], TRUE)
      BY <1>1 DEF Replayed
<1> HIDE DEF n
<1>5. g[0] = d.active /\ g[n + 1] = d.asked
      <2>1. 0 \in 0..(n + 1) /\ 0 # n + 1 /\ n + 1 \in 0..(n + 1)
            BY <1>3
      <2> QED BY <1>4, <2>1
<1>6. ASSUME NEW i \in 1..(n + 1)
      PROVE  g[i] = Recorded(g[i - 1], d.commands[i], TRUE)
      <2>1. CASE i = n + 1
            <3>1. i - 1 = n /\ n \in 0..(n + 1) /\ n # n + 1 /\ n + 1 \in 0..(n + 1)
                  BY <1>3, <2>1
            <3>2. g[i] = d.asked /\ g[i - 1] = f[n]
                  BY <2>1, <3>1
            <3> QED BY <1>2, <1>4, <2>1, <3>2
      <2>2. CASE i # n + 1
            <3>1. i \in 1..n /\ i \in 0..(n + 1) /\ i - 1 \in 0..(n + 1) /\ i - 1 # n + 1
                  BY <1>3, <2>2
            <3>2. g[i] = f[i] /\ g[i - 1] = f[i - 1]
                  BY <2>2, <3>1
            <3> QED BY <1>2, <1>4, <3>1, <3>2
      <2> QED BY <2>1, <2>2
<1> HIDE DEF g
<1>7. Replayed(g, d)
      BY <1>2, <1>5, <1>6 DEF Replayed
<1> QED BY <1>2, <1>7

LEMMA ConnectorStep ==
    ASSUME StreamInv, NEW m \in DOMAIN connectors, NEW d, ConnectorOK(d),
           connectors' = [connectors EXCEPT ![m] = d]
    PROVE  StreamInv'
BY DEF StreamInv

\* What is asked for is queued, and recorded in what was asked.
LEMMA StreamAsk ==
    ASSUME StreamInv, NEW m \in DOMAIN connectors, NEW add, NEW subs, Ask(m, add, subs)
    PROVE  StreamInv'
<1> DEFINE c == connectors[m]
           command == [add |-> add, streams |-> {StreamName(s) : s \in subs}]
           d == [c EXCEPT !.commands = Append(c.commands, command),
                          !.asked = Recorded(c.asked, command, TRUE)]
<1>1. connectors' = [connectors EXCEPT ![m] = d]
      BY DEF Ask
<1>2. ConnectorOK(c)
      BY DEF StreamInv
<1> HIDE DEF command, c
<1>5. IsConnector(c)
      BY <1>2 DEF ConnectorOK
<1>3. /\ d.commands = Append(c.commands, command) /\ d.active = c.active
      /\ d.asked = Recorded(c.asked, command, TRUE)
      /\ d.link = c.link /\ d.venue = c.venue /\ IsConnector(d)
      BY <1>5 DEF IsConnector, ConnectorFields
<1> HIDE DEF d
<1>4. ConnectorOK(d)
      <2>1. IsSeq(d.commands) /\ \E f : Replayed(f, d)
            BY <1>2, <1>3, CommandAsked
      <2> QED BY <1>2, <1>3, <2>1 DEF ConnectorOK
<1> QED BY <1>1, <1>4, ConnectorStep

\* The pump writes the oldest command: the venue and the connector agree.
LEMMA StreamTake ==
    ASSUME StreamInv, NEW m \in DOMAIN connectors, TakeCommand(m)
    PROVE  StreamInv'
<1> DEFINE c == connectors[m]
           command == Head(c.commands)
           d == [c EXCEPT !.commands = Tail(c.commands), !.active = Recorded(c.active, command, TRUE),
                          !.venue = Recorded(c.venue, command, TRUE)]
<1>1. connectors' = [connectors EXCEPT ![m] = d] /\ c.link = "up" /\ c.commands # <<>>
      BY DEF TakeCommand
<1>2. ConnectorOK(c)
      BY DEF StreamInv
<1> HIDE DEF c
<1>5. IsConnector(c)
      BY <1>2 DEF ConnectorOK
<1>3. /\ d.commands = Tail(c.commands) /\ d.active = Recorded(c.active, Head(c.commands), TRUE)
      /\ d.asked = c.asked /\ d.venue = Recorded(c.venue, Head(c.commands), TRUE)
      /\ d.link = c.link /\ IsConnector(d)
      BY <1>5 DEF IsConnector, ConnectorFields
<1> HIDE DEF d
<1>4. ConnectorOK(d)
      <2>1. IsSeq(d.commands) /\ \E f : Replayed(f, d)
            BY <1>1, <1>2, <1>3, CommandTaken
      <2>2. d.venue = d.active
            BY <1>1, <1>2, <1>3 DEF ConnectorOK
      <2> QED BY <1>3, <2>1, <2>2 DEF ConnectorOK
<1> QED BY <1>1, <1>4, ConnectorStep

\* Nothing waiting or active changes with the link.
LEMMA SamePending ==
    ASSUME NEW c, ConnectorOK(c), NEW d, d.commands = c.commands, d.active = c.active,
           d.asked = c.asked
    PROVE  IsSeq(d.commands) /\ \E f : Replayed(f, d)
BY DEF ConnectorOK, Replayed

\* A connection made tells the venue what is active; one that breaks tells it nothing.
LEMMA StreamLink ==
    ASSUME StreamInv, NEW m \in DOMAIN connectors,
           VenueAnswers(m) \/ VenueDrops(m) \/ Reconnect(m)
    PROVE  StreamInv'
<1> DEFINE c == connectors[m]
<1>1. ConnectorOK(c) /\ IsConnector(c)
      BY DEF StreamInv, ConnectorOK
<1>2. ASSUME NEW d, d.link = "up" => d.venue = c.active, IsConnector(d),
             d.active = c.active, d.asked = c.asked, d.commands = c.commands,
             connectors' = [connectors EXCEPT ![m] = d]
      PROVE  StreamInv'
      <2> HIDE DEF c
      <2>2. ConnectorOK(d)
            BY <1>1, <1>2, SamePending DEF ConnectorOK
      <2> QED BY <1>2, <2>2, ConnectorStep
<1>3. CASE VenueAnswers(m)
      <2> DEFINE d == [c EXCEPT !.link = "up", !.venue = connectors[m].active,
                                !.backoff = BACKOFF_START]
      <2>1. connectors' = [connectors EXCEPT ![m] = d]
            BY <1>3 DEF VenueAnswers
      <2>2. /\ d.active = c.active /\ d.asked = c.asked /\ d.commands = c.commands
            /\ d.venue = c.active /\ IsConnector(d)
            BY <1>1 DEF IsConnector, ConnectorFields
      <2> HIDE DEF d, c
      <2> QED BY <1>2, <2>1, <2>2
<1>4. CASE VenueDrops(m)
      <2> DEFINE link == IF pipe.closed THEN "stopped" ELSE "waiting"
                 d == [c EXCEPT !.link = link, !.active = connectors[m].active, !.venue = {},
                                !.commands = connectors[m].commands]
      <2>1. connectors' = [connectors EXCEPT ![m] = d]
            BY <1>4 DEF VenueDrops, Lose
      <2>2. link # "up"
            OBVIOUS
      <2> HIDE DEF link
      <2>3. /\ d.active = c.active /\ d.asked = c.asked /\ d.commands = c.commands
            /\ d.link = link /\ IsConnector(d)
            BY <1>1 DEF IsConnector, ConnectorFields
      <2> HIDE DEF d, c
      <2> QED BY <1>2, <2>1, <2>2, <2>3
<1>5. CASE Reconnect(m)
      <2> DEFINE wait == 2 * connectors[m].backoff
                 backoff == IF wait < BACKOFF_MAX THEN wait ELSE BACKOFF_MAX
                 d == [c EXCEPT !.link = "connecting", !.backoff = backoff]
      <2>1. connectors' = [connectors EXCEPT ![m] = d]
            BY <1>5 DEF Reconnect
      <2> HIDE DEF backoff
      <2>2. /\ d.active = c.active /\ d.asked = c.asked /\ d.commands = c.commands
            /\ d.link = "connecting" /\ IsConnector(d)
            BY <1>1 DEF IsConnector, ConnectorFields
      <2> HIDE DEF d, c
      <2> QED BY <1>2, <2>1, <2>2
<1> QED BY <1>3, <1>4, <1>5

\* A write that fails has been recorded, and goes again with the rest at the next connection.
LEMMA StreamLost ==
    ASSUME StreamInv, NEW m \in DOMAIN connectors, CommandLost(m)
    PROVE  StreamInv'
<1> DEFINE c == connectors[m]
           command == Head(c.commands)
           d == [c EXCEPT !.link = IF pipe.closed THEN "stopped" ELSE "waiting",
                   !.active = Recorded(c.active, command, FALSE), !.venue = {},
                   !.commands = Tail(c.commands)]
<1>1. connectors' = [connectors EXCEPT ![m] = d] /\ c.commands # <<>>
      BY DEF CommandLost, Lose
<1>2. ConnectorOK(c)
      BY DEF StreamInv
<1> HIDE DEF c
<1>5. Recorded(c.active, command, FALSE) = Recorded(c.active, command, TRUE)
      BY DEF Recorded
<1>6. IsConnector(c)
      BY <1>2 DEF ConnectorOK
<1>3. /\ d.commands = Tail(c.commands) /\ d.active = Recorded(c.active, Head(c.commands), TRUE)
      /\ d.asked = c.asked /\ d.link # "up" /\ IsConnector(d)
      BY <1>5, <1>6 DEF IsConnector, ConnectorFields
<1> HIDE DEF d
<1>4. ConnectorOK(d)
      <2>1. IsSeq(d.commands) /\ \E f : Replayed(f, d)
            BY <1>1, <1>2, <1>3, CommandTaken
      <2> QED BY <1>3, <2>1 DEF ConnectorOK
<1> QED BY <1>1, <1>4, ConnectorStep

\* A new connector has its first subscription to write.
LEMMA NewConnectorOK == ASSUME NEW config PROVE ConnectorOK(NewConnector(config))
<1> DEFINE streams == {StreamName(s) : s \in Wanted(config)}
           command == [add |-> TRUE, streams |-> streams]
           c == NewConnector(config)
<1>1. c = [link |-> "connecting", active |-> {}, venue |-> {}, asked |-> streams,
           commands |-> <<command>>, backoff |-> BACKOFF_START]
      BY DEF NewConnector
<1>2. Recorded({}, command, TRUE) = streams
      BY DEF Recorded
<1>3. IsSeq(<<command>>) /\ Len(<<command>>) = 1 /\ <<command>>[1] = command
      BY OneSeq
<1> DEFINE f == [i \in 0..1 |-> IF i = 0 THEN {} ELSE streams]
<1>4. f[0] = {} /\ f[1] = streams
      OBVIOUS
<1> HIDE DEF f, streams, command, c
<1>5. Replayed(f, c)
      <2> SUFFICES ASSUME NEW i \in 1..1 PROVE f[i] = Recorded(f[i - 1], <<command>>[i], TRUE)
          BY <1>1, <1>3, <1>4 DEF Replayed
      <2>1. i = 1 /\ i - 1 = 0
            OBVIOUS
      <2> QED BY <1>2, <1>3, <1>4, <2>1
<1>6. IsConnector(c)
      BY <1>1 DEF IsConnector, ConnectorFields
<1>7. IsSeq(c.commands) /\ c.link # "up"
      BY <1>1, <1>3
<1>8. ConnectorOK(c)
      BY <1>5, <1>6, <1>7 DEF ConnectorOK
<1> QED BY <1>8 DEF c

LEMMA StreamStart == StreamInv /\ Start => StreamInv'
<1> SUFFICES ASSUME StreamInv, Start PROVE StreamInv'
    OBVIOUS
<1>1. \/ \E markets, config : connectors' = [m \in markets |-> NewConnector(config)]
      \/ connectors' = connectors
      <2>1. PICK args \in Arguments, env \in Environments :
               LET loaded  == Load(args, env, files, pems)
                   config  == loaded.config
                   markets == ToSet(config.markets)
               IN  IF loaded.refused = None /\ \A m \in markets : EndpointsFor(m) # None
                   THEN connectors' = [m \in markets |-> NewConnector(config)]
                   ELSE UNCHANGED connectors
            BY DEF Start
      <2> QED BY <2>1
<1> QED BY <1>1, NewConnectorOK DEF StreamInv

LEMMA StreamGone == ASSUME NEW why, Gone(why) PROVE StreamInv'
BY DEF Gone, StreamInv

\* Every step keeps it, whatever breaks.
LEMMA StreamStep == StreamInv /\ [ServiceNext]_serviceVars => StreamInv'
<1> SUFFICES ASSUME StreamInv, [ServiceNext]_serviceVars PROVE StreamInv'
    OBVIOUS
<1>1. CASE UNCHANGED connectors
      BY <1>1 DEF StreamInv
<1>2. CASE Start
      BY <1>2, StreamStart
<1>3. CASE Stop
      BY <1>3, StreamGone DEF Stop
<1>4. CASE Up
      BY <1>1, <1>4, StreamGone DEF Up
<1>5. ASSUME NEW m \in DOMAIN connectors,
             \/ VenueAnswers(m) \/ VenueDrops(m) \/ Reconnect(m) \/ TakeCommand(m) \/ CommandLost(m)
             \/ \E add \in BOOLEAN, subs \in Asks : Ask(m, add, subs)
      PROVE  StreamInv'
      BY <1>5, StreamLink, StreamTake, StreamLost, StreamAsk
<1>6. ASSUME NEW m \in DOMAIN connectors, VenueSends(m) \/ BookFrozen(m)
      PROVE  UNCHANGED connectors
      BY <1>6 DEF VenueSends, BookFrozen
<1>7. CASE Forward \/ PumpDies \/ Configure \/ AddPin \/ WriteCert \/ WriteKey \/ RemovePem
           \/ RemovePin \/ StoreKey \/ WriteOn \/ DeleteKey
      BY <1>1, <1>7 DEF coreVars, Forward, PumpDies, Configure, AddPin, WriteCert, WriteKey,
         RemovePem, RemovePin, StoreKey, WriteOn, DeleteKey
<1>8. ASSUME NEW t \in Terminal,
             \/ Dial(t) \/ Accept(t) \/ Handshake(t) \/ Greet(t) \/ Subscribe(t)
             \/ Receive(t) \/ Hangup(t) \/ Forget(t)
      PROVE  UNCHANGED connectors
      BY <1>8 DEF coreVars, Dial, Accept, Handshake, Greet, Subscribe, Receive, Hangup, Forget
<1> QED BY <1>1, <1>2, <1>3, <1>4, <1>5, <1>6, <1>7, <1>8 DEF ServiceNext, serviceVars, coreVars

\* A connector that is up with nothing left to write has, at the venue, exactly the streams
\* that were asked for, whatever broke meanwhile (socket_task, pump).
THEOREM StreamsAlwaysAsAsked == ServiceSpec => []StreamsAsAsked
<1>1. ServiceInit => StreamInv
      <2>1. DOMAIN <<>> = {}
            OBVIOUS
      <2> QED BY <2>1 DEF ServiceInit, StreamInv
<1>2. StreamInv => StreamsAsAsked
      <2> SUFFICES ASSUME NEW c, ConnectorOK(c), c.link = "up", c.commands = <<>>
                   PROVE  c.venue = c.asked
          BY DEF StreamInv, StreamsAsAsked
      <2>1. Len(c.commands) = 0
            BY EmptyIsSeq
      <2>2. c.asked = c.active
            BY <2>1 DEF ConnectorOK, Replayed
      <2> QED BY <2>2 DEF ConnectorOK
<1> QED BY <1>1, <1>2, StreamStep, PTL DEF ServiceSpec

-----------------------------------------------------------------------------
(* What the connectors produce and the pump forwards.                      *)

LEMMA ConcatIsSeq ==
    ASSUME NEW s, IsSeq(s), NEW t, IsSeq(t)
    PROVE  /\ IsSeq(s \o t) /\ Len(s \o t) = Len(s) + Len(t)
           /\ \A i \in 1..Len(s) : (s \o t)[i] = s[i]
           /\ \A i \in 1..Len(t) : (s \o t)[Len(s) + i] = t[i]
<1> DEFINE S == {s[i] : i \in DOMAIN s} \cup {t[i] : i \in DOMAIN t}
           u == s \o t
<1>1. /\ Len(s) \in Nat /\ s = [i \in 1..Len(s) |-> s[i]]
      /\ Len(t) \in Nat /\ t = [i \in 1..Len(t) |-> t[i]]
      BY SeqFacts
<1>2. (\A i \in 1..Len(s) : s[i] \in S) /\ \A i \in 1..Len(t) : t[i] \in S
      BY SeqFacts
<1> HIDE DEF S
<1>3. s \in Seq(S)
      BY <1>1, <1>2
<1>4. t \in Seq(S)
      BY <1>1, <1>2
<1>5. u \in Seq(S) /\ Len(u) = Len(s) + Len(t)
      BY <1>3, <1>4
<1>6. ASSUME NEW i \in 1..Len(s) PROVE u[i] = s[i]
      BY <1>1, <1>3, <1>4
<1>7. ASSUME NEW i \in 1..Len(t) PROVE u[Len(s) + i] = t[i]
      BY <1>1, <1>3, <1>4
<1>8. IsSeq(u)
      BY <1>5, SelfSeq
<1> QED BY <1>5, <1>6, <1>7, <1>8

EventKinds == {"BookSnapshot", "BookDelta", "Trade", "Resyncing", "Disconnected", "Ready",
               "Connecting"}

\* A book is of an instrument: a session without a subscription wants none.
IsEvent(e) == e.kind \in EventKinds /\ (e.kind = "BookSnapshot" => e.key # <<>>)
Events(s)  == IsSeq(s) /\ \A i \in 1..Len(s) : IsEvent(s[i])

LEMMA OneEvent == ASSUME NEW e, IsEvent(e) PROVE Events(<<e>>) /\ Len(<<e>>) = 1
<1>1. IsSeq(<<e>>) /\ Len(<<e>>) = 1 /\ <<e>>[1] = e
      BY OneSeq
<1>2. ASSUME NEW i \in 1..Len(<<e>>) PROVE IsEvent(<<e>>[i])
      <2>1. i = 1
            BY <1>1
      <2> QED BY <1>1, <2>1
<1> QED BY <1>1, <1>2 DEF Events

LEMMA MoreEvents ==
    ASSUME NEW s, Events(s), NEW t, Events(t)
    PROVE  Events(s \o t) /\ Len(s \o t) = Len(s) + Len(t) /\ Len(s) \in Nat /\ Len(t) \in Nat
<1> DEFINE u == s \o t
<1>1. /\ IsSeq(u) /\ Len(u) = Len(s) + Len(t)
      /\ \A i \in 1..Len(s) : u[i] = s[i]
      /\ \A i \in 1..Len(t) : u[Len(s) + i] = t[i]
      BY ConcatIsSeq DEF Events
<1>2. Len(s) \in Nat /\ Len(t) \in Nat
      BY SeqFacts DEF Events
<1> HIDE DEF u
<1>3. ASSUME NEW i \in 1..Len(u) PROVE IsEvent(u[i])
      <2>1. CASE i <= Len(s)
            BY <1>1, <1>2, <2>1 DEF Events
      <2>2. CASE ~(i <= Len(s))
            <3> DEFINE k == i - Len(s)
            <3>1. k \in 1..Len(t) /\ i = Len(s) + k
                  BY <1>1, <1>2, <2>2
            <3> HIDE DEF k
            <3> QED BY <1>1, <3>1 DEF Events
      <2> QED BY <2>1, <2>2
<1>4. Events(u)
      BY <1>1, <1>3 DEF Events
<1> QED BY <1>1, <1>2, <1>4 DEF u

LEMMA AnotherEvent ==
    ASSUME NEW s, Events(s), NEW e, IsEvent(e)
    PROVE  Events(Append(s, e)) /\ Len(Append(s, e)) = Len(s) + 1 /\ Len(s) \in Nat
<1> DEFINE u == Append(s, e)
<1>1. /\ IsSeq(u) /\ Len(u) = Len(s) + 1
      /\ \A i \in 1..Len(s) : u[i] = s[i]
      /\ u[Len(s) + 1] = e
      BY AppendIsSeq DEF Events
<1>2. Len(s) \in Nat
      BY SeqFacts DEF Events
<1> HIDE DEF u
<1>3. ASSUME NEW i \in 1..Len(u) PROVE IsEvent(u[i])
      <2>1. i \in 1..Len(s) \/ i = Len(s) + 1
            BY <1>1, <1>2
      <2> QED BY <1>1, <2>1 DEF Events
<1>4. Events(u)
      BY <1>1, <1>3 DEF Events
<1> QED BY <1>1, <1>2, <1>4 DEF u

LEMMA LaterEvents ==
    ASSUME NEW s, Events(s), s # <<>>
    PROVE  /\ Events(Tail(s)) /\ Len(Tail(s)) = Len(s) - 1 /\ Len(s) \in Nat \ {0}
           /\ IsEvent(Head(s))
<1> DEFINE u == Tail(s)
           n == Len(s)
<1>1. /\ IsSeq(u) /\ Len(u) = n - 1 /\ n \in Nat \ {0} /\ Head(s) = s[1]
      /\ \A i \in 1..(n - 1) : u[i] = s[i + 1]
      BY TailIsSeq DEF Events
<1> HIDE DEF u
<1>2. ASSUME NEW i \in 1..Len(u) PROVE IsEvent(u[i])
      <2>1. i \in 1..(n - 1) /\ i + 1 \in 1..n
            BY <1>1
      <2> HIDE DEF n
      <2>2. u[i] = s[i + 1]
            BY <1>1, <2>1
      <2> QED BY <2>1, <2>2 DEF Events, n
<1>3. 1 \in 1..n
      BY <1>1
<1>4. IsEvent(Head(s))
      BY <1>1, <1>3 DEF Events
<1>5. Events(u)
      BY <1>1, <1>2 DEF Events
<1> QED BY <1>1, <1>4, <1>5 DEF u

\* What connectors say of themselves is of no instrument.
LEMMA Happenings ==
    \A kind \in {"Resyncing", "Disconnected", "Ready", "Connecting"} : IsEvent(Happened(kind))
BY DEF IsEvent, Happened, EventKinds

MetricFields == {"connected", "total", "broadcast", "dropped", "lagged"}
IsMetrics(n) == n = [f \in MetricFields |-> n[f]]
PipeFields   == {"queue", "closed", "head", "recent", "held", "produced", "stranded"}
IsPipe(p)    == p = [f \in PipeFields |-> p[f]]

\* What was produced is waiting, broadcast, dropped or stranded; nothing is dropped or
\* stranded while the pump lives, nothing waits once it is gone, and the fanout never holds
\* more than has been broadcast.
PipeInv ==
    /\ IsPipe(pipe) /\ IsMetrics(metrics)
    /\ Events(pipe.queue) /\ Events(pipe.recent) /\ \A e \in pipe.held : IsEvent(e)
    /\ pipe.closed \in BOOLEAN /\ pipe.head \in Nat /\ pipe.stranded \in Nat
    /\ metrics.broadcast \in Nat /\ metrics.dropped \in Nat
    /\ Len(pipe.recent) <= pipe.head
    /\ pipe.produced = Len(pipe.queue) + metrics.broadcast + metrics.dropped + pipe.stranded
    /\ IF pipe.closed THEN pipe.queue = <<>> ELSE pipe.stranded = 0 /\ metrics.dropped = 0

LEMMA NothingPiped == Events(<<>>) /\ Len(<<>>) = 0
BY EmptyIsSeq DEF Events

LEMMA FreshPipe == ASSUME pipe' = NoPipe, metrics' = NoMetrics PROVE PipeInv'
<1>1. IsPipe(NoPipe) /\ IsMetrics(NoMetrics)
      BY DEF IsPipe, PipeFields, NoPipe, IsMetrics, MetricFields, NoMetrics
<1> QED BY <1>1, NothingPiped DEF PipeInv, NoPipe, NoMetrics

\* A core starts with one event of each connector.
LEMMA PipeStart == FilesLawful /\ PipeInv /\ Start => PipeInv'
<1> SUFFICES ASSUME FilesLawful, PipeInv, Start PROVE PipeInv'
    OBVIOUS
<1>1. CASE UNCHANGED <<pipe, metrics>>
      BY <1>1 DEF PipeInv
<1>2. ASSUME NEW S, IsFiniteSet(S), metrics' = NoMetrics,
             pipe' = [NoPipe EXCEPT !.queue = [i \in 1..Cardinality(S) |-> Happened("Connecting")],
                                    !.produced = Cardinality(S)]
      PROVE  PipeInv'
      <2> DEFINE n == Cardinality(S)
                 q == [i \in 1..n |-> Happened("Connecting")]
      <2>1. n \in Nat
            BY <1>2, FS_CardinalityType
      <2> HIDE DEF n
      <2>2. IsSeq(q) /\ Len(q) = n
            <3>1. q = [i \in 1..n |-> q[i]]
                  OBVIOUS
            <3> QED BY <2>1, <3>1, SomeSeq
      <2>3. Events(q)
            BY <2>2, Happenings DEF Events
      <2> HIDE DEF q
      <2>4. pipe' = [NoPipe EXCEPT !.queue = q, !.produced = n]
            BY <1>2 DEF q, n
      <2>5. /\ IsPipe(pipe') /\ pipe'.queue = q /\ pipe'.produced = n /\ pipe'.recent = <<>>
            /\ pipe'.held = {} /\ pipe'.closed = FALSE /\ pipe'.head = 0 /\ pipe'.stranded = 0
            BY <2>4 DEF IsPipe, PipeFields, NoPipe
      <2>6. /\ IsMetrics(metrics') /\ metrics'.broadcast = 0 /\ metrics'.dropped = 0
            BY <1>2 DEF IsMetrics, MetricFields, NoMetrics
      <2>7. pipe'.produced = Len(pipe'.queue) + metrics'.broadcast + metrics'.dropped + pipe'.stranded
            BY <2>1, <2>2, <2>5, <2>6
      <2>8. Events(pipe'.queue) /\ Events(pipe'.recent) /\ Len(pipe'.recent) <= pipe'.head
            BY <2>3, <2>5, NothingPiped
      <2>12. pipe'.closed \in BOOLEAN
            BY <2>5
      <2>13. pipe'.head = 0 /\ pipe'.stranded = 0 /\ metrics'.broadcast = 0 /\ metrics'.dropped = 0
            BY <2>5, <2>6
      <2>9. /\ pipe'.head \in Nat /\ pipe'.stranded \in Nat
            /\ metrics'.broadcast \in Nat /\ metrics'.dropped \in Nat
            BY <2>13
      <2>10. \A e \in pipe'.held : IsEvent(e)
            BY <2>5
      <2>11. IF pipe'.closed THEN pipe'.queue = <<>> ELSE pipe'.stranded = 0 /\ metrics'.dropped = 0
            BY <2>5, <2>6
      <2> QED BY <2>5, <2>6, <2>7, <2>8, <2>9, <2>10, <2>11, <2>12 DEF PipeInv
<1>3. PICK args \in Arguments, env \in Environments :
         LET loaded  == Load(args, env, files, pems)
             S       == ToSet(loaded.config.markets)
         IN  IF loaded.refused = None /\ \A m \in S : EndpointsFor(m) # None
             THEN /\ pipe' = [NoPipe EXCEPT !.queue = [i \in 1..Cardinality(S) |->
                                                         Happened("Connecting")],
                                           !.produced = Cardinality(S)]
                  /\ metrics' = NoMetrics
             ELSE UNCHANGED <<pipe, metrics>>
      BY DEF Start
<1> DEFINE loaded == Load(args, env, files, pems)
           S == ToSet(loaded.config.markets)
<1>4. CASE loaded.refused = None /\ \A m \in S : EndpointsFor(m) # None
      <2>1. IsFiniteSet(S)
            BY <1>4, LoadedConfig
      <2> HIDE DEF S, loaded
      <2> QED BY <1>2, <1>3, <1>4, <2>1 DEF S, loaded
<1>5. CASE ~(loaded.refused = None /\ \A m \in S : EndpointsFor(m) # None)
      BY <1>1, <1>3, <1>5
<1> QED BY <1>4, <1>5

\* EventSink::send, of one event, to a pump that lives or not.
LEMMA PipeSend ==
    ASSUME PipeInv, NEW e, IsEvent(e), Send(<<e>>)
    PROVE  PipeInv'
<1> DEFINE q == IF pipe.closed THEN pipe.queue ELSE pipe.queue \o <<e>>
           more == IF pipe.closed THEN 1 ELSE 0
<1>1. Events(<<e>>) /\ Len(<<e>>) = 1
      BY OneEvent
<1>2. /\ pipe' = [pipe EXCEPT !.queue = q, !.produced = pipe.produced + 1]
      /\ metrics' = [metrics EXCEPT !.dropped = metrics.dropped + more]
      BY <1>1 DEF Send
<1>3. /\ Events(q) /\ Len(q) = Len(pipe.queue) + (1 - more) /\ Len(pipe.queue) \in Nat
      /\ pipe.closed => q = pipe.queue
      <2>1. CASE pipe.closed
            <3>1. Len(pipe.queue) \in Nat
                  BY SeqFacts DEF PipeInv, Events
            <3> QED BY <2>1, <3>1 DEF PipeInv
      <2>2. CASE ~pipe.closed
            <3>1. /\ Events(pipe.queue \o <<e>>)
                  /\ Len(pipe.queue \o <<e>>) = Len(pipe.queue) + Len(<<e>>)
                  /\ Len(pipe.queue) \in Nat
                  BY <1>1, MoreEvents DEF PipeInv
            <3>2. q = pipe.queue \o <<e>> /\ 1 - more = 1
                  BY <2>2
            <3> HIDE DEF q, more
            <3> QED BY <1>1, <2>2, <3>1, <3>2
      <2> QED BY <2>1, <2>2
<1>4. more \in {0, 1} /\ (~pipe.closed => more = 0)
      OBVIOUS
<1> HIDE DEF q, more
<1>5. /\ IsPipe(pipe') /\ pipe'.queue = q /\ pipe'.produced = pipe.produced + 1
      /\ pipe'.recent = pipe.recent /\ pipe'.held = pipe.held /\ pipe'.closed = pipe.closed
      /\ pipe'.head = pipe.head /\ pipe'.stranded = pipe.stranded
      BY <1>2 DEF PipeInv, IsPipe, PipeFields
<1>6. /\ IsMetrics(metrics') /\ metrics'.broadcast = metrics.broadcast
      /\ metrics'.dropped = metrics.dropped + more
      BY <1>2 DEF PipeInv, IsMetrics, MetricFields
<1>7. pipe'.produced = Len(pipe'.queue) + metrics'.broadcast + metrics'.dropped + pipe'.stranded
      <2>1. /\ pipe.produced = Len(pipe.queue) + metrics.broadcast + metrics.dropped + pipe.stranded
            /\ metrics.broadcast \in Nat /\ metrics.dropped \in Nat /\ pipe.stranded \in Nat
            BY DEF PipeInv
      <2> DEFINE n == Len(pipe.queue)
                 b == metrics.broadcast
                 d == metrics.dropped
                 s == pipe.stranded
      <2>2. pipe'.produced = (n + b + d + s) + 1
            BY <2>1, <1>5
      <2>3. Len(pipe'.queue) + metrics'.broadcast + metrics'.dropped + pipe'.stranded
               = (n + (1 - more)) + b + (d + more) + s
            BY <1>3, <1>5, <1>6
      <2>4. n \in Nat /\ b \in Nat /\ d \in Nat /\ s \in Nat /\ more \in {0, 1}
            BY <2>1, <1>3, <1>4
      <2> HIDE DEF n, b, d, s
      <2>5. (n + b + d + s) + 1 = (n + (1 - more)) + b + (d + more) + s
            BY <2>4
      <2> QED BY <2>2, <2>3, <2>5
<1>8. metrics'.dropped \in Nat
      BY <1>4, <1>6 DEF PipeInv
<1>9. Len(pipe'.recent) <= pipe'.head
      BY <1>5 DEF PipeInv
<1>10. IF pipe'.closed THEN pipe'.queue = <<>> ELSE pipe'.stranded = 0 /\ metrics'.dropped = 0
      BY <1>3, <1>4, <1>5, <1>6 DEF PipeInv
<1> QED BY <1>3, <1>5, <1>6, <1>7, <1>8, <1>9, <1>10 DEF PipeInv

\* The pump: one event from the queue to the fanout, which overwrites at most its oldest.
LEMMA PipeForward == PipeInv /\ Forward => PipeInv'
<1> SUFFICES ASSUME PipeInv, Forward PROVE PipeInv'
    OBVIOUS
<1> DEFINE event == Head(pipe.queue)
           kept_ == Append(pipe.recent, event)
           recent == IF Len(kept_) > FANOUT_CAPACITY THEN Tail(kept_) ELSE kept_
           held == IF event.kind = "BookSnapshot" \/ event.kind = "Trade"
                   THEN pipe.held \cup {event} ELSE pipe.held
<1>1. /\ pipe.queue # <<>>
      /\ pipe' = [pipe EXCEPT !.queue = Tail(pipe.queue), !.head = pipe.head + 1,
                              !.recent = recent, !.held = held]
      /\ metrics' = [metrics EXCEPT !.broadcast = metrics.broadcast + 1]
      BY DEF Forward
<1>2. /\ Events(Tail(pipe.queue)) /\ Len(Tail(pipe.queue)) = Len(pipe.queue) - 1
      /\ Len(pipe.queue) \in Nat \ {0} /\ IsEvent(event)
      BY <1>1, LaterEvents DEF PipeInv
<1> HIDE DEF event
<1>3. Events(kept_) /\ Len(kept_) = Len(pipe.recent) + 1 /\ Len(pipe.recent) \in Nat
      BY <1>2, AnotherEvent DEF PipeInv
<1> HIDE DEF kept_
<1>4. kept_ # <<>>
      BY <1>3, NothingPiped
<1>5. Events(recent) /\ Len(recent) <= Len(pipe.recent) + 1
      BY <1>3, <1>4, LaterEvents
<1>6. \A e \in held : IsEvent(e)
      BY <1>2 DEF PipeInv
<1> HIDE DEF recent, held
<1>7. /\ IsPipe(pipe') /\ pipe'.queue = Tail(pipe.queue) /\ pipe'.produced = pipe.produced
      /\ pipe'.recent = recent /\ pipe'.held = held /\ pipe'.closed = pipe.closed
      /\ pipe'.head = pipe.head + 1 /\ pipe'.stranded = pipe.stranded
      BY <1>1 DEF PipeInv, IsPipe, PipeFields
<1>8. /\ IsMetrics(metrics') /\ metrics'.broadcast = metrics.broadcast + 1
      /\ metrics'.dropped = metrics.dropped
      BY <1>1 DEF PipeInv, IsMetrics, MetricFields
<1>9. Len(recent) \in Nat
      BY <1>5, SeqFacts DEF Events
<1>10. /\ pipe.produced = Len(pipe.queue) + metrics.broadcast + metrics.dropped + pipe.stranded
       /\ pipe.head \in Nat /\ metrics.broadcast \in Nat /\ metrics.dropped \in Nat
       /\ pipe.stranded \in Nat /\ Len(pipe.recent) <= pipe.head
       BY DEF PipeInv
<1>11. pipe'.produced = Len(pipe'.queue) + metrics'.broadcast + metrics'.dropped + pipe'.stranded
      <2> DEFINE n == Len(pipe.queue)
                 b == metrics.broadcast
                 d == metrics.dropped
                 s == pipe.stranded
      <2>1. pipe'.produced = n + b + d + s
            BY <1>7, <1>10
      <2>2. Len(pipe'.queue) + metrics'.broadcast + metrics'.dropped + pipe'.stranded
               = (n - 1) + (b + 1) + d + s
            BY <1>2, <1>7, <1>8
      <2>3. n \in Nat \ {0} /\ b \in Nat /\ d \in Nat /\ s \in Nat
            BY <1>2, <1>10
      <2> HIDE DEF n, b, d, s
      <2>4. n + b + d + s = (n - 1) + (b + 1) + d + s
            BY <2>3
      <2> QED BY <2>1, <2>2, <2>4
<1>17. Len(pipe'.recent) <= pipe'.head
      <2> DEFINE k == Len(pipe.recent)
                 h == pipe.head
      <2>1. k \in Nat /\ h \in Nat /\ k <= h /\ Len(recent) \in Nat /\ Len(recent) <= k + 1
            BY <1>3, <1>5, <1>9, <1>10
      <2>2. pipe'.recent = recent /\ pipe'.head = h + 1
            BY <1>7
      <2> HIDE DEF k, h
      <2> QED BY <2>1, <2>2
<1>12. /\ pipe'.head \in Nat /\ metrics'.broadcast \in Nat /\ metrics'.dropped \in Nat
       /\ pipe'.stranded \in Nat
       BY <1>7, <1>8, <1>10
<1>13. ~pipe.closed /\ pipe.stranded = 0 /\ metrics.dropped = 0
       BY <1>1 DEF PipeInv
<1>14. pipe'.closed \in BOOLEAN
       BY <1>7 DEF PipeInv
<1>15. IF pipe'.closed THEN pipe'.queue = <<>> ELSE pipe'.stranded = 0 /\ metrics'.dropped = 0
       BY <1>7, <1>8, <1>13
<1>16. Events(pipe'.queue) /\ Events(pipe'.recent) /\ \A e \in pipe'.held : IsEvent(e)
       BY <1>2, <1>5, <1>6, <1>7
<1> QED BY <1>7, <1>8, <1>11, <1>12, <1>14, <1>15, <1>16, <1>17 DEF PipeInv

\* What was queued is stranded, all of it.
LEMMA PipeDies == PipeInv /\ PumpDies => PipeInv'
<1> SUFFICES ASSUME PipeInv, PumpDies PROVE PipeInv'
    OBVIOUS
<1>1. /\ ~pipe.closed /\ metrics' = metrics
      /\ pipe' = [pipe EXCEPT !.closed = TRUE, !.queue = <<>>, !.stranded = Len(pipe.queue)]
      BY DEF PumpDies
<1>2. /\ IsPipe(pipe') /\ pipe'.queue = <<>> /\ pipe'.produced = pipe.produced
      /\ pipe'.recent = pipe.recent /\ pipe'.held = pipe.held /\ pipe'.closed = TRUE
      /\ pipe'.head = pipe.head /\ pipe'.stranded = Len(pipe.queue)
      BY <1>1 DEF PipeInv, IsPipe, PipeFields
<1>3. Len(pipe.queue) \in Nat
      BY SeqFacts DEF PipeInv, Events
<1> QED BY <1>1, <1>2, <1>3, NothingPiped DEF PipeInv

\* Sessions count what happens to them, and touch nothing the events are counted by.
LEMMA PipeCounted ==
    ASSUME PipeInv, pipe' = pipe, IsMetrics(metrics'), metrics'.broadcast = metrics.broadcast,
           metrics'.dropped = metrics.dropped
    PROVE  PipeInv'
BY DEF PipeInv

\* Connectors produce one event at a time.
LEMMA PipeConnector ==
    ASSUME PipeInv, NEW m \in DOMAIN connectors,
           \/ VenueAnswers(m) \/ VenueDrops(m) \/ Reconnect(m) \/ CommandLost(m)
           \/ VenueSends(m) \/ BookFrozen(m)
    PROVE  PipeInv'
<1>1. CASE VenueSends(m)
      <2>a. PICK stream \in connectors[m].venue : \E kind \in Kinds(stream) :
               Send(<<[kind |-> kind, key |-> <<m, stream[1]>>]>>)
            BY <1>1 DEF VenueSends
      <2>1. PICK kind \in Kinds(stream) : Send(<<[kind |-> kind, key |-> <<m, stream[1]>>]>>)
            BY <2>a
      <2>2. kind \in {"Trade", "BookSnapshot", "BookDelta"}
            BY DEF Kinds
      <2> DEFINE e == [kind |-> kind, key |-> <<m, stream[1]>>]
      <2>3. e.key # <<>> /\ e.kind = kind
            OBVIOUS
      <2>4. IsEvent(e)
            BY <2>2, <2>3 DEF IsEvent, EventKinds
      <2> QED BY <2>1, <2>4, PipeSend
<1>2. CASE ~VenueSends(m)
      <2>1. PICK kind \in {"Resyncing", "Disconnected", "Ready", "Connecting"} :
               Send(<<Happened(kind)>>)
            BY <1>2 DEF VenueAnswers, VenueDrops, Reconnect, CommandLost, BookFrozen, Lose
      <2>2. IsEvent(Happened(kind))
            BY Happenings
      <2> QED BY <2>1, <2>2, PipeSend
<1> QED BY <1>1, <1>2

LEMMA PipeGone == ASSUME NEW why, Gone(why) PROVE PipeInv'
BY FreshPipe DEF Gone

SameEvents == /\ IsMetrics(metrics') /\ metrics'.broadcast = metrics.broadcast
              /\ metrics'.dropped = metrics.dropped

\* A session's steps count other things.
LEMMA PipeSession ==
    ASSUME PipeInv, NEW t \in Terminal,
           Handshake(t) \/ Greet(t) \/ Receive(t) \/ Hangup(t)
    PROVE  PipeInv'
<1>1. pipe' = pipe
      BY DEF Handshake, Greet, Receive, Hangup
<1>2. metrics = [f \in MetricFields |-> metrics[f]]
      BY DEF PipeInv, IsMetrics
<1>3. SameEvents
      <2>1. CASE metrics' = metrics
            BY <1>2, <2>1 DEF SameEvents, IsMetrics
      <2>2. ASSUME NEW n, metrics' = [metrics EXCEPT !.connected = n]
            PROVE  SameEvents
            BY <1>2, <2>2 DEF SameEvents, IsMetrics, MetricFields
      <2>3. ASSUME NEW n, NEW k, metrics' = [metrics EXCEPT !.connected = n, !.total = k]
            PROVE  SameEvents
            BY <1>2, <2>3 DEF SameEvents, IsMetrics, MetricFields
      <2>4. ASSUME NEW n, metrics' = [metrics EXCEPT !.lagged = n]
            PROVE  SameEvents
            BY <1>2, <2>4 DEF SameEvents, IsMetrics, MetricFields
      <2>5. CASE Handshake(t)
            BY <2>1, <2>2, <2>3, <2>5 DEF Handshake, Ended
      <2>6. CASE Greet(t)
            BY <2>1, <2>2, <2>6 DEF Greet, Ended
      <2>7. CASE Receive(t)
            BY <2>1, <2>4, <2>7 DEF Receive, Overrun
      <2>8. CASE Hangup(t)
            BY <2>2, <2>8 DEF Hangup, Ended
      <2> QED BY <2>5, <2>6, <2>7, <2>8
<1> QED BY <1>1, <1>3, PipeCounted DEF SameEvents

LEMMA PipeInit == ServiceInit => PipeInv
<1> SUFFICES ASSUME pipe = NoPipe, metrics = NoMetrics PROVE PipeInv
    BY DEF ServiceInit
<1>0. pipe.closed \in BOOLEAN /\ ~pipe.closed
      BY DEF NoPipe
<1>1. /\ pipe.queue = <<>> /\ pipe.recent = <<>> /\ pipe.held = {}
      /\ pipe.head = 0 /\ pipe.stranded = 0 /\ pipe.produced = 0
      BY DEF NoPipe
<1>2. metrics.broadcast = 0 /\ metrics.dropped = 0
      BY DEF NoMetrics
<1>3. IsPipe(pipe)
      BY DEF IsPipe, PipeFields, NoPipe
<1>4. IsMetrics(metrics)
      BY DEF IsMetrics, MetricFields, NoMetrics
<1>5. IF pipe.closed THEN pipe.queue = <<>> ELSE pipe.stranded = 0 /\ metrics.dropped = 0
      BY <1>0, <1>1, <1>2
<1>6. Events(pipe.queue) /\ Events(pipe.recent) /\ Len(pipe.queue) = 0 /\ Len(pipe.recent) = 0
      BY <1>1, NothingPiped
<1>7. /\ pipe.head \in Nat /\ pipe.stranded \in Nat
      /\ metrics.broadcast \in Nat /\ metrics.dropped \in Nat
      /\ Len(pipe.recent) <= pipe.head
      /\ pipe.produced = Len(pipe.queue) + metrics.broadcast + metrics.dropped + pipe.stranded
      BY <1>1, <1>2, <1>6
<1>8. \A e \in pipe.held : IsEvent(e)
      BY <1>1
<1> QED BY <1>0, <1>3, <1>4, <1>5, <1>6, <1>7, <1>8, Zenon DEF PipeInv

\* Every step keeps the account of events.
LEMMA PipeStep == FilesLawful /\ PipeInv /\ [ServiceNext]_serviceVars => PipeInv'
<1> SUFFICES ASSUME FilesLawful, PipeInv, [ServiceNext]_serviceVars PROVE PipeInv'
    OBVIOUS
<1>1. CASE UNCHANGED <<pipe, metrics>>
      BY <1>1 DEF PipeInv
<1>2. CASE Start
      BY <1>2, PipeStart
<1>3. CASE Up
      <2>1. \/ UNCHANGED <<pipe, metrics>>
            \/ \E why : Gone(why)
            BY <1>3 DEF Up
      <2> QED BY <2>1, <1>1, PipeGone
<1>4. CASE Stop
      BY <1>4, PipeGone DEF Stop
<1>5. CASE Forward \/ PumpDies
      BY <1>5, PipeForward, PipeDies
<1>6. ASSUME NEW m \in DOMAIN connectors,
             \/ VenueAnswers(m) \/ VenueDrops(m) \/ Reconnect(m) \/ CommandLost(m)
             \/ VenueSends(m) \/ BookFrozen(m)
      PROVE  PipeInv'
      BY <1>6, PipeConnector
<1>7. ASSUME NEW m \in DOMAIN connectors,
             TakeCommand(m) \/ \E add \in BOOLEAN, subs \in Asks : Ask(m, add, subs)
      PROVE  PipeInv'
      BY <1>7, <1>1 DEF TakeCommand, Ask
<1>8. ASSUME NEW t \in Terminal, Handshake(t) \/ Greet(t) \/ Receive(t) \/ Hangup(t)
      PROVE  PipeInv'
      BY <1>8, PipeSession
<1>9. ASSUME NEW t \in Terminal, Dial(t) \/ Accept(t) \/ Subscribe(t) \/ Forget(t)
      PROVE  PipeInv'
      BY <1>9, <1>1 DEF Dial, Accept, Subscribe, Forget, coreVars
<1>10. CASE \/ Configure \/ AddPin \/ WriteCert \/ WriteKey \/ RemovePem \/ RemovePin
            \/ StoreKey \/ WriteOn \/ DeleteKey
      BY <1>10, <1>1 DEF Configure, AddPin, WriteCert, WriteKey, RemovePem, RemovePin,
         StoreKey, WriteOn, DeleteKey, coreVars
<1>11. CASE UNCHANGED serviceVars
      BY <1>11, <1>1 DEF serviceVars, coreVars
<1> QED BY <1>2, <1>3, <1>4, <1>5, <1>6, <1>7, <1>8, <1>9, <1>10, <1>11 DEF ServiceNext

-----------------------------------------------------------------------------
(* What the sessions count.                                                *)

SessionFields == {"phase", "joined", "at", "given", "missed", "gap"}
Phases        == {"idle", "dialing", "ended", "cut", "accepted"} \cup Counted
IsSession(s)  == s = [f \in SessionFields |-> s[f]]

\* Where a session is in the fanout is where it joined and what it was given and missed; one
\* that is not open has missed nothing.
SessionOK(s) ==
    /\ IsSession(s)
    /\ s.phase \in Phases
    /\ s.joined \in Nat /\ s.at \in Nat /\ s.given \in Nat /\ s.missed \in Nat
    /\ s.phase \in {"accepted"} \cup Counted => s.at = s.joined + s.given + s.missed
    /\ s.phase \notin Counted => s.missed = 0

Open == {t \in Terminal : sessions[t].phase \in Counted}

\* The counters of connections and of missed events, over all sessions.
CountInv ==
    /\ sessions = [t \in Terminal |-> sessions[t]]
    /\ \A t \in Terminal : SessionOK(sessions[t])
    /\ metrics.connected = Cardinality(Open)
    /\ IsFiniteSet(Missed) /\ metrics.lagged \in Nat /\ Cardinality(Missed) <= metrics.lagged

\* The only session that changes is t's, and the counters follow it.
LEMMA Recounted ==
    ASSUME CountInv, NEW t \in Terminal, NEW s, SessionOK(s), NEW d \in Nat,
           sessions' = [sessions EXCEPT ![t] = s],
           s.missed <= sessions[t].missed + d,
           metrics'.lagged = metrics.lagged + d,
           metrics'.connected = metrics.connected
                                + (IF s.phase \in Counted THEN 1 ELSE 0)
                                - (IF sessions[t].phase \in Counted THEN 1 ELSE 0)
    PROVE  CountInv'
<1>1. /\ sessions' = [u \in Terminal |-> sessions'[u]]
      /\ sessions'[t] = s /\ \A u \in Terminal \ {t} : sessions'[u] = sessions[u]
      BY DEF CountInv
<1>2. \A u \in Terminal : SessionOK(sessions'[u])
      BY <1>1 DEF CountInv
<1>3. metrics'.connected = Cardinality(Open')
      <2>1. IsFiniteSet(Open) /\ Cardinality(Open) \in Nat
            BY FS_Subset, FS_CardinalityType, ServiceAssumption DEF Open
      <2>2. metrics.connected = Cardinality(Open)
            BY DEF CountInv
      <2>3. t \in Open <=> sessions[t].phase \in Counted
            BY DEF Open
      <2>4. CASE s.phase \in Counted
            <3>1. Open' = Open \cup {t}
                  BY <1>1, <2>4 DEF Open
            <3>2. Cardinality(Open \cup {t}) =
                     IF t \in Open THEN Cardinality(Open) ELSE Cardinality(Open) + 1
                  BY <2>1, FS_AddElement, Zenon
            <3> QED BY <2>1, <2>2, <2>3, <2>4, <3>1, <3>2
      <2>5. CASE s.phase \notin Counted
            <3>1. Open' = Open \ {t}
                  BY <1>1, <2>5 DEF Open
            <3>2. Cardinality(Open \ {t}) =
                     IF t \in Open THEN Cardinality(Open) - 1 ELSE Cardinality(Open)
                  BY <2>1, FS_RemoveElement, Zenon
            <3> QED BY <2>1, <2>2, <2>3, <2>5, <3>1, <3>2
      <2> QED BY <2>4, <2>5
<1>4. /\ IsFiniteSet(Missed') /\ Cardinality(Missed') <= metrics.lagged + d
      <2> DEFINE k == sessions[t].missed
                 Next_ == (k + 1) .. (k + d)
                 More == {t} \X Next_
      <2>1. k \in Nat /\ s.missed \in Nat
            BY DEF CountInv, SessionOK
      <2>2. IsFiniteSet(Next_) /\ Cardinality(Next_) = d
            <3>1. k + 1 \in Int /\ k + d \in Int
                  BY <2>1
            <3>2. /\ IsFiniteSet(Next_)
                  /\ Cardinality(Next_) = IF k + 1 > k + d THEN 0 ELSE (k + d) - (k + 1) + 1
                  BY <3>1, FS_Interval, Zenon
            <3> HIDE DEF Next_
            <3> QED BY <2>1, <3>2
      <2>3. IsFiniteSet({t}) /\ Cardinality({t}) = 1
            BY FS_Singleton
      <2>4. IsFiniteSet(More) /\ Cardinality(More) = d
            <3>1. /\ IsFiniteSet({t} \X Next_)
                  /\ Cardinality({t} \X Next_) = Cardinality({t}) * Cardinality(Next_)
                  BY <2>2, <2>3, FS_Product, Zenon
            <3> HIDE DEF Next_
            <3>2. 1 * d = d
                  OBVIOUS
            <3> QED BY <2>2, <2>3, <3>1, <3>2
      <2>5. IsFiniteSet(Missed) /\ Cardinality(Missed) <= metrics.lagged /\ metrics.lagged \in Nat
            BY DEF CountInv
      <2>6. /\ IsFiniteSet(Missed \cup More)
            /\ Cardinality(Missed \cup More) <= Cardinality(Missed) + d
            <3>1. IsFiniteSet(Missed \cap More)
                  BY <2>5, FS_Intersection
            <3>2. Cardinality(Missed \cap More) \in Nat /\ Cardinality(Missed) \in Nat
                  BY <3>1, <2>5, FS_CardinalityType
            <3> HIDE DEF More
            <3>3. /\ IsFiniteSet(Missed \cup More)
                  /\ Cardinality(Missed \cup More)
                       = Cardinality(Missed) + Cardinality(More) - Cardinality(Missed \cap More)
                  BY <2>4, <2>5, FS_Union, Zenon
            <3> QED BY <3>2, <3>3, <2>4, <2>5
      <2>7. Missed' \subseteq Missed \cup More
            <3> SUFFICES ASSUME NEW u \in Terminal, NEW i \in 1..(sessions'[u].missed)
                         PROVE  <<u, i>> \in Missed \cup More
                BY DEF Missed
            <3>1. CASE u # t
                  BY <3>1, <1>1 DEF Missed
            <3>2. CASE u = t
                  <4>1. i \in 1..s.missed
                        BY <3>2, <1>1
                  <4>2. i \in 1..k \/ i \in Next_
                        BY <4>1, <2>1
                  <4>3. CASE i \in 1..k
                        BY <4>3, <3>2 DEF Missed
                  <4>4. CASE i \in Next_
                        BY <4>4, <3>2
                  <4> QED BY <4>2, <4>3, <4>4
            <3> QED BY <3>1, <3>2
      <2> HIDE DEF More
      <2>8. IsFiniteSet(Missed') /\ Cardinality(Missed') <= Cardinality(Missed \cup More)
            BY <2>6, <2>7, FS_Subset
      <2>9. /\ Cardinality(Missed') \in Nat /\ Cardinality(Missed \cup More) \in Nat
            /\ Cardinality(Missed) \in Nat
            BY <2>5, <2>6, <2>8, FS_CardinalityType
      <2> QED BY <2>5, <2>6, <2>8, <2>9
<1>5. metrics'.lagged \in Nat
      BY DEF CountInv
<1> QED BY <1>1, <1>2, <1>3, <1>4, <1>5 DEF CountInv

\* While nobody is connected, counters that start over are right.
LEMMA NobodyMissed ==
    ASSUME \A t \in Terminal : SessionOK(sessions[t]) /\ sessions[t].phase \notin Counted,
           sessions = [t \in Terminal |-> sessions[t]], metrics = NoMetrics
    PROVE  CountInv
<1>1. Open = {}
      BY DEF Open
<1>2. Missed = {}
      <2> SUFFICES ASSUME NEW t \in Terminal PROVE {t} \X (1..sessions[t].missed) = {}
          BY DEF Missed
      <2>1. sessions[t].missed = 0
            BY DEF SessionOK
      <2>2. 1..0 = {}
            OBVIOUS
      <2> QED BY <2>1, <2>2
<1>3. metrics.connected = 0 /\ metrics.lagged = 0
      BY DEF NoMetrics
<1> QED BY <1>1, <1>2, <1>3, FS_EmptySet DEF CountInv

\* A session that begins, ended or was cut.
LEMMA FreshSession ==
    ASSUME NEW phase \in {"idle", "dialing", "ended", "cut"}, NEW s,
           s = [NoSession EXCEPT !.phase = phase]
    PROVE  SessionOK(s) /\ s.phase = phase
<1>1. IsSession(s)
      BY DEF IsSession, SessionFields, NoSession
<1>2. /\ s.phase = phase /\ s.joined = 0 /\ s.at = 0 /\ s.given = 0 /\ s.missed = 0
      BY DEF NoSession
<1>3. phase \in Phases /\ phase \notin {"accepted"} \cup Counted
      BY DEF Phases, Counted
<1> QED BY <1>1, <1>2, <1>3 DEF SessionOK

LEMMA CountInit == ServiceInit => CountInv
<1> SUFFICES ASSUME ServiceInit PROVE CountInv
    OBVIOUS
<1>1. sessions = [t \in Terminal |-> NoSession] /\ metrics = NoMetrics
      BY DEF ServiceInit
<1>2. NoSession = [NoSession EXCEPT !.phase = "idle"]
      BY DEF NoSession
<1>3. SessionOK(NoSession) /\ NoSession.phase = "idle"
      BY <1>2, FreshSession
<1>4. "idle" \notin Counted
      BY DEF Counted
<1> QED BY <1>1, <1>3, <1>4, NobodyMissed

\* With the core its counters go, and its sessions.
LEMMA CountGone == ASSUME CountInv, NEW why, Gone(why) PROVE CountInv'
<1>1. metrics' = NoMetrics /\ sessions' = [t \in Terminal |-> sessions'[t]]
      BY DEF Gone
<1>2. ASSUME NEW t \in Terminal
      PROVE  SessionOK(sessions'[t]) /\ sessions'[t].phase \notin Counted
      <2>1. CASE sessions[t].phase \in {"idle", "dialing", "ended"}
            <3>1. sessions'[t] = sessions[t]
                  BY <2>1 DEF Gone
            <3>2. SessionOK(sessions[t])
                  BY DEF CountInv
            <3> QED BY <2>1, <3>1, <3>2 DEF Counted
      <2>2. CASE sessions[t].phase \notin {"idle", "dialing", "ended"}
            <3>1. sessions'[t] = [NoSession EXCEPT !.phase = "cut"]
                  BY <2>2 DEF Gone
            <3>2. SessionOK(sessions'[t]) /\ sessions'[t].phase = "cut"
                  BY <3>1, FreshSession
            <3> QED BY <3>2 DEF Counted
      <2> QED BY <2>1, <2>2
<1>3. /\ \A t \in Terminal : SessionOK(sessions'[t]) /\ sessions'[t].phase \notin Counted
      /\ sessions' = [t \in Terminal |-> sessions'[t]] /\ metrics' = NoMetrics
      BY <1>1, <1>2
<1>4. (/\ \A t \in Terminal : SessionOK(sessions[t]) /\ sessions[t].phase \notin Counted
       /\ sessions = [t \in Terminal |-> sessions[t]] /\ metrics = NoMetrics)'
      BY <1>3
<1> QED BY <1>4, NobodyMissed, PTL

\* A session that is not yet, or no more, counted goes from phase to phase.
LEMMA CountMove ==
    ASSUME CountInv, NEW t \in Terminal, NEW s, SessionOK(s),
           sessions' = [sessions EXCEPT ![t] = s], metrics' = metrics,
           s.missed <= sessions[t].missed,
           s.phase \in Counted <=> sessions[t].phase \in Counted
    PROVE  CountInv'
<1>1. metrics.connected = Cardinality(Open) /\ metrics.lagged \in Nat
      BY DEF CountInv
<1>2. Cardinality(Open) \in Nat
      BY FS_Subset, FS_CardinalityType, ServiceAssumption DEF Open
<1>3. SessionOK(sessions[t])
      BY DEF CountInv
<1>4. sessions[t].missed \in Nat
      BY <1>3 DEF SessionOK
<1>5. s.missed \in Nat
      BY DEF SessionOK
<1>6. /\ metrics'.lagged = metrics.lagged + 0
      /\ metrics'.connected = metrics.connected
                              + (IF s.phase \in Counted THEN 1 ELSE 0)
                              - (IF sessions[t].phase \in Counted THEN 1 ELSE 0)
      /\ s.missed <= sessions[t].missed + 0 /\ 0 \in Nat
      BY <1>1, <1>2, <1>4, <1>5
<1> QED BY <1>6, Recounted

LEMMA SamePhase ==
    ASSUME NEW s, SessionOK(s), NEW phase \in Phases,
           s.phase \in {"accepted"} \cup Counted \/ phase \notin {"accepted"} \cup Counted,
           phase \in Counted \/ s.missed = 0
    PROVE  LET r == [s EXCEPT !.phase = phase]
           IN  SessionOK(r) /\ r.phase = phase /\ r.missed = s.missed
<1> DEFINE r == [s EXCEPT !.phase = phase]
<1>1. /\ IsSession(r) /\ r.phase = phase /\ r.joined = s.joined /\ r.at = s.at
      /\ r.given = s.given /\ r.missed = s.missed
      BY DEF SessionOK, IsSession, SessionFields
<1> HIDE DEF r
<1>2. SessionOK(r)
      BY <1>1 DEF SessionOK
<1> QED BY <1>1, <1>2 DEF r

LEMMA CountSame == CountInv /\ UNCHANGED <<metrics, sessions>> => CountInv'
BY DEF CountInv, Open, Missed

LEMMA CountDial ==
    ASSUME CountInv, NEW t \in Terminal, Dial(t) \/ Forget(t) PROVE CountInv'
<1>1. SessionOK(sessions[t]) /\ sessions = [u \in Terminal |-> sessions[u]]
      BY DEF CountInv
<1>2. PICK phase \in {"idle", "dialing"} :
         /\ sessions' = [sessions EXCEPT ![t].phase = phase] /\ metrics' = metrics
         /\ sessions[t].phase \in {"idle", "ended"}
      BY DEF Dial, Forget, coreVars
<1> DEFINE s == [sessions[t] EXCEPT !.phase = phase]
<1>3. sessions' = [sessions EXCEPT ![t] = s]
      BY <1>1, <1>2
<1>4. /\ sessions[t].phase \notin {"accepted"} \cup Counted
      /\ phase \notin {"accepted"} \cup Counted /\ phase \in Phases
      BY <1>2 DEF Counted, Phases
<1>5. sessions[t].missed = 0
      BY <1>1, <1>4 DEF SessionOK
<1>6. SessionOK(s) /\ s.phase = phase /\ s.missed = sessions[t].missed
      BY <1>1, <1>4, <1>5, SamePhase
<1> HIDE DEF s
<1>7. s.missed <= sessions[t].missed
      BY <1>5, <1>6
<1> QED BY <1>2, <1>3, <1>4, <1>6, <1>7, CountMove

LEMMA CountAccept == ASSUME CountInv, PipeInv, NEW t \in Terminal, Accept(t) PROVE CountInv'
<1> DEFINE s == [NoSession EXCEPT !.phase = "accepted", !.joined = pipe.head, !.at = pipe.head]
<1>1. /\ sessions' = [sessions EXCEPT ![t] = s] /\ metrics' = metrics
      /\ sessions[t].phase = "dialing"
      BY DEF Accept, coreVars
<1>2. IsSession(s)
      BY DEF NoSession, IsSession, SessionFields
<1>3. /\ s.phase = "accepted" /\ s.joined = pipe.head /\ s.at = pipe.head
      /\ s.given = 0 /\ s.missed = 0
      BY DEF NoSession
<1> HIDE DEF s
<1>4. pipe.head \in Nat
      BY DEF PipeInv
<1>5. "accepted" \in Phases /\ "accepted" \notin Counted /\ "dialing" \notin Counted
      BY DEF Phases, Counted
<1>6. SessionOK(s)
      BY <1>2, <1>3, <1>4, <1>5 DEF SessionOK
<1>7. sessions[t].missed \in Nat
      BY DEF CountInv, SessionOK
<1>8. s.missed <= sessions[t].missed
      BY <1>3, <1>7
<1> QED BY <1>1, <1>3, <1>5, <1>6, <1>8, CountMove

\* An open session that ends is counted out, whatever it missed stays counted.
LEMMA CountEnded ==
    ASSUME CountInv, PipeInv, NEW t \in Terminal, NEW status, Ended(t, status)
    PROVE  CountInv'
<1> DEFINE s == [NoSession EXCEPT !.phase = "ended"]
           n == metrics.connected - IF sessions[t].phase \in Counted THEN 1 ELSE 0
<1>1. /\ sessions' = [sessions EXCEPT ![t] = s]
      /\ metrics' = [metrics EXCEPT !.connected = n]
      BY DEF Ended
<1>2. SessionOK(s) /\ s.phase = "ended"
      BY FreshSession
<1>3. s.missed = 0
      BY DEF NoSession
<1> HIDE DEF s, n
<1>4. metrics'.connected = n /\ metrics'.lagged = metrics.lagged
      BY <1>1 DEF PipeInv, IsMetrics, MetricFields
<1>5. sessions[t].missed \in Nat /\ metrics.lagged \in Nat /\ metrics.connected = Cardinality(Open)
      BY DEF CountInv, SessionOK
<1>6. Cardinality(Open) \in Nat
      BY FS_Subset, FS_CardinalityType, ServiceAssumption DEF Open
<1>7. s.phase \notin Counted
      BY <1>2 DEF Counted
<1>8. /\ metrics'.lagged = metrics.lagged + 0
      /\ metrics'.connected = metrics.connected
                              + (IF s.phase \in Counted THEN 1 ELSE 0)
                              - (IF sessions[t].phase \in Counted THEN 1 ELSE 0)
      /\ s.missed <= sessions[t].missed + 0 /\ 0 \in Nat
      BY <1>3, <1>4, <1>5, <1>6, <1>7 DEF n
<1> QED BY <1>1, <1>2, <1>8, Recounted

\* Counted in once the handshakes are through, or turned away before.
LEMMA CountHandshake ==
    ASSUME CountInv, PipeInv, NEW t \in Terminal, Handshake(t) PROVE CountInv'
<1>1. CASE Ended(t, "lost")
      BY <1>1, CountEnded
<1>2. CASE ~Ended(t, "lost")
      <2>0. SessionOK(sessions[t]) /\ sessions = [u \in Terminal |-> sessions[u]]
            BY DEF CountInv
      <2> DEFINE s == [sessions[t] EXCEPT !.phase = "open"]
      <2>1. /\ sessions' = [sessions EXCEPT ![t].phase = "open"]
            /\ metrics' = [metrics EXCEPT !.connected = metrics.connected + 1,
                                          !.total = metrics.total + 1]
            /\ sessions[t].phase = "accepted"
            BY <1>2 DEF Handshake
      <2>2. sessions' = [sessions EXCEPT ![t] = s]
            BY <2>0, <2>1
      <2>3. "open" \in Phases /\ "open" \in Counted /\ "accepted" \notin Counted
            BY DEF Phases, Counted
      <2>4. SessionOK(s) /\ s.phase = "open" /\ s.missed = sessions[t].missed
            BY <2>0, <2>1, <2>3, SamePhase
      <2> HIDE DEF s
      <2>5. metrics'.connected = metrics.connected + 1 /\ metrics'.lagged = metrics.lagged
            BY <2>1 DEF PipeInv, IsMetrics, MetricFields
      <2>6. sessions[t].missed \in Nat /\ metrics.lagged \in Nat /\ metrics.connected = Cardinality(Open)
            BY DEF CountInv, SessionOK
      <2>7. Cardinality(Open) \in Nat
            BY FS_Subset, FS_CardinalityType, ServiceAssumption DEF Open
      <2>8. /\ metrics'.lagged = metrics.lagged + 0
            /\ metrics'.connected = metrics.connected
                                    + (IF s.phase \in Counted THEN 1 ELSE 0)
                                    - (IF sessions[t].phase \in Counted THEN 1 ELSE 0)
            /\ s.missed <= sessions[t].missed + 0 /\ 0 \in Nat
            BY <2>1, <2>3, <2>4, <2>5, <2>6, <2>7
      <2> QED BY <2>2, <2>4, <2>8, Recounted
<1> QED BY <1>1, <1>2

LEMMA CountGreet ==
    ASSUME CountInv, PipeInv, NEW t \in Terminal, Greet(t) PROVE CountInv'
<1>1. CASE \E status : Ended(t, status)
      BY <1>1, CountEnded
<1>2. CASE ~\E status : Ended(t, status)
      <2>0. SessionOK(sessions[t]) /\ sessions = [u \in Terminal |-> sessions[u]]
            BY DEF CountInv
      <2> DEFINE s == [sessions[t] EXCEPT !.phase = "live"]
      <2>1. /\ sessions' = [sessions EXCEPT ![t].phase = "live"] /\ metrics' = metrics
            /\ sessions[t].phase = "open"
            BY <1>2 DEF Greet
      <2>2. sessions' = [sessions EXCEPT ![t] = s]
            BY <2>0, <2>1
      <2>3. "live" \in Phases /\ "live" \in Counted /\ "open" \in Counted
            BY DEF Phases, Counted
      <2>4. SessionOK(s) /\ s.phase = "live" /\ s.missed = sessions[t].missed
            BY <2>0, <2>1, <2>3, SamePhase
      <2> HIDE DEF s
      <2>5. sessions[t].missed \in Nat
            BY DEF CountInv, SessionOK
      <2>6. s.missed <= sessions[t].missed
            BY <2>4, <2>5
      <2> QED BY <2>1, <2>2, <2>3, <2>4, <2>6, CountMove
<1> QED BY <1>1, <1>2

LEMMA CountSubscribe ==
    ASSUME CountInv, NEW t \in Terminal, Subscribe(t) PROVE CountInv'
<1>0. SessionOK(sessions[t]) /\ sessions = [u \in Terminal |-> sessions[u]]
      BY DEF CountInv
<1> DEFINE s == [sessions[t] EXCEPT !.phase = "subscribed", !.gap = FALSE]
<1>1. /\ sessions' = [sessions EXCEPT ![t].phase = "subscribed", ![t].gap = FALSE]
      /\ metrics' = metrics /\ sessions[t].phase = "live"
      BY DEF Subscribe, coreVars
<1>2. sessions' = [sessions EXCEPT ![t] = s]
      BY <1>0, <1>1
<1>3. /\ IsSession(s) /\ s.phase = "subscribed" /\ s.joined = sessions[t].joined
      /\ s.at = sessions[t].at /\ s.given = sessions[t].given /\ s.missed = sessions[t].missed
      BY <1>0 DEF SessionOK, IsSession, SessionFields
<1> HIDE DEF s
<1>4. "subscribed" \in Phases /\ "subscribed" \in Counted /\ "live" \in Counted
      BY DEF Phases, Counted
<1>5. SessionOK(s)
      BY <1>0, <1>1, <1>3, <1>4 DEF SessionOK
<1>6. s.missed <= sessions[t].missed
      BY <1>0, <1>3 DEF SessionOK
<1> QED BY <1>1, <1>2, <1>3, <1>4, <1>5, <1>6, CountMove

\* An overrun moves a session to the oldest event there is, and adds the distance to what it
\* missed and to the counter; any other turn gives it one event.
LEMMA CountReceive ==
    ASSUME CountInv, PipeInv, NEW t \in Terminal, Receive(t) PROVE CountInv'
<1> DEFINE oldest == pipe.head - Len(pipe.recent)
           r == sessions[t]
<1>0. SessionOK(r) /\ sessions = [u \in Terminal |-> sessions[u]]
      BY DEF CountInv
<1>1. oldest \in Nat
      <2>1. Len(pipe.recent) \in Nat
            BY SeqFacts DEF PipeInv, Events
      <2> QED BY <2>1 DEF PipeInv
<1>2. r.phase \in Counted
      BY DEF Receive
<1> HIDE DEF oldest
<1>c. Cardinality(Open) \in Nat /\ metrics.connected = Cardinality(Open) /\ metrics.lagged \in Nat
      BY FS_Subset, FS_CardinalityType, ServiceAssumption DEF Open, CountInv
<1>3. CASE r.at < oldest
      <2> DEFINE d == oldest - r.at
                 s == [r EXCEPT !.at = oldest, !.missed = r.missed + d, !.gap = TRUE]
      <2>1. /\ sessions' = [sessions EXCEPT ![t] = s]
            /\ metrics' = [metrics EXCEPT !.lagged = metrics.lagged + d]
            BY <1>3 DEF Receive, Overrun, oldest
      <2>2. d \in Nat /\ r.at + d = oldest
            BY <1>0, <1>1, <1>3 DEF SessionOK
      <2> HIDE DEF d
      <2>3. /\ IsSession(s) /\ s.phase = r.phase /\ s.joined = r.joined
            /\ s.at = oldest /\ s.given = r.given /\ s.missed = r.missed + d
            BY <1>0 DEF SessionOK, IsSession, SessionFields
      <2> HIDE DEF s
      <2>4. SessionOK(s)
            <3>1. /\ r.joined \in Nat /\ r.given \in Nat /\ r.missed \in Nat /\ r.at \in Nat
                  /\ r.at = r.joined + r.given + r.missed /\ r.phase \in Phases
                  BY <1>0, <1>2 DEF SessionOK
            <3>2. s.missed \in Nat /\ s.at = s.joined + s.given + s.missed
                  BY <3>1, <2>2, <2>3
            <3> QED BY <3>1, <3>2, <1>1, <1>2, <2>3 DEF SessionOK
      <2>5. metrics'.connected = metrics.connected /\ metrics'.lagged = metrics.lagged + d
            BY <2>1 DEF PipeInv, IsMetrics, MetricFields
      <2>6. r.missed \in Nat
            BY <1>0 DEF SessionOK
      <2>7. /\ metrics'.connected = metrics.connected
                                    + (IF s.phase \in Counted THEN 1 ELSE 0)
                                    - (IF sessions[t].phase \in Counted THEN 1 ELSE 0)
            /\ s.missed <= sessions[t].missed + d
            BY <1>c, <1>2, <2>2, <2>3, <2>5, <2>6
      <2> QED BY <2>1, <2>2, <2>4, <2>5, <2>7, Recounted
<1>4. CASE ~(r.at < oldest)
      <2> DEFINE gap == r.gap /\ pipe.recent[r.at - oldest + 1].kind # "BookSnapshot"
      <2>1. /\ sessions' = [sessions EXCEPT ![t] =
                             [r EXCEPT !.at = r.at + 1, !.given = r.given + 1, !.gap = gap]]
            /\ metrics' = metrics
            BY <1>4 DEF Receive, oldest
      <2> HIDE DEF gap
      <2> DEFINE s == [r EXCEPT !.at = r.at + 1, !.given = r.given + 1, !.gap = gap]
      <2>2. sessions' = [sessions EXCEPT ![t] = s]
            BY <2>1
      <2>3. /\ IsSession(s) /\ s.phase = r.phase /\ s.joined = r.joined
            /\ s.at = r.at + 1 /\ s.given = r.given + 1 /\ s.missed = r.missed
            BY <1>0 DEF SessionOK, IsSession, SessionFields
      <2> HIDE DEF s
      <2>4. SessionOK(s)
            BY <1>0, <1>2, <2>3 DEF SessionOK
      <2>5. s.missed <= r.missed
            BY <1>0, <2>3 DEF SessionOK
      <2> QED BY <2>1, <2>2, <2>3, <2>4, <2>5, CountMove
<1> QED BY <1>3, <1>4

LEMMA Counters ==
    ASSUME PipeInv, CountInv,
           metrics'.connected = metrics.connected, metrics'.lagged = metrics.lagged,
           sessions' = sessions
    PROVE  CountInv'
BY DEF CountInv, Open, Missed

\* A connector's events touch neither.
LEMMA SendCounts ==
    ASSUME PipeInv, CountInv, NEW events, Send(events), sessions' = sessions PROVE CountInv'
<1>1. PICK n : metrics' = [metrics EXCEPT !.dropped = n]
      BY DEF Send
<1>2. metrics'.connected = metrics.connected /\ metrics'.lagged = metrics.lagged
      BY <1>1 DEF PipeInv, IsMetrics, MetricFields
<1> QED BY <1>2, Counters

\* Only a core that is up has sessions.

-----------------------------------------------------------------------------
(* Only a core that is up is counted at.                                   *)

ServedInv == core.stage # "up" => \A t \in Terminal : sessions[t].phase \notin {"accepted"} \cup Counted

LEMMA ServedSame == ServedInv /\ core' = core /\ sessions' = sessions => ServedInv'
BY DEF ServedInv

LEMMA ServedSession ==
    ASSUME ServedInv, CountInv, NEW t \in Terminal, core' = core,
           \/ Dial(t) \/ Accept(t) \/ Handshake(t) \/ Greet(t) \/ Subscribe(t)
           \/ Receive(t) \/ Hangup(t) \/ Forget(t)
    PROVE  ServedInv'
<1>1. CASE core.stage = "up"
      BY <1>1 DEF ServedInv
<1>2. CASE core.stage # "up"
      <2>1. sessions[t].phase \notin {"accepted"} \cup Counted
            BY <1>2 DEF ServedInv
      <2>2. Dial(t) \/ Hangup(t) \/ Forget(t)
            BY <1>2, <2>1 DEF Accept, Handshake, Greet, Subscribe, Receive, Counted
      <2>3. SessionOK(sessions[t]) /\ sessions = [u \in Terminal |-> sessions[u]]
            BY DEF CountInv
      <2>4. /\ \A u \in Terminal \ {t} : sessions'[u] = sessions[u]
            /\ sessions'[t].phase \in {"dialing", "ended", "idle"}
            <3>1. CASE Dial(t) \/ Forget(t)
                  <4>1. PICK phase \in {"dialing", "idle"} :
                           sessions' = [sessions EXCEPT ![t].phase = phase]
                        BY <3>1 DEF Dial, Forget
                  <4>2. sessions'[t] = [sessions[t] EXCEPT !.phase = phase]
                        BY <4>1, <2>3
                  <4>3. sessions'[t].phase = phase
                        BY <4>2, <2>3 DEF SessionOK, IsSession, SessionFields
                  <4> QED BY <4>1, <4>3, <2>3
            <3>2. CASE Hangup(t)
                  <4>1. sessions' = [sessions EXCEPT ![t] = [NoSession EXCEPT !.phase = "ended"]]
                        BY <3>2 DEF Hangup, Ended
                  <4>2. [NoSession EXCEPT !.phase = "ended"].phase = "ended"
                        BY DEF NoSession
                  <4> QED BY <4>1, <4>2, <2>3
            <3> QED BY <2>2, <3>1, <3>2
      <2> QED BY <1>2, <2>4 DEF ServedInv, Counted
<1> QED BY <1>1, <1>2

LEMMA ServedGone == ASSUME NEW why, Gone(why) PROVE ServedInv'
<1> SUFFICES ASSUME NEW t \in Terminal PROVE sessions'[t].phase \notin {"accepted"} \cup Counted
    BY DEF ServedInv
<1>1. [NoSession EXCEPT !.phase = "cut"].phase = "cut"
      BY DEF NoSession
<1> QED BY <1>1 DEF Gone, Counted

LEMMA ServedInit == ServiceInit => ServedInv
<1> SUFFICES ASSUME ServiceInit, NEW t \in Terminal
             PROVE  sessions[t].phase \notin {"accepted"} \cup Counted
    BY DEF ServedInv
<1> QED BY DEF ServiceInit, NoSession, Counted

\* A session is accepted by a core that is up, and cut with it.
LEMMA ServedStep == ServedInv /\ CountInv /\ [ServiceNext]_serviceVars => ServedInv'
<1> SUFFICES ASSUME ServedInv, CountInv, [ServiceNext]_serviceVars PROVE ServedInv'
    OBVIOUS
<1>1. CASE core' = core /\ sessions' = sessions
      BY <1>1, ServedSame
<1>2. CASE Start
      BY <1>2 DEF Start, ServedInv
<1>3. CASE Up
      <2>1. (\E why : Gone(why)) \/ core'.stage = "up"
            <3>1. CASE \E why : Gone(why)
                  BY <3>1
            <3>2. CASE ~\E why : Gone(why)
                  <4>1. PICK cert : core' = [core EXCEPT !.stage = "up", !.cert = cert]
                        BY <1>3, <3>2 DEF Up
                  <4>2. core.stage = "loaded"
                        BY <1>3 DEF Up
                  <4> QED BY <4>1, <4>2
            <3> QED BY <3>1, <3>2
      <2> QED BY <2>1, ServedGone DEF ServedInv
<1>4. CASE Stop
      BY <1>4, ServedGone DEF Stop
<1>5. ASSUME NEW t \in Terminal,
             \/ Dial(t) \/ Accept(t) \/ Handshake(t) \/ Greet(t) \/ Subscribe(t)
             \/ Receive(t) \/ Hangup(t) \/ Forget(t)
      PROVE  ServedInv'
      <2>1. core' = core
            BY <1>5 DEF Dial, Accept, Handshake, Greet, Subscribe, Receive, Hangup, Forget, coreVars
      <2> QED BY <1>5, <2>1, ServedSession
<1>6. CASE Forward \/ PumpDies
      BY <1>6, <1>1 DEF Forward, PumpDies
<1>7. ASSUME NEW m \in DOMAIN connectors,
             \/ VenueAnswers(m) \/ VenueDrops(m) \/ Reconnect(m) \/ CommandLost(m)
             \/ VenueSends(m) \/ BookFrozen(m) \/ TakeCommand(m)
             \/ \E add \in BOOLEAN, subs \in Asks : Ask(m, add, subs)
      PROVE  ServedInv'
      BY <1>7, <1>1 DEF VenueAnswers, VenueDrops, Reconnect, CommandLost, VenueSends, BookFrozen,
         TakeCommand, Ask
<1>10. CASE \/ Configure \/ AddPin \/ WriteCert \/ WriteKey \/ RemovePem \/ RemovePin
            \/ StoreKey \/ WriteOn \/ DeleteKey
      BY <1>10, <1>1 DEF Configure, AddPin, WriteCert, WriteKey, RemovePem, RemovePin,
         StoreKey, WriteOn, DeleteKey, coreVars
<1>11. CASE UNCHANGED serviceVars
      BY <1>11, <1>1 DEF serviceVars, coreVars
<1> QED BY <1>2, <1>3, <1>4, <1>5, <1>6, <1>7, <1>10, <1>11 DEF ServiceNext

\* The counters of a new process start over, and it has no sessions.
LEMMA CountStart == ASSUME CountInv, ServedInv, Start PROVE CountInv'
<1>1. sessions' = sessions /\ core.stage # "up" /\ (metrics' = metrics \/ metrics' = NoMetrics)
      BY DEF Start
<1>2. CASE metrics' = metrics
      BY <1>1, <1>2, CountSame
<1>3. CASE metrics' = NoMetrics
      <2>1. /\ \A t \in Terminal : SessionOK(sessions[t]) /\ sessions[t].phase \notin Counted
            /\ sessions = [t \in Terminal |-> sessions[t]]
            BY <1>1 DEF ServedInv, CountInv
      <2>2. (/\ \A t \in Terminal : SessionOK(sessions[t]) /\ sessions[t].phase \notin Counted
             /\ sessions = [t \in Terminal |-> sessions[t]] /\ metrics = NoMetrics)'
            BY <1>1, <1>3, <2>1
      <2> QED BY <2>2, NobodyMissed, PTL
<1> QED BY <1>1, <1>2, <1>3

\* Every step keeps the counters of connections and of missed events.
LEMMA CountStep ==
    CountInv /\ ServedInv /\ PipeInv /\ [ServiceNext]_serviceVars => CountInv'
<1> SUFFICES ASSUME CountInv, ServedInv, PipeInv, [ServiceNext]_serviceVars PROVE CountInv'
    OBVIOUS
<1>1. CASE UNCHANGED <<metrics, sessions>>
      BY <1>1, CountSame
<1>2. CASE Start
      BY <1>2, CountStart
<1>3. CASE Up
      BY <1>1, <1>3, CountGone DEF Up
<1>4. CASE Stop
      BY <1>4, CountGone DEF Stop
<1>5. ASSUME NEW t \in Terminal,
             \/ Dial(t) \/ Accept(t) \/ Handshake(t) \/ Greet(t) \/ Subscribe(t)
             \/ Receive(t) \/ Hangup(t) \/ Forget(t)
      PROVE  CountInv'
      BY <1>5, CountDial, CountAccept, CountHandshake, CountGreet, CountSubscribe, CountReceive,
         CountEnded DEF Hangup
<1>6. CASE Forward
      <2>1. /\ metrics' = [metrics EXCEPT !.broadcast = metrics.broadcast + 1]
            /\ sessions' = sessions
            BY <1>6 DEF Forward
      <2>2. metrics'.connected = metrics.connected /\ metrics'.lagged = metrics.lagged
            BY <2>1 DEF PipeInv, IsMetrics, MetricFields
      <2> QED BY <2>1, <2>2, Counters
<1>7. CASE PumpDies
      BY <1>7, <1>1 DEF PumpDies
<1>8. ASSUME NEW m \in DOMAIN connectors,
             \/ VenueAnswers(m) \/ VenueDrops(m) \/ Reconnect(m) \/ CommandLost(m)
             \/ VenueSends(m) \/ BookFrozen(m)
      PROVE  CountInv'
      <2>1. sessions' = sessions /\ \E events : Send(events)
            BY <1>8 DEF VenueAnswers, VenueDrops, Reconnect, CommandLost, VenueSends, BookFrozen, Lose
      <2> QED BY <2>1, SendCounts
<1>9. ASSUME NEW m \in DOMAIN connectors,
             TakeCommand(m) \/ \E add \in BOOLEAN, subs \in Asks : Ask(m, add, subs)
      PROVE  CountInv'
      BY <1>9, <1>1 DEF TakeCommand, Ask
<1>10. CASE \/ Configure \/ AddPin \/ WriteCert \/ WriteKey \/ RemovePem \/ RemovePin
            \/ StoreKey \/ WriteOn \/ DeleteKey
      BY <1>10, <1>1 DEF Configure, AddPin, WriteCert, WriteKey, RemovePem, RemovePin,
         StoreKey, WriteOn, DeleteKey, coreVars
<1>11. CASE UNCHANGED serviceVars
      BY <1>11, <1>1 DEF serviceVars, coreVars
<1> QED BY <1>2, <1>3, <1>4, <1>5, <1>6, <1>7, <1>8, <1>9, <1>10, <1>11 DEF ServiceNext

\* The counters are right, and what respond makes of them says so.
LEMMA CountsSay == PipeInv /\ CountInv => LossesCounted
<1> SUFFICES ASSUME PipeInv, CountInv PROVE LossesCounted
    OBVIOUS
<1>1. Respond("GET", "/metrics").body = metrics
      BY DEF Respond, Reply, Rendered
<1>2. Respond("GET", "/health").status = IF pipe.closed THEN 503 ELSE 200
      BY DEF Respond, Reply, Healthy
<1>3. pipe.produced = Len(pipe.queue) + metrics.broadcast + metrics.dropped + pipe.stranded
      BY DEF PipeInv
<1>4. metrics.dropped + pipe.stranded > 0 => Respond("GET", "/health").status = 503
      BY <1>2 DEF PipeInv
<1>5. ASSUME NEW t \in Terminal, sessions[t].phase \in Counted
      PROVE  sessions[t].at = sessions[t].joined + sessions[t].given + sessions[t].missed
      BY <1>5 DEF CountInv, SessionOK
<1>6. /\ Cardinality(Missed) <= metrics.lagged
      /\ metrics.connected = Cardinality({t \in Terminal : sessions[t].phase \in Counted})
      BY DEF CountInv, Open
<1> QED BY <1>1, <1>3, <1>4, <1>5, <1>6 DEF LossesCounted

\* The three hold together: with ServedInv the counters restart only when nobody is counted,
\* with PipeInv an overrun is a distance within the fanout.
LEMMA AllCounted == ServiceSpec => [](PipeInv /\ CountInv /\ ServedInv)
<1> DEFINE Inv == TrustInv /\ PipeInv /\ CountInv /\ ServedInv
<1>1. ServiceInit => Inv
      BY TrustInit, PipeInit, CountInit, ServedInit
<1>2. Inv /\ [ServiceNext]_serviceVars => Inv'
      BY TrustStep, PipeStep, CountStep, ServedStep DEF TrustInv
<1> QED BY <1>1, <1>2, PTL DEF ServiceSpec

\* The numbers of /metrics account for every event a connector produced, and /health says so
\* when some were lost; a session was given every event since it joined but those it missed,
\* which are all in the lagged counter; and as many sessions are open as are counted
\* (metrics.rs, EventSink::send, serve).
THEOREM LossesAlwaysCounted == ServiceSpec => []LossesCounted
BY AllCounted, CountsSay, PTL

-----------------------------------------------------------------------------
(* What a terminal knows.                                                  *)

FeedFields == {"status", "connection", "books", "trades", "tape", "note", "log"}
IsFeed(s)  == s = [f \in FeedFields |-> s[f]]
Same(r, s) == /\ IsFeed(r) /\ r.status = s.status /\ r.connection = s.connection
              /\ r.books = s.books

\* Every book came with the connection there is.
UpToDate(s) == IsFeed(s) /\ \A k \in DOMAIN s.books : s.books[k] = s.connection

\* A line of the log, a status, a note: books and connection stay.
LEMMA LogPushed ==
    ASSUME NEW s, IsFeed(s), NEW level, NEW text PROVE Same(PushLog(s, level, text), s)
<1> DEFINE log == Truncated(<<[text |-> text, level |-> level]>> \o s.log, LOG_DEPTH)
           r == [s EXCEPT !.log = log]
<1>1. PushLog(s, level, text) \in {s, r}
      BY DEF PushLog
<1>2. Same(s, s)
      BY DEF Same
<1> HIDE DEF log
<1>3. Same(r, s)
      BY DEF Same, IsFeed, FeedFields
<1> HIDE DEF r
<1> QED BY <1>1, <1>2, <1>3

LEMMA StatusSet ==
    ASSUME NEW s, IsFeed(s), NEW status
    PROVE  LET r == SetStatus(s, status)
           IN  /\ IsFeed(r) /\ r.status = status /\ r.connection = s.connection
               /\ r.books = s.books
<1> DEFINE q == [s EXCEPT !.status = status]
           level == IF status = "live" THEN "info" ELSE "warn"
           r == PushLog(q, level, status)
<1>1. /\ IsFeed(q) /\ q.status = status /\ q.connection = s.connection
      /\ q.books = s.books
      BY DEF IsFeed, FeedFields
<1>2. SetStatus(s, status) = r
      BY DEF SetStatus
<1> HIDE DEF q, level
<1>3. Same(r, q)
      BY <1>1, LogPushed
<1> HIDE DEF r
<1> QED BY <1>1, <1>2, <1>3 DEF Same

LEMMA NoteMade ==
    ASSUME NEW s, IsFeed(s), NEW level, NEW note PROVE Same(Noted(s, level, note), s)
<1> DEFINE q == [s EXCEPT !.note = note]
<1>1. Same(q, s)
      BY DEF Same, IsFeed, FeedFields
<1> HIDE DEF q
<1>2. Same(PushLog(q, level, note), q)
      BY <1>1, LogPushed DEF Same
<1>3. Noted(s, level, note) = PushLog(q, level, note)
      BY DEF Noted, q
<1> QED BY <1>1, <1>2, <1>3 DEF Same

\* apply, of books: they come with the connection there is.
LEMMA BookedCurrent ==
    ASSUME NEW s, UpToDate(s), NEW keys
    PROVE  LET r == Booked(s, keys)
           IN  UpToDate(r) /\ r.status = s.status /\ r.connection = s.connection
<1> DEFINE books == [k \in DOMAIN s.books \cup keys |->
                       IF k \in keys THEN s.connection ELSE s.books[k]]
           r == [s EXCEPT !.books = books]
<1>1. Booked(s, keys) = r
      BY DEF Booked, With
<1>2. \A k \in DOMAIN books : books[k] = s.connection
      BY DEF UpToDate
<1> HIDE DEF books
<1>3. IsFeed(r) /\ r.status = s.status /\ r.connection = s.connection /\ r.books = books
      BY DEF UpToDate, IsFeed, FeedFields
<1> HIDE DEF r
<1> QED BY <1>1, <1>2, <1>3 DEF UpToDate

LEMMA PrintedSame == ASSUME NEW s, IsFeed(s), NEW keys PROVE Same(Printed(s, keys), s)
<1>1. PICK trades, tape : Printed(s, keys) = [s EXCEPT !.trades = trades, !.tape = tape]
      BY DEF Printed
<1> QED BY <1>1 DEF Same, IsFeed, FeedFields

\* What touches neither books nor connection leaves them current.
LEMMA SameCurrent ==
    ASSUME NEW s, UpToDate(s), NEW r, Same(r, s)
    PROVE  UpToDate(r) /\ r.status = s.status /\ r.connection = s.connection
BY DEF UpToDate, Same

\* apply, of what a read-model hands over.
LEMMA HandedCurrent ==
    ASSUME NEW s, UpToDate(s), NEW events
    PROVE  LET r == Handed(s, events)
           IN  UpToDate(r) /\ r.status = s.status /\ r.connection = s.connection
<1>1. PICK keys, more : Handed(s, events) = Booked(Printed(s, keys), more)
      BY DEF Handed
<1>2. /\ UpToDate(Printed(s, keys)) /\ Printed(s, keys).status = s.status
      /\ Printed(s, keys).connection = s.connection
      BY PrintedSame, SameCurrent DEF UpToDate
<1> QED BY <1>1, <1>2, BookedCurrent

After(r, s, e) == /\ UpToDate(r) /\ r.status = s.status /\ r.connection = s.connection
                  /\ e.kind # "BookSnapshot" /\ DOMAIN s.books = {} => DOMAIN r.books = {}

\* apply, of any event: books stay current, and only a book brings one where there was none.
LEMMA ShownCurrent ==
    ASSUME NEW s, UpToDate(s), NEW e, IsEvent(e), NEW torn, NEW r, r = Shown(s, e, torn)
    PROVE  After(r, s, e)
<1>0. IsFeed(s)
      BY DEF UpToDate
<1>1. ASSUME Same(r, s) PROVE After(r, s, e)
      <2>1. UpToDate(r) /\ r.status = s.status /\ r.connection = s.connection
            BY <1>1, SameCurrent
      <2> QED BY <1>1, <2>1 DEF Same, After
<1>2. Same(s, s)
      BY <1>0 DEF Same
<1>3. CASE e.kind = "BookSnapshot"
      <2>1. r = Booked(s, {e.key})
            BY <1>3 DEF Shown
      <2> QED BY <1>3, <2>1, BookedCurrent DEF After
<1>4. CASE e.kind = "BookDelta"
      <2>1. CASE e.key \in DOMAIN s.books /\ torn
            <3> DEFINE books == Without(s.books, e.key)
                       q == [s EXCEPT !.books = books]
            <3>1. DOMAIN books = DOMAIN s.books \ {e.key} /\ \A k \in DOMAIN books : books[k] = s.books[k]
                  BY DEF Without, Restrict
            <3> HIDE DEF books
            <3>2. IsFeed(q) /\ q.status = s.status /\ q.connection = s.connection /\ q.books = books
                  BY <1>0 DEF IsFeed, FeedFields
            <3>3. r = Noted(q, "warn", "desynced")
                  BY <1>4, <2>1 DEF Shown, books
            <3> HIDE DEF q
            <3>4. Same(r, q)
                  BY <3>2, <3>3, NoteMade
            <3>5. \A k \in DOMAIN r.books : r.books[k] = r.connection
                  BY <3>1, <3>2, <3>4 DEF Same, UpToDate
            <3> QED BY <3>1, <3>2, <3>4, <3>5 DEF Same, UpToDate, After
      <2>2. CASE ~(e.key \in DOMAIN s.books /\ torn)
            <3>1. r = s
                  BY <1>4, <2>2 DEF Shown
            <3> QED BY <1>1, <1>2, <3>1
      <2> QED BY <2>1, <2>2
<1>5. CASE e.kind = "Trade"
      <2>1. r = Printed(s, {e.key})
            BY <1>5 DEF Shown
      <2> QED BY <1>0, <1>1, <2>1, PrintedSame
<1>6. CASE e.kind = "Resyncing" \/ e.kind = "Disconnected"
      <2>1. PICK level, note : r = Noted(s, level, note)
            BY <1>6 DEF Shown
      <2> QED BY <1>0, <1>1, <2>1, NoteMade
<1>7. CASE e.kind = "Ready"
      <2> DEFINE q == [s EXCEPT !.note = "none"]
      <2>1. r = PushLog(q, "info", "core feed ready")
            BY <1>7 DEF Shown
      <2>2. Same(q, s)
            BY <1>0 DEF Same, IsFeed, FeedFields
      <2> HIDE DEF q
      <2>3. Same(r, q)
            <3>1. IsFeed(q)
                  BY <2>2 DEF Same
            <3> QED BY <3>1, <2>1, LogPushed
      <2>4. Same(r, s)
            BY <2>2, <2>3 DEF Same
      <2> QED BY <1>1, <2>4
<1>8. CASE e.kind = "Connecting"
      <2>1. r = s
            BY <1>8 DEF Shown
      <2> QED BY <1>1, <1>2, <2>1
<1>9. e.kind \in EventKinds
      BY DEF IsEvent
<1> QED BY <1>3, <1>4, <1>5, <1>6, <1>7, <1>8, <1>9 DEF EventKinds

-----------------------------------------------------------------------------
(* What its window shows of it.                                            *)

Bookless == {"idle", "dialing", "accepted", "open", "live"}

\* Between the end of a session and the next subscription there are no books; a terminal that
\* was refused had none, and does not go on.
FeedOK(s, phase) ==
    /\ UpToDate(s)
    /\ s.status = "refused" => phase \in {"ended", "idle"} /\ DOMAIN s.books = {}
    /\ phase \in Bookless => DOMAIN s.books = {}

FeedInv == /\ display = [t \in Terminal |-> display[t]]
           /\ \A t \in Terminal : FeedOK(display[t], sessions[t].phase)

LEMMA FeedSame == FeedInv /\ display' = display /\ sessions' = sessions => FeedInv'
BY DEF FeedInv

\* Only t's phase and what it shows change.
LEMMA TerminalMoves ==
    ASSUME FeedInv, CountInv, NEW t \in Terminal, NEW s, NEW d,
           sessions' = [sessions EXCEPT ![t] = s], display' = [display EXCEPT ![t] = d],
           FeedOK(d, s.phase)
    PROVE  FeedInv'
<1>1. sessions = [u \in Terminal |-> sessions[u]] /\ display = [u \in Terminal |-> display[u]]
      BY DEF CountInv, FeedInv
<1>2. /\ sessions'[t] = s /\ \A u \in Terminal \ {t} : sessions'[u] = sessions[u]
      /\ display'[t] = d /\ \A u \in Terminal \ {t} : display'[u] = display[u]
      /\ display' = [u \in Terminal |-> display'[u]]
      BY <1>1
<1> QED BY <1>2 DEF FeedInv

LEMMA PhaseMoves ==
    ASSUME FeedInv, CountInv, NEW t \in Terminal, NEW s,
           sessions' = [sessions EXCEPT ![t] = s], display' = display,
           FeedOK(display[t], s.phase)
    PROVE  FeedInv'
<1>1. display' = [display EXCEPT ![t] = display[t]]
      BY DEF FeedInv
<1> QED BY <1>1, TerminalMoves

LEMMA Phased ==
    ASSUME CountInv, NEW t \in Terminal, NEW p,
           sessions' = [sessions EXCEPT ![t].phase = p]
    PROVE  LET s == [sessions[t] EXCEPT !.phase = p]
           IN  sessions' = [sessions EXCEPT ![t] = s] /\ s.phase = p
<1>1. SessionOK(sessions[t]) /\ sessions = [u \in Terminal |-> sessions[u]]
      BY DEF CountInv
<1> DEFINE s == [sessions[t] EXCEPT !.phase = p]
<1>2. sessions' = [sessions EXCEPT ![t] = s]
      BY <1>1
<1>3. s.phase = p
      BY <1>1 DEF SessionOK, IsSession, SessionFields
<1> QED BY <1>2, <1>3

\* Books outlive the session that ends; a refusal is answered before there are any.
LEMMA FeedEnded ==
    ASSUME FeedInv, CountInv, NEW t \in Terminal, NEW status, Ended(t, status),
           status = "refused" => sessions[t].phase \in Bookless
    PROVE  FeedInv'
<1> DEFINE s == [NoSession EXCEPT !.phase = "ended"]
           d == SetStatus(display[t], status)
<1>1. sessions' = [sessions EXCEPT ![t] = s] /\ display' = [display EXCEPT ![t] = d]
      BY DEF Ended
<1>2. s.phase = "ended"
      BY DEF NoSession
<1>3. FeedOK(display[t], sessions[t].phase)
      BY DEF FeedInv
<1>4. /\ IsFeed(d) /\ d.status = status /\ d.connection = display[t].connection
      /\ d.books = display[t].books
      BY <1>3, StatusSet DEF FeedOK, UpToDate
<1> HIDE DEF s, d
<1>5. FeedOK(d, s.phase)
      BY <1>2, <1>3, <1>4 DEF FeedOK, UpToDate, Bookless
<1> QED BY <1>1, <1>5, TerminalMoves

\* A connection is numbered while there are no books of the last one.
LEMMA FeedDial == ASSUME FeedInv, CountInv, NEW t \in Terminal, Dial(t) PROVE FeedInv'
<1> DEFINE said == SetStatus(display[t], "connecting")
           n == said.connection + 1
           d == [said EXCEPT !.connection = n]
<1>1. /\ sessions[t].phase = "idle" /\ sessions' = [sessions EXCEPT ![t].phase = "dialing"]
      /\ display' = [display EXCEPT ![t] = d]
      BY DEF Dial
<1>2. PICK s : sessions' = [sessions EXCEPT ![t] = s] /\ s.phase = "dialing"
      BY <1>1, Phased
<1>3. FeedOK(display[t], sessions[t].phase) /\ sessions[t].phase \in Bookless
      BY <1>1 DEF FeedInv, Bookless
<1>4. IsFeed(said) /\ said.status = "connecting" /\ said.books = display[t].books
      BY <1>3, StatusSet DEF FeedOK, UpToDate
<1> HIDE DEF said, n
<1>5. IsFeed(d) /\ d.status = "connecting" /\ d.books = display[t].books
      BY <1>4 DEF IsFeed, FeedFields
<1> HIDE DEF d
<1>6. DOMAIN d.books = {}
      BY <1>3, <1>5 DEF FeedOK
<1>7. FeedOK(d, s.phase)
      BY <1>5, <1>6 DEF FeedOK, UpToDate
<1> QED BY <1>1, <1>2, <1>7, TerminalMoves

LEMMA FeedAccept == ASSUME FeedInv, CountInv, NEW t \in Terminal, Accept(t) PROVE FeedInv'
<1> DEFINE s == [NoSession EXCEPT !.phase = "accepted", !.joined = pipe.head, !.at = pipe.head]
<1>1. /\ sessions' = [sessions EXCEPT ![t] = s] /\ display' = display
      /\ sessions[t].phase = "dialing"
      BY DEF Accept
<1>2. s.phase = "accepted"
      BY DEF NoSession
<1> HIDE DEF s
<1>3. FeedOK(display[t], s.phase)
      BY <1>1, <1>2 DEF FeedInv, FeedOK, Bookless
<1> QED BY <1>1, <1>3, PhaseMoves

LEMMA FeedHandshake == ASSUME FeedInv, CountInv, NEW t \in Terminal, Handshake(t) PROVE FeedInv'
<1>1. CASE Ended(t, "lost")
      BY <1>1, FeedEnded
<1>2. CASE ~Ended(t, "lost")
      <2>1. /\ sessions[t].phase = "accepted" /\ display' = display
            /\ sessions' = [sessions EXCEPT ![t].phase = "open"]
            BY <1>2 DEF Handshake
      <2>2. PICK s : sessions' = [sessions EXCEPT ![t] = s] /\ s.phase = "open"
            BY <2>1, Phased
      <2>3. FeedOK(display[t], s.phase)
            BY <2>1, <2>2 DEF FeedInv, FeedOK, Bookless
      <2> QED BY <2>1, <2>2, <2>3, PhaseMoves
<1> QED BY <1>1, <1>2

LEMMA FeedGreet == ASSUME FeedInv, CountInv, NEW t \in Terminal, Greet(t) PROVE FeedInv'
<1>0. sessions[t].phase = "open" /\ sessions[t].phase \in Bookless
      BY DEF Greet, Bookless
<1>1. CASE \E status : Ended(t, status)
      BY <1>0, <1>1, FeedEnded
<1>2. CASE ~\E status : Ended(t, status)
      <2> DEFINE d == SetStatus(display[t], "live")
      <2>1. /\ display' = [display EXCEPT ![t] = d]
            /\ sessions' = [sessions EXCEPT ![t].phase = "live"]
            BY <1>2 DEF Greet
      <2>2. PICK s : sessions' = [sessions EXCEPT ![t] = s] /\ s.phase = "live"
            BY <2>1, Phased
      <2>3. FeedOK(display[t], sessions[t].phase)
            BY DEF FeedInv
      <2>4. /\ IsFeed(d) /\ d.status = "live" /\ d.connection = display[t].connection
            /\ d.books = display[t].books
            BY <2>3, StatusSet DEF FeedOK, UpToDate
      <2> HIDE DEF d
      <2>5. FeedOK(d, s.phase)
            BY <1>0, <2>2, <2>3, <2>4 DEF FeedOK, UpToDate
      <2> QED BY <2>1, <2>2, <2>5, TerminalMoves
<1> QED BY <1>1, <1>2

\* What is handed over comes with the connection of the subscription.
LEMMA FeedSubscribe == ASSUME FeedInv, CountInv, NEW t \in Terminal, Subscribe(t) PROVE FeedInv'
<1> DEFINE s == [sessions[t] EXCEPT !.phase = "subscribed", !.gap = FALSE]
           d == Handed(display[t], {e \in pipe.held : e.key \in ToSet(Watching)})
<1>0. SessionOK(sessions[t]) /\ sessions = [u \in Terminal |-> sessions[u]]
      BY DEF CountInv
<1>1. /\ sessions' = [sessions EXCEPT ![t].phase = "subscribed", ![t].gap = FALSE]
      /\ display' = [display EXCEPT ![t] = d] /\ sessions[t].phase = "live"
      BY DEF Subscribe
<1>2. sessions' = [sessions EXCEPT ![t] = s]
      BY <1>0, <1>1
<1>3. s.phase = "subscribed"
      BY <1>0 DEF SessionOK, IsSession, SessionFields
<1>4. FeedOK(display[t], sessions[t].phase)
      BY DEF FeedInv
<1>5. UpToDate(d) /\ d.status = display[t].status
      BY <1>4, HandedCurrent DEF FeedOK
<1> HIDE DEF s, d
<1>6. d.status # "refused"
      BY <1>1, <1>4, <1>5 DEF FeedOK
<1>7. FeedOK(d, s.phase)
      BY <1>3, <1>5, <1>6 DEF FeedOK, Bookless
<1> QED BY <1>1, <1>2, <1>7, TerminalMoves

\* A session that has not subscribed wants only what is of no instrument.
LEMMA FeedShows ==
    ASSUME FeedInv, CountInv, NEW t \in Terminal, NEW s, sessions[t].phase \in Counted,
           sessions' = [sessions EXCEPT ![t] = s], s.phase = sessions[t].phase,
           NEW e, IsEvent(e), Wants(t, e), NEW torn, Shows(t, e, torn)
    PROVE  FeedInv'
<1> DEFINE d == Shown(display[t], e, torn)
<1>1. display' = [display EXCEPT ![t] = d]
      BY DEF Shows
<1>2. FeedOK(display[t], s.phase)
      BY DEF FeedInv
<1>3. After(d, display[t], e)
      BY <1>2, ShownCurrent DEF FeedOK
<1>4. s.phase \in Bookless => e.kind # "BookSnapshot"
      BY DEF Wants, IsEvent, Bookless
<1> HIDE DEF d
<1>5. d.status # "refused"
      BY <1>2, <1>3 DEF FeedOK, After, Counted
<1>6. FeedOK(d, s.phase)
      BY <1>2, <1>3, <1>4, <1>5 DEF FeedOK, After
<1> QED BY <1>1, <1>6, TerminalMoves

\* The event a session is given is one the fanout still holds.
LEMMA FeedReceive ==
    ASSUME FeedInv, CountInv, PipeInv, NEW t \in Terminal, Receive(t) PROVE FeedInv'
<1> DEFINE oldest == pipe.head - Len(pipe.recent)
           r == sessions[t]
           i == r.at - oldest + 1
           event == pipe.recent[i]
<1>0. SessionOK(r) /\ sessions = [u \in Terminal |-> sessions[u]]
      BY DEF CountInv
<1>1. oldest \in Nat /\ pipe.head \in Nat /\ Len(pipe.recent) \in Nat /\ r.at \in Nat
      <2>1. Len(pipe.recent) \in Nat
            BY SeqFacts DEF PipeInv, Events
      <2> QED BY <1>0, <2>1 DEF PipeInv, SessionOK
<1>2. r.phase \in Counted /\ r.at < pipe.head
      BY DEF Receive
<1>3. CASE r.at < oldest
      <2> DEFINE s == [r EXCEPT !.at = oldest, !.missed = r.missed + (oldest - r.at), !.gap = TRUE]
      <2>1. /\ sessions' = [sessions EXCEPT ![t] = s]
            /\ Shows(t, Happened("Resyncing"), FALSE)
            BY <1>3 DEF Receive
      <2>2. s.phase = r.phase
            BY <1>0 DEF SessionOK, IsSession, SessionFields
      <2>3. Wants(t, Happened("Resyncing")) /\ IsEvent(Happened("Resyncing"))
            BY Happenings DEF Wants, Happened
      <2> HIDE DEF s
      <2> QED BY <1>2, <2>1, <2>2, <2>3, FeedShows
<1>4. CASE ~(r.at < oldest)
      <2>1. i \in 1..Len(pipe.recent)
            BY <1>1, <1>2, <1>4
      <2>2. IsEvent(event)
            BY <2>1 DEF PipeInv, Events
      <2> DEFINE gap == r.gap /\ event.kind # "BookSnapshot"
      <2>3. /\ sessions' = [sessions EXCEPT ![t] =
                             [r EXCEPT !.at = r.at + 1, !.given = r.given + 1, !.gap = gap]]
            /\ IF Wants(t, event) THEN Shows(t, event, r.gap) ELSE UNCHANGED display
            BY <1>4 DEF Receive
      <2> HIDE DEF gap, event
      <2> DEFINE s == [r EXCEPT !.at = r.at + 1, !.given = r.given + 1, !.gap = gap]
      <2>4. s.phase = r.phase
            BY <1>0 DEF SessionOK, IsSession, SessionFields
      <2>5. sessions' = [sessions EXCEPT ![t] = s]
            BY <2>3
      <2> HIDE DEF s
      <2>6. FeedOK(display[t], s.phase)
            BY <2>4 DEF FeedInv
      <2>7. CASE Wants(t, event)
            BY <1>2, <2>2, <2>3, <2>4, <2>5, <2>7, FeedShows
      <2>8. CASE ~Wants(t, event)
            BY <2>3, <2>5, <2>6, <2>8, PhaseMoves
      <2> QED BY <2>7, <2>8
<1> QED BY <1>3, <1>4

\* run clears the books before the next attempt.
LEMMA FeedForget == ASSUME FeedInv, CountInv, NEW t \in Terminal, Forget(t) PROVE FeedInv'
<1> DEFINE d == IF display[t].status = "refused" THEN display[t] ELSE ClearBooks(display[t])
<1>1. /\ sessions' = [sessions EXCEPT ![t].phase = "idle"]
      /\ display' = [display EXCEPT ![t] = d]
      BY DEF Forget
<1>2. PICK s : sessions' = [sessions EXCEPT ![t] = s] /\ s.phase = "idle"
      BY <1>1, Phased
<1>3. FeedOK(display[t], sessions[t].phase)
      BY DEF FeedInv
<1>4. FeedOK(d, "idle")
      <2>1. CASE display[t].status = "refused"
            BY <1>3, <2>1 DEF FeedOK
      <2>2. CASE display[t].status # "refused"
            <3> DEFINE r == [display[t] EXCEPT !.books = <<>>]
            <3>1. /\ IsFeed(r) /\ r.status = display[t].status /\ r.books = <<>>
                  BY <1>3 DEF FeedOK, UpToDate, IsFeed, FeedFields
            <3>2. DOMAIN <<>> = {}
                  OBVIOUS
            <3> HIDE DEF r
            <3>3. FeedOK(r, "idle")
                  BY <3>1, <3>2, <2>2 DEF FeedOK, UpToDate
            <3> QED BY <2>2, <3>3 DEF r, ClearBooks
      <2> QED BY <2>1, <2>2
<1> HIDE DEF d
<1>5. FeedOK(d, s.phase)
      BY <1>2, <1>4
<1> QED BY <1>1, <1>2, <1>5, TerminalMoves

LEMMA FeedGone == ASSUME FeedInv, NEW why, Gone(why), display' = display PROVE FeedInv'
<1>1. ASSUME NEW t \in Terminal PROVE FeedOK(display[t], sessions'[t].phase)
      <2>1. FeedOK(display[t], sessions[t].phase)
            BY DEF FeedInv
      <2>2. CASE sessions[t].phase \in {"idle", "dialing", "ended"}
            <3>1. sessions'[t] = sessions[t]
                  BY <2>2 DEF Gone
            <3> QED BY <2>1, <3>1
      <2>3. CASE sessions[t].phase \notin {"idle", "dialing", "ended"}
            <3>1. sessions'[t] = [NoSession EXCEPT !.phase = "cut"]
                  BY <2>3 DEF Gone
            <3>2. sessions'[t].phase = "cut"
                  BY <3>1 DEF NoSession
            <3> QED BY <2>1, <2>3, <3>2 DEF FeedOK, Bookless
      <2> QED BY <2>2, <2>3
<1> QED BY <1>1 DEF FeedInv

LEMMA FeedInit == ServiceInit => FeedInv
<1> SUFFICES ASSUME ServiceInit PROVE FeedInv
    OBVIOUS
<1>1. sessions = [t \in Terminal |-> NoSession] /\ display = [t \in Terminal |-> NoFeed]
      BY DEF ServiceInit
<1>2. IsFeed(NoFeed) /\ NoFeed.status = "connecting" /\ NoFeed.books = <<>>
      BY DEF NoFeed, IsFeed, FeedFields
<1>3. DOMAIN <<>> = {}
      OBVIOUS
<1>4. FeedOK(NoFeed, NoSession.phase)
      BY <1>2, <1>3 DEF FeedOK, UpToDate
<1> QED BY <1>1, <1>4 DEF FeedInv

\* Every step keeps what terminals know current.
LEMMA FeedStep ==
    FeedInv /\ CountInv /\ PipeInv /\ [ServiceNext]_serviceVars => FeedInv'
<1> SUFFICES ASSUME FeedInv, CountInv, PipeInv, [ServiceNext]_serviceVars PROVE FeedInv'
    OBVIOUS
<1>1. CASE UNCHANGED <<display, sessions>>
      BY <1>1, FeedSame
<1>2. CASE Start
      BY <1>2, <1>1 DEF Start
<1>3. CASE Up
      BY <1>1, <1>3, FeedGone DEF Up
<1>4. CASE Stop
      BY <1>4, FeedGone DEF Stop
<1>5. ASSUME NEW t \in Terminal,
             \/ Dial(t) \/ Accept(t) \/ Handshake(t) \/ Greet(t) \/ Subscribe(t)
             \/ Receive(t) \/ Hangup(t) \/ Forget(t)
      PROVE  FeedInv'
      <2>1. CASE Hangup(t)
            BY <2>1, FeedEnded DEF Hangup
      <2> QED BY <1>5, <2>1, FeedDial, FeedAccept, FeedHandshake, FeedGreet, FeedSubscribe,
                 FeedReceive, FeedForget
<1>6. CASE Forward \/ PumpDies
      BY <1>6, <1>1 DEF Forward, PumpDies
<1>7. ASSUME NEW m \in DOMAIN connectors,
             \/ VenueAnswers(m) \/ VenueDrops(m) \/ Reconnect(m) \/ CommandLost(m)
             \/ VenueSends(m) \/ BookFrozen(m) \/ TakeCommand(m)
             \/ \E add \in BOOLEAN, subs \in Asks : Ask(m, add, subs)
      PROVE  FeedInv'
      BY <1>7, <1>1 DEF VenueAnswers, VenueDrops, Reconnect, CommandLost, VenueSends, BookFrozen,
         TakeCommand, Ask
<1>10. CASE \/ Configure \/ AddPin \/ WriteCert \/ WriteKey \/ RemovePem \/ RemovePin
            \/ StoreKey \/ WriteOn \/ DeleteKey
      BY <1>10, <1>1 DEF Configure, AddPin, WriteCert, WriteKey, RemovePem, RemovePin,
         StoreKey, WriteOn, DeleteKey, coreVars
<1>11. CASE UNCHANGED serviceVars
      BY <1>11, <1>1 DEF serviceVars, coreVars
<1> QED BY <1>2, <1>3, <1>4, <1>5, <1>6, <1>7, <1>10, <1>11 DEF ServiceNext

LEMMA BookShown ==
    ASSUME NEW s, UpToDate(s), NEW key
    PROVE  /\ At(s.books, key, 0) \in {0, s.connection}
           /\ DOMAIN s.books = {} => At(s.books, key, 0) = 0
BY DEF UpToDate, At

\* Whatever is selected, a frame draws books of the state it is made from, or none.
LEMMA FrameDrawn ==
    ASSUME NEW s, UpToDate(s), NEW view
    PROVE  LET frame == Frame(view, s, Watching)
           IN  /\ Drawn(frame) \subseteq {0, s.connection}
               /\ DOMAIN s.books = {} => Drawn(frame) = {0}
               /\ frame.connection = s.connection
               /\ frame.bottom.tone = "negative" => s.status = "refused"
<1> DEFINE frame == Frame(view, s, Watching)
           key == Watching[view.instrument]
           rows == frame.dock.rows
<1>1. frame.mid = At(s.books, key, 0) /\ frame.connection = s.connection
      BY DEF Frame, TopBar
<1>2. frame.book.book = At(s.books, key, 0)
      BY DEF Frame, OrderBookPanel, At
<1>3. frame.chart.chart.heat \in {0, At(s.books, key, 0)}
      BY DEF Frame, ChartPane, ChartPanel
<1>4. rows = <<>> \/ rows = InstrumentsPanel(s, Watching)
      BY DEF Frame, Dock
<1>5. \A i \in DOMAIN rows : \E k : rows[i].book = At(s.books, k, 0)
      <2>1. CASE rows = <<>>
            <3>1. DOMAIN <<>> = {}
                  OBVIOUS
            <3> HIDE DEF rows
            <3> QED BY <2>1, <3>1
      <2>2. CASE rows = InstrumentsPanel(s, Watching)
            <3> HIDE DEF rows
            <3> QED BY <2>2 DEF InstrumentsPanel
      <2> QED BY <1>4, <2>1, <2>2
<1>6. frame.bottom.tone = "negative" => s.status = "refused"
      BY DEF Frame, StatusBar
<1>7. ASSUME NEW b \in Drawn(frame) PROVE \E k : b = At(s.books, k, 0) \/ b = 0
      <2> HIDE DEF frame
      <2> QED BY <1>1, <1>2, <1>3, <1>5 DEF Drawn
<1>8. frame.mid \in Drawn(frame)
      BY DEF Drawn
<1>9. \A k : /\ At(s.books, k, 0) \in {0, s.connection}
             /\ DOMAIN s.books = {} => At(s.books, k, 0) = 0
      BY BookShown
<1> HIDE DEF frame, key
<1>10. Drawn(frame) \subseteq {0, s.connection}
       BY <1>7, <1>9
<1>11. DOMAIN s.books = {} => Drawn(frame) = {0}
       BY <1>1, <1>7, <1>8, <1>9
<1> QED BY <1>1, <1>6, <1>10, <1>11 DEF frame

\* So is every frame made from it.
LEMMA FeedHonest == FeedInv => FramesHonest
<1> SUFFICES ASSUME FeedInv, NEW t \in Terminal, NEW i \in DOMAIN Watching, NEW d \in DOMAIN Tabs
             PROVE  LET frame == Frame([FirstView EXCEPT !.instrument = i, !.dock = d],
                                       display[t], Watching)
                    IN  /\ frame.bottom.tone = "positive" => Drawn(frame) \subseteq {0, frame.connection}
                        /\ frame.bottom.tone = "negative" => Drawn(frame) = {0}
    BY DEF FramesHonest
<1> DEFINE view == [FirstView EXCEPT !.instrument = i, !.dock = d]
           frame == Frame(view, display[t], Watching)
<1>1. FeedOK(display[t], sessions[t].phase)
      BY DEF FeedInv
<1> HIDE DEF view
<1>2. /\ Drawn(frame) \subseteq {0, frame.connection}
      /\ DOMAIN display[t].books = {} => Drawn(frame) = {0}
      /\ frame.bottom.tone = "negative" => display[t].status = "refused"
      BY <1>1, FrameDrawn DEF FeedOK
<1> HIDE DEF frame
<1>3. frame.bottom.tone = "negative" => Drawn(frame) = {0}
      BY <1>1, <1>2 DEF FeedOK
<1> QED BY <1>2, <1>3 DEF frame, view

\* A frame whose status is live shows no book of an earlier connection, and one that says the
\* core refused shows none at all, whatever is selected (feed.rs run and apply, panels.rs).
THEOREM FramesAlwaysHonest == ServiceSpec => []FramesHonest
<1>1. ServiceInit => FeedInv
      BY FeedInit
<1>2. FeedInv /\ PipeInv /\ CountInv /\ [ServiceNext]_serviceVars => FeedInv'
      BY FeedStep
<1> QED BY <1>1, <1>2, AllCounted, FeedHonest, PTL DEF ServiceSpec
=============================================================================
