------------------------------- MODULE Store -------------------------------
(***************************************************************************)
(* The event store (crates/storage/src/store.rs): callers that queue jobs  *)
(* on a bounded channel and block when it is full, and the one writer      *)
(* thread that gathers what waits into a batch, commits the batch as one   *)
(* transaction and answers each job.  The process may die at any instant.  *)
(*                                                                         *)
(* SQLite is outside the repository.  In WAL mode with synchronous=NORMAL  *)
(* a commit survives the process; a power cut may lose the commits since   *)
(* the last checkpoint.                                                    *)
(***************************************************************************)
EXTENDS Sequences, Naturals, FiniteSets

CONSTANTS Caller,        \* the threads that write
          MaxCalls,      \* write() calls of one of them in one behaviour
          Bad,           \* the jobs with a statement that always fails
          QueueDepth,    \* QUEUE_DEPTH
          MaxBatch,      \* MAX_BATCH
          MaxLives       \* times the store is opened in one behaviour

\* A job is one write() call: the n-th of its caller.
Job == Caller \X (1..MaxCalls)

ASSUME StoreAssumption ==
    /\ MaxCalls \in Nat /\ QueueDepth \in Nat \ {0} /\ MaxBatch \in Nat \ {0} /\ MaxLives \in Nat
    /\ Bad \subseteq Job

VARIABLES calls,     \* per caller: write() calls made
          blocked,   \* per caller: it waits in send() for room
          queue,     \* the channel
          stage,     \* where the writer thread stands
          batch,     \* the jobs it has gathered and not answered yet
          applied,   \* how many of them the open transaction has executed
          open,      \* a transaction is open on the writer's connection
          outcome,   \* what commit() returned
          db,        \* what is committed, in order
          synced,    \* how much of it has been forced to disk
          answer,    \* what each job has been answered
          dropping,  \* the Store is being dropped
          lives,     \* times the store has been opened (history, bounds the model)
          lost       \* jobs that were in flight when the process died (history)

callerVars == <<calls, blocked>>
diskVars   == <<db, synced>>
lifeVars   == <<dropping, lives, lost>>
vars       == <<callerVars, queue, stage, batch, applied, open, outcome, diskVars, answer,
                lifeVars>>

Stages == {"recv", "gather", "apply", "answer", "gone"}

\* The elements of a sequence.
In(seq) == {seq[i] : i \in DOMAIN seq}

Init ==
    /\ calls = [c \in Caller |-> 0]
    /\ blocked = [c \in Caller |-> FALSE]
    /\ queue = <<>>
    /\ stage = "recv"
    /\ batch = <<>>
    /\ applied = 0
    /\ open = FALSE
    /\ outcome = "ok"
    /\ db = <<>>
    /\ synced = 0
    /\ answer = [j \in Job |-> "nothing"]
    /\ dropping = FALSE
    /\ lives = 1
    /\ lost = {}

Current(c) == <<c, calls[c]>>

HasRoom == Len(queue) < QueueDepth

\* The jobs a caller has been given a WriteAck for, or is still to queue, without an answer.
InFlight == {Current(c) : c \in {d \in Caller : blocked[d]}} \cup In(queue) \cup In(batch)

-----------------------------------------------------------------------------
(* The callers.                                                            *)

\* Store::write: try_send, and send when the channel is full.
Write(c) ==
    /\ ~dropping /\ ~blocked[c] /\ calls[c] < MaxCalls
    /\ calls' = [calls EXCEPT ![c] = @ + 1]
    /\ IF HasRoom
       THEN queue' = Append(queue, <<c, calls[c] + 1>>) /\ UNCHANGED blocked
       ELSE blocked' = [blocked EXCEPT ![c] = TRUE] /\ UNCHANGED queue
    /\ UNCHANGED <<stage, batch, applied, open, outcome, diskVars, answer, lifeVars>>

\* The blocking send() finds room.
Unblock(c) ==
    /\ blocked[c] /\ HasRoom
    /\ blocked' = [blocked EXCEPT ![c] = FALSE]
    /\ queue' = Append(queue, Current(c))
    /\ UNCHANGED <<calls, stage, batch, applied, open, outcome, diskVars, answer, lifeVars>>

\* Drop for Store. It is exclusive, so no caller is inside write().
DropStore ==
    /\ ~dropping
    /\ \A c \in Caller : ~blocked[c]
    /\ dropping' = TRUE
    /\ UNCHANGED <<callerVars, queue, stage, batch, applied, open, outcome, diskVars, answer, lives,
                   lost>>

-----------------------------------------------------------------------------
(* The writer thread.                                                      *)

\* rx.recv() returns the first job of a batch, try_recv() the others.
Take ==
    /\ queue # <<>>
    /\ \/ stage = "recv"
       \/ stage = "gather" /\ Len(batch) < MaxBatch
    /\ stage' = "gather"
    /\ batch' = Append(batch, Head(queue))
    /\ queue' = Tail(queue)
    /\ UNCHANGED <<callerVars, applied, open, outcome, diskVars, answer, lifeVars>>

\* A mutant: a failed batch is dropped without a word.
FailSilently ==
    /\ stage' = "recv"
    /\ batch' = <<>>
    /\ outcome' = "err"
    /\ UNCHANGED <<callerVars, queue, diskVars, answer, lifeVars>>

Fail ==
    /\ stage' = "answer"
    /\ outcome' = "err"
    /\ UNCHANGED <<callerVars, queue, batch, diskVars, answer, lifeVars>>

\* BEGIN IMMEDIATE.
Begin ==
    /\ stage = "gather"
    /\ queue = <<>> \/ Len(batch) = MaxBatch
    /\ ~open
    /\ stage' = "apply"
    /\ open' = TRUE
    /\ UNCHANGED <<callerVars, queue, batch, applied, outcome, diskVars, answer, lifeVars>>

\* It fails when another connection is busy too long, and within an open transaction.
BeginFails ==
    /\ stage = "gather"
    /\ queue = <<>> \/ Len(batch) = MaxBatch
    /\ Fail
    /\ UNCHANGED <<applied, open>>

Apply ==
    /\ stage = "apply"
    /\ applied < Len(batch) /\ batch[applied + 1] \notin Bad
    /\ applied' = applied + 1
    /\ UNCHANGED <<callerVars, queue, stage, batch, open, outcome, diskVars, answer, lifeVars>>

\* One statement fails, a bad one or any other for a full disk: ROLLBACK, and the whole batch
\* has failed.
ApplyFails ==
    /\ stage = "apply"
    /\ applied < Len(batch)
    /\ applied' = 0
    /\ open' = FALSE
    /\ Fail

\* COMMIT.
CommitBatch ==
    /\ stage = "apply"
    /\ applied = Len(batch)
    /\ applied' = 0
    /\ open' = FALSE
    /\ stage' = "answer"
    /\ outcome' = "ok"
    /\ db' = db \o batch
    /\ UNCHANGED <<callerVars, queue, batch, synced, answer, lifeVars>>

\* A mutant: a COMMIT that is reported as failed has committed.
CommitFailsLate(leftOpen) ==
    /\ stage = "apply"
    /\ applied = Len(batch)
    /\ applied' = 0
    /\ open' = FALSE
    /\ stage' = "answer"
    /\ outcome' = "err"
    /\ db' = db \o batch
    /\ UNCHANGED <<callerVars, queue, batch, synced, answer, lifeVars>>

\* COMMIT fails, with the disk full for one. SQLite has rolled back or has left the
\* transaction open; the code does not roll back here.
CommitFails(leftOpen) ==
    /\ stage = "apply"
    /\ applied = Len(batch)
    /\ applied' = 0
    /\ open' = leftOpen
    /\ Fail

\* job.ack.send, for each job of the batch.
Answer ==
    /\ stage = "answer"
    /\ batch # <<>>
    /\ answer' = [answer EXCEPT ![Head(batch)] = outcome]
    /\ batch' = Tail(batch)
    /\ UNCHANGED <<callerVars, queue, stage, applied, open, outcome, diskVars, lifeVars>>

\* The batch is answered; the log is checkpointed if that is due, as far as its readers
\* allow.
NextBatch(upTo) ==
    /\ stage = "answer"
    /\ batch = <<>>
    /\ stage' = "recv"
    /\ synced' = upTo
    /\ UNCHANGED <<callerVars, queue, batch, applied, open, outcome, db, answer, lifeVars>>

\* recv() fails: the sender is gone and the channel is empty. The thread ends, the
\* connection is closed, which checkpoints as far as its readers allow, and join() returns.
WriterEnds(upTo) ==
    /\ stage = "recv"
    /\ dropping /\ queue = <<>>
    /\ stage' = "gone"
    /\ open' = FALSE
    /\ synced' = upTo
    /\ UNCHANGED <<callerVars, queue, batch, applied, outcome, db, answer, lifeVars>>

-----------------------------------------------------------------------------

\* Store::open, on what an earlier life has left.
OpenAgain ==
    /\ lives < MaxLives
    /\ lives' = lives + 1
    /\ blocked' = [c \in Caller |-> FALSE]
    /\ queue' = <<>>
    /\ stage' = "recv"
    /\ batch' = <<>>
    /\ applied' = 0
    /\ open' = FALSE
    /\ outcome' = "ok"
    /\ dropping' = FALSE
    /\ lost' = lost \cup InFlight
    /\ UNCHANGED <<calls, answer>>

Reopen == stage = "gone" /\ OpenAgain /\ UNCHANGED diskVars

\* The process dies, and the program is started again.
Crash == OpenAgain /\ UNCHANGED diskVars

Writer ==
    \/ Take \/ Begin \/ BeginFails \/ Apply \/ ApplyFails
    \/ CommitBatch \/ \E leftOpen \in BOOLEAN : CommitFails(leftOpen)
    \/ Answer \/ \E upTo \in synced..Len(db) : NextBatch(upTo) \/ WriterEnds(upTo)

Next ==
    \/ \E c \in Caller : Write(c) \/ Unblock(c)
    \/ DropStore
    \/ Writer
    \/ Reopen
    \/ Crash

\* The operating system runs the writer thread and the callers that can go on.
Fairness ==
    /\ WF_vars(Writer)
    /\ \A c \in Caller : WF_vars(Unblock(c))

Spec == Init /\ [][Next]_vars /\ Fairness

\* The power fails: of what has been committed since the last checkpoint nothing is left,
\* which synchronous=NORMAL allows.
PowerCut ==
    /\ OpenAgain
    /\ db' = SubSeq(db, 1, synced)
    /\ UNCHANGED synced

HarshSpec == Init /\ [][Next \/ PowerCut]_vars

-----------------------------------------------------------------------------
(* Properties.                                                             *)

\* Every variable has its type; the channel and a batch stay within their bounds.
TypeOK ==
    /\ calls \in [Caller -> 0..MaxCalls]
    /\ blocked \in [Caller -> BOOLEAN]
    /\ queue \in Seq(Job) /\ Len(queue) <= QueueDepth
    /\ stage \in Stages
    /\ batch \in Seq(Job) /\ Len(batch) <= MaxBatch
    /\ applied \in 0..Len(batch)
    /\ open \in BOOLEAN
    /\ outcome \in {"ok", "err"}
    /\ db \in Seq(Job)
    /\ synced \in 0..Len(db)
    /\ answer \in [Job -> {"nothing", "ok", "err"}]
    /\ dropping \in BOOLEAN
    /\ lives \in Nat
    /\ lost \subseteq Job

\* "An acknowledgement that means the data is on disk": what has been answered is true, and
\* stays true whatever happens to the process (store.rs:23-28).
AnswersTrue ==
    \A j \in Job : /\ answer[j] = "ok" => j \in In(db)
                   /\ answer[j] = "err" => j \notin In(db)

\* A caller's writes reach the disk in the order it made them, and each once, however they
\* were batched, blocked and refused in between.
CallerOrderKept ==
    \A i, k \in DOMAIN db : i < k /\ db[i][1] = db[k][1] => db[i][2] < db[k][2]

Issued == {j \in Job : j[2] <= calls[j[1]]}

\* "Close the queue and wait for the writer to finish what it has": when a drop returns,
\* every write of this life has been answered.
DropFinishes == stage = "gone" => \A j \in Issued : answer[j] # "nothing" \/ j \in lost

\* A caller that waits for its answer gets it, or dies: no failure of a statement, of BEGIN
\* or of COMMIT, no full channel and no drop leaves it waiting.
EveryWriteAnswered ==
    \A j \in Job : j \in Issued ~> answer[j] # "nothing" \/ j \in lost

\* The store is a DurableLog: the jobs in flight are those it is working on.
Log == INSTANCE DurableLog WITH
    MaxTogether <- MaxBatch,
    asked       <- Issued,
    pending     <- InFlight,
    log         <- db,
    told        <- answer

ImplementsLog == Log!LogSpec
=============================================================================
