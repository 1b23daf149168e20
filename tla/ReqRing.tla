------------------------------ MODULE ReqRing ------------------------------
(***************************************************************************)
(* The ring that makes a retry safe (crates/wire/src/idempotency.rs), with *)
(* a terminal that numbers its commands and sends one again while it has   *)
(* no answer, and a handler of "the shape every handler will have: admit,  *)
(* act only if fresh, record the answer".                                  *)
(*                                                                         *)
(* Terminal, connection and commands are not in the repository yet.  A     *)
(* connection keeps the order of its frames; when it breaks, the frames    *)
(* still on it are lost, and so may an answer be.                          *)
(***************************************************************************)
EXTENDS Sequences, Naturals

CONSTANTS MaxReq,      \* commands of the terminal in one behaviour
          Capacity,    \* SEEN_REQ_CAPACITY
          MaxOnWire,   \* frames on the connection
          MaxRuns      \* executions in one behaviour

ASSUME ReqRingAssumption ==
    MaxReq \in Nat /\ Capacity \in Nat /\ MaxOnWire \in Nat /\ MaxRuns \in Nat

VARIABLES asked,       \* the last number the terminal has given a command
          wire,        \* the numbers of the frames on their way to the core
          told,        \* per command: the final answer the terminal has
          order,       \* ReqRing::order
          records,     \* ReqRing::records
          highWater,   \* ReqRing::high_water, 0 for None
          floor,       \* ReqRing::evicted_below, 0 for None
          running,     \* commands being executed
          results,     \* per command: how its executions ended (history)
          ran,         \* the executions, in order (history)
          refused,     \* commands refused as too old (history)
          late         \* a command arrived for the first time after a younger one (history)

terminalVars == <<asked, wire>>
ring         == <<order, records, highWater, floor>>
history      == <<results, ran, refused, late>>
vars         == <<terminalVars, told, ring, running, history>>

Req   == 1..MaxReq
Final == {"done", "failed"}      \* AckStatus::is_final; Rejected is like Failed here

\* The elements of a sequence.
In(seq) == {seq[i] : i \in DOMAIN seq}

\* Nothing, for a map to no value.
NoRecords == [r \in {} |-> "running"]

Without(map, r) == [q \in DOMAIN map \ {r} |-> map[q]]

Init ==
    /\ asked = 0
    /\ wire = <<>>
    /\ told = [r \in Req |-> "nothing"]
    /\ order = <<>>
    /\ records = NoRecords
    /\ highWater = 0
    /\ floor = 0
    /\ running = {}
    /\ results = [r \in Req |-> {}]
    /\ ran = <<>>
    /\ refused = {}
    /\ late = FALSE

-----------------------------------------------------------------------------
(* The terminal and the connection.                                        *)

\* A new command, or one more try of a command without an answer.
Send(r) ==
    /\ Len(wire) < MaxOnWire
    /\ r = asked + 1 \/ (r <= asked /\ told[r] = "nothing")
    /\ asked' = IF r > asked THEN r ELSE asked
    /\ wire' = Append(wire, r)
    /\ UNCHANGED <<told, ring, running, history>>

\* The connection breaks, and the terminal connects again.
Disconnect ==
    /\ wire # <<>>
    /\ wire' = <<>>
    /\ UNCHANGED <<asked, told, ring, running, history>>

\* The answer reaches the terminal, or is lost on its way.
Answered(r, answer) == told' = [told EXCEPT ![r] = answer] \/ UNCHANGED told

-----------------------------------------------------------------------------
(* The ring.                                                               *)

\* A mutant: the floor is the command just dropped.
DroppedBelow(oldest) == oldest

\* "The floor is the id after the one just dropped."
EvictedBelow(oldest) == oldest + 1

\* A mutant: the command is not claimed before it is executed.
RememberLater(r) == UNCHANGED <<order, records, floor>>

\* A command is noted as running, the oldest one is dropped if the ring is full.
Remember(r) ==
    LET all  == Append(order, r)
        more == [q \in DOMAIN records \cup {r} |-> IF q = r THEN "running" ELSE records[q]]
    IN  IF Len(all) > Capacity
        THEN /\ order' = Tail(all)
             /\ records' = Without(more, Head(all))
             /\ floor' = EvictedBelow(Head(all))
        ELSE /\ order' = all
             /\ records' = more
             /\ UNCHANGED floor

\* ReqRing::complete.
Complete(r, status) ==
    IF status \in Final /\ r \in DOMAIN records THEN [records EXCEPT ![r] = status] ELSE records

Heard == In(ran) \cup refused

Receive(r) ==
    /\ wire # <<>>
    /\ r = Head(wire)
    /\ wire' = Tail(wire)
    /\ late' = (late \/ (r \notin Heard /\ r < highWater))
    /\ UNCHANGED <<asked, results>>

\* Admission::Fresh: the command is executed.
AdmitFresh(r) ==
    /\ Receive(r)
    /\ r \notin DOMAIN records /\ r >= floor
    /\ Len(ran) < MaxRuns
    /\ Remember(r)
    /\ highWater' = IF r > highWater THEN r ELSE highWater
    /\ running' = running \cup {r}
    /\ ran' = Append(ran, r)
    /\ UNCHANGED <<told, refused>>

\* Admission::TooOld.
AdmitTooOld(r) ==
    /\ Receive(r)
    /\ r \notin DOMAIN records /\ r < floor
    /\ refused' = refused \cup {r}
    /\ Answered(r, "refused")
    /\ UNCHANGED <<ring, running, ran>>

\* Admission::Replay.
AdmitReplay(r) ==
    /\ Receive(r)
    /\ r \in DOMAIN records /\ records[r] # "running"
    /\ Answered(r, records[r])
    /\ UNCHANGED <<ring, running, ran, refused>>

\* Admission::InFlight: "the original will answer when it finishes".
AdmitInFlight(r) ==
    /\ Receive(r)
    /\ r \in DOMAIN records /\ records[r] = "running"
    /\ UNCHANGED <<told, ring, running, ran, refused>>

-----------------------------------------------------------------------------
(* The handler.                                                            *)

\* It says that it has begun, which is not an answer yet.
Progress(r) ==
    /\ r \in running
    /\ records' = Complete(r, "accepted")
    /\ UNCHANGED <<terminalVars, told, order, highWater, floor, running, history>>

\* It ends, well or not.
Finish(r, status) ==
    /\ r \in running
    /\ running' = running \ {r}
    /\ results' = [results EXCEPT ![r] = @ \cup {status}]
    /\ records' = Complete(r, status)
    /\ Answered(r, status)
    /\ UNCHANGED <<terminalVars, order, highWater, floor, ran, refused, late>>

Next ==
    \/ Disconnect
    \/ \E r \in Req :
        \/ Send(r)
        \/ AdmitFresh(r) \/ AdmitTooOld(r) \/ AdmitReplay(r) \/ AdmitInFlight(r)
        \/ Progress(r)
        \/ \E status \in Final : Finish(r, status)

Spec == Init /\ [][Next]_vars

-----------------------------------------------------------------------------
(* Properties.                                                             *)

\* Every variable has its type, the ring its capacity, and `order` and `records` name the
\* same commands (memory must not grow).
TypeOK ==
    /\ asked \in 0..MaxReq
    /\ wire \in Seq(Req) /\ Len(wire) <= MaxOnWire
    /\ told \in [Req -> {"nothing", "refused"} \cup Final]
    /\ order \in Seq(Req) /\ Len(order) <= Capacity
    /\ DOMAIN records = In(order)
    /\ \A r \in DOMAIN records : records[r] \in {"running"} \cup Final
    /\ highWater \in 0..MaxReq
    /\ floor \in 0..(MaxReq + 1)
    /\ running \subseteq Req
    /\ results \in [Req -> SUBSET Final]
    /\ ran \in Seq(Req)
    /\ refused \subseteq Req
    /\ late \in BOOLEAN

\* "A repeat gets that answer back without the command running again": among any Capacity
\* executions in a row no command is there twice, whatever was lost or repeated.
RemembersTheLast ==
    \A i, k \in DOMAIN ran : i < k /\ k <= i + Capacity => ran[i] # ran[k]

\* No command is executed twice (idempotency.rs:28-31).
AtMostOnce == \A i, k \in DOMAIN ran : i # k => ran[i] # ran[k]

\* "`req` is monotonic per session, so this is what makes 'older than the ring' decidable":
\* as long as commands first arrive in their order, none is executed twice, however late a
\* retry comes.
OnceInOrder == ~late => AtMostOnce

\* An answer, replayed or not, is how an execution of that very command ended.
AnswersTrue == \A r \in Req : told[r] \in {"nothing", "refused"} \cup results[r]
=============================================================================
