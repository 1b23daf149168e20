----------------------------- MODULE CallProofs -----------------------------
(***************************************************************************)
(* Proofs about the two things that stand between a caller and what it     *)
(* calls: the ring that makes a retry safe (ReqRing) and the rate limiter  *)
(* (RateLimiter).                                                          *)
(*                                                                         *)
(* Of the ring, for any number of commands and any capacity: what it still *)
(* remembers is never executed again, and commands that first arrive in    *)
(* their order are executed once.  Of the limiter, for any limits, spans   *)
(* and headroom: no stretch of a window's length sees more than it should, *)
(* a wait is exact, and nothing is sent before a hint has passed.          *)
(***************************************************************************)
EXTENDS ReqRing, RateLimiter, TLAPS

-----------------------------------------------------------------------------
(* The inductive invariant.                                                *)

Dropped == Len(ran) - Len(order)

\* The ring holds the last executions, as many as it has room for.
HoldsTheLast ==
    /\ Dropped >= 0
    /\ \A i \in DOMAIN order : order[i] = ran[Dropped + i]
    /\ Dropped > 0 => Len(order) = Capacity

\* The floor is above the last execution dropped.
FloorOK ==
    /\ Dropped = 0 => floor = 0
    /\ Dropped > 0 => floor = ran[Dropped] + 1

HighWaterOK == \A i \in DOMAIN ran : ran[i] <= highWater

\* As long as commands arrive in order, they are executed in order, and none is refused
\* before it has been executed.
Rising ==
    ~late => /\ \A i, k \in DOMAIN ran : i < k => ran[i] < ran[k]
             /\ refused \subseteq In(ran)

\* What is remembered as an answer is one.
RecordsTrue == \A r \in DOMAIN records : records[r] \in {"running"} \cup results[r]

IInv ==
    /\ TypeOK /\ HoldsTheLast /\ RemembersTheLast /\ FloorOK /\ HighWaterOK /\ Rising
    /\ RecordsTrue /\ AnswersTrue

-----------------------------------------------------------------------------
(* Sequences.                                                              *)

LEMMA AppendFacts ==
    ASSUME NEW s \in Seq(Req), NEW x \in Req
    PROVE  /\ Append(s, x) \in Seq(Req) /\ Len(s) \in Nat /\ Len(Append(s, x)) = Len(s) + 1
           /\ DOMAIN s = 1..Len(s) /\ DOMAIN Append(s, x) = 1..(Len(s) + 1)
           /\ \A i \in 1..Len(s) : Append(s, x)[i] = s[i] /\ s[i] \in Req
           /\ Append(s, x)[Len(s) + 1] = x
OBVIOUS

LEMMA TailFacts ==
    ASSUME NEW s \in Seq(Req), s # <<>>
    PROVE  /\ Tail(s) \in Seq(Req) /\ Len(s) \in Nat \ {0} /\ Len(Tail(s)) = Len(s) - 1
           /\ DOMAIN s = 1..Len(s) /\ DOMAIN Tail(s) = 1..(Len(s) - 1)
           /\ \A i \in 1..(Len(s) - 1) : Tail(s)[i] = s[i + 1]
           /\ Head(s) = s[1] /\ Head(s) \in Req
OBVIOUS

-----------------------------------------------------------------------------
(* The ring.                                                               *)

LEMMA DroppedFacts ==
    ASSUME IInv
    PROVE  /\ Len(ran) \in Nat /\ Len(order) \in Nat /\ Dropped \in Nat
           /\ Len(ran) = Dropped + Len(order) /\ Len(order) <= Capacity /\ Capacity \in Nat
           /\ Dropped > 0 => Len(order) = Capacity
           /\ DOMAIN ran = 1..Len(ran) /\ DOMAIN order = 1..Len(order)
<1>1. ran \in Seq(Req) /\ order \in Seq(Req) /\ Len(order) <= Capacity /\ Capacity \in Nat
    BY ReqRingAssumption DEF IInv, TypeOK
<1>2. /\ Len(ran) \in Nat /\ Len(order) \in Nat
      /\ DOMAIN ran = 1..Len(ran) /\ DOMAIN order = 1..Len(order)
    BY <1>1
<1>3. Dropped >= 0 /\ (Dropped > 0 => Len(order) = Capacity)
    BY DEF IInv, HoldsTheLast
<1>4. Dropped = Len(ran) - Len(order)
    BY DEF Dropped
<1>5. Len(ran) - Len(order) >= 0
    BY <1>3, <1>4
<1>6. Len(ran) - Len(order) \in Nat /\ Len(ran) = (Len(ran) - Len(order)) + Len(order)
    BY <1>2, <1>5
<1>7. Dropped \in Nat /\ Len(ran) = Dropped + Len(order)
    BY <1>4, <1>6
<1>. QED BY <1>1, <1>2, <1>3, <1>7

\* A command that is not remembered is new to the ring and to its last Capacity executions.
LEMMA FreshRemembersTheLast ==
    ASSUME IInv, NEW r \in Req, r \notin DOMAIN records, ran' = Append(ran, r)
    PROVE  RemembersTheLast'
<1>1. PICK n \in Nat, m \in Nat, d \in Nat :
        /\ n = Len(ran) /\ m = Len(order) /\ d = Dropped
        /\ n = d + m /\ m <= Capacity /\ (d > 0 => m = Capacity)
        /\ DOMAIN ran = 1..n /\ DOMAIN order = 1..m
    BY DroppedFacts
<1>2. Capacity \in Nat
    BY ReqRingAssumption
<1>3. DOMAIN ran' = 1..(n + 1) /\ (\A i \in 1..n : ran'[i] = ran[i]) /\ ran'[n + 1] = r
    BY <1>1, AppendFacts DEF IInv, TypeOK
<1>4. \A i \in 1..m : order[i] = ran[d + i]
    BY <1>1 DEF IInv, HoldsTheLast
<1>5. r \notin In(order)
    BY DEF IInv, TypeOK
<1>6. ASSUME NEW i \in 1..(n + 1), NEW k \in 1..(n + 1), i < k, k <= i + Capacity
      PROVE  ran'[i] # ran'[k]
    <2>1. i \in 1..n
        BY <1>6
    <2>2. CASE k = n + 1
        <3>1. i - d \in 1..m /\ d + (i - d) = i
            <4>1. n + 1 <= i + Capacity
                BY <1>6, <2>2
            <4>2. n = d + m /\ m <= Capacity /\ (d > 0 => m = Capacity)
                BY <1>1
            <4>3. i > d
                BY <1>2, <2>1, <4>1, <4>2
            <4>. QED BY <2>1, <4>2, <4>3
        <3>2. order[i - d] = ran[i]
            BY <1>4, <3>1
        <3>3. ran[i] \in In(order)
            BY <1>1, <3>1, <3>2 DEF In
        <3>. QED BY <1>3, <1>5, <2>1, <2>2, <3>3
    <2>3. CASE k \in 1..n
        BY <1>1, <1>3, <1>6, <2>1, <2>3 DEF IInv, RemembersTheLast
    <2>4. k = n + 1 \/ k \in 1..n
        OBVIOUS
    <2>. QED BY <2>2, <2>3, <2>4
<1>. QED BY <1>3, <1>6 DEF RemembersTheLast

\* ReqRing::admit of a fresh command, with evict_if_full.
LEMMA RememberStep ==
    ASSUME IInv, NEW r \in Req, r \notin DOMAIN records, ran' = Append(ran, r), Remember(r)
    PROVE  /\ order' \in Seq(Req) /\ Len(order') <= Capacity
           /\ DOMAIN records' = In(order')
           /\ \A q \in DOMAIN records' : \/ records'[q] = "running"
                                         \/ q \in DOMAIN records /\ records'[q] = records[q]
           /\ floor' \in 0..(MaxReq + 1)
           /\ HoldsTheLast' /\ FloorOK'
<1> DEFINE all  == Append(order, r)
           more == [q \in DOMAIN records \cup {r} |-> IF q = r THEN "running" ELSE records[q]]
<1>1. PICK n \in Nat, m \in Nat, d \in Nat :
        /\ n = Len(ran) /\ m = Len(order) /\ d = Dropped
        /\ n = d + m /\ m <= Capacity /\ (d > 0 => m = Capacity)
        /\ DOMAIN ran = 1..n /\ DOMAIN order = 1..m
    BY DroppedFacts
<1>2. Capacity \in Nat
    BY ReqRingAssumption
<1>3. /\ Len(ran') = n + 1 /\ DOMAIN ran' = 1..(n + 1)
      /\ \A i \in 1..n : ran'[i] = ran[i]
      /\ ran'[n + 1] = r
    BY <1>1, AppendFacts DEF IInv, TypeOK
<1>4. /\ all \in Seq(Req) /\ Len(all) = m + 1 /\ DOMAIN all = 1..(m + 1)
      /\ \A i \in 1..m : all[i] = order[i]
      /\ all[m + 1] = r
    BY <1>1, AppendFacts DEF IInv, TypeOK
<1>5. In(all) = In(order) \cup {r}
    <2>1. \A i \in 1..(m + 1) : i \in 1..m \/ i = m + 1
        OBVIOUS
    <2>2. 1..m \subseteq 1..(m + 1) /\ m + 1 \in 1..(m + 1)
        OBVIOUS
    <2>3. In(all) \subseteq In(order) \cup {r}
        BY <1>1, <1>4, <2>1 DEF In
    <2>4. In(order) \subseteq In(all) /\ r \in In(all)
        BY <1>1, <1>4, <2>2 DEF In
    <2>. QED BY <2>3, <2>4
<1>6. \A i \in 1..(m + 1) : all[i] = ran'[d + i]
    <2>1. ASSUME NEW i \in 1..m PROVE all[i] = ran'[d + i]
        <3>1. n = d + m
            BY <1>1
        <3>2. d + i \in 1..n
            BY <3>1
        <3>3. order[i] = ran[d + i]
            BY <1>1 DEF IInv, HoldsTheLast
        <3>. QED BY <1>3, <1>4, <3>2, <3>3
    <2>2. d + (m + 1) = n + 1
        BY <1>1
    <2>3. all[m + 1] = ran'[d + (m + 1)]
        BY <1>3, <1>4, <2>2
    <2>4. \A i \in 1..(m + 1) : i \in 1..m \/ i = m + 1
        OBVIOUS
    <2>. QED BY <2>1, <2>3, <2>4
<1>7. DOMAIN more = In(all)
    BY <1>5 DEF IInv, TypeOK
<1>8. CASE m + 1 > Capacity
    <2>1. order' = Tail(all) /\ records' = Without(more, Head(all)) /\ floor' = Head(all) + 1
        BY <1>4, <1>8 DEF Remember, EvictedBelow
    <2>2. m = Capacity
        BY <1>1, <1>2, <1>8
    <2>3. /\ Tail(all) \in Seq(Req) /\ Len(Tail(all)) = m /\ DOMAIN Tail(all) = 1..m
          /\ \A i \in 1..m : Tail(all)[i] = all[i + 1]
          /\ Head(all) = all[1] /\ Head(all) \in Req
        <3>1. all # <<>> /\ (m + 1) - 1 = m
            BY <1>4
        <3>2. all \in Seq(Req) /\ Len(all) = m + 1
            BY <1>4
        <3> HIDE DEF all
        <3>3. /\ Tail(all) \in Seq(Req) /\ Len(Tail(all)) = Len(all) - 1
              /\ DOMAIN Tail(all) = 1..(Len(all) - 1)
              /\ \A i \in 1..(Len(all) - 1) : Tail(all)[i] = all[i + 1]
              /\ Head(all) = all[1] /\ Head(all) \in Req
            BY <3>1, <3>2, TailFacts
        <3>. QED BY <3>1, <3>2, <3>3
    <2>4. Dropped' = d + 1
        <3>1. Dropped' = (n + 1) - m
            BY <1>3, <2>1, <2>3 DEF Dropped
        <3>2. (n + 1) - m = d + 1
            BY <1>1
        <3>. QED BY <3>1, <3>2
    <2>5. Head(all) = ran'[d + 1]
        <3>1. 1 \in 1..(m + 1)
            OBVIOUS
        <3>. QED BY <1>6, <2>3, <3>1
    <2>6. ASSUME NEW i \in 1..m PROVE Tail(all)[i] = ran'[(d + 1) + i]
        <3>1. i + 1 \in 1..(m + 1) /\ d + (i + 1) = (d + 1) + i
            OBVIOUS
        <3>. QED BY <1>6, <2>3, <2>6, <3>1
    <2>7. Head(all) \notin In(Tail(all))
        <3>1. ASSUME NEW i \in 1..m PROVE Tail(all)[i] # Head(all)
            <4>1. n = d + m /\ m <= Capacity
                BY <1>1
            <4>2. /\ d + 1 \in 1..(n + 1) /\ (d + 1) + i \in 1..(n + 1)
                  /\ d + 1 < (d + 1) + i /\ (d + 1) + i <= (d + 1) + Capacity
                BY <1>2, <4>1
            <4>3. ran'[d + 1] # ran'[(d + 1) + i]
                BY <1>3, <4>2, FreshRemembersTheLast DEF RemembersTheLast
            <4>. QED BY <2>5, <2>6, <4>3
        <3>. QED BY <2>3, <3>1 DEF In
    <2>8. In(all) = {Head(all)} \cup In(Tail(all))
        <3>1. \A i \in 1..(m + 1) : i = 1 \/ (i - 1 \in 1..m /\ (i - 1) + 1 = i)
            OBVIOUS
        <3>2. \A i \in 1..(m + 1) : i = 1 \/ Tail(all)[i - 1] = all[i]
            BY <2>3, <3>1
        <3>3. In(all) \subseteq {Head(all)} \cup In(Tail(all))
            <4>1. ASSUME NEW i \in 1..(m + 1), i # 1 PROVE all[i] \in In(Tail(all))
                <5>1. i - 1 \in DOMAIN Tail(all) /\ all[i] = Tail(all)[i - 1]
                    BY <2>3, <3>1, <3>2, <4>1
                <5>. QED BY <5>1 DEF In
            <4>2. DOMAIN all = 1..(m + 1) /\ Head(all) = all[1]
                BY <1>4, <2>3
            <4> HIDE DEF all
            <4>. QED BY <4>1, <4>2 DEF In
        <3>4. \A i \in 1..m : i + 1 \in 1..(m + 1)
            OBVIOUS
        <3>5. 1 \in 1..(m + 1)
            OBVIOUS
        <3>6. {Head(all)} \cup In(Tail(all)) \subseteq In(all)
            BY <1>4, <2>3, <3>4, <3>5 DEF In
        <3>. QED BY <3>3, <3>6
    <2>9. DOMAIN records' = In(order')
        BY <1>7, <2>1, <2>7, <2>8 DEF Without
    <2>10. HoldsTheLast' /\ FloorOK'
        <3>1. d + 1 >= 0 /\ d + 1 > 0 /\ d + 1 # 0
            OBVIOUS
        <3>2. HoldsTheLast'
            BY <2>1, <2>2, <2>3, <2>4, <2>6, <3>1 DEF HoldsTheLast
        <3>. QED BY <2>1, <2>4, <2>5, <3>1, <3>2 DEF FloorOK
    <2>11. floor' \in 0..(MaxReq + 1)
        BY <2>1, <2>3, ReqRingAssumption DEF Req
    <2>. QED BY <2>1, <2>2, <2>3, <2>9, <2>10, <2>11 DEF Without
<1>9. CASE ~(m + 1 > Capacity)
    <2>1. order' = all /\ records' = more /\ floor' = floor
        BY <1>4, <1>9 DEF Remember
    <2>2. d = 0 /\ n = m
        BY <1>1, <1>2, <1>9
    <2>3. Dropped' = 0
        <3>1. Dropped' = (n + 1) - (m + 1)
            BY <1>3, <1>4, <2>1 DEF Dropped
        <3>2. (n + 1) - (m + 1) = 0
            BY <2>2
        <3>. QED BY <3>1, <3>2
    <2>4. HoldsTheLast' /\ FloorOK'
        <3>1. floor = 0
            BY <1>1, <2>2 DEF IInv, FloorOK
        <3>2. \A i \in 1..(m + 1) : d + i = 0 + i
            BY <2>2
        <3>3. \A i \in DOMAIN order' : order'[i] = ran'[Dropped' + i]
            BY <1>4, <1>6, <2>1, <2>3, <3>2
        <3>4. ~(0 > 0) /\ 0 >= 0
            OBVIOUS
        <3>5. HoldsTheLast'
            BY <2>3, <3>3, <3>4 DEF HoldsTheLast
        <3>. QED BY <2>1, <2>3, <3>1, <3>4, <3>5 DEF FloorOK
    <2>5. m + 1 <= Capacity
        BY <1>2, <1>9
    <2>. QED BY <1>4, <1>7, <2>1, <2>4, <2>5 DEF IInv, TypeOK
<1>. QED BY <1>8, <1>9

\* ReqRing::complete notes a final answer for what it remembers, and nothing else.
LEMMA CompleteFacts ==
    ASSUME NEW r, NEW status
    PROVE  LET after == Complete(r, status) IN
           /\ DOMAIN after = DOMAIN records
           /\ \A q \in DOMAIN records : \/ after[q] = records[q]
                                        \/ q = r /\ status \in Final /\ after[q] = status
<1> DEFINE after == Complete(r, status)
<1>1. CASE status \in Final /\ r \in DOMAIN records
    <2>1. after = [records EXCEPT ![r] = status]
        BY <1>1 DEF Complete
    <2>. HIDE DEF after
    <2>2. /\ DOMAIN after = DOMAIN records
          /\ \A q \in DOMAIN records : \/ after[q] = records[q]
                                       \/ q = r /\ status \in Final /\ after[q] = status
        BY <1>1, <2>1
    <2>. QED BY <2>2 DEF after
<1>2. CASE ~(status \in Final /\ r \in DOMAIN records)
    BY <1>2 DEF Complete
<1>. QED BY <1>1, <1>2

-----------------------------------------------------------------------------
(* The inductive step.                                                     *)

\* The ring and its past are left alone.
LEMMA RingStill ==
    ASSUME IInv, UNCHANGED <<order, highWater, floor, ran, refused, late>>
    PROVE  HoldsTheLast' /\ RemembersTheLast' /\ FloorOK' /\ HighWaterOK' /\ Rising'
<1>1. Dropped' = Dropped
    BY DEF Dropped
<1>. QED BY <1>1 DEF IInv, HoldsTheLast, RemembersTheLast, FloorOK, HighWaterOK, Rising

\* A frame is read.
LEMMA ReceiveFacts ==
    ASSUME IInv, NEW r \in Req, Receive(r)
    PROVE  /\ wire' \in Seq(Req) /\ Len(wire') <= MaxOnWire /\ late' \in BOOLEAN
           /\ asked' = asked /\ results' = results
           /\ ~late' => ~late /\ (r \in Heard \/ r >= highWater)
<1>1. wire' \in Seq(Req) /\ Len(wire') <= MaxOnWire
    <2>1. wire \in Seq(Req) /\ wire # <<>> /\ Len(wire) <= MaxOnWire /\ wire' = Tail(wire)
        BY DEF IInv, TypeOK, Receive
    <2>. QED BY <2>1, TailFacts, ReqRingAssumption
<1>2. late' = (late \/ (r \notin Heard /\ r < highWater))
    BY DEF Receive
<1>3. r \in Nat /\ highWater \in Nat
    BY ReqRingAssumption DEF IInv, TypeOK, Req
<1>4. ~(r < highWater) => r >= highWater
    BY <1>3
<1>5. late' \in BOOLEAN /\ (~late' => ~late /\ (r \in Heard \/ r >= highWater))
    BY <1>2, <1>4, Zenon
<1>6. asked' = asked /\ results' = results
    BY DEF Receive
<1>. QED BY <1>1, <1>5, <1>6

\* The answer a command is told is one of its own.
LEMMA AnsweredFacts ==
    ASSUME TypeOK, NEW r \in Req, NEW answer \in {"refused"} \cup Final, Answered(r, answer)
    PROVE  /\ told' \in [Req -> {"nothing", "refused"} \cup Final]
           /\ \A q \in Req : told'[q] = told[q] \/ (q = r /\ told'[q] = answer)
BY DEF TypeOK, Answered

\* The sequence of the executions, with one more.
LEMMA RanFacts ==
    ASSUME IInv, NEW r \in Req, ran' = Append(ran, r)
    PROVE  /\ ran' \in Seq(Req) /\ DOMAIN ran \subseteq DOMAIN ran'
           /\ \A i \in DOMAIN ran : ran'[i] = ran[i]
           /\ \A i \in DOMAIN ran' : i \in DOMAIN ran \/ (i \notin DOMAIN ran /\ ran'[i] = r)
           /\ \A i \in DOMAIN ran, k \in DOMAIN ran' : k \notin DOMAIN ran => i < k
           /\ \A i \in DOMAIN ran', k \in DOMAIN ran' : i < k => i \in DOMAIN ran
           /\ In(ran') = In(ran) \cup {r}
<1>1. PICK n \in Nat : n = Len(ran)
    BY DEF IInv, TypeOK
<1>2. /\ ran' \in Seq(Req) /\ DOMAIN ran = 1..n /\ DOMAIN ran' = 1..(n + 1)
      /\ \A i \in 1..n : ran'[i] = ran[i]
      /\ ran'[n + 1] = r
    BY <1>1, AppendFacts DEF IInv, TypeOK
<1>3. \A i \in 1..(n + 1) : i \in 1..n \/ (i \notin 1..n /\ i = n + 1)
    OBVIOUS
<1>4. /\ 1..n \subseteq 1..(n + 1) /\ n + 1 \in 1..(n + 1)
      /\ \A i \in 1..n, k \in 1..(n + 1) : k \notin 1..n => i < k
      /\ \A i \in 1..(n + 1), k \in 1..(n + 1) : i < k => i \in 1..n
    OBVIOUS
<1>5. In(ran') \subseteq In(ran) \cup {r}
    BY <1>2, <1>3 DEF In
<1>6. In(ran) \subseteq In(ran') /\ r \in In(ran')
    BY <1>2, <1>4 DEF In
<1>. QED BY <1>2, <1>3, <1>4, <1>5, <1>6

\* As long as commands arrive in order, a command that is not remembered and not below the
\* floor is younger than any that was executed.
LEMMA FreshIsNew ==
    ASSUME IInv, NEW r \in Req, Receive(r), r \notin DOMAIN records, r >= floor, ~late'
    PROVE  \A i \in DOMAIN ran : ran[i] < r
<1>1. PICK n \in Nat, m \in Nat, d \in Nat :
        /\ n = Len(ran) /\ m = Len(order) /\ d = Dropped
        /\ n = d + m /\ (d > 0 => m = Capacity)
        /\ DOMAIN ran = 1..n /\ DOMAIN order = 1..m
    BY DroppedFacts
<1>2. ~late /\ (r \in Heard \/ r >= highWater)
    BY ReceiveFacts
<1>3. /\ \A i, k \in 1..n : i < k => ran[i] < ran[k]
      /\ refused \subseteq In(ran)
    BY <1>1, <1>2 DEF IInv, Rising
<1>4. \A i \in 1..n : ran[i] \in Req /\ ran[i] <= highWater
    BY <1>1 DEF IInv, TypeOK, HighWaterOK
<1>5. r \notin In(ran)
    <2>1. ASSUME NEW i \in 1..n PROVE ran[i] # r
        <3>1. CASE i > d
            <4>1. i - d \in 1..m /\ d + (i - d) = i
                <5>1. n = d + m
                    BY <1>1
                <5>. QED BY <3>1, <5>1
            <4>2. order[i - d] = ran[i]
                BY <1>1, <4>1 DEF IInv, HoldsTheLast
            <4>3. ran[i] \in In(order)
                BY <1>1, <4>1, <4>2 DEF In
            <4>. QED BY <4>3 DEF IInv, TypeOK
        <3>2. CASE i <= d
            <4>1. d \in 1..n /\ d > 0 /\ (i < d \/ i = d)
                <5>1. n = d + m
                    BY <1>1
                <5>. QED BY <3>2, <5>1
            <4>2. floor = ran[d] + 1
                BY <1>1, <4>1 DEF IInv, FloorOK
            <4>3. ran[i] < ran[d] \/ ran[i] = ran[d]
                BY <1>3, <4>1
            <4>4. ran[i] \in Nat /\ ran[d] \in Nat /\ r \in Nat
                BY <1>4, <4>1 DEF Req
            <4>. QED BY <4>2, <4>3, <4>4
        <3>. QED BY <3>1, <3>2
    <2>. QED BY <1>1, <2>1 DEF In
<1>6. r >= highWater
    BY <1>2, <1>3, <1>5 DEF Heard
<1>7. ASSUME NEW i \in 1..n PROVE ran[i] < r
    <2>1. ran[i] \in Nat /\ r \in Nat /\ highWater \in Nat /\ ran[i] <= highWater
        BY <1>4 DEF IInv, TypeOK, Req
    <2>2. ran[i] # r
        BY <1>1, <1>5 DEF In
    <2>. QED BY <1>6, <2>1, <2>2
<1>. QED BY <1>1, <1>7

\* Admission::Fresh.
LEMMA FreshStep ==
    ASSUME IInv, NEW r \in Req, AdmitFresh(r)
    PROVE  IInv'
<1>1. /\ Receive(r) /\ r \notin DOMAIN records /\ r >= floor
      /\ Remember(r) /\ ran' = Append(ran, r)
      /\ highWater' = IF r > highWater THEN r ELSE highWater
      /\ running' = running \cup {r} /\ UNCHANGED <<told, refused>>
    BY DEF AdmitFresh
<1>2. /\ order' \in Seq(Req) /\ Len(order') <= Capacity
      /\ DOMAIN records' = In(order')
      /\ \A q \in DOMAIN records' : \/ records'[q] = "running"
                                    \/ q \in DOMAIN records /\ records'[q] = records[q]
      /\ floor' \in 0..(MaxReq + 1)
      /\ HoldsTheLast' /\ FloorOK'
    BY <1>1, RememberStep
<1>3. /\ wire' \in Seq(Req) /\ Len(wire') <= MaxOnWire /\ late' \in BOOLEAN
      /\ asked' = asked /\ results' = results
      /\ ~late' => ~late
    BY <1>1, ReceiveFacts
<1>4. /\ r \in Nat /\ r <= MaxReq /\ highWater \in 0..MaxReq /\ highWater \in Nat
      /\ highWater' \in 0..MaxReq /\ r <= highWater' /\ highWater <= highWater'
    BY <1>1, ReqRingAssumption DEF IInv, TypeOK, Req
<1>5. TypeOK'
    BY <1>1, <1>2, <1>3, <1>4, RanFacts DEF IInv, TypeOK
<1>6. RemembersTheLast'
    BY <1>1, FreshRemembersTheLast
<1>7. HighWaterOK'
    <2>1. ASSUME NEW i \in DOMAIN ran' PROVE ran'[i] <= highWater'
        <3>1. CASE i \in DOMAIN ran
            <4>1. ran'[i] = ran[i] /\ ran[i] \in Req /\ ran[i] <= highWater
                BY <1>1, <3>1, RanFacts DEF IInv, TypeOK, HighWaterOK
            <4>2. ran[i] \in Nat /\ highWater' \in Nat
                BY <1>4, <4>1 DEF Req
            <4>. QED BY <1>4, <4>1, <4>2
        <3>2. CASE i \notin DOMAIN ran
            BY <1>1, <1>4, <3>2, RanFacts
        <3>. QED BY <3>1, <3>2
    <2>. QED BY <2>1 DEF HighWaterOK
<1>8. Rising'
    <2>. SUFFICES ASSUME ~late'
                  PROVE  /\ \A i, k \in DOMAIN ran' : i < k => ran'[i] < ran'[k]
                         /\ refused' \subseteq In(ran')
        BY DEF Rising
    <2>1. ~late /\ \A i \in DOMAIN ran : ran[i] < r
        BY <1>1, <1>3, FreshIsNew
    <2>2. ASSUME NEW i \in DOMAIN ran', NEW k \in DOMAIN ran', i < k PROVE ran'[i] < ran'[k]
        <3>1. i \in DOMAIN ran /\ ran'[i] = ran[i]
            BY <1>1, <2>2, RanFacts
        <3>2. CASE k \in DOMAIN ran
            BY <1>1, <2>1, <2>2, <3>1, <3>2, RanFacts DEF IInv, Rising
        <3>3. CASE k \notin DOMAIN ran
            BY <1>1, <2>1, <3>1, <3>3, RanFacts
        <3>. QED BY <3>2, <3>3
    <2>3. refused' \subseteq In(ran')
        BY <1>1, <2>1, RanFacts DEF IInv, Rising
    <2>. QED BY <2>2, <2>3
<1>9. RecordsTrue' /\ AnswersTrue'
    BY <1>1, <1>2, <1>3 DEF IInv, RecordsTrue, AnswersTrue
<1>. QED BY <1>2, <1>5, <1>6, <1>7, <1>8, <1>9 DEF IInv

\* Admission::TooOld.
LEMMA TooOldStep ==
    ASSUME IInv, NEW r \in Req, AdmitTooOld(r)
    PROVE  IInv'
<1>1. /\ Receive(r) /\ r \notin DOMAIN records /\ r < floor
      /\ refused' = refused \cup {r} /\ Answered(r, "refused")
      /\ UNCHANGED <<order, records, highWater, floor, running, ran>>
    BY DEF AdmitTooOld, ring
<1>2. /\ wire' \in Seq(Req) /\ Len(wire') <= MaxOnWire /\ late' \in BOOLEAN
      /\ asked' = asked /\ results' = results
      /\ ~late' => ~late /\ (r \in Heard \/ r >= highWater)
    BY <1>1, ReceiveFacts
<1>3. /\ told' \in [Req -> {"nothing", "refused"} \cup Final]
      /\ \A q \in Req : told'[q] = told[q] \/ (q = r /\ told'[q] = "refused")
    BY <1>1, AnsweredFacts DEF IInv
<1>4. TypeOK'
    BY <1>1, <1>2, <1>3 DEF IInv, TypeOK
<1>5. HoldsTheLast' /\ RemembersTheLast' /\ FloorOK' /\ HighWaterOK'
    <2>1. Dropped' = Dropped
        BY <1>1 DEF Dropped
    <2>. QED BY <1>1, <2>1 DEF IInv, HoldsTheLast, RemembersTheLast, FloorOK, HighWaterOK
<1>6. Rising'
    <2>. SUFFICES ASSUME ~late' PROVE ~late /\ r \in In(ran)
        BY <1>1 DEF IInv, Rising, In
    <2>1. ~late /\ (r \in Heard \/ r >= highWater)
        BY <1>2
    <2>2. CASE r \in Heard
        BY <2>1, <2>2 DEF IInv, Rising, Heard
    <2>3. CASE r >= highWater
        <3>1. PICK n \in Nat, d \in Nat : /\ d = Dropped /\ d <= n /\ DOMAIN ran = 1..n
            BY DroppedFacts
        <3>2. d > 0
            <4>1. d = 0 => floor = 0
                BY <3>1 DEF IInv, FloorOK
            <4>2. r \in Nat
                BY DEF Req
            <4>. QED BY <1>1, <4>1, <4>2
        <3>3. d \in 1..n
            BY <3>1, <3>2
        <3>4. floor = ran[d] + 1 /\ ran[d] \in Req /\ ran[d] <= highWater
            <4>1. floor = ran[d] + 1
                BY <3>1, <3>2 DEF IInv, FloorOK
            <4>2. ran[d] \in Req /\ ran[d] <= highWater
                BY <3>1, <3>3 DEF IInv, TypeOK, HighWaterOK
            <4>. QED BY <4>1, <4>2
        <3>5. r \in Nat /\ ran[d] \in Nat /\ highWater \in Nat
            BY <3>4 DEF IInv, TypeOK, Req
        <3>6. r = ran[d]
            BY <1>1, <2>3, <3>4, <3>5
        <3>. QED BY <2>1, <3>1, <3>3, <3>6 DEF In
    <2>. QED BY <2>1, <2>2, <2>3
<1>7. RecordsTrue' /\ AnswersTrue'
    BY <1>1, <1>2, <1>3 DEF IInv, RecordsTrue, AnswersTrue
<1>. QED BY <1>4, <1>5, <1>6, <1>7 DEF IInv

\* Admission::Replay.
LEMMA ReplayStep ==
    ASSUME IInv, NEW r \in Req, AdmitReplay(r)
    PROVE  IInv'
<1>1. /\ Receive(r) /\ r \in DOMAIN records /\ records[r] # "running"
      /\ Answered(r, records[r])
      /\ UNCHANGED <<order, records, highWater, floor, running, ran, refused>>
    BY DEF AdmitReplay, ring
<1>2. /\ wire' \in Seq(Req) /\ Len(wire') <= MaxOnWire /\ late' \in BOOLEAN
      /\ asked' = asked /\ results' = results /\ (~late' => ~late)
    BY <1>1, ReceiveFacts
<1>3. records[r] \in Final /\ records[r] \in results[r]
    BY <1>1 DEF IInv, TypeOK, RecordsTrue
<1>4. /\ told' \in [Req -> {"nothing", "refused"} \cup Final]
      /\ \A q \in Req : told'[q] = told[q] \/ (q = r /\ told'[q] = records[r])
    BY <1>1, <1>3, AnsweredFacts DEF IInv
<1>5. TypeOK'
    BY <1>1, <1>2, <1>4 DEF IInv, TypeOK
<1>6. HoldsTheLast' /\ RemembersTheLast' /\ FloorOK' /\ HighWaterOK' /\ Rising'
    <2>1. Dropped' = Dropped
        BY <1>1 DEF Dropped
    <2>. QED BY <1>1, <1>2, <2>1
         DEF IInv, HoldsTheLast, RemembersTheLast, FloorOK, HighWaterOK, Rising
<1>7. RecordsTrue' /\ AnswersTrue'
    BY <1>1, <1>2, <1>3, <1>4 DEF IInv, RecordsTrue, AnswersTrue
<1>. QED BY <1>5, <1>6, <1>7 DEF IInv

\* Admission::InFlight.
LEMMA InFlightStep ==
    ASSUME IInv, NEW r \in Req, AdmitInFlight(r)
    PROVE  IInv'
<1>1. /\ Receive(r)
      /\ UNCHANGED <<told, order, records, highWater, floor, running, ran, refused>>
    BY DEF AdmitInFlight, ring
<1>2. /\ wire' \in Seq(Req) /\ Len(wire') <= MaxOnWire /\ late' \in BOOLEAN
      /\ asked' = asked /\ results' = results /\ (~late' => ~late)
    BY <1>1, ReceiveFacts
<1>3. TypeOK'
    BY <1>1, <1>2 DEF IInv, TypeOK
<1>4. HoldsTheLast' /\ RemembersTheLast' /\ FloorOK' /\ HighWaterOK' /\ Rising'
    <2>1. Dropped' = Dropped
        BY <1>1 DEF Dropped
    <2>. QED BY <1>1, <1>2, <2>1
         DEF IInv, HoldsTheLast, RemembersTheLast, FloorOK, HighWaterOK, Rising
<1>5. RecordsTrue' /\ AnswersTrue'
    BY <1>1, <1>2 DEF IInv, RecordsTrue, AnswersTrue
<1>. QED BY <1>3, <1>4, <1>5 DEF IInv

\* The handler ends: ReqRing::complete with a final answer.
LEMMA FinishStep ==
    ASSUME IInv, NEW r \in Req, NEW status \in Final, Finish(r, status)
    PROVE  IInv'
<1>1. /\ running' = running \ {r} /\ results' = [results EXCEPT ![r] = @ \cup {status}]
      /\ records' = Complete(r, status) /\ Answered(r, status)
      /\ UNCHANGED <<asked, wire, order, highWater, floor, ran, refused, late>>
    BY DEF Finish, terminalVars
<1>2. /\ DOMAIN records' = DOMAIN records
      /\ \A q \in DOMAIN records : records'[q] = records[q] \/ (q = r /\ records'[q] = status)
    BY <1>1, CompleteFacts
<1>3. /\ told' \in [Req -> {"nothing", "refused"} \cup Final]
      /\ \A q \in Req : told'[q] = told[q] \/ (q = r /\ told'[q] = status)
    BY <1>1, AnsweredFacts DEF IInv
<1>4. /\ results' \in [Req -> SUBSET Final]
      /\ \A q \in Req : results[q] \subseteq results'[q]
      /\ status \in results'[r]
    BY <1>1 DEF IInv, TypeOK
<1>5. TypeOK'
    BY <1>1, <1>2, <1>3, <1>4 DEF IInv, TypeOK
<1>6. HoldsTheLast' /\ RemembersTheLast' /\ FloorOK' /\ HighWaterOK' /\ Rising'
    BY <1>1, RingStill
<1>7. DOMAIN records \subseteq Req
    BY DEF IInv, TypeOK, In
<1>8. RecordsTrue' /\ AnswersTrue'
    BY <1>1, <1>2, <1>3, <1>4, <1>7 DEF IInv, RecordsTrue, AnswersTrue
<1>. QED BY <1>5, <1>6, <1>8 DEF IInv

LEMMA InitIInv == Init => IInv
<1>. SUFFICES ASSUME Init PROVE IInv
    OBVIOUS
<1>. USE ReqRingAssumption DEF Init
<1>1. /\ <<>> \in Seq(Req) /\ Len(<<>>) = 0 /\ DOMAIN <<>> = {} /\ In(<<>>) = {}
      /\ 0 <= MaxOnWire /\ 0 <= Capacity /\ 0 \in 0..MaxReq /\ 0 \in 0..(MaxReq + 1)
    BY DEF In
<1>2. DOMAIN records = {}
    BY DEF NoRecords
<1>3. TypeOK
    BY <1>1, <1>2 DEF TypeOK, Final
<1>4. Dropped = 0
    BY <1>1 DEF Dropped
<1>5. HoldsTheLast /\ FloorOK
    BY <1>1, <1>4 DEF HoldsTheLast, FloorOK
<1>6. RemembersTheLast /\ HighWaterOK /\ Rising /\ RecordsTrue /\ AnswersTrue
    BY <1>1, <1>2 DEF RemembersTheLast, HighWaterOK, Rising, RecordsTrue, AnswersTrue
<1>. QED BY <1>3, <1>5, <1>6 DEF IInv

LEMMA NextIInv == IInv /\ [Next]_vars => IInv'
<1>. SUFFICES ASSUME IInv, [Next]_vars PROVE IInv'
    OBVIOUS
<1>1. ASSUME NEW r \in Req, Send(r) PROVE IInv'
    <2>1. UNCHANGED <<told, order, records, highWater, floor, running, results, ran, refused, late>>
        BY <1>1 DEF Send, ring, history
    <2>2. wire' \in Seq(Req) /\ Len(wire') <= MaxOnWire
        <3>1. wire' = Append(wire, r) /\ Len(wire) < MaxOnWire /\ wire \in Seq(Req)
            BY <1>1 DEF Send, IInv, TypeOK
        <3>. QED BY <3>1, AppendFacts, ReqRingAssumption
    <2>3. asked' \in 0..MaxReq
        BY <1>1, ReqRingAssumption DEF Send, IInv, TypeOK, Req
    <2>4. TypeOK'
        BY <2>1, <2>2, <2>3 DEF IInv, TypeOK
    <2>. QED BY <2>1, <2>4, RingStill DEF IInv, RecordsTrue, AnswersTrue
<1>2. CASE Disconnect
    <2>1. /\ wire' = <<>>
          /\ UNCHANGED <<asked, told, order, records, highWater, floor, running, results, ran,
                         refused, late>>
        BY <1>2 DEF Disconnect, ring, history
    <2>2. TypeOK'
        BY <2>1, ReqRingAssumption DEF IInv, TypeOK
    <2>. QED BY <2>1, <2>2, RingStill DEF IInv, RecordsTrue, AnswersTrue
<1>3. ASSUME NEW r \in Req, AdmitFresh(r) PROVE IInv'
    BY <1>3, FreshStep
<1>4. ASSUME NEW r \in Req, AdmitTooOld(r) PROVE IInv'
    BY <1>4, TooOldStep
<1>5. ASSUME NEW r \in Req, AdmitReplay(r) PROVE IInv'
    BY <1>5, ReplayStep
<1>6. ASSUME NEW r \in Req, AdmitInFlight(r) PROVE IInv'
    BY <1>6, InFlightStep
<1>7. ASSUME NEW r \in Req, Progress(r) PROVE IInv'
    <2>1. /\ records' = Complete(r, "accepted")
          /\ UNCHANGED <<asked, wire, told, order, highWater, floor, running, results, ran,
                         refused, late>>
        BY <1>7 DEF Progress, terminalVars, history
    <2>2. records' = records
        BY <2>1 DEF Complete, Final
    <2>3. TypeOK'
        BY <2>1, <2>2 DEF IInv, TypeOK
    <2>. QED BY <2>1, <2>2, <2>3, RingStill DEF IInv, RecordsTrue, AnswersTrue
<1>8. ASSUME NEW r \in Req, NEW status \in Final, Finish(r, status) PROVE IInv'
    BY <1>8, FinishStep
<1>9. CASE UNCHANGED vars
    <2>1. UNCHANGED <<asked, wire, told, order, records, highWater, floor, running, results, ran,
                      refused, late>>
        BY <1>9 DEF vars, terminalVars, ring, history
    <2>2. TypeOK'
        BY <2>1 DEF IInv, TypeOK
    <2>. QED BY <2>1, <2>2, RingStill DEF IInv, RecordsTrue, AnswersTrue
<1>. QED BY <1>1, <1>2, <1>3, <1>4, <1>5, <1>6, <1>7, <1>8, <1>9 DEF Next

-----------------------------------------------------------------------------
(* What follows.                                                           *)

LEMMA Invariance == Spec => []IInv
BY InitIInv, NextIInv, PTL DEF Spec

\* The ring keeps its capacity, and `order` and `records` agree, whatever arrives.
THEOREM TypeCorrect == Spec => []TypeOK
<1>1. IInv => TypeOK
    BY DEF IInv
<1>. QED BY <1>1, Invariance, PTL

\* What is among the last Capacity executions is not executed again, over any losses,
\* repeats and reordering (ReqRing::admit).
THEOREM AlwaysRemembersTheLast == Spec => []RemembersTheLast
<1>1. IInv => RemembersTheLast
    BY DEF IInv
<1>. QED BY <1>1, Invariance, PTL

\* If commands first arrive in their order, none is executed twice, however many have come
\* in between (evict_if_full, the floor).
THEOREM AlwaysOnceInOrder == Spec => []OnceInOrder
<1>1. IInv => OnceInOrder
    <2>. SUFFICES ASSUME IInv, ~late, NEW i \in DOMAIN ran, NEW k \in DOMAIN ran, i # k
                  PROVE  ran[i] # ran[k]
        BY DEF OnceInOrder, AtMostOnce
    <2>1. i \in Nat /\ k \in Nat /\ ran[i] \in Nat /\ ran[k] \in Nat
        <3>1. ran \in Seq(Req)
            BY DEF IInv, TypeOK
        <3>2. i \in Nat /\ k \in Nat /\ ran[i] \in Req /\ ran[k] \in Req
            BY <3>1
        <3>. QED BY <3>2 DEF Req
    <2>2. CASE i < k
        BY <2>1, <2>2 DEF IInv, Rising
    <2>3. CASE k < i
        BY <2>1, <2>3 DEF IInv, Rising
    <2>. QED BY <2>1, <2>2, <2>3
<1>. QED BY <1>1, Invariance, PTL

\* The answer a command is told, at first or by a replay, is how an execution of it ended
\* (ReqRing::complete).
THEOREM AnswersAlwaysTrue == Spec => []AnswersTrue
<1>1. IInv => AnswersTrue
    BY DEF IInv
<1>. QED BY <1>1, Invariance, PTL

-----------------------------------------------------------------------------
(* The budgets and their constants.                                        *)

LEMMA FourBudgets ==
    Range(Budgets) = {"weight", "orders_10s", "orders_1m", "orders_1d"}
  BY DEF Range, Budgets

LEMMA LimitsPositive ==
    ASSUME NEW b \in Range(Budgets)
    PROVE  /\ Limit[b] \in Nat /\ Limit[b] > 0
           /\ Span[b] \in Nat /\ Span[b] > 0
  BY RateLimiterAssumption

\* The greater of two numbers.
LEMMA MaxOfTwo ==
    ASSUME NEW x \in Int, NEW y \in Int
    PROVE  Max({x, y}) = IF x > y THEN x ELSE y
  BY DEF Max

LEMMA HeadroomFits == Headroom \in Nat /\ 1 <= Headroom /\ Headroom <= Limit["weight"]
  <1> DEFINE n == Limit["weight"] * HeadroomPermille
  <1>1. Limit["weight"] \in Nat /\ Limit["weight"] > 0
    BY LimitsPositive, FourBudgets
  <1>2. n \in Nat /\ n <= Limit["weight"] * 1000
    BY <1>1, RateLimiterAssumption
  <1>3. n \div 1000 \in Nat /\ n \div 1000 <= Limit["weight"]
    <2> HIDE DEF n
    <2> QED BY <1>1, <1>2
  <1>4. Headroom = IF n \div 1000 > 1 THEN n \div 1000 ELSE 1
    BY <1>3, MaxOfTwo DEF Headroom
  <1> QED BY <1>1, <1>3, <1>4

\* What a budget lets the limiter spend in one of its windows.
Budget(b) == IF b = "weight" THEN Limit[b] - Headroom ELSE Limit[b]

LEMMA BudgetType ==
    ASSUME NEW b \in Range(Budgets)
    PROVE  Budget(b) \in Nat /\ Budget(b) <= Limit[b]
  BY LimitsPositive, HeadroomFits DEF Budget

-----------------------------------------------------------------------------
(* One window, rolled.                                                     *)

Window == [used : Nat, started : Nat]

LEMMA WholeSpans ==
    ASSUME NEW n \in Nat, NEW d \in Nat, d > 0
    PROVE  /\ n \div d \in Nat
           /\ d * (n \div d) <= n
           /\ n < d * (n \div d) + d
  OBVIOUS

\* A window that has rolled has started within its span, and starts where a span did.
LEMMA RollFacts ==
    ASSUME NEW b \in Range(Budgets), NEW w \in Window, NEW t \in Nat
    PROVE  /\ Roll(w, b, t) \in Window
           /\ t < Roll(w, b, t).started + Span[b]
           /\ t < w.started + Span[b] => Roll(w, b, t) = w
           /\ t >= w.started + Span[b] =>
                /\ Roll(w, b, t).used = 0
                /\ w.started + Span[b] <= Roll(w, b, t).started
                /\ Roll(w, b, t).started <= t
  <1>1. Span[b] \in Nat /\ Span[b] > 0
    BY LimitsPositive
  <1>2. w.used \in Nat /\ w.started \in Nat
    BY DEF Window
  <1>3. CASE t - w.started < Span[b]
    BY <1>1, <1>2, <1>3 DEF Roll
  <1>4. CASE t - w.started >= Span[b]
    <2> DEFINE n == t - w.started
               q == n \div Span[b]
    <2>1. n \in Nat /\ n >= Span[b]
      BY <1>1, <1>2, <1>4
    <2>2. q \in Nat /\ Span[b] * q <= n /\ n < Span[b] * q + Span[b]
      <3> HIDE DEF n
      <3> QED BY <2>1, <1>1, WholeSpans
    <2>3. q >= 1
      <3> HIDE DEF n, q
      <3>1. CASE q = 0
        BY <3>1, <2>1, <2>2, <1>1
      <3> QED BY <3>1, <2>2
    <2>4. Span[b] * q \in Nat /\ Span[b] * q >= Span[b]
      <3> HIDE DEF q
      <3> QED BY <2>2, <2>3, <1>1
    <2>5. Roll(w, b, t) = [used |-> 0, started |-> w.started + Span[b] * q]
      BY <1>4 DEF Roll
    <2> HIDE DEF q
    <2> QED BY <2>1, <2>2, <2>4, <2>5, <1>1, <1>2, <1>4 DEF Window
  <1> QED BY <1>1, <1>2, <1>3, <1>4

-----------------------------------------------------------------------------
(* What was spent over the last ticks of one budget, against its window.   *)

Lesser(x, y) == IF x < y THEN x ELSE y

\* One budget for each move.
Share(h, i, B) == h[i] * B

LEMMA ShareType ==
    ASSUME NEW L \in Nat, NEW h \in [1..L -> Nat], NEW i \in 1..L, NEW B \in Nat
    PROVE  Share(h, i, B) \in Nat
  <1>1. \A n \in Nat : n * B \in Nat
    OBVIOUS
  <1>2. h[i] \in Nat
    OBVIOUS
  <1>3. h[i] * B \in Nat
    BY <1>1, <1>2, Zenon
  <1> QED BY <1>3 DEF Share

LEMMA HistoryTypes ==
    ASSUME NEW L \in Nat, NEW s \in [1..L -> Nat], NEW n \in Nat
    PROVE  More(s, n) \in [1..L -> Nat] /\ Later(s) \in [1..L -> Nat]
  <1>1. \A i \in 1..L : s[i] + n \in Nat /\ (i # 1 => s[i - 1] \in Nat)
    OBVIOUS
  <1> QED BY <1>1 DEF More, Later

\* What was spent over the last i ticks, x, when the windows of L ticks allow B, the one
\* since a counts u, and moves allow m more: what the window has lived through is in the
\* window, but for the moves; nothing was spent since it ran out; and what was spent before
\* it is at most one budget more.
Within(u, a, x, m, i, B, L, t) ==
    /\ a + i <= t + 1 => x <= Lesser(u, B) + m
    /\ a + L + i <= t + 1 => x = 0
    /\ x <= Lesser(u, B) + B + m

Accounted(w, s, h, B, L, t) ==
    /\ w.started <= t
    /\ \A i \in 1..L : Within(w.used, w.started, s[i], Share(h, i, B), i, B, L, t)

\* A window that ran out gives way to one that has spent nothing.
LEMMA WithinRolled ==
    ASSUME NEW u \in Nat, NEW a \in Nat, NEW x \in Nat, NEW m \in Nat, NEW i \in Nat,
           NEW B \in Nat, NEW L \in Nat, NEW t \in Nat, NEW r \in Nat,
           i <= L, a + L <= r, r <= t, t < r + L,
           Within(u, a, x, m, i, B, L, t)
    PROVE  Within(0, r, x, m, i, B, L, t)
  BY DEF Within, Lesser

LEMMA WithinCharged ==
    ASSUME NEW u \in Nat, NEW a \in Nat, NEW x \in Nat, NEW m \in Nat, NEW i \in Nat,
           NEW B \in Nat, NEW L \in Nat, NEW t \in Nat, NEW cost \in Nat,
           NEW v \in Nat, NEW y \in Nat, v = u + cost, y = x + cost,
           i >= 1, t < a + L, v <= B,
           Within(u, a, x, m, i, B, L, t)
    PROVE  Within(v, a, y, m, i, B, L, t)
  BY DEF Within, Lesser

LEMMA WithinRaised ==
    ASSUME NEW u \in Nat, NEW a \in Nat, NEW x \in Nat, NEW m \in Nat, NEW i \in Nat,
           NEW B \in Nat, NEW L \in Nat, NEW t \in Nat, NEW v \in Nat,
           u <= v \/ B <= v,
           Within(u, a, x, m, i, B, L, t)
    PROVE  Within(v, a, x, m, i, B, L, t)
  BY DEF Within, Lesser

LEMMA WithinLater ==
    ASSUME NEW u \in Nat, NEW a \in Nat, NEW x \in Nat, NEW m \in Nat, NEW i \in Nat,
           NEW B \in Nat, NEW L \in Nat, NEW t \in Nat,
           Within(u, a, x, m, i, B, L, t)
    PROVE  Within(u, a, x, m, i + 1, B, L, t + 1)
  BY DEF Within, Lesser

-----------------------------------------------------------------------------
(* The same for all lengths.                                               *)

\* A budget's windows are longer than nothing.
LEMMA RollAccounted ==
    ASSUME NEW b \in Range(Budgets), NEW w \in Window, NEW t \in Nat,
           NEW s \in [1..Span[b] -> Nat], NEW h \in [1..Span[b] -> Nat], NEW B \in Nat,
           Accounted(w, s, h, B, Span[b], t)
    PROVE  Accounted(Roll(w, b, t), s, h, B, Span[b], t)
  <1>1. Span[b] \in Nat /\ Span[b] > 0
    BY LimitsPositive
  <1>2. w.used \in Nat /\ w.started \in Nat
    BY DEF Window
  <1>3. CASE t < w.started + Span[b]
    BY <1>3, RollFacts
  <1>4. CASE t >= w.started + Span[b]
    <2>1. PICK r \in Window : r = Roll(w, b, t)
      BY RollFacts
    <2>2. r.used = 0 /\ w.started + Span[b] <= r.started /\ r.started <= t /\ t < r.started + Span[b]
      BY <1>4, <2>1, RollFacts
    <2>3. r.started \in Nat
      BY DEF Window
    <2>4. ASSUME NEW i \in 1..Span[b]
          PROVE  Within(r.used, r.started, s[i], Share(h, i, B), i, B, Span[b], t)
      <3>1. Within(w.used, w.started, s[i], Share(h, i, B), i, B, Span[b], t)
        BY DEF Accounted
      <3>2. s[i] \in Nat /\ i \in Nat /\ i <= Span[b]
        BY <1>1
      <3>3. Share(h, i, B) \in Nat
        BY <1>1, ShareType
      <3> QED BY <1>1, <1>2, <2>2, <2>3, <3>1, <3>2, <3>3, WithinRolled
    <2> QED BY <2>1, <2>2, <2>4 DEF Accounted
  <1> QED BY <1>1, <1>2, <1>3, <1>4

\* What is spent is charged, and the window has room for it.
LEMMA ChargeAccounted ==
    ASSUME NEW L \in Nat, NEW w \in Window, NEW t \in Nat, NEW cost \in Nat,
           NEW s \in [1..L -> Nat], NEW h \in [1..L -> Nat], NEW B \in Nat,
           t < w.started + L, w.used + cost <= B,
           Accounted(w, s, h, B, L, t)
    PROVE  Accounted(Charge(w, cost), More(s, cost), h, B, L, t)
  <1>1. w.used \in Nat /\ w.started \in Nat
    BY DEF Window
  <1>2. Charge(w, cost).used = w.used + cost /\ Charge(w, cost).started = w.started
    BY DEF Charge, Window
  <1>3. ASSUME NEW i \in 1..L
        PROVE  Within(w.used + cost, w.started, More(s, cost)[i], Share(h, i, B), i, B, L, t)
    <2>1. Within(w.used, w.started, s[i], Share(h, i, B), i, B, L, t)
      BY DEF Accounted
    <2>2. s[i] \in Nat /\ i \in Nat /\ i >= 1
      OBVIOUS
    <2>. Share(h, i, B) \in Nat
      BY ShareType
    <2>3. More(s, cost)[i] = s[i] + cost
      BY DEF More
    <2>4. w.used + cost \in Nat
      BY <1>1
    <2>5. More(s, cost)[i] \in Nat
      BY <2>2, <2>3
    <2> QED BY <1>1, <2>1, <2>2, <2>3, <2>4, <2>5, WithinCharged
  <1> QED BY <1>2, <1>3 DEF Accounted

\* A window that counts more than was spent.
LEMMA RaiseAccounted ==
    ASSUME NEW L \in Nat, NEW w \in Window, NEW t \in Nat, NEW v \in Window,
           NEW s \in [1..L -> Nat], NEW h \in [1..L -> Nat], NEW B \in Nat,
           v.started = w.started, w.used <= v.used \/ B <= v.used,
           Accounted(w, s, h, B, L, t)
    PROVE  Accounted(v, s, h, B, L, t)
  <1>1. w.used \in Nat /\ w.started \in Nat /\ v.used \in Nat
    BY DEF Window
  <1>2. ASSUME NEW i \in 1..L
        PROVE  Within(v.used, w.started, s[i], Share(h, i, B), i, B, L, t)
    <2>1. Within(w.used, w.started, s[i], Share(h, i, B), i, B, L, t)
      BY DEF Accounted
    <2>2. s[i] \in Nat /\ i \in Nat
      OBVIOUS
    <2>. Share(h, i, B) \in Nat
      BY ShareType
    <2> QED BY <1>1, <2>1, <2>2, WithinRaised
  <1> QED BY <1>2 DEF Accounted

\* A window that is full and is moved, however far it had come.
LEMMA MoveAccounted ==
    ASSUME NEW L \in Nat, NEW w \in Window, NEW t \in Nat, NEW v \in Window,
           NEW s \in [1..L -> Nat], NEW h \in [1..L -> Nat], NEW B \in Nat,
           v.started <= t, t < v.started + L, B <= v.used,
           Accounted(w, s, h, B, L, t)
    PROVE  Accounted(v, s, More(h, 1), B, L, t)
  <1>1. w.used \in Nat /\ w.started \in Nat /\ v.used \in Nat /\ v.started \in Nat
    BY DEF Window
  <1>2. ASSUME NEW i \in 1..L
        PROVE  Within(v.used, v.started, s[i], Share(More(h, 1), i, B), i, B, L, t)
    <2>1. Within(w.used, w.started, s[i], Share(h, i, B), i, B, L, t)
      BY DEF Accounted
    <2>2. s[i] \in Nat /\ i \in Nat /\ i >= 1
      OBVIOUS
    <2>. Share(h, i, B) \in Nat
      BY ShareType
    <2>3. More(h, 1)[i] = h[i] + 1 /\ h[i] \in Nat
      BY DEF More
    <2>4. Share(More(h, 1), i, B) = Share(h, i, B) + B
      <3>1. ASSUME NEW n \in Nat PROVE (n + 1) * B = n * B + B
        OBVIOUS
      <3> QED BY <2>3, <3>1 DEF Share
    <2>5. Share(More(h, 1), i, B) \in Nat
      BY <2>4
    <2>6. s[i] <= B + B + Share(h, i, B)
      BY <1>1, <2>1, <2>2 DEF Within, Lesser
    <2>7. Lesser(v.used, B) = B
      BY <1>1 DEF Lesser
    <2>8. ~(v.started + L + i <= t + 1)
      BY <1>1, <2>2
    <2> QED BY <2>2, <2>4, <2>6, <2>7, <2>8 DEF Within
  <1> QED BY <1>2 DEF Accounted

\* A tick.
LEMMA TickAccounted ==
    ASSUME NEW L \in Nat, NEW w \in Window, NEW t \in Nat,
           NEW s \in [1..L -> Nat], NEW h \in [1..L -> Nat], NEW B \in Nat,
           Accounted(w, s, h, B, L, t)
    PROVE  Accounted(w, Later(s), Later(h), B, L, t + 1)
  <1>1. w.used \in Nat /\ w.started \in Nat
    BY DEF Window
  <1>2. ASSUME NEW i \in 1..L
        PROVE  Within(w.used, w.started, Later(s)[i], Share(Later(h), i, B), i, B, L, t + 1)
    <2>1. CASE i = 1
      <3>1. Later(s)[i] = 0 /\ Share(Later(h), i, B) = 0
        BY <2>1 DEF Later, Share
      <3>2. /\ t + 1 \in Nat /\ i \in Nat
            /\ Share(Later(h), i, B) \in Nat
        BY <3>1
      <3> QED BY <1>1, <3>1, <3>2 DEF Within, Lesser
    <2>2. CASE i # 1
      <3> DEFINE j == i - 1
      <3>1. j \in 1..L /\ j \in Nat /\ i = j + 1
        BY <2>2
      <3>2. Later(s)[i] = s[j] /\ Share(Later(h), i, B) = Share(h, j, B)
        BY <2>2 DEF Later, Share
      <3> HIDE DEF j
      <3>3. Within(w.used, w.started, s[j], Share(h, j, B), j, B, L, t)
        BY <3>1 DEF Accounted
      <3>4. s[j] \in Nat /\ Share(h, j, B) \in Nat
        BY <3>1, ShareType
      <3> QED BY <1>1, <3>1, <3>2, <3>3, <3>4, WithinLater
    <2> QED BY <2>1, <2>2
  <1>3. w.started <= t + 1
    BY <1>1 DEF Accounted
  <1> QED BY <1>2, <1>3 DEF Accounted

-----------------------------------------------------------------------------
(* How long a call waits.                                                  *)

Windows == [Range(Budgets) -> Window]

LEMMA DrawnBudgets ==
    ASSUME NEW call \in Calls
    PROVE  /\ Drawn(call) \subseteq Range(Budgets)
           /\ Drawn(call) = {"weight"} \/ Drawn(call) = {"weight", "orders_10s", "orders_1m", "orders_1d"}
           /\ "weight" \in Drawn(call)
  BY FourBudgets DEF Drawn

LEMMA CostFits ==
    ASSUME NEW call \in Calls, NEW b \in Drawn(call)
    PROVE  /\ Cost(call, b) \in Nat /\ Cost(call, b) > 0
           /\ Asked(call, b) \in Nat /\ Asked(call, b) > 0
           /\ Asked(call, b) - Cost(call, b) = Limit[b] - Budget(b)
           /\ call.weight + Headroom <= Limit["weight"] => Asked(call, b) <= Limit[b]
  <1>1. b \in Range(Budgets)
    BY DrawnBudgets
  <1>2. Limit[b] \in Nat /\ Limit[b] > 0
    BY <1>1, LimitsPositive
  <1>3. call.weight \in Nat /\ call.weight > 0
    BY RateLimiterAssumption
  <1> QED BY <1>2, <1>3, HeadroomFits DEF Cost, Asked, Budget

LEMMA RollAllType ==
    ASSUME NEW ws \in Windows, NEW t \in Nat
    PROVE  /\ RollAll(ws, t) \in Windows
           /\ \A b \in Range(Budgets) : RollAll(ws, t)[b] = Roll(ws[b], b, t)
  <1>1. \A b \in Range(Budgets) : ws[b] \in Window
    BY DEF Windows
  <1>2. \A b \in Range(Budgets) : Roll(ws[b], b, t) \in Window
    BY <1>1, RollFacts
  <1> QED BY <1>2 DEF RollAll, Windows

LEMMA WaitForType ==
    ASSUME NEW b \in Range(Budgets), NEW w \in Window, NEW cost \in Nat, NEW t \in Nat
    PROVE  /\ WaitFor(w, b, cost, t) \in Nat
           /\ w.used + cost <= Limit[b] => WaitFor(w, b, cost, t) = 0
           /\ w.used + cost > Limit[b] =>
                WaitFor(w, b, cost, t) = IF t < w.started + Span[b] THEN w.started + Span[b] - t ELSE 0
  <1>1. /\ w.used \in Nat /\ w.started \in Nat
        /\ Span[b] \in Nat /\ Limit[b] \in Nat
    BY LimitsPositive DEF Window
  <1>2. w.started + Span[b] - t \in Int
    BY <1>1
  <1>3. Max({w.started + Span[b] - t, 0}) =
          IF w.started + Span[b] - t > 0 THEN w.started + Span[b] - t ELSE 0
    BY <1>2, MaxOfTwo
  <1> QED BY <1>1, <1>3 DEF WaitFor

\* How long a call waits for one budget.
WaitAt(ws, call, t, b) == WaitFor(RollAll(ws, t)[b], b, Asked(call, b), t)

LEMMA WaitAtType ==
    ASSUME NEW ws \in Windows, NEW call \in Calls, NEW t \in Nat, NEW b \in Drawn(call)
    PROVE  WaitAt(ws, call, t, b) \in Nat
  <1>1. b \in Range(Budgets) /\ RollAll(ws, t)[b] \in Window
    BY DrawnBudgets, RollAllType DEF Windows
  <1> QED BY <1>1, WaitForType, CostFits DEF WaitAt

\* The longest wait wins.
LEMMA WaitIsLongest ==
    ASSUME NEW ws \in Windows, NEW call \in Calls, NEW t \in Nat
    PROVE  /\ Wait(ws, call, t) \in Nat
           /\ \A b \in Drawn(call) : WaitAt(ws, call, t, b) <= Wait(ws, call, t)
           /\ \E b \in Drawn(call) : Wait(ws, call, t) = WaitAt(ws, call, t, b)
  <1> DEFINE S == {WaitAt(ws, call, t, b) : b \in Drawn(call)}
             f(b) == WaitAt(ws, call, t, b)
  <1>1. Wait(ws, call, t) = Max(S)
    BY DEF Wait, WaitAt
  <1>2. \A b \in Drawn(call) : f(b) \in Nat
    BY WaitAtType
  <1>3. \E b \in Drawn(call) : \A c \in Drawn(call) : f(c) <= f(b)
    <2> HIDE DEF f
    <2>1. CASE Drawn(call) = {"weight"}
      BY <1>2, <2>1
    <2>2. CASE Drawn(call) = {"weight", "orders_10s", "orders_1m", "orders_1d"}
      BY <1>2, <2>2
    <2> QED BY <2>1, <2>2, DrawnBudgets
  <1>4. \E x \in S : \A y \in S : y <= x
    BY <1>3
  <1>5. Max(S) \in S /\ \A y \in S : y <= Max(S)
    <2> HIDE DEF S
    <2> QED BY <1>4 DEF Max
  <1> QED BY <1>1, <1>2, <1>5

-----------------------------------------------------------------------------
(* The inductive invariant.                                                *)

\* How often each budget's window was moved, over the last ticks.
Moves(b) == IF b = "weight" THEN hints ELSE [i \in 1..Span[b] |-> 0]

\* What was spent is accounted for by each budget's window.
AllAccounted ==
    \A b \in Range(Budgets) :
        Accounted(windows[b], spent[b], Moves(b), Budget(b), Span[b], now)

\* Until a hint has passed, the window it moved is full, and ends no sooner.
HintKept ==
    now < hintEnd => /\ Limit["weight"] <= windows["weight"].used
                     /\ hintEnd <= windows["weight"].started + Span["weight"]

LimiterInv == LimiterTypeOK /\ AllAccounted /\ HintKept

LEMMA LimiterTypes ==
    ASSUME LimiterTypeOK
    PROVE  /\ windows \in Windows
           /\ \A b \in Range(Budgets) : windows[b] \in Window
           /\ now \in Nat
           /\ \A b \in Range(Budgets) :
                /\ spent[b] \in [1..Span[b] -> Nat]
                /\ Moves(b) \in [1..Span[b] -> Nat]
  <1>1. windows \in Windows
    BY DEF LimiterTypeOK, Windows, Window
  <1>2. now \in Nat
    BY RateLimiterAssumption DEF LimiterTypeOK
  <1>3. ASSUME NEW b \in Range(Budgets)
        PROVE  spent[b] \in [1..Span[b] -> Nat] /\ Moves(b) \in [1..Span[b] -> Nat]
    BY DEF LimiterTypeOK, Moves
  <1> QED BY <1>1, <1>2, <1>3 DEF Windows

\* Nothing spent yet is accounted for.
LEMMA NothingAccounted ==
    ASSUME NEW L \in Nat, NEW w \in Window, NEW t \in Nat, NEW s \in [1..L -> Nat],
           NEW h \in [1..L -> Nat], NEW B \in Nat, w.started <= t, \A i \in 1..L : s[i] = 0
    PROVE  Accounted(w, s, h, B, L, t)
  <1>1. w.used \in Nat
    BY DEF Window
  <1>2. ASSUME NEW i \in 1..L
        PROVE  Within(w.used, w.started, s[i], Share(h, i, B), i, B, L, t)
    <2>1. Share(h, i, B) \in Nat
      BY ShareType
    <2>2. s[i] = 0
      OBVIOUS
    <2>3. Lesser(w.used, B) \in Nat
      BY <1>1 DEF Lesser
    <2> QED BY <2>1, <2>2, <2>3 DEF Within
  <1> QED BY <1>2 DEF Accounted

LEMMA LimiterStarts == LimiterInit => LimiterInv
  <1> SUFFICES ASSUME LimiterInit PROVE LimiterInv
    OBVIOUS
  <1>1. \A b \in Range(Budgets) :
          /\ Span[b] \in Nat /\ Span[b] > 0 /\ Limit[b] \in Nat
          /\ windows[b] = [used |-> 0, started |-> Started]
          /\ spent[b] = [i \in 1..Span[b] |-> 0]
    BY LimitsPositive DEF LimiterInit
  <1>2. LimiterTypeOK
    <2>1. now \in Nat
      BY RateLimiterAssumption DEF LimiterInit
    <2>2. windows \in [Range(Budgets) -> [used : Nat, started : Nat]]
      BY RateLimiterAssumption DEF LimiterInit
    <2>3. count \in 0..Limit["weight"] /\ foreign \in Nat /\ hintEnd \in Nat /\ replies = {}
      BY <1>1, FourBudgets DEF LimiterInit
    <2>4. ASSUME NEW b \in Range(Budgets) PROVE spent[b] \in [1..Span[b] -> Nat]
      <3>1. spent[b] = [i \in 1..Span[b] |-> 0]
        BY DEF LimiterInit
      <3> QED BY <3>1
    <2>5. hints \in [1..Span["weight"] -> Nat]
      BY <1>1, FourBudgets DEF LimiterInit
    <2> QED BY <2>1, <2>2, <2>3, <2>4, <2>5 DEF LimiterTypeOK
  <1>3. ASSUME NEW b \in Range(Budgets)
        PROVE  Accounted(windows[b], spent[b], Moves(b), Budget(b), Span[b], now)
    <2>1. /\ windows[b] \in Window /\ now \in Nat /\ Budget(b) \in Nat
          /\ spent[b] \in [1..Span[b] -> Nat] /\ Moves(b) \in [1..Span[b] -> Nat]
      BY <1>2, LimiterTypes, BudgetType
    <2>2. windows[b].started <= now
      BY <1>1, RateLimiterAssumption DEF LimiterInit
    <2> QED BY <1>1, <2>1, <2>2, NothingAccounted
  <1>4. HintKept
    BY RateLimiterAssumption DEF LimiterInit, HintKept
  <1> QED BY <1>2, <1>3, <1>4 DEF LimiterInv, AllAccounted

-----------------------------------------------------------------------------
(* Steps.                                                                  *)

\* A window that is full until a hint has passed does not roll before.
LEMMA FullWindowStays ==
    ASSUME LimiterInv, now < hintEnd
    PROVE  Roll(windows["weight"], "weight", now) = windows["weight"]
  <1>1. now < windows["weight"].started + Span["weight"]
    <2>1. windows["weight"].started \in Nat /\ Span["weight"] \in Nat /\ hintEnd \in Nat /\ now \in Nat
      BY LimiterTypes, FourBudgets, LimitsPositive DEF LimiterInv, LimiterTypeOK, Window
    <2> QED BY <2>1 DEF LimiterInv, HintKept
  <1> QED BY <1>1, RollFacts, LimiterTypes, FourBudgets DEF LimiterInv

\* So nothing is sent before.
LEMMA WaitsForHint ==
    ASSUME LimiterInv, now < hintEnd, NEW call \in Calls
    PROVE  Wait(windows, call, now) > 0
  <1> DEFINE w == windows["weight"]
             cost == Asked(call, "weight")
  <1>1. /\ "weight" \in Range(Budgets) /\ w \in Window /\ now \in Nat /\ windows \in Windows
        /\ "weight" \in Drawn(call)
    BY LimiterTypes, FourBudgets, DrawnBudgets DEF LimiterInv
  <1>2. RollAll(windows, now)["weight"] = w
    BY <1>1, FullWindowStays, RollAllType
  <1>3. cost \in Nat /\ cost > 0
    BY <1>1, CostFits
  <1>4. /\ w.used \in Nat /\ w.started \in Nat /\ hintEnd \in Nat
        /\ Limit["weight"] \in Nat /\ Span["weight"] \in Nat
    BY <1>1, LimitsPositive DEF Window, LimiterInv, LimiterTypeOK
  <1>5. w.used + cost > Limit["weight"] /\ now < w.started + Span["weight"]
    BY <1>1, <1>3, <1>4 DEF LimiterInv, HintKept
  <1>6. WaitAt(windows, call, now, "weight") = w.started + Span["weight"] - now
    BY <1>1, <1>2, <1>3, <1>5, WaitForType DEF WaitAt
  <1>7. WaitAt(windows, call, now, "weight") > 0
    BY <1>1, <1>4, <1>5, <1>6
  <1> QED BY <1>1, <1>7, WaitIsLongest, WaitAtType

LEMMA VenueLeftType ==
    ASSUME NEW t \in Nat
    PROVE  VenueLeft(t) \in 1..Span["weight"]
  <1>1. Span["weight"] \in Nat /\ Span["weight"] > 0 /\ t + Phase \in Nat
    BY LimitsPositive, FourBudgets, RateLimiterAssumption
  <1>2. \A n \in Nat : n % Span["weight"] \in 0..(Span["weight"] - 1)
    BY <1>1
  <1> QED BY <1>1, <1>2 DEF VenueLeft

\* A step that only rolls the windows, or changes nothing of the limiter.
LEMMA DeferStep ==
    ASSUME LimiterInv, NEW call \in Calls, Defer(call)
    PROVE  LimiterInv'
  <1> USE DEF LimiterInv
  <1>1. windows \in Windows /\ now \in Nat /\ windows' = RollAll(windows, now)
        /\ UNCHANGED <<now, count, foreign, replies, spent, hintEnd, hints>>
    BY LimiterTypes DEF Defer
  <1>2. windows' \in Windows /\ \A b \in Range(Budgets) : windows'[b] = Roll(windows[b], b, now)
    BY <1>1, RollAllType
  <1>3. LimiterTypeOK'
    BY <1>1, <1>2 DEF LimiterTypeOK, Windows, Window
  <1>4. ASSUME NEW b \in Range(Budgets)
        PROVE  Accounted(windows[b], spent[b], Moves(b), Budget(b), Span[b], now)'
    <2>1. Accounted(Roll(windows[b], b, now), spent[b], Moves(b), Budget(b), Span[b], now)
      BY LimiterTypes, BudgetType, RollAccounted DEF AllAccounted
    <2>2. Moves(b)' = Moves(b) /\ Budget(b)' = Budget(b)
      BY <1>1 DEF Moves
    <2> QED BY <1>1, <1>2, <2>1, <2>2
  <1>5. HintKept'
    <2> SUFFICES ASSUME now < hintEnd PROVE HintKept'
      BY <1>1 DEF HintKept
    <2>1. windows'["weight"] = windows["weight"]
      BY <1>2, FullWindowStays, FourBudgets
    <2> QED BY <1>1, <2>1 DEF HintKept
  <1> QED BY <1>3, <1>4, <1>5 DEF AllAccounted

\* A call that is let go waits for nothing, so that each window it draws on has room for it.
LEMMA RoomForLetGo ==
    ASSUME LimiterInv, NEW call \in Calls, Wait(windows, call, now) = 0, NEW b \in Drawn(call)
    PROVE  Roll(windows[b], b, now).used + Cost(call, b) <= Budget(b)
  <1> DEFINE r == Roll(windows[b], b, now)
             cost == Asked(call, b)
  <1>1. /\ windows \in Windows /\ now \in Nat /\ b \in Range(Budgets) /\ windows[b] \in Window
    BY LimiterTypes, DrawnBudgets DEF LimiterInv
  <1>2. r \in Window /\ now < r.started + Span[b] /\ r = RollAll(windows, now)[b]
    BY <1>1, RollFacts, RollAllType
  <1>3. WaitAt(windows, call, now, b) = 0
    BY <1>1, WaitIsLongest, WaitAtType
  <1>4. /\ cost \in Nat /\ Cost(call, b) \in Nat
        /\ cost - Cost(call, b) = Limit[b] - Budget(b)
    BY CostFits
  <1>5. /\ r.used \in Nat /\ r.started \in Nat /\ Span[b] \in Nat /\ Limit[b] \in Nat
        /\ Budget(b) \in Nat
    BY <1>1, <1>2, LimitsPositive, BudgetType DEF Window
  <1>6. WaitFor(r, b, cost, now) = 0
    BY <1>2, <1>3 DEF WaitAt
  <1> HIDE DEF r, cost
  <1>7. r.used + cost <= Limit[b]
    <2> SUFFICES ASSUME r.used + cost > Limit[b] PROVE FALSE
      BY <1>4, <1>5
    <2>1. WaitFor(r, b, cost, now) = IF now < r.started + Span[b] THEN r.started + Span[b] - now ELSE 0
      BY <1>1, <1>2, <1>4, WaitForType
    <2> QED BY <1>1, <1>2, <1>5, <1>6, <2>1
  <1>8. r.used + Cost(call, b) <= Budget(b)
    BY <1>4, <1>5, <1>7
  <1> QED BY <1>8 DEF r

LEMMA SendStep ==
    ASSUME LimiterInv, NEW call \in Calls, SendCall(call)
    PROVE  LimiterInv'
  <1> USE DEF LimiterInv
  <1>1. /\ windows \in Windows /\ now \in Nat /\ \A b \in Range(Budgets) : windows[b] \in Window
        /\ \A b \in Range(Budgets) : spent[b] \in [1..Span[b] -> Nat] /\ Moves(b) \in [1..Span[b] -> Nat]
    BY LimiterTypes
  <1>2. /\ windows' = Charged(windows, call, now)
        /\ spent' = [b \in Range(Budgets) |->
                       IF b \in Drawn(call) THEN More(spent[b], Cost(call, b)) ELSE spent[b]]
        /\ UNCHANGED <<now, foreign, hintEnd, hints>>
    BY DEF SendCall
  <1>3. ASSUME NEW b \in Range(Budgets)
        PROVE  /\ Roll(windows[b], b, now) \in Window
               /\ windows'[b] = IF b \in Drawn(call)
                                THEN Charge(Roll(windows[b], b, now), Cost(call, b))
                                ELSE Roll(windows[b], b, now)
               /\ windows'[b] \in Window
               /\ spent'[b] \in [1..Span[b] -> Nat]
    <2>1. Roll(windows[b], b, now) \in Window
      BY <1>1, RollFacts
    <2>2. windows'[b] = IF b \in Drawn(call) THEN Charge(Roll(windows[b], b, now), Cost(call, b))
                                             ELSE Roll(windows[b], b, now)
      BY <1>1, <1>2, RollAllType DEF Charged, Windows
    <2>3. b \in Drawn(call) => Cost(call, b) \in Nat
      BY CostFits
    <2>4. windows'[b] \in Window
      BY <2>1, <2>2, <2>3 DEF Charge, Window
    <2>5. spent'[b] \in [1..Span[b] -> Nat]
      <3>1. CASE b \in Drawn(call)
        <4>1. spent'[b] = More(spent[b], Cost(call, b))
          BY <1>2, <3>1
        <4>2. spent[b] \in [1..Span[b] -> Nat] /\ Cost(call, b) \in Nat /\ Span[b] \in Nat
          BY <1>1, <2>3, <3>1, LimitsPositive
        <4>3. More(spent[b], Cost(call, b)) \in [1..Span[b] -> Nat]
          BY <4>2, HistoryTypes
        <4> QED BY <4>1, <4>3
      <3>2. CASE b \notin Drawn(call)
        BY <1>1, <1>2, <3>2
      <3> QED BY <3>1, <3>2
    <2> QED BY <2>1, <2>2, <2>4, <2>5
  <1>4. windows' \in Windows
    <2>1. DOMAIN windows' = Range(Budgets) /\ windows' = [b \in Range(Budgets) |-> windows'[b]]
      BY <1>1, <1>2 DEF Charged, Windows
    <2> QED BY <1>3, <2>1 DEF Windows
  <1>5. count' \in 0..Limit["weight"]
        /\ replies' \subseteq [kind : {"Ok"}, used : 0..Limit["weight"]]
                           \cup [kind : {"RateLimited"}, hint : 0..Span["weight"]]
    <2>1. PICK answer \in Answers(call.weight) :
            /\ count' = IF answer.kind = "Ok" THEN answer.used ELSE count
            /\ replies' = replies \/ replies' = replies \cup {answer}
      BY DEF SendCall
    <2>2. /\ call.weight \in Nat /\ Limit["weight"] \in Nat /\ Span["weight"] \in Nat
          /\ VenueLeft(now) \in 0..Span["weight"]
      <3>1. call.weight \in Nat
        BY RateLimiterAssumption
      <3>2. Limit["weight"] \in Nat /\ Span["weight"] \in Nat
        BY LimitsPositive, FourBudgets
      <3>3. VenueLeft(now) \in 1..Span["weight"]
        BY <1>1, VenueLeftType
      <3> QED BY <3>1, <3>2, <3>3
    <2>3. \/ answer \in [kind : {"Ok"}, used : 0..Limit["weight"]]
          \/ answer \in [kind : {"RateLimited"}, hint : 0..Span["weight"]]
      <3>1. CASE count + call.weight <= Limit["weight"]
        BY <2>1, <2>2, <3>1 DEF Answers, LimiterTypeOK
      <3>2. CASE ~(count + call.weight <= Limit["weight"])
        BY <2>1, <2>2, <3>2 DEF Answers
      <3> QED BY <3>1, <3>2
    <2> QED BY <2>1, <2>3 DEF LimiterTypeOK
  <1>6. LimiterTypeOK'
    BY <1>2, <1>3, <1>4, <1>5 DEF LimiterTypeOK, Windows, Window
  <1>7. ASSUME NEW b \in Range(Budgets)
        PROVE  Accounted(windows[b], spent[b], Moves(b), Budget(b), Span[b], now)'
    <2>1. Moves(b)' = Moves(b) /\ Budget(b)' = Budget(b)
      BY <1>2 DEF Moves
    <2>2. Accounted(Roll(windows[b], b, now), spent[b], Moves(b), Budget(b), Span[b], now)
      BY <1>1, BudgetType, RollAccounted DEF AllAccounted
    <2>3. CASE b \in Drawn(call)
      <3>1. /\ now < Roll(windows[b], b, now).started + Span[b]
            /\ Roll(windows[b], b, now).used + Cost(call, b) <= Budget(b)
            /\ Cost(call, b) \in Nat /\ Span[b] \in Nat /\ Budget(b) \in Nat
        BY <1>1, <2>3, RollFacts, RoomForLetGo, CostFits, LimitsPositive, BudgetType DEF SendCall
      <3>2. Accounted(Charge(Roll(windows[b], b, now), Cost(call, b)), More(spent[b], Cost(call, b)),
                      Moves(b), Budget(b), Span[b], now)
        BY <1>1, <1>3, <2>2, <3>1, ChargeAccounted
      <3>3. spent'[b] = More(spent[b], Cost(call, b))
        BY <1>2, <2>3
      <3> QED BY <1>2, <1>3, <2>1, <2>3, <3>2, <3>3
    <2>4. CASE b \notin Drawn(call)
      BY <1>2, <1>3, <2>1, <2>2, <2>4
    <2> QED BY <2>3, <2>4
  <1>8. ~(now < hintEnd)
    <2> SUFFICES ASSUME now < hintEnd PROVE FALSE
      OBVIOUS
    <2>1. Wait(windows, call, now) > 0 /\ Wait(windows, call, now) = 0
      BY WaitsForHint DEF SendCall
    <2> QED BY <2>1
  <1>9. HintKept'
    BY <1>2, <1>8 DEF HintKept
  <1> QED BY <1>6, <1>7, <1>9 DEF AllAccounted

\* What a reply tells.
LEMMA HearStep ==
    ASSUME LimiterInv, NEW reply \in replies, Hear(reply)
    PROVE  LimiterInv'
  <1> USE DEF LimiterInv
  <1>1. /\ windows \in Windows /\ now \in Nat /\ \A b \in Range(Budgets) : windows[b] \in Window
        /\ \A b \in Range(Budgets) : spent[b] \in [1..Span[b] -> Nat] /\ Moves(b) \in [1..Span[b] -> Nat]
    BY LimiterTypes
  <1>2. replies' = replies \ {reply} /\ UNCHANGED <<now, count, foreign, spent>>
    BY DEF Hear
  <1>3. /\ "weight" \in Range(Budgets)
        /\ Limit["weight"] \in Nat /\ Span["weight"] \in Nat /\ Span["weight"] > 0
        /\ Budget("weight") \in Nat /\ Budget("weight") <= Limit["weight"]
    BY FourBudgets, LimitsPositive, BudgetType
  <1>4. \/ reply \in [kind : {"Ok"}, used : 0..Limit["weight"]]
        \/ reply \in [kind : {"RateLimited"}, hint : 0..Span["weight"]]
    BY DEF LimiterTypeOK
  <1>5. windows["weight"] \in Window /\ hints \in [1..Span["weight"] -> Nat] /\ Moves("weight") = hints
        /\ hintEnd \in Nat
    BY <1>1, <1>3 DEF LimiterTypeOK, Moves
  <1>6. CASE reply.kind = "Ok"
    <2> DEFINE v == [Roll(windows["weight"], "weight", now) EXCEPT !.used = Max({@, reply.used})]
    <2>1. windows' = ObserveUsed(windows, reply.used, now) /\ UNCHANGED <<hintEnd, hints>>
      BY <1>6 DEF Hear
    <2>2. reply.used \in Nat
      BY <1>3, <1>4, <1>6
    <2>3. RollAll(windows, now) \in Windows
          /\ \A b \in Range(Budgets) : RollAll(windows, now)[b] = Roll(windows[b], b, now)
                                        /\ Roll(windows[b], b, now) \in Window
      BY <1>1, RollAllType, RollFacts
    <2>4. windows' = [RollAll(windows, now) EXCEPT !["weight"] = v]
      BY <1>3, <2>1, <2>3 DEF ObserveUsed, Windows
    <2>5. PICK r \in Window : r = Roll(windows["weight"], "weight", now)
      BY <1>3, <2>3
    <2>6. v = [r EXCEPT !.used = IF r.used > reply.used THEN r.used ELSE reply.used]
      BY <2>2, <2>5, MaxOfTwo DEF Window
    <2>7. v \in Window /\ v.started = r.started /\ r.used <= v.used
      BY <2>2, <2>6 DEF Window
    <2> HIDE DEF v
    <2>8. windows' \in Windows /\ windows'["weight"] = v
          /\ \A b \in Range(Budgets) : b # "weight" => windows'[b] = Roll(windows[b], b, now)
      BY <1>3, <2>3, <2>4, <2>7 DEF Windows
    <2>9. LimiterTypeOK'
      BY <1>2, <2>1, <2>8 DEF LimiterTypeOK, Windows, Window
    <2>10. ASSUME NEW b \in Range(Budgets)
           PROVE  Accounted(windows[b], spent[b], Moves(b), Budget(b), Span[b], now)'
      <3>1. Accounted(Roll(windows[b], b, now), spent[b], Moves(b), Budget(b), Span[b], now)
        BY <1>1, BudgetType, RollAccounted DEF AllAccounted
      <3>2. Moves(b)' = Moves(b) /\ Budget(b)' = Budget(b)
        BY <2>1 DEF Moves
      <3>3. CASE b = "weight"
        <4>1. Accounted(r, spent[b], Moves(b), Budget(b), Span[b], now)
          BY <2>5, <3>1, <3>3
        <4>2. Accounted(v, spent[b], Moves(b), Budget(b), Span[b], now)
          BY <1>1, <1>3, <2>5, <2>7, <3>3, <4>1, RaiseAccounted
        <4> QED BY <1>2, <2>8, <3>2, <3>3, <4>2
      <3>4. CASE b # "weight"
        BY <1>2, <2>8, <3>1, <3>2, <3>4
      <3> QED BY <3>3, <3>4
    <2>11. HintKept'
      <3> SUFFICES ASSUME now < hintEnd PROVE HintKept'
        BY <1>2, <2>1 DEF HintKept
      <3>1. r = windows["weight"]
        BY <2>5, FullWindowStays
      <3>2. r.used \in Nat /\ v.used \in Nat
        BY <2>5, <2>7 DEF Window
      <3> QED BY <1>2, <1>3, <2>1, <2>7, <2>8, <3>1, <3>2 DEF HintKept
    <2> QED BY <2>9, <2>10, <2>11 DEF AllAccounted
  <1>7. ASSUME NEW v \in Window, windows' = [windows EXCEPT !["weight"] = v],
               v.used = Limit["weight"], hintEnd' \in Nat, hints' \in [1..Span["weight"] -> Nat],
               Accounted(v, spent["weight"], hints', Budget("weight"), Span["weight"], now), HintKept'
        PROVE  LimiterInv'
    <2>1. windows' \in Windows /\ windows'["weight"] = v
          /\ \A b \in Range(Budgets) : b # "weight" => windows'[b] = windows[b]
      BY <1>1, <1>3, <1>7 DEF Windows
    <2>2. LimiterTypeOK'
      BY <1>2, <1>7, <2>1 DEF LimiterTypeOK, Windows, Window
    <2>3. ASSUME NEW b \in Range(Budgets)
          PROVE  Accounted(windows[b], spent[b], Moves(b), Budget(b), Span[b], now)'
      <3>1. CASE b = "weight"
        BY <1>2, <1>7, <2>1, <3>1 DEF Moves, Budget
      <3>2. CASE b # "weight"
        BY <1>2, <2>1, <3>2 DEF AllAccounted, Moves, Budget
      <3> QED BY <3>1, <3>2
    <2> QED BY <1>7, <2>2, <2>3 DEF AllAccounted
  <1>8. CASE reply.kind = "RateLimited" /\ reply.hint = 0
    <2> DEFINE v == [windows["weight"] EXCEPT !.used = Limit["weight"]]
    <2>1. windows' = ObserveRejection(windows) /\ UNCHANGED <<hintEnd, hints>>
      BY <1>8 DEF Hear
    <2>2. windows' = [windows EXCEPT !["weight"] = v]
      BY <1>1, <1>3, <2>1 DEF ObserveRejection, Windows
    <2>3. v \in Window /\ v.used = Limit["weight"] /\ v.started = windows["weight"].started
      BY <1>3, <1>5 DEF Window
    <2> HIDE DEF v
    <2>4. Accounted(v, spent["weight"], hints, Budget("weight"), Span["weight"], now)
      BY <1>1, <1>3, <1>5, <2>3, RaiseAccounted DEF AllAccounted
    <2>5. HintKept'
      BY <1>1, <1>2, <1>3, <2>1, <2>2, <2>3 DEF HintKept, Windows
    <2> QED BY <1>5, <1>7, <2>1, <2>2, <2>3, <2>4, <2>5
  <1>9. CASE reply.kind = "RateLimited" /\ reply.hint # 0
    <2> DEFINE starts == now + reply.hint - Span["weight"]
               v == [used |-> Limit["weight"], started |-> IF starts >= 0 THEN starts ELSE now]
    <2>1. /\ windows' = ObserveRejectionUntil(windows, reply.hint, now)
          /\ hintEnd' = now + reply.hint /\ hints' = More(hints, 1)
      BY <1>9 DEF Hear
    <2>2. windows' = [windows EXCEPT !["weight"] = v]
      BY <2>1 DEF ObserveRejectionUntil
    <2>3. reply.hint \in Nat /\ reply.hint >= 1 /\ reply.hint <= Span["weight"]
      BY <1>3, <1>4, <1>9
    <2>4. starts \in Int /\ starts <= now /\ now < starts + Span["weight"]
          /\ hintEnd' = starts + Span["weight"]
      BY <1>1, <1>3, <2>1, <2>3
    <2>5. v \in Window /\ v.used = Limit["weight"] /\ v.started <= now /\ now < v.started + Span["weight"]
      <3> HIDE DEF starts
      <3> QED BY <1>1, <1>3, <2>4 DEF Window
    <2>6. hintEnd' <= v.started + Span["weight"] /\ hintEnd' \in Nat
      BY <1>1, <1>3, <2>1, <2>3
    <2> HIDE DEF v, starts
    <2>7. hints' \in [1..Span["weight"] -> Nat]
      BY <1>3, <1>5, <2>1, HistoryTypes
    <2>8. Accounted(v, spent["weight"], hints', Budget("weight"), Span["weight"], now)
      <3>1. Accounted(windows["weight"], spent["weight"], hints, Budget("weight"), Span["weight"], now)
        BY <1>3, <1>5 DEF AllAccounted
      <3> QED BY <1>1, <1>3, <1>5, <2>1, <2>5, <3>1, MoveAccounted
    <2>9. HintKept'
      BY <1>1, <1>2, <1>3, <2>2, <2>5, <2>6 DEF HintKept, Windows
    <2> QED BY <1>7, <2>2, <2>5, <2>6, <2>7, <2>8, <2>9
  <1> QED BY <1>4, <1>6, <1>8, <1>9

LEMMA TickStep ==
    ASSUME LimiterInv, Tick
    PROVE  LimiterInv'
  <1> USE DEF LimiterInv
  <1>1. /\ now \in Nat /\ \A b \in Range(Budgets) : windows[b] \in Window
        /\ \A b \in Range(Budgets) : spent[b] \in [1..Span[b] -> Nat] /\ Moves(b) \in [1..Span[b] -> Nat]
    BY LimiterTypes
  <1>2. /\ now' = now + 1 /\ UNCHANGED <<windows, replies, hintEnd>>
        /\ count' = count \/ count' = 0
        /\ foreign' = foreign \/ foreign' = 0
        /\ spent' = [b \in Range(Budgets) |-> Later(spent[b])]
        /\ hints' = Later(hints)
    BY DEF Tick
  <1>3. \A b \in Range(Budgets) : Span[b] \in Nat /\ Limit[b] \in Nat /\ Budget(b) \in Nat
    BY LimitsPositive, BudgetType
  <1>4. LimiterTypeOK'
    <2>1. hints' \in [1..Span["weight"] -> Nat]
      BY <1>2, <1>3, FourBudgets, HistoryTypes DEF LimiterTypeOK
    <2>2. \A b \in Range(Budgets) : spent'[b] \in [1..Span[b] -> Nat]
      BY <1>1, <1>2, <1>3, HistoryTypes
    <2>3. count' \in 0..Limit["weight"] /\ foreign' \in Nat /\ now' \in Nat
      <3>1. Limit["weight"] \in Nat /\ count \in 0..Limit["weight"] /\ foreign \in Nat
        BY <1>3, FourBudgets DEF LimiterTypeOK
      <3> QED BY <1>1, <1>2, <3>1
    <2> QED BY <1>2, <2>1, <2>2, <2>3 DEF LimiterTypeOK
  <1>5. ASSUME NEW b \in Range(Budgets)
        PROVE  Accounted(windows[b], spent[b], Moves(b), Budget(b), Span[b], now)'
    <2>1. Accounted(windows[b], Later(spent[b]), Later(Moves(b)), Budget(b), Span[b], now + 1)
      BY <1>1, <1>3, TickAccounted DEF AllAccounted
    <2>2. Moves(b)' = Later(Moves(b))
      <3>1. CASE b = "weight"
        BY <1>2, <3>1 DEF Moves
      <3>2. CASE b # "weight"
        BY <1>3, <3>2 DEF Moves, Later
      <3> QED BY <3>1, <3>2
    <2>3. spent'[b] = Later(spent[b]) /\ Budget(b)' = Budget(b)
      BY <1>2
    <2> QED BY <1>2, <2>1, <2>2, <2>3
  <1>6. HintKept'
    BY <1>1, <1>2 DEF HintKept, LimiterTypeOK
  <1> QED BY <1>4, <1>5, <1>6 DEF AllAccounted

\* A step of the venue that the limiter does not see.
LEMMA SameLimiter ==
    ASSUME LimiterInv, count' \in 0..Limit["weight"], foreign' \in Nat,
           UNCHANGED <<now, windows, replies, spent, hintEnd, hints>>
    PROVE  LimiterInv'
  <1>1. LimiterTypeOK'
    BY DEF LimiterInv, LimiterTypeOK
  <1>2. ASSUME NEW b \in Range(Budgets)
        PROVE  Accounted(windows[b], spent[b], Moves(b), Budget(b), Span[b], now)'
    <2>1. Accounted(windows[b], spent[b], Moves(b), Budget(b), Span[b], now)
      BY DEF LimiterInv, AllAccounted
    <2>2. Moves(b)' = Moves(b) /\ Budget(b)' = Budget(b)
      BY DEF Moves
    <2> QED BY <2>1, <2>2
  <1>3. HintKept'
    BY DEF LimiterInv, HintKept
  <1> QED BY <1>1, <1>2, <1>3 DEF LimiterInv, AllAccounted

LEMMA LimiterKept ==
    ASSUME LimiterInv, [LimiterNext]_limiterVars
    PROVE  LimiterInv'
  <1>1. ASSUME UNCHANGED limiterVars PROVE LimiterInv'
    <2>1. UNCHANGED <<count, foreign>> /\ UNCHANGED <<now, windows, replies, spent, hintEnd, hints>>
      BY <1>1 DEF limiterVars
    <2>2. count' \in 0..Limit["weight"] /\ foreign' \in Nat
      BY <2>1 DEF LimiterInv, LimiterTypeOK
    <2> QED BY <2>1, <2>2, SameLimiter
  <1>2. ASSUME NEW call \in Calls, Unsupported(call) PROVE LimiterInv'
    BY <1>1, <1>2 DEF Unsupported
  <1>3. ASSUME NEW weight \in Others, Other(weight) PROVE LimiterInv'
    <2>1. /\ weight \in Nat /\ Limit["weight"] \in Nat /\ count \in 0..Limit["weight"]
          /\ foreign \in Nat
      BY RateLimiterAssumption, LimitsPositive, FourBudgets DEF LimiterInv, LimiterTypeOK
    <2>2. /\ count + weight <= Limit["weight"] /\ count' = count + weight
          /\ foreign' = foreign + weight
          /\ UNCHANGED <<now, windows, replies, spent, hintEnd, hints>>
      BY <1>3 DEF Other
    <2>3. count' \in 0..Limit["weight"] /\ foreign' \in Nat
      BY <2>1, <2>2
    <2> QED BY <2>2, <2>3, SameLimiter
  <1>4. CASE LimiterNext
    BY <1>2, <1>3, <1>4, DeferStep, SendStep, HearStep, TickStep DEF LimiterNext
  <1> QED BY <1>1, <1>4

-----------------------------------------------------------------------------
(* What the venue counts, while the limiter's window falls together with   *)
(* the venue's.                                                            *)

OwnWindow == Roll(windows["weight"], "weight", now)

\* The limiter has counted what the venue has, but for what others used.
Counted == InPhase => count <= OwnWindow.used + foreign

\* The quotient is the only one.
LEMMA OneQuotient ==
    ASSUME NEW n \in Nat, NEW d \in Nat, d > 0, NEW q \in Nat, d * q <= n, n < d * q + d
    PROVE  n \div d = q
  <1> DEFINE p == n \div d
  <1>1. p \in Nat /\ d * p <= n /\ n < d * p + d
    BY WholeSpans
  <1> HIDE DEF p
  <1>2. CASE p < q
    <2>1. d * (p + 1) <= d * q
      BY <1>1, <1>2
    <2> QED BY <1>1, <2>1
  <1>3. CASE p > q
    <2>1. d * (q + 1) <= d * p
      BY <1>1, <1>3
    <2> QED BY <1>1, <2>1
  <1>4. p = q
    BY <1>1, <1>2, <1>3
  <1> QED BY <1>4 DEF p

\* The quotients of a number and of the next: the same, if the next is not a multiple.
LEMMA NextQuotient ==
    ASSUME NEW n \in Nat, NEW d \in Nat, d > 0
    PROVE  \E q, p \in Nat :
             /\ q = n \div d /\ p = (n + 1) \div d
             /\ d * q <= n /\ n < d * q + d
             /\ d * p <= n + 1 /\ n + 1 < d * p + d
             /\ d * p <= n => p = q
  <1> DEFINE q == n \div d
             p == (n + 1) \div d
             m == n + 1
  <1>1. q \in Nat /\ d * q <= n /\ n < d * q + d
    BY WholeSpans
  <1>2. m \in Nat
    OBVIOUS
  <1>3. p \in Nat /\ d * p <= m /\ m < d * p + d
    BY <1>2, WholeSpans
  <1>4. ASSUME d * p <= n PROVE p = q
    <2>1. n < d * p + d
      BY <1>3, <1>2
    <2> HIDE DEF p
    <2>2. n \div d = p
      BY <1>3, <1>4, <2>1, OneQuotient
    <2> QED BY <2>2
  <1> HIDE DEF q, p
  <1> QED BY <1>1, <1>3, <1>4 DEF q, p

\* From one tick to the next a window stays as it is, or begins with the tick.
LEMMA RollTick ==
    ASSUME NEW b \in Range(Budgets), NEW w \in Window, NEW t \in Nat, w.started <= t
    PROVE  /\ Roll(w, b, t).started <= t
           /\ \/ Roll(w, b, t + 1) = Roll(w, b, t)
              \/ Roll(w, b, t + 1) = [used |-> 0, started |-> t + 1]
  <1>1. Span[b] \in Nat /\ Span[b] > 0 /\ w.started \in Nat
    BY LimitsPositive DEF Window
  <1>2. PICK L \in Nat : L = Span[b] /\ L > 0
    BY <1>1
  <1>3. PICK n \in Nat : n = t - w.started
    BY <1>1
  <1>4. PICK q \in Nat, p \in Nat :
          /\ q = n \div L /\ p = (n + 1) \div L
          /\ L * q <= n /\ n < L * q + L
          /\ L * p <= n + 1 /\ n + 1 < L * p + L
          /\ L * p <= n => p = q
    BY <1>2, NextQuotient
  <1>6. /\ Roll(w, b, t) = IF n >= L THEN [used |-> 0, started |-> w.started + L * q] ELSE w
        /\ Roll(w, b, t + 1) = IF n + 1 >= L THEN [used |-> 0, started |-> w.started + L * p] ELSE w
    <2>1. (t + 1) - w.started = n + 1
      BY <1>1, <1>3
    <2> QED BY <1>2, <1>3, <1>4, <2>1 DEF Roll
  <1>7. L * q \in Nat /\ L * p \in Nat
    BY <1>2, <1>4
  <1>8. p = 0 \/ L * p >= L
    BY <1>2, <1>4
  <1>9. PICK x \in Nat, y \in Nat : x = L * q /\ y = L * p
    BY <1>7
  <1>10. Roll(w, b, t).started <= t
    BY <1>1, <1>3, <1>4, <1>6, <1>9
  <1>11. CASE y <= n
    <2>1. x = y
      BY <1>4, <1>9, <1>11
    <2>2. n + 1 >= L => n >= L
      BY <1>2, <1>4, <1>8, <1>9, <1>11
    <2> QED BY <1>6, <1>9, <1>10, <2>1, <2>2
  <1>12. CASE y > n
    <2>1. y = n + 1 /\ n + 1 >= L
      BY <1>2, <1>4, <1>8, <1>9, <1>12
    <2>2. w.started + y = t + 1
      BY <1>1, <1>3, <2>1
    <2> QED BY <1>6, <1>9, <1>10, <2>1, <2>2
  <1> QED BY <1>9, <1>11, <1>12

\* So does the venue's.
LEMMA VenueTick ==
    ASSUME NEW t \in Nat
    PROVE  /\ VenueStart(t) <= t /\ VenueStart(t) \in Int
           /\ \/ VenueStart(t + 1) = VenueStart(t) /\ VenueWindow(t + 1) = VenueWindow(t)
              \/ VenueStart(t + 1) = t + 1 /\ VenueWindow(t + 1) # VenueWindow(t)
  <1>1. PICK L \in Nat : L = Span["weight"] /\ L > 0
    BY LimitsPositive, FourBudgets
  <1>2. PICK n \in Nat : n = t + Phase
    BY RateLimiterAssumption
  <1>3. PICK q \in Nat, p \in Nat :
          /\ q = n \div L /\ p = (n + 1) \div L
          /\ L * q <= n /\ n < L * q + L
          /\ L * p <= n + 1 /\ n + 1 < L * p + L
          /\ L * p <= n => p = q
    BY <1>1, NextQuotient
  <1>4. Phase \in Nat /\ (t + 1) + Phase = n + 1
    BY <1>2, RateLimiterAssumption
  <1>5. VenueWindow(t) = q /\ VenueWindow(t + 1) = p
    BY <1>1, <1>2, <1>3, <1>4 DEF VenueWindow
  <1>6. VenueStart(t) = L * q - Phase /\ VenueStart(t + 1) = L * p - Phase
    BY <1>1, <1>5 DEF VenueStart
  <1>7. L * q \in Nat /\ L * p \in Nat
    BY <1>1, <1>3
  <1>8. PICK x \in Nat, y \in Nat : x = L * q /\ y = L * p
    BY <1>7
  <1>9. VenueStart(t) = x - Phase /\ VenueStart(t + 1) = y - Phase /\ x <= n
    BY <1>3, <1>6, <1>8
  <1>10. VenueStart(t) <= t /\ VenueStart(t) \in Int
    BY <1>2, <1>4, <1>9
  <1>11. CASE y <= n
    BY <1>3, <1>5, <1>6, <1>8, <1>10, <1>11
  <1>12. CASE y > n
    <2>1. y = n + 1
      BY <1>3, <1>8, <1>12
    <2>2. p # q
      BY <1>3, <1>8, <1>12
    <2>3. VenueStart(t + 1) = t + 1
      BY <1>2, <1>4, <1>9, <2>1
    <2> QED BY <1>5, <1>10, <2>2, <2>3
  <1> QED BY <1>8, <1>11, <1>12

\* What the proofs below need of the types.
LEMMA CountTypes ==
    ASSUME LimiterInv
    PROVE  /\ now \in Nat /\ count \in Nat /\ count <= Limit["weight"] /\ foreign \in Nat
           /\ "weight" \in Range(Budgets) /\ Limit["weight"] \in Nat
           /\ windows \in Windows /\ windows["weight"] \in Window
           /\ OwnWindow \in Window /\ OwnWindow.used \in Nat
           /\ now < OwnWindow.started + Span["weight"]
           /\ VenueStart(now) \in Int /\ VenueStart(now) <= now
  <1>1. now \in Nat /\ windows \in Windows /\ \A b \in Range(Budgets) : windows[b] \in Window
    BY LimiterTypes DEF LimiterInv
  <1>2. "weight" \in Range(Budgets) /\ Limit["weight"] \in Nat
    BY FourBudgets, LimitsPositive
  <1>3. OwnWindow \in Window /\ now < OwnWindow.started + Span["weight"]
    BY <1>1, <1>2, RollFacts DEF OwnWindow
  <1>4. OwnWindow.used \in Nat
    BY <1>3 DEF Window
  <1>5. count \in Nat /\ count <= Limit["weight"] /\ foreign \in Nat
    BY <1>2 DEF LimiterInv, LimiterTypeOK
  <1> QED BY <1>1, <1>2, <1>3, <1>4, <1>5, VenueTick

\* A step in which no time passes and the limiter's window stays where it is, if it
\* counts there what the venue does.
LEMMA CountedHere ==
    ASSUME LimiterInv, Counted, now' = now, NEW n \in Nat,
           NEW v \in Window, v.started = OwnWindow.started, v.used >= OwnWindow.used + n,
           windows'["weight"] = v, count' \in Nat, foreign' \in Nat,
           count' - foreign' <= count - foreign + n
    PROVE  Counted'
  <1> SUFFICES ASSUME InPhase' PROVE count' <= OwnWindow'.used + foreign'
    BY DEF Counted
  <1>1. OwnWindow' = v
    BY CountTypes, RollFacts DEF OwnWindow
  <1>2. InPhase
    BY <1>1 DEF InPhase, OwnWindow, VenueStart, VenueWindow
  <1>3. count <= OwnWindow.used + foreign
    BY <1>2 DEF Counted
  <1>4. v.used \in Nat
    BY DEF Window
  <1> QED BY <1>1, <1>3, <1>4, CountTypes

\* A step in which no time passes and the limiter's window is full.
LEMMA CountedFull ==
    ASSUME LimiterInv, now' = now, count' = count, foreign' = foreign,
           NEW v \in Window, v.used = Limit["weight"], now < v.started + Span["weight"],
           windows'["weight"] = v
    PROVE  Counted'
  <1>1. OwnWindow' = v
    BY CountTypes, RollFacts DEF OwnWindow
  <1> QED BY <1>1, CountTypes DEF Counted

LEMMA CountedSend ==
    ASSUME LimiterInv, Counted, NEW call \in Calls, SendCall(call)
    PROVE  Counted'
  <1>1. /\ windows' = Charged(windows, call, now) /\ UNCHANGED <<now, foreign>>
        /\ \E answer \in Answers(call.weight) : count' = IF answer.kind = "Ok" THEN answer.used ELSE count
    BY DEF SendCall
  <1>2. call.weight \in Nat
    BY RateLimiterAssumption
  <1>3. windows'["weight"] = Charge(OwnWindow, call.weight)
    <2>1. "weight" \in DOMAIN windows /\ RollAll(windows, now)["weight"] = OwnWindow
      BY CountTypes, RollAllType DEF Windows, OwnWindow
    <2> QED BY <1>1, <2>1, DrawnBudgets DEF Charged, Cost
  <1>4. count' = count \/ count' = count + call.weight
    BY <1>1 DEF Answers
  <1> DEFINE v == [OwnWindow EXCEPT !.used = OwnWindow.used + call.weight]
  <1>5. v = Charge(OwnWindow, call.weight)
    BY DEF Charge
  <1>6. v \in Window /\ v.started = OwnWindow.started /\ v.used >= OwnWindow.used + call.weight
    BY <1>2, CountTypes DEF Window
  <1> HIDE DEF v
  <1>7. count' \in Nat /\ foreign' \in Nat /\ count' - foreign' <= count - foreign + call.weight
    BY <1>1, <1>2, <1>4, CountTypes
  <1> QED BY <1>1, <1>2, <1>3, <1>5, <1>6, <1>7, CountedHere

LEMMA CountedHear ==
    ASSUME LimiterInv, Counted, NEW reply \in replies, Hear(reply)
    PROVE  Counted'
  <1>1. UNCHANGED <<now, count, foreign>>
    BY DEF Hear
  <1>2. \/ reply \in [kind : {"Ok"}, used : 0..Limit["weight"]]
        \/ reply \in [kind : {"RateLimited"}, hint : 0..Span["weight"]]
    BY DEF LimiterInv, LimiterTypeOK
  <1>3. Span["weight"] \in Nat /\ Span["weight"] > 0
    BY CountTypes, LimitsPositive
  <1>4. CASE reply.kind = "Ok"
    <2> DEFINE v == [OwnWindow EXCEPT !.used = Max({@, reply.used})]
    <2>1. windows' = ObserveUsed(windows, reply.used, now)
      BY <1>4 DEF Hear
    <2>2. reply.used \in Nat
      BY <1>2, <1>4, CountTypes
    <2>3. RollAll(windows, now) \in Windows /\ RollAll(windows, now)["weight"] = OwnWindow
      BY CountTypes, RollAllType DEF OwnWindow
    <2>4. windows'["weight"] = v
      BY <2>1, <2>3, CountTypes DEF ObserveUsed, Windows
    <2>5. v = [OwnWindow EXCEPT !.used = IF OwnWindow.used > reply.used THEN OwnWindow.used ELSE reply.used]
      BY <2>2, CountTypes, MaxOfTwo DEF Window
    <2>6. v \in Window /\ v.started = OwnWindow.started /\ v.used >= OwnWindow.used + 0
      BY <2>2, <2>5, CountTypes DEF Window
    <2> HIDE DEF v
    <2>7. count' \in Nat /\ foreign' \in Nat /\ count' - foreign' <= count - foreign + 0
      BY <1>1, CountTypes
    <2> QED BY <1>1, <2>4, <2>6, <2>7, CountedHere
  <1>5. CASE reply.kind = "RateLimited" /\ reply.hint = 0
    <2> DEFINE w == windows["weight"]
               v == [w EXCEPT !.used = Limit["weight"]]
    <2>1. windows' = ObserveRejection(windows)
      BY <1>5 DEF Hear
    <2>2. windows'["weight"] = v
      BY <2>1, CountTypes DEF ObserveRejection, Windows
    <2>3. v \in Window /\ v.used = Limit["weight"] /\ v.started = w.started /\ w \in Window
      BY CountTypes DEF Window
    <2> HIDE DEF v
    <2>4. CASE now < v.started + Span["weight"]
      BY <1>1, <2>2, <2>3, <2>4, CountedFull
    <2>5. CASE ~(now < v.started + Span["weight"])
      <3>1. v.started \in Nat /\ now \in Nat
        BY <2>3, CountTypes DEF Window
      <3>2. now - w.started >= Span["weight"] /\ now - v.started >= Span["weight"]
        BY <1>3, <2>3, <2>5, <3>1
      <3>3. OwnWindow = [used |-> 0, started |-> w.started + Span["weight"] * ((now - w.started) \div Span["weight"])]
        BY <3>2 DEF OwnWindow, Roll
      <3>4. OwnWindow' = [used |-> 0, started |-> v.started + Span["weight"] * ((now - v.started) \div Span["weight"])]
        BY <1>1, <2>2, <3>2 DEF OwnWindow, Roll
      <3>5. OwnWindow' = OwnWindow
        BY <2>3, <3>3, <3>4
      <3>6. InPhase' = InPhase
        BY <1>1, <3>5 DEF InPhase, OwnWindow, VenueStart, VenueWindow
      <3> QED BY <1>1, <3>5, <3>6 DEF Counted
    <2> QED BY <2>4, <2>5
  <1>6. CASE reply.kind = "RateLimited" /\ reply.hint # 0
    <2> DEFINE starts == now + reply.hint - Span["weight"]
               v == [used |-> Limit["weight"], started |-> IF starts >= 0 THEN starts ELSE now]
    <2>1. windows' = ObserveRejectionUntil(windows, reply.hint, now)
      BY <1>6 DEF Hear
    <2>2. windows'["weight"] = v
      BY <2>1, CountTypes DEF ObserveRejectionUntil, Windows
    <2>3. reply.hint \in Nat /\ reply.hint >= 1
      BY <1>2, <1>3, <1>6
    <2>4. starts \in Int /\ now < starts + Span["weight"]
      BY <1>3, <2>3, CountTypes
    <2>5. v \in Window /\ v.used = Limit["weight"] /\ now < v.started + Span["weight"]
      <3> HIDE DEF starts
      <3> QED BY <1>3, <2>4, CountTypes DEF Window
    <2> HIDE DEF v, starts
    <2> QED BY <1>1, <2>2, <2>5, CountedFull
  <1> QED BY <1>2, <1>4, <1>5, <1>6

LEMMA CountedTick ==
    ASSUME LimiterInv, Counted, Tick
    PROVE  Counted'
  <1>1. /\ now' = now + 1 /\ windows' = windows
        /\ IF VenueWindow(now + 1) = VenueWindow(now)
           THEN UNCHANGED <<count, foreign>>
           ELSE count' = 0 /\ foreign' = 0
    BY DEF Tick
  <1>2. windows["weight"].started <= now
    BY CountTypes DEF LimiterInv, AllAccounted, Accounted
  <1>3. OwnWindow' = Roll(windows["weight"], "weight", now + 1)
    BY <1>1 DEF OwnWindow
  <1>4. OwnWindow' = OwnWindow \/ OwnWindow' = [used |-> 0, started |-> now + 1]
    BY <1>2, <1>3, CountTypes, RollTick DEF OwnWindow
  <1>5. OwnWindow'.used \in Nat
    BY <1>4, CountTypes
  <1>6. CASE VenueWindow(now + 1) # VenueWindow(now)
    BY <1>1, <1>5, <1>6 DEF Counted
  <1>7. CASE VenueWindow(now + 1) = VenueWindow(now)
    <2>1. VenueStart(now + 1) = VenueStart(now) /\ VenueStart(now) # now + 1
      BY <1>7, CountTypes, VenueTick
    <2>2. InPhase' <=> OwnWindow'.started = VenueStart(now)
      BY <1>1, <2>1 DEF InPhase, OwnWindow, VenueStart, VenueWindow
    <2>3. CASE OwnWindow' = OwnWindow
      BY <1>1, <1>7, <2>2, <2>3 DEF Counted, InPhase, OwnWindow
    <2>4. CASE OwnWindow' = [used |-> 0, started |-> now + 1]
      BY <2>1, <2>2, <2>4 DEF Counted
    <2> QED BY <1>4, <2>3, <2>4
  <1> QED BY <1>6, <1>7

\* A step of which the window sees nothing.
LEMMA CountedSame ==
    ASSUME LimiterInv, Counted, now' = now,
           windows' = windows \/ windows' = RollAll(windows, now),
           count' \in Nat, foreign' \in Nat, count' - foreign' <= count - foreign
    PROVE  Counted'
  <1>1. OwnWindow' = OwnWindow
    <2>1. CASE windows' = windows
      BY <2>1 DEF OwnWindow
    <2>2. CASE windows' = RollAll(windows, now)
      <3>1. windows'["weight"] = OwnWindow
        BY <2>2, CountTypes, RollAllType DEF OwnWindow
      <3>2. Roll(OwnWindow, "weight", now) = OwnWindow
        BY CountTypes, RollFacts
      <3>3. OwnWindow' = Roll(OwnWindow, "weight", now)
        BY <3>1 DEF OwnWindow
      <3> QED BY <3>2, <3>3
    <2> QED BY <2>1, <2>2
  <1>2. InPhase' = InPhase
    BY <1>1 DEF InPhase, OwnWindow, VenueStart, VenueWindow
  <1>3. InPhase => count' <= OwnWindow.used + foreign'
    BY CountTypes DEF Counted
  <1> QED BY <1>1, <1>2, <1>3 DEF Counted

LEMMA CountedNext ==
    ASSUME LimiterInv, Counted, [LimiterNext]_limiterVars
    PROVE  Counted'
  <1>1. ASSUME UNCHANGED limiterVars PROVE Counted'
    BY <1>1, CountTypes, CountedSame DEF limiterVars
  <1>2. ASSUME NEW call \in Calls, Unsupported(call) PROVE Counted'
    BY <1>1, <1>2 DEF Unsupported
  <1>3. ASSUME NEW call \in Calls, Defer(call) PROVE Counted'
    BY <1>3, CountTypes, CountedSame DEF Defer
  <1>4. ASSUME NEW weight \in Others, Other(weight) PROVE Counted'
    <2>1. weight \in Nat
      BY RateLimiterAssumption
    <2>2. /\ count' = count + weight /\ foreign' = foreign + weight
          /\ UNCHANGED <<now, windows>>
      BY <1>4 DEF Other
    <2>3. count' \in Nat /\ foreign' \in Nat /\ count' - foreign' <= count - foreign
      BY <2>1, <2>2, CountTypes
    <2> QED BY <2>2, <2>3, CountedSame
  <1>5. CASE LimiterNext
    BY <1>2, <1>3, <1>4, <1>5, CountedSend, CountedHear, CountedTick DEF LimiterNext
  <1> QED BY <1>1, <1>5

\* The venue accepts what the limiter lets go.
LEMMA CountedAccepts ==
    ASSUME LimiterInv, Counted
    PROVE  NothingRefused
  <1> SUFFICES ASSUME InPhase, foreign <= Headroom, NEW call \in Calls, LetGo(call)
               PROVE  Accepted(call)
    BY DEF NothingRefused
  <1>1. OwnWindow.used + call.weight <= Limit["weight"] - Headroom
    BY RoomForLetGo, DrawnBudgets DEF LetGo, OwnWindow, Cost, Budget
  <1>2. count <= OwnWindow.used + foreign
    BY DEF Counted
  <1>3. call.weight \in Nat /\ Headroom \in Nat
    BY RateLimiterAssumption, HeadroomFits
  <1> QED BY <1>1, <1>2, <1>3, CountTypes DEF Accepted

-----------------------------------------------------------------------------
(* The theorems.                                                           *)

LEMMA LimiterInvariant == LimiterSpec => []LimiterInv
  <1>1. LimiterInit => LimiterInv
    BY LimiterStarts
  <1>2. LimiterInv /\ [LimiterNext]_limiterVars => LimiterInv'
    BY LimiterKept
  <1> QED BY <1>1, <1>2, PTL DEF LimiterSpec

\* The limiter's windows and the histories have their types.
THEOREM LimiterTypeCorrect == LimiterSpec => []LimiterTypeOK
  <1>1. LimiterInv => LimiterTypeOK
    BY DEF LimiterInv
  <1> QED BY <1>1, LimiterInvariant, PTL

LEMMA InvStretch ==
    ASSUME LimiterInv
    PROVE  StretchBounded
  <1> SUFFICES ASSUME NEW b \in Range(Budgets)
               PROVE  spent[b][Span[b]] <=
                        (2 + (IF b = "weight" THEN hints[Span[b]] ELSE 0)) * Budget(b)
    BY DEF StretchBounded, Budget
  <1> DEFINE B == Budget(b)
             L == Span[b]
             h == Moves(b)
             u == windows[b].used
  <1>1. L \in Nat /\ L > 0 /\ L \in 1..L /\ B \in Nat /\ u \in Nat
        /\ spent[b] \in [1..L -> Nat] /\ h \in [1..L -> Nat]
    BY LimitsPositive, BudgetType, LimiterTypes DEF LimiterInv, Window
  <1>2. spent[b][L] <= Lesser(u, B) + B + Share(h, L, B)
    BY <1>1 DEF LimiterInv, AllAccounted, Accounted, Within
  <1>3. h[L] = IF b = "weight" THEN hints[L] ELSE 0
    BY <1>1 DEF Moves
  <1> HIDE DEF B, L, h, u
  <1>4. Lesser(u, B) <= B /\ Lesser(u, B) \in Nat
    BY <1>1 DEF Lesser
  <1>5. h[L] \in Nat /\ spent[b][L] \in Nat /\ Share(h, L, B) \in Nat
    BY <1>1, ShareType
  <1>6. (2 + h[L]) * B = B + B + Share(h, L, B)
    <2>1. ASSUME NEW n \in Nat PROVE (2 + n) * B = B + B + n * B
      BY <1>1
    <2> QED BY <1>5, <2>1 DEF Share
  <1>7. spent[b][L] <= B + B + Share(h, L, B)
    BY <1>1, <1>2, <1>4, <1>5
  <1> QED BY <1>3, <1>6, <1>7 DEF B, L

\* The venue accepts every call that the limiter lets go, while their windows fall together
\* and others stay within the headroom (limits.rs: nothing is sent that was going to be
\* rejected).
THEOREM NothingIsRefused == LimiterSpec => []NothingRefused
  <1>1. LimiterInit => Counted
    <2> SUFFICES ASSUME LimiterInit PROVE Counted
      OBVIOUS
    <2>1. LimiterInv
      BY LimiterStarts
    <2> QED BY <2>1, CountTypes DEF LimiterInit, Counted
  <1>2. LimiterInv /\ Counted /\ [LimiterNext]_limiterVars => Counted'
    BY CountedNext
  <1>3. LimiterInv /\ Counted => NothingRefused
    BY CountedAccepts
  <1> QED BY <1>1, <1>2, <1>3, LimiterInvariant, PTL DEF LimiterSpec

\* Wherever the venue's window begins, no stretch of a window's length sees more than two
\* budgets, and one more for each hint that moved the window meanwhile: for any limits,
\* spans and headroom, any clocks, and whatever is heard in whatever order.
THEOREM StretchesBounded == LimiterSpec => []StretchBounded
  <1>1. LimiterInv => StretchBounded
    BY InvStretch
  <1> QED BY <1>1, LimiterInvariant, PTL

\* While a window that is too full lasts, a call waits for it; when it ends, it does not.
LEMMA WaitAtMoves ==
    ASSUME NEW ws \in Windows, NEW call \in Calls, NEW t \in Nat, NEW b \in Drawn(call),
           \A c \in Range(Budgets) : ws[c].started <= t
    PROVE  /\ \A s \in Nat : t <= s /\ s < t + WaitAt(ws, call, t, b) => WaitAt(ws, call, s, b) > 0
           /\ Asked(call, b) <= Limit[b] =>
                \A s \in Nat : t + WaitAt(ws, call, t, b) <= s => WaitAt(ws, call, s, b) = 0
  <1> DEFINE w == ws[b]
             L == Span[b]
             cost == Asked(call, b)
             r == Roll(w, b, t)
  <1>1. /\ b \in Range(Budgets) /\ w \in Window /\ w.used \in Nat /\ w.started \in Nat
        /\ w.started <= t
    BY DrawnBudgets DEF Windows, Window
  <1>2. L \in Nat /\ L > 0 /\ Limit[b] \in Nat /\ cost \in Nat /\ cost > 0
    BY <1>1, LimitsPositive, CostFits
  <1>3. ASSUME NEW s \in Nat
        PROVE  /\ RollAll(ws, s)[b] = Roll(w, b, s) /\ Roll(w, b, s) \in Window
               /\ Roll(w, b, s).used \in Nat /\ Roll(w, b, s).started \in Nat
               /\ s < Roll(w, b, s).started + L
               /\ Roll(w, b, s).used + cost <= Limit[b] => WaitAt(ws, call, s, b) = 0
               /\ Roll(w, b, s).used + cost > Limit[b] =>
                    WaitAt(ws, call, s, b) = Roll(w, b, s).started + L - s
    <2>1. RollAll(ws, s)[b] = Roll(w, b, s) /\ Roll(w, b, s) \in Window
      <3>1. RollAll(ws, s)[b] = Roll(w, b, s)
        BY <1>1, RollAllType
      <3>2. Roll(w, b, s) \in Window
        <4> HIDE DEF w
        <4> QED BY <1>1, RollFacts
      <3> QED BY <3>1, <3>2
    <2>2. Roll(w, b, s).used \in Nat /\ Roll(w, b, s).started \in Nat
      BY <2>1 DEF Window
    <2>3. s < Roll(w, b, s).started + L
      BY <1>1, RollFacts
    <2>4. WaitAt(ws, call, s, b) = WaitFor(Roll(w, b, s), b, cost, s)
      BY <2>1 DEF WaitAt
    <2> HIDE DEF w, L, cost
    <2>5. /\ Roll(w, b, s).used + cost <= Limit[b] => WaitFor(Roll(w, b, s), b, cost, s) = 0
          /\ Roll(w, b, s).used + cost > Limit[b] =>
                WaitFor(Roll(w, b, s), b, cost, s) =
                  IF s < Roll(w, b, s).started + Span[b] THEN Roll(w, b, s).started + Span[b] - s ELSE 0
      BY <1>1, <1>2, <2>1, WaitForType
    <2> QED BY <2>1, <2>2, <2>3, <2>4, <2>5 DEF L
  <1>4. ASSUME NEW s \in Nat, t <= s, s < r.started + L
        PROVE  Roll(w, b, s) = r
    <2>1. CASE t < w.started + L
      <3>1. r = w
        BY <1>1, <2>1, RollFacts
      <3>2. s < w.started + L
        BY <1>4, <3>1
      <3> QED BY <1>1, <3>1, <3>2, RollFacts
    <2>2. CASE t >= w.started + L
      <3> DEFINE n == t - w.started
                 q == n \div L
                 m == s - w.started
      <3>1. n \in Nat /\ m \in Nat /\ n <= m /\ n >= L
        BY <1>1, <1>2, <1>4, <2>2
      <3>2. r = [used |-> 0, started |-> w.started + L * q]
        BY <2>2, <1>1, <1>2 DEF Roll
      <3>3. q \in Nat /\ L * q <= n
        <4> HIDE DEF n
        <4> QED BY <1>2, <3>1, WholeSpans
      <3>4. m < L * q + L
        <4>1. s < w.started + L * q + L
          BY <1>4, <3>2
        <4>2. L * q \in Nat
          <5> HIDE DEF q
          <5> QED BY <1>2, <3>3
        <4> HIDE DEF q
        <4> QED BY <1>1, <1>2, <4>1, <4>2
      <3>5. m \div L = q
        <4> HIDE DEF q, n, m, L
        <4> QED BY <1>2, <3>1, <3>3, <3>4
      <3>6. Roll(w, b, s) = [used |-> 0, started |-> w.started + L * q]
        <4>1. s - w.started >= Span[b]
          BY <1>1, <1>2, <3>1
        <4>2. Roll(w, b, s) = [used |-> 0, started |-> w.started + L * (m \div L)]
          BY <4>1 DEF Roll
        <4> QED BY <3>5, <4>2
      <3> QED BY <3>2, <3>6
    <2> QED BY <1>1, <1>2, <2>1, <2>2
  <1>5. ASSUME NEW s \in Nat, t <= s, s < t + WaitAt(ws, call, t, b)
        PROVE  WaitAt(ws, call, s, b) > 0
    <2>1. r.used + cost > Limit[b] /\ WaitAt(ws, call, t, b) = r.started + L - t
      <3> HIDE DEF r, w, L, cost
      <3>1. CASE r.used + cost <= Limit[b]
        BY <1>3, <1>5, <3>1 DEF r
      <3>2. CASE ~(r.used + cost <= Limit[b])
        <4>1. r.used + cost > Limit[b]
          BY <1>2, <1>3, <3>2 DEF r
        <4> QED BY <1>3, <4>1 DEF r
      <3> QED BY <3>1, <3>2
    <2>2. r.started \in Nat
      BY <1>3
    <2> HIDE DEF r, w, L, cost
    <2>3. s < r.started + L
      BY <1>2, <1>5, <2>1, <2>2
    <2>4. Roll(w, b, s) = r
      BY <1>4, <1>5, <2>3
    <2>5. WaitAt(ws, call, s, b) = r.started + L - s
      BY <1>3, <2>1, <2>4
    <2> QED BY <1>2, <2>2, <2>3, <2>5
  <1>6. ASSUME cost <= Limit[b], NEW s \in Nat, t + WaitAt(ws, call, t, b) <= s
        PROVE  WaitAt(ws, call, s, b) = 0
    <2> HIDE DEF r, w, L, cost
    <2>1. WaitAt(ws, call, t, b) \in Nat
      BY WaitAtType
    <2>2. t <= s
      BY <1>6, <2>1
    <2>3. Roll(w, b, s).used + cost <= Limit[b]
      <3>1. CASE s >= w.started + L
        <4>1. Roll(w, b, s).used = 0
          BY <1>1, <3>1, RollFacts DEF L
        <4> QED BY <1>2, <1>6, <4>1
      <3>2. CASE s < w.started + L
        <4>1. Roll(w, b, s) = w
          BY <1>1, <3>2, RollFacts DEF L
        <4>2. t < w.started + L
          BY <1>1, <1>2, <2>2, <3>2
        <4>3. r = w
          BY <1>1, <4>2, RollFacts DEF L, r
        <4>4. CASE w.used + cost > Limit[b]
          <5>1. WaitAt(ws, call, t, b) = w.started + L - t
            BY <1>3, <4>3, <4>4 DEF r
          <5> QED BY <1>1, <1>2, <1>6, <3>2, <5>1
        <4> QED BY <1>1, <1>2, <4>1, <4>4
      <3> QED BY <1>1, <1>2, <3>1, <3>2
    <2> QED BY <1>3, <2>3
  <1> QED BY <1>5, <1>6

LEMMA InvWait ==
    ASSUME LimiterInv
    PROVE  WaitExact
  <1>1. windows \in Windows /\ now \in Nat /\ \A c \in Range(Budgets) : windows[c].started <= now
    BY LimiterTypes DEF LimiterInv, AllAccounted, Accounted
  <1> SUFFICES ASSUME NEW call \in Calls, Wait(windows, call, now) > 0
               PROVE  /\ \A t \in now .. now + Wait(windows, call, now) - 1 : Wait(windows, call, t) > 0
                      /\ call.weight + Headroom <= Limit["weight"] =>
                            Wait(windows, call, now + Wait(windows, call, now)) = 0
    BY DEF WaitExact
  <1>2. PICK wait \in Nat : wait = Wait(windows, call, now)
    BY <1>1, WaitIsLongest
  <1>3. ASSUME NEW t \in now .. now + wait - 1
        PROVE  Wait(windows, call, t) > 0
    <2>1. PICK b \in Drawn(call) : wait = WaitAt(windows, call, now, b)
      BY <1>1, <1>2, WaitIsLongest
    <2>2. t \in Nat /\ now <= t /\ t < now + wait
      BY <1>1, <1>2
    <2>3. WaitAt(windows, call, t, b) > 0
      BY <1>1, <2>1, <2>2, WaitAtMoves
    <2>4. WaitAt(windows, call, t, b) <= Wait(windows, call, t) /\ Wait(windows, call, t) \in Nat
          /\ WaitAt(windows, call, t, b) \in Nat
      BY <1>1, <2>2, WaitIsLongest, WaitAtType
    <2> QED BY <2>3, <2>4
  <1>4. ASSUME call.weight + Headroom <= Limit["weight"]
        PROVE  Wait(windows, call, now + wait) = 0
    <2>1. now + wait \in Nat
      BY <1>1, <1>2
    <2>2. PICK b \in Drawn(call) : Wait(windows, call, now + wait) = WaitAt(windows, call, now + wait, b)
      BY <1>1, <2>1, WaitIsLongest
    <2>3. Asked(call, b) <= Limit[b]
      BY <1>4, CostFits
    <2>4. WaitAt(windows, call, now, b) <= wait /\ WaitAt(windows, call, now, b) \in Nat
      BY <1>1, <1>2, WaitIsLongest, WaitAtType
    <2>5. now + WaitAt(windows, call, now, b) <= now + wait
      BY <1>1, <1>2, <2>4
    <2> QED BY <1>1, <2>1, <2>2, <2>3, <2>5, WaitAtMoves
  <1> QED BY <1>2, <1>3, <1>4

\* A call that is told to wait is sent after exactly that wait, and not before, unless
\* somebody spends in between or the call is heavier than the budget: for any call, any
\* limits and spans, and any windows that hints and late counts have left.
THEOREM WaitsExact == LimiterSpec => []WaitExact
  <1>1. LimiterInv => WaitExact
    BY InvWait
  <1> QED BY <1>1, LimiterInvariant, PTL

\* Nothing is sent before the end of the last hint heard: a hint moves the window and fills
\* it, no reply takes from it, and it rolls only when the hint has passed.
THEOREM HintsHonoured == LimiterSpec => HintHonoured
  <1>1. LimiterInv /\ [LimiterNext]_limiterVars
          => [spent' # spent /\ now' = now => now >= hintEnd]_limiterVars
    <2> SUFFICES ASSUME LimiterInv, LimiterNext, spent' # spent, now' = now, ~(now >= hintEnd)
                 PROVE  FALSE
      BY DEF limiterVars
    <2>1. now < hintEnd
      BY LimiterTypes DEF LimiterInv, LimiterTypeOK
    <2>2. ASSUME NEW call \in Calls, SendCall(call) PROVE FALSE
      <3>1. Wait(windows, call, now) > 0 /\ Wait(windows, call, now) = 0
        BY <2>1, <2>2, WaitsForHint DEF SendCall
      <3> QED BY <3>1
    <2>3. ASSUME NEW call \in Calls, Unsupported(call) \/ Defer(call) PROVE FALSE
      BY <2>3 DEF Unsupported, Defer, limiterVars
    <2>4. ASSUME NEW reply \in replies, Hear(reply) PROVE FALSE
      BY <2>4 DEF Hear
    <2>5. ASSUME NEW weight \in Others, Other(weight) PROVE FALSE
      BY <2>5 DEF Other
    <2>6. ~Tick
      BY LimiterTypes DEF LimiterInv, Tick
    <2> QED BY <2>2, <2>3, <2>4, <2>5, <2>6 DEF LimiterNext
  <1> QED BY <1>1, LimiterInvariant, PTL DEF LimiterSpec, HintHonoured

=============================================================================
