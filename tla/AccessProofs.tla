---------------------------- MODULE AccessProofs ----------------------------
(***************************************************************************)
(* Proofs about Access, for any addresses, devices, codes, commands and    *)
(* limits: sessions have the rights of their device and no more, a code    *)
(* lets one device in, the records of the audit trail resolve, and how     *)
(* often an address can fail is bounded.                                   *)
(***************************************************************************)
EXTENDS Access, FiniteSetTheorems, WellFoundedInduction, TLAPS

USE GatekeeperAssumption, DevicesAssumption, AccessAssumption

-----------------------------------------------------------------------------
(* Tables and sets.                                                        *)

\* What an entry put in changes.
LEMMA PutFacts ==
    ASSUME NEW table, NEW key, NEW entry
    PROVE  /\ DOMAIN Put(table, key, entry) = DOMAIN table \cup {key}
           /\ Put(table, key, entry)[key] = entry
           /\ \A k \in DOMAIN table : k # key => Put(table, key, entry)[k] = table[k]
BY DEF Put

\* What entries taken out leave.
LEMMA DropFacts ==
    ASSUME NEW table, NEW keys
    PROVE  /\ DOMAIN Drop(table, keys) = DOMAIN table \ keys
           /\ \A k \in DOMAIN table \ keys : Drop(table, keys)[k] = table[k]
BY DEF Drop

\* A set of numbers with a number in it has a least one.
LEMMA LeastNumber ==
    ASSUME NEW S \in SUBSET Nat, S # {}
    PROVE  \E m \in S : \A n \in S : m <= n
<1>1. PICK m \in S : \A n \in S : <<n, m>> \notin OpToRel(<, Nat)
    BY NatLessThanWellFounded, WFMin
<1>2. \A n \in S : ~ (n < m)
    BY <1>1 DEF OpToRel
<1>. QED BY <1>2

\* Of the numbers of a finite set, no more than `limit` have fewer than `limit` after them.
LEMMA LatestBounded ==
    ASSUME NEW S \in SUBSET Nat, IsFiniteSet(S), NEW limit \in Nat \ {0}
    PROVE  Cardinality({i \in S : Cardinality({j \in S : i < j}) < limit}) <= limit
<1> DEFINE Kept == {i \in S : Cardinality({j \in S : i < j}) < limit}
<1>1. Kept \subseteq S /\ \A i \in Kept : Cardinality({j \in S : i < j}) < limit
    OBVIOUS
<1> HIDE DEF Kept
<1>2. IsFiniteSet(Kept) /\ Cardinality(Kept) \in Nat
    BY <1>1, FS_Subset, FS_CardinalityType
<1>3. CASE Kept = {}
    <2>1. Cardinality(Kept) = 0
        BY <1>3, FS_EmptySet
    <2>. QED BY <2>1 DEF Kept
<1>4. CASE Kept # {}
    <2>1. PICK m \in Kept : \A n \in Kept : m <= n
        BY <1>1, <1>4, LeastNumber
    <2> DEFINE Later == {j \in S : m < j}
    <2>2. \A n \in Kept \ {m} : n \in Later
        BY <1>1, <2>1
    <2>3. Later \subseteq S /\ Cardinality(Later) < limit
        BY <1>1, <2>1
    <2> HIDE DEF Later
    <2>4. IsFiniteSet(Later) /\ Cardinality(Later) \in Nat
        BY <2>3, FS_Subset, FS_CardinalityType
    <2>5. Cardinality(Kept \ {m}) <= Cardinality(Later)
        BY <2>2, <2>4, FS_Subset
    <2>6. Cardinality(Kept \ {m}) = Cardinality(Kept) - 1
        BY <2>1, <1>2, FS_RemoveElement
    <2>7. Cardinality(Kept) <= limit
        BY <2>3, <2>4, <2>5, <2>6, <1>2
    <2>. QED BY <2>7 DEF Kept
<1>. QED BY <1>3, <1>4

-----------------------------------------------------------------------------
(* The invariant.                                                          *)

\* The types the proofs need.
Types ==
    /\ now \in Nat /\ opened \in Nat
    /\ DOMAIN sessions \subseteq 1..opened
    /\ \A i \in DOMAIN sessions :
         sessions[i] \in [device : Device, peer : Peer, role : Role, openedAt : 0..now]
    /\ DOMAIN devices \subseteq Device
    /\ \A d \in DOMAIN devices : devices[d] \in [role : Role, revoked : BOOLEAN]
    /\ codes = [c \in DOMAIN codes |-> codes[c]]
    /\ \A c \in DOMAIN codes : codes[c].role \in Role
    /\ issues \in Seq(Role)
    /\ newest \in [Device -> Nat]

\* Sessions are numbered in the order in which they are opened.
Ordered ==
    \A i, j \in DOMAIN sessions : i < j => sessions[i].openedAt <= sessions[j].openedAt

Holders(role)  == {d \in DOMAIN devices : devices[d].role = role}
CodesFor(role) == {c \in DOMAIN codes : codes[c].role = role}
Issues(role)   == {i \in DOMAIN issues : issues[i] = role}

\* A code handed out is a code kept or a device let in, or it is gone.
Counted ==
    /\ IsFiniteSet(DOMAIN devices) /\ IsFiniteSet(DOMAIN codes)
    /\ \A role \in Role :
         Cardinality(Holders(role)) + Cardinality(CodesFor(role)) <= Cardinality(Issues(role))

IInv == Types /\ Ordered /\ SessionsEntitled /\ NewestStays /\ Counted /\ TrailResolves

\* It holds at the start.
LEMMA InitInv == Init => IInv
<1> SUFFICES ASSUME Init PROVE IInv
    OBVIOUS
<1> USE DEF Init, EmptyTable
<1>1. Types /\ Ordered /\ SessionsEntitled /\ TrailResolves
    BY DEF Types, Ordered, SessionsEntitled, TrailResolves
<1>2. NewestStays
    <2>1. \A d \in Device : SessionsOf(sessions, d) = {}
        BY DEF SessionsOf
    <2>2. Cardinality({}) = 0 /\ \A d \in Device : newest[d] = 0
        BY FS_EmptySet
    <2>3. 0 <= MaxSessions
        OBVIOUS
    <2>. QED BY <2>1, <2>2, <2>3 DEF NewestStays
<1>3. Counted
    <2>1. DOMAIN devices = {} /\ DOMAIN codes = {} /\ DOMAIN issues = {}
        OBVIOUS
    <2>2. \A role \in Role : Holders(role) = {} /\ CodesFor(role) = {} /\ Issues(role) = {}
        BY <2>1 DEF Holders, CodesFor, Issues
    <2>3. Cardinality({}) = 0 /\ IsFiniteSet({}) /\ 0 + 0 <= 0
        BY FS_EmptySet
    <2> HIDE DEF Init, EmptyTable
    <2>. QED BY <2>1, <2>2, <2>3 DEF Counted
<1>. QED BY <1>1, <1>2, <1>3 DEF IInv

-----------------------------------------------------------------------------
(* What a session opened leaves.                                           *)

\* The oldest sessions of the device beyond its limit are closed: no more than the limit
\* stay, the new one among them, and those of other devices all do.
LEMMA OpenKeeps ==
    ASSUME Types, Ordered,
           NEW device \in Device, NEW peer \in Peer, NEW role \in Role
    PROVE  LET after == OpenSession(sessions, opened + 1, device, peer, role, now)
               entry == [device |-> device, peer |-> peer, role |-> role, openedAt |-> now]
           IN  /\ DOMAIN after \subseteq DOMAIN sessions \cup {opened + 1}
               /\ opened + 1 \in DOMAIN after /\ after[opened + 1] = entry
               /\ \A i \in DOMAIN after : i # opened + 1 => after[i] = sessions[i]
               /\ \A i \in DOMAIN sessions : sessions[i].device # device => i \in DOMAIN after
               /\ Cardinality(SessionsOf(after, device)) <= MaxSessions
<1> DEFINE id    == opened + 1
           entry == [device |-> device, peer |-> peer, role |-> role, openedAt |-> now]
           all   == Put(sessions, id, entry)
           own   == SessionsOf(all, device)
           after == Drop(all, TooMany(all, device))
<1>1. /\ opened \in Nat /\ now \in Nat /\ id \in Nat /\ id \notin DOMAIN sessions
      /\ \A i \in DOMAIN sessions : i \in Nat /\ i < id /\ sessions[i].openedAt \in Nat
                                    /\ sessions[i].openedAt <= now
    BY DEF Types
<1>2. /\ DOMAIN all = DOMAIN sessions \cup {id} /\ all[id] = entry
      /\ \A i \in DOMAIN sessions : all[i] = sessions[i]
    <2>1. \A i \in DOMAIN sessions : i # id
        BY <1>1
    <2> HIDE DEF id, entry
    <2>2. /\ DOMAIN all = DOMAIN sessions \cup {id} /\ all[id] = entry
          /\ \A i \in DOMAIN sessions : i # id => all[i] = sessions[i]
        BY DEF Put
    <2>. QED BY <2>1, <2>2
<1>3. entry.device = device /\ entry.openedAt = now
    OBVIOUS
<1> HIDE DEF id, entry, all
<1>4. \A i, j \in DOMAIN all : OpenedBefore(all, i, j) <=> i < j
    <2>1. \A i \in DOMAIN all : i \in Nat /\ all[i].openedAt \in Nat
        BY <1>1, <1>2, <1>3
    <2>2. \A i, j \in DOMAIN all : i < j => all[i].openedAt <= all[j].openedAt
        BY <1>1, <1>2, <1>3 DEF Ordered
    <2>. QED BY <2>1, <2>2 DEF OpenedBefore
<1>5. own \in SUBSET Nat /\ IsFiniteSet(own) /\ own \subseteq DOMAIN all /\ id \in own
    <2>1. own \subseteq DOMAIN all /\ id \in own
        BY <1>2, <1>3 DEF SessionsOf
    <2>2. DOMAIN all \subseteq 0..id
        BY <1>1, <1>2
    <2>3. IsFiniteSet(0..id)
        BY <1>1, FS_Interval
    <2>. QED BY <2>1, <2>2, <2>3, FS_Subset
<1>6. \A i \in own : {j \in own : OpenedBefore(all, i, j)} = {j \in own : i < j}
    BY <1>4, <1>5
<1>7. \A i \in own : Cardinality({j \in own : i < j}) \in Nat
    BY <1>5, FS_Subset, FS_CardinalityType
<1>8. /\ TooMany(all, device) \subseteq own
      /\ \A i \in own : i \notin TooMany(all, device)
                          <=> Cardinality({j \in own : i < j}) < MaxSessions
    BY <1>6, <1>7 DEF TooMany
<1>9. /\ DOMAIN after = DOMAIN all \ TooMany(all, device)
      /\ \A i \in DOMAIN after : after[i] = all[i]
    BY DropFacts
<1>10. id \in DOMAIN after
    <2>1. {j \in own : id < j} = {}
        BY <1>1, <1>2, <1>5
    <2>2. Cardinality({j \in own : id < j}) = 0
        BY <2>1, FS_EmptySet
    <2>. QED BY <2>2, <1>2, <1>5, <1>8, <1>9
<1>11. \A i \in DOMAIN sessions : sessions[i].device # device => i \in DOMAIN after
    BY <1>2, <1>8, <1>9 DEF SessionsOf
<1>12. Cardinality(SessionsOf(after, device)) <= MaxSessions
    <2>1. SessionsOf(after, device)
            = {i \in own : Cardinality({j \in own : i < j}) < MaxSessions}
        BY <1>8, <1>9 DEF SessionsOf
    <2>. QED BY <2>1, <1>5, LatestBounded
<1>13. OpenSession(sessions, opened + 1, device, peer, role, now) = after
    BY DEF OpenSession, id, entry, all
<1>14. /\ DOMAIN after \subseteq DOMAIN sessions \cup {id}
       /\ after[id] = entry
       /\ \A i \in DOMAIN after : i # id => after[i] = sessions[i]
    BY <1>2, <1>9, <1>10
<1> HIDE DEF after
<1>. QED BY <1>10, <1>11, <1>12, <1>13, <1>14 DEF id, entry

-----------------------------------------------------------------------------
(* The steps. Each is one of these.                                        *)

\* Sessions, devices, codes, records and their histories are left alone, or codes run out.
Quiet ==
    /\ UNCHANGED <<now, sessions, opened, devices, trail, issues, newest>>
    /\ \E gone \in SUBSET DOMAIN codes : codes' = Drop(codes, gone)

\* The clock runs.
ClockRuns ==
    /\ now' = now + 1
    /\ UNCHANGED <<sessions, opened, devices, codes, trail, issues, newest>>

Opens(device) == \E peer \in Peer : HelloAccepted(peer, device)

Enrols(device) == \E peer \in Peer, code \in Code : EnrollAccepted(peer, code, device)

Steps ==
    \/ Quiet \/ ClockRuns
    \/ \E device \in Device : Opens(device) \/ Enrols(device) \/ RevokeDevice(device)
    \/ \E id \in DOMAIN sessions : Close(id) \/ \E c \in Asked : Run(id, c)
    \/ \E code \in Code, role \in Issued : Issue(code, role)

\* Nothing taken out leaves the codes as they are.
LEMMA DropNothing ==
    ASSUME NEW keys, codes = [k \in DOMAIN codes |-> codes[k]]
    PROVE  \E gone \in SUBSET DOMAIN codes : Drop(codes, keys) = Drop(codes, gone)
<1>1. Drop(codes, keys) = Drop(codes, keys \cap DOMAIN codes)
    BY DEF Drop
<1>. QED BY <1>1

\* No other steps are taken.
LEMMA NextSteps ==
    ASSUME codes = [k \in DOMAIN codes |-> codes[k]], [Next]_vars
    PROVE  Steps
<1> USE DEF gate, registry
<1>1. codes = Drop(codes, {})
    BY DEF Drop
<1>2. CASE UNCHANGED vars
    BY <1>1, <1>2 DEF vars, Quiet, Steps
<1>3. ASSUME NEW peer \in Peer, Arrive(peer) \/ GiveUp(peer) PROVE Steps
    BY <1>1, <1>3 DEF Arrive, GiveUp, Quiet, Steps
<1>4. ASSUME NEW peer \in Peer, NEW device \in Device, NEW good \in BOOLEAN,
             HelloRefused(peer, device, good)
      PROVE  Steps
    BY <1>1, <1>4 DEF HelloRefused, Quiet, Steps
<1>5. ASSUME NEW peer \in Peer, NEW code \in Code, NEW device \in Device,
             EnrollRefused(peer, code, device)
      PROVE  Steps
    BY <1>5, DropNothing DEF EnrollRefused, CodesAfter, Quiet, Steps
<1>6. ASSUME Expire PROVE Steps
    BY <1>6, DropNothing DEF Expire, ExpireCodes, Quiet, Steps
<1>7. ASSUME Tick PROVE Steps
    BY <1>7 DEF Tick, ClockRuns, Steps
<1>8. ASSUME NEW peer \in Peer, NEW device \in Device, HelloAccepted(peer, device) PROVE Steps
    BY <1>8 DEF Opens, Steps
<1>9. ASSUME NEW peer \in Peer, NEW code \in Code, NEW device \in Device,
             EnrollAccepted(peer, code, device)
      PROVE  Steps
    BY <1>9 DEF Enrols, Steps
<1>10. ASSUME Next PROVE Steps
    BY <1>3, <1>4, <1>5, <1>6, <1>7, <1>8, <1>9, <1>10 DEF Next, Steps
<1>. QED BY <1>2, <1>10

-----------------------------------------------------------------------------
(* Every step keeps the types.                                             *)

\* A Hello accepted is a session opened with the role of the registry.
LEMMA HelloOpens ==
    ASSUME Types, Ordered, NEW device \in Device, Opens(device)
    PROVE  /\ device \in DOMAIN devices /\ ~devices[device].revoked
           /\ UNCHANGED <<now, devices, codes, trail, issues>> /\ opened' = opened + 1
           /\ newest' = [newest EXCEPT ![device] = opened + 1]
           /\ \E peer \in Peer :
                sessions'[opened + 1] = [device |-> device, peer |-> peer,
                                         role |-> devices[device].role, openedAt |-> now]
           /\ DOMAIN sessions' \subseteq DOMAIN sessions \cup {opened + 1}
           /\ opened + 1 \in DOMAIN sessions'
           /\ \A i \in DOMAIN sessions' : i # opened + 1 => sessions'[i] = sessions[i]
           /\ \A i \in DOMAIN sessions :
                sessions[i].device # device => i \in DOMAIN sessions'
           /\ Cardinality(SessionsOf(sessions', device)) <= MaxSessions
<1>1. PICK peer \in Peer : HelloAccepted(peer, device)
    BY DEF Opens
<1>2. device \in DOMAIN devices /\ ~devices[device].revoked
    BY <1>1 DEF HelloAccepted, Verified
<1>3. devices[device].role \in Role
    BY <1>2 DEF Types
<1>4. /\ UNCHANGED <<now, devices, codes, trail, issues>> /\ opened' = opened + 1
      /\ newest' = [newest EXCEPT ![device] = opened + 1]
      /\ sessions' = OpenSession(sessions, opened + 1, device, peer, devices[device].role, now)
    BY <1>1 DEF HelloAccepted, registry
<1>. QED BY <1>2, <1>3, <1>4, OpenKeeps

LEMMA TypesStep == Types /\ Ordered /\ Steps => Types'
<1> SUFFICES ASSUME Types, Ordered, Steps PROVE Types'
    OBVIOUS
<1> USE DEF Types, gate, registry
<1>1. CASE Quiet
    BY <1>1, DropFacts DEF Quiet, Drop
<1>2. CASE ClockRuns
    BY <1>2 DEF ClockRuns
<1>3. ASSUME NEW device \in Device, Opens(device) PROVE Types'
    <2>1. device \in DOMAIN devices /\ UNCHANGED <<now, devices, codes, issues>>
        BY <1>3, HelloOpens
    <2>2. opened' = opened + 1 /\ newest' = [newest EXCEPT ![device] = opened + 1]
        BY <1>3, HelloOpens
    <2>3. DOMAIN sessions' \subseteq DOMAIN sessions \cup {opened + 1}
        BY <1>3, HelloOpens
    <2>4. \A i \in DOMAIN sessions' : i # opened + 1 => sessions'[i] = sessions[i]
        BY <1>3, HelloOpens
    <2>5. PICK peer \in Peer :
            sessions'[opened + 1] = [device |-> device, peer |-> peer,
                                     role |-> devices[device].role, openedAt |-> now]
        BY <1>3, HelloOpens
    <2>6. sessions'[opened + 1] \in [device : Device, peer : Peer, role : Role, openedAt : 0..now]
        BY <2>1, <2>5
    <2>7. DOMAIN sessions' \subseteq 1..opened'
        BY <2>2, <2>3
    <2>8. \A i \in DOMAIN sessions' :
            sessions'[i] \in [device : Device, peer : Peer, role : Role, openedAt : 0..now]
        BY <2>3, <2>4, <2>6
    <2>9. newest' \in [Device -> Nat] /\ opened' \in Nat
        BY <2>2
    <2>. QED BY <2>1, <2>7, <2>8, <2>9
<1>4. ASSUME NEW device \in Device, NEW peer \in Peer, NEW code \in Code,
             EnrollAccepted(peer, code, device)
      PROVE  Types'
    <2>1. UNCHANGED <<now, opened, sessions, issues, newest>> /\ code \in DOMAIN codes
        BY <1>4 DEF EnrollAccepted, CanEnroll
    <2>2. devices' = Put(devices, device, [role |-> codes[code].role, revoked |-> FALSE])
        BY <1>4 DEF EnrollAccepted, Enroll
    <2>3. codes' = Drop(codes, {code})
        BY <1>4 DEF EnrollAccepted, CodesAfter
    <2>. QED BY <2>1, <2>2, <2>3 DEF Put, Drop
<1>5. ASSUME NEW device \in Device, RevokeDevice(device) PROVE Types'
    <2>1. UNCHANGED <<now, opened, codes, issues>> /\ newest' = [newest EXCEPT ![device] = 0]
        BY <1>5 DEF RevokeDevice
    <2>2. /\ devices' = [devices EXCEPT ![device].revoked = TRUE]
          /\ sessions' = Drop(sessions, SessionsOf(sessions, device))
        BY <1>5 DEF RevokeDevice, Revoke, RevokeSessions
    <2>. QED BY <2>1, <2>2 DEF Drop
<1>6. ASSUME NEW id \in DOMAIN sessions, Close(id) PROVE Types'
    BY <1>6 DEF Close, Drop
<1>7. ASSUME NEW id \in DOMAIN sessions, NEW c \in Asked, Run(id, c) PROVE Types'
    BY <1>7 DEF Run
<1>8. ASSUME NEW code \in Code, NEW role \in Issued, Issue(code, role) PROVE Types'
    BY <1>8 DEF Issue, IssueCode, Put
<1>. QED BY <1>1, <1>2, <1>3, <1>4, <1>5, <1>6, <1>7, <1>8 DEF Steps, Opens, Enrols

-----------------------------------------------------------------------------
(* Every step keeps the rights and the order of the sessions.              *)

\* The sessions some of which are closed keep their order and their rights.
LEMMA ClosedKeep ==
    ASSUME Ordered, SessionsEntitled,
           DOMAIN sessions' \subseteq DOMAIN sessions,
           \A i \in DOMAIN sessions' : /\ sessions'[i] = sessions[i]
                                       /\ sessions[i].device \in DOMAIN devices'
                                       /\ devices'[sessions[i].device] = devices[sessions[i].device]
    PROVE  Ordered' /\ SessionsEntitled'
BY DEF Ordered, SessionsEntitled

\* Ordered and SessionsEntitled are kept.
LEMMA RightsStep == Types /\ Ordered /\ SessionsEntitled /\ Steps => Ordered' /\ SessionsEntitled'
<1> SUFFICES ASSUME Types, Ordered, SessionsEntitled, Steps PROVE Ordered' /\ SessionsEntitled'
    OBVIOUS
<1>1. CASE UNCHANGED <<sessions, devices>>
    BY <1>1 DEF Ordered, SessionsEntitled
<1>2. ASSUME NEW device \in Device, Opens(device) PROVE Ordered' /\ SessionsEntitled'
    <2>1. /\ device \in DOMAIN devices /\ ~devices[device].revoked
          /\ devices' = devices
        BY <1>2, HelloOpens
    <2>2. DOMAIN sessions' \subseteq DOMAIN sessions \cup {opened + 1}
        BY <1>2, HelloOpens
    <2>3. \A i \in DOMAIN sessions' : i # opened + 1 => sessions'[i] = sessions[i]
        BY <1>2, HelloOpens
    <2>4. PICK peer \in Peer :
            sessions'[opened + 1] = [device |-> device, peer |-> peer,
                                     role |-> devices[device].role, openedAt |-> now]
        BY <1>2, HelloOpens
    <2>5. /\ sessions'[opened + 1].device = device
          /\ sessions'[opened + 1].role = devices[device].role
          /\ sessions'[opened + 1].openedAt = now
        BY <2>4
    <2>6. opened + 1 \in Nat
          /\ \A i \in DOMAIN sessions : i \in Nat /\ i < opened + 1 /\ sessions[i].openedAt <= now
        BY DEF Types
    <2>7. Ordered'
        <3>1. SUFFICES ASSUME NEW i \in DOMAIN sessions', NEW j \in DOMAIN sessions', i < j
                       PROVE  sessions'[i].openedAt <= sessions'[j].openedAt
            BY DEF Ordered
        <3>2. \A k \in DOMAIN sessions' : k = opened + 1 \/ k \in DOMAIN sessions
            BY <2>2
        <3>3. i # opened + 1 /\ i \in DOMAIN sessions
            <4>1. i = opened + 1 => j = opened + 1 \/ j < i
                BY <3>2, <2>6
            <4>2. i \in Nat /\ j \in Nat
                BY <3>2, <2>6
            <4>. QED BY <3>1, <3>2, <4>1, <4>2
        <3>4. CASE j = opened + 1
            BY <3>3, <3>4, <2>3, <2>5, <2>6
        <3>5. CASE j # opened + 1
            <4>1. j \in DOMAIN sessions /\ sessions'[j] = sessions[j] /\ sessions'[i] = sessions[i]
                BY <3>2, <3>3, <3>5, <2>3
            <4>. QED BY <3>1, <3>3, <4>1 DEF Ordered
        <3>. QED BY <3>4, <3>5
    <2>8. SessionsEntitled'
        BY <2>1, <2>2, <2>3, <2>5 DEF SessionsEntitled
    <2>. QED BY <2>7, <2>8
<1>3. ASSUME NEW device \in Device, Enrols(device) PROVE Ordered' /\ SessionsEntitled'
    <2>1. PICK peer \in Peer, code \in Code : EnrollAccepted(peer, code, device)
        BY <1>3 DEF Enrols
    <2>2. sessions' = sessions /\ device \notin DOMAIN devices
        BY <2>1 DEF EnrollAccepted, CanEnroll
    <2>3. devices' = Put(devices, device, [role |-> codes[code].role, revoked |-> FALSE])
        BY <2>1 DEF EnrollAccepted, Enroll
    <2>4. \A d \in DOMAIN devices : d \in DOMAIN devices' /\ devices'[d] = devices[d]
        BY <2>2, <2>3 DEF Put
    <2>. QED BY <2>2, <2>4 DEF Ordered, SessionsEntitled
<1>4. ASSUME NEW device \in Device, RevokeDevice(device) PROVE Ordered' /\ SessionsEntitled'
    <2>1. devices' = [devices EXCEPT ![device].revoked = TRUE]
        BY <1>4 DEF RevokeDevice, Revoke
    <2>2. sessions' = Drop(sessions, SessionsOf(sessions, device))
        BY <1>4 DEF RevokeDevice, RevokeSessions
    <2>3. DOMAIN sessions' \subseteq DOMAIN sessions
        BY <2>2 DEF Drop
    <2>4. \A i \in DOMAIN sessions' : sessions'[i] = sessions[i] /\ sessions[i].device # device
        BY <2>2 DEF Drop, SessionsOf
    <2>5. \A i \in DOMAIN sessions' : sessions[i].device \in DOMAIN devices
        BY <2>3 DEF SessionsEntitled
    <2>6. \A d \in DOMAIN devices : d \in DOMAIN devices' /\ (d # device => devices'[d] = devices[d])
        BY <2>1
    <2>. QED BY <2>3, <2>4, <2>5, <2>6, ClosedKeep
<1>5. ASSUME NEW id \in DOMAIN sessions, Close(id) PROVE Ordered' /\ SessionsEntitled'
    <2>1. sessions' = Drop(sessions, {id}) /\ devices' = devices
        BY <1>5 DEF Close, registry
    <2>. QED BY <2>1 DEF Drop, Ordered, SessionsEntitled
<1>6. ASSUME NEW id \in DOMAIN sessions, NEW c \in Asked, Run(id, c)
      PROVE  UNCHANGED <<sessions, devices>>
    BY <1>6 DEF Run, gate, registry
<1>7. ASSUME NEW code \in Code, NEW role \in Issued, Issue(code, role)
      PROVE  UNCHANGED <<sessions, devices>>
    BY <1>7 DEF Issue, gate
<1>8. ASSUME Quiet \/ ClockRuns PROVE UNCHANGED <<sessions, devices>>
    BY <1>8 DEF Quiet, ClockRuns
<1>. QED BY <1>1, <1>2, <1>3, <1>4, <1>5, <1>6, <1>7, <1>8 DEF Steps

-----------------------------------------------------------------------------
(* Every step keeps the limit of the sessions and the newest of each.      *)

\* Fewer sessions of a device are no more than there were.
LEMMA FewerSessions ==
    ASSUME Types, NewestStays, NEW d \in Device,
           SessionsOf(sessions', d) \subseteq SessionsOf(sessions, d)
    PROVE  Cardinality(SessionsOf(sessions', d)) <= MaxSessions
<1>1. SessionsOf(sessions, d) \subseteq 1..opened
    BY DEF SessionsOf, Types
<1>2. IsFiniteSet(SessionsOf(sessions, d))
    <2>1. opened \in Int /\ 1 \in Int
        BY DEF Types
    <2>2. IsFiniteSet(1..opened)
        BY <2>1, FS_Interval
    <2>. QED BY <1>1, <2>2, FS_Subset
<1>3. Cardinality(SessionsOf(sessions', d)) <= Cardinality(SessionsOf(sessions, d))
    BY <1>2, FS_Subset
<1>4. Cardinality(SessionsOf(sessions, d)) \in Nat /\ Cardinality(SessionsOf(sessions', d)) \in Nat
    BY <1>2, FS_Subset, FS_CardinalityType
<1>5. Cardinality(SessionsOf(sessions, d)) <= MaxSessions
    BY DEF NewestStays
<1>. QED BY <1>3, <1>4, <1>5

\* NewestStays is kept.
LEMMA NewestStep == Types /\ Ordered /\ NewestStays /\ Steps => NewestStays'
<1> SUFFICES ASSUME Types, Ordered, NewestStays, Steps PROVE NewestStays'
    OBVIOUS
<1>1. CASE UNCHANGED <<sessions, newest>>
    BY <1>1 DEF NewestStays, SessionsOf
<1>2. ASSUME NEW device \in Device, Opens(device) PROVE NewestStays'
    <2>1. /\ newest' = [newest EXCEPT ![device] = opened + 1]
          /\ opened + 1 \in DOMAIN sessions'
          /\ sessions'[opened + 1].device = device
        <3>1. PICK peer \in Peer :
                sessions'[opened + 1] = [device |-> device, peer |-> peer,
                                         role |-> devices[device].role, openedAt |-> now]
            BY <1>2, HelloOpens
        <3>2. sessions'[opened + 1].device = device
            BY <3>1
        <3>. QED BY <1>2, <3>2, HelloOpens
    <2>2. /\ DOMAIN sessions' \subseteq DOMAIN sessions \cup {opened + 1}
          /\ \A i \in DOMAIN sessions' : i # opened + 1 => sessions'[i] = sessions[i]
          /\ \A i \in DOMAIN sessions : sessions[i].device # device => i \in DOMAIN sessions'
        BY <1>2, HelloOpens
    <2>3. Cardinality(SessionsOf(sessions', device)) <= MaxSessions
        BY <1>2, HelloOpens
    <2>4. opened + 1 \notin DOMAIN sessions
        BY DEF Types
    <2>5. ASSUME NEW d \in Device, d # device
          PROVE  SessionsOf(sessions', d) = SessionsOf(sessions, d)
        BY <2>1, <2>2, <2>4, <2>5 DEF SessionsOf
    <2>6. ASSUME NEW d \in Device, d # device
          PROVE  /\ Cardinality(SessionsOf(sessions', d)) <= MaxSessions
                 /\ newest'[d] # 0 => newest'[d] \in SessionsOf(sessions', d)
        BY <2>1, <2>5, <2>6 DEF NewestStays, Types
    <2>7. newest'[device] \in SessionsOf(sessions', device)
        BY <2>1 DEF SessionsOf, Types
    <2>. QED BY <2>3, <2>6, <2>7 DEF NewestStays
<1>3. ASSUME NEW device \in Device, RevokeDevice(device) PROVE NewestStays'
    <2>1. sessions' = Drop(sessions, SessionsOf(sessions, device))
        BY <1>3 DEF RevokeDevice, RevokeSessions
    <2>2. newest' = [newest EXCEPT ![device] = 0]
        BY <1>3 DEF RevokeDevice
    <2>3. ASSUME NEW d \in Device
          PROVE  /\ SessionsOf(sessions', d) \subseteq SessionsOf(sessions, d)
                 /\ d # device => SessionsOf(sessions', d) = SessionsOf(sessions, d)
        BY <2>1 DEF Drop, SessionsOf
    <2>. QED BY <2>2, <2>3, FewerSessions DEF NewestStays, Types
<1>4. ASSUME NEW id \in DOMAIN sessions, Close(id) PROVE NewestStays'
    <2>1. /\ sessions' = Drop(sessions, {id})
          /\ newest' = [d \in Device |-> IF newest[d] = id THEN 0 ELSE newest[d]]
        BY <1>4 DEF Close
    <2>2. ASSUME NEW d \in Device
          PROVE  SessionsOf(sessions', d) = SessionsOf(sessions, d) \ {id}
        BY <2>1 DEF Drop, SessionsOf
    <2>. QED BY <2>1, <2>2, FewerSessions DEF NewestStays, Types
<1>5. ASSUME NEW device \in Device, Enrols(device) PROVE UNCHANGED <<sessions, newest>>
    BY <1>5 DEF Enrols, EnrollAccepted
<1>6. ASSUME NEW id \in DOMAIN sessions, NEW c \in Asked, Run(id, c)
      PROVE  UNCHANGED <<sessions, newest>>
    BY <1>6 DEF Run, gate
<1>7. ASSUME NEW code \in Code, NEW role \in Issued, Issue(code, role)
      PROVE  UNCHANGED <<sessions, newest>>
    BY <1>7 DEF Issue, gate
<1>8. ASSUME Quiet \/ ClockRuns PROVE UNCHANGED <<sessions, newest>>
    BY <1>8 DEF Quiet, ClockRuns
<1>. QED BY <1>1, <1>2, <1>3, <1>4, <1>5, <1>6, <1>7, <1>8 DEF Steps

-----------------------------------------------------------------------------
(* Every step keeps the records resolving.                                 *)

\* A record of a session's command resolves.
LEMMA RecordResolves ==
    ASSUME Types, SessionsEntitled, NEW id \in DOMAIN sessions, NEW c \in Asked
    PROVE  LET r == Record(sessions[id], c)
           IN  /\ r.device \in DOMAIN devices /\ r.role = devices[r.device].role
               /\ r.outcome = "Started" <=> r.role >= MinRole(r.command)
<1>1. Interned(c) = c
    BY DEF Interned
<1>2. Outcome["Accepted"] = "Started" /\ Outcome["Rejected"] = "Refused"
    BY DEF Outcome
<1>3. Authorized(sessions[id].role, c) <=> sessions[id].role >= MinRole(c)
    BY DEF Authorized
<1>4. sessions[id].device \in DOMAIN devices
      /\ sessions[id].role = devices[sessions[id].device].role
    BY DEF SessionsEntitled
<1> DEFINE r == Record(sessions[id], c)
<1>5. /\ r.device = sessions[id].device /\ r.role = sessions[id].role /\ r.command = c
      /\ r.outcome = Outcome[IF Authorized(sessions[id].role, c) THEN "Accepted" ELSE "Rejected"]
    BY <1>1 DEF Record
<1>6. r.outcome = "Started" <=> Authorized(sessions[id].role, c)
    BY <1>2, <1>5
<1> HIDE DEF r
<1>7. r.outcome = "Started" <=> r.role >= MinRole(r.command)
    BY <1>3, <1>5, <1>6
<1>8. r.device \in DOMAIN devices /\ r.role = devices[r.device].role
    BY <1>4, <1>5
<1>. QED BY <1>7, <1>8 DEF r

\* TrailResolves is kept: a device is never forgotten, and its role never changes.
LEMMA TrailStep == Types /\ SessionsEntitled /\ TrailResolves /\ Steps => TrailResolves'
<1> SUFFICES ASSUME Types, SessionsEntitled, TrailResolves, Steps PROVE TrailResolves'
    OBVIOUS
<1>1. CASE /\ trail' = trail
           /\ \A d \in DOMAIN devices : d \in DOMAIN devices' /\ devices'[d].role = devices[d].role
    BY <1>1 DEF TrailResolves
<1>2. ASSUME NEW id \in DOMAIN sessions, NEW c \in Asked, Run(id, c) PROVE TrailResolves'
    <2>1. devices' = devices /\ trail' \subseteq trail \cup {Record(sessions[id], c)}
        BY <1>2 DEF Run, registry
    <2>2. \A r \in trail' : /\ r.device \in DOMAIN devices /\ r.role = devices[r.device].role
                            /\ r.outcome = "Started" <=> r.role >= MinRole(r.command)
        BY <2>1, RecordResolves DEF TrailResolves
    <2>. QED BY <2>1, <2>2 DEF TrailResolves
<1>3. ASSUME NEW device \in Device, Enrols(device) PROVE TrailResolves'
    <2>1. PICK peer \in Peer, code \in Code : EnrollAccepted(peer, code, device)
        BY <1>3 DEF Enrols
    <2>2. trail' = trail /\ device \notin DOMAIN devices
        BY <2>1 DEF EnrollAccepted, CanEnroll
    <2>3. devices' = Put(devices, device, [role |-> codes[code].role, revoked |-> FALSE])
        BY <2>1 DEF EnrollAccepted, Enroll
    <2>. QED BY <1>1, <2>2, <2>3 DEF Put
<1>4. ASSUME NEW device \in Device, RevokeDevice(device) PROVE TrailResolves'
    <2>1. trail' = trail /\ devices' = [devices EXCEPT ![device].revoked = TRUE]
        BY <1>4 DEF RevokeDevice, Revoke
    <2>2. \A d \in DOMAIN devices : d \in DOMAIN devices' /\ devices'[d].role = devices[d].role
        BY <2>1 DEF Types
    <2>. QED BY <1>1, <2>1, <2>2
<1>5. ASSUME NEW device \in Device, Opens(device) PROVE TrailResolves'
    BY <1>1, <1>5 DEF Opens, HelloAccepted, registry
<1>6. ASSUME NEW id \in DOMAIN sessions, Close(id) PROVE TrailResolves'
    BY <1>1, <1>6 DEF Close, registry
<1>7. ASSUME NEW code \in Code, NEW role \in Issued, Issue(code, role) PROVE TrailResolves'
    BY <1>1, <1>7 DEF Issue
<1>8. ASSUME Quiet \/ ClockRuns PROVE TrailResolves'
    BY <1>1, <1>8 DEF Quiet, ClockRuns
<1>. QED BY <1>2, <1>3, <1>4, <1>5, <1>6, <1>7, <1>8 DEF Steps

-----------------------------------------------------------------------------
(* Every step keeps the count of codes and devices.                        *)

\* What is counted is finite.
LEMMA CountsFinite ==
    ASSUME Types, Counted, NEW role \in Role
    PROVE  /\ IsFiniteSet(Holders(role)) /\ Cardinality(Holders(role)) \in Nat
           /\ IsFiniteSet(CodesFor(role)) /\ Cardinality(CodesFor(role)) \in Nat
           /\ IsFiniteSet(Issues(role)) /\ Cardinality(Issues(role)) \in Nat
<1>1. IsFiniteSet(Holders(role)) /\ IsFiniteSet(CodesFor(role))
    BY FS_Subset DEF Counted, Holders, CodesFor
<1>2. IsFiniteSet(Issues(role))
    <2>1. Len(issues) \in Int /\ 1 \in Int /\ DOMAIN issues = 1..Len(issues)
        BY DEF Types
    <2>2. IsFiniteSet(1..Len(issues))
        BY <2>1, FS_Interval
    <2>. QED BY <2>1, <2>2, FS_Subset DEF Issues
<1>. QED BY <1>1, <1>2, FS_CardinalityType

\* No device more, no code more and no less handed out is no more counted.
LEMMA FewerCounted ==
    ASSUME Types, Counted, NEW role \in Role,
           Holders(role)' \subseteq Holders(role), CodesFor(role)' \subseteq CodesFor(role),
           Issues(role)' = Issues(role)
    PROVE  Cardinality(Holders(role)') + Cardinality(CodesFor(role)')
             <= Cardinality(Issues(role)')
<1>1. /\ Cardinality(Holders(role)') <= Cardinality(Holders(role))
      /\ Cardinality(Holders(role)') \in Nat
    BY CountsFinite, FS_Subset, FS_CardinalityType
<1>2. /\ Cardinality(CodesFor(role)') <= Cardinality(CodesFor(role))
      /\ Cardinality(CodesFor(role)') \in Nat
    BY CountsFinite, FS_Subset, FS_CardinalityType
<1>3. Cardinality(Holders(role)) + Cardinality(CodesFor(role)) <= Cardinality(Issues(role))
    BY DEF Counted
<1>. QED BY <1>1, <1>2, <1>3, CountsFinite

\* Counted is kept.
LEMMA CountedStep == Types /\ Counted /\ Steps => Counted'
<1> SUFFICES ASSUME Types, Counted, Steps PROVE Counted'
    OBVIOUS
<1>1. CASE UNCHANGED <<devices, codes, issues>>
    BY <1>1 DEF Counted, Holders, CodesFor, Issues
<1>2. CASE Quiet
    <2>1. PICK gone \in SUBSET DOMAIN codes : codes' = Drop(codes, gone)
        BY <1>2 DEF Quiet
    <2>2. devices' = devices /\ issues' = issues
        BY <1>2 DEF Quiet
    <2>3. ASSUME NEW role \in Role
          PROVE  /\ Holders(role)' = Holders(role) /\ Issues(role)' = Issues(role)
                 /\ CodesFor(role)' \subseteq CodesFor(role)
        BY <2>1, <2>2 DEF Drop, Holders, CodesFor, Issues
    <2>4. DOMAIN codes' \subseteq DOMAIN codes
        BY <2>1 DEF Drop
    <2>5. IsFiniteSet(DOMAIN devices') /\ IsFiniteSet(DOMAIN codes')
        BY <2>2, <2>4, FS_Subset DEF Counted
    <2>. QED BY <2>3, <2>5, FewerCounted DEF Counted
<1>3. ASSUME NEW device \in Device, Enrols(device) PROVE Counted'
    <2>1. PICK peer \in Peer, code \in Code : EnrollAccepted(peer, code, device)
        BY <1>3 DEF Enrols
    <2>2. code \in DOMAIN codes /\ device \notin DOMAIN devices /\ issues' = issues
        BY <2>1 DEF EnrollAccepted, CanEnroll
    <2>3. devices' = Put(devices, device, [role |-> codes[code].role, revoked |-> FALSE])
        BY <2>1 DEF EnrollAccepted, Enroll
    <2>4. codes' = Drop(codes, {code})
        BY <2>1 DEF EnrollAccepted, CodesAfter
    <2>5. DOMAIN devices' = DOMAIN devices \cup {device} /\ DOMAIN codes' = DOMAIN codes \ {code}
        BY <2>3, <2>4 DEF Put, Drop
    <2>6. IsFiniteSet(DOMAIN devices') /\ IsFiniteSet(DOMAIN codes')
        BY <2>5, FS_AddElement, FS_RemoveElement DEF Counted
    <2>7. ASSUME NEW role \in Role
          PROVE  Cardinality(Holders(role)') + Cardinality(CodesFor(role)')
                   <= Cardinality(Issues(role)')
        <3>1. Issues(role)' = Issues(role)
            BY <2>2 DEF Issues
        <3>2. CASE role # codes[code].role
            <4>1. Holders(role)' \subseteq Holders(role) /\ CodesFor(role)' \subseteq CodesFor(role)
                BY <2>2, <2>3, <2>4, <3>2 DEF Put, Drop, Holders, CodesFor
            <4>. QED BY <3>1, <4>1, FewerCounted
        <3>3. CASE role = codes[code].role
            <4>1. Holders(role)' = Holders(role) \cup {device} /\ device \notin Holders(role)
                BY <2>2, <2>3, <3>3 DEF Put, Holders
            <4>2. CodesFor(role)' = CodesFor(role) \ {code} /\ code \in CodesFor(role)
                BY <2>2, <2>4, <3>3 DEF Drop, CodesFor
            <4>3. Cardinality(Holders(role)') = Cardinality(Holders(role)) + 1
                BY <4>1, CountsFinite, FS_AddElement
            <4>4. Cardinality(CodesFor(role)') = Cardinality(CodesFor(role)) - 1
                BY <4>2, CountsFinite, FS_RemoveElement
            <4>5. Cardinality(Holders(role)) + Cardinality(CodesFor(role))
                    <= Cardinality(Issues(role))
                BY DEF Counted
            <4>. QED BY <3>1, <4>3, <4>4, <4>5, CountsFinite
        <3>. QED BY <3>2, <3>3
    <2>. QED BY <2>6, <2>7 DEF Counted
<1>4. ASSUME NEW device \in Device, RevokeDevice(device) PROVE Counted'
    <2>1. devices' = [devices EXCEPT ![device].revoked = TRUE] /\ UNCHANGED <<codes, issues>>
        BY <1>4 DEF RevokeDevice, Revoke
    <2>2. DOMAIN devices' = DOMAIN devices
          /\ \A d \in DOMAIN devices : devices'[d].role = devices[d].role
        BY <2>1 DEF Types
    <2>3. \A role \in Role : Holders(role)' = Holders(role)
        BY <2>2 DEF Holders
    <2>. QED BY <2>1, <2>2, <2>3 DEF Counted, CodesFor, Issues
<1>5. ASSUME NEW code \in Code, NEW granted \in Issued, Issue(code, granted) PROVE Counted'
    <2>1. issues' = Append(issues, granted) /\ devices' = devices
        BY <1>5 DEF Issue
    <2>2. codes' = Put(codes, code, [role |-> granted, issuedAt |-> now])
        BY <1>5 DEF Issue, IssueCode
    <2>3. DOMAIN codes' = DOMAIN codes \cup {code} /\ codes'[code].role = granted
          /\ \A c \in DOMAIN codes : c # code => codes'[c] = codes[c]
        BY <2>2 DEF Put
    <2>4. IsFiniteSet(DOMAIN devices') /\ IsFiniteSet(DOMAIN codes')
        BY <2>1, <2>3, FS_AddElement DEF Counted
    <2>5. /\ Len(issues) \in Nat /\ DOMAIN issues = 1..Len(issues)
          /\ DOMAIN issues' = 1..(Len(issues) + 1)
          /\ issues'[Len(issues) + 1] = granted
          /\ \A i \in 1..Len(issues) : issues'[i] = issues[i]
        BY <2>1 DEF Types
    <2>6. ASSUME NEW role \in Role
          PROVE  Cardinality(Holders(role)') + Cardinality(CodesFor(role)')
                   <= Cardinality(Issues(role)')
        <3>1. Holders(role)' = Holders(role)
            BY <2>1 DEF Holders
        <3>2. CASE role # granted
            <4>1. CodesFor(role)' \subseteq CodesFor(role)
                BY <2>3, <3>2 DEF CodesFor
            <4>2. Issues(role)' = Issues(role)
                BY <2>5, <3>2 DEF Issues
            <4>. QED BY <3>1, <4>1, <4>2, FewerCounted
        <3>3. CASE role = granted
            <4>1. CodesFor(role)' \subseteq CodesFor(role) \cup {code}
                BY <2>3 DEF CodesFor
            <4>2. /\ Issues(role)' = Issues(role) \cup {Len(issues) + 1}
                  /\ Len(issues) + 1 \notin Issues(role)
                BY <2>5, <3>3 DEF Issues
            <4>3. Cardinality(Issues(role)') = Cardinality(Issues(role)) + 1
                BY <4>2, CountsFinite, FS_AddElement
            <4>4. /\ IsFiniteSet(CodesFor(role) \cup {code})
                  /\ Cardinality(CodesFor(role) \cup {code}) <= Cardinality(CodesFor(role)) + 1
                  /\ Cardinality(CodesFor(role) \cup {code}) \in Nat
                <5>1. IsFiniteSet(CodesFor(role)) /\ Cardinality(CodesFor(role)) \in Nat
                    BY CountsFinite
                <5> DEFINE S == CodesFor(role)
                <5> HIDE DEF S
                <5>2. /\ IsFiniteSet(S \cup {code})
                      /\ Cardinality(S \cup {code}) = IF code \in S THEN Cardinality(S)
                                                      ELSE Cardinality(S) + 1
                    BY <5>1, FS_AddElement DEF S
                <5>. QED BY <5>1, <5>2 DEF S
            <4>5. /\ Cardinality(CodesFor(role)') <= Cardinality(CodesFor(role) \cup {code})
                  /\ Cardinality(CodesFor(role)') \in Nat
                BY <4>1, <4>4, FS_Subset, FS_CardinalityType
            <4>6. Cardinality(Holders(role)) + Cardinality(CodesFor(role))
                    <= Cardinality(Issues(role))
                BY DEF Counted
            <4>. QED BY <3>1, <4>3, <4>4, <4>5, <4>6, CountsFinite
        <3>. QED BY <3>2, <3>3
    <2>. QED BY <2>4, <2>6 DEF Counted
<1>6. ASSUME NEW device \in Device, Opens(device) PROVE UNCHANGED <<devices, codes, issues>>
    BY <1>6 DEF Opens, HelloAccepted, registry
<1>7. ASSUME NEW id \in DOMAIN sessions, Close(id) PROVE UNCHANGED <<devices, codes, issues>>
    BY <1>7 DEF Close, registry
<1>8. ASSUME NEW id \in DOMAIN sessions, NEW c \in Asked, Run(id, c)
      PROVE  UNCHANGED <<devices, codes, issues>>
    BY <1>8 DEF Run, registry
<1>9. ASSUME ClockRuns PROVE UNCHANGED <<devices, codes, issues>>
    BY <1>9 DEF ClockRuns
<1>. QED BY <1>1, <1>2, <1>3, <1>4, <1>5, <1>6, <1>7, <1>8, <1>9 DEF Steps

-----------------------------------------------------------------------------
(* How often an address fails.  What is said of an address relates its     *)
(* window to when it failed: a window, or none, a ban in force, and a ban  *)
(* that has run out but is still on the record each allow it so much.      *)

\* What a window takes short of a ban, and the same without the failure that began it.
Short   == HelloAttempts - 1
Shorter == IF HelloAttempts > 2 THEN HelloAttempts - 2 ELSE 0

\* All failures but the last n were a ban's time ago at t.
OldBut(s, n, t) == \A i \in 1..Len(s) : i + n <= Len(s) => s[i] + BanDuration <= t

\* Failures are recorded as they happen.
InTurn(s, t) ==
    /\ Len(s) \in Nat /\ \A i \in 1..Len(s) : s[i] \in Nat /\ s[i] <= t
    /\ \A i, j \in 1..Len(s) : i <= j => s[i] <= s[j]

\* A window of f failures begun at `from` holds the last failures, and what was before it is
\* no more than two windows can leave.  Once it has a ban on the record, until `till`, each
\* failure uses up one of the q connections let in before; that ban dates from the last
\* failure, unless windows have begun since, each with a failure.
Within(s, q, f, from, till, t) ==
    /\ from <= t /\ f <= Len(s)
    /\ \A i \in 1..Len(s) : i + f <= Len(s) => s[i] <= from
    /\ till = NoBan => f < HelloAttempts /\ OldBut(s, f + Short + Shorter, from)
    /\ till # NoBan =>
         /\ OldBut(s, MostFailures - q, t)
         /\ f > 0
         /\ f >= HelloAttempts => till = s[Len(s)] + BanDuration
         /\ f < HelloAttempts =>
              /\ s[Len(s) - f + 1] = from
              /\ \A i \in 1..Len(s) : i + f + Shorter <= Len(s) =>
                   s[i] + BanDuration <= from \/ s[i] + BanDuration <= till

Windows == [failures : Nat, started : Nat, bannedUntil : Nat]

\* The same of a window as it is recorded.
Holds(s, q, w, t) == w \in Windows /\ Within(s, q, w.failures, w.started, w.bannedUntil, t)

\* What is true of an address.
Tallied(p) ==
    /\ pending[p] \in 0..MaxPending
    /\ failedAt[p] \in Seq(Nat) /\ InTurn(failedAt[p], now)
    /\ p \in DOMAIN attempts => Holds(failedAt[p], pending[p], attempts[p], now)
    /\ p \notin DOMAIN attempts => OldBut(failedAt[p], Short, now)

FailInv ==
    /\ now \in Nat /\ DOMAIN pending = Peer /\ DOMAIN failedAt = Peer
    /\ \A p \in Peer : Tallied(p)

\* More of the last failures, a later time, and one failure more.
LEMMA OldButMore ==
    ASSUME NEW s, NEW t \in Nat, InTurn(s, t), NEW n \in Nat, NEW m \in Nat, n <= m,
           NEW x \in Nat, NEW y \in Nat, x <= y, OldBut(s, n, x)
    PROVE  OldBut(s, m, y)
BY DEF OldBut, InTurn

LEMMA OldButAppended ==
    ASSUME NEW s, NEW u, NEW t \in Nat, InTurn(s, t), Len(u) = Len(s) + 1,
           \A i \in 1..Len(s) : u[i] = s[i],
           NEW n \in Nat, NEW x \in Nat, OldBut(s, n, x)
    PROVE  OldBut(u, n + 1, x)
BY DEF OldBut, InTurn

\* Whatever window an address has, it has failed no more than it may.
LEMMA WithinBound ==
    ASSUME NEW s, NEW q \in 0..MaxPending, NEW f \in Nat, NEW from \in Nat, NEW till \in Nat,
           NEW t \in Nat, InTurn(s, t), Within(s, q, f, from, till, t)
    PROVE  OldBut(s, MostFailures, t)
<1> USE DEF InTurn, Within, OldBut, Short, Shorter, MostFailures
<1>1. CASE till = NoBan
    BY <1>1
<1>2. CASE till # NoBan
    BY <1>2
<1>. QED BY <1>1, <1>2

\* Once a window is over, what it leaves is less than a ban, or a ban that has run out.
LEMMA OverLeaves ==
    ASSUME NEW s, NEW q \in 0..MaxPending, NEW f \in Nat, NEW from \in Nat, NEW till \in Nat,
           NEW t \in Nat, InTurn(s, t), Within(s, q, f, from, till, t), t - from > BanDuration
    PROVE  /\ f < HelloAttempts => OldBut(s, f, t) /\ OldBut(s, Short, t)
           /\ ~(t < till) => OldBut(s, Short, t)
           /\ f >= HelloAttempts => OldBut(s, 0, till)
<1>1. ASSUME f < HelloAttempts PROVE OldBut(s, f, t) /\ OldBut(s, Short, t)
    <2>1. OldBut(s, f, t)
        <3> SUFFICES ASSUME NEW i \in 1..Len(s), i + f <= Len(s) PROVE s[i] + BanDuration <= t
            BY DEF OldBut
        <3>1. s[i] <= from
            BY DEF Within
        <3>2. s[i] \in Nat
            BY DEF InTurn
        <3>. QED BY <3>1, <3>2
    <2>2. Short \in Nat /\ f <= Short
        BY <1>1 DEF Short
    <2>. QED BY <2>1, <2>2, OldButMore
<1>2. ASSUME f >= HelloAttempts PROVE OldBut(s, 0, till)
    <2>1. Len(s) \in 1..Len(s) /\ till = s[Len(s)] + BanDuration
        BY <1>2 DEF Within, InTurn
    <2>. QED BY <2>1 DEF OldBut, InTurn
<1>3. ASSUME ~(t < till), f >= HelloAttempts PROVE OldBut(s, Short, t)
    BY <1>2, <1>3, OldButMore DEF Short
<1>. QED BY <1>1, <1>2, <1>3

\* A failure is recorded.
LEMMA FailedAppend ==
    ASSUME NEW s \in Seq(Nat), NEW t \in Nat, InTurn(s, t)
    PROVE  /\ Append(s, t) \in Seq(Nat) /\ InTurn(Append(s, t), t)
           /\ Len(Append(s, t)) = Len(s) + 1 /\ Append(s, t)[Len(s) + 1] = t
           /\ \A i \in 1..Len(s) : Append(s, t)[i] = s[i]
<1> DEFINE u == Append(s, t)
<1>1. u \in Seq(Nat) /\ Len(u) = Len(s) + 1 /\ Len(s) \in Nat /\ u[Len(s) + 1] = t
      /\ \A i \in 1..Len(s) : u[i] = s[i]
    OBVIOUS
<1> HIDE DEF u
<1>2. \A i \in 1..Len(s) : s[i] \in Nat /\ s[i] <= t
    BY DEF InTurn
<1>3. ASSUME NEW i \in 1..Len(u) PROVE u[i] \in Nat /\ u[i] <= t
    <2>1. CASE i = Len(s) + 1
        BY <1>1, <2>1
    <2>2. CASE i # Len(s) + 1
        <3>1. i \in 1..Len(s)
            BY <1>1, <2>2
        <3>. QED BY <1>1, <1>2, <3>1
    <2>. QED BY <2>1, <2>2
<1>4. \A i, j \in 1..Len(u) : i <= j => u[i] <= u[j]
    <2> SUFFICES ASSUME NEW i \in 1..Len(u), NEW j \in 1..Len(u), i <= j PROVE u[i] <= u[j]
        OBVIOUS
    <2>1. CASE j = Len(s) + 1
        BY <1>1, <1>3, <2>1
    <2>2. CASE j # Len(s) + 1
        <3>1. i \in 1..Len(s) /\ j \in 1..Len(s)
            BY <1>1, <2>2
        <3>. QED BY <1>1, <3>1 DEF InTurn
    <2>. QED BY <2>1, <2>2
<1>5. InTurn(u, t)
    BY <1>1, <1>3, <1>4 DEF InTurn
<1>. QED BY <1>1, <1>5 DEF u

\* A window that goes on takes one failure more.
LEMMA FailsOn ==
    ASSUME NEW s, NEW u, NEW q \in 1..MaxPending, NEW f \in Nat, NEW from \in Nat,
           NEW till \in Nat, NEW t \in Nat, InTurn(s, t), Within(s, q, f, from, till, t),
           InTurn(u, t), Len(u) = Len(s) + 1, u[Len(s) + 1] = t,
           \A i \in 1..Len(s) : u[i] = s[i],
           NEW end \in Nat, end = IF f + 1 >= HelloAttempts THEN t + BanDuration ELSE till
    PROVE  Within(u, q - 1, f + 1, from, end, t)
<1>1. Len(s) \in Nat /\ \A i \in 1..Len(s) : s[i] \in Nat
    BY DEF InTurn
<1>2. \A i \in 1..Len(u) : i <= Len(s) => i \in 1..Len(s) /\ u[i] = s[i]
    BY <1>1
<1>3. /\ from <= t /\ f + 1 <= Len(u)
      /\ \A i \in 1..Len(u) : i + (f + 1) <= Len(u) => u[i] <= from
    BY <1>1, <1>2 DEF Within
<1>4. CASE till = NoBan /\ f + 1 < HelloAttempts
    <2>1. OldBut(u, (f + 1) + Short + Shorter, from)
        <3>1. OldBut(s, f + Short + Shorter, from)
            BY <1>4 DEF Within
        <3>2. /\ f + Short + Shorter \in Nat
              /\ (f + 1) + Short + Shorter = (f + Short + Shorter) + 1
            BY DEF Short, Shorter
        <3>. QED BY <3>1, <3>2, OldButAppended
    <2>. QED BY <1>3, <1>4, <2>1 DEF Within
<1>5. CASE f + 1 >= HelloAttempts
    <2>1. end # NoBan /\ f + 1 > 0 /\ end = u[Len(u)] + BanDuration
        BY <1>1, <1>5 DEF NoBan
    <2>2. OldBut(u, MostFailures - (q - 1), t)
        <3>1. OldBut(s, MostFailures - q, t)
            <4>1. CASE till # NoBan
                BY <4>1 DEF Within
            <4>2. CASE till = NoBan
                <5>1. /\ OldBut(s, f + Short + Shorter, from) /\ f + Short + Shorter \in Nat
                      /\ f + Short + Shorter <= MostFailures - q /\ MostFailures - q \in Nat
                    BY <4>2 DEF Within, Short, Shorter, MostFailures
                <5>. QED BY <1>3, <5>1, OldButMore
            <4>. QED BY <4>1, <4>2
        <3>2. MostFailures - q \in Nat /\ MostFailures - (q - 1) = (MostFailures - q) + 1
            BY DEF MostFailures
        <3>. QED BY <3>1, <3>2, OldButAppended
    <2>. QED BY <1>3, <1>5, <2>1, <2>2 DEF Within
<1>6. CASE till # NoBan /\ f + 1 < HelloAttempts
    <2>1. OldBut(u, MostFailures - (q - 1), t)
        <3>1. OldBut(s, MostFailures - q, t)
            BY <1>6 DEF Within
        <3>2. MostFailures - q \in Nat /\ MostFailures - (q - 1) = (MostFailures - q) + 1
            BY DEF MostFailures
        <3>. QED BY <3>1, <3>2, OldButAppended
    <2>2. u[Len(u) - (f + 1) + 1] = from
        BY <1>1, <1>6 DEF Within
    <2>3. \A i \in 1..Len(u) : i + (f + 1) + Shorter <= Len(u) =>
            u[i] + BanDuration <= from \/ u[i] + BanDuration <= end
        <3> SUFFICES ASSUME NEW i \in 1..Len(u), i + (f + 1) + Shorter <= Len(u)
                     PROVE  u[i] + BanDuration <= from \/ u[i] + BanDuration <= end
            OBVIOUS
        <3>1. i \in 1..Len(s) /\ i + f + Shorter <= Len(s) /\ end = till
            BY <1>1, <1>6 DEF Shorter
        <3>2. s[i] + BanDuration <= from \/ s[i] + BanDuration <= till
            BY <1>6, <3>1 DEF Within
        <3>. QED BY <3>1, <3>2
    <2>. QED BY <1>3, <1>6, <2>1, <2>2, <2>3 DEF Within
<1>. QED BY <1>4, <1>5, <1>6

\* So does one that begins with a failure, when what is left of earlier ones is as little.
LEMMA FailsAnew ==
    ASSUME NEW s, NEW u, NEW q \in 1..MaxPending, NEW till \in Nat, NEW t \in Nat,
           InTurn(s, t), InTurn(u, t), Len(u) = Len(s) + 1, u[Len(s) + 1] = t,
           \A i \in 1..Len(s) : u[i] = s[i],
           till = NoBan => OldBut(s, Short, t),
           till # NoBan =>
             /\ OldBut(s, MostFailures - q, t)
             /\ \A i \in 1..Len(s) : i + Shorter <= Len(s) =>
                  s[i] + BanDuration <= t \/ s[i] + BanDuration <= till,
           NEW end \in Nat, end = IF 1 >= HelloAttempts THEN t + BanDuration ELSE till
    PROVE  Within(u, q - 1, 1, t, end, t)
<1>1. Len(s) \in Nat /\ \A i \in 1..Len(s) : s[i] \in Nat
    BY DEF InTurn
<1>2. \A i \in 1..Len(u) : i <= Len(s) => i \in 1..Len(s) /\ u[i] = s[i] /\ s[i] <= t
    BY <1>1 DEF InTurn
<1>3. t <= t /\ 1 <= Len(u) /\ \A i \in 1..Len(u) : i + 1 <= Len(u) => u[i] <= t
    BY <1>1, <1>2
<1>4. OldBut(u, MostFailures - (q - 1), t)
    BY <1>1, <1>2 DEF OldBut, Short, Shorter, MostFailures
<1>5. CASE HelloAttempts = 1
    BY <1>1, <1>3, <1>4, <1>5 DEF Within, NoBan
<1>6. CASE HelloAttempts > 1 /\ till = NoBan
    <2>1. OldBut(u, 1 + Short + Shorter, t)
        BY <1>1, <1>2, <1>6 DEF OldBut, Short, Shorter
    <2>. QED BY <1>3, <1>6, <2>1 DEF Within
<1>7. CASE HelloAttempts > 1 /\ till # NoBan
    <2>1. \A i \in 1..Len(u) : i + 1 + Shorter <= Len(u) =>
            u[i] + BanDuration <= t \/ u[i] + BanDuration <= end
        BY <1>1, <1>2, <1>7 DEF Shorter
    <2>2. u[Len(u) - 1 + 1] = t
        BY <1>1
    <2>. QED BY <1>3, <1>4, <1>7, <2>1, <2>2 DEF Within
<1>. QED BY <1>5, <1>6, <1>7

\* A window over is no more than one that begins with a failure may follow.
LEMMA FailsAfter ==
    ASSUME NEW s, NEW q \in 1..MaxPending, NEW f \in Nat, NEW from \in Nat, NEW till \in Nat,
           NEW t \in Nat, InTurn(s, t), Within(s, q, f, from, till, t), t - from > BanDuration
    PROVE  /\ till = NoBan => OldBut(s, Short, t)
           /\ till # NoBan =>
                /\ OldBut(s, MostFailures - q, t)
                /\ \A i \in 1..Len(s) : i + Shorter <= Len(s) =>
                     s[i] + BanDuration <= t \/ s[i] + BanDuration <= till
<1>1. ASSUME till = NoBan PROVE OldBut(s, Short, t)
    <2>1. f < HelloAttempts
        BY <1>1 DEF Within
    <2>. QED BY <2>1, OverLeaves
<1>2. ASSUME till # NoBan PROVE OldBut(s, MostFailures - q, t)
    BY <1>2 DEF Within
<1>3. ASSUME till # NoBan, NEW i \in 1..Len(s), i + Shorter <= Len(s)
      PROVE  s[i] + BanDuration <= t \/ s[i] + BanDuration <= till
    <2>0. Len(s) \in Nat /\ s[i] \in Nat
        BY DEF InTurn
    <2>1. CASE f >= HelloAttempts
        <3>1. OldBut(s, 0, till)
            BY <2>1, OverLeaves
        <3>. QED BY <2>0, <3>1 DEF OldBut
    <2>2. CASE f < HelloAttempts
        <3>1. s[Len(s) - f + 1] = from /\ f > 0 /\ f <= Len(s)
            BY <1>3, <2>2 DEF Within
        <3>2. OldBut(s, f, t)
            BY <2>2, OverLeaves
        <3>3. i <= Len(s) - f + 1
            BY <1>3, <2>0, <2>2 DEF Shorter
        <3>. QED BY <2>0, <3>1, <3>2, <3>3 DEF OldBut
    <2>. QED BY <2>1, <2>2
<1>. QED BY <1>1, <1>2, <1>3

\* The allowance is given again when a ban has run out.
LEMMA BanOver ==
    ASSUME NEW s, NEW q \in 0..MaxPending, NEW r \in 0..MaxPending, NEW f \in Nat,
           NEW from \in Nat, NEW till \in Nat, NEW t \in Nat, InTurn(s, t),
           Within(s, q, f, from, till, t), till # NoBan, ~(t < till)
    PROVE  Within(s, r, 0, t, NoBan, t)
<1>0. Len(s) \in Nat /\ \A i \in 1..Len(s) : s[i] \in Nat /\ s[i] <= t
    BY DEF InTurn
<1>1. OldBut(s, 0 + Short + Shorter, t)
    <2>1. CASE f >= HelloAttempts
        <3>1. Len(s) \in 1..Len(s) /\ till = s[Len(s)] + BanDuration
            BY <1>0, <2>1 DEF Within
        <3>. QED BY <1>0, <3>1 DEF InTurn, OldBut, Short, Shorter
    <2>2. CASE f < HelloAttempts
        <3> SUFFICES ASSUME NEW i \in 1..Len(s), i + (0 + Short + Shorter) <= Len(s)
                     PROVE  s[i] + BanDuration <= t
            BY DEF OldBut
        <3>1. i + f + Shorter <= Len(s)
            BY <1>0, <2>2 DEF Short, Shorter
        <3>2. from <= t /\ (s[i] + BanDuration <= from \/ s[i] + BanDuration <= till)
            BY <2>2, <3>1 DEF Within
        <3>. QED BY <1>0, <3>2
    <2>. QED BY <2>1, <2>2
<1>. QED BY <1>0, <1>1 DEF NoBan, Within

\* Time passes, and connections are heard.
LEMMA LaterInTurn ==
    ASSUME NEW s, NEW t \in Nat, NEW later \in Nat, InTurn(s, t), t <= later
    PROVE  InTurn(s, later)
BY DEF InTurn

LEMMA LaterWithin ==
    ASSUME NEW s, NEW q \in 0..MaxPending, NEW r \in 0..MaxPending, NEW f \in Nat,
           NEW from \in Nat, NEW till \in Nat, NEW t \in Nat, NEW later \in Nat,
           InTurn(s, t), Within(s, q, f, from, till, t), t <= later, r <= q \/ till = NoBan
    PROVE  InTurn(s, later) /\ Within(s, r, f, from, till, later)
<1>0. Len(s) \in Nat /\ \A i \in 1..Len(s) : s[i] \in Nat /\ s[i] <= t
    BY DEF InTurn
<1>1. InTurn(s, later)
    BY LaterInTurn
<1>2. till # NoBan => OldBut(s, MostFailures - r, later)
    <2> SUFFICES ASSUME till # NoBan PROVE OldBut(s, MostFailures - r, later)
        OBVIOUS
    <2>1. OldBut(s, MostFailures - q, t)
        BY DEF Within
    <2>2. MostFailures - q \in Nat /\ MostFailures - r \in Nat /\ MostFailures - q <= MostFailures - r
        BY DEF MostFailures
    <2>. QED BY <2>1, <2>2, OldButMore
<1>. QED BY <1>1, <1>2 DEF Within

\* What a failure does to a window.
LEMMA FailedFields ==
    ASSUME NEW w \in Windows, NEW t \in Nat, NEW v, v = Failed(w, t)
    PROVE  /\ v \in Windows /\ v.failures = w.failures + 1 /\ v.started = w.started
           /\ v.bannedUntil = IF w.failures + 1 >= HelloAttempts
                              THEN t + BanDuration ELSE w.bannedUntil
<1> DEFINE a == w.failures + 1
           b == IF w.failures + 1 >= HelloAttempts THEN t + BanDuration ELSE w.bannedUntil
<1>1. a \in Nat /\ b \in Nat
    BY DEF Windows
<1>2. v = [w EXCEPT !.failures = a, !.bannedUntil = b]
    BY DEF Failed
<1> HIDE DEF a, b
<1>3. v \in Windows /\ v.failures = a /\ v.started = w.started /\ v.bannedUntil = b
    BY <1>1, <1>2 DEF Windows
<1>. QED BY <1>3 DEF a, b

\* A failure of an address that has a window.
LEMMA FailsHeld ==
    ASSUME NEW s, NEW u, NEW q \in 1..MaxPending, NEW w, NEW t \in Nat,
           InTurn(s, t), InTurn(u, t), Holds(s, q, w, t),
           Len(u) = Len(s) + 1, u[Len(s) + 1] = t, \A i \in 1..Len(s) : u[i] = s[i]
    PROVE  Holds(u, q - 1, Failed(Window(w, t), t), t)
<1> DEFINE n == Window(w, t)
           v == Failed(n, t)
<1>0. /\ w \in Windows /\ Within(s, q, w.failures, w.started, w.bannedUntil, t)
      /\ w.failures \in Nat /\ w.started \in Nat /\ w.bannedUntil \in Nat
    BY DEF Holds, Windows
<1>1. CASE ~(t - w.started > BanDuration)
    <2>1. n = w
        BY <1>1 DEF Window
    <2> HIDE DEF n
    <2>n. n \in Windows => /\ v \in Windows /\ v.failures = n.failures + 1 /\ v.started = n.started
                           /\ v.bannedUntil = IF n.failures + 1 >= HelloAttempts
                                              THEN t + BanDuration ELSE n.bannedUntil
        BY FailedFields
    <2>2. /\ v \in Windows /\ v.failures = w.failures + 1 /\ v.started = w.started
          /\ v.bannedUntil = IF w.failures + 1 >= HelloAttempts
                             THEN t + BanDuration ELSE w.bannedUntil
        BY <1>0, <2>1, <2>n
    <2> HIDE DEF v
    <2>3. v.bannedUntil \in Nat
        BY <2>2 DEF Windows
    <2>4. Within(u, q - 1, w.failures + 1, w.started, v.bannedUntil, t)
        BY <1>0, <2>2, <2>3, FailsOn
    <2>. QED BY <2>2, <2>4 DEF Holds, v, n
<1>2. CASE t - w.started > BanDuration
    <2>1. n \in Windows /\ n.failures = 0 /\ n.started = t /\ n.bannedUntil = w.bannedUntil
        BY <1>0, <1>2 DEF Window, Windows
    <2> HIDE DEF n
    <2>n. n \in Windows => /\ v \in Windows /\ v.failures = n.failures + 1 /\ v.started = n.started
                           /\ v.bannedUntil = IF n.failures + 1 >= HelloAttempts
                                              THEN t + BanDuration ELSE n.bannedUntil
        BY FailedFields
    <2>2. /\ v \in Windows /\ v.failures = 0 + 1 /\ v.started = t
          /\ v.bannedUntil = IF 0 + 1 >= HelloAttempts
                             THEN t + BanDuration ELSE w.bannedUntil
        BY <2>1, <2>n
    <2> HIDE DEF v
    <2>3. v.bannedUntil \in Nat /\ v.failures = 1
          /\ v.bannedUntil = IF 1 >= HelloAttempts THEN t + BanDuration ELSE w.bannedUntil
        BY <2>2 DEF Windows
    <2>4. /\ w.bannedUntil = NoBan => OldBut(s, Short, t)
          /\ w.bannedUntil # NoBan =>
               /\ OldBut(s, MostFailures - q, t)
               /\ \A i \in 1..Len(s) : i + Shorter <= Len(s) =>
                    s[i] + BanDuration <= t \/ s[i] + BanDuration <= w.bannedUntil
        BY <1>0, <1>2, FailsAfter
    <2>5. Within(u, q - 1, 1, t, v.bannedUntil, t)
        BY <1>0, <2>3, <2>4, FailsAnew
    <2>. QED BY <2>2, <2>3, <2>5 DEF Holds, v, n
<1>. QED BY <1>1, <1>2

\* A failure of one that has none.
LEMMA FailsUnseen ==
    ASSUME NEW s, NEW u, NEW q \in 1..MaxPending, NEW t \in Nat,
           InTurn(s, t), InTurn(u, t), OldBut(s, Short, t),
           Len(u) = Len(s) + 1, u[Len(s) + 1] = t, \A i \in 1..Len(s) : u[i] = s[i]
    PROVE  Holds(u, q - 1, Failed(Window(NewWindow(t), t), t), t)
<1> DEFINE n == Window(NewWindow(t), t)
           v == Failed(n, t)
<1>1. n \in Windows /\ n.failures = 0 /\ n.started = t /\ n.bannedUntil = NoBan
    BY DEF NewWindow, Window, NoBan, Windows
<1> HIDE DEF n
<1>2. /\ v \in Windows /\ v.failures = 0 + 1 /\ v.started = t
      /\ v.bannedUntil = IF 0 + 1 >= HelloAttempts THEN t + BanDuration ELSE NoBan
    <2>1. /\ v \in Windows /\ v.failures = n.failures + 1 /\ v.started = n.started
          /\ v.bannedUntil = IF n.failures + 1 >= HelloAttempts
                             THEN t + BanDuration ELSE n.bannedUntil
        BY <1>1, FailedFields
    <2>. QED BY <1>1, <2>1
<1> HIDE DEF v
<1>3. /\ v.bannedUntil \in Nat /\ v.failures = 1 /\ NoBan \in Nat
      /\ v.bannedUntil = IF 1 >= HelloAttempts THEN t + BanDuration ELSE NoBan
    BY <1>2 DEF Windows, NoBan
<1>4. Within(u, q - 1, 1, t, v.bannedUntil, t)
    BY <1>3, FailsAnew
<1>. QED BY <1>2, <1>3, <1>4 DEF Holds, v, n

\* It holds at the start.
LEMMA FailInit == Init => FailInv
<1> SUFFICES ASSUME Init PROVE FailInv
    OBVIOUS
<1>1. /\ now = 0 /\ DOMAIN attempts = {} /\ DOMAIN pending = Peer /\ DOMAIN failedAt = Peer
      /\ \A p \in Peer : pending[p] = 0 /\ failedAt[p] = <<>>
    BY DEF Init, EmptyTable
<1>2. <<>> \in Seq(Nat) /\ InTurn(<<>>, 0) /\ OldBut(<<>>, Short, 0)
    BY DEF InTurn, OldBut
<1>3. ASSUME NEW p \in Peer PROVE Tallied(p)
    <2>1. 0 \in 0..MaxPending /\ p \notin DOMAIN attempts
        BY <1>1
    <2>. QED BY <1>1, <1>2, <2>1 DEF Tallied
<1>. QED BY <1>1, <1>3 DEF FailInv

\* What a step leaves of an address, it leaves true.
Untouched(p) ==
    /\ pending'[p] = pending[p] /\ failedAt'[p] = failedAt[p]
    /\ p \in DOMAIN attempts' <=> p \in DOMAIN attempts
    /\ p \in DOMAIN attempts => attempts'[p] = attempts[p]

LEMMA UntouchedTallied ==
    ASSUME NEW p \in Peer, Tallied(p), Untouched(p), now' = now
    PROVE  Tallied(p)'
BY DEF Tallied, Untouched

\* A connection is let in or turned away.
LEMMA ArriveTallied == ASSUME FailInv, NEW peer \in Peer, Arrive(peer) PROVE FailInv'
<1>1. /\ now' = now /\ failedAt' = failedAt /\ pending[peer] < MaxPending
      /\ attempts' = Admit(attempts, peer, now)
      /\ pending' = IF Banned(attempts, peer, now) THEN pending
                    ELSE [pending EXCEPT ![peer] = @ + 1]
    BY DEF Arrive
<1>2. now \in Nat /\ DOMAIN pending = Peer /\ DOMAIN failedAt = Peer
      /\ \A p \in Peer : Tallied(p)
    BY DEF FailInv
<1> DEFINE again == /\ peer \in DOMAIN attempts
                    /\ attempts[peer].bannedUntil # NoBan
                    /\ ~Banned(attempts, peer, now)
<1>3. ASSUME NEW p \in Peer \ {peer} PROVE Tallied(p)'
    <2>1. Untouched(p)
        BY <1>1, <1>2 DEF Untouched, Admit, Put
    <2>. QED BY <1>1, <1>2, <2>1, UntouchedTallied
<1>4. Tallied(peer)'
    <2> DEFINE s == failedAt[peer]
               q == pending[peer]
               w == attempts[peer]
    <2>1. /\ q \in 0..MaxPending /\ s \in Seq(Nat) /\ InTurn(s, now)
          /\ peer \in DOMAIN attempts => Holds(s, q, w, now)
          /\ peer \notin DOMAIN attempts => OldBut(s, Short, now)
        BY <1>2 DEF Tallied
    <2>2. CASE Banned(attempts, peer, now)
        <3>1. Untouched(peer)
            BY <1>1, <2>2 DEF Untouched, Admit
        <3>. QED BY <1>1, <1>2, <3>1, UntouchedTallied
    <2>3. CASE ~Banned(attempts, peer, now)
        <3>1. pending'[peer] = q + 1 /\ q + 1 \in 0..MaxPending
            BY <1>1, <1>2, <2>1, <2>3
        <3> HIDE DEF q
        <3>2. CASE peer \notin DOMAIN attempts
            <4>1. attempts' = attempts
                BY <1>1, <3>2 DEF Admit
            <4>. QED BY <1>1, <2>1, <3>1, <3>2, <4>1 DEF Tallied
        <3>3. CASE peer \in DOMAIN attempts
            <4>1. /\ w \in Windows /\ w.failures \in Nat /\ w.started \in Nat
                  /\ w.bannedUntil \in Nat
                  /\ Within(s, q, w.failures, w.started, w.bannedUntil, now)
                BY <2>1, <3>3 DEF Holds, Windows
            <4>2. ~(now < w.bannedUntil)
                BY <2>3, <3>3 DEF Banned
            <4>3. CASE again
                <5>1. /\ peer \in DOMAIN attempts' /\ attempts'[peer] = NewWindow(now)
                    <6>1. attempts' = Put(attempts, peer, NewWindow(now))
                        BY <1>1, <4>3 DEF Admit
                    <6>. QED BY <6>1 DEF Put
                <5>2. Within(s, q + 1, 0, now, NoBan, now)
                    BY <1>2, <2>1, <3>1, <4>1, <4>2, <4>3, BanOver
                <5>3. Holds(s, q + 1, NewWindow(now), now)
                    <6> DEFINE v == NewWindow(now)
                    <6>1. v \in Windows /\ v.failures = 0 /\ v.started = now
                          /\ v.bannedUntil = NoBan
                        BY <1>2 DEF NewWindow, NoBan, Windows
                    <6> HIDE DEF v
                    <6>. QED BY <5>2, <6>1 DEF Holds, v
                <5>. QED BY <1>1, <2>1, <3>1, <5>1, <5>3 DEF Tallied
            <4>4. CASE ~again
                <5>1. attempts' = attempts /\ w.bannedUntil = NoBan
                    BY <1>1, <2>3, <3>3, <4>4 DEF Admit
                <5>2. Within(s, q + 1, w.failures, w.started, w.bannedUntil, now)
                    BY <1>2, <2>1, <3>1, <4>1, <5>1, LaterWithin
                <5>3. Holds(s, q + 1, w, now)
                    BY <4>1, <5>2 DEF Holds
                <5>. QED BY <1>1, <2>1, <3>1, <3>3, <5>1, <5>3 DEF Tallied
            <4>. QED BY <4>3, <4>4
        <3>. QED BY <3>2, <3>3
    <2>. QED BY <2>2, <2>3
<1>. QED BY <1>1, <1>2, <1>3, <1>4 DEF FailInv

\* A connection is heard, whatever comes of it.
LEMMA HeardFacts ==
    ASSUME FailInv, NEW peer \in Peer, Heard(peer)
    PROVE  /\ pending[peer] \in 1..MaxPending /\ pending[peer] - 1 \in 0..MaxPending
           /\ pending'[peer] = pending[peer] - 1 /\ DOMAIN pending' = Peer
           /\ \A p \in Peer \ {peer} : pending'[p] = pending[p]
BY DEF FailInv, Tallied, Heard

\* A connection ends before it says anything.
LEMMA GiveUpTallied ==
    ASSUME FailInv, NEW peer \in Peer, Heard(peer), UNCHANGED <<now, attempts, failedAt>>
    PROVE  FailInv'
<1>1. now \in Nat /\ DOMAIN failedAt = Peer /\ \A p \in Peer : Tallied(p)
    BY DEF FailInv
<1>2. ASSUME NEW p \in Peer \ {peer} PROVE Tallied(p)'
    <2>1. Untouched(p)
        BY HeardFacts DEF Untouched
    <2>. QED BY <1>1, <2>1, UntouchedTallied
<1>3. Tallied(peer)'
    <2> DEFINE s == failedAt[peer]
               q == pending[peer]
               w == attempts[peer]
    <2>1. /\ s \in Seq(Nat) /\ InTurn(s, now)
          /\ peer \in DOMAIN attempts => Holds(s, q, w, now)
          /\ peer \notin DOMAIN attempts => OldBut(s, Short, now)
        BY <1>1 DEF Tallied
    <2>2. /\ q \in 0..MaxPending /\ q - 1 \in 0..MaxPending /\ q - 1 <= q
          /\ pending'[peer] = q - 1
        BY HeardFacts
    <2> HIDE DEF q, s
    <2>3. ASSUME peer \in DOMAIN attempts PROVE Holds(s, q - 1, w, now)
        <3>1. /\ w \in Windows /\ w.failures \in Nat /\ w.started \in Nat
              /\ w.bannedUntil \in Nat
              /\ Within(s, q, w.failures, w.started, w.bannedUntil, now)
            BY <2>1, <2>3 DEF Holds, Windows
        <3>2. Within(s, q - 1, w.failures, w.started, w.bannedUntil, now)
            BY <1>1, <2>1, <2>2, <3>1, LaterWithin
        <3>. QED BY <3>1, <3>2 DEF Holds
    <2>. QED BY <2>1, <2>2, <2>3 DEF Tallied, s
<1>. QED BY <1>1, <1>2, <1>3, HeardFacts DEF FailInv

\* A handshake fails.
LEMMA FailsTallied ==
    ASSUME FailInv, NEW peer \in Peer, Heard(peer), Fails(peer), now' = now
    PROVE  FailInv'
<1>1. now \in Nat /\ DOMAIN failedAt = Peer /\ \A p \in Peer : Tallied(p)
    BY DEF FailInv
<1> DEFINE s == failedAt[peer]
           u == Append(s, now)
           q == pending[peer]
           held == IF peer \in DOMAIN attempts THEN attempts[peer] ELSE NewWindow(now)
           v == Failed(Window(held, now), now)
<1>2. /\ DOMAIN failedAt' = Peer /\ failedAt'[peer] = u
      /\ \A p \in Peer \ {peer} : failedAt'[p] = failedAt[p]
    BY <1>1 DEF Fails
<1>3. /\ DOMAIN attempts' = DOMAIN attempts \cup {peer} /\ attempts'[peer] = v
      /\ \A p \in DOMAIN attempts : p # peer => attempts'[p] = attempts[p]
    <2>1. attempts' = Put(attempts, peer, v)
        BY DEF Fails, HandshakeFailed
    <2> HIDE DEF v
    <2>. QED BY <2>1 DEF Put
<1>4. ASSUME NEW p \in Peer \ {peer} PROVE Tallied(p)'
    <2>1. Untouched(p)
        BY <1>2, <1>3, HeardFacts DEF Untouched
    <2>. QED BY <1>1, <2>1, UntouchedTallied
<1>5. Tallied(peer)'
    <2>1. /\ s \in Seq(Nat) /\ InTurn(s, now)
          /\ peer \in DOMAIN attempts => Holds(s, q, attempts[peer], now)
          /\ peer \notin DOMAIN attempts => OldBut(s, Short, now)
        BY <1>1 DEF Tallied
    <2>2. /\ u \in Seq(Nat) /\ InTurn(u, now) /\ Len(u) = Len(s) + 1 /\ u[Len(s) + 1] = now
          /\ \A i \in 1..Len(s) : u[i] = s[i]
        BY <1>1, <2>1, FailedAppend
    <2>3. q \in 1..MaxPending /\ q - 1 \in 0..MaxPending /\ pending'[peer] = q - 1
        BY HeardFacts
    <2> HIDE DEF s, u, q
    <2>4. Holds(u, q - 1, v, now)
        <3>1. CASE peer \in DOMAIN attempts
            <4>1. held = attempts[peer]
                BY <3>1
            <4> HIDE DEF held
            <4>. QED BY <1>1, <2>1, <2>2, <2>3, <3>1, <4>1, FailsHeld
        <3>2. CASE peer \notin DOMAIN attempts
            <4>1. held = NewWindow(now)
                BY <3>2
            <4> HIDE DEF held
            <4>. QED BY <1>1, <2>1, <2>2, <2>3, <3>2, <4>1, FailsUnseen
        <3>. QED BY <3>1, <3>2
    <2> HIDE DEF v
    <2>. QED BY <1>2, <1>3, <2>2, <2>3, <2>4 DEF Tallied
<1>. QED BY <1>1, <1>2, <1>4, <1>5, HeardFacts DEF FailInv

\* A handshake succeeds.
LEMMA SucceedsTallied ==
    ASSUME FailInv, NEW peer \in Peer, Heard(peer), Succeeds(peer), now' = now
    PROVE  FailInv'
<1>1. now \in Nat /\ DOMAIN failedAt = Peer /\ \A p \in Peer : Tallied(p)
    BY DEF FailInv
<1>2. /\ DOMAIN failedAt' = Peer /\ failedAt'[peer] = <<>>
      /\ \A p \in Peer \ {peer} : failedAt'[p] = failedAt[p]
    BY <1>1 DEF Succeeds
<1>3. /\ DOMAIN attempts' = DOMAIN attempts \ {peer}
      /\ \A p \in DOMAIN attempts \ {peer} : attempts'[p] = attempts[p]
    BY DropFacts DEF Succeeds, HandshakeSucceeded
<1>4. ASSUME NEW p \in Peer \ {peer} PROVE Tallied(p)'
    <2>1. Untouched(p)
        BY <1>2, <1>3, HeardFacts DEF Untouched
    <2>. QED BY <1>1, <2>1, UntouchedTallied
<1>5. Tallied(peer)'
    <2>1. <<>> \in Seq(Nat) /\ InTurn(<<>>, now) /\ OldBut(<<>>, Short, now)
        BY DEF InTurn, OldBut
    <2>2. pending'[peer] \in 0..MaxPending
        BY HeardFacts
    <2>. QED BY <1>2, <1>3, <2>1, <2>2 DEF Tallied
<1>. QED BY <1>1, <1>2, <1>4, <1>5, HeardFacts DEF FailInv

\* What has run out is dropped.
LEMMA ExpireTallied == ASSUME FailInv, Expire PROVE FailInv'
<1>1. now \in Nat /\ \A p \in Peer : Tallied(p)
    BY DEF FailInv
<1>2. UNCHANGED <<now, pending, failedAt>> /\ attempts' = ExpireWindows(attempts, now)
    BY DEF Expire
<1> DEFINE gone == {p \in DOMAIN attempts : /\ ~Banned(attempts, p, now)
                                            /\ now - attempts[p].started > BanDuration}
<1>3. /\ DOMAIN attempts' = DOMAIN attempts \ gone
      /\ \A p \in DOMAIN attempts \ gone : attempts'[p] = attempts[p]
    BY <1>2, DropFacts DEF ExpireWindows
<1>4. ASSUME NEW p \in Peer PROVE Tallied(p)'
    <2>1. CASE p \notin gone
        <3>1. Untouched(p)
            BY <1>2, <1>3, <2>1 DEF Untouched
        <3>. QED BY <1>1, <1>2, <3>1, UntouchedTallied
    <2>2. CASE p \in gone
        <3> DEFINE s == failedAt[p]
                   q == pending[p]
                   w == attempts[p]
        <3>1. /\ q \in 0..MaxPending /\ s \in Seq(Nat) /\ InTurn(s, now)
              /\ Holds(s, q, w, now)
            BY <1>1, <2>2 DEF Tallied
        <3>2. ~(now < w.bannedUntil) /\ now - w.started > BanDuration
            BY <2>2 DEF Banned
        <3>3. /\ w.failures \in Nat /\ w.started \in Nat /\ w.bannedUntil \in Nat
              /\ Within(s, q, w.failures, w.started, w.bannedUntil, now)
            BY <3>1 DEF Holds, Windows
        <3>4. OldBut(s, Short, now)
            BY <1>1, <3>1, <3>2, <3>3, OverLeaves
        <3>. QED BY <1>2, <1>3, <2>2, <3>1, <3>4 DEF Tallied
    <2>. QED BY <2>1, <2>2
<1>. QED BY <1>1, <1>2, <1>4 DEF FailInv

\* Time passes.
LEMMA TickTallied == ASSUME FailInv, Tick PROVE FailInv'
<1>1. now \in Nat /\ \A p \in Peer : Tallied(p)
    BY DEF FailInv
<1>2. UNCHANGED <<attempts, pending, failedAt>> /\ now' = now + 1
    BY DEF Tick, gate
<1>3. ASSUME NEW p \in Peer PROVE Tallied(p)'
    <2> DEFINE s == failedAt[p]
               q == pending[p]
               w == attempts[p]
    <2>1. /\ q \in 0..MaxPending /\ s \in Seq(Nat) /\ InTurn(s, now)
          /\ p \in DOMAIN attempts => Holds(s, q, w, now)
          /\ p \notin DOMAIN attempts => OldBut(s, Short, now)
        BY <1>1 DEF Tallied
    <2>2. now + 1 \in Nat /\ now <= now + 1 /\ InTurn(s, now + 1)
        <3>1. now + 1 \in Nat /\ now <= now + 1
            BY <1>1
        <3>. QED BY <1>1, <2>1, <3>1, LaterInTurn
    <2>3. ASSUME p \in DOMAIN attempts PROVE Holds(s, q, w, now + 1)
        <3>1. /\ w \in Windows /\ w.failures \in Nat /\ w.started \in Nat
              /\ w.bannedUntil \in Nat
              /\ Within(s, q, w.failures, w.started, w.bannedUntil, now)
            BY <2>1, <2>3 DEF Holds, Windows
        <3>2. Within(s, q, w.failures, w.started, w.bannedUntil, now + 1)
            BY <1>1, <2>1, <2>2, <3>1, LaterWithin
        <3>. QED BY <3>1, <3>2 DEF Holds
    <2>4. ASSUME p \notin DOMAIN attempts PROVE OldBut(s, Short, now + 1)
        <3>1. Short \in Nat /\ Short <= Short
            BY DEF Short
        <3>. QED BY <1>1, <2>1, <2>2, <2>4, <3>1, OldButMore
    <2>. QED BY <1>2, <2>1, <2>2, <2>3, <2>4 DEF Tallied
<1>. QED BY <1>1, <1>2, <1>3 DEF FailInv

\* Every step keeps it.
LEMMA FailStep == FailInv /\ [Next]_vars => FailInv'
<1> SUFFICES ASSUME FailInv, [Next]_vars PROVE FailInv'
    OBVIOUS
<1>1. ASSUME UNCHANGED <<now, attempts, pending, failedAt>> PROVE FailInv'
    BY <1>1 DEF FailInv, Tallied
<1>2. CASE UNCHANGED vars
    BY <1>1, <1>2 DEF vars, gate
<1>3. ASSUME NEW peer \in Peer, GiveUp(peer) PROVE FailInv'
    BY <1>3, GiveUpTallied DEF GiveUp, gate
<1>4. ASSUME NEW peer \in Peer, NEW device \in Device, HelloAccepted(peer, device) PROVE FailInv'
    BY <1>4, SucceedsTallied DEF HelloAccepted
<1>5. ASSUME NEW peer \in Peer, NEW device \in Device, NEW good \in BOOLEAN,
             HelloRefused(peer, device, good)
      PROVE  FailInv'
    BY <1>5, FailsTallied DEF HelloRefused
<1>6. ASSUME NEW peer \in Peer, NEW device \in Device, NEW code \in Code,
             EnrollAccepted(peer, code, device)
      PROVE  FailInv'
    BY <1>6, SucceedsTallied DEF EnrollAccepted
<1>7. ASSUME NEW peer \in Peer, NEW device \in Device, NEW code \in Code,
             EnrollRefused(peer, code, device)
      PROVE  FailInv'
    BY <1>7, FailsTallied DEF EnrollRefused
<1>8. ASSUME NEW id \in DOMAIN sessions, Close(id) \/ \E c \in Asked : Run(id, c) PROVE FailInv'
    BY <1>1, <1>8 DEF Close, Run, gate
<1>9. ASSUME NEW code \in Code, NEW role \in Issued, Issue(code, role) PROVE FailInv'
    BY <1>1, <1>9 DEF Issue, gate
<1>10. ASSUME NEW device \in Device, RevokeDevice(device) PROVE FailInv'
    BY <1>1, <1>10 DEF RevokeDevice
<1>11. CASE Next
    BY <1>3, <1>4, <1>5, <1>6, <1>7, <1>8, <1>9, <1>10, <1>11,
       ArriveTallied, ExpireTallied, TickTallied DEF Next
<1>. QED BY <1>2, <1>11

-----------------------------------------------------------------------------
(* The theorems.                                                           *)

\* The invariant is kept by every step.
LEMMA NextInv == IInv /\ [Next]_vars => IInv'
<1> SUFFICES ASSUME IInv, [Next]_vars PROVE IInv'
    OBVIOUS
<1>1. Steps
    BY NextSteps DEF IInv, Types
<1>. QED BY <1>1, TypesStep, RightsStep, NewestStep, TrailStep, CountedStep DEF IInv

\* It holds of every behaviour.
LEMMA Invariance == Spec => []IInv
BY InitInv, NextInv, PTL DEF Spec

\* A live session is of a device that is enrolled and not revoked, and has its role
\* (Gatekeeper::revoke_device, admission::authorize).
THEOREM SessionsAreEntitled == Spec => []SessionsEntitled
<1>1. IInv => SessionsEntitled
    BY DEF IInv
<1>. QED BY <1>1, Invariance, PTL

\* No device has more sessions than its limit, and its newest stays (Gatekeeper::open).
THEOREM NewestSessionStays == Spec => []NewestStays
<1>1. IInv => NewestStays
    BY DEF IInv
<1>. QED BY <1>1, Invariance, PTL

\* Each record names a device the registry knows, the role it has, and a command that ran
\* only if that role may run it (audit::record, DeviceRegistry::revoke).
THEOREM RecordsResolve == Spec => []TrailResolves
<1>1. IInv => TrailResolves
    BY DEF IInv
<1>. QED BY <1>1, Invariance, PTL

\* No more devices hold a role than codes were handed out for it (DeviceRegistry::enroll).
THEOREM CodesAreSingleUse == Spec => []OneDevicePerCode
<1>1. IInv => OneDevicePerCode
    <2> SUFFICES ASSUME IInv, NEW role \in Role
                 PROVE  Cardinality(Holders(role)) <= Cardinality(Issues(role))
        BY DEF OneDevicePerCode, Holders, Issues
    <2>1. Cardinality(Holders(role)) + Cardinality(CodesFor(role)) <= Cardinality(Issues(role))
        BY DEF IInv, Counted
    <2>. QED BY <2>1, CountsFinite DEF IInv
<1>. QED BY <1>1, Invariance, PTL

\* An address that never succeeds fails no more than MostFailures times in any ban's time
\* (Gatekeeper::admit, handshake_failed, expire_windows).
THEOREM FailuresAreBounded == Spec => []FailuresBounded
<1>1. FailInv => FailuresBounded
    <2> SUFFICES ASSUME FailInv, NEW p \in Peer, Len(failedAt[p]) > MostFailures
                 PROVE  failedAt[p][Len(failedAt[p]) - MostFailures] + BanDuration <= now
        BY DEF FailuresBounded
    <2> DEFINE s == failedAt[p]
               w == attempts[p]
    <2>1. /\ now \in Nat /\ pending[p] \in 0..MaxPending /\ InTurn(s, now)
          /\ p \in DOMAIN attempts => Holds(s, pending[p], w, now)
          /\ p \notin DOMAIN attempts => OldBut(s, Short, now)
        BY DEF FailInv, Tallied
    <2>2. Len(s) \in Nat /\ MostFailures \in Nat
        BY <2>1 DEF InTurn, MostFailures
    <2>3. OldBut(s, MostFailures, now)
        <3>1. CASE p \in DOMAIN attempts
            <4>1. /\ w.failures \in Nat /\ w.started \in Nat /\ w.bannedUntil \in Nat
                  /\ Within(s, pending[p], w.failures, w.started, w.bannedUntil, now)
                BY <2>1, <3>1 DEF Holds, Windows
            <4>. QED BY <2>1, <4>1, WithinBound
        <3>2. CASE p \notin DOMAIN attempts
            <4>1. Short \in Nat /\ Short <= MostFailures /\ now <= now
                BY <2>1 DEF Short, MostFailures
            <4>. QED BY <2>1, <2>2, <3>2, <4>1, OldButMore
        <3>. QED BY <3>1, <3>2
    <2> HIDE DEF s
    <2>4. /\ Len(s) - MostFailures \in 1..Len(s)
          /\ (Len(s) - MostFailures) + MostFailures <= Len(s)
        BY <2>2 DEF s
    <2>5. s[Len(s) - MostFailures] + BanDuration <= now
        BY <2>3, <2>4 DEF OldBut
    <2>. QED BY <2>5 DEF s
<1>. QED BY <1>1, FailInit, FailStep, PTL DEF Spec
=============================================================================
