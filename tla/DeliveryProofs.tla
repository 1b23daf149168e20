--------------------------- MODULE DeliveryProofs ---------------------------
(***************************************************************************)
(* Proofs about Delivery: no event waits longer than the flush interval,   *)
(* every event sent arrives once and in the order of its channel, a short  *)
(* id is understood as it was meant, and the pages of a catalogue that     *)
(* changes meanwhile are whole.                                            *)
(*                                                                         *)
(* The argument is about the stream of what is still to arrive: the bodies *)
(* of the frames on their way, then what the batcher keeps.  A step of the *)
(* core changes it in one of three shapes - something is added at its end, *)
(* its end is cut off into a frame, or something urgent is put in just     *)
(* before its end - and a step of the terminal takes its first body.       *)
(***************************************************************************)
EXTENDS Delivery, FiniteSetTheorems, SequenceTheorems, WellFoundedInduction, TLAPS

-----------------------------------------------------------------------------
(* What a stream is made of.                                               *)

Parcels ==
    [channel : Channels \cup {event.channel : event \in Newer},
     kind    : {"Subscribed", "BookDelta", "CommandAck"} \cup {event.kind : event \in Newer},
     ver     : {KNOWN_VER} \cup {event.ver : event \in Newer},
     size : Nat, names : SUBSET (Nat \X Symbols), n : Nat, at : Nat]

Streams == Seq(Seq(Parcels))

Of(env, channel) == Known(env) /\ env.channel = channel
Teaches(env)     == Known(env) /\ env.kind = "Subscribed"
Reads(env)       == Known(env) /\ env.kind # "Subscribed"

\* The three shapes of a step of the core.
Extended(s, t, env) ==
    \E m \in Nat \ {0} :
        /\ Len(s) = m /\ Len(t) = m
        /\ \A f \in 1..m : f # m => t[f] = s[f]
        /\ t[m] = Append(s[m], env)

Cut(s, t) ==
    \E m \in Nat \ {0} :
        /\ Len(s) = m /\ Len(t) = m + 1
        /\ \A f \in 1..m : t[f] = s[f]
        /\ t[m + 1] = <<>>

Inserted(s, t, env) ==
    \E m \in Nat \ {0} :
        /\ Len(s) = m /\ Len(t) = m + 1
        /\ \A f \in 1..m : f # m => t[f] = s[f]
        /\ t[m] = <<env>>
        /\ t[m + 1] = s[m]

LEMMA StreamFacts ==
    ASSUME NEW s \in Streams
    PROVE  /\ Len(s) \in Nat /\ DOMAIN s = 1..Len(s)
           /\ \A f \in DOMAIN s :
                /\ s[f] \in Seq(Parcels) /\ Len(s[f]) \in Nat /\ DOMAIN s[f] = 1..Len(s[f])
                /\ \A i \in DOMAIN s[f] : s[f][i] \in Parcels /\ s[f][i].n \in Nat /\ i \in Nat
<1>1. s \in Seq(Seq(Parcels))
      BY DEF Streams
<1>2. \A f \in DOMAIN s : s[f] \in Seq(Parcels)
      BY <1>1
<1>3. \A f \in DOMAIN s : \A i \in DOMAIN s[f] : s[f][i] \in Parcels /\ i \in Nat
      BY <1>2
<1>4. \A e \in Parcels : e.n \in Nat
      BY DEF Parcels
<1> QED BY <1>1, <1>2, <1>3, <1>4

\* Something at the end is ordered after everything there was.
LEMMA CarriesExtended ==
    ASSUME NEW s \in Streams, NEW t \in Streams, NEW e \in Parcels, NEW c,
           NEW a \in Nat, NEW n \in Nat, a <= n + 1,
           Carries(s, c, a, n), Extended(s, t, e)
    PROVE  /\ Of(e, c) /\ e.n = n + 1 => Carries(t, c, a, n + 1)
           /\ ~Of(e, c) => Carries(t, c, a, n)
<1> PICK m \in Nat \ {0} :
        /\ Len(s) = m /\ Len(t) = m
        /\ \A f \in 1..m : f # m => t[f] = s[f]
        /\ t[m] = Append(s[m], e)
    BY DEF Extended
<1> DEFINE k == Len(s[m])
<1>1. /\ DOMAIN s = 1..m /\ DOMAIN t = 1..m /\ k \in Nat
      /\ DOMAIN s[m] = 1..k /\ s[m] \in Seq(Parcels)
      BY StreamFacts
<1>2. /\ DOMAIN t[m] = 1..(k + 1)
      /\ \A i \in 1..k : t[m][i] = s[m][i]
      /\ t[m][k + 1] = e
      BY <1>1
<1> HIDE DEF k
<1>3. \A f \in DOMAIN s : \A i \in DOMAIN s[f] :
          f \in DOMAIN t /\ i \in DOMAIN t[f] /\ t[f][i] = s[f][i]
  <2> SUFFICES ASSUME NEW f \in DOMAIN s, NEW i \in DOMAIN s[f]
               PROVE  f \in DOMAIN t /\ i \in DOMAIN t[f] /\ t[f][i] = s[f][i]
      OBVIOUS
  <2>1. CASE f = m
        BY <1>1, <1>2, <2>1
  <2>2. CASE f # m
        BY <1>1, <2>2
  <2> QED BY <2>1, <2>2
<1>4. \A f \in DOMAIN t : \A i \in DOMAIN t[f] :
          \/ f \in DOMAIN s /\ i \in DOMAIN s[f] /\ t[f][i] = s[f][i]
          \/ f = m /\ i = k + 1 /\ t[f][i] = e
  <2> SUFFICES ASSUME NEW f \in DOMAIN t, NEW i \in DOMAIN t[f]
               PROVE  \/ f \in DOMAIN s /\ i \in DOMAIN s[f] /\ t[f][i] = s[f][i]
                      \/ f = m /\ i = k + 1 /\ t[f][i] = e
      OBVIOUS
  <2>1. CASE f = m
        BY <1>1, <1>2, <2>1
  <2>2. CASE f # m
        BY <1>1, <2>2
  <2> QED BY <2>1, <2>2
<1>5. m \in DOMAIN t /\ k + 1 \in DOMAIN t[m] /\ t[m][k + 1] = e
      BY <1>1, <1>2
<1>6. \A f \in DOMAIN s : \A i \in DOMAIN s[f] :
          f \in Nat /\ i \in Nat /\ f <= m /\ (f = m => i <= k) /\ s[f][i].n \in Nat
      BY <1>1, StreamFacts
<1>8. CASE Of(e, c) /\ e.n = n + 1
  <2>1. \A q \in a..(n + 1) : \E f \in DOMAIN t : \E i \in DOMAIN t[f] :
            IsOf(t, c, f, i) /\ t[f][i].n = q
        BY <1>3, <1>5, <1>8 DEF Carries, IsOf, Of
  <2>2. \A f \in DOMAIN t : \A i \in DOMAIN t[f] : IsOf(t, c, f, i) => t[f][i].n \in a..(n + 1)
        BY <1>4, <1>8 DEF Carries, IsOf, Of
  <2>3. ASSUME NEW f \in DOMAIN t, NEW g \in DOMAIN t, NEW i \in DOMAIN t[f], NEW j \in DOMAIN t[g],
               IsOf(t, c, f, i), IsOf(t, c, g, j), f < g \/ (f = g /\ i < j)
        PROVE  t[f][i].n < t[g][j].n
    <3>1. f \in DOMAIN s /\ i \in DOMAIN s[f] /\ t[f][i] = s[f][i]
          BY <1>1, <1>4, <1>6, <2>3
    <3>2. CASE g \in DOMAIN s /\ j \in DOMAIN s[g] /\ t[g][j] = s[g][j]
          BY <2>3, <3>1, <3>2 DEF Carries, IsOf
    <3>3. CASE t[g][j] = e
          BY <2>3, <3>1, <3>3, <1>8 DEF Carries, IsOf
    <3> QED BY <1>4, <3>2, <3>3
  <2> QED BY <1>8, <2>1, <2>2, <2>3 DEF Carries
<1>9. CASE ~Of(e, c)
  <2>1. \A q \in a..n : \E f \in DOMAIN t : \E i \in DOMAIN t[f] :
            IsOf(t, c, f, i) /\ t[f][i].n = q
        BY <1>3 DEF Carries, IsOf
  <2>2. \A f \in DOMAIN t : \A i \in DOMAIN t[f] :
            IsOf(t, c, f, i) => f \in DOMAIN s /\ i \in DOMAIN s[f] /\ t[f][i] = s[f][i]
        BY <1>4, <1>9 DEF IsOf, Of
  <2>3. \A f \in DOMAIN t : \A i \in DOMAIN t[f] : IsOf(t, c, f, i) => t[f][i].n \in a..n
        BY <2>2 DEF Carries, IsOf
  <2>4. \A f, g \in DOMAIN t : \A i \in DOMAIN t[f], j \in DOMAIN t[g] :
            /\ IsOf(t, c, f, i) /\ IsOf(t, c, g, j)
            /\ f < g \/ (f = g /\ i < j)
            => t[f][i].n < t[g][j].n
        BY <2>2 DEF Carries, IsOf
  <2> QED BY <1>9, <2>1, <2>3, <2>4 DEF Carries
<1> QED BY <1>8, <1>9

\* Where a stream is cut does not matter.
LEMMA CarriesCut ==
    ASSUME NEW s \in Streams, NEW t \in Streams, NEW c, NEW a, NEW n,
           Carries(s, c, a, n), Cut(s, t)
    PROVE  Carries(t, c, a, n)
<1> PICK m \in Nat \ {0} :
        /\ Len(s) = m /\ Len(t) = m + 1
        /\ \A f \in 1..m : t[f] = s[f]
        /\ t[m + 1] = <<>>
    BY DEF Cut
<1>1. DOMAIN s = 1..m /\ DOMAIN t = 1..(m + 1)
      BY DEF Streams
<1>2. \A f \in DOMAIN s : f \in DOMAIN t /\ t[f] = s[f]
      BY <1>1
<1>3. \A f \in DOMAIN t : \A i \in DOMAIN t[f] : f \in DOMAIN s /\ t[f] = s[f]
  <2> SUFFICES ASSUME NEW f \in DOMAIN t, NEW i \in DOMAIN t[f] PROVE f \in DOMAIN s /\ t[f] = s[f]
      OBVIOUS
  <2>1. f # m + 1
        OBVIOUS
  <2> QED BY <1>1, <2>1
<1>4. \A q \in a..n : \E f \in DOMAIN t : \E i \in DOMAIN t[f] : IsOf(t, c, f, i) /\ t[f][i].n = q
      BY <1>2 DEF Carries, IsOf
<1>5. \A f \in DOMAIN t : \A i \in DOMAIN t[f] : IsOf(t, c, f, i) => t[f][i].n \in a..n
      BY <1>3 DEF Carries, IsOf
<1>6. \A f, g \in DOMAIN t : \A i \in DOMAIN t[f], j \in DOMAIN t[g] :
          /\ IsOf(t, c, f, i) /\ IsOf(t, c, g, j)
          /\ f < g \/ (f = g /\ i < j)
          => t[f][i].n < t[g][j].n
      BY <1>3 DEF Carries, IsOf
<1> QED BY <1>4, <1>5, <1>6 DEF Carries

\* What is put in before the end overtakes only events of other channels.
LEMMA CarriesInserted ==
    ASSUME NEW s \in Streams, NEW t \in Streams, NEW e \in Parcels, NEW c,
           NEW a \in Nat, NEW n \in Nat, a <= n + 1,
           Carries(s, c, a, n), Inserted(s, t, e),
           Of(e, c) => \A i \in DOMAIN s[Len(s)] : ~IsOf(s, c, Len(s), i)
    PROVE  /\ Of(e, c) /\ e.n = n + 1 => Carries(t, c, a, n + 1)
           /\ ~Of(e, c) => Carries(t, c, a, n)
<1> PICK m \in Nat \ {0} :
        /\ Len(s) = m /\ Len(t) = m + 1
        /\ \A f \in 1..m : f # m => t[f] = s[f]
        /\ t[m] = <<e>>
        /\ t[m + 1] = s[m]
    BY DEF Inserted
<1> DEFINE Back(f) == IF f = m + 1 THEN m ELSE f
           Fore(f) == IF f = m THEN m + 1 ELSE f
<1>1. /\ DOMAIN s = 1..m /\ DOMAIN t = 1..(m + 1) /\ DOMAIN t[m] = {1} /\ t[m][1] = e
      BY StreamFacts
<1>0. \A f \in 1..m : \A i \in DOMAIN s[f] : s[f][i].n \in Nat /\ i \in Nat
      BY StreamFacts
<1>2. \A f \in DOMAIN s : Fore(f) \in DOMAIN t /\ t[Fore(f)] = s[f]
  <2> SUFFICES ASSUME NEW f \in DOMAIN s PROVE Fore(f) \in DOMAIN t /\ t[Fore(f)] = s[f]
      OBVIOUS
  <2>1. CASE f = m
        BY <1>1, <2>1
  <2>2. CASE f # m
        BY <1>1, <2>2
  <2> QED BY <2>1, <2>2
<1>3. \A f \in DOMAIN t : f # m => Back(f) \in DOMAIN s /\ t[f] = s[Back(f)]
      BY <1>1
<1>4. \A f, g \in 1..(m + 1) : f # m /\ g # m /\ f < g => Back(f) < Back(g)
      OBVIOUS
<1>5. \A g \in DOMAIN t : m < g => g = m + 1
      BY <1>1
<1>6. \A f \in DOMAIN t : f < m => f \in DOMAIN s /\ t[f] = s[f]
      BY <1>1
<1>7. m \in DOMAIN t /\ \A i \in DOMAIN t[m] : i = 1 /\ t[m][i] = e
      BY <1>1
<1>8. CASE Of(e, c) /\ e.n = n + 1
  <2>1. \A q \in a..(n + 1) : \E f \in DOMAIN t : \E i \in DOMAIN t[f] :
            IsOf(t, c, f, i) /\ t[f][i].n = q
    <3> SUFFICES ASSUME NEW q \in a..(n + 1)
                 PROVE  \E f \in DOMAIN t : \E i \in DOMAIN t[f] : IsOf(t, c, f, i) /\ t[f][i].n = q
        OBVIOUS
    <3>1. CASE q = n + 1
          BY <1>1, <1>7, <1>8, <3>1 DEF IsOf, Of
    <3>2. CASE q \in a..n
          BY <1>2, <3>2 DEF Carries, IsOf
    <3> QED BY <3>1, <3>2
  <2>2. \A f \in DOMAIN t : \A i \in DOMAIN t[f] : IsOf(t, c, f, i) => t[f][i].n \in a..(n + 1)
        BY <1>3, <1>7, <1>8 DEF Carries, IsOf, Of
  <2>3. ASSUME NEW f \in DOMAIN t, NEW g \in DOMAIN t, NEW i \in DOMAIN t[f], NEW j \in DOMAIN t[g],
               IsOf(t, c, f, i), IsOf(t, c, g, j), f < g \/ (f = g /\ i < j)
        PROVE  t[f][i].n < t[g][j].n
    <3>1. g # m + 1
          BY <1>3, <1>8, <2>3 DEF IsOf
    <3>2. f # m + 1 /\ f # m
          BY <1>1, <1>7, <2>3, <3>1
    <3>3. CASE g = m
      <4>1. t[g][j].n = n + 1
            BY <1>7, <1>8, <3>3
      <4>2. t[f][i].n \in a..n
            BY <1>3, <2>3, <3>2 DEF Carries, IsOf
      <4> QED BY <4>1, <4>2
    <3>4. CASE g # m
          BY <1>1, <1>3, <1>4, <2>3, <3>1, <3>2, <3>4 DEF Carries, IsOf
    <3> QED BY <3>3, <3>4
  <2> QED BY <1>8, <2>1, <2>2, <2>3 DEF Carries
<1>9. CASE ~Of(e, c)
  <2>1. \A f \in DOMAIN t : \A i \in DOMAIN t[f] : IsOf(t, c, f, i) => f # m
        BY <1>7, <1>9 DEF IsOf, Of
  <2>2. \A q \in a..n : \E f \in DOMAIN t : \E i \in DOMAIN t[f] :
            IsOf(t, c, f, i) /\ t[f][i].n = q
        BY <1>2 DEF Carries, IsOf
  <2>3. \A f \in DOMAIN t : \A i \in DOMAIN t[f] : IsOf(t, c, f, i) => t[f][i].n \in a..n
        BY <1>3, <2>1 DEF Carries, IsOf
  <2>4. ASSUME NEW f \in DOMAIN t, NEW g \in DOMAIN t, NEW i \in DOMAIN t[f], NEW j \in DOMAIN t[g],
               IsOf(t, c, f, i), IsOf(t, c, g, j), f < g \/ (f = g /\ i < j)
        PROVE  t[f][i].n < t[g][j].n
    <3>1. f # m /\ g # m
          BY <2>1, <2>4
    <3>2. /\ Back(f) \in DOMAIN s /\ t[f] = s[Back(f)]
          /\ Back(g) \in DOMAIN s /\ t[g] = s[Back(g)]
          BY <1>3, <3>1
    <3>3. Back(f) < Back(g) \/ (Back(f) = Back(g) /\ i < j)
          BY <1>1, <1>4, <2>4, <3>1
    <3> HIDE DEF Back
    <3> QED BY <2>4, <3>2, <3>3 DEF Carries, IsOf
  <2>5. Carries(t, c, a, n)
        BY <2>2, <2>3, <2>4 DEF Carries
  <2> QED BY <1>9, <2>5
<1> QED BY <1>8, <1>9
-----------------------------------------------------------------------------
(* What the terminal takes.                                                *)

LEMMA LeastOf ==
    ASSUME NEW T, T \subseteq Nat, T # {}
    PROVE  \E m \in T : \A k \in T : m <= k
<1>1. \E m \in T : \A k \in T : <<k, m>> \notin OpToRel(<, Nat)
      BY WFMin, NatLessThanWellFounded, Zenon
<1>2. \A k, m \in T : k < m => <<k, m>> \in OpToRel(<, Nat)
      BY DEF OpToRel
<1>3. \E m \in T : \A k \in T : ~(k < m)
      BY <1>1, <1>2, Zenon
<1> QED BY <1>3

\* The greatest of some positions.
LEMMA LastOf ==
    ASSUME NEW k \in Nat, NEW T, T \subseteq 1..k, T # {}
    PROVE  Max(T) \in T /\ \A i \in T : i <= Max(T)
<1> DEFINE D == {k - i : i \in T}
<1>1. D \subseteq Nat /\ D # {}
  <2>1. \A i \in T : k - i \in Nat
        OBVIOUS
  <2> QED BY <2>1
<1> HIDE DEF D
<1>2. PICK d \in D : \A x \in D : d <= x
      BY <1>1, LeastOf
<1>3. PICK m \in T : d = k - m
      BY <1>2 DEF D
<1>4. \A i \in T : k - i \in D
      BY DEF D
<1>5. \A i \in T : m >= i
      BY <1>2, <1>3, <1>4
<1>6. \E x \in T : \A y \in T : x >= y
      BY <1>5
<1>7. Max(T) \in T /\ \A y \in T : Max(T) >= y
      BY <1>6 DEF Max
<1> QED BY <1>7

\* The first body of a stream is taken.
Shifted(s, t) ==
    /\ Len(s) = Len(t) + 1
    /\ \A f \in 1..Len(t) : t[f] = s[f + 1]

\* What the terminal has then seen of a channel.
SeenIn(body, channel, before) ==
    LET known == {i \in DOMAIN body : Of(body[i], channel)}
    IN  IF known = {} THEN before ELSE body[Max(known)].n

\* What is left begins after what the first body held.
LEMMA CarriesShifted ==
    ASSUME NEW s \in Streams, NEW t \in Streams, NEW c, NEW a \in Nat, NEW n \in Nat, a <= n,
           Carries(s, c, a + 1, n), Shifted(s, t)
    PROVE  LET b == SeenIn(s[1], c, a)
           IN  b \in Nat /\ b <= n /\ Carries(t, c, b + 1, n)
<1> DEFINE known == {i \in DOMAIN s[1] : Of(s[1][i], c)}
           b == SeenIn(s[1], c, a)
<1>1. /\ DOMAIN s = 1..(Len(t) + 1) /\ DOMAIN t = 1..Len(t) /\ Len(t) \in Nat
      /\ 1 \in DOMAIN s
      /\ s[1] \in Seq(Parcels) /\ DOMAIN s[1] = 1..Len(s[1]) /\ Len(s[1]) \in Nat
      /\ \A f \in DOMAIN s : \A i \in DOMAIN s[f] : s[f][i].n \in Nat
  <2>1. Len(t) \in Nat /\ DOMAIN t = 1..Len(t) /\ DOMAIN s = 1..Len(s)
        BY StreamFacts
  <2>2. Len(s) = Len(t) + 1
        BY DEF Shifted
  <2>3. DOMAIN s = 1..(Len(t) + 1) /\ 1 \in DOMAIN s
        BY <2>1, <2>2
  <2> QED BY <2>1, <2>3, StreamFacts
<1>2. \A f \in DOMAIN t : f + 1 \in DOMAIN s /\ t[f] = s[f + 1] /\ f \in Nat \ {0}
      BY <1>1 DEF Shifted
<1>3. \A f \in DOMAIN s : f # 1 => f - 1 \in DOMAIN t /\ t[f - 1] = s[f]
      BY <1>1 DEF Shifted
<1>4. /\ b \in Nat /\ b <= n
      /\ \A i \in known : s[1][i].n <= b
      /\ b # a => \E i \in known : b = s[1][i].n
  <2>1. CASE known = {}
        BY <2>1 DEF SeenIn
  <2>2. CASE known # {}
    <3>1. Max(known) \in known /\ \A i \in known : i <= Max(known)
          BY <1>1, <2>2, LastOf
    <3>2. b = s[1][Max(known)].n
          BY <2>2 DEF SeenIn
    <3> DEFINE l == Max(known)
    <3>3. l \in DOMAIN s[1] /\ Of(s[1][l], c) /\ (\A i \in known : i <= l) /\ b = s[1][l].n
          BY <3>1, <3>2
    <3> HIDE DEF l, b
    <3>4. b \in (a + 1)..n
          BY <1>1, <3>3 DEF Carries, IsOf, Of
    <3>5. \A i \in known : i # l => s[1][i].n < s[1][l].n
      <4> SUFFICES ASSUME NEW i \in known, i # l PROVE s[1][i].n < s[1][l].n
          OBVIOUS
      <4>1. i < l /\ i \in DOMAIN s[1] /\ IsOf(s, c, 1, i) /\ IsOf(s, c, 1, l)
            BY <1>1, <3>3 DEF IsOf, Of
      <4> QED BY <1>1, <3>3, <4>1 DEF Carries
    <3>6. \A i \in known : s[1][i].n <= b
      <4> SUFFICES ASSUME NEW i \in known PROVE s[1][i].n <= b
          OBVIOUS
      <4>1. i \in DOMAIN s[1] /\ s[1][i].n \in Nat
            BY <1>1
      <4> QED BY <3>3, <3>5, <4>1, <3>4
    <3>7. l \in known
          BY <3>3
    <3> QED BY <3>3, <3>4, <3>6, <3>7
  <2> QED BY <2>1, <2>2
<1>5. \A i \in DOMAIN s[1] : IsOf(s, c, 1, i) => i \in known
      BY DEF IsOf, Of
<1>6. \A i \in known : i \in DOMAIN s[1] /\ IsOf(s, c, 1, i)
      BY DEF IsOf, Of
<1>7. a <= b
  <2>1. CASE b = a
        BY <2>1
  <2>2. CASE b # a
        BY <1>1, <1>4, <1>6, <2>2 DEF Carries
  <2> QED BY <2>1, <2>2
<1> HIDE DEF b, known
<1>8. \A q \in (b + 1)..n : \E f \in DOMAIN t : \E i \in DOMAIN t[f] :
          IsOf(t, c, f, i) /\ t[f][i].n = q
  <2> SUFFICES ASSUME NEW q \in (b + 1)..n
               PROVE  \E f \in DOMAIN t : \E i \in DOMAIN t[f] : IsOf(t, c, f, i) /\ t[f][i].n = q
      OBVIOUS
  <2>1. q \in (a + 1)..n
        BY <1>4, <1>7
  <2>0. PICK f \in DOMAIN s : \E i \in DOMAIN s[f] : IsOf(s, c, f, i) /\ s[f][i].n = q
        BY <2>1 DEF Carries
  <2>2. PICK i \in DOMAIN s[f] : IsOf(s, c, f, i) /\ s[f][i].n = q
        BY <2>0
  <2>3. f # 1
        BY <1>4, <1>5, <2>2
  <2> QED BY <1>3, <2>2, <2>3 DEF IsOf
<1>9. \A f \in DOMAIN t : \A i \in DOMAIN t[f] :
          IsOf(t, c, f, i) => IsOf(s, c, f + 1, i) /\ t[f][i].n \in (a + 1)..n
      BY <1>2 DEF Carries, IsOf
<1>10. ASSUME NEW f \in DOMAIN t, NEW i \in DOMAIN t[f], IsOf(t, c, f, i)
       PROVE  t[f][i].n \in (b + 1)..n
  <2>1. t[f][i].n \in (a + 1)..n /\ IsOf(s, c, f + 1, i) /\ 1 < f + 1
        BY <1>2, <1>9, <1>10
  <2>2. \A j \in known : s[1][j].n < t[f][i].n
        BY <1>1, <1>2, <1>6, <2>1 DEF Carries
  <2>3. CASE b = a
        BY <2>1, <2>3
  <2>4. CASE b # a
    <3>1. b < t[f][i].n
          BY <1>4, <2>2, <2>4
    <3> QED BY <1>4, <2>1, <3>1
  <2> QED BY <2>3, <2>4
<1>11. \A f, g \in DOMAIN t : \A i \in DOMAIN t[f], j \in DOMAIN t[g] :
           /\ IsOf(t, c, f, i) /\ IsOf(t, c, g, j)
           /\ f < g \/ (f = g /\ i < j)
           => t[f][i].n < t[g][j].n
  <2> SUFFICES ASSUME NEW f \in DOMAIN t, NEW g \in DOMAIN t,
                      NEW i \in DOMAIN t[f], NEW j \in DOMAIN t[g],
                      IsOf(t, c, f, i), IsOf(t, c, g, j), f < g \/ (f = g /\ i < j)
               PROVE  t[f][i].n < t[g][j].n
      OBVIOUS
  <2>1. f + 1 < g + 1 \/ (f + 1 = g + 1 /\ i < j)
        BY <1>2
  <2>2. IsOf(s, c, f + 1, i) /\ IsOf(s, c, g + 1, j)
        BY <1>9
  <2> QED BY <1>2, <2>1, <2>2 DEF Carries
<1>12. Carries(t, c, b + 1, n)
       BY <1>8, <1>10, <1>11 DEF Carries
<1> QED BY <1>4, <1>12 DEF b

-----------------------------------------------------------------------------
(* What the shapes do to the names a stream carries.                       *)

Upto(f, i, g, j) == f < g \/ (f = g /\ i <= j)

\* A short id is taught somewhere in the stream, or carried.
Taught(s, name) == \E f \in DOMAIN s : \E i \in DOMAIN s[f] : Teaches(s[f][i]) /\ name \in s[f][i].names
Mentioned(s, name) == \E f \in DOMAIN s : \E i \in DOMAIN s[f] : name \in s[f][i].names

\* What an event names is known when it is read: from before, or from what comes before it.
IntroducedAt(s, dict, f, i) ==
    \A name \in s[f][i].names :
        \/ name \in dict
        \/ \E g \in DOMAIN s : \E j \in DOMAIN s[g] :
               Upto(g, j, f, i) /\ Teaches(s[g][j]) /\ name \in s[g][j].names

Introduced(s, dict) ==
    \A f \in DOMAIN s : \A i \in DOMAIN s[f] : Reads(s[f][i]) => IntroducedAt(s, dict, f, i)

\* The bodies of s are parts of bodies of t, in order, which has besides them only what is in E.
Keeps(s, t, h, E) ==
    /\ h \in [DOMAIN s -> DOMAIN t]
    /\ \A f, g \in DOMAIN s : f < g => h[f] < h[g]
    /\ \A f \in DOMAIN s : \A i \in DOMAIN s[f] : i \in DOMAIN t[h[f]] /\ t[h[f]][i] = s[f][i]
    /\ \A g \in DOMAIN t : \A i \in DOMAIN t[g] :
         \/ \E f \in DOMAIN s : g = h[f] /\ i \in DOMAIN s[f]
         \/ t[g][i] \in E

\* The last event of t is e, and the others are where they were in s.
Ends(s, t, e) ==
    \E m \in DOMAIN t : \E k \in DOMAIN t[m] :
        /\ t[m][k] = e
        /\ \A f \in DOMAIN t : \A i \in DOMAIN t[f] :
             /\ Upto(f, i, m, k)
             /\ (f = m /\ i = k) \/ (f \in DOMAIN s /\ i \in DOMAIN s[f])

LEMMA ExtendedKeeps ==
    ASSUME NEW s \in Streams, NEW t \in Streams, NEW e \in Parcels, Extended(s, t, e)
    PROVE  /\ Keeps(s, t, [f \in DOMAIN s |-> f], {e})
           /\ Ends(s, t, e)
<1> PICK m \in Nat \ {0} :
        /\ Len(s) = m /\ Len(t) = m
        /\ \A f \in 1..m : f # m => t[f] = s[f]
        /\ t[m] = Append(s[m], e)
    BY DEF Extended
<1> DEFINE k == Len(s[m])
           h == [f \in DOMAIN s |-> f]
<1>1. /\ DOMAIN s = 1..m /\ DOMAIN t = 1..m /\ k \in Nat
      /\ DOMAIN s[m] = 1..k /\ s[m] \in Seq(Parcels)
      BY StreamFacts
<1>2. /\ DOMAIN t[m] = 1..(k + 1)
      /\ \A i \in 1..k : t[m][i] = s[m][i]
      /\ t[m][k + 1] = e
      BY <1>1
<1> HIDE DEF k
<1>3. \A f \in DOMAIN s : \A i \in DOMAIN s[f] : i \in DOMAIN t[f] /\ t[f][i] = s[f][i]
  <2> SUFFICES ASSUME NEW f \in DOMAIN s, NEW i \in DOMAIN s[f]
               PROVE  i \in DOMAIN t[f] /\ t[f][i] = s[f][i]
      OBVIOUS
  <2>1. CASE f = m
        BY <1>1, <1>2, <2>1
  <2>2. CASE f # m
        BY <1>1, <2>2
  <2> QED BY <2>1, <2>2
<1>4. \A f \in DOMAIN t : \A i \in DOMAIN t[f] :
          \/ i \in DOMAIN s[f]
          \/ f = m /\ i = k + 1 /\ t[f][i] = e
  <2> SUFFICES ASSUME NEW f \in DOMAIN t, NEW i \in DOMAIN t[f]
               PROVE  i \in DOMAIN s[f] \/ (f = m /\ i = k + 1 /\ t[f][i] = e)
      OBVIOUS
  <2>1. CASE f = m
        BY <1>1, <1>2, <2>1
  <2>2. CASE f # m
        BY <1>1, <2>2
  <2> QED BY <2>1, <2>2
<1>5. \A f \in DOMAIN s : h[f] = f
      OBVIOUS
<1>6. h \in [DOMAIN s -> DOMAIN t]
      BY <1>1
<1> HIDE DEF h
<1>7. Keeps(s, t, h, {e})
  <2>1. \A f, g \in DOMAIN s : f < g => h[f] < h[g]
        BY <1>5
  <2>2. \A f \in DOMAIN s : \A i \in DOMAIN s[f] : i \in DOMAIN t[h[f]] /\ t[h[f]][i] = s[f][i]
        BY <1>3, <1>5
  <2>3. \A g \in DOMAIN t : \A i \in DOMAIN t[g] :
           \/ \E f \in DOMAIN s : g = h[f] /\ i \in DOMAIN s[f]
           \/ t[g][i] \in {e}
        BY <1>1, <1>4, <1>5
  <2> QED BY <1>6, <2>1, <2>2, <2>3 DEF Keeps
<1>8. \A f \in DOMAIN t : \A i \in DOMAIN t[f] : Upto(f, i, m, k + 1)
  <2> SUFFICES ASSUME NEW f \in DOMAIN t, NEW i \in DOMAIN t[f] PROVE Upto(f, i, m, k + 1)
      OBVIOUS
  <2>1. CASE f = m
        BY <1>1, <1>2, <2>1 DEF Upto
  <2>2. CASE f # m
        BY <1>1, <2>2 DEF Upto
  <2> QED BY <2>1, <2>2
<1>9. m \in DOMAIN t /\ k + 1 \in DOMAIN t[m] /\ t[m][k + 1] = e
      BY <1>1, <1>2
<1>10. \A f \in DOMAIN t : \A i \in DOMAIN t[f] :
           (f = m /\ i = k + 1) \/ (f \in DOMAIN s /\ i \in DOMAIN s[f])
       BY <1>1, <1>4
<1> QED BY <1>7, <1>8, <1>9, <1>10 DEF h, Ends

LEMMA CutKeeps ==
    ASSUME NEW s \in Streams, NEW t \in Streams, Cut(s, t)
    PROVE  Keeps(s, t, [f \in DOMAIN s |-> f], {})
<1> PICK m \in Nat \ {0} :
        /\ Len(s) = m /\ Len(t) = m + 1
        /\ \A f \in 1..m : t[f] = s[f]
        /\ t[m + 1] = <<>>
    BY DEF Cut
<1> DEFINE h == [f \in DOMAIN s |-> f]
<1>1. DOMAIN s = 1..m /\ DOMAIN t = 1..(m + 1)
      BY StreamFacts
<1>2. h \in [DOMAIN s -> DOMAIN t] /\ \A f \in DOMAIN s : h[f] = f /\ t[f] = s[f]
      BY <1>1
<1>3. \A g \in DOMAIN t : \A i \in DOMAIN t[g] : g \in DOMAIN s /\ t[g] = s[g]
  <2> SUFFICES ASSUME NEW g \in DOMAIN t, NEW i \in DOMAIN t[g] PROVE g \in DOMAIN s /\ t[g] = s[g]
      OBVIOUS
  <2>1. g # m + 1
        OBVIOUS
  <2> QED BY <1>1, <2>1
<1> HIDE DEF h
<1>4. Keeps(s, t, h, {})
      BY <1>2, <1>3 DEF Keeps
<1> QED BY <1>4 DEF h

LEMMA InsertedKeeps ==
    ASSUME NEW s \in Streams, NEW t \in Streams, NEW e \in Parcels, Inserted(s, t, e)
    PROVE  \E h : Keeps(s, t, h, {e})
<1> PICK m \in Nat \ {0} :
        /\ Len(s) = m /\ Len(t) = m + 1
        /\ \A f \in 1..m : f # m => t[f] = s[f]
        /\ t[m] = <<e>>
        /\ t[m + 1] = s[m]
    BY DEF Inserted
<1> DEFINE h == [f \in DOMAIN s |-> IF f = m THEN m + 1 ELSE f]
<1>1. DOMAIN s = 1..m /\ DOMAIN t = 1..(m + 1) /\ DOMAIN t[m] = {1} /\ t[m][1] = e
      BY StreamFacts
<1>2. h \in [DOMAIN s -> DOMAIN t]
      BY <1>1
<1>3. \A f \in DOMAIN s : t[h[f]] = s[f]
  <2> SUFFICES ASSUME NEW f \in DOMAIN s PROVE t[h[f]] = s[f]
      OBVIOUS
  <2>1. CASE f = m
        BY <2>1
  <2>2. CASE f # m
        BY <1>1, <2>2
  <2> QED BY <2>1, <2>2
<1>4. \A f, g \in DOMAIN s : f < g => h[f] < h[g]
  <2> SUFFICES ASSUME NEW f \in DOMAIN s, NEW g \in DOMAIN s, f < g PROVE h[f] < h[g]
      OBVIOUS
  <2>1. f < m /\ f \in 1..m /\ g \in 1..m
        BY <1>1
  <2>2. h[f] = f /\ (h[g] = g \/ h[g] = g + 1)
        BY <2>1
  <2> HIDE DEF h
  <2> QED BY <2>1, <2>2
<1>5. \A g \in DOMAIN t : \A i \in DOMAIN t[g] :
          \/ \E f \in DOMAIN s : g = h[f] /\ i \in DOMAIN s[f]
          \/ t[g][i] \in {e}
  <2> SUFFICES ASSUME NEW g \in DOMAIN t, NEW i \in DOMAIN t[g]
               PROVE  \/ \E f \in DOMAIN s : g = h[f] /\ i \in DOMAIN s[f]
                      \/ t[g][i] \in {e}
      OBVIOUS
  <2>1. CASE g = m
        BY <1>1, <2>1
  <2>2. CASE g = m + 1
    <3>1. m \in DOMAIN s /\ h[m] = m + 1
          BY <1>1
    <3> QED BY <2>2, <3>1
  <2>3. CASE g # m /\ g # m + 1
    <3>1. g \in DOMAIN s /\ h[g] = g
          BY <1>1, <2>3
    <3> QED BY <1>1, <2>3, <3>1
  <2> QED BY <2>1, <2>2, <2>3
<1> HIDE DEF h
<1>6. Keeps(s, t, h, {e})
      BY <1>2, <1>3, <1>4, <1>5 DEF Keeps
<1> QED BY <1>6

\* Nothing that was taught is lost, and what is new brings only its own names.
LEMMA KeptNames ==
    ASSUME NEW s \in Streams, NEW t \in Streams, NEW h, NEW E, Keeps(s, t, h, E), NEW name
    PROVE  /\ Taught(s, name) => Taught(t, name)
           /\ Mentioned(t, name) => Mentioned(s, name) \/ \E e \in E : name \in e.names
<1>1. Taught(s, name) => Taught(t, name)
      BY DEF Taught, Keeps
<1>2. ASSUME Mentioned(t, name) PROVE Mentioned(s, name) \/ \E e \in E : name \in e.names
  <2>1. PICK g \in DOMAIN t : \E i \in DOMAIN t[g] : name \in t[g][i].names
        BY <1>2 DEF Mentioned
  <2>2. PICK i \in DOMAIN t[g] : name \in t[g][i].names
        BY <2>1
  <2>3. CASE \E f \in DOMAIN s : g = h[f] /\ i \in DOMAIN s[f]
        BY <2>2, <2>3 DEF Mentioned, Keeps
  <2>4. CASE t[g][i] \in E
        BY <2>2, <2>4
  <2> QED BY <2>3, <2>4 DEF Keeps
<1> QED BY <1>1, <1>2

\* What was introduced still is.
LEMMA KeptIntroduced ==
    ASSUME NEW s \in Streams, NEW t \in Streams, NEW h, NEW E, Keeps(s, t, h, E), NEW dict,
           Introduced(s, dict),
           NEW f \in DOMAIN s, NEW i \in DOMAIN s[f], Reads(s[f][i])
    PROVE  IntroducedAt(t, dict, h[f], i)
<1> SUFFICES ASSUME NEW name \in t[h[f]][i].names, name \notin dict
             PROVE  \E g \in DOMAIN t : \E j \in DOMAIN t[g] :
                        Upto(g, j, h[f], i) /\ Teaches(t[g][j]) /\ name \in t[g][j].names
    BY DEF IntroducedAt
<1>1. name \in s[f][i].names
      BY DEF Keeps
<1>2. PICK g \in DOMAIN s : \E j \in DOMAIN s[g] :
               Upto(g, j, f, i) /\ Teaches(s[g][j]) /\ name \in s[g][j].names
      BY <1>1 DEF Introduced, IntroducedAt
<1>3. PICK j \in DOMAIN s[g] : Upto(g, j, f, i) /\ Teaches(s[g][j]) /\ name \in s[g][j].names
      BY <1>2
<1>4. h[g] \in DOMAIN t /\ j \in DOMAIN t[h[g]] /\ t[h[g]][j] = s[g][j]
      BY DEF Keeps
<1>5. Upto(h[g], j, h[f], i)
      BY <1>3 DEF Keeps, Upto
<1> QED BY <1>3, <1>4, <1>5

LEMMA KeepsIntroduced ==
    ASSUME NEW s \in Streams, NEW t \in Streams, NEW h, NEW E, Keeps(s, t, h, E), NEW dict,
           Introduced(s, dict),
           \A g \in DOMAIN t : \A i \in DOMAIN t[g] :
               t[g][i] \in E /\ Reads(t[g][i]) => IntroducedAt(t, dict, g, i)
    PROVE  Introduced(t, dict)
<1> SUFFICES ASSUME NEW g \in DOMAIN t, NEW i \in DOMAIN t[g], Reads(t[g][i])
             PROVE  IntroducedAt(t, dict, g, i)
    BY DEF Introduced
<1>1. CASE \E f \in DOMAIN s : g = h[f] /\ i \in DOMAIN s[f]
  <2>1. PICK f \in DOMAIN s : g = h[f] /\ i \in DOMAIN s[f]
        BY <1>1
  <2>2. Reads(s[f][i])
        BY <2>1 DEF Keeps
  <2> QED BY <2>1, <2>2, KeptIntroduced
<1>2. CASE t[g][i] \in E
      BY <1>2
<1> QED BY <1>1, <1>2 DEF Keeps

-----------------------------------------------------------------------------
(* One more event, wherever the batcher puts it.                           *)

Grown(s, t, e) ==
    \/ /\ Class(e.channel) > 1
       /\ \E u \in Streams : Extended(s, u, e) /\ (t = u \/ Cut(u, t))
    \/ /\ ~(Class(e.channel) > 1)
       /\ Inserted(s, t, e)

\* The end of a stream, which the batcher still keeps, has nothing urgent.
Unhurried(s) == \A i \in DOMAIN s[Len(s)] : Class(s[Len(s)][i].channel) > 1

LEMMA CarriesGrown ==
    ASSUME NEW s \in Streams, NEW t \in Streams, NEW e \in Parcels, NEW c,
           NEW a \in Nat, NEW n \in Nat, a <= n + 1,
           Carries(s, c, a, n), Grown(s, t, e), Unhurried(s)
    PROVE  /\ Of(e, c) /\ e.n = n + 1 => Carries(t, c, a, n + 1)
           /\ ~Of(e, c) => Carries(t, c, a, n)
<1>1. CASE /\ Class(e.channel) > 1
           /\ \E u \in Streams : Extended(s, u, e) /\ (t = u \/ Cut(u, t))
  <2>1. PICK u \in Streams : Extended(s, u, e) /\ (t = u \/ Cut(u, t))
        BY <1>1
  <2>2. /\ Of(e, c) /\ e.n = n + 1 => Carries(u, c, a, n + 1)
        /\ ~Of(e, c) => Carries(u, c, a, n)
        BY <2>1, CarriesExtended
  <2> QED BY <2>1, <2>2, CarriesCut
<1>2. CASE ~(Class(e.channel) > 1) /\ Inserted(s, t, e)
  <2>1. Of(e, c) => \A i \in DOMAIN s[Len(s)] : ~IsOf(s, c, Len(s), i)
        BY <1>2 DEF Of, IsOf, Unhurried
  <2> QED BY <1>2, <2>1, CarriesInserted
<1> QED BY <1>1, <1>2 DEF Grown

LEMMA NamesGrown ==
    ASSUME NEW s \in Streams, NEW t \in Streams, NEW e \in Parcels, Grown(s, t, e), NEW name
    PROVE  /\ Taught(s, name) => Taught(t, name)
           /\ Mentioned(t, name) => Mentioned(s, name) \/ name \in e.names
           /\ Teaches(e) /\ Class(e.channel) > 1 /\ name \in e.names => Taught(t, name)
<1>1. CASE /\ Class(e.channel) > 1
           /\ \E u \in Streams : Extended(s, u, e) /\ (t = u \/ Cut(u, t))
  <2>1. PICK u \in Streams : Extended(s, u, e) /\ (t = u \/ Cut(u, t))
        BY <1>1
  <2>2. /\ Taught(s, name) => Taught(u, name)
        /\ Mentioned(u, name) => Mentioned(s, name) \/ name \in e.names
    <3>1. Keeps(s, u, [f \in DOMAIN s |-> f], {e})
          BY <2>1, ExtendedKeeps
    <3> QED BY <3>1, KeptNames
  <2>3. Teaches(e) /\ name \in e.names => Taught(u, name)
    <3>1. Ends(s, u, e)
          BY <2>1, ExtendedKeeps
    <3> QED BY <3>1 DEF Taught, Ends
  <2>4. Cut(u, t) => /\ Taught(u, name) => Taught(t, name)
                     /\ Mentioned(t, name) => Mentioned(u, name)
    <3>1. ASSUME Cut(u, t) PROVE Keeps(u, t, [f \in DOMAIN u |-> f], {})
          BY <3>1, CutKeeps
    <3> QED BY <3>1, KeptNames
  <2> QED BY <2>1, <2>2, <2>3, <2>4
<1>2. CASE ~(Class(e.channel) > 1) /\ Inserted(s, t, e)
  <2>1. PICK h : Keeps(s, t, h, {e})
        BY <1>2, InsertedKeeps
  <2> QED BY <1>2, <2>1, KeptNames
<1> QED BY <1>1, <1>2 DEF Grown

LEMMA IntroducedGrown ==
    ASSUME NEW s \in Streams, NEW t \in Streams, NEW e \in Parcels, Grown(s, t, e), NEW dict,
           Introduced(s, dict),
           Class(e.channel) > 1 \/ e.names = {},
           Reads(e) => \A name \in e.names : name \in dict \/ Taught(s, name)
    PROVE  Introduced(t, dict)
<1>1. CASE /\ Class(e.channel) > 1
           /\ \E u \in Streams : Extended(s, u, e) /\ (t = u \/ Cut(u, t))
  <2>1. PICK u \in Streams : Extended(s, u, e) /\ (t = u \/ Cut(u, t))
        BY <1>1
  <2> DEFINE h == [f \in DOMAIN s |-> f]
  <2>2. Keeps(s, u, h, {e}) /\ Ends(s, u, e)
        BY <2>1, ExtendedKeeps
  <2>3. \A f \in DOMAIN s : h[f] = f
        OBVIOUS
  <2> HIDE DEF h
  <2>4. PICK m \in DOMAIN u : \E k \in DOMAIN u[m] :
                /\ u[m][k] = e
                /\ \A f \in DOMAIN u : \A i \in DOMAIN u[f] :
                     /\ Upto(f, i, m, k)
                     /\ (f = m /\ i = k) \/ (f \in DOMAIN s /\ i \in DOMAIN s[f])
        BY <2>2 DEF Ends
  <2>5. PICK k \in DOMAIN u[m] :
                /\ u[m][k] = e
                /\ \A f \in DOMAIN u : \A i \in DOMAIN u[f] :
                     /\ Upto(f, i, m, k)
                     /\ (f = m /\ i = k) \/ (f \in DOMAIN s /\ i \in DOMAIN s[f])
        BY <2>4
  <2>6. Reads(e) => IntroducedAt(u, dict, m, k)
    <3> SUFFICES ASSUME Reads(e), NEW name \in e.names, name \notin dict
                 PROVE  \E g \in DOMAIN u : \E j \in DOMAIN u[g] :
                            Upto(g, j, m, k) /\ Teaches(u[g][j]) /\ name \in u[g][j].names
        BY <2>5 DEF IntroducedAt
    <3>1. Taught(u, name)
          BY <2>2, KeptNames
    <3> QED BY <2>5, <3>1 DEF Taught
  <2>7. \A g \in DOMAIN u : \A i \in DOMAIN u[g] :
            u[g][i] \in {e} /\ Reads(u[g][i]) => IntroducedAt(u, dict, g, i)
    <3> SUFFICES ASSUME NEW g \in DOMAIN u, NEW i \in DOMAIN u[g], u[g][i] = e, Reads(e)
                 PROVE  IntroducedAt(u, dict, g, i)
        OBVIOUS
    <3>1. CASE g = m /\ i = k
          BY <2>6, <3>1
    <3>2. CASE g \in DOMAIN s /\ i \in DOMAIN s[g]
      <4>1. h[g] = g /\ s[g][i] = e
            BY <2>2, <2>3, <3>2 DEF Keeps
      <4>2. IntroducedAt(u, dict, h[g], i)
            BY <2>2, <3>2, <4>1, KeptIntroduced
      <4> QED BY <4>1, <4>2
    <3> QED BY <2>5, <3>1, <3>2
  <2>8. Introduced(u, dict)
        BY <2>2, <2>7, KeepsIntroduced
  <2>9. ASSUME Cut(u, t) PROVE Introduced(t, dict)
    <3>1. Keeps(u, t, [f \in DOMAIN u |-> f], {})
          BY <2>9, CutKeeps
    <3> QED BY <2>8, <3>1, KeepsIntroduced
  <2> QED BY <2>1, <2>8, <2>9
<1>2. CASE ~(Class(e.channel) > 1) /\ Inserted(s, t, e)
  <2>1. PICK h : Keeps(s, t, h, {e})
        BY <1>2, InsertedKeeps
  <2>2. \A g \in DOMAIN t : \A i \in DOMAIN t[g] :
            t[g][i] \in {e} /\ Reads(t[g][i]) => IntroducedAt(t, dict, g, i)
        BY <1>2 DEF IntroducedAt
  <2> QED BY <2>1, <2>2, KeepsIntroduced
<1> QED BY <1>1, <1>2 DEF Grown

\* One body taken: what the terminal learns of it stays known.
LEMMA IntroducedShifted ==
    ASSUME NEW s \in Streams, NEW t \in Streams, Shifted(s, t), NEW dict, Introduced(s, dict),
           NEW known, known = dict \cup Learned(s[1], Len(s[1]))
    PROVE  /\ Introduced(t, known)
           /\ \A i \in DOMAIN s[1] :
                Reads(s[1][i]) => s[1][i].names \subseteq dict \cup Learned(s[1], i)
           /\ \A name : /\ Taught(s, name) => Taught(t, name) \/ name \in known
                        /\ Mentioned(t, name) => Mentioned(s, name)
           /\ \A i \in DOMAIN s[1] : \A name \in s[1][i].names : Mentioned(s, name)
           /\ \A name \in known : name \in dict \/ Mentioned(s, name)
<1>1. /\ DOMAIN s = 1..(Len(t) + 1) /\ DOMAIN t = 1..Len(t) /\ Len(t) \in Nat
      /\ 1 \in DOMAIN s /\ DOMAIN s[1] = 1..Len(s[1]) /\ Len(s[1]) \in Nat
  <2>1. Len(t) \in Nat /\ DOMAIN t = 1..Len(t) /\ DOMAIN s = 1..Len(s)
        BY StreamFacts
  <2>2. Len(s) = Len(t) + 1
        BY DEF Shifted
  <2>3. DOMAIN s = 1..(Len(t) + 1) /\ 1 \in DOMAIN s
        BY <2>1, <2>2
  <2> QED BY <2>1, <2>3, StreamFacts
<1>2. \A f \in DOMAIN t : f + 1 \in DOMAIN s /\ t[f] = s[f + 1] /\ f \in Nat \ {0}
      BY <1>1 DEF Shifted
<1>3. \A f \in DOMAIN s : f # 1 => f - 1 \in DOMAIN t /\ t[f - 1] = s[f] /\ f \in Nat
      BY <1>1 DEF Shifted
<1>4. \A count : \A name \in Learned(s[1], count) :
          \E j \in 1..count : Teaches(s[1][j]) /\ name \in s[1][j].names
      BY DEF Learned, Teaches
<1>5. \A count : \A j \in 1..count :
          Teaches(s[1][j]) => s[1][j].names \subseteq Learned(s[1], count)
      BY DEF Learned, Teaches
<1>6. Introduced(t, known)
  <2> SUFFICES ASSUME NEW f \in DOMAIN t, NEW i \in DOMAIN t[f], Reads(t[f][i]),
                      NEW name \in t[f][i].names, name \notin known
               PROVE  \E g \in DOMAIN t : \E j \in DOMAIN t[g] :
                          Upto(g, j, f, i) /\ Teaches(t[g][j]) /\ name \in t[g][j].names
      BY DEF Introduced, IntroducedAt
  <2>1. f + 1 \in DOMAIN s /\ t[f] = s[f + 1] /\ name \notin dict
        BY <1>2
  <2>2. PICK g \in DOMAIN s : \E j \in DOMAIN s[g] :
            Upto(g, j, f + 1, i) /\ Teaches(s[g][j]) /\ name \in s[g][j].names
        BY <2>1 DEF Introduced, IntroducedAt
  <2>3. PICK j \in DOMAIN s[g] :
            Upto(g, j, f + 1, i) /\ Teaches(s[g][j]) /\ name \in s[g][j].names
        BY <2>2
  <2>4. g # 1
        BY <1>1, <1>5, <2>3
  <2>5. g - 1 \in DOMAIN t /\ t[g - 1] = s[g] /\ Upto(g - 1, j, f, i)
        BY <1>2, <1>3, <2>3, <2>4 DEF Upto
  <2> QED BY <2>3, <2>5
<1>7. ASSUME NEW i \in DOMAIN s[1], Reads(s[1][i]), NEW name \in s[1][i].names, name \notin dict
      PROVE  name \in Learned(s[1], i)
  <2>1. PICK g \in DOMAIN s : \E j \in DOMAIN s[g] :
            Upto(g, j, 1, i) /\ Teaches(s[g][j]) /\ name \in s[g][j].names
        BY <1>1, <1>7 DEF Introduced, IntroducedAt
  <2>2. PICK j \in DOMAIN s[g] :
            Upto(g, j, 1, i) /\ Teaches(s[g][j]) /\ name \in s[g][j].names
        BY <2>1
  <2>3. g = 1 /\ j <= i
        BY <1>1, <2>2 DEF Upto
  <2>4. j \in 1..i
        BY <1>1, <2>3
  <2> QED BY <1>5, <2>2, <2>3, <2>4
<1>8. ASSUME NEW name, Taught(s, name) PROVE Taught(t, name) \/ name \in known
  <2>1. PICK g \in DOMAIN s : \E j \in DOMAIN s[g] : Teaches(s[g][j]) /\ name \in s[g][j].names
        BY <1>8 DEF Taught
  <2>2. PICK j \in DOMAIN s[g] : Teaches(s[g][j]) /\ name \in s[g][j].names
        BY <2>1
  <2>3. CASE g = 1
        BY <1>1, <1>5, <2>2, <2>3
  <2>4. CASE g # 1
        BY <1>3, <2>2, <2>4 DEF Taught
  <2> QED BY <2>3, <2>4
<1>9. \A name : Mentioned(t, name) => Mentioned(s, name)
      BY <1>2 DEF Mentioned
<1>10. \A i \in DOMAIN s[1] : \A name \in s[1][i].names : Mentioned(s, name)
       BY <1>1 DEF Mentioned
<1>11. \A name \in known : name \in dict \/ Mentioned(s, name)
       BY <1>1, <1>4, <1>10
<1> QED BY <1>6, <1>7, <1>8, <1>9, <1>10, <1>11

-----------------------------------------------------------------------------
(* The batcher, and the frames it is written in.                           *)

LEMMA ClassIsNumber == \A channel : Class(channel) \in Nat
BY DEF Class

Unaged(env) == [env EXCEPT !.at = 0]

LEMMA UnagedFacts ==
    ASSUME NEW e \in Parcels
    PROVE  /\ Unaged(e) \in Parcels
           /\ Unaged(e).channel = e.channel /\ Unaged(e).names = e.names /\ Unaged(e).n = e.n
           /\ Unaged(e).kind = e.kind /\ Unaged(e).ver = e.ver
BY DEF Unaged, Parcels

LEMMA UnstampedFacts ==
    ASSUME NEW p \in Seq(Parcels)
    PROVE  /\ Unstamped(p) \in Seq(Parcels) /\ Len(Unstamped(p)) = Len(p)
           /\ \A i \in 1..Len(p) : Unstamped(p)[i] = Unaged(p[i])
<1>1. /\ DOMAIN p = 1..Len(p) /\ Len(p) \in Nat
      /\ \A i \in 1..Len(p) : Unaged(p[i]) \in Parcels
      BY UnagedFacts
<1>2. Unstamped(p) = [i \in 1..Len(p) |-> Unaged(p[i])]
      BY <1>1 DEF Unstamped, Unaged
<1> QED BY <1>1, <1>2

LEMMA UnstampedAppend ==
    ASSUME NEW p \in Seq(Parcels), NEW e \in Parcels
    PROVE  Unstamped(Append(p, e)) = Append(Unstamped(p), Unaged(e))
<1> DEFINE l == Unstamped(Append(p, e))
           r == Append(Unstamped(p), Unaged(e))
<1>1. Append(p, e) \in Seq(Parcels) /\ Len(Append(p, e)) = Len(p) + 1 /\ Len(p) \in Nat
      OBVIOUS
<1>2. l \in Seq(Parcels) /\ Len(l) = Len(p) + 1 /\ \A i \in 1..(Len(p) + 1) : l[i] = Unaged(Append(p, e)[i])
      BY <1>1, UnstampedFacts
<1>3. r \in Seq(Parcels) /\ Len(r) = Len(p) + 1
      BY UnstampedFacts, UnagedFacts
<1>4. \A i \in 1..Len(p) : r[i] = Unaged(p[i]) /\ Append(p, e)[i] = p[i]
      BY UnstampedFacts
<1>5. r[Len(p) + 1] = Unaged(e) /\ Append(p, e)[Len(p) + 1] = e
      BY UnstampedFacts
<1> HIDE DEF l, r
<1>6. \A i \in 1..(Len(p) + 1) : l[i] = r[i]
      BY <1>1, <1>2, <1>4, <1>5
<1> QED BY <1>2, <1>3, <1>6 DEF l, r

LEMMA UnstampedSmall ==
    /\ Unstamped(<<>>) = <<>>
    /\ \A e \in Parcels : Unstamped(<<e>>) = <<Unaged(e)>>
<1>1. Unstamped(<<>>) = <<>>
      BY DEF Unstamped
<1>2. ASSUME NEW e \in Parcels PROVE Unstamped(<<e>>) = <<Unaged(e)>>
      BY DEF Unstamped, Unaged
<1> QED BY <1>1, <1>2

\* A batcher as the core keeps one: not full, not due, and with nothing urgent.
GoodBatcher(b, now) ==
    /\ b \in [parts : Seq(Parcels), bytes : Nat, openedAt : Nat]
    /\ b.bytes < BATCH_FLUSH_BYTES
    /\ b.parts # <<>> => now <= Deadline(b)
    /\ \A i \in DOMAIN b.parts : /\ b.openedAt <= b.parts[i].at /\ b.parts[i].at <= now
                                 /\ Class(b.parts[i].channel) > 1

LEMMA EmptyGood ==
    ASSUME NEW now \in Nat
    PROVE  GoodBatcher(EmptyBatcher, now)
BY FramingAssumption DEF GoodBatcher, EmptyBatcher

\* One part more: kept, or what closes the batch; urgent, it goes out alone.
LEMMA PushGood ==
    ASSUME NEW now \in Nat, NEW b, GoodBatcher(b, now),
           NEW e \in Parcels, e.at = now, e.size <= MaxMessage,
           NEW step, step = Push(b, e, now)
    PROVE  /\ GoodBatcher(step.batcher, now)
           /\ \/ /\ ~(Class(e.channel) > 1)
                 /\ step.batcher = b /\ step.out = <<Batch(<<e>>, e.size)>>
              \/ /\ Class(e.channel) > 1
                 /\ step.batcher.parts = Append(b.parts, e) /\ step.out = <<>>
              \/ /\ Class(e.channel) > 1
                 /\ step.batcher.parts = <<>>
                 /\ step.out = <<Batch(Append(b.parts, e), b.bytes + e.size)>>
<1>1. CASE Class(e.channel) <= 1
      BY <1>1, ClassIsNumber DEF Push, Urgent
<1>2. CASE ~(Class(e.channel) <= 1)
  <2> DEFINE more == With(b, e, now)
             due == \/ Len(more.parts) >= BATCH_MAX_ITEMS
                    \/ more.bytes >= BATCH_FLUSH_BYTES
                    \/ now >= Deadline(more)
  <2>1. /\ more.parts = Append(b.parts, e) /\ more.bytes = b.bytes + e.size
        /\ more.openedAt = IF b.parts = <<>> THEN now ELSE b.openedAt
        BY DEF With
  <2>2. /\ b.parts \in Seq(Parcels) /\ b.bytes \in Nat /\ b.openedAt \in Nat /\ e.size \in Nat
        BY DEF GoodBatcher, Parcels
  <2>3. more \in [parts : Seq(Parcels), bytes : Nat, openedAt : Nat]
        BY <2>2 DEF With
  <2>4. Class(e.channel) > 1
        BY <1>2, ClassIsNumber
  <2>5. step = FlushIf(more, due)
        BY <1>2 DEF Push
  <2>6. more.parts # <<>>
        BY <2>1, <2>2
  <2>7. \A i \in DOMAIN more.parts : /\ more.openedAt <= more.parts[i].at /\ more.parts[i].at <= now
                                     /\ Class(more.parts[i].channel) > 1
    <3> SUFFICES ASSUME NEW i \in DOMAIN more.parts
                 PROVE  /\ more.openedAt <= more.parts[i].at /\ more.parts[i].at <= now
                        /\ Class(more.parts[i].channel) > 1
        OBVIOUS
    <3>1. Len(b.parts) \in Nat /\ i \in 1..(Len(b.parts) + 1)
          BY <2>1, <2>2
    <3>2. CASE i = Len(b.parts) + 1
      <4>1. more.parts[i] = e
            BY <2>1, <2>2, <3>2
      <4>2. CASE b.parts = <<>>
            BY <2>1, <2>4, <4>1, <4>2
      <4>3. CASE b.parts # <<>>
        <5>1. 1 \in DOMAIN b.parts /\ b.parts[1] \in Parcels
              BY <2>2, <4>3
        <5>2. b.openedAt <= b.parts[1].at /\ b.parts[1].at <= now /\ b.parts[1].at \in Nat
              BY <5>1 DEF GoodBatcher, Parcels
        <5> QED BY <2>1, <2>2, <2>4, <4>1, <4>3, <5>2
      <4> QED BY <4>2, <4>3
    <3>3. CASE i \in 1..Len(b.parts)
      <4>1. more.parts[i] = b.parts[i] /\ i \in DOMAIN b.parts /\ b.parts # <<>>
            BY <2>1, <2>2, <3>3
      <4> QED BY <2>1, <4>1 DEF GoodBatcher
    <3> QED BY <3>1, <3>2, <3>3
  <2> HIDE DEF more
  <2>8. CASE due
    <3>1. step.batcher = EmptyBatcher /\ step.out = <<Batch(more.parts, more.bytes)>>
          BY <2>5, <2>6, <2>8 DEF FlushIf, Taken
    <3> QED BY <2>1, <2>4, <3>1, EmptyGood DEF EmptyBatcher
  <2>9. CASE ~due
    <3>1. step.batcher = more /\ step.out = <<>>
          BY <2>5, <2>9 DEF FlushIf, Kept
    <3>2. more.bytes < BATCH_FLUSH_BYTES
          BY <2>3, <2>9, FramingAssumption
    <3>3. now <= Deadline(more)
          BY <2>3, <2>9, FramingAssumption DEF Deadline
    <3>4. GoodBatcher(more, now)
          BY <2>3, <2>7, <3>2, <3>3 DEF GoodBatcher
    <3> QED BY <2>1, <2>4, <3>1, <3>4
  <2> QED BY <2>8, <2>9
<1> QED BY <1>1, <1>2

LEMMA FlushGood ==
    ASSUME NEW now \in Nat, NEW b, GoodBatcher(b, now), NEW due, NEW step, step = FlushIf(b, due)
    PROVE  /\ GoodBatcher(step.batcher, now)
           /\ \/ step.batcher = b /\ step.out = <<>>
              \/ /\ step.batcher.parts = <<>>
                 /\ step.out = <<Batch(b.parts, b.bytes)>>
BY EmptyGood DEF FlushIf, Taken, Kept, EmptyBatcher

LEMMA OfTwo ==
    ASSUME NEW a \in Int, NEW b \in Int, NEW S, S = {a, b}
    PROVE  /\ Max(S) \in Int /\ a <= Max(S)
           /\ Min(S) \in Int /\ Min(S) <= a /\ Min(S) <= b
<1>1. \E x \in S : \A y \in S : x >= y
  <2>1. CASE a >= b
        BY <2>1
  <2>2. CASE ~(a >= b)
        BY <2>2
  <2> QED BY <2>1, <2>2
<1>2. \E x \in S : \A y \in S : x <= y
  <2>1. CASE a <= b
        BY <2>1
  <2>2. CASE ~(a <= b)
        BY <2>2
  <2> QED BY <2>1, <2>2
<1>3. Max(S) \in S /\ \A y \in S : Max(S) >= y
      BY <1>1 DEF Max
<1>4. Min(S) \in S /\ \A y \in S : Min(S) <= y
      BY <1>2 DEF Min
<1> QED BY <1>3, <1>4

\* What may be inflated is never less than the floor.
LEMMA BudgetFloor ==
    ASSUME NEW len \in Nat
    PROVE  Budget(len) \in Int /\ MIN_INFLATE_BUDGET <= Budget(len)
<1> DEFINE x == len * MAX_INFLATE_RATIO
           S == {x, MAX_INFLATED}
           y == Min(S)
           T == {MIN_INFLATE_BUDGET, y}
<1>1. x \in Int /\ MAX_INFLATED \in Int /\ MIN_INFLATE_BUDGET \in Int
      BY FramingAssumption
<1>2. S = {x, MAX_INFLATED}
      OBVIOUS
<1> HIDE DEF x, S
<1>3. y \in Int
      BY <1>1, <1>2, OfTwo
<1> HIDE DEF y
<1>4. T = {MIN_INFLATE_BUDGET, y}
      OBVIOUS
<1> HIDE DEF T
<1>5. Max(T) \in Int /\ MIN_INFLATE_BUDGET <= Max(T)
      BY <1>1, <1>3, <1>4, OfTwo
<1>6. Budget(len) = Max(T)
      BY DEF Budget, T, S, x, y
<1> QED BY <1>5, <1>6

LEMMA RoomForBatches ==
    /\ BATCH_FLUSH_BYTES + MaxMessage <= MIN_INFLATE_BUDGET
    /\ BATCH_FLUSH_BYTES + MaxMessage <= MAX_FRAME - 2
<1> DEFINE room == MAX_FRAME - 2
           S == {MIN_INFLATE_BUDGET, room}
           least == Min(S)
<1>1. /\ BATCH_FLUSH_BYTES \in Nat /\ MaxMessage \in Nat
      /\ MIN_INFLATE_BUDGET \in Int /\ room \in Int
      BY FramingAssumption
<1>2. BATCH_FLUSH_BYTES + MaxMessage <= least
      BY FramingAssumption
<1>3. S = {MIN_INFLATE_BUDGET, room}
      OBVIOUS
<1> HIDE DEF S, room
<1>4. least \in Int /\ least <= MIN_INFLATE_BUDGET /\ least <= room
      BY <1>1, <1>3, OfTwo
<1> HIDE DEF least
<1>5. BATCH_FLUSH_BYTES + MaxMessage <= room
      BY <1>1, <1>2, <1>4
<1> QED BY <1>1, <1>2, <1>4, <1>5 DEF room

Frames ==
    [ok : {TRUE}, fmt : {1}, zstd : BOOLEAN, batch : BOOLEAN, reserved : {FALSE},
     len : Nat, raw : Nat, body : Seq(Parcels)]

GoodFrames == {frame \in Frames : ~Refused(frame)}

\* Whatever the batcher cuts can be framed, and the frame is not refused.
LEMMA FrameWhole ==
    ASSUME NEW parts \in Seq(Parcels), NEW size \in Nat, size <= BATCH_FLUSH_BYTES + MaxMessage,
           NEW compressed \in {1, size},
           NEW frame, frame = Encode(Batch(parts, size), compressed)
    PROVE  frame \in GoodFrames /\ frame.ok /\ frame.body = parts
<1> DEFINE zstd == size >= COMPRESS_MIN_BYTES /\ 100 * compressed <= 95 * size
           len == 2 + IF zstd THEN compressed ELSE size
<1>1. /\ BATCH_FLUSH_BYTES \in Nat /\ MaxMessage \in Nat /\ MAX_FRAME \in Nat
      /\ MIN_INFLATE_BUDGET \in Nat /\ MAX_INFLATE_RATIO \in Nat /\ MAX_INFLATED \in Nat
      BY FramingAssumption
<1>2. /\ BATCH_FLUSH_BYTES + MaxMessage <= MIN_INFLATE_BUDGET
      /\ BATCH_FLUSH_BYTES + MaxMessage <= MAX_FRAME - 2
      BY RoomForBatches
<1>3. compressed \in Nat /\ (zstd => compressed <= size)
      OBVIOUS
<1>4. len \in Nat /\ len >= 2 /\ len <= MAX_FRAME
      BY <1>1, <1>2, <1>3
<1>5. frame = [ok |-> TRUE, fmt |-> 1, zstd |-> zstd, batch |-> Len(parts) # 1,
               reserved |-> FALSE, len |-> len, raw |-> size, body |-> parts]
      BY <1>1, <1>4 DEF Encode, Batch
<1> HIDE DEF len, zstd
<1>6. zstd \in BOOLEAN
      BY DEF zstd
<1>7. frame \in Frames /\ frame.ok /\ frame.body = parts
      BY <1>4, <1>5, <1>6 DEF Frames
<1>8. size <= Budget(len - 2) /\ Budget(len - 2) \in Int
  <2>1. len - 2 \in Nat
        BY <1>4
  <2>2. Budget(len - 2) \in Int /\ MIN_INFLATE_BUDGET <= Budget(len - 2)
        BY <2>1, BudgetFloor
  <2> QED BY <1>1, <1>2, <2>2
<1>9. /\ frame.len = len /\ frame.fmt = 1 /\ frame.reserved = FALSE /\ frame.raw = size
      BY <1>5
<1>10. ~Refused(frame)
  <2>1. ~(size > Budget(len - 2))
        BY <1>8
  <2>2. ~(len > MAX_FRAME) /\ ~(len < 2)
        BY <1>1, <1>4
  <2> QED BY <1>9, <2>1, <2>2 DEF Refused
<1> QED BY <1>7, <1>10 DEF GoodFrames

-----------------------------------------------------------------------------
(* The stream of a wire and a batcher, and its steps.                      *)

StreamOf(w, parts) ==
    [f \in 1..Len(w) + 1 |->
       IF f = Len(w) + 1 THEN Unstamped(parts) ELSE IF Refused(w[f]) THEN <<>> ELSE w[f].body]

LEMMA StreamOfFacts ==
    ASSUME NEW w \in Seq(GoodFrames), NEW parts \in Seq(Parcels),
           NEW s, s = StreamOf(w, parts)
    PROVE  /\ s \in Streams /\ Len(s) = Len(w) + 1 /\ Len(w) \in Nat
           /\ \A f \in 1..Len(w) : s[f] = w[f].body
           /\ s[Len(w) + 1] = Unstamped(parts)
<1>1. Len(w) \in Nat /\ \A f \in 1..Len(w) : w[f] \in GoodFrames
      OBVIOUS
<1>2. \A f \in 1..Len(w) : w[f].body \in Seq(Parcels) /\ ~Refused(w[f])
      BY <1>1 DEF GoodFrames, Frames
<1>3. \A f \in 1..(Len(w) + 1) :
          s[f] = IF f = Len(w) + 1 THEN Unstamped(parts) ELSE w[f].body
      BY <1>1, <1>2 DEF StreamOf
<1>4. Unstamped(parts) \in Seq(Parcels)
      BY UnstampedFacts
<1>5. \A f \in 1..(Len(w) + 1) : s[f] \in Seq(Parcels)
      BY <1>1, <1>2, <1>3, <1>4
<1>6. s = [f \in 1..(Len(w) + 1) |-> s[f]]
      BY <1>1 DEF StreamOf
<1>7. s \in Seq(Seq(Parcels)) /\ Len(s) = Len(w) + 1
      BY <1>1, <1>5, <1>6
<1> QED BY <1>1, <1>3, <1>7 DEF Streams

\* Written, of a wire before and after.
WrittenTo(w, out, next) ==
    IF out = <<>> THEN next = w
    ELSE \E compressed \in {1, out[1].size} :
            LET frame == Encode(Batch(Unstamped(out[1].parts), out[1].size), compressed)
            IN  next = IF frame.ok THEN Append(w, frame) ELSE w

LEMMA WrittenFacts ==
    ASSUME NEW w \in Seq(GoodFrames), NEW out, out # <<>>,
           out[1].parts \in Seq(Parcels), out[1].size \in Nat,
           out[1].size <= BATCH_FLUSH_BYTES + MaxMessage,
           NEW next, WrittenTo(w, out, next)
    PROVE  /\ next \in Seq(GoodFrames) /\ Len(next) = Len(w) + 1
           /\ \A f \in 1..Len(w) : next[f] = w[f]
           /\ next[Len(w) + 1].body = Unstamped(out[1].parts)
<1> DEFINE parts == Unstamped(out[1].parts)
           size == out[1].size
<1>1. PICK compressed \in {1, size} :
          LET frame == Encode(Batch(parts, size), compressed)
          IN  next = IF frame.ok THEN Append(w, frame) ELSE w
      BY DEF WrittenTo
<1> DEFINE frame == Encode(Batch(parts, size), compressed)
<1>2. parts \in Seq(Parcels)
      BY UnstampedFacts
<1>3. next = IF frame.ok THEN Append(w, frame) ELSE w
      BY <1>1
<1>4. frame = Encode(Batch(parts, size), compressed) /\ size \in Nat
      OBVIOUS
<1> HIDE DEF frame, parts
<1>5. frame \in GoodFrames /\ frame.ok /\ frame.body = parts
      BY <1>2, <1>4, FrameWhole
<1>6. next = Append(w, frame)
      BY <1>3, <1>5
<1> QED BY <1>5, <1>6 DEF parts

LEMMA ShapeOfPush ==
    ASSUME NEW w \in Seq(GoodFrames), NEW now \in Nat, NEW b, GoodBatcher(b, now),
           NEW e \in Parcels, e.at = now, e.size <= MaxMessage,
           NEW step, step = Push(b, e, now),
           NEW next, WrittenTo(w, step.out, next)
    PROVE  /\ next \in Seq(GoodFrames) /\ GoodBatcher(step.batcher, now)
           /\ Grown(StreamOf(w, b.parts), StreamOf(next, step.batcher.parts), Unaged(e))
<1> DEFINE s == StreamOf(w, b.parts)
           t == StreamOf(next, step.batcher.parts)
<1>1. /\ b.parts \in Seq(Parcels) /\ b.bytes \in Nat /\ b.bytes < BATCH_FLUSH_BYTES
      /\ e.size \in Nat /\ BATCH_FLUSH_BYTES \in Nat /\ MaxMessage \in Nat
      BY FramingAssumption DEF GoodBatcher, Parcels
<1>2. Unaged(e) \in Parcels /\ Unaged(e).channel = e.channel
      BY UnagedFacts
<1>3. GoodBatcher(step.batcher, now) /\ step.batcher.parts \in Seq(Parcels)
  <2>1. GoodBatcher(step.batcher, now)
        BY PushGood, Zenon
  <2> QED BY <2>1 DEF GoodBatcher
<1>4. /\ s \in Streams /\ Len(s) = Len(w) + 1 /\ Len(w) \in Nat
      /\ \A f \in 1..Len(w) : s[f] = w[f].body
      /\ s[Len(w) + 1] = Unstamped(b.parts)
      BY <1>1, StreamOfFacts
<1> HIDE DEF s
<1>5. CASE /\ ~(Class(e.channel) > 1)
           /\ step.batcher = b /\ step.out = <<Batch(<<e>>, e.size)>>
  <2>1. /\ next \in Seq(GoodFrames) /\ Len(next) = Len(w) + 1
        /\ \A f \in 1..Len(w) : next[f] = w[f]
        /\ next[Len(w) + 1].body = Unstamped(<<e>>)
    <3>1. /\ step.out # <<>> /\ step.out[1].parts = <<e>> /\ step.out[1].size = e.size
          BY <1>5 DEF Batch
    <3>2. <<e>> \in Seq(Parcels) /\ e.size <= BATCH_FLUSH_BYTES + MaxMessage
          BY <1>1
    <3>3. /\ step.out[1].parts \in Seq(Parcels) /\ step.out[1].size \in Nat
          /\ step.out[1].size <= BATCH_FLUSH_BYTES + MaxMessage
          BY <1>1, <3>1, <3>2
    <3>4. /\ next \in Seq(GoodFrames) /\ Len(next) = Len(w) + 1
          /\ \A f \in 1..Len(w) : next[f] = w[f]
          /\ next[Len(w) + 1].body = Unstamped(step.out[1].parts)
          BY <3>1, <3>3, WrittenFacts
    <3> QED BY <3>1, <3>4
  <2>2. /\ t \in Streams /\ Len(t) = Len(next) + 1
        /\ \A f \in 1..Len(next) : t[f] = next[f].body
        /\ t[Len(next) + 1] = Unstamped(b.parts)
        BY <1>1, <1>5, <2>1, StreamOfFacts
  <2> HIDE DEF t
  <2>3. t[Len(w) + 1] = <<Unaged(e)>> /\ t[Len(w) + 2] = s[Len(w) + 1]
        BY <1>4, <2>1, <2>2, UnstampedSmall
  <2>4. \A f \in 1..(Len(w) + 1) : f # Len(w) + 1 => t[f] = s[f]
        BY <1>4, <2>1, <2>2
  <2>5. Inserted(s, t, Unaged(e))
    <3> DEFINE m == Len(w) + 1
    <3>1. m \in Nat \ {0} /\ Len(s) = m /\ Len(t) = m + 1 /\ t[m + 1] = s[m] /\ t[m] = <<Unaged(e)>>
          BY <1>4, <2>1, <2>2, <2>3
    <3>2. \A f \in 1..m : f # m => t[f] = s[f]
          BY <2>4
    <3> HIDE DEF m
    <3> QED BY <3>1, <3>2 DEF Inserted
  <2> QED BY <1>2, <1>3, <1>5, <2>1, <2>5 DEF Grown, s, t
<1>6. CASE /\ Class(e.channel) > 1
           /\ step.batcher.parts = Append(b.parts, e) /\ step.out = <<>>
  <2>1. next = w
        BY <1>6 DEF WrittenTo
  <2>2. /\ t \in Streams /\ Len(t) = Len(w) + 1
        /\ \A f \in 1..Len(w) : t[f] = w[f].body
        /\ t[Len(w) + 1] = Append(Unstamped(b.parts), Unaged(e))
    <3>1. Append(b.parts, e) \in Seq(Parcels)
          BY <1>1
    <3>2. Unstamped(Append(b.parts, e)) = Append(Unstamped(b.parts), Unaged(e))
          BY <1>1, UnstampedAppend
    <3> QED BY <1>1, <1>6, <2>1, <3>1, <3>2, StreamOfFacts
  <2> HIDE DEF t
  <2>3. Extended(s, t, Unaged(e))
    <3> DEFINE m == Len(w) + 1
    <3>1. m \in Nat \ {0} /\ Len(s) = m /\ Len(t) = m /\ t[m] = Append(s[m], Unaged(e))
          BY <1>4, <2>2
    <3>2. \A f \in 1..m : f # m => t[f] = s[f]
          BY <1>4, <2>2
    <3> HIDE DEF m
    <3> QED BY <3>1, <3>2 DEF Extended
  <2> QED BY <1>2, <1>3, <1>6, <2>1, <2>2, <2>3 DEF Grown, s, t
<1>7. CASE /\ Class(e.channel) > 1
           /\ step.batcher.parts = <<>>
           /\ step.out = <<Batch(Append(b.parts, e), b.bytes + e.size)>>
  <2> DEFINE u == StreamOf(w, Append(b.parts, e))
  <2>0. Append(b.parts, e) \in Seq(Parcels) /\ b.bytes + e.size \in Nat
        /\ b.bytes + e.size <= BATCH_FLUSH_BYTES + MaxMessage
        BY <1>1
  <2>1. /\ next \in Seq(GoodFrames) /\ Len(next) = Len(w) + 1
        /\ \A f \in 1..Len(w) : next[f] = w[f]
        /\ next[Len(w) + 1].body = Append(Unstamped(b.parts), Unaged(e))
    <3>1. /\ step.out # <<>> /\ step.out[1].parts = Append(b.parts, e)
          /\ step.out[1].size = b.bytes + e.size
          BY <1>7 DEF Batch
    <3>3. /\ step.out[1].parts \in Seq(Parcels) /\ step.out[1].size \in Nat
          /\ step.out[1].size <= BATCH_FLUSH_BYTES + MaxMessage
          BY <2>0, <3>1
    <3>2. /\ next \in Seq(GoodFrames) /\ Len(next) = Len(w) + 1
          /\ \A f \in 1..Len(w) : next[f] = w[f]
          /\ next[Len(w) + 1].body = Unstamped(step.out[1].parts)
      <4>1. step.out # <<>>
            BY <3>1
      <4> HIDE DEF t, u
      <4>2. \A out : /\ out # <<>> /\ out[1].parts \in Seq(Parcels) /\ out[1].size \in Nat
                     /\ out[1].size <= BATCH_FLUSH_BYTES + MaxMessage /\ WrittenTo(w, out, next)
              => /\ next \in Seq(GoodFrames) /\ Len(next) = Len(w) + 1
                 /\ \A f \in 1..Len(w) : next[f] = w[f]
                 /\ next[Len(w) + 1].body = Unstamped(out[1].parts)
            BY WrittenFacts
      <4> QED BY <3>3, <4>1, <4>2, Zenon
    <3> QED BY <1>1, <3>1, <3>2, UnstampedAppend
  <2>2. /\ u \in Streams /\ Len(u) = Len(w) + 1
        /\ \A f \in 1..Len(w) : u[f] = w[f].body
        /\ u[Len(w) + 1] = Append(Unstamped(b.parts), Unaged(e))
    <3>1. u[Len(w) + 1] = Unstamped(Append(b.parts, e))
          BY <2>0, StreamOfFacts
    <3> QED BY <1>1, <2>0, <3>1, StreamOfFacts, UnstampedAppend
  <2>3. /\ t \in Streams /\ Len(t) = Len(next) + 1
        /\ \A f \in 1..Len(next) : t[f] = next[f].body
        /\ t[Len(next) + 1] = <<>>
    <3>1. <<>> \in Seq(Parcels)
          OBVIOUS
    <3> QED BY <1>7, <2>1, <3>1, StreamOfFacts, UnstampedSmall
  <2> HIDE DEF t, u
  <2>4. Extended(s, u, Unaged(e))
    <3> DEFINE m == Len(w) + 1
    <3>1. m \in Nat \ {0} /\ Len(s) = m /\ Len(u) = m /\ u[m] = Append(s[m], Unaged(e))
          BY <1>4, <2>2
    <3>2. \A f \in 1..m : f # m => u[f] = s[f]
          BY <1>4, <2>2
    <3> HIDE DEF m
    <3> QED BY <3>1, <3>2 DEF Extended
  <2>5. Cut(u, t)
    <3> DEFINE m == Len(w) + 1
    <3>1. m \in Nat \ {0} /\ Len(u) = m /\ Len(t) = m + 1 /\ t[m + 1] = <<>>
          BY <1>4, <2>1, <2>2, <2>3
    <3>2. \A f \in 1..m : t[f] = u[f]
      <4> SUFFICES ASSUME NEW f \in 1..m PROVE t[f] = u[f]
          OBVIOUS
      <4>1. CASE f = Len(w) + 1
            BY <1>4, <2>1, <2>2, <2>3, <4>1
      <4>2. CASE f # Len(w) + 1
        <5>1. f \in 1..Len(w) /\ f \in 1..Len(next)
              BY <1>4, <2>1, <4>2
        <5> QED BY <2>1, <2>2, <2>3, <5>1
      <4> QED BY <4>1, <4>2
    <3> HIDE DEF m
    <3> QED BY <3>1, <3>2 DEF Cut
  <2> QED BY <1>2, <1>3, <1>7, <2>1, <2>2, <2>4, <2>5 DEF Grown, s, t
<1> QED BY <1>5, <1>6, <1>7, PushGood

LEMMA ShapeOfFlush ==
    ASSUME NEW w \in Seq(GoodFrames), NEW now \in Nat, NEW b, GoodBatcher(b, now),
           NEW due, NEW step, step = FlushIf(b, due),
           NEW next, WrittenTo(w, step.out, next)
    PROVE  /\ next \in Seq(GoodFrames) /\ GoodBatcher(step.batcher, now)
           /\ LET s == StreamOf(w, b.parts)
                  t == StreamOf(next, step.batcher.parts)
              IN  s = t \/ Cut(s, t)
<1> DEFINE s == StreamOf(w, b.parts)
           t == StreamOf(next, step.batcher.parts)
<1>1. /\ b.parts \in Seq(Parcels) /\ b.bytes \in Nat /\ b.bytes <= BATCH_FLUSH_BYTES + MaxMessage
      BY FramingAssumption DEF GoodBatcher
<1>2. GoodBatcher(step.batcher, now)
      BY FlushGood
<1>3. CASE step.batcher = b /\ step.out = <<>>
      BY <1>2, <1>3 DEF WrittenTo
<1>4. CASE step.batcher.parts = <<>> /\ step.out = <<Batch(b.parts, b.bytes)>>
  <2>1. /\ next \in Seq(GoodFrames) /\ Len(next) = Len(w) + 1
        /\ \A f \in 1..Len(w) : next[f] = w[f]
        /\ next[Len(w) + 1].body = Unstamped(b.parts)
    <3>1. /\ step.out # <<>> /\ step.out[1].parts = b.parts /\ step.out[1].size = b.bytes
          BY <1>4 DEF Batch
    <3> QED BY <1>1, <3>1, WrittenFacts
  <2>2. /\ s \in Streams /\ Len(s) = Len(w) + 1 /\ Len(w) \in Nat
        /\ \A f \in 1..Len(w) : s[f] = w[f].body
        /\ s[Len(w) + 1] = Unstamped(b.parts)
        BY <1>1, StreamOfFacts
  <2>3. /\ t \in Streams /\ Len(t) = Len(next) + 1
        /\ \A f \in 1..Len(next) : t[f] = next[f].body
        /\ t[Len(next) + 1] = <<>>
    <3>1. <<>> \in Seq(Parcels)
          OBVIOUS
    <3> QED BY <1>4, <2>1, <3>1, StreamOfFacts, UnstampedSmall
  <2> HIDE DEF s, t
  <2>4. Cut(s, t)
    <3> DEFINE m == Len(w) + 1
    <3>1. m \in Nat \ {0} /\ Len(s) = m /\ Len(t) = m + 1 /\ t[m + 1] = <<>>
          BY <2>1, <2>2, <2>3
    <3>2. \A f \in 1..m : t[f] = s[f]
      <4> SUFFICES ASSUME NEW f \in 1..m PROVE t[f] = s[f]
          OBVIOUS
      <4>1. CASE f = Len(w) + 1
            BY <2>1, <2>2, <2>3, <4>1
      <4>2. CASE f # Len(w) + 1
        <5>1. f \in 1..Len(w) /\ f \in 1..Len(next)
              BY <2>1, <2>2, <4>2
        <5> QED BY <2>1, <2>2, <2>3, <5>1
      <4> QED BY <4>1, <4>2
    <3> HIDE DEF m
    <3> QED BY <3>1, <3>2 DEF Cut
  <2> QED BY <1>2, <2>1, <2>4 DEF s, t
<1> QED BY <1>3, <1>4, FlushGood

-----------------------------------------------------------------------------
(* Short ids.                                                              *)

Distinct(r) == \A i, j \in DOMAIN r : r[i] = r[j] => i = j

\* What an id means to the core.
Issued(r, name) == name[1] \in DOMAIN r /\ r[name[1]] = name[2]

LEMMA IdOfIssued ==
    ASSUME NEW r, NEW x \in Range(r)
    PROVE  IdOf(r, x) \in DOMAIN r /\ r[IdOf(r, x)] = x
<1>1. \E id \in DOMAIN r : r[id] = x
      BY DEF Range
<1> QED BY <1>1 DEF IdOf

\* Interning gives every symbol one id, and takes none back.
LEMMA InternedFacts ==
    ASSUME NEW S, NEW r \in Seq(S), Distinct(r), NEW new \in SUBSET S, IsFiniteSet(new),
           NEW q \in Interned(r, new)
    PROVE  /\ q \in Seq(S) /\ Distinct(q)
           /\ \A id \in DOMAIN r : id \in DOMAIN q /\ q[id] = r[id]
           /\ new \subseteq Range(q) /\ Range(r) \subseteq Range(q)
           /\ \A x \in Range(r) : IdOf(q, x) = IdOf(r, x)
<1> DEFINE fresh == new \ Range(r)
           n == Cardinality(fresh)
<1>1. n \in Nat
  <2>1. IsFiniteSet(fresh)
        BY FS_Subset
  <2> QED BY <2>1, FS_CardinalityType
<1>2. PICK ids \in Bijection(1..n, fresh) : q = r \o ids
      BY DEF Interned
<1> HIDE DEF n
<1>3. /\ ids \in [1..n -> fresh]
      /\ \A i, j \in 1..n : ids[i] = ids[j] => i = j
      /\ \A x \in fresh : \E i \in 1..n : ids[i] = x
      BY <1>2 DEF Bijection, Injection, Surjection, IsInjective
<1>4. ids \in Seq(S) /\ Len(ids) = n
      BY <1>1, <1>3
<1>5. /\ q \in Seq(S) /\ Len(r) \in Nat /\ DOMAIN r = 1..Len(r) /\ DOMAIN q = 1..(Len(r) + n)
      /\ \A i \in 1..Len(r) : q[i] = r[i]
      /\ \A i \in 1..n : q[Len(r) + i] = ids[i]
  <2>1. q \in Seq(S) /\ Len(q) = Len(r) + n /\ Len(r) \in Nat
    <3>1. q = r \o ids
          BY <1>2
    <3>2. Len(r) \in Nat
          OBVIOUS
    <3>3. q \in Seq(S)
          BY <1>4, <3>1
    <3>4. Len(q) = Len(r) + Len(ids)
          BY <1>4, <3>1, ConcatProperties
    <3> QED BY <1>4, <3>2, <3>3, <3>4
  <2>2. \A i \in 1..(Len(r) + n) : q[i] = IF i <= Len(r) THEN r[i] ELSE ids[i - Len(r)]
        BY <1>1, <1>2, <1>4
  <2> HIDE DEF fresh
  <2>3. \A i \in 1..Len(r) : q[i] = r[i]
        BY <1>1, <2>1, <2>2
  <2>4. ASSUME NEW i \in 1..n PROVE q[Len(r) + i] = ids[i]
    <3>1. Len(r) + i \in 1..(Len(r) + n) /\ ~(Len(r) + i <= Len(r)) /\ (Len(r) + i) - Len(r) = i
          BY <1>1, <2>1
    <3> QED BY <2>2, <3>1
  <2>5. DOMAIN r = 1..Len(r) /\ DOMAIN q = 1..(Len(r) + n)
        BY <2>1
  <2> QED BY <2>1, <2>3, <2>4, <2>5
<1>6. \A i \in DOMAIN q : \/ i \in DOMAIN r /\ q[i] = r[i] /\ q[i] \in Range(r)
                          \/ i - Len(r) \in 1..n /\ q[i] = ids[i - Len(r)] /\ q[i] \notin Range(r)
  <2> SUFFICES ASSUME NEW i \in DOMAIN q
               PROVE  \/ i \in DOMAIN r /\ q[i] = r[i] /\ q[i] \in Range(r)
                      \/ i - Len(r) \in 1..n /\ q[i] = ids[i - Len(r)] /\ q[i] \notin Range(r)
      OBVIOUS
  <2>1. CASE i \in 1..Len(r)
        BY <1>5, <2>1 DEF Range
  <2>2. CASE i \notin 1..Len(r)
    <3>1. i - Len(r) \in 1..n /\ i = Len(r) + (i - Len(r))
          BY <1>1, <1>5, <2>2
    <3>2. q[i] = ids[i - Len(r)]
          BY <1>5, <3>1
    <3> QED BY <1>3, <3>1, <3>2
  <2> QED BY <2>1, <2>2
<1>7. Distinct(q)
  <2> SUFFICES ASSUME NEW i \in DOMAIN q, NEW j \in DOMAIN q, q[i] = q[j] PROVE i = j
      BY DEF Distinct
  <2>1. CASE q[i] \in Range(r)
        BY <1>6, <2>1 DEF Distinct
  <2>2. CASE q[i] \notin Range(r)
    <3>1. i - Len(r) \in 1..n /\ j - Len(r) \in 1..n /\ ids[i - Len(r)] = ids[j - Len(r)]
          BY <1>6, <2>2
    <3>2. i - Len(r) = j - Len(r)
          BY <1>3, <3>1
    <3> QED BY <1>5, <3>2
  <2> QED BY <2>1, <2>2
<1>8. \A id \in DOMAIN r : id \in DOMAIN q /\ q[id] = r[id]
      BY <1>1, <1>5
<1>9. Range(r) \subseteq Range(q)
      BY <1>8 DEF Range
<1>10. new \subseteq Range(q)
  <2> SUFFICES ASSUME NEW x \in new PROVE x \in Range(q)
      OBVIOUS
  <2>1. CASE x \in Range(r)
        BY <1>9, <2>1
  <2>2. CASE x \notin Range(r)
    <3>1. PICK i \in 1..n : ids[i] = x
          BY <1>3, <2>2
    <3>2. Len(r) + i \in DOMAIN q /\ q[Len(r) + i] = x
          BY <1>1, <1>5, <3>1
    <3> QED BY <3>2 DEF Range
  <2> QED BY <2>1, <2>2
<1>11. ASSUME NEW x \in Range(r) PROVE IdOf(q, x) = IdOf(r, x)
  <2>1. IdOf(r, x) \in DOMAIN r /\ r[IdOf(r, x)] = x
        BY IdOfIssued
  <2>2. IdOf(q, x) \in DOMAIN q /\ q[IdOf(q, x)] = x
        BY <1>9, <1>11, IdOfIssued
  <2> QED BY <1>7, <1>8, <2>1, <2>2 DEF Distinct
<1> QED BY <1>5, <1>7, <1>8, <1>9, <1>10, <1>11

\* The symbols of what can be asked for.
LEMMA SymbolsFinite ==
    ASSUME NEW requested, IsFiniteSet(requested)
    PROVE  IsFiniteSet(SymbolsOf(requested))
<1> DEFINE f == [sub \in requested |-> sub.symbol]
<1>1. f \in Surjection(requested, SymbolsOf(requested))
      BY DEF Surjection, SymbolsOf
<1> QED BY <1>1, FS_Surjection

-----------------------------------------------------------------------------
(* Types, with what is true of the batcher and of the frames in any state. *)

Sessions ==
    [known : BOOLEAN, subs : [active : SUBSET Topics, pending : SUBSET Topics],
     told : {"nothing", "assigned", "written"}, ids : SUBSET (Nat \X Symbols),
     batcher : [parts : Seq(Parcels), bytes : Nat, openedAt : Nat], sent : [Channels -> Nat]]

CoreTyped ==
    /\ clock \in 0..MaxTime /\ ops \in 0..MaxOps
    /\ catalogue = [list |-> catalogue.list, rev |-> catalogue.rev]
    /\ Names(catalogue.list) \subseteq Symbols
    /\ core \in [epoch : 1..MaxEpoch, registry : Seq(Symbols)]
    /\ Distinct(core.registry)

LinkTyped ==
    /\ session \in Sessions
    /\ GoodBatcher(session.batcher, clock)
    /\ wire \in Seq(GoodFrames)
    /\ terminal \in [epoch : 1..MaxEpoch, dict : SUBSET (Nat \X Symbols), seen : [Channels -> Nat]]

\* What a session asked for has an id.
Assigned ==
    \A sub \in session.subs.active \cup session.subs.pending : sub.symbol \in Range(core.registry)

Typed == CoreTyped /\ LinkTyped /\ Assigned

\* Two sessions that differ in what was sent only.
Kin(a, b) == a.known = b.known /\ a.subs = b.subs /\ a.told = b.told /\ a.ids = b.ids

LEMMA NewSessionTyped ==
    ASSUME NEW known \in BOOLEAN
    PROVE  /\ NewSession(known) \in Sessions
           /\ NewSession(known).batcher = EmptyBatcher
<1>1. NoSubscriptions \in [active : SUBSET Topics, pending : SUBSET Topics]
      BY DEF NoSubscriptions
<1>2. EmptyBatcher \in [parts : Seq(Parcels), bytes : Nat, openedAt : Nat]
      BY DEF EmptyBatcher
<1>3. None0 \in [Channels -> Nat]
      BY DEF None0
<1> QED BY <1>1, <1>2, <1>3 DEF NewSession, Sessions

LEMMA TypedStream ==
    ASSUME LinkTyped
    PROVE  /\ Stream = StreamOf(wire, session.batcher.parts)
           /\ Stream \in Streams /\ Len(Stream) = Len(wire) + 1 /\ Len(wire) \in Nat
           /\ \A f \in 1..Len(wire) : Stream[f] = wire[f].body
           /\ Stream[Len(wire) + 1] = Unstamped(session.batcher.parts)
           /\ Unhurried(Stream)
<1>1. session.batcher.parts \in Seq(Parcels) /\ wire \in Seq(GoodFrames)
      BY DEF LinkTyped, GoodBatcher
<1>2. Stream = StreamOf(wire, session.batcher.parts)
      BY DEF Stream, StreamOf
<1>3. /\ Stream \in Streams /\ Len(Stream) = Len(wire) + 1 /\ Len(wire) \in Nat
      /\ \A f \in 1..Len(wire) : Stream[f] = wire[f].body
      /\ Stream[Len(wire) + 1] = Unstamped(session.batcher.parts)
      BY <1>1, <1>2, StreamOfFacts
<1>4. Unhurried(Stream)
  <2> SUFFICES ASSUME NEW i \in DOMAIN Unstamped(session.batcher.parts)
               PROVE  Class(Unstamped(session.batcher.parts)[i].channel) > 1
      BY <1>3 DEF Unhurried
  <2>1. i \in 1..Len(session.batcher.parts) /\ i \in DOMAIN session.batcher.parts
        BY <1>1, UnstampedFacts
  <2>2. session.batcher.parts[i] \in Parcels
        BY <1>1, <2>1
  <2>3. Unstamped(session.batcher.parts)[i] = Unaged(session.batcher.parts[i])
        BY <1>1, <2>1, UnstampedFacts
  <2>4. Class(session.batcher.parts[i].channel) > 1
        BY <2>1 DEF LinkTyped, GoodBatcher
  <2> QED BY <2>2, <2>3, <2>4, UnagedFacts
<1> QED BY <1>2, <1>3, <1>4

\* What has one more event, or one more cut.
LEMMA BatchedPush ==
    ASSUME CoreTyped, LinkTyped, NEW e \in Parcels, e.at = clock, e.size <= MaxMessage,
           NEW changed \in Sessions, NEW step, step = Push(session.batcher, e, clock),
           Batched(step, changed)
    PROVE  /\ session' \in Sessions /\ Kin(session', changed) /\ session'.sent = changed.sent
           /\ GoodBatcher(session'.batcher, clock)
           /\ wire' \in Seq(GoodFrames)
           /\ Grown(Stream, Stream', Unaged(e))
<1>1. clock \in Nat /\ GoodBatcher(session.batcher, clock) /\ wire \in Seq(GoodFrames)
      BY DEF CoreTyped, LinkTyped
<1>2. WrittenTo(wire, step.out, wire')
      BY DEF Batched, Written, WrittenTo
<1>3. session' = [changed EXCEPT !.batcher = step.batcher]
      BY DEF Batched
<1>4. /\ wire' \in Seq(GoodFrames) /\ GoodBatcher(step.batcher, clock)
      /\ Grown(StreamOf(wire, session.batcher.parts), StreamOf(wire', step.batcher.parts), Unaged(e))
      BY <1>1, <1>2, ShapeOfPush
<1>5. /\ session' \in Sessions /\ session'.batcher = step.batcher
      /\ Kin(session', changed) /\ session'.sent = changed.sent
      BY <1>3, <1>4 DEF Sessions, GoodBatcher, Kin
<1>6. Stream' = StreamOf(wire', session'.batcher.parts) /\ Stream = StreamOf(wire, session.batcher.parts)
      BY DEF Stream, StreamOf
<1> QED BY <1>3, <1>4, <1>5, <1>6

LEMMA BatchedFlush ==
    ASSUME CoreTyped, LinkTyped, NEW due, NEW step, step = FlushIf(session.batcher, due),
           NEW changed \in Sessions, Batched(step, changed)
    PROVE  /\ session' \in Sessions /\ Kin(session', changed) /\ session'.sent = changed.sent
           /\ GoodBatcher(session'.batcher, clock)
           /\ wire' \in Seq(GoodFrames)
           /\ Stream' = Stream \/ Cut(Stream, Stream')
<1>1. clock \in Nat /\ GoodBatcher(session.batcher, clock) /\ wire \in Seq(GoodFrames)
      BY DEF CoreTyped, LinkTyped
<1>2. WrittenTo(wire, step.out, wire')
      BY DEF Batched, Written, WrittenTo
<1>3. session' = [changed EXCEPT !.batcher = step.batcher]
      BY DEF Batched
<1>4. /\ wire' \in Seq(GoodFrames) /\ GoodBatcher(step.batcher, clock)
      /\ LET s == StreamOf(wire, session.batcher.parts)
             t == StreamOf(wire', step.batcher.parts)
         IN  s = t \/ Cut(s, t)
      BY <1>1, <1>2, ShapeOfFlush
<1>5. /\ session' \in Sessions /\ session'.batcher = step.batcher
      /\ Kin(session', changed) /\ session'.sent = changed.sent
      BY <1>3, <1>4 DEF Sessions, GoodBatcher, Kin
<1>6. Stream' = StreamOf(wire', session'.batcher.parts) /\ Stream = StreamOf(wire, session.batcher.parts)
      BY DEF Stream, StreamOf
<1> QED BY <1>3, <1>4, <1>5, <1>6

\* The three channels of the conversation.
LEMMA TheChannels == "BOOK" \in Channels /\ "COMMAND" \in Channels /\ "REFERENCE" \in Channels
BY DEF Channels

\* What a session has written when its next event of a channel is one of this kind.
Shaped(channel, kind, names, changed) ==
    /\ session' \in Sessions
    /\ Kin(session', changed)
    /\ session'.sent = [session.sent EXCEPT ![channel] = @ + 1]
    /\ GoodBatcher(session'.batcher, clock)
    /\ wire' \in Seq(GoodFrames)
    /\ \E e \in Parcels :
         /\ Grown(Stream, Stream', e)
         /\ e.channel = channel /\ e.kind = kind /\ e.ver = KNOWN_VER /\ e.names = names
         /\ e.n = session.sent[channel] + 1

\* The next event of a channel.
LEMMA SentShape ==
    ASSUME CoreTyped, LinkTyped, NEW channel \in Channels,
           NEW kind \in {"Subscribed", "BookDelta", "CommandAck"},
           NEW size \in 1..MaxMessage, NEW names \in SUBSET (Nat \X Symbols),
           NEW changed \in Sessions, changed.sent = session.sent,
           Sent(channel, kind, size, names, changed)
    PROVE  Shaped(channel, kind, names, changed)
<1> DEFINE n == session.sent[channel] + 1
           e == Envelope(channel, kind, KNOWN_VER, size, names, n)
           made == [changed EXCEPT !.sent[channel] = n]
           step == Push(session.batcher, e, clock)
<1>1. clock \in Nat /\ n \in Nat /\ session.sent \in [Channels -> Nat]
      BY DEF CoreTyped, LinkTyped, Sessions
<1>2. /\ e \in Parcels /\ e.at = clock /\ e.size <= MaxMessage
      /\ e.channel = channel /\ e.kind = kind /\ e.ver = KNOWN_VER /\ e.names = names /\ e.n = n
      BY <1>1, FramingAssumption DEF Envelope, Parcels
<1>3. /\ made \in Sessions
      /\ Kin(made, changed)
      /\ made.sent = [session.sent EXCEPT ![channel] = @ + 1]
      BY <1>1 DEF Sessions, Kin
<1>4. Batched(step, made)
      BY DEF Sent
<1> HIDE DEF e, made, n
<1>5. /\ session' \in Sessions /\ Kin(session', made) /\ session'.sent = made.sent
      /\ GoodBatcher(session'.batcher, clock)
      /\ wire' \in Seq(GoodFrames)
      /\ Grown(Stream, Stream', Unaged(e))
      BY <1>2, <1>3, <1>4, BatchedPush
<1>6. /\ Kin(session', changed)
      /\ session'.sent = [session.sent EXCEPT ![channel] = @ + 1]
      BY <1>3, <1>5 DEF Kin
<1>7. /\ Unaged(e) \in Parcels
      /\ Unaged(e).channel = channel /\ Unaged(e).kind = kind /\ Unaged(e).ver = KNOWN_VER
      /\ Unaged(e).names = names /\ Unaged(e).n = session.sent[channel] + 1
      BY <1>2, UnagedFacts DEF n
<1> QED BY <1>5, <1>6, <1>7 DEF Shaped

\* An event only a newer core knows.
LEMMA ForeignShape ==
    ASSUME CoreTyped, LinkTyped, Foreign
    PROVE  /\ session' \in Sessions
           /\ Kin(session', session) /\ session'.sent = session.sent
           /\ GoodBatcher(session'.batcher, clock)
           /\ wire' \in Seq(GoodFrames)
           /\ \E e \in Parcels :
                /\ Grown(Stream, Stream', e)
                /\ ~Known(e) /\ e.names = {}
<1>1. PICK event \in Newer :
          Batched(Push(session.batcher,
                       Envelope(event.channel, event.kind, event.ver, 1, {}, 0), clock), session)
      BY DEF Foreign
<1> DEFINE e == Envelope(event.channel, event.kind, event.ver, 1, {}, 0)
           step == Push(session.batcher, e, clock)
<1>2. /\ e \in Parcels /\ e.at = clock /\ e.size <= MaxMessage /\ e.names = {}
      /\ e.channel = event.channel /\ e.kind = event.kind /\ e.ver = event.ver
      BY FramingAssumption DEF Envelope, Parcels, CoreTyped
<1>3. Batched(step, session) /\ session \in Sessions
      BY <1>1 DEF LinkTyped
<1> HIDE DEF e
<1>4. /\ session' \in Sessions /\ Kin(session', session) /\ session'.sent = session.sent
      /\ GoodBatcher(session'.batcher, clock)
      /\ wire' \in Seq(GoodFrames)
      /\ Grown(Stream, Stream', Unaged(e))
      BY <1>2, <1>3, BatchedPush
<1>5. /\ Unaged(e) \in Parcels /\ Unaged(e).names = {}
      /\ Unaged(e).channel = event.channel /\ Unaged(e).kind = event.kind
      /\ Unaged(e).ver = event.ver
      BY <1>2, UnagedFacts
<1>6. Accepted(event) # "known"
      BY DeliveryAssumption
<1>7. ~Known(Unaged(e))
      BY <1>5, <1>6 DEF Known, Accepted
<1> QED BY <1>4, <1>5, <1>7

-----------------------------------------------------------------------------
(* Every step keeps the types.                                             *)

LEMMA TradableSymbols ==
    ASSUME CoreTyped, NEW requested \in Requests \cup {{}}
    PROVE  /\ SymbolsOf(Tradable(requested)) \in SUBSET Symbols
           /\ IsFiniteSet(SymbolsOf(Tradable(requested)))
           /\ Tradable(requested) \subseteq requested
<1>1. Tradable(requested) \subseteq requested
      BY DEF Tradable
<1>2. SymbolsOf(Tradable(requested)) \subseteq Symbols
      BY DEF Tradable, SymbolsOf, IsTradable, CoreTyped, Names
<1>3. IsFiniteSet(requested)
      BY DeliveryAssumption, FS_EmptySet
<1>4. IsFiniteSet(Tradable(requested))
      BY <1>1, <1>3, FS_Subset
<1> QED BY <1>1, <1>2, <1>4, SymbolsFinite

\* What subscribing leaves.
SubscribedAs(requested, replace) ==
    /\ core'.epoch = core.epoch /\ core'.registry \in Seq(Symbols) /\ Distinct(core'.registry)
    /\ core' \in [epoch : 1..MaxEpoch, registry : Seq(Symbols)]
    /\ \A id \in DOMAIN core.registry :
         id \in DOMAIN core'.registry /\ core'.registry[id] = core.registry[id]
    /\ Range(core.registry) \subseteq Range(core'.registry)
    /\ \A x \in Range(core.registry) : IdOf(core'.registry, x) = IdOf(core.registry, x)
    /\ SymbolsOf(Tradable(requested)) \subseteq Range(core'.registry)
    /\ SymbolsOf(Tradable(requested)) \subseteq Symbols
    /\ Tradable(requested) \subseteq requested
    /\ session' \in Sessions
    /\ session'.subs = Subscribed(session.subs, requested, Tradable(requested), replace)
    /\ session'.ids = {<<IdOf(core'.registry, s), s>> : s \in SymbolsOf(Tradable(requested))}
    /\ session'.told = "assigned" /\ session.told = "nothing"
    /\ session'.batcher = session.batcher /\ session'.sent = session.sent

LEMMA SubscribeFacts ==
    ASSUME CoreTyped, LinkTyped, Subscribe
    PROVE  \E requested \in Requests, replace \in BOOLEAN : SubscribedAs(requested, replace)
<1>1. PICK requested \in Requests, replace \in BOOLEAN :
          /\ session.told = "nothing"
          /\ \E registry \in Interned(core.registry, SymbolsOf(Tradable(requested))) :
                 /\ core' = [core EXCEPT !.registry = registry]
                 /\ session' = [session EXCEPT
                      !.subs = Subscribed(@, requested, Tradable(requested), replace),
                      !.told = "assigned",
                      !.ids  = {<<IdOf(registry, s), s>> : s \in SymbolsOf(Tradable(requested))}]
      BY DEF Subscribe
<1> DEFINE tradable == Tradable(requested)
           symbols == SymbolsOf(Tradable(requested))
<1>2. symbols \in SUBSET Symbols /\ IsFiniteSet(symbols) /\ tradable \subseteq requested
      BY TradableSymbols
<1>3. PICK registry \in Interned(core.registry, symbols) :
          /\ core' = [core EXCEPT !.registry = registry]
          /\ session' = [session EXCEPT
               !.subs = Subscribed(@, requested, tradable, replace),
               !.told = "assigned",
               !.ids  = {<<IdOf(registry, s), s>> : s \in symbols}]
      BY <1>1
<1> HIDE DEF tradable, symbols
<1>4. core.registry \in Seq(Symbols) /\ Distinct(core.registry)
      BY DEF CoreTyped
<1>5. /\ registry \in Seq(Symbols) /\ Distinct(registry)
      /\ \A id \in DOMAIN core.registry : id \in DOMAIN registry /\ registry[id] = core.registry[id]
      /\ symbols \subseteq Range(registry) /\ Range(core.registry) \subseteq Range(registry)
      /\ \A x \in Range(core.registry) : IdOf(registry, x) = IdOf(core.registry, x)
      BY <1>2, <1>3, <1>4, InternedFacts
<1>6. core' = [epoch |-> core.epoch, registry |-> registry]
      BY <1>3 DEF CoreTyped
<1>7. requested \subseteq Topics
      BY DEF Topics
<1>8. session.subs \in [active : SUBSET Topics, pending : SUBSET Topics]
      BY DEF LinkTyped, Sessions
<1>9. Subscribed(session.subs, requested, tradable, replace) \in [active : SUBSET Topics, pending : SUBSET Topics]
      BY <1>2, <1>7, <1>8 DEF Subscribed
<1>10. {<<IdOf(registry, s), s>> : s \in symbols} \subseteq Nat \X Symbols
  <2>1. ASSUME NEW s \in symbols PROVE IdOf(registry, s) \in Nat
    <3>1. IdOf(registry, s) \in DOMAIN registry
          BY <1>5, <2>1, IdOfIssued
    <3>2. DOMAIN registry = 1..Len(registry) /\ Len(registry) \in Nat
          BY <1>5
    <3> QED BY <3>1, <3>2
  <2> QED BY <1>2, <2>1
<1>11. /\ session'.subs = Subscribed(session.subs, requested, tradable, replace)
       /\ session'.told = "assigned" /\ session'.ids = {<<IdOf(registry, s), s>> : s \in symbols}
       /\ session'.batcher = session.batcher /\ session'.sent = session.sent
       /\ session' \in Sessions
       BY <1>3, <1>9, <1>10 DEF LinkTyped, Sessions
<1>12. core'.registry = registry /\ core'.epoch = core.epoch
       BY <1>6
<1>13. core' \in [epoch : 1..MaxEpoch, registry : Seq(Symbols)]
       BY <1>5, <1>6 DEF CoreTyped
<1>14. SubscribedAs(requested, replace)
       BY <1>1, <1>2, <1>5, <1>11, <1>12, <1>13 DEF tradable, symbols, SubscribedAs
<1> QED BY <1>14

LEMMA PartsOfBody ==
    ASSUME NEW body \in Seq(Parcels)
    PROVE  \A i \in DOMAIN body : body[i].n \in Nat /\ body[i].names \subseteq Nat \X Symbols
<1>1. \A i \in DOMAIN body : body[i] \in Parcels
      OBVIOUS
<1> QED BY <1>1 DEF Parcels

\* What a step of the terminal that takes this body has made of it.
TakenIn(body) ==
    /\ wire' \in Seq(GoodFrames) /\ Len(wire') = Len(wire) - 1 /\ wire # <<>>
    /\ \A f \in 1..Len(wire') : wire'[f] = wire[f + 1]
    /\ body = Head(wire).body /\ body \in Seq(Parcels)
    /\ terminal' \in [epoch : 1..MaxEpoch, dict : SUBSET (Nat \X Symbols), seen : [Channels -> Nat]]
    /\ terminal'.epoch = terminal.epoch
    /\ terminal'.dict = terminal.dict \cup Learned(body, Len(body))
    /\ \A c \in Channels : terminal'.seen[c] = SeenIn(body, c, terminal.seen[c])
    /\ \A reading \in understood' :
         \/ reading \in understood
         \/ \E i \in DOMAIN body : \E name \in body[i].names :
              /\ Reads(body[i])
              /\ reading = [as |-> Meaning(terminal.dict \cup Learned(body, i), name[1]),
                            meant |-> name[2]]

\* The terminal takes a frame, and none is refused.
LEMMA ReceiveFacts ==
    ASSUME LinkTyped, Receive
    PROVE  TakenIn(Stream[1])
<1> DEFINE body == Stream[1]
<1> DEFINE frame == Head(wire)
           dict(i) == terminal.dict \cup Learned(frame.body, i)
           read == {i \in DOMAIN frame.body : /\ Known(frame.body[i])
                                              /\ frame.body[i].kind # "Subscribed"}
<1>1. wire # <<>> /\ wire \in Seq(GoodFrames) /\ wire' = Tail(wire)
      BY DEF Receive, LinkTyped
<1>2. /\ wire' \in Seq(GoodFrames) /\ Len(wire') = Len(wire) - 1
      /\ \A f \in 1..Len(wire') : wire'[f] = wire[f + 1]
      /\ frame = wire[1] /\ frame \in GoodFrames /\ 1 \in 1..Len(wire)
      BY <1>1
<1>3. body = frame.body
      BY <1>2, TypedStream
<1> HIDE DEF body
<1>4. ~Refused(frame) /\ body \in Seq(Parcels)
      BY <1>2, <1>3 DEF GoodFrames, Frames
<1>0. \A i \in DOMAIN body : body[i].n \in Nat /\ body[i].names \subseteq Nat \X Symbols
      BY <1>4, PartsOfBody
<1>5. /\ terminal' = [terminal EXCEPT
              !.dict = dict(Len(frame.body)),
              !.seen = [c \in Channels |-> LastSeen(frame.body, c)]]
      /\ understood' = understood \cup
             UNION {{[as |-> Meaning(dict(i), name[1]), meant |-> name[2]] :
                       name \in frame.body[i].names} : i \in read}
      BY <1>4 DEF Receive
<1>6. \A c : LastSeen(body, c) = SeenIn(body, c, terminal.seen[c])
      BY DEF LastSeen, SeenIn, Of
<1>7. ASSUME NEW c \in Channels PROVE SeenIn(body, c, terminal.seen[c]) \in Nat
  <2> DEFINE known == {i \in DOMAIN body : Of(body[i], c)}
  <2>0. terminal.seen[c] \in Nat
        BY DEF LinkTyped
  <2>1. CASE known = {}
        BY <2>0, <2>1 DEF SeenIn
  <2>2. CASE known # {}
    <3>1. DOMAIN body = 1..Len(body) /\ Len(body) \in Nat
          BY <1>4
    <3>2. Max(known) \in known
          BY <2>2, <3>1, LastOf
    <3>3. Max(known) \in DOMAIN body
          BY <3>2
    <3>4. SeenIn(body, c, terminal.seen[c]) = body[Max(known)].n
          BY <2>2 DEF SeenIn
    <3> HIDE DEF known
    <3> QED BY <1>0, <3>3, <3>4
  <2> QED BY <2>1, <2>2
<1>8. Learned(body, Len(body)) \subseteq Nat \X Symbols
  <2>1. \A k \in 1..Len(body) : body[k].names \subseteq Nat \X Symbols
        BY <1>0, <1>4
  <2> QED BY <2>1 DEF Learned
<1>9. terminal \in [epoch : 1..MaxEpoch, dict : SUBSET (Nat \X Symbols), seen : [Channels -> Nat]]
      BY DEF LinkTyped
<1>10. /\ terminal' \in [epoch : 1..MaxEpoch, dict : SUBSET (Nat \X Symbols), seen : [Channels -> Nat]]
       /\ terminal'.epoch = terminal.epoch
       /\ terminal'.dict = terminal.dict \cup Learned(body, Len(body))
       /\ \A c \in Channels : terminal'.seen[c] = SeenIn(body, c, terminal.seen[c])
  <2>1. terminal' = [epoch |-> terminal.epoch, dict |-> terminal.dict \cup Learned(body, Len(body)),
                     seen |-> [c \in Channels |-> SeenIn(body, c, terminal.seen[c])]]
        BY <1>3, <1>5, <1>6, <1>9
  <2> QED BY <1>7, <1>8, <1>9, <2>1
<1>11. \A reading \in understood' :
                \/ reading \in understood
                \/ \E i \in DOMAIN body : \E name \in body[i].names :
                     /\ Reads(body[i])
                     /\ reading = [as |-> Meaning(terminal.dict \cup Learned(body, i), name[1]),
                                   meant |-> name[2]]
       BY <1>3, <1>5 DEF Reads
<1> QED BY <1>1, <1>2, <1>3, <1>4, <1>10, <1>11 DEF body, TakenIn

\* Who wants an event of an instrument knows an id of it.
LEMMA WantedNamed ==
    ASSUME CoreTyped, Assigned, NEW symbol \in Symbols, Wants(session.subs, symbol)
    PROVE  /\ symbol \in Range(core.registry)
           /\ {<<IdOf(core.registry, symbol), symbol>>} \in SUBSET (Nat \X Symbols)
<1>1. symbol \in Range(core.registry)
      BY DEF Assigned, Wants, SymbolsOf
<1>2. IdOf(core.registry, symbol) \in DOMAIN core.registry
      BY <1>1, IdOfIssued
<1>3. DOMAIN core.registry \subseteq Nat
  <2>1. core.registry \in Seq(Symbols)
        BY DEF CoreTyped
  <2> QED BY <2>1
<1> QED BY <1>1, <1>2, <1>3

LEMMA TypedInit == Init => Typed
<1> SUFFICES ASSUME Init PROVE Typed
    OBVIOUS
<1>1. PICK infos \in Lists : catalogue = [list |-> Listed(Instruments(infos)), rev |-> 1]
      BY DEF Init
<1>2. Names(catalogue.list) \subseteq Symbols
      BY <1>1 DEF Symbols
<1>3. core = [epoch |-> 1, registry |-> <<>>] /\ 1 \in 1..MaxEpoch
      BY DeliveryAssumption DEF Init
<1>4. CoreTyped
  <2>1. core \in [epoch : 1..MaxEpoch, registry : Seq(Symbols)] /\ Distinct(core.registry)
        BY <1>3 DEF Distinct
  <2> QED BY <1>1, <1>2, <2>1, DeliveryAssumption DEF Init, CoreTyped
<1>5. session \in Sessions /\ session.batcher = EmptyBatcher
      BY NewSessionTyped DEF Init
<1>6. GoodBatcher(session.batcher, clock)
      BY <1>5, EmptyGood DEF Init
<1>7. wire \in Seq(GoodFrames)
      BY DEF Init
<1>8. terminal \in [epoch : 1..MaxEpoch, dict : SUBSET (Nat \X Symbols), seen : [Channels -> Nat]]
      BY <1>3 DEF Init, None0
<1>9. Assigned
      BY DEF Init, NewSession, NoSubscriptions, Assigned
<1> QED BY <1>4, <1>5, <1>6, <1>7, <1>8, <1>9 DEF Typed, LinkTyped

LEMMA TypedNext == Typed /\ [Next]_vars => Typed'
<1> SUFFICES ASSUME Typed, [Next]_vars PROVE Typed'
    OBVIOUS
<1>0. /\ CoreTyped /\ LinkTyped
      /\ clock \in Nat /\ session \in Sessions /\ terminal.dict \subseteq Nat \X Symbols
      /\ core.registry \in Seq(Symbols) /\ 1 \in 1..MaxMessage
  <2>1. CoreTyped /\ LinkTyped
        BY DEF Typed
  <2>2. MaxMessage \in Nat \ {0}
        BY FramingAssumption
  <2>3. clock \in Nat /\ core.registry \in Seq(Symbols)
        BY <2>1 DEF CoreTyped
  <2>4. session \in Sessions /\ terminal.dict \subseteq Nat \X Symbols
        BY <2>1 DEF LinkTyped
  <2> QED BY <2>1, <2>2, <2>3, <2>4
<1>a. Operation => ops' \in 0..MaxOps
      BY DeliveryAssumption DEF Operation, Typed, CoreTyped
<1>b. ASSUME UNCHANGED <<clock, catalogue, core>>, ops' \in 0..MaxOps PROVE CoreTyped'
      BY <1>0, <1>b DEF CoreTyped
<1>c. ASSUME UNCHANGED <<clock, terminal>>, session' \in Sessions,
             GoodBatcher(session'.batcher, clock), wire' \in Seq(GoodFrames)
      PROVE  LinkTyped'
      BY <1>0, <1>c DEF LinkTyped
<1>d. ops \in 0..MaxOps
      BY <1>0 DEF CoreTyped
<1>e. GoodBatcher(session.batcher, clock) /\ wire \in Seq(GoodFrames)
      BY <1>0 DEF LinkTyped
<1>f. ASSUME Kin(session', session), core' = core PROVE Assigned'
      BY <1>f DEF Kin, Assigned, Typed
<1>1. ASSUME Subscribe PROVE Typed'
  <2>1. PICK requested \in Requests, replace \in BOOLEAN : SubscribedAs(requested, replace)
        BY <1>0, <1>1, SubscribeFacts
  <2>2. Operation /\ UNCHANGED <<clock, catalogue, wire, terminal, understood, paging>>
        BY <1>1 DEF Subscribe
  <2>3. CoreTyped'
        BY <1>0, <1>a, <2>1, <2>2 DEF CoreTyped, SubscribedAs
  <2>4. LinkTyped'
        BY <1>c, <1>e, <2>1, <2>2 DEF SubscribedAs
  <2>5. Assigned'
    <3>1. ASSUME NEW sub \in session'.subs.active \cup session'.subs.pending
          PROVE  \/ sub \in session.subs.active \cup session.subs.pending
                 \/ sub \in Tradable(requested)
          BY <2>1 DEF SubscribedAs, Subscribed
    <3>2. \A sub \in Tradable(requested) : sub.symbol \in SymbolsOf(Tradable(requested))
          BY DEF SymbolsOf
    <3> QED BY <2>1, <3>1, <3>2 DEF SubscribedAs, Assigned, Typed
  <2> QED BY <2>3, <2>4, <2>5 DEF Typed
<1>2. ASSUME Announce PROVE Typed'
  <2> DEFINE changed == [session EXCEPT !.told = "written", !.ids = {}]
  <2>1. changed \in Sessions /\ changed.sent = session.sent
        BY <1>0 DEF Sessions
  <2>2. Sent("REFERENCE", "Subscribed", 1, session.ids, changed)
        BY <1>2 DEF Announce
  <2>3. session.ids \in SUBSET (Nat \X Symbols)
        BY <1>0 DEF Sessions
  <2> HIDE DEF changed
  <2>w. Shaped("REFERENCE", "Subscribed", session.ids, changed)
        BY <1>0, <2>1, <2>2, <2>3, SentShape, TheChannels
  <2>4. /\ session' \in Sessions /\ GoodBatcher(session'.batcher, clock) /\ wire' \in Seq(GoodFrames)
        /\ Kin(session', changed)
        BY <2>w DEF Shaped
  <2>5. Assigned'
    <3>1. session'.subs = session.subs
          BY <1>0, <2>4 DEF Kin, changed, Sessions
    <3> QED BY <1>2, <3>1 DEF Announce, Assigned, Typed
  <2> QED BY <1>2, <1>b, <1>c, <1>d, <2>4, <2>5 DEF Announce, Typed
<1>3. ASSUME Activate PROVE Typed'
  <2>1. session' \in Sessions /\ session'.batcher = session.batcher
        BY <1>0, <1>3 DEF Activate, Sessions, Activated
  <2>2. Assigned'
        BY <1>0, <1>3 DEF Activate, Sessions, Activated, Assigned, Typed
  <2> QED BY <1>3, <1>b, <1>c, <1>d, <1>e, <2>1, <2>2 DEF Activate, Typed
<1>4. ASSUME Unsubscribe PROVE Typed'
  <2> PICK topic \in session.subs.active \cup session.subs.pending :
        session' = [session EXCEPT !.subs = Unsubscribed(@, {topic})]
      BY <1>4 DEF Unsubscribe
  <2> DEFINE left == Unsubscribed(session.subs, {topic})
  <2>0. /\ left.active \subseteq session.subs.active /\ left.pending \subseteq session.subs.pending
        /\ left = [active |-> left.active, pending |-> left.pending]
        BY DEF Unsubscribed
  <2>a. session' = [session EXCEPT !.subs = left]
        OBVIOUS
  <2> HIDE DEF left
  <2>b. left \in [active : SUBSET Topics, pending : SUBSET Topics]
    <3>1. left.active \in SUBSET Topics /\ left.pending \in SUBSET Topics
          BY <1>0, <2>0 DEF Sessions
    <3> QED BY <3>1, <2>0
  <2>1. session' \in Sessions /\ session'.batcher = session.batcher
        BY <1>0, <2>a, <2>b DEF Sessions
  <2>2. Assigned'
    <3>1. session'.subs = left
          BY <1>0, <2>a DEF Sessions
    <3> QED BY <1>4, <2>0, <3>1 DEF Unsubscribe, Assigned, Typed
  <2> QED BY <1>4, <1>a, <1>b, <1>c, <1>e, <2>1, <2>2 DEF Unsubscribe, Typed
<1>5. ASSUME Publish PROVE Typed'
  <2>1. PICK symbol \in Symbols, size \in Sizes :
          /\ Wants(session.subs, symbol)
          /\ Sent("BOOK", "BookDelta", size, {<<IdOf(core.registry, symbol), symbol>>}, session)
        BY <1>5 DEF Publish
  <2>2. {<<IdOf(core.registry, symbol), symbol>>} \in SUBSET (Nat \X Symbols) /\ size \in 1..MaxMessage
        BY <1>0, <2>1, WantedNamed, DeliveryAssumption DEF Typed
  <2>w. Shaped("BOOK", "BookDelta", {<<IdOf(core.registry, symbol), symbol>>}, session)
        BY <1>0, <2>1, <2>2, SentShape, TheChannels
  <2>3. /\ session' \in Sessions /\ GoodBatcher(session'.batcher, clock) /\ wire' \in Seq(GoodFrames)
        /\ Kin(session', session)
        BY <2>w DEF Shaped
  <2> QED BY <1>5, <1>a, <1>b, <1>c, <1>f, <2>3 DEF Publish, Typed
<1>6. ASSUME Acknowledge PROVE Typed'
  <2>1. Sent("COMMAND", "CommandAck", 1, {}, session)
        BY <1>6 DEF Acknowledge
  <2>w. Shaped("COMMAND", "CommandAck", {}, session)
        BY <1>0, <2>1, SentShape, TheChannels
  <2>2. /\ session' \in Sessions /\ GoodBatcher(session'.batcher, clock) /\ wire' \in Seq(GoodFrames)
        /\ Kin(session', session)
        BY <2>w DEF Shaped
  <2> QED BY <1>6, <1>a, <1>b, <1>c, <1>f, <2>2 DEF Acknowledge, Typed
<1>7. ASSUME Foreign PROVE Typed'
  <2>1. /\ session' \in Sessions /\ GoodBatcher(session'.batcher, clock) /\ wire' \in Seq(GoodFrames)
        /\ Kin(session', session)
        BY <1>0, <1>7, ForeignShape
  <2> QED BY <1>7, <1>a, <1>b, <1>c, <1>f, <2>1 DEF Foreign, Typed
<1>8. ASSUME Expire PROVE Typed'
  <2>1. Batched(FlushIf(session.batcher, clock >= Deadline(session.batcher)), session)
        BY <1>8 DEF Expire, FlushDue
  <2>2. /\ session' \in Sessions /\ GoodBatcher(session'.batcher, clock) /\ wire' \in Seq(GoodFrames)
        /\ Kin(session', session)
        BY <1>0, <2>1, BatchedFlush
  <2> QED BY <1>8, <1>b, <1>c, <1>d, <1>f, <2>2 DEF Expire, Typed
<1>9. ASSUME Tick PROVE Typed'
  <2>1. /\ clock < MaxTime /\ clock < Deadline(session.batcher) /\ clock' = clock + 1
        /\ UNCHANGED <<ops, catalogue, core, session, wire, terminal, understood, paging>>
        BY <1>9 DEF Tick
  <2>2. clock' \in 0..MaxTime
        BY <1>0, <2>1, DeliveryAssumption DEF CoreTyped
  <2>3. GoodBatcher(session.batcher, clock + 1)
    <3>1. Deadline(session.batcher) \in Nat /\ clock + 1 <= Deadline(session.batcher)
      <4>1. session.batcher.openedAt \in Nat /\ clock \in Nat /\ BATCH_FLUSH_MS \in Nat
            BY <1>0, FramingAssumption DEF Sessions, CoreTyped
      <4> DEFINE due == Deadline(session.batcher)
      <4>2. due \in Nat
            BY <4>1 DEF Deadline
      <4> HIDE DEF due
      <4> QED BY <2>1, <4>1, <4>2 DEF due
    <3>2. \A i \in DOMAIN session.batcher.parts :
              session.batcher.parts[i].at \in Nat
      <4>1. session.batcher.parts \in Seq(Parcels)
            BY <1>0 DEF Sessions
      <4>2. \A i \in DOMAIN session.batcher.parts : session.batcher.parts[i] \in Parcels
            BY <4>1
      <4> QED BY <4>2 DEF Parcels
    <3> QED BY <1>0, <1>e, <3>1, <3>2 DEF GoodBatcher
  <2> QED BY <1>0, <2>1, <2>2, <2>3 DEF Typed, CoreTyped, LinkTyped, Assigned
<1>10. ASSUME Receive PROVE Typed'
  <2>1. /\ wire' \in Seq(GoodFrames)
        /\ terminal' \in [epoch : 1..MaxEpoch, dict : SUBSET (Nat \X Symbols), seen : [Channels -> Nat]]
        BY <1>0, <1>10, ReceiveFacts DEF TakenIn
  <2>2. UNCHANGED <<clock, ops, catalogue, core, session, paging>>
        BY <1>10 DEF Receive
  <2> QED BY <1>0, <2>1, <2>2 DEF Typed, CoreTyped, LinkTyped, Assigned
<1>11. ASSUME Name PROVE Typed'
  <2>1. UNCHANGED <<clock, ops, catalogue, core, session, wire, terminal, paging>>
        BY <1>11 DEF Name
  <2> QED BY <1>0, <2>1 DEF Typed, CoreTyped, LinkTyped, Assigned
<1>12. ASSUME Reconnect PROVE Typed'
  <2>1. PICK known \in BOOLEAN :
          /\ session' = NewSession(known) /\ wire' = <<>>
          /\ terminal' = [epoch |-> core.epoch, seen |-> None0,
                          dict |-> IF core.epoch = terminal.epoch THEN terminal.dict ELSE {}]
        BY <1>12 DEF Reconnect
  <2>2. Operation /\ UNCHANGED <<clock, catalogue, core, understood>>
        BY <1>12 DEF Reconnect
  <2>3. session' \in Sessions /\ GoodBatcher(session'.batcher, clock)
        BY <1>0, <2>1, NewSessionTyped, EmptyGood
  <2>4. terminal' \in [epoch : 1..MaxEpoch, dict : SUBSET (Nat \X Symbols), seen : [Channels -> Nat]]
        BY <1>0, <2>1 DEF CoreTyped, None0
  <2>5. Assigned'
        BY <2>1 DEF Assigned, NewSession, NoSubscriptions
  <2>6. wire' \in Seq(GoodFrames)
        BY <2>1
  <2>7. LinkTyped'
        BY <2>2, <2>3, <2>4, <2>6 DEF LinkTyped
  <2> QED BY <1>a, <1>b, <2>2, <2>5, <2>7 DEF Typed
<1>13. ASSUME Close PROVE Typed'
  <2> DEFINE changed == [session EXCEPT !.subs = NoSubscriptions]
  <2>1. Batched(FlushIf(session.batcher, TRUE), changed)
        BY <1>13 DEF Close, Flush
  <2>2. changed \in Sessions /\ changed.subs = NoSubscriptions
        BY <1>0 DEF Sessions, NoSubscriptions
  <2> HIDE DEF changed
  <2>3. /\ session' \in Sessions /\ GoodBatcher(session'.batcher, clock) /\ wire' \in Seq(GoodFrames)
        /\ Kin(session', changed)
        BY <1>0, <2>1, <2>2, BatchedFlush
  <2>4. Assigned'
        BY <2>2, <2>3 DEF Kin, Assigned, NoSubscriptions
  <2> QED BY <1>13, <1>a, <1>b, <1>c, <2>3, <2>4 DEF Close, Typed
<1>14. ASSUME Restart PROVE Typed'
  <2>1. PICK others \in Requests \cup {{}} :
            \E registry \in Interned(<<>>, SymbolsOf(Tradable(others))) :
                core' = [epoch |-> core.epoch + 1, registry |-> registry]
        BY <1>14 DEF Restart
  <2>2. PICK registry \in Interned(<<>>, SymbolsOf(Tradable(others))) :
            core' = [epoch |-> core.epoch + 1, registry |-> registry]
        BY <2>1
  <2>3. registry \in Seq(Symbols) /\ Distinct(registry)
    <3>1. <<>> \in Seq(Symbols) /\ Distinct(<<>>)
          BY DEF Distinct
    <3>2. SymbolsOf(Tradable(others)) \in SUBSET Symbols /\ IsFiniteSet(SymbolsOf(Tradable(others)))
          BY <1>0, TradableSymbols
    <3> DEFINE none == <<>>
    <3>3. none \in Seq(Symbols) /\ Distinct(none) /\ registry \in Interned(none, SymbolsOf(Tradable(others)))
          BY <3>1
    <3> HIDE DEF none
    <3> QED BY <3>2, <3>3, InternedFacts
  <2>4. /\ Operation /\ core.epoch < MaxEpoch /\ catalogue' = [catalogue EXCEPT !.rev = 1]
        /\ session' = NewSession(FALSE) /\ UNCHANGED <<clock, wire, terminal>>
        BY <1>14 DEF Restart
  <2>5. session' \in Sessions /\ GoodBatcher(session'.batcher, clock)
        BY <1>0, <2>4, NewSessionTyped, EmptyGood
  <2>6. CoreTyped'
    <3>1. core'.epoch \in 1..MaxEpoch
          BY <1>0, <2>2, <2>4, DeliveryAssumption DEF CoreTyped
    <3>2. catalogue' = [list |-> catalogue.list, rev |-> 1]
          BY <1>0, <2>4 DEF CoreTyped
    <3> QED BY <1>0, <1>a, <2>2, <2>3, <2>4, <3>1, <3>2 DEF CoreTyped
  <2>7. Assigned'
        BY <2>4 DEF Assigned, NewSession, NoSubscriptions
  <2> QED BY <1>c, <1>e, <2>4, <2>5, <2>6, <2>7 DEF Typed
<1>15. ASSUME Refresh PROVE Typed'
  <2>1. PICK infos \in Lists : catalogue' = Replace(catalogue, Instruments(infos))
        BY <1>15 DEF Refresh
  <2>2. Operation /\ UNCHANGED <<clock, core, session, wire, terminal, understood>>
        BY <1>15 DEF Refresh
  <2>3. catalogue' = [list |-> Listed(Instruments(infos)), rev |-> catalogue'.rev]
        BY <2>1 DEF Replace
  <2>4. Names(catalogue'.list) \subseteq Symbols /\ catalogue'.list = Listed(Instruments(infos))
        BY <2>3 DEF Symbols
  <2>5. CoreTyped'
        BY <1>0, <1>a, <2>2, <2>3, <2>4 DEF CoreTyped
  <2> QED BY <1>0, <2>2, <2>5 DEF Typed, LinkTyped, Assigned
<1>16. ASSUME AskPage PROVE Typed'
  <2>1. Operation /\ UNCHANGED <<clock, catalogue, core, session, wire, terminal, understood>>
        BY <1>16 DEF AskPage
  <2> QED BY <1>0, <1>a, <1>b, <2>1 DEF Typed, LinkTyped, Assigned
<1>17. ASSUME UNCHANGED vars PROVE Typed'
       BY <1>0, <1>17 DEF Typed, CoreTyped, LinkTyped, Assigned, vars
<1> QED BY <1>1, <1>2, <1>3, <1>4, <1>5, <1>6, <1>7, <1>8, <1>9, <1>10, <1>11, <1>12, <1>13,
           <1>14, <1>15, <1>16, <1>17 DEF Next

\* The types, and with them that a core never writes a frame the terminal refuses
\* (batch.rs push, frame.rs encode and decode).
THEOREM AlwaysTyped == Spec => []Typed
<1>1. Init => Typed
      BY TypedInit
<1>2. Typed /\ [Next]_vars => Typed'
      BY TypedNext
<1> QED BY <1>1, <1>2, PTL DEF Spec

THEOREM DeliveryTyped == Spec => []TypeOK
<1>1. Typed => TypeOK
  <2> SUFFICES ASSUME Typed PROVE TypeOK
      OBVIOUS
  <2>1. Range(core.registry) \subseteq Symbols
    <3>1. core.registry \in Seq(Symbols)
          BY DEF Typed, CoreTyped
    <3> QED BY <3>1 DEF Range
  <2>2. /\ clock \in 0..MaxTime /\ ops \in 0..MaxOps /\ core.epoch \in 1..MaxEpoch
        BY DEF Typed, CoreTyped
  <2>3. /\ session.subs.active \subseteq Topics /\ session.subs.pending \subseteq Topics
        /\ session.told \in {"nothing", "assigned", "written"}
    <3>1. session \in Sessions
          BY DEF Typed, LinkTyped
    <3> QED BY <3>1 DEF Sessions
  <2>4. terminal.epoch \in 1..MaxEpoch /\ terminal.dict \subseteq Nat \X Symbols
        BY DEF Typed, LinkTyped
  <2> QED BY <2>1, <2>2, <2>3, <2>4 DEF TypeOK
<1> QED BY <1>1, AlwaysTyped, PTL

\* No event is kept longer than the flush interval, however many come after it: the batcher
\* opens no later than its first event comes, and time does not pass its deadline (batch.rs
\* deadline, flush_due).
THEOREM WaitIsBounded == Spec => []WaitBounded
<1>1. Typed => WaitBounded
  <2> SUFFICES ASSUME Typed, NEW i \in DOMAIN session.batcher.parts
               PROVE  clock - session.batcher.parts[i].at <= BATCH_FLUSH_MS
      BY DEF WaitBounded
  <2>1. GoodBatcher(session.batcher, clock) /\ clock \in Nat
        BY DEF Typed, LinkTyped, CoreTyped
  <2>2. session.batcher.openedAt \in Nat /\ session.batcher.parts \in Seq(Parcels)
        BY <2>1 DEF GoodBatcher
  <2>3. session.batcher.parts[i] \in Parcels /\ session.batcher.parts # <<>>
        BY <2>2
  <2>4. session.batcher.parts[i].at \in Nat
        BY <2>3 DEF Parcels
  <2>5. clock <= session.batcher.openedAt + BATCH_FLUSH_MS
        BY <2>1, <2>3 DEF GoodBatcher, Deadline
  <2>6. session.batcher.openedAt <= session.batcher.parts[i].at
        BY <2>1 DEF GoodBatcher
  <2>7. BATCH_FLUSH_MS \in Nat
        BY FramingAssumption
  <2>8. \A now, opened, at, wait \in Nat : now <= opened + wait /\ opened <= at => now - at <= wait
        OBVIOUS
  <2> QED BY <2>1, <2>2, <2>4, <2>5, <2>6, <2>7, <2>8, Zenon
<1> QED BY <1>1, AlwaysTyped, PTL

-----------------------------------------------------------------------------
(* Every event sent arrives once, in order.                                *)

\* What the core sends of its own is understood.
LEMMA KnownSent ==
    ASSUME NEW e, e.channel \in Channels, e.kind \in {"Subscribed", "BookDelta", "CommandAck"},
           e.ver = KNOWN_VER
    PROVE  Known(e)
<1>1. Channels \subseteq KnownChannels
      BY DEF Channels, KnownChannels, Carried
<1>2. /\ Carried["REFERENCE"] = ReferenceEvents /\ Carried["BOOK"] = BookEvents
      /\ Carried["COMMAND"] = CommandEvents
      BY DEF Carried
<1>3. {"Subscribed", "BookDelta", "CommandAck"} \subseteq ServerEvents
  <2>1. "Subscribed" \in Carried["REFERENCE"] /\ "BookDelta" \in Carried["BOOK"]
        /\ "CommandAck" \in Carried["COMMAND"]
        BY <1>2 DEF ReferenceEvents, BookEvents, CommandEvents
  <2> QED BY <1>1, <2>1 DEF Channels, ServerEvents
<1>4. ~(e.ver > KNOWN_VER) /\ e.ver <= KNOWN_VER
      BY DEF KNOWN_VER
<1> QED BY <1>1, <1>3, <1>4 DEF Known, Accepted

\* Of every channel, the stream holds what was sent and not yet seen.
Delivered ==
    Connected =>
        \A c \in Channels :
            /\ terminal.seen[c] <= session.sent[c]
            /\ Carries(Stream, c, terminal.seen[c] + 1, session.sent[c])

Ordered == Typed /\ terminal.epoch <= core.epoch /\ Delivered

\* The stream, before and after a step that keeps the types.
LEMMA BothStreams ==
    ASSUME Typed, Typed'
    PROVE  Stream \in Streams /\ Stream' \in Streams /\ Unhurried(Stream)
<1>1. LinkTyped /\ LinkTyped'
      BY DEF Typed
<1>2. Stream \in Streams /\ Unhurried(Stream)
      BY <1>1, TypedStream
<1>3. Stream' \in Streams
  <2>1. wire' \in Seq(GoodFrames) /\ session'.batcher.parts \in Seq(Parcels)
        BY <1>1 DEF LinkTyped, GoodBatcher
  <2>2. Stream' = StreamOf(wire', session'.batcher.parts)
        BY DEF Stream, StreamOf
  <2> QED BY <2>1, <2>2, StreamOfFacts
<1> QED BY <1>2, <1>3

\* One more event of a channel, and one more is on its way.
LEMMA SentDelivered ==
    ASSUME Ordered, Typed', NEW channel \in Channels,
           NEW kind \in {"Subscribed", "BookDelta", "CommandAck"},
           NEW e \in Parcels, Grown(Stream, Stream', e),
           e.channel = channel, e.kind = kind, e.ver = KNOWN_VER, e.n = session.sent[channel] + 1,
           session'.sent = [session.sent EXCEPT ![channel] = @ + 1],
           UNCHANGED <<terminal, core.epoch>>
    PROVE  Delivered'
<1> SUFFICES ASSUME Connected, NEW c \in Channels
             PROVE  /\ terminal.seen[c] <= session'.sent[c]
                    /\ Carries(Stream', c, terminal.seen[c] + 1, session'.sent[c])
    BY DEF Delivered, Connected
<1>1. /\ session.sent \in [Channels -> Nat] /\ terminal.seen \in [Channels -> Nat]
      BY DEF Ordered, Typed, LinkTyped, Sessions
<1>2. /\ terminal.seen[c] <= session.sent[c]
      /\ Carries(Stream, c, terminal.seen[c] + 1, session.sent[c])
      BY DEF Ordered, Delivered
<1>3. /\ session.sent[c] \in Nat /\ terminal.seen[c] + 1 \in Nat
      /\ terminal.seen[c] + 1 <= session.sent[c] + 1
      BY <1>1, <1>2
<1>4. Stream \in Streams /\ Stream' \in Streams /\ Unhurried(Stream)
      BY BothStreams DEF Ordered
<1> DEFINE a == terminal.seen[c] + 1
           n == session.sent[c]
<1>5. /\ Of(e, c) /\ e.n = n + 1 => Carries(Stream', c, a, n + 1)
      /\ ~Of(e, c) => Carries(Stream', c, a, n)
      BY <1>2, <1>3, <1>4, CarriesGrown
<1>6. Known(e)
      BY KnownSent
<1>7. CASE c = channel
  <2>1. session'.sent[c] = n + 1
        BY <1>1, <1>7
  <2>2. Of(e, c) /\ e.n = n + 1
        BY <1>6, <1>7 DEF Of
  <2>3. terminal.seen[c] <= n + 1
        BY <1>1, <1>2
  <2> QED BY <1>5, <2>1, <2>2, <2>3
<1>8. CASE c # channel
  <2>1. session'.sent[c] = n
        BY <1>1, <1>8
  <2> QED BY <1>2, <1>5, <1>8, <2>1 DEF Of
<1> QED BY <1>7, <1>8

\* Nothing a terminal acts on is sent.
LEMMA AsideDelivered ==
    ASSUME Ordered, Typed', session'.sent = session.sent,
           \/ Stream' = Stream \/ Cut(Stream, Stream')
           \/ \E e \in Parcels : Grown(Stream, Stream', e) /\ ~Known(e),
           UNCHANGED <<terminal, core.epoch>>
    PROVE  Delivered'
<1> SUFFICES ASSUME Connected, NEW c \in Channels
             PROVE  /\ terminal.seen[c] <= session.sent[c]
                    /\ Carries(Stream', c, terminal.seen[c] + 1, session.sent[c])
    BY DEF Delivered, Connected
<1>1. /\ session.sent \in [Channels -> Nat] /\ terminal.seen \in [Channels -> Nat]
      BY DEF Ordered, Typed, LinkTyped, Sessions
<1>2. /\ terminal.seen[c] <= session.sent[c]
      /\ Carries(Stream, c, terminal.seen[c] + 1, session.sent[c])
      BY DEF Ordered, Delivered
<1>3. /\ session.sent[c] \in Nat /\ terminal.seen[c] + 1 \in Nat
      /\ terminal.seen[c] + 1 <= session.sent[c] + 1
      BY <1>1, <1>2
<1>4. Stream \in Streams /\ Stream' \in Streams /\ Unhurried(Stream)
      BY BothStreams DEF Ordered
<1>5. CASE Stream' = Stream
      BY <1>2, <1>5
<1>6. CASE Cut(Stream, Stream')
      BY <1>2, <1>4, <1>6, CarriesCut
<1>7. ASSUME NEW e \in Parcels, Grown(Stream, Stream', e), ~Known(e)
      PROVE  Carries(Stream', c, terminal.seen[c] + 1, session.sent[c])
  <2>1. ~Of(e, c)
        BY <1>7 DEF Of
  <2> QED BY <1>2, <1>3, <1>4, <1>7, <2>1, CarriesGrown
<1> QED BY <1>2, <1>5, <1>6, <1>7

\* A step of the terminal takes the first body.
LEMMA ReceiveShifts ==
    ASSUME Typed, Typed', Receive
    PROVE  Shifted(Stream, Stream')
<1>0. LinkTyped /\ LinkTyped'
      BY DEF Typed
<1>a. /\ Len(wire') = Len(wire) - 1
      /\ \A f \in 1..Len(wire') : wire'[f] = wire[f + 1]
      BY <1>0, ReceiveFacts DEF TakenIn
<1>b. core' = core /\ session' = session
      BY DEF Receive
<1>1. /\ Len(Stream) = Len(wire) + 1 /\ Len(wire) \in Nat
      /\ \A f \in 1..Len(wire) : Stream[f] = wire[f].body
      /\ Stream[Len(wire) + 1] = Unstamped(session.batcher.parts)
      BY <1>0, TypedStream
<1>2. wire' \in Seq(GoodFrames) /\ session.batcher.parts \in Seq(Parcels)
      BY <1>0, <1>b DEF LinkTyped, GoodBatcher
<1>3. Stream' = StreamOf(wire', session.batcher.parts)
      BY <1>b DEF Stream, StreamOf
<1>4. /\ Len(Stream') = Len(wire') + 1 /\ Len(wire') \in Nat
      /\ \A f \in 1..Len(wire') : Stream'[f] = wire'[f].body
      /\ Stream'[Len(wire') + 1] = Unstamped(session.batcher.parts)
      BY <1>2, <1>3, StreamOfFacts
<1>5. ASSUME NEW f \in 1..Len(Stream') PROVE Stream'[f] = Stream[f + 1]
  <2>1. CASE f = Len(wire') + 1
    <3>1. f + 1 = Len(wire) + 1
          BY <1>a, <1>1, <2>1
    <3> QED BY <1>1, <1>4, <2>1, <3>1
  <2>2. CASE f # Len(wire') + 1
    <3>1. f \in 1..Len(wire') /\ f + 1 \in 1..Len(wire)
          BY <1>a, <1>1, <1>4, <2>2
    <3> QED BY <1>a, <1>1, <1>4, <3>1
  <2> QED BY <2>1, <2>2
<1>6. Len(Stream) = Len(Stream') + 1
      BY <1>a, <1>1, <1>4
<1> QED BY <1>5, <1>6 DEF Shifted

\* One body taken, and as many events seen.
LEMMA ReceiveDelivered ==
    ASSUME Ordered, Typed', Receive
    PROVE  Delivered'
<1>0. LinkTyped /\ LinkTyped'
      BY DEF Ordered, Typed
<1> DEFINE body == Stream[1]
<1>1. /\ Len(wire') = Len(wire) - 1 /\ wire # <<>>
      /\ \A f \in 1..Len(wire') : wire'[f] = wire[f + 1]
      /\ terminal'.epoch = terminal.epoch
      /\ \A c \in Channels : terminal'.seen[c] = SeenIn(body, c, terminal.seen[c])
      BY <1>0, ReceiveFacts DEF TakenIn
<1>2. core' = core /\ session' = session
      BY DEF Receive
<1>3. Stream \in Streams /\ Stream' \in Streams
      BY BothStreams DEF Ordered
<1>4. Shifted(Stream, Stream')
      BY ReceiveShifts DEF Ordered
<1> SUFFICES ASSUME Connected, NEW c \in Channels
             PROVE  /\ terminal'.seen[c] <= session.sent[c]
                    /\ Carries(Stream', c, terminal'.seen[c] + 1, session.sent[c])
    BY <1>1, <1>2 DEF Delivered, Connected
<1>5. /\ terminal.seen[c] \in Nat /\ session.sent[c] \in Nat
      BY <1>0 DEF LinkTyped, Sessions
<1>6. /\ terminal.seen[c] <= session.sent[c]
      /\ Carries(Stream, c, terminal.seen[c] + 1, session.sent[c])
      BY DEF Ordered, Delivered
<1>7. terminal'.seen[c] = SeenIn(body, c, terminal.seen[c])
      BY <1>1
<1> QED BY <1>3, <1>4, <1>5, <1>6, <1>7, CarriesShifted

\* On a connection just made nothing is on its way.
LEMMA NothingSent ==
    ASSUME Typed', wire' = <<>>, session'.batcher = EmptyBatcher
    PROVE  /\ Len(Stream') = 1 /\ Stream'[1] = <<>>
           /\ \A c \in Channels : Carries(Stream', c, 1, 0)
<1>1. Stream' = StreamOf(<<>>, <<>>)
      BY DEF Stream, StreamOf, EmptyBatcher
<1>2. <<>> \in Seq(GoodFrames) /\ <<>> \in Seq(Parcels)
      OBVIOUS
<1>3. /\ Len(Stream') = Len(<<>>) + 1
      /\ Stream'[Len(<<>>) + 1] = Unstamped(<<>>)
      BY <1>1, <1>2, StreamOfFacts
<1>4. Stream' \in Streams
      BY <1>1, <1>2, StreamOfFacts
<1>5. Len(Stream') = 1 /\ Stream'[1] = <<>>
      BY <1>3, UnstampedSmall
<1>6. DOMAIN Stream' = {1}
      BY <1>4, <1>5, StreamFacts
<1>7. \A f \in DOMAIN Stream' : DOMAIN Stream'[f] = {}
      BY <1>5, <1>6
<1>8. ASSUME NEW c \in Channels PROVE Carries(Stream', c, 1, 0)
      BY <1>7 DEF Carries
<1> QED BY <1>5, <1>8

LEMMA OrderedNext == Ordered /\ [Next]_vars => Ordered'
<1> SUFFICES ASSUME Ordered, [Next]_vars PROVE Ordered'
    OBVIOUS
<1>0. /\ CoreTyped /\ LinkTyped /\ Typed /\ terminal.epoch \in Nat /\ core.epoch \in Nat
      /\ 1 \in 1..MaxMessage
  <2>1. CoreTyped /\ LinkTyped /\ Typed
        BY DEF Ordered, Typed
  <2>2. MaxMessage \in Nat \ {0}
        BY FramingAssumption
  <2> QED BY <2>1, <2>2 DEF CoreTyped, LinkTyped
<1>a. Typed'
      BY <1>0, TypedNext
\* Of a step that changes neither epoch, what remains is the stream.
<1>b. ASSUME UNCHANGED <<core.epoch, terminal.epoch>>, Delivered' PROVE Ordered'
      BY <1>a, <1>b DEF Ordered
<1>c. ASSUME UNCHANGED <<core.epoch, terminal, wire>>, session'.batcher = session.batcher,
             session'.sent = session.sent
      PROVE  Ordered'
  <2>1. Stream' = Stream
        BY <1>c DEF Stream
  <2> QED BY <1>a, <1>b, <1>c, <2>1, AsideDelivered
<1>1. ASSUME Subscribe PROVE Ordered'
  <2>1. PICK requested \in Requests : \E replace \in BOOLEAN : SubscribedAs(requested, replace)
        BY <1>0, <1>1, SubscribeFacts
  <2>2. core'.epoch = core.epoch /\ session'.batcher = session.batcher /\ session'.sent = session.sent
        BY <2>1 DEF SubscribedAs
  <2>3. UNCHANGED <<wire, terminal>>
        BY <1>1 DEF Subscribe
  <2> QED BY <1>c, <2>2, <2>3
<1>2. ASSUME Announce PROVE Ordered'
  <2> DEFINE changed == [session EXCEPT !.told = "written", !.ids = {}]
  <2>1. changed \in Sessions /\ changed.sent = session.sent
        BY <1>0 DEF Sessions, LinkTyped
  <2>2. Sent("REFERENCE", "Subscribed", 1, session.ids, changed) /\ UNCHANGED <<core, terminal>>
        BY <1>2 DEF Announce
  <2>3. session.ids \in SUBSET (Nat \X Symbols)
        BY <1>0 DEF Sessions, LinkTyped
  <2> HIDE DEF changed
  <2>w. Shaped("REFERENCE", "Subscribed", session.ids, changed)
        BY <1>0, <2>1, <2>2, <2>3, SentShape, TheChannels
  <2>4. /\ session'.sent = [session.sent EXCEPT !["REFERENCE"] = @ + 1]
        /\ \E e \in Parcels :
             /\ Grown(Stream, Stream', e)
             /\ e.channel = "REFERENCE" /\ e.kind = "Subscribed" /\ e.ver = KNOWN_VER
             /\ e.n = session.sent["REFERENCE"] + 1
        BY <2>w DEF Shaped
  <2> QED BY <1>a, <1>b, <2>2, <2>4, SentDelivered DEF Channels
<1>3. ASSUME Activate PROVE Ordered'
  <2>1. session'.batcher = session.batcher /\ session'.sent = session.sent
        BY <1>0, <1>3 DEF Activate, Sessions, LinkTyped
  <2> QED BY <1>3, <1>c, <2>1 DEF Activate
<1>4. ASSUME Unsubscribe PROVE Ordered'
  <2>1. session'.batcher = session.batcher /\ session'.sent = session.sent
        BY <1>0, <1>4 DEF Unsubscribe, Sessions, LinkTyped
  <2> QED BY <1>4, <1>c, <2>1 DEF Unsubscribe
<1>5. ASSUME Publish PROVE Ordered'
  <2>1. PICK symbol \in Symbols, size \in Sizes :
          /\ Wants(session.subs, symbol)
          /\ Sent("BOOK", "BookDelta", size, {<<IdOf(core.registry, symbol), symbol>>}, session)
        BY <1>5 DEF Publish
  <2>2. {<<IdOf(core.registry, symbol), symbol>>} \in SUBSET (Nat \X Symbols) /\ size \in 1..MaxMessage
        BY <1>0, <2>1, WantedNamed, DeliveryAssumption DEF Typed
  <2>3. session \in Sessions /\ UNCHANGED <<core, terminal>>
        BY <1>0, <1>5 DEF LinkTyped, Publish
  <2>w. Shaped("BOOK", "BookDelta", {<<IdOf(core.registry, symbol), symbol>>}, session)
        BY <1>0, <2>1, <2>2, <2>3, SentShape, TheChannels
  <2>4. /\ session'.sent = [session.sent EXCEPT !["BOOK"] = @ + 1]
        /\ \E e \in Parcels :
             /\ Grown(Stream, Stream', e)
             /\ e.channel = "BOOK" /\ e.kind = "BookDelta" /\ e.ver = KNOWN_VER
             /\ e.n = session.sent["BOOK"] + 1
        BY <2>w DEF Shaped
  <2> QED BY <1>a, <1>b, <2>3, <2>4, SentDelivered DEF Channels
<1>6. ASSUME Acknowledge PROVE Ordered'
  <2>1. Sent("COMMAND", "CommandAck", 1, {}, session)
        BY <1>6 DEF Acknowledge
  <2>2. session \in Sessions /\ UNCHANGED <<core, terminal>>
        BY <1>0, <1>6 DEF LinkTyped, Acknowledge
  <2>w. Shaped("COMMAND", "CommandAck", {}, session)
        BY <1>0, <2>1, <2>2, SentShape, TheChannels
  <2>3. /\ session'.sent = [session.sent EXCEPT !["COMMAND"] = @ + 1]
        /\ \E e \in Parcels :
             /\ Grown(Stream, Stream', e)
             /\ e.channel = "COMMAND" /\ e.kind = "CommandAck" /\ e.ver = KNOWN_VER
             /\ e.n = session.sent["COMMAND"] + 1
        BY <2>w DEF Shaped
  <2> QED BY <1>a, <1>b, <2>2, <2>3, SentDelivered DEF Channels
<1>7. ASSUME Foreign PROVE Ordered'
  <2>1. session'.sent = session.sent /\ \E e \in Parcels : Grown(Stream, Stream', e) /\ ~Known(e)
        BY <1>0, <1>7, ForeignShape
  <2>2. UNCHANGED <<core, terminal>>
        BY <1>7 DEF Foreign
  <2> QED BY <1>a, <1>b, <2>1, <2>2, AsideDelivered
<1>8. ASSUME Expire PROVE Ordered'
  <2>1. /\ Batched(FlushIf(session.batcher, clock >= Deadline(session.batcher)), session)
        /\ UNCHANGED <<core, terminal>>
        BY <1>8 DEF Expire, FlushDue
  <2>2. session'.sent = session.sent /\ (Stream' = Stream \/ Cut(Stream, Stream'))
        BY <1>0, <2>1, BatchedFlush DEF LinkTyped
  <2> QED BY <1>a, <1>b, <2>1, <2>2, AsideDelivered
<1>9. ASSUME Tick PROVE Ordered'
      BY <1>9, <1>c DEF Tick
<1>10. ASSUME Receive PROVE Ordered'
  <2>1. Delivered'
        BY <1>a, <1>10, ReceiveDelivered
  <2>2. terminal'.epoch = terminal.epoch /\ core' = core
        BY <1>0, <1>10, ReceiveFacts DEF Receive, TakenIn
  <2> QED BY <1>b, <2>1, <2>2
<1>11. ASSUME Name PROVE Ordered'
       BY <1>11, <1>c DEF Name
<1>12. ASSUME Reconnect PROVE Ordered'
  <2>1. PICK known \in BOOLEAN :
          /\ session' = NewSession(known) /\ wire' = <<>>
          /\ terminal'.epoch = core.epoch /\ terminal'.seen = None0
          /\ UNCHANGED core
        BY <1>12 DEF Reconnect
  <2>2. session'.batcher = EmptyBatcher /\ session'.sent = None0
        BY <2>1 DEF NewSession
  <2>3. \A c \in Channels : Carries(Stream', c, 1, 0)
        BY <1>a, <2>1, <2>2, NothingSent
  <2>4. \A c \in Channels : session'.sent[c] = 0 /\ terminal'.seen[c] = 0
        BY <2>1, <2>2 DEF None0
  <2>5. ASSUME NEW c \in Channels
        PROVE  /\ terminal'.seen[c] <= session'.sent[c]
               /\ Carries(Stream', c, terminal'.seen[c] + 1, session'.sent[c])
        BY <2>3, <2>4
  <2>6. Delivered'
        BY <2>5 DEF Delivered
  <2> QED BY <1>0, <1>a, <2>1, <2>6 DEF Ordered
<1>13. ASSUME Close PROVE Ordered'
  <2> DEFINE changed == [session EXCEPT !.subs = NoSubscriptions]
  <2>1. changed \in Sessions /\ changed.sent = session.sent
        BY <1>0 DEF Sessions, LinkTyped, NoSubscriptions
  <2>2. Batched(FlushIf(session.batcher, TRUE), changed) /\ UNCHANGED <<core, terminal>>
        BY <1>13 DEF Close, Flush
  <2> HIDE DEF changed
  <2>3. session'.sent = session.sent /\ (Stream' = Stream \/ Cut(Stream, Stream'))
        BY <1>0, <2>1, <2>2, BatchedFlush
  <2> QED BY <1>a, <1>b, <2>2, <2>3, AsideDelivered
<1>14. ASSUME Restart PROVE Ordered'
  <2>1. core'.epoch = core.epoch + 1 /\ UNCHANGED terminal
        BY <1>14 DEF Restart
  <2>2. terminal'.epoch < core'.epoch
        BY <1>0, <2>1 DEF Ordered
  <2>3. ~Connected'
        BY <1>0, <2>1, <2>2 DEF Connected
  <2> QED BY <1>0, <1>a, <2>1, <2>2, <2>3 DEF Ordered, Delivered
<1>15. ASSUME Refresh PROVE Ordered'
       BY <1>15, <1>c DEF Refresh
<1>16. ASSUME AskPage PROVE Ordered'
       BY <1>16, <1>c DEF AskPage
<1>17. ASSUME UNCHANGED vars PROVE Ordered'
       BY <1>17, <1>c DEF vars
<1> QED BY <1>1, <1>2, <1>3, <1>4, <1>5, <1>6, <1>7, <1>8, <1>9, <1>10, <1>11, <1>12, <1>13,
           <1>14, <1>15, <1>16, <1>17 DEF Next

LEMMA OrderedInit == Init => Ordered
<1> SUFFICES ASSUME Init PROVE Ordered
    OBVIOUS
<1>1. Typed
      BY TypedInit
<1>2. /\ wire = <<>> /\ session = NewSession(TRUE)
      /\ core.epoch = 1 /\ terminal.epoch = 1 /\ terminal.seen = None0
      BY DEF Init
<1>3. session.batcher.parts = <<>> /\ session.sent = None0
      BY <1>2 DEF NewSession, EmptyBatcher
<1>4. LinkTyped
      BY <1>1 DEF Typed
<1>5. Stream \in Streams /\ Len(Stream) = 1 /\ Stream[1] = <<>>
  <2>1. Len(wire) = 0
        BY <1>2
  <2>2. /\ Stream \in Streams /\ Len(Stream) = Len(wire) + 1
        /\ Stream[Len(wire) + 1] = Unstamped(session.batcher.parts)
        BY <1>4, TypedStream
  <2>3. Unstamped(session.batcher.parts) = <<>>
        BY <1>3, UnstampedSmall
  <2> QED BY <2>1, <2>2, <2>3
<1>6. \A f \in DOMAIN Stream : DOMAIN Stream[f] = {}
      BY <1>5, StreamFacts
<1>7. \A c \in Channels : session.sent[c] = 0 /\ terminal.seen[c] = 0
      BY <1>2, <1>3 DEF None0
<1>8. ASSUME NEW c \in Channels
      PROVE  /\ terminal.seen[c] <= session.sent[c]
             /\ Carries(Stream, c, terminal.seen[c] + 1, session.sent[c])
      BY <1>6, <1>7 DEF Carries
<1>9. terminal.epoch <= core.epoch
      BY <1>2
<1> QED BY <1>1, <1>8, <1>9 DEF Ordered, Delivered

THEOREM AlwaysOrdered == Spec => []Ordered
<1>1. Init => Ordered
      BY OrderedInit
<1>2. Ordered /\ [Next]_vars => Ordered'
      BY OrderedNext
<1> QED BY <1>1, <1>2, PTL DEF Spec

\* Every event sent arrives once, in the order of its channel, whatever the batcher merges,
\* holds back and lets overtake, and whatever a newer core sends in between (batch.rs push,
\* frame.rs encode and inflate, envelope.rs accept).
THEOREM AllInOrder == Spec => []InOrder
<1>1. Ordered => InOrder
      BY DEF Ordered, Delivered, InOrder
<1> QED BY <1>1, AlwaysOrdered, PTL
-----------------------------------------------------------------------------
(* Short ids are understood as they were meant.                            *)

\* What the terminal can say the meaning of by now or will be able to, and what it will be
\* told of at all.
Learnt(name) == name \in terminal.dict \/ Taught(Stream, name)
Held(name)   == name \in terminal.dict \/ Mentioned(Stream, name)

\* No id has two meanings among what the terminal holds and what is on its way, ...
OneMeaning == \A p, q \in Nat \X Symbols : Held(p) /\ Held(q) /\ p[1] = q[1] => p = q

\* ... and on a connection to the core there is, they are that core's.
Agreed ==
    Connected =>
        \A name \in Nat \X Symbols :
            Held(name) \/ name \in session.ids => Issued(core.registry, name)

WellNamed == Introduced(Stream, terminal.dict) /\ OneMeaning /\ Agreed

\* Who is sent events of an instrument is told of it first.
IdPair(registry, symbol) == <<IdOf(registry, symbol), symbol>>

Told ==
    /\ \A sub \in session.subs.active : Learnt(IdPair(core.registry, sub.symbol))
    /\ session.told = "nothing" => session.subs.pending = {}
    /\ session.told = "assigned" =>
         \A sub \in session.subs.pending : IdPair(core.registry, sub.symbol) \in session.ids
    /\ session.told = "written" =>
         \A sub \in session.subs.pending : Learnt(IdPair(core.registry, sub.symbol))

\* A core that lost its terminal has nothing to tell it.
Idle == ~Connected => session.told = "nothing" /\ session.subs.active = {}

Meaningful == Ordered /\ WellNamed /\ Told /\ Idle /\ IdsMeant

\* What has one meaning is read so.
LEMMA ReadRight ==
    ASSUME NEW dict, NEW name \in Nat \X Symbols, name \in dict,
           \A q \in Nat \X Symbols : q \in dict /\ q[1] = name[1] => q = name
    PROVE  Meaning(dict, name[1]) = [is |-> "symbol", symbol |-> name[2]]
<1>1. name = <<name[1], name[2]>> /\ name[1] \in Nat /\ name[2] \in Symbols
      OBVIOUS
<1>2. \A s \in Symbols : <<name[1], s>> \in dict => s = name[2]
  <2> SUFFICES ASSUME NEW s \in Symbols, <<name[1], s>> \in dict PROVE s = name[2]
      OBVIOUS
  <2>1. <<name[1], s>> \in Nat \X Symbols /\ <<name[1], s>>[1] = name[1]
        BY <1>1
  <2>2. <<name[1], s>> = name
        BY <2>1
  <2> QED BY <2>2
<1>3. <<name[1], name[2]>> \in dict
      BY <1>1
<1>4. (CHOOSE s \in Symbols : <<name[1], s>> \in dict) = name[2]
      BY <1>1, <1>2, <1>3
<1> QED BY <1>1, <1>3, <1>4 DEF Meaning

\* A core's ids have one meaning each.
LEMMA IssuedOnce ==
    ASSUME NEW r, NEW p \in Nat \X Symbols, NEW q \in Nat \X Symbols,
           Issued(r, p), Issued(r, q), p[1] = q[1]
    PROVE  p = q
<1>1. p[2] = q[2]
      BY DEF Issued
<1> QED BY <1>1

\* One more event, of names the terminal is told of or will be.
LEMMA GrownNamed ==
    ASSUME Typed, Typed', WellNamed, core' = core, terminal' = terminal,
           \A name \in session'.ids : name \in session.ids,
           NEW e \in Parcels, Grown(Stream, Stream', e),
           Class(e.channel) > 1 \/ e.names = {},
           Reads(e) => \A name \in e.names : Learnt(name),
           e.names # {} => Connected,
           \A name \in e.names : Issued(core.registry, name)
    PROVE  /\ WellNamed'
           /\ \A name : Learnt(name) => Learnt(name)'
           /\ Teaches(e) => \A name \in e.names : Learnt(name)'
<1>0. Stream \in Streams /\ Stream' \in Streams
      BY BothStreams
<1>1. \A name : /\ Taught(Stream, name) => Taught(Stream', name)
                /\ Mentioned(Stream', name) => Mentioned(Stream, name) \/ name \in e.names
                /\ Teaches(e) /\ Class(e.channel) > 1 /\ name \in e.names => Taught(Stream', name)
      BY <1>0, NamesGrown
<1>2. Introduced(Stream', terminal.dict)
  <2>1. Introduced(Stream, terminal.dict)
        BY DEF WellNamed
  <2>2. Reads(e) => \A name \in e.names : name \in terminal.dict \/ Taught(Stream, name)
        BY DEF Learnt
  <2> QED BY <1>0, <2>1, <2>2, IntroducedGrown
<1>3. Connected' = Connected
      BY DEF Connected
<1>4. \A name : Held(name)' => Held(name) \/ name \in e.names
      BY <1>1 DEF Held
<1>5. Agreed'
  <2> SUFFICES ASSUME Connected, NEW name \in Nat \X Symbols, Held(name)' \/ name \in session'.ids
               PROVE  Issued(core.registry, name)
      BY <1>3 DEF Agreed
  <2>1. Held(name) \/ name \in session.ids \/ name \in e.names
        BY <1>4
  <2> QED BY <2>1 DEF WellNamed, Agreed
<1>6. OneMeaning'
  <2>1. CASE Connected
    <3>1. \A name \in Nat \X Symbols : Held(name)' => Issued(core.registry, name)
          BY <1>3, <1>5, <2>1 DEF Agreed
    <3> QED BY <3>1, IssuedOnce DEF OneMeaning
  <2>2. CASE ~Connected
    <3>1. \A name : Held(name)' => Held(name)
          BY <1>4, <2>2
    <3> QED BY <3>1 DEF WellNamed, OneMeaning
  <2> QED BY <2>1, <2>2
<1> QED BY <1>1, <1>2, <1>5, <1>6 DEF WellNamed, Learnt

\* A cut changes no names.
LEMMA CutNamed ==
    ASSUME Typed, Typed', WellNamed, core' = core, terminal' = terminal, session'.ids = session.ids,
           Stream' = Stream \/ Cut(Stream, Stream')
    PROVE  /\ WellNamed'
           /\ \A name : Learnt(name) => Learnt(name)'
<1>0. Stream \in Streams /\ Stream' \in Streams
      BY BothStreams
<1>1. /\ \A name : /\ Taught(Stream, name) => Taught(Stream', name)
                   /\ Mentioned(Stream', name) => Mentioned(Stream, name)
      /\ Introduced(Stream', terminal.dict)
  <2>1. CASE Stream' = Stream
        BY <2>1 DEF WellNamed
  <2>2. CASE Cut(Stream, Stream')
    <3> DEFINE h == [f \in DOMAIN Stream |-> f]
    <3>1. Keeps(Stream, Stream', h, {})
          BY <1>0, <2>2, CutKeeps
    <3>2. Introduced(Stream, terminal.dict)
          BY DEF WellNamed
    <3> HIDE DEF h
    <3>3. Introduced(Stream', terminal.dict)
          BY <1>0, <3>1, <3>2, KeepsIntroduced
    <3> QED BY <1>0, <3>1, <3>3, KeptNames
  <2> QED BY <2>1, <2>2
<1>2. \A name : Held(name)' => Held(name)
      BY <1>1 DEF Held
<1>3. OneMeaning'
      BY <1>2 DEF WellNamed, OneMeaning
<1>4. Agreed'
      BY <1>2 DEF WellNamed, Agreed, Connected
<1> QED BY <1>1, <1>3, <1>4 DEF WellNamed, Learnt

\* What was to be told still is.
LEMMA ToldKept ==
    ASSUME Told, Idle, core' = core, terminal'.epoch = terminal.epoch,
           \A name : Learnt(name) => Learnt(name)',
           session'.told = session.told, session'.ids = session.ids,
           session'.subs.active \subseteq session.subs.active,
           session'.subs.pending \subseteq session.subs.pending
    PROVE  Told' /\ Idle'
<1>1. Told'
  <2>1. \A sub \in session'.subs.active : Learnt(IdPair(core.registry, sub.symbol))'
        BY DEF Told
  <2>2. session'.told = "nothing" => session'.subs.pending = {}
        BY DEF Told
  <2>3. session'.told = "assigned" =>
          \A sub \in session'.subs.pending : IdPair(core.registry, sub.symbol) \in session'.ids
        BY DEF Told
  <2>4. session'.told = "written" =>
          \A sub \in session'.subs.pending : Learnt(IdPair(core.registry, sub.symbol))'
        BY DEF Told
  <2> QED BY <2>1, <2>2, <2>3, <2>4 DEF Told
<1>2. Idle'
      BY DEF Idle, Connected
<1> QED BY <1>1, <1>2

\* What the batcher kept is lost.
Lost(s, t) ==
    \E m \in Nat \ {0} :
        /\ Len(s) = m /\ Len(t) = m
        /\ \A f \in 1..m : f # m => t[f] = s[f]
        /\ t[m] = <<>>

LEMMA LostNames ==
    ASSUME NEW s \in Streams, NEW t \in Streams, Lost(s, t), NEW dict, Introduced(s, dict)
    PROVE  /\ Introduced(t, dict)
           /\ \A name : Mentioned(t, name) => Mentioned(s, name)
<1> PICK m \in Nat \ {0} : /\ Len(s) = m /\ Len(t) = m
                           /\ \A f \in 1..m : f # m => t[f] = s[f]
                           /\ t[m] = <<>>
    BY DEF Lost
<1>1. DOMAIN s = 1..m /\ DOMAIN t = 1..m
      BY StreamFacts
<1>2. DOMAIN t[m] = {}
      OBVIOUS
<1>3. ASSUME NEW f \in DOMAIN t, NEW i \in DOMAIN t[f]
      PROVE  f \in DOMAIN s /\ f < m /\ t[f] = s[f] /\ i \in DOMAIN s[f]
      BY <1>1, <1>2
<1>4. ASSUME NEW f \in DOMAIN t, NEW i \in DOMAIN t[f], Reads(t[f][i])
      PROVE  IntroducedAt(t, dict, f, i)
  <2> SUFFICES ASSUME NEW name \in t[f][i].names, name \notin dict
               PROVE  \E g \in DOMAIN t : \E j \in DOMAIN t[g] :
                        Upto(g, j, f, i) /\ Teaches(t[g][j]) /\ name \in t[g][j].names
      BY DEF IntroducedAt
  <2>1. IntroducedAt(s, dict, f, i) /\ name \in s[f][i].names
        BY <1>3, <1>4 DEF Introduced
  <2>2. PICK g \in DOMAIN s : \E j \in DOMAIN s[g] :
               Upto(g, j, f, i) /\ Teaches(s[g][j]) /\ name \in s[g][j].names
        BY <2>1 DEF IntroducedAt
  <2>3. PICK j \in DOMAIN s[g] :
               Upto(g, j, f, i) /\ Teaches(s[g][j]) /\ name \in s[g][j].names
        BY <2>2
  <2>4. g < m
        BY <1>1, <1>3, <2>3 DEF Upto
  <2>5. g \in DOMAIN t /\ t[g] = s[g]
        BY <1>1, <2>4
  <2> QED BY <2>3, <2>5
<1>5. ASSUME NEW name, Mentioned(t, name) PROVE Mentioned(s, name)
      BY <1>3, <1>5 DEF Mentioned
<1> QED BY <1>4, <1>5 DEF Introduced

\* The terminal reads what it takes as it was meant.
LEMMA ReceiveNamed ==
    ASSUME Ordered, Typed', WellNamed, Told, Idle, IdsMeant, Receive
    PROVE  WellNamed' /\ Told' /\ Idle' /\ IdsMeant'
<1>0. Typed /\ LinkTyped
      BY DEF Ordered, Typed
<1> DEFINE body == Stream[1]
           known == terminal.dict \cup Learned(body, Len(body))
<1>1. /\ body \in Seq(Parcels)
      /\ terminal'.epoch = terminal.epoch
      /\ terminal'.dict = known
      /\ \A reading \in understood' :
           \/ reading \in understood
           \/ \E i \in DOMAIN body : \E name \in body[i].names :
                /\ Reads(body[i])
                /\ reading = [as |-> Meaning(terminal.dict \cup Learned(body, i), name[1]),
                              meant |-> name[2]]
      BY <1>0, ReceiveFacts DEF TakenIn
<1>2. core' = core /\ session' = session
      BY DEF Receive
<1>3. Stream \in Streams /\ Stream' \in Streams /\ Shifted(Stream, Stream')
      BY <1>0, BothStreams, ReceiveShifts
<1>4. /\ Introduced(Stream', known)
      /\ \A i \in DOMAIN body : Reads(body[i]) => body[i].names \subseteq terminal.dict \cup Learned(body, i)
      /\ \A name : /\ Taught(Stream, name) => Taught(Stream', name) \/ name \in known
                   /\ Mentioned(Stream', name) => Mentioned(Stream, name)
      /\ \A i \in DOMAIN body : \A name \in body[i].names : Mentioned(Stream, name)
      /\ \A name \in known : name \in terminal.dict \/ Mentioned(Stream, name)
  <2>1. Introduced(Stream, terminal.dict)
        BY DEF WellNamed
  <2> QED BY <1>3, <2>1, IntroducedShifted
<1>5. \A i \in DOMAIN body : Learned(body, i) \subseteq known
  <2> SUFFICES ASSUME NEW i \in DOMAIN body, NEW name \in Learned(body, i) PROVE name \in known
      OBVIOUS
  <2>1. i \in Nat /\ Len(body) \in Nat /\ i <= Len(body)
        BY <1>1
  <2> QED BY <2>1 DEF Learned
<1> HIDE DEF known
<1>a. terminal'.dict = known
      BY <1>1
<1>b. \A name : /\ Taught(Stream, name) => Taught(Stream', name) \/ name \in known
                /\ Mentioned(Stream', name) => Mentioned(Stream, name)
                /\ name \in known => name \in terminal.dict \/ Mentioned(Stream, name)
  <2>1. \A name : /\ Taught(Stream, name) => Taught(Stream', name) \/ name \in known
                  /\ Mentioned(Stream', name) => Mentioned(Stream, name)
        BY <1>4
  <2>2. \A name \in known : name \in terminal.dict \/ Mentioned(Stream, name)
        BY <1>4
  <2> QED BY <2>1, <2>2
<1>6. \A name : Held(name)' => Held(name)
      BY <1>a, <1>b DEF Held
<1>7. \A name : Learnt(name) => Learnt(name)'
  <2>1. \A name : name \in terminal.dict => name \in known
        BY DEF known
  <2> QED BY <1>a, <1>b, <2>1 DEF Learnt
<1>8. WellNamed'
  <2>1. OneMeaning'
        BY <1>6 DEF WellNamed, OneMeaning
  <2>2. Agreed'
        BY <1>1, <1>2, <1>6 DEF WellNamed, Agreed, Connected
  <2> QED BY <1>1, <1>4, <2>1, <2>2 DEF WellNamed
<1>9. Told' /\ Idle'
      BY <1>1, <1>2, <1>7, ToldKept
<1>10. ASSUME NEW i \in DOMAIN body, NEW name \in body[i].names, Reads(body[i])
       PROVE  Meaning(terminal.dict \cup Learned(body, i), name[1]) = [is |-> "symbol", symbol |-> name[2]]
  <2> DEFINE dict == terminal.dict \cup Learned(body, i)
  <2>1. name \in dict /\ name \in Nat \X Symbols
        BY <1>1, <1>4, <1>10, PartsOfBody
  <2>2. \A q \in dict : Held(q)
    <3>1. \A q \in dict : q \in terminal.dict \/ q \in known
          BY <1>5
    <3> QED BY <1>4, <3>1 DEF Held
  <2> HIDE DEF dict
  <2>3. \A q \in Nat \X Symbols : q \in dict /\ q[1] = name[1] => q = name
        BY <2>1, <2>2 DEF WellNamed, OneMeaning
  <2>4. Meaning(dict, name[1]) = [is |-> "symbol", symbol |-> name[2]]
        BY <2>1, <2>3, ReadRight
  <2> QED BY <2>4 DEF dict
<1>11. IdsMeant'
  <2> SUFFICES ASSUME NEW reading \in understood'
               PROVE  reading.as = [is |-> "symbol", symbol |-> reading.meant] \/ reading.as.is = "foreign epoch"
      BY DEF IdsMeant
  <2>1. CASE reading \in understood
        BY <2>1 DEF IdsMeant
  <2>2. ASSUME NEW i \in DOMAIN body, NEW name \in body[i].names, Reads(body[i]),
               reading = [as |-> Meaning(terminal.dict \cup Learned(body, i), name[1]), meant |-> name[2]]
        PROVE  reading.as = [is |-> "symbol", symbol |-> reading.meant]
    <3>1. /\ reading.as = Meaning(terminal.dict \cup Learned(body, i), name[1])
          /\ reading.meant = name[2]
          BY <2>2
    <3> QED BY <1>10, <2>2, <3>1
  <2> QED BY <1>1, <2>1, <2>2
<1> QED BY <1>8, <1>9, <1>11

LEMMA MeaningfulNext == Meaningful /\ [Next]_vars => Meaningful'
<1> SUFFICES ASSUME Meaningful, [Next]_vars PROVE Meaningful'
    OBVIOUS
<1>0. /\ Ordered /\ Typed /\ CoreTyped /\ LinkTyped /\ session \in Sessions /\ 1 \in 1..MaxMessage
      /\ WellNamed /\ Told /\ Idle /\ IdsMeant
  <2>1. Ordered /\ Typed /\ WellNamed /\ Told /\ Idle /\ IdsMeant
        BY DEF Meaningful, Ordered
  <2>2. MaxMessage \in Nat \ {0}
        BY FramingAssumption
  <2> QED BY <2>1, <2>2 DEF Typed, LinkTyped
<1>a. Ordered' /\ Typed'
  <2>1. Ordered'
        BY <1>0, OrderedNext
  <2> QED BY <2>1 DEF Ordered
<1>b. understood' = understood => IdsMeant'
      BY <1>0 DEF IdsMeant
\* Of a step that adds no names, what remains are the subscriptions.
<1>c. ASSUME UNCHANGED <<terminal, core>>, session'.ids = session.ids,
             Stream' = Stream \/ Cut(Stream, Stream')
      PROVE  WellNamed' /\ \A name : Learnt(name) => Learnt(name)'
      BY <1>0, <1>a, <1>c, CutNamed
<1>d. ASSUME UNCHANGED <<terminal, core, wire>>, session'.batcher = session.batcher,
             session'.ids = session.ids
      PROVE  WellNamed' /\ \A name : Learnt(name) => Learnt(name)'
  <2>1. Stream' = Stream
        BY <1>d DEF Stream
  <2> QED BY <1>c, <1>d, <2>1
<1>e. ASSUME UNCHANGED <<terminal, core, wire, session>>
      PROVE  WellNamed' /\ Told' /\ Idle'
      BY <1>0, <1>d, <1>e, ToldKept
<1>1. ASSUME Subscribe PROVE Meaningful'
  <2>1. PICK requested \in Requests : \E replace \in BOOLEAN : SubscribedAs(requested, replace)
        BY <1>0, <1>1, SubscribeFacts
  <2>2. PICK replace \in BOOLEAN : SubscribedAs(requested, replace)
        BY <2>1
  <2> DEFINE tradable == Tradable(requested)
  <2>3. /\ UNCHANGED <<wire, terminal, understood>> /\ session'.batcher = session.batcher
        /\ core'.epoch = core.epoch /\ Connected
        BY <1>1, <2>2 DEF Subscribe, SubscribedAs
  <2>4. Stream' = Stream /\ Connected'
        BY <2>3 DEF Stream, Connected
  <2>5. \A name : (Held(name)' => Held(name)) /\ (Learnt(name) => Learnt(name)')
        BY <2>3, <2>4 DEF Held, Learnt
  <2>6. \A name : Issued(core.registry, name) => Issued(core'.registry, name)
        BY <2>2 DEF SubscribedAs, Issued
  <2>7. \A name \in session'.ids : Issued(core'.registry, name)
    <3> SUFFICES ASSUME NEW x \in SymbolsOf(tradable)
                 PROVE  Issued(core'.registry, <<IdOf(core'.registry, x), x>>)
        BY <2>2 DEF SubscribedAs
    <3>1. x \in Range(core'.registry)
          BY <2>2 DEF SubscribedAs
    <3>2. IdOf(core'.registry, x) \in DOMAIN core'.registry
          /\ core'.registry[IdOf(core'.registry, x)] = x
          BY <3>1, IdOfIssued
    <3> QED BY <3>2 DEF Issued
  <2>8. WellNamed'
    <3>1. Introduced(Stream', terminal'.dict)
          BY <1>0, <2>3, <2>4 DEF WellNamed
    <3>2. OneMeaning'
          BY <1>0, <2>5 DEF WellNamed, OneMeaning
    <3>3. Agreed'
      <4> SUFFICES ASSUME NEW name \in Nat \X Symbols, Held(name)' \/ name \in session'.ids
                   PROVE  Issued(core'.registry, name)
          BY DEF Agreed
      <4>1. CASE Held(name)'
            BY <1>0, <2>3, <2>5, <2>6, <4>1 DEF WellNamed, Agreed
      <4>2. CASE name \in session'.ids
            BY <2>7, <4>2
      <4> QED BY <4>1, <4>2
    <3> QED BY <3>1, <3>2, <3>3 DEF WellNamed
  <2>9. Told'
    <3>1. /\ session'.told = "assigned" /\ session.subs.pending = {}
          /\ session'.subs = Subscribed(session.subs, requested, tradable, replace)
          /\ session'.ids = {<<IdOf(core'.registry, s), s>> : s \in SymbolsOf(tradable)}
          BY <1>0, <2>2 DEF SubscribedAs, Told
    <3>2. /\ session'.subs.active \subseteq session.subs.active
          /\ session'.subs.pending \subseteq tradable
          BY <3>1 DEF Subscribed
    <3>3. ASSUME NEW sub \in session'.subs.active
          PROVE  Learnt(IdPair(core.registry, sub.symbol))'
      <4>1. sub \in session.subs.active /\ sub.symbol \in Range(core.registry)
            BY <1>0, <3>2 DEF Typed, Assigned
      <4>2. IdOf(core'.registry, sub.symbol) = IdOf(core.registry, sub.symbol)
            BY <2>2, <4>1 DEF SubscribedAs
      <4>3. Learnt(IdPair(core.registry, sub.symbol))
            BY <1>0, <4>1 DEF Told
      <4> QED BY <2>3, <2>4, <4>2, <4>3 DEF IdPair, Learnt
    <3>4. ASSUME NEW sub \in session'.subs.pending
          PROVE  IdPair(core'.registry, sub.symbol) \in session'.ids
      <4>1. sub.symbol \in SymbolsOf(tradable)
            BY <3>2 DEF SymbolsOf
      <4> QED BY <3>1, <4>1 DEF IdPair
    <3> QED BY <3>1, <3>3, <3>4 DEF Told
  <2>10. Idle'
        BY <2>4 DEF Idle
  <2> QED BY <1>a, <1>b, <2>3, <2>8, <2>9, <2>10 DEF Meaningful
<1>2. ASSUME Announce PROVE Meaningful'
  <2> DEFINE changed == [session EXCEPT !.told = "written", !.ids = {}]
  <2>1. /\ changed \in Sessions /\ changed.sent = session.sent
        /\ changed.subs = session.subs /\ changed.told = "written" /\ changed.ids = {}
        BY <1>0 DEF Sessions
  <2>2. /\ Sent("REFERENCE", "Subscribed", 1, session.ids, changed)
        /\ UNCHANGED <<core, terminal, understood>> /\ session.told = "assigned"
        BY <1>2 DEF Announce
  <2>3. session.ids \in SUBSET (Nat \X Symbols)
        BY <1>0 DEF Sessions
  <2> HIDE DEF changed
  <2>w. Shaped("REFERENCE", "Subscribed", session.ids, changed)
        BY <1>0, <2>1, <2>2, <2>3, SentShape, TheChannels
  <2>4. /\ Kin(session', changed)
        /\ \E e \in Parcels :
             /\ Grown(Stream, Stream', e)
             /\ e.channel = "REFERENCE" /\ e.kind = "Subscribed" /\ e.ver = KNOWN_VER
             /\ e.names = session.ids
        BY <2>w DEF Shaped
  <2>5. session'.subs = session.subs /\ session'.told = "written" /\ session'.ids = {}
        BY <2>1, <2>4 DEF Kin
  <2>6. PICK e \in Parcels :
             /\ Grown(Stream, Stream', e)
             /\ e.channel = "REFERENCE" /\ e.kind = "Subscribed" /\ e.ver = KNOWN_VER
             /\ e.names = session.ids
        BY <2>4
  <2>7. Class(e.channel) > 1 /\ Teaches(e) /\ ~Reads(e)
    <3>1. Known(e)
          BY <2>6, KnownSent DEF Channels
    <3> QED BY <2>6, <3>1 DEF Teaches, Reads, Class
  <2>8. Connected
        BY <1>0, <2>2 DEF Idle
  <2>9. \A name \in e.names : Issued(core.registry, name)
        BY <1>0, <2>3, <2>6, <2>8 DEF WellNamed, Agreed
  <2>10. /\ WellNamed'
         /\ \A name : Learnt(name) => Learnt(name)'
         /\ \A name \in session.ids : Learnt(name)'
    <3>1. core' = core /\ terminal' = terminal /\ \A name \in session'.ids : name \in session.ids
          BY <2>2, <2>5
    <3> QED BY <1>0, <1>a, <2>6, <2>7, <2>8, <2>9, <3>1, GrownNamed
  <2>11. Told'
    <3>1. \A sub \in session'.subs.active : Learnt(IdPair(core.registry, sub.symbol))'
          BY <1>0, <2>2, <2>5, <2>10 DEF Told
    <3>2. \A sub \in session'.subs.pending : Learnt(IdPair(core.registry, sub.symbol))'
          BY <1>0, <2>2, <2>5, <2>10 DEF Told
    <3> QED BY <2>5, <3>1, <3>2 DEF Told
  <2>12. Idle'
        BY <2>2, <2>8 DEF Idle, Connected
  <2> QED BY <1>a, <1>b, <2>2, <2>10, <2>11, <2>12 DEF Meaningful
<1>3. ASSUME Activate PROVE Meaningful'
  <2>1. /\ session.told = "written" /\ session' = [session EXCEPT !.subs = Activated(@), !.told = "nothing"]
        /\ UNCHANGED <<core, wire, terminal, understood>>
        BY <1>3 DEF Activate
  <2>2. /\ session'.batcher = session.batcher /\ session'.ids = session.ids
        /\ session'.told = "nothing" /\ session'.subs = Activated(session.subs)
        BY <1>0, <2>1 DEF Sessions
  <2>3. WellNamed' /\ \A name : Learnt(name) => Learnt(name)'
        BY <1>d, <2>1, <2>2
  <2>4. /\ session'.subs.active = session.subs.active \cup session.subs.pending
        /\ session'.subs.pending = {}
        BY <2>2 DEF Activated
  <2>5. \A sub \in session'.subs.active : Learnt(IdPair(core.registry, sub.symbol))'
        BY <1>0, <2>1, <2>3, <2>4 DEF Told
  <2>6. Told'
        BY <2>2, <2>4, <2>5 DEF Told
  <2>7. Idle'
        BY <1>0, <2>1 DEF Idle, Connected
  <2> QED BY <1>a, <1>b, <2>1, <2>3, <2>6, <2>7 DEF Meaningful
<1>4. ASSUME Unsubscribe PROVE Meaningful'
  <2>1. PICK topic : session' = [session EXCEPT !.subs = Unsubscribed(@, {topic})]
        BY <1>4 DEF Unsubscribe
  <2>2. UNCHANGED <<core, wire, terminal, understood>>
        BY <1>4 DEF Unsubscribe
  <2>3. /\ session'.batcher = session.batcher /\ session'.ids = session.ids
        /\ session'.told = session.told /\ session'.subs = Unsubscribed(session.subs, {topic})
        BY <1>0, <2>1 DEF Sessions
  <2>4. /\ session'.subs.active \subseteq session.subs.active
        /\ session'.subs.pending \subseteq session.subs.pending
        BY <2>3 DEF Unsubscribed
  <2>5. WellNamed' /\ \A name : Learnt(name) => Learnt(name)'
        BY <1>d, <2>2, <2>3
  <2>6. Told' /\ Idle'
        BY <1>0, <2>2, <2>3, <2>4, <2>5, ToldKept
  <2> QED BY <1>a, <1>b, <2>2, <2>5, <2>6 DEF Meaningful
<1>5. ASSUME Publish PROVE Meaningful'
  <2>1. PICK symbol \in Symbols, size \in Sizes :
          /\ Wants(session.subs, symbol)
          /\ Sent("BOOK", "BookDelta", size, {<<IdOf(core.registry, symbol), symbol>>}, session)
        BY <1>5 DEF Publish
  <2> DEFINE name == IdPair(core.registry, symbol)
  <2>2. {name} \in SUBSET (Nat \X Symbols) /\ size \in 1..MaxMessage /\ symbol \in Range(core.registry)
        BY <1>0, <2>1, WantedNamed, DeliveryAssumption DEF Typed, IdPair
  <2>3. UNCHANGED <<core, terminal, understood>>
        BY <1>5 DEF Publish
  <2>4. Sent("BOOK", "BookDelta", size, {name}, session)
        BY <2>1 DEF IdPair
  <2>5. Issued(core.registry, name)
        BY <2>2, IdOfIssued DEF IdPair, Issued
  <2>6. Learnt(name) /\ Connected
    <3>1. PICK sub \in session.subs.active : sub.symbol = symbol
          BY <2>1 DEF Wants, SymbolsOf
    <3> QED BY <1>0, <3>1 DEF Told, Idle
  <2> HIDE DEF name
  <2>w. Shaped("BOOK", "BookDelta", {name}, session)
        BY <1>0, <2>2, <2>4, SentShape, TheChannels
  <2>7. /\ Kin(session', session)
        /\ \E e \in Parcels :
             /\ Grown(Stream, Stream', e)
             /\ e.channel = "BOOK" /\ e.kind = "BookDelta" /\ e.names = {name}
        BY <2>w DEF Shaped
  <2>8. PICK e \in Parcels : /\ Grown(Stream, Stream', e)
                             /\ e.channel = "BOOK" /\ e.kind = "BookDelta" /\ e.names = {name}
        BY <2>7
  <2>9. Class(e.channel) > 1
        BY <2>8 DEF Class
  <2>10. WellNamed' /\ \A other : Learnt(other) => Learnt(other)'
    <3>1. core' = core /\ terminal' = terminal /\ \A other \in session'.ids : other \in session.ids
          BY <2>3, <2>7 DEF Kin
    <3>2. \A other \in e.names : Issued(core.registry, other) /\ Learnt(other)
          BY <2>5, <2>6, <2>8
    <3> QED BY <1>0, <1>a, <2>6, <2>8, <2>9, <3>1, <3>2, GrownNamed
  <2>11. Told' /\ Idle'
        BY <1>0, <2>3, <2>7, <2>10, ToldKept DEF Kin
  <2> QED BY <1>a, <1>b, <2>3, <2>10, <2>11 DEF Meaningful
<1>6. ASSUME Acknowledge PROVE Meaningful'
  <2>1. Sent("COMMAND", "CommandAck", 1, {}, session) /\ UNCHANGED <<core, terminal, understood>>
        BY <1>6 DEF Acknowledge
  <2>w. Shaped("COMMAND", "CommandAck", {}, session)
        BY <1>0, <2>1, SentShape, TheChannels
  <2>2. /\ Kin(session', session)
        /\ \E e \in Parcels : Grown(Stream, Stream', e) /\ e.names = {}
        BY <2>w DEF Shaped
  <2>3. PICK e \in Parcels : Grown(Stream, Stream', e) /\ e.names = {}
        BY <2>2
  <2>4. WellNamed' /\ \A name : Learnt(name) => Learnt(name)'
    <3>1. core' = core /\ terminal' = terminal /\ \A other \in session'.ids : other \in session.ids
          BY <2>1, <2>2 DEF Kin
    <3> QED BY <1>0, <1>a, <2>3, <3>1, GrownNamed
  <2>5. Told' /\ Idle'
        BY <1>0, <2>1, <2>2, <2>4, ToldKept DEF Kin
  <2> QED BY <1>a, <1>b, <2>1, <2>4, <2>5 DEF Meaningful
<1>7. ASSUME Foreign PROVE Meaningful'
  <2>1. UNCHANGED <<core, terminal, understood>>
        BY <1>7 DEF Foreign
  <2>2. /\ Kin(session', session)
        /\ \E e \in Parcels : Grown(Stream, Stream', e) /\ e.names = {}
        BY <1>0, <1>7, ForeignShape
  <2>3. PICK e \in Parcels : Grown(Stream, Stream', e) /\ e.names = {}
        BY <2>2
  <2>4. WellNamed' /\ \A name : Learnt(name) => Learnt(name)'
    <3>1. core' = core /\ terminal' = terminal /\ \A other \in session'.ids : other \in session.ids
          BY <2>1, <2>2 DEF Kin
    <3> QED BY <1>0, <1>a, <2>3, <3>1, GrownNamed
  <2>5. Told' /\ Idle'
        BY <1>0, <2>1, <2>2, <2>4, ToldKept DEF Kin
  <2> QED BY <1>a, <1>b, <2>1, <2>4, <2>5 DEF Meaningful
<1>8. ASSUME Expire PROVE Meaningful'
  <2>1. /\ Batched(FlushIf(session.batcher, clock >= Deadline(session.batcher)), session)
        /\ UNCHANGED <<core, terminal, understood>>
        BY <1>8 DEF Expire, FlushDue
  <2>2. Kin(session', session) /\ (Stream' = Stream \/ Cut(Stream, Stream'))
        BY <1>0, <2>1, BatchedFlush
  <2>3. WellNamed' /\ \A name : Learnt(name) => Learnt(name)'
        BY <1>c, <2>1, <2>2 DEF Kin
  <2>4. Told' /\ Idle'
        BY <1>0, <2>1, <2>2, <2>3, ToldKept DEF Kin
  <2> QED BY <1>a, <1>b, <2>1, <2>3, <2>4 DEF Meaningful
<1>9. ASSUME Tick PROVE Meaningful'
      BY <1>9, <1>a, <1>b, <1>e DEF Tick, Meaningful
<1>10. ASSUME Receive PROVE Meaningful'
       BY <1>0, <1>10, <1>a, ReceiveNamed DEF Meaningful
<1>11. ASSUME Name PROVE Meaningful'
  <2>1. UNCHANGED <<terminal, core, wire, session>>
        BY <1>11 DEF Name
  <2>2. PICK name \in terminal.dict :
          understood' = understood \cup
            {[as |-> Resolve(core.registry, core.epoch, name[1], terminal.epoch), meant |-> name[2]]}
        BY <1>11 DEF Name
  <2> DEFINE as == Resolve(core.registry, core.epoch, name[1], terminal.epoch)
  <2>3. as = [is |-> "symbol", symbol |-> name[2]] \/ as.is = "foreign epoch"
    <3>1. CASE Connected
      <4>1. name \in Nat \X Symbols /\ Held(name)
            BY <1>0 DEF LinkTyped, Held
      <4>2. Issued(core.registry, name)
            BY <1>0, <3>1, <4>1 DEF WellNamed, Agreed
      <4> QED BY <3>1, <4>2 DEF Connected, Issued, Resolve
    <3>2. CASE ~Connected
          BY <3>2 DEF Connected, Resolve
    <3> QED BY <3>1, <3>2
  <2> HIDE DEF as
  <2>4. understood' = understood \cup {[as |-> as, meant |-> name[2]]}
        BY <2>2 DEF as
  <2>5. IdsMeant'
    <3> SUFFICES ASSUME NEW reading \in understood'
                 PROVE  \/ reading.as = [is |-> "symbol", symbol |-> reading.meant]
                        \/ reading.as.is = "foreign epoch"
        BY DEF IdsMeant
    <3>1. CASE reading \in understood
          BY <1>0, <3>1 DEF IdsMeant
    <3>2. CASE reading = [as |-> as, meant |-> name[2]]
          BY <2>3, <3>2
    <3> QED BY <2>4, <3>1, <3>2
  <2> QED BY <1>a, <1>e, <2>1, <2>5 DEF Meaningful
<1>12. ASSUME Reconnect PROVE Meaningful'
  <2>1. PICK known \in BOOLEAN :
          /\ session' = NewSession(known) /\ wire' = <<>>
          /\ terminal' = [epoch |-> core.epoch, seen |-> None0,
                          dict |-> IF core.epoch = terminal.epoch THEN terminal.dict ELSE {}]
          /\ UNCHANGED <<core, understood>>
        BY <1>12 DEF Reconnect
  <2>2. /\ session'.batcher = EmptyBatcher /\ session'.ids = {} /\ session'.told = "nothing"
        /\ session'.subs = [active |-> {}, pending |-> {}]
        BY <2>1 DEF NewSession, NoSubscriptions
  <2>3. /\ Len(Stream') = 1 /\ Stream'[1] = <<>> /\ Stream' \in Streams
        BY <1>0, <1>a, <2>1, <2>2, NothingSent, BothStreams
  <2>4. \A f \in DOMAIN Stream' : DOMAIN Stream'[f] = {}
    <3>1. DOMAIN Stream' = {1}
          BY <2>3, StreamFacts
    <3> QED BY <2>3, <3>1
  <2>5. \A name : Held(name)' => name \in terminal'.dict
        BY <2>4 DEF Held, Mentioned
  <2>6. \A name \in terminal'.dict : name \in terminal.dict /\ Connected
        BY <2>1 DEF Connected
  <2>7. Introduced(Stream', terminal'.dict)
        BY <2>4 DEF Introduced
  <2>8. \A name : Held(name)' => Held(name)
        BY <2>5, <2>6 DEF Held
  <2>9. OneMeaning'
        BY <1>0, <2>8 DEF WellNamed, OneMeaning
  <2>10. Agreed'
    <3> SUFFICES ASSUME NEW name \in Nat \X Symbols, Held(name)'
                 PROVE  Issued(core.registry, name)
        BY <2>1, <2>2 DEF Agreed
    <3> QED BY <1>0, <2>5, <2>6, <2>8 DEF WellNamed, Agreed
  <2>11. Told' /\ Idle'
        BY <2>2 DEF Told, Idle
  <2> QED BY <1>a, <1>b, <2>1, <2>7, <2>9, <2>10, <2>11 DEF Meaningful, WellNamed
<1>13. ASSUME Close PROVE Meaningful'
  <2> DEFINE changed == [session EXCEPT !.subs = NoSubscriptions]
  <2>1. /\ changed \in Sessions /\ changed.sent = session.sent
        /\ changed.told = session.told /\ changed.ids = session.ids
        /\ changed.subs = [active |-> {}, pending |-> {}]
        BY <1>0 DEF Sessions, NoSubscriptions
  <2>2. /\ Batched(FlushIf(session.batcher, TRUE), changed)
        /\ UNCHANGED <<core, terminal, understood>>
        BY <1>13 DEF Close, Flush
  <2> HIDE DEF changed
  <2>3. Kin(session', changed) /\ (Stream' = Stream \/ Cut(Stream, Stream'))
        BY <1>0, <2>1, <2>2, BatchedFlush
  <2>4. WellNamed' /\ \A name : Learnt(name) => Learnt(name)'
        BY <1>c, <2>1, <2>2, <2>3 DEF Kin
  <2>5. /\ session'.told = session.told /\ session'.ids = session.ids
        /\ session'.subs.active = {} /\ session'.subs.pending = {}
        BY <2>1, <2>3 DEF Kin
  <2>6. Told' /\ Idle'
        BY <1>0, <2>2, <2>4, <2>5, ToldKept
  <2> QED BY <1>a, <1>b, <2>2, <2>4, <2>6 DEF Meaningful
<1>14. ASSUME Restart PROVE Meaningful'
  <2>1. /\ core'.epoch = core.epoch + 1 /\ session' = NewSession(FALSE)
        /\ UNCHANGED <<wire, terminal, understood>>
        BY <1>14 DEF Restart
  <2>2. /\ session'.batcher.parts = <<>> /\ session'.ids = {} /\ session'.told = "nothing"
        /\ session'.subs = [active |-> {}, pending |-> {}]
        BY <2>1 DEF NewSession, NoSubscriptions, EmptyBatcher
  <2>3. ~Connected'
    <3>1. terminal.epoch \in Nat /\ core.epoch \in Nat /\ terminal.epoch <= core.epoch
          BY <1>0 DEF LinkTyped, CoreTyped, Ordered
    <3> QED BY <2>1, <3>1 DEF Connected
  <2>4. Stream \in Streams /\ Stream' \in Streams
        BY <1>0, <1>a, BothStreams
  <2>5. Lost(Stream, Stream')
    <3>1. /\ Len(Stream) = Len(wire) + 1 /\ Len(wire) \in Nat
          /\ \A f \in 1..Len(wire) : Stream[f] = wire[f].body
          BY <1>0, TypedStream
    <3>2. Stream' = StreamOf(wire, <<>>) /\ <<>> \in Seq(Parcels) /\ wire \in Seq(GoodFrames)
      <4>1. wire' = wire /\ session'.batcher.parts = <<>>
            BY <2>1, <2>2
      <4>2. Stream' = StreamOf(wire, <<>>)
            BY <4>1 DEF Stream, StreamOf
      <4> QED BY <1>0, <4>2 DEF LinkTyped
    <3>3. /\ Len(Stream') = Len(wire) + 1
          /\ \A f \in 1..Len(wire) : Stream'[f] = wire[f].body
          /\ Stream'[Len(wire) + 1] = Unstamped(<<>>)
          BY <3>2, StreamOfFacts
    <3>4. Stream'[Len(wire) + 1] = <<>>
          BY <3>3, UnstampedSmall
    <3>5. Len(wire) + 1 \in Nat \ {0}
          BY <3>1
    <3>6. \A f \in 1..Len(wire) + 1 : f # Len(wire) + 1 => Stream'[f] = Stream[f]
          BY <3>1, <3>3
    <3> QED BY <3>1, <3>3, <3>4, <3>5, <3>6 DEF Lost
  <2>6. /\ Introduced(Stream', terminal.dict)
        /\ \A name : Mentioned(Stream', name) => Mentioned(Stream, name)
    <3>1. Introduced(Stream, terminal.dict)
          BY <1>0 DEF WellNamed
    <3> QED BY <2>4, <2>5, <3>1, LostNames
  <2>7. OneMeaning'
    <3>1. \A name : Held(name)' => Held(name)
          BY <2>1, <2>6 DEF Held
    <3> QED BY <1>0, <3>1 DEF WellNamed, OneMeaning
  <2>8. Agreed'
        BY <2>3 DEF Agreed
  <2>9. Told' /\ Idle'
        BY <2>2 DEF Told, Idle
  <2> QED BY <1>a, <1>b, <2>1, <2>6, <2>7, <2>8, <2>9 DEF Meaningful, WellNamed
<1>15. ASSUME Refresh PROVE Meaningful'
       BY <1>15, <1>a, <1>b, <1>e DEF Refresh, Meaningful
<1>16. ASSUME AskPage PROVE Meaningful'
       BY <1>16, <1>a, <1>b, <1>e DEF AskPage, Meaningful
<1>17. ASSUME UNCHANGED vars PROVE Meaningful'
       BY <1>17, <1>a, <1>b, <1>e DEF vars, Meaningful
<1> QED BY <1>1, <1>2, <1>3, <1>4, <1>5, <1>6, <1>7, <1>8, <1>9, <1>10, <1>11, <1>12, <1>13,
           <1>14, <1>15, <1>16, <1>17 DEF Next

LEMMA MeaningfulInit == Init => Meaningful
<1> SUFFICES ASSUME Init PROVE Meaningful
    OBVIOUS
<1>1. Ordered /\ LinkTyped
  <2>1. Ordered
        BY OrderedInit
  <2> QED BY <2>1 DEF Ordered, Typed
<1>2. /\ wire = <<>> /\ session = NewSession(TRUE) /\ understood = {}
      /\ core.epoch = 1 /\ terminal.epoch = 1 /\ terminal.dict = {}
      BY DEF Init
<1>3. /\ session.batcher.parts = <<>> /\ session.ids = {} /\ session.told = "nothing"
      /\ session.subs = [active |-> {}, pending |-> {}]
      BY <1>2 DEF NewSession, EmptyBatcher, NoSubscriptions
<1>4. Stream \in Streams /\ Len(Stream) = 1 /\ Stream[1] = <<>>
  <2>1. Len(wire) = 0
        BY <1>2
  <2>2. /\ Stream \in Streams /\ Len(Stream) = Len(wire) + 1
        /\ Stream[Len(wire) + 1] = Unstamped(session.batcher.parts)
        BY <1>1, TypedStream
  <2>3. Unstamped(session.batcher.parts) = <<>>
        BY <1>3, UnstampedSmall
  <2> QED BY <2>1, <2>2, <2>3
<1>5. \A f \in DOMAIN Stream : DOMAIN Stream[f] = {}
      BY <1>4, StreamFacts
<1>6. \A name : ~Held(name)
      BY <1>2, <1>5 DEF Held, Mentioned
<1>7. WellNamed
      BY <1>3, <1>5, <1>6 DEF WellNamed, Introduced, OneMeaning, Agreed
<1>8. Told /\ Idle
      BY <1>3 DEF Told, Idle
<1>9. IdsMeant
      BY <1>2 DEF IdsMeant
<1> QED BY <1>1, <1>7, <1>8, <1>9 DEF Meaningful

\* A short id is understood as it was meant, whoever reads it and whenever: what an event
\* names was announced before it, no id has two meanings on one connection, and what outlives
\* a restart is known by its epoch (subscription.rs subscribe and activate, registry.rs intern
\* and resolve).
THEOREM AllIdsMeant == Spec => []IdsMeant
<1>1. Init => Meaningful
      BY MeaningfulInit
<1>2. Meaningful /\ [Next]_vars => Meaningful'
      BY MeaningfulNext
<1>3. Meaningful => IdsMeant
      BY DEF Meaningful
<1> QED BY <1>1, <1>2, <1>3, PTL DEF Spec

-----------------------------------------------------------------------------
(* The catalogue: a list in the order of its names is one list.            *)

\* The instruments the venue may name.
Entries == UNION {Range(Instruments(infos)) : infos \in Lists}

\* A list in order: of each, as many names come before it as its place says.
InOrderOfNames(list) == \A i, j \in DOMAIN list : i < j => list[i].name < list[j].name

NamesUpTo(names, name) == {other \in names : other <= name}

Neat(list) ==
    /\ list \in Seq(Entries)
    /\ InOrderOfNames(list)
    /\ IsFiniteSet(Names(list))
    /\ Len(list) = Cardinality(Names(list))
    /\ \A i \in DOMAIN list : Cardinality(NamesUpTo(Names(list), list[i].name)) = i

\* A greater name has more names up to it.
LEMMA MoreUpto ==
    ASSUME NEW names, names \subseteq Nat, IsFiniteSet(names),
           NEW x \in names, NEW y \in names, x < y
    PROVE  /\ Cardinality(NamesUpTo(names, x)) \in Nat /\ Cardinality(NamesUpTo(names, y)) \in Nat
           /\ Cardinality(NamesUpTo(names, x)) < Cardinality(NamesUpTo(names, y))
<1> DEFINE X == NamesUpTo(names, x)
           Y == NamesUpTo(names, y)
<1>1. X \subseteq Y /\ y \in Y /\ y \notin X
  <2>1. x \in Nat /\ y \in Nat /\ \A z \in names : z \in Nat
        OBVIOUS
  <2>2. \A z \in names : z <= x => z <= y
        BY <2>1
  <2>3. y <= y /\ ~(y <= x)
        BY <2>1
  <2> QED BY <2>2, <2>3 DEF NamesUpTo
<1>2. Y \subseteq names
      BY DEF NamesUpTo
<1>3. IsFiniteSet(Y)
      BY <1>2, FS_Subset
<1>4. IsFiniteSet(X) /\ Cardinality(X) <= Cardinality(Y) /\ Cardinality(X) # Cardinality(Y)
      BY <1>1, <1>3, FS_Subset
<1>5. Cardinality(X) \in Nat /\ Cardinality(Y) \in Nat
      BY <1>3, <1>4, FS_CardinalityType
<1> QED BY <1>4, <1>5

\* Each place has its name.
LEMMA NthFacts ==
    ASSUME NEW names, names \subseteq Nat, IsFiniteSet(names)
    PROVE  /\ Cardinality(names) \in Nat
           /\ \A n \in 1..Cardinality(names) : /\ Nth(names, n) \in names
                                               /\ Cardinality(NamesUpTo(names, Nth(names, n))) = n
           /\ \A name \in names : \E n \in 1..Cardinality(names) : Nth(names, n) = name
<1> DEFINE c == Cardinality(names)
           f == [name \in names |-> Cardinality(NamesUpTo(names, name))]
<1>1. c \in Nat
      BY FS_CardinalityType
<1>2. IsFiniteSet(1..c) /\ Cardinality(1..c) = c
      BY <1>1, FS_Interval
<1>3. ASSUME NEW x \in names PROVE f[x] \in 1..c
  <2>1. NamesUpTo(names, x) \subseteq names /\ x \in NamesUpTo(names, x)
        BY DEF NamesUpTo
  <2>2. IsFiniteSet(NamesUpTo(names, x)) /\ Cardinality(NamesUpTo(names, x)) <= c
        BY <2>1, FS_Subset
  <2>3. Cardinality(NamesUpTo(names, x)) \in Nat /\ Cardinality(NamesUpTo(names, x)) # 0
        BY <2>1, <2>2, FS_CardinalityType, FS_EmptySet
  <2> QED BY <1>1, <2>2, <2>3
<1>a. ASSUME NEW x \in names, NEW y \in names, x < y PROVE f[x] # f[y]
  <2>1. /\ Cardinality(NamesUpTo(names, x)) \in Nat /\ Cardinality(NamesUpTo(names, y)) \in Nat
        /\ Cardinality(NamesUpTo(names, x)) < Cardinality(NamesUpTo(names, y))
        BY <1>a, MoreUpto
  <2> QED BY <2>1
<1>4. ASSUME NEW x \in names, NEW y \in names, f[x] = f[y] PROVE x = y
  <2>1. x \in Nat /\ y \in Nat
        OBVIOUS
  <2>2. ~(x < y) /\ ~(y < x)
        BY <1>4, <1>a
  <2> QED BY <2>1, <2>2
<1>5. f \in Injection(names, 1..c)
      BY <1>3, <1>4 DEF Injection, IsInjective
<1>6. f \in Surjection(names, 1..c)
      BY <1>2, <1>5, FS_Injection
<1>7. ASSUME NEW n \in 1..c PROVE Nth(names, n) \in names /\ Cardinality(NamesUpTo(names, Nth(names, n))) = n
  <2>1. \E name \in names : f[name] = n
        BY <1>6 DEF Surjection
  <2> QED BY <2>1 DEF Nth, NamesUpTo
<1>8. ASSUME NEW name \in names PROVE \E n \in 1..c : Nth(names, n) = name
  <2>1. f[name] \in 1..c
        BY <1>3
  <2>2. Nth(names, f[name]) \in names /\ f[Nth(names, f[name])] = f[name]
        BY <1>7, <2>1
  <2>3. Nth(names, f[name]) = name
        BY <1>4, <2>2
  <2> QED BY <2>1, <2>3
<1> QED BY <1>1, <1>7, <1>8

\* What the venue names is a list of numbers.
LEMMA InstrumentsNamed ==
    ASSUME NEW infos \in Lists
    PROVE  /\ DOMAIN Instruments(infos) \subseteq Nat
           /\ \A i \in DOMAIN Instruments(infos) : /\ Instruments(infos)[i].name \in Nat
                                                   /\ Instruments(infos)[i] \in Entries
           /\ Names(Instruments(infos)) \subseteq Nat
           /\ IsFiniteSet(Names(Instruments(infos)))
<1> DEFINE list == Instruments(infos)
           D    == {k \in DOMAIN infos : infos[k].tick # None /\ infos[k].step # None}
<1>1. infos \in Seq(Range(infos)) /\ \A i \in DOMAIN infos : infos[i].name \in Nat
      BY DeliveryAssumption
<1>2. DOMAIN infos = 1..Len(infos) /\ Len(infos) \in Nat
      BY <1>1
<1>3. IsFiniteSet(DOMAIN infos)
      BY <1>2, FS_Interval
<1>4. DOMAIN list = D /\ \A i \in D : list[i] = Instrument(infos[i])
      BY DEF Instruments
<1>5. D \subseteq DOMAIN infos
      OBVIOUS
<1>6. IsFiniteSet(D)
      BY <1>3, <1>5, FS_Subset
<1>7. \A i \in DOMAIN infos : Instrument(infos[i]).name = infos[i].name
      BY DEF Instrument
<1>8. \A i \in D : list[i].name \in Nat
      BY <1>1, <1>4, <1>5, <1>7
<1> DEFINE f == [i \in D |-> list[i].name]
<1>9. f \in Surjection(D, Names(list))
      BY <1>4 DEF Surjection, Names
<1>10. IsFiniteSet(Names(list))
      BY <1>6, <1>9, FS_Surjection
<1>11. \A i \in DOMAIN list : list[i] \in Entries
      BY DEF Entries, Range
<1> QED BY <1>2, <1>4, <1>5, <1>8, <1>10, <1>11 DEF Names

LEMMA EntriesNamed == \A entry \in Entries : entry.name \in Nat
<1> SUFFICES ASSUME NEW infos \in Lists, NEW entry \in Range(Instruments(infos))
             PROVE  entry.name \in Nat
    BY DEF Entries
<1>1. PICK i \in DOMAIN Instruments(infos) : entry = Instruments(infos)[i]
      BY DEF Range
<1> QED BY <1>1, InstrumentsNamed

LEMMA NeatFacts ==
    ASSUME NEW list, Neat(list)
    PROVE  /\ Len(list) \in Nat /\ DOMAIN list = 1..Len(list)
           /\ \A i \in DOMAIN list : list[i].name \in Nat /\ i \in Nat
           /\ Names(list) \subseteq Nat
           /\ \A i, j \in DOMAIN list : list[i].name = list[j].name => i = j
<1>1. list \in Seq(Entries) /\ InOrderOfNames(list)
      BY DEF Neat
<1>2. Len(list) \in Nat /\ DOMAIN list = 1..Len(list) /\ \A i \in DOMAIN list : list[i] \in Entries
      BY <1>1
<1>3. \A i \in DOMAIN list : list[i].name \in Nat /\ i \in Nat
      BY <1>2, EntriesNamed
<1>4. ASSUME NEW i \in DOMAIN list, NEW j \in DOMAIN list, list[i].name = list[j].name PROVE i = j
  <2>1. ~(i < j) /\ ~(j < i)
        BY <1>1, <1>3, <1>4 DEF InOrderOfNames
  <2> QED BY <1>3, <2>1
<1> QED BY <1>2, <1>3, <1>4 DEF Names

\* Whatever the venue answers, the list is in order.
LEMMA ListedNeat ==
    ASSUME NEW infos \in Lists
    PROVE  Neat(Listed(Instruments(infos)))
<1> DEFINE L == Instruments(infos)
           N == Names(L)
           first(name) == L[Min({i \in DOMAIN L : L[i].name = name})]
           list == Listed(L)
<1>1. /\ DOMAIN L \subseteq Nat /\ N \subseteq Nat /\ IsFiniteSet(N)
      /\ \A i \in DOMAIN L : L[i] \in Entries
      BY InstrumentsNamed
<1>2. ASSUME NEW name \in N PROVE first(name) \in Entries /\ first(name).name = name
  <2> DEFINE T == {i \in DOMAIN L : L[i].name = name}
  <2>1. T \subseteq Nat /\ T # {}
        BY <1>1 DEF Names
  <2>2. Min(T) \in T
        BY <2>1, LeastOf DEF Min
  <2> QED BY <1>1, <2>2
<1>3. list = [n \in 1..Cardinality(N) |-> first(Nth(N, n))]
      BY DEF Listed
<1>4. /\ Cardinality(N) \in Nat
      /\ \A n \in 1..Cardinality(N) : Nth(N, n) \in N /\ Cardinality(NamesUpTo(N, Nth(N, n))) = n
      /\ \A name \in N : \E n \in 1..Cardinality(N) : Nth(N, n) = name
      BY <1>1, NthFacts
<1> HIDE DEF first, list, L
<1>5. DOMAIN list = 1..Cardinality(N) /\ Len(list) = Cardinality(N) /\ list \in Seq(Entries)
      BY <1>2, <1>3, <1>4
<1>6. \A n \in DOMAIN list : list[n].name = Nth(N, n)
      BY <1>2, <1>3, <1>4, <1>5
<1>7. Names(list) = N
  <2> HIDE DEF N
  <2>1. ASSUME NEW name \in N PROVE name \in Names(list)
    <3>1. PICK n \in DOMAIN list : list[n].name = name
          BY <1>4, <1>5, <1>6
    <3> QED BY <3>1 DEF Names
  <2>2. ASSUME NEW name \in Names(list) PROVE name \in N
    <3>1. PICK n \in DOMAIN list : list[n].name = name
          BY DEF Names
    <3> QED BY <1>4, <1>5, <1>6, <3>1
  <2> QED BY <2>1, <2>2
<1>8. ASSUME NEW i \in DOMAIN list, NEW j \in DOMAIN list, i < j
      PROVE  list[i].name < list[j].name
  <2> DEFINE x == Nth(N, i)
             y == Nth(N, j)
  <2>1. /\ x \in N /\ y \in N /\ x \in Nat /\ y \in Nat /\ i \in Nat /\ j \in Nat
        /\ Cardinality(NamesUpTo(N, x)) = i /\ Cardinality(NamesUpTo(N, y)) = j
        BY <1>1, <1>4, <1>5
  <2> HIDE DEF x, y, N
  <2>2. x # y
        BY <1>8, <2>1
  <2>3. y < x => j < i
        BY <1>1, <2>1, MoreUpto
  <2> QED BY <1>6, <1>8, <2>1, <2>2, <2>3 DEF x, y
<1>9. \A i \in DOMAIN list : Cardinality(NamesUpTo(Names(list), list[i].name)) = i
      BY <1>4, <1>5, <1>6, <1>7
<1> QED BY <1>1, <1>5, <1>7, <1>8, <1>9 DEF Neat, InOrderOfNames, list, L

\* Two lists of the same instruments on the same terms are the same.
LEMMA SameList ==
    ASSUME NEW a, NEW b, Neat(a), Neat(b), Names(a) = Names(b),
           \A name \in Names(a) : SameTerms(Named(a, name), Named(b, name))
    PROVE  a = b
<1>1. /\ Len(a) \in Nat /\ DOMAIN a = 1..Len(a) /\ Names(a) \subseteq Nat
      /\ \A i, j \in DOMAIN a : a[i].name = a[j].name => i = j
      BY NeatFacts
<1>2. /\ DOMAIN b = 1..Len(b)
      /\ \A i, j \in DOMAIN b : b[i].name = b[j].name => i = j
      BY NeatFacts
<1>3. Len(a) = Len(b) /\ DOMAIN a = DOMAIN b
      BY <1>1, <1>2 DEF Neat
<1>4. ASSUME NEW i \in DOMAIN a PROVE a[i] = b[i]
  <2> DEFINE x == a[i].name
             y == b[i].name
             N == Names(a)
  <2>1. x \in N /\ y \in N
        BY <1>3 DEF Names
  <2>2. Cardinality(NamesUpTo(N, x)) = i /\ Cardinality(NamesUpTo(N, y)) = i
        BY <1>3 DEF Neat
  <2>3. N \subseteq Nat /\ IsFiniteSet(N) /\ x \in Nat /\ y \in Nat
        BY <1>1, <2>1 DEF Neat
  <2> HIDE DEF x, y, N
  <2>4. x = y
    <3>1. x < y => FALSE
      <4> SUFFICES ASSUME x < y PROVE FALSE
          OBVIOUS
      <4>1. /\ Cardinality(NamesUpTo(N, x)) \in Nat
            /\ Cardinality(NamesUpTo(N, x)) < Cardinality(NamesUpTo(N, y))
            BY <2>1, <2>3, MoreUpto
      <4> QED BY <2>2, <4>1
    <3>2. y < x => FALSE
      <4> SUFFICES ASSUME y < x PROVE FALSE
          OBVIOUS
      <4>1. /\ Cardinality(NamesUpTo(N, y)) \in Nat
            /\ Cardinality(NamesUpTo(N, y)) < Cardinality(NamesUpTo(N, x))
            BY <2>1, <2>3, MoreUpto
      <4> QED BY <2>2, <4>1
    <3> QED BY <2>3, <3>1, <3>2
  <2>5. Named(a, x) = a[i]
        BY <1>1 DEF Named, x
  <2>6. Named(b, x) = b[i]
        BY <1>2, <1>3, <2>4 DEF Named, y
  <2> QED BY <2>1, <2>5, <2>6 DEF SameTerms, N
<1>5. a \in Seq(Entries) /\ b \in Seq(Entries)
      BY DEF Neat
<1> QED BY <1>3, <1>4, <1>5

\* A revision is one list.
LEMMA ReplaceFacts ==
    ASSUME NEW cat, Neat(cat.list), cat = [list |-> cat.list, rev |-> cat.rev], cat.rev \in Nat,
           NEW infos \in Lists, NEW new, new = Replace(cat, Instruments(infos))
    PROVE  /\ Neat(new.list)
           /\ new.rev \in Nat /\ cat.rev <= new.rev
           /\ new.rev = cat.rev => new.list = cat.list
<1> DEFINE list == Listed(Instruments(infos))
<1>1. new.list = list /\ new.rev \in {cat.rev, cat.rev + 1}
      BY DEF Replace
<1>2. Neat(list)
      BY ListedNeat
<1> HIDE DEF list
<1>3. ASSUME new.rev = cat.rev PROVE list = cat.list
  <2>1. cat.rev # cat.rev + 1
        OBVIOUS
  <2>2. /\ Names(list) = Names(cat.list)
        /\ \A name \in Names(list) \cap Names(cat.list) :
             SameTerms(Named(cat.list, name), Named(list, name))
        BY <1>3, <2>1, Zenon DEF Replace, list
  <2> QED BY <1>2, <2>2, SameList
<1> QED BY <1>1, <1>2, <1>3

-----------------------------------------------------------------------------
(* The pages a terminal has had are what the list has up to its cursor.    *)

\* A page begins after the names that are no greater than the cursor.
LEMMA StartFacts ==
    ASSUME NEW list, Neat(list), NEW cursor, cursor = None \/ cursor \in Nat
    PROVE  /\ Start(list, cursor) \in 0..Len(list)
           /\ cursor = None => Start(list, cursor) = 0
           /\ cursor # None =>
                \A i \in DOMAIN list : list[i].name <= cursor <=> i <= Start(list, cursor)
<1>1. /\ Len(list) \in Nat /\ DOMAIN list = 1..Len(list)
      /\ \A i \in DOMAIN list : list[i].name \in Nat /\ i \in Nat
      BY NeatFacts
<1>2. CASE cursor = None
      BY <1>1, <1>2 DEF Start
<1>3. CASE cursor # None
  <2> DEFINE T == {i \in DOMAIN list : list[i].name <= cursor}
  <2>1. cursor \in Nat /\ Start(list, cursor) = Cardinality(T)
        BY <1>3 DEF Start
  <2>2. ASSUME NEW i \in DOMAIN list, NEW j \in T, i <= j PROVE i \in T
    <3>1. i = j \/ list[i].name < list[j].name
          BY <1>1, <2>2 DEF Neat, InOrderOfNames
    <3> QED BY <1>1, <2>1, <2>2, <3>1
  <2>3. \E k \in 0..Len(list) : T = 1..k
    <3>1. CASE T = {}
      <4>1. T = 1..0
            BY <3>1
      <4> QED BY <1>1, <4>1
    <3>2. CASE T # {}
      <4>1. T \subseteq 1..Len(list)
            BY <1>1
      <4>2. Max(T) \in T /\ \A i \in T : i <= Max(T)
            BY <1>1, <3>2, <4>1, LastOf
      <4> DEFINE m == Max(T)
      <4>3. m \in 1..Len(list) /\ m \in T
            BY <4>1, <4>2
      <4>4. \A i \in 1..m : i \in DOMAIN list /\ i <= m
            BY <1>1, <4>3
      <4>5. \A i \in T : i \in 1..Len(list) /\ i <= m
            BY <4>1, <4>2
      <4>6. \A i \in 1..m : i \in T
            BY <2>2, <4>3, <4>4
      <4> HIDE DEF m, T
      <4>7. T \subseteq 1..m
            BY <1>1, <4>3, <4>5
      <4>8. T = 1..m
            BY <4>6, <4>7
      <4> QED BY <1>1, <4>3, <4>8
    <3> QED BY <3>1, <3>2
  <2>4. PICK k \in 0..Len(list) : T = 1..k
        BY <2>3
  <2>5. Cardinality(T) = k
    <3>1. k \in Nat /\ 1 \in Int /\ k \in Int
          BY <1>1
    <3>2. Cardinality(1..k) = k
          BY <3>1, FS_Interval
    <3> QED BY <2>4, <3>2
  <2>6. Start(list, cursor) = k
        BY <2>1, <2>5
  <2>7. \A i \in DOMAIN list : list[i].name <= cursor <=> i <= k
        BY <1>1, <2>4
  <2> QED BY <1>3, <2>6, <2>7
<1> QED BY <1>2, <1>3

\* What is on a page that begins after some instruments and ends with another one, and
\* where the next one begins.
Holding(page, list, start, end) ==
    /\ start <= end
    /\ page.items \in Seq(Entries) /\ Len(page.items) = end - start
    /\ \A i \in 1..end - start : page.items[i] = list[start + i]
    /\ end = Len(list) => page.cursor = None
    /\ end < Len(list) => start < end /\ page.cursor = list[end].name

LEMMA PageFacts ==
    ASSUME NEW cat, Neat(cat.list), NEW cursor, cursor = None \/ cursor \in Nat
    PROVE  /\ Page(cat, cursor).rev = cat.rev
           /\ \E end \in 0..Len(cat.list) :
                Holding(Page(cat, cursor), cat.list, Start(cat.list, cursor), end)
<1> DEFINE page  == Page(cat, cursor)
           list  == cat.list
           start == Start(list, cursor)
           end   == Min({start + INSTRUMENTS_PAGE, Len(list)})
           items == SubSeq(list, start + 1, end)
<1>1. Len(list) \in Nat /\ DOMAIN list = 1..Len(list) /\ list \in Seq(Entries)
      BY NeatFacts DEF Neat
<1>2. start \in 0..Len(list)
      BY StartFacts
<1>3. INSTRUMENTS_PAGE \in Nat \ {0}
      BY CatalogueAssumption
<1>4. page = [items |-> items, rev |-> cat.rev,
              cursor |-> IF end < Len(list) THEN Last(items).name ELSE None]
      BY DEF Page
<1> HIDE DEF start, page
<1>5. end = IF start + INSTRUMENTS_PAGE <= Len(list) THEN start + INSTRUMENTS_PAGE ELSE Len(list)
  <2> DEFINE a == start + INSTRUMENTS_PAGE
             b == Len(list)
  <2>1. a \in Nat /\ b \in Nat
        BY <1>1, <1>2, <1>3
  <2> HIDE DEF a, b
  <2>2. Min({a, b}) = IF a <= b THEN a ELSE b
        BY <2>1 DEF Min
  <2> QED BY <2>2 DEF a, b
<1> HIDE DEF end
<1>6. end \in 0..Len(list) /\ start <= end /\ (end < Len(list) => start < end)
      BY <1>1, <1>2, <1>3, <1>5
<1>7. items \in Seq(Entries) /\ Len(items) = end - start
      BY <1>1, <1>2, <1>6
<1>8. \A i \in 1..end - start : items[i] = list[start + i]
      BY <1>1, <1>2, <1>6
<1> HIDE DEF items
<1>9. ASSUME end < Len(list) PROVE Last(items).name = list[end].name
  <2>1. end - start \in 1..end - start /\ start + (end - start) = end
        BY <1>1, <1>2, <1>6, <1>9
  <2> QED BY <1>7, <1>8, <2>1 DEF Last
<1>10. page.rev = cat.rev /\ Holding(page, list, start, end)
       BY <1>1, <1>4, <1>6, <1>7, <1>8, <1>9 DEF Holding
<1> QED BY <1>6, <1>10 DEF start, page

\* What is true of the pages a terminal has had, besides their types.
PagedTyped ==
    /\ catalogue = [list |-> catalogue.list, rev |-> catalogue.rev]
    /\ Neat(catalogue.list) /\ catalogue.rev \in Nat
    /\ paging \in [on : BOOLEAN, cursor : Nat \cup {None}, items : Seq(Entries),
                   revs : SUBSET Nat, always : SUBSET Nat]
    /\ \A rev \in paging.revs : rev <= catalogue.rev
    /\ paging.on \/ paging = NotPaging

\* In order, and no further than the cursor; ...
UpToCursor ==
    /\ InOrderOfNames(paging.items)
    /\ paging.cursor # None => \A i \in DOMAIN paging.items : paging.items[i].name <= paging.cursor

\* ... whole up to the cursor; ...
WholeToCursor ==
    /\ paging.always \subseteq Names(catalogue.list)
    /\ \A name \in paging.always :
         paging.cursor = None \/ name <= paging.cursor => name \in Names(paging.items)

\* ... and, of one revision, the beginning of the list.
OneList ==
    /\ paging.revs # {}
    /\ paging.revs = {catalogue.rev} =>
         LET had == Len(paging.items)
         IN  /\ had <= Len(catalogue.list)
             /\ \A i \in 1..had : paging.items[i] = catalogue.list[i]
             /\ had = IF paging.cursor = None THEN Len(catalogue.list)
                      ELSE Start(catalogue.list, paging.cursor)

Paged == PagedTyped /\ UpToCursor /\ (paging.on => WholeToCursor /\ OneList)

LEMMA NotPagingTyped ==
    NotPaging \in [on : BOOLEAN, cursor : Nat \cup {None}, items : Seq(Entries),
                   revs : SUBSET Nat, always : SUBSET Nat]
BY DEF NotPaging

LEMMA Joined ==
    ASSUME NEW S, NEW s \in Seq(S), NEW t \in Seq(S), NEW n \in Nat, Len(t) = n
    PROVE  /\ s \o t \in Seq(S) /\ Len(s \o t) = Len(s) + n
           /\ \A i \in 1..Len(s) : (s \o t)[i] = s[i]
           /\ \A i \in 1..n : (s \o t)[Len(s) + i] = t[i]
<1>1. s \o t \in Seq(S) /\ Len(s \o t) = Len(s) + n
      BY ConcatProperties
<1>2. \A k \in 1..Len(s) + n : (s \o t)[k] = IF k <= Len(s) THEN s[k] ELSE t[k - Len(s)]
      BY ConcatProperties
<1>3. Len(s) \in Nat
      OBVIOUS
<1>4. ASSUME NEW i \in 1..Len(s) PROVE (s \o t)[i] = s[i]
  <2>1. i \in 1..Len(s) + n /\ i <= Len(s)
        BY <1>3
  <2> QED BY <1>2, <2>1
<1>5. ASSUME NEW i \in 1..n PROVE (s \o t)[Len(s) + i] = t[i]
  <2>1. Len(s) + i \in 1..Len(s) + n /\ ~(Len(s) + i <= Len(s)) /\ Len(s) + i - Len(s) = i
        BY <1>3
  <2> QED BY <1>2, <2>1
<1> QED BY <1>1, <1>4, <1>5

\* A page is had.
LEMMA AskPagePaged ==
    ASSUME Paged, AskPage
    PROVE  Paged'
<1> DEFINE list  == catalogue.list
           c     == paging.cursor
           items == paging.items
           start == Start(list, c)
           page  == Page(catalogue, c)
<1>1. /\ ~paging.on \/ c # None
      /\ catalogue' = catalogue
      /\ paging' = [on |-> TRUE, cursor |-> page.cursor, items |-> items \o page.items,
                    revs |-> paging.revs \cup {page.rev},
                    always |-> IF paging.on THEN paging.always ELSE Names(list)]
      BY DEF AskPage
<1>2. /\ Neat(list) /\ catalogue.rev \in Nat
      /\ catalogue = [list |-> catalogue.list, rev |-> catalogue.rev]
      /\ c = None \/ c \in Nat
      /\ items \in Seq(Entries) /\ paging.revs \subseteq Nat /\ paging.always \subseteq Nat
      /\ paging.on \in BOOLEAN
      /\ \A rev \in paging.revs : rev <= catalogue.rev
      BY DEF Paged, PagedTyped
<1>3. ~paging.on => c = None /\ items = <<>> /\ paging.revs = {}
      BY DEF Paged, PagedTyped, NotPaging
<1>4. /\ Len(list) \in Nat /\ DOMAIN list = 1..Len(list) /\ Names(list) \subseteq Nat
      /\ \A i \in DOMAIN list : list[i].name \in Nat /\ i \in Nat
      /\ InOrderOfNames(list) /\ list \in Seq(Entries)
      BY <1>2, NeatFacts DEF Neat
<1> DEFINE had == Len(items)
<1>5. had \in Nat /\ DOMAIN items = 1..had /\ \A i \in 1..had : items[i].name \in Nat
  <2>1. had \in Nat /\ DOMAIN items = 1..had /\ \A i \in 1..had : items[i] \in Entries
        BY <1>2
  <2> QED BY <2>1, EntriesNamed
<1>6. /\ start \in 0..Len(list)
      /\ c = None => start = 0
      /\ c # None => \A i \in DOMAIN list : list[i].name <= c <=> i <= start
      BY <1>2, StartFacts
<1>a. page.rev = catalogue.rev /\ \E end \in 0..Len(list) : Holding(page, list, start, end)
      BY <1>2, PageFacts
<1> HIDE DEF start, page
<1>7. PICK end \in 0..Len(list) :
        /\ start <= end
        /\ page.items \in Seq(Entries) /\ Len(page.items) = end - start
        /\ \A i \in 1..end - start : page.items[i] = list[start + i]
        /\ page.rev = catalogue.rev
        /\ end = Len(list) => page.cursor = None
        /\ end < Len(list) => start < end /\ page.cursor = list[end].name
      BY <1>a DEF Holding
<1> DEFINE all == items \o page.items
           n   == end - start
<1>8. /\ all \in Seq(Entries) /\ Len(all) = had + n /\ n \in Nat
      /\ \A i \in 1..had : all[i] = items[i]
      /\ \A i \in 1..n : all[had + i] = list[start + i]
  <2>1. n \in Nat /\ Len(page.items) = n
        BY <1>4, <1>6, <1>7
  <2> DEFINE more == page.items
  <2>2. items \in Seq(Entries) /\ more \in Seq(Entries) /\ Len(more) = n
        BY <1>2, <1>7, <2>1
  <2>3. \A i \in 1..n : more[i] = list[start + i]
        BY <1>7
  <2> HIDE DEF items, more, n
  <2>4. /\ items \o more \in Seq(Entries) /\ Len(items \o more) = had + n
        /\ \A i \in 1..had : (items \o more)[i] = items[i]
        /\ \A i \in 1..n : (items \o more)[had + i] = more[i]
        BY <2>1, <2>2, Joined
  <2>5. all = items \o more
        BY DEF more
  <2> QED BY <2>1, <2>3, <2>4, <2>5
<1>9. \A i \in 1..n : start + i \in DOMAIN list /\ start + i <= end /\ start < start + i
      BY <1>4, <1>6, <1>7, <1>8
<1>10. /\ paging'.on /\ paging'.cursor = page.cursor /\ paging'.items = all
       /\ paging'.revs = paging.revs \cup {catalogue.rev}
       /\ paging'.always = IF paging.on THEN paging.always ELSE Names(list)
       BY <1>1, <1>7
<1> HIDE DEF all, n, had, items
<1>11. /\ page.cursor = None => end = Len(list)
       /\ page.cursor # None => /\ page.cursor \in Nat /\ page.cursor = list[end].name
                                /\ end < Len(list)
  <2>1. CASE end = Len(list)
        BY <1>7, <2>1
  <2>2. CASE end # Len(list)
    <3>1. end < Len(list) /\ start < end
          BY <1>4, <1>7, <2>2
    <3>2. end \in DOMAIN list
          BY <1>4, <1>6, <3>1
    <3>3. page.cursor = list[end].name /\ page.cursor \in Nat
          BY <1>4, <1>7, <3>1, <3>2
    <3> QED BY <3>1, <3>3, DeliveryAssumption
  <2> QED BY <2>1, <2>2
<1>12. PagedTyped'
  <2>1. paging' \in [on : BOOLEAN, cursor : Nat \cup {None}, items : Seq(Entries),
                     revs : SUBSET Nat, always : SUBSET Nat]
        BY <1>1, <1>2, <1>4, <1>7, <1>8, <1>11 DEF all
  <2>2. \A rev \in paging'.revs : rev <= catalogue.rev
        BY <1>2, <1>10
  <2> QED BY <1>1, <1>2, <1>10, <2>1, <2>2 DEF PagedTyped
<1>13. ASSUME NEW i \in 1..had PROVE c # None /\ items[i].name <= c
  <2>1. paging.on
        BY <1>3, <1>5, <1>13 DEF had
  <2>2. c # None
        BY <1>1, <2>1
  <2> QED BY <1>5, <2>2 DEF Paged, UpToCursor, items
<1>14. \A i \in DOMAIN all : i \in 1..had \/ \E k \in 1..n : i = had + k
  <2>1. \A i \in 1..had + n : i \in 1..had \/ (i - had \in 1..n /\ i = had + (i - had))
        BY <1>5, <1>8
  <2>2. DOMAIN all = 1..had + n
        BY <1>8
  <2> QED BY <2>1, <2>2
<1>15. InOrderOfNames(all)
  <2> SUFFICES ASSUME NEW i \in DOMAIN all, NEW j \in DOMAIN all, i < j
               PROVE  all[i].name < all[j].name
      BY DEF InOrderOfNames
  <2>1. CASE i \in 1..had /\ j \in 1..had
    <3>1. items[i].name < items[j].name
          BY <1>5, <2>1 DEF Paged, UpToCursor, InOrderOfNames, items
    <3> QED BY <1>8, <2>1, <3>1
  <2>2. ASSUME i \in 1..had, NEW k \in 1..n, j = had + k PROVE all[i].name < all[j].name
    <3>1. c \in Nat /\ items[i].name <= c /\ items[i].name \in Nat
          BY <1>2, <1>5, <1>13, <2>2
    <3>2. ~(list[start + k].name <= c) /\ list[start + k].name \in Nat
      <4>1. start + k \in DOMAIN list /\ ~(start + k <= start)
            BY <1>4, <1>6, <1>9
      <4> QED BY <1>4, <1>6, <1>13, <2>2, <4>1
    <3>3. all[i] = items[i] /\ all[j] = list[start + k]
          BY <1>8, <2>2
    <3> QED BY <3>1, <3>2, <3>3
  <2>3. ASSUME NEW k \in 1..n, i = had + k, NEW l \in 1..n, j = had + l
        PROVE  all[i].name < all[j].name
    <3>1. start + k < start + l /\ start + k \in DOMAIN list /\ start + l \in DOMAIN list
      <4>1. k \in Nat /\ l \in Nat /\ k < l /\ start \in Nat
            BY <1>4, <1>5, <1>6, <1>8, <2>3
      <4> QED BY <1>9, <2>3, <4>1
    <3>2. list[start + k].name < list[start + l].name
          BY <1>4, <3>1 DEF InOrderOfNames
    <3>3. all[i] = list[start + k] /\ all[j] = list[start + l]
          BY <1>8, <2>3
    <3> QED BY <3>2, <3>3
  <2>4. ASSUME NEW k \in 1..n, i = had + k, j \in 1..had PROVE FALSE
        BY <1>5, <1>8, <2>4
  <2> QED BY <1>14, <2>1, <2>2, <2>3, <2>4
<1>16. ASSUME page.cursor # None, NEW i \in DOMAIN all PROVE all[i].name <= page.cursor
  <2>1. /\ end < Len(list) /\ start < end /\ end \in DOMAIN list
        /\ page.cursor = list[end].name /\ page.cursor \in Nat
        BY <1>4, <1>6, <1>7, <1>11, <1>16
  <2>2. ASSUME i \in 1..had PROVE all[i].name <= page.cursor
    <3>1. c \in Nat /\ items[i].name <= c /\ items[i].name \in Nat
          BY <1>2, <1>5, <1>13, <2>2
    <3>2. ~(list[end].name <= c)
          BY <1>4, <1>6, <1>13, <2>1, <2>2
    <3>3. all[i] = items[i]
          BY <1>8, <2>2
    <3> QED BY <2>1, <3>1, <3>2, <3>3
  <2>3. ASSUME NEW k \in 1..n, i = had + k PROVE all[i].name <= page.cursor
    <3>1. start + k \in DOMAIN list /\ start + k <= end
          BY <1>9
    <3>2. list[start + k].name <= list[end].name
      <4>1. start + k = end \/ list[start + k].name < list[end].name
            BY <1>4, <2>1, <3>1 DEF InOrderOfNames
      <4> QED BY <1>4, <2>1, <3>1, <4>1
    <3>3. all[i] = list[start + k]
          BY <1>8, <2>3
    <3> QED BY <2>1, <3>2, <3>3
  <2> QED BY <1>14, <2>2, <2>3
<1>17. UpToCursor'
       BY <1>10, <1>15, <1>16 DEF UpToCursor
<1>18. WholeToCursor'
  <2>1. paging'.always \subseteq Names(list)
        BY <1>10 DEF Paged, WholeToCursor
  <2>2. ASSUME NEW name \in paging'.always, page.cursor = None \/ name <= page.cursor
        PROVE  name \in Names(all)
    <3>1. PICK k \in DOMAIN list : list[k].name = name
          BY <2>1 DEF Names
    <3>2. CASE k <= start
      <4>1. c # None
            BY <1>4, <1>6, <3>1, <3>2
      <4>2. name <= c /\ paging.on
            BY <1>3, <1>6, <3>1, <3>2, <4>1
      <4>3. name \in Names(items)
            BY <1>10, <4>2 DEF Paged, WholeToCursor, items
      <4>4. PICK i \in 1..had : items[i].name = name
            BY <1>5, <4>3 DEF Names, had, items
      <4>5. i \in DOMAIN all /\ all[i].name = name
            BY <1>5, <1>8, <4>4
      <4> QED BY <4>5 DEF Names
    <3>3. CASE ~(k <= start)
      <4>1. k <= end
        <5>1. CASE page.cursor = None
          <6>1. end = Len(list)
                BY <1>11, <5>1
          <6> QED BY <1>4, <6>1
        <5>2. CASE page.cursor # None
          <6>1. end \in DOMAIN list /\ list[k].name <= list[end].name
                BY <1>4, <1>6, <1>7, <1>11, <2>2, <3>1, <5>2
          <6>2. end < k => list[end].name < list[k].name
                BY <1>4, <6>1 DEF InOrderOfNames
          <6> QED BY <1>4, <6>1, <6>2
        <5> QED BY <5>1, <5>2
      <4>2. k - start \in 1..n /\ start + (k - start) = k
            BY <1>4, <1>6, <1>7, <3>3, <4>1 DEF n
      <4>3. had + (k - start) \in DOMAIN all
            BY <1>5, <1>8, <4>2
      <4>4. all[had + (k - start)] = list[k]
            BY <1>8, <4>2
      <4> QED BY <3>1, <4>3, <4>4 DEF Names
    <3> QED BY <3>2, <3>3
  <2> QED BY <1>1, <1>10, <2>1, <2>2 DEF WholeToCursor
<1>19. OneList'
  <2>1. paging'.revs # {}
        BY <1>10
  <2> SUFFICES ASSUME paging'.revs = {catalogue.rev}
               PROVE  /\ Len(all) <= Len(list)
                      /\ \A i \in 1..Len(all) : all[i] = list[i]
                      /\ Len(all) = IF page.cursor = None THEN Len(list)
                                    ELSE Start(list, page.cursor)
      BY <1>1, <1>10, <2>1 DEF OneList
  <2>2. had = start /\ \A i \in 1..had : items[i] = list[i]
    <3>1. CASE ~paging.on
          BY <1>3, <1>5, <1>6, <3>1 DEF had, items
    <3>2. CASE paging.on
      <4>1. paging.revs # {} /\ paging.revs \subseteq {catalogue.rev}
            BY <1>10, <3>2 DEF Paged, OneList
      <4>2. paging.revs = {catalogue.rev}
            BY <4>1
      <4> QED BY <1>1, <3>2, <4>2 DEF Paged, OneList, had, items, start
    <3> QED BY <3>1, <3>2
  <2>3. Len(all) = end
        BY <1>4, <1>5, <1>6, <1>7, <1>8, <2>2 DEF n
  <2>4. \A i \in 1..Len(all) : all[i] = list[i]
    <3> SUFFICES ASSUME NEW i \in 1..Len(all) PROVE all[i] = list[i]
        OBVIOUS
    <3>1. i \in DOMAIN all
          BY <1>8
    <3> QED BY <1>8, <1>14, <2>2, <3>1
  <2>5. end = IF page.cursor = None THEN Len(list) ELSE Start(list, page.cursor)
    <3>1. CASE page.cursor = None
          BY <1>11, <3>1
    <3>2. CASE page.cursor # None
      <4> DEFINE next == Start(list, page.cursor)
      <4>1. /\ end < Len(list) /\ start < end /\ end \in DOMAIN list /\ end + 1 \in DOMAIN list
            /\ page.cursor = list[end].name /\ page.cursor \in Nat
            BY <1>4, <1>6, <1>7, <1>11, <3>2
      <4>2. /\ next \in 0..Len(list)
            /\ \A i \in DOMAIN list : list[i].name <= page.cursor <=> i <= next
            BY <1>2, <3>2, <4>1, StartFacts
      <4> HIDE DEF next
      <4>3. end <= next
            BY <1>4, <4>1, <4>2
      <4>4. list[end].name < list[end + 1].name
            BY <1>4, <4>1 DEF InOrderOfNames
      <4>5. ~(end + 1 <= next)
            BY <1>4, <4>1, <4>2, <4>4
      <4>6. end = next
            BY <1>4, <4>2, <4>3, <4>5
      <4> QED BY <3>2, <4>6 DEF next
    <3> QED BY <3>1, <3>2
  <2> QED BY <1>4, <2>3, <2>4, <2>5
<1> QED BY <1>12, <1>17, <1>18, <1>19 DEF Paged

\* The venue's list is read again.
LEMMA RefreshPaged ==
    ASSUME Paged, Refresh
    PROVE  Paged'
<1> PICK infos \in Lists :
        /\ catalogue' = Replace(catalogue, Instruments(infos))
        /\ paging' = [paging EXCEPT !.always = @ \cap Names(catalogue'.list)]
    BY DEF Refresh
<1>1. /\ Neat(catalogue.list) /\ catalogue.rev \in Nat
      /\ catalogue = [list |-> catalogue.list, rev |-> catalogue.rev]
      /\ paging \in [on : BOOLEAN, cursor : Nat \cup {None}, items : Seq(Entries),
                     revs : SUBSET Nat, always : SUBSET Nat]
      /\ \A rev \in paging.revs : rev <= catalogue.rev
      /\ paging.on \/ paging = NotPaging
      BY DEF Paged, PagedTyped
<1>2. /\ Neat(catalogue'.list) /\ catalogue'.rev \in Nat /\ catalogue.rev <= catalogue'.rev
      /\ catalogue'.rev = catalogue.rev => catalogue'.list = catalogue.list
      BY <1>1, ReplaceFacts
<1>3. catalogue' = [list |-> catalogue'.list, rev |-> catalogue'.rev]
      BY DEF Replace
<1>4. /\ paging'.on = paging.on /\ paging'.cursor = paging.cursor
      /\ paging'.items = paging.items /\ paging'.revs = paging.revs
      /\ paging'.always = paging.always \cap Names(catalogue'.list)
      /\ paging' \in [on : BOOLEAN, cursor : Nat \cup {None}, items : Seq(Entries),
                      revs : SUBSET Nat, always : SUBSET Nat]
      BY <1>1
<1>5. PagedTyped'
  <2>1. \A rev \in paging'.revs : rev <= catalogue'.rev
    <3>1. \A rev \in paging.revs : rev \in Nat /\ rev <= catalogue.rev
          BY <1>1
    <3> QED BY <1>1, <1>2, <1>4, <3>1
  <2>2. ASSUME ~paging.on PROVE paging' = NotPaging
    <3>1. paging = NotPaging /\ paging.always = {}
          BY <1>1, <2>2 DEF NotPaging
    <3> QED BY <3>1 DEF NotPaging
  <2> QED BY <1>2, <1>3, <1>4, <2>1, <2>2 DEF PagedTyped
<1>6. UpToCursor'
      BY <1>4 DEF Paged, UpToCursor
<1>7. ASSUME paging.on PROVE WholeToCursor'
      BY <1>4, <1>7 DEF Paged, WholeToCursor
<1>8. ASSUME paging.on PROVE OneList'
  <2>1. OneList
        BY <1>8 DEF Paged
  <2>2. ASSUME paging'.revs = {catalogue'.rev}
        PROVE  paging.revs = {catalogue.rev} /\ catalogue'.list = catalogue.list
    <3>1. catalogue'.rev <= catalogue.rev
          BY <1>1, <1>4, <2>2
    <3>2. catalogue'.rev = catalogue.rev
          BY <1>1, <1>2, <3>1
    <3> QED BY <1>2, <1>4, <2>2, <3>2
  <2> QED BY <1>4, <2>1, <2>2 DEF OneList
<1> QED BY <1>4, <1>5, <1>6, <1>7, <1>8 DEF Paged

\* A terminal that pages no more has nothing.
LEMMA NoPages ==
    ASSUME NEW cat, cat = [list |-> cat.list, rev |-> cat.rev], Neat(cat.list), cat.rev \in Nat,
           catalogue' = cat, paging' = NotPaging
    PROVE  Paged'
<1>1. PagedTyped'
      BY NotPagingTyped DEF PagedTyped, NotPaging
<1>2. UpToCursor' /\ ~paging'.on
      BY DEF UpToCursor, InOrderOfNames, NotPaging
<1> QED BY <1>1, <1>2 DEF Paged

LEMMA PagedInit == Init => Paged
<1> SUFFICES ASSUME Init PROVE Paged
    OBVIOUS
<1>1. PICK infos \in Lists : catalogue = [list |-> Listed(Instruments(infos)), rev |-> 1]
      BY DEF Init
<1>2. catalogue = [list |-> catalogue.list, rev |-> catalogue.rev] /\ catalogue.rev \in Nat
      BY <1>1
<1>3. Neat(catalogue.list)
      BY <1>1, ListedNeat
<1>4. paging = NotPaging
      BY DEF Init
<1>5. PagedTyped
      BY <1>2, <1>3, <1>4, NotPagingTyped DEF PagedTyped, NotPaging
<1>6. UpToCursor /\ ~paging.on
      BY <1>4 DEF UpToCursor, InOrderOfNames, NotPaging
<1> QED BY <1>5, <1>6 DEF Paged

LEMMA PagedNext == Paged /\ [Next]_vars => Paged'
<1> SUFFICES ASSUME Paged, [Next]_vars PROVE Paged'
    OBVIOUS
<1>1. CASE UNCHANGED <<catalogue, paging>>
      BY <1>1 DEF Paged, PagedTyped, UpToCursor, WholeToCursor, OneList
<1>2. CASE Refresh
      BY <1>2, RefreshPaged
<1>3. CASE AskPage
      BY <1>3, AskPagePaged
<1>4. CASE Reconnect \/ Restart
  <2>1. paging' = NotPaging /\ catalogue' \in {catalogue, [catalogue EXCEPT !.rev = 1]}
        BY <1>4 DEF Reconnect, Restart
  <2>2. /\ Neat(catalogue.list) /\ catalogue.rev \in Nat
        /\ catalogue = [list |-> catalogue.list, rev |-> catalogue.rev]
        BY DEF Paged, PagedTyped
  <2>3. /\ Neat(catalogue'.list) /\ catalogue'.rev \in Nat
        /\ catalogue' = [list |-> catalogue'.list, rev |-> catalogue'.rev]
        BY <2>1, <2>2
  <2> QED BY <2>1, <2>3, NoPages
<1>5. CASE Subscribe \/ Announce \/ Activate \/ Unsubscribe \/ Publish \/ Acknowledge
      BY <1>1, <1>5 DEF Subscribe, Announce, Activate, Unsubscribe, Publish, Acknowledge
<1>6. CASE Foreign \/ Expire \/ Tick \/ Receive \/ Name \/ Close \/ UNCHANGED vars
      BY <1>1, <1>6 DEF Foreign, Expire, Tick, Receive, Name, Close, vars
<1> QED BY <1>2, <1>3, <1>4, <1>5, <1>6 DEF Next

\* When the last page has been had, the pages hold every instrument that was listed all the
\* while, each once and in order, whatever was listed and delisted between them; and pages of
\* one revision are one list (catalogue.rs page and replace).
THEOREM AllPagesTrue == Spec => []PagesTrue
<1>1. Paged => PagesTrue
  <2> SUFFICES ASSUME Paged, paging.on, paging.cursor = None
               PROVE  /\ paging.always \subseteq Names(paging.items)
                      /\ \A i, j \in DOMAIN paging.items :
                           i < j => paging.items[i].name < paging.items[j].name
                      /\ paging.revs = {catalogue.rev} => paging.items = catalogue.list
      BY DEF PagesTrue
  <2>1. paging.always \subseteq Names(paging.items)
        BY DEF Paged, WholeToCursor
  <2>2. InOrderOfNames(paging.items)
        BY DEF Paged, UpToCursor
  <2>3. ASSUME paging.revs = {catalogue.rev} PROVE paging.items = catalogue.list
    <3>1. /\ Len(paging.items) = Len(catalogue.list)
          /\ \A i \in 1..Len(paging.items) : paging.items[i] = catalogue.list[i]
          BY <2>3 DEF Paged, OneList
    <3>2. paging.items \in Seq(Entries) /\ catalogue.list \in Seq(Entries)
          BY DEF Paged, PagedTyped, Neat
    <3> QED BY <3>1, <3>2
  <2> QED BY <2>1, <2>2, <2>3 DEF InOrderOfNames
<1> QED BY <1>1, PagedInit, PagedNext, PTL DEF Spec

=============================================================================
