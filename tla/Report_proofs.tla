---------------------------- MODULE Report_proofs -----------------------------
(***************************************************************************)
(* Proofs about Report for any requests, cluster updates and bounds.       *)
(*                                                                         *)
(* None of the properties is inductive.  A command is carried out once     *)
(* because a key that was carried out n times has left at least n times    *)
(* Window other keys behind by the time it is forgotten (Spaced); this is  *)
(* Commands, which the steps of the device keep by themselves.  The cloud  *)
(* is told because a setting that differs from the last report leaves a    *)
(* thread about to report, unless it was changed by a command that leaves  *)
(* the report to others (VolumeTold, ContextTold); Stations says where     *)
(* each thread can be meanwhile, and Merged what the snapshots hold that   *)
(* have been taken.  A queue has no track twice because the one a cluster  *)
(* update holds ready has none either.                                     *)
(*                                                                         *)
(* What Picked returns is proved by its least counterexample: the library  *)
(* has well-founded sets of finite sets, and 0 .. n is one for each n.     *)
(***************************************************************************)
EXTENDS Report, FiniteSetTheorems, SequenceTheorems, WellFoundedInduction, TLAPS

-----------------------------------------------------------------------------
(* The inductive invariant.                                                *)

\* How often r has been carried out.
Count(s, r) == Cardinality({i \in 1 .. Len(s) : s[i] = r})

\* A key that was carried out n times is forgotten only after Window others have come
\* since, and as many between each two times before.
Spaced(key, n) ==
  /\ ~Seen(key) => n * Window <= pushes - n
  /\ \A i \in 1 .. Len(recentKeys) :
       recentKeys[i] = key => (n - 1) * Window + (Len(recentKeys) - i) <= pushes - n

\* What has been carried out, against what is remembered of it.
Commands ==
  /\ served \in Seq(Requests) /\ pushes \in Nat
  /\ recentKeys \in Seq({r.key : r \in Requests}) /\ Len(recentKeys) <= Window
  /\ lastNumber \in [Senders -> Nat]
  /\ \A i, j \in 1 .. Len(served) :
       i < j /\ Ordered(served[i]) /\ served[j].sender = served[i].sender /\ Ordered(served[j])
         => served[i].number < served[j].number
  /\ \A i \in 1 .. Len(served) :
       Ordered(served[i]) => served[i].number <= lastNumber[served[i].sender]
  /\ \A r \in Members(served) : r.key # None => Spaced(r.key, Count(served, r))

Early == {"off", "starting", "failed"}

\* Where each thread can be, by how far start and stop are.
Stations ==
  /\ control \in Early => /\ doing["reader"].at = "none" /\ doing["worker"].at = "none"
                          /\ doing["resolver"].at = "idle"
  /\ control # "starting" => doing["starter"].at = "idle"
  /\ control = "starting" => /\ doing["starter"].at \in {"encode", "put"}
                             /\ doing["starter"].r.first
                             /\ doing["starter"].at = "put" => encoded.first
  /\ \A h \in Hosts : doing[h].at \in {"idle", "queue"}
  /\ doing["worker"].at \in {"none", "idle", "encode", "put", "gone"}
  /\ doing["resolver"].at \in {"idle", "encode", "put"}

\* No report is about a telling that is still to come.
Tellings ==
  /\ memory.n <= notes
  /\ \A t \in Threads : doing[t].r.n <= notes
  /\ \A i \in 1 .. Len(putQueue) : putQueue[i].n <= notes

\* The explicit queue has no track twice, and neither has the one that may replace it.
QueueOnce ==
  /\ IsInjectiveSeq(queue) /\ fromCloud \in Seq(Tracks)
  /\ doing["reader"].at = "echo" => IsInjectiveSeq(doing["reader"].r.queue)

\* A volume that has not been told is about to be.
VolumeTold ==
  control = "started" /\ ~encoded.first =>
    encoded.volume = Shown(volume) \/ doing["reader"].at = "encode"

\* So are options and a queue; only a report on a track has them.
Pending(t) == doing[t].at = "encode" /\ doing[t].r.track # None
Told ==
  /\ encoded.options = options
  /\ Suffix(queue, encoded.queue) \/ Suffix(queue, fromCloud)
ContextTold == at # 0 /\ ~silent => Told \/ Pending("reader") \/ Pending("resolver")

\* What a snapshot names as yet to come, against the queue it was made of.
Sound(r) == IsInjectiveSeq(r.next) /\ Advertises(r, r.queue)
Merged ==
  IsInjectiveSeq(List) =>
    /\ Sound(encoded)
    /\ \A t \in Threads : doing[t].at = "put" /\ doing[t].r.track # None => Sound(doing[t].r)

Settled ==
  TypeOK /\ Stations /\ Tellings /\ QueueOnce /\ VolumeTold /\ ContextTold /\ Merged
IInv == Commands /\ Settled

-----------------------------------------------------------------------------
(* Numbers and sequences.                                                  *)

\* A set of natural numbers has a least element: induction over data, by the least
\* counterexample.
LEMMA LeastNumber ==
  ASSUME NEW T \in SUBSET Nat, T # {}
  PROVE  \E x \in T : \A y \in T : x <= y
<1> DEFINE below == {0 .. k : k \in T}
<1>1. below \subseteq FiniteSubsetsOf(Nat)
  <2> SUFFICES ASSUME NEW k \in T PROVE 0 .. k \subseteq Nat /\ IsFiniteSet(0 .. k)
    BY DEF FiniteSubsetsOf
  <2> QED
    BY FS_Interval
<1>2. PICK X \in below : \A Y \in below : <<Y, X>> \notin StrictSubsetOrdering(Nat)
  <2>1. IsWellFoundedOn(StrictSubsetOrdering(Nat), FiniteSubsetsOf(Nat))
    BY FS_StrictSubsetOrderingWellFounded
  <2>2. below # {}
    OBVIOUS
  <2> HIDE DEF below
  <2> QED
    BY <1>1, <2>1, <2>2, WFMin
<1>3. PICK x \in T : X = 0 .. x
  OBVIOUS
<1> SUFFICES ASSUME NEW y \in T, y < x PROVE FALSE
  BY <1>3
<1>4. 0 .. y \subseteq 0 .. x /\ 0 .. y # 0 .. x /\ 0 .. y \subseteq Nat /\ 0 .. x \subseteq Nat
  OBVIOUS
<1>5. <<0 .. y, 0 .. x>> \in StrictSubsetOrdering(Nat)
  BY <1>4 DEF StrictSubsetOrdering
<1>6. 0 .. y \in below
  OBVIOUS
<1> QED
  BY <1>2, <1>3, <1>5, <1>6

\* The recursive function of Picked, over the first n places.
UpTo(g, s, I, n) ==
  [i \in 0 .. n |-> IF i = 0 THEN <<>>
                    ELSE IF i \in I THEN Append(g[i - 1], s[i]) ELSE g[i - 1]]

\* There is one.
LEMMA UpToExists ==
  ASSUME NEW s, NEW I, NEW n \in Nat
  PROVE  \E g : g = UpTo(g, s, I, n)
<1> DEFINE T == {m \in Nat : ~ \E g : g = UpTo(g, s, I, m)}
<1> SUFFICES ASSUME T # {} PROVE FALSE
  OBVIOUS
<1>1. PICK m \in T : \A y \in T : m <= y
  BY LeastNumber
<1>2. m # 0
  <2> SUFFICES [i \in 0 .. 0 |-> <<>>] = UpTo([i \in 0 .. 0 |-> <<>>], s, I, 0)
    BY <1>1
  <2> QED
    BY DEF UpTo
<1>3. m - 1 \in Nat /\ m - 1 \notin T
  BY <1>1, <1>2
<1>4. PICK g : g = UpTo(g, s, I, m - 1)
  BY <1>3
<1> DEFINE h == UpTo(g, s, I, m)
<1>5. \A i \in 0 .. m - 1 : h[i] = g[i]
  <2> TAKE i \in 0 .. m - 1
  <2>1. g[i] = UpTo(g, s, I, m - 1)[i]
    BY <1>4
  <2> QED
    BY <2>1 DEF UpTo
<1>6. \A i \in 0 .. m : UpTo(g, s, I, m)[i] = UpTo(h, s, I, m)[i]
  <2> TAKE i \in 0 .. m
  <2>1. i = 0 \/ i - 1 \in 0 .. m - 1
    OBVIOUS
  <2>2. i # 0 => h[i - 1] = g[i - 1]
    BY <1>5, <2>1
  <2> HIDE DEF h
  <2> QED
    BY <2>2 DEF UpTo
<1>7. h = UpTo(h, s, I, m)
  <2>1. h = [i \in 0 .. m |-> h[i]]
    BY DEF UpTo
  <2>2. UpTo(h, s, I, m) = [i \in 0 .. m |-> UpTo(h, s, I, m)[i]]
    BY DEF UpTo
  <2> QED
    BY <1>6, <2>1, <2>2
<1> QED
  BY <1>1, <1>7

\* p is what s has at the places of I up to i: e says where each element comes from.
Embeds(e, p, s, I, i) ==
  /\ e \in [1 .. Len(p) -> 1 .. i]
  /\ \A k, l \in 1 .. Len(p) : k < l => e[k] < e[l]
  /\ \A k \in 1 .. Len(p) : e[k] \in I /\ p[k] = s[e[k]]
  /\ \A j \in 1 .. i : j \in I => \E k \in 1 .. Len(p) : e[k] = j

\* One more place.
LEMMA EmbedsMore ==
  ASSUME NEW S, NEW s \in Seq(S), NEW I, NEW i \in 1 .. Len(s), NEW p \in Seq(S), NEW e,
         Embeds(e, p, s, I, i - 1)
  PROVE  LET q == IF i \in I THEN Append(p, s[i]) ELSE p
         IN q \in Seq(S) /\ \E f : Embeds(f, q, s, I, i)
<1>1. CASE i \notin I
  <2>1. Embeds(e, p, s, I, i)
    BY <1>1 DEF Embeds
  <2> QED
    BY <1>1, <2>1
<1>2. CASE i \in I
  <2> DEFINE q == Append(p, s[i])
             f == [k \in 1 .. Len(q) |-> IF k <= Len(p) THEN e[k] ELSE i]
  <2>1. /\ q \in Seq(S) /\ Len(q) = Len(p) + 1 /\ q[Len(p) + 1] = s[i]
        /\ \A k \in 1 .. Len(p) : q[k] = p[k]
    OBVIOUS
  <2>2. f \in [1 .. Len(q) -> 1 .. i]
    BY <2>1 DEF Embeds
  <2>3. \A k, l \in 1 .. Len(q) : k < l => f[k] < f[l]
    BY <2>1, SMTT(30) DEF Embeds
  <2>4. \A k \in 1 .. Len(q) : f[k] \in I /\ q[k] = s[f[k]]
    BY <1>2, <2>1 DEF Embeds
  <2>5. \A j \in 1 .. i : j \in I => \E k \in 1 .. Len(q) : f[k] = j
    <3> SUFFICES ASSUME NEW j \in 1 .. i, j \in I PROVE \E k \in 1 .. Len(q) : f[k] = j
      OBVIOUS
    <3>1. CASE j = i
      <4>1. Len(p) + 1 \in 1 .. Len(q) /\ f[Len(p) + 1] = i
        BY <2>1
      <4> QED
        BY <3>1, <4>1
    <3>2. CASE j # i
      <4>1. PICK k \in 1 .. Len(p) : e[k] = j
        BY <3>2 DEF Embeds
      <4> QED
        BY <2>1, <4>1
    <3> QED
      BY <3>1, <3>2
  <2>6. Embeds(f, q, s, I, i)
    <3> HIDE DEF f, q
    <3> QED
      BY <2>2, <2>3, <2>4, <2>5 DEF Embeds
  <2> QED
    BY <1>2, <2>1, <2>6
<1> QED
  BY <1>1, <1>2

\* What Picked returns.
LEMMA PickedIs ==
  ASSUME NEW S, NEW s \in Seq(S), NEW I
  PROVE  Picked(s, I) \in Seq(S) /\ \E e : Embeds(e, Picked(s, I), s, I, Len(s))
<1> DEFINE g == CHOOSE h : h = UpTo(h, s, I, Len(s))
<1>1. g = UpTo(g, s, I, Len(s))
  BY UpToExists
<1>2. Picked(s, I) = g[Len(s)]
  BY DEF Picked, UpTo
<1> HIDE DEF g
<1>3. \A i \in 0 .. Len(s) : g[i] = IF i = 0 THEN <<>>
                              ELSE IF i \in I THEN Append(g[i - 1], s[i]) ELSE g[i - 1]
  BY <1>1 DEF UpTo
<1> DEFINE Good(i) == g[i] \in Seq(S) /\ \E e : Embeds(e, g[i], s, I, i)
           T == {i \in 0 .. Len(s) : ~Good(i)}
<1>4. T \in SUBSET Nat /\ \A i \in 0 .. Len(s) : i \in T <=> ~Good(i)
  <2> HIDE DEF Good
  <2> QED
    OBVIOUS
<1> SUFFICES ASSUME T # {} PROVE FALSE
  BY <1>2, <1>4
<1> HIDE DEF T, Good
<1>5. PICK m \in T : \A y \in T : m <= y
  BY <1>4, LeastNumber
<1>6. m \in 0 .. Len(s) /\ ~Good(m)
  BY <1>4 DEF T
<1>7. m # 0
  <2>1. g[0] = <<>> /\ Len(<<>>) = 0
    BY <1>3
  <2>2. Embeds(<<>>, <<>>, s, I, 0)
    BY DEF Embeds
  <2>3. Good(0)
    BY <2>1, <2>2 DEF Good
  <2> QED
    BY <1>6, <2>3
<1>8. m \in 1 .. Len(s) /\ m - 1 \in 0 .. Len(s) /\ m - 1 \notin T
  BY <1>5, <1>6, <1>7
<1>9. g[m - 1] \in Seq(S) /\ \E e : Embeds(e, g[m - 1], s, I, m - 1)
  BY <1>4, <1>8 DEF Good
<1>10. g[m] = IF m \in I THEN Append(g[m - 1], s[m]) ELSE g[m - 1]
  BY <1>3, <1>8
<1>11. Good(m)
  <2>1. PICK e : Embeds(e, g[m - 1], s, I, m - 1)
    BY <1>9
  <2>2. LET q == IF m \in I THEN Append(g[m - 1], s[m]) ELSE g[m - 1]
        IN q \in Seq(S) /\ \E f : Embeds(f, q, s, I, m)
    BY <1>8, <1>9, <2>1, EmbedsMore
  <2> QED
    BY <1>10, <2>2 DEF Good
<1> QED
  BY <1>6, <1>11

\* Its elements, and when none comes twice.
LEMMA PickedHas ==
  ASSUME NEW S, NEW s \in Seq(S), NEW I
  PROVE  /\ Picked(s, I) \in Seq(S)
         /\ Members(Picked(s, I)) = {s[i] : i \in I \cap 1 .. Len(s)}
         /\ (\A i, j \in I \cap 1 .. Len(s) : s[i] = s[j] => i = j) =>
              IsInjectiveSeq(Picked(s, I))
<1> DEFINE p == Picked(s, I)
<1>1. p \in Seq(S)
  BY PickedIs
<1>2. PICK e : Embeds(e, p, s, I, Len(s))
  BY PickedIs
<1> HIDE DEF p
<1>3. \A k \in 1 .. Len(p) : e[k] \in I \cap 1 .. Len(s) /\ p[k] = s[e[k]]
  BY <1>2 DEF Embeds
<1>4. Members(p) = {s[i] : i \in I \cap 1 .. Len(s)}
  <2>1. ASSUME NEW x \in Members(p) PROVE x \in {s[i] : i \in I \cap 1 .. Len(s)}
    BY <1>3 DEF Members
  <2>2. ASSUME NEW i \in I \cap 1 .. Len(s) PROVE s[i] \in Members(p)
    BY <1>2, <1>3 DEF Embeds, Members
  <2> QED
    BY <2>1, <2>2
<1>5. ASSUME \A i, j \in I \cap 1 .. Len(s) : s[i] = s[j] => i = j
      PROVE  IsInjectiveSeq(p)
  <2> SUFFICES ASSUME NEW k \in 1 .. Len(p), NEW l \in 1 .. Len(p), p[k] = p[l] PROVE k = l
    BY DEF IsInjectiveSeq
  <2>1. e[k] = e[l] /\ e[k] \in 1 .. Len(s)
    BY <1>3, <1>5
  <2>2. ~(k < l) /\ ~(l < k)
    BY <1>2, <2>1 DEF Embeds
  <2> QED
    BY <1>1, <2>2
<1> QED
  BY <1>1, <1>4, <1>5 DEF p

\* A sequence is made of its members.
LEMMA MembersAre ==
  ASSUME NEW S, NEW s \in Seq(S)
  PROVE  /\ Members(s) \subseteq S
         /\ \A i \in 1 .. Len(s) : s[i] \in Members(s)
         /\ \A x \in Members(s) : \E i \in 1 .. Len(s) : s[i] = x
BY DEF Members

\* Distinct keeps every element once.
LEMMA DistinctOnce ==
  ASSUME NEW S, NEW s \in Seq(S)
  PROVE  /\ Distinct(s) \in Seq(S) /\ IsInjectiveSeq(Distinct(s))
         /\ Members(Distinct(s)) = Members(s)
<1> DEFINE I == {i \in 1 .. Len(s) : \A j \in 1 .. i - 1 : s[j] # s[i]}
<1>1. Distinct(s) = Picked(s, I)
  BY DEF Distinct
<1>2. \A i, j \in I \cap 1 .. Len(s) : s[i] = s[j] => i = j
  <2> SUFFICES ASSUME NEW i \in I, NEW j \in I, s[i] = s[j], i < j PROVE FALSE
    OBVIOUS
  <2> QED
    OBVIOUS
<1>3. ASSUME NEW k \in 1 .. Len(s) PROVE \E i \in I : s[i] = s[k]
  <2> DEFINE T == {i \in 1 .. Len(s) : s[i] = s[k]}
  <2>0. T \in SUBSET Nat /\ T # {}
    OBVIOUS
  <2>1. PICK i \in T : \A j \in T : i <= j
    <3> HIDE DEF T
    <3> QED
      BY <2>0, LeastNumber
  <2>2. \A j \in 1 .. i - 1 : s[j] # s[i]
    BY <2>1
  <2> QED
    BY <2>1, <2>2
<1> HIDE DEF I
<1>4. Members(Picked(s, I)) = {s[i] : i \in I \cap 1 .. Len(s)} /\ Picked(s, I) \in Seq(S)
      /\ IsInjectiveSeq(Picked(s, I))
  BY <1>2, PickedHas
<1>5. {s[i] : i \in I \cap 1 .. Len(s)} = Members(s)
  <2>1. \A i \in I \cap 1 .. Len(s) : s[i] \in Members(s)
    BY DEF Members
  <2>2. \A x \in Members(s) : \E i \in I \cap 1 .. Len(s) : s[i] = x
    BY <1>3 DEF Members, I
  <2> QED
    BY <2>1, <2>2
<1> QED
  BY <1>1, <1>4, <1>5

\* Without keeps every element but one.
LEMMA WithoutHas ==
  ASSUME NEW S, NEW s \in Seq(S), NEW x
  PROVE  Without(s, x) \in Seq(S) /\ Members(Without(s, x)) = Members(s) \ {x}
<1> DEFINE I == {i \in 1 .. Len(s) : s[i] # x}
<1>1. Without(s, x) = Picked(s, I)
  BY DEF Without
<1>2. Picked(s, I) \in Seq(S) /\ Members(Picked(s, I)) = {s[i] : i \in I \cap 1 .. Len(s)}
  <2> HIDE DEF I
  <2> QED
    BY PickedHas
<1> QED
  BY <1>1, <1>2 DEF Members

\* A capped sequence is no longer than the limit and has nothing new.
LEMMA CappedOnce ==
  ASSUME NEW S, NEW s \in Seq(S), IsInjectiveSeq(s)
  PROVE  Capped(s) \in Seq(S) /\ IsInjectiveSeq(Capped(s))
<1>1. PICK n \in 0 .. Len(s) : Capped(s) = SubSeq(s, 1, n)
  BY ReportAssumption DEF Capped
<1>2. /\ SubSeq(s, 1, n) \in Seq(S) /\ Len(SubSeq(s, 1, n)) = n
      /\ \A i \in 1 .. n : SubSeq(s, 1, n)[i] = s[i]
  OBVIOUS
<1> QED
  BY <1>1, <1>2, SMTT(30) DEF IsInjectiveSeq

\* What add_to_queue, set_queue and cluster updates collect has no track twice.
LEMMA CollectedOnce ==
  ASSUME NEW items \in Items
  PROVE  /\ CollectTracks(items) \in Seq(ItemTracks) /\ IsInjectiveSeq(CollectTracks(items))
         /\ CollectSetQueue(items) \in Seq(ItemTracks)
         /\ IsInjectiveSeq(CollectSetQueue(items))
         /\ CollectExplicit(items) \in Seq(ItemTracks)
         /\ IsInjectiveSeq(CollectExplicit(items))
<1>1. ASSUME NEW more \in Items PROVE Uris(more) \in Seq(ItemTracks)
  <2>0. PICK S : S = [uri : ItemTracks, queued : BOOLEAN]
    OBVIOUS
  <2>1. Len(more) \in Nat /\ \A i \in 1 .. Len(more) : more[i] \in S
    <3>1. more \in Seq(S)
      BY <2>0 DEF Items
    <3> QED
      BY <3>1
  <2>2. \A i \in 1 .. Len(more) : more[i].uri \in ItemTracks
    BY <2>0, <2>1
  <2> QED
    BY <2>1, <2>2 DEF Uris
<1>2. Queued(items) \in Items
  <2> DEFINE I == {i \in 1 .. Len(items) : items[i].queued}
  <2>1. Queued(items) = Picked(items, I)
    BY DEF Queued
  <2> HIDE DEF I
  <2> QED
    BY <2>1, PickedHas DEF Items
<1>3. Uris(items) \in Seq(ItemTracks) /\ Uris(Queued(items)) \in Seq(ItemTracks)
  BY <1>1, <1>2
<1>4. /\ Distinct(Uris(items)) \in Seq(ItemTracks)
      /\ IsInjectiveSeq(Distinct(Uris(items)))
      /\ Distinct(Uris(Queued(items))) \in Seq(ItemTracks)
      /\ IsInjectiveSeq(Distinct(Uris(Queued(items))))
  BY <1>3, DistinctOnce
<1> QED
  BY <1>4, CappedOnce DEF CollectTracks, CollectSetQueue, CollectExplicit

\* Two sequences without repetitions and without common members make another.
LEMMA JoinedOnce ==
  ASSUME NEW S, NEW s \in Seq(S), NEW t \in Seq(S), IsInjectiveSeq(s), IsInjectiveSeq(t),
         Members(s) \cap Members(t) = {}
  PROVE  s \o t \in Seq(S) /\ IsInjectiveSeq(s \o t)
<1>1. /\ s \o t \in Seq(S) /\ Len(s \o t) = Len(s) + Len(t)
      /\ \A i \in 1 .. Len(s) + Len(t) :
           (s \o t)[i] = IF i <= Len(s) THEN s[i] ELSE t[i - Len(s)]
  OBVIOUS
<1> SUFFICES ASSUME NEW i \in 1 .. Len(s) + Len(t), NEW j \in 1 .. Len(s) + Len(t),
                    (s \o t)[i] = (s \o t)[j], i < j
             PROVE  FALSE
  BY <1>1 DEF IsInjectiveSeq
<1>2. CASE j <= Len(s)
  BY <1>1, <1>2 DEF IsInjectiveSeq
<1>3. CASE i > Len(s)
  <2>1. i - Len(s) \in 1 .. Len(t) /\ j - Len(s) \in 1 .. Len(t)
    BY <1>3
  <2> QED
    BY <1>1, <1>3, <2>1 DEF IsInjectiveSeq
<1>4. CASE i <= Len(s) /\ j > Len(s)
  <2>1. s[i] \in Members(s) /\ t[j - Len(s)] \in Members(t)
    BY <1>4, MembersAre
  <2> QED
    BY <1>1, <1>4, <2>1
<1> QED
  BY <1>2, <1>3, <1>4

\* A queue stays one without repetitions when tracks are added.
LEMMA AddedOnce ==
  ASSUME queue \in Seq(Tracks), IsInjectiveSeq(queue), NEW tracks \in Seq(Tracks),
         IsInjectiveSeq(tracks)
  PROVE  Added(tracks) \in Seq(Tracks) /\ IsInjectiveSeq(Added(tracks))
<1> DEFINE I == {i \in 1 .. Len(tracks) : tracks[i] \notin Members(queue)}
<1>1. Added(tracks) = queue \o Picked(tracks, I)
  BY DEF Added
<1>2. \A i, j \in I \cap 1 .. Len(tracks) : tracks[i] = tracks[j] => i = j
  BY DEF IsInjectiveSeq
<1>3. {tracks[i] : i \in I \cap 1 .. Len(tracks)} \cap Members(queue) = {}
  OBVIOUS
<1> HIDE DEF I
<1>4. /\ Picked(tracks, I) \in Seq(Tracks) /\ IsInjectiveSeq(Picked(tracks, I))
      /\ Members(queue) \cap Members(Picked(tracks, I)) = {}
  BY <1>2, <1>3, PickedHas
<1> QED
  BY <1>1, <1>4, JoinedOnce

\* So does one whose head is taken.
LEMMA TailOnce ==
  ASSUME NEW S, NEW s \in Seq(S), s # <<>>, IsInjectiveSeq(s)
  PROVE  Tail(s) \in Seq(S) /\ IsInjectiveSeq(Tail(s))
<1>1. /\ Tail(s) \in Seq(S) /\ Len(Tail(s)) = Len(s) - 1
      /\ \A i \in 1 .. Len(s) - 1 : Tail(s)[i] = s[i + 1]
  OBVIOUS
<1> QED
  BY <1>1 DEF IsInjectiveSeq

\* A sequence without repetitions has as many members as elements.
LEMMA OnceSize ==
  ASSUME NEW S, NEW s \in Seq(S), IsInjectiveSeq(s)
  PROVE  IsFiniteSet(Members(s)) /\ Cardinality(Members(s)) = Len(s)
<1>1. s \in Bijection(1 .. Len(s), Members(s))
  <2>1. s \in [1 .. Len(s) -> Members(s)]
    BY DEF Members
  <2> QED
    BY DEF IsInjectiveSeq, Members, Bijection, Injection, Surjection, IsInjective
<1>2. IsFiniteSet(1 .. Len(s)) /\ Cardinality(1 .. Len(s)) = Len(s)
  <2>1. Len(s) \in Nat
    OBVIOUS
  <2>2. Cardinality(1 .. Len(s)) = IF 1 > Len(s) THEN 0 ELSE Len(s) - 1 + 1
    BY <2>1, FS_Interval
  <2> QED
    BY <2>1, <2>2, FS_Interval, SMTT(30)
<1>3. ExistsBijection(1 .. Len(s), Members(s))
  BY <1>1 DEF ExistsBijection
<1> QED
  BY <1>2, <1>3, FS_Bijection

\* What is advertised beside the track of a report.
LEMMA AdvertisedCovers ==
  ASSUME queue \in Seq(Tracks), IsInjectiveSeq(List), at \in 0 .. Len(List), NEW track
  PROVE  /\ Advertised(track) \in Seq(Tracks) /\ IsInjectiveSeq(Advertised(track))
         /\ \/ track \in Members(Advertised(track))
            \/ Members(queue) \ {track} \subseteq Members(Advertised(track))
<1> DEFINE merged == Distinct(Without(queue \o Upcoming, track))
<1>1. List \in Seq(Tracks) /\ Len(List) \in Nat
  <2>1. List \in Seq(Members(List)) /\ Members(List) \subseteq Tracks
    BY ReportAssumption DEF Tracks
  <2> QED
    BY <2>1
<1>2. Upcoming \in Seq(Tracks) /\ IsInjectiveSeq(Upcoming)
  <2>1. CASE at = 0
    BY <2>1 DEF Upcoming, IsInjectiveSeq
  <2>2. CASE at # 0
    <3>1. /\ Upcoming \in Seq(Tracks) /\ Len(Upcoming) = Len(List) - at
          /\ \A i \in 1 .. Len(List) - at : Upcoming[i] = List[at + i]
      BY <1>1, <2>2 DEF Upcoming
    <3> SUFFICES ASSUME NEW i \in 1 .. Len(List) - at, NEW j \in 1 .. Len(List) - at,
                        Upcoming[i] = Upcoming[j]
                 PROVE  i = j
      BY <3>1 DEF IsInjectiveSeq
    <3>2. List[at + i] = List[at + j] /\ at + i \in 1 .. Len(List) /\ at + j \in 1 .. Len(List)
      BY <1>1, <3>1
    <3>3. at + i = at + j
      BY <3>2 DEF IsInjectiveSeq
    <3> QED
      BY <3>3
  <2> QED
    BY <2>1, <2>2
<1>4. /\ queue \o Upcoming \in Seq(Tracks)
      /\ Members(queue \o Upcoming) = Members(queue) \cup Members(Upcoming)
  <2>1. /\ queue \o Upcoming \in Seq(Tracks)
        /\ Len(queue \o Upcoming) = Len(queue) + Len(Upcoming)
        /\ \A i \in 1 .. Len(queue) + Len(Upcoming) :
             (queue \o Upcoming)[i] = IF i <= Len(queue) THEN queue[i]
                                      ELSE Upcoming[i - Len(queue)]
    <3> HIDE DEF merged
    <3>1. Upcoming \in Seq(Tracks)
      BY <1>2
    <3> QED
      BY <3>1
  <2>2. ASSUME NEW x \in Members(queue) PROVE x \in Members(queue \o Upcoming)
    BY <1>2, <2>1 DEF Members
  <2>3. ASSUME NEW x \in Members(Upcoming) PROVE x \in Members(queue \o Upcoming)
    <3>1. PICK i \in 1 .. Len(Upcoming) : Upcoming[i] = x
      BY DEF Members
    <3>2. /\ Len(queue) + i \in 1 .. Len(queue) + Len(Upcoming)
          /\ (queue \o Upcoming)[Len(queue) + i] = x
      BY <1>2, <2>1, <3>1
    <3> QED
      BY <2>1, <3>2 DEF Members
  <2>4. ASSUME NEW x \in Members(queue \o Upcoming)
        PROVE  x \in Members(queue) \cup Members(Upcoming)
    <3>1. PICK i \in 1 .. Len(queue) + Len(Upcoming) : (queue \o Upcoming)[i] = x
      BY <2>1 DEF Members
    <3>2. CASE i <= Len(queue)
      BY <2>1, <3>1, <3>2 DEF Members
    <3>3. CASE i > Len(queue)
      <4>1. i - Len(queue) \in 1 .. Len(Upcoming) /\ x = Upcoming[i - Len(queue)]
        BY <1>2, <2>1, <3>1, <3>3
      <4> QED
        BY <4>1 DEF Members
    <3> QED
      BY <3>2, <3>3
  <2> QED
    BY <2>1, <2>2, <2>3, <2>4
<1>5. /\ Without(queue \o Upcoming, track) \in Seq(Tracks)
      /\ Members(Without(queue \o Upcoming, track)) =
           (Members(queue) \cup Members(Upcoming)) \ {track}
  <2>1. PICK s : s = queue \o Upcoming
    OBVIOUS
  <2>2. s \in Seq(Tracks)
    BY <1>4, <2>1
  <2>3. /\ Without(s, track) \in Seq(Tracks)
        /\ Members(Without(s, track)) = Members(s) \ {track}
    BY <2>2, WithoutHas
  <2> QED
    BY <1>4, <2>1, <2>3
<1>6. /\ merged \in Seq(Tracks) /\ IsInjectiveSeq(merged)
      /\ Members(merged) = (Members(queue) \cup Members(Upcoming)) \ {track}
  BY <1>5, DistinctOnce
<1>7. Advertised(track) =
        IF queue = <<>> \/ Len(merged) = Len(Upcoming) THEN Upcoming ELSE merged
  BY DEF Advertised
<1> HIDE DEF merged
<1>8. CASE queue = <<>>
  BY <1>2, <1>7, <1>8 DEF Members
<1>9. CASE queue # <<>> /\ Len(merged) = Len(Upcoming)
  <2>1. Advertised(track) = Upcoming
    BY <1>7, <1>9
  <2>2. CASE track \notin Members(Upcoming)
    <3>1. /\ IsFiniteSet(Members(merged)) /\ Members(Upcoming) \subseteq Members(merged)
          /\ Cardinality(Members(merged)) = Len(merged)
          /\ Cardinality(Members(Upcoming)) = Len(Upcoming)
      BY <1>2, <1>6, <2>2, OnceSize
    <3>2. Members(Upcoming) = Members(merged)
      BY <1>9, <3>1, FS_Subset
    <3> QED
      BY <1>2, <1>6, <2>1, <3>2
  <2> QED
    BY <1>2, <2>1, <2>2
<1>10. CASE queue # <<>> /\ Len(merged) # Len(Upcoming)
  BY <1>6, <1>7, <1>10
<1> QED
  BY <1>8, <1>9, <1>10

-----------------------------------------------------------------------------
(* The commands and what is remembered of them.                            *)

\* Products of numbers.
LEMMA Products ==
  ASSUME NEW n \in Nat
  PROVE  /\ Window \in Nat \ {0} /\ n * Window \in Nat /\ (n - 1) * Window = n * Window - Window
         /\ (n + 1 - 1) * Window = n * Window
BY ReportAssumption

\* How often an element comes in a sequence, and in one that is longer by one.
LEMMA CountMore ==
  ASSUME NEW S, NEW s \in Seq(S), NEW r \in S, NEW x
  PROVE  /\ Count(s, x) \in Nat
         /\ x \notin Members(s) => Count(s, x) = 0
         /\ Count(Append(s, r), x) = IF x = r THEN Count(s, x) + 1 ELSE Count(s, x)
<1> DEFINE I == {i \in 1 .. Len(s) : s[i] = x}
           J == {i \in 1 .. Len(Append(s, r)) : Append(s, r)[i] = x}
<1>1. IsFiniteSet(I)
  <2>1. IsFiniteSet(1 .. Len(s))
    BY FS_Interval
  <2>2. I \in SUBSET (1 .. Len(s))
    OBVIOUS
  <2> HIDE DEF I
  <2> QED
    BY <2>1, <2>2, FS_Subset
<1>2. /\ Len(Append(s, r)) = Len(s) + 1 /\ Append(s, r)[Len(s) + 1] = r
      /\ \A i \in 1 .. Len(s) : Append(s, r)[i] = s[i]
  OBVIOUS
<1>3. J = (IF x = r THEN I \cup {Len(s) + 1} ELSE I) /\ Len(s) + 1 \notin I
  BY <1>2
<1>4. x \notin Members(s) => I = {}
  BY DEF Members
<1>5. Count(s, x) = Cardinality(I) /\ Count(Append(s, r), x) = Cardinality(J)
  BY DEF Count
<1> HIDE DEF I, J
<1>6. Cardinality(I) \in Nat /\ Cardinality(I \cup {Len(s) + 1}) = Cardinality(I) + 1
  BY <1>1, <1>3, FS_CardinalityType, FS_AddElement
<1> QED
  BY <1>3, <1>4, <1>5, <1>6, FS_EmptySet

\* A key that is remembered takes the last place; the first goes when it is full.
LEMMA Remembered ==
  ASSUME Commands, NEW key \in {r.key : r \in Requests}, key # None, RememberKey(key)
  PROVE  LET n == Len(recentKeys)
         IN /\ n \in Nat /\ pushes' = pushes + 1
            /\ recentKeys' \in Seq({r.key : r \in Requests})
            /\ \/ /\ n = Window /\ Len(recentKeys') = n /\ recentKeys'[n] = key
                  /\ \A i \in 1 .. n - 1 : recentKeys'[i] = recentKeys[i + 1]
               \/ /\ n < Window /\ Len(recentKeys') = n + 1 /\ recentKeys'[n + 1] = key
                  /\ \A i \in 1 .. n : recentKeys'[i] = recentKeys[i]
<1> DEFINE S == {r.key : r \in Requests}
           n == Len(recentKeys)
           all == Append(recentKeys, key)
<1>1. recentKeys \in Seq(S) /\ key \in S /\ n <= Window /\ n \in Nat
  BY DEF Commands
<1> HIDE DEF S
<1>2. /\ all \in Seq(S) /\ Len(all) = n + 1 /\ all[n + 1] = key
      /\ \A i \in 1 .. n : all[i] = recentKeys[i]
  BY <1>1
<1>3. /\ recentKeys' = SubSeq(all, IF Len(all) > Window THEN 2 ELSE 1, Len(all))
      /\ pushes' = pushes + 1
  BY DEF RememberKey
<1>4. Window \in Nat \ {0}
  BY ReportAssumption
<1> HIDE DEF all, n
<1>5. CASE n = Window
  <2>1. recentKeys' = SubSeq(all, 2, n + 1)
    BY <1>1, <1>2, <1>3, <1>5
  <2>2. /\ recentKeys' \in Seq(S) /\ Len(recentKeys') = n
        /\ \A i \in 1 .. n : recentKeys'[i] = all[i + 1]
    BY <1>1, <1>2, <2>1
  <2>3. n \in 1 .. n /\ \A i \in 1 .. n - 1 : i + 1 \in 1 .. n /\ i \in 1 .. n
    BY <1>1, <1>4, <1>5
  <2> QED
    BY <1>2, <1>3, <1>5, <2>2, <2>3 DEF n, S
<1>6. CASE n < Window
  <2>1. recentKeys' = SubSeq(all, 1, n + 1)
    BY <1>1, <1>2, <1>3, <1>4, <1>6
  <2>2. recentKeys' = all
    BY <1>2, <2>1
  <2> QED
    BY <1>1, <1>2, <1>3, <1>6, <2>2 DEF n, S
<1> QED
  BY <1>1, <1>4, <1>5, <1>6

\* What is remembered keeps its type and its bound.
LEMMA PushTypes ==
  ASSUME Commands, NEW key \in {r.key : r \in Requests}, key # None, RememberKey(key)
  PROVE  /\ pushes' \in Nat /\ recentKeys' \in Seq({r.key : r \in Requests})
         /\ Len(recentKeys') <= Window
<1>1. /\ pushes' = pushes + 1 /\ pushes \in Nat /\ Window \in Nat
      /\ recentKeys' \in Seq({r.key : r \in Requests})
  BY Remembered, ReportAssumption DEF Commands
<1>2. /\ Len(recentKeys) \in Nat
      /\ \/ Len(recentKeys) = Window /\ Len(recentKeys') = Len(recentKeys)
         \/ Len(recentKeys) < Window /\ Len(recentKeys') = Len(recentKeys) + 1
  BY Remembered
<1> QED
  BY <1>1, <1>2

\* A key that is new moves every other one step on.
LEMMA PushSpaces ==
  ASSUME Commands, NEW key \in {r.key : r \in Requests}, key # None, RememberKey(key),
         ~Seen(key), NEW other, other # None, NEW n \in Nat, Spaced(other, n)
  PROVE  Spaced(other, n)'
<1> DEFINE m == Len(recentKeys)
<1>1. /\ m \in Nat /\ pushes' = pushes + 1 /\ pushes \in Nat
      /\ \/ /\ m = Window /\ Len(recentKeys') = m /\ recentKeys'[m] = key
            /\ \A i \in 1 .. m - 1 : recentKeys'[i] = recentKeys[i + 1]
         \/ /\ m < Window /\ Len(recentKeys') = m + 1 /\ recentKeys'[m + 1] = key
            /\ \A i \in 1 .. m : recentKeys'[i] = recentKeys[i]
  BY Remembered DEF Commands
<1>2. PICK p : /\ p = n * Window /\ p \in Nat /\ (n - 1) * Window = p - Window
               /\ Window \in Nat \ {0}
  BY Products
<1>3. \A i \in 1 .. m : recentKeys[i] # key
  BY DEF Seen
<1>4. /\ ~(\E i \in 1 .. m : recentKeys[i] = other) => p <= pushes - n
      /\ \A i \in 1 .. m : recentKeys[i] = other => p - Window + (m - i) <= pushes - n
  BY <1>2 DEF Spaced, Seen
<1>5. ASSUME ~(\E i \in 1 .. Len(recentKeys') : recentKeys'[i] = other)
      PROVE  p <= pushes' - n
  <2>1. CASE \E i \in 1 .. m : recentKeys[i] = other
    <3>1. PICK i \in 1 .. m : recentKeys[i] = other
      BY <2>1
    <3>2. m = Window /\ i = 1
      <4>1. CASE m < Window /\ Len(recentKeys') = m + 1 /\ recentKeys'[i] = recentKeys[i]
        BY <1>1, <1>5, <3>1, <4>1
      <4>2. CASE m = Window /\ i # 1
        <5>1. i - 1 \in 1 .. m - 1 /\ i - 1 \in 1 .. m /\ (i - 1) + 1 = i
          BY <1>1, <4>2
        <5>2. recentKeys'[i - 1] = recentKeys[i] /\ Len(recentKeys') = m
          BY <1>1, <4>2, <5>1
        <5> QED
          BY <1>5, <3>1, <5>1, <5>2
      <4> QED
        BY <1>1, <4>1, <4>2
    <3> QED
      BY <1>1, <1>2, <1>4, <3>1, <3>2
  <2>2. CASE ~ \E i \in 1 .. m : recentKeys[i] = other
    BY <1>1, <1>2, <1>4, <2>2
  <2> QED
    BY <2>1, <2>2
<1>6. ASSUME NEW i \in 1 .. Len(recentKeys'), recentKeys'[i] = other
      PROVE  p - Window + (Len(recentKeys') - i) <= pushes' - n
  <2>1. CASE other = key
    <3>1. p <= pushes - n
      BY <1>3, <1>4, <2>1
    <3>2. i = Len(recentKeys')
      <4>1. CASE m = Window /\ Len(recentKeys') = m /\ i # m
        <5>1. i \in 1 .. m - 1 /\ i + 1 \in 1 .. m
          BY <1>1, <4>1
        <5> QED
          BY <1>1, <1>3, <1>6, <2>1
      <4>2. CASE m < Window /\ Len(recentKeys') = m + 1 /\ i # m + 1
        <5>1. i \in 1 .. m
          BY <1>1, <4>2
        <5> QED
          BY <1>1, <1>3, <1>6, <2>1
      <4> QED
        BY <1>1, <4>1, <4>2
    <3> QED
      BY <1>1, <1>2, <3>1, <3>2
  <2>2. CASE other # key /\ m = Window /\ Len(recentKeys') = m /\ recentKeys'[m] = key
    <3>1. i \in 1 .. m - 1 /\ i + 1 \in 1 .. m
      BY <1>1, <1>6, <2>2
    <3>2. recentKeys[i + 1] = other
      BY <1>1, <1>6, <2>2, <3>1
    <3>3. p - Window + (m - (i + 1)) <= pushes - n
      BY <1>4, <3>1, <3>2
    <3> QED
      BY <1>1, <1>2, <2>2, <3>3
  <2>3. CASE other # key /\ m < Window /\ Len(recentKeys') = m + 1 /\ recentKeys'[m + 1] = key
    <3>1. i \in 1 .. m
      BY <1>1, <1>6, <2>3
    <3>2. recentKeys[i] = other
      BY <1>1, <1>6, <2>3, <3>1
    <3>3. p - Window + (m - i) <= pushes - n
      BY <1>4, <3>1, <3>2
    <3> QED
      BY <1>1, <1>2, <3>3
  <2> QED
    BY <1>1, <2>1, <2>2, <2>3
<1> QED
  BY <1>2, <1>5, <1>6 DEF Spaced, Seen

\* A key that is new is carried out once more.
LEMMA PushCounts ==
  ASSUME Commands, NEW key \in {r.key : r \in Requests}, key # None, RememberKey(key),
         ~Seen(key), NEW n \in Nat, n * Window <= pushes - n
  PROVE  Spaced(key, n + 1)'
<1> DEFINE m == Len(recentKeys)
<1>1. /\ m \in Nat /\ pushes' = pushes + 1 /\ pushes \in Nat
      /\ \/ /\ m = Window /\ Len(recentKeys') = m /\ recentKeys'[m] = key
            /\ \A i \in 1 .. m - 1 : recentKeys'[i] = recentKeys[i + 1]
         \/ /\ m < Window /\ Len(recentKeys') = m + 1 /\ recentKeys'[m + 1] = key
            /\ \A i \in 1 .. m : recentKeys'[i] = recentKeys[i]
  BY Remembered DEF Commands
<1>2. PICK p : p = n * Window /\ p \in Nat /\ (n + 1 - 1) * Window = p /\ Window \in Nat \ {0}
  BY Products
<1>3. \A i \in 1 .. m : recentKeys[i] # key
  BY DEF Seen
<1>4. \E i \in 1 .. Len(recentKeys') : recentKeys'[i] = key
  <2>1. Len(recentKeys') \in 1 .. Len(recentKeys')
    BY <1>1, <1>2
  <2> QED
    BY <1>1, <2>1
<1>5. ASSUME NEW i \in 1 .. Len(recentKeys'), recentKeys'[i] = key
      PROVE  i = Len(recentKeys')
  <2>1. CASE m = Window /\ Len(recentKeys') = m /\ i # m
    <3>1. i \in 1 .. m - 1 /\ i + 1 \in 1 .. m
      BY <1>1, <2>1
    <3>2. recentKeys'[i] = recentKeys[i + 1]
      BY <1>1, <2>1, <3>1
    <3> QED
      BY <1>3, <1>5, <3>1, <3>2
  <2>2. CASE m < Window /\ Len(recentKeys') = m + 1 /\ i # m + 1
    <3>1. i \in 1 .. m
      BY <1>1, <2>2
    <3>2. recentKeys'[i] = recentKeys[i]
      BY <1>1, <2>2, <3>1
    <3> QED
      BY <1>3, <1>5, <3>1, <3>2
  <2> QED
    BY <1>1, <2>1, <2>2
<1>6. Seen(key)'
  BY <1>4 DEF Seen
<1>7. \A i \in 1 .. Len(recentKeys') :
        recentKeys'[i] = key => p + (Len(recentKeys') - i) <= pushes' - (n + 1)
  BY <1>1, <1>2, <1>5
<1> QED
  BY <1>2, <1>6, <1>7 DEF Spaced

\* A command that was seen, or whose number was, changes at most what is remembered.
LEMMA IgnoreKeeps ==
  ASSUME Commands, NEW r \in Requests, Ignore(r)
  PROVE  Commands'
<1>1. served' = served /\ lastNumber' = lastNumber
  BY DEF Ignore
<1>2. CASE UNCHANGED <<recentKeys, pushes>>
  BY <1>1, <1>2 DEF Commands, Spaced, Seen
<1>3. CASE r.key # None /\ ~Seen(r.key) /\ RememberKey(r.key)
  <2>1. r.key \in {x.key : x \in Requests}
    OBVIOUS
  <2>2. /\ pushes' \in Nat /\ recentKeys' \in Seq({x.key : x \in Requests})
        /\ Len(recentKeys') <= Window
    BY <1>3, <2>1, PushTypes
  <2>3. ASSUME NEW x \in Members(served), x.key # None
        PROVE  Spaced(x.key, Count(served, x))'
    <3>1. Count(served, x) \in Nat /\ Spaced(x.key, Count(served, x))
      BY <2>3, CountMore DEF Commands
    <3>2. PICK n \in Nat : n = Count(served, x)
      BY <3>1
    <3>3. Spaced(x.key, n)'
      BY <1>3, <2>3, <3>1, <3>2, PushSpaces
    <3> QED
      BY <1>1, <3>2, <3>3
  <2> QED
    BY <1>1, <2>2, <2>3 DEF Commands
<1> QED
  BY <1>2, <1>3 DEF Ignore, RememberKey

\* A command that is carried out is the newest of its sender, and its key is new.
LEMMA AcceptKeeps ==
  ASSUME Commands, NEW r \in Requests, Accept(r)
  PROVE  Commands'
<1>1. /\ served' = Append(served, r) /\ ~Seen(r.key) /\ ~Stale(r) /\ RememberKey(r.key)
      /\ lastNumber' = IF Ordered(r) THEN [lastNumber EXCEPT ![r.sender] = r.number]
                       ELSE lastNumber
  BY DEF Accept
<1> DEFINE n == Len(served)
<1>2. /\ served \in Seq(Requests) /\ n \in Nat /\ lastNumber \in [Senders -> Nat]
      /\ r.sender \in Senders /\ r.number \in Nat
  BY ReportAssumption DEF Commands, Senders
<1>3. /\ served' \in Seq(Requests) /\ Len(served') = n + 1 /\ served'[n + 1] = r
      /\ \A i \in 1 .. n : served'[i] = served[i]
  BY <1>1, <1>2
<1>4. lastNumber' \in [Senders -> Nat]
  BY <1>1, <1>2
<1>5. \A i \in 1 .. n : served[i].sender \in Senders /\ served[i].number \in Nat
  <2>1. \A i \in 1 .. n : served[i] \in Requests
    BY <1>2
  <2> QED
    BY <2>1, ReportAssumption DEF Senders
<1>6. \A s \in Senders :
        lastNumber'[s] = IF Ordered(r) /\ s = r.sender THEN r.number ELSE lastNumber[s]
  BY <1>1, <1>2
<1>7. Ordered(r) => r.number > lastNumber[r.sender]
  BY <1>1, <1>2 DEF Stale
<1> HIDE DEF n
<1>8. \A i \in 1 .. n : Ordered(served[i]) => served[i].number <= lastNumber[served[i].sender]
  BY DEF Commands, n
<1>9. ASSUME NEW i \in 1 .. n + 1, NEW j \in 1 .. n + 1, i < j, Ordered(served'[i]),
             served'[j].sender = served'[i].sender, Ordered(served'[j])
      PROVE  served'[i].number < served'[j].number
  <2>1. i \in 1 .. n /\ served'[i] = served[i]
    BY <1>2, <1>3, <1>9
  <2>2. CASE j \in 1 .. n
    <3>1. served'[j] = served[j]
      BY <1>3, <2>2
    <3> QED
      BY <1>9, <2>1, <2>2, <3>1 DEF Commands, n
  <2>3. CASE j = n + 1
    <3>1. served'[j] = r
      BY <1>3, <2>3
    <3>2. served[i].number <= lastNumber[r.sender] /\ r.number > lastNumber[r.sender]
      BY <1>7, <1>8, <1>9, <2>1, <3>1
    <3>3. served[i].number \in Nat /\ lastNumber[r.sender] \in Nat /\ r.number \in Nat
      BY <1>2, <1>5, <2>1
    <3> QED
      BY <2>1, <3>1, <3>2, <3>3
  <2> QED
    BY <1>2, <2>2, <2>3
<1>10. ASSUME NEW i \in 1 .. n + 1, Ordered(served'[i])
       PROVE  served'[i].number <= lastNumber'[served'[i].sender]
  <2>1. CASE i \in 1 .. n
    <3>1. served'[i] = served[i] /\ served[i].number \in Nat /\ served[i].sender \in Senders
      BY <1>3, <1>5, <2>1
    <3>2. served[i].number <= lastNumber[served[i].sender]
      BY <1>8, <1>10, <2>1, <3>1
    <3>3. CASE Ordered(r) /\ served[i].sender = r.sender
      <4>1. lastNumber[r.sender] \in Nat /\ r.number > lastNumber[r.sender]
        BY <1>2, <1>7, <3>3
      <4> QED
        BY <1>2, <1>6, <3>1, <3>2, <4>1
    <3>4. CASE ~(Ordered(r) /\ served[i].sender = r.sender)
      BY <1>6, <3>1, <3>2, <3>4
    <3> QED
      BY <3>3, <3>4
  <2>2. CASE i = n + 1
    BY <1>2, <1>3, <1>6, <1>10, <2>2
  <2> QED
    BY <1>2, <2>1, <2>2
<1>11. /\ pushes' \in Nat /\ recentKeys' \in Seq({x.key : x \in Requests})
       /\ Len(recentKeys') <= Window
  <2>1. CASE r.key = None
    BY <1>1, <2>1 DEF RememberKey, Commands
  <2>2. CASE r.key # None
    BY <1>1, <2>2, PushTypes
  <2> QED
    BY <2>1, <2>2
<1>12. ASSUME NEW x \in Members(served'), x.key # None
       PROVE  Spaced(x.key, Count(served, x))'
  <2>1. /\ Count(served, x) \in Nat /\ (x \notin Members(served) => Count(served, x) = 0)
        /\ x \in Members(served) => Spaced(x.key, Count(served, x))
    BY <1>2, <1>12, CountMore DEF Commands
  <2>2. x = r \/ x \in Members(served)
    <3>1. PICK i \in 1 .. n + 1 : served'[i] = x
      BY <1>3, <1>12 DEF Members
    <3>2. CASE i \in 1 .. n
      BY <1>3 DEF Members, n
    <3>3. CASE i = n + 1
      BY <1>3, <3>1, <3>3
    <3> QED
      BY <1>2, <3>2, <3>3
  <2>3. PICK c \in Nat : c = Count(served, x)
    BY <2>1
  <2>0. PICK d \in Nat : d = Count(served', x) /\ d = IF x = r THEN c + 1 ELSE c
    BY <1>1, <1>2, <2>3, CountMore
  <2>4. CASE x = r
    <3>1. c * Window <= pushes - c
      <4>1. CASE x \in Members(served)
        BY <1>1, <2>1, <2>3, <2>4, <4>1 DEF Spaced
      <4>2. CASE x \notin Members(served)
        <5>1. c = 0 /\ pushes \in Nat /\ Window \in Nat
          BY <2>1, <2>3, <4>2, ReportAssumption DEF Commands
        <5> QED
          BY <5>1
      <4> QED
        BY <4>1, <4>2
    <3>2. Spaced(x.key, c + 1)'
      BY <1>1, <1>12, <2>4, <3>1, PushCounts
    <3>3. d = c + 1
      BY <2>0, <2>4
    <3>4. Spaced(x.key, d)'
      BY <3>2, <3>3
    <3> QED
      BY <2>0, <3>4
  <2>5. CASE x # r
    <3>1. Spaced(x.key, c)
      BY <2>1, <2>2, <2>3, <2>5
    <3>2. Spaced(x.key, c)'
      <4>1. CASE r.key = None
        BY <1>1, <3>1, <4>1 DEF RememberKey, Spaced, Seen
      <4>2. CASE r.key # None
        BY <1>1, <1>12, <3>1, <4>2, PushSpaces
      <4> QED
        BY <4>1, <4>2
    <3>3. d = c
      BY <2>0, <2>5
    <3>4. Spaced(x.key, d)'
      BY <3>2, <3>3
    <3> QED
      BY <2>0, <3>4
  <2> QED
    BY <2>4, <2>5
<1> QED
  BY <1>3, <1>4, <1>9, <1>10, <1>11, <1>12 DEF Commands

\* Every other step leaves the commands alone.
LEMMA CommandsKeep ==
  ASSUME Commands, UNCHANGED commandVars
  PROVE  Commands'
BY DEF commandVars, Commands, Spaced, Seen

\* The commands after any step.
LEMMA CommandsNext ==
  ASSUME Commands, [Next]_vars
  PROVE  Commands'
<1>1. CASE UNCHANGED commandVars
  BY <1>1, CommandsKeep
<1>2. CASE HandleRequest
  <2>1. PICK r \in Requests : Ignore(r) \/ Accept(r)
    BY <1>2 DEF HandleRequest, SetVolume, AddToQueue, SetQueue, SetOptions, SkipNext, SkipPrev,
                PauseResumeSeek, PlayTransfer, Unhandled
  <2> QED
    BY <2>1, IgnoreKeeps, AcceptKeeps
<1>3. CASE HandleMessage
  BY <1>3, <1>1 DEF HandleMessage, VolumeMessage, ClusterCompare, ClusterReplace
<1>4. CASE Connect \/ ConnectFails \/ Started \/ Refused \/ StopClose \/ Stop
  BY <1>4, <1>1 DEF Connect, ConnectFails, Started, Refused, StopClose, Stop, StopJoin,
    StopClear,
                    StopEnd, StopUnchanged
<1>5. ASSUME NEW t \in Threads, Encode(t) \/ Put(t) \/ QueuePut(t) \/ Notify(t)
      PROVE  UNCHANGED commandVars
  BY <1>5 DEF Encode, Put, QueuePut, Notify
<1>6. CASE WorkerTake \/ WorkerEnd \/ Lost \/ ReaderEnd
  BY <1>6, <1>1 DEF WorkerTake, WorkerEnd, Lost, ReaderEnd, WorkerUnchanged
<1>7. CASE RestoreContext \/ Resolve \/ PlayerAdvance \/ ClearContext
  BY <1>7, <1>1 DEF RestoreContext, Resolve, PlayerAdvance, ClearContext, ElseUnchanged
<1>8. CASE UNCHANGED vars
  BY <1>8, <1>1 DEF vars
<1> QED
  BY <1>1, <1>2, <1>3, <1>4, <1>5, <1>6, <1>7, <1>8 DEF Next, Threads

\* What Commands says is that no command is carried out twice.
LEMMA CommandsAreOnce ==
  ASSUME Commands
  PROVE  CommandsOnce
<1>1. ASSUME NEW r \in {served[i] : i \in 1 .. Len(served)}, r.key # None
      PROVE  (Count(served, r) - 1) * Window <= pushes - Count(served, r)
  <2>1. r \in Members(served)
    BY DEF Members
  <2>2. Spaced(r.key, Count(served, r)) /\ pushes \in Nat
    BY <1>1, <2>1 DEF Commands
  <2>3. PICK n \in Nat : n = Count(served, r)
    <3>1. served \in Seq(Requests) /\ r \in Requests
      BY DEF Commands
    <3> QED
      BY <3>1, CountMore
  <2>4. PICK p : p = n * Window /\ p \in Nat /\ (n - 1) * Window = p - Window /\ Window \in Nat
    BY Products
  <2>5. CASE Seen(r.key)
    <3>1. PICK i \in 1 .. Len(recentKeys) : recentKeys[i] = r.key
      BY <2>5 DEF Seen
    <3>2. (n - 1) * Window + (Len(recentKeys) - i) <= pushes - n
      BY <2>2, <2>3, <3>1 DEF Spaced
    <3>3. Len(recentKeys) \in Nat
      BY DEF Commands
    <3>4. p - Window + (Len(recentKeys) - i) <= pushes - n
      BY <2>4, <3>2
    <3>5. p - Window <= pushes - n
      BY <2>2, <2>4, <3>3, <3>4
    <3> QED
      BY <2>3, <2>4, <3>5
  <2>6. CASE ~Seen(r.key)
    <3>1. p <= pushes - n
      BY <2>2, <2>3, <2>4, <2>6 DEF Spaced
    <3> QED
      BY <2>2, <2>3, <2>4, <3>1
  <2> QED
    BY <2>5, <2>6
<1> QED
  BY <1>1 DEF Commands, CommandsOnce, Count

-----------------------------------------------------------------------------
(* Reports and the threads that hold them.                                 *)

Steps == {"none", "idle", "echo", "queue", "encode", "put", "gone"}
Hand == [at : Steps, r : Reports]

\* The types of a report.
LEMMA ReportFields ==
  ASSUME NEW r \in Reports
  PROVE  /\ r.n \in 0 .. MaxNotes
         /\ r.track \in Tracks \cup {None} \cup {c.active : c \in Clusters}
         /\ r.first \in BOOLEAN /\ r.volume \in 0 .. MaxVolume /\ r.options \in BOOLEAN
         /\ r.queue \in Seq(Tracks) /\ r.next \in Seq(Tracks)
         /\ r = [n |-> r.n, track |-> r.track, first |-> r.first, volume |-> r.volume,
                 options |-> r.options, queue |-> r.queue, next |-> r.next]
BY DEF Reports

\* A thread at rest holds a blank report.
LEMMA IdleHand ==
  /\ Idle \in Hand /\ Idle.at = "idle" /\ Idle.r.n = 0 /\ Blank \in Reports
<1>1. 0 \in 0 .. MaxVolume /\ <<>> \in Seq(Tracks) /\ 0 \in 0 .. MaxNotes
  BY ReportAssumption
<1>2. Blank \in Reports /\ Blank.n = 0
  BY <1>1 DEF Blank, Reports
<1> QED
  BY <1>2 DEF Idle, Hand, Steps

\* A blank report with a telling and a track is a report.
Note(n, track) == [Blank EXCEPT !.n = n, !.track = track]

\* Its parts.
LEMMA NoteIs ==
  ASSUME NEW n \in 0 .. MaxNotes, NEW track \in Tracks \cup {None}
  PROVE  /\ Note(n, track) \in Reports /\ Note(n, track).n = n
         /\ Note(n, track).track = track /\ Note(n, track).first = FALSE
<1>1. PICK r : r = [Blank EXCEPT !.n = n, !.track = track]
  OBVIOUS
<1>2. r \in Reports
  <2>1. PICK T : T = Tracks \cup {None} \cup {c.active : c \in Clusters}
    OBVIOUS
  <2>2. track \in T
    BY <2>1
  <2> QED
    BY <1>1, <2>1, <2>2, IdleHand DEF Reports
<1>3. r.n = n /\ r.track = track /\ r.first = FALSE
  BY <1>1 DEF Blank
<1> QED
  BY <1>1, <1>2, <1>3 DEF Note

\* One thread moves.
LEMMA DoingIs ==
  ASSUME TypeOK, NEW t \in Threads, NEW x \in Hand, doing' = [doing EXCEPT ![t] = x]
  PROVE  /\ doing' \in [Threads -> Hand] /\ doing'[t] = x
         /\ \A u \in Threads \ {t} : doing'[u] = doing[u]
BY DEF TypeOK, Hand, Steps

\* What a thread has in hand.
LEMMA HandIs ==
  ASSUME TypeOK, NEW t \in Threads
  PROVE  /\ doing \in [Threads -> Hand] /\ doing[t] \in Hand /\ doing[t].r \in Reports
         /\ doing[t].at \in Steps
<1>1. doing \in [Threads -> Hand]
  BY DEF TypeOK, Hand, Steps
<1>2. doing[t] \in Hand
  BY <1>1
<1> QED
  BY <1>1, <1>2 DEF Hand

\* The threads of the device are none of the hosts.
LEMMA OwnThreads ==
  /\ "starter" \in Threads /\ "reader" \in Threads /\ "resolver" \in Threads
  /\ "worker" \in Threads /\ Hosts \subseteq Threads
  /\ \A h \in Hosts : h \notin {"starter", "reader", "resolver", "worker"}
BY ReportAssumption DEF Threads, Own

\* What is known of a track is a telling that has been.
LEMMA KnownIs ==
  ASSUME IInv, NEW track
  PROVE  Known(track) \in 0 .. MaxNotes /\ Known(track) <= notes /\ notes \in 0 .. MaxNotes
<1>1. memory.n \in 0 .. MaxNotes /\ memory.n <= notes /\ notes \in 0 .. MaxNotes
  BY DEF IInv, Settled, TypeOK, Tellings
<1>2. Known(track) = memory.n \/ Known(track) = 0
  BY DEF Known
<1> QED
  BY <1>1, <1>2, ReportAssumption

\* A thread that is about to report on a track.
LEMMA AboutIs ==
  ASSUME IInv, NEW t \in Threads, NEW track \in Tracks \cup {None}, About(t, track)
  PROVE  \E x \in Hand : /\ doing' = [doing EXCEPT ![t] = x]
                         /\ x.at = "encode" /\ x.r.track = track /\ x.r.first = FALSE
                         /\ x.r.n <= notes
<1> DEFINE r == Note(Known(track), track)
<1>1. r \in Reports /\ r.n = Known(track) /\ r.track = track /\ r.first = FALSE
  BY KnownIs, NoteIs
<1>2. doing' = [doing EXCEPT ![t] = [at |-> "encode", r |-> r]]
  BY DEF About, Note
<1> HIDE DEF r
<1>3. [at |-> "encode", r |-> r] \in Hand
  BY <1>1 DEF Hand, Steps
<1> QED
  BY <1>1, <1>2, <1>3, KnownIs

\* The current track is one of the list, or there is none.
LEMMA CurrentIs ==
  ASSUME IInv
  PROVE  /\ Current \in Tracks \cup {None} /\ at \in 0 .. Len(List) /\ Len(List) \in Nat
         /\ at # 0 => Current # None
         /\ \A i \in 1 .. Len(List) : List[i] \in Tracks /\ List[i] # None
<1>1. at \in 0 .. Len(List) /\ Len(List) \in Nat
  BY ReportAssumption DEF IInv, Settled, TypeOK
<1>2. \A i \in 1 .. Len(List) : List[i] \in Members(List) /\ List[i] # None
  BY ReportAssumption DEF Members
<1>3. \A i \in 1 .. Len(List) : List[i] \in Tracks
  BY <1>2 DEF Tracks
<1>4. CASE at = 0
  BY <1>2, <1>3, <1>4 DEF Current
<1>5. CASE at # 0
  <2>1. at \in 1 .. Len(List) /\ Current = List[at]
    BY <1>1, <1>5 DEF Current
  <2> QED
    BY <1>1, <1>2, <1>3, <2>1
<1> QED
  BY <1>4, <1>5

\* A queue whose head is taken is still the end of what it was the end of.
LEMMA SuffixTail ==
  ASSUME NEW S, NEW s \in Seq(S), NEW t \in Seq(S), s # <<>>, Suffix(s, t)
  PROVE  Suffix(Tail(s), t)
<1> DEFINE n == Len(s)
           m == Len(t)
<1>1. n \in Nat /\ m \in Nat /\ n > 0 /\ n <= m /\ s = SubSeq(t, m - n + 1, m)
  BY DEF Suffix
<1>2. /\ Tail(s) \in Seq(S) /\ Len(Tail(s)) = n - 1
      /\ \A i \in 1 .. n - 1 : Tail(s)[i] = s[i + 1]
  OBVIOUS
<1>3. \A i \in 1 .. n : s[i] = t[m - n + i]
  <2>1. \A i \in 1 .. m - (m - n + 1) + 1 :
          SubSeq(t, m - n + 1, m)[i] = t[(m - n + 1) + i - 1]
    BY <1>1
  <2>2. \A i \in 1 .. n : s[i] = SubSeq(t, m - n + 1, m)[i] /\ i \in 1 .. m - (m - n + 1) + 1
    BY <1>1
  <2>3. \A i \in 1 .. n : (m - n + 1) + i - 1 = m - n + i
    BY <1>1
  <2> HIDE DEF n, m
  <2> QED
    BY <2>1, <2>2, <2>3
<1> DEFINE u == SubSeq(t, m - (n - 1) + 1, m)
<1>4. u \in Seq(S) /\ Len(u) = n - 1 /\ \A i \in 1 .. n - 1 : u[i] = t[m - (n - 1) + i]
  <2>1. m - (n - 1) + 1 \in 1 .. m + 1
    BY <1>1
  <2> QED
    BY <1>1, <2>1
<1> HIDE DEF u, n, m
<1>5. \A i \in 1 .. n - 1 : Tail(s)[i] = u[i]
  <2> TAKE i \in 1 .. n - 1
  <2>1. i + 1 \in 1 .. n /\ m - n + (i + 1) = m - (n - 1) + i
    BY <1>1
  <2> QED
    BY <1>2, <1>3, <1>4, <2>1
<1>6. Tail(s) = u
  <2>1. PICK v \in Seq(S) : v = Tail(s)
    BY <1>2
  <2>2. Len(v) = Len(u) /\ Len(v) = n - 1
    BY <1>2, <1>4, <2>1
  <2>3. \A i \in 1 .. Len(v) : v[i] = u[i]
    BY <1>5, <2>1, <2>2
  <2> QED
    BY <1>4, <2>1, <2>2, <2>3, SeqEqual
<1> QED
  BY DEF Suffix

\* The end of a sequence has no other members.
LEMMA SuffixMembers ==
  ASSUME NEW S, NEW s \in Seq(S), NEW t \in Seq(S), Suffix(s, t)
  PROVE  Members(s) \subseteq Members(t)
<1> DEFINE n == Len(s)
           m == Len(t)
<1>1. n \in Nat /\ m \in Nat /\ n <= m /\ s = SubSeq(t, m - n + 1, m)
  BY DEF Suffix
<1>2. \A i \in 1 .. m - (m - n + 1) + 1 :
        SubSeq(t, m - n + 1, m)[i] = t[(m - n + 1) + i - 1]
  BY <1>1
<1>3. ASSUME NEW i \in 1 .. n PROVE s[i] \in Members(t)
  <2>1. i \in 1 .. m - (m - n + 1) + 1 /\ (m - n + 1) + i - 1 \in 1 .. m
    BY <1>1
  <2>2. s[i] = t[(m - n + 1) + i - 1]
    BY <1>1, <1>2, <2>1
  <2> QED
    BY <2>1, <2>2 DEF Members
<1> QED
  BY <1>3 DEF Members

\* A sequence is its own end.
LEMMA SuffixSelf ==
  ASSUME NEW S, NEW s \in Seq(S)
  PROVE  Suffix(s, s)
<1>1. SubSeq(s, 1, Len(s)) = s
  OBVIOUS
<1> QED
  BY <1>1 DEF Suffix

-----------------------------------------------------------------------------
(* What the steps have in common.                                          *)

\* What the invariant says, in one place.
LEMMA SettledParts ==
  ASSUME IInv
  PROVE  /\ TypeOK /\ Stations /\ Tellings /\ QueueOnce /\ VolumeTold /\ ContextTold
         /\ Merged /\ Commands
BY DEF IInv, Settled

\* A change of settings: the reader or the resolver may be about to report it, and must
\* be if it is the volume, the options, or a queue that is no end of the last one, unless
\* what is done to the context is silent.
LEMMA Changed ==
  ASSUME IInv, Commands', NEW t \in {"reader", "resolver"},
         UNCHANGED <<control, putStop, putQueue, memory, encoded, newest, sent, notes>>,
         wsOpen' \in BOOLEAN, volume' \in 0 .. MaxVolume, isActive' \in BOOLEAN,
         at' \in 0 .. Len(List), options' \in BOOLEAN, queue' \in Seq(Tracks),
         silent' \in BOOLEAN, inputs' \in 0 .. MaxEvents, IsInjectiveSeq(queue'),
         fromCloud' = fromCloud,
         \/ doing' = doing
         \/ /\ doing[t].at = "idle" /\ control \notin Early
            /\ \E x \in Hand : /\ doing' = [doing EXCEPT ![t] = x]
                               /\ x.at = "encode" /\ x.r.n <= notes,
         volume' = volume \/ doing'["reader"].at = "encode",
         at' # 0 /\ ~silent' =>
                    \/ /\ at # 0 /\ ~silent /\ options' = options
                       /\ queue' = queue \/ (queue # <<>> /\ queue' = Tail(queue))
                    \/ Pending(t)'
  PROVE  Settled'
<1> USE SettledParts
<1>1. t \in Threads /\ t # "starter" /\ t # "worker" /\ t \notin Hosts
  BY OwnThreads
<1>2. PICK d : d = doing'
  OBVIOUS
<1>3. \/ d = doing
      \/ /\ doing[t].at = "idle" /\ control \notin Early
         /\ \E x \in Hand : d = [doing EXCEPT ![t] = x] /\ x.at = "encode" /\ x.r.n <= notes
  BY <1>2
<1>4. /\ d \in [Threads -> Hand] /\ \A u \in Threads \ {t} : d[u] = doing[u]
      /\ \/ d[t] = doing[t]
         \/ /\ doing[t].at = "idle" /\ control \notin Early
            /\ d[t].at = "encode" /\ d[t].r.n <= notes
  <2>1. doing \in [Threads -> Hand]
    BY <1>1, HandIs
  <2> QED
    BY <1>1, <1>3, <2>1
<1>5. TypeOK'
  BY <1>2, <1>4 DEF TypeOK, Commands, Hand, Steps
<1>6. Stations'
  BY <1>2, <1>4, OwnThreads DEF Stations
<1>7. Tellings'
  BY <1>1, <1>2, <1>4 DEF Tellings
<1>8. QueueOnce'
  BY <1>2, <1>4, OwnThreads DEF QueueOnce
<1>9. VolumeTold'
  BY <1>2, <1>4, OwnThreads DEF VolumeTold
<1>10. ContextTold'
  <2> SUFFICES ASSUME at' # 0, ~silent' PROVE (Told \/ Pending("reader") \/ Pending("resolver"))'
    BY DEF ContextTold
  <2>1. CASE Pending(t)'
    BY <2>1
  <2>2. CASE ~Pending(t)'
    <3>1. at # 0 /\ ~silent /\ options' = options
      BY <2>2
    <3>2. queue' = queue \/ (queue # <<>> /\ queue' = Tail(queue))
      BY <2>2
    <3>3. Told \/ Pending("reader") \/ Pending("resolver")
      BY <3>1 DEF ContextTold
    <3>4. Pending("reader") => Pending("reader")'
      BY <1>2, <1>4, OwnThreads DEF Pending
    <3>5. Pending("resolver") => Pending("resolver")'
      BY <1>2, <1>4, OwnThreads DEF Pending
    <3>6. Told => Told'
      <4> HAVE Told
      <4>1. encoded.queue \in Seq(Tracks) /\ fromCloud \in Seq(Tracks) /\ queue \in Seq(Tracks)
        BY ReportFields DEF TypeOK, QueueOnce
      <4>2. CASE queue' = queue
        BY <3>1, <4>2 DEF Told, Suffix
      <4>3. CASE queue # <<>> /\ queue' = Tail(queue)
        <5>1. Suffix(Tail(queue), encoded.queue) \/ Suffix(Tail(queue), fromCloud)
          BY <4>1, <4>3, SuffixTail DEF Told
        <5> QED
          BY <3>1, <4>3, <5>1 DEF Told
      <4> QED
        BY <3>2, <4>2, <4>3
    <3> QED
      BY <3>3, <3>4, <3>5, <3>6
  <2> QED
    BY <2>1, <2>2
<1>11. Merged'
  BY <1>2, <1>4 DEF Merged
<1> QED
  BY <1>5, <1>6, <1>7, <1>8, <1>9, <1>10, <1>11 DEF Settled

\* The context may be another one, but then silently.
Entered ==
  /\ at' \in 0 .. Len(List) /\ options' \in BOOLEAN /\ silent' \in BOOLEAN /\ queue' = queue
  /\ at' # 0 /\ ~silent' => at # 0 /\ ~silent /\ options' = options

\* A thread that is not about to report of its own moves, and nothing else does but
\* the tellings, and the context if it is silent.
LEMMA Moved ==
  ASSUME IInv, Commands', NEW t \in Threads \ {"starter"}, NEW x \in Hand,
         doing' = [doing EXCEPT ![t] = x],
         t \in Hosts => x.at \in {"idle", "queue"},
         t = "worker" => doing[t].at # "none" /\ x.at \in {"idle", "encode", "gone"},
         t = "reader" => doing[t].at \notin {"none", "encode"},
         t = "resolver" => doing[t].at = "put" /\ x.at = "idle",
         t = "reader" /\ x.at = "echo" => IsInjectiveSeq(x.r.queue),
         x.at # "put", UNCHANGED ctxVars \/ Entered,
         notes' \in 0 .. MaxNotes, notes <= notes', x.r.n <= notes',
         memory' \in [n : 0 .. MaxNotes, track : Tracks \cup {None}], memory'.n <= notes',
         putQueue' \in Seq(Reports), Len(putQueue') <= PutLimit,
         \A i \in 1 .. Len(putQueue') : putQueue'[i].n <= notes',
         newest' \in 0 .. notes', inputs' \in 0 .. MaxEvents, isActive' \in BOOLEAN,
         UNCHANGED <<control, wsOpen, putStop, volume, encoded, fromCloud, sent>>
  PROVE  Settled'
<1> USE SettledParts
<1>1. /\ doing' \in [Threads -> Hand] /\ doing'[t] = x
      /\ \A u \in Threads \ {t} : doing'[u] = doing[u]
  BY DoingIs
<1>2. PICK d : d = doing'
  OBVIOUS
<1>3. d \in [Threads -> Hand] /\ d[t] = x /\ \A u \in Threads \ {t} : d[u] = doing[u]
  BY <1>1, <1>2
<1>4. TypeOK'
  <2>1. d \in [Threads -> [at : {"none", "idle", "echo", "queue", "encode", "put", "gone"},
                            r : Reports]]
    BY <1>3 DEF Hand, Steps
  <2>2. sent \in 0 .. notes'
    BY SMTT(30) DEF TypeOK
  <2>3. /\ at' \in 0 .. Len(List) /\ options' \in BOOLEAN /\ silent' \in BOOLEAN
        /\ queue' \in Seq(Tracks)
    BY DEF TypeOK, ctxVars, Entered
  <2> QED
    BY <1>2, <2>1, <2>2, <2>3 DEF TypeOK, Commands
<1>5. Stations'
  BY <1>2, <1>3, OwnThreads DEF Stations
<1>6. Tellings'
  <2>1. \A u \in Threads : d[u].r.n <= notes'
    <3> TAKE u \in Threads
    <3>1. doing[u].r.n \in 0 .. MaxNotes /\ doing[u].r.n <= notes
      BY HandIs, ReportFields DEF Tellings
    <3>2. notes \in 0 .. MaxNotes
      BY DEF TypeOK
    <3> QED
      BY <1>3, <3>1, <3>2
  <2> QED
    BY <1>2, <2>1 DEF Tellings
<1>7. QueueOnce'
  BY DEF QueueOnce, ctxVars, Entered
<1>8. VolumeTold'
  BY DEF VolumeTold
<1>9. ContextTold'
  BY DEF ContextTold, Told, Pending, ctxVars, Entered
<1>10. Merged'
  BY <1>2, <1>3 DEF Merged
<1> QED
  BY <1>4, <1>5, <1>6, <1>7, <1>8, <1>9, <1>10 DEF Settled

\* No thread moves.
LEMMA Quiet ==
  ASSUME IInv, Commands',
         UNCHANGED <<doing, memory, volume, ctxVars, encoded, fromCloud, newest, sent, notes>>,
         \/ control' = control
         \/ /\ control' \in {"failed", "closed", "joined", "cleared", "ended"}
            /\ control # "starting" /\ (control' \in Early => control \in Early),
         wsOpen' \in BOOLEAN, putStop' \in BOOLEAN, isActive' \in BOOLEAN,
         inputs' \in 0 .. MaxEvents, putQueue' \in {putQueue, <<>>}
  PROVE  Settled'
<1> USE SettledParts
<1>1. /\ putQueue' \in Seq(Reports) /\ Len(putQueue') <= PutLimit
      /\ \A i \in 1 .. Len(putQueue') : putQueue'[i].n <= notes
  <2>1. CASE putQueue' = putQueue
    BY <2>1 DEF TypeOK, Tellings
  <2>2. CASE putQueue' = <<>>
    <3>1. <<>> \in Seq(Reports) /\ Len(<<>>) = 0 /\ PutLimit \in Nat
      BY ReportAssumption
    <3> QED
      BY <2>2, <3>1
  <2> QED
    BY <2>1, <2>2
<1>2. TypeOK'
  BY <1>1 DEF TypeOK, Commands, ctxVars
<1>3. Stations'
  BY DEF Stations, Early
<1>4. Tellings'
  BY <1>1 DEF Tellings
<1>5. QueueOnce'
  BY DEF QueueOnce, ctxVars
<1>6. VolumeTold'
  BY DEF VolumeTold, Shown
<1>7. ContextTold'
  BY DEF ContextTold, Told, Pending, ctxVars
<1>8. Merged'
  BY DEF Merged
<1> QED
  BY <1>2, <1>3, <1>4, <1>5, <1>6, <1>7, <1>8 DEF Settled

-----------------------------------------------------------------------------
(* The actions.                                                            *)

\* A report or none, as Changed takes it.
LEMMA AboutOrStay ==
  ASSUME IInv, NEW t \in {"reader", "resolver"}, NEW track \in Tracks \cup {None},
         doing[t].at = "idle", control \notin Early, About(t, track)
  PROVE  /\ \E x \in Hand : /\ doing' = [doing EXCEPT ![t] = x]
                            /\ x.at = "encode" /\ x.r.n <= notes
         /\ doing'[t].at = "encode" /\ doing'[t].r.track = track
<1>1. t \in Threads
  BY OwnThreads
<1>2. PICK x \in Hand : /\ doing' = [doing EXCEPT ![t] = x]
                        /\ x.at = "encode" /\ x.r.track = track /\ x.r.first = FALSE
                        /\ x.r.n <= notes
  BY <1>1, AboutIs, ZenonT(30)
<1>3. doing'[t] = x
  BY <1>1, <1>2, DoingIs, SettledParts
<1> QED
  BY <1>2, <1>3

\* The reader is at rest only while the device runs.
LEMMA ReadingIs ==
  ASSUME IInv, Reading
  PROVE  doing["reader"].at = "idle" /\ control \notin Early
BY SettledParts DEF Reading, Busy, Stations

\* What Input counts.
LEMMA InputIs ==
  ASSUME IInv, Input, notes' = notes
  PROVE  inputs' \in 0 .. MaxEvents
<1>1. notes \in 0 .. MaxNotes /\ inputs \in 0 .. MaxEvents
  BY SettledParts DEF TypeOK
<1>2. MaxNotes \in Nat /\ MaxEvents \in Nat
  BY ReportAssumption
<1>3. notes + inputs < MaxEvents /\ inputs' = inputs + 1
  BY DEF Input
<1> QED
  BY <1>1, <1>2, <1>3

\* The types of the settings.
LEMMA SettingsAre ==
  ASSUME IInv
  PROVE  /\ volume \in 0 .. MaxVolume /\ isActive \in BOOLEAN /\ at \in 0 .. Len(List)
         /\ options \in BOOLEAN /\ queue \in Seq(Tracks) /\ IsInjectiveSeq(queue)
         /\ silent \in BOOLEAN
         /\ wsOpen \in BOOLEAN /\ putStop \in BOOLEAN /\ Len(List) \in Nat
         /\ notes \in 0 .. MaxNotes /\ inputs \in 0 .. MaxEvents
BY SettledParts, ReportAssumption DEF TypeOK, QueueOnce

\* What carrying out a command leaves alone.
LEMMA AcceptIs ==
  ASSUME IInv, NEW r, Accept(r)
  PROVE  /\ doing["reader"].at = "idle" /\ control \notin Early /\ Input
         /\ UNCHANGED <<control, wsOpen, putStop, putQueue, encoded, newest, sent, fromCloud>>
         /\ isActive' = TRUE
BY ReadingIs DEF Accept, ReaderUnchanged

\* set_volume: a report is due if the level is one.
LEMMA SetVolumeSettles ==
  ASSUME IInv, Commands', NEW r \in Requests, SetVolume(r)
  PROVE  Settled'
<1>1. /\ doing["reader"].at = "idle" /\ control \notin Early /\ Input
      /\ UNCHANGED <<control, wsOpen, putStop, putQueue, encoded, newest, sent, fromCloud>>
      /\ isActive' = TRUE
  BY AcceptIs DEF SetVolume
<1>2. UNCHANGED <<memory, at, options, queue, silent, notes>>
  BY DEF SetVolume, ctxVars
<1>3. inputs' \in 0 .. MaxEvents
  BY <1>1, <1>2, InputIs
<1>4. CASE r.level <= MaxVolume
  <2>1. volume' = r.level /\ About("reader", Current)
    BY <1>4 DEF SetVolume
  <2>2. r.level \in 0 .. MaxVolume
    BY <1>4, ReportAssumption
  <2>3. /\ \E x \in Hand : /\ doing' = [doing EXCEPT !["reader"] = x]
                           /\ x.at = "encode" /\ x.r.n <= notes
        /\ doing'["reader"].at = "encode"
    BY <1>1, <2>1, AboutOrStay, CurrentIs
  <2> QED
    BY <1>1, <1>2, <1>3, <2>1, <2>2, <2>3, SettingsAre, Changed
<1>5. CASE ~(r.level <= MaxVolume)
  <2>1. UNCHANGED <<volume, doing>>
    BY <1>5 DEF SetVolume, Stay
  <2> QED
    BY <1>1, <1>2, <1>3, <2>1, SettingsAre, Changed
<1> QED
  BY <1>4, <1>5

\* The lists of a message may become the queue.
LEMMA CollectedTracks ==
  ASSUME NEW items \in Items
  PROVE  /\ CollectTracks(items) \in Seq(Tracks) /\ IsInjectiveSeq(CollectTracks(items))
         /\ CollectSetQueue(items) \in Seq(Tracks) /\ IsInjectiveSeq(CollectSetQueue(items))
         /\ CollectExplicit(items) \in Seq(Tracks) /\ IsInjectiveSeq(CollectExplicit(items))
<1>1. \A s \in Seq(ItemTracks) : s \in Seq(Tracks)
  BY DEF Tracks
<1> QED
  BY <1>1, CollectedOnce

\* add_to_queue: a report on the current track is due if the queue has grown.
LEMMA AddToQueueSettles ==
  ASSUME IInv, Commands', NEW r \in Requests, AddToQueue(r)
  PROVE  Settled'
<1>1. /\ doing["reader"].at = "idle" /\ control \notin Early /\ Input
      /\ UNCHANGED <<control, wsOpen, putStop, putQueue, encoded, newest, sent, fromCloud>>
      /\ isActive' = TRUE
  BY AcceptIs DEF AddToQueue
<1>2. UNCHANGED <<memory, volume, at, options, silent, notes>>
  BY DEF AddToQueue
<1>3. inputs' \in 0 .. MaxEvents
  BY <1>1, <1>2, InputIs
<1>4. queue' \in Seq(Tracks) /\ IsInjectiveSeq(queue')
  <2>1. r.items \in Items
    BY ReportAssumption
  <2>2. queue' = Added(CollectTracks(r.items))
    BY DEF AddToQueue
  <2> QED
    BY <2>1, <2>2, CollectedTracks, SettingsAre, AddedOnce
<1>5. CASE queue' # queue
  <2>1. About("reader", Current)
    BY <1>5 DEF AddToQueue
  <2>2. /\ \E x \in Hand : /\ doing' = [doing EXCEPT !["reader"] = x]
                           /\ x.at = "encode" /\ x.r.n <= notes
        /\ doing'["reader"].at = "encode" /\ doing'["reader"].r.track = Current
    BY <1>1, <2>1, AboutOrStay, CurrentIs
  <2>3. at' # 0 => Pending("reader")'
    BY <1>2, <2>2, CurrentIs DEF Pending
  <2> QED
    BY <1>1, <1>2, <1>3, <1>4, <2>2, <2>3, SettingsAre, Changed
<1>6. CASE queue' = queue
  <2>1. UNCHANGED doing
    BY <1>6 DEF AddToQueue, Stay
  <2> QED
    BY <1>1, <1>2, <1>3, <1>6, <2>1, SettingsAre, Changed
<1> QED
  BY <1>5, <1>6

\* set_queue: a report is always due.
LEMMA SetQueueSettles ==
  ASSUME IInv, Commands', NEW r \in Requests, SetQueue(r)
  PROVE  Settled'
<1>1. /\ doing["reader"].at = "idle" /\ control \notin Early /\ Input
      /\ UNCHANGED <<control, wsOpen, putStop, putQueue, encoded, newest, sent, fromCloud>>
      /\ isActive' = TRUE
  BY AcceptIs DEF SetQueue
<1>2. UNCHANGED <<memory, volume, at, options, silent, notes>>
  BY DEF SetQueue
<1>3. inputs' \in 0 .. MaxEvents
  BY <1>1, <1>2, InputIs
<1>4. queue' \in Seq(Tracks) /\ IsInjectiveSeq(queue')
  <2>1. r.items \in Items
    BY ReportAssumption
  <2>2. queue' = CollectSetQueue(r.items)
    BY DEF SetQueue, Replaced
  <2> QED
    BY <2>1, <2>2, CollectedTracks
<1>5. About("reader", Current)
  BY DEF SetQueue
<1>6. /\ \E x \in Hand : /\ doing' = [doing EXCEPT !["reader"] = x]
                         /\ x.at = "encode" /\ x.r.n <= notes
      /\ doing'["reader"].at = "encode" /\ doing'["reader"].r.track = Current
  BY <1>1, <1>5, AboutOrStay, CurrentIs
<1>7. at' # 0 => Pending("reader")'
  BY <1>2, <1>6, CurrentIs DEF Pending
<1> QED
  BY <1>1, <1>2, <1>3, <1>4, <1>6, <1>7, SettingsAre, Changed

\* The options: a report is due if there is a context that has them.
LEMMA SetOptionsSettles ==
  ASSUME IInv, Commands', NEW r \in Requests, SetOptions(r)
  PROVE  Settled'
<1>1. /\ doing["reader"].at = "idle" /\ control \notin Early /\ Input
      /\ UNCHANGED <<control, wsOpen, putStop, putQueue, encoded, newest, sent, fromCloud>>
      /\ isActive' = TRUE
  BY AcceptIs DEF SetOptions
<1>2. UNCHANGED <<memory, volume, at, queue, silent, notes>>
  BY DEF SetOptions
<1>3. inputs' \in 0 .. MaxEvents
  BY <1>1, <1>2, InputIs
<1>4. options' = r.flag /\ options' \in BOOLEAN
  BY ReportAssumption DEF SetOptions
<1>5. CASE r.flag # options /\ at # 0
  <2>1. About("reader", Current)
    BY <1>5 DEF SetOptions
  <2>2. /\ \E x \in Hand : /\ doing' = [doing EXCEPT !["reader"] = x]
                           /\ x.at = "encode" /\ x.r.n <= notes
        /\ doing'["reader"].at = "encode" /\ doing'["reader"].r.track = Current
    BY <1>1, <2>1, AboutOrStay, CurrentIs
  <2>3. at' # 0 => Pending("reader")'
    BY <1>2, <2>2, CurrentIs DEF Pending
  <2> QED
    BY <1>1, <1>2, <1>3, <1>4, <2>2, <2>3, SettingsAre, Changed
<1>6. CASE ~(r.flag # options /\ at # 0)
  <2>1. UNCHANGED doing
    BY <1>6 DEF SetOptions, Stay
  <2>2. at' # 0 => at # 0 /\ options' = options
    BY <1>2, <1>4, <1>6
  <2> QED
    BY <1>1, <1>2, <1>3, <1>4, <2>1, <2>2, SettingsAre, Changed
<1> QED
  BY <1>5, <1>6

\* A skip.
LEMMA SkipSettles ==
  ASSUME IInv, Commands', NEW r \in Requests, SkipNext(r) \/ SkipPrev(r)
  PROVE  Settled'
<1>1. /\ doing["reader"].at = "idle" /\ control \notin Early /\ Input
      /\ UNCHANGED <<control, wsOpen, putStop, putQueue, encoded, newest, sent, fromCloud>>
      /\ isActive' = TRUE
  BY AcceptIs DEF SkipNext, SkipPrev
<1>2. UNCHANGED <<memory, volume, options, silent, notes, doing>>
  BY DEF SkipNext, SkipPrev, Stay
<1>3. inputs' \in 0 .. MaxEvents
  BY <1>1, <1>2, InputIs
<1>4. \A track : Placed(track) => at' \in 0 .. Len(List) /\ (at' # 0 => at # 0)
  BY SettingsAre DEF Placed, Position
<1>5. at' \in 0 .. Len(List) /\ (at' # 0 => at # 0)
  <2>1. CASE \E track : Placed(track)
    BY <1>4, <2>1
  <2>2. CASE at' = at \/ (at' = at + 1 /\ at # 0 /\ at < Len(List)) \/ (at > 1 /\ at' = at - 1)
    BY <2>2, SettingsAre
  <2> QED
    BY <2>1, <2>2 DEF SkipNext, SkipPrev
<1>6. queue' = queue \/ (queue # <<>> /\ queue' = Tail(queue))
  BY DEF SkipNext, SkipPrev
<1>7. queue' \in Seq(Tracks) /\ IsInjectiveSeq(queue')
  BY <1>6, SettingsAre, TailOnce
<1> QED
  BY <1>1, <1>2, <1>3, <1>5, <1>6, <1>7, SettingsAre, Changed

\* A command that is not known or has been seen.
LEMMA UnhandledSettles ==
  ASSUME IInv, Commands', NEW r \in Requests, Unhandled(r) \/ Ignore(r)
  PROVE  Settled'
<1>1. /\ UNCHANGED <<control, wsOpen, putStop, putQueue, encoded, newest, sent, fromCloud,
                     memory, volume, at, options, queue, silent, notes, doing>>
      /\ isActive' \in BOOLEAN /\ Input
  BY AcceptIs, SettingsAre DEF Unhandled, Ignore, ReaderUnchanged, Stay, ctxVars
<1>2. inputs' \in 0 .. MaxEvents
  BY <1>1, InputIs
<1> QED
  BY <1>1, <1>2, SettingsAre, Quiet DEF ctxVars

\* What play, transfer and a restored context change, they change silently.
LEMMA EnterIs ==
  ASSUME IInv, NEW flag \in BOOLEAN, NEW places \in SUBSET (1 .. Len(List)),
         EnterContext(flag, places)
  PROVE  Entered
<1>1. /\ options' \in {options, flag} /\ at' \in {0, at} \cup places /\ queue' = queue
      /\ silent' = (silent \/ options' # options \/ at = 0)
  BY DEF EnterContext
<1>2. at' \in 0 .. Len(List) /\ options' \in BOOLEAN
  BY <1>1, SettingsAre
<1>3. silent' \in BOOLEAN /\ (~silent' => at # 0 /\ ~silent /\ options' = options)
  <2>1. silent \in BOOLEAN
    BY SettingsAre
  <2> QED
    BY <1>1, <2>1, Zenon
<1> QED
  BY <1>1, <1>2, <1>3 DEF Entered

\* A context that is restored.
LEMMA RestoreSettles ==
  ASSUME IInv, Commands', RestoreContext
  PROVE  Settled'
<1>1. /\ Input
      /\ UNCHANGED <<control, wsOpen, putStop, putQueue, encoded, newest, sent, fromCloud,
                     memory, isActive, volume, notes, doing>>
  BY DEF RestoreContext, ElseUnchanged
<1>2. inputs' \in 0 .. MaxEvents
  BY <1>1, InputIs
<1>3. Entered
  BY EnterIs DEF RestoreContext
<1> QED
  BY <1>1, <1>2, <1>3, SettingsAre, Changed DEF Entered

\* A volume message.
LEMMA VolumeMessageSettles ==
  ASSUME IInv, Commands', NEW v \in Volumes, VolumeMessage(v)
  PROVE  Settled'
<1>1. /\ doing["reader"].at = "idle" /\ control \notin Early /\ Input
      /\ UNCHANGED <<control, wsOpen, putStop, putQueue, encoded, newest, sent, fromCloud,
                     memory, isActive, at, options, queue, silent, notes>>
  BY ReadingIs DEF VolumeMessage, ReaderUnchanged, ctxVars
<1>2. inputs' \in 0 .. MaxEvents
  BY <1>1, InputIs
<1>3. CASE isActive
  <2>1. volume' = v /\ About("reader", Current)
    BY <1>3 DEF VolumeMessage
  <2>2. v \in 0 .. MaxVolume
    BY ReportAssumption
  <2>3. /\ \E x \in Hand : /\ doing' = [doing EXCEPT !["reader"] = x]
                           /\ x.at = "encode" /\ x.r.n <= notes
        /\ doing'["reader"].at = "encode"
    BY <1>1, <2>1, AboutOrStay, CurrentIs
  <2> QED
    BY <1>1, <1>2, <2>1, <2>2, <2>3, SettingsAre, Changed
<1>4. CASE ~isActive
  <2>1. UNCHANGED <<volume, doing>>
    BY <1>4 DEF VolumeMessage, Stay
  <2> QED
    BY <1>1, <1>2, <2>1, SettingsAre, Changed
<1> QED
  BY <1>3, <1>4

\* A resolver's answer.
LEMMA ResolveSettles ==
  ASSUME IInv, Commands', Resolve
  PROVE  Settled'
<1>1. /\ doing["resolver"].at = "idle" /\ control \notin Early /\ Input
      /\ UNCHANGED <<control, wsOpen, putStop, putQueue, encoded, newest, sent, fromCloud,
                     memory, isActive, volume, options, queue, silent, notes>>
  BY DEF Resolve, ElseUnchanged, Busy, Early
<1>2. inputs' \in 0 .. MaxEvents
  BY <1>1, InputIs
<1>3. at' \in 1 .. Len(List) /\ About("resolver", List[at'])
  BY DEF Resolve
<1>4. PICK track : track = List[at']
  OBVIOUS
<1>5. track \in Tracks /\ track # None
  BY <1>3, <1>4, CurrentIs
<1>6. About("resolver", track)
  BY <1>3, <1>4
<1>7. /\ \E x \in Hand : /\ doing' = [doing EXCEPT !["resolver"] = x]
                         /\ x.at = "encode" /\ x.r.n <= notes
      /\ doing'["resolver"].at = "encode" /\ doing'["resolver"].r.track = track
  BY <1>1, <1>5, <1>6, AboutOrStay
<1>8. Pending("resolver")'
  BY <1>5, <1>7 DEF Pending
<1>9. at' \in 0 .. Len(List)
  BY <1>3, SettingsAre
<1> QED
  BY <1>1, <1>2, <1>7, <1>8, <1>9, SettingsAre, Changed

\* What the player and the application do to the context.
LEMMA AdvanceSettles ==
  ASSUME IInv, Commands', PlayerAdvance \/ ClearContext
  PROVE  Settled'
<1>1. /\ Input
      /\ UNCHANGED <<control, wsOpen, putStop, putQueue, encoded, newest, sent, fromCloud,
                     memory, isActive, volume, silent, notes, doing>>
  BY DEF PlayerAdvance, ClearContext, ElseUnchanged
<1>2. inputs' \in 0 .. MaxEvents
  BY <1>1, InputIs
<1>3. CASE PlayerAdvance
  <2>1. /\ queue' = queue \/ (queue # <<>> /\ queue' = Tail(queue))
        /\ options' = options /\ at' \in 0 .. Len(List) /\ (at' # 0 => at # 0)
    BY <1>3, SettingsAre DEF PlayerAdvance
  <2>2. queue' \in Seq(Tracks) /\ IsInjectiveSeq(queue')
    BY <2>1, SettingsAre, TailOnce
  <2> QED
    BY <1>1, <1>2, <2>1, <2>2, SettingsAre, Changed
<1>4. CASE ClearContext
  <2>1. at' = 0 /\ options' = FALSE /\ queue' = <<>>
    BY <1>4 DEF ClearContext
  <2>2. <<>> \in Seq(Tracks) /\ IsInjectiveSeq(<<>>) /\ 0 \in 0 .. Len(List)
    BY SettingsAre DEF IsInjectiveSeq
  <2>3. queue' \in Seq(Tracks) /\ IsInjectiveSeq(queue') /\ options' \in BOOLEAN
        /\ at' \in 0 .. Len(List)
    BY <2>1, <2>2
  <2> QED
    BY <1>1, <1>2, <2>1, <2>3, SettingsAre, Changed
<1> QED
  BY <1>3, <1>4

\* What the threads' own steps leave alone.
LEMMA RestIs ==
  ASSUME IInv, NEW t \in Threads \ {"starter"}
  PROVE  /\ Idle \in Hand /\ Idle.at = "idle" /\ Idle.r.n <= notes
         /\ notes \in 0 .. MaxNotes /\ notes <= notes
         /\ memory \in [n : 0 .. MaxNotes, track : Tracks \cup {None}] /\ memory.n <= notes
         /\ putQueue \in Seq(Reports) /\ Len(putQueue) <= PutLimit
         /\ \A i \in 1 .. Len(putQueue) : putQueue[i].n <= notes
         /\ newest \in 0 .. notes /\ inputs \in 0 .. MaxEvents /\ isActive \in BOOLEAN
         /\ doing[t].r \in Reports /\ doing[t].r.n <= notes
BY SettledParts, IdleHand DEF TypeOK, Tellings

\* A PUT that is over.
LEMMA PutSettles ==
  ASSUME IInv, Commands', NEW t \in Threads, Put(t)
  PROVE  Settled'
<1>1. /\ doing[t].at = "put" /\ t # "starter" /\ doing' = [doing EXCEPT ![t] = Idle]
      /\ UNCHANGED <<control, wsOpen, putStop, putQueue, memory, volume, isActive, ctxVars,
                     encoded, fromCloud, newest, sent, notes, inputs>>
  BY DEF Put, Busy, Rest
<1> QED
  BY <1>1, RestIs, Moved

\* The player, or the reader in its place, has told something.
LEMMA TellSettles ==
  ASSUME IInv, Commands', NEW t \in Hosts \cup {"reader"}, NEW track \in NoteTracks,
         Tell(t, track), doing[t].at = "idle", inputs' \in 0 .. MaxEvents, isActive' \in BOOLEAN,
         UNCHANGED <<control, wsOpen, putStop, putQueue, volume, encoded, fromCloud,
                     newest, sent>>,
         UNCHANGED ctxVars \/ Entered
  PROVE  Settled'
<1>1. t \in Threads \ {"starter"} /\ t # "worker" /\ t # "resolver"
  BY OwnThreads
<1>2. PICK n : n = notes'
  OBVIOUS
<1>3. n = notes + 1 /\ n \in 0 .. MaxNotes /\ notes <= n
  <2>1. notes < MaxNotes /\ notes' = notes + 1
    BY DEF Tell
  <2> QED
    BY <1>2, <2>1, SettingsAre, ReportAssumption
<1>4. track \in Tracks \cup {None}
  BY DEF Tracks
<1>5. memory' = [n |-> n, track |-> track]
  BY <1>2 DEF Tell
<1>6. memory' \in [n : 0 .. MaxNotes, track : Tracks \cup {None}] /\ memory'.n <= n
  BY <1>3, <1>4, <1>5
<1> DEFINE r == Note(n, track)
           x == [at |-> "queue", r |-> r]
<1>7. r \in Reports /\ r.n = n
  BY <1>3, <1>4, NoteIs
<1>8. doing' = [doing EXCEPT ![t] = x]
  BY <1>2 DEF Tell, Note
<1> HIDE DEF r
<1>9. x \in Hand /\ x.at = "queue" /\ x.r = r
  BY <1>7 DEF Hand, Steps
<1> HIDE DEF x
<1>10. \A i \in 1 .. Len(putQueue) : putQueue[i].n <= n
  <2> TAKE i \in 1 .. Len(putQueue)
  <2>1. putQueue[i] \in Reports /\ putQueue[i].n <= notes
    BY <1>1, RestIs
  <2>2. putQueue[i].n \in 0 .. MaxNotes
    BY <2>1, ReportFields
  <2> QED
    BY <1>1, <1>3, <2>2, RestIs
<1>11. newest' \in 0 .. n
  BY <1>1, <1>3, RestIs
<1>12. /\ notes' \in 0 .. MaxNotes /\ notes <= notes' /\ x.r.n <= notes' /\ memory'.n <= notes'
       /\ putQueue' \in Seq(Reports) /\ Len(putQueue') <= PutLimit
       /\ \A i \in 1 .. Len(putQueue') : putQueue'[i].n <= notes'
       /\ newest' \in 0 .. notes'
  BY <1>1, <1>2, <1>3, <1>6, <1>7, <1>9, <1>10, RestIs
<1> QED
  BY <1>1, <1>6, <1>8, <1>9, <1>12, Moved

\* A host tells.
LEMMA NotifySettles ==
  ASSUME IInv, Commands', NEW h \in Hosts, Notify(h)
  PROVE  Settled'
<1>1. h \in Threads \ {"starter"}
  BY OwnThreads
<1>2. PICK track \in NoteTracks : Tell(h, track)
  BY DEF Notify
<1>3. /\ doing[h].at = "idle" /\ UNCHANGED isActive /\ UNCHANGED inputs
      /\ UNCHANGED <<control, wsOpen, putStop, putQueue, volume, ctxVars, encoded, fromCloud,
                     newest, sent>>
  BY DEF Notify, Busy
<1>4. inputs' \in 0 .. MaxEvents /\ isActive' \in BOOLEAN
  BY <1>3, SettingsAre
<1> QED
  BY <1>2, <1>3, <1>4, TellSettles

\* The reader tells for pause, resume and seek.
LEMMA PauseResumeSeekSettles ==
  ASSUME IInv, Commands', NEW r \in Requests, PauseResumeSeek(r)
  PROVE  Settled'
<1>1. PICK track \in NoteTracks : Tell("reader", track)
  BY DEF PauseResumeSeek
<1>2. /\ doing["reader"].at = "idle" /\ isActive' \in BOOLEAN
      /\ UNCHANGED <<control, wsOpen, putStop, putQueue, volume, ctxVars, encoded, fromCloud,
                     newest, sent>>
  BY AcceptIs DEF PauseResumeSeek
<1>3. inputs' \in 0 .. MaxEvents
  <2>1. notes + inputs < MaxEvents /\ inputs' = inputs + 1
    BY AcceptIs DEF PauseResumeSeek, Input
  <2> QED
    BY <2>1, SettingsAre, ReportAssumption
<1> QED
  BY <1>1, <1>2, <1>3, TellSettles

\* play and transfer: the reader may tell that it goes on.
LEMMA PlayTransferSettles ==
  ASSUME IInv, Commands', NEW r \in Requests, PlayTransfer(r)
  PROVE  Settled'
<1>1. /\ doing["reader"].at = "idle" /\ control \notin Early /\ Input
      /\ UNCHANGED <<control, wsOpen, putStop, putQueue, encoded, newest, sent, fromCloud>>
      /\ isActive' = TRUE /\ volume' = volume
  BY AcceptIs DEF PlayTransfer
<1>2. Entered
  <2>1. r.flag \in BOOLEAN /\ Hinted(r.items) \in SUBSET (1 .. Len(List))
    BY ReportAssumption DEF Hinted
  <2> QED
    BY <2>1, EnterIs DEF PlayTransfer
<1>3. CASE Stay /\ UNCHANGED <<memory, notes>>
  <2>1. inputs' \in 0 .. MaxEvents
    BY <1>1, <1>3, InputIs
  <2> QED
    BY <1>1, <1>2, <1>3, <2>1, SettingsAre, Changed DEF Entered, Stay
<1>4. CASE \E track \in NoteTracks : Tell("reader", track)
  <2>1. inputs' \in 0 .. MaxEvents
    <3>1. notes + inputs < MaxEvents /\ inputs' = inputs + 1
      BY <1>1 DEF Input
    <3> QED
      BY <3>1, SettingsAre, ReportAssumption, SMTT(30)
  <2> QED
    BY <1>1, <1>2, <1>4, <2>1, TellSettles
<1> QED
  BY <1>3, <1>4 DEF PlayTransfer

\* The newest PutLimit reports of a queue, and one more.
LEMMA KeptIs ==
  ASSUME NEW q \in Seq(Reports), Len(q) <= PutLimit, NEW r \in Reports
  PROVE  LET k == Kept(Append(q, r))
         IN /\ k \in Seq(Reports) /\ Len(k) <= PutLimit
            /\ \A i \in 1 .. Len(k) : k[i] = r \/ \E j \in 1 .. Len(q) : k[i] = q[j]
<1> DEFINE a == Append(q, r)
           m == IF Len(a) > PutLimit THEN Len(a) - PutLimit + 1 ELSE 1
           k == SubSeq(a, m, Len(a))
<1>1. /\ a \in Seq(Reports) /\ Len(a) = Len(q) + 1 /\ a[Len(q) + 1] = r
      /\ \A i \in 1 .. Len(q) : a[i] = q[i]
  OBVIOUS
<1>2. PutLimit \in Nat \ {0} /\ Len(q) \in Nat
  BY ReportAssumption
<1> HIDE DEF a
<1>3. m \in 1 .. Len(a) /\ Len(a) - m + 1 <= PutLimit
  BY <1>1, <1>2
<1> HIDE DEF m
<1>4. /\ k \in Seq(Reports) /\ Len(k) = Len(a) - m + 1
      /\ \A i \in 1 .. Len(k) : k[i] = a[m + i - 1] /\ m + i - 1 \in 1 .. Len(a)
  BY <1>1, <1>3
<1>5. \A i \in 1 .. Len(a) : a[i] = r \/ \E j \in 1 .. Len(q) : a[i] = q[j]
  BY <1>1, <1>2
<1>6. Kept(a) = k
  BY DEF Kept, m
<1> HIDE DEF k
<1>7. Len(k) <= PutLimit
  BY <1>3, <1>4
<1>8. \A i \in 1 .. Len(k) : k[i] = r \/ \E j \in 1 .. Len(q) : k[i] = q[j]
  BY <1>4, <1>5
<1>9. Kept(Append(q, r)) = k
  BY <1>6 DEF a
<1> QED
  BY <1>4, <1>7, <1>8, <1>9

\* What was told is queued, and the oldest may be dropped.
LEMMA QueuePutSettles ==
  ASSUME IInv, Commands', NEW t \in Threads, QueuePut(t)
  PROVE  Settled'
<1>1. /\ doing[t].at = "queue" /\ doing' = [doing EXCEPT ![t] = Idle]
      /\ UNCHANGED <<control, wsOpen, putStop, memory, volume, isActive, ctxVars,
                     encoded, fromCloud, sent, notes, inputs>>
  BY DEF QueuePut, Busy, Rest
<1>2. t \in Threads \ {"starter"} /\ t # "worker" /\ t # "resolver"
  BY <1>1, OwnThreads, SettledParts DEF Stations
<1>3. PICK r : r = doing[t].r
  OBVIOUS
<1>4. r \in Reports /\ r.n <= notes /\ r.n \in 0 .. MaxNotes
  BY <1>2, <1>3, RestIs, ReportFields
<1>5. putQueue' = Kept(Append(putQueue, r)) /\ newest' = r.n
  BY <1>3 DEF QueuePut
<1>6. /\ putQueue' \in Seq(Reports) /\ Len(putQueue') <= PutLimit
      /\ \A i \in 1 .. Len(putQueue') :
           putQueue'[i] = r \/ \E j \in 1 .. Len(putQueue) : putQueue'[i] = putQueue[j]
  <2>1. PICK q : q = putQueue
    OBVIOUS
  <2>2. q \in Seq(Reports) /\ Len(q) <= PutLimit
    BY <1>2, <2>1, RestIs
  <2>3. PICK k : k = Kept(Append(q, r))
    OBVIOUS
  <2>4. /\ k \in Seq(Reports) /\ Len(k) <= PutLimit
        /\ \A i \in 1 .. Len(k) : k[i] = r \/ \E j \in 1 .. Len(q) : k[i] = q[j]
    BY <1>4, <2>2, <2>3, KeptIs
  <2> QED
    BY <1>5, <2>1, <2>3, <2>4
<1>7. \A i \in 1 .. Len(putQueue') : putQueue'[i].n <= notes
  BY <1>2, <1>4, <1>6, RestIs
<1>8. newest' \in 0 .. notes
  BY <1>2, <1>4, <1>5, RestIs
<1> QED
  BY <1>1, <1>2, <1>6, <1>7, <1>8, RestIs, Moved

\* The worker.
LEMMA WorkerSettles ==
  ASSUME IInv, Commands', WorkerTake \/ WorkerEnd
  PROVE  Settled'
<1>1. /\ doing["worker"].at = "idle"
      /\ UNCHANGED <<control, wsOpen, putStop, memory, volume, isActive, ctxVars,
                     encoded, fromCloud, newest, sent, notes, inputs>>
  BY DEF WorkerTake, WorkerEnd, WorkerUnchanged, Busy
<1>2. "worker" \in Threads \ {"starter"} /\ "worker" \notin Hosts
  BY OwnThreads
<1>3. CASE WorkerTake
  <2>1. putQueue # <<>> /\ putQueue' = Tail(putQueue)
    BY <1>3 DEF WorkerTake
  <2>2. PICK r : r = Head(putQueue)
    OBVIOUS
  <2>3. r \in Reports /\ r.n <= notes
    BY <1>2, <2>1, <2>2, RestIs
  <2>4. [at |-> "encode", r |-> r] \in Hand
    BY <2>3 DEF Hand, Steps
  <2>5. doing' = [doing EXCEPT !["worker"] = [at |-> "encode", r |-> r]]
    BY <1>3, <2>2 DEF WorkerTake
  <2>6. /\ putQueue' \in Seq(Reports) /\ Len(putQueue') <= PutLimit
        /\ \A i \in 1 .. Len(putQueue') : putQueue'[i].n <= notes
    <3>1. /\ Tail(putQueue) \in Seq(Reports) /\ Len(Tail(putQueue)) = Len(putQueue) - 1
          /\ \A i \in 1 .. Len(putQueue) - 1 : Tail(putQueue)[i] = putQueue[i + 1]
      BY <1>2, <2>1, RestIs
    <3>2. PutLimit \in Nat /\ Len(putQueue) \in Nat
      BY <1>2, RestIs, ReportAssumption
    <3> QED
      BY <1>2, <2>1, <3>2, RestIs
  <2>7. PICK x \in Hand : x = [at |-> "encode", r |-> r]
    BY <2>4
  <2>8. x.at = "encode" /\ x.r.n <= notes
                         /\ doing' = [doing EXCEPT !["worker"] = x]
    BY <2>3, <2>5, <2>7
  <2> QED
    BY <1>1, <1>2, <2>6, <2>8, RestIs, Moved
<1>4. CASE WorkerEnd
  <2>1. UNCHANGED putQueue /\ doing' = [doing EXCEPT !["worker"].at = "gone"]
    BY <1>4 DEF WorkerEnd, Go
  <2>2. PICK x \in Hand : /\ x.at = "gone" /\ x.r.n <= notes
                         /\ doing' = [doing EXCEPT !["worker"] = x]
    BY <1>2, <2>1, RestIs, HandIs, SettledParts DEF Hand, Steps
  <2> QED
    BY <1>1, <1>2, <2>1, <2>2, RestIs, Moved
<1> QED
  BY <1>3, <1>4

\* The reader ends.
LEMMA ReaderEndSettles ==
  ASSUME IInv, Commands', ReaderEnd
  PROVE  Settled'
<1>1. /\ doing["reader"].at = "idle" /\ doing' = [doing EXCEPT !["reader"].at = "gone"]
      /\ UNCHANGED <<control, wsOpen, putStop, putQueue, memory, volume, isActive, ctxVars,
                     encoded, fromCloud, newest, sent, notes, inputs>>
  BY DEF ReaderEnd, Go, Busy
<1>2. "reader" \in Threads \ {"starter"} /\ "reader" \notin Hosts
  BY OwnThreads
<1>3. PICK x \in Hand : /\ x.at = "gone" /\ x.r.n <= notes
                       /\ doing' = [doing EXCEPT !["reader"] = x]
  BY <1>1, <1>2, RestIs, HandIs, SettledParts DEF Hand, Steps
<1> QED
  BY <1>1, <1>2, <1>3, RestIs, Moved

\* A cluster update that is compared.
LEMMA CompareSettles ==
  ASSUME IInv, Commands', NEW c \in Clusters, ClusterCompare(c)
  PROVE  Settled'
<1> DEFINE queued == CollectExplicit(c.items)
<1>1. /\ doing["reader"].at = "idle" /\ control \notin Early /\ Input
      /\ UNCHANGED <<control, wsOpen, putStop, putQueue, encoded, newest, sent, fromCloud,
                     memory, volume, ctxVars, notes>>
  BY ReadingIs DEF ClusterCompare, ReaderUnchanged
<1>2. inputs' \in 0 .. MaxEvents
  BY <1>1, InputIs
<1>3. queued \in Seq(Tracks) /\ IsInjectiveSeq(queued)
  BY CollectedTracks, ReportAssumption
<1> HIDE DEF queued
<1>4. CASE queued # <<>> /\ queued # queue
  <2>1. PICK r : r = [Blank EXCEPT !.queue = queued, !.track = c.active]
    OBVIOUS
  <2>2. r \in Reports
    <3>1. PICK T : T = Tracks \cup {None} \cup {d.active : d \in Clusters}
      OBVIOUS
    <3>2. c.active \in T
      BY <3>1
    <3> QED
      BY <1>3, <2>1, <3>1, <3>2, IdleHand DEF Reports
  <2>3. r.n = 0 /\ r.queue = queued
    BY <2>1 DEF Blank
  <2>4. doing' = [doing EXCEPT !["reader"] = [at |-> "echo", r |-> r]] /\ UNCHANGED isActive
    BY <1>4, <2>1 DEF ClusterCompare, queued
  <2>5. [at |-> "echo", r |-> r] \in Hand
    BY <2>2 DEF Hand, Steps
  <2>6. PICK x \in Hand : x = [at |-> "echo", r |-> r]
    BY <2>5
  <2>7. /\ x.at = "echo" /\ x.r.n = 0 /\ IsInjectiveSeq(x.r.queue)
        /\ doing' = [doing EXCEPT !["reader"] = x]
    BY <1>3, <2>3, <2>4, <2>6
  <2>8. "reader" \in Threads \ {"starter"} /\ "reader" \notin Hosts
    BY OwnThreads
  <2>9. /\ notes' = notes /\ notes \in 0 .. MaxNotes /\ notes <= notes /\ x.r.n <= notes
        /\ isActive' \in BOOLEAN
    BY <1>1, <2>4, <2>7, SettingsAre
  <2>10. /\ memory' \in [n : 0 .. MaxNotes, track : Tracks \cup {None}] /\ memory'.n <= notes'
         /\ putQueue' \in Seq(Reports) /\ Len(putQueue') <= PutLimit
         /\ \A i \in 1 .. Len(putQueue') : putQueue'[i].n <= notes'
         /\ newest' \in 0 .. notes'
    BY <1>1, <2>8, RestIs
  <2> QED
    BY <1>1, <1>2, <2>7, <2>8, <2>9, <2>10, Moved
<1>5. CASE ~(queued # <<>> /\ queued # queue)
  <2>1. UNCHANGED doing /\ isActive' \in BOOLEAN
    BY <1>5, SettingsAre DEF ClusterCompare, Stay, queued
  <2> QED
    BY <1>1, <1>2, <2>1, SettingsAre, Quiet
<1> QED
  BY <1>4, <1>5

\* A cluster update that is taken over.
LEMMA ReplaceSettles ==
  ASSUME IInv, Commands', ClusterReplace
  PROVE  Settled'
<1> USE SettledParts
<1>1. /\ doing["reader"].at = "echo"
      /\ UNCHANGED <<control, wsOpen, putStop, putQueue, encoded, newest, sent,
                     memory, volume, at, options, silent, notes, inputs>>
  BY DEF ClusterReplace, ReaderUnchanged, Busy
<1>2. PICK q \in Seq(Tracks) : q = doing["reader"].r.queue /\ IsInjectiveSeq(q)
  BY <1>1, OwnThreads, HandIs, ReportFields DEF QueueOnce
<1>3. queue' = q /\ fromCloud' = q /\ isActive' \in BOOLEAN
  BY <1>2, SettingsAre DEF ClusterReplace, TakeOver
<1>4. "reader" \in Threads \ {"starter"} /\ "reader" \notin Hosts
  BY OwnThreads
<1>5. PICK x \in Hand : /\ doing' = [doing EXCEPT !["reader"] = x]
                        /\ x.at \in {"idle", "encode"} /\ x.r.n <= notes
  <2>1. CASE About("reader", Current)
    BY <1>4, <2>1, CurrentIs, AboutIs
  <2>2. CASE Rest("reader")
    BY <1>4, <2>2, RestIs DEF Rest
  <2> QED
    BY <2>1, <2>2 DEF ClusterReplace
<1>6. PICK d : d = doing'
  OBVIOUS
<1>7. /\ d \in [Threads -> Hand] /\ d["reader"] = x
      /\ \A u \in Threads \ {"reader"} : d[u] = doing[u]
  BY <1>4, <1>5, <1>6, DoingIs
<1>8. TypeOK'
  BY <1>1, <1>3, <1>6, <1>7 DEF TypeOK, Commands, Hand, Steps
<1>9. Stations'
  BY <1>1, <1>6, <1>7, OwnThreads DEF Stations
<1>10. Tellings'
  BY <1>1, <1>5 DEF Tellings
<1>11. QueueOnce'
  BY <1>2, <1>3, <1>5 DEF QueueOnce
<1>12. VolumeTold'
  BY <1>1 DEF VolumeTold, Shown
<1>13. ContextTold'
  <2>1. Suffix(queue', fromCloud')
    BY <1>3, SuffixSelf
  <2>2. Told => Told'
    BY <1>1, <2>1 DEF Told
  <2>3. ~Pending("reader")
    BY <1>1 DEF Pending
  <2>4. Pending("resolver") => Pending("resolver")'
    BY <1>6, <1>7, OwnThreads DEF Pending
  <2> QED
    BY <1>1, <2>2, <2>3, <2>4 DEF ContextTold
<1>14. Merged'
  BY <1>1, <1>5, <1>6, <1>7 DEF Merged
<1> QED
  BY <1>8, <1>9, <1>10, <1>11, <1>12, <1>13, <1>14 DEF Settled

\* What is advertised is a list of tracks.
LEMMA AdvertisedIs ==
  ASSUME IInv, NEW track
  PROVE  Advertised(track) \in Seq(Tracks)
<1>1. /\ List \in Seq(Tracks) /\ at \in 0 .. Len(List) /\ Len(List) \in Nat
      /\ queue \in Seq(Tracks)
  <2>1. List \in Seq(Members(List)) /\ Members(List) \subseteq Tracks
    BY ReportAssumption DEF Tracks
  <2> QED
    BY <2>1, SettingsAre
<1>2. Upcoming \in Seq(Tracks)
  BY <1>1 DEF Upcoming
<1>3. PICK s : s = queue \o Upcoming
  OBVIOUS
<1>4. s \in Seq(Tracks)
  BY <1>1, <1>2, <1>3
<1>5. Distinct(Without(s, track)) \in Seq(Tracks)
  BY <1>4, WithoutHas, DistinctOnce
<1> QED
  BY <1>2, <1>3, <1>5 DEF Advertised

\* What a snapshot holds.
LEMMA ContentsAre ==
  ASSUME IInv, NEW r \in Reports
  PROVE  /\ Contents(r) \in Reports /\ Contents(r).n = r.n /\ Contents(r).track = r.track
         /\ Contents(r).first = r.first /\ Contents(r).volume = Shown(volume)
         /\ r.track # None => Contents(r).options = options /\ Contents(r).queue = queue
         /\ r.track # None /\ IsInjectiveSeq(List) => Sound(Contents(r))
<1>1. PICK v \in 0 .. MaxVolume : v = Shown(volume)
  BY SettingsAre, ReportAssumption DEF Shown
<1>2. PICK b : b = [r EXCEPT !.volume = v]
  OBVIOUS
<1>3. /\ b \in Reports /\ b.n = r.n /\ b.track = r.track /\ b.first = r.first /\ b.volume = v
  BY <1>2 DEF Reports
<1>4. CASE r.track = None
  BY <1>1, <1>2, <1>3, <1>4 DEF Contents
<1>5. CASE r.track # None
  <2>1. PICK o \in BOOLEAN : o = options
    BY SettingsAre
  <2>2. PICK q \in Seq(Tracks) : q = queue
    BY SettingsAre
  <2>0. PICK a \in Seq(Tracks) : a = Advertised(r.track)
    BY AdvertisedIs
  <2>3. PICK c : c = [b EXCEPT !.options = o, !.queue = q, !.next = a]
    OBVIOUS
  <2>4. /\ c \in Reports /\ c.n = b.n /\ c.track = b.track /\ c.first = b.first
        /\ c.volume = b.volume /\ c.options = o /\ c.queue = q /\ c.next = a
    BY <1>3, <2>3 DEF Reports
  <2>5. Contents(r) = c
    BY <1>1, <1>2, <1>5, <2>0, <2>1, <2>2, <2>3 DEF Contents
  <2>6. ASSUME IsInjectiveSeq(List)
        PROVE  Sound(c)
    <3>1. /\ IsInjectiveSeq(a)
          /\ r.track \in Members(a) \/ Members(queue) \ {r.track} \subseteq Members(a)
      BY <2>0, <2>6, SettingsAre, AdvertisedCovers
    <3> QED
      BY <1>3, <2>2, <2>4, <3>1 DEF Sound, Advertises
  <2> QED
    BY <1>1, <1>3, <2>1, <2>2, <2>4, <2>5, <2>6
<1> QED
  BY <1>4, <1>5

\* A snapshot is taken: what it holds is what the device has.
LEMMA EncodeSettles ==
  ASSUME IInv, Commands', NEW t \in Threads, Encode(t)
  PROVE  Settled'
<1> USE SettledParts
<1>1. PICK r : r = Contents(doing[t].r)
  OBVIOUS
<1>2. /\ doing[t].at = "encode"
      /\ doing' = [doing EXCEPT ![t] = [at |-> "put", r |-> r]]
      /\ encoded' = (IF r.track = None
                       THEN [encoded EXCEPT !.volume = r.volume, !.first = r.first]
                       ELSE [r EXCEPT !.n = 0])
      /\ silent' = (silent /\ r.track = None)
      /\ sent' = (IF t = "worker" THEN r.n ELSE sent)
      /\ UNCHANGED <<control, wsOpen, putStop, putQueue, memory, volume, isActive, at, options,
                     queue, fromCloud, newest, notes, inputs>>
  BY <1>1 DEF Encode, Busy
<1>3. /\ r \in Reports /\ r.n = doing[t].r.n /\ r.track = doing[t].r.track
      /\ r.first = doing[t].r.first /\ r.volume = Shown(volume)
      /\ r.track # None => r.options = options /\ r.queue = queue
      /\ r.track # None /\ IsInjectiveSeq(List) => Sound(r)
  BY <1>1, HandIs, ContentsAre
<1>4. r.n <= notes /\ r.n \in 0 .. MaxNotes /\ r.volume \in 0 .. MaxVolume /\ r.first \in BOOLEAN
  BY <1>3, ReportFields DEF Tellings
<1>5. PICK x \in Hand : x = [at |-> "put", r |-> r]
  BY <1>3 DEF Hand, Steps
<1>6. x.at = "put" /\ x.r = r /\ doing' = [doing EXCEPT ![t] = x]
  BY <1>2, <1>5
<1>7. PICK d : d = doing'
  OBVIOUS
<1>8. d \in [Threads -> Hand] /\ d[t] = x /\ \A u \in Threads \ {t} : d[u] = doing[u]
  BY <1>6, <1>7, DoingIs
<1>9. PICK e : e = encoded'
  OBVIOUS
<1>10. /\ e \in Reports /\ e.volume = r.volume /\ e.first = r.first
       /\ r.track = None => /\ e.options = encoded.options /\ e.queue = encoded.queue
                            /\ e.next = encoded.next /\ e.track = encoded.track
       /\ r.track # None => /\ e.options = options /\ e.queue = queue
                            /\ e.queue = r.queue /\ e.next = r.next /\ e.track = r.track
  <2>1. encoded \in Reports
    BY DEF TypeOK
  <2>2. CASE r.track = None
    <3>1. e = [encoded EXCEPT !.volume = r.volume, !.first = r.first]
      BY <1>2, <1>9, <2>2
    <3> QED
      BY <1>4, <2>1, <2>2, <3>1 DEF Reports
  <2>3. CASE r.track # None
    <3>1. e = [r EXCEPT !.n = 0]
      BY <1>2, <1>9, <2>3
    <3>2. 0 \in 0 .. MaxNotes
      BY ReportAssumption
    <3>3. e \in Reports
      BY <1>3, <3>1, <3>2 DEF Reports
    <3>4. /\ e.volume = r.volume /\ e.first = r.first /\ e.options = r.options
          /\ e.queue = r.queue /\ e.next = r.next /\ e.track = r.track
      BY <1>3, <3>1 DEF Reports
    <3> QED
      BY <1>3, <2>3, <3>3, <3>4
  <2> QED
    BY <2>2, <2>3
<1>11. sent' \in 0 .. notes
  BY <1>2, <1>4, SettingsAre DEF TypeOK
<1>12. TypeOK'
  <2>1. silent' \in BOOLEAN
    BY <1>2, Zenon
  <2> QED
    BY <1>2, <1>7, <1>8, <1>9, <1>10, <1>11, <2>1 DEF TypeOK, Commands, Hand
<1>13. Stations'
  <2>1. control = "starting" => e.first
    BY <1>2, <1>3, <1>10 DEF Stations, Early, Threads, Own
  <2>2. t = "starter" => d[t].r.first
    BY <1>2, <1>3, <1>6, <1>8 DEF Stations
  <2> QED
    BY <1>2, <1>9, <2>1 DEF Stations
<1>14. Tellings'
  BY <1>2, <1>4 DEF Tellings
<1>15. QueueOnce'
  BY <1>2 DEF QueueOnce
<1>16. VolumeTold'
  BY <1>2, <1>3 DEF VolumeTold
<1>17. ContextTold'
  <2>1. CASE r.track # None
    <3>1. encoded'.options = options' /\ encoded'.queue = queue' /\ queue' \in Seq(Tracks)
      BY <1>2, <1>9, <1>10, <2>1, SettingsAre
    <3>2. Suffix(queue', encoded'.queue)
      BY <3>1, SuffixSelf
    <3> QED
      BY <3>1, <3>2 DEF ContextTold, Told
  <2>2. CASE r.track = None
    <3>1. ~Pending(t)
      BY <1>3, <2>2 DEF Pending
    <3>2. \A u \in {"reader", "resolver"} : Pending(u) => Pending(u)'
      BY <1>7, <1>8, <3>1, OwnThreads DEF Pending
    <3>3. Told => Told'
      BY <1>2, <1>9, <1>10, <2>2 DEF Told
    <3>4. silent' = silent
      BY <1>2, <2>2, SettingsAre, Zenon
    <3> QED
      BY <1>2, <3>2, <3>3, <3>4 DEF ContextTold
  <2> QED
    BY <2>1, <2>2
<1>18. Merged'
  <2> SUFFICES ASSUME IsInjectiveSeq(List)
               PROVE  /\ Sound(e)
                      /\ \A u \in Threads :
                           d[u].at = "put" /\ d[u].r.track # None => Sound(d[u].r)
    BY <1>7, <1>9 DEF Merged, Sound, Advertises
  <2>1. CASE r.track # None
    BY <1>3, <1>6, <1>8, <1>10, <2>1, ZenonT(30) DEF Merged, Sound, Advertises
  <2>2. CASE r.track = None
    BY <1>6, <1>8, <1>10, <2>2, ZenonT(30) DEF Merged, Sound, Advertises
  <2> QED
    BY <2>1, <2>2
<1> QED
  BY <1>12, <1>13, <1>14, <1>15, <1>16, <1>17, <1>18 DEF Settled

\* The announcement is begun.
LEMMA ConnectSettles ==
  ASSUME IInv, Commands', Connect
  PROVE  Settled'
<1> USE SettledParts
<1>1. /\ control = "off" /\ control' = "starting" /\ wsOpen' = TRUE
      /\ UNCHANGED <<putStop, putQueue, memory, volume, isActive, at, options, queue, silent,
                     encoded, fromCloud, newest, sent, notes, inputs>>
  BY DEF Connect, ctxVars
<1>2. PICK r : r = [Blank EXCEPT !.first = TRUE]
  OBVIOUS
<1>3. r \in Reports /\ r.first = TRUE /\ r.n = 0
  BY <1>2, IdleHand DEF Reports, Blank
<1>4. PICK x \in Hand : x = [at |-> "encode", r |-> r]
  BY <1>3 DEF Hand, Steps
<1>5. x.at = "encode" /\ x.r = r /\ doing' = [doing EXCEPT !["starter"] = x]
  BY <1>2, <1>4 DEF Connect
<1>6. PICK d : d = doing'
  OBVIOUS
<1>7. /\ d \in [Threads -> Hand] /\ d["starter"] = x
      /\ \A u \in Threads \ {"starter"} : d[u] = doing[u]
  BY <1>5, <1>6, OwnThreads, DoingIs
<1>8. TypeOK'
  BY <1>1, <1>6, <1>7 DEF TypeOK, Commands, Hand, Steps
<1>9. Stations'
  BY <1>1, <1>3, <1>5, <1>6, <1>7, OwnThreads DEF Stations, Early
<1>10. Tellings'
  BY <1>1, <1>3, <1>5, SettingsAre DEF Tellings
<1>11. QueueOnce'
  BY <1>1, <1>6, <1>7, OwnThreads DEF QueueOnce
<1>12. VolumeTold'
  BY <1>1 DEF VolumeTold
<1>13. ContextTold'
  BY <1>1, <1>6, <1>7, OwnThreads DEF ContextTold, Told, Pending
<1>14. Merged'
  BY <1>1, <1>5, <1>6, <1>7 DEF Merged
<1> QED
  BY <1>8, <1>9, <1>10, <1>11, <1>12, <1>13, <1>14 DEF Settled

\* It is accepted: until the next report it stands for itself.
LEMMA StartedSettles ==
  ASSUME IInv, Commands', Started
  PROVE  Settled'
<1> USE SettledParts
<1>1. /\ doing["starter"].at = "put" /\ volume' = InitialVolume /\ control' = "started"
      /\ putStop' = FALSE
      /\ doing' = [doing EXCEPT !["starter"] = Idle, !["reader"] = Idle, !["worker"] = Idle]
      /\ UNCHANGED <<wsOpen, putQueue, memory, isActive, at, options, queue, silent, encoded,
                     fromCloud, newest, sent, notes, inputs>>
  BY DEF Started, Busy, ctxVars
<1>2. control = "starting" /\ encoded.first
  BY <1>1 DEF Stations
<1>3. PICK d : d = doing'
  OBVIOUS
<1>4. /\ d \in [Threads -> Hand]
      /\ d["starter"] = Idle /\ d["reader"] = Idle /\ d["worker"] = Idle
      /\ \A u \in Threads \ {"starter", "reader", "worker"} : d[u] = doing[u]
  BY <1>1, <1>3, OwnThreads, HandIs, IdleHand
<1>5. volume' \in 0 .. MaxVolume
  BY <1>1, ReportAssumption
<1>6. TypeOK'
  BY <1>1, <1>3, <1>4, <1>5 DEF TypeOK, Commands, Hand, Steps
<1>7. Stations'
  BY <1>1, <1>3, <1>4, IdleHand, OwnThreads DEF Stations, Early
<1>8. Tellings'
  <2>1. \A u \in Threads : d[u].r.n <= notes
    BY <1>4, IdleHand, SettingsAre DEF Tellings
  <2> QED
    BY <1>1, <1>3, <2>1 DEF Tellings
<1>9. QueueOnce'
  BY <1>1, <1>3, <1>4, IdleHand DEF QueueOnce
<1>10. VolumeTold'
  BY <1>1, <1>2 DEF VolumeTold
<1>11. ContextTold'
  BY <1>1 DEF ContextTold, Told, Pending, Stations, Early
<1>12. Merged'
  BY <1>1, <1>3, <1>4, IdleHand DEF Merged
<1> QED
  BY <1>6, <1>7, <1>8, <1>9, <1>10, <1>11, <1>12 DEF Settled

\* It is refused.
LEMMA RefusedSettles ==
  ASSUME IInv, Commands', Refused
  PROVE  Settled'
<1> USE SettledParts
<1>1. /\ doing["starter"].at = "put" /\ control' = "failed" /\ wsOpen' = FALSE
      /\ doing' = [doing EXCEPT !["starter"] = Idle]
      /\ UNCHANGED <<putStop, putQueue, memory, volume, isActive, at, options, queue, silent,
                     encoded, fromCloud, newest, sent, notes, inputs>>
  BY DEF Refused, Busy, Rest, ctxVars
<1>2. control = "starting"
  BY <1>1 DEF Stations
<1>3. PICK d : d = doing'
  OBVIOUS
<1>4. /\ d \in [Threads -> Hand] /\ d["starter"] = Idle
      /\ \A u \in Threads \ {"starter"} : d[u] = doing[u]
  BY <1>1, <1>3, OwnThreads, IdleHand, DoingIs
<1>5. TypeOK'
  BY <1>1, <1>3, <1>4 DEF TypeOK, Commands, Hand, Steps
<1>6. Stations'
  BY <1>1, <1>3, <1>4, IdleHand DEF Stations, Early
<1>7. Tellings'
  BY <1>1, IdleHand, SettingsAre DEF Tellings
<1>8. QueueOnce'
  BY <1>1 DEF QueueOnce
<1>9. VolumeTold'
  BY <1>1 DEF VolumeTold
<1>10. ContextTold'
  BY <1>1 DEF ContextTold, Told, Pending
<1>11. Merged'
  BY <1>1, <1>3, <1>4, IdleHand DEF Merged
<1> QED
  BY <1>5, <1>6, <1>7, <1>8, <1>9, <1>10, <1>11 DEF Settled

\* A start that fails before it announces anything, the steps of stop, and a socket
\* that is lost.
LEMMA StopSettles ==
  ASSUME IInv, Commands', ConnectFails \/ StopClose \/ StopJoin \/ StopClear \/ StopEnd \/ Lost
  PROVE  Settled'
<1>1. /\ UNCHANGED <<doing, memory, volume, isActive, ctxVars, encoded, fromCloud, newest,
                     sent, notes>>
      /\ wsOpen' \in BOOLEAN /\ putStop' \in BOOLEAN /\ putQueue' \in {putQueue, <<>>}
  BY SettingsAre DEF ConnectFails, StopClose, StopJoin, StopClear, StopEnd, Lost, StopUnchanged
<1>2. \/ control' = control
      \/ /\ control' \in {"failed", "closed", "joined", "cleared", "ended"}
         /\ control # "starting" /\ (control' \in Early => control \in Early)
  BY DEF ConnectFails, StopClose, StopJoin, StopClear, StopEnd, Lost, Early
<1>3. inputs' = inputs \/ Input
  BY DEF ConnectFails, StopClose, StopJoin, StopClear, StopEnd, Lost, StopUnchanged
<1>4. inputs' \in 0 .. MaxEvents
  BY <1>1, <1>3, InputIs, SettingsAre
<1>5. isActive' \in BOOLEAN
  BY <1>1, SettingsAre
<1> QED
  BY <1>1, <1>2, <1>4, <1>5, Quiet

-----------------------------------------------------------------------------
(* The invariant, and what follows from it.                                *)

\* The invariant holds initially.
LEMMA InitKeeps ==
  ASSUME Init
  PROVE  IInv
<1> USE DEF Init
<1>1. Commands
  <2>1. <<>> \in Seq(Requests) /\ <<>> \in Seq({r.key : r \in Requests}) /\ Len(<<>>) = 0
    OBVIOUS
  <2>2. 0 <= Window
    BY ReportAssumption
  <2>3. lastNumber \in [Senders -> Nat]
    OBVIOUS
  <2>4. Members(served) = {}
    BY DEF Members
  <2> QED
    BY <2>2, <2>4 DEF Commands
<1>2. /\ DefaultVolume \in 0 .. MaxVolume /\ 0 \in 0 .. MaxNotes /\ 0 \in 0 .. MaxEvents
      /\ 0 \in 0 .. Len(List) /\ PutLimit \in Nat /\ Window \in Nat
      /\ <<>> \in Seq(Tracks) /\ <<>> \in Seq(Reports) /\ Len(<<>>) = 0
  BY ReportAssumption
<1>3. doing \in [Threads -> Hand] /\ \A t \in Threads : doing[t].r = Blank
  <2>1. PICK x : x = [Idle EXCEPT !.at = "none"]
    OBVIOUS
  <2>2. x \in Hand /\ x.r = Idle.r /\ Idle.r = Blank
    BY <2>1, IdleHand DEF Hand, Steps, Idle
  <2> QED
    BY <2>1, <2>2, IdleHand
<1>4. /\ doing["reader"].at = "none" /\ doing["worker"].at = "none"
      /\ doing["starter"].at = "idle" /\ doing["resolver"].at = "idle"
      /\ \A h \in Hosts : doing[h].at = "idle"
  BY OwnThreads DEF Idle
<1>5. TypeOK
  <2>1. memory \in [n : 0 .. MaxNotes, track : Tracks \cup {None}]
    BY <1>2
  <2>2. doing \in [Threads -> [at : {"none", "idle", "echo", "queue", "encode", "put", "gone"},
                               r : Reports]]
    BY <1>3 DEF Hand, Steps
  <2>3. encoded \in Reports /\ lastNumber \in [Senders -> Nat]
    BY IdleHand
  <2>4. /\ wsOpen \in BOOLEAN /\ putStop \in BOOLEAN /\ isActive \in BOOLEAN
        /\ options \in BOOLEAN /\ silent \in BOOLEAN
    OBVIOUS
  <2>5. newest \in 0 .. notes /\ sent \in 0 .. notes /\ at \in 0 .. Len(List)
    BY <1>2
  <2>6. Len(putQueue) <= PutLimit /\ Len(recentKeys) <= Window /\ putQueue \in Seq(Reports)
    BY <1>2
  <2>7. /\ control = "off" /\ volume \in 0 .. MaxVolume /\ queue \in Seq(Tracks)
        /\ notes \in 0 .. MaxNotes /\ inputs \in 0 .. MaxEvents
    BY <1>2
  <2> HIDE DEF Init
  <2> QED
    BY <2>1, <2>2, <2>3, <2>4, <2>5, <2>6, <2>7 DEF TypeOK
<1>6. Stations
  BY <1>4 DEF Stations, Early
<1>7. Tellings
  <2>1. Blank.n = 0
    BY DEF Blank
  <2> QED
    BY <1>3, <2>1 DEF Tellings
<1>8. QueueOnce
  BY <1>2, <1>4 DEF QueueOnce, IsInjectiveSeq
<1>9. VolumeTold
  BY DEF VolumeTold
<1>10. ContextTold
  BY DEF ContextTold
<1>11. Merged
  <2>1. \A t \in Threads : doing[t].at # "put"
    BY DEF Idle
  <2>2. IsInjectiveSeq(Blank.next) /\ Members(Blank.queue) = {}
    BY DEF Blank, IsInjectiveSeq, Members
  <2> QED
    BY <2>1, <2>2 DEF Merged, Sound, Advertises
<1> QED
  BY <1>1, <1>5, <1>6, <1>7, <1>8, <1>9, <1>10, <1>11 DEF IInv, Settled

\* Every step keeps it.
LEMMA NextKeeps ==
  ASSUME IInv, [Next]_vars
  PROVE  IInv'
<1>1. Commands'
  BY SettledParts, CommandsNext
<1> SUFFICES Settled'
  BY <1>1 DEF IInv
<1>2. CASE UNCHANGED vars
  BY <1>2
  DEF IInv, Settled, TypeOK, Stations, Tellings, QueueOnce, VolumeTold, ContextTold,
      Told, Pending, Merged, vars, ctxVars, commandVars
<1>3. CASE Connect
  BY <1>1, <1>3, ConnectSettles
<1>4. CASE Started
  BY <1>1, <1>4, StartedSettles
<1>5. CASE Refused
  BY <1>1, <1>5, RefusedSettles
<1>6. CASE ConnectFails \/ StopClose \/ Stop \/ Lost
  BY <1>1, <1>6, StopSettles DEF Stop
<1>7. CASE \E h \in Hosts : Notify(h)
  BY <1>1, <1>7, NotifySettles
<1>8. CASE \E t \in Threads : Encode(t) \/ Put(t) \/ QueuePut(t)
  BY <1>1, <1>8, EncodeSettles, PutSettles, QueuePutSettles
<1>9. CASE WorkerTake \/ WorkerEnd
  BY <1>1, <1>9, WorkerSettles
<1>10. CASE ReaderEnd
  BY <1>1, <1>10, ReaderEndSettles
<1>11. CASE HandleRequest
  <2>1. PICK r \in Requests :
          \/ Ignore(r) \/ SetVolume(r) \/ AddToQueue(r) \/ SetQueue(r) \/ SetOptions(r)
          \/ SkipNext(r) \/ SkipPrev(r) \/ PauseResumeSeek(r) \/ PlayTransfer(r)
          \/ Unhandled(r)
    BY <1>11 DEF HandleRequest
  <2> QED
    BY <1>1, <2>1, SetVolumeSettles, AddToQueueSettles, SetQueueSettles, SetOptionsSettles,
       SkipSettles, PauseResumeSeekSettles, PlayTransferSettles, UnhandledSettles
<1>12. CASE HandleMessage
  BY <1>1, <1>12, VolumeMessageSettles, CompareSettles, ReplaceSettles DEF HandleMessage
<1>13. CASE RestoreContext \/ Resolve
  BY <1>1, <1>13, RestoreSettles, ResolveSettles
<1>14. CASE PlayerAdvance \/ ClearContext
  BY <1>1, <1>14, AdvanceSettles
<1> QED
  BY <1>2, <1>3, <1>4, <1>5, <1>6, <1>7, <1>8, <1>9, <1>10, <1>11, <1>12, <1>13, <1>14 DEF Next

\* The inductive invariant of everything below: the window of remembered keys against
\* what has been carried out, and the settings against what is reported of them.
THEOREM ReportInductive == Spec => []IInv
<1>1. Init => IInv
  BY InitKeeps
<1>2. IInv /\ [Next]_vars => IInv'
  BY NextKeeps
<1> QED
  BY <1>1, <1>2, PTL DEF Spec

\* Every variable has its type: no report names a telling that is still to come, the
\* queue of reports keeps within kMaxPendingPuts, and the window of keys within
\* kMaxRecentCommandKeys.
THEOREM ReportTypes == Spec => []TypeOK
<1>1. IInv => TypeOK
  BY DEF IInv, Settled
<1> QED
  BY <1>1, ReportInductive, PTL

\* Commands are carried out once and in the order of their numbers, however the dealer
\* repeats and reorders them (handle_request, remember_command_key and
\* remember_command_message_order).
THEOREM ReportCommandsOnce == Spec => []CommandsOnce
<1>1. IInv => CommandsOnce
  BY CommandsAreOnce DEF IInv
<1> QED
  BY <1>1, ReportInductive, PTL

\* Once the threads that report of their own have taken their snapshots, the last one has
\* the volume, and unless play, transfer or a restored context have been at the context
\* since, the options and what is left of the queue (put_state).
THEOREM ReportSettings == Spec => []SettingsReported
<1>1. IInv => SettingsReported
  <2> SUFFICES ASSUME IInv, control = "started", ~encoded.first,
                      \A t \in Direct : ~Busy(t, "encode")
               PROVE  /\ encoded.volume = Shown(volume)
                      /\ at # 0 /\ ~silent =>
                           /\ encoded.options = options
                           /\ \/ Suffix(queue, fromCloud)
                              \/ IsInjectiveSeq(List) => Advertises(encoded, queue)
    BY DEF SettingsReported
  <2>1. doing["reader"].at # "encode" /\ doing["resolver"].at # "encode"
    BY DEF Direct, Busy
  <2>2. encoded.volume = Shown(volume)
    BY <2>1, SettledParts DEF VolumeTold
  <2>3. at # 0 /\ ~silent => Told
    BY <2>1, SettledParts DEF ContextTold, Pending
  <2>4. ASSUME Suffix(queue, encoded.queue), IsInjectiveSeq(List)
        PROVE  Advertises(encoded, queue)
    <3>1. queue \in Seq(Tracks) /\ encoded.queue \in Seq(Tracks)
      BY SettledParts, ReportFields DEF TypeOK
    <3>2. Members(queue) \subseteq Members(encoded.queue)
      BY <2>4, <3>1, SuffixMembers
    <3>3. Advertises(encoded, encoded.queue)
      BY <2>4, SettledParts DEF Merged, Sound
    <3> QED
      BY <3>2, <3>3 DEF Advertises
  <2> QED
    BY <2>2, <2>3, <2>4 DEF Told
<1> QED
  BY <1>1, ReportInductive, PTL

\* The explicit queue has no track twice, and a report that does not name its own track
\* as yet to come names all of the queue, and nothing twice (effective_next_tracks).
THEOREM ReportQueue == Spec => []QueueAdvertised
<1>1. IInv => QueueAdvertised
  BY SettledParts DEF QueueAdvertised, QueueOnce, Merged, Sound, Busy
<1> QED
  BY <1>1, ReportInductive, PTL

=============================================================================
