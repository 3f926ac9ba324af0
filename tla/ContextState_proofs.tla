------------------------ MODULE ContextState_proofs ------------------------
(***************************************************************************)
(* Proofs about ContextState for every set of tracks, lists, continuations *)
(* and cloud orders: the position stays inside the list and the shuffle    *)
(* order stays a permutation of it (ContextSafe); toggling shuffle keeps   *)
(* the track that plays (ContextToggle); steps on repeat play every track  *)
(* once (ContextRoundTrip); and an append comes after all that was shown   *)
(* (ContextAppend).                                                        *)
(***************************************************************************)
EXTENDS ContextState, SequenceTheorems, FiniteSetTheorems, WellFoundedInduction, TLAPS

\* The inductive invariant: the order is complete because every operation
\* either rebuilds it for the new list or extends it by the new indices.
IInv == TypeOK /\ IndexInRange /\ OrderComplete

-----------------------------------------------------------------------------
(* Orders.                                                                 *)

\* An order of n tracks is a sequence of n indices.
LEMMA OrderFacts ==
  ASSUME NEW n \in Nat, NEW p \in Orders(n)
  PROVE  /\ p \in Seq(Nat \ {0}) /\ p \in [1..n -> 1..n] /\ Len(p) = n
         /\ n # 0 => p # <<>> /\ p[1] \in 1..n
<1>1. p \in [1..n -> 1..n]
  BY DEF Orders
<1>2. p \in Seq(Nat \ {0}) /\ Len(p) = n
  <2>1. \A i \in 1..n : p[i] \in Nat \ {0}
    BY <1>1
  <2>2. p \in [1..n -> Nat \ {0}]
    BY <1>1, <2>1
  <2> QED
    BY <2>2
<1>3. n # 0 => p[1] \in 1..n
  BY <1>1
<1> QED
  BY <1>1, <1>2, <1>3

\* Exchanging the first two tracks of an order gives an order.
LEMMA AvoidingIsOrder ==
  ASSUME NEW n \in Nat, NEW p \in Orders(n), NEW avoid
  PROVE  Avoiding(p, avoid) \in Orders(n)
<1>1. p \in [1..n -> 1..n] /\ Len(p) = n
  BY OrderFacts
<1>2. CASE ~(Len(p) > 1 /\ p[1] = avoid)
  BY <1>2 DEF Avoiding
<1>3. CASE Len(p) > 1 /\ p[1] = avoid
  <2> DEFINE q == [p EXCEPT ![1] = p[2], ![2] = p[1]]
  <2>1. n > 1 /\ 1 \in 1..n /\ 2 \in 1..n
    BY <1>1, <1>3
  <2>2. q \in [1..n -> 1..n]
    BY <1>1, <2>1
  <2>3. q[1] = p[2] /\ q[2] = p[1] /\ \A i \in 3..n : q[i] = p[i]
    BY <1>1, <2>1
  <2>4. \A i, j \in 1..n : p[i] = p[j] => i = j
    BY DEF Orders
  <2> HIDE DEF q
  <2>5. \A i, j \in 1..n : q[i] = q[j] => i = j
    <3> SUFFICES ASSUME NEW i \in 1..n, NEW j \in 1..n, q[i] = q[j]
                 PROVE  i = j
      OBVIOUS
    <3>1. (i = 1 \/ i = 2 \/ i \in 3..n) /\ (j = 1 \/ j = 2 \/ j \in 3..n)
      OBVIOUS
    <3>2. p[1] # p[2] /\ \A x \in 3..n : p[x] # p[1] /\ p[x] # p[2]
      BY <2>1, <2>4
    <3>3. CASE i \in 3..n /\ j \in 3..n
      BY <2>3, <2>4, <3>3
    <3>4. CASE i \notin 3..n
      BY <2>3, <3>1, <3>2, <3>4
    <3>5. CASE j \notin 3..n
      BY <2>3, <3>1, <3>2, <3>5
    <3> QED
      BY <3>3, <3>4, <3>5
  <2>6. Avoiding(p, avoid) = q
    BY <1>3 DEF Avoiding, q
  <2> QED
    BY <2>2, <2>5, <2>6 DEF Orders
<1> QED
  BY <1>2, <1>3

\* The sum of two sequences of naturals, index by index.
LEMMA ConcatFacts ==
  ASSUME NEW s \in Seq(Nat), NEW t \in Seq(Nat)
  PROVE  LET r == s \o t IN
         /\ r \in [1..(Len(s) + Len(t)) -> Nat]
         /\ \A i \in 1..Len(s) : r[i] = s[i]
         /\ \A i \in (Len(s) + 1)..(Len(s) + Len(t)) : r[i] = t[i - Len(s)]
<1> DEFINE r == s \o t
<1>1. r \in Seq(Nat) /\ Len(r) = Len(s) + Len(t)
  BY ConcatProperties
<1>2. r \in [1..Len(r) -> Nat]
  <2>1. \A u \in Seq(Nat) : u \in [1..Len(u) -> Nat]
    OBVIOUS
  <2> QED
    BY <1>1, <2>1, Zenon
<1>3. \A i \in 1..Len(r) : r[i] = IF i <= Len(s) THEN s[i] ELSE t[i - Len(s)]
  BY <1>1, ConcatProperties
<1>4. Len(s) \in Nat /\ Len(t) \in Nat
  OBVIOUS
<1> HIDE DEF r
<1>5. \A i \in 1..Len(s) : i \in 1..Len(r) /\ i <= Len(s)
  BY <1>1, <1>4
<1>6. \A i \in (Len(s) + 1)..(Len(s) + Len(t)) : i \in 1..Len(r) /\ ~(i <= Len(s))
  BY <1>1, <1>4
<1>7. /\ r \in [1..(Len(s) + Len(t)) -> Nat]
      /\ \A i \in 1..Len(s) : r[i] = s[i]
      /\ \A i \in (Len(s) + 1)..(Len(s) + Len(t)) : r[i] = t[i - Len(s)]
  BY <1>1, <1>2, <1>3, <1>5, <1>6
<1> QED
  BY <1>7 DEF r

\* An order of n tracks continued by an order of k more orders them all.
LEMMA ContinuedIsOrder ==
  ASSUME NEW n \in Nat, NEW p \in Orders(n), NEW k \in Nat, NEW q \in Orders(k),
         NEW r \in [1..(n + k) -> Nat],
         \A i \in 1..n : r[i] = p[i],
         \A i \in (n + 1)..(n + k) : r[i] = n + q[i - n]
  PROVE  r \in Orders(n + k)
<1>1. p \in [1..n -> 1..n]
  BY OrderFacts
<1>2. q \in [1..k -> 1..k] /\ \A i, j \in 1..k : q[i] = q[j] => i = j
  BY DEF Orders
<1>6. \A i \in (n + 1)..(n + k) : i - n \in 1..k
  OBVIOUS
<1>7. \A i \in (n + 1)..(n + k) : r[i] = n + q[i - n] /\ q[i - n] \in 1..k
  <2> SUFFICES ASSUME NEW i \in (n + 1)..(n + k)
               PROVE  r[i] = n + q[i - n] /\ q[i - n] \in 1..k
    OBVIOUS
  <2>1. i - n \in 1..k
    BY <1>6
  <2> QED
    BY <1>2, <2>1
<1>8. \A i \in 1..(n + k) : i \in 1..n \/ i \in (n + 1)..(n + k)
  OBVIOUS
<1>9. \A i \in 1..n : r[i] \in 1..n
  BY <1>1
<1>10. \A i \in (n + 1)..(n + k) : r[i] \in (n + 1)..(n + k)
  <2> SUFFICES ASSUME NEW i \in (n + 1)..(n + k) PROVE r[i] \in (n + 1)..(n + k)
    OBVIOUS
  <2> DEFINE x == q[i - n]
  <2>1. r[i] = n + x /\ x \in 1..k
    BY <1>7
  <2> HIDE DEF x
  <2> QED
    BY <2>1
<1>11. /\ \A i \in 1..n : i \in 1..(n + k) /\ i \notin (n + 1)..(n + k)
       /\ \A i \in (n + 1)..(n + k) : i \in 1..(n + k)
  OBVIOUS
<1>12. \A i \in 1..(n + k) : r[i] \in 1..(n + k)
  BY <1>8, <1>9, <1>10, <1>11, Zenon
<1>13. r \in [1..(n + k) -> 1..(n + k)]
  BY <1>12
<1>14. \A i, j \in 1..(n + k) : r[i] = r[j] => i = j
  <2> SUFFICES ASSUME NEW i \in 1..(n + k), NEW j \in 1..(n + k), r[i] = r[j]
               PROVE  i = j
    OBVIOUS
  <2>1. CASE i \in 1..n /\ j \in 1..n
    BY <2>1 DEF Orders
  <2>2. CASE i \in (n + 1)..(n + k) /\ j \in (n + 1)..(n + k)
    <3> DEFINE x == q[i - n]
               y == q[j - n]
    <3>0. n + x = n + y /\ x \in 1..k /\ y \in 1..k
      BY <1>7, <2>2
    <3> HIDE DEF x, y
    <3>1. x = y
      BY <3>0
    <3> USE DEF x, y
    <3>2. i - n = j - n
      BY <1>2, <1>6, <2>2, <3>1
    <3> QED
      BY <3>2
  <2>3. CASE ~(i \in 1..n <=> j \in 1..n)
    <3>1. i \in (n + 1)..(n + k) \/ i \in 1..n
      BY <1>8
    <3>2. j \in (n + 1)..(n + k) \/ j \in 1..n
      BY <1>8
    <3> QED
      BY <1>9, <1>10, <1>11, <2>3, <3>1, <3>2, Zenon
  <2> QED
    BY <1>8, <2>1, <2>2, <2>3
<1> QED
  BY <1>13, <1>14 DEF Orders

\* So does the sum of the sequences that append_tracks stores.
LEMMA ExtendedIsOrder ==
  ASSUME NEW n \in Nat, NEW p \in Orders(n), NEW k \in Nat, NEW q \in Orders(k)
  PROVE  p \o [i \in 1..k |-> n + q[i]] \in Orders(n + k)
<1> DEFINE tail == [i \in 1..k |-> n + q[i]]
<1> DEFINE r == p \o tail
<1>1. p \in [1..n -> 1..n] /\ Len(p) = n
  BY OrderFacts
<1>2. q \in [1..k -> 1..k]
  BY OrderFacts
<1>3. tail \in Seq(Nat) /\ Len(tail) = k
  <2>1. tail \in [1..k -> Nat]
    BY <1>2
  <2> HIDE DEF tail
  <2> QED
    BY <2>1
<1>4. p \in Seq(Nat)
  <2>1. p \in [1..n -> Nat]
    BY <1>1
  <2> QED
    BY <2>1
<1>5. \A i \in (n + 1)..(n + k) : tail[i - n] = n + q[i - n]
  <2>1. \A i \in (n + 1)..(n + k) : i - n \in 1..k
    OBVIOUS
  <2>2. \A i \in 1..k : tail[i] = n + q[i]
    OBVIOUS
  <2> HIDE DEF tail
  <2> QED
    BY <2>1, <2>2
<1> HIDE DEF tail
<1>7. /\ r \in [1..(Len(p) + Len(tail)) -> Nat]
      /\ \A i \in 1..Len(p) : r[i] = p[i]
      /\ \A i \in (Len(p) + 1)..(Len(p) + Len(tail)) : r[i] = tail[i - Len(p)]
  BY <1>3, <1>4, ConcatFacts
<1> HIDE DEF r
<1>8. /\ r \in [1..(n + k) -> Nat]
      /\ \A i \in 1..n : r[i] = p[i]
      /\ \A i \in (n + 1)..(n + k) : r[i] = tail[i - n]
  BY <1>1, <1>3, <1>7, Zenon
<1>9. r \in Orders(n + k)
  <2>1. \A i \in (n + 1)..(n + k) : r[i] = n + q[i - n]
    BY <1>5, <1>8
  <2> QED
    BY <1>8, <2>1, ContinuedIsOrder
<1> QED
  BY <1>9 DEF r, tail

\* Rebuilt orders and orders observed in the cloud are orders of the list.
LEMMA ShufflesAreOrders ==
  ASSUME NEW ts, NEW at, NEW has
  PROVE  Shuffles(ts, at, has) \subseteq Orders(Len(ts))
BY DEF Shuffles

\* What is walked is an order of the list, shuffled or not.
LEMMA WalkIsTotal ==
  ASSUME IInv
  PROVE  Walk \in [1..Len(tracks) -> 1..Len(tracks)] /\ Len(Walk) = Len(tracks)
<1>1. Len(tracks) \in Nat
  <2>1. tracks \in Seq(Tracks)
    BY DEF IInv, TypeOK
  <2> QED
    BY <2>1
<1>2. CASE options.shuffle /\ order # <<>>
  <2>1. order \in Orders(Len(tracks)) /\ Walk = order
    BY <1>2 DEF IInv, OrderComplete, Walk, PlayOrder
  <2> QED
    BY <1>1, <2>1, OrderFacts
<1>3. CASE ~(options.shuffle /\ order # <<>>)
  <2>1. Walk = [i \in 1..Len(tracks) |-> i]
    BY <1>3 DEF Walk, PlayOrder, Natural
  <2>2. Walk \in [1..Len(tracks) -> 1..Len(tracks)]
    BY <2>1
  <2>3. Len(Walk) = Len(tracks)
    BY <1>1, <2>1
  <2> QED
    BY <2>2, <2>3
<1> QED
  BY <1>2, <1>3

\* The place of an index in a walk is a positive number.
LEMMA PositionFacts ==
  ASSUME NEW walk, Len(walk) \in Nat, NEW at
  PROVE  Position(walk, at) \in 1..(Len(walk) + 1)
BY DEF Position

-----------------------------------------------------------------------------
(* The inductive invariant.                                                *)

LEMMA InitIInv == Init => IInv
<1> SUFFICES ASSUME Init PROVE IInv
  OBVIOUS
<1>1. tracks \in Seq(Tracks) /\ order \in Seq(Nat \ {0})
  <2>1. tracks = <<>> /\ order = <<>>
    BY DEF Init
  <2> QED
    BY <2>1, EmptySeq, Zenon
<1>2. skip \in [at : {"idle", "uri", "uid", "index", "read"},
                hint : Hints \cup {NoHint}, match : Uris \cup {""}]
  BY DEF Init, NoSkip
<1>3. options \in Options /\ ~options.shuffle
  BY DEF Init, Options
<1>4. /\ context = "" /\ index \in Nat \ {0} /\ hasIndex = FALSE /\ reorder = FALSE
  <2>1. context = "" /\ hasIndex = FALSE /\ reorder = FALSE
    BY Zenon DEF Init
  <2>2. index = 1
    BY Zenon DEF Init
  <2>3. index \in Nat \ {0}
    BY <2>2
  <2> QED
    BY <2>1, <2>3, Zenon
<1>5. TypeOK
  BY <1>1, <1>2, <1>3, <1>4 DEF TypeOK
<1> QED
  BY <1>3, <1>4, <1>5 DEF IInv, IndexInRange, OrderComplete

\* An order of the new list is a sequence of indices.
LEMMA OrderTyped ==
  ASSUME tracks' \in Seq(Tracks), order' \in Orders(Len(tracks'))
  PROVE  order' \in Seq(Nat \ {0})
<1>1. Len(tracks') \in Nat
  OBVIOUS
<1> QED
  BY <1>1, OrderFacts

\* Dropping the tracks.
LEMMA ForgetFacts ==
  ASSUME Forget
  PROVE  /\ tracks' \in Seq(Tracks) /\ index' \in Nat \ {0} /\ hasIndex' = FALSE
         /\ order' \in Seq(Nat \ {0}) /\ order' \in Orders(Len(tracks'))
<1>1. tracks' = <<>> /\ order' = <<>> /\ index' = 1 /\ hasIndex' = FALSE
  BY DEF Forget
<1>2. <<>> \in Orders(0)
  BY DEF Orders
<1> QED
  BY <1>1, <1>2

LEMMA SetContextIInv ==
  ASSUME IInv, NEW uri \in Contexts, SetContext(uri)
  PROVE  IInv'
<1>1. context' = uri /\ options' = options /\ skip' = skip /\ reorder' = reorder
  BY DEF SetContext, callVars
<1>2. CASE uri # context
  <2>1. Forget
    BY <1>2 DEF SetContext
  <2> QED
    BY <1>1, <2>1, ForgetFacts DEF IInv, TypeOK, IndexInRange, OrderComplete
<1>3. CASE uri = context
  <2>1. UNCHANGED <<tracks, index, hasIndex, order>>
    BY <1>3 DEF SetContext
  <2> QED
    BY <1>1, <2>1 DEF IInv, TypeOK, IndexInRange, OrderComplete
<1> QED
  BY <1>2, <1>3

LEMMA ClearIInv ==
  ASSUME IInv, Clear
  PROVE  IInv'
<1>1. context' = "" /\ skip' = skip /\ reorder' = reorder /\ Forget
  BY DEF Clear, callVars
<1>2. options' \in Options
  BY DEF Clear, Options
<1> QED
  BY <1>1, <1>2, ForgetFacts DEF IInv, TypeOK, IndexInRange, OrderComplete

LEMMA SetTracksIInv ==
  ASSUME IInv, NEW ts \in Lists, SetTracks(ts)
  PROVE  IInv'
<1>1. /\ tracks' = ts /\ index' = 1 /\ hasIndex' = FALSE
      /\ UNCHANGED <<context, options, skip, reorder>>
  BY DEF SetTracks, callVars
<1>2. tracks' \in Seq(Tracks)
  BY <1>1, ContextAssumption
<1>3. IF options.shuffle THEN order' \in Orders(Len(ts)) ELSE order' = <<>>
  BY ShufflesAreOrders DEF SetTracks
<1>4. order' \in Seq(Nat \ {0}) /\ OrderComplete'
  <2>1. CASE options.shuffle
    BY <1>1, <1>2, <1>3, <2>1, OrderTyped DEF OrderComplete
  <2>2. CASE ~options.shuffle
    BY <1>1, <1>3, <2>2 DEF OrderComplete
  <2> QED
    BY <2>1, <2>2
<1> QED
  <2>1. /\ context' \in Contexts \cup {""} /\ index' \in Nat \ {0} /\ hasIndex' = FALSE
        /\ options' \in Options /\ reorder' \in BOOLEAN
    <3>1. context \in Contexts \cup {""} /\ options \in Options /\ reorder \in BOOLEAN
      BY DEF IInv, TypeOK
    <3>2. index' = 1
      BY <1>1, Zenon
    <3>3. index' \in Nat \ {0}
      BY <3>2
    <3> QED
      BY <1>1, <3>1, <3>3, Zenon
  <2>2. TypeOK'
    BY <1>1, <1>2, <1>4, <2>1 DEF IInv, TypeOK
  <2> QED
    BY <1>4, <2>1, <2>2 DEF IInv, IndexInRange

LEMMA AppendTracksIInv ==
  ASSUME IInv, NEW new \in Continuations, AppendTracks(new)
  PROVE  IInv'
<1>1. tracks' = tracks \o new /\ UNCHANGED <<context, index, hasIndex, options, skip, reorder>>
  BY DEF AppendTracks, callVars
<1>2. tracks \in Seq(Tracks) /\ new \in Seq(Tracks)
  BY ContextAssumption DEF IInv, TypeOK
<1>3. /\ tracks' \in Seq(Tracks) /\ Len(tracks') = Len(tracks) + Len(new)
      /\ Len(tracks) \in Nat /\ Len(new) \in Nat
  BY <1>1, <1>2
<1>4. IndexInRange'
  <2>1. hasIndex => index \in 1..(Len(tracks) + Len(new))
    BY <1>3 DEF IInv, IndexInRange
  <2> QED
    BY <1>1, <1>3, <2>1 DEF IndexInRange
<1>5. order' \in Seq(Nat \ {0}) /\ OrderComplete'
  <2>1. CASE ~options.shuffle
    <3>1. order' = order
      BY <2>1 DEF AppendTracks
    <3> QED
      BY <1>1, <2>1, <3>1 DEF IInv, TypeOK, OrderComplete
  <2>2. CASE options.shuffle /\ order = <<>>
    <3>1. order' \in Orders(Len(tracks'))
      BY <2>2, ShufflesAreOrders DEF AppendTracks
    <3> QED
      BY <1>3, <3>1, OrderTyped DEF OrderComplete
  <2>3. CASE options.shuffle /\ order # <<>>
    <3>1. PICK p \in Orders(Len(new)) :
            order' = order \o [i \in 1..Len(new) |-> Len(tracks) + p[i]]
      BY <2>3 DEF AppendTracks
    <3>2. order \in Orders(Len(tracks))
      BY <2>3 DEF IInv, OrderComplete
    <3>3. order' \in Orders(Len(tracks'))
      BY <1>3, <3>1, <3>2, ExtendedIsOrder
    <3> QED
      BY <1>3, <3>3, OrderTyped DEF OrderComplete
  <2> QED
    BY <2>1, <2>2, <2>3
<1> QED
  BY <1>1, <1>3, <1>4, <1>5 DEF IInv, TypeOK

LEMMA SetOptionsIInv ==
  ASSUME IInv, NEW o \in Options, SetOptions(o)
  PROVE  IInv'
<1>1. options' = o /\ UNCHANGED <<context, tracks, index, hasIndex, skip, reorder>>
  BY DEF SetOptions, callVars
<1>2. o.shuffle \in BOOLEAN /\ options.shuffle \in BOOLEAN
  BY DEF IInv, TypeOK, Options
<1>3. tracks' \in Seq(Tracks)
  BY <1>1 DEF IInv, TypeOK
<1>4. order' \in Seq(Nat \ {0}) /\ OrderComplete'
  <2>1. CASE o.shuffle = options.shuffle
    <3>1. order' = order
      BY <2>1 DEF SetOptions
    <3> QED
      BY <1>1, <2>1, <3>1 DEF IInv, TypeOK, OrderComplete
  <2>2. CASE o.shuffle # options.shuffle /\ o.shuffle
    <3>1. order' \in Orders(Len(tracks'))
      BY <1>1, <2>2, ShufflesAreOrders DEF SetOptions
    <3> QED
      BY <1>3, <3>1, OrderTyped DEF OrderComplete
  <2>3. CASE o.shuffle # options.shuffle /\ ~o.shuffle
    <3>1. order' = <<>>
      BY <2>3 DEF SetOptions
    <3> QED
      BY <1>1, <2>3, <3>1 DEF OrderComplete
  <2> QED
    BY <2>1, <2>2, <2>3
<1> QED
  BY <1>1, <1>4 DEF IInv, TypeOK, IndexInRange

-----------------------------------------------------------------------------
(* The actions that only move.                                             *)

\* A move to an index of the list, with any order of the list, is safe.
LEMMA MoveIInv ==
  ASSUME IInv, UNCHANGED <<context, tracks, options>>, hasIndex' \in BOOLEAN,
         index' \in Nat \ {0}, hasIndex' => index' \in 1..Len(tracks),
         order' = order \/ order' \in Orders(Len(tracks)),
         skip' \in [at : {"idle", "uri", "uid", "index", "read"},
                    hint : Hints \cup {NoHint}, match : Uris \cup {""}],
         reorder' \in BOOLEAN
  PROVE  IInv'
<1>1. tracks' \in Seq(Tracks)
  BY DEF IInv, TypeOK
<1>2. order' \in Seq(Nat \ {0}) /\ OrderComplete'
  <2>1. CASE order' = order
    BY <2>1 DEF IInv, TypeOK, OrderComplete
  <2>2. CASE order' \in Orders(Len(tracks))
    BY <1>1, <2>2, OrderTyped DEF OrderComplete
  <2> QED
    BY <2>1, <2>2
<1> QED
  BY <1>1, <1>2 DEF IInv, TypeOK, IndexInRange

LEMMA FirstFacts ==
  ASSUME IInv, NEW field, NEW value, NEW i \in First(field, value)
  PROVE  i \in 1..Len(tracks) /\ i \in Nat \ {0} /\ tracks[i] \in Tracks
<1>1. tracks \in Seq(Tracks)
  BY DEF IInv, TypeOK
<1> QED
  BY <1>1 DEF First

LEMMA SetCurrentIInv ==
  ASSUME IInv, NEW uri, SetCurrentTrackUri(uri)
  PROVE  IInv'
<1>1. PICK i \in First("uri", uri) : MoveTo(i)
  BY DEF SetCurrentTrackUri
<1>2. /\ UNCHANGED <<order, skip, reorder, context, tracks, options>>
      /\ index' = i /\ hasIndex' = TRUE
  BY <1>1 DEF SetCurrentTrackUri, MoveTo, callVars
<1>3. i \in 1..Len(tracks) /\ i \in Nat \ {0}
  BY FirstFacts
<1>4. skip' = skip /\ reorder' \in BOOLEAN
  BY <1>2 DEF IInv, TypeOK
<1> QED
  BY <1>2, <1>3, <1>4, MoveIInv DEF IInv, TypeOK

LEMMA StartIInv ==
  ASSUME IInv, NEW avoid, StartContextPlayback(avoid)
  PROVE  IInv'
<1>1. tracks \in Seq(Tracks) /\ Len(tracks) \in Nat
  <2>1. tracks \in Seq(Tracks)
    BY DEF IInv, TypeOK
  <2> QED
    BY <2>1
<1>2. tracks # <<>>
  BY DEF StartContextPlayback
<1>3. Len(tracks) # 0
  BY <1>1, <1>2
<1>4. skip' = skip /\ reorder' = reorder
  BY DEF StartContextPlayback, callVars
<1>5. CASE ~options.shuffle
  <2>1. MoveTo(1) /\ order' = order
    BY <1>5 DEF StartContextPlayback
  <2>2. 1 \in 1..Len(tracks)
    BY <1>1, <1>3
  <2>3. index' = 1 /\ hasIndex' = TRUE /\ UNCHANGED <<context, tracks, options>>
    BY <2>1 DEF MoveTo
  <2>4. skip' \in [at : {"idle", "uri", "uid", "index", "read"},
                   hint : Hints \cup {NoHint}, match : Uris \cup {""}]
        /\ reorder' \in BOOLEAN
    BY <1>4 DEF IInv, TypeOK
  <2>5. index' \in 1..Len(tracks)
    BY <2>2, <2>3
  <2>6. hasIndex' \in BOOLEAN
    BY <2>3
  <2>7. index' \in Nat \ {0}
    BY <1>1, <2>5
  <2> QED
    BY <2>1, <2>3, <2>4, <2>5, <2>6, <2>7, MoveIInv, Zenon
<1>6. CASE options.shuffle
  <2>1. order' \in Orders(Len(tracks))
    <3>1. CASE order = <<>>
      <4>1. PICK p \in Shuffles(tracks, index, hasIndex) : order' = Avoiding(p, avoid)
        BY <1>6, <3>1 DEF StartContextPlayback
      <4>2. p \in Orders(Len(tracks))
        BY ShufflesAreOrders
      <4> QED
        BY <1>1, <4>1, <4>2, AvoidingIsOrder
    <3>2. CASE order # <<>>
      <4>1. order' = Avoiding(order, avoid)
        BY <1>6, <3>2 DEF StartContextPlayback
      <4>2. order \in Orders(Len(tracks))
        BY <1>6 DEF IInv, OrderComplete
      <4> QED
        BY <1>1, <4>1, <4>2, AvoidingIsOrder
    <3> QED
      BY <3>1, <3>2
  <2>2. order'[1] \in 1..Len(tracks)
    BY <1>1, <1>3, <2>1, OrderFacts
  <2>3. MoveTo(order'[1])
    BY <1>6 DEF StartContextPlayback
  <2>4. index' \in 1..Len(tracks) /\ index' \in Nat \ {0}
    BY <2>2, <2>3 DEF MoveTo
  <2> QED
    BY <1>4, <2>1, <2>3, <2>4, MoveIInv DEF MoveTo, IInv, TypeOK
<1> QED
  BY <1>5, <1>6

\* A step along the walk, forward or back, ends inside the list.
LEMMA StepFacts ==
  ASSUME IInv, tracks # <<>>, NEW at
  PROVE  /\ Following(Walk, at) \in 1..Len(tracks)
         /\ Preceding(Walk, at) \in 1..Len(tracks)
<1>1. tracks \in Seq(Tracks)
  BY DEF IInv, TypeOK
<1>2. Len(tracks) \in Nat \ {0}
  BY <1>1
<1>3. Walk \in [1..Len(tracks) -> 1..Len(tracks)] /\ Len(Walk) = Len(tracks)
  BY WalkIsTotal
<1> DEFINE p == Position(Walk, at)
           w == Walk
           n == Len(tracks)
<1>4. p \in 1..(n + 1)
  BY <1>2, <1>3, PositionFacts
<1>5. Following(w, at) = IF p >= n THEN w[1] ELSE w[p + 1]
  BY <1>3 DEF Following
<1>6. Preceding(w, at) = IF p = 1 THEN w[n] ELSE w[p - 1]
  BY <1>3 DEF Preceding
<1>7. n \in Nat \ {0} /\ w \in [1..n -> 1..n]
  BY <1>2, <1>3
<1> HIDE DEF p, w, n
<1>8. Following(w, at) \in 1..n
  BY <1>4, <1>5, <1>7
<1>9. Preceding(w, at) \in 1..n
  BY <1>4, <1>6, <1>7
<1> QED
  BY <1>8, <1>9 DEF w, n

LEMMA AdvanceIInv ==
  ASSUME IInv, \/ \E force, ignore \in BOOLEAN : AdvanceNext(force, ignore)
               \/ \E ignore \in BOOLEAN : AdvancePrev(ignore)
  PROVE  IInv'
<1>1. /\ tracks # <<>>
      /\ UNCHANGED <<context, tracks, hasIndex, options, order, skip, reorder>>
      /\ index' = Following(Walk, index) \/ index' = Preceding(Walk, index)
  BY DEF AdvanceNext, AdvancePrev, Moving, callVars
<1>2. index' \in 1..Len(tracks)
  BY <1>1, StepFacts
<1>3. index' \in Nat \ {0}
  BY <1>2
<1> QED
  BY <1>1, <1>2, <1>3, MoveIInv DEF IInv, TypeOK

-----------------------------------------------------------------------------
(* resolve_skip_to and apply_playback_order.                               *)

SkipType == [at : {"idle", "uri", "uid", "index", "read"},
             hint : Hints \cup {NoHint}, match : Uris \cup {""}]

\* A step that touches neither the list nor the position.
LEMMA CallIInv ==
  ASSUME IInv, UNCHANGED listVars, skip' \in SkipType, reorder' \in BOOLEAN
  PROVE  IInv'
BY DEF listVars, SkipType, IInv, TypeOK, IndexInRange, OrderComplete

LEMMA SkipFacts ==
  ASSUME IInv
  PROVE  /\ skip \in SkipType /\ NoSkip \in SkipType
         /\ \A h \in Hints : [at |-> "uri", hint |-> h, match |-> ""] \in SkipType
         /\ [skip EXCEPT !.at = "uid"] \in SkipType
         /\ [skip EXCEPT !.at = "index"] \in SkipType
         /\ \A u \in Uris : [skip EXCEPT !.at = "read", !.match = u] \in SkipType
<1>1. skip \in SkipType
  BY DEF IInv, TypeOK, SkipType
<1> QED
  BY <1>1 DEF SkipType, NoSkip

LEMMA SkipIInv ==
  ASSUME IInv, \/ \E hint \in Hints : SkipTo(hint)
               \/ SkipMiss
               \/ SkipRead
               \/ SeeShuffle
  PROVE  IInv'
<1>1. reorder \in BOOLEAN
  BY DEF IInv, TypeOK
<1>2. CASE \E hint \in Hints : SkipTo(hint)
  BY <1>1, <1>2, SkipFacts, CallIInv DEF SkipTo
<1>3. CASE SkipMiss
  <2>1. UNCHANGED listVars /\ reorder' = reorder
    BY <1>3 DEF SkipMiss
  <2>2. skip' \in SkipType
    <3>1. \/ skip' = [skip EXCEPT !.at = "uid"]
          \/ skip' = [skip EXCEPT !.at = "index"]
          \/ skip' = NoSkip
      BY <1>3 DEF SkipMiss
    <3> QED
      BY <3>1, SkipFacts
  <2> QED
    BY <1>1, <2>1, <2>2, CallIInv
<1>4. CASE SkipRead
  BY <1>1, <1>4, SkipFacts, CallIInv DEF SkipRead
<1>5. CASE SeeShuffle
  BY <1>5, SkipFacts, CallIInv DEF SeeShuffle
<1> QED
  BY <1>2, <1>3, <1>4, <1>5

LEMMA SkipMatchIInv ==
  ASSUME IInv, SkipMatch
  PROVE  IInv'
<1>1. PICK i \in Matches :
        /\ MoveTo(i)
        /\ skip' = IF skip.at = "uri" THEN NoSkip
                   ELSE [skip EXCEPT !.at = "read", !.match = tracks[i].uri]
  BY DEF SkipMatch
<1>2. order' = order /\ reorder' = reorder
  BY DEF SkipMatch
<1>3. tracks \in Seq(Tracks)
  BY DEF IInv, TypeOK
<1>4. i \in 1..Len(tracks)
  BY FirstFacts DEF Matches
<1>5. i \in Nat \ {0} /\ tracks[i] \in Tracks
  BY <1>3, <1>4
<1>6. tracks[i].uri \in Uris
  BY <1>5 DEF Uris
<1>7. skip' \in SkipType
  BY <1>1, <1>6, SkipFacts
<1>8. index' = i /\ hasIndex' = TRUE /\ UNCHANGED <<context, tracks, options>>
  BY <1>1 DEF MoveTo
<1>9. reorder' \in BOOLEAN
  BY <1>2 DEF IInv, TypeOK
<1> QED
  BY <1>2, <1>4, <1>5, <1>7, <1>8, <1>9, MoveIInv DEF SkipType

LEMMA ApplyIInv ==
  ASSUME IInv, NEW uri, NEW uris, ApplyPlaybackOrder(uri, uris)
  PROVE  IInv'
<1>1. /\ reorder' = FALSE /\ skip' = skip /\ skip \in SkipType
      /\ UNCHANGED <<context, tracks, options>>
  BY SkipFacts DEF ApplyPlaybackOrder
<1>2. CASE UNCHANGED <<index, hasIndex, order>>
  BY <1>1, <1>2, CallIInv DEF listVars
<1>3. CASE \E current \in First("uri", uri) :
              /\ index' = current /\ hasIndex' = TRUE
              /\ order' = order \/ order' \in Hinted(uris, current)
  <2>1. PICK current \in First("uri", uri) :
              /\ index' = current /\ hasIndex' = TRUE
              /\ order' = order \/ order' \in Hinted(uris, current)
    BY <1>3
  <2>2. current \in 1..Len(tracks) /\ current \in Nat \ {0}
    BY FirstFacts
  <2>3. order' = order \/ order' \in Orders(Len(tracks))
    BY <2>1 DEF Hinted
  <2> QED
    BY <1>1, <2>1, <2>2, <2>3, MoveIInv DEF SkipType
<1> QED
  BY <1>2, <1>3 DEF ApplyPlaybackOrder

-----------------------------------------------------------------------------

LEMMA StepIInv == IInv /\ [Next]_vars => IInv'
<1> SUFFICES ASSUME IInv, [Next]_vars PROVE IInv'
  OBVIOUS
<1>1. CASE UNCHANGED vars
  BY <1>1 DEF vars, IInv, TypeOK, IndexInRange, OrderComplete
<1>2. CASE \E uri \in Contexts : SetContext(uri)
  BY <1>2, SetContextIInv
<1>3. CASE Clear
  BY <1>3, ClearIInv
<1>4. CASE \E ts \in Lists : SetTracks(ts)
  BY <1>4, SetTracksIInv
<1>5. CASE \E new \in Continuations : AppendTracks(new)
  BY <1>5, AppendTracksIInv
<1>6. CASE \E o \in Options : SetOptions(o)
  BY <1>6, SetOptionsIInv
<1>7. CASE \E uri \in Uris : SetCurrentTrackUri(uri)
  BY <1>7, SetCurrentIInv
<1>8. CASE \E avoid \in {0, 1} : StartContextPlayback(avoid)
  BY <1>8, StartIInv
<1>9. CASE \/ \E force, ignore \in BOOLEAN : AdvanceNext(force, ignore)
           \/ \E ignore \in BOOLEAN : AdvancePrev(ignore)
  BY <1>9, AdvanceIInv
<1>10. CASE (\E hint \in Hints : SkipTo(hint)) \/ SkipMiss \/ SkipRead \/ SeeShuffle
  BY <1>10, SkipIInv
<1>11. CASE SkipMatch
  BY <1>11, SkipMatchIInv
<1>12. CASE \E uri \in Uris, uris \in CloudOrders : ApplyPlaybackOrder(uri, uris)
  BY <1>12, ApplyIInv
<1> QED
  BY <1>1, <1>2, <1>3, <1>4, <1>5, <1>6, <1>7, <1>8, <1>9, <1>10, <1>11, <1>12
     DEF Next

LEMMA InvariantIInv == Spec => []IInv
BY InitIInv, StepIInv, PTL DEF Spec

\* However the context's operations interleave, whatever the lists, the
\* shuffles and the cloud's orders are: the position lies inside the list, and
\* while shuffling the order plays every track of the list exactly once.
THEOREM ContextSafe == Spec => [](TypeOK /\ IndexInRange /\ OrderComplete)
BY InvariantIInv, PTL DEF IInv

\* No method of the context reads tracks_ outside its bounds through current_index_.
THEOREM ContextPosition == Spec => []IndexInRange
BY ContextSafe, PTL

\* List, position, options and order keep their types through every method.
THEOREM ContextTypes == Spec => []TypeOK
BY ContextSafe, PTL

\* Toggling shuffle keeps the track that plays, and turning it on makes that
\* track the head of the order: nothing appears to have been played before it.
THEOREM ContextToggle == Spec => ToggleKeepsTrack
<1> DEFINE A == options'.shuffle # options.shuffle /\ HasTracks /\ HasTracks' =>
                  /\ Current' = Current
                  /\ options'.shuffle => PrevTracks' = <<>>
<1>1. IInv /\ [Next]_vars => [A]_vars
  <2> SUFFICES ASSUME IInv, IInv', [Next]_vars,
                      options'.shuffle # options.shuffle, HasTracks, HasTracks'
               PROVE  /\ Current' = Current
                      /\ options'.shuffle => PrevTracks' = <<>>
    BY StepIInv
  <2>1. PICK o \in Options : SetOptions(o)
    BY DEF Next, vars, SetContext, Clear, SetTracks, AppendTracks, SetCurrentTrackUri,
       StartContextPlayback, AdvanceNext, AdvancePrev, SkipTo, SkipMatch, SkipMiss,
       SkipRead, SeeShuffle, ApplyPlaybackOrder, MoveTo, listVars, HasTracks, Forget
  <2>2. /\ options' = o /\ UNCHANGED <<tracks, index, hasIndex>>
        /\ o.shuffle => order' \in Shuffles(tracks, index, hasIndex)
    BY <2>1 DEF SetOptions
  <2>3. Current' = Current
    BY <2>2 DEF Current
  <2>4. ASSUME o.shuffle PROVE PrevTracks' = <<>>
    <3>1. tracks' # <<>> /\ hasIndex /\ index \in 1..Len(tracks)
      BY <2>2 DEF HasTracks, IInv, IndexInRange
    <3>2. order' \in Orders(Len(tracks)) /\ order'[1] = index
      BY <2>2, <2>4, <3>1 DEF Shuffles
    <3>3. Len(tracks) \in Nat \ {0}
      <4>1. tracks \in Seq(Tracks)
        BY DEF IInv, TypeOK
      <4> QED
        BY <2>2, <3>1, <4>1
    <3>4. order' # <<>> /\ Len(order') = Len(tracks) /\ 1 \in 1..Len(tracks)
      BY <3>2, <3>3, OrderFacts
    <3>5. Walk' = order'
      BY <2>2, <2>4, <3>4 DEF Walk, PlayOrder
    <3>6. Place' = 1
      <4>1. \A p \in 1..Len(tracks) : order'[p] = index <=> p = 1
        BY <3>2, <3>4 DEF Orders
      <4>2. Place' = Position(order', index)
        BY <2>2, <3>5 DEF Place
      <4> QED
        BY <3>4, <4>1, <4>2 DEF Position
    <3> QED
      BY <3>6 DEF PrevTracks
  <2> QED
    BY <2>2, <2>3, <2>4
<1> QED
  BY <1>1, InvariantIInv, PTL DEF Spec, ToggleKeepsTrack

-----------------------------------------------------------------------------
(* Round the list.                                                         *)

\* A set of natural numbers has a least element: induction over data, by the least
\* counterexample.
LEMMA LeastNumber ==
  ASSUME NEW T \in SUBSET Nat, T # {}
  PROVE  \E x \in T : \A y \in T : x <= y
<1> DEFINE below == {0..k : k \in T}
<1>1. below \subseteq FiniteSubsetsOf(Nat)
  <2> SUFFICES ASSUME NEW k \in T PROVE 0..k \subseteq Nat /\ IsFiniteSet(0..k)
    BY DEF FiniteSubsetsOf
  <2> QED
    BY FS_Interval
<1>2. PICK X \in below : \A Y \in below : <<Y, X>> \notin StrictSubsetOrdering(Nat)
  <2>1. IsWellFoundedOn(StrictSubsetOrdering(Nat), FiniteSubsetsOf(Nat))
    BY FS_StrictSubsetOrderingWellFounded
  <2>2. below # {}
    OBVIOUS
  <2> HIDE DEF below
  <2> QED
    BY <1>1, <2>1, <2>2, WFMin
<1>3. PICK x \in T : X = 0..x
  OBVIOUS
<1> SUFFICES ASSUME NEW y \in T, y < x PROVE FALSE
  BY <1>3
<1>4. 0..y \subseteq 0..x /\ 0..y # 0..x /\ 0..y \subseteq Nat /\ 0..x \subseteq Nat
  OBVIOUS
<1>5. <<0..y, 0..x>> \in StrictSubsetOrdering(Nat)
  BY <1>4 DEF StrictSubsetOrdering
<1>6. 0..y \in below
  OBVIOUS
<1> QED
  BY <1>2, <1>3, <1>5, <1>6

\* An order plays every index: an injection of a finite set into itself is onto it.
LEMMA OrderIsOnto ==
  ASSUME NEW n \in Nat, NEW p \in Orders(n)
  PROVE  \A j \in 1..n : \E i \in 1..n : p[i] = j
<1>1. p \in Injection(1..n, 1..n)
  BY DEF Orders, Injection, IsInjective
<1>2. IsFiniteSet(1..n)
  BY FS_Interval
<1>3. p \in Surjection(1..n, 1..n)
  BY <1>1, <1>2, FS_Injection
<1> QED
  BY <1>3 DEF Surjection

\* What is walked is an order, shuffled or not.
LEMMA WalkIsOrder ==
  ASSUME IInv
  PROVE  Walk \in Orders(Len(tracks)) /\ Len(tracks) \in Nat
<1>1. Len(tracks) \in Nat
  <2>1. tracks \in Seq(Tracks)
    BY DEF IInv, TypeOK
  <2> QED
    BY <2>1
<1>2. CASE options.shuffle /\ order # <<>>
  BY <1>1, <1>2 DEF IInv, OrderComplete, Walk, PlayOrder
<1>3. CASE ~(options.shuffle /\ order # <<>>)
  BY <1>1, <1>3 DEF Walk, PlayOrder, Natural, Orders
<1> QED
  BY <1>1, <1>2, <1>3

\* Each index has one place in an order.
LEMMA PlaceInOrder ==
  ASSUME NEW n \in Nat, NEW w \in Orders(n), NEW i \in 1..n
  PROVE  Position(w, w[i]) = i
<1>1. Len(w) = n
  BY OrderFacts
<1>2. \A j \in 1..n : w[j] = w[i] <=> j = i
  BY DEF Orders
<1> QED
  BY <1>1, <1>2 DEF Position

\* The recursive function of RoundTrip.
Trip(f, w, at, n) == [k \in 0..n |-> IF k = 0 THEN at ELSE Following(w, f[k - 1])]

\* The place that is reached from place p in k steps.
Ahead(p, k, n) == IF p + k <= n THEN p + k ELSE p + k - n

\* Steps along an order pass its places one by one, and the head follows the last.
LEMMA TripIs ==
  ASSUME NEW n \in Nat \ {0}, NEW w \in Orders(n), NEW p \in 1..n,
         NEW f, f = Trip(f, w, w[p], n), NEW k \in 0..n
  PROVE  f[k] = w[Ahead(p, k, n)]
<1>1. \A m \in 0..n : f[m] = IF m = 0 THEN w[p] ELSE Following(w, f[m - 1])
  BY DEF Trip
<1> DEFINE T == {m \in 0..n : f[m] # w[Ahead(p, m, n)]}
<1> SUFFICES ASSUME T # {} PROVE FALSE
  OBVIOUS
<1>2. PICK m \in T : \A y \in T : m <= y
  <2>1. T \in SUBSET Nat
    OBVIOUS
  <2> HIDE DEF T
  <2> QED
    BY <2>1, LeastNumber
<1>3. m # 0
  BY <1>1 DEF Ahead
<1>4. m \in 1..n /\ m - 1 \in 0..n /\ m - 1 \notin T
  BY <1>2, <1>3
<1>5. f[m - 1] = w[Ahead(p, m - 1, n)]
  BY <1>4
<1>6. PICK i \in 1..n : i = Ahead(p, m - 1, n)
  BY <1>4 DEF Ahead
<1>7. Position(w, f[m - 1]) = i /\ Len(w) = n
  BY <1>5, <1>6, PlaceInOrder, OrderFacts
<1>8. Following(w, f[m - 1]) = IF i >= n THEN w[1] ELSE w[i + 1]
  BY <1>7 DEF Following
<1>9. Ahead(p, m, n) = IF i >= n THEN 1 ELSE i + 1
  BY <1>4, <1>6 DEF Ahead
<1>10. f[m] = Following(w, f[m - 1])
  BY <1>1, <1>4
<1>11. f[m] = w[Ahead(p, m, n)]
  BY <1>8, <1>9, <1>10
<1> QED
  BY <1>2, <1>11

\* There is such a function: the one that says where each step ends.
LEMMA TripExists ==
  ASSUME NEW n \in Nat \ {0}, NEW w \in Orders(n), NEW p \in 1..n
  PROVE  \E f : f = Trip(f, w, w[p], n)
<1> DEFINE f == [k \in 0..n |-> w[Ahead(p, k, n)]]
<1>1. \A k \in 0..n : w[Ahead(p, k, n)] = IF k = 0 THEN w[p] ELSE Following(w, f[k - 1])
  <2> TAKE k \in 0..n
  <2>1. CASE k = 0
    BY <2>1 DEF Ahead
  <2>2. CASE k # 0
    <3>1. k - 1 \in 0..n
      BY <2>2
    <3> HIDE DEF f
    <3>2. PICK i \in 1..n : i = Ahead(p, k - 1, n)
      <4>1. Ahead(p, k - 1, n) \in 1..n
        BY <2>2, <3>1 DEF Ahead
      <4> QED
        BY <4>1
    <3>3. f[k - 1] = w[i]
      BY <3>1, <3>2 DEF f
    <3>4. Position(w, f[k - 1]) = i /\ Len(w) = n
      BY <3>3, PlaceInOrder, OrderFacts
    <3>5. Following(w, f[k - 1]) = IF i >= n THEN w[1] ELSE w[i + 1]
      BY <3>4 DEF Following
    <3>6. Ahead(p, k, n) = IF i >= n THEN 1 ELSE i + 1
      BY <2>2, <3>2 DEF Ahead
    <3> QED
      BY <2>2, <3>5, <3>6
  <2> QED
    BY <2>1, <2>2
<1>2. f = Trip(f, w, w[p], n)
  BY <1>1 DEF Trip
<1> QED
  BY <1>2

\* With the context on repeat, as many steps as there are tracks play each of them once
\* and end at the current one: no track is lost to a shuffle, to the cloud's order or to
\* the wrap (advance_next).
THEOREM ContextRoundTrip == Spec => []RoundTrip
<1>1. IInv => RoundTrip
  <2> SUFFICES ASSUME IInv, HasTracks PROVE RoundTrip
    BY DEF RoundTrip
  <2> DEFINE n == Len(tracks)
             w == Walk
             f == CHOOSE h : h = Trip(h, w, index, n)
  <2>1. n \in Nat \ {0} /\ w \in Orders(n)
    <3>1. tracks \in Seq(Tracks) /\ tracks # <<>>
      BY DEF IInv, TypeOK, HasTracks
    <3> QED
      BY <3>1, WalkIsOrder
  <2>2. index \in 1..n
    BY DEF IInv, IndexInRange, HasTracks
  <2>3. RoundTrip <=> {f[k] : k \in 1..n} = 1..n /\ f[n] = index
    BY DEF RoundTrip, Trip
  <2> HIDE DEF n, w
  <2>4. PICK p \in 1..n : w[p] = index
    BY <2>1, <2>2, OrderIsOnto
  <2>5. f = Trip(f, w, w[p], n)
    BY <2>1, <2>4, TripExists
  <2> HIDE DEF f
  <2>6. \A k \in 0..n : f[k] = w[Ahead(p, k, n)] /\ Ahead(p, k, n) \in 1..n
    BY <2>1, <2>5, TripIs DEF Ahead
  <2>7. f[n] = index
    BY <2>1, <2>4, <2>6 DEF Ahead
  <2>8. w \in [1..n -> 1..n]
    BY <2>1 DEF Orders
  <2>9. ASSUME NEW j \in 1..n PROVE \E k \in 1..n : f[k] = j
    <3>1. PICK i \in 1..n : w[i] = j
      BY <2>1, OrderIsOnto
    <3>2. PICK k \in 1..n : Ahead(p, k, n) = i
      <4>1. CASE i > p
        <5>1. i - p \in 1..n /\ Ahead(p, i - p, n) = i
          BY <2>1, <4>1 DEF Ahead
        <5> QED
          BY <5>1
      <4>2. CASE i <= p
        <5>1. i - p + n \in 1..n /\ Ahead(p, i - p + n, n) = i
          BY <2>1, <4>2 DEF Ahead
        <5> QED
          BY <5>1
      <4> QED
        BY <4>1, <4>2
    <3> QED
      BY <2>1, <2>6, <3>1, <3>2
  <2>10. ASSUME NEW k \in 1..n PROVE f[k] \in 1..n
    <3>1. k \in 0..n
      BY <2>1
    <3>2. f[k] = w[Ahead(p, k, n)] /\ Ahead(p, k, n) \in 1..n
      BY <2>6, <3>1
    <3> QED
      BY <2>8, <3>2
  <2> QED
    BY <2>3, <2>7, <2>9, <2>10
<1> QED
  BY <1>1, InvariantIInv, PTL

-----------------------------------------------------------------------------
(* Appending.                                                              *)

\* A continuation is walked after everything that was walked before.
LEMMA AppendedWalk ==
  ASSUME IInv, IInv', NEW new \in Continuations, AppendTracks(new), HasTracks
  PROVE  LET n == Len(tracks)
             k == Len(new)
         IN /\ n \in Nat \ {0} /\ k \in Nat /\ index \in 1..n /\ index' = index
            /\ Walk \in Orders(n) /\ Walk' \in Orders(n + k)
            /\ \A i \in 1..n : Walk'[i] = Walk[i] /\ tracks'[i] = tracks[i]
<1> DEFINE n == Len(tracks)
           k == Len(new)
<1>1. tracks' = tracks \o new /\ UNCHANGED <<index, hasIndex, options>>
  BY DEF AppendTracks
<1>2. tracks \in Seq(Tracks) /\ new \in Seq(Tracks) /\ tracks # <<>>
  BY ContextAssumption DEF IInv, TypeOK, HasTracks
<1>3. /\ n \in Nat \ {0} /\ k \in Nat /\ Len(tracks') = n + k
      /\ \A i \in 1..n : tracks'[i] = tracks[i]
  BY <1>1, <1>2
<1>4. index \in 1..n
  BY DEF IInv, IndexInRange, HasTracks
<1>5. Walk \in Orders(n) /\ Walk' \in Orders(n + k)
  <2>1. Walk \in Orders(Len(tracks))
    BY WalkIsOrder
  <2>2. (IInv => Walk \in Orders(Len(tracks)))'
    BY WalkIsOrder, PTL
  <2> QED
    BY <1>3, <2>1, <2>2
<1>6. \A i \in 1..n : Walk'[i] = Walk[i]
  <2>1. CASE ~options.shuffle
    BY <1>1, <1>3, <2>1 DEF Walk, PlayOrder, Natural
  <2>2. CASE options.shuffle
    <3>1. order \in Orders(n)
      BY <2>2 DEF IInv, OrderComplete
    <3>2. order # <<>> /\ Len(order) = n
      BY <1>3, <3>1, OrderFacts
    <3>3. PICK p \in Orders(k) : order' = order \o [i \in 1..k |-> n + p[i]]
      BY <2>2, <3>2 DEF AppendTracks
    <3>4. order' \in Orders(n + k)
      BY <1>3, <3>1, <3>3, ExtendedIsOrder
    <3>5. order' # <<>>
      BY <1>3, <3>4, OrderFacts
    <3>6. Walk = order /\ Walk' = order'
      BY <1>1, <2>2, <3>2, <3>5 DEF Walk, PlayOrder
    <3>7. \A i \in 1..n : order'[i] = order[i]
      <4>1. [i \in 1..k |-> n + p[i]] \in Seq(Nat)
        <5>1. p \in [1..k -> 1..k]
          BY <1>3, OrderFacts
        <5>2. [i \in 1..k |-> n + p[i]] \in [1..k -> Nat]
          BY <1>3, <5>1
        <5>3. \A t \in [1..k -> Nat] : t \in Seq(Nat)
          BY <1>3
        <5> QED
          BY <5>2, <5>3
      <4>2. PICK t \in Seq(Nat) : t = [i \in 1..k |-> n + p[i]]
        BY <4>1
      <4>3. order \in Seq(Nat)
        <5>1. order \in Seq(Nat \ {0})
          BY DEF IInv, TypeOK
        <5> QED
          BY <5>1
      <4>4. \A i \in 1..Len(order) : (order \o t)[i] = order[i]
        BY <4>2, <4>3, ConcatFacts
      <4> QED
        BY <3>2, <3>3, <4>2, <4>4
    <3> QED
      BY <3>6, <3>7
  <2> QED
    BY <2>1, <2>2
<1> QED
  BY <1>1, <1>3, <1>4, <1>5, <1>6

\* append_tracks keeps what plays, what was played and what was announced as next, and
\* puts the continuation behind it, shuffled or not: the place of the current track in
\* the walk is the same before and after.
THEOREM ContextAppend == Spec => AppendKeepsPlace
<1> DEFINE Kept(new) ==
             /\ Current' = Current /\ PrevTracks' = PrevTracks
             /\ Len(NextTracks') = Len(NextTracks) + Len(new)
             /\ \A i \in 1..Len(NextTracks) : NextTracks'[i] = NextTracks[i]
           A == \A new \in Continuations : AppendTracks(new) /\ HasTracks => Kept(new)
<1>1. IInv /\ [Next]_vars => [A]_vars
  <2> SUFFICES ASSUME IInv, IInv', NEW new \in Continuations, AppendTracks(new), HasTracks
               PROVE  Kept(new)
    BY StepIInv
  <2> DEFINE n == Len(tracks)
             k == Len(new)
             w == Walk
             p == Place
  <2>1. /\ n \in Nat \ {0} /\ k \in Nat /\ index \in 1..n /\ index' = index
        /\ w \in Orders(n) /\ Walk' \in Orders(n + k)
        /\ \A i \in 1..n : Walk'[i] = w[i] /\ tracks'[i] = tracks[i]
    BY AppendedWalk
  <2>2. PICK v : v = Walk'
    OBVIOUS
  <2>3. v \in Orders(n + k) /\ \A i \in 1..n : v[i] = w[i]
    BY <2>1, <2>2
  <2> HIDE DEF n, k, w
  <2>4. PICK q \in 1..n : w[q] = index
    BY <2>1, OrderIsOnto
  <2>5. Place = q
    BY <2>1, <2>4, PlaceInOrder DEF Place, w
  <2>6. Place' = q
    <3>1. n + k \in Nat /\ q \in 1..n + k /\ v[q] = index
      BY <2>1, <2>3, <2>4
    <3>2. Position(v, v[q]) = q
      BY <2>3, <3>1, PlaceInOrder
    <3>3. Place' = Position(v, index)
      BY <2>1, <2>2 DEF Place
    <3> QED
      BY <3>1, <3>2, <3>3
  <2>7. w \in [1..n -> 1..n] /\ Len(w) = n /\ Len(v) = n + k
    <3>1. n \in Nat /\ n + k \in Nat
      BY <2>1
    <3> QED
      BY <2>1, <2>3, <3>1, OrderFacts
  <2>8. Current' = Current
    BY <2>1 DEF Current
  <2>9. PrevTracks' = PrevTracks
    <3>1. \A i \in 1..q - 1 : tracks'[v[i]] = tracks[w[i]]
      <4> TAKE i \in 1..q - 1
      <4>1. i \in 1..n
        BY <2>1
      <4>2. v[i] = w[i] /\ w[i] \in 1..n
        BY <2>3, <2>7, <4>1
      <4>3. tracks'[w[i]] = tracks[w[i]]
        BY <2>1, <4>2
      <4> QED
        BY <4>2, <4>3
    <3>2. PrevTracks = [i \in 1..q - 1 |-> tracks[w[i]]]
      BY <2>5 DEF PrevTracks, w
    <3>3. PrevTracks' = [i \in 1..q - 1 |-> tracks'[v[i]]]
      BY <2>2, <2>6 DEF PrevTracks
    <3> QED
      BY <3>1, <3>2, <3>3
  <2>10. /\ Len(NextTracks) = n - q
         /\ \A i \in 1..n - q : NextTracks[i] = tracks[w[q + i]]
    <3>1. n - q \in Nat
      BY <2>1
    <3>2. NextTracks = [i \in 1..n - q |-> tracks[w[q + i]]]
      BY <2>5, <2>7 DEF NextTracks, w
    <3> QED
      BY <3>1, <3>2
  <2>11. /\ Len(NextTracks') = (n + k) - q
         /\ \A i \in 1..(n + k) - q : NextTracks'[i] = tracks'[v[q + i]]
    <3>1. (n + k) - q \in Nat
      BY <2>1
    <3>2. NextTracks' = [i \in 1..(n + k) - q |-> tracks'[v[q + i]]]
      BY <2>2, <2>6, <2>7 DEF NextTracks
    <3> QED
      BY <3>1, <3>2
  <2>12. \A i \in 1..n - q : NextTracks'[i] = NextTracks[i]
    <3> TAKE i \in 1..n - q
    <3>1. q + i \in 1..n /\ i \in 1..(n + k) - q
      BY <2>1
    <3>2. v[q + i] = w[q + i] /\ w[q + i] \in 1..n
      BY <2>3, <2>7, <3>1
    <3>3. tracks'[w[q + i]] = tracks[w[q + i]]
      BY <2>1, <3>2
    <3> QED
      BY <2>10, <2>11, <3>1, <3>2, <3>3
  <2>13. Len(NextTracks') = Len(NextTracks) + k
    BY <2>1, <2>10, <2>11
  <2> QED
    BY <2>8, <2>9, <2>10, <2>12, <2>13 DEF k
<1> QED
  BY <1>1, InvariantIInv, PTL DEF Spec, AppendKeepsPlace
=============================================================================
