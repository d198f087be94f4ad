------------------------------ MODULE StoreProofs ------------------------------
(***************************************************************************)
(* Proofs about the stores under every order of messages, sweeps, stops    *)
(* and crashes between two writes: their types, the order of the writes,   *)
(* and the durable key state, which is never taken back.  They begin with  *)
(* the data: what is left of a list, and the functions defined along the   *)
(* chain of priors, which the acyclicity of priors makes well defined.     *)
(***************************************************************************)
EXTENDS KeveryProofs, WellFoundedInduction

------------------------------------------------------------------------------
(* Induction *)

(* A set of numbers that is not empty has a least.                         *)
LEMMA LeastNumber ==
    ASSUME NEW T \in SUBSET Nat, T # {} PROVE \E m \in T : \A y \in T : m <= y
<1> DEFINE R == {ss \in Nat \X Nat : ss[1] < ss[2]}
<1>1. IsWellFoundedOn(OpToRel(<, Nat), Nat)
  BY NatLessThanWellFounded, Zenon
<1>2. OpToRel(<, Nat) = R
  BY DEF OpToRel
<1>3. IsWellFoundedOn(R, Nat)
  BY <1>1, <1>2, Zenon
<1> HIDE DEF R
<1>4. \E m \in T : \A y \in T : ~(<<y, m>> \in R)
  BY <1>3, WFMin
<1>5. \A x, y \in Nat : ~(<<y, x>> \in R) => x <= y
  BY DEF R
<1> QED BY <1>4, <1>5

(* Whatever holds of an event when it holds of its prior holds of all.     *)
LEMMA PriorInduction ==
    ASSUME NEW S, \A e \in Event : (Ev[e].prior \in Event => Ev[e].prior \in S) => e \in S
    PROVE  Event \subseteq S
<1> SUFFICES ASSUME Event \ S # {} PROVE FALSE
  OBVIOUS
<1>1. PICK e \in Event \ S : Ev[e].prior \notin Event \ S
  BY AcyclicAssumption
<1> QED BY <1>1

------------------------------------------------------------------------------
(* What is left of a list *)

LeftOf(list, gone, n, f) ==
    \A i \in 0..n :
        f[i] = IF i = 0 THEN <<>>
               ELSE IF list[i] \in gone THEN f[i - 1] ELSE Append(f[i - 1], list[i])

LEMMA LeftExists ==
    ASSUME NEW S, NEW list \in Seq(S), NEW gone
    PROVE  \A n \in 0..Len(list) : \E f \in [0..n -> Seq(S)] : LeftOf(list, gone, n, f)
<1> DEFINE Bad == {n \in 0..Len(list) : ~ \E f \in [0..n -> Seq(S)] : LeftOf(list, gone, n, f)}
<1> SUFFICES ASSUME Bad # {} PROVE FALSE
  OBVIOUS
<1>0. Bad \in SUBSET Nat
  OBVIOUS
<1>1. PICK m \in Bad : \A y \in Bad : m <= y
  <2> HIDE DEF Bad
  <2> QED BY <1>0, LeastNumber
<1>2. CASE m = 0
  <2> DEFINE f == [i \in 0..0 |-> <<>>]
  <2>1. f \in [0..m -> Seq(S)] /\ LeftOf(list, gone, m, f)
    BY <1>2 DEF LeftOf
  <2> QED BY <1>1, <2>1
<1>3. CASE m # 0
  <2>1. m \in 1..Len(list) /\ m - 1 \in 0..Len(list) /\ m - 1 \notin Bad
    <3>1. m \in 0..Len(list)
      BY <1>1
    <3>2. m \in 1..Len(list) /\ m - 1 \in 0..Len(list) /\ m - 1 < m
      BY <1>3, <3>1
    <3>3. m - 1 \notin Bad
      <4> HIDE DEF Bad
      <4> QED BY <1>1, <3>2
    <3> QED BY <3>2, <3>3
  <2>2. PICK g \in [0..(m - 1) -> Seq(S)] : LeftOf(list, gone, m - 1, g)
    BY <2>1
  <2> DEFINE next == IF list[m] \in gone THEN g[m - 1] ELSE Append(g[m - 1], list[m])
             f == [i \in 0..m |-> IF i < m THEN g[i] ELSE next]
  <2>3. next \in Seq(S)
    <3>1. list[m] \in S /\ g[m - 1] \in Seq(S)
      BY <2>1
    <3> QED BY <3>1, AppendProperties
  <2> HIDE DEF next
  <2>4. f \in [0..m -> Seq(S)]
    BY <2>1, <2>3
  <2>5. LeftOf(list, gone, m, f)
    <3> SUFFICES ASSUME NEW i \in 0..m
                 PROVE  f[i] = IF i = 0 THEN <<>>
                               ELSE IF list[i] \in gone THEN f[i - 1] ELSE Append(f[i - 1], list[i])
      BY DEF LeftOf
    <3>1. CASE i < m
      <4>1. i \in 0..(m - 1) /\ f[i] = g[i] /\ (i # 0 => f[i - 1] = g[i - 1])
        BY <2>1, <3>1
      <4> QED BY <2>2, <4>1 DEF LeftOf
    <3>2. CASE i = m
      <4>1. f[m] = next /\ f[m - 1] = g[m - 1]
        BY <2>1
      <4> QED BY <1>3, <3>2, <4>1 DEF next
    <3> QED BY <2>1, <3>1, <3>2
  <2> QED BY <1>1, <2>4, <2>5
<1> QED BY <1>2, <1>3

(* Without is the last value of a function that goes along the list.       *)
LEMMA WithoutUnfolds ==
    ASSUME NEW S, NEW list \in Seq(S), NEW gone
    PROVE  \E f \in [0..Len(list) -> Seq(S)] :
              LeftOf(list, gone, Len(list), f) /\ Without(list, gone) = f[Len(list)]
<1> DEFINE left == CHOOSE left : left =
               [i \in 0..Len(list) |->
                   IF i = 0 THEN <<>>
                   ELSE IF list[i] \in gone THEN left[i - 1] ELSE Append(left[i - 1], list[i])]
<1>1. Without(list, gone) = left[Len(list)]
  BY DEF Without
<1>2. PICK f \in [0..Len(list) -> Seq(S)] : LeftOf(list, gone, Len(list), f)
  <2>1. Len(list) \in 0..Len(list)
    OBVIOUS
  <2> QED BY <2>1, LeftExists
<1>3. f = [i \in 0..Len(list) |->
              IF i = 0 THEN <<>>
              ELSE IF list[i] \in gone THEN f[i - 1] ELSE Append(f[i - 1], list[i])]
  BY <1>2 DEF LeftOf
<1>4. left = [i \in 0..Len(list) |->
                 IF i = 0 THEN <<>>
                 ELSE IF list[i] \in gone THEN left[i - 1] ELSE Append(left[i - 1], list[i])]
  BY <1>3
<1> HIDE DEF left
<1>5. DOMAIN left = 0..Len(list) /\ LeftOf(list, gone, Len(list), left)
  BY <1>4 DEF LeftOf
<1> DEFINE Off == {i \in 0..Len(list) : left[i] # f[i]}
<1>6. Off = {}
  <2> SUFFICES ASSUME Off # {} PROVE FALSE
    OBVIOUS
  <2>0. Off \in SUBSET Nat
    OBVIOUS
  <2>1. PICK m \in Off : \A y \in Off : m <= y
    <3> HIDE DEF Off
    <3> QED BY <2>0, LeastNumber
  <2>2. m # 0
    BY <1>2, <1>5, <2>1 DEF LeftOf
  <2>3. m - 1 \in 0..Len(list) /\ m - 1 \notin Off
    BY <2>1, <2>2
  <2> QED BY <1>2, <1>5, <2>1, <2>2, <2>3 DEF LeftOf
<1>7. left[Len(list)] = f[Len(list)]
  BY <1>6
<1> QED BY <1>1, <1>2, <1>7 DEF left

LEMMA WithoutType ==
    ASSUME NEW S, NEW list \in Seq(S), NEW gone
    PROVE  Without(list, gone) \in Seq(S)
<1>1. Len(list) \in 0..Len(list)
  OBVIOUS
<1> QED BY <1>1, WithoutUnfolds

LEMMA WithoutNone ==
    ASSUME NEW S, NEW list \in Seq(S)
    PROVE  Without(list, {}) = list
<1>1. PICK f \in [0..Len(list) -> Seq(S)] :
         LeftOf(list, {}, Len(list), f) /\ Without(list, {}) = f[Len(list)]
  BY WithoutUnfolds
<1> DEFINE Off == {i \in 0..Len(list) : f[i] # SubSeq(list, 1, i)}
<1>2. Off = {}
  <2> SUFFICES ASSUME Off # {} PROVE FALSE
    OBVIOUS
  <2>0. Off \in SUBSET Nat
    OBVIOUS
  <2>1. PICK m \in Off : \A y \in Off : m <= y
    <3> HIDE DEF Off
    <3> QED BY <2>0, LeastNumber
  <2>2. CASE m = 0
    <3>1. SubSeq(list, 1, 0) = <<>>
      OBVIOUS
    <3> QED BY <1>1, <2>1, <2>2, <3>1 DEF LeftOf
  <2>3. CASE m # 0
    <3>1. m - 1 \in 0..Len(list) /\ m - 1 \notin Off
      BY <2>1, <2>3
    <3>2. f[m] = Append(SubSeq(list, 1, m - 1), list[m])
      BY <1>1, <2>1, <2>3, <3>1 DEF LeftOf
    <3>3. SubSeq(list, 1, m) = Append(SubSeq(list, 1, m - 1), list[m])
      BY <2>1, <2>3
    <3> QED BY <2>1, <3>2, <3>3
  <2> QED BY <2>2, <2>3
<1>3. f[Len(list)] = SubSeq(list, 1, Len(list)) /\ SubSeq(list, 1, Len(list)) = list
  BY <1>2
<1> QED BY <1>1, <1>3

LEMMA WithoutAll ==
    ASSUME NEW S, NEW list \in Seq(S), NEW gone, Range(list) \subseteq gone
    PROVE  Without(list, gone) = <<>>
<1>1. PICK f \in [0..Len(list) -> Seq(S)] :
         LeftOf(list, gone, Len(list), f) /\ Without(list, gone) = f[Len(list)]
  BY WithoutUnfolds
<1> DEFINE Off == {i \in 0..Len(list) : f[i] # <<>>}
<1>2. Off = {}
  <2> SUFFICES ASSUME Off # {} PROVE FALSE
    OBVIOUS
  <2>0. Off \in SUBSET Nat
    OBVIOUS
  <2>1. PICK m \in Off : \A y \in Off : m <= y
    <3> HIDE DEF Off
    <3> QED BY <2>0, LeastNumber
  <2>2. m # 0
    BY <1>1, <2>1 DEF LeftOf
  <2>3. m - 1 \in 0..Len(list) /\ m - 1 \notin Off /\ list[m] \in Range(list)
    BY <2>1, <2>2 DEF Range
  <2> QED BY <1>1, <2>1, <2>2, <2>3 DEF LeftOf
<1>3. f[Len(list)] = <<>>
  BY <1>2
<1> QED BY <1>1, <1>3

(***************************************************************************)
(* storeEventAttachmentsAndWits: a witness list is stored with an event    *)
(* once; stored again, or no list after it, it stays as it is.             *)
(***************************************************************************)
LEMMA PutOnce ==
    ASSUME NEW S, NEW ws \in Seq(S)
    PROVE  PutAll(<<>>, ws) = ws /\ PutAll(ws, ws) = ws /\ PutAll(ws, <<>>) = ws
<1>1. PutAll(<<>>, ws) = ws
  <2>1. Range(<<>>) = {}
    BY DEF Range
  <2>2. Without(ws, {}) = ws /\ <<>> \o ws = ws
    BY WithoutNone, ConcatEmptySeq
  <2> QED BY <2>1, <2>2 DEF PutAll
<1>2. PutAll(ws, ws) = ws
  <2>1. Without(ws, Range(ws)) = <<>>
    BY WithoutAll
  <2> QED BY <2>1 DEF PutAll
<1>3. PutAll(ws, <<>>) = ws
  <2>1. <<>> \in Seq(S) /\ Range(<<>>) \subseteq Range(ws)
    BY DEF Range
  <2>2. Without(<<>>, Range(ws)) = <<>>
    BY <2>1, WithoutAll
  <2> QED BY <2>2 DEF PutAll
<1> QED BY <1>1, <1>2, <1>3

LEMMA PutAllType ==
    ASSUME NEW S, NEW old \in Seq(S), NEW new \in Seq(S)
    PROVE  PutAll(old, new) \in Seq(S)
BY WithoutType DEF PutAll

LEMMA RotatedType ==
    ASSUME NEW e \in Event, NEW ws \in Seq(Wit)
    PROVE  RotatedWitnesses(ws, Ev[e].cuts, Ev[e].adds) \in Seq(Wit)
<1>1. Ev[e].adds \in Seq(Wit)
  BY EventAssumption DEF Body
<1> QED BY <1>1, WithoutType DEF RotatedWitnesses

------------------------------------------------------------------------------
(* What is defined along the chain of priors *)

(***************************************************************************)
(* f follows the chain on the events of D, which holds the prior of each   *)
(* of its events that is not a start of the chain.                         *)
(***************************************************************************)
AlongPriors(D, f, Base, start, step) ==
    \A e \in D :
        IF e \in Base THEN f[e] = start[e]
        ELSE Ev[e].prior \in D /\ f[e] = step[e][f[Ev[e].prior]]

LEMMA ChainsAgree ==
    ASSUME NEW V, NEW Base, NEW start, NEW step,
           NEW D1 \in SUBSET Event, NEW D2 \in SUBSET Event,
           NEW f1, AlongPriors(D1, f1, Base, start, step),
           NEW f2, AlongPriors(D2, f2, Base, start, step)
    PROVE  \A e \in D1 \cap D2 : f1[e] = f2[e]
<1> DEFINE S == {e \in Event : e \in D1 \cap D2 => f1[e] = f2[e]}
<1>1. ASSUME NEW e \in Event, Ev[e].prior \in Event => Ev[e].prior \in S
      PROVE  e \in S
  BY <1>1 DEF AlongPriors
<1>2. Event \subseteq S
  <2> HIDE DEF S
  <2> QED BY <1>1, PriorInduction
<1> QED BY <1>2

LEMMA ChainReaches ==
    ASSUME NEW V, NEW Base \in SUBSET Event, NEW start \in [Event -> V],
           NEW step \in [Event -> [V -> V]],
           \A e \in Event \ Base : Ev[e].prior \in Event
    PROVE  \A e \in Event : \E D \in SUBSET Event : \E f \in [D -> V] :
              e \in D /\ AlongPriors(D, f, Base, start, step)
<1> DEFINE S == {e \in Event : \E D \in SUBSET Event : \E f \in [D -> V] :
                    e \in D /\ AlongPriors(D, f, Base, start, step)}
<1>1. ASSUME NEW e \in Event, Ev[e].prior \in Event => Ev[e].prior \in S
      PROVE  e \in S
  <2>1. CASE e \in Base
    <3> DEFINE f == [x \in {e} |-> start[e]]
    <3>1. {e} \in SUBSET Event /\ f \in [{e} -> V] /\ e \in {e}
          /\ AlongPriors({e}, f, Base, start, step)
      BY <2>1 DEF AlongPriors
    <3> QED BY <3>1
  <2>2. CASE e \notin Base
    <3>1. PICK D \in SUBSET Event : \E f \in [D -> V] :
             Ev[e].prior \in D /\ AlongPriors(D, f, Base, start, step)
      BY <1>1, <2>2
    <3>2. PICK g \in [D -> V] : Ev[e].prior \in D /\ AlongPriors(D, g, Base, start, step)
      BY <3>1
    <3>3. CASE e \in D
      BY <3>2, <3>3
    <3>4. CASE e \notin D
      <4> DEFINE f == [x \in D \cup {e} |-> IF x \in D THEN g[x] ELSE step[e][g[Ev[e].prior]]]
      <4>1. step[e][g[Ev[e].prior]] \in V
        BY <3>2
      <4>2. D \cup {e} \in SUBSET Event /\ f \in [D \cup {e} -> V] /\ e \in D \cup {e}
        BY <4>1
      <4>3. AlongPriors(D \cup {e}, f, Base, start, step)
        BY <2>2, <3>2, <3>4 DEF AlongPriors
      <4> QED BY <4>2, <4>3
    <3> QED BY <3>3, <3>4
  <2> QED BY <2>1, <2>2
<1>2. Event \subseteq S
  <2> HIDE DEF S
  <2> QED BY <1>1, PriorInduction
<1> QED BY <1>2

LEMMA PriorRecursion ==
    ASSUME NEW V, NEW Base \in SUBSET Event, NEW start \in [Event -> V],
           NEW step \in [Event -> [V -> V]],
           \A e \in Event \ Base : Ev[e].prior \in Event
    PROVE  \E f \in [Event -> V] : AlongPriors(Event, f, Base, start, step)
<1> DEFINE At(e, v) == \E D \in SUBSET Event : \E f \in [D -> V] :
                          e \in D /\ AlongPriors(D, f, Base, start, step) /\ v = f[e]
           F == [e \in Event |-> CHOOSE v \in V : At(e, v)]
<1>1. \A e \in Event : \E v \in V : At(e, v)
  <2>1. \A e \in Event : \E D \in SUBSET Event : \E f \in [D -> V] :
            e \in D /\ AlongPriors(D, f, Base, start, step)
    BY ChainReaches
  <2> QED BY <2>1
<1>2. \A e \in Event : F[e] \in V /\ At(e, F[e])
  <2> HIDE DEF At
  <2> QED BY <1>1
<1>3. F \in [Event -> V]
  <2>1. F = [e \in Event |-> F[e]]
    OBVIOUS
  <2> HIDE DEF F
  <2> QED BY <1>2, <2>1
<1>4. AlongPriors(Event, F, Base, start, step)
  <2> SUFFICES ASSUME NEW e \in Event
               PROVE  IF e \in Base THEN F[e] = start[e]
                      ELSE Ev[e].prior \in Event /\ F[e] = step[e][F[Ev[e].prior]]
    BY DEF AlongPriors
  <2> HIDE DEF F
  <2>1. PICK D \in SUBSET Event : \E f \in [D -> V] :
           e \in D /\ AlongPriors(D, f, Base, start, step) /\ F[e] = f[e]
    BY <1>2
  <2>2. PICK f \in [D -> V] : e \in D /\ AlongPriors(D, f, Base, start, step) /\ F[e] = f[e]
    BY <2>1
  <2>3. CASE e \in Base
    BY <2>2, <2>3 DEF AlongPriors
  <2>4. CASE e \notin Base
    <3>1. Ev[e].prior \in D /\ F[e] = step[e][f[Ev[e].prior]]
      BY <2>2, <2>4 DEF AlongPriors
    <3>2. PICK D2 \in SUBSET Event : \E g \in [D2 -> V] :
             Ev[e].prior \in D2 /\ AlongPriors(D2, g, Base, start, step)
             /\ F[Ev[e].prior] = g[Ev[e].prior]
      BY <1>2, <3>1
    <3>3. PICK g \in [D2 -> V] :
             Ev[e].prior \in D2 /\ AlongPriors(D2, g, Base, start, step)
             /\ F[Ev[e].prior] = g[Ev[e].prior]
      BY <3>2
    <3>4. f[Ev[e].prior] = g[Ev[e].prior]
      BY <2>2, <3>1, <3>3, ChainsAgree
    <3> QED BY <2>4, <3>1, <3>3, <3>4
  <2> QED BY <2>3, <2>4
<1> QED BY <1>3, <1>4

(* The establishment event that governs an event, by its prior's.          *)
LEMMA GovEstUnfolds ==
    /\ GovEst \in [Event -> Event]
    /\ \A e \in Event : GovEst[e] = IF Establishment(e) \/ Ev[e].prior = NoEvent
                                    THEN e ELSE GovEst[Ev[e].prior]
<1> DEFINE Base == {e \in Event : Establishment(e) \/ Ev[e].prior = NoEvent}
           start == [e \in Event |-> e]
           step == [e \in Event |-> [x \in Event |-> x]]
           Unfold(g) == [e \in Event |-> IF Establishment(e) \/ Ev[e].prior = NoEvent
                                        THEN e ELSE g[Ev[e].prior]]
<1>1. /\ Base \in SUBSET Event /\ start \in [Event -> Event]
      /\ step \in [Event -> [Event -> Event]]
      /\ \A e \in Event \ Base : Ev[e].prior \in Event
  BY EventAssumption DEF Body
<1>2. PICK f \in [Event -> Event] : AlongPriors(Event, f, Base, start, step)
  <2> HIDE DEF Base, start, step
  <2> QED BY <1>1, PriorRecursion
<1>3. f = Unfold(f)
  <2>1. \A e \in Event : f[e] = IF Establishment(e) \/ Ev[e].prior = NoEvent
                                THEN e ELSE f[Ev[e].prior]
    BY <1>1, <1>2 DEF AlongPriors
  <2> QED BY <2>1
<1>4. GovEst = CHOOSE g : g = Unfold(g)
  BY DEF GovEst
<1>5. GovEst = Unfold(GovEst)
  <2> HIDE DEF Unfold
  <2> QED BY <1>3, <1>4
<1>6. GovEst = f
  <2> DEFINE S == {e \in Event : GovEst[e] = f[e]}
  <2>1. ASSUME NEW e \in Event, Ev[e].prior \in Event => Ev[e].prior \in S
        PROVE  e \in S
    BY <1>1, <1>3, <1>5, <2>1
  <2>2. Event \subseteq S
    <3> HIDE DEF S
    <3> QED BY <2>1, PriorInduction
  <2>3. GovEst = [e \in Event |-> GovEst[e]] /\ f = [e \in Event |-> f[e]]
    BY <1>5
  <2> QED BY <2>2, <2>3
<1> QED BY <1>3, <1>6

(* The witness list in force at an event, by its prior's.                  *)
LEMMA GovWitsUnfolds ==
    /\ GovWits \in [Event -> Seq(Wit)]
    /\ \A e \in Event :
          /\ Ev[e].ilk = "icp" => GovWits[e] = Ev[e].backs
          /\ Ev[e].ilk = "ixn" /\ Ev[e].prior # NoEvent =>
                GovWits[e] = GovWits[Ev[e].prior]
          /\ Ev[e].ilk = "rot" /\ Ev[e].prior # NoEvent =>
                GovWits[e] = RotatedWitnesses(GovWits[Ev[e].prior], Ev[e].cuts, Ev[e].adds)
<1> DEFINE Base == {e \in Event : Ev[e].ilk = "icp" \/ Ev[e].prior = NoEvent}
           start == [e \in Event |-> IF Ev[e].ilk = "icp" THEN Ev[e].backs ELSE <<>>]
           step == [e \in Event |-> [ws \in Seq(Wit) |->
                       IF Ev[e].ilk = "ixn" THEN ws
                       ELSE RotatedWitnesses(ws, Ev[e].cuts, Ev[e].adds)]]
           At(g, e) == IF Ev[e].ilk = "icp" THEN Ev[e].backs
                       ELSE IF Ev[e].prior = NoEvent THEN <<>>
                       ELSE IF Ev[e].ilk = "ixn" THEN g[Ev[e].prior]
                       ELSE RotatedWitnesses(g[Ev[e].prior], Ev[e].cuts, Ev[e].adds)
           Unfold(g) == [e \in Event |-> At(g, e)]
<1>1. /\ Base \in SUBSET Event
      /\ \A e \in Event \ Base : Ev[e].prior \in Event
      /\ \A e \in Event : Ev[e].ilk \in {"icp", "rot", "ixn"} /\ Ev[e].backs \in Seq(Wit)
  BY EventAssumption DEF Body, Ilk
<1>2. start \in [Event -> Seq(Wit)]
  BY <1>1
<1>3. step \in [Event -> [Seq(Wit) -> Seq(Wit)]]
  BY RotatedType
<1>4. PICK f \in [Event -> Seq(Wit)] : AlongPriors(Event, f, Base, start, step)
  <2> HIDE DEF Base, start, step
  <2> QED BY <1>1, <1>2, <1>3, PriorRecursion
<1>5. \A e \in Event : f[e] = At(f, e)
  <2> SUFFICES ASSUME NEW e \in Event PROVE f[e] = At(f, e)
    OBVIOUS
  <2>1. CASE e \in Base
    <3>1. f[e] = start[e]
      <4> HIDE DEF Base, start, step
      <4> QED BY <1>4, <2>1 DEF AlongPriors
    <3> QED BY <2>1, <3>1
  <2>2. CASE e \notin Base
    <3>1. Ev[e].prior \in Event /\ f[e] = step[e][f[Ev[e].prior]]
      <4> HIDE DEF Base, start, step
      <4> QED BY <1>4, <2>2 DEF AlongPriors
    <3>2. f[Ev[e].prior] \in Seq(Wit)
      BY <3>1
    <3>3. f[e] = IF Ev[e].ilk = "ixn" THEN f[Ev[e].prior]
                 ELSE RotatedWitnesses(f[Ev[e].prior], Ev[e].cuts, Ev[e].adds)
      BY <3>1, <3>2
    <3> QED BY <1>1, <2>2, <3>3
  <2> QED BY <2>1, <2>2
<1>6. f = Unfold(f)
  BY <1>5
<1>7. GovWits = CHOOSE g : g = Unfold(g)
  BY DEF GovWits
<1>8. GovWits = Unfold(GovWits)
  <2> HIDE DEF Unfold
  <2> QED BY <1>6, <1>7
<1>9. GovWits = f
  <2> DEFINE S == {e \in Event : GovWits[e] = f[e]}
  <2>1. ASSUME NEW e \in Event, Ev[e].prior \in Event => Ev[e].prior \in S
        PROVE  e \in S
    <3>1. GovWits[e] = At(GovWits, e) /\ f[e] = At(f, e)
      BY <1>5, <1>8
    <3>2. Ev[e].prior = NoEvent \/ GovWits[Ev[e].prior] = f[Ev[e].prior]
      BY <2>1, EventAssumption DEF Body
    <3> QED BY <3>1, <3>2, <1>1
  <2>2. Event \subseteq S
    <3> HIDE DEF S
    <3> QED BY <2>1, PriorInduction
  <2>3. GovWits = [e \in Event |-> GovWits[e]] /\ f = [e \in Event |-> f[e]]
    BY <1>8
  <2> QED BY <2>2, <2>3
<1>10. \A e \in Event : GovWits[e] = At(GovWits, e)
  BY <1>8
<1> QED BY <1>1, <1>9, <1>10

------------------------------------------------------------------------------
(* Types *)

DecisionOK(d) ==
    /\ d.sigers \in SUBSET Siger /\ d.wigers \in SUBSET Wiger /\ d.wits \in Seq(Wit)
    /\ d.kind = "accept" => d.state \in KeyState

(* What comes with an event: signatures of controllers and of witnesses.   *)
Attached(in) == in.sigers \in SUBSET Siger /\ in.wigers \in SUBSET Wiger

LEMMA EscrowTyped ==
    ASSUME NEW kind, kind # "accept", NEW in, Attached(in)
    PROVE  DecisionOK(Escrow(kind, in, <<>>)) /\ DecisionOK(Reject)
BY DEF Escrow, Reject, Decision, DecisionOK, Attached

LEMMA AttachmentTyped ==
    ASSUME NEW e, NEW gov, gov.wits \in Seq(Wit), NEW nextKeys, NEW nextTholder,
           NEW in, Attached(in), NEW ks \in KeyState, NEW lst \in Seq(Wit)
    PROVE  DecisionOK(AttachmentDecision(e, gov, nextKeys, nextTholder, in, ks, lst))
<1> DEFINE v == AttachmentVerdict(e, gov, nextKeys, nextTholder, in)
           verified == VerifiedSigers(Counted(Ev[e].pre, gov.keys, in), gov.keys)
<1>1. verified \subseteq in.sigers /\ VerifiedSigers(in.wigers, gov.wits) \subseteq in.wigers
  BY DEF Counted, VerifiedSigers
<1>2. v \in {"accept", "reject", "misfit", "partialSigs", "partialWigs"}
  BY DEF AttachmentVerdict
<1>3. CASE v = "reject"
  <2>1. AttachmentDecision(e, gov, nextKeys, nextTholder, in, ks, lst) = Reject
    BY <1>3 DEF AttachmentDecision
  <2>2. DecisionOK(Escrow("ooo", in, <<>>)) /\ DecisionOK(Reject)
    BY EscrowTyped
  <2> QED BY <2>1, <2>2
<1>4. CASE v = "accept"
  BY <1>1, <1>4 DEF AttachmentDecision, Accept, Decision, DecisionOK, Attached
<1>5. CASE v \in {"misfit", "partialSigs", "partialWigs"}
  BY <1>5 DEF AttachmentDecision, Escrow, Decision, DecisionOK, Attached
<1> QED BY <1>2, <1>3, <1>4, <1>5

LEMMA BodyTyped ==
    ASSUME NEW e \in Event
    PROVE  Ev[e] \in Body /\ 0 \in Sn
BY EventAssumption DEF Sn

LEMMA InceptionTyped ==
    ASSUME NEW e \in Event, NEW in, Attached(in), Ev[e].ilk = "icp"
    PROVE  DecisionOK(EvaluateInception(e, in))
<1>1. InitialKeyState(e) \in KeyState
  BY BodyTyped DEF InitialKeyState, KeyState, Body
<1>2. Ev[e].backs \in Seq(Wit)
  BY BodyTyped DEF Body
<1>3. DecisionOK(AttachmentDecision(e, Governing(Ev[e].keys, Ev[e].kt, Ev[e].backs, Ev[e].toad),
                      Ev[e].nkeys, Ev[e].nt, in, InitialKeyState(e), Ev[e].backs))
  BY <1>1, <1>2, AttachmentTyped DEF Governing
<1> QED BY <1>3, EscrowTyped DEF EvaluateInception

LEMMA UpdateTyped ==
    ASSUME NEW e \in Event, NEW in, Attached(in), NEW ks \in KeyState
    PROVE  DecisionOK(EvaluateUpdate(ks, e, in))
<1>1. DecisionOK(EvaluateRotation(ks, e, in))
  <2> DEFINE n == RotatedKeyState(ks, e)
             b == Ev[e]
  <2>1. RotatedWitnesses(ks.wits, b.cuts, b.adds) \in Seq(Wit)
    BY RotatedType DEF KeyState
  <2>2. n \in KeyState /\ n.wits \in Seq(Wit)
    <3> DEFINE ws == RotatedWitnesses(ks.wits, b.cuts, b.adds)
    <3>1. n = [d |-> e, s |-> b.sn, ilk |-> "rot", keys |-> b.keys, kt |-> b.kt,
               nkeys |-> b.nkeys, nt |-> b.nt, wits |-> ws, toad |-> b.toad,
               traits |-> b.traits, est |-> [s |-> b.sn, d |-> e], fn |-> ks.fn]
      BY DEF RotatedKeyState
    <3>2. /\ b.sn \in Sn /\ b.keys \in Seq(Key) /\ b.kt \in Tholder /\ b.nkeys \in Seq(Key)
          /\ b.nt \in Tholder /\ b.toad \in Nat /\ b.traits \in SUBSET Trait
          /\ "rot" \in Ilk /\ ks.fn \in Nat
      BY BodyTyped DEF Body, KeyState, Ilk
    <3>3. [s |-> b.sn, d |-> e] \in [s : Sn, d : Event]
      BY <3>2
    <3> HIDE DEF n, ws, b
    <3> QED BY <2>1, <3>1, <3>2, <3>3 DEF KeyState, ws
  <2>3. DecisionOK(AttachmentDecision(e, Governing(b.keys, b.kt, n.wits, b.toad),
                                      ks.nkeys, ks.nt, in, n, n.wits))
    BY <2>2, AttachmentTyped DEF Governing
  <2> QED BY <2>3, EscrowTyped DEF EvaluateRotation
<1>2. DecisionOK(EvaluateInteraction(ks, e, in))
  <2>1. InteractedKeyState(ks, e) \in KeyState /\ ks.wits \in Seq(Wit) /\ <<>> \in Seq(Wit)
    <3>1. Ev[e].sn \in Sn /\ "ixn" \in Ilk
      BY BodyFacts DEF Ilk
    <3>2. InteractedKeyState(ks, e) \in KeyState
      BY <3>1 DEF InteractedKeyState, KeyState
    <3> QED BY <3>2 DEF KeyState
  <2>2. DecisionOK(AttachmentDecision(e, Governing(ks.keys, ks.kt, ks.wits, ks.toad),
                       ks.nkeys, ks.nt, in, InteractedKeyState(ks, e), <<>>))
    BY <2>1, AttachmentTyped DEF Governing
  <2> QED BY <2>2, EscrowTyped DEF EvaluateInteraction
<1> QED BY <1>1, <1>2, EscrowTyped DEF EvaluateUpdate

(* decideEvent decides with attachments and a key state of their types.    *)
LEMMA DecisionTyped ==
    ASSUME StoresTypeOK, NEW e \in Event, NEW in, Attached(in)
    PROVE  DecisionOK(DecideEvent(e, in))
<1> DEFINE ks == kevers[Ev[e].pre]
<1>1. Ev[e].pre \in Pre /\ (ks # NoState => ks \in KeyState)
  BY BodyFacts DEF StoresTypeOK
<1>2. DecisionOK(DuplicateDecision(ks, e, in))
  <2>1. wits[e] \in Seq(Wit)
    BY DEF StoresTypeOK
  <2> QED BY <2>1 DEF DuplicateDecision, Decision, DecisionOK, Attached, VerifiedSigers
<1>3. DecisionOK(Escrow("ooo", in, <<>>)) /\ DecisionOK(Escrow("duplicitous", in, <<>>))
      /\ DecisionOK(Reject)
  BY EscrowTyped
<1>4. CASE ks = NoState
  BY <1>3, <1>4, InceptionTyped DEF DecideEvent
<1>5. CASE ks # NoState
  <2>1. DecisionOK(EvaluateUpdate(ks, e, in))
    BY <1>1, <1>5, UpdateTyped
  <2> QED BY <1>2, <1>3, <1>5, <2>1 DEF DecideEvent
<1> QED BY <1>4, <1>5

MaterialTypes ==
    /\ evts \in SUBSET Event
    /\ sigs \in [Event -> SUBSET Siger]
    /\ wigs \in [Event -> SUBSET Wiger]
    /\ wits \in [Event -> Seq(Wit)]
    /\ esrs \in [Event -> Source]

LogTypes ==
    /\ kels \in [Pre -> [Sn -> Seq(Event)]]
    /\ fels \in [Pre -> Seq(Event)]
    /\ fons \in [Event -> Nat]
    /\ states \in [Pre -> KeyState \cup {NoState}]
    /\ escrow \in [EscrowKind -> SUBSET Event]

ReceiptTypes ==
    /\ rcts \in [Event -> SUBSET Couple]
    /\ vrcs \in [Event -> SUBSET Quadruple]
    /\ uwes \in SUBSET [ev : Event, wiger : Wiger]
    /\ ures \in SUBSET [ev : Event, couple : Couple]
    /\ vres \in SUBSET [ev : Event, quad : Quadruple]

CacheType == kevers \in [Pre -> KeyState \cup {NoState}]

LEMMA TypesTogether ==
    StoresTypeOK <=> MaterialTypes /\ LogTypes /\ ReceiptTypes /\ CacheType
BY DEF StoresTypeOK, MaterialTypes, LogTypes, ReceiptTypes, CacheType

LEMMA MaterialTyped ==
    ASSUME MaterialTypes, NEW n, NEW e \in Event, NEW sg \in SUBSET Siger,
           NEW wg \in SUBSET Wiger, NEW wt \in Seq(Wit), NEW local \in BOOLEAN,
           StoreMaterial(n, e, sg, wg, wt, local)
    PROVE  MaterialTypes'
<1>1. PutAll(wits[e], wt) \in Seq(Wit)
  BY PutAllType DEF MaterialTypes
<1>2. Promote(esrs[e], local) \in Source
  BY DEF MaterialTypes, Promote, Source
<1>3. sigs' \in [Event -> SUBSET Siger]
  BY DEF StoreMaterial, MaterialTypes
<1>4. wigs' \in [Event -> SUBSET Wiger]
  BY DEF StoreMaterial, MaterialTypes
<1>5. wits' \in [Event -> Seq(Wit)]
  BY <1>1 DEF StoreMaterial, MaterialTypes
<1>6. esrs' \in [Event -> Source]
  BY <1>2 DEF StoreMaterial, MaterialTypes
<1>7. evts' \in SUBSET Event
  BY DEF StoreMaterial, MaterialTypes
<1> QED BY <1>3, <1>4, <1>5, <1>6, <1>7 DEF MaterialTypes

(* What logging an event writes to the logs, each write made or not.        *)
LogWrites(e) ==
    LET p == Ev[e].pre IN
    /\ fels' = fels \/ fels' = [fels EXCEPT ![p] = Append(@, e)]
    /\ fons' = fons \/ fons' = [fons EXCEPT ![e] = Len(fels[p]) + 1]
    /\ kels' = kels \/ kels' = [kels EXCEPT ![p][Ev[e].sn] = AddOnce(@, e)]

LEMMA LogTyped ==
    ASSUME LogTypes, NEW e \in Event, LogWrites(e)
    PROVE  /\ kels' \in [Pre -> [Sn -> Seq(Event)]]
           /\ fels' \in [Pre -> Seq(Event)]
           /\ fons' \in [Event -> Nat]
<1> DEFINE p == Ev[e].pre
<1>1. p \in Pre /\ Ev[e].sn \in Sn
  BY BodyFacts
<1>2. AddOnce(kels[p][Ev[e].sn], e) \in Seq(Event) /\ Append(fels[p], e) \in Seq(Event)
      /\ Len(fels[p]) + 1 \in Nat
  BY <1>1 DEF LogTypes, AddOnce
<1>4. kels' \in [Pre -> [Sn -> Seq(Event)]]
  <2> DEFINE col == AddOnce(kels[p][Ev[e].sn], e)
  <2>1. [kels EXCEPT ![p][Ev[e].sn] = AddOnce(@, e)] = [kels EXCEPT ![p][Ev[e].sn] = col]
    BY DEF AddOnce
  <2>2. kels' = kels \/ kels' = [kels EXCEPT ![p][Ev[e].sn] = col]
    BY <2>1 DEF LogWrites
  <2>3. col \in Seq(Event) /\ kels \in [Pre -> [Sn -> Seq(Event)]] /\ p \in Pre
    BY <1>1, <1>2 DEF LogTypes
  <2> HIDE DEF col, p
  <2>4. [kels[p] EXCEPT ![Ev[e].sn] = col] \in [Sn -> Seq(Event)]
    BY <2>3
  <2> QED BY <2>2, <2>3, <2>4
<1>5. fels' \in [Pre -> Seq(Event)]
  BY <1>1, <1>2 DEF LogWrites, LogTypes
<1>6. fons' \in [Event -> Nat]
  BY <1>1, <1>2 DEF LogWrites, LogTypes
<1> QED BY <1>4, <1>5, <1>6

LEMMA SeenTyped ==
    ASSUME LogTypes, NEW e \in Event, NEW d, DecisionOK(d), d.kind = "accept"
    PROVE  SeenState(e, d) \in KeyState
<1>1. d.state \in KeyState /\ Len(fels[Ev[e].pre]) + 1 \in Nat
  BY BodyFacts DEF DecisionOK, LogTypes
<1> QED BY <1>1 DEF SeenState, KeyState

(* However many writes of a decision reach the disk, they are of the type. *)
LEMMA AppliedTyped ==
    ASSUME MaterialTypes, LogTypes, NEW n, NEW e \in Event, NEW d, DecisionOK(d),
           NEW local \in BOOLEAN, NEW rows \in [EscrowKind -> SUBSET Event],
           Apply(n, e, d, local, rows)
    PROVE  MaterialTypes' /\ LogTypes'
<1>0. d.sigers \in SUBSET Siger /\ d.wigers \in SUBSET Wiger /\ d.wits \in Seq(Wit)
  BY DEF DecisionOK
<1>1. CASE /\ d.kind = "accept"
           /\ LogEvent(n, e, d.sigers, d.wigers, d.wits, local, TRUE)
           /\ PinState(n, Ev[e].pre, SeenState(e, d))
           /\ escrow' = rows
  <2>1. states' \in [Pre -> KeyState \cup {NoState}]
    BY <1>1, SeenTyped, BodyFacts DEF PinState, LogTypes
  <2>2. /\ MaterialTypes' /\ kels' \in [Pre -> [Sn -> Seq(Event)]]
        /\ fels' \in [Pre -> Seq(Event)] /\ fons' \in [Event -> Nat]
    <3>1. StoreMaterial(n, e, d.sigers, d.wigers, d.wits, local) /\ LogWrites(e)
      BY <1>1 DEF LogEvent, LogWrites
    <3> QED BY <1>0, <3>1, MaterialTyped, LogTyped
  <2> QED BY <1>1, <2>1, <2>2 DEF LogTypes
<1>2. CASE /\ d.kind = "duplicate" /\ NewAttachments(d)
           /\ LogEvent(n, e, d.sigers, d.wigers, d.wits, local, FALSE)
           /\ escrow' = rows
           /\ UNCHANGED states
  <2>1. /\ MaterialTypes' /\ kels' \in [Pre -> [Sn -> Seq(Event)]]
        /\ fels' \in [Pre -> Seq(Event)] /\ fons' \in [Event -> Nat]
    <3>1. StoreMaterial(n, e, d.sigers, d.wigers, d.wits, local) /\ LogWrites(e)
      BY <1>2 DEF LogEvent, LogWrites
    <3> QED BY <1>0, <3>1, MaterialTyped, LogTyped
  <2> QED BY <1>2, <2>1 DEF LogTypes
<1>3. CASE /\ escrow' = rows
           /\ UNCHANGED <<evts, sigs, wigs, wits, esrs, kels, fels, fons, states>>
  BY <1>3 DEF MaterialTypes, LogTypes
<1>4. CASE /\ d.kind \in EscrowKind
           /\ PersistEscrow(n, d.kind, e, d.sigers, d.wigers, d.wits, local, rows)
           /\ UNCHANGED <<kels, fels, fons, states>>
  <2>1. MaterialTypes'
    BY <1>0, <1>4, MaterialTyped DEF PersistEscrow
  <2>2. escrow' \in [EscrowKind -> SUBSET Event]
    BY <1>4 DEF PersistEscrow
  <2> QED BY <1>4, <2>1, <2>2 DEF LogTypes
<1> QED BY <1>1, <1>2, <1>3, <1>4 DEF Apply

------------------------------------------------------------------------------
(* Steps *)

(***************************************************************************)
(* A step that decides event e with the attachments in, and of whose       *)
(* writes n reach the disk: all of them, or the node starts again.         *)
(***************************************************************************)
EventStep(e, in, n, rows) ==
    /\ Attached(in) /\ in.local \in BOOLEAN
    /\ rows \in [EscrowKind -> SUBSET Event]
    /\ Apply(n, e, DecideEvent(e, in), in.local, rows)
    /\ \/ kevers' = Reloaded(states')
       \/ n = AllWrites /\ kevers' = LiveAfter(e, DecideEvent(e, in))
    /\ UNCHANGED receiptStores

SomeEventStep ==
    \E e \in Event, n \in Nat, rows \in [EscrowKind -> SUBSET Event] :
        \E in : EventStep(e, in, n, rows)

(* Any other step is of receipts, of a restart or of nothing, and leaves   *)
(* the event stores and all but the cache and the witness signatures.      *)
ReceiptStep == (\E r \in Receipts : DeliverReceipt(r)) \/ SweepReceipts \/ ExpireReceipt

CacheRead == (\E p \in Pre : kevers' = Rehydrated(p)) \/ kevers' = kevers
OtherStep == UNCHANGED eventStores /\ (CacheRead \/ kevers' = Reloaded(states))

AnyStep == Next \/ Restart \/ Crash

(* What is replayed is attached, and typed.                                *)
LEMMA ReplayAttached ==
    ASSUME MaterialTypes, NEW e \in Event
    PROVE  Attached(Rehydrate(e)) /\ Rehydrate(e).local = (esrs[e] = "local")
           /\ Rehydrate(e).local \in BOOLEAN
BY DEF Rehydrate, Attached, MaterialTypes

LEMMA CachesRead ==
    ASSUME TypeOK, NEW e \in Event
    PROVE  /\ kevers' = TargetCache(e) => CacheRead
           /\ kevers' = PartialCache(e) => CacheRead
BY BodyFacts DEF TargetCache, PartialCache, CacheRead

(***************************************************************************)
(* A handler runs to completion: it decides one event and makes every      *)
(* write, or it leaves the event stores.                                   *)
(***************************************************************************)
FullStep(e, in, rows) ==
    EventStep(e, in, AllWrites, rows) /\ kevers' = LiveAfter(e, DecideEvent(e, in))

SomeFullStep ==
    \E e \in Event, rows \in [EscrowKind -> SUBSET Event] : \E in : FullStep(e, in, rows)

LEMMA NextKinds ==
    ASSUME TypeOK, Next
    PROVE  SomeFullStep \/ (OtherStep /\ CacheRead /\ ReceiptStep)
<1>1. MaterialTypes /\ escrow \in [EscrowKind -> SUBSET Event]
  BY TypesTogether DEF TypeOK, LogTypes
<1>2. \A m \in Messages : m.ev \in Event /\ Attached(m) /\ m.local \in BOOLEAN
  BY MessageAssumption DEF Attached
<1>3. \A k \in EscrowKind, e \in Event : WithoutRow(k, e) \in [EscrowKind -> SUBSET Event]
  BY <1>1 DEF WithoutRow
<1>4. ASSUME NEW m \in Messages, DeliverEvent(m) PROVE SomeFullStep
  <2>1. FullStep(m.ev, m, escrow)
    BY <1>1, <1>2, <1>4 DEF DeliverEvent, EventStep, FullStep
  <2> QED BY <1>1, <1>2, <2>1 DEF SomeFullStep
<1>5. ASSUME NEW k \in EscrowKind, NEW e \in Event, ReplayEscrow(k, e) PROVE SomeFullStep
  <2>1. FullStep(e, Rehydrate(e), WithoutRow(k, e))
    BY <1>1, <1>3, <1>5, ReplayAttached DEF ReplayEscrow, EventStep, FullStep
  <2> QED BY <1>3, <2>1 DEF SomeFullStep
<1>6. ASSUME NEW r \in Receipts, DeliverReceipt(r) PROVE OtherStep /\ CacheRead
  <2>1. r.ev \in Event /\ kevers' = TargetCache(r.ev) /\ UNCHANGED eventStores
    BY <1>6, MessageAssumption DEF DeliverReceipt
  <2> QED BY <2>1, CachesRead DEF OtherStep
<1>7. ASSUME NEW row \in uwes, ReplayWitnessReceipt(row) PROVE OtherStep /\ CacheRead
  <2>1. row.ev \in Event /\ kevers' = PartialCache(row.ev) /\ UNCHANGED eventStores
    BY <1>7 DEF ReplayWitnessReceipt, TypeOK, StoresTypeOK
  <2> QED BY <2>1, CachesRead DEF OtherStep
<1>8. ASSUME NEW row \in ures, ReplayNonTransReceipt(row) PROVE OtherStep /\ CacheRead
  <2>1. row.ev \in Event /\ UNCHANGED eventStores
    BY <1>8 DEF ReplayNonTransReceipt, TypeOK, StoresTypeOK
  <2>2. kevers' = PartialCache(row.ev) \/ kevers' = TargetCache(row.ev)
    BY <1>8 DEF ReplayNonTransReceipt
  <2> QED BY <2>1, <2>2, CachesRead DEF OtherStep
<1>9. ASSUME NEW row \in vres, ReplayTransReceipt(row) PROVE OtherStep /\ CacheRead
  <2>1. row.ev \in Event /\ kevers' = TargetCache(row.ev) /\ UNCHANGED eventStores
    BY <1>9 DEF ReplayTransReceipt, TypeOK, StoresTypeOK
  <2> QED BY <2>1, CachesRead DEF OtherStep
<1>10. ASSUME ExpireReceipt PROVE OtherStep /\ CacheRead
  BY <1>10 DEF ExpireReceipt, OtherStep, CacheRead
<1> QED BY <1>4, <1>5, <1>6, <1>7, <1>8, <1>9, <1>10 DEF Next, ReceiptStep, SweepReceipts

(* The same when the node may stop, between two writes too.                *)
LEMMA StepKinds ==
    ASSUME TypeOK, [AnyStep]_vars
    PROVE  \/ SomeEventStep
           \/ OtherStep /\ (ReceiptStep \/ Restart \/ UNCHANGED vars)
<1>1. /\ MaterialTypes /\ escrow \in [EscrowKind -> SUBSET Event]
      /\ AllWrites \in Nat /\ 0..(AllWrites - 1) \subseteq Nat
  BY TypesTogether DEF TypeOK, LogTypes, AllWrites
<1>2. \A m \in Messages : m.ev \in Event /\ Attached(m) /\ m.local \in BOOLEAN
  BY MessageAssumption DEF Attached
<1>3. net \subseteq Messages
  BY DEF TypeOK
<1>4. \A k \in EscrowKind, e \in Event : WithoutRow(k, e) \in [EscrowKind -> SUBSET Event]
  BY <1>1 DEF WithoutRow
<1>5. ASSUME NEW m \in net, CrashInDelivery(m) PROVE SomeEventStep
  <2>1. PICK n \in 0..(AllWrites - 1) : Apply(n, m.ev, DecideEvent(m.ev, m), m.local, escrow)
    BY <1>5 DEF CrashInDelivery
  <2>2. EventStep(m.ev, m, n, escrow)
    BY <1>1, <1>2, <1>3, <1>5, <2>1 DEF CrashInDelivery, EventStep
  <2> QED BY <1>1, <1>2, <1>3, <2>2 DEF SomeEventStep
<1>6. ASSUME NEW k \in EscrowKind, NEW e \in escrow[k], CrashInReplay(k, e) PROVE SomeEventStep
  <2>0. e \in Event
    BY <1>1
  <2>1. PICK n \in 0..(AllWrites - 1) :
           Apply(n, e, DecideEvent(e, Rehydrate(e)), esrs[e] = "local", WithoutRow(k, e))
    BY <1>6 DEF CrashInReplay
  <2>2. EventStep(e, Rehydrate(e), n, WithoutRow(k, e))
    BY <1>1, <1>4, <1>6, <2>0, <2>1, ReplayAttached DEF CrashInReplay, EventStep
  <2> QED BY <1>1, <1>4, <2>0, <2>2 DEF SomeEventStep
<1>7. ASSUME Crash PROVE SomeEventStep
  BY <1>5, <1>6, <1>7 DEF Crash
<1>8. ASSUME Restart PROVE OtherStep
  BY <1>8 DEF Restart, OtherStep
<1>9. ASSUME UNCHANGED vars PROVE OtherStep
  BY <1>9 DEF vars, OtherStep, CacheRead, eventStores
<1>10. ASSUME Next PROVE SomeEventStep \/ (OtherStep /\ ReceiptStep)
  <2>1. SomeFullStep => SomeEventStep
    BY <1>1 DEF SomeFullStep, FullStep, SomeEventStep
  <2> QED BY <1>10, <2>1, NextKinds
<1> QED BY <1>7, <1>8, <1>9, <1>10 DEF AnyStep

(* Witness signatures and receipts, which the steps of receipts write.     *)
WigsType == wigs \in [Event -> SUBSET Wiger]

LEMMA WitsTyped ==
    ASSUME TypeOK, NEW e \in Event
    PROVE  AcceptedWits(e) \in Seq(Wit) /\ PartialWits(e).wits \in Seq(Wit)
<1>1. /\ Ev[e].pre \in Pre /\ Ev[e].ilk \in Ilk /\ Ev[e].backs \in Seq(Wit)
      /\ wits[e] \in Seq(Wit) /\ <<>> \in Seq(Wit)
  BY BodyTyped DEF Body, TypeOK, StoresTypeOK
<1>2. GetKever(Ev[e].pre).wits \in Seq(Wit)
  <2>1. GetKever(Ev[e].pre) \in KeyState \/ GetKever(Ev[e].pre) = NoState
    BY <1>1 DEF GetKever, TypeOK, StoresTypeOK
  <2>2. NoState.wits = <<>>
    BY DEF NoState
  <2>3. \A ks \in KeyState : ks.wits \in Seq(Wit)
    BY DEF KeyState
  <2> QED BY <1>1, <2>1, <2>2, <2>3
<1>3. RotatedWitnesses(GetKever(Ev[e].pre).wits, Ev[e].cuts, Ev[e].adds) \in Seq(Wit)
  BY <1>2, RotatedType
<1> QED BY <1>1, <1>2, <1>3 DEF AcceptedWits, PartialWits

LEMMA AsWigerTyped ==
    ASSUME NEW c \in Couple, NEW ws \in Seq(Wit), c.verfer \in Range(ws)
    PROVE  AsWiger(c, ws) \in Wiger
<1>1. \E i \in DOMAIN ws : ws[i] = c.verfer
  BY DEF Range
<1>2. WitnessIndex(ws, c.verfer) \in DOMAIN ws
  BY <1>1 DEF WitnessIndex
<1>3. WitnessIndex(ws, c.verfer) \in Nat /\ c.key \in Wit
  BY <1>2 DEF Couple
<1> QED BY <1>3 DEF AsWiger, Wiger

LEMMA DeliverReceiptTyped ==
    ASSUME TypeOK, NEW r \in Receipts, DeliverReceipt(r)
    PROVE  WigsType' /\ ReceiptTypes'
<1> DEFINE e == r.ev
           p == Ev[e].pre
           ws == AcceptedWits(e)
           good == {c \in r.couples : Valid(c) /\ ~OwnReceiptConflict(p, c.verfer, r.local)}
           byWit == {c \in good : c.verfer \in Range(ws)}
           signed == {w \in VerifiedSigers(r.wigers, ws) : ~OwnReceiptConflict(p, w.key, r.local)}
<1>1. /\ e \in Event /\ r.couples \subseteq Couple /\ r.wigers \subseteq Wiger
      /\ r.quads \in Seq(Quadruple)
  BY MessageAssumption
<1>2. /\ WigsType /\ ReceiptTypes
  BY DEF TypeOK, StoresTypeOK, WigsType, ReceiptTypes
<1>3. Range(r.quads) \subseteq Quadruple
  BY <1>1 DEF Range
<1>4. CASE UNCHANGED <<wigs, rcts, vrcs, uwes, ures, vres>>
  BY <1>2, <1>4 DEF WigsType, ReceiptTypes
<1>5. CASE /\ ures' = ures \cup {[ev |-> e, couple |-> c] : c \in r.couples}
           /\ uwes' = uwes \cup {[ev |-> e, wiger |-> w] : w \in r.wigers}
           /\ vres' = vres \cup {[ev |-> e, quad |-> q] : q \in Range(r.quads)}
           /\ UNCHANGED <<wigs, rcts, vrcs>>
  BY <1>1, <1>2, <1>3, <1>5 DEF WigsType, ReceiptTypes
<1>6. CASE /\ wigs' = [wigs EXCEPT ![e] = @ \cup {AsWiger(c, ws) : c \in byWit} \cup signed]
           /\ rcts' = [rcts EXCEPT ![e] = @ \cup (good \ byWit)]
           /\ vrcs' = [vrcs EXCEPT ![e] = @ \cup VerifiedQuads(r.quads, p, r.local)]
           /\ vres' = vres \cup {[ev |-> e, quad |-> q] : q \in UnreadGroup(r.quads, p, r.local)}
           /\ UNCHANGED <<uwes, ures>>
  <2>1. {AsWiger(c, ws) : c \in byWit} \subseteq Wiger
    BY <1>1, AsWigerTyped, WitsTyped
  <2>2. signed \subseteq Wiger
    BY <1>1 DEF VerifiedSigers
  <2>3. good \ byWit \subseteq Couple
    BY <1>1
  <2>4. VerifiedQuads(r.quads, p, r.local) \subseteq Quadruple
    BY <1>1 DEF VerifiedQuads, ReadUpTo
  <2>5. UnreadGroup(r.quads, p, r.local) \subseteq Quadruple
    BY <1>3 DEF UnreadGroup
  <2> HIDE DEF byWit, signed, good, ws
  <2>6. WigsType'
    BY <1>1, <1>2, <1>6, <2>1, <2>2 DEF WigsType
  <2>7. rcts' \in [Event -> SUBSET Couple] /\ vrcs' \in [Event -> SUBSET Quadruple]
    BY <1>1, <1>2, <1>6, <2>3, <2>4 DEF ReceiptTypes
  <2>8. vres' \in SUBSET [ev : Event, quad : Quadruple]
    BY <1>1, <1>2, <1>6, <2>5 DEF ReceiptTypes
  <2> QED BY <1>2, <1>6, <2>6, <2>7, <2>8 DEF ReceiptTypes
<1> QED BY <1>4, <1>5, <1>6 DEF DeliverReceipt

LEMMA ReplayReceiptTyped ==
    ASSUME TypeOK, SweepReceipts \/ ExpireReceipt
    PROVE  WigsType' /\ ReceiptTypes'
<1>1. WigsType /\ ReceiptTypes
  BY DEF TypeOK, StoresTypeOK, WigsType, ReceiptTypes
<1>2. ASSUME NEW row \in uwes, ReplayWitnessReceipt(row) PROVE WigsType' /\ ReceiptTypes'
  <2>1. row.ev \in Event /\ row.wiger \in Wiger
    BY <1>1 DEF ReceiptTypes
  <2>2. wigs' \in {wigs, [wigs EXCEPT ![row.ev] = @ \cup {row.wiger}]}
    BY <1>2 DEF ReplayWitnessReceipt
  <2>3. uwes' = uwes \ {row} /\ UNCHANGED <<rcts, vrcs, ures, vres>>
    BY <1>2 DEF ReplayWitnessReceipt
  <2> QED BY <1>1, <2>1, <2>2, <2>3 DEF WigsType, ReceiptTypes
<1>3. ASSUME NEW row \in ures, ReplayNonTransReceipt(row) PROVE WigsType' /\ ReceiptTypes'
  <2> DEFINE e == row.ev
             c == row.couple
             Stored(ws) == /\ ws \in Seq(Wit)
                           /\ \/ UNCHANGED <<wigs, rcts>>
                              \/ /\ c.verfer \in Range(ws) /\ UNCHANGED rcts
                                 /\ wigs' = [wigs EXCEPT ![e] = @ \cup {AsWiger(c, ws)}]
                              \/ /\ rcts' = [rcts EXCEPT ![e] = @ \cup {c}] /\ UNCHANGED wigs
  <2>1. e \in Event /\ c \in Couple
    BY <1>1 DEF ReceiptTypes
  <2>2. Stored(AcceptedWits(e)) \/ Stored(PartialWits(e).wits)
    BY <1>3, <2>1, WitsTyped DEF ReplayNonTransReceipt
  <2>3. ures' \in {ures, ures \ {row}} /\ UNCHANGED <<vrcs, uwes, vres>>
    BY <1>3 DEF ReplayNonTransReceipt
  <2>4. ASSUME NEW ws, Stored(ws) PROVE WigsType' /\ rcts' \in [Event -> SUBSET Couple]
    BY <1>1, <2>1, <2>4, AsWigerTyped DEF WigsType, ReceiptTypes
  <2> HIDE DEF Stored
  <2> QED BY <1>1, <2>2, <2>3, <2>4 DEF ReceiptTypes
<1>4. ASSUME NEW row \in vres, ReplayTransReceipt(row) PROVE WigsType' /\ ReceiptTypes'
  <2>1. row.ev \in Event /\ row.quad \in Quadruple
    BY <1>1 DEF ReceiptTypes
  <2>2. vrcs' \in {vrcs, [vrcs EXCEPT ![row.ev] = @ \cup {row.quad}]} /\ vres' \subseteq vres
    BY <1>4 DEF ReplayTransReceipt
  <2>3. UNCHANGED <<wigs, rcts, uwes, ures>>
    BY <1>4 DEF ReplayTransReceipt
  <2> QED BY <1>1, <2>1, <2>2, <2>3 DEF WigsType, ReceiptTypes
<1>5. ASSUME ExpireReceipt PROVE WigsType' /\ ReceiptTypes'
  <2>1. uwes' \subseteq uwes /\ ures' \subseteq ures /\ vres' \subseteq vres
        /\ UNCHANGED <<wigs, rcts, vrcs>>
    BY <1>5 DEF ExpireReceipt
  <2> QED BY <1>1, <2>1 DEF WigsType, ReceiptTypes
<1> QED BY <1>2, <1>3, <1>4, <1>5 DEF SweepReceipts

(* Reading a key state back, after a start or through the cache.           *)
LEMMA CacheTyped ==
    ASSUME TypeOK, LogTypes',
           CacheRead \/ kevers' = Reloaded(states) \/ kevers' = Reloaded(states')
    PROVE  CacheType'
<1>1. CacheType /\ states \in [Pre -> KeyState \cup {NoState}]
      /\ states' \in [Pre -> KeyState \cup {NoState}]
  BY DEF TypeOK, StoresTypeOK, CacheType, LogTypes
<1>2. \A p \in Pre : Rehydrated(p) \in [Pre -> KeyState \cup {NoState}]
  BY <1>1 DEF Rehydrated, GetKever, CacheType
<1> QED BY <1>1, <1>2 DEF CacheRead, Reloaded, CacheType

LEMMA EventStepTyped ==
    ASSUME TypeOK, NEW e \in Event, NEW n, NEW rows, NEW in, EventStep(e, in, n, rows)
    PROVE  MaterialTypes' /\ LogTypes' /\ CacheType'
<1>1. PICK d : d = DecideEvent(e, in)
  OBVIOUS
<1>2. MaterialTypes /\ LogTypes /\ CacheType /\ StoresTypeOK
  BY TypesTogether DEF TypeOK
<1>3. DecisionOK(d)
  BY <1>1, <1>2, DecisionTyped DEF EventStep
<1>4. /\ Apply(n, e, d, in.local, rows) /\ in.local \in BOOLEAN
      /\ rows \in [EscrowKind -> SUBSET Event]
  BY <1>1 DEF EventStep
<1>5. MaterialTypes' /\ LogTypes'
  BY <1>2, <1>3, <1>4, AppliedTyped
<1>6. CacheType'
  <2>1. CASE kevers' = Reloaded(states')
    BY <1>5, <2>1, CacheTyped
  <2>2. CASE kevers' = LiveAfter(e, d)
    BY <1>2, <1>3, <2>2, SeenTyped DEF LiveAfter, CacheType
  <2> QED BY <1>1, <2>1, <2>2 DEF EventStep
<1> QED BY <1>5, <1>6

(* Every step keeps the types.                                             *)
LEMMA NextKeepsTypes ==
    ASSUME TypeOK, [AnyStep]_vars
    PROVE  TypeOK'
<1>1. MaterialTypes /\ LogTypes /\ ReceiptTypes /\ CacheType /\ WigsType
  BY TypesTogether DEF TypeOK, WigsType, MaterialTypes
<1>2. net' \in SUBSET Messages /\ post' \in SUBSET Receipts /\ crashes' \in 0..MaxCrashes
  <2>1. net \in SUBSET Messages /\ post \in SUBSET Receipts /\ crashes \in 0..MaxCrashes
        /\ MaxCrashes \in Nat
    BY MessageAssumption DEF TypeOK
  <2>2. \A box, m : Left(box, m) \subseteq box
    BY DEF Left
  <2>3. net' \subseteq net /\ post' \subseteq post
    <3>1. ASSUME NEW m, DeliverEvent(m) \/ CrashInDelivery(m)
          PROVE  net' = Left(net, m) /\ post' = post
      BY <3>1 DEF DeliverEvent, CrashInDelivery
    <3>2. ASSUME NEW k, NEW e, ReplayEscrow(k, e) \/ CrashInReplay(k, e)
          PROVE  UNCHANGED <<net, post>>
      BY <3>2 DEF ReplayEscrow, CrashInReplay
    <3>3. ASSUME NEW r, DeliverReceipt(r) PROVE net' = net /\ post' = Left(post, r)
      BY <3>3 DEF DeliverReceipt
    <3>4. ASSUME NEW row, ReplayWitnessReceipt(row) \/ ReplayNonTransReceipt(row)
                             \/ ReplayTransReceipt(row)
          PROVE  UNCHANGED <<net, post>>
      BY <3>4 DEF ReplayWitnessReceipt, ReplayNonTransReceipt, ReplayTransReceipt
    <3>5. ASSUME ExpireReceipt \/ Restart \/ UNCHANGED vars PROVE UNCHANGED <<net, post>>
      BY <3>5 DEF ExpireReceipt, Restart, vars
    <3> QED BY <2>2, <3>1, <3>2, <3>3, <3>4, <3>5 DEF AnyStep, Next, Crash
  <2>5. crashes' = crashes \/ (crashes < MaxCrashes /\ crashes' = crashes + 1)
    BY DEF AnyStep, Next, Restart, Crash, DeliverEvent, ReplayEscrow, DeliverReceipt,
           ReplayWitnessReceipt, ReplayNonTransReceipt, ReplayTransReceipt, ExpireReceipt,
           CrashInDelivery, CrashInReplay, vars
  <2> QED BY <2>1, <2>3, <2>5
<1>3. CASE SomeEventStep
  <2>1. PICK e \in Event, n \in Nat, rows \in [EscrowKind -> SUBSET Event] :
           \E in : EventStep(e, in, n, rows)
    BY <1>3 DEF SomeEventStep
  <2>2. PICK in : EventStep(e, in, n, rows)
    BY <2>1
  <2>3. MaterialTypes' /\ LogTypes' /\ CacheType'
    BY <2>2, EventStepTyped
  <2>4. ReceiptTypes'
    BY <1>1, <2>2 DEF EventStep, receiptStores, ReceiptTypes
  <2> QED BY <1>2, <2>3, <2>4 DEF TypeOK, StoresTypeOK, MaterialTypes, LogTypes,
                                  ReceiptTypes, CacheType
<1>4. CASE OtherStep /\ (ReceiptStep \/ Restart \/ UNCHANGED vars)
  <2>1. LogTypes'
    BY <1>1, <1>4 DEF OtherStep, eventStores, LogTypes
  <2>2. CacheType'
    BY <1>4, <2>1, CacheTyped DEF OtherStep
  <2>3. WigsType' /\ ReceiptTypes'
    <3>1. CASE ReceiptStep
      BY <3>1, DeliverReceiptTyped, ReplayReceiptTyped DEF ReceiptStep
    <3>2. CASE Restart
      BY <1>1, <3>2 DEF Restart, receiptStores, WigsType, ReceiptTypes
    <3>3. CASE UNCHANGED vars
      BY <1>1, <3>3 DEF vars, WigsType, ReceiptTypes
    <3> QED BY <1>4, <3>1, <3>2, <3>3
  <2>4. MaterialTypes'
    BY <1>1, <1>4, <2>3 DEF OtherStep, eventStores, MaterialTypes, WigsType
  <2> QED BY <1>2, <2>1, <2>2, <2>3, <2>4
          DEF TypeOK, StoresTypeOK, MaterialTypes, LogTypes, ReceiptTypes, CacheType
<1> QED BY <1>3, <1>4, StepKinds

LEMMA InitTypes == Init => TypeOK
<1> SUFFICES ASSUME Init PROVE TypeOK
  OBVIOUS
<1>1. \A p \in Pre : Sn \subseteq Nat
  BY DEF Sn
<1>2. /\ net \in SUBSET Messages /\ post \in SUBSET Receipts /\ crashes \in 0..MaxCrashes
  BY MessageAssumption DEF Init
<1>3. [n \in Sn |-> <<>>] \in [Sn -> Seq(Event)]
  OBVIOUS
<1>4. StoresTypeOK
  BY <1>3 DEF Init, InitStores, StoresTypeOK, Source
<1> QED BY <1>2, <1>4 DEF TypeOK

(***************************************************************************)
(* Whatever messages come, wait, are swept or expire, and wherever the     *)
(* node stops and starts again, also between two writes of one handler,    *)
(* the stores and the cache hold what their types say: a stored key state  *)
(* is whole, an accepted event's witness list is a list of witnesses.      *)
(***************************************************************************)
THEOREM StoresTyped == CrashSpec => []TypeOK
<1>1. Init => TypeOK
  BY InitTypes
<1>2. TypeOK /\ [Next \/ Restart \/ Crash]_vars => TypeOK'
  BY NextKeepsTypes DEF AnyStep
<1> QED BY <1>1, <1>2, PTL DEF CrashSpec

------------------------------------------------------------------------------
(* The order of the writes *)

(* decideEvent, of the live key state alone: what it accepts moves that    *)
(* state, and what it finds a duplicate stands at it or in the log.        *)
LEMMA DecidesLive ==
    ASSUME TypeOK, NEW e \in Event, NEW in
    PROVE  LET d == DecideEvent(e, in)
               ks == kevers[Ev[e].pre]
           IN
           /\ d.kind = "accept" => Moves(ks, e, d.state)
           /\ d.kind = "duplicate" =>
                 ks # NoState /\ (ks.d = e \/ LastAt(Ev[e].pre, Ev[e].sn) = e)
<1> DEFINE p == Ev[e].pre
           ks == kevers[p]
           d == DecideEvent(e, in)
<1>1. p \in Pre /\ (ks # NoState => ks \in KeyState)
  BY BodyFacts DEF TypeOK, StoresTypeOK
<1>2. ks # NoState => IsHead(ks)
  <2>1. \A x \in KeyState : IsHead(x)
    BY DEF KeyState, IsHead
  <2> QED BY <1>1, <2>1
<1>3. \A kind \in {"ooo", "duplicitous"} : Escrow(kind, in, <<>>).kind \notin {"accept", "duplicate"}
  BY DEF Escrow, Decision
<1>4. \A s : DuplicateDecision(s, e, in).kind = "duplicate"
  BY DEF DuplicateDecision, Decision
<1>5. "duplicate" \notin Kinds /\ Reject.kind = "reject"
  BY DEF Kinds, EscrowKind, Reject, Decision
<1>6. CASE ks = NoState
  BY <1>3, <1>5, <1>6, InceptionAccepts DEF DecideEvent
<1>7. CASE ks # NoState /\ Ev[e].ilk = "icp"
  BY <1>3, <1>4, <1>5, <1>7 DEF DecideEvent
<1>8. CASE ks # NoState /\ Ev[e].ilk # "icp" /\ Known(ks, e)
  BY <1>4, <1>8 DEF DecideEvent, Known
<1>9. CASE ks # NoState /\ Ev[e].ilk # "icp" /\ ~Known(ks, e) /\ Ev[e].sn > ks.s + 1
  BY <1>3, <1>9 DEF DecideEvent
<1>10. CASE ks # NoState /\ Ev[e].ilk # "icp" /\ ~Known(ks, e) /\ ~(Ev[e].sn > ks.s + 1)
  <2>1. d = EvaluateUpdate(ks, e, in)
    BY <1>10 DEF DecideEvent
  <2> QED BY <1>2, <1>5, <1>10, <2>1, UpdateAccepts
<1> QED BY <1>6, <1>7, <1>8, <1>9, <1>10

(* The live key state is the durable one, or, of no local habitat, none.   *)
CacheBehind ==
    \A p \in Pre : kevers[p] = states[p] \/ (p \notin Habs /\ kevers[p] = NoState)

OrderInv == TypeOK /\ CacheBehind /\ WriteOrder

LEMMA CacheStaysBehind ==
    ASSUME TypeOK, CacheBehind,
           \/ CacheRead /\ UNCHANGED states
           \/ kevers' = Reloaded(states')
           \/ \E p \in Pre : \E ks : /\ states' = [states EXCEPT ![p] = ks]
                                     /\ kevers' = [kevers EXCEPT ![p] = ks]
    PROVE  CacheBehind'
<1>1. kevers \in [Pre -> KeyState \cup {NoState}] /\ states \in [Pre -> KeyState \cup {NoState}]
  BY DEF TypeOK, StoresTypeOK
<1>2. CASE CacheRead /\ UNCHANGED states
  BY <1>1, <1>2 DEF CacheRead, Rehydrated, GetKever, CacheBehind
<1>3. CASE kevers' = Reloaded(states')
  BY <1>3 DEF Reloaded, CacheBehind
<1>4. ASSUME NEW p \in Pre, NEW ks, states' = [states EXCEPT ![p] = ks],
             kevers' = [kevers EXCEPT ![p] = ks]
      PROVE  CacheBehind'
  BY <1>1, <1>4 DEF CacheBehind
<1> QED BY <1>2, <1>3, <1>4

(* The cache after a step that decides an event.                           *)
LEMMA EventStepCache ==
    ASSUME TypeOK, CacheBehind, NEW e \in Event, NEW n, NEW rows, NEW in,
           EventStep(e, in, n, rows)
    PROVE  CacheBehind'
<1> DEFINE d == DecideEvent(e, in)
<1>0. Ev[e].pre \in Pre
  BY BodyFacts
<1>1. CASE kevers' = Reloaded(states')
  BY <1>1, CacheStaysBehind
<1>2. CASE n = AllWrites /\ kevers' = LiveAfter(e, d) /\ d.kind = "accept"
  <2>1. PinState(n, Ev[e].pre, SeenState(e, d))
    BY <1>2 DEF EventStep, Apply, EscrowKind
  <2>2. states' = [states EXCEPT ![Ev[e].pre] = SeenState(e, d)]
    BY <1>2, <2>1 DEF PinState, AllWrites
  <2>3. kevers' = [kevers EXCEPT ![Ev[e].pre] = SeenState(e, d)]
    BY <1>2 DEF LiveAfter
  <2> QED BY <1>0, <2>2, <2>3, CacheStaysBehind
<1>3. CASE kevers' = LiveAfter(e, d) /\ d.kind # "accept"
  <2>1. kevers' = kevers /\ states' = states
    BY <1>3 DEF EventStep, Apply, LiveAfter
  <2> QED BY <2>1, CacheStaysBehind DEF CacheRead
<1> QED BY <1>1, <1>2, <1>3 DEF EventStep

LEMMA RangeAppend ==
    ASSUME NEW S, NEW list \in Seq(S), NEW x
    PROVE  Range(Append(list, x)) = Range(list) \cup {x}
<1>1. DOMAIN Append(list, x) = 1..(Len(list) + 1) /\ DOMAIN list = 1..Len(list)
      /\ Append(list, x)[Len(list) + 1] = x
      /\ \A i \in 1..Len(list) : Append(list, x)[i] = list[i]
  OBVIOUS
<1> HIDE DEF Range
<1> QED BY <1>1 DEF Range

(* What is stored of an event in the key event log.                        *)
Complete(p, x) == x \in evts /\ esrs[x] # "none" /\ fons[x] # 0 /\ x \in Accepted(p)

LEMMA CompleteStays ==
    ASSUME MaterialTypes, LogTypes, NEW n \in Nat, NEW e \in Event, NEW sg, NEW wg, NEW wt,
           NEW local \in BOOLEAN, StoreMaterial(n, e, sg, wg, wt, local),
           LogWrites(e) \/ UNCHANGED <<kels, fels, fons>>
    PROVE  /\ \A p \in Pre : \A x \in Event : Complete(p, x) => Complete(p, x)'
           /\ n >= 8 => e \in evts' /\ esrs'[e] # "none"
<1> DEFINE q == Ev[e].pre
<1>1. q \in Pre /\ fels[q] \in Seq(Event) /\ Len(fels[q]) + 1 # 0
  BY BodyFacts DEF LogTypes
<1>2. evts \subseteq evts' /\ (n >= 8 => e \in evts')
  BY DEF StoreMaterial
<1>3. \A x \in Event : esrs'[x] = esrs[x] \/ esrs'[x] # "none"
  BY DEF StoreMaterial, MaterialTypes, Promote
<1>4. n >= 8 => esrs'[e] # "none"
  BY DEF StoreMaterial, MaterialTypes, Promote
<1>5. \A x \in Event : fons'[x] = fons[x] \/ fons'[x] # 0
  BY <1>1 DEF LogWrites, LogTypes
<1>6. \A p \in Pre : Range(fels[p]) \subseteq Range(fels'[p])
  <2>1. Range(Append(fels[q], e)) = Range(fels[q]) \cup {e}
    BY <1>1, RangeAppend
  <2>2. \A p \in Pre : fels'[p] = fels[p] \/ (p = q /\ fels'[p] = Append(fels[q], e))
    BY <1>1 DEF LogWrites, LogTypes
  <2> QED BY <2>1, <2>2
<1>7. ASSUME NEW p \in Pre, NEW x \in Event, Complete(p, x) PROVE Complete(p, x)'
  BY <1>2, <1>3, <1>5, <1>6, <1>7 DEF Complete, Accepted
<1> QED BY <1>2, <1>4, <1>7

(* The key event log grows by the event at its number, or not at all.      *)
LEMMA KelGrowsBy ==
    ASSUME LogTypes, NEW e \in Event, LogWrites(e), NEW p \in Pre, NEW n \in Sn
    PROVE  /\ Range(kels[p][n]) \subseteq Range(kels'[p][n])
           /\ Range(kels'[p][n]) \subseteq Range(kels[p][n]) \cup {e}
           /\ kels'[p][n] # kels[p][n] => p = Ev[e].pre /\ n = Ev[e].sn
<1> DEFINE col == AddOnce(kels[Ev[e].pre][Ev[e].sn], e)
<1>1. Ev[e].pre \in Pre /\ Ev[e].sn \in Sn /\ kels \in [Pre -> [Sn -> Seq(Event)]]
  BY BodyFacts DEF LogTypes
<1>2. /\ Range(col) = Range(kels[Ev[e].pre][Ev[e].sn]) \cup {e}
  BY <1>1, RangeAppend DEF AddOnce
<1>3. kels' = kels \/ kels' = [kels EXCEPT ![Ev[e].pre][Ev[e].sn] = col]
  BY DEF LogWrites
<1> HIDE DEF col
<1>4. kels'[p][n] = kels[p][n] \/ (p = Ev[e].pre /\ n = Ev[e].sn /\ kels'[p][n] = col)
  BY <1>1, <1>3
<1> QED BY <1>2, <1>4

AllComplete == \A p \in Pre : \A n \in Sn : \A x \in Range(kels[p][n]) : Complete(p, x)
StandsInKel ==
    \A p \in Pre : states[p] # NoState => states[p].d \in Range(kels[p][states[p].s])

LEMMA OrderParts == (WriteOrder <=> AllComplete /\ StandsInKel)
BY DEF WriteOrder, AllComplete, StandsInKel, Complete

LEMMA OrderPartsAfter == (WriteOrder' <=> AllComplete' /\ StandsInKel')
BY DEF WriteOrder, AllComplete, StandsInKel, Complete

(* An event of the key event log is an event.                              *)
LEMMA KelEventsOnly ==
    ASSUME LogTypes, NEW p \in Pre, NEW n \in Sn
    PROVE  Range(kels[p][n]) \subseteq Event
BY DEF LogTypes, Range

(* However many writes of an event reach the disk, what the key event log  *)
(* then holds is complete.                                                 *)
LEMMA EventStepOrder ==
    ASSUME OrderInv, NEW e \in Event, NEW n \in Nat, NEW rows, NEW in,
           EventStep(e, in, n, rows)
    PROVE  WriteOrder'
<1> DEFINE p == Ev[e].pre
           ks == kevers[p]
<1>1. PICK d : d = DecideEvent(e, in)
  OBVIOUS
<1>2. /\ MaterialTypes /\ LogTypes /\ p \in Pre /\ Ev[e].sn \in Sn
      /\ AllComplete /\ StandsInKel
  BY TypesTogether, BodyFacts, OrderParts DEF OrderInv, TypeOK
<1>3. /\ d.kind = "accept" => Moves(ks, e, d.state)
      /\ d.kind = "duplicate" => ks # NoState /\ (ks.d = e \/ LastAt(p, Ev[e].sn) = e)
  BY <1>1, DecidesLive DEF OrderInv
<1>4. in.local \in BOOLEAN /\ Apply(n, e, d, in.local, rows)
  BY <1>1 DEF EventStep
<1>5. d.kind = "duplicate" => Complete(p, e)
  <2>1. ASSUME ks # NoState, ks.d = e PROVE Complete(p, e)
    <3>1. ks = states[p] /\ ks.s \in Sn
      BY <1>2, <2>1 DEF OrderInv, CacheBehind, LogTypes, KeyState
    <3> QED BY <1>2, <2>1, <3>1 DEF AllComplete, StandsInKel
  <2>2. ASSUME LastAt(p, Ev[e].sn) = e PROVE Complete(p, e)
    <3>1. kels[p][Ev[e].sn] # <<>> /\ kels[p][Ev[e].sn] \in Seq(Event)
      BY <1>2, <2>2, EventAssumption DEF LastAt, LogTypes
    <3>2. e \in Range(kels[p][Ev[e].sn])
      BY <1>2, <2>2, <3>1 DEF LastAt, Range
    <3> QED BY <1>2, <3>2 DEF AllComplete
  <2> QED BY <1>3, <2>1, <2>2
<1>6. ASSUME StoreMaterial(n, e, d.sigers, d.wigers, d.wits, in.local), LogWrites(e),
             kels' = kels \/ Complete(p, e)'
      PROVE  AllComplete'
  <2>1. ASSUME NEW q \in Pre, NEW m \in Sn, NEW x \in Range(kels'[q][m])
        PROVE  Complete(q, x)'
    <3>1. CASE x \in Range(kels[q][m])
      <4>1. x \in Event /\ Complete(q, x)
        BY <1>2, <3>1, KelEventsOnly DEF AllComplete
      <4> QED BY <1>2, <1>4, <1>6, <4>1, CompleteStays
    <3>2. CASE x \notin Range(kels[q][m])
      <4>1. x = e /\ q = p /\ kels' # kels
        BY <1>2, <1>6, <2>1, <3>2, KelGrowsBy
      <4> QED BY <1>6, <4>1
    <3> QED BY <3>1, <3>2
  <2> QED BY <2>1 DEF AllComplete
<1>7. ASSUME LogWrites(e), UNCHANGED states PROVE StandsInKel'
  <2>1. ASSUME NEW q \in Pre, states[q] # NoState
        PROVE  states[q].d \in Range(kels'[q][states[q].s])
    <3>1. states[q].s \in Sn
      BY <1>2, <2>1 DEF LogTypes, KeyState
    <3> QED BY <1>2, <1>7, <2>1, <3>1, KelGrowsBy DEF StandsInKel
  <2> QED BY <1>7, <2>1 DEF StandsInKel
<1>8. CASE d.kind = "accept"
  <2> DEFINE seen == SeenState(e, d)
  <2>1. /\ LogEvent(n, e, d.sigers, d.wigers, d.wits, in.local, TRUE) /\ PinState(n, p, seen)
    BY <1>4, <1>8 DEF Apply, EscrowKind
  <2>2. StoreMaterial(n, e, d.sigers, d.wigers, d.wits, in.local) /\ LogWrites(e)
    BY <2>1 DEF LogEvent, LogWrites
  <2>3. ASSUME n >= 8 PROVE Complete(p, e)'
    <3>1. e \in evts' /\ esrs'[e] # "none"
      BY <1>2, <1>4, <2>2, <2>3, CompleteStays
    <3>2. /\ fels' = [fels EXCEPT ![p] = Append(@, e)]
          /\ fons' = [fons EXCEPT ![e] = Len(fels[p]) + 1]
      BY <2>1, <2>3 DEF LogEvent
    <3>3. fons'[e] # 0
      BY <1>2, <3>2 DEF LogTypes
    <3>4. fels[p] \in Seq(Event) /\ fels'[p] = Append(fels[p], e)
      BY <1>2, <3>2 DEF LogTypes
    <3>5. e \in Range(fels'[p])
      BY <3>4, RangeAppend
    <3> QED BY <3>1, <3>3, <3>5 DEF Complete, Accepted
  <2>4. AllComplete'
    <3>1. n >= 8 \/ kels' = kels
      BY <2>1 DEF LogEvent
    <3> QED BY <1>6, <2>2, <2>3, <3>1
  <2>5. CASE n >= 9
    <3>1. states' = [states EXCEPT ![p] = seen]
      BY <2>1, <2>5 DEF PinState
    <3>2. seen.d = e /\ seen.s = Ev[e].sn
      BY <1>3, <1>8 DEF Moves, StandsAt, IsHead, SeenState
    <3>3. kels' = [kels EXCEPT ![p][Ev[e].sn] = AddOnce(@, e)]
      BY <2>1, <2>5 DEF LogEvent
    <3>4. e \in Range(kels'[p][Ev[e].sn])
      <4>1. kels'[p][Ev[e].sn] = AddOnce(kels[p][Ev[e].sn], e)
            /\ kels[p][Ev[e].sn] \in Seq(Event)
        BY <1>2, <3>3 DEF LogTypes, AddOnce
      <4> QED BY <4>1, RangeAppend DEF AddOnce
    <3>5. ASSUME NEW q \in Pre, states'[q] # NoState
          PROVE  states'[q].d \in Range(kels'[q][states'[q].s])
      <4>1. CASE q = p
        BY <1>2, <3>1, <3>2, <3>4, <4>1 DEF LogTypes
      <4>2. CASE q # p
        <5>1. states'[q] = states[q]
          BY <1>2, <3>1, <4>2 DEF LogTypes
        <5>2. states[q].s \in Sn
          BY <1>2, <3>5, <5>1 DEF LogTypes, KeyState
        <5> QED BY <1>2, <2>2, <3>5, <5>1, <5>2, KelGrowsBy DEF StandsInKel
      <4> QED BY <4>1, <4>2
    <3> QED BY <2>4, <3>5, OrderPartsAfter DEF StandsInKel
  <2>6. CASE ~(n >= 9)
    <3>1. UNCHANGED states
      BY <2>1, <2>6 DEF PinState
    <3> QED BY <1>7, <2>2, <2>4, <3>1, OrderPartsAfter
  <2> QED BY <2>5, <2>6
<1>9. CASE d.kind = "duplicate" /\ NewAttachments(d)
  <2>1. LogEvent(n, e, d.sigers, d.wigers, d.wits, in.local, FALSE) /\ UNCHANGED states
    BY <1>4, <1>9 DEF Apply, EscrowKind
  <2>2. StoreMaterial(n, e, d.sigers, d.wigers, d.wits, in.local) /\ LogWrites(e)
    BY <2>1 DEF LogEvent, LogWrites
  <2>3. Complete(p, e)'
    BY <1>2, <1>4, <1>5, <1>9, <2>2, CompleteStays
  <2> QED BY <1>6, <1>7, <2>1, <2>2, <2>3, OrderPartsAfter
<1>10. CASE d.kind = "reject" \/ (d.kind = "duplicate" /\ ~NewAttachments(d))
  <2>1. UNCHANGED <<evts, esrs, kels, fels, fons, states>>
    BY <1>4, <1>10 DEF Apply, EscrowKind
  <2> QED BY <2>1 DEF OrderInv, WriteOrder, Accepted
<1>11. CASE d.kind \in EscrowKind
  <2>1. /\ StoreMaterial(n, e, d.sigers, d.wigers, d.wits, in.local)
        /\ UNCHANGED <<kels, fels, fons, states>>
    BY <1>4, <1>11 DEF Apply, PersistEscrow, EscrowKind
  <2>2. LogWrites(e)
    BY <2>1 DEF LogWrites
  <2> QED BY <1>6, <1>7, <2>1, <2>2, OrderPartsAfter
<1> QED BY <1>4, <1>8, <1>9, <1>10, <1>11 DEF Apply

LEMMA OrderInvKept ==
    ASSUME OrderInv, [AnyStep]_vars
    PROVE  OrderInv'
<1>1. TypeOK'
  BY NextKeepsTypes DEF OrderInv
<1>2. CASE SomeEventStep
  <2>1. PICK e \in Event, n \in Nat, rows \in [EscrowKind -> SUBSET Event] :
           \E in : EventStep(e, in, n, rows)
    BY <1>2 DEF SomeEventStep
  <2>2. PICK in : EventStep(e, in, n, rows)
    BY <2>1
  <2> QED BY <1>1, <2>2, EventStepOrder, EventStepCache DEF OrderInv
<1>3. CASE OtherStep
  <2>1. UNCHANGED <<evts, esrs, kels, fels, fons, states>>
    BY <1>3 DEF OtherStep, eventStores
  <2>2. WriteOrder'
    BY <2>1 DEF OrderInv, WriteOrder, Accepted
  <2>3. CacheBehind'
    <3>1. CacheRead \/ kevers' = Reloaded(states')
      BY <1>3, <2>1 DEF OtherStep
    <3> QED BY <2>1, <3>1, CacheStaysBehind DEF OrderInv
  <2> QED BY <1>1, <2>2, <2>3 DEF OrderInv
<1> QED BY <1>2, <1>3, StepKinds DEF OrderInv

(***************************************************************************)
(* The order of the writes of logEvent and pinState, at whichever write of *)
(* whichever handler the node stops: an event in the key event log has its *)
(* body, its source and its first-seen ordinal stored, and the durable key *)
(* state stands at an event of the key event log.                          *)
(***************************************************************************)
THEOREM WritesOrdered == CrashSpec => []WriteOrder
<1>1. Init => OrderInv
  <2> SUFFICES ASSUME Init PROVE OrderInv
    OBVIOUS
  <2>1. TypeOK
    BY InitTypes
  <2>2. CacheBehind
    BY DEF Init, InitStores, CacheBehind
  <2>3. \A p \in Pre : states[p] = NoState /\ \A n \in Sn : Range(kels[p][n]) = {}
    BY DEF Init, InitStores, Range
  <2>4. WriteOrder
    BY <2>3 DEF WriteOrder
  <2> QED BY <2>1, <2>2, <2>4 DEF OrderInv
<1>2. OrderInv /\ [Next \/ Restart \/ Crash]_vars => OrderInv'
  BY OrderInvKept DEF AnyStep
<1>3. OrderInv => WriteOrder
  BY DEF OrderInv
<1> QED BY <1>1, <1>2, <1>3, PTL DEF CrashSpec

------------------------------------------------------------------------------
(* The durable key state through crashes *)

StateNumbered ==
    \A p \in Pre : states[p] # NoState =>
        states[p].fn <= Len(fels[p]) /\ states[p].est.s <= states[p].s

DurableInv == TypeOK /\ CacheBehind /\ StateNumbered

(* What a move from ks numbers.                                            *)
LEMMA MovesUp ==
    ASSUME NEW e \in Event, NEW n, NEW ks, Moves(ks, e, n),
           ks # NoState => ks \in KeyState /\ ks.est.s <= ks.s
    PROVE  /\ n.est.s <= n.s
           /\ ks # NoState => n.est.s >= ks.est.s
<1>1. Ev[e].sn \in Nat /\ n.s = Ev[e].sn
  BY BodyFacts DEF Moves, StandsAt
<1>2. ks # NoState => ks.s \in Nat /\ ks.est.s \in Nat
  BY DEF KeyState, Sn
<1> QED BY <1>1, <1>2 DEF Moves, Incepts, Rotates, Interacts, Follows, Recovers

(* How a decision changes the durable states: not at all, or by a move of  *)
(* the live one, first seen at the end of the log.                         *)
LEMMA EventStepStates ==
    ASSUME DurableInv, NEW e \in Event, NEW n \in Nat, NEW rows, NEW in,
           EventStep(e, in, n, rows)
    PROVE  /\ \A p \in Pre : Len(fels[p]) <= Len(fels'[p])
           /\ \/ UNCHANGED states
              \/ \E m : /\ Moves(kevers[Ev[e].pre], e, m)
                        /\ states' = [states EXCEPT ![Ev[e].pre] =
                                        [m EXCEPT !.fn = Len(fels[Ev[e].pre]) + 1]]
                        /\ fels' = [fels EXCEPT ![Ev[e].pre] = Append(@, e)]
<1> DEFINE p == Ev[e].pre
<1>1. PICK d : d = DecideEvent(e, in)
  OBVIOUS
<1>2. Apply(n, e, d, in.local, rows) /\ (d.kind = "accept" => Moves(kevers[p], e, d.state))
  BY <1>1, DecidesLive DEF EventStep, DurableInv
<1>3. p \in Pre /\ fels \in [Pre -> Seq(Event)]
  BY BodyFacts DEF DurableInv, TypeOK, StoresTypeOK
<1>4. fels' = fels \/ fels' = [fels EXCEPT ![p] = Append(@, e)]
  BY <1>2 DEF Apply, LogEvent
<1>5. \A q \in Pre : Len(fels[q]) <= Len(fels'[q])
  <2>1. fels[p] \in Seq(Event) /\ Len(fels[p]) \in Nat /\ Len(Append(fels[p], e)) = Len(fels[p]) + 1
    BY <1>3
  <2>2. \A q \in Pre : fels'[q] = fels[q] \/ (q = p /\ fels'[q] = Append(fels[p], e))
    BY <1>3, <1>4
  <2>3. \A q \in Pre : Len(fels[q]) \in Nat
    BY <1>3
  <2> QED BY <2>1, <2>2, <2>3
<1>6. CASE d.kind = "accept"
  <2>1. PinState(n, p, SeenState(e, d)) /\ LogEvent(n, e, d.sigers, d.wigers, d.wits, in.local, TRUE)
    BY <1>2, <1>6 DEF Apply, EscrowKind
  <2>2. CASE n >= 9
    <3>1. fels' = [fels EXCEPT ![p] = Append(@, e)]
      BY <2>1, <2>2 DEF LogEvent
    <3>2. states' = [states EXCEPT ![p] = [d.state EXCEPT !.fn = Len(fels[p]) + 1]]
      BY <2>1, <2>2 DEF PinState, SeenState
    <3> QED BY <1>2, <1>5, <1>6, <3>1, <3>2
  <2>3. CASE ~(n >= 9)
    BY <1>5, <2>1, <2>3 DEF PinState
  <2> QED BY <2>2, <2>3
<1>7. CASE d.kind # "accept"
  BY <1>2, <1>5, <1>7 DEF Apply
<1> QED BY <1>6, <1>7

LEMMA EventStepDurable ==
    ASSUME DurableInv, NEW e \in Event, NEW n \in Nat, NEW rows, NEW in,
           EventStep(e, in, n, rows)
    PROVE  /\ StateNumbered'
           /\ \A p \in Pre \cap Habs : states[p] # NoState /\ states'[p] # states[p] =>
                 states'[p].est.s >= states[p].est.s /\ states'[p].fn > states[p].fn
<1> DEFINE p == Ev[e].pre
           ks == kevers[p]
<1>1. /\ p \in Pre /\ states \in [Pre -> KeyState \cup {NoState}]
      /\ fels \in [Pre -> Seq(Event)]
      /\ ks = states[p] \/ (p \notin Habs /\ ks = NoState)
  BY BodyFacts DEF DurableInv, TypeOK, StoresTypeOK, CacheBehind
<1>2. ks # NoState => ks \in KeyState /\ ks.est.s <= ks.s /\ ks.fn <= Len(fels[p])
  BY <1>1 DEF DurableInv, StateNumbered
<1>3. \A q \in Pre : /\ Len(fels[q]) \in Nat /\ Len(fels'[q]) >= Len(fels[q])
                     /\ Len(fels'[q]) \in Nat
                     /\ states[q] # NoState => states[q].fn \in Nat
  <2>1. \A q \in Pre : Len(fels[q]) <= Len(fels'[q])
    BY EventStepStates
  <2>2. fels' \in [Pre -> Seq(Event)]
    BY EventStepTyped DEF DurableInv, LogTypes
  <2>3. \A q \in Pre : states[q] # NoState => states[q].fn \in Nat
    BY <1>1 DEF KeyState
  <2>4. \A q \in Pre : Len(fels[q]) \in Nat /\ Len(fels'[q]) \in Nat
    BY <1>1, <2>2
  <2> QED BY <2>1, <2>3, <2>4
<1>4. CASE UNCHANGED states
  BY <1>3, <1>4 DEF DurableInv, StateNumbered
<1>5. ASSUME NEW m, Moves(ks, e, m),
             states' = [states EXCEPT ![p] = [m EXCEPT !.fn = Len(fels[p]) + 1]],
             fels' = [fels EXCEPT ![p] = Append(@, e)]
      PROVE  /\ StateNumbered'
             /\ \A q \in Pre \cap Habs : states[q] # NoState /\ states'[q] # states[q] =>
                   states'[q].est.s >= states[q].est.s /\ states'[q].fn > states[q].fn
  <2>1. m.est.s <= m.s /\ (ks # NoState => m.est.s >= ks.est.s)
    BY <1>2, <1>5, MovesUp
  <2>2. /\ states'[p].est.s = m.est.s /\ states'[p].s = m.s
        /\ states'[p].fn = Len(fels[p]) + 1
    BY <1>1, <1>5 DEF Moves, StandsAt, IsHead
  <2>3. \A q \in Pre : q # p => states'[q] = states[q]
    BY <1>1, <1>5
  <2>4. Len(fels'[p]) = Len(fels[p]) + 1
    <3>1. fels'[p] = Append(fels[p], e) /\ fels[p] \in Seq(Event)
      BY <1>1, <1>5
    <3> QED BY <3>1
  <2>5. StateNumbered'
    BY <1>3, <2>1, <2>2, <2>3, <2>4 DEF DurableInv, StateNumbered
  <2> QED BY <1>1, <1>2, <1>3, <2>1, <2>2, <2>3, <2>5
<1> QED BY <1>4, <1>5, EventStepStates

(***************************************************************************)
(* applyDecision, reloadKevers: whichever write of whichever handler the   *)
(* node stops at, and however often, the durable key state of an           *)
(* identifier of this node is never taken back behind its last             *)
(* establishment event, and each change of it is first seen later.         *)
(***************************************************************************)
THEOREM LocalStateNeverRollsBack ==
    CrashSpec => [][\A p \in Pre \cap Habs : states[p] # NoState /\ states'[p] # states[p] =>
                        states'[p].est.s >= states[p].est.s
                        /\ states'[p].fn > states[p].fn]_vars
<1> DEFINE Advances ==
             \A p \in Pre \cap Habs : states[p] # NoState /\ states'[p] # states[p] =>
                 states'[p].est.s >= states[p].est.s /\ states'[p].fn > states[p].fn
<1>1. Init => DurableInv
  <2> SUFFICES ASSUME Init PROVE DurableInv
    OBVIOUS
  <2>1. TypeOK
    BY InitTypes
  <2>2. CacheBehind /\ StateNumbered
    BY DEF Init, InitStores, CacheBehind, StateNumbered
  <2> QED BY <2>1, <2>2 DEF DurableInv
<1>2. DurableInv /\ [Next \/ Restart \/ Crash]_vars => DurableInv' /\ Advances
  <2> SUFFICES ASSUME DurableInv, [AnyStep]_vars PROVE DurableInv' /\ Advances
    BY DEF AnyStep
  <2>1. TypeOK'
    BY NextKeepsTypes DEF DurableInv
  <2>2. CASE SomeEventStep
    <3>1. PICK e \in Event, n \in Nat, rows \in [EscrowKind -> SUBSET Event] :
             \E in : EventStep(e, in, n, rows)
      BY <2>2 DEF SomeEventStep
    <3>2. PICK in : EventStep(e, in, n, rows)
      BY <3>1
    <3>3. CacheBehind'
      BY <3>2, EventStepCache DEF DurableInv
    <3> QED BY <2>1, <3>2, <3>3, EventStepDurable DEF DurableInv
  <2>3. CASE OtherStep
    <3>1. UNCHANGED <<fels, states>>
      BY <2>3 DEF OtherStep, eventStores
    <3>2. StateNumbered' /\ Advances
      BY <3>1 DEF DurableInv, StateNumbered
    <3>3. CacheRead \/ kevers' = Reloaded(states')
      BY <2>3, <3>1 DEF OtherStep
    <3>4. CacheBehind'
      BY <3>1, <3>3, CacheStaysBehind DEF DurableInv
    <3> QED BY <2>1, <3>2, <3>4 DEF DurableInv
  <2> QED BY <2>2, <2>3, StepKinds DEF DurableInv
<1>3. DurableInv /\ [Next \/ Restart \/ Crash]_vars => [Advances]_vars
  BY <1>2
<1>4. DurableInv /\ [Next \/ Restart \/ Crash]_vars => DurableInv'
  BY <1>2
<1> HIDE DEF Advances
<1>5. CrashSpec => [][Advances]_vars
  BY <1>1, <1>3, <1>4, PTL DEF CrashSpec
<1> QED BY <1>5 DEF Advances

(***************************************************************************)
(* The same of a node that follows no identifiers but its own.             *)
(***************************************************************************)
THEOREM StateAdvancesThroughCrashes ==
    ASSUME Pre \subseteq Habs PROVE CrashSpec => StateNeverRollsBack
<1> DEFINE Up(p) == states[p] # NoState /\ states'[p] # states[p] =>
                       states'[p].est.s >= states[p].est.s /\ states'[p].fn > states[p].fn
           Local == \A p \in Pre \cap Habs : Up(p)
           All == \A p \in Pre : Up(p)
<1>1. [Local]_vars => [All]_vars
  BY DEF Up
<1>2. CrashSpec => [][Local]_vars
  BY LocalStateNeverRollsBack
<1>3. CrashSpec => [][All]_vars
  <2> HIDE DEF Local, All
  <2> QED BY <1>1, <1>2, PTL
<1> QED BY <1>3 DEF StateNeverRollsBack
==============================================================================
